---------------------------- MODULE Orchestrator ----------------------------
(***************************************************************************)
(* internal/orchestrator: the provision_environment and                    *)
(* cleanup_environment jobs, and the reconciler.  The provider and the     *)
(* provisioner are calls that take one step each.                          *)
(***************************************************************************)
EXTENDS Platform

-----------------------------------------------------------------------------
(* handleProvisionEnvironment                                              *)

ProvisionStart(w) ==
    /\ At(w, "provision_environment", "start")
    /\ \/ /\ Works(w)
          /\ CASE status[Att(w)] = "attempt_requested" ->
                        CallTransition(w, "environment_provisioning")
               [] status[Att(w)] = "environment_provisioning" ->
                        Goto(w, "build")
               [] OTHER -> Goto(w, "done")
       \/ Fails(w) /\ Goto(w, "failed")
    /\ UNCHANGED rows

\* Loading the purchase, test and scenario, then Provider.CreateEnvironment.
\* A failed load is returned to River; a failed CreateEnvironment is not, and
\* it may leave the VMs it already cloned.
ProvisionBuild(w) ==
    /\ At(w, "provision_environment", "build")
    /\ \/ \E e \in Envs :
            /\ vm[e] = None
            /\ vm' = [vm EXCEPT ![e] = "up"]
            /\ \/ /\ Works(w)
                  /\ GotoWith(w, "record", e)
               \/ Fails(w) /\ CallTransition(w, "provision_failed")
       \/ Fails(w) /\ CallTransition(w, "provision_failed") /\ UNCHANGED vm
       \/ Fails(w) /\ Goto(w, "failed") /\ UNCHANGED vm
    /\ UNCHANGED <<remaining, attemptRows, aged, owner, envStatus, session, queue>>

\* Bug: the attempt's status is written into the environment.
ProvisionRecordMixedUp(w) ==
    /\ At(w, "provision_environment", "record")
    /\ LET e == call[w].env
       IN  \/ /\ Works(w)
              /\ owner' = [owner EXCEPT ![e] = Att(w)]
              /\ envStatus' = [envStatus EXCEPT ![e] = "environment_ready"]
              /\ Goto(w, "configure")
           \/ /\ Fails(w)
              /\ CallTransition(w, "provision_failed")
              /\ UNCHANGED <<owner, envStatus>>
    /\ UNCHANGED <<remaining, attemptRows, aged, vm, session, queue>>

ProvisionRecord(w) ==
    /\ At(w, "provision_environment", "record")
    /\ LET e == call[w].env
       IN  \/ /\ Works(w)
              /\ owner' = [owner EXCEPT ![e] = Att(w)]
              /\ envStatus' = [envStatus EXCEPT ![e] = "ready"]
              /\ Goto(w, "configure")
           \/ /\ Fails(w)
              /\ CallTransition(w, "provision_failed")
              /\ UNCHANGED <<owner, envStatus>>
    /\ UNCHANGED <<remaining, attemptRows, aged, vm, session, queue>>

\* Provisioner.Provision.
ProvisionConfigure(w) ==
    /\ At(w, "provision_environment", "configure")
    /\ \/ Works(w) /\ Goto(w, "session")
       \/ Fails(w) /\ CallTransition(w, "provision_failed")
    /\ UNCHANGED rows

\* Bug: the error of the insert is not looked at.
ProvisionSessionUnchecked(w) ==
    /\ At(w, "provision_environment", "session")
    /\ \/ Works(w) /\ session' = [session EXCEPT ![call[w].env] = "fresh"]
       \/ Fails(w) /\ UNCHANGED session
    /\ CallTransition(w, "environment_ready")
    /\ UNCHANGED <<remaining, attemptRows, aged, owner, envStatus, vm, queue>>

ProvisionSession(w) ==
    /\ At(w, "provision_environment", "session")
    /\ \/ /\ Works(w)
          /\ session' = [session EXCEPT ![call[w].env] = "fresh"]
          /\ CallTransition(w, "environment_ready")
       \/ /\ Fails(w)
          /\ CallTransition(w, "provision_failed")
          /\ UNCHANGED session
    /\ UNCHANGED <<remaining, attemptRows, aged, owner, envStatus, vm, queue>>

\* The two transitions whose error is returned to River.
ProvisionTransitioned(w) ==
    /\ \/ /\ Returned(w, "provision_environment", "environment_provisioning")
          /\ Goto(w, IF call[w].err THEN "failed" ELSE "build")
       \/ /\ Returned(w, "provision_environment", "environment_ready")
          /\ Goto(w, IF call[w].err THEN "failed" ELSE "done")
    /\ UNCHANGED <<rows, budget>>

\* handleProvisionFailure after its transition: if that failed, nothing more
\* happens and the job still counts as completed.
ProvisionFailureRecorded(w) ==
    /\ Returned(w, "provision_environment", "provision_failed")
    /\ Goto(w, IF call[w].err THEN "done" ELSE "enqueue")
    /\ UNCHANGED <<rows, budget>>

ProvisionFailureEnqueue(w) ==
    /\ At(w, "provision_environment", "enqueue")
    /\ \/ Works(w) /\ Enqueue("cleanup_environment", Att(w))
       \/ Fails(w) /\ UNCHANGED queue
    /\ Goto(w, "refund")
    /\ UNCHANGED <<remaining, attemptRows, aged, envRows>>

\* attempts.Service.RestoreAttemptCount; its error is only logged.
RestoreAttemptCount(w) ==
    /\ At(w, "provision_environment", "refund")
    /\ \/ Works(w) /\ IncrementAttemptsRemaining
       \/ Fails(w) /\ UNCHANGED remaining
    /\ Goto(w, "done")
    /\ UNCHANGED <<attemptRows, aged, envRows, queue>>

-----------------------------------------------------------------------------
(* handleCleanupEnvironment                                                *)

\* Bug: the environment is looked up without the attempt.
CleanupStartAny(w) ==
    /\ At(w, "cleanup_environment", "start")
    /\ \/ /\ Works(w)
          /\ \E e \in {f \in Envs : owner[f] # None} : GotoWith(w, "destroying", e)
       \/ Works(w) /\ EnvsOf(Att(w)) = {} /\ Goto(w, "done")
       \/ Fails(w) /\ Goto(w, "done")
    /\ UNCHANGED rows

\* GetByAttemptID returns some environment of the attempt, whatever its
\* status.  Any error of it is taken for "not found" and ends the job.
CleanupStart(w) ==
    /\ At(w, "cleanup_environment", "start")
    /\ \/ /\ Works(w)
          /\ \E e \in EnvsOf(Att(w)) : GotoWith(w, "destroying", e)
       \/ Works(w) /\ EnvsOf(Att(w)) = {} /\ Goto(w, "done")
       \/ Fails(w) /\ Goto(w, "done")
    /\ UNCHANGED rows

CleanupDestroying(w) ==
    /\ At(w, "cleanup_environment", "destroying")
    /\ \/ /\ Works(w)
          /\ envStatus' = [envStatus EXCEPT ![call[w].env] = "destroying"]
          /\ Goto(w, "destroy")
       \/ Fails(w) /\ Goto(w, "failed") /\ UNCHANGED envStatus
    /\ UNCHANGED <<remaining, attemptRows, aged, owner, vm, session, queue>>

\* The row of an environment keeps the ids of its VMs for ever, and the cluster
\* gives the ids of VMs that are gone to new ones.  So a destruction of what is no
\* longer there gets at VMs of others (here of any others, in the code of those
\* that were built since).
Reached(e) == IF vm[e] = "up" THEN {} ELSE {f \in Envs \ {e} : vm[f] = "up"}

Destroys(e) ==
    \E hit \in SUBSET Reached(e) :
        vm' = [f \in Envs |-> IF f = e THEN "gone"
                              ELSE IF f \in hit THEN "lost" ELSE vm[f]]

\* Provider.DestroyEnvironment.  A provider may report the failure of a stop
\* or a delete, with what it got at before destroyed, or swallow it and report
\* success, as Proxmox does.
CleanupDestroy(w) ==
    /\ At(w, "cleanup_environment", "destroy")
    /\ \/ Works(w) /\ Destroys(call[w].env) /\ Goto(w, "destroyed")
       \/ Fails(w) /\ UNCHANGED vm /\ Goto(w, "destroyed")
       \/ /\ Fails(w)
          /\ Destroys(call[w].env) \/ UNCHANGED vm
          /\ Goto(w, "markFailed")
    /\ UNCHANGED <<remaining, attemptRows, aged, owner, envStatus, session, queue>>

CleanupMarkFailed(w) ==
    /\ At(w, "cleanup_environment", "markFailed")
    /\ \/ Works(w) /\ envStatus' = [envStatus EXCEPT ![call[w].env] = "failed"]
       \/ Fails(w) /\ UNCHANGED envStatus
    /\ Goto(w, "failed")
    /\ UNCHANGED <<remaining, attemptRows, aged, owner, vm, session, queue>>

CleanupDestroyed(w) ==
    /\ At(w, "cleanup_environment", "destroyed")
    /\ \/ /\ Works(w)
          /\ envStatus' = [envStatus EXCEPT ![call[w].env] = "destroyed"]
          /\ CallTransition(w, "destroyed")
       \/ Fails(w) /\ Goto(w, "failed") /\ UNCHANGED envStatus
    /\ UNCHANGED <<remaining, attemptRows, aged, owner, vm, session, queue>>

\* The result of the last transition is ignored.
CleanupTransitioned(w) ==
    /\ Returned(w, "cleanup_environment", "destroyed")
    /\ Goto(w, "done")
    /\ UNCHANGED <<rows, budget>>

-----------------------------------------------------------------------------
(* Reconciler.  A tick goes through lists of attempts, each of which it     *)
(* handles independently of the others; an action starts on one attempt.   *)

\* Bug: the list of attempts that were only requested.
ReconcileRequested(a) ==
    /\ status[a] = "attempt_requested"
    /\ a \in aged
    /\ Begin(Reconciler, [Invocation("reconcile", a, None, "readStatus")
                            EXCEPT !.to = "provision_failed"])
    /\ UNCHANGED <<rows, budget>>

ReconcileStale(a) ==
    /\ status[a] = "environment_provisioning"
    /\ a \in aged
    /\ Begin(Reconciler, [Invocation("reconcile", a, None, "readStatus")
                            EXCEPT !.to = "provision_failed"])
    /\ UNCHANGED <<rows, budget>>

\* The result of the transition is ignored: cleanup is enqueued either way.
ReconcileTransitioned ==
    /\ Returned(Reconciler, "reconcile", "provision_failed")
    /\ Goto(Reconciler, "enqueue")
    /\ UNCHANGED <<rows, budget>>

\* Bug: one more status, or one less, in the list of terminal statuses.
NeedsCleanupWhenReady(a) ==
    \/ status[a] = "cleanup_pending"
    \/ /\ status[a] \in {"scored", "expired_before_start", "environment_ready"}
       /\ \E e \in EnvsOf(a) : envStatus[e] # "destroyed"

NeedsCleanupUnscored(a) ==
    \/ status[a] = "cleanup_pending"
    \/ /\ status[a] = "expired_before_start"
       /\ \E e \in EnvsOf(a) : envStatus[e] # "destroyed"

\* Some environment of the attempt is found and is not destroyed.
NeedsCleanup(a) ==
    \/ status[a] = "cleanup_pending"
    \/ /\ status[a] \in {"scored", "expired_before_start"}
       /\ \E e \in EnvsOf(a) : envStatus[e] # "destroyed"

ReconcileTerminal(a) ==
    /\ NeedsCleanup(a)
    /\ Begin(Reconciler, Invocation("reconcile", a, None, "enqueue"))
    /\ UNCHANGED <<rows, budget>>

ReconcileEnqueue ==
    /\ At(Reconciler, "reconcile", "enqueue")
    /\ \/ Works(Reconciler) /\ Enqueue("cleanup_environment", Att(Reconciler))
       \/ Fails(Reconciler) /\ UNCHANGED queue
    /\ Return(Reconciler)
    /\ UNCHANGED <<remaining, attemptRows, aged, envRows>>

-----------------------------------------------------------------------------
Reconcile(a) == ReconcileStale(a) \/ ReconcileTerminal(a)

ReconcileStep == ReconcileTransitioned \/ ReconcileEnqueue

OrchestratorStep(w) ==
    \/ ProvisionStart(w) \/ ProvisionBuild(w) \/ ProvisionRecord(w)
    \/ ProvisionConfigure(w) \/ ProvisionSession(w) \/ ProvisionTransitioned(w)
    \/ ProvisionFailureRecorded(w) \/ ProvisionFailureEnqueue(w)
    \/ RestoreAttemptCount(w)
    \/ CleanupStart(w) \/ CleanupDestroying(w) \/ CleanupDestroy(w)
    \/ CleanupMarkFailed(w) \/ CleanupDestroyed(w) \/ CleanupTransitioned(w)
=============================================================================
