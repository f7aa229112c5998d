----------------------------- MODULE Lifecycle -----------------------------
(***************************************************************************)
(* The attempt lifecycle: every component over the same rows, and what the *)
(* whole promises.                                                         *)
(***************************************************************************)
EXTENDS AttemptService, Orchestrator, TerminalGateway, GradingEngine,
        AdminControls

\* What a handler does next by itself.
Step(h) ==
    \/ StatusRead(h) \/ StatusWrite(h)
    \/ h \in Requests /\ (AttemptStep(h) \/ TerminalStep(h) \/ AdminStep(h))
    \/ h \in Workers /\ (\/ AttemptStep(h) \/ OrchestratorStep(h) \/ GradingStep(h)
                         \/ CompleteJob(h) \/ RetryJob(h))
    \/ h = Reconciler /\ ReconcileStep

\* What people, time and failures do.
Arrival == AttemptRequests \/ TerminalRequests \/ AdminRequests

Disturbance ==
    \/ \E h \in Handlers : Cancel(h)
    \/ \E w \in Workers : DiscardJob(w)
    \/ Crash

FetchJob(kind, a) == \E w \in Workers : StartJob(w, kind, a)

Passage(a) == Age(a) \/ ExamTimer(a)

Init == PlatformInit

Next ==
    \/ \E h \in Handlers : Step(h)
    \/ \E kind \in JobKinds, a \in Attempts : FetchJob(kind, a)
    \/ \E a \in Attempts : Reconcile(a) \/ Passage(a)
    \/ Arrival
    \/ Disturbance

Spec == Init /\ [][Next]_vars

\* A started handler runs on; River fetches jobs in the order of their
\* scheduled time, so none waits for ever while workers become free; the
\* ticker visits every listed attempt; half an hour passes.  No student or
\* administrator has to do anything, and nothing has to fail.
Fairness ==
    /\ \A h \in Handlers : WF_vars(Step(h))
    /\ \A kind \in JobKinds, a \in Attempts : SF_vars(FetchJob(kind, a))
    /\ \A a \in Attempts : SF_vars(Reconcile(a)) /\ WF_vars(Age(a))

FairSpec == Spec /\ Fairness

-----------------------------------------------------------------------------
(* Safety                                                                  *)

\* The purchase can never be driven below zero, although RequestAttempt checks
\* the count it read and decrements later (service.go:48-52): two requests may
\* both pass the check for the last attempt.
AttemptsRemainingNonNegative == remaining >= 0

\* Statuses of an attempt that was given its environment and may be used or
\* has been used.
GivenStatuses == {"environment_ready", "terminal_opened", "running", "submitted",
                  "expired", "expired_running", "grading", "scored"}
Given == {a \in Attempts : status[a] \in GivenStatuses}

\* A purchase never yields more usable attempts than were bought: what was
\* given and what may still be requested stay within Allowed, whatever
\* refunds, retried jobs and crashes happen, as long as no administrator
\* retries a provisioning (service.go:52-71, provision_job.go:229-238).
NoOverbooking == remaining + Cardinality(Given) <= Allowed

\* An attempt is shown as ready, and is opened, submitted and graded, only if
\* its environment row and its session exist (provision_job.go:161-216): the
\* gateway and the grader rely on finding them.
HasSession(a) == \E e \in Envs : owner[e] = a /\ session[e] # None
SessionBeforeReady == \A a \in Given : HasSession(a)

\* Grading runs only after submission or expiry, whatever jobs are queued or
\* retried: a grading or scored attempt, and one with a score, has ended
\* (engine.go:52, architecture.md "Grading").
GradedOnlyAfterEnd ==
    \A a \in Attempts :
        score[a] # None \/ status[a] \in {"grading", "scored"} => ended[a]

\* While an attempt can be opened or used, the VMs behind its sessions are there:
\* no cleanup job of its own reaches them (provision_job.go:240-274), although a
\* second cleanup of another attempt may, so that they are lost.  It holds while
\* provisioning does not take 30 minutes and no administrator intervenes.
EnvironmentUpWhileActive ==
    \A a \in Attempts, e \in Envs :
        /\ status[a] \in ActiveStatuses
        /\ owner[e] = a
        /\ session[e] # None
        => vm[e] \in {"up", "lost"}

\* A score, once written, is the score: crashes, redelivered jobs and failed
\* statements never grade an attempt a second time, when its environment may
\* be gone.  It holds for one submission at a time and no regrading by an
\* administrator (engine.go:52-98).
ScoreFinal ==
    [][\A a \in Attempts : score[a] # None => score'[a] = score[a]]_vars

\* An attempt whose exam ended is never provisioned or handed out again, and
\* cannot be running again, whatever stale jobs are delivered
\* (provision_job.go:40-43).
NoReturnAfterEnd ==
    [][\A a \in Attempts : ended[a] /\ status'[a] # status[a] =>
            status'[a] \in {"submitted", "expired", "grading", "scored"}]_vars

-----------------------------------------------------------------------------
(* What the student is promised                                            *)

\* What a status means to the student.
Phase(s) ==
    CASE s \in {"attempt_requested", "environment_provisioning"} -> "pending"
      [] s = "provision_failed" -> "failed"
      [] s = "environment_ready" -> "ready"
      [] s \in {"terminal_opened", "running"} -> "open"
      [] s \in {"submitted", "expired", "expired_running", "grading"} -> "over"
      [] s = "scored" -> "graded"
      [] OTHER -> "absent"

\* What became of the VMs that a terminal token of the attempt leads to.
Leads(a, fate) == \E e \in Envs : owner[e] = a /\ session[e] # None /\ vm[e] = fate

MachineOf(a) ==
    IF Leads(a, "up") THEN "up" ELSE IF Leads(a, "lost") THEN "lost" ELSE "none"

\* GET /attempts/{attemptID}/score answers once the attempt is scored.
Shown(a) == IF status[a] = "scored" THEN score[a] ELSE None

Life == INSTANCE AttemptLife WITH
    Results <- Scores \ {None},
    phase <- [a \in Attempts |-> Phase(status[a])],
    machine <- [a \in Attempts |-> MachineOf(a)],
    result <- [a \in Attempts |-> Shown(a)]

\* Whatever jobs, retries, crashes and failed statements do to the rows, the
\* student sees an attempt go forward, on a machine that nothing of his own
\* attempt takes until it is graded, to one result; a second cleanup of another
\* attempt may take it.  It holds for one submission at a time, while
\* provisioning does not take 30 minutes and no administrator intervenes
\* (provision_job.go:40-43, engine.go:52-98, scoring/handler.go:63-66).
KeepsLife == Life!Spec

-----------------------------------------------------------------------------
(* Liveness                                                                *)

\* An attempt does not stay in provisioning: the job, its retry, or the
\* reconciler after 30 minutes takes it out (reconciler.go:44-59), even when
\* the job was lost with a cancelled context.
ProvisioningResolves ==
    \A a \in Attempts :
        status[a] = "environment_provisioning"
            ~> status[a] # "environment_provisioning"

\* The environment of a scored attempt is reclaimed although the cleanup job
\* may never have been enqueued or may have given up on a failed read
\* (engine.go:100-103, reconciler.go:73-99).  An attempt with several
\* environments is left out: GetByAttemptID returns any one of them.
ScoredReclaimed ==
    \A a \in Attempts, e \in Envs :
        status[a] = "scored" /\ EnvsOf(a) = {e} ~> envStatus[e] = "destroyed"

\* An attempt that ended gets its score, also when the submission and the
\* expiry of the same exam race: both may pass the check for "running", and the
\* late one takes back what grading already did, so that grading has to be
\* rescued by a failing transition and a retried or second job
\* (submit.go:28-37, expire.go:33-43, engine.go:52-98).
EndedGetsScored == \A a \in Attempts : ended[a] ~> status[a] = "scored"

-----------------------------------------------------------------------------
(* What the documents say and the code does not do                         *)

\* admin.md:254-260, troubleshooting.md:486-549: an attempt stuck in grading is
\* graded by a grading job that is run again, be it River's retry or the
\* administrator's retry-grade.
GradingRetried ==
    \A a \in Attempts :
        status[a] = "grading" /\ queue["grade_attempt", a] > 0
            ~> status[a] = "scored"
=============================================================================
