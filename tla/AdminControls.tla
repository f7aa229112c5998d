--------------------------- MODULE AdminControls ---------------------------
(***************************************************************************)
(* internal/admin: the three operations an administrator has on attempts   *)
(* and environments.  The budget bounds how often they are used.           *)
(***************************************************************************)
EXTENDS Platform

\* POST /admin/attempts/{id}/retry-provision
RetryProvisionStart(h, a) ==
    /\ status[a] = "provision_failed"
    /\ Spend("admin")
    /\ Begin(h, [Invocation("retryProvision", a, None, "readStatus")
                    EXCEPT !.to = "attempt_requested"])
    /\ UNCHANGED rows

RetryProvisionTransitioned(h) ==
    /\ Returned(h, "retryProvision", "attempt_requested")
    /\ IF call[h].err THEN Return(h) ELSE Goto(h, "enqueue")
    /\ UNCHANGED <<rows, budget>>

RetryProvisionEnqueue(h) ==
    /\ At(h, "retryProvision", "enqueue")
    /\ \/ Works(h) /\ Enqueue("provision_environment", Att(h))
       \/ Fails(h) /\ UNCHANGED queue
    /\ Return(h)
    /\ UNCHANGED <<remaining, attemptRows, aged, envRows>>

\* POST /admin/attempts/{id}/retry-grade: the status is not looked at.
RetryGrade(a) ==
    /\ status[a] # None
    /\ Spend("admin")
    /\ Enqueue("grade_attempt", a)
    /\ UNCHANGED <<remaining, attemptRows, aged, envRows, call>>

\* POST /admin/environments/{id}/destroy: the job names the attempt, not the
\* environment, and the environment's status is neither read nor changed.
ForceDestroy(e) ==
    /\ owner[e] # None
    /\ Spend("admin")
    /\ Enqueue("cleanup_environment", owner[e])
    /\ UNCHANGED <<remaining, attemptRows, aged, envRows, call>>

-----------------------------------------------------------------------------
AdminRequests ==
    \/ \E h \in Requests, a \in Attempts : RetryProvisionStart(h, a)
    \/ \E a \in Attempts : RetryGrade(a)
    \/ \E e \in Envs : ForceDestroy(e)

AdminStep(h) == RetryProvisionTransitioned(h) \/ RetryProvisionEnqueue(h)
=============================================================================
