--------------------------- MODULE AttemptService ---------------------------
(***************************************************************************)
(* internal/attempts: requesting an attempt, submitting it, and the        *)
(* handler of the expire_attempt job.  An early return that changes        *)
(* nothing (no such row, another user's purchase, an expired purchase) is  *)
(* no step at all.                                                         *)
(***************************************************************************)
EXTENDS Platform

-----------------------------------------------------------------------------
(* RequestAttempt                                                          *)

\* The purchase is read and still has an attempt; a is the new attempt's id.
RequestStart(h, a) ==
    /\ remaining > 0
    /\ status[a] = None
    /\ \A g \in Handlers : Att(g) # a
    /\ Begin(h, Invocation("request", a, None, "decrement"))
    /\ UNCHANGED <<rows, budget>>

\* Bug: the UPDATE without its condition.
RequestDecrementUnguarded(h) ==
    /\ At(h, "request", "decrement")
    /\ \/ Works(h) /\ remaining' = remaining - 1 /\ Goto(h, "create")
       \/ Fails(h) /\ Return(h) /\ UNCHANGED remaining
    /\ UNCHANGED <<attemptRows, aged, envRows, queue>>

\* Bug: the number of affected rows is not looked at.
RequestDecrementUnchecked(h) ==
    /\ At(h, "request", "decrement")
    /\ \/ /\ Works(h)
          /\ remaining' = IF remaining > 0 THEN remaining - 1 ELSE remaining
          /\ Goto(h, "create")
       \/ Fails(h) /\ Return(h) /\ UNCHANGED remaining
    /\ UNCHANGED <<attemptRows, aged, envRows, queue>>

\* UPDATE ... SET attempts_remaining = attempts_remaining - 1
\* WHERE attempts_remaining > 0; no row affected is an error.
RequestDecrement(h) ==
    /\ At(h, "request", "decrement")
    /\ \/ /\ Works(h)
          /\ remaining > 0
          /\ remaining' = remaining - 1
          /\ Goto(h, "create")
       \/ /\ Works(h)
          /\ remaining <= 0
          /\ Return(h)
          /\ UNCHANGED remaining
       \/ Fails(h) /\ Return(h) /\ UNCHANGED remaining
    /\ UNCHANGED <<attemptRows, aged, envRows, queue>>

RequestCreate(h) ==
    /\ At(h, "request", "create")
    /\ \/ /\ Works(h)
          /\ status' = [status EXCEPT ![Att(h)] = "attempt_requested"]
          /\ Goto(h, "enqueue")
       \/ Fails(h) /\ Goto(h, "restore") /\ UNCHANGED status
    /\ UNCHANGED <<remaining, score, ended, aged, envRows, queue>>

RequestEnqueue(h) ==
    /\ At(h, "request", "enqueue")
    /\ \/ Works(h) /\ Enqueue("provision_environment", Att(h)) /\ Return(h)
       \/ Fails(h) /\ Goto(h, "restore") /\ UNCHANGED queue
    /\ UNCHANGED <<remaining, attemptRows, aged, envRows>>

\* The error of this increment is ignored; a row already created stays.
RequestRestore(h) ==
    /\ At(h, "request", "restore")
    /\ \/ Works(h) /\ IncrementAttemptsRemaining
       \/ Fails(h) /\ UNCHANGED remaining
    /\ Return(h)
    /\ UNCHANGED <<attemptRows, aged, envRows, queue>>

-----------------------------------------------------------------------------
(* SubmitAttempt                                                           *)

SubmitStart(h, a) ==
    /\ status[a] = "running"
    /\ Begin(h, [Invocation("submit", a, None, "readStatus")
                    EXCEPT !.to = "submitted"])
    /\ UNCHANGED <<rows, budget>>

SubmitTransitioned(h) ==
    /\ Returned(h, "submit", "submitted")
    /\ IF call[h].err THEN Return(h) ELSE Goto(h, "enqueue")
    /\ UNCHANGED <<rows, budget>>

SubmitEnqueue(h) ==
    /\ At(h, "submit", "enqueue")
    /\ \/ Works(h) /\ Enqueue("grade_attempt", Att(h))
       \/ Fails(h) /\ UNCHANGED queue
    /\ Return(h)
    /\ UNCHANGED <<remaining, attemptRows, aged, envRows>>

-----------------------------------------------------------------------------
(* HandleExpireAttempt                                                     *)

ExpireStart(w) ==
    /\ At(w, "expire_attempt", "start")
    /\ \/ /\ Works(w)
          /\ IF status[Att(w)] = "running"
               THEN CallTransition(w, "expired")
               ELSE Goto(w, "done")
       \/ Fails(w) /\ Goto(w, "failed")
    /\ UNCHANGED rows

ExpireTransitioned(w) ==
    /\ Returned(w, "expire_attempt", "expired")
    /\ Goto(w, IF call[w].err THEN "failed" ELSE "enqueue")
    /\ UNCHANGED <<rows, budget>>

\* Bug: no second grading job while one waits or runs.
ExpireEnqueueOnce(w) ==
    /\ At(w, "expire_attempt", "enqueue")
    /\ LET a == Att(w)
       IN  \/ /\ Works(w)
              /\ queue["grade_attempt", a] = 0 /\ Running("grade_attempt", a) = {}
              /\ Enqueue("grade_attempt", a)
              /\ Goto(w, "done")
           \/ /\ Works(w)
              /\ queue["grade_attempt", a] > 0 \/ Running("grade_attempt", a) # {}
              /\ Goto(w, "done")
              /\ UNCHANGED queue
           \/ Fails(w) /\ Goto(w, "failed") /\ UNCHANGED queue
    /\ UNCHANGED <<remaining, attemptRows, aged, envRows>>

ExpireEnqueue(w) ==
    /\ At(w, "expire_attempt", "enqueue")
    /\ \/ Works(w) /\ Enqueue("grade_attempt", Att(w)) /\ Goto(w, "done")
       \/ Fails(w) /\ Goto(w, "failed") /\ UNCHANGED queue
    /\ UNCHANGED <<remaining, attemptRows, aged, envRows>>

\* No code enqueues an expire_attempt job.  This stands for whatever would: a
\* job at the end of the exam of an attempt that was started.
ExamTimer(a) ==
    /\ status[a] = "running"
    /\ Spend("timer")
    /\ Enqueue("expire_attempt", a)
    /\ UNCHANGED <<remaining, attemptRows, aged, envRows, call>>

-----------------------------------------------------------------------------
AttemptRequests ==
    \E h \in Requests, a \in Attempts : RequestStart(h, a) \/ SubmitStart(h, a)

AttemptStep(h) ==
    \/ RequestDecrement(h) \/ RequestCreate(h) \/ RequestEnqueue(h)
    \/ RequestRestore(h)
    \/ SubmitTransitioned(h) \/ SubmitEnqueue(h)
    \/ ExpireStart(h) \/ ExpireTransitioned(h) \/ ExpireEnqueue(h)
=============================================================================
