--------------------------- MODULE GradingProofs ---------------------------
(***************************************************************************)
(* Nothing is graded before it was submitted or expired, for every value   *)
(* of the constants: whatever an administrator regrades, and whichever job *)
(* is redelivered in whatever state of the attempt.                        *)
(*                                                                         *)
(* The state machine alone does not give this: the grading job writes the  *)
(* status "grading" and the score some statements after the one that found *)
(* the attempt ended, and other handlers write the status in between.  So  *)
(* the invariant says of every point from that statement on that the       *)
(* handler's attempt has ended.                                            *)
(***************************************************************************)
EXTENDS LifecycleProofs

AfterEnd == EndStatuses \cup {"grading", "scored"}

\* The invocation c has seen its attempt ended (en is the history of ends).
SeenEnded(c) ==
    \/ c.at = "writeStatus" /\ c.to \in {"grading", "scored"}
    \/ c.at = "returned" /\ c.to = "grading" /\ c.err = FALSE
    \/ c.at \in {"loadEnv", "checks", "save"}

Late(c, en) == SeenEnded(c) => c.attempt \in Attempts /\ en[c.attempt]

EndInv ==
    /\ \A a \in Attempts : status[a] \in AfterEnd => ended[a]
    /\ \A a \in Attempts : score[a] # None => ended[a]
    /\ \A h \in Handlers : Late(call[h], ended)

LEMMA EndInit == Init => EndInv
BY DEF Init, PlatformInit, EndInv, AfterEnd, EndStatuses, Late, SeenEnded, Idle,
       Invocation, None

-----------------------------------------------------------------------------
(* The frame: what all steps do to ended, and most to the attempts         *)

EndsKept ==
    /\ \A a \in Attempts : ended[a] => ended'[a]
    /\ \A a \in Attempts :
            status'[a] \in AfterEnd => status[a] \in AfterEnd \/ ended'[a]
    /\ \A a \in Attempts : score'[a] # None => score[a] # None \/ ended'[a]

LEMMA EndKept ==
    ASSUME TypeOK, EndInv, EndsKept,
           NEW h \in Handlers, NEW c, call' = [call EXCEPT ![h] = c], Late(c, ended')
    PROVE  EndInv'
<1>1. \A g \in Handlers : call'[g] = IF g = h THEN c ELSE call[g]
  BY DEF TypeOK
<1>2. \A g \in Handlers : Late(call'[g], ended')
  BY <1>1 DEF EndInv, EndsKept, Late
<1>3. \A a \in Attempts : status'[a] \in AfterEnd => ended'[a]
  BY DEF EndInv, EndsKept
<1>4. \A a \in Attempts : score'[a] # None => ended'[a]
  BY DEF EndInv, EndsKept
<1>5. QED
  BY <1>2, <1>3, <1>4 DEF EndInv

Advances(h) ==
    \E c : call' = [call EXCEPT ![h] = c] /\ Late(c, ended')

LEMMA EndKeptByAdvance ==
    ASSUME TypeOK, EndInv, EndsKept, NEW h \in Handlers, Advances(h)
    PROVE  EndInv'
BY EndKept DEF Advances

\* Neither a status nor a score nor the history of ends changes.
Unmarked == UNCHANGED <<status, score, ended>>

LEMMA UnmarkedAdvance ==
    ASSUME TypeOK, EndInv, Unmarked, NEW h \in Handlers, Advances(h)
    PROVE  EndInv'
<1>1. ended' = ended /\ status' = status /\ score' = score
  BY DEF Unmarked
<1>2. EndsKept
  BY <1>1 DEF EndsKept
<1>3. QED
  BY <1>2, EndKeptByAdvance

LEMMA UnmarkedUnmoved ==
    ASSUME EndInv, Unmarked, UNCHANGED call
    PROVE  EndInv'
BY DEF EndInv, Unmarked, Late

\* The points that say nothing about the end of the attempt.
EarlyPoints == Points \ {"writeStatus", "returned", "loadEnv", "checks", "save"}

LEMMA EarlyAdvances ==
    ASSUME TypeOK, NEW h \in Handlers
    PROVE  /\ Return(h) => Advances(h)
           /\ \A p \in EarlyPoints : Goto(h, p) => Advances(h)
           /\ \A p \in EarlyPoints, e \in Envs : GotoWith(h, p, e) => Advances(h)
           /\ \A s \in AttemptStatuses : CallTransition(h, s) => Advances(h)
           /\ TransitionReturns(h, TRUE) => Advances(h)
<1> DEFINE d == call[h]
<1>1. d \in Invocations
  BY DEF TypeOK
<1> HIDE DEF d
<1>2. Return(h) => Advances(h)
  <2>1. Late(Idle, ended')
    BY DEF Late, SeenEnded, Idle, Invocation
  <2>2. QED
    BY <2>1 DEF Return, Become, Advances
<1>3. ASSUME NEW p \in EarlyPoints, Goto(h, p)
      PROVE  Advances(h)
  <2> DEFINE c == [d EXCEPT !.at = p, !.to = None, !.err = FALSE]
  <2>1. call' = [call EXCEPT ![h] = c]
    BY <1>3 DEF Goto, Become, d
  <2>2. c.at = p
    BY <1>1 DEF Invocations
  <2> HIDE DEF c
  <2>3. QED
    BY <2>1, <2>2 DEF Advances, Late, SeenEnded, EarlyPoints
<1>4. ASSUME NEW p \in EarlyPoints, NEW e \in Envs, GotoWith(h, p, e)
      PROVE  Advances(h)
  <2> DEFINE c == [d EXCEPT !.at = p, !.env = e]
  <2>1. call' = [call EXCEPT ![h] = c]
    BY <1>4 DEF GotoWith, Become, d
  <2>2. c.at = p
    BY <1>1 DEF Invocations
  <2> HIDE DEF c
  <2>3. QED
    BY <2>1, <2>2 DEF Advances, Late, SeenEnded, EarlyPoints
<1>5. ASSUME NEW s \in AttemptStatuses, CallTransition(h, s)
      PROVE  Advances(h)
  <2> DEFINE c == [d EXCEPT !.at = "readStatus", !.to = s, !.err = FALSE]
  <2>1. call' = [call EXCEPT ![h] = c]
    BY <1>5 DEF CallTransition, Become, d
  <2>2. c.at = "readStatus"
    BY <1>1 DEF Invocations
  <2> HIDE DEF c
  <2>3. QED
    BY <2>1, <2>2 DEF Advances, Late, SeenEnded
<1>6. ASSUME TransitionReturns(h, TRUE)
      PROVE  Advances(h)
  <2> DEFINE c == [d EXCEPT !.at = "returned", !.err = TRUE]
  <2>1. call' = [call EXCEPT ![h] = c]
    BY <1>6 DEF TransitionReturns, Become, d
  <2>2. c.at = "returned" /\ c.err = TRUE
    BY <1>1 DEF Invocations
  <2> HIDE DEF c
  <2>3. QED
    BY <2>1, <2>2 DEF Advances, Late, SeenEnded
<1>7. QED
  BY <1>2, <1>3, <1>4, <1>5, <1>6

LEMMA BeginAdvances ==
    ASSUME NEW h \in Handlers, NEW op, NEW a, NEW e
    PROVE  /\ \A p \in EarlyPoints : Begin(h, Invocation(op, a, e, p)) => Advances(h)
           /\ \A s : Begin(h, [Invocation(op, a, e, "readStatus") EXCEPT !.to = s])
                        => Advances(h)
<1>1. ASSUME NEW p \in EarlyPoints, Begin(h, Invocation(op, a, e, p))
      PROVE  Advances(h)
  <2>1. Late(Invocation(op, a, e, p), ended')
    BY DEF Late, SeenEnded, Invocation, EarlyPoints
  <2>2. QED
    BY <1>1, <2>1 DEF Begin, Become, Advances
<1>2. ASSUME NEW s, Begin(h, [Invocation(op, a, e, "readStatus") EXCEPT !.to = s])
      PROVE  Advances(h)
  <2>1. Late([Invocation(op, a, e, "readStatus") EXCEPT !.to = s], ended')
    BY DEF Late, SeenEnded, Invocation
  <2>2. QED
    BY <1>2, <2>1 DEF Begin, Become, Advances
<1>3. QED
  BY <1>1, <1>2

-----------------------------------------------------------------------------
(* The actions                                                             *)

LEMMA AttemptStepEnd ==
    ASSUME TypeOK, EndInv, NEW h \in Handlers, AttemptStep(h)
    PROVE  EndInv'
<1> USE EarlyAdvances, UnmarkedAdvance
    DEF Unmarked, EarlyPoints, Points, attemptRows, rows
<1>1. CASE RequestDecrement(h)
  BY <1>1 DEF RequestDecrement
<1>2. CASE RequestCreate(h)
  <2>1. EndsKept
    BY <1>2 DEF RequestCreate, EndsKept, AfterEnd, EndStatuses, TypeOK
  <2>2. Advances(h)
    BY <1>2 DEF RequestCreate
  <2>3. QED
    BY <2>1, <2>2, EndKeptByAdvance
<1>3. CASE RequestEnqueue(h)
  BY <1>3 DEF RequestEnqueue
<1>4. CASE RequestRestore(h)
  BY <1>4 DEF RequestRestore
<1>5. CASE SubmitTransitioned(h)
  BY <1>5 DEF SubmitTransitioned
<1>6. CASE SubmitEnqueue(h)
  BY <1>6 DEF SubmitEnqueue
<1>7. CASE ExpireStart(h)
  BY <1>7 DEF ExpireStart, AttemptStatuses
<1>8. CASE ExpireTransitioned(h)
  BY <1>8 DEF ExpireTransitioned
<1>9. CASE ExpireEnqueue(h)
  BY <1>9 DEF ExpireEnqueue
<1>10. QED
  BY <1>1, <1>2, <1>3, <1>4, <1>5, <1>6, <1>7, <1>8, <1>9 DEF AttemptStep

LEMMA TerminalAndAdminStepEnd ==
    ASSUME TypeOK, EndInv, NEW h \in Handlers, TerminalStep(h) \/ AdminStep(h)
    PROVE  EndInv'
<1> USE EarlyAdvances, UnmarkedAdvance
    DEF Unmarked, EarlyPoints, Points, attemptRows, rows
<1>1. CASE OpenAdmit(h)
  BY <1>1 DEF OpenAdmit
<1>2. CASE OpenStamp(h)
  BY <1>2 DEF OpenStamp, AttemptStatuses
<1>3. CASE OpenTransitioned(h)
  BY <1>3 DEF OpenTransitioned, AttemptStatuses
<1>4. CASE AdminStep(h)
  BY <1>4 DEF AdminStep, RetryProvisionTransitioned, RetryProvisionEnqueue
<1>5. QED
  BY <1>1, <1>2, <1>3, <1>4 DEF TerminalStep

LEMMA OrchestratorStepEnd ==
    ASSUME TypeOK, EndInv, NEW h \in Handlers, OrchestratorStep(h)
    PROVE  EndInv'
<1> USE EarlyAdvances, UnmarkedAdvance
    DEF Unmarked, EarlyPoints, Points, attemptRows, rows
<1>1. CASE ProvisionStart(h)
  BY <1>1 DEF ProvisionStart, AttemptStatuses
<1>2. CASE ProvisionBuild(h)
  BY <1>2 DEF ProvisionBuild, AttemptStatuses
<1>3. CASE ProvisionRecord(h)
  BY <1>3 DEF ProvisionRecord, AttemptStatuses
<1>4. CASE ProvisionConfigure(h)
  BY <1>4 DEF ProvisionConfigure, AttemptStatuses
<1>5. CASE ProvisionSession(h)
  BY <1>5 DEF ProvisionSession, AttemptStatuses
<1>6. CASE ProvisionTransitioned(h)
  BY <1>6 DEF ProvisionTransitioned
<1>7. CASE ProvisionFailureRecorded(h)
  BY <1>7 DEF ProvisionFailureRecorded
<1>8. CASE ProvisionFailureEnqueue(h)
  BY <1>8 DEF ProvisionFailureEnqueue
<1>9. CASE RestoreAttemptCount(h)
  BY <1>9 DEF RestoreAttemptCount
<1>10. CASE CleanupStart(h)
  BY <1>10 DEF CleanupStart, EnvsOf
<1>11. CASE CleanupDestroying(h)
  BY <1>11 DEF CleanupDestroying
<1>12. CASE CleanupDestroy(h)
  BY <1>12 DEF CleanupDestroy
<1>13. CASE CleanupMarkFailed(h)
  BY <1>13 DEF CleanupMarkFailed
<1>14. CASE CleanupDestroyed(h)
  BY <1>14 DEF CleanupDestroyed, AttemptStatuses
<1>15. CASE CleanupTransitioned(h)
  BY <1>15 DEF CleanupTransitioned
<1>16. QED
  BY <1>1, <1>2, <1>3, <1>4, <1>5, <1>6, <1>7, <1>8, <1>9, <1>10, <1>11, <1>12,
     <1>13, <1>14, <1>15 DEF OrchestratorStep

LEMMA RiverAndReconcileEnd ==
    ASSUME TypeOK, EndInv,
           \/ \E h \in Handlers : CompleteJob(h) \/ RetryJob(h) \/ DiscardJob(h)
           \/ ReconcileStep
           \/ \E a \in Attempts : Reconcile(a)
    PROVE  EndInv'
<1> USE EarlyAdvances, UnmarkedAdvance
    DEF Unmarked, EarlyPoints, Points, attemptRows, rows
<1>0. Reconciler \in Handlers
  BY DEF Handlers
<1>1. ASSUME NEW h \in Handlers, CompleteJob(h) \/ RetryJob(h) \/ DiscardJob(h)
      PROVE  EndInv'
  BY <1>1 DEF CompleteJob, RetryJob, DiscardJob
<1>2. CASE ReconcileStep
  BY <1>0, <1>2 DEF ReconcileStep, ReconcileTransitioned, ReconcileEnqueue
<1>3. ASSUME NEW a \in Attempts, Reconcile(a)
      PROVE  EndInv'
  BY <1>0, <1>3, BeginAdvances DEF Reconcile, ReconcileStale, ReconcileTerminal
<1>4. QED
  BY <1>1, <1>2, <1>3

LEMMA ArrivalEnd ==
    ASSUME TypeOK, EndInv,
           \/ Arrival
           \/ \E a \in Attempts : Passage(a)
           \/ \E kind \in JobKinds, a \in Attempts : FetchJob(kind, a)
    PROVE  EndInv'
<1> USE BeginAdvances, UnmarkedAdvance, UnmarkedUnmoved
    DEF Unmarked, EarlyPoints, Points, attemptRows, rows
<1>0. Requests \subseteq Handlers /\ Workers \subseteq Handlers
  BY DEF Handlers
<1>1. ASSUME NEW h \in Requests, NEW a \in Attempts,
             RequestStart(h, a) \/ SubmitStart(h, a) \/ RetryProvisionStart(h, a)
      PROVE  EndInv'
  BY <1>0, <1>1 DEF RequestStart, SubmitStart, RetryProvisionStart
<1>2. ASSUME NEW h \in Requests, NEW e \in Envs, OpenStart(h, e)
      PROVE  EndInv'
  BY <1>0, <1>2 DEF OpenStart
<1>3. ASSUME NEW a \in Attempts, RetryGrade(a) \/ Age(a) \/ ExamTimer(a)
      PROVE  EndInv'
  BY <1>3 DEF RetryGrade, Age, ExamTimer
<1>4. ASSUME NEW e \in Envs, ForceDestroy(e)
      PROVE  EndInv'
  BY <1>4 DEF ForceDestroy
<1>5. ASSUME NEW w \in Workers, NEW kind \in JobKinds, NEW a \in Attempts,
             StartJob(w, kind, a)
      PROVE  EndInv'
  BY <1>0, <1>5 DEF StartJob
<1>6. QED
  BY <1>1, <1>2, <1>3, <1>4, <1>5
     DEF Arrival, AttemptRequests, TerminalRequests, AdminRequests, FetchJob, Passage

LEMMA CancelEnd ==
    ASSUME TypeOK, EndInv, NEW h \in Handlers, Cancel(h)
    PROVE  EndInv'
<1> DEFINE d == call[h]
           c == [d EXCEPT !.live = FALSE]
<1>1. d \in Invocations /\ Late(d, ended) /\ Unmarked
  BY DEF TypeOK, EndInv, Cancel, Unmarked, rows, attemptRows
<1>2. call' = [call EXCEPT ![h] = c]
  BY DEF Cancel, Become
<1> HIDE DEF d
<1>3. c.at = d.at /\ c.attempt = d.attempt /\ c.to = d.to /\ c.err = d.err
  BY <1>1 DEF Invocations
<1> HIDE DEF c
<1>4. ended' = ended
  BY <1>1 DEF Unmarked
<1>5. Late(c, ended')
  BY <1>1, <1>3, <1>4 DEF Late, SeenEnded
<1>6. QED
  BY <1>1, <1>2, <1>5, UnmarkedAdvance DEF Advances

LEMMA CrashEnd ==
    ASSUME TypeOK, EndInv, Crash
    PROVE  EndInv'
<1>1. /\ \A h \in Handlers : call'[h] = Idle
      /\ status' = status /\ score' = score /\ ended' = ended
  BY DEF Crash, attemptRows
<1>2. \A h \in Handlers : Late(call'[h], ended')
  BY <1>1 DEF Late, SeenEnded, Idle, Invocation
<1>3. QED
  BY <1>1, <1>2 DEF EndInv

-----------------------------------------------------------------------------
(* The statements of TransitionAttempt, and the grading job                *)

\* Only an attempt after its end can become grading or scored by the table.
GradedFromEnd ==
    \A s, t : t \in {"grading", "scored"} /\ ValidTransition(s, t) => s \in AfterEnd

LEMMA GradedFromEndHolds == GradedFromEnd
BY DEF GradedFromEnd, ValidTransition, validTransitions, AfterEnd, EndStatuses

\* What a busy handler works for is an attempt (SessionInv).
LEMMA BusyAttempt ==
    ASSUME SessionInv, NEW h \in Handlers, call[h].at # "idle"
    PROVE  call[h].attempt \in Attempts
BY DEF SessionInv, Sound

LEMMA StatusReadEnd ==
    ASSUME TypeOK, SessionInv, EndInv, NEW h \in Handlers, StatusRead(h)
    PROVE  EndInv'
<1> DEFINE d == call[h]
           c == [d EXCEPT !.at = "writeStatus"]
<1>1. ended' = ended /\ Unmarked
  BY DEF StatusRead, Unmarked, rows, attemptRows
<1>2. CASE TransitionReturns(h, TRUE)
  BY <1>1, <1>2, EarlyAdvances, UnmarkedAdvance
<1>3. CASE ValidTransition(status[Att(h)], d.to) /\ Become(h, c)
  <2>1. d \in Invocations /\ d.attempt \in Attempts
    BY BusyAttempt DEF TypeOK, StatusRead
  <2>2. d.to \in {"grading", "scored"} => ended'[d.attempt]
    <3> SUFFICES ASSUME d.to \in {"grading", "scored"}
                 PROVE  ended'[d.attempt]
      OBVIOUS
    <3>1. status[d.attempt] \in AfterEnd
      BY <1>3, GradedFromEndHolds DEF GradedFromEnd, Att
    <3>2. ended[d.attempt]
      BY <2>1, <3>1 DEF EndInv
    <3>3. QED
      BY <1>1, <3>2
  <2>3. call' = [call EXCEPT ![h] = c]
    BY <1>3 DEF Become
  <2> HIDE DEF d
  <2>4. c.at = "writeStatus" /\ c.attempt = d.attempt /\ c.to = d.to
    BY <2>1 DEF Invocations
  <2> HIDE DEF c
  <2>5. Late(c, ended')
    BY <2>1, <2>2, <2>4 DEF Late, SeenEnded
  <2>6. QED
    BY <1>1, <2>3, <2>5, UnmarkedAdvance DEF Advances
<1>4. QED
  BY <1>2, <1>3 DEF StatusRead

\* A handler that writes an end makes it history; one that writes "grading" or
\* "scored" has seen the end.
LEMMA StatusWriteEnd ==
    ASSUME TypeOK, SessionInv, EndInv, NEW h \in Handlers, StatusWrite(h)
    PROVE  EndInv'
<1> DEFINE b == Att(h)
           t == call[h].to
           d == call[h]
           c == [d EXCEPT !.at = "returned", !.err = FALSE]
<1>1. d \in Invocations /\ b \in Attempts /\ d.attempt = b /\ d.to = t
  BY BusyAttempt DEF TypeOK, StatusWrite, Att
<1>2. t \in {"grading", "scored"} => ended[b]
  BY <1>1 DEF EndInv, Late, SeenEnded, StatusWrite
<1>3. CASE TransitionReturns(h, TRUE) /\ Unmarked
  BY <1>3, EarlyAdvances, UnmarkedAdvance
<1>4. CASE /\ status' = [status EXCEPT ![b] = t]
           /\ ended' = [ended EXCEPT ![b] = ended[b] \/ t \in EndStatuses]
           /\ score' = score
           /\ TransitionReturns(h, FALSE)
  <2>1. call' = [call EXCEPT ![h] = c]
    BY <1>4 DEF TransitionReturns, Become
  <2> HIDE DEF d
  <2>2. c.at = "returned" /\ c.attempt = d.attempt /\ c.to = d.to
    BY <1>1 DEF Invocations
  <2> HIDE DEF b, t, c
  <2>3. /\ status \in [Attempts -> AttemptStatuses \cup {None}]
        /\ ended \in [Attempts -> BOOLEAN]
    BY DEF TypeOK
  <2>4. \A a \in Attempts : status'[a] = IF a = b THEN t ELSE status[a]
    BY <1>4, <2>3
  <2>5. ended'[b] = (ended[b] \/ t \in EndStatuses)
    BY <1>1, <1>4, <2>3, Zenon
  <2>6. \A a \in Attempts : a # b => ended'[a] = ended[a]
    BY <1>4, <2>3, Zenon
  <2>7. \A a \in Attempts : ended[a] => ended'[a]
    BY <2>5, <2>6, Zenon
  <2>8. t \in AfterEnd => ended'[b]
    BY <1>2, <2>5 DEF AfterEnd
  <2>9. EndsKept
    BY <1>4, <2>4, <2>7, <2>8 DEF EndsKept
  <2>10. Late(c, ended')
    BY <1>1, <1>2, <2>2, <2>7 DEF Late, SeenEnded
  <2>11. QED
    BY <2>1, <2>9, <2>10, EndKeptByAdvance DEF Advances
<1>5. QED
  BY <1>3, <1>4 DEF StatusWrite, Unmarked, attemptRows

LEMMA GradingStepEnd ==
    ASSUME TypeOK, SessionInv, EndInv, NEW h \in Handlers, GradingStep(h)
    PROVE  EndInv'
<1> DEFINE d == call[h]
<1>0. /\ d \in Invocations /\ d.attempt \in Attempts /\ Late(d, ended)
  BY BusyAttempt
     DEF TypeOK, EndInv, GradingStep, GradeStart, GradeTransitioned, GradeLoad,
         GradeChecks, GradeSave, GradeScored, GradeEnqueue, At, Returned
<1>u. ASSUME Unmarked, NEW c, call' = [call EXCEPT ![h] = c],
             c.attempt = d.attempt, ended[d.attempt]
      PROVE  EndInv'
  <2>1. ended' = ended
    BY <1>u DEF Unmarked
  <2>2. Late(c, ended')
    BY <1>0, <1>u, <2>1 DEF Late
  <2>3. QED
    BY <1>u, <2>2, UnmarkedAdvance DEF Advances
<1> USE DEF Unmarked, rows, attemptRows
<1>1. CASE GradeStart(h)
  BY <1>1, EarlyAdvances, UnmarkedAdvance
     DEF GradeStart, EarlyPoints, Points, AttemptStatuses
<1>2. CASE GradeTransitioned(h)
  <2>1. CASE d.err
    BY <1>2, <2>1, EarlyAdvances, UnmarkedAdvance
       DEF GradeTransitioned, EarlyPoints, Points
  <2>2. CASE d.err = FALSE
    <3>1. ended[d.attempt]
      BY <1>0, <1>2, <2>2 DEF GradeTransitioned, Returned, At, Late, SeenEnded
    <3> DEFINE c == [d EXCEPT !.at = "loadEnv", !.to = None, !.err = FALSE]
    <3>2. call' = [call EXCEPT ![h] = c] /\ Unmarked
      BY <1>2, <2>2 DEF GradeTransitioned, Goto, Become
    <3> HIDE DEF d
    <3>3. c.attempt = d.attempt
      BY <1>0 DEF Invocations
    <3> HIDE DEF c, Unmarked
    <3>4. QED
      BY <1>u, <3>1, <3>2, <3>3
  <2>3. QED
    BY <1>0, <2>1, <2>2 DEF Invocations
<1>3. CASE GradeLoad(h)
  <2>1. CASE Goto(h, "failed")
    BY <1>3, <2>1, EarlyAdvances, UnmarkedAdvance DEF GradeLoad, EarlyPoints, Points
  <2>2. ASSUME NEW e \in Envs, GotoWith(h, "checks", e)
        PROVE  EndInv'
    <3>1. ended[d.attempt]
      BY <1>0, <1>3 DEF GradeLoad, At, Late, SeenEnded
    <3> DEFINE c == [d EXCEPT !.at = "checks", !.env = e]
    <3>2. call' = [call EXCEPT ![h] = c] /\ Unmarked
      BY <1>3, <2>2 DEF GradeLoad, GotoWith, Become
    <3> HIDE DEF d
    <3>3. c.attempt = d.attempt
      BY <1>0 DEF Invocations
    <3> HIDE DEF c, Unmarked
    <3>4. QED
      BY <1>u, <3>1, <3>2, <3>3
  <2>3. QED
    BY <1>3, <2>1, <2>2 DEF GradeLoad, EnvsOf
<1>4. CASE GradeChecks(h)
  <2>1. ended[d.attempt]
    BY <1>0, <1>4 DEF GradeChecks, At, Late, SeenEnded
  <2>2. ASSUME NEW points, Found(h, points)
        PROVE  EndInv'
    <3> DEFINE c == [d EXCEPT !.at = "save", !.result = points]
    <3>1. call' = [call EXCEPT ![h] = c] /\ Unmarked
      BY <1>4, <2>2 DEF GradeChecks, Found, Become
    <3> HIDE DEF d
    <3>2. c.attempt = d.attempt
      BY <1>0 DEF Invocations
    <3> HIDE DEF c, Unmarked
    <3>3. QED
      BY <1>u, <2>1, <3>1, <3>2
  <2>3. QED
    BY <1>4, <2>2 DEF GradeChecks
<1>5. CASE GradeSave(h)
  <2>1. ended[d.attempt] /\ ended' = ended /\ status' = status
    BY <1>0, <1>5 DEF GradeSave, At, Late, SeenEnded
  <2>2. \A a \in Attempts : score'[a] = score[a] \/ a = d.attempt
    BY <1>5 DEF GradeSave, TypeOK, Att
  <2>3. EndsKept
    BY <2>1, <2>2 DEF EndsKept
  <2>4. Advances(h)
    BY <1>5, EarlyAdvances DEF GradeSave, EarlyPoints, Points, AttemptStatuses
  <2>5. QED
    BY <2>3, <2>4, EndKeptByAdvance
<1>6. CASE GradeScored(h) \/ GradeEnqueue(h)
  BY <1>6, EarlyAdvances, UnmarkedAdvance
     DEF GradeScored, GradeEnqueue, EarlyPoints, Points
<1>7. QED
  BY <1>1, <1>2, <1>3, <1>4, <1>5, <1>6 DEF GradingStep

-----------------------------------------------------------------------------
LEMMA EndNext == TypeOK /\ SessionInv /\ EndInv /\ [Next]_vars => EndInv'
<1> SUFFICES ASSUME TypeOK, SessionInv, EndInv, [Next]_vars PROVE EndInv'
  OBVIOUS
<1>1. ASSUME NEW h \in Handlers, Step(h)
      PROVE  EndInv'
  BY <1>1, AttemptStepEnd, TerminalAndAdminStepEnd, OrchestratorStepEnd,
     GradingStepEnd, StatusReadEnd, StatusWriteEnd, RiverAndReconcileEnd DEF Step
<1>2. CASE Disturbance
  BY <1>2, CancelEnd, CrashEnd, RiverAndReconcileEnd DEF Disturbance, Handlers
<1>3. CASE UNCHANGED vars
  BY <1>3, UnmarkedUnmoved DEF Unmarked, vars, rows, attemptRows
<1>4. QED
  BY <1>1, <1>2, <1>3, ArrivalEnd, RiverAndReconcileEnd DEF Next

\* A score, and the statuses of grading, belong to attempts that were submitted
\* or expired, whatever is regraded, redelivered or raced.
THEOREM GradingFollowsEnd == Spec => []GradedOnlyAfterEnd
<1>1. /\ Init => TypeOK /\ SessionInv /\ EndInv
      /\ TypeOK /\ SessionInv /\ EndInv /\ [Next]_vars
            => (TypeOK /\ SessionInv /\ EndInv)'
  BY TypeInit, SessionInit, EndInit, TypeNext, SessionNext, EndNext
<1>2. EndInv => GradedOnlyAfterEnd
  BY DEF EndInv, GradedOnlyAfterEnd, AfterEnd
<1>3. QED
  BY <1>1, <1>2, PTL DEF Spec
=============================================================================
