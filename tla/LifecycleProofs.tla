-------------------------- MODULE LifecycleProofs --------------------------
(***************************************************************************)
(* Theorems about Lifecycle for every value of its constants: any number   *)
(* of attempts, environments, workers and requests, any budget of faults,  *)
(* cancellations, crashes and administrator's interventions.               *)
(***************************************************************************)
EXTENDS Lifecycle, FiniteSetTheorems, TLAPS

-----------------------------------------------------------------------------
(* Lemmas about the operators the actions are built from                   *)

\* What the helpers that move a handler leave in call is an invocation.
LEMMA BecomeType ==
    ASSUME call \in [Handlers -> Invocations],
           NEW h \in Handlers, NEW i \in Invocations, Become(h, i)
    PROVE  call' \in [Handlers -> Invocations]
BY DEF Become

LEMMA IdleType == Idle \in Invocations
BY DEF Idle, Invocation, Invocations, Scores, None, Points

LEMMA InvocationType ==
    ASSUME NEW op \in JobKinds \cup RequestKinds \cup {"reconcile"},
           NEW a \in Attempts \cup {None}, NEW e \in Envs \cup {None},
           NEW p \in Points, NEW s \in AttemptStatuses
    PROVE  /\ Invocation(op, a, e, p) \in Invocations
           /\ [Invocation(op, a, e, p) EXCEPT !.to = s] \in Invocations
BY DEF Invocation, Invocations, Scores, None

\* A statement, whether it works or fails, leaves a budget.
LEMMA BudgetTypes ==
    ASSUME budget \in [BudgetKinds -> Nat], NEW h, NEW kind \in BudgetKinds
    PROVE  /\ Works(h) => budget' \in [BudgetKinds -> Nat]
           /\ Spend(kind) => budget' \in [BudgetKinds -> Nat]
           /\ Fails(h) => budget' \in [BudgetKinds -> Nat]
<1>1. ASSUME NEW k \in BudgetKinds, Spend(k)
      PROVE  budget' \in [BudgetKinds -> Nat]
  BY <1>1 DEF Spend
<1>2. "fault" \in BudgetKinds
  BY DEF BudgetKinds
<1>3. QED
  BY <1>1, <1>2 DEF Works, Fails

\* The queue stays within its bound.
LEMMA EnqueueType ==
    ASSUME queue \in [JobKinds \X Attempts -> 0..MaxQueued],
           NEW kind, NEW a, Enqueue(kind, a)
    PROVE  queue' \in [JobKinds \X Attempts -> 0..MaxQueued]
<1> DEFINE j == <<kind, a>>
           n == IF queue[j] < MaxQueued THEN queue[j] + 1 ELSE queue[j]
<1>1. CASE j \in JobKinds \X Attempts
  <2>1. n \in 0..MaxQueued
    BY <1>1, BoundsAssumption
  <2>2. queue' = [queue EXCEPT ![j] = n]
    BY DEF Enqueue
  <2> HIDE DEF j, n
  <2>3. QED
    BY <2>1, <2>2
<1>2. CASE j \notin JobKinds \X Attempts
  <2>1. queue' = [queue EXCEPT ![j] = n]
    BY DEF Enqueue
  <2> HIDE DEF j, n
  <2>2. QED
    BY <1>2, <2>1
<1>3. QED
  BY <1>1, <1>2

-----------------------------------------------------------------------------
(* Type correctness                                                        *)

LEMMA TypeInit == Init => TypeOK
BY BoundsAssumption, NoneAssumption
   DEF Init, PlatformInit, TypeOK, Idle, Invocation, Invocations, Scores, None,
       Points

\* The lemmas above in the form in which the proofs of the actions use them.
LEMMA HelperTypes ==
    ASSUME TypeOK, NEW h \in Handlers
    PROVE  /\ Att(h) \in Attempts \cup {None}
           /\ Works(h) => budget' \in [BudgetKinds -> Nat]
           /\ Fails(h) => budget' \in [BudgetKinds -> Nat]
           /\ \A kind \in BudgetKinds : Spend(kind) => budget' \in [BudgetKinds -> Nat]
           /\ \A p \in Points : Goto(h, p) => call' \in [Handlers -> Invocations]
           /\ \A p \in Points, e \in Envs :
                GotoWith(h, p, e) => call' \in [Handlers -> Invocations]
           /\ Return(h) => call' \in [Handlers -> Invocations]
           /\ \A s \in AttemptStatuses :
                CallTransition(h, s) => call' \in [Handlers -> Invocations]
           /\ \A b \in BOOLEAN :
                TransitionReturns(h, b) => call' \in [Handlers -> Invocations]
           /\ \A i \in Invocations :
                Become(h, i) \/ Begin(h, i) => call' \in [Handlers -> Invocations]
           /\ \A kind, a : Enqueue(kind, a)
                => queue' \in [JobKinds \X Attempts -> 0..MaxQueued]
<1>1. Att(h) \in Attempts \cup {None}
  BY DEF TypeOK, Att, Invocations
<1>2. /\ Works(h) => budget' \in [BudgetKinds -> Nat]
      /\ Fails(h) => budget' \in [BudgetKinds -> Nat]
      /\ \A kind \in BudgetKinds : Spend(kind) => budget' \in [BudgetKinds -> Nat]
  <2>1. "fault" \in BudgetKinds
    BY DEF BudgetKinds
  <2>2. QED
    BY <2>1, BudgetTypes DEF TypeOK
<1> DEFINE c == call[h]
<1>c. c \in Invocations
  BY DEF TypeOK
<1> HIDE DEF c
<1>3. \A p \in Points : Goto(h, p) => call' \in [Handlers -> Invocations]
  <2> TAKE p \in Points
  <2>1. [c EXCEPT !.at = p, !.to = None, !.err = FALSE] \in Invocations
    BY <1>c DEF Invocations
  <2>2. QED
    BY <2>1, BecomeType DEF TypeOK, Goto, c
<1>4. \A p \in Points, e \in Envs :
        GotoWith(h, p, e) => call' \in [Handlers -> Invocations]
  <2> TAKE p \in Points, e \in Envs
  <2>1. [c EXCEPT !.at = p, !.env = e] \in Invocations
    BY <1>c DEF Invocations
  <2>2. QED
    BY <2>1, BecomeType DEF TypeOK, GotoWith, c
<1>5. Return(h) => call' \in [Handlers -> Invocations]
  BY IdleType, BecomeType DEF TypeOK, Return
<1>6. \A s \in AttemptStatuses :
        CallTransition(h, s) => call' \in [Handlers -> Invocations]
  <2> TAKE s \in AttemptStatuses
  <2>1. [c EXCEPT !.at = "readStatus", !.to = s, !.err = FALSE] \in Invocations
    BY <1>c DEF Invocations, Points
  <2>2. QED
    BY <2>1, BecomeType DEF TypeOK, CallTransition, c
<1>7. \A b \in BOOLEAN :
        TransitionReturns(h, b) => call' \in [Handlers -> Invocations]
  <2> TAKE b \in BOOLEAN
  <2>1. [c EXCEPT !.at = "returned", !.err = b] \in Invocations
    BY <1>c DEF Invocations, Points
  <2>2. QED
    BY <2>1, BecomeType DEF TypeOK, TransitionReturns, c
<1>8. \A i \in Invocations :
        Become(h, i) \/ Begin(h, i) => call' \in [Handlers -> Invocations]
  BY BecomeType DEF TypeOK, Begin
<1>9. \A kind, a : Enqueue(kind, a)
        => queue' \in [JobKinds \X Attempts -> 0..MaxQueued]
  BY EnqueueType DEF TypeOK
<1>10. QED
  BY <1>1, <1>2, <1>3, <1>4, <1>5, <1>6, <1>7, <1>8, <1>9

\* The steps of RequestAttempt, SubmitAttempt and HandleExpireAttempt.
LEMMA AttemptStepType ==
    ASSUME TypeOK, NEW h \in Handlers, AttemptStep(h)
    PROVE  TypeOK'
<1> USE DEF TypeOK, Points, attemptRows, envRows, rows
<1>1. CASE RequestDecrement(h)
  BY <1>1, HelperTypes DEF RequestDecrement
<1>2. CASE RequestCreate(h)
  BY <1>2, HelperTypes DEF RequestCreate, AttemptStatuses
<1>3. CASE RequestEnqueue(h)
  BY <1>3, HelperTypes DEF RequestEnqueue
<1>4. CASE RequestRestore(h)
  BY <1>4, HelperTypes DEF RequestRestore, IncrementAttemptsRemaining
<1>5. CASE SubmitTransitioned(h)
  BY <1>5, HelperTypes DEF SubmitTransitioned
<1>6. CASE SubmitEnqueue(h)
  BY <1>6, HelperTypes DEF SubmitEnqueue
<1>7. CASE ExpireStart(h)
  BY <1>7, HelperTypes DEF ExpireStart, AttemptStatuses
<1>8. CASE ExpireTransitioned(h)
  BY <1>8, HelperTypes DEF ExpireTransitioned
<1>9. CASE ExpireEnqueue(h)
  BY <1>9, HelperTypes DEF ExpireEnqueue
<1>10. QED
  BY <1>1, <1>2, <1>3, <1>4, <1>5, <1>6, <1>7, <1>8, <1>9 DEF AttemptStep

\* The steps of a terminal connection.
LEMMA TerminalStepType ==
    ASSUME TypeOK, NEW h \in Handlers, TerminalStep(h)
    PROVE  TypeOK'
<1> USE DEF TypeOK, Points, attemptRows, envRows, rows
<1>1. CASE OpenAdmit(h)
  BY <1>1, HelperTypes DEF OpenAdmit
<1>2. CASE OpenStamp(h)
  BY <1>2, HelperTypes DEF OpenStamp, AttemptStatuses
<1>3. CASE OpenTransitioned(h)
  BY <1>3, HelperTypes DEF OpenTransitioned, AttemptStatuses
<1>4. QED
  BY <1>1, <1>2, <1>3 DEF TerminalStep

\* The steps of retryProvision.
LEMMA AdminStepType ==
    ASSUME TypeOK, NEW h \in Handlers, AdminStep(h)
    PROVE  TypeOK'
<1> USE DEF TypeOK, Points, attemptRows, envRows, rows
<1>1. CASE RetryProvisionTransitioned(h)
  BY <1>1, HelperTypes DEF RetryProvisionTransitioned
<1>2. CASE RetryProvisionEnqueue(h)
  BY <1>2, HelperTypes DEF RetryProvisionEnqueue
<1>3. QED
  BY <1>1, <1>2 DEF AdminStep

\* The steps of the grading job.
LEMMA GradingStepType ==
    ASSUME TypeOK, NEW h \in Handlers, GradingStep(h)
    PROVE  TypeOK'
<1> USE DEF TypeOK, Points, attemptRows, envRows, rows
<1>1. CASE GradeStart(h)
  BY <1>1, HelperTypes DEF GradeStart, AttemptStatuses
<1>2. CASE GradeTransitioned(h)
  BY <1>2, HelperTypes DEF GradeTransitioned
<1>3. CASE GradeLoad(h)
  BY <1>3, HelperTypes DEF GradeLoad, EnvsOf
<1>4. CASE GradeChecks(h)
  <2>1. \A points \in Scores :
            [call[h] EXCEPT !.at = "save", !.result = points] \in Invocations
    <3> DEFINE c == call[h]
    <3>1. c \in Invocations
      OBVIOUS
    <3> HIDE DEF c, TypeOK
    <3>2. \A points \in Scores : [c EXCEPT !.at = "save", !.result = points] \in Invocations
      BY <3>1 DEF Invocations
    <3>3. QED
      BY <3>2 DEF c
  <2>2. \A points \in Scores : Found(h, points) => call' \in [Handlers -> Invocations]
    BY <2>1, HelperTypes DEF Found
  <2>3. "earned" \in Scores /\ "zeroed" \in Scores /\ "fault" \in BudgetKinds
    BY DEF Scores, BudgetKinds
  <2>4. QED
    BY <1>4, <2>2, <2>3, HelperTypes DEF GradeChecks
<1>5. CASE GradeSave(h)
  BY <1>5, HelperTypes DEF GradeSave, Invocations, AttemptStatuses
<1>6. CASE GradeScored(h)
  BY <1>6, HelperTypes DEF GradeScored
<1>7. CASE GradeEnqueue(h)
  BY <1>7, HelperTypes DEF GradeEnqueue
<1>8. QED
  BY <1>1, <1>2, <1>3, <1>4, <1>5, <1>6, <1>7 DEF GradingStep

\* A destruction takes its environment, and of the others at most some that were
\* up.
LEMMA WhatIsDestroyed ==
    ASSUME TypeOK, NEW e, Destroys(e)
    PROVE  /\ vm' \in [Envs -> {None, "up", "gone", "lost"}]
           /\ e \in Envs => vm'[e] = "gone"
           /\ \A f \in Envs \ {e} : vm'[f] = vm[f] \/ (vm[f] = "up" /\ vm'[f] = "lost")
<1>1. PICK hit \in SUBSET Reached(e) :
        vm' = [f \in Envs |-> IF f = e THEN "gone" ELSE IF f \in hit THEN "lost" ELSE vm[f]]
  BY DEF Destroys
<1>2. vm \in [Envs -> {None, "up", "gone", "lost"}]
  BY DEF TypeOK
<1>3. \A f \in hit : f \in Envs /\ vm[f] = "up"
  BY DEF Reached
<1>4. QED
  BY <1>1, <1>2, <1>3

\* The steps of the provisioning and the cleanup job.
LEMMA OrchestratorStepType ==
    ASSUME TypeOK, NEW h \in Handlers, OrchestratorStep(h)
    PROVE  TypeOK'
<1> USE DEF TypeOK, Points, attemptRows, envRows, rows
<1>1. CASE ProvisionStart(h)
  BY <1>1, HelperTypes DEF ProvisionStart, AttemptStatuses
<1>2. CASE ProvisionBuild(h)
  BY <1>2, HelperTypes DEF ProvisionBuild, AttemptStatuses
<1>3. CASE ProvisionRecord(h)
  BY <1>3, HelperTypes DEF ProvisionRecord, AttemptStatuses, EnvironmentStatuses
<1>4. CASE ProvisionConfigure(h)
  BY <1>4, HelperTypes DEF ProvisionConfigure, AttemptStatuses
<1>5. CASE ProvisionSession(h)
  BY <1>5, HelperTypes DEF ProvisionSession, AttemptStatuses
<1>6. CASE ProvisionTransitioned(h)
  BY <1>6, HelperTypes DEF ProvisionTransitioned
<1>7. CASE ProvisionFailureRecorded(h)
  BY <1>7, HelperTypes DEF ProvisionFailureRecorded
<1>8. CASE ProvisionFailureEnqueue(h)
  BY <1>8, HelperTypes DEF ProvisionFailureEnqueue
<1>9. CASE RestoreAttemptCount(h)
  BY <1>9, HelperTypes DEF RestoreAttemptCount, IncrementAttemptsRemaining
<1>10. CASE CleanupStart(h)
  BY <1>10, HelperTypes DEF CleanupStart, EnvsOf
<1>11. CASE CleanupDestroying(h)
  BY <1>11, HelperTypes DEF CleanupDestroying, EnvironmentStatuses
<1>12. CASE CleanupDestroy(h)
  <2>1. vm' \in [Envs -> {None, "up", "gone", "lost"}]
    BY <1>12, WhatIsDestroyed DEF CleanupDestroy
  <2>2. QED
    BY <1>12, <2>1, HelperTypes DEF CleanupDestroy
<1>13. CASE CleanupMarkFailed(h)
  BY <1>13, HelperTypes DEF CleanupMarkFailed, EnvironmentStatuses
<1>14. CASE CleanupDestroyed(h)
  BY <1>14, HelperTypes DEF CleanupDestroyed, AttemptStatuses, EnvironmentStatuses
<1>15. CASE CleanupTransitioned(h)
  BY <1>15, HelperTypes DEF CleanupTransitioned
<1>16. QED
  BY <1>1, <1>2, <1>3, <1>4, <1>5, <1>6, <1>7, <1>8, <1>9, <1>10, <1>11, <1>12, <1>13, <1>14, <1>15 DEF OrchestratorStep

\* The two statements of TransitionAttempt, and what River does with a job.
LEMMA PlatformStepType ==
    ASSUME TypeOK, NEW h \in Handlers,
           StatusRead(h) \/ StatusWrite(h) \/ CompleteJob(h) \/ RetryJob(h) \/ DiscardJob(h) \/ Cancel(h)
    PROVE  TypeOK'
<1> USE DEF TypeOK, Points, attemptRows, envRows, rows
<1>1. CASE StatusRead(h)
  <2>0. call[h] \in Invocations /\ "writeStatus" \in Points
    OBVIOUS
  <2>1. [call[h] EXCEPT !.at = "writeStatus"] \in Invocations
    <3> DEFINE c == call[h]
    <3> HIDE DEF c, TypeOK, Points
    <3>1. c \in Invocations
      BY <2>0 DEF c
    <3>2. [c EXCEPT !.at = "writeStatus"] \in Invocations
      BY <2>0, <3>1 DEF Invocations
    <3>3. QED
      BY <3>2 DEF c
  <2>2. QED
    BY <1>1, <2>1, HelperTypes DEF StatusRead
<1>2. CASE StatusWrite(h)
  BY <1>2, HelperTypes DEF StatusWrite, Invocations
<1>3. CASE CompleteJob(h)
  BY <1>3, HelperTypes DEF CompleteJob
<1>4. CASE RetryJob(h)
  BY <1>4, HelperTypes DEF RetryJob
<1>5. CASE DiscardJob(h)
  BY <1>5, HelperTypes DEF DiscardJob, BudgetKinds
<1>6. CASE Cancel(h)
  <2>0. call[h] \in Invocations
    OBVIOUS
  <2>1. [call[h] EXCEPT !.live = FALSE] \in Invocations
    <3> DEFINE c == call[h]
    <3> HIDE DEF c, TypeOK, Points
    <3>1. c \in Invocations
      BY <2>0 DEF c
    <3>2. [c EXCEPT !.live = FALSE] \in Invocations
      BY <3>1 DEF Invocations
    <3>3. QED
      BY <3>2 DEF c
  <2>2. "cancel" \in BudgetKinds
    BY DEF BudgetKinds
  <2>3. QED
    BY <1>6, <2>1, <2>2, HelperTypes DEF Cancel
<1>7. QED
  BY <1>1, <1>2, <1>3, <1>4, <1>5, <1>6

\* The reconciler.
LEMMA ReconcileType ==
    ASSUME TypeOK, ReconcileStep \/ \E a \in Attempts : Reconcile(a)
    PROVE  TypeOK'
<1> USE DEF TypeOK, Points, attemptRows, envRows, rows
<1>0. Reconciler \in Handlers
  BY DEF Handlers
<1>1. CASE ReconcileTransitioned
  BY <1>0, <1>1, HelperTypes DEF ReconcileTransitioned
<1>2. CASE ReconcileEnqueue
  BY <1>0, <1>2, HelperTypes DEF ReconcileEnqueue
<1>3. ASSUME NEW a \in Attempts, Reconcile(a)
      PROVE  TypeOK'
  <2>1. /\ Invocation("reconcile", a, None, "enqueue") \in Invocations
        /\ [Invocation("reconcile", a, None, "readStatus")
                EXCEPT !.to = "provision_failed"] \in Invocations
    BY InvocationType DEF AttemptStatuses
  <2>2. CASE ReconcileStale(a)
    BY <1>0, <2>1, <2>2, HelperTypes DEF ReconcileStale
  <2>3. CASE ReconcileTerminal(a)
    BY <1>0, <2>1, <2>3, HelperTypes DEF ReconcileTerminal
  <2>4. QED
    BY <1>3, <2>2, <2>3 DEF Reconcile
<1>4. QED
  BY <1>1, <1>2, <1>3 DEF ReconcileStep

\* What a student or an administrator starts.
LEMMA ArrivalType ==
    ASSUME TypeOK, Arrival
    PROVE  TypeOK'
<1> USE DEF TypeOK, Points, attemptRows, envRows, rows
<1>0. Requests \subseteq Handlers /\ "admin" \in BudgetKinds
  BY DEF Handlers, BudgetKinds
<1>1. ASSUME NEW h \in Requests, NEW a \in Attempts,
             RequestStart(h, a) \/ SubmitStart(h, a) \/ RetryProvisionStart(h, a)
      PROVE  TypeOK'
  <2>0. h \in Handlers
    BY <1>0
  <2>1. /\ Invocation("request", a, None, "decrement") \in Invocations
        /\ [Invocation("submit", a, None, "readStatus")
                EXCEPT !.to = "submitted"] \in Invocations
        /\ [Invocation("retryProvision", a, None, "readStatus")
                EXCEPT !.to = "attempt_requested"] \in Invocations
    BY InvocationType DEF AttemptStatuses, RequestKinds
  <2>2. CASE RequestStart(h, a)
    BY <2>0, <2>1, <2>2, HelperTypes DEF RequestStart
  <2>3. CASE SubmitStart(h, a)
    BY <2>0, <2>1, <2>3, HelperTypes DEF SubmitStart
  <2>4. CASE RetryProvisionStart(h, a)
    BY <1>0, <2>0, <2>1, <2>4, HelperTypes DEF RetryProvisionStart
  <2>5. QED
    BY <1>1, <2>2, <2>3, <2>4
<1>2. ASSUME NEW h \in Requests, NEW e \in Envs, OpenStart(h, e)
      PROVE  TypeOK'
  <2>1. Invocation("open", owner[e], e, "admit") \in Invocations
    BY InvocationType DEF RequestKinds, AttemptStatuses
  <2>2. QED
    BY <1>0, <1>2, <2>1, HelperTypes DEF OpenStart
<1>3. ASSUME NEW a \in Attempts, RetryGrade(a)
      PROVE  TypeOK'
  BY <1>0, <1>3, EnqueueType, BudgetTypes DEF RetryGrade
<1>4. ASSUME NEW e \in Envs, ForceDestroy(e)
      PROVE  TypeOK'
  BY <1>0, <1>4, EnqueueType, BudgetTypes DEF ForceDestroy
<1>5. QED
  BY <1>1, <1>2, <1>3, <1>4
     DEF Arrival, AttemptRequests, TerminalRequests, AdminRequests

\* River fetches a job, time passes, the server crashes.
LEMMA SurroundingsType ==
    ASSUME TypeOK,
           \/ \E kind \in JobKinds, a \in Attempts : FetchJob(kind, a)
           \/ \E a \in Attempts : Passage(a)
           \/ Crash
    PROVE  TypeOK'
<1> USE DEF TypeOK, Points, attemptRows, envRows, rows
<1>0. Workers \subseteq Handlers /\ {"age", "timer", "crash"} \subseteq BudgetKinds
  BY DEF Handlers, BudgetKinds
<1>1. ASSUME NEW w \in Workers, NEW kind \in JobKinds, NEW a \in Attempts,
             StartJob(w, kind, a)
      PROVE  TypeOK'
  <2>1. Invocation(kind, a, None, "start") \in Invocations
    BY InvocationType DEF AttemptStatuses
  <2>2. call' \in [Handlers -> Invocations]
    BY <1>0, <1>1, <2>1, HelperTypes DEF StartJob
  <2>3. queue' \in [JobKinds \X Attempts -> 0..MaxQueued]
    <3> DEFINE j == <<kind, a>>
    <3>1. j \in JobKinds \X Attempts /\ queue[j] > 0
      BY <1>1 DEF StartJob
    <3>2. queue' = [queue EXCEPT ![j] = queue[j] - 1]
      BY <1>1 DEF StartJob
    <3>3. queue[j] - 1 \in 0..MaxQueued
      BY <3>1, BoundsAssumption
    <3> HIDE DEF j
    <3>4. QED
      BY <3>2, <3>3
  <2>4. QED
    BY <1>1, <2>2, <2>3 DEF StartJob
<1>2. ASSUME NEW a \in Attempts, Age(a)
      PROVE  TypeOK'
  BY <1>0, <1>2, BudgetTypes DEF Age
<1>3. ASSUME NEW a \in Attempts, ExamTimer(a)
      PROVE  TypeOK'
  BY <1>0, <1>3, EnqueueType, BudgetTypes DEF ExamTimer
<1>4. CASE Crash
  <2>1. \A j \in JobKinds \X Attempts : Cardinality(Running(j[1], j[2])) \in Nat
    BY HandlersAssumption, FS_Subset, FS_CardinalityType DEF Running
  <2>2. queue' \in [JobKinds \X Attempts -> 0..MaxQueued]
    BY <1>4, <2>1, BoundsAssumption DEF Crash
  <2>3. call' \in [Handlers -> Invocations]
    BY <1>4, IdleType DEF Crash
  <2>4. QED
    BY <1>0, <1>4, <2>2, <2>3, BudgetTypes DEF Crash
<1>5. QED
  BY <1>1, <1>2, <1>3, <1>4 DEF FetchJob, Passage

\* Every step of the system keeps the types.
LEMMA TypeNext == TypeOK /\ [Next]_vars => TypeOK'
<1> SUFFICES ASSUME TypeOK, [Next]_vars PROVE TypeOK'
  OBVIOUS
<1>1. ASSUME NEW h \in Handlers, Step(h)
      PROVE  TypeOK'
  BY <1>1, AttemptStepType, TerminalStepType, AdminStepType, GradingStepType,
     OrchestratorStepType, PlatformStepType, ReconcileType DEF Step
<1>2. CASE Disturbance
  BY <1>2, PlatformStepType, SurroundingsType DEF Disturbance, Handlers
<1>3. CASE UNCHANGED vars
  BY <1>3 DEF TypeOK, vars, rows, attemptRows, envRows
<1>4. QED
  BY <1>1, <1>2, <1>3, ArrivalType, ReconcileType, SurroundingsType DEF Next

\* Every reachable state is well-typed: in particular each attempt has one of
\* the statuses of status.go or no row, and no handler is at a point unknown.
THEOREM TypeCorrect == Spec => []TypeOK
BY TypeInit, TypeNext, PTL DEF Spec

-----------------------------------------------------------------------------
(* The count of attempts                                                   *)

\* A step leaves the count alone, adds one, or takes one that is there.
CountStep ==
    \/ remaining' = remaining
    \/ remaining' = remaining + 1
    \/ remaining > 0 /\ remaining' = remaining - 1

LEMMA HandlerCount ==
    ASSUME NEW h, Step(h)
    PROVE  CountStep
<1> USE DEF CountStep, IncrementAttemptsRemaining, rows
<1>1. CASE AttemptStep(h)
  BY <1>1
     DEF AttemptStep, RequestDecrement, RequestCreate, RequestEnqueue, RequestRestore,
         SubmitTransitioned, SubmitEnqueue, ExpireStart, ExpireTransitioned,
         ExpireEnqueue
<1>2. CASE OrchestratorStep(h)
  BY <1>2
     DEF OrchestratorStep, ProvisionStart, ProvisionBuild, ProvisionRecord,
         ProvisionConfigure, ProvisionSession, ProvisionTransitioned,
         ProvisionFailureRecorded, ProvisionFailureEnqueue, RestoreAttemptCount,
         CleanupStart, CleanupDestroying, CleanupDestroy, CleanupMarkFailed,
         CleanupDestroyed, CleanupTransitioned
<1>3. CASE GradingStep(h)
  BY <1>3
     DEF GradingStep, GradeStart, GradeTransitioned, GradeLoad, GradeChecks, GradeSave,
         GradeScored, GradeEnqueue
<1>4. CASE TerminalStep(h) \/ AdminStep(h) \/ ReconcileStep
  BY <1>4
     DEF TerminalStep, OpenAdmit, OpenStamp, OpenTransitioned, AdminStep,
         RetryProvisionTransitioned, RetryProvisionEnqueue, ReconcileStep,
         ReconcileTransitioned, ReconcileEnqueue
<1>5. CASE StatusRead(h) \/ StatusWrite(h) \/ CompleteJob(h) \/ RetryJob(h)
  BY <1>5 DEF StatusRead, StatusWrite, CompleteJob, RetryJob
<1>6. QED
  BY <1>1, <1>2, <1>3, <1>4, <1>5 DEF Step

LEMMA NextCount == [Next]_vars => CountStep
<1> USE DEF CountStep, rows
<1>1. CASE Arrival
  BY <1>1
     DEF Arrival, AttemptRequests, TerminalRequests, AdminRequests, RequestStart,
         SubmitStart, OpenStart, RetryProvisionStart, RetryGrade, ForceDestroy
<1>2. CASE Disturbance
  BY <1>2 DEF Disturbance, Cancel, DiscardJob, Crash
<1>3. ASSUME NEW kind, NEW a, FetchJob(kind, a) \/ Reconcile(a) \/ Passage(a)
      PROVE  CountStep
  BY <1>3
     DEF FetchJob, StartJob, Reconcile, ReconcileStale, ReconcileTerminal, Passage, Age,
         ExamTimer
<1>4. QED
  BY <1>1, <1>2, <1>3, HandlerCount DEF Next, vars

\* Whoever requests, fails and refunds at the same time, no purchase is drawn
\* below zero: the UPDATE checks again what RequestAttempt read before.
THEOREM CountNonNegative == Spec => []AttemptsRemainingNonNegative
<1>1. Init => AttemptsRemainingNonNegative
  BY BoundsAssumption DEF Init, PlatformInit, AttemptsRemainingNonNegative
<1>2. /\ TypeOK /\ AttemptsRemainingNonNegative /\ [Next]_vars
      => AttemptsRemainingNonNegative'
  BY NextCount DEF CountStep, AttemptsRemainingNonNegative, TypeOK
<1>3. QED
  BY <1>1, <1>2, TypeCorrect, PTL DEF Spec

-----------------------------------------------------------------------------
(* Sessions                                                                *)
(*                                                                         *)
(* An attempt is never shown as ready, opened, submitted or graded without *)
(* its environment row and its session.  SessionBeforeReady alone is not   *)
(* inductive: TransitionAttempt reads the status in one statement and      *)
(* writes it blindly in another, so what makes the write correct is        *)
(* knowledge a handler carries between statements.  Sound says what that   *)
(* knowledge is at each point; the rest of SessionInv is what the          *)
(* provisioning job relies on to have an environment that no other job     *)
(* records.                                                                *)

\* What holds of an invocation c over the rows ow (owner), se (session) and v
\* (vm); they are parameters, so that c may be given before or after a step.
Linked(a, ow, se) == \E e \in Envs : ow[e] = a /\ se[e] # None

Sound(c, ow, se, v) ==
    /\ c.at # "idle" => c.attempt \in Attempts
    /\ c.at \in {"configure", "session", "admit", "stamp"} =>
            c.env \in Envs /\ ow[c.env] = c.attempt
    /\ c.at = "readStatus" /\ c.to = "environment_ready" =>
            Linked(c.attempt, ow, se)
    /\ c.at = "writeStatus" /\ c.to \in GivenStatuses => Linked(c.attempt, ow, se)
    /\ c.at = "record" => c.env \in Envs /\ v[c.env] # None /\ ow[c.env] = None

Recording == {h \in Handlers : call[h].at = "record"}

RowsLinked ==
    \A e \in Envs :
        /\ session[e] # None => owner[e] # None
        /\ owner[e] # None => vm[e] # None

SessionInv ==
    /\ SessionBeforeReady
    /\ RowsLinked
    /\ \A h \in Handlers : Sound(call[h], owner, session, vm)
    /\ \A g, h \in Recording : call[g].env = call[h].env => g = h

-----------------------------------------------------------------------------
LEMMA SessionInit == Init => SessionInv
BY NoneAssumption
   DEF Init, PlatformInit, SessionInv, SessionBeforeReady, Given, GivenStatuses,
       RowsLinked, Sound, Recording, Idle, Invocation, None

\* What no step but the recording of an environment does to the rows: owners
\* stay, sessions and VMs are not forgotten, and only an attempt with a session
\* is given.
RowsKept ==
    /\ owner' = owner
    /\ \A e \in Envs : vm[e] # None => vm'[e] # None
    /\ \A e \in Envs : session[e] # None => session'[e] # None
    /\ \A e \in Envs : session'[e] # None => owner[e] # None
    /\ \A a \in Attempts :
            status'[a] \in GivenStatuses => a \in Given \/ HasSession(a)

\* Handler h moves on with the invocation c, sound after the step.
MovesTo(h, c) ==
    /\ call' = [call EXCEPT ![h] = c]
    /\ Sound(c, owner', session', vm')
    /\ c.at = "record" => call[h].at = "record" /\ c.env = call[h].env

\* Sessions that exist go on existing, so what is sound stays sound.
LEMMA SoundKept ==
    ASSUME RowsKept, NEW c, Sound(c, owner, session, vm)
    PROVE  Sound(c, owner', session', vm')
BY DEF Sound, RowsKept, Linked

\* A step that keeps the rows and leaves its handler sound keeps SessionInv.
LEMMA Kept ==
    ASSUME TypeOK, SessionInv, RowsKept,
           NEW h \in Handlers, NEW c, MovesTo(h, c)
    PROVE  SessionInv'
<1>1. SessionBeforeReady'
  BY DEF SessionInv, SessionBeforeReady, RowsKept, Given, HasSession
<1>2. RowsLinked'
  BY DEF SessionInv, RowsLinked, RowsKept
<1>3. \A g \in Handlers : call'[g] = IF g = h THEN c ELSE call[g]
  BY DEF TypeOK, MovesTo
<1>4. \A g \in Handlers : Sound(call'[g], owner', session', vm')
  BY <1>3, SoundKept DEF SessionInv, MovesTo
<1>5. \A g, k \in Recording' : call'[g].env = call'[k].env => g = k
  BY <1>3 DEF SessionInv, Recording, MovesTo
<1>6. QED
  BY <1>1, <1>2, <1>4, <1>5 DEF SessionInv

-----------------------------------------------------------------------------
(* How the helpers move a handler                                          *)

Moves(h) == \E c : MovesTo(h, c)

LEMMA KeptByMove ==
    ASSUME TypeOK, SessionInv, RowsKept, NEW h \in Handlers, Moves(h)
    PROVE  SessionInv'
BY Kept DEF Moves

\* The points at which nothing but the attempt is relied on.
PlainPoints == Points \ {"idle", "readStatus", "writeStatus", "record", "configure",
                         "session", "admit", "stamp"}

LEMMA PlainMoves ==
    ASSUME TypeOK, SessionInv, NEW h \in Handlers
    PROVE  /\ Return(h) => Moves(h)
           /\ call[h].at # "idle" => \A p \in PlainPoints : Goto(h, p) => Moves(h)
           /\ call[h].at # "idle" => \A p \in PlainPoints, e \in Envs :
                    GotoWith(h, p, e) => Moves(h)
           /\ call[h].at # "idle" => \A b \in BOOLEAN : TransitionReturns(h, b) => Moves(h)
           /\ call[h].at # "idle" => \A s \in AttemptStatuses \ {"environment_ready"} :
                    CallTransition(h, s) => Moves(h)
<1> DEFINE d == call[h]
<1>1. /\ d \in Invocations
      /\ d.at # "idle" => d.attempt \in Attempts
  BY DEF TypeOK, SessionInv, Sound
<1> HIDE DEF d
<1>2. Return(h) => Moves(h)
  BY DEF Return, Become, Moves, MovesTo, Sound, Idle, Invocation
<1>3. ASSUME d.at # "idle", NEW p \in PlainPoints, Goto(h, p)
      PROVE  Moves(h)
  <2> DEFINE c == [d EXCEPT !.at = p, !.to = None, !.err = FALSE]
  <2>1. c.at = p /\ c.attempt = d.attempt
    BY <1>1 DEF Invocations
  <2>2. call' = [call EXCEPT ![h] = c]
    BY <1>3 DEF Goto, Become, d
  <2> HIDE DEF c
  <2>3. MovesTo(h, c)
    BY <1>1, <1>3, <2>1, <2>2 DEF MovesTo, Sound, PlainPoints
  <2>4. QED
    BY <2>3 DEF Moves
<1>4. ASSUME d.at # "idle", NEW p \in PlainPoints, NEW e \in Envs, GotoWith(h, p, e)
      PROVE  Moves(h)
  <2> DEFINE c == [d EXCEPT !.at = p, !.env = e]
  <2>1. c.at = p /\ c.attempt = d.attempt
    BY <1>1 DEF Invocations
  <2>2. call' = [call EXCEPT ![h] = c]
    BY <1>4 DEF GotoWith, Become, d
  <2> HIDE DEF c
  <2>3. MovesTo(h, c)
    BY <1>1, <1>4, <2>1, <2>2 DEF MovesTo, Sound, PlainPoints
  <2>4. QED
    BY <2>3 DEF Moves
<1>5. ASSUME d.at # "idle", NEW b \in BOOLEAN, TransitionReturns(h, b)
      PROVE  Moves(h)
  <2> DEFINE c == [d EXCEPT !.at = "returned", !.err = b]
  <2>1. c.at = "returned" /\ c.attempt = d.attempt
    BY <1>1 DEF Invocations
  <2>2. call' = [call EXCEPT ![h] = c]
    BY <1>5 DEF TransitionReturns, Become, d
  <2> HIDE DEF c
  <2>3. MovesTo(h, c)
    BY <1>1, <1>5, <2>1, <2>2 DEF MovesTo, Sound
  <2>4. QED
    BY <2>3 DEF Moves
<1>6. ASSUME d.at # "idle", NEW s \in AttemptStatuses \ {"environment_ready"},
             CallTransition(h, s)
      PROVE  Moves(h)
  <2> DEFINE c == [d EXCEPT !.at = "readStatus", !.to = s, !.err = FALSE]
  <2>1. c.at = "readStatus" /\ c.to = s /\ c.attempt = d.attempt
    BY <1>1 DEF Invocations
  <2>2. call' = [call EXCEPT ![h] = c]
    BY <1>6 DEF CallTransition, Become, d
  <2> HIDE DEF c
  <2>3. MovesTo(h, c)
    BY <1>1, <1>6, <2>1, <2>2 DEF MovesTo, Sound
  <2>4. QED
    BY <2>3 DEF Moves
<1>7. QED
  BY <1>2, <1>3, <1>4, <1>5, <1>6 DEF d

\* A handler that begins relies on nothing but the attempt, except for a
\* terminal connection, which has read the owner of its environment.
LEMMA BeginMoves ==
    ASSUME NEW h \in Handlers, NEW a \in Attempts, NEW op
    PROVE  /\ \A p \in PlainPoints : Begin(h, Invocation(op, a, None, p)) => Moves(h)
           /\ \A s \in AttemptStatuses \ {"environment_ready"} :
                Begin(h, [Invocation(op, a, None, "readStatus") EXCEPT !.to = s])
                    => Moves(h)
           /\ \A e \in Envs : /\ owner'[e] = a
                              /\ Begin(h, Invocation(op, a, e, "admit"))
                              => Moves(h)
<1>1. ASSUME NEW p \in PlainPoints, Begin(h, Invocation(op, a, None, p))
      PROVE  Moves(h)
  <2>1. MovesTo(h, Invocation(op, a, None, p))
    BY <1>1 DEF Begin, Become, MovesTo, Sound, Invocation, PlainPoints
  <2>2. QED
    BY <2>1 DEF Moves
<1>2. ASSUME NEW s \in AttemptStatuses \ {"environment_ready"},
             Begin(h, [Invocation(op, a, None, "readStatus") EXCEPT !.to = s])
      PROVE  Moves(h)
  <2>1. MovesTo(h, [Invocation(op, a, None, "readStatus") EXCEPT !.to = s])
    BY <1>2 DEF Begin, Become, MovesTo, Sound, Invocation
  <2>2. QED
    BY <2>1 DEF Moves
<1>3. ASSUME NEW e \in Envs, owner'[e] = a, Begin(h, Invocation(op, a, e, "admit"))
      PROVE  Moves(h)
  <2>1. MovesTo(h, Invocation(op, a, e, "admit"))
    BY <1>3 DEF Begin, Become, MovesTo, Sound, Invocation
  <2>2. QED
    BY <2>1 DEF Moves
<1>4. QED
  BY <1>1, <1>2, <1>3

-----------------------------------------------------------------------------
(* The steps that touch neither the statuses nor what SessionInv says of   *)
(* the environments                                                        *)

Quiet == UNCHANGED <<status, owner, vm, session>>

LEMMA QuietKeepsRows ==
    ASSUME SessionInv, Quiet
    PROVE  RowsKept
BY DEF SessionInv, RowsLinked, RowsKept, Quiet, Given

LEMMA QuietMoves ==
    ASSUME TypeOK, SessionInv, Quiet, NEW h \in Handlers, Moves(h)
    PROVE  SessionInv'
BY QuietKeepsRows, KeptByMove

LEMMA QuietUnmoved ==
    ASSUME SessionInv, Quiet, UNCHANGED call
    PROVE  SessionInv'
BY DEF Quiet, SessionInv, SessionBeforeReady, Given, HasSession, RowsLinked, Sound,
       Linked, Recording

LEMMA AttemptStepQuiet ==
    ASSUME TypeOK, SessionInv, NEW h \in Handlers, AttemptStep(h), ~RequestCreate(h)
    PROVE  SessionInv'
<1> USE PlainMoves, QuietMoves
    DEF Quiet, At, Returned, PlainPoints, Points, attemptRows, envRows, rows
<1>1. CASE RequestDecrement(h)
  BY <1>1 DEF RequestDecrement
<1>2. CASE RequestEnqueue(h)
  BY <1>2 DEF RequestEnqueue
<1>3. CASE RequestRestore(h)
  BY <1>3 DEF RequestRestore
<1>4. CASE SubmitTransitioned(h)
  BY <1>4 DEF SubmitTransitioned
<1>5. CASE SubmitEnqueue(h)
  BY <1>5 DEF SubmitEnqueue
<1>6. CASE ExpireStart(h)
  BY <1>6 DEF ExpireStart, AttemptStatuses
<1>7. CASE ExpireTransitioned(h)
  BY <1>7 DEF ExpireTransitioned
<1>8. CASE ExpireEnqueue(h)
  BY <1>8 DEF ExpireEnqueue
<1>9. QED
  BY <1>1, <1>2, <1>3, <1>4, <1>5, <1>6, <1>7, <1>8 DEF AttemptStep

LEMMA GradingStepQuiet ==
    ASSUME TypeOK, SessionInv, NEW h \in Handlers, GradingStep(h)
    PROVE  SessionInv'
<1> USE PlainMoves, QuietMoves
    DEF Quiet, At, Returned, PlainPoints, Points, attemptRows, envRows, rows
<1>1. CASE GradeStart(h)
  BY <1>1 DEF GradeStart, AttemptStatuses
<1>2. CASE GradeTransitioned(h)
  BY <1>2 DEF GradeTransitioned
<1>3. CASE GradeLoad(h)
  BY <1>3 DEF GradeLoad, EnvsOf
<1>4. CASE GradeChecks(h)
  <2> DEFINE d == call[h]
  <2>1. d \in Invocations /\ d.attempt \in Attempts
    BY <1>4 DEF TypeOK, SessionInv, Sound, GradeChecks
  <2>2. ASSUME NEW points, Found(h, points)
        PROVE  Moves(h)
    <3> DEFINE c == [d EXCEPT !.at = "save", !.result = points]
    <3>1. call' = [call EXCEPT ![h] = c]
      BY <2>2 DEF Found, Become
    <3> HIDE DEF d
    <3>2. c.at = "save" /\ c.attempt = d.attempt
      BY <2>1 DEF Invocations
    <3> HIDE DEF c
    <3>3. MovesTo(h, c)
      BY <2>1, <3>1, <3>2 DEF MovesTo, Sound
    <3>4. QED
      BY <3>3 DEF Moves
  <2>3. QED
    BY <1>4, <2>2 DEF GradeChecks
<1>5. CASE GradeSave(h)
  BY <1>5 DEF GradeSave, AttemptStatuses
<1>6. CASE GradeScored(h)
  BY <1>6 DEF GradeScored
<1>7. CASE GradeEnqueue(h)
  BY <1>7 DEF GradeEnqueue
<1>8. QED
  BY <1>1, <1>2, <1>3, <1>4, <1>5, <1>6, <1>7 DEF GradingStep

LEMMA AdminStepQuiet ==
    ASSUME TypeOK, SessionInv, NEW h \in Handlers, AdminStep(h)
    PROVE  SessionInv'
BY PlainMoves, QuietMoves
   DEF AdminStep, RetryProvisionTransitioned, RetryProvisionEnqueue, Quiet, At,
       Returned, PlainPoints, Points, attemptRows, envRows, rows

LEMMA RiverQuiet ==
    ASSUME TypeOK, SessionInv, NEW h \in Handlers,
           CompleteJob(h) \/ RetryJob(h) \/ DiscardJob(h)
    PROVE  SessionInv'
BY PlainMoves, QuietMoves
   DEF CompleteJob, RetryJob, DiscardJob, Quiet, attemptRows, envRows, rows

LEMMA ReconcileQuiet ==
    ASSUME TypeOK, SessionInv, ReconcileStep \/ \E a \in Attempts : Reconcile(a)
    PROVE  SessionInv'
<1> USE QuietMoves
    DEF Quiet, At, Returned, PlainPoints, Points, attemptRows, envRows, rows
<1>0. Reconciler \in Handlers
  BY DEF Handlers
<1>1. CASE ReconcileTransitioned
  BY <1>0, <1>1, PlainMoves DEF ReconcileTransitioned
<1>2. CASE ReconcileEnqueue
  BY <1>0, <1>2, PlainMoves DEF ReconcileEnqueue
<1>3. ASSUME NEW a \in Attempts, Reconcile(a)
      PROVE  SessionInv'
  BY <1>0, <1>3, BeginMoves
     DEF Reconcile, ReconcileStale, ReconcileTerminal, AttemptStatuses
<1>4. QED
  BY <1>1, <1>2, <1>3 DEF ReconcileStep

LEMMA PassageQuiet ==
    ASSUME TypeOK, SessionInv,
           \/ \E a \in Attempts : Passage(a)
           \/ \E kind \in JobKinds, a \in Attempts : FetchJob(kind, a)
    PROVE  SessionInv'
<1> USE DEF Quiet, attemptRows, envRows, rows
<1>1. ASSUME NEW a \in Attempts, Passage(a)
      PROVE  SessionInv'
  BY <1>1, QuietUnmoved DEF Passage, Age, ExamTimer
<1>2. ASSUME NEW w \in Workers, NEW kind \in JobKinds, NEW a \in Attempts,
             StartJob(w, kind, a)
      PROVE  SessionInv'
  <2>1. w \in Handlers /\ "start" \in PlainPoints
    BY DEF Handlers, PlainPoints, Points
  <2>2. QED
    BY <1>2, <2>1, BeginMoves, QuietMoves DEF StartJob
<1>3. QED
  BY <1>1, <1>2 DEF FetchJob

-----------------------------------------------------------------------------
(* The arrivals                                                            *)

LEMMA ArrivalSession ==
    ASSUME TypeOK, SessionInv, Arrival
    PROVE  SessionInv'
<1> USE DEF Quiet, attemptRows, envRows, rows
<1>0. Requests \subseteq Handlers /\ {"decrement", "enqueue"} \subseteq PlainPoints
  BY DEF Handlers, PlainPoints, Points
<1>1. ASSUME NEW h \in Requests, NEW a \in Attempts,
             RequestStart(h, a) \/ SubmitStart(h, a) \/ RetryProvisionStart(h, a)
      PROVE  SessionInv'
  BY <1>0, <1>1, BeginMoves, QuietMoves
     DEF RequestStart, SubmitStart, RetryProvisionStart, AttemptStatuses
<1>2. ASSUME NEW h \in Requests, NEW e \in Envs, OpenStart(h, e)
      PROVE  SessionInv'
  <2>1. owner[e] \in Attempts /\ owner'[e] = owner[e]
    BY <1>2 DEF OpenStart, SessionInv, RowsLinked, TypeOK, None
  <2>2. QED
    BY <1>0, <1>2, <2>1, BeginMoves, QuietMoves DEF OpenStart
<1>3. ASSUME NEW a \in Attempts, RetryGrade(a)
      PROVE  SessionInv'
  BY <1>3, QuietUnmoved DEF RetryGrade
<1>4. ASSUME NEW e \in Envs, ForceDestroy(e)
      PROVE  SessionInv'
  BY <1>4, QuietUnmoved DEF ForceDestroy
<1>5. QED
  BY <1>1, <1>2, <1>3, <1>4
     DEF Arrival, AttemptRequests, TerminalRequests, AdminRequests

-----------------------------------------------------------------------------
(* The steps that change statuses or environments                          *)

LEMMA RequestCreateSession ==
    ASSUME TypeOK, SessionInv, NEW h \in Handlers, RequestCreate(h)
    PROVE  SessionInv'
<1>1. RowsKept
  BY DEF RequestCreate, RowsKept, SessionInv, RowsLinked, Given, GivenStatuses,
         TypeOK, attemptRows, envRows
<1>2. Moves(h)
  BY PlainMoves DEF RequestCreate, At, PlainPoints, Points
<1>3. QED
  BY <1>1, <1>2, KeptByMove

\* A table row leads to a given status only from a given one, or from
\* provisioning to ready.
LEMMA GivenFromGiven ==
    ASSUME NEW s, NEW t \in GivenStatuses, ValidTransition(s, t)
    PROVE  s \in GivenStatuses \/ t = "environment_ready"
BY DEF ValidTransition, validTransitions, GivenStatuses

LEMMA StatusReadSession ==
    ASSUME TypeOK, SessionInv, NEW h \in Handlers, StatusRead(h)
    PROVE  SessionInv'
<1> DEFINE d == call[h]
           c == [d EXCEPT !.at = "writeStatus"]
<1> USE DEF Quiet, rows, attemptRows, envRows
<1>1. CASE \E b \in BOOLEAN : TransitionReturns(h, b)
  BY <1>1, PlainMoves, QuietMoves DEF StatusRead
<1>2. CASE /\ ValidTransition(status[Att(h)], d.to)
           /\ Become(h, c)
  <2>1. d \in Invocations /\ d.attempt \in Attempts /\ Sound(d, owner, session, vm)
    BY DEF TypeOK, SessionInv, Sound, StatusRead
  <2>2. d.to \in GivenStatuses => Linked(d.attempt, owner, session)
    <3> SUFFICES ASSUME d.to \in GivenStatuses
                 PROVE  Linked(d.attempt, owner, session)
      OBVIOUS
    <3>1. CASE d.to = "environment_ready"
      BY <2>1, <3>1 DEF Sound, StatusRead
    <3>2. CASE d.attempt \in Given
      BY <3>2 DEF SessionInv, SessionBeforeReady, HasSession, Linked
    <3>3. QED
      BY <1>2, <2>1, <3>1, <3>2, GivenFromGiven DEF Given, Att
  <2>3. call' = [call EXCEPT ![h] = c]
    BY <1>2 DEF Become
  <2>4. UNCHANGED <<owner, session, vm>>
    BY DEF StatusRead
  <2> HIDE DEF d
  <2>5. c.at = "writeStatus" /\ c.attempt = d.attempt /\ c.to = d.to
    BY <2>1 DEF Invocations
  <2> HIDE DEF c
  <2>6. MovesTo(h, c)
    BY <2>1, <2>2, <2>3, <2>4, <2>5 DEF MovesTo, Sound
  <2>7. QED
    BY <2>6, QuietMoves DEF Moves, StatusRead
<1>3. QED
  BY <1>1, <1>2 DEF StatusRead

LEMMA StatusWriteSession ==
    ASSUME TypeOK, SessionInv, NEW h \in Handlers, StatusWrite(h)
    PROVE  SessionInv'
<1>1. Moves(h)
  BY PlainMoves DEF StatusWrite
<1>2. RowsKept
  <2>1. call[h].to \in GivenStatuses => Linked(Att(h), owner, session)
    BY DEF SessionInv, Sound, StatusWrite, Att
  <2>2. \A a \in Attempts :
            \/ status'[a] = status[a]
            \/ a = Att(h) /\ status'[a] = call[h].to
    <3>1. status' = [status EXCEPT ![Att(h)] = call[h].to] \/ status' = status
      BY Zenon DEF StatusWrite, attemptRows
    <3>2. status \in [Attempts -> AttemptStatuses \cup {None}]
      BY DEF TypeOK
    <3>3. QED
      BY <3>1, <3>2
  <2>3. QED
    BY <2>1, <2>2 DEF StatusWrite, RowsKept, SessionInv, RowsLinked, Given,
         HasSession, Linked, envRows
<1>3. QED
  BY <1>1, <1>2, KeptByMove

LEMMA CancelSession ==
    ASSUME TypeOK, SessionInv, NEW h \in Handlers, Cancel(h)
    PROVE  SessionInv'
<1> DEFINE d == call[h]
           c == [d EXCEPT !.live = FALSE]
<1>1. d \in Invocations /\ Sound(d, owner, session, vm)
  BY DEF TypeOK, SessionInv
<1>2. /\ call' = [call EXCEPT ![h] = c]
      /\ UNCHANGED <<owner, session, vm>>
  BY DEF Cancel, Become, rows, envRows
<1> HIDE DEF d
<1>3. /\ c.at = d.at /\ c.attempt = d.attempt /\ c.to = d.to /\ c.env = d.env
  BY <1>1 DEF Invocations
<1> HIDE DEF c
<1>4. MovesTo(h, c)
  BY <1>1, <1>2, <1>3 DEF MovesTo, Sound, d
<1>5. QED
  BY <1>4, QuietMoves DEF Moves, Quiet, Cancel, rows, attemptRows, envRows

LEMMA CrashSession ==
    ASSUME TypeOK, SessionInv, Crash
    PROVE  SessionInv'
<1>1. /\ \A h \in Handlers : call'[h] = Idle
      /\ UNCHANGED <<status, owner, vm, session>>
  BY DEF Crash, attemptRows, envRows
<1>2. \A h \in Handlers : Sound(call'[h], owner', session', vm')
  BY <1>1 DEF Sound, Idle, Invocation
<1>3. Recording' = {}
  BY <1>1 DEF Recording, Idle, Invocation
<1>4. QED
  BY <1>1, <1>2, <1>3
     DEF SessionInv, SessionBeforeReady, Given, HasSession, RowsLinked

LEMMA TerminalStepSession ==
    ASSUME TypeOK, SessionInv, NEW h \in Handlers, TerminalStep(h)
    PROVE  SessionInv'
<1> USE DEF Quiet, At, Returned, rows, attemptRows, envRows
<1>0. call[h].at # "idle" /\ Sound(call[h], owner, session, vm)
  BY DEF SessionInv, TerminalStep, OpenAdmit, OpenStamp, OpenTransitioned
<1>1. CASE OpenAdmit(h)
  <2>1. CASE Return(h)
    BY <1>1, <2>1, PlainMoves, QuietMoves DEF OpenAdmit
  <2>2. CASE Goto(h, "stamp")
    <3> DEFINE d == call[h]
               c == [d EXCEPT !.at = "stamp", !.to = None, !.err = FALSE]
    <3>1. /\ d \in Invocations /\ d.attempt \in Attempts
          /\ d.env \in Envs /\ owner'[d.env] = d.attempt
      BY <1>0, <1>1 DEF TypeOK, Sound, OpenAdmit
    <3>2. call' = [call EXCEPT ![h] = c]
      BY <2>2 DEF Goto, Become
    <3> HIDE DEF d
    <3>3. c.at = "stamp" /\ c.attempt = d.attempt /\ c.env = d.env
      BY <3>1 DEF Invocations
    <3> HIDE DEF c
    <3>4. MovesTo(h, c)
      BY <3>1, <3>2, <3>3 DEF MovesTo, Sound
    <3>5. QED
      BY <1>1, <3>4, QuietMoves DEF Moves, OpenAdmit
  <2>3. QED
    BY <1>1, <2>1, <2>2 DEF OpenAdmit
<1>2. CASE OpenStamp(h)
  <2>1. call[h].env \in Envs /\ owner[call[h].env] # None
    BY <1>0, <1>2, NoneAssumption DEF OpenStamp, Sound
  <2>2. RowsKept
    BY <1>2, <2>1 DEF OpenStamp, RowsKept, SessionInv, RowsLinked, Given, TypeOK, None
  <2>3. QED
    BY <1>0, <1>2, <2>2, PlainMoves, KeptByMove DEF OpenStamp, AttemptStatuses
<1>3. CASE OpenTransitioned(h)
  BY <1>3, PlainMoves, QuietMoves DEF OpenTransitioned, AttemptStatuses
<1>4. QED
  BY <1>1, <1>2, <1>3 DEF TerminalStep

-----------------------------------------------------------------------------
(* The orchestrator                                                        *)

\* The steps of the two jobs that keep all rows of RowsKept as they are.
LEMMA OrchestratorStepQuiet ==
    ASSUME TypeOK, SessionInv, NEW h \in Handlers,
           \/ ProvisionStart(h) \/ ProvisionTransitioned(h)
           \/ ProvisionFailureRecorded(h) \/ ProvisionFailureEnqueue(h)
           \/ RestoreAttemptCount(h)
           \/ CleanupStart(h) \/ CleanupDestroying(h) \/ CleanupMarkFailed(h)
           \/ CleanupDestroyed(h) \/ CleanupTransitioned(h)
    PROVE  SessionInv'
<1> USE PlainMoves, QuietMoves
    DEF Quiet, At, Returned, PlainPoints, Points, attemptRows, envRows, rows
<1>1. CASE ProvisionStart(h)
  BY <1>1 DEF ProvisionStart, AttemptStatuses
<1>2. CASE ProvisionTransitioned(h)
  BY <1>2 DEF ProvisionTransitioned
<1>3. CASE ProvisionFailureRecorded(h)
  BY <1>3 DEF ProvisionFailureRecorded
<1>4. CASE ProvisionFailureEnqueue(h)
  BY <1>4 DEF ProvisionFailureEnqueue
<1>5. CASE RestoreAttemptCount(h)
  BY <1>5 DEF RestoreAttemptCount
<1>6. CASE CleanupStart(h)
  BY <1>6 DEF CleanupStart, EnvsOf
<1>7. CASE CleanupDestroying(h)
  BY <1>7 DEF CleanupDestroying
<1>8. CASE CleanupMarkFailed(h)
  BY <1>8 DEF CleanupMarkFailed
<1>9. CASE CleanupDestroyed(h)
  BY <1>9 DEF CleanupDestroyed, AttemptStatuses
<1>10. CASE CleanupTransitioned(h)
  BY <1>10 DEF CleanupTransitioned
<1>11. QED
  BY <1>1, <1>2, <1>3, <1>4, <1>5, <1>6, <1>7, <1>8, <1>9, <1>10

\* Destroying VMs does not forget that they existed.
LEMMA CleanupDestroySession ==
    ASSUME TypeOK, SessionInv, NEW h \in Handlers, CleanupDestroy(h)
    PROVE  SessionInv'
<1>1. RowsKept
  <2>1. \A e \in Envs : vm[e] # None => vm'[e] # None
    BY WhatIsDestroyed DEF CleanupDestroy, TypeOK, None
  <2>2. QED
    BY <2>1 DEF CleanupDestroy, RowsKept, SessionInv, RowsLinked, Given, TypeOK,
         attemptRows
<1>2. Moves(h)
  BY PlainMoves DEF CleanupDestroy, At, PlainPoints, Points
<1>3. QED
  BY <1>1, <1>2, KeptByMove

\* The new VMs are nobody's: no row and no other job has them.
LEMMA ProvisionBuildSession ==
    ASSUME TypeOK, SessionInv, NEW h \in Handlers, ProvisionBuild(h)
    PROVE  SessionInv'
<1>1. RowsKept
  BY DEF ProvisionBuild, RowsKept, SessionInv, RowsLinked, Given, TypeOK,
         attemptRows, None
<1>2. CASE CallTransition(h, "provision_failed") \/ Goto(h, "failed")
  <2>1. Moves(h)
    BY <1>2, PlainMoves
       DEF ProvisionBuild, At, PlainPoints, Points, AttemptStatuses
  <2>2. QED
    BY <1>1, <2>1, KeptByMove
<1>3. ASSUME NEW e \in Envs, vm[e] = None, vm' = [vm EXCEPT ![e] = "up"],
             GotoWith(h, "record", e)
      PROVE  SessionInv'
  <2> DEFINE d == call[h]
             c == [d EXCEPT !.at = "record", !.env = e]
  <2>1. d \in Invocations /\ d.attempt \in Attempts
    BY DEF TypeOK, SessionInv, Sound, ProvisionBuild, At
  <2>2. call' = [call EXCEPT ![h] = c]
    BY <1>3 DEF GotoWith, Become
  <2>3. \A g \in Handlers : call'[g] = IF g = h THEN c ELSE call[g]
    BY <2>2 DEF TypeOK
  <2>4. /\ UNCHANGED <<status, owner, session>>
        /\ owner[e] = None /\ vm'[e] # None
    BY <1>3 DEF ProvisionBuild, attemptRows, SessionInv, RowsLinked, TypeOK, None
  <2> HIDE DEF d
  <2>5. c.at = "record" /\ c.env = e /\ c.attempt = d.attempt
    BY <2>1 DEF Invocations
  <2> HIDE DEF c
  <2>6. Sound(c, owner', session', vm')
    BY <2>1, <2>4, <2>5 DEF Sound
  <2>7. \A g \in Handlers : Sound(call'[g], owner', session', vm')
    BY <1>1, <2>3, <2>6, SoundKept DEF SessionInv
  <2>8. \A g \in Recording : call[g].env # e
    BY <1>3 DEF SessionInv, Recording, Sound
  <2>9. \A g, k \in Recording' : call'[g].env = call'[k].env => g = k
    BY <2>3, <2>5, <2>8 DEF SessionInv, Recording
  <2>10. SessionBeforeReady' /\ RowsLinked'
    BY <1>1, <2>4
       DEF SessionInv, SessionBeforeReady, RowsKept, Given, HasSession, RowsLinked
  <2>11. QED
    BY <2>7, <2>9, <2>10 DEF SessionInv
<1>4. QED
  BY <1>2, <1>3 DEF ProvisionBuild

\* The environment becomes the attempt's: it was nobody's, and no other job is
\* recording it.
LEMMA ProvisionRecordSession ==
    ASSUME TypeOK, SessionInv, NEW h \in Handlers, ProvisionRecord(h)
    PROVE  SessionInv'
<1> USE DEF Quiet, At, attemptRows
<1>1. CASE CallTransition(h, "provision_failed") /\ UNCHANGED owner
  BY <1>1, PlainMoves, QuietMoves DEF ProvisionRecord, AttemptStatuses
<1>2. CASE /\ owner' = [owner EXCEPT ![call[h].env] = Att(h)]
           /\ Goto(h, "configure")
  <2> DEFINE d == call[h]
             c == [d EXCEPT !.at = "configure", !.to = None, !.err = FALSE]
  <2>1. /\ d \in Invocations /\ d.attempt \in Attempts /\ d.env \in Envs
        /\ vm[d.env] # None /\ owner[d.env] = None /\ h \in Recording
    BY DEF TypeOK, SessionInv, Sound, ProvisionRecord, Recording
  <2>2. /\ call' = [call EXCEPT ![h] = c]
        /\ owner' = [owner EXCEPT ![d.env] = d.attempt]
        /\ UNCHANGED <<status, vm, session>>
    BY <1>2 DEF Goto, Become, Att, ProvisionRecord
  <2>3. \A g \in Handlers : call'[g] = IF g = h THEN c ELSE call[g]
    BY <2>2 DEF TypeOK
  <2>4. \A e \in Envs : owner'[e] = IF e = d.env THEN d.attempt ELSE owner[e]
    BY <2>2 DEF TypeOK
  <2>5. d.attempt # None
    BY <2>1, NoneAssumption
  <2>6. \A g \in Recording : g # h => call[g].env # d.env
    BY <2>1 DEF SessionInv
  <2>7. session[d.env] = None
    BY <2>1 DEF SessionInv, RowsLinked
  <2> HIDE DEF d
  <2>8. c.at = "configure" /\ c.env = d.env /\ c.attempt = d.attempt
    BY <2>1 DEF Invocations
  <2> HIDE DEF c
  <2>9. \A a \in Attempts : Linked(a, owner, session) => Linked(a, owner', session')
    BY <2>2, <2>4, <2>7 DEF Linked
  <2>10. SessionBeforeReady' /\ RowsLinked'
    <3>1. SessionBeforeReady'
      BY <2>2, <2>9 DEF SessionInv, SessionBeforeReady, Given, HasSession, Linked
    <3>2. RowsLinked'
      BY <2>1, <2>2, <2>4, <2>5 DEF SessionInv, RowsLinked
    <3>3. QED
      BY <3>1, <3>2
  <2>11. ASSUME NEW g \in Handlers
         PROVE  Sound(call'[g], owner', session', vm')
    <3>1. CASE g = h
      BY <2>1, <2>3, <2>4, <2>8, <3>1 DEF Sound
    <3>2. CASE g # h
      <4>1. Sound(call[g], owner, session, vm) /\ call'[g] = call[g]
        BY <2>3, <3>2 DEF SessionInv
      <4>2. call[g].at = "record" => call[g].env # d.env
        BY <2>6, <3>2 DEF Recording
      <4>3. call[g].at \in {"configure", "session", "admit", "stamp"} =>
                call[g].env # d.env
        BY <2>1, <4>1, NoneAssumption DEF Sound
      <4>4. QED
        BY <2>2, <2>4, <2>9, <4>1, <4>2, <4>3 DEF Sound
    <3>3. QED
      BY <3>1, <3>2
  <2>12. \A g, k \in Recording' : call'[g].env = call'[k].env => g = k
    BY <2>3, <2>8 DEF SessionInv, Recording
  <2>13. QED
    BY <2>10, <2>11, <2>12 DEF SessionInv
<1>3. QED
  BY <1>1, <1>2 DEF ProvisionRecord

LEMMA ProvisionConfigureSession ==
    ASSUME TypeOK, SessionInv, NEW h \in Handlers, ProvisionConfigure(h)
    PROVE  SessionInv'
<1> USE DEF Quiet, At, rows, attemptRows, envRows
<1>1. CASE CallTransition(h, "provision_failed")
  BY <1>1, PlainMoves, QuietMoves DEF ProvisionConfigure, AttemptStatuses
<1>2. CASE Goto(h, "session")
  <2> DEFINE d == call[h]
             c == [d EXCEPT !.at = "session", !.to = None, !.err = FALSE]
  <2>1. /\ d \in Invocations /\ d.attempt \in Attempts
        /\ d.env \in Envs /\ owner'[d.env] = d.attempt
    BY DEF TypeOK, SessionInv, Sound, ProvisionConfigure
  <2>2. call' = [call EXCEPT ![h] = c]
    BY <1>2 DEF Goto, Become
  <2> HIDE DEF d
  <2>3. c.at = "session" /\ c.attempt = d.attempt /\ c.env = d.env
    BY <2>1 DEF Invocations
  <2> HIDE DEF c
  <2>4. MovesTo(h, c)
    BY <2>1, <2>2, <2>3 DEF MovesTo, Sound
  <2>5. QED
    BY <2>4, QuietMoves DEF Moves, ProvisionConfigure
<1>3. QED
  BY <1>1, <1>2 DEF ProvisionConfigure

\* Only now may the attempt become ready.
LEMMA ProvisionSessionSession ==
    ASSUME TypeOK, SessionInv, NEW h \in Handlers, ProvisionSession(h)
    PROVE  SessionInv'
<1> USE DEF Quiet, At, attemptRows
<1>1. CASE CallTransition(h, "provision_failed") /\ UNCHANGED session
  BY <1>1, PlainMoves, QuietMoves DEF ProvisionSession, AttemptStatuses
<1>2. CASE /\ session' = [session EXCEPT ![call[h].env] = "fresh"]
           /\ CallTransition(h, "environment_ready")
  <2> DEFINE d == call[h]
             c == [d EXCEPT !.at = "readStatus", !.to = "environment_ready",
                            !.err = FALSE]
  <2>1. /\ d \in Invocations /\ d.attempt \in Attempts /\ d.env \in Envs
        /\ owner[d.env] = d.attempt /\ d.attempt # None
    BY NoneAssumption DEF TypeOK, SessionInv, Sound, ProvisionSession
  <2>2. /\ call' = [call EXCEPT ![h] = c]
        /\ session' = [session EXCEPT ![d.env] = "fresh"]
        /\ UNCHANGED <<status, owner, vm>>
    BY <1>2 DEF CallTransition, Become, ProvisionSession
  <2>3. \A e \in Envs : session'[e] = IF e = d.env THEN "fresh" ELSE session[e]
    BY <2>2 DEF TypeOK
  <2>4. RowsKept
    BY <2>1, <2>2, <2>3 DEF RowsKept, SessionInv, RowsLinked, Given, None
  <2> HIDE DEF d
  <2>5. c.at = "readStatus" /\ c.attempt = d.attempt
    BY <2>1 DEF Invocations
  <2> HIDE DEF c
  <2>6. Linked(d.attempt, owner', session')
    BY <2>1, <2>2, <2>3 DEF Linked, None
  <2>7. MovesTo(h, c)
    BY <2>1, <2>2, <2>5, <2>6 DEF MovesTo, Sound
  <2>8. QED
    BY <2>4, <2>7, KeptByMove DEF Moves
<1>3. QED
  BY <1>1, <1>2 DEF ProvisionSession

-----------------------------------------------------------------------------
LEMMA SessionNext == TypeOK /\ SessionInv /\ [Next]_vars => SessionInv'
<1> SUFFICES ASSUME TypeOK, SessionInv, [Next]_vars PROVE SessionInv'
  OBVIOUS
<1>1. ASSUME NEW h \in Handlers, OrchestratorStep(h)
      PROVE  SessionInv'
  BY <1>1, OrchestratorStepQuiet, CleanupDestroySession, ProvisionBuildSession,
     ProvisionRecordSession, ProvisionConfigureSession, ProvisionSessionSession
     DEF OrchestratorStep
<1>2. ASSUME NEW h \in Handlers, Step(h)
      PROVE  SessionInv'
  BY <1>1, <1>2, AttemptStepQuiet, RequestCreateSession, TerminalStepSession,
     AdminStepQuiet, GradingStepQuiet, RiverQuiet, StatusReadSession,
     StatusWriteSession, ReconcileQuiet DEF Step
<1>3. CASE Disturbance
  BY <1>3, CancelSession, RiverQuiet, CrashSession DEF Disturbance, Handlers
<1>4. CASE UNCHANGED vars
  BY <1>4, QuietUnmoved DEF Quiet, vars, rows, attemptRows, envRows
<1>5. QED
  BY <1>2, <1>3, <1>4, ArrivalSession, ReconcileQuiet, PassageQuiet DEF Next

\* Whatever fails, crashes or is retried, an attempt with the status of an
\* environment that was handed out has its environment row and its session.
THEOREM ReadyHasSession == Spec => []SessionBeforeReady
<1>1. TypeOK /\ SessionInv /\ [Next]_vars => (TypeOK /\ SessionInv)'
  BY TypeNext, SessionNext
<1>2. SessionInv => SessionBeforeReady
  BY DEF SessionInv
<1>3. QED
  BY <1>1, <1>2, TypeInit, SessionInit, PTL DEF Spec
=============================================================================
