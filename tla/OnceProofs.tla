----------------------------- MODULE OnceProofs -----------------------------
(***************************************************************************)
(* An attempt is graded once, and what its rows show is the life that      *)
(* AttemptLife promises, for every value of the constants.                 *)
(*                                                                         *)
(* A score is final because one grading job exists at a time (SoleGrading: *)
(* it waits or it runs, and River makes it wait again only when it stopped *)
(* running) and because a job that marks an attempt as being graded finds  *)
(* it without a score.  Sure is what each handler knows when nobody else   *)
(* writes its attempt: a submission that is about to enqueue the job, that *)
(* there is none; a job that is marking, that there is no score; a job     *)
(* that saved one, that the attempt is still in grading.                   *)
(*                                                                         *)
(* It needs what LifeProofs needs, and that an attempt is not submitted    *)
(* twice at a time and no expiry job runs: each of those enqueues a        *)
(* grading job, and its late write of submitted or expired takes the       *)
(* attempt back from grading to where the second job grades it again.      *)
(***************************************************************************)
EXTENDS LifeProofs

-----------------------------------------------------------------------------
(* The inductive invariant                                                 *)

\* No attempt is submitted twice at the same time.
OneSubmission ==
    \A g, h \in Handlers, a \in Attempts :
        call[g].op = "submit" /\ call[h].op = "submit" /\ Att(g) = a /\ Att(h) = a => g = h

\* The statuses that nothing follows.
Finished == {"provision_failed", "scored"}

Grading(h, a) == call[h].op = "grade_attempt" /\ Att(h) = a
Grades(a) == queue[<<"grade_attempt", a>>]
Expiries(a) == queue[<<"expire_attempt", a>>]

\* A submission that is about to enqueue the grading job.
Submitted(h) ==
    call[h].op = "submit" /\ (call[h].at = "enqueue" \/ (call[h].at = "returned" /\ ~call[h].err))

\* A grading job that has marked its attempt, and one that has saved the score.
Marking(h) ==
    /\ call[h].op = "grade_attempt"
    /\ \/ call[h].at \in {"loadEnv", "checks", "save"}
       \/ call[h].at = "returned" /\ call[h].to = "grading" /\ ~call[h].err
Saved(h) ==
    /\ call[h].op = "grade_attempt"
    /\ call[h].at \in {"readStatus", "writeStatus"} /\ call[h].to = "scored"

\* What a handler knows of its attempt when nobody else writes it.
Sure(h) ==
    /\ call[h].op # "expire_attempt"
    /\ call[h].at = "writeStatus" => ValidTransition(status[Att(h)], call[h].to)
    /\ call[h].op = "grade_attempt" => status[Att(h)] \in Late
    /\ Submitted(h) =>
        /\ status[Att(h)] = "submitted"
        /\ Grades(Att(h)) = 0
        /\ \A g \in Handlers : ~Grading(g, Att(h))
    /\ Marking(h) => status[Att(h)] = "grading" /\ score[Att(h)] = None
    /\ Marking(h) /\ call[h].at = "save" => call[h].result # None
    /\ Saved(h) => status[Att(h)] = "grading" /\ score[Att(h)] # None
    /\ Reclaiming(h) => status[Att(h)] \in Finished

\* There is one grading job: it waits or it runs.
SoleGrading(a) ==
    /\ Grades(a) <= 1
    /\ \A g, h \in Handlers : Grading(g, a) /\ Grading(h, a) => g = h
    /\ Grades(a) > 0 => status[a] \in Late /\ \A h \in Handlers : ~Grading(h, a)

AttemptOnce(a) ==
    /\ Expiries(a) = 0
    /\ SoleGrading(a)
    /\ score[a] # None => status[a] \in {"grading", "scored"}
    /\ status[a] = "scored" => score[a] # None
    /\ Cleanups(a) > 0 => status[a] \in Finished

EnvOnce(e) == vm[e] = "gone" => status[owner[e]] \in Finished

OnceInv ==
    /\ budget["timer"] = 0
    /\ \A a \in Attempts : AttemptOnce(a)
    /\ \A e \in Envs : EnvOnce(e)
    /\ \A h \in Handlers : Sure(h)

-----------------------------------------------------------------------------
(* Steps that neither write a status or a score nor start or queue a       *)
(* grading job                                                             *)

RowsSteady ==
    /\ UNCHANGED <<status, score>>
    /\ budget'["timer"] = 0
    /\ \A a \in Attempts :
        /\ Expiries(a)' = 0
        /\ Grades(a)' = Grades(a)
        /\ Cleanups(a)' > 0 => Cleanups(a) > 0 \/ status[a] \in Finished
    /\ \A e \in Envs : vm'[e] = "gone" =>
            owner'[e] = owner[e] /\ (vm[e] = "gone" \/ status[owner[e]] \in Finished)

NoNewGrading == \A g \in Handlers, a \in Attempts : Grading(g, a)' => Grading(g, a)

LEMMA SteadyRows ==
    ASSUME OnceInv, RowsSteady, NoNewGrading
    PROVE  /\ budget'["timer"] = 0
           /\ \A a \in Attempts : AttemptOnce(a)'
           /\ \A e \in Envs : EnvOnce(e)'
<1>1. \A a \in Attempts : AttemptOnce(a)'
  <2> TAKE a \in Attempts
  <2>1. AttemptOnce(a)
    BY DEF OnceInv
  <2>2. SoleGrading(a)'
    BY <2>1 DEF AttemptOnce, SoleGrading, RowsSteady, NoNewGrading
  <2>3. QED
    BY <2>1, <2>2 DEF AttemptOnce, RowsSteady
<1>2. \A e \in Envs : EnvOnce(e)'
  BY DEF OnceInv, EnvOnce, RowsSteady
<1>3. QED
  BY <1>1, <1>2 DEF RowsSteady

LEMMA SteadySure ==
    ASSUME AccountInv, OnceInv, RowsSteady, NoNewGrading, NEW g \in Handlers, call'[g] = call[g]
    PROVE  Sure(g)'
<1>1. Sure(g)
  BY DEF OnceInv
<1>2. /\ Submitted(g)' = Submitted(g) /\ Marking(g)' = Marking(g) /\ Saved(g)' = Saved(g)
      /\ Reclaiming(g)' = Reclaiming(g) /\ Att(g)' = Att(g)
  BY DEF Submitted, Marking, Saved, Reclaiming, Att
<1>3. Submitted(g) => Att(g) \in Attempts
  BY DEF AccountInv, Regular, Submitted
<1>4. Submitted(g) =>
        /\ queue'[<<"grade_attempt", call[g].attempt>>] = 0
        /\ \A k \in Handlers :
            ~(call'[k].op = "grade_attempt" /\ call'[k].attempt = call[g].attempt)
  BY <1>1, <1>3 DEF Sure, RowsSteady, NoNewGrading, Grades, Grading, Att
<1>5. status' = status /\ score' = score
  BY DEF RowsSteady
<1>6. QED
  BY <1>1, <1>2, <1>4, <1>5 DEF Sure, Grades, Grading, Att

LEMMA StillOnce ==
    ASSUME AccountInv, OnceInv, NEW h \in Handlers,
           Others(h), RowsSteady, NoNewGrading, Sure(h)'
    PROVE  OnceInv'
BY SteadyRows, SteadySure DEF OnceInv, Others

LEMMA NoTimer ==
    ASSUME TypeOK, NEW h
    PROVE  /\ Works(h) \/ Fails(h) => budget'["timer"] = budget["timer"]
           /\ \A kind \in BudgetKinds \ {"timer"} :
                Spend(kind) => budget'["timer"] = budget["timer"]
BY DEF TypeOK, Works, Fails, Spend, BudgetKinds

LEMMA OnwardGrading ==
    ASSUME NEW h \in Handlers, Onward(h)
    PROVE  NoNewGrading
BY DEF Onward, Others, NoNewGrading, Grading, Att

\* A handler that neither submits nor grades goes on.
LEMMA PlainOnce ==
    ASSUME TypeOK, AccountInv, OnceInv, NEW h \in Handlers,
           call[h].op \in {"request", "provision_environment", "open"},
           Onward(h), RowsSteady
    PROVE  OnceInv'
<1>1. Sure(h)'
  BY DEF Onward, Sure, Submitted, Marking, Saved, Reclaiming
<1>2. QED
  BY <1>1, OnwardGrading, StillOnce DEF Onward

LEMMA ReclaimOnce ==
    ASSUME TypeOK, AccountInv, OnceInv, NEW h \in Handlers,
           call[h].op \in {"cleanup_environment", "reconcile"},
           Onward(h), RowsSteady
    PROVE  OnceInv'
<1>1. status[Att(h)] \in Finished
  BY DEF OnceInv, Sure, Reclaiming
<1>2. Sure(h)'
  BY <1>1 DEF Onward, Sure, Submitted, Marking, Saved, Reclaiming, RowsSteady, Att
<1>3. QED
  BY <1>2, OnwardGrading, StillOnce DEF Onward

LEMMA RequestOnce ==
    ASSUME TypeOK, AccountInv, OnceInv, NEW h \in Handlers,
           \/ RequestDecrement(h) \/ RequestEnqueue(h) \/ RequestRestore(h)
           \/ TerminalStep(h)
    PROVE  OnceInv'
<1> USE DEF At, Returned, rows, attemptRows, envRows, Grades, Expiries, Cleanups, JobKinds
<1>0. budget["timer"] = 0 /\ \A a \in Attempts : Expiries(a) = 0
  BY DEF OnceInv, AttemptOnce
<1>1. CASE RequestDecrement(h) \/ RequestEnqueue(h) \/ RequestRestore(h)
  <2>1. call[h].op = "request" /\ Onward(h)
    BY <1>1, OnwardMoves DEF RequestDecrement, RequestEnqueue, RequestRestore
  <2>2. RowsSteady
    BY <1>0, <1>1, NoTimer, EnqueuesOnly
       DEF RequestDecrement, RequestEnqueue, RequestRestore, RowsSteady
  <2>3. QED
    BY <2>1, <2>2, PlainOnce
<1>2. CASE TerminalStep(h)
  <2>1. call[h].op = "open" /\ Onward(h)
    BY <1>2, OnwardMoves DEF TerminalStep, OpenAdmit, OpenStamp, OpenTransitioned, Asked
  <2>2. RowsSteady
    BY <1>0, <1>2, NoTimer
       DEF TerminalStep, OpenAdmit, OpenStamp, OpenTransitioned, RowsSteady
  <2>3. QED
    BY <2>1, <2>2, PlainOnce
<1>3. QED
  BY <1>1, <1>2

LEMMA ProvisionOnce ==
    ASSUME TypeOK, SessionInv, AccountInv, ForwardInv, OnceInv, NEW h \in Handlers,
           \/ ProvisionStart(h) \/ ProvisionBuild(h) \/ ProvisionRecord(h)
           \/ ProvisionConfigure(h) \/ ProvisionSession(h) \/ ProvisionTransitioned(h)
           \/ ProvisionFailureRecorded(h) \/ ProvisionFailureEnqueue(h)
           \/ RestoreAttemptCount(h)
    PROVE  OnceInv'
<1> USE DEF At, Returned, rows, attemptRows, envRows, Grades, Expiries, Cleanups, JobKinds
<1>0. budget["timer"] = 0 /\ \A a \in Attempts : Expiries(a) = 0
  BY DEF OnceInv, AttemptOnce
<1>1. CASE \/ ProvisionStart(h) \/ ProvisionConfigure(h) \/ ProvisionSession(h)
           \/ ProvisionTransitioned(h) \/ ProvisionFailureRecorded(h)
           \/ RestoreAttemptCount(h)
  <2>1. call[h].op = "provision_environment" /\ Onward(h)
    BY <1>1, OnwardMoves
       DEF ProvisionStart, ProvisionConfigure, ProvisionSession, ProvisionTransitioned,
           ProvisionFailureRecorded, RestoreAttemptCount, Asked
  <2>2. RowsSteady
    BY <1>0, <1>1, NoTimer
       DEF ProvisionStart, ProvisionConfigure, ProvisionSession, ProvisionTransitioned,
           ProvisionFailureRecorded, RestoreAttemptCount, RowsSteady
  <2>3. QED
    BY <2>1, <2>2, PlainOnce
<1>2. CASE ProvisionBuild(h)
  <2>1. call[h].op = "provision_environment" /\ Onward(h)
    BY <1>2, OnwardMoves DEF ProvisionBuild, Asked
  <2>2. \A e \in Envs : vm'[e] = "gone" => vm[e] = "gone"
    <3>1. vm' = vm \/ \E e \in Envs : vm' = [vm EXCEPT ![e] = "up"]
      BY <1>2 DEF ProvisionBuild
    <3>2. QED
      BY <3>1 DEF TypeOK
  <2>3. RowsSteady
    BY <1>0, <1>2, <2>2, NoTimer DEF ProvisionBuild, RowsSteady
  <2>4. QED
    BY <2>1, <2>3, PlainOnce
<1>3. CASE ProvisionRecord(h)
  <2>1. call[h].op = "provision_environment" /\ Onward(h)
    BY <1>3, OnwardMoves DEF ProvisionRecord, Asked
  <2>2. \A e \in Envs : vm[e] = "gone" => owner'[e] = owner[e]
    <3>1. owner' = owner \/ owner' = [owner EXCEPT ![call[h].env] = Att(h)]
      BY <1>3 DEF ProvisionRecord
    <3>2. owner[call[h].env] = None
      BY <1>3 DEF ProvisionRecord, SessionInv, Sound
    <3>3. QED
      BY <3>1, <3>2, NoneAssumption DEF TypeOK, ForwardInv, EnvForward
  <2>3. RowsSteady
    BY <1>0, <1>3, <2>2, NoTimer DEF ProvisionRecord, RowsSteady
  <2>4. QED
    BY <2>1, <2>3, PlainOnce
<1>4. CASE ProvisionFailureEnqueue(h)
  <2>1. call[h].op = "provision_environment" /\ Onward(h)
    BY <1>4, OnwardMoves DEF ProvisionFailureEnqueue
  <2>2. status[Att(h)] = "provision_failed"
    BY <1>4 DEF ProvisionFailureEnqueue, AccountInv, Regular, Ledger, Provision, Provisioning,
                Refunding
  <2>3. RowsSteady
    BY <1>0, <1>4, <2>2, NoTimer, EnqueuesOnly
       DEF ProvisionFailureEnqueue, RowsSteady, Finished
  <2>4. QED
    BY <2>1, <2>3, PlainOnce
<1>5. QED
  BY <1>1, <1>2, <1>3, <1>4

LEMMA CleanupOnce ==
    ASSUME TypeOK, AccountInv, ForwardInv, OnceInv, NEW h \in Handlers,
           \/ CleanupStart(h) \/ CleanupDestroying(h) \/ CleanupDestroy(h)
           \/ CleanupMarkFailed(h) \/ CleanupDestroyed(h) \/ CleanupTransitioned(h)
    PROVE  OnceInv'
<1> USE DEF At, Returned, rows, attemptRows, envRows, Grades, Expiries, Cleanups, JobKinds
<1>0. budget["timer"] = 0 /\ \A a \in Attempts : Expiries(a) = 0
  BY DEF OnceInv, AttemptOnce
<1>1. CASE \/ CleanupStart(h) \/ CleanupDestroying(h) \/ CleanupMarkFailed(h)
           \/ CleanupDestroyed(h) \/ CleanupTransitioned(h)
  <2>1. call[h].op = "cleanup_environment" /\ Onward(h)
    BY <1>1, OnwardMoves
       DEF CleanupStart, CleanupDestroying, CleanupMarkFailed, CleanupDestroyed,
           CleanupTransitioned, Asked
  <2>2. RowsSteady
    BY <1>0, <1>1, NoTimer
       DEF CleanupStart, CleanupDestroying, CleanupMarkFailed, CleanupDestroyed,
           CleanupTransitioned, RowsSteady
  <2>3. QED
    BY <2>1, <2>2, ReclaimOnce
<1>2. CASE CleanupDestroy(h)
  <2>1. call[h].op = "cleanup_environment" /\ Onward(h)
    BY <1>2, OnwardMoves DEF CleanupDestroy
  <2>2. owner[call[h].env] = Att(h) /\ status[Att(h)] \in Finished
    BY <1>2, <2>1 DEF CleanupDestroy, ForwardInv, Placed, OnceInv, Sure, Reclaiming
  <2>3. vm' = vm \/ Destroys(call[h].env)
    BY <1>2 DEF CleanupDestroy
  <2>4. \A e \in Envs : vm'[e] = "gone" => vm[e] = "gone" \/ status[owner[e]] \in Finished
    BY <2>2, <2>3, WhatIsDestroyed
  <2>5. RowsSteady
    BY <1>0, <1>2, <2>4, NoTimer DEF CleanupDestroy, RowsSteady
  <2>6. QED
    BY <2>1, <2>5, ReclaimOnce
<1>3. QED
  BY <1>1, <1>2

-----------------------------------------------------------------------------
(* Grading and submitting                                                  *)

\* A grading job goes on.
LEMMA GradingOnce ==
    ASSUME TypeOK, AccountInv, OnceInv, NEW h \in Handlers,
           call[h].op = "grade_attempt", Onward(h), RowsSteady,
           Marking(h)' => Marking(h),
           call'[h].at = "save" => call'[h].result # None,
           ~Saved(h)',
           Reclaiming(h)' => Reclaiming(h)
    PROVE  OnceInv'
<1>1. Sure(h)
  BY DEF OnceInv
<1>2. call'[h].op = "idle" \/ (call'[h].op = "grade_attempt" /\ Att(h)' = Att(h))
  BY DEF Onward, Att
<1>3. call'[h].at # "writeStatus" /\ status' = status /\ score' = score
  BY DEF Onward, RowsSteady
<1>4. call'[h].op = "idle" => ~Marking(h)' /\ ~Reclaiming(h)' /\ ~Submitted(h)'
  BY DEF Marking, Reclaiming, Submitted
<1>5. call'[h].op = "grade_attempt" => ~Submitted(h)'
  BY DEF Submitted
<1>6. Sure(h)'
  BY <1>1, <1>2, <1>3, <1>4, <1>5 DEF Sure
<1>7. QED
  BY <1>6, OnwardGrading, StillOnce DEF Onward

LEMMA GradingStepOnce ==
    ASSUME TypeOK, AccountInv, OnceInv, NEW h \in Handlers,
           \/ GradeStart(h) \/ GradeTransitioned(h) \/ GradeLoad(h) \/ GradeChecks(h)
           \/ GradeScored(h) \/ GradeEnqueue(h)
    PROVE  OnceInv'
<1> USE DEF At, Returned, rows, attemptRows, envRows, Grades, Expiries, Cleanups, JobKinds
<1>0. /\ budget["timer"] = 0 /\ \A a \in Attempts : Expiries(a) = 0
      /\ call[h].op = "grade_attempt"
  BY DEF OnceInv, AttemptOnce, GradeStart, GradeTransitioned, GradeLoad, GradeChecks,
         GradeScored, GradeEnqueue
<1>1. Reclaiming(h) => status[Att(h)] \in Finished
  BY DEF OnceInv, Sure
<1>2. RowsSteady
  <2>1. CASE GradeStart(h) \/ GradeTransitioned(h) \/ GradeLoad(h) \/ GradeScored(h)
    BY <1>0, <2>1, NoTimer
       DEF GradeStart, GradeTransitioned, GradeLoad, GradeScored, RowsSteady
  <2>2. CASE GradeChecks(h)
    BY <1>0, <2>2, NoTimer DEF GradeChecks, RowsSteady, BudgetKinds
  <2>3. CASE GradeEnqueue(h)
    BY <1>0, <1>1, <2>3, NoTimer, EnqueuesOnly DEF GradeEnqueue, RowsSteady, Reclaiming
  <2>4. QED
    BY <2>1, <2>2, <2>3
<1> DEFINE Goals == /\ Marking(h)' => Marking(h)
                    /\ call'[h].at = "save" => call'[h].result # None
                    /\ ~Saved(h)'
                    /\ Reclaiming(h)' => Reclaiming(h)
<1>3. CASE GradeStart(h)
  <2>1. Goes(h, "readStatus", "grading", FALSE) \/ Goes(h, "failed", None, FALSE)
    BY <1>3, Progress DEF GradeStart
  <2>2. Onward(h) /\ Goals
    BY <1>0, <2>1 DEF Goes, Onward, Asked, Marking, Saved, Reclaiming
  <2>3. QED
    BY <1>0, <1>2, <2>2, GradingOnce
<1>4. CASE GradeTransitioned(h)
  <2>1. \/ Goes(h, "failed", None, FALSE)
        \/ Goes(h, "loadEnv", None, FALSE) /\ Marking(h)
    BY <1>4, Progress DEF GradeTransitioned, Marking
  <2>2. Onward(h) /\ Goals
    BY <1>0, <2>1 DEF Goes, Onward, Marking, Saved, Reclaiming
  <2>3. QED
    BY <1>0, <1>2, <2>2, GradingOnce
<1>5. CASE GradeLoad(h)
  <2>1. Marking(h)
    BY <1>5 DEF GradeLoad, Marking
  <2>2. \/ Goes(h, "failed", None, FALSE)
        \/ Goes(h, "checks", call[h].to, call[h].err)
    BY <1>5, Progress DEF GradeLoad
  <2>3. Onward(h) /\ Goals
    BY <1>0, <2>1, <2>2 DEF Goes, Onward, Marking, Saved, Reclaiming
  <2>4. QED
    BY <1>0, <1>2, <2>3, GradingOnce
<1>6. CASE GradeChecks(h)
  <2>1. PICK r \in {"earned", "zeroed"} : Found(h, r)
    BY <1>6 DEF GradeChecks
  <2>2. /\ Goes(h, "save", call[h].to, call[h].err) /\ call'[h].result = r
        /\ Marking(h)
    BY <1>6, <2>1, Progress, Holds DEF GradeChecks, Marking
  <2>3. Onward(h) /\ Goals
    BY <1>0, <2>2 DEF Goes, Onward, Marking, Saved, Reclaiming, None
  <2>4. QED
    BY <1>0, <1>2, <2>3, GradingOnce
<1>7. CASE GradeScored(h)
  <2>1. \/ Goes(h, "failed", None, FALSE)
        \/ Goes(h, "enqueue", None, FALSE) /\ Reclaiming(h)
    BY <1>7, Progress DEF GradeScored, Reclaiming
  <2>2. Onward(h) /\ Goals
    BY <1>0, <2>1 DEF Goes, Onward, Marking, Saved, Reclaiming
  <2>3. QED
    BY <1>0, <1>2, <2>2, GradingOnce
<1>8. CASE GradeEnqueue(h)
  <2>1. Goes(h, "done", None, FALSE)
    BY <1>8, Progress DEF GradeEnqueue
  <2>2. Onward(h) /\ Goals
    BY <1>0, <2>1 DEF Goes, Onward, Marking, Saved, Reclaiming
  <2>3. QED
    BY <1>0, <1>2, <2>2, GradingOnce
<1>9. QED
  BY <1>3, <1>4, <1>5, <1>6, <1>7, <1>8

\* Nobody else grades an attempt that is being graded, and nobody submits it.
LEMMA GraderAlone ==
    ASSUME OnceInv, NEW b \in Attempts, NEW h \in Handlers, Grading(h, b),
           NEW g \in Handlers \ {h}, Att(g) = b
    PROVE  ~Marking(g) /\ ~Saved(g) /\ ~Submitted(g) /\ call[g].op # "grade_attempt"
<1>1. call[g].op # "grade_attempt"
  BY DEF OnceInv, AttemptOnce, SoleGrading, Grading
<1>2. ~Submitted(g)
  BY DEF OnceInv, Sure
<1>3. QED
  BY <1>1, <1>2 DEF Marking, Saved

LEMMA GradeSaveOnce ==
    ASSUME TypeOK, AccountInv, OnceInv, NEW h \in Handlers, GradeSave(h)
    PROVE  OnceInv'
<1> DEFINE b == Att(h)
<1> USE DEF At, rows, attemptRows, envRows
<1>0. /\ budget["timer"] = 0 /\ \A a \in Attempts : AttemptOnce(a)
      /\ \A e \in Envs : EnvOnce(e)
      /\ \A g \in Handlers : Sure(g)
  BY DEF OnceInv
<1>1. /\ b \in Attempts /\ call[h].op = "grade_attempt" /\ Marking(h)
      /\ status[b] = "grading" /\ score[b] = None /\ call[h].result # None
  <2>1. call[h].op = "grade_attempt" /\ call[h].at = "save" /\ Marking(h)
    BY DEF GradeSave, Marking
  <2>2. Sure(h)
    BY <1>0
  <2>3. QED
    BY <2>1, <2>2 DEF AccountInv, Regular, Sure
<1>2. UNCHANGED <<status, owner, vm, queue>> /\ budget'["timer"] = 0
  BY <1>0, NoTimer DEF GradeSave
<1>3. Onward(h) /\ NoNewGrading
  BY <1>1, OnwardMoves, OnwardGrading DEF GradeSave, Asked
<1>4. CASE UNCHANGED score
  <2>1. Goes(h, "failed", None, FALSE) \/ CallTransition(h, "scored")
    BY <1>1, Progress DEF GradeSave
  <2>2. CASE Goes(h, "failed", None, FALSE)
    <3>1. RowsSteady
      BY <1>0, <1>2, <1>4 DEF RowsSteady, AttemptOnce, Grades, Expiries, Cleanups
    <3>2. /\ ~Marking(h)' /\ call'[h].at # "save" /\ ~Saved(h)' /\ ~Reclaiming(h)'
      BY <1>1, <2>2 DEF Goes, Marking, Saved, Reclaiming
    <3>3. QED
      BY <1>1, <1>3, <3>1, <3>2, GradingOnce
  <2>3. CASE score' = [score EXCEPT ![b] = call[h].result]
    BY <1>1, <1>4, <2>3 DEF TypeOK
  <2>4. QED
    BY <1>4, <2>2, <2>3, Progress DEF GradeSave
<1>5. CASE score' = [score EXCEPT ![b] = call[h].result] /\ CallTransition(h, "scored")
  <2>1. Goes(h, "readStatus", "scored", FALSE)
    BY <1>5, Progress
  <2> HIDE DEF b
  <2>2. score'[b] # None /\ \A a \in Attempts : a # b => score'[a] = score[a]
    BY <1>1, <1>5 DEF TypeOK
  <2>3. ASSUME NEW a \in Attempts
        PROVE  AttemptOnce(a)'
    <3>1. SoleGrading(a)'
      BY <1>0, <1>2, <1>3 DEF AttemptOnce, SoleGrading, NoNewGrading, Grades
    <3>2. QED
      BY <1>0, <1>1, <1>2, <2>2, <3>1 DEF AttemptOnce, Expiries, Cleanups
  <2>4. \A e \in Envs : EnvOnce(e)'
    BY <1>0, <1>2 DEF EnvOnce
  <2>5. Sure(h)'
    <3>1. Att(h)' = b /\ status'[b] = "grading"
      BY <1>1, <1>2, <2>1 DEF Goes, Att, b
    <3>2. /\ ~Submitted(h)' /\ ~Marking(h)' /\ ~Reclaiming(h)'
          /\ call'[h].op = "grade_attempt" /\ call'[h].at = "readStatus"
      BY <1>1, <2>1 DEF Goes, Submitted, Marking, Reclaiming
    <3>3. QED
      BY <2>2, <3>1, <3>2 DEF Sure, Late
  <2>6. ASSUME NEW g \in Handlers \ {h}
        PROVE  Sure(g)'
    <3>1. call'[g] = call[g] /\ Sure(g) /\ Att(g)' = Att(g)
      BY <1>0, <2>1 DEF Goes, Others, Att
    <3>2. /\ Submitted(g)' = Submitted(g) /\ Marking(g)' = Marking(g)
          /\ Saved(g)' = Saved(g) /\ Reclaiming(g)' = Reclaiming(g)
      BY <3>1 DEF Submitted, Marking, Saved, Reclaiming
    <3>3. Submitted(g) =>
            /\ queue'[<<"grade_attempt", call[g].attempt>>] = 0
            /\ \A k \in Handlers :
                ~(call'[k].op = "grade_attempt" /\ call'[k].attempt = call[g].attempt)
      <4>1. Submitted(g) => Att(g) \in Attempts
        BY DEF Submitted, AccountInv, Regular
      <4>2. QED
        BY <1>2, <1>3, <3>1, <4>1 DEF Sure, NoNewGrading, Grades, Grading, Att
    <3>4. Marking(g) \/ Saved(g) => score'[Att(g)] = score[Att(g)]
      <4>1. Marking(g) \/ Saved(g) => Att(g) \in Attempts
        BY DEF Marking, Saved, AccountInv, Regular
      <4>2. Marking(g) \/ Saved(g) => Att(g) # b
        BY <1>1, GraderAlone DEF Grading, b
      <4>3. QED
        BY <2>2, <4>1, <4>2
    <3>5. QED
      BY <1>2, <3>1, <3>2, <3>3, <3>4 DEF Sure, Grades, Grading, Att
  <2>7. QED
    BY <1>2, <2>3, <2>4, <2>5, <2>6 DEF OnceInv
<1>6. QED
  BY <1>4, <1>5 DEF GradeSave

LEMMA StopsOnce ==
    ASSUME AccountInv, OnceInv, NEW h \in Handlers, Stops(h), RowsSteady
    PROVE  OnceInv'
<1>1. NoNewGrading
  BY DEF Stops, Others, NoNewGrading, Grading, Att
<1>2. Sure(h)'
  BY DEF Stops, Sure, Submitted, Marking, Saved, Reclaiming
<1>3. QED
  BY <1>1, <1>2, StillOnce DEF Stops

\* A grading job is queued for b, which nobody grades and nobody is about to
\* grade; h is done.
LEMMA QueuedOnce ==
    ASSUME TypeOK, AccountInv, OnceInv, NEW h \in Handlers, NEW b \in Attempts,
           Stops(h), Grades(b) = 0, status[b] \in Late,
           \A g \in Handlers \ {h} : ~Grading(g, b) /\ ~(Submitted(g) /\ Att(g) = b),
           Enqueue("grade_attempt", b),
           UNCHANGED <<status, score, owner, vm>>, budget'["timer"] = 0
    PROVE  OnceInv'
<1>0. /\ \A a \in Attempts : AttemptOnce(a)
      /\ \A e \in Envs : EnvOnce(e)
      /\ \A g \in Handlers : Sure(g)
  BY DEF OnceInv
<1>1. /\ Grades(b)' = 1
      /\ \A a \in Attempts : /\ a # b => Grades(a)' = Grades(a)
                             /\ Expiries(a)' = Expiries(a)
                             /\ Cleanups(a)' = Cleanups(a)
  <2>1. queue' = [queue EXCEPT ![<<"grade_attempt", b>>] = IF @ < MaxQueued THEN @ + 1 ELSE @]
    BY DEF Enqueue
  <2>2. <<"grade_attempt", b>> \in JobKinds \X Attempts
    BY DEF JobKinds
  <2>3. queue'[<<"grade_attempt", b>>] = 1
    BY <2>1, <2>2, BoundsAssumption DEF TypeOK, Grades
  <2>4. QED
    BY <2>3, EnqueuesOnly DEF Grades, Expiries, Cleanups, JobKinds
<1>2. \A g \in Handlers \ {h} : call'[g] = call[g] /\ Att(g)' = Att(g)
  BY DEF Stops, Others, Att
<1>3. call'[h].op = "idle" /\ call'[h].at = "idle"
  BY DEF Stops
<1>4. ASSUME NEW a \in Attempts
      PROVE  AttemptOnce(a)'
  <2>1. \A g \in Handlers : Grading(g, a)' => g # h /\ Grading(g, a)
    BY <1>2, <1>3 DEF Grading, Att
  <2>2. SoleGrading(a)'
    BY <1>0, <1>1, <2>1 DEF AttemptOnce, SoleGrading
  <2>3. QED
    BY <1>0, <1>1, <2>2 DEF AttemptOnce
<1>5. \A e \in Envs : EnvOnce(e)'
  BY <1>0 DEF EnvOnce
<1>6. Sure(h)'
  BY <1>3 DEF Sure, Submitted, Marking, Saved, Reclaiming
<1>7. ASSUME NEW g \in Handlers \ {h}
      PROVE  Sure(g)'
  <2>1. /\ Submitted(g)' = Submitted(g) /\ Marking(g)' = Marking(g)
        /\ Saved(g)' = Saved(g) /\ Reclaiming(g)' = Reclaiming(g)
    BY <1>2 DEF Submitted, Marking, Saved, Reclaiming
  <2>2. Submitted(g) =>
            /\ queue'[<<"grade_attempt", call[g].attempt>>] = 0
            /\ \A k \in Handlers :
                ~(call'[k].op = "grade_attempt" /\ call'[k].attempt = call[g].attempt)
    <3>1. Submitted(g) => Att(g) \in Attempts \ {b}
      BY DEF Submitted, AccountInv, Regular
    <3>2. QED
      BY <1>0, <1>1, <1>2, <1>3, <3>1 DEF Sure, Grades, Grading, Att
  <2>3. QED
    BY <1>0, <1>2, <2>1, <2>2 DEF Sure, Grades, Grading, Att
<1>8. QED
  BY <1>4, <1>5, <1>6, <1>7 DEF OnceInv

LEMMA SubmitOnce ==
    ASSUME TypeOK, AccountInv, OnceInv, OneSubmission, NEW h \in Handlers,
           SubmitTransitioned(h) \/ SubmitEnqueue(h)
    PROVE  OnceInv'
<1> USE DEF At, Returned, rows, attemptRows, envRows
<1>0. /\ budget["timer"] = 0 /\ Sure(h)
      /\ \A a \in Attempts : Expiries(a) = 0
  BY DEF OnceInv, AttemptOnce
<1>1. CASE SubmitTransitioned(h)
  <2>1. RowsSteady
    BY <1>0, <1>1 DEF SubmitTransitioned, RowsSteady, Grades, Expiries, Cleanups
  <2>2. CASE Return(h)
    BY <2>1, <2>2, Progress, StopsOnce
  <2>3. CASE Goto(h, "enqueue") /\ ~call[h].err
    <3>1. Goes(h, "enqueue", None, FALSE) /\ Submitted(h) /\ call[h].op = "submit"
      BY <1>1, <2>3, Progress DEF SubmitTransitioned, Submitted
    <3>2. NoNewGrading
      BY <3>1 DEF Goes, Others, NoNewGrading, Grading, Att
    <3>3. Att(h) \in Attempts
      BY <3>1 DEF AccountInv, Regular
    <3>4. /\ queue'[<<"grade_attempt", call[h].attempt>>] = 0
          /\ \A k \in Handlers :
                ~(call'[k].op = "grade_attempt" /\ call'[k].attempt = call[h].attempt)
      BY <1>0, <2>1, <3>1, <3>2, <3>3
         DEF Sure, RowsSteady, NoNewGrading, Grades, Grading, Att
    <3>5. Att(h)' = Att(h) /\ status' = status /\ status[Att(h)] = "submitted"
      BY <1>0, <2>1, <3>1 DEF Goes, Sure, RowsSteady, Att
    <3>6. ~Marking(h)' /\ ~Saved(h)' /\ ~Reclaiming(h)'
      BY <3>1 DEF Goes, Marking, Saved, Reclaiming
    <3>7. Sure(h)'
      BY <3>1, <3>4, <3>5, <3>6 DEF Goes, Sure, Grades, Grading, Att
    <3>8. QED
      BY <2>1, <3>1, <3>2, <3>7, StillOnce DEF Goes
  <2>4. QED
    BY <1>1, <2>2, <2>3 DEF SubmitTransitioned
<1>2. CASE SubmitEnqueue(h)
  <2>1. Stops(h) /\ Submitted(h) /\ call[h].op = "submit"
    BY <1>2, Progress DEF SubmitEnqueue, Submitted
  <2>2. CASE UNCHANGED queue
    <3>1. RowsSteady
      BY <1>0, <1>2, <2>2, NoTimer
         DEF SubmitEnqueue, RowsSteady, Grades, Expiries, Cleanups
    <3>2. QED
      BY <2>1, <3>1, StopsOnce
  <2>3. CASE Enqueue("grade_attempt", Att(h))
    <3>1. Att(h) \in Attempts
      BY <2>1 DEF AccountInv, Regular
    <3>2. /\ Grades(Att(h)) = 0 /\ status[Att(h)] \in Late
          /\ \A g \in Handlers : ~Grading(g, Att(h))
      BY <1>0, <2>1 DEF Sure, Late
    <3>3. \A g \in Handlers \ {h} : ~(Submitted(g) /\ Att(g) = Att(h))
      BY <2>1, <3>1 DEF OneSubmission, Submitted
    <3>4. UNCHANGED <<status, score, owner, vm>> /\ budget'["timer"] = 0
      BY <1>0, <1>2, NoTimer DEF SubmitEnqueue
    <3>5. QED
      BY <2>1, <2>3, <3>1, <3>2, <3>3, <3>4, QueuedOnce
  <2>4. QED
    BY <1>2, <2>2, <2>3 DEF SubmitEnqueue
<1>3. QED
  BY <1>1, <1>2

\* A job is over, retried or given up; a grading job that is retried waits
\* again alone.
LEMMA RiverOnce ==
    ASSUME TypeOK, AccountInv, OnceInv, NEW h \in Handlers,
           CompleteJob(h) \/ RetryJob(h) \/ DiscardJob(h)
    PROVE  OnceInv'
<1> USE DEF rows, attemptRows, envRows
<1>0. /\ budget["timer"] = 0 /\ Sure(h)
      /\ \A a \in Attempts : AttemptOnce(a)
  BY DEF OnceInv
<1>1. Stops(h)
  BY Progress DEF CompleteJob, RetryJob, DiscardJob
<1>2. CASE RetryJob(h) /\ call[h].op = "grade_attempt"
  <2>1. Att(h) \in Attempts /\ status[Att(h)] \in Late /\ Grading(h, Att(h))
    BY <1>0, <1>2 DEF AccountInv, Regular, Sure, Grading
  <2>2. Grades(Att(h)) = 0
    BY <1>0, <2>1, BoundsAssumption
       DEF AttemptOnce, SoleGrading, TypeOK, Grades, JobKinds
  <2>3. \A g \in Handlers \ {h} : ~Grading(g, Att(h)) /\ ~(Submitted(g) /\ Att(g) = Att(h))
    BY <2>1, GraderAlone DEF Grading
  <2>4. UNCHANGED <<status, score, owner, vm>> /\ budget'["timer"] = 0
        /\ Enqueue("grade_attempt", Att(h))
    BY <1>0, <1>2 DEF RetryJob
  <2>5. QED
    BY <1>1, <2>1, <2>2, <2>3, <2>4, QueuedOnce
<1>3. CASE ~(RetryJob(h) /\ call[h].op = "grade_attempt")
  <2>1. call[h].op = "cleanup_environment" => status[Att(h)] \in Finished
    BY <1>0 DEF Sure, Reclaiming
  <2>2. call[h].op # "expire_attempt"
    BY <1>0 DEF Sure
  <2>3. RowsSteady
    BY <1>0, <1>3, <2>1, <2>2, NoTimer, EnqueuesOnly
       DEF CompleteJob, RetryJob, DiscardJob, RowsSteady, AttemptOnce, Grades, Expiries,
           Cleanups, JobKinds, BudgetKinds
  <2>4. QED
    BY <1>1, <2>3, StopsOnce
<1>4. QED
  BY <1>2, <1>3

-----------------------------------------------------------------------------
(* Reading and writing the status                                          *)

\* A transition goes on without writing.
LEMMA TransitionOnce ==
    ASSUME TypeOK, AccountInv, OnceInv, NEW h \in Handlers,
           call[h].at \in {"readStatus", "writeStatus"}, RowsSteady,
           \/ Goes(h, "returned", call[h].to, TRUE)
           \/ /\ Goes(h, "writeStatus", call[h].to, call[h].err)
              /\ ValidTransition(status[Att(h)], call[h].to)
    PROVE  OnceInv'
<1>1. Sure(h)
  BY DEF OnceInv
<1>2. /\ Att(h)' = Att(h) /\ call'[h].op = call[h].op /\ call'[h].to = call[h].to
      /\ status' = status /\ score' = score /\ Others(h)
  BY DEF Goes, Att, RowsSteady
<1>3. NoNewGrading
  BY <1>2 DEF NoNewGrading, Others, Grading, Att
<1>4. /\ ~Submitted(h)' /\ ~Marking(h)' /\ (Saved(h)' => Saved(h))
      /\ (Reclaiming(h)' => Reclaiming(h))
      /\ call'[h].at = "writeStatus" => ValidTransition(status[Att(h)], call[h].to)
  BY DEF Goes, Submitted, Marking, Saved, Reclaiming
<1>5. Sure(h)'
  BY <1>1, <1>2, <1>4 DEF Sure
<1>6. QED
  BY <1>2, <1>3, <1>5, StillOnce

LEMMA StatusReadOnce ==
    ASSUME TypeOK, AccountInv, OnceInv, NEW h \in Handlers, StatusRead(h)
    PROVE  OnceInv'
<1>1. RowsSteady
  BY NoTimer DEF StatusRead, RowsSteady, OnceInv, AttemptOnce, Grades, Expiries, Cleanups,
                 rows, attemptRows, envRows
<1>2. \/ Goes(h, "returned", call[h].to, TRUE)
      \/ /\ Goes(h, "writeStatus", call[h].to, call[h].err)
         /\ ValidTransition(status[Att(h)], call[h].to)
  BY Progress DEF StatusRead
<1>3. QED
  BY <1>1, <1>2, TransitionOnce DEF StatusRead

\* What is written over what, and by whom.
LEMMA Written ==
    ASSUME AccountInv, ForwardInv, OnceInv, NEW h \in Handlers, call[h].at = "writeStatus"
    PROVE  /\ Att(h) \in Attempts
           /\ <<status[Att(h)], call[h].to, call[h].op>> \in
                {<<"attempt_requested", "environment_provisioning", "provision_environment">>,
                 <<"environment_provisioning", "environment_ready", "provision_environment">>,
                 <<"environment_provisioning", "provision_failed", "provision_environment">>,
                 <<"environment_ready", "terminal_opened", "open">>,
                 <<"terminal_opened", "running", "open">>,
                 <<"running", "submitted", "submit">>,
                 <<"submitted", "grading", "grade_attempt">>,
                 <<"expired", "grading", "grade_attempt">>,
                 <<"grading", "scored", "grade_attempt">>}
<1>1. /\ Att(h) \in Attempts /\ <<call[h].op, call[h].to>> \in Asked
      /\ status[Att(h)] \in From(call[h].to)
      /\ call[h].op \notin {"reconcile", "cleanup_environment"}
  BY WriterFacts
<1>2. ValidTransition(status[Att(h)], call[h].to) /\ call[h].op # "expire_attempt"
  BY DEF OnceInv, Sure
<1>3. QED
  BY <1>1, <1>2 DEF Asked, From, Late, ValidTransition, validTransitions

\* Nobody else is about to write the attempt.
LEMMA SoleWriter ==
    ASSUME AccountInv, ForwardInv, OnceInv, OneConnection, OneSubmission,
           NEW h \in Handlers, NEW g \in Handlers,
           call[h].at = "writeStatus", call[g].at = "writeStatus", Att(g) = Att(h)
    PROVE  g = h
<1> DEFINE b == Att(h)
<1>1. b \in Attempts
  BY Written
<1>2. /\ status[b] \in {"attempt_requested", "environment_provisioning"}
            => call[h].op = "provision_environment" /\ call[g].op = "provision_environment"
      /\ status[b] \in {"environment_ready", "terminal_opened"}
            => call[h].op = "open" /\ call[g].op = "open"
      /\ status[b] = "running" => call[h].op = "submit" /\ call[g].op = "submit"
      /\ status[b] \in {"submitted", "expired", "grading"}
            => call[h].op = "grade_attempt" /\ call[g].op = "grade_attempt"
  BY Written
<1>3. status[b] \in {"attempt_requested", "environment_provisioning", "environment_ready",
                    "terminal_opened", "running", "submitted", "expired", "grading"}
  BY Written
<1>4. CASE call[h].op = "provision_environment" /\ call[g].op = "provision_environment"
  BY <1>1, <1>4 DEF AccountInv, Ledger, SoleProvisioning, Provisioning
<1>5. CASE call[h].op = "open" /\ call[g].op = "open"
  BY <1>1, <1>5 DEF OneConnection
<1>6. CASE call[h].op = "submit" /\ call[g].op = "submit"
  BY <1>1, <1>6 DEF OneSubmission
<1>7. CASE call[h].op = "grade_attempt" /\ call[g].op = "grade_attempt"
  BY <1>1, <1>7 DEF OnceInv, AttemptOnce, SoleGrading, Grading
<1>8. QED
  BY <1>2, <1>3, <1>4, <1>5, <1>6, <1>7

LEMMA StatusWriteOnce ==
    ASSUME TypeOK, AccountInv, ForwardInv, OnceInv, OneConnection, OneSubmission,
           NEW h \in Handlers, StatusWrite(h)
    PROVE  OnceInv'
<1> DEFINE b == Att(h)
           s == call[h].to
<1> USE DEF attemptRows, envRows
<1>0. /\ call[h].at = "writeStatus" /\ budget["timer"] = 0
      /\ \A a \in Attempts : AttemptOnce(a)
      /\ \A e \in Envs : EnvOnce(e)
      /\ \A g \in Handlers : Sure(g)
  BY DEF StatusWrite, OnceInv
<1>1. CASE TransitionReturns(h, TRUE) /\ UNCHANGED attemptRows
  <2>1. RowsSteady
    BY <1>0, <1>1, NoTimer DEF StatusWrite, RowsSteady, AttemptOnce, Grades, Expiries, Cleanups
  <2>2. Goes(h, "returned", s, TRUE)
    BY <1>1, Progress
  <2>3. QED
    BY <1>0, <2>1, <2>2, TransitionOnce
<1>2. CASE /\ status' = [status EXCEPT ![b] = s]
           /\ TransitionReturns(h, FALSE) /\ UNCHANGED score /\ Works(h)
  <2>1. /\ b \in Attempts
        /\ <<status[b], s, call[h].op>> \in
            {<<"attempt_requested", "environment_provisioning", "provision_environment">>,
             <<"environment_provisioning", "environment_ready", "provision_environment">>,
             <<"environment_provisioning", "provision_failed", "provision_environment">>,
             <<"environment_ready", "terminal_opened", "open">>,
             <<"terminal_opened", "running", "open">>,
             <<"running", "submitted", "submit">>,
             <<"submitted", "grading", "grade_attempt">>,
             <<"expired", "grading", "grade_attempt">>,
             <<"grading", "scored", "grade_attempt">>}
    BY <1>0, Written
  <2>2. Goes(h, "returned", s, FALSE)
    BY <1>2, Progress
  <2>3. UNCHANGED <<score, owner, vm, session, queue>> /\ budget'["timer"] = 0
    BY <1>0, <1>2, NoTimer DEF StatusWrite
  <2>4. s = "scored" => Saved(h)
    BY <1>0, <2>1 DEF Saved
  <2>5. \A g \in Handlers \ {h} : Att(g) = b => call[g].at # "writeStatus"
    BY <1>0, SoleWriter
  <2>6. call[h].op = "grade_attempt" => Grading(h, b)
    BY DEF Grading
  <2>7. \A g \in Handlers : call'[g].op = call[g].op /\ Att(g)' = Att(g)
    BY <2>2 DEF Goes, Others, Att
  <2>8. Sure(h) /\ \A g \in Handlers \ {h} : call'[g] = call[g]
    BY <1>0, <2>2 DEF Goes, Others
  <2>9. s = "scored" => score[b] # None
    BY <2>4, <2>8 DEF Sure
  <2>10. call'[h].at = "returned" /\ call'[h].to = s /\ call'[h].err = FALSE
    BY <2>2 DEF Goes
  <2>11. AttemptOnce(b)
    BY <1>0, <2>1
  <2> HIDE DEF b, s
  <2>12. status'[b] = s /\ \A a \in Attempts : a # b => status'[a] = status[a]
    BY <1>2, <2>1 DEF TypeOK
  <2>13. \A a \in Attempts : status[a] \in Finished => status'[a] = status[a]
    BY <2>1, <2>12 DEF Finished
  <2>14. \A a \in Attempts : status[a] \in Late => status'[a] \in Late
    BY <2>1, <2>12 DEF Late
  <2>15. ASSUME NEW a \in Attempts
         PROVE  AttemptOnce(a)'
    <3>1. AttemptOnce(a)
      BY <1>0
    <3>2. SoleGrading(a)'
      BY <2>3, <2>7, <2>14, <3>1 DEF AttemptOnce, SoleGrading, Grades, Grading
    <3>3. score[a] # None => status'[a] \in {"grading", "scored"}
      BY <2>1, <2>12, <3>1 DEF AttemptOnce
    <3>4. status'[a] = "scored" => score[a] # None
      BY <2>9, <2>12, <3>1 DEF AttemptOnce
    <3>5. QED
      BY <2>3, <2>13, <3>1, <3>2, <3>3, <3>4 DEF AttemptOnce, Expiries, Cleanups
  <2>16. ASSUME NEW e \in Envs
         PROVE  EnvOnce(e)'
    <3>1. vm[e] = "gone" => owner[e] \in Attempts /\ status[owner[e]] \in Finished
      BY <1>0 DEF EnvOnce, ForwardInv, EnvForward
    <3>2. QED
      BY <2>3, <2>13, <3>1 DEF EnvOnce
  <2>17. Sure(h)'
    <3>1. Submitted(h)' => s = "submitted"
      BY <2>1, <2>7, <2>10 DEF Submitted
    <3>2. s = "submitted" =>
            /\ queue[<<"grade_attempt", b>>] = 0
            /\ \A k \in Handlers : ~(call'[k].op = "grade_attempt" /\ call'[k].attempt = b)
      <4>1. SUFFICES ASSUME s = "submitted"
                     PROVE  /\ Grades(b) = 0
                            /\ \A k \in Handlers : ~(call[k].op = "grade_attempt" /\ Att(k) = b)
        BY <2>7 DEF Grades, Att
      <4>2. status[b] = "running"
        BY <2>1, <4>1
      <4>3. Grades(b) = 0
        BY <2>1, <2>11, <4>2, BoundsAssumption
           DEF AttemptOnce, SoleGrading, Late, TypeOK, Grades, JobKinds
      <4>4. \A k \in Handlers : call[k].op = "grade_attempt" => status[Att(k)] \in Late
        BY <1>0 DEF Sure
      <4>5. QED
        BY <4>2, <4>3, <4>4 DEF Late
    <3>3. Marking(h)' => s = "grading"
      BY <2>10 DEF Marking
    <3>4. s = "grading" => score[b] = None
      BY <2>1, <2>11 DEF AttemptOnce
    <3>5. Reclaiming(h)' => s \in Finished
      BY <2>1, <2>7, <2>10 DEF Reclaiming, Finished
    <3>6. ~Saved(h)'
      BY <2>10 DEF Saved
    <3>7. call'[h].op = "grade_attempt" => s \in Late
      BY <2>1, <2>7 DEF Late
    <3>8. call'[h].op # "expire_attempt" /\ Att(h)' = b
      BY <2>1, <2>7 DEF b
    <3>9. QED
      BY <2>3, <2>10, <2>12, <3>1, <3>2, <3>3, <3>4, <3>5, <3>6, <3>7, <3>8
         DEF Sure, Grades, Grading, Att
  <2>18. ASSUME NEW g \in Handlers \ {h}
         PROVE  Sure(g)'
    <3>1. call'[g] = call[g] /\ Sure(g) /\ Att(g)' = Att(g)
      BY <1>0, <2>7, <2>8
    <3>2. /\ Submitted(g)' = Submitted(g) /\ Marking(g)' = Marking(g)
          /\ Saved(g)' = Saved(g) /\ Reclaiming(g)' = Reclaiming(g)
      BY <3>1 DEF Submitted, Marking, Saved, Reclaiming
    <3>3. Submitted(g) =>
            /\ queue'[<<"grade_attempt", call[g].attempt>>] = 0
            /\ \A k \in Handlers :
                ~(call'[k].op = "grade_attempt" /\ call'[k].attempt = call[g].attempt)
      BY <2>3, <2>7, <3>1 DEF Sure, Grades, Grading, Att
    <3>4. call[g].op # "idle" => Att(g) \in Attempts
      BY DEF AccountInv, Regular
    <3>5. CASE Att(g) # b
      <4>1. call[g].op # "idle" => status'[Att(g)] = status[Att(g)]
        BY <2>12, <3>4, <3>5
      <4>2. /\ call[g].at = "writeStatus" \/ Submitted(g) \/ Marking(g) \/ Saved(g)
                \/ Reclaiming(g) => call[g].op # "idle"
        BY DEF AccountInv, Regular, Submitted, Marking, Saved, Reclaiming
      <4>3. QED
        BY <2>3, <3>1, <3>2, <3>3, <4>1, <4>2 DEF Sure, Grades, Grading, Att
    <3>6. CASE Att(g) = b
      <4>1. call[g].at # "writeStatus"
        BY <2>5, <3>6
      <4>2. Submitted(g) => FALSE
        <5>1. Submitted(g) => status[b] = "submitted" /\ ~Grading(h, b)
          BY <3>1, <3>6 DEF Sure
        <5>2. QED
          BY <2>1, <2>6, <5>1
      <4>3. Marking(g) \/ Saved(g) => FALSE
        <5>1. Marking(g) \/ Saved(g) => status[b] = "grading" /\ Grading(g, b)
          BY <3>1, <3>6 DEF Sure, Marking, Saved, Grading
        <5>2. status[b] = "grading" => Grading(h, b)
          BY <2>1, <2>6
        <5>3. QED
          BY <2>1, <2>11, <5>1, <5>2 DEF AttemptOnce, SoleGrading
      <4>4. Reclaiming(g) => FALSE
        BY <2>1, <3>1, <3>6 DEF Sure, Finished
      <4>5. call[g].op = "grade_attempt" => s \in Late
        BY <2>1, <3>1, <3>6 DEF Sure, Late
      <4>6. QED
        BY <2>12, <3>1, <3>2, <3>6, <4>1, <4>2, <4>3, <4>4, <4>5 DEF Sure
    <3>7. QED
      BY <3>5, <3>6
  <2>19. QED
    BY <2>3, <2>15, <2>16, <2>17, <2>18 DEF OnceInv
<1>3. QED
  BY <1>1, <1>2 DEF StatusWrite

-----------------------------------------------------------------------------
(* New attempts, new handlers, jobs and crashes                            *)

LEMMA CreateOnce ==
    ASSUME TypeOK, AccountInv, ForwardInv, OnceInv, NEW h \in Handlers, RequestCreate(h)
    PROVE  OnceInv'
<1> DEFINE b == Att(h)
<1> USE DEF attemptRows, envRows
<1>0. /\ budget["timer"] = 0 /\ call[h].op = "request" /\ b \in Attempts
      /\ \A a \in Attempts : AttemptOnce(a)
      /\ \A e \in Envs : EnvOnce(e)
      /\ \A g \in Handlers : Sure(g)
  BY DEF OnceInv, RequestCreate, At, AccountInv, Regular
<1>1. Goes(h, "enqueue", None, FALSE) \/ Goes(h, "restore", None, FALSE)
  BY Progress DEF RequestCreate
<1>2. Onward(h) /\ NoNewGrading
  BY <1>1, OnwardGrading DEF Goes, Onward
<1>3. CASE UNCHANGED status
  <2>1. RowsSteady
    BY <1>0, <1>3, NoTimer
       DEF RequestCreate, RowsSteady, AttemptOnce, Grades, Expiries, Cleanups
  <2>2. QED
    BY <1>0, <1>2, <2>1, PlainOnce
<1>4. CASE status' = [status EXCEPT ![b] = "attempt_requested"]
  <2>1. status[b] = None /\ \A g \in Handlers : Att(g) = b => g = h
    BY <1>0 DEF RequestCreate, At, AccountInv, Ledger, SoleRequest, Requesting
  <2>2. \A kind \in JobKinds : queue[<<kind, b>>] = 0
    BY <1>0, <2>1 DEF AccountInv, Ledger, Fresh, Jobs, JobKinds
  <2>3. \A e \in Envs : owner[e] # b
    BY <1>0, <2>1 DEF AccountInv, Ledger, Fresh
  <2>4. UNCHANGED <<score, owner, vm, queue>> /\ budget'["timer"] = 0
    BY <1>0, NoTimer DEF RequestCreate
  <2>5. \A g \in Handlers \ {h} : call'[g] = call[g] /\ Att(g)' = Att(g)
    BY <1>1 DEF Goes, Others, Att
  <2>6. /\ call'[h].op = "request" /\ call'[h].at \in {"enqueue", "restore"}
    BY <1>0, <1>1 DEF Goes
  <2> HIDE DEF b
  <2>7. status'[b] = "attempt_requested" /\ \A a \in Attempts : a # b => status'[a] = status[a]
    BY <1>0, <1>4 DEF TypeOK
  <2>8. ASSUME NEW a \in Attempts
        PROVE  AttemptOnce(a)'
    <3>2. SoleGrading(a)'
      <4>1. SoleGrading(a)
        BY <1>0 DEF AttemptOnce
      <4>2. Grades(a)' = Grades(a) /\ (a = b => Grades(a) = 0)
        BY <2>2, <2>4 DEF Grades, JobKinds
      <4>3. QED
        BY <1>2, <2>7, <4>1, <4>2, BoundsAssumption
           DEF SoleGrading, NoNewGrading, TypeOK, Grades, JobKinds
    <3>3. a = b => score[a] = None /\ Cleanups(a) = 0
      BY <1>0, <2>1, <2>2 DEF AttemptOnce, Cleanups, JobKinds, None
    <3>4. QED
      BY <1>0, <2>4, <2>7, <3>2, <3>3 DEF AttemptOnce, Expiries, Cleanups
  <2>9. ASSUME NEW g \in Handlers \ {h}
         PROVE  Sure(g)'
    <3>1. call'[g] = call[g] /\ Sure(g) /\ Att(g)' = Att(g) /\ Att(g) # b
      BY <1>0, <2>1, <2>5
    <3>2. /\ Submitted(g)' = Submitted(g) /\ Marking(g)' = Marking(g)
          /\ Saved(g)' = Saved(g) /\ Reclaiming(g)' = Reclaiming(g)
      BY <3>1 DEF Submitted, Marking, Saved, Reclaiming
    <3>3. call[g].op # "idle" => Att(g) \in Attempts /\ status'[Att(g)] = status[Att(g)]
      BY <2>7, <3>1 DEF AccountInv, Regular
    <3>4. /\ call[g].at = "writeStatus" \/ Submitted(g) \/ Marking(g) \/ Saved(g)
                \/ Reclaiming(g) \/ call[g].op = "grade_attempt" => call[g].op # "idle"
      BY DEF AccountInv, Regular, Submitted, Marking, Saved, Reclaiming
    <3>5. Submitted(g) =>
            /\ queue'[<<"grade_attempt", call[g].attempt>>] = 0
            /\ \A k \in Handlers :
                ~(call'[k].op = "grade_attempt" /\ call'[k].attempt = call[g].attempt)
      BY <1>2, <2>4, <3>1, <3>3, <3>4 DEF Sure, NoNewGrading, Grades, Grading, Att
    <3>6. QED
      BY <2>4, <3>1, <3>2, <3>3, <3>4, <3>5 DEF Sure, Grades, Grading, Att
  <2>10. Sure(h)'
    BY <2>6 DEF Sure, Submitted, Marking, Saved, Reclaiming
  <2>11. ASSUME NEW e \in Envs
         PROVE  EnvOnce(e)'
    <3>1. EnvOnce(e) /\ owner[e] # b
      BY <1>0, <2>3
    <3>2. owner[e] \in Attempts => status'[owner[e]] = status[owner[e]]
      BY <2>7, <3>1
    <3>3. QED
      BY <2>4, <3>1, <3>2 DEF EnvOnce, ForwardInv, EnvForward
  <2>12. QED
    BY <2>4, <2>8, <2>9, <2>10, <2>11 DEF OnceInv
<1>5. QED
  BY <1>3, <1>4 DEF RequestCreate

LEMMA RequestsOnce ==
    ASSUME TypeOK, AccountInv, OnceInv, NEW h \in Requests
    PROVE  /\ \A a \in Attempts : RequestStart(h, a) => OnceInv'
           /\ \A a \in Attempts : SubmitStart(h, a) => OnceInv'
           /\ \A e \in Envs : OpenStart(h, e) => OnceInv'
<1> USE DEF rows, attemptRows, envRows, Grades, Expiries, Cleanups
<1>0. /\ h \in Handlers /\ budget["timer"] = 0
      /\ \A a \in Attempts : AttemptOnce(a)
  BY DEF Handlers, OnceInv
<1>1. ASSUME NEW a, \/ RequestStart(h, a) \/ SubmitStart(h, a)
                    \/ \E e \in Envs : OpenStart(h, e)
      PROVE  OnceInv'
  <2>1. \/ \E b : Starts(h, "request", b, "decrement", None)
        \/ \E b : Starts(h, "submit", b, "readStatus", "submitted")
        \/ \E b : Starts(h, "open", b, "admit", None)
    BY <1>0, <1>1, Progress DEF RequestStart, SubmitStart, OpenStart
  <2>2. RowsSteady
    BY <1>0, <1>1 DEF RequestStart, SubmitStart, OpenStart, RowsSteady, AttemptOnce
  <2>3. Sure(h)'
    BY <2>1 DEF Starts, Sure, Submitted, Marking, Saved, Reclaiming
  <2>4. NoNewGrading
    BY <2>1 DEF Starts, Others, NoNewGrading, Grading, Att
  <2>5. QED
    BY <1>0, <2>1, <2>2, <2>3, <2>4, StillOnce DEF Starts
<1>2. QED
  BY <1>1

LEMMA ReconcileOnce ==
    ASSUME TypeOK, AccountInv, ForwardInv, OnceInv, NEW a \in Attempts, Reconcile(a)
    PROVE  OnceInv'
<1> USE DEF rows, attemptRows, envRows, Grades, Expiries, Cleanups
<1>0. /\ Reconciler \in Handlers /\ budget["timer"] = 0 /\ aged = {}
      /\ status[a] \in Ordinary
      /\ \A b \in Attempts : AttemptOnce(b)
  BY DEF Handlers, OnceInv, ForwardInv, AttemptForward
<1>1. ReconcileTerminal(a)
  BY <1>0 DEF Reconcile, ReconcileStale
<1>2. Starts(Reconciler, "reconcile", a, "enqueue", None)
  BY <1>0, <1>1, Progress DEF ReconcileTerminal
<1>3. status[a] = "scored"
  BY <1>0, <1>1 DEF ReconcileTerminal, NeedsCleanup, Ordinary, Dead, Late, None
<1>4. RowsSteady
  BY <1>0, <1>1 DEF ReconcileTerminal, RowsSteady, AttemptOnce
<1>5. Sure(Reconciler)'
  BY <1>2, <1>3, <1>4
     DEF Starts, RowsSteady, Sure, Submitted, Marking, Saved, Reclaiming, Finished, Att
<1>6. NoNewGrading
  BY <1>2 DEF Starts, Others, NoNewGrading, Grading, Att
<1>7. QED
  BY <1>0, <1>2, <1>4, <1>5, <1>6, StillOnce DEF Starts

LEMMA ReconcilerOnce ==
    ASSUME TypeOK, AccountInv, ForwardInv, OnceInv, ReconcileStep
    PROVE  OnceInv'
<1> USE DEF rows, attemptRows, envRows, Grades, Expiries, Cleanups
<1>0. /\ Reconciler \in Handlers /\ budget["timer"] = 0
      /\ \A b \in Attempts : AttemptOnce(b)
  BY DEF Handlers, OnceInv
<1>1. ReconcileEnqueue /\ call[Reconciler].op = "reconcile"
  BY <1>0 DEF ReconcileStep, ReconcileTransitioned, ReconcileEnqueue, Returned, At,
              ForwardInv, Placed
<1>2. status[Att(Reconciler)] \in Finished
  BY <1>0, <1>1 DEF OnceInv, Sure, Reclaiming
<1>3. RowsSteady
  BY <1>0, <1>1, <1>2, NoTimer, EnqueuesOnly
     DEF ReconcileEnqueue, RowsSteady, AttemptOnce, JobKinds
<1>4. Stops(Reconciler)
  BY <1>0, <1>1, Progress DEF ReconcileEnqueue
<1>5. QED
  BY <1>0, <1>3, <1>4, StopsOnce

LEMMA StartJobOnce ==
    ASSUME TypeOK, AccountInv, OnceInv, NEW w \in Workers,
           NEW kind \in JobKinds, NEW a \in Attempts, StartJob(w, kind, a)
    PROVE  OnceInv'
<1> USE DEF rows, attemptRows, envRows
<1>0. /\ w \in Handlers /\ budget["timer"] = 0 /\ budget'["timer"] = 0
      /\ \A b \in Attempts : AttemptOnce(b)
      /\ \A e \in Envs : EnvOnce(e)
      /\ \A g \in Handlers : Sure(g)
      /\ UNCHANGED <<status, score, owner, vm>>
  BY DEF Handlers, OnceInv, StartJob
<1>1. Starts(w, kind, a, "start", None)
  BY <1>0, Progress DEF StartJob
<1>2. /\ queue[<<kind, a>>] > 0 /\ queue'[<<kind, a>>] = queue[<<kind, a>>] - 1
      /\ \A k \in JobKinds, b \in Attempts :
            k # kind \/ b # a => queue'[<<k, b>>] = queue[<<k, b>>]
  BY DEF StartJob, TypeOK
<1>3. kind # "expire_attempt"
  BY <1>0, <1>2 DEF AttemptOnce, Expiries
<1>4. kind = "cleanup_environment" => status[a] \in Finished
  BY <1>0, <1>2 DEF AttemptOnce, Cleanups
<1>5. CASE kind # "grade_attempt"
  <2>1. \A b \in Attempts : Cleanups(b)' > 0 => Cleanups(b) > 0
    BY <1>2, BoundsAssumption DEF TypeOK, Cleanups, JobKinds
  <2>2. RowsSteady
    BY <1>0, <1>2, <1>3, <1>5, <2>1
       DEF RowsSteady, AttemptOnce, Grades, Expiries, JobKinds
  <2>3. Sure(w)'
    BY <1>0, <1>1, <1>3, <1>4, <1>5
       DEF Starts, Sure, Submitted, Marking, Saved, Reclaiming, JobKinds, Att
  <2>4. NoNewGrading
    BY <1>1, <1>5 DEF Starts, Others, NoNewGrading, Grading, Att
  <2>5. QED
    BY <1>0, <1>1, <2>2, <2>3, <2>4, StillOnce DEF Starts
<1>6. CASE kind = "grade_attempt"
  <2>1. /\ Grades(a) = 1 /\ Grades(a)' = 0 /\ status[a] \in Late
        /\ \A g \in Handlers : ~Grading(g, a)
    <3>1. Grades(a) > 0 /\ Grades(a)' = Grades(a) - 1
      BY <1>2, <1>6 DEF Grades
    <3>2. SoleGrading(a)
      BY <1>0 DEF AttemptOnce
    <3>3. Grades(a) = 1
      BY <3>1, <3>2, BoundsAssumption DEF SoleGrading, TypeOK, Grades, JobKinds
    <3>4. QED
      BY <3>1, <3>2, <3>3 DEF SoleGrading
  <2>2. \A b \in Attempts : /\ b # a => Grades(b)' = Grades(b)
                            /\ Expiries(b)' = Expiries(b) /\ Cleanups(b)' = Cleanups(b)
    BY <1>2, <1>6 DEF Grades, Expiries, Cleanups, JobKinds
  <2>3. \A g \in Handlers \ {w} : call'[g] = call[g] /\ Att(g)' = Att(g)
    BY <1>1 DEF Starts, Others, Att
  <2>4. \A g \in Handlers, b \in Attempts :
            Grading(g, b)' => Grading(g, b) \/ (g = w /\ b = a)
    BY <1>1, <2>3 DEF Starts, Grading, Att
  <2>5. ASSUME NEW b \in Attempts
        PROVE  AttemptOnce(b)'
    <3>1. SoleGrading(b)
      BY <1>0 DEF AttemptOnce
    <3>2. SoleGrading(b)'
      BY <1>0, <2>1, <2>2, <2>4, <3>1 DEF SoleGrading
    <3>3. QED
      BY <1>0, <2>2, <3>2 DEF AttemptOnce
  <2>6. \A e \in Envs : EnvOnce(e)'
    BY <1>0 DEF EnvOnce
  <2>7. Sure(w)'
    BY <1>0, <1>1, <1>6, <2>1
       DEF Starts, Sure, Submitted, Marking, Saved, Reclaiming, Att
  <2>8. ASSUME NEW g \in Handlers \ {w}
        PROVE  Sure(g)'
    <3>1. call'[g] = call[g] /\ Sure(g) /\ Att(g)' = Att(g)
      BY <1>0, <2>3
    <3>2. /\ Submitted(g)' = Submitted(g) /\ Marking(g)' = Marking(g)
          /\ Saved(g)' = Saved(g) /\ Reclaiming(g)' = Reclaiming(g)
      BY <3>1 DEF Submitted, Marking, Saved, Reclaiming
    <3>3. Submitted(g) =>
            /\ queue'[<<"grade_attempt", call[g].attempt>>] = 0
            /\ \A k \in Handlers :
                ~(call'[k].op = "grade_attempt" /\ call'[k].attempt = call[g].attempt)
      <4>1. Submitted(g) => Att(g) \in Attempts
        BY DEF Submitted, AccountInv, Regular
      <4>2. Submitted(g) => Att(g) # a
        BY <2>1, <3>1 DEF Sure
      <4>3. QED
        BY <2>2, <2>4, <3>1, <4>1, <4>2 DEF Sure, Grades, Grading, Att
    <3>4. QED
      BY <1>0, <3>1, <3>2, <3>3 DEF Sure, Grades, Grading, Att
  <2>9. QED
    BY <1>0, <2>5, <2>6, <2>7, <2>8 DEF OnceInv
<1>7. QED
  BY <1>5, <1>6

LEMMA CancelOnce ==
    ASSUME TypeOK, AccountInv, OnceInv, NEW h \in Handlers, Cancel(h)
    PROVE  OnceInv'
<1>0. /\ budget["timer"] = 0 /\ Sure(h)
      /\ \A a \in Attempts : AttemptOnce(a)
  BY DEF OnceInv
<1>1. Goes(h, call[h].at, call[h].to, call[h].err) /\ call'[h].result = call[h].result
  BY Progress, Holds DEF Cancel
<1>2. UNCHANGED rows /\ budget'["timer"] = budget["timer"]
  BY NoTimer DEF Cancel, BudgetKinds
<1>3. RowsSteady
  BY <1>0, <1>2
     DEF RowsSteady, AttemptOnce, rows, attemptRows, envRows, Grades, Expiries, Cleanups
<1>4. NoNewGrading
  BY <1>1 DEF Goes, Others, NoNewGrading, Grading, Att
<1>5. Sure(h)'
  <2>1. /\ Submitted(h)' = Submitted(h) /\ Marking(h)' = Marking(h)
        /\ Saved(h)' = Saved(h) /\ Reclaiming(h)' = Reclaiming(h) /\ Att(h)' = Att(h)
    BY <1>1 DEF Goes, Submitted, Marking, Saved, Reclaiming, Att
  <2>2. Submitted(h) => Att(h) \in Attempts
    BY DEF AccountInv, Regular, Submitted
  <2>3. Submitted(h) =>
            /\ queue'[<<"grade_attempt", call[h].attempt>>] = 0
            /\ \A k \in Handlers :
                ~(call'[k].op = "grade_attempt" /\ call'[k].attempt = call[h].attempt)
    BY <1>0, <1>3, <1>4, <2>2 DEF Sure, RowsSteady, NoNewGrading, Grades, Grading, Att
  <2>4. status' = status /\ score' = score
    BY <1>3 DEF RowsSteady
  <2>5. QED
    BY <1>0, <1>1, <2>1, <2>3, <2>4 DEF Goes, Sure, Grades, Grading, Att
<1>6. QED
  BY <1>1, <1>3, <1>4, <1>5, StillOnce DEF Goes

\* River runs again what a crash interrupted: still one grading job.
LEMMA CrashOnce ==
    ASSUME TypeOK, AccountInv, OnceInv, Crash
    PROVE  OnceInv'
<1>0. /\ budget'["timer"] = 0
      /\ \A a \in Attempts : AttemptOnce(a)
      /\ \A e \in Envs : EnvOnce(e)
      /\ \A g \in Handlers : Sure(g)
      /\ UNCHANGED <<status, score, owner, vm>>
  BY NoTimer DEF OnceInv, Crash, BudgetKinds, attemptRows, envRows
<1>1. \A h \in Handlers :
        call'[h].op = "idle" /\ call'[h].at = "idle" /\ call'[h].attempt = None
  BY DEF Crash, Idle, Invocation
<1>2. Workers \subseteq Handlers
  BY DEF Handlers
<1>3. ASSUME NEW a \in Attempts
      PROVE  AttemptOnce(a)'
  <2>0. AttemptOnce(a) /\ SoleGrading(a)
    BY <1>0 DEF AttemptOnce
  <2>1. \A kind \in JobKinds :
            /\ queue'[<<kind, a>>] \in Nat
            /\ queue'[<<kind, a>>] <= queue[<<kind, a>>] + Cardinality(Running(kind, a))
    BY CrashJobs
  <2>2. \A kind \in JobKinds : queue[<<kind, a>>] \in Nat
    BY BoundsAssumption DEF TypeOK
  <2>3. \A kind \in JobKinds :
            Running(kind, a) = {} => queue'[<<kind, a>>] <= queue[<<kind, a>>]
    BY <2>1, <2>2, FS_EmptySet
  <2>4. Expiries(a)' = 0
    <3>1. Running("expire_attempt", a) = {}
      BY <1>0, <1>2 DEF Sure, Running
    <3>2. QED
      BY <2>0, <2>1, <2>3, <3>1 DEF AttemptOnce, Expiries, JobKinds
  <2>5. Cleanups(a)' > 0 => status[a] \in Finished
    <3>1. CASE Running("cleanup_environment", a) = {}
      BY <2>0, <2>1, <2>2, <2>3, <3>1 DEF AttemptOnce, Cleanups, JobKinds
    <3>2. ASSUME NEW w \in Running("cleanup_environment", a)
          PROVE  status[a] \in Finished
      BY <1>0, <1>2, <3>2 DEF Running, Sure, Reclaiming
    <3>3. QED
      BY <3>1, <3>2
  <2>6. Grades(a)' <= 1 /\ (Grades(a)' > 0 => status[a] \in Late)
    <3>1. CASE Running("grade_attempt", a) = {}
      BY <2>0, <2>1, <2>2, <2>3, <3>1 DEF SoleGrading, Grades, JobKinds
    <3>2. ASSUME NEW w \in Running("grade_attempt", a)
          PROVE  Grades(a)' <= 1 /\ status[a] \in Late
      <4>1. w \in Handlers /\ Grading(w, a)
        BY <1>2, <3>2 DEF Running, Grading
      <4>2. Grades(a) = 0
        BY <2>0, <2>2, <4>1 DEF SoleGrading, Grades, JobKinds
      <4>3. Running("grade_attempt", a) = {w}
        BY <1>2, <2>0, <3>2, <4>1 DEF SoleGrading, Running, Grading
      <4>4. Cardinality(Running("grade_attempt", a)) = 1
        BY <4>3, FS_Singleton
      <4>5. Grades(a)' <= 1
        BY <2>1, <4>2, <4>4 DEF Grades, JobKinds
      <4>6. status[a] \in Late
        BY <1>0, <4>1 DEF Sure, Grading
      <4>7. QED
        BY <4>5, <4>6
    <3>3. QED
      BY <3>1, <3>2
  <2>7. \A h \in Handlers : ~Grading(h, a)'
    BY <1>1 DEF Grading
  <2>8. SoleGrading(a)'
    BY <1>0, <2>6, <2>7 DEF SoleGrading
  <2>9. QED
    BY <1>0, <2>0, <2>4, <2>5, <2>8 DEF AttemptOnce
<1>4. \A e \in Envs : EnvOnce(e)'
  BY <1>0 DEF EnvOnce
<1>5. \A h \in Handlers : Sure(h)'
  BY <1>1 DEF Sure, Submitted, Marking, Saved, Reclaiming
<1>6. QED
  BY <1>0, <1>3, <1>4, <1>5 DEF OnceInv

-----------------------------------------------------------------------------
(* Every step together                                                     *)

LEMMA OnceInit == Budget["timer"] = 0 /\ Init => OnceInv
BY NoneAssumption
   DEF Init, PlatformInit, Idle, Invocation, OnceInv, AttemptOnce, SoleGrading, EnvOnce,
       Grades, Expiries, Cleanups, JobKinds, Sure, Submitted, Marking, Saved, Reclaiming,
       Grading, None

LEMMA StepOnce ==
    ASSUME TypeOK, SessionInv, AccountInv, ForwardInv, OnceInv, OneConnection, OneSubmission,
           NEW h \in Handlers, Step(h)
    PROVE  OnceInv'
<1>1. CASE AttemptStep(h)
  <2>1. ~ExpireStart(h) /\ ~ExpireTransitioned(h) /\ ~ExpireEnqueue(h)
    BY DEF ExpireStart, ExpireTransitioned, ExpireEnqueue, At, Returned, OnceInv, Sure
  <2>2. QED
    BY <1>1, <2>1, RequestOnce, CreateOnce, SubmitOnce DEF AttemptStep
<1>2. CASE OrchestratorStep(h)
  BY <1>2, ProvisionOnce, CleanupOnce DEF OrchestratorStep
<1>3. CASE GradingStep(h)
  BY <1>3, GradingStepOnce, GradeSaveOnce DEF GradingStep
<1>4. CASE AdminStep(h)
  BY <1>4
     DEF AdminStep, RetryProvisionTransitioned, RetryProvisionEnqueue, At, Returned,
         AccountInv, Regular
<1>5. QED
  BY <1>1, <1>2, <1>3, <1>4, StatusReadOnce, StatusWriteOnce, RequestOnce, RiverOnce,
     ReconcilerOnce DEF Step

LEMMA OnceNext ==
    /\ TypeOK /\ SessionInv /\ AccountInv /\ ForwardInv /\ OnceInv
    /\ OneConnection /\ OneSubmission /\ [Next]_vars
    => OnceInv'
<1> SUFFICES ASSUME TypeOK, SessionInv, AccountInv, ForwardInv, OnceInv,
                    OneConnection, OneSubmission, [Next]_vars
             PROVE  OnceInv'
  OBVIOUS
<1>1. CASE Arrival
  <2>1. ~AdminRequests
    BY DEF AccountInv, AdminRequests, RetryProvisionStart, RetryGrade, ForceDestroy, Spend
  <2>2. QED
    BY <1>1, <2>1, RequestsOnce DEF Arrival, AttemptRequests, TerminalRequests
<1>2. CASE Disturbance
  BY <1>2, CancelOnce, RiverOnce, CrashOnce DEF Disturbance, Handlers
<1>3. ASSUME NEW kind \in JobKinds, NEW a \in Attempts, FetchJob(kind, a)
      PROVE  OnceInv'
  BY <1>3, StartJobOnce DEF FetchJob
<1>4. ASSUME NEW a \in Attempts, Passage(a)
      PROVE  FALSE
  BY <1>4 DEF Passage, Age, ExamTimer, Spend, ForwardInv, OnceInv
<1>5. CASE UNCHANGED vars
  <2>1. RowsSteady /\ NoNewGrading /\ \A g \in Handlers : call'[g] = call[g]
    BY <1>5 DEF vars, rows, attemptRows, envRows, RowsSteady, NoNewGrading, OnceInv,
                AttemptOnce, Grades, Expiries, Cleanups, Grading, Att
  <2>2. QED
    BY <2>1, SteadyRows, SteadySure DEF OnceInv
<1>6. QED
  BY <1>1, <1>2, <1>3, <1>4, <1>5, StepOnce, ReconcileOnce DEF Next

LEMMA OnceCorrect ==
    ASSUME Budget["admin"] = 0, Budget["age"] = 0, Budget["timer"] = 0
    PROVE  Spec /\ []OneConnection /\ []OneSubmission
                => [](TypeOK /\ SessionInv /\ AccountInv /\ ForwardInv /\ OnceInv)
<1>1. Init => OnceInv
  BY OnceInit
<1>2. Spec /\ []OneConnection => [](TypeOK /\ SessionInv /\ AccountInv /\ ForwardInv)
  BY ForwardCorrect
<1>3. QED
  BY <1>1, <1>2, OnceNext, PTL DEF Spec

-----------------------------------------------------------------------------
(* A score is final                                                        *)

\* What a step does to a score.
LEMMA ScoreSteps ==
    ASSUME TypeOK, [Next]_vars, score' # score
    PROVE  \E h \in Handlers :
                /\ GradeSave(h) /\ Works(h)
                /\ score' = [score EXCEPT ![Att(h)] = call[h].result]
<1> USE DEF rows, attemptRows
<1>1. ASSUME NEW h \in Handlers, Step(h), ~GradeSave(h)
      PROVE  UNCHANGED score
  <2>1. CASE AttemptStep(h)
    BY <2>1
       DEF AttemptStep, RequestDecrement, RequestCreate, RequestEnqueue, RequestRestore,
           SubmitTransitioned, SubmitEnqueue, ExpireStart, ExpireTransitioned, ExpireEnqueue
  <2>2. CASE OrchestratorStep(h)
    <3>1. CASE \/ ProvisionStart(h) \/ ProvisionBuild(h) \/ ProvisionRecord(h)
               \/ ProvisionConfigure(h) \/ ProvisionSession(h) \/ ProvisionTransitioned(h)
      BY <3>1
         DEF ProvisionStart, ProvisionBuild, ProvisionRecord, ProvisionConfigure,
             ProvisionSession, ProvisionTransitioned
    <3>2. CASE \/ ProvisionFailureRecorded(h) \/ ProvisionFailureEnqueue(h)
               \/ RestoreAttemptCount(h)
      BY <3>2
         DEF ProvisionFailureRecorded, ProvisionFailureEnqueue, RestoreAttemptCount
    <3>3. CASE \/ CleanupStart(h) \/ CleanupDestroying(h) \/ CleanupDestroy(h)
               \/ CleanupMarkFailed(h) \/ CleanupDestroyed(h) \/ CleanupTransitioned(h)
      BY <3>3
         DEF CleanupStart, CleanupDestroying, CleanupDestroy, CleanupMarkFailed,
             CleanupDestroyed, CleanupTransitioned
    <3>4. QED
      BY <2>2, <3>1, <3>2, <3>3 DEF OrchestratorStep
  <2>3. CASE GradingStep(h)
    BY <1>1, <2>3
       DEF GradingStep, GradeStart, GradeTransitioned, GradeLoad, GradeChecks,
           GradeScored, GradeEnqueue
  <2>4. CASE TerminalStep(h) \/ AdminStep(h) \/ ReconcileStep
    BY <2>4
       DEF TerminalStep, OpenAdmit, OpenStamp, OpenTransitioned, AdminStep,
           RetryProvisionTransitioned, RetryProvisionEnqueue, ReconcileStep,
           ReconcileTransitioned, ReconcileEnqueue
  <2>5. QED
    BY <1>1, <2>1, <2>2, <2>3, <2>4 DEF Step, StatusRead, StatusWrite, CompleteJob, RetryJob
<1>2. CASE \/ \E kind \in JobKinds, b \in Attempts : FetchJob(kind, b)
           \/ \E b \in Attempts : Reconcile(b) \/ Passage(b)
           \/ Arrival \/ Disturbance \/ UNCHANGED vars
  BY <1>2
     DEF FetchJob, StartJob, Reconcile, ReconcileStale, ReconcileTerminal, Passage, Age,
         ExamTimer, Arrival, AttemptRequests, RequestStart, SubmitStart, TerminalRequests,
         OpenStart, AdminRequests, RetryProvisionStart, RetryGrade, ForceDestroy,
         Disturbance, Cancel, DiscardJob, Crash, vars
<1>3. PICK h \in Handlers : GradeSave(h)
  BY <1>1, <1>2 DEF Next
<1>4. QED
  BY <1>3 DEF GradeSave

\* A score, once written, is the score: there is one grading job at a time, and
\* it saves only what it found after it took the attempt from its end to
\* grading, which nobody does twice.  Beyond the assumptions of the theorems
\* above, no expiry job runs and no attempt is submitted twice at once.
THEOREM OneScore ==
    ASSUME Budget["admin"] = 0, Budget["age"] = 0, Budget["timer"] = 0
    PROVE  Spec /\ []OneConnection /\ []OneSubmission => ScoreFinal
<1>1. TypeOK /\ AccountInv /\ OnceInv /\ [Next]_vars =>
        \A a \in Attempts : score[a] # None => score'[a] = score[a]
  <2> SUFFICES ASSUME TypeOK, AccountInv, OnceInv, [Next]_vars, NEW a \in Attempts,
                      score[a] # None, score'[a] # score[a]
               PROVE  FALSE
    OBVIOUS
  <2>1. PICK h \in Handlers : /\ GradeSave(h)
                              /\ score' = [score EXCEPT ![Att(h)] = call[h].result]
    BY ScoreSteps
  <2>2. Att(h) = a
    BY <2>1 DEF TypeOK
  <2>3. Sure(h) /\ Marking(h)
    BY <2>1 DEF OnceInv, GradeSave, At, Marking
  <2>4. QED
    BY <2>2, <2>3 DEF Sure
<1>2. QED
  BY <1>1, OnceCorrect, PTL DEF Spec, ScoreFinal

-----------------------------------------------------------------------------
(* What the student is promised                                            *)

\* The rows that say which VMs a terminal token leads to.
LEMMA MachineRows ==
    ASSUME TypeOK, [Next]_vars, ~UNCHANGED <<owner, vm, session>>
    PROVE  \E h \in Handlers :
                \/ ProvisionBuild(h) \/ ProvisionRecord(h) \/ ProvisionSession(h)
                \/ CleanupDestroy(h) \/ OpenStamp(h)
<1> USE DEF rows, envRows
<1>1. ASSUME NEW h \in Handlers, Step(h),
             ~ProvisionBuild(h), ~ProvisionRecord(h), ~ProvisionSession(h),
             ~CleanupDestroy(h), ~OpenStamp(h)
      PROVE  UNCHANGED <<owner, vm, session>>
  <2>1. CASE AttemptStep(h)
    BY <2>1
       DEF AttemptStep, RequestDecrement, RequestCreate, RequestEnqueue, RequestRestore,
           SubmitTransitioned, SubmitEnqueue, ExpireStart, ExpireTransitioned, ExpireEnqueue
  <2>2. CASE OrchestratorStep(h)
    BY <1>1, <2>2
       DEF OrchestratorStep, ProvisionStart, ProvisionConfigure, ProvisionTransitioned,
           ProvisionFailureRecorded, ProvisionFailureEnqueue, RestoreAttemptCount,
           CleanupStart, CleanupDestroying, CleanupMarkFailed, CleanupDestroyed,
           CleanupTransitioned
  <2>3. CASE GradingStep(h)
    BY <2>3
       DEF GradingStep, GradeStart, GradeTransitioned, GradeLoad, GradeChecks, GradeSave,
           GradeScored, GradeEnqueue
  <2>4. CASE TerminalStep(h) \/ AdminStep(h) \/ ReconcileStep
    BY <1>1, <2>4
       DEF TerminalStep, OpenAdmit, OpenTransitioned, AdminStep,
           RetryProvisionTransitioned, RetryProvisionEnqueue, ReconcileStep,
           ReconcileTransitioned, ReconcileEnqueue
  <2>5. QED
    BY <1>1, <2>1, <2>2, <2>3, <2>4 DEF Step, StatusRead, StatusWrite, CompleteJob, RetryJob
<1>2. CASE \/ \E kind \in JobKinds, b \in Attempts : FetchJob(kind, b)
           \/ \E b \in Attempts : Reconcile(b) \/ Passage(b)
           \/ Arrival \/ Disturbance \/ UNCHANGED vars
  BY <1>2
     DEF FetchJob, StartJob, Reconcile, ReconcileStale, ReconcileTerminal, Passage, Age,
         ExamTimer, Arrival, AttemptRequests, RequestStart, SubmitStart, TerminalRequests,
         OpenStart, AdminRequests, RetryProvisionStart, RetryGrade, ForceDestroy,
         Disturbance, Cancel, DiscardJob, Crash, vars
<1>3. QED
  BY <1>1, <1>2 DEF Next

\* The machine of an attempt comes or goes before it is handed out or when it is
\* over for good; and one that is up may be lost when another attempt is.
Lost(a) == MachineOf(a) = "up" /\ MachineOf(a)' = "lost"

MachinesMove ==
    \A a \in Attempts : MachineOf(a)' # MachineOf(a) =>
        \/ status[a] \in {"environment_provisioning"} \cup Finished
        \/ Lost(a) /\ \E b \in Attempts : status[b] \in Finished

LEMMA MachineOnlyOf ==
    ASSUME NEW b \in Attempts, status[b] \in {"environment_provisioning"} \cup Finished,
           \A a \in Attempts \ {b} : MachineOf(a)' = MachineOf(a)
    PROVE  MachinesMove
BY DEF MachinesMove

\* What some VMs become when others of theirs are lost.
LEMMA MachineLost ==
    ASSUME NEW a \in Attempts, UNCHANGED <<owner, session>>,
           \A e \in Envs : owner[e] = a =>
                vm'[e] = vm[e] \/ (vm[e] = "up" /\ vm'[e] = "lost")
    PROVE  MachineOf(a)' = MachineOf(a) \/ Lost(a)
<1>1. Leads(a, "up")' => Leads(a, "up")
  BY DEF Leads
<1>2. Leads(a, "lost") => Leads(a, "lost")'
  BY DEF Leads
<1>3. Leads(a, "lost")' => Leads(a, "lost") \/ Leads(a, "up")
  BY DEF Leads
<1>4. Leads(a, "up") => Leads(a, "up")' \/ Leads(a, "lost")'
  BY DEF Leads
<1>5. QED
  BY <1>1, <1>2, <1>3, <1>4 DEF MachineOf, Lost

LEMMA MachineSteps ==
    ASSUME TypeOK, SessionInv, AccountInv, ForwardInv, OnceInv, [Next]_vars
    PROVE  \/ \A a \in Attempts : MachineOf(a)' = MachineOf(a)
           \/ UNCHANGED <<status, score>> /\ MachinesMove
<1> USE DEF At, attemptRows
<1>1. CASE UNCHANGED <<owner, vm, session>>
  BY <1>1 DEF MachineOf, Leads
<1>2. ASSUME NEW h \in Handlers, ProvisionBuild(h)
      PROVE  \A a \in Attempts : MachineOf(a)' = MachineOf(a)
  <2>1. UNCHANGED <<owner, session>>
    BY <1>2 DEF ProvisionBuild
  <2>2. \A e \in Envs : vm'[e] = vm[e] \/ owner[e] = None
    <3>1. vm' = vm \/ \E e \in Envs : vm[e] = None /\ vm' = [vm EXCEPT ![e] = "up"]
      BY <1>2 DEF ProvisionBuild
    <3>2. QED
      BY <3>1 DEF TypeOK, SessionInv, RowsLinked
  <2>3. QED
    BY <2>1, <2>2, NoneAssumption DEF MachineOf, Leads
<1>3. ASSUME NEW h \in Handlers, ProvisionRecord(h)
      PROVE  \A a \in Attempts : MachineOf(a)' = MachineOf(a)
  <2>1. UNCHANGED <<vm, session>>
    BY <1>3 DEF ProvisionRecord
  <2>2. \A e \in Envs : owner'[e] = owner[e] \/ session[e] = None
    <3>1. owner' = owner \/ owner' = [owner EXCEPT ![call[h].env] = Att(h)]
      BY <1>3 DEF ProvisionRecord
    <3>2. call[h].env \in Envs /\ owner[call[h].env] = None
      BY <1>3 DEF ProvisionRecord, SessionInv, Sound
    <3>3. QED
      BY <3>1, <3>2 DEF TypeOK, SessionInv, RowsLinked
  <2>3. QED
    BY <2>1, <2>2 DEF MachineOf, Leads
<1>4. ASSUME NEW h \in Handlers, ProvisionSession(h)
      PROVE  UNCHANGED <<status, score>> /\ MachinesMove
  <2>1. UNCHANGED <<status, score, owner, vm>>
    BY <1>4 DEF ProvisionSession
  <2>2. session' = session \/ session' = [session EXCEPT ![call[h].env] = "fresh"]
    BY <1>4 DEF ProvisionSession
  <2>3. owner[call[h].env] = Att(h) /\ Att(h) \in Attempts
    BY <1>4 DEF ProvisionSession, SessionInv, Sound, Att
  <2>4. status[Att(h)] = "environment_provisioning"
    BY <1>4 DEF ProvisionSession, ForwardInv, Placed, Provisioned, Building
  <2>5. \A e \in Envs : owner[e] # Att(h) => session'[e] = session[e]
    BY <2>2, <2>3 DEF TypeOK
  <2>6. \A a \in Attempts \ {Att(h)} : MachineOf(a)' = MachineOf(a)
    BY <2>1, <2>3, <2>5 DEF MachineOf, Leads
  <2>7. QED
    BY <2>1, <2>3, <2>4, <2>6, MachineOnlyOf
<1>5. ASSUME NEW h \in Handlers, CleanupDestroy(h)
      PROVE  UNCHANGED <<status, score>> /\ MachinesMove
  <2>1. UNCHANGED <<status, score, owner, session>>
    BY <1>5 DEF CleanupDestroy
  <2>2. vm' = vm \/ Destroys(call[h].env)
    BY <1>5 DEF CleanupDestroy
  <2>3. /\ owner[call[h].env] = Att(h) /\ Att(h) \in Attempts
        /\ status[Att(h)] \in Finished
    BY <1>5 DEF CleanupDestroy, ForwardInv, Placed, OnceInv, Sure, Reclaiming,
                AccountInv, Regular
  <2>4. \A e \in Envs : owner[e] # Att(h) =>
            vm'[e] = vm[e] \/ (vm[e] = "up" /\ vm'[e] = "lost")
    BY <2>2, <2>3, WhatIsDestroyed
  <2>5. \A a \in Attempts \ {Att(h)} : MachineOf(a)' = MachineOf(a) \/ Lost(a)
    BY <2>1, <2>4, MachineLost
  <2>6. QED
    BY <2>1, <2>3, <2>5 DEF MachinesMove
<1>6. ASSUME NEW h \in Handlers, OpenStamp(h)
      PROVE  \A a \in Attempts : MachineOf(a)' = MachineOf(a)
  <2>1. UNCHANGED <<owner, vm>>
    BY <1>6 DEF OpenStamp
  <2>2. session' = session \/ session' = [session EXCEPT ![call[h].env] = "opened"]
    BY <1>6 DEF OpenStamp
  <2>3. session[call[h].env] # None
    BY <1>6 DEF OpenStamp, ForwardInv, Placed
  <2>4. \A e \in Envs : session'[e] # None <=> session[e] # None
    BY <2>2, <2>3 DEF TypeOK, None
  <2>5. QED
    BY <2>1, <2>4 DEF MachineOf, Leads
<1>7. QED
  BY <1>1, <1>2, <1>3, <1>4, <1>5, <1>6, MachineRows

LEMMA LifeInit == Init => Life!Init
BY DEF Init, PlatformInit, Life!Init, Phase, MachineOf, Leads, Shown, None

\* A step of the rows is a step of what the student sees.
LEMMA LifeStutter ==
    ASSUME \A a \in Attempts : /\ Phase(status'[a]) = Phase(status[a])
                               /\ MachineOf(a)' = MachineOf(a)
                               /\ Shown(a)' = Shown(a)
    PROVE  UNCHANGED Life!vars
BY DEF Life!vars

LEMMA LifeMachine ==
    ASSUME UNCHANGED <<status, score>>, MachinesMove
    PROVE  Life!Next
<1>1. \A a \in Attempts : Phase(status'[a]) = Phase(status[a]) /\ Shown(a)' = Shown(a)
  BY DEF Shown
<1>2. \A a \in Attempts : MachineOf(a)' \in {"none", "up", "lost"}
  BY DEF MachineOf
<1>3. \A a \in Attempts : status[a] \in Finished => Phase(status[a]) \in {"failed", "graded"}
  BY DEF Finished, Phase
<1>4. Phase("environment_provisioning") = "pending"
  BY DEF Phase
<1>5. \A a \in Attempts : MachineOf(a)' # MachineOf(a) =>
        \/ Phase(status[a]) \in {"pending", "failed", "graded"}
        \/ /\ \E b \in Attempts : Phase(status[b]) \in {"failed", "graded"}
           /\ MachineOf(a) = "up" /\ MachineOf(a)' = "lost"
  BY <1>3, <1>4 DEF MachinesMove, Lost
<1>6. Life!Machines
  BY <1>1, <1>2, <1>5 DEF Life!Machines, Life!CleanedUp
<1>7. QED
  BY <1>6 DEF Life!Next

\* The phases that a written status leads from and to.
LEMMA Phases ==
    /\ Phase(None) = "absent"
    /\ Phase("attempt_requested") = "pending"
    /\ Phase("environment_provisioning") = "pending"
    /\ Phase("provision_failed") = "failed"
    /\ Phase("environment_ready") = "ready"
    /\ Phase("terminal_opened") = "open" /\ Phase("running") = "open"
    /\ Phase("submitted") = "over" /\ Phase("expired") = "over" /\ Phase("grading") = "over"
    /\ Phase("scored") = "graded"
BY DEF Phase, None

\* An attempt moves to another phase, and nothing else is seen.
LEMMA LifeMoves ==
    ASSUME NEW b \in Attempts, NEW p, NEW q,
           Phase(status[b]) = p, Phase(status'[b]) = q,
           \A a \in Attempts \ {b} : status'[a] = status[a],
           \A a \in Attempts : MachineOf(a)' = MachineOf(a),
           \A a \in Attempts : Shown(a)' = Shown(a),
           \/ <<p, q>> \in {<<"absent", "pending">>, <<"pending", "failed">>,
                            <<"ready", "open">>, <<"open", "over">>}
           \/ p = "pending" /\ q = "ready" /\ MachineOf(b) # "none"
           \/ p = q
    PROVE  Life!Next \/ UNCHANGED Life!vars
<1>1. CASE p = q
  <2>1. \A a \in Attempts : Phase(status'[a]) = Phase(status[a])
    BY <1>1
  <2>2. QED
    BY <2>1, LifeStutter
<1>2. [a \in Attempts |-> Phase(status'[a])]
        = [[a \in Attempts |-> Phase(status[a])] EXCEPT ![b] = q]
  OBVIOUS
<1>3. Life!Moves(b, p, q)
  BY <1>2 DEF Life!Moves
<1>4. [a \in Attempts |-> MachineOf(a)]' = [a \in Attempts |-> MachineOf(a)]
  OBVIOUS
<1>5. [a \in Attempts |-> Shown(a)]' = [a \in Attempts |-> Shown(a)]
  OBVIOUS
<1>6. CASE p = "pending" /\ q = "ready" /\ MachineOf(b) # "none"
  BY <1>3, <1>4, <1>5, <1>6 DEF Life!HandOut, Life!Next
<1>7. CASE <<p, q>> \in {<<"absent", "pending">>, <<"pending", "failed">>,
                         <<"ready", "open">>, <<"open", "over">>}
  BY <1>3, <1>4, <1>5, <1>7 DEF Life!Begin, Life!Next
<1>8. QED
  BY <1>1, <1>6, <1>7

\* An attempt is scored and shows its score.
LEMMA LifeGrade ==
    ASSUME NEW b \in Attempts, status[b] = "grading", status'[b] = "scored",
           score'[b] \in Scores \ {None},
           \A a \in Attempts \ {b} : status'[a] = status[a] /\ score'[a] = score[a],
           \A a \in Attempts : MachineOf(a)' = MachineOf(a)
    PROVE  Life!Next
<1>1. [a \in Attempts |-> Phase(status'[a])]
        = [[a \in Attempts |-> Phase(status[a])] EXCEPT ![b] = "graded"]
  BY Phases
<1>2. Life!Moves(b, "over", "graded")
  BY <1>1, Phases DEF Life!Moves
<1>3. [a \in Attempts |-> Shown(a)]' = [[a \in Attempts |-> Shown(a)] EXCEPT ![b] = score'[b]]
  BY DEF Shown
<1>4. [a \in Attempts |-> MachineOf(a)]' = [a \in Attempts |-> MachineOf(a)]
  OBVIOUS
<1>5. Life!Grade(b)
  BY <1>2, <1>3, <1>4 DEF Life!Grade
<1>6. QED
  BY <1>5 DEF Life!Next

LEMMA LifeStep ==
    ASSUME TypeOK, SessionInv, AccountInv, ForwardInv, OnceInv, [Next]_vars
    PROVE  Life!Next \/ UNCHANGED Life!vars
<1>1. CASE ~ \A a \in Attempts : MachineOf(a)' = MachineOf(a)
  BY <1>1, MachineSteps, LifeMachine
<1>2. CASE /\ UNCHANGED status
           /\ \A a \in Attempts : MachineOf(a)' = MachineOf(a)
  <2>1. \A a \in Attempts : Shown(a)' = Shown(a)
    <3>1. CASE UNCHANGED score
      BY <1>2, <3>1 DEF Shown
    <3>2. CASE score' # score
      <4>1. PICK h \in Handlers : /\ GradeSave(h)
                                  /\ score' = [score EXCEPT ![Att(h)] = call[h].result]
        BY <3>2, ScoreSteps
      <4>2. status[Att(h)] = "grading"
        BY <4>1 DEF OnceInv, Sure, GradeSave, At, Marking
      <4>3. \A a \in Attempts : status[a] = "scored" => score'[a] = score[a]
        BY <4>1, <4>2 DEF TypeOK
      <4>4. QED
        BY <1>2, <4>3 DEF Shown
    <3>3. QED
      BY <3>1, <3>2
  <2>2. QED
    BY <1>2, <2>1, LifeStutter
<1>3. ASSUME status' # status, \A a \in Attempts : MachineOf(a)' = MachineOf(a)
      PROVE  Life!Next \/ UNCHANGED Life!vars
  <2>1. CASE \E h \in Handlers : RequestCreate(h)
    <3>1. PICK h \in Handlers : RequestCreate(h)
      BY <2>1
    <3>2. status' = [status EXCEPT ![Att(h)] = "attempt_requested"] /\ score' = score
      BY <1>3, <3>1 DEF RequestCreate
    <3>3. Att(h) \in Attempts /\ status[Att(h)] = None
      BY <3>1 DEF RequestCreate, At, AccountInv, Regular, Ledger, SoleRequest, Requesting
    <3> DEFINE b == Att(h)
    <3> HIDE DEF b
    <3>4. /\ b \in Attempts /\ status[b] = None /\ status'[b] = "attempt_requested"
          /\ \A a \in Attempts \ {b} : status'[a] = status[a]
      BY <3>2, <3>3 DEF b, TypeOK
    <3>5. \A a \in Attempts : Shown(a)' = Shown(a)
      BY <3>2, <3>4 DEF Shown, None
    <3>6. Phase(status[b]) = "absent" /\ Phase(status'[b]) = "pending"
      BY <3>4, Phases
    <3>7. QED
      BY <1>3, <3>4, <3>5, <3>6, LifeMoves
  <2>2. CASE \E h \in Handlers : StatusWrite(h)
    <3>1. PICK h \in Handlers : StatusWrite(h)
      BY <2>2
    <3>2. /\ status' = [status EXCEPT ![Att(h)] = call[h].to] /\ score' = score
          /\ UNCHANGED <<owner, vm, session>> /\ call[h].at = "writeStatus"
      BY <1>3, <3>1 DEF StatusWrite, attemptRows, envRows
    <3>3. /\ Att(h) \in Attempts
          /\ <<status[Att(h)], call[h].to, call[h].op>> \in
                {<<"attempt_requested", "environment_provisioning", "provision_environment">>,
                 <<"environment_provisioning", "environment_ready", "provision_environment">>,
                 <<"environment_provisioning", "provision_failed", "provision_environment">>,
                 <<"environment_ready", "terminal_opened", "open">>,
                 <<"terminal_opened", "running", "open">>,
                 <<"running", "submitted", "submit">>,
                 <<"submitted", "grading", "grade_attempt">>,
                 <<"expired", "grading", "grade_attempt">>,
                 <<"grading", "scored", "grade_attempt">>}
      BY <3>2, Written
    <3>4. call[h].to = "environment_ready" => MachineOf(Att(h)) # "none"
      <4>1. SUFFICES ASSUME call[h].to = "environment_ready"
                     PROVE  MachineOf(Att(h)) # "none"
        OBVIOUS
      <4>2. PICK e \in Envs : owner[e] = Att(h) /\ session[e] # None
        BY <3>2, <4>1 DEF SessionInv, Sound, Linked, GivenStatuses, Att
      <4>3. vm[e] # None
        BY <4>2 DEF SessionInv, RowsLinked
      <4>4. vm[e] # "gone"
        BY <3>3, <4>1, <4>2 DEF ForwardInv, EnvForward, Dead, Late
      <4>5. QED
        BY <4>2, <4>3, <4>4 DEF MachineOf, Leads, TypeOK
    <3>5. call[h].to = "scored" => score[Att(h)] # None
      BY <3>2, <3>3 DEF OnceInv, Sure, Saved
    <3> DEFINE b == Att(h)
               s == call[h].to
    <3>6. /\ b \in Attempts /\ status'[b] = s
          /\ \A a \in Attempts \ {b} : status'[a] = status[a]
      BY <3>2, <3>3 DEF TypeOK
    <3>7. CASE s = "scored"
      <4>1. status[b] = "grading" /\ score'[b] \in Scores \ {None}
        BY <3>2, <3>3, <3>5, <3>7 DEF TypeOK
      <4> HIDE DEF b, s
      <4>2. QED
        BY <1>3, <3>2, <3>6, <3>7, <4>1, LifeGrade
    <3>8. CASE s # "scored"
      <4>1. /\ <<status[b], s>> \in
                 {<<"attempt_requested", "environment_provisioning">>,
                  <<"environment_provisioning", "environment_ready">>,
                  <<"environment_provisioning", "provision_failed">>,
                  <<"environment_ready", "terminal_opened">>,
                  <<"terminal_opened", "running">>,
                  <<"running", "submitted">>,
                  <<"submitted", "grading">>,
                  <<"expired", "grading">>}
            /\ s = "environment_ready" => MachineOf(b) # "none"
        BY <3>3, <3>4, <3>8
      <4> HIDE DEF b, s
      <4>2. \A a \in Attempts : Shown(a)' = Shown(a)
        BY <3>2, <3>6, <3>8, <4>1 DEF Shown
      <4>3. \/ <<Phase(status[b]), Phase(status'[b])>> \in
                    {<<"absent", "pending">>, <<"pending", "failed">>,
                     <<"ready", "open">>, <<"open", "over">>}
            \/ /\ Phase(status[b]) = "pending" /\ Phase(status'[b]) = "ready"
               /\ MachineOf(b) # "none"
            \/ Phase(status[b]) = Phase(status'[b])
        BY <3>6, <4>1, Phases
      <4>4. QED
        BY <1>3, <3>6, <4>2, <4>3, LifeMoves
    <3>9. QED
      BY <3>7, <3>8
  <2>3. QED
    <3>1. TypeOK'
      BY TypeNext
    <3>2. PICK a \in Attempts : status'[a] # status[a]
      BY <1>3, <3>1 DEF TypeOK
    <3>3. QED
      BY <2>1, <2>2, <3>2, StatusSteps
<1>4. QED
  BY <1>1, <1>2, <1>3

\* What the rows show of an attempt is a life as the student is promised it:
\* forward, on a machine that is there when the attempt is handed out and that no
\* cleanup of its own takes before it is graded, to one result; it is lost at most
\* to the cleanup of an attempt that failed or was graded.  The assumptions are
\* those of OneScore.
THEOREM PromiseKept ==
    ASSUME Budget["admin"] = 0, Budget["age"] = 0, Budget["timer"] = 0
    PROVE  Spec /\ []OneConnection /\ []OneSubmission => KeepsLife
<1>1. Init => Life!Init
  BY LifeInit
<1>2. TypeOK /\ SessionInv /\ AccountInv /\ ForwardInv /\ OnceInv /\ [Next]_vars
        => [Life!Next]_(Life!vars)
  BY LifeStep
<1>3. QED
  BY <1>1, <1>2, OnceCorrect, PTL DEF Spec, KeepsLife, Life!Spec
=============================================================================
