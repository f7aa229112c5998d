--------------------------- MODULE GradingEngine ---------------------------
(***************************************************************************)
(* internal/grading: the handler of the grade_attempt job.  The checks of  *)
(* a scenario run over SSH on the workstation; what they find is one value *)
(* here, the score the work earned or the zero points every check gets     *)
(* when the workstation cannot be reached.                                 *)
(***************************************************************************)
EXTENDS Platform

GradeStart(w) ==
    /\ At(w, "grade_attempt", "start")
    /\ \/ Works(w) /\ CallTransition(w, "grading")
       \/ Fails(w) /\ Goto(w, "failed")
    /\ UNCHANGED rows

\* Bug: grading goes on when its transition is refused.
GradeTransitionedAnyway(w) ==
    /\ Returned(w, "grade_attempt", "grading")
    /\ Goto(w, "loadEnv")
    /\ UNCHANGED <<rows, budget>>

GradeTransitioned(w) ==
    /\ Returned(w, "grade_attempt", "grading")
    /\ Goto(w, IF call[w].err THEN "failed" ELSE "loadEnv")
    /\ UNCHANGED <<rows, budget>>

\* The purchase, the test, its checks, and some environment of the attempt.
GradeLoad(w) ==
    /\ At(w, "grade_attempt", "loadEnv")
    /\ \/ /\ Works(w)
          /\ \E e \in EnvsOf(Att(w)) : GotoWith(w, "checks", e)
       \/ Works(w) /\ EnvsOf(Att(w)) = {} /\ Goto(w, "failed")
       \/ Fails(w) /\ Goto(w, "failed")
    /\ UNCHANGED rows

Found(w, points) == Become(w, [call[w] EXCEPT !.at = "save", !.result = points])

\* An error of RunCheck is logged and the check scores nothing.  RunCheck does
\* not look at the context.
GradeChecks(w) ==
    /\ At(w, "grade_attempt", "checks")
    /\ \/ /\ UNCHANGED budget
          /\ Found(w, IF vm[call[w].env] = "up" THEN "earned" ELSE "zeroed")
       \/ Spend("fault") /\ Found(w, "zeroed")
    /\ UNCHANGED rows

\* Bug: the error of UpdateScore is not looked at.
GradeSaveUnchecked(w) ==
    /\ At(w, "grade_attempt", "save")
    /\ \/ Works(w) /\ score' = [score EXCEPT ![Att(w)] = call[w].result]
       \/ Fails(w) /\ UNCHANGED score
    /\ CallTransition(w, "scored")
    /\ UNCHANGED <<remaining, status, ended, aged, envRows, queue>>

GradeSave(w) ==
    /\ At(w, "grade_attempt", "save")
    /\ \/ /\ Works(w)
          /\ score' = [score EXCEPT ![Att(w)] = call[w].result]
          /\ CallTransition(w, "scored")
       \/ Fails(w) /\ Goto(w, "failed") /\ UNCHANGED score
    /\ UNCHANGED <<remaining, status, ended, aged, envRows, queue>>

GradeScored(w) ==
    /\ Returned(w, "grade_attempt", "scored")
    /\ Goto(w, IF call[w].err THEN "failed" ELSE "enqueue")
    /\ UNCHANGED <<rows, budget>>

\* An error of this Enqueue is only logged.
GradeEnqueue(w) ==
    /\ At(w, "grade_attempt", "enqueue")
    /\ \/ Works(w) /\ Enqueue("cleanup_environment", Att(w))
       \/ Fails(w) /\ UNCHANGED queue
    /\ Goto(w, "done")
    /\ UNCHANGED <<remaining, attemptRows, aged, envRows>>

-----------------------------------------------------------------------------
GradingStep(w) ==
    \/ GradeStart(w) \/ GradeTransitioned(w) \/ GradeLoad(w) \/ GradeChecks(w)
    \/ GradeSave(w) \/ GradeScored(w) \/ GradeEnqueue(w)
=============================================================================
