----------------------------- MODULE LifeProofs -----------------------------
(***************************************************************************)
(* An attempt that ended does not come back, and no cleanup of its own     *)
(* takes its VMs while it can be used, for every value of the constants.   *)
(*                                                                         *)
(* Neither is inductive: the write of a status is blind, so what it does   *)
(* depends on what has become of the attempt since the status was read.    *)
(* From says over which statuses each status can at all be written, Placed *)
(* that a handler about to write is still over one of them, and that one   *)
(* that is about to destroy VMs is so for an attempt whose VMs may go.     *)
(* AttemptForward and EnvForward say the same of what waits in the queue   *)
(* and of the VMs that are gone.                                           *)
(*                                                                         *)
(* It needs no administrator (a retried provisioning goes back), no half   *)
(* hour of provisioning (the reconciler fails an attempt whose job is      *)
(* still writing), and no two connections to one fresh terminal at a time: *)
(* both pass OpenAdmit, and the second writes terminal_opened over running *)
(* or over what came after it.                                             *)
(***************************************************************************)
EXTENDS AccountProofs

-----------------------------------------------------------------------------
(* The inductive invariant                                                 *)

\* No student opens the same fresh terminal twice at the same time.
OneConnection ==
    \A g, h \in Handlers, a \in Attempts :
        call[g].op = "open" /\ call[h].op = "open" /\ Att(g) = a /\ Att(h) = a => g = h

\* The statuses of an attempt that is over, and of one whose VMs may go.
Late == {"submitted", "expired", "grading", "scored"}
Dead == Late \cup {"provision_failed"}

\* The statuses an attempt has at all.
Ordinary == {None, "attempt_requested", "environment_provisioning", "environment_ready",
             "terminal_opened", "running"} \cup Dead

\* The statuses an attempt may have when a handler is about to write s.
From(s) ==
    CASE s = "environment_provisioning" -> {"attempt_requested"}
      [] s \in {"environment_ready", "provision_failed"} -> {"environment_provisioning"}
      [] s = "terminal_opened" -> {"environment_ready"}
      [] s = "running" -> {"terminal_opened"}
      [] s \in {"submitted", "expired"} -> {"running"} \cup Late
      [] s \in {"grading", "scored"} -> Late
      [] OTHER -> {}

\* A handler on the way to destroying VMs.
Reclaiming(h) ==
    \/ call[h].op \in {"cleanup_environment", "reconcile"}
    \/ call[h].op = "grade_attempt" /\ call[h].at = "enqueue"
    \/ /\ call[h].op = "grade_attempt" /\ call[h].at = "returned"
       /\ call[h].to = "scored" /\ ~call[h].err

Provisioned(h) == call[h].op = "provision_environment" /\ Building(h)

\* What a handler knows of its attempt and its environment.
Placed(h) ==
    /\ call[h].at = "writeStatus" => status[Att(h)] \in From(call[h].to)
    /\ Provisioned(h) => status[Att(h)] = "environment_provisioning"
    /\ Reclaiming(h) => status[Att(h)] \in Dead
    /\ call[h].at \in {"destroying", "destroy", "markFailed", "destroyed"} =>
            call[h].env \in Envs /\ owner[call[h].env] = Att(h)
    /\ call[h].op = "reconcile" => call[h].at = "enqueue"
    /\ call[h].at \in {"admit", "stamp"} => session[call[h].env] # None

Cleanups(a) == queue[<<"cleanup_environment", a>>]

AttemptForward(a) ==
    /\ status[a] \in Ordinary
    /\ ended[a] => status[a] \in Late
    /\ Cleanups(a) > 0 => status[a] \in Dead

EnvForward(e) == vm[e] = "gone" => owner[e] \in Attempts /\ status[owner[e]] \in Dead

ForwardInv ==
    /\ aged = {} /\ budget["age"] = 0
    /\ \A a \in Attempts : AttemptForward(a)
    /\ \A e \in Envs : EnvForward(e)
    /\ \A h \in Handlers : Placed(h)

-----------------------------------------------------------------------------
(* Steps that write no status                                              *)

\* What they do to the rows.
RowsCalm ==
    /\ UNCHANGED <<status, ended>>
    /\ aged' = {} /\ budget'["age"] = 0
    /\ \A a \in Attempts : Cleanups(a)' > 0 => Cleanups(a) > 0 \/ status[a] \in Dead
    /\ \A e \in Envs :
        /\ owner[e] # None => owner'[e] = owner[e]
        /\ session[e] # None => session'[e] # None
        /\ vm'[e] = "gone" =>
                vm[e] = "gone" \/ (owner[e] \in Attempts /\ status[owner[e]] \in Dead)

LEMMA CalmRows ==
    ASSUME ForwardInv, RowsCalm
    PROVE  /\ aged' = {} /\ budget'["age"] = 0
           /\ \A a \in Attempts : AttemptForward(a)'
           /\ \A e \in Envs : EnvForward(e)'
BY NoneAssumption DEF ForwardInv, RowsCalm, AttemptForward, EnvForward

LEMMA CalmPlaced ==
    ASSUME SessionInv, AccountInv, ForwardInv, RowsCalm, NEW g \in Handlers, call'[g] = call[g]
    PROVE  Placed(g)'
<1>1. Placed(g)
  BY DEF ForwardInv
<1>2. /\ Building(g)' = Building(g) /\ Reclaiming(g)' = Reclaiming(g)
      /\ Provisioned(g)' = Provisioned(g)
  BY DEF Building, Reclaiming, Provisioned
<1>3. Att(g)' = Att(g) /\ status' = status
  BY DEF Att, RowsCalm
<1>4. call[g].at # "idle" => Att(g) \in Attempts
  BY DEF AccountInv, Regular
<1>5. call[g].at \in {"admit", "stamp"} => call[g].env \in Envs
  BY DEF SessionInv, Sound
<1>6. call[g].at \in {"destroying", "destroy", "markFailed", "destroyed"} =>
            call[g].env \in Envs /\ owner[call[g].env] = Att(g) /\ Att(g) # None
  BY <1>1, <1>4, NoneAssumption DEF Placed
<1>7. QED
  BY <1>1, <1>2, <1>3, <1>5, <1>6 DEF Placed, RowsCalm

LEMMA StillForward ==
    ASSUME SessionInv, AccountInv, ForwardInv, NEW h \in Handlers,
           Others(h), RowsCalm, Placed(h)'
    PROVE  ForwardInv'
BY CalmRows, CalmPlaced DEF ForwardInv, Others

-----------------------------------------------------------------------------
(* Helpers                                                                 *)

\* What becomes of the environment and the result that a handler holds.
LEMMA Holds ==
    ASSUME TypeOK, NEW h \in Handlers
    PROVE  /\ \A p : Goto(h, p) => call'[h].env = call[h].env
           /\ \A p, e : GotoWith(h, p, e) => call'[h].env = e
           /\ \A s : CallTransition(h, s) =>
                call'[h].env = call[h].env /\ call'[h].result = call[h].result
           /\ \A b : TransitionReturns(h, b) => call'[h].env = call[h].env
           /\ Become(h, [call[h] EXCEPT !.at = "writeStatus"]) => call'[h].env = call[h].env
           /\ \A r : Found(h, r) => call'[h].env = call[h].env /\ call'[h].result = r
           /\ Become(h, [call[h] EXCEPT !.live = FALSE]) =>
                call'[h].env = call[h].env /\ call'[h].result = call[h].result
           /\ \A op, a, e, p : Begin(h, Invocation(op, a, e, p)) => call'[h].env = e
<1> DEFINE d == call[h]
<1>0. d \in Invocations
  BY DEF TypeOK
<1> HIDE DEF d
<1>1. \A p : Goto(h, p) => call'[h].env = d.env
  <2>1. \A p : Goto(h, p) => call'[h] = [d EXCEPT !.at = p, !.to = None, !.err = FALSE]
    BY Became DEF Goto, d
  <2>2. QED
    BY <1>0, <2>1 DEF Invocations
<1>2. \A p, e : GotoWith(h, p, e) => call'[h].env = e
  <2> TAKE p, e
  <2> DEFINE c == [d EXCEPT !.at = p, !.env = e]
  <2>1. c.env = e
    BY <1>0 DEF Invocations
  <2>2. GotoWith(h, p, e) => Become(h, c)
    BY DEF GotoWith, d
  <2> HIDE DEF c
  <2>3. QED
    BY <2>1, <2>2, Became
<1>3. \A s : CallTransition(h, s) => call'[h].env = d.env /\ call'[h].result = d.result
  <2>1. \A s : CallTransition(h, s) =>
            call'[h] = [d EXCEPT !.at = "readStatus", !.to = s, !.err = FALSE]
    BY Became DEF CallTransition, d
  <2>2. QED
    BY <1>0, <2>1 DEF Invocations
<1>4. \A b : TransitionReturns(h, b) => call'[h].env = d.env
  <2>1. \A b : TransitionReturns(h, b) =>
            call'[h] = [d EXCEPT !.at = "returned", !.err = b]
    BY Became DEF TransitionReturns, d
  <2>2. QED
    BY <1>0, <2>1 DEF Invocations
<1>5. \A r : Found(h, r) => call'[h].env = d.env /\ call'[h].result = r
  <2> TAKE r
  <2> DEFINE c == [d EXCEPT !.at = "save", !.result = r]
  <2>1. c.env = d.env /\ c.result = r
    BY <1>0 DEF Invocations
  <2>2. Found(h, r) => Become(h, c)
    BY DEF Found, d
  <2> HIDE DEF c
  <2>3. QED
    BY <2>1, <2>2, Became
<1>6. Become(h, [d EXCEPT !.at = "writeStatus"]) => call'[h].env = d.env
  BY <1>0, Became DEF Invocations
<1>7. Become(h, [d EXCEPT !.live = FALSE]) =>
        call'[h].env = d.env /\ call'[h].result = d.result
  BY <1>0, Became DEF Invocations
<1>8. \A op, a, e, p : Begin(h, Invocation(op, a, e, p)) => call'[h].env = e
  BY Became DEF Begin, Invocation
<1>9. QED
  BY <1>1, <1>2, <1>3, <1>4, <1>5, <1>6, <1>7, <1>8 DEF d

\* A statement that works or fails takes no half hour.
LEMMA NoAge ==
    ASSUME TypeOK, NEW h
    PROVE  /\ Works(h) \/ Fails(h) => budget'["age"] = budget["age"]
           /\ \A kind \in BudgetKinds \ {"age"} :
                Spend(kind) => budget'["age"] = budget["age"]
BY DEF TypeOK, Works, Fails, Spend, BudgetKinds

\* The points at which nothing needs to be known of the rows.
PlainAt == Points \ {"writeStatus", "destroying", "destroy", "markFailed", "destroyed",
                     "admit", "stamp"}
PlainOps == {"request", "submit", "expire_attempt", "open"}

LEMMA PlainPlaced ==
    ASSUME NEW h
    PROVE  /\ Stops(h) => Placed(h)'
           /\ call'[h].op \in PlainOps /\ call'[h].at \in PlainAt => Placed(h)'
BY DEF Stops, PlainOps, PlainAt, Placed, Provisioned, Reclaiming

\* A handler that goes on with an operation that neither provisions nor
\* destroys.
LEMMA PlainMove ==
    ASSUME TypeOK, NEW h \in Handlers, call[h].op \in PlainOps
    PROVE  /\ Return(h) => Others(h) /\ Placed(h)'
           /\ \A p \in PlainAt : Goto(h, p) => Others(h) /\ Placed(h)'
           /\ \A s : CallTransition(h, s) => Others(h) /\ Placed(h)'
           /\ \A b : TransitionReturns(h, b) => Others(h) /\ Placed(h)'
BY Progress, PlainPlaced DEF Goes, Stops, PlainAt, Points

-----------------------------------------------------------------------------
(* Requests, submissions, expiry and the terminal                          *)

LEMMA PlainForward ==
    ASSUME TypeOK, SessionInv, AccountInv, ForwardInv, NEW h \in Handlers,
           \/ RequestDecrement(h) \/ RequestEnqueue(h) \/ RequestRestore(h)
           \/ SubmitTransitioned(h) \/ SubmitEnqueue(h)
           \/ ExpireStart(h) \/ ExpireTransitioned(h) \/ ExpireEnqueue(h)
    PROVE  ForwardInv'
<1> USE DEF At, Returned, rows, attemptRows, envRows, PlainOps, PlainAt, Points, Cleanups, JobKinds
<1>0. aged = {} /\ budget["age"] = 0
  BY DEF ForwardInv
<1>1. CASE RequestDecrement(h)
  <2>1. Others(h) /\ Placed(h)'
    BY <1>1, PlainMove DEF RequestDecrement
  <2>2. RowsCalm
    BY <1>0, <1>1, NoAge DEF RequestDecrement, RowsCalm
  <2>3. QED
    BY <2>1, <2>2, StillForward
<1>2. CASE RequestEnqueue(h)
  <2>1. Others(h) /\ Placed(h)'
    BY <1>2, PlainMove DEF RequestEnqueue
  <2>2. RowsCalm
    BY <1>0, <1>2, NoAge, EnqueuesOnly DEF RequestEnqueue, RowsCalm
  <2>3. QED
    BY <2>1, <2>2, StillForward
<1>3. CASE RequestRestore(h)
  <2>1. Others(h) /\ Placed(h)'
    BY <1>3, PlainMove DEF RequestRestore
  <2>2. RowsCalm
    BY <1>0, <1>3, NoAge DEF RequestRestore, RowsCalm
  <2>3. QED
    BY <2>1, <2>2, StillForward
<1>4. CASE SubmitTransitioned(h)
  <2>1. Others(h) /\ Placed(h)'
    BY <1>4, PlainMove DEF SubmitTransitioned
  <2>2. RowsCalm
    BY <1>0, <1>4 DEF SubmitTransitioned, RowsCalm
  <2>3. QED
    BY <2>1, <2>2, StillForward
<1>5. CASE SubmitEnqueue(h)
  <2>1. Others(h) /\ Placed(h)'
    BY <1>5, PlainMove DEF SubmitEnqueue
  <2>2. RowsCalm
    BY <1>0, <1>5, NoAge, EnqueuesOnly DEF SubmitEnqueue, RowsCalm
  <2>3. QED
    BY <2>1, <2>2, StillForward
<1>6. CASE ExpireStart(h)
  <2>1. Others(h) /\ Placed(h)'
    BY <1>6, PlainMove DEF ExpireStart
  <2>2. RowsCalm
    BY <1>0, <1>6, NoAge DEF ExpireStart, RowsCalm
  <2>3. QED
    BY <2>1, <2>2, StillForward
<1>7. CASE ExpireTransitioned(h)
  <2>1. Others(h) /\ Placed(h)'
    BY <1>7, PlainMove DEF ExpireTransitioned
  <2>2. RowsCalm
    BY <1>0, <1>7 DEF ExpireTransitioned, RowsCalm
  <2>3. QED
    BY <2>1, <2>2, StillForward
<1>8. CASE ExpireEnqueue(h)
  <2>1. Others(h) /\ Placed(h)'
    BY <1>8, PlainMove DEF ExpireEnqueue
  <2>2. RowsCalm
    BY <1>0, <1>8, NoAge, EnqueuesOnly DEF ExpireEnqueue, RowsCalm
  <2>3. QED
    BY <2>1, <2>2, StillForward
<1>9. QED
  BY <1>1, <1>2, <1>3, <1>4, <1>5, <1>6, <1>7, <1>8

LEMMA TerminalForward ==
    ASSUME TypeOK, SessionInv, AccountInv, ForwardInv, NEW h \in Handlers, TerminalStep(h)
    PROVE  ForwardInv'
<1> USE DEF At, Returned, rows, attemptRows, envRows, PlainOps, PlainAt, Points, Cleanups
<1>0. aged = {} /\ budget["age"] = 0
  BY DEF ForwardInv
<1>1. CASE OpenAdmit(h)
  <2>1. session[call[h].env] # None
    BY <1>1 DEF ForwardInv, Placed, OpenAdmit
  <2>2. RowsCalm
    BY <1>0, <1>1, NoAge DEF OpenAdmit, RowsCalm
  <2>3. CASE Return(h)
    BY <1>1, <2>2, <2>3, PlainMove, StillForward DEF OpenAdmit
  <2>4. CASE Goto(h, "stamp")
    <3>1. Goes(h, "stamp", None, FALSE) /\ call'[h].env = call[h].env
      BY <2>4, Progress, Holds
    <3>2. session' = session
      BY <1>1 DEF OpenAdmit
    <3>3. Placed(h)'
      BY <1>1, <2>1, <3>1, <3>2 DEF Placed, Goes, Provisioned, Reclaiming, OpenAdmit
    <3>4. QED
      BY <2>2, <3>1, <3>3, StillForward DEF Goes
  <2>5. QED
    BY <1>1, <2>3, <2>4 DEF OpenAdmit
<1>2. CASE OpenStamp(h)
  <2>1. Others(h) /\ Placed(h)'
    BY <1>2, PlainMove DEF OpenStamp
  <2>2. session' = session \/ session' = [session EXCEPT ![call[h].env] = "opened"]
    BY <1>2 DEF OpenStamp
  <2>3. \A e \in Envs : session[e] # None => session'[e] # None
    BY <2>2 DEF TypeOK, None
  <2>4. RowsCalm
    BY <1>0, <1>2, <2>3, NoAge DEF OpenStamp, RowsCalm
  <2>5. QED
    BY <2>1, <2>4, StillForward
<1>3. CASE OpenTransitioned(h)
  <2>1. Others(h) /\ Placed(h)'
    BY <1>3, PlainMove DEF OpenTransitioned
  <2>2. RowsCalm
    BY <1>0, <1>3 DEF OpenTransitioned, RowsCalm
  <2>3. QED
    BY <2>1, <2>2, StillForward
<1>4. QED
  BY <1>1, <1>2, <1>3 DEF TerminalStep

-----------------------------------------------------------------------------
(* Grading                                                                 *)

LEMMA GradingMove ==
    ASSUME TypeOK, NEW h \in Handlers, call[h].op = "grade_attempt"
    PROVE  /\ \A p \in PlainAt \ {"enqueue", "returned"} : Goto(h, p) => Others(h) /\ Placed(h)'
           /\ \A e : \A p \in PlainAt \ {"enqueue", "returned"} :
                GotoWith(h, p, e) => Others(h) /\ Placed(h)'
           /\ \A s : CallTransition(h, s) => Others(h) /\ Placed(h)'
           /\ \A r : Found(h, r) => Others(h) /\ Placed(h)'
BY Progress DEF Goes, PlainAt, Points, Placed, Provisioned, Reclaiming

LEMMA GradingForward ==
    ASSUME TypeOK, SessionInv, AccountInv, ForwardInv, NEW h \in Handlers, GradingStep(h)
    PROVE  ForwardInv'
<1> USE DEF At, Returned, rows, attemptRows, envRows, PlainAt, Points, Cleanups
<1>0. aged = {} /\ budget["age"] = 0 /\ Placed(h)
  BY DEF ForwardInv
<1>1. CASE GradeStart(h)
  <2>1. Others(h) /\ Placed(h)'
    BY <1>1, GradingMove DEF GradeStart
  <2>2. RowsCalm
    BY <1>0, <1>1, NoAge DEF GradeStart, RowsCalm
  <2>3. QED
    BY <2>1, <2>2, StillForward
<1>2. CASE GradeTransitioned(h)
  <2>1. Others(h) /\ Placed(h)'
    BY <1>2, GradingMove DEF GradeTransitioned
  <2>2. RowsCalm
    BY <1>0, <1>2 DEF GradeTransitioned, RowsCalm
  <2>3. QED
    BY <2>1, <2>2, StillForward
<1>3. CASE GradeLoad(h)
  <2>1. Others(h) /\ Placed(h)'
    BY <1>3, GradingMove DEF GradeLoad
  <2>2. RowsCalm
    BY <1>0, <1>3, NoAge DEF GradeLoad, RowsCalm
  <2>3. QED
    BY <2>1, <2>2, StillForward
<1>4. CASE GradeChecks(h)
  <2>1. Others(h) /\ Placed(h)'
    BY <1>4, GradingMove DEF GradeChecks
  <2>2. RowsCalm
    BY <1>0, <1>4, NoAge DEF GradeChecks, RowsCalm, BudgetKinds
  <2>3. QED
    BY <2>1, <2>2, StillForward
<1>5. CASE GradeSave(h)
  <2>1. Others(h) /\ Placed(h)'
    BY <1>5, GradingMove DEF GradeSave
  <2>2. RowsCalm
    BY <1>0, <1>5, NoAge DEF GradeSave, RowsCalm
  <2>3. QED
    BY <2>1, <2>2, StillForward
<1>6. CASE GradeScored(h)
  <2>1. ~call[h].err => status[Att(h)] \in Dead
    BY <1>0, <1>6 DEF GradeScored, Placed, Reclaiming
  <2>2. RowsCalm
    BY <1>0, <1>6 DEF GradeScored, RowsCalm
  <2>3. Goes(h, IF call[h].err THEN "failed" ELSE "enqueue", None, FALSE)
    BY <1>6, Progress DEF GradeScored
  <2>4. Placed(h)'
    BY <1>6, <2>1, <2>2, <2>3
       DEF GradeScored, Goes, Placed, Provisioned, Reclaiming, RowsCalm, Att
  <2>5. QED
    BY <2>2, <2>3, <2>4, StillForward DEF Goes
<1>7. CASE GradeEnqueue(h)
  <2>1. Others(h) /\ Placed(h)'
    BY <1>7, GradingMove DEF GradeEnqueue
  <2>2. status[Att(h)] \in Dead
    BY <1>0, <1>7 DEF GradeEnqueue, Placed, Reclaiming
  <2>3. RowsCalm
    BY <1>0, <1>7, <2>2, NoAge, EnqueuesOnly DEF GradeEnqueue, RowsCalm, JobKinds
  <2>4. QED
    BY <2>1, <2>3, StillForward
<1>8. QED
  BY <1>1, <1>2, <1>3, <1>4, <1>5, <1>6, <1>7 DEF GradingStep

-----------------------------------------------------------------------------
(* Cleanup and the reconciler                                              *)

\* A cleanup goes on at p with environment e.
LEMMA CleanupMove ==
    ASSUME ForwardInv, NEW h \in Handlers, call[h].op = "cleanup_environment",
           RowsCalm, NEW p, NEW s, NEW b, Goes(h, p, s, b),
           p \notin {"writeStatus", "admit", "stamp"},
           p \in {"destroying", "destroy", "markFailed", "destroyed"} =>
                call'[h].env \in Envs /\ owner'[call'[h].env] = Att(h)
    PROVE  Placed(h)'
<1>1. status[Att(h)] \in Dead
  BY DEF ForwardInv, Placed, Reclaiming
<1>2. QED
  BY <1>1 DEF Goes, RowsCalm, Placed, Provisioned, Reclaiming, Att

LEMMA CleanupForward ==
    ASSUME TypeOK, SessionInv, AccountInv, ForwardInv, NEW h \in Handlers,
           \/ CleanupStart(h) \/ CleanupDestroying(h) \/ CleanupDestroy(h)
           \/ CleanupMarkFailed(h) \/ CleanupDestroyed(h) \/ CleanupTransitioned(h)
    PROVE  ForwardInv'
<1> USE DEF At, Returned, rows, attemptRows, envRows, Cleanups
<1>0. aged = {} /\ budget["age"] = 0 /\ Placed(h)
  BY DEF ForwardInv
<1>1. /\ call[h].op = "cleanup_environment" /\ owner' = owner
      /\ Att(h) \in Attempts /\ status[Att(h)] \in Dead
  BY <1>0 DEF CleanupStart, CleanupDestroying, CleanupDestroy, CleanupMarkFailed,
              CleanupDestroyed, CleanupTransitioned, Placed, Reclaiming, AccountInv, Regular
<1> DEFINE Named == call[h].env \in Envs /\ owner[call[h].env] = Att(h)
<1>2. CASE CleanupStart(h)
  <2>1. RowsCalm
    BY <1>0, <1>2, NoAge DEF CleanupStart, RowsCalm
  <2>2. CASE Goto(h, "done")
    <3>1. Goes(h, "done", None, FALSE)
      BY <2>2, Progress
    <3>2. QED
      BY <1>1, <2>1, <3>1, CleanupMove, StillForward DEF Goes
  <2>3. ASSUME NEW e \in EnvsOf(Att(h)), GotoWith(h, "destroying", e)
        PROVE  ForwardInv'
    <3>1. Goes(h, "destroying", call[h].to, call[h].err) /\ call'[h].env = e
      BY <2>3, Progress, Holds
    <3>2. call'[h].env \in Envs /\ owner'[call'[h].env] = Att(h)
      BY <1>1, <3>1 DEF EnvsOf
    <3>3. QED
      BY <1>1, <2>1, <3>1, <3>2, CleanupMove, StillForward DEF Goes
  <2>4. QED
    BY <1>2, <2>2, <2>3 DEF CleanupStart
<1>3. CASE CleanupDestroying(h)
  <2>1. RowsCalm
    BY <1>0, <1>3, NoAge DEF CleanupDestroying, RowsCalm
  <2>2. Named
    BY <1>0, <1>3 DEF CleanupDestroying, Placed
  <2>3. \E p : Goto(h, p) /\ p \in {"destroy", "failed"}
    BY <1>3 DEF CleanupDestroying
  <2>4. \E p \in {"destroy", "failed"} : Goes(h, p, None, FALSE) /\ call'[h].env = call[h].env
    BY <2>3, Progress, Holds
  <2>5. QED
    BY <1>1, <2>1, <2>2, <2>4, CleanupMove, StillForward DEF Goes
<1>4. CASE CleanupDestroy(h)
  <2>1. Named
    BY <1>0, <1>4 DEF CleanupDestroy, Placed
  <2>2. vm' = vm \/ Destroys(call[h].env)
    BY <1>4 DEF CleanupDestroy
  <2>3. \A e \in Envs : vm'[e] = "gone" => vm[e] = "gone" \/ e = call[h].env
    BY <2>2, WhatIsDestroyed
  <2>4. RowsCalm
    BY <1>0, <1>1, <1>4, <2>1, <2>3, NoAge DEF CleanupDestroy, RowsCalm
  <2>5. \E p : Goto(h, p) /\ p \in {"destroyed", "markFailed"}
    BY <1>4 DEF CleanupDestroy
  <2>6. \E p \in {"destroyed", "markFailed"} :
            Goes(h, p, None, FALSE) /\ call'[h].env = call[h].env
    BY <2>5, Progress, Holds
  <2>7. QED
    BY <1>1, <2>1, <2>4, <2>6, CleanupMove, StillForward DEF Goes
<1>5. CASE CleanupMarkFailed(h)
  <2>1. RowsCalm
    BY <1>0, <1>5, NoAge DEF CleanupMarkFailed, RowsCalm
  <2>2. Goes(h, "failed", None, FALSE)
    BY <1>5, Progress DEF CleanupMarkFailed
  <2>3. QED
    BY <1>1, <2>1, <2>2, CleanupMove, StillForward DEF Goes
<1>6. CASE CleanupDestroyed(h)
  <2>1. RowsCalm
    BY <1>0, <1>6, NoAge DEF CleanupDestroyed, RowsCalm
  <2>2. Goes(h, "failed", None, FALSE) \/ Goes(h, "readStatus", "destroyed", FALSE)
    BY <1>6, Progress DEF CleanupDestroyed
  <2>3. QED
    BY <1>1, <2>1, <2>2, CleanupMove, StillForward DEF Goes
<1>7. CASE CleanupTransitioned(h)
  <2>1. RowsCalm
    BY <1>0, <1>7 DEF CleanupTransitioned, RowsCalm
  <2>2. Goes(h, "done", None, FALSE)
    BY <1>7, Progress DEF CleanupTransitioned
  <2>3. QED
    BY <1>1, <2>1, <2>2, CleanupMove, StillForward DEF Goes
<1>8. QED
  BY <1>2, <1>3, <1>4, <1>5, <1>6, <1>7

LEMMA ReconcilerForward ==
    ASSUME TypeOK, SessionInv, AccountInv, ForwardInv,
           ReconcileStep \/ \E a \in Attempts : Reconcile(a)
    PROVE  ForwardInv'
<1> DEFINE r == Reconciler
<1> USE DEF At, Returned, rows, attemptRows, envRows, Cleanups
<1>0. r \in Handlers /\ aged = {} /\ budget["age"] = 0 /\ Placed(r)
  BY DEF ForwardInv, Handlers
<1>1. ~ReconcileTransitioned
  BY <1>0 DEF ReconcileTransitioned, Placed
<1>2. ASSUME ReconcileEnqueue
      PROVE  ForwardInv'
  <2>1. Stops(r) /\ Placed(r)'
    BY <1>0, <1>2, Progress, PlainPlaced DEF ReconcileEnqueue
  <2>2. status[Att(r)] \in Dead
    BY <1>0, <1>2 DEF ReconcileEnqueue, Placed, Reclaiming
  <2>3. RowsCalm
    BY <1>0, <1>2, <2>2, NoAge, EnqueuesOnly DEF ReconcileEnqueue, RowsCalm, JobKinds
  <2>4. QED
    BY <1>0, <2>1, <2>3, StillForward DEF Stops
<1>3. ASSUME NEW a \in Attempts, Reconcile(a)
      PROVE  ForwardInv'
  <2>1. ReconcileTerminal(a)
    BY <1>0, <1>3 DEF Reconcile, ReconcileStale
  <2>2. status[a] \in Dead
    BY <2>1 DEF ReconcileTerminal, NeedsCleanup, ForwardInv, AttemptForward, Ordinary,
                Dead, Late, None
  <2>3. Starts(r, "reconcile", a, "enqueue", None)
    BY <1>0, <2>1, Progress DEF ReconcileTerminal
  <2>4. RowsCalm
    BY <1>0, <2>1 DEF ReconcileTerminal, RowsCalm
  <2>5. Placed(r)'
    BY <2>2, <2>3, <2>4 DEF Starts, RowsCalm, Placed, Provisioned, Reclaiming, Att
  <2>6. QED
    BY <1>0, <2>3, <2>4, <2>5, StillForward DEF Starts
<1>4. QED
  BY <1>1, <1>2, <1>3 DEF ReconcileStep

-----------------------------------------------------------------------------
(* Provisioning                                                            *)

\* A provisioning job goes on at p; it builds only what is being provisioned.
LEMMA ProvisionMove ==
    ASSUME NEW h \in Handlers, call[h].op = "provision_environment", RowsCalm,
           NEW p, NEW s, NEW b, Goes(h, p, s, b),
           p \in PlainAt, p # "returned",
           \/ status[Att(h)] = "environment_provisioning"
           \/ /\ p \notin {"build", "record", "configure", "session"}
              /\ p = "readStatus" => s = "environment_provisioning"
    PROVE  Others(h) /\ Placed(h)'
BY DEF Goes, RowsCalm, PlainAt, Points, Placed, Provisioned, Building, Reclaiming, Att

LEMMA ProvisionForward ==
    ASSUME TypeOK, SessionInv, AccountInv, ForwardInv, NEW h \in Handlers,
           \/ ProvisionStart(h) \/ ProvisionBuild(h) \/ ProvisionRecord(h)
           \/ ProvisionConfigure(h) \/ ProvisionSession(h) \/ ProvisionTransitioned(h)
           \/ ProvisionFailureRecorded(h) \/ ProvisionFailureEnqueue(h)
           \/ RestoreAttemptCount(h)
    PROVE  ForwardInv'
<1> USE DEF At, Returned, rows, attemptRows, envRows, Cleanups, PlainAt, Points
<1>0. aged = {} /\ budget["age"] = 0 /\ Placed(h)
  BY DEF ForwardInv
<1>1. call[h].op = "provision_environment"
  BY DEF ProvisionStart, ProvisionBuild, ProvisionRecord, ProvisionConfigure,
         ProvisionSession, ProvisionTransitioned, ProvisionFailureRecorded,
         ProvisionFailureEnqueue, RestoreAttemptCount
<1>2. Building(h) => status[Att(h)] = "environment_provisioning"
  BY <1>0, <1>1 DEF Placed, Provisioned
<1>3. Att(h) \in Attempts
  BY <1>1 DEF AccountInv, Regular
<1> USE Progress
<1>4. CASE ProvisionStart(h)
  <2>1. RowsCalm
    BY <1>0, <1>4, NoAge DEF ProvisionStart, RowsCalm
  <2>2. \/ Goes(h, "readStatus", "environment_provisioning", FALSE)
        \/ Goes(h, "build", None, FALSE) /\ status[Att(h)] = "environment_provisioning"
        \/ Goes(h, "done", None, FALSE)
        \/ Goes(h, "failed", None, FALSE)
    BY <1>4 DEF ProvisionStart
  <2>3. QED
    BY <1>1, <2>1, <2>2, ProvisionMove, StillForward
<1>5. CASE ProvisionBuild(h)
  <2>1. \A e \in Envs : vm'[e] = "gone" => vm[e] = "gone"
    <3>1. vm' = vm \/ \E e \in Envs : vm' = [vm EXCEPT ![e] = "up"]
      BY <1>5 DEF ProvisionBuild
    <3>2. QED
      BY <3>1 DEF TypeOK
  <2>2. RowsCalm
    BY <1>0, <1>5, <2>1, NoAge DEF ProvisionBuild, RowsCalm
  <2>3. \/ \E s, b : Goes(h, "record", s, b)
        \/ Goes(h, "readStatus", "provision_failed", FALSE)
        \/ Goes(h, "failed", None, FALSE)
    BY <1>5 DEF ProvisionBuild
  <2>4. status[Att(h)] = "environment_provisioning"
    BY <1>2, <1>5 DEF ProvisionBuild, Building
  <2>5. QED
    BY <1>1, <2>2, <2>3, <2>4, ProvisionMove, StillForward
<1>6. CASE ProvisionRecord(h)
  <2>1. \A e \in Envs : owner[e] # None => owner'[e] = owner[e]
    <3>1. owner' = owner \/ owner' = [owner EXCEPT ![call[h].env] = Att(h)]
      BY <1>6 DEF ProvisionRecord
    <3>2. owner[call[h].env] = None
      BY <1>6 DEF ProvisionRecord, SessionInv, Sound
    <3>3. QED
      BY <3>1, <3>2 DEF TypeOK
  <2>2. RowsCalm
    BY <1>0, <1>6, <2>1, NoAge DEF ProvisionRecord, RowsCalm
  <2>3. \/ Goes(h, "configure", None, FALSE)
        \/ Goes(h, "readStatus", "provision_failed", FALSE)
    BY <1>6 DEF ProvisionRecord
  <2>4. status[Att(h)] = "environment_provisioning"
    BY <1>2, <1>6 DEF ProvisionRecord, Building
  <2>5. QED
    BY <1>1, <2>2, <2>3, <2>4, ProvisionMove, StillForward
<1>7. CASE ProvisionConfigure(h)
  <2>1. RowsCalm
    BY <1>0, <1>7, NoAge DEF ProvisionConfigure, RowsCalm
  <2>2. \/ Goes(h, "session", None, FALSE)
        \/ Goes(h, "readStatus", "provision_failed", FALSE)
    BY <1>7 DEF ProvisionConfigure
  <2>3. status[Att(h)] = "environment_provisioning"
    BY <1>2, <1>7 DEF ProvisionConfigure, Building
  <2>4. QED
    BY <1>1, <2>1, <2>2, <2>3, ProvisionMove, StillForward
<1>8. CASE ProvisionSession(h)
  <2>1. \A e \in Envs : session[e] # None => session'[e] # None
    <3>1. session' = session \/ session' = [session EXCEPT ![call[h].env] = "fresh"]
      BY <1>8 DEF ProvisionSession
    <3>2. QED
      BY <3>1 DEF TypeOK, None
  <2>2. RowsCalm
    BY <1>0, <1>8, <2>1, NoAge DEF ProvisionSession, RowsCalm
  <2>3. \/ Goes(h, "readStatus", "environment_ready", FALSE)
        \/ Goes(h, "readStatus", "provision_failed", FALSE)
    BY <1>8 DEF ProvisionSession
  <2>4. status[Att(h)] = "environment_provisioning"
    BY <1>2, <1>8 DEF ProvisionSession, Building
  <2>5. QED
    BY <1>1, <2>2, <2>3, <2>4, ProvisionMove, StillForward
<1>9. CASE ProvisionTransitioned(h)
  <2>1. RowsCalm
    BY <1>0, <1>9 DEF ProvisionTransitioned, RowsCalm
  <2>2. \/ Goes(h, "failed", None, FALSE) \/ Goes(h, "done", None, FALSE)
        \/ Goes(h, "build", None, FALSE) /\ Building(h)
    BY <1>9 DEF ProvisionTransitioned, Building
  <2>3. QED
    BY <1>1, <1>2, <2>1, <2>2, ProvisionMove, StillForward
<1>10. CASE ProvisionFailureRecorded(h)
  <2>1. RowsCalm
    BY <1>0, <1>10 DEF ProvisionFailureRecorded, RowsCalm
  <2>2. Goes(h, "done", None, FALSE) \/ Goes(h, "enqueue", None, FALSE)
    BY <1>10 DEF ProvisionFailureRecorded
  <2>3. QED
    BY <1>1, <2>1, <2>2, ProvisionMove, StillForward
<1>11. CASE ProvisionFailureEnqueue(h)
  <2>1. status[Att(h)] \in Dead
    BY <1>1, <1>3, <1>11
       DEF ProvisionFailureEnqueue, AccountInv, Ledger, Provision, Provisioning, Refunding, Dead
  <2>2. RowsCalm
    BY <1>0, <1>11, <2>1, NoAge, EnqueuesOnly DEF ProvisionFailureEnqueue, RowsCalm, JobKinds
  <2>3. Goes(h, "refund", None, FALSE)
    BY <1>11 DEF ProvisionFailureEnqueue
  <2>4. QED
    BY <1>1, <2>2, <2>3, ProvisionMove, StillForward
<1>12. CASE RestoreAttemptCount(h)
  <2>1. RowsCalm
    BY <1>0, <1>12, NoAge DEF RestoreAttemptCount, RowsCalm
  <2>2. Goes(h, "done", None, FALSE)
    BY <1>12 DEF RestoreAttemptCount
  <2>3. QED
    BY <1>1, <2>1, <2>2, ProvisionMove, StillForward
<1>13. QED
  BY <1>4, <1>5, <1>6, <1>7, <1>8, <1>9, <1>10, <1>11, <1>12

-----------------------------------------------------------------------------
(* Reading and writing the status                                          *)

\* What an operation may be about to write, and over what, before the step.
LEMMA WriterFacts ==
    ASSUME ForwardInv, AccountInv, NEW h \in Handlers, call[h].at = "writeStatus"
    PROVE  /\ Att(h) \in Attempts /\ status[Att(h)] \in From(call[h].to)
           /\ <<call[h].op, call[h].to>> \in Asked
           /\ call[h].op \notin {"reconcile", "cleanup_environment"}
           /\ call[h].to \in {"environment_provisioning", "environment_ready",
                              "provision_failed"} <=> call[h].op = "provision_environment"
           /\ call[h].to \in {"terminal_opened", "running"} <=> call[h].op = "open"
           /\ call[h].to # "destroyed"
<1>1. <<call[h].op, call[h].to>> \in Asked /\ Att(h) \in Attempts
  BY AskedFacts DEF AccountInv, Regular
<1>2. Placed(h)
  BY DEF ForwardInv
<1>3. status[Att(h)] \in From(call[h].to) /\ call[h].op # "reconcile"
  BY <1>2 DEF Placed
<1>4. call[h].to # "destroyed"
  BY <1>3 DEF From
<1>5. QED
  BY <1>1, <1>3, <1>4 DEF Asked

\* A transition that is refused or fails.
LEMMA RefusedForward ==
    ASSUME TypeOK, SessionInv, AccountInv, ForwardInv, NEW h \in Handlers,
           call[h].at \in {"readStatus", "writeStatus"}, TransitionReturns(h, TRUE), RowsCalm
    PROVE  ForwardInv'
<1>1. Goes(h, "returned", call[h].to, TRUE) /\ Placed(h)
  BY Progress DEF ForwardInv
<1>2. Placed(h)'
  BY <1>1 DEF Goes, RowsCalm, Placed, Provisioned, Building, Reclaiming, Att
<1>3. QED
  BY <1>1, <1>2, StillForward DEF Goes

LEMMA StatusReadForward ==
    ASSUME TypeOK, SessionInv, AccountInv, ForwardInv, NEW h \in Handlers, StatusRead(h)
    PROVE  ForwardInv'
<1>0. aged = {} /\ budget["age"] = 0 /\ Placed(h)
  BY DEF ForwardInv
<1>1. RowsCalm
  BY <1>0, NoAge DEF StatusRead, RowsCalm, rows, attemptRows, envRows, Cleanups
<1>2. ASSUME ValidTransition(status[Att(h)], call[h].to),
             Become(h, [call[h] EXCEPT !.at = "writeStatus"])
      PROVE  ForwardInv'
  <2>1. Goes(h, "writeStatus", call[h].to, call[h].err)
    BY <1>2, Progress
  <2>2. <<call[h].op, call[h].to>> \in Asked /\ Att(h) \in Attempts
    BY AskedFacts DEF StatusRead, AccountInv, Regular
  <2>3. status[Att(h)] \in Ordinary
    BY <2>2 DEF ForwardInv, AttemptForward
  <2>4. call[h].to = "provision_failed" => Provisioned(h)
    BY <1>0, <2>2 DEF StatusRead, Asked, Placed, Provisioned, Building
  <2>5. call[h].to = "provision_failed" => status[Att(h)] = "environment_provisioning"
    BY <1>0, <2>4 DEF Placed
  <2>6. status[Att(h)] \in From(call[h].to)
    BY <1>2, <2>2, <2>3, <2>5
       DEF Asked, ValidTransition, validTransitions, From, Ordinary, Dead, Late, None
  <2>7. Placed(h)'
    BY <1>0, <1>1, <2>1, <2>6
       DEF StatusRead, Goes, RowsCalm, Placed, Provisioned, Building, Reclaiming, Att
  <2>8. QED
    BY <1>1, <2>1, <2>7, StillForward DEF Goes
<1>3. QED
  BY <1>1, <1>2, RefusedForward DEF StatusRead

\* Whoever is about to write the same attempt still may.
LEMMA WrittenBeside ==
    ASSUME TypeOK, AccountInv, ForwardInv, OneConnection,
           NEW h \in Handlers, NEW g \in Handlers \ {h},
           call[h].at = "writeStatus", call[g].at = "writeStatus", Att(g) = Att(h)
    PROVE  call[h].to \in From(call[g].to)
<1>1. /\ Att(h) \in Attempts /\ status[Att(h)] \in From(call[h].to)
      /\ status[Att(h)] \in From(call[g].to)
  BY WriterFacts
<1>2. ~(call[h].op = "open" /\ call[g].op = "open")
  BY <1>1 DEF OneConnection
<1>3. ~(call[h].op = "provision_environment" /\ call[g].op = "provision_environment")
  BY <1>1 DEF AccountInv, Ledger, SoleProvisioning, Provisioning
<1>4. /\ call[h].to \in {"environment_provisioning", "environment_ready", "provision_failed"}
            <=> call[h].op = "provision_environment"
      /\ call[g].to \in {"environment_provisioning", "environment_ready", "provision_failed"}
            <=> call[g].op = "provision_environment"
      /\ call[h].to \in {"terminal_opened", "running"} <=> call[h].op = "open"
      /\ call[g].to \in {"terminal_opened", "running"} <=> call[g].op = "open"
  BY WriterFacts
<1>5. QED
  BY <1>1, <1>2, <1>3, <1>4 DEF From, Late

LEMMA StatusWriteForward ==
    ASSUME TypeOK, SessionInv, AccountInv, ForwardInv, OneConnection,
           NEW h \in Handlers, StatusWrite(h)
    PROVE  ForwardInv'
<1>0. aged = {} /\ budget["age"] = 0 /\ Placed(h) /\ call[h].at = "writeStatus"
  BY DEF ForwardInv, StatusWrite
<1>1. CASE TransitionReturns(h, TRUE) /\ UNCHANGED attemptRows
  <2>1. RowsCalm
    BY <1>0, <1>1, NoAge DEF StatusWrite, RowsCalm, attemptRows, envRows, Cleanups
  <2>2. QED
    BY <1>0, <1>1, <2>1, RefusedForward
<1> DEFINE b == Att(h)
           s == call[h].to
<1>2. CASE /\ status' = [status EXCEPT ![b] = s]
           /\ ended' = [ended EXCEPT ![b] = @ \/ s \in EndStatuses]
           /\ TransitionReturns(h, FALSE)
           /\ Works(h)
  <2>1. /\ b \in Attempts /\ status[b] \in From(s) /\ <<call[h].op, s>> \in Asked
        /\ call[h].op \notin {"reconcile", "cleanup_environment"}
        /\ s \in {"environment_provisioning", "environment_ready",
                  "provision_failed"} => call[h].op = "provision_environment"
        /\ s # "destroyed"
    BY <1>0, WriterFacts
  <2>2. Goes(h, "returned", s, FALSE)
    BY <1>2, Progress
  <2>3. /\ UNCHANGED <<aged, owner, vm, session, queue>>
        /\ budget'["age"] = budget["age"]
    BY <1>2, NoAge DEF StatusWrite, envRows
  <2> HIDE DEF b, s
  <2>4. status'[b] = s /\ \A a \in Attempts : a # b => status'[a] = status[a]
    BY <1>2, <2>1 DEF TypeOK
  <2>5. /\ ended'[b] => ended[b] \/ s \in EndStatuses
        /\ \A a \in Attempts : a # b => ended'[a] = ended[a]
    BY <1>2, <2>1, ZenonT(30) DEF TypeOK
  <2>6. status[b] \in Dead => s \in Late
    BY <2>1 DEF From, Dead, Late
  <2>7. s \in Ordinary /\ (status[b] \in Late \/ s \in EndStatuses => s \in Late)
    BY <2>1 DEF From, Ordinary, Dead, Late, EndStatuses
  <2>8. \A a \in Attempts : status[a] \in Dead => status'[a] \in Dead
    BY <2>4, <2>6 DEF Dead
  <2>9. \A a \in Attempts : AttemptForward(a)'
    BY <2>3, <2>4, <2>5, <2>7, <2>8 DEF ForwardInv, AttemptForward, Cleanups
  <2>10. \A e \in Envs : EnvForward(e)'
    BY <2>3, <2>8 DEF ForwardInv, EnvForward
  <2>11. Placed(h)'
    <3>1. Provisioned(h)' => s = "environment_provisioning"
      BY <2>2 DEF Goes, Provisioned, Building
    <3>2. Reclaiming(h)' => s \in Dead
      BY <2>1, <2>2 DEF Goes, Reclaiming, Dead, Late
    <3>3. call'[h].op # "reconcile" /\ call'[h].at = "returned" /\ Att(h)' = b
      BY <2>1, <2>2 DEF Goes, Att, b
    <3>4. QED
      BY <2>4, <3>1, <3>2, <3>3 DEF Placed
  <2>12. ASSUME NEW g \in Handlers \ {h}
         PROVE  Placed(g)'
    <3>1. call'[g] = call[g] /\ Placed(g) /\ Att(g)' = Att(g)
      BY <2>2 DEF Goes, Others, ForwardInv, Att
    <3>2. /\ Building(g)' = Building(g) /\ Reclaiming(g)' = Reclaiming(g)
          /\ Provisioned(g)' = Provisioned(g)
      BY <3>1 DEF Building, Reclaiming, Provisioned
    <3>3. CASE Att(g) # b
      <4>1. /\ call[g].at = "writeStatus" \/ Provisioned(g) => Att(g) \in Attempts
            /\ Reclaiming(g) => Att(g) \in Attempts
        BY DEF AccountInv, Regular, Provisioned, Reclaiming
      <4>2. QED
        BY <2>3, <2>4, <3>1, <3>2, <3>3, <4>1 DEF Placed
    <3>4. CASE Att(g) = b
      <4>1. call[g].at = "writeStatus" => s \in From(call[g].to)
        BY <1>0, <3>4, WrittenBeside DEF b, s
      <4>2. ~Provisioned(g)
        <5>1. SUFFICES ASSUME Provisioned(g) PROVE FALSE
          OBVIOUS
        <5>2. status[b] = "environment_provisioning"
          BY <3>1, <3>4, <5>1 DEF Placed
        <5>3. call[h].op = "provision_environment"
          BY <2>1, <5>2 DEF From, Late
        <5>4. QED
          BY <2>1, <3>4, <5>1, <5>3
             DEF b, Provisioned, AccountInv, Ledger, SoleProvisioning, Provisioning
      <4>3. Reclaiming(g) => s \in Dead
        BY <2>6, <3>1, <3>4 DEF Placed, Dead
      <4>4. QED
        BY <2>3, <2>4, <3>1, <3>2, <3>4, <4>1, <4>2, <4>3 DEF Placed
    <3>5. QED
      BY <3>3, <3>4
  <2>13. QED
    BY <1>0, <2>3, <2>9, <2>10, <2>11, <2>12 DEF ForwardInv
<1>3. QED
  BY <1>1, <1>2 DEF StatusWrite

-----------------------------------------------------------------------------
(* New attempts, new handlers, jobs and crashes                            *)

LEMMA CreateForward ==
    ASSUME TypeOK, SessionInv, AccountInv, ForwardInv, NEW h \in Handlers, RequestCreate(h)
    PROVE  ForwardInv'
<1> DEFINE b == Att(h)
<1>0. aged = {} /\ budget["age"] = 0
  BY DEF ForwardInv
<1>1. Others(h) /\ Placed(h)'
  BY PlainMove DEF RequestCreate, At, PlainOps, PlainAt, Points
<1>2. CASE UNCHANGED status
  <2>1. RowsCalm
    BY <1>0, <1>2, NoAge DEF RequestCreate, RowsCalm, envRows, Cleanups
  <2>2. QED
    BY <1>1, <2>1, StillForward
<1>3. CASE status' = [status EXCEPT ![b] = "attempt_requested"]
  <2>1. b \in Attempts /\ Requesting(h, b)
    BY DEF RequestCreate, At, AccountInv, Regular, Requesting
  <2>2. status[b] = None /\ \A g \in Handlers : Att(g) = b => g = h
    BY <2>1 DEF RequestCreate, At, AccountInv, Ledger, SoleRequest
  <2> HIDE DEF b
  <2>3. status'[b] = "attempt_requested" /\ \A a \in Attempts : a # b => status'[a] = status[a]
    BY <1>3, <2>1 DEF TypeOK
  <2>4. UNCHANGED <<ended, aged, owner, vm, session, queue>> /\ budget'["age"] = 0
    BY <1>0, NoAge DEF RequestCreate, envRows
  <2>5. \A a \in Attempts : AttemptForward(a)'
    BY <2>2, <2>3, <2>4
       DEF ForwardInv, AttemptForward, Cleanups, Ordinary, Dead, Late, None
  <2>6. \A e \in Envs : EnvForward(e)'
    BY <2>2, <2>3, <2>4 DEF ForwardInv, EnvForward, Dead, Late, None
  <2>7. ASSUME NEW g \in Handlers \ {h}
        PROVE  Placed(g)'
    <3>1. call'[g] = call[g] /\ Placed(g) /\ Att(g)' = Att(g) /\ Att(g) # b
      BY <1>1, <2>2 DEF Others, ForwardInv, Att
    <3>2. /\ Building(g)' = Building(g) /\ Reclaiming(g)' = Reclaiming(g)
          /\ Provisioned(g)' = Provisioned(g)
      BY <3>1 DEF Building, Reclaiming, Provisioned
    <3>3. call[g].op # "idle" => Att(g) \in Attempts /\ status'[Att(g)] = status[Att(g)]
      BY <2>3, <3>1 DEF AccountInv, Regular
    <3>4. call[g].op = "idle" => call[g].at = "idle" /\ ~Reclaiming(g) /\ ~Provisioned(g)
      BY DEF AccountInv, Regular, Reclaiming, Provisioned
    <3>5. QED
      BY <2>4, <3>1, <3>2, <3>3, <3>4 DEF Placed
  <2>8. QED
    BY <1>0, <1>1, <2>4, <2>5, <2>6, <2>7 DEF ForwardInv
<1>4. QED
  BY <1>2, <1>3 DEF RequestCreate

LEMMA RequestsForward ==
    ASSUME TypeOK, SessionInv, AccountInv, ForwardInv, NEW h \in Requests
    PROVE  /\ \A a \in Attempts : RequestStart(h, a) => ForwardInv'
           /\ \A a \in Attempts : SubmitStart(h, a) => ForwardInv'
           /\ \A e \in Envs : OpenStart(h, e) => ForwardInv'
<1> USE DEF rows, attemptRows, envRows, Cleanups
<1>0. h \in Handlers /\ aged = {} /\ budget["age"] = 0
  BY DEF Handlers, ForwardInv
<1>1. ASSUME NEW a \in Attempts, RequestStart(h, a) \/ SubmitStart(h, a)
      PROVE  ForwardInv'
  <2>1. \/ Starts(h, "request", a, "decrement", None)
        \/ Starts(h, "submit", a, "readStatus", "submitted")
    BY <1>0, <1>1, Progress DEF RequestStart, SubmitStart
  <2>2. RowsCalm
    BY <1>0, <1>1 DEF RequestStart, SubmitStart, RowsCalm
  <2>3. Placed(h)'
    BY <2>1, PlainPlaced DEF Starts, PlainOps, PlainAt, Points
  <2>4. QED
    BY <1>0, <2>1, <2>2, <2>3, StillForward DEF Starts
<1>2. ASSUME NEW e \in Envs, OpenStart(h, e)
      PROVE  ForwardInv'
  <2>1. Starts(h, "open", owner[e], "admit", None) /\ call'[h].env = e
    BY <1>0, <1>2, Progress, Holds DEF OpenStart
  <2>2. RowsCalm
    BY <1>0, <1>2 DEF OpenStart, RowsCalm
  <2>3. session'[e] # None
    BY <1>2 DEF OpenStart, None
  <2>4. Placed(h)'
    BY <2>1, <2>3 DEF Starts, Placed, Provisioned, Reclaiming
  <2>5. QED
    BY <1>0, <2>1, <2>2, <2>4, StillForward DEF Starts
<1>3. QED
  BY <1>1, <1>2

LEMMA StartJobForward ==
    ASSUME TypeOK, SessionInv, AccountInv, ForwardInv, NEW w \in Workers,
           NEW kind \in JobKinds, NEW a \in Attempts, StartJob(w, kind, a)
    PROVE  ForwardInv'
<1>0. w \in Handlers /\ aged = {} /\ budget["age"] = 0 /\ AttemptForward(a)
  BY DEF Handlers, ForwardInv
<1>1. Starts(w, kind, a, "start", None)
  BY <1>0, Progress DEF StartJob
<1>2. \A b \in Attempts : Cleanups(b)' > 0 => Cleanups(b) > 0
  <2>1. queue' = [queue EXCEPT ![<<kind, a>>] = @ - 1] /\ queue[<<kind, a>>] > 0
    BY DEF StartJob
  <2>2. QED
    BY <2>1, BoundsAssumption DEF TypeOK, Cleanups, JobKinds
<1>3. RowsCalm
  BY <1>0, <1>2 DEF StartJob, RowsCalm, attemptRows, envRows
<1>4. kind = "cleanup_environment" => status[a] \in Dead
  BY <1>0 DEF StartJob, AttemptForward, Cleanups
<1>5. Placed(w)'
  BY <1>1, <1>3, <1>4
     DEF Starts, RowsCalm, Placed, Provisioned, Building, Reclaiming, JobKinds, Att
<1>6. QED
  BY <1>0, <1>1, <1>3, <1>5, StillForward DEF Starts

LEMMA RiverForward ==
    ASSUME TypeOK, SessionInv, AccountInv, ForwardInv, NEW h \in Handlers,
           CompleteJob(h) \/ RetryJob(h) \/ DiscardJob(h)
    PROVE  ForwardInv'
<1>0. aged = {} /\ budget["age"] = 0 /\ Placed(h)
  BY DEF ForwardInv
<1>1. Stops(h) /\ Placed(h)'
  BY Progress, PlainPlaced DEF CompleteJob, RetryJob, DiscardJob
<1>2. call[h].op = "cleanup_environment" => status[Att(h)] \in Dead
  BY <1>0 DEF Placed, Reclaiming
<1>3. RowsCalm
  BY <1>0, <1>2, NoAge, EnqueuesOnly
     DEF CompleteJob, RetryJob, DiscardJob, RowsCalm, BudgetKinds, JobKinds, Cleanups,
         rows, attemptRows, envRows
<1>4. QED
  BY <1>1, <1>3, StillForward DEF Stops

LEMMA CancelForward ==
    ASSUME TypeOK, SessionInv, AccountInv, ForwardInv, NEW h \in Handlers, Cancel(h)
    PROVE  ForwardInv'
<1>0. aged = {} /\ budget["age"] = 0 /\ Placed(h)
  BY DEF ForwardInv
<1>1. Goes(h, call[h].at, call[h].to, call[h].err) /\ call'[h].env = call[h].env
  BY Progress, Holds DEF Cancel
<1>2. UNCHANGED rows /\ budget'["age"] = budget["age"]
  BY NoAge DEF Cancel, BudgetKinds
<1>3. RowsCalm
  BY <1>0, <1>2 DEF RowsCalm, rows, attemptRows, envRows, Cleanups
<1>4. Placed(h)'
  <2>1. /\ Building(h)' = Building(h) /\ Reclaiming(h)' = Reclaiming(h)
        /\ Provisioned(h)' = Provisioned(h) /\ Att(h)' = Att(h)
    BY <1>1 DEF Goes, Building, Reclaiming, Provisioned, Att
  <2>2. QED
    BY <1>0, <1>1, <1>2, <2>1 DEF Goes, Placed, rows, attemptRows, envRows
<1>5. QED
  BY <1>1, <1>3, <1>4, StillForward DEF Goes

LEMMA CrashForward ==
    ASSUME TypeOK, SessionInv, AccountInv, ForwardInv, Crash
    PROVE  ForwardInv'
<1>0. aged = {} /\ budget["age"] = 0
  BY DEF ForwardInv
<1>1. \A a \in Attempts : Cleanups(a)' > 0 => Cleanups(a) > 0 \/ status[a] \in Dead
  <2> SUFFICES ASSUME NEW a \in Attempts, Cleanups(a)' > 0, ~(Cleanups(a) > 0)
               PROVE  status[a] \in Dead
    OBVIOUS
  <2> DEFINE R == Running("cleanup_environment", a)
  <2>1. Cleanups(a)' \in Nat /\ Cleanups(a)' <= Cleanups(a) + Cardinality(R)
    BY CrashJobs DEF Cleanups, JobKinds
  <2>2. Cleanups(a) = 0
    BY BoundsAssumption DEF TypeOK, Cleanups, JobKinds
  <2>3. R # {}
    BY <2>1, <2>2, FS_EmptySet
  <2>4. PICK w \in Handlers : call[w].op = "cleanup_environment" /\ Att(w) = a
    BY <2>3 DEF Running, Handlers
  <2>5. QED
    BY <2>4 DEF ForwardInv, Placed, Reclaiming
<1>2. RowsCalm
  BY <1>0, <1>1, NoAge DEF Crash, RowsCalm, BudgetKinds, attemptRows, envRows
<1>3. \A h \in Handlers : Placed(h)'
  BY DEF Crash, Idle, Invocation, Placed, Provisioned, Reclaiming
<1>4. QED
  BY <1>2, <1>3, CalmRows DEF ForwardInv

\* A step that changes neither handlers nor what they rely on.
LEMMA UntouchedForward ==
    ASSUME SessionInv, AccountInv, ForwardInv, RowsCalm, call' = call
    PROVE  ForwardInv'
BY CalmRows, CalmPlaced DEF ForwardInv

LEMMA PassageForward ==
    ASSUME TypeOK, SessionInv, AccountInv, ForwardInv, NEW a \in Attempts, Passage(a)
    PROVE  ForwardInv'
<1>0. aged = {} /\ budget["age"] = 0
  BY DEF ForwardInv
<1>1. ExamTimer(a)
  BY <1>0 DEF Passage, Age, Spend
<1>2. RowsCalm
  BY <1>0, <1>1, NoAge, EnqueuesOnly
     DEF ExamTimer, RowsCalm, BudgetKinds, JobKinds, Cleanups, attemptRows, envRows
<1>3. QED
  BY <1>1, <1>2, UntouchedForward DEF ExamTimer

-----------------------------------------------------------------------------
(* Every step together                                                     *)

LEMMA ForwardInit == Budget["age"] = 0 /\ Init => ForwardInv
BY NoneAssumption
   DEF Init, PlatformInit, Idle, Invocation, ForwardInv, AttemptForward, EnvForward, Cleanups,
       JobKinds, Ordinary, Placed, Provisioned, Reclaiming, None

LEMMA StepForward ==
    ASSUME TypeOK, SessionInv, AccountInv, ForwardInv, OneConnection,
           NEW h \in Handlers, Step(h)
    PROVE  ForwardInv'
<1>1. CASE AttemptStep(h)
  BY <1>1, PlainForward, CreateForward DEF AttemptStep
<1>2. CASE OrchestratorStep(h)
  BY <1>2, ProvisionForward, CleanupForward DEF OrchestratorStep
<1>3. CASE AdminStep(h)
  BY <1>3
     DEF AdminStep, RetryProvisionTransitioned, RetryProvisionEnqueue, At, Returned,
         AccountInv, Regular
<1>4. QED
  BY <1>1, <1>2, <1>3, StatusReadForward, StatusWriteForward, TerminalForward,
     GradingForward, RiverForward, ReconcilerForward DEF Step

LEMMA ForwardNext ==
    TypeOK /\ SessionInv /\ AccountInv /\ ForwardInv /\ OneConnection /\ [Next]_vars
        => ForwardInv'
<1> SUFFICES ASSUME TypeOK, SessionInv, AccountInv, ForwardInv, OneConnection, [Next]_vars
             PROVE  ForwardInv'
  OBVIOUS
<1>1. CASE Arrival
  <2>1. ~AdminRequests
    BY DEF AccountInv, AdminRequests, RetryProvisionStart, RetryGrade, ForceDestroy, Spend
  <2>2. QED
    BY <1>1, <2>1, RequestsForward DEF Arrival, AttemptRequests, TerminalRequests
<1>2. CASE Disturbance
  BY <1>2, CancelForward, RiverForward, CrashForward DEF Disturbance, Handlers
<1>3. ASSUME NEW kind \in JobKinds, NEW a \in Attempts, FetchJob(kind, a)
      PROVE  ForwardInv'
  BY <1>3, StartJobForward DEF FetchJob
<1>4. CASE UNCHANGED vars
  <2>1. RowsCalm /\ call' = call
    BY <1>4 DEF vars, rows, attemptRows, envRows, RowsCalm, Cleanups, ForwardInv
  <2>2. QED
    BY <2>1, UntouchedForward
<1>5. QED
  BY <1>1, <1>2, <1>3, <1>4, StepForward, ReconcilerForward, PassageForward DEF Next

LEMMA ForwardCorrect ==
    ASSUME Budget["admin"] = 0, Budget["age"] = 0
    PROVE  Spec /\ []OneConnection => [](TypeOK /\ SessionInv /\ AccountInv /\ ForwardInv)
<1>1. Init => TypeOK /\ SessionInv /\ AccountInv /\ ForwardInv
  BY TypeInit, SessionInit, AccountInit, ForwardInit
<1>2. TypeOK /\ SessionInv /\ AccountInv /\ ForwardInv /\ OneConnection /\ [Next]_vars
        => (TypeOK /\ SessionInv /\ AccountInv /\ ForwardInv)'
  BY TypeNext, SessionNext, AccountNext, ForwardNext
<1>3. QED
  BY <1>1, <1>2, PTL DEF Spec

\* No cleanup takes the VMs behind the sessions of its attempt as long as the
\* attempt can be opened or used: a cleanup job is enqueued for it, and goes on
\* destroying, only once it is over or its provisioning failed, and it does not
\* come back from there.  (A second cleanup of another attempt may reach them; then
\* they are lost.)  What is assumed: no administrator intervenes, provisioning is
\* not taken for stale, and no student opens one fresh terminal twice at once.
THEOREM MachinesStay ==
    ASSUME Budget["admin"] = 0, Budget["age"] = 0
    PROVE  Spec /\ []OneConnection => []EnvironmentUpWhileActive
<1>1. SessionInv /\ TypeOK /\ ForwardInv => EnvironmentUpWhileActive
  <2> SUFFICES ASSUME SessionInv, TypeOK, ForwardInv, NEW a \in Attempts, NEW e \in Envs,
                      status[a] \in ActiveStatuses, owner[e] = a
               PROVE  vm[e] \in {"up", "lost"}
    BY DEF EnvironmentUpWhileActive
  <2>1. vm[e] # None
    BY NoneAssumption DEF SessionInv, RowsLinked
  <2>2. vm[e] # "gone"
    BY DEF ForwardInv, EnvForward, ActiveStatuses, Dead, Late
  <2>3. QED
    BY <2>1, <2>2 DEF TypeOK
<1>2. QED
  BY <1>1, ForwardCorrect, PTL

\* What a step does to the status of an attempt.
LEMMA StatusSteps ==
    ASSUME TypeOK, AccountInv, ForwardInv, [Next]_vars, NEW a \in Attempts,
           status'[a] # status[a]
    PROVE  \/ \E h \in Handlers :
                /\ RequestCreate(h) /\ Att(h) = a
                /\ status[a] = None /\ status'[a] = "attempt_requested"
           \/ \E h \in Handlers :
                /\ StatusWrite(h) /\ Att(h) = a /\ call[h].at = "writeStatus"
                /\ status'[a] = call[h].to
<1>1. CASE \E h \in Handlers : StatusWrite(h)
  <2>1. PICK h \in Handlers : StatusWrite(h)
    BY <1>1
  <2>2. status' = [status EXCEPT ![Att(h)] = call[h].to]
    BY <2>1 DEF StatusWrite, attemptRows
  <2>3. Att(h) = a /\ status'[a] = call[h].to
    BY <2>2 DEF TypeOK
  <2>4. QED
    BY <2>1, <2>3 DEF StatusWrite
<1>2. CASE \E h \in Handlers : RequestCreate(h)
  <2>1. PICK h \in Handlers : RequestCreate(h)
    BY <1>2
  <2>2. status' = [status EXCEPT ![Att(h)] = "attempt_requested"]
    BY <2>1 DEF RequestCreate
  <2>3. Att(h) = a /\ status'[a] = "attempt_requested"
    BY <2>2 DEF TypeOK
  <2>4. status[a] = None
    BY <2>1, <2>3 DEF RequestCreate, At, AccountInv, Ledger, SoleRequest, Requesting
  <2>5. QED
    BY <2>1, <2>3, <2>4
<1>3. ASSUME NEW h \in Handlers, Step(h), ~StatusWrite(h), ~RequestCreate(h)
      PROVE  UNCHANGED status
  <2> USE DEF rows, attemptRows
  <2>1. CASE AttemptStep(h)
    BY <1>3, <2>1
       DEF AttemptStep, RequestDecrement, RequestEnqueue, RequestRestore,
           SubmitTransitioned, SubmitEnqueue, ExpireStart, ExpireTransitioned, ExpireEnqueue
  <2>2. CASE OrchestratorStep(h)
    <3>1. CASE \/ ProvisionStart(h) \/ ProvisionBuild(h) \/ ProvisionRecord(h)
               \/ ProvisionConfigure(h) \/ ProvisionSession(h) \/ ProvisionTransitioned(h)
      BY <3>1
         DEF ProvisionStart, ProvisionBuild, ProvisionRecord, ProvisionConfigure,
             ProvisionSession, ProvisionTransitioned
    <3>2. CASE \/ ProvisionFailureRecorded(h) \/ ProvisionFailureEnqueue(h)
               \/ RestoreAttemptCount(h)
      BY <3>2
         DEF ProvisionFailureRecorded, ProvisionFailureEnqueue, RestoreAttemptCount
    <3>3. CASE \/ CleanupStart(h) \/ CleanupDestroying(h) \/ CleanupDestroy(h)
               \/ CleanupMarkFailed(h) \/ CleanupDestroyed(h) \/ CleanupTransitioned(h)
      BY <3>3
         DEF CleanupStart, CleanupDestroying, CleanupDestroy, CleanupMarkFailed,
             CleanupDestroyed, CleanupTransitioned
    <3>4. QED
      BY <2>2, <3>1, <3>2, <3>3 DEF OrchestratorStep
  <2>3. CASE GradingStep(h)
    BY <2>3
       DEF GradingStep, GradeStart, GradeTransitioned, GradeLoad, GradeChecks, GradeSave,
           GradeScored, GradeEnqueue
  <2>4. CASE TerminalStep(h) \/ AdminStep(h) \/ ReconcileStep
    BY <2>4
       DEF TerminalStep, OpenAdmit, OpenStamp, OpenTransitioned, AdminStep,
           RetryProvisionTransitioned, RetryProvisionEnqueue, ReconcileStep,
           ReconcileTransitioned, ReconcileEnqueue
  <2>5. QED
    BY <1>3, <2>1, <2>2, <2>3, <2>4 DEF Step, StatusRead, CompleteJob, RetryJob
<1>4. CASE \/ \E kind \in JobKinds, b \in Attempts : FetchJob(kind, b)
           \/ \E b \in Attempts : Reconcile(b) \/ Passage(b)
           \/ Arrival \/ Disturbance \/ UNCHANGED vars
  BY <1>4
     DEF FetchJob, StartJob, Reconcile, ReconcileStale, ReconcileTerminal, Passage, Age,
         ExamTimer, Arrival, AttemptRequests, RequestStart, SubmitStart, TerminalRequests,
         OpenStart, AdminRequests, RetryProvisionStart, RetryGrade, ForceDestroy,
         Disturbance, Cancel, DiscardJob, Crash, vars, rows, attemptRows
<1>5. QED
  BY <1>1, <1>2, <1>3, <1>4 DEF Next

\* An attempt that ended stays ended: whatever stale jobs are delivered and
\* whatever status a handler read long ago, the statuses written after the end
\* are those of an attempt that is over.  The assumptions are those above.
THEOREM EndedStaysEnded ==
    ASSUME Budget["admin"] = 0, Budget["age"] = 0
    PROVE  Spec /\ []OneConnection => NoReturnAfterEnd
<1>1. TypeOK /\ AccountInv /\ ForwardInv /\ [Next]_vars =>
        \A a \in Attempts : ended[a] /\ status'[a] # status[a] =>
            status'[a] \in {"submitted", "expired", "grading", "scored"}
  <2> SUFFICES ASSUME TypeOK, AccountInv, ForwardInv, [Next]_vars, NEW a \in Attempts,
                      ended[a], status'[a] # status[a]
               PROVE  status'[a] \in Late
    BY DEF Late
  <2>1. status[a] \in Late
    BY DEF ForwardInv, AttemptForward
  <2>2. PICK h \in Handlers : /\ Att(h) = a /\ call[h].at = "writeStatus"
                              /\ status'[a] = call[h].to
    BY <2>1, StatusSteps DEF Late, None
  <2>3. status[a] \in From(status'[a])
    BY <2>2, WriterFacts
  <2>4. QED
    BY <2>1, <2>3 DEF From, Late
<1>2. QED
  BY <1>1, ForwardCorrect, PTL DEF Spec, NoReturnAfterEnd
=============================================================================
