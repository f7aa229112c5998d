--------------------------- MODULE AccountProofs ---------------------------
(***************************************************************************)
(* A purchase never yields more usable attempts than were bought, for      *)
(* every value of the constants, as long as no administrator intervenes.   *)
(*                                                                         *)
(* NoOverbooking counts the attempts that were given, and is not           *)
(* inductive: between the decrement and the hand-out an attempt is paid    *)
(* for without being counted.  Balance counts the Charged attempts, all    *)
(* those that are not Free: an attempt is free while its count was not     *)
(* taken yet, or was given back or lost and nothing can hand it out any    *)
(* more.  That a refund leaves the attempt free needs that one job         *)
(* provisions it at a time and what that job knows between its statements: *)
(* Ledger.                                                                 *)
(***************************************************************************)
EXTENDS LifecycleProofs

-----------------------------------------------------------------------------
(* What the helpers of Platform make of a handler                          *)

Others(h) == \A g \in Handlers \ {h} : call'[g] = call[g]

\* h goes on with the same operation at p.
Goes(h, p, s, failed) ==
    /\ Others(h)
    /\ call'[h].op = call[h].op /\ call'[h].attempt = call[h].attempt
    /\ call'[h].at = p /\ call'[h].to = s /\ call'[h].err = failed

Stops(h) ==
    /\ Others(h)
    /\ call'[h].op = "idle" /\ call'[h].attempt = None
    /\ call'[h].at = "idle" /\ call'[h].to = None /\ call'[h].err = FALSE

\* An idle h starts an operation on an attempt.
Starts(h, op, a, p, s) ==
    /\ Others(h)
    /\ call[h].op = "idle"
    /\ call'[h].op = op /\ call'[h].attempt = a
    /\ call'[h].at = p /\ call'[h].to = s /\ call'[h].err = FALSE

LEMMA Became ==
    ASSUME TypeOK, NEW h \in Handlers, NEW i, Become(h, i)
    PROVE  call'[h] = i /\ Others(h)
BY DEF Become, TypeOK, Others

LEMMA Progress ==
    ASSUME TypeOK, NEW h \in Handlers
    PROVE  /\ Return(h) => Stops(h)
           /\ \A p : Goto(h, p) => Goes(h, p, None, FALSE)
           /\ \A p, e : GotoWith(h, p, e) => Goes(h, p, call[h].to, call[h].err)
           /\ \A s : CallTransition(h, s) => Goes(h, "readStatus", s, FALSE)
           /\ \A b : TransitionReturns(h, b) => Goes(h, "returned", call[h].to, b)
           /\ Become(h, [call[h] EXCEPT !.at = "writeStatus"])
                => Goes(h, "writeStatus", call[h].to, call[h].err)
           /\ \A r : Found(h, r) => Goes(h, "save", call[h].to, call[h].err)
           /\ Become(h, [call[h] EXCEPT !.live = FALSE])
                => Goes(h, call[h].at, call[h].to, call[h].err)
           /\ \A op, a, e, p : Begin(h, Invocation(op, a, e, p))
                => Starts(h, op, a, p, None)
           /\ \A op, a, e, p, s :
                Begin(h, [Invocation(op, a, e, p) EXCEPT !.to = s])
                => Starts(h, op, a, p, s)
<1> DEFINE d == call[h]
<1>0. d \in Invocations
  BY DEF TypeOK
<1> HIDE DEF d
<1>1. Return(h) => Stops(h)
  BY Became DEF Return, Stops, Idle, Invocation
<1>2. \A p : Goto(h, p) => Goes(h, p, None, FALSE)
  <2> TAKE p
  <2> DEFINE c == [d EXCEPT !.at = p, !.to = None, !.err = FALSE]
  <2>1. c.op = d.op /\ c.attempt = d.attempt /\ c.at = p /\ c.to = None /\ c.err = FALSE
    BY <1>0 DEF Invocations
  <2>2. Goto(h, p) => Become(h, c)
    BY DEF Goto, d
  <2> HIDE DEF c
  <2>3. QED
    BY <2>1, <2>2, Became DEF Goes, d
<1>3. \A p, e : GotoWith(h, p, e) => Goes(h, p, d.to, d.err)
  <2> TAKE p, e
  <2> DEFINE c == [d EXCEPT !.at = p, !.env = e]
  <2>1. /\ c.op = d.op /\ c.attempt = d.attempt
        /\ c.at = p /\ c.to = d.to /\ c.err = d.err
    BY <1>0 DEF Invocations
  <2>2. GotoWith(h, p, e) => Become(h, c)
    BY DEF GotoWith, d
  <2> HIDE DEF c
  <2>3. QED
    BY <2>1, <2>2, Became DEF Goes, d
<1>4. \A s : CallTransition(h, s) => Goes(h, "readStatus", s, FALSE)
  <2> TAKE s
  <2> DEFINE c == [d EXCEPT !.at = "readStatus", !.to = s, !.err = FALSE]
  <2>1. /\ c.op = d.op /\ c.attempt = d.attempt
        /\ c.at = "readStatus" /\ c.to = s /\ c.err = FALSE
    BY <1>0 DEF Invocations
  <2>2. CallTransition(h, s) => Become(h, c)
    BY DEF CallTransition, d
  <2> HIDE DEF c
  <2>3. QED
    BY <2>1, <2>2, Became DEF Goes, d
<1>5. \A b : TransitionReturns(h, b) => Goes(h, "returned", d.to, b)
  <2> TAKE b
  <2> DEFINE c == [d EXCEPT !.at = "returned", !.err = b]
  <2>1. /\ c.op = d.op /\ c.attempt = d.attempt
        /\ c.at = "returned" /\ c.to = d.to /\ c.err = b
    BY <1>0 DEF Invocations
  <2>2. TransitionReturns(h, b) => Become(h, c)
    BY DEF TransitionReturns, d
  <2> HIDE DEF c
  <2>3. QED
    BY <2>1, <2>2, Became DEF Goes, d
<1>7. \A r : Found(h, r) => Goes(h, "save", d.to, d.err)
  <2> TAKE r
  <2> DEFINE c == [d EXCEPT !.at = "save", !.result = r]
  <2>1. /\ c.op = d.op /\ c.attempt = d.attempt
        /\ c.at = "save" /\ c.to = d.to /\ c.err = d.err
    BY <1>0 DEF Invocations
  <2>2. Found(h, r) => Become(h, c)
    BY DEF Found, d
  <2> HIDE DEF c
  <2>3. QED
    BY <2>1, <2>2, Became DEF Goes, d
<1>6. Become(h, [d EXCEPT !.at = "writeStatus"]) => Goes(h, "writeStatus", d.to, d.err)
  <2> DEFINE c == [d EXCEPT !.at = "writeStatus"]
  <2>1. /\ c.op = d.op /\ c.attempt = d.attempt
        /\ c.at = "writeStatus" /\ c.to = d.to /\ c.err = d.err
    BY <1>0 DEF Invocations
  <2>2. Become(h, [d EXCEPT !.at = "writeStatus"]) => Become(h, c)
    BY DEF d
  <2> HIDE DEF c
  <2>3. QED
    BY <2>1, <2>2, Became DEF Goes, d
<1>8. Become(h, [d EXCEPT !.live = FALSE]) => Goes(h, d.at, d.to, d.err)
  <2> DEFINE c == [d EXCEPT !.live = FALSE]
  <2>1. /\ c.op = d.op /\ c.attempt = d.attempt
        /\ c.at = d.at /\ c.to = d.to /\ c.err = d.err
    BY <1>0 DEF Invocations
  <2>2. Become(h, [d EXCEPT !.live = FALSE]) => Become(h, c)
    BY DEF d
  <2> HIDE DEF c
  <2>3. QED
    BY <2>1, <2>2, Became DEF Goes, d
<1>9. \A op, a, e, p : Begin(h, Invocation(op, a, e, p))
        => Starts(h, op, a, p, None)
  BY Became DEF Begin, IsIdle, Starts, Invocation
<1>10. \A op, a, e, p, s : Begin(h, [Invocation(op, a, e, p) EXCEPT !.to = s])
        => Starts(h, op, a, p, s)
  BY Became DEF Begin, IsIdle, Starts, Invocation
<1>11. QED
  BY <1>1, <1>2, <1>3, <1>4, <1>5, <1>6, <1>7, <1>8, <1>9, <1>10 DEF d

-----------------------------------------------------------------------------
(* The inductive invariant                                                 *)

Requesting(h, a) == call[h].op = "request" /\ Att(h) = a
Provisioning(h, a) == call[h].op = "provision_environment" /\ Att(h) = a
Jobs(a) == queue[<<"provision_environment", a>>]

\* The transitions that each operation asks for, as no administrator retries.
Asked ==
         {"provision_environment"} \X {"environment_provisioning", "environment_ready",
                                       "provision_failed"}
    \cup {"cleanup_environment"} \X {"destroyed"}
    \cup {"open"} \X {"terminal_opened", "running"}
    \cup {"submit"} \X {"submitted"}
    \cup {"expire_attempt"} \X {"expired"}
    \cup {"grade_attempt"} \X {"grading", "scored"}
    \cup {"reconcile"} \X {"provision_failed"}

Regular(h) ==
    /\ call[h].at \in {"readStatus", "writeStatus", "returned"} =>
            <<call[h].op, call[h].to>> \in Asked
    /\ call[h].op # "retryProvision"
    /\ IF call[h].op = "idle" THEN Att(h) = None /\ call[h].at = "idle"
                               ELSE Att(h) \in Attempts

\* Before provisioning starts, only the request and the provisioning job are
\* concerned with an attempt.
Fresh(a) ==
    /\ status[a] \in {None, "attempt_requested"} =>
        /\ \A kind \in JobKinds \ {"provision_environment"} : queue[<<kind, a>>] = 0
        /\ \A h \in Handlers : Att(h) = a => Requesting(h, a) \/ Provisioning(h, a)
        /\ \A e \in Envs : owner[e] # a
    /\ status[a] = None => Jobs(a) = 0 /\ \A h \in Handlers : ~Provisioning(h, a)

\* The provisioning job of an attempt waits, runs, or is over: never two.
SoleProvisioning(a) ==
    /\ Jobs(a) <= 1
    /\ \A g, h \in Handlers : Provisioning(g, a) /\ Provisioning(h, a) => g = h
    /\ Jobs(a) > 0 => \A h \in Handlers : ~Provisioning(h, a)

\* It waits only when the request is over.
SoleRequest(a) ==
    \A h \in Handlers : Requesting(h, a) =>
        /\ call[h].at \in {"decrement", "create", "enqueue", "restore"}
        /\ call[h].at \in {"decrement", "create"} => status[a] = None
        /\ call[h].at = "enqueue" => status[a] = "attempt_requested"
        /\ status[a] \in {None, "attempt_requested"}
        /\ Jobs(a) = 0
        /\ \A g \in Handlers : Att(g) = a => g = h

\* How far a provisioning job has come: it asks for its attempt, it builds the
\* environment, or it gives the attempt back.
Claiming(h) ==
    /\ call[h].at \in {"readStatus", "writeStatus"}
    /\ call[h].to = "environment_provisioning"

Building(h) ==
    \/ call[h].at = "returned" /\ call[h].to = "environment_provisioning" /\ ~call[h].err
    \/ call[h].at \in {"build", "record", "configure", "session"}
    \/ /\ call[h].at \in {"readStatus", "writeStatus"}
       /\ call[h].to \in {"environment_ready", "provision_failed"}

Refunding(h) ==
    \/ call[h].at = "returned" /\ call[h].to = "provision_failed" /\ ~call[h].err
    \/ call[h].at \in {"enqueue", "refund"}

NoOtherWriter(h, a) ==
    \A g \in Handlers \ {h} :
        Att(g) = a /\ call[g].at = "writeStatus" => call[g].to = "provision_failed"

\* What the job knows of its attempt then, although others may write it.
Provision(a) ==
    \A h \in Handlers : Provisioning(h, a) =>
        /\ Claiming(h) => status[a] = "attempt_requested"
        /\ Building(h) => status[a] \in {"environment_provisioning", "provision_failed"}
        /\ Refunding(h) => status[a] = "provision_failed"
        /\ Claiming(h) \/ Building(h) \/ Refunding(h) => NoOtherWriter(h, a)

\* Only the job gives out an attempt that is being provisioned.
Young(a) ==
    status[a] = "environment_provisioning" =>
        \A h \in Handlers :
            Att(h) = a /\ call[h].at = "writeStatus" =>
                call[h].to = "provision_failed" \/ Provisioning(h, a)

Ledger(a) ==
    /\ Fresh(a) /\ SoleProvisioning(a) /\ SoleRequest(a) /\ Provision(a) /\ Young(a)

\* An attempt that is not paid for: its count was not taken, or was given back
\* or lost, and nothing can hand it out.
Free(a) ==
    /\ status[a] \in {None, "attempt_requested", "provision_failed"}
    /\ \A h \in Handlers :
        /\ Requesting(h, a) => call[h].at = "decrement"
        /\ Provisioning(h, a) =>
            status[a] = "provision_failed" /\ call[h].at \in {"start", "done", "failed"}
        /\ Att(h) = a /\ call[h].at = "writeStatus" => call[h].to = "provision_failed"
    /\ status[a] = "attempt_requested" => Jobs(a) = 0

Charged == {a \in Attempts : ~Free(a)}

Balance == IsFiniteSet(Charged) /\ remaining + Cardinality(Charged) <= Allowed

AccountInv ==
    /\ budget["admin"] = 0
    /\ \A h \in Handlers : Regular(h)
    /\ \A a \in Attempts : Ledger(a)
    /\ Balance

-----------------------------------------------------------------------------
(* An attempt that a step does not touch                                   *)

Alike(h) ==
    /\ call'[h].op = call[h].op /\ call'[h].attempt = call[h].attempt
    /\ call'[h].at = call[h].at /\ call'[h].to = call[h].to /\ call'[h].err = call[h].err

SameFor(a) ==
    /\ status'[a] = status[a]
    /\ \A kind \in JobKinds : queue'[<<kind, a>>] = queue[<<kind, a>>]
    /\ \A e \in Envs : owner'[e] = a => owner[e] = a
    /\ \A h \in Handlers : call[h].attempt = a \/ call'[h].attempt = a => Alike(h)

LEMMA SameLedger ==
    ASSUME NEW a \in Attempts, SameFor(a)
    PROVE  /\ Ledger(a) => Ledger(a)'
           /\ Free(a)' <=> Free(a)
<1>0. "provision_environment" \in JobKinds
  BY DEF JobKinds
<1> USE DEF SameFor, Alike, Requesting, Provisioning, Jobs, Att
<1>1. Fresh(a) => Fresh(a)'
  BY <1>0 DEF Fresh
<1>2. SoleProvisioning(a) => SoleProvisioning(a)'
  BY <1>0 DEF SoleProvisioning
<1>3. SoleRequest(a) => SoleRequest(a)'
  BY <1>0 DEF SoleRequest
<1>4. Provision(a) => Provision(a)'
  BY DEF Provision, Claiming, Building, Refunding, NoOtherWriter
<1>5. Young(a) => Young(a)'
  BY DEF Young
<1>6. Free(a)' <=> Free(a)
  BY <1>0 DEF Free
<1>7. QED
  BY <1>1, <1>2, <1>3, <1>4, <1>5, <1>6 DEF Ledger

\* A step on attempt b alone.
OnlyOn(b) == \A a \in Attempts \ {b} : SameFor(a)

LEMMA SetByOne ==
    ASSUME NEW S, NEW T, NEW b, IsFiniteSet(S), T \ {b} = S \ {b}
    PROVE  /\ IsFiniteSet(T)
           /\ Cardinality(S) \in Nat /\ Cardinality(T) \in Nat
           /\ (b \notin S => b \notin T) => Cardinality(T) <= Cardinality(S)
           /\ b \in S /\ b \notin T => Cardinality(T) = Cardinality(S) - 1
           /\ Cardinality(T) <= Cardinality(S) + 1
<1>0. Cardinality(S) \in Nat
  BY FS_CardinalityType
<1>1. CASE T = S
  BY <1>0, <1>1
<1>2. CASE b \notin S /\ b \in T
  <2>1. T = S \cup {b}
    BY <1>2
  <2>2. IsFiniteSet(T) /\ Cardinality(T) = Cardinality(S) + 1
    BY <1>2, <2>1, FS_AddElement
  <2>3. QED
    BY <1>0, <1>2, <2>2
<1>3. CASE b \in S /\ b \notin T
  <2>1. T = S \ {b}
    BY <1>3
  <2>2. IsFiniteSet(T) /\ Cardinality(T) = Cardinality(S) - 1
    BY <1>3, <2>1, FS_RemoveElement
  <2>3. Cardinality(T) \in Nat
    BY <2>2, FS_CardinalityType
  <2>4. QED
    BY <1>0, <1>3, <2>2, <2>3
<1>4. QED
  BY <1>1, <1>2, <1>3

\* What the step does to b decides what becomes of the balance.
LEMMA ChargedByOne ==
    ASSUME NEW b \in Attempts, OnlyOn(b), IsFiniteSet(Charged)
    PROVE  /\ IsFiniteSet(Charged')
           /\ Cardinality(Charged) \in Nat /\ Cardinality(Charged') \in Nat
           /\ (Free(b) => Free(b)') => Cardinality(Charged') <= Cardinality(Charged)
           /\ ~Free(b) /\ Free(b)' => Cardinality(Charged') = Cardinality(Charged) - 1
           /\ Cardinality(Charged') <= Cardinality(Charged) + 1
<1>1. \A a \in Attempts \ {b} : a \in Charged' <=> a \in Charged
  BY SameLedger DEF OnlyOn, Charged
<1>2. (b \in Charged' <=> ~Free(b)') /\ (b \in Charged <=> ~Free(b))
  BY DEF Charged
<1>3. Charged' \ {b} = Charged \ {b}
  BY <1>1 DEF Charged
<1>4. QED
  BY <1>2, <1>3, SetByOne

\* A handler's step that touches one attempt only.
LEMMA HandlerOnlyOn ==
    ASSUME TypeOK, NEW h \in Handlers, NEW b \in Attempts,
           Others(h),
           call[h].attempt \in {b, None}, call'[h].attempt \in {b, None},
           \A a \in Attempts \ {b} :
                /\ status'[a] = status[a]
                /\ \A kind \in JobKinds : queue'[<<kind, a>>] = queue[<<kind, a>>],
           \A e \in Envs : owner'[e] \in {owner[e], b}
    PROVE  OnlyOn(b)
BY NoneAssumption DEF OnlyOn, SameFor, Alike, Others

-----------------------------------------------------------------------------
(* Putting a step together                                                 *)

LEMMA Accounted ==
    ASSUME TypeOK, TypeOK', AccountInv, NEW b \in Attempts,
           OnlyOn(b), Ledger(b)', \A h \in Handlers : Regular(h)',
           budget'["admin"] = 0,
           \/ remaining' = remaining /\ (Free(b) => Free(b)')
           \/ remaining' = remaining + 1 /\ ~Free(b) /\ Free(b)'
           \/ remaining' = remaining - 1
    PROVE  AccountInv'
<1>1. \A a \in Attempts : Ledger(a)'
  BY SameLedger DEF AccountInv, OnlyOn
<1>2. IsFiniteSet(Charged) /\ remaining + Cardinality(Charged) <= Allowed
  BY DEF AccountInv, Balance
<1>3. remaining \in Int /\ Allowed \in Int
  BY BoundsAssumption DEF TypeOK
<1>4. Balance'
  BY <1>2, <1>3, ChargedByOne DEF Balance
<1>5. QED
  BY <1>1, <1>4 DEF AccountInv

LEMMA OthersRegular ==
    ASSUME AccountInv, NEW h \in Handlers, Others(h), Regular(h)'
    PROVE  \A g \in Handlers : Regular(g)'
BY DEF AccountInv, Others, Regular, Att

\* A statement that works or fails is no intervention of an administrator.
LEMMA NoAdmin ==
    ASSUME TypeOK, NEW h
    PROVE  /\ Works(h) \/ Fails(h) => budget'["admin"] = budget["admin"]
           /\ \A kind \in BudgetKinds \ {"admin"} :
                Spend(kind) => budget'["admin"] = budget["admin"]
BY DEF TypeOK, Works, Fails, Spend, BudgetKinds

Later == {s \in AttemptStatuses : s # "attempt_requested"}

\* What a step on behalf of attempt b leaves alone.
Aside(b) ==
    /\ UNCHANGED <<remaining, status, owner>>
    /\ \A kind \in JobKinds, a \in Attempts :
            a # b \/ kind = "provision_environment" => queue'[<<kind, a>>] = queue[<<kind, a>>]
    /\ budget'["admin"] = budget["admin"]

\* A step of an operation that neither requests nor provisions attempts, other
\* than writing a status.
Neutral(h, b) ==
    /\ Others(h)
    /\ call[h].attempt \in {b, None} /\ call'[h].attempt \in {b, None}
    /\ call[h].op \notin {"request", "provision_environment"}
    /\ call'[h].op \notin {"request", "provision_environment"}
    /\ status[b] \in Later
    /\ call'[h].at = "writeStatus" =>
            \/ call'[h].to = "provision_failed"
            \/ status[b] \notin {"environment_provisioning", "provision_failed"}
    /\ Aside(b)
    /\ Regular(h)'

LEMMA NeutralKeeps ==
    ASSUME TypeOK, TypeOK', AccountInv, NEW h \in Handlers, NEW b \in Attempts,
           Neutral(h, b)
    PROVE  AccountInv'
<1> USE DEF Requesting, Provisioning, Jobs, Att, Aside
<1>0. "provision_environment" \in JobKinds
  BY DEF JobKinds
<1>1. status[b] \notin {None, "attempt_requested"} /\ status'[b] = status[b]
  BY DEF Neutral, Later, AttemptStatuses, None
<1>2. Ledger(b)
  BY DEF AccountInv
<1>3. Jobs(b)' = Jobs(b)
  BY <1>0 DEF Neutral
<1>4. Fresh(b)'
  BY <1>1 DEF Fresh
<1>5. SoleProvisioning(b)'
  BY <1>2, <1>3 DEF Ledger, SoleProvisioning, Neutral, Others
<1>6. SoleRequest(b)'
  BY <1>1, <1>2 DEF Ledger, SoleRequest, Neutral, Others
<1>7. ASSUME NEW g \in Handlers, Provisioning(g, b)'
      PROVE  g # h /\ call'[g] = call[g] /\ Provisioning(g, b)
  BY <1>7 DEF Neutral, Others
<1>8. Provision(b)'
  <2> SUFFICES ASSUME NEW g \in Handlers, Provisioning(g, b)'
               PROVE  /\ Claiming(g)' => status'[b] = "attempt_requested"
                      /\ Building(g)' => status'[b] \in {"environment_provisioning", "provision_failed"}
                      /\ Refunding(g)' => status'[b] = "provision_failed"
                      /\ (Claiming(g) \/ Building(g) \/ Refunding(g))' => NoOtherWriter(g, b)'
    BY DEF Provision
  <2>1. /\ Claiming(g)' = Claiming(g) /\ Building(g)' = Building(g)
        /\ Refunding(g)' = Refunding(g)
    BY <1>7 DEF Claiming, Building, Refunding
  <2>2. /\ Claiming(g) => status[b] = "attempt_requested"
        /\ Building(g) => status[b] \in {"environment_provisioning", "provision_failed"}
        /\ Refunding(g) => status[b] = "provision_failed"
        /\ Claiming(g) \/ Building(g) \/ Refunding(g) => NoOtherWriter(g, b)
    BY <1>2, <1>7 DEF Ledger, Provision
  <2>3. Claiming(g) \/ Building(g) \/ Refunding(g) => NoOtherWriter(g, b)'
    BY <1>1, <2>2 DEF NoOtherWriter, Neutral, Others
  <2>4. QED
    BY <1>1, <2>1, <2>2, <2>3
<1>9. Young(b)'
  BY <1>1, <1>2, <1>7 DEF Ledger, Young, Neutral, Others
<1>10. Free(b) => Free(b)'
  BY <1>1 DEF Free, Neutral, Others
<1>11. OnlyOn(b)
  BY HandlerOnlyOn DEF Neutral
<1>12. QED
  BY <1>4, <1>5, <1>6, <1>8, <1>9, <1>10, <1>11, Accounted, OthersRegular
     DEF Ledger, Neutral, AccountInv

-----------------------------------------------------------------------------
(* Steps of operations that neither request nor provision                  *)

\* What a handler in the middle of such an operation may rely on.
LEMMA NeutralStart ==
    ASSUME TypeOK, AccountInv, NEW h \in Handlers,
           call[h].op \notin {"idle", "request", "provision_environment"}
    PROVE  Att(h) \in Attempts /\ status[Att(h)] \in Later
<1>1. Att(h) \in Attempts
  BY DEF AccountInv, Regular
<1>2. Fresh(Att(h))
  BY <1>1 DEF AccountInv, Ledger
<1>3. QED
  BY <1>1, <1>2 DEF Fresh, Requesting, Provisioning, Later, TypeOK

\* The ways in which it goes on.
Onward(h) ==
    /\ Others(h)
    /\ \/ call'[h].op = "idle" /\ call'[h].attempt = None /\ call'[h].at = "idle"
       \/ call'[h].op = call[h].op /\ call'[h].attempt = call[h].attempt
    /\ call'[h].at # "writeStatus"
    /\ call'[h].at \in {"readStatus", "returned"} => <<call[h].op, call'[h].to>> \in Asked

LEMMA OnwardMoves ==
    ASSUME TypeOK, NEW h \in Handlers
    PROVE  /\ Return(h) => Onward(h)
           /\ \A p : p \notin {"readStatus", "writeStatus", "returned"} /\ Goto(h, p)
                => Onward(h)
           /\ \A p, e : p \notin {"readStatus", "writeStatus", "returned"} /\ GotoWith(h, p, e)
                => Onward(h)
           /\ \A s : <<call[h].op, s>> \in Asked /\ CallTransition(h, s) => Onward(h)
           /\ \A b : <<call[h].op, call[h].to>> \in Asked /\ TransitionReturns(h, b)
                => Onward(h)
           /\ \A r : Found(h, r) => Onward(h)
BY Progress DEF Onward, Stops, Goes

LEMMA OnwardAccount ==
    ASSUME TypeOK, TypeOK', AccountInv, NEW h \in Handlers,
           call[h].op \notin {"idle", "request", "provision_environment"},
           Onward(h), Aside(Att(h))
    PROVE  AccountInv'
<1>1. Att(h) \in Attempts /\ status[Att(h)] \in Later
  BY NeutralStart
<1>2. call[h].op # "retryProvision"
  BY DEF AccountInv, Regular
<1>3. Regular(h)'
  BY <1>1, <1>2 DEF Onward, Regular, Att, Asked
<1>4. Neutral(h, Att(h))
  BY <1>1, <1>3 DEF Neutral, Onward, Aside, Att
<1>5. QED
  BY <1>1, <1>4, NeutralKeeps

LEMMA EnqueuesOnly ==
    ASSUME TypeOK, NEW kind, NEW a, Enqueue(kind, a)
    PROVE  \A k \in JobKinds, b \in Attempts :
                k # kind \/ b # a => queue'[<<k, b>>] = queue[<<k, b>>]
BY DEF Enqueue, TypeOK

LEMMA AttemptStepAccount ==
    ASSUME TypeOK, TypeOK', AccountInv, NEW h \in Handlers,
           \/ SubmitTransitioned(h) \/ SubmitEnqueue(h)
           \/ ExpireStart(h) \/ ExpireTransitioned(h) \/ ExpireEnqueue(h)
    PROVE  AccountInv'
<1> USE NoAdmin, EnqueuesOnly DEF At, Returned, rows, attemptRows, envRows
<1>1. CASE SubmitTransitioned(h)
  <2>1. Onward(h)
    BY <1>1, OnwardMoves DEF SubmitTransitioned, Asked
  <2>2. Aside(Att(h))
    BY <1>1 DEF SubmitTransitioned, Aside
  <2>3. QED
    BY <1>1, <2>1, <2>2, OnwardAccount DEF SubmitTransitioned
<1>2. CASE SubmitEnqueue(h)
  <2>1. Onward(h)
    BY <1>2, OnwardMoves DEF SubmitEnqueue, Asked
  <2>2. Aside(Att(h))
    BY <1>2 DEF SubmitEnqueue, Aside
  <2>3. QED
    BY <1>2, <2>1, <2>2, OnwardAccount DEF SubmitEnqueue
<1>3. CASE ExpireStart(h)
  <2>1. Onward(h)
    BY <1>3, OnwardMoves DEF ExpireStart, Asked
  <2>2. Aside(Att(h))
    BY <1>3 DEF ExpireStart, Aside
  <2>3. QED
    BY <1>3, <2>1, <2>2, OnwardAccount DEF ExpireStart
<1>4. CASE ExpireTransitioned(h)
  <2>1. Onward(h)
    BY <1>4, OnwardMoves DEF ExpireTransitioned, Asked
  <2>2. Aside(Att(h))
    BY <1>4 DEF ExpireTransitioned, Aside
  <2>3. QED
    BY <1>4, <2>1, <2>2, OnwardAccount DEF ExpireTransitioned
<1>5. CASE ExpireEnqueue(h)
  <2>1. Onward(h)
    BY <1>5, OnwardMoves DEF ExpireEnqueue, Asked
  <2>2. Aside(Att(h))
    BY <1>5 DEF ExpireEnqueue, Aside
  <2>3. QED
    BY <1>5, <2>1, <2>2, OnwardAccount DEF ExpireEnqueue
<1>6. QED
  BY <1>1, <1>2, <1>3, <1>4, <1>5

LEMMA TerminalStepAccount ==
    ASSUME TypeOK, TypeOK', AccountInv, NEW h \in Handlers, TerminalStep(h)
    PROVE  AccountInv'
<1> USE NoAdmin, EnqueuesOnly DEF At, Returned, rows, attemptRows, envRows
<1>1. CASE OpenAdmit(h)
  <2>1. Onward(h)
    BY <1>1, OnwardMoves DEF OpenAdmit, Asked
  <2>2. Aside(Att(h))
    BY <1>1 DEF OpenAdmit, Aside
  <2>3. QED
    BY <1>1, <2>1, <2>2, OnwardAccount DEF OpenAdmit
<1>2. CASE OpenStamp(h)
  <2>1. Onward(h)
    BY <1>2, OnwardMoves DEF OpenStamp, Asked
  <2>2. Aside(Att(h))
    BY <1>2 DEF OpenStamp, Aside
  <2>3. QED
    BY <1>2, <2>1, <2>2, OnwardAccount DEF OpenStamp
<1>3. CASE OpenTransitioned(h)
  <2>1. Onward(h)
    BY <1>3, OnwardMoves DEF OpenTransitioned, Asked
  <2>2. Aside(Att(h))
    BY <1>3 DEF OpenTransitioned, Aside
  <2>3. QED
    BY <1>3, <2>1, <2>2, OnwardAccount DEF OpenTransitioned
<1>4. QED
  BY <1>1, <1>2, <1>3 DEF TerminalStep

LEMMA GradingStepAccount ==
    ASSUME TypeOK, TypeOK', AccountInv, NEW h \in Handlers, GradingStep(h)
    PROVE  AccountInv'
<1> USE NoAdmin, EnqueuesOnly DEF At, Returned, rows, attemptRows, envRows
<1>1. CASE GradeStart(h)
  <2>1. Onward(h)
    BY <1>1, OnwardMoves DEF GradeStart, Asked
  <2>2. Aside(Att(h))
    BY <1>1 DEF GradeStart, Aside
  <2>3. QED
    BY <1>1, <2>1, <2>2, OnwardAccount DEF GradeStart
<1>2. CASE GradeTransitioned(h)
  <2>1. Onward(h)
    BY <1>2, OnwardMoves DEF GradeTransitioned, Asked
  <2>2. Aside(Att(h))
    BY <1>2 DEF GradeTransitioned, Aside
  <2>3. QED
    BY <1>2, <2>1, <2>2, OnwardAccount DEF GradeTransitioned
<1>3. CASE GradeLoad(h)
  <2>1. Onward(h)
    BY <1>3, OnwardMoves DEF GradeLoad, Asked
  <2>2. Aside(Att(h))
    BY <1>3 DEF GradeLoad, Aside
  <2>3. QED
    BY <1>3, <2>1, <2>2, OnwardAccount DEF GradeLoad
<1>4. CASE GradeChecks(h)
  <2>1. Onward(h)
    BY <1>4, OnwardMoves DEF GradeChecks, Asked
  <2>2. Aside(Att(h))
    BY <1>4 DEF GradeChecks, Aside, BudgetKinds
  <2>3. QED
    BY <1>4, <2>1, <2>2, OnwardAccount DEF GradeChecks
<1>5. CASE GradeSave(h)
  <2>1. Onward(h)
    BY <1>5, OnwardMoves DEF GradeSave, Asked
  <2>2. Aside(Att(h))
    BY <1>5 DEF GradeSave, Aside
  <2>3. QED
    BY <1>5, <2>1, <2>2, OnwardAccount DEF GradeSave
<1>6. CASE GradeScored(h)
  <2>1. Onward(h)
    BY <1>6, OnwardMoves DEF GradeScored, Asked
  <2>2. Aside(Att(h))
    BY <1>6 DEF GradeScored, Aside
  <2>3. QED
    BY <1>6, <2>1, <2>2, OnwardAccount DEF GradeScored
<1>7. CASE GradeEnqueue(h)
  <2>1. Onward(h)
    BY <1>7, OnwardMoves DEF GradeEnqueue, Asked
  <2>2. Aside(Att(h))
    BY <1>7 DEF GradeEnqueue, Aside
  <2>3. QED
    BY <1>7, <2>1, <2>2, OnwardAccount DEF GradeEnqueue
<1>8. QED
  BY <1>1, <1>2, <1>3, <1>4, <1>5, <1>6, <1>7 DEF GradingStep

LEMMA CleanupStepAccount ==
    ASSUME TypeOK, TypeOK', AccountInv, NEW h \in Handlers,
           \/ CleanupStart(h) \/ CleanupDestroying(h) \/ CleanupDestroy(h)
           \/ CleanupMarkFailed(h) \/ CleanupDestroyed(h) \/ CleanupTransitioned(h)
    PROVE  AccountInv'
<1> USE NoAdmin, EnqueuesOnly DEF At, Returned, rows, attemptRows, envRows
<1>1. CASE CleanupStart(h)
  <2>1. Onward(h)
    BY <1>1, OnwardMoves DEF CleanupStart, Asked
  <2>2. Aside(Att(h))
    BY <1>1 DEF CleanupStart, Aside
  <2>3. QED
    BY <1>1, <2>1, <2>2, OnwardAccount DEF CleanupStart
<1>2. CASE CleanupDestroying(h)
  <2>1. Onward(h)
    BY <1>2, OnwardMoves DEF CleanupDestroying, Asked
  <2>2. Aside(Att(h))
    BY <1>2 DEF CleanupDestroying, Aside
  <2>3. QED
    BY <1>2, <2>1, <2>2, OnwardAccount DEF CleanupDestroying
<1>3. CASE CleanupDestroy(h)
  <2>1. Onward(h)
    BY <1>3, OnwardMoves DEF CleanupDestroy, Asked
  <2>2. Aside(Att(h))
    BY <1>3 DEF CleanupDestroy, Aside
  <2>3. QED
    BY <1>3, <2>1, <2>2, OnwardAccount DEF CleanupDestroy
<1>4. CASE CleanupMarkFailed(h)
  <2>1. Onward(h)
    BY <1>4, OnwardMoves DEF CleanupMarkFailed, Asked
  <2>2. Aside(Att(h))
    BY <1>4 DEF CleanupMarkFailed, Aside
  <2>3. QED
    BY <1>4, <2>1, <2>2, OnwardAccount DEF CleanupMarkFailed
<1>5. CASE CleanupDestroyed(h)
  <2>1. Onward(h)
    BY <1>5, OnwardMoves DEF CleanupDestroyed, Asked
  <2>2. Aside(Att(h))
    BY <1>5 DEF CleanupDestroyed, Aside
  <2>3. QED
    BY <1>5, <2>1, <2>2, OnwardAccount DEF CleanupDestroyed
<1>6. CASE CleanupTransitioned(h)
  <2>1. Onward(h)
    BY <1>6, OnwardMoves DEF CleanupTransitioned, Asked
  <2>2. Aside(Att(h))
    BY <1>6 DEF CleanupTransitioned, Aside
  <2>3. QED
    BY <1>6, <2>1, <2>2, OnwardAccount DEF CleanupTransitioned
<1>7. QED
  BY <1>1, <1>2, <1>3, <1>4, <1>5, <1>6

LEMMA ReconcileStepAccount ==
    ASSUME TypeOK, TypeOK', AccountInv, ReconcileStep
    PROVE  AccountInv'
<1> USE NoAdmin, EnqueuesOnly DEF At, Returned, rows, attemptRows, envRows
<1>0. Reconciler \in Handlers
  BY DEF Handlers
<1>1. CASE ReconcileTransitioned
  <2>1. Onward(Reconciler)
    BY <1>0, <1>1, OnwardMoves DEF ReconcileTransitioned, Asked
  <2>2. Aside(Att(Reconciler))
    BY <1>0, <1>1 DEF ReconcileTransitioned, Aside
  <2>3. QED
    BY <1>0, <1>1, <2>1, <2>2, OnwardAccount DEF ReconcileTransitioned
<1>2. CASE ReconcileEnqueue
  <2>1. Onward(Reconciler)
    BY <1>0, <1>2, OnwardMoves DEF ReconcileEnqueue, Asked
  <2>2. Aside(Att(Reconciler))
    BY <1>0, <1>2 DEF ReconcileEnqueue, Aside
  <2>3. QED
    BY <1>0, <1>2, <2>1, <2>2, OnwardAccount DEF ReconcileEnqueue
<1>3. QED
  BY <1>1, <1>2 DEF ReconcileStep

-----------------------------------------------------------------------------
(* The two statements of their transitions, and their beginning and end    *)

LEMMA AskedFacts ==
    ASSUME NEW h \in Handlers, AccountInv,
           call[h].at \in {"readStatus", "writeStatus", "returned"}
    PROVE  /\ <<call[h].op, call[h].to>> \in Asked
           /\ call[h].op \notin {"idle", "request", "retryProvision"}
           /\ call[h].to \in {"environment_provisioning", "environment_ready",
                              "provision_failed", "destroyed", "terminal_opened", "running",
                              "submitted", "expired", "grading", "scored"}
           /\ call[h].op # "provision_environment" =>
                call[h].to \notin {"environment_provisioning", "environment_ready"}
BY DEF AccountInv, Regular, Asked

LEMMA StatusReadAccount ==
    ASSUME TypeOK, TypeOK', AccountInv, NEW h \in Handlers, StatusRead(h),
           call[h].op # "provision_environment"
    PROVE  AccountInv'
<1>0. /\ <<call[h].op, call[h].to>> \in Asked
      /\ call[h].op \notin {"idle", "request", "provision_environment", "retryProvision"}
      /\ call[h].to \in {"provision_failed", "destroyed", "terminal_opened", "running",
                         "submitted", "expired", "grading", "scored"}
  BY AskedFacts DEF StatusRead
<1>1. CASE TransitionReturns(h, TRUE)
  <2>1. Onward(h)
    BY <1>0, <1>1, OnwardMoves
  <2>2. Aside(Att(h))
    BY NoAdmin DEF StatusRead, Aside, rows, attemptRows, envRows
  <2>3. QED
    BY <1>0, <2>1, <2>2, OnwardAccount
<1>2. CASE /\ ValidTransition(status[Att(h)], call[h].to)
           /\ Become(h, [call[h] EXCEPT !.at = "writeStatus"])
           /\ Works(h)
  <2>1. Goes(h, "writeStatus", call[h].to, call[h].err)
    BY <1>2, Progress
  <2>2. Att(h) \in Attempts /\ status[Att(h)] \in Later
    BY <1>0, NeutralStart
  <2>3. \/ call[h].to = "provision_failed"
        \/ status[Att(h)] \notin {"environment_provisioning", "provision_failed"}
    BY <1>0, <1>2 DEF ValidTransition, validTransitions
  <2>4. Aside(Att(h))
    BY <1>2, NoAdmin DEF StatusRead, Aside, rows, attemptRows, envRows
  <2>5. Regular(h)'
    BY <1>0, <2>1, <2>2 DEF Regular, Goes, Att
  <2>6. Neutral(h, Att(h))
    BY <1>0, <2>1, <2>2, <2>3, <2>4, <2>5 DEF Neutral, Goes, Att
  <2>7. QED
    BY <2>2, <2>6, NeutralKeeps
<1>3. QED
  BY <1>1, <1>2 DEF StatusRead

\* Writing a status neither gives out an attempt that is not paid for nor takes
\* it from under a provisioning job.
LEMMA WrittenAccount ==
    ASSUME TypeOK, TypeOK', AccountInv, NEW h \in Handlers, NEW b \in Attempts, NEW s,
           call[h].op \notin {"idle", "request", "provision_environment", "retryProvision"},
           <<call[h].op, s>> \in Asked,
           s \in {"provision_failed", "destroyed", "terminal_opened", "running",
                  "submitted", "expired", "grading", "scored"},
           Att(h) = b, call[h].at = "writeStatus", call[h].to = s,
           status' = [status EXCEPT ![b] = s], Goes(h, "returned", s, FALSE),
           UNCHANGED <<remaining, owner, queue>>, budget'["admin"] = budget["admin"]
    PROVE  AccountInv'
<1>1. status[b] \in Later /\ Ledger(b) /\ status[b] \notin {None, "attempt_requested"}
  BY NeutralStart DEF AccountInv, Later, AttemptStatuses, None
<1>2. \A a \in Attempts : status'[a] = IF a = b THEN s ELSE status[a]
  BY DEF TypeOK
<1>3. Regular(h)'
  BY DEF Regular, Goes, Att
<1>4. OnlyOn(b)
  BY <1>2, HandlerOnlyOn DEF Goes, Att
<1>5. ASSUME NEW g \in Handlers, Provisioning(g, b)'
      PROVE  g # h /\ call'[g] = call[g] /\ Provisioning(g, b)
  BY <1>5 DEF Goes, Others, Provisioning, Att
<1>6. Fresh(b)'
  BY <1>2 DEF Fresh, None
<1>7. SoleProvisioning(b)'
  BY <1>1, <1>5 DEF Ledger, SoleProvisioning, Jobs
<1>8. SoleRequest(b)'
  BY <1>1 DEF Ledger, SoleRequest, Requesting, Goes, Others, Att
<1>9. Provision(b)'
  <2> SUFFICES ASSUME NEW g \in Handlers, Provisioning(g, b)'
               PROVE  /\ Claiming(g)' => status'[b] = "attempt_requested"
                      /\ Building(g)' => status'[b] \in {"environment_provisioning", "provision_failed"}
                      /\ Refunding(g)' => status'[b] = "provision_failed"
                      /\ (Claiming(g) \/ Building(g) \/ Refunding(g))' => NoOtherWriter(g, b)'
    BY DEF Provision
  <2>1. /\ Claiming(g)' = Claiming(g) /\ Building(g)' = Building(g)
        /\ Refunding(g)' = Refunding(g)
    BY <1>5 DEF Claiming, Building, Refunding
  <2>2. /\ ~Claiming(g)
        /\ Building(g) \/ Refunding(g) => s = "provision_failed" /\ NoOtherWriter(g, b)
    BY <1>1, <1>5 DEF Ledger, Provision, NoOtherWriter
  <2>3. Building(g) \/ Refunding(g) => NoOtherWriter(g, b)'
    BY <2>2 DEF NoOtherWriter, Goes, Others, Att
  <2>4. QED
    BY <1>2, <2>1, <2>2, <2>3
<1>10. Young(b)'
  BY <1>2 DEF Young
<1>11. Free(b) => Free(b)'
  <2>1. SUFFICES ASSUME Free(b) PROVE Free(b)'
    OBVIOUS
  <2>2. s = "provision_failed" /\ status[b] = "provision_failed"
    BY <1>1, <2>1 DEF Free
  <2>3. QED
    BY <1>2, <1>5, <2>1, <2>2 DEF Free, Requesting, Provisioning, Goes, Others, Att
<1>12. Ledger(b)'
  BY <1>6, <1>7, <1>8, <1>9, <1>10 DEF Ledger
<1>13. QED
  BY <1>3, <1>4, <1>11, <1>12, Accounted, OthersRegular DEF Goes, AccountInv

LEMMA StatusWriteAccount ==
    ASSUME TypeOK, TypeOK', AccountInv, NEW h \in Handlers, StatusWrite(h),
           call[h].op # "provision_environment"
    PROVE  AccountInv'
<1>0. /\ <<call[h].op, call[h].to>> \in Asked
      /\ call[h].op \notin {"idle", "request", "provision_environment", "retryProvision"}
      /\ call[h].to \in {"provision_failed", "destroyed", "terminal_opened", "running",
                         "submitted", "expired", "grading", "scored"}
  BY AskedFacts DEF StatusWrite
<1>1. CASE TransitionReturns(h, TRUE) /\ UNCHANGED status
  <2>1. Onward(h)
    BY <1>0, <1>1, OnwardMoves
  <2>2. Aside(Att(h))
    BY <1>1, NoAdmin DEF StatusWrite, Aside, envRows
  <2>3. QED
    BY <1>0, <2>1, <2>2, OnwardAccount
<1>2. CASE /\ status' = [status EXCEPT ![Att(h)] = call[h].to]
           /\ TransitionReturns(h, FALSE)
           /\ Works(h)
  <2>1. Goes(h, "returned", call[h].to, FALSE)
    BY <1>2, Progress
  <2>2. UNCHANGED <<remaining, owner, queue>> /\ budget'["admin"] = budget["admin"]
    BY <1>2, NoAdmin DEF StatusWrite, envRows
  <2>3. Att(h) \in Attempts
    BY <1>0, NeutralStart
  <2>4. QED
    BY <1>0, <1>2, <2>1, <2>2, <2>3, WrittenAccount DEF StatusWrite
<1>3. QED
  BY <1>1, <1>2 DEF StatusWrite, attemptRows

\* A job that is over, is retried or given up.
LEMMA RiverAccount ==
    ASSUME TypeOK, TypeOK', AccountInv, NEW h \in Handlers,
           CompleteJob(h) \/ RetryJob(h) \/ DiscardJob(h),
           call[h].op \notin {"idle", "request", "provision_environment"}
    PROVE  AccountInv'
<1>1. Onward(h)
  BY OnwardMoves DEF CompleteJob, RetryJob, DiscardJob
<1>2. Aside(Att(h))
  BY NoAdmin, EnqueuesOnly
     DEF CompleteJob, RetryJob, DiscardJob, Aside, BudgetKinds, rows, attemptRows, envRows
<1>3. QED
  BY <1>1, <1>2, OnwardAccount

LEMMA NeutralStarts ==
    ASSUME TypeOK, TypeOK', AccountInv, NEW h \in Handlers, NEW b \in Attempts,
           Others(h), call[h].op = "idle", call'[h].attempt = b,
           call'[h].op \notin {"idle", "request", "provision_environment", "retryProvision"},
           call'[h].at \notin {"writeStatus", "returned"},
           call'[h].at = "readStatus" => <<call'[h].op, call'[h].to>> \in Asked,
           status[b] \in Later, Aside(b)
    PROVE  AccountInv'
<1>1. call[h].attempt = None
  BY DEF AccountInv, Regular, Att
<1>2. Regular(h)'
  BY DEF Regular, Att
<1>3. Neutral(h, b)
  BY <1>1, <1>2 DEF Neutral
<1>4. QED
  BY <1>3, NeutralKeeps

LEMMA RequestsAccount ==
    ASSUME TypeOK, TypeOK', AccountInv, SessionInv, NEW h \in Requests
    PROVE  /\ \A a \in Attempts : SubmitStart(h, a) => AccountInv'
           /\ \A e \in Envs : OpenStart(h, e) => AccountInv'
<1>0. h \in Handlers
  BY DEF Handlers
<1>1. ASSUME NEW a \in Attempts, SubmitStart(h, a)
      PROVE  AccountInv'
  <2>1. Starts(h, "submit", a, "readStatus", "submitted")
    BY <1>0, <1>1, Progress DEF SubmitStart
  <2>2. status[a] \in Later /\ Aside(a)
    BY <1>1 DEF SubmitStart, Later, AttemptStatuses, Aside, rows, attemptRows, envRows
  <2>3. QED
    BY <1>0, <2>1, <2>2, NeutralStarts DEF Starts, Asked
<1>2. ASSUME NEW e \in Envs, OpenStart(h, e)
      PROVE  AccountInv'
  <2>1. Starts(h, "open", owner[e], "admit", None)
    BY <1>0, <1>2, Progress DEF OpenStart
  <2>2. owner[e] \in Attempts
    BY <1>2 DEF OpenStart, SessionInv, RowsLinked, TypeOK, None
  <2>3. status[owner[e]] \in Later
    BY <2>2 DEF AccountInv, Ledger, Fresh, Later, TypeOK
  <2>4. Aside(owner[e])
    BY <1>2 DEF OpenStart, Aside, rows, attemptRows, envRows
  <2>5. QED
    BY <1>0, <2>1, <2>2, <2>3, <2>4, NeutralStarts DEF Starts
<1>3. QED
  BY <1>1, <1>2

LEMMA ReconcileAccount ==
    ASSUME TypeOK, TypeOK', AccountInv, NEW a \in Attempts, Reconcile(a)
    PROVE  AccountInv'
<1>0. Reconciler \in Handlers
  BY DEF Handlers
<1>1. /\ status[a] \in Later
      /\ Aside(a)
  BY DEF Reconcile, Aside, ReconcileStale, ReconcileTerminal, NeedsCleanup, Later,
         AttemptStatuses, rows, attemptRows, envRows
<1>2. \/ Starts(Reconciler, "reconcile", a, "readStatus", "provision_failed")
      \/ Starts(Reconciler, "reconcile", a, "enqueue", None)
  BY <1>0, Progress DEF Reconcile, ReconcileStale, ReconcileTerminal
<1>3. QED
  BY <1>0, <1>1, <1>2, NeutralStarts DEF Starts, Asked

LEMMA StartJobAccount ==
    ASSUME TypeOK, TypeOK', AccountInv, NEW w \in Workers,
           NEW kind \in JobKinds \ {"provision_environment"}, NEW a \in Attempts,
           StartJob(w, kind, a)
    PROVE  AccountInv'
<1>0. w \in Handlers
  BY DEF Handlers
<1>1. Starts(w, kind, a, "start", None)
  BY <1>0, Progress DEF StartJob
<1>2. status[a] \in Later
  <2>1. Fresh(a) /\ queue[<<kind, a>>] > 0
    BY DEF AccountInv, Ledger, StartJob
  <2>2. QED
    BY <2>1 DEF Fresh, Later, TypeOK
<1>3. Aside(a)
  BY DEF StartJob, Aside, attemptRows, envRows, TypeOK
<1>4. QED
  BY <1>0, <1>1, <1>2, <1>3, NeutralStarts DEF Starts, JobKinds

\* Steps that change nothing the invariant looks at.
LEMMA UntouchedAccount ==
    ASSUME AccountInv, UNCHANGED <<remaining, status, owner, queue>>,
           \A h \in Handlers : Alike(h),
           budget'["admin"] = budget["admin"]
    PROVE  AccountInv'
<1>1. \A a \in Attempts : SameFor(a)
  BY DEF SameFor
<1>2. \A a \in Attempts : Ledger(a)' /\ (Free(a)' <=> Free(a))
  BY <1>1, SameLedger DEF AccountInv
<1>3. Charged' = Charged
  BY <1>2 DEF Charged
<1>4. QED
  BY <1>2, <1>3 DEF AccountInv, Balance, Regular, Alike, Att

LEMMA PassageAccount ==
    ASSUME TypeOK, TypeOK', AccountInv, NEW a \in Attempts, Passage(a)
    PROVE  AccountInv'
<1>1. CASE Age(a)
  BY <1>1, UntouchedAccount, NoAdmin
     DEF Age, Alike, BudgetKinds, attemptRows, envRows
<1>2. CASE ExamTimer(a)
  <2>1. /\ UNCHANGED <<remaining, status, owner, call>>
        /\ budget'["admin"] = 0 /\ status[a] = "running"
        /\ \A k \in JobKinds, b \in Attempts :
              k # "expire_attempt" \/ b # a => queue'[<<k, b>>] = queue[<<k, b>>]
    BY <1>2, NoAdmin, EnqueuesOnly
       DEF ExamTimer, BudgetKinds, AccountInv, attemptRows, envRows
  <2>2. OnlyOn(a)
    BY <2>1 DEF OnlyOn, SameFor, Alike
  <2>3. Jobs(a)' = Jobs(a)
    BY <2>1 DEF Jobs, JobKinds
  <2>4. Ledger(a)'
    <3>0. Ledger(a)
      BY DEF AccountInv
    <3>1. Fresh(a)' /\ Young(a)'
      BY <2>1 DEF Fresh, Young, None
    <3>2. SoleProvisioning(a)' /\ SoleRequest(a)' /\ Provision(a)'
      BY <2>1, <2>3, <3>0
         DEF Ledger, SoleProvisioning, SoleRequest, Provision, Provisioning, Requesting,
             Claiming, Building, Refunding, NoOtherWriter, Att
    <3>3. QED
      BY <3>1, <3>2 DEF Ledger
  <2>5. ~Free(a)
    BY <2>1 DEF Free, None
  <2>6. \A h \in Handlers : Regular(h)'
    BY <2>1 DEF AccountInv, Regular, Att
  <2>7. QED
    BY <2>1, <2>2, <2>4, <2>5, <2>6, Accounted
<1>3. QED
  BY <1>1, <1>2 DEF Passage

LEMMA CancelAccount ==
    ASSUME TypeOK, AccountInv, NEW h \in Handlers, Cancel(h)
    PROVE  AccountInv'
<1>1. Goes(h, call[h].at, call[h].to, call[h].err)
  BY Progress DEF Cancel
<1>2. \A g \in Handlers : Alike(g)
  BY <1>1 DEF Goes, Others, Alike
<1>3. QED
  BY <1>2, UntouchedAccount, NoAdmin
     DEF Cancel, BudgetKinds, rows, attemptRows, envRows

-----------------------------------------------------------------------------
(* Requesting an attempt                                                   *)

\* What a step of the request or the provisioning of b leaves alone.
Apart(b) ==
    /\ \A a \in Attempts \ {b} : status'[a] = status[a]
    /\ \A kind \in JobKinds, a \in Attempts :
            a # b \/ kind # "provision_environment" => queue'[<<kind, a>>] = queue[<<kind, a>>]
    /\ UNCHANGED owner
    /\ budget'["admin"] = budget["admin"]

LEMMA EnqueueFirst ==
    ASSUME TypeOK, NEW a \in Attempts, Jobs(a) = 0, Enqueue("provision_environment", a)
    PROVE  Jobs(a)' = 1
<1> DEFINE j == <<"provision_environment", a>>
<1>1. j \in JobKinds \X Attempts
  BY DEF JobKinds
<1>2. queue[j] = 0 /\ queue' = [queue EXCEPT ![j] = IF queue[j] < MaxQueued THEN queue[j] + 1 ELSE queue[j]]
  BY DEF Enqueue, Jobs
<1>3. queue'[j] = 1
  BY <1>1, <1>2, BoundsAssumption DEF TypeOK
<1>4. QED
  BY <1>3 DEF Jobs

RequestGoes(h, b) ==
    /\ Others(h)
    /\ call'[h].op = "request" /\ call'[h].attempt = b
    /\ call'[h].at \in {"decrement", "create", "enqueue", "restore"}
    /\ call'[h].at \in {"decrement", "create"} => status'[b] = None
    /\ call'[h].at = "enqueue" => status'[b] = "attempt_requested"
    /\ Jobs(b)' = 0

Pending(b) ==
    /\ status[b] \in {None, "attempt_requested"}
    /\ Jobs(b) = 0 \/ (status[b] = "attempt_requested" /\ Jobs(b) = 1)

\* How the step settles with the purchase.
Settles(h, b) ==
    \/ remaining' = remaining /\ call[h].at # "decrement"
    \/ remaining' = remaining /\ Stops(h) /\ Jobs(b)' = 0
    \/ remaining' = remaining + 1 /\ call[h].at # "decrement" /\ Stops(h) /\ Jobs(b)' = 0
    \/ remaining' = remaining - 1

\* A request is alone with its attempt, so only what it changes counts.
LEMMA RequestMoves ==
    ASSUME TypeOK, TypeOK', AccountInv, NEW h \in Handlers, NEW b \in Attempts,
           Requesting(h, b), Stops(h) \/ RequestGoes(h, b),
           Pending(b)', Apart(b), Settles(h, b)
    PROVE  AccountInv'
<1> USE DEF Requesting, Provisioning, Att, Apart, Stops, RequestGoes, Settles, Pending
<1>1. Ledger(b) /\ status[b] \in {None, "attempt_requested"}
  BY DEF AccountInv, Ledger, SoleRequest
<1>2. \A g \in Handlers : g # h => call'[g] = call[g] /\ call[g].attempt # b
  BY <1>1 DEF Ledger, SoleRequest, Others
<1>3. \A g \in Handlers : call'[g].attempt = b => g = h /\ call'[h].op = "request"
  BY <1>2, NoneAssumption
<1>4. Fresh(b)'
  BY <1>1, <1>3 DEF Ledger, Fresh, Jobs, None
<1>5. SoleProvisioning(b)'
  BY <1>3 DEF SoleProvisioning
<1>6. SoleRequest(b)'
  BY <1>3 DEF SoleRequest
<1>7. Provision(b)' /\ Young(b)'
  BY <1>3 DEF Provision, Young, None
<1>8. Regular(h)'
  BY DEF Regular
<1>9. OnlyOn(b)
  BY HandlerOnlyOn
<1>10. /\ call[h].at # "decrement" => ~Free(b)
       /\ call'[h].op = "idle" /\ Jobs(b)' = 0 => Free(b)'
  BY <1>3 DEF Free
<1>11. Ledger(b)'
  BY <1>4, <1>5, <1>6, <1>7 DEF Ledger
<1>12. QED
  BY <1>8, <1>9, <1>10, <1>11, Accounted, OthersRegular DEF AccountInv

LEMMA RequestStepAccount ==
    ASSUME TypeOK, TypeOK', AccountInv, NEW h \in Handlers, NEW b \in Attempts, Att(h) = b,
           RequestDecrement(h) \/ RequestCreate(h) \/ RequestEnqueue(h) \/ RequestRestore(h)
    PROVE  AccountInv'
<1>0. Requesting(h, b)
  BY DEF RequestDecrement, RequestCreate, RequestEnqueue, RequestRestore, Requesting, At
<1>1. /\ call[h].at \in {"decrement", "create"} => status[b] = None
      /\ call[h].at = "enqueue" => status[b] = "attempt_requested"
      /\ status[b] \in {None, "attempt_requested"}
      /\ Jobs(b) = 0
  BY <1>0 DEF AccountInv, Ledger, SoleRequest
<1>2. budget'["admin"] = budget["admin"]
  BY NoAdmin DEF RequestDecrement, RequestCreate, RequestEnqueue, RequestRestore
<1>3. Apart(b)
  BY <1>2, EnqueuesOnly
     DEF RequestDecrement, RequestCreate, RequestEnqueue, RequestRestore, Apart, attemptRows,
         envRows, TypeOK
<1>4. CASE RequestDecrement(h)
  <2>1. status'[b] = None /\ Jobs(b)' = 0
    BY <1>1, <1>4 DEF RequestDecrement, At, attemptRows, Jobs
  <2>2. \/ RequestGoes(h, b) /\ remaining' = remaining - 1
        \/ Stops(h) /\ remaining' = remaining
    <3>1. \/ Goes(h, "create", None, FALSE) /\ remaining' = remaining - 1
          \/ Stops(h) /\ remaining' = remaining
      BY <1>4, Progress DEF RequestDecrement
    <3>2. QED
      BY <1>0, <2>1, <3>1 DEF RequestGoes, Requesting, Goes, Att
  <2>3. Settles(h, b) /\ Pending(b)'
    BY <1>0, <1>3, <2>1, <2>2 DEF Settles, Pending, Jobs
  <2>4. QED
    BY <1>0, <1>3, <2>1, <2>2, <2>3, RequestMoves
<1>5. CASE RequestCreate(h)
  <2>1. Jobs(b)' = 0 /\ remaining' = remaining /\ call[h].at = "create"
    BY <1>1, <1>5 DEF RequestCreate, At, Jobs
  <2>2. \/ /\ Goes(h, "enqueue", None, FALSE) /\ status'[b] = "attempt_requested"
        \/ Goes(h, "restore", None, FALSE) /\ status'[b] = None
    BY <1>1, <1>5, Progress DEF RequestCreate, At, TypeOK
  <2>3. RequestGoes(h, b) /\ status'[b] \in {None, "attempt_requested"}
    BY <1>0, <2>1, <2>2 DEF RequestGoes, Requesting, Goes, Att
  <2>4. Settles(h, b) /\ Pending(b)'
    BY <1>0, <1>3, <2>1, <2>3 DEF Settles, Pending, Jobs
  <2>5. QED
    BY <1>0, <1>3, <2>1, <2>3, <2>4, RequestMoves
<1>6. CASE RequestEnqueue(h)
  <2>1. status'[b] = "attempt_requested" /\ remaining' = remaining /\ call[h].at = "enqueue"
    BY <1>1, <1>6 DEF RequestEnqueue, At, attemptRows
  <2>2. \/ RequestGoes(h, b) /\ Jobs(b)' = 0
        \/ Stops(h) /\ Jobs(b)' = 1
    <3>1. CASE Goto(h, "restore") /\ UNCHANGED queue
      <4>1. Goes(h, "restore", None, FALSE) /\ Jobs(b)' = 0
        BY <1>1, <3>1, Progress DEF Jobs
      <4>2. QED
        BY <1>0, <4>1 DEF RequestGoes, Requesting, Goes, Att
    <3>2. CASE Enqueue("provision_environment", b) /\ Return(h)
      BY <1>1, <3>2, Progress, EnqueueFirst
    <3>3. QED
      BY <1>6, <3>1, <3>2 DEF RequestEnqueue
  <2>3. Settles(h, b) /\ Pending(b)'
    BY <1>0, <1>3, <2>1, <2>2 DEF Settles, Pending, Jobs
  <2>4. QED
    BY <1>0, <1>3, <2>1, <2>2, <2>3, RequestMoves
<1>7. CASE RequestRestore(h)
  <2>1. Stops(h) /\ remaining' \in {remaining, remaining + 1}
    BY <1>7, Progress DEF RequestRestore, IncrementAttemptsRemaining
  <2>2. status'[b] = status[b] /\ Jobs(b)' = 0 /\ call[h].at = "restore"
    BY <1>1, <1>7 DEF RequestRestore, At, attemptRows, Jobs
  <2>3. Settles(h, b) /\ Pending(b)'
    BY <1>0, <1>1, <1>3, <2>1, <2>2 DEF Settles, Pending, Jobs
  <2>4. QED
    BY <1>0, <1>1, <1>3, <2>1, <2>2, <2>3, RequestMoves
<1>8. QED
  BY <1>4, <1>5, <1>6, <1>7

LEMMA RequestStartAccount ==
    ASSUME TypeOK, TypeOK', AccountInv, NEW h \in Requests, NEW b \in Attempts,
           RequestStart(h, b)
    PROVE  AccountInv'
<1> USE DEF Requesting, Provisioning, Att
<1>0. h \in Handlers
  BY DEF Handlers
<1>1. Starts(h, "request", b, "decrement", None)
  BY <1>0, Progress DEF RequestStart
<1>2. /\ UNCHANGED <<remaining, status, owner, queue, budget>>
      /\ status[b] = None /\ \A g \in Handlers : call[g].attempt # b
  BY DEF RequestStart, rows, attemptRows, envRows
<1>3. Ledger(b) /\ Regular(h)
  BY <1>0 DEF AccountInv
<1>4. \A g \in Handlers : call'[g].attempt = b => g = h
  BY <1>1, <1>2 DEF Starts, Others
<1>5. Jobs(b)' = 0
  BY <1>2, <1>3 DEF Ledger, Fresh, Jobs
<1>6. Ledger(b)'
  <2>1. Fresh(b)'
    BY <1>1, <1>2, <1>3, <1>4, <1>5 DEF Ledger, Fresh, Starts
  <2>2. SoleProvisioning(b)' /\ Provision(b)' /\ Young(b)'
    BY <1>1, <1>2, <1>4, <1>5 DEF SoleProvisioning, Provision, Young, Starts, None
  <2>3. SoleRequest(b)'
    BY <1>1, <1>2, <1>4, <1>5 DEF SoleRequest, Starts
  <2>4. QED
    BY <2>1, <2>2, <2>3 DEF Ledger
<1>7. Free(b)'
  BY <1>1, <1>2, <1>4 DEF Free, Starts, None
<1>8. Regular(h)'
  BY <1>1 DEF Regular, Starts
<1>9. OnlyOn(b)
  BY <1>0, <1>1, <1>2, <1>3, HandlerOnlyOn DEF Starts, Regular
<1>10. QED
  BY <1>0, <1>1, <1>2, <1>6, <1>7, <1>8, <1>9, Accounted, OthersRegular DEF Starts, AccountInv

-----------------------------------------------------------------------------
(* Provisioning an attempt                                                 *)

\* What a step of the provisioning of b leaves alone, other than the status.
Beside(b) ==
    /\ \A a \in Attempts \ {b} : status'[a] = status[a]
    /\ \A kind \in JobKinds, a \in Attempts :
            a # b \/ kind # "cleanup_environment" => queue'[<<kind, a>>] = queue[<<kind, a>>]
    /\ \A e \in Envs : owner'[e] \in {owner[e], b}
    /\ status[b] = "attempt_requested" => UNCHANGED <<queue, owner>>
    /\ budget'["admin"] = budget["admin"]

\* The job goes on, knowing what Provision says.
ProvisionGoes(h, b) ==
    /\ Others(h)
    /\ call'[h].op = "provision_environment" /\ call'[h].attempt = b
    /\ Regular(h)'
    /\ Claiming(h)' => status'[b] = "attempt_requested"
    /\ Building(h)' => status'[b] \in {"environment_provisioning", "provision_failed"}
    /\ Refunding(h)' => status'[b] = "provision_failed"
    /\ (Claiming(h) \/ Building(h) \/ Refunding(h))' => NoOtherWriter(h, b)

ProvisionSettles(h, b) ==
    \/ remaining' = remaining /\ (Free(b) => call'[h].at \in {"start", "done", "failed"})
    \/ /\ remaining' = remaining + 1
       /\ ~Free(b) /\ NoOtherWriter(h, b)
       /\ status'[b] = "provision_failed" /\ call'[h].at = "done"

LEMMA ProvisionMoves ==
    ASSUME TypeOK, TypeOK', AccountInv, NEW h \in Handlers, NEW b \in Attempts,
           Provisioning(h, b), ProvisionGoes(h, b), Beside(b), ProvisionSettles(h, b),
           \/ status'[b] = status[b]
           \/ ~Free(b) /\ status'[b] \notin {None, "attempt_requested"} /\ NoOtherWriter(h, b)
    PROVE  AccountInv'
<1> USE DEF Requesting, Provisioning, Att
<1>0. Ledger(b) /\ Regular(h) /\ Jobs(b)' = Jobs(b)
  BY DEF AccountInv, Beside, Jobs, JobKinds
<1>1. \A g \in Handlers : g # h => call'[g] = call[g]
  BY DEF ProvisionGoes, Others
<1>2. \A g \in Handlers : call'[g].op = "provision_environment" /\ call'[g].attempt = b => g = h
  BY <1>0, <1>1 DEF Ledger, SoleProvisioning
<1>3. \A g \in Handlers : ~(call'[g].op = "request" /\ call'[g].attempt = b)
  BY <1>0, <1>1 DEF Ledger, SoleRequest, ProvisionGoes
<1>4. status[b] # None /\ status'[b] # None
  BY <1>0 DEF Ledger, Fresh
<1>5. Fresh(b)'
  <2>1. status'[b] = "attempt_requested" => status[b] = "attempt_requested" /\ UNCHANGED <<queue, owner>>
    BY DEF Beside
  <2>2. \A g \in Handlers : call'[g].attempt = b => g = h \/ call[g].attempt = b
    BY <1>1
  <2>3. QED
    BY <1>0, <1>1, <1>4, <2>1, <2>2 DEF Ledger, Fresh, ProvisionGoes, Beside
<1>6. SoleProvisioning(b)'
  BY <1>0, <1>2 DEF Ledger, SoleProvisioning
<1>7. SoleRequest(b)'
  BY <1>3 DEF SoleRequest
<1>8. NoOtherWriter(h, b) => NoOtherWriter(h, b)'
  BY <1>1 DEF NoOtherWriter
<1>9. Provision(b)'
  BY <1>2, <1>8 DEF Provision, ProvisionGoes
<1>10. Young(b)'
  BY <1>0, <1>1, <1>8 DEF Ledger, Young, NoOtherWriter, ProvisionGoes
<1>11. \/ remaining' = remaining /\ (Free(b) => Free(b)')
       \/ remaining' = remaining + 1 /\ ~Free(b) /\ Free(b)'
  <2>1. CASE remaining' = remaining /\ (Free(b) => call'[h].at \in {"start", "done", "failed"})
    BY <1>0, <1>1, <1>2, <1>3, <1>8, <2>1 DEF Free, Ledger, ProvisionGoes, NoOtherWriter
  <2>2. CASE /\ remaining' = remaining + 1 /\ ~Free(b) /\ NoOtherWriter(h, b)
             /\ status'[b] = "provision_failed" /\ call'[h].at = "done"
    BY <1>1, <1>2, <1>3, <1>8, <2>2 DEF Free, NoOtherWriter
  <2>3. QED
    BY <2>1, <2>2 DEF ProvisionSettles
<1>12. OnlyOn(b)
  <2>1. \A a \in Attempts \ {b} : /\ status'[a] = status[a]
                                 /\ \A kind \in JobKinds : queue'[<<kind, a>>] = queue[<<kind, a>>]
    BY DEF Beside
  <2>2. QED
    BY <2>1, HandlerOnlyOn DEF Beside, ProvisionGoes
<1>13. Ledger(b)'
  BY <1>5, <1>6, <1>7, <1>9, <1>10 DEF Ledger
<1>14. budget'["admin"] = 0
  BY DEF Beside, AccountInv
<1>15. QED
  BY <1>11, <1>12, <1>13, <1>14, Accounted, OthersRegular DEF ProvisionGoes

\* What the job knows at each point, and that nobody else writes.
LEMMA ProvisionFacts ==
    ASSUME TypeOK, AccountInv, NEW h \in Handlers, NEW b \in Attempts, Provisioning(h, b)
    PROVE  /\ Claiming(h) => status[b] = "attempt_requested"
           /\ Building(h) => status[b] \in {"environment_provisioning", "provision_failed"}
           /\ Refunding(h) => status[b] = "provision_failed"
           /\ Claiming(h) \/ Building(h) \/ Refunding(h) => NoOtherWriter(h, b)
           /\ status[b] \in {"attempt_requested", "environment_provisioning"}
                => NoOtherWriter(h, b)
           /\ Free(b) => call[h].at \in {"start", "done", "failed"} /\ status[b] = "provision_failed"
<1>0. Ledger(b)
  BY DEF AccountInv
<1>1. \A g \in Handlers : Provisioning(g, b) => g = h
  BY <1>0 DEF Ledger, SoleProvisioning
<1>2. \A g \in Handlers : ~Requesting(g, b)
  BY <1>0 DEF Ledger, SoleRequest, Requesting, Provisioning
<1>3. status[b] = "attempt_requested" => NoOtherWriter(h, b)
  BY <1>0, <1>1, <1>2 DEF Ledger, Fresh, NoOtherWriter
<1>4. status[b] = "environment_provisioning" => NoOtherWriter(h, b)
  BY <1>0, <1>1 DEF Ledger, Young, NoOtherWriter
<1>5. QED
  BY <1>0, <1>3, <1>4 DEF Ledger, Provision, Free

\* Steps that take the job on without touching rows that count.
LEMMA ProvisionOnward ==
    ASSUME TypeOK, TypeOK', AccountInv, NEW h \in Handlers, NEW b \in Attempts,
           Provisioning(h, b), NEW p, NEW s, NEW f, Goes(h, p, s, f), Beside(b),
           UNCHANGED <<remaining, status>>,
           p \in {"readStatus", "writeStatus", "returned"} =>
                s \in {"environment_provisioning", "environment_ready", "provision_failed"},
           \/ p \in {"done", "failed"}
           \/ p = "returned" /\ (f \/ s = "environment_ready")
           \/ p \in {"readStatus", "writeStatus"} /\ s = "environment_provisioning"
                /\ (Claiming(h) \/ status[b] = "attempt_requested")
           \/ /\ \/ p \in {"build", "record", "configure", "session"}
                 \/ p \in {"readStatus", "writeStatus"}
                    /\ s \in {"environment_ready", "provision_failed"}
              /\ Building(h) \/ status[b] = "environment_provisioning"
           \/ p \in {"enqueue", "refund"} /\ Refunding(h),
           Free(b) => p \in {"start", "done", "failed"}
    PROVE  AccountInv'
<1>0. NoOtherWriter(h, b) \/ p \in {"done", "failed"} \/ (p = "returned" /\ (f \/ s = "environment_ready"))
  BY ProvisionFacts
<1>1. /\ call'[h].op = "provision_environment" /\ call'[h].attempt = b /\ Others(h)
      /\ call'[h].at = p /\ call'[h].to = s /\ call'[h].err = f
  BY DEF Goes, Provisioning, Att
<1>2. Regular(h)'
  BY <1>1 DEF Regular, Att, Asked
<1>3. Claiming(h)' => status'[b] = "attempt_requested"
  BY <1>1, ProvisionFacts DEF Claiming
<1>4. Building(h)' => status'[b] \in {"environment_provisioning", "provision_failed"}
  BY <1>1, ProvisionFacts DEF Building
<1>5. Refunding(h)' => status'[b] = "provision_failed"
  BY <1>1, ProvisionFacts DEF Refunding
<1>6. (Claiming(h) \/ Building(h) \/ Refunding(h))' => NoOtherWriter(h, b)
  BY <1>0, <1>1 DEF Claiming, Building, Refunding
<1>7. ProvisionGoes(h, b) /\ ProvisionSettles(h, b)
  BY <1>1, <1>2, <1>3, <1>4, <1>5, <1>6 DEF ProvisionGoes, ProvisionSettles
<1>8. QED
  BY <1>7, ProvisionMoves

LEMMA ProvisionStepAccount ==
    ASSUME TypeOK, TypeOK', AccountInv, NEW h \in Handlers, NEW b \in Attempts, Att(h) = b,
           \/ ProvisionStart(h) \/ ProvisionBuild(h) \/ ProvisionRecord(h)
           \/ ProvisionConfigure(h) \/ ProvisionSession(h) \/ ProvisionTransitioned(h)
           \/ ProvisionFailureRecorded(h) \/ ProvisionFailureEnqueue(h)
    PROVE  AccountInv'
<1>0. Provisioning(h, b)
  BY DEF ProvisionStart, ProvisionBuild, ProvisionRecord, ProvisionConfigure,
         ProvisionSession, ProvisionTransitioned, ProvisionFailureRecorded,
         ProvisionFailureEnqueue, At, Returned, Provisioning
<1>1. budget'["admin"] = budget["admin"]
  BY NoAdmin
     DEF ProvisionStart, ProvisionBuild, ProvisionRecord, ProvisionConfigure,
         ProvisionSession, ProvisionTransitioned, ProvisionFailureRecorded,
         ProvisionFailureEnqueue
<1>2. UNCHANGED <<remaining, status>>
  BY DEF ProvisionStart, ProvisionBuild, ProvisionRecord, ProvisionConfigure,
         ProvisionSession, ProvisionTransitioned, ProvisionFailureRecorded,
         ProvisionFailureEnqueue, rows, attemptRows
<1>3. Free(b) => call[h].at \in {"start", "done", "failed"} /\ status[b] = "provision_failed"
  BY <1>0, ProvisionFacts
<1>4. CASE ProvisionStart(h)
  <2>1. Beside(b)
    BY <1>1, <1>4 DEF ProvisionStart, Beside, rows, attemptRows, envRows
  <2>2. \/ Goes(h, "readStatus", "environment_provisioning", FALSE)
            /\ status[b] = "attempt_requested"
        \/ Goes(h, "build", None, FALSE) /\ status[b] = "environment_provisioning"
        \/ Goes(h, "done", None, FALSE)
        \/ Goes(h, "failed", None, FALSE)
    BY <1>4, Progress DEF ProvisionStart
  <2>3. QED
    BY <1>0, <1>2, <1>3, <2>1, <2>2, ProvisionOnward
<1>5. CASE ProvisionBuild(h)
  <2>1. Beside(b)
    BY <1>1, <1>5 DEF ProvisionBuild, Beside, attemptRows
  <2>2. \/ Goes(h, "record", call[h].to, call[h].err)
        \/ Goes(h, "readStatus", "provision_failed", FALSE)
        \/ Goes(h, "failed", None, FALSE)
    BY <1>5, Progress DEF ProvisionBuild
  <2>3. Building(h) /\ ~Free(b)
    BY <1>3, <1>5 DEF ProvisionBuild, At, Building
  <2>4. QED
    BY <1>0, <1>2, <2>1, <2>2, <2>3, ProvisionOnward
<1>6. CASE ProvisionRecord(h)
  <2>1. Building(h) /\ ~Free(b)
    BY <1>3, <1>6 DEF ProvisionRecord, At, Building
  <2>2. Beside(b)
    BY <1>0, <1>1, <1>6, <2>1, ProvisionFacts DEF ProvisionRecord, Beside, attemptRows, TypeOK
  <2>3. \/ Goes(h, "configure", None, FALSE)
        \/ Goes(h, "readStatus", "provision_failed", FALSE)
    BY <1>6, Progress DEF ProvisionRecord
  <2>4. QED
    BY <1>0, <1>2, <2>1, <2>2, <2>3, ProvisionOnward
<1>7. CASE ProvisionConfigure(h)
  <2>1. Beside(b)
    BY <1>1, <1>7 DEF ProvisionConfigure, Beside, rows, attemptRows, envRows
  <2>2. \/ Goes(h, "session", None, FALSE)
        \/ Goes(h, "readStatus", "provision_failed", FALSE)
    BY <1>7, Progress DEF ProvisionConfigure
  <2>3. Building(h) /\ ~Free(b)
    BY <1>3, <1>7 DEF ProvisionConfigure, At, Building
  <2>4. QED
    BY <1>0, <1>2, <2>1, <2>2, <2>3, ProvisionOnward
<1>8. CASE ProvisionSession(h)
  <2>1. Beside(b)
    BY <1>1, <1>8 DEF ProvisionSession, Beside, attemptRows
  <2>2. \/ Goes(h, "readStatus", "environment_ready", FALSE)
        \/ Goes(h, "readStatus", "provision_failed", FALSE)
    BY <1>8, Progress DEF ProvisionSession
  <2>3. Building(h) /\ ~Free(b)
    BY <1>3, <1>8 DEF ProvisionSession, At, Building
  <2>4. QED
    BY <1>0, <1>2, <2>1, <2>2, <2>3, ProvisionOnward
<1>9. CASE ProvisionTransitioned(h) \/ ProvisionFailureRecorded(h)
  <2>1. Beside(b)
    BY <1>1, <1>9
       DEF ProvisionTransitioned, ProvisionFailureRecorded, Beside, rows, attemptRows, envRows
  <2>2. \/ Goes(h, "build", None, FALSE) /\ Building(h)
        \/ Goes(h, "done", None, FALSE)
        \/ Goes(h, "failed", None, FALSE)
        \/ Goes(h, "enqueue", None, FALSE) /\ Refunding(h)
    BY <1>9, Progress
       DEF ProvisionTransitioned, ProvisionFailureRecorded, Returned, At, Building, Refunding
  <2>3. ~Free(b)
    BY <1>3, <1>9 DEF ProvisionTransitioned, ProvisionFailureRecorded, Returned, At
  <2>4. QED
    BY <1>0, <1>2, <2>1, <2>2, <2>3, ProvisionOnward
<1>10. CASE ProvisionFailureEnqueue(h)
  <2>1. Refunding(h) /\ ~Free(b)
    BY <1>3, <1>10 DEF ProvisionFailureEnqueue, At, Refunding
  <2>2. Beside(b)
    BY <1>0, <1>1, <1>10, <2>1, ProvisionFacts, EnqueuesOnly
       DEF ProvisionFailureEnqueue, Beside, attemptRows, envRows
  <2>3. Goes(h, "refund", None, FALSE)
    BY <1>10, Progress DEF ProvisionFailureEnqueue
  <2>4. QED
    BY <1>0, <1>2, <2>1, <2>2, <2>3, ProvisionOnward
<1>11. QED
  BY <1>4, <1>5, <1>6, <1>7, <1>8, <1>9, <1>10

LEMMA RefundAccount ==
    ASSUME TypeOK, TypeOK', AccountInv, NEW h \in Handlers, NEW b \in Attempts, Att(h) = b,
           RestoreAttemptCount(h)
    PROVE  AccountInv'
<1>1. Provisioning(h, b) /\ Refunding(h) /\ call[h].at = "refund"
  BY DEF RestoreAttemptCount, At, Provisioning, Refunding
<1>2. status[b] = "provision_failed" /\ NoOtherWriter(h, b) /\ ~Free(b)
  BY <1>1, ProvisionFacts
<1>3. Goes(h, "done", None, FALSE)
  BY Progress DEF RestoreAttemptCount
<1>4. Beside(b) /\ status'[b] = status[b]
  BY NoAdmin DEF RestoreAttemptCount, Beside, attemptRows, envRows
<1>5. ProvisionGoes(h, b)
  BY <1>1, <1>3 DEF ProvisionGoes, Goes, Provisioning, Att, Regular, Claiming, Building, Refunding
<1>6. ProvisionSettles(h, b)
  BY <1>2, <1>3, <1>4
     DEF RestoreAttemptCount, IncrementAttemptsRemaining, ProvisionSettles, Goes
<1>7. QED
  BY <1>1, <1>4, <1>5, <1>6, ProvisionMoves

LEMMA ProvisionStatusAccount ==
    ASSUME TypeOK, TypeOK', AccountInv, NEW h \in Handlers, NEW b \in Attempts,
           Provisioning(h, b), StatusRead(h) \/ StatusWrite(h)
    PROVE  AccountInv'
<1>0. /\ call[h].to \in {"environment_provisioning", "environment_ready", "provision_failed"}
      /\ ~Free(b) /\ (Claiming(h) \/ Building(h)) /\ Att(h) = b
  <2>1. call[h].at \in {"readStatus", "writeStatus"}
    BY DEF StatusRead, StatusWrite
  <2>2. <<call[h].op, call[h].to>> \in Asked /\ call[h].op = "provision_environment"
    BY <2>1 DEF AccountInv, Regular, Provisioning
  <2>3. QED
    BY <2>1, <2>2, ProvisionFacts DEF Asked, Claiming, Building, Provisioning
<1>1. CASE StatusRead(h)
  <2>1. \/ Goes(h, "writeStatus", call[h].to, call[h].err)
        \/ Goes(h, "returned", call[h].to, TRUE)
    BY <1>1, Progress DEF StatusRead
  <2>2. Beside(b) /\ UNCHANGED <<remaining, status>>
    BY <1>1, NoAdmin DEF StatusRead, Beside, rows, attemptRows, envRows
  <2>3. call[h].to = "environment_provisioning" \/ Building(h)
    BY <1>0 DEF Claiming
  <2>4. Claiming(h) \/ call[h].to # "environment_provisioning"
    BY <1>1 DEF StatusRead, Claiming
  <2>5. QED
    BY <1>0, <2>1, <2>2, <2>3, <2>4, ProvisionOnward
<1>2. CASE StatusWrite(h)
  <2>1. CASE TransitionReturns(h, TRUE) /\ UNCHANGED attemptRows
    <3>1. Goes(h, "returned", call[h].to, TRUE)
      BY <2>1, Progress
    <3>2. Beside(b) /\ UNCHANGED <<remaining, status>>
      BY <1>2, <2>1, NoAdmin DEF StatusWrite, Beside, attemptRows, envRows
    <3>3. QED
      BY <1>0, <3>1, <3>2, ProvisionOnward
  <2>2. CASE /\ status' = [status EXCEPT ![b] = call[h].to]
             /\ TransitionReturns(h, FALSE)
    <3>1. Goes(h, "returned", call[h].to, FALSE)
      BY <2>2, Progress
    <3>2. status'[b] = call[h].to /\ remaining' = remaining
      BY <1>2, <2>2 DEF StatusWrite, TypeOK
    <3>3. Beside(b)
      BY <1>2, <2>2, NoAdmin DEF StatusWrite, Beside, envRows, TypeOK
    <3>4. NoOtherWriter(h, b)
      BY <1>0, ProvisionFacts
    <3>5. ProvisionGoes(h, b)
      BY <1>0, <3>1, <3>2, <3>4
         DEF ProvisionGoes, Goes, Provisioning, Att, Regular, Claiming, Building, Refunding, Asked
    <3>6. ProvisionSettles(h, b)
      BY <1>0, <3>2 DEF ProvisionSettles
    <3>7. status'[b] \notin {None, "attempt_requested"}
      BY <1>0, <3>2 DEF None
    <3>8. QED
      BY <1>0, <3>3, <3>4, <3>5, <3>6, <3>7, ProvisionMoves
  <2>3. QED
    BY <1>0, <1>2, <2>1, <2>2 DEF StatusWrite
<1>3. QED
  BY <1>1, <1>2

\* The job is over: it may be run once more.
LEMMA ProvisionEndAccount ==
    ASSUME TypeOK, TypeOK', AccountInv, NEW h \in Handlers, NEW b \in Attempts,
           Provisioning(h, b), CompleteJob(h) \/ RetryJob(h) \/ DiscardJob(h)
    PROVE  AccountInv'
<1> USE DEF Requesting, Provisioning, Att
<1>1. Ledger(b)
  BY DEF AccountInv
<1>2. Stops(h) /\ budget'["admin"] = budget["admin"]
  BY Progress, NoAdmin DEF CompleteJob, RetryJob, DiscardJob, BudgetKinds
<1>3. UNCHANGED <<remaining, status, owner>>
  BY DEF CompleteJob, RetryJob, DiscardJob, rows, attemptRows, envRows
<1>4. Jobs(b) = 0
  BY <1>1 DEF Ledger, SoleProvisioning, TypeOK, Jobs, JobKinds
<1>5. /\ Jobs(b)' \in {0, 1}
      /\ \A kind \in JobKinds, a \in Attempts :
            a # b \/ kind # "provision_environment" => queue'[<<kind, a>>] = queue[<<kind, a>>]
  <2>1. UNCHANGED queue \/ Enqueue("provision_environment", b)
    BY DEF CompleteJob, RetryJob, DiscardJob, rows
  <2>2. QED
    BY <1>4, <2>1, EnqueueFirst, EnqueuesOnly DEF Jobs
<1>6. \A g \in Handlers : call'[g].attempt = b =>
            call'[g] = call[g] /\ call[g].op \notin {"request", "provision_environment"}
  BY <1>1, <1>2, NoneAssumption DEF Ledger, SoleProvisioning, SoleRequest, Stops, Others
<1>7. status[b] # None
  BY <1>1 DEF Ledger, Fresh
<1>8. Fresh(b)'
  <2>1. status[b] = "attempt_requested" => \A g \in Handlers : call'[g].attempt # b
    BY <1>1, <1>6 DEF Ledger, Fresh
  <2>2. QED
    BY <1>1, <1>3, <1>5, <1>7, <2>1 DEF Ledger, Fresh
<1>9. SoleProvisioning(b)' /\ SoleRequest(b)' /\ Provision(b)'
  BY <1>5, <1>6 DEF SoleProvisioning, SoleRequest, Provision
<1>10. Young(b)'
  BY <1>1, <1>3, <1>6 DEF Ledger, Young
<1>11. Free(b) => Free(b)'
  BY <1>3, <1>6 DEF Free
<1>12. Regular(h)'
  BY <1>2 DEF Regular, Stops
<1>13. OnlyOn(b)
  BY <1>2, <1>3, <1>5, HandlerOnlyOn DEF Stops
<1>14. Ledger(b)'
  BY <1>8, <1>9, <1>10 DEF Ledger
<1>15. QED
  BY <1>2, <1>3, <1>11, <1>12, <1>13, <1>14, Accounted, OthersRegular DEF Stops, AccountInv

LEMMA StartProvisionAccount ==
    ASSUME TypeOK, TypeOK', AccountInv, NEW w \in Workers, NEW b \in Attempts,
           StartJob(w, "provision_environment", b)
    PROVE  AccountInv'
<1> USE DEF Requesting, Provisioning, Att
<1>0. w \in Handlers
  BY DEF Handlers
<1>1. Starts(w, "provision_environment", b, "start", None)
  BY <1>0, Progress DEF StartJob
<1>2. Ledger(b) /\ Jobs(b) = 1 /\ call[w].attempt = None
  <2>1. Ledger(b) /\ Jobs(b) > 0 /\ call[w].attempt = None
    BY <1>0, <1>1 DEF AccountInv, StartJob, Jobs, Regular, Starts
  <2>2. Jobs(b) \in Nat
    BY DEF TypeOK, Jobs, JobKinds
  <2>3. QED
    BY <2>1, <2>2 DEF Ledger, SoleProvisioning
<1>3. UNCHANGED <<remaining, status, owner, budget>>
  BY DEF StartJob, attemptRows, envRows
<1>4. /\ Jobs(b)' = 0
      /\ \A kind \in JobKinds, a \in Attempts :
            a # b \/ kind # "provision_environment" => queue'[<<kind, a>>] = queue[<<kind, a>>]
  <2>1. <<"provision_environment", b>> \in JobKinds \X Attempts
    BY DEF JobKinds
  <2>2. queue' = [queue EXCEPT ![<<"provision_environment", b>>]
                        = queue[<<"provision_environment", b>>] - 1]
    BY DEF StartJob
  <2>3. Jobs(b)' = 0
    BY <1>2, <2>1, <2>2 DEF Jobs, TypeOK
  <2>4. QED
    BY <2>2, <2>3 DEF TypeOK
<1>5. \A g \in Handlers : call'[g].attempt = b =>
            g = w \/ (call'[g] = call[g] /\ call[g].op \notin {"request", "provision_environment"})
  BY <1>1, <1>2 DEF Ledger, SoleProvisioning, SoleRequest, Starts, Others
<1>6. status[b] # None
  BY <1>2 DEF Ledger, Fresh
<1>7. Fresh(b)'
  BY <1>1, <1>2, <1>3, <1>4, <1>5, <1>6 DEF Ledger, Fresh, Starts
<1>8. SoleProvisioning(b)' /\ SoleRequest(b)' /\ Provision(b)'
  BY <1>1, <1>4, <1>5
     DEF SoleProvisioning, SoleRequest, Provision, Starts, Claiming, Building, Refunding
<1>9. Young(b)'
  BY <1>1, <1>2, <1>3, <1>5 DEF Ledger, Young, Starts
<1>10. Free(b) => Free(b)'
  BY <1>1, <1>2, <1>3, <1>5, <1>6 DEF Free, Starts
<1>11. Regular(w)'
  BY <1>1 DEF Regular, Starts
<1>12. OnlyOn(b)
  BY <1>0, <1>1, <1>2, <1>3, <1>4, HandlerOnlyOn DEF Starts
<1>13. Ledger(b)'
  BY <1>7, <1>8, <1>9 DEF Ledger
<1>14. QED
  BY <1>0, <1>1, <1>3, <1>10, <1>11, <1>12, <1>13, Accounted, OthersRegular DEF Starts, AccountInv

-----------------------------------------------------------------------------
(* Crashes, and every step together                                        *)

LEMMA CrashJobs ==
    ASSUME TypeOK, Crash, NEW a \in Attempts, NEW kind \in JobKinds
    PROVE  /\ queue'[<<kind, a>>] \in Nat
           /\ queue'[<<kind, a>>] <= queue[<<kind, a>>] + Cardinality(Running(kind, a))
<1> DEFINE j == <<kind, a>>
           n == queue[j] + Cardinality(Running(kind, a))
<1>1. j \in JobKinds \X Attempts
  OBVIOUS
<1>2. queue'[j] = IF n < MaxQueued THEN n ELSE MaxQueued
  BY <1>1 DEF Crash
<1>3. n \in Nat
  <2>1. Cardinality(Running(kind, a)) \in Nat
    BY HandlersAssumption, FS_Subset, FS_CardinalityType DEF Running
  <2>2. queue[j] \in Nat
    BY <1>1, BoundsAssumption DEF TypeOK
  <2>3. QED
    BY <2>1, <2>2
<1> HIDE DEF n
<1>4. QED
  BY <1>2, <1>3, BoundsAssumption DEF n

\* A crash takes handlers away and makes their jobs wait again.
LEMMA CrashAccount ==
    ASSUME TypeOK, TypeOK', AccountInv, Crash
    PROVE  AccountInv'
<1> USE DEF Requesting, Provisioning, Att
<1>1. \A h \in Handlers : /\ call'[h].op = "idle" /\ call'[h].attempt = None
                          /\ call'[h].at = "idle"
  BY DEF Crash, Idle, Invocation
<1>2. UNCHANGED <<remaining, status, owner>> /\ budget'["admin"] = 0
  BY NoAdmin DEF Crash, BudgetKinds, attemptRows, envRows, AccountInv
<1>3. \A h \in Handlers : call'[h].attempt \notin Attempts
  BY <1>1, NoneAssumption
<1>4. ASSUME NEW a \in Attempts
      PROVE  Ledger(a)' /\ (Free(a) => Free(a)')
  <2>0. Ledger(a) /\ \A kind \in JobKinds : queue[<<kind, a>>] \in Nat
    BY BoundsAssumption DEF AccountInv, TypeOK
  <2>1. \A kind \in JobKinds :
            /\ queue'[<<kind, a>>] \in Nat
            /\ queue'[<<kind, a>>] <= queue[<<kind, a>>] + Cardinality(Running(kind, a))
    BY CrashJobs
  <2>2. Workers \subseteq Handlers
    BY DEF Handlers
  <2>3. \A kind \in JobKinds : Running(kind, a) = {} => queue'[<<kind, a>>] <= queue[<<kind, a>>]
    BY <2>0, <2>1, FS_EmptySet
  <2>4. Jobs(a)' <= 1
    <3>1. CASE Running("provision_environment", a) = {}
      BY <2>0, <2>1, <2>3, <3>1 DEF Ledger, SoleProvisioning, Jobs, JobKinds
    <3>2. ASSUME NEW w \in Running("provision_environment", a)
          PROVE  Jobs(a)' <= 1
      <4>1. Jobs(a) = 0
        BY <2>0, <2>2, <3>2 DEF Ledger, SoleProvisioning, Running, Jobs, JobKinds
      <4>2. Running("provision_environment", a) = {w}
        BY <2>0, <2>2, <3>2 DEF Ledger, SoleProvisioning, Running
      <4>3. Cardinality(Running("provision_environment", a)) = 1
        BY <4>2, FS_Singleton
      <4>4. QED
        BY <2>1, <4>1, <4>3 DEF Jobs, JobKinds
    <3>3. QED
      BY <3>1, <3>2
  <2>5. (\A h \in Handlers : ~Provisioning(h, a)) /\ Jobs(a) = 0 => Jobs(a)' = 0
    <3>1. (\A h \in Handlers : ~Provisioning(h, a)) => Running("provision_environment", a) = {}
      BY <2>2 DEF Running
    <3>2. QED
      BY <2>0, <2>1, <2>3, <3>1 DEF Jobs, JobKinds
  <2>6. Fresh(a)'
    <3>1. ASSUME status[a] \in {None, "attempt_requested"},
                 NEW kind \in JobKinds \ {"provision_environment"}
          PROVE  queue'[<<kind, a>>] = 0
      <4>1. queue[<<kind, a>>] = 0 /\ Running(kind, a) = {}
        BY <2>0, <2>2, <3>1 DEF Ledger, Fresh, Running, JobKinds
      <4>2. QED
        BY <2>1, <2>3, <4>1
    <3>2. QED
      BY <1>1, <1>2, <1>3, <2>0, <2>5, <3>1 DEF Ledger, Fresh
  <2>7. SoleProvisioning(a)' /\ SoleRequest(a)' /\ Provision(a)' /\ Young(a)'
    BY <1>1, <1>3, <2>4 DEF SoleProvisioning, SoleRequest, Provision, Young
  <2>8. Free(a) => Free(a)'
    BY <1>1, <1>2, <1>3, <2>5 DEF Free
  <2>9. QED
    BY <2>6, <2>7, <2>8 DEF Ledger
<1>5. Balance'
  <2>1. Charged' \subseteq Charged
    BY <1>4 DEF Charged
  <2>2. IsFiniteSet(Charged) /\ remaining + Cardinality(Charged) <= Allowed
    BY DEF AccountInv, Balance
  <2>3. /\ IsFiniteSet(Charged') /\ Cardinality(Charged') <= Cardinality(Charged)
        /\ Cardinality(Charged') \in Nat /\ Cardinality(Charged) \in Nat
    BY <2>1, <2>2, FS_Subset, FS_CardinalityType
  <2>4. remaining' = remaining /\ remaining \in Int /\ Allowed \in Int
    BY <1>2, BoundsAssumption DEF TypeOK
  <2>5. QED
    BY <2>2, <2>3, <2>4 DEF Balance
<1>6. \A h \in Handlers : Regular(h)'
  BY <1>1 DEF Regular
<1>7. QED
  BY <1>2, <1>4, <1>5, <1>6 DEF AccountInv

LEMMA AccountInit == Budget["admin"] = 0 /\ Init => AccountInv
<1> SUFFICES ASSUME Budget["admin"] = 0, Init PROVE AccountInv
  OBVIOUS
<1> USE DEF Requesting, Provisioning, Att
<1>1. /\ \A h \in Handlers : /\ call[h].op = "idle" /\ call[h].attempt = None
                             /\ call[h].at = "idle"
      /\ \A a \in Attempts : status[a] = None
      /\ \A e \in Envs : owner[e] = None
      /\ \A j \in JobKinds \X Attempts : queue[j] = 0
      /\ budget["admin"] = 0 /\ remaining = Allowed
  BY DEF Init, PlatformInit, Idle, Invocation
<1>2. \A a \in Attempts : Ledger(a) /\ Free(a)
  <2> TAKE a \in Attempts
  <2>1. a # None /\ \A kind \in JobKinds : queue[<<kind, a>>] = 0
    BY <1>1, NoneAssumption
  <2>2. Fresh(a) /\ SoleProvisioning(a)
    BY <1>1, <2>1 DEF Fresh, SoleProvisioning, Jobs, JobKinds
  <2>3. SoleRequest(a) /\ Provision(a) /\ Young(a) /\ Free(a)
    BY <1>1, <2>1 DEF SoleRequest, Provision, Young, Free, None
  <2>4. QED
    BY <2>2, <2>3 DEF Ledger
<1>3. Balance
  <2>1. Charged = {}
    BY <1>2 DEF Charged
  <2>2. QED
    BY <1>1, <2>1, FS_EmptySet, BoundsAssumption DEF Balance
<1>4. \A h \in Handlers : Regular(h)
  BY <1>1 DEF Regular
<1>5. QED
  BY <1>1, <1>2, <1>3, <1>4 DEF AccountInv

LEMMA StepAccount ==
    ASSUME TypeOK, TypeOK', AccountInv, NEW h \in Handlers, Step(h)
    PROVE  AccountInv'
<1>0. Regular(h)
  BY DEF AccountInv
<1>1. CASE StatusRead(h) \/ StatusWrite(h)
  <2>1. call[h].op = "provision_environment" => Provisioning(h, Att(h)) /\ Att(h) \in Attempts
    BY <1>0 DEF Regular, Provisioning
  <2>2. QED
    BY <1>1, <2>1, StatusReadAccount, StatusWriteAccount, ProvisionStatusAccount
<1>2. CASE AttemptStep(h)
  <2>1. CASE RequestDecrement(h) \/ RequestCreate(h) \/ RequestEnqueue(h) \/ RequestRestore(h)
    <3>1. Att(h) \in Attempts
      BY <1>0, <2>1
         DEF RequestDecrement, RequestCreate, RequestEnqueue, RequestRestore, At, Regular
    <3>2. QED
      BY <2>1, <3>1, RequestStepAccount
  <2>2. QED
    BY <1>2, <2>1, AttemptStepAccount DEF AttemptStep
<1>3. CASE OrchestratorStep(h)
  <2>1. CASE \/ ProvisionStart(h) \/ ProvisionBuild(h) \/ ProvisionRecord(h)
             \/ ProvisionConfigure(h) \/ ProvisionSession(h) \/ ProvisionTransitioned(h)
             \/ ProvisionFailureRecorded(h) \/ ProvisionFailureEnqueue(h)
             \/ RestoreAttemptCount(h)
    <3>1. Att(h) \in Attempts
      BY <1>0, <2>1
         DEF ProvisionStart, ProvisionBuild, ProvisionRecord, ProvisionConfigure,
             ProvisionSession, ProvisionTransitioned, ProvisionFailureRecorded,
             ProvisionFailureEnqueue, RestoreAttemptCount, At, Returned, Regular
    <3>2. QED
      BY <2>1, <3>1, ProvisionStepAccount, RefundAccount
  <2>2. QED
    BY <1>3, <2>1, CleanupStepAccount DEF OrchestratorStep
<1>4. CASE CompleteJob(h) \/ RetryJob(h)
  <2>1. call[h].op # "idle" => Att(h) \in Attempts
    BY <1>0 DEF Regular
  <2>2. call[h].op \notin {"idle", "request"}
    <3>1. Requesting(h, Att(h)) /\ Att(h) \in Attempts => call[h].at \notin {"done", "failed"}
      BY DEF AccountInv, Ledger, SoleRequest
    <3>2. QED
      BY <1>0, <1>4, <2>1, <3>1 DEF CompleteJob, RetryJob, Requesting, Regular
  <2>3. QED
    BY <1>4, <2>1, <2>2, RiverAccount, ProvisionEndAccount DEF Provisioning
<1>5. CASE AdminStep(h)
  BY <1>0, <1>5
     DEF AdminStep, RetryProvisionTransitioned, RetryProvisionEnqueue, At, Returned, Regular
<1>6. QED
  BY <1>1, <1>2, <1>3, <1>4, <1>5, TerminalStepAccount, GradingStepAccount,
     ReconcileStepAccount DEF Step

LEMMA AccountNext ==
    TypeOK /\ TypeOK' /\ SessionInv /\ AccountInv /\ [Next]_vars => AccountInv'
<1> SUFFICES ASSUME TypeOK, TypeOK', SessionInv, AccountInv, [Next]_vars PROVE AccountInv'
  OBVIOUS
<1>0. budget["admin"] = 0
  BY DEF AccountInv
<1>1. CASE Arrival
  <2>1. ~AdminRequests
    BY <1>0 DEF AdminRequests, RetryProvisionStart, RetryGrade, ForceDestroy, Spend
  <2>2. QED
    BY <1>1, <2>1, RequestsAccount, RequestStartAccount
       DEF Arrival, AttemptRequests, TerminalRequests
<1>2. CASE Disturbance
  <2>1. ASSUME NEW w \in Workers, DiscardJob(w)
        PROVE  AccountInv'
    <3>0. w \in Handlers /\ call[w].at = "failed"
      BY <2>1 DEF Handlers, DiscardJob
    <3>1. /\ call[w].op # "idle" /\ Att(w) \in Attempts
          /\ call[w].op # "request"
      BY <3>0 DEF AccountInv, Regular, Ledger, SoleRequest, Requesting
    <3>2. QED
      BY <2>1, <3>0, <3>1, RiverAccount, ProvisionEndAccount DEF Provisioning
  <2>2. QED
    BY <1>2, <2>1, CancelAccount, CrashAccount DEF Disturbance
<1>3. ASSUME NEW kind \in JobKinds, NEW a \in Attempts, FetchJob(kind, a)
      PROVE  AccountInv'
  BY <1>3, StartJobAccount, StartProvisionAccount DEF FetchJob
<1>4. CASE UNCHANGED vars
  <2>1. \A h \in Handlers : Alike(h)
    BY <1>4 DEF Alike, vars
  <2>2. UNCHANGED <<remaining, status, owner, queue, budget>>
    BY <1>4 DEF vars, rows, attemptRows, envRows
  <2>3. QED
    BY <2>1, <2>2, UntouchedAccount
<1>5. QED
  BY <1>1, <1>2, <1>3, <1>4, StepAccount, ReconcileAccount, PassageAccount DEF Next

\* What was given out is charged.
LEMMA GivenCharged == TypeOK /\ AccountInv => NoOverbooking
<1> SUFFICES ASSUME TypeOK, AccountInv PROVE NoOverbooking
  OBVIOUS
<1>1. Given \subseteq Charged
  BY DEF Given, GivenStatuses, Charged, Free, None
<1>2. IsFiniteSet(Charged) /\ remaining + Cardinality(Charged) <= Allowed
  BY DEF AccountInv, Balance
<1>3. /\ Cardinality(Given) \in Nat /\ Cardinality(Charged) \in Nat
      /\ Cardinality(Given) <= Cardinality(Charged)
  BY <1>1, <1>2, FS_Subset, FS_CardinalityType
<1>4. remaining \in Int /\ Allowed \in Int
  BY BoundsAssumption DEF TypeOK
<1>5. QED
  BY <1>2, <1>3, <1>4 DEF NoOverbooking

\* The purchase pays for every attempt that is given out: whatever requests,
\* jobs run twice, refunds, crashes and failed statements do, the attempts that
\* were given out and those that may still be requested are never more than
\* were bought, unless an administrator has a provisioning run again.
THEOREM PurchasePays ==
    ASSUME Budget["admin"] = 0
    PROVE  Spec => []NoOverbooking
<1>1. Init => TypeOK /\ SessionInv /\ AccountInv
  BY TypeInit, SessionInit, AccountInit
<1>2. TypeOK /\ SessionInv /\ AccountInv /\ [Next]_vars => (TypeOK /\ SessionInv /\ AccountInv)'
  BY TypeNext, SessionNext, AccountNext
<1>3. TypeOK /\ SessionInv /\ AccountInv => NoOverbooking
  BY GivenCharged
<1>4. QED
  BY <1>1, <1>2, <1>3, PTL DEF Spec
=============================================================================
