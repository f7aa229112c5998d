--------------------------- MODULE ProxmoxProofs ---------------------------
(***************************************************************************)
(* Theorems about Proxmox for every value of its constants: any number of  *)
(* environments, machines, ids and concurrent calls, and any budget of     *)
(* faults, cancellations, crashes and second destructions.                 *)
(*                                                                         *)
(* The cluster gives an id to one VM at a time, but the ids travel: from   *)
(* the answer of the cluster into a call, from there into the row of the   *)
(* environment, and into the call that destroys it.  ClusterInv says that  *)
(* on all of this way an id belongs to a VM of that environment, GoneInv   *)
(* that no VM is lost on the way.  Both hold until some environment is     *)
(* destroyed a second time: then ids are followed that lead elsewhere.     *)
(* RowsInv, on calls and rows alone, holds always.  Drift is what a step   *)
(* can do to an environment by RowsInv, Orderly what the other two add.    *)
(* Together they give the refinement of Provider, before and after.        *)
(***************************************************************************)
EXTENDS Proxmox, TLAPS

\* The VM id is up, and is for environment e only.
Ready(id, e) ==
    id \in VMIDs /\ of[id] = e /\ config[id] = e /\ power[id] = "running"

Held(id, e) ==
    id \in VMIDs /\ of[id] = e /\ power[id] \in {"stopped", "running"}

\* What a creation has behind it: the machines before its place are up, and
\* from the clone on it has an id of its own.
Creating(c) ==
    c.op = "create" =>
        /\ c.env \in begun /\ meta[c.env] = NoIDs
        /\ c.at \in {"nextid", "clone", "cloned", "configure", "start", "ip"}
        /\ \A m \in Places : m < c.place => Ready(c.ids[m], c.env)
        /\ \A m, n \in Places : m < n /\ n < c.place => c.ids[m] # c.ids[n]
        /\ c.at # "nextid" => c.id \in VMIDs
        /\ c.at \notin {"nextid", "clone"} =>
            /\ of[c.id] = c.env
            /\ \A m \in Places : m < c.place => c.ids[m] # c.id
            /\ power[c.id] = IF c.at = "ip" THEN "running" ELSE "stopped"
        /\ c.at \in {"start", "ip"} => config[c.id] = c.env

\* The places that a destruction has before it.
Remaining(c) == {m \in Places : m = 0 \/ (c.place > 0 /\ m >= c.place)}

Destroying(c) ==
    c.op = "destroy" =>
        /\ c.env \in asked
        /\ c.at \in {"stop", "delete"}
        /\ c.id = c.ids[c.place]
        /\ \A m \in Remaining(c) : Held(c.ids[m], c.env)
        /\ \A m, n \in Remaining(c) : m # n => c.ids[m] # c.ids[n]

\* No two calls are about one environment.
Alone ==
    \A g, j \in Jobs :
        ~IsIdle(g) /\ ~IsIdle(j) /\ call[g].env = call[j].env => g = j

\* A slot without a call has nothing of an earlier one.
AtRest == \A j \in Jobs : IsIdle(j) => call[j] = Idle

RowsFit ==
    /\ Returned \subseteq begun
    /\ asked \subseteq Returned
    /\ Once

ClusterInv ==
    /\ TypeOK
    /\ \A j \in Jobs : Creating(call[j]) /\ Destroying(call[j])
    /\ Alone
    /\ AtRest
    /\ RowsFit
    /\ AllWhole

-----------------------------------------------------------------------------
(* What a call leaves alone                                                *)

\* The rows and the VMs of environment e are kept.
Kept(e) ==
    /\ \A id \in VMIDs :
        of[id] = e /\ power[id] \in {"stopped", "running"} =>
            of'[id] = of[id] /\ power'[id] = power[id] /\ config'[id] = config[id]
    /\ meta'[e] = meta[e]
    /\ e \in begun => e \in begun'
    /\ e \in asked <=> e \in asked'

LEMMA CallKept ==
    ASSUME NEW c \in Calls, Creating(c), Destroying(c), Kept(c.env)
    PROVE  Creating(c)' /\ Destroying(c)'
<1>1. \A id : Ready(id, c.env) => Ready(id, c.env)'
  BY DEF Ready, Kept
<1>2. \A id : Held(id, c.env) => Held(id, c.env)'
  BY DEF Held, Kept
<1>3. Creating(c)'
  BY <1>1 DEF Creating, Kept
<1>4. Destroying(c)'
  BY <1>2 DEF Destroying, Remaining, Kept
<1>5. QED
  BY <1>3, <1>4

LEMMA WholeKept ==
    ASSUME NEW e \in Envs, Whole(e), Kept(e)
    PROVE  Whole(e)'
BY DEF Whole, Kept

LEMMA IdleType == Idle \in Calls /\ Idle.op = "idle"
BY ConstantsAssumption DEF Idle, Calls, Points, NoIDs, Places

LEMMA ActiveEnv ==
    ASSUME ClusterInv, NEW j \in Jobs, ~IsIdle(j)
    PROVE  call[j].env \in Envs /\ call[j].op \in {"create", "destroy"}
<1>1. call[j].op \in {"create", "destroy"}
  BY DEF ClusterInv, TypeOK, Calls, IsIdle
<1>2. begun \subseteq Envs /\ asked \subseteq Envs
  BY DEF ClusterInv, TypeOK
<1>3. call[j].env \in begun \cup asked
  BY <1>1 DEF ClusterInv, Creating, Destroying
<1>4. QED
  BY <1>1, <1>2, <1>3

\* No call but that of j is about environment e.
OnlyFor(j, e) == \A g \in Jobs \ {j} : ~IsIdle(g) => call[g].env # e

\* Job j, at environment e, goes on with call c.  It disturbs nothing but e, and
\* what it knows of e is right.
Turns(j, e, c) ==
    /\ TypeOK'
    /\ RowsFit'
    /\ call' = [call EXCEPT ![j] = c]
    /\ Creating(c)' /\ Destroying(c)'
    /\ c = Idle \/ (c.op # "idle" /\ c.env = e)
    /\ \A f \in Envs : f # e => Kept(f)
    /\ e \in Returned' \ asked' => Whole(e)'

LEMMA TurnKeeps ==
    ASSUME ClusterInv, NEW j \in Jobs, NEW e, OnlyFor(j, e),
           NEW c, Turns(j, e, c)
    PROVE  ClusterInv'
<1> USE DEF Turns
<1>1. \A g \in Jobs : call'[g] = IF g = j THEN c ELSE call[g]
  BY DEF ClusterInv, TypeOK
<1>2. ASSUME NEW g \in Jobs
      PROVE  (Creating(call[g]) /\ Destroying(call[g]))'
  <2>1. CASE g = j
    BY <1>1, <2>1 DEF Creating, Destroying, Remaining, Ready, Held
  <2>2. CASE g # j
    <3>1. call'[g] = call[g] /\ call[g] \in Calls
      BY <1>1, <2>2 DEF ClusterInv, TypeOK
    <3>2. Creating(call[g]) /\ Destroying(call[g])
      BY DEF ClusterInv
    <3>3. CASE IsIdle(g)
      BY <3>1, <3>3 DEF Creating, Destroying, IsIdle
    <3>4. CASE ~IsIdle(g)
      <4>1. call[g].env # e
        BY <2>2, <3>4 DEF OnlyFor
      <4>2. Kept(call[g].env)
        BY <3>4, <4>1, ActiveEnv
      <4>3. PICK d : d = call[g]
        OBVIOUS
      <4>4. d \in Calls /\ Creating(d) /\ Destroying(d) /\ Kept(d.env) /\ call'[g] = d
        BY <3>1, <3>2, <4>2, <4>3
      <4>5. Creating(d)' /\ Destroying(d)'
        BY <4>4, CallKept
      <4>6. QED
        BY <4>4, <4>5 DEF Creating, Destroying, Remaining, Ready, Held
    <3>5. QED
      BY <3>3, <3>4
  <2>3. QED
    BY <2>1, <2>2
<1>3. Alone' /\ AtRest'
  <2>1. c.op = "idle" \/ c.env = e
    BY IdleType
  <2>2. Alone'
    BY <1>1, <2>1 DEF ClusterInv, Alone, OnlyFor, IsIdle
  <2>3. AtRest'
    BY <1>1 DEF ClusterInv, AtRest, IsIdle
  <2>4. QED
    BY <2>2, <2>3
<1>4. AllWhole'
  <2> SUFFICES ASSUME NEW f \in Returned' \ asked'
               PROVE  Whole(f)'
    BY DEF AllWhole
  <2>1. f \in Envs
    BY DEF Returned
  <2>2. CASE f # e
    <3>1. Kept(f) /\ f \in Returned \ asked
      BY <2>1, <2>2 DEF Kept, Returned
    <3>2. QED
      BY <2>1, <3>1, WholeKept DEF ClusterInv, AllWhole
  <2>3. QED
    BY <2>2
<1>5. QED
  BY <1>2, <1>3, <1>4 DEF ClusterInv

-----------------------------------------------------------------------------
(* The same for each kind of call                                          *)

BudgetFits == budget \in [BudgetKinds -> Nat] /\ Once

LEMMA BudgetKept ==
    ASSUME ClusterInv, NEW j \in Jobs
    PROVE  /\ UNCHANGED budget => BudgetFits'
           /\ \A kind \in {"fault", "cancel", "crash"} : Spend(kind) => BudgetFits'
           /\ Works(j) => BudgetFits'
           /\ Fails(j) => BudgetFits'
           /\ \A reason : Refused(j, reason) => BudgetFits'
           /\ Happens(j) => BudgetFits'
<1>1. BudgetFits
  BY DEF ClusterInv, TypeOK, RowsFit, BudgetFits
<1>2. \A kind \in {"fault", "cancel", "crash"} : Spend(kind) => BudgetFits'
  BY <1>1 DEF Spend, BudgetFits, BudgetKinds, Once
<1>3. UNCHANGED budget => BudgetFits'
  BY <1>1 DEF BudgetFits, Once
<1>4. QED
  BY <1>2, <1>3 DEF Works, Fails, Refused, Happens

ClusterTypes ==
    /\ power \in [VMIDs -> {"free", "stopped", "running", "deleting"}]
    /\ of \in [VMIDs -> Envs \cup {None}]
    /\ config \in [VMIDs -> Envs \cup {None}]

\* No VM in use changes but those of environment e.
OnlyAt(e) ==
    /\ ClusterTypes'
    /\ \A id \in VMIDs :
        of[id] # e /\ power[id] \in {"stopped", "running"} =>
            power'[id] = power[id] /\ of'[id] = of[id] /\ config'[id] = config[id]

LEMMA OthersKept ==
    ASSUME NEW e, OnlyAt(e), UNCHANGED rows
    PROVE  \A f \in Envs : f # e => Kept(f)
BY DEF OnlyAt, Kept, rows

LEMMA ClusterKept ==
    ASSUME ClusterInv, UNCHANGED cluster
    PROVE  \A e : OnlyAt(e)
BY DEF ClusterInv, TypeOK, ClusterTypes, OnlyAt, cluster

\* A creation goes on, or returns without a result.
LEMMA CreateTurns ==
    ASSUME ClusterInv, NEW j \in Jobs, call[j].op = "create",
           NEW e, call[j].env = e,
           NEW c \in Calls, call' = [call EXCEPT ![j] = c],
           c = Idle \/ (c.op = "create" /\ c.env = e), Creating(c)',
           OnlyAt(e), UNCHANGED rows, BudgetFits'
    PROVE  ClusterInv'
<1>1. OnlyFor(j, e) /\ meta[e] = NoIDs
  BY DEF IsIdle, OnlyFor, ClusterInv, Alone, Creating
<1>2. TypeOK' /\ RowsFit'
  BY DEF ClusterInv, TypeOK, RowsFit, OnlyAt, ClusterTypes, BudgetFits, rows, Returned
<1>3. Destroying(c)'
  BY IdleType DEF Destroying
<1>4. e \notin Returned'
  BY <1>1 DEF Returned, rows
<1>5. Turns(j, e, c)
  BY <1>2, <1>3, <1>4, OthersKept DEF Turns
<1>6. QED
  BY <1>1, <1>5, TurnKeeps

\* A destruction goes on, or returns.
LEMMA DestroyTurns ==
    ASSUME ClusterInv, NEW j \in Jobs, call[j].op = "destroy",
           NEW e, call[j].env = e,
           NEW c \in Calls, call' = [call EXCEPT ![j] = c],
           c = Idle \/ (c.op = "destroy" /\ c.env = e), Destroying(c)',
           OnlyAt(e), UNCHANGED rows, BudgetFits'
    PROVE  ClusterInv'
<1>1. OnlyFor(j, e) /\ e \in asked
  BY DEF IsIdle, OnlyFor, ClusterInv, Alone, Destroying
<1>2. TypeOK' /\ RowsFit'
  BY DEF ClusterInv, TypeOK, RowsFit, OnlyAt, ClusterTypes, BudgetFits, rows, Returned
<1>3. Creating(c)'
  BY IdleType DEF Creating
<1>4. e \in asked'
  BY <1>1 DEF rows
<1>5. Turns(j, e, c)
  BY <1>2, <1>3, <1>4, OthersKept DEF Turns
<1>6. QED
  BY <1>1, <1>5, TurnKeeps

\* A call returns while nothing happens, or something to a VM of its own.
LEMMA ReturnTurns ==
    ASSUME ClusterInv, NEW j \in Jobs, ~IsIdle(j), Return(j),
           OnlyAt(call[j].env), UNCHANGED rows, BudgetFits'
    PROVE  ClusterInv'
<1>1. PICK c : c = Idle
  OBVIOUS
<1>2. c \in Calls /\ c = Idle /\ c.op = "idle" /\ call' = [call EXCEPT ![j] = c]
  BY <1>1, IdleType DEF Return, Become
<1>3. Creating(c)' /\ Destroying(c)'
  BY <1>2 DEF Creating, Destroying
<1>4. PICK e : call[j].env = e /\ OnlyAt(e)
  OBVIOUS
<1>5. CASE call[j].op = "create"
  BY <1>2, <1>3, <1>4, <1>5, CreateTurns
<1>6. CASE call[j].op = "destroy"
  BY <1>2, <1>3, <1>4, <1>6, DestroyTurns
<1>7. QED
  BY <1>5, <1>6, ActiveEnv

\* Whose call it is can be told from its point.
LEMMA CreatesAt ==
    ASSUME ClusterInv, NEW j \in Jobs,
           call[j].at \in {"nextid", "clone", "cloned", "configure", "start", "ip"}
    PROVE  call[j].op = "create" /\ call[j] \in Calls /\ Creating(call[j])
<1>1. call[j].op \in {"idle", "create", "destroy"}
  BY DEF ClusterInv, TypeOK, Calls
<1>2. call[j].op # "idle"
  BY DEF ClusterInv, AtRest, IsIdle, Idle
<1>3. call[j].op # "destroy"
  BY DEF ClusterInv, Destroying
<1>4. QED
  BY <1>1, <1>2, <1>3 DEF ClusterInv, TypeOK

LEMMA DestroysAt ==
    ASSUME ClusterInv, NEW j \in Jobs, call[j].at \in {"stop", "delete"}
    PROVE  call[j].op = "destroy" /\ call[j] \in Calls /\ Destroying(call[j])
<1>1. call[j].op \in {"idle", "create", "destroy"}
  BY DEF ClusterInv, TypeOK, Calls
<1>2. call[j].op # "idle"
  BY DEF ClusterInv, AtRest, IsIdle, Idle
<1>3. call[j].op # "create"
  BY DEF ClusterInv, Creating
<1>4. QED
  BY <1>1, <1>2, <1>3 DEF ClusterInv, TypeOK

\* Nothing happens but that the call returns.
LEMMA QuietReturn ==
    ASSUME ClusterInv, NEW j \in Jobs, ~IsIdle(j), Return(j),
           UNCHANGED cluster, UNCHANGED rows, BudgetFits'
    PROVE  ClusterInv'
BY ReturnTurns, ClusterKept

-----------------------------------------------------------------------------
(* CreateEnvironment                                                       *)

LEMMA NextVMIDKeeps ==
    ASSUME ClusterInv, NEW j \in Jobs, NextVMID(j)
    PROVE  ClusterInv'
<1>1. PICK d : d = call[j]
  OBVIOUS
<1>2. d.op = "create" /\ d \in Calls /\ Creating(d) /\ d.at = "nextid" /\ ~IsIdle(j)
  BY <1>1, CreatesAt DEF NextVMID, At, IsIdle
<1>3. UNCHANGED cluster /\ UNCHANGED rows /\ BudgetFits'
  BY BudgetKept DEF NextVMID
<1>4. ASSUME NEW id \in VMIDs, Become(j, [d EXCEPT !.at = "clone", !.id = id])
      PROVE  ClusterInv'
  <2>1. PICK c : c = [d EXCEPT !.at = "clone", !.id = id]
    OBVIOUS
  <2>2. /\ c \in Calls /\ c.op = "create" /\ c.env = d.env /\ c.at = "clone"
        /\ c.place = d.place /\ c.ids = d.ids /\ c.id = id
        /\ call' = [call EXCEPT ![j] = c]
    BY <1>2, <1>4, <2>1 DEF Calls, Points, Become
  <2>3. Creating(c)'
    BY <1>2, <1>3, <2>2 DEF Creating, Ready, cluster, rows
  <2>4. PICK e : e = d.env
    OBVIOUS
  <2>5. OnlyAt(e)
    BY <1>3, ClusterKept
  <2>6. QED
    BY <1>1, <1>2, <1>3, <2>2, <2>3, <2>4, <2>5, CreateTurns
<1>5. CASE Return(j)
  BY <1>2, <1>3, <1>5, QuietReturn
<1>6. QED
  BY <1>1, <1>4, <1>5 DEF NextVMID

LEMMA TakeEffect ==
    ASSUME ClusterInv, NEW j \in Jobs, NEW d, d = call[j], d \in Calls,
           d.op = "create", d.id \in VMIDs, Take(j)
    PROVE  /\ OnlyAt(d.env) /\ of'[d.id] = d.env /\ power'[d.id] = "stopped"
           /\ \A id \in VMIDs : Ready(id, d.env) => id # d.id /\ Ready(id, d.env)'
<1>1. d.env \in Envs
  BY ActiveEnv DEF IsIdle
<1>2. ClusterTypes'
  BY <1>1 DEF ClusterInv, TypeOK, ClusterTypes, Take
<1>3. \A id \in VMIDs :
          /\ power'[id] = IF id = d.id THEN "stopped" ELSE power[id]
          /\ of'[id] = IF id = d.id THEN d.env ELSE of[id]
          /\ config'[id] = IF id = d.id THEN None ELSE config[id]
  BY DEF ClusterInv, TypeOK, Take
<1>4. power[d.id] = "free"
  BY DEF Take
<1>5. QED
  BY <1>2, <1>3, <1>4 DEF OnlyAt, Ready

LEMMA CloneVMKeeps ==
    ASSUME ClusterInv, NEW j \in Jobs, CloneVM(j)
    PROVE  ClusterInv'
<1>1. PICK d : d = call[j]
  OBVIOUS
<1>2. /\ d.op = "create" /\ d \in Calls /\ Creating(d) /\ d.at = "clone" /\ ~IsIdle(j)
      /\ d.id \in VMIDs
  BY <1>1, CreatesAt DEF CloneVM, At, IsIdle, Creating
<1>3. UNCHANGED rows /\ BudgetFits'
  BY BudgetKept DEF CloneVM
<1>4. CASE Take(j) /\ Goto(j, "cloned")
  <2>1. PICK c : c = [d EXCEPT !.at = "cloned"]
    OBVIOUS
  <2>2. /\ c \in Calls /\ c.op = "create" /\ c.env = d.env /\ c.at = "cloned"
        /\ c.place = d.place /\ c.ids = d.ids /\ c.id = d.id
        /\ call' = [call EXCEPT ![j] = c]
    BY <1>1, <1>2, <1>4, <2>1 DEF Calls, Points, Goto, Become
  <2>3. PICK e : e = d.env
    OBVIOUS
  <2>4. /\ OnlyAt(e) /\ of'[d.id] = e /\ power'[d.id] = "stopped"
        /\ \A id \in VMIDs : Ready(id, e) => id # d.id /\ Ready(id, e)'
    BY <1>1, <1>2, <1>4, <2>3, TakeEffect
  <2>5. \A m \in Places : m < d.place =>
            d.ids[m] # d.id /\ Ready(d.ids[m], e)'
    BY <1>2, <2>3, <2>4 DEF Creating, Ready
  <2>6. Creating(c)'
    BY <1>2, <1>3, <2>2, <2>3, <2>4, <2>5 DEF Creating, rows
  <2>7. QED
    BY <1>1, <1>2, <1>3, <2>2, <2>3, <2>4, <2>6, CreateTurns
<1>5. CASE /\ Become(j, [d EXCEPT !.at = "nextid", !.id = None, !.tries = @ + 1])
           /\ d.tries + 1 < cloneVMIDAttempts
           /\ UNCHANGED cluster
  <2>1. PICK c : c = [d EXCEPT !.at = "nextid", !.id = None, !.tries = @ + 1]
    OBVIOUS
  <2>2. d.tries + 1 \in 0..cloneVMIDAttempts
    BY <1>2, <1>5, ConstantsAssumption DEF Calls
  <2>3. /\ c \in Calls /\ c.op = "create" /\ c.env = d.env /\ c.at = "nextid"
        /\ c.place = d.place /\ c.ids = d.ids
        /\ call' = [call EXCEPT ![j] = c]
    BY <1>2, <1>5, <2>1, <2>2 DEF Calls, Points, Become
  <2>4. Creating(c)'
    BY <1>2, <1>3, <1>5, <2>3 DEF Creating, Ready, cluster, rows
  <2>5. PICK e : e = d.env
    OBVIOUS
  <2>6. OnlyAt(e)
    BY <1>5, ClusterKept
  <2>7. QED
    BY <1>1, <1>2, <1>3, <2>3, <2>4, <2>5, <2>6, CreateTurns
<1>6. CASE Return(j) /\ Take(j)
  BY <1>1, <1>2, <1>3, <1>6, TakeEffect, ReturnTurns
<1>7. CASE Return(j) /\ UNCHANGED cluster
  BY <1>2, <1>3, <1>7, QuietReturn
<1>8. QED
  BY <1>1, <1>4, <1>5, <1>6, <1>7 DEF CloneVM, AnotherID

LEMMA ClonedKeeps ==
    ASSUME ClusterInv, NEW j \in Jobs, Cloned(j)
    PROVE  ClusterInv'
<1>1. PICK d : d = call[j]
  OBVIOUS
<1>2. /\ d.op = "create" /\ d \in Calls /\ Creating(d) /\ d.at = "cloned" /\ ~IsIdle(j)
      /\ d.id \in VMIDs /\ of[d.id] = d.env /\ power[d.id] = "stopped"
  BY <1>1, CreatesAt DEF Cloned, At, IsIdle, Creating
<1>3. UNCHANGED rows /\ BudgetFits' /\ UNCHANGED config
  BY BudgetKept DEF Cloned
<1>4. CASE Goto(j, "configure") /\ UNCHANGED <<power, of>>
  <2>1. PICK c : c = [d EXCEPT !.at = "configure"]
    OBVIOUS
  <2>2. /\ c \in Calls /\ c.op = "create" /\ c.env = d.env /\ c.at = "configure"
        /\ c.place = d.place /\ c.ids = d.ids /\ c.id = d.id
        /\ call' = [call EXCEPT ![j] = c]
    BY <1>1, <1>2, <1>4, <2>1 DEF Calls, Points, Goto, Become
  <2>3. Creating(c)'
    BY <1>2, <1>3, <1>4, <2>2 DEF Creating, Ready, rows
  <2>4. PICK e : e = d.env
    OBVIOUS
  <2>5. OnlyAt(e)
    BY <1>3, <1>4, ClusterKept DEF cluster
  <2>6. QED
    BY <1>1, <1>2, <1>3, <2>2, <2>3, <2>4, <2>5, CreateTurns
<1>5. CASE Return(j) /\ UNCHANGED <<power, of>>
  BY <1>2, <1>3, <1>5, QuietReturn DEF cluster
<1>6. CASE /\ Return(j)
           /\ power' = [power EXCEPT ![d.id] = "free"]
           /\ of' = [of EXCEPT ![d.id] = None]
  <2>1. ClusterTypes'
    BY <1>3, <1>6 DEF ClusterInv, TypeOK, ClusterTypes
  <2>2. OnlyAt(call[j].env)
    BY <1>1, <1>2, <1>3, <1>6, <2>1 DEF OnlyAt, ClusterInv, TypeOK
  <2>3. QED
    BY <1>2, <1>3, <1>6, <2>2, ReturnTurns
<1>7. CASE /\ Become(j, [d EXCEPT !.at = "nextid", !.id = None, !.tries = @ + 1])
           /\ d.tries + 1 < cloneVMIDAttempts
           /\ \/ UNCHANGED <<power, of>>
              \/ /\ power' = [power EXCEPT ![d.id] = "free"]
                 /\ of' = [of EXCEPT ![d.id] = None]
  <2>1. PICK c : c = [d EXCEPT !.at = "nextid", !.id = None, !.tries = @ + 1]
    OBVIOUS
  <2>2. d.tries + 1 \in 0..cloneVMIDAttempts
    BY <1>2, <1>7, ConstantsAssumption DEF Calls
  <2>3. /\ c \in Calls /\ c.op = "create" /\ c.env = d.env /\ c.at = "nextid"
        /\ c.place = d.place /\ c.ids = d.ids
        /\ call' = [call EXCEPT ![j] = c]
    BY <1>2, <1>7, <2>1, <2>2 DEF Calls, Points, Become
  <2>4. \A id \in VMIDs : id # d.id => power'[id] = power[id] /\ of'[id] = of[id]
    BY <1>7 DEF ClusterInv, TypeOK
  <2>5. Creating(c)'
    BY <1>2, <1>3, <2>3, <2>4 DEF Creating, Ready, rows
  <2>6. PICK e : e = d.env
    OBVIOUS
  <2>7. ClusterTypes'
    BY <1>3, <1>7 DEF ClusterInv, TypeOK, ClusterTypes
  <2>8. OnlyAt(e)
    BY <1>2, <1>3, <2>4, <2>6, <2>7 DEF OnlyAt
  <2>9. QED
    BY <1>1, <1>2, <1>3, <2>3, <2>5, <2>6, <2>8, CreateTurns
<1>8. QED
  BY <1>1, <1>4, <1>5, <1>6, <1>7 DEF Cloned, AnotherID

LEMMA ConfigureVMKeeps ==
    ASSUME ClusterInv, NEW j \in Jobs, ConfigureVM(j)
    PROVE  ClusterInv'
<1>1. PICK d : d = call[j]
  OBVIOUS
<1>2. /\ d.op = "create" /\ d \in Calls /\ Creating(d) /\ d.at = "configure"
      /\ ~IsIdle(j)
      /\ d.id \in VMIDs /\ of[d.id] = d.env /\ power[d.id] = "stopped"
  BY <1>1, CreatesAt DEF ConfigureVM, At, IsIdle, Creating
<1>3. UNCHANGED rows /\ BudgetFits' /\ UNCHANGED <<power, of>>
  BY BudgetKept DEF ConfigureVM
<1>4. CASE /\ config' = [config EXCEPT ![d.id] = d.env]
           /\ Goto(j, "start")
  <2>1. PICK c : c = [d EXCEPT !.at = "start"]
    OBVIOUS
  <2>2. /\ c \in Calls /\ c.op = "create" /\ c.env = d.env /\ c.at = "start"
        /\ c.place = d.place /\ c.ids = d.ids /\ c.id = d.id
        /\ call' = [call EXCEPT ![j] = c]
    BY <1>1, <1>2, <1>4, <2>1 DEF Calls, Points, Goto, Become
  <2>3. PICK e : e = d.env
    OBVIOUS
  <2>4. e \in Envs
    BY <1>1, <1>2, <2>3, ActiveEnv
  <2>5. \A id \in VMIDs : config'[id] = IF id = d.id THEN e ELSE config[id]
    BY <1>4, <2>3 DEF ClusterInv, TypeOK
  <2>6. OnlyAt(e)
    BY <1>2, <1>3, <1>4, <2>3, <2>4, <2>5 DEF OnlyAt, ClusterTypes, ClusterInv, TypeOK
  <2>7. \A m \in Places : m < d.place => Ready(d.ids[m], e)'
    BY <1>2, <1>3, <2>3, <2>5 DEF Creating, Ready
  <2>8. Creating(c)'
    BY <1>2, <1>3, <2>2, <2>3, <2>5, <2>7 DEF Creating, rows
  <2>9. QED
    BY <1>1, <1>2, <1>3, <2>2, <2>3, <2>6, <2>8, CreateTurns
<1>5. CASE Return(j) /\ UNCHANGED config
  BY <1>2, <1>3, <1>5, QuietReturn DEF cluster
<1>6. QED
  BY <1>1, <1>4, <1>5 DEF ConfigureVM

LEMMA StartVMKeeps ==
    ASSUME ClusterInv, NEW j \in Jobs, StartVM(j)
    PROVE  ClusterInv'
<1>1. PICK d : d = call[j]
  OBVIOUS
<1>2. /\ d.op = "create" /\ d \in Calls /\ Creating(d) /\ d.at = "start" /\ ~IsIdle(j)
      /\ d.id \in VMIDs /\ of[d.id] = d.env /\ config[d.id] = d.env
  BY <1>1, CreatesAt DEF StartVM, At, IsIdle, Creating
<1>3. UNCHANGED rows /\ BudgetFits' /\ UNCHANGED <<of, config>>
  BY BudgetKept DEF StartVM
<1>4. PICK e : e = d.env
  OBVIOUS
<1>5. CASE /\ power' = [power EXCEPT ![d.id] = "running"]
           /\ Goto(j, "ip") \/ Return(j)
  <2>1. \A id \in VMIDs : power'[id] = IF id = d.id THEN "running" ELSE power[id]
    BY <1>5 DEF ClusterInv, TypeOK
  <2>2. OnlyAt(e)
    BY <1>2, <1>3, <1>4, <1>5, <2>1 DEF OnlyAt, ClusterTypes, ClusterInv, TypeOK
  <2>3. CASE Goto(j, "ip")
    <3>1. PICK c : c = [d EXCEPT !.at = "ip"]
      OBVIOUS
    <3>2. /\ c \in Calls /\ c.op = "create" /\ c.env = d.env /\ c.at = "ip"
          /\ c.place = d.place /\ c.ids = d.ids /\ c.id = d.id
          /\ call' = [call EXCEPT ![j] = c]
      BY <1>1, <1>2, <2>3, <3>1 DEF Calls, Points, Goto, Become
    <3>3. \A m \in Places : m < d.place => Ready(d.ids[m], e)'
      BY <1>2, <1>3, <1>4, <2>1 DEF Creating, Ready
    <3>4. Creating(c)'
      BY <1>2, <1>3, <1>4, <2>1, <3>2, <3>3 DEF Creating, rows
    <3>5. QED
      BY <1>1, <1>2, <1>3, <1>4, <2>2, <3>2, <3>4, CreateTurns
  <2>4. CASE Return(j)
    BY <1>1, <1>2, <1>3, <1>4, <2>2, <2>4, ReturnTurns
  <2>5. QED
    BY <1>5, <2>3, <2>4
<1>6. CASE Return(j) /\ UNCHANGED power
  BY <1>2, <1>3, <1>6, QuietReturn DEF cluster
<1>7. QED
  BY <1>1, <1>5, <1>6 DEF StartVM

\* The ids of the environment, complete but for those behind the place.
LEMMA WaitForIPKeeps ==
    ASSUME ClusterInv, NEW j \in Jobs, WaitForIP(j)
    PROVE  ClusterInv'
<1>1. PICK d : d = call[j]
  OBVIOUS
<1>2. /\ d.op = "create" /\ d \in Calls /\ Creating(d) /\ d.at = "ip" /\ ~IsIdle(j)
      /\ Ready(d.id, d.env)
  BY <1>1, CreatesAt DEF WaitForIP, At, IsIdle, Creating, Ready
<1>3. UNCHANGED cluster /\ UNCHANGED <<begun, asked>> /\ BudgetFits'
  BY BudgetKept DEF WaitForIP
<1>4. PICK e : e = d.env
  OBVIOUS
<1>5. e \in Envs /\ OnlyAt(e) /\ e \in begun /\ meta[e] = NoIDs /\ OnlyFor(j, e)
  BY <1>1, <1>2, <1>3, <1>4, ActiveEnv, ClusterKept
     DEF Creating, ClusterInv, Alone, OnlyFor
<1>6. PICK ids : ids = [d.ids EXCEPT ![d.place] = d.id]
  OBVIOUS
<1>7. /\ ids \in [Places -> VMIDs \cup {None}]
      /\ d.place \in 0..Nodes
      /\ \A m \in Places : m <= d.place => Ready(ids[m], e)
      /\ \A m, n \in Places : m < n /\ n <= d.place => ids[m] # ids[n]
  <2>1. /\ d.ids \in [Places -> VMIDs \cup {None}] /\ d.place \in Places
        /\ d.id \in VMIDs \cup {None}
    BY <1>2 DEF Calls
  <2>2. \A m \in Places : ids[m] = IF m = d.place THEN d.id ELSE d.ids[m]
    BY <1>6, <2>1
  <2>3. \A m \in Places : m < d.place => Ready(d.ids[m], e) /\ d.ids[m] # d.id
    BY <1>2, <1>4 DEF Creating
  <2>4. \A m, n \in Places : m < n /\ n < d.place => d.ids[m] # d.ids[n]
    BY <1>2 DEF Creating
  <2>5. ids \in [Places -> VMIDs \cup {None}]
    BY <1>6, <2>1
  <2>6. \A m \in Places : m <= d.place => Ready(ids[m], e)
    BY <1>2, <1>4, <2>1, <2>2, <2>3, ConstantsAssumption DEF Places
  <2>7. \A m, n \in Places : m < n /\ n <= d.place => ids[m] # ids[n]
    BY <2>1, <2>2, <2>3, <2>4, ConstantsAssumption DEF Places
  <2>8. QED
    BY <2>1, <2>5, <2>6, <2>7 DEF Places
<1>8. CASE /\ d.place < Nodes
           /\ Become(j, [Idle EXCEPT !.op = "create", !.at = "nextid", !.env = d.env,
                                     !.place = d.place + 1, !.ids = ids])
           /\ UNCHANGED meta
  <2>1. PICK c : c = [Idle EXCEPT !.op = "create", !.at = "nextid", !.env = d.env,
                                  !.place = d.place + 1, !.ids = ids]
    OBVIOUS
  <2>2. d.place + 1 \in Places
    BY <1>7, <1>8, ConstantsAssumption DEF Places
  <2>3. /\ c \in Calls /\ c.op = "create" /\ c.env = e /\ c.at = "nextid"
        /\ c.place = d.place + 1 /\ c.ids = ids
        /\ call' = [call EXCEPT ![j] = c]
    BY <1>4, <1>5, <1>7, <1>8, <2>1, <2>2, IdleType DEF Calls, Points, Become
  <2>4. \A m \in Places : m < d.place + 1 => m <= d.place
    BY <1>7, ConstantsAssumption DEF Places
  <2>5. \A id : Ready(id, e) => Ready(id, e)'
    BY <1>3 DEF Ready, cluster
  <2>6. Creating(c)'
    BY <1>3, <1>5, <1>7, <1>8, <2>3, <2>4, <2>5 DEF Creating
  <2>7. UNCHANGED rows
    BY <1>3, <1>8 DEF rows
  <2>8. QED
    BY <1>1, <1>2, <1>3, <1>4, <1>5, <2>3, <2>6, <2>7, CreateTurns
<1>9. CASE ~(d.place < Nodes) /\ Return(j) /\ meta' = [meta EXCEPT ![e] = ids]
  <2>1. PICK c : c = Idle
    OBVIOUS
  <2>2. /\ c = Idle /\ c \in Calls /\ c.op = "idle" /\ call' = [call EXCEPT ![j] = c]
    BY <1>9, <2>1, IdleType DEF Return, Become
  <2>3. \A f \in Envs : meta'[f] = IF f = e THEN ids ELSE meta[f]
    BY <1>9 DEF ClusterInv, TypeOK
  <2>4. meta' \in [Envs -> [Places -> VMIDs \cup {None}]]
    BY <1>5, <1>7, <1>9 DEF ClusterInv, TypeOK
  <2>5. TypeOK'
    BY <1>3, <2>2, <2>4 DEF ClusterInv, TypeOK, BudgetFits, cluster
  <2>6. RowsFit'
    BY <1>3, <1>5, <2>3 DEF ClusterInv, RowsFit, Returned, BudgetFits
  <2>7. \A f \in Envs : f # e => Kept(f)
    BY <1>3, <2>3 DEF Kept, cluster
  <2>8. d.place = Nodes
    BY <1>7, <1>9, ConstantsAssumption
  <2>9. \A m \in Places : m <= Nodes
    BY ConstantsAssumption DEF Places
  <2>10. Whole(e)'
    <3>1. \A m \in Places : Ready(ids[m], e)
      BY <1>7, <2>8, <2>9
    <3>2. ASSUME NEW m \in Places, NEW n \in Places, m # n
          PROVE  ids[m] # ids[n]
      <4>1. m < n \/ n < m
        BY <3>2, ConstantsAssumption DEF Places
      <4>2. QED
        BY <1>7, <2>8, <2>9, <4>1
    <3>3. QED
      BY <1>3, <1>5, <2>3, <3>1, <3>2 DEF Whole, Ready, cluster
  <2>11. Creating(c)' /\ Destroying(c)'
    BY <2>2 DEF Creating, Destroying
  <2>12. Turns(j, e, c)
    BY <2>2, <2>5, <2>6, <2>7, <2>10, <2>11 DEF Turns
  <2>13. QED
    BY <1>5, <2>12, TurnKeeps
<1>10. CASE Return(j) /\ UNCHANGED meta
  BY <1>2, <1>3, <1>10, QuietReturn DEF rows
<1>11. QED
  BY <1>1, <1>4, <1>6, <1>8, <1>9, <1>10 DEF WaitForIP

\* An environment that was never asked for is in no call and has no VM.
LEMMA CreateStartKeeps ==
    ASSUME ClusterInv, NEW j \in Jobs, NEW e \in Envs, CreateStart(j, e)
    PROVE  ClusterInv'
<1>1. PICK c : c = [Idle EXCEPT !.op = "create", !.at = "nextid", !.env = e]
  OBVIOUS
<1>2. /\ c \in Calls /\ c.op = "create" /\ c.at = "nextid" /\ c.env = e /\ c.place = 0
      /\ call' = [call EXCEPT ![j] = c]
  BY <1>1, IdleType DEF Calls, Points, CreateStart, Become, Idle
<1>3. e \notin begun /\ e \notin asked /\ meta[e] = NoIDs
  BY DEF CreateStart, ClusterInv, RowsFit, Returned
<1>4. OnlyFor(j, e)
  <2> SUFFICES ASSUME NEW g \in Jobs \ {j}, ~IsIdle(g), call[g].env = e PROVE FALSE
    BY DEF OnlyFor
  <2>1. call[g].op \in {"create", "destroy"}
    BY ActiveEnv
  <2>2. QED
    BY <1>3, <2>1 DEF ClusterInv, Creating, Destroying
<1>5. BudgetFits'
  BY BudgetKept DEF CreateStart
<1>6. TypeOK' /\ RowsFit'
  BY <1>2, <1>5 DEF CreateStart, ClusterInv, TypeOK, RowsFit, Returned, BudgetFits, cluster
<1>7. \A f \in Envs : f # e => Kept(f)
  BY DEF CreateStart, Kept, cluster
<1>8. Creating(c)'
  BY <1>2, <1>3, ConstantsAssumption DEF CreateStart, Creating, Places
<1>9. Destroying(c)' /\ e \notin Returned'
  BY <1>2, <1>3 DEF CreateStart, Destroying, Returned
<1>10. Turns(j, e, c)
  BY <1>2, <1>6, <1>7, <1>8, <1>9 DEF Turns
<1>11. QED
  BY <1>4, <1>10, TurnKeeps

-----------------------------------------------------------------------------
(* DestroyEnvironment                                                      *)

LEMMA DestroyStartKeeps ==
    ASSUME ClusterInv, NEW j \in Jobs, NEW e \in Envs, DestroyStart(j, e),
           Once'
    PROVE  ClusterInv'
<1>1. PICK c : c = [Idle EXCEPT !.op = "destroy", !.at = "stop", !.env = e,
                                !.place = FirstPlace, !.id = meta[e][FirstPlace],
                                !.ids = meta[e]]
  OBVIOUS
<1>2. FirstPlace \in Places
  BY ConstantsAssumption DEF FirstPlace, Places
<1>3. meta[e] \in [Places -> VMIDs \cup {None}]
  BY DEF ClusterInv, TypeOK
<1>4. /\ c \in Calls /\ c.op = "destroy" /\ c.at = "stop" /\ c.env = e
      /\ c.place = FirstPlace /\ c.ids = meta[e] /\ c.id = meta[e][FirstPlace]
      /\ call' = [call EXCEPT ![j] = c]
  BY <1>1, <1>2, <1>3, IdleType DEF Calls, Points, DestroyStart, Become
<1>5. e \in Returned \ asked /\ UNCHANGED budget /\ Whole(e)
  BY DEF DestroyStart, Spend, Once, ClusterInv, RowsFit, TypeOK, Returned, AllWhole,
         BudgetKinds
<1>6. OnlyFor(j, e)
  <2> SUFFICES ASSUME NEW g \in Jobs \ {j}, ~IsIdle(g), call[g].env = e PROVE FALSE
    BY DEF OnlyFor
  <2>1. call[g].op \in {"create", "destroy"}
    BY ActiveEnv
  <2>2. QED
    BY <1>5, <2>1 DEF ClusterInv, Creating, Destroying, Returned
<1>7. BudgetFits'
  BY <1>5, BudgetKept
<1>8. UNCHANGED <<cluster, begun, meta>> /\ asked' = asked \cup {e}
  BY DEF DestroyStart
<1>9. TypeOK' /\ RowsFit'
  BY <1>4, <1>5, <1>7, <1>8
     DEF ClusterInv, TypeOK, RowsFit, Returned, BudgetFits, cluster
<1>10. \A f \in Envs : f # e => Kept(f)
  BY <1>8 DEF Kept, cluster
<1>11. Destroying(c)'
  <2>1. \A m \in Places : Held(meta[e][m], e)
    BY <1>5 DEF Whole, Held
  <2>2. \A m \in Places : Held(c.ids[m], e)'
    BY <1>4, <1>8, <2>1 DEF Held, cluster
  <2>3. \A m, n \in Places : m # n => c.ids[m] # c.ids[n]
    BY <1>4, <1>5 DEF Whole
  <2>4. Remaining(c) \subseteq Places
    BY DEF Remaining
  <2>5. QED
    BY <1>4, <1>8, <2>2, <2>3, <2>4 DEF Destroying
<1>12. Creating(c)' /\ e \in asked'
  BY <1>4, <1>8 DEF Creating
<1>13. Turns(j, e, c)
  BY <1>4, <1>9, <1>10, <1>11, <1>12 DEF Turns
<1>14. QED
  BY <1>6, <1>13, TurnKeeps

LEMMA StopVMKeeps ==
    ASSUME ClusterInv, NEW j \in Jobs, StopVM(j)
    PROVE  ClusterInv'
<1>1. PICK d : d = call[j]
  OBVIOUS
<1>2. d.op = "destroy" /\ d \in Calls /\ Destroying(d) /\ d.at = "stop"
  BY <1>1, DestroysAt DEF StopVM, At
<1>3. UNCHANGED rows /\ BudgetFits' /\ UNCHANGED <<of, config>>
  BY BudgetKept DEF StopVM
<1>4. PICK c : c = [d EXCEPT !.at = "delete"]
  OBVIOUS
<1>5. /\ c \in Calls /\ c.op = "destroy" /\ c.env = d.env /\ c.at = "delete"
      /\ c.place = d.place /\ c.ids = d.ids /\ c.id = d.id
      /\ call' = [call EXCEPT ![j] = c]
  BY <1>1, <1>2, <1>4 DEF Calls, Points, StopVM, Goto, Become
<1>6. PICK e : e = d.env
  OBVIOUS
<1>7. d.place \in Remaining(d) /\ Held(d.id, e)
  <2>1. d.place \in Places
    BY <1>2 DEF Calls
  <2>2. d.place \in Remaining(d)
    BY <2>1, ConstantsAssumption DEF Remaining, Places
  <2>3. QED
    BY <1>2, <1>6, <2>2 DEF Destroying
<1>8. /\ power' \in [VMIDs -> {"free", "stopped", "running", "deleting"}]
      /\ \A id \in VMIDs : power'[id] = power[id] \/ (id = d.id /\ power'[id] = "stopped")
  BY <1>1 DEF StopVM, ClusterInv, TypeOK
<1>9. OnlyAt(e)
  BY <1>3, <1>7, <1>8 DEF OnlyAt, ClusterTypes, ClusterInv, TypeOK, Held
<1>10. \A id : Held(id, e) => Held(id, e)'
  BY <1>3, <1>8 DEF Held
<1>11. Remaining(c) = Remaining(d)
  BY <1>5 DEF Remaining
<1>12. Destroying(c)'
  BY <1>2, <1>3, <1>5, <1>6, <1>10, <1>11 DEF Destroying, rows
<1>13. QED
  BY <1>1, <1>2, <1>3, <1>5, <1>6, <1>9, <1>12, DestroyTurns

LEMMA DeleteVMKeeps ==
    ASSUME ClusterInv, NEW j \in Jobs, DeleteVM(j)
    PROVE  ClusterInv'
<1>1. PICK d : d = call[j]
  OBVIOUS
<1>2. /\ d.op = "destroy" /\ d \in Calls /\ Destroying(d) /\ d.at = "delete"
      /\ ~IsIdle(j)
  BY <1>1, DestroysAt DEF DeleteVM, At, IsIdle
<1>3. UNCHANGED rows /\ BudgetFits' /\ UNCHANGED <<of, config>>
  BY BudgetKept DEF DeleteVM
<1>4. PICK e : e = d.env
  OBVIOUS
<1>5. d.place \in Places /\ d.place \in Remaining(d) /\ Held(d.id, e)
  <2>1. d.place \in Places
    BY <1>2 DEF Calls
  <2>2. d.place \in Remaining(d)
    BY <2>1, ConstantsAssumption DEF Remaining, Places
  <2>3. QED
    BY <1>2, <1>4, <2>1, <2>2 DEF Destroying
<1>6. /\ power' \in [VMIDs -> {"free", "stopped", "running", "deleting"}]
      /\ \A id \in VMIDs : id # d.id => power'[id] = power[id]
  BY <1>1 DEF DeleteVM, ClusterInv, TypeOK
<1>7. OnlyAt(e)
  BY <1>3, <1>5, <1>6 DEF OnlyAt, ClusterTypes, ClusterInv, TypeOK, Held
<1>8. CASE d.place = 0 /\ Return(j)
  BY <1>1, <1>2, <1>3, <1>4, <1>7, <1>8, ReturnTurns
<1>9. ASSUME NEW n, n = NextPlace(d.place), d.place # 0,
             Become(j, [d EXCEPT !.at = "stop", !.place = n, !.id = d.ids[n]])
      PROVE  ClusterInv'
  <2>1. PICK c : c = [d EXCEPT !.at = "stop", !.place = n, !.id = d.ids[n]]
    OBVIOUS
  <2>2. n \in Places
    BY <1>5, <1>9, ConstantsAssumption DEF NextPlace, Places
  <2>3. /\ c \in Calls /\ c.op = "destroy" /\ c.env = e /\ c.at = "stop"
        /\ c.place = n /\ c.ids = d.ids /\ c.id = d.ids[n]
        /\ call' = [call EXCEPT ![j] = c]
    BY <1>2, <1>4, <1>9, <2>1, <2>2 DEF Calls, Points, Become
  <2>4. Remaining(c) \subseteq Remaining(d) \ {d.place}
    BY <1>5, <1>9, <2>3, ConstantsAssumption DEF Remaining, NextPlace, Places
  <2>5. d.id = d.ids[d.place]
    BY <1>2 DEF Destroying
  <2>6. \A m \in Remaining(c) : Held(c.ids[m], e) /\ c.ids[m] # d.id
    BY <1>2, <1>4, <1>5, <2>3, <2>4, <2>5 DEF Destroying
  <2>7. \A m \in Remaining(c) : Held(c.ids[m], e)'
    BY <1>3, <1>6, <2>6 DEF Held
  <2>8. \A m, k \in Remaining(c) : m # k => c.ids[m] # c.ids[k]
    BY <1>2, <2>3, <2>4 DEF Destroying
  <2>9. e \in asked'
    BY <1>2, <1>3, <1>4 DEF Destroying, rows
  <2>10. Destroying(c)'
    BY <2>3, <2>7, <2>8, <2>9 DEF Destroying
  <2>11. QED
    BY <1>1, <1>2, <1>3, <1>4, <1>7, <2>3, <2>10, DestroyTurns
<1>10. QED
  BY <1>1, <1>8, <1>9 DEF DeleteVM, DestroyGoesOn

-----------------------------------------------------------------------------
(* The cluster and the server                                              *)

\* The calls go on as they are while the cluster changes VMs nobody holds.
LEMMA WorldTurns ==
    ASSUME ClusterInv, UNCHANGED <<rows, call>>, BudgetFits', OnlyAt(None)
    PROVE  ClusterInv'
<1>1. \A f \in Envs : Kept(f)
  BY OthersKept, ConstantsAssumption DEF rows
<1>2. TypeOK' /\ RowsFit'
  BY DEF ClusterInv, TypeOK, RowsFit, OnlyAt, ClusterTypes, BudgetFits, rows, Returned
<1>3. ASSUME NEW g \in Jobs
      PROVE  (Creating(call[g]) /\ Destroying(call[g]))'
  <2>1. PICK d : d = call[g]
    OBVIOUS
  <2>2. d \in Calls /\ Creating(d) /\ Destroying(d) /\ call'[g] = d
    BY <2>1 DEF ClusterInv, TypeOK
  <2>3. Creating(d)' /\ Destroying(d)'
    <3>1. CASE IsIdle(g)
      BY <2>1, <2>2, <3>1 DEF Creating, Destroying, IsIdle
    <3>2. CASE ~IsIdle(g)
      <4>1. Kept(d.env)
        BY <1>1, <2>1, <3>2, ActiveEnv
      <4>2. QED
        BY <2>2, <4>1, CallKept
    <3>3. QED
      BY <3>1, <3>2
  <2>4. QED
    BY <2>2, <2>3 DEF Creating, Destroying, Remaining, Ready, Held
<1>4. Alone' /\ AtRest'
  BY DEF ClusterInv, Alone, AtRest, IsIdle
<1>5. AllWhole'
  <2> SUFFICES ASSUME NEW f \in Returned' \ asked'
               PROVE  Whole(f)'
    BY DEF AllWhole
  <2>1. f \in Envs /\ f \in Returned \ asked
    BY DEF Returned, rows
  <2>2. QED
    BY <1>1, <2>1, WholeKept DEF ClusterInv, AllWhole
<1>6. QED
  BY <1>2, <1>3, <1>4, <1>5 DEF ClusterInv

LEMMA RemovedKeeps ==
    ASSUME ClusterInv, NEW id \in VMIDs, Removed(id)
    PROVE  ClusterInv'
<1>1. OnlyAt(None)
  BY DEF Removed, OnlyAt, ClusterTypes, ClusterInv, TypeOK
<1>2. BudgetFits' /\ UNCHANGED <<rows, call>>
  BY DEF Removed, BudgetFits, ClusterInv, TypeOK, RowsFit, Once
<1>3. QED
  BY <1>1, <1>2, WorldTurns

LEMMA RemovalFailsKeeps ==
    ASSUME ClusterInv, NEW id \in VMIDs, RemovalFails(id)
    PROVE  ClusterInv'
<1>1. OnlyAt(None)
  BY DEF RemovalFails, OnlyAt, ClusterTypes, ClusterInv, TypeOK
<1>2. UNCHANGED <<rows, call>>
  BY DEF RemovalFails
<1>3. BudgetFits'
  BY DEF RemovalFails, Spend, BudgetFits, BudgetKinds, ClusterInv, TypeOK, RowsFit, Once
<1>4. QED
  BY <1>1, <1>2, <1>3, WorldTurns

LEMMA CancelKeeps ==
    ASSUME ClusterInv, NEW j \in Jobs, Cancel(j)
    PROVE  ClusterInv'
<1>1. PICK d : d = call[j]
  OBVIOUS
<1>2. d \in Calls /\ Creating(d) /\ Destroying(d) /\ d.op \in {"create", "destroy"}
  BY <1>1, ActiveEnv DEF Cancel, ClusterInv, TypeOK
<1>3. PICK c : c = [d EXCEPT !.live = FALSE]
  OBVIOUS
<1>4. /\ c \in Calls /\ c.op = d.op /\ c.env = d.env /\ c.at = d.at
      /\ c.place = d.place /\ c.ids = d.ids /\ c.id = d.id
      /\ call' = [call EXCEPT ![j] = c]
  BY <1>1, <1>2, <1>3 DEF Calls, Cancel, Become
<1>5. UNCHANGED cluster /\ UNCHANGED rows
  BY DEF Cancel
<1>6. BudgetFits'
  BY DEF Cancel, Spend, BudgetFits, BudgetKinds, ClusterInv, TypeOK, RowsFit, Once
<1>7. PICK e : e = d.env
  OBVIOUS
<1>8. OnlyAt(e)
  BY <1>5, ClusterKept
<1>9. CASE d.op = "create"
  <2>1. Creating(c)'
    BY <1>2, <1>4, <1>5 DEF Creating, Ready, cluster, rows
  <2>2. QED
    BY <1>1, <1>4, <1>5, <1>6, <1>7, <1>8, <1>9, <2>1, CreateTurns
<1>10. CASE d.op = "destroy"
  <2>1. Destroying(c)'
    BY <1>2, <1>4, <1>5 DEF Destroying, Remaining, Held, cluster, rows
  <2>2. QED
    BY <1>1, <1>4, <1>5, <1>6, <1>7, <1>8, <1>10, <2>1, DestroyTurns
<1>11. QED
  BY <1>2, <1>9, <1>10

LEMMA CrashKeeps ==
    ASSUME ClusterInv, Crash
    PROVE  ClusterInv'
<1>1. UNCHANGED cluster /\ UNCHANGED rows
  BY DEF Crash
<1>2. \A j \in Jobs : call'[j] = Idle
  BY DEF Crash
<1>3. BudgetFits'
  BY DEF Crash, Spend, BudgetFits, BudgetKinds, ClusterInv, TypeOK, RowsFit, Once
<1>4. TypeOK' /\ RowsFit'
  <2>1. call' \in [Jobs -> Calls]
    BY IdleType DEF Crash
  <2>2. QED
    BY <1>1, <1>3, <2>1
       DEF ClusterInv, TypeOK, RowsFit, BudgetFits, cluster, rows, Returned
<1>5. \A j \in Jobs : (Creating(call[j]) /\ Destroying(call[j]))'
  BY <1>2, IdleType DEF Creating, Destroying
<1>6. Alone' /\ AtRest'
  BY <1>2, IdleType DEF Alone, AtRest, IsIdle
<1>7. AllWhole'
  BY <1>1 DEF ClusterInv, AllWhole, Returned, Whole, cluster, rows
<1>8. QED
  BY <1>4, <1>5, <1>6, <1>7 DEF ClusterInv

LEMMA InitClusterInv ==
    ASSUME Init
    PROVE  ClusterInv
<1>1. NoIDs \in [Places -> VMIDs \cup {None}]
  BY DEF NoIDs
<1>2. TypeOK
  BY <1>1, IdleType, ConstantsAssumption DEF Init, TypeOK
<1>3. Returned = {}
  BY DEF Init, Returned
<1>4. RowsFit /\ AllWhole
  BY <1>3 DEF Init, RowsFit, AllWhole, Once
<1>5. \A j \in Jobs : Creating(call[j]) /\ Destroying(call[j])
  BY IdleType DEF Init, Creating, Destroying
<1>6. Alone /\ AtRest
  BY IdleType DEF Init, Alone, AtRest, IsIdle
<1>7. QED
  BY <1>2, <1>4, <1>5, <1>6 DEF ClusterInv

LEMMA NextClusterInv ==
    ASSUME ClusterInv, [Next]_vars, Once'
    PROVE  ClusterInv'
<1>1. ASSUME NEW j \in Jobs, CreateStep(j)
      PROVE  ClusterInv'
  BY <1>1, NextVMIDKeeps, CloneVMKeeps, ClonedKeeps, ConfigureVMKeeps, StartVMKeeps,
     WaitForIPKeeps DEF CreateStep
<1>2. ASSUME NEW j \in Jobs, DestroyStep(j)
      PROVE  ClusterInv'
  BY <1>2, StopVMKeeps, DeleteVMKeeps DEF DestroyStep
<1>3. ASSUME NEW j \in Jobs, NEW e \in Envs, CreateStart(j, e) \/ DestroyStart(j, e)
      PROVE  ClusterInv'
  BY <1>3, CreateStartKeeps, DestroyStartKeeps
<1>4. ASSUME NEW id \in VMIDs, Removed(id) \/ RemovalFails(id)
      PROVE  ClusterInv'
  BY <1>4, RemovedKeeps, RemovalFailsKeeps
<1>5. CASE UNCHANGED vars
  <2>1. OnlyAt(None)
    BY <1>5, ClusterKept DEF vars
  <2>2. BudgetFits'
    BY <1>5, BudgetKept DEF vars, BudgetFits, ClusterInv, TypeOK, RowsFit
  <2>3. QED
    BY <1>5, <2>1, <2>2, WorldTurns DEF vars
<1>6. QED
  BY <1>1, <1>2, <1>3, <1>4, <1>5, CancelKeeps, CrashKeeps DEF Next

-----------------------------------------------------------------------------
(* The types, whatever is destroyed how often                              *)

LEMMA BudgetTypes ==
    ASSUME TypeOK, NEW j \in Jobs
    PROVE  /\ \A kind \in BudgetKinds : Spend(kind) => (budget \in [BudgetKinds -> Nat])'
           /\ UNCHANGED budget => (budget \in [BudgetKinds -> Nat])'
           /\ Works(j) \/ Fails(j) => (budget \in [BudgetKinds -> Nat])'
<1>1. budget \in [BudgetKinds -> Nat]
  BY DEF TypeOK
<1>2. ASSUME NEW kind \in BudgetKinds, Spend(kind)
      PROVE  (budget \in [BudgetKinds -> Nat])'
  BY <1>1, <1>2 DEF Spend
<1>3. UNCHANGED budget => (budget \in [BudgetKinds -> Nat])'
  BY <1>1
<1>4. QED
  BY <1>2, <1>3 DEF Works, Fails, BudgetKinds

LEMMA CreateTypes ==
    ASSUME TypeOK, NEW j \in Jobs, CreateStep(j)
    PROVE  TypeOK'
<1>1. PICK d : d = call[j]
  OBVIOUS
<1>2. d \in Calls /\ Idle \in Calls
  BY <1>1, IdleType DEF TypeOK
<1>3. (budget \in [BudgetKinds -> Nat])'
  <2>1. Works(j) \/ Fails(j)
    BY DEF CreateStep, NextVMID, CloneVM, Cloned, ConfigureVM, StartVM, WaitForIP, Refused
  <2>2. QED
    BY <2>1, BudgetTypes
<1>4. d.env \in Envs \cup {None} /\ d.id \in VMIDs \cup {None} /\ d.place \in Places
      /\ d.ids \in [Places -> VMIDs \cup {None}] /\ d.tries \in 0..cloneVMIDAttempts
  BY <1>2 DEF Calls
<1>5. /\ (power \in [VMIDs -> {"free", "stopped", "running", "deleting"}])'
      /\ (of \in [VMIDs -> Envs \cup {None}])'
      /\ (config \in [VMIDs -> Envs \cup {None}])'
  BY <1>1, <1>4 DEF CreateStep, NextVMID, CloneVM, Cloned, ConfigureVM, StartVM,
                    WaitForIP, Take, TypeOK, cluster
<1>6. UNCHANGED <<begun, asked>>
  BY DEF CreateStep, NextVMID, CloneVM, Cloned, ConfigureVM, StartVM, WaitForIP, rows
<1>7. PICK ids : ids = [d.ids EXCEPT ![d.place] = d.id]
  OBVIOUS
<1>8. ids \in [Places -> VMIDs \cup {None}]
  BY <1>4, <1>7
<1>9. (meta \in [Envs -> [Places -> VMIDs \cup {None}]])'
  BY <1>1, <1>7, <1>8 DEF CreateStep, NextVMID, CloneVM, Cloned, ConfigureVM, StartVM,
                          WaitForIP, TypeOK, rows
<1>10. \E c \in Calls : call' = [call EXCEPT ![j] = c]
  <2>1. \A p \in Points : [d EXCEPT !.at = p] \in Calls
    BY <1>2 DEF Calls
  <2>2. \A id \in VMIDs : [d EXCEPT !.at = "clone", !.id = id] \in Calls
    BY <1>2 DEF Calls, Points
  <2>3. d.tries + 1 < cloneVMIDAttempts =>
            [d EXCEPT !.at = "nextid", !.id = None, !.tries = @ + 1] \in Calls
    <3> SUFFICES ASSUME d.tries + 1 < cloneVMIDAttempts
                 PROVE  [d EXCEPT !.at = "nextid", !.id = None, !.tries = @ + 1] \in Calls
      OBVIOUS
    <3>1. d.tries + 1 \in 0..cloneVMIDAttempts
      BY <1>4, ConstantsAssumption
    <3>2. QED
      BY <1>2, <3>1 DEF Calls, Points
  <2>4. d.place < Nodes =>
            [Idle EXCEPT !.op = "create", !.at = "nextid", !.env = d.env,
                         !.place = d.place + 1, !.ids = ids] \in Calls
    <3> SUFFICES ASSUME d.place < Nodes
                 PROVE  [Idle EXCEPT !.op = "create", !.at = "nextid", !.env = d.env,
                            !.place = d.place + 1, !.ids = ids] \in Calls
      OBVIOUS
    <3>1. d.place + 1 \in Places
      BY <1>4, ConstantsAssumption DEF Places
    <3>2. QED
      BY <1>2, <1>4, <1>8, <3>1 DEF Calls, Points
  <2>5. {"clone", "cloned", "configure", "start", "ip"} \subseteq Points
    BY DEF Points
  <2>6. CASE NextVMID(j)
    BY <1>1, <1>2, <2>2, <2>6 DEF NextVMID, Become, Return
  <2>7. CASE CloneVM(j) \/ Cloned(j)
    BY <1>1, <1>2, <2>1, <2>3, <2>5, <2>7
       DEF CloneVM, Cloned, AnotherID, Goto, Become, Return
  <2>8. CASE ConfigureVM(j) \/ StartVM(j)
    BY <1>1, <1>2, <2>1, <2>5, <2>8 DEF ConfigureVM, StartVM, Goto, Become, Return
  <2>9. CASE WaitForIP(j)
    BY <1>1, <1>2, <1>7, <2>4, <2>9 DEF WaitForIP, Become, Return
  <2>10. QED
    BY <2>6, <2>7, <2>8, <2>9 DEF CreateStep
<1>11. (call \in [Jobs -> Calls])'
  BY <1>10 DEF TypeOK
<1>12. QED
  BY <1>3, <1>5, <1>6, <1>9, <1>11 DEF TypeOK

LEMMA DestroyTypes ==
    ASSUME TypeOK, NEW j \in Jobs, DestroyStep(j)
    PROVE  TypeOK'
<1>1. PICK d : d = call[j]
  OBVIOUS
<1>2. d \in Calls /\ Idle \in Calls
  BY <1>1, IdleType DEF TypeOK
<1>3. (budget \in [BudgetKinds -> Nat])'
  <2>1. Works(j) \/ Fails(j)
    BY DEF DestroyStep, StopVM, DeleteVM, Happens, Refused
  <2>2. QED
    BY <2>1, BudgetTypes
<1>4. (power \in [VMIDs -> {"free", "stopped", "running", "deleting"}])'
  BY DEF DestroyStep, StopVM, DeleteVM, TypeOK
<1>5. UNCHANGED <<of, config, begun, meta, asked>>
  BY DEF DestroyStep, StopVM, DeleteVM, rows
<1>6. \E c \in Calls : call' = [call EXCEPT ![j] = c]
  <2>1. [d EXCEPT !.at = "delete"] \in Calls
    BY <1>2 DEF Calls, Points
  <2>2. PICK n : n = NextPlace(d.place)
    OBVIOUS
  <2>3. n \in Places
    BY <1>2, <2>2, ConstantsAssumption DEF Calls, NextPlace, Places
  <2>4. [d EXCEPT !.at = "stop", !.place = n, !.id = d.ids[n]] \in Calls
    BY <1>2, <2>3 DEF Calls, Points
  <2>5. CASE StopVM(j)
    BY <1>1, <2>1, <2>5 DEF StopVM, Goto, Become
  <2>6. CASE DeleteVM(j)
    BY <1>1, <1>2, <2>2, <2>4, <2>6 DEF DeleteVM, DestroyGoesOn, Become, Return
  <2>7. QED
    BY <2>5, <2>6 DEF DestroyStep
<1>7. (call \in [Jobs -> Calls])'
  BY <1>6 DEF TypeOK
<1>8. QED
  BY <1>3, <1>4, <1>5, <1>7 DEF TypeOK

LEMMA StartTypes ==
    ASSUME TypeOK, NEW j \in Jobs, NEW e \in Envs,
           CreateStart(j, e) \/ DestroyStart(j, e)
    PROVE  TypeOK'
<1>1. (budget \in [BudgetKinds -> Nat])'
  BY BudgetTypes DEF CreateStart, DestroyStart, BudgetKinds
<1>2. FirstPlace \in Places
  BY ConstantsAssumption DEF FirstPlace, Places
<1>3. meta[e] \in [Places -> VMIDs \cup {None}] /\ meta[e][FirstPlace] \in VMIDs \cup {None}
  BY <1>2 DEF TypeOK
<1>4. [Idle EXCEPT !.op = "create", !.at = "nextid", !.env = e] \in Calls
  BY IdleType DEF Calls, Points
<1>5. [Idle EXCEPT !.op = "destroy", !.at = "stop", !.env = e, !.place = FirstPlace,
                   !.id = meta[e][FirstPlace], !.ids = meta[e]] \in Calls
  BY <1>2, <1>3, IdleType DEF Calls, Points
<1>6. (call \in [Jobs -> Calls])'
  BY <1>4, <1>5 DEF CreateStart, DestroyStart, Become, TypeOK
<1>7. QED
  BY <1>1, <1>6 DEF CreateStart, DestroyStart, TypeOK, cluster

LEMMA WorldTypes ==
    ASSUME TypeOK,
           \/ \E id \in VMIDs : Removed(id) \/ RemovalFails(id)
           \/ \E j \in Jobs : Cancel(j)
           \/ Crash
           \/ UNCHANGED vars
    PROVE  TypeOK'
<1>1. ASSUME NEW kind \in BudgetKinds, Spend(kind)
      PROVE  (budget \in [BudgetKinds -> Nat])'
  BY <1>1 DEF Spend, TypeOK
<1>2. CASE \E id \in VMIDs : Removed(id)
  BY <1>2 DEF Removed, TypeOK, rows
<1>3. CASE \E id \in VMIDs : RemovalFails(id)
  BY <1>1, <1>3 DEF RemovalFails, TypeOK, rows, BudgetKinds
<1>4. ASSUME NEW j \in Jobs, Cancel(j)
      PROVE  TypeOK'
  <2>1. [call[j] EXCEPT !.live = FALSE] \in Calls
    BY DEF TypeOK, Calls
  <2>2. (call \in [Jobs -> Calls])'
    BY <1>4, <2>1 DEF Cancel, Become, TypeOK
  <2>3. QED
    BY <1>1, <1>4, <2>2 DEF Cancel, TypeOK, cluster, rows, BudgetKinds
<1>5. CASE Crash
  BY <1>1, <1>5, IdleType DEF Crash, TypeOK, cluster, rows, BudgetKinds
<1>6. CASE UNCHANGED vars
  BY <1>6 DEF vars, TypeOK, cluster, rows
<1>7. QED
  BY <1>2, <1>3, <1>4, <1>5, <1>6

\* Every variable of the provider stays in its type, whatever fails and whenever
\* the calls end, and even if environments are destroyed twice: in particular a
\* call never gives up on an id more often than cloneVMIDAttempts allows
\* (client.go:190-204), and never goes on past the last machine.
THEOREM ProxmoxTypes == Spec => []TypeOK
<1>1. Init => TypeOK
  <2>1. NoIDs \in [Places -> VMIDs \cup {None}]
    BY DEF NoIDs
  <2>2. QED
    BY <2>1, IdleType, ConstantsAssumption DEF Init, TypeOK
<1>2. TypeOK /\ [Next]_vars => TypeOK'
  BY CreateTypes, DestroyTypes, StartTypes, WorldTypes DEF Next
<1>3. QED
  BY <1>1, <1>2, PTL DEF Spec

-----------------------------------------------------------------------------
(* What was returned stays whole                                           *)

Spent == \A kind \in BudgetKinds : budget[kind] <= Budget[kind]

LEMMA BudgetFalls ==
    ASSUME TypeOK, [Next]_vars
    PROVE  \A kind \in BudgetKinds : budget'[kind] <= budget[kind]
<1>1. budget \in [BudgetKinds -> Nat]
  BY DEF TypeOK
<1>2. ASSUME NEW kind \in BudgetKinds, Spend(kind), NEW k \in BudgetKinds
      PROVE  budget'[k] <= budget[k]
  BY <1>1, <1>2 DEF Spend
<1>3. ASSUME UNCHANGED budget, NEW k \in BudgetKinds
      PROVE  budget'[k] <= budget[k]
  BY <1>1, <1>3
<1>4. UNCHANGED budget \/ \E kind \in BudgetKinds : Spend(kind)
  <2>1. \A j \in Jobs : CreateStep(j) \/ DestroyStep(j) => Works(j) \/ Fails(j)
    BY DEF CreateStep, DestroyStep, NextVMID, CloneVM, Cloned, ConfigureVM, StartVM,
           WaitForIP, StopVM, DeleteVM, Happens, Refused
  <2>2. \A j \in Jobs : Works(j) \/ Fails(j) =>
            UNCHANGED budget \/ \E kind \in BudgetKinds : Spend(kind)
    BY DEF Works, Fails, BudgetKinds
  <2>3. QED
    BY <2>1, <2>2 DEF Next, CreateStart, DestroyStart, Removed, RemovalFails, Cancel,
                      Crash, BudgetKinds, vars
<1>5. QED
  BY <1>2, <1>3, <1>4

LEMMA SpecSpent == Spec => []Spent
<1>1. Init => Spent
  BY ConstantsAssumption DEF Init, Spent
<1>2. TypeOK /\ TypeOK' /\ Spent /\ [Next]_vars => Spent'
  <2> SUFFICES ASSUME TypeOK, TypeOK', Spent, [Next]_vars, NEW kind \in BudgetKinds
               PROVE  budget'[kind] <= Budget[kind]
    BY DEF Spent
  <2>1. budget[kind] \in Nat /\ budget'[kind] \in Nat /\ Budget[kind] \in Nat
    BY ConstantsAssumption DEF TypeOK
  <2>2. budget'[kind] <= budget[kind] /\ budget[kind] <= Budget[kind]
    BY BudgetFalls DEF Spent
  <2>3. QED
    BY <2>1, <2>2
<1>3. QED
  BY <1>1, <1>2, ProxmoxTypes, PTL DEF Spec

\* What was destroyed a second time stays so.
LEMMA OnceBefore ==
    ASSUME TypeOK, TypeOK', Spent, [Next]_vars, Once'
    PROVE  Once
<1>1. /\ budget["redeliver"] \in Nat /\ budget'["redeliver"] \in Nat
      /\ Budget["redeliver"] \in Nat /\ "redeliver" \in BudgetKinds
  BY ConstantsAssumption DEF TypeOK, BudgetKinds
<1>2. /\ budget'["redeliver"] <= budget["redeliver"]
      /\ budget["redeliver"] <= Budget["redeliver"]
  BY <1>1, BudgetFalls DEF Spent
<1>3. QED
  BY <1>1, <1>2 DEF Once

\* Until its destruction is asked for, an environment that was returned has for
\* each place a running VM of its own, with its own hostname and key, in any
\* interleaving of creations and destructions that take and free ids
\* (client.go:190-204, provider.go:178-206), with any failures, cancellations and
\* crashes.  It holds as long as no environment was destroyed a second time.
THEOREM ReturnedStaysWhole == Spec => []ReturnedIsWhole
<1>1. Init => (Once => ClusterInv)
  BY InitClusterInv
<1>2. TypeOK /\ TypeOK' /\ Spent /\ (Once => ClusterInv) /\ [Next]_vars
        => (Once' => ClusterInv')
  BY OnceBefore, NextClusterInv
<1>3. (Once => ClusterInv) => ReturnedIsWhole
  BY DEF ClusterInv, ReturnedIsWhole
<1>4. QED
  BY <1>1, <1>2, <1>3, ProxmoxTypes, SpecSpent, PTL DEF Spec

-----------------------------------------------------------------------------
(* What was destroyed is gone                                              *)

\* Call c of a creation has the machine id: it is the one it is at, or one
\* behind it.
Carried(c, id) ==
    \/ c.at \in {"cloned", "configure", "start", "ip"} /\ c.id = id
    \/ \E m \in Places : m < c.place /\ c.ids[m] = id

\* Somebody knows of each VM: the creation that cloned it, or the row of its
\* environment.  What a creation that was cancelled leaves is of an environment
\* that is never returned.  A clone that failed may be forgotten.
Traced(id) ==
    /\ of[id] # None => of[id] \in begun
    /\ \A j \in Jobs :
        call[j].op = "create" /\ call[j].env = of[id] => Carried(call[j], id)
    /\ of[id] \in Returned \ asked => \E m \in Places : meta[of[id]][m] = id

\* The VM of an environment that is destroyed is being removed, or the
\* destruction has it before it.
Doomed(id) ==
    of[id] \in asked =>
        \/ power[id] = "deleting"
        \/ \E j \in Jobs :
            /\ call[j].op = "destroy" /\ call[j].env = of[id]
            /\ \E m \in Remaining(call[j]) : call[j].ids[m] = id

\* The call can go on, and has stopped what it is going to delete.
Poised(c) ==
    c.live /\ (c.op = "destroy" /\ c.at = "delete" => power[c.id] = "stopped")

Unowned == \A id \in VMIDs : power[id] = "free" => of[id] = None

GoneInv ==
    /\ Spent
    /\ Unowned
    /\ Undisturbed =>
        /\ \A id \in VMIDs : Traced(id) /\ Doomed(id)
        /\ \A j \in Jobs : Poised(call[j])

\* Nothing is gained by a step, so a run that is undisturbed was so before it.
LEMMA CalmBudget ==
    ASSUME ClusterInv, Spent
    PROVE  /\ UNCHANGED budget => Spent' /\ (Undisturbed' => Undisturbed)
           /\ \A kind \in {"fault", "cancel", "crash"} :
                Spend(kind) => Spent' /\ ~Undisturbed'
<1>1. budget \in [BudgetKinds -> Nat] /\ Budget \in [BudgetKinds -> Nat]
  BY ConstantsAssumption DEF ClusterInv, TypeOK
<1>2. UNCHANGED budget => Spent' /\ (Undisturbed' => Undisturbed)
  BY DEF Spent, Undisturbed
<1>3. ASSUME NEW kind \in {"fault", "cancel", "crash"}, Spend(kind)
      PROVE  Spent' /\ ~Undisturbed'
  <2>1. kind \in BudgetKinds /\ budget[kind] <= Budget[kind]
    BY DEF BudgetKinds, Spent
  <2>2. \A k \in BudgetKinds :
            budget'[k] = IF k = kind THEN budget[kind] - 1 ELSE budget[k]
    BY <1>1, <1>3, <2>1 DEF Spend
  <2>3. budget'[kind] # Budget[kind]
    BY <1>1, <2>1, <2>2
  <2>4. Spent'
    BY <1>1, <2>1, <2>2 DEF Spent
  <2>5. ~Undisturbed'
    BY <2>1, <2>3 DEF Undisturbed
  <2>6. QED
    BY <2>4, <2>5
<1>4. QED
  BY <1>2, <1>3

LEMMA Calm ==
    ASSUME ClusterInv, Spent, NEW j \in Jobs
    PROVE  /\ Fails(j) => Spent' /\ (Undisturbed' => Undisturbed /\ ~call[j].live)
           /\ Works(j) => Spent' /\ (Undisturbed' => Undisturbed)
BY CalmBudget DEF Works, Fails

-----------------------------------------------------------------------------
(* The same, step by step: creations                                       *)

\* What a request of a creation changes, if it goes on with call c.  A VM that
\* is its own stays its own or goes, and in an undisturbed run it has each of them.
Builds(j, c) ==
    LET e == call[j].env
    IN  /\ call[j].op = "create"
        /\ call' = [call EXCEPT ![j] = c]
        /\ c = Idle \/ (c.op = "create" /\ c.env = e /\ c.live = call[j].live)
        /\ UNCHANGED <<begun, asked>>
        /\ \A id \in VMIDs :
            \/ of'[id] = of[id] /\ power'[id] = power[id]
            \/ power[id] = "free" /\ of'[id] = e /\ power'[id] = "stopped"
            \/ of[id] = e /\ of'[id] = e /\ power'[id] = "running"
            \/ of[id] = e /\ of'[id] = None
        /\ Undisturbed' /\ c.op = "create" =>
            \A id \in VMIDs : of'[id] = e => Carried(c, id)
        /\ \A f \in Envs :
            \/ meta'[f] = meta[f]
            \/ /\ f = e /\ c = Idle
               /\ Undisturbed' =>
                    \A id \in VMIDs :
                        of'[id] = e => \E m \in Places : meta'[e][m] = id

\* What a request of a destruction changes, if it goes on with call c.
Wrecks(j, c) ==
    LET d == call[j]
    IN  /\ d.op = "destroy"
        /\ call' = [call EXCEPT ![j] = c]
        /\ \/ c = Idle
           \/ c.op = "destroy" /\ c.env = d.env /\ c.live = d.live
        /\ UNCHANGED <<rows, of, config>>
        /\ d.id \in VMIDs /\ of[d.id] = d.env /\ power[d.id] \in {"stopped", "running"}
        /\ \A id \in VMIDs :
            \/ power'[id] = power[id]
            \/ id = d.id /\ power'[id] \in {"stopped", "deleting"}

\* The call of job j, about environment e, goes on with c.  VMs come to be of e,
\* or of none, and what knows of them is told.
Tells(j, e, c) ==
    /\ call' = [call EXCEPT ![j] = c]
    /\ e \in begun' /\ begun \subseteq begun'
    /\ \A id \in VMIDs : of'[id] \in {of[id], None, e}
    /\ c.op = "create" => c.env = e /\ \A id \in VMIDs : of'[id] = e => Carried(c, id)
    /\ \A f \in Envs : f \in Returned' \ asked' =>
        \/ f # e /\ f \in Returned \ asked /\ meta'[f] = meta[f]
        \/ \A id \in VMIDs : of'[id] = f => \E m \in Places : meta'[f][m] = id

LEMMA TracedTurn ==
    ASSUME ClusterInv, \A id \in VMIDs : Traced(id),
           NEW j \in Jobs, NEW e, OnlyFor(j, e), NEW c, Tells(j, e, c)
    PROVE  \A id \in VMIDs : Traced(id)'
<1> USE DEF Tells
<1>1. \A g \in Jobs : call'[g] = IF g = j THEN c ELSE call[g]
  BY DEF ClusterInv, TypeOK
<1>2. None \notin Envs /\ Returned' \subseteq Envs
  BY ConstantsAssumption DEF Returned
<1> SUFFICES ASSUME NEW id \in VMIDs
             PROVE  Traced(id)'
  OBVIOUS
<1>3. (of[id] # None => of[id] \in begun)'
  BY DEF Traced
<1>4. ASSUME NEW g \in Jobs, call'[g].op = "create", call'[g].env = of'[id]
      PROVE  Carried(call[g], id)'
  <2>1. CASE g = j
    BY <1>1, <1>4, <2>1 DEF Carried
  <2>2. CASE g # j
    <3>1. call'[g] = call[g] /\ ~IsIdle(g)
      BY <1>1, <1>4, <2>2 DEF IsIdle
    <3>2. of'[id] \in Envs /\ of'[id] # e
      BY <1>4, <2>2, <3>1, ActiveEnv DEF OnlyFor
    <3>3. of'[id] = of[id]
      BY <1>2, <3>2
    <3>4. Carried(call[g], id)
      BY <1>4, <3>1, <3>3 DEF Traced
    <3>5. QED
      BY <3>1, <3>4 DEF Carried
  <2>3. QED
    BY <2>1, <2>2
<1>5. ASSUME of'[id] \in Returned' \ asked'
      PROVE  \E m \in Places : meta'[of'[id]][m] = id
  <2>1. of'[id] \in Envs /\ of'[id] # None
    BY <1>2, <1>5
  <2>2. CASE \A i \in VMIDs : of'[i] = of'[id] => \E m \in Places : meta'[of'[id]][m] = i
    BY <2>2
  <2>3. CASE of'[id] # e /\ of'[id] \in Returned \ asked /\ meta'[of'[id]] = meta[of'[id]]
    BY <2>1, <2>3 DEF Traced
  <2>4. QED
    BY <1>5, <2>1, <2>2, <2>3
<1>6. QED
  BY <1>3, <1>4, <1>5 DEF Traced

LEMMA BuildsGone ==
    ASSUME ClusterInv, GoneInv, NEW j \in Jobs, NEW c, Builds(j, c),
           Spent', Undisturbed' => Undisturbed
    PROVE  GoneInv'
<1>1. PICK e : e = call[j].env
  OBVIOUS
<1>2. /\ call[j].op = "create" /\ e \in Envs /\ e \in begun /\ e \notin asked
      /\ meta[e] = NoIDs /\ OnlyFor(j, e)
  BY <1>1, ActiveEnv
     DEF Builds, ClusterInv, Creating, RowsFit, Returned, Alone, IsIdle, OnlyFor
<1>3. /\ call' = [call EXCEPT ![j] = c]
      /\ c = Idle \/ (c.op = "create" /\ c.env = e /\ c.live = call[j].live)
      /\ UNCHANGED <<begun, asked>>
      /\ \A id \in VMIDs :
            \/ of'[id] = of[id] /\ power'[id] = power[id]
            \/ power[id] = "free" /\ of'[id] = e /\ power'[id] = "stopped"
            \/ of[id] = e /\ of'[id] = e /\ power'[id] = "running"
            \/ of[id] = e /\ of'[id] = None
      /\ Undisturbed' /\ c.op = "create" =>
            \A id \in VMIDs : of'[id] = e => Carried(c, id)
      /\ \A f \in Envs :
            \/ meta'[f] = meta[f]
            \/ /\ f = e
               /\ Undisturbed' => \A id \in VMIDs :
                    of'[id] = e => \E m \in Places : meta'[e][m] = id
  BY <1>1 DEF Builds
<1>4. \A g \in Jobs : call'[g] = IF g = j THEN c ELSE call[g]
  BY <1>3 DEF ClusterInv, TypeOK
<1>5. Unowned'
  BY <1>3 DEF GoneInv, Unowned
<1>6. ASSUME Undisturbed'
      PROVE  \A id \in VMIDs : Traced(id)'
  <2>1. c.op = "create" =>
            c.env = e /\ \A id \in VMIDs : of'[id] = e => Carried(c, id)
    BY <1>3, <1>6, IdleType
  <2>2. \A f \in Envs : f \in Returned' \ asked' =>
                \/ f # e /\ f \in Returned \ asked /\ meta'[f] = meta[f]
                \/ \A id \in VMIDs : of'[id] = f => \E m \in Places : meta'[f][m] = id
    BY <1>2, <1>3, <1>6 DEF Returned
  <2>3. Tells(j, e, c)
    BY <1>2, <1>3, <2>1, <2>2 DEF Tells
  <2>4. QED
    BY <1>2, <1>6, <2>3, TracedTurn DEF GoneInv
<1>7. ASSUME Undisturbed', NEW id \in VMIDs
      PROVE  Doomed(id)'
  <2> SUFFICES ASSUME of'[id] \in asked'
               PROVE  \/ power'[id] = "deleting"
                      \/ \E g \in Jobs :
                            /\ call'[g].op = "destroy" /\ call'[g].env = of'[id]
                            /\ \E m \in Remaining(call'[g]) : call'[g].ids[m] = id
    BY DEF Doomed, Remaining
  <2>1. of'[id] = of[id] /\ power'[id] = power[id]
    <3>1. of'[id] # e /\ of'[id] # None
      BY <1>2, <1>3, ConstantsAssumption DEF ClusterInv, TypeOK
    <3>2. QED
      BY <1>3, <3>1
  <2>2. of[id] \in asked /\ Doomed(id)
    BY <1>3, <1>7, <2>1 DEF GoneInv
  <2>3. CASE power[id] = "deleting"
    BY <2>1, <2>3
  <2>4. ASSUME NEW g \in Jobs, call[g].op = "destroy", call[g].env = of[id],
               \E m \in Remaining(call[g]) : call[g].ids[m] = id
        PROVE  call'[g] = call[g]
    BY <1>2, <1>4, <2>4
  <2>5. QED
    BY <2>1, <2>2, <2>3, <2>4 DEF Doomed
<1>8. ASSUME Undisturbed', NEW g \in Jobs
      PROVE  Poised(call[g])'
  <2>1. Poised(call[j]) /\ Poised(call[g])
    BY <1>8 DEF GoneInv
  <2>2. CASE g = j
    <3>1. c.live /\ c.op # "destroy"
      <4>1. CASE c = Idle
        BY <4>1 DEF Idle
      <4>2. CASE c.op = "create" /\ c.live = call[j].live
        BY <2>1, <4>2 DEF Poised
      <4>3. QED
        BY <1>3, <4>1, <4>2
    <3>2. call'[g] = c
      BY <1>4, <2>2
    <3>3. QED
      BY <3>1, <3>2 DEF Poised
  <2>3. CASE g # j
    <3>1. call'[g] = call[g]
      BY <1>4, <2>3
    <3>2. ASSUME call[g].op = "destroy", call[g].at = "delete"
          PROVE  power'[call[g].id] = "stopped"
      <4>1. call[g] \in Calls /\ Destroying(call[g])
        BY DEF ClusterInv, TypeOK
      <4>2. call[g].place \in Remaining(call[g])
        BY <4>1, ConstantsAssumption DEF Calls, Remaining, Places
      <4>3. Held(call[g].id, call[g].env)
        BY <3>2, <4>1, <4>2 DEF Destroying
      <4>4. call[g].env # e
        BY <1>2, <2>3, <3>2 DEF OnlyFor, IsIdle
      <4>5. power[call[g].id] = "stopped"
        BY <2>1, <3>2 DEF Poised
      <4>6. QED
        BY <1>3, <4>3, <4>4, <4>5 DEF Held
    <3>3. QED
      BY <2>1, <3>1, <3>2 DEF Poised
  <2>4. QED
    BY <2>2, <2>3
<1>9. QED
  BY <1>5, <1>6, <1>7, <1>8 DEF GoneInv

\* Each request works or fails, and a failure in an undisturbed run is of a call
\* that was cancelled before.
LEMMA CalmRequest ==
    ASSUME ClusterInv, Spent, NEW j \in Jobs, CreateStep(j) \/ DestroyStep(j)
    PROVE  Spent' /\ (Undisturbed' => Undisturbed)
<1>1. Works(j) \/ Fails(j)
  BY DEF CreateStep, DestroyStep, NextVMID, CloneVM, Cloned, ConfigureVM, StartVM,
         WaitForIP, StopVM, DeleteVM, Happens, Refused
<1>2. QED
  BY <1>1, Calm

\* The call goes on with the machines it had.
SameMachines(d, c) ==
    /\ c.op = "create" /\ c.env = d.env /\ c.live = d.live
    /\ c.place = d.place /\ c.ids = d.ids
    /\ \/ d.at \in {"nextid", "clone"}
       \/ c.at \in {"cloned", "configure", "start", "ip"} /\ c.id = d.id

LEMMA SameCarried ==
    ASSUME NEW d, NEW c, SameMachines(d, c), NEW id, Carried(d, id)
    PROVE  Carried(c, id)
BY DEF SameMachines, Carried

\* The VMs of the environment are with the creation.
LEMMA BuilderCarries ==
    ASSUME ClusterInv, GoneInv, Undisturbed, NEW j \in Jobs, call[j].op = "create"
    PROVE  \A id \in VMIDs : of[id] = call[j].env => Carried(call[j], id)
BY DEF GoneInv, Traced

\* The creation goes on, and the VMs are as before.
LEMMA BuildsOn ==
    ASSUME ClusterInv, GoneInv, Undisturbed' => Undisturbed, NEW j \in Jobs, NEW d, d = call[j], d.op = "create",
           NEW c, SameMachines(d, c), call' = [call EXCEPT ![j] = c],
           UNCHANGED <<power, of>>, UNCHANGED rows
    PROVE  Builds(j, c)
<1>1. Undisturbed' => \A id \in VMIDs : of'[id] = d.env => Carried(c, id)
  BY BuilderCarries, SameCarried
<1>2. QED
  BY <1>1 DEF Builds, SameMachines, rows

\* The creation ends, and its VMs are as before but for the one it is at.
LEMMA BuildsEnd ==
    ASSUME ClusterInv, NEW j \in Jobs, call[j].op = "create", Return(j),
           UNCHANGED rows,
           \A id \in VMIDs :
            \/ of'[id] = of[id] /\ power'[id] = power[id]
            \/ power[id] = "free" /\ of'[id] = call[j].env /\ power'[id] = "stopped"
            \/ of[id] = call[j].env /\ of'[id] = call[j].env /\ power'[id] = "running"
            \/ of[id] = call[j].env /\ of'[id] = None
    PROVE  Builds(j, Idle)
<1>1. call' = [call EXCEPT ![j] = Idle] /\ Idle.op # "create"
  BY IdleType DEF Return, Become
<1>2. QED
  BY <1>1 DEF Builds, rows

LEMMA NextVMIDBuilds ==
    ASSUME ClusterInv, GoneInv, Undisturbed' => Undisturbed, NEW j \in Jobs, NextVMID(j)
    PROVE  \E c \in Calls : Builds(j, c)
<1>1. PICK d : d = call[j]
  OBVIOUS
<1>2. d.op = "create" /\ d.at = "nextid" /\ d \in Calls
  BY <1>1, CreatesAt DEF NextVMID, At
<1>3. UNCHANGED <<power, of>> /\ UNCHANGED rows
  BY DEF NextVMID, cluster
<1>4. ASSUME NEW id \in VMIDs, Become(j, [d EXCEPT !.at = "clone", !.id = id])
      PROVE  \E c \in Calls : Builds(j, c)
  <2>1. PICK c : c = [d EXCEPT !.at = "clone", !.id = id]
    OBVIOUS
  <2>2. c \in Calls /\ SameMachines(d, c) /\ call' = [call EXCEPT ![j] = c]
    BY <1>2, <1>4, <2>1 DEF SameMachines, Calls, Points, Become
  <2>3. Builds(j, c)
    BY <1>1, <1>2, <1>3, <2>2, BuildsOn
  <2>4. QED
    BY <2>2, <2>3
<1>5. CASE Return(j)
  BY <1>1, <1>2, <1>3, <1>5, BuildsEnd, IdleType
<1>6. QED
  BY <1>1, <1>4, <1>5 DEF NextVMID

LEMMA CloneVMBuilds ==
    ASSUME ClusterInv, GoneInv, Undisturbed' => Undisturbed, NEW j \in Jobs, CloneVM(j)
    PROVE  \E c \in Calls : Builds(j, c)
<1>1. PICK d : d = call[j]
  OBVIOUS
<1>2. /\ d.op = "create" /\ d.at = "clone" /\ d \in Calls /\ Creating(d)
      /\ d.id \in VMIDs
  BY <1>1, CreatesAt DEF CloneVM, At, Creating
<1>3. UNCHANGED rows
  BY DEF CloneVM
<1>4. ASSUME Take(j)
      PROVE  \A id \in VMIDs :
                IF id = d.id
                  THEN power[id] = "free" /\ of'[id] = d.env /\ power'[id] = "stopped"
                  ELSE of'[id] = of[id] /\ power'[id] = power[id]
  BY <1>1, <1>2, <1>4 DEF Take, ClusterInv, TypeOK
<1>5. CASE Take(j) /\ Goto(j, "cloned")
  <2>1. PICK c : c = [d EXCEPT !.at = "cloned"]
    OBVIOUS
  <2>2. /\ c \in Calls /\ SameMachines(d, c) /\ call' = [call EXCEPT ![j] = c]
        /\ Carried(c, d.id) /\ c.op = "create" /\ c.env = d.env /\ c.live = d.live
    BY <1>1, <1>2, <1>5, <2>1 DEF SameMachines, Carried, Calls, Points, Goto, Become
  <2>3. Undisturbed' => \A id \in VMIDs : of'[id] = d.env => Carried(c, id)
    BY <1>1, <1>2, <1>4, <1>5, <2>2, BuilderCarries, SameCarried
  <2>4. Builds(j, c)
    BY <1>1, <1>2, <1>3, <1>4, <1>5, <2>2, <2>3 DEF Builds, rows
  <2>5. QED
    BY <2>2, <2>4
<1>6. CASE /\ Become(j, [d EXCEPT !.at = "nextid", !.id = None, !.tries = @ + 1])
           /\ d.tries + 1 < cloneVMIDAttempts
           /\ UNCHANGED cluster
  <2>1. PICK c : c = [d EXCEPT !.at = "nextid", !.id = None, !.tries = @ + 1]
    OBVIOUS
  <2>2. d.tries + 1 \in 0..cloneVMIDAttempts
    BY <1>2, <1>6, ConstantsAssumption DEF Calls
  <2>3. c \in Calls /\ SameMachines(d, c) /\ call' = [call EXCEPT ![j] = c]
    BY <1>2, <1>6, <2>1, <2>2 DEF SameMachines, Calls, Points, Become
  <2>4. Builds(j, c)
    BY <1>1, <1>2, <1>3, <1>6, <2>3, BuildsOn DEF cluster
  <2>5. QED
    BY <2>3, <2>4
<1>7. CASE Return(j) /\ (Take(j) \/ UNCHANGED cluster)
  <2>1. Builds(j, Idle)
    BY <1>1, <1>2, <1>3, <1>4, <1>7, BuildsEnd DEF cluster
  <2>2. QED
    BY <2>1, IdleType
<1>8. QED
  BY <1>1, <1>5, <1>6, <1>7 DEF CloneVM, AnotherID

LEMMA ClonedBuilds ==
    ASSUME ClusterInv, GoneInv, Undisturbed' => Undisturbed, NEW j \in Jobs, Cloned(j)
    PROVE  \E c \in Calls : Builds(j, c)
<1>1. PICK d : d = call[j]
  OBVIOUS
<1>2. /\ d.op = "create" /\ d.at = "cloned" /\ d \in Calls
      /\ d.id \in VMIDs /\ of[d.id] = d.env
  BY <1>1, CreatesAt DEF Cloned, At, Creating
<1>3. UNCHANGED rows
  BY DEF Cloned
<1>4. CASE Goto(j, "configure") /\ UNCHANGED <<power, of>>
  <2>1. PICK c : c = [d EXCEPT !.at = "configure"]
    OBVIOUS
  <2>2. c \in Calls /\ SameMachines(d, c) /\ call' = [call EXCEPT ![j] = c]
    BY <1>1, <1>2, <1>4, <2>1 DEF SameMachines, Calls, Points, Goto, Become
  <2>3. Builds(j, c)
    BY <1>1, <1>2, <1>3, <1>4, <2>2, BuildsOn
  <2>4. QED
    BY <2>2, <2>3
<1>5. CASE /\ Return(j)
           /\ \/ UNCHANGED <<power, of>>
              \/ /\ power' = [power EXCEPT ![d.id] = "free"]
                 /\ of' = [of EXCEPT ![d.id] = None]
  <2>1. \A id \in VMIDs :
            \/ of'[id] = of[id] /\ power'[id] = power[id]
            \/ of[id] = d.env /\ of'[id] = None
    BY <1>2, <1>5 DEF ClusterInv, TypeOK
  <2>2. Builds(j, Idle)
    BY <1>1, <1>2, <1>3, <1>5, <2>1, BuildsEnd
  <2>3. QED
    BY <2>2, IdleType
<1>6. CASE /\ Become(j, [d EXCEPT !.at = "nextid", !.id = None, !.tries = @ + 1])
           /\ d.tries + 1 < cloneVMIDAttempts
           /\ Fails(j) /\ d.live
           /\ \/ UNCHANGED <<power, of>>
              \/ /\ power' = [power EXCEPT ![d.id] = "free"]
                 /\ of' = [of EXCEPT ![d.id] = None]
  <2>1. PICK c : c = [d EXCEPT !.at = "nextid", !.id = None, !.tries = @ + 1]
    OBVIOUS
  <2>2. d.tries + 1 \in 0..cloneVMIDAttempts
    BY <1>2, <1>6, ConstantsAssumption DEF Calls
  <2>3. /\ c \in Calls /\ c.op = "create" /\ c.env = d.env /\ c.live = d.live
        /\ call' = [call EXCEPT ![j] = c]
    BY <1>2, <1>6, <2>1, <2>2 DEF Calls, Points, Become
  <2>4. ~Undisturbed'
    BY <1>1, <1>6, Calm DEF GoneInv
  <2>5. \A id \in VMIDs :
            \/ of'[id] = of[id] /\ power'[id] = power[id]
            \/ of[id] = d.env /\ of'[id] = None
    BY <1>2, <1>6 DEF ClusterInv, TypeOK
  <2>6. Builds(j, c)
    BY <1>1, <1>2, <1>3, <2>3, <2>4, <2>5 DEF Builds, rows
  <2>7. QED
    BY <2>3, <2>6
<1>7. QED
  BY <1>1, <1>4, <1>5, <1>6 DEF Cloned, AnotherID

LEMMA ConfigureVMBuilds ==
    ASSUME ClusterInv, GoneInv, Undisturbed' => Undisturbed, NEW j \in Jobs, ConfigureVM(j)
    PROVE  \E c \in Calls : Builds(j, c)
<1>1. PICK d : d = call[j]
  OBVIOUS
<1>2. d.op = "create" /\ d.at = "configure" /\ d \in Calls
  BY <1>1, CreatesAt DEF ConfigureVM, At
<1>3. UNCHANGED rows /\ UNCHANGED <<power, of>>
  BY DEF ConfigureVM
<1>4. CASE Goto(j, "start")
  <2>1. PICK c : c = [d EXCEPT !.at = "start"]
    OBVIOUS
  <2>2. c \in Calls /\ SameMachines(d, c) /\ call' = [call EXCEPT ![j] = c]
    BY <1>1, <1>2, <1>4, <2>1 DEF SameMachines, Calls, Points, Goto, Become
  <2>3. Builds(j, c)
    BY <1>1, <1>2, <1>3, <2>2, BuildsOn
  <2>4. QED
    BY <2>2, <2>3
<1>5. CASE Return(j)
  BY <1>1, <1>2, <1>3, <1>5, BuildsEnd, IdleType
<1>6. QED
  BY <1>4, <1>5 DEF ConfigureVM

LEMMA StartVMBuilds ==
    ASSUME ClusterInv, GoneInv, Undisturbed' => Undisturbed, NEW j \in Jobs, StartVM(j)
    PROVE  \E c \in Calls : Builds(j, c)
<1>1. PICK d : d = call[j]
  OBVIOUS
<1>2. /\ d.op = "create" /\ d.at = "start" /\ d \in Calls
      /\ d.id \in VMIDs /\ of[d.id] = d.env
  BY <1>1, CreatesAt DEF StartVM, At, Creating
<1>3. UNCHANGED rows /\ UNCHANGED of
  BY DEF StartVM
<1>4. /\ \/ UNCHANGED power
         \/ power' = [power EXCEPT ![d.id] = "running"]
      /\ Goto(j, "ip") \/ Return(j)
  BY <1>1 DEF StartVM
<1>5. \A id \in VMIDs :
        \/ of'[id] = of[id] /\ power'[id] = power[id]
        \/ of[id] = d.env /\ of'[id] = d.env /\ power'[id] = "running"
  BY <1>2, <1>3, <1>4 DEF ClusterInv, TypeOK
<1>6. CASE Goto(j, "ip")
  <2>1. PICK c : c = [d EXCEPT !.at = "ip"]
    OBVIOUS
  <2>2. /\ c \in Calls /\ SameMachines(d, c) /\ call' = [call EXCEPT ![j] = c]
        /\ c.op = "create" /\ c.env = d.env /\ c.live = d.live
    BY <1>1, <1>2, <1>6, <2>1 DEF SameMachines, Calls, Points, Goto, Become
  <2>3. Undisturbed' => \A id \in VMIDs : of'[id] = d.env => Carried(c, id)
    BY <1>1, <1>2, <1>3, <2>2, BuilderCarries, SameCarried
  <2>4. Builds(j, c)
    BY <1>1, <1>2, <1>3, <1>5, <2>2, <2>3 DEF Builds, rows
  <2>5. QED
    BY <2>2, <2>4
<1>7. CASE Return(j)
  <2>1. Builds(j, Idle)
    BY <1>1, <1>2, <1>3, <1>5, <1>7, BuildsEnd
  <2>2. QED
    BY <2>1, IdleType
<1>8. QED
  BY <1>4, <1>6, <1>7

\* The machine that is ready joins those behind the call, or the row has them all.
LEMMA WaitForIPBuilds ==
    ASSUME ClusterInv, GoneInv, Undisturbed' => Undisturbed, NEW j \in Jobs, WaitForIP(j)
    PROVE  \E c \in Calls : Builds(j, c)
<1>1. PICK d : d = call[j]
  OBVIOUS
<1>2. d.op = "create" /\ d.at = "ip" /\ d \in Calls /\ d.id \in VMIDs
  BY <1>1, CreatesAt DEF WaitForIP, At, Creating
<1>3. PICK e : e = d.env
  OBVIOUS
<1>4. e \in Envs /\ UNCHANGED cluster /\ UNCHANGED <<begun, asked>>
  BY <1>1, <1>2, <1>3, ActiveEnv DEF WaitForIP, IsIdle
<1>5. PICK ids : ids = [d.ids EXCEPT ![d.place] = d.id]
  OBVIOUS
<1>6. /\ d.place \in Places /\ d.ids \in [Places -> VMIDs \cup {None}]
      /\ ids \in [Places -> VMIDs \cup {None}]
      /\ \A m \in Places : ids[m] = IF m = d.place THEN d.id ELSE d.ids[m]
  BY <1>2, <1>5 DEF Calls
<1>7. ASSUME Undisturbed', NEW id \in VMIDs, of'[id] = e
      PROVE  \E m \in Places : m <= d.place /\ ids[m] = id
  <2>1. Carried(d, id)
    BY <1>1, <1>2, <1>3, <1>4, <1>7, BuilderCarries DEF cluster
  <2>2. CASE d.id = id
    BY <1>6, <2>2, ConstantsAssumption DEF Places
  <2>3. ASSUME NEW m \in Places, m < d.place, d.ids[m] = id
        PROVE  m <= d.place /\ ids[m] = id
    BY <1>6, <2>3, ConstantsAssumption DEF Places
  <2>4. QED
    BY <2>1, <2>2, <2>3 DEF Carried
<1>8. CASE /\ d.place < Nodes
           /\ Become(j, [Idle EXCEPT !.op = "create", !.at = "nextid", !.env = d.env,
                                     !.place = d.place + 1, !.ids = ids])
           /\ UNCHANGED meta
           /\ d.live
  <2>1. PICK c : c = [Idle EXCEPT !.op = "create", !.at = "nextid", !.env = d.env,
                                  !.place = d.place + 1, !.ids = ids]
    OBVIOUS
  <2>2. d.place + 1 \in Places
    BY <1>6, <1>8, ConstantsAssumption DEF Places
  <2>3. /\ c \in Calls /\ c.op = "create" /\ c.env = e
        /\ c.place = d.place + 1 /\ c.ids = ids
        /\ call' = [call EXCEPT ![j] = c]
    BY <1>3, <1>4, <1>6, <1>8, <2>1, <2>2, IdleType DEF Calls, Points, Become
  <2>4. c.live = d.live
    <3>1. c.live = TRUE /\ d.live \in BOOLEAN
      BY <1>2, <2>1 DEF Idle, Calls
    <3>2. QED
      BY <1>8, <3>1
  <2>5. Undisturbed' => \A id \in VMIDs : of'[id] = e => Carried(c, id)
    <3>1. \A m \in Places : m <= d.place => m < c.place
      BY <1>6, <2>3, ConstantsAssumption DEF Places
    <3>2. QED
      BY <1>7, <2>3, <3>1 DEF Carried
  <2>6. Builds(j, c)
    BY <1>1, <1>2, <1>3, <1>4, <1>8, <2>3, <2>4, <2>5 DEF Builds, cluster
  <2>7. QED
    BY <2>3, <2>6
<1>9. CASE Return(j) /\ meta' = [meta EXCEPT ![e] = ids]
  <2>1. \A f \in Envs : meta'[f] = IF f = e THEN ids ELSE meta[f]
    BY <1>9 DEF ClusterInv, TypeOK
  <2>2. call' = [call EXCEPT ![j] = Idle] /\ Idle.op # "create"
    BY <1>9, IdleType DEF Return, Become
  <2>3. Undisturbed' => \A id \in VMIDs : of'[id] = e => \E m \in Places : meta'[e][m] = id
    BY <1>4, <1>7, <2>1
  <2>4. Builds(j, Idle)
    BY <1>1, <1>2, <1>3, <1>4, <2>1, <2>2, <2>3 DEF Builds, cluster
  <2>5. QED
    BY <2>4, IdleType
<1>10. CASE Return(j) /\ UNCHANGED meta
  <2>1. Builds(j, Idle)
    BY <1>1, <1>2, <1>4, <1>10, BuildsEnd DEF cluster, rows
  <2>2. QED
    BY <2>1, IdleType
<1>11. QED
  BY <1>1, <1>3, <1>5, <1>8, <1>9, <1>10 DEF WaitForIP, Works

LEMMA CreateStepBuilds ==
    ASSUME ClusterInv, GoneInv, NEW j \in Jobs, CreateStep(j)
    PROVE  \E c \in Calls : Builds(j, c)
<1>1. Undisturbed' => Undisturbed
  BY CalmRequest DEF GoneInv
<1>2. QED
  BY <1>1, NextVMIDBuilds, CloneVMBuilds, ClonedBuilds, ConfigureVMBuilds,
     StartVMBuilds, WaitForIPBuilds DEF CreateStep

-----------------------------------------------------------------------------
(* Destructions                                                            *)

\* In an undisturbed run, a VM leaves the call of a destruction only when it is
\* being removed.
Thorough(j, c) ==
    Undisturbed' =>
        /\ Poised(c)'
        /\ \A m \in Remaining(call[j]) :
            \/ power'[call[j].ids[m]] = "deleting"
            \/ /\ c.op = "destroy"
               /\ \E k \in Remaining(c) : c.ids[k] = call[j].ids[m]

\* What a destruction is at is there.
LEMMA DestroyHeld ==
    ASSUME ClusterInv, NEW j \in Jobs, call[j].op = "destroy"
    PROVE  /\ call[j].place \in Places /\ call[j].place \in Remaining(call[j])
           /\ Held(call[j].id, call[j].env)
           /\ call[j].id = call[j].ids[call[j].place]
           /\ call[j].env \in asked
<1>1. call[j] \in Calls /\ Destroying(call[j])
  BY DEF ClusterInv, TypeOK
<1>2. call[j].place \in Places
  BY <1>1 DEF Calls
<1>3. call[j].place \in Remaining(call[j])
  BY <1>2, ConstantsAssumption DEF Remaining, Places
<1>4. QED
  BY <1>1, <1>2, <1>3 DEF Destroying

LEMMA WrecksGone ==
    ASSUME ClusterInv, GoneInv, NEW j \in Jobs, NEW c \in Calls, Wrecks(j, c),
           Thorough(j, c), Spent', Undisturbed' => Undisturbed
    PROVE  GoneInv'
<1>1. PICK d : d = call[j]
  OBVIOUS
<1>2. PICK e : e = d.env
  OBVIOUS
<1>3. /\ d.op = "destroy" /\ call' = [call EXCEPT ![j] = c]
      /\ c = Idle \/ (c.op = "destroy" /\ c.env = e /\ c.live = d.live)
      /\ UNCHANGED <<rows, of>>
      /\ d.id \in VMIDs /\ of[d.id] = e /\ power[d.id] \in {"stopped", "running"}
      /\ \A id \in VMIDs :
            \/ power'[id] = power[id]
            \/ id = d.id /\ power'[id] \in {"stopped", "deleting"}
  BY <1>1, <1>2 DEF Wrecks
<1>4. /\ e \in Envs /\ e \in begun /\ e \in asked /\ OnlyFor(j, e)
  BY <1>1, <1>2, <1>3, ActiveEnv, DestroyHeld
     DEF ClusterInv, RowsFit, Alone, IsIdle, OnlyFor
<1>5. \A g \in Jobs : call'[g] = IF g = j THEN c ELSE call[g]
  BY <1>3 DEF ClusterInv, TypeOK
<1>6. Unowned'
  BY <1>3 DEF GoneInv, Unowned
<1>7. ASSUME Undisturbed'
      PROVE  \A id \in VMIDs : Traced(id)'
  <2>1. c.op # "create"
    BY <1>3, IdleType
  <2>2. \A f \in Envs : f \in Returned' \ asked' =>
            f # e /\ f \in Returned \ asked /\ meta'[f] = meta[f]
    BY <1>3, <1>4 DEF Returned, rows
  <2>3. Tells(j, e, c)
    BY <1>3, <1>4, <2>1, <2>2 DEF Tells, rows
  <2>4. QED
    BY <1>4, <1>7, <2>3, TracedTurn DEF GoneInv
<1>8. ASSUME Undisturbed', NEW id \in VMIDs
      PROVE  Doomed(id)'
  <2> SUFFICES ASSUME of[id] \in asked, power'[id] # "deleting"
               PROVE  \E g \in Jobs :
                        /\ call'[g].op = "destroy" /\ call'[g].env = of[id]
                        /\ \E m \in Remaining(call'[g]) : call'[g].ids[m] = id
    BY <1>3 DEF Doomed, Remaining, rows
  <2>1. power[id] # "deleting"
    BY <1>3
  <2>2. PICK g \in Jobs : /\ call[g].op = "destroy" /\ call[g].env = of[id]
                          /\ \E m \in Remaining(call[g]) : call[g].ids[m] = id
    BY <1>8, <2>1 DEF GoneInv, Doomed
  <2>3. CASE g = j
    <3>1. PICK m \in Remaining(d) : d.ids[m] = id
      BY <1>1, <2>2, <2>3
    <3>2. c.op = "destroy" /\ \E k \in Remaining(c) : c.ids[k] = id
      BY <1>1, <1>8, <3>1 DEF Thorough
    <3>3. c.env = of[id]
      BY <1>1, <1>2, <1>3, <2>2, <2>3, <3>2, IdleType
    <3>4. QED
      BY <1>5, <3>2, <3>3
  <2>4. CASE g # j
    BY <1>5, <2>2, <2>4
  <2>5. QED
    BY <2>3, <2>4
<1>9. ASSUME Undisturbed', NEW g \in Jobs
      PROVE  Poised(call[g])'
  <2>1. CASE g = j
    <3>1. Poised(c)' /\ call'[g] = c
      BY <1>5, <1>9, <2>1 DEF Thorough
    <3>2. QED
      BY <3>1 DEF Poised
  <2>2. CASE g # j
    <3>1. call'[g] = call[g] /\ Poised(call[g])
      BY <1>5, <1>9, <2>2 DEF GoneInv
    <3>2. ASSUME call[g].op = "destroy", call[g].at = "delete"
          PROVE  power'[call[g].id] = "stopped"
      <4>1. Held(call[g].id, call[g].env) /\ call[g].env # e
        BY <1>4, <2>2, <3>2, DestroyHeld DEF OnlyFor, IsIdle
      <4>2. power[call[g].id] = "stopped"
        BY <3>1, <3>2 DEF Poised
      <4>3. QED
        BY <1>3, <4>1, <4>2 DEF Held
    <3>3. QED
      BY <3>1, <3>2 DEF Poised
  <2>3. QED
    BY <2>1, <2>2
<1>10. QED
  BY <1>6, <1>7, <1>8, <1>9 DEF GoneInv

LEMMA StopVMWrecks ==
    ASSUME ClusterInv, GoneInv, NEW j \in Jobs, StopVM(j)
    PROVE  \E c \in Calls : Wrecks(j, c) /\ Thorough(j, c)
<1>1. PICK d : d = call[j]
  OBVIOUS
<1>2. d.op = "destroy" /\ d \in Calls /\ Held(d.id, d.env)
  BY <1>1, DestroysAt, DestroyHeld DEF StopVM, At
<1>3. PICK c : c = [d EXCEPT !.at = "delete"]
  OBVIOUS
<1>4. /\ c \in Calls /\ c.op = "destroy" /\ c.env = d.env /\ c.live = d.live
      /\ c.place = d.place /\ c.ids = d.ids /\ c.id = d.id
      /\ call' = [call EXCEPT ![j] = c]
  BY <1>1, <1>2, <1>3 DEF Calls, Points, StopVM, Goto, Become
<1>5. \A id \in VMIDs : power'[id] = power[id] \/ (id = d.id /\ power'[id] = "stopped")
  BY <1>1 DEF StopVM, ClusterInv, TypeOK
<1>6. Wrecks(j, c)
  BY <1>1, <1>2, <1>4, <1>5 DEF Wrecks, Held, StopVM
<1>7. ASSUME Undisturbed'
      PROVE  Poised(c)'
  <2>1. Undisturbed
    BY <1>7, CalmRequest DEF GoneInv, DestroyStep
  <2>2. d.live
    BY <1>1, <2>1 DEF GoneInv, Poised
  <2>3. ~Fails(j)
    BY <1>1, <1>7, <2>2, Calm DEF GoneInv
  <2>4. power'[d.id] = "stopped"
    BY <1>1, <1>2, <2>3 DEF StopVM, Refused, Held, ClusterInv, TypeOK
  <2>5. QED
    BY <1>4, <2>2, <2>4 DEF Poised
<1>8. Remaining(c) = Remaining(d)
  BY <1>4 DEF Remaining
<1>9. Thorough(j, c)
  BY <1>1, <1>4, <1>7, <1>8 DEF Thorough
<1>10. QED
  BY <1>4, <1>6, <1>9

LEMMA DeleteVMWrecks ==
    ASSUME ClusterInv, GoneInv, NEW j \in Jobs, DeleteVM(j)
    PROVE  \E c \in Calls : Wrecks(j, c) /\ Thorough(j, c)
<1>1. PICK d : d = call[j]
  OBVIOUS
<1>2. /\ d.op = "destroy" /\ d \in Calls /\ Held(d.id, d.env) /\ d.at = "delete"
      /\ d.place \in Places /\ d.id = d.ids[d.place]
  BY <1>1, DestroysAt, DestroyHeld DEF DeleteVM, At
<1>3. \A id \in VMIDs :
        power'[id] = power[id] \/ (id = d.id /\ power'[id] = "deleting")
  BY <1>1 DEF DeleteVM, ClusterInv, TypeOK
<1>4. ASSUME Undisturbed'
      PROVE  d.live /\ power'[d.id] = "deleting"
  <2>1. Undisturbed
    BY <1>4, CalmRequest DEF GoneInv, DestroyStep
  <2>2. Poised(d)
    BY <1>1, <2>1 DEF GoneInv
  <2>3. d.live
    BY <2>2 DEF Poised
  <2>4. power[d.id] = "stopped"
    BY <1>2, <2>2 DEF Poised
  <2>5. ~Fails(j)
    BY <1>1, <1>4, <2>3, Calm DEF GoneInv
  <2>6. power'[d.id] = "deleting"
    BY <1>1, <1>2, <2>4, <2>5 DEF DeleteVM, Refused, Held, ClusterInv, TypeOK
  <2>7. QED
    BY <2>3, <2>6
<1>5. CASE d.place = 0 /\ Return(j)
  <2>1. PICK c : c = Idle
    OBVIOUS
  <2>2. c \in Calls /\ c.op = "idle" /\ call' = [call EXCEPT ![j] = c]
    BY <1>5, <2>1, IdleType DEF Return, Become
  <2>3. Wrecks(j, c)
    BY <1>1, <1>2, <1>3, <2>1, <2>2 DEF Wrecks, Held, DeleteVM
  <2>4. \A m \in Remaining(d) : m = d.place
    BY <1>2, <1>5 DEF Remaining
  <2>5. c.live
    BY <2>1 DEF Idle
  <2>6. Thorough(j, c)
    BY <1>1, <1>2, <1>4, <2>2, <2>4, <2>5 DEF Thorough, Poised
  <2>7. QED
    BY <2>2, <2>3, <2>6
<1>6. ASSUME NEW n, n = NextPlace(d.place), d.place # 0,
             Become(j, [d EXCEPT !.at = "stop", !.place = n, !.id = d.ids[n]])
      PROVE  \E c \in Calls : Wrecks(j, c) /\ Thorough(j, c)
  <2>1. PICK c : c = [d EXCEPT !.at = "stop", !.place = n, !.id = d.ids[n]]
    OBVIOUS
  <2>2. n \in Places
    BY <1>2, <1>6, ConstantsAssumption DEF NextPlace, Places
  <2>3. /\ c \in Calls /\ c.op = "destroy" /\ c.env = d.env /\ c.at = "stop"
        /\ c.place = n /\ c.ids = d.ids /\ c.live = d.live
        /\ call' = [call EXCEPT ![j] = c]
    BY <1>2, <1>6, <2>1, <2>2 DEF Calls, Points, Become
  <2>4. Wrecks(j, c)
    BY <1>1, <1>2, <1>3, <2>3 DEF Wrecks, Held, DeleteVM
  <2>5. \A m \in Remaining(d) : m = d.place \/ m \in Remaining(c)
    BY <1>2, <1>6, <2>3, ConstantsAssumption DEF Remaining, NextPlace, Places
  <2>6. Undisturbed' => Poised(c)'
    BY <1>4, <2>3 DEF Poised
  <2>7. Thorough(j, c)
    BY <1>1, <1>2, <1>4, <2>3, <2>5, <2>6 DEF Thorough
  <2>8. QED
    BY <2>3, <2>4, <2>7
<1>7. QED
  BY <1>1, <1>5, <1>6 DEF DeleteVM, DestroyGoesOn

LEMMA DestroyStepWrecks ==
    ASSUME ClusterInv, GoneInv, NEW j \in Jobs, DestroyStep(j)
    PROVE  \E c \in Calls : Wrecks(j, c) /\ Thorough(j, c)
BY StopVMWrecks, DeleteVMWrecks DEF DestroyStep

-----------------------------------------------------------------------------
(* The first step of a call, the cluster and the server                    *)

\* A new environment has no VM yet.
LEMMA CreateStartGone ==
    ASSUME ClusterInv, GoneInv, NEW j \in Jobs, NEW e \in Envs, CreateStart(j, e)
    PROVE  GoneInv'
<1>1. PICK c : c = [Idle EXCEPT !.op = "create", !.at = "nextid", !.env = e]
  OBVIOUS
<1>2. /\ c.op = "create" /\ c.env = e /\ c.live = TRUE
      /\ call' = [call EXCEPT ![j] = c]
  BY <1>1 DEF CreateStart, Become, Idle
<1>3. e \notin begun /\ e \notin Returned /\ IsIdle(j) /\ begun' = begun \cup {e}
      /\ UNCHANGED cluster /\ UNCHANGED <<meta, asked, budget>>
  BY DEF CreateStart, ClusterInv, RowsFit
<1>4. \A g \in Jobs : call'[g] = IF g = j THEN c ELSE call[g]
  BY <1>2 DEF ClusterInv, TypeOK
<1>5. Spent' /\ (Undisturbed' => Undisturbed) /\ Unowned'
  BY <1>3, CalmBudget DEF GoneInv, Unowned, cluster
<1>6. OnlyFor(j, e)
  <2> SUFFICES ASSUME NEW g \in Jobs \ {j}, ~IsIdle(g), call[g].env = e PROVE FALSE
    BY DEF OnlyFor
  <2>1. call[g].op \in {"create", "destroy"}
    BY ActiveEnv
  <2>2. QED
    BY <1>3, <2>1 DEF ClusterInv, Creating, Destroying, RowsFit
<1>7. Undisturbed => \A id \in VMIDs : of[id] # e
  BY <1>3, ConstantsAssumption DEF GoneInv, Traced
<1>8. ASSUME Undisturbed'
      PROVE  \A id \in VMIDs : Traced(id)'
  <2>1. Tells(j, e, c)
    BY <1>2, <1>3, <1>5, <1>7, <1>8 DEF Tells, cluster, Returned
  <2>2. QED
    BY <1>5, <1>6, <1>8, <2>1, TracedTurn DEF GoneInv
<1>9. ASSUME Undisturbed', NEW id \in VMIDs
      PROVE  Doomed(id)'
  <2>1. Doomed(id) /\ of'[id] = of[id] /\ power'[id] = power[id] /\ asked' = asked
    BY <1>3, <1>5, <1>9 DEF GoneInv, cluster
  <2>2. \A g \in Jobs : call[g].op = "destroy" => call'[g] = call[g]
    BY <1>3, <1>4 DEF IsIdle
  <2>3. QED
    BY <2>1, <2>2 DEF Doomed, Remaining
<1>10. ASSUME Undisturbed', NEW g \in Jobs
       PROVE  Poised(call[g])'
  <2>1. CASE g = j
    BY <1>2, <1>4, <2>1 DEF Poised
  <2>2. CASE g # j
    <3>1. call'[g] = call[g] /\ Poised(call[g]) /\ power' = power
      BY <1>3, <1>4, <1>5, <1>10, <2>2 DEF GoneInv, cluster
    <3>2. QED
      BY <3>1 DEF Poised
  <2>3. QED
    BY <2>1, <2>2
<1>11. QED
  BY <1>5, <1>8, <1>9, <1>10 DEF GoneInv

\* The row has each VM of the environment, and a destruction starts with the row.
LEMMA DestroyStartGone ==
    ASSUME ClusterInv, GoneInv, NEW j \in Jobs, NEW e \in Envs, DestroyStart(j, e),
           Once'
    PROVE  GoneInv'
<1>1. PICK c : c = [Idle EXCEPT !.op = "destroy", !.at = "stop", !.env = e,
                                !.place = FirstPlace, !.id = meta[e][FirstPlace],
                                !.ids = meta[e]]
  OBVIOUS
<1>2. /\ c.op = "destroy" /\ c.env = e /\ c.live = TRUE /\ c.at = "stop"
      /\ c.place = FirstPlace /\ c.ids = meta[e]
      /\ call' = [call EXCEPT ![j] = c]
  BY <1>1 DEF DestroyStart, Become, Idle
<1>3. /\ e \in Returned \ asked /\ e \in begun /\ IsIdle(j)
      /\ asked' = asked \cup {e}
      /\ UNCHANGED cluster /\ UNCHANGED <<begun, meta, budget>>
  BY DEF DestroyStart, Spend, Once, ClusterInv, RowsFit, TypeOK, Returned, BudgetKinds
<1>4. \A g \in Jobs : call'[g] = IF g = j THEN c ELSE call[g]
  BY <1>2 DEF ClusterInv, TypeOK
<1>5. Spent' /\ (Undisturbed' => Undisturbed) /\ Unowned'
  BY <1>3, CalmBudget DEF GoneInv, Unowned, cluster
<1>6. OnlyFor(j, e)
  <2> SUFFICES ASSUME NEW g \in Jobs \ {j}, ~IsIdle(g), call[g].env = e PROVE FALSE
    BY DEF OnlyFor
  <2>1. call[g].op \in {"create", "destroy"}
    BY ActiveEnv
  <2>2. QED
    BY <1>3, <2>1 DEF ClusterInv, Creating, Destroying, Returned
<1>7. Remaining(c) = Places
  BY <1>2, ConstantsAssumption DEF Remaining, FirstPlace, Places
<1>8. ASSUME Undisturbed'
      PROVE  \A id \in VMIDs : Traced(id)'
  <2>1. Tells(j, e, c)
    BY <1>2, <1>3 DEF Tells, cluster, Returned
  <2>2. QED
    BY <1>5, <1>6, <1>8, <2>1, TracedTurn DEF GoneInv
<1>9. ASSUME Undisturbed', NEW id \in VMIDs
      PROVE  Doomed(id)'
  <2>1. Doomed(id) /\ of'[id] = of[id] /\ power'[id] = power[id]
    BY <1>3, <1>5, <1>9 DEF GoneInv, cluster
  <2>2. CASE of[id] = e
    <3>1. \E m \in Remaining(c) : c.ids[m] = id
      BY <1>2, <1>3, <1>5, <1>7, <1>9, <2>2 DEF GoneInv, Traced
    <3>2. call'[j] = c
      BY <1>4
    <3>3. \E m \in Remaining(call'[j]) : call'[j].ids[m] = id
      BY <3>1, <3>2
    <3>4. QED
      BY <1>2, <2>1, <2>2, <3>2, <3>3 DEF Doomed, Remaining
  <2>3. CASE of[id] # e
    <3>1. \A g \in Jobs : call[g].op = "destroy" => call'[g] = call[g]
      BY <1>3, <1>4 DEF IsIdle
    <3>2. of'[id] \in asked' => of[id] \in asked
      BY <1>3, <2>1, <2>3
    <3>3. QED
      BY <2>1, <3>1, <3>2 DEF Doomed, Remaining
  <2>4. QED
    BY <2>2, <2>3
<1>10. ASSUME Undisturbed', NEW g \in Jobs
       PROVE  Poised(call[g])'
  <2>1. CASE g = j
    BY <1>2, <1>4, <2>1 DEF Poised
  <2>2. CASE g # j
    <3>1. call'[g] = call[g] /\ Poised(call[g]) /\ power' = power
      BY <1>3, <1>4, <1>5, <1>10, <2>2 DEF GoneInv, cluster
    <3>2. QED
      BY <3>1 DEF Poised
  <2>3. QED
    BY <2>1, <2>2
<1>11. QED
  BY <1>5, <1>8, <1>9, <1>10 DEF GoneInv

LEMMA RemovedGone ==
    ASSUME ClusterInv, GoneInv, NEW vm \in VMIDs, Removed(vm)
    PROVE  GoneInv'
<1>1. /\ power[vm] = "deleting" /\ UNCHANGED <<rows, call, budget>>
      /\ \A id \in VMIDs : power'[id] = IF id = vm THEN "free" ELSE power[id]
      /\ \A id \in VMIDs : of'[id] = IF id = vm THEN None ELSE of[id]
  BY DEF Removed, ClusterInv, TypeOK
<1>2. Spent' /\ (Undisturbed' => Undisturbed) /\ Unowned'
  BY <1>1 DEF GoneInv, Unowned, Spent, Undisturbed
<1>3. None \notin Envs /\ asked \subseteq Envs /\ Returned \subseteq Envs
  BY ConstantsAssumption DEF Returned, ClusterInv, TypeOK
<1>4. \A g \in Jobs : call[g].op = "create" => call[g].env \in Envs
  BY DEF ClusterInv, TypeOK, Creating
<1>5. Returned' = Returned
  BY <1>1 DEF Returned, rows
<1>6. ASSUME Undisturbed', NEW id \in VMIDs
      PROVE  Traced(id)'
  <2>1. CASE id = vm
    BY <1>1, <1>3, <1>4, <1>5, <2>1 DEF Traced, rows
  <2>2. CASE id # vm
    BY <1>1, <1>2, <1>5, <1>6, <2>2 DEF GoneInv, Traced, Carried, rows
  <2>3. QED
    BY <2>1, <2>2
<1>7. ASSUME Undisturbed', NEW id \in VMIDs
      PROVE  Doomed(id)'
  <2>1. CASE id = vm
    BY <1>1, <1>3, <2>1 DEF Doomed, rows
  <2>2. CASE id # vm
    <3>1. Doomed(id)
      BY <1>2, <1>7 DEF GoneInv
    <3>2. QED
      BY <1>1, <2>2, <3>1 DEF Doomed, Remaining, rows
  <2>3. QED
    BY <2>1, <2>2
<1>8. ASSUME Undisturbed', NEW g \in Jobs
      PROVE  Poised(call[g])'
  <2>1. Poised(call[g]) /\ call' = call
    BY <1>1, <1>2, <1>8 DEF GoneInv
  <2>2. ASSUME call[g].op = "destroy"
        PROVE  power'[call[g].id] = power[call[g].id]
    BY <1>1, <2>2, DestroyHeld DEF Held
  <2>3. QED
    BY <2>1, <2>2 DEF Poised
<1>9. QED
  BY <1>2, <1>6, <1>7, <1>8 DEF GoneInv

\* No VM is disowned or becomes free, and the budget is disturbed.
LEMMA DisturbedGone ==
    ASSUME GoneInv, Spent', ~Undisturbed', UNCHANGED of,
           \A id \in VMIDs : power'[id] = "free" => power[id] = "free"
    PROVE  GoneInv'
BY DEF GoneInv, Unowned

LEMMA NextGoneInv ==
    ASSUME ClusterInv, GoneInv, [Next]_vars, Once'
    PROVE  GoneInv'
<1>1. ASSUME NEW j \in Jobs, CreateStep(j)
      PROVE  GoneInv'
  <2>1. Spent' /\ (Undisturbed' => Undisturbed)
    BY <1>1, CalmRequest DEF GoneInv
  <2>2. QED
    BY <1>1, <2>1, CreateStepBuilds, BuildsGone
<1>2. ASSUME NEW j \in Jobs, DestroyStep(j)
      PROVE  GoneInv'
  <2>1. Spent' /\ (Undisturbed' => Undisturbed)
    BY <1>2, CalmRequest DEF GoneInv
  <2>2. QED
    BY <1>2, <2>1, DestroyStepWrecks, WrecksGone
<1>3. ASSUME NEW j \in Jobs, NEW e \in Envs, CreateStart(j, e) \/ DestroyStart(j, e)
      PROVE  GoneInv'
  BY <1>3, CreateStartGone, DestroyStartGone
<1>4. ASSUME NEW j \in Jobs, Cancel(j)
      PROVE  GoneInv'
  <2>1. Spent' /\ ~Undisturbed'
    BY <1>4, CalmBudget DEF Cancel, GoneInv
  <2>2. UNCHANGED <<power, of>>
    BY <1>4 DEF Cancel, cluster
  <2>3. QED
    BY <2>1, <2>2, DisturbedGone
<1>5. ASSUME NEW id \in VMIDs, RemovalFails(id)
      PROVE  GoneInv'
  <2>1. Spent' /\ ~Undisturbed'
    BY <1>5, CalmBudget DEF RemovalFails, GoneInv
  <2>2. UNCHANGED of /\ \A i \in VMIDs : power'[i] = "free" => power[i] = "free"
    BY <1>5 DEF RemovalFails, ClusterInv, TypeOK
  <2>3. QED
    BY <2>1, <2>2, DisturbedGone
<1>6. CASE Crash
  <2>1. Spent' /\ ~Undisturbed'
    BY <1>6, CalmBudget DEF Crash, GoneInv
  <2>2. UNCHANGED <<power, of>>
    BY <1>6 DEF Crash, cluster
  <2>3. QED
    BY <2>1, <2>2, DisturbedGone
<1>7. CASE UNCHANGED vars
  <2>1. UNCHANGED <<power, of, config, begun, meta, asked, call, budget>>
    BY <1>7 DEF vars, cluster, rows
  <2>2. Spent' /\ Unowned' /\ (Undisturbed' => Undisturbed) /\ Returned' = Returned
    BY <2>1 DEF GoneInv, Spent, Unowned, Undisturbed, Returned
  <2>3. \A id \in VMIDs : Traced(id) => Traced(id)'
    BY <2>1, <2>2 DEF Traced, Carried
  <2>4. \A id \in VMIDs : Doomed(id) => Doomed(id)'
    BY <2>1 DEF Doomed, Remaining
  <2>5. \A j \in Jobs : Poised(call[j]) => Poised(call[j])'
    BY <2>1 DEF Poised
  <2>6. QED
    BY <2>2, <2>3, <2>4, <2>5 DEF GoneInv
<1>8. QED
  BY <1>1, <1>2, <1>3, <1>4, <1>5, <1>6, <1>7, RemovedGone DEF Next

LEMMA InitGoneInv ==
    ASSUME Init
    PROVE  GoneInv
<1>1. Spent /\ Unowned
  BY ConstantsAssumption DEF Init, Spent, Unowned
<1>2. \A j \in Jobs : call[j] = Idle
  BY DEF Init
<1>3. Idle.live /\ Idle.op = "idle"
  BY DEF Idle
<1>4. ASSUME NEW id \in VMIDs
      PROVE  Traced(id) /\ Doomed(id)
  <2>1. of[id] = None /\ None \notin Envs /\ asked = {} /\ Returned \subseteq Envs
    BY ConstantsAssumption DEF Init, Returned
  <2>2. QED
    BY <1>2, <1>3, <2>1 DEF Traced, Doomed
<1>5. \A j \in Jobs : Poised(call[j])
  BY <1>2, <1>3 DEF Poised
<1>6. QED
  BY <1>1, <1>4, <1>5 DEF GoneInv

\* The two invariants together.
LEMMA SpecGoneInv == Spec => [](Once => ClusterInv /\ GoneInv)
<1>1. Init => (Once => ClusterInv /\ GoneInv)
  BY InitClusterInv, InitGoneInv
<1>2. TypeOK /\ TypeOK' /\ Spent /\ (Once => ClusterInv /\ GoneInv) /\ [Next]_vars
        => (Once' => ClusterInv' /\ GoneInv')
  BY OnceBefore, NextClusterInv, NextGoneInv
<1>3. QED
  BY <1>1, <1>2, ProxmoxTypes, SpecSpent, PTL DEF Spec

\* A destruction in the course of which nothing failed leaves no VM of the
\* environment behind, although every error is swallowed and no removal is
\* waited for (provider.go:178-206): each VM that is still there is being
\* removed, or the call is still at work.  Environments come and go, and take
\* each other's ids, as before; none was destroyed a second time.
THEOREM DestroyedLeavesNothing == Spec => []DestroyedIsGone
<1>1. Undisturbed => Once
  BY DEF Undisturbed, Once, BudgetKinds
<1>2. (Once => ClusterInv /\ GoneInv) => DestroyedIsGone
  BY <1>1 DEF GoneInv, Doomed, DestroyedIsGone, Calling
<1>3. QED
  BY <1>2, SpecGoneInv, PTL
-----------------------------------------------------------------------------
(* What rows and calls know of each other, whatever is destroyed how often *)

Fits(c) ==
    /\ c.op = "idle" => c.at = "idle"
    /\ c.op = "create" =>
        /\ c.at \in {"nextid", "clone", "cloned", "configure", "start", "ip"}
        /\ c.env \in begun /\ meta[c.env] = NoIDs
    /\ c.op = "destroy" => c.at \in {"stop", "delete"} /\ c.env \in asked

\* No environment has two creations.
BuiltAlone ==
    \A g, j \in Jobs :
        call[g].op = "create" /\ call[j].op = "create" /\ call[g].env = call[j].env
            => g = j

RowsInv ==
    /\ TypeOK
    /\ Unowned
    /\ \A j \in Jobs : Fits(call[j])
    /\ BuiltAlone
    /\ asked \subseteq Returned
    /\ Returned \subseteq begun

\* Job j was in a creation of e, and goes on with it, or ends it.
CreatesOn(j, e) ==
    /\ call[j].op = "create" /\ call[j].env = e
    /\ \/ call'[j].op = "idle" /\ call'[j].at = "idle"
       \/ /\ call'[j].op = "create" /\ call'[j].env = e /\ UNCHANGED meta
          /\ call'[j].at \in {"nextid", "clone", "cloned", "configure", "start", "ip"}
    /\ \A g \in Jobs \ {j} : call'[g] = call[g]
    /\ UNCHANGED <<begun, asked>>
    /\ \A f \in Envs : f # e => meta'[f] = meta[f]
    /\ \A id \in VMIDs :
        \/ of'[id] = of[id] /\ (power'[id] = "free" => power[id] = "free")
        \/ power[id] = "free" /\ power'[id] # "free" /\ of'[id] = e
        \/ of[id] = e /\ of'[id] = None

\* Job j was in a destruction of e, and goes on with it, or ends it.
DestroysOn(j, e) ==
    /\ call[j].op = "destroy" /\ call[j].env = e
    /\ \/ call'[j].op = "idle" /\ call'[j].at = "idle"
       \/ /\ call'[j].op = "destroy" /\ call'[j].env = e
          /\ call'[j].at \in {"stop", "delete"}
    /\ \A g \in Jobs \ {j} : call'[g] = call[g]
    /\ UNCHANGED <<rows, of>>
    /\ \A id \in VMIDs : power'[id] = "free" => power[id] = "free"

LEMMA CreateGoesOn ==
    ASSUME RowsInv, NEW j \in Jobs, CreateStep(j)
    PROVE  CreatesOn(j, call[j].env)
<1>1. PICK d : d = call[j]
  OBVIOUS
<1>2. d \in Calls /\ Fits(d)
  BY <1>1 DEF RowsInv, TypeOK
<1>3. d.at \in {"nextid", "clone", "cloned", "configure", "start", "ip"}
  BY <1>1 DEF CreateStep, NextVMID, CloneVM, Cloned, ConfigureVM, StartVM, WaitForIP, At
<1>4. d.op = "create"
  BY <1>2, <1>3 DEF Fits, Calls
<1>5. Idle.op = "idle" /\ Idle.at = "idle"
  BY DEF Idle
<1>6. /\ \/ call'[j].op = "idle" /\ call'[j].at = "idle"
         \/ /\ call'[j].op = "create" /\ call'[j].env = d.env /\ UNCHANGED meta
            /\ call'[j].at \in {"nextid", "clone", "cloned", "configure", "start", "ip"}
      /\ \A g \in Jobs \ {j} : call'[g] = call[g]
  <2>1. PICK ids : ids = [d.ids EXCEPT ![d.place] = d.id]
    OBVIOUS
  <2>2. \/ Return(j)
        \/ \E p \in {"cloned", "configure", "start", "ip"} : Goto(j, p) /\ UNCHANGED meta
        \/ /\ UNCHANGED meta
           /\ \E id : Become(j, [d EXCEPT !.at = "clone", !.id = id])
        \/ /\ UNCHANGED meta
           /\ Become(j, [d EXCEPT !.at = "nextid", !.id = None, !.tries = @ + 1])
        \/ /\ UNCHANGED meta
           /\ Become(j, [Idle EXCEPT !.op = "create", !.at = "nextid", !.env = d.env,
                                     !.place = d.place + 1, !.ids = ids])
    BY <1>1, <2>1 DEF CreateStep, NextVMID, CloneVM, Cloned, AnotherID, ConfigureVM,
                      StartVM, WaitForIP, rows
  <2>3. CASE Return(j)
    BY <1>5, <2>3 DEF Return, Become, RowsInv, TypeOK
  <2>4. CASE \E p \in {"cloned", "configure", "start", "ip"} : Goto(j, p) /\ UNCHANGED meta
    BY <1>1, <1>2, <1>4, <2>4 DEF Goto, Become, RowsInv, TypeOK, Calls
  <2>5. CASE /\ UNCHANGED meta
             /\ \E id : Become(j, [d EXCEPT !.at = "clone", !.id = id])
    BY <1>1, <1>2, <1>4, <2>5 DEF Become, RowsInv, TypeOK, Calls
  <2>6. CASE /\ UNCHANGED meta
             /\ Become(j, [d EXCEPT !.at = "nextid", !.id = None, !.tries = @ + 1])
    BY <1>1, <1>2, <1>4, <2>6 DEF Become, RowsInv, TypeOK, Calls
  <2>7. CASE /\ UNCHANGED meta
             /\ Become(j, [Idle EXCEPT !.op = "create", !.at = "nextid", !.env = d.env,
                                       !.place = d.place + 1, !.ids = ids])
    BY <2>7, IdleType DEF Become, RowsInv, TypeOK, Calls
  <2>8. QED
    BY <2>2, <2>3, <2>4, <2>5, <2>6, <2>7
<1>7. UNCHANGED <<begun, asked>> /\ \A f \in Envs : f # d.env => meta'[f] = meta[f]
  <2>1. UNCHANGED <<begun, asked>>
    BY DEF CreateStep, NextVMID, CloneVM, Cloned, ConfigureVM, StartVM, WaitForIP, rows
  <2>2. UNCHANGED meta \/ \E ids : meta' = [meta EXCEPT ![d.env] = ids]
    BY <1>1 DEF CreateStep, NextVMID, CloneVM, Cloned, ConfigureVM, StartVM, WaitForIP,
                rows
  <2>3. QED
    BY <2>1, <2>2 DEF RowsInv, TypeOK
<1>8. ASSUME NEW id \in VMIDs
      PROVE  \/ of'[id] = of[id] /\ (power'[id] = "free" => power[id] = "free")
             \/ power[id] = "free" /\ power'[id] # "free" /\ of'[id] = d.env
             \/ of[id] = d.env /\ of'[id] = None
  <2>1. \/ UNCHANGED <<power, of>>
        \/ Take(j)
        \/ /\ of[d.id] = d.env
           /\ power' = [power EXCEPT ![d.id] = "free"]
           /\ of' = [of EXCEPT ![d.id] = None]
        \/ power' = [power EXCEPT ![d.id] = "running"] /\ UNCHANGED of
    BY <1>1 DEF CreateStep, NextVMID, CloneVM, Cloned, ConfigureVM, StartVM, WaitForIP,
                cluster
  <2>2. QED
    BY <1>1, <2>1 DEF Take, RowsInv, TypeOK
<1>9. QED
  BY <1>1, <1>4, <1>6, <1>7, <1>8 DEF CreatesOn

LEMMA DestroyGoesOnWith ==
    ASSUME RowsInv, NEW j \in Jobs, DestroyStep(j)
    PROVE  DestroysOn(j, call[j].env)
<1>1. PICK d : d = call[j]
  OBVIOUS
<1>2. d \in Calls /\ Fits(d)
  BY <1>1 DEF RowsInv, TypeOK
<1>3. d.at \in {"stop", "delete"}
  BY <1>1 DEF DestroyStep, StopVM, DeleteVM, At
<1>4. d.op = "destroy"
  BY <1>2, <1>3 DEF Fits, Calls
<1>5. Idle.op = "idle" /\ Idle.at = "idle"
  BY DEF Idle
<1>6. /\ \/ call'[j].op = "idle" /\ call'[j].at = "idle"
         \/ /\ call'[j].op = "destroy" /\ call'[j].env = d.env
            /\ call'[j].at \in {"stop", "delete"}
      /\ \A g \in Jobs \ {j} : call'[g] = call[g]
  <2>1. PICK n : n = NextPlace(d.place)
    OBVIOUS
  <2>2. \/ Return(j)
        \/ Goto(j, "delete")
        \/ Become(j, [d EXCEPT !.at = "stop", !.place = n, !.id = d.ids[n]])
    BY <1>1, <2>1 DEF DestroyStep, StopVM, DeleteVM, DestroyGoesOn
  <2>3. CASE Return(j)
    BY <1>5, <2>3 DEF Return, Become, RowsInv, TypeOK
  <2>4. CASE Goto(j, "delete")
    BY <1>1, <1>2, <1>4, <2>4 DEF Goto, Become, RowsInv, TypeOK, Calls
  <2>5. CASE Become(j, [d EXCEPT !.at = "stop", !.place = n, !.id = d.ids[n]])
    BY <1>1, <1>2, <1>4, <2>5 DEF Become, RowsInv, TypeOK, Calls
  <2>6. QED
    BY <2>2, <2>3, <2>4, <2>5
<1>7. UNCHANGED <<rows, of>>
  BY DEF DestroyStep, StopVM, DeleteVM
<1>8. \A id \in VMIDs : power'[id] = "free" => power[id] = "free"
  BY DEF DestroyStep, StopVM, DeleteVM, RowsInv, TypeOK
<1>9. QED
  BY <1>1, <1>4, <1>6, <1>7, <1>8 DEF DestroysOn

\* What a step of a call, of the cluster or of the server leaves of each call.
Continues(g) ==
    \/ call'[g].op = "idle" /\ call'[g].at = "idle"
    \/ /\ call'[g].op = call[g].op /\ call'[g].env = call[g].env
       /\ call'[g].at = call[g].at

LEMMA WorldContinues ==
    ASSUME RowsInv,
           \/ \E id \in VMIDs : Removed(id) \/ RemovalFails(id)
           \/ \E j \in Jobs : Cancel(j)
           \/ Crash
           \/ UNCHANGED vars
    PROVE  /\ UNCHANGED rows
           /\ \A g \in Jobs : Continues(g)
           /\ \A id \in VMIDs :
                \/ of'[id] = of[id] /\ (power'[id] = "free" => power[id] = "free")
                \/ power[id] = "deleting" /\ of'[id] = None
<1>1. UNCHANGED rows
  BY DEF Removed, RemovalFails, Cancel, Crash, vars, rows
<1>2. \A g \in Jobs : Continues(g)
  <2>1. ASSUME NEW j \in Jobs, Cancel(j)
        PROVE  \A g \in Jobs : Continues(g)
    <3>1. \A g \in Jobs :
            call'[g] = IF g = j THEN [call[j] EXCEPT !.live = FALSE] ELSE call[g]
      BY <2>1 DEF Cancel, Become, RowsInv, TypeOK
    <3>2. call[j] \in Calls
      BY DEF RowsInv, TypeOK
    <3>3. QED
      BY <3>1, <3>2 DEF Calls, Continues
  <2>2. CASE Crash
    BY <2>2 DEF Crash, Idle, Continues
  <2>3. CASE call' = call
    BY <2>3 DEF Continues
  <2>4. QED
    BY <2>1, <2>2, <2>3 DEF Removed, RemovalFails, vars
<1>3. ASSUME NEW id \in VMIDs
      PROVE  \/ of'[id] = of[id] /\ (power'[id] = "free" => power[id] = "free")
             \/ power[id] = "deleting" /\ of'[id] = None
  <2>1. CASE \E vm \in VMIDs : Removed(vm)
    BY <2>1 DEF Removed, RowsInv, TypeOK
  <2>2. CASE \E vm \in VMIDs : RemovalFails(vm)
    BY <2>2 DEF RemovalFails, RowsInv, TypeOK
  <2>3. CASE UNCHANGED cluster
    BY <2>3 DEF cluster
  <2>4. QED
    BY <2>1, <2>2, <2>3 DEF Cancel, Crash, vars
<1>4. QED
  BY <1>1, <1>2, <1>3

LEMMA StartsCall ==
    ASSUME RowsInv, NEW j \in Jobs, NEW e \in Envs,
           CreateStart(j, e) \/ DestroyStart(j, e)
    PROVE  /\ call[j].op = "idle"
           /\ UNCHANGED <<power, of, meta>>
           /\ \A g \in Jobs \ {j} : call'[g] = call[g]
           /\ call'[j].env = e
           /\ \/ /\ call'[j].op = "create" /\ call'[j].at = "nextid"
                 /\ e \notin begun /\ begun' = begun \cup {e} /\ UNCHANGED asked
              \/ /\ call'[j].op = "destroy" /\ call'[j].at = "stop"
                 /\ e \in Returned /\ asked' = asked \cup {e} /\ UNCHANGED begun
<1>1. CASE CreateStart(j, e)
  BY <1>1 DEF CreateStart, Become, Idle, IsIdle, RowsInv, TypeOK, cluster
<1>2. CASE DestroyStart(j, e)
  BY <1>2 DEF DestroyStart, Become, Idle, IsIdle, RowsInv, TypeOK, cluster, Returned
<1>3. QED
  BY <1>1, <1>2

LEMMA NextRowsInv ==
    ASSUME RowsInv, TypeOK', [Next]_vars
    PROVE  RowsInv'
<1>1. None \notin Envs /\ begun \subseteq Envs /\ asked \subseteq Envs
  BY ConstantsAssumption DEF RowsInv, TypeOK
<1>2. ASSUME NEW j \in Jobs, CreateStep(j)
      PROVE  RowsInv'
  <2>1. PICK e : e = call[j].env
    OBVIOUS
  <2>2. CreatesOn(j, e)
    BY <1>2, <2>1, CreateGoesOn
  <2>3. e \in begun /\ meta[e] = NoIDs
    BY <2>2 DEF CreatesOn, RowsInv, Fits
  <2>4. Unowned'
    BY <2>2 DEF CreatesOn, RowsInv, Unowned
  <2>5. Returned \subseteq Returned' /\ Returned' \subseteq Returned \cup {e}
    BY <2>2, <2>3 DEF CreatesOn, Returned
  <2>6. ASSUME NEW g \in Jobs
        PROVE  Fits(call[g])'
    <3>1. CASE g = j
      BY <2>2, <2>3, <3>1 DEF CreatesOn, Fits
    <3>2. CASE g # j
      <4>1. call'[g] = call[g] /\ Fits(call[g])
        BY <2>2, <3>2 DEF CreatesOn, RowsInv
      <4>2. call[g].op = "create" => call[g].env \in Envs /\ call[g].env # e
        BY <1>1, <2>2, <3>2, <4>1 DEF CreatesOn, RowsInv, BuiltAlone, Fits
      <4>3. QED
        BY <2>2, <4>1, <4>2 DEF CreatesOn, Fits
    <3>3. QED
      BY <3>1, <3>2
  <2>7. BuiltAlone'
    BY <2>2 DEF CreatesOn, RowsInv, BuiltAlone
  <2>8. QED
    BY <2>2, <2>3, <2>4, <2>5, <2>6, <2>7 DEF RowsInv, CreatesOn
<1>3. ASSUME NEW j \in Jobs, DestroyStep(j)
      PROVE  RowsInv'
  <2>1. PICK e : e = call[j].env
    OBVIOUS
  <2>2. DestroysOn(j, e)
    BY <1>3, <2>1, DestroyGoesOnWith
  <2>3. UNCHANGED rows /\ Returned' = Returned
    BY <2>2 DEF DestroysOn, rows, Returned
  <2>4. \A g \in Jobs : Fits(call[g])'
    BY <2>2, <2>3 DEF DestroysOn, RowsInv, Fits, rows
  <2>5. BuiltAlone' /\ Unowned'
    BY <2>2 DEF DestroysOn, RowsInv, BuiltAlone, Unowned
  <2>6. QED
    BY <2>3, <2>4, <2>5 DEF RowsInv, rows
<1>4. ASSUME NEW j \in Jobs, NEW e \in Envs, CreateStart(j, e) \/ DestroyStart(j, e)
      PROVE  RowsInv'
  <2>1. /\ call[j].op = "idle" /\ UNCHANGED <<power, of, meta>>
        /\ \A g \in Jobs \ {j} : call'[g] = call[g]
        /\ call'[j].env = e
        /\ \/ /\ call'[j].op = "create" /\ call'[j].at = "nextid"
              /\ e \notin begun /\ begun' = begun \cup {e} /\ UNCHANGED asked
           \/ /\ call'[j].op = "destroy" /\ call'[j].at = "stop"
              /\ e \in Returned /\ asked' = asked \cup {e} /\ UNCHANGED begun
    BY <1>4, StartsCall
  <2>2. Returned' = Returned
    BY <2>1 DEF Returned
  <2>3. e \notin begun => meta[e] = NoIDs
    BY DEF RowsInv, Returned
  <2>4. \A g \in Jobs : Fits(call[g])'
    BY <2>1, <2>3 DEF RowsInv, Fits
  <2>5. BuiltAlone' /\ Unowned'
    BY <2>1 DEF RowsInv, BuiltAlone, Unowned, Fits
  <2>6. QED
    BY <2>1, <2>2, <2>4, <2>5 DEF RowsInv
<1>5. CASE \/ \E id \in VMIDs : Removed(id) \/ RemovalFails(id)
           \/ \E j \in Jobs : Cancel(j)
           \/ Crash
           \/ UNCHANGED vars
  <2>1. /\ UNCHANGED rows
        /\ \A g \in Jobs : Continues(g)
        /\ \A id \in VMIDs :
                \/ of'[id] = of[id] /\ (power'[id] = "free" => power[id] = "free")
                \/ power[id] = "deleting" /\ of'[id] = None
    BY <1>5, WorldContinues
  <2>2. Returned' = Returned
    BY <2>1 DEF Returned, rows
  <2>3. \A g \in Jobs : Fits(call[g])'
    BY <2>1 DEF Continues, RowsInv, Fits, rows
  <2>4. BuiltAlone' /\ Unowned'
    BY <2>1 DEF Continues, RowsInv, BuiltAlone, Unowned
  <2>5. QED
    BY <2>1, <2>2, <2>3, <2>4 DEF RowsInv, rows
<1>6. QED
  BY <1>2, <1>3, <1>4, <1>5 DEF Next

LEMMA SpecRowsInv == Spec => []RowsInv
<1>1. TypeOK /\ Init => RowsInv
  <2> SUFFICES ASSUME TypeOK, Init
               PROVE  RowsInv
    OBVIOUS
  <2>1. Returned = {}
    BY DEF Init, Returned
  <2>2. \A j \in Jobs : call[j].op = "idle" /\ call[j].at = "idle"
    BY DEF Init, Idle
  <2>3. QED
    BY <2>1, <2>2 DEF Init, RowsInv, Unowned, Fits, BuiltAlone
<1>2. RowsInv /\ TypeOK' /\ [Next]_vars => RowsInv'
  BY NextRowsInv
<1>3. QED
  BY <1>1, <1>2, ProxmoxTypes, PTL DEF Spec

-----------------------------------------------------------------------------
(* The promise of the Provider interface is kept                           *)

There(f) == \E id \in VMIDs : of[id] = f
Leaving(f) == \E id \in VMIDs : of[id] = f /\ power[id] = "deleting"

\* What the invariant leaves of the cases of StateOf.
StateFits ==
    \A f \in Envs :
        /\ f \notin begun => StateOf(f) = "absent"
        /\ Calling("create", f) =>
            f \in begun \ Returned /\ StateOf(f) = "building"
        /\ f \in begun \ Returned /\ ~Calling("create", f) => StateOf(f) = "failed"
        /\ f \in Returned \ asked /\ Whole(f) => StateOf(f) = "up"
        /\ f \in Returned \ asked /\ ~Whole(f) => StateOf(f) = "broken"
        /\ f \in asked =>
            /\ ~There(f) => StateOf(f) = "gone"
            /\ There(f) /\ (Calling("destroy", f) \/ Leaving(f)) => StateOf(f) = "going"
            /\ There(f) /\ ~Calling("destroy", f) /\ ~Leaving(f) => StateOf(f) = "left"
        /\ f \in asked => f \in Returned
        /\ f \in Returned => f \in begun

LEMMA InvStateFits == RowsInv => StateFits
<1> SUFFICES ASSUME RowsInv, NEW f \in Envs
             PROVE  StateFits!(f)
  BY DEF StateFits
<1>1. (f \in asked => f \in Returned) /\ (f \in Returned => f \in begun)
  BY DEF RowsInv
<1>2. Calling("create", f) => f \in begun \ Returned
  BY DEF Calling, RowsInv, Fits, Returned
<1>3. f \notin begun => StateOf(f) = "absent"
  BY <1>1 DEF StateOf
<1>4. Calling("create", f) => StateOf(f) = "building"
  BY <1>1, <1>2 DEF StateOf
<1>5. f \in begun \ Returned /\ ~Calling("create", f) => StateOf(f) = "failed"
  BY <1>1 DEF StateOf
<1>6. f \in Returned \ asked /\ Whole(f) => StateOf(f) = "up"
  BY <1>1, <1>2 DEF StateOf
<1>7. f \in Returned \ asked /\ ~Whole(f) => StateOf(f) = "broken"
  BY <1>1, <1>2 DEF StateOf
<1>8. f \in asked /\ ~There(f) => StateOf(f) = "gone"
  BY <1>1, <1>2 DEF StateOf, There
<1>9. f \in asked /\ There(f) /\ (Calling("destroy", f) \/ Leaving(f))
            => StateOf(f) = "going"
  BY <1>1, <1>2 DEF StateOf, There, Leaving
<1>10. f \in asked /\ There(f) /\ ~Calling("destroy", f) /\ ~Leaving(f)
            => StateOf(f) = "left"
  BY <1>1, <1>2 DEF StateOf, There, Leaving
<1>11. QED
  BY <1>1, <1>2, <1>3, <1>4, <1>5, <1>6, <1>7, <1>8, <1>9, <1>10

\* What a step may do to environment f.
Drift(f) ==
    /\ f \in begun => f \in begun'
    /\ f \in Returned => f \in Returned'
    /\ f \in asked => f \in asked'
    /\ f \in begun' \ begun => Calling("create", f)'
    /\ f \in Returned' \ Returned => Calling("create", f) /\ f \notin asked'
    /\ f \in asked' \ asked => f \in Returned /\ Calling("destroy", f)' /\ UNCHANGED of
    /\ Calling("create", f)' => Calling("create", f) \/ f \notin begun
    /\ f \in asked =>
        \A id \in VMIDs :
            /\ of'[id] = f => of[id] = f
            /\ of[id] = f /\ of'[id] # f => power[id] = "deleting"

\* What it may do besides only after a second destruction is left out here.
Orderly(f) ==
    f \in asked =>
        /\ Calling("destroy", f)' => Calling("destroy", f)
        /\ Calling("destroy", f) => There(f)
        /\ \A id \in VMIDs :
            of[id] = f /\ power'[id] = "deleting" =>
                power[id] = "deleting" \/ Calling("destroy", f)

LEMMA NextDrift ==
    ASSUME RowsInv, [Next]_vars, NEW f \in Envs
    PROVE  Drift(f)
<1>1. f # None /\ asked \subseteq Returned /\ Returned \subseteq begun
  BY ConstantsAssumption DEF RowsInv
<1>2. ASSUME NEW j \in Jobs, CreateStep(j)
      PROVE  Drift(f)
  <2>1. PICK e : e = call[j].env
    OBVIOUS
  <2>2. CreatesOn(j, e)
    BY <1>2, <2>1, CreateGoesOn
  <2>3. meta[e] = NoIDs /\ e \notin asked
    BY <2>2 DEF CreatesOn, RowsInv, Fits, Returned
  <2>4. (f \in Returned => f \in Returned') /\ (f \in Returned' \ Returned => f = e)
    BY <2>2, <2>3 DEF CreatesOn, Returned
  <2>5. Calling("create", f)' => Calling("create", f)
    BY <2>2 DEF CreatesOn, Calling
  <2>6. Calling("create", e)
    BY <2>2 DEF CreatesOn, Calling
  <2>7. f \in asked =>
            \A id \in VMIDs :
                (of'[id] = f => of[id] = f) /\ ~(of[id] = f /\ of'[id] # f)
    BY <1>1, <2>2, <2>3 DEF CreatesOn, RowsInv, Unowned
  <2>8. QED
    BY <2>2, <2>3, <2>4, <2>5, <2>6, <2>7 DEF Drift, CreatesOn
<1>3. ASSUME NEW j \in Jobs, DestroyStep(j)
      PROVE  Drift(f)
  <2>1. PICK e : e = call[j].env
    OBVIOUS
  <2>2. DestroysOn(j, e)
    BY <1>3, <2>1, DestroyGoesOnWith
  <2>3. UNCHANGED <<rows, of>> /\ Returned' = Returned
    BY <2>2 DEF DestroysOn, rows, Returned
  <2>4. Calling("create", f)' => Calling("create", f)
    BY <2>2 DEF DestroysOn, Calling
  <2>5. QED
    BY <2>3, <2>4 DEF Drift, rows
<1>4. ASSUME NEW j \in Jobs, NEW e \in Envs, CreateStart(j, e) \/ DestroyStart(j, e)
      PROVE  Drift(f)
  <2>1. /\ call[j].op = "idle" /\ UNCHANGED <<power, of, meta>>
        /\ \A g \in Jobs \ {j} : call'[g] = call[g]
        /\ call'[j].env = e
        /\ \/ /\ call'[j].op = "create" /\ call'[j].at = "nextid"
              /\ e \notin begun /\ begun' = begun \cup {e} /\ UNCHANGED asked
           \/ /\ call'[j].op = "destroy" /\ call'[j].at = "stop"
              /\ e \in Returned /\ asked' = asked \cup {e} /\ UNCHANGED begun
    BY <1>4, StartsCall
  <2>2. Returned' = Returned
    BY <2>1 DEF Returned
  <2>3. Calling("create", f)' => Calling("create", f) \/ f \notin begun
    BY <2>1 DEF Calling
  <2>4. f \in begun' \ begun => Calling("create", f)'
    BY <2>1 DEF Calling
  <2>5. f \in asked' \ asked => f \in Returned /\ Calling("destroy", f)' /\ UNCHANGED of
    BY <2>1 DEF Calling
  <2>6. QED
    BY <2>1, <2>2, <2>3, <2>4, <2>5 DEF Drift
<1>5. CASE \/ \E id \in VMIDs : Removed(id) \/ RemovalFails(id)
           \/ \E j \in Jobs : Cancel(j)
           \/ Crash
           \/ UNCHANGED vars
  <2>1. /\ UNCHANGED rows
        /\ \A g \in Jobs : Continues(g)
        /\ \A id \in VMIDs :
                \/ of'[id] = of[id] /\ (power'[id] = "free" => power[id] = "free")
                \/ power[id] = "deleting" /\ of'[id] = None
    BY <1>5, WorldContinues
  <2>2. Returned' = Returned
    BY <2>1 DEF Returned, rows
  <2>3. Calling("create", f)' => Calling("create", f)
    BY <2>1 DEF Calling, Continues
  <2>4. QED
    BY <1>1, <2>1, <2>2, <2>3 DEF Drift, rows
<1>6. QED
  BY <1>2, <1>3, <1>4, <1>5 DEF Next

LEMMA NextOrderly ==
    ASSUME RowsInv, ClusterInv, GoneInv, [Next]_vars, Once', NEW f \in Envs
    PROVE  Orderly(f)
<1>1. f # None
  BY ConstantsAssumption
<1>2. Calling("destroy", f) => There(f)
  BY DestroyHeld DEF Calling, Held, There
<1>3. ASSUME NEW j \in Jobs, CreateStep(j)
      PROVE  Orderly(f)
  <2>1. PICK c \in Calls : Builds(j, c)
    BY <1>3, CreateStepBuilds
  <2>2. PICK e : e = call[j].env
    OBVIOUS
  <2>3. CreatesOn(j, e)
    BY <1>3, <2>2, CreateGoesOn
  <2>4. e \notin asked
    BY <2>3 DEF CreatesOn, RowsInv, Fits, Returned
  <2>5. Calling("destroy", f)' => Calling("destroy", f)
    BY <2>3 DEF CreatesOn, Calling
  <2>6. \A id \in VMIDs :
            \/ of'[id] = of[id] /\ power'[id] = power[id]
            \/ power[id] = "free"
            \/ of[id] = e
    BY <2>1, <2>2 DEF Builds
  <2>7. f \in asked => \A id \in VMIDs : of[id] = f => power'[id] = power[id]
    BY <1>1, <2>4, <2>6 DEF RowsInv, Unowned
  <2>8. QED
    BY <1>2, <2>5, <2>7 DEF Orderly
<1>4. ASSUME NEW j \in Jobs, DestroyStep(j)
      PROVE  Orderly(f)
  <2>1. PICK c \in Calls : Wrecks(j, c)
    BY <1>4, DestroyStepWrecks
  <2>2. PICK d : d = call[j]
    OBVIOUS
  <2>3. DestroysOn(j, d.env)
    BY <1>4, <2>2, DestroyGoesOnWith
  <2>4. Calling("destroy", f)' => Calling("destroy", f)
    BY <2>3 DEF DestroysOn, Calling
  <2>5. of[d.id] = d.env /\ \A id \in VMIDs : power'[id] = power[id] \/ id = d.id
    BY <2>1, <2>2 DEF Wrecks
  <2>6. Calling("destroy", d.env)
    BY <2>3 DEF DestroysOn, Calling
  <2>7. QED
    BY <1>2, <2>4, <2>5, <2>6 DEF Orderly
<1>5. ASSUME NEW j \in Jobs, NEW e \in Envs, CreateStart(j, e) \/ DestroyStart(j, e)
      PROVE  Orderly(f)
  <2>1. /\ UNCHANGED power
        /\ \A g \in Jobs \ {j} : call'[g] = call[g]
        /\ call'[j].env = e
        /\ call'[j].op = "create" \/ (call'[j].op = "destroy" /\ DestroyStart(j, e))
    <3>1. CASE CreateStart(j, e)
      BY <3>1, StartsCall DEF CreateStart, Become, Idle, RowsInv, TypeOK
    <3>2. CASE DestroyStart(j, e)
      BY <3>2, StartsCall DEF DestroyStart, Become, Idle, RowsInv, TypeOK
    <3>3. QED
      BY <1>5, <3>1, <3>2
  <2>2. DestroyStart(j, e) => e \notin asked
    BY DEF DestroyStart, Spend, Once, ClusterInv, RowsFit, TypeOK, BudgetKinds
  <2>3. f \in asked => (Calling("destroy", f)' => Calling("destroy", f))
    BY <2>1, <2>2 DEF Calling
  <2>4. QED
    BY <1>2, <2>1, <2>3 DEF Orderly
<1>6. CASE \/ \E id \in VMIDs : Removed(id) \/ RemovalFails(id)
           \/ \E j \in Jobs : Cancel(j)
           \/ Crash
           \/ UNCHANGED vars
  <2>1. \A g \in Jobs : Continues(g)
    BY <1>6, WorldContinues
  <2>2. Calling("destroy", f)' => Calling("destroy", f)
    BY <2>1 DEF Calling, Continues
  <2>3. \A id \in VMIDs : power'[id] = "deleting" => power[id] = "deleting"
    BY <1>6 DEF Removed, RemovalFails, Cancel, Crash, vars, cluster, RowsInv, TypeOK
  <2>4. QED
    BY <1>2, <2>2, <2>3 DEF Orderly
<1>7. QED
  BY <1>3, <1>4, <1>5, <1>6 DEF Next

\* Each step is a move of the promise, one of its breaks, or none.
LEMMA DriftBreaks ==
    ASSUME StateFits, StateFits', NEW f \in Envs, Drift(f),
           StateOf(f)' # StateOf(f)
    PROVE  <<StateOf(f), StateOf(f)'>> \in Promise!Moves \cup Promise!Breaks
<1>1. CASE f \notin begun
  <2>1. StateOf(f) = "absent"
    BY <1>1 DEF StateFits
  <2>2. StateOf(f)' = "absent" \/ StateOf(f)' = "building"
    BY <1>1 DEF StateFits, Drift
  <2>3. QED
    BY <2>1, <2>2 DEF Promise!Moves
<1>2. CASE Calling("create", f)
  <2>1. StateOf(f) = "building" /\ f \in begun \ Returned
    BY <1>2 DEF StateFits
  <2>2. f \in begun' /\ f \notin asked'
    BY <2>1 DEF Drift, StateFits
  <2>3. StateOf(f)' \in {"building", "failed", "up", "broken"}
    BY <2>2 DEF StateFits
  <2>4. QED
    BY <2>1, <2>3 DEF Promise!Moves, Promise!Breaks
<1>3. CASE f \in begun \ Returned /\ ~Calling("create", f)
  <2>1. StateOf(f) = "failed"
    BY <1>3 DEF StateFits
  <2>2. f \in begun' \ Returned' /\ ~Calling("create", f)'
    BY <1>3 DEF Drift
  <2>3. StateOf(f)' = "failed"
    BY <2>2 DEF StateFits
  <2>4. QED
    BY <2>1, <2>3
<1>4. CASE f \in Returned \ asked
  <2>1. /\ Whole(f) => StateOf(f) = "up" /\ There(f)
        /\ ~Whole(f) => StateOf(f) = "broken"
    <3>1. Whole(f) => There(f)
      BY ConstantsAssumption DEF Whole, There, Places
    <3>2. QED
      BY <1>4, <3>1 DEF StateFits
  <2>2. CASE f \in asked'
    <3>1. Calling("destroy", f)' /\ UNCHANGED of
      BY <1>4, <2>2 DEF Drift
    <3>2. There(f)' <=> There(f)
      BY <3>1 DEF There
    <3>3. StateOf(f)' = IF There(f) THEN "going" ELSE "gone"
      BY <2>2, <3>1, <3>2 DEF StateFits
    <3>4. QED
      BY <2>1, <3>3 DEF Promise!Moves, Promise!Breaks
  <2>3. CASE f \notin asked'
    <3>1. StateOf(f)' = "up" \/ StateOf(f)' = "broken"
      BY <1>4, <2>3 DEF StateFits, Drift
    <3>2. QED
      BY <2>1, <3>1 DEF Promise!Breaks
  <2>4. QED
    BY <2>2, <2>3
<1>5. CASE f \in asked
  <2>1. f \in asked'
    BY <1>5 DEF Drift
  <2>2. StateOf(f)' \in {"going", "gone", "left"}
    BY <2>1 DEF StateFits
  <2>3. CASE ~There(f)
    <3>1. StateOf(f) = "gone" /\ ~There(f)'
      BY <1>5, <2>3 DEF StateFits, Drift, There
    <3>2. StateOf(f)' = "gone"
      BY <2>1, <3>1 DEF StateFits
    <3>3. QED
      BY <3>1, <3>2
  <2>4. CASE There(f) /\ (Calling("destroy", f) \/ Leaving(f))
    <3>1. StateOf(f) = "going"
      BY <1>5, <2>4 DEF StateFits
    <3>2. QED
      BY <2>2, <3>1 DEF Promise!Moves
  <2>5. CASE There(f) /\ ~Calling("destroy", f) /\ ~Leaving(f)
    <3>1. There(f)'
      BY <1>5, <2>5 DEF Drift, There, Leaving
    <3>2. StateOf(f) = "left" /\ StateOf(f)' \in {"left", "going"}
      BY <1>5, <2>1, <2>5, <3>1 DEF StateFits
    <3>3. QED
      BY <3>2 DEF Promise!Breaks
  <2>6. QED
    BY <2>3, <2>4, <2>5
<1>6. QED
  BY <1>1, <1>2, <1>3, <1>4, <1>5

\* Before the first second destruction it is none of the breaks.
LEMMA OrderlyMoves ==
    ASSUME StateFits, StateFits', NEW f \in Envs, Drift(f), Orderly(f),
           AllWhole, AllWhole', StateOf(f)' # StateOf(f)
    PROVE  <<StateOf(f), StateOf(f)'>> \in Promise!Moves
<1>1. StateOf(f) # "broken" /\ StateOf(f)' # "broken"
  <2>1. /\ f \in Returned \ asked => StateOf(f) = "up"
        /\ f \in Returned' \ asked' => StateOf(f)' = "up"
    BY DEF AllWhole, StateFits
  <2>2. f \notin Returned \ asked => StateOf(f) # "broken"
    BY DEF StateFits
  <2>3. f \notin Returned' \ asked' => StateOf(f)' # "broken"
    BY DEF StateFits
  <2>4. QED
    BY <2>1, <2>2, <2>3
<1>2. ~(StateOf(f) = "left" /\ StateOf(f)' = "going")
  <2> SUFFICES ASSUME StateOf(f) = "left", StateOf(f)' = "going"
               PROVE  FALSE
    OBVIOUS
  <2>1. f \in asked /\ There(f) /\ ~Calling("destroy", f) /\ ~Leaving(f)
    BY DEF StateFits
  <2>2. f \in asked' /\ There(f)'
    BY <2>1 DEF Drift, There, Leaving
  <2>3. ~Calling("destroy", f)' /\ ~Leaving(f)'
    BY <2>1 DEF Drift, Orderly, Leaving
  <2>4. StateOf(f)' = "left"
    BY <2>2, <2>3 DEF StateFits
  <2>5. QED
    BY <2>4
<1>3. <<StateOf(f), StateOf(f)'>> \in Promise!Moves \cup Promise!Breaks
  BY DriftBreaks
<1>4. QED
  BY <1>1, <1>2, <1>3 DEF Promise!Moves, Promise!Breaks

LEMMA NextPromise ==
    ASSUME RowsInv, RowsInv', StateFits, StateFits', Spent, [Next]_vars,
           Once => ClusterInv /\ GoneInv, Once' => ClusterInv' /\ GoneInv'
    PROVE  Promise!Next
<1>1. Once' => Once
  BY OnceBefore DEF RowsInv
<1>2. ASSUME NEW e \in Envs, StateOf(e)' # StateOf(e)
      PROVE  <<StateOf(e), StateOf(e)'>> \in
                IF ~Once' THEN Promise!Moves \cup Promise!Breaks ELSE Promise!Moves
  <2>1. Drift(e)
    BY NextDrift
  <2>2. CASE Once'
    <3>1. Orderly(e) /\ AllWhole /\ AllWhole'
      BY <1>1, <2>2, NextOrderly DEF ClusterInv
    <3>2. QED
      BY <1>2, <2>1, <2>2, <3>1, OrderlyMoves
  <2>3. CASE ~Once'
    BY <1>2, <2>1, <2>3, DriftBreaks
  <2>4. QED
    BY <2>2, <2>3
<1>3. \A e \in Envs : StateOf(e)' \in Promise!States
  BY DEF StateFits, Promise!States
<1>4. QED
  BY <1>1, <1>2, <1>3 DEF Promise!Next

\* The detailed provider implements the abstract one, however often each
\* environment is destroyed.  Until the first second destruction an environment
\* goes up from building and stays up, whole and its own, until it is asked to go,
\* and what is there of it then goes, or is left.  From the first second
\* destruction on an environment may be broken by somebody else's; but what is
\* gone stays gone, a creation that failed stays failed, and no environment goes
\* without being asked for or is built twice (provider.go:178-206).
THEOREM PromiseOfProvider == Spec => KeepsPromise
<1>1. Init /\ RowsInv => Promise!Init
  <2> SUFFICES ASSUME Init, RowsInv
               PROVE  Promise!Init
    OBVIOUS
  <2>1. \A e \in Envs : StateOf(e) = "absent"
    BY InvStateFits DEF Init, StateFits
  <2>2. Once
    BY DEF Init, Once
  <2>3. QED
    BY <2>1, <2>2 DEF Promise!Init
<1>2. RowsInv /\ RowsInv' /\ StateFits /\ StateFits' /\ Spent
        /\ (Once => ClusterInv /\ GoneInv) /\ (Once => ClusterInv /\ GoneInv)'
        /\ [Next]_vars
        => Promise!Next
  BY NextPromise
<1>3. QED
  BY <1>1, <1>2, InvStateFits, SpecRowsInv, SpecGoneInv, SpecSpent, PTL
     DEF Spec, KeepsPromise, Promise!Spec
=============================================================================
