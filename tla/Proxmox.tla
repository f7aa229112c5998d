------------------------------ MODULE Proxmox ------------------------------
(***************************************************************************)
(* internal/provider/proxmox: CreateEnvironment and DestroyEnvironment as  *)
(* requests to the REST API of a Proxmox cluster, several calls at a time. *)
(*                                                                         *)
(* An action is one request, with the wait for the task it starts where    *)
(* the client waits.  A request works, or reports an error; an error may   *)
(* hide that the request took effect (the response was lost, the polling   *)
(* of the task failed or timed out).  Once the context of a call is        *)
(* cancelled, each of its requests fails.                                  *)
(***************************************************************************)
EXTENDS Integers, FiniteSets

CONSTANTS
    Envs,               \* the environments that are asked for
    Nodes,              \* the number of cluster nodes of an environment
    VMIDs,              \* the ids of the cluster
    Jobs,               \* worker slots that call the provider
    Unprofiled,         \* environments with a template that has no profile
    cloneVMIDAttempts,
    Budget              \* bound: how often each kind of event happens

None == "none"
BudgetKinds == {"fault", "cancel", "crash", "redeliver"}

\* The machines of an environment: 0 is the workstation.
Places == 0..Nodes
NoIDs == [n \in Places |-> None]

ASSUME ConstantsAssumption ==
    /\ Nodes \in Nat
    /\ cloneVMIDAttempts \in Nat \ {0}
    /\ None \notin Envs \cup VMIDs
    /\ Unprofiled \subseteq Envs
    /\ Budget \in [BudgetKinds -> Nat]

VARIABLES
    power,      \* a VM id: "free", "stopped", "running", or "deleting" while
                \* the task that removes it runs
    of,         \* history: for which environment the VM was cloned
    config,     \* whose hostname and SSH key the VM was configured with
    begun,      \* the environments whose creation was asked for
    meta,       \* environments.provider_metadata: the ids by place, or NoIDs
    asked,      \* the environments whose destruction was asked for
    call,       \* what each job is doing
    budget      \* what is left of Budget

cluster == <<power, of, config>>
rows == <<begun, meta, asked>>
vars == <<cluster, rows, call, budget>>

-----------------------------------------------------------------------------
(* Calls                                                                   *)

Points == {"idle", "nextid", "clone", "cloned", "configure", "start", "ip",
           "stop", "delete"}

Calls ==
    [op : {"idle", "create", "destroy"},
     at : Points,
     env : Envs \cup {None},
     place : Places,                        \* the machine it is at
     id : VMIDs \cup {None},                \* the id of that machine
     tries : 0..cloneVMIDAttempts,          \* clones refused for their id
     ids : [Places -> VMIDs \cup {None}],   \* the ids of the environment
     live : BOOLEAN]                        \* the context is not cancelled

Idle == [op |-> "idle", at |-> "idle", env |-> None, place |-> 0, id |-> None,
         tries |-> 0, ids |-> NoIDs, live |-> TRUE]

IsIdle(j) == call[j].op = "idle"
At(j, p) == call[j].at = p
Become(j, c) == call' = [call EXCEPT ![j] = c]
Goto(j, p) == Become(j, [call[j] EXCEPT !.at = p])
Return(j) == Become(j, Idle)

Spend(kind) ==
    /\ budget[kind] > 0
    /\ budget' = [budget EXCEPT ![kind] = @ - 1]

Works(j) == call[j].live /\ UNCHANGED budget

Fails(j) ==
    \/ ~call[j].live /\ UNCHANGED budget
    \/ call[j].live /\ Spend("fault")

\* The cluster refuses a request for a reason, or the request fails.
Refused(j, reason) == (Works(j) /\ reason) \/ Fails(j)

\* A request takes effect, whether or not the client learns of it.
Happens(j) == Works(j) \/ Fails(j)

-----------------------------------------------------------------------------
(* CreateEnvironment                                                       *)

\* Every profile is looked up before anything is cloned.
CreateStart(j, e) ==
    /\ IsIdle(j)
    /\ e \notin begun \cup Unprofiled
    /\ begun' = begun \cup {e}
    /\ Become(j, [Idle EXCEPT !.op = "create", !.at = "nextid", !.env = e])
    /\ UNCHANGED <<cluster, meta, asked, budget>>

\* NextVMID: the id is free now.
NextVMID(j) ==
    /\ At(j, "nextid")
    /\ \/ /\ Works(j)
          /\ \E id \in VMIDs :
                /\ power[id] = "free"
                /\ Become(j, [call[j] EXCEPT !.at = "clone", !.id = id])
       \/ Works(j) /\ (\A id \in VMIDs : power[id] # "free") /\ Return(j)
       \/ Fails(j) /\ Return(j)
    /\ UNCHANGED <<cluster, rows>>

\* The cluster takes the id when it accepts the request.
Take(j) ==
    /\ power[call[j].id] = "free"
    /\ power' = [power EXCEPT ![call[j].id] = "stopped"]
    /\ of' = [of EXCEPT ![call[j].id] = call[j].env]
    /\ config' = [config EXCEPT ![call[j].id] = None]

\* Bug: the refusal of a used id counts as a clone.
CloneRegardless(j) ==
    /\ At(j, "clone")
    /\ \/ Works(j) /\ Take(j) /\ Goto(j, "cloned")
       \/ /\ Works(j)
          /\ power[call[j].id] # "free"
          /\ Goto(j, "cloned")
          /\ UNCHANGED cluster
       \/ Fails(j) /\ (Take(j) \/ UNCHANGED cluster) /\ Return(j)
    /\ UNCHANGED rows

\* Bug: the attempts are not counted against the limit.
CloneRetriesForever(j) ==
    /\ At(j, "clone")
    /\ \/ Works(j) /\ Take(j) /\ Goto(j, "cloned")
       \/ /\ Works(j)
          /\ power[call[j].id] # "free"
          /\ Become(j, [call[j] EXCEPT !.at = "nextid", !.id = None, !.tries = @ + 1])
          /\ UNCHANGED cluster
       \/ Fails(j) /\ (Take(j) \/ UNCHANGED cluster) /\ Return(j)
    /\ UNCHANGED rows

\* After an error that isVMIDConflict takes for a conflict, another id is asked for.
AnotherID(j) ==
    IF call[j].tries + 1 < cloneVMIDAttempts
      THEN Become(j, [call[j] EXCEPT !.at = "nextid", !.id = None, !.tries = @ + 1])
      ELSE Return(j)

\* cloneVMWithID up to its wait.  The refusal of an id that was taken meanwhile
\* leads to another id, any other error to the end.
CloneVM(j) ==
    /\ At(j, "clone")
    /\ \/ Works(j) /\ Take(j) /\ Goto(j, "cloned")
       \/ /\ Works(j)
          /\ power[call[j].id] # "free"
          /\ AnotherID(j)
          /\ UNCHANGED cluster
       \/ Fails(j) /\ (Take(j) \/ UNCHANGED cluster) /\ Return(j)
    /\ UNCHANGED rows

\* waitForTask: the task ends well, or it fails and its VM is removed, or it
\* goes on and the client does not learn how it ends.  A task that failed because
\* something already exists is taken for a conflict of ids as well.
Cloned(j) ==
    /\ At(j, "cloned")
    /\ \/ Works(j) /\ Goto(j, "configure") /\ UNCHANGED <<power, of>>
       \/ /\ Fails(j)
          /\ Return(j) \/ (call[j].live /\ AnotherID(j))
          /\ \/ UNCHANGED <<power, of>>
             \/ /\ of[call[j].id] = call[j].env
                /\ power' = [power EXCEPT ![call[j].id] = "free"]
                /\ of' = [of EXCEPT ![call[j].id] = None]
    /\ UNCHANGED <<config, rows>>

ConfigureVM(j) ==
    /\ At(j, "configure")
    /\ \/ /\ Works(j)
          /\ power[call[j].id] # "free"
          /\ config' = [config EXCEPT ![call[j].id] = call[j].env]
          /\ Goto(j, "start")
       \/ /\ Refused(j, power[call[j].id] = "free")
          /\ Return(j)
          /\ UNCHANGED config
    /\ UNCHANGED <<power, of, rows>>

StartVM(j) ==
    /\ At(j, "start")
    /\ LET Started == /\ power[call[j].id] = "stopped"
                      /\ power' = [power EXCEPT ![call[j].id] = "running"]
       IN  \/ Works(j) /\ Started /\ Goto(j, "ip")
           \/ /\ Refused(j, power[call[j].id] # "stopped")
              /\ Return(j)
              /\ UNCHANGED power
           \/ Fails(j) /\ Started /\ Return(j)
    /\ UNCHANGED <<of, config, rows>>

\* Bug: the ids are stored when the workstation is there.
WaitForIPStoresEarly(j) ==
    /\ At(j, "ip")
    /\ LET c == call[j]
           ids == [c.ids EXCEPT ![c.place] = c.id]
       IN  \/ /\ Works(j)
              /\ power[c.id] = "running"
              /\ meta' = [meta EXCEPT ![c.env] = ids]
              /\ IF c.place < Nodes
                   THEN Become(j, [Idle EXCEPT
                                    !.op = "create", !.at = "nextid", !.env = c.env,
                                    !.place = c.place + 1, !.ids = ids])
                   ELSE Return(j)
           \/ /\ Refused(j, power[c.id] # "running")
              /\ Return(j)
              /\ UNCHANGED meta
    /\ UNCHANGED <<cluster, begun, asked>>

\* waitForIP: a machine that does not run never gets an address, and waiting
\* for it times out.  After the last machine the call returns, and its caller
\* stores the ids.
WaitForIP(j) ==
    /\ At(j, "ip")
    /\ LET c == call[j]
           ids == [c.ids EXCEPT ![c.place] = c.id]
       IN  \/ /\ Works(j)
              /\ power[c.id] = "running"
              /\ IF c.place < Nodes
                   THEN /\ Become(j, [Idle EXCEPT
                                        !.op = "create", !.at = "nextid", !.env = c.env,
                                        !.place = c.place + 1, !.ids = ids])
                        /\ UNCHANGED meta
                   ELSE Return(j) /\ meta' = [meta EXCEPT ![c.env] = ids]
           \/ /\ Refused(j, power[c.id] # "running")
              /\ Return(j)
              /\ UNCHANGED meta
    /\ UNCHANGED <<cluster, begun, asked>>

-----------------------------------------------------------------------------
(* DestroyEnvironment.  The nodes are destroyed before the workstation.    *)

FirstPlace == IF Nodes = 0 THEN 0 ELSE 1
NextPlace(n) == IF n < Nodes THEN n + 1 ELSE 0

\* The caller looks at nothing but the stored ids, so a job that is delivered
\* again, or a second job, destroys a second time.
DestroyStart(j, e) ==
    /\ IsIdle(j)
    /\ meta[e] # NoIDs
    /\ IF e \in asked THEN Spend("redeliver") ELSE UNCHANGED budget
    /\ asked' = asked \cup {e}
    /\ Become(j, [Idle EXCEPT !.op = "destroy", !.at = "stop", !.env = e,
                              !.place = FirstPlace, !.id = meta[e][FirstPlace],
                              !.ids = meta[e]])
    /\ UNCHANGED <<cluster, begun, meta>>

\* StopVM; its error is swallowed.
StopVM(j) ==
    /\ At(j, "stop")
    /\ \/ /\ Happens(j)
          /\ power[call[j].id] = "running"
          /\ power' = [power EXCEPT ![call[j].id] = "stopped"]
       \/ /\ Refused(j, power[call[j].id] # "running")
          /\ UNCHANGED power
    /\ Goto(j, "delete")
    /\ UNCHANGED <<of, config, rows>>

\* Bug: the workstation is forgotten.
DestroyGoesOnToNodes(j) ==
    LET n == NextPlace(call[j].place)
    IN  IF call[j].place = 0 \/ n = 0
          THEN Return(j)
          ELSE Become(j, [call[j] EXCEPT !.at = "stop", !.place = n,
                                         !.id = call[j].ids[n]])

DestroyGoesOn(j) ==
    LET n == NextPlace(call[j].place)
    IN  IF call[j].place = 0
          THEN Return(j)
          ELSE Become(j, [call[j] EXCEPT !.at = "stop", !.place = n,
                                         !.id = call[j].ids[n]])

\* DeleteVM; its error is swallowed, and the task it starts is not waited for.
\* The cluster refuses to delete a VM that runs.
DeleteVM(j) ==
    /\ At(j, "delete")
    /\ \/ /\ Happens(j)
          /\ power[call[j].id] = "stopped"
          /\ power' = [power EXCEPT ![call[j].id] = "deleting"]
       \/ /\ Refused(j, power[call[j].id] # "stopped")
          /\ UNCHANGED power
    /\ DestroyGoesOn(j)
    /\ UNCHANGED <<of, config, rows>>

-----------------------------------------------------------------------------
(* The cluster and the server                                              *)

\* The task of a deletion ends; the id is free again.
Removed(id) ==
    /\ power[id] = "deleting"
    /\ power' = [power EXCEPT ![id] = "free"]
    /\ of' = [of EXCEPT ![id] = None]
    /\ config' = [config EXCEPT ![id] = None]
    /\ UNCHANGED <<rows, call, budget>>

RemovalFails(id) ==
    /\ power[id] = "deleting"
    /\ Spend("fault")
    /\ power' = [power EXCEPT ![id] = "stopped"]
    /\ UNCHANGED <<of, config, rows, call>>

Cancel(j) ==
    /\ ~IsIdle(j)
    /\ call[j].live
    /\ Spend("cancel")
    /\ Become(j, [call[j] EXCEPT !.live = FALSE])
    /\ UNCHANGED <<cluster, rows>>

\* The server dies with every call it was making.
Crash ==
    /\ Spend("crash")
    /\ \E j \in Jobs : ~IsIdle(j)
    /\ call' = [j \in Jobs |-> Idle]
    /\ UNCHANGED <<cluster, rows>>

-----------------------------------------------------------------------------
Init ==
    /\ power = [id \in VMIDs |-> "free"]
    /\ of = [id \in VMIDs |-> None]
    /\ config = [id \in VMIDs |-> None]
    /\ begun = {}
    /\ meta = [e \in Envs |-> NoIDs]
    /\ asked = {}
    /\ call = [j \in Jobs |-> Idle]
    /\ budget = Budget

CreateStep(j) ==
    \/ NextVMID(j) \/ CloneVM(j) \/ Cloned(j) \/ ConfigureVM(j) \/ StartVM(j)
    \/ WaitForIP(j)

DestroyStep(j) == StopVM(j) \/ DeleteVM(j)

Next ==
    \/ \E j \in Jobs, e \in Envs : CreateStart(j, e) \/ DestroyStart(j, e)
    \/ \E j \in Jobs : CreateStep(j) \/ DestroyStep(j) \/ Cancel(j)
    \/ \E id \in VMIDs : Removed(id) \/ RemovalFails(id)
    \/ Crash

Spec == Init /\ [][Next]_vars

TypeOK ==
    /\ power \in [VMIDs -> {"free", "stopped", "running", "deleting"}]
    /\ of \in [VMIDs -> Envs \cup {None}]
    /\ config \in [VMIDs -> Envs \cup {None}]
    /\ begun \in SUBSET Envs
    /\ meta \in [Envs -> [Places -> VMIDs \cup {None}]]
    /\ asked \in SUBSET Envs
    /\ call \in [Jobs -> Calls]
    /\ budget \in [BudgetKinds -> Nat]

-----------------------------------------------------------------------------
(* Properties                                                              *)

\* No environment was destroyed a second time so far.
Once == budget["redeliver"] = Budget["redeliver"]

\* The environment has a VM of its own for each place, running, with its own
\* hostname and key.
Whole(e) ==
    /\ \A m, n \in Places : m # n => meta[e][m] # meta[e][n]
    /\ \A n \in Places : \E id \in VMIDs :
        meta[e][n] = id /\ of[id] = e /\ config[id] = e /\ power[id] = "running"

Returned == {e \in Envs : meta[e] # NoIDs}

\* "Each student attempt provisions an isolated environment" (docsite/_index.md:52):
\* what was returned is whole until its own destruction is asked for.
AllWhole == \A e \in Returned \ asked : Whole(e)

\* That is so, although ids are read in one request and used in another
\* (client.go:190-204), and freed ids are handed out again while other
\* environments come and go, until some environment is destroyed a second time.
ReturnedIsWhole == Once => AllWhole

\* A destruction leaves nothing behind unless something failed in the course of
\* it, or some environment was destroyed a second time: although every error is
\* swallowed and the removal is not waited for, each VM of the environment is
\* stopped first and then deleted, the workstation too (provider.go:178-206).
Undisturbed == \A kind \in BudgetKinds : budget[kind] = Budget[kind]

Calling(op, e) == \E j \in Jobs : call[j].op = op /\ call[j].env = e

DestroyedIsGone ==
    Undisturbed =>
        \A id \in VMIDs :
            of[id] \in asked => power[id] = "deleting" \/ Calling("destroy", of[id])

\* The environments as the caller of the provider sees them.
StateOf(e) ==
    CASE e \notin begun -> "absent"
      [] e \in begun /\ Calling("create", e) -> "building"
      [] e \in begun \ Returned /\ ~Calling("create", e) -> "failed"
      [] e \in Returned \ asked /\ ~Calling("create", e) ->
            IF Whole(e) THEN "up" ELSE "broken"
      [] e \in asked /\ ~Calling("create", e) ->
            IF \A id \in VMIDs : of[id] # e THEN "gone"
            ELSE IF \/ Calling("destroy", e)
                    \/ \E id \in VMIDs : of[id] = e /\ power[id] = "deleting"
                 THEN "going"
                 ELSE "left"

Promise == INSTANCE Provider WITH
    state <- [e \in Envs |-> StateOf(e)],
    twice <- ~Once

\* The Proxmox provider keeps the promise of the Provider interface, with any
\* number of destructions of each environment: what was destroyed never comes
\* back, and an environment is taken from its owner only after some environment
\* was destroyed a second time (provider.go:178-206).
KeepsPromise == Promise!Spec
=============================================================================
