------------------------------ MODULE Platform ------------------------------
(***************************************************************************)
(* What every part of the server shares: the PostgreSQL rows of one        *)
(* purchase and its attempts, the VMs behind the environments, the River   *)
(* job queue, and the handlers running over them.                          *)
(*                                                                         *)
(* A handler is an HTTP request, a River worker executing a job, or the    *)
(* reconciler goroutine.  No handler holds a transaction or a lock, so a   *)
(* step of this specification is one database statement or one call to the *)
(* provider, and the steps of all handlers interleave.                     *)
(*                                                                         *)
(* A statement either works or reports an error without effect.  It is     *)
(* certain to fail once the handler's context is cancelled (a request whose *)
(* client went away, a job past River's job timeout); otherwise a failure  *)
(* is a transient fault, and the budget bounds how many there are.         *)
(***************************************************************************)
EXTENDS AttemptStatus, Integers, FiniteSets

CONSTANTS
    Attempts,       \* the attempt ids uuid.New() can return
    Envs,           \* the environment ids; a group of VMs has its row's id
    Workers,        \* River worker slots (MaxWorkers of the queue)
    Requests,       \* HTTP requests in progress at one time
    Allowed,        \* attempts_remaining of the purchase when it was bought
    MaxQueued,      \* bound: equal jobs waiting beyond this many are merged
    Budget          \* bound: how often each kind of environment event happens

None == "none"
Reconciler == "reconciler"
Handlers == Workers \cup Requests \cup {Reconciler}

BudgetKinds == {"fault", "cancel", "crash", "discard", "admin", "timer", "age"}
JobKinds == {"provision_environment", "grade_attempt", "cleanup_environment",
             "expire_attempt"}
RequestKinds == {"request", "submit", "open", "retryProvision"}
Scores == {None, "earned", "zeroed"}

ASSUME HandlersAssumption ==
    /\ IsFiniteSet(Workers)
    /\ Workers \cap Requests = {}
    /\ Reconciler \notin Workers \cup Requests
ASSUME NoneAssumption == None \notin Attempts \cup Envs
ASSUME BoundsAssumption ==
    /\ Allowed \in Nat
    /\ MaxQueued \in Nat \ {0}
    /\ Budget \in [BudgetKinds -> Nat]

VARIABLES
    remaining,      \* purchased_tests.attempts_remaining
    status,         \* attempts.status, None while the row does not exist
    score,          \* attempts.score: not set, what the work earned, or 0 points
                    \* because the workstation could not be reached
    ended,          \* history: was the attempt ever submitted or expired
    aged,           \* the attempts whose created_at is over 30 minutes ago
    owner,          \* environments.attempt_id, None while the row does not exist
    envStatus,      \* environments.status, None while the row does not exist
    vm,             \* the VMs of an environment: None, "up", "gone" once its own
                    \* destruction got at them, or "lost" to that of another
    session,        \* the session of an environment: None, "fresh" while
                    \* first_opened_at is NULL, then "opened"
    queue,          \* how many equal jobs wait in river_job
    call,           \* what each handler is doing
    budget          \* what is left of Budget

attemptRows == <<status, score, ended>>
envRows == <<owner, envStatus, vm, session>>
rows == <<remaining, attemptRows, aged, envRows, queue>>
vars == <<rows, call, budget>>

-----------------------------------------------------------------------------
(* Handlers                                                                *)

\* The named points at which a handler can be between two statements.
Points ==
    {"idle", "start", "readStatus", "writeStatus", "returned", "done", "failed",
     "decrement", "create", "enqueue", "restore", "admit", "stamp",
     "build", "record", "configure", "session", "refund",
     "destroying", "destroy", "markFailed", "destroyed",
     "loadEnv", "checks", "save"}

Invocations ==
    [op : JobKinds \cup RequestKinds \cup {"idle", "reconcile"},
     at : Points,
     attempt : Attempts \cup {None},
     env : Envs \cup {None},
     to : AttemptStatuses \cup {None},  \* the argument of TransitionAttempt
     err : BOOLEAN,                      \* its result: err # nil
     result : Scores,                    \* totalScore of a grading job
     live : BOOLEAN]                     \* the context is not cancelled

Invocation(op, a, e, p) ==
    [op |-> op, at |-> p, attempt |-> a, env |-> e,
     to |-> None, err |-> FALSE, result |-> None, live |-> TRUE]

Idle == Invocation("idle", None, None, "idle")

IsIdle(h) == call[h].op = "idle"
At(h, op, p) == call[h].op = op /\ call[h].at = p
Returned(h, op, s) == At(h, op, "returned") /\ call[h].to = s
Att(h) == call[h].attempt

Become(h, invocation) == call' = [call EXCEPT ![h] = invocation]

Begin(h, invocation) == IsIdle(h) /\ Become(h, invocation)

Goto(h, p) == Become(h, [call[h] EXCEPT !.at = p, !.to = None, !.err = FALSE])

\* h goes on at p, having got hold of environment e.
GotoWith(h, p, e) == Become(h, [call[h] EXCEPT !.at = p, !.env = e])

Return(h) == Become(h, Idle)

\* A statement of h works, or reports an error and changes nothing.
Works(h) == call[h].live /\ UNCHANGED budget

Spend(kind) ==
    /\ budget[kind] > 0
    /\ budget' = [budget EXCEPT ![kind] = @ - 1]

Fails(h) ==
    \/ ~call[h].live /\ UNCHANGED budget
    \/ call[h].live /\ Spend("fault")

-----------------------------------------------------------------------------
(* The store and the queue                                                 *)

EnvsOf(a) == {e \in Envs : owner[e] = a}

\* purchaseStore.IncrementAttemptsRemaining.
IncrementAttemptsRemaining == remaining' = remaining + 1

\* Queue.Enqueue: an INSERT into river_job, with no unique key.
Enqueue(kind, a) ==
    queue' = [queue EXCEPT ![<<kind, a>>] = IF @ < MaxQueued THEN @ + 1 ELSE @]

\* The statuses that end an exam.
EndStatuses == {"submitted", "expired", "expired_running"}

\* TransitionAttempt is a call: CallTransition starts it, StatusRead and
\* StatusWrite are its two statements, and the caller goes on at "returned".
CallTransition(h, s) ==
    Become(h, [call[h] EXCEPT !.at = "readStatus", !.to = s, !.err = FALSE])

TransitionReturns(h, failed) ==
    Become(h, [call[h] EXCEPT !.at = "returned", !.err = failed])

\* Bug: the transition is not validated.
StatusReadUnvalidated(h) ==
    /\ call[h].at = "readStatus"
    /\ \/ Works(h) /\ Become(h, [call[h] EXCEPT !.at = "writeStatus"])
       \/ Fails(h) /\ TransitionReturns(h, TRUE)
    /\ UNCHANGED rows

StatusRead(h) ==
    /\ call[h].at = "readStatus"
    /\ \/ /\ Works(h)
          /\ ValidTransition(status[Att(h)], call[h].to)
          /\ Become(h, [call[h] EXCEPT !.at = "writeStatus"])
       \/ /\ Works(h)
          /\ ~ValidTransition(status[Att(h)], call[h].to)
          /\ TransitionReturns(h, TRUE)
       \/ Fails(h) /\ TransitionReturns(h, TRUE)
    /\ UNCHANGED rows

\* The UPDATE has no condition on the status that was read.
StatusWrite(h) ==
    /\ call[h].at = "writeStatus"
    /\ \/ /\ Works(h)
          /\ status' = [status EXCEPT ![Att(h)] = call[h].to]
          /\ ended' = [ended EXCEPT ![Att(h)] = @ \/ call[h].to \in EndStatuses]
          /\ TransitionReturns(h, FALSE)
          /\ UNCHANGED score
       \/ Fails(h) /\ TransitionReturns(h, TRUE) /\ UNCHANGED attemptRows
    /\ UNCHANGED <<remaining, aged, envRows, queue>>

-----------------------------------------------------------------------------
(* River                                                                   *)

\* A worker fetches an available job; GenericWorker.Work calls the handler
\* registered for its kind.
StartJob(w, kind, a) ==
    /\ queue[kind, a] > 0
    /\ Begin(w, Invocation(kind, a, None, "start"))
    /\ queue' = [queue EXCEPT ![<<kind, a>>] = @ - 1]
    /\ UNCHANGED <<remaining, attemptRows, aged, envRows, budget>>

\* The handler returned nil: River marks the job completed.
CompleteJob(w) ==
    /\ call[w].at = "done"
    /\ Return(w)
    /\ UNCHANGED <<rows, budget>>

\* The handler returned an error: River runs the job again later ...
RetryJob(w) ==
    /\ call[w].at = "failed"
    /\ Return(w)
    /\ Enqueue(call[w].op, Att(w))
    /\ UNCHANGED <<remaining, attemptRows, aged, envRows, budget>>

\* ... unless this was the last of its 25 attempts.
DiscardJob(w) ==
    /\ call[w].at = "failed"
    /\ Spend("discard")
    /\ Return(w)
    /\ UNCHANGED rows

\* A request loses its client, or a job outlives River's job timeout: every
\* later statement of the handler fails.  The reconciler runs under the
\* server's own context.
Cancel(h) ==
    /\ h \in Workers \cup Requests
    /\ ~IsIdle(h)
    /\ call[h].live
    /\ Spend("cancel")
    /\ Become(h, [call[h] EXCEPT !.live = FALSE])
    /\ UNCHANGED rows

\* The server process dies and is started again.  Requests are lost; a job
\* that was running is made available again by River.
Running(kind, a) == {w \in Workers : call[w].op = kind /\ Att(w) = a}

Crash ==
    /\ Spend("crash")
    /\ \E h \in Handlers : ~IsIdle(h)
    /\ call' = [h \in Handlers |-> Idle]
    /\ queue' = [j \in JobKinds \X Attempts |->
                    LET jobs == queue[j] + Cardinality(Running(j[1], j[2]))
                    IN  IF jobs < MaxQueued THEN jobs ELSE MaxQueued]
    /\ UNCHANGED <<remaining, attemptRows, aged, envRows>>

\* Half an hour passes after an attempt was created.
Age(a) ==
    /\ status[a] # None
    /\ a \notin aged
    /\ Spend("age")
    /\ aged' = aged \cup {a}
    /\ UNCHANGED <<remaining, attemptRows, envRows, queue, call>>

-----------------------------------------------------------------------------
PlatformInit ==
    /\ remaining = Allowed
    /\ status = [a \in Attempts |-> None]
    /\ score = [a \in Attempts |-> None]
    /\ ended = [a \in Attempts |-> FALSE]
    /\ aged = {}
    /\ owner = [e \in Envs |-> None]
    /\ envStatus = [e \in Envs |-> None]
    /\ vm = [e \in Envs |-> None]
    /\ session = [e \in Envs |-> None]
    /\ queue = [j \in JobKinds \X Attempts |-> 0]
    /\ call = [h \in Handlers |-> Idle]
    /\ budget = Budget

TypeOK ==
    /\ remaining \in Int
    /\ status \in [Attempts -> AttemptStatuses \cup {None}]
    /\ score \in [Attempts -> Scores]
    /\ ended \in [Attempts -> BOOLEAN]
    /\ aged \in SUBSET Attempts
    /\ owner \in [Envs -> Attempts \cup {None}]
    /\ envStatus \in [Envs -> EnvironmentStatuses \cup {None}]
    /\ vm \in [Envs -> {None, "up", "gone", "lost"}]
    /\ session \in [Envs -> {None, "fresh", "opened"}]
    /\ queue \in [JobKinds \X Attempts -> 0..MaxQueued]
    /\ call \in [Handlers -> Invocations]
    /\ budget \in [BudgetKinds -> Nat]
=============================================================================
