---------------------------- MODULE AttemptLife ----------------------------
(***************************************************************************)
(* What a student is promised about each attempt, without handlers, jobs   *)
(* and rows: it is requested, gets a machine or fails, is used, ends, and  *)
(* then has one result.  Its machine is taken only when it failed or was   *)
(* graded; but it may be lost to the cleanup of another attempt.           *)
(***************************************************************************)
CONSTANTS Attempts, Results, None

VARIABLES
    phase,      \* how far an attempt has come
    machine,    \* the machine that belongs to it: "none", "up" or "lost"
    result      \* the result the student is shown, or None

vars == <<phase, machine, result>>

Phases == {"absent", "pending", "failed", "ready", "open", "over", "graded"}

Init ==
    /\ phase = [a \in Attempts |-> "absent"]
    /\ machine = [a \in Attempts |-> "none"]
    /\ result = [a \in Attempts |-> None]

Moves(a, from, to) ==
    /\ phase[a] = from
    /\ phase' = [phase EXCEPT ![a] = to]

Begin(a) ==
    /\ \/ Moves(a, "absent", "pending")
       \/ Moves(a, "pending", "failed")
       \/ Moves(a, "ready", "open")
       \/ Moves(a, "open", "over")
    /\ UNCHANGED <<machine, result>>

\* An attempt is handed out with its machine ...
HandOut(a) ==
    /\ machine[a] # "none"
    /\ Moves(a, "pending", "ready")
    /\ UNCHANGED <<machine, result>>

\* ... which comes and goes before that and after the grading.  Between, it does
\* not go; it is lost at most when something is destroyed for an attempt that
\* failed or was graded.
CleanedUp == \E b \in Attempts : phase[b] \in {"failed", "graded"}

Machines ==
    /\ machine' \in [Attempts -> {"none", "up", "lost"}]
    /\ \A a \in Attempts : machine'[a] # machine[a] =>
        \/ phase[a] \in {"pending", "failed", "graded"}
        \/ CleanedUp /\ machine[a] = "up" /\ machine'[a] = "lost"
    /\ UNCHANGED <<phase, result>>

Grade(a) ==
    /\ Moves(a, "over", "graded")
    /\ \E r \in Results : result' = [result EXCEPT ![a] = r]
    /\ UNCHANGED machine

Next ==
    \/ \E a \in Attempts : Begin(a) \/ HandOut(a) \/ Grade(a)
    \/ Machines

Spec == Init /\ [][Next]_vars
=============================================================================
