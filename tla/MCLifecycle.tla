---------------------------- MODULE MCLifecycle ----------------------------
(***************************************************************************)
(* Values for the constants of Lifecycle in TLC's runs: the budget of each *)
(* kind of event, given by the events that happen at all, and the symmetry *)
(* of interchangeable slots, environments and attempts.                    *)
(***************************************************************************)
EXTENDS Lifecycle, FiniteSets, TLC

Events(f) == [kind \in BudgetKinds |-> IF kind \in DOMAIN f THEN f[kind] ELSE 0]

OneCrash == Events("crash" :> 1)
OneTimer == Events("timer" :> 1)
SlowCancel == Events("age" :> 1 @@ "cancel" :> 1)
FaultAndCrash == Events("fault" :> 1 @@ "crash" :> 1)
FaultCancelCrash == Events("fault" :> 1 @@ "cancel" :> 1 @@ "crash" :> 1)
FaultCancelDiscard == Events("fault" :> 1 @@ "cancel" :> 1 @@ "discard" :> 1)
AdminAndTimer == Events("admin" :> 1 @@ "timer" :> 1 @@ "fault" :> 1)

\* A bound: a behaviour is followed while no more than two kinds of events, any two,
\* have happened.
PairsOfEvents ==
    Cardinality({kind \in BudgetKinds : budget[kind] < Budget[kind]}) <= 2

SlotSymmetry ==
    Permutations(Workers) \cup Permutations(Requests) \cup Permutations(Envs)
AllSymmetry == SlotSymmetry \cup Permutations(Attempts)
=============================================================================
