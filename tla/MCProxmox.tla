----------------------------- MODULE MCProxmox -----------------------------
(***************************************************************************)
(* Values for the constants of Proxmox in TLC's runs.                      *)
(***************************************************************************)
EXTENDS Proxmox, FiniteSets, TLC

Events(f) == [kind \in BudgetKinds |-> IF kind \in DOMAIN f THEN f[kind] ELSE 0]

OneOfEach == [kind \in BudgetKinds |-> 1]
OneMore == Events("redeliver" :> 1)

\* A bound: a behaviour is followed while no more than two kinds of events, any two,
\* have happened.
PairsOfEvents ==
    Cardinality({kind \in BudgetKinds : budget[kind] < Budget[kind]}) <= 2

NodeSymmetry ==
    Permutations(VMIDs) \cup Permutations(Jobs) \cup Permutations(Envs \ Unprofiled)
=============================================================================
