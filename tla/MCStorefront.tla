---------------------------- MODULE MCStorefront ----------------------------
(***************************************************************************)
(* Values for the constants of Storefront in TLC's runs.                   *)
(***************************************************************************)
EXTENDS Storefront, TLC

Events(f) == [kind \in BudgetKinds |-> IF kind \in DOMAIN f THEN f[kind] ELSE 0]

Trading == Events("fault" :> 1 @@ "request" :> 3)
OneRedelivery == Events("request" :> 1 @@ "redeliver" :> 1)

OneTitle == [v \in Versions |-> CHOOSE title \in Titles : TRUE]

\* Give it a price; make it free, without a price; charge for it.
FreeAndPaid ==
    {[isFree |-> None, price |-> "set"], [isFree |-> "yes", price |-> "cleared"],
     [isFree |-> "no", price |-> None]}

=============================================================================
