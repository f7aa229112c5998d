---------------------------- MODULE Storefront ----------------------------
(***************************************************************************)
(* How a scenario gets on offer and is sold: import, catalogue and billing *)
(* over the same rows, and what the whole promises.                        *)
(***************************************************************************)
EXTENDS Importer, TestAdmin, Billing

Init == ShopInit

Step(h) ==
    \/ h \in Importers /\ ImportStep(h)
    \/ h \in Requests /\ (CatalogueStep(h) \/ BillingStep(h))

Next ==
    \/ \E h \in Handlers : Step(h) \/ Die(h)
    \/ \E s \in Sessions : Pay(s) \/ Deliver(s)
    \/ Imports \/ CatalogueRequests \/ Purchases

Spec == Init /\ [][Next]_vars

\* A started handler runs on, and Stripe delivers an event again until it is
\* answered with 200.  Nobody has to import, administer or buy anything.
FairSpec ==
    /\ Spec
    /\ \A h \in Handlers : WF_vars(Step(h))
    /\ \A s \in Sessions : SF_vars(Deliver(s))

-----------------------------------------------------------------------------
(* Properties                                                              *)

\* A test that can be bought has its product and a scenario version with every
\* task and check, so grading never finds half a scenario: imports are no
\* transactions, but the test is their last row (importer.go:163-232).
OfferedIsComplete ==
    \A t \in Tests : Offered(t) =>
        Here(test[t].product) /\ stored[test[t].version] = Parts

\* One scenario at one commit is put on offer once, however many processes
\* import it at a time and wherever they are interrupted (importer.go:136-165):
\* the reads do not exclude each other, the unique key does.
ImportedOnce ==
    \A t, u \in Tests :
        test[t].version = test[u].version /\ test[t] # NoTest => t = u

\* What was bought stays: a purchase never loses its test, although deleteTest
\* asks for purchases in one statement and deletes in another while a webhook
\* stores one (handler.go:435-462, billing/service.go:90-109).
SoldStays == \A t \in Tests : sold[t] > 0 => Offered(t) /\ Here(test[t].product)

\* A product that was free or had a price is never left paid without a price,
\* whatever updates race: each checks the row it read (handler.go:374), and
\* writes all of its columns.
SellableStays ==
    [][\A p \in Products : Here(p) /\ Sellable(product[p]) => Sellable(product'[p])]_vars

\* Who paid gets the purchase, through failed statements and crashes in the
\* webhook, as long as the test was not deleted meanwhile (webhook.go:56-64).
PaidIsServed ==
    \A s \in Sessions :
        session[s].is = "paid" ~>
            bought[s] > 0 \/ (\A t \in Tests : session[s].test = t => ~Offered(t))

\* implementation-plan.md:213: "Duplicate webhook events do not create
\* duplicate purchases."
OnePurchasePerCheckout == \A s \in Sessions : bought[s] <= 1
=============================================================================
