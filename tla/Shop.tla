-------------------------------- MODULE Shop --------------------------------
(***************************************************************************)
(* What the importer, the test catalogue of the administrators and billing *)
(* share: the rows of scenario_versions, tasks and checks, products, tests *)
(* and purchased_tests, their keys, and the handlers that work on them one *)
(* statement at a time.                                                    *)
(*                                                                         *)
(* A statement works, is refused by a key, or reports a failure without    *)
(* effect.  A handler can also die between two statements, with its        *)
(* process or its request.                                                 *)
(***************************************************************************)
EXTENDS Integers, FiniteSets

CONSTANTS
    Versions,       \* scenarios at a commit: (external_id, git_commit)
    Titles,         \* the titles of scenarios
    titleOf,        \* a scenario's title
    Parts,          \* how many tasks and checks a scenario has
    Products,       \* the product ids uuid.New() can return
    Tests,          \* the test ids uuid.New() can return
    Sessions,       \* the Stripe checkout sessions
    Importers,      \* processes that import: the server, cmd/import-scenarios
    Requests,       \* HTTP requests in progress at one time
    Changes,        \* what administrators ask updateTest to change
    Budget          \* bound: how often each kind of event happens

None == "none"
Handlers == Importers \cup Requests
BudgetKinds == {"fault", "request", "redeliver"}

\* What updateTest is asked to do with a product; None: not provided.
ChangeRequests == [isFree : {"yes", "no", None}, price : {"set", "cleared", None}]

ASSUME ShopAssumption ==
    /\ titleOf \in [Versions -> Titles]
    /\ Parts \in Nat \ {0}
    /\ Importers \cap Requests = {}
    /\ Changes \subseteq ChangeRequests
    /\ Budget \in [BudgetKinds -> Nat]
    /\ None \notin Versions \cup Titles \cup Products \cup Tests \cup Sessions

VARIABLES
    stored,     \* a version: NoRow, or how many of its parts have rows
    product,    \* the products' rows
    test,       \* the tests' rows
    sold,       \* how many purchased_tests rows a test has
    bought,     \* how many of them were made for a checkout session
    session,    \* a checkout session at Stripe
    call,       \* what each handler is doing
    budget      \* what is left of Budget

saleRows == <<sold, bought, session>>
vars == <<stored, product, test, saleRows, call, budget>>

\* row: None until the id is used, "here", and "gone" after the DELETE.
ProductRows == [row : {None, "here", "gone"}, title : Titles \cup {None},
                isFree : BOOLEAN, priced : BOOLEAN]
TestRows == [row : {None, "here", "gone"}, product : Products \cup {None},
             version : Versions \cup {None}]
NoProduct == [row |-> None, title |-> None, isFree |-> FALSE, priced |-> FALSE]
NoTest == [row |-> None, product |-> None, version |-> None]

NoSession == [is |-> None, test |-> None]

NoRow == -1
Here(p) == product[p].row = "here"
Offered(t) == test[t].row = "here"

-----------------------------------------------------------------------------
(* Handlers                                                                *)

Points == {"idle", "version", "parts", "lookup", "product", "test",
           "readProduct", "writeProduct", "purchases", "delete",
           "session", "insert"}

\* seen: the product row that was read.  product, test, version, session: the
\* ids at hand.  change: the request of updateTest.
Calls ==
    [op : {"idle", "import", "update", "delete", "checkout", "webhook", "free"},
     at : Points,
     version : Versions \cup {None}, product : Products \cup {None},
     test : Tests \cup {None}, session : Sessions \cup {None},
     seen : ProductRows, change : ChangeRequests]

NoChange == [isFree |-> None, price |-> None]

Idle == [op |-> "idle", at |-> "idle", version |-> None, product |-> None,
         test |-> None, session |-> None, seen |-> NoProduct,
         change |-> NoChange]

IsIdle(h) == call[h].op = "idle"
At(h, op, p) == call[h].op = op /\ call[h].at = p
Become(h, c) == call' = [call EXCEPT ![h] = c]
Goto(h, p) == Become(h, [call[h] EXCEPT !.at = p])
Return(h) == Become(h, Idle)

Spend(kind) ==
    /\ budget[kind] > 0
    /\ budget' = [budget EXCEPT ![kind] = @ - 1]

Works == UNCHANGED budget
Fails == Spend("fault")

\* The statement has no effect, for the reason given or because it fails.
NoEffect(reason) ==
    \/ Works /\ reason
    \/ Fails

\* The process or the request of h ends between two statements.
Die(h) ==
    /\ ~IsIdle(h)
    /\ Fails
    /\ Return(h)
    /\ UNCHANGED <<stored, product, test, saleRows>>

-----------------------------------------------------------------------------
(* Statements and keys                                                     *)

\* tests.product_id and tests.scenario_version_id are foreign keys.
TestKeys(p, v) == p \in Products /\ Here(p) /\ v \in Versions /\ stored[v] # NoRow

\* uuid.New() and Stripe return an id without a row.  Which one is no matter.
IsNew(id, rows, none) ==
    /\ rows[id] = none
    /\ id = CHOOSE x \in DOMAIN rows : rows[x] = none

\* INSERT INTO tests under a new id.
InsertTest(t, p, v) ==
    /\ IsNew(t, test, NoTest)
    /\ TestKeys(p, v)
    /\ test' = [test EXCEPT ![t] = [row |-> "here", product |-> p,
                                    version |-> v]]

\* DELETE FROM tests and DELETE FROM products, in one transaction: refused when
\* a purchase refers to the test or another test to the product.
DeleteKeys(t, p) ==
    /\ sold[t] = 0
    /\ \A u \in Tests \ {t} : Offered(u) => test[u].product # p

\* INSERT INTO purchased_tests for a test that exists.
Sell(t) ==
    /\ Offered(t)
    /\ sold' = [sold EXCEPT ![t] = @ + 1]

ShopInit ==
    /\ stored = [v \in Versions |-> NoRow]
    /\ product = [p \in Products |-> NoProduct]
    /\ test = [t \in Tests |-> NoTest]
    /\ sold = [t \in Tests |-> 0]
    /\ bought = [s \in Sessions |-> 0]
    /\ session = [s \in Sessions |-> NoSession]
    /\ call = [h \in Handlers |-> Idle]
    /\ budget = Budget

TypeOK ==
    /\ stored \in [Versions -> NoRow..Parts]
    /\ product \in [Products -> ProductRows]
    /\ test \in [Tests -> TestRows]
    /\ sold \in [Tests -> Nat]
    /\ bought \in [Sessions -> Nat]
    /\ session \in [Sessions -> [is : {None, "open", "paid", "served"},
                                 test : Tests \cup {None}]]
    /\ call \in [Handlers -> Calls]
    /\ budget \in [BudgetKinds -> Nat]
=============================================================================
