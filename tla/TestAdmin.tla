----------------------------- MODULE TestAdmin -----------------------------
(***************************************************************************)
(* internal/admin: creating, updating and deleting the tests on offer.     *)
(***************************************************************************)
EXTENDS Shop

\* createTest inserts a product and a test in one transaction.  Nothing sets the
\* scenario version of the test, its key refuses the row, and all is rolled back.
CreateTest ==
    /\ Spend("request")
    /\ UNCHANGED <<stored, product, test, saleRows, call>>

\* updateTest reads the test with its product, then the product once more.
UpdateStart(h, t, change) ==
    /\ IsIdle(h)
    /\ Offered(t)
    /\ Spend("request")
    /\ Become(h, [Idle EXCEPT !.op = "update", !.at = "readProduct", !.test = t,
                              !.product = test[t].product, !.change = change])
    /\ UNCHANGED <<stored, product, test, saleRows>>

UpdateRead(h) ==
    /\ At(h, "update", "readProduct")
    /\ LET p == call[h].product
       IN  \/ /\ Works
              /\ Here(p)
              /\ Become(h, [call[h] EXCEPT !.at = "writeProduct", !.seen = product[p]])
           \/ NoEffect(~Here(p)) /\ Return(h)
    /\ UNCHANGED <<stored, product, test, saleRows>>

\* The row as it was read, with the fields that were provided.
Updated(c) ==
    [c.seen EXCEPT
        !.isFree = IF c.change.isFree = None THEN @ ELSE c.change.isFree = "yes",
        !.priced = IF c.change.price = None THEN @ ELSE c.change.price = "set"]

Sellable(row) == row.isFree \/ row.priced

\* Bug: only the columns that were provided are written.
UpdateProductColumns(h) ==
    /\ At(h, "update", "writeProduct")
    /\ LET c == call[h]
           p == c.product
       IN  \/ /\ Works
              /\ Sellable(Updated(c))
              /\ product' = [product EXCEPT ![p] =
                    IF ~Here(p) THEN @ ELSE Updated([c EXCEPT !.seen = product[p]])]
           \/ NoEffect(~Sellable(Updated(c))) /\ UNCHANGED product
    /\ Return(h)
    /\ UNCHANGED <<stored, test, saleRows>>

\* A paid product without a price is rejected; else all columns are written.
\* An UPDATE of a row that is gone is no error.  The titles and the numbers of
\* the test, which are checked and written after the product, are left out.
UpdateProduct(h) ==
    /\ At(h, "update", "writeProduct")
    /\ LET c == call[h]
           p == c.product
       IN  \/ /\ Works
              /\ Sellable(Updated(c))
              /\ product' = [product EXCEPT ![p] = IF Here(p) THEN Updated(c) ELSE @]
           \/ NoEffect(~Sellable(Updated(c))) /\ UNCHANGED product
    /\ Return(h)
    /\ UNCHANGED <<stored, test, saleRows>>

-----------------------------------------------------------------------------
(* deleteTest                                                              *)

DeleteStart(h, t) ==
    /\ IsIdle(h)
    /\ Offered(t)
    /\ Spend("request")
    /\ Become(h, [Idle EXCEPT !.op = "delete", !.at = "purchases", !.test = t,
                              !.product = test[t].product])
    /\ UNCHANGED <<stored, product, test, saleRows>>

\* HasPurchases.
DeleteCheck(h) ==
    /\ At(h, "delete", "purchases")
    /\ \/ Works /\ sold[call[h].test] = 0 /\ Goto(h, "delete")
       \/ NoEffect(sold[call[h].test] > 0) /\ Return(h)
    /\ UNCHANGED <<stored, product, test, saleRows>>

Deleted(t, p) ==
    /\ test' = [test EXCEPT ![t].row = "gone"]
    /\ product' = [product EXCEPT ![p].row = "gone"]

\* Bug: what was read is trusted, and no key holds the rows.
DeleteCommitUnchecked(h) ==
    /\ At(h, "delete", "delete")
    /\ LET c == call[h]
       IN  \/ Works /\ Deleted(c.test, c.product)
           \/ Fails /\ UNCHANGED <<test, product>>
    /\ Return(h)
    /\ UNCHANGED <<stored, saleRows>>

\* The transaction, whose keys see what was sold or added since.
DeleteCommit(h) ==
    /\ At(h, "delete", "delete")
    /\ LET c == call[h]
       IN  \/ Works /\ DeleteKeys(c.test, c.product) /\ Deleted(c.test, c.product)
           \/ /\ NoEffect(~DeleteKeys(c.test, c.product))
              /\ UNCHANGED <<test, product>>
    /\ Return(h)
    /\ UNCHANGED <<stored, saleRows>>

-----------------------------------------------------------------------------
CatalogueRequests ==
    \/ CreateTest
    \/ \E h \in Requests, t \in Tests :
        DeleteStart(h, t) \/ \E change \in Changes : UpdateStart(h, t, change)

CatalogueStep(h) ==
    \/ UpdateRead(h) \/ UpdateProduct(h)
    \/ DeleteCheck(h) \/ DeleteCommit(h)
=============================================================================
