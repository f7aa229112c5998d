-------------------------- MODULE StorefrontProofs --------------------------
(***************************************************************************)
(* Theorems about Storefront for every value of its constants: any number  *)
(* of scenarios, importers, requests and checkouts, and any budget of      *)
(* failures, redeliveries and administrator's requests.                    *)
(*                                                                         *)
(* No statement looks at more than one or two rows, so what is true of the *)
(* rows is known only to the handler that made it so, in statements before *)
(* its present one.  The invariant says what each handler knows (Knows),   *)
(* that importers of one version exclude each other once the version's row *)
(* is written (Alone), and how the rows fit together (RowsFit).            *)
(***************************************************************************)
EXTENDS Storefront, TLAPS

\* c is a call of an importer that wrote the row of its version.
Owns(c) == c.op = "import" /\ c.at # "version"

\* What a handler with call c knows from the statements it has executed.
Knows(c) ==
    /\ c.op = "import" => c.version \in Versions
    /\ c.op = "import" /\ c.at = "parts" => stored[c.version] \in 0..(Parts - 1)
    /\ Owns(c) /\ c.at # "parts" => stored[c.version] = Parts
    /\ Owns(c) => \A t \in Tests : test[t].version # c.version
    /\ c.op = "delete" =>
        c.test \in Tests /\ test[c.test] # NoTest /\ c.product = test[c.test].product
    /\ c.op = "update" => c.product \in Products
    /\ c.op = "update" /\ c.at = "writeProduct" => c.seen.row = "here"

Alone ==
    \A g, h \in Handlers :
        Owns(call[g]) /\ Owns(call[h]) /\ call[g].version = call[h].version => g = h

TestFits(t) ==
    test[t] # NoTest =>
        /\ test[t].version \in Versions
        /\ stored[test[t].version] = Parts
        /\ test[t].product \in Products

RowsFit ==
    /\ \A t \in Tests : TestFits(t)
    /\ \A t \in Tests : Offered(t) => Here(test[t].product)
    /\ \A t \in Tests : sold[t] > 0 => Offered(t)
    /\ ImportedOnce

ShopInv ==
    /\ TypeOK
    /\ \A h \in Handlers : Knows(call[h])
    /\ Alone
    /\ RowsFit

-----------------------------------------------------------------------------
(* Lemmas about the operators the actions are built from                   *)

LEMMA IdleType == Idle \in Calls
BY DEF Idle, Calls, Points, NoProduct, ProductRows, NoChange, ChangeRequests

LEMMA BudgetTypes ==
    ASSUME budget \in [BudgetKinds -> Nat]
    PROVE  /\ Works => budget' \in [BudgetKinds -> Nat]
           /\ \A kind \in BudgetKinds : Spend(kind) => budget' \in [BudgetKinds -> Nat]
           /\ Fails => budget' \in [BudgetKinds -> Nat]
           /\ \A reason : NoEffect(reason) => budget' \in [BudgetKinds -> Nat]
<1>1. \A kind \in BudgetKinds : Spend(kind) => budget' \in [BudgetKinds -> Nat]
  BY DEF Spend
<1>2. "fault" \in BudgetKinds
  BY DEF BudgetKinds
<1>3. QED
  BY <1>1, <1>2 DEF Works, Fails, NoEffect

\* What does not disturb the rows: products are added and changed, and tests that
\* are on offer are sold.
RowsKept ==
    /\ UNCHANGED <<stored, test>>
    /\ product' \in [Products -> ProductRows]
    /\ \A p \in Products : Here(p) => product'[p].row = "here"
    /\ sold' \in [Tests -> Nat]
    /\ \A t \in Tests : sold'[t] > 0 => sold[t] > 0 \/ Offered(t)
    /\ bought' \in [Sessions -> Nat]
    /\ session' \in [Sessions -> [is : {None, "open", "paid", "served"},
                                  test : Tests \cup {None}]]
    /\ budget' \in [BudgetKinds -> Nat]

\* A handler goes on with call c, which is sound and claims no version anew.
Moves(h, c) ==
    /\ c \in Calls
    /\ call' = [call EXCEPT ![h] = c]
    /\ Knows(c)
    /\ Owns(c) => Owns(call[h]) /\ c.version = call[h].version

LEMMA RowsFitKept ==
    ASSUME ShopInv, RowsKept
    PROVE  RowsFit'
<1>1. \A t \in Tests : TestFits(t)'
  BY DEF ShopInv, RowsFit, TestFits, RowsKept
<1>2. \A t \in Tests : Offered(t)' => Here(test[t].product)'
  BY DEF ShopInv, RowsFit, TestFits, RowsKept, Offered, Here, NoTest, None
<1>3. \A t \in Tests : sold'[t] > 0 => Offered(t)'
  BY DEF ShopInv, RowsFit, RowsKept, Offered
<1>4. ImportedOnce'
  BY DEF ShopInv, RowsFit, RowsKept, ImportedOnce
<1>5. QED
  BY <1>1, <1>2, <1>3, <1>4 DEF RowsFit

LEMMA MoveKeeps ==
    ASSUME ShopInv, RowsKept, NEW h \in Handlers, NEW c, Moves(h, c)
    PROVE  ShopInv'
<1>1. TypeOK'
  BY DEF ShopInv, TypeOK, Moves, RowsKept
<1>2. \A g \in Handlers : call'[g] = IF g = h THEN c ELSE call[g]
  BY DEF ShopInv, TypeOK, Moves
<1>3. \A g \in Handlers : Knows(call[g])'
  <2> TAKE g \in Handlers
  <2>1. Knows(call'[g])
    BY <1>2 DEF ShopInv, Moves
  <2>2. QED
    BY <2>1 DEF Knows, Owns, RowsKept
<1>4. Alone'
  BY <1>2 DEF ShopInv, Moves, Alone, Owns
<1>5. QED
  BY <1>1, <1>3, <1>4, RowsFitKept DEF ShopInv

LEMMA QuietKeeps ==
    ASSUME ShopInv, RowsKept, UNCHANGED call
    PROVE  ShopInv'
<1>1. TypeOK'
  BY DEF ShopInv, TypeOK, RowsKept
<1>2. \A h \in Handlers : Knows(call[h])'
  BY DEF ShopInv, Knows, Owns, RowsKept
<1>3. Alone'
  BY DEF ShopInv, Alone, Owns
<1>4. QED
  BY <1>1, <1>2, <1>3, RowsFitKept DEF ShopInv

\* Calls without knowledge of the rows.
LEMMA PlainMoves ==
    ASSUME NEW h \in Handlers, NEW c \in Calls, call' = [call EXCEPT ![h] = c],
           c.op \notin {"import", "delete"},
           c.op = "update" => c.at # "writeProduct" /\ c.product \in Products
    PROVE  Moves(h, c)
BY DEF Knows, Owns, Moves

LEMMA ReturnMoves ==
    ASSUME NEW h \in Handlers, Return(h)
    PROVE  Moves(h, Idle)
<1>1. Idle.op = "idle"
  BY DEF Idle
<1>2. QED
  BY <1>1, IdleType, PlainMoves DEF Return, Become

\* Rows that a statement leaves as they are.
LEMMA UnchangedKept ==
    ASSUME TypeOK, budget' \in [BudgetKinds -> Nat],
           UNCHANGED <<stored, product, test, saleRows>>
    PROVE  RowsKept
BY DEF TypeOK, RowsKept, saleRows, Here

LEMMA ReturnKeeps ==
    ASSUME ShopInv, NEW h \in Handlers, Return(h),
           budget' \in [BudgetKinds -> Nat],
           UNCHANGED <<stored, product, test, saleRows>>
    PROVE  ShopInv'
<1>1. TypeOK
  BY DEF ShopInv
<1>2. QED
  BY <1>1, UnchangedKept, ReturnMoves, MoveKeeps

LEMMA DieKeeps ==
    ASSUME ShopInv, NEW h \in Handlers, Die(h)
    PROVE  ShopInv'
<1>1. Fails /\ budget \in [BudgetKinds -> Nat]
  BY DEF Die, ShopInv, TypeOK
<1>2. QED
  BY <1>1, BudgetTypes, ReturnKeeps DEF Die

-----------------------------------------------------------------------------
(* The importer                                                            *)

\* Nobody but h imports version v beyond its row, and no test is of it.
Unclaimed(h, v) ==
    /\ \A g \in Handlers \ {h} : Owns(call[g]) => call[g].version # v
    /\ \A t \in Tests : test[t].version # v

\* The rows of the importer's version grow to n.
Stores(h, c, n) ==
    /\ c \in Calls /\ c.op = "import" /\ c.version \in Versions
    /\ n \in 0..Parts
    /\ \/ c.at = "parts" /\ n < Parts
       \/ c.at = "lookup" /\ n = Parts
    /\ call' = [call EXCEPT ![h] = c]
    /\ stored' = [stored EXCEPT ![c.version] = n]
    /\ budget' \in [BudgetKinds -> Nat]
    /\ UNCHANGED <<product, test, saleRows>>

LEMMA StoreKeeps ==
    ASSUME ShopInv, NEW h \in Handlers, NEW c, NEW n,
           Unclaimed(h, c.version), Stores(h, c, n)
    PROVE  ShopInv'
<1> USE DEF Unclaimed, Stores
<1>1. TypeOK'
  <2>1. stored' \in [Versions -> NoRow..Parts]
    BY ShopAssumption DEF ShopInv, TypeOK, NoRow
  <2>2. QED
    BY <2>1 DEF ShopInv, TypeOK, saleRows
<1>2. \A g \in Handlers : call'[g] = IF g = h THEN c ELSE call[g]
  BY DEF ShopInv, TypeOK
<1>3. \A v \in Versions : stored'[v] = IF v = c.version THEN n ELSE stored[v]
  BY DEF ShopInv, TypeOK
<1>4. Knows(c)'
  BY <1>3, ShopAssumption DEF Knows, Owns
<1>5. ASSUME NEW d, Knows(d), Owns(d) => d.version # c.version
      PROVE  Knows(d)'
  BY <1>3, <1>5 DEF Knows, Owns
<1>6. Alone'
  BY <1>2 DEF ShopInv, Alone, Owns
<1>7. RowsFit'
  BY <1>3 DEF ShopInv, RowsFit, TestFits, Offered, Here, ImportedOnce, saleRows
<1>8. \A g \in Handlers : Knows(call[g])'
  BY <1>2, <1>4, <1>5 DEF ShopInv, Knows, Owns
<1>9. QED
  BY <1>1, <1>6, <1>7, <1>8 DEF ShopInv

LEMMA ImportStartKeeps ==
    ASSUME ShopInv, NEW i \in Handlers, NEW v \in Versions, ImportStart(i, v)
    PROVE  ShopInv'
<1> DEFINE c == [Idle EXCEPT !.op = "import", !.at = "version", !.version = v]
<1>1. c \in Calls /\ c.op = "import" /\ c.at = "version" /\ c.version = v
  BY IdleType DEF Calls, Points
<1>2. call' = [call EXCEPT ![i] = c]
  BY DEF ImportStart, Become
<1> HIDE DEF c
<1>3. Moves(i, c)
  BY <1>1, <1>2 DEF Moves, Knows, Owns
<1>4. RowsKept
  BY UnchangedKept DEF ShopInv, TypeOK, ImportStart
<1>5. QED
  BY <1>3, <1>4, MoveKeeps

\* The unique key of scenario_versions decides who imports a version.
LEMMA ImportVersionKeeps ==
    ASSUME ShopInv, NEW i \in Handlers, ImportVersion(i)
    PROVE  ShopInv'
<1> DEFINE d == call[i]
           c == [d EXCEPT !.at = "parts"]
<1>1. /\ d \in Calls /\ d.op = "import" /\ d.version \in Versions
      /\ budget \in [BudgetKinds -> Nat]
      /\ UNCHANGED <<product, test, saleRows>>
  BY DEF ShopInv, TypeOK, ImportVersion, At, Knows
<1>2. CASE /\ Works /\ stored[d.version] = NoRow
           /\ stored' = [stored EXCEPT ![d.version] = 0]
           /\ Goto(i, "parts")
  <2>1. \A g \in Handlers \ {i} : Owns(call[g]) => call[g].version # d.version
    <3> TAKE g \in Handlers \ {i}
    <3>1. CASE call[g].at = "parts"
      BY <3>1, <1>2 DEF ShopInv, Knows, Owns, NoRow
    <3>2. CASE call[g].at # "parts"
      BY <3>2, <1>2, ShopAssumption DEF ShopInv, Knows, Owns, NoRow
    <3>3. QED
      BY <3>1, <3>2
  <2>2. \A t \in Tests : test[t].version # d.version
    BY <1>1, <1>2, ShopAssumption
       DEF ShopInv, RowsFit, TestFits, NoRow, NoTest
  <2>3. call' = [call EXCEPT ![i] = c] /\ budget' \in [BudgetKinds -> Nat]
    BY <1>1, <1>2, BudgetTypes DEF Goto, Become
  <2>4. /\ c \in Calls /\ c.op = "import" /\ c.version = d.version
        /\ c.at = "parts"
    BY <1>1 DEF Calls, Points
  <2>5. 0 \in 0..Parts /\ 0 < Parts
    BY ShopAssumption
  <2>6. stored' = [stored EXCEPT ![c.version] = 0]
    BY <1>2, <2>4
  <2>7. Unclaimed(i, c.version) /\ Stores(i, c, 0)
    BY <1>1, <2>1, <2>2, <2>3, <2>4, <2>5, <2>6 DEF Unclaimed, Stores
  <2> HIDE DEF c
  <2>8. QED
    BY <2>7, StoreKeeps
<1>3. CASE NoEffect(stored[d.version] # NoRow) /\ Return(i) /\ UNCHANGED stored
  BY <1>1, <1>3, BudgetTypes, ReturnKeeps
<1>4. QED
  BY <1>2, <1>3 DEF ImportVersion

LEMMA ImportPartKeeps ==
    ASSUME ShopInv, NEW i \in Handlers, ImportPart(i)
    PROVE  ShopInv'
<1> DEFINE d == call[i]
           n == stored[d.version] + 1
           p == IF n = Parts THEN "lookup" ELSE "parts"
           c == [d EXCEPT !.at = p]
<1>1. /\ d \in Calls /\ d.op = "import" /\ d.at = "parts"
      /\ Owns(d) /\ Knows(d) /\ d.version \in Versions
      /\ budget \in [BudgetKinds -> Nat]
      /\ UNCHANGED <<product, test, saleRows>>
  BY DEF ShopInv, TypeOK, ImportPart, At, Knows, Owns
<1>2. CASE /\ Works
           /\ stored' = [stored EXCEPT ![d.version] = @ + 1]
           /\ Goto(i, IF stored'[d.version] = Parts THEN "lookup" ELSE "parts")
  <2>1. \A g \in Handlers \ {i} : Owns(call[g]) => call[g].version # d.version
    BY <1>1 DEF ShopInv, Alone
  <2>2. \A t \in Tests : test[t].version # d.version
    BY <1>1 DEF Knows
  <2>3. n \in 0..Parts
    BY <1>1, ShopAssumption DEF Knows
  <2>4. stored' = [stored EXCEPT ![d.version] = n] /\ stored'[d.version] = n
    BY <1>1, <1>2 DEF ShopInv, TypeOK
  <2>5. call' = [call EXCEPT ![i] = c] /\ budget' \in [BudgetKinds -> Nat]
    BY <1>1, <1>2, <2>4, BudgetTypes DEF Goto, Become
  <2>6. (p = "parts" /\ n < Parts) \/ (p = "lookup" /\ n = Parts)
    BY <2>3, ShopAssumption
  <2> HIDE DEF n, p
  <2>7. c \in Calls /\ c.op = "import" /\ c.version = d.version /\ c.at = p
    BY <1>1, <2>6 DEF Calls, Points
  <2>8. (c.at = "parts" /\ n < Parts) \/ (c.at = "lookup" /\ n = Parts)
    BY <2>6, <2>7
  <2>9. stored' = [stored EXCEPT ![c.version] = n]
    BY <2>4, <2>7
  <2> HIDE DEF c, d
  <2>10. Unclaimed(i, c.version) /\ Stores(i, c, n)
    BY <1>1, <2>1, <2>2, <2>3, <2>5, <2>7, <2>8, <2>9 DEF Unclaimed, Stores
  <2>11. QED
    BY <2>10, StoreKeeps
<1>3. CASE Fails /\ Return(i) /\ UNCHANGED stored
  BY <1>1, <1>3, BudgetTypes, ReturnKeeps
<1>4. QED
  BY <1>2, <1>3 DEF ImportPart

\* The importer keeps what it knows while it looks for a product or adds one.
LEMMA OwnerMoves ==
    ASSUME ShopInv, NEW i \in Handlers, Owns(call[i]), call[i].at # "parts",
           NEW c \in Calls, call' = [call EXCEPT ![i] = c], c.op = "import",
           c.at \in {"product", "test"}, c.version = call[i].version
    PROVE  Moves(i, c)
<1>1. Knows(call[i])
  BY DEF ShopInv
<1>2. QED
  BY <1>1 DEF Moves, Knows, Owns

LEMMA ImportLookupKeeps ==
    ASSUME ShopInv, NEW i \in Handlers, ImportLookup(i)
    PROVE  ShopInv'
<1> DEFINE d == call[i]
<1>1. /\ d \in Calls /\ d.op = "import" /\ d.at = "lookup" /\ Owns(d)
      /\ budget \in [BudgetKinds -> Nat]
      /\ UNCHANGED <<stored, product, test, saleRows>>
  BY DEF ShopInv, TypeOK, ImportLookup, At, Owns
<1>2. budget' \in [BudgetKinds -> Nat]
  BY <1>1, BudgetTypes DEF ImportLookup
<1>3. RowsKept
  BY <1>1, <1>2, UnchangedKept DEF ShopInv
<1>4. ASSUME NEW p \in Products, Become(i, [d EXCEPT !.at = "test", !.product = p])
      PROVE  ShopInv'
  <2> DEFINE c == [d EXCEPT !.at = "test", !.product = p]
  <2>1. /\ c \in Calls /\ c.op = "import" /\ c.at = "test" /\ c.version = d.version
        /\ call' = [call EXCEPT ![i] = c]
    BY <1>1, <1>4 DEF Calls, Points, Become
  <2> HIDE DEF c
  <2>2. QED
    BY <1>1, <1>3, <2>1, OwnerMoves, MoveKeeps
<1>5. CASE Goto(i, "product")
  <2> DEFINE c == [d EXCEPT !.at = "product"]
  <2>1. /\ c \in Calls /\ c.op = "import" /\ c.at = "product" /\ c.version = d.version
        /\ call' = [call EXCEPT ![i] = c]
    BY <1>1, <1>5 DEF Calls, Points, Goto, Become
  <2> HIDE DEF c
  <2>2. QED
    BY <1>1, <1>3, <2>1, OwnerMoves, MoveKeeps
<1>6. QED
  BY <1>4, <1>5 DEF ImportLookup

LEMMA ImportProductKeeps ==
    ASSUME ShopInv, NEW i \in Handlers, ImportProduct(i)
    PROVE  ShopInv'
<1> DEFINE d == call[i]
<1>1. /\ d \in Calls /\ d.op = "import" /\ d.at = "product" /\ Owns(d)
      /\ d.version \in Versions /\ budget \in [BudgetKinds -> Nat]
      /\ UNCHANGED <<stored, test, saleRows>>
  BY DEF ShopInv, TypeOK, ImportProduct, At, Owns, Knows
<1>2. budget' \in [BudgetKinds -> Nat]
  BY <1>1, BudgetTypes DEF ImportProduct
<1>3. ASSUME NEW p \in Products, product[p] = NoProduct,
             product' = [product EXCEPT ![p] = [NoProduct EXCEPT
                            !.row = "here", !.title = titleOf[d.version]]],
             Become(i, [d EXCEPT !.at = "test", !.product = p])
      PROVE  ShopInv'
  <2> DEFINE c == [d EXCEPT !.at = "test", !.product = p]
             r == [NoProduct EXCEPT !.row = "here", !.title = titleOf[d.version]]
  <2>1. /\ c \in Calls /\ c.op = "import" /\ c.at = "test" /\ c.version = d.version
        /\ call' = [call EXCEPT ![i] = c]
    BY <1>1, <1>3 DEF Calls, Points, Become
  <2>2. r \in ProductRows /\ r.row = "here"
    BY <1>1, ShopAssumption DEF NoProduct, ProductRows
  <2>3. product' = [product EXCEPT ![p] = r]
    BY <1>3
  <2> HIDE DEF c, r
  <2>4. RowsKept
    BY <1>1, <1>2, <2>2, <2>3 DEF RowsKept, ShopInv, TypeOK, saleRows, Here
  <2>5. QED
    BY <1>1, <2>1, <2>4, OwnerMoves, MoveKeeps
<1>4. CASE Return(i) /\ UNCHANGED product
  BY <1>1, <1>2, <1>4, ReturnKeeps
<1>5. QED
  BY <1>3, <1>4 DEF ImportProduct, IsNew

\* The test is the last row of an import, so it is of a complete version, and
\* no other test is of that version.
LEMMA ImportTestKeeps ==
    ASSUME ShopInv, NEW i \in Handlers, ImportTest(i)
    PROVE  ShopInv'
<1> DEFINE d == call[i]
<1>1. /\ d \in Calls /\ Owns(d) /\ d.at # "parts" /\ Knows(d)
      /\ d.version \in Versions /\ stored[d.version] = Parts
      /\ budget \in [BudgetKinds -> Nat]
      /\ UNCHANGED <<stored, product, saleRows>> /\ Return(i)
  BY DEF ShopInv, TypeOK, ImportTest, At, Owns, Knows
<1>2. budget' \in [BudgetKinds -> Nat]
  BY <1>1, BudgetTypes DEF ImportTest
<1>3. ASSUME NEW t \in Tests, InsertTest(t, d.product, d.version)
      PROVE  ShopInv'
  <2> DEFINE r == [row |-> "here", product |-> d.product, version |-> d.version]
  <2>1. /\ test[t] = NoTest /\ test' = [test EXCEPT ![t] = r]
        /\ d.product \in Products /\ Here(d.product)
    BY <1>3 DEF InsertTest, IsNew, TestKeys
  <2>2. /\ r \in TestRows /\ r.row = "here" /\ r.product = d.product
        /\ r.version = d.version
    BY <1>1, <2>1 DEF TestRows
  <2> HIDE DEF r
  <2>3. \A u \in Tests : test'[u] = IF u = t THEN r ELSE test[u]
    BY <2>1 DEF ShopInv, TypeOK
  <2>4. \A g \in Handlers : call'[g] = IF g = i THEN Idle ELSE call[g]
    BY <1>1 DEF ShopInv, TypeOK, Return, Become
  <2>5. TypeOK'
    BY <1>1, <1>2, <2>1, <2>2, IdleType
       DEF ShopInv, TypeOK, Return, Become, saleRows
  <2>6. \A g \in Handlers : Knows(call[g])'
    <3>1. Idle.op = "idle"
      BY DEF Idle
    <3>2. ASSUME NEW g \in Handlers, g # i
          PROVE  Knows(call[g])'
      <4>1. Knows(call[g]) /\ call'[g] = call[g]
        BY <2>4, <3>2 DEF ShopInv
      <4>2. Owns(call[g]) => call[g].version # d.version
        BY <1>1, <3>2 DEF ShopInv, Alone
      <4>3. QED
        BY <1>1, <2>1, <2>2, <2>3, <4>1, <4>2 DEF Knows, Owns
    <3>3. Knows(call[i])'
      BY <2>4, <3>1 DEF Knows, Owns
    <3>4. QED
      BY <3>2, <3>3
  <2>7. Alone'
    BY <2>4 DEF ShopInv, Alone, Owns, Idle
  <2>8. RowsFit'
    <3>1. \A u \in Tests : TestFits(u)'
      BY <1>1, <2>1, <2>2, <2>3 DEF ShopInv, RowsFit, TestFits
    <3>2. \A u \in Tests : Offered(u)' => Here(test[u].product)'
      BY <1>1, <2>1, <2>2, <2>3 DEF ShopInv, RowsFit, Offered, Here
    <3>3. \A u \in Tests : sold'[u] > 0 => Offered(u)'
      BY <1>1, <2>2, <2>3 DEF ShopInv, RowsFit, Offered, saleRows
    <3>4. \A u \in Tests : test[u].version # d.version
      BY <1>1 DEF Knows
    <3>5. ImportedOnce'
      BY <1>1, <2>2, <2>3, <3>4 DEF ShopInv, RowsFit, ImportedOnce
    <3>6. QED
      BY <3>1, <3>2, <3>3, <3>5 DEF RowsFit
  <2>9. QED
    BY <2>5, <2>6, <2>7, <2>8 DEF ShopInv
<1>4. CASE UNCHANGED test
  BY <1>1, <1>2, <1>4, ReturnKeeps
<1>5. QED
  BY <1>3, <1>4 DEF ImportTest

-----------------------------------------------------------------------------
(* The test catalogue                                                      *)

\* A request that changes no rows and goes on with call c.
LEMMA ReadKeeps ==
    ASSUME ShopInv, NEW h \in Handlers, NEW c, Moves(h, c),
           budget' \in [BudgetKinds -> Nat],
           UNCHANGED <<stored, product, test, saleRows>>
    PROVE  ShopInv'
<1>1. TypeOK
  BY DEF ShopInv
<1>2. QED
  BY <1>1, UnchangedKept, MoveKeeps

LEMMA CreateTestKeeps == ShopInv /\ CreateTest => ShopInv'
<1> SUFFICES ASSUME ShopInv, CreateTest PROVE ShopInv'
  OBVIOUS
<1>1. TypeOK /\ budget' \in [BudgetKinds -> Nat]
  BY BudgetTypes DEF ShopInv, TypeOK, CreateTest, BudgetKinds
<1>2. QED
  BY <1>1, UnchangedKept, QuietKeeps DEF CreateTest

LEMMA UpdateStartKeeps ==
    ASSUME ShopInv, NEW h \in Handlers, NEW t \in Tests, NEW change \in Changes,
           UpdateStart(h, t, change)
    PROVE  ShopInv'
<1> DEFINE c == [Idle EXCEPT !.op = "update", !.at = "readProduct", !.test = t,
                             !.product = test[t].product, !.change = change]
<1>1. budget' \in [BudgetKinds -> Nat]
  BY BudgetTypes DEF ShopInv, TypeOK, UpdateStart, BudgetKinds
<1>2. test[t].product \in Products /\ change \in ChangeRequests
  BY ShopAssumption
     DEF ShopInv, RowsFit, TestFits, UpdateStart, Offered, NoTest, None
<1>3. /\ c \in Calls /\ c.op = "update" /\ c.at = "readProduct"
      /\ c.product \in Products /\ call' = [call EXCEPT ![h] = c]
  BY <1>2, IdleType DEF Calls, Points, UpdateStart, Become
<1> HIDE DEF c
<1>4. QED
  BY <1>1, <1>3, PlainMoves, ReadKeeps DEF UpdateStart

\* The row that will be written is a row that was there.
LEMMA UpdateReadKeeps ==
    ASSUME ShopInv, NEW h \in Handlers, UpdateRead(h)
    PROVE  ShopInv'
<1> DEFINE d == call[h]
           c == [d EXCEPT !.at = "writeProduct", !.seen = product[d.product]]
<1>1. /\ d \in Calls /\ d.op = "update" /\ d.product \in Products
      /\ budget' \in [BudgetKinds -> Nat]
  BY BudgetTypes DEF ShopInv, TypeOK, UpdateRead, At, Knows
<1>2. CASE Here(d.product) /\ Become(h, c)
  <2>1. product[d.product] \in ProductRows /\ product[d.product].row = "here"
    BY <1>1, <1>2 DEF ShopInv, TypeOK, Here
  <2>2. /\ c \in Calls /\ c.op = "update" /\ c.seen.row = "here"
        /\ c.product \in Products /\ call' = [call EXCEPT ![h] = c]
    BY <1>1, <1>2, <2>1 DEF Calls, Points, Become
  <2> HIDE DEF c
  <2>3. Moves(h, c)
    BY <2>2 DEF Moves, Knows, Owns
  <2>4. QED
    BY <1>1, <2>3, ReadKeeps DEF UpdateRead
<1>3. CASE Return(h)
  BY <1>1, <1>3, ReturnKeeps DEF UpdateRead
<1>4. QED
  BY <1>2, <1>3 DEF UpdateRead

LEMMA UpdatedType ==
    ASSUME NEW c \in Calls
    PROVE  Updated(c) \in ProductRows /\ Updated(c).row = c.seen.row
BY DEF Calls, Updated, ProductRows

LEMMA UpdateProductKeeps ==
    ASSUME ShopInv, NEW h \in Handlers, UpdateProduct(h)
    PROVE  ShopInv'
<1> DEFINE d == call[h]
           p == d.product
<1>1. /\ d \in Calls /\ d.seen.row = "here" /\ Return(h)
      /\ UNCHANGED <<stored, test, saleRows>> /\ budget' \in [BudgetKinds -> Nat]
  BY BudgetTypes DEF ShopInv, TypeOK, UpdateProduct, At, Knows
<1>2. CASE product' = [product EXCEPT ![p] = IF Here(p) THEN Updated(d) ELSE @]
  <2>1. Updated(d) \in ProductRows /\ Updated(d).row = "here"
    BY <1>1, UpdatedType
  <2>2. \A q \in Products :
            product'[q] = IF q = p /\ Here(p) THEN Updated(d) ELSE product[q]
    BY <1>2 DEF ShopInv, TypeOK
  <2>3. product' \in [Products -> ProductRows]
    BY <1>2, <2>1 DEF ShopInv, TypeOK
  <2>4. RowsKept
    BY <1>1, <2>1, <2>2, <2>3 DEF ShopInv, TypeOK, RowsKept, saleRows, Here
  <2>5. QED
    BY <1>1, <2>4, ReturnMoves, MoveKeeps
<1>3. CASE UNCHANGED product
  BY <1>1, <1>3, ReturnKeeps
<1>4. QED
  BY <1>2, <1>3 DEF UpdateProduct

LEMMA DeleteStartKeeps ==
    ASSUME ShopInv, NEW h \in Handlers, NEW t \in Tests, DeleteStart(h, t)
    PROVE  ShopInv'
<1> DEFINE c == [Idle EXCEPT !.op = "delete", !.at = "purchases", !.test = t,
                             !.product = test[t].product]
<1>1. budget' \in [BudgetKinds -> Nat]
  BY BudgetTypes DEF ShopInv, TypeOK, DeleteStart, BudgetKinds
<1>2. test[t].product \in Products \cup {None} /\ test[t] # NoTest
  BY DEF ShopInv, TypeOK, TestRows, DeleteStart, Offered, NoTest, None
<1>3. /\ c \in Calls /\ c.op = "delete" /\ c.test = t /\ c.product = test[t].product
      /\ call' = [call EXCEPT ![h] = c]
  BY <1>2, IdleType DEF Calls, Points, DeleteStart, Become
<1> HIDE DEF c
<1>4. Moves(h, c)
  BY <1>2, <1>3 DEF Moves, Knows, Owns
<1>5. QED
  BY <1>1, <1>4, ReadKeeps DEF DeleteStart

LEMMA DeleteCheckKeeps ==
    ASSUME ShopInv, NEW h \in Handlers, DeleteCheck(h)
    PROVE  ShopInv'
<1> DEFINE d == call[h]
           c == [d EXCEPT !.at = "delete"]
<1>1. /\ d \in Calls /\ d.op = "delete" /\ Knows(d)
      /\ budget' \in [BudgetKinds -> Nat]
  BY BudgetTypes DEF ShopInv, TypeOK, DeleteCheck, At
<1>2. CASE Goto(h, "delete")
  <2>1. /\ c \in Calls /\ c.op = "delete" /\ c.test = d.test
        /\ c.product = d.product /\ call' = [call EXCEPT ![h] = c]
    BY <1>1, <1>2 DEF Calls, Points, Goto, Become
  <2> HIDE DEF c
  <2>2. Moves(h, c)
    BY <1>1, <2>1 DEF Moves, Knows, Owns
  <2>3. QED
    BY <1>1, <2>2, ReadKeeps DEF DeleteCheck
<1>3. CASE Return(h)
  BY <1>1, <1>3, ReturnKeeps DEF DeleteCheck
<1>4. QED
  BY <1>2, <1>3 DEF DeleteCheck

\* The keys refuse the deletion of a test that was sold, and of a product that
\* another test needs.
LEMMA DeleteCommitKeeps ==
    ASSUME ShopInv, NEW h \in Handlers, DeleteCommit(h)
    PROVE  ShopInv'
<1> DEFINE d == call[h]
           t == d.test
           p == d.product
<1>1. /\ t \in Tests /\ test[t] # NoTest /\ p = test[t].product
      /\ Return(h) /\ UNCHANGED <<stored, saleRows>>
      /\ budget' \in [BudgetKinds -> Nat]
  BY BudgetTypes DEF ShopInv, TypeOK, DeleteCommit, At, Knows
<1>2. CASE DeleteKeys(t, p) /\ Deleted(t, p)
  <2>1. p \in Products
    BY <1>1 DEF ShopInv, RowsFit, TestFits
  <2> HIDE DEF t, p
  <2>2. \A u \in Tests :
            /\ test'[u].row = IF u = t THEN "gone" ELSE test[u].row
            /\ test'[u].product = test[u].product
            /\ test'[u].version = test[u].version
            /\ test[u] # NoTest => test'[u] # NoTest
            /\ test'[u] # NoTest => test[u] # NoTest
    BY <1>1, <1>2 DEF ShopInv, TypeOK, TestRows, Deleted, NoTest, None
  <2>3. \A q \in Products :
            product'[q].row = IF q = p THEN "gone" ELSE product[q].row
    BY <1>2, <2>1 DEF ShopInv, TypeOK, ProductRows, Deleted
  <2>4. test' \in [Tests -> TestRows] /\ product' \in [Products -> ProductRows]
    <3>1. [test[t] EXCEPT !.row = "gone"] \in TestRows
      BY <1>1 DEF ShopInv, TypeOK, TestRows
    <3>2. [product[p] EXCEPT !.row = "gone"] \in ProductRows
      BY <2>1 DEF ShopInv, TypeOK, ProductRows
    <3>3. QED
      BY <1>2, <3>1, <3>2 DEF ShopInv, TypeOK, Deleted
  <2>5. TypeOK'
    BY <1>1, <2>4, IdleType DEF ShopInv, TypeOK, Return, Become, saleRows
  <2>6. \A g \in Handlers : call'[g] = IF g = h THEN Idle ELSE call[g]
    BY <1>1 DEF ShopInv, TypeOK, Return, Become
  <2>7. \A g \in Handlers : Knows(call[g])'
    <3>1. Idle.op = "idle"
      BY DEF Idle
    <3>2. ASSUME NEW g \in Handlers, g # h
          PROVE  Knows(call[g])'
      <4>1. Knows(call[g]) /\ call'[g] = call[g]
        BY <2>6, <3>2 DEF ShopInv
      <4>2. QED
        BY <1>1, <2>2, <4>1 DEF Knows, Owns
    <3>3. Knows(call[h])'
      BY <2>6, <3>1 DEF Knows, Owns
    <3>4. QED
      BY <3>2, <3>3
  <2>8. Alone'
    BY <2>6 DEF ShopInv, Alone, Owns, Idle
  <2>9. RowsFit'
    <3>1. \A u \in Tests : TestFits(u)'
      BY <1>1, <2>2 DEF ShopInv, RowsFit, TestFits
    <3>2. ASSUME NEW u \in Tests, Offered(u)'
          PROVE  Here(test[u].product)'
      <4>1. u # t /\ Offered(u) /\ test[u] # NoTest
        BY <2>2, <3>2 DEF Offered, NoTest, None
      <4>2. test[u].product \in Products /\ Here(test[u].product)
            /\ test[u].product # p
        BY <1>2, <4>1 DEF ShopInv, RowsFit, TestFits, DeleteKeys
      <4>3. QED
        BY <2>2, <2>3, <4>2 DEF Here
    <3>3. \A u \in Tests : sold'[u] > 0 => Offered(u)'
      BY <1>1, <1>2, <2>2 DEF ShopInv, TypeOK, RowsFit, Offered, DeleteKeys, saleRows
    <3>4. ImportedOnce'
      BY <2>2 DEF ShopInv, RowsFit, ImportedOnce
    <3>5. QED
      BY <3>1, <3>2, <3>3, <3>4 DEF RowsFit
  <2>10. QED
    BY <2>5, <2>7, <2>8, <2>9 DEF ShopInv
<1>3. CASE UNCHANGED <<test, product>>
  BY <1>1, <1>3, ReturnKeeps
<1>4. QED
  BY <1>2, <1>3 DEF DeleteCommit

-----------------------------------------------------------------------------
(* Billing                                                                 *)

LEMMA CheckoutStartKeeps ==
    ASSUME ShopInv, NEW h \in Handlers, NEW t \in Tests, CheckoutStart(h, t)
    PROVE  ShopInv'
<1> DEFINE c == [Idle EXCEPT !.op = "checkout", !.at = "session", !.test = t]
<1>1. c \in Calls /\ c.op = "checkout" /\ call' = [call EXCEPT ![h] = c]
  BY IdleType DEF Calls, Points, CheckoutStart, Become
<1> HIDE DEF c
<1>2. budget' \in [BudgetKinds -> Nat]
  BY DEF ShopInv, TypeOK, CheckoutStart
<1>3. QED
  BY <1>1, <1>2, PlainMoves, ReadKeeps DEF CheckoutStart

LEMMA FreeStartKeeps ==
    ASSUME ShopInv, NEW h \in Handlers, NEW t \in Tests, FreeStart(h, t)
    PROVE  ShopInv'
<1> DEFINE c == [Idle EXCEPT !.op = "free", !.at = "insert", !.test = t]
<1>1. c \in Calls /\ c.op = "free" /\ call' = [call EXCEPT ![h] = c]
  BY IdleType DEF Calls, Points, FreeStart, Become
<1> HIDE DEF c
<1>2. budget' \in [BudgetKinds -> Nat]
  BY BudgetTypes DEF ShopInv, TypeOK, FreeStart, BudgetKinds
<1>3. QED
  BY <1>1, <1>2, PlainMoves, ReadKeeps DEF FreeStart

LEMMA WebhookStartKeeps ==
    ASSUME ShopInv, NEW h \in Handlers, NEW s \in Sessions, WebhookStart(h, s)
    PROVE  ShopInv'
<1> DEFINE c == [Idle EXCEPT !.op = "webhook", !.at = "insert", !.session = s,
                             !.test = session[s].test]
<1>1. session[s].test \in Tests \cup {None}
  BY DEF ShopInv, TypeOK
<1>2. c \in Calls /\ c.op = "webhook" /\ call' = [call EXCEPT ![h] = c]
  BY <1>1, IdleType DEF Calls, Points, WebhookStart, Become
<1> HIDE DEF c
<1>3. budget' \in [BudgetKinds -> Nat]
  BY BudgetTypes DEF ShopInv, TypeOK, WebhookStart, BudgetKinds
<1>4. QED
  BY <1>2, <1>3, PlainMoves, ReadKeeps DEF WebhookStart

\* What the insert of a purchase does to the rows.
LEMMA SellKept ==
    ASSUME TypeOK, NEW t, Sell(t) \/ UNCHANGED sold
    PROVE  /\ sold' \in [Tests -> Nat]
           /\ \A u \in Tests : sold'[u] > 0 => sold[u] > 0 \/ Offered(u)
BY DEF TypeOK, Sell

LEMMA CheckoutSessionKeeps ==
    ASSUME ShopInv, NEW h \in Handlers, CheckoutSession(h)
    PROVE  ShopInv'
<1>1. budget' \in [BudgetKinds -> Nat] /\ Return(h)
  BY BudgetTypes DEF ShopInv, TypeOK, CheckoutSession
<1>2. call[h].test \in Tests \cup {None}
  BY DEF ShopInv, TypeOK, Calls
<1>3. session' \in [Sessions -> [is : {None, "open", "paid", "served"},
                                 test : Tests \cup {None}]]
  BY <1>2 DEF ShopInv, TypeOK, CheckoutSession
<1>4. RowsKept
  BY <1>1, <1>3 DEF ShopInv, TypeOK, CheckoutSession, RowsKept, Here
<1>5. QED
  BY <1>1, <1>4, ReturnMoves, MoveKeeps

LEMMA PayKeeps ==
    ASSUME ShopInv, NEW s \in Sessions, Pay(s)
    PROVE  ShopInv'
<1>1. session' \in [Sessions -> [is : {None, "open", "paid", "served"},
                                 test : Tests \cup {None}]]
  BY DEF ShopInv, TypeOK, Pay
<1>2. RowsKept
  BY <1>1 DEF ShopInv, TypeOK, Pay, RowsKept, Here
<1>3. QED
  BY <1>2, QuietKeeps DEF Pay

LEMMA WebhookInsertKeeps ==
    ASSUME ShopInv, NEW h \in Handlers, WebhookInsert(h)
    PROVE  ShopInv'
<1> DEFINE c == call[h]
<1>1. budget' \in [BudgetKinds -> Nat] /\ Return(h)
      /\ UNCHANGED <<stored, product, test>>
  BY BudgetTypes DEF ShopInv, TypeOK, WebhookInsert
<1>2. CASE /\ Sell(c.test)
           /\ bought' = [bought EXCEPT ![c.session] = @ + 1]
           /\ session' = [session EXCEPT ![c.session].is = "served"]
  <2>1. bought' \in [Sessions -> Nat]
    <3>1. bought \in [Sessions -> Nat] /\ bought' = [bought EXCEPT ![c.session] = @ + 1]
      BY <1>2 DEF ShopInv, TypeOK
    <3>2. \A s \in Sessions :
              bought'[s] = IF s = c.session THEN bought[s] + 1 ELSE bought[s]
      BY <3>1
    <3>3. \A s \in Sessions : bought[s] \in Nat /\ bought[s] + 1 \in Nat
      BY <3>1
    <3>4. bought' = [s \in Sessions |-> bought'[s]]
      BY <3>1
    <3>5. QED
      BY <3>2, <3>3, <3>4
  <2>2. session' \in [Sessions -> [is : {None, "open", "paid", "served"},
                                   test : Tests \cup {None}]]
    BY <1>2 DEF ShopInv, TypeOK
  <2>3. RowsKept
    BY <1>1, <1>2, <2>1, <2>2, SellKept DEF ShopInv, TypeOK, RowsKept, Here
  <2>4. QED
    BY <1>1, <2>3, ReturnMoves, MoveKeeps
<1>3. CASE UNCHANGED saleRows
  BY <1>1, <1>3, ReturnKeeps
<1>4. QED
  BY <1>2, <1>3 DEF WebhookInsert

LEMMA FreeInsertKeeps ==
    ASSUME ShopInv, NEW h \in Handlers, FreeInsert(h)
    PROVE  ShopInv'
<1>1. budget' \in [BudgetKinds -> Nat] /\ Return(h)
      /\ UNCHANGED <<stored, product, test, bought, session>>
  BY BudgetTypes DEF ShopInv, TypeOK, FreeInsert
<1>2. Sell(call[h].test) \/ UNCHANGED sold
  BY DEF FreeInsert
<1>3. RowsKept
  BY <1>1, <1>2, SellKept DEF ShopInv, TypeOK, RowsKept, Here
<1>4. QED
  BY <1>1, <1>3, ReturnMoves, MoveKeeps

-----------------------------------------------------------------------------
(* The specification                                                       *)

LEMMA InitShopInv == Init => ShopInv
<1> SUFFICES ASSUME Init PROVE ShopInv
  OBVIOUS
<1>1. TypeOK
  BY IdleType, ShopAssumption
     DEF Init, ShopInit, TypeOK, NoRow, ProductRows, NoProduct, TestRows, NoTest,
         NoSession
<1>2. \A h \in Handlers : call[h].op = "idle"
  BY DEF Init, ShopInit, Idle
<1>3. \A h \in Handlers : Knows(call[h])
  BY <1>2 DEF Knows, Owns
<1>4. Alone
  BY <1>2 DEF Alone, Owns
<1>5. RowsFit
  BY DEF Init, ShopInit, RowsFit, TestFits, Offered, NoTest, None, ImportedOnce
<1>6. QED
  BY <1>1, <1>3, <1>4, <1>5 DEF ShopInv

LEMMA StepKeeps ==
    ASSUME ShopInv, NEW h \in Handlers, Step(h)
    PROVE  ShopInv'
<1>1. CASE ImportStep(h)
  BY <1>1, ImportVersionKeeps, ImportPartKeeps, ImportLookupKeeps,
     ImportProductKeeps, ImportTestKeeps DEF ImportStep
<1>2. CASE CatalogueStep(h)
  BY <1>2, UpdateReadKeeps, UpdateProductKeeps, DeleteCheckKeeps,
     DeleteCommitKeeps DEF CatalogueStep
<1>3. CASE BillingStep(h)
  BY <1>3, CheckoutSessionKeeps, WebhookInsertKeeps, FreeInsertKeeps
     DEF BillingStep
<1>4. QED
  BY <1>1, <1>2, <1>3 DEF Step

LEMMA NextShopInv == ShopInv /\ [Next]_vars => ShopInv'
<1> SUFFICES ASSUME ShopInv, [Next]_vars PROVE ShopInv'
  OBVIOUS
<1>1. ASSUME NEW h \in Handlers, Step(h) \/ Die(h)
      PROVE  ShopInv'
  BY <1>1, StepKeeps, DieKeeps
<1>2. ASSUME NEW s \in Sessions, Pay(s) \/ Deliver(s)
      PROVE  ShopInv'
  BY <1>2, PayKeeps, WebhookStartKeeps DEF Deliver, Handlers
<1>3. CASE Imports
  BY <1>3, ImportStartKeeps DEF Imports, Handlers
<1>4. CASE CatalogueRequests
  BY <1>4, CreateTestKeeps, DeleteStartKeeps, UpdateStartKeeps
     DEF CatalogueRequests, Handlers
<1>5. CASE Purchases
  BY <1>5, CheckoutStartKeeps, FreeStartKeeps DEF Purchases, Handlers
<1>6. CASE UNCHANGED vars
  <2>1. budget' \in [BudgetKinds -> Nat] /\ UNCHANGED call
        /\ UNCHANGED <<stored, product, test, saleRows>> /\ TypeOK
    BY <1>6 DEF ShopInv, TypeOK, vars
  <2>2. QED
    BY <2>1, UnchangedKept, QuietKeeps
<1>7. QED
  BY <1>1, <1>2, <1>3, <1>4, <1>5, <1>6 DEF Next

\* What the invariant says holds of every reachable state.
LEMMA AlwaysShopInv == Spec => []ShopInv
BY InitShopInv, NextShopInv, PTL DEF Spec

\* Every reachable state is well-typed, whatever fails and whoever dies: in
\* particular no version has more parts than its scenario, in any interleaving
\* of imports, and no budget is overdrawn (importer.go:163-204).
THEOREM StorefrontTypes == Spec => []TypeOK
BY AlwaysShopInv, PTL DEF ShopInv

\* A test on offer has its product, and every task and check of its scenario,
\* wherever imports, deletions and processes were interrupted
\* (importer.go:163-232).
THEOREM OffersAreComplete == Spec => []OfferedIsComplete
<1>1. ShopInv => OfferedIsComplete
  BY DEF ShopInv, RowsFit, TestFits, OfferedIsComplete, Offered, NoTest, None
<1>2. QED
  BY <1>1, AlwaysShopInv, PTL

\* A scenario at a commit gets one test, however many processes import it: the
\* unique key of scenario_versions leaves one of them (importer.go:136-165).
THEOREM ImportsHappenOnce == Spec => []ImportedOnce
<1>1. ShopInv => ImportedOnce
  BY DEF ShopInv, RowsFit
<1>2. QED
  BY <1>1, AlwaysShopInv, PTL

\* What was bought is never deleted, whatever is bought and added between
\* deleteTest's question and its DELETE statements (handler.go:435-462).
THEOREM SalesStay == Spec => []SoldStays
<1>1. ShopInv => SoldStays
  BY DEF ShopInv, RowsFit, SoldStays
<1>2. QED
  BY <1>1, AlwaysShopInv, PTL

-----------------------------------------------------------------------------
(* Products that can be sold                                               *)

\* What a step may do to the product p.
KeepsSellable(p) == Here(p) /\ Sellable(product[p]) => Sellable(product'[p])

LEMMA ImportProductSellable ==
    ASSUME ShopInv, NEW i \in Handlers, ImportProduct(i), NEW p \in Products
    PROVE  KeepsSellable(p)
<1>1. CASE UNCHANGED product
  BY <1>1 DEF KeepsSellable, Sellable
<1>2. CASE \E q \in Products :
              /\ IsNew(q, product, NoProduct)
              /\ product' = [product EXCEPT ![q] =
                              [NoProduct EXCEPT !.row = "here",
                                          !.title = titleOf[call[i].version]]]
  <2>1. PICK q \in Products :
              /\ IsNew(q, product, NoProduct)
              /\ product' = [product EXCEPT ![q] =
                              [NoProduct EXCEPT !.row = "here",
                                          !.title = titleOf[call[i].version]]]
    BY <1>2
  <2>2. ~Here(q)
    BY <2>1 DEF IsNew, Here, NoProduct, None
  <2>3. p # q => product'[p] = product[p]
    BY <2>1 DEF ShopInv, TypeOK
  <2>4. QED
    BY <2>2, <2>3 DEF KeepsSellable, Sellable
<1>3. QED
  BY <1>1, <1>2 DEF ImportProduct

LEMMA UpdateProductSellable ==
    ASSUME ShopInv, NEW h \in Handlers, UpdateProduct(h), NEW p \in Products
    PROVE  KeepsSellable(p)
<1> DEFINE c == call[h]
<1>1. CASE UNCHANGED product
  BY <1>1 DEF KeepsSellable, Sellable
<1>2. CASE /\ Sellable(Updated(c))
           /\ product' = [product EXCEPT ![c.product] =
                            IF Here(c.product) THEN Updated(c) ELSE @]
  <2>1. product'[p] \in {product[p], Updated(c)}
    BY <1>2 DEF ShopInv, TypeOK
  <2>2. QED
    BY <1>2, <2>1 DEF KeepsSellable
<1>3. QED
  BY <1>1, <1>2 DEF UpdateProduct

LEMMA DeleteCommitSellable ==
    ASSUME ShopInv, NEW h \in Handlers, DeleteCommit(h), NEW p \in Products
    PROVE  KeepsSellable(p)
<1>1. product[p] \in ProductRows
  BY DEF ShopInv, TypeOK
<1>2. /\ product'[p].isFree = product[p].isFree
      /\ product'[p].priced = product[p].priced
  BY <1>1 DEF ShopInv, TypeOK, DeleteCommit, Deleted, ProductRows
<1>3. QED
  BY <1>2 DEF KeepsSellable, Sellable

\* The other statements leave the products alone.
LEMMA ProductUntouched ==
    ASSUME UNCHANGED product, NEW p \in Products
    PROVE  KeepsSellable(p)
BY DEF KeepsSellable, Sellable

LEMMA StepSellable ==
    ASSUME ShopInv, NEW h \in Handlers, Step(h), NEW p \in Products
    PROVE  KeepsSellable(p)
<1>1. CASE ImportStep(h)
  BY <1>1, ImportProductSellable, ProductUntouched
     DEF ImportStep, ImportVersion, ImportPart, ImportLookup, ImportTest
<1>2. CASE CatalogueStep(h)
  BY <1>2, UpdateProductSellable, DeleteCommitSellable, ProductUntouched
     DEF CatalogueStep, UpdateRead, DeleteCheck
<1>3. CASE BillingStep(h)
  BY <1>3, ProductUntouched
     DEF BillingStep, CheckoutSession, WebhookInsert, FreeInsert
<1>4. QED
  BY <1>1, <1>2, <1>3 DEF Step

\* No step leaves a product that was free or had a price paid and without one:
\* every update checks all of the row that it writes (handler.go:374).
THEOREM SellableProductsStay == Spec => SellableStays
<1>1. ASSUME ShopInv, [Next]_vars
      PROVE  [\A p \in Products : Here(p) /\ Sellable(product[p])
                                    => Sellable(product'[p])]_vars
  <2> SUFFICES ASSUME NEW p \in Products
               PROVE  KeepsSellable(p) \/ UNCHANGED vars
    BY DEF KeepsSellable
  <2>1. CASE \E h \in Handlers : Step(h)
    BY <1>1, <2>1, StepSellable
  <2>2. CASE UNCHANGED product
    BY <2>2, ProductUntouched
  <2>3. CASE UNCHANGED vars
    BY <2>3
  <2>4. Next => (\E h \in Handlers : Step(h)) \/ UNCHANGED product
    BY DEF Next, Die, Pay, Deliver, WebhookStart, Imports, ImportStart,
           CatalogueRequests, CreateTest, DeleteStart, UpdateStart,
           Purchases, CheckoutStart, FreeStart
  <2>5. QED
    BY <1>1, <2>1, <2>2, <2>3, <2>4
<1>2. QED
  BY <1>1, AlwaysShopInv, PTL DEF Spec, SellableStays
=============================================================================
