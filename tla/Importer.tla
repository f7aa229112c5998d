------------------------------ MODULE Importer ------------------------------
(***************************************************************************)
(* internal/importer: the import of one scenario of the repository, which  *)
(* the server does when it starts and cmd/import-scenarios whenever it is  *)
(* run.  A failed statement ends the import of this scenario; the next     *)
(* scenario is imported all the same.                                      *)
(***************************************************************************)
EXTENDS Shop

\* GetVersionByExternalID finds nothing; otherwise the scenario is skipped.
ImportStart(i, v) ==
    /\ IsIdle(i)
    /\ stored[v] = NoRow
    /\ Become(i, [Idle EXCEPT !.op = "import", !.at = "version", !.version = v])
    /\ UNCHANGED <<stored, product, test, saleRows, budget>>

\* Bug: INSERT ... ON CONFLICT DO NOTHING.
ImportVersionOnConflict(i) ==
    /\ At(i, "import", "version")
    /\ LET v == call[i].version
       IN  \/ /\ Works
              /\ stored' = [stored EXCEPT ![v] = IF @ = NoRow THEN 0 ELSE @]
              /\ Goto(i, IF stored[v] = Parts THEN "lookup" ELSE "parts")
           \/ Fails /\ Return(i) /\ UNCHANGED stored
    /\ UNCHANGED <<product, test, saleRows>>

\* CreateVersion: (external_id, git_commit) is unique.
ImportVersion(i) ==
    /\ At(i, "import", "version")
    /\ LET v == call[i].version
       IN  \/ /\ Works
              /\ stored[v] = NoRow
              /\ stored' = [stored EXCEPT ![v] = 0]
              /\ Goto(i, "parts")
           \/ NoEffect(stored[v] # NoRow) /\ Return(i) /\ UNCHANGED stored
    /\ UNCHANGED <<product, test, saleRows>>

\* Bug: the error of an insert is logged and the import goes on.
ImportPartLogged(i) ==
    /\ At(i, "import", "parts")
    /\ LET v == call[i].version
       IN  \/ /\ Works
              /\ stored' = [stored EXCEPT ![v] = @ + 1]
              /\ Goto(i, IF stored'[v] = Parts THEN "lookup" ELSE "parts")
           \/ Fails /\ Goto(i, "lookup") /\ UNCHANGED stored
    /\ UNCHANGED <<product, test, saleRows>>

\* Bug: one round too many.
ImportPartPastEnd(i) ==
    /\ At(i, "import", "parts")
    /\ LET v == call[i].version
       IN  \/ /\ Works
              /\ stored' = [stored EXCEPT ![v] = @ + 1]
              /\ Goto(i, IF stored[v] = Parts THEN "lookup" ELSE "parts")
           \/ Fails /\ Return(i) /\ UNCHANGED stored
    /\ UNCHANGED <<product, test, saleRows>>

\* CreateTask for every task, then CreateCheck for every check.
ImportPart(i) ==
    /\ At(i, "import", "parts")
    /\ LET v == call[i].version
       IN  \/ /\ Works
              /\ stored' = [stored EXCEPT ![v] = @ + 1]
              /\ Goto(i, IF stored'[v] = Parts THEN "lookup" ELSE "parts")
           \/ Fails /\ Return(i) /\ UNCHANGED stored
    /\ UNCHANGED <<product, test, saleRows>>

\* GetByTitle returns some product with the scenario's title.  Without one, and
\* after any failure, a product is created.
ImportLookup(i) ==
    /\ At(i, "import", "lookup")
    /\ LET titled == {p \in Products :
                        Here(p) /\ product[p].title = titleOf[call[i].version]}
       IN  \/ /\ Works
              /\ \E p \in titled :
                    Become(i, [call[i] EXCEPT !.at = "test", !.product = p])
           \/ NoEffect(titled = {}) /\ Goto(i, "product")
    /\ UNCHANGED <<stored, product, test, saleRows>>

\* The product is not free and has no price.
ImportProduct(i) ==
    /\ At(i, "import", "product")
    /\ \/ /\ Works
          /\ \E p \in Products :
                /\ IsNew(p, product, NoProduct)
                /\ product' = [product EXCEPT ![p] =
                                [NoProduct EXCEPT !.row = "here",
                                            !.title = titleOf[call[i].version]]]
                /\ Become(i, [call[i] EXCEPT !.at = "test", !.product = p])
       \/ Fails /\ Return(i) /\ UNCHANGED product
    /\ UNCHANGED <<stored, test, saleRows>>

\* The product may be deleted by now.
ImportTest(i) ==
    /\ At(i, "import", "test")
    /\ LET c == call[i]
       IN  \/ Works /\ \E t \in Tests : InsertTest(t, c.product, c.version)
           \/ NoEffect(~TestKeys(c.product, c.version)) /\ UNCHANGED test
    /\ Return(i)
    /\ UNCHANGED <<stored, product, saleRows>>

-----------------------------------------------------------------------------
Imports == \E i \in Importers, v \in Versions : ImportStart(i, v)

ImportStep(i) ==
    \/ ImportVersion(i) \/ ImportPart(i) \/ ImportLookup(i)
    \/ ImportProduct(i) \/ ImportTest(i)
=============================================================================
