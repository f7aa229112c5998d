------------------------------ MODULE Billing ------------------------------
(***************************************************************************)
(* internal/billing: checkout sessions, the webhook that Stripe calls when *)
(* a session was paid, and free purchases.                                 *)
(***************************************************************************)
EXTENDS Shop

Priced(t) == Here(test[t].product) /\ product[test[t].product].priced

\* CreateCheckoutSession: the test and its product are read ...
CheckoutStart(h, t) ==
    /\ IsIdle(h)
    /\ \E s \in Sessions : session[s] = NoSession
    /\ Offered(t) /\ Priced(t)
    /\ Become(h, [Idle EXCEPT !.op = "checkout", !.at = "session", !.test = t])
    /\ UNCHANGED <<stored, product, test, saleRows, budget>>

\* ... and Stripe opens a session, which names the test in its metadata.
CheckoutSession(h) ==
    /\ At(h, "checkout", "session")
    /\ \/ /\ Works
          /\ \E s \in Sessions :
                /\ IsNew(s, session, NoSession)
                /\ session' = [session EXCEPT ![s] = [is |-> "open",
                                                      test |-> call[h].test]]
       \/ Fails /\ UNCHANGED session
    /\ Return(h)
    /\ UNCHANGED <<stored, product, test, sold, bought>>

\* The student pays.
Pay(s) ==
    /\ session[s].is = "open"
    /\ session' = [session EXCEPT ![s].is = "paid"]
    /\ UNCHANGED <<stored, product, test, sold, bought, call, budget>>

\* Stripe delivers checkout.session.completed until it is answered with 200, and
\* may deliver it once more.  HandleCheckoutCompleted looks for the test.
WebhookStart(h, s) ==
    /\ IsIdle(h)
    /\ \A g \in Requests : call[g].session # s
    /\ \/ session[s].is = "paid" /\ UNCHANGED budget
       \/ session[s].is = "served" /\ Spend("redeliver")
    /\ Offered(session[s].test)
    /\ Become(h, [Idle EXCEPT !.op = "webhook", !.at = "insert", !.session = s,
                              !.test = session[s].test])
    /\ UNCHANGED <<stored, product, test, saleRows>>

\* Bug: the answer is 200 whatever HandleCheckoutCompleted returned.
WebhookInsertAcknowledged(h) ==
    /\ At(h, "webhook", "insert")
    /\ LET c == call[h]
       IN  \/ /\ Works
              /\ Sell(c.test)
              /\ bought' = [bought EXCEPT ![c.session] = @ + 1]
           \/ NoEffect(~Offered(c.test)) /\ UNCHANGED <<sold, bought>>
    /\ session' = [session EXCEPT ![call[h].session].is = "served"]
    /\ Return(h)
    /\ UNCHANGED <<stored, product, test>>

\* The purchase is stored without the id of the session.  After an error the
\* answer is 500, and Stripe will come again.
WebhookInsert(h) ==
    /\ At(h, "webhook", "insert")
    /\ LET c == call[h]
       IN  \/ /\ Works
              /\ Sell(c.test)
              /\ bought' = [bought EXCEPT ![c.session] = @ + 1]
              /\ session' = [session EXCEPT ![c.session].is = "served"]
           \/ NoEffect(~Offered(c.test)) /\ UNCHANGED saleRows
    /\ Return(h)
    /\ UNCHANGED <<stored, product, test>>

\* CreateFreePurchase: the test and its product are read, then sold.
FreeStart(h, t) ==
    /\ IsIdle(h)
    /\ Offered(t) /\ product[test[t].product].isFree
    /\ Spend("request")
    /\ Become(h, [Idle EXCEPT !.op = "free", !.at = "insert", !.test = t])
    /\ UNCHANGED <<stored, product, test, saleRows>>

FreeInsert(h) ==
    /\ At(h, "free", "insert")
    /\ \/ Works /\ Sell(call[h].test)
       \/ NoEffect(~Offered(call[h].test)) /\ UNCHANGED sold
    /\ Return(h)
    /\ UNCHANGED <<stored, product, test, bought, session>>

-----------------------------------------------------------------------------
Purchases ==
    \E h \in Requests, t \in Tests : CheckoutStart(h, t) \/ FreeStart(h, t)

Deliver(s) == \E h \in Requests : WebhookStart(h, s)

BillingStep(h) == CheckoutSession(h) \/ WebhookInsert(h) \/ FreeInsert(h)
=============================================================================
