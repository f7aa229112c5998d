-------------------------- MODULE TerminalGateway --------------------------
(***************************************************************************)
(* internal/terminal: a WebSocket connection to the terminal of a session. *)
(* A connection to a session whose first_opened_at is set changes no row,  *)
(* and neither does the SSH bridge after the transitions, so a connection  *)
(* is modelled from reading a fresh session to the last transition.        *)
(***************************************************************************)
EXTENDS Platform

\* GetByTerminalToken: the session is read here, and not again.
OpenStart(h, e) ==
    /\ session[e] = "fresh"
    /\ Begin(h, Invocation("open", owner[e], e, "admit"))
    /\ UNCHANGED <<rows, budget>>

ActiveStatuses == {"environment_ready", "terminal_opened", "running"}

OpenAdmit(h) ==
    /\ At(h, "open", "admit")
    /\ \/ Works(h) /\ status[Att(h)] \in ActiveStatuses /\ Goto(h, "stamp")
       \/ Works(h) /\ status[Att(h)] \notin ActiveStatuses /\ Return(h)
       \/ Fails(h) /\ Return(h)
    /\ UNCHANGED rows

\* UpdateFirstOpenedAt; its error is only logged.
OpenStamp(h) ==
    /\ At(h, "open", "stamp")
    /\ \/ Works(h) /\ session' = [session EXCEPT ![call[h].env] = "opened"]
       \/ Fails(h) /\ UNCHANGED session
    /\ CallTransition(h, "terminal_opened")
    /\ UNCHANGED <<remaining, attemptRows, aged, owner, envStatus, vm, queue>>

\* The results of both transitions are ignored.
OpenTransitioned(h) ==
    /\ \/ /\ Returned(h, "open", "terminal_opened")
          /\ CallTransition(h, "running")
       \/ /\ Returned(h, "open", "running")
          /\ Return(h)
    /\ UNCHANGED <<rows, budget>>

-----------------------------------------------------------------------------
TerminalRequests == \E h \in Requests, e \in Envs : OpenStart(h, e)

TerminalStep(h) == OpenAdmit(h) \/ OpenStamp(h) \/ OpenTransitioned(h)
=============================================================================
