------------------------------ MODULE Provider ------------------------------
(***************************************************************************)
(* What internal/provider promises its caller, whichever backend is behind *)
(* it: an environment that CreateEnvironment returned is there, whole and  *)
(* its own, until somebody asks for the destruction of that environment.   *)
(* What was destroyed is never there again.  A creation that failed, or a  *)
(* destruction that was interrupted, may leave machines that no caller     *)
(* can name.                                                               *)
(*                                                                         *)
(* A destruction names machines by ids that are given out again.  So the   *)
(* promise of an environment of one's own ends with the first environment  *)
(* that is destroyed a second time; that a destroyed one stays destroyed,  *)
(* and a failed one failed, does not end.                                  *)
(***************************************************************************)
CONSTANT Envs

VARIABLES
    state,      \* what an environment is to its caller
    twice       \* was some environment destroyed a second time

vars == <<state, twice>>

States == {"absent", "building", "up", "broken", "failed", "going", "gone", "left"}

Moves == {<<"absent", "building">>, <<"building", "up">>, <<"building", "failed">>,
          <<"up", "going">>, <<"going", "gone">>, <<"going", "left">>}

\* What machines under ids that others were given may do besides.
Breaks == {<<"building", "broken">>, <<"up", "broken">>, <<"broken", "up">>,
           <<"broken", "going">>, <<"broken", "gone">>, <<"left", "going">>}

Init ==
    /\ state = [e \in Envs |-> "absent"]
    /\ twice = FALSE

\* Environments move independently of each other; a crash moves several.
Next ==
    /\ twice' \in BOOLEAN /\ (twice => twice')
    /\ state' \in [Envs -> States]
    /\ \A e \in Envs :
        state'[e] # state[e] =>
            <<state[e], state'[e]>> \in IF twice' THEN Moves \cup Breaks ELSE Moves

Spec == Init /\ [][Next]_vars
=============================================================================
