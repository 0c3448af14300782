-------------------------- MODULE MCActiveSession --------------------------
(* Instances of ActiveSession for TLC.                                     *)
EXTENDS ActiveSession

CONSTANTS stick, button

\* The wheel takes the stick over and leaves the buttons alone.
MCStates == {NeutralState, stick, button}
MCHidden == [s \in MCStates |-> IF s = button THEN button ELSE NeutralState]
=============================================================================
