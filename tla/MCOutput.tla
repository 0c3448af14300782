----------------------------- MODULE MCOutput ------------------------------
(***************************************************************************)
(* The way of a gamepad state: the session that makes the states from the  *)
(* controller's reports, the bridge output that brings them to the wire    *)
(* and answers control requests, and the wire's framing.  Each behaviour   *)
(* is about one of them; the others stay in their initial states.          *)
(*                                                                         *)
(* The ticks are the code's limits scaled down: what matters is that each  *)
(* can be due alone or together.  Control requests look at neither the     *)
(* clock nor the states: the behaviours about their answers leave out      *)
(* Advance, and those about states the answers to requests nobody made.    *)
(***************************************************************************)
EXTENDS ActiveSession, HostTiming, StreamDecoder, TLC

CONSTANTS stick, button

VARIABLE part  \* what this behaviour is about

\* The wheel takes the stick over and leaves the buttons alone.
MCStates == {NeutralState, stick, button}
MCHidden == [s \in MCStates |-> IF s = button THEN button ELSE NeutralState]

\* A type without a payload, an unknown one, a gamepad state and a receipt.
MCMagic == <<2, 3>>
MCLengths == (0 :> {0}) @@ (2 :> {2}) @@ (3 :> {1})

\* The payloads inside the frames, over their own bounded inputs.
Messages == INSTANCE WireMessages WITH Base <- 4, MaxHat <- 2
ASSUME WrittenIsRead == Messages!RoundTrips
ASSUME ReadIsWritten == Messages!PayloadsAreCanonical

\* Active states are interchangeable for the bridge, and so are request ids.
Symmetry == Permutations(States \ {Neutral}) \cup Permutations(RequestIds)

\* The poll read nothing that only requests look at, or no ping.
NoAnswerRead ==
  connection' # Closed =>
    /\ connection'.firmware \in {"Pending", "Unreported"}
    /\ connection'.uf2_bootloader_ready = None /\ connection'.control_error = None
    /\ connection'.install_receipt_recorded = None
NoPing == connection' # Closed => connection'.pending_ping = None

OutputInit ==
  /\ part \in {"session", "states", "requests", "framing"}
  /\ ActiveInit /\ TimingInit /\ LinkInit

OutputNext ==
  /\ UNCHANGED part
  /\ \/ part = "session" /\ ActiveNext /\ UNCHANGED <<timing_vars, link>>
     \/ part = "states" /\ TimingNext /\ NoAnswerRead /\ UNCHANGED <<activeVars, link>>
     \/ /\ part = "requests" /\ (SessionCall \/ ControlCall) /\ NoPing
        /\ UNCHANGED <<activeVars, since_told, since_alive, stalled, link>>
     \/ part = "framing" /\ LinkNext /\ UNCHANGED <<activeVars, timing_vars>>

\* Both ends read the same frames out of the same bytes, and damage costs none
\* but its own frame.
FramingIsSafe == part = "framing" => EndsAgree /\ DamageIsConfined
=============================================================================
