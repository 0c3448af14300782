---------------------------- MODULE BridgeEngine ----------------------------
(***************************************************************************)
(* The pipeline from controller reports to the gamepad output, BridgeEngine *)
(* of crates/bridge/bridge-core/src/lib.rs: it decodes and maps a report,  *)
(* sends what changed and parks the output at neutral when the controller  *)
(* falls silent, cannot be decoded or goes away.                           *)
(*                                                                         *)
(* A method is an operator from the engine's fields and what the output    *)
(* holds to the set of its outcomes, one for each way the output may       *)
(* answer.  A report is the state it maps to, or Malformed or Status.      *)
(***************************************************************************)
EXTENDS Integers

CONSTANTS
  GameStates,             \* mapped gamepad states
  NeutralState,            \* GamepadState::neutral()
  Hidden,             \* a state as an open profile wheel leaves it for the game
  NoGameState,            \* last_sent of a new engine
  Malformed,          \* a report that does not decode
  Status,             \* a report that carries no controller state
  InputTimeout,       \* input_timeout, in iterations of the session's loop
  DecodeFailureLimit  \* decode_failure_limit

ASSUME GameStateAssumption ==
  /\ NeutralState \in GameStates /\ NoGameState \notin GameStates
  /\ Malformed \notin GameStates /\ Status \notin GameStates /\ Malformed # Status
  /\ Hidden \in [GameStates -> GameStates] /\ Hidden[NeutralState] = NeutralState
ASSUME EngineAssumption ==
  InputTimeout \in Nat \ {0} /\ DecodeFailureLimit \in Nat \ {0}

Reports == GameStates \cup {Malformed, Status}
Never == -1

\* last_input is the time since it, Never for None; the failures beyond the
\* limit are not told apart.
Engine == [last_input : Never .. InputTimeout, last_sent : GameStates \cup {NoGameState},
           decode_failures : 0 .. DecodeFailureLimit, neutralized : BOOLEAN,
           suppressed : BOOLEAN]

NewEngine == [last_input |-> Never, last_sent |-> NoGameState, decode_failures |-> 0,
              neutralized |-> TRUE, suppressed |-> FALSE]

\* What GamepadOutput::send_state and send_neutral may do: a backend that
\* fails may have taken the state over for its next session all the same.
Sends(state, held) ==
  {[ok |-> TRUE, held |-> state]} \cup [ok : {FALSE}, held : {held, state}]

Outcome(engine, held, result) ==
  [engine |-> engine, held |-> held, result |-> result]

\* Fault: the engine counts as neutralized before the output accepted it.
force_neutral_optimistic(engine, held) ==
  {LET parked == [engine EXCEPT !.last_sent = NeutralState, !.last_input = Never,
                                !.neutralized = TRUE]
   IN  IF send.ok THEN Outcome(parked, send.held, "neutralized")
       ELSE Outcome(parked, send.held, "output_error") : send \in Sends(NeutralState, held)}

force_neutral(engine, held) ==
  {IF send.ok
   THEN Outcome([engine EXCEPT !.last_sent = NeutralState, !.last_input = Never,
                               !.neutralized = TRUE],
                send.held, "neutralized")
   ELSE Outcome(engine, send.held, "output_error") : send \in Sends(NeutralState, held)}

Mapped(engine, state) == IF engine.suppressed THEN Hidden[state] ELSE state

process_malformed(engine, held) ==
  LET failures == engine.decode_failures + 1
  IN  IF failures >= DecodeFailureLimit
      THEN force_neutral([engine EXCEPT !.decode_failures = DecodeFailureLimit], held)
      ELSE {Outcome([engine EXCEPT !.decode_failures = failures], held,
                    "decode_error")}

process_state(engine, held, state) ==
  LET seen == [engine EXCEPT !.decode_failures = 0, !.last_input = 0,
                             !.neutralized = FALSE]
      mapped == Mapped(engine, state)
  IN  IF engine.last_sent = mapped THEN {Outcome(seen, held, "state")}
      ELSE {IF send.ok
            THEN Outcome([seen EXCEPT !.last_sent = mapped], send.held, "state")
            ELSE Outcome(seen, send.held, "output_error")
              : send \in Sends(mapped, held)}

\* Fault: a report that carries no state counts as input all the same.
process_report_any_is_input(engine, held, report) ==
  LET heard == [engine EXCEPT !.last_input = IF @ = Never THEN @ ELSE 0]
  IN  IF report = Malformed THEN process_malformed(heard, held)
      ELSE IF report = Status
      THEN {Outcome([heard EXCEPT !.decode_failures = 0], held, "status")}
      ELSE process_state(engine, held, report)

process_report(engine, held, report) ==
  IF report = Malformed THEN process_malformed(engine, held)
  ELSE IF report = Status
  THEN {Outcome([engine EXCEPT !.decode_failures = 0], held, "status")}
  ELSE process_state(engine, held, report)

\* output.service() first: when it fails, the deadline is not looked at.
tick(engine, held) ==
  {Outcome(engine, held, "output_error")} \cup
  IF ~engine.neutralized /\ engine.last_input = InputTimeout
  THEN force_neutral(engine, held)
  ELSE {Outcome(engine, held, "no_change")}

service(engine, held) ==
  [engine : {engine}, held : {held}, result : {"output_error", "no_change"}]
=============================================================================
