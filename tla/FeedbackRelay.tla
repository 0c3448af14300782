--------------------------- MODULE FeedbackRelay ---------------------------
(***************************************************************************)
(* A game's rumble on its way from the output to the controller: the       *)
(* output's feedback queue, the OutputFeedbackRelay that run_active drains *)
(* it with (supervisor/controller/session.rs), the slot the HID worker     *)
(* takes the newest command from, and the worker's rumble lease.  A        *)
(* stateful output (the virtual gamepad) reports a level once, a leased    *)
(* one (the bridge device) repeats it; the lease is renewed for the first. *)
(*                                                                         *)
(* Time is counted in rounds: in each one the session's loop and, with a   *)
(* controller, the worker's loop run at least once.                        *)
(***************************************************************************)
EXTENDS Haptics

CONSTANTS Renew  \* OUTPUT_FEEDBACK_RENEW_INTERVAL

ASSUME RelayAssumption == Renew \in Nat \ {0} /\ Renew < Lease

VARIABLES
  game,      \* ghost: the level the game asked for last, rounds since then
  produced,    \* feedback the output has not handed over, or Nothing
  relay,     \* OutputFeedbackRelay
  active,    \* the session has a controller
  latest,    \* LatestRumbleSlot
  rumble,    \* the worker's supervisor and the motor
  ran        \* who ran in this round

relayVars == <<game, produced, relay, active, latest, rumble, ran>>

Settled == Lease + 3  \* bound: rounds counted

NewRelay(semantics) ==
  [stateful |-> semantics, rumble |-> Nothing, changed |-> FALSE, due |-> 0]

RelayInit ==
  /\ game = [level |-> Still, since |-> Settled]
  /\ produced = Nothing
  /\ relay \in {NewRelay(TRUE), NewRelay(FALSE)}
  /\ active = FALSE /\ latest = Nothing
  /\ rumble = Told(NewHaptics, Still)
  /\ ran = {}

observe(r, feedback) ==
  IF feedback = Nothing THEN r ELSE [r EXCEPT !.rumble = feedback, !.changed = TRUE]

wait_without_consumer(r) ==
  IF r.stateful THEN r ELSE [r EXCEPT !.rumble = Nothing, !.changed = FALSE]

activate(r) ==
  IF r.stateful THEN [r EXCEPT !.due = 0, !.changed = r.rumble # Nothing]
  ELSE [r EXCEPT !.due = 0, !.rumble = Nothing, !.changed = FALSE]

\* Fault: a level that the output reports once is sent once.
CommandDue_once(r) == r.rumble # Nothing /\ r.changed

CommandDue(r) ==
  r.rumble # Nothing /\ (r.changed \/ (r.rumble # Still /\ r.due = 0))

after_command(r) ==
  [r EXCEPT !.changed = FALSE, !.due = Renew,
            !.rumble = IF r.stateful THEN @ ELSE Nothing]

-----------------------------------------------------------------------------
\* The game changes the level, and a leased output repeats one that is on.
GameAsks(c) ==
  /\ c # game.level \/ (~relay.stateful /\ c # Still)
  /\ game' = [level |-> c, since |-> 0]
  /\ produced' = c
  /\ UNCHANGED <<relay, active, latest, rumble, ran>>

SessionRuns ==
  /\ ran' = ran \cup {"session"} /\ produced' = Nothing
  /\ LET drained == observe(relay, produced)
     IN IF ~active THEN relay' = wait_without_consumer(drained) /\ UNCHANGED latest
        ELSE IF CommandDue(drained)
             THEN relay' = after_command(drained) /\ latest' = drained.rumble
             ELSE relay' = drained /\ UNCHANGED latest
  /\ UNCHANGED <<game, active, rumble>>

HidWorkerRuns ==
  /\ active /\ ran' = ran \cup {"worker"} /\ latest' = Nothing
  /\ \E o \in IF latest = Nothing THEN {rumble}
              ELSE command(rumble.haptics, rumble.motor, latest, TRUE) :
       rumble' \in haptics_service(o.haptics, o.motor, TRUE)
  /\ UNCHANGED <<game, produced, relay, active>>

\* A controller is selected: the worker's first act is a zero.
Activate ==
  /\ ~active /\ active' = TRUE
  /\ relay' = activate(relay) /\ latest' = Nothing
  /\ rumble' \in haptics_connected(rumble.haptics, rumble.motor, TRUE)
  /\ game' = [game EXCEPT !.since = 0] /\ ran' = {}
  /\ UNCHANGED produced

\* The session ends; the worker's last act is a zero.
Deactivate ==
  /\ active /\ active' = FALSE
  /\ rumble' \in haptics_shutdown(rumble.haptics, rumble.motor, TRUE)
  /\ latest' = Nothing /\ ran' = {}
  /\ UNCHANGED <<game, produced, relay>>

RoundEnds ==
  /\ ran = IF active THEN {"session", "worker"} ELSE {"session"}
  /\ ran' = {}
  /\ game' = [game EXCEPT !.since = IF @ = Settled THEN @ ELSE @ + 1]
  /\ relay' = [relay EXCEPT !.due = Lower(@)]
  /\ rumble' = [rumble EXCEPT !.haptics = AgeHaptics(@)]
  /\ UNCHANGED <<produced, active, latest>>

RelayNext ==
  \/ \E c \in Commands : GameAsks(c)
  \/ SessionRuns
  \/ HidWorkerRuns
  \/ Activate
  \/ Deactivate
  \/ RoundEnds

RelaySpec == RelayInit /\ [][RelayNext]_relayVars

-----------------------------------------------------------------------------
\* What a game asks of a stateful output is what the controller does three
\* rounds later, and stays so: the renewals keep the lease alive, a level
\* asked for before the controller came is taken up, and nothing older
\* overtakes it.  Only a write that failed is an exception.
ControllerFollowsGame ==
  relay.stateful /\ active /\ game.since >= 3 /\ ~rumble.haptics.degraded =>
    rumble.motor = game.level

\* A leased output that falls silent stops the motor by itself.
SilenceStopsMotor ==
  ~relay.stateful /\ game.since = Settled /\ ~rumble.haptics.degraded =>
    rumble.motor = Still

\* The controller rumbles as the game last asked, and only as long as it asks:
\* both kinds of output come to that through the same relay and lease.
RumbleReachesController == ControllerFollowsGame /\ SilenceStopsMotor
=============================================================================
