---------------------------- MODULE ActiveSession ----------------------------
(***************************************************************************)
(* The supervisor's loop over one controller and one output, run_active of *)
(* crates/bridge/bridge-runtime/src/supervisor/active_session.rs, with the *)
(* BridgeEngine it drives and the mailbox the HID worker fills meanwhile   *)
(* (supervisor/controller/hid_worker.rs).  The loop's stages are in its    *)
(* order: commands, the batch of reports, the output, an automatic         *)
(* shutdown, the controller's timeout; every exit passes the teardown      *)
(* except a failed worker, which parks the output itself.                  *)
(*                                                                         *)
(* Time is counted in iterations that took a full interval: an iteration   *)
(* ends with one unit passed, or none.                                     *)
(***************************************************************************)
EXTENDS BridgeEngine, Sequences, SequencesExt

CONSTANTS
  SlotTimeout,  \* ACTIVE_SLOT_TIMEOUT, in iterations
  Capacity      \* INPUT_MAILBOX_CAPACITY

ASSUME SessionAssumption ==
  /\ SlotTimeout \in Nat /\ SlotTimeout > InputTimeout
  /\ Capacity \in Nat \ {0}

VARIABLES
  engine,        \* the BridgeEngine
  held,          \* the state the output keeps for the game
  mailbox, lost, \* reports the worker published; some were replaced since
  batch,         \* reports the loop has taken and not yet processed
  stage,         \* where the loop is
  silent,        \* time since last_controller_state, saturated
  exit,          \* why the session ends
  released,      \* what the session's end reports
  wanted,        \* ghost: what the reports and commands ask of the output
  reset_failed,  \* ghost: a failed reset was not made up for by a send
  noisy          \* ghost: the last iteration did not look at the input timeout

session == <<engine, held>>
reports == <<mailbox, lost, batch>>
ending == <<exit, released>>
sessionGhosts  == <<wanted, reset_failed, noisy>>
activeVars == <<session, reports, stage, silent, ending, sessionGhosts>>

Stages == {"commands", "reports", "service", "shutdown", "timeout",
           "teardown", "over"}
Exits == {"none", "ack", "source_lost", "output_lost", "automatic", "failed"}
Running == stage \notin {"teardown", "over"}

StartState ==
  /\ engine = NewEngine /\ held = NeutralState
  /\ mailbox = << >> /\ lost = FALSE /\ batch = << >>
  /\ stage = "commands" /\ silent = 0
  /\ exit = "none" /\ released = "none"
  /\ wanted = NeutralState /\ reset_failed = FALSE /\ noisy = FALSE

ActiveInit == StartState

-----------------------------------------------------------------------------
(* The HID worker.                                                         *)

\* A report between others with the same buttons and touches may replace the
\* newest; a full mailbox keeps only the new one.
Publish(report) ==
  /\ Running
  /\ \/ Len(mailbox) < Capacity /\ mailbox' = Append(mailbox, report)
        /\ UNCHANGED lost
     \/ /\ lost' = TRUE
        /\ \/ Len(mailbox) >= 2 /\ mailbox' = Append(Front(mailbox), report)
           \/ Len(mailbox) = Capacity /\ mailbox' = <<report>>
  /\ UNCHANGED <<session, batch, stage, silent, ending, sessionGhosts>>

-----------------------------------------------------------------------------
(* Commands.                                                               *)

\* What a forced neutral that came to o does to the sessionGhosts.
Parks(o) ==
  /\ engine' = o.engine /\ held' = o.held
  /\ wanted' = IF o.result = "neutralized" THEN NeutralState ELSE wanted

\* SetBindingProfile and EnableDesktopBindings: neutralize_before_desktop_work
\* only logs a failure.
NeutralizeBeforeDesktopWork ==
  /\ stage = "commands"
  /\ \E o \in force_neutral(engine, held) :
       Parks(o) /\ reset_failed' = (reset_failed \/ o.result = "output_error")
  /\ UNCHANGED <<reports, stage, silent, ending, noisy>>

\* SetPickerConfig.
SetOutputSuppression ==
  /\ stage = "commands"
  /\ engine' = [engine EXCEPT !.suppressed = ~@]
  /\ UNCHANGED <<held, reports, stage, silent, ending, sessionGhosts>>

\* Stop, a suspension, an output change or Shutdown.
Stop ==
  /\ stage = "commands"
  /\ stage' = "teardown" /\ exit' = "ack"
  /\ UNCHANGED <<session, reports, silent, released, sessionGhosts>>

\* The worker failed: the output is parked and given up at once.
WorkerFails ==
  /\ stage = "commands"
  /\ \E o \in force_neutral(engine, held) : Parks(o)
  /\ stage' = "over" /\ exit' = "failed" /\ released' = "error"
  /\ mailbox' = << >>
  /\ UNCHANGED <<lost, batch, silent, reset_failed, noisy>>

\* The controller went away: what the engine says is ignored, for the
\* teardown tries again.
LoseSource ==
  /\ \E o \in force_neutral(engine, held) : Parks(o)
  /\ stage' = "teardown" /\ exit' = "source_lost"

ControllerDisconnects ==
  /\ stage = "commands"
  /\ LoseSource
  /\ UNCHANGED <<reports, silent, released, reset_failed, noisy>>

\* One status report from the worker's channel goes before the mailbox.
TakeBatch ==
  /\ stage = "commands"
  /\ \E direct \in {<< >>, <<Status>>} : batch' = direct \o mailbox
  /\ mailbox' = << >> /\ stage' = "reports"
  /\ UNCHANGED <<session, lost, silent, ending, sessionGhosts>>

-----------------------------------------------------------------------------
(* Reports.                                                                *)

OutputLost == stage' = "teardown" /\ exit' = "output_lost"

\* Fault: an output error is logged like a report that does not decode.
ProcessReport_ignores_errors ==
  /\ stage = "reports" /\ batch # << >>
  /\ batch' = Tail(batch)
  /\ \E o \in process_report(engine, held, Head(batch)), wheel \in BOOLEAN :
       /\ engine' = [o.engine EXCEPT !.suppressed = IF o.result = "state" THEN wheel ELSE @]
       /\ held' = o.held
       /\ wanted' = CASE o.result = "state" -> Mapped(engine, Head(batch))
                      [] o.result = "neutralized" -> NeutralState
                      [] OTHER -> wanted
       /\ silent' = IF o.result = "state" THEN 0 ELSE silent
       /\ UNCHANGED <<reset_failed, stage, exit>>
  /\ UNCHANGED <<mailbox, lost, released, noisy>>

\* A state report also refreshes what the profile wheel withholds.
ProcessReport ==
  /\ stage = "reports" /\ batch # << >>
  /\ batch' = Tail(batch)
  /\ \E o \in process_report(engine, held, Head(batch)) :
       /\ held' = o.held
       /\ \/ /\ o.result = "output_error"
             /\ engine' = o.engine /\ OutputLost
             /\ UNCHANGED <<silent, wanted, reset_failed>>
          \/ /\ o.result = "state"
             /\ \E wheel \in BOOLEAN : engine' = [o.engine EXCEPT !.suppressed = wheel]
             /\ wanted' = Mapped(engine, Head(batch))
             /\ reset_failed' = (reset_failed /\ engine.last_sent = wanted')
             /\ silent' = 0
             /\ UNCHANGED <<stage, exit>>
          \/ /\ o.result \in {"neutralized", "decode_error", "status"}
             /\ Parks(o)
             /\ reset_failed' = (reset_failed /\ o.result # "neutralized")
             /\ UNCHANGED <<silent, stage, exit>>
  /\ UNCHANGED <<mailbox, lost, released, noisy>>

\* A connection report says the controller left its dongle.
ReportsDisconnect ==
  /\ stage = "reports" /\ batch # << >> /\ Head(batch) = Status
  /\ LoseSource
  /\ batch' = << >>
  /\ UNCHANGED <<mailbox, lost, silent, released, reset_failed, noisy>>

EndOfBatch ==
  /\ stage = "reports" /\ batch = << >>
  /\ stage' = "service"
  /\ UNCHANGED <<session, reports, silent, ending, sessionGhosts>>

-----------------------------------------------------------------------------
(* The output, the automatic shutdown and the controller's timeout.        *)

should_tick_input_timeout == ~lost /\ mailbox = << >>

ServiceOutput ==
  /\ stage = "service"
  /\ noisy' = ~should_tick_input_timeout
  /\ lost' = FALSE
  /\ \E o \in IF should_tick_input_timeout THEN tick(engine, held)
             ELSE service(engine, held) :
       /\ Parks(o)
       /\ IF o.result = "output_error" THEN OutputLost
          ELSE stage' = "shutdown" /\ UNCHANGED exit
       /\ reset_failed' = (reset_failed /\ o.result # "neutralized")
  /\ UNCHANGED <<mailbox, batch, silent, released>>

NoShutdown ==
  /\ stage = "shutdown"
  /\ stage' = "timeout"
  /\ UNCHANGED <<session, reports, silent, ending, sessionGhosts>>

\* Idle timeout or Puck dock: the output is parked before the controller is
\* switched off; if it stays on, the game goes on.
AutomaticShutdown ==
  /\ stage = "shutdown"
  /\ \E o \in force_neutral(engine, held) :
       /\ Parks(o)
       /\ reset_failed' = (reset_failed /\ o.result # "neutralized")
       /\ IF o.result = "output_error" THEN OutputLost /\ UNCHANGED <<mailbox, lost>>
          ELSE /\ mailbox' = << >> /\ lost' = (lost \/ mailbox # << >>)
               /\ \/ stage' = "teardown" /\ exit' = "automatic"
                  \/ stage' = "timeout" /\ UNCHANGED exit
  /\ UNCHANGED <<batch, silent, released, noisy>>

SlotTimesOut ==
  /\ stage = "timeout" /\ silent >= SlotTimeout
  /\ LoseSource
  /\ UNCHANGED <<reports, silent, released, reset_failed, noisy>>

\* The iteration ends; a unit of time passed, or none.
NextIteration ==
  /\ stage = "timeout" /\ silent < SlotTimeout
  /\ stage' = "commands"
  /\ \/ /\ silent' = silent + 1
        /\ engine' = [engine EXCEPT
             !.last_input = IF @ \in {Never, InputTimeout} THEN @ ELSE @ + 1]
     \/ UNCHANGED <<silent, engine>>
  /\ UNCHANGED <<held, reports, ending, sessionGhosts>>

\* Fault: a neutral the output refuses is not reported.
Teardown_ignores_failure ==
  /\ stage = "teardown"
  /\ \E o \in force_neutral(engine, held) : Parks(o)
  /\ released' = "ok" /\ stage' = "over"
  /\ UNCHANGED <<reports, silent, exit, reset_failed, noisy>>

\* The output is parked once more; an exit that still needs the output fails
\* with it, and the worker's or the recording's end may fail as well.
Teardown ==
  /\ stage = "teardown"
  /\ \E o \in force_neutral(engine, held) :
       /\ Parks(o)
       /\ \/ released' = "error"
          \/ /\ exit = "output_lost" \/ o.result = "neutralized"
             /\ released' = "ok"
  /\ stage' = "over"
  /\ UNCHANGED <<reports, silent, exit, reset_failed, noisy>>

\* The supervisor keeps the output of a session that ended well without its
\* controller, and opens another, neutral one after any other.
Kept == released = "ok" /\ exit \in {"source_lost", "automatic"}

StartSession ==
  /\ stage = "over"
  /\ engine' = NewEngine
  /\ held' = IF Kept THEN held ELSE NeutralState
  /\ mailbox' = << >> /\ lost' = FALSE /\ batch' = << >>
  /\ stage' = "commands" /\ silent' = 0
  /\ exit' = "none" /\ released' = "none"
  /\ wanted' = NeutralState /\ reset_failed' = FALSE /\ noisy' = FALSE

ActiveNext ==
  \/ \E report \in GameStates \cup {Malformed} : Publish(report)
  \/ NeutralizeBeforeDesktopWork
  \/ SetOutputSuppression
  \/ Stop
  \/ WorkerFails
  \/ ControllerDisconnects
  \/ TakeBatch
  \/ ProcessReport
  \/ ReportsDisconnect
  \/ EndOfBatch
  \/ ServiceOutput
  \/ NoShutdown
  \/ AutomaticShutdown
  \/ SlotTimesOut
  \/ NextIteration
  \/ Teardown
  \/ StartSession

ActiveSpec == ActiveInit /\ [][ActiveNext]_activeVars

-----------------------------------------------------------------------------
\* The unchanged-output dedupe never leaves the game with an old state: as
\* long as the session runs, the output holds what the last report mapped to,
\* or the neutral that replaced it.  A reset that failed unnoticed is the one
\* exception, until the next state is sent.
GameSeesTheController == Running /\ ~reset_failed => held = wanted

\* A state that is not neutral is always under the input timeout, also after
\* a neutral the output refused: the next tick tries again.
HeldStateIsTimed ==
  Running /\ held # NeutralState =>
    ~engine.neutralized /\ engine.last_input # Never

\* A controller that sends no states is let go of: at the input timeout if
\* nothing else arrives, and at the slot timeout whatever arrives.
SilentControllerIsReleased ==
  stage = "commands" /\ held # NeutralState =>
    silent <= InputTimeout \/ noisy

\* A session that reports success left its output at neutral, unless it ended
\* because the output was lost.
ReleaseMeansNeutral ==
  stage = "over" /\ released = "ok" /\ exit # "output_lost" => held = NeutralState

\* Nothing stays held on the host that the controller does not hold any more:
\* not while a timeout is counting, not past it, and not past the session.
NothingStaysHeld == HeldStateIsTimed /\ SilentControllerIsReleased /\ ReleaseMeansNeutral

\* As session.rs:214 has it, the next report restores the real state after a
\* neutral before desktop work: the dedupe does not skip it.
RestoreIsNotSkipped ==
  [][batch # << >> /\ Head(batch) \in GameStates /\ batch' = Tail(batch)
       /\ stage' = "reports"
       => held' = Mapped(engine, Head(batch))]_activeVars
=============================================================================
