------------------------- MODULE AutomaticShutdown -------------------------
(***************************************************************************)
(* When the runtime turns a controller off by itself: the supervisor's     *)
(* AutomaticShutdownRuntime (automatic_shutdown.rs), the session's         *)
(* IdleActivityTracker (idle_shutdown.rs), and the places where commands   *)
(* and run_active drive them.  The supervisor's part outlives sessions; the*)
(* tracker and what a session knows of the battery do not.                 *)
(*                                                                         *)
(* An iteration of the session goes through commands, one status report,   *)
(* the batch of states, and the decision.  Time passes in the wait for the *)
(* next report, in ticks; ages and waits saturate at their limits.         *)
(***************************************************************************)
EXTENDS Integers, FiniteSets

CONSTANTS
  Sources,      \* controller collections
  Pucks,        \* those behind a Puck
  NoTime,       \* Option::None
  IdleTimeout,  \* the idle timeout that can be chosen
  RetryWait,    \* AUTOMATIC_SHUTDOWN_RETRY_INTERVAL
  Freshness     \* BATTERY_STATUS_FRESHNESS

ASSUME ShutdownAssumption ==
  /\ Pucks \subseteq Sources
  /\ RetryWait \in Nat \ {0} /\ Freshness \in Nat
  /\ IdleTimeout \in Nat /\ RetryWait < IdleTimeout
  /\ NoTime \notin Nat

VARIABLES
  policy,   \* config.idle_shutdown_timeout and config.puck_dock_action
  auto,     \* AutomaticShutdownRuntime
  session,  \* the controller in use and the stage of run_active's iteration
  idle,     \* IdleActivityTracker
  charge,   \* latest_charge_state, the age of its report, and the pending trigger
  seen      \* ghost: dock power-offs of this placement; neutral ticks in a row;
            \* ticks since the last attempt, whether a new placement or
            \* session began since, and a bit each attempt flips

autoVars == <<policy, auto, session, idle, charge, seen>>

Timeouts == {NoTime, IdleTimeout}
Charges == {"discharging", "charging", "unknown"}
NoSession == [source |-> NoTime, live |-> FALSE, at |-> "none"]

phase_of(p) == IF p.timeout = NoTime /\ ~p.dock THEN "disabled" ELSE "monitoring"

Grown(age, limit) == IF age = NoTime \/ age = limit THEN age ELSE age + 1

-----------------------------------------------------------------------------
(* IdleActivityTracker                                                     *)

NewTracker(timeout) == [timeout |-> timeout, age |-> NoTime, latest |-> "none"]

\* Fault: a timer that is reset keeps the time it had counted.
idle_reset_keeps(t) == t

idle_reset(t) == [t EXCEPT !.age = IF t.latest = "neutral" THEN 0 ELSE NoTime]

set_timeout(t, timeout) == idle_reset([t EXCEPT !.timeout = timeout])

idle_observe(t, active) ==
  [t EXCEPT !.age = IF active THEN NoTime ELSE IF t.latest # "neutral" THEN 0 ELSE @,
            !.latest = IF active THEN "active" ELSE "neutral"]

deadline_reached(t) == t.timeout # NoTime /\ t.age # NoTime /\ t.age >= t.timeout

-----------------------------------------------------------------------------
(* AutomaticShutdownRuntime                                                *)

clear_dock_episode(a) == [a EXCEPT !.handled = FALSE, !.failed = FALSE]

\* Fault: every selection begins a new dock episode.
source_selected_forgets(a, source) ==
  [clear_dock_episode(a) EXCEPT !.identity = source, !.phase = phase_of(policy),
                                !.trigger = "none", !.retry = 0]

source_selected(a, source) ==
  [(IF a.identity \notin {NoTime, source} THEN clear_dock_episode(a) ELSE a)
     EXCEPT !.identity = source, !.phase = phase_of(policy), !.trigger = "none",
            !.retry = 0, !.failed = FALSE]

observe_charge_state(source, state) ==
  policy.dock /\ source \in Pucks /\ state = "charging" /\ ~auto.handled

\* Fault: activity after a failed attempt lets the next one come at once.
activity_rearms(a) ==
  IF a.trigger = "dock" /\ a.failed /\ ~a.handled THEN [a EXCEPT !.retry = 0] ELSE a

activity_after_failed_dock_attempt(a) ==
  IF a.trigger = "dock" /\ a.failed /\ ~a.handled
  THEN [a EXCEPT !.handled = TRUE, !.retry = 0]
  ELSE a

succeeded(a, trigger) ==
  [a EXCEPT !.phase = "sleeping", !.trigger = trigger, !.retry = 0, !.failed = FALSE,
            !.handled = @ \/ trigger = "dock"]

failed(a, trigger) ==
  [a EXCEPT !.phase = "degraded", !.trigger = trigger, !.retry = RetryWait,
            !.failed = trigger = "dock"]

-----------------------------------------------------------------------------
AutoStart(timeout, dock) ==
  /\ policy = [timeout |-> timeout, dock |-> dock]
  /\ auto = [phase |-> phase_of(policy), trigger |-> "none", retry |-> 0,
             identity |-> NoTime, handled |-> FALSE, failed |-> FALSE]
  /\ session = NoSession
  /\ idle = NewTracker(NoTime)
  /\ charge = [state |-> "none", age |-> NoTime, pending |-> FALSE]
  /\ seen = [offs |-> 0, neutral |-> NoTime, since |-> RetryWait, renewed |-> TRUE,
             tries |-> FALSE]

AutoInit == \E t \in Timeouts, dock \in BOOLEAN : AutoStart(t, dock)

\* A setting is changed by command, in a session or without one.
TakesCommands == session.at \in {"none", "commands"}

SetIdleShutdown(t) ==
  /\ TakesCommands
  /\ policy' = [policy EXCEPT !.timeout = t]
  /\ auto' = [auto EXCEPT !.phase = phase_of(policy')]
  /\ idle' = IF session = NoSession THEN idle ELSE set_timeout(idle, t)
  /\ seen' = IF seen.neutral = NoTime THEN seen ELSE [seen EXCEPT !.neutral = 0]
  /\ UNCHANGED <<session, charge>>

SetPuckDockAction(dock) ==
  /\ TakesCommands
  /\ policy' = [policy EXCEPT !.dock = dock]
  /\ auto' = [(IF dock # policy.dock THEN clear_dock_episode(auto) ELSE auto)
               EXCEPT !.phase = phase_of(policy')]
  /\ seen' = IF dock = policy.dock THEN seen ELSE [seen EXCEPT !.offs = 0, !.renewed = TRUE]
  /\ UNCHANGED <<session, idle, charge>>

StartSession(source, live) ==
  /\ session = NoSession
  /\ session' = [source |-> source, live |-> live, at |-> "commands"]
  /\ auto' = source_selected(auto, source)
  /\ idle' = NewTracker(policy.timeout)
  /\ charge' = [state |-> "none", age |-> NoTime, pending |-> FALSE]
  /\ seen' = [seen EXCEPT !.neutral = NoTime, !.renewed = TRUE,
                          !.offs = IF auto.identity = source THEN @ ELSE 0]
  /\ UNCHANGED policy

\* Any other exit: the tracker is paused with the session.
EndSession ==
  /\ session # NoSession
  /\ session' = NoSession
  /\ idle' = NewTracker(NoTime)
  /\ UNCHANGED <<policy, auto, charge, seen>>

Waits ==
  /\ session.at \in {"none", "commands"}
  /\ session' = IF session = NoSession THEN session ELSE [session EXCEPT !.at = "status"]
  /\ \E passed \in BOOLEAN :
       IF ~passed THEN UNCHANGED <<auto, idle, charge, seen>>
       ELSE /\ auto' = [auto EXCEPT !.retry = IF @ = 0 THEN 0 ELSE @ - 1]
            /\ idle' = [idle EXCEPT !.age = Grown(@, IdleTimeout)]
            /\ charge' = [charge EXCEPT !.age = Grown(@, Freshness + 1)]
            /\ seen' = [seen EXCEPT !.neutral = Grown(@, IdleTimeout),
                                    !.since = Grown(@, RetryWait)]
  /\ UNCHANGED policy

NoStatus ==
  /\ session.at = "status"
  /\ session' = [session EXCEPT !.at = "batch"]
  /\ UNCHANGED <<policy, auto, idle, charge, seen>>

\* A battery report: a change to external power restarts the idle timer, a
\* discharging controller was lifted off the Puck.
BatteryReport(state) ==
  /\ session.at = "status"
  /\ session' = [session EXCEPT !.at = "batch"]
  /\ LET transition == charge.state \notin {"none", "charging"} /\ state = "charging"
     IN /\ idle' = IF transition THEN idle_reset(idle) ELSE idle
        /\ auto' = IF state = "discharging" THEN clear_dock_episode(auto) ELSE auto
        /\ charge' = [state |-> state, age |-> 0,
                      pending |-> observe_charge_state(session.source, state) /\ auto.retry = 0]
        /\ seen' = [seen EXCEPT
             !.neutral = IF transition /\ @ # NoTime THEN 0 ELSE @,
             !.offs = IF state = "discharging" THEN 0 ELSE @,
             !.renewed = @ \/ state = "discharging"]
  /\ UNCHANGED policy

ControllerState(active) ==
  /\ session.at = "batch"
  /\ idle' = idle_observe(idle, active)
  /\ auto' = IF active THEN activity_after_failed_dock_attempt(auto) ELSE auto
  /\ seen' = [seen EXCEPT !.neutral = IF active THEN NoTime ELSE IF @ = NoTime THEN 0 ELSE @]
  /\ UNCHANGED <<policy, session, charge>>

dock_retry_due ==
  /\ auto.trigger = "dock" /\ auto.phase = "degraded" /\ ~auto.handled /\ auto.retry = 0
  /\ session.source \in Pucks
  /\ charge.state = "charging" /\ charge.age # NoTime /\ charge.age <= Freshness

idle_shutdown_due == deadline_reached(idle) /\ idle.latest = "neutral" /\ auto.retry = 0

automatic_trigger ==
  IF charge.pending \/ dock_retry_due THEN "dock"
  ELSE IF idle_shutdown_due THEN "idle" ELSE "none"

Attempt(result) ==
  /\ automatic_trigger # "none" /\ session.live
  /\ charge' = [charge EXCEPT !.pending = FALSE]
  /\ CASE result = "ok" ->
          /\ auto' = succeeded(auto, automatic_trigger)
          /\ session' = NoSession /\ idle' = NewTracker(NoTime)
          /\ seen' = [seen EXCEPT !.since = 0, !.renewed = FALSE, !.tries = ~@,
                        !.offs = IF automatic_trigger = "dock" /\ @ < 2 THEN @ + 1 ELSE @]
       [] result = "failed" ->
          /\ auto' = failed(auto, automatic_trigger)
          /\ session' = [session EXCEPT !.at = "commands"] /\ UNCHANGED idle
          /\ seen' = [seen EXCEPT !.since = 0, !.renewed = FALSE, !.tries = ~@]
       [] result = "output lost" ->
          /\ auto' = [auto EXCEPT !.phase = "powering off", !.trigger = automatic_trigger]
          /\ session' = NoSession /\ idle' = NewTracker(NoTime)
          /\ UNCHANGED seen

\* The trigger is used up whether or not the output allows it.
DecideNot ==
  /\ automatic_trigger = "none" \/ ~session.live
  /\ charge' = [charge EXCEPT !.pending = FALSE]
  /\ session' = [session EXCEPT !.at = "commands"]
  /\ UNCHANGED <<auto, idle, seen>>

Decide ==
  /\ session.at = "batch"
  /\ DecideNot \/ \E r \in {"ok", "failed", "output lost"} : Attempt(r)
  /\ UNCHANGED policy

AutoNext ==
  \/ \E t \in Timeouts : SetIdleShutdown(t)
  \/ \E dock \in BOOLEAN : SetPuckDockAction(dock)
  \/ \E s \in Sources, live \in BOOLEAN : StartSession(s, live)
  \/ EndSession
  \/ Waits
  \/ NoStatus
  \/ \E c \in Charges : BatteryReport(c)
  \/ \E active \in BOOLEAN : ControllerState(active)
  \/ Decide

AutoSpec == AutoInit /\ [][AutoNext]_autoVars

-----------------------------------------------------------------------------
\* BRIDGE.md:165-167: the Puck action fires once per placement, also across
\* sessions and a deliberate wake while still docked, until the controller was
\* seen discharging, another one was used or the action was changed.
OncePerPlacement == seen.offs <= 1

\* No controller is turned off that has not earned it: not twice in a
\* placement; by BRIDGE.md:152-153 attempts are a retry interval apart, unless
\* a new placement or a new session has begun since; and the idle power-off
\* comes only to a controller that was neutral for the whole timeout, counted
\* from the last activity, setting or charging transition.
AttemptIsDue == seen.since = RetryWait \/ seen.renewed
IdleForLong == seen.neutral # NoTime /\ seen.neutral >= IdleTimeout
ShutdownIsEarned ==
  [][OncePerPlacement' /\ (seen'.tries # seen.tries =>
       AttemptIsDue /\ (auto'.trigger = "idle" => IdleForLong))]_autoVars
=============================================================================
