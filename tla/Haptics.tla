------------------------------ MODULE Haptics ------------------------------
(***************************************************************************)
(* What the HID worker keeps beside the controller's reports: the rumble   *)
(* lease (HapticsSupervisor) and the suppression of lizard mode            *)
(* (LizardSupervisor), of                                                  *)
(* crates/bridge/bridge-runtime/src/supervisor/controller/haptics.rs.      *)
(* Each operation gives the set of its outcomes: a HID write may fail, and *)
(* fails when the controller cannot be reached.                            *)
(*                                                                         *)
(* Ages and waits are counted in ticks and saturate where the code only    *)
(* compares them with a limit.                                             *)
(***************************************************************************)
EXTENDS Integers, FiniteSets

CONSTANTS
  Rumbles,  \* active rumble commands
  Still,    \* RumbleCommand::default()
  Nothing,  \* Option::None
  Refresh,  \* RUMBLE_REFRESH_INTERVAL
  Lease,    \* RUMBLE_LEASE_TIMEOUT
  Retry,    \* RUMBLE_RETRY_INTERVAL
  LizardRefresh  \* LIZARD_MODE_REFRESH_INTERVAL

ASSUME HapticsAssumption ==
  /\ Still \notin Rumbles
  /\ Nothing \notin Rumbles \cup {Still} /\ Nothing \notin Nat
  /\ Refresh \in Nat \ {0} /\ Lease \in Nat /\ Retry \in Nat /\ LizardRefresh \in Nat
  /\ Refresh < Lease /\ Lease < Retry

Commands == Rumbles \cup {Still}

Older(age, limit) == IF age = Nothing \/ age = limit THEN age ELSE age + 1

Lower(wait) == IF wait = 0 THEN 0 ELSE wait - 1

-----------------------------------------------------------------------------
(* Rumble: the supervisor together with what the motor was last told.      *)

NewHaptics == [connected |-> FALSE, desired |-> Still, lease |-> Nothing,
               written |-> Nothing, retry |-> 0,
               active |-> FALSE, degraded |-> FALSE]

Told(h, motor) == [haptics |-> h, motor |-> motor]

\* Fault: a failed write leaves the supervisor as it was.
write_forgets_failure(h, motor, command, reaches) ==
  {Told(h, motor)} \cup
  IF reaches
  THEN {Told([h EXCEPT !.written = 0, !.retry = 0, !.active = command # Still,
                       !.degraded = FALSE], command)}
  ELSE {}

write(h, motor, command, reaches) ==
  {Told([h EXCEPT !.retry = Retry, !.active = FALSE, !.degraded = TRUE], motor)} \cup
  IF reaches
  THEN {Told([h EXCEPT !.written = 0, !.retry = 0, !.active = command # Still,
                       !.degraded = FALSE], command)}
  ELSE {}

haptics_connected(h, motor, reaches) ==
  write([h EXCEPT !.connected = TRUE, !.desired = Still, !.lease = Nothing,
                  !.written = Nothing, !.retry = 0], motor, Still, reaches)

\* A new active command waits for the retry; a zero is written at once if it
\* is news or the motor may still run.
command(h, motor, c, reaches) ==
  LET changed == c # h.desired
      asked == [h EXCEPT !.desired = c, !.lease = IF c = Still THEN Nothing ELSE 0]
      due == IF c = Still THEN changed \/ h.active \/ h.degraded
             ELSE changed /\ h.retry = 0
  IN IF due THEN write(asked, motor, c, reaches) ELSE {Told(asked, motor)}

Lapsed(h) == h.desired # Still /\ h.lease = Lease

\* Fault: a lease that ran out is only noticed when nothing was written lately.
haptics_service_late(h, motor, reaches) ==
  IF h.desired = Still THEN {Told(h, motor)}
  ELSE IF Lapsed(h) /\ h.written = Refresh
       THEN write([h EXCEPT !.desired = Still, !.lease = Nothing], motor, Still, reaches)
       ELSE {Told(h, motor)}

haptics_service(h, motor, reaches) ==
  IF h.desired = Still THEN {Told(h, motor)}
  ELSE IF Lapsed(h)
       THEN write([h EXCEPT !.desired = Still, !.lease = Nothing], motor, Still, reaches)
       ELSE IF (IF h.degraded THEN h.retry = 0 ELSE h.written = Refresh)
            THEN write(h, motor, h.desired, reaches)
            ELSE {Told(h, motor)}

haptics_shutdown(h, motor, reaches) ==
  LET parked == [h EXCEPT !.desired = Still, !.lease = Nothing] IN
  IF h.connected
  THEN {Told([o.haptics EXCEPT !.connected = FALSE], o.motor) :
          o \in write(parked, motor, Still, reaches)}
  ELSE {Told(parked, motor)}

haptics_disconnected(h) == NewHaptics

AgeHaptics(h) == [h EXCEPT !.lease = Older(@, Lease), !.written = Older(@, Refresh),
                           !.retry = Lower(@)]

-----------------------------------------------------------------------------
(* Lizard mode: the controller acts as mouse and keyboard unless told not  *)
(* to every few seconds.                                                   *)

NewLizard == [connected |-> FALSE, refreshed |-> Nothing, active |-> FALSE]

refresh_due(l) == l.connected /\ l.refreshed \in {Nothing, LizardRefresh}

lizard_refresh(l, reaches) ==
  {[l EXCEPT !.active = FALSE]} \cup
  IF reaches THEN {[l EXCEPT !.refreshed = 0, !.active = TRUE]} ELSE {}

lizard_connected(reaches) ==
  lizard_refresh([NewLizard EXCEPT !.connected = TRUE], reaches)

lizard_service(l, reaches) == IF refresh_due(l) THEN lizard_refresh(l, reaches) ELSE {l}

AgeLizard(l) == [l EXCEPT !.refreshed = Older(@, LizardRefresh)]
=============================================================================
