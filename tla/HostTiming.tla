---------------------------- MODULE HostTiming ----------------------------
(***************************************************************************)
(* HostConnection with the clocks by which the device's data watchdog and  *)
(* the user judge it.  A host that is not stalled services its output as   *)
(* soon as service() would do something, so no time passes while a poll is *)
(* due; the bounds are claimed of the sessions in which that was so.       *)
(***************************************************************************)
EXTENDS HostConnection

VARIABLES
  since_told,   \* time since the session wrote a gamepad state
  since_alive,  \* time since the device proved to be alive
  stalled       \* time has passed in this session while a poll was due

timing_vars == <<vars, since_told, since_alive, stalled>>

\* The bounds claimed; the clocks stop just above them.
RefreshBound == RefreshTicks + ServiceTicks
SilenceBound == PingTicks + PongTicks + 2 * ServiceTicks

WroteState == \E i \in 1 .. Len(wire') : wire'[i].message.type = "GamepadState"

PollDue == connection # Closed /\ ServiceDue

TimingInit == Init /\ since_told = 0 /\ since_alive = 0 /\ stalled = FALSE

TimedCall ==
  /\ Call
  /\ since_told' = IF WroteState \/ connection' = Closed THEN 0 ELSE since_told
  /\ since_alive' = IF alive' \/ connection' = Closed THEN 0 ELSE since_alive
  /\ stalled' = (stalled /\ connection' # Closed)

TimedAdvance ==
  /\ Advance
  /\ stalled' = (stalled \/ PollDue)
  /\ since_told' = IF stalled' THEN 0 ELSE Older(since_told, RefreshBound + 1)
  /\ since_alive' = IF stalled' THEN 0 ELSE Older(since_alive, SilenceBound + 1)

TimingNext == TimedCall \/ TimedAdvance
TimingSpec == TimingInit /\ [][TimingNext]_timing_vars

-----------------------------------------------------------------------------

\* As long as the engine holds an active state and the session is open, the
\* device hears a state at least every state_refresh_interval plus one service
\* interval, whatever else the polls do: its data watchdog does not expire for
\* a controller that is merely held still.
StateIsRefreshed ==
  connection # Closed /\ asked \notin {Neutral, NoState} /\ ~stalled =>
    since_told <= RefreshBound

\* A session does not outlive its device: one that has answered nothing for a
\* ping interval, a pong timeout and the two polls that act on them is closed.
SilentDeviceIsDropped == connection # Closed /\ ~stalled => since_alive <= SilenceBound

\* The polls keep both of the bridge's deadlines, the device's and their own.
HostIsTimely == StateIsRefreshed /\ SilentDeviceIsDropped
=============================================================================
