-------------------------- MODULE Runtime_proofs ---------------------------
(*****************************************************************************)
(* What TLAPS proves of four parts of a session on the host: of the          *)
(* automatic shutdown, that every attempt to power the controller off is     *)
(* earned; of the controller discovery, that a lone controller is found in   *)
(* time; of the virtual gamepad, that its client and its helper keep their   *)
(* protocol; of the supervisor, that it obeys the owners of its hardware.    *)
(*                                                                           *)
(* Automatic shutdown, for any timeouts and any retry delay. A power-off is  *)
(* earned by a placement that was not acted on before or by a controller     *)
(* seen neutral for as long as the user's setting says, and the attempts     *)
(* are spaced. The action property rests on ShutdownInv. A placement whose   *)
(* power-off was sent is remembered as handled (PlacementIsRemembered).      *)
(* What the retry timer still counts down has not passed since the last      *)
(* attempt, or activity renewed the wait, or the placement is handled and    *)
(* the idle timer began after that attempt (AttemptsAreSpaced). The idle     *)
(* timer is never ahead of the time the controller was seen neutral          *)
(* (IdleIsSeen).                                                             *)
(*                                                                           *)
(* Discovery, for any set of controllers, scan interval and buffer. The      *)
(* invariant DiscoveryInv says why a lone awake controller is about to be    *)
(* chosen: until it is a candidate the next scan is no further away than     *)
(* what is left of the bound (ComesUp), and each pass reads a report of      *)
(* what the others' sessions had buffered (OthersDrain). So the wait is      *)
(* bounded by the longest scan interval or by the buffer, whichever is       *)
(* longer, which is more than the property asks.                             *)
(*                                                                           *)
(* Virtual gamepad, for any states, queue capacities and number of requests  *)
(* and events. KeptInv follows one request at a time: it is queued, or on    *)
(* its way to the helper whose expected number is the worker's (Unserved),   *)
(* or applied with its one acknowledgement on the way back (Served); what    *)
(* the pipe holds is in order and belongs to that request (Line). What       *)
(* somebody waits for is alone in the queue (Called), and after an           *)
(* acknowledged neutral nothing pressed is queued, on its way or applied     *)
(* (Quiet).                                                                  *)
(*                                                                           *)
(* Supervisor, for every set of outputs and of requests that wait, however   *)
(* many commands are queued. An owner is told that hardware is released only *)
(* while it still wants it closed, so who was told says something about the  *)
(* suspensions, and those say in which phases the loop can be. That is what  *)
(* IInv adds to the three properties.                                        *)
(*****************************************************************************)
EXTENDS AutomaticShutdown, ControllerDiscovery, VirtualHid, Supervisor, FiniteSetTheorems,
        SequenceTheorems, TLAPS

-----------------------------------------------------------------------------
(* AutomaticShutdown.                                                      *)

AutoPhases == {"disabled", "monitoring", "sleeping", "degraded", "powering off"}
Triggers == {"none", "dock", "idle"}
Policies == [timeout : Timeouts, dock : BOOLEAN]
Autos == [phase : AutoPhases, trigger : Triggers, retry : 0 .. RetryWait,
          identity : Sources \cup {NoTime}, handled : BOOLEAN, failed : BOOLEAN]
Sittings == [source : Sources \cup {NoTime}, live : BOOLEAN,
             at : {"none", "commands", "status", "batch"}]
Trackers == [timeout : Timeouts, age : 0 .. IdleTimeout \cup {NoTime},
             latest : {"none", "active", "neutral"}]
ChargeStates == [state : Charges \cup {"none"}, age : 0 .. Freshness + 1 \cup {NoTime}, pending : BOOLEAN]
Histories == [offs : 0 .. 2, neutral : 0 .. IdleTimeout \cup {NoTime}, since : 0 .. RetryWait,
              renewed : BOOLEAN, tries : BOOLEAN]

AutoTyped ==
  /\ policy \in Policies /\ auto \in Autos /\ session \in Sittings /\ idle \in Trackers
  /\ charge \in ChargeStates /\ seen \in Histories
  /\ session.at = "none" => session = NoSession

\* A power-off by the dock is remembered as handled, and none is pending then.
PlacementIsRemembered ==
  /\ seen.offs \in {0, 1} /\ (seen.offs = 1 => auto.handled)
  /\ charge.pending => seen.offs = 0

\* What the retry timer counts down has passed since the last attempt; activity
\* that takes the wait away also takes the dock's trigger away, and the idle
\* timer starts after it.
AttemptsAreSpaced ==
  /\ charge.pending => auto.retry = 0
  /\ session # NoSession =>
       \/ seen.renewed
       \/ seen.since + auto.retry >= RetryWait
       \/ auto.handled /\ ~charge.pending /\ (idle.age = NoTime \/ idle.age <= seen.since)

\* The idle timer runs in a session, and never ahead of the time the
\* controller was seen neutral.
IdleIsSeen ==
  /\ session = NoSession => idle.age = NoTime /\ idle.latest = "none"
  /\ idle.latest # "neutral" => idle.age = NoTime
  /\ idle.latest = "neutral" => seen.neutral # NoTime
  /\ idle.age # NoTime => seen.neutral # NoTime /\ idle.age <= seen.neutral

ShutdownInv == AutoTyped /\ PlacementIsRemembered /\ AttemptsAreSpaced /\ IdleIsSeen

LEMMA LimitsAreNumbers ==
  /\ RetryWait \in Nat /\ RetryWait > 0 /\ Freshness \in Nat /\ IdleTimeout \in Nat
  /\ RetryWait < IdleTimeout /\ NoTime \notin Nat
  BY ShutdownAssumption

LEMMA PhaseIsKnown == ASSUME NEW p PROVE phase_of(p) \in AutoPhases
  BY DEF phase_of, AutoPhases

LEMMA ClearedEpisode ==
  ASSUME NEW a \in Autos
  PROVE  /\ clear_dock_episode(a) \in Autos
         /\ clear_dock_episode(a).retry = a.retry /\ clear_dock_episode(a).identity = a.identity
         /\ ~clear_dock_episode(a).handled
  BY DEF clear_dock_episode, Autos

\* A new selection keeps what was handled for the same controller only.
LEMMA SelectedSource ==
  ASSUME NEW a \in Autos, NEW source \in Sources
  PROVE  /\ source_selected(a, source) \in Autos /\ source_selected(a, source).retry = 0
         /\ a.identity = source => source_selected(a, source).handled = a.handled
<1> DEFINE kept == IF a.identity \notin {NoTime, source} THEN clear_dock_episode(a) ELSE a
           known == phase_of(policy)
<1>1. kept \in Autos /\ (a.identity = source => kept = a) /\ known \in AutoPhases
  BY ClearedEpisode, PhaseIsKnown
<1>2. source_selected(a, source)
        = [kept EXCEPT !.identity = source, !.phase = known, !.trigger = "none", !.retry = 0, !.failed = FALSE]
  BY DEF source_selected
<1>3. 0 \in 0 .. RetryWait /\ "none" \in Triggers
  BY LimitsAreNumbers DEF Triggers
<1> HIDE DEF kept, known
<1> QED
  BY <1>1, <1>2, <1>3 DEF Autos

LEMMA GrownAge ==
  ASSUME NEW limit \in Nat, NEW age \in 0 .. limit \cup {NoTime}
  PROVE  /\ Grown(age, limit) \in 0 .. limit \cup {NoTime}
         /\ Grown(age, limit) = NoTime <=> age = NoTime
         /\ age # NoTime => Grown(age, limit) = IF age = limit THEN limit ELSE age + 1
  BY LimitsAreNumbers DEF Grown

\* A reset starts the idle timer anew if the controller is neutral.
LEMMA ResetTracker ==
  ASSUME NEW t \in Trackers
  PROVE  /\ idle_reset(t) \in Trackers /\ idle_reset(t).latest = t.latest /\ idle_reset(t).timeout = t.timeout
         /\ idle_reset(t).age = IF t.latest = "neutral" THEN 0 ELSE NoTime
  BY LimitsAreNumbers DEF idle_reset, Trackers

LEMMA FreshTracker ==
  ASSUME NEW timeout \in Timeouts
  PROVE  /\ NewTracker(timeout) \in Trackers
         /\ NewTracker(timeout).age = NoTime /\ NewTracker(timeout).latest = "none"
  BY DEF NewTracker, Trackers

LEMMA ObservedTracker ==
  ASSUME NEW t \in Trackers, NEW active \in BOOLEAN
  PROVE  /\ idle_observe(t, active) \in Trackers
         /\ idle_observe(t, active).latest = IF active THEN "active" ELSE "neutral"
         /\ idle_observe(t, active).age = IF active THEN NoTime ELSE IF t.latest # "neutral" THEN 0 ELSE t.age
<1> DEFINE age == IF active THEN NoTime ELSE IF t.latest # "neutral" THEN 0 ELSE t.age
           latest == IF active THEN "active" ELSE "neutral"
<1>1. age \in 0 .. IdleTimeout \cup {NoTime} /\ latest \in {"none", "active", "neutral"}
  BY LimitsAreNumbers DEF Trackers
<1>2. idle_observe(t, active) = [t EXCEPT !.age = age, !.latest = latest]
  BY DEF idle_observe
<1> HIDE DEF age, latest
<1>3. /\ idle_observe(t, active) \in Trackers
      /\ idle_observe(t, active).latest = latest /\ idle_observe(t, active).age = age
  BY <1>1, <1>2 DEF Trackers
<1> QED
  BY <1>3 DEF age, latest

LEMMA NoSessionFacts == NoSession \in Sittings /\ NoSession.at = "none"
<1>1. NoTime \in Sources \cup {NoTime} /\ FALSE \in BOOLEAN /\ "none" \in {"none", "commands", "status", "batch"}
  OBVIOUS
<1>2. NoSession \in Sittings
  BY <1>1, Zenon DEF NoSession, Sittings
<1>3. NoSession.at = "none"
  BY Zenon DEF NoSession
<1> QED
  BY <1>2, <1>3

LEMMA ShutdownStarts == AutoInit => ShutdownInv
<1> SUFFICES ASSUME NEW t \in Timeouts, NEW dock \in BOOLEAN, AutoStart(t, dock) PROVE ShutdownInv
  BY DEF AutoInit
<1>1. policy \in Policies
  BY Zenon DEF AutoStart, Policies
<1>2. /\ phase_of(policy) \in AutoPhases /\ "none" \in Triggers /\ 0 \in 0 .. RetryWait /\ RetryWait \in 0 .. RetryWait
      /\ NoTime \in Sources \cup {NoTime} /\ NoTime \in 0 .. Freshness + 1 \cup {NoTime}
      /\ NoTime \in 0 .. IdleTimeout \cup {NoTime} /\ "none" \in Charges \cup {"none"}
      /\ FALSE \in BOOLEAN /\ TRUE \in BOOLEAN /\ 0 \in 0 .. 2 /\ NoTime \in Timeouts
  BY LimitsAreNumbers, PhaseIsKnown DEF Triggers, Timeouts
<1>3. auto \in Autos /\ auto.retry = 0
  BY <1>2, Zenon DEF AutoStart, Autos
<1>4. charge \in ChargeStates /\ ~charge.pending
  BY <1>2, Zenon DEF AutoStart, ChargeStates
<1>5. seen \in Histories /\ seen.offs = 0
  BY <1>2, Zenon DEF AutoStart, Histories
<1>6. session = NoSession /\ idle \in Trackers /\ idle.age = NoTime /\ idle.latest = "none"
  BY <1>2, FreshTracker DEF AutoStart
<1> QED
  BY <1>1, <1>3, <1>4, <1>5, <1>6, NoSessionFacts
  DEF ShutdownInv, AutoTyped, PlacementIsRemembered, AttemptsAreSpaced, IdleIsSeen

LEMMA IdleSettingKeeps ==
  ASSUME ShutdownInv, NEW t \in Timeouts, SetIdleShutdown(t)
  PROVE  ShutdownInv' /\ seen'.tries = seen.tries
<1>1. /\ AutoTyped /\ PlacementIsRemembered /\ AttemptsAreSpaced /\ IdleIsSeen
      /\ UNCHANGED <<session, charge>>
  BY DEF ShutdownInv, SetIdleShutdown
<1>2. policy' \in Policies /\ phase_of(policy') \in AutoPhases
  BY <1>1, PhaseIsKnown DEF SetIdleShutdown, AutoTyped, Policies
<1>3. /\ auto' \in Autos /\ auto'.retry = auto.retry /\ auto'.handled = auto.handled
  BY <1>1, <1>2 DEF SetIdleShutdown, AutoTyped, Autos
<1>4. /\ seen' \in Histories /\ seen'.tries = seen.tries /\ seen'.offs = seen.offs
      /\ seen'.since = seen.since /\ seen'.renewed = seen.renewed
      /\ seen'.neutral = IF seen.neutral = NoTime THEN NoTime ELSE 0
  BY <1>1, LimitsAreNumbers DEF SetIdleShutdown, AutoTyped, Histories
<1>5. session = NoSession => idle' = idle
  BY DEF SetIdleShutdown
<1>6. ASSUME session # NoSession
      PROVE  idle' \in Trackers /\ idle'.latest = idle.latest
             /\ idle'.age = IF idle.latest = "neutral" THEN 0 ELSE NoTime
  <2> DEFINE retimed == [idle EXCEPT !.timeout = t]
  <2>1. retimed \in Trackers /\ retimed.latest = idle.latest
    BY <1>1 DEF AutoTyped, Trackers
  <2>2. idle' = idle_reset(retimed)
    BY <1>6 DEF SetIdleShutdown, set_timeout
  <2> QED
    BY <2>1, <2>2, ResetTracker
<1>7. AutoTyped'
  BY <1>1, <1>2, <1>3, <1>4, <1>5, <1>6 DEF AutoTyped
<1>8. PlacementIsRemembered'
  BY <1>1, <1>3, <1>4 DEF PlacementIsRemembered
<1>9. AttemptsAreSpaced'
  BY <1>1, <1>3, <1>4, <1>5, <1>6, LimitsAreNumbers DEF AttemptsAreSpaced, AutoTyped, Histories
<1>10. IdleIsSeen'
  BY <1>1, <1>4, <1>5, <1>6, LimitsAreNumbers DEF IdleIsSeen, AutoTyped, Histories, Trackers
<1> QED
  BY <1>4, <1>7, <1>8, <1>9, <1>10 DEF ShutdownInv

LEMMA DockSettingKeeps ==
  ASSUME ShutdownInv, NEW dock \in BOOLEAN, SetPuckDockAction(dock)
  PROVE  ShutdownInv' /\ seen'.tries = seen.tries
<1>1. /\ AutoTyped /\ PlacementIsRemembered /\ AttemptsAreSpaced /\ IdleIsSeen
      /\ UNCHANGED <<session, idle, charge>>
  BY DEF ShutdownInv, SetPuckDockAction
<1>2. policy' \in Policies /\ phase_of(policy') \in AutoPhases
  BY <1>1, PhaseIsKnown DEF SetPuckDockAction, AutoTyped, Policies
<1>3. /\ auto' \in Autos /\ auto'.retry = auto.retry
      /\ dock = policy.dock => auto'.handled = auto.handled
  <2> DEFINE kept == IF dock # policy.dock THEN clear_dock_episode(auto) ELSE auto
  <2>1. kept \in Autos /\ kept.retry = auto.retry /\ (dock = policy.dock => kept = auto)
    BY <1>1, ClearedEpisode DEF AutoTyped
  <2>2. auto' = [kept EXCEPT !.phase = phase_of(policy')]
    BY DEF SetPuckDockAction
  <2> HIDE DEF kept
  <2> QED
    BY <1>2, <2>1, <2>2 DEF Autos
<1>4. /\ seen' \in Histories /\ seen'.tries = seen.tries /\ seen'.since = seen.since
      /\ seen'.neutral = seen.neutral
      /\ dock = policy.dock => seen' = seen
      /\ dock # policy.dock => seen'.offs = 0 /\ seen'.renewed
  <2>1. CASE seen' = seen /\ dock = policy.dock
    BY <1>1, <2>1 DEF AutoTyped
  <2>2. CASE seen' = [seen EXCEPT !.offs = 0, !.renewed = TRUE] /\ dock # policy.dock
    <3>1. 0 \in 0 .. 2 /\ TRUE \in BOOLEAN
      OBVIOUS
    <3>2. seen' \in Histories
      BY <1>1, <2>2, <3>1, Zenon DEF AutoTyped, Histories
    <3>3. /\ seen'.tries = seen.tries /\ seen'.since = seen.since
          /\ seen'.neutral = seen.neutral /\ seen'.offs = 0
      BY <1>1, <2>2 DEF AutoTyped, Histories
    <3>4. seen'.renewed
      BY <1>1, <2>2 DEF AutoTyped, Histories
    <3> QED
      BY <2>2, <3>2, <3>3, <3>4
  <2> QED
    BY <2>1, <2>2 DEF SetPuckDockAction
<1>7. AutoTyped'
  BY <1>1, <1>2, <1>3, <1>4 DEF AutoTyped
<1>8. PlacementIsRemembered'
  BY <1>1, <1>3, <1>4 DEF PlacementIsRemembered
<1>9. AttemptsAreSpaced'
  BY <1>1, <1>3, <1>4 DEF AttemptsAreSpaced
<1>10. IdleIsSeen'
  BY <1>1, <1>4 DEF IdleIsSeen
<1> QED
  BY <1>4, <1>7, <1>8, <1>9, <1>10 DEF ShutdownInv

LEMMA SelectionKeeps ==
  ASSUME ShutdownInv, NEW source \in Sources, NEW live \in BOOLEAN, StartSession(source, live)
  PROVE  ShutdownInv' /\ seen'.tries = seen.tries
<1>1. /\ AutoTyped /\ PlacementIsRemembered /\ UNCHANGED policy
  BY DEF ShutdownInv, StartSession
<1>2. /\ auto' \in Autos /\ auto'.retry = 0
      /\ auto.identity = source => auto'.handled = auto.handled
  BY <1>1, SelectedSource DEF StartSession, AutoTyped
<1>3. idle' \in Trackers /\ idle'.age = NoTime /\ idle'.latest = "none"
  BY <1>1, FreshTracker DEF StartSession, AutoTyped, Policies
<1>4. charge' \in ChargeStates /\ ~charge'.pending
  <2>1. "none" \in Charges \cup {"none"} /\ NoTime \in 0 .. Freshness + 1 \cup {NoTime} /\ FALSE \in BOOLEAN
    OBVIOUS
  <2> QED
    BY <2>1, Zenon DEF StartSession, ChargeStates
<1>5. session' \in Sittings /\ session'.at # "none"
  <2>1. source \in Sources \cup {NoTime} /\ "commands" \in {"none", "commands", "status", "batch"}
    OBVIOUS
  <2>2. session' \in Sittings
    BY <2>1, Zenon DEF StartSession, Sittings
  <2>3. session'.at = "commands"
    BY Zenon DEF StartSession
  <2> QED
    BY <2>2, <2>3
<1>6. /\ seen' \in Histories /\ seen'.tries = seen.tries /\ seen'.renewed
      /\ seen'.offs = IF auto.identity = source THEN seen.offs ELSE 0
  <2> DEFINE offs == IF auto.identity = source THEN seen.offs ELSE 0
  <2>1. seen' = [seen EXCEPT !.neutral = NoTime, !.renewed = TRUE, !.offs = offs]
    BY DEF StartSession
  <2>2. offs \in 0 .. 2
    BY <1>1 DEF AutoTyped, Histories
  <2> HIDE DEF offs
  <2>3. seen' \in Histories /\ seen'.tries = seen.tries /\ seen'.renewed /\ seen'.offs = offs
    BY <1>1, <2>1, <2>2 DEF AutoTyped, Histories
  <2> QED
    BY <2>3 DEF offs
<1>7. AutoTyped'
  BY <1>1, <1>2, <1>3, <1>4, <1>5, <1>6 DEF AutoTyped
<1>8. PlacementIsRemembered'
  BY <1>1, <1>2, <1>4, <1>6 DEF PlacementIsRemembered
<1>9. AttemptsAreSpaced'
  BY <1>4, <1>6 DEF AttemptsAreSpaced
<1>10. IdleIsSeen'
  BY <1>3 DEF IdleIsSeen
<1> QED
  BY <1>6, <1>7, <1>8, <1>9, <1>10 DEF ShutdownInv

LEMMA EndKeeps ==
  ASSUME ShutdownInv, EndSession
  PROVE  ShutdownInv' /\ seen'.tries = seen.tries
<1>1. /\ AutoTyped /\ PlacementIsRemembered /\ AttemptsAreSpaced
      /\ session' = NoSession /\ idle' = NewTracker(NoTime) /\ UNCHANGED <<policy, auto, charge, seen>>
  BY DEF ShutdownInv, EndSession
<1>2. NoTime \in Timeouts
  BY DEF Timeouts
<1>3. idle' \in Trackers /\ idle'.age = NoTime /\ idle'.latest = "none"
  BY <1>1, <1>2, FreshTracker
<1> QED
  BY <1>1, <1>3, NoSessionFacts
  DEF ShutdownInv, AutoTyped, PlacementIsRemembered, AttemptsAreSpaced, IdleIsSeen

LEMMA WaitKeeps ==
  ASSUME ShutdownInv, Waits
  PROVE  ShutdownInv' /\ seen'.tries = seen.tries
<1>1. AutoTyped /\ PlacementIsRemembered /\ AttemptsAreSpaced /\ IdleIsSeen /\ UNCHANGED policy
  BY DEF ShutdownInv, Waits
<1>2. /\ session' \in Sittings
      /\ session'.at = "none" => session' = NoSession
      /\ session' = NoSession <=> session = NoSession
  <2>1. CASE session' = session
    BY <1>1, <2>1 DEF AutoTyped
  <2>2. CASE session # NoSession /\ session' = [session EXCEPT !.at = "status"]
    <3>1. session' \in Sittings /\ session'.at = "status"
      BY <1>1, <2>2 DEF AutoTyped, Sittings
    <3> QED
      BY <2>2, <3>1, NoSessionFacts
  <2> QED
    BY <2>1, <2>2 DEF Waits
<1>3. CASE UNCHANGED <<auto, idle, charge, seen>>
  BY <1>1, <1>2, <1>3
  DEF ShutdownInv, AutoTyped, PlacementIsRemembered, AttemptsAreSpaced, IdleIsSeen
<1>4. CASE /\ auto' = [auto EXCEPT !.retry = IF @ = 0 THEN 0 ELSE @ - 1]
           /\ idle' = [idle EXCEPT !.age = Grown(@, IdleTimeout)]
           /\ charge' = [charge EXCEPT !.age = Grown(@, Freshness + 1)]
           /\ seen' = [seen EXCEPT !.neutral = Grown(@, IdleTimeout), !.since = Grown(@, RetryWait)]
  <2> DEFINE retry == IF auto.retry = 0 THEN 0 ELSE auto.retry - 1
             age == Grown(idle.age, IdleTimeout)
             report == Grown(charge.age, Freshness + 1)
             neutral == Grown(seen.neutral, IdleTimeout)
             since == Grown(seen.since, RetryWait)
  <2>1. /\ auto.retry \in 0 .. RetryWait /\ idle.age \in 0 .. IdleTimeout \cup {NoTime}
        /\ charge.age \in 0 .. Freshness + 1 \cup {NoTime}
        /\ seen.neutral \in 0 .. IdleTimeout \cup {NoTime} /\ seen.since \in 0 .. RetryWait
    BY <1>1 DEF AutoTyped, Autos, Trackers, ChargeStates, Histories
  <2>2. retry \in 0 .. RetryWait /\ (auto.retry = 0 => retry = 0) /\ retry + 1 >= auto.retry
    BY <2>1, LimitsAreNumbers
  <2>3. /\ age \in 0 .. IdleTimeout \cup {NoTime} /\ (age = NoTime <=> idle.age = NoTime)
        /\ age # NoTime => age = IF idle.age = IdleTimeout THEN IdleTimeout ELSE idle.age + 1
    BY <2>1, GrownAge, LimitsAreNumbers
  <2>4. report \in 0 .. Freshness + 1 \cup {NoTime}
    <3>1. Freshness + 1 \in Nat
      BY LimitsAreNumbers
    <3> QED
      BY <2>1, <3>1, GrownAge
  <2>5. /\ neutral \in 0 .. IdleTimeout \cup {NoTime} /\ (neutral = NoTime <=> seen.neutral = NoTime)
        /\ neutral # NoTime => neutral = IF seen.neutral = IdleTimeout THEN IdleTimeout ELSE seen.neutral + 1
    BY <2>1, GrownAge, LimitsAreNumbers
  <2>6. since \in 0 .. RetryWait /\ since = IF seen.since = RetryWait THEN RetryWait ELSE seen.since + 1
    BY <2>1, LimitsAreNumbers DEF Grown
  <2>7. /\ auto' = [auto EXCEPT !.retry = retry] /\ idle' = [idle EXCEPT !.age = age]
        /\ charge' = [charge EXCEPT !.age = report]
        /\ seen' = [seen EXCEPT !.neutral = neutral, !.since = since]
    BY <1>4
  <2> HIDE DEF retry, age, report, neutral, since
  <2>8. auto' \in Autos /\ auto'.retry = retry /\ auto'.handled = auto.handled
    BY <1>1, <2>2, <2>7 DEF AutoTyped, Autos
  <2>9. idle' \in Trackers /\ idle'.age = age /\ idle'.latest = idle.latest
    BY <1>1, <2>3, <2>7 DEF AutoTyped, Trackers
  <2>10. charge' \in ChargeStates /\ charge'.pending = charge.pending
    BY <1>1, <2>4, <2>7 DEF AutoTyped, ChargeStates
  <2>11. /\ seen' \in Histories /\ seen'.tries = seen.tries /\ seen'.offs = seen.offs
         /\ seen'.renewed = seen.renewed /\ seen'.neutral = neutral /\ seen'.since = since
    BY <1>1, <2>5, <2>6, <2>7 DEF AutoTyped, Histories
  <2>12. AutoTyped'
    BY <1>1, <1>2, <2>8, <2>9, <2>10, <2>11 DEF AutoTyped
  <2>13. PlacementIsRemembered'
    BY <1>1, <2>8, <2>10, <2>11 DEF PlacementIsRemembered
  <2>14. AttemptsAreSpaced'
    BY <1>1, <1>2, <2>1, <2>2, <2>3, <2>6, <2>8, <2>9, <2>10, <2>11, LimitsAreNumbers DEF AttemptsAreSpaced
  <2>15. IdleIsSeen'
    BY <1>1, <1>2, <2>1, <2>3, <2>5, <2>9, <2>11, LimitsAreNumbers DEF IdleIsSeen
  <2> QED
    BY <2>11, <2>12, <2>13, <2>14, <2>15 DEF ShutdownInv
<1> QED
  BY <1>3, <1>4, Zenon DEF Waits

LEMMA NoStatusKeeps == ASSUME ShutdownInv, NoStatus PROVE ShutdownInv' /\ seen'.tries = seen.tries
<1>1. /\ AutoTyped /\ PlacementIsRemembered /\ AttemptsAreSpaced /\ IdleIsSeen
      /\ UNCHANGED <<policy, auto, idle, charge, seen>>
  BY DEF ShutdownInv, NoStatus
<1>2. session # NoSession
  BY NoSessionFacts DEF NoStatus
<1>3. session' \in Sittings /\ session'.at = "batch"
  BY <1>1 DEF NoStatus, AutoTyped, Sittings
<1>4. session' # NoSession
  BY <1>3, NoSessionFacts
<1> QED
  BY <1>1, <1>2, <1>3, <1>4
  DEF ShutdownInv, AutoTyped, PlacementIsRemembered, AttemptsAreSpaced, IdleIsSeen

LEMMA BatteryKeeps ==
  ASSUME ShutdownInv, NEW state \in Charges, BatteryReport(state)
  PROVE  ShutdownInv' /\ seen'.tries = seen.tries
<1> DEFINE transition == charge.state \notin {"none", "charging"} /\ state = "charging"
           due == observe_charge_state(session.source, state) /\ auto.retry = 0
<1>1. /\ AutoTyped /\ PlacementIsRemembered /\ AttemptsAreSpaced /\ IdleIsSeen /\ UNCHANGED policy
  BY DEF ShutdownInv, BatteryReport
<1>2. session # NoSession
  BY NoSessionFacts DEF BatteryReport
<1>3. session' \in Sittings /\ session'.at = "batch" /\ session' # NoSession
  <2>1. session' \in Sittings /\ session'.at = "batch"
    BY <1>1 DEF BatteryReport, AutoTyped, Sittings
  <2> QED
    BY <2>1, NoSessionFacts
<1>4. /\ idle' \in Trackers /\ idle'.latest = idle.latest
      /\ idle'.age = IF transition THEN (IF idle.latest = "neutral" THEN 0 ELSE NoTime) ELSE idle.age
  BY <1>1, ResetTracker DEF BatteryReport, AutoTyped
<1>5. /\ auto' \in Autos /\ auto'.retry = auto.retry
      /\ state # "discharging" => auto'.handled = auto.handled
  BY <1>1, ClearedEpisode DEF BatteryReport, AutoTyped
<1>6. charge' \in ChargeStates /\ (charge'.pending => auto.retry = 0 /\ ~auto.handled)
  <2>1. due \in BOOLEAN /\ (due => auto.retry = 0 /\ ~auto.handled)
    BY DEF observe_charge_state
  <2>2. state \in Charges \cup {"none"} /\ 0 \in 0 .. Freshness + 1 \cup {NoTime}
    BY LimitsAreNumbers
  <2>3. charge' = [state |-> state, age |-> 0, pending |-> due]
    BY DEF BatteryReport
  <2> HIDE DEF due
  <2>4. charge' \in ChargeStates
    BY <2>1, <2>2, <2>3, Zenon DEF ChargeStates
  <2>5. charge'.pending = due
    BY <2>3, Zenon
  <2> QED
    BY <2>1, <2>4, <2>5, Zenon
<1>7. /\ seen' \in Histories /\ seen'.tries = seen.tries /\ seen'.since = seen.since
      /\ seen'.neutral = IF transition /\ seen.neutral # NoTime THEN 0 ELSE seen.neutral
      /\ seen'.offs = IF state = "discharging" THEN 0 ELSE seen.offs
      /\ state = "discharging" \/ seen.renewed => seen'.renewed
  <2> DEFINE neutral == IF transition /\ seen.neutral # NoTime THEN 0 ELSE seen.neutral
             offs == IF state = "discharging" THEN 0 ELSE seen.offs
             renewed == seen.renewed \/ state = "discharging"
  <2>1. seen' = [seen EXCEPT !.neutral = neutral, !.offs = offs, !.renewed = renewed]
    BY DEF BatteryReport
  <2>2. /\ neutral \in 0 .. IdleTimeout \cup {NoTime} /\ offs \in 0 .. 2 /\ renewed \in BOOLEAN
        /\ state = "discharging" \/ seen.renewed => renewed
    BY <1>1, LimitsAreNumbers DEF AutoTyped, Histories
  <2> HIDE DEF neutral, offs, renewed, transition
  <2>3. /\ seen' \in Histories /\ seen'.tries = seen.tries /\ seen'.since = seen.since
        /\ seen'.neutral = neutral /\ seen'.offs = offs
    BY <1>1, <2>1, <2>2 DEF AutoTyped, Histories
  <2>4. renewed => seen'.renewed
    BY <1>1, <2>1, <2>2 DEF AutoTyped, Histories
  <2> QED
    BY <2>2, <2>3, <2>4, Zenon DEF neutral, offs
<1> HIDE DEF transition, due
<1>8. AutoTyped'
  BY <1>1, <1>3, <1>4, <1>5, <1>6, <1>7 DEF AutoTyped
<1>9. PlacementIsRemembered'
  BY <1>1, <1>5, <1>6, <1>7 DEF PlacementIsRemembered
<1>10. AttemptsAreSpaced'
  BY <1>1, <1>2, <1>3, <1>4, <1>5, <1>6, <1>7, LimitsAreNumbers
  DEF AttemptsAreSpaced, AutoTyped, Histories, Trackers
<1>11. IdleIsSeen'
  BY <1>1, <1>2, <1>3, <1>4, <1>7, LimitsAreNumbers DEF IdleIsSeen, AutoTyped, Histories, Trackers
<1> QED
  BY <1>7, <1>8, <1>9, <1>10, <1>11 DEF ShutdownInv

LEMMA StateKeeps ==
  ASSUME ShutdownInv, NEW active \in BOOLEAN, ControllerState(active)
  PROVE  ShutdownInv' /\ seen'.tries = seen.tries
<1>1. /\ AutoTyped /\ PlacementIsRemembered /\ AttemptsAreSpaced /\ IdleIsSeen
      /\ UNCHANGED <<policy, session, charge>>
  BY DEF ShutdownInv, ControllerState
<1>2. session # NoSession
  BY NoSessionFacts DEF ControllerState
<1>3. /\ idle' \in Trackers /\ idle'.latest = IF active THEN "active" ELSE "neutral"
      /\ idle'.age = IF active THEN NoTime ELSE IF idle.latest # "neutral" THEN 0 ELSE idle.age
  BY <1>1, ObservedTracker DEF ControllerState, AutoTyped
<1>4. /\ auto' \in Autos
      /\ auto.handled => auto'.handled
      /\ auto' # auto => active /\ auto'.handled /\ auto'.retry = 0
  <2>1. CASE auto' = auto
    BY <1>1, <2>1 DEF AutoTyped
  <2>2. CASE active /\ auto' = [auto EXCEPT !.handled = TRUE, !.retry = 0]
    <3>1. 0 \in 0 .. RetryWait /\ TRUE \in BOOLEAN
      BY LimitsAreNumbers
    <3>2. auto' \in Autos
      BY <1>1, <2>2, <3>1, Zenon DEF AutoTyped, Autos
    <3>3. auto'.retry = 0
      BY <1>1, <2>2 DEF AutoTyped, Autos
    <3>4. auto'.handled
      BY <1>1, <2>2 DEF AutoTyped, Autos
    <3> QED
      BY <2>2, <3>2, <3>3, <3>4
  <2> QED
    BY <2>1, <2>2 DEF ControllerState, activity_after_failed_dock_attempt
<1>5. /\ seen' \in Histories /\ seen'.tries = seen.tries /\ seen'.since = seen.since
      /\ seen'.renewed = seen.renewed /\ seen'.offs = seen.offs
      /\ seen'.neutral = IF active THEN NoTime ELSE IF seen.neutral = NoTime THEN 0 ELSE seen.neutral
  BY <1>1, LimitsAreNumbers DEF ControllerState, AutoTyped, Histories
<1>6. AutoTyped'
  BY <1>1, <1>3, <1>4, <1>5 DEF AutoTyped
<1>7. PlacementIsRemembered'
  BY <1>1, <1>4, <1>5 DEF PlacementIsRemembered
<1>8. AttemptsAreSpaced'
  BY <1>1, <1>2, <1>3, <1>4, <1>5, LimitsAreNumbers DEF AttemptsAreSpaced, AutoTyped, Histories, Trackers
<1>9. IdleIsSeen'
  BY <1>1, <1>2, <1>3, <1>5, LimitsAreNumbers DEF IdleIsSeen, AutoTyped, Histories, Trackers
<1> QED
  BY <1>5, <1>6, <1>7, <1>8, <1>9 DEF ShutdownInv

\* What makes a power-off due, whichever trigger it is.
LEMMA TriggerIsDue ==
  ASSUME ShutdownInv, session # NoSession, automatic_trigger # "none"
  PROVE  /\ AttemptIsDue
         /\ automatic_trigger \in Triggers
         /\ automatic_trigger = "dock" => seen.offs = 0
         /\ automatic_trigger = "idle" => IdleForLong
<1>1. AutoTyped /\ PlacementIsRemembered /\ AttemptsAreSpaced /\ IdleIsSeen
  BY DEF ShutdownInv
<1>2. /\ seen.since \in 0 .. RetryWait /\ auto.retry \in 0 .. RetryWait /\ idle.timeout \in Timeouts
      /\ idle.age \in 0 .. IdleTimeout \cup {NoTime} /\ seen.neutral \in 0 .. IdleTimeout \cup {NoTime}
  BY <1>1 DEF AutoTyped, Histories, Autos, Trackers
<1>3. CASE automatic_trigger = "dock"
  <2>1. CASE charge.pending
    <3>1. auto.retry = 0 /\ seen.offs = 0
      BY <1>1, <2>1 DEF AttemptsAreSpaced, PlacementIsRemembered
    <3>2. seen.renewed \/ seen.since + auto.retry >= RetryWait
      BY <1>1, <2>1 DEF AttemptsAreSpaced
    <3> QED
      BY <1>2, <1>3, <3>1, <3>2, LimitsAreNumbers DEF AttemptIsDue, Triggers
  <2>2. CASE dock_retry_due
    <3>1. auto.retry = 0 /\ ~auto.handled
      BY <2>2 DEF dock_retry_due
    <3>2. seen.offs = 0
      BY <1>1, <3>1 DEF PlacementIsRemembered
    <3>3. seen.renewed \/ seen.since + auto.retry >= RetryWait
      BY <1>1, <3>1 DEF AttemptsAreSpaced
    <3> QED
      BY <1>2, <1>3, <3>1, <3>2, <3>3, LimitsAreNumbers DEF AttemptIsDue, Triggers
  <2> QED
    BY <1>3, <2>1, <2>2 DEF automatic_trigger
<1>4. CASE automatic_trigger = "idle"
  <2>1. idle_shutdown_due
    BY <1>4 DEF automatic_trigger
  <2>2. idle.age # NoTime /\ idle.age = IdleTimeout /\ auto.retry = 0
    BY <1>2, <2>1, LimitsAreNumbers DEF idle_shutdown_due, deadline_reached, Timeouts
  <2>3. seen.renewed \/ seen.since + auto.retry >= RetryWait
    BY <1>1, <1>2, <2>2, LimitsAreNumbers DEF AttemptsAreSpaced
  <2>4. seen.neutral # NoTime /\ idle.age <= seen.neutral
    BY <1>1, <2>2 DEF IdleIsSeen
  <2> QED
    BY <1>2, <1>4, <2>2, <2>3, <2>4, LimitsAreNumbers DEF AttemptIsDue, IdleForLong, Triggers
<1> QED
  BY <1>3, <1>4 DEF automatic_trigger

Earned == AttemptIsDue /\ (auto'.trigger = "idle" => IdleForLong)

LEMMA DecideKeeps ==
  ASSUME ShutdownInv, Decide
  PROVE  ShutdownInv' /\ (seen'.tries # seen.tries => Earned)
<1> DEFINE trigger == automatic_trigger
<1>1. AutoTyped /\ PlacementIsRemembered /\ AttemptsAreSpaced /\ IdleIsSeen /\ UNCHANGED policy
  BY DEF ShutdownInv, Decide
<1>2. session # NoSession
  BY NoSessionFacts DEF Decide
<1>3. charge' = [charge EXCEPT !.pending = FALSE]
  BY Zenon DEF Decide, DecideNot, Attempt
<1>4. charge' \in ChargeStates /\ ~charge'.pending
  <2>1. FALSE \in BOOLEAN
    OBVIOUS
  <2>2. charge' \in ChargeStates
    BY <1>1, <1>3, <2>1, Zenon DEF AutoTyped, ChargeStates
  <2> QED
    BY <1>1, <1>3, <2>2 DEF AutoTyped, ChargeStates
<1>5. ASSUME session' = [session EXCEPT !.at = "commands"]
      PROVE  session' \in Sittings /\ session' # NoSession /\ session'.at # "none"
  <2>1. session' \in Sittings /\ session'.at = "commands"
    BY <1>1, <1>5 DEF AutoTyped, Sittings
  <2> QED
    BY <2>1, NoSessionFacts
<1>6. ASSUME idle' = NewTracker(NoTime)
      PROVE  idle' \in Trackers /\ idle'.age = NoTime /\ idle'.latest = "none"
  BY <1>6, FreshTracker DEF Timeouts
<1>7. CASE DecideNot
  <2>1. UNCHANGED <<auto, idle, seen>> /\ session' = [session EXCEPT !.at = "commands"]
    BY <1>7 DEF DecideNot
  <2>2. AutoTyped' /\ PlacementIsRemembered'
    BY <1>1, <1>4, <1>5, <2>1 DEF AutoTyped, PlacementIsRemembered
  <2>3. AttemptsAreSpaced' /\ IdleIsSeen'
    BY <1>1, <1>2, <1>4, <1>5, <2>1 DEF AttemptsAreSpaced, IdleIsSeen
  <2> QED
    BY <2>1, <2>2, <2>3 DEF ShutdownInv
<1>8. ASSUME trigger # "none", auto' = succeeded(auto, trigger), session' = NoSession, idle' = NewTracker(NoTime),
             seen' = [seen EXCEPT !.since = 0, !.renewed = FALSE, !.tries = ~@,
                        !.offs = IF trigger = "dock" /\ @ < 2 THEN @ + 1 ELSE @]
      PROVE  ShutdownInv' /\ Earned
  <2> DEFINE offs == IF trigger = "dock" /\ seen.offs < 2 THEN seen.offs + 1 ELSE seen.offs
             handled == auto.handled \/ trigger = "dock"
             tries == ~seen.tries
  <2>1. /\ AttemptIsDue /\ trigger \in Triggers
        /\ trigger = "idle" => IdleForLong
    BY <1>2, <1>8, TriggerIsDue
  <2>2. /\ offs \in 0 .. 2
        /\ offs \in {0, 1} /\ (offs = 1 => handled)
    BY <1>1, <1>2, <1>8, TriggerIsDue DEF PlacementIsRemembered
  <2>3. /\ "sleeping" \in AutoPhases /\ 0 \in 0 .. RetryWait /\ FALSE \in BOOLEAN /\ handled \in BOOLEAN
        /\ tries \in BOOLEAN
    BY LimitsAreNumbers DEF AutoPhases
  <2>4. auto' = [auto EXCEPT !.phase = "sleeping", !.trigger = trigger, !.retry = 0, !.failed = FALSE,
                             !.handled = handled]
    BY <1>8 DEF succeeded
  <2>5. seen' = [seen EXCEPT !.since = 0, !.renewed = FALSE, !.tries = tries, !.offs = offs]
    BY <1>8
  <2> HIDE DEF offs, handled, tries, trigger
  <2>6. auto' \in Autos
    BY <1>1, <2>1, <2>3, <2>4, Zenon DEF AutoTyped, Autos
  <2>7. auto'.retry = 0 /\ auto'.trigger = trigger
    BY <1>1, <2>4 DEF AutoTyped, Autos
  <2>8. handled => auto'.handled
    BY <1>1, <2>4, Zenon DEF AutoTyped, Autos
  <2>9. seen' \in Histories
    BY <1>1, <2>2, <2>3, <2>5, Zenon DEF AutoTyped, Histories
  <2>10. seen'.offs = offs
    BY <1>1, <2>5 DEF AutoTyped, Histories
  <2>11. AutoTyped'
    BY <1>1, <1>4, <1>6, <1>8, <2>6, <2>9, NoSessionFacts DEF AutoTyped
  <2>12. PlacementIsRemembered'
    BY <1>4, <2>2, <2>8, <2>10 DEF PlacementIsRemembered
  <2>13. AttemptsAreSpaced' /\ IdleIsSeen'
    BY <1>4, <1>6, <1>8 DEF AttemptsAreSpaced, IdleIsSeen
  <2> QED
    BY <2>1, <2>7, <2>11, <2>12, <2>13 DEF ShutdownInv, Earned
<1>9. ASSUME trigger # "none", auto' = failed(auto, trigger), session' = [session EXCEPT !.at = "commands"],
             idle' = idle, seen' = [seen EXCEPT !.since = 0, !.renewed = FALSE, !.tries = ~@]
      PROVE  ShutdownInv' /\ Earned
  <2> DEFINE dock == trigger = "dock"
             tries == ~seen.tries
  <2>1. /\ AttemptIsDue /\ trigger \in Triggers
        /\ trigger = "idle" => IdleForLong
    BY <1>2, <1>9, TriggerIsDue
  <2>2. /\ "degraded" \in AutoPhases /\ RetryWait \in 0 .. RetryWait /\ 0 \in 0 .. RetryWait
        /\ dock \in BOOLEAN /\ tries \in BOOLEAN /\ FALSE \in BOOLEAN
    BY LimitsAreNumbers DEF AutoPhases
  <2>3. auto' = [auto EXCEPT !.phase = "degraded", !.trigger = trigger, !.retry = RetryWait, !.failed = dock]
    BY <1>9 DEF failed
  <2>4. seen' = [seen EXCEPT !.since = 0, !.renewed = FALSE, !.tries = tries]
    BY <1>9
  <2> HIDE DEF dock, tries, trigger
  <2>5. auto' \in Autos
    BY <1>1, <2>1, <2>2, <2>3, Zenon DEF AutoTyped, Autos
  <2>6. auto'.retry = RetryWait /\ auto'.trigger = trigger
    BY <1>1, <2>3 DEF AutoTyped, Autos
  <2>7. auto.handled => auto'.handled
    BY <1>1, <2>3, Zenon DEF AutoTyped, Autos
  <2>8. seen' \in Histories
    BY <1>1, <2>2, <2>4, Zenon DEF AutoTyped, Histories
  <2>9. seen'.offs = seen.offs /\ seen'.since = 0 /\ seen'.neutral = seen.neutral
    BY <1>1, <2>4 DEF AutoTyped, Histories
  <2>10. AutoTyped'
    BY <1>1, <1>4, <1>5, <1>9, <2>5, <2>8 DEF AutoTyped
  <2>11. PlacementIsRemembered'
    BY <1>1, <1>4, <2>7, <2>9 DEF PlacementIsRemembered
  <2>12. AttemptsAreSpaced'
    BY <1>4, <2>6, <2>9, LimitsAreNumbers DEF AttemptsAreSpaced
  <2>13. IdleIsSeen'
    BY <1>1, <1>2, <1>5, <1>9, <2>9 DEF IdleIsSeen
  <2> QED
    BY <2>1, <2>6, <2>10, <2>11, <2>12, <2>13 DEF ShutdownInv, Earned
<1>10. ASSUME trigger # "none", auto' = [auto EXCEPT !.phase = "powering off", !.trigger = trigger],
              session' = NoSession, idle' = NewTracker(NoTime), seen' = seen
       PROVE  ShutdownInv'
  <2>1. trigger \in Triggers /\ "powering off" \in AutoPhases
    BY <1>2, <1>10, TriggerIsDue DEF AutoPhases
  <2> HIDE DEF trigger
  <2>2. /\ auto' \in Autos /\ auto'.handled = auto.handled
    BY <1>1, <1>10, <2>1 DEF AutoTyped, Autos
  <2>3. AutoTyped'
    BY <1>1, <1>4, <1>6, <1>10, <2>2, NoSessionFacts DEF AutoTyped
  <2>4. PlacementIsRemembered'
    BY <1>1, <1>4, <1>10, <2>2 DEF PlacementIsRemembered
  <2>5. AttemptsAreSpaced' /\ IdleIsSeen'
    BY <1>4, <1>6, <1>10 DEF AttemptsAreSpaced, IdleIsSeen
  <2> QED
    BY <2>3, <2>4, <2>5 DEF ShutdownInv
<1>11. CASE Attempt("ok")
  BY <1>8, <1>11 DEF Attempt
<1>12. CASE Attempt("failed")
  BY <1>9, <1>12 DEF Attempt
<1>13. CASE Attempt("output lost")
  BY <1>10, <1>13 DEF Attempt
<1> QED
  BY <1>7, <1>11, <1>12, <1>13 DEF Decide, DecideNot

LEMMA ShutdownKeeps ==
  ASSUME ShutdownInv, [AutoNext]_autoVars
  PROVE  ShutdownInv' /\ (seen'.tries # seen.tries => Earned)
<1>1. CASE UNCHANGED autoVars
  BY <1>1 DEF autoVars, ShutdownInv, AutoTyped, PlacementIsRemembered, AttemptsAreSpaced, IdleIsSeen
<1>2. CASE AutoNext
  BY <1>2, IdleSettingKeeps, DockSettingKeeps, SelectionKeeps, EndKeeps, WaitKeeps, NoStatusKeeps,
     BatteryKeeps, StateKeeps, DecideKeeps DEF AutoNext
<1> QED
  BY <1>1, <1>2

\* No controller is turned off that has not earned it, for every set of
\* controllers, idle timeout and retry interval: one dock power-off a placement,
\* attempts a retry interval apart, and an idle one only after the whole timeout
\* at neutral.
THEOREM PowerOffsAreEarned == AutoSpec => ShutdownIsEarned
<1>1. ShutdownInv' => OncePerPlacement'
  BY DEF ShutdownInv, PlacementIsRemembered, OncePerPlacement
<1>2. ASSUME ShutdownInv, [AutoNext]_autoVars
      PROVE  [OncePerPlacement' /\ (seen'.tries # seen.tries =>
                AttemptIsDue /\ (auto'.trigger = "idle" => IdleForLong))]_autoVars
  BY <1>1, <1>2, ShutdownKeeps DEF Earned
<1>3. AutoInit => ShutdownInv
  BY ShutdownStarts
<1>4. ShutdownInv /\ [AutoNext]_autoVars => ShutdownInv'
  BY ShutdownKeeps
<1> QED
  BY <1>2, <1>3, <1>4, PTL DEF AutoSpec, ShutdownIsEarned

-----------------------------------------------------------------------------
(* ControllerDiscovery.                                                    *)

Candidate == [open : BOOLEAN, reports : 0 .. Buffer]

DiscoveryTyped ==
  /\ usb \in [there : SUBSET Controllers, awake : SUBSET Controllers,
              off : SUBSET Controllers, trail : [Controllers -> Nat]]
  /\ indexed \in [used : BOOLEAN, info : Controllers \cup {Absent}]
  /\ DOMAIN candidates \subseteq Controllers
  /\ \A c \in DOMAIN candidates : candidates[c] \in Candidate
  /\ scan \in [wait : 0 .. MaxScan, stable : MinScan .. MaxScan]
  /\ cooldown \in [of : Controllers \cup {Absent}, left : Nat]
  /\ chosen \in Controllers \cup {Absent}
  /\ alone \in Nat

\* A controller that is not yet a candidate becomes one with the next scan; one
\* that is sends states from its first pass on.
ComesUp(c) ==
  /\ c \notin DOMAIN candidates => alone + scan.wait <= MaxScan
  /\ c \in DOMAIN candidates /\ candidates[c].reports = 0 => alone <= MaxScan

\* What the others' sessions had buffered is read, a report in a pass.
OthersDrain(c) ==
  \A d \in DOMAIN candidates \ {c} :
    candidates[d].reports = 0 \/ candidates[d].reports + alone <= Buffer + 1

\* A lone controller has waited for its scan or for the others' reports.
LoneIsAwaited ==
  alone > 0 /\ ~indexed.used =>
    /\ alone <= MaxScan + 1 \/ alone <= Buffer + 1
    /\ \A d \in Controllers : usb.trail[d] = 0
    /\ \E c \in Controllers : Lone(c) /\ ComesUp(c) /\ OthersDrain(c)

DiscoveryInv ==
  DiscoveryTyped /\ (chosen # Absent => alone = 0) /\ LoneIsAwaited

LEMMA Limits ==
  /\ MinScan \in Nat /\ MinScan > 0 /\ MaxScan \in Nat /\ MinScan <= MaxScan
  /\ Cooldown \in Nat /\ Buffer \in Nat /\ Buffer > 0 /\ Trailing \in Nat
  BY DiscoveryAssumption

LEMMA FreshTypes ==
  /\ FreshScan \in [wait : 0 .. MaxScan, stable : MinScan .. MaxScan]
  /\ DOMAIN NoCandidates = {}
  BY Limits DEF FreshScan, NoCandidates

LEMMA ScannedIsTyped ==
  ASSUME NEW found \in BOOLEAN, NEW changed \in BOOLEAN, NEW stable \in MinScan .. MaxScan
  PROVE  Scanned(found, changed, stable) \in [wait : 0 .. MaxScan, stable : MinScan .. MaxScan]
  BY Limits DEF Scanned, next_stable_scan_interval, inventory_scan_interval

LEMMA DiscoveryStarts == DiscoveryInit => DiscoveryInv
<1> SUFFICES ASSUME NEW by_index \in BOOLEAN, DiscoveryStart(by_index) PROVE DiscoveryInv
  BY DEF DiscoveryInit
<1>1. /\ usb \in [there : SUBSET Controllers, awake : SUBSET Controllers,
                  off : SUBSET Controllers, trail : [Controllers -> Nat]]
      /\ cooldown \in [of : Controllers \cup {Absent}, left : Nat]
  BY DEF DiscoveryStart
<1>2. indexed \in [used : BOOLEAN, info : Controllers \cup {Absent}]
  BY Zenon DEF DiscoveryStart
<1>3. scan \in [wait : 0 .. MaxScan, stable : MinScan .. MaxScan] /\ DOMAIN candidates = {}
  BY FreshTypes DEF DiscoveryStart
<1>4. chosen = Absent /\ alone = 0
  BY DEF DiscoveryStart
<1> QED
  BY <1>1, <1>2, <1>3, <1>4 DEF DiscoveryInv, DiscoveryTyped, LoneIsAwaited

-----------------------------------------------------------------------------
\* The sessions are closed and nothing was counted.
LEMMA ClearsKeeps ==
  ASSUME DiscoveryTyped, Clears, alone' = 0, chosen' \in Controllers \cup {Absent},
         usb' \in [there : SUBSET Controllers, awake : SUBSET Controllers,
                   off : SUBSET Controllers, trail : [Controllers -> Nat]],
         cooldown' \in [of : Controllers \cup {Absent}, left : Nat]
  PROVE  DiscoveryInv'
<1>1. indexed' \in [used : BOOLEAN, info : Controllers \cup {Absent}]
  <2>1. indexed' = [indexed EXCEPT !.info = Absent]
    BY Zenon DEF Clears
  <2> QED
    BY <2>1 DEF DiscoveryTyped
<1>2. /\ scan' \in [wait : 0 .. MaxScan, stable : MinScan .. MaxScan]
      /\ DOMAIN candidates' = {}
  BY FreshTypes DEF Clears
<1> QED
  BY SMTT(40), <1>1, <1>2 DEF DiscoveryInv, DiscoveryTyped, LoneIsAwaited

\* The controllers come and go, which ends what was counted.
LEMMA UsbKeeps ==
  ASSUME DiscoveryInv, NEW c \in Controllers, Comes(c) \/ Goes(c) \/ Wakes(c) \/ FallsAsleep(c)
  PROVE  DiscoveryInv'
<1>1. usb \in [there : SUBSET Controllers, awake : SUBSET Controllers,
              off : SUBSET Controllers, trail : [Controllers -> Nat]]
  BY DEF DiscoveryInv, DiscoveryTyped
<1>2. usb' \in [there : SUBSET Controllers, awake : SUBSET Controllers,
                off : SUBSET Controllers, trail : [Controllers -> Nat]]
  <2>1. [usb.trail EXCEPT ![c] = 0] \in [Controllers -> Nat]
    BY <1>1
  <2>2. CASE Wakes(c)
    <3>1. usb' = [usb EXCEPT !.awake = @ \cup {c}, !.off = @ \ {c},
                             !.trail = [usb.trail EXCEPT ![c] = 0]]
      BY <1>1, <2>2 DEF Wakes
    <3> QED
      BY <1>1, <2>1, <3>1
  <2>3. CASE Comes(c) \/ Goes(c) \/ FallsAsleep(c)
    BY <1>1, <2>3 DEF Comes, Goes, FallsAsleep
  <2> QED
    BY <2>2, <2>3
<1>3. /\ alone' = 0 /\ UNCHANGED <<indexed, scan, cooldown, chosen>>
      /\ DOMAIN candidates' = DOMAIN candidates
  BY DEF Comes, Goes, Wakes, FallsAsleep
<1>4. \A d \in DOMAIN candidates' : candidates'[d] \in Candidate
  <2>1. CASE Goes(c)
    <3>1. [open |-> FALSE, reports |-> 0] \in Candidate
      <4>1. 0 \in 0 .. Buffer
        BY Limits
      <4> QED
        BY <4>1, Zenon DEF Candidate
    <3>2. candidates' = [d \in DOMAIN candidates |->
                      IF d = c THEN [open |-> FALSE, reports |-> 0] ELSE candidates[d]]
      BY <2>1 DEF Goes
    <3> DEFINE shut == [open |-> FALSE, reports |-> 0]
    <3> HIDE DEF shut
    <3>3. \A d \in DOMAIN candidates : candidates'[d] \in {shut, candidates[d]}
      BY <3>2, Zenon DEF shut
    <3>4. shut \in Candidate
      BY <3>1 DEF shut
    <3> QED
      BY <1>3, <3>3, <3>4 DEF DiscoveryInv, DiscoveryTyped
  <2>2. CASE Comes(c) \/ Wakes(c) \/ FallsAsleep(c)
    BY <2>2 DEF Comes, Wakes, FallsAsleep, DiscoveryInv, DiscoveryTyped
  <2> QED
    BY <2>1, <2>2
<1> QED
  BY <1>2, <1>3, <1>4 DEF DiscoveryInv, DiscoveryTyped, LoneIsAwaited

LEMMA EndsKeep == ASSUME DiscoveryInv, SessionLost \/ PoweredOff PROVE DiscoveryInv'
<1>1. Clears /\ alone' = 0 /\ chosen' = Absent /\ chosen \in Controllers
  BY DEF SessionLost, PoweredOff, DiscoveryInv, DiscoveryTyped
<1>2. usb \in [there : SUBSET Controllers, awake : SUBSET Controllers,
              off : SUBSET Controllers, trail : [Controllers -> Nat]]
  BY DEF DiscoveryInv, DiscoveryTyped
<1>3. usb' \in [there : SUBSET Controllers, awake : SUBSET Controllers,
                off : SUBSET Controllers, trail : [Controllers -> Nat]]
  <2>1. [usb.trail EXCEPT ![chosen] = Trailing] \in [Controllers -> Nat]
    BY <1>1, <1>2, Limits
  <2>2. CASE PoweredOff
    <3>1. usb' = [usb EXCEPT !.awake = @ \ {chosen}, !.off = @ \cup {chosen},
                             !.trail = [usb.trail EXCEPT ![chosen] = Trailing]]
      BY <1>2, <2>2 DEF PoweredOff
    <3> QED
      BY <1>1, <1>2, <2>1, <3>1
  <2>3. CASE SessionLost
    BY <1>2, <2>3 DEF SessionLost
  <2> QED
    BY <2>2, <2>3
<1>4. cooldown' \in [of : Controllers \cup {Absent}, left : Nat]
  BY <1>1, Limits DEF SessionLost, PoweredOff, DiscoveryInv, DiscoveryTyped
<1> QED
  BY <1>1, <1>3, <1>4, ClearsKeeps DEF DiscoveryInv

LEMMA SelectsKeep == ASSUME DiscoveryInv, ProbeSelects \/ IndexedSelects PROVE DiscoveryInv'
<1>1. Clears /\ alone' = 0 /\ UNCHANGED <<usb, cooldown>>
  BY DEF ProbeSelects, IndexedSelects
<1>2. chosen' \in Controllers
  BY DEF ProbeSelects, IndexedSelects, DiscoveryInv, DiscoveryTyped
<1>3. /\ usb' \in [there : SUBSET Controllers, awake : SUBSET Controllers,
                   off : SUBSET Controllers, trail : [Controllers -> Nat]]
      /\ cooldown' \in [of : Controllers \cup {Absent}, left : Nat]
  BY <1>1 DEF DiscoveryInv, DiscoveryTyped
<1> QED
  BY <1>1, <1>2, <1>3, ClearsKeeps DEF DiscoveryInv

-----------------------------------------------------------------------------
(* Scans.                                                                  *)

LEMMA ScanKeeps ==
  ASSUME DiscoveryInv, NEW failing \in SUBSET Controllers, Scan(failing)
  PROVE  DiscoveryInv'
<1> DEFINE kept == DOMAIN candidates \cap usb.there
           now == kept \cup (usb.there \ (kept \cup failing))
           new == [open |-> TRUE, reports |-> 0]
           changed == now # DOMAIN candidates \/ usb.there \ (kept \cup failing) # {}
                        \/ failing \ kept # {}
<1> USE DEF DiscoveryInv
<1>1. /\ UNCHANGED <<usb, indexed, cooldown, chosen>> /\ scan.wait = 0
      /\ alone' = IF failing = {} THEN alone ELSE 0
  BY DEF Scan
<1>2. /\ candidates' = [c \in now |-> IF c \in kept THEN candidates[c] ELSE new]
      /\ scan' = Scanned(now # {}, changed, scan.stable)
  BY DEF Scan, refresh
<1>3. usb.there \subseteq Controllers /\ scan.stable \in MinScan .. MaxScan
  BY DEF DiscoveryTyped
<1>4. scan' \in [wait : 0 .. MaxScan, stable : MinScan .. MaxScan]
  <2> HIDE DEF changed, now
  <2>1. (now # {}) \in BOOLEAN
    OBVIOUS
  <2>2. changed \in BOOLEAN
    BY DEF changed
  <2> QED
    BY <1>2, <1>3, <2>1, <2>2, ScannedIsTyped
<1>5. new \in Candidate /\ new.reports = 0
  <2>1. 0 \in 0 .. Buffer /\ TRUE \in BOOLEAN
    BY Limits
  <2>2. new \in Candidate
    BY <2>1, Zenon DEF Candidate
  <2>3. new.reports = 0
    BY Zenon
  <2> QED
    BY <2>2, <2>3
<1> HIDE DEF new
<1>6. DOMAIN candidates' = now /\ now \subseteq usb.there
  BY <1>2
<1>7. \A c \in now : IF c \in kept THEN candidates'[c] = candidates[c] ELSE candidates'[c] = new
  BY <1>2
<1>8. DiscoveryTyped'
  BY <1>1, <1>3, <1>4, <1>5, <1>6, <1>7 DEF DiscoveryTyped
<1>9. CASE failing # {}
  BY <1>1, <1>8, <1>9 DEF LoneIsAwaited
<1>10. CASE failing = {}
  <2> SUFFICES ASSUME alone > 0, ~indexed.used
               PROVE  /\ alone <= MaxScan + 1 \/ alone <= Buffer + 1
                      /\ \A d \in Controllers : usb.trail[d] = 0
                      /\ \E c \in Controllers : Lone(c)' /\ ComesUp(c)' /\ OthersDrain(c)'
    BY <1>1, <1>8, <1>10 DEF LoneIsAwaited
  <2>1. PICK c \in Controllers : Lone(c) /\ ComesUp(c) /\ OthersDrain(c)
    BY DEF LoneIsAwaited
  <2>2. alone \in Nat /\ MaxScan \in Nat /\ Buffer \in Nat
    BY Limits DEF DiscoveryTyped
  <2>3. Lone(c)'
    BY <1>1, <2>1 DEF Lone, OnCooldown
  <2>4. c \in now
    BY <1>10, <2>1 DEF Lone
  <2>5. c \notin DOMAIN candidates => alone <= MaxScan
    BY <1>1, <2>1, <2>2 DEF ComesUp
  <2>6. ComesUp(c)'
    BY <1>1, <1>6, <1>7, <1>10, <2>1, <2>4, <2>5 DEF ComesUp
  <2>7. OthersDrain(c)'
    BY <1>1, <1>5, <1>6, <1>7, <1>10, <2>1 DEF OthersDrain
  <2> QED
    BY <2>3, <2>6, <2>7 DEF LoneIsAwaited
<1> QED
  BY <1>9, <1>10

LEMMA OtherScansKeep == ASSUME DiscoveryInv, ScanFails \/ IndexedScan PROVE DiscoveryInv'
<1> USE DEF DiscoveryInv
<1>1. /\ UNCHANGED <<usb, candidates, cooldown, chosen>>
      /\ alone' = 0 \/ (alone' = alone /\ indexed.used)
  BY DEF ScanFails, IndexedScan
<1>2. /\ indexed \in [used : BOOLEAN, info : Controllers \cup {Absent}]
      /\ usb.there \subseteq Controllers
      /\ scan \in [wait : 0 .. MaxScan, stable : MinScan .. MaxScan]
      /\ 1 \in 0 .. MaxScan /\ MinScan \in MinScan .. MaxScan /\ MinScan \in 0 .. MaxScan
  BY Limits DEF DiscoveryTyped
<1>3. /\ indexed' \in [used : BOOLEAN, info : Controllers \cup {Absent}]
      /\ indexed'.used = indexed.used
      /\ scan' \in [wait : 0 .. MaxScan, stable : MinScan .. MaxScan]
  <2>1. CASE ScanFails
    <3>1. indexed' = [indexed EXCEPT !.info = Absent] \/ indexed' = indexed
      BY <2>1, Zenon DEF ScanFails
    <3>2. scan' = [wait |-> 1, stable |-> MinScan]
            \/ scan' = [wait |-> inventory_scan_interval(candidates # NoCandidates, MinScan),
                        stable |-> MinScan]
      BY <2>1, Zenon DEF ScanFails
    <3>3. inventory_scan_interval(candidates # NoCandidates, MinScan) \in {1, MinScan}
      BY DEF inventory_scan_interval
    <3> QED
      BY <1>2, <3>1, <3>2, <3>3
  <2>2. CASE IndexedScan
    <3>1. PICK info \in usb.there \cup (IF usb.there = {} THEN {Absent} ELSE {}) :
            /\ indexed' = [indexed EXCEPT !.info = info]
            /\ scan' = Scanned(info # Absent, info = Absent \/ info # indexed.info, scan.stable)
      BY <2>2, Zenon DEF IndexedScan
    <3>2. info \in Controllers \cup {Absent}
      BY <1>2, <3>1
    <3> DEFINE changed == info = Absent \/ info # indexed.info
    <3>3. (info # Absent) \in BOOLEAN /\ changed \in BOOLEAN /\ scan.stable \in MinScan .. MaxScan
      BY <1>2
    <3> HIDE DEF changed
    <3>4. Scanned(info # Absent, changed, scan.stable)
            \in [wait : 0 .. MaxScan, stable : MinScan .. MaxScan]
      BY <3>3, ScannedIsTyped
    <3>5. scan' \in [wait : 0 .. MaxScan, stable : MinScan .. MaxScan]
      BY <3>1, <3>4 DEF changed
    <3>6. /\ indexed' \in [used : BOOLEAN, info : Controllers \cup {Absent}]
          /\ indexed'.used = indexed.used
      BY <1>2, <3>1, <3>2
    <3> QED
      BY <3>5, <3>6
  <2> QED
    BY <2>1, <2>2
<1>4. DiscoveryTyped'
  BY <1>1, <1>3 DEF DiscoveryTyped
<1> QED
  BY <1>1, <1>3, <1>4 DEF LoneIsAwaited

-----------------------------------------------------------------------------
(* Passes.                                                                 *)

LEMMA BufferedIsTyped ==
  ASSUME DiscoveryTyped, NEW held, DOMAIN held \subseteq Controllers,
         \A c \in DOMAIN held : held[c] \in Candidate
  PROVE  /\ DOMAIN Buffered(held) = DOMAIN held
         /\ \A c \in DOMAIN held : Buffered(held)[c] \in Candidate
<1>1. DOMAIN Buffered(held) = DOMAIN held
  BY DEF Buffered
<1>2. ASSUME NEW c \in DOMAIN held PROVE Buffered(held)[c] \in Candidate
  <2> DEFINE s == held[c]
             full == IF c \in usb.awake THEN Buffer ELSE Lesser(Buffer, s.reports + usb.trail[c])
  <2>1. Buffered(held)[c] = IF ~s.open THEN s ELSE [s EXCEPT !.reports = full]
    BY DEF Buffered
  <2>2. s \in Candidate /\ usb.trail[c] \in Nat /\ s.reports \in 0 .. Buffer
    BY <1>2 DEF DiscoveryTyped, Candidate
  <2>3. full \in 0 .. Buffer
    BY <2>2, Limits DEF Lesser
  <2> HIDE DEF s, full
  <2>4. [s EXCEPT !.reports = full] \in Candidate
    BY <2>2, <2>3 DEF Candidate
  <2> QED
    BY <2>1, <2>2, <2>4
<1> QED
  BY <1>1, <1>2

LEMMA PassIsTyped ==
  ASSUME DiscoveryTyped, NEW held, DOMAIN held \subseteq Controllers,
         \A c \in DOMAIN held : held[c] \in Candidate, PassEnds(held), scan.wait > 0,
         indexed' = indexed, chosen' = chosen
  PROVE  DiscoveryTyped'
<1>1. /\ usb' \in [there : SUBSET Controllers, awake : SUBSET Controllers,
                   off : SUBSET Controllers, trail : [Controllers -> Nat]]
  <2>1. [c \in Controllers |-> 0] \in [Controllers -> Nat]
    OBVIOUS
  <2> QED
    BY <2>1 DEF DiscoveryTyped, PassEnds
<1>2. scan' \in [wait : 0 .. MaxScan, stable : MinScan .. MaxScan]
  BY Limits DEF DiscoveryTyped, PassEnds
<1>3. cooldown' \in [of : Controllers \cup {Absent}, left : Nat]
  BY DEF DiscoveryTyped, PassEnds
<1>4. alone' \in Nat
  BY Limits DEF DiscoveryTyped, PassEnds, Patience
<1>5. /\ DOMAIN candidates' = DOMAIN held
      /\ \A c \in DOMAIN held : candidates'[c] \in Candidate
  BY BufferedIsTyped DEF PassEnds
<1> QED
  BY <1>1, <1>2, <1>3, <1>4, <1>5 DEF DiscoveryTyped

LEMMA IndexedWaitsKeep ==
  ASSUME DiscoveryInv, NEW denied \in BOOLEAN, IndexedWaits(denied)
  PROVE  DiscoveryInv'
<1>1. /\ indexed.used /\ indexed' = indexed /\ chosen' = chosen /\ chosen = Absent
      /\ scan.wait > 0 /\ PassEnds(candidates)
  BY Zenon DEF IndexedWaits
<1>2. DiscoveryTyped'
  BY <1>1, PassIsTyped DEF DiscoveryInv, DiscoveryTyped
<1> QED
  BY <1>1, <1>2 DEF DiscoveryInv, LoneIsAwaited

LEMMA ProbeIsTyped ==
  ASSUME DiscoveryTyped
  PROVE  /\ DOMAIN probe = DOMAIN candidates
         /\ \A c \in DOMAIN candidates :
              /\ probe[c] \in Candidate
              /\ probe[c].open <=> c \in usb.there
              /\ probe[c].reports = IF candidates[c].reports > 0 THEN candidates[c].reports - 1 ELSE 0
<1>1. DOMAIN probe = DOMAIN candidates
  BY DEF probe
<1>2. ASSUME NEW c \in DOMAIN candidates
      PROVE  /\ probe[c] \in Candidate
             /\ probe[c].open <=> c \in usb.there
             /\ probe[c].reports = IF candidates[c].reports > 0 THEN candidates[c].reports - 1 ELSE 0
  <2> DEFINE o == c \in usb.there
             r == IF c \in Active THEN candidates[c].reports - 1 ELSE 0
  <2>1. probe[c] = [open |-> o, reports |-> r]
    BY DEF probe
  <2>2. candidates[c].reports \in 0 .. Buffer
    BY DEF DiscoveryTyped, Candidate
  <2>3. /\ r = IF candidates[c].reports > 0 THEN candidates[c].reports - 1 ELSE 0
        /\ r \in 0 .. Buffer
    BY <2>2, Limits DEF Active
  <2>4. o \in BOOLEAN /\ (o <=> c \in usb.there)
    OBVIOUS
  <2> HIDE DEF o, r
  <2> DEFINE left == [open |-> o, reports |-> r]
  <2>5. left \in Candidate
    BY <2>3, <2>4, Zenon DEF Candidate
  <2>6. left.open = o /\ left.reports = r
    BY Zenon
  <2>7. probe[c] = left
    BY <2>1
  <2> HIDE DEF left
  <2>8. left.open <=> c \in usb.there
    BY <2>4, <2>6
  <2> QED
    BY <2>3, <2>5, <2>6, <2>7, <2>8
<1> QED
  BY <1>1, <1>2

\* What a pass leaves of a candidate.
LEMMA PassedCandidate ==
  ASSUME DiscoveryTyped, PassEnds(probe), NEW c \in DOMAIN candidates
  PROVE  LET r == candidates[c].reports
             r1 == candidates'[c].reports
         IN  /\ c \in usb.there /\ c \in usb.awake => r1 = Buffer
             /\ ~(c \in usb.there /\ c \in usb.awake) =>
                  /\ r1 <= Buffer
                  /\ usb.trail[c] = 0 => r1 = IF r > 0 THEN r - 1 ELSE 0
             /\ ~(c \in usb.there /\ c \in usb.awake) /\ c \notin usb.there =>
                  r1 = IF r > 0 THEN r - 1 ELSE 0
<1> DEFINE s == probe[c]
           full == IF c \in usb.awake THEN Buffer ELSE Lesser(Buffer, s.reports + usb.trail[c])
<1>1. candidates'[c] = IF ~s.open THEN s ELSE [s EXCEPT !.reports = full]
  BY ProbeIsTyped DEF PassEnds, Buffered
<1>2. /\ s \in Candidate /\ (s.open <=> c \in usb.there)
      /\ s.reports = IF candidates[c].reports > 0 THEN candidates[c].reports - 1 ELSE 0
      /\ candidates[c].reports \in 0 .. Buffer /\ usb.trail[c] \in Nat
  BY ProbeIsTyped DEF DiscoveryTyped, Candidate
<1>3. /\ c \in usb.awake => full = Buffer
      /\ c \notin usb.awake => full <= Buffer /\ (usb.trail[c] = 0 => full = s.reports)
  BY <1>2, Limits DEF Lesser, Candidate
<1> HIDE DEF s, full
<1>4. [s EXCEPT !.reports = full].reports = full /\ s.reports \in 0 .. Buffer
  BY <1>2 DEF Candidate
<1>5. CASE c \in usb.there
  <2>1. candidates'[c].reports = full
    BY <1>1, <1>2, <1>4, <1>5
  <2> QED
    BY <1>2, <1>3, <1>5, <2>1
<1>6. CASE c \notin usb.there
  <2>1. candidates'[c].reports = s.reports
    BY <1>1, <1>2, <1>6
  <2> QED
    BY <1>2, <1>4, <1>6, <2>1, Limits
<1> QED
  BY <1>5, <1>6

LEMMA LoneIsOne ==
  ASSUME NEW c, Lone(c), NEW d, Lone(d)
  PROVE  d = c
  BY DEF Lone

\* A pass that selects nobody waits for a scan, or another is still active.
LEMMA PassWaits ==
  ASSUME DiscoveryInv, ProbeWaits, NEW c \in Controllers, Lone(c), alone > 0
  PROVE  alone <= MaxScan \/ alone <= Buffer
<1>1. /\ ~indexed.used /\ scan.wait > 0
      /\ Cardinality(Active) # 1 \/ \E d \in Active : OnCooldown(d)
  BY DEF ProbeWaits
<1>2. ComesUp(c) /\ OthersDrain(c)
  BY <1>1, LoneIsOne DEF DiscoveryInv, LoneIsAwaited
<1>3. /\ alone \in Nat /\ scan.wait \in Nat
      /\ \A d \in DOMAIN candidates : candidates[d].reports \in 0 .. Buffer
  BY Limits DEF DiscoveryInv, DiscoveryTyped, Candidate
<1>4. CASE c \notin Active
  BY <1>1, <1>2, <1>3, <1>4, Limits DEF ComesUp, Active
<1>5. CASE c \in Active
  <2>1. PICK d \in Active : d # c
    <3>1. Active = {c} => Cardinality(Active) = 1
      BY FS_Singleton
    <3>2. ~OnCooldown(c)
      BY DEF Lone
    <3> QED
      BY <1>1, <1>5, <3>1, <3>2
  <2>2. d \in DOMAIN candidates /\ candidates[d].reports > 0
    BY DEF Active
  <2> QED
    BY <1>2, <1>3, <2>1, <2>2, Limits DEF OthersDrain
<1> QED
  BY <1>4, <1>5

LEMMA ProbeWaitsKeeps == ASSUME DiscoveryInv, ProbeWaits PROVE DiscoveryInv'
<1>1. /\ ~indexed.used /\ indexed' = indexed /\ chosen' = chosen /\ chosen = Absent
      /\ scan.wait > 0 /\ PassEnds(probe)
  BY DEF ProbeWaits
<1>2. DiscoveryTyped /\ DOMAIN probe \subseteq Controllers
      /\ \A c \in DOMAIN probe : probe[c] \in Candidate
  BY ProbeIsTyped DEF DiscoveryInv, DiscoveryTyped
<1>3. DiscoveryTyped'
  BY <1>1, <1>2, PassIsTyped
<1>4. LoneIsAwaited'
  <2>1. CASE ~\E c \in Controllers : Lone(c)
    BY <1>1, <2>1 DEF PassEnds, LoneIsAwaited
  <2>2. CASE \E c \in Controllers : Lone(c)
    <3>1. PICK c \in Controllers : Lone(c)
      BY <2>2
    <3>2. alone \in Nat /\ scan.wait \in 0 .. MaxScan /\ cooldown.left \in Nat
      BY <1>2 DEF DiscoveryTyped
    <3>3. alone > 0 => ComesUp(c) /\ OthersDrain(c) /\ \A d \in Controllers : usb.trail[d] = 0
      BY <1>1, <3>1, LoneIsOne DEF DiscoveryInv, LoneIsAwaited
    <3>4. alone <= MaxScan \/ alone <= Buffer
      BY <3>1, <3>2, PassWaits, Limits
    <3>5. alone' = alone + 1
      BY <1>1, <3>1, <3>2, <3>4, Limits DEF PassEnds, Patience
    <3>6. Lone(c)'
      <4>1. usb'.awake = usb.awake /\ usb'.there = usb.there
        BY <1>1, <1>2 DEF PassEnds, DiscoveryTyped
      <4>2. cooldown' = [of |-> Absent, left |-> 0]
              \/ (cooldown' = [cooldown EXCEPT !.left = @ - 1] /\ cooldown.left > 1)
        BY <1>1, <3>2 DEF PassEnds
      <4>3. ~OnCooldown(c)'
        BY <1>2, <3>1, <3>2, <4>2 DEF OnCooldown, Lone, DiscoveryTyped
      <4> QED
        BY <3>1, <4>1, <4>3 DEF Lone
    <3>7. DOMAIN candidates' = DOMAIN candidates /\ scan'.wait = scan.wait - 1
      BY <1>1, <1>2, <3>2, ProbeIsTyped, BufferedIsTyped DEF PassEnds, DiscoveryTyped
    <3>8. ComesUp(c)'
      <4>1. CASE c \in DOMAIN candidates
        BY <1>1, <1>2, <3>1, <3>7, <4>1, PassedCandidate, Limits DEF ComesUp, Lone
      <4>2. CASE c \notin DOMAIN candidates
        BY <1>1, <3>2, <3>3, <3>5, <3>7, <4>2, Limits DEF ComesUp
      <4> QED
        BY <4>1, <4>2
    <3>9. OthersDrain(c)'
      <4> SUFFICES ASSUME NEW d \in DOMAIN candidates, d # c
                   PROVE  candidates'[d].reports = 0 \/ candidates'[d].reports + alone' <= Buffer + 1
        BY <3>7 DEF OthersDrain
      <4>1. ~(d \in usb.there /\ d \in usb.awake) /\ d \in Controllers
        BY <1>2, <3>1 DEF Lone, DiscoveryTyped
      <4>2. candidates[d].reports \in 0 .. Buffer /\ candidates'[d].reports \in 0 .. Buffer
        BY <1>2, <1>3, <3>7 DEF DiscoveryTyped, Candidate
      <4>3. CASE alone = 0
        BY <3>5, <4>2, <4>3, Limits
      <4>4. CASE alone > 0
        <5>1. candidates'[d].reports
                = IF candidates[d].reports > 0 THEN candidates[d].reports - 1 ELSE 0
          BY <1>1, <1>2, <3>3, <4>1, <4>4, PassedCandidate
        <5>2. candidates[d].reports = 0 \/ candidates[d].reports + alone <= Buffer + 1
          BY <3>3, <4>4 DEF OthersDrain
        <5> QED
          BY <3>2, <3>5, <4>2, <5>1, <5>2, Limits
      <4> QED
        BY <3>2, <4>3, <4>4
    <3>10. \A d \in Controllers : usb'.trail[d] = 0
      BY <1>1, <1>2 DEF PassEnds, DiscoveryTyped
    <3>11. alone' <= MaxScan + 1 \/ alone' <= Buffer + 1
      BY <3>2, <3>4, <3>5, Limits
    <3> QED
      BY <3>6, <3>8, <3>9, <3>10, <3>11 DEF LoneIsAwaited
  <2> QED
    BY <2>1, <2>2
<1> QED
  BY <1>1, <1>3, <1>4 DEF DiscoveryInv

LEMMA DiscoveryKeeps == DiscoveryInv /\ [DiscoveryNext]_discoveryVars => DiscoveryInv'
<1> SUFFICES ASSUME DiscoveryInv, [DiscoveryNext]_discoveryVars PROVE DiscoveryInv'
  OBVIOUS
<1>1. CASE UNCHANGED discoveryVars
  BY <1>1 DEF discoveryVars, DiscoveryInv, DiscoveryTyped, LoneIsAwaited, Lone, OnCooldown,
    ComesUp, OthersDrain
<1>2. CASE DiscoveryNext
  BY <1>2, ScanKeeps, OtherScansKeep, ProbeWaitsKeeps, SelectsKeep, IndexedWaitsKeep, EndsKeep,
    UsbKeeps DEF DiscoveryNext
<1> QED
  BY <1>1, <1>2

\* A controller that is alone is selected before it has waited for the longest
\* interval between scans and for all the others had buffered: no order of
\* scans, reports and cooldowns makes it wait for both, one after the other.
THEOREM LoneFound == DiscoverySpec => []LoneControllerIsFound
<1>1. DiscoveryInv => LoneControllerIsFound
  BY Limits DEF DiscoveryInv, DiscoveryTyped, LoneIsAwaited, LoneControllerIsFound, Patience
<1> QED
  BY <1>1, DiscoveryStarts, DiscoveryKeeps, PTL DEF DiscoverySpec

-----------------------------------------------------------------------------
(* VirtualHid.                                                             *)

Values == States \cup {Neutral, NoReport}
Items == [kind : {"report", "neutral", "shutdown", "none"}, value : Values, awaited : BOOLEAN]
Orders == [kind : {"report", "neutral", "shutdown", "none"}, value : Values, sequence : Nat]
Words == [kind : {"ready", "event", "applied", "fatal", "eof", "excess", "violation", "torn"}, n : Nat]
Callers == [at : {"opening", "idle", "neutral", "shutdown", "joining", "closed"}, neutral : BOOLEAN]
Workers == [at : {"none", "idle", "waiting", "reaping", "done"}, item : Items,
            sequence : Nat, events : Nat]
Stages == {"starting", "created", "serving", "ended", "hung", "dead", "torn"}
Helpers == [at : Stages, expected : Nat, out : Seq(Words), fatal : {"none", "other", "violation"},
            writer : {"runs", "late", "stopped"}, events : Nat, excesses : Nat]

HidTyped ==
  /\ caller \in Callers
  /\ mailbox \in [queue : Seq(Items), closed : BOOLEAN]
  /\ worker \in Workers
  /\ stdin \in [requests : Seq(Orders), closed : BOOLEAN]
  /\ helper \in Helpers
  /\ inbox \in Seq(Words)

\* What is on its way from the helper, s and then t: delegate events in order,
\* later than lo and up to hi; "ready" once, and only where r says so; an
\* acknowledgement once, and only of a.  Other words end the session.
Enders == Lost \cup Breaches
May(w, lo, hi, r, a) ==
  /\ w.kind = "event" => lo < w.n /\ w.n <= hi
  /\ w.kind = "ready" => r = 1
  /\ w.kind = "applied" => 0 < a /\ w.n = a

Follows(w, v) ==
  w.kind = v.kind => (w.kind = "event" /\ w.n < v.n) \/ w.kind \in Enders

Line(s, t, lo, hi, r, a) ==
  /\ \A i \in DOMAIN s : May(s[i], lo, hi, r, a)
  /\ \A i \in DOMAIN t : May(t[i], lo, hi, r, a)
  /\ \A i, k \in DOMAIN s : i < k => Follows(s[i], s[k])
  /\ \A i, k \in DOMAIN t : i < k => Follows(t[i], t[k])
  /\ \A i \in DOMAIN s, k \in DOMAIN t : Follows(s[i], t[k])

\* The worker's request is where the two ends agree it is.
Unserved ==
  /\ Len(stdin.requests) = 1
  /\ stdin.requests[1].kind = worker.item.kind
  /\ stdin.requests[1].value = worker.item.value
  /\ helper.expected = worker.sequence
  /\ Line(inbox, helper.out, worker.events, helper.events, 0, 0)

Served ==
  /\ stdin.requests = << >>
  /\ helper.expected = worker.sequence + 1
  /\ device \in {worker.item.value, "gone"}
  /\ Line(inbox, helper.out, worker.events, helper.events, 0, worker.sequence)

\* A request the helper could not answer: its writer has stopped.
Refused ==
  /\ stdin.requests = << >>
  /\ helper.at \notin {"starting", "created", "serving"}
  /\ Line(inbox, helper.out, worker.events, helper.events, 0, 0)

Begun == IF helper.at \in {"starting", "created"} THEN 0 ELSE 1

InStep ==
  /\ worker.sequence > 0
  /\ worker.events <= helper.events
  /\ Len(stdin.requests) <= 1
  /\ \A i \in DOMAIN stdin.requests : stdin.requests[i].sequence = helper.expected
  /\ helper.at \in {"starting", "created"} => worker.at = "none"
  /\ worker.at = "none" =>
       /\ stdin.requests = << >> /\ helper.expected = worker.sequence
       /\ Line(inbox, helper.out, worker.events, helper.events,
               Begun, 0)
  /\ worker.at = "idle" =>
       /\ stdin.requests = << >> /\ helper.expected = worker.sequence
       /\ Line(inbox, helper.out, worker.events, helper.events, 0, 0)
  /\ worker.at = "waiting" => Unserved \/ Served \/ Refused

\* Who waits for what.
Called ==
  /\ mailbox.closed => mailbox.queue = << >>
  /\ worker.at # "waiting" => worker.item.kind = "none" /\ ~worker.item.awaited
  /\ worker.at = "none" => caller.at \in {"opening", "closed"} /\ mailbox.queue = << >>
  /\ caller.at = "opening" => worker.at = "none" /\ ~caller.neutral
  /\ worker.item.awaited => /\ worker.item.kind \in {"neutral", "shutdown"}
                            /\ caller.at = worker.item.kind
                            /\ mailbox.queue = << >>
  /\ \A i \in DOMAIN mailbox.queue :
       /\ mailbox.queue[i].awaited <=> ~Ordinary(mailbox.queue[i])
       /\ mailbox.queue[i].kind # "none"
       /\ ~Ordinary(mailbox.queue[i]) => /\ Len(mailbox.queue) = 1
                                         /\ mailbox.queue[i].kind = caller.at
                                         /\ mailbox.queue[i].value = Neutral
  /\ worker.item.kind \in {"neutral", "shutdown"} => worker.item.value = Neutral

\* After an acknowledged neutral nothing on its way to the device is pressed.
Quiet ==
  caller.neutral =>
    /\ device \in {Neutral, "gone"}
    /\ worker.at = "waiting" => worker.item.value = Neutral
    /\ \A i \in DOMAIN mailbox.queue : mailbox.queue[i].value = Neutral
    /\ \A i \in DOMAIN stdin.requests : stdin.requests[i].value = Neutral

\* A broken protocol has its cause.
Clean(s) == \A i \in DOMAIN s : s[i].kind \notin Breaches
Blamed ==
  helper.excesses = 0 =>
    /\ failure # "violation" /\ helper.fatal # "violation" /\ helper.at # "torn"
    /\ Clean(inbox) /\ Clean(helper.out)

KeptInv == HidTyped /\ InStep /\ Called /\ Quiet /\ Blamed

-----------------------------------------------------------------------------
LEMMA AddsLast ==
  ASSUME NEW S, NEW s \in Seq(S), NEW m \in S
  PROVE  /\ Append(s, m) \in Seq(S) /\ Append(s, m) # << >> /\ Len(Append(s, m)) = Len(s) + 1
         /\ \A i \in DOMAIN Append(s, m) :
              \/ i = Len(s) + 1 /\ Append(s, m)[i] = m
              \/ i \in DOMAIN s /\ i <= Len(s) /\ Append(s, m)[i] = s[i]
<1> DEFINE t == Append(s, m)
<1>1. /\ t \in Seq(S) /\ t # << >> /\ Len(t) = Len(s) + 1
      /\ \A i \in 1 .. Len(s) : t[i] = s[i]
      /\ t[Len(s) + 1] = m
  BY AppendProperties
<1>2. DOMAIN t = 1 .. Len(t) /\ DOMAIN s = 1 .. Len(s) /\ Len(s) \in Nat
  BY <1>1, LenProperties
<1> HIDE DEF t
<1>3. \A i \in DOMAIN t : (i = Len(s) + 1 /\ t[i] = m) \/ (i \in DOMAIN s /\ i <= Len(s) /\ t[i] = s[i])
  BY <1>1, <1>2
<1> QED
  BY <1>1, <1>3 DEF t

LEMMA DropsFirst ==
  ASSUME NEW S, NEW s \in Seq(S), s # << >>
  PROVE  /\ Tail(s) \in Seq(S) /\ Head(s) \in S /\ Head(s) = s[1] /\ 1 \in DOMAIN s
         /\ Len(Tail(s)) = Len(s) - 1 /\ Len(s) > 0
         /\ \A i \in DOMAIN Tail(s) : i \in Nat /\ 1 < i + 1 /\ i + 1 \in DOMAIN s /\ Tail(s)[i] = s[i + 1]
         /\ Len(s) = 1 => Tail(s) = << >>
<1> DEFINE t == Tail(s)
<1>1. /\ t \in Seq(S) /\ Head(s) \in S /\ Len(t) = Len(s) - 1 /\ Head(s) = s[1]
      /\ \A i \in 1 .. Len(t) : t[i] = s[i + 1]
  BY HeadTailProperties
<1>2. /\ Len(s) \in Nat /\ DOMAIN s = 1 .. Len(s) /\ Len(s) # 0
      /\ DOMAIN t = 1 .. Len(t)
  BY <1>1, LenProperties, EmptySeq
<1>3. Len(t) = 0 => t = << >>
  BY <1>1, EmptySeq
<1> HIDE DEF t
<1>5. \A i \in DOMAIN t : i \in Nat /\ 1 < i + 1 /\ i + 1 \in DOMAIN s /\ t[i] = s[i + 1]
  BY <1>1, <1>2
<1>6. 1 \in DOMAIN s /\ Len(s) > 0 /\ (Len(s) = 1 => t = << >>)
  BY <1>1, <1>2, <1>3
<1> QED
  BY <1>1, <1>5, <1>6 DEF t

LEMMA HasNone ==
  ASSUME NEW S
  PROVE  << >> \in Seq(S) /\ DOMAIN << >> = {} /\ Len(<< >>) = 0
<1>1. << >> \in Seq(S) /\ Len(<< >>) = 0
  BY EmptySeq
<1>2. DOMAIN << >> = 1 .. 0
  BY <1>1, LenProperties
<1> QED
  BY <1>1, <1>2

LEMMA Positions ==
  ASSUME NEW S, NEW s \in Seq(S)
  PROVE  /\ Len(s) \in Nat /\ DOMAIN s = 1 .. Len(s)
         /\ \A i \in DOMAIN s : i \in Nat /\ s[i] \in S
         /\ Len(s) = 0 <=> s = << >>
<1>1. Len(s) \in Nat /\ DOMAIN s = 1 .. Len(s) /\ \A i \in 1 .. Len(s) : s[i] \in S
  BY LenProperties, ElementOfSeq
<1>2. Len(s) = 0 <=> s = << >>
  BY EmptySeq
<1> QED
  BY <1>1, <1>2

-----------------------------------------------------------------------------
LEMMA LineLoosens ==
  ASSUME NEW s \in Seq(Words), NEW t \in Seq(Words), NEW lo \in Nat, NEW hi \in Nat,
         NEW r \in {0, 1}, NEW a \in Nat, Line(s, t, lo, hi, r, a),
         NEW h \in Nat, hi <= h, NEW q \in {0, 1}, r <= q, NEW b \in Nat, a = 0 \/ b = a
  PROVE  Line(s, t, lo, h, q, b)
<1>1. \A w \in Words : May(w, lo, hi, r, a) => May(w, lo, h, q, b)
  BY DEF May, Words
<1>2. (\A i \in DOMAIN s : s[i] \in Words) /\ (\A i \in DOMAIN t : t[i] \in Words)
  BY Positions
<1> QED
  BY <1>1, <1>2 DEF Line

LEMMA LineOpens ==
  ASSUME NEW s \in Seq(Words), NEW t \in Seq(Words), NEW lo \in Nat, NEW hi \in Nat,
         NEW r \in {0, 1}, NEW a \in Nat, Line(s, t, lo, hi, r, a)
  PROVE  /\ Line(s, t, lo, hi, 1, a)
         /\ \A h \in Nat : hi <= h => Line(s, t, lo, h, r, a)
<1> DEFINE one == 1
<1>1. one \in {0, 1} /\ r <= one /\ r <= r /\ hi <= hi
  OBVIOUS
<1> HIDE DEF one
<1>2. Line(s, t, lo, hi, one, a)
  BY <1>1, LineLoosens
<1>3. \A h \in Nat : hi <= h => Line(s, t, lo, h, r, a)
  BY <1>1, LineLoosens
<1> QED
  BY <1>2, <1>3 DEF one

\* The first word is read; what it says bounds the rest.
LEMMA LineReads ==
  ASSUME NEW s \in Seq(Words), NEW t \in Seq(Words), NEW lo \in Nat, NEW hi \in Nat,
         NEW r \in {0, 1}, NEW a \in Nat, Line(s, t, lo, hi, r, a), s # << >>
  PROVE  /\ Head(s) \in Words /\ May(Head(s), lo, hi, r, a)
         /\ Line(Tail(s), t, lo, hi, r, a)
         /\ Head(s).kind = "event" => Line(Tail(s), t, Head(s).n, hi, r, a)
         /\ Head(s).kind = "ready" => Line(Tail(s), t, lo, hi, 0, a)
         /\ Head(s).kind = "applied" => Line(Tail(s), t, lo, hi, r, 0)
<1> DEFINE u == Tail(s)
           w == Head(s)
<1>1. /\ u \in Seq(Words) /\ w \in Words /\ w = s[1] /\ 1 \in DOMAIN s
      /\ \A i \in DOMAIN u : i \in Nat /\ 1 < i + 1 /\ i + 1 \in DOMAIN s /\ u[i] = s[i + 1]
  BY DropsFirst
<1> HIDE DEF u, w
<1>2. May(w, lo, hi, r, a) /\ \A i \in DOMAIN u : May(u[i], lo, hi, r, a) /\ Follows(w, u[i])
  BY <1>1 DEF Line
<1>3. \A k \in DOMAIN t : May(t[k], lo, hi, r, a) /\ Follows(w, t[k])
  BY <1>1 DEF Line
<1>4. \A i, k \in DOMAIN u : i < k => Follows(u[i], u[k])
  <2> SUFFICES ASSUME NEW i \in DOMAIN u, NEW k \in DOMAIN u, i < k
               PROVE  Follows(u[i], u[k])
    OBVIOUS
  <2>1. i + 1 < k + 1 /\ i + 1 \in DOMAIN s /\ k + 1 \in DOMAIN s
    BY <1>1
  <2> QED
    BY <1>1, <2>1 DEF Line
<1>5. \A i \in DOMAIN u, k \in DOMAIN t : Follows(u[i], t[k])
  BY <1>1 DEF Line
<1>6. \A i, k \in DOMAIN t : i < k => Follows(t[i], t[k])
  BY DEF Line
<1>7. Line(u, t, lo, hi, r, a)
  BY <1>2, <1>3, <1>4, <1>5, <1>6 DEF Line
<1>8. \A v \in Words : May(v, lo, hi, r, a) /\ Follows(w, v) =>
        /\ w.kind = "event" => May(v, w.n, hi, r, a)
        /\ w.kind = "ready" => May(v, lo, hi, 0, a)
        /\ w.kind = "applied" => May(v, lo, hi, r, 0)
  BY DEF May, Follows, Words, Enders, Lost, Breaches
<1>9. (\A i \in DOMAIN u : u[i] \in Words) /\ (\A i \in DOMAIN t : t[i] \in Words)
  BY <1>1, Positions
<1>10. w.kind = "event" => Line(u, t, w.n, hi, r, a)
  BY <1>2, <1>3, <1>4, <1>5, <1>6, <1>8, <1>9 DEF Line
<1>11. w.kind = "ready" => Line(u, t, lo, hi, 0, a)
  BY <1>2, <1>3, <1>4, <1>5, <1>6, <1>8, <1>9 DEF Line
<1>12. w.kind = "applied" => Line(u, t, lo, hi, r, 0)
  BY <1>2, <1>3, <1>4, <1>5, <1>6, <1>8, <1>9 DEF Line
<1> QED
  BY <1>1, <1>2, <1>7, <1>10, <1>11, <1>12 DEF u, w

\* The helper says one more word.
LEMMA LineGrows ==
  ASSUME NEW s \in Seq(Words), NEW t \in Seq(Words), NEW lo \in Nat, NEW hi \in Nat,
         NEW r \in {0, 1}, NEW a \in Nat, Line(s, t, lo, hi, r, a), NEW w \in Words,
         NEW h \in Nat, NEW q \in {0, 1}, NEW b \in Nat,
         \/ w.kind = "event" /\ h = w.n /\ hi < h /\ lo < h /\ q = r /\ b = a
         \/ w.kind = "ready" /\ h = hi /\ r = 0 /\ q = 1 /\ b = a
         \/ w.kind = "applied" /\ h = hi /\ q = r /\ a = 0 /\ b = w.n /\ b > 0
         \/ w.kind \in Enders /\ hi <= h /\ q = r /\ b = a
  PROVE  Line(s, Append(t, w), lo, h, q, b)
<1> DEFINE u == Append(t, w)
<1>1. \A i \in DOMAIN u : \/ i = Len(t) + 1 /\ u[i] = w
                          \/ i \in DOMAIN t /\ i <= Len(t) /\ u[i] = t[i]
  BY AddsLast
<1>2. /\ Len(t) \in Nat /\ (\A i \in DOMAIN t : i \in Nat /\ t[i] \in Words)
      /\ \A i \in DOMAIN s : s[i] \in Words
  BY Positions
<1> HIDE DEF u
<1>3. \A v \in Words : May(v, lo, hi, r, a) => May(v, lo, h, q, b) /\ Follows(v, w)
  BY DEF May, Follows, Words, Enders, Lost, Breaches
<1>4. May(w, lo, h, q, b)
  BY DEF May, Words, Enders, Lost, Breaches
<1>5. (\A i \in DOMAIN s : May(s[i], lo, h, q, b)) /\ (\A i \in DOMAIN u : May(u[i], lo, h, q, b))
  BY <1>1, <1>2, <1>3, <1>4 DEF Line
<1>6. \A i, k \in DOMAIN u : i < k => Follows(u[i], u[k])
  <2> SUFFICES ASSUME NEW i \in DOMAIN u, NEW k \in DOMAIN u, i < k
               PROVE  Follows(u[i], u[k])
    OBVIOUS
  <2>1. i \in DOMAIN t /\ u[i] = t[i] /\ t[i] \in Words
    BY <1>1, <1>2
  <2>2. CASE k \in DOMAIN t /\ u[k] = t[k]
    BY <2>1, <2>2 DEF Line
  <2>3. CASE u[k] = w
    BY <2>1, <2>3, <1>3 DEF Line
  <2> QED
    BY <1>1, <2>2, <2>3
<1>7. \A i \in DOMAIN s, k \in DOMAIN u : Follows(s[i], u[k])
  BY <1>1, <1>2, <1>3 DEF Line
<1>8. \A i, k \in DOMAIN s : i < k => Follows(s[i], s[k])
  BY DEF Line
<1> QED
  BY <1>5, <1>6, <1>7, <1>8 DEF Line, u

LEMMA LineSays ==
  ASSUME NEW s \in Seq(Words), NEW t \in Seq(Words), NEW lo \in Nat, NEW hi \in Nat,
         NEW r \in {0, 1}, NEW a \in Nat, Line(s, t, lo, hi, r, a), NEW w \in Words
  PROVE  /\ w.kind = "event" /\ hi < w.n /\ lo < w.n => Line(s, Append(t, w), lo, w.n, r, a)
         /\ w.kind = "ready" /\ r = 0 => Line(s, Append(t, w), lo, hi, 1, a)
         /\ w.kind = "applied" /\ a = 0 /\ w.n > 0 => Line(s, Append(t, w), lo, hi, r, w.n)
         /\ w.kind \in Enders => \A h \in Nat : hi <= h => Line(s, Append(t, w), lo, h, r, a)
<1> DEFINE one == 1
           n == w.n
<1>1. one \in {0, 1} /\ n \in Nat
  BY DEF Words
<1>2. one = 1 /\ n = w.n
  OBVIOUS
<1> HIDE DEF one, n
<1>3. w.kind = "event" /\ hi < n /\ lo < n => Line(s, Append(t, w), lo, n, r, a)
  BY SMTT(40), <1>1, <1>2, LineGrows
<1>4. w.kind = "ready" /\ r = 0 => Line(s, Append(t, w), lo, hi, one, a)
  BY <1>1, <1>2, LineGrows
<1>5. w.kind = "applied" /\ a = 0 /\ n > 0 => Line(s, Append(t, w), lo, hi, r, n)
  BY <1>1, <1>2, LineGrows
<1>6. ASSUME w.kind \in Enders, NEW h \in Nat, hi <= h PROVE Line(s, Append(t, w), lo, h, r, a)
  BY <1>6, LineGrows
<1> QED
  BY <1>2, <1>3, <1>4, <1>5, <1>6

\* The writer passes a word on.
LEMMA LineMoves ==
  ASSUME NEW s \in Seq(Words), NEW t \in Seq(Words), NEW lo \in Nat, NEW hi \in Nat,
         NEW r \in {0, 1}, NEW a \in Nat, Line(s, t, lo, hi, r, a), t # << >>
  PROVE  Line(Append(s, Head(t)), Tail(t), lo, hi, r, a)
<1> DEFINE w == Head(t)
           v == Tail(t)
           u == Append(s, w)
<1>1. /\ v \in Seq(Words) /\ w \in Words /\ w = t[1] /\ 1 \in DOMAIN t
      /\ \A i \in DOMAIN v : i \in Nat /\ 1 < i + 1 /\ i + 1 \in DOMAIN t /\ v[i] = t[i + 1]
  BY DropsFirst
<1> HIDE DEF v, w
<1>2. \A i \in DOMAIN u : \/ i = Len(s) + 1 /\ u[i] = w
                          \/ i \in DOMAIN s /\ i <= Len(s) /\ u[i] = s[i]
  BY <1>1, AddsLast
<1> HIDE DEF u
<1>3. Len(s) \in Nat
  BY Positions
<1>4. May(w, lo, hi, r, a) /\ \A i \in DOMAIN v : May(v[i], lo, hi, r, a) /\ Follows(w, v[i])
  BY <1>1 DEF Line
<1>5. \A i \in DOMAIN s : May(s[i], lo, hi, r, a) /\ Follows(s[i], w) /\ \A k \in DOMAIN v : Follows(s[i], v[k])
  BY <1>1 DEF Line
<1>6. \A i, k \in DOMAIN v : i < k => Follows(v[i], v[k])
  <2> SUFFICES ASSUME NEW i \in DOMAIN v, NEW k \in DOMAIN v, i < k
               PROVE  Follows(v[i], v[k])
    OBVIOUS
  <2>1. i + 1 < k + 1 /\ i + 1 \in DOMAIN t /\ k + 1 \in DOMAIN t
    BY <1>1
  <2> QED
    BY <1>1, <2>1 DEF Line
<1>7. \A i \in DOMAIN u : May(u[i], lo, hi, r, a)
  BY <1>2, <1>4, <1>5
<1>8. \A i, k \in DOMAIN u : i < k => Follows(u[i], u[k])
  BY <1>2, <1>3, <1>5 DEF Line
<1>9. \A i \in DOMAIN u, k \in DOMAIN v : Follows(u[i], v[k])
  BY <1>2, <1>4, <1>5
<1> QED
  BY <1>4, <1>6, <1>7, <1>8, <1>9 DEF Line, u, v, w

\* The pipe ends; what was not written yet may be gone.
LEMMA LineEnds ==
  ASSUME NEW s \in Seq(Words), NEW t \in Seq(Words), NEW lo \in Nat, NEW hi \in Nat,
         NEW r \in {0, 1}, NEW a \in Nat, Line(s, t, lo, hi, r, a)
  PROVE  Line(s, << >>, lo, hi, r, a)
BY HasNone DEF Line

LEMMA LineCloses ==
  ASSUME NEW s \in Seq(Words), NEW t \in Seq(Words), NEW lo \in Nat, NEW hi \in Nat,
         NEW r \in {0, 1}, NEW a \in Nat, Line(s, t, lo, hi, r, a),
         NEW w \in Words, w.kind \in Enders
  PROVE  Line(Append(s, w), t, lo, hi, r, a)
<1> DEFINE u == Append(s, w)
<1>1. \A i \in DOMAIN u : \/ i = Len(s) + 1 /\ u[i] = w
                          \/ i \in DOMAIN s /\ i <= Len(s) /\ u[i] = s[i]
  BY AddsLast
<1> HIDE DEF u
<1>2. /\ Len(s) \in Nat /\ (\A i \in DOMAIN s : i \in Nat /\ s[i] \in Words)
      /\ \A i \in DOMAIN t : t[i] \in Words
  BY Positions
<1>3. May(w, lo, hi, r, a) /\ \A v \in Words : Follows(w, v) /\ Follows(v, w)
  BY DEF May, Follows, Enders, Lost, Breaches, Words
<1>4. \A i \in DOMAIN u : May(u[i], lo, hi, r, a)
  BY <1>1, <1>3 DEF Line
<1>5. \A i, k \in DOMAIN u : i < k => Follows(u[i], u[k])
  BY <1>1, <1>2, <1>3 DEF Line
<1>6. \A i \in DOMAIN u, k \in DOMAIN t : Follows(u[i], t[k])
  BY <1>1, <1>2, <1>3 DEF Line
<1>7. (\A i \in DOMAIN t : May(t[i], lo, hi, r, a)) /\ \A i, k \in DOMAIN t : i < k => Follows(t[i], t[k])
  BY DEF Line
<1> QED
  BY <1>4, <1>5, <1>6, <1>7 DEF Line, u


-----------------------------------------------------------------------------
LEMMA ItemFacts ==
  /\ \A v \in Values : /\ Report(v) \in Items /\ Report(v).kind = "report"
                       /\ Report(v).value = v /\ ~Report(v).awaited
  /\ NeutralItem \in Items /\ NeutralItem.kind = "neutral"
  /\ NeutralItem.value = Neutral /\ NeutralItem.awaited
  /\ ShutdownItem \in Items /\ ShutdownItem.kind = "shutdown"
  /\ ShutdownItem.value = Neutral /\ ShutdownItem.awaited
  /\ NoItem \in Items /\ NoItem.kind = "none" /\ NoItem.value = NoReport /\ ~NoItem.awaited
<1>1. TRUE \in BOOLEAN /\ FALSE \in BOOLEAN /\ Neutral \in Values /\ NoReport \in Values
  BY DEF Values
<1>2. NeutralItem \in Items /\ ShutdownItem \in Items /\ NoItem \in Items
  BY <1>1, Zenon DEF Items, NeutralItem, ShutdownItem, NoItem
<1>3. \A v \in Values : Report(v) \in Items
  BY <1>1, Zenon DEF Items, Report
<1>4. \A v \in Values : Report(v).kind = "report" /\ Report(v).value = v /\ ~Report(v).awaited
  BY Zenon DEF Report
<1>5. /\ NeutralItem.kind = "neutral" /\ NeutralItem.value = Neutral /\ NeutralItem.awaited
      /\ ShutdownItem.kind = "shutdown" /\ ShutdownItem.value = Neutral /\ ShutdownItem.awaited
      /\ NoItem.kind = "none" /\ NoItem.value = NoReport /\ ~NoItem.awaited
  BY Zenon DEF NeutralItem, ShutdownItem, NoItem
<1> QED
  BY <1>2, <1>3, <1>4, <1>5

LEMMA WordFacts ==
  ASSUME NEW k \in {"ready", "event", "applied", "fatal", "eof", "excess", "violation", "torn"}, NEW n \in Nat
  PROVE  Says(k, n) \in Words /\ Says(k, n).kind = k /\ Says(k, n).n = n
BY DEF Says, Words

LEMMA HidStarts == HidStart => KeptInv
<1> SUFFICES ASSUME HidStart PROVE KeptInv
  OBVIOUS
<1>1. /\ caller.at = "opening" /\ ~caller.neutral
      /\ mailbox.queue = << >> /\ ~mailbox.closed
      /\ worker.at = "none" /\ worker.item = NoItem /\ worker.sequence = 1 /\ worker.events = 0
      /\ stdin.requests = << >>
      /\ helper.at = "starting" /\ helper.expected = 1 /\ helper.out = << >> /\ helper.events = 0
      /\ helper.fatal = "none"
      /\ inbox = << >> /\ failure = "none"
  BY Zenon DEF HidStart
<1>2. HidTyped
  <2>1. TRUE \in BOOLEAN /\ FALSE \in BOOLEAN /\ 0 \in Nat /\ 1 \in Nat
        /\ << >> \in Seq(Words) /\ << >> \in Seq(Orders) /\ << >> \in Seq(Items)
    BY HasNone
  <2>2. caller \in Callers
    BY <2>1, Zenon DEF HidStart, Callers
  <2>3. mailbox \in [queue : Seq(Items), closed : BOOLEAN] /\ stdin \in [requests : Seq(Orders), closed : BOOLEAN]
    BY <2>1, Zenon DEF HidStart
  <2>4. worker \in Workers
    BY <2>1, ItemFacts, Zenon DEF HidStart, Workers
  <2>5. helper \in Helpers
    BY <2>1, Zenon DEF HidStart, Helpers, Stages
  <2> QED
    BY <2>1, <2>2, <2>3, <2>4, <2>5, <1>1 DEF HidTyped
<1>3. InStep
  BY <1>1, HasNone DEF InStep, Begun, Line
<1>4. Called
  BY <1>1, HasNone, ItemFacts DEF Called
<1>5. Quiet /\ Blamed
  BY <1>1, HasNone DEF Quiet, Blamed, Clean
<1> QED
  BY <1>2, <1>3, <1>4, <1>5 DEF KeptInv

-----------------------------------------------------------------------------
(* The session's calls.                                                    *)

LEMMA InStepStays ==
  ASSUME InStep, UNCHANGED <<worker, stdin, helper, inbox, device>>
  PROVE  InStep'
BY DEF InStep, Begun, Unserved, Served, Refused

LEMMA BlameStays ==
  ASSUME Blamed, UNCHANGED <<helper, inbox>>, failure' \in {failure, "other"}
  PROVE  Blamed'
BY DEF Blamed

LEMMA CleanFacts ==
  ASSUME NEW s \in Seq(Words), Clean(s)
  PROVE  /\ \A w \in Words : w.kind \notin Breaches => Clean(Append(s, w))
         /\ s # << >> => Clean(Tail(s)) /\ Head(s).kind \notin Breaches
<1>1. ASSUME NEW w \in Words, w.kind \notin Breaches PROVE Clean(Append(s, w))
  BY <1>1, AddsLast DEF Clean
<1>2. ASSUME s # << >> PROVE Clean(Tail(s)) /\ Head(s).kind \notin Breaches
  BY <1>2, DropsFirst DEF Clean
<1> QED
  BY <1>1, <1>2

LEMMA BlameReads ==
  ASSUME Blamed, helper \in Helpers, inbox \in Seq(Words), inbox # << >>, inbox' = Tail(inbox), UNCHANGED helper,
         \/ failure' \in {failure, "other"}
         \/ Head(inbox).kind \in Breaches /\ failure' \in {failure, "violation"}
  PROVE  Blamed'
<1>1. Clean(inbox) => Clean(inbox') /\ Head(inbox).kind \notin Breaches
  BY CleanFacts
<1> QED
  BY <1>1 DEF Blamed

\* The helper says nothing new, and knows of no breach it did not know of.
LEMMA BlameGoesOn ==
  ASSUME Blamed, helper' \in Helpers, helper \in Helpers,
         helper'.excesses >= helper.excesses,
         helper'.excesses = 0 => /\ helper'.fatal # "violation" \/ helper'.fatal = helper.fatal
                                 /\ helper'.at # "torn" \/ helper'.at = helper.at,
         helper'.out \in {helper.out, << >>}, inbox' = inbox, failure' = failure
  PROVE  Blamed'
<1>1. helper'.excesses = 0 => helper.excesses = 0
  BY DEF Helpers
<1>2. Clean(<< >>)
  BY HasNone DEF Clean
<1> QED
  BY <1>1, <1>2 DEF Blamed

LEMMA CallerMoves ==
  ASSUME NEW c \in Callers, NEW p \in {"opening", "idle", "neutral", "shutdown", "joining", "closed"}
  PROVE  /\ [c EXCEPT !.at = p] \in Callers
         /\ [c EXCEPT !.at = p].at = p /\ [c EXCEPT !.at = p].neutral = c.neutral
<1>1. [c EXCEPT !.at = p] \in Callers
  BY Zenon DEF Callers
<1>2. [c EXCEPT !.at = p].at = p /\ [c EXCEPT !.at = p].neutral = c.neutral
  BY Zenon DEF Callers
<1> QED
  BY <1>1, <1>2

LEMMA CallerIsTyped ==
  ASSUME NEW c \in Callers, NEW p \in {"opening", "idle", "neutral", "shutdown", "joining", "closed"},
         NEW b \in BOOLEAN
  PROVE  /\ [c EXCEPT !.at = p] \in Callers /\ [c EXCEPT !.neutral = b] \in Callers
         /\ [c EXCEPT !.at = p, !.neutral = b] \in Callers
         /\ [c EXCEPT !.at = p].at = p /\ [c EXCEPT !.at = p].neutral = c.neutral
         /\ [c EXCEPT !.neutral = b].at = c.at /\ [c EXCEPT !.neutral = b].neutral = b
         /\ [c EXCEPT !.at = p, !.neutral = b].at = p /\ [c EXCEPT !.at = p, !.neutral = b].neutral = b
<1>1. [c EXCEPT !.at = p] \in Callers /\ [c EXCEPT !.neutral = b] \in Callers
  BY Zenon DEF Callers
<1>2. [c EXCEPT !.at = p, !.neutral = b] \in Callers
  BY Zenon DEF Callers
<1>3. /\ [c EXCEPT !.at = p].at = p /\ [c EXCEPT !.at = p].neutral = c.neutral
      /\ [c EXCEPT !.neutral = b].at = c.at /\ [c EXCEPT !.neutral = b].neutral = b
  BY Zenon DEF Callers
<1>4. [c EXCEPT !.at = p, !.neutral = b].at = p /\ [c EXCEPT !.at = p, !.neutral = b].neutral = b
  BY Zenon DEF Callers
<1> QED
  BY <1>1, <1>2, <1>3, <1>4

LEMMA ClosedMailbox ==
  ASSUME Closes
  PROVE  /\ mailbox' \in [queue : Seq(Items), closed : BOOLEAN]
         /\ mailbox'.queue = << >> /\ DOMAIN mailbox'.queue = {}
<1>1. TRUE \in BOOLEAN /\ << >> \in Seq(Items) /\ DOMAIN << >> = {}
  BY HasNone
<1>2. mailbox' \in [queue : Seq(Items), closed : BOOLEAN]
  BY <1>1, Zenon DEF Closes
<1>3. mailbox'.queue = << >>
  BY Zenon DEF Closes
<1> QED
  BY <1>1, <1>2, <1>3

\* Nothing that somebody waits for is queued while the session is not waiting.
LEMMA IdleQueue ==
  ASSUME KeptInv, caller.at = "idle"
  PROVE  mailbox.queue \in Seq(Items) /\ \A i \in DOMAIN mailbox.queue :
           Ordinary(mailbox.queue[i]) /\ ~mailbox.queue[i].awaited
<1>1. mailbox.queue \in Seq(Items)
  BY DEF KeptInv, HidTyped
<1>2. \A i \in DOMAIN mailbox.queue : mailbox.queue[i].kind # "idle"
  <2>1. \A i \in DOMAIN mailbox.queue : mailbox.queue[i] \in Items
    BY <1>1, Positions
  <2>2. \A x \in Items : x.kind # "idle"
    BY Zenon DEF Items
  <2> QED
    BY <2>1, <2>2
<1>3. \A i \in DOMAIN mailbox.queue : Ordinary(mailbox.queue[i])
  BY <1>2 DEF KeptInv, Called
<1> QED
  BY <1>1, <1>3 DEF KeptInv, Called

LEMMA SendStateKeeps == ASSUME KeptInv, NEW v \in States, SendState(v) PROVE KeptInv'
<1> USE DEF KeptInv
<1> DEFINE q == mailbox.queue
<1>0. FALSE \in BOOLEAN /\ v \in Values
  BY DEF Values
<1>1. /\ caller.at = "idle" /\ failure = "none" /\ ~mailbox.closed
      /\ caller'.at = "idle" /\ ~caller'.neutral /\ caller' \in Callers
      /\ worker' = worker /\ worker.at # "none"
      /\ UNCHANGED <<worker, stdin, helper, inbox, device>>
  BY <1>0, CallerIsTyped DEF SendState, MayCall, Idle, HidTyped, Called
<1>2. q \in Seq(Items)
  BY DEF HidTyped
<1>3. /\ mailbox' \in [queue : Seq(Items), closed : BOOLEAN]
      /\ mailbox'.closed => mailbox'.queue = << >>
      /\ \A i \in DOMAIN mailbox'.queue : Ordinary(mailbox'.queue[i]) /\ ~mailbox'.queue[i].awaited
      /\ failure' \in {failure, "other"}
  <2>0. \A i \in DOMAIN q : Ordinary(q[i]) /\ ~q[i].awaited
    BY <1>1, IdleQueue
  <2>1. CASE Closes /\ failure' = Latched("other")
    BY <2>1, <1>1, ClosedMailbox DEF Latched
  <2>2. CASE mailbox' = [mailbox EXCEPT !.queue[Len(q)] = Report(v)] /\ q # << >> /\ UNCHANGED failure
    <3> DEFINE r == Report(v)
               p == [q EXCEPT ![Len(q)] = r]
    <3>1. r \in Items /\ Ordinary(r) /\ ~r.awaited
      BY <1>0, ItemFacts DEF Ordinary
    <3> HIDE DEF r
    <3>2. p \in Seq(Items) /\ DOMAIN p = DOMAIN q /\ \A i \in DOMAIN p : p[i] = r \/ p[i] = q[i]
      <4>1. Len(q) \in 1 .. Len(q) /\ DOMAIN q = 1 .. Len(q)
        BY <1>2, <2>2, Positions
      <4>2. p \in Seq(Items) /\ Len(p) = Len(q) /\ \A i \in 1 .. Len(q) : p[i] = IF i = Len(q) THEN r ELSE q[i]
        BY <1>2, <3>1, <4>1, ExceptSeq
      <4> HIDE DEF p
      <4>3. DOMAIN p = 1 .. Len(p)
        BY <4>2, Positions
      <4> QED
        BY <4>1, <4>2, <4>3
    <3>3. mailbox' = [mailbox EXCEPT !.queue = p]
      BY <2>2 DEF r
    <3> HIDE DEF p
    <3>4. mailbox'.queue = p /\ mailbox'.closed = mailbox.closed /\ mailbox' \in [queue : Seq(Items), closed : BOOLEAN]
      BY <3>2, <3>3 DEF HidTyped
    <3> QED
      BY <1>1, <2>0, <2>2, <3>1, <3>2, <3>4 DEF Ordinary
  <2>3. CASE mailbox' = [mailbox EXCEPT !.queue = Append(q, Report(v))] /\ UNCHANGED failure
    <3> DEFINE r == Report(v)
               p == Append(q, r)
    <3>1. r \in Items /\ Ordinary(r) /\ ~r.awaited
      BY <1>0, ItemFacts DEF Ordinary
    <3> HIDE DEF r
    <3>2. p \in Seq(Items) /\ \A i \in DOMAIN p : p[i] = r \/ (i \in DOMAIN q /\ p[i] = q[i])
      BY <1>2, <3>1, AddsLast
    <3>3. mailbox' = [mailbox EXCEPT !.queue = p]
      BY <2>3 DEF r
    <3> HIDE DEF p
    <3>4. mailbox'.queue = p /\ mailbox'.closed = mailbox.closed /\ mailbox' \in [queue : Seq(Items), closed : BOOLEAN]
      BY <3>2, <3>3 DEF HidTyped
    <3> QED
      BY <1>1, <2>0, <2>3, <3>1, <3>2, <3>4 DEF Ordinary
  <2> QED
    BY <2>1, <2>2, <2>3 DEF SendState
<1>4. HidTyped'
  BY <1>1, <1>3 DEF HidTyped
<1>5. InStep'
  BY <1>1, InStepStays
<1>6. Called'
  BY <1>1, <1>3 DEF Called, Ordinary
<1>7. Quiet'
  BY <1>1 DEF Quiet
<1> QED
  BY BlameStays, <1>1, <1>3, <1>4, <1>5, <1>6, <1>7

\* What somebody waits for alone is in the queue then.
LEMMA AwaitedAlone ==
  ASSUME KeptInv, caller.at = "idle", NEW w \in Items, w.value = Neutral, w.awaited,
         w.kind \in {"neutral", "shutdown"}, ~mailbox.closed,
         mailbox' = [mailbox EXCEPT !.queue = Append(Unsupplanted(mailbox.queue), w)],
         caller'.at = w.kind
  PROVE  /\ mailbox' \in [queue : Seq(Items), closed : BOOLEAN] /\ ~mailbox'.closed
         /\ \A i \in DOMAIN mailbox'.queue :
              /\ mailbox'.queue[i] = w /\ Len(mailbox'.queue) = 1
<1> USE DEF KeptInv
<1>1. Unsupplanted(mailbox.queue) = << >>
  BY IdleQueue DEF Unsupplanted
<1> DEFINE q == Append(<< >>, w)
<1>2. q \in Seq(Items) /\ Len(q) = 1 /\ \A i \in DOMAIN q : q[i] = w
  BY HasNone, AddsLast
<1>3. mailbox' = [mailbox EXCEPT !.queue = q]
  BY <1>1
<1> HIDE DEF q
<1>4. mailbox'.queue = q /\ mailbox'.closed = mailbox.closed /\ mailbox' \in [queue : Seq(Items), closed : BOOLEAN]
  BY <1>2, <1>3 DEF HidTyped
<1> QED
  BY <1>2, <1>4

LEMMA NeutralKeeps == ASSUME KeptInv, SendNeutral PROVE KeptInv'
<1> USE DEF KeptInv
<1> DEFINE w == NeutralItem
<1>0. /\ FALSE \in BOOLEAN /\ w \in Items /\ w.kind = "neutral" /\ w.value = Neutral /\ w.awaited
  BY ItemFacts
<1>1. /\ caller.at = "idle" /\ failure = "none" /\ ~mailbox.closed
      /\ caller'.at = "neutral" /\ ~caller'.neutral /\ caller' \in Callers
      /\ UNCHANGED <<worker, failure, stdin, helper, inbox, device>>
  BY <1>0, CallerIsTyped DEF SendNeutral, MayCall, Idle, HidTyped
<1>2. mailbox' = [mailbox EXCEPT !.queue = Append(Unsupplanted(mailbox.queue), w)]
  BY DEF SendNeutral
<1> HIDE DEF w
<1>3. /\ mailbox' \in [queue : Seq(Items), closed : BOOLEAN] /\ ~mailbox'.closed
      /\ \A i \in DOMAIN mailbox'.queue : mailbox'.queue[i] = w /\ Len(mailbox'.queue) = 1
  BY <1>0, <1>1, <1>2, AwaitedAlone
<1>4. HidTyped'
  BY <1>1, <1>3 DEF HidTyped
<1>5. InStep'
  BY <1>1, InStepStays
<1>6. Called'
  BY <1>0, <1>1, <1>3 DEF Called, Ordinary
<1>7. Quiet'
  BY <1>1 DEF Quiet
<1> QED
  BY BlameStays, <1>1, <1>4, <1>5, <1>6, <1>7

LEMMA ShutdownCallKeeps == ASSUME KeptInv, Shutdown PROVE KeptInv'
<1> USE DEF KeptInv
<1> DEFINE w == ShutdownItem
<1>0. /\ w \in Items /\ w.kind = "shutdown" /\ w.value = Neutral /\ w.awaited
  BY ItemFacts
<1>1. /\ caller.at = "idle" /\ caller' \in Callers /\ caller'.neutral = caller.neutral
      /\ caller'.at = IF mailbox.closed THEN "joining" ELSE "shutdown"
      /\ UNCHANGED <<worker, failure, stdin, helper, inbox, device>>
  <2> DEFINE p == IF mailbox.closed THEN "joining" ELSE "shutdown"
  <2>1. /\ caller.at = "idle" /\ caller' = [caller EXCEPT !.at = p] /\ caller \in Callers
        /\ UNCHANGED <<worker, failure, stdin, helper, inbox, device>>
    BY DEF Shutdown, Idle, HidTyped
  <2>2. p \in {"opening", "idle", "neutral", "shutdown", "joining", "closed"}
    OBVIOUS
  <2> HIDE DEF p
  <2>4. caller' \in Callers /\ caller'.neutral = caller.neutral /\ caller'.at = p
    BY <2>1, <2>2, CallerMoves
  <2> QED
    BY <2>1, <2>4 DEF p
<1>2. mailbox' = IF mailbox.closed THEN mailbox
                 ELSE [mailbox EXCEPT !.queue = Append(Unsupplanted(mailbox.queue), w)]
  BY DEF Shutdown
<1> HIDE DEF w
<1>3. /\ mailbox' \in [queue : Seq(Items), closed : BOOLEAN] /\ mailbox'.closed = mailbox.closed
      /\ \A i \in DOMAIN mailbox'.queue : /\ mailbox'.queue[i] = w /\ Len(mailbox'.queue) = 1
                                          /\ ~mailbox.closed
      /\ mailbox.closed => mailbox'.queue = << >>
  <2>1. CASE mailbox.closed
    BY <1>2, <2>1, HasNone DEF Called, HidTyped
  <2>2. CASE ~mailbox.closed
    <3>1. mailbox' = [mailbox EXCEPT !.queue = Append(Unsupplanted(mailbox.queue), w)] /\ caller'.at = w.kind
      BY <1>0, <1>1, <1>2, <2>2
    <3> QED
      BY <1>0, <1>1, <2>2, <3>1, AwaitedAlone DEF HidTyped
  <2> QED
    BY <2>1, <2>2
<1>4. HidTyped'
  BY <1>1, <1>3 DEF HidTyped
<1>5. InStep'
  BY <1>1, InStepStays
<1>6. Called'
  BY <1>0, <1>1, <1>3 DEF Called, Ordinary
<1>7. Quiet'
  BY <1>0, <1>1, <1>3 DEF Quiet
<1> QED
  BY BlameStays, <1>1, <1>4, <1>5, <1>6, <1>7

LEMMA GivenUpItem ==
  ASSUME NEW w \in Workers
  PROVE  LET v == [w EXCEPT !.item.awaited = FALSE] IN
         /\ v \in Workers /\ ~v.item.awaited /\ v.item.kind = w.item.kind /\ v.item.value = w.item.value
         /\ v.at = w.at /\ v.sequence = w.sequence /\ v.events = w.events
<1> DEFINE i == w.item
           j == [i EXCEPT !.awaited = FALSE]
           v == [w EXCEPT !.item = j]
<1>1. FALSE \in BOOLEAN /\ i \in Items
  BY DEF Workers
<1>2. j \in Items
  BY <1>1, Zenon DEF Items
<1>3. ~j.awaited /\ j.kind = i.kind /\ j.value = i.value
  BY <1>1, Zenon DEF Items
<1>5. [w EXCEPT !.item.awaited = FALSE] = v
  OBVIOUS
<1> HIDE DEF j
<1>6. /\ v \in Workers /\ v.item = j /\ v.at = w.at /\ v.sequence = w.sequence /\ v.events = w.events
  BY <1>2 DEF Workers
<1> HIDE DEF v
<1>7. /\ v \in Workers /\ ~v.item.awaited /\ v.item.kind = w.item.kind /\ v.item.value = w.item.value
      /\ v.at = w.at /\ v.sequence = w.sequence /\ v.events = w.events
  BY <1>3, <1>6
<1> QED
  BY <1>5, <1>7

LEMMA GiveUpKeeps == ASSUME KeptInv, CallerGivesUp PROVE KeptInv'
<1> USE DEF KeptInv
<1>1. /\ worker' \in Workers /\ ~worker'.item.awaited
      /\ worker'.item.kind = worker.item.kind /\ worker'.item.value = worker.item.value
      /\ worker'.at = worker.at /\ worker'.sequence = worker.sequence /\ worker'.events = worker.events
  BY GivenUpItem DEF CallerGivesUp, HidTyped
<1>2. /\ mailbox' \in [queue : Seq(Items), closed : BOOLEAN]
      /\ mailbox'.queue = << >> /\ DOMAIN mailbox'.queue = {}
  BY ClosedMailbox DEF CallerGivesUp
<1>3. /\ caller' \in Callers /\ caller'.neutral = caller.neutral /\ caller'.at \in {"idle", "joining"}
      /\ failure' \in {failure, "other"}
      /\ worker.at \in {"waiting", "reaping"}
      /\ UNCHANGED <<stdin, helper, inbox, device>>
  <2>1. caller \in Callers /\ FALSE \in BOOLEAN
    BY DEF HidTyped
  <2>2. \/ caller' = [caller EXCEPT !.at = "idle"]
        \/ caller' = [caller EXCEPT !.at = "joining"]
    BY DEF CallerGivesUp
  <2>3. caller' \in Callers /\ caller'.neutral = caller.neutral /\ caller'.at \in {"idle", "joining"}
    <3>1. ASSUME NEW p \in {"idle", "joining"}, caller' = [caller EXCEPT !.at = p]
          PROVE  caller' \in Callers /\ caller'.neutral = caller.neutral /\ caller'.at = p
      BY <2>1, <3>1, Zenon DEF Callers
    <3> QED
      BY <2>2, <3>1
  <2> QED
    BY <2>3 DEF CallerGivesUp, Latched
<1>4. HidTyped'
  BY <1>1, <1>2, <1>3 DEF HidTyped
<1>5. InStep'
  BY <1>1, <1>3 DEF InStep, Begun, Unserved, Served, Refused
<1>6. Called'
  BY <1>1, <1>2, <1>3 DEF Called
<1>7. Quiet'
  BY <1>1, <1>2, <1>3 DEF Quiet
<1> QED
  BY BlameStays, <1>3, <1>4, <1>5, <1>6, <1>7

LEMMA JoinKeeps == ASSUME KeptInv, Join PROVE KeptInv'
<1> USE DEF KeptInv
<1>1. Closes
  BY DEF Join, Closes
<1>2. /\ mailbox' \in [queue : Seq(Items), closed : BOOLEAN]
      /\ mailbox'.queue = << >> /\ DOMAIN mailbox'.queue = {}
  BY <1>1, ClosedMailbox
<1>3. /\ caller' \in Callers /\ caller'.neutral = caller.neutral /\ caller'.at = "closed"
      /\ worker.at = "done"
      /\ UNCHANGED <<worker, failure, stdin, helper, inbox, device>>
  BY CallerMoves DEF Join, HidTyped
<1>4. HidTyped'
  BY <1>2, <1>3 DEF HidTyped
<1>5. InStep'
  BY <1>3, InStepStays
<1>6. Called'
  BY <1>2, <1>3, ItemFacts DEF Called
<1>7. Quiet'
  BY <1>2, <1>3 DEF Quiet
<1> QED
  BY BlameStays, <1>3, <1>4, <1>5, <1>6, <1>7

\* The head of the inbox is read: no word in the pipe is one it may not be.
LEMMA OpenKeeps == ASSUME KeptInv, Opens PROVE KeptInv'
<1> USE DEF KeptInv
<1> DEFINE w == Head(inbox)
           started == Begun
<1>0. /\ inbox \in Seq(Words) /\ helper.out \in Seq(Words) /\ worker.events \in Nat /\ helper.events \in Nat
      /\ worker.sequence \in Nat /\ helper.at \in Stages
  BY DEF HidTyped, Workers, Helpers
<1>1. /\ inbox # << >> /\ (w.kind = "ready" \/ w.kind = "event") /\ inbox' = Tail(inbox) /\ caller.at = "opening"
      /\ UNCHANGED <<mailbox, failure, stdin, helper, device>>
      /\ worker.at = "none" /\ worker.item.kind = "none" /\ ~worker.item.awaited
      /\ mailbox.queue = << >> /\ ~caller.neutral
  BY DEF Opens, Counts, Called
<1>2. Line(inbox, helper.out, worker.events, helper.events, started, 0)
  BY <1>1 DEF InStep, Begun
<1> HIDE DEF w, started
<1>4. /\ started \in {0, 1}
      /\ inbox' \in Seq(Words)
  BY <1>0, <1>1, DropsFirst DEF started, Begun
<1>5. /\ w \in Words /\ May(w, worker.events, helper.events, started, 0)
      /\ Line(inbox', helper.out, worker.events, helper.events, started, 0)
      /\ w.kind = "event" => Line(inbox', helper.out, w.n, helper.events, started, 0)
      /\ w.kind = "ready" => Line(inbox', helper.out, worker.events, helper.events, 0, 0)
  BY <1>0, <1>1, <1>2, <1>4, LineReads DEF w
<1>6. /\ w.kind \in {"ready", "event"} /\ w.n \in Nat
      /\ w.kind = "ready" => started = 1
      /\ w.kind = "event" => w.n <= helper.events
  BY <1>1, <1>5 DEF Words, May
<1>9. Blamed'
  BY <1>0, <1>1, BlameReads DEF HidTyped
<1>7. CASE w.kind = "ready"
  <2>1. /\ caller'.at = "idle" /\ caller' \in Callers /\ caller'.neutral = caller.neutral
    <3>1. caller' = [caller EXCEPT !.at = "idle"] /\ caller \in Callers
      BY <1>7 DEF Opens, Counts, HidTyped, w
    <3>2. "idle" \in {"opening", "idle", "neutral", "shutdown", "joining", "closed"}
      OBVIOUS
    <3> QED
      BY <3>1, <3>2, CallerMoves, Zenon
  <2>2. worker' = [worker EXCEPT !.at = "idle"]
    BY <1>7 DEF Opens, Counts, w
  <2>3. /\ worker' \in Workers /\ worker'.at = "idle" /\ worker'.item = worker.item
        /\ worker'.sequence = worker.sequence /\ worker'.events = worker.events
    BY <2>2 DEF HidTyped, Workers
  <2>4. HidTyped'
    BY <1>1, <1>4, <2>1, <2>3 DEF HidTyped
  <2>5. InStep'
    BY <1>0, <1>1, <1>5, <1>6, <1>7, <2>3 DEF InStep, started, Begun
  <2>6. Called' /\ Quiet'
    BY <1>1, <2>1, <2>3, ItemFacts, HasNone DEF Called, Quiet
  <2> QED
    BY <1>9, <2>4, <2>5, <2>6
<1>8. CASE w.kind = "event"
  <2>1. worker' = [worker EXCEPT !.events = w.n] /\ caller' = caller
    BY <1>8 DEF Opens, Counts, w
  <2>3. /\ worker' \in Workers /\ worker'.at = "none" /\ worker'.item = worker.item
        /\ worker'.sequence = worker.sequence /\ worker'.events = w.n
    BY <1>1, <1>6, <2>1 DEF HidTyped, Workers
  <2>4. HidTyped'
    BY <1>1, <1>4, <2>1, <2>3 DEF HidTyped
  <2>5. InStep'
    BY <1>0, <1>1, <1>5, <1>6, <1>8, <2>3 DEF InStep, started, Begun
  <2>6. Called' /\ Quiet'
    BY <1>1, <2>1, <2>3, ItemFacts, HasNone DEF Called, Quiet
  <2> QED
    BY <1>9, <2>4, <2>5, <2>6
<1> QED
  BY <1>6, <1>7, <1>8

\* The helper stops, or stopped before: what it said may be lost, and the
\* device goes or stays as it was.
LEMMA StopKeeps ==
  ASSUME KeptInv, helper' \in Helpers,
         helper'.at = helper.at \/ helper'.at \notin {"starting", "created", "serving"},
         helper'.expected = helper.expected, helper'.out \in {helper.out, << >>},
         helper'.events = helper.events, device' \in {device, "gone"},
         inbox' \in Seq(Words),
         inbox' = inbox \/ \E w \in Words : w.kind \in Enders /\ inbox' = Append(inbox, w),
         UNCHANGED <<stdin, worker>>
  PROVE  InStep'
<1> USE DEF KeptInv
<1>0. /\ inbox \in Seq(Words) /\ helper.out \in Seq(Words) /\ helper'.out \in Seq(Words)
      /\ worker.events \in Nat /\ helper.events \in Nat /\ worker.sequence \in Nat
  BY DEF HidTyped, Workers, Helpers
<1>1. ASSUME NEW r \in {0, 1}, NEW a \in Nat,
             Line(inbox, helper.out, worker.events, helper.events, r, a)
      PROVE  Line(inbox', helper'.out, worker.events, helper.events, r, a)
  <2>1. Line(inbox, helper'.out, worker.events, helper.events, r, a)
    <3>1. Line(inbox, << >>, worker.events, helper.events, r, a)
      BY <1>0, <1>1, LineEnds
    <3> QED
      BY <1>1, <3>1
  <2> DEFINE o == helper'.out
  <2>2. o \in Seq(Words) /\ Line(inbox, o, worker.events, helper.events, r, a)
    BY <1>0, <2>1
  <2> HIDE DEF o
  <2>3. ASSUME NEW w \in Words, w.kind \in Enders
        PROVE  Line(Append(inbox, w), o, worker.events, helper.events, r, a)
    BY SMTT(40), <1>0, <2>2, <2>3, LineCloses
  <2>4. CASE inbox' = inbox
    BY <2>2, <2>4 DEF o
  <2>5. CASE \E w \in Words : w.kind \in Enders /\ inbox' = Append(inbox, w)
    <3>1. PICK w \in Words : w.kind \in Enders /\ inbox' = Append(inbox, w)
      BY <2>5
    <3>2. Line(inbox', o, worker.events, helper.events, r, a)
      BY <2>3, <3>1
    <3> QED
      BY <3>2 DEF o
  <2> QED
    BY <2>4, <2>5
<1>2. 0 \in {0, 1} /\ 1 \in {0, 1} /\ 0 \in Nat
  OBVIOUS
<1>3. worker.at = "none" => Line(inbox', helper'.out, worker.events, helper.events, Begun', 0)
  <2> SUFFICES ASSUME worker.at = "none"
               PROVE  Line(inbox', helper'.out, worker.events, helper.events, Begun', 0)
    OBVIOUS
  <2> DEFINE r == Begun
             q == Begun'
  <2>1. Line(inbox, helper.out, worker.events, helper.events, r, 0) /\ r \in {0, 1}
    BY DEF InStep, Begun
  <2>2. q \in {0, 1} /\ (q = r \/ q = 1)
    BY DEF Begun
  <2> HIDE DEF r, q
  <2>3. Line(inbox, helper.out, worker.events, helper.events, 1, 0)
    BY <1>0, <2>1, LineOpens
  <2>4. Line(inbox, helper.out, worker.events, helper.events, q, 0)
    BY <2>1, <2>2, <2>3
  <2>5. Line(inbox', helper'.out, worker.events, helper.events, q, 0)
    BY <1>1, <1>2, <2>2, <2>4
  <2> QED
    BY <2>5 DEF q
<1>4. worker.at = "idle" => Line(inbox', helper'.out, worker.events, helper.events, 0, 0)
  BY <1>1, <1>2 DEF InStep, Begun
<1>5. worker.at = "waiting" => Unserved' \/ Served' \/ Refused'
  BY <1>0, <1>1, <1>2 DEF InStep, Unserved, Served, Refused
<1>6. helper'.at \in {"starting", "created"} => worker.at = "none"
  BY DEF InStep
<1> QED
  BY <1>3, <1>4, <1>5, <1>6 DEF InStep

LEMMA NotOpenKeeps == ASSUME KeptInv, DoesNotOpen PROVE KeptInv'
<1> USE DEF KeptInv
<1>1. /\ caller.at = "opening" /\ caller' \in Callers /\ caller'.at = "closed"
      /\ caller'.neutral = caller.neutral /\ device' = "gone"
      /\ helper' = [helper EXCEPT !.at = "dead"]
      /\ UNCHANGED <<mailbox, worker, failure, stdin, inbox>>
  BY CallerMoves DEF DoesNotOpen, HidTyped
<1>2. /\ helper' \in Helpers /\ helper'.at = "dead" /\ helper'.expected = helper.expected
      /\ helper'.out = helper.out /\ helper'.events = helper.events
      /\ helper'.fatal = helper.fatal /\ helper'.excesses = helper.excesses
  BY <1>1 DEF HidTyped, Helpers, Stages
<1>7. Blamed'
  BY <1>1, <1>2, BlameGoesOn DEF HidTyped, Helpers
<1>3. HidTyped'
  BY <1>1, <1>2 DEF HidTyped
<1>4. InStep'
  BY <1>1, <1>2, StopKeeps DEF HidTyped
<1>5. Called'
  BY <1>1, HasNone DEF Called
<1>6. Quiet'
  BY <1>1 DEF Quiet, Called
<1> QED
  BY <1>3, <1>4, <1>5, <1>6, <1>7

-----------------------------------------------------------------------------
(* The worker.                                                             *)

LEMMA TakeKeeps == ASSUME KeptInv, WorkerTakes PROVE KeptInv'
<1> USE DEF KeptInv
<1> DEFINE w == Head(mailbox.queue)
           r == [kind |-> w.kind, value |-> w.value, sequence |-> worker.sequence]
           q == Append(stdin.requests, r)
           t == Tail(mailbox.queue)
<1>0. /\ mailbox.queue \in Seq(Items) /\ worker.sequence \in Nat /\ mailbox.queue # << >>
      /\ worker.at = "idle" /\ stdin.requests = << >>
  BY DEF HidTyped, Workers, WorkerTakes, InStep, Begun
<1>1. /\ t \in Seq(Items) /\ w \in Items /\ w = mailbox.queue[1] /\ 1 \in DOMAIN mailbox.queue
      /\ \A i \in DOMAIN t : i + 1 \in DOMAIN mailbox.queue /\ t[i] = mailbox.queue[i + 1]
      /\ Len(mailbox.queue) = 1 => t = << >>
  BY <1>0, DropsFirst
<1> HIDE DEF t, w
<1>2. r \in Orders /\ r.kind = w.kind /\ r.value = w.value /\ r.sequence = worker.sequence
  BY <1>0, <1>1 DEF Orders, Items
<1> HIDE DEF r
<1>3. q \in Seq(Orders) /\ Len(q) = 1 /\ DOMAIN q = {1} /\ q[1] = r
  <2>1. q \in Seq(Orders) /\ Len(q) = 0 + 1 /\ \A i \in DOMAIN q : i = 0 + 1 /\ q[i] = r
    BY <1>0, <1>2, HasNone, AddsLast
  <2> HIDE DEF q
  <2>2. DOMAIN q = 1 .. 1
    BY <2>1, Positions
  <2> QED
    BY <2>1, <2>2
<1> HIDE DEF q
<1>4. /\ mailbox' = [mailbox EXCEPT !.queue = t]
      /\ worker' = [worker EXCEPT !.at = "waiting", !.item = w]
      /\ stdin' = [stdin EXCEPT !.requests = q]
      /\ UNCHANGED <<caller, failure, helper, inbox, device>>
  BY DEF WorkerTakes, t, w, q, r
<1>5. /\ mailbox' \in [queue : Seq(Items), closed : BOOLEAN]
      /\ mailbox'.queue = t /\ mailbox'.closed = mailbox.closed
      /\ worker' \in Workers /\ worker'.at = "waiting" /\ worker'.item = w
      /\ worker'.sequence = worker.sequence /\ worker'.events = worker.events
      /\ stdin' \in [requests : Seq(Orders), closed : BOOLEAN] /\ stdin'.requests = q
  BY <1>1, <1>3, <1>4 DEF HidTyped, Workers
<1>6. HidTyped'
  BY <1>4, <1>5 DEF HidTyped
<1>7. InStep'
  <2>1. helper' = helper /\ inbox' = inbox /\ helper.expected = worker.sequence
        /\ Line(inbox, helper.out, worker.events, helper.events, 0, 0)
        /\ worker.sequence > 0 /\ worker.events <= helper.events
        /\ helper.at \notin {"starting", "created"}
    BY <1>0, <1>4 DEF InStep, Begun
  <2>2. Unserved'
    BY <1>2, <1>3, <1>5, <2>1 DEF Unserved
  <2> QED
    <3>1. /\ Len(stdin'.requests) <= 1
          /\ \A i \in DOMAIN stdin'.requests : stdin'.requests[i].sequence = helper'.expected
      <4>1. stdin'.requests = q /\ helper'.expected = worker.sequence
        BY <1>5, <2>1
      <4>2. Len(q) <= 1
        BY <1>3
      <4>3. \A i \in DOMAIN q : q[i].sequence = worker.sequence
        BY <1>2, <1>3
      <4> QED
        BY <4>1, <4>2, <4>3, Zenon
    <3> QED
      BY <1>5, <2>1, <2>2, <3>1 DEF InStep, Begun
<1>8. Called'
  <2>1. worker'.item.awaited => /\ worker'.item.kind \in {"neutral", "shutdown"}
                                /\ caller'.at = worker'.item.kind /\ mailbox'.queue = << >>
    BY <1>1, <1>4, <1>5 DEF Called, Ordinary, Items
  <2>2. ASSUME NEW i \in DOMAIN mailbox'.queue
        PROVE  /\ mailbox'.queue[i].awaited <=> ~Ordinary(mailbox'.queue[i])
               /\ mailbox'.queue[i].kind # "none"
               /\ ~Ordinary(mailbox'.queue[i]) => /\ Len(mailbox'.queue) = 1
                                                 /\ mailbox'.queue[i].kind = caller'.at
                                                 /\ mailbox'.queue[i].value = Neutral
    <3>1. i + 1 \in DOMAIN mailbox.queue /\ mailbox'.queue[i] = mailbox.queue[i + 1]
      BY <1>1, <1>5
    <3>2. Len(mailbox.queue) # 1
      BY <1>1, <1>5, <2>2, HasNone
    <3> QED
      BY <1>4, <3>1, <3>2 DEF Called
  <2>3. mailbox.closed => mailbox'.queue = << >>
    BY <1>0 DEF Called
  <2>4. worker'.item.kind \in {"neutral", "shutdown"} => worker'.item.value = Neutral
    BY <1>1, <1>5 DEF Called, Ordinary
  <2> QED
    BY <1>0, <1>4, <1>5, <2>1, <2>2, <2>3, <2>4 DEF Called
<1>9. Quiet'
  BY <1>1, <1>2, <1>3, <1>4, <1>5 DEF Quiet
<1> QED
  BY BlameStays, <1>4, <1>6, <1>7, <1>8, <1>9

LEMMA StdinIsTyped ==
  ASSUME NEW p \in [requests : Seq(Orders), closed : BOOLEAN], NEW b \in BOOLEAN
  PROVE  /\ [p EXCEPT !.closed = b] \in [requests : Seq(Orders), closed : BOOLEAN]
         /\ [p EXCEPT !.closed = b].requests = p.requests
<1>1. [p EXCEPT !.closed = b] \in [requests : Seq(Orders), closed : BOOLEAN]
  BY Zenon
<1>2. [p EXCEPT !.closed = b].requests = p.requests
  BY Zenon
<1> QED
  BY <1>1, <1>2

LEMMA SeesClosedKeeps == ASSUME KeptInv, WorkerSeesClosed PROVE KeptInv'
<1> USE DEF KeptInv
<1>1. /\ worker.at = "idle" /\ worker' = [worker EXCEPT !.at = "reaping"]
      /\ stdin' \in [requests : Seq(Orders), closed : BOOLEAN]
      /\ stdin'.requests = stdin.requests
      /\ UNCHANGED <<caller, mailbox, failure, helper, inbox, device>>
  BY StdinIsTyped DEF WorkerSeesClosed, HidTyped
<1>2. /\ worker' \in Workers /\ worker'.at = "reaping" /\ worker'.item = worker.item
      /\ worker'.sequence = worker.sequence
  BY <1>1 DEF HidTyped, Workers
<1>3. HidTyped'
  BY <1>1, <1>2 DEF HidTyped
<1>4. InStep'
  BY <1>1, <1>2 DEF InStep, Begun
<1>5. Called' /\ Quiet'
  BY <1>1, <1>2 DEF Called, Quiet
<1> QED
  BY BlameStays, <1>1, <1>3, <1>4, <1>5

\* Who is told, and what is left for the others.
LEMMA AnswersTell ==
  ASSUME KeptInv, NEW b \in BOOLEAN, Answers(b)
  PROVE  /\ caller' \in Callers
         /\ \/ ~worker.item.awaited /\ caller' = caller
            \/ /\ worker.item.awaited /\ worker.item.kind = "neutral" /\ mailbox.queue = << >>
               /\ caller'.at = "idle" /\ caller'.neutral = b
            \/ /\ worker.item.awaited /\ worker.item.kind = "shutdown" /\ mailbox.queue = << >>
               /\ caller'.at = "joining" /\ caller'.neutral = caller.neutral
<1> USE DEF KeptInv
<1>1. caller \in Callers
  BY DEF HidTyped
<1>2. /\ [caller EXCEPT !.at = "idle", !.neutral = b] \in Callers
      /\ [caller EXCEPT !.at = "idle", !.neutral = b].at = "idle"
      /\ [caller EXCEPT !.at = "idle", !.neutral = b].neutral = b
      /\ [caller EXCEPT !.at = "joining"] \in Callers
      /\ [caller EXCEPT !.at = "joining"].at = "joining"
      /\ [caller EXCEPT !.at = "joining"].neutral = caller.neutral
  <2>1. "idle" \in {"opening", "idle", "neutral", "shutdown", "joining", "closed"}
        /\ "joining" \in {"opening", "idle", "neutral", "shutdown", "joining", "closed"}
    OBVIOUS
  <2>2. /\ [caller EXCEPT !.at = "idle", !.neutral = b] \in Callers
        /\ [caller EXCEPT !.at = "idle", !.neutral = b].at = "idle"
        /\ [caller EXCEPT !.at = "idle", !.neutral = b].neutral = b
    BY <1>1, <2>1, Zenon DEF Callers
  <2>3. /\ [caller EXCEPT !.at = "joining"] \in Callers
        /\ [caller EXCEPT !.at = "joining"].at = "joining"
        /\ [caller EXCEPT !.at = "joining"].neutral = caller.neutral
    BY <1>1, <2>1, Zenon DEF Callers
  <2> QED
    BY <2>2, <2>3
<1>3. CASE ~worker.item.awaited
  BY <1>1, <1>3 DEF Answers
<1>4. CASE worker.item.awaited /\ worker.item.kind = "neutral"
  <2>1. caller' = [caller EXCEPT !.at = "idle", !.neutral = b]
    BY <1>4, Zenon DEF Answers
  <2> QED
    BY <1>2, <1>4, <2>1 DEF Called
<1>5. CASE worker.item.awaited /\ worker.item.kind = "shutdown"
  <2>1. caller' = [caller EXCEPT !.at = "joining"]
    BY <1>5 DEF Answers
  <2> QED
    BY <1>2, <1>5, <2>1 DEF Called
<1> QED
  BY <1>3, <1>4, <1>5 DEF Called

\* A worker that has answered, or gives up, is done with its item.
LEMMA AnsweredStays ==
  ASSUME KeptInv, NEW b \in BOOLEAN, Answers(b), UNCHANGED mailbox,
         worker.at \in {"idle", "waiting"}, worker' \in Workers, worker'.at \in {"idle", "reaping"},
         worker'.item.kind = "none", ~worker'.item.awaited, stdin'.requests = stdin.requests, device' = device,
         b /\ worker.item.kind = "neutral" => device \in {Neutral, "gone"} /\ stdin.requests = << >>
  PROVE  Called' /\ Quiet'
<1> USE DEF KeptInv
<1>1. /\ caller' \in Callers
      /\ \/ ~worker.item.awaited /\ caller' = caller
         \/ /\ worker.item.awaited /\ worker.item.kind = "neutral" /\ mailbox.queue = << >>
            /\ caller'.at = "idle" /\ caller'.neutral = b
         \/ /\ worker.item.awaited /\ worker.item.kind = "shutdown" /\ mailbox.queue = << >>
            /\ caller'.at = "joining" /\ caller'.neutral = caller.neutral
  BY AnswersTell
<1>2. caller.at # "opening"
  BY DEF Called
<1>3. Called'
  BY <1>1, <1>2, ItemFacts, HasNone DEF Called
<1>4. Quiet'
  BY <1>1, HasNone DEF Quiet
<1> QED
  BY <1>3, <1>4

LEMMA ReapsKeeps ==
  ASSUME KeptInv, worker.at \in {"idle", "waiting"}, NEW class \in {"other", "violation"},
         Reaps(class), Answers(FALSE), Blamed',
         UNCHANGED <<mailbox, helper, device>>, inbox' \in Seq(Words)
  PROVE  KeptInv'
<1> USE DEF KeptInv
<1>0. TRUE \in BOOLEAN /\ FALSE \in BOOLEAN /\ NoItem \in Items
  BY ItemFacts
<1>1. /\ worker' = [worker EXCEPT !.at = "reaping", !.item = NoItem]
      /\ stdin' \in [requests : Seq(Orders), closed : BOOLEAN]
      /\ stdin'.requests = stdin.requests
  BY <1>0, StdinIsTyped DEF Reaps, HidTyped
<1>2. /\ worker' \in Workers /\ worker'.at = "reaping" /\ worker'.item.kind = "none" /\ ~worker'.item.awaited
      /\ worker'.sequence = worker.sequence /\ worker'.events = worker.events
  <2>1. /\ worker' \in Workers /\ worker'.at = "reaping" /\ worker'.item = NoItem
        /\ worker'.sequence = worker.sequence /\ worker'.events = worker.events
    BY <1>0, <1>1 DEF HidTyped, Workers
  <2> QED
    BY <2>1, ItemFacts
<1>3. HidTyped'
  BY <1>0, <1>1, <1>2, AnswersTell DEF HidTyped
<1>4. InStep'
  BY <1>1, <1>2 DEF InStep, Begun
<1>5. Called' /\ Quiet'
  BY <1>0, <1>1, <1>2, AnsweredStays
<1> QED
  BY <1>3, <1>4, <1>5

LEMMA TimeOutKeeps == ASSUME KeptInv, WorkerTimesOut PROVE KeptInv'
<1>1. Reaps("other") /\ Answers(FALSE) /\ worker.at = "waiting" /\ UNCHANGED <<mailbox, helper, inbox, device>>
  BY DEF WorkerTimesOut
<1>2. Blamed'
  BY <1>1, BlameStays DEF Reaps, Latched, KeptInv
<1> QED
  BY <1>1, <1>2, ReapsKeeps DEF KeptInv, HidTyped

\* A word that ends the session is told from one that breaks the protocol.
LEMMA EnderKeeps ==
  ASSUME KeptInv, worker.at \in {"idle", "waiting"}, inbox # << >>, inbox' = Tail(inbox),
         Unsolicited(Head(inbox)), Head(inbox).kind \in Enders, UNCHANGED <<mailbox, helper, device>>
  PROVE  KeptInv'
<1> DEFINE w == Head(inbox)
           class == IF w.kind \in Lost THEN "other" ELSE "violation"
<1>1. Reaps(class) /\ Answers(FALSE)
  BY DEF Unsolicited, Counts, Enders, Lost, Breaches
<1>2. failure' \in {failure, class} /\ (class = "violation" => w.kind \in Breaches)
  BY <1>1 DEF Reaps, Latched, Enders
<1>3. inbox \in Seq(Words) /\ inbox' \in Seq(Words) /\ helper \in Helpers /\ Blamed
  BY DropsFirst DEF KeptInv, HidTyped
<1>4. Blamed'
  BY <1>2, <1>3, BlameReads
<1>5. class \in {"other", "violation"}
  OBVIOUS
<1> HIDE DEF class
<1> QED
  BY <1>1, <1>3, <1>4, <1>5, ReapsKeeps

LEMMA ServiceKeeps == ASSUME KeptInv, WorkerServices PROVE KeptInv'
<1> USE DEF KeptInv
<1> DEFINE w == Head(inbox)
<1>0. /\ inbox \in Seq(Words) /\ helper.out \in Seq(Words) /\ worker.events \in Nat /\ helper.events \in Nat
      /\ inbox # << >> /\ worker.at = "idle" /\ inbox' = Tail(inbox) /\ Unsolicited(w)
      /\ UNCHANGED <<mailbox, helper, device>>
      /\ Line(inbox, helper.out, worker.events, helper.events, 0, 0)
  BY DEF HidTyped, Workers, Helpers, WorkerServices, InStep, Begun
<1> HIDE DEF w
<1>1. /\ w \in Words /\ May(w, worker.events, helper.events, 0, 0)
      /\ w.kind = "event" => Line(inbox', helper.out, w.n, helper.events, 0, 0)
      /\ inbox' \in Seq(Words)
  BY <1>0, LineReads, DropsFirst DEF w
<1>2. w.kind \in Enders \/ (w.kind = "event" /\ w.n > worker.events /\ w.n \in Nat /\ w.n <= helper.events)
  BY <1>0, <1>1 DEF May, Words, Enders, Lost, Breaches
<1>3. CASE w.kind = "event" /\ w.n > worker.events /\ w.n \in Nat /\ w.n <= helper.events
  <2>1. worker' = [worker EXCEPT !.events = w.n] /\ UNCHANGED <<caller, failure, stdin>>
    BY <1>0, <1>3 DEF Unsolicited, Counts
  <2>2. /\ worker' \in Workers /\ worker'.at = "idle" /\ worker'.item = worker.item
        /\ worker'.sequence = worker.sequence /\ worker'.events = w.n
    BY <1>0, <1>3, <2>1 DEF HidTyped, Workers
  <2>3. HidTyped'
    BY <1>0, <1>1, <2>1, <2>2 DEF HidTyped
  <2>4. InStep'
    BY <1>0, <1>1, <1>3, <2>1, <2>2 DEF InStep, Begun
  <2>5. Called' /\ Quiet'
    BY <1>0, <2>1, <2>2 DEF Called, Quiet
  <2>6. Blamed'
    BY <1>0, <2>1, BlameReads DEF HidTyped
  <2> QED
    BY <2>3, <2>4, <2>5, <2>6
<1>4. CASE w.kind \in Enders
  BY <1>0, <1>4, EnderKeeps DEF w
<1> QED
  BY <1>2, <1>3, <1>4

\* The acknowledgement awaited is the only one there may be.
LEMMA ReadKeeps == ASSUME KeptInv, WorkerReads PROVE KeptInv'
<1> USE DEF KeptInv
<1> DEFINE w == Head(inbox)
           a == IF Unserved \/ Refused THEN 0 ELSE worker.sequence
<1>0. /\ inbox \in Seq(Words) /\ helper.out \in Seq(Words) /\ worker.events \in Nat /\ helper.events \in Nat
      /\ worker.sequence \in Nat /\ worker.sequence > 0
      /\ inbox # << >> /\ worker.at = "waiting" /\ inbox' = Tail(inbox)
      /\ UNCHANGED <<mailbox, helper, device>>
      /\ Unserved \/ Served \/ Refused
  BY DEF HidTyped, Workers, Helpers, WorkerReads, InStep, Begun
<1>1. /\ a \in Nat /\ Line(inbox, helper.out, worker.events, helper.events, 0, a)
      /\ a # 0 => Served /\ a = worker.sequence
  BY <1>0 DEF Unserved, Served, Refused
<1> HIDE DEF w, a
<1>2. /\ w \in Words /\ May(w, worker.events, helper.events, 0, a)
      /\ Line(inbox', helper.out, worker.events, helper.events, 0, a)
      /\ w.kind = "event" => Line(inbox', helper.out, w.n, helper.events, 0, a)
      /\ w.kind = "applied" => Line(inbox', helper.out, worker.events, helper.events, 0, 0)
      /\ inbox' \in Seq(Words)
  BY <1>0, <1>1, LineReads, DropsFirst DEF w
<1>3. /\ w.n \in Nat
      /\ \/ w.kind \in Enders
         \/ w.kind = "event" /\ w.n > worker.events /\ w.n <= helper.events
         \/ w.kind = "applied" /\ a # 0 /\ w.n = worker.sequence
  BY <1>0, <1>1, <1>2 DEF May, Words, Enders, Lost, Breaches
<1>4. CASE w.kind = "applied" /\ a # 0 /\ w.n = worker.sequence
  <2>1. w = Applied(worker.sequence)
    BY <1>2, <1>4 DEF Applied, Says, Words
  <2> DEFINE shuts == worker.item.kind = "shutdown"
             p == IF shuts THEN "reaping" ELSE "idle"
  <2>10. Answers(TRUE)
    BY <2>1 DEF WorkerReads, w
  <2>2. /\ worker' = [worker EXCEPT !.item = NoItem, !.sequence = @ + 1,
                        !.at = p]
        /\ stdin' = [stdin EXCEPT !.closed = shuts]
        /\ UNCHANGED failure
    BY <2>1 DEF WorkerReads, w
  <2>3. shuts \in BOOLEAN /\ TRUE \in BOOLEAN /\ p \in {"reaping", "idle"}
    OBVIOUS
  <2> HIDE DEF shuts, p
  <2>4. stdin' \in [requests : Seq(Orders), closed : BOOLEAN] /\ stdin'.requests = stdin.requests
    BY <2>2, <2>3, StdinIsTyped DEF HidTyped
  <2>5. /\ worker' \in Workers /\ worker'.at \in {"idle", "reaping"}
        /\ worker'.item.kind = "none" /\ ~worker'.item.awaited
        /\ worker'.sequence = worker.sequence + 1 /\ worker'.events = worker.events
    <3>0. NoItem \in Items
      BY ItemFacts
    <3>1. /\ worker' \in Workers /\ worker'.at = p /\ worker'.item = NoItem
          /\ worker'.sequence = worker.sequence + 1 /\ worker'.events = worker.events
      <4> DEFINE n == worker.sequence + 1
      <4>1. worker' = [worker EXCEPT !.item = NoItem, !.sequence = n, !.at = p] /\ worker \in Workers
        BY <2>2 DEF HidTyped
      <4>2. n \in Nat /\ p \in {"none", "idle", "waiting", "reaping", "done"}
        BY <1>0, <2>3
      <4> HIDE DEF n
      <4>3. worker' \in Workers
        BY <3>0, <4>1, <4>2, Zenon DEF Workers
      <4>4. worker'.at = p /\ worker'.item = NoItem /\ worker'.sequence = n /\ worker'.events = worker.events
        BY <4>1, Zenon DEF Workers
      <4> QED
        BY <4>3, <4>4 DEF n
    <3> QED
      BY <2>3, <3>1, ItemFacts
  <2>6. Served
    BY <1>1, <1>4
  <2>7. HidTyped'
    BY <1>0, <1>2, <2>2, <2>3, <2>4, <2>5, <2>10, AnswersTell DEF HidTyped
  <2>8. InStep'
    <3>1. Line(inbox', helper.out, worker'.events, helper.events, 0, 0)
      BY <1>2, <1>4, <2>5
    <3>2. /\ stdin'.requests = << >> /\ helper.expected = worker'.sequence /\ worker'.sequence > 0
          /\ Len(stdin'.requests) <= 1 /\ DOMAIN stdin'.requests = {}
      BY <1>0, <2>4, <2>5, <2>6, HasNone DEF Served
    <3> QED
      BY <1>0, <2>5, <3>1, <3>2 DEF InStep, Begun
  <2>9. worker.item.kind = "neutral" => device \in {Neutral, "gone"} /\ stdin.requests = << >>
    BY <2>6 DEF Served, Called
  <2>11. Blamed'
    BY <1>0, <2>2, BlameReads DEF HidTyped
  <2> QED
    BY <1>0, <2>11, <2>2, <2>3, <2>4, <2>5, <2>7, <2>8, <2>9, <2>10, AnsweredStays
<1>5. CASE w.kind = "event" /\ w.n > worker.events /\ w.n <= helper.events
  <2>0. Head(inbox) # Applied(worker.sequence)
    BY <1>5 DEF w, Applied, Says
  <2>1. worker' = [worker EXCEPT !.events = w.n] /\ UNCHANGED <<caller, failure, stdin>>
    BY <1>5, <2>0 DEF WorkerReads, Unsolicited, Counts, w
  <2>2. /\ worker' \in Workers /\ worker'.at = "waiting" /\ worker'.item = worker.item
        /\ worker'.sequence = worker.sequence /\ worker'.events = w.n
    BY <1>0, <1>3, <2>1 DEF HidTyped, Workers
  <2>3. HidTyped'
    BY <1>0, <1>2, <2>1, <2>2 DEF HidTyped
  <2>4. Unserved' \/ Served' \/ Refused'
    <3>1. CASE Unserved
      <4>1. a = 0
        BY <3>1 DEF a
      <4> QED
        BY <1>0, <1>2, <1>5, <2>1, <2>2, <3>1, <4>1 DEF Unserved
    <3>3. CASE Refused
      <4>1. a = 0
        BY <3>3 DEF a
      <4> QED
        BY <1>0, <1>2, <1>5, <2>1, <2>2, <3>3, <4>1 DEF Refused
    <3>2. CASE Served /\ ~Unserved /\ ~Refused
      <4>1. a = worker.sequence
        BY <3>2 DEF a
      <4> QED
        BY <1>0, <1>2, <1>5, <2>1, <2>2, <3>2, <4>1 DEF Served
    <3> QED
      BY <1>0, <3>1, <3>2, <3>3
  <2>5. InStep'
    BY <1>0, <1>5, <2>1, <2>2, <2>4 DEF InStep, Begun
  <2>6. Called' /\ Quiet'
    BY <1>0, <2>1, <2>2 DEF Called, Quiet
  <2>7. Blamed'
    BY <1>0, <2>1, BlameReads DEF HidTyped
  <2> QED
    BY <2>3, <2>5, <2>6, <2>7
<1>6. CASE w.kind \in Enders
  <2>0. Head(inbox) # Applied(worker.sequence)
    BY <1>6 DEF w, Applied, Says, Enders, Lost, Breaches
  <2>1. Unsolicited(Head(inbox))
    BY <2>0 DEF WorkerReads
  <2> QED
    BY <1>0, <1>6, <2>1, EnderKeeps DEF w
<1> QED
  BY <1>3, <1>4, <1>5, <1>6

LEMMA ReapKeeps == ASSUME KeptInv, Reap PROVE KeptInv'
<1> USE DEF KeptInv
<1>1. /\ worker.at = "reaping" /\ worker' = [worker EXCEPT !.at = "done"]
      /\ helper' = [helper EXCEPT !.at = "dead"] /\ device' = "gone"
      /\ UNCHANGED <<failure, stdin, inbox>>
  BY DEF Reap
<1>2. /\ worker' \in Workers /\ worker'.at = "done" /\ worker'.item = worker.item
      /\ worker'.sequence = worker.sequence
      /\ helper' \in Helpers /\ helper'.at = "dead" /\ helper'.expected = helper.expected
      /\ helper'.out = helper.out /\ helper'.fatal = helper.fatal /\ helper'.excesses = helper.excesses
  BY <1>1 DEF HidTyped, Workers, Helpers, Stages
<1>3. /\ mailbox' \in [queue : Seq(Items), closed : BOOLEAN]
      /\ mailbox'.queue = << >> /\ DOMAIN mailbox'.queue = {}
  BY ClosedMailbox DEF Reap
<1>4. /\ caller' \in Callers /\ caller'.neutral = caller.neutral
      /\ caller' = caller \/ caller'.at \in {"idle", "joining"}
  <2>1. caller \in Callers /\ FALSE \in BOOLEAN
    BY DEF HidTyped
  <2>2. \/ caller' = caller
        \/ caller' = [caller EXCEPT !.at = "idle"]
        \/ caller' = [caller EXCEPT !.at = "joining"]
    BY <2>1 DEF Reap, Callers
  <2>3. ASSUME NEW p \in {"idle", "joining"}, caller' = [caller EXCEPT !.at = p]
        PROVE  caller' \in Callers /\ caller'.neutral = caller.neutral /\ caller'.at = p
    BY <2>1, <2>3, Zenon DEF Callers
  <2> QED
    BY <2>1, <2>2, <2>3
<1>5. HidTyped'
  BY <1>1, <1>2, <1>3, <1>4 DEF HidTyped
<1>6. InStep'
  BY <1>1, <1>2 DEF InStep, Begun
<1>7. Called'
  BY <1>1, <1>2, <1>3, <1>4, ItemFacts DEF Called
<1>8. Quiet'
  BY <1>1, <1>2, <1>3, <1>4 DEF Quiet
<1>9. Blamed'
  BY <1>1, <1>2, BlameGoesOn DEF HidTyped, Helpers
<1> QED
  BY <1>5, <1>6, <1>7, <1>8, <1>9

-----------------------------------------------------------------------------
(* The helper.                                                             *)

\* A step of the helper's that only it and its pipe take part in.
LEMMA HelperAlone ==
  ASSUME KeptInv, HelperUnchanged, helper' \in Helpers, InStep', Blamed', inbox' \in Seq(Words),
         device' \in {device, Neutral, "gone"}, UNCHANGED stdin
  PROVE  KeptInv'
<1> USE DEF KeptInv, HelperUnchanged
<1>1. HidTyped'
  BY DEF HidTyped
<1>2. Called' /\ Quiet'
  BY DEF Called, Quiet
<1> QED
  BY <1>1, <1>2

LEMMA EndsFacts ==
  ASSUME helper \in Helpers, NEW class \in {"other", "violation"}, HelperEnds(class)
  PROVE  /\ helper' \in Helpers /\ helper'.at = "ended" /\ helper'.expected = helper.expected
         /\ helper'.out = helper.out /\ helper'.events = helper.events
         /\ helper'.excesses = helper.excesses /\ helper'.fatal \in {helper.fatal, class}
         /\ device' = "gone"
<1> DEFINE f == Latest(class)
<1>1. f \in {helper.fatal, class} /\ f \in {"none", "other", "violation"} /\ "ended" \in Stages
  BY DEF Latest, Helpers, Stages
<1>2. helper' = [helper EXCEPT !.at = "ended", !.fatal = f] /\ device' = "gone"
  BY DEF HelperEnds
<1> HIDE DEF f
<1>3. helper' \in Helpers
  BY <1>1, <1>2, Zenon DEF Helpers
<1>4. /\ helper'.at = "ended" /\ helper'.expected = helper.expected
      /\ helper'.out = helper.out /\ helper'.events = helper.events
      /\ helper'.excesses = helper.excesses /\ helper'.fatal = f
  BY <1>2, Zenon DEF Helpers
<1> QED
  BY <1>1, <1>2, <1>3, <1>4

LEMMA HelperEndKeeps ==
  ASSUME KeptInv, HelperEnds("other"), HelperUnchanged, UNCHANGED <<stdin, inbox>>
  PROVE  KeptInv'
<1>1. helper \in Helpers /\ inbox \in Seq(Words) /\ Blamed
  BY DEF KeptInv, HidTyped
<1>2. /\ helper' \in Helpers /\ helper'.at = "ended" /\ helper'.expected = helper.expected
      /\ helper'.out = helper.out /\ helper'.events = helper.events
      /\ helper'.excesses = helper.excesses /\ helper'.fatal \in {helper.fatal, "other"}
      /\ device' = "gone"
  BY <1>1, EndsFacts
<1>3. InStep'
  BY <1>1, <1>2, StopKeeps DEF HelperUnchanged
<1>4. Blamed'
  BY <1>1, <1>2, BlameGoesOn DEF HelperUnchanged, Helpers
<1> QED
  BY <1>1, <1>2, <1>3, <1>4, HelperAlone

LEMMA FailsKeeps == ASSUME KeptInv, HelperFails PROVE KeptInv'
BY HelperEndKeeps DEF HelperFails

LEMMA EofKeeps == ASSUME KeptInv, HelperSeesEof PROVE KeptInv'
<1>1. /\ helper' = [helper EXCEPT !.at = "ended"] /\ device' = "gone"
      /\ HelperUnchanged /\ UNCHANGED <<stdin, inbox>> /\ helper \in Helpers /\ inbox \in Seq(Words)
      /\ Blamed
  BY DEF HelperSeesEof, KeptInv, HidTyped
<1>3. /\ helper' \in Helpers /\ helper'.at = "ended" /\ helper'.expected = helper.expected
      /\ helper'.out = helper.out /\ helper'.events = helper.events
      /\ helper'.fatal = helper.fatal /\ helper'.excesses = helper.excesses
  BY <1>1 DEF Helpers, Stages
<1>4. InStep'
  BY <1>1, <1>3, StopKeeps DEF HelperUnchanged
<1>5. Blamed'
  BY <1>1, <1>3, BlameGoesOn DEF HelperUnchanged, Helpers
<1> QED
  BY <1>1, <1>3, <1>4, <1>5, HelperAlone

LEMMA BreaksKeeps == ASSUME KeptInv, HelperBreaks PROVE KeptInv'
<1>1. /\ \/ helper' \in {[helper EXCEPT !.at = "dead"], [helper EXCEPT !.at = "hung"]}
         \/ helper' = [helper EXCEPT !.at = "torn", !.excesses = helper.excesses + 1]
      /\ device' \in {device, "gone"}
      /\ HelperUnchanged /\ UNCHANGED <<stdin, inbox>> /\ helper \in Helpers /\ inbox \in Seq(Words)
      /\ Blamed
  BY DEF HelperBreaks, KeptInv, HidTyped
<1>3. /\ helper' \in Helpers /\ helper'.at \in {"dead", "hung", "torn"} /\ helper'.expected = helper.expected
      /\ helper'.out = helper.out /\ helper'.events = helper.events
      /\ helper'.fatal = helper.fatal /\ helper'.excesses \in Nat /\ helper'.excesses >= helper.excesses
      /\ helper'.at = "torn" => helper'.excesses > 0
  <2>1. CASE helper' \in {[helper EXCEPT !.at = "dead"], [helper EXCEPT !.at = "hung"]}
    BY <1>1, <2>1 DEF Helpers, Stages
  <2>2. CASE helper' = [helper EXCEPT !.at = "torn", !.excesses = helper.excesses + 1]
    <3> DEFINE x == helper.excesses + 1
    <3>1. x \in Nat /\ x > 0 /\ x >= helper.excesses /\ "torn" \in Stages
      BY <1>1 DEF Helpers, Stages
    <3>2. helper' = [helper EXCEPT !.at = "torn", !.excesses = x]
      BY <2>2
    <3> HIDE DEF x
    <3>3. helper' \in Helpers
      BY <1>1, <3>1, <3>2, Zenon DEF Helpers
    <3>4. /\ helper'.at = "torn" /\ helper'.expected = helper.expected
          /\ helper'.out = helper.out /\ helper'.events = helper.events
          /\ helper'.fatal = helper.fatal /\ helper'.excesses = x
      BY <1>1, <3>2, Zenon DEF Helpers
    <3> QED
      BY <3>1, <3>3, <3>4
  <2> QED
    BY <1>1, <2>1, <2>2
<1>4. InStep'
  BY <1>1, <1>3, StopKeeps DEF HelperUnchanged
<1>5. Blamed'
  BY <1>1, <1>3, BlameGoesOn DEF HelperUnchanged
<1> QED
  BY <1>1, <1>3, <1>4, <1>5, HelperAlone

\* A SetReport that is too long changes what the writer will say, and its cause.
LEMMA TooLongKeeps == ASSUME KeptInv, SetReportIsTooLong PROVE KeptInv'
<1> DEFINE f == Latest("violation")
           x == helper.excesses + 1
<1>1. /\ helper' = [helper EXCEPT !.fatal = f, !.excesses = x]
      /\ HelperUnchanged /\ UNCHANGED <<stdin, inbox, device>> /\ helper \in Helpers /\ inbox \in Seq(Words)
      /\ Blamed
  BY DEF SetReportIsTooLong, KeptInv, HidTyped
<1>2. f \in {"none", "other", "violation"} /\ x \in Nat /\ x > helper.excesses /\ x > 0
  BY <1>1 DEF Latest, Helpers
<1> HIDE DEF f, x
<1>3. helper' \in Helpers
  BY <1>1, <1>2, Zenon DEF Helpers
<1>4. /\ helper'.at = helper.at /\ helper'.expected = helper.expected /\ helper'.out = helper.out
      /\ helper'.events = helper.events /\ helper'.excesses = x
  BY <1>1, Zenon DEF Helpers
<1>5. InStep'
  BY <1>1, <1>3, <1>4, StopKeeps DEF HelperUnchanged
<1>6. Blamed'
  BY <1>1, <1>2, <1>3, <1>4, BlameGoesOn DEF HelperUnchanged, Helpers
<1> QED
  BY <1>1, <1>3, <1>5, <1>6, HelperAlone

LEMMA CreatesKeeps == ASSUME KeptInv, HelperCreates PROVE KeptInv'
<1>1. /\ helper.at = "starting" /\ helper' = [helper EXCEPT !.at = "created"] /\ device' = Neutral
      /\ HelperUnchanged /\ UNCHANGED <<stdin, inbox>> /\ helper \in Helpers /\ inbox \in Seq(Words)
      /\ Blamed
  BY DEF HelperCreates, KeptInv, HidTyped
<1>2. /\ helper' \in Helpers /\ helper'.at = "created" /\ helper'.expected = helper.expected
      /\ helper'.out = helper.out /\ helper'.events = helper.events
      /\ helper'.fatal = helper.fatal /\ helper'.excesses = helper.excesses
  BY <1>1 DEF Helpers, Stages
<1>5. Blamed'
  BY <1>1, <1>2, BlameGoesOn DEF HelperUnchanged, Helpers
<1>3. worker.at = "none"
  BY <1>1 DEF KeptInv, InStep, Begun
<1>4. InStep'
  BY <1>1, <1>2, <1>3 DEF InStep, Begun, KeptInv, HelperUnchanged
<1> QED
  BY <1>1, <1>2, <1>4, <1>5, HelperAlone

LEMMA ReadyKeeps == ASSUME KeptInv, HelperReady PROVE KeptInv'
<1> DEFINE w == Says("ready", 0)
           o == Append(helper.out, w)
<1>0. w \in Words /\ w.kind = "ready"
  BY WordFacts
<1> HIDE DEF w
<1>8. CASE helper.writer = "stopped"
  BY <1>8, HelperEndKeeps DEF HelperReady
<1> SUFFICES ASSUME helper.writer # "stopped" PROVE KeptInv'
  BY <1>8
<1>1. /\ helper.at = "created" /\ helper' = [helper EXCEPT !.at = "serving", !.out = o]
      /\ Blamed /\ HelperUnchanged /\ UNCHANGED <<stdin, inbox, device>> /\ helper \in Helpers /\ inbox \in Seq(Words)
  BY DEF HelperReady, KeptInv, HidTyped, w
<1>2. o \in Seq(Words) /\ helper.out \in Seq(Words) /\ helper.events \in Nat /\ worker.events \in Nat
  BY <1>0, <1>1, AddsLast DEF Helpers, KeptInv, HidTyped, Workers
<1>3. worker.at = "none" /\ Line(inbox, helper.out, worker.events, helper.events, 0, 0)
  BY <1>1 DEF KeptInv, InStep, Begun
<1>4. 0 \in Nat /\ 0 \in {0, 1}
  OBVIOUS
<1>5. Line(inbox, o, worker.events, helper.events, 1, 0)
  BY <1>0, <1>1, <1>2, <1>3, <1>4, LineSays
<1> HIDE DEF o
<1>6. /\ helper' \in Helpers /\ helper'.at = "serving" /\ helper'.expected = helper.expected
      /\ helper'.out = o /\ helper'.events = helper.events
      /\ helper'.fatal = helper.fatal /\ helper'.excesses = helper.excesses
  BY <1>1, <1>2 DEF Helpers, Stages
<1>9. Blamed'
  <2>1. Clean(helper.out) => Clean(o)
    BY <1>0, <1>2, CleanFacts DEF Breaches, o
  <2> QED
    BY <1>1, <1>6, <2>1 DEF Blamed, HelperUnchanged
<1>7. InStep'
  BY <1>1, <1>3, <1>5, <1>6 DEF InStep, Begun, KeptInv, HelperUnchanged
<1> QED
  BY <1>1, <1>6, <1>7, <1>9, HelperAlone

\* The one request is the one expected: it is applied, and its
\* acknowledgement is the only one on its way.
LEMMA ServeKeeps == ASSUME KeptInv, HelperServes PROVE KeptInv'
<1> USE DEF KeptInv
<1> DEFINE r == Head(stdin.requests)
           w == Applied(r.sequence)
           o == Append(helper.out, w)
           t == Tail(stdin.requests)
           p == IF r.kind = "shutdown" THEN "ended" ELSE "serving"
<1>0. /\ stdin.requests \in Seq(Orders) /\ stdin.requests # << >> /\ helper.out \in Seq(Words)
      /\ inbox \in Seq(Words) /\ helper.at = "serving" /\ HelperUnchanged /\ UNCHANGED inbox
      /\ worker.events \in Nat /\ helper.events \in Nat /\ helper.expected \in Nat /\ worker.sequence \in Nat
      /\ worker.sequence > 0 /\ Len(stdin.requests) <= 1 /\ helper \in Helpers /\ Blamed
      /\ stdin' = [stdin EXCEPT !.requests = t]
  BY DEF HelperServes, HidTyped, Workers, Helpers, InStep, Begun
<1>1. /\ r \in Orders /\ r = stdin.requests[1] /\ r.sequence = helper.expected
      /\ t \in Seq(Orders) /\ t = << >>
  BY <1>0, DropsFirst, Positions DEF InStep, Begun
<1> HIDE DEF r, t
<1>13. stdin' \in [requests : Seq(Orders), closed : BOOLEAN] /\ stdin'.requests = << >> /\ DOMAIN stdin'.requests = {}
  BY <1>0, <1>1, HasNone DEF HidTyped
<1>14. worker.at = "waiting" => Unserved
  BY <1>0 DEF InStep, Served, Refused
<1>15. worker.at \in {"waiting", "reaping", "done"}
  BY <1>0 DEF InStep, HidTyped, Workers
<1>16. CASE helper.writer = "stopped"
  <2>1. HelperEnds("other")
    BY <1>1, <1>16 DEF HelperServes, r
  <2>2. /\ helper' \in Helpers /\ helper'.at = "ended" /\ helper'.expected = helper.expected
        /\ helper'.out = helper.out /\ helper'.events = helper.events
        /\ helper'.excesses = helper.excesses /\ helper'.fatal \in {helper.fatal, "other"}
        /\ device' = "gone"
    BY <1>0, <2>1, EndsFacts
  <2>3. HidTyped'
    BY <1>0, <1>13, <2>2 DEF HidTyped, HelperUnchanged
  <2>4. InStep'
    <3>1. worker.at = "waiting" => Refused'
      BY <1>0, <1>13, <1>14, <2>2 DEF Refused, Unserved, HelperUnchanged
    <3>2. Len(stdin'.requests) <= 1
      BY <1>13, HasNone
    <3> QED
      BY <1>0, <1>13, <1>15, <2>2, <3>1, <3>2 DEF InStep, HelperUnchanged
  <2>5. Called' /\ Quiet'
    BY <1>0, <1>13, <2>2 DEF Called, Quiet, HelperUnchanged
  <2>6. Blamed'
    BY <1>0, <2>2, BlameGoesOn DEF HelperUnchanged, Helpers
  <2> QED
    BY <2>3, <2>4, <2>5, <2>6
<1> SUFFICES ASSUME helper.writer # "stopped" PROVE KeptInv'
  BY <1>16
<1>2. w \in Words /\ w.kind = "applied" /\ w.n = helper.expected
  BY <1>0, <1>1, WordFacts DEF Applied
<1> HIDE DEF w
<1>3. o \in Seq(Words)
  BY <1>0, <1>2, AddsLast
<1>4. worker.at = "waiting" => Line(inbox, o, worker.events, helper.events, 0, worker.sequence) /\ Unserved
  <2> SUFFICES ASSUME worker.at = "waiting"
               PROVE  Line(inbox, o, worker.events, helper.events, 0, worker.sequence) /\ Unserved
    OBVIOUS
  <2>1. Unserved
    BY <1>14
  <2>2. /\ Line(inbox, helper.out, worker.events, helper.events, 0, 0)
        /\ w.n = worker.sequence /\ 0 \in Nat /\ 0 \in {0, 1}
    BY <1>2, <2>1 DEF Unserved
  <2>3. Line(inbox, o, worker.events, helper.events, 0, worker.sequence)
    BY <1>0, <1>2, <2>2, LineSays
  <2> QED
    BY <2>1, <2>3
<1>12. p \in {"serving", "ended"}
  OBVIOUS
<1>5. /\ device' = IF r.kind = "shutdown" THEN "gone" ELSE r.value
      /\ helper' = [helper EXCEPT !.out = o, !.expected = @ + 1, !.at = p]
      /\ stdin' = [stdin EXCEPT !.requests = t]
  BY <1>0, <1>1 DEF HelperServes, r, t, w
<1> HIDE DEF o
<1> HIDE DEF p
<1>6. /\ helper' \in Helpers /\ helper'.at = p /\ helper'.expected = helper.expected + 1
      /\ helper'.out = o /\ helper'.events = helper.events
      /\ helper'.fatal = helper.fatal /\ helper'.excesses = helper.excesses
      /\ stdin' \in [requests : Seq(Orders), closed : BOOLEAN] /\ stdin'.requests = << >>
  <2>1. helper' = [helper EXCEPT !.out = o, !.expected = helper.expected + 1, !.at = p] /\ helper \in Helpers
    BY <1>5 DEF HidTyped
  <2>2. /\ helper' \in Helpers /\ helper'.at = p /\ helper'.expected = helper.expected + 1
        /\ helper'.out = o /\ helper'.events = helper.events
        /\ helper'.fatal = helper.fatal /\ helper'.excesses = helper.excesses
    <3> DEFINE e == helper.expected + 1
    <3>1. e \in Nat /\ p \in Stages
          /\ helper' = [helper EXCEPT !.out = o, !.expected = e, !.at = p] /\ helper \in Helpers
      BY <1>0, <1>12, <2>1 DEF Stages
    <3> HIDE DEF e
    <3>2. helper' \in Helpers
      BY <1>3, <3>1, Zenon DEF Helpers
    <3>3. /\ helper'.at = p /\ helper'.expected = e /\ helper'.out = o /\ helper'.events = helper.events
          /\ helper'.fatal = helper.fatal /\ helper'.excesses = helper.excesses
      BY <3>1, Zenon DEF Helpers
    <3> QED
      BY <3>2, <3>3 DEF e
  <2>3. stdin' \in [requests : Seq(Orders), closed : BOOLEAN] /\ stdin'.requests = << >>
    BY <1>1, <1>5 DEF HidTyped
  <2> QED
    BY <2>2, <2>3
<1>7. HidTyped'
  BY <1>0, <1>6 DEF HidTyped, HelperUnchanged
<1>8. worker.at \in {"waiting", "reaping", "done"}
  BY <1>15
<1>9. worker.at = "waiting" => Served'
  BY <1>0, <1>1, <1>4, <1>5, <1>6 DEF Served, Unserved, HelperUnchanged
<1>10. InStep'
  <2>1. worker' = worker /\ helper'.at \notin {"starting", "created"}
        /\ Len(stdin'.requests) <= 1 /\ DOMAIN stdin'.requests = {} /\ helper'.events = helper.events
    BY <1>0, <1>6, <1>12, HasNone DEF HelperUnchanged
  <2> QED
    BY <1>0, <1>8, <1>9, <2>1 DEF InStep, Begun
<1>11. Called' /\ Quiet'
  <2>1. 1 \in DOMAIN stdin.requests
    BY <1>0, DropsFirst
  <2> QED
    BY <1>0, <1>1, <1>5, <1>6, <2>1, HasNone DEF Called, Quiet, HelperUnchanged
<1>17. Blamed'
  <2>1. Clean(helper.out) => Clean(o)
    BY <1>0, <1>2, CleanFacts DEF Breaches, o
  <2>2. p # "torn"
    BY <1>12
  <2> QED
    BY <1>0, <1>6, <2>1, <2>2 DEF Blamed, HelperUnchanged
<1> QED
  BY <1>7, <1>10, <1>11, <1>17

\* A delegate event takes the next number, said or dropped.
LEMMA EventKeeps == ASSUME KeptInv, DelegateEvent PROVE KeptInv'
<1> DEFINE h == helper.events + 1
<1>0. /\ helper \in Helpers /\ helper.out \in Seq(Words) /\ inbox \in Seq(Words) /\ worker.events \in Nat
      /\ helper.events \in Nat /\ h \in Nat /\ helper.events < h /\ worker.sequence \in Nat
      /\ HelperUnchanged /\ UNCHANGED <<stdin, inbox, device>> /\ Blamed /\ helper.excesses \in Nat
  BY DEF DelegateEvent, KeptInv, HidTyped, Workers, Helpers
<1>20. PICK long \in {0, 1} :
         helper' = [helper EXCEPT !.events = h, !.excesses = helper.excesses + long,
                      !.out = IF helper.writer # "stopped" /\ Len(helper.out) < OutCapacity
                              THEN Append(helper.out, Says(IF long = 1 THEN "excess" ELSE "event", h))
                              ELSE helper.out]
  BY DEF DelegateEvent
<1> DEFINE kind == IF long = 1 THEN "excess" ELSE "event"
           w == Says(kind, h)
           o == IF helper.writer # "stopped" /\ Len(helper.out) < OutCapacity
                THEN Append(helper.out, w) ELSE helper.out
           x == helper.excesses + long
<1>1. w \in Words /\ (w.kind = "event" \/ (w.kind \in Enders /\ long = 1)) /\ w.n = h
  <2>1. kind \in {"event", "excess"} /\ (kind = "excess" => long = 1)
    OBVIOUS
  <2> HIDE DEF kind
  <2> QED
    BY <1>0, <2>1, WordFacts DEF Enders, Breaches
<1>2. helper' = [helper EXCEPT !.events = h, !.excesses = x, !.out = o]
  BY <1>20
<1>21. x \in Nat /\ x >= helper.excesses /\ (long = 1 => x > 0)
  BY <1>0, <1>20
<1>22. (w.kind \in Breaches => long = 1) /\ (o = helper.out \/ o = Append(helper.out, w))
  BY <1>1 DEF Breaches
<1> HIDE DEF w, h, x
<1>3. o \in Seq(Words)
  BY <1>0, <1>1, AddsLast
<1>5. worker.events <= helper.events
  BY DEF KeptInv, InStep, Begun
<1>4. ASSUME NEW r \in {0, 1}, NEW a \in Nat,
             Line(inbox, helper.out, worker.events, helper.events, r, a)
      PROVE  Line(inbox, o, worker.events, h, r, a)
  <2>0. worker.events < h
    BY <1>0, <1>5
  <2>1. Line(inbox, Append(helper.out, w), worker.events, h, r, a)
    <3>1. CASE w.kind = "event"
      BY SMTT(40), <1>0, <1>1, <1>4, <1>5, <2>0, <3>1, LineSays
    <3>2. CASE w.kind \in Enders
      BY SMTT(40), <1>0, <1>1, <1>4, <3>2, LineSays
    <3> QED
      BY <1>1, <3>1, <3>2
  <2>2. Line(inbox, helper.out, worker.events, h, r, a)
    BY <1>0, <1>4, LineOpens
  <2> QED
    BY <2>1, <2>2
<1> HIDE DEF o
<1>6. /\ helper' \in Helpers /\ helper'.at = helper.at /\ helper'.expected = helper.expected
      /\ helper'.out = o /\ helper'.events = h
      /\ helper'.fatal = helper.fatal /\ helper'.excesses = x
  <2>1. helper' \in Helpers
    BY <1>0, <1>2, <1>3, <1>21, Zenon DEF Helpers
  <2>2. /\ helper'.at = helper.at /\ helper'.expected = helper.expected
        /\ helper'.out = o /\ helper'.events = h
        /\ helper'.fatal = helper.fatal /\ helper'.excesses = x
    BY <1>0, <1>2, Zenon DEF Helpers
  <2> QED
    BY <2>1, <2>2
<1>23. Blamed'
  <2>1. long = 0 /\ Clean(helper.out) => Clean(o)
    <3> SUFFICES ASSUME long = 0, Clean(helper.out) PROVE Clean(o)
      OBVIOUS
    <3>1. w.kind \notin Breaches
      BY <1>22
    <3>2. Clean(Append(helper.out, w))
      BY <1>0, <1>1, <3>1, CleanFacts
    <3> QED
      BY <1>22, <3>2
  <2>2. x = 0 => helper.excesses = 0 /\ long = 0
    BY <1>0, <1>20, <1>21
  <2> QED
    BY <1>0, <1>6, <2>1, <2>2 DEF Blamed, HelperUnchanged
<1>7. 0 \in Nat /\ Begun \in {0, 1}
  BY DEF Begun
<1>8. worker.at = "waiting" => Unserved' \/ Served' \/ Refused'
  BY <1>0, <1>4, <1>5, <1>6, <1>7 DEF KeptInv, InStep, Unserved, Served, Refused, HelperUnchanged
<1>9. worker.at = "idle" => Line(inbox, o, worker.events, h, 0, 0)
  BY <1>4, <1>5, <1>7 DEF KeptInv, InStep, Begun
<1>10. worker.at = "none" => Line(inbox, o, worker.events, h, Begun, 0)
  BY <1>4, <1>5, <1>7 DEF KeptInv, InStep, Begun
<1>11. InStep'
  BY <1>0, <1>5, <1>6, <1>8, <1>9, <1>10 DEF KeptInv, InStep, HelperUnchanged, Begun
<1> QED
  BY <1>0, <1>6, <1>11, <1>23, HelperAlone

LEMMA WritesKeeps == ASSUME KeptInv, HelperWrites PROVE KeptInv'
<1>0. /\ helper \in Helpers /\ helper.out \in Seq(Words) /\ inbox \in Seq(Words) /\ worker.events \in Nat
      /\ helper.events \in Nat /\ worker.sequence \in Nat
      /\ HelperUnchanged /\ UNCHANGED <<stdin, device>>
      /\ helper.at \in {"created", "serving", "ended", "hung"} /\ Blamed
  BY DEF HelperWrites, KeptInv, HidTyped, Workers, Helpers
<1>1. CASE WritesFatal
  <2> DEFINE kind == IF helper.fatal = "violation" THEN "violation" ELSE "fatal"
             w == Says(kind, 0)
  <2>1. w \in Words /\ w.kind \in Enders /\ (w.kind \in Breaches => helper.fatal = "violation")
    <3>1. kind \in {"violation", "fatal"} /\ (kind = "violation" => helper.fatal = "violation")
      OBVIOUS
    <3> HIDE DEF kind
    <3> QED
      BY <3>1, WordFacts DEF Enders, Lost, Breaches
  <2>2. inbox' = Append(inbox, w) /\ inbox' \in Seq(Words)
    BY <1>0, <1>1, <2>1, AddsLast DEF WritesFatal
  <2> HIDE DEF w
  <2>3. << >> \in Seq(Words) /\ Clean(<< >>)
    BY HasNone DEF Clean
  <2>4. helper' = [helper EXCEPT !.fatal = "none", !.writer = "stopped", !.out = << >>]
    BY <1>1 DEF WritesFatal
  <2>5. /\ helper' \in Helpers /\ helper'.at = helper.at /\ helper'.expected = helper.expected
        /\ helper'.out = << >> /\ helper'.events = helper.events
        /\ helper'.fatal = "none" /\ helper'.excesses = helper.excesses
    <3>1. helper' \in Helpers
      BY <1>0, <2>3, <2>4, Zenon DEF Helpers
    <3>2. /\ helper'.at = helper.at /\ helper'.expected = helper.expected
          /\ helper'.out = << >> /\ helper'.events = helper.events
          /\ helper'.fatal = "none" /\ helper'.excesses = helper.excesses
      BY <1>0, <2>4, Zenon DEF Helpers
    <3> QED
      BY <3>1, <3>2
  <2>6. InStep'
    BY <1>0, <2>1, <2>2, <2>5, StopKeeps DEF HelperUnchanged
  <2>7. Blamed'
    <3>1. Clean(inbox) /\ w.kind \notin Breaches => Clean(inbox')
      BY <1>0, <2>1, <2>2, CleanFacts
    <3> QED
      BY <1>0, <2>1, <2>3, <2>5, <3>1 DEF Blamed, HelperUnchanged
  <2> QED
    BY <1>0, <2>2, <2>5, <2>6, <2>7, HelperAlone
<1>2. CASE WritesResponse
  <2> DEFINE t == Tail(helper.out)
             v == IF helper.fatal = "none" THEN helper.writer ELSE "late"
  <2>11. helper.out # << >> /\ inbox' = Append(inbox, Head(helper.out))
    BY <1>2 DEF WritesResponse
  <2>1. t \in Seq(Words) /\ Head(helper.out) \in Words
    BY <1>0, <2>11, DropsFirst
  <2>2. inbox' \in Seq(Words)
    BY <1>0, <2>11, <2>1, AddsLast
  <2>12. v \in {"runs", "late", "stopped"}
    BY <1>0 DEF Helpers
  <2>3. ASSUME NEW r \in {0, 1}, NEW a \in Nat,
               Line(inbox, helper.out, worker.events, helper.events, r, a)
        PROVE  Line(inbox', t, worker.events, helper.events, r, a)
    BY <1>0, <2>11, <2>3, LineMoves
  <2>13. Clean(helper.out) /\ Clean(inbox) => Clean(t) /\ Clean(inbox')
    BY <1>0, <2>1, <2>11, CleanFacts
  <2>4. helper' = [helper EXCEPT !.out = t, !.writer = v]
    BY <1>2 DEF WritesResponse
  <2> HIDE DEF t, v
  <2>5. /\ helper' \in Helpers /\ helper'.at = helper.at /\ helper'.expected = helper.expected
        /\ helper'.out = t /\ helper'.events = helper.events
        /\ helper'.fatal = helper.fatal /\ helper'.excesses = helper.excesses
    <3>1. helper' \in Helpers
      BY <1>0, <2>1, <2>4, <2>12, Zenon DEF Helpers
    <3>2. /\ helper'.at = helper.at /\ helper'.expected = helper.expected
          /\ helper'.out = t /\ helper'.events = helper.events
          /\ helper'.fatal = helper.fatal /\ helper'.excesses = helper.excesses
      BY <1>0, <2>4, Zenon DEF Helpers
    <3> QED
      BY <3>1, <3>2
  <2>14. Blamed'
    BY <1>0, <2>5, <2>13 DEF Blamed, HelperUnchanged
  <2>6. 0 \in Nat /\ Begun \in {0, 1}
    BY DEF Begun
  <2>7. worker.at = "waiting" => Unserved' \/ Served' \/ Refused'
    BY <1>0, <2>3, <2>5, <2>6 DEF KeptInv, InStep, Unserved, Served, Refused, HelperUnchanged
  <2>8. worker.at = "idle" => Line(inbox', t, worker.events, helper.events, 0, 0)
    BY <2>3, <2>6 DEF KeptInv, InStep, Begun
  <2>9. worker.at = "none" => Line(inbox', t, worker.events, helper.events, Begun, 0)
    BY <2>3, <2>6 DEF KeptInv, InStep, Begun
  <2>10. InStep'
    BY <1>0, <2>5, <2>7, <2>8, <2>9 DEF KeptInv, InStep, Begun, HelperUnchanged
  <2> QED
    BY <1>0, <2>2, <2>5, <2>10, <2>14, HelperAlone
<1>3. CASE HelperExits
  <2>0. inbox' = inbox /\ helper' = [helper EXCEPT !.at = "dead"]
    BY <1>3 DEF HelperExits
  <2>1. /\ helper' \in Helpers /\ helper'.at = "dead" /\ helper'.expected = helper.expected
        /\ helper'.out = helper.out /\ helper'.events = helper.events
        /\ helper'.fatal = helper.fatal /\ helper'.excesses = helper.excesses
    BY <1>0, <2>0 DEF Helpers, Stages
  <2>2. InStep'
    BY <1>0, <2>0, <2>1, StopKeeps DEF HelperUnchanged
  <2>3. Blamed'
    BY <1>0, <2>0, <2>1, BlameGoesOn DEF HelperUnchanged, Helpers
  <2> QED
    BY <1>0, <2>0, <2>1, <2>2, <2>3, HelperAlone
<1> QED
  BY <1>1, <1>2, <1>3 DEF HelperWrites

LEMMA ReaderKeeps == ASSUME KeptInv, ReaderSeesEof PROVE KeptInv'
<1> DEFINE kind == IF helper.at = "torn" THEN "torn" ELSE "eof"
           w == Says(kind, 0)
<1>0. /\ helper \in Helpers /\ inbox \in Seq(Words) /\ Blamed
      /\ HelperUnchanged /\ UNCHANGED <<stdin, helper, device>>
      /\ inbox' = Append(inbox, w)
  BY DEF ReaderSeesEof, KeptInv, HidTyped
<1>1. w \in Words /\ w.kind \in Enders /\ (w.kind \in Breaches => helper.at = "torn")
  <2>1. kind \in {"torn", "eof"} /\ (kind = "torn" => helper.at = "torn")
    OBVIOUS
  <2> HIDE DEF kind
  <2> QED
    BY <2>1, WordFacts DEF Enders, Lost, Breaches
<1> HIDE DEF w
<1>2. inbox' \in Seq(Words)
  BY <1>0, <1>1, AddsLast
<1>3. InStep'
  BY <1>0, <1>1, <1>2, StopKeeps DEF HelperUnchanged
<1>4. Blamed'
  <2>1. Clean(inbox) /\ w.kind \notin Breaches => Clean(inbox')
    BY <1>0, <1>1, CleanFacts
  <2> QED
    BY <1>0, <1>1, <2>1 DEF Blamed, HelperUnchanged
<1> QED
  BY <1>0, <1>2, <1>3, <1>4, HelperAlone

-----------------------------------------------------------------------------
LEMMA HidKeeps == KeptInv /\ [HidNext]_hidVars => KeptInv'
<1> SUFFICES ASSUME KeptInv, [HidNext]_hidVars PROVE KeptInv'
  OBVIOUS
<1>1. CASE UNCHANGED hidVars
  <2> USE <1>1 DEF hidVars, KeptInv
  <2>1. HidTyped' /\ Called' /\ Quiet' /\ Blamed'
    BY DEF HidTyped, Called, Quiet, Blamed
  <2> QED
    BY <2>1, InStepStays
<1>2. CASE HidNext
  BY <1>2, SendStateKeeps, NeutralKeeps, ShutdownCallKeeps, GiveUpKeeps, JoinKeeps, OpenKeeps,
     NotOpenKeeps, TakeKeeps, SeesClosedKeeps, ServiceKeeps, ReadKeeps, TimeOutKeeps, ReapKeeps,
     CreatesKeeps, ReadyKeeps, ServeKeeps, EofKeeps, WritesKeeps, ReaderKeeps, FailsKeeps,
     EventKeeps, TooLongKeeps, BreaksKeeps
  DEF HidNext, WorkerRuns, HelperRuns
<1> QED
  BY <1>1, <1>2

LEMMA KeptInvKeeps == KeptInv => ProtocolIsKept
<1> SUFFICES ASSUME KeptInv PROVE ProtocolIsKept
  OBVIOUS
<1>1. NeutralIsLast
  BY DEF KeptInv, Quiet, NeutralIsLast
<1>2. stdin.requests # << >> => Head(stdin.requests).sequence = helper.expected
  BY DropsFirst DEF KeptInv, HidTyped, InStep, Begun
<1>3. failure = "violation" => helper.excesses > 0
  BY DEF KeptInv, HidTyped, Helpers, Blamed
<1> QED
  BY <1>1, <1>2, <1>3 DEF ProtocolIsKept, HelperIsUnderstood

\* However the session's calls, the worker, the helper, its device and the
\* pipes interleave, break and run out of time, the two ends agree about the
\* requests, and an acknowledged neutral is what the game sees (client.rs and
\* helper.rs of crates/host/virtual-gamepad).
THEOREM ProtocolKept == HidSpec => []ProtocolIsKept
<1>1. HidSpec => []KeptInv
  BY HidStarts, HidKeeps, PTL DEF HidSpec
<1> QED
  BY <1>1, KeptInvKeeps, PTL

-----------------------------------------------------------------------------
(* Supervisor.                                                             *)


\* The owners that want hardware closed now.
Closers == suspension \cup IF desired_running THEN {} ELSE {"user"}

\* An output whose hardware may be opened.
Allowed(selection) == ~(startup_blocker /\ selection \in Live)

\* Who was told that hardware is released still wants it closed, and it is.
Told == parked \subseteq Closers /\ ParkedStaysClosed

\* What is open is the selected output, and without a monitor it is not live.
Opened ==
  /\ output \in {None, config_output}
  /\ Blocked => ~desired_running
  /\ NoHardwareWithoutMonitor

\* Past its commands the loop has nobody to keep hardware closed for.
Phased ==
  /\ phase \in {"output", "controller", "active"} => ~Parked
  /\ phase \in {"output", "controller", "active", "teardown"} =>
       parked = {} /\ pending_output_change = None
  /\ phase = "teardown" /\ exit.kind = "SetOutput" => Allowed(exit.selection)

\* A change that waits was accepted, and no updater was told it owns hardware.
Changing ==
  pending_output_change # None =>
    Allowed(pending_output_change.selection) /\ "update" \notin parked

IInv == Told /\ Opened /\ Phased /\ Changing

USE DEF IInv, Told, Opened, Phased, Changing, Closers, Allowed,
        ParkedStaysClosed, NoHardwareWithoutMonitor, Parked, Blocked

LEMMA InitInv == Init => IInv
  BY OutputAssumption DEF Init

-----------------------------------------------------------------------------
(* Commands.                                                               *)

\* A start that is not refused is answered to a user who no longer holds the
\* hardware closed.
LEMMA StartInv == IInv /\ Start => IInv'
<1> SUFFICES ASSUME IInv, Start PROVE IInv'
  OBVIOUS
<1>1. /\ phase \in {"commands", "active"}
      /\ parked' \subseteq parked
      /\ UNCHANGED <<startup_blocker, suspension, selected, phase, exit, handles>>
  BY DEF Start, Take
<1>2. CASE Blocked
  <2>1. ~desired_running /\ ~desired_running'
    BY <1>2 DEF Start
  <2> QED
    BY <1>1, <2>1 DEF selected, handles
<1>3. CASE ~Blocked
  <2>1. desired_running' /\ parked' = parked \ {"user"}
    BY <1>3 DEF Start
  <2> QED
    BY <1>1, <1>3, <2>1 DEF selected, handles
<1> QED
  BY <1>2, <1>3

LEMMA ResumeInv == IInv /\ Resume => IInv'
<1> SUFFICES ASSUME IInv, Resume PROVE IInv'
  OBVIOUS
<1> DEFINE owner == Reopens[Taken.kind]
<1>1. /\ phase \in {"commands", "active"}
      /\ suspension' = suspension \ {owner} /\ parked' = parked \ {owner}
      /\ UNCHANGED <<startup_blocker, desired_running, selected, phase, exit,
                     handles>>
  BY DEF Resume, Take
<1> HIDE DEF owner
<1> QED
  BY <1>1 DEF selected, handles

LEMMA StopIdleInv == IInv /\ StopIdle => IInv'
<1> SUFFICES ASSUME IInv, StopIdle PROVE IInv'
  OBVIOUS
<1>1. /\ phase = "commands" /\ UNCHANGED <<phase, exit>>
      /\ desired_running' => desired_running
      /\ suspension \subseteq suspension'
      /\ UNCHANGED <<startup_blocker, selected, handles, parked>>
  BY DEF StopIdle, Asks
<1> QED
  BY <1>1 DEF selected, handles

\* It leaves an active session, which holds nothing closed.
LEMMA StopActiveInv == IInv /\ StopActive => IInv'
<1> SUFFICES ASSUME IInv, StopActive PROVE IInv'
  OBVIOUS
<1>1. /\ phase = "active" /\ phase' = "teardown"
      /\ exit' = Taken /\ Taken.kind # "SetOutput"
      /\ desired_running' => desired_running
      /\ UNCHANGED <<startup_blocker, selected, handles, parked>>
  BY DEF StopActive, Asks, Owner
<1> QED
  BY <1>1 DEF selected, handles

LEMMA UnrelatedInv ==
  IInv /\ (RefuseOutput \/ Configure \/ Drained \/ CallerSends \/ UNCHANGED vars)
    => IInv'
  BY DEF RefuseOutput, Configure, Take, Drained, Goto, CallerSends, Send, vars,
         intent, acks, selected, handles

\* A change is accepted only if an updater does not own the hardware.
LEMMA SetOutputInv == IInv /\ (SetOutputIdle \/ SetOutputActive) => IInv'
<1> SUFFICES ASSUME IInv, SetOutputIdle \/ SetOutputActive PROVE IInv'
  OBVIOUS
<1>1. /\ Allowed(Taken.selection) /\ "update" \notin parked
      /\ UNCHANGED <<startup_blocker, intent, config_output, handles, parked>>
  BY DEF SetOutputIdle, SetOutputActive, Accepts, ChangeIsRejected
<1>2. CASE SetOutputIdle
  BY <1>1, <1>2 DEF SetOutputIdle, intent, handles
<1>3. CASE SetOutputActive
  BY <1>1, <1>3 DEF SetOutputActive, intent, handles
<1> QED
  BY <1>2, <1>3

LEMMA ServiceCommandInv == IInv /\ ServiceCommand => IInv'
<1>1. IInv /\ (RefuseOutput \/ Configure) => IInv'
  BY UnrelatedInv
<1> QED
  BY <1>1, StartInv, ResumeInv, StopIdleInv, StopActiveInv, SetOutputInv
     DEF ServiceCommand

-----------------------------------------------------------------------------
(* The loop.                                                               *)

LEMMA ChangeOutputInv == IInv /\ ChangeOutput => IInv'
<1> SUFFICES ASSUME IInv, ChangeOutput PROVE IInv'
  OBVIOUS
<1>1. /\ output' = None /\ controllers' = FALSE /\ phase' = "commands"
      /\ pending_output_change' = None
      /\ \/ UNCHANGED config_output
         \/ Allowed(config_output')
      /\ UNCHANGED <<startup_blocker, intent, parked>>
  BY DEF ChangeOutput, Released, Goto
<1> QED
  BY <1>1, OutputAssumption DEF intent

\* Hardware is closed before anybody is told, and only owners that still want
\* it closed are.
LEMMA ParkInv == IInv /\ (Park \/ ShutDown) => IInv'
<1> SUFFICES ASSUME IInv, Park \/ ShutDown PROVE IInv'
  OBVIOUS
<1>1. /\ output' = None /\ controllers' = FALSE
      /\ phase' \in {"commands", "ended"}
      /\ pending_output_change = None
      /\ parked' = parked \cup Standing(pending_stop_acks)
      /\ UNCHANGED <<startup_blocker, intent, selected>>
  BY DEF Park, ShutDown, Released, Goto, NothingToChange
<1>2. Standing(pending_stop_acks) \subseteq Closers
  BY DEF Standing
<1> HIDE DEF Closers
<1>3. parked' \subseteq Closers /\ Closers' = Closers
  BY <1>1, <1>2 DEF Closers, intent
<1> QED
  BY <1>1, <1>3, OutputAssumption DEF intent, selected

LEMMA SettleInv == IInv /\ Settle => IInv'
  BY DEF Settle, NothingToChange, Goto, acks, selected, handles

\* Handles are opened only in phases in which nobody wants them closed.
LEMMA DiscoverInv == IInv /\ (DiscoverOutput \/ DiscoverController) => IInv'
<1> SUFFICES ASSUME IInv, DiscoverOutput \/ DiscoverController PROVE IInv'
  OBVIOUS
<1>1. /\ ~Parked /\ parked = {} /\ pending_output_change = None
      /\ ~Blocked
  BY DEF DiscoverOutput, DiscoverController
<1>2. /\ output' \in {None, config_output}
      /\ \/ phase' = "commands"
         \/ phase' \in {"controller", "active"} /\ UNCHANGED desired_running
      /\ UNCHANGED <<startup_blocker, suspension, selected, parked>>
  BY DEF DiscoverOutput, DiscoverController, Goto
<1> QED
  BY <1>1, <1>2, OutputAssumption DEF selected

-----------------------------------------------------------------------------
(* The session and its cleanup.                                            *)

LEMMA SessionEndsInv == IInv /\ SessionEnds => IInv'
<1> SUFFICES ASSUME IInv, SessionEnds PROVE IInv'
  OBVIOUS
<1>1. /\ phase = "active" /\ phase' = "teardown"
      /\ exit'.kind # "SetOutput"
      /\ UNCHANGED <<startup_blocker, intent, selected, handles, parked>>
  BY DEF SessionEnds, Ending, NewCommand
<1> QED
  BY <1>1 DEF intent, selected, handles

LEMMA SessionFailsInv == IInv /\ (SessionFails \/ TearDown) => IInv'
<1> SUFFICES ASSUME IInv, SessionFails \/ TearDown PROVE IInv'
  OBVIOUS
<1>1. /\ parked = {} /\ pending_output_change = None
      /\ phase' = "commands" /\ output' \in {None, output}
      /\ desired_running' => desired_running
      /\ UNCHANGED <<startup_blocker, suspension, selected, parked>>
  BY DEF SessionFails, TearDown, Released, Goto
<1> QED
  BY <1>1, OutputAssumption DEF selected

LEMMA AcknowledgeInv == IInv /\ Acknowledge => IInv'
<1> SUFFICES ASSUME IInv, Acknowledge PROVE IInv'
  OBVIOUS
<1>1. PICK cleaned \in BOOLEAN :
        /\ parked' = IF cleaned /\ exit.kind \in DOMAIN Owner
                     THEN parked \cup Standing({exit}) ELSE parked
        /\ config_output' = IF cleaned /\ exit.kind = "SetOutput"
                            THEN exit.selection ELSE config_output
  BY DEF Acknowledge
<1>2. /\ phase = "teardown" /\ phase' = "commands"
      /\ output' = None /\ controllers' = FALSE
      /\ UNCHANGED <<startup_blocker, intent, pending_output_change>>
  BY DEF Acknowledge, Released, Goto
<1>3. Standing({exit}) \subseteq Closers
  BY DEF Standing
<1>4. parked' \subseteq Closers'
  BY <1>1, <1>2, <1>3 DEF intent
<1>5. Allowed(config_output') \/ UNCHANGED config_output
  BY <1>1, <1>2
<1> QED
  BY <1>2, <1>4, <1>5, OutputAssumption DEF intent

-----------------------------------------------------------------------------
(* Theorems.                                                               *)

LEMMA NextInv == IInv /\ [Next]_vars => IInv'
<1>1. IInv /\ (Drained \/ CallerSends \/ UNCHANGED vars) => IInv'
  BY UnrelatedInv
<1>2. IInv /\ Loop => IInv'
  BY <1>1, ServiceCommandInv, ChangeOutputInv, ParkInv, SettleInv, DiscoverInv,
     SessionFailsInv, AcknowledgeInv DEF Loop
<1> QED
  BY <1>1, <1>2, SessionEndsInv, SessionFailsInv DEF Next

\* Every reachable state of the supervisor satisfies the inductive invariant.
THEOREM Invariance == Spec => []IInv
  BY InitInv, NextInv, PTL DEF Spec

\* The hardware is closed for as long as somebody was told that it is.
THEOREM ParkedClosed == Spec => []ParkedStaysClosed
<1>1. IInv => ParkedStaysClosed
  OBVIOUS
<1> QED
  BY <1>1, Invariance, PTL

\* No live output is open without a power monitor.
THEOREM MonitorNeeded == Spec => []NoHardwareWithoutMonitor
<1>1. IInv => NoHardwareWithoutMonitor
  OBVIOUS
<1> QED
  BY <1>1, Invariance, PTL

\* The hardware is open only when nobody was told it is closed, and a live
\* output only under a power monitor.
THEOREM HardwarePermitted == Spec => []HardwareIsPermitted
  BY ParkedClosed, MonitorNeeded, PTL DEF HardwareIsPermitted

\* The output selected when an updater was told it owns the hardware stays.
THEOREM OutputKept == Spec => [][OutputIsKept]_vars
<1>1. ASSUME IInv, Next, "update" \in parked PROVE config_output' = config_output
  <2>1. CASE ChangeOutput \/ Acknowledge
    BY <1>1, <2>1 DEF ChangeOutput, Acknowledge
  <2>2. CASE ServiceCommand
    BY <1>1, <2>2
       DEF ServiceCommand, Start, StopIdle, StopActive, Asks, Resume, Configure,
           RefuseOutput, SetOutputIdle, SetOutputActive, selected
  <2>3. CASE \/ Drained \/ ShutDown \/ Park \/ Settle \/ DiscoverOutput
             \/ DiscoverController \/ TearDown \/ SessionEnds \/ SessionFails
    BY <1>1, <2>3
       DEF Drained, ShutDown, Park, Settle, DiscoverOutput, DiscoverController,
           TearDown, SessionEnds, SessionFails, selected
  <2>4. CASE CallerSends
    BY <1>1, <2>4 DEF CallerSends, Send, selected
  <2> QED
    BY <1>1, <2>1, <2>2, <2>3, <2>4 DEF Next, Loop
<1>2. IInv /\ [Next]_vars =>
        [OutputIsKept]_vars
  BY <1>1 DEF OutputIsKept
<1> QED
  BY <1>2, Invariance, PTL DEF Spec

\* Whoever owns the hardware is obeyed: nothing is open against the word of an
\* owner, and nobody exchanges the output under an updater.
THEOREM OwnersObeyed == Spec => OwnersAreObeyed
<1>1. HardwareIsPermitted' /\ [OutputIsKept]_vars => [HardwareIsPermitted' /\ OutputIsKept]_vars
  OBVIOUS
<1> QED
  BY <1>1, HardwarePermitted, OutputKept, PTL DEF OwnersAreObeyed
=============================================================================
