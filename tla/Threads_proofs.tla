--------------------------- MODULE Threads_proofs ---------------------------
(***************************************************************************)
(* What TLAPS proves of the program's smaller threads of control, each for *)
(* every value of its constants: the firmware's loop beside its USB task,  *)
(* the HID worker beside the supervisor that commands it, and the relay    *)
(* that carries a game's rumble to the worker.                             *)
(*                                                                         *)
(* The worker rests on its haptics supervisor, whose operations are taken  *)
(* first: each leaves a sound state, and the motor at what is wanted or    *)
(* the status degraded.  HidInv joins to that what the thread adds: a      *)
(* motor that runs is wanted and leased unless the status or the lost      *)
(* connection says otherwise, a worker that accepts commands has a         *)
(* connected supervisor, and one that would take input has suppressed the  *)
(* controller's lizard mode.                                               *)
(*                                                                         *)
(* RelayInv ties the age of the game's wish to the relay's renewal timer   *)
(* and to the worker's lease: what the worker wants was offered to it      *)
(* within a renewal, or the lease has run out.  LoopInv says what a        *)
(* transition to the bootloader has behind it at each of its stages.       *)
(***************************************************************************)
EXTENDS FirmwareLoop, HidWorker, FeedbackRelay, FiniteSetTheorems, SequenceTheorems, TLAPS

-----------------------------------------------------------------------------
(* FirmwareLoop.                                                           *)

Session == [requested : BOOLEAN, ready : BOOLEAN, active : BOOLEAN, negotiated : BOOLEAN]

\* The types of what the transition depends on.
LoopTyped ==
  /\ bridge \in [session : Session, queue : Seq({"Ready"}), answered : BOOLEAN,
                 mounted : BOOLEAN, dtr : BOOLEAN]
  /\ uf2_loop \in [started : BOOLEAN, drained : BOOLEAN, since : Nat, left : BOOLEAN,
                   lost : BOOLEAN]

\* A session that stands ready has released its controls, and its answer is on
\* its way or with USB.
ReadyIsEarned ==
  /\ bridge.session.requested => ~bridge.session.active
  /\ bridge.session.ready =>
       bridge.session.requested /\ (bridge.answered \/ bridge.queue # << >>)

\* The transition began with a session that was ready, which it still is unless
\* the host left; the grace period is counted after the queue ran empty.
TransitionIsEarned ==
  /\ uf2_loop.started /\ ~uf2_loop.lost => bridge.session.ready
  /\ uf2_loop.drained => uf2_loop.started /\ (uf2_loop.lost \/ bridge.answered)
  /\ uf2_loop.since <= DrainDelay
  /\ uf2_loop.left => uf2_loop.drained /\ uf2_loop.since = DrainDelay

LoopInv == LoopTyped /\ ReadyIsEarned /\ TransitionIsEarned

-----------------------------------------------------------------------------

LEMMA LoopStarts == LoopInit => LoopInv
BY LoopAssumption DEF LoopInit, LoopInv, LoopTyped, ReadyIsEarned, TransitionIsEarned, NoSession, Session

\* The USB task touches neither the session nor the transition.
LEMMA UsbTaskKeeps == LoopInv /\ UsbTask => LoopInv'
BY DEF UsbTask, driver_transfer, driver_control, driver_open, driver_reset,
  HostOpensPort, HostClosesPort, LoopInv, LoopTyped, ReadyIsEarned, TransitionIsEarned

\* What the session makes of the host's bytes keeps a request's promises.
LEMMA HeardSessions ==
  ASSUME NEW s \in Session, s.requested => ~s.active, s.ready => s.requested,
         NEW t \in Hear(s)
  PROVE  /\ t \in Session
         /\ t.requested => ~t.active
         /\ t.ready = s.ready
         /\ s.requested => t.requested
BY DEF Hear, Session

\* The host leaves or comes: the session and its frames are gone, and a
\* transition under way has lost its host.
LEMMA ConnectionKeeps == LoopInv /\ service_connection => LoopInv'
<1> SUFFICES ASSUME LoopInv, service_connection PROVE LoopInv'
  OBVIOUS
<1> USE DEF LoopInv, LoopTyped, ReadyIsEarned, TransitionIsEarned, Session
<1>1. \/ UNCHANGED <<bridge, uf2_loop>>
      \/ /\ bridge' = [bridge EXCEPT !.session = NoSession, !.queue = << >>]
         /\ uf2_loop' = IF uf2_loop.started THEN [uf2_loop EXCEPT !.lost = TRUE] ELSE uf2_loop
  BY Zenon DEF service_connection
<1>2. CASE UNCHANGED <<bridge, uf2_loop>>
  BY <1>2
<1>3. CASE /\ bridge' = [bridge EXCEPT !.session = NoSession, !.queue = << >>]
           /\ uf2_loop' = IF uf2_loop.started THEN [uf2_loop EXCEPT !.lost = TRUE] ELSE uf2_loop
  <2>1. NoSession \in Session /\ ~NoSession.requested /\ ~NoSession.ready
    BY DEF NoSession
  <2>4. /\ bridge' \in [session : Session, queue : Seq({"Ready"}), answered : BOOLEAN,
                        mounted : BOOLEAN, dtr : BOOLEAN]
        /\ ~bridge'.session.requested /\ ~bridge'.session.ready
    <3>1. << >> \in Seq({"Ready"})
      OBVIOUS
    <3> QED
      BY <1>3, <2>1, <3>1
  <2>2. CASE uf2_loop.started
    <3>1. /\ uf2_loop' \in [started : {TRUE}, drained : BOOLEAN, since : Nat, left : BOOLEAN, lost : {TRUE}]
          /\ uf2_loop'.drained = uf2_loop.drained /\ uf2_loop'.since = uf2_loop.since
          /\ uf2_loop'.left = uf2_loop.left
      BY <1>3, <2>2
    <3> QED
      BY <2>2, <2>4, <3>1
  <2>3. CASE ~uf2_loop.started
    <3>1. uf2_loop' = uf2_loop
      BY <1>3, <2>3
    <3> QED
      BY <2>3, <2>4, <3>1
  <2> QED
    BY <2>2, <2>3
<1> QED
  BY <1>1, <1>2, <1>3

\* A frame that leaves the queue is the answer the host gets.
LEMMA CdcKeeps == LoopInv /\ service_cdc => LoopInv'
<1> SUFFICES ASSUME LoopInv, service_cdc PROVE LoopInv'
  OBVIOUS
<1> USE DEF LoopInv, LoopTyped, ReadyIsEarned, TransitionIsEarned
<1>1. PICK s \in IF loop.dtr THEN Hear(bridge.session) ELSE {bridge.session}, room \in BOOLEAN :
        bridge' = IF loop.dtr /\ bridge.dtr /\ room /\ bridge.queue # <<>>
                  THEN [bridge EXCEPT !.session = s, !.queue = Tail(@), !.answered = TRUE]
                  ELSE [bridge EXCEPT !.session = s]
  BY DEF service_cdc
<1>2. /\ s \in Session
      /\ s.requested => ~s.active
      /\ s.ready = bridge.session.ready
      /\ bridge.session.requested => s.requested
  BY HeardSessions
<1>3. bridge.queue # << >> => Tail(bridge.queue) \in Seq({"Ready"})
  OBVIOUS
<1> QED
  BY <1>1, <1>2, <1>3 DEF service_cdc

\* The answer is queued with the session that becomes ready.
LEMMA LoopTickKeeps == LoopInv /\ tick => LoopInv'
<1> SUFFICES ASSUME LoopInv, tick PROVE LoopInv'
  OBVIOUS
<1> USE DEF LoopInv, LoopTyped, ReadyIsEarned, TransitionIsEarned
<1> DEFINE q == Append(bridge.queue, "Ready")
<1>1. bridge.queue \in Seq({"Ready"})
  OBVIOUS
<1>2. q \in Seq({"Ready"}) /\ q # << >>
  BY <1>1, AppendProperties
<1>3. /\ uf2_loop' = uf2_loop
      /\ \/ bridge' = bridge
         \/ bridge.session.requested /\ bridge' = [bridge EXCEPT !.session.ready = TRUE, !.queue = q]
  BY Zenon DEF tick
<1> HIDE DEF q
<1>4. CASE bridge.session.requested /\ bridge' = [bridge EXCEPT !.session.ready = TRUE, !.queue = q]
  BY <1>2, <1>3, <1>4 DEF Session
<1> QED
  BY <1>3, <1>4

\* The loop hands a report over or arms the endpoint.
LEMMA EndpointKeeps == LoopInv /\ (take_output_report \/ service_out_endpoint) => LoopInv'
BY DEF take_output_report, service_out_endpoint, LoopInv, LoopTyped, ReadyIsEarned, TransitionIsEarned

\* A step of a transition that is under way, or begins with a ready session.
LEMMA TransitionStep ==
  ASSUME LoopInv, bridge' = bridge,
         uf2_loop.started \/ bridge.session.ready,
         uf2_loop' \in [started : {TRUE}, drained : BOOLEAN, since : Nat, left : BOOLEAN, lost : BOOLEAN],
         uf2_loop'.lost = uf2_loop.lost,
         uf2_loop'.since <= DrainDelay,
         uf2_loop'.drained => uf2_loop.drained \/ bridge.queue = << >>,
         uf2_loop'.left => uf2_loop'.drained /\ uf2_loop'.since = DrainDelay
  PROVE  LoopInv'
<1>1. LoopTyped' /\ ReadyIsEarned'
  BY DEF LoopInv, LoopTyped, ReadyIsEarned
<1>2. TransitionIsEarned'
  BY DEF LoopInv, LoopTyped, ReadyIsEarned, TransitionIsEarned
<1> QED
  BY <1>1, <1>2 DEF LoopInv

\* The transition begins, waits for the queue and for the delay, and leaves.
LEMMA TransitionKeeps == LoopInv /\ service_uf2_transition => LoopInv'
<1> SUFFICES ASSUME LoopInv, service_uf2_transition PROVE LoopInv'
  OBVIOUS
<1> DEFINE u == [uf2_loop EXCEPT !.started = TRUE]
<1>1. /\ bridge' = bridge
      /\ \/ uf2_loop' = uf2_loop
         \/ /\ uf2_loop.started \/ bridge.session.ready
            /\ \/ uf2_loop' = u
               \/ bridge.queue = << >> /\ uf2_loop' = [u EXCEPT !.drained = TRUE]
               \/ u.drained /\ u.since < DrainDelay /\ uf2_loop' = [u EXCEPT !.since = @ + 1]
               \/ u.drained /\ ~(u.since < DrainDelay) /\ uf2_loop' = [u EXCEPT !.left = TRUE]
  BY Zenon DEF service_uf2_transition
<1>2. /\ u \in [started : {TRUE}, drained : BOOLEAN, since : Nat, left : BOOLEAN, lost : BOOLEAN]
      /\ u.drained = uf2_loop.drained /\ u.since = uf2_loop.since
      /\ u.left = uf2_loop.left /\ u.lost = uf2_loop.lost
      /\ u.since <= DrainDelay
      /\ u.left => u.drained /\ u.since = DrainDelay
  BY DEF LoopInv, LoopTyped, TransitionIsEarned
<1> HIDE DEF u
<1>3. CASE uf2_loop' = uf2_loop
  BY <1>1, <1>3 DEF LoopInv, LoopTyped, ReadyIsEarned, TransitionIsEarned
<1>4. CASE uf2_loop' = u
  BY <1>1, <1>2, <1>3, <1>4, TransitionStep
<1>5. CASE bridge.queue = << >> /\ uf2_loop' = [u EXCEPT !.drained = TRUE]
  <2>1. /\ uf2_loop' \in [started : {TRUE}, drained : {TRUE}, since : Nat, left : BOOLEAN, lost : BOOLEAN]
        /\ uf2_loop'.since = u.since /\ uf2_loop'.lost = u.lost /\ uf2_loop'.left = u.left
    BY <1>2, <1>5
  <2> QED
    BY <1>1, <1>2, <1>3, <1>5, <2>1, TransitionStep
<1>6. CASE u.drained /\ u.since < DrainDelay /\ uf2_loop' = [u EXCEPT !.since = @ + 1]
  <2>1. u.since + 1 \in Nat /\ u.since + 1 <= DrainDelay /\ ~u.left
    BY <1>2, <1>6, LoopAssumption
  <2>2. /\ uf2_loop' \in [started : {TRUE}, drained : BOOLEAN, since : Nat, left : BOOLEAN, lost : BOOLEAN]
        /\ uf2_loop'.since = u.since + 1 /\ uf2_loop'.drained = u.drained
        /\ uf2_loop'.lost = u.lost /\ uf2_loop'.left = u.left
    BY <1>2, <1>6, <2>1
  <2> QED
    BY <1>1, <1>2, <1>3, <2>1, <2>2, TransitionStep
<1>7. CASE u.drained /\ ~(u.since < DrainDelay) /\ uf2_loop' = [u EXCEPT !.left = TRUE]
  <2>1. u.since = DrainDelay
    BY <1>2, <1>7, LoopAssumption
  <2>2. /\ uf2_loop' \in [started : {TRUE}, drained : BOOLEAN, since : Nat, left : {TRUE}, lost : BOOLEAN]
        /\ uf2_loop'.since = u.since /\ uf2_loop'.drained = u.drained /\ uf2_loop'.lost = u.lost
    BY <1>2, <1>7
  <2> QED
    BY <1>1, <1>2, <1>3, <1>7, <2>1, <2>2, TransitionStep
<1> QED
  BY <1>1, <1>3, <1>4, <1>5, <1>6, <1>7

\* A device whose host kept the port open leaves for the bootloader with its
\* controls released, its answer given to USB and the grace period over; one
\* whose host came or went meanwhile has waited out the grace period.
THEOREM DfuEarned == LoopSpec => []HeldPortEarnsDfu
<1>1. LoopInv /\ [LoopNext]_loopVars => LoopInv'
  <2> SUFFICES ASSUME LoopInv, [LoopNext]_loopVars PROVE LoopInv'
    OBVIOUS
  <2>1. CASE UNCHANGED loopVars
    BY <2>1 DEF loopVars, LoopInv, LoopTyped, ReadyIsEarned, TransitionIsEarned
  <2>2. CASE UsbTask
    BY <2>2, UsbTaskKeeps
  <2>3. CASE LoopStep
    BY <2>3, ConnectionKeeps, CdcKeeps, LoopTickKeeps, EndpointKeeps, TransitionKeeps DEF LoopStep
  <2> QED
    BY <2>1, <2>2, <2>3 DEF LoopNext
<1>2. LoopInv => HeldPortEarnsDfu
  BY DEF LoopInv, LoopTyped, ReadyIsEarned, TransitionIsEarned, HeldPortEarnsDfu, Session
<1> QED
  BY LoopStarts, <1>1, <1>2, PTL DEF LoopSpec

-----------------------------------------------------------------------------
(* Haptics.                                                                *)

HapticStates ==
  [connected : BOOLEAN, desired : Commands, lease : 0 .. Lease \cup {Nothing},
   written : 0 .. Refresh \cup {Nothing}, retry : 0 .. Retry,
   active : BOOLEAN, degraded : BOOLEAN]

\* A supervisor that waits for a retry says that it is degraded, and a rumble
\* it wants has a lease.
Sound(h) ==
  /\ h \in HapticStates
  /\ h.retry # 0 => h.degraded
  /\ h.desired # Still => h.lease # Nothing

\* The motor plays what is wanted, or the status says that it may not.
Plays(o) == o.haptics.degraded \/ o.motor = o.haptics.desired

LEMMA ToldIs == ASSUME NEW h, NEW m PROVE Told(h, m).haptics = h /\ Told(h, m).motor = m
  BY DEF Told

\* A write of what is wanted leaves the wish and its lease as they are.
LEMMA WriteOutcome ==
  ASSUME NEW h, Sound(h), NEW m \in Commands, NEW reaches \in BOOLEAN,
         NEW o \in write(h, m, h.desired, reaches)
  PROVE  /\ Sound(o.haptics) /\ Plays(o) /\ o.motor \in Commands
         /\ o.haptics.connected = h.connected /\ o.haptics.desired = h.desired
         /\ o.haptics.lease = h.lease
<1> DEFINE failed == [h EXCEPT !.retry = Retry, !.active = FALSE, !.degraded = TRUE]
           wrote == [h EXCEPT !.written = 0, !.retry = 0, !.active = h.desired # Still,
                              !.degraded = FALSE]
<1>1. h \in HapticStates /\ Retry \in 0 .. Retry /\ 0 \in 0 .. Retry /\ 0 \in 0 .. Refresh
      /\ h.desired \in Commands /\ (h.desired # Still) \in BOOLEAN
  BY HapticsAssumption DEF Sound, HapticStates
<1>2. failed \in HapticStates /\ wrote \in HapticStates
  BY <1>1, Zenon DEF HapticStates
<1>3. /\ failed.retry = Retry /\ failed.degraded /\ failed.desired = h.desired
      /\ failed.lease = h.lease /\ failed.connected = h.connected
  BY <1>1, Zenon DEF HapticStates
<1>4. /\ wrote.retry = 0 /\ wrote.desired = h.desired
      /\ wrote.lease = h.lease /\ wrote.connected = h.connected
  BY <1>1, Zenon DEF HapticStates
<1>5. o = Told(failed, m) \/ o = Told(wrote, h.desired)
  BY Zenon DEF write
<1> HIDE DEF failed, wrote
<1>6. CASE o = Told(failed, m)
  <2>1. o.haptics = failed /\ o.motor = m
    BY <1>6, ToldIs
  <2> QED
    BY <2>1, <1>2, <1>3 DEF Sound, Plays
<1>7. CASE o = Told(wrote, h.desired)
  <2>1. o.haptics = wrote /\ o.motor = h.desired
    BY <1>7, ToldIs
  <2> QED
    BY <2>1, <1>1, <1>2, <1>4 DEF Sound, Plays
<1> QED
  BY <1>5, <1>6, <1>7

\* Connecting writes a zero.
LEMMA ConnectOutcome ==
  ASSUME NEW h \in HapticStates, NEW m \in Commands, NEW reaches \in BOOLEAN,
         NEW o \in haptics_connected(h, m, reaches)
  PROVE  /\ Sound(o.haptics) /\ Plays(o) /\ o.motor \in Commands
         /\ o.haptics.connected /\ o.haptics.desired = Still
<1> DEFINE g == [h EXCEPT !.connected = TRUE, !.desired = Still, !.lease = Nothing,
                          !.written = Nothing, !.retry = 0]
<1>1. Still \in Commands /\ Nothing \in 0 .. Lease \cup {Nothing}
      /\ Nothing \in 0 .. Refresh \cup {Nothing} /\ 0 \in 0 .. Retry
  BY HapticsAssumption DEF Commands
<1>2. g \in HapticStates
  BY <1>1, Zenon DEF HapticStates
<1>3. g.connected /\ g.desired = Still /\ g.retry = 0
  BY Zenon DEF HapticStates
<1>4. o \in write(g, m, Still, reaches)
  BY Zenon DEF haptics_connected
<1> HIDE DEF g
<1>5. Sound(g)
  BY <1>2, <1>3 DEF Sound
<1>6. o \in write(g, m, g.desired, reaches)
  BY <1>3, <1>4
<1> QED
  BY <1>3, <1>5, <1>6, WriteOutcome

\* A command becomes the wish; if nothing is written, the motor plays it
\* already or the status says that it does not.
LEMMA CommandOutcome ==
  ASSUME NEW h, Sound(h), NEW m \in Commands, NEW c \in Commands, NEW reaches \in BOOLEAN,
         NEW o \in command(h, m, c, reaches)
  PROVE  /\ Sound(o.haptics) /\ o.motor \in Commands
         /\ o.haptics.connected = h.connected /\ o.haptics.desired = c
         /\ o.haptics.lease = IF c = Still THEN Nothing ELSE 0
         /\ \/ Plays(o)
            \/ o.motor = m /\ c = h.desired /\ o.haptics.degraded = h.degraded
<1> DEFINE changed == c # h.desired
           asked == [h EXCEPT !.desired = c, !.lease = IF c = Still THEN Nothing ELSE 0]
           due == IF c = Still THEN changed \/ h.active \/ h.degraded
                  ELSE changed /\ h.retry = 0
<1>1. h \in HapticStates /\ (IF c = Still THEN Nothing ELSE 0) \in 0 .. Lease \cup {Nothing}
  BY HapticsAssumption DEF Sound
<1>2. asked \in HapticStates
  BY <1>1, Zenon DEF HapticStates
<1>3. /\ asked.desired = c /\ asked.lease = IF c = Still THEN Nothing ELSE 0
      /\ asked.retry = h.retry /\ asked.degraded = h.degraded /\ asked.connected = h.connected
  BY <1>1, Zenon DEF HapticStates
<1>4. o \in IF due THEN write(asked, m, c, reaches) ELSE {Told(asked, m)}
  BY Zenon DEF command
<1>5. 0 # Nothing
  BY HapticsAssumption
<1>6. ~due => c = h.desired \/ h.degraded
  BY DEF Sound
<1> HIDE DEF asked, due
<1>7. Sound(asked)
  BY <1>2, <1>3, <1>5 DEF Sound
<1>8. CASE due
  <2>1. o \in write(asked, m, asked.desired, reaches)
    BY <1>3, <1>4, <1>8
  <2> QED
    BY <2>1, <1>3, <1>7, WriteOutcome
<1>9. CASE ~due
  <2>1. o.haptics = asked /\ o.motor = m
    BY <1>4, <1>9, ToldIs
  <2> QED
    BY <2>1, <1>3, <1>6, <1>7, <1>9 DEF Plays
<1> QED
  BY <1>8, <1>9

\* A zero for a lease that ran out, or a refresh, or nothing.
LEMMA ServiceOutcome ==
  ASSUME NEW h, Sound(h), NEW m \in Commands, NEW reaches \in BOOLEAN,
         NEW o \in haptics_service(h, m, reaches)
  PROVE  /\ Sound(o.haptics) /\ o.motor \in Commands
         /\ o.haptics.connected = h.connected
         /\ Plays(o) \/ (o.haptics = h /\ o.motor = m)
         /\ IF Lapsed(h) THEN o.haptics.desired = Still /\ Plays(o)
            ELSE o.haptics.desired = h.desired /\ o.haptics.lease = h.lease
<1> DEFINE parked == [h EXCEPT !.desired = Still, !.lease = Nothing]
<1>1. Still \in Commands /\ Nothing \in 0 .. Lease \cup {Nothing} /\ h \in HapticStates
  BY HapticsAssumption DEF Sound, Commands
<1>2. parked \in HapticStates
  BY <1>1, Zenon DEF HapticStates
<1>3. /\ parked.desired = Still /\ parked.lease = Nothing
      /\ parked.retry = h.retry /\ parked.degraded = h.degraded /\ parked.connected = h.connected
  BY <1>1, Zenon DEF HapticStates
<1>4. \/ h.desired = Still /\ o = Told(h, m)
      \/ h.desired # Still /\ Lapsed(h) /\ o \in write(parked, m, Still, reaches)
      \/ ~Lapsed(h) /\ o \in write(h, m, h.desired, reaches)
      \/ ~Lapsed(h) /\ o = Told(h, m)
  BY Zenon DEF haptics_service
<1> HIDE DEF parked
<1>5. Sound(parked)
  BY <1>2, <1>3 DEF Sound
<1>6. CASE ~Lapsed(h) /\ o = Told(h, m)
  <2>1. o.haptics = h /\ o.motor = m
    BY <1>6, ToldIs
  <2> QED
    BY <2>1, <1>6
<1>7. CASE h.desired = Still /\ o = Told(h, m)
  <2>1. o.haptics = h /\ o.motor = m
    BY <1>7, ToldIs
  <2> QED
    BY <2>1, <1>7 DEF Lapsed
<1>8. CASE ~Lapsed(h) /\ o \in write(h, m, h.desired, reaches)
  BY <1>8, WriteOutcome
<1>9. CASE h.desired # Still /\ Lapsed(h) /\ o \in write(parked, m, Still, reaches)
  <2>1. o \in write(parked, m, parked.desired, reaches)
    BY <1>3, <1>9
  <2> QED
    BY <2>1, <1>3, <1>5, <1>9, WriteOutcome
<1> QED
  BY <1>4, <1>6, <1>7, <1>8, <1>9

\* A shutdown writes a zero if the controller is connected.
LEMMA ShutdownOutcome ==
  ASSUME NEW h, Sound(h), NEW m \in Commands, NEW reaches \in BOOLEAN,
         NEW o \in haptics_shutdown(h, m, reaches)
  PROVE  /\ Sound(o.haptics) /\ o.motor \in Commands
         /\ ~o.haptics.connected /\ o.haptics.desired = Still
         /\ IF h.connected THEN Plays(o)
            ELSE o.motor = m /\ o.haptics.degraded = h.degraded
<1> DEFINE parked == [h EXCEPT !.desired = Still, !.lease = Nothing]
<1>1. Still \in Commands /\ Nothing \in 0 .. Lease \cup {Nothing} /\ h \in HapticStates
  BY HapticsAssumption DEF Sound, Commands
<1>2. parked \in HapticStates
  BY <1>1, Zenon DEF HapticStates
<1>3. /\ parked.desired = Still /\ parked.lease = Nothing
      /\ parked.retry = h.retry /\ parked.degraded = h.degraded /\ parked.connected = h.connected
  BY <1>1, Zenon DEF HapticStates
<1>4. o \in IF h.connected
            THEN {Told([p.haptics EXCEPT !.connected = FALSE], p.motor) :
                    p \in write(parked, m, Still, reaches)}
            ELSE {Told(parked, m)}
  BY Zenon DEF haptics_shutdown
<1> HIDE DEF parked
<1>5. Sound(parked)
  BY <1>2, <1>3 DEF Sound
<1>6. CASE h.connected
  <2>1. PICK p \in write(parked, m, Still, reaches) :
          o = Told([p.haptics EXCEPT !.connected = FALSE], p.motor)
    BY <1>4, <1>6
  <2>2. Sound(p.haptics) /\ Plays(p) /\ p.motor \in Commands /\ p.haptics.desired = Still
    BY <1>3, <1>5, <2>1, WriteOutcome
  <2> DEFINE q == [p.haptics EXCEPT !.connected = FALSE]
  <2>3. p.haptics \in HapticStates
    BY <2>2 DEF Sound
  <2>4. q \in HapticStates
    BY <2>3, Zenon DEF HapticStates
  <2>5. /\ q.desired = p.haptics.desired /\ q.lease = p.haptics.lease /\ q.retry = p.haptics.retry
        /\ q.degraded = p.haptics.degraded /\ ~q.connected
    BY <2>3, Zenon DEF HapticStates
  <2>6. o.haptics = q /\ o.motor = p.motor
    BY <2>1, ToldIs
  <2> HIDE DEF q
  <2> QED
    BY <1>6, <2>2, <2>4, <2>5, <2>6 DEF Sound, Plays
<1>7. CASE ~h.connected
  <2>1. o.haptics = parked /\ o.motor = m
    BY <1>4, <1>7, ToldIs
  <2> QED
    BY <2>1, <1>3, <1>5, <1>7
<1> QED
  BY <1>6, <1>7

LEMMA Ages ==
  ASSUME NEW h, Sound(h)
  PROVE  /\ Sound(AgeHaptics(h))
         /\ AgeHaptics(h).connected = h.connected /\ AgeHaptics(h).desired = h.desired
         /\ AgeHaptics(h).degraded = h.degraded
         /\ AgeHaptics(h).lease = Older(h.lease, Lease)
<1> DEFINE a == AgeHaptics(h)
<1>1. h \in HapticStates /\ h.lease \in 0 .. Lease \cup {Nothing}
      /\ h.written \in 0 .. Refresh \cup {Nothing} /\ h.retry \in 0 .. Retry
  BY DEF Sound, HapticStates
<1>2. /\ Older(h.lease, Lease) \in 0 .. Lease \cup {Nothing}
      /\ Older(h.written, Refresh) \in 0 .. Refresh \cup {Nothing}
      /\ Older(h.lease, Lease) = Nothing <=> h.lease = Nothing
  BY <1>1, HapticsAssumption DEF Older
<1>3. Lower(h.retry) \in 0 .. Retry /\ (h.retry = 0 => Lower(h.retry) = 0)
  BY <1>1, HapticsAssumption DEF Lower
<1>4. a \in HapticStates
  BY <1>1, <1>2, <1>3, Zenon DEF HapticStates, AgeHaptics
<1>5. /\ a.connected = h.connected /\ a.desired = h.desired /\ a.degraded = h.degraded
      /\ a.lease = Older(h.lease, Lease) /\ a.retry = Lower(h.retry)
  BY <1>1, Zenon DEF HapticStates, AgeHaptics
<1> HIDE DEF a
<1>6. Sound(a)
  BY <1>2, <1>3, <1>4, <1>5 DEF Sound
<1> QED
  BY <1>5, <1>6 DEF a

LEMMA NewIsSound == Sound(NewHaptics) /\ NewHaptics.desired = Still /\ ~NewHaptics.connected
<1>1. Still \in Commands /\ Nothing \in 0 .. Lease \cup {Nothing}
      /\ Nothing \in 0 .. Refresh \cup {Nothing} /\ 0 \in 0 .. Retry
  BY HapticsAssumption DEF Commands
<1>2. NewHaptics \in HapticStates
  BY <1>1, Zenon DEF HapticStates, NewHaptics
<1>3. NewHaptics.desired = Still /\ ~NewHaptics.connected /\ NewHaptics.retry = 0
  BY Zenon DEF NewHaptics
<1> QED
  BY <1>2, <1>3 DEF Sound

-----------------------------------------------------------------------------
(* HidWorker.                                                              *)

Stages == {"control", "power", "service", "poll", "send", "failed", "done"}
Devices == [session : {"pending", "connected", "disconnected"}, present : BOOLEAN,
            motor : Commands, lost : BOOLEAN]
Loops == [at : Stages, event : {"connected", "disconnected", "status"} \cup {Nothing},
          accepting : BOOLEAN, failed : BOOLEAN]
Lizards == [connected : BOOLEAN, refreshed : 0 .. LizardRefresh \cup {Nothing}, active : BOOLEAN]

WorkerTyped ==
  /\ device \in Devices /\ worker \in Loops /\ lizard \in Lizards
  /\ slot \in Commands \cup {Nothing}
  /\ input \in [reports : Nat, overflowed : BOOLEAN]

\* A motor that runs is wanted and leased, or the status says so, or the
\* connection was lost; one whose supervisor is not connected has been told
\* to stop.
Accounted(h, m, lost) ==
  m # Still => (h.desired = m /\ h.lease # Nothing) \/ h.degraded \/ lost
Parked(h, m, lost) == h.connected \/ m = Still \/ h.degraded \/ lost

MotorInv ==
  /\ Sound(haptics)
  /\ Accounted(haptics, device.motor, device.lost) /\ Parked(haptics, device.motor, device.lost)

\* A worker that accepts commands has a connected supervisor, unless the
\* connection was lost.
CommandsReach ==
  /\ device.session = "disconnected" /\ worker.at \notin {"failed", "done"} => device.lost
  /\ worker.accepting /\ worker.at # "done" => haptics.connected \/ device.lost

\* A worker that would take input has suppressed the lizard mode.
LizardIsOff ==
  worker.accepting /\ device.session = "connected" /\ worker.at \notin {"failed", "done"} =>
    lizard.active

HidInv == WorkerTyped /\ MotorInv /\ CommandsReach /\ LizardIsOff

-----------------------------------------------------------------------------
LEMMA StillIsCommand == Still \in Commands /\ Nothing \notin Commands
  BY HapticsAssumption DEF Commands

\* What plays is accounted for.
LEMMA PlaysIsAccounted ==
  ASSUME NEW o, Sound(o.haptics), Plays(o), NEW lost
  PROVE  Accounted(o.haptics, o.motor, lost)
  BY DEF Sound, Plays, Accounted

LEMMA CommandKeeps ==
  ASSUME NEW h, Sound(h), NEW m \in Commands, NEW lost \in BOOLEAN, NEW reaches \in BOOLEAN,
         Accounted(h, m, lost), h.connected \/ lost,
         NEW c \in Commands, NEW o \in command(h, m, c, reaches)
  PROVE  /\ Sound(o.haptics) /\ o.motor \in Commands
         /\ Accounted(o.haptics, o.motor, lost) /\ o.haptics.connected = h.connected
<1>1. /\ Sound(o.haptics) /\ o.motor \in Commands /\ o.haptics.connected = h.connected
      /\ o.haptics.desired = c
      /\ Plays(o) \/ (o.motor = m /\ c = h.desired /\ o.haptics.degraded = h.degraded)
  BY CommandOutcome
<1>2. CASE Plays(o)
  BY <1>1, <1>2, PlaysIsAccounted
<1>3. CASE o.motor = m /\ c = h.desired /\ o.haptics.degraded = h.degraded
  BY <1>1, <1>3 DEF Accounted, Sound
<1> QED
  BY <1>1, <1>2, <1>3

LEMMA ServiceKeeps ==
  ASSUME NEW h, Sound(h), NEW m \in Commands, NEW lost \in BOOLEAN, NEW reaches \in BOOLEAN,
         Accounted(h, m, lost), NEW o \in haptics_service(h, m, reaches)
  PROVE  /\ Sound(o.haptics) /\ o.motor \in Commands
         /\ Accounted(o.haptics, o.motor, lost) /\ o.haptics.connected = h.connected
  BY ServiceOutcome, PlaysIsAccounted

LEMMA ShutdownKeeps ==
  ASSUME NEW h, Sound(h), NEW m \in Commands, NEW lost \in BOOLEAN, NEW reaches \in BOOLEAN,
         Parked(h, m, lost), NEW o \in haptics_shutdown(h, m, reaches)
  PROVE  /\ Sound(o.haptics) /\ o.motor \in Commands
         /\ Accounted(o.haptics, o.motor, lost) /\ Parked(o.haptics, o.motor, lost)
  BY ShutdownOutcome DEF Accounted, Parked, Plays

\* Suppressing the lizard mode leaves a lizard that says whether it worked.
LEMMA LizardOutcome ==
  ASSUME NEW l \in Lizards, NEW reaches \in BOOLEAN, NEW k \in lizard_refresh(l, reaches)
  PROVE  k \in Lizards
<1>1. 0 \in 0 .. LizardRefresh /\ TRUE \in BOOLEAN /\ FALSE \in BOOLEAN
  BY HapticsAssumption
<1>2. k = [l EXCEPT !.active = FALSE] \/ k = [l EXCEPT !.refreshed = 0, !.active = TRUE]
  BY Zenon DEF lizard_refresh
<1> QED
  BY <1>1, <1>2, Zenon DEF Lizards

LEMMA LizardConnects ==
  ASSUME NEW reaches \in BOOLEAN, NEW k \in lizard_connected(reaches)
  PROVE  k \in Lizards
<1>1. NewLizard \in Lizards
  BY Zenon DEF NewLizard, Lizards
<1>2. [NewLizard EXCEPT !.connected = TRUE] \in Lizards
  BY <1>1, Zenon DEF Lizards
<1> QED
  BY <1>2, LizardOutcome, Zenon DEF lizard_connected

LEMMA LizardService ==
  ASSUME NEW l \in Lizards, NEW reaches \in BOOLEAN, NEW k \in lizard_service(l, reaches)
  PROVE  k \in Lizards /\ (~refresh_due(l) => k = l)
  BY LizardOutcome, Zenon DEF lizard_service

LEMMA NewLizardIs == NewLizard \in Lizards
  BY Zenon DEF NewLizard, Lizards

LEMMA ReachesIs == WorkerTyped => Reaches \in BOOLEAN
<1> SUFFICES ASSUME WorkerTyped PROVE Reaches \in BOOLEAN
  OBVIOUS
<1>1. device.present \in BOOLEAN
  BY DEF WorkerTyped, Devices
<1> QED
  BY <1>1, Zenon DEF Reaches

\* What the loop's bookkeeping does to its record.
LEMMA LoopGoes ==
  ASSUME worker \in Loops, NEW a \in Stages, worker' = [worker EXCEPT !.at = a]
  PROVE  worker' \in Loops /\ worker'.at = a /\ worker'.accepting = worker.accepting
<1>1. worker' \in Loops
  BY Zenon DEF Loops
<1>2. worker'.at = a /\ worker'.accepting = worker.accepting
  BY Zenon DEF Loops
<1> QED
  BY <1>1, <1>2

LEMMA LoopFails ==
  ASSUME worker \in Loops, Fails
  PROVE  worker' \in Loops /\ worker'.at = "failed" /\ worker'.accepting = worker.accepting
<1>1. "failed" \in Stages /\ TRUE \in BOOLEAN
      /\ Nothing \in {"connected", "disconnected", "status"} \cup {Nothing}
  BY DEF Stages
<1>2. worker' = [worker EXCEPT !.at = "failed", !.event = Nothing, !.failed = TRUE]
  BY DEF Fails
<1>3. worker' \in Loops
  BY <1>1, <1>2, Zenon DEF Loops
<1>4. worker'.at = "failed" /\ worker'.accepting = worker.accepting
  BY <1>2, Zenon DEF Loops
<1> QED
  BY <1>3, <1>4

LEMMA LoopSends ==
  ASSUME worker \in Loops, NEW e \in {"connected", "disconnected", "status"}, Sends(e)
  PROVE  worker' \in Loops /\ worker'.at = "send" /\ worker'.accepting = worker.accepting
<1>1. "send" \in Stages /\ e \in {"connected", "disconnected", "status"} \cup {Nothing}
  BY DEF Stages
<1>2. worker' = [worker EXCEPT !.at = "send", !.event = e]
  BY DEF Sends
<1>3. worker' \in Loops
  BY <1>1, <1>2, Zenon DEF Loops
<1>4. worker'.at = "send" /\ worker'.accepting = worker.accepting
  BY <1>2, Zenon DEF Loops
<1> QED
  BY <1>3, <1>4

\* What a new motor state does to the device.
LEMMA DeviceFeels ==
  ASSUME device \in Devices, NEW m \in Commands, device' = [device EXCEPT !.motor = m]
  PROVE  device' \in Devices /\ device'.motor = m /\ device'.lost = device.lost
         /\ device'.session = device.session
<1>1. device' \in Devices
  BY Zenon DEF Devices
<1>2. device'.motor = m /\ device'.lost = device.lost /\ device'.session = device.session
  BY Zenon DEF Devices
<1> QED
  BY <1>1, <1>2

LEMMA NoReportsIs == NoReports \in [reports : Nat, overflowed : BOOLEAN] /\ NoReports.reports = 0
  BY Zenon DEF NoReports

\* A step of others than the worker, and one that only moves the loop on.
LEMMA OthersKeep ==
  HidInv /\ UNCHANGED <<device, worker, haptics, lizard>> /\ slot' \in Commands \cup {Nothing}
    /\ input' \in [reports : Nat, overflowed : BOOLEAN] => HidInv'
<1> SUFFICES ASSUME HidInv, UNCHANGED <<device, worker, haptics, lizard>>,
                    slot' \in Commands \cup {Nothing},
                    input' \in [reports : Nat, overflowed : BOOLEAN]
             PROVE  HidInv'
  OBVIOUS
<1>1. WorkerTyped'
  BY DEF HidInv, WorkerTyped
<1>2. MotorInv' /\ CommandsReach' /\ LizardIsOff'
  BY DEF HidInv, MotorInv, CommandsReach, LizardIsOff, Accounted, Parked, Sound
<1> QED
  BY <1>1, <1>2 DEF HidInv

LEMMA MovesOn ==
  ASSUME HidInv, NEW a \in Stages \ {"done", "failed"}, worker' = [worker EXCEPT !.at = a],
         worker.at \notin {"done", "failed"}, UNCHANGED <<device, haptics, lizard>>,
         slot' \in Commands \cup {Nothing}, input' \in [reports : Nat, overflowed : BOOLEAN]
  PROVE  HidInv'
<1>1. worker' \in Loops /\ worker'.at = a /\ worker'.accepting = worker.accepting
  BY LoopGoes DEF HidInv, WorkerTyped
<1>2. WorkerTyped'
  BY <1>1 DEF HidInv, WorkerTyped
<1>3. MotorInv' /\ CommandsReach' /\ LizardIsOff'
  BY <1>1 DEF HidInv, MotorInv, CommandsReach, LizardIsOff, Accounted, Parked, Sound
<1> QED
  BY <1>2, <1>3 DEF HidInv

LEMMA ControlKeeps == HidInv /\ ControlStep => HidInv'
<1> SUFFICES ASSUME HidInv, ControlStep PROVE HidInv'
  OBVIOUS
<1> USE DEF HidInv
<1>1. worker \in Loops /\ device \in Devices /\ WorkerTyped /\ MotorInv /\ device.motor \in Commands
      /\ device.lost \in BOOLEAN /\ Reaches \in BOOLEAN /\ worker.at = "control"
  BY ReachesIs, StillIsCommand DEF WorkerTyped, Devices, ControlStep
<1>2. CASE power = Nothing /\ controls # << >>
  <2>1. /\ worker' = [worker EXCEPT !.at = "power", !.accepting = FALSE]
        /\ input' = NoReports /\ slot' = Nothing /\ lizard' = NewLizard
    BY <1>2 DEF ControlStep
  <2>2. PICK o \in haptics_shutdown(haptics, device.motor, Reaches) : Feels(o)
    BY <1>2 DEF ControlStep
  <2>3. /\ Sound(o.haptics) /\ o.motor \in Commands
        /\ Accounted(o.haptics, o.motor, device.lost) /\ Parked(o.haptics, o.motor, device.lost)
    BY <1>1, <2>2, ShutdownKeeps DEF MotorInv
  <2>4. device' \in Devices /\ device'.motor = o.motor /\ device'.lost = device.lost
        /\ device'.session = device.session /\ haptics' = o.haptics
    BY <1>1, <2>2, <2>3, DeviceFeels DEF Feels
  <2>5. "power" \in Stages /\ FALSE \in BOOLEAN
    BY DEF Stages
  <2>6. worker' \in Loops
    BY <1>1, <2>1, <2>5, Zenon DEF Loops
  <2>7. worker'.at = "power" /\ ~worker'.accepting
    BY <1>1, <2>1, Zenon DEF Loops
  <2>8. WorkerTyped'
    BY <2>1, <2>4, <2>6, NoReportsIs, NewLizardIs DEF WorkerTyped
  <2>9. MotorInv'
    BY <2>3, <2>4 DEF MotorInv
  <2> QED
    BY <1>1, <2>4, <2>7, <2>8, <2>9 DEF CommandsReach, LizardIsOff
<1>3. CASE ~(power = Nothing /\ controls # << >>)
  <2>1. Goes("power") /\ UNCHANGED <<device, feedback, slot, input>>
    BY <1>3 DEF ControlStep
  <2>2. "power" \in Stages \ {"done", "failed"}
    BY DEF Stages
  <2> QED
    BY <1>1, <2>1, <2>2, MovesOn DEF Goes, feedback, WorkerTyped
<1> QED
  BY <1>2, <1>3

LEMMA ResumeKeeps ==
  HidInv /\ worker.at = "power" /\ ResumeInput /\ UNCHANGED slot => HidInv'
<1> SUFFICES ASSUME HidInv, worker.at = "power", ResumeInput, UNCHANGED slot PROVE HidInv'
  OBVIOUS
<1> USE DEF HidInv
<1>1. worker \in Loops /\ device \in Devices /\ device.motor \in Commands
      /\ device.lost \in BOOLEAN /\ Reaches \in BOOLEAN /\ haptics \in HapticStates
      /\ slot \in Commands \cup {Nothing} /\ input \in [reports : Nat, overflowed : BOOLEAN]
  BY ReachesIs DEF WorkerTyped, Devices, MotorInv, Sound
<1>2. PICK o \in haptics_connected(haptics, device.motor, Reaches) :
        haptics' = o.haptics /\ device' = [device EXCEPT !.motor = o.motor, !.lost = FALSE]
  BY Zenon DEF ResumeInput
<1>3. /\ Sound(o.haptics) /\ Plays(o) /\ o.motor \in Commands /\ o.haptics.connected
  BY <1>1, <1>2, ConnectOutcome
<1>4. FALSE \in BOOLEAN
  OBVIOUS
<1>5. device' \in Devices
  BY <1>1, <1>2, <1>3, <1>4, Zenon DEF Devices
<1>6. device'.motor = o.motor /\ device'.session = device.session
  BY <1>1, <1>2, Zenon DEF Devices
<1>7. MotorInv'
  BY <1>2, <1>3, <1>6, PlaysIsAccounted DEF MotorInv, Parked
<1>8. PICK l \in lizard_connected(Reaches) :
        /\ lizard' = l
        /\ IF l.active
           THEN /\ worker' = [worker EXCEPT !.at = "service", !.accepting = TRUE]
                /\ UNCHANGED input
           ELSE /\ worker' = [worker EXCEPT !.at = "failed", !.accepting = TRUE, !.failed = TRUE]
                /\ input' = NoReports
  BY Zenon DEF ResumeInput
<1>9. l \in Lizards
  BY <1>1, <1>8, LizardConnects
<1>10. "service" \in Stages /\ "failed" \in Stages /\ TRUE \in BOOLEAN
  BY DEF Stages
<1>11. CASE l.active
  <2>1. worker' = [worker EXCEPT !.at = "service", !.accepting = TRUE] /\ input' = input
    BY <1>8, <1>11, Zenon
  <2>2. worker' \in Loops
    BY <1>1, <1>10, <2>1, Zenon DEF Loops
  <2>3. worker'.at = "service"
    BY <1>1, <2>1, Zenon DEF Loops
  <2>4. Reaches
    <3>1. ASSUME ~Reaches PROVE FALSE
      <4>1. l = [[NewLizard EXCEPT !.connected = TRUE] EXCEPT !.active = FALSE]
        BY <1>8, <3>1, Zenon DEF lizard_connected, lizard_refresh
      <4>2. NewLizard \in Lizards
        BY NewLizardIs
      <4>3. ~l.active
        BY <4>1, <4>2, Zenon DEF Lizards
      <4> QED
        BY <1>11, <4>3
    <3> QED
      BY <3>1
  <2>5. device'.session # "disconnected"
    BY <1>6, <2>4 DEF Reaches
  <2>6. WorkerTyped'
    BY <1>1, <1>5, <1>8, <1>9, <2>1, <2>2 DEF WorkerTyped
  <2>7. CommandsReach'
    BY <1>2, <1>3, <2>5 DEF CommandsReach
  <2>8. LizardIsOff'
    BY <1>8, <1>11 DEF LizardIsOff
  <2> QED
    BY <1>7, <2>6, <2>7, <2>8
<1>12. CASE ~l.active
  <2>1. /\ worker' = [worker EXCEPT !.at = "failed", !.accepting = TRUE, !.failed = TRUE]
        /\ input' = NoReports
    BY <1>8, <1>12, Zenon
  <2>2. worker' \in Loops
    BY <1>1, <1>10, <2>1, Zenon DEF Loops
  <2>3. worker'.at = "failed"
    BY <1>1, <2>1, Zenon DEF Loops
  <2>4. WorkerTyped'
    BY <1>1, <1>5, <1>8, <1>9, <2>1, <2>2, NoReportsIs DEF WorkerTyped
  <2>5. CommandsReach' /\ LizardIsOff'
    BY <1>2, <1>3, <2>3 DEF CommandsReach, LizardIsOff
  <2> QED
    BY <1>7, <2>4, <2>5
<1> QED
  BY <1>11, <1>12

LEMMA PowerKeeps == HidInv /\ PowerStep => HidInv'
<1> SUFFICES ASSUME HidInv, PowerStep PROVE HidInv'
  OBVIOUS
<1>1. worker.at = "power" /\ slot' = slot
  BY DEF PowerStep
<1>2. \/ Goes("service") /\ UNCHANGED <<device, feedback, input>>
      \/ ResumeInput
  BY Zenon DEF PowerStep, NoPowerDue, PowerDue
<1>3. "service" \in Stages \ {"done", "failed"}
  BY DEF Stages
<1>4. CASE Goes("service") /\ UNCHANGED <<device, feedback, input>>
  BY <1>1, <1>3, <1>4, MovesOn DEF Goes, feedback, HidInv, WorkerTyped
<1> QED
  BY <1>1, <1>2, <1>4, ResumeKeeps

\* The command in the slot, then the service.
LEMMA FeedbackKeeps ==
  ASSUME HidInv, device.motor \in Commands, Reaches \in BOOLEAN, device.lost \in BOOLEAN,
         haptics.connected \/ device.lost,
         NEW o \in IF slot = Nothing THEN {Told(haptics, device.motor)}
                   ELSE command(haptics, device.motor, slot, Reaches),
         NEW p \in haptics_service(o.haptics, o.motor, Reaches)
  PROVE  /\ Sound(p.haptics) /\ p.motor \in Commands
         /\ Accounted(p.haptics, p.motor, device.lost)
         /\ p.haptics.connected = haptics.connected
<1>1. /\ Sound(o.haptics) /\ o.motor \in Commands
      /\ Accounted(o.haptics, o.motor, device.lost) /\ o.haptics.connected = haptics.connected
  <2>1. CASE slot = Nothing
    BY <2>1, ToldIs DEF HidInv, MotorInv
  <2>2. CASE slot # Nothing
    <3>1. slot \in Commands
      BY <2>2 DEF HidInv, WorkerTyped
    <3> QED
      BY <2>2, <3>1, CommandKeeps DEF HidInv, MotorInv
  <2> QED
    BY <2>1, <2>2
<1> QED
  BY <1>1, ServiceKeeps

LEMMA ServiceStepKeeps == HidInv /\ ServiceStep => HidInv'
<1> SUFFICES ASSUME HidInv, ServiceStep PROVE HidInv'
  OBVIOUS
<1> USE DEF HidInv
<1>1. worker \in Loops /\ device \in Devices /\ device.motor \in Commands /\ lizard \in Lizards
      /\ device.lost \in BOOLEAN /\ Reaches \in BOOLEAN /\ worker.at = "service"
      /\ slot \in Commands \cup {Nothing} /\ input \in [reports : Nat, overflowed : BOOLEAN]
  BY ReachesIs DEF WorkerTyped, Devices, ServiceStep
<1>2. CASE ~worker.accepting
  <2>1. Goes("poll") /\ UNCHANGED <<device, feedback, slot, input>>
    BY <1>2 DEF ServiceStep
  <2>2. "poll" \in Stages \ {"done", "failed"}
    BY DEF Stages
  <2> QED
    BY <1>1, <2>1, <2>2, MovesOn DEF Goes, feedback
<1>3. CASE worker.accepting
  <2>1. PICK l \in lizard_service(lizard, Reaches) :
          /\ lizard' = l
          /\ IF refresh_due(lizard) /\ ~l.active
             THEN /\ Fails /\ input' = NoReports
                  /\ UNCHANGED <<device, haptics, slot>>
             ELSE /\ Goes("poll")
                  /\ \E o \in IF slot = Nothing THEN {Told(haptics, device.motor)}
                             ELSE command(haptics, device.motor, slot, Reaches) :
                       \E p \in haptics_service(o.haptics, o.motor, Reaches) : Feels(p)
                  /\ slot' = Nothing
                  /\ UNCHANGED input
    BY <1>3, Zenon DEF ServiceStep
  <2>2. l \in Lizards /\ (~refresh_due(lizard) => l = lizard)
    BY <1>1, <2>1, LizardService
  <2>3. CASE refresh_due(lizard) /\ ~l.active
    <3>1. Fails /\ input' = NoReports /\ UNCHANGED <<device, haptics, slot>>
      BY <2>1, <2>3, Zenon
    <3>2. worker' \in Loops /\ worker'.at = "failed" /\ worker'.accepting = worker.accepting
      BY <1>1, <3>1, LoopFails
    <3>3. WorkerTyped'
      BY <1>1, <2>1, <2>2, <3>1, <3>2, NoReportsIs DEF WorkerTyped
    <3>4. MotorInv'
      BY <3>1 DEF MotorInv, Sound, Accounted, Parked
    <3>5. CommandsReach' /\ LizardIsOff'
      BY <1>1, <3>1, <3>2 DEF CommandsReach, LizardIsOff
    <3> QED
      BY <3>3, <3>4, <3>5
  <2>4. CASE ~(refresh_due(lizard) /\ ~l.active)
    <3>1. Goes("poll") /\ slot' = Nothing /\ input' = input
      BY <2>1, <2>4, Zenon
    <3>2. PICK o \in IF slot = Nothing THEN {Told(haptics, device.motor)}
                     ELSE command(haptics, device.motor, slot, Reaches) :
               \E p \in haptics_service(o.haptics, o.motor, Reaches) : Feels(p)
      BY <2>1, <2>4, Zenon
    <3>3. PICK p \in haptics_service(o.haptics, o.motor, Reaches) : Feels(p)
      BY <3>2
    <3>4. haptics.connected \/ device.lost
      BY <1>1, <1>3 DEF CommandsReach
    <3>5. /\ Sound(p.haptics) /\ p.motor \in Commands
          /\ Accounted(p.haptics, p.motor, device.lost)
          /\ p.haptics.connected = haptics.connected
      BY <1>1, <3>2, <3>3, <3>4, FeedbackKeeps
    <3>6. device' \in Devices /\ device'.motor = p.motor /\ device'.lost = device.lost
          /\ device'.session = device.session /\ haptics' = p.haptics
      BY <1>1, <3>3, <3>5, DeviceFeels DEF Feels
    <3>7. "poll" \in Stages
      BY DEF Stages
    <3>8. worker' \in Loops /\ worker'.at = "poll" /\ worker'.accepting = worker.accepting
      BY <1>1, <3>1, <3>7, LoopGoes DEF Goes
    <3>9. WorkerTyped'
      BY <1>1, <2>1, <2>2, <3>1, <3>6, <3>8 DEF WorkerTyped
    <3>10. MotorInv'
      BY <3>4, <3>5, <3>6 DEF MotorInv, Parked
    <3>11. CommandsReach'
      BY <1>1, <3>4, <3>5, <3>6, <3>8 DEF CommandsReach
    <3>12. LizardIsOff'
      <4>1. refresh_due(lizard) \/ l = lizard
        BY <2>2
      <4>2. worker.accepting /\ device.session = "connected" => lizard.active
        BY <1>1 DEF LizardIsOff
      <4>3. device.session = "connected" => l.active
        BY <1>3, <2>4, <4>1, <4>2
      <4> QED
        BY <2>1, <3>6, <4>3 DEF LizardIsOff
    <3> QED
      BY <3>9, <3>10, <3>11, <3>12
  <2> QED
    BY <2>3, <2>4
<1> QED
  BY <1>2, <1>3

LEMMA ForgetsIs ==
  ASSUME Forgets
  PROVE  /\ Sound(haptics') /\ haptics'.desired = Still /\ ~haptics'.connected
         /\ lizard' \in Lizards /\ slot' \in Commands \cup {Nothing}
         /\ input' \in [reports : Nat, overflowed : BOOLEAN]
<1>1. haptics' = NewHaptics /\ lizard' = NewLizard /\ slot' = Nothing /\ input' = NoReports
  BY DEF Forgets, haptics_disconnected
<1> QED
  BY <1>1, NewIsSound, NewLizardIs, NoReportsIs

\* Only a lost connection or a motor at rest is forgotten.
LEMMA LostKeeps ==
  ASSUME Sound(haptics'), device'.lost PROVE MotorInv'
  BY DEF MotorInv, Accounted, Parked

LEMMA PollConnectedKeeps == HidInv /\ PollConnected => HidInv'
<1> SUFFICES ASSUME HidInv, PollConnected PROVE HidInv'
  OBVIOUS
<1> USE DEF HidInv
<1>1. worker \in Loops /\ device \in Devices /\ device.motor \in Commands /\ lizard \in Lizards
      /\ device.lost \in BOOLEAN /\ device.present \in BOOLEAN /\ worker.at = "poll"
      /\ slot \in Commands \cup {Nothing} /\ input \in [reports : Nat, overflowed : BOOLEAN]
      /\ haptics \in HapticStates /\ Sound(haptics) /\ Nothing \notin Commands
  BY StillIsCommand DEF WorkerTyped, Devices, PollConnected, MotorInv, Sound
<1>2. "connected" \in {"pending", "connected", "disconnected"} /\ FALSE \in BOOLEAN
      /\ "connected" \in {"connected", "disconnected", "status"}
  OBVIOUS
<1> DEFINE d == [device EXCEPT !.session = "connected"]
<1>3. d \in Devices
  BY <1>1, <1>2, Zenon DEF Devices
<1>4. d.session = "connected" /\ d.motor = device.motor /\ d.lost = device.lost
  BY <1>1, Zenon DEF Devices
<1> HIDE DEF d
<1>5. CASE ~worker.accepting
  <2>1. device' = d /\ Goes("control") /\ UNCHANGED <<feedback, shared>>
    BY <1>5 DEF PollConnected, d
  <2>2. "control" \in Stages
    BY DEF Stages
  <2>3. worker' \in Loops /\ worker'.at = "control" /\ worker'.accepting = worker.accepting
    BY <1>1, <2>1, <2>2, LoopGoes DEF Goes
  <2>4. UNCHANGED <<haptics, lizard, slot, input>>
    BY <2>1 DEF feedback, shared
  <2>5. WorkerTyped'
    BY <1>1, <1>3, <2>1, <2>3, <2>4 DEF WorkerTyped
  <2>6. MotorInv'
    BY <1>4, <2>1, <2>4 DEF MotorInv, Sound, Accounted, Parked
  <2>7. CommandsReach' /\ LizardIsOff'
    BY <1>4, <1>5, <2>1, <2>3 DEF CommandsReach, LizardIsOff
  <2> QED
    BY <2>5, <2>6, <2>7
<1>6. CASE worker.accepting
  <2>1. PICK l \in lizard_connected(device.present) :
          /\ lizard' = l
          /\ IF ~l.active
             THEN /\ device' = d
                  /\ Fails /\ input' = NoReports
                  /\ UNCHANGED <<haptics, slot>>
             ELSE /\ \E o \in haptics_connected(haptics, device.motor, device.present) :
                       /\ haptics' = o.haptics
                       /\ device' = [device EXCEPT !.session = "connected", !.motor = o.motor,
                                                   !.lost = FALSE]
                  /\ Sends("connected") /\ UNCHANGED <<slot, input>>
    BY <1>6, Zenon DEF PollConnected, d
  <2>2. l \in Lizards
    BY <1>1, <2>1, LizardConnects
  <2>3. CASE ~l.active
    <3>1. device' = d /\ Fails /\ input' = NoReports /\ UNCHANGED <<haptics, slot>>
      BY <2>1, <2>3, Zenon
    <3>2. worker' \in Loops /\ worker'.at = "failed" /\ worker'.accepting = worker.accepting
      BY <1>1, <3>1, LoopFails
    <3>3. WorkerTyped'
      BY <1>1, <1>3, <2>1, <2>2, <3>1, <3>2, NoReportsIs DEF WorkerTyped
    <3>4. MotorInv'
      BY <1>4, <3>1 DEF MotorInv, Sound, Accounted, Parked
    <3>5. CommandsReach' /\ LizardIsOff'
      BY <1>1, <1>4, <3>1, <3>2 DEF CommandsReach, LizardIsOff
    <3> QED
      BY <3>3, <3>4, <3>5
  <2>4. CASE l.active
    <3>1. PICK o \in haptics_connected(haptics, device.motor, device.present) :
            /\ haptics' = o.haptics
            /\ device' = [device EXCEPT !.session = "connected", !.motor = o.motor,
                                        !.lost = FALSE]
      BY <2>1, <2>4, Zenon
    <3>2. Sends("connected") /\ UNCHANGED <<slot, input>>
      BY <2>1, <2>4, Zenon
    <3>3. Sound(o.haptics) /\ Plays(o) /\ o.motor \in Commands /\ o.haptics.connected
      BY <1>1, <3>1, ConnectOutcome
    <3>4. device' \in Devices
      BY <1>1, <1>2, <3>1, <3>3, Zenon DEF Devices
    <3>5. device'.motor = o.motor /\ device'.session = "connected"
      BY <1>1, <3>1, Zenon DEF Devices
    <3>6. worker' \in Loops /\ worker'.at = "send" /\ worker'.accepting = worker.accepting
      BY <1>1, <1>2, <3>2, LoopSends
    <3>7. WorkerTyped'
      BY <1>1, <2>1, <2>2, <3>2, <3>4, <3>6 DEF WorkerTyped
    <3>8. MotorInv'
      BY <3>1, <3>3, <3>5, PlaysIsAccounted DEF MotorInv, Parked
    <3>9. CommandsReach'
      BY <3>1, <3>3, <3>5 DEF CommandsReach
    <3>10. LizardIsOff'
      BY <2>1, <2>4 DEF LizardIsOff
    <3> QED
      BY <3>7, <3>8, <3>9, <3>10
  <2> QED
    BY <2>3, <2>4
<1> QED
  BY <1>5, <1>6

LEMMA PollDisconnectedKeeps == HidInv /\ PollDisconnected => HidInv'
<1> SUFFICES ASSUME HidInv, PollDisconnected PROVE HidInv'
  OBVIOUS
<1> USE DEF HidInv
<1>1. worker \in Loops /\ device \in Devices /\ worker.at = "poll"
      /\ slot \in Commands \cup {Nothing} /\ input \in [reports : Nat, overflowed : BOOLEAN]
      /\ lizard \in Lizards /\ Sound(haptics)
      /\ device' = [device EXCEPT !.session = "disconnected", !.lost = TRUE]
  BY DEF WorkerTyped, PollDisconnected, MotorInv
<1>2. "disconnected" \in {"pending", "connected", "disconnected"} /\ TRUE \in BOOLEAN
      /\ "disconnected" \in {"connected", "disconnected", "status"} /\ "control" \in Stages
  BY DEF Stages
<1>3. device' \in Devices
  BY <1>1, <1>2, Zenon DEF Devices
<1>4. device'.session = "disconnected" /\ device'.lost
  BY <1>1, Zenon DEF Devices
<1>5. CASE power # Nothing \/ ~worker.accepting
  <2>1. Goes("control") /\ UNCHANGED <<feedback, shared>>
    BY <1>5 DEF PollDisconnected
  <2>2. worker' \in Loops /\ worker'.at = "control"
    BY <1>1, <1>2, <2>1, LoopGoes DEF Goes
  <2>3. UNCHANGED <<haptics, lizard, slot, input>>
    BY <2>1 DEF feedback, shared
  <2>4. WorkerTyped'
    BY <1>1, <1>3, <2>2, <2>3 DEF WorkerTyped
  <2>5. MotorInv'
    BY <1>1, <1>4, <2>3, LostKeeps DEF Sound
  <2> QED
    BY <1>4, <2>4, <2>5 DEF CommandsReach, LizardIsOff
<1>6. CASE ~(power # Nothing \/ ~worker.accepting)
  <2>1. Forgets /\ Sends("disconnected")
    BY <1>6 DEF PollDisconnected
  <2>2. worker' \in Loops
    BY <1>1, <1>2, <2>1, LoopSends
  <2>3. WorkerTyped'
    BY <1>3, <2>1, <2>2, ForgetsIs DEF WorkerTyped
  <2>4. MotorInv'
    BY <1>4, <2>1, ForgetsIs, LostKeeps
  <2> QED
    BY <1>4, <2>3, <2>4 DEF CommandsReach, LizardIsOff
<1> QED
  BY <1>5, <1>6

LEMMA PollInputKeeps == HidInv /\ PollInput => HidInv'
<1> SUFFICES ASSUME HidInv, PollInput PROVE HidInv'
  OBVIOUS
<1> DEFINE Inputs == [reports : Nat, overflowed : BOOLEAN]
<1>1. worker.at = "poll" /\ Goes("control") /\ UNCHANGED <<device, feedback, slot>>
      /\ "control" \in Stages \ {"done", "failed"} /\ input \in Inputs
      /\ slot \in Commands \cup {Nothing}
  BY DEF PollInput, Stages, HidInv, WorkerTyped
<1>2. input' = [input EXCEPT !.reports = @ + 1] \/ input' = input
      \/ input' = [reports |-> 1, overflowed |-> TRUE]
  BY Zenon DEF PollInput
<1>3. input.reports + 1 \in Nat /\ 1 \in Nat /\ TRUE \in BOOLEAN
  BY <1>1
<1>4. /\ [input EXCEPT !.reports = @ + 1] \in Inputs
      /\ [reports |-> 1, overflowed |-> TRUE] \in Inputs
  BY <1>1, <1>3, Zenon
<1>5. input' \in Inputs
  BY <1>1, <1>2, <1>4
<1> QED
  BY <1>1, <1>5, MovesOn DEF Goes, feedback

LEMMA PollErrorKeeps == HidInv /\ PollError => HidInv'
<1> SUFFICES ASSUME HidInv, PollError PROVE HidInv'
  OBVIOUS
<1>1. worker \in Loops /\ device.lost /\ Forgets /\ Fails /\ device' = device
  BY DEF HidInv, WorkerTyped, CommandsReach, PollError
<1>2. worker' \in Loops /\ worker'.at = "failed"
  BY <1>1, LoopFails
<1>3. WorkerTyped'
  BY <1>1, <1>2, ForgetsIs DEF HidInv, WorkerTyped
<1>4. MotorInv'
  BY <1>1, ForgetsIs, LostKeeps
<1> QED
  BY <1>1, <1>2, <1>3, <1>4 DEF HidInv, CommandsReach, LizardIsOff

LEMMA SendKeeps == HidInv /\ SendStep => HidInv'
<1> SUFFICES ASSUME HidInv, SendStep PROVE HidInv'
  OBVIOUS
<1> USE DEF HidInv
<1>1. worker \in Loops /\ worker.at = "send" /\ UNCHANGED <<device, haptics, lizard, slot, input>>
  BY DEF WorkerTyped, SendStep, feedback
<1>2. PICK a \in {"control", "failed"} : worker' = [worker EXCEPT !.at = a, !.event = Nothing]
  BY Zenon DEF SendStep
<1>3. a \in Stages /\ Nothing \in {"connected", "disconnected", "status"} \cup {Nothing}
  BY <1>2 DEF Stages
<1>4. worker' \in Loops
  BY <1>1, <1>2, <1>3, Zenon DEF Loops
<1>5. worker'.at = a /\ worker'.accepting = worker.accepting
  BY <1>1, <1>2, Zenon DEF Loops
<1>6. WorkerTyped'
  BY <1>1, <1>4 DEF WorkerTyped
<1>7. MotorInv'
  BY <1>1 DEF MotorInv, Sound, Accounted, Parked
<1>8. CommandsReach' /\ LizardIsOff'
  BY <1>1, <1>2, <1>5 DEF CommandsReach, LizardIsOff
<1> QED
  BY <1>6, <1>7, <1>8

LEMMA FinishKeeps == HidInv /\ Finish => HidInv'
<1> SUFFICES ASSUME HidInv, Finish PROVE HidInv'
  OBVIOUS
<1> USE DEF HidInv
<1>1. worker \in Loops /\ device \in Devices /\ device.motor \in Commands
      /\ device.lost \in BOOLEAN /\ Reaches \in BOOLEAN /\ Goes("done")
      /\ lizard' = NewLizard /\ slot' = Nothing /\ input' = NoReports
  BY ReachesIs DEF WorkerTyped, Devices, Finish
<1>2. PICK o \in haptics_shutdown(haptics, device.motor, Reaches) : Feels(o)
  BY DEF Finish
<1>3. /\ Sound(o.haptics) /\ o.motor \in Commands
      /\ Accounted(o.haptics, o.motor, device.lost) /\ Parked(o.haptics, o.motor, device.lost)
  BY <1>1, <1>2, ShutdownKeeps DEF MotorInv
<1>4. device' \in Devices /\ device'.motor = o.motor /\ device'.lost = device.lost
      /\ haptics' = o.haptics
  BY <1>1, <1>2, <1>3, DeviceFeels DEF Feels
<1>5. "done" \in Stages
  BY DEF Stages
<1>6. worker' \in Loops /\ worker'.at = "done"
  BY <1>1, <1>5, LoopGoes DEF Goes
<1>7. WorkerTyped'
  BY <1>1, <1>4, <1>6, NoReportsIs, NewLizardIs DEF WorkerTyped
<1>8. MotorInv'
  BY <1>3, <1>4 DEF MotorInv
<1> QED
  BY <1>6, <1>7, <1>8 DEF CommandsReach, LizardIsOff

LEMMA PollKeeps ==
  HidInv /\ (PollNothing \/ PollStatus) => HidInv'
<1> SUFFICES ASSUME HidInv, PollNothing \/ PollStatus PROVE HidInv'
  OBVIOUS
<1>1. worker \in Loops /\ worker.at = "poll" /\ UNCHANGED <<device, feedback, shared>>
      /\ "control" \in Stages \ {"done", "failed"}
      /\ slot \in Commands \cup {Nothing} /\ input \in [reports : Nat, overflowed : BOOLEAN]
  BY DEF PollNothing, PollStatus, HidInv, WorkerTyped, Stages
<1>2. Goes("control") \/ Sends("status")
  BY DEF PollNothing, PollStatus
<1>3. UNCHANGED <<haptics, lizard, slot, input>>
  BY <1>1 DEF feedback, shared
<1>4. CASE Goes("control")
  BY <1>1, <1>3, <1>4, MovesOn DEF Goes
<1>5. CASE Sends("status")
  <2>1. worker' \in Loops /\ worker'.at = "send" /\ worker'.accepting = worker.accepting
    BY <1>1, <1>5, LoopSends
  <2>2. WorkerTyped'
    BY <1>1, <1>3, <2>1 DEF HidInv, WorkerTyped
  <2>3. MotorInv'
    BY <1>1, <1>3 DEF HidInv, MotorInv, Sound, Accounted, Parked
  <2>4. CommandsReach' /\ LizardIsOff'
    BY <1>1, <1>3, <2>1 DEF HidInv, CommandsReach, LizardIsOff
  <2> QED
    BY <2>2, <2>3, <2>4 DEF HidInv
<1> QED
  BY <1>2, <1>4, <1>5

\* The consumer touches nothing but the slot and the reports.
LEMMA ConsumerKeeps == HidInv /\ Consumer => HidInv'
<1> SUFFICES ASSUME HidInv, Consumer PROVE HidInv'
  OBVIOUS
<1>1. UNCHANGED <<device, worker, haptics, lizard>>
  BY DEF Consumer, TakeEvent, TakeReports, SetRumble, PowerOff, PowerOffTimesOut, Shutdown, Join,
         feedback
<1>2. slot' = slot \/ slot' \in Commands
  BY DEF Consumer, TakeEvent, TakeReports, SetRumble, PowerOff, PowerOffTimesOut, Shutdown, Join,
         shared
<1>3. input' = input \/ input' = NoReports
  BY DEF Consumer, TakeEvent, TakeReports, SetRumble, PowerOff, PowerOffTimesOut, Shutdown, Join,
         shared
<1> QED
  BY <1>1, <1>2, <1>3, NoReportsIs, OthersKeep DEF HidInv, WorkerTyped

LEMMA ComesAndGoes == HidInv /\ (Leave \/ Return) => HidInv'
<1> SUFFICES ASSUME HidInv, Leave \/ Return PROVE HidInv'
  OBVIOUS
<1> USE DEF HidInv
<1>1. device \in Devices /\ UNCHANGED <<worker, haptics, lizard, slot, input>>
      /\ TRUE \in BOOLEAN /\ FALSE \in BOOLEAN /\ Still \in Commands
  BY StillIsCommand DEF WorkerTyped, Leave, Return, feedback, shared
<1>2. \/ device' = [device EXCEPT !.present = FALSE, !.motor = Still]
      \/ device' = [device EXCEPT !.present = TRUE]
  BY DEF Leave, Return
<1>3. device' \in Devices
  BY <1>1, <1>2, Zenon DEF Devices
<1>4. /\ device'.session = device.session /\ device'.lost = device.lost
      /\ device'.motor = Still \/ device'.motor = device.motor
  BY <1>1, <1>2, Zenon DEF Devices
<1>5. WorkerTyped'
  BY <1>1, <1>3 DEF WorkerTyped
<1>6. MotorInv'
  BY <1>1, <1>4 DEF MotorInv, Sound, Accounted, Parked
<1> QED
  BY <1>1, <1>4, <1>5, <1>6 DEF CommandsReach, LizardIsOff

LEMMA TickKeeps == HidInv /\ Tick => HidInv'
<1> SUFFICES ASSUME HidInv, Tick PROVE HidInv'
  OBVIOUS
<1> USE DEF HidInv
<1>1. /\ UNCHANGED <<device, worker, slot, input>> /\ lizard \in Lizards
      /\ haptics' = AgeHaptics(haptics) /\ lizard' = AgeLizard(lizard)
  BY DEF Tick, shared, WorkerTyped
<1>2. lizard.refreshed \in 0 .. LizardRefresh \cup {Nothing}
  BY <1>1 DEF Lizards
<1>3. Older(lizard.refreshed, LizardRefresh) \in 0 .. LizardRefresh \cup {Nothing}
  BY <1>2, HapticsAssumption DEF Older
<1>4. lizard' \in Lizards
  BY <1>1, <1>3, Zenon DEF Lizards, AgeLizard
<1>5. lizard'.active = lizard.active
  BY <1>1, Zenon DEF Lizards, AgeLizard
<1>6. WorkerTyped'
  BY <1>1, <1>4 DEF WorkerTyped
<1>7. haptics.lease \in 0 .. Lease \cup {Nothing}
  BY DEF MotorInv, Sound, HapticStates
<1>8. haptics.lease # Nothing => Older(haptics.lease, Lease) # Nothing
  BY <1>7, HapticsAssumption DEF Older
<1>9. MotorInv'
  BY <1>1, <1>8, Ages DEF MotorInv, Accounted, Parked
<1> QED
  BY <1>1, <1>5, <1>6, <1>9, Ages DEF CommandsReach, LizardIsOff, MotorInv

LEMMA WorkerStarts == WorkerInit => HidInv
<1> SUFFICES ASSUME WorkerInit PROVE HidInv
  OBVIOUS
<1>1. Still \in Commands /\ TRUE \in BOOLEAN /\ FALSE \in BOOLEAN
      /\ "pending" \in {"pending", "connected", "disconnected"} /\ "control" \in Stages
      /\ Nothing \in {"connected", "disconnected", "status"} \cup {Nothing}
      /\ 0 \in 0 .. LizardRefresh \cup {Nothing}
  BY HapticsAssumption DEF Commands, Stages
<1>2. device = [session |-> "pending", present |-> TRUE, motor |-> Still, lost |-> FALSE]
  BY DEF WorkerInit
<1>3. device \in Devices
  BY <1>1, <1>2, Zenon DEF Devices
<1>4. device.session = "pending" /\ device.motor = Still
  BY <1>2, Zenon
<1>5. worker = [at |-> "control", event |-> Nothing, accepting |-> TRUE, failed |-> FALSE]
  BY DEF WorkerInit
<1>6. worker \in Loops
  BY <1>1, <1>5, Zenon DEF Loops
<1>7. lizard = [connected |-> TRUE, refreshed |-> 0, active |-> TRUE]
  BY DEF WorkerInit
<1>8. lizard \in Lizards
  BY <1>1, <1>7, Zenon DEF Lizards
<1>9. PICK o \in haptics_connected(NewHaptics, Still, TRUE) : haptics = o.haptics
  BY DEF WorkerInit
<1>10. Sound(o.haptics) /\ o.haptics.connected
  BY <1>1, <1>9, NewIsSound, ConnectOutcome DEF Sound
<1>11. WorkerTyped
  BY <1>3, <1>6, <1>8, NoReportsIs DEF WorkerTyped, WorkerInit
<1>12. MotorInv
  BY <1>4, <1>9, <1>10 DEF MotorInv, Accounted, Parked
<1> QED
  BY <1>4, <1>9, <1>10, <1>11, <1>12 DEF HidInv, CommandsReach, LizardIsOff

LEMMA WorkerStepKeeps == HidInv /\ [WorkerNext]_workerVars => HidInv'
<1> SUFFICES ASSUME HidInv, [WorkerNext]_workerVars PROVE HidInv'
  OBVIOUS
<1>1. CASE UNCHANGED workerVars
  BY <1>1, OthersKeep DEF workerVars, feedback, shared, HidInv, WorkerTyped
<1>2. CASE WorkerStep
  BY <1>2, ControlKeeps, PowerKeeps, ServiceStepKeeps, PollKeeps, PollConnectedKeeps,
     PollDisconnectedKeeps, PollInputKeeps, PollErrorKeeps, SendKeeps, FinishKeeps
     DEF WorkerStep
<1>3. CASE Consumer
  BY <1>3, ConsumerKeeps
<1>4. CASE Leave \/ Return
  BY <1>4, ComesAndGoes
<1>5. CASE Tick
  BY <1>5, TickKeeps
<1> QED
  BY <1>1, <1>2, <1>3, <1>4, <1>5 DEF WorkerNext

LEMMA HidInvHolds == WorkerSpec => []HidInv
<1>1. WorkerInit => HidInv
  BY WorkerStarts
<1>2. HidInv /\ [WorkerNext]_workerVars => HidInv'
  BY WorkerStepKeeps
<1> QED
  BY <1>1, <1>2, PTL DEF WorkerSpec

\* The feedback stage notices a lease that ran out.
LEMMA LapsedStops == HidInv /\ [WorkerNext]_workerVars => LapsedLeaseStops
<1> SUFFICES ASSUME HidInv, [WorkerNext]_workerVars,
                    worker.at = "service", worker'.at = "poll", worker.accepting,
                    Lapsed(haptics), slot = Nothing
             PROVE  device'.motor = Still \/ haptics'.degraded
  BY DEF LapsedLeaseStops
<1>1. worker \in Loops /\ device \in Devices /\ device.motor \in Commands /\ Reaches \in BOOLEAN
      /\ Sound(haptics)
  BY ReachesIs DEF HidInv, WorkerTyped, Devices, MotorInv
<1>2. worker' # worker
  OBVIOUS
<1>3. ServiceStep
  <2>1. ~Consumer
    BY <1>2 DEF Consumer, TakeEvent, TakeReports, SetRumble, PowerOff, PowerOffTimesOut,
                Shutdown, Join
  <2>2. ~Leave /\ ~Return /\ ~Tick
    BY <1>2 DEF Leave, Return, Tick
  <2>3. ~UNCHANGED workerVars
    BY <1>2 DEF workerVars
  <2> QED
    BY <2>1, <2>2, <2>3 DEF WorkerNext, WorkerStep, ControlStep, PowerStep, PollNothing,
       PollConnected, PollDisconnected, PollInput, PollStatus, PollError, SendStep, Finish
<1>4. ~Fails
  BY <1>1, LoopFails
<1>5. PICK o \in {Told(haptics, device.motor)} :
        \E p \in haptics_service(o.haptics, o.motor, Reaches) : Feels(p)
  BY <1>3, <1>4, Zenon DEF ServiceStep
<1>6. PICK p \in haptics_service(haptics, device.motor, Reaches) : Feels(p)
  BY <1>5, ToldIs
<1>7. p.haptics.desired = Still /\ Plays(p) /\ p.motor \in Commands
  BY <1>1, <1>6, ServiceOutcome
<1>8. haptics' = p.haptics /\ device'.motor = p.motor
  BY <1>1, <1>6, <1>7, DeviceFeels DEF Feels
<1> QED
  BY <1>7, <1>8 DEF Plays

\* A motor runs only for a command that is wanted and leased, or the status says
\* that a zero failed, or the connection was lost; and a lease that ran out ends
\* on the worker's next round.
THEOREM MotorStaysLeased == WorkerSpec => MotorIsLeased
<1>1. HidInv => MotorIsAccountedFor
  BY DEF HidInv, MotorInv, Accounted, MotorIsAccountedFor
<1>2. HidInv /\ HidInv' /\ [WorkerNext]_workerVars
        => [MotorIsAccountedFor' /\ LapsedLeaseStops]_workerVars
  BY <1>1, LapsedStops DEF HidInv, MotorInv, Accounted, MotorIsAccountedFor
<1> QED
  BY <1>2, HidInvHolds, PTL DEF MotorIsLeased, WorkerSpec

\* Input enters the mailbox only while the lizard mode is off, also after a
\* reconnection and after a power-off that failed.
THEOREM InputStaysSuppressed == WorkerSpec => InputIsSuppressed
<1>1. HidInv /\ [WorkerNext]_workerVars => [input'.reports > input.reports => lizard.active]_workerVars
  <2> SUFFICES ASSUME HidInv, [WorkerNext]_workerVars, input'.reports > input.reports
               PROVE  lizard.active
    OBVIOUS
  <2>1. input \in [reports : Nat, overflowed : BOOLEAN] /\ input.reports \in Nat
    BY DEF HidInv, WorkerTyped
  <2>2. input' # input /\ input' # NoReports
    BY <2>1, NoReportsIs
  <2>3. PollInput
    <3>1. ~Consumer
      BY <2>2 DEF Consumer, TakeEvent, TakeReports, SetRumble, PowerOff, PowerOffTimesOut,
                  Shutdown, Join, shared
    <3>2. ~Leave /\ ~Return /\ ~Tick
      BY <2>2 DEF Leave, Return, Tick, shared
    <3>3. ~UNCHANGED workerVars
      BY <2>2 DEF workerVars, shared
    <3>4. ~ControlStep /\ ~ServiceStep /\ ~PollNothing /\ ~PollStatus
      BY <2>2, Zenon DEF ControlStep, ServiceStep, PollNothing, PollStatus, shared
    <3>5. ~PowerStep /\ ~SendStep /\ ~Finish
      BY <2>2, Zenon DEF PowerStep, NoPowerDue, PowerDue, ResumeInput, SendStep, Finish
    <3>6. ~PollConnected /\ ~PollDisconnected /\ ~PollError
      BY <2>2, Zenon DEF PollConnected, PollDisconnected, PollError, Forgets, shared
    <3> QED
      BY <3>1, <3>2, <3>3, <3>4, <3>5, <3>6 DEF WorkerNext, WorkerStep
  <2>4. worker.at = "poll" /\ device.session = "connected" /\ worker.accepting
    BY <2>2, <2>3 DEF PollInput
  <2> QED
    BY <2>4 DEF HidInv, LizardIsOff
<1> QED
  BY <1>1, HidInvHolds, PTL DEF InputIsSuppressed, WorkerSpec

-----------------------------------------------------------------------------
(* FeedbackRelay.                                                          *)

Games == [level : Commands, since : 0 .. Settled]
Relays == [stateful : BOOLEAN, rumble : Commands \cup {Nothing}, changed : BOOLEAN, due : 0 .. Renew]
Motors == [haptics : HapticStates, motor : Commands]
Desired == rumble.haptics.desired
LeaseAge == rumble.haptics.lease

RelayTyped ==
  /\ game \in Games /\ relay \in Relays /\ rumble \in Motors
  /\ produced \in Commands \cup {Nothing} /\ latest \in Commands \cup {Nothing}
  /\ active \in BOOLEAN /\ ran \subseteq {"session", "worker"}

\* The motor does what the supervisor wants; without a controller that is nothing.
MotorFollows ==
  /\ Sound(rumble.haptics) /\ Plays(rumble)
  /\ rumble.haptics.connected = active
  /\ ~active => latest = Nothing /\ Desired = Still

\* What the game asked for last is on its way to the session, which takes it
\* within two rounds, or the relay remembers it.
AskIsKnown ==
  /\ produced # Nothing => produced = game.level
  /\ relay.stateful /\ produced = Nothing =>
       relay.rumble = game.level \/ (relay.rumble = Nothing /\ game.level = Still)
  /\ game.since >= 2 \/ (game.since = 1 /\ "session" \in ran) => produced = Nothing

\* What a stateful relay remembers is in the slot or is what the worker wants,
\* except right after a controller was selected.
RelayedIsWanted ==
  relay.stateful /\ active =>
    /\ relay.changed =>
         latest = Nothing /\ Desired = Still /\ relay.rumble # Nothing
           /\ game.since = 0 /\ "session" \notin ran
    /\ ~relay.changed /\ relay.rumble # Nothing =>
         latest = relay.rumble \/ (latest = Nothing /\ Desired = relay.rumble)
    /\ relay.rumble = Nothing => latest = Nothing /\ Desired = Still

\* A stateful relay renews the lease before it runs out: at the latest when the
\* worker finds it Renew + 1 rounds old, a renewal is in the slot.
LeaseIsRenewed ==
  relay.stateful /\ active =>
    /\ "session" \in ran => relay.rumble \in {Nothing, Still} \/ relay.due # 0
    /\ Desired # Still =>
         /\ latest = Nothing => LeaseAge <= Renew - relay.due
         /\ latest # Nothing => LeaseAge <= Renew + 1
         /\ latest # Nothing /\ "worker" \in ran => LeaseAge <= Renew

\* Two rounds after the ask the worker has it.
WorkerHasIt == game.since >= 3 \/ (game.since = 2 /\ "worker" \in ran)
AskIsWanted == relay.stateful /\ active /\ WorkerHasIt => Desired = game.level

\* A leased relay keeps nothing; once the worker has the last ask, its lease is
\* as old as the ask but for two rounds, and the round after it ran out the
\* worker wants nothing.
LeaseRunsOut ==
  ~relay.stateful =>
    /\ relay.rumble = Nothing
    /\ WorkerHasIt => latest = Nothing
    /\ Desired # Still /\ game.since >= 2 =>
         LeaseAge >= game.since - 2 /\ game.since <= Lease + 2
    /\ game.since >= Lease + 2 /\ "worker" \in ran => Desired = Still

RelayInv ==
  RelayTyped /\ MotorFollows /\ AskIsKnown /\ RelayedIsWanted /\ LeaseIsRenewed /\ AskIsWanted
    /\ LeaseRunsOut

LEMMA ObserveIs ==
  ASSUME NEW r \in Relays, NEW f \in Commands \cup {Nothing}
  PROVE  /\ observe(r, f) \in Relays /\ observe(r, f).stateful = r.stateful
         /\ observe(r, f).due = r.due
         /\ observe(r, f).rumble = IF f = Nothing THEN r.rumble ELSE f
         /\ f # Nothing => observe(r, f).changed
         /\ f = Nothing => observe(r, f) = r
<1> DEFINE s == [r EXCEPT !.rumble = f, !.changed = TRUE]
<1>1. s \in Relays
  <2>1. TRUE \in BOOLEAN
    OBVIOUS
  <2> QED
    BY <2>1, Zenon DEF Relays
<1>2. s.stateful = r.stateful /\ s.due = r.due /\ s.rumble = f /\ s.changed
  BY Zenon DEF Relays
<1>3. observe(r, f) = IF f = Nothing THEN r ELSE s
  BY Zenon DEF observe
<1> HIDE DEF s
<1> QED
  BY <1>1, <1>2, <1>3

LEMMA WaitIs ==
  ASSUME NEW r \in Relays
  PROVE  /\ wait_without_consumer(r) \in Relays
         /\ wait_without_consumer(r).stateful = r.stateful
         /\ wait_without_consumer(r).rumble = IF r.stateful THEN r.rumble ELSE Nothing
<1> DEFINE s == [r EXCEPT !.rumble = Nothing, !.changed = FALSE]
<1>1. FALSE \in BOOLEAN
  OBVIOUS
<1>2. s \in Relays
  BY <1>1, Zenon DEF Relays
<1>3. s.stateful = r.stateful /\ s.rumble = Nothing
  BY Zenon DEF Relays
<1>4. wait_without_consumer(r) = IF r.stateful THEN r ELSE s
  BY Zenon DEF wait_without_consumer
<1> HIDE DEF s
<1> QED
  BY <1>2, <1>3, <1>4

LEMMA ActivateIs ==
  ASSUME NEW r \in Relays
  PROVE  /\ activate(r) \in Relays /\ activate(r).stateful = r.stateful
         /\ activate(r).rumble = IF r.stateful THEN r.rumble ELSE Nothing
         /\ r.stateful => (activate(r).changed <=> r.rumble # Nothing)
<1> DEFINE on == [r EXCEPT !.due = 0, !.changed = r.rumble # Nothing]
           off == [r EXCEPT !.due = 0, !.rumble = Nothing, !.changed = FALSE]
<1>1. FALSE \in BOOLEAN /\ (r.rumble # Nothing) \in BOOLEAN /\ 0 \in 0 .. Renew
  BY RelayAssumption
<1>2. on \in Relays /\ off \in Relays
  BY <1>1, Zenon DEF Relays
<1>3. /\ on.stateful = r.stateful /\ on.rumble = r.rumble /\ (on.changed <=> r.rumble # Nothing)
      /\ off.stateful = r.stateful /\ off.rumble = Nothing
  BY Zenon DEF Relays
<1>4. activate(r) = IF r.stateful THEN on ELSE off
  BY Zenon DEF activate
<1> HIDE DEF on, off
<1> QED
  BY <1>2, <1>3, <1>4

LEMMA AfterCommandIs ==
  ASSUME NEW r \in Relays
  PROVE  /\ after_command(r) \in Relays /\ after_command(r).stateful = r.stateful
         /\ ~after_command(r).changed /\ after_command(r).due = Renew
         /\ after_command(r).rumble = IF r.stateful THEN r.rumble ELSE Nothing
<1>1. FALSE \in BOOLEAN /\ Renew \in 0 .. Renew
      /\ (IF r.stateful THEN r.rumble ELSE Nothing) \in Commands \cup {Nothing}
  BY RelayAssumption DEF Relays
<1>2. after_command(r) \in Relays
  BY <1>1, Zenon DEF Relays, after_command
<1>3. /\ after_command(r).stateful = r.stateful /\ ~after_command(r).changed
      /\ after_command(r).due = Renew
      /\ after_command(r).rumble = IF r.stateful THEN r.rumble ELSE Nothing
  BY Zenon DEF Relays, after_command
<1> QED
  BY <1>2, <1>3

LEMMA RelayNumbers ==
  /\ Renew \in Nat \ {0} /\ Lease \in Nat /\ Renew < Lease /\ Settled = Lease + 3
  /\ Still \in Commands /\ Nothing \notin Commands /\ Nothing \notin Nat /\ Nothing \notin 0 .. Lease
  BY HapticsAssumption, RelayAssumption DEF Commands, Settled

LEMMA RelayStarts == RelayInit => RelayInv
<1> SUFFICES ASSUME RelayInit PROVE RelayInv
  OBVIOUS
<1>1. PICK s \in BOOLEAN : relay = NewRelay(s)
  BY DEF RelayInit
<1>2. FALSE \in BOOLEAN /\ 0 \in 0 .. Renew /\ Settled \in 0 .. Settled /\ Settled \in Nat
  BY RelayNumbers
<1>3. relay \in Relays
  BY <1>1, <1>2, Zenon DEF NewRelay, Relays
<1>4. relay.rumble = Nothing /\ ~relay.changed
  BY <1>1, Zenon DEF NewRelay
<1>5. game = [level |-> Still, since |-> Settled]
  BY DEF RelayInit
<1>6. game \in Games /\ game.level = Still /\ game.since = Settled
  <2>1. game \in Games
    BY <1>2, <1>5, RelayNumbers, Zenon DEF Games
  <2> QED
    BY <1>5, <2>1
<1>7. rumble.haptics = NewHaptics /\ rumble.motor = Still
  BY ToldIs DEF RelayInit
<1>8. rumble = [haptics |-> NewHaptics, motor |-> Still]
  BY DEF RelayInit, Told
<1>9. rumble \in Motors
  BY <1>8, NewIsSound, RelayNumbers, Zenon DEF Motors, Sound
<1>10. produced = Nothing /\ active = FALSE /\ latest = Nothing /\ ran = {}
  BY DEF RelayInit
<1>11. RelayTyped
  BY <1>3, <1>6, <1>9, <1>10 DEF RelayTyped
<1>12. MotorFollows
  BY <1>7, <1>10, NewIsSound DEF MotorFollows, Plays, Desired, Sound, HapticStates
<1>13. AskIsKnown
  BY <1>4, <1>6, <1>10 DEF AskIsKnown
<1>14. Desired = Still
  BY <1>7, NewIsSound DEF Desired
<1>15. RelayedIsWanted /\ LeaseIsRenewed /\ AskIsWanted /\ LeaseRunsOut
  BY <1>4, <1>10, <1>14 DEF RelayedIsWanted, LeaseIsRenewed, AskIsWanted, LeaseRunsOut
<1> QED
  BY <1>11, <1>12, <1>13, <1>15 DEF RelayInv

LEMMA RelayTypes ==
  ASSUME RelayTyped
  PROVE  /\ game.level \in Commands /\ game.since \in 0 .. Settled
         /\ relay.rumble \in Commands \cup {Nothing} /\ relay.due \in 0 .. Renew
         /\ rumble.haptics \in HapticStates /\ rumble.motor \in Commands
         /\ Desired \in Commands /\ LeaseAge \in 0 .. Lease \cup {Nothing}
  BY DEF RelayTyped, Games, Relays, Motors, HapticStates, Desired, LeaseAge

LEMMA GameAsksKeeps == \A c \in Commands : RelayInv /\ GameAsks(c) => RelayInv'
<1> SUFFICES ASSUME NEW c \in Commands, RelayInv, GameAsks(c) PROVE RelayInv'
  OBVIOUS
<1> USE DEF RelayInv
<1>1. game' = [level |-> c, since |-> 0] /\ produced' = c
      /\ UNCHANGED <<relay, active, latest, rumble, ran>>
  BY DEF GameAsks
<1>2. game'.level = c /\ game'.since = 0 /\ game' \in Games
  BY <1>1, RelayNumbers DEF Games
<1>3. RelayTyped'
  BY <1>1, <1>2 DEF RelayTyped
<1>4. MotorFollows'
  BY <1>1 DEF MotorFollows, Sound, Plays, Desired
<1>5. AskIsKnown'
  BY <1>1, <1>2, RelayNumbers DEF AskIsKnown
<1>6. RelayedIsWanted' /\ LeaseIsRenewed'
  BY <1>1, <1>2 DEF RelayedIsWanted, LeaseIsRenewed, Desired, LeaseAge
<1>7. AskIsWanted' /\ LeaseRunsOut'
  BY <1>1, <1>2, RelayNumbers DEF AskIsWanted, LeaseRunsOut, WorkerHasIt, Desired, LeaseAge
<1> QED
  BY <1>3, <1>4, <1>5, <1>6, <1>7

LEMMA SessionRunsKeeps == RelayInv /\ SessionRuns => RelayInv'
<1> SUFFICES ASSUME RelayInv, SessionRuns PROVE RelayInv'
  OBVIOUS
<1> USE DEF RelayInv
<1> DEFINE drained == observe(relay, produced)
<1>1. ran' = ran \cup {"session"} /\ produced' = Nothing /\ UNCHANGED <<game, active, rumble>>
  BY DEF SessionRuns
<1>2. IF ~active THEN relay' = wait_without_consumer(drained) /\ latest' = latest
      ELSE IF CommandDue(drained)
           THEN relay' = after_command(drained) /\ latest' = drained.rumble
           ELSE relay' = drained /\ latest' = latest
  BY Zenon DEF SessionRuns
<1>3. /\ drained \in Relays /\ drained.stateful = relay.stateful /\ drained.due = relay.due
      /\ drained.rumble = IF produced = Nothing THEN relay.rumble ELSE produced
      /\ produced # Nothing => drained.changed
      /\ produced = Nothing => drained = relay
  BY ObserveIs DEF RelayTyped
<1> HIDE DEF drained
<1>4. /\ drained.rumble \in Commands \cup {Nothing} /\ relay \in Relays
      /\ game.since \in 0 .. Settled /\ Desired' = Desired /\ LeaseAge' = LeaseAge
      /\ LeaseAge \in 0 .. Lease \cup {Nothing} /\ relay.due \in 0 .. Renew
      /\ Desired \in Commands
  BY <1>1, <1>3, RelayTypes DEF RelayTyped, Relays, Desired, LeaseAge
<1>5. CommandDue(drained) =>
        drained.rumble # Nothing /\ (drained.changed \/ (drained.rumble # Still /\ drained.due = 0))
  BY DEF CommandDue
<1>6. ~CommandDue(drained) =>
        drained.rumble = Nothing \/ (~drained.changed /\ (drained.rumble = Still \/ drained.due # 0))
  BY DEF CommandDue
<1>7. /\ relay' \in Relays /\ relay'.stateful = relay.stateful
      /\ relay.stateful => relay'.rumble = drained.rumble
      /\ latest' \in Commands \cup {Nothing}
  <2>1. CASE ~active
    BY <1>2, <1>3, <2>1, WaitIs DEF RelayTyped
  <2>2. CASE active /\ CommandDue(drained)
    BY <1>2, <1>3, <1>4, <2>2, AfterCommandIs
  <2>3. CASE active /\ ~CommandDue(drained)
    BY <1>2, <1>3, <2>3 DEF RelayTyped
  <2> QED
    BY <2>1, <2>2, <2>3
<1>8. RelayTyped'
  BY <1>1, <1>7 DEF RelayTyped
<1>9. MotorFollows'
  BY <1>1, <1>2, <1>4 DEF MotorFollows, Sound, Plays
<1>10. AskIsKnown'
  BY <1>1, <1>3, <1>7 DEF AskIsKnown
<1>11. AskIsWanted'
  <2>1. WorkerHasIt' => WorkerHasIt
    BY <1>1 DEF WorkerHasIt
  <2> QED
    BY <1>1, <1>4, <1>7, <2>1 DEF AskIsWanted
<1>12. relay.stateful /\ active =>
         /\ ~relay'.changed
         /\ IF CommandDue(drained) THEN latest' = relay'.rumble /\ relay'.rumble # Nothing /\ relay'.due = Renew
            ELSE latest' = latest /\ relay' = drained
  BY <1>2, <1>3, <1>5, <1>6, <1>7, AfterCommandIs DEF RelayedIsWanted
<1>13. relay.stateful /\ active /\ ~CommandDue(drained) => produced = Nothing /\ relay' = relay
  <2>1. produced # Nothing => drained.changed /\ drained.rumble # Nothing
    BY <1>3
  <2> QED
    BY <1>3, <1>6, <1>12, <2>1
<1>14. RelayedIsWanted'
  BY <1>1, <1>4, <1>7, <1>12, <1>13 DEF RelayedIsWanted
<1>15. LeaseIsRenewed'
  <2> SUFFICES ASSUME relay.stateful, active PROVE LeaseIsRenewed'
    BY <1>1, <1>7 DEF LeaseIsRenewed
  <2>1. CASE CommandDue(drained)
    <3>1. latest' # Nothing /\ relay'.due = Renew
      BY <1>12, <2>1
    <3>2. Desired # Still => LeaseAge <= Renew + 1 /\ ("worker" \in ran => LeaseAge <= Renew)
      <4> SUFFICES ASSUME Desired # Still
                   PROVE  LeaseAge <= Renew + 1 /\ ("worker" \in ran => LeaseAge <= Renew)
        OBVIOUS
      <4>1. LeaseAge # Nothing
        BY DEF MotorFollows, Sound, Desired, LeaseAge
      <4>2. LeaseAge \in Nat
        BY <1>4, <4>1
      <4>3. CASE latest = Nothing
        BY <1>4, <4>2, <4>3, RelayNumbers DEF LeaseIsRenewed
      <4>4. CASE latest # Nothing
        BY <4>4 DEF LeaseIsRenewed
      <4> QED
        BY <4>3, <4>4
    <3> QED
      BY <1>1, <1>4, <3>1, <3>2, RelayNumbers DEF LeaseIsRenewed
  <2>2. CASE ~CommandDue(drained)
    <3>1. relay' = relay /\ latest' = latest
      BY <1>12, <1>13, <2>2
    <3>2. relay.rumble \in {Nothing, Still} \/ relay.due # 0
      BY <1>3, <1>6, <1>13, <2>2
    <3> QED
      BY <1>1, <1>4, <3>1, <3>2 DEF LeaseIsRenewed
  <2> QED
    BY <2>1, <2>2
<1>16. LeaseRunsOut'
  <2> SUFFICES ASSUME ~relay.stateful PROVE LeaseRunsOut'
    BY <1>7 DEF LeaseRunsOut
  <2>1. relay.rumble = Nothing
    BY DEF LeaseRunsOut
  <2>2. relay'.rumble = Nothing
    <3>1. CASE ~active
      BY <1>2, <1>3, <3>1, WaitIs
    <3>2. CASE active /\ CommandDue(drained)
      BY <1>2, <1>3, <3>2, AfterCommandIs
    <3>3. CASE active /\ ~CommandDue(drained)
      BY <1>2, <1>3, <1>6, <2>1, <3>3
    <3> QED
      BY <3>1, <3>2, <3>3
  <2>3. WorkerHasIt' => WorkerHasIt /\ latest' = latest
    <3> SUFFICES ASSUME WorkerHasIt' PROVE WorkerHasIt /\ latest' = latest
      OBVIOUS
    <3>1. WorkerHasIt /\ game.since >= 2
      BY <1>1, <1>4 DEF WorkerHasIt
    <3>2. drained.rumble = Nothing
      BY <1>3, <2>1, <3>1 DEF AskIsKnown
    <3> QED
      BY <1>2, <1>5, <3>1, <3>2
  <2> QED
    BY <1>1, <1>4, <1>7, <2>2, <2>3 DEF LeaseRunsOut
<1> QED
  BY <1>8, <1>9, <1>10, <1>11, <1>14, <1>15, <1>16

\* The worker's round, once its command is taken.
LEMMA WorkerHears ==
  ASSUME RelayInv, active, NEW reaches \in BOOLEAN,
         NEW o, o \in (IF latest = Nothing THEN {rumble}
                       ELSE command(rumble.haptics, rumble.motor, latest, reaches))
  PROVE  /\ Sound(o.haptics) /\ o.motor \in Commands /\ Plays(o) /\ o.haptics.connected
         /\ latest = Nothing => o.haptics.desired = Desired /\ o.haptics.lease = LeaseAge
         /\ latest # Nothing =>
              o.haptics.desired = latest /\ o.haptics.lease = IF latest = Still THEN Nothing ELSE 0
<1>1. Sound(rumble.haptics) /\ Plays(rumble) /\ rumble.haptics.connected /\ rumble.motor \in Commands
      /\ latest \in Commands \cup {Nothing}
  BY RelayTypes DEF RelayInv, MotorFollows, RelayTyped
<1>2. CASE latest = Nothing
  <2>1. o = rumble
    BY <1>2
  <2> QED
    BY <1>1, <1>2, <2>1 DEF Desired, LeaseAge
<1>3. CASE latest # Nothing
  <2>1. latest \in Commands /\ o \in command(rumble.haptics, rumble.motor, latest, reaches)
    BY <1>1, <1>3
  <2>2. /\ Sound(o.haptics) /\ o.motor \in Commands
        /\ o.haptics.connected = rumble.haptics.connected /\ o.haptics.desired = latest
        /\ o.haptics.lease = IF latest = Still THEN Nothing ELSE 0
        /\ \/ Plays(o)
           \/ o.motor = rumble.motor /\ latest = rumble.haptics.desired
                /\ o.haptics.degraded = rumble.haptics.degraded
    <3> DEFINE h == rumble.haptics
               m == rumble.motor
    <3>1. Sound(h) /\ m \in Commands /\ o \in command(h, m, latest, reaches)
      BY <1>1, <2>1
    <3> HIDE DEF h, m
    <3>2. /\ Sound(o.haptics) /\ o.motor \in Commands
          /\ o.haptics.connected = h.connected /\ o.haptics.desired = latest
          /\ o.haptics.lease = IF latest = Still THEN Nothing ELSE 0
          /\ \/ Plays(o)
             \/ o.motor = m /\ latest = h.desired /\ o.haptics.degraded = h.degraded
      BY <2>1, <3>1, CommandOutcome
    <3> QED
      BY <3>2 DEF h, m
  <2> QED
    BY <1>1, <1>3, <2>2 DEF Plays
<1> QED
  BY <1>2, <1>3

LEMMA WorkerRunsKeeps == RelayInv /\ HidWorkerRuns => RelayInv'
<1> SUFFICES ASSUME RelayInv, HidWorkerRuns PROVE RelayInv'
  OBVIOUS
<1> USE DEF RelayInv
<1>1. active /\ ran' = ran \cup {"worker"} /\ latest' = Nothing
      /\ UNCHANGED <<game, produced, relay, active>>
  BY DEF HidWorkerRuns
<1>2. PICK reaches \in BOOLEAN :
        \E o \in (IF latest = Nothing THEN {rumble}
                 ELSE command(rumble.haptics, rumble.motor, latest, reaches)) :
          rumble' \in haptics_service(o.haptics, o.motor, reaches)
  BY Zenon DEF HidWorkerRuns
<1>o. PICK o \in (IF latest = Nothing THEN {rumble}
                  ELSE command(rumble.haptics, rumble.motor, latest, reaches)) :
        rumble' \in haptics_service(o.haptics, o.motor, reaches)
  BY <1>2
<1>3. /\ Sound(o.haptics) /\ o.motor \in Commands /\ Plays(o) /\ o.haptics.connected
      /\ latest = Nothing => o.haptics.desired = Desired /\ o.haptics.lease = LeaseAge
      /\ latest # Nothing =>
           o.haptics.desired = latest /\ o.haptics.lease = IF latest = Still THEN Nothing ELSE 0
  BY <1>1, <1>o, WorkerHears
<1>4. /\ Sound(rumble'.haptics) /\ rumble'.motor \in Commands /\ rumble'.haptics.connected
      /\ Plays(rumble') \/ (rumble'.haptics = o.haptics /\ rumble'.motor = o.motor)
      /\ IF Lapsed(o.haptics) THEN Desired' = Still /\ Plays(rumble')
         ELSE Desired' = o.haptics.desired /\ LeaseAge' = o.haptics.lease
  BY <1>o, <1>3, ServiceOutcome DEF Desired, LeaseAge
<1>5. Plays(rumble')
  BY <1>3, <1>4 DEF Plays
<1>6. rumble' \in Motors
  <2>1. \E h, m : rumble' = Told(h, m)
    BY <1>o, Zenon DEF haptics_service, write
  <2>2. PICK h, m : rumble' = [haptics |-> h, motor |-> m]
    BY <2>1 DEF Told
  <2>3. h \in HapticStates /\ m \in Commands
    BY <1>4, <2>2 DEF Sound
  <2> QED
    BY <2>2, <2>3, Zenon DEF Motors
<1>7. RelayTyped'
  BY <1>1, <1>6 DEF RelayTyped
<1>8. MotorFollows'
  BY <1>1, <1>4, <1>5 DEF MotorFollows
<1>9. AskIsKnown'
  BY <1>1 DEF AskIsKnown
<1>10. /\ Desired \in Commands /\ LeaseAge \in 0 .. Lease \cup {Nothing} /\ game.since \in 0 .. Settled
       /\ relay.rumble \in Commands \cup {Nothing} /\ relay.due \in 0 .. Renew
       /\ latest \in Commands \cup {Nothing} /\ game.level \in Commands
  BY RelayTypes DEF RelayTyped
<1>11. latest # Nothing => ~Lapsed(o.haptics)
  BY <1>3, RelayNumbers DEF Lapsed
<1>12. relay.stateful => ~Lapsed(o.haptics)
  <2> SUFFICES ASSUME relay.stateful, latest = Nothing, Lapsed(o.haptics) PROVE FALSE
    BY <1>11
  <2>1. Desired # Still /\ LeaseAge = Lease
    BY <1>3 DEF Lapsed
  <2> QED
    BY <1>1, <1>10, <2>1, RelayNumbers DEF LeaseIsRenewed
<1>13. relay.stateful => Desired' = IF latest = Nothing THEN Desired ELSE latest
  BY <1>3, <1>4, <1>12
<1>14. relay.stateful =>
         LeaseAge' = IF latest = Nothing THEN LeaseAge ELSE IF latest = Still THEN Nothing ELSE 0
  BY <1>3, <1>4, <1>12
<1>15. RelayedIsWanted'
  BY <1>1, <1>10, <1>13, RelayNumbers DEF RelayedIsWanted
<1>16. LeaseIsRenewed'
  <2> SUFFICES ASSUME relay.stateful PROVE LeaseIsRenewed'
    BY <1>1 DEF LeaseIsRenewed
  <2>1. "session" \in ran' => "session" \in ran
    BY <1>1
  <2>2. ASSUME Desired' # Still PROVE LeaseAge' <= Renew - relay.due
    <3>1. CASE latest = Nothing
      BY <1>1, <1>13, <1>14, <2>2, <3>1 DEF LeaseIsRenewed
    <3>2. CASE latest # Nothing
      BY <1>10, <1>13, <1>14, <2>2, <3>2, RelayNumbers
    <3> QED
      BY <3>1, <3>2
  <2> QED
    BY <1>1, <2>1, <2>2 DEF LeaseIsRenewed
<1>17. AskIsWanted'
  <2> SUFFICES ASSUME relay.stateful, game.since >= 2 PROVE Desired' = game.level
    BY <1>1, <1>10 DEF AskIsWanted, WorkerHasIt
  <2>1. produced = Nothing
    BY DEF AskIsKnown
  <2>2. relay.rumble = game.level \/ (relay.rumble = Nothing /\ game.level = Still)
    BY <2>1 DEF AskIsKnown
  <2>3. ~relay.changed
    BY <1>1, <1>10 DEF RelayedIsWanted
  <2> QED
    BY <1>1, <1>10, <1>13, <2>2, <2>3, RelayNumbers DEF RelayedIsWanted
<1>18. LeaseRunsOut'
  <2> SUFFICES ASSUME ~relay.stateful PROVE LeaseRunsOut'
    BY <1>1 DEF LeaseRunsOut
  <2>1. game.since >= 3 => latest = Nothing
    BY DEF LeaseRunsOut, WorkerHasIt
  <2>2. ASSUME Desired' # Still, game.since >= 2
        PROVE  LeaseAge' >= game.since - 2 /\ game.since < Lease + 2
    <3>1. ~Lapsed(o.haptics) /\ Desired' = o.haptics.desired /\ LeaseAge' = o.haptics.lease
      BY <1>4, <2>2
    <3>2. CASE latest = Nothing
      <4>1. LeaseAge' = LeaseAge /\ Desired # Still /\ LeaseAge # Lease
        BY <1>3, <2>2, <3>1, <3>2 DEF Lapsed
      <4>2. LeaseAge >= game.since - 2 /\ game.since <= Lease + 2
        BY <2>2, <4>1 DEF LeaseRunsOut
      <4>3. LeaseAge # Nothing
        BY <4>1 DEF MotorFollows, Sound, Desired, LeaseAge
      <4> QED
        BY <1>10, <4>1, <4>2, <4>3, RelayNumbers
    <3>3. CASE latest # Nothing
      <4>1. game.since = 2
        BY <1>10, <2>1, <2>2, <3>3
      <4>2. LeaseAge' = 0
        BY <1>3, <2>2, <3>1, <3>3
      <4> QED
        BY <4>1, <4>2, RelayNumbers
    <3> QED
      BY <3>2, <3>3
  <2>3. relay'.rumble = Nothing
    BY <1>1 DEF LeaseRunsOut
  <2>4. game'.since \in 0 .. Settled /\ game'.since = game.since
    BY <1>1, <1>10
  <2>5. Desired' # Still /\ game.since >= 2 => LeaseAge' >= game.since - 2 /\ game.since <= Lease + 2
    BY <1>10, <2>2, RelayNumbers
  <2>6. game.since >= Lease + 2 => Desired' = Still
    BY <1>10, <2>2, RelayNumbers
  <2> QED
    BY <1>1, <2>3, <2>4, <2>5, <2>6 DEF LeaseRunsOut
<1> QED
  BY <1>7, <1>8, <1>9, <1>15, <1>16, <1>17, <1>18

LEMMA ToldIsMotor ==
  ASSUME NEW h \in HapticStates, NEW m \in Commands PROVE Told(h, m) \in Motors
  BY Zenon DEF Told, Motors

LEMMA ActivateKeeps == RelayInv /\ Activate => RelayInv'
<1> SUFFICES ASSUME RelayInv, Activate PROVE RelayInv'
  OBVIOUS
<1> USE DEF RelayInv
<1>1. ~active /\ active' = TRUE /\ relay' = activate(relay) /\ latest' = Nothing /\ ran' = {}
      /\ produced' = produced /\ game' = [game EXCEPT !.since = 0]
      /\ rumble' \in haptics_connected(rumble.haptics, rumble.motor, TRUE)
  BY DEF Activate
<1>2. game \in Games /\ 0 \in 0 .. Settled
  BY RelayNumbers DEF RelayTyped
<1>3. game' \in Games
  BY <1>1, <1>2, Zenon DEF Games
<1>4. game'.since = 0 /\ game'.level = game.level
  BY <1>1, <1>2, Zenon DEF Games
<1>5. rumble.haptics \in HapticStates /\ rumble.motor \in Commands /\ TRUE \in BOOLEAN
  BY RelayTypes DEF RelayTyped
<1>6. /\ Sound(rumble'.haptics) /\ Plays(rumble') /\ rumble'.motor \in Commands
      /\ rumble'.haptics.connected /\ rumble'.haptics.desired = Still
  BY <1>1, <1>5, ConnectOutcome
<1>7. rumble' \in Motors
  <2>1. PICK h, m : rumble' = Told(h, m)
    BY <1>1, Zenon DEF haptics_connected, write
  <2>2. h \in HapticStates /\ m \in Commands
    BY <1>6, <2>1, ToldIs DEF Sound
  <2> QED
    BY <2>1, <2>2, ToldIsMotor
<1>8. /\ relay' \in Relays /\ relay'.stateful = relay.stateful
      /\ relay'.rumble = IF relay.stateful THEN relay.rumble ELSE Nothing
      /\ relay.stateful => (relay'.changed <=> relay.rumble # Nothing)
  BY <1>1, ActivateIs DEF RelayTyped
<1>9. RelayTyped'
  BY <1>1, <1>3, <1>7, <1>8 DEF RelayTyped
<1>10. MotorFollows'
  BY <1>1, <1>6 DEF MotorFollows, Sound, HapticStates
<1>11. AskIsKnown'
  BY <1>1, <1>4, <1>8 DEF AskIsKnown
<1>12. RelayedIsWanted'
  BY <1>1, <1>4, <1>6, <1>8 DEF RelayedIsWanted, Desired
<1>13. LeaseIsRenewed'
  BY <1>1, <1>6 DEF LeaseIsRenewed, Desired
<1>14. AskIsWanted' /\ LeaseRunsOut'
  BY <1>1, <1>4, <1>8, RelayNumbers DEF AskIsWanted, LeaseRunsOut, WorkerHasIt
<1> QED
  BY <1>9, <1>10, <1>11, <1>12, <1>13, <1>14

LEMMA DeactivateKeeps == RelayInv /\ Deactivate => RelayInv'
<1> SUFFICES ASSUME RelayInv, Deactivate PROVE RelayInv'
  OBVIOUS
<1> USE DEF RelayInv
<1>1. active /\ active' = FALSE /\ latest' = Nothing /\ ran' = {}
      /\ UNCHANGED <<game, produced, relay>>
      /\ rumble' \in haptics_shutdown(rumble.haptics, rumble.motor, TRUE)
  BY DEF Deactivate
<1>2. rumble.motor \in Commands /\ TRUE \in BOOLEAN /\ Sound(rumble.haptics)
      /\ rumble.haptics.connected /\ game.since \in 0 .. Settled
  BY <1>1, RelayTypes DEF RelayTyped, MotorFollows
<1>3. /\ Sound(rumble'.haptics) /\ rumble'.motor \in Commands /\ Plays(rumble')
      /\ ~rumble'.haptics.connected /\ rumble'.haptics.desired = Still
  BY <1>1, <1>2, ShutdownOutcome
<1>4. rumble' \in Motors
  <2>1. PICK h, m : rumble' = Told(h, m)
    BY <1>1, <1>2, Zenon DEF haptics_shutdown
  <2>2. h \in HapticStates /\ m \in Commands
    BY <1>3, <2>1, ToldIs DEF Sound
  <2> QED
    BY <2>1, <2>2, ToldIsMotor
<1>5. RelayTyped'
  BY <1>1, <1>4 DEF RelayTyped
<1>6. MotorFollows'
  BY <1>1, <1>3 DEF MotorFollows, Desired, Sound, HapticStates
<1>7. AskIsKnown'
  BY <1>1 DEF AskIsKnown
<1>8. RelayedIsWanted' /\ LeaseIsRenewed' /\ AskIsWanted'
  BY <1>1 DEF RelayedIsWanted, LeaseIsRenewed, AskIsWanted
<1>9. LeaseRunsOut'
  BY <1>1, <1>3 DEF LeaseRunsOut, Desired
<1> QED
  BY <1>5, <1>6, <1>7, <1>8, <1>9

LEMMA RoundEndsKeeps == RelayInv /\ RoundEnds => RelayInv'
<1> SUFFICES ASSUME RelayInv, RoundEnds PROVE RelayInv'
  OBVIOUS
<1> USE DEF RelayInv
<1> DEFINE now == IF game.since = Settled THEN game.since ELSE game.since + 1
<1>1. /\ "session" \in ran /\ (active => "worker" \in ran) /\ ran' = {}
      /\ UNCHANGED <<produced, active, latest>>
      /\ game' = [game EXCEPT !.since = now]
      /\ relay' = [relay EXCEPT !.due = Lower(relay.due)]
      /\ rumble' = [rumble EXCEPT !.haptics = AgeHaptics(rumble.haptics)]
  BY Zenon DEF RoundEnds
<1>2. /\ game \in Games /\ relay \in Relays /\ rumble \in Motors /\ Sound(rumble.haptics)
      /\ game.since \in 0 .. Settled /\ relay.due \in 0 .. Renew
      /\ LeaseAge \in 0 .. Lease \cup {Nothing} /\ Desired \in Commands
      /\ relay.rumble \in Commands \cup {Nothing} /\ game.level \in Commands
  BY RelayTypes DEF RelayTyped, MotorFollows
<1>3. now \in 0 .. Settled /\ Lower(relay.due) \in 0 .. Renew
  BY <1>2, RelayNumbers DEF Lower
<1>4. game' \in Games /\ relay' \in Relays
  BY <1>1, <1>2, <1>3, Zenon DEF Games, Relays
<1>5. /\ game'.since = now /\ game'.level = game.level
      /\ relay'.due = Lower(relay.due) /\ relay'.stateful = relay.stateful
      /\ relay'.rumble = relay.rumble /\ relay'.changed = relay.changed
  BY <1>1, <1>2, Zenon DEF Games, Relays
<1>6. /\ Sound(AgeHaptics(rumble.haptics))
      /\ AgeHaptics(rumble.haptics).connected = rumble.haptics.connected
      /\ AgeHaptics(rumble.haptics).desired = Desired
      /\ AgeHaptics(rumble.haptics).degraded = rumble.haptics.degraded
      /\ AgeHaptics(rumble.haptics).lease = Older(LeaseAge, Lease)
  BY <1>2, Ages DEF Desired, LeaseAge
<1>7. AgeHaptics(rumble.haptics) \in HapticStates
  BY <1>6 DEF Sound
<1>8. rumble' \in Motors
  BY <1>1, <1>2, <1>7, Zenon DEF Motors
<1>9. rumble'.haptics = AgeHaptics(rumble.haptics) /\ rumble'.motor = rumble.motor
  BY <1>1, <1>2, Zenon DEF Motors
<1>10. Desired' = Desired /\ LeaseAge' = Older(LeaseAge, Lease)
  BY <1>6, <1>9 DEF Desired, LeaseAge
<1> HIDE DEF now
<1>11. now >= 2 => game.since >= 1
  BY <1>2 DEF now
<1>12. now >= 3 => game.since >= 2
  BY <1>2, RelayNumbers DEF now
<1>13. RelayTyped'
  BY <1>1, <1>4, <1>8 DEF RelayTyped
<1>14. MotorFollows'
  BY <1>1, <1>6, <1>9, <1>10 DEF MotorFollows, Plays, Desired
<1>15. AskIsKnown'
  BY <1>1, <1>2, <1>5, <1>11 DEF AskIsKnown
<1>16. RelayedIsWanted'
  BY <1>1, <1>5, <1>10 DEF RelayedIsWanted
<1>17. WorkerHasIt' => game.since >= 2
  BY <1>1, <1>5, <1>12 DEF WorkerHasIt
<1>18. game.since >= 2 /\ active => WorkerHasIt
  BY <1>1, <1>2 DEF WorkerHasIt
<1>19. AskIsWanted'
  BY <1>1, <1>5, <1>10, <1>17, <1>18 DEF AskIsWanted
<1>20. LeaseIsRenewed'
  <2> SUFFICES ASSUME relay.stateful, active, Desired # Still
               PROVE  /\ latest = Nothing => LeaseAge' <= Renew - Lower(relay.due)
                      /\ LeaseAge' <= Renew + 1
    BY <1>1, <1>5, <1>10 DEF LeaseIsRenewed
  <2>1. LeaseAge # Nothing
    BY DEF MotorFollows, Sound, Desired, LeaseAge
  <2>2. LeaseAge \in 0 .. Lease /\ LeaseAge' \in 0 .. Lease /\ LeaseAge' <= LeaseAge + 1
    BY <1>2, <1>10, <2>1, RelayNumbers DEF Older
  <2>3. CASE latest = Nothing
    <3>1. relay.rumble = Desired /\ relay.rumble # Nothing
      BY <1>1, <1>2, <2>3, RelayNumbers DEF RelayedIsWanted
    <3>2. relay.due # 0 /\ LeaseAge <= Renew - relay.due
      BY <1>1, <2>3, <3>1 DEF LeaseIsRenewed
    <3> QED
      BY <1>2, <2>2, <3>2, RelayNumbers DEF Lower
  <2>4. CASE latest # Nothing
    BY <1>1, <2>2, <2>4, RelayNumbers DEF LeaseIsRenewed
  <2> QED
    BY <2>3, <2>4
<1>21. LeaseRunsOut'
  <2> SUFFICES ASSUME ~relay.stateful PROVE LeaseRunsOut'
    BY <1>5 DEF LeaseRunsOut
  <2>1. relay.rumble = Nothing /\ (WorkerHasIt => latest = Nothing)
    BY DEF LeaseRunsOut
  <2>2. WorkerHasIt' => latest' = Nothing
    BY <1>1, <1>17, <1>18, <2>1 DEF MotorFollows
  <2>3. ASSUME Desired # Still, now >= 2
        PROVE  LeaseAge' >= now - 2 /\ now <= Lease + 2
    <3>1. active
      BY <2>3 DEF MotorFollows
    <3>2. LeaseAge # Nothing
      BY <2>3 DEF MotorFollows, Sound, Desired, LeaseAge
    <3>3. game.since >= 2 => LeaseAge >= game.since - 2 /\ game.since < Lease + 2
      BY <1>1, <1>2, <2>3, <3>1, RelayNumbers DEF LeaseRunsOut
    <3>4. LeaseAge' = IF LeaseAge = Lease THEN Lease ELSE LeaseAge + 1
      BY <1>10, <3>2 DEF Older
    <3>5. CASE game.since >= 2
      BY <1>2, <3>2, <3>3, <3>4, <3>5, RelayNumbers DEF now
    <3>6. CASE game.since = 1
      BY <1>2, <3>2, <3>4, <3>6, RelayNumbers DEF now
    <3> QED
      BY <1>2, <1>11, <2>3, <3>5, <3>6
  <2> QED
    BY <1>1, <1>5, <1>10, <2>1, <2>2, <2>3 DEF LeaseRunsOut
<1> QED
  BY <1>13, <1>14, <1>15, <1>16, <1>19, <1>20, <1>21

LEMMA RelayInvHolds == RelaySpec => []RelayInv
<1>1. RelayInit => RelayInv
  BY RelayStarts
<1>2. RelayInv /\ [RelayNext]_relayVars => RelayInv'
  <2> SUFFICES ASSUME RelayInv, [RelayNext]_relayVars PROVE RelayInv'
    OBVIOUS
  <2>1. CASE UNCHANGED relayVars
    BY <2>1 DEF relayVars, RelayInv, RelayTyped, MotorFollows, AskIsKnown, RelayedIsWanted,
                LeaseIsRenewed, AskIsWanted, LeaseRunsOut, WorkerHasIt, Desired, LeaseAge,
                Sound, Plays
  <2>2. CASE RelayNext
    BY <2>2, GameAsksKeeps, SessionRunsKeeps, WorkerRunsKeeps, ActivateKeeps, DeactivateKeeps,
       RoundEndsKeeps DEF RelayNext
  <2> QED
    BY <2>1, <2>2
<1> QED
  BY <1>1, <1>2, PTL DEF RelaySpec

\* The controller follows a stateful output within three rounds and for as long
\* as it asks, and a leased output that falls silent stops the motor.
THEOREM RumbleReaches == RelaySpec => []RumbleReachesController
<1>1. RelayInv => RumbleReachesController
  <2> SUFFICES ASSUME RelayInv, ~rumble.haptics.degraded PROVE RumbleReachesController
    BY DEF RumbleReachesController, ControllerFollowsGame, SilenceStopsMotor
  <2>1. rumble.motor = Desired /\ game.since \in 0 .. Settled
    BY RelayTypes DEF RelayInv, MotorFollows, Plays, Desired
  <2>2. ControllerFollowsGame
    BY <2>1 DEF ControllerFollowsGame, RelayInv, AskIsWanted, WorkerHasIt
  <2>3. SilenceStopsMotor
    BY <2>1, RelayNumbers DEF SilenceStopsMotor, RelayInv, LeaseRunsOut
  <2> QED
    BY <2>2, <2>3 DEF RumbleReachesController
<1> QED
  BY <1>1, RelayInvHolds, PTL
=============================================================================
