----------------------------- MODULE HidWorker -----------------------------
(***************************************************************************)
(* The thread that owns the controller (HidWorker of supervisor/controller *)
(* /hid_worker.rs) with the HID session it polls (HidSession and           *)
(* ControllerSession of crates/controller/steam-controller-device), and    *)
(* the loop of run_active that consumes it.  The worker goes through its   *)
(* loop in four stages: the control channel with the power-off burst, the  *)
(* feedback, the poll, and the hand-over of a lifecycle event, which spins *)
(* while the channel is full.  The consumer waits for a power-off no       *)
(* longer than COMMAND_TIMEOUT, and for the thread's end as long as it     *)
(* takes.                                                                  *)
(***************************************************************************)
EXTENDS Haptics, Sequences

CONSTANTS
  EventCapacity,   \* capacity of the event channel
  MailboxCapacity, \* INPUT_MAILBOX_CAPACITY
  Burst,           \* POWER_OFF_BURST_WRITES
  MaxControls      \* bound: power-off requests not yet taken

VARIABLES
  device,    \* the HID session and the controller behind it; ghost: the
             \* connection was lost and no zero written since
  worker,    \* where the loop is, the event it hands over, why it gave up
  haptics, lizard,
  power,     \* the power-off sequence, or Nothing
  events,    \* lifecycle events on their way to the consumer
  controls,  \* power-off requests: are they still waited for?
  slot,      \* LatestRumbleSlot
  input,     \* reports (announced, unless there are none), and whether they
             \* overflowed
  user       \* the consumer: what it waits for, and the stop flag

shared == <<events, controls, slot, input>>
feedback == <<haptics, lizard>>
workerVars == <<device, worker, feedback, power, shared, user>>

Reaches == device.session # "disconnected" /\ device.present

NoReports == [reports |-> 0, overflowed |-> FALSE]

\* Lizard mode is suppressed before the thread starts; its first act is a zero.
WorkerInit ==
  /\ device = [session |-> "pending", present |-> TRUE, motor |-> Still,
                lost |-> FALSE]
  /\ worker = [at |-> "control", event |-> Nothing, accepting |-> TRUE, failed |-> FALSE]
  /\ haptics \in {o.haptics : o \in haptics_connected(NewHaptics, Still, TRUE)}
  /\ lizard = [connected |-> TRUE, refreshed |-> 0, active |-> TRUE]
  /\ power = Nothing
  /\ events = << >> /\ controls = << >> /\ slot = Nothing
  /\ input = NoReports
  /\ user = [at |-> "running", stop |-> FALSE]

Goes(at) == worker' = [worker EXCEPT !.at = at]

Feels(o) == haptics' = o.haptics /\ device' = [device EXCEPT !.motor = o.motor]

\* The worker gives up and waits for the stop flag.
Fails == worker' = [worker EXCEPT !.at = "failed", !.event = Nothing, !.failed = TRUE]

-----------------------------------------------------------------------------
(* Control channel and power-off burst.                                    *)

NewPower(awaited) == [awaited |-> awaited, attempts |-> 0, success |-> FALSE,
                      wait |-> FALSE, gone |-> FALSE]

ControlStep ==
  /\ worker.at = "control" /\ ~user.stop
  /\ IF power = Nothing /\ controls # << >>
     THEN /\ power' = NewPower(Head(controls)) /\ controls' = Tail(controls)
          /\ worker' = [worker EXCEPT !.at = "power", !.accepting = FALSE]
          /\ input' = NoReports /\ slot' = Nothing
          /\ \E o \in haptics_shutdown(haptics, device.motor, Reaches) : Feels(o)
          /\ lizard' = NewLizard
     ELSE /\ Goes("power")
          /\ UNCHANGED <<device, feedback, power, controls, slot, input>>
  /\ UNCHANGED <<events, user>>

AnswerPowerOff(result) ==
  user' = IF power.awaited THEN [user EXCEPT !.at = result] ELSE user

\* Fault: input resumes before lizard mode is suppressed again.
ResumeInput_without_suppression ==
  /\ \E o \in haptics_connected(haptics, device.motor, Reaches) :
       haptics' = o.haptics /\ device' = [device EXCEPT !.motor = o.motor, !.lost = FALSE]
  /\ worker' = [worker EXCEPT !.at = "service", !.accepting = TRUE]
  /\ UNCHANGED <<lizard, input>>

\* The burst failed: input, feedback and suppression resume.
ResumeInput ==
  /\ \E o \in haptics_connected(haptics, device.motor, Reaches) :
       haptics' = o.haptics /\ device' = [device EXCEPT !.motor = o.motor, !.lost = FALSE]
  /\ \E l \in lizard_connected(Reaches) :
       /\ lizard' = l
       /\ IF l.active
          THEN /\ worker' = [worker EXCEPT !.at = "service", !.accepting = TRUE]
               /\ UNCHANGED input
          ELSE /\ worker' = [worker EXCEPT !.at = "failed", !.accepting = TRUE, !.failed = TRUE]
               /\ input' = NoReports

NoPowerDue ==
  /\ power = Nothing
  /\ Goes("service") /\ UNCHANGED <<device, feedback, power, input, user>>

\* The next write of the burst, unless its interval has not passed yet or the
\* controller was seen to go away after a write it took.
PowerDue ==
  /\ power # Nothing
  /\ \/ /\ power.gone
        /\ AnswerPowerOff("off") /\ power' = Nothing /\ Goes("service")
        /\ UNCHANGED <<device, feedback, input>>
     \/ /\ ~power.gone /\ power.wait
        /\ Goes("service") /\ UNCHANGED <<device, feedback, power, input, user>>
     \/ /\ ~power.gone /\ ~power.wait
        /\ \E ok \in {FALSE, Reaches} :
             LET attempts == power.attempts + 1
                 success == power.success \/ ok
             IN IF attempts < Burst
                THEN /\ power' = [power EXCEPT !.attempts = attempts, !.success = success,
                                               !.wait = TRUE]
                     /\ Goes("service") /\ UNCHANGED <<device, feedback, input, user>>
                ELSE /\ power' = Nothing
                     /\ IF success
                        THEN /\ AnswerPowerOff("off") /\ Goes("service")
                             /\ UNCHANGED <<device, feedback, input>>
                        ELSE AnswerPowerOff("refused") /\ ResumeInput

PowerStep ==
  /\ worker.at = "power"
  /\ NoPowerDue \/ PowerDue
  /\ UNCHANGED <<events, controls, slot>>

-----------------------------------------------------------------------------
(* Feedback.                                                               *)

ServiceStep ==
  /\ worker.at = "service"
  /\ \/ /\ ~worker.accepting
        /\ Goes("poll") /\ UNCHANGED <<device, feedback, slot, input>>
     \/ /\ worker.accepting
        /\ \E l \in lizard_service(lizard, Reaches) :
             /\ lizard' = l
             /\ IF refresh_due(lizard) /\ ~l.active
                THEN /\ Fails /\ input' = NoReports
                     /\ UNCHANGED <<device, haptics, slot>>
                ELSE /\ Goes("poll")
                     /\ \E o \in IF slot = Nothing THEN {Told(haptics, device.motor)}
                                ELSE command(haptics, device.motor, slot, Reaches) :
                          \E p \in haptics_service(o.haptics, o.motor, Reaches) : Feels(p)
                     /\ slot' = Nothing
                     /\ UNCHANGED input
  /\ UNCHANGED <<power, events, controls, user>>

-----------------------------------------------------------------------------
(* Poll.                                                                   *)

Sends(event) == worker' = [worker EXCEPT !.at = "send", !.event = event]

\* Everything about a controller that went away.
Forgets ==
  /\ haptics' = haptics_disconnected(haptics) /\ lizard' = NewLizard
  /\ slot' = Nothing /\ input' = NoReports

PollNothing ==
  /\ worker.at = "poll" /\ device.session # "pending"
  /\ Goes("control")
  /\ UNCHANGED <<device, feedback, power, shared, user>>

PollConnected ==
  /\ worker.at = "poll"
  /\ device.session = "pending" \/ (device.session = "disconnected" /\ device.present)
  /\ IF ~worker.accepting
     THEN /\ device' = [device EXCEPT !.session = "connected"]
          /\ Goes("control") /\ UNCHANGED <<feedback, shared>>
     ELSE \E l \in lizard_connected(device.present) :
          /\ lizard' = l
          /\ IF ~l.active
             THEN /\ device' = [device EXCEPT !.session = "connected"]
                  /\ Fails /\ input' = NoReports
                  /\ UNCHANGED <<haptics, slot>>
             ELSE /\ \E o \in haptics_connected(haptics, device.motor, device.present) :
                       /\ haptics' = o.haptics
                       /\ device' = [device EXCEPT !.session = "connected", !.motor = o.motor,
                                                   !.lost = FALSE]
                  /\ Sends("connected") /\ UNCHANGED <<slot, input>>
          /\ UNCHANGED <<events, controls>>
  /\ UNCHANGED <<power, user>>

\* A read failed: the handle is closed, whatever became of the controller.
PollDisconnected ==
  /\ worker.at = "poll" /\ device.session = "connected"
  /\ device' = [device EXCEPT !.session = "disconnected", !.lost = TRUE]
  /\ IF power # Nothing \/ ~worker.accepting
     THEN /\ power' = IF power = Nothing THEN power
                      ELSE [power EXCEPT !.gone = @ \/ power.success]
          /\ Goes("control") /\ UNCHANGED <<feedback, shared>>
     ELSE Forgets /\ Sends("disconnected") /\ UNCHANGED <<power, events, controls>>
  /\ UNCHANGED user

\* Input goes through the mailbox, one notice for all of it; a notice that
\* finds the channel full is not sent.
PollInput ==
  /\ worker.at = "poll" /\ device.session = "connected" /\ device.present
  /\ IF ~worker.accepting THEN UNCHANGED <<events, input>>
     ELSE /\ \/ /\ input.reports < MailboxCapacity
                /\ input' = [input EXCEPT !.reports = @ + 1]
             \/ /\ input.reports >= 2
                /\ UNCHANGED input
             \/ /\ input.reports = MailboxCapacity
                /\ input' = [reports |-> 1, overflowed |-> TRUE]
          /\ events' = IF input.reports > 0 \/ Len(events) = EventCapacity THEN events
                       ELSE Append(events, "ready")
  /\ Goes("control")
  /\ UNCHANGED <<device, feedback, power, controls, slot, user>>

PollStatus ==
  /\ worker.at = "poll" /\ device.session = "connected" /\ device.present
  /\ IF worker.accepting THEN Sends("status") ELSE Goes("control")
  /\ UNCHANGED <<device, feedback, power, shared, user>>

\* Only a reconnection can fail for good: HIDAPI could not be set up again.
PollError ==
  /\ worker.at = "poll" /\ device.session = "disconnected"
  /\ Forgets /\ Fails
  /\ UNCHANGED <<device, power, events, controls, user>>

\* Fault: the hand-over spins without looking at the stop flag.
SendStep_ignores_stop ==
  /\ worker.at = "send"
  /\ Len(events) < EventCapacity
  /\ events' = Append(events, worker.event)
  /\ worker' = [worker EXCEPT !.at = "control", !.event = Nothing]
  /\ UNCHANGED <<device, feedback, power, controls, slot, input, user>>

SendStep ==
  /\ worker.at = "send"
  /\ \/ /\ Len(events) < EventCapacity
        /\ events' = Append(events, worker.event)
        /\ worker' = [worker EXCEPT !.at = "control", !.event = Nothing]
     \/ /\ Len(events) = EventCapacity /\ user.stop
        /\ worker' = [worker EXCEPT !.at = "failed", !.event = Nothing]
        /\ UNCHANGED events
  /\ UNCHANGED <<device, feedback, power, controls, slot, input, user>>

\* Fault: a worker that failed leaves the motor alone.
Finish_skips_failed ==
  /\ worker.at \in {"control", "failed"} /\ user.stop
  /\ IF worker.failed THEN UNCHANGED <<device, haptics>>
     ELSE \E o \in haptics_shutdown(haptics, device.motor, Reaches) : Feels(o)
  /\ Goes("done") /\ lizard' = NewLizard
  /\ slot' = Nothing /\ input' = NoReports
  /\ UNCHANGED <<power, events, controls, user>>

Finish ==
  /\ worker.at \in {"control", "failed"} /\ user.stop
  /\ \E o \in haptics_shutdown(haptics, device.motor, Reaches) : Feels(o)
  /\ Goes("done") /\ lizard' = NewLizard
  /\ slot' = Nothing /\ input' = NoReports
  /\ UNCHANGED <<power, events, controls, user>>

-----------------------------------------------------------------------------
(* The consumer.                                                           *)

Running == user.at \in {"running", "refused"}

Stops == user' = [at |-> "joining", stop |-> TRUE]

TakeEvent ==
  /\ Running /\ events # << >>
  /\ events' = Tail(events)
  /\ IF Head(events) = "disconnected" THEN Stops ELSE UNCHANGED user
  /\ UNCHANGED <<device, worker, feedback, power, controls, slot, input>>

TakeReports ==
  /\ Running /\ input # NoReports
  /\ input' = NoReports
  /\ UNCHANGED <<device, worker, feedback, power, events, controls, slot, user>>

SetRumble(c) ==
  /\ Running /\ slot' = c
  /\ UNCHANGED <<device, worker, feedback, power, events, controls, input, user>>

PowerOff ==
  /\ Running /\ Len(controls) < MaxControls
  /\ controls' = Append(controls, TRUE)
  /\ user' = [user EXCEPT !.at = "powering"]
  /\ UNCHANGED <<device, worker, feedback, power, events, slot, input>>

\* COMMAND_TIMEOUT is far longer than a burst: it runs out on a worker that is
\* held up by a full channel or has given up.  The request stays queued.
HeldUp == worker.at = "failed" \/ (worker.at = "send" /\ Len(events) = EventCapacity)

PowerOffTimesOut ==
  /\ user.at = "powering" /\ HeldUp
  /\ user' = [user EXCEPT !.at = "refused"]
  /\ controls' = [i \in DOMAIN controls |-> FALSE]
  /\ power' = IF power = Nothing THEN power ELSE [power EXCEPT !.awaited = FALSE]
  /\ UNCHANGED <<device, worker, feedback, events, slot, input>>

\* Stop, another exit, a controller that is off, or a failure found.
Shutdown ==
  /\ Running \/ user.at = "off"
  /\ Stops
  /\ UNCHANGED <<device, worker, feedback, power, shared>>

Join ==
  /\ user.at = "joining" /\ worker.at = "done"
  /\ user' = [user EXCEPT !.at = "joined"]
  /\ UNCHANGED <<device, worker, feedback, power, shared>>

-----------------------------------------------------------------------------
(* The world: the controller comes and goes, and time passes.              *)

Leave ==
  /\ device.present
  /\ device' = [device EXCEPT !.present = FALSE, !.motor = Still]
  /\ UNCHANGED <<worker, feedback, power, shared, user>>

Return ==
  /\ ~device.present
  /\ device' = [device EXCEPT !.present = TRUE]
  /\ UNCHANGED <<worker, feedback, power, shared, user>>

\* The worker spends its time waiting: for a report, for room in the channel
\* or for the stop flag.
Tick ==
  /\ worker.at \in {"poll", "send", "failed"}
  /\ haptics' = AgeHaptics(haptics)
  /\ lizard' = AgeLizard(lizard)
  /\ power' = IF power = Nothing THEN power ELSE [power EXCEPT !.wait = FALSE]
  /\ UNCHANGED <<device, worker, shared, user>>

WorkerStep ==
  \/ ControlStep
  \/ PowerStep
  \/ ServiceStep
  \/ PollNothing
  \/ PollConnected
  \/ PollDisconnected
  \/ PollInput
  \/ PollStatus
  \/ PollError
  \/ SendStep
  \/ Finish

Consumer ==
  \/ TakeEvent
  \/ TakeReports
  \/ \E c \in Commands : SetRumble(c)
  \/ PowerOff
  \/ PowerOffTimesOut
  \/ Shutdown
  \/ Join

WorkerNext == WorkerStep \/ Consumer \/ Leave \/ Return \/ Tick

WorkerSpec == WorkerInit /\ [][WorkerNext]_workerVars

\* Each thread runs, and a worker that waits again and again spends time.
WorkerFairSpec ==
  /\ WorkerSpec
  /\ WF_workerVars(WorkerStep) /\ SF_workerVars(Tick)
  /\ WF_workerVars(PowerOffTimesOut) /\ WF_workerVars(Join)

-----------------------------------------------------------------------------
\* A motor that runs plays the command held, or the zero that should have
\* stopped it failed and the status says so, also after the worker's end,
\* however it came to it.  Only a connection that was lost and not taken up
\* again leaves the motor to the controller.
MotorIsAccountedFor ==
  device.motor # Still =>
    \/ haptics.desired = device.motor /\ haptics.lease # Nothing
    \/ haptics.degraded
    \/ device.lost

\* A lease that ran out is noticed on the worker's next round: whatever the
\* retry and the refresh are about, the feedback stage does not leave a motor
\* running on it, unless the zero fails.
LapsedLeaseStops ==
  worker.at = "service" /\ worker'.at = "poll" /\ worker.accepting
    /\ Lapsed(haptics) /\ slot = Nothing
    => device'.motor = Still \/ haptics'.degraded

\* A motor runs under a lease, and not for longer than it lasts.
MotorIsLeased == [][MotorIsAccountedFor' /\ LapsedLeaseStops]_workerVars

\* Input is taken from the controller only while it is told not to act as a
\* mouse and keyboard as well.
InputIsSuppressed ==
  [][input'.reports > input.reports => lizard.active]_workerVars

\* The two threads never wait for each other for ever: the worker may spin on
\* a channel that is full because its consumer waits for a power-off, and it
\* ends when told to although nobody empties the channel any more.
NoMutualWait ==
  /\ user.at = "powering" ~> user.at # "powering"
  /\ user.at = "joining" ~> user.at = "joined"

\* As active_session.rs:362 has it, the game goes on after a power-off that
\* failed: the burst starts only while the caller waits for it.
GameplayContinues ==
  [][power = Nothing /\ power' # Nothing => user.at = "powering"]_workerVars
=============================================================================
