-------------------------- MODULE HostConnection --------------------------
(***************************************************************************)
(* The host's side of the bridge link: BridgeConnection, one handshaken    *)
(* serial session, and BridgeOutput, the gamepad output that owns it,      *)
(* reopens it when it fails and runs the blocking control requests         *)
(* (crates/bridge/bridge-output/src/bridge_transport.rs).                  *)
(*                                                                         *)
(* Every call of BridgeOutput is an action; the device is the environment: *)
(* a call reads a batch of its messages and may find that the port fails   *)
(* to open, to read, or to take one of the frames the call writes.         *)
(* BridgeOutput takes &mut self, so calls do not overlap; a blocking       *)
(* request is one action per iteration of its wait loop.  A timestamp is   *)
(* the time since it was taken, saturated at the limit it is compared with.*)
(***************************************************************************)
EXTENDS Integers, Sequences

CONSTANTS
  States,         \* gamepad states the engine may ask for
  Neutral,        \* GamepadState::neutral()
  NoState,        \* an empty state slot
  Rumbles,        \* rumble intensities the device may ask for
  RequestIds,     \* ids of control requests
  Receipts,       \* install receipts
  None,           \* any other empty slot
  QueueCapacity,  \* queue_capacity
  SeqModulus,     \* 2^16: frame sequence numbers wrap
  BatchLimit,     \* bound: messages one poll reads
  ServiceTicks,   \* TRANSPORT_SERVICE_MIN_INTERVAL
  RefreshTicks,   \* state_refresh_interval
  PingTicks,      \* ping_interval
  PongTicks,      \* pong_timeout
  GraceTicks      \* FIRMWARE_REPORT_GRACE

ASSUME StateAssumption == Neutral \in States /\ NoState \notin States
ASSUME SlotAssumption ==
  /\ None \notin RequestIds /\ None \notin Rumbles
  /\ None \notin [id : RequestIds, receipt : Receipts]
  /\ None \notin [kind : {"Observed"}, id : RequestIds, receipt : Receipts]
ASSUME LimitAssumption ==
  /\ QueueCapacity \in Nat \ {0} /\ SeqModulus \in Nat \ {0}
  /\ BatchLimit \in Nat \ {0}
  /\ ServiceTicks \in Nat /\ RefreshTicks \in Nat \ {0}
  /\ PingTicks \in Nat \ {0} /\ PongTicks \in Nat \ {0}
  /\ GraceTicks \in Nat \ {0}
  /\ None \notin [nonce : 0 .. SeqModulus - 1, age : 0 .. PongTicks]

VARIABLES
  connection,            \* Option<BridgeConnection>
  desired_state,         \* desired_state, NoState for none
  last_poll,             \* last_poll, Off for none
  bootloader_transition, \* bootloader_transition
  call,                  \* the blocking call in progress, Idle for none
  observed,              \* the receipt request the supervisor polls for
  outcome,               \* what the last call returned of a control request
  dropped,               \* the BridgeOutput was dropped
  wire,                  \* the frames the last call wrote
  asked,                 \* ghost: the state the engine asked for last
  device,                \* ghost: the state this session told the device
  heard,                 \* ghost: answers read since the last request
  alive                  \* ghost: the last call read a Hello or a Pong it awaited

output == <<connection, desired_state, last_poll, bootloader_transition>>
requests == <<call, observed>>
ghosts == <<asked, device, heard>>
returned == <<outcome, wire, alive>>
vars == <<output, requests, dropped, ghosts, returned>>

Off == -1
Closed == [status |-> "Disconnected"]
Idle == [kind |-> "Idle"]

-----------------------------------------------------------------------------
(* Messages.                                                               *)

Hello == [type |-> "Hello"]
GamepadState(s) == [type |-> "GamepadState", state |-> s]
NeutralNow == [type |-> "Neutral"]
Ping(nonce) == [type |-> "Ping", nonce |-> nonce]
Pong == [type |-> "Pong"]
EnterUf2Bootloader(id) == [type |-> "EnterUf2Bootloader", id |-> id]
RecordInstallReceipt(id, r) ==
  [type |-> "RecordInstallReceipt", id |-> id, receipt |-> r]

\* Answers carry the id the device was asked with; Error is any rejection.
Answers ==
  [type : {"Uf2BootloaderReady", "Error"}, id : RequestIds]
    \cup [type : {"InstallReceiptRecorded"}, id : RequestIds, receipt : Receipts]
Unsolicited ==
  [type : {"HelloResponse", "VersionRejected", "Ping", "Noise"}]
    \cup [type : {"DeviceInfo"}, capable : BOOLEAN]
    \cup [type : {"Pong"}, nonce : 0 .. SeqModulus - 1]
    \cup [type : {"Rumble"}, rumble : Rumbles]
DeviceMessages == Answers \cup Unsolicited

-----------------------------------------------------------------------------
(* A session: a connection while a call works on it, with last_poll, the   *)
(* frames the call has written, what they told the device to hold, the      *)
(* writes the port will still take in this step of the call, the answers    *)
(* read, and whether the call has failed.                                   *)

NewConnection(elapsed) ==
  [status |-> "Handshaking", sequence |-> 0, queued |-> << >>,
   since_ping |-> elapsed, pending_ping |-> None,
   last_state |-> NoState, since_state |-> Off, pending_feedback |-> None,
   firmware |-> "Pending", since_ready |-> Off,
   uf2_bootloader_ready |-> None, install_receipt_recorded |-> None,
   control_error |-> None]

Session(c, polled) ==
  [c |-> c, last_poll |-> polled, wire |-> << >>, told |-> NoState, writes |-> 0,
   heard |-> {}, alive |-> FALSE, failed |-> FALSE]
Fail(s) == [s EXCEPT !.failed = TRUE]
Close(s) == [s EXCEPT !.c = Closed, !.heard = {}]  \* its answers are lost

\* What the device holds after a message: a Hello makes it neutral.
Tells(m, told) ==
  CASE m.type \in {"Hello", "Neutral"} -> Neutral
    [] m.type = "GamepadState" -> m.state
    [] OTHER -> told

\* write_message: the sequence number advances only when the port took the frame.
write_message(s, m) ==
  IF s.failed THEN s
  ELSE IF s.writes = 0 THEN Fail(s)
  ELSE [s EXCEPT !.wire = Append(@, [sequence |-> s.c.sequence, message |-> m]),
                 !.told = Tells(m, @),
                 !.writes = @ - 1,
                 !.c.sequence = (@ + 1) % SeqModulus]

queue_state(c, state) ==
  LET kept == IF Len(c.queued) = QueueCapacity THEN Tail(c.queued) ELSE c.queued
  IN  [c EXCEPT !.queued = Append(kept, state)]

WhenReady(s, c) == IF s.c.status = "Ready" THEN [s EXCEPT !.c = c] ELSE s

handle_message(before, m) ==
  LET s == [before EXCEPT !.heard = @ \cup ({m} \cap Answers)]
  IN  IF s.failed THEN s
      ELSE CASE m.type = "HelloResponse" ->
                  [s EXCEPT !.c.status = "Ready", !.c.since_ready = 0,
                            !.alive = TRUE]
             [] m.type = "VersionRejected" -> Fail(s)
             [] m.type = "Ping" -> write_message(s, Pong)
             [] m.type = "Pong" ->
                  IF s.c.pending_ping # None /\ s.c.pending_ping.nonce = m.nonce
                  THEN [s EXCEPT !.c.pending_ping = None, !.alive = TRUE] ELSE s
             [] m.type = "DeviceInfo" ->
                  [s EXCEPT !.c.firmware =
                     IF m.capable THEN "Capable" ELSE "Reported"]
             [] m.type = "Uf2BootloaderReady" ->
                  WhenReady(s, [s.c EXCEPT !.uf2_bootloader_ready = m.id])
             [] m.type = "InstallReceiptRecorded" ->
                  WhenReady(s, [s.c EXCEPT !.install_receipt_recorded =
                                  [id |-> m.id, receipt |-> m.receipt]])
             [] m.type = "Error" ->
                  WhenReady(s, [s.c EXCEPT !.control_error = m.id])
             [] m.type = "Rumble" ->
                  WhenReady(s, [s.c EXCEPT !.pending_feedback = m.rumble])
             [] m.type = "Noise" -> s

\* The grace period of a device that reports no firmware version.
report_grace(s) ==
  IF /\ ~s.failed /\ s.c.status = "Ready" /\ s.c.firmware = "Pending"
     /\ s.c.since_ready = GraceTicks
  THEN [s EXCEPT !.c.firmware = "Unreported"] ELSE s

check_pong(s) ==
  IF ~s.failed /\ s.c.pending_ping # None /\ s.c.pending_ping.age = PongTicks
  THEN Fail(s) ELSE s

\* Fault: a ping is sent on schedule although the last one is unanswered.
send_ping_rearms(s) ==
  IF ~s.failed /\ s.c.status = "Ready" /\ s.c.since_ping = PingTicks
  THEN LET p == write_message(s, Ping(s.c.sequence))
       IN  IF p.failed THEN p
           ELSE [p EXCEPT !.c.pending_ping = [nonce |-> s.c.sequence, age |-> 0],
                          !.c.since_ping = 0]
  ELSE s

send_ping(s) ==
  IF /\ ~s.failed /\ s.c.status = "Ready" /\ s.c.pending_ping = None
     /\ s.c.since_ping = PingTicks
  THEN LET p == write_message(s, Ping(s.c.sequence))
       IN  IF p.failed THEN p
           ELSE [p EXCEPT !.c.pending_ping = [nonce |-> s.c.sequence, age |-> 0],
                          !.c.since_ping = 0]
  ELSE s

\* flush_states: only the newest of the queued states is sent.
flush_states(s) ==
  IF s.failed \/ s.c.status # "Ready" \/ s.c.queued = << >> THEN s
  ELSE LET state == s.c.queued[Len(s.c.queued)]
           p == write_message([s EXCEPT !.c.queued = << >>], GamepadState(state))
       IN  IF p.failed THEN p
           ELSE IF state = Neutral
                THEN [p EXCEPT !.c.last_state = NoState, !.c.since_state = Off]
                ELSE [p EXCEPT !.c.last_state = state, !.c.since_state = 0]

refresh_state(s) ==
  IF /\ ~s.failed /\ s.c.status = "Ready" /\ s.c.queued = << >>
     /\ s.c.since_state = RefreshTicks
  THEN LET p == write_message(s, GamepadState(s.c.last_state))
       IN  IF p.failed THEN p ELSE [p EXCEPT !.c.since_state = 0]
  ELSE s

\* What any batch of at most BatchLimit messages can make of s.
Handled(s) ==
  LET handled[n \in 0 .. BatchLimit] ==
        IF n = 0 THEN {s}
        ELSE handled[n - 1]
               \cup {handle_message(t, m) : t \in handled[n - 1], m \in DeviceMessages}
  IN  handled[BatchLimit]

\* BridgeConnection::poll after a successful read.
poll_connection(s) ==
  {refresh_state(flush_states(send_ping(check_pong(report_grace(t))))) : t \in Handled(s)}

\* send_neutral_now forgets the queue and the refresh before it writes.
send_neutral_now(s) ==
  IF s.c.status # "Ready" THEN Fail(s)
  ELSE write_message([s EXCEPT !.c.queued = << >>, !.c.last_state = NoState,
                               !.c.since_state = Off], NeutralNow)

\* Fault: an answer that is still waiting is left for the new request.
send_request_keeps_answers(s, m) == write_message(s, m)

\* request_uf2_bootloader, record_install_receipt: answers to an earlier
\* request are forgotten before the new one is written.
send_request(s, m) ==
  LET c == IF m.type = "EnterUf2Bootloader"
           THEN [s.c EXCEPT !.uf2_bootloader_ready = None, !.control_error = None]
           ELSE [s.c EXCEPT !.install_receipt_recorded = None,
                            !.control_error = None]
  IN  write_message([s EXCEPT !.c = c], m)

-----------------------------------------------------------------------------
(* What one attempt of a call can come to, over all devices and ports.     *)

\* The port takes any number of the frames of a step, at most one for each
\* message read and two more.
Ports(s) == {[s EXCEPT !.writes = w] : w \in 0 .. BatchLimit + 2}
Rest(outcomes) == {[t EXCEPT !.writes = 0] : t \in outcomes}

\* BridgeConnection::poll; the read itself may fail.  poll_existing.
Polled(s) ==
  IF s.failed THEN {s}
  ELSE LET now == [s EXCEPT !.last_poll = 0]
       IN  {Fail(now)} \cup Rest(UNION {poll_connection(t) : t \in Ports(now)})

\* Fault: a new session is not told the desired state.
Handshake_forgets_desired(shaken, desired) ==
  IF shaken.failed \/ shaken.c.status # "Ready" THEN Close(Fail(shaken))
  ELSE [shaken EXCEPT !.last_poll = 0]

\* BridgeOutput::connect on a port that opens, after the polls of the
\* handshake, which are taken as one.
Handshake(shaken, desired) ==
  IF shaken.failed \/ shaken.c.status # "Ready" THEN Close(Fail(shaken))
  ELSE IF desired = NoState THEN [shaken EXCEPT !.last_poll = 0]
  ELSE [shaken EXCEPT !.c = queue_state(@, desired), !.last_poll = 0]

\* The sessions on their way through the handshake.
Shaken ==
  UNION {poll_connection(write_message(t, Hello)) :
           t \in UNION {Ports(Session(NewConnection(elapsed), Off)) : elapsed \in {0, PingTicks}}}

\* What connect leaves behind, for each state that may be desired.
Connected ==
  [desired \in States \cup {NoState} |-> Rest({Handshake(shaken, desired) : shaken \in Shaken})]

\* BridgeOutput::poll without a connection: connect, then poll; a failed poll
\* disconnects.
Reopened ==
  [desired \in States \cup {NoState} |->
     {IF t.failed THEN Close(t) ELSE t :
        t \in UNION {Polled(s) : s \in Connected[desired]}}]

\* BridgeOutput::poll.  A port that does not open leaves last_poll alone.
Attempts(s, desired) ==
  IF s.c = Closed
  THEN {Fail(s)} \cup {[t EXCEPT !.wire = s.wire \o @, !.heard = s.heard \cup @,
                                 !.told = IF @ = NoState THEN s.told ELSE @] :
                         t \in Reopened[desired]}
  ELSE {IF t.failed THEN Close(t) ELSE t : t \in Polled(s)}

\* send_state and service try twice.
TwoAttempts(first, desired) ==
  {s \in first : ~s.failed}
    \cup UNION {Attempts([s EXCEPT !.failed = FALSE], desired) :
                  s \in {t \in first : t.failed}}

-----------------------------------------------------------------------------
(* The calls.                                                              *)

Expected(request) ==
  IF request.kind = "Uf2" THEN [type |-> "Uf2BootloaderReady", id |-> request.id]
  ELSE [type |-> "InstallReceiptRecorded", id |-> request.id,
        receipt |-> request.receipt]
\* The answers that would let a request in progress succeed.
Awaited ==
  {Expected(r) : r \in ({call} \ {Idle, [kind |-> "Info"]}) \cup ({observed} \ {None})}

\* Leaves the session s behind as the state of the output.
Leave(s) ==
  /\ connection' = s.c
  /\ last_poll' = s.last_poll
  /\ wire' = s.wire
  /\ alive' = s.alive
  /\ device' = (IF s.told = NoState THEN device ELSE s.told)
Keep(s) == Leave(s) /\ heard' = (heard \cup s.heard) \cap Awaited

\* A call that does not touch the port.
Quiet == outcome' = None /\ wire' = << >> /\ alive' = FALSE

Usable == ~dropped /\ call = Idle

Init ==
  /\ connection = Closed /\ desired_state = NoState /\ last_poll = Off
  /\ bootloader_transition = FALSE
  /\ call = Idle /\ observed = None /\ outcome = None
  /\ dropped = TRUE /\ wire = << >>
  /\ asked = NoState /\ device = Neutral /\ heard = {} /\ alive = FALSE

\* open_with_factory: a new BridgeOutput, if its first connect succeeds.
Open ==
  /\ dropped
  /\ \E s \in Connected[NoState] \cup {Fail(Session(Closed, Off))} :
       dropped' = s.failed /\ Keep(s)
  /\ asked' = NoState
  /\ desired_state' = NoState /\ bootloader_transition' = FALSE
  /\ observed' = None /\ outcome' = None
  /\ UNCHANGED call

SendState(state) ==
  /\ Usable
  /\ asked' = state
  /\ desired_state' = state
  /\ LET c == IF connection = Closed THEN Closed
              ELSE queue_state(connection, state)
     IN  \E s \in TwoAttempts(Attempts(Session(c, last_poll), state), state) : Keep(s)
  /\ outcome' = None
  /\ UNCHANGED <<bootloader_transition, requests, dropped>>

ServiceDue == last_poll \in {Off, ServiceTicks}
Service ==
  /\ Usable /\ ServiceDue
  /\ \E s \in TwoAttempts(Attempts(Session(connection, last_poll), desired_state),
                          desired_state) : Keep(s)
  /\ outcome' = None
  /\ UNCHANGED <<desired_state, bootloader_transition, requests, dropped, asked>>

\* Without a connection, or when the write fails, the neutral stays desired.
SendNeutral ==
  /\ Usable
  /\ asked' = Neutral
  /\ \E s \in IF connection = Closed THEN {Fail(Session(Closed, last_poll))}
              ELSE {send_neutral_now(t) : t \in Ports(Session(connection, last_poll))} :
       /\ Keep(s)
       /\ desired_state' = IF s.failed THEN Neutral ELSE NoState
  /\ outcome' = None
  /\ UNCHANGED <<bootloader_transition, requests, dropped>>

TakeFeedback ==
  /\ Usable /\ connection # Closed
  /\ connection' = [connection EXCEPT !.pending_feedback = None]
  /\ Quiet
  /\ UNCHANGED <<desired_state, last_poll, bootloader_transition, requests,
                 dropped, ghosts>>

\* Drop for BridgeOutput: a last neutral, unless the device has left for its
\* bootloader or nothing was asked of it.
Drop ==
  /\ Usable
  /\ dropped' = TRUE
  /\ \E s \in IF \/ bootloader_transition \/ desired_state = NoState
                 \/ connection = Closed
              THEN {Session(connection, last_poll)}
              ELSE {send_neutral_now(t) : t \in Ports(Session(connection, last_poll))} :
         Keep(Close(s))
  /\ outcome' = None
  /\ UNCHANGED <<desired_state, bootloader_transition, requests, asked>>

-----------------------------------------------------------------------------
(* Control requests.                                                       *)

AnswerType(m) == IF m.type = "EnterUf2Bootloader" THEN "Uf2BootloaderReady"
                 ELSE "InstallReceiptRecorded"

\* require_capability, then the request; started is what a write begins.
Request(m, started) ==
  /\ Usable /\ connection # Closed
  /\ connection.status = "Ready" /\ connection.firmware = "Capable"
  /\ \E s \in {send_request(t, m) : t \in Ports(Session(connection, last_poll))} :
       /\ Leave(s)
       /\ IF s.failed THEN UNCHANGED <<call, observed>> ELSE started
  /\ outcome' = None
  /\ heard' = {a \in heard : a.type # AnswerType(m)}
  /\ UNCHANGED <<desired_state, bootloader_transition, dropped, asked>>

RequestUf2Bootloader(id) ==
  Request(EnterUf2Bootloader(id),
          call' = [kind |-> "Uf2", id |-> id] /\ UNCHANGED observed)
RecordInstallReceiptAndWait(id, r) ==
  Request(RecordInstallReceipt(id, r),
          /\ call' = [kind |-> "Receipt", id |-> id, receipt |-> r]
          /\ UNCHANGED observed)
RequestFirmwareInstallReceipt(id, r) ==
  Request(RecordInstallReceipt(id, r),
          observed' = [kind |-> "Observed", id |-> id, receipt |-> r] /\ UNCHANGED call)
WaitForFirmwareInfo ==
  /\ Usable /\ connection # Closed
  /\ call' = [kind |-> "Info"]
  /\ Quiet
  /\ UNCHANGED <<output, observed, dropped, ghosts>>

Rejected(id, expected) == IF id = expected THEN "Rejected" ELSE "RequestMismatch"

\* The answer a waiting call takes from the connection: what it comes to, and
\* the connection without it.
NoneYet(c) == [verdict |-> "Waiting", c |-> c]
TakeUf2Response(c, id) ==
  IF c.uf2_bootloader_ready # None
  THEN [verdict |-> IF c.uf2_bootloader_ready = id THEN "Ok" ELSE "RequestMismatch",
        c |-> [c EXCEPT !.uf2_bootloader_ready = None]]
  ELSE IF c.control_error # None
  THEN [verdict |-> Rejected(c.control_error, id),
        c |-> [c EXCEPT !.control_error = None]]
  ELSE NoneYet(c)

\* take_install_receipt_recorded and validate_receipt_response
TakeReceiptResponse(c, id, r) ==
  IF c.install_receipt_recorded # None
  THEN [verdict |-> CASE c.install_receipt_recorded.id # id -> "RequestMismatch"
                      [] c.install_receipt_recorded = [id |-> id, receipt |-> r] -> "Ok"
                      [] OTHER -> "ReceiptMismatch",
        c |-> [c EXCEPT !.install_receipt_recorded = None]]
  ELSE IF c.control_error # None
  THEN [verdict |-> Rejected(c.control_error, id),
        c |-> [c EXCEPT !.control_error = None]]
  ELSE NoneYet(c)

TakeResponse(c) ==
  CASE call.kind = "Uf2" -> TakeUf2Response(c, call.id)
    [] call.kind = "Receipt" -> TakeReceiptResponse(c, call.id, call.receipt)
    [] call.kind = "Info" -> IF c.firmware = "Pending" THEN NoneYet(c)
                             ELSE [verdict |-> "Ok", c |-> c]

Returns(verdict) ==
  /\ outcome' = [request |-> call, verdict |-> verdict]
  /\ call' = Idle
  /\ bootloader_transition' =
       (bootloader_transition \/ (call.kind = "Uf2" /\ verdict = "Ok"))

\* One iteration of wait_for_control_response: poll, look for the answer, then
\* look at the deadline.  It does not reconnect.
WaitForControlResponse ==
  /\ call # Idle
  /\ \E s \in Polled(Session(connection, last_poll)) :
       \/ s.failed /\ Keep(Close(s)) /\ Returns("Failed")
       \/ ~s.failed /\ LET taken == TakeResponse(s.c) IN
            /\ Keep([s EXCEPT !.c = taken.c])
            /\ \/ taken.verdict # "Waiting" /\ Returns(taken.verdict)
               \/ taken.verdict = "Waiting" /\ Returns("ControlTimeout")
               \/ /\ taken.verdict = "Waiting"
                  /\ outcome' = None /\ UNCHANGED <<call, bootloader_transition>>
  /\ UNCHANGED <<desired_state, observed, dropped, asked>>

\* poll_firmware_install_receipt: looks at what the polls of others have read.
PollFirmwareInstallReceipt ==
  /\ Usable /\ observed # None /\ connection # Closed
  /\ LET taken == TakeReceiptResponse(connection, observed.id, observed.receipt)
     IN  /\ taken.verdict # "Waiting"
         /\ connection' = taken.c
         /\ outcome' = [request |-> observed, verdict |-> taken.verdict]
  /\ observed' = None
  /\ wire' = << >> /\ alive' = FALSE
  /\ UNCHANGED <<desired_state, last_poll, bootloader_transition, call, dropped,
                 ghosts>>

-----------------------------------------------------------------------------

Older(age, limit) == IF age = Off \/ age = limit THEN age ELSE age + 1
AgedPing(ping) == IF ping = None THEN None ELSE [ping EXCEPT !.age = Older(@, PongTicks)]
Aged(c) ==
  [c EXCEPT !.since_ping = Older(@, PingTicks), !.since_state = Older(@, RefreshTicks),
            !.since_ready = Older(@, GraceTicks), !.pending_ping = AgedPing(@)]
Advance ==
  /\ last_poll' = Older(last_poll, ServiceTicks)
  /\ connection' = IF connection = Closed THEN Closed ELSE Aged(connection)
  /\ Quiet
  /\ UNCHANGED <<desired_state, bootloader_transition, requests, dropped, ghosts>>

SessionCall == Open \/ Service \/ TakeFeedback \/ Drop
StateCall == SendNeutral \/ \E state \in States : SendState(state)
ControlCall ==
  \/ \E id \in RequestIds : RequestUf2Bootloader(id)
  \/ \E id \in RequestIds, r \in Receipts :
       RecordInstallReceiptAndWait(id, r) \/ RequestFirmwareInstallReceipt(id, r)
  \/ WaitForFirmwareInfo \/ WaitForControlResponse \/ PollFirmwareInstallReceipt
Call == SessionCall \/ StateCall \/ ControlCall

Next == Call \/ Advance

Spec == Init /\ [][Next]_vars

-----------------------------------------------------------------------------
(* Properties.                                                             *)

Connections ==
  [status : {"Ready"}, sequence : 0 .. SeqModulus - 1, queued : {<< >>},
   since_ping : 0 .. PingTicks,
   pending_ping : [nonce : 0 .. SeqModulus - 1, age : 0 .. PongTicks] \cup {None},
   last_state : (States \ {Neutral}) \cup {NoState},
   since_state : Off .. RefreshTicks,
   pending_feedback : Rumbles \cup {None},
   firmware : {"Pending", "Reported", "Capable", "Unreported"},
   since_ready : 0 .. GraceTicks,
   uf2_bootloader_ready : RequestIds \cup {None},
   install_receipt_recorded : [id : RequestIds, receipt : Receipts] \cup {None},
   control_error : RequestIds \cup {None}]

\* Every variable has its type.  Between calls a connection is Ready and its
\* queue has been flushed: BridgeOutput never holds one that is not.
TypeOK ==
  /\ connection \in Connections \cup {Closed}
  /\ desired_state \in States \cup {NoState}
  /\ last_poll \in Off .. ServiceTicks
  /\ bootloader_transition \in BOOLEAN /\ dropped \in BOOLEAN
  /\ dropped => connection = Closed /\ call = Idle
  /\ call # Idle => connection # Closed
  /\ asked \in States \cup {NoState} /\ device \in States
  /\ heard \subseteq Answers

\* Whatever queues, refreshes and reconnects lie between, a state written to
\* the device is the one the engine asked for last, never an older one.
WireIsNewest ==
  \A i \in 1 .. Len(wire') :
    wire'[i].message.type = "GamepadState" => wire'[i].message.state = asked'

\* Between calls an open session has told the device the state the engine
\* asked for, also when the session is a new one the engine knows nothing of.
NewestIsDelivered ==
  connection # Closed /\ asked \notin {Neutral, NoState} => device = asked

\* The bridge plays the newest state, at every write and between the calls.
BridgePlaysNewest == [][NewestIsDelivered' /\ WireIsNewest]_vars

\* A control request succeeds only if the device gave that very answer after
\* the request was written, whatever answers to earlier requests arrive late.
AnswerWasGiven ==
  [][outcome' # None /\ outcome'.verdict = "Ok"
       /\ outcome'.request.kind # "Info" =>
       Expected(outcome'.request) \in heard']_vars
=============================================================================
