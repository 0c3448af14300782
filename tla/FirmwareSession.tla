-------------------------- MODULE FirmwareSession --------------------------
(***************************************************************************)
(* The session the XIAO firmware keeps with the host bridge:               *)
(* scbridge::BridgeSession, the UsbCdcQueue it answers through and the     *)
(* connection edges of the sketch's loop                                   *)
(* (firmware/xiao-nrf52840/src/bridge_session.cpp, xiao-nrf52840.ino).     *)
(*                                                                         *)
(* Each handler of the class is an action.  The loop calls them in a fixed *)
(* order; here any order is allowed, so what is shown holds of every       *)
(* schedule of the loop.  A flag and the timestamp it guards               *)
(* (data_watchdog_armed_ and last_data_ms_, ...) are one variable: Off, or *)
(* the time since the timer was armed, saturated at its limit.  The        *)
(* property ArmedTimersAreServiced says why the saturation is sound: an    *)
(* armed timer is looked at by every tick, so the 32-bit difference the    *)
(* code computes never wraps.                                              *)
(***************************************************************************)
EXTENDS Integers, Sequences

CONSTANTS
  Reports,        \* canonical gamepad reports
  Neutral,        \* neutral_report()
  NoReport,       \* an empty report slot
  Rumbles,        \* rumble intensities
  Zero,           \* zero_rumble()
  NoRumble,       \* an empty rumble slot
  RequestIds,     \* ids the host gives its control requests
  Receipts,       \* install receipts a host may ask to record
  None,           \* no control request outstanding
  Blank, Corrupt, \* a receipt page that is Pending, or Invalid
  SeqModulus,     \* 2^16: frame sequence numbers wrap
  CdcDepth,       \* kTxQueueDepth
  WatchdogMs,     \* kDataWatchdogMs
  RefreshMs,      \* kRumbleFeedbackRefreshMs
  LeaseMs,        \* kRumbleSourceLeaseMs
  QuietMs         \* kRumbleStartupQuietMs

ASSUME ReportAssumption == Neutral \in Reports /\ NoReport \notin Reports
ASSUME RumbleAssumption == Zero \in Rumbles /\ NoRumble \notin Rumbles
ASSUME ControlAssumption ==
  /\ None \notin RequestIds
  /\ None \notin [id : RequestIds, receipt : Receipts]
  /\ Blank \notin Receipts /\ Corrupt \notin Receipts /\ Blank # Corrupt
ASSUME BoundAssumption ==
  /\ SeqModulus \in Nat \ {0} /\ CdcDepth \in Nat \ {0}
  /\ WatchdogMs \in Nat \ {0} /\ RefreshMs \in Nat \ {0}
  /\ LeaseMs \in Nat \ {0} /\ QuietMs \in Nat \ {0}

VARIABLES
  usb_mounted,          \* previous_usb_mounted of the loop
  cdc_connected,        \* cdc_connected_ (and previous_dtr of the loop)
  negotiated,           \* negotiated_
  device_info_pending,  \* device_info_pending_
  expected_sequence,    \* expected_sequence_, Off while not sequence_valid_
  consecutive_errors,   \* consecutive_errors_, saturated at the limit of 3
  faulted,              \* faulted_
  hid,                  \* the HID report queue and the data watchdog
  rumble,               \* the rumble queue, its lease and its quarantine
  rumble_told,          \* ghost: the last Rumble frame queued to this host
  uf2,                  \* the UF2 bootloader request
  receipt_request,      \* the install receipt request
  page,                 \* what read_install_receipt says of the flash page
  cdc_tx                \* UsbCdcQueue

connection == <<usb_mounted, cdc_connected>>
handshake  == <<negotiated, device_info_pending, expected_sequence>>
health     == <<consecutive_errors, faulted>>
control    == <<uf2, receipt_request, page>>
vars == <<connection, handshake, health, hid, rumble, rumble_told, control,
          cdc_tx>>

Off == -1
ErrorLimit == 3

-----------------------------------------------------------------------------
(* Frames the session queues to the host.                                  *)

HelloResponse == [type |-> "HelloResponse"]
Pong == [type |-> "Pong"]
DeviceInfo(status) == [type |-> "DeviceInfo", receipt |-> status]
Rumble(r) == [type |-> "Rumble", rumble |-> r]
Uf2BootloaderReady(id) == [type |-> "Uf2BootloaderReady", id |-> id]
InstallReceiptRecorded(req) == [type |-> "InstallReceiptRecorded", request |-> req]
Error(code, id) == [type |-> "Error", code |-> code, id |-> id]

ErrorCodes == {"Uf2TransitionBusy", "InstallReceiptRejected",
               "InstallReceiptReadbackMismatch"}
ReceiptRequests == [id : RequestIds, receipt : Receipts]
PageStates == Receipts \cup {Blank, Corrupt}
Messages ==
  [type : {"HelloResponse", "Pong"}]
    \cup [type : {"DeviceInfo"}, receipt : PageStates]
    \cup [type : {"Rumble"}, rumble : Rumbles]
    \cup [type : {"Uf2BootloaderReady"}, id : RequestIds]
    \cup [type : {"InstallReceiptRecorded"}, request : ReceiptRequests]
    \cup [type : {"Error"}, code : ErrorCodes, id : RequestIds]

\* queue_cdc and send_message: a full queue refuses the frame.
HasRoom(queue) == Len(queue) < CdcDepth
send_message(queue, m) == IF HasRoom(queue) THEN Append(queue, m) ELSE queue

-----------------------------------------------------------------------------
(* The HID report queue.                                                   *)

IsActive(report) == report \notin {Neutral, NoReport}
HidState == [pending : Reports \cup {NoReport}, safety : BOOLEAN,
             deferred : Reports \cup {NoReport},
             last : Reports \cup {NoReport}, watchdog : Off .. WatchdogMs]

\* Fault: a safety neutral leaves the deferred report queued behind it.
queue_hid_keeps_deferred(h, report, safety) ==
  IF h.safety /\ ~safety
  THEN [h EXCEPT !.deferred = report]
  ELSE IF report = h.last
       THEN [h EXCEPT !.pending = NoReport, !.safety = FALSE]
       ELSE [h EXCEPT !.pending = report, !.safety = safety]

\* Fault: a new report replaces a safety neutral that is still pending.
queue_hid_never_defers(h, report, safety) ==
  IF report = h.last
  THEN [h EXCEPT !.pending = NoReport, !.safety = FALSE]
  ELSE [h EXCEPT !.pending = report, !.safety = safety]

queue_hid(h, report, safety) ==
  IF h.safety /\ ~safety
  THEN [h EXCEPT !.deferred = report]
  ELSE LET kept == IF safety THEN NoReport ELSE h.deferred
       IN  IF report = h.last
           THEN [h EXCEPT !.deferred = kept, !.pending = NoReport,
                          !.safety = FALSE]
           ELSE [h EXCEPT !.deferred = kept, !.pending = report,
                          !.safety = safety]

force_neutral(h, safety) ==
  queue_hid([h EXCEPT !.watchdog = Off], Neutral, safety)

apply_gamepad(h, report) ==
  queue_hid([h EXCEPT !.watchdog = IF report = Neutral THEN Off ELSE 0],
            report, FALSE)

\* Fault: the deferred report skips the comparison with the endpoint's.
mark_sent_skips_queue(h) ==
  [h EXCEPT !.last = h.pending, !.safety = FALSE, !.deferred = NoReport,
            !.pending = IF h.safety THEN h.deferred ELSE NoReport]

mark_sent(h) ==
  LET done == [h EXCEPT !.last = h.pending, !.pending = NoReport,
                        !.safety = FALSE]
  IN  IF h.safety /\ h.deferred # NoReport
      THEN queue_hid([done EXCEPT !.deferred = NoReport], h.deferred, FALSE)
      ELSE done

-----------------------------------------------------------------------------
(* The rumble queue.  rumble_refresh_armed_ is IsRumbling(desired): every  *)
(* assignment of the one goes with the other.                              *)

IsRumbling(r) == r \notin {Zero, NoRumble}
RumbleState == [desired : Rumbles, pending : Rumbles \cup {NoRumble},
                safety : BOOLEAN, deferred : Rumbles \cup {NoRumble},
                since_tx : 0 .. RefreshMs, lease : Off .. LeaseMs,
                quarantine : Off .. QuietMs]

\* Fault: a safety zero leaves the deferred intensity queued behind it.
queue_rumble_keeps_deferred(u, r, safety) ==
  IF u.safety /\ ~safety /\ IsRumbling(r)
  THEN [u EXCEPT !.desired = r, !.deferred = r]
  ELSE [u EXCEPT !.desired = r, !.pending = r, !.safety = safety]

\* Fault: a new intensity replaces a safety zero that is still pending.
queue_rumble_never_defers(u, r, safety) ==
  [u EXCEPT !.desired = r, !.pending = r, !.safety = safety]

queue_rumble(u, r, safety) ==
  IF u.safety /\ ~safety /\ IsRumbling(r)
  THEN [u EXCEPT !.desired = r, !.deferred = r]
  ELSE [u EXCEPT !.desired = r, !.pending = r, !.safety = safety,
                 !.deferred = IF safety THEN NoRumble ELSE u.deferred]

\* Fault: the lease outlives the rumble it was granted for.
force_rumble_zero_keeps_lease(u) == queue_rumble(u, Zero, TRUE)

force_rumble_zero(u) == queue_rumble([u EXCEPT !.lease = Off], Zero, TRUE)

begin_rumble_quarantine(u) == force_rumble_zero([u EXCEPT !.quarantine = 0])

\* Fault: quarantine is prolonged, and the intensity queued all the same.
xinput_rumble_in_quarantine(u, r) ==
  IF IsRumbling(r)
  THEN queue_rumble([u EXCEPT !.lease = 0,
                       !.quarantine = IF u.quarantine = Off THEN Off ELSE 0],
                    r, FALSE)
  ELSE force_rumble_zero([u EXCEPT !.quarantine = Off])

\* on_xinput_rumble, past its early returns.
xinput_rumble(u, r) ==
  CASE ~IsRumbling(r)     -> force_rumble_zero([u EXCEPT !.quarantine = Off])
    [] IsRumbling(r) /\ u.quarantine # Off -> [u EXCEPT !.quarantine = 0]
    [] OTHER              -> queue_rumble([u EXCEPT !.lease = 0], r, FALSE)

\* Fault: the firmware's own refresh never asks whether the source is alive.
due_rumble_unleased(u) ==
  LET quiet == IF u.quarantine = QuietMs THEN [u EXCEPT !.quarantine = Off]
               ELSE u
  IN  IF /\ quiet.pending = NoRumble
         /\ IsRumbling(quiet.desired)
         /\ quiet.since_tx = RefreshMs
      THEN [quiet EXCEPT !.pending = quiet.desired, !.safety = FALSE]
      ELSE quiet

\* service_rumble up to the send: quarantine and lease expire, a refresh is due.
due_rumble(u) ==
  LET quiet  == IF u.quarantine = QuietMs THEN [u EXCEPT !.quarantine = Off]
                ELSE u
      leased == IF quiet.lease = LeaseMs THEN force_rumble_zero(quiet) ELSE quiet
  IN  IF /\ leased.pending = NoRumble
         /\ IsRumbling(leased.desired)
         /\ leased.since_tx = RefreshMs
      THEN [leased EXCEPT !.pending = leased.desired, !.safety = FALSE]
      ELSE leased

\* Fault: the pending slot is emptied only to promote a deferred intensity.
rumble_sent_keeps_pending(u) ==
  IF u.safety /\ u.deferred # NoRumble
  THEN [u EXCEPT !.since_tx = 0, !.safety = FALSE, !.pending = u.deferred,
                 !.deferred = NoRumble]
  ELSE [u EXCEPT !.since_tx = 0]

\* service_rumble after the send: a deferred intensity follows a safety zero.
rumble_sent(u) ==
  [u EXCEPT !.since_tx = 0, !.safety = FALSE,
            !.pending = IF u.safety THEN u.deferred ELSE NoRumble,
            !.deferred = IF u.safety THEN NoRumble ELSE u.deferred]

-----------------------------------------------------------------------------
(* Connection edges (service_connection).                                  *)

BootHid == [pending |-> Neutral, safety |-> TRUE, deferred |-> NoReport,
            last |-> NoReport, watchdog |-> Off]
BootRumble == [desired |-> Zero, pending |-> Zero, safety |-> TRUE,
               deferred |-> NoRumble, since_tx |-> 0, lease |-> Off,
               quarantine |-> Off]
NoUf2 == [request |-> None, ready |-> FALSE, ready_pending |-> FALSE]

Init ==
  /\ usb_mounted = FALSE /\ cdc_connected = FALSE
  /\ negotiated = FALSE /\ device_info_pending = FALSE
  /\ expected_sequence = Off
  /\ consecutive_errors = 0 /\ faulted = FALSE
  /\ hid = BootHid
  /\ rumble = BootRumble
  /\ rumble_told = NoRumble
  /\ uf2 = NoUf2
  /\ receipt_request = None
  /\ page \in PageStates
  /\ cdc_tx = << >>

\* reset_session, apart from the rumble queue; the loop clears cdc_tx with it.
ResetSession ==
  /\ negotiated' = FALSE
  /\ device_info_pending' = FALSE
  /\ expected_sequence' = Off
  /\ consecutive_errors' = 0
  /\ faulted' = FALSE
  /\ hid' = force_neutral(hid, TRUE)
  /\ uf2' = NoUf2
  /\ receipt_request' = None
  /\ rumble_told' = NoRumble
  /\ cdc_tx' = << >>
  /\ UNCHANGED page

OnCdcConnected ==
  /\ usb_mounted /\ ~cdc_connected
  /\ cdc_connected' = TRUE
  /\ ResetSession
  /\ rumble' = begin_rumble_quarantine(rumble)
  /\ UNCHANGED usb_mounted

\* The host drops DTR, or the USB bus unmounts the device.
OnCdcDisconnected ==
  /\ usb_mounted
  /\ \/ cdc_connected /\ UNCHANGED usb_mounted
     \/ usb_mounted' = FALSE
  /\ cdc_connected' = FALSE
  /\ ResetSession
  /\ rumble' = force_rumble_zero([rumble EXCEPT !.quarantine = Off])

OnHidMounted ==
  /\ ~usb_mounted
  /\ usb_mounted' = TRUE
  /\ hid' = force_neutral([hid EXCEPT !.last = NoReport], TRUE)
  /\ rumble' = begin_rumble_quarantine(rumble)
  /\ UNCHANGED <<cdc_connected, handshake, health, rumble_told, control, cdc_tx>>

\* The host reads one frame (UsbCdcQueue::service).
ServiceCdcTx ==
  /\ cdc_connected /\ cdc_tx # << >>
  /\ cdc_tx' = Tail(cdc_tx)
  /\ UNCHANGED <<connection, handshake, health, hid, rumble, rumble_told, control>>

\* The endpoint accepts the pending report (mark_hid_report_sent).
MarkHidReportSent ==
  /\ usb_mounted /\ hid.pending # NoReport
  /\ hid' = mark_sent(hid)
  /\ UNCHANGED <<connection, handshake, health, rumble, rumble_told, control, cdc_tx>>

-----------------------------------------------------------------------------
(* Frames from the host (on_frame, on_decode_error).                       *)

OnHello(sequence, compatible) ==
  LET answered == compatible /\ HasRoom(cdc_tx)
      silenced == force_rumble_zero(rumble)
  IN  /\ cdc_connected
      /\ consecutive_errors' = 0 /\ faulted' = FALSE
      /\ hid' = force_neutral(hid, TRUE)
      /\ rumble' = IF answered THEN begin_rumble_quarantine(silenced)
                   ELSE silenced
      /\ negotiated' = answered
      /\ device_info_pending' = answered
      /\ expected_sequence' = (sequence + 1) % SeqModulus
      /\ cdc_tx' = IF compatible THEN send_message(cdc_tx, HelloResponse)
                   ELSE cdc_tx
      /\ UNCHANGED <<connection, rumble_told, control>>

\* Any other frame before a handshake only ends a run of decode errors.
OnFrameUnnegotiated ==
  /\ cdc_connected /\ ~negotiated
  /\ consecutive_errors' = 0 /\ faulted' = FALSE
  /\ UNCHANGED <<connection, handshake, hid, rumble, rumble_told, control, cdc_tx>>

\* What every frame of a negotiated session does: check_sequence.
SequenceGap(sequence) ==
  expected_sequence # Off /\ sequence # expected_sequence
checked_hid(sequence) ==
  IF SequenceGap(sequence) THEN force_neutral(hid, TRUE) ELSE hid
checked_rumble(sequence) ==
  IF SequenceGap(sequence) THEN force_rumble_zero(rumble) ELSE rumble
\* Fault: the expected sequence number does not wrap with the 16-bit counter.
Receive_unwrapped(sequence) ==
  /\ cdc_connected /\ negotiated
  /\ consecutive_errors' = 0 /\ faulted' = FALSE
  /\ expected_sequence' = sequence + 1
  /\ UNCHANGED <<connection, negotiated, device_info_pending, rumble_told, page>>

Receive(sequence) ==
  /\ cdc_connected /\ negotiated
  /\ consecutive_errors' = 0 /\ faulted' = FALSE
  /\ expected_sequence' = (sequence + 1) % SeqModulus
  /\ UNCHANGED <<connection, negotiated, device_info_pending, rumble_told, page>>

InControlRequest == uf2.request # None \/ receipt_request # None

\* Fault: gamepad states are applied during a control request.
OnGamepadState_unfrozen(sequence, report) ==
  /\ Receive(sequence)
  /\ hid' = apply_gamepad(checked_hid(sequence), report)
  /\ rumble' = checked_rumble(sequence)
  /\ UNCHANGED <<uf2, receipt_request, cdc_tx>>

OnGamepadState(sequence, report) ==
  /\ Receive(sequence)
  /\ hid' = IF InControlRequest THEN checked_hid(sequence)
            ELSE apply_gamepad(checked_hid(sequence), report)
  /\ rumble' = checked_rumble(sequence)
  /\ UNCHANGED <<uf2, receipt_request, cdc_tx>>

OnNeutral(sequence) ==
  /\ Receive(sequence)
  /\ hid' = IF InControlRequest THEN checked_hid(sequence)
            ELSE force_neutral(checked_hid(sequence), FALSE)
  /\ rumble' = checked_rumble(sequence)
  /\ UNCHANGED <<uf2, receipt_request, cdc_tx>>

OnPing(sequence) ==
  /\ Receive(sequence)
  /\ hid' = checked_hid(sequence)
  /\ rumble' = checked_rumble(sequence)
  /\ cdc_tx' = send_message(cdc_tx, Pong)
  /\ UNCHANGED <<uf2, receipt_request>>

\* A frame type only the device sends, or one unknown to this revision.
OnUnexpectedFrame(sequence) ==
  /\ Receive(sequence)
  /\ hid' = checked_hid(sequence)
  /\ rumble' = checked_rumble(sequence)
  /\ UNCHANGED <<uf2, receipt_request, cdc_tx>>

\* begin_uf2_bootloader
OnEnterUf2Bootloader(sequence, id) ==
  /\ Receive(sequence)
  /\ \/ /\ InControlRequest
        /\ hid' = checked_hid(sequence)
        /\ rumble' = checked_rumble(sequence)
        /\ uf2' = [uf2 EXCEPT !.ready_pending =
                     \/ uf2.ready_pending
                     \/ receipt_request = None /\ id = uf2.request /\ uf2.ready]
        /\ cdc_tx' = IF receipt_request # None \/ id # uf2.request
                     THEN send_message(cdc_tx, Error("Uf2TransitionBusy", id))
                     ELSE cdc_tx
     \/ /\ ~InControlRequest
        /\ hid' = force_neutral(checked_hid(sequence), TRUE)
        /\ rumble' = force_rumble_zero(checked_rumble(sequence))
        /\ uf2' = [uf2 EXCEPT !.request = id]
        /\ UNCHANGED cdc_tx
  /\ UNCHANGED receipt_request

\* The reply to a receipt request that starts no write, <<>> for none.
ReceiptReply(request) ==
  CASE uf2.request # None -> <<Error("Uf2TransitionBusy", request.id)>>
    [] uf2.request = None /\ page \in Receipts ->
         IF page = request.receipt THEN <<InstallReceiptRecorded(request)>>
         ELSE <<Error("InstallReceiptRejected", request.id)>>
    [] OTHER ->
         IF request = receipt_request THEN << >>
         ELSE <<Error("InstallReceiptRejected", request.id)>>

\* RecordInstallReceipt, record_install_receipt
OnRecordInstallReceipt(sequence, request) ==
  LET starts == ~InControlRequest /\ page \notin Receipts
  IN  /\ Receive(sequence)
      /\ hid' = IF starts THEN force_neutral(checked_hid(sequence), TRUE)
                ELSE checked_hid(sequence)
      /\ rumble' = IF starts THEN force_rumble_zero(checked_rumble(sequence))
                   ELSE checked_rumble(sequence)
      /\ receipt_request' = IF starts THEN request ELSE receipt_request
      /\ cdc_tx' = IF starts \/ ReceiptReply(request) = << >> THEN cdc_tx
                   ELSE send_message(cdc_tx, Head(ReceiptReply(request)))
      /\ UNCHANGED uf2

OnDecodeError ==
  LET errors == IF consecutive_errors < ErrorLimit THEN consecutive_errors + 1
                ELSE ErrorLimit
  IN  /\ cdc_connected
      /\ consecutive_errors' = errors
      /\ IF errors = ErrorLimit
         THEN /\ faulted' = TRUE
              /\ negotiated' = FALSE
              /\ expected_sequence' = Off
              /\ hid' = force_neutral(hid, TRUE)
              /\ rumble' = force_rumble_zero(rumble)
         ELSE UNCHANGED <<faulted, negotiated, expected_sequence, hid, rumble>>
      /\ UNCHANGED <<connection, device_info_pending, rumble_told, control,
                     cdc_tx>>

\* An Xbox OUT report of the USB host (service_gamepad, on_xinput_rumble).
OnXinputRumble(r) ==
  /\ usb_mounted /\ negotiated /\ ~InControlRequest
  /\ rumble' = xinput_rumble(rumble, r)
  /\ UNCHANGED <<connection, handshake, health, hid, rumble_told, control, cdc_tx>>

-----------------------------------------------------------------------------
(* The periodic tick.                                                      *)

\* Fault: the watchdog waits for the decoder to recover.
WatchdogExpired_ignores_noise ==
  uf2.request = None /\ hid.watchdog = WatchdogMs /\ consecutive_errors = 0

WatchdogExpired == uf2.request = None /\ hid.watchdog = WatchdogMs

\* Fault: the reply trusts the writer instead of its result and the readback.
ReceiptOutcomes_unchecked(request) ==
  IF page = Blank
  THEN [page : {Blank, Corrupt, request.receipt},
        reply : {InstallReceiptRecorded(request)}]
  ELSE {[page |-> page, reply |-> Error("InstallReceiptRejected", request.id)]}

\* What record_install_receipt and the readback after it can come to: each
\* possible page, with the reply.  A failed write may leave the page Pending
\* (the other slot), Invalid, or committed when only the final wait failed.
ReceiptOutcomes(request) ==
  LET rejected == Error("InstallReceiptRejected", request.id)
      recorded == InstallReceiptRecorded(request)
      mismatch == Error("InstallReceiptReadbackMismatch", request.id)
  IN  CASE page = Corrupt -> {[page |-> page, reply |-> rejected]}
        [] page = Blank ->
             {[page |-> request.receipt, reply |-> recorded]}
               \cup [page : {Blank, Corrupt, request.receipt}, reply : {rejected}]
        [] OTHER ->
             {[page |-> page,
               reply |-> IF page = request.receipt THEN recorded ELSE mismatch]}

\* service_uf2_bootloader, the queue being `queue` when it runs
ServiceUf2Bootloader(quiet, queue) ==
  IF quiet /\ uf2.request # None /\ (~uf2.ready \/ uf2.ready_pending)
  THEN /\ cdc_tx' = send_message(queue, Uf2BootloaderReady(uf2.request))
       /\ uf2' = IF HasRoom(queue)
                 THEN [uf2 EXCEPT !.ready = TRUE, !.ready_pending = FALSE]
                 ELSE uf2
  ELSE cdc_tx' = queue /\ UNCHANGED uf2

\* service_install_receipt, then service_uf2_bootloader: both wait until no
\* report and no rumble is left to send.
ServiceControl(quiet, queue) ==
  \/ /\ quiet /\ receipt_request # None
     /\ \E outcome \in ReceiptOutcomes(receipt_request) :
          /\ page' = outcome.page
          /\ ServiceUf2Bootloader(quiet, send_message(queue, outcome.reply))
     /\ receipt_request' = IF HasRoom(queue) THEN None ELSE receipt_request
  \/ /\ ~(quiet /\ receipt_request # None)
     /\ UNCHANGED <<page, receipt_request>>
     /\ ServiceUf2Bootloader(quiet, queue)

\* service_device_info
InfoDue == negotiated /\ device_info_pending
ServiceDeviceInfo(queue) ==
  IF InfoDue THEN send_message(queue, DeviceInfo(page)) ELSE queue

\* service_rumble, the queue being `queue` when it runs
ServiceRumble(calm, queue) ==
  LET due  == IF negotiated THEN due_rumble(calm) ELSE calm
      sent == negotiated /\ due.pending # NoRumble /\ HasRoom(queue)
  IN  [rumble |-> IF sent THEN rumble_sent(due) ELSE due,
       told   |-> IF sent THEN due.pending ELSE rumble_told,
       queue  |-> IF sent THEN Append(queue, Rumble(due.pending)) ELSE queue]

\* Fault: one of the two queues is not waited for.
NothingLeftToSend_ignores_hid(h, u) == u.pending = NoRumble
NothingLeftToSend_ignores_rumble(h, u) == h.pending = NoReport

NothingLeftToSend(h, u) == h.pending = NoReport /\ u.pending = NoRumble

Tick ==
  LET calm   == IF WatchdogExpired THEN force_rumble_zero(rumble) ELSE rumble
      served == ServiceRumble(calm, ServiceDeviceInfo(cdc_tx))
  IN  /\ faulted' = (faulted \/ WatchdogExpired)
      /\ hid' = IF WatchdogExpired THEN force_neutral(hid, TRUE) ELSE hid
      /\ device_info_pending' =
           (device_info_pending /\ ~(InfoDue /\ HasRoom(cdc_tx)))
      /\ rumble' = served.rumble
      /\ rumble_told' = served.told
      /\ ServiceControl(NothingLeftToSend(hid', rumble'), served.queue)
      /\ UNCHANGED <<connection, negotiated, expected_sequence,
                     consecutive_errors>>

\* One millisecond passes.
Older(age, limit) == IF age = Off \/ age = limit THEN age ELSE age + 1
Advance ==
  /\ hid' = [hid EXCEPT !.watchdog = Older(@, WatchdogMs)]
  /\ rumble' = [rumble EXCEPT
       !.since_tx = IF IsRumbling(rumble.desired) THEN Older(@, RefreshMs) ELSE @,
       !.lease = Older(@, LeaseMs), !.quarantine = Older(@, QuietMs)]
  /\ UNCHANGED <<connection, handshake, health, rumble_told, control, cdc_tx>>

\* Power loss, the hardware watchdog or a DFU reset: flash survives.
Reboot ==
  /\ usb_mounted' = FALSE /\ cdc_connected' = FALSE
  /\ negotiated' = FALSE /\ device_info_pending' = FALSE
  /\ expected_sequence' = Off
  /\ consecutive_errors' = 0 /\ faulted' = FALSE
  /\ hid' = BootHid
  /\ rumble' = BootRumble
  /\ rumble_told' = NoRumble
  /\ uf2' = NoUf2
  /\ receipt_request' = None
  /\ cdc_tx' = << >>
  /\ UNCHANGED page

-----------------------------------------------------------------------------

Sequences == 0 .. SeqModulus - 1

Handshake == \E s \in Sequences, compatible \in BOOLEAN : OnHello(s, compatible)

HostFrame ==
  \/ Handshake
  \/ OnFrameUnnegotiated
  \/ \E s \in Sequences, r \in Reports : OnGamepadState(s, r)
  \/ \E s \in Sequences : OnNeutral(s)
  \/ \E s \in Sequences : OnPing(s)
  \/ \E s \in Sequences : OnUnexpectedFrame(s)
  \/ \E s \in Sequences, id \in RequestIds : OnEnterUf2Bootloader(s, id)
  \/ \E s \in Sequences, req \in ReceiptRequests : OnRecordInstallReceipt(s, req)
  \/ OnDecodeError

ConnectionEdge == OnCdcConnected \/ OnCdcDisconnected \/ OnHidMounted \/ Reboot

Next ==
  \/ ConnectionEdge
  \/ HostFrame
  \/ \E r \in Rumbles : OnXinputRumble(r)
  \/ ServiceCdcTx
  \/ MarkHidReportSent
  \/ Tick
  \/ Advance

Spec == Init /\ [][Next]_vars

\* The loop runs for ever; the USB host keeps polling an endpoint it has
\* mounted and reading a port it has opened.  The loop serves the CDC queue
\* between the decoder and the tick, so frames of the host that ask for an
\* answer cannot keep the queue full at every tick.
TickWithRoom == HasRoom(cdc_tx) /\ Tick
Fairness == /\ WF_vars(Tick) /\ SF_vars(TickWithRoom)
            /\ WF_vars(MarkHidReportSent) /\ WF_vars(ServiceCdcTx)
            /\ WF_vars(Advance)
FairSpec == Spec /\ Fairness

-----------------------------------------------------------------------------
(* Properties.                                                             *)

\* Every variable has its type.
TypeOK ==
  /\ usb_mounted \in BOOLEAN /\ cdc_connected \in BOOLEAN
  /\ negotiated \in BOOLEAN /\ device_info_pending \in BOOLEAN
  /\ expected_sequence \in Off .. SeqModulus - 1
  /\ consecutive_errors \in 0 .. ErrorLimit /\ faulted \in BOOLEAN
  /\ hid \in HidState
  /\ rumble \in RumbleState
  /\ rumble_told \in Rumbles \cup {NoRumble}
  /\ uf2 \in [request : RequestIds \cup {None}, ready : BOOLEAN,
              ready_pending : BOOLEAN]
  /\ receipt_request \in ReceiptRequests \cup {None}
  /\ page \in PageStates
  /\ cdc_tx \in Seq(Messages) /\ Len(cdc_tx) <= CdcDepth

\* The report the endpoint will be left with once the queue has drained.
Destined == IF hid.deferred # NoReport THEN hid.deferred
            ELSE IF hid.pending # NoReport THEN hid.pending ELSE hid.last

\* A report that would hold a control down never stands without the data
\* watchdog: whatever mixture of safety neutrals, deferrals, cancelled
\* duplicates and remounts led here, if the queue drains into an active report
\* the watchdog is running.
ActiveInputIsWatched == IsActive(Destined) => hid.watchdog # Off

\* The endpoint is never sent the report it already holds (an identical
\* neutral would count as input and wake the host), a deferred report only
\* waits behind a safety neutral, and a safety neutral is a neutral.
EndpointSeesOnlyChanges ==
  /\ hid.pending # NoReport => hid.pending # hid.last
  /\ hid.deferred # NoReport => hid.safety
  /\ hid.safety => hid.pending = Neutral

\* What the endpoint is left with is watched, and reaches it as a change only.
InputIsSafe == ActiveInputIsWatched /\ EndpointSeesOnlyChanges

\* The timers a tick compares with unsigned subtraction are armed only while
\* ticks look at them: the watchdog is skipped in a UF2 request and the lease
\* before a handshake, and neither is armed there, so no difference can wrap.
ArmedTimersAreServiced ==
  /\ hid.watchdog # Off => negotiated /\ ~InControlRequest
  /\ rumble.lease # Off => negotiated /\ ~InControlRequest

\* From the moment a control request is taken until it is answered the
\* endpoint can only be left neutral, and the motors off.
ControlRequestFreezesDevice ==
  InControlRequest => /\ ~IsActive(Destined)
                      /\ ~IsRumbling(rumble.desired)
                      /\ ~IsRumbling(rumble.pending)
                      /\ ~IsRumbling(rumble.deferred)
                      /\ ~(uf2.request # None /\ receipt_request # None)

\* Once the device says it is ready for the bootloader, nothing is held down
\* on the endpoint and the host was last told the motors are off.
ReadyMeansReleased ==
  uf2.ready => uf2.request # None /\ ~IsActive(hid.last) /\ ~IsRumbling(rumble_told)

\* Whatever the queue says of a control request is true when the host reads
\* it: a Ready is for the request held, a recorded receipt is in flash.
AnswersAreTrue ==
  \A i \in 1 .. Len(cdc_tx) :
    LET m == cdc_tx[i] IN
      /\ m.type = "Uf2BootloaderReady" => m.id = uf2.request /\ uf2.ready
      /\ m.type = "InstallReceiptRecorded" => m.request.receipt = page

\* A rumble the host still plays is leased, or the zero that ends it waits at
\* the head of the rumble queue; an intensity waiting to be sent is leased.
RumbleIsLeased ==
  /\ IsRumbling(rumble_told) => rumble.lease # Off \/ rumble.pending = Zero
  /\ IsRumbling(rumble.desired) \/ IsRumbling(rumble.pending)
       \/ IsRumbling(rumble.deferred) => rumble.lease # Off

\* In quarantine the motors are off, or their zero is waiting: the rumble
\* state an earlier host left behind cannot start the motors of this one.
QuarantineIsSilent ==
  rumble.quarantine # Off =>
    /\ ~IsRumbling(rumble.desired) /\ ~IsRumbling(rumble.pending)
    /\ IsRumbling(rumble_told) => rumble.safety

\* No motor runs, or is about to, on the word of a game that is gone: what the
\* host plays and what waits for it is leased, an armed lease is looked at, and
\* a quarantine is silent.
RumbleIsSafe == RumbleIsLeased /\ QuarantineIsSilent /\ ArmedTimersAreServiced

\* Flash, whose programming stalls the loop for milliseconds, is written only
\* with the endpoint released and the motors off; a recorded receipt is final.
FlashIsWrittenAtRest ==
  page' # page => page \notin Receipts /\ ~IsActive(hid.last) /\ ~IsRumbling(rumble_told')

\* A control request finds the device released, keeps it so, writes flash only
\* then, and is answered with the truth: no neutral on its way, no answer still
\* queued when the next request or a reconnection comes, makes one of them fail.
ControlRequestIsSafe ==
  [][ /\ ControlRequestFreezesDevice' /\ ReadyMeansReleased' /\ AnswersAreTrue'
      /\ FlashIsWrittenAtRest ]_vars

\* Once a safety neutral is pending, no other report reaches the endpoint
\* before it: it stays pending until the endpoint holds the neutral.
SafetyNeutralComesFirst ==
  [][hid.safety => \/ hid'.safety /\ hid'.last \in {hid.last, NoReport}
                   \/ hid'.last = Neutral]_vars

\* Once a safety zero is pending it stays pending, whatever the game asks for
\* meanwhile, until the host has been told that the motors are off.
SafetyZeroComesFirst ==
  [][rumble.safety => \/ rumble'.safety /\ rumble_told' \in {rumble_told, NoRumble}
                      \/ rumble_told' = Zero]_vars

\* A control held down when the data watchdog expires is released, unless the
\* host resumes or the USB host is gone.
ExpiredInputIsReleased ==
  hid.watchdog = WatchdogMs ~>
    \/ ~IsActive(hid.last) \/ ~usb_mounted
    \/ hid.watchdog \in 0 .. WatchdogMs - 1

\* A motor left running when its lease expires is stopped, unless the game
\* resumes or the handshake is lost; a host that repeats its Hello for ever can
\* keep the replies to it ahead of the zero.
ExpiredRumbleIsStopped ==
  <>[][~Handshake]_vars =>
    (rumble.lease = LeaseMs ~>
       \/ ~IsRumbling(rumble_told) \/ ~negotiated
       \/ rumble.lease \in 0 .. LeaseMs - 1)

\* The answers to control requests: the device becomes ready, the receipt
\* request ends.
RequestsEnd ==
  /\ uf2.request # None ~> (uf2.ready \/ uf2.request = None \/ ~negotiated)
  /\ receipt_request # None ~> (receipt_request = None \/ ~negotiated)

=============================================================================
