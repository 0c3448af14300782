----------------------- MODULE FirmwareSession_proofs -----------------------
(***************************************************************************)
(* Proofs about FirmwareSession for every set of reports, rumbles, request *)
(* ids and receipts, and every value of the limits.                        *)
(*                                                                         *)
(* The HID queue and the rumble queue are records that the handlers change *)
(* through a few operators.  Each has an invariant of its own, and a lemma *)
(* for every operator says that it keeps it; the invariant of the session  *)
(* relates the queues to the handshake and to the control requests (IInv). *)
(*                                                                         *)
(* The action property of the control requests needs more: what the CDC    *)
(* queue already holds must stay true of the request and of the receipt    *)
(* page until the host reads it (ControlInv).                              *)
(***************************************************************************)
EXTENDS FirmwareSession, TLAPS

USE DEF Off

-----------------------------------------------------------------------------
(* The HID queue.                                                          *)

\* The report the queue `h` drains into.
DestinedOf(h) == IF h.deferred # NoReport THEN h.deferred
                 ELSE IF h.pending # NoReport THEN h.pending ELSE h.last

HidShape(h) ==
  /\ h \in HidState
  /\ h.pending # NoReport => h.pending # h.last
  /\ h.deferred # NoReport => h.safety
  /\ h.safety => h.pending = Neutral

HidInv(h) == HidShape(h) /\ (IsActive(DestinedOf(h)) => h.watchdog # Off)

\* Whatever the queue does with a report, it keeps its shape and the watchdog,
\* and that report is the one it will drain into.
LEMMA QueueHid ==
  ASSUME NEW h, HidShape(h), NEW r \in Reports, NEW safety \in BOOLEAN,
         safety => r = Neutral
  PROVE  /\ HidShape(queue_hid(h, r, safety))
         /\ DestinedOf(queue_hid(h, r, safety)) = r
         /\ queue_hid(h, r, safety).watchdog = h.watchdog
  BY ReportAssumption DEF HidShape, HidState, queue_hid, DestinedOf

\* A forced neutral disarms the watchdog, and the queue drains into it.
LEMMA ForceNeutral ==
  ASSUME NEW h, HidShape(h), NEW safety \in BOOLEAN
  PROVE  /\ HidInv(force_neutral(h, safety))
         /\ DestinedOf(force_neutral(h, safety)) = Neutral
         /\ force_neutral(h, safety).watchdog = Off
<1> DEFINE g == [h EXCEPT !.watchdog = Off]
<1>1. HidShape(g) /\ g.watchdog = Off
  BY BoundAssumption DEF HidShape, HidState
<1>2. /\ HidShape(queue_hid(g, Neutral, safety))
      /\ DestinedOf(queue_hid(g, Neutral, safety)) = Neutral
      /\ queue_hid(g, Neutral, safety).watchdog = Off
  <2> HIDE DEF g
  <2> QED  BY <1>1, QueueHid, ReportAssumption, Zenon
<1> QED
  BY <1>2 DEF force_neutral, HidInv, IsActive

\* A state from the host is the report the queue drains into, and the watchdog
\* runs exactly when that state is active.
LEMMA ApplyGamepad ==
  ASSUME NEW h, HidShape(h), NEW r \in Reports
  PROVE  /\ HidInv(apply_gamepad(h, r))
         /\ apply_gamepad(h, r).watchdog = IF r = Neutral THEN Off ELSE 0
<1> DEFINE g == [h EXCEPT !.watchdog = IF r = Neutral THEN Off ELSE 0]
           q == queue_hid(g, r, FALSE)
<1>1. /\ HidShape(g)
      /\ g.watchdog = IF r = Neutral THEN Off ELSE 0
  BY BoundAssumption DEF HidShape, HidState
<1>2. HidShape(q) /\ DestinedOf(q) = r /\ q.watchdog = g.watchdog
  BY <1>1, QueueHid
<1>3. apply_gamepad(h, r) = q
  BY DEF apply_gamepad
<1> HIDE DEF g, q
<1> QED
  BY <1>1, <1>2, <1>3 DEF HidInv, IsActive

\* Handing the pending report to the endpoint changes neither the report the
\* queue drains into nor the watchdog.
LEMMA MarkSent ==
  ASSUME NEW h, HidInv(h), h.pending # NoReport
  PROVE  /\ HidInv(mark_sent(h))
         /\ DestinedOf(mark_sent(h)) = DestinedOf(h)
         /\ mark_sent(h).watchdog = h.watchdog
<1> DEFINE done == [h EXCEPT !.last = h.pending, !.pending = NoReport,
                             !.safety = FALSE]
           next == [done EXCEPT !.deferred = NoReport]
<1>1. CASE h.safety /\ h.deferred # NoReport
  <2>1. HidShape(next) /\ next.watchdog = h.watchdog
    BY <1>1 DEF HidInv, HidShape, HidState
  <2>2. h.deferred \in Reports
    BY <1>1 DEF HidInv, HidShape, HidState
  <2>3. mark_sent(h) = queue_hid(next, h.deferred, FALSE)
    BY <1>1 DEF mark_sent
  <2>4. DestinedOf(h) = h.deferred
    BY <1>1 DEF DestinedOf
  <2>5. /\ HidShape(queue_hid(next, h.deferred, FALSE))
        /\ DestinedOf(queue_hid(next, h.deferred, FALSE)) = h.deferred
        /\ queue_hid(next, h.deferred, FALSE).watchdog = next.watchdog
    BY <2>1, <2>2, QueueHid
  <2> QED
    BY <2>1, <2>3, <2>4, <2>5 DEF HidInv
<1>2. CASE ~(h.safety /\ h.deferred # NoReport)
  <2>1. mark_sent(h) = done
    BY <1>2 DEF mark_sent
  <2> QED
    BY <1>2, <2>1 DEF HidInv, HidShape, HidState, DestinedOf
<1> QED
  BY <1>1, <1>2

-----------------------------------------------------------------------------
(* The rumble queue, and the intensity `told` the host last heard of.      *)

Intended(u) == \/ IsRumbling(u.desired) \/ IsRumbling(u.pending)
               \/ IsRumbling(u.deferred)

RumbleInv(u, told) ==
  /\ u \in RumbleState
  /\ u.deferred # NoRumble => u.safety
  /\ u.safety => u.pending = Zero
  /\ Intended(u) => u.lease # Off /\ u.quarantine = Off
  /\ IsRumbling(told) => u.safety \/ (u.lease # Off /\ u.quarantine = Off)

\* A forced zero leaves nothing but the zero to send, and no lease.
LEMMA ForceRumbleZero ==
  ASSUME NEW told, NEW u \in RumbleState
  PROVE  /\ RumbleInv(force_rumble_zero(u), told)
         /\ force_rumble_zero(u).lease = Off
<1> DEFINE z == [desired |-> Zero, pending |-> Zero, safety |-> TRUE,
                  deferred |-> NoRumble, since_tx |-> u.since_tx,
                  lease |-> Off, quarantine |-> u.quarantine]
<1>1. force_rumble_zero(u) = z
  BY DEF force_rumble_zero, queue_rumble, RumbleState
<1>2. z \in RumbleState
  BY RumbleAssumption, BoundAssumption DEF RumbleState
<1> QED
  BY <1>1, <1>2 DEF RumbleInv, Intended, IsRumbling

\* So does the start of a quarantine.
LEMMA BeginRumbleQuarantine ==
  ASSUME NEW told, NEW u \in RumbleState
  PROVE  /\ RumbleInv(begin_rumble_quarantine(u), told)
         /\ begin_rumble_quarantine(u).lease = Off
<1>1. [u EXCEPT !.quarantine = 0] \in RumbleState
  BY BoundAssumption DEF RumbleState
<1> QED
  BY <1>1, ForceRumbleZero DEF begin_rumble_quarantine

\* An Xbox OUT report: a zero ends everything, an intensity is leased, or
\* swallowed by the quarantine.
LEMMA XinputRumble ==
  ASSUME NEW told, NEW u, RumbleInv(u, told), NEW r \in Rumbles
  PROVE  RumbleInv(xinput_rumble(u, r), told)
<1>1. CASE ~IsRumbling(r)
  <2>1. [u EXCEPT !.quarantine = Off] \in RumbleState
    BY BoundAssumption DEF RumbleInv, RumbleState
  <2> QED
    BY <1>1, <2>1, ForceRumbleZero DEF xinput_rumble
<1>2. CASE IsRumbling(r) /\ u.quarantine # Off
  <2>1. xinput_rumble(u, r) = [u EXCEPT !.quarantine = 0]
    BY <1>2 DEF xinput_rumble
  <2> QED
    BY <1>2, <2>1, BoundAssumption DEF RumbleInv, RumbleState, Intended
<1>3. CASE IsRumbling(r) /\ u.quarantine = Off
  <2> DEFINE g == [u EXCEPT !.lease = 0]
  <2>1. xinput_rumble(u, r) = queue_rumble(g, r, FALSE)
    BY <1>3 DEF xinput_rumble
  <2>2. RumbleInv(g, told) /\ g.lease = 0 /\ g.quarantine = Off
    BY <1>3, BoundAssumption DEF RumbleInv, RumbleState, Intended
  <2> HIDE DEF g
  <2>3. CASE g.safety
    <3>1. queue_rumble(g, r, FALSE) = [g EXCEPT !.desired = r, !.deferred = r]
      BY <1>3, <2>3 DEF queue_rumble
    <3>2. [g EXCEPT !.desired = r, !.deferred = r] \in RumbleState
      BY <2>2 DEF RumbleInv, RumbleState
    <3>3. RumbleInv([g EXCEPT !.desired = r, !.deferred = r], told)
      BY <1>3, <2>2, <2>3, <3>2 DEF RumbleInv, RumbleState, Intended
    <3> QED
      BY <2>1, <3>1, <3>3
  <2>4. CASE ~g.safety
    <3> DEFINE n == [desired |-> r, pending |-> r, safety |-> FALSE,
                     deferred |-> g.deferred, since_tx |-> g.since_tx,
                     lease |-> 0, quarantine |-> Off]
    <3>1. queue_rumble(g, r, FALSE) = n
      BY <2>2, <2>4 DEF queue_rumble, RumbleInv, RumbleState
    <3>2. n \in RumbleState
      BY <2>2, BoundAssumption DEF RumbleInv, RumbleState
    <3>3. RumbleInv(n, told)
      BY <2>2, <2>4, <3>2 DEF RumbleInv, Intended
    <3> HIDE DEF n
    <3> QED
      BY <2>1, <3>1, <3>3
  <2> QED
    BY <2>3, <2>4
<1> QED
  BY <1>1, <1>2, <1>3

\* service_rumble up to the send: expiry, then a refresh.
LEMMA DueRumble ==
  ASSUME NEW told, NEW u, RumbleInv(u, told)
  PROVE  /\ RumbleInv(due_rumble(u), told)
         /\ u.lease = Off => due_rumble(u).lease = Off
<1> DEFINE quiet == IF u.quarantine = QuietMs THEN [u EXCEPT !.quarantine = Off]
                    ELSE u
           leased == IF quiet.lease = LeaseMs THEN force_rumble_zero(quiet)
                     ELSE quiet
<1>1. RumbleInv(quiet, told) /\ quiet.lease = u.lease
  BY BoundAssumption DEF RumbleInv, RumbleState, Intended
<1>2. /\ RumbleInv(leased, told)
      /\ u.lease = Off => leased.lease = Off
  <2> HIDE DEF quiet
  <2>1. quiet \in RumbleState
    BY <1>1 DEF RumbleInv
  <2> QED
    BY <1>1, <2>1, ForceRumbleZero
<1>3. CASE /\ leased.pending = NoRumble
           /\ IsRumbling(leased.desired)
           /\ leased.since_tx = RefreshMs
  <2>1. due_rumble(u) = [leased EXCEPT !.pending = leased.desired,
                                       !.safety = FALSE]
    BY <1>3 DEF due_rumble
  <2> HIDE DEF leased
  <2> QED
    BY <1>2, <1>3, <2>1, RumbleAssumption
       DEF RumbleInv, RumbleState, Intended, IsRumbling
<1>4. CASE ~(/\ leased.pending = NoRumble
             /\ IsRumbling(leased.desired)
             /\ leased.since_tx = RefreshMs)
  <2>1. due_rumble(u) = leased
    BY <1>4 DEF due_rumble
  <2> QED
    BY <1>2, <2>1
<1> QED
  BY <1>3, <1>4

\* service_rumble after the send: the host now knows what was pending.
LEMMA RumbleSent ==
  ASSUME NEW told, NEW u, RumbleInv(u, told), u.pending # NoRumble
  PROVE  /\ RumbleInv(rumble_sent(u), u.pending)
         /\ rumble_sent(u).lease = u.lease
<1>1. CASE u.safety
  <2> DEFINE n == [desired |-> u.desired, pending |-> u.deferred,
                   safety |-> FALSE, deferred |-> NoRumble, since_tx |-> 0,
                   lease |-> u.lease, quarantine |-> u.quarantine]
  <2>1. rumble_sent(u) = [u EXCEPT !.since_tx = 0, !.safety = FALSE,
                                   !.pending = u.deferred,
                                   !.deferred = NoRumble]
    BY <1>1 DEF rumble_sent
  <2>2. rumble_sent(u) = n
    BY <2>1 DEF RumbleInv, RumbleState
  <2>3. n \in RumbleState
    BY BoundAssumption DEF RumbleInv, RumbleState
  <2>4. RumbleInv(n, u.pending)
    BY <1>1, <2>3, RumbleAssumption DEF RumbleInv, Intended, IsRumbling
  <2> QED
    BY <2>2, <2>4
<1>2. CASE ~u.safety
  <2> DEFINE n == [desired |-> u.desired, pending |-> NoRumble,
                   safety |-> FALSE, deferred |-> u.deferred, since_tx |-> 0,
                   lease |-> u.lease, quarantine |-> u.quarantine]
  <2>1. rumble_sent(u) = [u EXCEPT !.since_tx = 0, !.safety = FALSE,
                                   !.pending = NoRumble]
    BY <1>2 DEF rumble_sent, RumbleInv, RumbleState
  <2>2. rumble_sent(u) = n
    BY <2>1 DEF RumbleInv, RumbleState
  <2>3. n \in RumbleState
    BY BoundAssumption DEF RumbleInv, RumbleState
  <2>4. RumbleInv(n, u.pending)
    BY <1>2, <2>3, RumbleAssumption DEF RumbleInv, Intended, IsRumbling
  <2> QED
    BY <2>2, <2>4
<1> QED
  BY <1>1, <1>2

-----------------------------------------------------------------------------
(* The CDC queue.                                                          *)

QueueInv(queue) == queue \in Seq(Messages) /\ Len(queue) <= CdcDepth

LEMMA MessageTypes ==
  /\ HelloResponse \in Messages /\ Pong \in Messages
  /\ \A p \in PageStates : DeviceInfo(p) \in Messages
  /\ \A r \in Rumbles : Rumble(r) \in Messages
  /\ \A id \in RequestIds : Uf2BootloaderReady(id) \in Messages
  /\ \A req \in ReceiptRequests : InstallReceiptRecorded(req) \in Messages
  /\ \A code \in ErrorCodes, id \in RequestIds : Error(code, id) \in Messages
  BY DEF Messages, HelloResponse, Pong, DeviceInfo, Rumble, Uf2BootloaderReady,
         InstallReceiptRecorded, Error

LEMMA SendMessage ==
  ASSUME NEW queue, QueueInv(queue), NEW m \in Messages
  PROVE  /\ QueueInv(send_message(queue, m))
         /\ HasRoom(queue) => QueueInv(Append(queue, m))
  BY BoundAssumption DEF QueueInv, send_message, HasRoom

-----------------------------------------------------------------------------
(* The session.                                                            *)

\* At most one control request stands.
OneControlRequest == ~(uf2.request # None /\ receipt_request # None)

\* The inductive invariant: the types, the two queues, and what relates them
\* to the handshake and to the control requests.
IInv ==
  /\ TypeOK
  /\ HidInv(hid)
  /\ RumbleInv(rumble, rumble_told)
  /\ ArmedTimersAreServiced
  /\ OneControlRequest

\* The types of everything but the two queues with an invariant of their own.
OtherTypes ==
  /\ usb_mounted \in BOOLEAN /\ cdc_connected \in BOOLEAN
  /\ negotiated \in BOOLEAN /\ device_info_pending \in BOOLEAN
  /\ expected_sequence \in Off .. SeqModulus - 1
  /\ consecutive_errors \in 0 .. ErrorLimit /\ faulted \in BOOLEAN
  /\ rumble_told \in Rumbles \cup {NoRumble}
  /\ uf2 \in [request : RequestIds \cup {None}, ready : BOOLEAN,
              ready_pending : BOOLEAN]
  /\ receipt_request \in ReceiptRequests \cup {None}
  /\ page \in PageStates
  /\ QueueInv(cdc_tx)

\* IInv, taken apart in the form the steps below use.
LEMMA Parts ==
  IInv <=> /\ OtherTypes
           /\ HidInv(hid)
           /\ RumbleInv(rumble, rumble_told)
           /\ ArmedTimersAreServiced
           /\ OneControlRequest
  BY DEF IInv, TypeOK, OtherTypes, QueueInv, HidInv, HidShape, RumbleInv

LEMMA PartsPrime ==
  IInv' <=> /\ OtherTypes'
            /\ HidInv(hid')
            /\ RumbleInv(rumble', rumble_told')
            /\ ArmedTimersAreServiced'
            /\ OneControlRequest'
  BY DEF IInv, TypeOK, OtherTypes, QueueInv, HidInv, HidShape, RumbleInv

\* The values a reset gives have their types.
LEMMA ResetTypes ==
  /\ QueueInv(<< >>)
  /\ NoUf2 \in [request : RequestIds \cup {None}, ready : BOOLEAN,
               ready_pending : BOOLEAN]
  /\ Off \in Off .. SeqModulus - 1
  /\ 0 \in 0 .. ErrorLimit
<1>1. QueueInv(<< >>)
  BY BoundAssumption DEF QueueInv
<1> QED
  BY <1>1, BoundAssumption DEF NoUf2, ErrorLimit

\* A reset device, or a reset session, has nothing armed and nothing requested.
LEMMA InitInv == Init => IInv
<1> SUFFICES ASSUME Init PROVE IInv
  OBVIOUS
<1>1. OtherTypes
  BY ResetTypes
     DEF Init, OtherTypes
<1>2. HidInv(hid)
  BY ReportAssumption, BoundAssumption
     DEF Init, BootHid, HidInv, HidShape, HidState, DestinedOf, IsActive
<1>3. RumbleInv(rumble, rumble_told)
  BY RumbleAssumption, BoundAssumption
     DEF Init, BootRumble, RumbleInv, RumbleState, Intended, IsRumbling
<1>4. ArmedTimersAreServiced /\ OneControlRequest
  BY DEF Init, BootHid, BootRumble, NoUf2, ArmedTimersAreServiced,
         OneControlRequest
<1> QED
  BY <1>1, <1>2, <1>3, <1>4, Parts

LEMMA RebootInv == IInv /\ Reboot => IInv'
<1> SUFFICES ASSUME IInv, Reboot PROVE IInv'
  OBVIOUS
<1>1. OtherTypes'
  BY Parts, ResetTypes
     DEF Reboot, OtherTypes
<1>2. HidInv(hid')
  BY ReportAssumption, BoundAssumption
     DEF Reboot, BootHid, HidInv, HidShape, HidState, DestinedOf, IsActive
<1>3. RumbleInv(rumble', rumble_told')
  BY RumbleAssumption, BoundAssumption
     DEF Reboot, BootRumble, RumbleInv, RumbleState, Intended, IsRumbling
<1>4. ArmedTimersAreServiced' /\ OneControlRequest'
  BY DEF Reboot, BootHid, BootRumble, NoUf2, ArmedTimersAreServiced,
         OneControlRequest
<1> QED
  BY <1>1, <1>2, <1>3, <1>4, PartsPrime

\* ResetSession leaves everything but the rumble queue and the connection as
\* the invariant wants it.
LEMMA ResetSessionInv ==
  ASSUME IInv, ResetSession, usb_mounted' \in BOOLEAN, cdc_connected' \in BOOLEAN,
         RumbleInv(rumble', rumble_told'), rumble'.lease = Off
  PROVE  IInv'
<1>1. OtherTypes'
  BY Parts, ResetTypes
     DEF ResetSession, OtherTypes
<1>2. HidInv(hid') /\ hid'.watchdog = Off
  BY Parts, ForceNeutral DEF ResetSession, HidInv
<1>3. ArmedTimersAreServiced' /\ OneControlRequest'
  BY <1>2 DEF ResetSession, NoUf2, ArmedTimersAreServiced, OneControlRequest
<1> QED
  BY <1>1, <1>2, <1>3, PartsPrime

LEMMA OnCdcConnectedInv == IInv /\ OnCdcConnected => IInv'
<1> SUFFICES ASSUME IInv, OnCdcConnected PROVE IInv'
  OBVIOUS
<1>1. RumbleInv(rumble', rumble_told') /\ rumble'.lease = Off
  BY Parts, BeginRumbleQuarantine DEF OnCdcConnected, RumbleInv
<1>2. usb_mounted' \in BOOLEAN /\ cdc_connected' \in BOOLEAN
  BY Parts DEF OnCdcConnected, OtherTypes
<1> QED
  BY <1>1, <1>2, ResetSessionInv DEF OnCdcConnected

LEMMA OnCdcDisconnectedInv == IInv /\ OnCdcDisconnected => IInv'
<1> SUFFICES ASSUME IInv, OnCdcDisconnected PROVE IInv'
  OBVIOUS
<1>1. [rumble EXCEPT !.quarantine = Off] \in RumbleState
  BY Parts, BoundAssumption DEF RumbleInv, RumbleState
<1>2. RumbleInv(rumble', rumble_told') /\ rumble'.lease = Off
  BY <1>1, ForceRumbleZero DEF OnCdcDisconnected
<1>3. usb_mounted' \in BOOLEAN /\ cdc_connected' \in BOOLEAN
  BY Parts DEF OnCdcDisconnected, OtherTypes
<1> QED
  BY <1>2, <1>3, ResetSessionInv DEF OnCdcDisconnected

LEMMA OnHidMountedInv == IInv /\ OnHidMounted => IInv'
<1> SUFFICES ASSUME IInv, OnHidMounted PROVE IInv'
  OBVIOUS
<1>1. HidShape([hid EXCEPT !.last = NoReport])
  BY Parts, ReportAssumption DEF HidInv, HidShape, HidState
<1>2. HidInv(hid') /\ hid'.watchdog = Off
  BY <1>1, ForceNeutral DEF OnHidMounted
<1>3. RumbleInv(rumble', rumble_told') /\ rumble'.lease = Off
  BY Parts, BeginRumbleQuarantine DEF OnHidMounted, RumbleInv
<1>4. OtherTypes' /\ ArmedTimersAreServiced' /\ OneControlRequest'
  BY <1>2, <1>3, Parts
     DEF OnHidMounted, OtherTypes, ArmedTimersAreServiced, OneControlRequest,
         handshake, health, control
<1> QED
  BY <1>2, <1>3, <1>4, PartsPrime

LEMMA ServiceCdcTxInv == IInv /\ ServiceCdcTx => IInv'
<1> SUFFICES ASSUME IInv, ServiceCdcTx PROVE IInv'
  OBVIOUS
<1>1. QueueInv(cdc_tx')
  BY Parts, BoundAssumption DEF ServiceCdcTx, OtherTypes, QueueInv
<1> QED
  BY <1>1, Parts, PartsPrime
     DEF ServiceCdcTx, OtherTypes, ArmedTimersAreServiced, OneControlRequest,
         connection, handshake, health, control, InControlRequest

LEMMA MarkHidReportSentInv == IInv /\ MarkHidReportSent => IInv'
<1> SUFFICES ASSUME IInv, MarkHidReportSent PROVE IInv'
  OBVIOUS
<1>1. HidInv(hid') /\ hid'.watchdog = hid.watchdog
  BY Parts, MarkSent DEF MarkHidReportSent
<1> QED
  BY <1>1, Parts, PartsPrime
     DEF MarkHidReportSent, OtherTypes, ArmedTimersAreServiced,
         OneControlRequest, connection, handshake, health, control,
         InControlRequest

LEMMA OnXinputRumbleInv ==
  ASSUME IInv, NEW r \in Rumbles, OnXinputRumble(r)
  PROVE  IInv'
<1>1. RumbleInv(rumble', rumble_told')
  BY Parts, XinputRumble DEF OnXinputRumble
<1> QED
  BY <1>1, Parts, PartsPrime
     DEF OnXinputRumble, OtherTypes, ArmedTimersAreServiced,
         OneControlRequest, connection, handshake, health, control,
         InControlRequest

LEMMA AdvanceInv == IInv /\ Advance => IInv'
<1> SUFFICES ASSUME IInv, Advance PROVE IInv'
  OBVIOUS
<1>1. \A limit \in Nat \ {0} : \A age \in Off .. limit :
         /\ Older(age, limit) \in Off .. limit
         /\ Older(age, limit) = Off <=> age = Off
         /\ age \in 0 .. limit => Older(age, limit) \in 0 .. limit
  BY DEF Older
<1>2. HidInv(hid') /\ (hid'.watchdog = Off <=> hid.watchdog = Off)
  <2>1. /\ hid.watchdog \in Off .. WatchdogMs
        /\ hid' = [hid EXCEPT !.watchdog = Older(hid.watchdog, WatchdogMs)]
    BY Parts DEF Advance, HidInv, HidShape, HidState
  <2>2. /\ Older(hid.watchdog, WatchdogMs) \in Off .. WatchdogMs
        /\ Older(hid.watchdog, WatchdogMs) = Off <=> hid.watchdog = Off
    BY <1>1, <2>1, BoundAssumption
  <2> QED
    BY <2>1, <2>2, Parts DEF HidInv, HidShape, HidState, DestinedOf
<1>3. /\ RumbleInv(rumble', rumble_told')
      /\ rumble'.lease = Off <=> rumble.lease = Off
  <2> DEFINE tx == IF IsRumbling(rumble.desired)
                   THEN Older(rumble.since_tx, RefreshMs)
                   ELSE rumble.since_tx
             lease == Older(rumble.lease, LeaseMs)
             quiet == Older(rumble.quarantine, QuietMs)
  <2>1. /\ rumble \in RumbleState
        /\ rumble.since_tx \in 0 .. RefreshMs
        /\ rumble.lease \in Off .. LeaseMs
        /\ rumble.quarantine \in Off .. QuietMs
    BY Parts DEF RumbleInv, RumbleState
  <2>2. /\ tx \in 0 .. RefreshMs
        /\ lease \in Off .. LeaseMs /\ (lease = Off <=> rumble.lease = Off)
        /\ quiet \in Off .. QuietMs /\ (quiet = Off <=> rumble.quarantine = Off)
    BY <1>1, <2>1, BoundAssumption
  <2>3. rumble' = [rumble EXCEPT !.since_tx = tx, !.lease = lease,
                                 !.quarantine = quiet]
    BY <2>1 DEF Advance
  <2> HIDE DEF tx, lease, quiet
  <2>4. /\ rumble' \in RumbleState
        /\ rumble'.lease = lease /\ rumble'.quarantine = quiet
        /\ rumble'.desired = rumble.desired /\ rumble'.pending = rumble.pending
        /\ rumble'.deferred = rumble.deferred /\ rumble'.safety = rumble.safety
    BY <2>1, <2>2, <2>3 DEF RumbleState
  <2>5. rumble_told' = rumble_told
    BY DEF Advance
  <2> QED
    BY <2>2, <2>4, <2>5, Parts DEF RumbleInv, Intended
<1> QED
  BY <1>2, <1>3, Parts, PartsPrime
     DEF Advance, OtherTypes, ArmedTimersAreServiced, OneControlRequest,
         connection, handshake, health, control, InControlRequest

-----------------------------------------------------------------------------
(* Frames.                                                                 *)

LEMMA NextSequence ==
  ASSUME NEW s \in Sequences
  PROVE  (s + 1) % SeqModulus \in Off .. SeqModulus - 1
  BY BoundAssumption DEF Sequences

LEMMA OnHelloInv ==
  ASSUME IInv, NEW s \in Sequences, NEW compatible \in BOOLEAN,
         OnHello(s, compatible)
  PROVE  IInv'
<1>1. HidInv(hid') /\ hid'.watchdog = Off
  BY Parts, ForceNeutral DEF OnHello, HidInv
<1>2. RumbleInv(rumble', rumble_told') /\ rumble'.lease = Off
  <2> DEFINE silenced == force_rumble_zero(rumble)
  <2>1. RumbleInv(silenced, rumble_told) /\ silenced.lease = Off
    BY Parts, ForceRumbleZero DEF RumbleInv
  <2>2. silenced \in RumbleState
    BY <2>1 DEF RumbleInv
  <2>3. /\ RumbleInv(begin_rumble_quarantine(silenced), rumble_told)
        /\ begin_rumble_quarantine(silenced).lease = Off
    BY <2>2, BeginRumbleQuarantine
  <2> QED
    BY <2>1, <2>3 DEF OnHello
<1>3. OtherTypes'
  <2>1. QueueInv(cdc_tx')
    BY Parts, SendMessage, MessageTypes DEF OnHello, OtherTypes
  <2>2. expected_sequence' \in Off .. SeqModulus - 1
    BY NextSequence DEF OnHello
  <2>3. /\ negotiated' \in BOOLEAN /\ device_info_pending' \in BOOLEAN
        /\ consecutive_errors' \in 0 .. ErrorLimit /\ faulted' \in BOOLEAN
    BY ResetTypes DEF OnHello, HasRoom
  <2> QED
    BY <2>1, <2>2, <2>3, Parts DEF OnHello, OtherTypes, connection, control
<1> QED
  BY <1>1, <1>2, <1>3, Parts, PartsPrime
     DEF OnHello, ArmedTimersAreServiced, OneControlRequest, control

LEMMA OnFrameUnnegotiatedInv == IInv /\ OnFrameUnnegotiated => IInv'
<1> SUFFICES ASSUME IInv, OnFrameUnnegotiated PROVE IInv'
  OBVIOUS
<1> QED
  BY Parts, PartsPrime, ResetTypes
     DEF OnFrameUnnegotiated, OtherTypes, ArmedTimersAreServiced,
         OneControlRequest, connection, handshake, control, InControlRequest

\* Checking the sequence number disarms timers or leaves them alone.
LEMMA Checked ==
  ASSUME IInv, NEW s
  PROVE  /\ HidInv(checked_hid(s))
         /\ checked_hid(s).watchdog \in {hid.watchdog, Off}
         /\ RumbleInv(checked_rumble(s), rumble_told)
         /\ checked_rumble(s).lease \in {rumble.lease, Off}
  BY Parts, ForceNeutral, ForceRumbleZero
     DEF checked_hid, checked_rumble, HidInv, RumbleInv

\* What a received frame leaves alone keeps its type.
LEMMA Received ==
  ASSUME IInv, NEW s \in Sequences, Receive(s),
         uf2' \in [request : RequestIds \cup {None}, ready : BOOLEAN,
                   ready_pending : BOOLEAN],
         receipt_request' \in ReceiptRequests \cup {None},
         QueueInv(cdc_tx')
  PROVE  OtherTypes' /\ negotiated'
  BY Parts, NextSequence, ResetTypes
     DEF Receive, OtherTypes, connection

LEMMA OnGamepadStateInv ==
  ASSUME IInv, NEW s \in Sequences, NEW r \in Reports, OnGamepadState(s, r)
  PROVE  IInv'
<1>1. Receive(s) /\ UNCHANGED <<uf2, receipt_request, cdc_tx>>
  BY DEF OnGamepadState
<1>2. OtherTypes' /\ negotiated' /\ rumble_told' = rumble_told
  BY <1>1, Received, Parts DEF OtherTypes, Receive
<1>3. RumbleInv(rumble', rumble_told') /\ rumble'.lease \in {rumble.lease, Off}
  BY <1>2, Checked DEF OnGamepadState
<1>4. HidInv(hid') /\ (InControlRequest => hid'.watchdog \in {hid.watchdog, Off})
  BY Checked, ApplyGamepad DEF OnGamepadState, HidInv
<1> QED
  BY <1>1, <1>2, <1>3, <1>4, Parts, PartsPrime
     DEF ArmedTimersAreServiced, OneControlRequest, InControlRequest

LEMMA OnNeutralInv ==
  ASSUME IInv, NEW s \in Sequences, OnNeutral(s)
  PROVE  IInv'
<1>1. Receive(s) /\ UNCHANGED <<uf2, receipt_request, cdc_tx>>
  BY DEF OnNeutral
<1>2. OtherTypes' /\ negotiated' /\ rumble_told' = rumble_told
  BY <1>1, Received, Parts DEF OtherTypes, Receive
<1>3. RumbleInv(rumble', rumble_told') /\ rumble'.lease \in {rumble.lease, Off}
  BY <1>2, Checked DEF OnNeutral
<1>4. HidInv(hid') /\ hid'.watchdog \in {hid.watchdog, Off}
  BY Checked, ForceNeutral DEF OnNeutral, HidInv
<1> QED
  BY <1>1, <1>2, <1>3, <1>4, Parts, PartsPrime
     DEF ArmedTimersAreServiced, OneControlRequest, InControlRequest

LEMMA OnPingInv ==
  ASSUME IInv, NEW s \in Sequences, OnPing(s)
  PROVE  IInv'
<1>1. Receive(s) /\ UNCHANGED <<uf2, receipt_request>>
  BY DEF OnPing
<1>2. QueueInv(cdc_tx')
  BY Parts, SendMessage, MessageTypes DEF OnPing, OtherTypes
<1>3. OtherTypes' /\ negotiated' /\ rumble_told' = rumble_told
  BY <1>1, <1>2, Received, Parts DEF OtherTypes, Receive
<1>4. RumbleInv(rumble', rumble_told') /\ rumble'.lease \in {rumble.lease, Off}
  BY <1>3, Checked DEF OnPing
<1>5. HidInv(hid') /\ hid'.watchdog \in {hid.watchdog, Off}
  BY Checked DEF OnPing
<1> QED
  BY <1>1, <1>3, <1>4, <1>5, Parts, PartsPrime
     DEF ArmedTimersAreServiced, OneControlRequest, InControlRequest

LEMMA OnUnexpectedFrameInv ==
  ASSUME IInv, NEW s \in Sequences, OnUnexpectedFrame(s)
  PROVE  IInv'
<1>1. Receive(s) /\ UNCHANGED <<uf2, receipt_request, cdc_tx>>
  BY DEF OnUnexpectedFrame
<1>2. OtherTypes' /\ negotiated' /\ rumble_told' = rumble_told
  BY <1>1, Received, Parts DEF OtherTypes, Receive
<1>3. RumbleInv(rumble', rumble_told') /\ rumble'.lease \in {rumble.lease, Off}
  BY <1>2, Checked DEF OnUnexpectedFrame
<1>4. HidInv(hid') /\ hid'.watchdog \in {hid.watchdog, Off}
  BY Checked DEF OnUnexpectedFrame
<1> QED
  BY <1>1, <1>2, <1>3, <1>4, Parts, PartsPrime
     DEF ArmedTimersAreServiced, OneControlRequest, InControlRequest

\* A control request that starts disarms both timers.
LEMMA CheckedAndSilenced ==
  ASSUME IInv, NEW s
  PROVE  /\ HidInv(force_neutral(checked_hid(s), TRUE))
         /\ force_neutral(checked_hid(s), TRUE).watchdog = Off
         /\ RumbleInv(force_rumble_zero(checked_rumble(s)), rumble_told)
         /\ force_rumble_zero(checked_rumble(s)).lease = Off
<1>1. HidShape(checked_hid(s)) /\ checked_rumble(s) \in RumbleState
  BY Checked DEF HidInv, RumbleInv
<1> QED
  BY <1>1, ForceNeutral, ForceRumbleZero

LEMMA OnEnterUf2BootloaderInv ==
  ASSUME IInv, NEW s \in Sequences, NEW id \in RequestIds,
         OnEnterUf2Bootloader(s, id)
  PROVE  IInv'
<1>1. Receive(s) /\ receipt_request' = receipt_request
  BY DEF OnEnterUf2Bootloader
<1>2. QueueInv(cdc_tx')
  <2>1. Error("Uf2TransitionBusy", id) \in Messages
    BY MessageTypes DEF ErrorCodes
  <2>2. cdc_tx' \in {cdc_tx,
                     send_message(cdc_tx, Error("Uf2TransitionBusy", id))}
    BY DEF OnEnterUf2Bootloader
  <2> QED
    BY <2>1, <2>2, Parts, SendMessage DEF OtherTypes
<1>3. rumble_told' = rumble_told
  BY <1>1 DEF Receive
<1>4. CASE InControlRequest
  <2>1. /\ hid' = checked_hid(s) /\ rumble' = checked_rumble(s)
        /\ uf2' = [uf2 EXCEPT !.ready_pending =
                     \/ uf2.ready_pending
                     \/ receipt_request = None /\ id = uf2.request /\ uf2.ready]
    BY <1>4 DEF OnEnterUf2Bootloader
  <2>2. /\ uf2' \in [request : RequestIds \cup {None}, ready : BOOLEAN,
                     ready_pending : BOOLEAN]
        /\ uf2'.request = uf2.request
    BY <2>1, Parts DEF OtherTypes
  <2>3. OtherTypes' /\ negotiated'
    BY <1>1, <1>2, <2>2, Received, Parts DEF OtherTypes
  <2> QED
    BY <1>1, <1>3, <2>1, <2>2, <2>3, Checked, Parts, PartsPrime
       DEF ArmedTimersAreServiced, OneControlRequest, InControlRequest
<1>5. CASE ~InControlRequest
  <2>1. /\ hid' = force_neutral(checked_hid(s), TRUE)
        /\ rumble' = force_rumble_zero(checked_rumble(s))
        /\ uf2' = [uf2 EXCEPT !.request = id]
    BY <1>5 DEF OnEnterUf2Bootloader
  <2>2. uf2' \in [request : RequestIds \cup {None}, ready : BOOLEAN,
                  ready_pending : BOOLEAN]
    BY <2>1, Parts DEF OtherTypes
  <2>3. OtherTypes' /\ negotiated'
    BY <1>1, <1>2, <2>2, Received, Parts DEF OtherTypes
  <2> QED
    BY <1>1, <1>3, <1>5, <2>1, <2>3, CheckedAndSilenced, PartsPrime
       DEF ArmedTimersAreServiced, OneControlRequest, InControlRequest
<1> QED
  BY <1>4, <1>5

LEMMA OnRecordInstallReceiptInv ==
  ASSUME IInv, NEW s \in Sequences, NEW request \in ReceiptRequests,
         OnRecordInstallReceipt(s, request)
  PROVE  IInv'
<1> DEFINE starts == ~InControlRequest /\ page \notin Receipts
<1>1. Receive(s) /\ uf2' = uf2
  BY DEF OnRecordInstallReceipt
<1>2. QueueInv(cdc_tx')
  <2>1. request.id \in RequestIds
    BY DEF ReceiptRequests
  <2>2. CASE ReceiptReply(request) = << >> \/ starts
    BY <2>2, Parts DEF OnRecordInstallReceipt, OtherTypes
  <2>3. CASE ReceiptReply(request) # << >> /\ ~starts
    <3>1. PICK m \in Messages : ReceiptReply(request) = <<m>>
      BY <2>1, <2>3, MessageTypes DEF ReceiptReply, ErrorCodes
    <3>2. cdc_tx' = send_message(cdc_tx, m)
      BY <2>3, <3>1 DEF OnRecordInstallReceipt
    <3> QED
      BY <3>2, SendMessage, Parts DEF OtherTypes
  <2> QED
    BY <2>2, <2>3
<1>3. rumble_told' = rumble_told
  BY <1>1 DEF Receive
<1>4. receipt_request' \in {receipt_request, request}
  BY DEF OnRecordInstallReceipt
<1>5. OtherTypes' /\ negotiated'
  BY <1>1, <1>2, <1>4, Received, Parts DEF OtherTypes
<1>6. CASE starts
  <2>1. /\ hid' = force_neutral(checked_hid(s), TRUE)
        /\ rumble' = force_rumble_zero(checked_rumble(s))
    BY <1>6 DEF OnRecordInstallReceipt
  <2> QED
    BY <1>1, <1>3, <1>5, <1>6, <2>1, CheckedAndSilenced, PartsPrime
       DEF ArmedTimersAreServiced, OneControlRequest, InControlRequest
<1>7. CASE ~starts
  <2>1. /\ hid' = checked_hid(s) /\ rumble' = checked_rumble(s)
        /\ receipt_request' = receipt_request
    BY <1>7 DEF OnRecordInstallReceipt
  <2> QED
    BY <1>1, <1>3, <1>5, <2>1, Checked, Parts, PartsPrime
       DEF ArmedTimersAreServiced, OneControlRequest, InControlRequest
<1> QED
  BY <1>6, <1>7

LEMMA OnDecodeErrorInv == IInv /\ OnDecodeError => IInv'
<1> SUFFICES ASSUME IInv, OnDecodeError PROVE IInv'
  OBVIOUS
<1> DEFINE errors == IF consecutive_errors < ErrorLimit
                     THEN consecutive_errors + 1 ELSE ErrorLimit
<1>1. errors \in 0 .. ErrorLimit /\ consecutive_errors' = errors
  BY Parts DEF OnDecodeError, OtherTypes, ErrorLimit
<1>2. CASE errors = ErrorLimit
  <2>1. /\ hid' = force_neutral(hid, TRUE) /\ rumble' = force_rumble_zero(rumble)
        /\ faulted' = TRUE /\ negotiated' = FALSE /\ expected_sequence' = Off
        /\ UNCHANGED <<connection, device_info_pending, rumble_told, control,
                       cdc_tx>>
    BY <1>2 DEF OnDecodeError
  <2>2. HidInv(hid') /\ hid'.watchdog = Off
    BY <2>1, Parts, ForceNeutral DEF HidInv
  <2>3. RumbleInv(rumble', rumble_told') /\ rumble'.lease = Off
    BY <2>1, Parts, ForceRumbleZero DEF RumbleInv
  <2>4. OtherTypes'
    BY <1>1, <2>1, Parts, ResetTypes DEF OtherTypes, connection, control
  <2> QED
    BY <2>1, <2>2, <2>3, <2>4, Parts, PartsPrime
       DEF ArmedTimersAreServiced, OneControlRequest, control
<1>3. CASE errors # ErrorLimit
  <2>1. /\ UNCHANGED <<faulted, negotiated, expected_sequence, hid, rumble>>
        /\ UNCHANGED <<connection, device_info_pending, rumble_told, control,
                       cdc_tx>>
    BY <1>3 DEF OnDecodeError
  <2> QED
    BY <1>1, <2>1, Parts, PartsPrime
       DEF OtherTypes, ArmedTimersAreServiced, OneControlRequest, connection,
           control, InControlRequest
<1> QED
  BY <1>2, <1>3

-----------------------------------------------------------------------------
(* The tick.                                                               *)

\* Serving the rumble queue keeps the queues' invariants, and no lease starts.
LEMMA ServeRumble ==
  ASSUME IInv, NEW calm, RumbleInv(calm, rumble_told),
         NEW queue, QueueInv(queue)
  PROVE  /\ RumbleInv(ServiceRumble(calm, queue).rumble,
                      ServiceRumble(calm, queue).told)
         /\ calm.lease = Off => ServiceRumble(calm, queue).rumble.lease = Off
         /\ ServiceRumble(calm, queue).told \in Rumbles \cup {NoRumble}
         /\ QueueInv(ServiceRumble(calm, queue).queue)
<1> DEFINE due  == IF negotiated THEN due_rumble(calm) ELSE calm
           sent == negotiated /\ due.pending # NoRumble /\ HasRoom(queue)
<1>1. /\ RumbleInv(due, rumble_told)
      /\ calm.lease = Off => due.lease = Off
  BY DueRumble
<1>2. rumble_told \in Rumbles \cup {NoRumble}
  BY Parts DEF OtherTypes
<1>3. CASE sent
  <2>1. ServiceRumble(calm, queue)
          = [rumble |-> rumble_sent(due), told |-> due.pending,
             queue |-> Append(queue, Rumble(due.pending))]
    BY <1>3 DEF ServiceRumble
  <2>2. due.pending # NoRumble /\ due.pending \in Rumbles /\ HasRoom(queue)
    BY <1>1, <1>3 DEF RumbleInv, RumbleState
  <2>3. QueueInv(Append(queue, Rumble(due.pending)))
    BY <2>2, SendMessage, MessageTypes
  <2> HIDE DEF due
  <2>4. /\ RumbleInv(rumble_sent(due), due.pending)
        /\ rumble_sent(due).lease = due.lease
    BY <1>1, <2>2, RumbleSent
  <2> QED
    BY <1>1, <2>1, <2>2, <2>3, <2>4
<1>4. CASE ~sent
  <2>1. ServiceRumble(calm, queue)
          = [rumble |-> due, told |-> rumble_told, queue |-> queue]
    BY <1>4 DEF ServiceRumble
  <2> QED
    BY <1>1, <1>2, <2>1
<1> QED
  BY <1>3, <1>4

\* Serving the UF2 request keeps the request.
LEMMA ServeUf2 ==
  ASSUME IInv, NEW quiet, NEW queue, QueueInv(queue),
         ServiceUf2Bootloader(quiet, queue)
  PROVE  /\ QueueInv(cdc_tx')
         /\ uf2' \in [request : RequestIds \cup {None}, ready : BOOLEAN,
                      ready_pending : BOOLEAN]
         /\ uf2'.request = uf2.request
<1>1. CASE quiet /\ uf2.request # None /\ (~uf2.ready \/ uf2.ready_pending)
  <2>1. Uf2BootloaderReady(uf2.request) \in Messages
    BY <1>1, Parts, MessageTypes DEF OtherTypes
  <2>2. /\ cdc_tx' = send_message(queue, Uf2BootloaderReady(uf2.request))
        /\ \/ uf2' = [uf2 EXCEPT !.ready = TRUE, !.ready_pending = FALSE]
           \/ uf2' = uf2
    BY <1>1 DEF ServiceUf2Bootloader
  <2>3. QueueInv(cdc_tx')
    BY <2>1, <2>2, SendMessage
  <2> QED
    BY <2>2, <2>3, Parts DEF OtherTypes
<1>2. CASE ~(quiet /\ uf2.request # None /\ (~uf2.ready \/ uf2.ready_pending))
  BY <1>2, Parts DEF ServiceUf2Bootloader, OtherTypes
<1> QED
  BY <1>1, <1>2

\* Serving the receipt request ends it or leaves it; flash stays a page state.
LEMMA ServeControl ==
  ASSUME IInv, NEW quiet, NEW queue, QueueInv(queue),
         ServiceControl(quiet, queue)
  PROVE  /\ QueueInv(cdc_tx')
         /\ uf2' \in [request : RequestIds \cup {None}, ready : BOOLEAN,
                      ready_pending : BOOLEAN]
         /\ uf2'.request = uf2.request
         /\ receipt_request' \in {receipt_request, None}
         /\ page' \in PageStates
<1>1. CASE /\ quiet /\ receipt_request # None
           /\ \E outcome \in ReceiptOutcomes(receipt_request) :
                /\ page' = outcome.page
                /\ ServiceUf2Bootloader(quiet, send_message(queue, outcome.reply))
           /\ receipt_request' = IF HasRoom(queue) THEN None ELSE receipt_request
  <2>1. receipt_request \in ReceiptRequests
    BY <1>1, Parts DEF OtherTypes
  <2>2. receipt_request.id \in RequestIds /\ receipt_request.receipt \in Receipts
    BY <2>1 DEF ReceiptRequests
  <2>3. PICK outcome \in ReceiptOutcomes(receipt_request) :
          /\ page' = outcome.page
          /\ ServiceUf2Bootloader(quiet, send_message(queue, outcome.reply))
    BY <1>1
  <2>4. /\ Error("InstallReceiptRejected", receipt_request.id) \in Messages
        /\ Error("InstallReceiptReadbackMismatch", receipt_request.id) \in Messages
        /\ InstallReceiptRecorded(receipt_request) \in Messages
    BY <2>1, <2>2, MessageTypes DEF ErrorCodes
  <2>5. outcome.page \in PageStates /\ outcome.reply \in Messages
    <3>1. page \in PageStates
      BY Parts DEF OtherTypes
    <3>2. CASE page = Corrupt
      <4>1. ReceiptOutcomes(receipt_request)
              = {[page |-> page,
                  reply |-> Error("InstallReceiptRejected", receipt_request.id)]}
        BY <3>2, ControlAssumption DEF ReceiptOutcomes
      <4> QED
        BY <2>3, <2>4, <3>1, <4>1
    <3>3. CASE page = Blank
      <4> DEFINE recorded == [page |-> receipt_request.receipt,
                              reply |-> InstallReceiptRecorded(receipt_request)]
                 failed == [page : {Blank, Corrupt, receipt_request.receipt},
                            reply : {Error("InstallReceiptRejected",
                                           receipt_request.id)}]
      <4>1. ReceiptOutcomes(receipt_request) = {recorded} \cup failed
        BY <3>3, ControlAssumption DEF ReceiptOutcomes
      <4>2. CASE outcome = recorded
        BY <2>2, <2>4, <4>2 DEF PageStates
      <4>3. CASE outcome \in failed
        BY <2>2, <2>4, <4>3 DEF PageStates
      <4> QED
        BY <2>3, <4>1, <4>2, <4>3
    <3>4. CASE page # Corrupt /\ page # Blank
      BY <2>3, <2>4, <3>1, <3>4 DEF ReceiptOutcomes
    <3> QED
      BY <3>2, <3>3, <3>4
  <2>6. QueueInv(send_message(queue, outcome.reply))
    BY <2>5, SendMessage
  <2> QED
    BY <1>1, <2>3, <2>5, <2>6, ServeUf2
<1>2. CASE /\ UNCHANGED <<page, receipt_request>>
           /\ ServiceUf2Bootloader(quiet, queue)
  BY <1>2, ServeUf2, Parts DEF OtherTypes
<1> QED
  BY <1>1, <1>2 DEF ServiceControl

LEMMA TickInv == IInv /\ Tick => IInv'
<1> SUFFICES ASSUME IInv, Tick PROVE IInv'
  OBVIOUS
<1> DEFINE calm   == IF WatchdogExpired THEN force_rumble_zero(rumble) ELSE rumble
           info   == ServiceDeviceInfo(cdc_tx)
           served == ServiceRumble(calm, info)
<1>1. RumbleInv(calm, rumble_told) /\ (rumble.lease = Off => calm.lease = Off)
  BY Parts, ForceRumbleZero DEF RumbleInv
<1>2. QueueInv(info)
  BY Parts, SendMessage, MessageTypes DEF ServiceDeviceInfo, OtherTypes
<1>3. /\ rumble' = served.rumble /\ rumble_told' = served.told
      /\ ServiceControl(NothingLeftToSend(hid', rumble'), served.queue)
      /\ hid' = IF WatchdogExpired THEN force_neutral(hid, TRUE) ELSE hid
      /\ faulted' = (faulted \/ WatchdogExpired)
      /\ device_info_pending' =
           (device_info_pending /\ ~(InfoDue /\ HasRoom(cdc_tx)))
      /\ UNCHANGED <<connection, negotiated, expected_sequence,
                     consecutive_errors>>
  BY DEF Tick
<1> HIDE DEF calm, info
<1>4. /\ RumbleInv(served.rumble, served.told)
      /\ calm.lease = Off => served.rumble.lease = Off
      /\ served.told \in Rumbles \cup {NoRumble}
      /\ QueueInv(served.queue)
  BY <1>1, <1>2, ServeRumble
<1> HIDE DEF served
<1>5. HidInv(hid') /\ hid'.watchdog \in {hid.watchdog, Off}
  BY <1>3, Parts, ForceNeutral DEF HidInv
<1>6. /\ QueueInv(cdc_tx')
      /\ uf2' \in [request : RequestIds \cup {None}, ready : BOOLEAN,
                   ready_pending : BOOLEAN]
      /\ uf2'.request = uf2.request
      /\ receipt_request' \in {receipt_request, None}
      /\ page' \in PageStates
  BY <1>3, <1>4, ServeControl
<1>7. faulted' \in BOOLEAN /\ device_info_pending' \in BOOLEAN
  BY <1>3
<1>8. OtherTypes'
  BY <1>3, <1>4, <1>6, <1>7, Parts DEF OtherTypes, connection
<1> QED
  BY <1>1, <1>3, <1>4, <1>5, <1>6, <1>8, Parts, PartsPrime
     DEF ArmedTimersAreServiced, OneControlRequest, InControlRequest

-----------------------------------------------------------------------------
(* Theorems.                                                               *)

LEMMA NextInv == IInv /\ [Next]_vars => IInv'
<1> SUFFICES ASSUME IInv, [Next]_vars PROVE IInv'
  OBVIOUS
<1>1. CASE ConnectionEdge
  BY <1>1, OnCdcConnectedInv, OnCdcDisconnectedInv, OnHidMountedInv, RebootInv
     DEF ConnectionEdge
<1>2. CASE HostFrame
  BY <1>2, OnHelloInv, OnFrameUnnegotiatedInv, OnGamepadStateInv, OnNeutralInv,
     OnPingInv, OnUnexpectedFrameInv, OnEnterUf2BootloaderInv,
     OnRecordInstallReceiptInv, OnDecodeErrorInv
     DEF HostFrame, Handshake
<1>3. CASE \E r \in Rumbles : OnXinputRumble(r)
  BY <1>3, OnXinputRumbleInv
<1>4. CASE ServiceCdcTx
  BY <1>4, ServiceCdcTxInv
<1>5. CASE MarkHidReportSent
  BY <1>5, MarkHidReportSentInv
<1>6. CASE Tick
  BY <1>6, TickInv
<1>7. CASE Advance
  BY <1>7, AdvanceInv
<1>8. CASE UNCHANGED vars
  BY <1>8, Parts, PartsPrime
     DEF vars, connection, handshake, health, control, OtherTypes,
         ArmedTimersAreServiced, OneControlRequest, InControlRequest
<1> QED
  BY <1>1, <1>2, <1>3, <1>4, <1>5, <1>6, <1>7, <1>8 DEF Next

\* Every reachable state of the session satisfies the inductive invariant.
THEOREM Invariance == Spec => []IInv
<1>1. Init => IInv
  BY InitInv
<1>2. IInv /\ [Next]_vars => IInv'
  BY NextInv
<1> QED
  BY <1>1, <1>2, PTL DEF Spec

\* Every variable keeps its type, whatever the constants.
THEOREM TypeCorrect == Spec => []TypeOK
<1>1. IInv => TypeOK
  BY DEF IInv
<1> QED
  BY <1>1, Invariance, PTL

\* If the HID queue can drain into an active report, the data watchdog runs.
THEOREM InputWatched == Spec => []ActiveInputIsWatched
<1>1. IInv => ActiveInputIsWatched
  BY DEF IInv, HidInv, ActiveInputIsWatched, Destined, DestinedOf
<1> QED
  BY <1>1, Invariance, PTL

\* The endpoint is only sent changes, and safety neutrals are neutrals.
THEOREM OnlyChangesSent == Spec => []EndpointSeesOnlyChanges
<1>1. IInv => EndpointSeesOnlyChanges
  BY DEF IInv, HidInv, HidShape, EndpointSeesOnlyChanges
<1> QED
  BY <1>1, Invariance, PTL

\* A timer is armed only while every tick looks at it.
THEOREM TimersServiced == Spec => []ArmedTimersAreServiced
<1>1. IInv => ArmedTimersAreServiced
  BY DEF IInv
<1> QED
  BY <1>1, Invariance, PTL

\* While a control request stands the device can only be left released: an
\* active report or intensity would need a timer that is not armed then.
THEOREM ControlFreezes == Spec => []ControlRequestFreezesDevice
<1>1. IInv => ControlRequestFreezesDevice
  BY DEF IInv, HidInv, RumbleInv, Intended, ArmedTimersAreServiced,
         OneControlRequest, ControlRequestFreezesDevice, Destined, DestinedOf
<1> QED
  BY <1>1, Invariance, PTL

\* Every intensity on its way to the host, or playing there, is leased or
\* about to be stopped.
THEOREM RumbleLeased == Spec => []RumbleIsLeased
<1>1. IInv => RumbleIsLeased
  BY DEF IInv, RumbleInv, Intended, RumbleIsLeased
<1> QED
  BY <1>1, Invariance, PTL

\* In quarantine the motors are off or about to be stopped.
THEOREM QuarantineSilent == Spec => []QuarantineIsSilent
<1>1. IInv => QuarantineIsSilent
  BY DEF IInv, RumbleInv, Intended, QuarantineIsSilent
<1> QED
  BY <1>1, Invariance, PTL

\* What the game sees: no active report outlives its watchdog, and the endpoint
\* is asked only for changes.
THEOREM InputSafe == Spec => []InputIsSafe
  BY InputWatched, OnlyChangesSent, PTL DEF InputIsSafe

\* What the motors do: every intensity is leased, none runs in quarantine, and
\* the timers that end them are looked at.
THEOREM RumbleSafe == Spec => []RumbleIsSafe
  BY RumbleLeased, QuarantineSilent, TimersServiced, PTL DEF RumbleIsSafe

-----------------------------------------------------------------------------
(* Safety reports come first.                                              *)

\* `g` follows from `h` by queueing: the endpoint is where it was, and a
\* pending safety neutral still pends unless the endpoint holds a neutral.
Queued(h, g) == g.last = h.last /\ (h.safety => g.safety \/ g.last = Neutral)

\* The queue as a step of the session may leave it (SafetyNeutralComesFirst).
NeutralStep(h, g) ==
  h.safety => \/ g.safety /\ g.last \in {h.last, NoReport}
              \/ g.last = Neutral

LEMMA QueuedHid ==
  ASSUME NEW h \in HidState, NEW r \in Reports, NEW safety \in BOOLEAN,
         safety => r = Neutral
  PROVE  Queued(h, queue_hid(h, r, safety))
  BY DEF HidState, queue_hid, Queued

LEMMA QueuedNeutral ==
  ASSUME NEW h \in HidState, NEW safety \in BOOLEAN
  PROVE  Queued(h, force_neutral(h, safety))
<1> DEFINE g == [h EXCEPT !.watchdog = Off]
<1>1. g \in HidState /\ g.last = h.last /\ g.safety = h.safety
  BY BoundAssumption DEF HidState
<1>2. force_neutral(h, safety) = queue_hid(g, Neutral, safety)
  BY DEF force_neutral
<1> HIDE DEF g
<1>3. Queued(g, queue_hid(g, Neutral, safety))
  BY <1>1, QueuedHid, ReportAssumption
<1> QED
  BY <1>1, <1>2, <1>3 DEF Queued

LEMMA QueuedGamepad ==
  ASSUME NEW h \in HidState, NEW r \in Reports
  PROVE  Queued(h, apply_gamepad(h, r))
<1> DEFINE g == [h EXCEPT !.watchdog = IF r = Neutral THEN Off ELSE 0]
<1>1. g \in HidState /\ g.last = h.last /\ g.safety = h.safety
  BY BoundAssumption DEF HidState
<1>2. apply_gamepad(h, r) = queue_hid(g, r, FALSE)
  BY DEF apply_gamepad
<1> HIDE DEF g
<1>3. Queued(g, queue_hid(g, r, FALSE))
  BY <1>1, QueuedHid
<1> QED
  BY <1>1, <1>2, <1>3 DEF Queued

\* A frame is queued behind what its sequence check has queued.
LEMMA QueuedChecked ==
  ASSUME IInv, NEW s
  PROVE  /\ checked_hid(s) \in HidState
         /\ Queued(hid, checked_hid(s))
         /\ Queued(hid, force_neutral(checked_hid(s), TRUE))
         /\ Queued(hid, force_neutral(checked_hid(s), FALSE))
         /\ \A r \in Reports : Queued(hid, apply_gamepad(checked_hid(s), r))
<1>1. hid \in HidState /\ checked_hid(s) \in HidState
  BY Parts, Checked DEF HidInv, HidShape
<1>2. Queued(hid, checked_hid(s))
  BY <1>1, QueuedNeutral DEF checked_hid, Queued
<1>3. /\ Queued(checked_hid(s), force_neutral(checked_hid(s), TRUE))
      /\ Queued(checked_hid(s), force_neutral(checked_hid(s), FALSE))
  BY <1>1, QueuedNeutral
<1>4. \A r \in Reports :
        Queued(checked_hid(s), apply_gamepad(checked_hid(s), r))
  BY <1>1, QueuedGamepad
<1> HIDE DEF Queued
<1>5. \A g : Queued(checked_hid(s), g) => Queued(hid, g)
  BY <1>2 DEF Queued
<1> QED
  BY <1>1, <1>2, <1>3, <1>4, <1>5

\* The endpoint takes the safety neutral itself.
LEMMA SentNeutral ==
  ASSUME NEW h, HidShape(h)
  PROVE  NeutralStep(h, mark_sent(h))
<1> SUFFICES ASSUME h.safety PROVE mark_sent(h).last = Neutral
  BY DEF NeutralStep
<1> DEFINE next == [h EXCEPT !.last = Neutral, !.pending = NoReport,
                             !.safety = FALSE, !.deferred = NoReport]
<1>1. next \in HidState /\ next.last = Neutral
  BY ReportAssumption DEF HidShape, HidState
<1>2. CASE h.deferred # NoReport
  <2>1. mark_sent(h) = queue_hid(next, h.deferred, FALSE)
    BY <1>2 DEF mark_sent, HidShape, HidState
  <2>2. h.deferred \in Reports
    BY <1>2 DEF HidShape, HidState
  <2> HIDE DEF next
  <2>3. Queued(next, queue_hid(next, h.deferred, FALSE))
    BY <1>1, <2>2, QueuedHid
  <2> QED
    BY <1>1, <2>1, <2>3 DEF Queued
<1>3. CASE h.deferred = NoReport
  BY <1>3 DEF mark_sent, HidShape, HidState
<1> QED
  BY <1>2, <1>3

\* Every step treats the HID queue in one of these ways.
LEMMA NeutralFirst == IInv /\ [Next]_vars => NeutralStep(hid, hid')
<1> SUFFICES ASSUME IInv, [Next]_vars PROVE NeutralStep(hid, hid')
  OBVIOUS
<1>1. hid \in HidState /\ HidShape(hid)
  BY Parts DEF HidInv, HidShape
<1>2. Queued(hid, hid') => NeutralStep(hid, hid')
  BY DEF Queued, NeutralStep
<1>3. Queued(hid, hid) /\ Queued(hid, force_neutral(hid, TRUE))
  BY <1>1, QueuedNeutral DEF Queued
<1>4. CASE OnCdcConnected \/ OnCdcDisconnected
  BY <1>2, <1>3, <1>4 DEF OnCdcConnected, OnCdcDisconnected, ResetSession
<1>5. CASE OnHidMounted
  <2> DEFINE h == [hid EXCEPT !.last = NoReport]
  <2>1. h \in HidState /\ h.last = NoReport /\ h.safety = hid.safety
    BY <1>1 DEF HidState
  <2>2. hid' = force_neutral(h, TRUE)
    BY <1>5 DEF OnHidMounted
  <2> HIDE DEF h
  <2>3. Queued(h, hid')
    BY <2>1, <2>2, QueuedNeutral
  <2> QED
    BY <2>1, <2>3 DEF Queued, NeutralStep
<1>6. CASE Reboot
  BY <1>6 DEF Reboot, BootHid, NeutralStep
<1>7. CASE \E s \in Sequences, compatible \in BOOLEAN : OnHello(s, compatible)
  BY <1>2, <1>3, <1>7 DEF OnHello
<1>8. CASE OnFrameUnnegotiated \/ ServiceCdcTx \/ UNCHANGED vars
  BY <1>2, <1>3, <1>8 DEF OnFrameUnnegotiated, ServiceCdcTx, vars
<1>9. CASE \E s \in Sequences, r \in Reports : OnGamepadState(s, r)
  BY <1>2, <1>9, QueuedChecked DEF OnGamepadState
<1>10. CASE \E s \in Sequences : OnNeutral(s) \/ OnPing(s) \/ OnUnexpectedFrame(s)
  BY <1>2, <1>10, QueuedChecked DEF OnNeutral, OnPing, OnUnexpectedFrame
<1>11. CASE \E s \in Sequences, id \in RequestIds : OnEnterUf2Bootloader(s, id)
  BY <1>2, <1>11, QueuedChecked DEF OnEnterUf2Bootloader
<1>12. CASE \E s \in Sequences, req \in ReceiptRequests :
              OnRecordInstallReceipt(s, req)
  BY <1>2, <1>12, QueuedChecked DEF OnRecordInstallReceipt
<1>13. CASE OnDecodeError
  BY <1>2, <1>3, <1>13 DEF OnDecodeError
<1>14. CASE \E r \in Rumbles : OnXinputRumble(r)
  BY <1>2, <1>3, <1>14 DEF OnXinputRumble
<1>15. CASE MarkHidReportSent
  BY <1>1, <1>15, SentNeutral DEF MarkHidReportSent
<1>16. CASE Tick
  BY <1>2, <1>3, <1>16 DEF Tick
<1>17. CASE Advance
  BY <1>1, <1>17 DEF Advance, HidState, NeutralStep
<1> QED
  BY <1>4, <1>5, <1>6, <1>7, <1>8, <1>9, <1>10, <1>11, <1>12, <1>13, <1>14,
     <1>15, <1>16, <1>17 DEF Next, ConnectionEdge, HostFrame, Handshake

\* A pending safety neutral reaches the endpoint before any other report.
THEOREM NeutralComesFirst == Spec => SafetyNeutralComesFirst
<1>1. IInv /\ [Next]_vars =>
        [hid.safety => \/ hid'.safety /\ hid'.last \in {hid.last, NoReport}
                       \/ hid'.last = Neutral]_vars
  BY NeutralFirst DEF NeutralStep
<1> QED
  BY <1>1, Invariance, PTL DEF Spec, SafetyNeutralComesFirst

\* The rumble queue and the host's motors as a step may leave them
\* (SafetyZeroComesFirst).
ZeroStep(u, told, v, now) ==
  u.safety => \/ v.safety /\ now \in {told, NoRumble}
              \/ now = Zero

LEMMA ZeroPends ==
  ASSUME NEW u \in RumbleState
  PROVE  force_rumble_zero(u).safety /\ begin_rumble_quarantine(u).safety
<1>1. \A v \in RumbleState : force_rumble_zero(v).safety
  BY DEF force_rumble_zero, queue_rumble, RumbleState
<1>2. [u EXCEPT !.quarantine = 0] \in RumbleState
  BY BoundAssumption DEF RumbleState
<1> QED
  BY <1>1, <1>2 DEF begin_rumble_quarantine

\* An Xbox OUT report only defers its intensity.
LEMMA DeferredBehindZero ==
  ASSUME NEW u \in RumbleState, u.safety, NEW r \in Rumbles
  PROVE  xinput_rumble(u, r).safety
<1>1. CASE ~IsRumbling(r)
  <2>1. [u EXCEPT !.quarantine = Off] \in RumbleState
    BY BoundAssumption DEF RumbleState
  <2> QED
    BY <1>1, <2>1, ZeroPends DEF xinput_rumble
<1>2. CASE IsRumbling(r) /\ u.quarantine # Off
  BY <1>2 DEF xinput_rumble, RumbleState
<1>3. CASE IsRumbling(r) /\ u.quarantine = Off
  BY <1>3 DEF xinput_rumble, queue_rumble, RumbleState
<1> QED
  BY <1>1, <1>2, <1>3

\* Nothing that falls due replaces a pending zero.
LEMMA ZeroStaysDue ==
  ASSUME NEW told, NEW u, RumbleInv(u, told), u.safety
  PROVE  due_rumble(u).safety /\ due_rumble(u).pending = Zero
<1> DEFINE quiet == IF u.quarantine = QuietMs THEN [u EXCEPT !.quarantine = Off]
                    ELSE u
           leased == IF quiet.lease = LeaseMs THEN force_rumble_zero(quiet)
                     ELSE quiet
<1>1. quiet \in RumbleState /\ quiet.safety /\ quiet.pending = Zero
  BY BoundAssumption DEF RumbleInv, RumbleState
<1>2. leased.safety /\ leased.pending = Zero
  <2> HIDE DEF quiet
  <2> QED
    BY <1>1, ZeroPends, ForceRumbleZero DEF RumbleInv
<1>3. leased.pending # NoRumble
  BY <1>2, RumbleAssumption
<1>4. due_rumble(u) = leased
  BY <1>3 DEF due_rumble
<1> QED
  BY <1>2, <1>4

\* Every step treats the rumble queue in one of these ways.
LEMMA ZeroFirst ==
  IInv /\ [Next]_vars => ZeroStep(rumble, rumble_told, rumble', rumble_told')
<1> SUFFICES ASSUME IInv, [Next]_vars, rumble.safety
             PROVE  \/ rumble'.safety /\ rumble_told' \in {rumble_told, NoRumble}
                    \/ rumble_told' = Zero
  BY DEF ZeroStep
<1>1. rumble \in RumbleState /\ RumbleInv(rumble, rumble_told)
  BY Parts DEF RumbleInv
<1>2. force_rumble_zero(rumble).safety /\ begin_rumble_quarantine(rumble).safety
  BY <1>1, ZeroPends
<1>3. \A s : /\ checked_rumble(s).safety
             /\ force_rumble_zero(checked_rumble(s)).safety
  <2> SUFFICES ASSUME NEW s
               PROVE  /\ checked_rumble(s).safety
                      /\ force_rumble_zero(checked_rumble(s)).safety
    OBVIOUS
  <2>1. checked_rumble(s) \in RumbleState
    BY Checked DEF RumbleInv
  <2> QED
    BY <1>2, <2>1, ZeroPends DEF checked_rumble
<1>4. CASE OnCdcConnected
  BY <1>2, <1>4 DEF OnCdcConnected, ResetSession
<1>5. CASE OnCdcDisconnected
  <2>1. [rumble EXCEPT !.quarantine = Off] \in RumbleState
    BY <1>1, BoundAssumption DEF RumbleState
  <2> QED
    BY <1>5, <2>1, ZeroPends DEF OnCdcDisconnected, ResetSession
<1>6. CASE OnHidMounted
  BY <1>2, <1>6 DEF OnHidMounted
<1>7. CASE Reboot
  BY <1>7 DEF Reboot, BootRumble
<1>8. CASE \E s \in Sequences, compatible \in BOOLEAN : OnHello(s, compatible)
  <2>1. force_rumble_zero(rumble) \in RumbleState
    BY <1>1, ForceRumbleZero DEF RumbleInv
  <2> QED
    BY <1>2, <1>8, <2>1, ZeroPends DEF OnHello
<1>9. CASE \/ OnFrameUnnegotiated \/ ServiceCdcTx \/ MarkHidReportSent
           \/ UNCHANGED vars
  BY <1>9 DEF OnFrameUnnegotiated, ServiceCdcTx, MarkHidReportSent, vars
<1>10. CASE \E s \in Sequences : \/ \E r \in Reports : OnGamepadState(s, r)
                                 \/ OnNeutral(s) \/ OnPing(s)
                                 \/ OnUnexpectedFrame(s)
  BY <1>3, <1>10 DEF OnGamepadState, OnNeutral, OnPing, OnUnexpectedFrame, Receive
<1>11. CASE \E s \in Sequences, id \in RequestIds : OnEnterUf2Bootloader(s, id)
  BY <1>3, <1>11 DEF OnEnterUf2Bootloader, Receive
<1>12. CASE \E s \in Sequences, req \in ReceiptRequests :
              OnRecordInstallReceipt(s, req)
  BY <1>3, <1>12 DEF OnRecordInstallReceipt, Receive
<1>13. CASE OnDecodeError
  BY <1>2, <1>13 DEF OnDecodeError
<1>14. CASE \E r \in Rumbles : OnXinputRumble(r)
  BY <1>1, <1>14, DeferredBehindZero DEF OnXinputRumble
<1>15. CASE Tick
  <2> DEFINE calm == IF WatchdogExpired THEN force_rumble_zero(rumble) ELSE rumble
             info == ServiceDeviceInfo(cdc_tx)
             due  == IF negotiated THEN due_rumble(calm) ELSE calm
             sent == negotiated /\ due.pending # NoRumble /\ HasRoom(info)
  <2>1. /\ rumble' = ServiceRumble(calm, info).rumble
        /\ rumble_told' = ServiceRumble(calm, info).told
    BY <1>15 DEF Tick
  <2>2. RumbleInv(calm, rumble_told) /\ calm.safety
    BY <1>1, <1>2, ForceRumbleZero
  <2> HIDE DEF calm, info
  <2>3. negotiated => due.safety /\ due.pending = Zero
    BY <2>2, ZeroStaysDue
  <2>4. CASE sent
    BY <2>1, <2>3, <2>4 DEF ServiceRumble
  <2>5. CASE ~sent
    BY <2>1, <2>2, <2>3, <2>5 DEF ServiceRumble
  <2> QED
    BY <2>4, <2>5
<1>16. CASE Advance
  BY <1>1, <1>16 DEF Advance, RumbleState
<1> QED
  BY <1>4, <1>5, <1>6, <1>7, <1>8, <1>9, <1>10, <1>11, <1>12, <1>13, <1>14,
     <1>15, <1>16 DEF Next, ConnectionEdge, HostFrame, Handshake

\* A pending safety zero reaches the host before any other intensity.
THEOREM ZeroComesFirst == Spec => SafetyZeroComesFirst
<1>1. IInv /\ [Next]_vars =>
        [rumble.safety =>
           \/ rumble'.safety /\ rumble_told' \in {rumble_told, NoRumble}
           \/ rumble_told' = Zero]_vars
  BY ZeroFirst DEF ZeroStep
<1> QED
  BY <1>1, Invariance, PTL DEF Spec, SafetyZeroComesFirst

-----------------------------------------------------------------------------
(* Control requests.                                                       *)

\* What message m says of a control request is true of the request u and the
\* flash page p.
Vouches(m, u, p) ==
  /\ m.type = "Uf2BootloaderReady" => m.id = u.request /\ u.ready
  /\ m.type = "InstallReceiptRecorded" => m.request.receipt = p
Vouched(queue, u, p) == \A i \in 1 .. Len(queue) : Vouches(queue[i], u, p)

ControlInv == ReadyMeansReleased /\ AnswersAreTrue
ControlStep == ControlInv' /\ FlashIsWrittenAtRest

LEMMA AnswersVouched == AnswersAreTrue <=> Vouched(cdc_tx, uf2, page)
  BY DEF AnswersAreTrue, Vouched, Vouches
LEMMA AnswersVouchedPrime == AnswersAreTrue' <=> Vouched(cdc_tx', uf2', page')
  BY DEF AnswersAreTrue, Vouched, Vouches

\* No other message says anything of a control request.
LEMMA OthersVouch ==
  ASSUME NEW u, NEW p
  PROVE  /\ Vouches(HelloResponse, u, p) /\ Vouches(Pong, u, p)
         /\ \A s : Vouches(DeviceInfo(s), u, p)
         /\ \A r : Vouches(Rumble(r), u, p)
         /\ \A code, id : Vouches(Error(code, id), u, p)
  BY DEF Vouches, HelloResponse, Pong, DeviceInfo, Rumble, Error

LEMMA SentVouched ==
  ASSUME NEW queue, QueueInv(queue), NEW u, NEW p, Vouched(queue, u, p),
         NEW m \in Messages, Vouches(m, u, p)
  PROVE  Vouched(send_message(queue, m), u, p) /\ Vouched(Append(queue, m), u, p)
<1> HIDE DEF Vouches
<1>1. queue \in Seq(Messages)
  BY DEF QueueInv
<1>2. Vouched(Append(queue, m), u, p)
  BY <1>1 DEF Vouched
<1> QED
  BY <1>2 DEF send_message

\* The host has read the frame at the head.
LEMMA TailVouched ==
  ASSUME NEW queue, QueueInv(queue), queue # << >>, NEW u, NEW p, Vouched(queue, u, p)
  PROVE  Vouched(Tail(queue), u, p)
<1> HIDE DEF Vouches
<1>1. queue \in Seq(Messages)
  BY DEF QueueInv
<1> QED
  BY <1>1 DEF Vouched

\* A step that touches no control request, and sends nothing that is not so.
LEMMA Untouched ==
  ASSUME ControlInv, uf2' = uf2, page' = page, rumble_told' = rumble_told,
         hid'.last \in {hid.last, NoReport}, Vouched(cdc_tx', uf2, page)
  PROVE  ControlStep
<1>1. ReadyMeansReleased'
  BY DEF ControlInv, ReadyMeansReleased, IsActive
<1>2. AnswersAreTrue'
  BY AnswersVouchedPrime
<1> QED
  BY <1>1, <1>2 DEF ControlStep, ControlInv, FlashIsWrittenAtRest

\* A reset leaves no request and no answer.
LEMMA ResetVouched ==
  ASSUME uf2' = NoUf2, cdc_tx' = << >>, page' = page
  PROVE  ControlStep
  BY DEF ControlStep, ControlInv, ReadyMeansReleased, AnswersAreTrue, FlashIsWrittenAtRest, NoUf2

LEMMA EdgeControl ==
  ASSUME IInv, ControlInv, ConnectionEdge
  PROVE  ControlStep
<1>1. CASE OnCdcConnected \/ OnCdcDisconnected \/ Reboot
  BY <1>1, ResetVouched DEF OnCdcConnected, OnCdcDisconnected, Reboot, ResetSession
<1>2. CASE OnHidMounted
  <2> DEFINE h == [hid EXCEPT !.last = NoReport]
  <2>1. h \in HidState /\ h.last = NoReport
    BY Parts DEF HidInv, HidShape, HidState
  <2>2. hid' = force_neutral(h, TRUE) /\ UNCHANGED <<rumble_told, control, cdc_tx>>
    BY <1>2 DEF OnHidMounted
  <2> HIDE DEF h
  <2>3. hid'.last = NoReport
    BY <2>1, <2>2, QueuedNeutral DEF Queued
  <2> QED
    BY <2>2, <2>3, Untouched, AnswersVouched DEF control, ControlInv
<1> QED
  BY <1>1, <1>2 DEF ConnectionEdge

\* Frames that are no control requests.
LEMMA FrameControl ==
  ASSUME IInv, ControlInv, HostFrame
  PROVE  \/ ControlStep
         \/ \E s \in Sequences, id \in RequestIds : OnEnterUf2Bootloader(s, id)
         \/ \E s \in Sequences, req \in ReceiptRequests : OnRecordInstallReceipt(s, req)
<1>1. Vouched(cdc_tx, uf2, page) /\ QueueInv(cdc_tx) /\ hid \in HidState
  BY AnswersVouched, Parts DEF ControlInv, OtherTypes, HidInv, HidShape
<1>2. /\ Vouched(send_message(cdc_tx, HelloResponse), uf2, page)
      /\ Vouched(send_message(cdc_tx, Pong), uf2, page)
  BY <1>1, SentVouched, OthersVouch, MessageTypes
<1>3. force_neutral(hid, TRUE).last = hid.last
  BY <1>1, QueuedNeutral DEF Queued
<1>4. CASE Handshake \/ OnFrameUnnegotiated \/ OnDecodeError
  <2>1. /\ uf2' = uf2 /\ page' = page /\ rumble_told' = rumble_told
        /\ hid' \in {hid, force_neutral(hid, TRUE)}
        /\ cdc_tx' \in {cdc_tx, send_message(cdc_tx, HelloResponse)}
    BY <1>4 DEF Handshake, OnHello, OnFrameUnnegotiated, OnDecodeError, control
  <2> QED
    BY <1>1, <1>2, <1>3, <2>1, Untouched
<1>5. CASE \E s \in Sequences : \/ \E r \in Reports : OnGamepadState(s, r)
                                \/ OnNeutral(s) \/ OnPing(s) \/ OnUnexpectedFrame(s)
  <2>1. PICK s \in Sequences : \/ \E r \in Reports : OnGamepadState(s, r)
                               \/ OnNeutral(s) \/ OnPing(s) \/ OnUnexpectedFrame(s)
    BY <1>5
  <2>2. /\ uf2' = uf2 /\ page' = page /\ rumble_told' = rumble_told
        /\ cdc_tx' \in {cdc_tx, send_message(cdc_tx, Pong)}
    BY <2>1 DEF OnGamepadState, OnNeutral, OnPing, OnUnexpectedFrame, Receive
  <2>3. Queued(hid, hid')
    BY <2>1, QueuedChecked DEF OnGamepadState, OnNeutral, OnPing, OnUnexpectedFrame
  <2>4. hid'.last = hid.last
    BY <2>3 DEF Queued
  <2> QED
    BY <1>1, <1>2, <2>2, <2>4, Untouched
<1> QED
  BY <1>4, <1>5 DEF HostFrame

\* A request that begins finds no answer queued for another one.
LEMMA EnterControl ==
  ASSUME IInv, ControlInv, NEW s \in Sequences, NEW id \in RequestIds,
         OnEnterUf2Bootloader(s, id)
  PROVE  ControlStep
<1>1. Vouched(cdc_tx, uf2, page) /\ QueueInv(cdc_tx)
  BY AnswersVouched, Parts DEF ControlInv, OtherTypes
<1>2. page' = page /\ rumble_told' = rumble_told
  BY DEF OnEnterUf2Bootloader, Receive
<1>3. Queued(hid, hid')
  BY QueuedChecked DEF OnEnterUf2Bootloader
<1>4. hid'.last = hid.last
  BY <1>3 DEF Queued
<1>5. uf2 \in [request : RequestIds \cup {None}, ready : BOOLEAN, ready_pending : BOOLEAN]
  BY Parts DEF OtherTypes
<1>6. CASE InControlRequest
  <2>1. uf2'.request = uf2.request /\ uf2'.ready = uf2.ready
    BY <1>5, <1>6 DEF OnEnterUf2Bootloader
  <2>2. cdc_tx' \in {cdc_tx, send_message(cdc_tx, Error("Uf2TransitionBusy", id))}
    BY <1>6 DEF OnEnterUf2Bootloader
  <2>3. Error("Uf2TransitionBusy", id) \in Messages
    BY MessageTypes DEF ErrorCodes
  <2>4. Vouched(cdc_tx', uf2, page)
    BY <1>1, <2>2, <2>3, SentVouched, OthersVouch
  <2>5. AnswersAreTrue'
    BY <1>2, <2>1, <2>4, AnswersVouchedPrime DEF Vouched, Vouches
  <2>6. ReadyMeansReleased'
    BY <1>2, <1>4, <2>1 DEF ControlInv, ReadyMeansReleased
  <2> QED
    BY <1>2, <2>5, <2>6 DEF ControlStep, ControlInv, FlashIsWrittenAtRest
<1>7. CASE ~InControlRequest
  <2>1. uf2' = [uf2 EXCEPT !.request = id] /\ cdc_tx' = cdc_tx
    BY <1>7 DEF OnEnterUf2Bootloader
  <2>2. ~uf2.ready
    BY <1>7 DEF ControlInv, ReadyMeansReleased, InControlRequest
  <2>3. uf2'.ready = uf2.ready
    BY <1>5, <2>1
  <2>4. AnswersAreTrue'
    BY <1>1, <1>2, <2>1, <2>2, AnswersVouchedPrime DEF Vouched, Vouches
  <2>5. ReadyMeansReleased'
    BY <2>2, <2>3 DEF ReadyMeansReleased
  <2> QED
    BY <1>2, <2>4, <2>5 DEF ControlStep, ControlInv, FlashIsWrittenAtRest
<1> QED
  BY <1>6, <1>7

\* A receipt is confirmed only when it is the one on the page.
LEMMA RecordControl ==
  ASSUME IInv, ControlInv, NEW s \in Sequences, NEW request \in ReceiptRequests,
         OnRecordInstallReceipt(s, request)
  PROVE  ControlStep
<1>1. Vouched(cdc_tx, uf2, page) /\ QueueInv(cdc_tx)
  BY AnswersVouched, Parts DEF ControlInv, OtherTypes
<1>2. uf2' = uf2 /\ page' = page /\ rumble_told' = rumble_told
  BY DEF OnRecordInstallReceipt, Receive
<1>3. Queued(hid, hid')
  BY QueuedChecked DEF OnRecordInstallReceipt
<1>4. hid'.last = hid.last
  BY <1>3 DEF Queued
<1>5. Vouched(cdc_tx', uf2, page)
  <2>1. request.id \in RequestIds
    BY DEF ReceiptRequests
  <2>2. CASE cdc_tx' = cdc_tx
    BY <1>1, <2>2
  <2>3. CASE cdc_tx' # cdc_tx
    <3>1. PICK m \in Messages : ReceiptReply(request) = <<m>>
            /\ (\/ m \in {Error("Uf2TransitionBusy", request.id),
                          Error("InstallReceiptRejected", request.id)}
                \/ m = InstallReceiptRecorded(request) /\ page = request.receipt)
      <4>1. ReceiptReply(request) # << >>
        BY <2>3 DEF OnRecordInstallReceipt
      <4>2. \/ ReceiptReply(request) = <<Error("Uf2TransitionBusy", request.id)>>
            \/ ReceiptReply(request) = <<Error("InstallReceiptRejected", request.id)>>
            \/ ReceiptReply(request) = <<InstallReceiptRecorded(request)>> /\ page = request.receipt
        BY <4>1 DEF ReceiptReply
      <4>3. /\ Error("Uf2TransitionBusy", request.id) \in Messages
            /\ Error("InstallReceiptRejected", request.id) \in Messages
            /\ InstallReceiptRecorded(request) \in Messages
        BY <2>1, MessageTypes DEF ErrorCodes
      <4>4. CASE ReceiptReply(request) = <<Error("Uf2TransitionBusy", request.id)>>
        BY <4>3, <4>4, Zenon
      <4>5. CASE ReceiptReply(request) = <<Error("InstallReceiptRejected", request.id)>>
        BY <4>3, <4>5, Zenon
      <4>6. CASE ReceiptReply(request) = <<InstallReceiptRecorded(request)>> /\ page = request.receipt
        BY <4>3, <4>6, Zenon
      <4> QED
        BY <4>2, <4>4, <4>5, <4>6
    <3>2. cdc_tx' = send_message(cdc_tx, m)
      BY <2>3, <3>1 DEF OnRecordInstallReceipt
    <3>3. Vouches(m, uf2, page)
      <4>1. CASE m \in {Error("Uf2TransitionBusy", request.id), Error("InstallReceiptRejected", request.id)}
        BY <4>1, OthersVouch
      <4>2. CASE m = InstallReceiptRecorded(request) /\ page = request.receipt
        BY <4>2 DEF Vouches, InstallReceiptRecorded
      <4> QED
        BY <3>1, <4>1, <4>2
    <3> QED
      BY <1>1, <3>2, <3>3, SentVouched
  <2> QED
    BY <2>2, <2>3
<1> QED
  BY <1>2, <1>4, <1>5, Untouched

\* The endpoint takes no active report in a control request.
LEMMA SentControl == IInv /\ ControlInv /\ MarkHidReportSent => ControlStep
<1> SUFFICES ASSUME IInv, ControlInv, MarkHidReportSent PROVE ControlStep
  OBVIOUS
<1>1. HidShape(hid) /\ hid.pending # NoReport /\ hid' = mark_sent(hid)
  BY Parts DEF HidInv, MarkHidReportSent
<1>2. hid'.last = hid.pending
  <2> DEFINE done == [hid EXCEPT !.last = hid.pending, !.pending = NoReport, !.safety = FALSE]
             next == [done EXCEPT !.deferred = NoReport]
  <2>1. done.last = hid.pending /\ next \in HidState /\ next.last = hid.pending
    BY <1>1 DEF HidShape, HidState
  <2>2. hid.deferred # NoReport => hid.deferred \in Reports
    BY <1>1 DEF HidShape, HidState
  <2>3. hid' = IF hid.safety /\ hid.deferred # NoReport
               THEN queue_hid(next, hid.deferred, FALSE) ELSE done
    BY <1>1 DEF mark_sent
  <2> HIDE DEF next, done
  <2>4. hid.deferred # NoReport => queue_hid(next, hid.deferred, FALSE).last = next.last
    BY <2>1, <2>2, QueuedHid DEF Queued
  <2> QED
    BY <2>1, <2>3, <2>4
<1>3. InControlRequest => ~IsActive(hid.pending)
  BY <1>1, Parts DEF HidInv, HidShape, ArmedTimersAreServiced, DestinedOf, IsActive
<1>4. /\ uf2' = uf2 /\ page' = page /\ rumble_told' = rumble_told /\ cdc_tx' = cdc_tx
  BY DEF MarkHidReportSent, control
<1>5. ReadyMeansReleased'
  BY <1>2, <1>3, <1>4 DEF ControlInv, ReadyMeansReleased, InControlRequest
<1>6. AnswersAreTrue'
  BY <1>4, AnswersVouched, AnswersVouchedPrime DEF ControlInv
<1> QED
  BY <1>4, <1>5, <1>6 DEF ControlStep, ControlInv, FlashIsWrittenAtRest

-----------------------------------------------------------------------------
(* A control request in a tick.                                            *)

\* What is left of the queues in a control request is no active report and no
\* running motor, once nothing is left to send.
LEMMA QuietIsReleased ==
  ASSUME NEW h, HidInv(h), h.watchdog = Off, NEW u, NEW told, RumbleInv(u, told),
         u.lease = Off, NothingLeftToSend(h, u)
  PROVE  ~IsActive(h.last) /\ ~IsRumbling(told)
<1>1. h.deferred = NoReport
  BY ReportAssumption DEF HidInv, HidShape, NothingLeftToSend
<1>2. ~IsActive(h.last)
  BY <1>1 DEF HidInv, DestinedOf, NothingLeftToSend
<1>3. ~u.safety
  BY RumbleAssumption DEF RumbleInv, NothingLeftToSend
<1> QED
  BY <1>2, <1>3 DEF RumbleInv

\* No motor is started in a control request.
LEMMA ToldAtRest ==
  ASSUME IInv, NEW calm, RumbleInv(calm, rumble_told), calm.lease = Off,
         NEW queue, ~IsRumbling(rumble_told)
  PROVE  ~IsRumbling(ServiceRumble(calm, queue).told)
<1> DEFINE due == IF negotiated THEN due_rumble(calm) ELSE calm
<1>1. RumbleInv(due, rumble_told) /\ due.lease = Off
  BY DueRumble
<1>2. ~IsRumbling(due.pending)
  BY <1>1 DEF RumbleInv, Intended
<1>3. ServiceRumble(calm, queue).told \in {due.pending, rumble_told}
  BY DEF ServiceRumble
<1> QED
  BY <1>2, <1>3

\* What is queued before the control requests are served says nothing of them.
LEMMA ServedVouched ==
  ASSUME IInv, NEW calm, RumbleInv(calm, rumble_told), Vouched(cdc_tx, uf2, page)
  PROVE  LET queue == ServiceRumble(calm, ServiceDeviceInfo(cdc_tx)).queue
         IN  QueueInv(queue) /\ Vouched(queue, uf2, page)
<1> DEFINE info == ServiceDeviceInfo(cdc_tx)
           due == IF negotiated THEN due_rumble(calm) ELSE calm
<1>1. QueueInv(cdc_tx) /\ page \in PageStates
  BY Parts DEF OtherTypes
<1>2. DeviceInfo(page) \in Messages
  BY <1>1, MessageTypes
<1>3. /\ QueueInv(send_message(cdc_tx, DeviceInfo(page)))
      /\ Vouched(send_message(cdc_tx, DeviceInfo(page)), uf2, page)
  BY <1>1, <1>2, SendMessage, SentVouched, OthersVouch
<1>4. QueueInv(info) /\ Vouched(info, uf2, page)
  BY <1>1, <1>3 DEF ServiceDeviceInfo
<1> HIDE DEF info
<1>5. RumbleInv(due, rumble_told)
  BY DueRumble
<1>6. CASE due.pending # NoRumble /\ HasRoom(info)
  <2>1. Rumble(due.pending) \in Messages
    BY <1>5, <1>6, MessageTypes DEF RumbleInv, RumbleState
  <2>2. /\ QueueInv(Append(info, Rumble(due.pending)))
        /\ Vouched(Append(info, Rumble(due.pending)), uf2, page)
    BY <1>4, <1>6, <2>1, SendMessage, SentVouched, OthersVouch
  <2>3. ServiceRumble(calm, info).queue \in {info, Append(info, Rumble(due.pending))}
    BY DEF ServiceRumble
  <2> QED
    BY <1>4, <2>2, <2>3 DEF info
<1>7. CASE ~(due.pending # NoRumble /\ HasRoom(info))
  <2>1. ServiceRumble(calm, info).queue = info
    BY <1>7 DEF ServiceRumble
  <2> QED
    BY <1>4, <2>1 DEF info
<1> QED
  BY <1>6, <1>7

\* A Ready is queued with the flag that says so.
LEMMA ReadyVouched ==
  ASSUME IInv, NEW quiet, NEW queue, QueueInv(queue), NEW p, Vouched(queue, uf2, p),
         ServiceUf2Bootloader(quiet, queue)
  PROVE  /\ Vouched(cdc_tx', uf2', p)
         /\ uf2'.request = uf2.request
         /\ uf2'.ready => uf2.ready \/ (quiet /\ uf2.request # None)
<1>1. uf2 \in [request : RequestIds \cup {None}, ready : BOOLEAN, ready_pending : BOOLEAN]
  BY Parts DEF OtherTypes
<1>2. CASE quiet /\ uf2.request # None /\ (~uf2.ready \/ uf2.ready_pending) /\ HasRoom(queue)
  <2> DEFINE m == Uf2BootloaderReady(uf2.request)
  <2>1. cdc_tx' = Append(queue, m) /\ uf2' = [uf2 EXCEPT !.ready = TRUE, !.ready_pending = FALSE]
    BY <1>2 DEF ServiceUf2Bootloader, send_message
  <2>2. uf2'.ready = TRUE /\ uf2'.request = uf2.request
    BY <1>1, <2>1
  <2>3. m \in Messages
    BY <1>1, <1>2, MessageTypes
  <2>4. Vouched(queue, uf2', p)
    BY <2>2 DEF Vouched, Vouches
  <2>5. Vouches(m, uf2', p)
    BY <2>2 DEF Vouches, Uf2BootloaderReady
  <2> HIDE DEF m
  <2>6. Vouched(Append(queue, m), uf2', p)
    BY <2>3, <2>4, <2>5, SentVouched
  <2> QED
    BY <1>2, <2>1, <2>2, <2>6
<1>3. CASE ~(quiet /\ uf2.request # None /\ (~uf2.ready \/ uf2.ready_pending) /\ HasRoom(queue))
  <2>1. cdc_tx' = queue /\ uf2' = uf2
    BY <1>3 DEF ServiceUf2Bootloader, send_message
  <2> QED
    BY <2>1
<1> QED
  BY <1>2, <1>3

\* The flash page is written once, and what it then holds is what is answered.
LEMMA OutcomesVouch ==
  ASSUME IInv, receipt_request # None, NEW outcome \in ReceiptOutcomes(receipt_request)
  PROVE  /\ outcome.page # page => page \notin Receipts
         /\ outcome.reply \in Messages
         /\ \A u : Vouches(outcome.reply, u, outcome.page)
<1>1. receipt_request \in ReceiptRequests
  BY Parts DEF OtherTypes
<1>2. receipt_request.id \in RequestIds /\ receipt_request.receipt \in Receipts
  BY <1>1 DEF ReceiptRequests
<1> DEFINE recorded == InstallReceiptRecorded(receipt_request)
           errors == {Error("InstallReceiptRejected", receipt_request.id),
                      Error("InstallReceiptReadbackMismatch", receipt_request.id)}
<1>3. recorded \in Messages /\ errors \subseteq Messages
  BY <1>1, <1>2, MessageTypes DEF ErrorCodes
<1>4. \A u, p : \A e \in errors : Vouches(e, u, p)
  BY OthersVouch
<1>5. \A u, p : p = receipt_request.receipt => Vouches(recorded, u, p)
  BY DEF Vouches, InstallReceiptRecorded
<1>6. /\ outcome.reply \in errors \cup {recorded}
      /\ outcome.reply = recorded /\ recorded \notin errors => outcome.page = receipt_request.receipt
      /\ outcome.page # page => page \in {Blank}
  <2>1. CASE page = Corrupt
    <3>1. ReceiptOutcomes(receipt_request)
            = {[page |-> page, reply |-> Error("InstallReceiptRejected", receipt_request.id)]}
      BY <2>1, ControlAssumption DEF ReceiptOutcomes
    <3> QED
      BY <3>1
  <2>2. CASE page = Blank
    <3> DEFINE failed == [page : {Blank, Corrupt, receipt_request.receipt},
                          reply : {Error("InstallReceiptRejected", receipt_request.id)}]
    <3>1. ReceiptOutcomes(receipt_request)
            = {[page |-> receipt_request.receipt, reply |-> recorded]} \cup failed
      BY <2>2, ControlAssumption DEF ReceiptOutcomes
    <3> QED
      BY <2>2, <3>1
  <2>3. CASE page # Corrupt /\ page # Blank
    BY <2>3 DEF ReceiptOutcomes
  <2> QED
    BY <2>1, <2>2, <2>3
<1>7. \A u : Vouches(outcome.reply, u, outcome.page)
  <2>1. CASE outcome.reply \in errors
    BY <1>4, <2>1
  <2>2. CASE outcome.reply \notin errors
    BY <1>5, <1>6, <2>2
  <2> QED
    BY <2>1, <2>2
<1> QED
  BY <1>3, <1>6, <1>7, ControlAssumption

\* A page that changes held no receipt, so no confirmation of one is queued.
LEMMA PageVouched ==
  ASSUME NEW queue, QueueInv(queue), NEW u, NEW p, Vouched(queue, u, p), p \notin Receipts, NEW q
  PROVE  Vouched(queue, u, q)
<1>1. \A m \in Messages : m.type = "InstallReceiptRecorded" => m.request.receipt \in Receipts
  BY DEF Messages, ReceiptRequests
<1>2. \A i \in 1 .. Len(queue) : queue[i] \in Messages
  BY DEF QueueInv
<1> QED
  BY <1>1, <1>2 DEF Vouched, Vouches

LEMMA TickControl == IInv /\ ControlInv /\ Tick => ControlStep
<1> SUFFICES ASSUME IInv, ControlInv, Tick PROVE ControlStep
  OBVIOUS
<1> DEFINE calm   == IF WatchdogExpired THEN force_rumble_zero(rumble) ELSE rumble
           served == ServiceRumble(calm, ServiceDeviceInfo(cdc_tx))
           quiet  == NothingLeftToSend(hid', rumble')
           queue  == served.queue
<1>1. RumbleInv(calm, rumble_told) /\ (rumble.lease = Off => calm.lease = Off)
  BY Parts, ForceRumbleZero DEF RumbleInv
<1>2. /\ rumble' = served.rumble /\ rumble_told' = served.told
      /\ ServiceControl(quiet, queue)
      /\ hid' = IF WatchdogExpired THEN force_neutral(hid, TRUE) ELSE hid
  BY DEF Tick
<1>3. Vouched(cdc_tx, uf2, page)
  BY AnswersVouched DEF ControlInv
<1> HIDE DEF calm
<1>4. QueueInv(queue) /\ Vouched(queue, uf2, page)
  BY <1>1, <1>3, ServedVouched
<1>5. QueueInv(ServiceDeviceInfo(cdc_tx))
  BY Parts, SendMessage, MessageTypes DEF ServiceDeviceInfo, OtherTypes
<1>6. /\ RumbleInv(rumble', rumble_told')
      /\ rumble.lease = Off => rumble'.lease = Off
  BY <1>1, <1>2, <1>5, ServeRumble
<1>7. /\ HidInv(hid') /\ hid'.watchdog \in {hid.watchdog, Off} /\ hid'.last = hid.last
  <2>1. HidInv(hid) /\ HidShape(hid) /\ hid \in HidState
    BY Parts DEF HidInv, HidShape
  <2> QED
    BY <1>2, <2>1, ForceNeutral, QueuedNeutral DEF Queued
<1>8. InControlRequest => hid'.watchdog = Off /\ rumble.lease = Off /\ calm.lease = Off
  BY <1>1, <1>7, Parts DEF ArmedTimersAreServiced
<1>9. InControlRequest /\ quiet => ~IsActive(hid.last) /\ ~IsRumbling(rumble_told')
  BY <1>6, <1>7, <1>8, QuietIsReleased
<1>10. uf2.ready => ~IsActive(hid'.last) /\ ~IsRumbling(rumble_told')
  <2> SUFFICES ASSUME uf2.ready PROVE ~IsActive(hid'.last) /\ ~IsRumbling(rumble_told')
    OBVIOUS
  <2>1. InControlRequest /\ ~IsActive(hid.last) /\ ~IsRumbling(rumble_told)
    BY DEF ControlInv, ReadyMeansReleased, InControlRequest
  <2>2. ~IsRumbling(served.told)
    BY <1>1, <1>8, <2>1, ToldAtRest
  <2> QED
    BY <1>2, <1>7, <2>1, <2>2
<1> HIDE DEF served, queue, quiet
<1>11. /\ Vouched(cdc_tx', uf2', page')
       /\ uf2'.request = uf2.request
       /\ uf2'.ready => uf2.ready \/ (quiet /\ uf2.request # None)
       /\ page' # page => page \notin Receipts /\ quiet /\ receipt_request # None
  <2>1. CASE /\ quiet /\ receipt_request # None
             /\ \E outcome \in ReceiptOutcomes(receipt_request) :
                  /\ page' = outcome.page
                  /\ ServiceUf2Bootloader(quiet, send_message(queue, outcome.reply))
    <3>1. PICK outcome \in ReceiptOutcomes(receipt_request) :
                  /\ page' = outcome.page
                  /\ ServiceUf2Bootloader(quiet, send_message(queue, outcome.reply))
      BY <2>1
    <3>2. /\ page' # page => page \notin Receipts
          /\ outcome.reply \in Messages /\ Vouches(outcome.reply, uf2, page')
      BY <2>1, <3>1, OutcomesVouch
    <3>3. Vouched(queue, uf2, page')
      BY <1>4, <3>2, PageVouched
    <3>4. /\ QueueInv(send_message(queue, outcome.reply))
          /\ Vouched(send_message(queue, outcome.reply), uf2, page')
      BY <1>4, <3>2, <3>3, SendMessage, SentVouched
    <3> DEFINE sent == send_message(queue, outcome.reply)
    <3> HIDE DEF sent
    <3>5. ServiceUf2Bootloader(quiet, sent) /\ QueueInv(sent) /\ Vouched(sent, uf2, page')
      BY <3>1, <3>4 DEF sent
    <3>6. /\ Vouched(cdc_tx', uf2', page')
          /\ uf2'.request = uf2.request
          /\ uf2'.ready => uf2.ready \/ (quiet /\ uf2.request # None)
      BY <3>5, ReadyVouched
    <3> QED
      BY <2>1, <3>2, <3>6
  <2>2. CASE UNCHANGED <<page, receipt_request>> /\ ServiceUf2Bootloader(quiet, queue)
    BY <1>4, <2>2, ReadyVouched
  <2> QED
    BY <1>2, <2>1, <2>2 DEF ServiceControl
<1>12. ReadyMeansReleased'
  BY <1>7, <1>9, <1>10, <1>11 DEF ControlInv, ReadyMeansReleased, InControlRequest
<1>13. AnswersAreTrue'
  BY <1>11, AnswersVouchedPrime
<1>14. FlashIsWrittenAtRest
  BY <1>9, <1>11 DEF FlashIsWrittenAtRest, InControlRequest
<1> QED
  BY <1>12, <1>13, <1>14 DEF ControlStep, ControlInv

-----------------------------------------------------------------------------

LEMMA ControlKeeps == IInv /\ ControlInv /\ [Next]_vars => ControlStep
<1> SUFFICES ASSUME IInv, ControlInv, [Next]_vars PROVE ControlStep
  OBVIOUS
<1>1. CASE ConnectionEdge
  BY <1>1, EdgeControl
<1>2. CASE HostFrame
  BY <1>2, FrameControl, EnterControl, RecordControl
<1>3. CASE (\E r \in Rumbles : OnXinputRumble(r)) \/ Advance \/ UNCHANGED vars
  <2>1. /\ uf2' = uf2 /\ page' = page /\ rumble_told' = rumble_told /\ cdc_tx' = cdc_tx
        /\ hid'.last = hid.last
    BY <1>3, Parts DEF OnXinputRumble, Advance, vars, control, HidInv, HidShape, HidState
  <2> QED
    BY <2>1, Untouched, AnswersVouched DEF ControlInv
<1>4. CASE ServiceCdcTx
  <2>1. QueueInv(cdc_tx) /\ Vouched(cdc_tx, uf2, page)
    BY AnswersVouched, Parts DEF ControlInv, OtherTypes
  <2>2. /\ cdc_tx # << >> /\ cdc_tx' = Tail(cdc_tx)
        /\ uf2' = uf2 /\ page' = page /\ rumble_told' = rumble_told /\ hid' = hid
    BY <1>4 DEF ServiceCdcTx, control
  <2> QED
    BY <2>1, <2>2, TailVouched, Untouched
<1>5. CASE MarkHidReportSent
  BY <1>5, SentControl
<1>6. CASE Tick
  BY <1>6, TickControl
<1> QED
  BY <1>1, <1>2, <1>3, <1>4, <1>5, <1>6 DEF Next

\* A control request finds the device released, keeps it so, writes flash only
\* then, and is answered with the truth.
THEOREM ControlSafe == Spec => ControlRequestIsSafe
<1>1. Init => IInv /\ ControlInv
  BY InitInv DEF Init, NoUf2, ControlInv, ReadyMeansReleased, AnswersAreTrue
<1>2. IInv /\ ControlInv /\ [Next]_vars => IInv' /\ ControlInv'
  BY NextInv, ControlKeeps DEF ControlStep
<1>3. IInv' => ControlRequestFreezesDevice'
  BY DEF IInv, HidInv, RumbleInv, Intended, ArmedTimersAreServiced, InControlRequest,
         OneControlRequest, ControlRequestFreezesDevice, Destined, DestinedOf
<1>4. IInv /\ ControlInv /\ [Next]_vars =>
        [ /\ ControlRequestFreezesDevice' /\ ReadyMeansReleased' /\ AnswersAreTrue'
          /\ FlashIsWrittenAtRest ]_vars
  BY <1>2, <1>3, ControlKeeps DEF ControlStep, ControlInv
<1> QED
  BY <1>1, <1>2, <1>4, PTL DEF Spec, ControlRequestIsSafe
=============================================================================
