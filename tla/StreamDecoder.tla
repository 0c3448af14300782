--------------------------- MODULE StreamDecoder ----------------------------
(***************************************************************************)
(* The framing of the serial link (bridge-protocol/src/lib.rs and the      *)
(* firmware's bridge_protocol.cpp): one sender and two decoders, the host's*)
(* that takes the bytes of a read at once and the device's that takes them *)
(* one by one.                                                             *)
(*                                                                         *)
(* A frame is scaled down: the two bytes of the magic, a version, a type,  *)
(* the length and the sequence in one byte each, a short payload and a     *)
(* checksum of one byte.  As with the CRC, a damaged frame may satisfy its *)
(* checksum by accident, and then it counts as a frame.                    *)
(***************************************************************************)
EXTENDS Integers, Sequences, SequencesExt, FiniteSets

CONSTANTS
  Bytes,           \* an initial interval of the naturals
  Magic,           \* MAGIC, two bytes
  ProtocolVersion, \* PROTOCOL_VERSION
  MaxPayload,      \* MAX_PAYLOAD_SIZE
  Lengths,         \* the payload lengths of each type whose length is checked
  GamepadType,     \* MessageType::GamepadState: a hat and an axis
  ReceiptType,     \* MessageType::RecordInstallReceipt: a source
  MaxHat,          \* the last of the hat's positions
  AxisMin,         \* i16::MIN
  Sources,         \* InstallSource
  MaxRead          \* bound: bytes the host leaves unread

ASSUME FramingAssumption ==
  /\ Cardinality(Bytes) \in Nat \ {0} /\ Bytes = 0 .. Cardinality(Bytes) - 1
  /\ Magic \in Bytes \X Bytes
  /\ {0, 1, ProtocolVersion, MaxPayload} \subseteq Bytes
  /\ Lengths[GamepadType] = {2} /\ Lengths[ReceiptType] = {1} /\ GamepadType # ReceiptType

VARIABLE link  \* the two buffers, the bytes the host has not read, and (ghost)
               \* what the device made of those

HeaderSize == 6
ChecksumSize == 1
MaxFrame == HeaderSize + MaxPayload + ChecksumSize

\* crc16_ccitt_false, of one byte
Checksum(bytes) ==
  LET crc[i \in 0 .. Len(bytes)] ==
        IF i = 0 THEN 1 ELSE (2 * crc[i - 1] + bytes[i] + 1) % Cardinality(Bytes)
  IN  crc[Len(bytes)]

\* Frame::encode, encode_frame
encode(type, sequence, payload) ==
  LET body == Magic \o <<ProtocolVersion, type, Len(payload), sequence>> \o payload
  IN  Append(body, Checksum(body))

Error(what) == [error |-> what]
Frame(b, length) ==
  [type |-> b[4], sequence |-> b[6], payload |-> SubSeq(b, 7, 6 + length)]

LengthIsWrong(f) == f.type \in DOMAIN Lengths /\ Len(f.payload) \notin Lengths[f.type]
HatIsWrong(f) == f.type = GamepadType /\ f.payload[1] > MaxHat
AxisIsWrong(f) == f.type = GamepadType /\ f.payload[2] = AxisMin
SourceIsWrong(f) == f.type = ReceiptType /\ f.payload[1] \notin Sources

\* What the host makes of a frame whose checksum is right.
parse_message(f) ==
  IF LengthIsWrong(f) THEN Error("InvalidPayloadLength")
  ELSE IF AxisIsWrong(f) THEN Error("ReservedAxisValue")
  ELSE IF HatIsWrong(f) THEN Error("InvalidHat")
  ELSE IF SourceIsWrong(f) THEN Error("InvalidInstallSource")
  ELSE f

\* What the device makes of it: of a receipt it looks at the length only, and
\* at a state's hat first.
validate(f) ==
  IF LengthIsWrong(f) THEN Error("InvalidPayloadLength")
  ELSE IF HatIsWrong(f) THEN Error("InvalidHat")
  ELSE IF AxisIsWrong(f) THEN Error("ReservedAxisValue")
  ELSE f

discard_prefix(b, count) == SubSeq(b, count + 1, Len(b))

\* A buffer from its first magic on, or from a last byte that may begin one.
MagicAt(b, i) == b[i] = Magic[1] /\ (i < Len(b) => b[i + 1] = Magic[2])
Garbage(b) == Min({i \in 1 .. Len(b) : MagicAt(b, i)} \cup {Len(b) + 1}) - 1
Aligned(b) == discard_prefix(b, Garbage(b))

Waits(b) ==
  \/ Len(b) < HeaderSize
  \/ b[5] <= MaxPayload /\ Len(b) < HeaderSize + b[5] + ChecksumSize

\* Fault: a frame whose checksum is wrong is dropped as a whole.
Candidate_drops_damaged(b) ==
  LET size == HeaderSize + b[5] + ChecksumSize
  IN  IF b[5] > MaxPayload THEN [says |-> Error("PayloadTooLarge"), drop |-> 1]
      ELSE IF b[size] # Checksum(SubSeq(b, 1, size - 1))
      THEN [says |-> Error("ChecksumMismatch"), drop |-> size]
      ELSE IF b[3] # ProtocolVersion
      THEN [says |-> Error("UnsupportedVersion"), drop |-> size]
      ELSE [says |-> Frame(b, b[5]), drop |-> size]

\* The candidate at the head of the buffer: what is said of it, and how many
\* of its bytes are dropped.
Candidate(b) ==
  LET size == HeaderSize + b[5] + ChecksumSize
  IN  IF b[5] > MaxPayload THEN [says |-> Error("PayloadTooLarge"), drop |-> 1]
      ELSE IF b[size] # Checksum(SubSeq(b, 1, size - 1))
      THEN [says |-> Error("ChecksumMismatch"), drop |-> 1]
      ELSE IF b[3] # ProtocolVersion
      THEN [says |-> Error("UnsupportedVersion"), drop |-> size]
      ELSE [says |-> Frame(b, b[5]), drop |-> size]

\* A verdict says how many bytes were left where its candidate began, and how
\* many it took.
Verdict(b) == [says |-> Candidate(b).says, left |-> Len(b), took |-> Candidate(b).drop]

\* The loop of push and of process.
process[buffer \in Seq(Bytes)] ==
  LET b == Aligned(buffer)
  IN  IF Waits(b) THEN [buffer |-> b, out |-> <<>>]
      ELSE LET r == process[discard_prefix(b, Candidate(b).drop)]
           IN  [buffer |-> r.buffer, out |-> <<Verdict(b)>> \o r.out]

\* What the ends hear of the candidates: a frame once its message is checked.
IsFrame(said) == "error" \notin DOMAIN said
Means(end, said) ==
  IF ~IsFrame(said) THEN said
  ELSE IF end = "host" THEN parse_message(said) ELSE validate(said)
Says(end, out) == [i \in DOMAIN out |-> Means(end, out[i].says)]

\* StreamDecoder::push of the host.
host_push(buffer, bytes) == process[buffer \o bytes]

\* StreamDecoder::push of the device: a full buffer would lose its first byte.
device_push(buffer, byte) ==
  LET full == Len(buffer) = MaxFrame
      overflow == [says |-> Error("BufferOverflow"), left |-> MaxFrame, took |-> 1]
      r == process[Append(IF full THEN Tail(buffer) ELSE buffer, byte)]
  IN  [buffer |-> r.buffer, out |-> IF full THEN <<overflow>> \o r.out ELSE r.out]

Fresh == [host |-> <<>>, device |-> <<>>, unread |-> <<>>, heard |-> <<>>]
LinkInit == link = Fresh

Byte ==
  /\ Len(link.unread) < MaxRead
  /\ \E byte \in Bytes :
       \E r \in {device_push(link.device, byte)} :
         link' = [link EXCEPT !.device = r.buffer, !.unread = Append(@, byte),
                              !.heard = @ \o Says("device", r.out)]

HostReads ==
  /\ link.unread # <<>>
  /\ link' = [link EXCEPT !.host = host_push(@, link.unread).buffer, !.unread = <<>>, !.heard = <<>>]

\* A new connection: decoder.reset() of the device, a new decoder of the host.
Reconnects == link' = Fresh

LinkNext == Byte \/ HostReads \/ Reconnects
LinkSpec == LinkInit /\ [][LinkNext]_link

-----------------------------------------------------------------------------
\* The ends may differ about a frame in two ways only: the device lets a
\* receipt pass whose source the host refuses, and it blames the hat of a state
\* whose hat and axis are both bad.
Agree(host, device) ==
  \/ host = device
  \/ host = Error("InvalidInstallSource") /\ IsFrame(device) /\ device.type = ReceiptType
  \/ host = Error("ReservedAxisValue") /\ device = Error("InvalidHat")

\* However the bytes are cut into reads, the two ends find the same candidates,
\* agree about each and hold the same rest, which is never as long as the
\* longest frame.
EndsAgree ==
  LET r == host_push(link.host, link.unread)
      hears == Says("host", r.out)
  IN  /\ Len(hears) = Len(link.heard)
      /\ \A i \in DOMAIN hears : Agree(hears[i], link.heard[i])
      /\ r.buffer = link.device /\ Len(link.device) < MaxFrame

\* Of a frame that follows a buffer, and is followed by as many bytes as a frame
\* may have: both ends hear it from where it begins, or it lies in another
\* frame with a correct checksum.
Filler == [i \in 1 .. MaxFrame |-> 0]
Followed(buffer, frame) == buffer \o (frame \o Filler)
IsDelivered(o, from, begins, says) ==
  from = begins /\ \A end \in {"host", "device"} : Means(end, o.says) = says
IsCovered(o, from, begins) ==
  o.took > 1 /\ o.says # Error("ChecksumMismatch") /\ from < begins /\ from + o.took > begins
Survives(buffer, type, payload) ==
  LET received == Followed(buffer, encode(type, 1, payload))
      out == process[received].out
  IN  \E i \in DOMAIN out :
        LET from == Len(received) - out[i].left
        IN  \/ IsDelivered(out[i], from, Len(buffer),
                           [type |-> type, sequence |-> 1, payload |-> payload])
            \/ IsCovered(out[i], from, Len(buffer))

\* Damage costs no frame but itself: whatever was received, every frame that
\* arrives whole, and whose message neither end refuses, survives it.
Payloads(type) ==
  {p \in UNION {[1 .. n -> {0, 1}] : n \in 0 .. MaxPayload} :
     LET f == [type |-> type, sequence |-> 1, payload |-> p]
     IN  parse_message(f) = f /\ validate(f) = f}
DamageIsConfined ==
  \A type \in Bytes : \A payload \in Payloads(type) : Survives(link.device, type, payload)
=============================================================================
