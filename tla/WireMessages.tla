---------------------------- MODULE WireMessages ----------------------------
(***************************************************************************)
(* The payloads of protocol v1 (bridge-protocol/src/lib.rs): what each     *)
(* message is written as and read back from.  A byte has Base values, so   *)
(* that the widths of the fields and their order stay, and numbers stay    *)
(* small.                                                                  *)
(***************************************************************************)
EXTENDS Integers, Sequences, SequencesExt

CONSTANTS Base, MaxHat  \* 256 and 8

\* to_le_bytes and from_le_bytes
le_bytes(value, width) == [i \in 1 .. width |-> (value \div Base^(i - 1)) % Base]
from_le(bytes) == FoldRight(LAMBDA b, n : b + Base * n, bytes, 0)
At(p, first, width) == SubSeq(p, first + 1, first + width)

\* i16: the lowest value is reserved.
Signed(n) == IF n >= Base^2 \div 2 THEN n - Base^2 ELSE n
i16_at(p, i) == Signed(from_le(At(p, i, 2)))
i16_bytes(v) == le_bytes(IF v < 0 THEN v + Base^2 ELSE v, 2)
I16Min == -(Base^2 \div 2)
Axes == <<"left_x", "left_y", "right_x", "right_y">>

encode_gamepad(s) ==
  le_bytes(s.buttons, 4) \o <<s.hat, s.flags>>
    \o FlattenSeq([i \in 1 .. 4 |-> i16_bytes(s[Axes[i]])])
    \o le_bytes(s.left_trigger, 2) \o le_bytes(s.right_trigger, 2)

encode_install_receipt(m) ==
  le_bytes(m.request_id, 4) \o le_bytes(m.installed_at, 8) \o m.install_id \o <<m.source>>

encode_message(m) ==
  CASE m.type = "Hello" -> <<m.minimum_version, m.maximum_version>>
    [] m.type = "HelloResponse" -> <<m.selected_version>>
    [] m.type = "GamepadState" -> encode_gamepad(m.state)
    [] m.type = "Neutral" -> <<>>
    [] m.type \in {"Ping", "Pong"} -> le_bytes(m.nonce, 4)
    [] m.type = "DeviceInfo" -> m.info
    [] m.type = "Rumble" -> le_bytes(m.low_frequency, 2) \o le_bytes(m.high_frequency, 2)
    [] m.type \in {"EnterUf2Bootloader", "Uf2BootloaderReady"} -> le_bytes(m.request_id, 4)
    [] m.type \in {"RecordInstallReceipt", "InstallReceiptRecorded"} -> encode_install_receipt(m)
    [] m.type = "Error" -> le_bytes(m.code, 2) \o m.detail

Bad(why) == [type |-> why]
InvalidLength == Bad("InvalidPayloadLength")

parse_gamepad(p) ==
  LET s == [buttons |-> from_le(At(p, 0, 4)), hat |-> p[5], flags |-> p[6],
            left_x |-> i16_at(p, 6), left_y |-> i16_at(p, 8),
            right_x |-> i16_at(p, 10), right_y |-> i16_at(p, 12),
            left_trigger |-> from_le(At(p, 14, 2)), right_trigger |-> from_le(At(p, 16, 2))]
  IN  IF \E i \in 1 .. 4 : s[Axes[i]] = I16Min THEN Bad("ReservedAxisValue")
      ELSE IF s.hat > MaxHat THEN Bad("InvalidHat")
      ELSE [type |-> "GamepadState", state |-> s]

parse_install_receipt(type, p) ==
  IF p[29] \notin {1, 2} THEN Bad("InvalidInstallSource")
  ELSE [type |-> type, request_id |-> from_le(At(p, 0, 4)), installed_at |-> from_le(At(p, 4, 8)),
        install_id |-> At(p, 12, 16), source |-> p[29]]

\* exact_len, of the messages that have one
ExactLen ==
  [Hello |-> 2, HelloResponse |-> 1, GamepadState |-> 18, Neutral |-> 0, Ping |-> 4, Pong |-> 4,
   Rumble |-> 4, EnterUf2Bootloader |-> 4, Uf2BootloaderReady |-> 4,
   RecordInstallReceipt |-> 29, InstallReceiptRecorded |-> 29]

parse_message(type, p) ==
  IF (type \in DOMAIN ExactLen /\ Len(p) # ExactLen[type]) \/ (type = "Error" /\ Len(p) < 2)
  THEN InvalidLength
  ELSE CASE type = "Hello" -> [type |-> type, minimum_version |-> p[1], maximum_version |-> p[2]]
         [] type = "HelloResponse" -> [type |-> type, selected_version |-> p[1]]
         [] type = "GamepadState" -> parse_gamepad(p)
         [] type = "Neutral" -> [type |-> type]
         [] type \in {"Ping", "Pong"} -> [type |-> type, nonce |-> from_le(p)]
         [] type = "DeviceInfo" -> [type |-> type, info |-> p]
         [] type = "Rumble" -> [type |-> type, low_frequency |-> from_le(At(p, 0, 2)),
                                high_frequency |-> from_le(At(p, 2, 2))]
         [] type \in {"EnterUf2Bootloader", "Uf2BootloaderReady"} ->
              [type |-> type, request_id |-> from_le(p)]
         [] type \in {"RecordInstallReceipt", "InstallReceiptRecorded"} ->
              parse_install_receipt(type, p)
         [] type = "Error" -> [type |-> type, code |-> from_le(At(p, 0, 2)),
                               detail |-> SubSeq(p, 3, Len(p))]

-----------------------------------------------------------------------------
(* The inputs the codec is checked over: fields at their limits, and every *)
(* payload that differs from a written one in a byte or in its length.     *)

Limits(width) == {0, 1, Base, Base^width - 1}
AxisLimits == {I16Min, I16Min + 1, 0, Base^2 \div 2 - 1}
GamepadStates ==
  {[buttons |-> b, hat |-> h, flags |-> 0, left_x |-> x, left_y |-> y, right_x |-> y, right_y |-> x,
    left_trigger |-> t, right_trigger |-> Base] :
     b \in Limits(4), h \in {0, MaxHat, MaxHat + 1}, x \in AxisLimits, y \in AxisLimits,
     t \in Limits(2)}
Ids == {[i \in 1 .. 16 |-> i % Base]}
WrittenMessages ==
  [type : {"Hello"}, minimum_version : {1}, maximum_version : {1, 2}]
    \cup [type : {"HelloResponse"}, selected_version : {1}] \cup [type : {"Neutral"}]
    \cup [type : {"Ping", "Pong"}, nonce : Limits(4)]
    \cup [type : {"GamepadState"}, state : GamepadStates]
    \cup [type : {"DeviceInfo"}, info : {<<>>, <<1, 0, 3>>}]
    \cup [type : {"Rumble"}, low_frequency : Limits(2), high_frequency : Limits(2)]
    \cup [type : {"EnterUf2Bootloader", "Uf2BootloaderReady"}, request_id : Limits(4)]
    \cup [type : {"RecordInstallReceipt", "InstallReceiptRecorded"}, request_id : Limits(4),
          installed_at : Limits(8), install_id : Ids, source : {0, 1, 2}]
    \cup [type : {"Error"}, code : Limits(2), detail : {<<>>, <<3>>}]

IsMessage(m) ==
  CASE m.type = "GamepadState" ->
         m.state.hat <= MaxHat /\ \A i \in 1 .. 4 : m.state[Axes[i]] # I16Min
    [] m.type \in {"RecordInstallReceipt", "InstallReceiptRecorded"} -> m.source \in {1, 2}
    [] OTHER -> TRUE
Errors == {"InvalidPayloadLength", "InvalidHat", "InvalidInstallSource", "ReservedAxisValue"}

\* What is written is read back as it was, or refused if it means nothing.
RoundTrips ==
  \A m \in WrittenMessages :
    LET back == parse_message(m.type, encode_message(m))
    IN  IF IsMessage(m) THEN back = m ELSE back.type \in Errors

\* No two payloads mean the same message: one that differs in a byte or in
\* its length is refused, or is another message, written just so.
Damaged(p) ==
  {[p EXCEPT ![i] = b] : i \in DOMAIN p, b \in 0 .. Base - 1}
    \cup {Append(p, 0)} \cup {SubSeq(p, 1, n) : n \in 0 .. Len(p) - 1}
PayloadsAreCanonical ==
  \A m \in {m \in WrittenMessages : m.type # "GamepadState" \/ m.state.buttons = Base} :
    \A p \in Damaged(encode_message(m)) :
      LET read == parse_message(m.type, p)
      IN  read.type \in Errors \/ encode_message(read) = p
=============================================================================
