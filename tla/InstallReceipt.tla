--------------------------- MODULE InstallReceipt ---------------------------
(***************************************************************************)
(* The install receipt the firmware keeps in a flash page of two slots     *)
(* (firmware/xiao-nrf52840/src/install_receipt.cpp, FlashReceiptWriter of  *)
(* xiao-nrf52840.ino and the receipt handlers of bridge_session.cpp).      *)
(*                                                                         *)
(* The page is never erased: a write programs a blank slot word by word,   *)
(* its commit word last.  A word the flash controller did not finish is    *)
(* unchanged, programmed or torn (some of its bits are); power can be lost *)
(* at every word.  A slot is what was meant for it, how many of its words  *)
(* are programmed and whether the next one is torn; the magic, the CRC and *)
(* the commit word it is validated by hold exactly when all of them are.   *)
(***************************************************************************)
EXTENDS Integers

CONSTANTS
  Receipts,        \* install receipts a host may send
  WellFormed,      \* those with a date, an id and a known source
  Blank, Corrupt,  \* a page that is Pending, or Invalid
  None,            \* no receipt, no write
  Words            \* words of a slot up to and with its commit word

ASSUME ReceiptAssumption ==
  /\ WellFormed \subseteq Receipts
  /\ None \notin Receipts /\ Blank \notin Receipts /\ Corrupt \notin Receipts
  /\ Blank # Corrupt
ASSUME WordsAssumption ==
  /\ Words \in Nat \ {0}
  /\ None \notin [slot : {1, 2}, word : 1 .. Words + 1]

VARIABLES
  marker,        \* the page carries the magic, format and revision
  slots,         \* the two slots of the flash page
  request,       \* requested_install_receipt_, None unless requested
  write,         \* write_install_receipt in progress: its slot, its next word
  acknowledged   \* ghost: receipts the host was told are recorded

vars == <<marker, slots, request, write, acknowledged>>

-----------------------------------------------------------------------------
SlotIndex == {1, 2}
Slot == [receipt : Receipts \cup {None}, words : 0 .. Words, torn : BOOLEAN]
BlankSlot == [receipt |-> None, words |-> 0, torn |-> FALSE]

install_receipt_slot_blank(slot) == slot.words = 0 /\ ~slot.torn
validate_install_receipt(slot) == slot.words = Words

BlankSlots == {i \in SlotIndex : install_receipt_slot_blank(slots[i])}
ValidSlots == {i \in SlotIndex : validate_install_receipt(slots[i])}

\* The first of a set of slots.
First(indices) == IF 1 \in indices THEN 1 ELSE 2

\* Fault: a page with a blank slot is pending, whatever the other one holds.
read_install_receipt_blank_first ==
  IF ~marker THEN Corrupt
  ELSE IF BlankSlots # {} THEN Blank
  ELSE IF ValidSlots # {} THEN slots[First(ValidSlots)].receipt
  ELSE Corrupt

read_install_receipt ==
  IF ~marker THEN Corrupt
  ELSE IF ValidSlots # {} THEN slots[First(ValidSlots)].receipt
  ELSE IF BlankSlots # {} THEN Blank
  ELSE Corrupt

Init ==
  /\ marker \in BOOLEAN
  /\ slots = [i \in SlotIndex |-> BlankSlot]
  /\ request = None
  /\ write = None
  /\ acknowledged = {}

-----------------------------------------------------------------------------
\* InstallReceiptRecorded or an error, after which the request is over; with
\* no room in the CDC queue it is not sent, and the next tick serves the
\* request again.
Answer(recorded) ==
  \E sent \in BOOLEAN :
    /\ request' = IF sent THEN None ELSE request
    /\ acknowledged' = acknowledged \cup {r \in {request} : sent /\ recorded}

\* Fault: any recorded receipt confirms the request.
record_install_receipt_confirms_any(receipt) ==
  /\ write = None
  /\ IF read_install_receipt \in Receipts
     THEN acknowledged' = acknowledged \cup {receipt} /\ UNCHANGED request
     ELSE /\ request' = IF request = None THEN receipt ELSE request
          /\ UNCHANGED acknowledged
  /\ UNCHANGED <<marker, slots, write>>

\* A request of the host: a page that holds a receipt answers for itself, and
\* a pending request is not replaced.
record_install_receipt(receipt) ==
  /\ write = None
  /\ IF read_install_receipt \in Receipts
     THEN /\ \E sent \in BOOLEAN :
               acknowledged' = acknowledged \cup
                 {r \in {receipt} : sent /\ r = read_install_receipt}
          /\ UNCHANGED request
     ELSE /\ request' = IF request = None THEN receipt ELSE request
          /\ UNCHANGED acknowledged
  /\ UNCHANGED <<marker, slots, write>>

\* service_install_receipt writes nothing to an unusable page or to one that
\* holds a receipt already, write_install_receipt no receipt that is not well
\* formed.
AnswerWithoutWrite ==
  /\ request # None /\ write = None
  /\ read_install_receipt # Blank \/ request \notin WellFormed
  /\ Answer(read_install_receipt = request)
  /\ UNCHANGED <<marker, slots, write>>

\* Fault: the write starts at the first slot even if that one is spoiled.
BeginWrite_first_slot ==
  /\ request \in WellFormed /\ write = None
  /\ read_install_receipt = Blank
  /\ write' = [slot |-> 1, word |-> 1]
  /\ UNCHANGED <<marker, slots, request, acknowledged>>

\* write_install_receipt takes the first blank slot.
BeginWrite ==
  /\ request \in WellFormed /\ write = None
  /\ read_install_receipt = Blank
  /\ write' = [slot |-> First(BlankSlots), word |-> 1]
  /\ UNCHANGED <<marker, slots, request, acknowledged>>

-----------------------------------------------------------------------------
\* What the flash may hold after write_word was called for the next word:
\* the slot with the word programmed, or torn.
Programmed == [slots EXCEPT ![write.slot] =
  [receipt |-> request, words |-> write.word, torn |-> FALSE]]
Torn == [slots EXCEPT ![write.slot] =
  [receipt |-> request, words |-> write.word - 1, torn |-> TRUE]]

\* Fault: the loop over the words runs past the commit word.
InWords_past_commit == write # None /\ write.word <= Words + 1

InWords == write # None /\ write.word <= Words

WriteWord ==
  /\ InWords
  /\ slots' = Programmed
  /\ write' = [write EXCEPT !.word = @ + 1]
  /\ UNCHANGED <<marker, request, acknowledged>>

\* write_word returns false: refused, timed out before or after the word was
\* programmed, or read back another value.
WriteWordFails ==
  /\ InWords
  /\ slots' \in {slots, Programmed, Torn}
  /\ write' = None
  /\ Answer(FALSE)
  /\ UNCHANGED marker

\* The slot is read back, then the page; the host is told of what they hold.
ReadBack ==
  /\ write # None /\ ~InWords
  /\ write' = None
  /\ Answer(/\ validate_install_receipt(slots[write.slot])
            /\ read_install_receipt = request)
  /\ UNCHANGED <<marker, slots>>

\* The board loses power or is reset, or (between writes) its host is gone:
\* only the flash survives.
PowerLoss ==
  /\ request # None
  /\ slots' \in IF InWords THEN {slots, Programmed, Torn} ELSE {slots}
  /\ request' = None
  /\ write' = None
  /\ UNCHANGED <<marker, acknowledged>>

Next ==
  \/ \E receipt \in Receipts : record_install_receipt(receipt)
  \/ AnswerWithoutWrite
  \/ BeginWrite
  \/ WriteWord
  \/ WriteWordFails
  \/ ReadBack
  \/ PowerLoss

Spec == Init /\ [][Next]_vars

-----------------------------------------------------------------------------
\* The module's type invariant: the state stays within the page's two slots
\* and the session's one request.
TypeOK ==
  /\ marker \in BOOLEAN
  /\ slots \in [SlotIndex -> Slot]
  /\ request \in Receipts \cup {None}
  /\ write \in [slot : SlotIndex, word : 1 .. Words + 1] \cup {None}
  /\ acknowledged \subseteq Receipts

\* A receipt the host was told is recorded is the one every later read of
\* the page finds, whatever was asked, failed or interrupted in between
\* (GAMEPAD_PROTOCOL.md: acknowledged only after it is committed and read
\* back; replacement metadata is rejected until another UF2 flash).
AcknowledgedIsRecorded == acknowledged \subseteq {read_install_receipt}

\* Flash is programmed only where it is blank: a slot that a failed write
\* spoiled, or that holds a receipt, is never written again.
OnlyBlankSlotsAreWritten ==
  [][\A i \in SlotIndex :
       slots'[i] # slots[i] =>
         \/ install_receipt_slot_blank(slots[i])
         \/ /\ write # None /\ write.slot = i
            /\ ~slots[i].torn /\ slots[i].words = write.word - 1]_vars

\* While a write is in progress nothing reads the page; it counts as blank
\* until the commit word is programmed.
PageInFlight ==
  IF write # None
  THEN IF ValidSlots # {} THEN request ELSE Blank
  ELSE read_install_receipt

\* The two slots implement the page of ReceiptPage.
Promise == INSTANCE ReceiptPage WITH page <- PageInFlight
ImplementsReceiptPage == Promise!Spec
=============================================================================
