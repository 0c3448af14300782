---------------------------- MODULE ReceiptPage ----------------------------
(***************************************************************************)
(* What the install receipt of a flashed firmware promises its host: the   *)
(* page is blank, unusable or holds one receipt; a receipt once held stays *)
(* through every later request, failed write and loss of power; and only   *)
(* the receipt held is acknowledged.                                       *)
(***************************************************************************)
CONSTANTS Receipts, Blank, Corrupt, None

VARIABLES
  page,         \* a receipt, Blank or Corrupt
  request,      \* the receipt the host asked to record, None for none
  acknowledged  \* the receipts the host was told are recorded

vars == <<page, request, acknowledged>>

Init == page \in {Blank, Corrupt} /\ request = None /\ acknowledged = {}

\* A page that holds a receipt answers at once, if the answer can be sent; a
\* request already pending is not replaced.
Ask(receipt) ==
  /\ IF page \in Receipts
     THEN /\ acknowledged' \in {acknowledged, acknowledged \cup ({receipt} \cap {page})}
          /\ UNCHANGED request
     ELSE /\ request' = IF request = None THEN receipt ELSE request
          /\ UNCHANGED acknowledged
  /\ UNCHANGED page

Record ==
  /\ request # None /\ page = Blank
  /\ page' = request
  /\ UNCHANGED <<request, acknowledged>>

Acknowledge ==
  /\ request # None /\ page = request
  /\ acknowledged' = acknowledged \cup {request}
  /\ request' = None
  /\ UNCHANGED page

\* A refusal, a failed write or a loss of power: the write may have reached
\* the page or spoiled it all the same.  A refusal that cannot be sent leaves
\* the request to be tried again.
Fail ==
  /\ request # None
  /\ page' \in IF page = Blank THEN {Blank, request, Corrupt} ELSE {page}
  /\ request' \in {request, None}
  /\ UNCHANGED acknowledged

Next ==
  \/ \E receipt \in Receipts : Ask(receipt)
  \/ Record
  \/ Acknowledge
  \/ Fail

Spec == Init /\ [][Next]_vars
=============================================================================
