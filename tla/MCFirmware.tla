----------------------------- MODULE MCFirmware -----------------------------
(***************************************************************************)
(* The firmware session on two small instances, one in each behaviour: one *)
(* has reports and control requests, and a game that asks for no rumble;   *)
(* the other has a game that rumbles and frames that may be lost, and no   *)
(* report but the neutral.                                                 *)
(***************************************************************************)
EXTENDS FirmwareSession

VARIABLE part  \* the instance this behaviour is about

Pads == INSTANCE FirmwareSession WITH
  Rumbles <- {Zero}, SeqModulus <- 1, QuietMs <- 1
Motors == INSTANCE FirmwareSession WITH
  Reports <- {Neutral}, RequestIds <- {}, Receipts <- {}

FirmwareInit ==
  \/ part = "pads" /\ Pads!Init
  \/ part = "motors" /\ Motors!Init

FirmwareNext ==
  /\ UNCHANGED part
  /\ \/ part = "pads" /\ Pads!Next
     \/ part = "motors" /\ Motors!Next

\* Fairness of FirmwareSession without that of Tick, which follows: a port that
\* is read makes room, and one that is closed has an empty queue.
FirmwareSpec ==
  /\ FirmwareInit /\ [][FirmwareNext]_<<vars, part>>
  /\ SF_vars(TickWithRoom) /\ WF_vars(Advance)
  /\ WF_vars(MarkHidReportSent) /\ WF_vars(ServiceCdcTx)

\* A host that waits for the answer to a control request, on a connection that
\* stays up and negotiated, gets it.
ControlRequestIsAnswered ==
  <>[][part = "pads" => ~Pads!ConnectionEdge /\ ~Pads!HostFrame]_vars => RequestsEnd
=============================================================================
