----------------------------- MODULE MCThreads ------------------------------
(***************************************************************************)
(* What threads share, one pair of them in each behaviour: the HID worker  *)
(* with the session that consumes it, the callers of the desktop worker's  *)
(* mailbox, or the firmware's loop and its USB task.  The other pairs stay *)
(* in their initial states.                                                *)
(***************************************************************************)
EXTENDS HidWorker, DesktopMailbox, FirmwareLoop

VARIABLE part  \* the pair this behaviour is about

threadVars == <<workerVars, mailbox_vars, loopVars, part>>

ThreadsInit ==
  /\ WorkerInit /\ InitMailbox /\ LoopInit
  /\ \/ part = "controller"
     \/ part \in {"desktop", "firmware"} /\ ~haptics.degraded

ThreadsNext ==
  /\ UNCHANGED part
  /\ \/ part = "controller" /\ WorkerNext /\ UNCHANGED <<mailbox_vars, loopVars>>
     \/ part = "desktop" /\ MailboxNext /\ UNCHANGED <<workerVars, loopVars>>
     \/ part = "firmware" /\ LoopNext /\ UNCHANGED <<workerVars, mailbox_vars>>

\* The fairness of WorkerFairSpec, of the behaviours about the controller.
Controller(A) == part = "controller" /\ A
ThreadsFairness ==
  /\ WF_workerVars(Controller(WorkerStep)) /\ SF_workerVars(Controller(Tick))
  /\ WF_workerVars(Controller(PowerOffTimesOut)) /\ WF_workerVars(Controller(Join))

ThreadsSpec == ThreadsInit /\ [][ThreadsNext]_threadVars /\ ThreadsFairness
=============================================================================
