----------------------------- MODULE MCSession -----------------------------
(***************************************************************************)
(* The supervisor and the parts around run_active that share no state with *)
(* it, one of them in each behaviour: the supervisor itself, the feedback  *)
(* relay, the automatic shutdown, the discovery of controllers and the     *)
(* virtual gamepad.  Those that are not under examination stay in one of   *)
(* their initial states.                                                   *)
(***************************************************************************)
EXTENDS Supervisor, FeedbackRelay, AutomaticShutdown, ControllerDiscovery, VirtualHid

VARIABLE part  \* the part this behaviour is about

sessionVars == <<vars, relayVars, autoVars, discoveryVars, hidVars, part>>

SessionInit ==
  /\ part \in {"supervisor", "relay", "shutdown", "discovery", "gamepad"}
  /\ Init /\ (part # "supervisor" => ~startup_blocker /\ config_output = CHOOSE o \in Outputs : TRUE)
  /\ RelayInit /\ (part # "relay" => relay.stateful)
  /\ IF part = "shutdown" THEN AutoInit ELSE AutoStart(NoTime, FALSE)
  /\ IF part = "discovery" THEN DiscoveryInit ELSE DiscoveryStart(FALSE)
  /\ HidStart

SessionNext ==
  /\ UNCHANGED part
  /\ \/ part = "supervisor" /\ Next
        /\ UNCHANGED <<relayVars, autoVars, discoveryVars, hidVars>>
     \/ part = "relay" /\ RelayNext /\ UNCHANGED <<vars, autoVars, discoveryVars, hidVars>>
     \/ part = "shutdown" /\ AutoNext /\ UNCHANGED <<vars, relayVars, discoveryVars, hidVars>>
     \/ part = "discovery" /\ DiscoveryNext /\ UNCHANGED <<vars, relayVars, autoVars, hidVars>>
     \/ part = "gamepad" /\ HidNext /\ UNCHANGED <<vars, relayVars, autoVars, discoveryVars>>

Gamepad(A) == part = "gamepad" /\ A

\* The fairness of FairSpec and of HidFairness, each of its own behaviours.
SessionFairness ==
  /\ WF_vars(part = "supervisor" /\ Loop)
  /\ WF_hidVars(Gamepad(WorkerRuns)) /\ WF_hidVars(Gamepad(HelperRuns))
  /\ WF_hidVars(Gamepad(Join)) /\ WF_hidVars(Gamepad(DoesNotOpen))

SessionSpec == SessionInit /\ [][SessionNext]_sessionVars /\ SessionFairness
=============================================================================
