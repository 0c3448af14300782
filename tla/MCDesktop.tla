----------------------------- MODULE MCDesktop ------------------------------
(***************************************************************************)
(* The desktop side: the worker with its mailbox, the callers that wait    *)
(* for its acknowledgements, and the engine it feeds.  Each behaviour is   *)
(* about one of them: the first with one acknowledgement and every profile *)
(* and snapshot, the second with more callers, one profile and no          *)
(* snapshots.  The others stay in an initial state.                        *)
(***************************************************************************)
EXTENDS DesktopWorker, BindingsEngine

CONSTANTS keys, others, a, shift, key, pad, hot

VARIABLE part  \* what this behaviour is about

desktopVars == <<vars, engineVars, part>>

MCMasks == {Up, Down}

\* A button and two triggers of a region that share the outputs of a chord; one
\* profile scrolls, the other points.
MCControls == <<a>>
MCSides == <<pad>>
Layout(action, motion) ==
  [bindings |-> [c \in {a} |-> action],
   pads |-> [s \in {pad} |-> [motion |-> motion, momentum |-> TRUE,
                              click |-> [r \in {hot} |-> <<key>>],
                              touch |-> [r \in {hot} |-> <<shift>>]]]]
MCLayouts == {Layout(<<shift, key>>, "Scroll"), Layout(NoAction, "Pointer")}

Callers == INSTANCE DesktopWorker WITH
  Acks <- Acks \cup others, Profiles <- {keys}, Configured <- {keys}, Samples <- {}

DesktopInit ==
  /\ part \in {"worker", "callers", "engine"} /\ EngineInit
  /\ IF part = "callers" THEN Callers!Init ELSE Init
  /\ part # "engine" => engine.profile = CHOOSE l \in Layouts : TRUE

DesktopNext ==
  /\ UNCHANGED part
  /\ \/ part = "worker" /\ Next /\ UNCHANGED engineVars
     \/ part = "callers" /\ Callers!Next /\ UNCHANGED engineVars
     \/ part = "engine" /\ EngineNext /\ UNCHANGED vars

\* The fairness of FairSpec, of the behaviours about the worker.
DesktopSpec ==
  /\ DesktopInit /\ [][DesktopNext]_desktopVars
  /\ WF_vars(\/ part = "worker" /\ WorkerNext
             \/ part = "callers" /\ Callers!WorkerNext)
=============================================================================
