----------------------------- MODULE Supervisor -----------------------------
(***************************************************************************)
(* Supervisor::run, the thread that owns every hardware handle, and the    *)
(* commands its callers queue for it: a frontend, its updater and the      *)
(* power monitor (crates/bridge/bridge-runtime/src/supervisor/mod.rs,      *)
(* supervisor/commands.rs, runtime.rs).                                    *)
(*                                                                         *)
(* A caller may queue a command at any step; one that gave up waiting is a *)
(* caller nobody answers.  Time is left out: a wait for a command, the     *)
(* settling after a wake and the backoff of the output may end at any      *)
(* iteration of the loop.  What ActiveSession details is one phase here,   *)
(* with the ways it can end.  Commands that only change a setting touch no *)
(* handle and are answered where they are taken; Configure stands for them. *)
(***************************************************************************)
EXTENDS Integers, Sequences, FiniteSets

CONSTANTS
  Outputs,   \* output selections
  Live,      \* those whose hardware needs the power monitor
  Requests,  \* bound: the commands that can wait for an answer at a time
  None       \* no output, no request

ASSUME OutputAssumption == Live \subseteq Outputs /\ None \notin Outputs
ASSUME RequestAssumption == None \notin Requests

VARIABLES
  startup_blocker,       \* the power monitor could not be started
  commands,              \* the command channel
  waiting,               \* requests whose acknowledgement is not sent
  desired_running,       \* desired_running
  suspension,            \* suspension: the owners that keep hardware closed
  wake_settle,           \* wake_settle is still ahead
  shutdown_requested,    \* shutdown_requested
  pending_stop_acks,     \* pending_stop_acks, as the commands they are for
  pending_shutdown_acks, \* pending_shutdown_acks
  pending_output_change, \* pending_output_change, None for none
  config_output,         \* config.output
  phase,                 \* where the loop is
  exit,                  \* the ActiveExit being cleaned up, None for none
  output,                \* the output that is open, wherever it is held
  controllers,           \* some HID session is open
  parked,                \* ghost: owners told that hardware is released
  asked                  \* ghost: the output of the newest change accepted

intent   == <<desired_running, suspension, wake_settle, shutdown_requested>>
acks     == <<pending_stop_acks, pending_shutdown_acks>>
selected == <<pending_output_change, config_output, asked>>
handles  == <<output, controllers>>
vars == <<startup_blocker, commands, waiting, intent, acks, selected, phase,
          exit, handles, parked>>

Phases == {"commands", "decide", "output", "controller", "active", "teardown",
           "ended"}

\* Stop and the two suspensions close the hardware for an owner, who opens it
\* again with the command that follows.
Owner == [Stop |-> "user", SuspendForSleep |-> "sleep", SuspendForUpdate |-> "update"]
Reopens == [Start |-> "user", ResumeFromWake |-> "sleep", ResumeFromUpdate |-> "update"]

NewCommand(kind, id, selection) == [kind |-> kind, id |-> id, selection |-> selection]
Kinds == DOMAIN Owner \cup DOMAIN Reopens \cup {"Shutdown", "Configure"}

Init ==
  /\ startup_blocker \in BOOLEAN
  /\ commands = << >> /\ waiting = {}
  /\ config_output \in Outputs
  /\ desired_running = (~startup_blocker \/ config_output \notin Live)
  /\ suspension = {} /\ wake_settle = FALSE /\ shutdown_requested = FALSE
  /\ pending_stop_acks = {} /\ pending_shutdown_acks = {}
  /\ pending_output_change = None /\ asked = None
  /\ phase = "commands" /\ exit = None
  /\ output = None /\ controllers = FALSE
  /\ parked = {}

-----------------------------------------------------------------------------
(* Callers.                                                                *)

\* begin_command: the channel is unbounded and takes commands until the end.
Send(kind, id, selection) ==
  /\ phase # "ended" /\ id \notin waiting
  /\ commands' = Append(commands, NewCommand(kind, id, selection))
  /\ waiting' = waiting \cup {id}
  /\ UNCHANGED <<startup_blocker, intent, acks, selected, phase, exit, handles,
                 parked>>

-----------------------------------------------------------------------------
(* Commands.                                                               *)

Taken == Head(commands)
Take == phase \in {"commands", "active"} /\ commands # << >> /\ commands' = Tail(commands)
Answer(answered) == waiting' = waiting \ {command.id : command \in answered}

\* The owners that still want hardware closed when they are told that it is.
Standing(answered) ==
  {Owner[command.kind] : command \in answered} \cap
    (suspension \cup IF desired_running THEN {} ELSE {"user"})

Blocked == startup_blocker /\ config_output \in Live

\* Fault: Start does not ask whether the power monitor runs.
Start_unchecked ==
  /\ Take /\ Taken.kind = "Start"
  /\ Answer({Taken})
  /\ desired_running' = TRUE
  /\ parked' = parked \ {"user"}
  /\ UNCHANGED <<startup_blocker, suspension, wake_settle, shutdown_requested,
                 acks, selected, phase, exit, handles>>

\* Live output is refused without a power monitor.  In an active session,
\* where it is desired already, Start changes nothing.
Start ==
  /\ Take /\ Taken.kind = "Start"
  /\ Answer({Taken})
  /\ desired_running' = (desired_running \/ ~Blocked)
  /\ parked' = IF Blocked THEN parked ELSE parked \ {"user"}
  /\ UNCHANGED <<startup_blocker, suspension, wake_settle, shutdown_requested,
                 acks, selected, phase, exit, handles>>

\* What Stop, SuspendForSleep, SuspendForUpdate and Shutdown ask for.
Asks(kind) ==
  /\ desired_running' = (desired_running /\ kind \notin {"Stop", "Shutdown"})
  /\ suspension' = suspension \cup
       CASE kind = "SuspendForSleep" -> {"sleep"}
         [] kind = "SuspendForUpdate" -> {"update"}
         [] OTHER -> {}
  /\ wake_settle' = (wake_settle /\ kind # "SuspendForSleep")
  /\ shutdown_requested' = (shutdown_requested \/ kind = "Shutdown")
  /\ UNCHANGED <<startup_blocker, selected, handles, parked>>

\* Without a session it is answered once the loop has closed the hardware.
StopIdle ==
  /\ Take /\ phase = "commands"
  /\ Taken.kind \in DOMAIN Owner \cup {"Shutdown"}
  /\ Asks(Taken.kind)
  /\ IF Taken.kind = "Shutdown"
     THEN /\ pending_shutdown_acks' = pending_shutdown_acks \cup {Taken}
          /\ UNCHANGED pending_stop_acks
     ELSE /\ pending_stop_acks' = pending_stop_acks \cup {Taken}
          /\ UNCHANGED pending_shutdown_acks
  /\ UNCHANGED <<waiting, phase, exit>>

\* In a session it ends the session, whose cleanup answers it.
StopActive ==
  /\ Take /\ phase = "active"
  /\ Taken.kind \in DOMAIN Owner \cup {"Shutdown"}
  /\ Asks(Taken.kind)
  /\ exit' = Taken /\ phase' = "teardown"
  /\ UNCHANGED <<waiting, acks>>

\* Fault: the end of one suspension is taken for the end of both.
Resume_both ==
  /\ Take /\ Taken.kind \in {"ResumeFromWake", "ResumeFromUpdate"}
  /\ Answer({Taken})
  /\ suspension' = {}
  /\ wake_settle' = (wake_settle \/ "sleep" \in suspension)
  /\ parked' = parked \ {Reopens[Taken.kind]}
  /\ UNCHANGED <<startup_blocker, desired_running, shutdown_requested, acks,
                 selected, phase, exit, handles>>

\* Each ends its own suspension; the other one stands.
Resume ==
  LET owner == Reopens[Taken.kind]
  IN  /\ Take /\ Taken.kind \in {"ResumeFromWake", "ResumeFromUpdate"}
      /\ Answer({Taken})
      /\ suspension' = suspension \ {owner}
      /\ wake_settle' = (wake_settle \/ (owner = "sleep" /\ owner \in suspension))
      /\ parked' = parked \ {owner}
      /\ UNCHANGED <<startup_blocker, desired_running, shutdown_requested, acks,
                     selected, phase, exit, handles>>

Configure ==
  /\ Take /\ Taken.kind = "Configure"
  /\ Answer({Taken})
  /\ UNCHANGED <<startup_blocker, intent, acks, selected, phase, exit, handles,
                 parked>>

\* Fault: an updater that owns the hardware does not matter.
ChangeIsRejected_ignores_update(selection) ==
  startup_blocker /\ selection # config_output /\ selection \in Live

\* accept_output_change: a rejection, or nothing to do, is answered at once.
ChangeIsRejected(selection) ==
  \/ "update" \in suspension
  \/ startup_blocker /\ selection # config_output /\ selection \in Live

RefuseOutput ==
  /\ Take /\ Taken.kind = "SetOutput"
  /\ ChangeIsRejected(Taken.selection) \/ Taken.selection = config_output
  /\ Answer({Taken})
  /\ asked' = IF ChangeIsRejected(Taken.selection) THEN asked ELSE Taken.selection
  /\ UNCHANGED <<startup_blocker, intent, acks, pending_output_change,
                 config_output, phase, exit, handles, parked>>

Accepts == Taken.kind = "SetOutput" /\ ~ChangeIsRejected(Taken.selection)
             /\ Taken.selection # config_output

\* A change that still waits is forgotten, and its caller's channel closed.
SetOutputIdle ==
  /\ Take /\ phase = "commands" /\ Accepts
  /\ pending_output_change' = Taken /\ asked' = Taken.selection
  /\ Answer({pending_output_change} \ {None})
  /\ UNCHANGED <<startup_blocker, intent, acks, config_output, phase, exit,
                 handles, parked>>

SetOutputActive ==
  /\ Take /\ phase = "active" /\ Accepts
  /\ exit' = Taken /\ phase' = "teardown" /\ asked' = Taken.selection
  /\ UNCHANGED <<startup_blocker, waiting, intent, acks, pending_output_change,
                 config_output, handles, parked>>

ServiceCommand ==
  \/ Start \/ StopIdle \/ StopActive \/ Resume \/ Configure
  \/ RefuseOutput \/ SetOutputIdle \/ SetOutputActive

-----------------------------------------------------------------------------
(* The loop without a session.                                             *)

Released == output' = None /\ controllers' = FALSE
Goto(next) == phase' = next /\ exit' = None

\* service_idle_commands found the channel empty.
Drained ==
  /\ phase = "commands" /\ commands = << >>
  /\ Goto("decide")
  /\ UNCHANGED <<startup_blocker, commands, waiting, intent, acks, selected,
                 handles, parked>>

\* The old output is parked and closed; unless that failed the new one is
\* configured.
ChangeOutput ==
  /\ phase = "decide" /\ pending_output_change # None
  /\ Released
  /\ \/ config_output' = pending_output_change.selection /\ UNCHANGED asked
     \/ output # None /\ asked' = None /\ UNCHANGED config_output
  /\ pending_output_change' = None
  /\ Answer({pending_output_change})
  /\ Goto("commands")
  /\ UNCHANGED <<startup_blocker, commands, intent, acks, parked>>

NothingToChange == phase = "decide" /\ pending_output_change = None

\* The last iteration; what is left in the channel is dropped with it.
ShutDown ==
  /\ NothingToChange /\ shutdown_requested
  /\ Released
  /\ waiting' = {}
  /\ pending_stop_acks' = {} /\ pending_shutdown_acks' = {}
  /\ parked' = parked \cup Standing(pending_stop_acks)
  /\ commands' = << >>
  /\ Goto("ended")
  /\ UNCHANGED <<startup_blocker, intent, selected>>

Parked == ~desired_running \/ suspension # {}

\* Fault: the callers are told before the handles are closed.
Park_acknowledges_first ==
  /\ NothingToChange /\ ~shutdown_requested /\ Parked
  /\ IF pending_stop_acks = {} THEN Released ELSE UNCHANGED handles
  /\ Answer(pending_stop_acks)
  /\ pending_stop_acks' = {}
  /\ parked' = parked \cup Standing(pending_stop_acks)
  /\ Goto("commands")
  /\ UNCHANGED <<startup_blocker, commands, intent, pending_shutdown_acks, selected>>

\* Fault: a stop that finds nothing open has nothing to wait for.
Park_forgets_callers ==
  /\ NothingToChange /\ ~shutdown_requested /\ Parked
  /\ Released
  /\ IF output = None
     THEN UNCHANGED <<waiting, parked, pending_stop_acks>>
     ELSE /\ Answer(pending_stop_acks)
          /\ pending_stop_acks' = {}
          /\ parked' = parked \cup Standing(pending_stop_acks)
  /\ Goto("commands")
  /\ UNCHANGED <<startup_blocker, commands, intent, pending_shutdown_acks, selected>>

\* Stopped or suspended: everything is closed, then the callers are told.
Park ==
  /\ NothingToChange /\ ~shutdown_requested /\ Parked
  /\ Released
  /\ Answer(pending_stop_acks)
  /\ pending_stop_acks' = {}
  /\ parked' = parked \cup Standing(pending_stop_acks)
  /\ Goto("commands")
  /\ UNCHANGED <<startup_blocker, commands, intent, pending_shutdown_acks, selected>>

\* After a wake the loop only takes commands until the hardware has settled.
Settle ==
  /\ NothingToChange /\ ~shutdown_requested /\ ~Parked
  /\ \/ Goto("output") /\ wake_settle' = FALSE
     \/ wake_settle /\ Goto("commands") /\ UNCHANGED wake_settle
  /\ UNCHANGED <<startup_blocker, commands, waiting, desired_running, suspension,
                 shutdown_requested, acks, selected, handles, parked>>

\* discover_output: the output opens, is not there yet, or never will be.
DiscoverOutput ==
  /\ phase = "output"
  /\ \/ /\ output' = IF output = None THEN config_output ELSE output
        /\ Goto("controller") /\ UNCHANGED desired_running
     \/ /\ output = None /\ UNCHANGED output
        /\ Goto("commands") /\ desired_running' \in {TRUE, FALSE}
  /\ UNCHANGED <<startup_blocker, commands, waiting, suspension, wake_settle,
                 shutdown_requested, acks, selected, controllers, parked>>

\* discover_controller_source: it keeps the candidates it probes open.  While
\* it waits for one the output is serviced, and may be lost or blocked.
DiscoverController ==
  /\ phase = "controller"
  /\ \/ /\ controllers' = TRUE /\ Goto("active")
        /\ UNCHANGED <<output, desired_running>>
     \/ /\ controllers' \in BOOLEAN /\ Goto("commands")
        /\ \/ UNCHANGED <<output, desired_running>>
           \/ output' = None /\ desired_running' \in {TRUE, FALSE}
  /\ UNCHANGED <<startup_blocker, commands, waiting, suspension, wake_settle,
                 shutdown_requested, acks, selected, parked>>

-----------------------------------------------------------------------------
(* The session (run_active) and its cleanup.                               *)

Ending(kind) == NewCommand(kind, None, None)

\* The controller or the output is gone, or the controller was powered off.
SessionEnds ==
  /\ phase = "active"
  /\ \E kind \in {"SourceLost", "OutputLost", "OutputBlocked", "AutomaticShutdown"} :
       exit' = Ending(kind)
  /\ phase' = "teardown"
  /\ UNCHANGED <<startup_blocker, commands, waiting, intent, acks, selected,
                 handles, parked>>

\* The worker failed, or the session could not be set up.
SessionFails ==
  /\ phase = "active"
  /\ Released
  /\ desired_running' = FALSE
  /\ Goto("commands")
  /\ UNCHANGED <<startup_blocker, commands, waiting, suspension, wake_settle,
                 shutdown_requested, acks, selected, parked>>

\* A session that ended by itself leaves its output to the next one when its
\* cleanup succeeded and the output was not the reason.
TearDown ==
  /\ phase = "teardown" /\ exit.id = None
  /\ controllers' = FALSE
  /\ \/ /\ output' = IF exit.kind \in {"SourceLost", "AutomaticShutdown"} THEN output
                     ELSE None
        /\ desired_running' = (desired_running /\ exit.kind # "OutputBlocked")
     \/ output' = None /\ desired_running' = FALSE
  /\ Goto("commands")
  /\ UNCHANGED <<startup_blocker, commands, waiting, suspension, wake_settle,
                 shutdown_requested, acks, selected, parked>>

\* acknowledge_after_hardware_release: the command that ended the session
\* learns whether its cleanup succeeded.
Acknowledge ==
  /\ phase = "teardown" /\ exit.id # None
  /\ Released
  /\ Answer({exit})
  /\ \E cleaned \in BOOLEAN :
       /\ parked' = IF cleaned /\ exit.kind \in DOMAIN Owner
                    THEN parked \cup Standing({exit}) ELSE parked
       /\ config_output' = IF cleaned /\ exit.kind = "SetOutput"
                           THEN exit.selection ELSE config_output
       /\ asked' = IF ~cleaned /\ exit.kind = "SetOutput" THEN None ELSE asked
  /\ Goto("commands")
  /\ UNCHANGED <<startup_blocker, commands, intent, acks, pending_output_change>>

-----------------------------------------------------------------------------

Loop ==
  \/ ServiceCommand
  \/ Drained \/ ChangeOutput \/ ShutDown \/ Park \/ Settle
  \/ DiscoverOutput \/ DiscoverController
  \/ TearDown \/ Acknowledge

CallerSends ==
  \/ \E kind \in Kinds, id \in Requests : Send(kind, id, None)
  \/ \E selection \in Outputs, id \in Requests : Send("SetOutput", id, selection)

Next ==
  \/ CallerSends
  \/ Loop
  \/ SessionEnds
  \/ SessionFails

Spec == Init /\ [][Next]_vars

\* The thread keeps running, and everything it waits for ends in bounded time.
FairSpec == Spec /\ WF_vars(Loop)

-----------------------------------------------------------------------------
(* Properties.                                                             *)

\* An owner who was told that the hardware is released (before the machine
\* sleeps, an updater writes a device, or the user moves on) finds it closed
\* until that owner asks to open it, whatever the other owners, a session that
\* ends at the same time or an output change do meanwhile.
ParkedStaysClosed == parked # {} => output = None /\ ~controllers

\* Without a power monitor no output that needs one is ever opened, in
\* whatever order starts and output changes are asked for.
NoHardwareWithoutMonitor == startup_blocker => output \notin Live

\* No output is open against the word of an owner or without a power monitor.
HardwareIsPermitted == ParkedStaysClosed /\ NoHardwareWithoutMonitor

\* From the moment an updater was told that it owns the hardware until it gives
\* it back, the selected output stays what it was, also if a change of it was
\* queued before.
OutputIsKept == "update" \in parked => config_output' = config_output

\* The owners of the hardware are obeyed, in what is open and in what is set.
OwnersAreObeyed == [][HardwareIsPermitted' /\ OutputIsKept]_vars

\* Once callers pause, every command is answered, or its caller's channel closed,
\* unless it is a stop that a later start or resume overtook.
CallersPause == <>[][~CallerSends]_vars
Overtaken(id) == ~Parked /\ \E command \in pending_stop_acks : command.id = id
RequestsAreAnswered == CallersPause =>
  \A id \in Requests : id \in waiting ~> id \notin waiting \/ Overtaken(id)

\* As commands.rs:291 has it, both dispatchers judge a change by the same
\* rules: when none is left, the output is the one that the newest change
\* which was not refused asked for.
NewestOutputWins ==
  NothingToChange /\ asked # None => config_output = asked
=============================================================================
