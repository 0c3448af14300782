------------------------------ MODULE AppCenter ------------------------------
(***************************************************************************)
(* The App Center window and the menu app around it (app_center.rs,        *)
(* app_center/host_client.rs, app_center_host.rs, tray.rs).  The window is *)
(* a child process: a frame loop, at most one worker thread, and requests  *)
(* with ids to its parent.  The parent's event loop serves the requests of *)
(* the current generation by commands to the bridge runtime, which obeys   *)
(* in order but possibly after the parent has stopped waiting.  Any answer *)
(* may be late, and the window may die at every step.                      *)
(***************************************************************************)
EXTENDS Naturals, Sequences

CONSTANTS
    Nobody,      \* no generation, no request
    MaxWindows,  \* bound: windows opened
    MaxJobs      \* bound: jobs started by one window

ASSUME CenterAssumption ==
    /\ Nobody \notin Nat /\ Nobody \notin {"suspend", "resume", "quit"}
    /\ MaxWindows \in Nat /\ MaxJobs \in Nat

VARIABLES
    window,   \* the window process and its frame loop
    worker,   \* its only worker thread
    events,   \* WorkerEvents not yet drained by the frame loop
    requests, \* window -> parent
    replies,  \* parent -> window
    host,     \* AppCenterHost and the parent's event loop
    runtime   \* the bridge runtime: the update suspension and its commands

centerVars == <<window, worker, events, requests, replies, host, runtime>>

-----------------------------------------------------------------------------

NewWindow(generation) ==
    [open |-> TRUE, generation |-> generation, step |-> "events", activity |-> "idle",
     catalog |-> "unasked", cancel |-> FALSE, close_when_idle |-> FALSE,
     firmware_write_started |-> FALSE, session |-> FALSE, jobs |-> 0]
NoWorker == [slot |-> FALSE, job |-> "none", at |-> "done", waits |-> 0, result |-> "none"]

CenterInit ==
    /\ window = [NewWindow(0) EXCEPT !.open = FALSE]
    /\ worker = NoWorker
    /\ events = << >> /\ requests = << >> /\ replies = << >>
    /\ host = [generation |-> Nobody, next |-> 1, owner |-> Nobody, serving |-> Nobody,
               recovery |-> "idle", abandoned |-> FALSE, next_id |-> 1]
    /\ runtime = [suspended |-> FALSE, commands |-> << >>, last |-> Nobody]

-----------------------------------------------------------------------------
(* The window: its frame.                                                  *)

Alive == window.open
\* Fault: a job that can still be cancelled does not defer the close.
must_defer_close_unless_cancellable == window.session \/ window.activity = "busy"
must_defer_close == window.session \/ window.activity \in {"busy", "busy_cancellable"}
operation_available == window.activity = "idle" /\ ~worker.slot

Terminal(event) == event \notin {"progress", "writing"}

(* join_worker: navigation unlocks only when there was a worker to join. *)
Join(w) == IF worker.slot THEN [w EXCEPT !.firmware_write_started = FALSE] ELSE w
Settled(w) == IF w.close_when_idle THEN [w EXCEPT !.activity = "closing"] ELSE w

(* drain_events, one event; a terminal one joins the worker. *)
DrainEvent ==
    LET event == Head(events)
        idle == [window EXCEPT !.activity = "idle"] IN
    /\ Alive /\ window.step = "events" /\ events # << >>
    /\ Terminal(event) /\ worker.slot => worker.at = "done"
    /\ events' = Tail(events)
    /\ window' =
         CASE event = "progress" -> [window EXCEPT !.activity = "busy_cancellable"]
           [] event = "writing" -> [window EXCEPT !.activity = "busy", !.firmware_write_started = TRUE]
           [] event = "loaded" -> Settled(Join([idle EXCEPT !.catalog = "loaded"]))
           [] event = "failed" -> Settled(Join([idle EXCEPT !.catalog = "failed"]))
           [] event = "quit" -> Join([window EXCEPT !.activity = "closing"])
           [] OTHER -> Settled(Join(idle))
    /\ worker' = IF Terminal(event) THEN NoWorker ELSE worker
    /\ UNCHANGED <<requests, replies, host, runtime>>

EventsDrained ==
    /\ Alive /\ window.step = "events" /\ events = << >>
    /\ window' = [window EXCEPT !.step = "panic"]
    /\ UNCHANGED <<worker, events, requests, replies, host, runtime>>

(* detect_worker_panic: a finished worker is joined, its events undrained. *)
DetectPanic ==
    /\ Alive /\ window.step = "panic"
    /\ IF worker.slot /\ worker.at = "done"
       THEN /\ window' = [Settled(Join(window)) EXCEPT !.step = "input"]
            /\ worker' = NoWorker
       ELSE window' = [window EXCEPT !.step = "input"] /\ UNCHANGED worker
    /\ UNCHANGED <<events, requests, replies, host, runtime>>

Exits == window' = [window EXCEPT !.open = FALSE]

(* The user closes the window: request_close, deferred while a job runs. *)
CloseRequested ==
    /\ Alive /\ window.step = "input" /\ ~window.close_when_idle
    /\ IF must_defer_close
       THEN window' = [window EXCEPT !.close_when_idle = TRUE, !.cancel = TRUE]
       ELSE window' = [window EXCEPT !.activity = "closing"]
    /\ UNCHANGED <<worker, events, requests, replies, host, runtime>>

(* "Cancel Before Writing". *)
CancelPressed ==
    /\ Alive /\ window.step = "input" /\ window.activity = "busy_cancellable" /\ ~window.cancel
    /\ window' = [window EXCEPT !.cancel = TRUE]
    /\ UNCHANGED <<worker, events, requests, replies, host, runtime>>

(* ViewportCommand::Close, and Drop: cancel and join. *)
Close ==
    /\ Alive /\ window.step = "input" /\ window.activity = "closing"
    /\ worker.slot => worker.at = "done"
    /\ Exits /\ worker' = NoWorker
    /\ UNCHANGED <<events, requests, replies, host, runtime>>

StartJob(job, activity, catalog) ==
    /\ window.jobs < MaxJobs
    /\ window' = [window EXCEPT !.step = "events", !.activity = activity, !.catalog = catalog,
                                !.jobs = @ + 1, !.cancel = IF job = "quit" THEN @ ELSE FALSE]
    /\ worker' = [NoWorker EXCEPT !.slot = TRUE, !.job = job, !.at = "working"]
    /\ UNCHANGED <<events, requests, replies, host, runtime>>

(* ensure_catalog on the first frame that shows Updates, then the buttons. *)
EnsureCatalog == window.catalog = "unasked" /\ StartJob("catalog", "busy", "checking")
CheckAgain == /\ window.activity = "idle" /\ window.catalog \in {"loaded", "failed"}
              /\ StartJob("catalog", "busy", "checking")
DownloadApplication == operation_available /\ window.catalog # "unasked" /\ StartJob("application", "busy", window.catalog)
InstallFirmware == operation_available /\ window.catalog # "unasked" /\ StartJob("firmware", "busy_cancellable", window.catalog)
QuitForReplacement == operation_available /\ window.catalog # "unasked" /\ StartJob("quit", "busy", window.catalog)
NextFrame ==
    /\ window' = [window EXCEPT !.step = "events"]
    /\ UNCHANGED <<worker, events, requests, replies, host, runtime>>

Paint ==
    /\ Alive /\ window.step = "input" /\ window.activity # "closing"
    /\ EnsureCatalog \/ CheckAgain \/ DownloadApplication \/ InstallFirmware \/ QuitForReplacement
       \/ NextFrame

-----------------------------------------------------------------------------
(* The worker thread and its requests.                                     *)

Finishes(event) ==
    /\ events' = Append(events, event)
    /\ worker' = [worker EXCEPT !.at = "done"]

(* HostClient::request: a fresh id, and the wait for its answer. *)
Request(operation, at) ==
    /\ requests' = Append(requests, [generation |-> window.generation, id |-> host.next_id,
                                     operation |-> operation])
    /\ worker' = [worker EXCEPT !.at = at, !.waits = host.next_id]
    /\ host' = [host EXCEPT !.next_id = @ + 1]

Work ==
    /\ Alive /\ worker.at = "working"
    /\ \/ /\ worker.job = "catalog" /\ \E e \in {"loaded", "failed"} : Finishes(e)
          /\ UNCHANGED <<requests, host>>
       \/ worker.job \in {"application", "firmware"} /\ Finishes("finished") /\ UNCHANGED <<requests, host>>
       \/ worker.job = "firmware" /\ ~window.cancel /\ Request("suspend", "suspending") /\ UNCHANGED events
       \/ worker.job = "quit" /\ Request("quit", "quitting") /\ UNCHANGED events
    /\ UNCHANGED <<window, replies, runtime>>

Answers(reply) == reply.id = worker.waits

(* An answer to an earlier request is skipped. *)
SkipReply ==
    /\ Alive /\ replies # << >> /\ ~Answers(Head(replies))
    /\ worker.at \in {"suspending", "resuming", "recovering", "quitting"}
    /\ replies' = Tail(replies)
    /\ UNCHANGED <<window, worker, events, requests, host, runtime>>

(* The answer, or HOST_RESPONSE_TIMEOUT. *)
Answered(result) ==
    \/ /\ replies # << >> /\ Answers(Head(replies)) /\ Head(replies).result = result
       /\ replies' = Tail(replies)
    \/ result = "error" /\ replies = << >> /\ UNCHANGED replies

BeginSession ==
    /\ Alive /\ worker.at = "suspending" /\ Answered("ok")
    /\ worker' = [worker EXCEPT !.at = "flashing", !.waits = 0]
    /\ window' = [window EXCEPT !.session = TRUE]
    /\ events' = Append(events, "progress")
    /\ UNCHANGED <<requests, host, runtime>>

(* A refused or unanswered suspension is taken back by the worker itself. *)
SuspensionFailed ==
    /\ Alive /\ worker.at = "suspending" /\ Answered("error")
    /\ Request("resume", "recovering")
    /\ UNCHANGED <<window, events, runtime>>

StartWriting ==
    /\ Alive /\ worker.at = "flashing" /\ ~window.cancel
    /\ worker' = [worker EXCEPT !.at = "writing"]
    /\ events' = Append(events, "writing")
    /\ UNCHANGED <<window, requests, replies, host, runtime>>

(* flash_firmware returns, fails or panics: the bridge resumes either way. *)
FlashEnds ==
    /\ Alive /\ worker.at \in {"flashing", "writing"}
    /\ Request("resume", "resuming")
    /\ UNCHANGED <<window, events, replies, runtime>>

RequestEnds ==
    /\ Alive /\ worker.at \in {"resuming", "recovering", "quitting"}
    /\ \E result \in {"ok", "error"} :
          /\ Answered(result)
          /\ Finishes(IF worker.at = "quitting" /\ result = "ok" THEN "quit" ELSE "finished")
    /\ window' = [window EXCEPT !.session = FALSE]
    /\ UNCHANGED <<requests, host, runtime>>

(* The window is killed or crashes; its threads die with it (external). *)
Crash ==
    /\ Alive
    /\ Exits /\ worker' = NoWorker
    /\ UNCHANGED <<events, requests, replies, host, runtime>>

-----------------------------------------------------------------------------
(* The parent: handle_update_requests.                                     *)

Idle == host.serving = Nobody
Command(operation) == /\ runtime' = [runtime EXCEPT !.commands = Append(@, operation), !.last = Nobody]

(* drain keeps the requests of the current generation only. *)
TakeRequest ==
    LET request == Head(requests) IN
    /\ Idle /\ requests # << >>
    /\ requests' = Tail(requests)
    /\ IF request.generation # host.generation
       THEN UNCHANGED <<host, runtime, replies>>
       ELSE IF request.operation = "quit"
       THEN replies' = Append(replies, [id |-> request.id, result |-> "ok"]) /\ UNCHANGED <<host, runtime>>
       ELSE /\ host' = [host EXCEPT !.serving = request]
            /\ Command(request.operation)
            /\ UNCHANGED replies
    /\ UNCHANGED <<window, worker, events>>

Reply(result) == replies' = Append(replies, [id |-> host.serving.id, result |-> result])

(* The runtime acknowledged: claim_suspension, release_suspension, respond. *)
Served ==
    /\ ~Idle /\ runtime.last = host.serving.operation
    /\ host' = [host EXCEPT !.serving = Nobody,
                            !.owner = IF host.serving.operation = "suspend" THEN host.generation ELSE Nobody]
    /\ Reply("ok")
    /\ UNCHANGED <<window, worker, events, requests, runtime>>

(* COMMAND_TIMEOUT: the command stays queued and may still be obeyed. *)
ServiceTimesOut ==
    /\ ~Idle /\ runtime.last # host.serving.operation
    /\ host' = [host EXCEPT !.serving = Nobody, !.abandoned = @ \/ host.serving.operation = "suspend"]
    /\ Reply("error")
    /\ UNCHANGED <<window, worker, events, requests, runtime>>

Obey ==
    /\ runtime.commands # << >>
    /\ runtime' = [suspended |-> Head(runtime.commands) = "suspend",
                   commands |-> Tail(runtime.commands),
                   last |-> IF Len(runtime.commands) = 1 THEN Head(runtime.commands) ELSE Nobody]
    /\ UNCHANGED <<window, worker, events, requests, replies, host>>

(* reap and discard_child: the queue of a dead window is thrown away. *)
Reap ==
    /\ Idle /\ host.generation # Nobody /\ ~Alive
    /\ host' = [host EXCEPT !.generation = Nobody]
    /\ requests' = << >> /\ replies' = << >> /\ events' = << >>
    /\ UNCHANGED <<window, worker, runtime>>

(* recover_app_center_suspension: what a dead window left suspended. *)
suspension_recovery_needed == host.owner # Nobody /\ host.generation = Nobody

\* Fault: a dead window's suspension is nobody's business.
StartRecovery_never == FALSE /\ UNCHANGED centerVars
StartRecovery ==
    /\ Idle /\ suspension_recovery_needed /\ host.recovery = "idle"
    /\ host' = [host EXCEPT !.recovery = "waiting"]
    /\ Command("resume")
    /\ UNCHANGED <<window, worker, events, requests, replies>>

RecoveryEnds ==
    /\ Idle /\ host.recovery = "waiting" /\ runtime.last = "resume"
    /\ host' = [host EXCEPT !.recovery = "idle", !.owner = Nobody]
    /\ UNCHANGED <<window, worker, events, requests, replies, runtime>>

(* launch: refused while a dead window's suspension stands. *)
Launch ==
    /\ Idle /\ host.generation = Nobody /\ host.owner = Nobody /\ host.next <= MaxWindows
    /\ host' = [host EXCEPT !.generation = host.next, !.next = @ + 1]
    /\ window' = NewWindow(host.next)
    /\ worker' = NoWorker
    /\ UNCHANGED <<events, requests, replies, runtime>>

-----------------------------------------------------------------------------

Frame == DrainEvent \/ EventsDrained \/ DetectPanic \/ Close \/ Paint
Worker == Work \/ SkipReply \/ BeginSession \/ SuspensionFailed \/ StartWriting \/ FlashEnds \/ RequestEnds
Parent == TakeRequest \/ Served \/ ServiceTimesOut \/ Reap \/ StartRecovery \/ RecoveryEnds
CenterNext == Frame \/ CloseRequested \/ CancelPressed \/ Worker \/ Crash \/ Parent \/ Obey \/ Launch

CenterFairness == WF_centerVars(Worker) /\ WF_centerVars(Parent) /\ WF_centerVars(Obey)
CenterSpec == CenterInit /\ [][CenterNext]_centerVars /\ CenterFairness

-----------------------------------------------------------------------------
(* While a board is flashed the bridge has released its hardware and the   *)
(* window is not closing: no late answer, no abandoned command and no      *)
(* recovery of another window resumes the bridge under the installer       *)
(* (ARCHITECTURE.md: "Firmware flashing begins only after acknowledged     *)
(* hardware release").                                                     *)
FlashIsUndisturbed ==
    worker.at \in {"flashing", "writing"} =>
       /\ runtime.suspended /\ host.owner = window.generation
       /\ window.activity # "closing"

(* A suspension does not outlive the window that asked for it: when the    *)
(* window is gone for good the bridge resumes, unless the parent gave up   *)
(* waiting for a suspension that the runtime carried out afterwards.       *)
SuspensionEnds ==
    <>[]~window.open => <>[](host.abandoned \/ ~runtime.suspended)

(* ARCHITECTURE.md: suspension ownership stays "attached to that           *)
(* generation until synchronous recovery succeeds".                        *)
SuspensionIsOwned ==
    runtime.suspended /\ runtime.commands = << >> /\ Idle /\ requests = << >> /\ ~window.open
      => host.owner # Nobody

(* The lock on navigation ends with the worker: "Navigation must unlock in *)
(* all three cases" (app_center.rs:997-999).                               *)
NavigationUnlocks ==
    window.open /\ ~worker.slot /\ events = << >> => ~window.firmware_write_started
=============================================================================
