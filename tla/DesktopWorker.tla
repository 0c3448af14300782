---------------------------- MODULE DesktopWorker ----------------------------
(***************************************************************************)
(* The desktop-input worker and the supervisor that feeds it               *)
(* (crates/bridge/bridge-runtime/src/desktop/worker.rs, runtime.rs and the *)
(* binding engine of crates/app/desktop-bindings/src/engine.rs), over the  *)
(* mailbox of DesktopMailbox.  The worker reads the mailbox's generation   *)
(* before and after it presses a key, and the supervisor may overflow the  *)
(* mailbox in between; it stages its feedback apart from both.             *)
(*                                                                         *)
(* One bound button stands for the controls of a profile; a sink call may  *)
(* fail, and dropping the sink lets go of what it held (Enigo, uinput).    *)
(***************************************************************************)
EXTENDS DesktopMailbox

CONSTANTS
  Up, Down,   \* the masks: the bound button is up, or down
  Configured  \* profiles that bind the button; the others only give feedback

ASSUME WorkerAssumption ==
  /\ Masks = {Up, Down} /\ Up # Down
  /\ Configured \subseteq Profiles

VARIABLES
  runtime,     \* DesktopBindingsRuntime with its BindingEngine
  applied,     \* applied_generation
  step,        \* where the worker is
  supervisor,  \* where the supervisor is
  waiting,     \* the acknowledgement it waits for
  quiet,       \* ghost: disconnected, and no snapshot since
  pressed_in,  \* ghost: the generation of the snapshot behind the held key
  inert        \* ghost: the button was down at a profile switch and still is

worker_ghosts == <<pressed_in, inert>>
worker_vars == <<runtime, applied, step, worker_ghosts>>
supervisor_vars == <<supervisor, waiting, quiet>>
vars == <<mailbox_vars, worker_vars, supervisor_vars>>

Runtime == [profile : Profiles \cup {NoProfile}, previous : Masks \cup {None},
            blocked : BOOLEAN, held : BOOLEAN, sink : BOOLEAN,
            activated : BOOLEAN, last : Masks \cup {None}, discard : BOOLEAN]
Steps == {"waiting", "message", "feedback", "recheck", "finish", "stopping",
          "stopped"}

Init ==
  /\ InitMailbox
  /\ \E profile \in Profiles \cup {NoProfile} :
       runtime = [profile |-> profile, previous |-> None, blocked |-> FALSE,
                  held |-> FALSE, sink |-> FALSE, activated |-> FALSE,
                  last |-> None, discard |-> FALSE]
  /\ applied = 0 /\ step = "waiting"
  /\ supervisor = "free" /\ waiting = NoAck
  /\ quiet = FALSE /\ pressed_in = None /\ inert = FALSE

-----------------------------------------------------------------------------
(* DesktopBindingsRuntime.  Each method is the set of its outcomes.        *)

Ok(r) == [runtime |-> r, ok |-> TRUE]

\* An engine that failed has released what it could; fail drops the sink.
Failed(r) ==
  [runtime |-> [r EXCEPT !.held = FALSE, !.sink = FALSE, !.discard = TRUE],
   ok |-> FALSE]

\* A call that uses the sink may fail.
UsesSink(done, failed) == {Ok(done)} \cup IF done.sink THEN {Failed(failed)} ELSE {}

\* The first snapshot is a baseline; a press is emitted unless the button was
\* down when the baseline, the profile or a failed sink blocked it.
observe_snapshot(r, mask) ==
  LET blocked == r.blocked /\ mask = Down
      pressed == mask = Down /\ r.previous = Up /\ ~blocked /\ r.profile \in Configured
      seen == [r EXCEPT !.previous = mask, !.blocked = blocked,
                        !.held = (@ /\ mask = Down) \/ pressed]
  IN  IF r.previous = None
      THEN {Ok([r EXCEPT !.previous = mask, !.blocked = mask = Down])}
      ELSE UsesSink(seen, [seen EXCEPT !.blocked = mask = Down])

observe(r, mask) ==
  LET noted == [r EXCEPT !.last = mask]
  IN  IF r.profile = NoProfile \/ (~r.sink /\ r.profile \in Configured)
      THEN {Ok(noted)} ELSE observe_snapshot(noted, mask)

\* The session may lack the permission.
initialize_sink(r) == {r, [r EXCEPT !.sink = TRUE]}

\* What replace_profile and enable end with.
ObserveLast(r) ==
  IF r.last # None /\ r.profile # NoProfile /\ r.sink
  THEN observe_snapshot(r, r.last) ELSE {Ok(r)}

engine_disconnect(r) ==
  LET gone == [r EXCEPT !.held = FALSE, !.previous = None, !.blocked = FALSE]
  IN  IF r.profile # NoProfile /\ r.sink THEN UsesSink(gone, gone) ELSE {Ok(r)}

NewEngine(r, profile) ==
  [r EXCEPT !.profile = profile, !.previous = None, !.blocked = FALSE, !.held = FALSE]

\* Fault: a button that is down is pressed for the new profile.
engine_replace_profile_presses(r, profile) ==
  IF profile = NoProfile
  THEN {[o EXCEPT !.runtime = NewEngine(@, NoProfile)] : o \in engine_disconnect(r)}
  ELSE IF r.profile = NoProfile \/ ~r.sink THEN {Ok(NewEngine(r, profile))}
  ELSE {Ok([r EXCEPT !.profile = profile, !.held = FALSE, !.previous = Up])}

\* A changed profile blocks the buttons that are down; the same one changes
\* nothing.
engine_replace_profile(r, profile) ==
  IF profile = NoProfile
  THEN {[o EXCEPT !.runtime = NewEngine(@, NoProfile)] : o \in engine_disconnect(r)}
  ELSE IF r.profile = NoProfile \/ ~r.sink THEN {Ok(NewEngine(r, profile))}
  ELSE IF profile = r.profile THEN {Ok(r)}
  ELSE LET swapped == [r EXCEPT !.profile = profile, !.held = FALSE,
                                !.blocked = r.previous = Down]
       IN  UsesSink(swapped, swapped)

replace_profile(r, profile) ==
  UNION {IF ~o.ok \/ profile \notin Configured THEN {o}
         ELSE UNION {ObserveLast(ready) : ready \in
                IF ~o.runtime.sink /\ r.activated THEN initialize_sink(o.runtime)
                ELSE {o.runtime}}
           : o \in engine_replace_profile(r, profile)}

enable(r) ==
  LET asked == [r EXCEPT !.activated = TRUE]
  IN  IF r.profile \notin Configured THEN {Ok(asked)}
      ELSE UNION {IF ready.sink THEN ObserveLast(ready)
                  ELSE {[runtime |-> ready, ok |-> FALSE]}
                    : ready \in IF r.sink THEN {asked} ELSE initialize_sink(asked)}

\* Fault: the snapshot is forgotten and the outputs stay held.
disconnect_forgets_only(r) ==
  {Ok([r EXCEPT !.last = None, !.discard = TRUE])}

disconnect(r) ==
  {[o EXCEPT !.runtime.last = None, !.runtime.discard = TRUE]
    : o \in engine_disconnect(r)}

shutdown(r) == {[o EXCEPT !.runtime.sink = FALSE] : o \in disconnect(r)}

overflow(r) == {o.runtime : o \in disconnect(r)}

-----------------------------------------------------------------------------
(* The worker.                                                             *)

\* The runtime becomes r; a key pressed now belongs to this generation.
Becomes(r, generation) ==
  /\ runtime' = r
  /\ pressed_in' = IF ~r.held THEN None
                   ELSE IF runtime.held THEN pressed_in ELSE generation

\* Woken by a message, by the mailbox's end, or by a tick that is due.
TakeBatch ==
  /\ step = "waiting" /\ mailbox.messages # << >>
  /\ take_batch
  /\ step' = "message"
  /\ UNCHANGED <<runtime, applied, worker_ghosts, supervisor_vars>>

\* Scroll momentum, while the wait times out or between two batches.
Tick ==
  /\ step = "waiting" /\ runtime.sink /\ runtime.profile # NoProfile
  /\ runtime.previous # None
  /\ Becomes(Failed([runtime EXCEPT !.blocked = runtime.previous = Down]).runtime, None)
  /\ step' = "finish"
  /\ UNCHANGED <<mailbox_vars, applied, inert, supervisor_vars>>

\* A snapshot from before an overflow is passed over.
ObserveSnapshot ==
  /\ step = "message" /\ batch # << >> /\ IsSnapshot(Head(batch))
  /\ \/ /\ Head(batch).generation = mailbox.generation
        /\ inert' = (inert /\ Head(batch).mask = Down)
        /\ \E o \in observe(runtime, Head(batch).mask) :
             /\ Becomes(o.runtime, Head(batch).generation)
             /\ step' \in IF o.ok /\ runtime.profile # NoProfile
                          THEN {"feedback", "recheck"} ELSE {"recheck"}
     \/ /\ Head(batch).generation # mailbox.generation
        /\ step' = "recheck"
        /\ UNCHANGED <<runtime, worker_ghosts>>
  /\ UNCHANGED <<mailbox_vars, applied, supervisor_vars>>

PublishFeedback ==
  /\ step = "feedback"
  /\ publish_feedback(Head(batch).epoch)
  /\ step' = "recheck"
  /\ UNCHANGED <<mailbox, batch, acks, owed, runtime, applied, worker_ghosts,
                 supervisor_vars>>

\* Fault: the overflow is counted and nothing is released.
apply_desktop_mailbox_overflow_counts ==
  /\ applied' = mailbox.generation
  /\ UNCHANGED <<runtime, pressed_in>>

apply_desktop_mailbox_overflow ==
  \/ /\ applied # mailbox.generation
     /\ \E r \in overflow(runtime) : Becomes(r, None)
     /\ applied' = mailbox.generation
  \/ /\ applied = mailbox.generation
     /\ UNCHANGED <<runtime, pressed_in, applied>>

\* After each snapshot and for an overflow's own message; the feedback it
\* discards goes with the pending one.
Recheck ==
  /\ \/ step = "recheck"
     \/ step = "message" /\ batch # << >> /\ Head(batch) = Overflow
  /\ apply_desktop_mailbox_overflow
  /\ step' = "finish"
  /\ UNCHANGED <<mailbox_vars, inert, supervisor_vars>>

Answered(message, ok) ==
  IF message.ack = NoAck THEN acks
  ELSE [acks EXCEPT ![message.ack] = IF ok THEN "ok" ELSE "err"]

HandledBy(message) ==
  CASE message.kind = "ReplaceProfile" -> replace_profile(runtime, message.profile)
    [] message.kind = "Enable" -> enable(runtime)
    [] message.kind = "Disconnect" -> disconnect(runtime)
    [] message.kind = "Shutdown" -> shutdown(runtime)

HandleControl ==
  /\ step = "message" /\ batch # << >> /\ IsControl(Head(batch))
  /\ \E o \in HandledBy(Head(batch)) :
       /\ Becomes(o.runtime, applied)
       /\ acks' = Answered(Head(batch), o.ok)
  /\ inert' = \/ inert
              \/ /\ Head(batch).kind = "ReplaceProfile"
                 /\ Head(batch).profile # runtime.profile /\ runtime.last = Down
  /\ step' = IF Head(batch).kind = "Shutdown" THEN "stopping" ELSE "finish"
  /\ UNCHANGED <<mailbox, outputs, batch, owed, applied, supervisor_vars>>

\* What each message ends with, and a tick.
Finish ==
  /\ step = "finish"
  /\ IF runtime.discard THEN discard_feedback ELSE UNCHANGED outputs
  /\ runtime' = [runtime EXCEPT !.discard = FALSE]
  /\ batch' = IF batch = << >> THEN << >> ELSE Tail(batch)
  /\ step' = IF Len(batch) > 1 THEN "message" ELSE "waiting"
  /\ UNCHANGED <<mailbox, acks, owed, applied, worker_ghosts, supervisor_vars>>

\* A sink call panics; the runtime goes, and its sink with it.
Panic ==
  /\ step = "message" /\ batch # << >> /\ runtime.sink
  /\ Becomes([runtime EXCEPT !.held = FALSE, !.sink = FALSE], None)
  /\ step' = "stopping"
  /\ UNCHANGED <<mailbox_vars, applied, inert, supervisor_vars>>

Close ==
  /\ step = "stopping"
  /\ close
  /\ step' = "stopped"
  /\ UNCHANGED <<runtime, applied, worker_ghosts, supervisor_vars>>

-----------------------------------------------------------------------------
(* The supervisor, one thread.                                             *)

Observe(mask, sample) ==
  /\ supervisor = "free"
  /\ publish_snapshot(mask, sample)
  /\ quiet' = FALSE
  /\ UNCHANGED <<worker_vars, supervisor, waiting>>

ReportOverflow ==
  /\ supervisor = "free"
  /\ publish_overflow
  /\ UNCHANGED <<worker_vars, supervisor_vars>>

\* A closed mailbox.
ObserveClosed ==
  /\ supervisor = "free" /\ ~mailbox.accepting
  /\ discard_feedback
  /\ UNCHANGED <<mailbox, batch, acks, owed, worker_vars, supervisor_vars>>

ReplaceProfile(ack, profile) ==
  [kind |-> "ReplaceProfile", ack |-> ack, profile |-> profile]
Plain(kind, ack) == [kind |-> kind, ack |-> ack, profile |-> NoProfile]

\* replace_profile, enable and enable_async.
Commands ==
  {ReplaceProfile(ack, profile) : ack \in Acks, profile \in Profiles \cup {NoProfile}}
  \cup {Plain("Enable", ack) : ack \in Acks \cup {NoAck}}

IsUnused(message) == message.ack # NoAck => acks[message.ack] = "unused"

Command(message) ==
  /\ supervisor = "free" /\ IsUnused(message)
  /\ push_control(message)
  /\ UNCHANGED <<worker_vars, supervisor_vars>>

\* A closed mailbox, or a full one: the feedback goes and the caller has an
\* error.
CommandRefused(message) ==
  /\ supervisor = "free" /\ IsUnused(message) /\ Refused(message)
  /\ acks' = IF message.ack = NoAck THEN acks
             ELSE [acks EXCEPT ![message.ack] = "err"]
  /\ discard_feedback
  /\ UNCHANGED <<mailbox, batch, owed, worker_vars, waiting, quiet>>

RefuseCommand(message) ==
  /\ CommandRefused(message)
  /\ UNCHANGED supervisor

\* disconnect, and the shutdown at the end.
Call(kind, ack) ==
  /\ supervisor = "free" /\ IsUnused(Plain(kind, ack))
  /\ push_control(Plain(kind, ack))
  /\ waiting' = ack /\ supervisor' = kind
  /\ UNCHANGED <<worker_vars, quiet>>

\* A call that is refused fails; a shutdown leaves the worker behind.
CallRefused(kind, ack) ==
  /\ CommandRefused(Plain(kind, ack))
  /\ supervisor' = IF kind = "Shutdown" THEN "gone" ELSE "free"

\* A worker that has stopped needs no shutdown.
ShutdownStopped ==
  /\ supervisor = "free" /\ step = "stopped"
  /\ supervisor' = "gone"
  /\ UNCHANGED <<mailbox_vars, worker_vars, waiting, quiet>>

\* The answer, or COMMAND_TIMEOUT: the worker may carry the call out later.
Returns ==
  /\ supervisor \in Safety
  /\ quiet' = (acks[waiting] = "ok")
  /\ supervisor' = IF supervisor = "Shutdown" THEN "gone" ELSE "free"
  /\ waiting' = NoAck
  /\ UNCHANGED <<mailbox_vars, worker_vars>>

TakeOutput ==
  /\ supervisor = "free" /\ (outputs.staged # None \/ outputs.discard)
  /\ take_output
  /\ UNCHANGED <<worker_vars, supervisor_vars>>

-----------------------------------------------------------------------------
WorkerNext ==
  \/ TakeBatch
  \/ ObserveSnapshot
  \/ PublishFeedback
  \/ Recheck
  \/ HandleControl
  \/ Finish
  \/ Close

Next ==
  \/ WorkerNext
  \/ Tick
  \/ Panic
  \/ \E mask \in Masks, sample \in Samples : Observe(mask, sample)
  \/ ReportOverflow
  \/ ObserveClosed
  \/ \E message \in Commands : Command(message)
  \/ \E message \in Commands : RefuseCommand(message)
  \/ \E kind \in Safety, ack \in Acks : Call(kind, ack)
  \/ \E kind \in Safety, ack \in Acks : CallRefused(kind, ack)
  \/ ShutdownStopped
  \/ Returns
  \/ TakeOutput

Spec == Init /\ [][Next]_vars

\* The worker is a thread that nothing but its sink can hold up.
FairSpec == Spec /\ WF_vars(WorkerNext)

-----------------------------------------------------------------------------
AtRest == step \in {"waiting", "message"}

\* No key stays down on the word of a snapshot from before an overflow, also
\* when the overflow came between the worker's check and its press.
HeldIsCurrent ==
  AtRest /\ runtime.held => pressed_in = applied

\* A disconnect or shutdown that succeeded released every output, and nothing
\* is pressed until the supervisor publishes another snapshot.
ReleasedAfterAck == quiet => ~runtime.held

\* A button that is down at a profile switch presses nothing until it was up,
\* whatever fails, overflows or disconnects meanwhile.
SwitchPressesNothing == inert => ~runtime.held

\* Every control's caller gets an answer, whatever was taken, superseded or
\* pending when the worker ended.  (A channel is used once: when all are
\* answered that ever will be asked, none is pending any more.)
EveryCallIsAnswered == <>[](\A ack \in DOMAIN acks : acks[ack] # "pending")

=============================================================================
