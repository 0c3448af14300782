--------------------------- MODULE DesktopMailbox ---------------------------
(***************************************************************************)
(* The mailbox between the supervisor and the desktop-input worker, and the *)
(* feedback the worker stages in return                                    *)
(* (crates/bridge/bridge-runtime/src/desktop/mailbox.rs).  The supervisor  *)
(* never waits to publish: snapshots of one run may replace each other, a  *)
(* full mailbox drops its snapshots and counts a new generation, and       *)
(* controls stay in order as barriers, each with an acknowledgement that   *)
(* must be answered.  Each action is one critical section.                 *)
(***************************************************************************)
EXTENDS Integers, Sequences, FiniteSets, SequencesExt

CONSTANTS
  Masks,            \* transition masks: the buttons and touches that are down
  Samples,          \* the analog rest of a snapshot
  Profiles,         \* binding profiles
  NoProfile,        \* no binding profile
  Acks,             \* acknowledgement channels, each used once
  NoAck,            \* a control that nobody waits for
  None,             \* an absent value
  InputCapacity,    \* DESKTOP_INPUT_MAILBOX_CAPACITY
  ControlCapacity,  \* DESKTOP_CONTROL_MAILBOX_CAPACITY
  MaxGeneration,    \* bound: overflows
  MaxEpoch          \* bound: feedback barriers and overflows

ASSUME MailboxAssumption ==
  /\ None \notin Masks \cup Samples \cup Profiles /\ NoProfile \notin Profiles
  /\ NoAck \notin Acks
  /\ InputCapacity \in Nat \ {0} /\ ControlCapacity \in Nat \ {0, 1}
  /\ MaxGeneration \in Nat /\ MaxEpoch \in Nat

VARIABLES
  mailbox,  \* DesktopWorkerMailboxState
  outputs,  \* DesktopWorkerOutputState: the staged feedback by its epoch
  batch,    \* messages the worker has taken
  acks,     \* the acknowledgements' answers
  owed      \* ghost: what the worker is owed, at the least it may be told

mailbox_vars == <<mailbox, outputs, batch, acks, owed>>

Safety == {"Disconnect", "Shutdown"}
ControlKinds == {"ReplaceProfile", "Enable"} \cup Safety
Snapshot == [kind : {"Snapshot"}, mask : Masks, sample : Samples,
             generation : 0 .. MaxGeneration, epoch : 0 .. MaxEpoch]
Overflow == [kind |-> "Overflow"]
Control == [kind : ControlKinds, ack : Acks \cup {NoAck},
            profile : Profiles \cup {NoProfile}]

IsSnapshot(message) == message.kind = "Snapshot"
IsControl(message) == message.kind \in ControlKinds
TailIs(kind, messages) == messages # << >> /\ Last(messages).kind = kind

\* The controls among the messages, in order.
OnlyControls(messages) ==
  LET kept[n \in 0 .. Len(messages)] ==
        IF n = 0 THEN << >>
        ELSE IF IsControl(messages[n]) THEN Append(kept[n - 1], messages[n])
        ELSE kept[n - 1]
  IN  kept[Len(messages)]

InitMailbox ==
  /\ mailbox = [messages |-> << >>, snapshot_count |-> 0, control_count |-> 0,
                previous |-> None, latest |-> None, generation |-> 0,
                feedback_epoch |-> 0, accepting |-> TRUE]
  /\ outputs = [staged |-> None, discard |-> FALSE, epoch |-> 0]
  /\ batch = << >>
  /\ acks = [ack \in Acks |-> "unused"]
  /\ owed = << >>

\* A run of snapshots with one mask is owed as its first and its newest.
Owing(debts, message) ==
  IF ~IsSnapshot(message) THEN Append(debts, message)
  ELSE IF TailIs("Run", debts) /\ Last(debts).mask = message.mask
  THEN Append(Front(debts), [Last(debts) EXCEPT !.newest = message.sample])
  ELSE Append(debts, [kind |-> "Run", mask |-> message.mask,
                      first |-> message.sample, newest |-> message.sample])

-----------------------------------------------------------------------------
invalidate_feedback(epoch) ==
  outputs' = [staged |-> None, discard |-> TRUE, epoch |-> epoch]

discard_feedback == outputs' = [outputs EXCEPT !.staged = None, !.discard = TRUE]

\* Fault: feedback from before a barrier is staged all the same.
publish_feedback_unchecked(epoch) == outputs' = [outputs EXCEPT !.staged = epoch]

publish_feedback(epoch) ==
  outputs' = IF epoch = outputs.epoch THEN [outputs EXCEPT !.staged = epoch]
             ELSE outputs

\* Fault: one snapshot of the run is enough to replace it.
can_replace_latest_alone(mask) == mailbox.latest = mask

can_replace_latest(mask) == mailbox.latest = mask /\ mailbox.previous = mask

snapshot_of(m, mask, sample) ==
  [kind |-> "Snapshot", mask |-> mask, sample |-> sample,
   generation |-> m.generation, epoch |-> m.feedback_epoch]

push_snapshot(m, mask, sample) ==
  [m EXCEPT !.messages = Append(@, snapshot_of(m, mask, sample)),
            !.snapshot_count = @ + 1,
            !.previous = m.latest, !.latest = mask]

\* Fault: an overflow leaves the run as it was.
reset_snapshots_for_overflow_keeps_run ==
  [mailbox EXCEPT !.messages = Append(OnlyControls(@), Overflow),
                  !.snapshot_count = 0,
                  !.generation = @ + 1, !.feedback_epoch = @ + 1]

reset_snapshots_for_overflow ==
  [mailbox EXCEPT !.messages = Append(OnlyControls(@), Overflow),
                  !.snapshot_count = 0, !.previous = None, !.latest = None,
                  !.generation = @ + 1, !.feedback_epoch = @ + 1]

MayOverflow ==
  mailbox.generation < MaxGeneration /\ mailbox.feedback_epoch < MaxEpoch

Coalesce(mask, sample) ==
  /\ can_replace_latest(mask)
  /\ mailbox' = [mailbox EXCEPT
       !.messages = Append(Front(@), snapshot_of(mailbox, mask, sample))]
  /\ owed' = Owing(owed, snapshot_of(mailbox, mask, sample))
  /\ UNCHANGED outputs

OverflowBy(mask, sample) ==
  /\ ~can_replace_latest(mask) /\ mailbox.snapshot_count = InputCapacity
  /\ MayOverflow
  /\ mailbox' = push_snapshot(reset_snapshots_for_overflow, mask, sample)
  /\ owed' = Owing(Append(OnlyControls(owed), Overflow),
                   snapshot_of(mailbox, mask, sample))
  /\ invalidate_feedback(mailbox.feedback_epoch + 1)

AddSnapshot(mask, sample) ==
  /\ ~can_replace_latest(mask) /\ mailbox.snapshot_count # InputCapacity
  /\ mailbox' = push_snapshot(mailbox, mask, sample)
  /\ owed' = Owing(owed, snapshot_of(mailbox, mask, sample))
  /\ UNCHANGED outputs

publish_snapshot(mask, sample) ==
  /\ mailbox.accepting
  /\ \/ Coalesce(mask, sample)
     \/ OverflowBy(mask, sample)
     \/ AddSnapshot(mask, sample)
  /\ UNCHANGED <<batch, acks>>

publish_overflow ==
  /\ mailbox.accepting /\ MayOverflow
  /\ mailbox' = reset_snapshots_for_overflow
  /\ owed' = Append(OnlyControls(owed), Overflow)
  /\ invalidate_feedback(mailbox.feedback_epoch + 1)
  /\ UNCHANGED <<batch, acks>>

-----------------------------------------------------------------------------
\* Replacements take the place of the one before, which is refused.
Supersedes(message) ==
  message.kind = "ReplaceProfile" /\ TailIs("ReplaceProfile", mailbox.messages)

limit(message) ==
  IF message.kind \in Safety THEN ControlCapacity ELSE ControlCapacity - 1

Refused(message) ==
  \/ ~mailbox.accepting
  \/ ~Supersedes(message) /\ mailbox.control_count >= limit(message)

IsBarrier(message) == message.kind # "Enable"

Asked(message) ==
  IF message.ack = NoAck THEN acks ELSE [acks EXCEPT ![message.ack] = "pending"]

\* Every control of these messages that has no answer yet has an error.
Rejected(answers, messages) ==
  [ack \in Acks |->
    IF /\ answers[ack] = "pending"
       /\ \E i \in DOMAIN messages : IsControl(messages[i]) /\ messages[i].ack = ack
    THEN "err" ELSE answers[ack]]

\* Fault: the caller of the replaced control is left without an answer.
Supersede_unanswered(message) ==
  /\ mailbox' = [mailbox EXCEPT !.messages = Append(Front(@), message)]
  /\ owed' = Append(Front(owed), message)
  /\ acks' = Asked(message)
  /\ UNCHANGED outputs

Supersede(message) ==
  /\ mailbox' = [mailbox EXCEPT !.messages = Append(Front(@), message)]
  /\ owed' = Append(Front(owed), message)
  /\ acks' = Rejected(Asked(message), <<Last(mailbox.messages)>>)
  /\ UNCHANGED outputs

Enqueue(message) ==
  LET epoch == mailbox.feedback_epoch + IF IsBarrier(message) THEN 1 ELSE 0
  IN  /\ epoch <= MaxEpoch
      /\ mailbox' = [mailbox EXCEPT !.messages = Append(@, message),
                                    !.control_count = @ + 1,
                                    !.previous = None, !.latest = None,
                                    !.feedback_epoch = epoch]
      /\ owed' = Append(owed, message)
      /\ acks' = Asked(message)
      /\ IF IsBarrier(message) THEN invalidate_feedback(epoch)
         ELSE UNCHANGED outputs

push_control(message) ==
  /\ ~Refused(message)
  /\ \/ Supersedes(message) /\ Supersede(message)
     \/ ~Supersedes(message) /\ Enqueue(message)
  /\ UNCHANGED batch

-----------------------------------------------------------------------------
Emptied == [mailbox EXCEPT !.messages = << >>, !.snapshot_count = 0,
                           !.control_count = 0, !.previous = None, !.latest = None]

take_batch ==
  /\ batch = << >>
  /\ batch' = mailbox.messages
  /\ mailbox' = Emptied
  /\ owed' = << >>
  /\ UNCHANGED <<outputs, acks>>

take_output ==
  /\ outputs' = [outputs EXCEPT !.staged = None, !.discard = FALSE]
  /\ UNCHANGED <<mailbox, batch, acks, owed>>

\* What the worker has taken and will not reach is answered by its channels'
\* end.
close ==
  /\ mailbox' = [Emptied EXCEPT !.accepting = FALSE]
  /\ batch' = << >>
  /\ acks' = Rejected(acks, mailbox.messages \o batch)
  /\ owed' = << >>
  /\ UNCHANGED outputs

-----------------------------------------------------------------------------
\* The mailbox on its own: any control, any order, a worker that answers what
\* it takes.
Answer ==
  /\ batch # << >>
  /\ batch' = Tail(batch)
  /\ \/ /\ IsControl(Head(batch)) /\ Head(batch).ack # NoAck
        /\ acks' = [acks EXCEPT ![Head(batch).ack] = "ok"]
        /\ UNCHANGED outputs
     \/ /\ IsControl(Head(batch)) /\ Head(batch).ack = NoAck
        /\ UNCHANGED <<acks, outputs>>
     \/ /\ IsSnapshot(Head(batch))
        /\ publish_feedback(Head(batch).epoch)
        /\ UNCHANGED acks
     \/ /\ Head(batch) = Overflow
        /\ discard_feedback
        /\ UNCHANGED acks
  /\ UNCHANGED <<mailbox, owed>>

Requests ==
  {message \in Control :
     /\ message.kind # "Enable" => message.ack # NoAck
     /\ message.ack = NoAck \/ acks[message.ack] = "unused"
     /\ message.kind # "ReplaceProfile" => message.profile = NoProfile}

MailboxNext ==
  \/ \E mask \in Masks, sample \in Samples : publish_snapshot(mask, sample)
  \/ publish_overflow
  \/ \E message \in Requests : push_control(message)
  \/ mailbox.messages # << >> /\ take_batch
  \/ Answer
  \/ take_output
  \/ mailbox.accepting /\ close

MailboxSpec == InitMailbox /\ [][MailboxNext]_mailbox_vars

-----------------------------------------------------------------------------
\* What the worker is owed for a queue of messages.
OwedFor(messages) ==
  LET debts[n \in 0 .. Len(messages)] ==
        IF n = 0 THEN << >> ELSE Owing(debts[n - 1], messages[n])
  IN  debts[Len(messages)]

\* Replacing snapshots loses no press, no release, no touch and no baseline:
\* of every run of equal masks the first and the newest snapshot are still in
\* the mailbox, between the same controls, and after an overflow the newest.
OwedIsQueued == OwedFor(mailbox.messages) = owed

SnapshotsIn(messages) == Cardinality({i \in DOMAIN messages : IsSnapshot(messages[i])})
ControlsIn(messages) == Cardinality({i \in DOMAIN messages : IsControl(messages[i])})

\* The counters and the run describe the queue: the tail that publish_snapshot
\* takes for a snapshot of the run is one, and no capacity is exceeded.
CountersDescribeQueue ==
  LET messages == mailbox.messages
      count == Len(messages)
  IN  /\ mailbox.snapshot_count = SnapshotsIn(messages)
      /\ mailbox.control_count = ControlsIn(messages)
      /\ mailbox.snapshot_count <= InputCapacity /\ mailbox.control_count <= ControlCapacity
      /\ mailbox.latest # None =>
           TailIs("Snapshot", messages) /\ Last(messages).mask = mailbox.latest
      /\ mailbox.previous # None =>
           /\ count > 1 /\ IsSnapshot(messages[count - 1])
           /\ messages[count - 1].mask = mailbox.previous

\* The queue still owes and holds what was published, and its counters agree.
NothingOwedIsLost == OwedIsQueued /\ CountersDescribeQueue

\* Feedback a worker stages never outlives a barrier: what the supervisor
\* would take was asked for by a snapshot newer than the last profile change,
\* disconnect or overflow.
FeedbackIsFresh ==
  outputs.staged # None => outputs.staged = mailbox.feedback_epoch
=============================================================================
