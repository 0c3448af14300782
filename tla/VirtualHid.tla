----------------------------- MODULE VirtualHid -----------------------------
(***************************************************************************)
(* The macOS virtual gamepad of crates/host/virtual-gamepad: the output    *)
(* object the session calls (VirtualHidOutput of client.rs), its worker    *)
(* thread, and the helper process that owns the device (helper.rs), with   *)
(* the pipes between them.  The worker has one request on its way at a     *)
(* time and gives up on the first that is not answered; whatever happens   *)
(* next, the device must not keep a pressed state.                         *)
(*                                                                         *)
(* The helper may fail to dispatch, crash, or hang; a wait runs out at any *)
(* time the awaited answer is not there yet.  The driver above the device  *)
(* may ask for a report that is longer than the pipe carries, which ends   *)
(* the session however well both ends keep to the protocol.                *)
(***************************************************************************)
EXTENDS Integers, Sequences, FiniteSets

CONSTANTS
  States,     \* gamepad states other than neutral
  Neutral,    \* NEUTRAL_INPUT_REPORT
  NoReport,   \* Option::None
  QueueCapacity,  \* config.queue_capacity
  OutCapacity,    \* capacity of the helper's response queue
  InboxCapacity,  \* RESPONSE_QUEUE_CAPACITY
  MaxRequests, MaxEvents, \* bounds: requests and delegate events of a run,
  MaxExcesses             \* and those of its reports that are too long

ASSUME VirtualHidAssumption == Neutral \notin States /\ NoReport \notin States \cup {Neutral}

VARIABLES
  caller,   \* what the session waits for, what the last call returned, and
            \* whether the output was told a state after the last neutral
  mailbox,  \* queued work, and whether the mailbox is closed
  worker,   \* stage, the item on its way, its sequence, the last delegate event
  failure,  \* SharedState.failure: none, a protocol violation or another error
  stdin,    \* requests to the helper; the worker's end may be closed
  helper,   \* stage, expected sequence, response queue, fatal lane, writer,
            \* and (ghost) how many reports were too long or lines cut short
  inbox,    \* responses the reader has passed on, Eof last
  device    \* what the virtual device reports, or "gone"

hidVars == <<caller, mailbox, worker, failure, stdin, helper, inbox, device>>

Report(v) == [kind |-> "report", value |-> v, awaited |-> FALSE]
NeutralItem == [kind |-> "neutral", value |-> Neutral, awaited |-> TRUE]
ShutdownItem == [kind |-> "shutdown", value |-> Neutral, awaited |-> TRUE]
NoItem == [kind |-> "none", value |-> NoReport, awaited |-> FALSE]

HidStart ==
  /\ caller = [at |-> "opening", neutral |-> FALSE]
  /\ mailbox = [queue |-> << >>, closed |-> FALSE]
  /\ worker = [at |-> "none", item |-> NoItem, sequence |-> 1, events |-> 0]
  /\ failure = "none"
  /\ stdin = [requests |-> << >>, closed |-> FALSE]
  /\ helper = [at |-> "starting", expected |-> 1, out |-> << >>, fatal |-> "none",
               writer |-> "runs", events |-> 0, excesses |-> 0]
  /\ inbox = << >>
  /\ device = "gone"

\* What the helper says; n is a sequence.  Of a GetReport that asks for more
\* than MAX_RAW_REPORT_LEN it says "excess", of a fatal error its class, and
\* "torn" is the line it was writing when it died.
Says(kind, n) == [kind |-> kind, n |-> n]
Applied(n) == Says("applied", n)
Lost == {"fatal", "eof"}
Breaches == {"excess", "violation", "torn"}

Latched(class) == IF failure = "none" THEN class ELSE failure

-----------------------------------------------------------------------------
(* The session's calls.                                                    *)

Ordinary(i) == i.kind = "report"

\* What is left of the queue when the states in it are dropped.  (The first
\* case is one of the second: it is what the provers can reason about.)
Unsupplanted(q) ==
  IF \A i \in DOMAIN q : Ordinary(q[i]) THEN << >>
  ELSE SelectSeq(q, LAMBDA i : ~Ordinary(i))

Idle == caller.at = "idle"

Closes == mailbox' = [queue |-> << >>, closed |-> TRUE]

MayCall == Idle /\ failure = "none" /\ ~mailbox.closed
           /\ worker.sequence + Len(mailbox.queue) <= MaxRequests

\* A state replaces the one queued last, and an overflow is a failure.
SendState(v) ==
  /\ MayCall
  /\ caller' = [caller EXCEPT !.neutral = FALSE]
  /\ LET q == mailbox.queue IN
     IF q # << >> /\ Ordinary(q[Len(q)])
     THEN /\ mailbox' = [mailbox EXCEPT !.queue[Len(q)] = Report(v)]
          /\ UNCHANGED failure
     ELSE IF Len(q) >= QueueCapacity
          THEN Closes /\ failure' = Latched("other")
          ELSE mailbox' = [mailbox EXCEPT !.queue = Append(@, Report(v))] /\ UNCHANGED failure
  /\ UNCHANGED <<worker, stdin, helper, inbox, device>>

\* Fault: a neutral overtakes the states queued before it, which stay queued.
SendNeutral_overtakes ==
  /\ MayCall
  /\ Len(mailbox.queue) < QueueCapacity
  /\ mailbox' = [mailbox EXCEPT !.queue = <<NeutralItem>> \o @]
  /\ caller' = [caller EXCEPT !.at = "neutral", !.neutral = FALSE]
  /\ UNCHANGED <<worker, failure, stdin, helper, inbox, device>>

\* A neutral takes the place of the states queued before it.
SendNeutral ==
  /\ MayCall
  /\ LET kept == Unsupplanted(mailbox.queue) IN
     /\ Len(kept) < QueueCapacity
     /\ mailbox' = [mailbox EXCEPT !.queue = Append(kept, NeutralItem)]
  /\ caller' = [caller EXCEPT !.at = "neutral", !.neutral = FALSE]
  /\ UNCHANGED <<worker, failure, stdin, helper, inbox, device>>

Shutdown ==
  /\ Idle
  /\ caller' = [caller EXCEPT !.at = IF mailbox.closed THEN "joining" ELSE "shutdown"]
  /\ mailbox' = IF mailbox.closed THEN mailbox
                ELSE [mailbox EXCEPT !.queue = Append(Unsupplanted(@), ShutdownItem)]
  /\ UNCHANGED <<worker, failure, stdin, helper, inbox, device>>

\* The caller's deadline is the worker's, and a grace: it runs out only while
\* the worker is at something else.
CallerGivesUp ==
  /\ caller.at \in {"neutral", "shutdown"} /\ worker.at \in {"waiting", "reaping"}
  /\ Closes
  /\ IF caller.at = "neutral"
     THEN caller' = [caller EXCEPT !.at = "idle"] /\ failure' = Latched("other")
     ELSE caller' = [caller EXCEPT !.at = "joining"] /\ UNCHANGED failure
  /\ worker' = [worker EXCEPT !.item.awaited = FALSE]
  /\ UNCHANGED <<stdin, helper, inbox, device>>

Join ==
  /\ caller.at = "joining" /\ worker.at = "done"
  /\ caller' = [caller EXCEPT !.at = "closed"]
  /\ mailbox' = [queue |-> << >>, closed |-> TRUE]
  /\ UNCHANGED <<worker, failure, stdin, helper, inbox, device>>

\* A delegate event is counted, unless it is not newer than the last.
Counts(r) == r.kind = "event" /\ r.n > worker.events

\* open: the handshake; a helper that is not ready in time, or says anything
\* else than that it is and what the device was asked, is killed.
Opens ==
  /\ caller.at = "opening" /\ inbox # << >>
  /\ inbox' = Tail(inbox)
  /\ \/ /\ Head(inbox).kind = "ready"
        /\ caller' = [caller EXCEPT !.at = "idle"] /\ worker' = [worker EXCEPT !.at = "idle"]
     \/ /\ Counts(Head(inbox))
        /\ worker' = [worker EXCEPT !.events = Head(inbox).n] /\ UNCHANGED caller
  /\ UNCHANGED <<mailbox, failure, stdin, helper, device>>

DoesNotOpen ==
  /\ caller.at = "opening"
  /\ inbox # << >> => Head(inbox).kind # "ready" /\ ~Counts(Head(inbox))
  /\ caller' = [caller EXCEPT !.at = "closed"]
  /\ helper' = [helper EXCEPT !.at = "dead"] /\ device' = "gone"
  /\ UNCHANGED <<mailbox, worker, failure, stdin, inbox>>

-----------------------------------------------------------------------------
(* The worker.                                                             *)

Answers(result) ==
  caller' = IF ~worker.item.awaited THEN caller
            ELSE CASE worker.item.kind = "neutral" ->
                        [caller EXCEPT !.at = "idle", !.neutral = result]
                   [] worker.item.kind = "shutdown" -> [caller EXCEPT !.at = "joining"]
                   [] OTHER -> caller

Reaps(class) ==
  /\ failure' = Latched(class)
  /\ worker' = [worker EXCEPT !.at = "reaping", !.item = NoItem]
  /\ stdin' = [stdin EXCEPT !.closed = TRUE]

WorkerTakes ==
  /\ worker.at = "idle" /\ mailbox.queue # << >>
  /\ mailbox' = [mailbox EXCEPT !.queue = Tail(@)]
  /\ worker' = [worker EXCEPT !.at = "waiting", !.item = Head(mailbox.queue)]
  /\ stdin' = [stdin EXCEPT !.requests =
                 Append(@, [kind |-> Head(mailbox.queue).kind,
                            value |-> Head(mailbox.queue).value,
                            sequence |-> worker.sequence])]
  /\ UNCHANGED <<caller, failure, helper, inbox, device>>

WorkerSeesClosed ==
  /\ worker.at = "idle" /\ mailbox.queue = << >> /\ mailbox.closed
  /\ worker' = [worker EXCEPT !.at = "reaping"]
  /\ stdin' = [stdin EXCEPT !.closed = TRUE]
  /\ UNCHANGED <<caller, mailbox, failure, helper, inbox, device>>

\* Anything but the acknowledgement awaited: a delegate event is counted, the
\* rest ends the worker.  A fatal error keeps its class; a report that is too
\* long, a line cut short and an answer nobody waits for break the protocol.
Unsolicited(r) ==
  IF Counts(r)
  THEN worker' = [worker EXCEPT !.events = r.n] /\ UNCHANGED <<caller, failure, stdin>>
  ELSE /\ Reaps(IF r.kind \in Lost THEN "other" ELSE "violation")
       /\ Answers(FALSE)

WorkerServices ==
  /\ worker.at = "idle" /\ inbox # << >>
  /\ Unsolicited(Head(inbox))
  /\ inbox' = Tail(inbox)
  /\ UNCHANGED <<mailbox, helper, device>>

WorkerReads ==
  /\ worker.at = "waiting" /\ inbox # << >>
  /\ inbox' = Tail(inbox)
  /\ IF Head(inbox) = Applied(worker.sequence)
     THEN /\ Answers(TRUE)
          /\ worker' = [worker EXCEPT !.item = NoItem, !.sequence = @ + 1,
                          !.at = IF worker.item.kind = "shutdown" THEN "reaping" ELSE "idle"]
          /\ stdin' = [stdin EXCEPT !.closed = worker.item.kind = "shutdown"]
          /\ UNCHANGED failure
     ELSE Unsolicited(Head(inbox))
  /\ UNCHANGED <<mailbox, helper, device>>

\* Fault: after an acknowledgement that did not come the worker goes on.
WorkerTimesOut_goes_on ==
  /\ worker.at = "waiting" /\ inbox = << >>
  /\ Answers(FALSE)
  /\ worker' = [worker EXCEPT !.at = "idle", !.item = NoItem, !.sequence = @ + 1]
  /\ UNCHANGED <<mailbox, failure, stdin, helper, inbox, device>>

WorkerTimesOut ==
  /\ worker.at = "waiting" /\ inbox = << >>
  /\ Reaps("other") /\ Answers(FALSE)
  /\ UNCHANGED <<mailbox, helper, inbox, device>>

\* Fault: a helper that does not end by itself is left behind.
Reap_without_kill ==
  /\ worker.at = "reaping" /\ worker' = [worker EXCEPT !.at = "done"]
  /\ Closes /\ UNCHANGED <<helper, device>>
  /\ caller' = IF caller.at \in {"neutral", "shutdown"}
               THEN [caller EXCEPT !.at = IF @ = "neutral" THEN "idle" ELSE "joining"] ELSE caller
  /\ UNCHANGED <<failure, stdin, inbox>>

\* The helper has its time to end and is killed when that is over; then the
\* mailbox is closed, which answers whoever still waits.
Reap ==
  /\ worker.at = "reaping"
  /\ worker' = [worker EXCEPT !.at = "done"]
  /\ Closes
  /\ helper' = [helper EXCEPT !.at = "dead"] /\ device' = "gone"
  /\ caller' = IF caller.at \in {"neutral", "shutdown"}
               THEN [caller EXCEPT !.at = IF @ = "neutral" THEN "idle" ELSE "joining"] ELSE caller
  /\ UNCHANGED <<failure, stdin, inbox>>

-----------------------------------------------------------------------------
(* The helper: the protocol, the device's callbacks and the writer, with   *)
(* the client's reader thread behind the pipe.                             *)

HelperUnchanged == UNCHANGED <<caller, mailbox, worker, failure>>

HelperCreates ==
  /\ helper.at = "starting"
  /\ helper' = [helper EXCEPT !.at = "created"] /\ device' = Neutral
  /\ HelperUnchanged /\ UNCHANGED <<stdin, inbox>>

\* The lane of terminal errors: the writer writes the first and no other.
Latest(class) == IF helper.fatal = "none" /\ helper.writer # "stopped" THEN class ELSE helper.fatal

\* An error ends the protocol; the device goes with it.
HelperEnds(class) ==
  /\ helper' = [helper EXCEPT !.at = "ended", !.fatal = Latest(class)]
  /\ device' = "gone"

\* A response is not sent to a writer that has stopped.
HelperReady ==
  /\ helper.at = "created"
  /\ IF helper.writer = "stopped" THEN HelperEnds("other")
     ELSE /\ Len(helper.out) < OutCapacity
          /\ helper' = [helper EXCEPT !.at = "serving", !.out = Append(@, Says("ready", 0))]
          /\ UNCHANGED device
  /\ HelperUnchanged /\ UNCHANGED <<stdin, inbox>>

HelperFails ==
  /\ helper.at \in {"starting", "serving"}
  /\ helper.at = "starting" \/ stdin.requests # << >>
  /\ HelperEnds("other")
  /\ HelperUnchanged /\ UNCHANGED <<stdin, inbox>>

HelperServes ==
  /\ helper.at = "serving" /\ stdin.requests # << >>
  /\ LET r == Head(stdin.requests) IN
     IF r.sequence # helper.expected THEN HelperEnds("violation")
     ELSE IF helper.writer = "stopped" THEN HelperEnds("other")
     ELSE /\ Len(helper.out) < OutCapacity
          /\ device' = IF r.kind = "shutdown" THEN "gone" ELSE r.value
          /\ helper' = [helper EXCEPT !.out = Append(@, Applied(r.sequence)), !.expected = @ + 1,
                          !.at = IF r.kind = "shutdown" THEN "ended" ELSE @]
  /\ stdin' = [stdin EXCEPT !.requests = Tail(@)]
  /\ HelperUnchanged /\ UNCHANGED inbox

HelperSeesEof ==
  /\ helper.at = "serving" /\ stdin.requests = << >> /\ stdin.closed
  /\ helper' = [helper EXCEPT !.at = "ended"] /\ device' = "gone"
  /\ HelperUnchanged /\ UNCHANGED <<stdin, inbox>>

\* A callback of the device is passed on as it is, however much a GetReport
\* asks for; one that finds the queue full is dropped.
DelegateEvent ==
  /\ helper.at \in {"created", "serving"} /\ helper.events < MaxEvents
  /\ \E long \in IF helper.excesses < MaxExcesses THEN {0, 1} ELSE {0} :
       helper' = [helper EXCEPT !.events = @ + 1, !.excesses = @ + long,
                    !.out = IF helper.writer # "stopped" /\ Len(@) < OutCapacity
                            THEN Append(@, Says(IF long = 1 THEN "excess" ELSE "event",
                                                helper.events + 1)) ELSE @]
  /\ HelperUnchanged /\ UNCHANGED <<stdin, inbox, device>>

\* A SetReport too long to copy is a terminal error; the device stays.
SetReportIsTooLong ==
  /\ helper.at \in {"created", "serving"} /\ helper.excesses < MaxExcesses
  /\ helper' = [helper EXCEPT !.fatal = Latest("violation"), !.excesses = @ + 1]
  /\ HelperUnchanged /\ UNCHANGED <<stdin, inbox, device>>

\* The writer looks at the lane before each response, so one response may
\* still come before the error; nothing follows it.
WritesFatal ==
  /\ helper.fatal # "none" /\ Len(inbox) < InboxCapacity
  /\ inbox' = Append(inbox, Says(IF helper.fatal = "violation" THEN "violation" ELSE "fatal", 0))
  /\ helper' = [helper EXCEPT !.fatal = "none", !.writer = "stopped", !.out = << >>]

WritesResponse ==
  /\ helper.out # << >> /\ (helper.fatal = "none" \/ helper.writer = "runs")
  /\ Len(inbox) < InboxCapacity
  /\ inbox' = Append(inbox, Head(helper.out))
  /\ helper' = [helper EXCEPT !.out = Tail(@), !.writer = IF helper.fatal = "none" THEN @ ELSE "late"]

HelperExits ==
  /\ helper.at = "ended" /\ helper.fatal = "none" /\ helper.out = << >>
  /\ inbox' = inbox /\ helper' = [helper EXCEPT !.at = "dead"]

HelperWrites ==
  /\ helper.at \in {"created", "serving", "ended", "hung"}
  /\ WritesFatal \/ WritesResponse \/ HelperExits
  /\ HelperUnchanged /\ UNCHANGED <<stdin, device>>

\* The reader ends with the pipe, or with a line that does not.
ReaderSeesEof ==
  /\ helper.at \in {"dead", "torn"} /\ Len(inbox) < InboxCapacity
  /\ LET last == Says(IF helper.at = "torn" THEN "torn" ELSE "eof", 0) IN
     last \notin {inbox[i] : i \in DOMAIN inbox} /\ inbox' = Append(inbox, last)
  /\ HelperUnchanged /\ UNCHANGED <<stdin, helper, device>>

\* The process dies, perhaps in the middle of a line, or stops for good with
\* the device as it is.
HelperBreaks ==
  /\ helper.at \in {"starting", "created", "serving"}
  /\ \/ helper' = [helper EXCEPT !.at = "dead"] /\ device' = "gone"
     \/ /\ helper.out # << >> \/ helper.fatal # "none"
        /\ helper' = [helper EXCEPT !.at = "torn", !.excesses = @ + 1] /\ device' = "gone"
     \/ helper' = [helper EXCEPT !.at = "hung"] /\ UNCHANGED device
  /\ HelperUnchanged /\ UNCHANGED <<stdin, inbox>>

WorkerRuns ==
  WorkerTakes \/ WorkerSeesClosed \/ WorkerServices \/ WorkerReads \/ WorkerTimesOut \/ Reap

HelperRuns == HelperCreates \/ HelperReady \/ HelperServes \/ HelperSeesEof \/ HelperWrites \/ ReaderSeesEof

HidNext ==
  \/ \E v \in States : SendState(v)
  \/ SendNeutral
  \/ Shutdown
  \/ CallerGivesUp
  \/ Join
  \/ Opens
  \/ DoesNotOpen
  \/ WorkerRuns
  \/ HelperRuns
  \/ HelperFails
  \/ DelegateEvent
  \/ SetReportIsTooLong
  \/ HelperBreaks

HidFairness == WF_hidVars(WorkerRuns) /\ WF_hidVars(HelperRuns) /\ WF_hidVars(Join)
               /\ WF_hidVars(DoesNotOpen)

HidSpec == HidStart /\ [][HidNext]_hidVars /\ HidFairness

-----------------------------------------------------------------------------
\* A neutral that was acknowledged is the last word: until a state is sent,
\* the device reports neutral or is gone, whatever was queued or on its way.
NeutralIsLast == caller.neutral => device \in {Neutral, "gone"}

\* A failure, and the end of the output, take the device away: also a helper
\* that hangs with a button pressed, or a caller that gave up.
FailureReleasesDevice ==
  /\ (failure # "none") ~> (device = "gone")
  /\ (caller.at \in {"joining", "closed"}) ~> (caller.at = "closed" /\ device = "gone")

\* The client takes its own helper for one that breaks the protocol only where
\* the driver exceeded the length of a report or the helper died in a line: no
\* acknowledgement outlives the request it was for, and delegate events that
\* were dropped are no reason.
HelperIsUnderstood ==
  /\ failure = "violation" => helper.excesses > 0
  /\ helper.at = "serving" /\ stdin.requests # << >>
       => Head(stdin.requests).sequence = helper.expected

\* However neutrals overtake and time-outs cut off, the two ends agree about
\* the requests, and an acknowledged neutral is what the game sees.
ProtocolIsKept == NeutralIsLast /\ HelperIsUnderstood
=============================================================================
