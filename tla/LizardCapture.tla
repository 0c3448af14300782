--------------------------- MODULE LizardCapture ---------------------------
(***************************************************************************)
(* The visualizer's capture of the controller's own mouse                  *)
(* (apps/sc-visualizer/src/lizard/capture.rs): the HID thread, the passive *)
(* event tap and the guide stamp events and offer them to a bounded queue, *)
(* the capture thread puts them into the order of their stamps within a    *)
(* reorder window and writes them, and closes the file with a trailer that *)
(* says whether the capture is valid.  Above them is the lab's window      *)
(* (lizard/ui.rs), which the user may cancel or leave at any time.         *)
(*                                                                         *)
(* A stamp and the offer that follows are two steps, so a producer may be  *)
(* overtaken.  "free" is the terminal capture that Ctrl+C or a timer ends. *)
(***************************************************************************)
EXTENDS Integers, Sequences, SequencesExt, FiniteSets

CONSTANTS
  Trials,         \* guided_trials(), as 1 .. n
  QueueCapacity,  \* QUEUE_CAPACITY
  ReorderWindow,  \* REORDER_WINDOW_US
  MaxTime,        \* bound: the clock
  MaxReports,     \* bound: HID reports
  MaxExtras       \* bound: pointer events and retries of a trial, together

ASSUME CaptureAssumption ==
  /\ Trials = 1 .. Cardinality(Trials) /\ Trials # {}
  /\ IsFiniteSet(Trials)
  /\ QueueCapacity \in Nat \ {0} /\ ReorderWindow \in Nat /\ MaxTime \in Nat

VARIABLES
  shared,   \* Shared: the stop token, the invalid reason, completed
  now,      \* the capture's clock
  queue,    \* the bounded channel of QueuedEvents
  hid,      \* the HID thread: stamped events to offer, reports seen
  tap,      \* the event tap's thread
  guide,    \* the GUI's guide thread and the trials it accepted
  commands, \* the channel of GuiCaptureCommands
  capture,  \* run_capture with its EventMerger, the file and its trailer
  lab,      \* the window
  made      \* ghost: how many events were stamped

captureVars == <<shared, now, queue, hid, tap, guide, commands, capture, lab, made>>

Free == lab.screen = "terminal"
Plain == [at |-> now, accepts |-> 0]
Marker(c) == [at |-> now, accepts |-> IF c.kind = "accepted" THEN c.trial ELSE 0]

CaptureInit ==
  /\ shared = [stop |-> FALSE, invalid |-> FALSE, completed |-> FALSE]
  /\ now = 0 /\ queue = << >> /\ made = 0
  /\ hid = [at |-> "unborn", offers |-> << >>, seen |-> {}, reports |-> 0]
  /\ tap = [at |-> "unborn", offers |-> << >>, ready |-> FALSE, events |-> 0]
  /\ guide = [at |-> "unborn", offers |-> << >>, accepted |-> {}]
  /\ commands = << >>
  /\ capture = [at |-> "opening", done |-> {}, buffered |-> << >>, last |-> 0,
                file |-> [events |-> 0, last |-> 0, ordered |-> TRUE, accepted |-> {}],
                failed |-> FALSE, trailer |-> "none"]
  /\ \E screen \in {"capturing", "terminal"} :
       lab = [screen |-> screen, phase |-> "preflight", trial |-> 1, attempt |-> 1,
              leaving |-> FALSE]

ExtrasLeft == tap.events + lab.attempt <= MaxExtras

Invalidated(s) == [s EXCEPT !.invalid = TRUE, !.stop = TRUE]

-----------------------------------------------------------------------------
(* Producers.                                                              *)

\* Fault: an event that finds the queue full is dropped silently.
Offer_drops(event) ==
  IF shared.invalid THEN UNCHANGED <<queue, shared>>
  ELSE IF Len(queue) = QueueCapacity THEN UNCHANGED <<queue, shared>>
  ELSE queue' = Append(queue, event) /\ UNCHANGED shared

\* Shared::event
Offer(event) ==
  IF shared.invalid THEN UNCHANGED <<queue, shared>>
  ELSE IF Len(queue) = QueueCapacity
  THEN shared' = Invalidated(shared) /\ UNCHANGED queue
  ELSE queue' = Append(queue, event) /\ UNCHANGED shared

Offers(thread) == /\ thread.offers # << >> /\ Offer(Head(thread.offers))
HidOffers ==
  /\ Offers(hid) /\ hid' = [hid EXCEPT !.offers = Tail(@)]
  /\ UNCHANGED <<now, tap, guide, commands, capture, lab, made>>
TapOffers ==
  /\ Offers(tap) /\ tap' = [tap EXCEPT !.offers = Tail(@)]
  /\ UNCHANGED <<now, hid, guide, commands, capture, lab, made>>
GuideOffers ==
  /\ Offers(guide) /\ guide' = [guide EXCEPT !.offers = Tail(@)]
  /\ UNCHANGED <<now, hid, tap, commands, capture, lab, made>>

Polls(thread) == thread.at = "running" /\ thread.offers = << >> /\ ~shared.stop

\* A report; its raw and its decoded copy have one stamp and are taken as one.
HidReport ==
  /\ Polls(hid) /\ hid.reports < MaxReports
  /\ \E kind \in {"state", "lizard"} :
       hid' = [hid EXCEPT !.offers = <<Plain>>, !.reports = @ + 1,
                          !.seen = @ \cup {kind}]
  /\ made' = made + 1
  /\ UNCHANGED <<shared, now, queue, tap, guide, commands, capture, lab>>

\* A lost controller, a dropped report, a failed poll or a panic.
HidFails ==
  /\ Polls(hid) /\ shared' = Invalidated(shared)
  /\ UNCHANGED <<now, queue, hid, tap, guide, commands, capture, lab, made>>

HidEnds ==
  /\ hid.at = "running" /\ hid.offers = << >> /\ shared.stop
  /\ hid' = [hid EXCEPT !.at = "done"]
  /\ UNCHANGED <<shared, now, queue, tap, guide, commands, capture, lab, made>>

TapReady ==
  /\ tap.at = "running" /\ ~tap.ready /\ tap' = [tap EXCEPT !.ready = TRUE]
  /\ UNCHANGED <<shared, now, queue, hid, guide, commands, capture, lab, made>>

TapEvent ==
  /\ Polls(tap) /\ tap.ready /\ ExtrasLeft
  /\ tap' = [tap EXCEPT !.offers = <<Plain>>, !.events = @ + 1]
  /\ made' = made + 1
  /\ UNCHANGED <<shared, now, queue, hid, guide, commands, capture, lab>>

\* The system disables the tap, refuses it, or the thread ends with the stop.
TapEnds ==
  /\ tap.at = "running" /\ tap.offers = << >>
  /\ shared' = IF shared.stop THEN shared ELSE Invalidated(shared)
  /\ tap' = [tap EXCEPT !.at = "done"]
  /\ UNCHANGED <<now, queue, hid, guide, commands, capture, lab, made>>

-----------------------------------------------------------------------------
(* spawn_gui_guide: commands become markers.  The window's end closes the  *)
(* channel, which is a Cancel.                                             *)

TakeCommand ==
  /\ commands # << >> /\ commands' = Tail(commands)
  /\ UNCHANGED <<now, queue, hid, tap, capture, lab>>

MarkTrial ==
  /\ Polls(guide) /\ TakeCommand
  /\ LET c == Head(commands)
     IN /\ c.kind \in {"start", "end", "accepted", "discarded"}
        /\ guide' = [guide EXCEPT !.offers = <<Marker(c)>>,
                       !.accepted = IF c.kind = "accepted" THEN @ \cup {c.trial} ELSE @]
        /\ made' = made + 1
  /\ UNCHANGED shared

FinishOrCancel ==
  /\ Polls(guide) /\ TakeCommand
  /\ Head(commands).kind \in {"finish", "cancel"}
  /\ shared' = IF Head(commands).kind = "finish" /\ guide.accepted = Trials
               THEN [shared EXCEPT !.completed = TRUE, !.stop = TRUE]
               ELSE Invalidated(shared)
  /\ UNCHANGED <<guide, made>>

GuideEnds ==
  /\ guide.at = "running" /\ guide.offers = << >> /\ shared.stop
  /\ guide' = [guide EXCEPT !.at = "done"]
  /\ UNCHANGED <<shared, now, queue, hid, tap, commands, capture, lab, made>>

-----------------------------------------------------------------------------
(* The capture thread.                                                     *)

\* How many of these events are stamped up to a time; in the order of the
\* stamps they are the first ones.
UpTo(events, time) == Cardinality({i \in DOMAIN events : events[i].at <= time})

\* EventMerger::push, or the capture is late beyond repair.
push(merger, event) ==
  IF event.at < capture.last THEN [merger EXCEPT !.late = TRUE]
  ELSE [merger EXCEPT !.buffered = InsertAt(@, UpTo(@, event.at) + 1, event)]

\* The merger once it has taken in everything queued.
TakenIn ==
  LET merger[n \in 0 .. Len(queue)] ==
        IF n = 0 THEN [buffered |-> capture.buffered, late |-> FALSE]
        ELSE push(merger[n - 1], queue[n])
  IN  merger[Len(queue)]

Accepts(events) == {events[i].accepts : i \in DOMAIN events} \ {0}

\* What a reader of the file finds: how many events, whether in the order of
\* their stamps, and the trials marked as accepted.
Written(file, events) ==
  [events |-> file.events + Len(events),
   last |-> IF events = << >> THEN file.last ELSE Last(events).at,
   ordered |-> /\ file.ordered
               /\ \A i \in DOMAIN events :
                    (IF i = 1 THEN file.last ELSE events[i - 1].at) <= events[i].at,
   accepted |-> file.accepted \cup Accepts(events)]

\* The writes of the events up to a time: after a failure nothing is written.
drain(merger, time, fails) ==
  LET count == UpTo(merger.buffered, time)
      ready == SubSeq(merger.buffered, 1, count)
      failed == capture.failed \/ (fails /\ ready # << >>)
  IN  [capture EXCEPT
         !.buffered = SubSeq(merger.buffered, count + 1, Len(merger.buffered)),
         !.failed = failed,
         !.last = IF ready = << >> THEN @ ELSE Last(ready).at,
         !.file = IF failed THEN @ ELSE Written(@, ready)]

\* Up to when a drain writes: the clock less the reorder window, saturating.
cutoff == IF now < ReorderWindow THEN 0 ELSE now - ReorderWindow

\* Everything queued is taken in; each way the writes of a drain may end.
Merging(time) ==
  {[late |-> merger.late, capture |-> drain(merger, time, fails)]
     : merger \in {TakenIn}, fails \in BOOLEAN}
Bad(m) == m.late \/ (m.capture.failed /\ ~capture.failed)

\* drain_capture_events, and what it finds wrong.
DrainUpTo(time, next) ==
  \E m \in Merging(time) :
    /\ queue' = << >>
    /\ capture' = [m.capture EXCEPT !.at = next.at, !.done = next.done]
    /\ shared' = IF Bad(m) THEN Invalidated(shared) ELSE shared

\* open_controller: it succeeds, fails, or is cancelled before it did.
OpenController ==
  /\ capture.at = "opening" /\ ~shared.stop
  /\ capture' = [capture EXCEPT !.at = "preflight"]
  /\ hid' = [hid EXCEPT !.at = "running"] /\ tap' = [tap EXCEPT !.at = "running"]
  /\ UNCHANGED <<shared, now, queue, guide, commands, lab, made>>
OpenFails ==
  /\ capture.at = "opening"
  /\ capture' = [capture EXCEPT !.at = "closed", !.trailer = "invalid"]
  /\ UNCHANGED <<shared, now, queue, hid, tap, guide, commands, lab, made>>

Checked == hid.seen = {"state", "lizard"} /\ tap.ready

\* preflight: the drains while it waits, and its end, complete, stopped or at
\* the deadline.  The guide is started for a capture that goes on.
PreflightWaits ==
  /\ capture.at = "preflight" /\ ~shared.stop /\ ~Checked /\ queue # << >>
  /\ DrainUpTo(cutoff, [at |-> "preflight", done |-> {}])
  /\ UNCHANGED <<now, hid, tap, guide, commands, lab, made>>
PreflightEnds ==
  /\ capture.at = "preflight"
  /\ DrainUpTo(cutoff, [at |-> "verdict", done |-> {}])
  /\ UNCHANGED <<now, hid, tap, guide, commands, lab, made>>
PreflightVerdict ==
  /\ capture.at = "verdict"
  /\ shared' = IF Checked THEN shared ELSE Invalidated(shared)
  /\ capture' = [capture EXCEPT !.at = "merging"]
  /\ guide' = [guide EXCEPT !.at = IF shared'.stop \/ Free THEN "done" ELSE "running"]
  /\ lab' = IF Free THEN lab
            ELSE [lab EXCEPT !.phase = IF shared'.invalid THEN "invalid" ELSE "waiting"]
  /\ UNCHANGED <<now, queue, hid, tap, commands, made>>

Done == {p \in {"hid", "tap"} : (IF p = "hid" THEN hid ELSE tap).at = "done"}

\* merge_until_done: rounds until both producers have reported their end.
MergeRound ==
  /\ capture.at = "merging" /\ capture.done # {"hid", "tap"}
  /\ queue # << >> \/ capture.buffered # << >> \/ Done # capture.done
  /\ IF Done = {"hid", "tap"}
     THEN /\ capture' = [capture EXCEPT !.done = Done] /\ UNCHANGED <<queue, shared>>
     ELSE DrainUpTo(cutoff, [at |-> "merging", done |-> Done])
  /\ UNCHANGED <<now, hid, tap, guide, commands, lab, made>>

\* Fault: what was queued between the last round and the end is not taken.
MergeRest_skips_queue ==
  /\ capture.at = "merging" /\ capture.done = {"hid", "tap"}
  /\ capture' = [capture EXCEPT !.at = "joining", !.buffered = << >>,
                                !.file = Written(@, capture.buffered)]
  /\ shared' = [shared EXCEPT !.stop = TRUE] /\ UNCHANGED queue
  /\ UNCHANGED <<now, hid, tap, guide, commands, lab, made>>

MergeRest ==
  /\ capture.at = "merging" /\ capture.done = {"hid", "tap"}
  /\ \E m \in Merging(MaxTime) :
       /\ capture' = [m.capture EXCEPT !.at = "joining"]
       /\ shared' = [shared EXCEPT !.stop = TRUE, !.invalid = @ \/ Bad(m)]
  /\ queue' = << >>
  /\ UNCHANGED <<now, hid, tap, guide, commands, lab, made>>

\* The threads are joined and the trailer, if it can be written, says what
\* became of the capture.
CloseFile ==
  /\ capture.at = "joining" /\ guide.at = "done"
  /\ LET valid == ~shared.invalid /\ (Free \/ shared.completed)
     IN  \E trailer \in {"none", IF valid THEN "valid" ELSE "invalid"} :
           capture' = [capture EXCEPT !.at = "closed", !.trailer = trailer]
  /\ UNCHANGED <<shared, now, queue, hid, tap, guide, commands, lab, made>>

-----------------------------------------------------------------------------
(* The window, and the terminal's user.                                    *)

\* A phase lasts seconds and the guide polls every 25 ms: it has caught up.
CaughtUp == commands = << >>

Send(kind) == commands' = Append(commands, [kind |-> kind, trial |-> lab.trial])

Window ==
  lab.screen = "capturing" /\ UNCHANGED <<now, queue, hid, tap, guide, capture, made>>

\* The phases of a trial: the countdown ends, the measurement ends.
TrialGoesOn ==
  /\ Window /\ CaughtUp /\ UNCHANGED shared
  /\ \/ lab.phase = "waiting" /\ Send("start") /\ lab' = [lab EXCEPT !.phase = "measuring"]
     \/ lab.phase = "measuring" /\ Send("end") /\ lab' = [lab EXCEPT !.phase = "review"]

RetryTrial ==
  /\ Window /\ CaughtUp /\ lab.phase = "review" /\ ExtrasLeft
  /\ Send("discarded")
  /\ lab' = [lab EXCEPT !.attempt = @ + 1, !.phase = "waiting"]
  /\ UNCHANGED shared

AcceptTrial ==
  /\ Window /\ CaughtUp /\ lab.phase = "review"
  /\ LET accepted == [kind |-> "accepted", trial |-> lab.trial]
         finish == [kind |-> "finish", trial |-> lab.trial]
     IN IF lab.trial = Cardinality(Trials)
        THEN /\ commands' = commands \o <<accepted, finish>>
             /\ lab' = [lab EXCEPT !.screen = "processing"]
        ELSE /\ commands' = Append(commands, accepted)
             /\ lab' = [lab EXCEPT !.trial = @ + 1, !.attempt = 1, !.phase = "waiting"]
  /\ UNCHANGED shared

\* Fault: only the command is queued; a capture without a guide never sees it.
cancel_by_command ==
  Send("cancel") /\ UNCHANGED shared

\* GuiCapture::cancel
cancel ==
  /\ Send("cancel") /\ shared' = [shared EXCEPT !.stop = TRUE]

CancelCapture ==
  /\ Window /\ cancel
  /\ lab' = [lab EXCEPT !.screen = "processing"]

\* request_exit, from the header of every screen.
LeaveLab ==
  /\ lab.screen \in {"capturing", "processing"} /\ ~lab.leaving /\ cancel
  /\ lab' = [lab EXCEPT !.screen = "processing", !.leaving = TRUE]
  /\ UNCHANGED <<now, queue, hid, tap, guide, capture, made>>

\* poll_workers: the capture's Finished; a completed one is analyzed.
TakeFinished ==
  /\ lab.screen \in {"capturing", "processing"} /\ capture.at = "closed"
  /\ lab' = [lab EXCEPT !.screen = IF lab.leaving THEN "left" ELSE "results"]
  /\ UNCHANGED <<shared, now, queue, hid, tap, guide, commands, capture, made>>

Interrupt ==
  /\ Free /\ capture.at # "opening" /\ ~shared.stop
  /\ shared' = [shared EXCEPT !.stop = TRUE]
  /\ UNCHANGED <<now, queue, hid, tap, guide, commands, capture, lab, made>>

ClockAdvances ==
  /\ now < MaxTime /\ capture.at \in {"preflight", "verdict", "merging"}
  /\ now' = now + 1
  /\ UNCHANGED <<shared, queue, hid, tap, guide, commands, capture, lab, made>>

Producer == HidOffers \/ TapOffers \/ HidEnds \/ (shared.stop /\ TapEnds)
Guide == GuideOffers \/ MarkTrial \/ FinishOrCancel \/ GuideEnds
Writer == \/ (shared.stop /\ OpenFails) \/ PreflightWaits \/ PreflightEnds
          \/ PreflightVerdict \/ MergeRound \/ MergeRest \/ CloseFile \/ TakeFinished
Events == OpenController \/ OpenFails \/ HidReport \/ HidFails \/ TapReady \/ TapEvent \/ TapEnds
User == TrialGoesOn \/ RetryTrial \/ AcceptTrial \/ CancelCapture \/ LeaveLab \/ Interrupt

CaptureNext == Producer \/ Guide \/ Writer \/ Events \/ User \/ ClockAdvances

\* The threads run, the window polls, and the tap's stopper ends its run loop;
\* the user, the controller, its events and the clock need not move.
CaptureFairness ==
  WF_captureVars(Producer) /\ WF_captureVars(Guide) /\ WF_captureVars(Writer)

CaptureSpec == CaptureInit /\ [][CaptureNext]_captureVars /\ CaptureFairness

-----------------------------------------------------------------------------
\* A capture that says it is valid is all that happened: every event that any
\* thread stamped is in the file, in the order of the stamps, and a guided one
\* has every trial's markers; whatever was lost has marked it invalid.
ValidIsComplete ==
  capture.trailer = "valid" =>
    /\ capture.file.events = made /\ capture.file.ordered
    /\ Free \/ capture.file.accepted = Trials

\* A user who cancels the capture, or leaves the lab, gets there: also before
\* a controller was found, while the preflight waits, or with a full queue.
CancelEnds == lab.screen = "processing" ~> lab.screen \in {"results", "left"}
=============================================================================
