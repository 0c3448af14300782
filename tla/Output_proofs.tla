--------------------------- MODULE Output_proofs ----------------------------
(***************************************************************************)
(* What TLAPS proves of the way of a gamepad state.                        *)
(*                                                                         *)
(* The active session, for any controls, any input timeout and any capacity*)
(* of the batch: the game's controller is the last one asked for, and a    *)
(* silent controller's controls are let go.  Neither is inductive.         *)
(* SessionInv adds what the engine's own record says: unless a reset       *)
(* failed, what it believes it sent is what the output holds (SentIsHeld), *)
(* and its input timer runs with the controller's silence (TimerIsSilence);*)
(* an iteration that has serviced its output has released the controls of a*)
(* controller silent for too long (ServiceReleases).  The engine's methods *)
(* are lemmas of their own: whatever one does, it ends with the output     *)
(* neutral, refused as it stood, or unmoved.                               *)
(*                                                                         *)
(* The wire's framing, for any bytes, magic, sizes and message types.      *)
(* FramingInv adds to the two ends' agreement that the device's buffer is  *)
(* settled: it begins with a magic, or what may become one, and waits for  *)
(* more.  It rests on one lemma about the decoder's loop, ProcessSplits:   *)
(* to process some bytes and then, behind what they left, some more, is to *)
(* process them all at once.  That no damage costs a later frame is no     *)
(* invariant but a fact about any buffer (FrameSurvives), by induction over*)
(* where the loop stands before the frame.                                 *)
(***************************************************************************)
EXTENDS MCOutput, RecursionTheorems, SequenceTheorems, TLAPS

-----------------------------------------------------------------------------
(* The active session.                                                     *)

SessionTyped ==
  /\ engine \in Engine /\ held \in GameStates /\ wanted \in GameStates
  /\ stage \in Stages /\ silent \in 0 .. SlotTimeout
QueuesTyped == mailbox \in Seq(Reports) /\ batch \in Seq(Reports)

\* What the engine believes it sent is what the output holds and was asked for.
SentIsHeld ==
  Running /\ ~reset_failed =>
    held = wanted /\ engine.last_sent \in {NoGameState, held}

\* The engine's input timer runs with the silence of the controller.
TimerIsSilence ==
  Running /\ engine.last_input # Never =>
    engine.last_input = IF silent < InputTimeout THEN silent ELSE InputTimeout

\* An iteration whose output was serviced has let go of a silent controller.
ServiceReleases ==
  stage \in {"shutdown", "timeout"} /\ held # NeutralState => silent < InputTimeout \/ noisy

SessionCore == SessionTyped /\ SentIsHeld /\ TimerIsSilence /\ HeldStateIsTimed /\ ReleaseMeansNeutral
Releases == ServiceReleases /\ SilentControllerIsReleased
SessionInv == SessionCore /\ Releases /\ QueuesTyped

-----------------------------------------------------------------------------
(* What the engine's methods come to.                                      *)

Timer(e) == <<e.last_input, e.neutralized>>

\* The outcomes of a method applied to e while the output holds h.
Neutralized(o) ==
  /\ o.result = "neutralized" /\ o.held = NeutralState
  /\ o.engine \in Engine /\ o.engine.last_sent = NeutralState /\ o.engine.last_input = Never
Refused(e, h, o) ==
  /\ o.result = "output_error" /\ o.held \in {h, NeutralState}
  /\ o.engine \in Engine /\ o.engine.last_sent = e.last_sent
  /\ o.engine.last_input = e.last_input /\ o.engine.neutralized = e.neutralized
Unmoved(e, h, o) ==
  /\ o.result \in {"decode_error", "status", "no_change"} /\ o.held = h
  /\ o.engine \in Engine /\ o.engine.last_sent = e.last_sent
  /\ o.engine.last_input = e.last_input /\ o.engine.neutralized = e.neutralized

LEMMA ForcedNeutral ==
  ASSUME NEW e \in Engine, NEW h \in GameStates, NEW o \in force_neutral(e, h)
  PROVE  Neutralized(o) \/ Refused(e, h, o)
<1> DEFINE parked == [e EXCEPT !.last_sent = NeutralState, !.last_input = Never, !.neutralized = TRUE]
<1>1. PICK send \in Sends(NeutralState, h) :
        o = IF send.ok THEN Outcome(parked, send.held, "neutralized")
            ELSE Outcome(e, send.held, "output_error")
  BY DEF force_neutral
<1>2. NeutralState \in GameStates \cup {NoGameState} /\ Never \in Never .. InputTimeout
  BY GameStateAssumption, EngineAssumption DEF Never
<1>3. parked \in Engine /\ parked.last_sent = NeutralState /\ parked.last_input = Never
  BY <1>2 DEF Engine
<1>4. \/ send = [ok |-> TRUE, held |-> NeutralState]
      \/ send \in [ok : {FALSE}, held : {h, NeutralState}]
  BY <1>1, Zenon DEF Sends
<1> HIDE DEF parked
<1>5. CASE send = [ok |-> TRUE, held |-> NeutralState]
  <2>1. o = Outcome(parked, NeutralState, "neutralized")
    BY <1>1, <1>5, Zenon
  <2>2. o.engine = parked /\ o.held = NeutralState /\ o.result = "neutralized"
    BY <2>1 DEF Outcome
  <2> QED
    BY <1>3, <2>2 DEF Neutralized
<1>6. CASE send \in [ok : {FALSE}, held : {h, NeutralState}]
  <2>1. send.ok = FALSE /\ send.held \in {h, NeutralState}
    BY <1>6
  <2>2. o = Outcome(e, send.held, "output_error")
    BY <1>1, <2>1, Zenon
  <2>3. o.engine = e /\ o.held = send.held /\ o.result = "output_error"
    BY <2>2 DEF Outcome
  <2> QED
    BY <2>1, <2>3 DEF Refused
<1> QED
  BY <1>4, <1>5, <1>6

LEMMA MappedIsState ==
  ASSUME NEW e \in Engine, NEW s \in GameStates PROVE Mapped(e, s) \in GameStates
BY GameStateAssumption DEF Mapped

LEMMA ProcessedMalformed ==
  ASSUME NEW e \in Engine, NEW h \in GameStates, NEW o \in process_malformed(e, h)
  PROVE  Neutralized(o) \/ Refused(e, h, o) \/ Unmoved(e, h, o)
<1> DEFINE failures == e.decode_failures + 1
           full == [e EXCEPT !.decode_failures = DecodeFailureLimit]
           more == [e EXCEPT !.decode_failures = failures]
<1>1. failures \in Nat /\ DecodeFailureLimit \in 0 .. DecodeFailureLimit
  BY EngineAssumption DEF Engine
<1>2. CASE failures >= DecodeFailureLimit
  <2>1. o \in force_neutral(full, h)
    BY <1>2 DEF process_malformed
  <2>2. full \in Engine /\ full.last_sent = e.last_sent /\ full.last_input = e.last_input
        /\ full.neutralized = e.neutralized
    BY <1>1 DEF Engine
  <2> HIDE DEF full
  <2> QED
    BY <2>1, <2>2, ForcedNeutral DEF Refused
<1>3. CASE ~(failures >= DecodeFailureLimit)
  <2>1. o = Outcome(more, h, "decode_error")
    BY <1>3 DEF process_malformed
  <2>2. failures \in 0 .. DecodeFailureLimit
    BY <1>1, <1>3, EngineAssumption
  <2>3. more \in Engine /\ more.last_sent = e.last_sent /\ more.last_input = e.last_input
        /\ more.neutralized = e.neutralized
    BY <2>2 DEF Engine
  <2> HIDE DEF more
  <2>4. o.engine = more /\ o.held = h /\ o.result = "decode_error"
    BY <2>1 DEF Outcome
  <2> QED
    BY <2>3, <2>4 DEF Unmoved
<1> QED
  BY <1>2, <1>3

\* A state that is already believed to be there is not sent.
Stated(e, h, s, o) ==
  /\ o.result = "state" /\ o.engine \in Engine
  /\ o.engine.last_input = 0 /\ o.engine.neutralized = FALSE
  /\ o.engine.last_sent = Mapped(e, s)
  /\ o.held = IF e.last_sent = Mapped(e, s) THEN h ELSE Mapped(e, s)
SendLost(e, h, s, o) ==
  o.result = "output_error" /\ o.engine \in Engine /\ o.held \in {h, Mapped(e, s)}

LEMMA ProcessedState ==
  ASSUME NEW e \in Engine, NEW h \in GameStates, NEW s \in GameStates, NEW o \in process_state(e, h, s)
  PROVE  Stated(e, h, s, o) \/ SendLost(e, h, s, o)
<1> DEFINE seen == [e EXCEPT !.decode_failures = 0, !.last_input = 0, !.neutralized = FALSE]
           mapped == Mapped(e, s)
           sent == [seen EXCEPT !.last_sent = mapped]
<1>1. mapped \in GameStates
  BY MappedIsState
<1>2. 0 \in Never .. InputTimeout /\ 0 \in 0 .. DecodeFailureLimit
  BY EngineAssumption DEF Never
<1>3. seen \in Engine /\ seen.last_input = 0 /\ seen.last_sent = e.last_sent
  BY <1>2 DEF Engine
<1>4. seen.neutralized = FALSE
  BY DEF Engine
<1> HIDE DEF seen
<1>5. sent \in Engine /\ sent.last_input = 0 /\ sent.last_sent = mapped
  BY <1>1, <1>3 DEF Engine
<1>6. sent.neutralized = FALSE
  BY <1>3, <1>4 DEF Engine
<1> HIDE DEF mapped, sent
<1>7. CASE e.last_sent = mapped
  <2>1. o = Outcome(seen, h, "state")
    BY <1>7, Zenon DEF process_state, seen, mapped
  <2>2. o.engine = seen /\ o.held = h /\ o.result = "state"
    BY <2>1 DEF Outcome
  <2> QED
    BY <1>3, <1>4, <1>7, <2>2 DEF Stated, mapped
<1>8. CASE e.last_sent # mapped
  <2>1. PICK send \in Sends(mapped, h) :
          o = IF send.ok THEN Outcome(sent, send.held, "state") ELSE Outcome(seen, send.held, "output_error")
    BY <1>8, Zenon DEF process_state, seen, mapped, sent
  <2>2. \/ send = [ok |-> TRUE, held |-> mapped]
        \/ send \in [ok : {FALSE}, held : {h, mapped}]
    BY <2>1, Zenon DEF Sends
  <2>3. CASE send = [ok |-> TRUE, held |-> mapped]
    <3>1. o = Outcome(sent, mapped, "state")
      BY <2>1, <2>3, Zenon
    <3>2. o.engine = sent /\ o.held = mapped /\ o.result = "state"
      BY <3>1 DEF Outcome
    <3> QED
      BY <1>5, <1>6, <1>8, <3>2 DEF Stated, mapped
  <2>4. CASE send \in [ok : {FALSE}, held : {h, mapped}]
    <3>1. send.ok = FALSE /\ send.held \in {h, mapped}
      BY <2>4
    <3>2. o = Outcome(seen, send.held, "output_error")
      BY <2>1, <3>1, Zenon
    <3>3. o.engine = seen /\ o.held = send.held /\ o.result = "output_error"
      BY <3>2 DEF Outcome
    <3> QED
      BY <1>3, <3>1, <3>3 DEF SendLost, mapped
  <2> QED
    BY <2>2, <2>3, <2>4
<1> QED
  BY <1>7, <1>8

LEMMA Processed ==
  ASSUME NEW e \in Engine, NEW h \in GameStates, NEW report \in Reports, NEW o \in process_report(e, h, report)
  PROVE  \/ Neutralized(o) \/ Refused(e, h, o) \/ Unmoved(e, h, o)
         \/ report \in GameStates /\ (Stated(e, h, report, o) \/ SendLost(e, h, report, o))
<1>1. CASE report = Malformed
  BY <1>1, ProcessedMalformed DEF process_report
<1>2. CASE report = Status
  <2> DEFINE told == [e EXCEPT !.decode_failures = 0]
  <2>1. o = Outcome(told, h, "status")
    BY <1>2, GameStateAssumption, Zenon DEF process_report
  <2>2. 0 \in 0 .. DecodeFailureLimit
    BY EngineAssumption
  <2>3. told \in Engine /\ told.last_sent = e.last_sent /\ told.last_input = e.last_input
        /\ told.neutralized = e.neutralized
    BY <2>2 DEF Engine
  <2> HIDE DEF told
  <2>4. o.engine = told /\ o.held = h /\ o.result = "status"
    BY <2>1 DEF Outcome
  <2> QED
    BY <2>3, <2>4 DEF Unmoved
<1>3. CASE report \in GameStates
  <2>1. o \in process_state(e, h, report)
    BY <1>3, GameStateAssumption, Zenon DEF process_report
  <2> QED
    BY <1>3, <2>1, ProcessedState
<1> QED
  BY <1>1, <1>2, <1>3 DEF Reports

\* A tick that leaves the output alone found the timer not run out.
LEMMA Ticked ==
  ASSUME NEW e \in Engine, NEW h \in GameStates, NEW o \in tick(e, h)
  PROVE  \/ Neutralized(o) \/ Refused(e, h, o)
         \/ Unmoved(e, h, o) /\ (e.neutralized \/ e.last_input # InputTimeout)
<1>0. /\ \A r : Outcome(e, h, r).engine = e /\ Outcome(e, h, r).held = h /\ Outcome(e, h, r).result = r
  BY DEF Outcome
<1>1. CASE o = Outcome(e, h, "output_error")
  BY <1>0, <1>1 DEF Refused
<1>2. CASE ~e.neutralized /\ e.last_input = InputTimeout /\ o \in force_neutral(e, h)
  BY <1>2, ForcedNeutral
<1>3. CASE (e.neutralized \/ e.last_input # InputTimeout) /\ o = Outcome(e, h, "no_change")
  BY <1>0, <1>3 DEF Unmoved
<1> QED
  BY <1>1, <1>2, <1>3, Zenon DEF tick

LEMMA Serviced ==
  ASSUME NEW e \in Engine, NEW h \in GameStates, NEW o \in service(e, h)
  PROVE  Refused(e, h, o) \/ Unmoved(e, h, o)
<1>1. o.engine = e /\ o.held = h /\ o.result \in {"output_error", "no_change"}
  BY DEF service
<1> QED
  BY <1>1 DEF Refused, Unmoved

-----------------------------------------------------------------------------
(* Steps.                                                                  *)

LEMMA RunningStages ==
  /\ Running <=> stage \notin {"teardown", "over"}
  /\ (Running)' <=> stage' \notin {"teardown", "over"}
BY DEF Running

\* The output is parked, refuses or is left alone, and the loop goes on.
LEMMA ParksKeeps ==
  ASSUME SessionCore, NEW o, Neutralized(o) \/ Refused(engine, held, o) \/ Unmoved(engine, held, o), Parks(o),
         Running, stage' \in Stages, stage' \notin {"teardown", "over"}, silent' = silent,
         ~reset_failed' => Neutralized(o) \/ (~reset_failed /\ Unmoved(engine, held, o))
  PROVE  SessionCore'
<1> USE DEF SessionCore
<1>0. /\ engine' = o.engine /\ held' = o.held
      /\ o.result = "neutralized" => wanted' = NeutralState
      /\ o.result # "neutralized" => wanted' = wanted
  BY Zenon DEF Parks
<1>1. SessionTyped'
  BY <1>0, GameStateAssumption DEF SessionTyped, Neutralized, Refused, Unmoved
<1>2. CASE Neutralized(o)
  <2>1. SentIsHeld' /\ TimerIsSilence' /\ HeldStateIsTimed' /\ ReleaseMeansNeutral'
    BY <1>0, <1>2 DEF Neutralized, SentIsHeld, TimerIsSilence, HeldStateIsTimed, ReleaseMeansNeutral
  <2> QED
    BY <1>1, <2>1
<1>3. CASE Refused(engine, held, o)
  <2>1. ~Neutralized(o) /\ ~Unmoved(engine, held, o)
    BY <1>3 DEF Refused, Neutralized, Unmoved
  <2>2. SentIsHeld'
    BY <2>1 DEF SentIsHeld
  <2>3. TimerIsSilence' /\ HeldStateIsTimed' /\ ReleaseMeansNeutral'
    BY <1>0, <1>3 DEF Refused, TimerIsSilence, HeldStateIsTimed, ReleaseMeansNeutral
  <2> QED
    BY <1>1, <2>2, <2>3
<1>4. CASE Unmoved(engine, held, o)
  <2>1. ~Neutralized(o)
    BY <1>4 DEF Neutralized, Unmoved
  <2>2. SentIsHeld'
    BY <1>0, <1>4, <2>1 DEF SentIsHeld, Unmoved
  <2>3. TimerIsSilence' /\ HeldStateIsTimed' /\ ReleaseMeansNeutral'
    BY <1>0, <1>4 DEF Unmoved, TimerIsSilence, HeldStateIsTimed, ReleaseMeansNeutral
  <2> QED
    BY <1>1, <2>2, <2>3
<1> QED
  BY <1>2, <1>3, <1>4

\* The session ends: only what it reports of the output is left to keep.
LEMMA EndKeeps ==
  ASSUME SessionCore, stage' \in {"teardown", "over"}, silent' = silent,
         engine' \in Engine, held' \in GameStates, wanted' \in GameStates,
         stage' = "over" /\ released' = "ok" /\ exit' # "output_lost" => held' = NeutralState
  PROVE  SessionCore' /\ Releases'
<1>1. SessionTyped'
  BY DEF SessionCore, SessionTyped, Stages
<1>2. SentIsHeld' /\ TimerIsSilence' /\ HeldStateIsTimed' /\ Releases'
  BY RunningStages DEF SentIsHeld, TimerIsSilence, HeldStateIsTimed, Releases, ServiceReleases,
                       SilentControllerIsReleased
<1>3. ReleaseMeansNeutral'
  BY DEF ReleaseMeansNeutral
<1> QED
  BY <1>1, <1>2, <1>3 DEF SessionCore

LEMMA ParksTyped ==
  ASSUME SessionCore, NEW o, Neutralized(o) \/ Refused(engine, held, o) \/ Unmoved(engine, held, o), Parks(o)
  PROVE  engine' \in Engine /\ held' \in GameStates /\ wanted' \in GameStates
<1>0. engine' = o.engine /\ held' = o.held /\ wanted' \in {NeutralState, wanted}
  BY Zenon DEF Parks
<1> QED
  BY <1>0, GameStateAssumption DEF SessionCore, SessionTyped, Neutralized, Refused, Unmoved

LEMMA ForcedHere ==
  ASSUME SessionCore, NEW o \in force_neutral(engine, held)
  PROVE  Neutralized(o) \/ Refused(engine, held, o)
BY ForcedNeutral DEF SessionCore, SessionTyped

LEMMA OutcomesDiffer ==
  ASSUME NEW e, NEW h, NEW o
  PROVE  /\ Neutralized(o) => o.result = "neutralized"
         /\ Refused(e, h, o) => o.result = "output_error"
         /\ Unmoved(e, h, o) => o.result \in {"decode_error", "status", "no_change"}
BY DEF Neutralized, Refused, Unmoved

LEMMA NeutralizeKeeps == ASSUME SessionInv, NeutralizeBeforeDesktopWork PROVE SessionCore' /\ Releases'
<1>0. SessionCore /\ Releases /\ stage = "commands" /\ UNCHANGED <<stage, silent, noisy>> /\ Running
  BY DEF SessionInv, NeutralizeBeforeDesktopWork, Running
<1>1. PICK o \in force_neutral(engine, held) :
        Parks(o) /\ reset_failed' = (reset_failed \/ o.result = "output_error")
  BY Zenon DEF NeutralizeBeforeDesktopWork
<1>2. Neutralized(o) \/ Refused(engine, held, o)
  BY <1>0, <1>1, ForcedHere
<1>3. ~reset_failed' => ~reset_failed /\ o.result # "output_error"
  BY <1>1, Zenon
<1>4. ~reset_failed' => Neutralized(o)
  BY <1>2, <1>3, OutcomesDiffer
<1>5. SessionCore'
  BY <1>0, <1>1, <1>2, <1>4, ParksKeeps DEF SessionCore, SessionTyped
<1>6. held' = NeutralState \/ held' = held
  BY <1>1, <1>2 DEF Parks, Neutralized, Refused
<1> QED
  BY <1>0, <1>5, <1>6 DEF Releases, ServiceReleases, SilentControllerIsReleased

LEMMA CommandKeeps ==
  ASSUME SessionInv, SetOutputSuppression \/ Stop \/ WorkerFails \/ ControllerDisconnects \/ TakeBatch
  PROVE  SessionCore' /\ Releases'
<1>0. SessionCore /\ Releases
  BY DEF SessionInv
<1>1. CASE SetOutputSuppression
  <2>1. /\ engine' = [engine EXCEPT !.suppressed = ~@] /\ engine \in Engine
        /\ UNCHANGED <<held, stage, silent, wanted, reset_failed, noisy, released, exit>>
    BY <1>0, <1>1, Zenon DEF SetOutputSuppression, ending, sessionGhosts, SessionCore, SessionTyped
  <2>2. (~engine.suppressed) \in BOOLEAN
    BY Zenon
  <2>3. /\ engine' \in Engine /\ engine'.last_sent = engine.last_sent
        /\ engine'.last_input = engine.last_input /\ engine'.neutralized = engine.neutralized
    BY <2>1, <2>2 DEF Engine
  <2> QED
    BY <1>0, <2>1, <2>3
    DEF SessionCore, SessionTyped, SentIsHeld, TimerIsSilence, HeldStateIsTimed, ReleaseMeansNeutral,
        Releases, ServiceReleases, SilentControllerIsReleased, Running
<1>2. CASE Stop
  BY <1>0, <1>2, EndKeeps DEF Stop, session, sessionGhosts, SessionCore, SessionTyped
<1>3. CASE WorkerFails
  <2>1. PICK o \in force_neutral(engine, held) : Parks(o)
    BY <1>3, Zenon DEF WorkerFails
  <2>2. stage' = "over" /\ released' = "error" /\ silent' = silent
    BY <1>3 DEF WorkerFails
  <2>3. engine' \in Engine /\ held' \in GameStates /\ wanted' \in GameStates
    BY <1>0, <2>1, ForcedHere, ParksTyped
  <2> QED
    BY <1>0, <2>2, <2>3, EndKeeps
<1>4. CASE ControllerDisconnects
  <2>1. PICK o \in force_neutral(engine, held) : Parks(o)
    BY <1>4, Zenon DEF ControllerDisconnects, LoseSource
  <2>2. stage' = "teardown" /\ silent' = silent
    BY <1>4 DEF ControllerDisconnects, LoseSource
  <2>3. engine' \in Engine /\ held' \in GameStates /\ wanted' \in GameStates
    BY <1>0, <2>1, ForcedHere, ParksTyped
  <2> QED
    BY <1>0, <2>2, <2>3, EndKeeps
<1>5. CASE TakeBatch
  <2>1. /\ stage = "commands" /\ stage' = "reports"
        /\ UNCHANGED <<engine, held, silent, wanted, reset_failed, noisy, released, exit>>
    BY <1>5 DEF TakeBatch, session, ending, sessionGhosts
  <2> QED
    BY <1>0, <2>1
    DEF SessionCore, SessionTyped, SentIsHeld, TimerIsSilence, HeldStateIsTimed, ReleaseMeansNeutral,
        Releases, ServiceReleases, SilentControllerIsReleased, Running, Stages
<1> QED
  BY <1>1, <1>2, <1>3, <1>4, <1>5

\* A report: the state reaches the output, or the session gives it up.
LEMMA ReportKeeps == ASSUME SessionInv, ProcessReport PROVE SessionCore' /\ Releases'
<1>0. /\ SessionCore /\ Releases /\ stage = "reports" /\ batch # << >> /\ Running
      /\ UNCHANGED <<released, noisy>>
  BY DEF SessionInv, ProcessReport, Running
<1>1. Head(batch) \in Reports /\ engine \in Engine /\ held \in GameStates
  BY <1>0, HeadTailProperties DEF SessionInv, QueuesTyped, SessionCore, SessionTyped
<1>2. PICK o \in process_report(engine, held, Head(batch)) :
         /\ held' = o.held
         /\ \/ /\ o.result = "output_error"
               /\ engine' = o.engine /\ OutputLost
               /\ UNCHANGED <<silent, wanted, reset_failed>>
            \/ /\ o.result = "state"
               /\ \E wheel \in BOOLEAN : engine' = [o.engine EXCEPT !.suppressed = wheel]
               /\ wanted' = Mapped(engine, Head(batch))
               /\ reset_failed' = (reset_failed /\ engine.last_sent = wanted')
               /\ silent' = 0
               /\ UNCHANGED <<stage, exit>>
            \/ /\ o.result \in {"neutralized", "decode_error", "status"}
               /\ Parks(o)
               /\ reset_failed' = (reset_failed /\ o.result # "neutralized")
               /\ UNCHANGED <<silent, stage, exit>>
  BY Zenon DEF ProcessReport
<1>3. \/ Neutralized(o) \/ Refused(engine, held, o) \/ Unmoved(engine, held, o)
      \/ /\ Head(batch) \in GameStates
         /\ Stated(engine, held, Head(batch), o) \/ SendLost(engine, held, Head(batch), o)
  BY <1>1, <1>2, Processed
<1>4. CASE o.result = "output_error" /\ engine' = o.engine /\ OutputLost /\ UNCHANGED <<silent, wanted>>
  <2>1. o.engine \in Engine /\ o.held \in GameStates
    BY <1>1, <1>3, <1>4, GameStateAssumption, MappedIsState
    DEF Neutralized, Refused, Unmoved, Stated, SendLost
  <2> QED
    BY <1>0, <1>2, <1>4, <2>1, EndKeeps DEF OutputLost, SessionCore, SessionTyped
<1>5. CASE /\ o.result = "state"
           /\ \E wheel \in BOOLEAN : engine' = [o.engine EXCEPT !.suppressed = wheel]
           /\ wanted' = Mapped(engine, Head(batch))
           /\ reset_failed' = (reset_failed /\ engine.last_sent = wanted')
           /\ silent' = 0
           /\ UNCHANGED <<stage, exit>>
  <2>1. Head(batch) \in GameStates /\ Stated(engine, held, Head(batch), o)
    BY <1>3, <1>5 DEF Neutralized, Refused, Unmoved, SendLost
  <2>2. PICK wheel \in BOOLEAN : engine' = [o.engine EXCEPT !.suppressed = wheel]
    BY <1>5
  <2>3. o.engine \in Engine /\ o.engine.last_input = 0
    BY <2>1 DEF Stated
  <2>4. engine' \in Engine /\ engine'.last_input = 0 /\ engine'.last_sent = o.engine.last_sent
        /\ engine'.neutralized = o.engine.neutralized
    BY <2>2, <2>3 DEF Engine
  <2>5. wanted' \in GameStates /\ engine'.last_sent = wanted'
    BY <1>1, <1>5, <2>1, <2>4, MappedIsState DEF Stated
  <2>6. held' = IF engine.last_sent = wanted' THEN held ELSE wanted'
    BY <1>2, <1>5, <2>1 DEF Stated
  <2>7. ~reset_failed' => ~reset_failed \/ engine.last_sent # wanted'
    BY <1>5, Zenon
  <2>8. engine'.neutralized = FALSE
    BY <2>1, <2>4 DEF Stated
  <2>9. SessionTyped'
    BY <1>0, <1>1, <1>5, <2>4, <2>5, <2>6, SessionAssumption DEF SessionCore, SessionTyped
  <2>10. SentIsHeld'
    <3>1. CASE engine.last_sent # wanted'
      BY <2>5, <2>6, <3>1 DEF SentIsHeld
    <3>2. CASE engine.last_sent = wanted' /\ ~reset_failed
      <4>1. engine.last_sent \in {NoGameState, held}
        BY <1>0, <3>2 DEF SessionCore, SentIsHeld
      <4>2. held = wanted'
        BY <2>5, <3>2, <4>1, GameStateAssumption
      <4> QED
        BY <2>5, <2>6, <4>2 DEF SentIsHeld
    <3>3. CASE reset_failed'
      BY <3>3 DEF SentIsHeld
    <3> QED
      BY <2>7, <3>1, <3>2, <3>3
  <2>11. TimerIsSilence' /\ HeldStateIsTimed'
    BY <1>5, <2>4, <2>8, EngineAssumption DEF TimerIsSilence, HeldStateIsTimed, Never
  <2>12. ReleaseMeansNeutral' /\ Releases'
    BY <1>0, <1>5 DEF ReleaseMeansNeutral, Releases, ServiceReleases, SilentControllerIsReleased
  <2> QED
    BY <2>9, <2>10, <2>11, <2>12 DEF SessionCore
<1>6. CASE /\ o.result \in {"neutralized", "decode_error", "status"}
           /\ Parks(o)
           /\ reset_failed' = (reset_failed /\ o.result # "neutralized")
           /\ UNCHANGED <<silent, stage, exit>>
  <2>1. Neutralized(o) \/ Unmoved(engine, held, o)
    BY <1>3, <1>6 DEF Refused, Stated, SendLost
  <2>2. ~reset_failed' => ~reset_failed \/ o.result = "neutralized"
    BY <1>6, Zenon
  <2>3. ~reset_failed' => Neutralized(o) \/ (~reset_failed /\ Unmoved(engine, held, o))
    BY <2>1, <2>2 DEF Unmoved
  <2>4. SessionCore'
    BY <1>0, <1>6, <2>1, <2>3, ParksKeeps DEF SessionCore, SessionTyped
  <2>5. Releases'
    BY <1>0, <1>6 DEF Releases, ServiceReleases, SilentControllerIsReleased
  <2> QED
    BY <2>4, <2>5
<1> QED
  BY <1>2, <1>4, <1>5, <1>6

LEMMA QuietKeeps ==
  ASSUME SessionInv, \/ (\E report \in GameStates \cup {Malformed} : Publish(report))
                     \/ EndOfBatch \/ NoShutdown \/ UNCHANGED activeVars
  PROVE  SessionCore' /\ Releases'
<1>0. UNCHANGED <<engine, held, silent, wanted, reset_failed, noisy, released, exit>>
  BY DEF Publish, EndOfBatch, NoShutdown, activeVars, session, ending, sessionGhosts
<1>1. \/ UNCHANGED stage
      \/ stage = "reports" /\ stage' = "service"
      \/ stage = "shutdown" /\ stage' = "timeout"
  BY DEF Publish, EndOfBatch, NoShutdown, activeVars
<1> QED
  BY <1>0, <1>1
  DEF SessionInv, SessionCore, SessionTyped, SentIsHeld, TimerIsSilence, HeldStateIsTimed, ReleaseMeansNeutral,
      Releases, ServiceReleases, SilentControllerIsReleased, Running, Stages

LEMMA SourceLost ==
  ASSUME SessionInv, ReportsDisconnect \/ SlotTimesOut PROVE SessionCore' /\ Releases'
<1>0. SessionCore
  BY DEF SessionInv
<1>1. PICK o \in force_neutral(engine, held) : Parks(o)
  BY Zenon DEF ReportsDisconnect, SlotTimesOut, LoseSource
<1>2. stage' = "teardown" /\ silent' = silent
  BY DEF ReportsDisconnect, SlotTimesOut, LoseSource
<1>3. engine' \in Engine /\ held' \in GameStates /\ wanted' \in GameStates
  BY <1>0, <1>1, ForcedHere, ParksTyped
<1> QED
  BY <1>0, <1>2, <1>3, EndKeeps

\* The tick that finds the timer run out parks the output; a state that is
\* still held is younger than the input timeout.
LEMMA ServiceKeeps == ASSUME SessionInv, ServiceOutput PROVE SessionCore' /\ Releases'
<1>0. /\ SessionCore /\ Releases /\ stage = "service" /\ Running /\ silent' = silent /\ released' = released
      /\ engine \in Engine /\ held \in GameStates
  BY DEF SessionInv, SessionCore, SessionTyped, ServiceOutput, Running
<1>1. PICK o \in IF should_tick_input_timeout THEN tick(engine, held) ELSE service(engine, held) :
        /\ Parks(o)
        /\ IF o.result = "output_error" THEN OutputLost ELSE stage' = "shutdown" /\ UNCHANGED exit
        /\ reset_failed' = (reset_failed /\ o.result # "neutralized")
  BY Zenon DEF ServiceOutput
<1>2. \/ Neutralized(o) \/ Refused(engine, held, o)
      \/ Unmoved(engine, held, o) /\ (should_tick_input_timeout => engine.neutralized \/ engine.last_input # InputTimeout)
  <2>1. CASE should_tick_input_timeout
    BY <1>0, <1>1, <2>1, Ticked
  <2>2. CASE ~should_tick_input_timeout
    BY <1>0, <1>1, <2>2, Serviced
  <2> QED
    BY <2>1, <2>2
<1>3. CASE Refused(engine, held, o)
  <2>1. stage' = "teardown"
    BY <1>1, <1>3, OutcomesDiffer DEF OutputLost
  <2>2. engine' \in Engine /\ held' \in GameStates /\ wanted' \in GameStates
    BY <1>0, <1>1, <1>3, ParksTyped
  <2> QED
    BY <1>0, <2>1, <2>2, EndKeeps
<1>4. CASE /\ ~Refused(engine, held, o)
           /\ \/ Neutralized(o)
              \/ /\ Unmoved(engine, held, o)
                 /\ should_tick_input_timeout => engine.neutralized \/ engine.last_input # InputTimeout
  <2>1. stage' = "shutdown" /\ stage' \in Stages
    BY <1>1, <1>4, OutcomesDiffer DEF Stages
  <2>2. ~reset_failed' => ~reset_failed \/ o.result = "neutralized"
    BY <1>1, Zenon
  <2>3. ~reset_failed' => Neutralized(o) \/ (~reset_failed /\ Unmoved(engine, held, o))
    BY <1>4, <2>2 DEF Unmoved
  <2>4. SessionCore'
    BY <1>0, <1>1, <1>4, <2>1, <2>3, ParksKeeps
  <2>5. held' # NeutralState => silent < InputTimeout \/ noisy'
    <3>1. CASE Neutralized(o)
      BY <1>1, <3>1 DEF Parks, Neutralized
    <3>2. CASE ~should_tick_input_timeout
      <4>1. noisy' = TRUE
        BY <3>2, Zenon DEF ServiceOutput
      <4> QED
        BY <4>1
    <3>3. CASE Unmoved(engine, held, o) /\ (engine.neutralized \/ engine.last_input # InputTimeout)
      <4>1. held' = held
        BY <1>1, <3>3, Zenon DEF Parks, Unmoved
      <4>2. SUFFICES ASSUME held # NeutralState PROVE silent < InputTimeout
        BY <4>1
      <4>3. ~engine.neutralized /\ engine.last_input # Never
        BY <1>0, <4>2 DEF SessionCore, HeldStateIsTimed
      <4>4. engine.last_input = IF silent < InputTimeout THEN silent ELSE InputTimeout
        BY <1>0, <4>3 DEF SessionCore, TimerIsSilence
      <4> QED
        BY <3>3, <4>3, <4>4
    <3> QED
      BY <1>4, <3>1, <3>2, <3>3
  <2>6. Releases'
    BY <1>0, <2>1, <2>5 DEF Releases, ServiceReleases, SilentControllerIsReleased
  <2> QED
    BY <2>4, <2>6
<1> QED
  BY <1>2, <1>3, <1>4

LEMMA ShutdownKeeps == ASSUME SessionInv, AutomaticShutdown PROVE SessionCore' /\ Releases'
<1>0. /\ SessionCore /\ Releases /\ stage = "shutdown" /\ Running /\ UNCHANGED <<silent, released, noisy>>
  BY DEF SessionInv, AutomaticShutdown, Running
<1>1. PICK o \in force_neutral(engine, held) :
       /\ Parks(o)
       /\ reset_failed' = (reset_failed /\ o.result # "neutralized")
       /\ stage' = "teardown" \/ (o.result # "output_error" /\ stage' = "timeout")
  BY Zenon DEF AutomaticShutdown, OutputLost
<1>2. Neutralized(o) \/ Refused(engine, held, o)
  BY <1>0, <1>1, ForcedHere
<1>3. CASE stage' = "teardown"
  <2>1. engine' \in Engine /\ held' \in GameStates /\ wanted' \in GameStates
    BY <1>0, <1>1, <1>2, ParksTyped
  <2> QED
    BY <1>0, <1>3, <2>1, EndKeeps
<1>4. CASE o.result # "output_error" /\ stage' = "timeout"
  <2>1. Neutralized(o) /\ stage' \in Stages
    BY <1>2, <1>4, OutcomesDiffer DEF Stages
  <2>2. SessionCore'
    BY <1>0, <1>1, <1>4, <2>1, ParksKeeps
  <2>3. held' = NeutralState
    BY <1>1, <2>1 DEF Parks, Neutralized
  <2> QED
    BY <1>4, <2>2, <2>3 DEF Releases, ServiceReleases, SilentControllerIsReleased
<1> QED
  BY <1>1, <1>3, <1>4

LEMMA IterationKeeps == ASSUME SessionInv, NextIteration PROVE SessionCore' /\ Releases'
<1>0. /\ SessionCore /\ Releases /\ stage = "timeout" /\ stage' = "commands" /\ silent < SlotTimeout
      /\ UNCHANGED <<held, wanted, reset_failed, noisy, released, exit>>
  BY DEF SessionInv, NextIteration, ending, sessionGhosts
<1>1. engine \in Engine /\ silent \in 0 .. SlotTimeout
  BY <1>0 DEF SessionCore, SessionTyped
<1>2. CASE UNCHANGED <<silent, engine>>
  <2>1. SessionTyped' /\ SentIsHeld' /\ TimerIsSilence' /\ HeldStateIsTimed' /\ ReleaseMeansNeutral'
    BY <1>0, <1>2
    DEF SessionCore, SessionTyped, SentIsHeld, TimerIsSilence, HeldStateIsTimed, ReleaseMeansNeutral, Running, Stages
  <2>2. Releases'
    BY <1>0, <1>1, <1>2, EngineAssumption DEF Releases, ServiceReleases, SilentControllerIsReleased
  <2> QED
    BY <2>1, <2>2 DEF SessionCore
<1>3. CASE /\ silent' = silent + 1
           /\ engine' = [engine EXCEPT !.last_input = IF @ \in {Never, InputTimeout} THEN @ ELSE @ + 1]
  <2> DEFINE older == IF engine.last_input \in {Never, InputTimeout} THEN engine.last_input
                      ELSE engine.last_input + 1
  <2>1. older \in Never .. InputTimeout
    BY <1>1, EngineAssumption DEF Engine, Never
  <2>2. engine' = [engine EXCEPT !.last_input = older]
    BY <1>3
  <2>3. silent' \in 0 .. SlotTimeout
    BY <1>0, <1>1, <1>3, SessionAssumption
  <2>4. engine.last_input # Never => engine.last_input = IF silent < InputTimeout THEN silent ELSE InputTimeout
    BY <1>0 DEF SessionCore, TimerIsSilence, Running
  <2>5. /\ older # Never <=> engine.last_input # Never
        /\ older # Never => older = IF silent' < InputTimeout THEN silent' ELSE InputTimeout
    BY <1>1, <1>3, <2>4, EngineAssumption DEF Engine, Never
  <2> HIDE DEF older
  <2>6. /\ engine' \in Engine /\ engine'.last_input = older /\ engine'.last_sent = engine.last_sent
        /\ engine'.neutralized = engine.neutralized
    BY <1>1, <2>1, <2>2 DEF Engine
  <2>7. SessionTyped' /\ SentIsHeld' /\ TimerIsSilence' /\ HeldStateIsTimed' /\ ReleaseMeansNeutral'
    BY <1>0, <2>3, <2>5, <2>6
    DEF SessionCore, SessionTyped, SentIsHeld, TimerIsSilence, HeldStateIsTimed, ReleaseMeansNeutral, Running, Stages
  <2>8. held' # NeutralState => silent' <= InputTimeout \/ noisy'
    BY <1>0, <1>1, <1>3, EngineAssumption DEF Releases, ServiceReleases
  <2>9. Releases'
    BY <1>0, <2>8 DEF Releases, ServiceReleases, SilentControllerIsReleased
  <2> QED
    BY <2>7, <2>9 DEF SessionCore
<1> QED
  BY <1>2, <1>3 DEF NextIteration

LEMMA TeardownKeeps == ASSUME SessionInv, Teardown PROVE SessionCore' /\ Releases'
<1>0. SessionCore /\ stage' = "over" /\ silent' = silent /\ exit' = exit
  BY DEF SessionInv, Teardown
<1>1. PICK o \in force_neutral(engine, held) :
        /\ Parks(o)
        /\ \/ released' = "error"
           \/ exit = "output_lost" \/ o.result = "neutralized"
  BY Zenon DEF Teardown
<1>2. Neutralized(o) \/ Refused(engine, held, o)
  BY <1>0, <1>1, ForcedHere
<1>3. engine' \in Engine /\ held' \in GameStates /\ wanted' \in GameStates
  BY <1>0, <1>1, <1>2, ParksTyped
<1>4. o.result = "neutralized" => held' = NeutralState
  BY <1>1, <1>2, OutcomesDiffer DEF Parks, Neutralized
<1> QED
  BY <1>0, <1>1, <1>3, <1>4, EndKeeps

LEMMA NewEngineIsTyped ==
  /\ NewEngine \in Engine /\ NewEngine.last_input = Never /\ NewEngine.last_sent = NoGameState
<1>1. /\ Never \in Never .. InputTimeout /\ NoGameState \in GameStates \cup {NoGameState}
      /\ 0 \in 0 .. DecodeFailureLimit /\ TRUE \in BOOLEAN /\ FALSE \in BOOLEAN
  BY EngineAssumption DEF Never
<1>2. NewEngine \in Engine
  BY <1>1, Zenon DEF NewEngine, Engine
<1>3. NewEngine.last_input = Never /\ NewEngine.last_sent = NoGameState
  BY Zenon DEF NewEngine
<1> QED
  BY <1>2, <1>3

LEMMA StartKeeps == ASSUME SessionInv, StartSession PROVE SessionCore' /\ Releases'
<1>0. /\ SessionCore /\ stage = "over" /\ engine' = NewEngine /\ stage' = "commands" /\ silent' = 0
      /\ wanted' = NeutralState /\ released' = "none"
  BY DEF SessionInv, StartSession
<1>1. held' = NeutralState
  BY <1>0 DEF StartSession, Kept, SessionCore, ReleaseMeansNeutral
<1> QED
  BY <1>0, <1>1, NewEngineIsTyped, GameStateAssumption, SessionAssumption, EngineAssumption
  DEF SessionCore, SessionTyped, SentIsHeld, TimerIsSilence, HeldStateIsTimed, ReleaseMeansNeutral,
      Releases, ServiceReleases, SilentControllerIsReleased, Stages

LEMMA QueuesKeep == QueuesTyped /\ [ActiveNext]_activeVars => QueuesTyped'
<1> SUFFICES ASSUME QueuesTyped, [ActiveNext]_activeVars PROVE QueuesTyped'
  OBVIOUS
<1>1. ASSUME NEW report \in GameStates \cup {Malformed}, Publish(report) PROVE QueuesTyped'
  <2>0. report \in Reports /\ batch' = batch /\ Len(mailbox) \in Nat
    BY <1>1, LenProperties DEF Reports, Publish, QueuesTyped
  <2>1. CASE mailbox' = Append(mailbox, report)
    BY <2>0, <2>1, AppendProperties DEF QueuesTyped
  <2>2. CASE mailbox' = Append(Front(mailbox), report) /\ Len(mailbox) >= 2
    <3>1. \A i \in 1 .. Len(mailbox) - 1 : mailbox[i] \in Reports
      BY <2>0, ElementOfSeq DEF QueuesTyped
    <3>2. Front(mailbox) \in Seq(Reports)
      BY <2>0, <3>1, SubSeqProperties DEF Front
    <3> QED
      BY <2>0, <2>2, <3>2, AppendProperties DEF QueuesTyped
  <2>3. CASE mailbox' = <<report>>
    BY <2>0, <2>3 DEF QueuesTyped
  <2> QED
    BY <1>1, <2>1, <2>2, <2>3 DEF Publish
<1>2. CASE TakeBatch
  <2>1. PICK direct \in {<< >>, <<Status>>} : batch' = direct \o mailbox /\ mailbox' = << >>
    BY <1>2 DEF TakeBatch
  <2>2. Status \in Reports
    BY DEF Reports
  <2>3. << >> \in Seq(Reports) /\ Append(<< >>, Status) \in Seq(Reports)
    BY <2>2, EmptySeq, AppendProperties
  <2>4. Append(<< >>, Status) = <<Status>>
    OBVIOUS
  <2>5. direct \in Seq(Reports)
    BY <2>1, <2>3, <2>4
  <2> QED
    BY <2>1, <2>5, ConcatProperties, EmptySeq DEF QueuesTyped
<1>3. CASE ProcessReport
  BY <1>3, HeadTailProperties DEF ProcessReport, QueuesTyped
<1>4. CASE WorkerFails \/ ReportsDisconnect \/ AutomaticShutdown \/ StartSession
  <2>1. mailbox' \in {mailbox, << >>} /\ batch' \in {batch, << >>}
    BY <1>4, Zenon DEF WorkerFails, ReportsDisconnect, AutomaticShutdown, StartSession, OutputLost
  <2> QED
    BY <2>1, EmptySeq DEF QueuesTyped
<1>5. CASE \/ NeutralizeBeforeDesktopWork \/ SetOutputSuppression \/ Stop \/ ControllerDisconnects \/ EndOfBatch
           \/ ServiceOutput \/ NoShutdown \/ SlotTimesOut \/ NextIteration \/ Teardown \/ UNCHANGED activeVars
  <2>1. UNCHANGED <<mailbox, batch>>
    BY <1>5, Zenon DEF NeutralizeBeforeDesktopWork, SetOutputSuppression, Stop, ControllerDisconnects, EndOfBatch,
       ServiceOutput, NoShutdown, SlotTimesOut, NextIteration, Teardown, activeVars, reports
  <2> QED
    BY <2>1 DEF QueuesTyped
<1> QED
  BY <1>1, <1>2, <1>3, <1>4, <1>5 DEF ActiveNext

LEMMA SessionStarts == ActiveInit => SessionInv
<1> SUFFICES ASSUME StartState PROVE SessionInv
  BY DEF ActiveInit
<1>0. /\ engine = NewEngine /\ held = NeutralState /\ mailbox = << >> /\ batch = << >>
      /\ stage = "commands" /\ silent = 0 /\ wanted = NeutralState
  BY DEF StartState
<1>1. QueuesTyped
  BY <1>0, EmptySeq DEF QueuesTyped
<1> QED
  BY <1>0, <1>1, NewEngineIsTyped, GameStateAssumption, SessionAssumption, EngineAssumption
  DEF SessionInv, SessionCore, SessionTyped, SentIsHeld, TimerIsSilence, HeldStateIsTimed, ReleaseMeansNeutral,
      Releases, ServiceReleases, SilentControllerIsReleased, Stages

LEMMA SessionKeeps == SessionInv /\ [ActiveNext]_activeVars => SessionInv'
<1> SUFFICES ASSUME SessionInv, [ActiveNext]_activeVars PROVE SessionCore' /\ Releases'
  BY QueuesKeep DEF SessionInv
<1> QED
  BY QuietKeeps, NeutralizeKeeps, CommandKeeps, ReportKeeps, SourceLost, ServiceKeeps, ShutdownKeeps,
     IterationKeeps, TeardownKeeps, StartKeeps DEF ActiveNext

\* The dedupe never leaves the game with an old state: for every set of states,
\* timeouts, mailbox and way the output may fail, a running session's output
\* holds what was last asked of it, but for a reset that failed unnoticed.
THEOREM GameSees == ActiveSpec => []GameSeesTheController
<1>1. SessionInv => GameSeesTheController
  BY DEF SessionInv, SessionCore, SentIsHeld, GameSeesTheController
<1> QED
  BY <1>1, SessionStarts, SessionKeeps, PTL DEF ActiveSpec

\* Nothing stays held that the controller does not hold any more: a state is
\* timed, outlives no timeout, and no session that reports success.
THEOREM NothingStays == ActiveSpec => []NothingStaysHeld
<1>1. SessionInv => NothingStaysHeld
  BY DEF SessionInv, SessionCore, Releases, NothingStaysHeld
<1> QED
  BY <1>1, SessionStarts, SessionKeeps, PTL DEF ActiveSpec

-----------------------------------------------------------------------------
(* StreamDecoder: what discard_prefix leaves.                              *)

LEMMA DiscardFacts ==
  ASSUME NEW M, NEW b \in Seq(M), NEW n \in 0 .. Len(b)
  PROVE  /\ discard_prefix(b, n) \in Seq(M) /\ Len(discard_prefix(b, n)) = Len(b) - n
         /\ \A i \in 1 .. Len(b) - n : discard_prefix(b, n)[i] = b[n + i]
<1> DEFINE last == Len(b)
           from == n + 1
           d == SubSeq(b, from, last)
<1>1. Len(b) \in Nat /\ DOMAIN b = 1 .. Len(b)
  BY LenProperties
<1>2. last \in 0 .. Len(b) /\ from \in 1 .. Len(b) + 1 /\ last \in Nat /\ n \in Nat /\ n <= last
  BY <1>1
<1>3. \A i \in from .. last : b[i] \in M
  BY <1>1, <1>2, ElementOfSeq
<1> HIDE DEF last, from, d
<1>4. /\ SubSeq(b, from, last) \in Seq(M)
      /\ Len(SubSeq(b, from, last)) = IF from <= last THEN last - from + 1 ELSE 0
      /\ \A i \in 1 .. last - from + 1 : SubSeq(b, from, last)[i] = b[from + i - 1]
  BY <1>2, <1>3, SubSeqProperties
<1>5. from = n + 1 /\ last = Len(b) /\ discard_prefix(b, n) = SubSeq(b, from, last)
  BY DEF from, last, discard_prefix
<1>6. Len(SubSeq(b, from, last)) = last - n
  BY <1>2, <1>4, <1>5
<1>7. ASSUME NEW i \in 1 .. last - n PROVE SubSeq(b, from, last)[i] = b[n + i]
  <2>1. i \in 1 .. last - from + 1 /\ from + i - 1 = n + i
    BY <1>2, <1>5
  <2> QED
    BY <1>4, <2>1
<1> QED
  BY <1>4, <1>5, <1>6, <1>7

\* Two sequences are equal that have the same elements.
LEMMA DiscardNothing ==
  ASSUME NEW M, NEW b \in Seq(M) PROVE discard_prefix(b, 0) = b
<1> DEFINE d == discard_prefix(b, 0)
<1>0. Len(b) \in Nat /\ 0 \in 0 .. Len(b)
  BY LenProperties
<1>1. d \in Seq(M) /\ Len(d) = Len(b) - 0 /\ \A i \in 1 .. Len(b) - 0 : d[i] = b[0 + i]
  BY <1>0, DiscardFacts
<1> HIDE DEF d
<1>2. Len(d) = Len(b) /\ \A i \in 1 .. Len(d) : d[i] = b[i]
  BY <1>0, <1>1
<1> QED
  BY <1>1, <1>2, SeqEqual DEF d

LEMMA DiscardTwice ==
  ASSUME NEW M, NEW b \in Seq(M), NEW n \in Nat, NEW k \in Nat, NEW m \in Nat, m = n + k, m <= Len(b)
  PROVE  discard_prefix(discard_prefix(b, n), k) = discard_prefix(b, m)
<1> DEFINE d == discard_prefix(b, n)
           e == discard_prefix(d, k)
           f == discard_prefix(b, m)
           l == Len(b)
<1>0. l \in Nat /\ n \in 0 .. l /\ m \in 0 .. l
  BY LenProperties
<1>1. d \in Seq(M) /\ Len(d) = l - n /\ \A i \in 1 .. l - n : d[i] = b[n + i]
  BY <1>0, DiscardFacts
<1>2. f \in Seq(M) /\ Len(f) = l - m /\ \A i \in 1 .. l - m : f[i] = b[m + i]
  BY <1>0, DiscardFacts
<1> HIDE DEF d, f, l
<1>3. k \in 0 .. Len(d)
  BY <1>0, <1>1
<1>4. e \in Seq(M) /\ Len(e) = Len(d) - k /\ \A i \in 1 .. Len(d) - k : e[i] = d[k + i]
  BY <1>1, <1>3, DiscardFacts
<1> HIDE DEF e
<1>5. Len(e) = Len(f)
  BY <1>0, <1>1, <1>2, <1>4
<1>6. ASSUME NEW i \in 1 .. Len(e) PROVE e[i] = f[i]
  <2>1. /\ i \in 1 .. Len(d) - k /\ k + i \in 1 .. l - n /\ i \in 1 .. l - m
        /\ n + (k + i) = m + i
    BY <1>0, <1>1, <1>4
  <2>2. e[i] = d[k + i] /\ d[k + i] = b[n + (k + i)] /\ f[i] = b[m + i]
    BY <1>1, <1>2, <1>4, <2>1
  <2> QED
    BY <2>1, <2>2
<1> QED
  BY <1>2, <1>4, <1>5, <1>6, SeqEqual DEF d, e, f

\* What a longer buffer has.
LEMMA LongerFacts ==
  ASSUME NEW M, NEW b \in Seq(M), NEW x \in Seq(M)
  PROVE  /\ b \o x \in Seq(M) /\ Len(b \o x) = Len(b) + Len(x) /\ Len(b) \in Nat /\ Len(x) \in Nat
         /\ \A i \in 1 .. Len(b) : (b \o x)[i] = b[i]
         /\ \A i \in 1 .. Len(x) : (b \o x)[Len(b) + i] = x[i]
<1>1. Len(b) \in Nat /\ Len(x) \in Nat
  BY LenProperties
<1>2. /\ b \o x \in Seq(M) /\ Len(b \o x) = Len(b) + Len(x)
      /\ \A i \in 1 .. Len(b) + Len(x) : (b \o x)[i] = IF i <= Len(b) THEN b[i] ELSE x[i - Len(b)]
  BY ConcatProperties
<1> DEFINE c == b \o x
           l == Len(b)
           k == Len(x)
<1> HIDE DEF c, l, k
<1>3. l \in Nat /\ k \in Nat /\ \A i \in 1 .. l + k : c[i] = IF i <= l THEN b[i] ELSE x[i - l]
  BY <1>1, <1>2 DEF c, l, k
<1>4. ASSUME NEW i \in 1 .. l PROVE c[i] = b[i]
  <2>1. i \in 1 .. l + k /\ i <= l
    BY <1>3
  <2> QED
    BY <1>3, <2>1
<1>5. ASSUME NEW i \in 1 .. k PROVE c[l + i] = x[i]
  <2> DEFINE j == l + i
  <2>1. j \in 1 .. l + k /\ ~(j <= l) /\ j - l = i
    BY <1>3
  <2> HIDE DEF j
  <2>2. c[j] = x[j - l]
    BY <1>3, <2>1
  <2> QED
    BY <2>1, <2>2 DEF j
<1> QED
  BY <1>1, <1>2, <1>4, <1>5 DEF c, l, k

LEMMA DiscardOfLonger ==
  ASSUME NEW M, NEW b \in Seq(M), NEW x \in Seq(M), NEW n \in 0 .. Len(b)
  PROVE  discard_prefix(b \o x, n) = discard_prefix(b, n) \o x
<1> DEFINE c == b \o x
           d == discard_prefix(b, n)
           e == discard_prefix(c, n)
           f == d \o x
           l == Len(b)
           k == Len(x)
<1>1. /\ c \in Seq(M) /\ Len(c) = l + k /\ l \in Nat /\ k \in Nat
      /\ \A i \in 1 .. l : c[i] = b[i]
      /\ \A i \in 1 .. k : c[l + i] = x[i]
  BY LongerFacts
<1>2. d \in Seq(M) /\ Len(d) = l - n /\ \A i \in 1 .. l - n : d[i] = b[n + i]
  BY DiscardFacts
<1> HIDE DEF c
<1>3. n \in 0 .. Len(c)
  BY <1>1
<1>4. e \in Seq(M) /\ Len(e) = Len(c) - n /\ \A i \in 1 .. Len(c) - n : e[i] = c[n + i]
  BY <1>1, <1>3, DiscardFacts
<1> HIDE DEF d, e
<1>9. d \in Seq(M)
  BY <1>2
<1>5. /\ f \in Seq(M) /\ Len(f) = Len(d) + k
      /\ \A i \in 1 .. Len(d) : f[i] = d[i]
      /\ \A i \in 1 .. k : f[Len(d) + i] = x[i]
  BY <1>9, LongerFacts
<1> HIDE DEF f
<1>6. n \in Nat /\ n <= l
  BY <1>1
<1> HIDE DEF l, k
<1>7. Len(e) = Len(f)
  BY <1>1, <1>2, <1>4, <1>5, <1>6
<1>8. ASSUME NEW i \in 1 .. Len(e) PROVE e[i] = f[i]
  <2>1. i \in 1 .. l + k - n /\ i \in Int
    BY <1>1, <1>4
  <2>2. e[i] = c[n + i]
    BY <1>1, <1>4, <2>1
  <2>3. CASE i <= l - n
    <3>1. i \in 1 .. l - n /\ n + i \in 1 .. l /\ i \in 1 .. Len(d)
      BY <1>1, <1>2, <1>6, <2>1, <2>3
    <3> QED
      BY <1>1, <1>2, <1>5, <2>2, <3>1
  <2>4. CASE ~(i <= l - n)
    <3> DEFINE j == i - (l - n)
    <3>1. j \in 1 .. k /\ n + i = l + j /\ i = Len(d) + j
      BY <1>1, <1>2, <1>6, <2>1, <2>4
    <3> HIDE DEF j
    <3> QED
      BY <1>1, <1>5, <2>2, <3>1
  <2> QED
    BY <2>3, <2>4
<1> QED
  BY <1>4, <1>5, <1>7, <1>8, SeqEqual DEF c, d, e, f

-----------------------------------------------------------------------------
(* StreamDecoder: where the first magic is, and what is aligned to it.     *)

LEMMA GarbageFacts ==
  ASSUME NEW b \in Seq(Bytes)
  PROVE  /\ Garbage(b) \in 0 .. Len(b) /\ \A i \in 1 .. Garbage(b) : ~MagicAt(b, i)
         /\ Garbage(b) < Len(b) => MagicAt(b, Garbage(b) + 1)
<1> DEFINE l == Len(b)
           T == {i \in 1 .. l : MagicAt(b, i)} \cup {l + 1}
           first == Min(T)
<1>1. l \in Nat
  BY LenProperties
<1>2. T \subseteq Nat /\ T # {}
  BY <1>1
<1> HIDE DEF l
<1>3. T \subseteq 1 .. l + 1 /\ \A i \in 1 .. l : i \in T <=> MagicAt(b, i)
  BY <1>1
<1> HIDE DEF T
<1>4. first \in T /\ \A n \in T : first <= n
  BY <1>2, LeastNumber
<1>5. Garbage(b) = first - 1
  BY DEF Garbage, first, T, l
<1> HIDE DEF first
<1>6. first \in 1 .. l + 1
  BY <1>3, <1>4
<1>7. ASSUME NEW i \in 1 .. first - 1 PROVE ~MagicAt(b, i)
  <2>1. i \in 1 .. l /\ ~(first <= i)
    BY <1>1, <1>6
  <2> QED
    BY <1>3, <1>4, <2>1
<1>8. ASSUME first - 1 < l PROVE MagicAt(b, first)
  BY <1>1, <1>3, <1>4, <1>6, <1>8
<1>9. first - 1 \in 0 .. l /\ first - 1 + 1 = first
  BY <1>1, <1>6
<1> QED
  BY <1>5, <1>7, <1>8, <1>9 DEF l

LEMMA GarbageIs ==
  ASSUME NEW b \in Seq(Bytes), NEW g \in 0 .. Len(b), \A i \in 1 .. g : ~MagicAt(b, i),
         g < Len(b) => MagicAt(b, g + 1)
  PROVE  Garbage(b) = g
<1> DEFINE h == Garbage(b)
           l == Len(b)
<1>1. l \in Nat
  BY LenProperties
<1>2. h \in 0 .. l /\ (\A i \in 1 .. h : ~MagicAt(b, i)) /\ (h < l => MagicAt(b, h + 1))
  BY GarbageFacts
<1> HIDE DEF h
<1>3. ~(g < h)
  <2>1. SUFFICES ASSUME g < h PROVE FALSE
    OBVIOUS
  <2>2. g + 1 \in 1 .. h /\ g < l
    BY <1>1, <1>2, <2>1
  <2> QED
    BY <1>2, <2>2
<1>4. ~(h < g)
  <2>1. SUFFICES ASSUME h < g PROVE FALSE
    OBVIOUS
  <2>2. h + 1 \in 1 .. g /\ h < l
    BY <1>1, <1>2, <2>1
  <2> QED
    BY <1>2, <2>2
<1> QED
  BY <1>1, <1>2, <1>3, <1>4 DEF h

LEMMA MagicInRest ==
  ASSUME NEW b \in Seq(Bytes), NEW n \in 0 .. Len(b), NEW i \in 1 .. Len(b) - n
  PROVE  MagicAt(discard_prefix(b, n), i) <=> MagicAt(b, n + i)
<1> DEFINE d == discard_prefix(b, n)
           l == Len(b)
           k == i + 1
           j == n + i
<1>1. l \in Nat
  BY LenProperties
<1>2. Len(d) = l - n /\ \A m \in 1 .. l - n : d[m] = b[n + m]
  BY DiscardFacts
<1> HIDE DEF d, l
<1>3. j \in 1 .. l /\ i \in 1 .. l - n /\ (i < l - n <=> j < l) /\ j + 1 = n + k
  BY <1>1 DEF l
<1>4. d[i] = b[j]
  BY <1>2, <1>3
<1>5. i < l - n => d[k] = b[j + 1]
  <2>1. i < l - n => k \in 1 .. l - n
    BY <1>1, <1>3
  <2> QED
    BY <1>2, <1>3, <2>1
<1> HIDE DEF j
<1> QED
  BY <1>2, <1>3, <1>4, <1>5 DEF MagicAt, l, j, d

LEMMA AlignedPart ==
  ASSUME NEW b \in Seq(Bytes), NEW n \in 0 .. Garbage(b)
  PROVE  /\ Garbage(discard_prefix(b, n)) = Garbage(b) - n
         /\ Aligned(discard_prefix(b, n)) = Aligned(b)
<1> DEFINE d == discard_prefix(b, n)
           l == Len(b)
           h == Garbage(b)
           g == h - n
<1>1. l \in Nat
  BY LenProperties
<1>2. h \in 0 .. l /\ (\A i \in 1 .. h : ~MagicAt(b, i)) /\ (h < l => MagicAt(b, h + 1))
  BY GarbageFacts
<1> HIDE DEF h
<1>3. n \in Nat /\ n <= h /\ g \in Nat /\ h = n + g /\ n \in 0 .. Len(b) /\ h <= Len(b)
  BY <1>1, <1>2 DEF h
<1>4. d \in Seq(Bytes) /\ Len(d) = l - n
  BY <1>3, DiscardFacts
<1>5. \A i \in 1 .. l - n : MagicAt(d, i) <=> MagicAt(b, n + i)
  BY <1>3, MagicInRest
<1> HIDE DEF d, l
<1>6. ASSUME NEW i \in 1 .. g PROVE ~MagicAt(d, i)
  <2>1. i \in 1 .. l - n /\ n + i \in 1 .. h
    BY <1>1, <1>2, <1>3
  <2> QED
    BY <1>2, <1>5, <2>1
<1>7. ASSUME g < Len(d) PROVE MagicAt(d, g + 1)
  <2>1. g + 1 \in 1 .. l - n /\ n + (g + 1) = h + 1 /\ h < l
    BY <1>1, <1>2, <1>3, <1>4, <1>7
  <2> QED
    BY <1>2, <1>5, <2>1
<1>8. g \in 0 .. Len(d)
  BY <1>1, <1>2, <1>3, <1>4
<1>9. Garbage(d) = g
  BY <1>4, <1>6, <1>7, <1>8, GarbageIs
<1> HIDE DEF g
<1>10. discard_prefix(d, g) = discard_prefix(b, h)
  BY <1>3, DiscardTwice DEF d
<1> QED
  BY <1>9, <1>10 DEF Aligned, d, g, h

LEMMA GarbageGrows ==
  ASSUME NEW b \in Seq(Bytes), NEW x \in Seq(Bytes)
  PROVE  Garbage(b) \in 0 .. Garbage(b \o x)
<1> DEFINE c == b \o x
           l == Len(b)
           g == Garbage(b)
           h == Garbage(c)
<1>1. /\ c \in Seq(Bytes) /\ Len(c) = l + Len(x) /\ l \in Nat /\ Len(x) \in Nat
      /\ \A i \in 1 .. l : c[i] = b[i]
  BY LongerFacts
<1>2. g \in 0 .. l /\ \A i \in 1 .. g : ~MagicAt(b, i)
  BY GarbageFacts
<1> HIDE DEF c, g, l
<1>3. h \in 0 .. Len(c) /\ (h < Len(c) => MagicAt(c, h + 1))
  BY <1>1, GarbageFacts
<1> HIDE DEF h
<1>4. ASSUME h < g PROVE FALSE
  <2> DEFINE i == h + 1
  <2>1. i \in 1 .. g /\ i \in 1 .. l /\ h < Len(c) /\ i < Len(c) + 1
    BY <1>1, <1>2, <1>3, <1>4
  <2>2. MagicAt(c, i)
    BY <1>3, <2>1
  <2> HIDE DEF i
  <2>3. i < l => i + 1 \in 1 .. l /\ i < Len(c)
    BY <1>1, <2>1
  <2>4. c[i] = b[i] /\ (i < l => c[i + 1] = b[i + 1])
    BY <1>1, <2>1, <2>3
  <2>5. MagicAt(b, i)
    BY <2>2, <2>3, <2>4 DEF MagicAt, l
  <2> QED
    BY <1>2, <2>1, <2>5
<1> QED
  BY <1>1, <1>2, <1>3, <1>4 DEF g, h, c

LEMMA AlignedFacts ==
  ASSUME NEW b \in Seq(Bytes)
  PROVE  /\ Aligned(b) \in Seq(Bytes) /\ Garbage(Aligned(b)) = 0 /\ Aligned(Aligned(b)) = Aligned(b)
         /\ Len(Aligned(b)) = Len(b) - Garbage(b) /\ Len(Aligned(b)) <= Len(b)
<1> DEFINE g == Garbage(b)
<1>1. g \in 0 .. Len(b) /\ Len(b) \in Nat
  BY GarbageFacts, LenProperties
<1>2. g \in 0 .. Garbage(b)
  BY <1>1
<1>3. Aligned(b) \in Seq(Bytes) /\ Len(Aligned(b)) = Len(b) - g
  BY <1>1, DiscardFacts DEF Aligned
<1>4. Garbage(discard_prefix(b, g)) = Garbage(b) - g /\ Aligned(discard_prefix(b, g)) = Aligned(b)
  BY <1>2, AlignedPart
<1>5. Garbage(b) - g = 0
  BY <1>1
<1> QED
  BY <1>1, <1>3, <1>4, <1>5 DEF Aligned

\* What follows is aligned in the same way, whether the garbage before it was
\* discarded already.
LEMMA AlignsAgain ==
  ASSUME NEW b \in Seq(Bytes), NEW x \in Seq(Bytes)
  PROVE  Aligned(Aligned(b) \o x) = Aligned(b \o x)
<1> DEFINE c == b \o x
           g == Garbage(b)
<1>1. g \in 0 .. Len(b)
  BY GarbageFacts
<1>2. discard_prefix(c, g) = discard_prefix(b, g) \o x
  BY <1>1, DiscardOfLonger
<1>3. c \in Seq(Bytes) /\ g \in 0 .. Garbage(c)
  BY LongerFacts, GarbageGrows
<1> HIDE DEF c, g
<1>4. Aligned(discard_prefix(c, g)) = Aligned(c)
  BY <1>3, AlignedPart
<1> QED
  BY <1>2, <1>4 DEF Aligned, c, g

LEMMA StaysAligned ==
  ASSUME NEW b \in Seq(Bytes), NEW x \in Seq(Bytes), Garbage(b) = 0, Len(b) >= 2
  PROVE  Aligned(b \o x) = b \o x
<1> DEFINE c == b \o x
           zero == 0
<1>1. /\ c \in Seq(Bytes) /\ Len(c) = Len(b) + Len(x) /\ Len(b) \in Nat /\ Len(x) \in Nat
      /\ \A i \in 1 .. Len(b) : c[i] = b[i]
  BY LongerFacts
<1>2. MagicAt(b, 1)
  <2>1. Garbage(b) < Len(b) => MagicAt(b, Garbage(b) + 1)
    BY GarbageFacts
  <2> QED
    BY <1>1, <2>1
<1> HIDE DEF c
<1>3. MagicAt(c, 1)
  <2>1. 1 \in 1 .. Len(b) /\ 2 \in 1 .. Len(b) /\ 1 < Len(b) /\ 1 + 1 = 2
    BY <1>1
  <2>2. c[1] = b[1] /\ c[2] = b[2]
    BY <1>1, <2>1
  <2> QED
    BY <1>2, <2>1, <2>2 DEF MagicAt
<1>4. zero \in 0 .. Len(c) /\ (\A i \in 1 .. zero : ~MagicAt(c, i)) /\ (zero < Len(c) => MagicAt(c, zero + 1))
  BY <1>1, <1>3
<1> HIDE DEF zero
<1>5. Garbage(c) = zero
  BY <1>1, <1>4, GarbageIs
<1>6. discard_prefix(c, 0) = c
  BY <1>1, DiscardNothing
<1> QED
  BY <1>5, <1>6 DEF Aligned, zero, c
-----------------------------------------------------------------------------
(* StreamDecoder: a candidate that is complete.                            *)

LEMMA ByteFacts ==
  /\ Bytes \subseteq Nat /\ {0, 1, ProtocolVersion, MaxPayload} \subseteq Bytes
  /\ Magic[1] \in Bytes /\ Magic[2] \in Bytes /\ Magic = <<Magic[1], Magic[2]>>
  /\ MaxPayload \in Nat
<1>1. Bytes \subseteq Nat
  BY FramingAssumption
<1>2. {0, 1, ProtocolVersion, MaxPayload} \subseteq Bytes
  BY FramingAssumption
<1>3. Magic[1] \in Bytes /\ Magic[2] \in Bytes /\ Magic = <<Magic[1], Magic[2]>>
  BY FramingAssumption
<1>4. MaxPayload \in Nat
  BY <1>1, <1>2
<1> QED
  BY <1>1, <1>2, <1>3, <1>4

LEMMA Sizes ==
  MaxPayload \in Nat /\ HeaderSize = 6 /\ ChecksumSize = 1 /\ MaxFrame = MaxPayload + 7
BY ByteFacts DEF HeaderSize, ChecksumSize, MaxFrame

LEMMA SubSeqOfLonger ==
  ASSUME NEW M, NEW b \in Seq(M), NEW x \in Seq(M), NEW m \in Nat \ {0}, NEW n \in Nat, n <= Len(b)
  PROVE  SubSeq(b \o x, m, n) = SubSeq(b, m, n)
<1> DEFINE c == b \o x
           s == SubSeq(c, m, n)
           t == SubSeq(b, m, n)
           l == Len(b)
<1>1. /\ c \in Seq(M) /\ Len(c) = l + Len(x) /\ l \in Nat /\ Len(x) \in Nat
      /\ \A i \in 1 .. l : c[i] = b[i]
  BY LongerFacts
<1>2. \A i \in m .. n : i \in 1 .. l
  BY <1>1
<1>3. \A i \in 1 .. l : b[i] \in M
  BY <1>1, ElementOfSeq
<1> HIDE DEF c, l
<1>4. \A i \in m .. n : b[i] \in M /\ c[i] \in M
  BY <1>1, <1>2, <1>3
<1>5. /\ t \in Seq(M) /\ Len(t) = (IF m <= n THEN n - m + 1 ELSE 0)
      /\ \A i \in 1 .. n - m + 1 : t[i] = b[m + i - 1]
  BY <1>4, SubSeqProperties
<1>6. /\ s \in Seq(M) /\ Len(s) = (IF m <= n THEN n - m + 1 ELSE 0)
      /\ \A i \in 1 .. n - m + 1 : s[i] = c[m + i - 1]
  BY <1>4, SubSeqProperties
<1> HIDE DEF s, t
<1>7. ASSUME NEW i \in 1 .. Len(s) PROVE s[i] = t[i]
  <2> DEFINE j == m + i - 1
  <2>1. i \in 1 .. n - m + 1 /\ j \in m .. n
    BY <1>6
  <2> HIDE DEF j
  <2>2. s[i] = c[j] /\ t[i] = b[j] /\ c[j] = b[j]
    BY <1>1, <1>2, <1>5, <1>6, <2>1 DEF j
  <2> QED
    BY <2>2
<1> QED
  BY <1>5, <1>6, <1>7, SeqEqual DEF s, t, c

LEMMA CompleteFacts ==
  ASSUME NEW b \in Seq(Bytes), ~Waits(b)
  PROVE  /\ Len(b) \in Nat /\ Len(b) >= 6 /\ b[5] \in Nat
         /\ b[5] <= MaxPayload => b[5] + 7 \in 1 .. Len(b)
         /\ Candidate(b).drop \in 1 .. Len(b)
         /\ Candidate(b).drop = 1 \/ Candidate(b).drop = b[5] + 7
<1>1. Len(b) \in Nat /\ Len(b) >= 6
  BY LenProperties, Sizes DEF Waits
<1>2. b[5] \in Nat
  <2>1. 5 \in 1 .. Len(b)
    BY <1>1
  <2> QED
    BY <2>1, ByteFacts, ElementOfSeq
<1>3. b[5] <= MaxPayload => b[5] + 7 \in 1 .. Len(b)
  <2> DEFINE l == Len(b)
             n == b[5]
  <2>1. ~(n <= MaxPayload /\ l < HeaderSize + n + ChecksumSize)
    BY DEF Waits
  <2>2. l \in Nat /\ n \in Nat
    BY <1>1, <1>2
  <2> HIDE DEF l, n
  <2>3. n <= MaxPayload => n + 7 \in 1 .. l
    BY <2>1, <2>2, Sizes
  <2> QED
    BY <2>3 DEF l, n
<1>4. Candidate(b).drop = 1 \/ (b[5] <= MaxPayload /\ Candidate(b).drop = b[5] + 7)
  <2>1. HeaderSize + b[5] + ChecksumSize = b[5] + 7
    BY <1>2, Sizes
  <2>2. CASE b[5] > MaxPayload
    BY <2>2 DEF Candidate
  <2>3. CASE ~(b[5] > MaxPayload)
    <3>1. b[5] <= MaxPayload
      BY <1>2, <2>3, Sizes
    <3> QED
      BY <2>1, <2>3, <3>1 DEF Candidate
  <2> QED
    BY <2>2, <2>3
<1> QED
  BY <1>1, <1>2, <1>3, <1>4

LEMMA CandidateOfLonger ==
  ASSUME NEW b \in Seq(Bytes), NEW x \in Seq(Bytes), ~Waits(b)
  PROVE  ~Waits(b \o x) /\ Candidate(b \o x) = Candidate(b)
<1> DEFINE c == b \o x
           length == b[5]
           size == HeaderSize + b[5] + ChecksumSize
           end == size - 1
           last == 6 + length
<1>1. /\ c \in Seq(Bytes) /\ Len(c) = Len(b) + Len(x) /\ Len(b) \in Nat /\ Len(x) \in Nat
      /\ \A i \in 1 .. Len(b) : c[i] = b[i]
  BY LongerFacts
<1>2. Len(b) >= 6 /\ length \in Nat /\ (length <= MaxPayload => length + 7 \in 1 .. Len(b))
  BY CompleteFacts
<1>3. size = length + 7 /\ end = length + 6
  <2>1. length \in Nat
    BY <1>2
  <2> HIDE DEF length
  <2> QED
    BY <2>1, Sizes DEF length
<1>4. length <= MaxPayload => /\ end \in Nat /\ end <= Len(b) /\ last \in Nat /\ last <= Len(b)
                              /\ size \in 1 .. Len(b)
  BY <1>1, <1>2, <1>3
<1> HIDE DEF c
<1>5. c[3] = b[3] /\ c[4] = b[4] /\ c[5] = b[5] /\ c[6] = b[6]
  BY <1>1, <1>2
<1>6. ~Waits(c)
  <2> DEFINE l == Len(c)
             k == Len(b)
  <2>1. /\ ~(length <= MaxPayload /\ k < HeaderSize + length + ChecksumSize)
        /\ k >= 6 /\ k <= l /\ k \in Nat /\ l \in Nat /\ length \in Nat
    BY <1>1, <1>2 DEF Waits
  <2>2. c[5] = length
    BY <1>5
  <2> HIDE DEF l, k, length
  <2>3. ~(l < 6) /\ ~(length <= MaxPayload /\ l < HeaderSize + length + ChecksumSize)
    BY <2>1, Sizes
  <2> QED
    BY <2>2, <2>3, Sizes DEF Waits, l
<1> HIDE DEF end, last, size, length
<1>7. ASSUME length <= MaxPayload
      PROVE  c[size] = b[size] /\ SubSeq(c, 1, end) = SubSeq(b, 1, end) /\ SubSeq(c, 7, last) = SubSeq(b, 7, last)
  <2>1. c[size] = b[size]
    BY <1>1, <1>4, <1>7
  <2>2. SubSeq(c, 1, end) = SubSeq(b, 1, end)
    BY <1>4, <1>7, SubSeqOfLonger DEF c
  <2>3. SubSeq(c, 7, last) = SubSeq(b, 7, last)
    BY <1>4, <1>7, SubSeqOfLonger DEF c
  <2> QED
    BY <2>1, <2>2, <2>3
<1>8. ASSUME b[5] > MaxPayload PROVE Candidate(c) = Candidate(b)
  BY <1>5, <1>8 DEF Candidate
<1>9. ASSUME ~(b[5] > MaxPayload) PROVE Candidate(c) = Candidate(b)
  <2>0. length \in Nat /\ ~(length > MaxPayload)
    BY <1>2, <1>9 DEF length
  <2>1. length <= MaxPayload
    BY <2>0, Sizes
  <2>2. Frame(c, c[5]) = Frame(b, b[5])
    BY <1>5, <1>7, <2>1 DEF Frame, last, length
  <2>3. c[size] = b[size] /\ SubSeq(c, 1, end) = SubSeq(b, 1, end)
    BY <1>7, <2>1
  <2>4. size = HeaderSize + b[5] + ChecksumSize /\ end = size - 1
    BY DEF size, end
  <2> QED
    BY <1>5, <1>9, <2>2, <2>3, <2>4 DEF Candidate
<1> QED
  BY <1>6, <1>8, <1>9 DEF c
-----------------------------------------------------------------------------
(* StreamDecoder: what process makes of a buffer.                          *)

Ends == {"host", "device"}
Cuts == {Candidate(b).says : b \in {c \in Seq(Bytes) : ~Waits(c)}}
Sayings == {Means(end, cut) : end \in Ends, cut \in Cuts}
Verdicts == [says : Cuts, left : Nat, took : Nat]
Results == [buffer : Seq(Bytes), out : Seq(Verdicts)]

AfterCandidate(b) == discard_prefix(b, Candidate(b).drop)
Paused(b) == [buffer |-> b, out |-> << >>]
Reported(b, r) == [buffer |-> r.buffer, out |-> <<Verdict(b)>> \o r.out]
\* The loop, round by round.
Rounds(f) ==
  f = [buffer \in Seq(Bytes) |->
         LET b == Aligned(buffer)
         IN  IF Waits(b) THEN [buffer |-> b, out |-> << >>]
             ELSE LET r == f[discard_prefix(b, Candidate(b).drop)]
                  IN  [buffer |-> r.buffer, out |-> <<Verdict(b)>> \o r.out]]

LEMMA RestFacts ==
  ASSUME NEW b \in Seq(Bytes), ~Waits(b)
  PROVE  /\ AfterCandidate(b) \in Seq(Bytes) /\ Len(AfterCandidate(b)) = Len(b) - Candidate(b).drop
         /\ Len(AfterCandidate(b)) \in Nat /\ Len(b) \in Nat /\ Len(AfterCandidate(b)) < Len(b)
         /\ Verdict(b) \in Verdicts
<1> DEFINE drop == Candidate(b).drop
<1>1. Len(b) \in Nat /\ drop \in 1 .. Len(b)
  BY CompleteFacts
<1>2. drop \in 0 .. Len(b)
  BY <1>1
<1> HIDE DEF drop
<1>3. discard_prefix(b, drop) \in Seq(Bytes) /\ Len(discard_prefix(b, drop)) = Len(b) - drop
  BY <1>2, DiscardFacts
<1>4. Len(b) - drop \in Nat /\ Len(b) - drop < Len(b) /\ drop \in Nat
  BY <1>1
<1>5. Candidate(b).says \in Cuts
  BY DEF Cuts
<1>6. Verdict(b) \in Verdicts
  BY <1>1, <1>4, <1>5 DEF Verdict, Verdicts, drop
<1> QED
  BY <1>1, <1>3, <1>4, <1>6 DEF AfterCandidate, drop

LEMMA ReportedIsTyped ==
  ASSUME NEW b \in Seq(Bytes), ~Waits(b), NEW r \in Results
  PROVE  Reported(b, r) \in Results
<1>1. Verdict(b) \in Verdicts
  BY RestFacts
<1>2. r.buffer \in Seq(Bytes) /\ r.out \in Seq(Verdicts)
  BY DEF Results
<1>3. <<Verdict(b)>> \in Seq(Verdicts)
  BY <1>1
<1>4. <<Verdict(b)>> \o r.out \in Seq(Verdicts)
  BY <1>2, <1>3, ConcatProperties
<1> QED
  BY <1>2, <1>4 DEF Reported, Results

LEMMA RoundsExist == \E f : Rounds(f)
<1> DEFINE S == Seq(Bytes)
           Ended == {b \in S : Waits(Aligned(b))}
           size == [b \in S |-> Len(b)]
           next == [b \in S |-> IF Waits(Aligned(b)) THEN b ELSE AfterCandidate(Aligned(b))]
           base == [b \in S |-> Paused(Aligned(b))]
           step == [p \in S \X Results |->
                      IF Waits(Aligned(p[1])) THEN p[2] ELSE Reported(Aligned(p[1]), p[2])]
<1>1. \A b \in S : Aligned(b) \in S /\ Len(Aligned(b)) <= Len(b) /\ Len(b) \in Nat
  BY AlignedFacts, LenProperties
<1>2. ASSUME NEW b \in S, ~Waits(Aligned(b))
      PROVE  AfterCandidate(Aligned(b)) \in S /\ Len(AfterCandidate(Aligned(b))) < Len(b) /\ Len(AfterCandidate(Aligned(b))) \in Nat
  <2> DEFINE c == Aligned(b)
  <2>1. c \in Seq(Bytes) /\ Len(c) <= Len(b) /\ Len(b) \in Nat /\ ~Waits(c)
    BY <1>1, <1>2
  <2> HIDE DEF c
  <2>2. AfterCandidate(c) \in Seq(Bytes) /\ Len(AfterCandidate(c)) \in Nat /\ Len(c) \in Nat /\ Len(AfterCandidate(c)) < Len(c)
    BY <2>1, RestFacts
  <2> QED
    BY <2>1, <2>2 DEF c
<1>3. size \in [S -> Nat] /\ \A b \in S : size[b] = Len(b)
  BY <1>1
<1>4. next \in [S -> S] /\ \A b \in S : next[b] = IF Waits(Aligned(b)) THEN b ELSE AfterCandidate(Aligned(b))
  BY <1>2
<1>5. base \in [S -> Results] /\ \A b \in S : base[b] = Paused(Aligned(b))
  <2>1. << >> \in Seq(Verdicts)
    BY EmptySeq
  <2>2. \A b \in S : Paused(Aligned(b)) \in Results
    BY <1>1, <2>1 DEF Paused, Results
  <2> QED
    BY <2>2
<1>6. /\ step \in [S \X Results -> Results]
      /\ \A b \in S, r \in Results : ~Waits(Aligned(b)) => step[<<b, r>>] = Reported(Aligned(b), r)
  <2>1. ASSUME NEW b \in S, ~Waits(Aligned(b)), NEW r \in Results PROVE Reported(Aligned(b), r) \in Results
    BY <1>1, <2>1, ReportedIsTyped
  <2> HIDE DEF S
  <2> QED
    BY <2>1
<1> HIDE DEF S, size, next, base, step
<1>7. Descends(S, Ended, size, next)
  <2>1. ASSUME NEW b \in S, b \notin Ended PROVE size[next[b]] < size[b]
    <3>1. ~Waits(Aligned(b))
      BY <2>1
    <3>2. next[b] = AfterCandidate(Aligned(b)) /\ next[b] \in S
      BY <1>2, <1>4, <3>1
    <3> QED
      BY <1>2, <1>3, <3>1, <3>2
  <2> QED
    BY <1>3, <1>4, <2>1 DEF Descends
<1> HIDE DEF Ended
<1>8. PICK f : f \in [S -> Results] /\ \A b \in S : Unfolds(Ended, base, next, step, b, f)
  BY <1>5, <1>6, <1>7, DescentExists
<1>9. ASSUME NEW b \in S
      PROVE  f[b] = IF Waits(Aligned(b)) THEN Paused(Aligned(b)) ELSE Reported(Aligned(b), f[AfterCandidate(Aligned(b))])
  <2>1. f[b] = IF b \in Ended THEN base[b] ELSE step[<<b, f[next[b]]>>]
    BY <1>8 DEF Unfolds
  <2>2. CASE Waits(Aligned(b))
    BY <1>5, <2>1, <2>2 DEF Ended
  <2>3. CASE ~Waits(Aligned(b))
    <3>1. next[b] = AfterCandidate(Aligned(b)) /\ next[b] \in S /\ b \notin Ended
      BY <1>4, <2>3 DEF Ended
    <3>2. f[next[b]] \in Results
      BY <1>8, <3>1
    <3>3. step[<<b, f[next[b]]>>] = Reported(Aligned(b), f[next[b]])
      BY <1>6, <2>3, <3>2
    <3> QED
      BY <2>1, <2>3, <3>1, <3>3
  <2> QED
    BY <2>2, <2>3
<1>10. f = [b \in S |-> IF Waits(Aligned(b)) THEN Paused(Aligned(b))
                        ELSE Reported(Aligned(b), f[AfterCandidate(Aligned(b))])]
  BY <1>8, <1>9
<1>11. Rounds(f)
  BY <1>10 DEF Rounds, Paused, Reported, AfterCandidate, S
<1> QED
  BY <1>11

LEMMA ProcessIs ==
  ASSUME NEW b \in Seq(Bytes)
  PROVE  process[b] = IF Waits(Aligned(b)) THEN Paused(Aligned(b))
                      ELSE Reported(Aligned(b), process[AfterCandidate(Aligned(b))])
<1> DEFINE g == CHOOSE f : Rounds(f)
<1>1. Rounds(g)
  BY RoundsExist
<1>2. process = g
  BY DEF process, Rounds
<1> HIDE DEF g
<1>3. g = [a \in Seq(Bytes) |-> IF Waits(Aligned(a)) THEN Paused(Aligned(a))
                                ELSE Reported(Aligned(a), g[AfterCandidate(Aligned(a))])]
  BY <1>1 DEF Rounds, Paused, Reported, AfterCandidate
<1>4. g[b] = IF Waits(Aligned(b)) THEN Paused(Aligned(b)) ELSE Reported(Aligned(b), g[AfterCandidate(Aligned(b))])
  BY <1>3
<1> QED
  BY <1>2, <1>4
\* Buffers that the loop leaves behind.
Settled(b) == b \in Seq(Bytes) /\ Waits(b) /\ Aligned(b) = b

\* Induction over a buffer's length.
LEMMA BufferInduction ==
  ASSUME NEW S, \A b \in Seq(Bytes) :
           (\A c \in Seq(Bytes) : Len(c) < Len(b) => c \in S) => b \in S
  PROVE  Seq(Bytes) \subseteq S
<1> DEFINE T == {n \in Nat : \A b \in Seq(Bytes) : Len(b) < n => b \in S}
<1>0. \A b \in Seq(Bytes) : Len(b) \in Nat
  BY LenProperties
<1>1. 0 \in T
  BY <1>0
<1>2. ASSUME NEW n \in Nat, n \in T PROVE n + 1 \in T
  <2>1. ASSUME NEW b \in Seq(Bytes), Len(b) < n + 1 PROVE b \in S
    <3>1. \A c \in Seq(Bytes) : Len(c) < Len(b) => Len(c) < n
      BY <1>0, <2>1
    <3> QED
      BY <1>2, <3>1
  <2> QED
    BY <2>1
<1> HIDE DEF T
<1>3. Nat \subseteq T
  BY <1>1, <1>2, SetInduction
<1>4. ASSUME NEW b \in Seq(Bytes) PROVE b \in S
  <2> DEFINE n == Len(b) + 1
  <2>1. n \in Nat /\ Len(b) < n
    BY <1>0
  <2> HIDE DEF n
  <2>2. n \in T
    BY <1>3, <2>1
  <2> QED
    BY <2>1, <2>2 DEF T
<1> QED
  BY <1>4

LEMMA ProcessSettles ==
  ASSUME NEW b \in Seq(Bytes)
  PROVE  process[b] \in Results /\ Settled(process[b].buffer)
<1> DEFINE S == {c \in Seq(Bytes) : process[c] \in Results /\ Settled(process[c].buffer)}
<1>1. ASSUME NEW c \in Seq(Bytes), \A d \in Seq(Bytes) : Len(d) < Len(c) => d \in S
      PROVE  c \in S
  <2> DEFINE a == Aligned(c)
  <2>1. a \in Seq(Bytes) /\ Aligned(a) = a /\ Len(a) <= Len(c) /\ Len(a) \in Nat /\ Len(c) \in Nat
    BY AlignedFacts, LenProperties
  <2>2. process[c] = IF Waits(a) THEN Paused(a) ELSE Reported(a, process[AfterCandidate(a)])
    BY ProcessIs
  <2> HIDE DEF a
  <2>3. CASE Waits(a)
    <3>1. << >> \in Seq(Verdicts)
      BY EmptySeq
    <3>2. Paused(a) \in Results /\ Paused(a).buffer = a
      BY <2>1, <3>1 DEF Paused, Results
    <3> QED
      BY <2>1, <2>2, <2>3, <3>2 DEF Settled
  <2>4. CASE ~Waits(a)
    <3> DEFINE d == AfterCandidate(a)
    <3>1. d \in Seq(Bytes) /\ Len(d) \in Nat /\ Len(d) < Len(a)
      BY <2>1, <2>4, RestFacts
    <3> HIDE DEF d
    <3>2. d \in S
      BY <1>1, <2>1, <3>1
    <3>3. process[d] \in Results /\ Settled(process[d].buffer)
      BY <3>2
    <3>4. Reported(a, process[d]) \in Results
      BY <2>1, <2>4, <3>3, ReportedIsTyped
    <3>5. Reported(a, process[d]).buffer = process[d].buffer
      BY DEF Reported
    <3> QED
      BY <2>2, <2>4, <3>3, <3>4, <3>5 DEF d
  <2> QED
    BY <2>3, <2>4
<1> HIDE DEF S
<1>2. Seq(Bytes) \subseteq S
  BY <1>1, BufferInduction
<1> QED
  BY <1>2 DEF S

LEMMA SettledStays ==
  ASSUME NEW b, Settled(b) PROVE process[b].buffer = b /\ process[b].out = << >>
<1>1. b \in Seq(Bytes) /\ Waits(Aligned(b)) /\ Aligned(b) = b
  BY DEF Settled
<1>2. process[b] = IF Waits(Aligned(b)) THEN Paused(Aligned(b)) ELSE Reported(Aligned(b), process[AfterCandidate(Aligned(b))])
  BY <1>1, ProcessIs
<1> QED
  BY <1>1, <1>2 DEF Paused

LEMMA SettledIsShort ==
  ASSUME NEW b, Settled(b) PROVE Len(b) < MaxFrame
<1> DEFINE l == Len(b)
           n == b[5]
<1>1. l \in Nat /\ b \in Seq(Bytes)
  BY LenProperties DEF Settled
<1>2. l < HeaderSize \/ (n <= MaxPayload /\ l < HeaderSize + n + ChecksumSize)
  BY DEF Settled, Waits
<1>3. l >= 6 => n \in Nat
  <2>1. l >= 6 => 5 \in 1 .. Len(b)
    BY <1>1
  <2> QED
    BY <1>1, <2>1, ByteFacts, ElementOfSeq
<1> HIDE DEF l, n
<1>4. l < MaxFrame
  BY <1>1, <1>2, <1>3, Sizes
<1> QED
  BY <1>4 DEF l

LEMMA SaysFacts ==
  ASSUME NEW end \in Ends, NEW out \in Seq(Verdicts)
  PROVE  /\ Says(end, out) \in Seq(Sayings) /\ Len(Says(end, out)) = Len(out) /\ Len(out) \in Nat
         /\ \A i \in 1 .. Len(out) : Says(end, out)[i] = Means(end, out[i].says)
<1> DEFINE n == Len(out)
<1>1. n \in Nat /\ DOMAIN out = 1 .. n /\ \A i \in 1 .. n : out[i] \in Verdicts
  BY LenProperties, ElementOfSeq
<1> HIDE DEF n
<1>2. \A i \in 1 .. n : Means(end, out[i].says) \in Sayings
  BY <1>1 DEF Verdicts, Sayings
<1>3. Says(end, out) = [i \in 1 .. n |-> Means(end, out[i].says)]
  BY <1>1 DEF Says
<1>4. Says(end, out) \in [1 .. n -> Sayings]
  BY <1>2, <1>3
<1>5. Says(end, out) \in Seq(Sayings) /\ Len(Says(end, out)) = n
  BY <1>1, <1>4
<1> QED
  BY <1>1, <1>3, <1>5 DEF n

LEMMA SaysOneMore ==
  ASSUME NEW end \in Ends, NEW v \in Verdicts, NEW out \in Seq(Verdicts)
  PROVE  Says(end, <<v>> \o out) = <<Means(end, v.says)>> \o Says(end, out)
<1> DEFINE one == <<v>>
           said == <<Means(end, v.says)>>
           a == one \o out
           s == Says(end, a)
           t == said \o Says(end, out)
<1>0. Means(end, v.says) \in Sayings
  BY DEF Verdicts, Sayings
<1>1. one \in Seq(Verdicts) /\ Len(one) = 1 /\ one[1] = v
  OBVIOUS
<1>2. said \in Seq(Sayings) /\ Len(said) = 1 /\ said[1] = Means(end, v.says)
  BY <1>0
<1> HIDE DEF one, said
<1>3. /\ a \in Seq(Verdicts) /\ Len(a) = Len(one) + Len(out) /\ Len(out) \in Nat
      /\ \A i \in 1 .. Len(one) : a[i] = one[i]
      /\ \A i \in 1 .. Len(out) : a[Len(one) + i] = out[i]
  <2>1. one \in Seq(Verdicts) /\ out \in Seq(Verdicts)
    BY <1>1
  <2>2. Len(out) \in Nat
    BY LenProperties
  <2>3. /\ one \o out \in Seq(Verdicts) /\ Len(one \o out) = Len(one) + Len(out)
        /\ \A i \in 1 .. Len(one) : (one \o out)[i] = one[i]
        /\ \A i \in 1 .. Len(out) : (one \o out)[Len(one) + i] = out[i]
    BY ONLY <2>1, LongerFacts
  <2> QED
    BY <2>2, <2>3
<1>4. /\ Says(end, out) \in Seq(Sayings) /\ Len(Says(end, out)) = Len(out)
      /\ \A i \in 1 .. Len(out) : Says(end, out)[i] = Means(end, out[i].says)
  <2> HIDE DEF one, said, a, s, t
  <2> QED
    BY SaysFacts
<1>5. /\ t \in Seq(Sayings) /\ Len(t) = Len(said) + Len(Says(end, out))
      /\ \A i \in 1 .. Len(said) : t[i] = said[i]
      /\ \A i \in 1 .. Len(Says(end, out)) : t[Len(said) + i] = Says(end, out)[i]
  <2> DEFINE rest == Says(end, out)
  <2>1. rest \in Seq(Sayings) /\ said \in Seq(Sayings)
    BY <1>2, <1>4
  <2> HIDE DEF rest
  <2>2. /\ said \o rest \in Seq(Sayings) /\ Len(said \o rest) = Len(said) + Len(rest)
        /\ \A i \in 1 .. Len(said) : (said \o rest)[i] = said[i]
        /\ \A i \in 1 .. Len(rest) : (said \o rest)[Len(said) + i] = rest[i]
    BY ONLY <2>1, LongerFacts
  <2> QED
    BY <2>2 DEF rest
<1> HIDE DEF a, t
<1>6. /\ s \in Seq(Sayings) /\ Len(s) = Len(a) /\ \A i \in 1 .. Len(a) : s[i] = Means(end, a[i].says)
  BY <1>3, SaysFacts
<1> HIDE DEF s
<1> DEFINE k == Len(out)
<1>7. Len(s) = 1 + k /\ Len(t) = 1 + k /\ k \in Nat
  BY <1>1, <1>2, <1>3, <1>4, <1>5, <1>6
<1>8. \A i \in 1 .. k : a[1 + i] = out[i] /\ t[1 + i] = Means(end, out[i].says)
  BY <1>1, <1>2, <1>3, <1>4, <1>5
<1>9. a[1] = v /\ t[1] = Means(end, v.says)
  BY <1>1, <1>2, <1>3, <1>5
<1> HIDE DEF k
<1>10. ASSUME NEW i \in 1 .. Len(s) PROVE s[i] = t[i]
  <2>1. s[i] = Means(end, a[i].says)
    BY <1>6
  <2>2. CASE i = 1
    BY <1>9, <2>1, <2>2
  <2>3. CASE i # 1
    <3> DEFINE j == i - 1
    <3>1. j \in 1 .. k /\ i = 1 + j
      BY <1>7, <2>3
    <3> HIDE DEF j
    <3> QED
      BY <1>8, <2>1, <3>1
  <2> QED
    BY <2>2, <2>3
<1>11. s = t
  <2>1. s \in Seq(Sayings) /\ t \in Seq(Sayings) /\ Len(s) = Len(t)
    BY <1>5, <1>6, <1>7
  <2> QED
    BY ONLY <1>10, <2>1, SeqEqual
<1> QED
  BY <1>11 DEF s, t, a, one, said

\* However a stream is cut in two: what is heard of the first part and then,
\* from the rest and the second part, is what is heard of both at once.
LEMMA ProcessSplits ==
  ASSUME NEW end \in Ends, NEW b \in Seq(Bytes), NEW x \in Seq(Bytes)
  PROVE  /\ process[b \o x].buffer = process[process[b].buffer \o x].buffer
         /\ Says(end, process[b \o x].out) = Says(end, process[b].out) \o Says(end, process[process[b].buffer \o x].out)
<1> DEFINE Splits(c, r, u, v) == u.buffer = v.buffer /\ Says(end, u.out) = Says(end, r.out) \o Says(end, v.out)
           S == {c \in Seq(Bytes) : Splits(c, process[c], process[c \o x], process[process[c].buffer \o x])}
<1>1. ASSUME NEW c \in Seq(Bytes), \A d \in Seq(Bytes) : Len(d) < Len(c) => d \in S
      PROVE  c \in S
  <2> DEFINE a == Aligned(c)
             cx == c \o x
             ax == a \o x
  <2>1. /\ a \in Seq(Bytes) /\ Aligned(a) = a /\ Garbage(a) = 0
        /\ Len(a) <= Len(c) /\ Len(a) \in Nat /\ Len(c) \in Nat
    BY AlignedFacts, LenProperties
  <2>2. process[c] = IF Waits(a) THEN Paused(a) ELSE Reported(a, process[AfterCandidate(a)])
    BY ProcessIs
  <2>3. cx \in Seq(Bytes) /\ Aligned(ax) = Aligned(cx)
    BY LongerFacts, AlignsAgain
  <2> HIDE DEF a, cx
  <2>4. ax \in Seq(Bytes)
    BY <2>1, LongerFacts
  <2> HIDE DEF ax
  <2>5. process[cx] = process[ax]
    BY <2>3, <2>4, ProcessIs
  <2>6. process[ax] \in Results
    BY <2>4, ProcessSettles
  <2>7. CASE Waits(a)
    <3>1. process[c].buffer = a /\ process[c].out = << >>
      BY <2>2, <2>7 DEF Paused
    <3>2. process[ax].out \in Seq(Verdicts)
      BY <2>6 DEF Results
    <3>3. Says(end, << >>) = << >>
      BY DEF Says
    <3>4. Says(end, process[ax].out) \in Seq(Sayings)
      BY <3>2, SaysFacts
    <3>5. << >> \o Says(end, process[ax].out) = Says(end, process[ax].out)
      BY <3>4, ConcatEmptySeq
    <3> QED
      BY <2>5, <3>1, <3>3, <3>5 DEF ax, cx
  <2>8. CASE ~Waits(a)
    <3> DEFINE d == AfterCandidate(a)
               dx == d \o x
               r == process[d]
               u == process[dx]
               v == process[r.buffer \o x]
    <3>1. /\ d \in Seq(Bytes) /\ Len(d) \in Nat /\ Len(d) < Len(a) /\ Verdict(a) \in Verdicts
      BY <2>1, <2>8, RestFacts
    <3>2. Aligned(ax) = ax
      <4>1. Len(a) >= 2
        BY <2>1, <2>8, CompleteFacts
      <4> QED
        BY <2>1, <4>1, StaysAligned DEF ax
    <3>3. ~Waits(ax) /\ Candidate(ax) = Candidate(a)
      BY <2>1, <2>8, CandidateOfLonger DEF ax
    <3>4. AfterCandidate(ax) = dx
      <4> DEFINE drop == Candidate(a).drop
      <4>1. drop \in 0 .. Len(a)
        BY <2>1, <2>8, CompleteFacts
      <4> HIDE DEF drop
      <4>2. discard_prefix(a \o x, drop) = discard_prefix(a, drop) \o x
        BY <2>1, <4>1, DiscardOfLonger
      <4> QED
        BY <3>3, <4>2 DEF AfterCandidate, ax, drop
    <3>5. process[ax] = Reported(ax, u)
      BY <2>4, <3>2, <3>3, <3>4, ProcessIs
    <3>6. process[c] = Reported(a, r)
      BY <2>2, <2>8
    <3>7. Splits(d, r, u, v)
      <4> HIDE DEF d
      <4>1. d \in S
        BY <1>1, <2>1, <3>1
      <4> QED
        BY <4>1
    <3>8. r \in Results /\ r.buffer \in Seq(Bytes)
      BY <3>1, ProcessSettles DEF Settled
    <3>9. dx \in Seq(Bytes) /\ r.buffer \o x \in Seq(Bytes)
      <4> HIDE DEF d, r
      <4> QED
        BY <3>1, <3>8, LongerFacts
    <3> HIDE DEF dx
    <3>10. u \in Results
      BY <3>9, ProcessSettles
    <3>11. v \in Results
      BY <3>9, ProcessSettles
    <3>12. Verdict(ax) \in Verdicts /\ Verdict(ax).says = Verdict(a).says
      BY <2>4, <3>3, RestFacts DEF Verdict
    <3> HIDE DEF d, r, u, v
    <3>13. r.out \in Seq(Verdicts) /\ u.out \in Seq(Verdicts) /\ v.out \in Seq(Verdicts)
      BY <3>8, <3>10, <3>11 DEF Results
    <3> DEFINE w == Verdict(a)
               y == Verdict(ax)
               said == <<Means(end, w.says)>>
    <3>14. process[c].buffer = r.buffer /\ process[c].out = <<w>> \o r.out
      BY <3>6 DEF Reported
    <3>15. process[ax].buffer = u.buffer /\ process[ax].out = <<y>> \o u.out
      BY <3>5 DEF Reported
    <3>16. w \in Verdicts /\ y \in Verdicts /\ y.says = w.says
      BY <3>1, <3>12
    <3> HIDE DEF w, y
    <3>17. Says(end, <<w>> \o r.out) = said \o Says(end, r.out) /\ Says(end, <<y>> \o u.out) = said \o Says(end, u.out)
      BY <3>13, <3>16, SaysOneMore
    <3>18. Says(end, r.out) \in Seq(Sayings) /\ Says(end, v.out) \in Seq(Sayings)
      BY <3>13, SaysFacts
    <3>19. said \in Seq(Sayings)
      <4>1. Means(end, w.says) \in Sayings
        BY <3>16 DEF Verdicts, Sayings
      <4> QED
        BY <4>1
    <3> HIDE DEF said
    <3>20. said \o (Says(end, r.out) \o Says(end, v.out)) = (said \o Says(end, r.out)) \o Says(end, v.out)
      <4> DEFINE one == Says(end, r.out)
                 two == Says(end, v.out)
      <4>1. said \in Seq(Sayings) /\ one \in Seq(Sayings) /\ two \in Seq(Sayings)
        BY <3>18, <3>19
      <4> HIDE DEF one, two
      <4>2. (said \o one) \o two = said \o (one \o two)
        BY ONLY <4>1, ConcatAssociative
      <4> QED
        BY <4>2 DEF one, two
    <3>21. process[process[c].buffer \o x] = v
      BY <3>14 DEF v
    <3>22. u.buffer = v.buffer /\ Says(end, u.out) = Says(end, r.out) \o Says(end, v.out)
      BY <3>7
    <3>23. Splits(c, process[c], process[ax], v)
      BY <3>14, <3>15, <3>17, <3>20, <3>22
    <3> QED
      BY <2>5, <3>21, <3>23 DEF cx
  <2> QED
    BY <2>7, <2>8
<1> HIDE DEF S
<1>2. Seq(Bytes) \subseteq S
  BY <1>1, BufferInduction
<1> QED
  BY <1>2 DEF S
-----------------------------------------------------------------------------
(* StreamDecoder: the two ends.                                            *)

Links == [host : Seq(Bytes), device : Seq(Bytes), unread : Seq(Bytes), heard : Seq(Sayings)]
FramingInv ==
  /\ link \in Links /\ Settled(link.device)
  /\ Says("device", process[link.host \o link.unread].out) = link.heard
  /\ process[link.host \o link.unread].buffer = link.device

LEMMA FreshFacts ==
  /\ Fresh \in Links /\ Settled(Fresh.device)
  /\ Says("device", process[Fresh.host \o Fresh.unread].out) = Fresh.heard
  /\ process[Fresh.host \o Fresh.unread].buffer = Fresh.device
<1> DEFINE none == << >>
<1>1. none \in Seq(Bytes) /\ none \in Seq(Sayings) /\ Len(none) = 0
  BY EmptySeq
<1>2. Fresh.host = none /\ Fresh.device = none /\ Fresh.unread = none /\ Fresh.heard = none
  BY DEF Fresh
<1>3. Fresh \in Links
  BY <1>1 DEF Fresh, Links
<1> HIDE DEF none
<1>4. Settled(none)
  <2>1. Waits(none)
    BY <1>1, Sizes DEF Waits
  <2>2. Len(Aligned(none)) <= Len(none) /\ Aligned(none) \in Seq(Bytes)
    BY <1>1, AlignedFacts
  <2>3. Len(Aligned(none)) = 0
    BY <1>1, <2>2, LenProperties
  <2>4. Aligned(none) = none
    BY <2>2, <2>3, EmptySeq DEF none
  <2> QED
    BY <1>1, <2>1, <2>4 DEF Settled
<1>5. process[none].buffer = none /\ process[none].out = none
  BY <1>4, SettledStays DEF none
<1>6. none \o none = none /\ Says("device", none) = none
  BY DEF none, Says
<1> QED
  BY <1>2, <1>3, <1>4, <1>5, <1>6

LEMMA FreshIsFramed == link = Fresh => FramingInv
  BY FreshFacts DEF FramingInv

LEMMA ReconnectsKeeps == Reconnects => FramingInv'
<1> SUFFICES ASSUME link' = Fresh PROVE FramingInv'
  BY DEF Reconnects
<1> QED
  BY FreshFacts DEF FramingInv

LEMMA ByteKeeps == ASSUME FramingInv, Byte PROVE FramingInv'
<1>1. PICK byte \in Bytes : \E r \in {device_push(link.device, byte)} :
        link' = [link EXCEPT !.device = r.buffer, !.unread = Append(@, byte), !.heard = @ \o Says("device", r.out)]
  BY DEF Byte
<1> DEFINE h == link.host
           d == link.device
           u == link.unread
           e == link.heard
           x == <<byte>>
           r == process[d \o x]
<1>2. /\ link \in Links /\ h \in Seq(Bytes) /\ d \in Seq(Bytes) /\ u \in Seq(Bytes) /\ e \in Seq(Sayings)
      /\ Settled(d)
  BY DEF FramingInv, Links
<1>3. Says("device", process[h \o u].out) = e /\ process[h \o u].buffer = d
  BY DEF FramingInv
<1>4. x \in Seq(Bytes)
  OBVIOUS
<1> HIDE DEF x
<1>5. Append(d, byte) = d \o x /\ Append(u, byte) = u \o x
  BY <1>2, AppendIsConcat DEF x
<1>6. device_push(d, byte).buffer = r.buffer /\ device_push(d, byte).out = r.out
  <2>1. Len(d) # MaxFrame
    <3>1. Len(d) < MaxFrame /\ Len(d) \in Nat
      BY <1>2, SettledIsShort, LenProperties
    <3> QED
      BY <3>1, Sizes
  <2> QED
    BY <1>5, <2>1 DEF device_push
<1>7. d \o x \in Seq(Bytes) /\ u \o x \in Seq(Bytes) /\ h \o u \in Seq(Bytes)
  <2>1. d \in Seq(Bytes) /\ u \in Seq(Bytes) /\ h \in Seq(Bytes)
    BY <1>2
  <2> HIDE DEF d, u, h
  <2> QED
    BY <1>4, <2>1, ConcatProperties
<1>8. r \in Results /\ Settled(r.buffer)
  BY <1>7, ProcessSettles
<1> HIDE DEF r
<1>9. r.out \in Seq(Verdicts) /\ r.buffer \in Seq(Bytes)
  BY <1>8 DEF Results
<1>10. Says("device", r.out) \in Seq(Sayings) /\ "device" \in Ends
  <2>1. "device" \in Ends
    BY DEF Ends
  <2> QED
    BY <1>9, <2>1, SaysFacts
<1> DEFINE s == Says("device", r.out)
           k == e \o s
           v == u \o x
<1>11. link' = [link EXCEPT !.device = r.buffer, !.unread = v, !.heard = k]
  BY <1>1, <1>5, <1>6
<1>12. k \in Seq(Sayings)
  <2> HIDE DEF e, s
  <2>1. e \in Seq(Sayings) /\ s \in Seq(Sayings)
    BY <1>2, <1>10 DEF e, s
  <2> QED
    BY <2>1, ConcatProperties
<1>13. v \in Seq(Bytes)
  BY <1>7
<1> HIDE DEF k, v
<1>14. /\ link'.host = h /\ link'.device = r.buffer /\ link'.unread = v /\ link'.heard = k
       /\ link' \in Links
  BY <1>2, <1>9, <1>11, <1>12, <1>13 DEF Links
<1>15. process[h \o v].buffer = r.buffer /\ Says("device", process[h \o v].out) = k
  <2> DEFINE b == h \o u
  <2>1. h \o (u \o x) = (h \o u) \o x
    <3> HIDE DEF h, u
    <3>1. h \in Seq(Bytes) /\ u \in Seq(Bytes)
      BY <1>2 DEF h, u
    <3>2. (h \o u) \o x = h \o (u \o x)
      BY ONLY <1>4, <3>1, ConcatAssociative
    <3> QED
      BY <3>2
  <2>2. b \in Seq(Bytes)
    BY <1>7
  <2>3. h \o v = b \o x /\ process[b].buffer = d /\ Says("device", process[b].out) = e
    BY <1>3, <2>1 DEF v
  <2> HIDE DEF b
  <2>4. /\ process[b \o x].buffer = process[process[b].buffer \o x].buffer
        /\ Says("device", process[b \o x].out) = Says("device", process[b].out) \o Says("device", process[process[b].buffer \o x].out)
    BY <1>4, <1>10, <2>2, ProcessSplits
  <2> QED
    BY <2>3, <2>4 DEF r, k
<1> HIDE DEF h, d, u, e
<1> QED
  BY <1>8, <1>14, <1>15 DEF FramingInv

LEMMA HostReadsKeeps == ASSUME FramingInv, HostReads PROVE FramingInv'
<1> DEFINE b == link.host \o link.unread
           none == << >>
           r == process[b].buffer
<1>1. link \in Links /\ Settled(link.device) /\ r = link.device
  BY DEF FramingInv
<1>2. link' = [link EXCEPT !.host = r, !.unread = none, !.heard = none]
  BY DEF HostReads, host_push
<1>3. r \in Seq(Bytes) /\ none \in Seq(Bytes) /\ none \in Seq(Sayings)
  BY <1>1, EmptySeq DEF Settled
<1> HIDE DEF r, none
<1>4. /\ link'.host = r /\ link'.device = r /\ link'.unread = none /\ link'.heard = none
      /\ link' \in Links
  BY <1>1, <1>2, <1>3 DEF Links
<1>5. r \o none = r
  BY <1>3, ConcatEmptySeq DEF none
<1>6. process[r].buffer = r /\ process[r].out = none /\ Says("device", none) = none
  BY <1>1, SettledStays DEF none, Says
<1> QED
  BY <1>1, <1>4, <1>5, <1>6 DEF FramingInv

LEMMA LinkKeeps == FramingInv /\ [LinkNext]_link => FramingInv'
<1> SUFFICES ASSUME FramingInv, [LinkNext]_link PROVE FramingInv'
  OBVIOUS
<1>1. CASE Byte
  BY <1>1, ByteKeeps
<1>2. CASE HostReads
  BY <1>2, HostReadsKeeps
<1>3. CASE Reconnects
  BY <1>3, ReconnectsKeeps
<1>4. CASE link' = link
  BY <1>4 DEF FramingInv
<1> QED
  BY <1>1, <1>2, <1>3, <1>4 DEF LinkNext

-----------------------------------------------------------------------------
(* StreamDecoder: a frame that follows whatever was received.              *)

LEMMA ByteBounds ==
  \E k \in Nat \ {0} : Bytes = 0 .. k - 1 /\ k = Cardinality(Bytes)
  BY FramingAssumption

LEMMA ChecksumIsByte == ASSUME NEW b \in Seq(Bytes) PROVE Checksum(b) \in Bytes
<1> DEFINE k == Cardinality(Bytes)
           n == Len(b)
           move == [x \in (1 .. n) \X Bytes |-> (2 * x[2] + b[x[1]] + 1) % k]
           Crc(f) == f = [i \in 0 .. Len(b) |->
                            IF i = 0 THEN 1
                            ELSE (2 * f[i - 1] + b[i] + 1) % Cardinality(Bytes)]
<1>1. k \in Nat \ {0} /\ Bytes = 0 .. k - 1 /\ 1 \in Bytes /\ n \in Nat
  BY FramingAssumption, LenProperties
<1>2. \A i \in 1 .. n : b[i] \in Bytes
  BY ElementOfSeq
<1>3. move \in Moves(n, Bytes)
  <2>1. ASSUME NEW i \in 1 .. n, NEW c \in Bytes PROVE (2 * c + b[i] + 1) % k \in Bytes
    <3> DEFINE m == 2 * c + b[i] + 1
    <3>1. b[i] \in Nat /\ c \in Nat
      BY <1>1, <1>2
    <3>2. m \in Nat
      BY <3>1
    <3> HIDE DEF m, k
    <3>3. m % k \in 0 .. k - 1
      BY <1>1, <3>2
    <3> QED
      BY <1>1, <3>3 DEF m
  <2> HIDE DEF k, n
  <2> QED
    BY <2>1 DEF Moves
<1>4. PICK f : Recursion(Bytes, 1, n, move, f)
  BY <1>1, <1>3, RecursionExists
<1>5. f \in [0 .. n -> Bytes] /\ f[0] = 1 /\ \A i \in 1 .. n : f[i] = move[<<i, f[i - 1]>>]
  BY <1>4 DEF Recursion
<1>6. ASSUME NEW i \in 1 .. n PROVE f[i] = (2 * f[i - 1] + b[i] + 1) % k
  <2>1. i - 1 \in 0 .. n
    BY <1>1
  <2>2. f[i - 1] \in Bytes
    BY <1>5, <2>1
  <2>3. <<i, f[i - 1]>> \in (1 .. n) \X Bytes
    BY <2>2
  <2> QED
    BY <1>5, <2>3
<1>7. Crc(f)
  <2>1. \A i \in 0 .. n : f[i] = IF i = 0 THEN 1 ELSE (2 * f[i - 1] + b[i] + 1) % k
    BY <1>1, <1>5, <1>6
  <2> QED
    BY <1>5, <2>1
<1> DEFINE g == CHOOSE h : Crc(h)
<1>8. Crc(g)
  BY <1>7
<1>9. Checksum(b) = g[n]
  BY DEF Checksum
<1> HIDE DEF g, move
<1>10. g[0] = 1 /\ \A i \in 1 .. n : g[i] = (2 * g[i - 1] + b[i] + 1) % k
  <2>1. g = [i \in 0 .. n |-> IF i = 0 THEN 1 ELSE (2 * g[i - 1] + b[i] + 1) % k]
    BY <1>8
  <2>2. 0 \in 0 .. n /\ \A i \in 1 .. n : i \in 0 .. n /\ i # 0
    BY <1>1
  <2> HIDE DEF k, n
  <2> QED
    BY <2>1, <2>2
<1>11. g[n] = f[n]
  <2> HIDE DEF k, n
  <2>1. \A i \in 1 .. n : g[i - 1] = f[i - 1] => g[i] = f[i]
    BY <1>6, <1>10
  <2>2. n \in Nat /\ g[0] = f[0]
    BY <1>1, <1>5, <1>10
  <2> QED
    BY ONLY <2>1, <2>2, RecursionAgrees
<1>12. n \in 0 .. n
  BY <1>1
<1> QED
  BY <1>5, <1>9, <1>11, <1>12

\* The bytes before the payload.
Header(type, n) == <<Magic[1], Magic[2], ProtocolVersion, type, n, 1>>
LEMMA HeaderIs ==
  ASSUME NEW type \in Bytes, NEW n \in Bytes
  PROVE  /\ Magic \o <<ProtocolVersion, type, n, 1>> = Header(type, n)
         /\ Header(type, n) \in Seq(Bytes) /\ Len(Header(type, n)) = 6
<1>1. Magic = <<Magic[1], Magic[2]>> /\ Magic[1] \in Bytes /\ Magic[2] \in Bytes
      /\ ProtocolVersion \in Bytes /\ 1 \in Bytes
  BY ByteFacts
<1> DEFINE m == Magic[1]
           k == Magic[2]
           v == ProtocolVersion
<1> HIDE DEF m, k, v
<1>2. m \in Bytes /\ k \in Bytes /\ v \in Bytes /\ Magic = <<m, k>>
  BY <1>1 DEF m, k, v
<1>3. <<m, k>> \o <<v, type, n, 1>> = <<m, k, v, type, n, 1>>
  <2> DEFINE a == <<m, k>>
             b == <<v, type, n, 1>>
             c == <<m, k, v, type, n, 1>>
             d == a \o b
  <2>1. a \in Seq(Bytes) /\ Len(a) = 2 /\ a[1] = m /\ a[2] = k
    BY <1>2
  <2>2. b \in Seq(Bytes) /\ Len(b) = 4 /\ b[1] = v /\ b[2] = type /\ b[3] = n /\ b[4] = 1
    BY <1>1, <1>2
  <2>3. c \in Seq(Bytes) /\ Len(c) = 6 /\ c[1] = m /\ c[2] = k /\ c[3] = v /\ c[4] = type
        /\ c[5] = n /\ c[6] = 1
    BY <1>1, <1>2
  <2> HIDE DEF a, b, c
  <2>4. /\ d \in Seq(Bytes) /\ Len(d) = Len(a) + Len(b)
        /\ (\A i \in 1 .. Len(a) : d[i] = a[i]) /\ \A i \in 1 .. Len(b) : d[Len(a) + i] = b[i]
    <3>1. a \in Seq(Bytes) /\ b \in Seq(Bytes)
      BY <2>1, <2>2
    <3> HIDE DEF d
    <3>2. d = a \o b
      BY DEF d
    <3> QED
      BY ONLY <3>1, <3>2, LongerFacts
  <2> HIDE DEF d
  <2>5. d[1] = m /\ d[2] = k
    BY <2>1, <2>4
  <2>6. d[3] = v /\ d[4] = type /\ d[5] = n /\ d[6] = 1
    <3>1. \A i \in 1 .. 4 : d[2 + i] = b[i]
      BY <2>1, <2>2, <2>4
    <3>2. d[2 + 1] = v /\ d[2 + 2] = type /\ d[2 + 3] = n /\ d[2 + 4] = 1
      BY <2>2, <3>1
    <3> QED
      BY <3>2
  <2>7. Len(d) = 6 /\ Len(c) = 6
    BY <2>1, <2>2, <2>3, <2>4
  <2>8. \A i \in 1 .. Len(d) : d[i] = c[i]
    <3>1. \A i \in 1 .. 6 : i = 1 \/ i = 2 \/ i = 3 \/ i = 4 \/ i = 5 \/ i = 6
      OBVIOUS
    <3> QED
      BY <2>3, <2>5, <2>6, <2>7, <3>1
  <2>9. d = c
    BY <2>3, <2>4, <2>7, <2>8, SeqEqual
  <2> QED
    BY <2>9 DEF a, b, c, d
<1>4. <<m, k, v, type, n, 1>> \in Seq(Bytes) /\ Len(<<m, k, v, type, n, 1>>) = 6
  BY <1>1, <1>2
<1> QED
  BY <1>2, <1>3, <1>4 DEF Header, m, k, v

LEMMA PayloadFacts ==
  ASSUME NEW type \in Bytes, NEW payload \in Payloads(type)
  PROVE  /\ payload \in Seq(Bytes) /\ Len(payload) \in 0 .. MaxPayload /\ Len(payload) \in Bytes
         /\ LET f == [type |-> type, sequence |-> 1, payload |-> payload]
            IN  parse_message(f) = f /\ validate(f) = f
<1>1. /\ payload \in UNION {[1 .. n -> {0, 1}] : n \in 0 .. MaxPayload}
      /\ LET f == [type |-> type, sequence |-> 1, payload |-> payload]
         IN  parse_message(f) = f /\ validate(f) = f
  BY DEF Payloads
<1>2. PICK n \in 0 .. MaxPayload : payload \in [1 .. n -> {0, 1}]
  BY <1>1
<1>3. {0, 1} \subseteq Bytes /\ MaxPayload \in Nat /\ MaxPayload \in Bytes
  BY ByteFacts
<1>4. n \in Nat
  BY <1>2, <1>3
<1>5. payload \in Seq(Bytes) /\ Len(payload) = n
  BY <1>2, <1>3, <1>4
<1>6. n \in Bytes
  BY <1>2, <1>3, ByteBounds
<1> QED
  BY <1>1, <1>2, <1>5, <1>6

\* What encode makes of a payload of n bytes.
IsEncoded(f, type, payload, n, size) ==
  /\ f \in Seq(Bytes) /\ Len(f) = size /\ n \in 0 .. MaxPayload /\ size \in Nat
  /\ f[1] = Magic[1] /\ f[2] = Magic[2] /\ f[3] = ProtocolVersion
  /\ f[4] = type /\ f[5] = n /\ f[6] = 1 /\ f[size] = Checksum(SubSeq(f, 1, size - 1))
  /\ SubSeq(f, 7, 6 + n) = payload
LEMMA FrameFacts ==
  ASSUME NEW type \in Bytes, NEW payload \in Payloads(type), NEW f,
         f = encode(type, 1, payload), NEW n, n = Len(payload), NEW size, size = n + 7
  PROVE  IsEncoded(f, type, payload, n, size)
<1> DEFINE head == Header(type, n)
           body == head \o payload
           sum == Checksum(body)
           last == <<sum>>
           most == 6 + n
<1>1. payload \in Seq(Bytes) /\ n \in 0 .. MaxPayload /\ n \in Bytes /\ type \in Bytes /\ n \in Nat
  BY PayloadFacts, ByteFacts
<1>2. /\ Magic \o <<ProtocolVersion, type, n, 1>> = head
      /\ head \in Seq(Bytes) /\ Len(head) = 6
  BY <1>1, HeaderIs
<1>3. head[1] = Magic[1] /\ head[2] = Magic[2] /\ head[3] = ProtocolVersion
      /\ head[4] = type /\ head[5] = n /\ head[6] = 1
  BY DEF Header
<1>4. f = Append(body, sum)
  BY <1>2 DEF encode
<1> HIDE DEF head
<1>5. /\ body \in Seq(Bytes) /\ Len(body) = Len(head) + Len(payload)
      /\ \A i \in 1 .. Len(head) : body[i] = head[i]
  <2>1. head \in Seq(Bytes) /\ payload \in Seq(Bytes)
    BY <1>1, <1>2
  <2> QED
    BY ONLY <2>1, LongerFacts DEF body
<1> HIDE DEF body
<1>6. sum \in Bytes
  BY <1>5, ChecksumIsByte
<1> HIDE DEF sum
<1>7. last \in Seq(Bytes) /\ f = body \o last
  BY <1>4, <1>5, <1>6, AppendIsConcat
<1>8. Len(body) = most /\ most \in Nat /\ size - 1 = most /\ most + 1 = size /\ size \in Nat
  BY <1>1, <1>2, <1>5
<1>9. /\ f \in Seq(Bytes) /\ Len(f) = size /\ f[size] = sum /\ \A i \in 1 .. 6 : f[i] = head[i]
  <2>1. /\ f \in Seq(Bytes) /\ Len(f) = Len(body) + 1 /\ f[Len(body) + 1] = sum
        /\ \A i \in 1 .. Len(body) : f[i] = body[i]
    <3>1. body \in Seq(Bytes) /\ sum \in Bytes
      BY <1>5, <1>6
    <3> QED
      BY ONLY <1>4, <3>1, OneMore
  <2>2. \A i \in 1 .. 6 : i \in 1 .. Len(body) /\ i \in 1 .. Len(head)
    BY <1>1, <1>2, <1>8
  <2> QED
    BY <1>5, <1>8, <2>1, <2>2
<1> HIDE DEF last
<1>10. SubSeq(f, 1, most) = body
  <2>1. 1 \in Nat \ {0} /\ most <= Len(body)
    BY <1>8
  <2>2. SubSeq(body \o last, 1, most) = SubSeq(body, 1, most)
    BY <1>5, <1>7, <1>8, <2>1, SubSeqOfLonger
  <2>3. SubSeq(body, 0 + 1, Len(body)) = body
    BY <1>5, DiscardNothing DEF discard_prefix
  <2>4. 0 + 1 = 1
    OBVIOUS
  <2> QED
    BY <1>7, <1>8, <2>2, <2>3, <2>4
<1>11. SubSeq(f, 7, most) = payload
  <2>1. 7 \in Nat \ {0} /\ most <= Len(body)
    BY <1>8
  <2>2. SubSeq(body \o last, 7, most) = SubSeq(body, 7, most)
    BY <1>5, <1>7, <1>8, <2>1, SubSeqOfLonger
  <2>3. discard_prefix(body, 6) = payload
    <3>1. 6 \in 0 .. Len(head)
      BY <1>2
    <3>2. discard_prefix(head \o payload, 6) = discard_prefix(head, 6) \o payload
      BY <1>1, <1>2, <3>1, DiscardOfLonger
    <3>3. discard_prefix(head, 6) \in Seq(Bytes) /\ Len(discard_prefix(head, 6)) = Len(head) - 6
      BY <1>2, <3>1, DiscardFacts
    <3>4. discard_prefix(head, 6) = << >>
      BY <1>2, <3>3, EmptySeq
    <3> QED
      BY <1>1, <3>2, <3>4, ConcatEmptySeq DEF body
  <2>4. SubSeq(body, 7, most) = discard_prefix(body, 6)
    BY <1>8 DEF discard_prefix
  <2> QED
    BY <1>7, <2>2, <2>3, <2>4
<1>12. \A i \in 1 .. 6 : f[i] = head[i]
  BY <1>9
<1>13. f[1] = head[1] /\ f[2] = head[2] /\ f[3] = head[3] /\ f[4] = head[4] /\ f[5] = head[5]
       /\ f[6] = head[6]
  BY <1>12
<1>14. f[size] = Checksum(SubSeq(f, 1, size - 1)) /\ SubSeq(f, 7, 6 + n) = payload
  BY <1>8, <1>9, <1>10, <1>11 DEF sum
<1> QED
  BY <1>1, <1>3, <1>8, <1>9, <1>13, <1>14 DEF IsEncoded
-----------------------------------------------------------------------------
(* StreamDecoder: the rounds up to where a frame begins.                   *)

LEMMA OnlyDamageMismatches ==
  ASSUME NEW b \in Seq(Bytes), ~Waits(b), Candidate(b).drop # 1
  PROVE  Candidate(b).says # Error("ChecksumMismatch")
<1> DEFINE size == HeaderSize + b[5] + ChecksumSize
           bad == b[size] # Checksum(SubSeq(b, 1, size - 1))
           f == Frame(b, b[5])
<1>1. ~(b[5] > MaxPayload)
  BY DEF Candidate
<1>2. ~bad
  <2>1. SUFFICES ASSUME bad PROVE FALSE
    OBVIOUS
  <2> QED
    BY <1>1, <2>1 DEF Candidate
<1>3. Candidate(b).says \in {Error("UnsupportedVersion"), f}
  BY <1>1, <1>2 DEF Candidate
<1>4. f # Error("ChecksumMismatch")
  <2>1. "type" \in DOMAIN f
    BY DEF Frame
  <2>2. "type" \notin DOMAIN Error("ChecksumMismatch")
    BY DEF Error
  <2> QED
    BY <2>1, <2>2
<1>5. Error("UnsupportedVersion") # Error("ChecksumMismatch")
  BY DEF Error
<1> QED
  BY <1>3, <1>4, <1>5

\* What a round reports comes before what the later ones do.
LEMMA ReportedInOrder ==
  ASSUME NEW b \in Seq(Bytes), ~Waits(Aligned(b)), NEW out, out = process[b].out,
         NEW later, later = process[AfterCandidate(Aligned(b))].out
  PROVE  /\ 1 \in DOMAIN out /\ out[1] = Verdict(Aligned(b))
         /\ \A i \in DOMAIN later : i + 1 \in DOMAIN out /\ out[i + 1] = later[i]
<1> DEFINE a == Aligned(b)
           r == AfterCandidate(a)
           v == Verdict(a)
           first == <<v>>
<1>1. a \in Seq(Bytes)
  BY AlignedFacts
<1>2. r \in Seq(Bytes) /\ v \in Verdicts
  BY <1>1, RestFacts
<1>3. process[b] = Reported(a, process[r])
  BY ProcessIs
<1> HIDE DEF r
<1>4. process[r] \in Results
  BY <1>2, ProcessSettles
<1>5. later \in Seq(Verdicts) /\ first \in Seq(Verdicts) /\ Len(first) = 1 /\ first[1] = v
  BY <1>2, <1>4 DEF Results, r
<1>6. out = first \o later
  BY <1>3 DEF Reported, r
<1> HIDE DEF first, v, a
<1>7. /\ out \in Seq(Verdicts) /\ Len(out) = Len(first) + Len(later) /\ Len(later) \in Nat
      /\ (\A i \in 1 .. Len(first) : out[i] = first[i])
      /\ \A i \in 1 .. Len(later) : out[Len(first) + i] = later[i]
  <2>1. first \in Seq(Verdicts) /\ later \in Seq(Verdicts)
    BY <1>5
  <2> QED
    BY ONLY <1>6, <2>1, LongerFacts
<1>8. DOMAIN out = 1 .. Len(out) /\ DOMAIN later = 1 .. Len(later)
  BY <1>5, <1>7, LenProperties
<1>9. 1 \in DOMAIN out /\ out[1] = v
  BY <1>5, <1>7, <1>8
<1>10. ASSUME NEW i \in DOMAIN later PROVE i + 1 \in DOMAIN out /\ out[i + 1] = later[i]
  <2>1. i \in 1 .. Len(later)
    BY <1>8
  <2>2. i + 1 \in 1 .. Len(out) /\ 1 + i = i + 1
    BY <1>5, <1>7, <2>1
  <2>3. out[1 + i] = later[i]
    BY <1>5, <1>7, <2>1
  <2> QED
    BY <1>8, <2>2, <2>3
<1> QED
  BY <1>9, <1>10 DEF v, a

\* The frame at begins is delivered, or covered, by what is heard from p on.
Heard(s, begins, says, p) ==
  LET out == process[discard_prefix(s, p)].out
  IN  \E i \in DOMAIN out :
        LET from == Len(s) - out[i].left
        IN  IsDelivered(out[i], from, begins, says) \/ IsCovered(out[i], from, begins)

LEMMA RoundBefore ==
  ASSUME NEW s \in Seq(Bytes), NEW begins \in Nat, NEW total, total = Len(s),
         begins + MaxFrame <= total, NEW at, at = begins + 1, MagicAt(s, at),
         NEW says, \A end \in Ends : Means(end, Candidate(discard_prefix(s, begins)).says) = says, NEW p \in 0 .. begins
  PROVE  \/ Heard(s, begins, says, p)
         \/ \E r \in 0 .. begins : r > p /\ (Heard(s, begins, says, r) => Heard(s, begins, says, p))
<1> DEFINE b == discard_prefix(s, p)
           g == Garbage(b)
           q == p + g
           a == discard_prefix(s, q)
           drop == Candidate(a).drop
           r == q + drop
           out == process[b].out
           v == Verdict(a)
<1>1. total \in Nat /\ p \in Nat /\ p \in 0 .. Len(s) /\ MaxPayload \in Nat /\ begins + MaxPayload + 7 <= total
  BY LenProperties, Sizes
<1>2. b \in Seq(Bytes) /\ Len(b) = total - p
  BY <1>1, DiscardFacts
<1> HIDE DEF b
<1>3. g \in 0 .. Len(b) /\ \A i \in 1 .. g : ~MagicAt(b, i)
  BY <1>2, GarbageFacts
<1> HIDE DEF g
<1>4. p + g <= begins /\ g \in Nat
  <2> DEFINE i == at - p
  <2>1. i \in 1 .. Len(s) - p /\ p + i = at
    BY <1>1
  <2> HIDE DEF i
  <2>2. MagicAt(b, i)
    BY <1>1, <2>1, MagicInRest DEF b
  <2>3. ~(i \in 1 .. g)
    BY <1>3, <2>2
  <2> QED
    BY <1>1, <1>2, <1>3, <2>1, <2>3 DEF i
<1>5. q \in Nat /\ q \in 0 .. begins /\ q <= Len(s) /\ q = p + g /\ q >= p /\ q \in 0 .. Len(s)
  BY <1>1, <1>4
<1> HIDE DEF q
<1>6. Aligned(b) = a
  <2>1. discard_prefix(discard_prefix(s, p), g) = discard_prefix(s, q)
    BY ONLY <1>1, <1>4, <1>5, DiscardTwice
  <2> QED
    BY <2>1 DEF Aligned, b, g
<1>7. a \in Seq(Bytes) /\ Len(a) = total - q
  BY <1>5, DiscardFacts
<1> HIDE DEF a
<1>8. ~Waits(a)
  <2> DEFINE l == Len(a)
             n == a[5]
  <2>1. l \in Nat /\ l >= MaxPayload + 7
    BY <1>1, <1>5, <1>7
  <2>2. n \in Nat
    <3>1. 5 \in 1 .. Len(a)
      BY <1>1, <2>1
    <3> QED
      BY <1>7, <3>1, ByteFacts, ElementOfSeq
  <2> HIDE DEF l, n
  <2>3. ~(l < HeaderSize) /\ ~(n <= MaxPayload /\ l < HeaderSize + n + ChecksumSize)
    BY <1>1, <2>1, <2>2, Sizes
  <2> QED
    BY <2>3 DEF Waits, l, n
<1>9. drop \in 1 .. Len(a)
  BY <1>7, <1>8, CompleteFacts
<1> HIDE DEF drop
<1>10. drop \in Nat /\ drop >= 1 /\ r \in Nat /\ r = q + drop /\ r <= Len(s) /\ r > p
  BY <1>1, <1>5, <1>7, <1>9
<1> HIDE DEF r
<1>11. AfterCandidate(a) = discard_prefix(s, r)
  <2>1. discard_prefix(discard_prefix(s, q), drop) = discard_prefix(s, r)
    BY ONLY <1>5, <1>10, DiscardTwice
  <2> QED
    BY <2>1 DEF AfterCandidate, a, drop
<1>12. /\ 1 \in DOMAIN out /\ out[1] = v
       /\ \A i \in DOMAIN process[discard_prefix(s, r)].out :
            i + 1 \in DOMAIN out /\ out[i + 1] = process[discard_prefix(s, r)].out[i]
  <2>1. ~Waits(Aligned(b))
    BY <1>6, <1>8
  <2> QED
    BY <1>2, <1>6, <1>11, <2>1, ReportedInOrder
<1>13. v.left = total - q /\ v.took = drop /\ v.says = Candidate(a).says
  BY <1>7 DEF Verdict, drop
<1> HIDE DEF v, out
<1>14. total - v.left = q
  BY <1>1, <1>5, <1>13
<1>15. CASE q = begins
  <2>1. \A end \in Ends : Means(end, v.says) = says
    BY <1>13, <1>15 DEF a
  <2>2. IsDelivered(out[1], Len(s) - out[1].left, begins, says)
    BY <1>12, <1>14, <1>15, <2>1 DEF IsDelivered, Ends
  <2>3. Heard(s, begins, says, p)
    BY <1>12, <2>2 DEF Heard, out, b
  <2> QED
    BY <2>3
<1>16. CASE q # begins /\ r <= begins
  <2>1. r \in 0 .. begins /\ r > p
    BY <1>10, <1>16
  <2>2. ASSUME Heard(s, begins, says, r) PROVE Heard(s, begins, says, p)
    <3> DEFINE later == process[discard_prefix(s, r)].out
    <3>1. PICK i \in DOMAIN later :
            \/ IsDelivered(later[i], Len(s) - later[i].left, begins, says)
            \/ IsCovered(later[i], Len(s) - later[i].left, begins)
      BY <2>2 DEF Heard
    <3>2. i + 1 \in DOMAIN out /\ out[i + 1] = later[i]
      BY <1>12, <3>1
    <3> HIDE DEF later
    <3> QED
      BY <3>1, <3>2 DEF Heard, out, b
  <2> QED
    BY <2>1, <2>2
<1>17. CASE q # begins /\ ~(r <= begins)
  <2>1. q < begins /\ q + drop > begins /\ drop > 1 /\ drop # 1
    BY <1>1, <1>5, <1>10, <1>17
  <2>2. Candidate(a).says # Error("ChecksumMismatch")
    BY <1>7, <1>8, <2>1, OnlyDamageMismatches DEF drop
  <2>3. IsCovered(out[1], Len(s) - out[1].left, begins)
    BY <1>12, <1>13, <1>14, <2>1, <2>2 DEF IsCovered
  <2>4. Heard(s, begins, says, p)
    BY <1>12, <2>3 DEF Heard, out, b
  <2> QED
    BY <2>4
<1> QED
  BY <1>15, <1>16, <1>17

LEMMA HeardFromTheStart ==
  ASSUME NEW s \in Seq(Bytes), NEW begins \in Nat, NEW total, total = Len(s),
         begins + MaxFrame <= total, NEW at, at = begins + 1, MagicAt(s, at),
         NEW says, \A end \in Ends : Means(end, Candidate(discard_prefix(s, begins)).says) = says
  PROVE  Heard(s, begins, says, 0)
<1> DEFINE T == {n \in Nat : \A p \in 0 .. begins : begins - p < n => Heard(s, begins, says, p)}
<1>1. 0 \in T
  OBVIOUS
<1>2. ASSUME NEW n \in Nat, n \in T PROVE n + 1 \in T
  <2>1. ASSUME NEW p \in 0 .. begins, begins - p < n + 1 PROVE Heard(s, begins, says, p)
    <3>1. \/ Heard(s, begins, says, p)
          \/ \E r \in 0 .. begins : r > p /\ (Heard(s, begins, says, r) => Heard(s, begins, says, p))
      BY RoundBefore
    <3>2. ASSUME NEW r \in 0 .. begins, r > p PROVE Heard(s, begins, says, r)
      <4>1. begins - r < n
        BY <2>1, <3>2
      <4> QED
        BY <1>2, <4>1
    <3> QED
      BY <3>1, <3>2
  <2> QED
    BY <2>1
<1> HIDE DEF T
<1>3. Nat \subseteq T
  BY <1>1, <1>2, SetInduction
<1>4. begins + 1 \in T
  BY <1>3
<1> QED
  BY <1>4 DEF T

-----------------------------------------------------------------------------
(* StreamDecoder: a frame survives whatever was received before it.        *)

LEMMA WholeFrameIsValid ==
  ASSUME NEW type \in Bytes, NEW payload \in Payloads(type), NEW f,
         f = encode(type, 1, payload), NEW n, n = Len(payload), NEW size, size = n + 7
  PROVE  /\ f \in Seq(Bytes) /\ ~Waits(f) /\ Len(f) >= 7 /\ f[1] = Magic[1] /\ f[2] = Magic[2]
         /\ \A end \in Ends : Means(end, Candidate(f).says) =
                               [type |-> type, sequence |-> 1, payload |-> payload]
<1> DEFINE record == [type |-> type, sequence |-> 1, payload |-> payload]
<1>2. /\ f \in Seq(Bytes) /\ Len(f) = size /\ n \in 0 .. MaxPayload /\ size \in Nat
      /\ f[1] = Magic[1] /\ f[2] = Magic[2] /\ f[3] = ProtocolVersion
      /\ f[4] = type /\ f[5] = n /\ f[6] = 1 /\ f[size] = Checksum(SubSeq(f, 1, size - 1))
      /\ SubSeq(f, 7, 6 + n) = payload
  <2>1. IsEncoded(f, type, payload, n, size)
    BY FrameFacts
  <2> QED
    BY <2>1 DEF IsEncoded
<1>3. MaxPayload \in Nat /\ HeaderSize + n + ChecksumSize = size
  BY <1>2, Sizes
<1>4. ~Waits(f)
  BY <1>2, <1>3, Sizes DEF Waits
<1>5. Frame(f, f[5]) = record
  BY <1>2 DEF Frame
<1>6. \A end \in Ends : Means(end, record) = record
  <2>1. parse_message(record) = record /\ validate(record) = record
    BY PayloadFacts
  <2> QED
    BY <2>1 DEF Means
<1>7. ~(n > MaxPayload)
  BY <1>2, <1>3
<1>8. Candidate(f).says = Frame(f, f[5])
  BY <1>2, <1>3, <1>7 DEF Candidate
<1> QED
  BY <1>2, <1>4, <1>5, <1>6, <1>8

LEMMA FrameSurvives ==
  ASSUME NEW b \in Seq(Bytes), NEW type \in Bytes, NEW payload \in Payloads(type)
  PROVE  Survives(b, type, payload)
<1> DEFINE f == encode(type, 1, payload)
           fill == Filler
           rest == f \o fill
           s == b \o rest
           begins == Len(b)
           at == begins + 1
           says == [type |-> type, sequence |-> 1, payload |-> payload]
<1>1. f \in Seq(Bytes) /\ ~Waits(f) /\ Len(f) >= 7 /\ f[1] = Magic[1] /\ f[2] = Magic[2]
      /\ \A end \in Ends : Means(end, Candidate(f).says) = says
  BY WholeFrameIsValid
<1> HIDE DEF f, says
<1>2. fill \in Seq(Bytes) /\ Len(fill) = MaxFrame /\ MaxFrame \in Nat
  <2>1. MaxFrame \in Nat /\ 0 \in Bytes
    BY Sizes, ByteFacts
  <2> QED
    BY <2>1 DEF Filler
<1> HIDE DEF fill
<1>3. /\ rest \in Seq(Bytes) /\ Len(rest) = Len(f) + Len(fill) /\ Len(f) \in Nat
      /\ \A i \in 1 .. Len(f) : rest[i] = f[i]
  BY ONLY <1>1, <1>2, LongerFacts
<1>4. ~Waits(rest) /\ Candidate(rest) = Candidate(f)
  BY <1>1, <1>2, CandidateOfLonger
<1> HIDE DEF rest
<1>5. s \in Seq(Bytes) /\ Len(s) = begins + Len(rest) /\ begins \in Nat
  BY <1>3, LongerFacts
<1>6. discard_prefix(s, begins) = rest
  <2>1. begins \in 0 .. Len(b)
    BY <1>5
  <2>2. discard_prefix(b \o rest, begins) = discard_prefix(b, begins) \o rest
    BY <1>3, <2>1, DiscardOfLonger
  <2>3. discard_prefix(b, begins) \in Seq(Bytes) /\ Len(discard_prefix(b, begins)) = Len(b) - begins
    BY <2>1, DiscardFacts
  <2>4. discard_prefix(b, begins) = << >>
    BY <1>5, <2>3, EmptySeq
  <2> QED
    BY <1>3, <2>2, <2>4, ConcatEmptySeq
<1> HIDE DEF s, begins
<1>7. begins + MaxFrame <= Len(s) /\ Len(s) \in Nat /\ Len(s) - begins = Len(rest)
  BY <1>1, <1>2, <1>3, <1>5
<1>8. MagicAt(s, at)
  <2>1. MagicAt(rest, 1)
    <3>1. 1 \in 1 .. Len(f) /\ 2 \in 1 .. Len(f) /\ 1 + 1 = 2
      BY <1>1, <1>3
    <3>2. rest[1] = f[1] /\ rest[2] = f[2]
      BY <1>3, <3>1
    <3> QED
      BY <1>1, <3>1, <3>2 DEF MagicAt
  <2>2. begins \in 0 .. Len(s) /\ 1 \in 1 .. Len(s) - begins
    BY <1>1, <1>2, <1>3, <1>5, <1>7
  <2>3. MagicAt(discard_prefix(s, begins), 1) <=> MagicAt(s, begins + 1)
    BY ONLY <1>5, <2>2, MagicInRest
  <2> QED
    BY <1>6, <2>1, <2>3
<1>9. /\ \A end \in Ends : Means(end, Candidate(discard_prefix(s, begins)).says) = says
      /\ at = begins + 1
  BY <1>1, <1>4, <1>6
<1> HIDE DEF at
<1>10. Heard(s, begins, says, 0)
  BY <1>5, <1>7, <1>8, <1>9, HeardFromTheStart
<1>11. discard_prefix(s, 0) = s
  BY <1>5, DiscardNothing
<1>12. Followed(b, encode(type, 1, payload)) = s
  BY DEF Followed, s, rest, f, fill
<1> QED
  BY <1>10, <1>11, <1>12 DEF Heard, Survives, says, begins

LEMMA CutsAgree == ASSUME NEW cut \in Cuts PROVE Agree(Means("host", cut), Means("device", cut))
<1>1. CASE ~IsFrame(cut)
  BY <1>1 DEF Means, Agree
<1>2. CASE IsFrame(cut)
  <2>1. PICK b : cut = Candidate(b).says
    BY DEF Cuts
  <2>2. cut = Frame(b, b[5])
    BY <1>2, <2>1 DEF Candidate, IsFrame, Error
  <2>3. Means("host", cut) = parse_message(cut) /\ Means("device", cut) = validate(cut)
    BY <1>2 DEF Means
  <2>4. CASE LengthIsWrong(cut) \/ (AxisIsWrong(cut) /\ ~HatIsWrong(cut))
    BY <2>3, <2>4 DEF parse_message, validate, Agree
  <2>5. CASE ~LengthIsWrong(cut) /\ HatIsWrong(cut)
    BY <2>3, <2>5 DEF parse_message, validate, Agree
  <2>6. CASE ~LengthIsWrong(cut) /\ ~AxisIsWrong(cut) /\ ~HatIsWrong(cut)
    <3>1. validate(cut) = cut
      BY <2>6 DEF validate
    <3>2. CASE SourceIsWrong(cut)
      <4>1. parse_message(cut) = Error("InvalidInstallSource") /\ cut.type = ReceiptType
        BY <2>6, <3>2 DEF parse_message, SourceIsWrong
      <4> QED
        BY <1>2, <2>3, <3>1, <4>1 DEF Agree
    <3>3. CASE ~SourceIsWrong(cut)
      BY <2>3, <2>6, <3>1, <3>3 DEF parse_message, Agree
    <3> QED
      BY <3>2, <3>3
  <2> QED
    BY <2>4, <2>5, <2>6
<1> QED
  BY <1>1, <1>2

LEMMA FramedIsSafe == FramingInv => EndsAgree /\ DamageIsConfined
<1> SUFFICES ASSUME FramingInv PROVE EndsAgree /\ DamageIsConfined
  OBVIOUS
<1> DEFINE b == link.host \o link.unread
           out == process[b].out
           hears == Says("host", out)
           answers == Says("device", out)
<1>1. link \in Links /\ Settled(link.device) /\ answers = link.heard /\ process[b].buffer = link.device
  BY DEF FramingInv
<1>2. b \in Seq(Bytes)
  BY <1>1, ConcatProperties DEF Links
<1> HIDE DEF b
<1>3. process[b] \in Results
  BY <1>2, ProcessSettles
<1>4. out \in Seq(Verdicts) /\ "host" \in Ends /\ "device" \in Ends
  BY <1>3 DEF Results, Ends
<1> HIDE DEF out
<1>5. /\ hears \in Seq(Sayings) /\ Len(hears) = Len(out) /\ Len(out) \in Nat
      /\ \A i \in 1 .. Len(out) : hears[i] = Means("host", out[i].says)
  BY <1>4, SaysFacts
<1>6. Len(answers) = Len(out) /\ \A i \in 1 .. Len(out) : answers[i] = Means("device", out[i].says)
  BY <1>4, SaysFacts
<1>7. \A i \in 1 .. Len(out) : out[i].says \in Cuts
  <2>1. \A i \in 1 .. Len(out) : out[i] \in Verdicts
    BY <1>4, ElementOfSeq
  <2> QED
    BY <2>1 DEF Verdicts
<1> HIDE DEF hears, answers
<1>8. ASSUME NEW i \in DOMAIN hears PROVE Agree(hears[i], answers[i])
  <2>1. i \in 1 .. Len(out)
    BY <1>5, LenProperties
  <2>2. hears[i] = Means("host", out[i].says) /\ answers[i] = Means("device", out[i].says)
    BY <1>5, <1>6, <2>1
  <2>3. out[i].says \in Cuts
    BY <1>7, <2>1
  <2> QED
    BY <2>2, <2>3, CutsAgree
<1>9. Len(link.device) < MaxFrame
  BY <1>1, SettledIsShort
<1>10. EndsAgree
  BY <1>1, <1>5, <1>6, <1>8, <1>9 DEF EndsAgree, host_push, hears, out, b
<1>11. link.device \in Seq(Bytes)
  BY <1>1 DEF Links
<1> QED
  BY <1>10, <1>11, FrameSurvives DEF DamageIsConfined

LEMMA FramingStarts == LinkInit => FramingInv
  BY FreshIsFramed DEF LinkInit

\* The framing is safe: whatever bytes arrive in whatever pieces, host and device
\* cut them into the same candidates and differ about one in the two ways the
\* code does, and no damage costs a frame that arrives whole after it.
THEOREM LinkIsSafe == LinkSpec => [](EndsAgree /\ DamageIsConfined)
  BY FramingStarts, LinkKeeps, FramedIsSafe, PTL DEF LinkSpec

\* The same in every behaviour that the run explores.
THEOREM FramingHolds ==
  OutputInit /\ [][OutputNext]_<<activeVars, timing_vars, link, part>> => []FramingIsSafe
<1>1. OutputInit => FramingInv
  BY FramingStarts DEF OutputInit
<1>2. FramingInv /\ [OutputNext]_<<activeVars, timing_vars, link, part>> => FramingInv'
  <2>1. OutputNext => [LinkNext]_link
    BY DEF OutputNext
  <2>2. UNCHANGED <<activeVars, timing_vars, link, part>> => UNCHANGED link
    OBVIOUS
  <2> QED
    BY <2>1, <2>2, LinkKeeps
<1>3. FramingInv => FramingIsSafe
  BY FramedIsSafe DEF FramingIsSafe
<1> QED
  BY <1>1, <1>2, <1>3, PTL
=============================================================================
