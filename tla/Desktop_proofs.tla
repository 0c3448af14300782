---------------------------- MODULE Desktop_proofs ----------------------------
(***************************************************************************)
(* What TLAPS proves of the desktop bindings.  Of the input worker and its  *)
(* mailbox, for any capacities, profiles and channels: the staged feedback  *)
(* is fresh, a held key belongs to the generation applied, a successful     *)
(* disconnect has let go of everything, a profile switch presses nothing,   *)
(* and the mailbox loses nothing it owes.  Of the bindings engine, for any  *)
(* controls, pads, profiles and failures of the sink: it holds what it owes.*)
(*                                                                         *)
(* None of the worker's first four is inductive.  DesktopInv adds what they *)
(* rest on: the epoch of the staged feedback is the mailbox's; between its  *)
(* press and its look for an overflow the worker's key is of a generation   *)
(* between the applied and the current one; a running engine has seen the   *)
(* last snapshot, so what is blocked at a switch stays blocked until the    *)
(* button was up; every channel that a queued control asks is used, so the  *)
(* call the supervisor waits for is the last message in the queues, and no  *)
(* snapshot can follow it.                                                  *)
(*                                                                         *)
(* That nothing owed is lost is inductive over MailboxTyped, once it is     *)
(* known what the folds of the model make of a sequence with one message    *)
(* more: what an overflow keeps of the debts is what the kept messages owe, *)
(* and a snapshot in the place of the last one of its run owes no less.     *)
(*                                                                         *)
(* What the engine owes is not inductive either: HeldIsOwed speaks of the   *)
(* engine between calls, and a call presses and lets go of output by output *)
(* through a sink that may fail at any of them.  Sound, at the end of the   *)
(* module, says that every output is counted once for each place that holds *)
(* it down (a control's chord, a pad's two regions), what a pad's filter,   *)
(* guard and anchor tell of its regions, that every latch has a chord of    *)
(* the profile, and that without a baseline nothing is held; Fine and       *)
(* IsKnown say what is left of it inside a call and after a failure.        *)
(***************************************************************************)
EXTENDS DesktopWorker, BindingsEngine, RecursionTheorems, FiniteSetTheorems, SequenceTheorems, TLAPS

Overflows == {Overflow}
Messages == Snapshot \cup Overflows \cup Control
Mailboxes == [messages : Seq(Messages), snapshot_count : Nat, control_count : Nat,
              previous : Masks \cup {None}, latest : Masks \cup {None},
              generation : 0 .. MaxGeneration, feedback_epoch : 0 .. MaxEpoch,
              accepting : BOOLEAN]
Staged == [staged : 0 .. MaxEpoch \cup {None}, discard : BOOLEAN, epoch : 0 .. MaxEpoch]
AnswerStates == {"unused", "pending", "ok", "err"}
SupervisorStates == {"free", "gone"} \cup Safety

MailboxTyped ==
  /\ mailbox \in Mailboxes /\ outputs \in Staged /\ batch \in Seq(Messages)
  /\ acks \in [Acks -> AnswerStates]
  /\ mailbox.latest # None => mailbox.messages # << >>
WorkerTyped ==
  /\ runtime \in Runtime /\ applied \in 0 .. MaxGeneration /\ step \in Steps
  /\ supervisor \in SupervisorStates /\ waiting \in Acks \cup {NoAck}
  /\ quiet \in BOOLEAN /\ inert \in BOOLEAN

\* The worker and the supervisor agree on the feedback's epoch.
FeedbackEpochs ==
  /\ outputs.epoch = mailbox.feedback_epoch
  /\ outputs.staged # None => outputs.staged = outputs.epoch

HoldsBySink(r) == r.held => r.sink /\ r.profile # NoProfile

\* A held key stems from the generation applied, until the worker has looked
\* whether the mailbox overflowed.
Generations ==
  /\ applied <= mailbox.generation
  /\ runtime.held =>
       /\ pressed_in \in Int /\ applied <= pressed_in /\ pressed_in <= mailbox.generation
       /\ step \notin {"feedback", "recheck"} => pressed_in = applied

\* What an engine that runs has seen is the last snapshot, or nothing.
SeesLast(r) ==
  r.profile # NoProfile /\ (r.sink \/ r.profile \notin Configured) /\ r.last # None =>
    r.previous \in {None, r.last}

\* Since a switch with the button down nobody has seen it up.
InertIsBlocked == inert => ~runtime.held /\ runtime.previous # Up /\ runtime.last # Up

RuntimeInv == HoldsBySink(runtime) /\ SeesLast(runtime) /\ InertIsBlocked /\ Generations

Asks(message, ack) == IsControl(message) /\ message.ack = ack
NoSnapshotIn(messages) == \A i \in DOMAIN messages : ~IsSnapshot(messages[i])

AcksAreUsed ==
  \A messages \in {mailbox.messages, batch} : \A i \in DOMAIN messages : \A ack \in Acks :
    Asks(messages[i], ack) => acks[ack] # "unused"

HoldsNothing == /\ ~runtime.held /\ runtime.last = None
            /\ NoSnapshotIn(mailbox.messages) /\ NoSnapshotIn(batch)

\* The call that the supervisor waits for is the last thing it sent.
CallIsLast ==
  supervisor \in Safety =>
    /\ waiting \in Acks
    /\ \A i \in DOMAIN mailbox.messages : Asks(mailbox.messages[i], waiting) =>
         i = Len(mailbox.messages) /\ mailbox.messages[i].kind \in Safety
    /\ \A i \in DOMAIN batch : Asks(batch[i], waiting) =>
         i = Len(batch) /\ batch[i].kind \in Safety /\ mailbox.messages = << >>
    /\ acks[waiting] = "ok" => HoldsNothing

CallInv == AcksAreUsed /\ CallIsLast /\ (quiet => HoldsNothing)

DesktopInv == MailboxTyped /\ WorkerTyped /\ FeedbackEpochs /\ RuntimeInv /\ CallInv

-----------------------------------------------------------------------------
(* What is folded out of the messages.                                     *)

\* OnlyControls, by the function that it is the last value of.
KeepsControls(s, f) ==
  f = [n \in 0 .. Len(s) |->
         IF n = 0 THEN << >>
         ELSE IF IsControl(s[n]) THEN Append(f[n - 1], s[n]) ELSE f[n - 1]]

LEMMA OnlyControlsIs ==
  ASSUME NEW M, NEW s \in Seq(M)
  PROVE  \E f \in [0 .. Len(s) -> Seq(M)] :
           /\ OnlyControls(s) = f[Len(s)] /\ f[0] = << >>
           /\ \A n \in 1 .. Len(s) :
                f[n] = IF IsControl(s[n]) THEN Append(f[n - 1], s[n]) ELSE f[n - 1]
<1> DEFINE N == Len(s)
           X == Seq(M)
           Next1(n, t) == IF IsControl(s[n]) THEN Append(t, s[n]) ELSE t
           Step == [p \in (1 .. N) \X X |-> Next1(p[1], p[2])]
           g == CHOOSE f : KeepsControls(s, f)
<1>1. N \in Nat /\ \A n \in 1 .. N : s[n] \in M
  BY LenProperties, ElementOfSeq
<1>2. << >> \in X
  BY EmptySeq
<1>3. \A n \in 1 .. N, t \in X : Next1(n, t) \in X
  BY <1>1, AppendProperties
<1>4. Step \in [(1 .. N) \X X -> X]
  <2> HIDE DEF Next1, X
  <2>1. \A q \in (1 .. N) \X X : q[1] \in 1 .. N /\ q[2] \in X
    OBVIOUS
  <2> QED
    BY <1>3, <2>1
<1>5. \A n \in 1 .. N, t \in X : Step[<<n, t>>] = Next1(n, t)
  <2> HIDE DEF Next1, X
  <2> QED
    OBVIOUS
<1> HIDE DEF Step
<1>6. PICK f \in [0 .. N -> X] : f[0] = << >> /\ \A n \in 1 .. N : f[n] = Step[<<n, f[n - 1]>>]
  <2> HIDE DEF X, N
  <2>1. Step \in Moves(N, X)
    BY <1>4 DEF Moves
  <2>2. \E f : Recursion(X, << >>, N, Step, f)
    BY <1>1, <1>2, <2>1, RecursionExists
  <2> QED
    BY <2>2 DEF Recursion
<1>7. \A n \in 1 .. N : f[n - 1] \in X
  <2> HIDE DEF X, N
  <2>1. \A n \in 1 .. N : n - 1 \in 0 .. N
    BY <1>1
  <2> QED
    BY <1>6, <2>1
<1>8. \A n \in 1 .. N : f[n] = Next1(n, f[n - 1])
  <2> HIDE DEF Next1, X
  <2> QED
    BY <1>5, <1>6, <1>7
<1>9. KeepsControls(s, f)
  <2> HIDE DEF X
  <2>1. f = [n \in 0 .. N |-> f[n]]
    BY <1>6
  <2>2. \A n \in 0 .. N : f[n] = IF n = 0 THEN << >> ELSE Next1(n, f[n - 1])
    <3> HIDE DEF N, Next1
    <3>1. \A n \in 0 .. N : n # 0 => n \in 1 .. N
      BY <1>1
    <3> QED
      BY <1>6, <1>8, <3>1
  <2> QED
    BY <2>1, <2>2 DEF KeepsControls
<1>10. KeepsControls(s, g)
  BY <1>9
<1>11. OnlyControls(s) = g[N]
  BY DEF OnlyControls, KeepsControls
<1> HIDE DEF g
<1>12. \A n \in 0 .. N : g[n] = IF n = 0 THEN << >> ELSE Next1(n, g[n - 1])
  BY <1>10, Zenon DEF KeepsControls
<1> HIDE DEF N, X
<1>13. g[0] = f[0]
  <2>1. 0 \in 0 .. N
    BY <1>1
  <2>2. g[0] = << >>
    BY <2>1, <1>12
  <2> QED
    BY <1>6, <2>2
<1>14. ASSUME NEW k \in 0 .. N PROVE f[k] = g[k]
  <2>1. ASSUME NEW i \in 1 .. k, f[i - 1] = g[i - 1] PROVE f[i] = g[i]
    <3>1. i \in 1 .. N /\ i \in 0 .. N /\ i # 0
      BY <1>1, <2>1
    <3> QED
      BY <1>8, <1>12, <2>1, <3>1
  <2>2. k \in Nat
    BY <1>1
  <2> QED
    BY <1>13, <2>1, <2>2, RecursionAgrees
<1>15. N \in 0 .. N
  BY <1>1
<1>16. OnlyControls(s) = f[N]
  BY <1>11, <1>14, <1>15
<1> QED
  BY <1>6, <1>8, <1>16 DEF N, X

LEMMA OnlyControlsGrows ==
  ASSUME NEW M, NEW s \in Seq(M), NEW m \in M
  PROVE  /\ OnlyControls(s) \in Seq(M)
         /\ OnlyControls(Append(s, m)) =
              IF IsControl(m) THEN Append(OnlyControls(s), m) ELSE OnlyControls(s)
<1> DEFINE t == Append(s, m)
           N == Len(s)
<1>1. /\ t \in Seq(M) /\ N \in Nat /\ Len(t) = N + 1 /\ t[N + 1] = m
      /\ \A i \in 1 .. N : t[i] = s[i]
  BY OneMore
<1>2. PICK f \in [0 .. N -> Seq(M)] :
        /\ OnlyControls(s) = f[N] /\ f[0] = << >>
        /\ \A n \in 1 .. N : f[n] = IF IsControl(s[n]) THEN Append(f[n - 1], s[n]) ELSE f[n - 1]
  BY OnlyControlsIs
<1> HIDE DEF t
<1>3. PICK g \in [0 .. Len(t) -> Seq(M)] :
        /\ OnlyControls(t) = g[Len(t)] /\ g[0] = << >>
        /\ \A n \in 1 .. Len(t) :
             g[n] = IF IsControl(t[n]) THEN Append(g[n - 1], t[n]) ELSE g[n - 1]
  <2>1. t \in Seq(M)
    BY <1>1
  <2> QED
    BY ONLY <2>1, OnlyControlsIs
<1> HIDE DEF N
<1>4. f[N] = g[N]
  <2>1. ASSUME NEW i \in 1 .. N, f[i - 1] = g[i - 1] PROVE f[i] = g[i]
    <3>1. i \in 1 .. Len(t) /\ t[i] = s[i]
      BY ONLY <1>1, <2>1, SMTT(30)
    <3> QED
      BY <1>2, <1>3, <2>1, <3>1
  <2>2. f[0] = g[0] /\ N \in Nat
    BY <1>1, <1>2, <1>3
  <2> QED
    BY ONLY <2>1, <2>2, RecursionAgrees
<1>5. N + 1 \in 1 .. Len(t) /\ N + 1 - 1 = N /\ N \in 0 .. N
  BY <1>1
<1>6. g[N + 1] = IF IsControl(m) THEN Append(g[N], m) ELSE g[N]
  <2>1. g[N + 1] = IF IsControl(t[N + 1]) THEN Append(g[N + 1 - 1], t[N + 1]) ELSE g[N + 1 - 1]
    BY <1>3, <1>5
  <2> QED
    BY <1>1, <1>5, <2>1
<1> QED
  BY <1>1, <1>2, <1>3, <1>4, <1>5, <1>6 DEF t

LEMMA NothingIsKept == OnlyControls(<< >>) = << >>
<1>1. << >> \in Seq({}) /\ Len(<< >>) = 0
  BY EmptySeq
<1> QED
  BY <1>1, OnlyControlsIs

\* An overflow keeps messages of the mailbox, and controls only.
LEMMA ControlsAreKept ==
  ASSUME NEW s \in Seq(Messages)
  PROVE  /\ OnlyControls(s) \in Seq(Messages)
         /\ \A k \in DOMAIN OnlyControls(s) :
              \E i \in DOMAIN s : OnlyControls(s)[k] = s[i] /\ IsControl(s[i])
<1> DEFINE Stems(q) == \A k \in DOMAIN OnlyControls(q) :
                         \E i \in DOMAIN q : OnlyControls(q)[k] = q[i] /\ IsControl(q[i])
           S == {q \in Seq(Messages) : OnlyControls(q) \in Seq(Messages) /\ Stems(q)}
<1>1. << >> \in S
  <2>1. << >> \in Seq(Messages) /\ Len(<< >>) = 0
    BY EmptySeq
  <2>2. DOMAIN << >> = 1 .. 0
    BY <2>1, LenProperties
  <2>3. DOMAIN << >> = {}
    BY <2>2
  <2>4. OnlyControls(<< >>) \in Seq(Messages) /\ DOMAIN OnlyControls(<< >>) = {}
    BY <2>1, <2>3, NothingIsKept, Zenon
  <2> QED
    BY <2>1, <2>4
<1>2. ASSUME NEW q \in Seq(Messages), NEW m \in Messages, q \in S
      PROVE  Append(q, m) \in S
  <2> DEFINE t == Append(q, m)
             c == OnlyControls(q)
             n == Len(q)
  <2>1. /\ t \in Seq(Messages) /\ n \in Nat /\ t[n + 1] = m /\ (\A i \in 1 .. n : t[i] = q[i])
        /\ DOMAIN q = 1 .. n /\ DOMAIN t = 1 .. n + 1
    BY OneMore
  <2>2. c \in Seq(Messages) /\ OnlyControls(t) = IF IsControl(m) THEN Append(c, m) ELSE c
    BY OnlyControlsGrows
  <2>3. \A k \in DOMAIN c : \E i \in DOMAIN q : c[k] = q[i] /\ IsControl(q[i])
    BY <1>2
  <2> HIDE DEF t, c, n
  <2>4. \A k \in DOMAIN c : \E i \in DOMAIN t : c[k] = t[i] /\ IsControl(t[i])
    BY <2>1, <2>3
  <2>5. CASE IsControl(m)
    <3>1. /\ Append(c, m) \in Seq(Messages) /\ Append(c, m)[Len(c) + 1] = m
          /\ \A i \in 1 .. Len(c) : Append(c, m)[i] = c[i]
          /\ Len(c) \in Nat /\ DOMAIN c = 1 .. Len(c) /\ DOMAIN Append(c, m) = 1 .. Len(c) + 1
      BY <2>2, OneMore
    <3>2. OnlyControls(t) = Append(c, m) /\ n + 1 \in DOMAIN t
      BY <2>1, <2>2, <2>5
    <3> DEFINE d == Append(c, m)
    <3> HIDE DEF d
    <3>3. ASSUME NEW k \in DOMAIN d PROVE \E i \in DOMAIN t : d[k] = t[i] /\ IsControl(t[i])
      <4>1. CASE k = Len(c) + 1
        BY <2>1, <2>5, <3>1, <3>2, <4>1 DEF d
      <4>2. CASE k \in 1 .. Len(c)
        BY <2>4, <3>1, <4>2 DEF d
      <4> QED
        BY <3>1, <4>1, <4>2 DEF d
    <3> QED
      BY <2>1, <3>1, <3>2, <3>3 DEF t, d
  <2>6. CASE ~IsControl(m)
    BY <2>1, <2>2, <2>4, <2>6 DEF t
  <2> QED
    BY <2>5, <2>6
<1> HIDE DEF S
<1>3. Seq(Messages) \subseteq S
  BY <1>1, <1>2, SequenceSetInduction
<1> QED
  BY <1>3 DEF S

-----------------------------------------------------------------------------
(* The runtime's methods.                                                  *)

Outcomes == [runtime : Runtime, ok : BOOLEAN]
Good(r) == r \in Runtime /\ HoldsBySink(r) /\ SeesLast(r)
StaysBlocked(r) == ~r.held /\ r.previous # Up /\ r.last # Up
Forgets(r) == ~r.held /\ r.last = None

LEMMA MasksAreTwo == Masks = {Up, Down} /\ Up # Down /\ None \notin Masks /\ NoProfile \notin Profiles
  BY MailboxAssumption, WorkerAssumption

LEMMA OkOutcome ==
  ASSUME NEW r \in Runtime
  PROVE  Ok(r) \in Outcomes /\ Ok(r).runtime = r /\ Ok(r).ok
<1>1. TRUE \in BOOLEAN
  OBVIOUS
<1>2. Ok(r) \in Outcomes
  BY <1>1, Zenon DEF Ok, Outcomes
<1>3. Ok(r).runtime = r /\ Ok(r).ok
  BY Zenon DEF Ok
<1> QED
  BY <1>2, <1>3

\* A failure lets go of the key and of the sink, and forgets nothing else.
LEMMA FailedOutcome ==
  ASSUME NEW r \in Runtime
  PROVE  /\ Failed(r) \in Outcomes /\ ~Failed(r).ok /\ Failed(r).runtime \in Runtime
         /\ ~Failed(r).runtime.held /\ ~Failed(r).runtime.sink
         /\ Failed(r).runtime.profile = r.profile /\ Failed(r).runtime.previous = r.previous
         /\ Failed(r).runtime.last = r.last
<1> DEFINE d == [r EXCEPT !.held = FALSE, !.sink = FALSE, !.discard = TRUE]
<1>1. TRUE \in BOOLEAN /\ FALSE \in BOOLEAN
  OBVIOUS
<1>2. d \in Runtime
  BY <1>1, Zenon DEF Runtime
<1>3. ~d.held /\ ~d.sink /\ d.profile = r.profile /\ d.previous = r.previous /\ d.last = r.last
  BY <1>2 DEF Runtime
<1>4. Failed(r) = [runtime |-> d, ok |-> FALSE]
  BY DEF Failed
<1> HIDE DEF d
<1>7. [runtime |-> d, ok |-> FALSE] \in Outcomes
  BY <1>1, <1>2, Zenon DEF Outcomes
<1>8. [runtime |-> d, ok |-> FALSE].runtime = d /\ ~[runtime |-> d, ok |-> FALSE].ok
  BY Zenon
<1>5. Failed(r) \in Outcomes
  BY <1>4, <1>7, Zenon
<1>6. Failed(r).runtime = d /\ ~Failed(r).ok
  BY <1>4, <1>8, Zenon
<1> QED
  BY <1>2, <1>3, <1>5, <1>6

LEMMA OutcomeOfSink ==
  ASSUME NEW done, NEW failed, NEW o \in UsesSink(done, failed)
  PROVE  o = Ok(done) \/ (done.sink /\ o = Failed(failed))
  BY DEF UsesSink

LEMMA ObserveSnapshotKeeps ==
  ASSUME NEW r \in Runtime, HoldsBySink(r), r.profile # NoProfile, r.sink \/ r.profile \notin Configured,
         NEW mask \in Masks, r.last = mask, NEW o \in observe_snapshot(r, mask)
  PROVE  /\ o \in Outcomes /\ Good(o.runtime) /\ o.runtime.last = mask
         /\ mask = Down /\ StaysBlocked(r) => StaysBlocked(o.runtime)
<1> DEFINE blocked == r.blocked /\ mask = Down
           pressed == mask = Down /\ r.previous = Up /\ ~blocked /\ r.profile \in Configured
           holds == (r.held /\ mask = Down) \/ pressed
           down == mask = Down
           seen == [r EXCEPT !.previous = mask, !.blocked = blocked, !.held = holds]
           baseline == [r EXCEPT !.previous = mask, !.blocked = down]
           blockedAgain == [seen EXCEPT !.blocked = down]
<1>1. blocked \in BOOLEAN /\ holds \in BOOLEAN /\ down \in BOOLEAN /\ mask \in Masks \cup {None}
  OBVIOUS
<1>2. r.previous = Up \/ (holds => r.held)
  OBVIOUS
<1>3. holds => r.sink
  BY DEF HoldsBySink
<1>4. \/ r.previous = None /\ o = Ok(baseline)
      \/ o = Ok(seen)
      \/ o = Failed(blockedAgain)
  BY OutcomeOfSink DEF observe_snapshot
<1>11. seen = [r EXCEPT !.previous = mask, !.blocked = blocked, !.held = holds]
  OBVIOUS
<1> HIDE DEF blocked, pressed, holds, down, seen
<1>5. /\ seen \in Runtime /\ seen.held = holds /\ seen.previous = mask /\ seen.sink = r.sink
      /\ seen.last = mask /\ seen.profile = r.profile
  <2>1. seen \in Runtime
    BY <1>1, <1>11, Zenon DEF Runtime
  <2>2. seen.held = holds /\ seen.sink = r.sink
    BY <1>11, Zenon DEF Runtime
  <2>3. seen.previous = mask /\ seen.last = r.last /\ seen.profile = r.profile
    BY <1>11 DEF Runtime
  <2> QED
    BY <2>1, <2>2, <2>3, Zenon
<1>6. /\ baseline \in Runtime /\ baseline.previous = mask /\ baseline.last = mask /\ baseline.profile = r.profile
      /\ baseline.held = r.held /\ baseline.sink = r.sink
  <2>1. baseline \in Runtime
    BY <1>1, Zenon DEF Runtime
  <2>2. baseline.held = r.held /\ baseline.sink = r.sink
    BY Zenon DEF Runtime
  <2> QED
    BY <2>1, <2>2 DEF Runtime
<1> HIDE DEF baseline
<1>7. /\ blockedAgain \in Runtime /\ blockedAgain.previous = mask /\ blockedAgain.last = mask
  <2>1. blockedAgain \in Runtime
    BY <1>1, <1>5, Zenon DEF Runtime
  <2> QED
    BY <1>5, <2>1 DEF Runtime
<1> HIDE DEF blockedAgain
<1>8. CASE r.previous = None /\ o = Ok(baseline)
  BY <1>6, <1>8, OkOutcome, MasksAreTwo DEF Good, HoldsBySink, SeesLast, StaysBlocked
<1>9. CASE o = Ok(seen)
  BY <1>2, <1>3, <1>5, <1>9, OkOutcome, MasksAreTwo DEF Good, HoldsBySink, SeesLast, StaysBlocked
<1>10. CASE o = Failed(blockedAgain)
  BY <1>7, <1>10, FailedOutcome, MasksAreTwo DEF Good, HoldsBySink, SeesLast, StaysBlocked
<1> QED
  BY <1>4, <1>8, <1>9, <1>10

LEMMA ObserveKeeps ==
  ASSUME NEW r, Good(r), NEW mask \in Masks, NEW o \in observe(r, mask)
  PROVE  /\ o \in Outcomes /\ Good(o.runtime)
         /\ mask = Down /\ StaysBlocked(r) => StaysBlocked(o.runtime)
<1> DEFINE noted == [r EXCEPT !.last = mask]
<1>1. /\ noted \in Runtime /\ noted.last = mask /\ noted.profile = r.profile /\ noted.previous = r.previous
      /\ noted.sink = r.sink /\ noted.held = r.held
  BY DEF Good, Runtime
<1>2. \/ (r.profile = NoProfile \/ (~r.sink /\ r.profile \in Configured)) /\ o = Ok(noted)
      \/ r.profile # NoProfile /\ (r.sink \/ r.profile \notin Configured) /\ o \in observe_snapshot(noted, mask)
  BY DEF observe
<1>3. HoldsBySink(noted) /\ (mask = Down /\ StaysBlocked(r) => StaysBlocked(noted))
  BY <1>1, MasksAreTwo DEF Good, HoldsBySink, StaysBlocked
<1> HIDE DEF noted
<1>4. CASE (r.profile = NoProfile \/ (~r.sink /\ r.profile \in Configured)) /\ o = Ok(noted)
  BY <1>1, <1>3, <1>4, OkOutcome DEF Good, SeesLast
<1>5. CASE r.profile # NoProfile /\ (r.sink \/ r.profile \notin Configured) /\ o \in observe_snapshot(noted, mask)
  BY <1>1, <1>3, <1>5, ObserveSnapshotKeeps
<1> QED
  BY <1>2, <1>4, <1>5

LEMMA ObserveLastKeeps ==
  ASSUME NEW r \in Runtime, HoldsBySink(r), r.profile \in Configured, NEW o \in ObserveLast(r)
  PROVE  /\ o \in Outcomes /\ Good(o.runtime)
         /\ StaysBlocked(r) => StaysBlocked(o.runtime)
         /\ Forgets(r) => Forgets(o.runtime)
<1>1. CASE r.last # None /\ r.profile # NoProfile /\ r.sink
  <2>1. o \in observe_snapshot(r, r.last)
    BY <1>1 DEF ObserveLast
  <2>2. r.last \in Masks
    BY <1>1 DEF Runtime
  <2>3. /\ o \in Outcomes /\ Good(o.runtime)
        /\ r.last = Down /\ StaysBlocked(r) => StaysBlocked(o.runtime)
    BY <1>1, <2>1, <2>2, ObserveSnapshotKeeps
  <2> QED
    BY <1>1, <2>2, <2>3, MasksAreTwo DEF StaysBlocked, Forgets
<1>2. CASE ~(r.last # None /\ r.profile # NoProfile /\ r.sink)
  <2>1. o = Ok(r)
    BY <1>2 DEF ObserveLast
  <2> QED
    BY <1>2, <2>1, OkOutcome DEF Good, SeesLast
<1> QED
  BY <1>1, <1>2

LEMMA SinkIsInitialized ==
  ASSUME NEW r \in Runtime, NEW x \in initialize_sink(r)
  PROVE  /\ x \in Runtime /\ x.held = r.held /\ x.profile = r.profile
         /\ x.previous = r.previous /\ x.last = r.last /\ (r.sink => x.sink)
<1>1. CASE x = r
  BY <1>1
<1>2. CASE x = [r EXCEPT !.sink = TRUE]
  <2>1. TRUE \in BOOLEAN
    OBVIOUS
  <2>2. x \in Runtime
    BY <1>2, <2>1, Zenon DEF Runtime
  <2>3. x.sink
    BY <1>2, Zenon DEF Runtime
  <2>4. x.held = r.held
    BY <1>2, Zenon DEF Runtime
  <2>5. x.profile = r.profile /\ x.previous = r.previous /\ x.last = r.last
    BY <1>2 DEF Runtime
  <2> QED
    BY <2>2, <2>3, <2>4, <2>5, Zenon
<1> QED
  BY <1>1, <1>2 DEF initialize_sink

LEMMA EngineDisconnects ==
  ASSUME NEW r, Good(r), NEW o \in engine_disconnect(r)
  PROVE  /\ o \in Outcomes /\ o.runtime \in Runtime /\ ~o.runtime.held
         /\ o.runtime.profile = r.profile /\ o.runtime.last = r.last
         /\ o.runtime.previous \in {None, r.previous}
<1> DEFINE gone == [r EXCEPT !.held = FALSE, !.previous = None, !.blocked = FALSE]
<1>1. FALSE \in BOOLEAN /\ None \in Masks \cup {None} /\ r \in Runtime
  BY DEF Good
<1>2. gone \in Runtime
  BY <1>1, Zenon DEF Runtime
<1>3. ~gone.held
  BY <1>1, Zenon DEF Runtime
<1>4. gone.previous = None /\ gone.last = r.last /\ gone.profile = r.profile
  BY <1>1 DEF Runtime
<1>5. \/ o = Ok(gone) \/ o = Failed(gone)
      \/ o = Ok(r) /\ (r.profile = NoProfile \/ ~r.sink)
  BY OutcomeOfSink DEF engine_disconnect
<1> HIDE DEF gone
<1>6. CASE o = Ok(gone)
  BY <1>2, <1>3, <1>4, <1>6, OkOutcome
<1>7. CASE o = Failed(gone)
  BY <1>2, <1>4, <1>7, FailedOutcome
<1>8. CASE o = Ok(r) /\ (r.profile = NoProfile \/ ~r.sink)
  BY <1>1, <1>8, OkOutcome DEF Good, HoldsBySink
<1> QED
  BY <1>5, <1>6, <1>7, <1>8

LEMMA DisconnectKeeps ==
  ASSUME NEW r, Good(r), NEW o \in disconnect(r)
  PROVE  /\ o \in Outcomes /\ Good(o.runtime) /\ Forgets(o.runtime)
         /\ r.previous # Up => StaysBlocked(o.runtime)
<1>1. PICK e \in engine_disconnect(r) : o = [e EXCEPT !.runtime.last = None, !.runtime.discard = TRUE]
  BY DEF disconnect
<1>2. /\ e \in Outcomes /\ e.runtime \in Runtime /\ ~e.runtime.held
      /\ e.runtime.previous \in {None, r.previous}
  BY <1>1, EngineDisconnects
<1> DEFINE d == [e.runtime EXCEPT !.last = None, !.discard = TRUE]
<1>3. TRUE \in BOOLEAN /\ None \in Masks \cup {None}
  OBVIOUS
<1>4. d \in Runtime
  BY <1>2, <1>3, Zenon DEF Runtime
<1>5. ~d.held
  BY <1>2, Zenon DEF Runtime
<1>6. d.last = None /\ d.previous = e.runtime.previous
  BY <1>2 DEF Runtime
<1>7. o = [e EXCEPT !.runtime = d]
  BY <1>1, <1>2 DEF Outcomes
<1> HIDE DEF d
<1>8. o \in Outcomes /\ o.runtime = d
  BY <1>2, <1>4, <1>7 DEF Outcomes
<1> QED
  BY <1>2, <1>4, <1>5, <1>6, <1>8, MasksAreTwo DEF Good, HoldsBySink, SeesLast, Forgets, StaysBlocked

LEMMA ShutdownKeeps ==
  ASSUME NEW r, Good(r), NEW o \in shutdown(r)
  PROVE  /\ o \in Outcomes /\ Good(o.runtime) /\ Forgets(o.runtime)
         /\ r.previous # Up => StaysBlocked(o.runtime)
<1>1. PICK e \in disconnect(r) : o = [e EXCEPT !.runtime.sink = FALSE]
  BY DEF shutdown
<1>2. /\ e \in Outcomes /\ e.runtime \in Runtime /\ Forgets(e.runtime)
      /\ r.previous # Up => StaysBlocked(e.runtime)
  BY <1>1, DisconnectKeeps DEF Good
<1> DEFINE d == [e.runtime EXCEPT !.sink = FALSE]
<1>3. FALSE \in BOOLEAN
  OBVIOUS
<1>4. d \in Runtime
  BY <1>2, <1>3, Zenon DEF Runtime
<1>5. d.held = e.runtime.held
  BY <1>2, Zenon DEF Runtime
<1>6. d.last = e.runtime.last /\ d.previous = e.runtime.previous
  BY <1>2 DEF Runtime
<1>7. o = [e EXCEPT !.runtime = d]
  BY <1>1, <1>2 DEF Outcomes
<1> HIDE DEF d
<1>8. o \in Outcomes /\ o.runtime = d
  BY <1>2, <1>4, <1>7 DEF Outcomes
<1> QED
  BY <1>2, <1>4, <1>5, <1>6, <1>8, Zenon DEF Good, HoldsBySink, SeesLast, Forgets, StaysBlocked

LEMMA EngineIsNew ==
  ASSUME NEW r \in Runtime, NEW profile \in Profiles \cup {NoProfile}
  PROVE  /\ NewEngine(r, profile) \in Runtime /\ ~NewEngine(r, profile).held
         /\ NewEngine(r, profile).profile = profile /\ NewEngine(r, profile).previous = None
         /\ NewEngine(r, profile).last = r.last
<1> DEFINE d == NewEngine(r, profile)
<1>1. FALSE \in BOOLEAN /\ None \in Masks \cup {None}
  OBVIOUS
<1>2. d \in Runtime
  BY <1>1, Zenon DEF Runtime, NewEngine
<1>3. ~d.held
  BY Zenon DEF Runtime, NewEngine
<1>4. d.profile = profile /\ d.previous = None /\ d.last = r.last
  BY DEF Runtime, NewEngine
<1> QED
  BY <1>2, <1>3, <1>4

\* The engine takes another profile with nothing held, and a button that was
\* down when it did is not seen up.
LEMMA EngineReplaces ==
  ASSUME NEW r, Good(r), NEW profile \in Profiles \cup {NoProfile},
         NEW o \in engine_replace_profile(r, profile)
  PROVE  /\ o \in Outcomes /\ Good(o.runtime)
         /\ o.runtime.profile = profile /\ o.runtime.last = r.last
         /\ StaysBlocked(r) => StaysBlocked(o.runtime)
         /\ profile # r.profile /\ r.last = Down => StaysBlocked(o.runtime)
         /\ Forgets(r) => Forgets(o.runtime)
<1>0. r \in Runtime
  BY DEF Good
<1> DEFINE New(x) == /\ x \in Runtime /\ ~x.held /\ x.profile = profile /\ x.last = r.last
                     /\ x.previous = None
           rest == r.previous = Down
           swapped == [r EXCEPT !.profile = profile, !.held = FALSE, !.blocked = rest]
<1>1. ASSUME o \in Outcomes, New(o.runtime) PROVE Good(o.runtime) /\ ~o.runtime.held /\ o.runtime.previous # Up
  BY <1>1, MasksAreTwo DEF Good, HoldsBySink, SeesLast
<1>2. CASE profile = NoProfile
  <2>1. PICK e \in engine_disconnect(r) : o = [e EXCEPT !.runtime = NewEngine(@, NoProfile)]
    BY <1>2 DEF engine_replace_profile
  <2>2. e \in Outcomes /\ e.runtime \in Runtime /\ e.runtime.last = r.last
    BY <2>1, EngineDisconnects
  <2> DEFINE d == NewEngine(e.runtime, NoProfile)
  <2>3. /\ d \in Runtime /\ ~d.held /\ d.profile = NoProfile /\ d.previous = None /\ d.last = r.last
    BY <2>2, EngineIsNew
  <2>4. o = [e EXCEPT !.runtime = d]
    BY <2>1, <2>2 DEF Outcomes
  <2> HIDE DEF d
  <2>5. o \in Outcomes /\ o.runtime = d
    BY <2>2, <2>3, <2>4 DEF Outcomes
  <2>6. New(o.runtime)
    BY <1>2, <2>3, <2>5
  <2> QED
    BY <1>1, <2>5, <2>6, MasksAreTwo DEF StaysBlocked, Forgets
<1>3. CASE profile # NoProfile /\ (r.profile = NoProfile \/ ~r.sink)
  <2>1. o = Ok(NewEngine(r, profile))
    BY <1>3 DEF engine_replace_profile
  <2>2. o \in Outcomes /\ New(o.runtime)
    BY <1>0, <2>1, EngineIsNew, OkOutcome
  <2> QED
    BY <1>1, <2>2, MasksAreTwo DEF StaysBlocked, Forgets
<1>4. CASE profile # NoProfile /\ r.profile # NoProfile /\ r.sink /\ profile = r.profile
  <2>1. o = Ok(r)
    BY <1>4 DEF engine_replace_profile
  <2> QED
    BY <1>0, <1>4, <2>1, OkOutcome
<1>5. CASE profile # NoProfile /\ r.profile # NoProfile /\ r.sink /\ profile # r.profile
  <2>1. o = Ok(swapped) \/ o = Failed(swapped)
    BY <1>5, OutcomeOfSink DEF engine_replace_profile
  <2>2. rest \in BOOLEAN /\ FALSE \in BOOLEAN
    OBVIOUS
  <2> HIDE DEF rest
  <2>3. swapped \in Runtime
    BY <1>0, <2>2, Zenon DEF Runtime
  <2>4. ~swapped.held
    BY <1>0, Zenon DEF Runtime
  <2>5. swapped.profile = profile /\ swapped.previous = r.previous /\ swapped.last = r.last
    BY <1>0 DEF Runtime
  <2> HIDE DEF swapped
  <2>6. /\ o \in Outcomes /\ o.runtime \in Runtime /\ ~o.runtime.held /\ o.runtime.profile = profile
        /\ o.runtime.previous = r.previous /\ o.runtime.last = r.last
    BY <2>1, <2>3, <2>4, <2>5, OkOutcome, FailedOutcome
  <2>7. r.last # None => r.previous \in {None, r.last}
    BY <1>5 DEF Good, SeesLast
  <2> QED
    BY <2>6, <2>7, MasksAreTwo DEF Good, HoldsBySink, SeesLast, StaysBlocked, Forgets
<1> QED
  BY <1>2, <1>3, <1>4, <1>5

LEMMA ReplaceKeeps ==
  ASSUME NEW r, Good(r), NEW profile \in Profiles \cup {NoProfile},
         NEW o \in replace_profile(r, profile)
  PROVE  /\ o \in Outcomes /\ Good(o.runtime)
         /\ StaysBlocked(r) => StaysBlocked(o.runtime)
         /\ profile # r.profile /\ r.last = Down => StaysBlocked(o.runtime)
         /\ Forgets(r) => Forgets(o.runtime)
<1>1. PICK e \in engine_replace_profile(r, profile) :
        \/ o = e
        \/ /\ profile \in Configured
           /\ \E ready \in initialize_sink(e.runtime) \cup {e.runtime} : o \in ObserveLast(ready)
  BY DEF replace_profile
<1>2. /\ e \in Outcomes /\ Good(e.runtime) /\ e.runtime.profile = profile /\ e.runtime.last = r.last
      /\ StaysBlocked(r) => StaysBlocked(e.runtime)
      /\ profile # r.profile /\ r.last = Down => StaysBlocked(e.runtime)
      /\ Forgets(r) => Forgets(e.runtime)
  BY <1>1, EngineReplaces
<1>3. CASE o = e
  BY <1>2, <1>3
<1>4. ASSUME profile \in Configured, NEW ready \in initialize_sink(e.runtime) \cup {e.runtime},
             o \in ObserveLast(ready)
      PROVE  /\ o \in Outcomes /\ Good(o.runtime)
             /\ StaysBlocked(e.runtime) => StaysBlocked(o.runtime)
             /\ Forgets(e.runtime) => Forgets(o.runtime)
  <2>1. /\ ready \in Runtime /\ ready.held = e.runtime.held /\ ready.profile = e.runtime.profile
        /\ ready.previous = e.runtime.previous /\ ready.last = e.runtime.last
        /\ e.runtime.sink => ready.sink
    BY <1>2, <1>4, SinkIsInitialized DEF Good
  <2>2. HoldsBySink(ready) /\ ready.profile \in Configured
    BY <1>2, <1>4, <2>1 DEF Good, HoldsBySink
  <2>3. /\ StaysBlocked(e.runtime) => StaysBlocked(ready)
        /\ Forgets(e.runtime) => Forgets(ready)
    BY <2>1 DEF StaysBlocked, Forgets
  <2> QED
    BY <1>4, <2>1, <2>2, <2>3, ObserveLastKeeps
<1> QED
  BY <1>1, <1>2, <1>3, <1>4

LEMMA EnableKeeps ==
  ASSUME NEW r, Good(r), NEW o \in enable(r)
  PROVE  /\ o \in Outcomes /\ Good(o.runtime)
         /\ StaysBlocked(r) => StaysBlocked(o.runtime)
         /\ Forgets(r) => Forgets(o.runtime)
<1> DEFINE asked == [r EXCEPT !.activated = TRUE]
<1>0. r \in Runtime /\ TRUE \in BOOLEAN
  BY DEF Good
<1>1. /\ asked \in Runtime /\ asked.last = r.last /\ asked.profile = r.profile /\ asked.previous = r.previous
      /\ asked.sink = r.sink /\ asked.held = r.held
  <2>1. asked \in Runtime
    BY <1>0, Zenon DEF Runtime
  <2>2. asked.sink = r.sink /\ asked.held = r.held
    BY <1>0, Zenon DEF Runtime
  <2> QED
    BY <1>0, <2>1, <2>2 DEF Runtime
<1>2. \/ o = Ok(asked)
      \/ /\ r.profile \in Configured
         /\ \E ready \in initialize_sink(asked) \cup {asked} :
              o \in ObserveLast(ready) \/ (~ready.sink /\ o = [runtime |-> ready, ok |-> FALSE])
  BY DEF enable
<1> HIDE DEF asked
<1>3. /\ Good(asked)
      /\ StaysBlocked(r) => StaysBlocked(asked)
      /\ Forgets(r) => Forgets(asked)
  BY <1>1 DEF Good, HoldsBySink, SeesLast, StaysBlocked, Forgets
<1>4. CASE o = Ok(asked)
  BY <1>1, <1>3, <1>4, OkOutcome
<1>5. ASSUME r.profile \in Configured, NEW ready \in initialize_sink(asked) \cup {asked},
             o \in ObserveLast(ready) \/ (~ready.sink /\ o = [runtime |-> ready, ok |-> FALSE])
      PROVE  /\ o \in Outcomes /\ Good(o.runtime)
             /\ StaysBlocked(asked) => StaysBlocked(o.runtime)
             /\ Forgets(asked) => Forgets(o.runtime)
  <2>1. /\ ready \in Runtime /\ ready.held = asked.held /\ ready.profile = asked.profile
        /\ ready.previous = asked.previous /\ ready.last = asked.last
        /\ asked.sink => ready.sink
    BY <1>1, <1>5, SinkIsInitialized
  <2>2. HoldsBySink(ready) /\ ready.profile \in Configured
    BY <1>1, <1>3, <1>5, <2>1 DEF Good, HoldsBySink
  <2>3. /\ StaysBlocked(asked) => StaysBlocked(ready)
        /\ Forgets(asked) => Forgets(ready)
    BY <2>1 DEF StaysBlocked, Forgets
  <2>4. CASE o \in ObserveLast(ready)
    BY <2>1, <2>2, <2>3, <2>4, ObserveLastKeeps
  <2>5. CASE ~ready.sink /\ o = [runtime |-> ready, ok |-> FALSE]
    <3>1. FALSE \in BOOLEAN
      OBVIOUS
    <3>2. [runtime |-> ready, ok |-> FALSE] \in Outcomes
      BY <2>1, <3>1, Zenon DEF Outcomes
    <3>3. [runtime |-> ready, ok |-> FALSE].runtime = ready
      BY Zenon
    <3>4. Good(ready)
      BY <2>1, <2>2, <2>5 DEF Good, SeesLast
    <3> QED
      BY <2>3, <2>5, <3>2, <3>3, <3>4, Zenon
  <2> QED
    BY <1>5, <2>4, <2>5
<1> QED
  BY <1>2, <1>3, <1>4, <1>5

-----------------------------------------------------------------------------
(* What the worker is owed.                                                *)

Runs == [kind : {"Run"}, mask : Masks, first : Samples, newest : Samples]
Debts == Overflows \cup Control \cup Runs

LEMMA DebtKinds ==
  /\ \A m \in Messages : IsSnapshot(m) => m \in Snapshot /\ m.mask \in Masks /\ m.sample \in Samples
  /\ \A m \in Messages : ~IsSnapshot(m) => m \in Debts /\ m.kind # "Run"
  /\ \A d \in Debts : d.kind = "Run" => d \in Runs
  /\ \A d \in Debts : IsControl(d) => d.kind # "Run"
  BY DEF Messages, Snapshot, Overflows, Overflow, Control, IsSnapshot, IsControl, ControlKinds,
         Safety, Debts, Runs

\* A run of one snapshot, and of one snapshot more.
Begun(message) == [kind |-> "Run", mask |-> message.mask,
                   first |-> message.sample, newest |-> message.sample]
Longer(run, message) == [run EXCEPT !.newest = message.sample]

LEMMA RunsAreRuns ==
  ASSUME NEW m \in Snapshot
  PROVE  /\ Begun(m) \in Runs /\ Begun(m).mask = m.mask
         /\ \A r \in Runs : /\ Longer(r, m) \in Runs /\ Longer(r, m).mask = r.mask
                            /\ \A n \in Snapshot : Longer(Longer(r, m), n) = Longer(r, n)
<1>1. m.mask \in Masks /\ m.sample \in Samples
  BY DEF Snapshot
<1>2. Begun(m) \in Runs /\ Begun(m).mask = m.mask
  BY <1>1 DEF Begun, Runs
<1>3. ASSUME NEW r \in Runs PROVE Longer(r, m) \in Runs /\ Longer(r, m).mask = r.mask
  BY <1>1 DEF Longer, Runs
<1>4. ASSUME NEW r \in Runs, NEW n \in Snapshot PROVE Longer(Longer(r, m), n) = Longer(r, n)
  <2>1. n.sample \in Samples
    BY DEF Snapshot
  <2> QED
    BY <1>1, <2>1 DEF Longer, Runs
<1> QED
  BY <1>2, <1>3, <1>4

LEMMA OwingIs ==
  ASSUME NEW d \in Seq(Debts), NEW m \in Messages
  PROVE  /\ Owing(d, m) \in Seq(Debts)
         /\ ~IsSnapshot(m) => Owing(d, m) = Append(d, m)
         /\ IsSnapshot(m) /\ TailIs("Run", d) /\ Last(d).mask = m.mask =>
              /\ Last(d) \in Runs /\ Front(d) \in Seq(Debts)
              /\ Owing(d, m) = Append(Front(d), Longer(Last(d), m))
         /\ IsSnapshot(m) /\ ~(TailIs("Run", d) /\ Last(d).mask = m.mask) =>
              Owing(d, m) = Append(d, Begun(m))
<1>1. CASE ~IsSnapshot(m)
  <2>1. Owing(d, m) = Append(d, m)
    BY <1>1 DEF Owing
  <2>2. m \in Debts
    BY <1>1, DebtKinds
  <2> QED
    BY <1>1, <2>1, <2>2, AppendProperties
<1>2. CASE IsSnapshot(m) /\ TailIs("Run", d) /\ Last(d).mask = m.mask
  <2>1. d # << >> /\ Last(d).kind = "Run"
    BY <1>2 DEF TailIs
  <2>2. Front(d) \in Seq(Debts) /\ Last(d) \in Runs /\ m \in Snapshot
    BY <1>2, <2>1, FrontAndLast, DebtKinds
  <2>3. Longer(Last(d), m) \in Debts
    BY <2>2, RunsAreRuns DEF Debts
  <2>4. Owing(d, m) = Append(Front(d), Longer(Last(d), m))
    BY <1>2 DEF Owing, Longer
  <2> QED
    BY <1>2, <2>2, <2>3, <2>4, AppendProperties
<1>3. CASE IsSnapshot(m) /\ ~(TailIs("Run", d) /\ Last(d).mask = m.mask)
  <2>1. m \in Snapshot
    BY <1>3, DebtKinds
  <2>2. Begun(m) \in Debts
    BY <2>1, RunsAreRuns DEF Debts
  <2>3. Owing(d, m) = Append(d, Begun(m))
    BY <1>3 DEF Owing, Begun
  <2> QED
    BY <1>3, <2>2, <2>3, AppendProperties
<1> QED
  BY <1>1, <1>2, <1>3

\* OwedFor, by the function that it is the last value of.
AddsDebts(s, f) ==
  f = [n \in 0 .. Len(s) |-> IF n = 0 THEN << >> ELSE Owing(f[n - 1], s[n])]

LEMMA OwedForIs ==
  ASSUME NEW s \in Seq(Messages)
  PROVE  \E f \in [0 .. Len(s) -> Seq(Debts)] :
           /\ OwedFor(s) = f[Len(s)] /\ f[0] = << >>
           /\ \A n \in 1 .. Len(s) : f[n] = Owing(f[n - 1], s[n])
<1> DEFINE N == Len(s)
           X == Seq(Debts)
           Step == [p \in (1 .. N) \X X |-> Owing(p[2], s[p[1]])]
           g == CHOOSE f : AddsDebts(s, f)
<1>1. N \in Nat /\ (\A n \in 1 .. N : s[n] \in Messages) /\ \A n \in 1 .. N : n - 1 \in 0 .. N
  BY LenProperties, ElementOfSeq
<1>2. << >> \in X
  BY EmptySeq
<1>3. \A n \in 1 .. N, t \in X : Owing(t, s[n]) \in X
  BY <1>1, OwingIs
<1> HIDE DEF X, N
<1>4. Step \in Moves(N, X) /\ \A n \in 1 .. N, t \in X : Step[<<n, t>>] = Owing(t, s[n])
  <2>1. \A q \in (1 .. N) \X X : q[1] \in 1 .. N /\ q[2] \in X
    OBVIOUS
  <2> QED
    BY <1>3, <2>1 DEF Moves
<1> HIDE DEF Step
<1>5. PICK f : Recursion(X, << >>, N, Step, f)
  BY <1>1, <1>2, <1>4, RecursionExists
<1>6. /\ f \in [0 .. N -> X] /\ f[0] = << >>
      /\ \A n \in 1 .. N : f[n] = Owing(f[n - 1], s[n])
  <2>1. /\ f \in [0 .. N -> X] /\ f[0] = << >>
        /\ \A n \in 1 .. N : f[n] = Step[<<n, f[n - 1]>>]
    BY <1>5 DEF Recursion
  <2>2. \A n \in 1 .. N : f[n - 1] \in X
    BY <1>1, <2>1
  <2> QED
    BY <1>4, <2>1, <2>2
<1>7. AddsDebts(s, f)
  <2>1. \A n \in 0 .. N : n # 0 => n \in 1 .. N
    BY <1>1
  <2>2. \A n \in 0 .. N : f[n] = IF n = 0 THEN << >> ELSE Owing(f[n - 1], s[n])
    BY <1>6, <2>1
  <2>3. f = [n \in 0 .. N |-> f[n]]
    BY <1>6
  <2> QED
    BY <2>2, <2>3 DEF AddsDebts, N
<1>8. AddsDebts(s, g)
  BY <1>7
<1>9. OwedFor(s) = g[N]
  BY DEF OwedFor, AddsDebts, N
<1> HIDE DEF g
<1>10. \A n \in 0 .. N : g[n] = IF n = 0 THEN << >> ELSE Owing(g[n - 1], s[n])
  BY <1>8, Zenon DEF AddsDebts, N
<1>11. f[N] = g[N]
  <2>1. ASSUME NEW i \in 1 .. N, f[i - 1] = g[i - 1] PROVE f[i] = g[i]
    <3>1. i \in 0 .. N /\ i # 0
      BY <1>1, <2>1
    <3> QED
      BY <1>6, <1>10, <2>1, <3>1
  <2>2. N \in Nat /\ 0 \in 0 .. N
    BY <1>1
  <2>3. f[0] = g[0]
    BY <1>6, <1>10, <2>2
  <2> QED
    BY ONLY <2>1, <2>2, <2>3, RecursionAgrees
<1> QED
  BY <1>6, <1>9, <1>11 DEF N, X

LEMMA NothingIsOwed == OwedFor(<< >>) = << >>
<1>1. << >> \in Seq(Messages) /\ Len(<< >>) = 0
  BY EmptySeq
<1> QED
  BY <1>1, OwedForIs

\* One message more, one debt more.
LEMMA OwedForGrows ==
  ASSUME NEW s \in Seq(Messages), NEW m \in Messages
  PROVE  OwedFor(s) \in Seq(Debts) /\ OwedFor(Append(s, m)) = Owing(OwedFor(s), m)
<1> DEFINE t == Append(s, m)
           N == Len(s)
<1>1. /\ t \in Seq(Messages) /\ N \in Nat /\ Len(t) = N + 1 /\ t[N + 1] = m
      /\ \A i \in 1 .. N : t[i] = s[i]
  BY OneMore
<1>2. PICK f \in [0 .. N -> Seq(Debts)] :
        /\ OwedFor(s) = f[N] /\ f[0] = << >>
        /\ \A n \in 1 .. N : f[n] = Owing(f[n - 1], s[n])
  BY OwedForIs
<1> HIDE DEF t
<1>3. PICK g \in [0 .. Len(t) -> Seq(Debts)] :
        /\ OwedFor(t) = g[Len(t)] /\ g[0] = << >>
        /\ \A n \in 1 .. Len(t) : g[n] = Owing(g[n - 1], t[n])
  <2>1. t \in Seq(Messages)
    BY <1>1
  <2> QED
    BY ONLY <2>1, OwedForIs
<1> HIDE DEF N
<1>4. f[N] = g[N]
  <2>1. ASSUME NEW i \in 1 .. N, f[i - 1] = g[i - 1] PROVE f[i] = g[i]
    <3>1. i \in 1 .. Len(t) /\ t[i] = s[i]
      BY ONLY <1>1, <2>1, SMTT(30)
    <3> QED
      BY <1>2, <1>3, <2>1, <3>1
  <2>2. f[0] = g[0] /\ N \in Nat
    BY <1>1, <1>2, <1>3
  <2> QED
    BY ONLY <2>1, <2>2, RecursionAgrees
<1>5. N + 1 \in 1 .. Len(t) /\ N + 1 - 1 = N /\ N \in 0 .. N
  BY <1>1
<1>6. g[N + 1] = Owing(g[N], m)
  BY <1>1, <1>3, <1>5
<1> QED
  BY <1>1, <1>2, <1>3, <1>4, <1>5, <1>6 DEF t

\* The newest snapshot of a run of two or more may be replaced: what is owed
\* for the run is its first and the new one, either way.
LEMMA ReplacingOwesTheSame ==
  ASSUME NEW s \in Seq(Messages), s # << >>, IsSnapshot(Last(s)),
         Front(s) # << >>, IsSnapshot(Last(Front(s))),
         NEW m \in Messages, IsSnapshot(m),
         m.mask = Last(s).mask, m.mask = Last(Front(s)).mask
  PROVE  OwedFor(Append(Front(s), m)) = Owing(OwedFor(s), m)
<1> DEFINE f == Front(s)
           b == Last(s)
           u == Front(f)
           a == Last(f)
           d == Owing(OwedFor(u), a)
<1>1. f \in Seq(Messages) /\ b \in Messages /\ s = Append(f, b)
  BY FrontAndLast
<1> HIDE DEF b, f
<1>2. u \in Seq(Messages) /\ a \in Messages /\ f = Append(u, a)
  BY <1>1, FrontAndLast DEF f
<1>3. /\ IsSnapshot(a) /\ IsSnapshot(b) /\ a.mask = m.mask /\ b.mask = m.mask
      /\ a \in Snapshot /\ b \in Snapshot /\ m \in Snapshot
  BY <1>1, <1>2, DebtKinds DEF b, f
<1> HIDE DEF u, a
<1>4. OwedFor(u) \in Seq(Debts) /\ d = OwedFor(f) /\ d \in Seq(Debts)
  BY <1>2, OwedForGrows, OwingIs
\* What is owed after a ends with a run of its mask.
<1>5. /\ d # << >> /\ Last(d) \in Runs /\ Last(d).mask = m.mask /\ Front(d) \in Seq(Debts)
  <2> DEFINE e == OwedFor(u)
  <2>0. e \in Seq(Debts)
    BY <1>4
  <2> HIDE DEF e
  <2>1. CASE TailIs("Run", e) /\ Last(e).mask = a.mask
    <3>1. /\ Last(e) \in Runs /\ Front(e) \in Seq(Debts)
          /\ Owing(e, a) = Append(Front(e), Longer(Last(e), a))
      BY <1>2, <1>3, <2>0, <2>1, OwingIs
    <3>2. Longer(Last(e), a) \in Runs /\ Longer(Last(e), a).mask = m.mask /\ Longer(Last(e), a) \in Debts
      BY <1>3, <2>1, <3>1, RunsAreRuns DEF Debts
    <3> QED
      BY <3>1, <3>2, OneMore DEF e
  <2>2. CASE ~(TailIs("Run", e) /\ Last(e).mask = a.mask)
    <3>1. Owing(e, a) = Append(e, Begun(a))
      BY <1>2, <1>3, <2>0, <2>2, OwingIs
    <3>2. Begun(a) \in Runs /\ Begun(a).mask = m.mask /\ Begun(a) \in Debts
      BY <1>3, RunsAreRuns DEF Debts
    <3> QED
      BY <2>0, <3>1, <3>2, OneMore DEF e
  <2> QED
    BY <2>1, <2>2
<1> HIDE DEF d
<1>6. TailIs("Run", d)
  BY <1>5 DEF TailIs, Runs
<1>7. Owing(d, b) = Append(Front(d), Longer(Last(d), b))
      /\ Owing(d, m) = Append(Front(d), Longer(Last(d), m))
  BY <1>1, <1>3, <1>4, <1>5, <1>6, OwingIs
<1> DEFINE e == Owing(d, b)
<1>8. /\ Longer(Last(d), b) \in Runs /\ Longer(Last(d), b) \in Debts
      /\ Longer(Last(d), b).mask = m.mask
      /\ Longer(Longer(Last(d), b), m) = Longer(Last(d), m)
  BY <1>3, <1>5, RunsAreRuns DEF Debts
<1>9. /\ e \in Seq(Debts) /\ e # << >> /\ Front(e) = Front(d) /\ Last(e) = Longer(Last(d), b)
  BY <1>5, <1>7, <1>8, OneMore
<1> HIDE DEF e
<1>10. TailIs("Run", e) /\ Last(e).mask = m.mask
  BY <1>8, <1>9 DEF TailIs, Runs
<1>11. Owing(e, m) = Append(Front(e), Longer(Last(e), m))
  BY <1>3, <1>9, <1>10, OwingIs
<1>12. Owing(e, m) = Owing(d, m)
  BY <1>7, <1>8, <1>9, <1>11
<1>13. OwedFor(s) = e /\ OwedFor(Append(f, m)) = Owing(d, m)
  BY <1>1, <1>4, OwedForGrows DEF e
<1> QED
  BY <1>12, <1>13 DEF f

\* Dropping the snapshots and the overflows before or after the debts are
\* reckoned leaves the same controls.
LEMMA OverflowOwesTheControls ==
  ASSUME NEW s \in Seq(Messages)
  PROVE  OwedFor(OnlyControls(s)) = OnlyControls(OwedFor(s))
<1> DEFINE S == {q \in Seq(Messages) : OwedFor(OnlyControls(q)) = OnlyControls(OwedFor(q))}
<1>1. << >> \in S
  <2>1. << >> \in Seq(Messages)
    BY EmptySeq
  <2> QED
    BY <2>1, NothingIsKept, NothingIsOwed
<1>2. ASSUME NEW q \in Seq(Messages), NEW m \in Messages, q \in S
      PROVE  Append(q, m) \in S
  <2> DEFINE t == Append(q, m)
             d == OwedFor(q)
             k == OnlyControls(q)
  <2>1. t \in Seq(Messages) /\ d \in Seq(Debts) /\ k \in Seq(Messages) /\ OwedFor(t) = Owing(d, m)
    BY OneMore, OwedForGrows, OnlyControlsGrows
  <2>2. OwedFor(k) = OnlyControls(d)
    BY <1>2
  <2>3. OnlyControls(t) = IF IsControl(m) THEN Append(k, m) ELSE k
    BY OnlyControlsGrows
  <2>4. SUFFICES OwedFor(OnlyControls(t)) = OnlyControls(Owing(d, m))
    BY <2>1
  <2> HIDE DEF t, d, k
  <2>5. CASE IsControl(m)
    <3>1. ~IsSnapshot(m) /\ m \in Debts
      BY <2>5, DebtKinds DEF IsControl, IsSnapshot, ControlKinds, Safety
    <3>2. Owing(d, m) = Append(d, m)
      BY <2>1, <3>1, OwingIs
    <3>3. OnlyControls(Append(d, m)) = Append(OnlyControls(d), m)
      BY <2>1, <2>5, <3>1, OnlyControlsGrows
    <3>4. OwedFor(Append(k, m)) = Owing(OwedFor(k), m)
      BY <2>1, OwedForGrows
    <3>5. OnlyControls(d) \in Seq(Debts)
      BY <2>1, <3>1, OnlyControlsGrows
    <3>6. Owing(OnlyControls(d), m) = Append(OnlyControls(d), m)
      BY <3>1, <3>5, OwingIs
    <3> QED
      BY <2>2, <2>3, <2>5, <3>2, <3>3, <3>4, <3>6
  <2>6. CASE ~IsControl(m) /\ ~IsSnapshot(m)
    <3>1. m \in Debts /\ Owing(d, m) = Append(d, m)
      BY <2>1, <2>6, OwingIs, DebtKinds
    <3>2. OnlyControls(Append(d, m)) = OnlyControls(d)
      BY <2>1, <2>6, <3>1, OnlyControlsGrows
    <3> QED
      BY <2>2, <2>3, <2>6, <3>1, <3>2
  <2>7. CASE IsSnapshot(m)
    <3>1. m \in Snapshot /\ ~IsControl(m)
      BY <2>7, DebtKinds DEF IsControl, IsSnapshot, ControlKinds, Safety
    <3>2. \A r \in Runs : r \in Debts /\ ~IsControl(r)
      BY DEF Debts, Runs, IsControl, ControlKinds, Safety
    <3>3. ASSUME TailIs("Run", d), Last(d).mask = m.mask
          PROVE  OnlyControls(Owing(d, m)) = OnlyControls(d)
      <4> DEFINE f == Front(d)
                 l == Last(d)
      <4>1. /\ l \in Runs /\ f \in Seq(Debts) /\ d = Append(f, l)
            /\ Owing(d, m) = Append(f, Longer(l, m))
        BY <2>1, <2>7, <3>3, OwingIs, FrontAndLast DEF TailIs
      <4> HIDE DEF f, l
      <4>2. Longer(l, m) \in Runs
        BY <3>1, <4>1, RunsAreRuns
      <4>3. OnlyControls(Append(f, l)) = OnlyControls(f)
            /\ OnlyControls(Append(f, Longer(l, m))) = OnlyControls(f)
        BY <3>2, <4>1, <4>2, OnlyControlsGrows
      <4> QED
        BY <4>1, <4>3
    <3>4. ASSUME ~(TailIs("Run", d) /\ Last(d).mask = m.mask)
          PROVE  OnlyControls(Owing(d, m)) = OnlyControls(d)
      <4>1. Owing(d, m) = Append(d, Begun(m)) /\ Begun(m) \in Runs
        BY <2>1, <2>7, <3>1, <3>4, OwingIs, RunsAreRuns
      <4> QED
        BY <2>1, <3>2, <4>1, OnlyControlsGrows
    <3> QED
      BY <2>2, <2>3, <3>1, <3>3, <3>4
  <2> QED
    BY <2>5, <2>6, <2>7
<1> HIDE DEF S
<1>3. Seq(Messages) \subseteq S
  BY <1>1, <1>2, SequenceSetInduction
<1> QED
  BY <1>3 DEF S

-----------------------------------------------------------------------------
(* The counters.                                                           *)

HowMany(s, P) == Cardinality({i \in DOMAIN s : s[i] \in P})

LEMMA OneMoreCounted ==
  ASSUME NEW M, NEW s \in Seq(M), NEW m \in M, NEW P
  PROVE  /\ HowMany(s, P) \in Nat
         /\ HowMany(Append(s, m), P) = HowMany(s, P) + IF m \in P THEN 1 ELSE 0
<1> DEFINE t == Append(s, m)
           A == {i \in DOMAIN s : s[i] \in P}
           B == {i \in DOMAIN t : t[i] \in P}
           n == Len(s)
<1>1. /\ n \in Nat /\ t[n + 1] = m /\ \A i \in 1 .. n : t[i] = s[i]
      /\ DOMAIN s = 1 .. n /\ DOMAIN t = 1 .. n + 1
  BY OneMore
<1>2. A \subseteq 1 .. n /\ IsFiniteSet(1 .. n)
  BY <1>1, FS_Interval
<1>3. IsFiniteSet(A) /\ Cardinality(A) \in Nat
  BY <1>2, FS_Subset, FS_CardinalityType
<1> HIDE DEF t, n
<1>4. CASE m \in P
  <2>1. B = A \cup {n + 1} /\ n + 1 \notin A
    BY <1>1, <1>2, <1>4
  <2> HIDE DEF A, B
  <2>2. Cardinality(B) = Cardinality(A) + 1
    BY <1>3, <2>1, FS_AddElement
  <2> QED
    BY <1>3, <1>4, <2>2 DEF HowMany, A, B, t
<1>5. CASE m \notin P
  <2>1. B = A
    BY <1>1, <1>2, <1>5
  <2> HIDE DEF A, B
  <2>2. Cardinality(B) = Cardinality(A) + 0
    BY <1>3, <2>1
  <2> QED
    BY <1>3, <1>5, <2>2 DEF HowMany, A, B, t
<1> QED
  BY <1>4, <1>5

LEMMA CountsGrow ==
  ASSUME NEW M, NEW s \in Seq(M), NEW m \in M
  PROVE  /\ SnapshotsIn(s) \in Nat /\ ControlsIn(s) \in Nat
         /\ SnapshotsIn(Append(s, m)) = SnapshotsIn(s) + IF IsSnapshot(m) THEN 1 ELSE 0
         /\ ControlsIn(Append(s, m)) = ControlsIn(s) + IF IsControl(m) THEN 1 ELSE 0
<1> DEFINE P == {x \in M : IsSnapshot(x)}
           Q == {x \in M : IsControl(x)}
           t == Append(s, m)
<1>1. (\A i \in DOMAIN s : s[i] \in M) /\ (\A i \in DOMAIN t : t[i] \in M)
  BY OneMore, ElementOfSeq
<1> HIDE DEF t
<1>2. /\ {i \in DOMAIN s : s[i] \in P} = {i \in DOMAIN s : IsSnapshot(s[i])}
      /\ {i \in DOMAIN s : s[i] \in Q} = {i \in DOMAIN s : IsControl(s[i])}
      /\ {i \in DOMAIN t : t[i] \in P} = {i \in DOMAIN t : IsSnapshot(t[i])}
      /\ {i \in DOMAIN t : t[i] \in Q} = {i \in DOMAIN t : IsControl(t[i])}
  BY <1>1
<1>3. (m \in P <=> IsSnapshot(m)) /\ (m \in Q <=> IsControl(m))
  OBVIOUS
<1> HIDE DEF P, Q
<1>4. /\ SnapshotsIn(s) = HowMany(s, P) /\ SnapshotsIn(t) = HowMany(t, P)
      /\ ControlsIn(s) = HowMany(s, Q) /\ ControlsIn(t) = HowMany(t, Q)
  BY <1>2 DEF SnapshotsIn, ControlsIn, HowMany
<1>5. ASSUME NEW K
      PROVE  HowMany(s, K) \in Nat /\ HowMany(t, K) = HowMany(s, K) + IF m \in K THEN 1 ELSE 0
  BY OneMoreCounted DEF t
<1> QED
  BY <1>3, <1>4, <1>5 DEF t

LEMMA NothingIsCounted == SnapshotsIn(<< >>) = 0 /\ ControlsIn(<< >>) = 0
<1>1. << >> \in Seq({}) /\ Len(<< >>) = 0
  BY EmptySeq
<1>2. DOMAIN << >> = 1 .. 0
  BY <1>1, LenProperties
<1> QED
  BY <1>2, FS_EmptySet DEF SnapshotsIn, ControlsIn

LEMMA ControlsAreCounted ==
  ASSUME NEW s \in Seq(Messages)
  PROVE  SnapshotsIn(OnlyControls(s)) = 0 /\ ControlsIn(OnlyControls(s)) = ControlsIn(s)
<1> DEFINE S == {q \in Seq(Messages) : /\ SnapshotsIn(OnlyControls(q)) = 0
                                       /\ ControlsIn(OnlyControls(q)) = ControlsIn(q)}
<1>1. << >> \in S
  <2>1. << >> \in Seq(Messages)
    BY EmptySeq
  <2> QED
    BY <2>1, NothingIsKept, NothingIsCounted
<1>2. ASSUME NEW q \in Seq(Messages), NEW m \in Messages, q \in S
      PROVE  Append(q, m) \in S
  <2> DEFINE t == Append(q, m)
             k == OnlyControls(q)
  <2>1. /\ t \in Seq(Messages) /\ k \in Seq(Messages)
        /\ OnlyControls(t) = IF IsControl(m) THEN Append(k, m) ELSE k
        /\ ControlsIn(q) \in Nat
        /\ ControlsIn(t) = ControlsIn(q) + IF IsControl(m) THEN 1 ELSE 0
    BY OneMore, OnlyControlsGrows, CountsGrow
  <2>2. SnapshotsIn(k) = 0 /\ ControlsIn(k) = ControlsIn(q)
    BY <1>2
  <2>3. /\ SnapshotsIn(Append(k, m)) = SnapshotsIn(k) + IF IsSnapshot(m) THEN 1 ELSE 0
        /\ ControlsIn(Append(k, m)) = ControlsIn(k) + IF IsControl(m) THEN 1 ELSE 0
    BY <2>1, CountsGrow
  <2> HIDE DEF t, k
  <2>4. IsControl(m) => ~IsSnapshot(m)
    BY DEF IsControl, IsSnapshot, ControlKinds, Safety
  <2>5. SnapshotsIn(OnlyControls(t)) = 0 /\ ControlsIn(OnlyControls(t)) = ControlsIn(t)
    <3>1. CASE IsControl(m)
      BY <2>1, <2>2, <2>3, <2>4, <3>1
    <3>2. CASE ~IsControl(m)
      BY <2>1, <2>2, <3>2
    <3> QED
      BY <3>1, <3>2
  <2> QED
    BY <2>1, <2>5 DEF t
<1> HIDE DEF S
<1>3. Seq(Messages) \subseteq S
  BY <1>1, <1>2, SequenceSetInduction
<1> QED
  BY <1>3 DEF S

-----------------------------------------------------------------------------
(* The mailbox.                                                            *)

LEMMA MessageKinds ==
  ASSUME NEW m \in Messages
  PROVE  /\ m \in Snapshot => IsSnapshot(m) /\ ~IsControl(m)
         /\ m \in Control => IsControl(m) /\ ~IsSnapshot(m)
         /\ ~IsSnapshot(Overflow) /\ ~IsControl(Overflow)
         /\ IsSnapshot(m) => m \in Snapshot
         /\ IsControl(m) => m \in Control
  BY DEF Messages, Snapshot, Overflows, Overflow, Control, IsSnapshot, IsControl, ControlKinds, Safety

\* A message at the end leaves the others where they are.
LEMMA Appended ==
  ASSUME NEW s \in Seq(Messages), NEW m \in Messages
  PROVE  /\ Append(s, m) \in Seq(Messages) /\ Append(s, m) # << >>
         /\ \A i \in DOMAIN Append(s, m) :
              \/ i = Len(Append(s, m)) /\ Append(s, m)[i] = m
              \/ i \in DOMAIN s /\ Append(s, m)[i] = s[i]
<1> DEFINE t == Append(s, m)
<1>1. /\ t \in Seq(Messages) /\ t # << >> /\ Len(t) = Len(s) + 1
      /\ \A i \in 1 .. Len(s) : t[i] = s[i]
      /\ t[Len(s) + 1] = m
  BY AppendProperties
<1>2. DOMAIN t = 1 .. Len(t) /\ DOMAIN s = 1 .. Len(s) /\ Len(s) \in Nat
  BY <1>1, LenProperties
<1> HIDE DEF t
<1>3. \A i \in DOMAIN t : (i = Len(t) /\ t[i] = m) \/ (i \in DOMAIN s /\ t[i] = s[i])
  BY <1>1, <1>2
<1> QED
  BY <1>1, <1>3 DEF t

LEMMA FrontIsKept ==
  ASSUME NEW s \in Seq(Messages), s # << >>
  PROVE  /\ Front(s) \in Seq(Messages)
         /\ \A i \in DOMAIN Front(s) : i \in DOMAIN s /\ Front(s)[i] = s[i]
<1> DEFINE n == Len(s) - 1
           f == SubSeq(s, 1, n)
<1>1. Len(s) \in Nat /\ DOMAIN s = 1 .. Len(s) /\ Len(s) # 0
  BY LenProperties, EmptySeq
<1>2. n \in 0 .. Len(s)
  BY <1>1
<1>3. /\ f \in Seq(Messages)
      /\ Len(f) = IF 1 <= n THEN n - 1 + 1 ELSE 0
      /\ \A i \in 1 .. n - 1 + 1 : f[i] = s[1 + i - 1]
  BY <1>1, <1>2, SubSeqProperties
<1>4. DOMAIN f = 1 .. Len(f)
  BY <1>3, LenProperties
<1>5. Front(s) = f
  BY DEF Front
<1> HIDE DEF f, n
<1>6. \A i \in DOMAIN f : i \in 1 .. n /\ 1 + i - 1 = i /\ n - 1 + 1 = n
  BY <1>2, <1>3, <1>4
<1>7. \A i \in DOMAIN f : i \in DOMAIN s /\ f[i] = s[i]
  BY <1>1, <1>2, <1>3, <1>6
<1> QED
  BY <1>3, <1>5, <1>7

LEMMA TailIsKept ==
  ASSUME NEW s \in Seq(Messages), s # << >>
  PROVE  /\ Tail(s) \in Seq(Messages) /\ Head(s) \in Messages /\ 1 \in DOMAIN s /\ Head(s) = s[1]
         /\ \A i \in DOMAIN Tail(s) : /\ i + 1 \in DOMAIN s /\ Tail(s)[i] = s[i + 1]
                                      /\ i + 1 = Len(s) => i = Len(Tail(s))
<1>1. /\ Tail(s) \in Seq(Messages) /\ Head(s) \in Messages /\ Len(Tail(s)) = Len(s) - 1
      /\ \A i \in 1 .. Len(Tail(s)) : Tail(s)[i] = s[i + 1]
  BY HeadTailProperties
<1>2. /\ Len(s) \in Nat /\ DOMAIN s = 1 .. Len(s) /\ Len(s) # 0
      /\ DOMAIN Tail(s) = 1 .. Len(Tail(s))
  BY <1>1, LenProperties, EmptySeq
<1>3. Head(s) = s[1]
  OBVIOUS
<1>4. 1 \in DOMAIN s
  BY <1>2
<1> DEFINE t == Tail(s)
<1>5. t \in Seq(Messages) /\ Len(t) = Len(s) - 1 /\ DOMAIN t = 1 .. Len(t) /\ \A i \in 1 .. Len(t) : t[i] = s[i + 1]
  BY <1>1, <1>2
<1> HIDE DEF t
<1>6. \A i \in DOMAIN t : i + 1 \in DOMAIN s /\ t[i] = s[i + 1] /\ (i + 1 = Len(s) => i = Len(t))
  BY <1>2, <1>5
<1> QED
  BY <1>1, <1>3, <1>4, <1>6 DEF t

LEMMA NoneLeft == << >> \in Seq(Messages) /\ DOMAIN << >> = {}
<1>1. << >> \in Seq(Messages) /\ Len(<< >>) = 0
  BY EmptySeq
<1>2. DOMAIN << >> = 1 .. 0
  BY <1>1, LenProperties
<1> QED
  BY <1>1, <1>2

LEMMA CommandsAreControls ==
  ASSUME NEW m, m \in Commands \/ (\E kind \in Safety, ack \in Acks : m = Plain(kind, ack))
  PROVE  m \in Control
  BY DEF Commands, ReplaceProfile, Plain, Control, ControlKinds, Safety

LEMMA SnapshotIsTaken ==
  ASSUME NEW m \in Mailboxes, NEW mask \in Masks, NEW sample \in Samples
  PROVE  /\ snapshot_of(m, mask, sample) \in Snapshot
         /\ snapshot_of(m, mask, sample) \in Messages
  BY DEF snapshot_of, Snapshot, Mailboxes, Messages

LEMMA SnapshotIsPushed ==
  ASSUME NEW m \in Mailboxes, NEW mask \in Masks, NEW sample \in Samples
  PROVE  /\ push_snapshot(m, mask, sample) \in Mailboxes
         /\ push_snapshot(m, mask, sample).messages = Append(m.messages, snapshot_of(m, mask, sample))
         /\ push_snapshot(m, mask, sample).generation = m.generation
         /\ push_snapshot(m, mask, sample).feedback_epoch = m.feedback_epoch
         /\ push_snapshot(m, mask, sample).snapshot_count = m.snapshot_count + 1
         /\ push_snapshot(m, mask, sample).control_count = m.control_count
         /\ push_snapshot(m, mask, sample).previous = m.latest
         /\ push_snapshot(m, mask, sample).latest = mask
<1> DEFINE ms == Append(m.messages, snapshot_of(m, mask, sample))
           c == m.snapshot_count + 1
           l == m.latest
           d == [m EXCEPT !.messages = ms, !.snapshot_count = c, !.previous = l, !.latest = mask]
<1>1. m.messages \in Seq(Messages) /\ c \in Nat /\ l \in Masks \cup {None} /\ mask \in Masks \cup {None}
  BY DEF Mailboxes
<1>2. ms \in Seq(Messages)
  BY <1>1, SnapshotIsTaken, Appended
<1>3. push_snapshot(m, mask, sample) = d
  BY DEF push_snapshot
<1> HIDE DEF ms, c, l
<1>4. d \in Mailboxes
  BY <1>1, <1>2, Zenon DEF Mailboxes
<1>5. /\ d.messages = ms /\ d.generation = m.generation /\ d.feedback_epoch = m.feedback_epoch
      /\ d.snapshot_count = c /\ d.control_count = m.control_count
      /\ d.previous = l /\ d.latest = mask
  BY <1>4, Zenon DEF Mailboxes
<1> HIDE DEF d
<1> QED
  BY <1>3, <1>4, <1>5 DEF ms, c, l

LEMMA OverflowResets ==
  ASSUME MailboxTyped, MayOverflow
  PROVE  /\ reset_snapshots_for_overflow \in Mailboxes
         /\ reset_snapshots_for_overflow.messages = Append(OnlyControls(mailbox.messages), Overflow)
         /\ reset_snapshots_for_overflow.generation = mailbox.generation + 1
         /\ reset_snapshots_for_overflow.feedback_epoch = mailbox.feedback_epoch + 1
         /\ reset_snapshots_for_overflow.latest = None
         /\ reset_snapshots_for_overflow.previous = None
         /\ reset_snapshots_for_overflow.snapshot_count = 0
         /\ reset_snapshots_for_overflow.control_count = mailbox.control_count
<1> DEFINE ms == Append(OnlyControls(mailbox.messages), Overflow)
           g == mailbox.generation + 1
           e == mailbox.feedback_epoch + 1
           d == [mailbox EXCEPT !.messages = ms, !.snapshot_count = 0, !.previous = None,
                                !.latest = None, !.generation = g, !.feedback_epoch = e]
<1>1. /\ mailbox \in Mailboxes /\ mailbox.messages \in Seq(Messages) /\ None \in Masks \cup {None}
      /\ 0 \in Nat /\ Overflow \in Messages
  BY DEF MailboxTyped, Mailboxes, Messages, Overflows
<1>2. g \in 0 .. MaxGeneration /\ e \in 0 .. MaxEpoch
  BY <1>1, MailboxAssumption DEF MayOverflow, Mailboxes
<1>3. ms \in Seq(Messages)
  BY <1>1, ControlsAreKept, Appended
<1>4. reset_snapshots_for_overflow = d
  BY DEF reset_snapshots_for_overflow
<1> HIDE DEF ms, g, e
<1>5. d \in Mailboxes
  BY <1>1, <1>2, <1>3, Zenon DEF Mailboxes
<1>6. /\ d.messages = ms /\ d.generation = g /\ d.feedback_epoch = e /\ d.latest = None
      /\ d.previous = None /\ d.snapshot_count = 0 /\ d.control_count = mailbox.control_count
  BY <1>1, Zenon DEF Mailboxes
<1> HIDE DEF d
<1> QED
  BY <1>4, <1>5, <1>6 DEF ms, g, e

\* What an overflow leaves asks nothing new, and holds no snapshot.
LEMMA OverflowKeeps ==
  ASSUME MailboxTyped, MayOverflow,
         NEW i \in DOMAIN reset_snapshots_for_overflow.messages
  PROVE  /\ ~IsSnapshot(reset_snapshots_for_overflow.messages[i])
         /\ IsControl(reset_snapshots_for_overflow.messages[i]) =>
              \E j \in DOMAIN mailbox.messages :
                reset_snapshots_for_overflow.messages[i] = mailbox.messages[j]
<1> DEFINE s == mailbox.messages
           kept == OnlyControls(s)
           m == reset_snapshots_for_overflow.messages[i]
<1>1. s \in Seq(Messages) /\ Overflow \in Messages
  BY DEF MailboxTyped, Mailboxes, Messages, Overflows
<1>2. /\ kept \in Seq(Messages)
      /\ \A k \in DOMAIN kept : \E j \in DOMAIN s : kept[k] = s[j] /\ IsControl(s[j])
  BY <1>1, ControlsAreKept
<1>3. i \in DOMAIN Append(kept, Overflow) /\ m = Append(kept, Overflow)[i]
  BY OverflowResets
<1> HIDE DEF m, kept, s
<1>4. m = Overflow \/ \E k \in DOMAIN kept : m = kept[k]
  BY <1>1, <1>2, <1>3, Appended
<1>5. CASE m = Overflow
  BY <1>1, <1>5, MessageKinds DEF m
<1>6. ASSUME NEW j \in DOMAIN s, m = s[j], IsControl(s[j])
      PROVE  ~IsSnapshot(m) /\ \E k \in DOMAIN s : m = s[k]
  BY <1>6 DEF IsSnapshot, IsControl, ControlKinds, Safety
<1> QED
  BY <1>2, <1>4, <1>5, <1>6 DEF m, s

LEMMA OverflowInvalidates ==
  ASSUME MailboxTyped, MayOverflow, mailbox'.feedback_epoch = mailbox.feedback_epoch + 1,
         invalidate_feedback(mailbox.feedback_epoch + 1)
  PROVE  outputs' \in Staged /\ FeedbackEpochs'
<1> DEFINE e == mailbox.feedback_epoch + 1
           d == [staged |-> None, discard |-> TRUE, epoch |-> e]
<1>1. e \in 0 .. MaxEpoch
  BY MailboxAssumption DEF MailboxTyped, Mailboxes, MayOverflow
<1>2. TRUE \in BOOLEAN /\ None \in 0 .. MaxEpoch \cup {None} /\ outputs' = d /\ mailbox'.feedback_epoch = e
  BY DEF invalidate_feedback
<1> HIDE DEF e
<1>3. d \in Staged
  BY <1>1, <1>2, Zenon DEF Staged
<1>4. d.epoch = e /\ d.staged = None
  BY Zenon
<1> QED
  BY <1>2, <1>3, <1>4, Zenon DEF FeedbackEpochs

AsksNothingNew ==
  \A i \in DOMAIN mailbox'.messages : IsControl(mailbox'.messages[i]) =>
    \E j \in DOMAIN mailbox.messages : mailbox'.messages[i] = mailbox.messages[j]

LEMMA NothingNewIsAsked ==
  ASSUME AcksAreUsed, AsksNothingNew, UNCHANGED <<batch, acks>>
  PROVE  AcksAreUsed'
<1>1. ASSUME NEW i \in DOMAIN mailbox'.messages, NEW ack \in Acks, Asks(mailbox'.messages[i], ack)
      PROVE  acks[ack] # "unused"
  <2>1. PICK j \in DOMAIN mailbox.messages : mailbox'.messages[i] = mailbox.messages[j]
    BY <1>1 DEF AsksNothingNew, Asks
  <2>2. Asks(mailbox.messages[j], ack)
    BY <1>1, <2>1
  <2> QED
    BY <2>2 DEF AcksAreUsed
<1>2. ASSUME NEW i \in DOMAIN batch, NEW ack \in Acks, Asks(batch[i], ack)
      PROVE  acks[ack] # "unused"
  BY <1>2 DEF AcksAreUsed
<1> QED
  BY <1>1, <1>2 DEF AcksAreUsed, Asks

LEMMA PublishKeeps ==
  ASSUME MailboxTyped, FeedbackEpochs, NEW mask \in Masks, NEW sample \in Samples,
         publish_snapshot(mask, sample)
  PROVE  /\ MailboxTyped' /\ FeedbackEpochs' /\ AsksNothingNew
         /\ mailbox.generation <= mailbox'.generation
         /\ UNCHANGED <<batch, acks>>
<1> DEFINE s == mailbox.messages
           m == snapshot_of(mailbox, mask, sample)
<1>1. /\ mailbox \in Mailboxes /\ s \in Seq(Messages) /\ m \in Messages /\ ~IsControl(m)
      /\ mailbox.generation \in Int
      /\ outputs \in Staged /\ batch \in Seq(Messages) /\ acks \in [Acks -> AnswerStates]
      /\ mailbox.latest # None => s # << >>
  <2>1. mailbox \in Mailboxes /\ outputs \in Staged /\ batch \in Seq(Messages)
        /\ acks \in [Acks -> AnswerStates] /\ (mailbox.latest # None => s # << >>)
    BY DEF MailboxTyped
  <2>2. s \in Seq(Messages) /\ mailbox.generation \in Int
    BY <2>1 DEF Mailboxes
  <2>3. m \in Messages /\ m \in Snapshot
    BY <2>1, SnapshotIsTaken
  <2> QED
    BY <2>1, <2>2, <2>3, MessageKinds
<1>2. UNCHANGED <<batch, acks>>
  BY DEF publish_snapshot
<1>3. CASE Coalesce(mask, sample)
  <2> DEFINE ms == Append(Front(s), m)
  <2>1. s # << >>
    BY <1>1, <1>3, MasksAreTwo DEF Coalesce, can_replace_latest
  <2>2. /\ Front(s) \in Seq(Messages)
        /\ \A i \in DOMAIN Front(s) : i \in DOMAIN s /\ Front(s)[i] = s[i]
    BY <1>1, <2>1, FrontIsKept
  <2>3. /\ ms \in Seq(Messages) /\ ms # << >>
        /\ \A i \in DOMAIN ms : ms[i] = m \/ \E j \in DOMAIN s : ms[i] = s[j]
    BY <1>1, <2>2, Appended
  <2>4. mailbox' = [mailbox EXCEPT !.messages = ms] /\ outputs' = outputs
    BY <1>3 DEF Coalesce
  <2> HIDE DEF ms, m, s
  <2>5. mailbox' \in Mailboxes
    BY <1>1, <2>3, <2>4, Zenon DEF Mailboxes
  <2>6. /\ mailbox'.messages = ms /\ mailbox'.generation = mailbox.generation
        /\ mailbox'.feedback_epoch = mailbox.feedback_epoch
    BY <1>1, <2>4, Zenon DEF Mailboxes
  <2>7. AsksNothingNew
    BY <1>1, <2>3, <2>6 DEF AsksNothingNew, s
  <2>8. MailboxTyped' /\ FeedbackEpochs'
    BY <1>1, <1>2, <2>3, <2>4, <2>5, <2>6 DEF MailboxTyped, FeedbackEpochs
  <2> QED
    BY <1>1, <1>2, <2>6, <2>7, <2>8
<1>4. CASE OverflowBy(mask, sample)
  <2> DEFINE reset == reset_snapshots_for_overflow
             r == reset.messages
             n == snapshot_of(reset, mask, sample)
  <2>1. MayOverflow /\ mailbox' = push_snapshot(reset, mask, sample)
        /\ invalidate_feedback(mailbox.feedback_epoch + 1)
    BY <1>4 DEF OverflowBy
  <2>2. /\ reset \in Mailboxes /\ reset.generation = mailbox.generation + 1
        /\ reset.feedback_epoch = mailbox.feedback_epoch + 1
    BY <2>1, OverflowResets
  <2>3. \A i \in DOMAIN r : IsControl(r[i]) => \E j \in DOMAIN s : r[i] = s[j]
    BY <2>1, OverflowKeeps
  <2> HIDE DEF reset
  <2>4. /\ n \in Messages /\ ~IsControl(n) /\ r \in Seq(Messages)
    <3>1. n \in Messages /\ n \in Snapshot
      BY <2>2, SnapshotIsTaken
    <3>2. r \in Seq(Messages)
      BY <2>2 DEF Mailboxes
    <3> QED
      BY <3>1, <3>2, MessageKinds
  <2>5. /\ mailbox' \in Mailboxes /\ mailbox'.messages = Append(r, n)
        /\ mailbox'.generation = mailbox.generation + 1
        /\ mailbox'.feedback_epoch = mailbox.feedback_epoch + 1
    BY <2>1, <2>2, SnapshotIsPushed
  <2> HIDE DEF n, s, r
  <2>6. /\ mailbox'.messages # << >>
        /\ \A i \in DOMAIN mailbox'.messages :
             mailbox'.messages[i] = n \/ \E j \in DOMAIN r : mailbox'.messages[i] = r[j]
    BY <2>4, <2>5, Appended
  <2>7. AsksNothingNew
    BY <2>3, <2>4, <2>6 DEF AsksNothingNew, s
  <2>8. outputs' \in Staged /\ FeedbackEpochs'
    BY <2>1, <2>5, OverflowInvalidates
  <2>9. MailboxTyped'
    BY <1>1, <1>2, <2>5, <2>6, <2>8 DEF MailboxTyped
  <2> QED
    BY <1>1, <1>2, <2>5, <2>7, <2>8, <2>9
<1>5. CASE AddSnapshot(mask, sample)
  <2>1. mailbox' = push_snapshot(mailbox, mask, sample) /\ outputs' = outputs
    BY <1>5 DEF AddSnapshot
  <2>2. /\ mailbox' \in Mailboxes /\ mailbox'.messages = Append(s, m)
        /\ mailbox'.generation = mailbox.generation
        /\ mailbox'.feedback_epoch = mailbox.feedback_epoch
    BY <1>1, <2>1, SnapshotIsPushed
  <2> HIDE DEF m, s
  <2>3. /\ mailbox'.messages # << >>
        /\ \A i \in DOMAIN mailbox'.messages :
             mailbox'.messages[i] = m \/ \E j \in DOMAIN s : mailbox'.messages[i] = s[j]
    BY <1>1, <2>2, Appended
  <2>4. AsksNothingNew
    BY <1>1, <2>3 DEF AsksNothingNew, s
  <2>5. MailboxTyped' /\ FeedbackEpochs'
    BY <1>1, <1>2, <2>1, <2>2, <2>3 DEF MailboxTyped, FeedbackEpochs
  <2> QED
    BY <1>1, <1>2, <2>2, <2>4, <2>5
<1> QED
  BY <1>3, <1>4, <1>5 DEF publish_snapshot

LEMMA OverflowIsPublished ==
  ASSUME MailboxTyped, FeedbackEpochs, publish_overflow
  PROVE  /\ MailboxTyped' /\ FeedbackEpochs' /\ AsksNothingNew
         /\ NoSnapshotIn(mailbox'.messages)
         /\ mailbox.generation <= mailbox'.generation
         /\ UNCHANGED <<batch, acks>>
<1>1. /\ MayOverflow /\ mailbox' = reset_snapshots_for_overflow
      /\ invalidate_feedback(mailbox.feedback_epoch + 1) /\ UNCHANGED <<batch, acks>>
  BY DEF publish_overflow
<1>2. /\ mailbox' \in Mailboxes /\ mailbox'.generation = mailbox.generation + 1
      /\ mailbox'.feedback_epoch = mailbox.feedback_epoch + 1 /\ mailbox'.latest = None
  BY <1>1, OverflowResets
<1>3. AsksNothingNew /\ NoSnapshotIn(mailbox'.messages)
  BY <1>1, OverflowKeeps DEF AsksNothingNew, NoSnapshotIn
<1>4. outputs' \in Staged /\ FeedbackEpochs'
  BY <1>1, <1>2, OverflowInvalidates
<1>5. mailbox.generation \in Int
  BY DEF MailboxTyped, Mailboxes
<1>6. MailboxTyped'
  BY <1>1, <1>2, <1>4 DEF MailboxTyped
<1> QED
  BY <1>1, <1>2, <1>3, <1>4, <1>5, <1>6

LEMMA RejectedAnswers ==
  ASSUME NEW a \in [Acks -> AnswerStates], NEW s
  PROVE  /\ Rejected(a, s) \in [Acks -> AnswerStates]
         /\ \A ack \in Acks : Rejected(a, s)[ack] \in {"err", a[ack]}
         /\ \A ack \in Acks : a[ack] = "unused" => Rejected(a, s)[ack] = "unused"
<1> DEFINE asked(ack) == \E i \in DOMAIN s : IsControl(s[i]) /\ s[i].ack = ack
<1>1. Rejected(a, s) = [ack \in Acks |-> IF a[ack] = "pending" /\ asked(ack) THEN "err" ELSE a[ack]]
  BY DEF Rejected
<1> HIDE DEF asked
<1>2. \A ack \in Acks : Rejected(a, s)[ack] = IF a[ack] = "pending" /\ asked(ack) THEN "err" ELSE a[ack]
  BY <1>1
<1>3. Rejected(a, s) \in [Acks -> AnswerStates]
  BY <1>1 DEF AnswerStates
<1> QED
  BY <1>2, <1>3

LEMMA AskedAnswers ==
  ASSUME acks \in [Acks -> AnswerStates], NEW m \in Control
  PROVE  /\ Asked(m) \in [Acks -> AnswerStates]
         /\ \A ack \in Acks : m.ack = ack => Asked(m)[ack] = "pending"
         /\ \A ack \in Acks : acks[ack] # "unused" => Asked(m)[ack] # "unused"
  BY MailboxAssumption DEF Asked, AnswerStates, Control

\* A control goes to the end, with its channel asked and no other forgotten.
LEMMA ControlIsPushed ==
  ASSUME MailboxTyped, FeedbackEpochs, AcksAreUsed, NEW m \in Control, push_control(m)
  PROVE  /\ MailboxTyped' /\ FeedbackEpochs' /\ AcksAreUsed'
         /\ mailbox'.generation = mailbox.generation /\ batch' = batch
         /\ \A i \in DOMAIN mailbox'.messages :
              \/ i = Len(mailbox'.messages) /\ mailbox'.messages[i] = m
              \/ \E j \in DOMAIN mailbox.messages : mailbox'.messages[i] = mailbox.messages[j]
         /\ m.kind \in Safety /\ m.ack \in Acks => acks'[m.ack] = "pending"
<1> DEFINE s == mailbox.messages
           t == mailbox'.messages
<1>1. /\ mailbox \in Mailboxes /\ s \in Seq(Messages) /\ m \in Messages
      /\ outputs \in Staged /\ batch \in Seq(Messages) /\ acks \in [Acks -> AnswerStates]
  BY DEF MailboxTyped, Mailboxes, Messages
<1>2. batch' = batch
  BY DEF push_control
<1>3. /\ Asked(m) \in [Acks -> AnswerStates]
      /\ \A ack \in Acks : m.ack = ack => Asked(m)[ack] = "pending"
      /\ \A ack \in Acks : acks[ack] # "unused" => Asked(m)[ack] # "unused"
  BY <1>1, AskedAnswers
<1>4. ASSUME acks' \in [Acks -> AnswerStates],
             \A ack \in Acks : Asked(m)[ack] # "unused" => acks'[ack] # "unused",
             \A i \in DOMAIN t : t[i] = m \/ \E j \in DOMAIN s : t[i] = s[j]
      PROVE  AcksAreUsed'
  <2>1. ASSUME NEW i \in DOMAIN t, NEW ack \in Acks, Asks(t[i], ack)
        PROVE  acks'[ack] # "unused"
    <3>1. CASE t[i] = m
      <4>1. m.ack = ack
        BY <2>1, <3>1 DEF Asks
      <4>2. Asked(m)[ack] = "pending"
        BY <1>3, <4>1
      <4> QED
        BY <1>4, <4>2
    <3>2. ASSUME NEW j \in DOMAIN s, t[i] = s[j] PROVE acks'[ack] # "unused"
      <4>1. Asks(s[j], ack)
        BY <2>1, <3>2
      <4>2. acks[ack] # "unused"
        BY <4>1 DEF AcksAreUsed
      <4> QED
        BY <1>3, <1>4, <4>2
    <3> QED
      BY <1>4, <3>1, <3>2
  <2>2. ASSUME NEW i \in DOMAIN batch, NEW ack \in Acks, Asks(batch[i], ack)
        PROVE  acks'[ack] # "unused"
    <3>1. acks[ack] # "unused"
      BY <2>2 DEF AcksAreUsed
    <3> QED
      BY <1>3, <1>4, <3>1
  <2> QED
    BY <1>2, <2>1, <2>2 DEF AcksAreUsed, Asks
<1>5. CASE Supersedes(m) /\ Supersede(m)
  <2> DEFINE ms == Append(Front(s), m)
  <2>1. /\ s # << >> /\ mailbox' = [mailbox EXCEPT !.messages = ms] /\ outputs' = outputs
        /\ acks' = Rejected(Asked(m), <<Last(s)>>) /\ m.kind = "ReplaceProfile"
    BY <1>5 DEF Supersedes, Supersede, TailIs
  <2>2. /\ ms \in Seq(Messages) /\ ms # << >>
        /\ \A i \in DOMAIN ms : (i = Len(ms) /\ ms[i] = m) \/ \E j \in DOMAIN s : ms[i] = s[j]
    <3>1. /\ Front(s) \in Seq(Messages)
          /\ \A i \in DOMAIN Front(s) : i \in DOMAIN s /\ Front(s)[i] = s[i]
      BY <1>1, <2>1, FrontIsKept
    <3> QED
      BY <1>1, <3>1, Appended
  <2> HIDE DEF ms, s
  <2>3. mailbox' \in Mailboxes
    BY <1>1, <2>1, <2>2, Zenon DEF Mailboxes
  <2>4. /\ mailbox'.messages = ms /\ mailbox'.generation = mailbox.generation
        /\ mailbox'.feedback_epoch = mailbox.feedback_epoch
    BY <1>1, <2>1, Zenon DEF Mailboxes
  <2>5. /\ acks' \in [Acks -> AnswerStates]
        /\ \A ack \in Acks : acks'[ack] \in {"err", Asked(m)[ack]}
    BY <1>3, <2>1, RejectedAnswers
  <2>6. \A ack \in Acks : Asked(m)[ack] # "unused" => acks'[ack] # "unused"
    BY <2>5
  <2>7. AcksAreUsed'
    BY <1>4, <2>2, <2>4, <2>5, <2>6
  <2>8. MailboxTyped' /\ FeedbackEpochs'
    BY <1>1, <1>2, <2>1, <2>2, <2>3, <2>4, <2>5 DEF MailboxTyped, FeedbackEpochs
  <2>9. m.kind \notin Safety
    BY <2>1 DEF Safety
  <2> QED
    BY <1>2, <2>2, <2>4, <2>7, <2>8, <2>9 DEF s
<1>6. CASE ~Supersedes(m) /\ Enqueue(m)
  <2> DEFINE e == mailbox.feedback_epoch + IF IsBarrier(m) THEN 1 ELSE 0
             ms == Append(s, m)
             c == mailbox.control_count + 1
             d == [staged |-> None, discard |-> TRUE, epoch |-> e]
  <2>1. /\ e <= MaxEpoch
        /\ mailbox' = [mailbox EXCEPT !.messages = ms, !.control_count = c, !.previous = None,
                                      !.latest = None, !.feedback_epoch = e]
        /\ acks' = Asked(m)
        /\ (IsBarrier(m) /\ outputs' = d) \/ (~IsBarrier(m) /\ outputs' = outputs)
    BY <1>6 DEF Enqueue, invalidate_feedback
  <2>2. /\ e \in 0 .. MaxEpoch /\ c \in Nat /\ (~IsBarrier(m) => e = mailbox.feedback_epoch)
        /\ None \in Masks \cup {None} /\ None \in 0 .. MaxEpoch \cup {None}
    BY <1>1, <2>1, MailboxAssumption DEF Mailboxes
  <2>3. /\ ms \in Seq(Messages) /\ ms # << >>
        /\ \A i \in DOMAIN ms : (i = Len(ms) /\ ms[i] = m) \/ \E j \in DOMAIN s : ms[i] = s[j]
    BY <1>1, Appended
  <2> HIDE DEF ms, c, e, s
  <2>4. mailbox' \in Mailboxes
    BY <1>1, <2>1, <2>2, <2>3, Zenon DEF Mailboxes
  <2>5. /\ mailbox'.messages = ms /\ mailbox'.generation = mailbox.generation
        /\ mailbox'.feedback_epoch = e
    BY <1>1, <2>1, Zenon DEF Mailboxes
  <2>6. TRUE \in BOOLEAN
    OBVIOUS
  <2>7. d \in Staged /\ d.epoch = e /\ d.staged = None
    BY <2>2, <2>6, Zenon DEF Staged
  <2> HIDE DEF d
  <2>8. outputs' \in Staged /\ FeedbackEpochs'
    BY <1>1, <2>1, <2>2, <2>5, <2>7 DEF FeedbackEpochs
  <2>9. AcksAreUsed'
    BY <1>3, <1>4, <2>1, <2>3, <2>5
  <2>10. MailboxTyped'
    BY <1>1, <1>2, <1>3, <2>1, <2>3, <2>4, <2>5, <2>8 DEF MailboxTyped
  <2> QED
    BY <1>2, <1>3, <2>1, <2>3, <2>5, <2>8, <2>9, <2>10 DEF s
<1> QED
  BY <1>5, <1>6 DEF push_control

LEMMA MailboxIsEmptied ==
  ASSUME mailbox \in Mailboxes
  PROVE  /\ Emptied \in Mailboxes /\ Emptied.messages = << >>
         /\ Emptied.generation = mailbox.generation
         /\ Emptied.feedback_epoch = mailbox.feedback_epoch /\ Emptied.latest = None
         /\ Emptied.previous = None /\ Emptied.snapshot_count = 0 /\ Emptied.control_count = 0
<1> DEFINE d == [mailbox EXCEPT !.messages = << >>, !.snapshot_count = 0,
                                !.control_count = 0, !.previous = None, !.latest = None]
<1>1. Emptied = d /\ << >> \in Seq(Messages) /\ 0 \in Nat /\ None \in Masks \cup {None}
  BY NoneLeft DEF Emptied
<1>2. d \in Mailboxes
  BY <1>1, Zenon DEF Mailboxes
<1>3. /\ d.messages = << >> /\ d.generation = mailbox.generation
      /\ d.feedback_epoch = mailbox.feedback_epoch /\ d.latest = None
      /\ d.previous = None /\ d.snapshot_count = 0 /\ d.control_count = 0
  BY Zenon DEF Mailboxes
<1> HIDE DEF d
<1> QED
  BY <1>1, <1>2, <1>3

LEMMA BatchIsTaken ==
  ASSUME MailboxTyped, FeedbackEpochs, AcksAreUsed, take_batch
  PROVE  /\ MailboxTyped' /\ FeedbackEpochs' /\ AcksAreUsed'
         /\ mailbox'.messages = << >> /\ batch' = mailbox.messages
         /\ mailbox'.generation = mailbox.generation /\ acks' = acks
<1>1. /\ mailbox' = Emptied /\ batch' = mailbox.messages /\ UNCHANGED <<outputs, acks>>
  BY DEF take_batch
<1>2. /\ mailbox' \in Mailboxes /\ mailbox'.messages = << >>
      /\ mailbox'.generation = mailbox.generation
      /\ mailbox'.feedback_epoch = mailbox.feedback_epoch /\ mailbox'.latest = None
  BY <1>1, MailboxIsEmptied DEF MailboxTyped
<1>3. mailbox.messages \in Seq(Messages)
  BY DEF MailboxTyped, Mailboxes
<1>4. MailboxTyped' /\ FeedbackEpochs'
  BY <1>1, <1>2, <1>3 DEF MailboxTyped, FeedbackEpochs
<1>5. AcksAreUsed'
  BY <1>1, <1>2, NoneLeft DEF AcksAreUsed, Asks
<1> QED
  BY <1>1, <1>2, <1>4, <1>5

LEMMA MailboxCloses ==
  ASSUME MailboxTyped, FeedbackEpochs, close
  PROVE  /\ MailboxTyped' /\ FeedbackEpochs' /\ AcksAreUsed'
         /\ mailbox'.messages = << >> /\ batch' = << >>
         /\ mailbox'.generation = mailbox.generation
         /\ \A ack \in Acks : acks'[ack] \in {"err", acks[ack]}
<1>1. /\ mailbox' = [Emptied EXCEPT !.accepting = FALSE] /\ batch' = << >>
      /\ acks' = Rejected(acks, mailbox.messages \o batch) /\ UNCHANGED outputs
  BY DEF close
<1>2. /\ Emptied \in Mailboxes /\ Emptied.messages = << >>
      /\ Emptied.generation = mailbox.generation
      /\ Emptied.feedback_epoch = mailbox.feedback_epoch /\ Emptied.latest = None
  BY MailboxIsEmptied DEF MailboxTyped
<1>3. FALSE \in BOOLEAN
  OBVIOUS
<1>4. mailbox' \in Mailboxes
  BY <1>1, <1>2, <1>3, Zenon DEF Mailboxes
<1>5. /\ mailbox'.messages = << >> /\ mailbox'.generation = mailbox.generation
      /\ mailbox'.feedback_epoch = mailbox.feedback_epoch /\ mailbox'.latest = None
  BY <1>1, <1>2, Zenon DEF Mailboxes
<1>6. /\ acks' \in [Acks -> AnswerStates]
      /\ \A ack \in Acks : acks'[ack] \in {"err", acks[ack]}
  BY <1>1, RejectedAnswers DEF MailboxTyped
<1>7. MailboxTyped' /\ FeedbackEpochs'
  BY <1>1, <1>4, <1>5, <1>6, NoneLeft DEF MailboxTyped, FeedbackEpochs
<1>8. AcksAreUsed'
  BY <1>1, <1>5, NoneLeft DEF AcksAreUsed, Asks
<1> QED
  BY <1>1, <1>5, <1>6, <1>7, <1>8

-----------------------------------------------------------------------------
(* What is owed is queued.                                                 *)

\* CountersDescribeQueue, of the parts of a mailbox.
Described(s, snapshots, controls, previous, latest) ==
  /\ snapshots = SnapshotsIn(s) /\ controls = ControlsIn(s)
  /\ snapshots <= InputCapacity /\ controls <= ControlCapacity
  /\ latest # None => TailIs("Snapshot", s) /\ Last(s).mask = latest
  /\ previous # None =>
       Len(s) > 1 /\ IsSnapshot(s[Len(s) - 1]) /\ s[Len(s) - 1].mask = previous

LEMMA DescribedQueue ==
  /\ CountersDescribeQueue <=>
       Described(mailbox.messages, mailbox.snapshot_count, mailbox.control_count,
                 mailbox.previous, mailbox.latest)
  /\ CountersDescribeQueue' <=>
       Described(mailbox'.messages, mailbox'.snapshot_count, mailbox'.control_count,
                 mailbox'.previous, mailbox'.latest)
  BY DEF CountersDescribeQueue, Described, SnapshotsIn, ControlsIn, TailIs, IsSnapshot, IsControl

\* One message more is counted, and the run goes on with a snapshot.
LEMMA DescribedGrows ==
  ASSUME NEW s \in Seq(Messages), NEW m \in Messages,
         NEW snapshots, NEW controls, NEW previous, NEW latest,
         Described(s, snapshots, controls, previous, latest)
  PROVE  /\ IsSnapshot(m) /\ snapshots < InputCapacity =>
              Described(Append(s, m), snapshots + 1, controls, latest, m.mask)
         /\ IsControl(m) /\ controls < ControlCapacity =>
              Described(Append(s, m), snapshots, controls + 1, None, None)
         /\ ~IsSnapshot(m) /\ ~IsControl(m) =>
              Described(Append(s, m), snapshots, controls, None, None)
<1> DEFINE t == Append(s, m)
           n == Len(s)
<1>1. /\ t \in Seq(Messages) /\ t # << >> /\ n \in Nat /\ t[n + 1] = m /\ Last(t) = m
      /\ (\A i \in 1 .. n : t[i] = s[i]) /\ Len(t) = n + 1
  BY OneMore
<1>2. /\ SnapshotsIn(s) \in Nat /\ ControlsIn(s) \in Nat
      /\ SnapshotsIn(t) = SnapshotsIn(s) + IF IsSnapshot(m) THEN 1 ELSE 0
      /\ ControlsIn(t) = ControlsIn(s) + IF IsControl(m) THEN 1 ELSE 0
  BY CountsGrow
<1>3. /\ snapshots = SnapshotsIn(s) /\ controls = ControlsIn(s)
      /\ snapshots <= InputCapacity /\ controls <= ControlCapacity
      /\ latest # None => TailIs("Snapshot", s) /\ Last(s).mask = latest
  BY DEF Described
<1>4. InputCapacity \in Nat /\ ControlCapacity \in Nat
  BY MailboxAssumption
<1>5. latest # None => n > 0 /\ IsSnapshot(t[n]) /\ t[n].mask = latest
  <2>1. SUFFICES ASSUME latest # None PROVE n > 0 /\ IsSnapshot(t[n]) /\ t[n].mask = latest
    OBVIOUS
  <2>2. s # << >> /\ Last(s).kind = "Snapshot" /\ Last(s).mask = latest
    BY <1>3, <2>1 DEF TailIs
  <2>3. n > 0
    BY <2>2, FrontAndLast
  <2>4. Last(s) = s[n] /\ t[n] = s[n]
    BY <1>1, <2>3 DEF Last
  <2> QED
    BY <2>2, <2>3, <2>4 DEF IsSnapshot
<1>6. ~(IsSnapshot(m) /\ IsControl(m))
  BY DEF IsSnapshot, IsControl, ControlKinds, Safety
<1> HIDE DEF t, n
<1>7. Len(t) - 1 = n
  BY <1>1
<1>8. CASE IsSnapshot(m) /\ snapshots < InputCapacity
  <2>1. SnapshotsIn(t) = snapshots + 1 /\ ControlsIn(t) = controls /\ snapshots + 1 <= InputCapacity
    BY <1>2, <1>3, <1>4, <1>6, <1>8
  <2>2. TailIs("Snapshot", t) /\ Last(t).mask = m.mask
    BY <1>1, <1>8 DEF TailIs, IsSnapshot
  <2>3. latest # None => Len(t) > 1 /\ IsSnapshot(t[Len(t) - 1]) /\ t[Len(t) - 1].mask = latest
    BY <1>1, <1>5, <1>7
  <2> QED
    BY <1>3, <1>6, <1>8, <2>1, <2>2, <2>3 DEF Described, t
<1>9. CASE IsControl(m) /\ controls < ControlCapacity
  <2>1. SnapshotsIn(t) = snapshots /\ ControlsIn(t) = controls + 1 /\ controls + 1 <= ControlCapacity
    BY <1>2, <1>3, <1>4, <1>6, <1>9
  <2> QED
    BY <1>3, <1>6, <1>9, <2>1 DEF Described, t
<1>10. CASE ~IsSnapshot(m) /\ ~IsControl(m)
  <2>1. SnapshotsIn(t) = snapshots /\ ControlsIn(t) = controls
    BY <1>2, <1>3, <1>10
  <2> QED
    BY <1>3, <1>10, <2>1 DEF Described, t
<1> QED
  BY <1>6, <1>8, <1>9, <1>10 DEF t

\* A last message that gives way to another of its kind.
LEMMA DescribedSwap ==
  ASSUME NEW s \in Seq(Messages), s # << >>, NEW m \in Messages,
         IsSnapshot(m) <=> IsSnapshot(Last(s)), IsControl(m) <=> IsControl(Last(s)),
         NEW snapshots, NEW controls, NEW previous, NEW latest,
         Described(s, snapshots, controls, previous, latest),
         latest # None => IsSnapshot(m) /\ m.mask = latest
  PROVE  Described(Append(Front(s), m), snapshots, controls, previous, latest)
<1> DEFINE f == Front(s)
           l == Last(s)
           t == Append(f, m)
           n == Len(s)
<1>1. /\ f \in Seq(Messages) /\ l \in Messages /\ s = Append(f, l) /\ n \in Nat /\ n > 0
      /\ Len(f) = n - 1 /\ \A i \in 1 .. n - 1 : f[i] = s[i]
  BY FrontAndLast
<1> HIDE DEF f, l, n
<1>2. /\ t \in Seq(Messages) /\ t # << >> /\ Last(t) = m /\ Len(t) = n
      /\ \A i \in 1 .. n - 1 : t[i] = s[i]
  <2>1. /\ t \in Seq(Messages) /\ t # << >> /\ Last(t) = m /\ Len(t) = Len(f) + 1
        /\ \A i \in 1 .. Len(f) : t[i] = f[i]
    BY <1>1, OneMore
  <2> QED
    BY <1>1, <2>1
<1>3. SnapshotsIn(t) = SnapshotsIn(s) /\ ControlsIn(t) = ControlsIn(s)
  <2>1. /\ SnapshotsIn(t) = SnapshotsIn(f) + IF IsSnapshot(m) THEN 1 ELSE 0
        /\ ControlsIn(t) = ControlsIn(f) + IF IsControl(m) THEN 1 ELSE 0
        /\ SnapshotsIn(s) = SnapshotsIn(f) + IF IsSnapshot(l) THEN 1 ELSE 0
        /\ ControlsIn(s) = ControlsIn(f) + IF IsControl(l) THEN 1 ELSE 0
    BY <1>1, CountsGrow
  <2> QED
    BY <2>1 DEF l
<1> HIDE DEF t
<1>4. latest # None => TailIs("Snapshot", t) /\ Last(t).mask = latest
  BY <1>2 DEF TailIs, IsSnapshot
<1>5. previous # None =>
        Len(t) > 1 /\ IsSnapshot(t[Len(t) - 1]) /\ t[Len(t) - 1].mask = previous
  <2>1. previous # None => n > 1 /\ IsSnapshot(s[n - 1]) /\ s[n - 1].mask = previous
    BY DEF Described, n
  <2>2. n > 1 => n - 1 \in 1 .. n - 1 
    BY <1>1
  <2> QED
    BY <1>2, <2>1, <2>2
<1> QED
  BY <1>3, <1>4, <1>5 DEF Described, t, f

LEMMA SnapshotsOweAlike ==
  ASSUME NEW d, NEW a \in Snapshot, NEW b \in Snapshot, a.mask = b.mask, a.sample = b.sample
  PROVE  Owing(d, a) = Owing(d, b)
<1>1. IsSnapshot(a) /\ IsSnapshot(b)
  BY DEF Snapshot, IsSnapshot
<1> QED
  BY <1>1, Zenon DEF Owing

\* An overflow owes the controls it leaves, and the overflow.
LEMMA OverflowOwes ==
  ASSUME MailboxTyped, NothingOwedIsLost, MayOverflow
  PROVE  /\ Append(OnlyControls(owed), Overflow) = OwedFor(reset_snapshots_for_overflow.messages)
         /\ Described(reset_snapshots_for_overflow.messages, 0, mailbox.control_count, None, None)
<1> DEFINE s == mailbox.messages
           k == OnlyControls(s)
           r == reset_snapshots_for_overflow.messages
<1>1. /\ s \in Seq(Messages) /\ Overflow \in Messages /\ ~IsControl(Overflow)
      /\ ~IsSnapshot(Overflow)
  BY DEF MailboxTyped, Mailboxes, Messages, Overflows, Overflow, IsControl, IsSnapshot,
         ControlKinds, Safety
<1>2. r = Append(k, Overflow) /\ k \in Seq(Messages)
  BY <1>1, OverflowResets, ControlsAreKept
<1>3. OwedFor(s) = owed /\ OwedFor(s) \in Seq(Debts)
  BY <1>1, OwedForGrows DEF NothingOwedIsLost, OwedIsQueued
<1>4. OwedFor(k) = OnlyControls(owed) /\ OwedFor(k) \in Seq(Debts)
  BY <1>1, <1>2, <1>3, OverflowOwesTheControls, OwedForGrows
<1>5. OwedFor(r) = Append(OnlyControls(owed), Overflow)
  <2> HIDE DEF k, s, r
  <2>1. OwedFor(r) = Owing(OwedFor(k), Overflow)
    BY <1>1, <1>2, OwedForGrows
  <2>2. Owing(OwedFor(k), Overflow) = Append(OwedFor(k), Overflow)
    BY <1>1, Zenon DEF Owing
  <2> QED
    BY <1>4, <2>1, <2>2
<1>6. Described(k, 0, mailbox.control_count, None, None)
  <2>1. mailbox.control_count = ControlsIn(s) /\ mailbox.control_count <= ControlCapacity
    BY DescribedQueue DEF NothingOwedIsLost, Described
  <2>2. SnapshotsIn(k) = 0 /\ ControlsIn(k) = ControlsIn(s) /\ 0 <= InputCapacity
    BY <1>1, ControlsAreCounted, MailboxAssumption
  <2> QED
    BY <2>1, <2>2 DEF Described
<1> HIDE DEF k, s, r
<1>7. Described(r, 0, mailbox.control_count, None, None)
  BY <1>1, <1>2, <1>6, DescribedGrows
<1> QED
  BY <1>5, <1>7 DEF r

LEMMA PublishOwes ==
  ASSUME MailboxTyped, NothingOwedIsLost, NEW mask \in Masks, NEW sample \in Samples,
         publish_snapshot(mask, sample)
  PROVE  NothingOwedIsLost'
<1> DEFINE s == mailbox.messages
           m == snapshot_of(mailbox, mask, sample)
<1>1. /\ mailbox \in Mailboxes /\ s \in Seq(Messages) /\ m \in Snapshot /\ m \in Messages
      /\ IsSnapshot(m) /\ ~IsControl(m) /\ m.mask = mask /\ m.sample = sample
  <2>1. mailbox \in Mailboxes /\ s \in Seq(Messages)
    BY DEF MailboxTyped, Mailboxes
  <2>2. m \in Snapshot /\ m \in Messages
    BY <2>1, SnapshotIsTaken
  <2>3. m.mask = mask /\ m.sample = sample
    BY DEF snapshot_of
  <2> QED
    BY <2>1, <2>2, <2>3, MessageKinds
<1>2. /\ OwedFor(s) = owed
      /\ Described(s, mailbox.snapshot_count, mailbox.control_count, mailbox.previous, mailbox.latest)
  BY DescribedQueue DEF NothingOwedIsLost, OwedIsQueued
<1>3. SUFFICES /\ OwedFor(mailbox'.messages) = owed'
               /\ Described(mailbox'.messages, mailbox'.snapshot_count, mailbox'.control_count,
                            mailbox'.previous, mailbox'.latest)
  BY DescribedQueue DEF NothingOwedIsLost, OwedIsQueued, OwedFor, Owing, IsSnapshot, TailIs
<1>4. CASE Coalesce(mask, sample)
  <2> DEFINE ms == Append(Front(s), m)
             n == Len(s)
  <2>1. /\ mailbox.latest = mask /\ mailbox.previous = mask
        /\ mailbox' = [mailbox EXCEPT !.messages = ms] /\ owed' = Owing(owed, m)
    BY <1>4 DEF Coalesce, can_replace_latest
  <2>2. mailbox.latest # None /\ mailbox.previous # None
    BY <2>1, MasksAreTwo
  <2>3. /\ s # << >> /\ IsSnapshot(Last(s)) /\ Last(s).mask = mask
        /\ n > 1 /\ IsSnapshot(s[n - 1]) /\ s[n - 1].mask = mask
    BY <1>2, <2>1, <2>2 DEF Described, TailIs, IsSnapshot
  <2>4. /\ n \in Nat /\ Front(s) \in Seq(Messages) /\ Len(Front(s)) = n - 1
        /\ \A i \in 1 .. n - 1 : Front(s)[i] = s[i]
    BY <1>1, <2>3, FrontAndLast
  <2>5. Front(s) # << >> /\ Last(Front(s)) = s[n - 1]
    <3> HIDE DEF n
    <3>1. n - 1 \in 1 .. n - 1 /\ n - 1 # 0
      <4>1. n \in Nat /\ n > 1
        BY <2>3, <2>4
      <4> QED
        BY ONLY <4>1
    <3>2. Len(<< >>) = 0
      BY EmptySeq
    <3>3. Front(s) # << >>
      BY <2>4, <3>1, <3>2
    <3>4. Last(Front(s)) = Front(s)[n - 1]
      BY <2>4 DEF Last
    <3> QED
      BY <2>4, <3>1, <3>3, <3>4
  <2>6. OwedFor(ms) = Owing(owed, m)
    BY <1>1, <1>2, <2>3, <2>5, ReplacingOwesTheSame
  <2>7. IsControl(m) <=> IsControl(Last(s))
    BY <1>1, <2>3 DEF IsControl, IsSnapshot, ControlKinds, Safety
  <2>8. Described(ms, mailbox.snapshot_count, mailbox.control_count, mailbox.previous, mailbox.latest)
    BY <1>1, <1>2, <2>1, <2>3, <2>7, DescribedSwap
  <2> HIDE DEF ms
  <2>9. /\ mailbox'.messages = ms /\ mailbox'.snapshot_count = mailbox.snapshot_count
        /\ mailbox'.control_count = mailbox.control_count
        /\ mailbox'.previous = mailbox.previous /\ mailbox'.latest = mailbox.latest
    BY <1>1, <2>1, Zenon DEF Mailboxes
  <2> QED
    BY <2>1, <2>6, <2>8, <2>9
<1>5. CASE OverflowBy(mask, sample)
  <2> DEFINE reset == reset_snapshots_for_overflow
             r == reset.messages
             o == snapshot_of(reset, mask, sample)
  <2>1. /\ MayOverflow /\ mailbox' = push_snapshot(reset, mask, sample)
        /\ owed' = Owing(Append(OnlyControls(owed), Overflow), m)
    BY <1>5 DEF OverflowBy
  <2>2. /\ OwedFor(r) = Append(OnlyControls(owed), Overflow)
        /\ Described(r, 0, mailbox.control_count, None, None)
    BY <2>1, OverflowOwes
  <2>3. /\ reset \in Mailboxes /\ reset.snapshot_count = 0 /\ reset.latest = None
        /\ reset.control_count = mailbox.control_count
    BY <2>1, OverflowResets
  <2> HIDE DEF reset
  <2>4. /\ mailbox'.messages = Append(r, o) /\ mailbox'.snapshot_count = 0 + 1
        /\ mailbox'.control_count = mailbox.control_count
        /\ mailbox'.previous = None /\ mailbox'.latest = mask
    BY <2>1, <2>3, SnapshotIsPushed
  <2>5. /\ r \in Seq(Messages) /\ o \in Snapshot /\ o \in Messages /\ IsSnapshot(o)
        /\ o.mask = mask /\ o.sample = sample
    <3>1. r \in Seq(Messages)
      BY <2>3 DEF Mailboxes
    <3>2. o \in Snapshot /\ o \in Messages
      BY <2>3, SnapshotIsTaken
    <3>3. o.mask = mask /\ o.sample = sample
      BY DEF snapshot_of
    <3> QED
      BY <3>1, <3>2, <3>3, MessageKinds
  <2> HIDE DEF r, o, m
  <2>6. OwedFor(Append(r, o)) = Owing(OwedFor(r), o)
    BY <2>5, OwedForGrows
  <2>7. Owing(OwedFor(r), o) = Owing(OwedFor(r), m)
    BY <1>1, <2>5, SnapshotsOweAlike
  <2>8. 0 < InputCapacity
    BY MailboxAssumption
  <2>9. Described(Append(r, o), 0 + 1, mailbox.control_count, None, o.mask)
    BY <2>2, <2>5, <2>8, DescribedGrows
  <2> QED
    BY <2>1, <2>2, <2>4, <2>5, <2>6, <2>7, <2>9
<1>6. CASE AddSnapshot(mask, sample)
  <2>1. /\ mailbox.snapshot_count # InputCapacity /\ mailbox' = push_snapshot(mailbox, mask, sample)
        /\ owed' = Owing(owed, m)
    BY <1>6 DEF AddSnapshot
  <2>2. /\ mailbox'.messages = Append(s, m)
        /\ mailbox'.snapshot_count = mailbox.snapshot_count + 1
        /\ mailbox'.control_count = mailbox.control_count
        /\ mailbox'.previous = mailbox.latest /\ mailbox'.latest = mask
    BY <1>1, <2>1, SnapshotIsPushed
  <2>3. mailbox.snapshot_count < InputCapacity
    <3>1. mailbox.snapshot_count <= InputCapacity
      BY <1>2 DEF Described
    <3>2. mailbox.snapshot_count \in Nat /\ InputCapacity \in Nat
      BY <1>1, MailboxAssumption DEF Mailboxes
    <3> QED
      BY <2>1, <3>1, <3>2
  <2> HIDE DEF s, m
  <2>4. OwedFor(Append(s, m)) = Owing(owed, m)
    BY <1>1, <1>2, OwedForGrows
  <2>5. Described(Append(s, m), mailbox.snapshot_count + 1, mailbox.control_count,
                  mailbox.latest, m.mask)
    BY <1>1, <1>2, <2>3, DescribedGrows
  <2> QED
    BY <1>1, <2>1, <2>2, <2>4, <2>5
<1> QED
  BY <1>4, <1>5, <1>6 DEF publish_snapshot

LEMMA OverflowReportOwes ==
  ASSUME MailboxTyped, NothingOwedIsLost, publish_overflow
  PROVE  NothingOwedIsLost'
<1>1. /\ MayOverflow /\ mailbox' = reset_snapshots_for_overflow
      /\ owed' = Append(OnlyControls(owed), Overflow)
  BY DEF publish_overflow
<1>2. /\ OwedFor(mailbox'.messages) = owed'
      /\ Described(mailbox'.messages, 0, mailbox.control_count, None, None)
  BY <1>1, OverflowOwes
<1>3. /\ mailbox'.snapshot_count = 0 /\ mailbox'.control_count = mailbox.control_count
      /\ mailbox'.previous = None /\ mailbox'.latest = None
  BY <1>1, OverflowResets
<1>4. CountersDescribeQueue'
  BY <1>2, <1>3, DescribedQueue
<1> QED
  BY <1>2, <1>4 DEF NothingOwedIsLost, OwedIsQueued, OwedFor, Owing, IsSnapshot, TailIs

LEMMA ControlOwes ==
  ASSUME MailboxTyped, NothingOwedIsLost, NEW m \in Control, push_control(m)
  PROVE  NothingOwedIsLost'
<1> DEFINE s == mailbox.messages
<1>1. /\ mailbox \in Mailboxes /\ s \in Seq(Messages) /\ m \in Messages
      /\ ~IsSnapshot(m) /\ IsControl(m)
  <2>1. m \in Messages
    BY DEF Messages
  <2> QED
    BY <2>1, MessageKinds DEF MailboxTyped, Mailboxes
<1>2. /\ OwedFor(s) = owed
      /\ Described(s, mailbox.snapshot_count, mailbox.control_count, mailbox.previous, mailbox.latest)
  BY DescribedQueue DEF NothingOwedIsLost, OwedIsQueued
<1>3. SUFFICES /\ OwedFor(mailbox'.messages) = owed'
               /\ Described(mailbox'.messages, mailbox'.snapshot_count, mailbox'.control_count,
                            mailbox'.previous, mailbox'.latest)
  BY DescribedQueue DEF NothingOwedIsLost, OwedIsQueued, OwedFor, Owing, IsSnapshot, TailIs
<1>4. CASE Supersedes(m) /\ Supersede(m)
  <2> DEFINE f == Front(s)
             l == Last(s)
             ms == Append(f, m)
  <2>1. /\ s # << >> /\ l.kind = "ReplaceProfile"
        /\ mailbox' = [mailbox EXCEPT !.messages = ms] /\ owed' = Append(Front(owed), m)
    BY <1>4 DEF Supersedes, Supersede, TailIs
  <2>2. f \in Seq(Messages) /\ l \in Messages /\ s = Append(f, l)
    BY <1>1, <2>1, FrontAndLast
  <2>3. ~IsSnapshot(l) /\ IsControl(l) /\ l \in Debts /\ m \in Debts
    BY <1>1, <2>1, <2>2, DebtKinds DEF IsSnapshot, IsControl, ControlKinds
  <2>4. mailbox.latest = None
    BY <1>2, <2>1 DEF Described, TailIs
  <2>5. Described(ms, mailbox.snapshot_count, mailbox.control_count, mailbox.previous, mailbox.latest)
    BY <1>1, <1>2, <2>1, <2>3, <2>4, DescribedSwap
  <2> HIDE DEF f, l
  <2>6. OwedFor(f) \in Seq(Debts) /\ owed = Append(OwedFor(f), l)
    BY <1>2, <2>2, <2>3, OwedForGrows, OwingIs
  <2>7. Front(owed) = OwedFor(f)
    BY <2>3, <2>6, OneMore
  <2>8. OwedFor(ms) = Append(OwedFor(f), m)
    BY <1>1, <2>2, <2>6, OwedForGrows, OwingIs
  <2> HIDE DEF ms
  <2>9. /\ mailbox'.messages = ms /\ mailbox'.snapshot_count = mailbox.snapshot_count
        /\ mailbox'.control_count = mailbox.control_count
        /\ mailbox'.previous = mailbox.previous /\ mailbox'.latest = mailbox.latest
    BY <1>1, <2>1, Zenon DEF Mailboxes
  <2> QED
    BY <2>1, <2>5, <2>7, <2>8, <2>9
<1>5. CASE ~Supersedes(m) /\ Enqueue(m)
  <2> DEFINE ms == Append(s, m)
             c == mailbox.control_count + 1
             e == mailbox.feedback_epoch + IF IsBarrier(m) THEN 1 ELSE 0
  <2>1. /\ mailbox' = [mailbox EXCEPT !.messages = ms, !.control_count = c, !.previous = None,
                                      !.latest = None, !.feedback_epoch = e]
        /\ owed' = Append(owed, m)
    BY <1>5 DEF Enqueue
  <2>2. mailbox.control_count < ControlCapacity
    <3>1. ~(mailbox.control_count >= limit(m))
      BY <1>5 DEF push_control, Refused
    <3>2. mailbox.control_count \in Nat /\ ControlCapacity \in Nat
      BY <1>1, MailboxAssumption DEF Mailboxes
    <3>3. limit(m) \in Nat /\ limit(m) <= ControlCapacity
      BY MailboxAssumption DEF limit
    <3> QED
      BY <3>1, <3>2, <3>3
  <2>3. Described(ms, mailbox.snapshot_count, c, None, None)
    BY <1>1, <1>2, <2>2, DescribedGrows
  <2>4. OwedFor(ms) = Append(owed, m)
    BY <1>1, <1>2, OwedForGrows, OwingIs
  <2> HIDE DEF ms, c, e
  <2>5. /\ mailbox'.messages = ms /\ mailbox'.snapshot_count = mailbox.snapshot_count
        /\ mailbox'.control_count = c /\ mailbox'.previous = None /\ mailbox'.latest = None
    BY <1>1, <2>1, Zenon DEF Mailboxes
  <2> QED
    BY <2>1, <2>3, <2>4, <2>5
<1> QED
  BY <1>4, <1>5 DEF push_control

\* An empty mailbox owes nothing.
LEMMA EmptyOwes ==
  ASSUME mailbox'.messages = << >>, mailbox'.snapshot_count = 0, mailbox'.control_count = 0,
         mailbox'.previous = None, mailbox'.latest = None, owed' = << >>
  PROVE  NothingOwedIsLost'
<1>1. Described(<< >>, 0, 0, None, None)
  BY NothingIsCounted, MailboxAssumption DEF Described
<1>2. CountersDescribeQueue'
  BY <1>1, DescribedQueue
<1> QED
  BY <1>2, NothingIsOwed DEF NothingOwedIsLost, OwedIsQueued, OwedFor, Owing, IsSnapshot, TailIs

LEMMA TakingAndClosingOwe ==
  ASSUME MailboxTyped, take_batch \/ close
  PROVE  NothingOwedIsLost'
<1>1. /\ Emptied \in Mailboxes /\ Emptied.messages = << >> /\ Emptied.latest = None
      /\ Emptied.previous = None /\ Emptied.snapshot_count = 0 /\ Emptied.control_count = 0
  BY MailboxIsEmptied DEF MailboxTyped
<1>2. CASE take_batch
  BY <1>1, <1>2, EmptyOwes DEF take_batch
<1>3. CASE close
  <2>1. mailbox' = [Emptied EXCEPT !.accepting = FALSE] /\ owed' = << >>
    BY <1>3 DEF close
  <2>2. /\ mailbox'.messages = << >> /\ mailbox'.latest = None /\ mailbox'.previous = None
        /\ mailbox'.snapshot_count = 0 /\ mailbox'.control_count = 0
    BY <1>1, <2>1, Zenon DEF Mailboxes
  <2> QED
    BY <2>1, <2>2, EmptyOwes
<1> QED
  BY <1>2, <1>3

LEMMA OwedStays ==
  ASSUME NothingOwedIsLost, UNCHANGED <<mailbox, owed>>
  PROVE  NothingOwedIsLost'
<1>1. CountersDescribeQueue'
  BY DescribedQueue DEF NothingOwedIsLost
<1> QED
  BY <1>1 DEF NothingOwedIsLost, OwedIsQueued, OwedFor, Owing, IsSnapshot, TailIs

-----------------------------------------------------------------------------
(* The worker's steps.                                                     *)

LEMMA NothingReleasesEmptiness == NoSnapshotIn(<< >>)
  BY NoneLeft DEF NoSnapshotIn

\* A step that leaves the runtime alone.
LEMMA RuntimeStays ==
  ASSUME RuntimeInv, MailboxTyped, MailboxTyped', WorkerTyped,
         UNCHANGED <<runtime, pressed_in, inert, applied>>,
         mailbox.generation <= mailbox'.generation,
         step' \in {"feedback", "recheck"} \/ step \notin {"feedback", "recheck"}
  PROVE  RuntimeInv'
<1>1. applied \in Int /\ mailbox.generation \in Int /\ mailbox'.generation \in Int
  BY DEF MailboxTyped, Mailboxes, WorkerTyped
<1>2. Generations'
  BY <1>1 DEF RuntimeInv, Generations
<1> QED
  BY <1>2 DEF RuntimeInv, InertIsBlocked, HoldsBySink, SeesLast

\* The runtime becomes another that holds no key too many.
LEMMA BecomesKeeps ==
  ASSUME RuntimeInv, NEW r, Good(r), NEW generation, Becomes(r, generation), mailbox' = mailbox,
         r.held => generation \in Int /\ applied <= generation /\ generation <= mailbox.generation,
         inert' => StaysBlocked(r)
  PROVE  /\ runtime' = r /\ runtime' \in Runtime
         /\ HoldsBySink(runtime') /\ SeesLast(runtime') /\ InertIsBlocked'
         /\ runtime'.held => /\ pressed_in' \in Int /\ applied <= pressed_in'
                             /\ pressed_in' <= mailbox'.generation
                             /\ (runtime.held /\ pressed_in' = pressed_in) \/ pressed_in' = generation
<1>1. runtime' = r /\ pressed_in' = IF ~r.held THEN None
                                    ELSE IF runtime.held THEN pressed_in ELSE generation
  BY DEF Becomes
<1>2. InertIsBlocked'
  BY <1>1 DEF InertIsBlocked, StaysBlocked
<1>3. r.held => /\ pressed_in' \in Int /\ applied <= pressed_in' /\ pressed_in' <= mailbox.generation
                /\ (runtime.held /\ pressed_in' = pressed_in) \/ pressed_in' = generation
  BY <1>1 DEF RuntimeInv, Generations
<1> QED
  BY <1>1, <1>2, <1>3 DEF Good

\* Nothing new in the queues: what was released stays so.
LEMMA CallStays ==
  ASSUME CallInv, UNCHANGED <<mailbox, batch, acks, supervisor, waiting, quiet>>,
         HoldsNothing => ~runtime'.held /\ runtime'.last = None
  PROVE  CallInv'
<1>1. AcksAreUsed'
  BY DEF CallInv, AcksAreUsed, Asks
<1>2. HoldsNothing => HoldsNothing'
  BY DEF HoldsNothing, NoSnapshotIn
<1>3. CallIsLast'
  BY <1>2 DEF CallInv, CallIsLast, Asks
<1> QED
  BY <1>1, <1>2, <1>3 DEF CallInv

LEMMA RuntimeIsGood ==
  ASSUME DesktopInv
  PROVE  Good(runtime) /\ (inert => StaysBlocked(runtime))
  BY DEF DesktopInv, WorkerTyped, RuntimeInv, InertIsBlocked, Good, StaysBlocked

LEMMA TakeBatchKeeps == DesktopInv /\ TakeBatch => DesktopInv'
<1> SUFFICES ASSUME DesktopInv, TakeBatch PROVE DesktopInv'
  OBVIOUS
<1>1. /\ take_batch /\ step = "waiting" /\ step' = "message"
      /\ UNCHANGED <<runtime, applied, pressed_in, inert, supervisor, waiting, quiet>>
  BY DEF TakeBatch, worker_ghosts, supervisor_vars
<1>2. /\ MailboxTyped' /\ FeedbackEpochs' /\ AcksAreUsed'
      /\ mailbox'.messages = << >> /\ batch' = mailbox.messages
      /\ mailbox'.generation = mailbox.generation /\ acks' = acks
  BY <1>1, BatchIsTaken DEF DesktopInv, CallInv
<1>3. WorkerTyped'
  BY <1>1 DEF DesktopInv, WorkerTyped, Steps
<1>4. mailbox.generation <= mailbox'.generation
  BY <1>2 DEF DesktopInv, MailboxTyped, Mailboxes
<1>5. RuntimeInv'
  BY <1>1, <1>2, <1>4, RuntimeStays DEF DesktopInv
<1>6. HoldsNothing => HoldsNothing'
  BY <1>1, <1>2, NothingReleasesEmptiness DEF HoldsNothing, NoSnapshotIn
<1>7. CallIsLast'
  BY <1>1, <1>2, <1>6, NoneLeft DEF DesktopInv, CallInv, CallIsLast, Asks
<1> QED
  BY <1>1, <1>2, <1>3, <1>5, <1>6, <1>7 DEF DesktopInv, CallInv

LEMMA ObserveSnapshotStepKeeps == DesktopInv /\ ObserveSnapshot => DesktopInv'
<1> SUFFICES ASSUME DesktopInv, ObserveSnapshot PROVE DesktopInv'
  OBVIOUS
<1>1. /\ step = "message" /\ batch # << >> /\ IsSnapshot(Head(batch))
      /\ UNCHANGED <<mailbox, outputs, batch, acks, applied, supervisor, waiting, quiet>>
  BY DEF ObserveSnapshot, mailbox_vars, supervisor_vars
<1>2. ~HoldsNothing
  <2>1. 1 \in DOMAIN batch /\ Head(batch) = batch[1]
    BY <1>1, TailIsKept DEF DesktopInv, MailboxTyped
  <2> QED
    BY <1>1, <2>1 DEF HoldsNothing, NoSnapshotIn
<1>3. CallInv'
  BY <1>1, <1>2, CallStays DEF DesktopInv
<1>4. MailboxTyped' /\ FeedbackEpochs'
  BY <1>1 DEF DesktopInv, MailboxTyped, FeedbackEpochs
<1>5. CASE /\ Head(batch).generation = mailbox.generation
           /\ inert' = (inert /\ Head(batch).mask = Down)
           /\ \E o \in observe(runtime, Head(batch).mask) :
                /\ Becomes(o.runtime, Head(batch).generation)
                /\ step' \in IF o.ok /\ runtime.profile # NoProfile
                             THEN {"feedback", "recheck"} ELSE {"recheck"}
  <2>1. PICK o \in observe(runtime, Head(batch).mask) :
          /\ Becomes(o.runtime, Head(batch).generation)
          /\ step' \in {"feedback", "recheck"}
    BY <1>5
  <2>2. Head(batch).mask \in Masks
    BY <1>1, TailIsKept, MessageKinds DEF DesktopInv, MailboxTyped, Snapshot
  <2>3. /\ o \in Outcomes /\ Good(o.runtime)
        /\ Head(batch).mask = Down /\ StaysBlocked(runtime) => StaysBlocked(o.runtime)
    BY <2>2, RuntimeIsGood, ObserveKeeps
  <2>4. inert' \in BOOLEAN /\ (inert' => inert /\ Head(batch).mask = Down)
    BY <1>5, Zenon
  <2>5. inert' => StaysBlocked(o.runtime)
    BY <2>3, <2>4, RuntimeIsGood
  <2>6. mailbox.generation \in Int /\ applied <= mailbox.generation
    BY DEF DesktopInv, MailboxTyped, Mailboxes, RuntimeInv, Generations
  <2>7. /\ Head(batch).generation \in Int /\ applied <= Head(batch).generation
        /\ Head(batch).generation <= mailbox.generation
    BY <1>5, <2>6
  <2> DEFINE g == Head(batch).generation
             r == o.runtime
  <2>8. Becomes(r, g) /\ Good(r) /\ g \in Int /\ applied <= g /\ g <= mailbox.generation /\ (inert' => StaysBlocked(r))
    BY <2>1, <2>3, <2>5, <2>7
  <2> HIDE DEF g, r
  <2>9. /\ runtime' \in Runtime
        /\ HoldsBySink(runtime') /\ SeesLast(runtime') /\ InertIsBlocked'
        /\ runtime'.held => pressed_in' \in Int /\ applied <= pressed_in' /\ pressed_in' <= mailbox'.generation
    BY <1>1, <2>8, BecomesKeeps DEF DesktopInv
  <2>10. WorkerTyped'
    BY <1>1, <2>1, <2>4, <2>9 DEF DesktopInv, WorkerTyped, Steps
  <2>11. RuntimeInv'
    BY <1>1, <2>1, <2>6, <2>9 DEF RuntimeInv, Generations
  <2> QED
    BY <1>3, <1>4, <2>10, <2>11 DEF DesktopInv
<1>6. CASE step' = "recheck" /\ UNCHANGED <<runtime, worker_ghosts>>
  <2>1. UNCHANGED <<runtime, pressed_in, inert, applied>>
    BY <1>1, <1>6 DEF worker_ghosts
  <2>2. mailbox.generation <= mailbox'.generation
    BY <1>1 DEF DesktopInv, MailboxTyped, Mailboxes
  <2>3. RuntimeInv'
    BY <1>4, <1>6, <2>1, <2>2, RuntimeStays DEF DesktopInv
  <2>4. WorkerTyped'
    BY <1>1, <1>6, <2>1 DEF DesktopInv, WorkerTyped, Steps
  <2> QED
    BY <1>3, <1>4, <2>3, <2>4 DEF DesktopInv
<1> QED
  BY <1>5, <1>6 DEF ObserveSnapshot

LEMMA FeedbackIsStaged ==
  ASSUME outputs \in Staged, FeedbackEpochs, NEW epoch, publish_feedback(epoch),
         mailbox'.feedback_epoch = mailbox.feedback_epoch
  PROVE  outputs' \in Staged /\ FeedbackEpochs'
<1> DEFINE e == outputs.epoch
<1>1. outputs' = outputs \/ outputs' = [outputs EXCEPT !.staged = e]
  BY DEF publish_feedback
<1>2. e \in 0 .. MaxEpoch \cup {None}
  BY DEF Staged
<1>3. CASE outputs' = [outputs EXCEPT !.staged = e]
  <2> HIDE DEF e
  <2>1. outputs' \in Staged
    BY <1>2, <1>3, Zenon DEF Staged
  <2>2. outputs'.epoch = outputs.epoch /\ outputs'.staged = e
    BY <1>3, Zenon DEF Staged
  <2> QED
    BY <2>1, <2>2 DEF e, FeedbackEpochs
<1> QED
  BY <1>1, <1>3 DEF FeedbackEpochs

LEMMA OutputIsTaken ==
  ASSUME outputs \in Staged, FeedbackEpochs, take_output
  PROVE  outputs' \in Staged /\ FeedbackEpochs'
<1>1. /\ outputs' = [outputs EXCEPT !.staged = None, !.discard = FALSE]
      /\ FALSE \in BOOLEAN /\ None \in 0 .. MaxEpoch \cup {None} /\ mailbox' = mailbox
  BY DEF take_output
<1>2. outputs' \in Staged
  BY <1>1, Zenon DEF Staged
<1>3. outputs'.staged = None /\ outputs'.epoch = outputs.epoch
  BY <1>1, Zenon DEF Staged
<1> QED
  BY <1>1, <1>2, <1>3 DEF FeedbackEpochs

LEMMA PublishFeedbackKeeps == DesktopInv /\ PublishFeedback => DesktopInv'
<1> SUFFICES ASSUME DesktopInv, PublishFeedback PROVE DesktopInv'
  OBVIOUS
<1>1. /\ step = "feedback" /\ step' = "recheck" /\ publish_feedback(Head(batch).epoch)
      /\ UNCHANGED <<mailbox, batch, acks, runtime, applied, pressed_in, inert, supervisor, waiting, quiet>>
  BY DEF PublishFeedback, worker_ghosts, supervisor_vars
<1>3. outputs' \in Staged /\ FeedbackEpochs'
  BY <1>1, FeedbackIsStaged DEF DesktopInv, MailboxTyped
<1>4. MailboxTyped' /\ FeedbackEpochs'
  BY <1>1, <1>3 DEF DesktopInv, MailboxTyped
<1>5. mailbox.generation <= mailbox'.generation
  BY <1>1 DEF DesktopInv, MailboxTyped, Mailboxes
<1>6. RuntimeInv'
  BY <1>1, <1>4, <1>5, RuntimeStays DEF DesktopInv
<1>7. WorkerTyped'
  BY <1>1 DEF DesktopInv, WorkerTyped, Steps
<1>8. CallInv'
  BY <1>1, CallStays DEF DesktopInv, HoldsNothing
<1> QED
  BY <1>4, <1>6, <1>7, <1>8 DEF DesktopInv

LEMMA RecheckKeeps == DesktopInv /\ Recheck => DesktopInv'
<1> SUFFICES ASSUME DesktopInv, Recheck PROVE DesktopInv'
  OBVIOUS
<1>1. /\ apply_desktop_mailbox_overflow /\ step' = "finish"
      /\ UNCHANGED <<mailbox, outputs, batch, acks, inert, supervisor, waiting, quiet>>
  BY DEF Recheck, mailbox_vars, supervisor_vars
<1>2. MailboxTyped' /\ FeedbackEpochs'
  BY <1>1 DEF DesktopInv, MailboxTyped, FeedbackEpochs
<1>3. mailbox.generation \in 0 .. MaxGeneration /\ applied \in Int /\ applied <= mailbox.generation
  BY DEF DesktopInv, MailboxTyped, Mailboxes, WorkerTyped, RuntimeInv, Generations
<1>4. CASE applied # mailbox.generation /\ applied' = mailbox.generation
           /\ \E r \in overflow(runtime) : Becomes(r, None)
  <2>1. PICK o \in disconnect(runtime) : Becomes(o.runtime, None)
    BY <1>4 DEF overflow
  <2>2. /\ Good(o.runtime) /\ Forgets(o.runtime)
        /\ runtime.previous # Up => StaysBlocked(o.runtime)
    BY RuntimeIsGood, DisconnectKeeps
  <2> DEFINE r == o.runtime
  <2>3. /\ Becomes(r, None) /\ Good(r) /\ ~r.held /\ r.last = None /\ (inert' => StaysBlocked(r))
    BY <1>1, <2>1, <2>2, RuntimeIsGood DEF Forgets, StaysBlocked
  <2> HIDE DEF r
  <2>4. /\ runtime' = r /\ runtime' \in Runtime
        /\ HoldsBySink(runtime') /\ SeesLast(runtime') /\ InertIsBlocked'
    BY <1>1, <2>3, BecomesKeeps DEF DesktopInv
  <2>5. RuntimeInv'
    BY <1>1, <1>3, <1>4, <2>3, <2>4 DEF RuntimeInv, Generations
  <2>6. WorkerTyped'
    BY <1>1, <1>3, <1>4, <2>4 DEF DesktopInv, WorkerTyped, Steps
  <2>7. CallInv'
    BY <1>1, <2>3, <2>4, CallStays DEF DesktopInv
  <2> QED
    BY <1>2, <2>5, <2>6, <2>7 DEF DesktopInv
<1>5. CASE applied = mailbox.generation /\ UNCHANGED <<runtime, pressed_in, applied>>
  <2>1. Generations'
    BY <1>1, <1>3, <1>5 DEF DesktopInv, RuntimeInv, Generations
  <2>2. RuntimeInv'
    BY <1>1, <1>5, <2>1 DEF DesktopInv, RuntimeInv, InertIsBlocked, HoldsBySink, SeesLast
  <2>3. WorkerTyped'
    BY <1>1, <1>5 DEF DesktopInv, WorkerTyped, Steps
  <2>4. CallInv'
    BY <1>1, <1>5, CallStays DEF DesktopInv, HoldsNothing
  <2> QED
    BY <1>2, <2>2, <2>3, <2>4 DEF DesktopInv
<1> QED
  BY <1>1, <1>4, <1>5 DEF apply_desktop_mailbox_overflow

\* What a control does to the runtime.
LEMMA ControlKeeps ==
  ASSUME DesktopInv, NEW m \in Control, NEW o \in HandledBy(m)
  PROVE  /\ o \in Outcomes /\ Good(o.runtime)
         /\ inert => StaysBlocked(o.runtime)
         /\ m.kind = "ReplaceProfile" /\ m.profile # runtime.profile /\ runtime.last = Down =>
              StaysBlocked(o.runtime)
         /\ Forgets(runtime) => Forgets(o.runtime)
         /\ m.kind \in Safety => Forgets(o.runtime)
<1>1. Good(runtime) /\ (inert => StaysBlocked(runtime))
  BY RuntimeIsGood
<1>2. m.kind \in {"ReplaceProfile", "Enable", "Disconnect", "Shutdown"} /\ m.profile \in Profiles \cup {NoProfile}
  BY DEF Control, ControlKinds, Safety
<1>3. CASE m.kind = "ReplaceProfile"
  <2>1. o \in replace_profile(runtime, m.profile)
    BY <1>3 DEF HandledBy
  <2>2. m.kind \notin Safety
    BY <1>3 DEF Safety
  <2> QED
    BY <1>1, <1>2, <2>1, <2>2, ReplaceKeeps
<1>4. CASE m.kind = "Enable"
  <2>1. o \in enable(runtime)
    BY <1>4 DEF HandledBy
  <2>2. m.kind \notin Safety /\ m.kind # "ReplaceProfile"
    BY <1>4 DEF Safety
  <2> QED
    BY <1>1, <2>1, <2>2, EnableKeeps
<1>5. CASE m.kind = "Disconnect"
  <2>1. o \in disconnect(runtime) /\ m.kind # "ReplaceProfile"
    BY <1>5 DEF HandledBy
  <2> QED
    BY <1>1, <2>1, DisconnectKeeps DEF StaysBlocked
<1>6. CASE m.kind = "Shutdown"
  <2>1. o \in shutdown(runtime) /\ m.kind # "ReplaceProfile"
    BY <1>6 DEF HandledBy
  <2> QED
    BY <1>1, <2>1, ShutdownKeeps DEF StaysBlocked
<1> QED
  BY <1>2, <1>3, <1>4, <1>5, <1>6

LEMMA HandleControlKeeps == DesktopInv /\ HandleControl => DesktopInv'
<1> SUFFICES ASSUME DesktopInv, HandleControl PROVE DesktopInv'
  OBVIOUS
<1> DEFINE m == Head(batch)
<1>1. /\ step = "message" /\ batch # << >> /\ IsControl(m)
      /\ step' \in {"stopping", "finish"}
      /\ UNCHANGED <<mailbox, outputs, batch, applied, supervisor, waiting, quiet>>
  BY DEF HandleControl, supervisor_vars
<1>2. inert' = (inert \/ (m.kind = "ReplaceProfile" /\ m.profile # runtime.profile /\ runtime.last = Down))
  BY Zenon DEF HandleControl
<1>3. PICK o \in HandledBy(m) : Becomes(o.runtime, applied) /\ acks' = Answered(m, o.ok)
  BY DEF HandleControl
<1>4. m \in Control /\ 1 \in DOMAIN batch /\ m = batch[1]
  BY <1>1, TailIsKept, MessageKinds DEF DesktopInv, MailboxTyped
<1> HIDE DEF m
<1>5. /\ o \in Outcomes /\ Good(o.runtime)
      /\ inert => StaysBlocked(o.runtime)
      /\ m.kind = "ReplaceProfile" /\ m.profile # runtime.profile /\ runtime.last = Down => StaysBlocked(o.runtime)
      /\ Forgets(runtime) => Forgets(o.runtime)
      /\ m.kind \in Safety => Forgets(o.runtime)
  BY <1>3, <1>4, ControlKeeps
<1>6. inert' \in BOOLEAN /\ (inert' => StaysBlocked(o.runtime))
  BY <1>2, <1>5, Zenon
<1>7. applied \in Int /\ mailbox.generation \in Int /\ applied <= mailbox.generation
      /\ (runtime.held => pressed_in = applied)
  BY <1>1 DEF DesktopInv, WorkerTyped, MailboxTyped, Mailboxes, RuntimeInv, Generations
<1> DEFINE r == o.runtime
<1>8. /\ runtime' = r /\ runtime' \in Runtime
      /\ HoldsBySink(runtime') /\ SeesLast(runtime') /\ InertIsBlocked'
      /\ runtime'.held => /\ pressed_in' \in Int /\ applied <= pressed_in'
                          /\ pressed_in' <= mailbox'.generation
                          /\ (runtime.held /\ pressed_in' = pressed_in) \/ pressed_in' = applied
  <2>1. Becomes(r, applied) /\ Good(r) /\ mailbox' = mailbox /\ (inert' => StaysBlocked(r)) /\ RuntimeInv
    BY <1>1, <1>3, <1>5, <1>6 DEF DesktopInv
  <2> HIDE DEF r
  <2> QED
    BY <1>7, <2>1, BecomesKeeps
<1>9. RuntimeInv'
  BY <1>1, <1>7, <1>8 DEF RuntimeInv, Generations
<1>10. WorkerTyped'
  BY <1>1, <1>6, <1>8 DEF DesktopInv, WorkerTyped, Steps
<1>11. /\ acks' \in [Acks -> AnswerStates]
       /\ \A ack \in Acks : acks'[ack] = acks[ack] \/ (m.ack = ack /\ acks'[ack] \in {"ok", "err"})
  BY <1>3, <1>4 DEF Answered, Control, AnswerStates, DesktopInv, MailboxTyped
<1>12. MailboxTyped' /\ FeedbackEpochs'
  BY <1>1, <1>11 DEF DesktopInv, MailboxTyped, FeedbackEpochs
<1>13. AcksAreUsed'
  <2>1. \A ack \in Acks : acks[ack] # "unused" => acks'[ack] # "unused"
    BY <1>11
  <2> QED
    BY <1>1, <2>1 DEF DesktopInv, CallInv, AcksAreUsed, Asks
<1>14. HoldsNothing => HoldsNothing'
  BY <1>1, <1>5, <1>8 DEF HoldsNothing, Forgets, NoSnapshotIn
<1>15. CallIsLast'
  <2> SUFFICES ASSUME supervisor \in Safety, waiting \in Acks, acks'[waiting] = "ok", acks[waiting] # "ok"
               PROVE  HoldsNothing'
    BY <1>1, <1>14 DEF DesktopInv, CallInv, CallIsLast, Asks
  <2>1. m.ack = waiting
    BY <1>11
  <2>2. Asks(batch[1], waiting)
    BY <1>1, <1>4, <2>1 DEF Asks
  <2>3. 1 = Len(batch) /\ m.kind \in Safety /\ mailbox.messages = << >>
    BY <1>4, <2>2 DEF DesktopInv, CallInv, CallIsLast
  <2>4. \A i \in DOMAIN batch : i = 1
    BY <2>3, LenProperties DEF DesktopInv, MailboxTyped
  <2>5. ~IsSnapshot(m)
    BY <1>4 DEF IsSnapshot, Control, ControlKinds, Safety
  <2>6. NoSnapshotIn(batch) /\ NoSnapshotIn(mailbox.messages)
    BY <1>4, <2>3, <2>4, <2>5, NothingReleasesEmptiness DEF NoSnapshotIn
  <2> QED
    BY <1>1, <1>5, <1>8, <2>3, <2>6 DEF HoldsNothing, Forgets, NoSnapshotIn
<1> QED
  BY <1>1, <1>9, <1>10, <1>12, <1>13, <1>14, <1>15 DEF DesktopInv, CallInv

LEMMA DiscardIsTyped ==
  ASSUME outputs \in Staged, FeedbackEpochs, discard_feedback, mailbox'.feedback_epoch = mailbox.feedback_epoch
  PROVE  outputs' \in Staged /\ FeedbackEpochs'
<1>1. outputs' = [outputs EXCEPT !.staged = None, !.discard = TRUE] /\ TRUE \in BOOLEAN
      /\ None \in 0 .. MaxEpoch \cup {None}
  BY DEF discard_feedback
<1>2. outputs' \in Staged
  BY <1>1, Zenon DEF Staged
<1>3. outputs'.staged = None /\ outputs'.epoch = outputs.epoch
  BY <1>1, Zenon DEF Staged
<1> QED
  BY <1>2, <1>3 DEF FeedbackEpochs

LEMMA FinishKeeps == DesktopInv /\ Finish => DesktopInv'
<1> SUFFICES ASSUME DesktopInv, Finish PROVE DesktopInv'
  OBVIOUS
<1>1. /\ step = "finish" /\ runtime' = [runtime EXCEPT !.discard = FALSE]
      /\ batch' = IF batch = << >> THEN << >> ELSE Tail(batch)
      /\ step' \in {"message", "waiting"}
      /\ discard_feedback \/ UNCHANGED outputs
      /\ UNCHANGED <<mailbox, acks, applied, pressed_in, inert, supervisor, waiting, quiet>>
  BY DEF Finish, worker_ghosts, supervisor_vars
<1>2. /\ runtime' \in Runtime /\ runtime'.held = runtime.held /\ runtime'.sink = runtime.sink
      /\ runtime'.profile = runtime.profile /\ runtime'.previous = runtime.previous
      /\ runtime'.last = runtime.last
  <2>1. runtime \in Runtime /\ FALSE \in BOOLEAN
    BY DEF DesktopInv, WorkerTyped
  <2>2. runtime' \in Runtime
    BY <1>1, <2>1, Zenon DEF Runtime
  <2>3. runtime'.held = runtime.held /\ runtime'.sink = runtime.sink
    BY <1>1, <2>1, Zenon DEF Runtime
  <2>4. runtime'.profile = runtime.profile /\ runtime'.previous = runtime.previous
        /\ runtime'.last = runtime.last
    BY <1>1, <2>1 DEF Runtime
  <2> QED
    BY <2>2, <2>3, <2>4
<1>3. outputs' \in Staged /\ FeedbackEpochs'
  BY <1>1, DiscardIsTyped DEF DesktopInv, MailboxTyped, FeedbackEpochs
<1>4. /\ batch' \in Seq(Messages)
      /\ \A i \in DOMAIN batch' : /\ i + 1 \in DOMAIN batch /\ batch'[i] = batch[i + 1]
                                  /\ i + 1 = Len(batch) => i = Len(batch')
  BY <1>1, TailIsKept, NoneLeft DEF DesktopInv, MailboxTyped
<1>5. MailboxTyped'
  BY <1>1, <1>3, <1>4 DEF DesktopInv, MailboxTyped
<1>6. WorkerTyped'
  BY <1>1, <1>2 DEF DesktopInv, WorkerTyped, Steps
<1>7. RuntimeInv'
  BY <1>1, <1>2 DEF DesktopInv, RuntimeInv, Generations, HoldsBySink, SeesLast, InertIsBlocked
<1>8. HoldsNothing => HoldsNothing'
  BY <1>1, <1>2, <1>4 DEF HoldsNothing, NoSnapshotIn
<1>9. AcksAreUsed'
  <2>1. ASSUME NEW i \in DOMAIN batch', NEW ack \in Acks, Asks(batch'[i], ack)
        PROVE  acks[ack] # "unused"
    <3>1. i + 1 \in DOMAIN batch /\ batch'[i] = batch[i + 1]
      BY <1>4
    <3>2. Asks(batch[i + 1], ack)
      BY <2>1, <3>1
    <3> QED
      BY <3>1, <3>2 DEF DesktopInv, CallInv, AcksAreUsed
  <2>2. \A i \in DOMAIN mailbox.messages : \A ack \in Acks :
          Asks(mailbox.messages[i], ack) => acks[ack] # "unused"
    BY DEF DesktopInv, CallInv, AcksAreUsed
  <2>3. mailbox' = mailbox /\ acks' = acks
    BY <1>1
  <2> QED
    BY <2>1, <2>2, <2>3, Zenon DEF AcksAreUsed, Asks, IsControl
<1>10. CallIsLast'
  <2>1. ASSUME supervisor \in Safety
        PROVE  \A i \in DOMAIN batch' : Asks(batch'[i], waiting) =>
                 i = Len(batch') /\ batch'[i].kind \in Safety /\ mailbox.messages = << >>
    BY <1>4, <2>1 DEF DesktopInv, CallInv, CallIsLast
  <2> QED
    BY <1>1, <1>8, <2>1 DEF DesktopInv, CallInv, CallIsLast, Asks
<1> QED
  BY <1>1, <1>3, <1>5, <1>6, <1>7, <1>8, <1>9, <1>10 DEF DesktopInv, CallInv

\* A step that lets go of the key, with the queues as they were.
LEMMA LetsGo ==
  ASSUME DesktopInv, NEW r \in Runtime, ~r.held, SeesLast(r), r.last = runtime.last,
         r.previous = runtime.previous, Becomes(r, None), step' \in Steps,
         UNCHANGED <<mailbox, outputs, batch, acks, applied, inert, supervisor, waiting, quiet>>
  PROVE  DesktopInv'
<1>1. Good(r) /\ (inert' => StaysBlocked(r))
  BY RuntimeIsGood DEF Good, HoldsBySink, StaysBlocked
<1>2. /\ runtime' = r /\ runtime' \in Runtime
      /\ HoldsBySink(runtime') /\ SeesLast(runtime') /\ InertIsBlocked'
  BY <1>1, BecomesKeeps DEF DesktopInv
<1>3. RuntimeInv'
  BY <1>2 DEF DesktopInv, RuntimeInv, Generations
<1>4. MailboxTyped' /\ FeedbackEpochs'
  BY DEF DesktopInv, MailboxTyped, FeedbackEpochs
<1>5. WorkerTyped'
  BY <1>2 DEF DesktopInv, WorkerTyped
<1>6. CallInv'
  BY <1>2, CallStays DEF DesktopInv, HoldsNothing
<1> QED
  BY <1>3, <1>4, <1>5, <1>6 DEF DesktopInv

LEMMA TickKeeps == DesktopInv /\ Tick => DesktopInv'
<1> SUFFICES ASSUME DesktopInv, Tick PROVE DesktopInv'
  OBVIOUS
<1> DEFINE down == runtime.previous = Down
           d == [runtime EXCEPT !.blocked = down]
           r == Failed(d).runtime
<1>1. /\ runtime.sink /\ runtime.profile # NoProfile /\ runtime.previous # None
      /\ Becomes(r, None) /\ step' = "finish"
      /\ UNCHANGED <<mailbox, outputs, batch, acks, applied, inert, supervisor, waiting, quiet>>
  BY DEF Tick, mailbox_vars, supervisor_vars
<1>2. runtime \in Runtime /\ down \in BOOLEAN
  BY DEF DesktopInv, WorkerTyped
<1> HIDE DEF down
<1>3. d \in Runtime /\ d.profile = runtime.profile /\ d.previous = runtime.previous /\ d.last = runtime.last
  <2>1. d \in Runtime
    BY <1>2, Zenon DEF Runtime
  <2> QED
    BY <1>2, <2>1, Zenon DEF Runtime
<1> HIDE DEF d
<1>4. /\ r \in Runtime /\ ~r.held /\ ~r.sink /\ r.profile = runtime.profile
      /\ r.previous = runtime.previous /\ r.last = runtime.last
  BY <1>3, FailedOutcome
<1> HIDE DEF r
<1>5. SeesLast(r)
  BY <1>1, <1>4 DEF SeesLast, DesktopInv, RuntimeInv
<1> QED
  BY <1>1, <1>4, <1>5, LetsGo DEF Steps

LEMMA PanicKeeps == DesktopInv /\ Panic => DesktopInv'
<1> SUFFICES ASSUME DesktopInv, Panic PROVE DesktopInv'
  OBVIOUS
<1> DEFINE r == [runtime EXCEPT !.held = FALSE, !.sink = FALSE]
<1>1. /\ runtime.sink /\ Becomes(r, None) /\ step' = "stopping"
      /\ UNCHANGED <<mailbox, outputs, batch, acks, applied, inert, supervisor, waiting, quiet>>
  BY DEF Panic, mailbox_vars, supervisor_vars
<1>2. runtime \in Runtime /\ FALSE \in BOOLEAN
  BY DEF DesktopInv, WorkerTyped
<1>3. r \in Runtime
  BY <1>2, Zenon DEF Runtime
<1>4. ~r.held /\ ~r.sink
  BY <1>2, Zenon DEF Runtime
<1>5. r.profile = runtime.profile /\ r.previous = runtime.previous /\ r.last = runtime.last
  BY <1>2 DEF Runtime
<1> HIDE DEF r
<1>6. SeesLast(r)
  BY <1>1, <1>4, <1>5 DEF SeesLast, DesktopInv, RuntimeInv
<1> QED
  BY <1>1, <1>3, <1>4, <1>5, <1>6, LetsGo DEF Steps

LEMMA CloseKeeps == DesktopInv /\ Close => DesktopInv'
<1> SUFFICES ASSUME DesktopInv, Close PROVE DesktopInv'
  OBVIOUS
<1>1. /\ step = "stopping" /\ close /\ step' = "stopped"
      /\ UNCHANGED <<runtime, applied, pressed_in, inert, supervisor, waiting, quiet>>
  BY DEF Close, worker_ghosts, supervisor_vars
<1>2. /\ MailboxTyped' /\ FeedbackEpochs' /\ AcksAreUsed'
      /\ mailbox'.messages = << >> /\ batch' = << >>
      /\ mailbox'.generation = mailbox.generation
      /\ \A ack \in Acks : acks'[ack] \in {"err", acks[ack]}
  BY <1>1, MailboxCloses DEF DesktopInv
<1>3. WorkerTyped'
  BY <1>1 DEF DesktopInv, WorkerTyped, Steps
<1>4. mailbox.generation <= mailbox'.generation
  BY <1>2 DEF DesktopInv, MailboxTyped, Mailboxes
<1>5. RuntimeInv'
  BY <1>1, <1>2, <1>4, RuntimeStays DEF DesktopInv
<1>6. HoldsNothing => HoldsNothing'
  BY <1>1, <1>2, NothingReleasesEmptiness DEF HoldsNothing, NoSnapshotIn
<1>7. CallIsLast'
  <2>1. ASSUME waiting \in Acks, acks'[waiting] = "ok" PROVE acks[waiting] = "ok"
    BY <1>2, <2>1
  <2> QED
    BY <1>1, <1>2, <1>6, <2>1, NoneLeft DEF DesktopInv, CallInv, CallIsLast, Asks
<1> QED
  BY <1>1, <1>2, <1>3, <1>5, <1>6, <1>7 DEF DesktopInv, CallInv

-----------------------------------------------------------------------------
(* The supervisor's steps.                                                 *)

\* The worker's state, its generations included, across a step that it has no
\* part in.
LEMMA WorkerStays ==
  ASSUME DesktopInv, UNCHANGED worker_vars, MailboxTyped',
         mailbox.generation <= mailbox'.generation,
         supervisor' \in SupervisorStates, waiting' \in Acks \cup {NoAck}, quiet' \in BOOLEAN
  PROVE  WorkerTyped' /\ RuntimeInv'
<1>1. UNCHANGED <<runtime, applied, step, pressed_in, inert>>
  BY DEF worker_vars, worker_ghosts
<1>2. WorkerTyped'
  BY <1>1 DEF DesktopInv, WorkerTyped
<1>3. applied \in Int /\ mailbox.generation \in Int /\ mailbox'.generation \in Int
  BY DEF DesktopInv, MailboxTyped, Mailboxes, WorkerTyped
<1>4. Generations'
  BY <1>1, <1>3 DEF DesktopInv, RuntimeInv, Generations
<1>5. RuntimeInv'
  BY <1>1, <1>4 DEF DesktopInv, RuntimeInv, InertIsBlocked, HoldsBySink, SeesLast
<1> QED
  BY <1>2, <1>5

LEMMA SupervisorIsTyped ==
  ASSUME DesktopInv
  PROVE  /\ supervisor \in SupervisorStates /\ waiting \in Acks \cup {NoAck} /\ quiet \in BOOLEAN
         /\ "free" \in SupervisorStates /\ "gone" \in SupervisorStates
         /\ "free" \notin Safety /\ "gone" \notin Safety /\ Safety \subseteq SupervisorStates
         /\ mailbox.generation \in Int
  BY DEF DesktopInv, WorkerTyped, SupervisorStates, Safety, MailboxTyped, Mailboxes

LEMMA ObserveStepKeeps ==
  ASSUME NEW mask \in Masks, NEW sample \in Samples
  PROVE  DesktopInv /\ Observe(mask, sample) => DesktopInv'
<1> SUFFICES ASSUME DesktopInv, Observe(mask, sample) PROVE DesktopInv'
  OBVIOUS
<1>1. /\ supervisor = "free" /\ publish_snapshot(mask, sample) /\ quiet' = FALSE
      /\ UNCHANGED <<worker_vars, supervisor, waiting>>
  BY DEF Observe
<1>2. /\ MailboxTyped' /\ FeedbackEpochs' /\ AsksNothingNew
      /\ mailbox.generation <= mailbox'.generation /\ UNCHANGED <<batch, acks>>
  BY <1>1, PublishKeeps DEF DesktopInv
<1>3. WorkerTyped' /\ RuntimeInv'
  BY <1>1, <1>2, WorkerStays, SupervisorIsTyped
<1>4. AcksAreUsed'
  BY <1>2, NothingNewIsAsked DEF DesktopInv, CallInv
<1>5. CallInv'
  BY <1>1, <1>4, SupervisorIsTyped DEF CallInv, CallIsLast
<1> QED
  BY <1>2, <1>3, <1>5 DEF DesktopInv

LEMMA ReportOverflowKeeps == DesktopInv /\ ReportOverflow => DesktopInv'
<1> SUFFICES ASSUME DesktopInv, ReportOverflow PROVE DesktopInv'
  OBVIOUS
<1>1. /\ supervisor = "free" /\ publish_overflow
      /\ UNCHANGED <<worker_vars, supervisor, waiting, quiet>>
  BY DEF ReportOverflow, supervisor_vars
<1>2. /\ MailboxTyped' /\ FeedbackEpochs' /\ AsksNothingNew /\ NoSnapshotIn(mailbox'.messages)
      /\ mailbox.generation <= mailbox'.generation /\ UNCHANGED <<batch, acks>>
  BY <1>1, OverflowIsPublished DEF DesktopInv
<1>3. WorkerTyped' /\ RuntimeInv'
  BY <1>1, <1>2, WorkerStays, SupervisorIsTyped
<1>4. AcksAreUsed'
  BY <1>2, NothingNewIsAsked DEF DesktopInv, CallInv
<1>5. HoldsNothing => HoldsNothing'
  BY <1>1, <1>2 DEF HoldsNothing, NoSnapshotIn, worker_vars
<1>6. CallInv'
  BY <1>1, <1>4, <1>5, SupervisorIsTyped DEF DesktopInv, CallInv, CallIsLast
<1> QED
  BY <1>2, <1>3, <1>6 DEF DesktopInv

\* A step that changes the staged feedback and the answers at most.
LEMMA QueuesStay ==
  ASSUME DesktopInv, UNCHANGED <<mailbox, batch, worker_vars>>,
         outputs' \in Staged, FeedbackEpochs', acks' \in [Acks -> AnswerStates],
         \A ack \in Acks : acks[ack] # "unused" => acks'[ack] # "unused",
         supervisor' \in SupervisorStates, waiting' \in Acks \cup {NoAck}, quiet' \in BOOLEAN,
         supervisor' \notin Safety \/ UNCHANGED <<acks, supervisor, waiting>>,
         quiet' => HoldsNothing
  PROVE  DesktopInv'
<1>1. MailboxTyped'
  BY DEF DesktopInv, MailboxTyped
<1>2. mailbox.generation <= mailbox'.generation
  BY SupervisorIsTyped
<1>3. WorkerTyped' /\ RuntimeInv'
  BY <1>1, <1>2, WorkerStays
<1>4. AcksAreUsed'
  BY DEF DesktopInv, CallInv, AcksAreUsed, Asks
<1>5. HoldsNothing => HoldsNothing'
  BY DEF HoldsNothing, NoSnapshotIn, worker_vars
<1>6. CallIsLast'
  <2>1. CASE supervisor' \notin Safety
    BY <2>1 DEF CallIsLast
  <2>2. CASE UNCHANGED <<acks, supervisor, waiting>>
    BY <1>5, <2>2 DEF DesktopInv, CallInv, CallIsLast, Asks
  <2> QED
    BY <2>1, <2>2
<1> QED
  BY <1>1, <1>3, <1>4, <1>5, <1>6 DEF DesktopInv, CallInv

LEMMA ObserveClosedKeeps == DesktopInv /\ ObserveClosed => DesktopInv'
<1> SUFFICES ASSUME DesktopInv, ObserveClosed PROVE DesktopInv'
  OBVIOUS
<1>1. /\ discard_feedback
      /\ UNCHANGED <<mailbox, batch, acks, worker_vars, supervisor, waiting, quiet>>
  BY DEF ObserveClosed, supervisor_vars
<1>2. outputs' \in Staged /\ FeedbackEpochs'
  BY <1>1, DiscardIsTyped DEF DesktopInv, MailboxTyped
<1>3. acks' \in [Acks -> AnswerStates] /\ (quiet' => HoldsNothing)
  BY <1>1 DEF DesktopInv, MailboxTyped, CallInv
<1> QED
  BY <1>1, <1>2, <1>3, QueuesStay, SupervisorIsTyped

LEMMA TakeOutputKeeps == DesktopInv /\ TakeOutput => DesktopInv'
<1> SUFFICES ASSUME DesktopInv, TakeOutput PROVE DesktopInv'
  OBVIOUS
<1>1. take_output /\ UNCHANGED <<mailbox, batch, acks, worker_vars, supervisor, waiting, quiet>>
  BY DEF TakeOutput, take_output, supervisor_vars
<1>2. outputs' \in Staged /\ FeedbackEpochs'
  BY <1>1, OutputIsTaken DEF DesktopInv, MailboxTyped
<1>3. acks' \in [Acks -> AnswerStates] /\ (quiet' => HoldsNothing)
  BY <1>1 DEF DesktopInv, MailboxTyped, CallInv
<1> QED
  BY <1>1, <1>2, <1>3, QueuesStay, SupervisorIsTyped

LEMMA RefusedKeeps ==
  ASSUME DesktopInv, NEW m \in Control, CommandRefused(m), supervisor' \in {"free", "gone"}
  PROVE  DesktopInv'
<1>1. /\ discard_feedback /\ UNCHANGED <<mailbox, batch, worker_vars, waiting, quiet>>
      /\ acks' = acks \/ acks' = [acks EXCEPT ![m.ack] = "err"]
  BY DEF CommandRefused
<1>2. outputs' \in Staged /\ FeedbackEpochs'
  BY <1>1, DiscardIsTyped DEF DesktopInv, MailboxTyped
<1>3. /\ acks' \in [Acks -> AnswerStates]
      /\ \A ack \in Acks : acks[ack] # "unused" => acks'[ack] # "unused"
  BY <1>1 DEF DesktopInv, MailboxTyped, AnswerStates
<1>4. quiet' => HoldsNothing
  BY <1>1 DEF DesktopInv, CallInv
<1>5. supervisor' \in SupervisorStates /\ supervisor' \notin Safety
  BY SupervisorIsTyped
<1> QED
  BY <1>1, <1>2, <1>3, <1>4, <1>5, QueuesStay, SupervisorIsTyped

LEMMA RefuseCommandKeeps ==
  ASSUME NEW m \in Commands
  PROVE  DesktopInv /\ RefuseCommand(m) => DesktopInv'
  BY CommandsAreControls, RefusedKeeps DEF RefuseCommand, CommandRefused

LEMMA CallRefusedKeeps ==
  ASSUME NEW kind \in Safety, NEW ack \in Acks
  PROVE  DesktopInv /\ CallRefused(kind, ack) => DesktopInv'
<1> SUFFICES ASSUME DesktopInv, CallRefused(kind, ack) PROVE DesktopInv'
  OBVIOUS
<1>1. CommandRefused(Plain(kind, ack)) /\ supervisor' \in {"free", "gone"}
  BY DEF CallRefused
<1>2. Plain(kind, ack) \in Control
  BY CommandsAreControls
<1> QED
  BY <1>1, <1>2, RefusedKeeps

LEMMA ShutdownStoppedKeeps == DesktopInv /\ ShutdownStopped => DesktopInv'
<1> SUFFICES ASSUME DesktopInv, ShutdownStopped PROVE DesktopInv'
  OBVIOUS
<1>1. /\ supervisor' = "gone"
      /\ UNCHANGED <<mailbox, outputs, batch, acks, worker_vars, waiting, quiet>>
  BY DEF ShutdownStopped, mailbox_vars
<1>2. outputs' \in Staged /\ FeedbackEpochs' /\ acks' \in [Acks -> AnswerStates] /\ (quiet' => HoldsNothing)
  BY <1>1 DEF DesktopInv, MailboxTyped, FeedbackEpochs, CallInv
<1> QED
  BY <1>1, <1>2, QueuesStay, SupervisorIsTyped

LEMMA ReturnsKeeps == DesktopInv /\ Returns => DesktopInv'
<1> SUFFICES ASSUME DesktopInv, Returns PROVE DesktopInv'
  OBVIOUS
<1>1. /\ supervisor \in Safety /\ supervisor' \in {"free", "gone"} /\ waiting' = NoAck
      /\ UNCHANGED <<mailbox, outputs, batch, acks, worker_vars>>
  BY DEF Returns, mailbox_vars
<1>2. quiet' = (acks[waiting] = "ok")
  BY DEF Returns
<1>3. quiet' \in BOOLEAN /\ (quiet' => acks[waiting] = "ok")
  BY <1>2, Zenon
<1>4. quiet' => HoldsNothing
  BY <1>1, <1>3 DEF DesktopInv, CallInv, CallIsLast
<1>5. outputs' \in Staged /\ FeedbackEpochs' /\ acks' \in [Acks -> AnswerStates]
  BY <1>1 DEF DesktopInv, MailboxTyped, FeedbackEpochs
<1>6. supervisor' \in SupervisorStates /\ supervisor' \notin Safety
  BY <1>1, SupervisorIsTyped
<1> QED
  BY <1>1, <1>3, <1>4, <1>5, <1>6, QueuesStay

LEMMA CommandKeeps ==
  ASSUME NEW m \in Commands
  PROVE  DesktopInv /\ Command(m) => DesktopInv'
<1> SUFFICES ASSUME DesktopInv, Command(m) PROVE DesktopInv'
  OBVIOUS
<1>1. /\ supervisor = "free" /\ push_control(m)
      /\ UNCHANGED <<worker_vars, supervisor, waiting, quiet>>
  BY DEF Command, supervisor_vars
<1>2. m \in Control
  BY CommandsAreControls
<1>3. /\ MailboxTyped' /\ FeedbackEpochs' /\ AcksAreUsed'
      /\ mailbox'.generation = mailbox.generation /\ batch' = batch
      /\ \A i \in DOMAIN mailbox'.messages :
           \/ mailbox'.messages[i] = m
           \/ \E j \in DOMAIN mailbox.messages : mailbox'.messages[i] = mailbox.messages[j]
  BY <1>1, <1>2, ControlIsPushed DEF DesktopInv, CallInv
<1>4. mailbox.generation <= mailbox'.generation
  BY <1>3, SupervisorIsTyped
<1>5. WorkerTyped' /\ RuntimeInv'
  BY <1>1, <1>3, <1>4, WorkerStays, SupervisorIsTyped
<1>6. ~IsSnapshot(m)
  BY <1>2 DEF IsSnapshot, Control, ControlKinds, Safety
<1>7. HoldsNothing => HoldsNothing'
  BY <1>1, <1>3, <1>6 DEF HoldsNothing, NoSnapshotIn, IsSnapshot, worker_vars
<1>8. CallInv'
  BY <1>1, <1>3, <1>7, SupervisorIsTyped DEF DesktopInv, CallInv, CallIsLast
<1> QED
  BY <1>3, <1>5, <1>8 DEF DesktopInv

\* The call takes a channel that no message before it asks.
LEMMA CallKeeps ==
  ASSUME NEW kind \in Safety, NEW ack \in Acks
  PROVE  DesktopInv /\ Call(kind, ack) => DesktopInv'
<1> SUFFICES ASSUME DesktopInv, Call(kind, ack) PROVE DesktopInv'
  OBVIOUS
<1> DEFINE m == Plain(kind, ack)
<1>1. /\ supervisor = "free" /\ IsUnused(m) /\ push_control(m)
      /\ waiting' = ack /\ supervisor' = kind /\ UNCHANGED <<worker_vars, quiet>>
  BY DEF Call
<1>2. m \in Control /\ m.ack = ack /\ m.kind = kind
  BY CommandsAreControls DEF Plain
<1>3. acks[ack] = "unused"
  BY <1>1, <1>2, MailboxAssumption DEF IsUnused
<1> HIDE DEF m
<1>4. /\ MailboxTyped' /\ FeedbackEpochs' /\ AcksAreUsed'
      /\ mailbox'.generation = mailbox.generation /\ batch' = batch
      /\ \A i \in DOMAIN mailbox'.messages :
           \/ i = Len(mailbox'.messages) /\ mailbox'.messages[i] = m
           \/ \E j \in DOMAIN mailbox.messages : mailbox'.messages[i] = mailbox.messages[j]
      /\ acks'[ack] = "pending"
  BY <1>1, <1>2, ControlIsPushed DEF DesktopInv, CallInv
<1>5. mailbox.generation <= mailbox'.generation
  BY <1>4, SupervisorIsTyped
<1>6. WorkerTyped' /\ RuntimeInv'
  BY <1>1, <1>4, <1>5, WorkerStays, SupervisorIsTyped
<1>7. ~IsSnapshot(m)
  BY <1>2 DEF IsSnapshot, Control, ControlKinds, Safety
<1>8. HoldsNothing => HoldsNothing'
  BY <1>1, <1>4, <1>7 DEF HoldsNothing, NoSnapshotIn, IsSnapshot, worker_vars
<1>9. /\ \A j \in DOMAIN mailbox.messages : ~Asks(mailbox.messages[j], ack)
      /\ \A j \in DOMAIN batch : ~Asks(batch[j], ack)
  BY <1>3 DEF DesktopInv, CallInv, AcksAreUsed
<1>10. \A i \in DOMAIN mailbox'.messages : Asks(mailbox'.messages[i], ack) =>
         i = Len(mailbox'.messages) /\ mailbox'.messages[i].kind \in Safety
  BY <1>2, <1>4, <1>9
<1>11. CallIsLast'
  BY <1>1, <1>4, <1>9, <1>10 DEF CallIsLast, Asks
<1> QED
  BY <1>1, <1>4, <1>6, <1>8, <1>11 DEF DesktopInv, CallInv

-----------------------------------------------------------------------------
(* The invariant, and what it says.                                        *)

LEMMA DesktopStarts == Init => DesktopInv
<1> SUFFICES ASSUME Init PROVE DesktopInv
  OBVIOUS
<1> DEFINE m == [messages |-> << >>, snapshot_count |-> 0, control_count |-> 0,
                 previous |-> None, latest |-> None, generation |-> 0,
                 feedback_epoch |-> 0, accepting |-> TRUE]
           o == [staged |-> None, discard |-> FALSE, epoch |-> 0]
           r(profile) == [profile |-> profile, previous |-> None, blocked |-> FALSE,
                          held |-> FALSE, sink |-> FALSE, activated |-> FALSE,
                          last |-> None, discard |-> FALSE]
<1>1. PICK profile \in Profiles \cup {NoProfile} : runtime = r(profile)
  BY Zenon DEF Init
<1>2. /\ mailbox = m /\ outputs = o /\ batch = << >> /\ acks = [ack \in Acks |-> "unused"]
      /\ applied = 0 /\ step = "waiting" /\ supervisor = "free" /\ waiting = NoAck
      /\ pressed_in = None
  BY Zenon DEF Init, InitMailbox
<1>3. ~quiet /\ ~inert /\ quiet \in BOOLEAN /\ inert \in BOOLEAN
  BY Zenon DEF Init
<1>4. /\ << >> \in Seq(Messages) /\ 0 \in Nat /\ None \in Masks \cup {None} /\ TRUE \in BOOLEAN
      /\ FALSE \in BOOLEAN /\ 0 \in 0 .. MaxGeneration /\ 0 \in 0 .. MaxEpoch
      /\ None \in 0 .. MaxEpoch \cup {None}
  BY NoneLeft, MailboxAssumption
<1>5. m \in Mailboxes /\ o \in Staged /\ r(profile) \in Runtime
  <2>1. m \in Mailboxes
    BY <1>4, Zenon DEF Mailboxes
  <2>2. o \in Staged
    BY <1>4, Zenon DEF Staged
  <2>3. r(profile) \in Runtime
    BY <1>1, <1>4, Zenon DEF Runtime
  <2> QED
    BY <2>1, <2>2, <2>3
<1>6. /\ m.latest = None /\ m.messages = << >> /\ m.generation = 0 /\ m.feedback_epoch = 0
      /\ o.epoch = 0 /\ o.staged = None
  BY Zenon
<1>7. ~r(profile).held /\ r(profile).last = None /\ r(profile).previous = None
  BY Zenon
<1> HIDE DEF m, o, r
<1>8. MailboxTyped /\ FeedbackEpochs
  BY <1>2, <1>4, <1>5, <1>6 DEF MailboxTyped, FeedbackEpochs, AnswerStates
<1>9. WorkerTyped
  BY <1>1, <1>2, <1>3, <1>4, <1>5 DEF WorkerTyped, Steps, SupervisorStates
<1>10. RuntimeInv
  BY <1>1, <1>2, <1>3, <1>6, <1>7 DEF RuntimeInv, HoldsBySink, SeesLast, InertIsBlocked, Generations
<1>11. AcksAreUsed /\ CallIsLast
  BY <1>2, <1>6, NoneLeft DEF AcksAreUsed, CallIsLast, Safety
<1> QED
  BY <1>3, <1>8, <1>9, <1>10, <1>11 DEF DesktopInv, CallInv

LEMMA DesktopStutters == DesktopInv /\ UNCHANGED vars => DesktopInv'
<1> SUFFICES ASSUME DesktopInv, UNCHANGED vars PROVE DesktopInv'
  OBVIOUS
<1>1. UNCHANGED <<mailbox, outputs, batch, acks, worker_vars, supervisor, waiting, quiet>>
  BY DEF vars, mailbox_vars, supervisor_vars
<1>2. outputs' \in Staged /\ FeedbackEpochs' /\ acks' \in [Acks -> AnswerStates] /\ (quiet' => HoldsNothing)
  BY <1>1 DEF DesktopInv, MailboxTyped, FeedbackEpochs, CallInv
<1> QED
  BY <1>1, <1>2, QueuesStay, SupervisorIsTyped

THEOREM DesktopInvHolds == Spec => []DesktopInv
<1>1. DesktopInv /\ [Next]_vars => DesktopInv'
  <2>1. DesktopInv /\ WorkerNext => DesktopInv'
    BY TakeBatchKeeps, ObserveSnapshotStepKeeps, PublishFeedbackKeeps, RecheckKeeps,
       HandleControlKeeps, FinishKeeps, CloseKeeps DEF WorkerNext
  <2> QED
    BY <2>1, TickKeeps, PanicKeeps, ObserveStepKeeps, ReportOverflowKeeps, ObserveClosedKeeps,
       CommandKeeps, RefuseCommandKeeps, CallKeeps, CallRefusedKeeps, ShutdownStoppedKeeps,
       ReturnsKeeps, TakeOutputKeeps, DesktopStutters DEF Next
<1> QED
  BY <1>1, DesktopStarts, PTL DEF Spec

\* What the supervisor takes of the worker's feedback was asked for since the
\* last barrier and overflow, however the two threads interleave.
THEOREM FeedbackStaysFresh == Spec => []FeedbackIsFresh
<1>1. DesktopInv => FeedbackIsFresh
  BY DEF DesktopInv, FeedbackEpochs, FeedbackIsFresh
<1> QED
  BY <1>1, DesktopInvHolds, PTL

\* No key is held by a message from before the last overflow that the worker
\* has applied, also when the mailbox overflows while it presses.
THEOREM HeldStaysCurrent == Spec => []HeldIsCurrent
<1>1. DesktopInv => HeldIsCurrent
  BY DEF DesktopInv, RuntimeInv, Generations, HeldIsCurrent, AtRest
<1> QED
  BY <1>1, DesktopInvHolds, PTL

\* A disconnect or shutdown that reports success leaves nothing held until the
\* next snapshot is published.
THEOREM AckMeansReleased == Spec => []ReleasedAfterAck
<1>1. DesktopInv => ReleasedAfterAck
  BY DEF DesktopInv, CallInv, HoldsNothing, ReleasedAfterAck
<1> QED
  BY <1>1, DesktopInvHolds, PTL

\* A button held through a profile switch presses nothing until it was up.
THEOREM SwitchesPressNothing == Spec => []SwitchPressesNothing
<1>1. DesktopInv => SwitchPressesNothing
  BY DEF DesktopInv, RuntimeInv, InertIsBlocked, SwitchPressesNothing
<1> QED
  BY <1>1, DesktopInvHolds, PTL

-----------------------------------------------------------------------------
(* What is owed, of the mailbox alone and of the worker's.                 *)

MailboxInv == MailboxTyped /\ FeedbackEpochs /\ AcksAreUsed /\ NothingOwedIsLost

LEMMA NothingIsOwedAtFirst == InitMailbox => NothingOwedIsLost
<1> SUFFICES ASSUME InitMailbox PROVE NothingOwedIsLost
  OBVIOUS
<1>1. /\ mailbox.messages = << >> /\ mailbox.snapshot_count = 0 /\ mailbox.control_count = 0
      /\ mailbox.previous = None /\ mailbox.latest = None /\ owed = << >>
  BY Zenon DEF InitMailbox
<1>2. Described(<< >>, 0, 0, None, None)
  BY NothingIsCounted, MailboxAssumption DEF Described
<1>3. CountersDescribeQueue
  BY <1>1, <1>2, DescribedQueue
<1> QED
  BY <1>1, <1>3, NothingIsOwed DEF NothingOwedIsLost, OwedIsQueued

LEMMA MailboxStarts == InitMailbox => MailboxInv
<1> SUFFICES ASSUME InitMailbox PROVE MailboxInv
  OBVIOUS
<1> DEFINE m == [messages |-> << >>, snapshot_count |-> 0, control_count |-> 0,
                 previous |-> None, latest |-> None, generation |-> 0,
                 feedback_epoch |-> 0, accepting |-> TRUE]
           o == [staged |-> None, discard |-> FALSE, epoch |-> 0]
<1>1. mailbox = m /\ outputs = o /\ batch = << >> /\ acks = [ack \in Acks |-> "unused"]
  BY Zenon DEF InitMailbox
<1>2. /\ << >> \in Seq(Messages) /\ 0 \in Nat /\ None \in Masks \cup {None} /\ TRUE \in BOOLEAN
      /\ FALSE \in BOOLEAN /\ 0 \in 0 .. MaxGeneration /\ 0 \in 0 .. MaxEpoch
      /\ None \in 0 .. MaxEpoch \cup {None}
  BY NoneLeft, MailboxAssumption
<1>3. m \in Mailboxes
  BY <1>2, Zenon DEF Mailboxes
<1>4. o \in Staged
  BY <1>2, Zenon DEF Staged
<1>5. /\ m.latest = None /\ m.messages = << >> /\ m.feedback_epoch = 0
      /\ o.epoch = 0 /\ o.staged = None
  BY Zenon
<1> HIDE DEF m, o
<1>6. MailboxTyped /\ FeedbackEpochs
  BY <1>1, <1>2, <1>3, <1>4, <1>5 DEF MailboxTyped, FeedbackEpochs, AnswerStates
<1>7. AcksAreUsed
  BY <1>1, <1>5, NoneLeft DEF AcksAreUsed
<1> QED
  BY <1>6, <1>7, NothingIsOwedAtFirst DEF MailboxInv

\* Some worker answers the first message it took.
LEMMA AnswerKeeps == MailboxInv /\ Answer => MailboxInv'
<1> SUFFICES ASSUME MailboxInv, Answer PROVE MailboxInv'
  OBVIOUS
<1> DEFINE m == Head(batch)
<1>1. batch # << >> /\ batch' = Tail(batch) /\ UNCHANGED <<mailbox, owed>>
  BY DEF Answer
<1>2. /\ Tail(batch) \in Seq(Messages) /\ m \in Messages
      /\ \A i \in DOMAIN Tail(batch) : \E j \in DOMAIN batch : Tail(batch)[i] = batch[j]
  BY <1>1, TailIsKept DEF MailboxInv, MailboxTyped
<1>3. /\ outputs \in Staged /\ mailbox \in Mailboxes /\ acks \in [Acks -> AnswerStates]
  BY DEF MailboxInv, MailboxTyped
<1>4. /\ acks' \in [Acks -> AnswerStates]
      /\ \A ack \in Acks : acks[ack] # "unused" => acks'[ack] # "unused"
  <2>1. acks' = acks \/ (m \in Control /\ m.ack # NoAck /\ acks' = [acks EXCEPT ![m.ack] = "ok"])
    BY <1>2, MessageKinds DEF Answer
  <2>2. CASE acks' = acks
    BY <1>3, <2>2
  <2>3. CASE m \in Control /\ m.ack # NoAck /\ acks' = [acks EXCEPT ![m.ack] = "ok"]
    <3>1. m.ack \in Acks
      BY <2>3 DEF Control
    <3> HIDE DEF m
    <3> QED
      BY <1>3, <2>3, <3>1 DEF AnswerStates
  <2> QED
    BY <2>1, <2>2, <2>3
<1>5. outputs' \in Staged /\ FeedbackEpochs'
  <2>1. outputs' = outputs \/ (IsSnapshot(m) /\ publish_feedback(m.epoch)) \/ discard_feedback
    BY DEF Answer
  <2>2. FeedbackEpochs
    BY DEF MailboxInv
  <2>3. CASE outputs' = outputs
    BY <1>1, <1>3, <2>2, <2>3 DEF FeedbackEpochs
  <2>4. CASE IsSnapshot(m) /\ publish_feedback(m.epoch)
    <3>1. m.epoch \in 0 .. MaxEpoch
      BY <1>2, <2>4, MessageKinds DEF Snapshot
    <3> QED
      BY <1>1, <1>3, <2>2, <2>4, <3>1, FeedbackIsStaged
  <2>5. CASE discard_feedback
    BY <1>1, <1>3, <2>2, <2>5, DiscardIsTyped
  <2> QED
    BY <2>1, <2>3, <2>4, <2>5
<1>6. AcksAreUsed'
  <2>1. ASSUME NEW i \in DOMAIN Tail(batch), NEW ack \in Acks, Asks(Tail(batch)[i], ack)
        PROVE  acks'[ack] # "unused"
    <3>1. PICK j \in DOMAIN batch : Tail(batch)[i] = batch[j]
      BY <1>2
    <3>2. Asks(batch[j], ack)
      BY <2>1, <3>1
    <3>3. acks[ack] # "unused"
      BY <3>2 DEF MailboxInv, AcksAreUsed
    <3> QED
      BY <1>4, <3>3
  <2>2. ASSUME NEW i \in DOMAIN mailbox.messages, NEW ack \in Acks, Asks(mailbox.messages[i], ack)
        PROVE  acks'[ack] # "unused"
    <3>1. acks[ack] # "unused"
      BY <2>2 DEF MailboxInv, AcksAreUsed
    <3> QED
      BY <1>4, <3>1
  <2> QED
    BY <1>1, <2>1, <2>2 DEF AcksAreUsed, Asks
<1>7. NothingOwedIsLost'
  BY <1>1, OwedStays DEF MailboxInv
<1> QED
  BY <1>1, <1>2, <1>4, <1>5, <1>6, <1>7 DEF MailboxInv, MailboxTyped

LEMMA MailboxStepKeeps == MailboxInv /\ [MailboxNext]_mailbox_vars => MailboxInv'
<1> SUFFICES ASSUME MailboxInv, [MailboxNext]_mailbox_vars PROVE MailboxInv'
  OBVIOUS
<1>1. ASSUME NEW mask \in Masks, NEW sample \in Samples, publish_snapshot(mask, sample)
      PROVE  MailboxInv'
  BY <1>1, PublishKeeps, NothingNewIsAsked, PublishOwes DEF MailboxInv
<1>2. CASE publish_overflow
  BY <1>2, OverflowIsPublished, NothingNewIsAsked, OverflowReportOwes DEF MailboxInv
<1>3. ASSUME NEW message \in Requests, push_control(message) PROVE MailboxInv'
  <2>1. message \in Control
    BY DEF Requests
  <2> QED
    BY <1>3, <2>1, ControlIsPushed, ControlOwes DEF MailboxInv
<1>4. CASE take_batch
  BY <1>4, BatchIsTaken, TakingAndClosingOwe DEF MailboxInv
<1>5. CASE close
  BY <1>5, MailboxCloses, TakingAndClosingOwe DEF MailboxInv
<1>6. CASE take_output
  BY <1>6, OutputIsTaken, OwedStays
     DEF MailboxInv, MailboxTyped, AcksAreUsed, Asks, take_output
<1>7. CASE UNCHANGED mailbox_vars
  BY <1>7, OwedStays
     DEF MailboxInv, MailboxTyped, FeedbackEpochs, AcksAreUsed, Asks, mailbox_vars
<1> QED
  BY <1>1, <1>2, <1>3, <1>4, <1>5, <1>6, <1>7, AnswerKeeps DEF MailboxNext

\* Whatever its callers send, and however often it overflows, the mailbox
\* still holds what it owes the worker: of each run of equal masks the first
\* and the newest snapshot, the controls in their order, and counters that
\* describe the queue and stay within their capacities.
THEOREM MailboxLosesNothing == MailboxSpec => []NothingOwedIsLost
<1>1. MailboxInv => NothingOwedIsLost
  BY DEF MailboxInv
<1> QED
  BY <1>1, MailboxStarts, MailboxStepKeeps, PTL DEF MailboxSpec

\* No step of the worker or of the supervisor puts anything else into the
\* mailbox or takes anything else from it.
LEMMA WorkerOwes == DesktopInv /\ NothingOwedIsLost /\ [Next]_vars => NothingOwedIsLost'
<1> SUFFICES ASSUME DesktopInv, NothingOwedIsLost, [Next]_vars PROVE NothingOwedIsLost'
  OBVIOUS
<1>1. MailboxTyped
  BY DEF DesktopInv
<1>2. CASE UNCHANGED <<mailbox, owed>>
  BY <1>2, OwedStays
<1>3. ASSUME NEW mask \in Masks, NEW sample \in Samples, publish_snapshot(mask, sample)
      PROVE  NothingOwedIsLost'
  BY <1>1, <1>3, PublishOwes
<1>4. CASE publish_overflow
  BY <1>1, <1>4, OverflowReportOwes
<1>5. ASSUME NEW m, m \in Commands \/ (\E kind \in Safety, ack \in Acks : m = Plain(kind, ack)),
             push_control(m)
      PROVE  NothingOwedIsLost'
  BY <1>1, <1>5, CommandsAreControls, ControlOwes
<1>6. CASE take_batch \/ close
  BY <1>1, <1>6, TakingAndClosingOwe
<1>7. CASE WorkerNext
  <2>1. take_batch \/ close \/ UNCHANGED <<mailbox, owed>>
    BY <1>7 DEF WorkerNext, TakeBatch, ObserveSnapshot, PublishFeedback, Recheck, HandleControl,
                Finish, Close, mailbox_vars
  <2> QED
    BY <1>2, <1>6, <2>1
<1>8. CASE Tick \/ Panic \/ ObserveClosed \/ ShutdownStopped \/ Returns \/ TakeOutput
  <2>1. UNCHANGED <<mailbox, owed>>
    BY <1>8 DEF Tick, Panic, ObserveClosed, ShutdownStopped, Returns, TakeOutput, take_output,
                mailbox_vars
  <2> QED
    BY <1>2, <2>1
<1>9. CASE \/ \E message \in Commands : RefuseCommand(message)
           \/ \E kind \in Safety, ack \in Acks : CallRefused(kind, ack)
  <2>1. UNCHANGED <<mailbox, owed>>
    BY <1>9 DEF RefuseCommand, CallRefused, CommandRefused
  <2> QED
    BY <1>2, <2>1
<1>10. CASE \E mask \in Masks, sample \in Samples : Observe(mask, sample)
  BY <1>3, <1>10 DEF Observe
<1>11. CASE ReportOverflow
  BY <1>4, <1>11 DEF ReportOverflow
<1>12. CASE \E message \in Commands : Command(message)
  BY <1>5, <1>12 DEF Command
<1>13. CASE \E kind \in Safety, ack \in Acks : Call(kind, ack)
  BY <1>5, <1>13 DEF Call
<1>14. CASE UNCHANGED vars
  BY <1>2, <1>14 DEF vars, mailbox_vars
<1> QED
  BY <1>7, <1>8, <1>9, <1>10, <1>11, <1>12, <1>13, <1>14 DEF Next

\* The same of the mailbox between the worker, its failures and the
\* supervisor.
THEOREM WorkerIsToldWhatIsOwed == Spec => []NothingOwedIsLost
<1>1. Init => NothingOwedIsLost
  BY NothingIsOwedAtFirst DEF Init
<1> QED
  BY <1>1, WorkerOwes, DesktopInvHolds, PTL DEF Spec

-----------------------------------------------------------------------------
(* The bindings engine.  A pad first.                                      *)

Places == Regions \cup {NoAction}
Anchors == [set : BOOLEAN, region : Places]
Filters == {"Parked", "Moving", "PressHeld", "Dragging", "DragParked"}
PressFilters == {"PressHeld", "Dragging", "DragParked"}
DragFilters == {"Dragging", "DragParked"}
Momenta == {"none", "seeded", "pending"}
Pads == [touched : BOOLEAN, blocked : BOOLEAN, held : BOOLEAN, clicked : BOOLEAN,
         pressure_blocked : BOOLEAN, guard : BOOLEAN, filter : Filters, placed : BOOLEAN,
         momentum : Momenta, press_anchor : Anchors, click_region : Places, touch_region : Places]

LEMMA PadFacts ==
  ASSUME NEW p \in Pads
  PROVE  /\ p.touched \in BOOLEAN /\ p.blocked \in BOOLEAN /\ p.held \in BOOLEAN
         /\ p.clicked \in BOOLEAN /\ p.pressure_blocked \in BOOLEAN /\ p.guard \in BOOLEAN
         /\ p.filter \in Filters /\ p.placed \in BOOLEAN /\ p.momentum \in Momenta
         /\ p.press_anchor \in Anchors /\ p.click_region \in Places /\ p.touch_region \in Places
BY DEF Pads

\* What of a pad the regions, the filter and the latches look at.
SameContact(p, q) == q.touched = p.touched /\ q.blocked = p.blocked
SamePress(p, q) == q.held = p.held /\ q.clicked = p.clicked
SameRegions(p, q) == q.click_region = p.click_region /\ q.touch_region = p.touch_region

Alike(p, q) == SameContact(p, q) /\ SamePress(p, q) /\ SameRegions(p, q)

LEMMA TrackingReset ==
  ASSUME NEW p \in Pads, NEW q, q = reset_motion_tracking(p)
  PROVE  q \in Pads /\ Alike(p, q) /\ q.filter = "Parked"
<1>1. q = [p EXCEPT !.filter = "Parked", !.placed = FALSE]
  BY DEF reset_motion_tracking
<1>2. q \in Pads
  BY <1>1 DEF Pads, Filters
<1>3. Alike(p, q) /\ q.filter = "Parked"
  BY <1>1 DEF Pads, Alike, SameContact, SamePress, SameRegions
<1> QED
  BY <1>2, <1>3

LEMMA MomentumSet ==
  ASSUME NEW p \in Pads, NEW m \in Momenta, NEW q, q = [p EXCEPT !.momentum = m]
  PROVE  q \in Pads /\ Alike(p, q) /\ q.filter = p.filter
<1>1. q \in Pads
  BY DEF Pads
<1>2. Alike(p, q) /\ q.filter = p.filter
  BY DEF Pads, Alike, SameContact, SamePress, SameRegions
<1> QED
  BY <1>1, <1>2

LEMMA FilterSet ==
  ASSUME NEW p \in Pads, NEW f \in Filters, NEW q, q = [p EXCEPT !.filter = f]
  PROVE  q \in Pads /\ Alike(p, q) /\ q.filter = f
<1>1. q \in Pads
  BY DEF Pads
<1>2. Alike(p, q) /\ q.filter = f
  BY DEF Pads, Alike, SameContact, SamePress, SameRegions
<1> QED
  BY <1>1, <1>2

LEMMA PlacedSet ==
  ASSUME NEW p \in Pads, NEW b \in BOOLEAN, NEW q, q = [p EXCEPT !.placed = b]
  PROVE  q \in Pads /\ Alike(p, q) /\ q.filter = p.filter
<1>1. q \in Pads
  BY DEF Pads
<1>2. Alike(p, q) /\ q.filter = p.filter
  BY DEF Pads, Alike, SameContact, SamePress, SameRegions
<1> QED
  BY <1>1, <1>2

LEMMA AlikeTwice ==
  ASSUME NEW p, NEW q, NEW r, Alike(p, q), Alike(q, r) PROVE Alike(p, r)
BY DEF Alike, SameContact, SamePress, SameRegions

LEMMA MotionReset ==
  ASSUME NEW p \in Pads, NEW q, q = reset_motion(p)
  PROVE  q \in Pads /\ Alike(p, q) /\ q.filter = "Parked"
<1> DEFINE r == reset_motion_tracking(p)
<1>1. r \in Pads /\ Alike(p, r) /\ r.filter = "Parked"
  BY TrackingReset
<1>2. q = [r EXCEPT !.momentum = "none"] /\ "none" \in Momenta
  BY DEF reset_motion, Momenta
<1> HIDE DEF r
<1>3. q \in Pads /\ Alike(r, q) /\ q.filter = r.filter
  BY <1>1, <1>2, MomentumSet
<1> QED
  BY <1>1, <1>3, AlikeTwice

LEMMA RegionsCleared ==
  ASSUME NEW p \in Pads, NEW q, q = clear_regions(p)
  PROVE  /\ q \in Pads /\ SameContact(p, q) /\ SamePress(p, q) /\ q.filter = p.filter
         /\ q.click_region = NoAction /\ q.touch_region = NoAction
<1> DEFINE none == [set |-> FALSE, region |-> NoAction]
<1>1. none \in Anchors /\ NoAction \in Places
  BY DEF Anchors, Places
<1>2. q = [p EXCEPT !.press_anchor = none, !.click_region = NoAction, !.touch_region = NoAction]
  BY DEF clear_regions
<1> HIDE DEF none
<1>3. q \in Pads
  BY <1>1, <1>2 DEF Pads
<1>4. SameContact(p, q) /\ SamePress(p, q) /\ q.filter = p.filter
  BY <1>2 DEF Pads, SameContact, SamePress
<1>5. q.click_region = NoAction /\ q.touch_region = NoAction
  BY <1>2 DEF Pads
<1> QED
  BY <1>3, <1>4, <1>5

LEMMA PadBlocked ==
  ASSUME NEW p \in Pads, NEW q, q = block_if_touched(p)
  PROVE  /\ q \in Pads /\ q.touched = p.touched /\ q.blocked = p.touched /\ SamePress(p, q)
         /\ q.filter = "Parked" /\ q.click_region = NoAction /\ q.touch_region = NoAction
<1> DEFINE a == [p EXCEPT !.blocked = p.touched]
           b == reset_motion(a)
<1>1. p.touched \in BOOLEAN
  BY PadFacts
<1>2. a \in Pads
  BY <1>1 DEF Pads
<1>3. a.touched = p.touched /\ a.blocked = p.touched /\ SamePress(p, a)
  BY DEF Pads, SamePress
<1> HIDE DEF a
<1>4. b \in Pads /\ Alike(a, b) /\ b.filter = "Parked"
  BY <1>2, MotionReset
<1> HIDE DEF b
<1>5. q = clear_regions(b)
  BY DEF block_if_touched, a, b
<1>6. /\ q \in Pads /\ SameContact(b, q) /\ SamePress(b, q) /\ q.filter = b.filter
      /\ q.click_region = NoAction /\ q.touch_region = NoAction
  BY <1>4, <1>5, RegionsCleared
<1> QED
  BY <1>3, <1>4, <1>6 DEF Alike, SameContact, SamePress

LEMMA PadRebaselined ==
  ASSUME NEW p \in Pads, NEW q, q = rebaseline_placement(p)
  PROVE  q \in Pads /\ Alike(p, q) /\ q.filter = IF p.held THEN "PressHeld" ELSE "Parked"
<1> DEFINE a == reset_motion(p)
           f == IF p.held THEN "PressHeld" ELSE a.filter
           b == [a EXCEPT !.filter = f]
<1>1. a \in Pads /\ Alike(p, a) /\ a.filter = "Parked"
  BY MotionReset
<1> HIDE DEF a
<1>2. f \in Filters /\ f = IF p.held THEN "PressHeld" ELSE "Parked"
  BY <1>1 DEF Filters
<1> HIDE DEF f
<1>3. b \in Pads /\ Alike(a, b) /\ b.filter = f
  BY <1>1, <1>2, FilterSet
<1>4. q = [a EXCEPT !.filter = f, !.placed = TRUE]
  BY DEF rebaseline_placement, a, f
<1>5. q = [b EXCEPT !.placed = TRUE]
  BY <1>1, <1>4 DEF Pads
<1> HIDE DEF b
<1>6. q \in Pads /\ Alike(b, q) /\ q.filter = b.filter
  BY <1>3, <1>5, PlacedSet
<1>7. Alike(p, b)
  BY <1>1, <1>3, AlikeTwice
<1>8. Alike(p, q)
  BY <1>6, <1>7, AlikeTwice
<1> QED
  BY <1>2, <1>3, <1>6, <1>8

LEMMA EndOfContact ==
  ASSUME NEW p \in Pads, NEW sample, sample.pressed \in BOOLEAN, NEW q, q = end_contact(p, sample)
  PROVE  /\ q \in Pads /\ ~q.touched /\ ~q.blocked /\ ~q.held /\ q.filter = p.filter
         /\ q.click_region = NoAction /\ q.touch_region = NoAction
<1> DEFINE s == [p EXCEPT !.touched = FALSE, !.blocked = FALSE, !.held = FALSE,
                          !.clicked = sample.pressed, !.pressure_blocked = FALSE, !.guard = FALSE]
<1>1. s \in Pads
  BY DEF Pads
<1>2. ~s.touched /\ ~s.blocked /\ ~s.held /\ s.filter = p.filter
  BY DEF Pads
<1>3. q = clear_regions(s)
  BY DEF end_contact
<1> HIDE DEF s
<1>4. /\ q \in Pads /\ SameContact(s, q) /\ SamePress(s, q) /\ q.filter = s.filter
      /\ q.click_region = NoAction /\ q.touch_region = NoAction
  BY <1>1, <1>3, RegionsCleared
<1> QED
  BY <1>2, <1>4 DEF SameContact, SamePress

LEMMA PadBaselined ==
  ASSUME NEW p \in Pads, NEW sample \in PadSamples, NEW q, q = baseline_pad(p, sample)
  PROVE  /\ q \in Pads /\ q.touched = sample.touched /\ q.blocked = sample.touched
         /\ (~q.touched => (q.held <=> sample.pressed)) /\ q.filter = "Parked"
         /\ q.click_region = NoAction /\ q.touch_region = NoAction
<1> DEFINE held == effectively_pressed(FALSE, FALSE, sample)
           a == [p EXCEPT !.touched = sample.touched, !.blocked = sample.touched, !.held = held,
                          !.clicked = sample.pressed, !.pressure_blocked = FALSE, !.guard = FALSE]
           b == reset_motion(a)
<1>1. sample.touched \in BOOLEAN /\ sample.pressed \in BOOLEAN /\ (~sample.touched => sample.pressure = "low")
  BY DEF PadSamples
<1>2. held \in BOOLEAN
  BY <1>1 DEF effectively_pressed
<1>3. ~sample.touched => (held <=> sample.pressed)
  BY <1>1 DEF effectively_pressed
<1> HIDE DEF held
<1>4. a \in Pads
  BY <1>1, <1>2 DEF Pads
<1>5. a.touched = sample.touched /\ a.blocked = sample.touched /\ a.held = held
  BY DEF Pads
<1>6. q = clear_regions(b)
  BY DEF baseline_pad, a, b, held
<1> HIDE DEF a
<1>7. b \in Pads /\ Alike(a, b) /\ b.filter = "Parked"
  BY <1>4, MotionReset
<1> HIDE DEF b
<1>8. /\ q \in Pads /\ SameContact(b, q) /\ SamePress(b, q) /\ q.filter = b.filter
      /\ q.click_region = NoAction /\ q.touch_region = NoAction
  BY <1>6, <1>7, RegionsCleared
<1> QED
  BY <1>3, <1>5, <1>7, <1>8 DEF Alike, SameContact, SamePress
-----------------------------------------------------------------------------
(* BindingsEngine: what a sample makes of a pad.                           *)

Chords == {action \in Seq(Outputs) : IsInjective(action) /\ action # Keep}
Latched == Chords \cup {NoAction}
IsConfig(config) ==
  \A region \in Regions : IsAction(config.click[region]) /\ IsAction(config.touch[region])

PadLatched(p, latch, config) ==
  /\ latch["click"] = latch_for(config.click, p.click_region)
  /\ latch["touch"] = latch_for(config.touch, p.touch_region)
PadOwns(p) ==
  /\ p.click_region # NoAction => p.touched /\ ~p.blocked /\ p.clicked /\ p.held
  /\ p.touch_region # NoAction => p.touched /\ ~p.blocked
\* A pad that was clicked before the baseline is excused as long as it is held.
PadFrozen(p, config, excused) ==
  /\ p.touched /\ ~p.blocked /\ config.motion # "None" =>
       /\ (excused = "yes" /\ p.held) \/ (p.held <=> p.filter \in PressFilters)
       /\ p.filter \in DragFilters => p.clicked
  /\ ~p.touched => p.filter = "Parked" /\ (p.held => excused = "yes")

LEMMA LatchIsChord ==
  ASSUME NEW config, IsConfig(config), NEW region \in Places
  PROVE  /\ latch_for(config.click, region) \in Latched /\ latch_for(config.click, region) # Keep
         /\ latch_for(config.touch, region) \in Latched /\ latch_for(config.touch, region) # Keep
<1>1. NoAction # Keep
  BY BindingsAssumption
<1>2. CASE region = NoAction
  BY <1>1, <1>2 DEF latch_for, Latched
<1>3. CASE region # NoAction
  <2>1. region \in Regions
    BY <1>3 DEF Places
  <2>2. IsAction(config.click[region]) /\ IsAction(config.touch[region])
    BY <2>1 DEF IsConfig
  <2>3. ASSUME NEW x, IsAction(x) PROVE x \in Latched /\ x # Keep
    BY <1>1, <2>3 DEF IsAction, Latched, Chords
  <2> QED
    BY <1>3, <2>2, <2>3 DEF latch_for
<1> QED
  BY <1>2, <1>3

\* A pad that is not touched any more.
Idle(q) == ~q.touched /\ ~q.blocked /\ ~q.held /\ q.click_region = NoAction /\ q.touch_region = NoAction

LEMMA AlikeIsIdle ==
  ASSUME NEW p \in Pads, Idle(p), NEW q, Alike(p, q) PROVE Idle(q)
BY DEF Idle, Alike, SameContact, SamePress, SameRegions

LEMMA PadLifts ==
  ASSUME NEW p \in Pads, NEW sample \in PadSamples, NEW config,
         ~p.touched => p.filter = "Parked", NEW o, o = Lifted(p, sample, config)
  PROVE  /\ o.pad \in Pads /\ Idle(o.pad) /\ o.pad.filter = "Parked"
         /\ o.click = (IF p.click_region # NoAction THEN NoAction ELSE Keep)
         /\ o.touch = (IF p.touch_region # NoAction THEN NoAction ELSE Keep)
<1> DEFINE q == end_contact(p, sample)
           m == IF config.motion # "Scroll" THEN Swallows(reset_motion(q))
                ELSE IF p.touched /\ config.momentum /\ q.momentum = "pending"
                THEN Swallows(reset_motion_tracking(q))
                ELSE IF p.touched \/ ~config.momentum THEN Swallows(reset_motion(q))
                ELSE advance_scroll_momentum(q, sample.motion = "rest")
<1>1. sample.pressed \in BOOLEAN
  BY DEF PadSamples
<1>2. q \in Pads /\ Idle(q) /\ q.filter = p.filter
  BY <1>1, EndOfContact DEF Idle
<1>3. /\ o.pad = m.pad
      /\ o.click = (IF p.click_region # NoAction THEN NoAction ELSE Keep)
      /\ o.touch = (IF p.touch_region # NoAction THEN NoAction ELSE Keep)
  BY DEF Lifted
<1> HIDE DEF q
<1>4. reset_motion(q) \in Pads /\ Alike(q, reset_motion(q)) /\ reset_motion(q).filter = "Parked"
  BY <1>2, MotionReset
<1>5. /\ reset_motion_tracking(q) \in Pads /\ Alike(q, reset_motion_tracking(q))
      /\ reset_motion_tracking(q).filter = "Parked"
  BY <1>2, TrackingReset
<1>6. ASSUME ~p.touched, NEW ends PROVE LET a == advance_scroll_momentum(q, ends).pad
                              IN  a \in Pads /\ Alike(q, a) /\ a.filter = "Parked"
  <2> DEFINE b == [q EXCEPT !.momentum = "none"]
  <2>1. "none" \in Momenta
    BY DEF Momenta
  <2>2. b \in Pads /\ Alike(q, b) /\ b.filter = q.filter
    BY <1>2, <2>1, MomentumSet
  <2>3. Alike(q, q)
    BY DEF Alike, SameContact, SamePress, SameRegions
  <2>4. advance_scroll_momentum(q, ends).pad \in {q, b}
    BY DEF advance_scroll_momentum, Swallows, Passes
  <2> HIDE DEF b
  <2> QED
    BY <1>2, <1>6, <2>2, <2>3, <2>4
<1>7. m.pad \in Pads /\ Alike(q, m.pad) /\ m.pad.filter = "Parked"
  <2>1. CASE config.motion # "Scroll"
    BY <1>4, <2>1 DEF Swallows
  <2>2. CASE config.motion = "Scroll" /\ p.touched /\ config.momentum /\ q.momentum = "pending"
    BY <1>5, <2>2 DEF Swallows
  <2>3. CASE config.motion = "Scroll" /\ ~(p.touched /\ config.momentum /\ q.momentum = "pending")
    <3>1. CASE p.touched \/ ~config.momentum
      BY <1>4, <2>3, <3>1 DEF Swallows
    <3>2. CASE ~(p.touched \/ ~config.momentum)
      BY <1>6, <2>3, <3>2
    <3> QED
      BY <3>1, <3>2
  <2> QED
    BY <2>1, <2>2, <2>3
<1> HIDE DEF m
<1>8. Idle(m.pad)
  BY <1>2, <1>7, AlikeIsIdle
<1> QED
  BY <1>3, <1>7, <1>8

LEMMA PadStaysBlocked ==
  ASSUME NEW p \in Pads, NEW sample \in PadSamples, p.blocked, NEW o, o = Blocked(p, sample)
  PROVE  /\ o.pad \in Pads /\ o.pad.touched /\ o.pad.blocked /\ SameRegions(p, o.pad)
         /\ o.click = Keep /\ o.touch = Keep
<1> DEFINE held == effectively_pressed(p.held, p.pressure_blocked, sample)
           a == [p EXCEPT !.touched = TRUE, !.held = held, !.clicked = sample.pressed,
                          !.pressure_blocked = FALSE]
<1>1. sample.pressed \in BOOLEAN
  BY DEF PadSamples
<1>2. held \in BOOLEAN
  BY <1>1, PadFacts DEF effectively_pressed
<1>3. o.pad = reset_motion(a) /\ o.click = Keep /\ o.touch = Keep
  BY DEF Blocked
<1> HIDE DEF held
<1>4. a \in Pads
  BY <1>1, <1>2 DEF Pads
<1>5. a.touched /\ a.blocked = p.blocked /\ SameRegions(p, a)
  BY DEF Pads, SameRegions
<1> HIDE DEF a
<1>6. o.pad \in Pads /\ Alike(a, o.pad)
  BY <1>3, <1>4, MotionReset
<1> QED
  BY <1>3, <1>5, <1>6 DEF Alike, SameContact, SameRegions
\* The press latch follows the sample: a filter is new with the latch, or as it was.
LEMMA PadClicks ==
  ASSUME NEW p \in Pads, NEW sample \in PadSamples, sample.touched, NEW q, q = apply_click_transitions(p, sample)
  PROVE  /\ q \in Pads /\ SameContact(p, q) /\ SameRegions(p, q)
         /\ q.clicked = sample.pressed
         /\ (sample.pressed => q.held) /\ (~sample.pressed /\ p.clicked => ~q.held)
         /\ \/ q.held = p.held /\ q.clicked = p.clicked /\ q.filter = p.filter
            \/ q.filter = IF q.held THEN "PressHeld" ELSE "Parked"
<1> DEFINE freed == p.pressure_blocked /\ sample.pressure # "low"
           pressed == sample.pressed /\ ~p.clicked
           released == ~sample.pressed /\ p.clicked
           held == IF pressed THEN TRUE ELSE ~released /\ effectively_pressed(p.held, freed, sample)
           edge == pressed \/ released \/ held # p.held
           off == IF pressed THEN FALSE ELSE freed \/ released
           a == [p EXCEPT !.clicked = sample.pressed, !.held = held, !.pressure_blocked = off]
           b == rebaseline_placement(a)
           guarded == ~held
           c == IF edge THEN [b EXCEPT !.guard = guarded] ELSE a
           anchor == IF ~held THEN [set |-> FALSE, region |-> NoAction]
                     ELSE IF c.press_anchor.set THEN c.press_anchor
                     ELSE [set |-> TRUE, region |-> sample.region]
           guard == c.guard /\ (edge \/ sample.motion \in {"still", "jump"})
<1>1. /\ sample.pressed \in BOOLEAN /\ sample.region \in Places
      /\ p.held \in BOOLEAN /\ p.clicked \in BOOLEAN /\ p.pressure_blocked \in BOOLEAN
  BY PadFacts DEF PadSamples, Places
<1>2. held \in BOOLEAN /\ off \in BOOLEAN /\ edge \in BOOLEAN /\ guarded \in BOOLEAN
  BY <1>1 DEF effectively_pressed
<1>3. /\ (sample.pressed => held) /\ (~sample.pressed /\ p.clicked => ~held)
      /\ ~edge => held = p.held /\ sample.pressed = p.clicked
  BY <1>1 DEF effectively_pressed
<1>4. q = [c EXCEPT !.press_anchor = anchor, !.guard = guard]
  BY DEF apply_click_transitions
<1> HIDE DEF held, off, edge, guarded
<1>5. a \in Pads
  BY <1>1, <1>2 DEF Pads
<1>6. SameContact(p, a) /\ SameRegions(p, a) /\ a.held = held /\ a.clicked = sample.pressed /\ a.filter = p.filter
  BY DEF Pads, SameContact, SameRegions
<1> HIDE DEF a
<1>7. b \in Pads /\ Alike(a, b) /\ b.filter = IF a.held THEN "PressHeld" ELSE "Parked"
  BY <1>5, PadRebaselined
<1> HIDE DEF b
<1>8. /\ c \in Pads /\ Alike(a, c)
      /\ c.filter = (IF edge THEN (IF held THEN "PressHeld" ELSE "Parked") ELSE p.filter)
  <2> DEFINE d == [b EXCEPT !.guard = guarded]
  <2>1. d \in Pads
    BY <1>2, <1>7 DEF Pads
  <2>2. Alike(b, d) /\ d.filter = b.filter
    BY <1>7 DEF Pads, Alike, SameContact, SamePress, SameRegions
  <2>3. Alike(a, d)
    BY <1>7, <2>2, AlikeTwice
  <2>4. Alike(a, a)
    BY DEF Alike, SameContact, SamePress, SameRegions
  <2>5. c = IF edge THEN d ELSE a
    OBVIOUS
  <2> HIDE DEF c, d
  <2>6. CASE edge
    BY <1>6, <1>7, <2>1, <2>2, <2>3, <2>5, <2>6
  <2>7. CASE ~edge
    BY <1>5, <1>6, <2>4, <2>5, <2>7
  <2> QED
    BY <2>6, <2>7
<1> HIDE DEF c
<1>9. anchor \in Anchors /\ guard \in BOOLEAN
  <2>1. c.press_anchor \in Anchors /\ c.guard \in BOOLEAN
    BY <1>8, PadFacts
  <2>2. [set |-> FALSE, region |-> NoAction] \in Anchors
    BY DEF Anchors, Places
  <2>3. [set |-> TRUE, region |-> sample.region] \in Anchors
    BY <1>1 DEF Anchors
  <2>4. anchor \in Anchors
    BY <2>1, <2>2, <2>3
  <2>5. guard \in BOOLEAN
    BY <2>1, <1>2
  <2> QED
    BY <2>4, <2>5
<1> HIDE DEF anchor, guard
<1>10. q \in Pads
  BY <1>4, <1>8, <1>9 DEF Pads
<1>11. Alike(c, q) /\ q.filter = c.filter
  BY <1>4, <1>8 DEF Pads, Alike, SameContact, SamePress, SameRegions
<1>12. Alike(a, q)
  BY <1>8, <1>11, AlikeTwice
<1>13. SameContact(p, q) /\ SameRegions(p, q) /\ q.held = held /\ q.clicked = sample.pressed
  BY <1>6, <1>12 DEF Alike, SameContact, SamePress, SameRegions
<1>14. \/ q.held = p.held /\ q.clicked = p.clicked /\ q.filter = p.filter
       \/ q.filter = IF q.held THEN "PressHeld" ELSE "Parked"
  <2>1. CASE edge
    BY <1>8, <1>11, <1>13, <2>1
  <2>2. CASE ~edge
    BY <1>3, <1>8, <1>11, <1>13, <2>2
  <2> QED
    BY <2>1, <2>2
<1> QED
  BY <1>3, <1>10, <1>13, <1>14

Told(event, latch) == IF event = Keep THEN latch ELSE event

\* The regions after a sample, and what the triggers are told of them.
LEMMA PadTracks ==
  ASSUME NEW p \in Pads, NEW was \in Pads, NEW sample \in PadSamples, NEW config, IsConfig(config),
         NEW t, t = track_regions(p, was, sample, config), p.clicked = sample.pressed,
         SameRegions(was, p), sample.pressed => p.held,
         was.click_region # NoAction => was.clicked
  PROVE  /\ t.pad \in Pads /\ SameContact(p, t.pad) /\ SamePress(p, t.pad) /\ t.pad.filter = p.filter
         /\ t.click \in Latched \cup {Keep} /\ t.touch \in Latched \cup {Keep}
         /\ t.pad.click_region # NoAction => p.clicked /\ p.held
         /\ \A l, m : /\ PadLatched(was, l, config)
                      /\ m["click"] = Told(t.click, l["click"]) /\ m["touch"] = Told(t.touch, l["touch"])
                      => PadLatched(t.pad, m, config)
<1> DEFINE pressed == sample.pressed /\ ~was.clicked
           released == ~sample.pressed /\ was.clicked
           crossed == ~p.held /\ ~p.guard /\ sample.region # p.touch_region
           touched == IF crossed THEN sample.region ELSE p.touch_region
           clicked == IF pressed THEN p.press_anchor.region ELSE IF released THEN NoAction ELSE p.click_region
           q == [p EXCEPT !.touch_region = touched, !.click_region = clicked]
<1>1. /\ sample.pressed \in BOOLEAN /\ sample.region \in Places /\ p.press_anchor.region \in Places
      /\ p.click_region \in Places /\ p.touch_region \in Places /\ NoAction \in Places
      /\ was.clicked \in BOOLEAN
  BY PadFacts DEF PadSamples, Places, Anchors
<1>2. NoAction \in Latched /\ NoAction # Keep
  BY BindingsAssumption DEF Latched
<1>3. touched \in Places /\ clicked \in Places
  BY <1>1
<1>4. /\ t.pad = q
      /\ t.touch = (IF crossed THEN latch_for(config.touch, sample.region) ELSE Keep)
      /\ t.click = (IF pressed THEN latch_for(config.click, p.press_anchor.region)
                    ELSE IF released /\ p.click_region # NoAction THEN NoAction ELSE Keep)
  BY DEF track_regions
<1> HIDE DEF touched, clicked
<1>5. q \in Pads
  BY <1>3 DEF Pads
<1>6. SameContact(p, q) /\ SamePress(p, q) /\ q.filter = p.filter /\ q.touch_region = touched /\ q.click_region = clicked
  BY DEF Pads, SameContact, SamePress
<1> HIDE DEF q
<1>7. latch_for(config.touch, sample.region) \in Latched /\ latch_for(config.touch, sample.region) # Keep
  BY <1>1, LatchIsChord
<1>8. latch_for(config.click, p.press_anchor.region) \in Latched /\ latch_for(config.click, p.press_anchor.region) # Keep
  BY <1>1, LatchIsChord
<1>9. t.click \in Latched \cup {Keep} /\ t.touch \in Latched \cup {Keep}
  BY <1>2, <1>4, <1>7, <1>8
<1>10. clicked # NoAction => p.clicked /\ p.held
  BY <1>1 DEF clicked, SameRegions
<1>11. ASSUME NEW l, NEW m, PadLatched(was, l, config), m["click"] = Told(t.click, l["click"]),
              m["touch"] = Told(t.touch, l["touch"])
       PROVE  PadLatched(q, m, config)
  <2>1. l["click"] = latch_for(config.click, p.click_region) /\ l["touch"] = latch_for(config.touch, p.touch_region)
    BY <1>11 DEF PadLatched, SameRegions
  <2>2. m["touch"] = latch_for(config.touch, touched)
    <3>1. CASE crossed
      BY <1>4, <1>7, <1>11, <3>1 DEF Told, touched
    <3>2. CASE ~crossed
      BY <1>4, <1>11, <2>1, <3>2 DEF Told, touched
    <3> QED
      BY <3>1, <3>2
  <2>3. m["click"] = latch_for(config.click, clicked)
    <3>1. CASE pressed
      BY <1>4, <1>8, <1>11, <3>1 DEF Told, clicked
    <3>2. CASE ~pressed /\ released
      <4>1. clicked = NoAction /\ latch_for(config.click, NoAction) = NoAction
        BY <3>2 DEF clicked, latch_for
      <4>2. CASE p.click_region # NoAction
        BY <1>2, <1>4, <1>11, <3>2, <4>1, <4>2 DEF Told
      <4>3. CASE p.click_region = NoAction
        BY <1>4, <1>11, <2>1, <3>2, <4>1, <4>3 DEF Told
      <4> QED
        BY <4>2, <4>3
    <3>3. CASE ~pressed /\ ~released
      BY <1>4, <1>11, <2>1, <3>3 DEF Told, clicked
    <3> QED
      BY <3>1, <3>2, <3>3
  <2> QED
    BY <1>6, <2>2, <2>3 DEF PadLatched
<1> QED
  BY <1>4, <1>5, <1>6, <1>9, <1>10, <1>11
\* How the filter may go on: within its kind, a press only with a click.
GoesOn(p, q) ==
  /\ q.filter \in PressFilters <=> p.filter \in PressFilters
  /\ q.filter \in DragFilters => p.filter \in DragFilters \/ p.clicked

LEMMA FilterGoesOn ==
  ASSUME NEW p \in Pads, NEW sample, NEW m, m = filter_pad_motion(p, sample)
  PROVE  m.pad \in Pads /\ Alike(p, m.pad) /\ GoesOn(p, m.pad)
<1>0. p.filter \in Filters
  BY PadFacts
<1>1. ASSUME NEW f \in Filters, NEW q, q = [p EXCEPT !.filter = f],
             f \in PressFilters <=> p.filter \in PressFilters,
             f \in DragFilters => p.filter \in DragFilters \/ p.clicked
      PROVE  q \in Pads /\ Alike(p, q) /\ GoesOn(p, q)
  <2>1. q \in Pads /\ Alike(p, q) /\ q.filter = f
    BY <1>1, FilterSet
  <2> QED
    BY <1>1, <2>1 DEF GoesOn
<1>2. Alike(p, p) /\ GoesOn(p, p)
  BY DEF Alike, SameContact, SamePress, SameRegions, GoesOn
<1>3. CASE p.filter \in {"Moving", "Dragging"}
  <2> DEFINE f == IF p.filter = "Moving" THEN "Parked" ELSE "DragParked"
             q == [p EXCEPT !.filter = f]
  <2>1. m.pad \in {p, q}
    BY <1>3 DEF filter_pad_motion, Passes, Swallows
  <2>2. /\ f \in Filters /\ (f \in PressFilters <=> p.filter \in PressFilters)
        /\ f \in DragFilters => p.filter \in DragFilters \/ p.clicked
    BY <1>3 DEF Filters, PressFilters, DragFilters
  <2> HIDE DEF f
  <2>3. q \in Pads /\ Alike(p, q) /\ GoesOn(p, q)
    BY <1>1, <2>2
  <2> HIDE DEF q
  <2> QED
    BY <1>2, <2>1, <2>3
<1>4. CASE p.filter \in {"Parked", "DragParked"}
  <2> DEFINE f == IF p.filter = "Parked" THEN "Moving" ELSE "Dragging"
             q == [p EXCEPT !.filter = f]
  <2>1. m.pad \in {p, q}
    BY <1>4 DEF filter_pad_motion, Passes, Swallows
  <2>2. /\ f \in Filters /\ (f \in PressFilters <=> p.filter \in PressFilters)
        /\ f \in DragFilters => p.filter \in DragFilters \/ p.clicked
    BY <1>4 DEF Filters, PressFilters, DragFilters
  <2> HIDE DEF f
  <2>3. q \in Pads /\ Alike(p, q) /\ GoesOn(p, q)
    BY <1>1, <2>2
  <2> HIDE DEF q
  <2> QED
    BY <1>2, <2>1, <2>3
<1>5. CASE p.filter = "PressHeld"
  <2> DEFINE q == [p EXCEPT !.filter = "Dragging"]
  <2>1. m.pad = p \/ (p.clicked /\ m.pad = q)
    BY <1>5 DEF filter_pad_motion, Passes, Swallows
  <2>2. "Dragging" \in Filters /\ "Dragging" \in PressFilters /\ p.filter \in PressFilters
    BY <1>5 DEF Filters, PressFilters
  <2>3. p.clicked => q \in Pads /\ Alike(p, q) /\ GoesOn(p, q)
    BY <1>1, <2>2
  <2> HIDE DEF q
  <2> QED
    BY <1>2, <2>1, <2>3
<1> QED
  BY <1>0, <1>3, <1>4, <1>5 DEF Filters

LEMMA PadSeeds ==
  ASSUME NEW p \in Pads, NEW config, NEW q, q = Seeded(p, config)
  PROVE  q \in Pads /\ Alike(p, q) /\ q.filter = p.filter
<1> DEFINE m == IF config.motion = "Scroll" /\ p.momentum = "none" THEN "seeded" ELSE p.momentum
<1>1. m \in Momenta
  BY PadFacts DEF Momenta
<1>2. q = [p EXCEPT !.momentum = m]
  BY DEF Seeded
<1> HIDE DEF m
<1> QED
  BY <1>1, <1>2, MomentumSet

LEMMA PadMoves ==
  ASSUME NEW p \in Pads, NEW sample, NEW config, NEW m, m = pad_motion(p, sample, config)
  PROVE  /\ m.pad \in Pads /\ Alike(p, m.pad)
         /\ config.motion # "None" =>
              GoesOn(p, m.pad) \/ m.pad.filter = IF p.held THEN "PressHeld" ELSE "Parked"
<1>1. CASE config.motion = "None"
  <2>1. m.pad = reset_motion(p)
    BY <1>1 DEF pad_motion, Swallows
  <2> QED
    BY <1>1, <2>1, MotionReset
<1>2. CASE config.motion # "None" /\ (p.guard \/ (p.placed /\ sample.motion = "jump"))
  <2> DEFINE q == rebaseline_placement(p)
  <2>1. m.pad = Seeded(q, config)
    BY <1>2 DEF pad_motion, Swallows
  <2>2. q \in Pads /\ Alike(p, q) /\ q.filter = IF p.held THEN "PressHeld" ELSE "Parked"
    BY PadRebaselined
  <2> HIDE DEF q
  <2>3. m.pad \in Pads /\ Alike(q, m.pad) /\ m.pad.filter = q.filter
    BY <2>1, <2>2, PadSeeds
  <2>4. Alike(p, m.pad)
    BY <2>2, <2>3, AlikeTwice
  <2> QED
    BY <2>2, <2>3, <2>4
<1>3. CASE config.motion # "None" /\ ~(p.guard \/ (p.placed /\ sample.motion = "jump")) /\ ~p.placed
  <2> DEFINE q == [p EXCEPT !.placed = TRUE]
  <2>1. m.pad = Seeded(q, config)
    BY <1>3 DEF pad_motion, Swallows
  <2>2. q \in Pads /\ Alike(p, q) /\ q.filter = p.filter
    BY PlacedSet
  <2> HIDE DEF q
  <2>3. m.pad \in Pads /\ Alike(q, m.pad) /\ m.pad.filter = q.filter
    BY <2>1, <2>2, PadSeeds
  <2>4. Alike(p, m.pad)
    BY <2>2, <2>3, AlikeTwice
  <2> QED
    BY <2>2, <2>3, <2>4 DEF GoesOn
<1>4. CASE config.motion # "None" /\ ~(p.guard \/ (p.placed /\ sample.motion = "jump")) /\ p.placed
  <2> DEFINE f == filter_pad_motion(p, sample)
             momentum == IF f.moves THEN (IF Travels(sample) THEN "pending" ELSE f.pad.momentum)
                         ELSE IF f.pad.filter \in {"Parked", "DragParked"} THEN "none" ELSE f.pad.momentum
             q == [f.pad EXCEPT !.momentum = momentum]
  <2>1. f.pad \in Pads /\ Alike(p, f.pad) /\ GoesOn(p, f.pad)
    BY FilterGoesOn
  <2>2. m.pad = f.pad \/ m.pad = q
    <3>1. CASE config.motion = "Pointer"
      BY <1>4, <3>1 DEF pad_motion
    <3>2. CASE config.motion # "Pointer"
      <4>1. f = [pad |-> f.pad, moves |-> f.moves]
        <5>1. p.filter \in {"Moving", "Dragging"} \/ p.filter \in {"Parked", "DragParked"} \/ p.filter = "PressHeld"
          BY PadFacts DEF Filters
        <5>2. \E x : f = [pad |-> x, moves |-> TRUE] \/ f = [pad |-> x, moves |-> FALSE]
          <6>1. CASE p.filter \in {"Moving", "Dragging"}
            BY <6>1 DEF filter_pad_motion, Passes, Swallows
          <6>2. CASE p.filter \in {"Parked", "DragParked"}
            BY <6>2 DEF filter_pad_motion, Passes, Swallows
          <6>3. CASE p.filter = "PressHeld"
            BY <6>3 DEF filter_pad_motion, Passes, Swallows
          <6> QED
            BY <5>1, <6>1, <6>2, <6>3
        <5> HIDE DEF f
        <5> QED
          BY <5>2
      <4>2. m = [f EXCEPT !.pad = q]
        BY <1>4, <3>2 DEF pad_motion
      <4> HIDE DEF f, q
      <4> QED
        BY <4>1, <4>2
    <3> QED
      BY <3>1, <3>2
  <2> HIDE DEF f
  <2>3. momentum \in Momenta
    <3>1. f.pad.momentum \in Momenta
      BY <2>1, PadFacts
    <3> QED
      BY <3>1 DEF Momenta
  <2> HIDE DEF momentum
  <2>4. q \in Pads /\ Alike(f.pad, q) /\ q.filter = f.pad.filter
    BY <2>1, <2>3, MomentumSet
  <2> HIDE DEF q
  <2>5. Alike(p, q)
    BY <2>1, <2>4, AlikeTwice
  <2>6. GoesOn(p, q)
    BY <2>1, <2>4 DEF GoesOn
  <2> QED
    BY <2>1, <2>2, <2>4, <2>5, <2>6
<1> QED
  BY <1>1, <1>2, <1>3, <1>4

LEMMA PadStep ==
  ASSUME NEW p \in Pads, NEW sample \in PadSamples, NEW config, IsConfig(config), NEW excused,
         PadOwns(p), PadFrozen(p, config, excused), NEW o, o = process_pad(p, sample, config)
  PROVE  /\ o.pad \in Pads /\ PadOwns(o.pad) /\ PadFrozen(o.pad, config, excused)
         /\ o.click \in Latched \cup {Keep} /\ o.touch \in Latched \cup {Keep}
         /\ \A l, m : /\ PadLatched(p, l, config)
                      /\ m["click"] = Told(o.click, l["click"]) /\ m["touch"] = Told(o.touch, l["touch"])
                      => PadLatched(o.pad, m, config)
<1>1. sample.touched \in BOOLEAN /\ sample.pressed \in BOOLEAN
  BY DEF PadSamples
<1>2. NoAction \in Latched /\ NoAction # Keep
  BY BindingsAssumption DEF Latched
<1>3. CASE ~sample.touched
  <2>1. o = Lifted(p, sample, config)
    BY <1>3 DEF process_pad
  <2>2. ~p.touched => p.filter = "Parked"
    BY DEF PadFrozen
  <2>3. /\ o.pad \in Pads /\ Idle(o.pad) /\ o.pad.filter = "Parked"
        /\ o.click = (IF p.click_region # NoAction THEN NoAction ELSE Keep)
        /\ o.touch = (IF p.touch_region # NoAction THEN NoAction ELSE Keep)
    BY <2>1, <2>2, PadLifts
  <2>4. PadOwns(o.pad) /\ PadFrozen(o.pad, config, excused)
    BY <2>3 DEF Idle, PadOwns, PadFrozen
  <2>5. ASSUME NEW l, NEW m, PadLatched(p, l, config), m["click"] = Told(o.click, l["click"]),
               m["touch"] = Told(o.touch, l["touch"])
        PROVE  PadLatched(o.pad, m, config)
    <3>1. m["click"] = NoAction
      BY <1>2, <2>3, <2>5 DEF Told, PadLatched, latch_for
    <3>2. m["touch"] = NoAction
      BY <1>2, <2>3, <2>5 DEF Told, PadLatched, latch_for
    <3> QED
      BY <2>3, <3>1, <3>2 DEF Idle, PadLatched, latch_for
  <2> QED
    BY <1>2, <2>3, <2>4, <2>5
<1>4. CASE sample.touched /\ p.blocked
  <2>1. o = Blocked(p, sample)
    BY <1>4 DEF process_pad
  <2>2. /\ o.pad \in Pads /\ o.pad.touched /\ o.pad.blocked /\ SameRegions(p, o.pad)
        /\ o.click = Keep /\ o.touch = Keep
    BY <1>4, <2>1, PadStaysBlocked
  <2>3. p.click_region = NoAction /\ p.touch_region = NoAction
    BY <1>4 DEF PadOwns
  <2>4. PadOwns(o.pad) /\ PadFrozen(o.pad, config, excused)
    BY <2>2, <2>3 DEF SameRegions, PadOwns, PadFrozen
  <2>5. ASSUME NEW l, NEW m, PadLatched(p, l, config), m["click"] = Told(o.click, l["click"]),
               m["touch"] = Told(o.touch, l["touch"])
        PROVE  PadLatched(o.pad, m, config)
    BY <2>2, <2>5 DEF Told, PadLatched, SameRegions
  <2> QED
    BY <2>2, <2>4, <2>5
<1>5. CASE sample.touched /\ ~p.blocked
  <2> DEFINE momentum == IF config.motion = "Scroll" /\ ~p.touched THEN "none" ELSE p.momentum
             q0 == [p EXCEPT !.touched = TRUE]
             q == [q0 EXCEPT !.momentum = momentum]
             r == apply_click_transitions(q, sample)
             t == track_regions(r, p, sample, config)
             m == pad_motion(t.pad, sample, config)
  <2>1. momentum \in Momenta
    BY PadFacts DEF Momenta
  <2>2. q = [p EXCEPT !.touched = TRUE, !.momentum = momentum]
    OBVIOUS
  <2>3. o.pad = m.pad /\ o.click = t.click /\ o.touch = t.touch
    <3>1. ~(~sample.touched) /\ ~p.blocked
      BY <1>5
    <3> QED
      BY <2>2, <3>1 DEF process_pad
  <2> HIDE DEF momentum
  <2>4. q0 \in Pads
    BY DEF Pads
  <2>5. q0.touched /\ q0.blocked = p.blocked /\ SamePress(p, q0) /\ SameRegions(p, q0) /\ q0.filter = p.filter
    BY DEF Pads, SamePress, SameRegions
  <2> HIDE DEF q0
  <2>6. q \in Pads /\ Alike(q0, q) /\ q.filter = q0.filter
    BY <2>1, <2>4, MomentumSet
  <2> HIDE DEF q
  <2>7. q.touched /\ ~q.blocked /\ SamePress(p, q) /\ SameRegions(p, q) /\ q.filter = p.filter
    BY <1>5, <2>5, <2>6 DEF Alike, SameContact, SamePress, SameRegions
  <2>8. /\ r \in Pads /\ SameContact(q, r) /\ SameRegions(q, r) /\ r.clicked = sample.pressed
        /\ (sample.pressed => r.held) /\ (~sample.pressed /\ q.clicked => ~r.held)
        /\ \/ r.held = q.held /\ r.clicked = q.clicked /\ r.filter = q.filter
           \/ r.filter = IF r.held THEN "PressHeld" ELSE "Parked"
    BY <1>5, <2>6, PadClicks
  <2> HIDE DEF r
  <2>9. SameRegions(p, r) /\ (p.click_region # NoAction => p.clicked)
    BY <2>7, <2>8 DEF SameRegions, PadOwns
  <2>10. /\ t.pad \in Pads /\ SameContact(r, t.pad) /\ SamePress(r, t.pad) /\ t.pad.filter = r.filter
         /\ t.click \in Latched \cup {Keep} /\ t.touch \in Latched \cup {Keep}
         /\ t.pad.click_region # NoAction => r.clicked /\ r.held
         /\ \A l, n : /\ PadLatched(p, l, config)
                      /\ n["click"] = Told(t.click, l["click"]) /\ n["touch"] = Told(t.touch, l["touch"])
                      => PadLatched(t.pad, n, config)
    BY <2>8, <2>9, PadTracks
  <2> HIDE DEF t
  <2>11. /\ m.pad \in Pads /\ Alike(t.pad, m.pad)
         /\ config.motion # "None" =>
              GoesOn(t.pad, m.pad) \/ m.pad.filter = IF t.pad.held THEN "PressHeld" ELSE "Parked"
    BY <2>10, PadMoves
  <2> HIDE DEF m
  <2>12. m.pad.touched /\ ~m.pad.blocked /\ m.pad.held = r.held /\ m.pad.clicked = r.clicked
         /\ SameRegions(t.pad, m.pad)
    BY <2>7, <2>8, <2>10, <2>11 DEF Alike, SameContact, SamePress
  <2>13. PadOwns(m.pad)
    BY <2>10, <2>12 DEF PadOwns, SameRegions
  <2>14. ASSUME config.motion # "None"
         PROVE  /\ (excused = "yes" /\ m.pad.held) \/ (m.pad.held <=> m.pad.filter \in PressFilters)
                /\ m.pad.filter \in DragFilters => m.pad.clicked
    <3>1. /\ (excused = "yes" /\ q.held) \/ (q.held <=> q.filter \in PressFilters)
          /\ q.filter \in DragFilters => q.clicked
      <4>1. CASE p.touched
        BY <1>5, <2>7, <2>14, <4>1 DEF PadFrozen, SamePress
      <4>2. CASE ~p.touched
        BY <2>7, <4>2 DEF PadFrozen, SamePress, PressFilters, DragFilters
      <4> QED
        BY <4>1, <4>2
    <3>2. /\ (excused = "yes" /\ r.held) \/ (r.held <=> r.filter \in PressFilters)
          /\ r.filter \in DragFilters => r.clicked
      <4>1. CASE r.held = q.held /\ r.clicked = q.clicked /\ r.filter = q.filter
        BY <3>1, <4>1
      <4>2. CASE r.filter = IF r.held THEN "PressHeld" ELSE "Parked"
        BY <4>2 DEF PressFilters, DragFilters
      <4> QED
        BY <2>8, <4>1, <4>2
    <3>3. t.pad.filter = r.filter /\ t.pad.held = r.held /\ t.pad.clicked = r.clicked
      BY <2>10 DEF SamePress
    <3>4. CASE GoesOn(t.pad, m.pad)
      BY <2>12, <3>2, <3>3, <3>4 DEF GoesOn
    <3>5. CASE m.pad.filter = IF t.pad.held THEN "PressHeld" ELSE "Parked"
      BY <2>12, <3>3, <3>5 DEF PressFilters, DragFilters
    <3> QED
      BY <2>11, <2>14, <3>4, <3>5
  <2>15. PadFrozen(m.pad, config, excused)
    BY <2>12, <2>14 DEF PadFrozen
  <2>16. ASSUME NEW l, NEW n, PadLatched(p, l, config), n["click"] = Told(t.click, l["click"]),
                n["touch"] = Told(t.touch, l["touch"])
         PROVE  PadLatched(m.pad, n, config)
    <3>1. PadLatched(t.pad, n, config)
      BY <2>10, <2>16
    <3> QED
      BY <2>12, <3>1 DEF PadLatched, SameRegions
  <2> QED
    BY <2>3, <2>10, <2>11, <2>13, <2>15, <2>16
<1> QED
  BY <1>1, <1>3, <1>4, <1>5

-----------------------------------------------------------------------------
(* The sink: what is down is counted.                                      *)

Engines ==
  [profile : Layouts, previous : (SUBSET ControlSet) \cup {NoAction}, blocked : SUBSET ControlSet,
   active : [ControlSet -> Latched], counts : [Outputs -> Int], pads : [SideSet -> Pads],
   latches : [SideSet -> [Triggers -> Latched]]]
EngineRuns ==
  [e : Engines, down : SUBSET Outputs, stuck : SUBSET Outputs, left : Int, dead : BOOLEAN,
   failed : BOOLEAN]

\* An operation of the sink changes the counts of the engine and nothing else.
AtSink(r, q) ==
  /\ q.e.profile = r.e.profile /\ q.e.previous = r.e.previous /\ q.e.blocked = r.e.blocked
  /\ q.e.active = r.e.active /\ q.e.pads = r.e.pads /\ q.e.latches = r.e.latches
  /\ q.dead = r.dead

\* As long as nothing failed the counts are those of n, and what is down is
\* counted or stuck; after a failure it is at least in the table.
IsCounted(r, n) ==
  \A o \in Outputs :
    /\ r.e.counts[o] = IF n[o] = 0 THEN Missing ELSE n[o]
    /\ n[o] > 0 => o \in r.down
    /\ o \in r.down => n[o] > 0 \/ o \in r.stuck
IsKnown(r) == \A o \in r.down : r.e.counts[o] # Missing \/ o \in r.stuck
Fine(r, n) == IF r.failed THEN IsKnown(r) ELSE IsCounted(r, n)

Tallies == [Outputs -> Nat]
More(n, T) == [o \in Outputs |-> IF o \in T THEN n[o] + 1 ELSE n[o]]
Less(n, T) == [o \in Outputs |-> IF o \in T THEN n[o] - 1 ELSE n[o]]

LEMMA RunFacts ==
  ASSUME NEW r \in EngineRuns
  PROVE  /\ r.e \in Engines /\ r.down \in SUBSET Outputs /\ r.stuck \in SUBSET Outputs
         /\ r.left \in Int /\ r.dead \in BOOLEAN /\ r.failed \in BOOLEAN
         /\ r.e.counts \in [Outputs -> Int] /\ r.e.profile \in Layouts
         /\ r.e.previous \in (SUBSET ControlSet) \cup {NoAction} /\ r.e.blocked \in SUBSET ControlSet
         /\ r.e.active \in [ControlSet -> Latched] /\ r.e.pads \in [SideSet -> Pads]
         /\ r.e.latches \in [SideSet -> [Triggers -> Latched]]
<1>1. /\ r.e \in Engines /\ r.down \in SUBSET Outputs /\ r.stuck \in SUBSET Outputs
      /\ r.left \in Int /\ r.dead \in BOOLEAN /\ r.failed \in BOOLEAN
  BY DEF EngineRuns
<1> QED
  BY <1>1 DEF Engines

LEMMA AtSinkTwice ==
  ASSUME NEW r, NEW q, NEW s, AtSink(r, q), AtSink(q, s) PROVE AtSink(r, s)
BY DEF AtSink

\* A change of the counts.
WithCount(r, o, c) == [r EXCEPT !.e.counts[o] = c]

LEMMA CountsSet ==
  ASSUME NEW r \in EngineRuns, NEW o \in Outputs, NEW c \in Int, NEW q, q = WithCount(r, o, c)
  PROVE  /\ q \in EngineRuns /\ AtSink(r, q) /\ q.e.counts = [r.e.counts EXCEPT ![o] = c]
         /\ q.down = r.down /\ q.stuck = r.stuck /\ q.failed = r.failed /\ q.left = r.left
<1> DEFINE e == [r.e EXCEPT !.counts[o] = c]
<1>1. e \in Engines
  BY RunFacts DEF Engines
<1>2. /\ e.profile = r.e.profile /\ e.previous = r.e.previous /\ e.blocked = r.e.blocked
      /\ e.active = r.e.active /\ e.pads = r.e.pads /\ e.latches = r.e.latches
      /\ e.counts = [r.e.counts EXCEPT ![o] = c]
  BY RunFacts DEF Engines
<1>3. q = [r EXCEPT !.e = e]
  BY DEF EngineRuns, WithCount
<1> HIDE DEF e
<1>4. q \in EngineRuns
  BY <1>1, <1>3 DEF EngineRuns
<1>5. /\ q.e = e /\ q.down = r.down /\ q.stuck = r.stuck /\ q.failed = r.failed /\ q.left = r.left
      /\ q.dead = r.dead
  BY <1>1, <1>3 DEF EngineRuns
<1> QED
  BY <1>2, <1>4, <1>5 DEF AtSink

\* A call of the sink.
LEMMA CallMade ==
  ASSUME NEW r \in EngineRuns, NEW q, q = SinkCall(r)
  PROVE  /\ q \in EngineRuns /\ q.e = r.e /\ q.dead = r.dead /\ q.down = r.down /\ q.stuck = r.stuck
         /\ Works(r) => q.failed = r.failed
         /\ ~Works(r) => q.failed
<1>1. CASE Works(r)
  <2>1. q = [r EXCEPT !.left = r.left - 1]
    BY <1>1 DEF SinkCall
  <2>2. q \in EngineRuns
    BY <2>1, RunFacts DEF EngineRuns
  <2> QED
    BY <1>1, <2>1, <2>2 DEF EngineRuns
<1>2. CASE ~Works(r)
  <2>1. q = [r EXCEPT !.failed = TRUE]
    BY <1>2 DEF SinkCall
  <2>2. q \in EngineRuns
    BY <2>1, RunFacts DEF EngineRuns
  <2> QED
    BY <1>2, <2>1, <2>2 DEF EngineRuns
<1> QED
  BY <1>1, <1>2
LEMMA OutputPressed ==
  ASSUME NEW r \in EngineRuns, NEW o \in Outputs, NEW q, q = Pressed(r, o)
  PROVE  /\ q \in EngineRuns /\ q.e = r.e /\ q.dead = r.dead
         /\ q.down = r.down \cup {o} /\ q.stuck = r.stuck \ {o}
<1> DEFINE s == SinkCall(r)
<1>1. s \in EngineRuns /\ s.e = r.e /\ s.dead = r.dead /\ s.down = r.down /\ s.stuck = r.stuck
  BY CallMade
<1> DEFINE down == s.down \cup {o}
           stuck == s.stuck \ {o}
<1>2. q = [s EXCEPT !.down = down, !.stuck = stuck]
  BY DEF Pressed
<1>3. down = r.down \cup {o} /\ stuck = r.stuck \ {o}
  BY <1>1
<1>4. down \in SUBSET Outputs /\ stuck \in SUBSET Outputs
  BY <1>3, RunFacts
<1> HIDE DEF s, down, stuck
<1>5. q \in EngineRuns
  BY <1>1, <1>2, <1>4 DEF EngineRuns
<1>6. q.e = s.e /\ q.dead = s.dead /\ q.down = down /\ q.stuck = stuck
  BY <1>1, <1>2 DEF EngineRuns
<1> QED
  BY <1>1, <1>3, <1>5, <1>6

LEMMA OutputReleased ==
  ASSUME NEW r \in EngineRuns, ~r.failed, NEW o \in Outputs, NEW q, q = Released(r, o)
  PROVE  /\ q \in EngineRuns /\ q.e = r.e /\ q.dead = r.dead /\ q.stuck = r.stuck
         /\ q.failed => q.down = r.down
         /\ ~q.failed => q.down = r.down \ {o}
<1> DEFINE s == SinkCall(r)
           down == IF Works(r) THEN s.down \ {o} ELSE s.down
<1>1. /\ s \in EngineRuns /\ s.e = r.e /\ s.dead = r.dead /\ s.down = r.down /\ s.stuck = r.stuck
      /\ Works(r) => s.failed = r.failed
      /\ ~Works(r) => s.failed
  BY CallMade
<1>2. q = [s EXCEPT !.down = down]
  BY DEF Released
<1>3. down \in SUBSET Outputs
  BY <1>1, RunFacts
<1>4. down = IF Works(r) THEN r.down \ {o} ELSE r.down
  BY <1>1
<1> HIDE DEF s, down
<1>5. q \in EngineRuns
  BY <1>1, <1>2, <1>3 DEF EngineRuns
<1>6. q.e = s.e /\ q.dead = s.dead /\ q.down = down /\ q.stuck = s.stuck /\ q.failed = s.failed
  BY <1>1, <1>2 DEF EngineRuns
<1> QED
  BY <1>1, <1>4, <1>5, <1>6

\* press keeps the books: the output is counted once more, and down.
LEMMA PressKeeps ==
  ASSUME NEW r \in EngineRuns, NEW o \in Outputs, NEW q, q = press(r, o)
  PROVE  /\ q \in EngineRuns /\ AtSink(r, q) /\ (r.failed => q = r)
         /\ \A n \in Tallies : Fine(r, n) => Fine(q, More(n, {o}))
<1>1. CASE r.failed
  <2>1. q = r
    BY <1>1 DEF press
  <2> QED
    BY <1>1, <2>1 DEF Fine, AtSink
<1>2. CASE ~r.failed
  <2> DEFINE n == r.e.counts[o]
             s == IF n <= 0 THEN Pressed(r, o) ELSE r
             c == IF s.failed THEN 0 ELSE (IF n = Missing THEN 1 ELSE n + 1)
  <2>1. q = WithCount(s, o, c)
    BY <1>2 DEF press, WithCount
  <2>2. n \in Int
    BY RunFacts
  <2>3. /\ s \in EngineRuns /\ s.e = r.e /\ s.dead = r.dead
        /\ n <= 0 => s.down = r.down \cup {o} /\ s.stuck = r.stuck \ {o}
        /\ ~(n <= 0) => s = r
    BY OutputPressed
  <2> HIDE DEF s
  <2>4. c \in Int
    BY <2>2
  <2>5. n = r.e.counts[o] /\ (s.failed => c = 0) /\ (~s.failed => c = IF n = Missing THEN 1 ELSE n + 1)
    OBVIOUS
  <2> HIDE DEF c, n
  <2>6. /\ q \in EngineRuns /\ AtSink(s, q) /\ q.e.counts = [s.e.counts EXCEPT ![o] = c]
        /\ q.down = s.down /\ q.stuck = s.stuck /\ q.failed = s.failed
    <3>1. s \in EngineRuns
      BY <2>3
    <3>2. o \in Outputs
      OBVIOUS
    <3> QED
      BY ONLY <2>1, <2>4, <3>1, <3>2, CountsSet
  <2>7. AtSink(r, q)
    BY <2>3, <2>6 DEF AtSink
  <2>8. /\ r.e.counts \in [Outputs -> Int] /\ r.down \in SUBSET Outputs
    BY RunFacts
  <2>9. q.e.counts[o] = c /\ \A p \in Outputs : p # o => q.e.counts[p] = r.e.counts[p]
    BY <2>3, <2>6, <2>8
  <2>10. ASSUME NEW m \in Tallies, Fine(r, m) PROVE Fine(q, More(m, {o}))
    <3>1. /\ r.e.counts[o] = IF m[o] = 0 THEN Missing ELSE m[o]
          /\ m[o] > 0 => o \in r.down
          /\ m[o] \in Nat
      BY <1>2, <2>10 DEF Fine, IsCounted, Tallies
    <3>2. ASSUME NEW p \in Outputs, p # o
          PROVE  /\ r.e.counts[p] = IF m[p] = 0 THEN Missing ELSE m[p]
                 /\ m[p] > 0 => p \in r.down
                 /\ p \in r.down => m[p] > 0 \/ p \in r.stuck
                 /\ m[p] \in Nat
      BY <1>2, <2>10 DEF Fine, IsCounted, Tallies
    <3>3. /\ \A p \in Outputs : p # o => (p \in q.down <=> p \in r.down) /\ (p \in q.stuck <=> p \in r.stuck)
      BY <2>3, <2>6
    <3>4. o \in q.down
      <4>1. CASE n <= 0
        BY <2>3, <2>6, <4>1
      <4>2. CASE ~(n <= 0)
        <5>1. m[o] > 0
          BY <2>2, <2>5, <3>1, <4>2 DEF Missing
        <5> QED
          BY <2>3, <2>6, <3>1, <4>2, <5>1
      <4> QED
        BY <4>1, <4>2
    <3>5. CASE q.failed
      <4>1. c = 0
        BY <2>5, <2>6, <3>5
      <4>2. ASSUME NEW p \in q.down PROVE q.e.counts[p] # Missing \/ p \in q.stuck
        <5>1. p \in Outputs
          BY <2>6, RunFacts
        <5>2. CASE p = o
          BY <2>9, <4>1, <5>2 DEF Missing
        <5>3. CASE p # o
          <6>1. p \in r.down
            BY <3>3, <4>2, <5>1, <5>3
          <6>2. m[p] > 0 \/ p \in r.stuck
            BY <3>2, <5>1, <5>3, <6>1
          <6>3. m[p] > 0 => r.e.counts[p] # Missing
            BY <3>2, <5>1, <5>3 DEF Missing
          <6> QED
            BY <2>9, <3>3, <5>1, <5>3, <6>2, <6>3
        <5> QED
          BY <5>2, <5>3
      <4> QED
        BY <3>5, <4>2 DEF Fine, IsKnown
    <3>6. CASE ~q.failed
      <4>1. c = m[o] + 1
        BY <2>5, <2>6, <3>1, <3>6 DEF Missing
      <4>2. ASSUME NEW p \in Outputs
            PROVE  LET k == More(m, {o})[p]
                   IN  /\ q.e.counts[p] = IF k = 0 THEN Missing ELSE k
                       /\ k > 0 => p \in q.down
                       /\ p \in q.down => k > 0 \/ p \in q.stuck
        <5>1. CASE p = o
          <6>1. More(m, {o})[p] = m[o] + 1
            BY <5>1 DEF More
          <6> QED
            BY <2>9, <3>1, <3>4, <4>1, <5>1, <6>1
        <5>2. CASE p # o
          <6>1. More(m, {o})[p] = m[p]
            BY <5>2 DEF More
          <6> QED
            BY <2>9, <3>2, <3>3, <5>2, <6>1
        <5> QED
          BY <5>1, <5>2
      <4> QED
        BY <3>6, <4>2 DEF Fine, IsCounted
    <3> QED
      BY <3>5, <3>6
  <2> QED
    BY <1>2, <2>6, <2>7, <2>10
<1> QED
  BY <1>1, <1>2

\* release keeps the books: the output is counted once less.
LEMMA ReleaseKeeps ==
  ASSUME NEW r \in EngineRuns, NEW o \in Outputs, NEW q, q = release(r, o)
  PROVE  /\ q \in EngineRuns /\ AtSink(r, q) /\ (r.failed => q = r)
         /\ \A n \in Tallies : n[o] > 0 /\ Fine(r, n) => Fine(q, Less(n, {o}))
<1>1. CASE r.failed \/ r.e.counts[o] = Missing
  <2>1. q = r
    BY <1>1 DEF release
  <2>2. ASSUME NEW m \in Tallies, m[o] > 0, Fine(r, m) PROVE Fine(q, Less(m, {o}))
    <3>1. CASE r.failed
      BY <2>1, <2>2, <3>1 DEF Fine
    <3>2. CASE ~r.failed
      <4>1. r.e.counts[o] = m[o] /\ m[o] \in Nat
        BY <2>2, <3>2 DEF Fine, IsCounted, Tallies
      <4> QED
        BY <1>1, <3>2, <4>1 DEF Missing
    <3> QED
      BY <3>1, <3>2
  <2> QED
    BY <2>1, <2>2 DEF AtSink
<1>2. CASE ~r.failed /\ r.e.counts[o] # Missing
  <2> DEFINE n == r.e.counts[o] - 1
             s == IF n = 0 THEN Released(r, o) ELSE r
             c == IF n = 0 /\ ~s.failed THEN Missing ELSE n
  <2>1. q = WithCount(s, o, c)
    BY <1>2 DEF release, WithCount
  <2>2. n \in Int /\ n + 1 = r.e.counts[o]
    BY RunFacts
  <2>3. /\ s \in EngineRuns /\ s.e = r.e /\ s.dead = r.dead /\ s.stuck = r.stuck
        /\ s.failed => s.down = r.down /\ n = 0
        /\ ~s.failed /\ n = 0 => s.down = r.down \ {o}
        /\ n # 0 => s = r
    BY <1>2, OutputReleased
  <2> HIDE DEF s
  <2>4. c \in Int
    BY <2>2 DEF Missing
  <2>5. (s.failed => c = n) /\ (~s.failed => c = IF n = 0 THEN Missing ELSE n)
    OBVIOUS
  <2> HIDE DEF c, n
  <2>6. /\ q \in EngineRuns /\ AtSink(s, q) /\ q.e.counts = [s.e.counts EXCEPT ![o] = c]
        /\ q.down = s.down /\ q.stuck = s.stuck /\ q.failed = s.failed
    <3>1. s \in EngineRuns
      BY <2>3
    <3>2. o \in Outputs
      OBVIOUS
    <3> QED
      BY ONLY <2>1, <2>4, <3>1, <3>2, CountsSet
  <2>7. AtSink(r, q)
    BY <2>3, <2>6 DEF AtSink
  <2>8. /\ r.e.counts \in [Outputs -> Int] /\ r.down \in SUBSET Outputs
    BY RunFacts
  <2>9. q.e.counts[o] = c /\ \A p \in Outputs : p # o => q.e.counts[p] = r.e.counts[p]
    BY <2>3, <2>6, <2>8
  <2>10. ASSUME NEW m \in Tallies, m[o] > 0, Fine(r, m) PROVE Fine(q, Less(m, {o}))
    <3>1. /\ r.e.counts[o] = m[o]
          /\ o \in r.down
          /\ m[o] \in Nat
      BY <1>2, <2>10 DEF Fine, IsCounted, Tallies
    <3>2. ASSUME NEW p \in Outputs, p # o
          PROVE  /\ r.e.counts[p] = IF m[p] = 0 THEN Missing ELSE m[p]
                 /\ m[p] > 0 => p \in r.down
                 /\ p \in r.down => m[p] > 0 \/ p \in r.stuck
                 /\ m[p] \in Nat
      BY <1>2, <2>10 DEF Fine, IsCounted, Tallies
    <3>3. \A p \in Outputs : p # o => (p \in q.down <=> p \in r.down) /\ (p \in q.stuck <=> p \in r.stuck)
      <4>1. n = 0 \/ n # 0
        OBVIOUS
      <4> QED
        BY <2>3, <2>6, <4>1
    <3>4. CASE q.failed
      <4>1. c = 0
        BY <2>3, <2>5, <2>6, <3>4
      <4>2. ASSUME NEW p \in q.down PROVE q.e.counts[p] # Missing \/ p \in q.stuck
        <5>1. p \in Outputs
          BY <2>6, RunFacts
        <5>2. CASE p = o
          BY <2>9, <4>1, <5>2 DEF Missing
        <5>3. CASE p # o
          <6>1. p \in r.down
            BY <3>3, <4>2, <5>1, <5>3
          <6>2. m[p] > 0 \/ p \in r.stuck
            BY <3>2, <5>1, <5>3, <6>1
          <6>3. m[p] > 0 => r.e.counts[p] # Missing
            BY <3>2, <5>1, <5>3 DEF Missing
          <6> QED
            BY <2>9, <3>3, <5>1, <5>3, <6>2, <6>3
        <5> QED
          BY <5>2, <5>3
      <4> QED
        BY <3>4, <4>2 DEF Fine, IsKnown
    <3>5. CASE ~q.failed
      <4>1. /\ n = m[o] - 1 /\ c = (IF n = 0 THEN Missing ELSE n) /\ n \in Nat
        BY <2>2, <2>5, <2>6, <2>10, <3>1, <3>5
      <4>2. (n = 0 => o \notin q.down) /\ (n > 0 => o \in q.down)
        BY <2>2, <2>3, <2>6, <3>1, <3>5
      <4>3. ASSUME NEW p \in Outputs
            PROVE  LET k == Less(m, {o})[p]
                   IN  /\ q.e.counts[p] = IF k = 0 THEN Missing ELSE k
                       /\ k > 0 => p \in q.down
                       /\ p \in q.down => k > 0 \/ p \in q.stuck
        <5>1. CASE p = o
          <6>1. Less(m, {o})[p] = n
            BY <4>1, <5>1 DEF Less
          <6>2. n = 0 \/ n > 0
            <7>1. n \in Nat
              BY <4>1
            <7> QED
              BY ONLY <7>1
          <6>3. CASE n = 0
            BY <2>9, <4>1, <4>2, <5>1, <6>1, <6>3
          <6>4. CASE n > 0
            BY <2>9, <4>1, <4>2, <5>1, <6>1, <6>4
          <6> QED
            BY <6>2, <6>3, <6>4
        <5>2. CASE p # o
          <6>1. Less(m, {o})[p] = m[p]
            BY <5>2 DEF Less
          <6> QED
            BY <2>9, <3>2, <3>3, <5>2, <6>1
        <5> QED
          BY <5>1, <5>2
      <4> QED
        BY <3>5, <4>3 DEF Fine, IsCounted
    <3> QED
      BY <3>4, <3>5
  <2> QED
    BY <1>2, <2>6, <2>7, <2>10
<1> QED
  BY <1>1, <1>2
LEMMA MoreOnce ==
  ASSUME NEW n \in Tallies, NEW T, NEW o, o \notin T
  PROVE  /\ More(n, T) \in Tallies /\ More(n, {}) = n /\ More(More(n, T), {o}) = More(n, T \cup {o})
<1>1. n \in [Outputs -> Nat]
  BY DEF Tallies
<1>2. \A p \in Outputs : n[p] + 1 \in Nat /\ n[p] \in Nat
  BY <1>1
<1>3. More(n, T) \in Tallies
  BY <1>2 DEF More, Tallies
<1>4. More(n, {}) = n
  BY <1>1 DEF More
<1>5. ASSUME NEW p \in Outputs
      PROVE  (IF p \in {o} THEN More(n, T)[p] + 1 ELSE More(n, T)[p])
             = IF p \in T \cup {o} THEN n[p] + 1 ELSE n[p]
  <2>1. More(n, T)[p] = IF p \in T THEN n[p] + 1 ELSE n[p]
    BY DEF More
  <2>2. CASE p = o
    BY <2>1, <2>2
  <2>3. CASE p # o
    BY <2>1, <2>3
  <2> QED
    BY <2>2, <2>3
<1>6. More(More(n, T), {o}) = More(n, T \cup {o})
  BY <1>5 DEF More
<1> QED
  BY <1>3, <1>4, <1>6

LEMMA LessOnce ==
  ASSUME NEW n \in Tallies, NEW T, \A p \in Outputs : p \in T => n[p] > 0, NEW o, o \notin T
  PROVE  /\ Less(n, T) \in Tallies /\ Less(n, {}) = n /\ Less(Less(n, T), {o}) = Less(n, T \cup {o})
         /\ o \in Outputs => Less(n, T)[o] = n[o]
<1>1. n \in [Outputs -> Nat]
  BY DEF Tallies
<1>2. \A p \in Outputs : (p \in T => n[p] - 1 \in Nat) /\ n[p] \in Nat
  BY <1>1
<1>3. Less(n, T) \in Tallies
  BY <1>2 DEF Less, Tallies
<1>4. Less(n, {}) = n
  BY <1>1 DEF Less
<1>5. ASSUME NEW p \in Outputs
      PROVE  (IF p \in {o} THEN Less(n, T)[p] - 1 ELSE Less(n, T)[p])
             = IF p \in T \cup {o} THEN n[p] - 1 ELSE n[p]
  <2>1. Less(n, T)[p] = IF p \in T THEN n[p] - 1 ELSE n[p]
    BY DEF Less
  <2>2. CASE p = o
    BY <2>1, <2>2
  <2>3. CASE p # o
    BY <2>1, <2>3
  <2> QED
    BY <2>2, <2>3
<1>6. Less(Less(n, T), {o}) = Less(n, T \cup {o})
  BY <1>5 DEF Less
<1>7. o \in Outputs => Less(n, T)[o] = n[o]
  BY DEF Less
<1> QED
  BY <1>3, <1>4, <1>6, <1>7

\* The elements of an action, and those of the first of its places.
LEMMA ActionFacts ==
  ASSUME NEW action \in Chords
  PROVE  /\ Len(action) \in Nat /\ \A i \in 1 .. Len(action) : action[i] \in Outputs
         /\ \A i, j \in 1 .. Len(action) : action[i] = action[j] => i = j
         /\ ToSet(action) = {action[i] : i \in 1 .. Len(action)}
         /\ ToSet(action) \subseteq Outputs
<1>1. action \in Seq(Outputs) /\ IsInjective(action)
  BY DEF Chords
<1>2. Len(action) \in Nat /\ DOMAIN action = 1 .. Len(action) /\ \A i \in 1 .. Len(action) : action[i] \in Outputs
  BY <1>1, LenProperties, ElementOfSeq
<1>3. \A i, j \in 1 .. Len(action) : action[i] = action[j] => i = j
  BY <1>1, <1>2 DEF IsInjective
<1>4. ToSet(action) = {action[i] : i \in 1 .. Len(action)}
  BY <1>2 DEF ToSet
<1> QED
  BY <1>2, <1>3, <1>4

PressRun(r, action, f) ==
  f = [n \in 0 .. Len(action) |-> IF n = 0 THEN r ELSE press(f[n - 1], action[n])]

\* press_action counts every output of the action once more.
LEMMA PressActionKeeps ==
  ASSUME NEW r \in EngineRuns, NEW action \in Chords, NEW q, q = press_action(r, action)
  PROVE  /\ q \in EngineRuns /\ AtSink(r, q) /\ (r.failed => q = r)
         /\ \A n \in Tallies : Fine(r, n) => Fine(q, More(n, ToSet(action)))
<1> DEFINE N == Len(action)
           T(k) == {action[i] : i \in 1 .. k}
           Kept(x, U) == /\ AtSink(r, x) /\ (r.failed => x = r)
                         /\ \A n \in Tallies : Fine(r, n) => Fine(x, More(n, U))
           Reached == [k \in 0 .. N |-> {x \in EngineRuns : Kept(x, T(k))}]
           move == [p \in (1 .. N) \X EngineRuns |-> press(p[2], action[p[1]])]
<1>1. /\ N \in Nat /\ \A i \in 1 .. N : action[i] \in Outputs
      /\ \A i, j \in 1 .. N : action[i] = action[j] => i = j
      /\ ToSet(action) = T(N)
  BY ActionFacts
<1> HIDE DEF N
<1>2. T(0) = {} /\ \A i \in 1 .. N : action[i] \notin T(i - 1) /\ T(i) = T(i - 1) \cup {action[i]}
  <2>1. T(0) = {}
    OBVIOUS
  <2>2. ASSUME NEW i \in 1 .. N PROVE action[i] \notin T(i - 1) /\ T(i) = T(i - 1) \cup {action[i]}
    <3>1. 1 .. i = (1 .. i - 1) \cup {i}
      BY <1>1
    <3>2. \A j \in 1 .. i - 1 : j \in 1 .. N /\ j # i
      BY <1>1
    <3> QED
      BY <1>1, <3>1, <3>2
  <2> QED
    BY <2>1, <2>2
<1> HIDE DEF T
<1>3. ASSUME NEW x \in EngineRuns, NEW o \in Outputs, NEW U, o \notin U, Kept(x, U)
      PROVE  press(x, o) \in EngineRuns /\ Kept(press(x, o), U \cup {o})
  <2> DEFINE y == press(x, o)
  <2>1. /\ y \in EngineRuns /\ AtSink(x, y) /\ (x.failed => y = x)
        /\ \A n \in Tallies : Fine(x, n) => Fine(y, More(n, {o}))
    BY PressKeeps
  <2> HIDE DEF y
  <2>2. AtSink(r, y) /\ (r.failed => y = r)
    BY <1>3, <2>1, AtSinkTwice
  <2>3. ASSUME NEW n \in Tallies, Fine(r, n) PROVE Fine(y, More(n, U \cup {o}))
    <3>1. Fine(x, More(n, U))
      BY <1>3, <2>3
    <3>2. More(n, U) \in Tallies /\ More(More(n, U), {o}) = More(n, U \cup {o})
      BY <1>3, MoreOnce
    <3> QED
      BY <2>1, <3>1, <3>2
  <2> QED
    BY <2>1, <2>2, <2>3 DEF y
<1>4. Kept(r, {})
  <2>1. \A n \in Tallies : More(n, {}) = n
    BY DEF More, Tallies
  <2> QED
    BY <2>1 DEF AtSink
<1> HIDE DEF Kept
<1>5. \A k \in 0 .. N : \A x : x \in Reached[k] <=> x \in EngineRuns /\ Kept(x, T(k))
  OBVIOUS
<1>6. r \in Reached[0]
  BY <1>1, <1>2, <1>4, <1>5
<1>7. \A i \in 1 .. N : i \in 0 .. N /\ i - 1 \in 0 .. N
  BY <1>1
<1>8. \A i \in 1 .. N : \A x \in Reached[i - 1] : press(x, action[i]) \in Reached[i]
  BY <1>1, <1>2, <1>3, <1>5, <1>7
<1>9. \A i \in 1 .. N : \A x \in Reached[i - 1] : move[<<i, x>>] = press(x, action[i])
  BY <1>5, <1>7
<1> HIDE DEF Reached, move
<1>10. PICK f : /\ f = [i \in 0 .. N |-> f[i]] /\ f[0] = r
                /\ \A i \in 1 .. N : f[i] = move[<<i, f[i - 1]>>]
                /\ \A i \in 0 .. N : f[i] \in Reached[i]
  <2>1. LeadsOn(N, Reached, move)
    BY <1>8, <1>9 DEF LeadsOn
  <2>2. N \in Nat
    BY <1>1
  <2>3. \E f : StaysIn(N, Reached, r, move, f)
    BY ONLY <1>6, <2>1, <2>2, RecursionKeeps
  <2> QED
    BY <2>3 DEF StaysIn
<1>11. PressRun(r, action, f)
  <2>1. \A i \in 0 .. N : f[i] = IF i = 0 THEN r ELSE press(f[i - 1], action[i])
    <3>1. \A i \in 0 .. N : i # 0 => i \in 1 .. N
      BY <1>1
    <3> QED
      BY <1>7, <1>9, <1>10, <3>1
  <2>2. f = [i \in 0 .. N |-> IF i = 0 THEN r ELSE press(f[i - 1], action[i])]
    BY <1>10, <2>1
  <2> QED
    BY <2>2 DEF PressRun, N
<1> DEFINE g == CHOOSE h : PressRun(r, action, h)
<1>12. PressRun(r, action, g)
  BY <1>11
<1>13. q = g[N]
  BY DEF press_action, PressRun, N
<1> HIDE DEF g
<1>14. g[0] = r /\ \A i \in 1 .. N : g[i] = press(g[i - 1], action[i])
  <2>1. g = [n \in 0 .. N |-> IF n = 0 THEN r ELSE press(g[n - 1], action[n])]
    BY <1>12 DEF PressRun, N
  <2>2. 0 \in 0 .. N /\ \A i \in 1 .. N : i \in 0 .. N /\ i # 0
    BY <1>1
  <2> QED
    BY <2>1, <2>2
<1>15. \A i \in 1 .. N : g[i - 1] \in Reached[i - 1] => g[i] \in Reached[i]
  BY <1>8, <1>14
<1>16. g[N] \in Reached[N]
  BY <1>1, <1>6, <1>14, <1>15, StepsKeep
<1>17. q \in EngineRuns /\ Kept(q, T(N))
  BY <1>1, <1>5, <1>13, <1>16
<1> QED
  BY <1>1, <1>17 DEF Kept
ReleaseRun(r, action, f) ==
  f = [n \in 0 .. Len(action) |-> IF n = 0 THEN r ELSE release(f[n - 1], action[Len(action) + 1 - n])]

\* release_action counts every output of the action once less, if each was counted.
AllCounted(n, T) == \A o \in Outputs : o \in T => n[o] > 0

LEMMA ReleaseActionKeeps ==
  ASSUME NEW r \in EngineRuns, NEW action \in Chords, NEW q, q = release_action(r, action)
  PROVE  /\ q \in EngineRuns /\ AtSink(r, q) /\ (r.failed => q = r)
         /\ \A n \in Tallies : AllCounted(n, ToSet(action)) /\ Fine(r, n) => Fine(q, Less(n, ToSet(action)))
<1> DEFINE N == Len(action)
           M == ToSet(action)
           T(k) == {action[N + 1 - i] : i \in 1 .. k}
           Kept(x, U) == /\ AtSink(r, x) /\ (r.failed => x = r)
                         /\ \A n \in Tallies : AllCounted(n, M) /\ Fine(r, n) => Fine(x, Less(n, U))
           Reached == [k \in 0 .. N |-> {x \in EngineRuns : Kept(x, T(k))}]
           move == [p \in (1 .. N) \X EngineRuns |-> release(p[2], action[N + 1 - p[1]])]
<1>0. /\ N \in Nat /\ \A i \in 1 .. N : action[i] \in Outputs
      /\ \A i, j \in 1 .. N : action[i] = action[j] => i = j
      /\ M = {action[i] : i \in 1 .. N}
  BY ActionFacts
<1> HIDE DEF N
<1>1. /\ N \in Nat /\ \A i \in 1 .. N : action[N + 1 - i] \in Outputs /\ action[N + 1 - i] \in M
      /\ \A i, j \in 1 .. N : action[N + 1 - i] = action[N + 1 - j] => i = j
      /\ M = T(N)
  <2>1. \A i \in 1 .. N : N + 1 - i \in 1 .. N /\ N + 1 - (N + 1 - i) = i
    BY <1>0
  <2>2. ASSUME NEW i \in 1 .. N, NEW j \in 1 .. N, action[N + 1 - i] = action[N + 1 - j] PROVE i = j
    <3>1. N + 1 - i = N + 1 - j
      BY <1>0, <2>1, <2>2
    <3> QED
      BY <1>0, <3>1
  <2>3. M = T(N)
    BY <1>0, <2>1
  <2>4. \A i \in 1 .. N : action[N + 1 - i] \in Outputs /\ action[N + 1 - i] \in M
    BY <1>0, <2>1
  <2> QED
    BY <1>0, <2>2, <2>3, <2>4
<1> HIDE DEF M
<1>2. T(0) = {} /\ \A i \in 1 .. N : action[N + 1 - i] \notin T(i - 1) /\ T(i) = T(i - 1) \cup {action[N + 1 - i]}
  <2>1. T(0) = {}
    OBVIOUS
  <2>2. ASSUME NEW i \in 1 .. N PROVE action[N + 1 - i] \notin T(i - 1) /\ T(i) = T(i - 1) \cup {action[N + 1 - i]}
    <3>1. 1 .. i = (1 .. i - 1) \cup {i}
      BY <1>1
    <3>2. \A j \in 1 .. i - 1 : j \in 1 .. N /\ j # i
      BY <1>1
    <3> QED
      BY <1>1, <3>1, <3>2
  <2> QED
    BY <2>1, <2>2
<1>18. \A i \in 1 .. N : T(i - 1) \subseteq M
  BY <1>1
<1> HIDE DEF T
<1>3. ASSUME NEW x \in EngineRuns, NEW o \in Outputs, o \in M, NEW U, U \subseteq M, o \notin U, Kept(x, U)
      PROVE  release(x, o) \in EngineRuns /\ Kept(release(x, o), U \cup {o})
  <2> DEFINE y == release(x, o)
  <2>1. /\ y \in EngineRuns /\ AtSink(x, y) /\ (x.failed => y = x)
        /\ \A n \in Tallies : n[o] > 0 /\ Fine(x, n) => Fine(y, Less(n, {o}))
    BY ReleaseKeeps
  <2> HIDE DEF y
  <2>2. AtSink(r, y) /\ (r.failed => y = r)
    BY <1>3, <2>1, AtSinkTwice
  <2>3. ASSUME NEW n \in Tallies, AllCounted(n, M), Fine(r, n) PROVE Fine(y, Less(n, U \cup {o}))
    <3>1. Fine(x, Less(n, U))
      BY <1>3, <2>3
    <3>2. n[o] > 0 /\ \A p \in Outputs : p \in U => n[p] > 0
      BY <1>3, <2>3 DEF AllCounted
    <3>3. Less(n, U) \in Tallies /\ Less(Less(n, U), {o}) = Less(n, U \cup {o}) /\ Less(n, U)[o] = n[o]
      BY <1>3, <3>2, LessOnce
    <3> QED
      BY <2>1, <3>1, <3>2, <3>3
  <2> QED
    BY <2>1, <2>2, <2>3 DEF y
<1>4. Kept(r, {})
  <2>1. \A n \in Tallies : Less(n, {}) = n
    BY DEF Less, Tallies
  <2> QED
    BY <2>1 DEF AtSink
<1> HIDE DEF Kept
<1>5. \A k \in 0 .. N : \A x : x \in Reached[k] <=> x \in EngineRuns /\ Kept(x, T(k))
  OBVIOUS
<1>6. r \in Reached[0]
  BY <1>1, <1>2, <1>4, <1>5
<1>7. \A i \in 1 .. N : i \in 0 .. N /\ i - 1 \in 0 .. N
  BY <1>1
<1>8. \A i \in 1 .. N : \A x \in Reached[i - 1] : release(x, action[N + 1 - i]) \in Reached[i]
  <2> TAKE i \in 1 .. N
  <2> TAKE x \in Reached[i - 1]
  <2>1. x \in EngineRuns /\ Kept(x, T(i - 1))
    BY <1>5, <1>7
  <2>2. /\ action[N + 1 - i] \in Outputs /\ action[N + 1 - i] \in M /\ T(i - 1) \subseteq M
        /\ action[N + 1 - i] \notin T(i - 1)
    BY <1>1, <1>2, <1>18
  <2>3. /\ release(x, action[N + 1 - i]) \in EngineRuns
        /\ Kept(release(x, action[N + 1 - i]), T(i - 1) \cup {action[N + 1 - i]})
    BY <1>3, <2>1, <2>2
  <2> DEFINE y == release(x, action[N + 1 - i])
  <2>4. y \in EngineRuns /\ Kept(y, T(i))
    <3>1. T(i) = T(i - 1) \cup {action[N + 1 - i]}
      BY <1>2
    <3> QED
      BY <2>3, <3>1
  <2> HIDE DEF y, Reached, move
  <2>5. y \in Reached[i]
    BY <1>5, <1>7, <2>4
  <2> QED
    BY <2>5 DEF y
<1>9. \A i \in 1 .. N : \A x \in Reached[i - 1] : move[<<i, x>>] = release(x, action[N + 1 - i])
  BY <1>5, <1>7
<1> HIDE DEF Reached, move
<1>10. PICK f : /\ f = [i \in 0 .. N |-> f[i]] /\ f[0] = r
                /\ \A i \in 1 .. N : f[i] = move[<<i, f[i - 1]>>]
                /\ \A i \in 0 .. N : f[i] \in Reached[i]
  <2>1. LeadsOn(N, Reached, move)
    BY <1>8, <1>9 DEF LeadsOn
  <2>2. N \in Nat
    BY <1>1
  <2>3. \E f : StaysIn(N, Reached, r, move, f)
    BY ONLY <1>6, <2>1, <2>2, RecursionKeeps
  <2> QED
    BY <2>3 DEF StaysIn
<1>11. ReleaseRun(r, action, f)
  <2>1. \A i \in 0 .. N : f[i] = IF i = 0 THEN r ELSE release(f[i - 1], action[N + 1 - i])
    <3>1. \A i \in 0 .. N : i # 0 => i \in 1 .. N
      BY <1>1
    <3> QED
      BY <1>7, <1>9, <1>10, <3>1
  <2>2. f = [i \in 0 .. N |-> IF i = 0 THEN r ELSE release(f[i - 1], action[N + 1 - i])]
    BY <1>10, <2>1
  <2> QED
    BY <2>2 DEF ReleaseRun, N
<1> DEFINE g == CHOOSE h : ReleaseRun(r, action, h)
<1>12. ReleaseRun(r, action, g)
  BY <1>11
<1>13. q = g[N]
  BY DEF release_action, ReleaseRun, N
<1> HIDE DEF g
<1>14. g[0] = r /\ \A i \in 1 .. N : g[i] = release(g[i - 1], action[N + 1 - i])
  <2>1. g = [n \in 0 .. N |-> IF n = 0 THEN r ELSE release(g[n - 1], action[N + 1 - n])]
    BY <1>12 DEF ReleaseRun, N
  <2>2. 0 \in 0 .. N /\ \A i \in 1 .. N : i \in 0 .. N /\ i # 0
    BY <1>1
  <2> QED
    BY <2>1, <2>2
<1>15. \A i \in 1 .. N : g[i - 1] \in Reached[i - 1] => g[i] \in Reached[i]
  BY <1>8, <1>14
<1>16. g[N] \in Reached[N]
  BY <1>1, <1>6, <1>14, <1>15, StepsKeep
<1>17. q \in EngineRuns /\ Kept(q, T(N))
  BY <1>1, <1>5, <1>13, <1>16
<1> QED
  BY <1>1, <1>17 DEF Kept, M
-----------------------------------------------------------------------------
(* Owners: what is owed for the actions that buttons and regions hold.     *)

LEMMA ElementsAreFinite ==
  ASSUME NEW M, NEW s \in Seq(M) PROVE IsFiniteSet(ToSet(s))
<1>1. Len(s) \in Nat /\ DOMAIN s = 1 .. Len(s)
  BY LenProperties
<1>2. IsFiniteSet(1 .. Len(s))
  BY <1>1, FS_Interval
<1> DEFINE f == [i \in 1 .. Len(s) |-> s[i]]
<1>3. f \in Surjection(1 .. Len(s), ToSet(s))
  BY <1>1 DEF Surjection, ToSet
<1> HIDE DEF f
<1> QED
  BY <1>2, <1>3, FS_Surjection

LEMMA TriplesAreFinite ==
  ASSUME NEW A, NEW B, NEW C, IsFiniteSet(A), IsFiniteSet(B), IsFiniteSet(C)
  PROVE  IsFiniteSet(A \X B \X C)
<1> DEFINE S == (A \X B) \X C
           T == A \X B \X C
           f == [p \in S |-> <<p[1][1], p[1][2], p[2]>>]
<1>1. IsFiniteSet(S)
  BY FS_Product
<1>2. f \in [S -> T]
  OBVIOUS
<1>3. ASSUME NEW t \in T PROVE \E p \in S : f[p] = t
  <2>1. t[1] \in A /\ t[2] \in B /\ t[3] \in C /\ t = <<t[1], t[2], t[3]>>
    OBVIOUS
  <2> DEFINE p == <<<<t[1], t[2]>>, t[3]>>
  <2>2. p \in S /\ f[p] = t
    BY <2>1
  <2> QED
    BY <2>2
<1> HIDE DEF f, S, T
<1>4. f \in Surjection(S, T)
  BY <1>2, <1>3 DEF Surjection
<1>5. IsFiniteSet(T)
  BY <1>1, <1>4, FS_Surjection
<1> QED
  BY <1>5 DEF T

LEMMA OwnersAreFinite == IsFiniteSet(Owners)
<1>1. IsFiniteSet(ControlSet) /\ IsFiniteSet(SideSet)
  <2>1. Controls \in Seq(ControlSet) /\ Sides \in Seq(SideSet)
    BY BindingsAssumption
  <2> QED
    BY <2>1, ElementsAreFinite DEF ControlSet, SideSet
<1>2. IsFiniteSet({"control"}) /\ IsFiniteSet({"pad"}) /\ IsFiniteSet({"click"})
  BY FS_Singleton
<1>3. IsFiniteSet({"click"} \cup {"touch"})
  BY <1>2, FS_AddElement
<1>4. Triggers = {"click"} \cup {"touch"}
  BY DEF Triggers
<1> DEFINE C == {"control"} \X ControlSet \X {"click"}
           P == {"pad"} \X SideSet \X Triggers
<1>5. IsFiniteSet(C)
  BY <1>1, <1>2, TriplesAreFinite
<1>6. IsFiniteSet(P)
  <2>1. IsFiniteSet(Triggers)
    BY <1>3, <1>4
  <2> HIDE DEF Triggers
  <2> QED
    BY <1>1, <1>2, <2>1, TriplesAreFinite
<1> HIDE DEF C, P
<1>7. IsFiniteSet(C \cup P)
  BY <1>5, <1>6, FS_Union
<1> QED
  BY <1>7 DEF Owners, C, P

OwedIn(e) == [o \in Outputs |-> Owed(e, o)]
OwnersOf(e, o) == {owner \in Owners : Owes(e, owner, o)}

LEMMA OwedFacts ==
  ASSUME NEW e
  PROVE  /\ OwedIn(e) \in Tallies
         /\ \A o \in Outputs : IsFiniteSet(OwnersOf(e, o)) /\ Owed(e, o) = Cardinality(OwnersOf(e, o))
                               /\ Owed(e, o) \in Nat
<1>1. ASSUME NEW o \in Outputs
      PROVE  /\ IsFiniteSet(OwnersOf(e, o)) /\ Owed(e, o) = Cardinality(OwnersOf(e, o))
             /\ Owed(e, o) \in Nat
  <2>1. OwnersOf(e, o) \in SUBSET Owners
    BY DEF OwnersOf
  <2>2. IsFiniteSet(OwnersOf(e, o))
    BY <2>1, OwnersAreFinite, FS_Subset
  <2>3. Cardinality(OwnersOf(e, o)) \in Nat
    BY <2>2, FS_CardinalityType
  <2>4. Owed(e, o) = Cardinality(OwnersOf(e, o))
    BY DEF Owed, OwnersOf
  <2> QED
    BY <2>2, <2>3, <2>4
<1> QED
  BY <1>1 DEF OwedIn, Tallies

\* Engines whose owners hold the same owe the same.
LEMMA SameOwed ==
  ASSUME NEW d, NEW e, \A owner \in Owners : ActionOf(e, owner) = ActionOf(d, owner)
  PROVE  OwedIn(e) = OwedIn(d)
<1>1. \A owner \in Owners, o \in Outputs : Owes(e, owner, o) <=> Owes(d, owner, o)
  BY DEF Owes
<1>2. \A o \in Outputs : OwnersOf(e, o) = OwnersOf(d, o)
  BY <1>1 DEF OwnersOf
<1>3. \A o \in Outputs : Owed(e, o) = Owed(d, o)
  BY <1>2, OwedFacts
<1> QED
  BY <1>3 DEF OwedIn

LEMMA SameActions ==
  ASSUME NEW d, NEW e, e.active = d.active, e.latches = d.latches
  PROVE  OwedIn(e) = OwedIn(d)
<1>1. \A owner \in Owners : ActionOf(e, owner) = ActionOf(d, owner)
  BY DEF ActionOf
<1> QED
  BY <1>1, SameOwed

Elsewhere(d, e, owner) == \A w \in Owners : w # owner => ActionOf(e, w) = ActionOf(d, w)

\* An owner that takes up an action owes each of its outputs once more.
LEMMA OwnerTakes ==
  ASSUME NEW d, NEW e, NEW owner \in Owners, NEW action \in Chords, action # NoAction,
         ActionOf(d, owner) = NoAction, ActionOf(e, owner) = action, Elsewhere(d, e, owner)
  PROVE  /\ OwedIn(e) = More(OwedIn(d), ToSet(action))
         /\ OwedIn(d) = Less(OwedIn(e), ToSet(action))
         /\ AllCounted(OwedIn(e), ToSet(action))
<1> DEFINE T == ToSet(action)
<1>1. \A o \in Outputs : owner \notin OwnersOf(d, o) /\ (owner \in OwnersOf(e, o) <=> o \in T)
  BY DEF OwnersOf, Owes
<1>2. \A o \in Outputs, w \in Owners : w # owner => (w \in OwnersOf(e, o) <=> w \in OwnersOf(d, o))
  BY DEF OwnersOf, Owes, Elsewhere
<1>3. \A o \in Outputs : OwnersOf(e, o) \subseteq Owners /\ OwnersOf(d, o) \subseteq Owners
  BY DEF OwnersOf
<1> HIDE DEF T
<1>4. ASSUME NEW o \in Outputs
      PROVE  Owed(e, o) = (IF o \in T THEN Owed(d, o) + 1 ELSE Owed(d, o)) /\ Owed(d, o) \in Nat
  <2>1. /\ IsFiniteSet(OwnersOf(d, o)) /\ Owed(d, o) = Cardinality(OwnersOf(d, o))
        /\ Owed(e, o) = Cardinality(OwnersOf(e, o)) /\ Owed(d, o) \in Nat
    BY OwedFacts
  <2>2. CASE o \in T
    <3>1. OwnersOf(e, o) = OwnersOf(d, o) \cup {owner}
      BY <1>1, <1>2, <1>3, <2>2
    <3>2. Cardinality(OwnersOf(d, o) \cup {owner}) = Cardinality(OwnersOf(d, o)) + 1
      BY <1>1, <2>1, FS_AddElement
    <3> QED
      BY <2>1, <2>2, <3>1, <3>2
  <2>3. CASE o \notin T
    <3>1. OwnersOf(e, o) = OwnersOf(d, o)
      BY <1>1, <1>2, <1>3, <2>3
    <3> QED
      BY <2>1, <2>3, <3>1
  <2> QED
    BY <2>2, <2>3
<1>5. \A o \in Outputs : OwedIn(e)[o] = Owed(e, o) /\ OwedIn(d)[o] = Owed(d, o)
  BY DEF OwedIn
<1>6. OwedIn(e) = More(OwedIn(d), T)
  BY <1>4, <1>5 DEF OwedIn, More
<1>7. OwedIn(d) = Less(OwedIn(e), T)
  <2>1. \A o \in Outputs : Owed(d, o) = IF o \in T THEN Owed(e, o) - 1 ELSE Owed(e, o)
    BY <1>4
  <2> QED
    BY <1>5, <2>1 DEF OwedIn, Less
<1>8. AllCounted(OwedIn(e), T)
  BY <1>4, <1>5 DEF AllCounted
<1> QED
  BY <1>6, <1>7, <1>8 DEF T

\* What the sink has in its books is what the owners hold.
Booked(r) == Fine(r, OwedIn(r.e))
SameSink(r, q) ==
  /\ q.e.counts = r.e.counts /\ q.down = r.down /\ q.stuck = r.stuck /\ q.failed = r.failed

LEMMA SameSinkIsFine ==
  ASSUME NEW r, NEW q, SameSink(r, q), NEW n, Fine(r, n) PROVE Fine(q, n)
BY DEF SameSink, Fine, IsCounted, IsKnown

\* An owner lets go of its action, and it is released.
LEMMA GivenUp ==
  ASSUME NEW r \in EngineRuns, Booked(r), NEW owner \in Owners, NEW action \in Chords,
         action # NoAction, ActionOf(r.e, owner) = action,
         NEW s \in EngineRuns, SameSink(r, s), ActionOf(s.e, owner) = NoAction,
         Elsewhere(s.e, r.e, owner), NEW q, q = release_action(s, action)
  PROVE  q \in EngineRuns /\ AtSink(s, q) /\ Booked(q)
<1>1. /\ q \in EngineRuns /\ AtSink(s, q)
      /\ \A n \in Tallies : AllCounted(n, ToSet(action)) /\ Fine(s, n) => Fine(q, Less(n, ToSet(action)))
  BY ReleaseActionKeeps
<1>2. OwedIn(s.e) = Less(OwedIn(r.e), ToSet(action)) /\ AllCounted(OwedIn(r.e), ToSet(action))
  BY OwnerTakes
<1>3. Fine(s, OwedIn(r.e))
  BY SameSinkIsFine DEF Booked
<1>4. OwedIn(r.e) \in Tallies
  BY OwedFacts
<1>5. OwedIn(q.e) = OwedIn(s.e)
  BY <1>1, SameActions DEF AtSink
<1>6. Fine(q, Less(OwedIn(r.e), ToSet(action)))
  BY <1>1, <1>2, <1>3, <1>4
<1> QED
  BY <1>1, <1>2, <1>5, <1>6 DEF Booked

\* An action is pressed, and if that worked its owner holds it.
LEMMA TakenUp ==
  ASSUME NEW r \in EngineRuns, Booked(r), NEW owner \in Owners, NEW action \in Chords,
         action # NoAction, ActionOf(r.e, owner) = NoAction,
         NEW s, s = press_action(r, action)
  PROVE  /\ s \in EngineRuns /\ AtSink(r, s) /\ (s.failed => Booked(s))
         /\ \A q : /\ SameSink(s, q) /\ ActionOf(q.e, owner) = action /\ Elsewhere(s.e, q.e, owner)
                   => Booked(q)
<1>1. /\ s \in EngineRuns /\ AtSink(r, s)
      /\ \A n \in Tallies : Fine(r, n) => Fine(s, More(n, ToSet(action)))
  BY PressActionKeeps
<1>2. OwedIn(r.e) \in Tallies
  BY OwedFacts
<1>3. Fine(s, More(OwedIn(r.e), ToSet(action)))
  BY <1>1, <1>2 DEF Booked
<1>4. OwedIn(s.e) = OwedIn(r.e) /\ ActionOf(s.e, owner) = NoAction
  BY <1>1, SameActions DEF AtSink, ActionOf
<1>5. s.failed => Booked(s)
  BY <1>3 DEF Booked, Fine
<1>6. ASSUME NEW q, SameSink(s, q), ActionOf(q.e, owner) = action, Elsewhere(s.e, q.e, owner)
      PROVE  Booked(q)
  <2>1. OwedIn(q.e) = More(OwedIn(s.e), ToSet(action))
    BY <1>4, <1>6, OwnerTakes
  <2>2. Fine(q, More(OwedIn(r.e), ToSet(action)))
    BY <1>3, <1>6, SameSinkIsFine
  <2> QED
    BY <1>4, <2>1, <2>2 DEF Booked
<1> QED
  BY <1>1, <1>5, <1>6
-----------------------------------------------------------------------------
(* Buttons and regions, one at a time.                                     *)

ControlOwner(c) == <<"control", c, "click">>
PadOwner(side, trigger) == <<"pad", side, trigger>>

LEMMA OwnerFacts ==
  /\ \A c \in ControlSet : ControlOwner(c) \in Owners
  /\ \A c \in ControlSet : \A e : ActionOf(e, ControlOwner(c)) = e.active[c]
  /\ \A s \in SideSet, t \in Triggers : PadOwner(s, t) \in Owners
  /\ \A s \in SideSet, t \in Triggers : \A e : ActionOf(e, PadOwner(s, t)) = e.latches[s][t]
BY DEF Owners, ActionOf, ControlOwner, PadOwner

\* An owner is a button, or a trigger of a pad.
LEMMA OwnerCases ==
  ASSUME NEW w \in Owners
  PROVE  (\E c \in ControlSet : w = ControlOwner(c)) \/ (\E s \in SideSet, t \in Triggers : w = PadOwner(s, t))
BY DEF Owners, ControlOwner, PadOwner

WithActive(r, c, action) == [r EXCEPT !.e.active[c] = action]

\* All but what the buttons hold, and all but what the regions hold.
ActiveOnly(r, q) ==
  /\ q.e.profile = r.e.profile /\ q.e.previous = r.e.previous /\ q.e.blocked = r.e.blocked
  /\ q.e.pads = r.e.pads /\ q.e.latches = r.e.latches /\ q.dead = r.dead
LatchesOnly(r, q) ==
  /\ q.e.profile = r.e.profile /\ q.e.previous = r.e.previous /\ q.e.blocked = r.e.blocked
  /\ q.e.pads = r.e.pads /\ q.e.active = r.e.active /\ q.dead = r.dead

LEMMA ActiveSet ==
  ASSUME NEW r \in EngineRuns, NEW c \in ControlSet, NEW a \in Latched, NEW q, q = WithActive(r, c, a)
  PROVE  /\ q \in EngineRuns /\ SameSink(r, q) /\ ActiveOnly(r, q)
         /\ q.e.active = [r.e.active EXCEPT ![c] = a]
         /\ Elsewhere(r.e, q.e, ControlOwner(c)) /\ Elsewhere(q.e, r.e, ControlOwner(c))
         /\ ActionOf(q.e, ControlOwner(c)) = a
<1> DEFINE e == [r.e EXCEPT !.active[c] = a]
<1>1. e \in Engines
  BY RunFacts DEF Engines
<1>2. /\ e.profile = r.e.profile /\ e.previous = r.e.previous /\ e.blocked = r.e.blocked
      /\ e.active = [r.e.active EXCEPT ![c] = a] /\ e.pads = r.e.pads /\ e.latches = r.e.latches
      /\ e.counts = r.e.counts
  BY RunFacts DEF Engines
<1>3. q = [r EXCEPT !.e = e]
  BY DEF EngineRuns, WithActive
<1> HIDE DEF e
<1>4. q \in EngineRuns
  BY <1>1, <1>3 DEF EngineRuns
<1>5. /\ q.e = e /\ q.down = r.down /\ q.stuck = r.stuck /\ q.failed = r.failed /\ q.dead = r.dead
  BY <1>1, <1>3 DEF EngineRuns
<1>6. r.e.active \in [ControlSet -> Latched]
  BY RunFacts
<1>7. ASSUME NEW w \in Owners, w # ControlOwner(c) PROVE ActionOf(e, w) = ActionOf(r.e, w)
  <2>1. CASE \E d \in ControlSet : w = ControlOwner(d)
    <3>1. PICK d \in ControlSet : w = ControlOwner(d)
      BY <2>1
    <3>2. d # c
      BY <1>7, <3>1
    <3>3. e.active[d] = r.e.active[d]
      BY <1>2, <1>6, <3>2
    <3> QED
      BY <3>1, <3>3, OwnerFacts
  <2>2. CASE \E s \in SideSet, t \in Triggers : w = PadOwner(s, t)
    <3>1. PICK s \in SideSet, t \in Triggers : w = PadOwner(s, t)
      BY <2>2
    <3> QED
      BY <1>2, <3>1, OwnerFacts
  <2> QED
    BY <2>1, <2>2, OwnerCases
<1>8. ActionOf(e, ControlOwner(c)) = a
  BY <1>2, <1>6, OwnerFacts
<1> QED
  BY <1>2, <1>4, <1>5, <1>7, <1>8 DEF SameSink, ActiveOnly, Elsewhere

LEMMA LatchSet ==
  ASSUME NEW r \in EngineRuns, NEW side \in SideSet, NEW t \in Triggers, NEW a \in Latched,
         NEW q, q = WithLatch(r, side, t, a)
  PROVE  /\ q \in EngineRuns /\ SameSink(r, q) /\ LatchesOnly(r, q)
         /\ q.e.latches = [r.e.latches EXCEPT ![side] = [r.e.latches[side] EXCEPT ![t] = a]]
         /\ Elsewhere(r.e, q.e, PadOwner(side, t)) /\ Elsewhere(q.e, r.e, PadOwner(side, t))
         /\ ActionOf(q.e, PadOwner(side, t)) = a
<1> DEFINE latch == [r.e.latches[side] EXCEPT ![t] = a]
           latches == [r.e.latches EXCEPT ![side] = latch]
           e == [r.e EXCEPT !.latches = latches]
<1>1. r.e.latches \in [SideSet -> [Triggers -> Latched]]
  BY RunFacts
<1>2. latch \in [Triggers -> Latched] /\ latch[t] = a /\ \A u \in Triggers : u # t => latch[u] = r.e.latches[side][u]
  BY <1>1
<1> HIDE DEF latch
<1>3. /\ latches \in [SideSet -> [Triggers -> Latched]] /\ latches[side] = latch
      /\ \A s \in SideSet : s # side => latches[s] = r.e.latches[s]
  BY <1>1, <1>2
<1>9. latches = [r.e.latches EXCEPT ![side] = [r.e.latches[side] EXCEPT ![t] = a]]
  BY DEF latch
<1> HIDE DEF latches
<1>4. e \in Engines
  BY <1>3, RunFacts DEF Engines
<1>5. /\ e.profile = r.e.profile /\ e.previous = r.e.previous /\ e.blocked = r.e.blocked
      /\ e.active = r.e.active /\ e.pads = r.e.pads /\ e.latches = latches
      /\ e.counts = r.e.counts
  BY RunFacts DEF Engines
<1>6. q = [r EXCEPT !.e = e]
  BY <1>9 DEF EngineRuns, WithLatch
<1> HIDE DEF e
<1>7. q \in EngineRuns
  BY <1>4, <1>6 DEF EngineRuns
<1>8. /\ q.e = e /\ q.down = r.down /\ q.stuck = r.stuck /\ q.failed = r.failed /\ q.dead = r.dead
  BY <1>4, <1>6 DEF EngineRuns
<1>10. ASSUME NEW w \in Owners, w # PadOwner(side, t) PROVE ActionOf(e, w) = ActionOf(r.e, w)
  <2>1. CASE \E c \in ControlSet : w = ControlOwner(c)
    <3>1. PICK c \in ControlSet : w = ControlOwner(c)
      BY <2>1
    <3> QED
      BY <1>5, <3>1, OwnerFacts
  <2>2. CASE \E s \in SideSet, u \in Triggers : w = PadOwner(s, u)
    <3>1. PICK s \in SideSet, u \in Triggers : w = PadOwner(s, u)
      BY <2>2
    <3>2. s # side \/ u # t
      BY <1>10, <3>1
    <3>3. latches[s][u] = r.e.latches[s][u]
      BY <1>2, <1>3, <3>2
    <3> QED
      BY <1>5, <3>1, <3>3, OwnerFacts
  <2> QED
    BY <2>1, <2>2, OwnerCases
<1>11. ActionOf(e, PadOwner(side, t)) = a
  BY <1>2, <1>3, <1>5, OwnerFacts
<1> QED
  BY <1>5, <1>7, <1>8, <1>9, <1>10, <1>11 DEF SameSink, LatchesOnly, Elsewhere

LEMMA LetGoKeeps ==
  ASSUME NEW r \in EngineRuns, Booked(r), NEW c \in ControlSet, NEW mask, NEW q, q = LetGo(r, c, mask)
  PROVE  /\ q \in EngineRuns /\ Booked(q) /\ ActiveOnly(r, q) /\ (r.failed => q = r)
         /\ ~r.failed => /\ \A d \in ControlSet : d # c => q.e.active[d] = r.e.active[d]
                         /\ IF c \notin mask /\ c \in r.e.previous THEN q.e.active[c] = NoAction
                            ELSE q.e.active[c] = r.e.active[c]
<1> DEFINE a == r.e.active[c]
           s == WithActive(r, c, NoAction)
<1>1. CASE r.failed \/ c \in mask \/ c \notin r.e.previous \/ r.e.active[c] = NoAction
  <2>1. q = r
    BY <1>1 DEF LetGo
  <2> QED
    BY <1>1, <2>1 DEF ActiveOnly
<1>2. CASE ~(r.failed \/ c \in mask \/ c \notin r.e.previous \/ r.e.active[c] = NoAction)
  <2>1. q = release_action(s, a)
    BY <1>2 DEF LetGo, WithActive
  <2>2. a \in Chords /\ a # NoAction /\ r.e.active \in [ControlSet -> Latched]
    BY <1>2, RunFacts DEF Latched
  <2>3. NoAction \in Latched
    BY DEF Latched
  <2>4. /\ s \in EngineRuns /\ SameSink(r, s) /\ ActiveOnly(r, s)
        /\ s.e.active = [r.e.active EXCEPT ![c] = NoAction]
        /\ Elsewhere(s.e, r.e, ControlOwner(c)) /\ ActionOf(s.e, ControlOwner(c)) = NoAction
    BY <2>3, ActiveSet
  <2>5. ControlOwner(c) \in Owners /\ ActionOf(r.e, ControlOwner(c)) = a
    BY OwnerFacts
  <2> HIDE DEF a, s
  <2>6. q \in EngineRuns /\ AtSink(s, q) /\ Booked(q)
    BY <2>1, <2>2, <2>4, <2>5, GivenUp
  <2>7. ActiveOnly(r, q) /\ q.e.active = [r.e.active EXCEPT ![c] = NoAction]
    BY <2>4, <2>6 DEF ActiveOnly, AtSink
  <2> QED
    BY <1>2, <2>2, <2>6, <2>7
<1> QED
  BY <1>1, <1>2

LEMMA HoldDownKeeps ==
  ASSUME NEW r \in EngineRuns, Booked(r), NEW c \in ControlSet, NEW mask, NEW q, q = HoldDown(r, c, mask),
         ~r.failed /\ c \in mask \ (r.e.previous \cup r.e.blocked) => r.e.active[c] = NoAction
  PROVE  /\ q \in EngineRuns /\ Booked(q) /\ ActiveOnly(r, q) /\ (r.failed => q = r)
         /\ ~q.failed => /\ \A d \in ControlSet : d # c => q.e.active[d] = r.e.active[d]
                         /\ \/ q.e.active[c] = r.e.active[c]
                            \/ /\ c \in mask \ (r.e.previous \cup r.e.blocked)
                               /\ q.e.active[c] = r.e.profile.bindings[c]
<1> DEFINE a == r.e.profile.bindings[c]
           s == press_action(r, a)
<1>1. CASE r.failed \/ c \notin mask \ (r.e.previous \cup r.e.blocked) \/ a = NoAction
  <2>1. q = r
    BY <1>1 DEF HoldDown
  <2> QED
    BY <1>1, <2>1 DEF ActiveOnly
<1>2. CASE ~(r.failed \/ c \notin mask \ (r.e.previous \cup r.e.blocked) \/ a = NoAction)
  <2>1. q = IF s.failed THEN s ELSE WithActive(s, c, a)
    BY <1>2 DEF HoldDown, WithActive
  <2>2. IsAction(a)
    <3>1. r.e.profile \in Layouts
      BY RunFacts
    <3> QED
      BY <3>1, BindingsAssumption
  <2>3. a \in Chords /\ a # NoAction /\ a \in Latched
    BY <1>2, <2>2 DEF IsAction, Chords, Latched
  <2>4. ControlOwner(c) \in Owners /\ ActionOf(r.e, ControlOwner(c)) = NoAction
    BY <1>2, OwnerFacts
  <2> HIDE DEF a
  <2>5. /\ s \in EngineRuns /\ AtSink(r, s) /\ (s.failed => Booked(s))
        /\ \A p : /\ SameSink(s, p) /\ ActionOf(p.e, ControlOwner(c)) = a /\ Elsewhere(s.e, p.e, ControlOwner(c))
                  => Booked(p)
    BY <2>3, <2>4, TakenUp
  <2> HIDE DEF s
  <2>6. CASE s.failed
    BY <1>2, <2>1, <2>5, <2>6 DEF ActiveOnly, AtSink
  <2>7. CASE ~s.failed
    <3>1. q = WithActive(s, c, a)
      BY <2>1, <2>7
    <3>2. /\ q \in EngineRuns /\ SameSink(s, q) /\ ActiveOnly(s, q)
          /\ q.e.active = [s.e.active EXCEPT ![c] = a]
          /\ Elsewhere(s.e, q.e, ControlOwner(c)) /\ ActionOf(q.e, ControlOwner(c)) = a
      BY <2>3, <2>5, <3>1, ActiveSet
    <3>3. Booked(q)
      BY <2>5, <3>2
    <3>4. ActiveOnly(r, q) /\ q.e.active = [r.e.active EXCEPT ![c] = a]
      BY <2>5, <3>2 DEF ActiveOnly, AtSink
    <3>5. r.e.active \in [ControlSet -> Latched]
      BY RunFacts
    <3>6. q.e.active[c] = a /\ \A d \in ControlSet : d # c => q.e.active[d] = r.e.active[d]
      BY <3>4, <3>5
    <3> QED
      BY <1>2, <3>2, <3>3, <3>4, <3>6 DEF a
  <2> QED
    BY <2>6, <2>7
<1> QED
  BY <1>1, <1>2
\* A trigger lets go of its action and holds the one it is told of.
Dispatched(r, side, t, latch, q) ==
  /\ q \in EngineRuns /\ Booked(q) /\ LatchesOnly(r, q) /\ (r.failed => q = r)
  /\ ~q.failed => q.e.latches[side][t] = Told(latch, r.e.latches[side][t])
  /\ \A s \in SideSet, u \in Triggers :
       s # side \/ u # t => q.e.latches[s][u] = r.e.latches[s][u]

LEMMA DispatchKeeps ==
  ASSUME NEW r \in EngineRuns, Booked(r), NEW side \in SideSet, NEW t \in Triggers,
         NEW latch \in Latched \cup {Keep}, NEW q, q = Dispatch(r, side, t, latch)
  PROVE  Dispatched(r, side, t, latch, q)
<1> USE DEF Dispatched
<1> DEFINE before == r.e.latches[side][t]
           Others(p) == \A s \in SideSet, u \in Triggers :
                          s # side \/ u # t => p.e.latches[s][u] = r.e.latches[s][u]
<1>0. q = Dispatch(r, side, t, latch)
  OBVIOUS
<1>1. before \in Latched /\ r.e.latches \in [SideSet -> [Triggers -> Latched]]
  BY RunFacts
<1>2. CASE r.failed \/ latch = Keep \/ (latch # NoAction /\ latch = before)
  <2>1. q = r
    BY ONLY <1>0, <1>2 DEF Dispatch, before
  <2>2. ~r.failed => Told(latch, before) = before
    BY <1>2 DEF Told
  <2> QED
    BY <2>1, <2>2 DEF LatchesOnly
<1>3. CASE ~(r.failed \/ latch = Keep \/ (latch # NoAction /\ latch = before))
  <2> DEFINE w == PadOwner(side, t)
             r1 == WithLatch(r, side, t, NoAction)
             r2 == IF before = NoAction THEN r1 ELSE release_action(r1, before)
             r3 == IF latch = NoAction THEN r2 ELSE press_action(r2, latch)
  <2>1. q = IF r3.failed \/ latch = NoAction THEN r3 ELSE WithLatch(r3, side, t, latch)
    BY ONLY <1>0, <1>3 DEF Dispatch, r1, r2, r3, before
  <2>2. NoAction \in Latched /\ latch \in Latched /\ Told(latch, before) = latch
    BY <1>3 DEF Latched, Told
  <2>3. w \in Owners /\ ActionOf(r.e, w) = before
    BY OwnerFacts
  <2>4. before # NoAction => before \in Chords
    BY <1>1 DEF Latched
  <2> HIDE DEF before
  <2>5. /\ r1 \in EngineRuns /\ SameSink(r, r1) /\ LatchesOnly(r, r1)
        /\ r1.e.latches = [r.e.latches EXCEPT ![side] = [r.e.latches[side] EXCEPT ![t] = NoAction]]
        /\ Elsewhere(r.e, r1.e, w) /\ Elsewhere(r1.e, r.e, w) /\ ActionOf(r1.e, w) = NoAction
    BY <2>2, LatchSet
  <2> HIDE DEF r1, w
  <2>6. r2 \in EngineRuns /\ AtSink(r1, r2) /\ Booked(r2)
    <3>1. CASE before = NoAction
      <4>1. \A o \in Owners : ActionOf(r1.e, o) = ActionOf(r.e, o)
        BY <2>3, <2>5, <3>1 DEF Elsewhere
      <4>2. OwedIn(r1.e) = OwedIn(r.e)
        BY <4>1, SameOwed
      <4>3. Booked(r1)
        BY <2>5, <4>2, SameSinkIsFine DEF Booked
      <4>4. AtSink(r1, r1)
        BY DEF AtSink
      <4> QED
        BY <2>5, <3>1, <4>3, <4>4
    <3>2. CASE before # NoAction
      <4>1. r2 = release_action(r1, before)
        BY <3>2
      <4>2. before \in Chords
        BY <2>4, <3>2
      <4> HIDE DEF r2
      <4> QED
        BY <2>3, <2>5, <3>2, <4>1, <4>2, GivenUp
    <3> QED
      BY <3>1, <3>2
  <2> HIDE DEF r2
  <2>7. /\ LatchesOnly(r, r2) /\ ActionOf(r2.e, w) = NoAction /\ Others(r2)
        /\ r2.e.latches[side][t] = NoAction
    <3>1. \A s \in SideSet, u \in Triggers :
             r1.e.latches[s][u] = IF s # side \/ u # t THEN r.e.latches[s][u] ELSE NoAction
      BY <1>1, <2>5
    <3>2. Others(r1) /\ r1.e.latches[side][t] = NoAction
      BY <3>1
    <3> QED
      BY <2>5, <2>6, <3>2 DEF LatchesOnly, AtSink, ActionOf
  <2>8. CASE latch = NoAction
    <3>1. q = r2
      BY <2>1, <2>8
    <3> QED
      BY <1>3, <2>2, <2>6, <2>7, <2>8, <3>1 DEF before
  <2>9. CASE latch # NoAction
    <3>1. r3 = press_action(r2, latch)
      BY <2>9
    <3>2. latch \in Chords
      BY <2>2, <2>9 DEF Latched
    <3> HIDE DEF r3
    <3>3. /\ r3 \in EngineRuns /\ AtSink(r2, r3) /\ (r3.failed => Booked(r3))
          /\ \A p : /\ SameSink(r3, p) /\ ActionOf(p.e, w) = latch /\ Elsewhere(r3.e, p.e, w) => Booked(p)
      BY <2>3, <2>6, <2>7, <2>9, <3>1, <3>2, TakenUp
    <3>4. LatchesOnly(r, r3) /\ Others(r3)
      BY <2>7, <3>3 DEF LatchesOnly, AtSink
    <3>5. CASE r3.failed
      <4>1. q = r3
        BY <2>1, <3>5
      <4> QED
        BY <1>3, <3>3, <3>4, <3>5, <4>1
    <3>6. CASE ~r3.failed
      <4>1. q = WithLatch(r3, side, t, latch)
        BY <2>1, <2>9, <3>6
      <4>2. /\ q \in EngineRuns /\ SameSink(r3, q) /\ LatchesOnly(r3, q)
            /\ q.e.latches = [r3.e.latches EXCEPT ![side] = [r3.e.latches[side] EXCEPT ![t] = latch]]
            /\ Elsewhere(r3.e, q.e, w) /\ ActionOf(q.e, w) = latch
        BY <2>2, <3>3, <4>1, LatchSet DEF w
      <4>3. Booked(q)
        BY <3>3, <4>2
      <4>4. r3.e.latches \in [SideSet -> [Triggers -> Latched]]
        BY <3>3, RunFacts
      <4>5. \A s \in SideSet, u \in Triggers :
              q.e.latches[s][u] = IF s # side \/ u # t THEN r3.e.latches[s][u] ELSE latch
        BY <4>2, <4>4
      <4>6. Others(q) /\ q.e.latches[side][t] = latch
        BY <3>4, <4>5
      <4>7. LatchesOnly(r, q)
        BY <3>4, <4>2 DEF LatchesOnly
      <4> QED
        BY <1>3, <2>2, <4>2, <4>3, <4>6, <4>7 DEF before
    <3> QED
      BY <3>5, <3>6
  <2> QED
    BY <2>8, <2>9
<1> QED
  BY <1>2, <1>3
-----------------------------------------------------------------------------
(* The passes over the pads and over the controls.                         *)

Excused(s, early) == IF s \in early THEN "yes" ELSE "no"
PadsSafe(e, early) ==
  \A s \in SideSet : PadOwns(e.pads[s]) /\ PadFrozen(e.pads[s], e.profile.pads[s], Excused(s, early))
LatchesOwned(e) == \A s \in SideSet : PadLatched(e.pads[s], e.latches[s], e.profile.pads[s])
WithPad(r, side, p) == [r EXCEPT !.e.pads[side] = p]
SameButtons(r, q) ==
  /\ q.e.profile = r.e.profile /\ q.e.previous = r.e.previous /\ q.e.blocked = r.e.blocked
  /\ q.e.active = r.e.active /\ q.dead = r.dead

LEMMA PadSet ==
  ASSUME NEW r \in EngineRuns, NEW side \in SideSet, NEW p \in Pads, NEW q, q = WithPad(r, side, p)
  PROVE  /\ q \in EngineRuns /\ SameSink(r, q) /\ SameButtons(r, q) /\ q.e.latches = r.e.latches
         /\ q.e.pads[side] = p /\ \A s \in SideSet : s # side => q.e.pads[s] = r.e.pads[s]
<1> DEFINE pads == [r.e.pads EXCEPT ![side] = p]
           e == [r.e EXCEPT !.pads = pads]
<1>1. /\ pads \in [SideSet -> Pads] /\ pads[side] = p
      /\ \A s \in SideSet : s # side => pads[s] = r.e.pads[s]
  BY RunFacts
<1>2. e = [r.e EXCEPT !.pads[side] = p]
  OBVIOUS
<1> HIDE DEF pads
<1>3. e \in Engines
  BY <1>1, RunFacts DEF Engines
<1>4. /\ e.profile = r.e.profile /\ e.previous = r.e.previous /\ e.blocked = r.e.blocked
      /\ e.active = r.e.active /\ e.pads = pads /\ e.latches = r.e.latches
      /\ e.counts = r.e.counts
  BY RunFacts DEF Engines
<1>5. q = [r EXCEPT !.e = e]
  BY <1>2 DEF EngineRuns, WithPad
<1> HIDE DEF e
<1>6. q \in EngineRuns
  BY <1>3, <1>5 DEF EngineRuns
<1>7. /\ q.e = e /\ q.down = r.down /\ q.stuck = r.stuck /\ q.failed = r.failed /\ q.dead = r.dead
  BY <1>3, <1>5 DEF EngineRuns
<1> QED
  BY <1>1, <1>4, <1>6, <1>7 DEF SameSink, SameButtons

LEMMA CountedIsKnown ==
  ASSUME NEW r \in EngineRuns, NEW n \in Tallies, Fine(r, n) PROVE IsKnown(r)
<1>1. CASE r.failed
  BY <1>1 DEF Fine
<1>2. CASE ~r.failed
  <2> SUFFICES ASSUME NEW o \in r.down PROVE r.e.counts[o] # Missing \/ o \in r.stuck
    BY DEF IsKnown
  <2>1. o \in Outputs
    BY RunFacts
  <2>2. /\ r.e.counts[o] = (IF n[o] = 0 THEN Missing ELSE n[o]) /\ (n[o] > 0 \/ o \in r.stuck)
        /\ n[o] \in Nat
    BY <1>2, <2>1 DEF Fine, IsCounted, Tallies
  <2> QED
    BY <2>2 DEF Missing
<1> QED
  BY <1>1, <1>2

LEMMA CallIsOwing ==
  ASSUME NEW r \in EngineRuns, ~r.failed, Booked(r), NEW q, q = SinkCall(r) PROVE Booked(q)
<1>1. /\ q.e = r.e /\ q.down = r.down /\ q.stuck = r.stuck /\ (Works(r) => q.failed = r.failed)
      /\ (~Works(r) => q.failed)
  BY CallMade
<1>2. IsKnown(r)
  BY CountedIsKnown, OwedFacts DEF Booked
<1>3. CASE Works(r)
  BY <1>1, <1>3 DEF Booked, Fine, IsCounted
<1>4. CASE ~Works(r)
  BY <1>1, <1>2, <1>4 DEF Booked, Fine, IsKnown
<1> QED
  BY <1>3, <1>4

\* What holds of a run of process_pads after each pad.
SidesKept(r, early, x) ==
  /\ x \in EngineRuns /\ Booked(x) /\ SameButtons(r, x) /\ (r.failed => x = r)
  /\ PadsSafe(x.e, early) /\ (~x.failed => LatchesOwned(x.e))

LEMMA SideKeeps ==
  ASSUME NEW r, NEW early, NEW x, SidesKept(r, early, x), NEW side \in SideSet, NEW sample \in PadSamples,
         NEW q, q = Side(x, side, sample)
  PROVE  SidesKept(r, early, q)
<1>1. CASE x.failed
  <2>1. q = x
    BY <1>1 DEF Side
  <2> QED
    BY <2>1
<1>2. CASE ~x.failed
  <2> DEFINE p == x.e.pads[side]
             config == x.e.profile.pads[side]
             o == process_pad(p, sample, config)
             x1 == WithPad(x, side, o.pad)
             x2 == IF o.moves THEN SinkCall(x1) ELSE x1
             x3 == Dispatch(x2, side, "click", o.click)
  <2>1. q = Dispatch(x3, side, "touch", o.touch)
    BY <1>2 DEF Side, WithPad
  <2>2. /\ x \in EngineRuns /\ Booked(x) /\ SameButtons(r, x) /\ PadsSafe(x.e, early) /\ LatchesOwned(x.e)
        /\ ~r.failed
    BY <1>2 DEF SidesKept
  <2>3. p \in Pads /\ x.e.profile \in Layouts
    BY <2>2, RunFacts
  <2>4. IsConfig(config)
    BY <2>3, BindingsAssumption DEF IsConfig
  <2>5. PadOwns(p) /\ PadFrozen(p, config, Excused(side, early)) /\ PadLatched(p, x.e.latches[side], config)
    BY <2>2 DEF PadsSafe, LatchesOwned
  <2> HIDE DEF p, config
  <2>6. /\ o.pad \in Pads /\ PadOwns(o.pad) /\ PadFrozen(o.pad, config, Excused(side, early))
        /\ o.click \in Latched \cup {Keep} /\ o.touch \in Latched \cup {Keep}
        /\ \A l, m : /\ PadLatched(p, l, config)
                     /\ m["click"] = Told(o.click, l["click"]) /\ m["touch"] = Told(o.touch, l["touch"])
                     => PadLatched(o.pad, m, config)
    BY <2>3, <2>4, <2>5, PadStep
  <2> HIDE DEF o
  <2>7. /\ x1 \in EngineRuns /\ SameSink(x, x1) /\ SameButtons(x, x1) /\ x1.e.latches = x.e.latches
        /\ x1.e.pads[side] = o.pad /\ \A s \in SideSet : s # side => x1.e.pads[s] = x.e.pads[s]
    BY <2>2, <2>6, PadSet
  <2> HIDE DEF x1
  <2>8. Booked(x1) /\ ~x1.failed
    <3>1. OwedIn(x1.e) = OwedIn(x.e)
      BY <2>7, SameActions DEF SameButtons
    <3> QED
      BY <1>2, <2>2, <2>7, <3>1, SameSinkIsFine DEF Booked, SameSink
  <2>9. x2 \in EngineRuns /\ x2.e = x1.e /\ x2.dead = x1.dead /\ Booked(x2)
    BY <2>7, <2>8, CallMade, CallIsOwing
  <2> HIDE DEF x2
  <2>10. "click" \in Triggers /\ "touch" \in Triggers
    BY DEF Triggers
  <2>11. /\ x3 \in EngineRuns /\ Booked(x3) /\ LatchesOnly(x2, x3)
         /\ ~x3.failed => x3.e.latches[side]["click"] = Told(o.click, x2.e.latches[side]["click"])
         /\ \A s \in SideSet, u \in Triggers :
              s # side \/ u # "click" => x3.e.latches[s][u] = x2.e.latches[s][u]
    <3>1. x2 \in EngineRuns
      BY <2>9
    <3>2. Booked(x2)
      BY <2>9
    <3>3. o.click \in Latched \cup {Keep}
      BY <2>6
    <3>4. "click" \in Triggers
      BY <2>10
    <3>5. Dispatched(x2, side, "click", o.click, x3)
      BY <3>1, <3>2, <3>3, <3>4, DispatchKeeps
    <3> QED
      BY <3>5 DEF Dispatched
  <2> HIDE DEF x3
  <2>12. /\ q \in EngineRuns /\ Booked(q) /\ LatchesOnly(x3, q) /\ (x3.failed => q = x3)
         /\ ~q.failed => q.e.latches[side]["touch"] = Told(o.touch, x3.e.latches[side]["touch"])
         /\ \A s \in SideSet, u \in Triggers :
              s # side \/ u # "touch" => q.e.latches[s][u] = x3.e.latches[s][u]
    <3>1. x3 \in EngineRuns
      BY <2>11
    <3>2. Booked(x3)
      BY <2>11
    <3>3. o.touch \in Latched \cup {Keep}
      BY <2>6
    <3>4. "touch" \in Triggers
      BY <2>10
    <3>5. Dispatched(x3, side, "touch", o.touch, q)
      BY <2>1, <3>1, <3>2, <3>3, <3>4, DispatchKeeps
    <3> QED
      BY <3>5 DEF Dispatched
  <2>13. SameButtons(r, q) /\ q.e.pads = x1.e.pads /\ q.e.profile = x.e.profile
    BY <2>2, <2>7, <2>9, <2>11, <2>12 DEF SameButtons, LatchesOnly
  <2>14. PadsSafe(q.e, early)
    <3> SUFFICES ASSUME NEW s \in SideSet
                 PROVE  PadOwns(q.e.pads[s]) /\ PadFrozen(q.e.pads[s], q.e.profile.pads[s], Excused(s, early))
      BY DEF PadsSafe
    <3>1. CASE s = side
      BY <2>6, <2>7, <2>13, <3>1 DEF config
    <3>2. CASE s # side
      BY <2>2, <2>7, <2>13, <3>2 DEF PadsSafe
    <3> QED
      BY <3>1, <3>2
  <2>15. ASSUME ~q.failed PROVE LatchesOwned(q.e)
    <3> SUFFICES ASSUME NEW s \in SideSet
                 PROVE  PadLatched(q.e.pads[s], q.e.latches[s], q.e.profile.pads[s])
      BY DEF LatchesOwned
    <3>1. CASE s = side
      <4>1. /\ q.e.latches[side]["click"] = Told(o.click, x.e.latches[side]["click"])
            /\ q.e.latches[side]["touch"] = Told(o.touch, x.e.latches[side]["touch"])
        BY <2>7, <2>9, <2>10, <2>11, <2>12, <2>15
      <4>2. PadLatched(o.pad, q.e.latches[side], config)
        BY <2>5, <2>6, <4>1
      <4> QED
        BY <2>7, <2>13, <3>1, <4>2 DEF config
    <3>2. CASE s # side
      <4>1. /\ q.e.latches[s]["click"] = x.e.latches[s]["click"]
            /\ q.e.latches[s]["touch"] = x.e.latches[s]["touch"]
        BY <2>7, <2>9, <2>10, <2>11, <2>12, <3>2
      <4>2. q.e.pads[s] = x.e.pads[s]
        BY <2>7, <2>13, <3>2
      <4> QED
        BY <2>2, <2>13, <4>1, <4>2 DEF LatchesOwned, PadLatched
    <3> QED
      BY <3>1, <3>2
  <2> QED
    BY <2>2, <2>12, <2>13, <2>14, <2>15 DEF SidesKept
<1> QED
  BY <1>1, <1>2
SideRun(r, samples, f) ==
  f = [n \in 0 .. Len(Sides) |-> IF n = 0 THEN r ELSE Side(f[n - 1], Sides[n], samples[Sides[n]])]

\* process_pads: the pads stay safe, and their latches what their regions are bound to.
LEMMA ProcessPadsKeeps ==
  ASSUME NEW r, NEW early, SidesKept(r, early, r), NEW samples \in [SideSet -> PadSamples],
         NEW q, q = process_pads(r, samples)
  PROVE  SidesKept(r, early, q)
<1> DEFINE N == Len(Sides)
           X == {x \in EngineRuns : SidesKept(r, early, x)}
           Reached == [k \in 0 .. N |-> X]
           move == [p \in (1 .. N) \X X |-> Side(p[2], Sides[p[1]], samples[Sides[p[1]]])]
<1>1. N \in Nat /\ \A i \in 1 .. N : Sides[i] \in SideSet
  <2>1. Sides \in Seq(SideSet)
    BY BindingsAssumption
  <2> QED
    BY <2>1, LenProperties, ElementOfSeq
<1> HIDE DEF N
<1>2. \A x : x \in X <=> SidesKept(r, early, x)
  BY DEF SidesKept
<1>3. \A i \in 1 .. N : \A x \in X : Side(x, Sides[i], samples[Sides[i]]) \in X
  <2> TAKE i \in 1 .. N
  <2> TAKE x \in X
  <2>1. Sides[i] \in SideSet /\ samples[Sides[i]] \in PadSamples /\ SidesKept(r, early, x)
    BY <1>1, <1>2
  <2> HIDE DEF X
  <2>2. SidesKept(r, early, Side(x, Sides[i], samples[Sides[i]]))
    BY <2>1, SideKeeps
  <2> QED
    BY <1>2, <2>2
<1> HIDE DEF X
<1>4. \A k \in 0 .. N : Reached[k] = X
  OBVIOUS
<1>5. \A i \in 1 .. N : i \in 0 .. N /\ i - 1 \in 0 .. N
  BY <1>1
<1>6. \A i \in 1 .. N : \A x \in Reached[i - 1] :
        move[<<i, x>>] = Side(x, Sides[i], samples[Sides[i]]) /\ move[<<i, x>>] \in Reached[i]
  BY <1>3, <1>4, <1>5
<1>7. r \in Reached[0]
  BY <1>1, <1>2, <1>4
<1> HIDE DEF Reached, move
<1>8. PICK f : /\ f = [i \in 0 .. N |-> f[i]] /\ f[0] = r
               /\ \A i \in 1 .. N : f[i] = move[<<i, f[i - 1]>>]
               /\ \A i \in 0 .. N : f[i] \in Reached[i]
  <2>1. LeadsOn(N, Reached, move)
    BY <1>6 DEF LeadsOn
  <2>2. N \in Nat
    BY <1>1
  <2>3. \E f : StaysIn(N, Reached, r, move, f)
    BY ONLY <1>7, <2>1, <2>2, RecursionKeeps
  <2> QED
    BY <2>3 DEF StaysIn
<1>9. SideRun(r, samples, f)
  <2>1. \A i \in 0 .. N : f[i] = IF i = 0 THEN r ELSE Side(f[i - 1], Sides[i], samples[Sides[i]])
    <3>1. \A i \in 0 .. N : i # 0 => i \in 1 .. N
      BY <1>1
    <3> QED
      BY <1>5, <1>6, <1>8, <3>1
  <2>2. f = [i \in 0 .. N |-> IF i = 0 THEN r ELSE Side(f[i - 1], Sides[i], samples[Sides[i]])]
    BY <1>8, <2>1
  <2> QED
    BY <2>2 DEF SideRun, N
<1> DEFINE g == CHOOSE h : SideRun(r, samples, h)
<1>10. SideRun(r, samples, g)
  BY <1>9
<1>11. q = g[N]
  BY DEF process_pads, SideRun, N
<1> HIDE DEF g
<1>12. g[0] = r /\ \A i \in 1 .. N : g[i] = Side(g[i - 1], Sides[i], samples[Sides[i]])
  <2>1. g = [n \in 0 .. N |-> IF n = 0 THEN r ELSE Side(g[n - 1], Sides[n], samples[Sides[n]])]
    BY <1>10 DEF SideRun, N
  <2>2. 0 \in 0 .. N /\ \A i \in 1 .. N : i \in 0 .. N /\ i # 0
    BY <1>1
  <2> QED
    BY <2>1, <2>2
<1>13. \A i \in 1 .. N : g[i - 1] \in Reached[i - 1] => g[i] \in Reached[i]
  BY <1>6, <1>12
<1>14. g[N] \in Reached[N]
  BY <1>1, <1>7, <1>12, <1>13, StepsKeep
<1> QED
  BY <1>1, <1>2, <1>4, <1>11, <1>14

LetGoRun(r, mask, f) ==
  f = [n \in 0 .. Len(Controls) |-> IF n = 0 THEN r ELSE LetGo(f[n - 1], Controls[n], mask)]
HoldDownRun(r, mask, f) ==
  f = [n \in 0 .. Len(Controls) |-> IF n = 0 THEN r ELSE HoldDown(f[n - 1], Controls[n], mask)]

LEMMA ControlFacts ==
  /\ Len(Controls) \in Nat /\ \A i \in 1 .. Len(Controls) : Controls[i] \in ControlSet
  /\ \A i, j \in 1 .. Len(Controls) : Controls[i] = Controls[j] => i = j
  /\ \A c \in ControlSet : \E i \in 1 .. Len(Controls) : Controls[i] = c
<1>1. Controls \in Seq(ControlSet) /\ IsInjective(Controls)
  BY BindingsAssumption
<1>2. Len(Controls) \in Nat /\ DOMAIN Controls = 1 .. Len(Controls)
      /\ \A i \in 1 .. Len(Controls) : Controls[i] \in ControlSet
  BY <1>1, LenProperties, ElementOfSeq
<1>3. \A i, j \in 1 .. Len(Controls) : Controls[i] = Controls[j] => i = j
  BY <1>1, <1>2 DEF IsInjective
<1>4. \A c \in ControlSet : \E i \in 1 .. Len(Controls) : Controls[i] = c
  BY <1>2 DEF ControlSet, ToSet
<1> QED
  BY <1>2, <1>3, <1>4

\* The buttons hold what the profile binds them to, down in mask and not blocked.
HeldIn(e, mask) ==
  \A c \in ControlSet : e.active[c] # NoAction =>
    c \in mask \ e.blocked /\ e.active[c] = e.profile.bindings[c]

\* The first pass, up to the k-th control.
LettingGo(r, mask, k, x) ==
  /\ x \in EngineRuns /\ Booked(x) /\ ActiveOnly(r, x) /\ (r.failed => x = r)
  /\ ~x.failed => /\ HeldIn(x.e, r.e.previous)
                  /\ \A i \in 1 .. k : x.e.active[Controls[i]] # NoAction => Controls[i] \in mask

LEMMA LetGoStep ==
  ASSUME NEW r, NEW mask, NEW i \in 1 .. Len(Controls), NEW x, LettingGo(r, mask, i - 1, x),
         NEW q, q = LetGo(x, Controls[i], mask)
  PROVE  LettingGo(r, mask, i, q)
<1> DEFINE c == Controls[i]
<1>1. c \in ControlSet /\ Len(Controls) \in Nat /\ \A j \in 1 .. Len(Controls) : Controls[j] \in ControlSet
  BY ControlFacts
<1>2. /\ x \in EngineRuns /\ Booked(x) /\ ActiveOnly(r, x) /\ (r.failed => x = r)
      /\ ~x.failed => /\ HeldIn(x.e, r.e.previous)
                      /\ \A j \in 1 .. i - 1 : x.e.active[Controls[j]] # NoAction => Controls[j] \in mask
  BY DEF LettingGo
<1>3. q = LetGo(x, c, mask)
  OBVIOUS
<1>7. c = Controls[i]
  OBVIOUS
<1> HIDE DEF c
<1>4. /\ q \in EngineRuns /\ Booked(q) /\ ActiveOnly(x, q) /\ (x.failed => q = x)
      /\ ~x.failed => /\ \A d \in ControlSet : d # c => q.e.active[d] = x.e.active[d]
                      /\ IF c \notin mask /\ c \in x.e.previous THEN q.e.active[c] = NoAction
                         ELSE q.e.active[c] = x.e.active[c]
  BY <1>1, <1>2, <1>3, LetGoKeeps
<1>5. ActiveOnly(r, q) /\ (r.failed => q = r)
  BY <1>2, <1>4 DEF ActiveOnly
<1>6. ASSUME ~q.failed
      PROVE  /\ HeldIn(q.e, r.e.previous)
             /\ \A j \in 1 .. i : q.e.active[Controls[j]] # NoAction => Controls[j] \in mask
  <2>1. /\ ~x.failed /\ HeldIn(x.e, r.e.previous) /\ x.e.previous = r.e.previous
        /\ q.e.blocked = x.e.blocked /\ q.e.profile = x.e.profile
    BY <1>2, <1>4, <1>6 DEF ActiveOnly
  <2>2. \A d \in ControlSet : q.e.active[d] # NoAction => q.e.active[d] = x.e.active[d]
    BY <1>4, <2>1
  <2>3. HeldIn(q.e, r.e.previous)
    BY <2>1, <2>2 DEF HeldIn
  <2>4. q.e.active[c] # NoAction => c \in mask
    BY <1>1, <1>4, <2>1, <2>2 DEF HeldIn
  <2>5. \A j \in 1 .. i : j = i \/ j \in 1 .. i - 1
    BY <1>1
  <2>6. \A j \in 1 .. i : j \in 1 .. Len(Controls)
    BY <1>1
  <2>7. ASSUME NEW j \in 1 .. i, q.e.active[Controls[j]] # NoAction PROVE Controls[j] \in mask
    <3>1. CASE j = i
      BY <1>7, <2>4, <2>7, <3>1
    <3>2. CASE j \in 1 .. i - 1
      BY <1>1, <1>2, <2>1, <2>2, <2>6, <2>7, <3>2
    <3> QED
      BY <2>5, <3>1, <3>2
  <2> QED
    BY <2>3, <2>7
<1> QED
  BY <1>4, <1>5, <1>6 DEF LettingGo

\* The second pass: the controls that come are held if they were held before.
HoldingDown(r, mask, k, x) ==
  /\ x \in EngineRuns /\ Booked(x) /\ ActiveOnly(r, x) /\ (r.failed => x = r)
  /\ ~x.failed => /\ HeldIn(x.e, mask)
                  /\ \A i \in 1 .. Len(Controls) :
                       i > k /\ x.e.active[Controls[i]] # NoAction => Controls[i] \in r.e.previous

LEMMA HoldDownStep ==
  ASSUME NEW r, NEW mask, NEW i \in 1 .. Len(Controls), NEW x, HoldingDown(r, mask, i - 1, x),
         NEW q, q = HoldDown(x, Controls[i], mask)
  PROVE  HoldingDown(r, mask, i, q)
<1> DEFINE c == Controls[i]
<1>1. /\ c \in ControlSet /\ Len(Controls) \in Nat /\ \A j \in 1 .. Len(Controls) : Controls[j] \in ControlSet
      /\ \A j \in 1 .. Len(Controls) : j # i => Controls[j] # c
  BY ControlFacts
<1>2. /\ x \in EngineRuns /\ Booked(x) /\ ActiveOnly(r, x) /\ (r.failed => x = r)
      /\ ~x.failed => /\ HeldIn(x.e, mask)
                      /\ \A j \in 1 .. Len(Controls) :
                           j > i - 1 /\ x.e.active[Controls[j]] # NoAction => Controls[j] \in r.e.previous
  BY DEF HoldingDown
<1>3. q = HoldDown(x, c, mask) /\ c = Controls[i]
  OBVIOUS
<1> HIDE DEF c
<1>4. ~x.failed /\ c \in mask \ (x.e.previous \cup x.e.blocked) => x.e.active[c] = NoAction
  <2>1. i > i - 1
    BY <1>1
  <2> QED
    BY <1>2, <1>3, <2>1 DEF ActiveOnly
<1>5. /\ q \in EngineRuns /\ Booked(q) /\ ActiveOnly(x, q) /\ (x.failed => q = x)
      /\ ~q.failed => /\ \A d \in ControlSet : d # c => q.e.active[d] = x.e.active[d]
                      /\ \/ q.e.active[c] = x.e.active[c]
                         \/ /\ c \in mask \ (x.e.previous \cup x.e.blocked)
                            /\ q.e.active[c] = x.e.profile.bindings[c]
  BY <1>1, <1>2, <1>3, <1>4, HoldDownKeeps
<1>6. ActiveOnly(r, q) /\ (r.failed => q = r)
  BY <1>2, <1>5 DEF ActiveOnly
<1>7. ASSUME ~q.failed
      PROVE  /\ HeldIn(q.e, mask)
             /\ \A j \in 1 .. Len(Controls) :
                  j > i /\ q.e.active[Controls[j]] # NoAction => Controls[j] \in r.e.previous
  <2>1. /\ ~x.failed /\ HeldIn(x.e, mask) /\ x.e.previous = r.e.previous
        /\ q.e.blocked = x.e.blocked /\ q.e.profile = x.e.profile
    BY <1>2, <1>5, <1>7 DEF ActiveOnly
  <2>2. ASSUME NEW d \in ControlSet, q.e.active[d] # NoAction
        PROVE  d \in mask \ q.e.blocked /\ q.e.active[d] = q.e.profile.bindings[d]
    <3>1. CASE q.e.active[d] = x.e.active[d]
      BY <2>1, <2>2, <3>1 DEF HeldIn
    <3>2. CASE q.e.active[d] # x.e.active[d]
      <4>1. d = c
        BY <1>5, <1>7, <3>2
      <4> QED
        BY <1>5, <1>7, <2>1, <3>2, <4>1
    <3> QED
      BY <3>1, <3>2
  <2>3. ASSUME NEW j \in 1 .. Len(Controls), j > i, q.e.active[Controls[j]] # NoAction
        PROVE  Controls[j] \in r.e.previous
    <3>1. j # i /\ j > i - 1
      BY <1>1, <2>3
    <3>2. q.e.active[Controls[j]] = x.e.active[Controls[j]]
      BY <1>1, <1>5, <1>7, <3>1
    <3> QED
      BY <1>2, <2>1, <2>3, <3>1, <3>2
  <2> QED
    BY <2>2, <2>3 DEF HeldIn
<1> QED
  BY <1>5, <1>6, <1>7 DEF HoldingDown
\* The pass that lets go of the controls that are up.
LEMMA LetGoPass ==
  ASSUME NEW r, NEW mask, LettingGo(r, mask, 0, r)
  PROVE  LET N == Len(Controls)
             g == CHOOSE h : LetGoRun(r, mask, h)
         IN  LetGoRun(r, mask, g) /\ LettingGo(r, mask, N, g[N])
<1> DEFINE N == Len(Controls)
           Reached == [k \in 0 .. N |-> {x \in EngineRuns : LettingGo(r, mask, k, x)}]
           move == [p \in (1 .. N) \X EngineRuns |-> LetGo(p[2], Controls[p[1]], mask)]
<1>1. N \in Nat
  BY ControlFacts
<1>2. \A k, x : LettingGo(r, mask, k, x) => x \in EngineRuns
  BY DEF LettingGo
<1>3. \A i \in 1 .. N : \A x : LettingGo(r, mask, i - 1, x) => LettingGo(r, mask, i, LetGo(x, Controls[i], mask))
  BY LetGoStep
<1> HIDE DEF N
<1>4. \A k \in 0 .. N : \A x : x \in Reached[k] <=> LettingGo(r, mask, k, x)
  BY <1>2
<1>5. \A i \in 1 .. N : i \in 0 .. N /\ i - 1 \in 0 .. N
  BY <1>1
<1>6. ASSUME NEW i \in 1 .. N, NEW x \in Reached[i - 1]
      PROVE  move[<<i, x>>] = LetGo(x, Controls[i], mask) /\ move[<<i, x>>] \in Reached[i]
  <2>1. i \in 0 .. N /\ i - 1 \in 0 .. N
    BY <1>5
  <2>2. LettingGo(r, mask, i - 1, x)
    BY <1>4, <2>1
  <2>3. x \in EngineRuns
    BY <1>2, <2>2
  <2>4. move[<<i, x>>] = LetGo(x, Controls[i], mask)
    BY <2>3
  <2> HIDE DEF Reached, move
  <2> DEFINE y == LetGo(x, Controls[i], mask)
  <2>5. LettingGo(r, mask, i, y)
    BY <1>3, <2>2
  <2> HIDE DEF y
  <2>6. y \in Reached[i]
    BY <1>4, <2>1, <2>5
  <2> QED
    BY <2>4, <2>6 DEF y
<1>7. r \in Reached[0]
  <2>1. 0 \in 0 .. N
    BY <1>1
  <2> QED
    BY <1>4, <2>1
<1> HIDE DEF Reached, move
<1>8. PICK f : /\ f = [i \in 0 .. N |-> f[i]] /\ f[0] = r
               /\ \A i \in 1 .. N : f[i] = move[<<i, f[i - 1]>>]
               /\ \A i \in 0 .. N : f[i] \in Reached[i]
  <2>1. LeadsOn(N, Reached, move)
    BY <1>6 DEF LeadsOn
  <2>2. N \in Nat
    BY <1>1
  <2>3. \E f : StaysIn(N, Reached, r, move, f)
    BY ONLY <1>7, <2>1, <2>2, RecursionKeeps
  <2> QED
    BY <2>3 DEF StaysIn
<1>9. LetGoRun(r, mask, f)
  <2>1. \A i \in 0 .. N : f[i] = IF i = 0 THEN r ELSE LetGo(f[i - 1], Controls[i], mask)
    <3>1. \A i \in 0 .. N : i # 0 => i \in 1 .. N
      BY <1>1
    <3> QED
      BY <1>5, <1>6, <1>8, <3>1
  <2>2. f = [i \in 0 .. N |-> IF i = 0 THEN r ELSE LetGo(f[i - 1], Controls[i], mask)]
    BY <1>8, <2>1
  <2> QED
    BY <2>2 DEF LetGoRun, N
<1> DEFINE g == CHOOSE h : LetGoRun(r, mask, h)
<1>10. LetGoRun(r, mask, g)
  BY <1>9
<1> HIDE DEF g
<1>11. g[0] = r /\ \A i \in 1 .. N : g[i] = LetGo(g[i - 1], Controls[i], mask)
  <2>1. g = [n \in 0 .. N |-> IF n = 0 THEN r ELSE LetGo(g[n - 1], Controls[n], mask)]
    BY <1>10 DEF LetGoRun, N
  <2>2. 0 \in 0 .. N /\ \A i \in 1 .. N : i \in 0 .. N /\ i # 0
    BY <1>1
  <2> QED
    BY <2>1, <2>2
<1>12. \A i \in 1 .. N : g[i - 1] \in Reached[i - 1] => g[i] \in Reached[i]
  BY <1>6, <1>11
<1>13. g[N] \in Reached[N]
  BY <1>1, <1>7, <1>11, <1>12, StepsKeep
<1>14. LettingGo(r, mask, N, g[N])
  BY <1>1, <1>4, <1>13
<1> QED
  BY <1>10, <1>14 DEF g, N

\* The pass that holds down the controls that went down.
LEMMA HoldDownPass ==
  ASSUME NEW r, NEW mask, HoldingDown(r, mask, 0, r)
  PROVE  LET N == Len(Controls)
             g == CHOOSE h : HoldDownRun(r, mask, h)
         IN  HoldDownRun(r, mask, g) /\ HoldingDown(r, mask, N, g[N])
<1> DEFINE N == Len(Controls)
           Reached == [k \in 0 .. N |-> {x \in EngineRuns : HoldingDown(r, mask, k, x)}]
           move == [p \in (1 .. N) \X EngineRuns |-> HoldDown(p[2], Controls[p[1]], mask)]
<1>1. N \in Nat
  BY ControlFacts
<1>2. \A k, x : HoldingDown(r, mask, k, x) => x \in EngineRuns
  BY DEF HoldingDown
<1>3. \A i \in 1 .. N : \A x : HoldingDown(r, mask, i - 1, x) => HoldingDown(r, mask, i, HoldDown(x, Controls[i], mask))
  BY HoldDownStep
<1> HIDE DEF N
<1>4. \A k \in 0 .. N : \A x : x \in Reached[k] <=> HoldingDown(r, mask, k, x)
  BY <1>2
<1>5. \A i \in 1 .. N : i \in 0 .. N /\ i - 1 \in 0 .. N
  BY <1>1
<1>6. ASSUME NEW i \in 1 .. N, NEW x \in Reached[i - 1]
      PROVE  move[<<i, x>>] = HoldDown(x, Controls[i], mask) /\ move[<<i, x>>] \in Reached[i]
  <2>1. i \in 0 .. N /\ i - 1 \in 0 .. N
    BY <1>5
  <2>2. HoldingDown(r, mask, i - 1, x)
    BY <1>4, <2>1
  <2>3. x \in EngineRuns
    BY <1>2, <2>2
  <2>4. move[<<i, x>>] = HoldDown(x, Controls[i], mask)
    BY <2>3
  <2> HIDE DEF Reached, move
  <2> DEFINE y == HoldDown(x, Controls[i], mask)
  <2>5. HoldingDown(r, mask, i, y)
    BY <1>3, <2>2
  <2> HIDE DEF y
  <2>6. y \in Reached[i]
    BY <1>4, <2>1, <2>5
  <2> QED
    BY <2>4, <2>6 DEF y
<1>7. r \in Reached[0]
  <2>1. 0 \in 0 .. N
    BY <1>1
  <2> QED
    BY <1>4, <2>1
<1> HIDE DEF Reached, move
<1>8. PICK f : /\ f = [i \in 0 .. N |-> f[i]] /\ f[0] = r
               /\ \A i \in 1 .. N : f[i] = move[<<i, f[i - 1]>>]
               /\ \A i \in 0 .. N : f[i] \in Reached[i]
  <2>1. LeadsOn(N, Reached, move)
    BY <1>6 DEF LeadsOn
  <2>2. N \in Nat
    BY <1>1
  <2>3. \E f : StaysIn(N, Reached, r, move, f)
    BY ONLY <1>7, <2>1, <2>2, RecursionKeeps
  <2> QED
    BY <2>3 DEF StaysIn
<1>9. HoldDownRun(r, mask, f)
  <2>1. \A i \in 0 .. N : f[i] = IF i = 0 THEN r ELSE HoldDown(f[i - 1], Controls[i], mask)
    <3>1. \A i \in 0 .. N : i # 0 => i \in 1 .. N
      BY <1>1
    <3> QED
      BY <1>5, <1>6, <1>8, <3>1
  <2>2. f = [i \in 0 .. N |-> IF i = 0 THEN r ELSE HoldDown(f[i - 1], Controls[i], mask)]
    BY <1>8, <2>1
  <2> QED
    BY <2>2 DEF HoldDownRun, N
<1> DEFINE g == CHOOSE h : HoldDownRun(r, mask, h)
<1>10. HoldDownRun(r, mask, g)
  BY <1>9
<1> HIDE DEF g
<1>11. g[0] = r /\ \A i \in 1 .. N : g[i] = HoldDown(g[i - 1], Controls[i], mask)
  <2>1. g = [n \in 0 .. N |-> IF n = 0 THEN r ELSE HoldDown(g[n - 1], Controls[n], mask)]
    BY <1>10 DEF HoldDownRun, N
  <2>2. 0 \in 0 .. N /\ \A i \in 1 .. N : i \in 0 .. N /\ i # 0
    BY <1>1
  <2> QED
    BY <2>1, <2>2
<1>12. \A i \in 1 .. N : g[i - 1] \in Reached[i - 1] => g[i] \in Reached[i]
  BY <1>6, <1>11
<1>13. g[N] \in Reached[N]
  BY <1>1, <1>7, <1>11, <1>12, StepsKeep
<1>14. HoldingDown(r, mask, N, g[N])
  BY <1>1, <1>4, <1>13
<1> QED
  BY <1>10, <1>14 DEF g, N

\* apply_changes: afterwards a button holds its action if it is down and not blocked.
LEMMA ApplyChangesKeeps ==
  ASSUME NEW r \in EngineRuns, ~r.failed, Booked(r), HeldIn(r.e, r.e.previous), NEW mask,
         NEW q, q = apply_changes(r, mask)
  PROVE  /\ q \in EngineRuns /\ Booked(q) /\ ActiveOnly(r, q)
         /\ ~q.failed => HeldIn(q.e, mask)
<1> DEFINE N == Len(Controls)
           g == CHOOSE f : LetGoRun(r, mask, f)
           s == g[N]
           h == CHOOSE f : HoldDownRun(s, mask, f)
<1>1. N \in Nat /\ \A c \in ControlSet : \E i \in 1 .. N : Controls[i] = c
  BY ControlFacts
<1>2. q = h[N]
  BY DEF apply_changes, LetGoRun, HoldDownRun
<1>3. LettingGo(r, mask, 0, r)
  BY DEF LettingGo, ActiveOnly
<1>4. LettingGo(r, mask, N, s)
  BY <1>3, LetGoPass
<1> HIDE DEF g, s
<1>5. HoldingDown(s, mask, 0, s)
  <2>1. s \in EngineRuns /\ Booked(s) /\ ActiveOnly(r, s) /\ ActiveOnly(s, s)
    BY <1>4 DEF LettingGo, ActiveOnly
  <2>2. ASSUME ~s.failed
        PROVE  /\ HeldIn(s.e, mask)
               /\ \A c \in ControlSet : s.e.active[c] # NoAction => c \in s.e.previous
    <3>1. HeldIn(s.e, r.e.previous) /\ \A i \in 1 .. N : s.e.active[Controls[i]] # NoAction => Controls[i] \in mask
      BY <1>4, <2>2 DEF LettingGo
    <3>2. \A c \in ControlSet : s.e.active[c] # NoAction => c \in mask
      BY <1>1, <3>1
    <3>3. HeldIn(s.e, mask)
      BY <3>1, <3>2 DEF HeldIn
    <3> QED
      BY <2>1, <3>1, <3>3 DEF HeldIn, ActiveOnly
  <2>3. \A i \in 1 .. N : Controls[i] \in ControlSet
    BY ControlFacts
  <2> QED
    BY <2>1, <2>2, <2>3 DEF HoldingDown
<1>6. HoldingDown(s, mask, N, h[N])
  BY <1>5, HoldDownPass
<1>7. /\ q \in EngineRuns /\ Booked(q) /\ ActiveOnly(s, q)
      /\ ~q.failed => HeldIn(q.e, mask)
  BY <1>2, <1>6 DEF HoldingDown
<1>8. ActiveOnly(r, s)
  BY <1>4 DEF LettingGo
<1>9. ActiveOnly(r, q)
  BY <1>7, <1>8 DEF ActiveOnly
<1> QED
  BY <1>7, <1>9
-----------------------------------------------------------------------------
(* The operations.                                                         *)

Desks == [down : SUBSET Outputs, stuck : SUBSET Outputs, early : SUBSET SideSet]

\* The three parts of HeldIsOwed, of an engine and a desktop, and what they
\* rest on: the pads while they are not touched, and an engine without baseline.
Books(e, d) ==
  \A o \in Outputs :
    /\ e.counts[o] = IF Owed(e, o) = 0 THEN Missing ELSE Owed(e, o)
    /\ Owed(e, o) > 0 => o \in d.down
    /\ o \in d.down => Owed(e, o) > 0 \/ o \in d.stuck
NoRegions(e) == \A s \in SideSet : e.pads[s].click_region = NoAction /\ e.pads[s].touch_region = NoAction
NothingHeld(e) == \A c \in ControlSet : e.active[c] = NoAction
Sound(e, d) ==
  /\ e \in Engines /\ d \in Desks /\ Books(e, d)
  /\ HeldIn(e, e.previous) /\ PadsSafe(e, d.early) /\ LatchesOwned(e)
  /\ e.previous = NoAction => NoRegions(e) /\ NothingHeld(e)

LEMMA EngineFacts ==
  ASSUME NEW e \in Engines
  PROVE  /\ e.profile \in Layouts /\ e.previous \in (SUBSET ControlSet) \cup {NoAction}
         /\ e.blocked \in SUBSET ControlSet /\ e.active \in [ControlSet -> Latched]
         /\ e.counts \in [Outputs -> Int] /\ e.pads \in [SideSet -> Pads]
         /\ e.latches \in [SideSet -> [Triggers -> Latched]]
BY DEF Engines

LEMMA SoundIsOwed ==
  ASSUME Sound(engine, desk) PROVE HeldIsOwed
<1>1. CountsAreOwed
  BY DEF Sound, Books, CountsAreOwed
<1>2. OwnersAreDown
  BY DEF Sound, HeldIn, PadsSafe, LatchesOwned, PadLatched, PadOwns, OwnersAreDown
<1>3. PressedPadIsFrozen
  <2> SUFFICES ASSUME NEW s \in SideSet, engine.pads[s].touched, ~engine.pads[s].blocked,
                      engine.profile.pads[s].motion # "None"
               PROVE  LET p == engine.pads[s]
                      IN  /\ s \in desk.early \/ (p.held <=> p.filter \in {"PressHeld", "Dragging", "DragParked"})
                          /\ p.filter \in {"Dragging", "DragParked"} => p.clicked
    BY DEF PressedPadIsFrozen
  <2>1. PadFrozen(engine.pads[s], engine.profile.pads[s], Excused(s, desk.early))
    BY DEF Sound, PadsSafe
  <2> QED
    BY <2>1 DEF PadFrozen, Excused, PressFilters, DragFilters
<1> QED
  BY <1>1, <1>2, <1>3 DEF HeldIsOwed

\* Nobody holds anything, and nothing is down but what is stuck.
Cleared(e, d) ==
  /\ \A o \in Outputs : e.counts[o] = Missing
  /\ NothingHeld(e) /\ \A s \in SideSet : e.latches[s] = NoLatch
  /\ d.down \subseteq d.stuck

LEMMA NothingOwed ==
  ASSUME NEW e, NothingHeld(e), \A s \in SideSet, t \in Triggers : e.latches[s][t] = NoAction
  PROVE  \A o \in Outputs : Owed(e, o) = 0
<1>1. \A w \in Owners : ActionOf(e, w) = NoAction
  BY OwnerCases, OwnerFacts DEF NothingHeld
<1>2. \A o \in Outputs : OwnersOf(e, o) = {}
  BY <1>1 DEF OwnersOf, Owes
<1> QED
  BY <1>2, OwedFacts, FS_EmptySet

LEMMA ClearedIsSound ==
  ASSUME NEW e \in Engines, NEW d \in Desks, Cleared(e, d), PadsSafe(e, d.early), NoRegions(e)
  PROVE  Sound(e, d)
<1>1. \A s \in SideSet, t \in Triggers : e.latches[s][t] = NoAction
  BY DEF Cleared, NoLatch
<1>2. \A o \in Outputs : Owed(e, o) = 0
  BY <1>1, NothingOwed DEF Cleared
<1>3. Books(e, d)
  <2>1. d.down \subseteq d.stuck /\ \A o \in Outputs : e.counts[o] = Missing
    BY DEF Cleared
  <2> QED
    BY <1>2, <2>1 DEF Books
<1>4. HeldIn(e, e.previous) /\ NothingHeld(e)
  BY DEF Cleared, NothingHeld, HeldIn
<1>5. LatchesOwned(e)
  <2>1. "click" \in Triggers /\ "touch" \in Triggers
    BY DEF Triggers
  <2> QED
    BY <1>1, <2>1 DEF NoRegions, LatchesOwned, PadLatched, latch_for
<1> QED
  BY <1>3, <1>4, <1>5 DEF Sound

LEMMA SoundStart ==
  ASSUME Sound(engine, desk), NEW left \in Int, NEW dead \in BOOLEAN, NEW r, r = Start(left, dead)
  PROVE  /\ r \in EngineRuns /\ r.e = engine /\ r.down = desk.down /\ r.stuck = desk.stuck
         /\ ~r.failed /\ Booked(r) /\ IsKnown(r)
<1>1. engine \in Engines /\ desk.down \in SUBSET Outputs /\ desk.stuck \in SUBSET Outputs
  BY DEF Sound, Desks
<1>2. r \in EngineRuns
  BY <1>1 DEF Start, EngineRuns
<1>3. r.e = engine /\ r.down = desk.down /\ r.stuck = desk.stuck /\ ~r.failed
  BY DEF Start
<1>4. \A o \in Outputs : OwedIn(engine)[o] = Owed(engine, o)
  BY DEF OwedIn
<1>5. IsCounted(r, OwedIn(r.e))
  BY <1>3, <1>4 DEF Sound, Books, IsCounted
<1>6. Booked(r)
  BY <1>3, <1>5 DEF Booked, Fine
<1>7. IsKnown(r)
  BY <1>2, <1>6, CountedIsKnown, OwedFacts DEF Booked
<1> QED
  BY <1>2, <1>3, <1>6, <1>7

\* release_all: nobody holds anything afterwards, and what is still down is stuck.
LEMMA ReleaseAllClears ==
  ASSUME NEW r \in EngineRuns, IsKnown(r), NEW q, q = release_all(r)
  PROVE  /\ q \in EngineRuns
         /\ q.e.profile = r.e.profile /\ q.e.previous = r.e.previous /\ q.e.blocked = r.e.blocked
         /\ q.e.pads = r.e.pads
         /\ \A o \in Outputs : q.e.counts[o] = Missing
         /\ NothingHeld(q.e) /\ \A s \in SideSet : q.e.latches[s] = NoLatch
         /\ q.down \subseteq q.stuck
<1> DEFINE entries == {o \in Outputs : r.e.counts[o] # Missing}
           counts == [o \in Outputs |-> Missing]
           active == [c \in ControlSet |-> NoAction]
           latches == [s \in SideSet |-> NoLatch]
           down == IF r.dead THEN r.down ELSE r.down \ entries
           stuck == IF r.dead THEN r.stuck \cup (entries \cap r.down) ELSE r.stuck
           e == [r.e EXCEPT !.counts = counts, !.active = active, !.latches = latches]
<1>1. /\ counts \in [Outputs -> Int] /\ active \in [ControlSet -> Latched]
      /\ latches \in [SideSet -> [Triggers -> Latched]]
      /\ down \in SUBSET Outputs /\ stuck \in SUBSET Outputs
  BY RunFacts DEF Missing, Latched, NoLatch
<1>2. down \subseteq stuck
  BY RunFacts DEF IsKnown
<1>3. /\ \A o \in Outputs : counts[o] = Missing
      /\ \A c \in ControlSet : active[c] = NoAction
      /\ \A s \in SideSet : latches[s] = NoLatch
  OBVIOUS
<1>4. q = [r EXCEPT !.e = e, !.down = down, !.stuck = stuck]
  BY DEF release_all, EngineRuns
<1> HIDE DEF counts, active, latches, down, stuck
<1>5. e \in Engines
  BY <1>1, RunFacts DEF Engines
<1>6. /\ e.profile = r.e.profile /\ e.previous = r.e.previous /\ e.blocked = r.e.blocked
      /\ e.pads = r.e.pads /\ e.counts = counts /\ e.active = active /\ e.latches = latches
  BY RunFacts DEF Engines
<1> HIDE DEF e
<1>7. q \in EngineRuns
  BY <1>1, <1>4, <1>5 DEF EngineRuns
<1>8. q.e = e /\ q.down = down /\ q.stuck = stuck
  BY <1>1, <1>4, <1>5 DEF EngineRuns
<1> QED
  BY <1>2, <1>3, <1>6, <1>7, <1>8 DEF NothingHeld

\* A pad that is blocked if it is touched, whatever its profile is now.
LEMMA BlockedPadIsSafe ==
  ASSUME NEW p \in Pads, NEW config, NEW excused, PadFrozen(p, config, excused), NEW q, q = block_if_touched(p)
  PROVE  /\ q \in Pads /\ PadOwns(q) /\ q.click_region = NoAction /\ q.touch_region = NoAction
         /\ \A other : PadFrozen(q, other, excused)
<1>1. /\ q \in Pads /\ q.touched = p.touched /\ q.blocked = p.touched /\ SamePress(p, q)
      /\ q.filter = "Parked" /\ q.click_region = NoAction /\ q.touch_region = NoAction
  BY PadBlocked
<1>2. ASSUME NEW other PROVE PadFrozen(q, other, excused)
  BY <1>1 DEF PadFrozen, SamePress
<1> QED
  BY <1>1, <1>2 DEF PadOwns

LEMMA BlockPadsIsSafe ==
  ASSUME NEW e \in Engines, NEW early, PadsSafe(e, early), NEW pads, pads = BlockPads(e.pads)
  PROVE  /\ pads \in [SideSet -> Pads]
         /\ \A d : d.pads = pads => PadsSafe(d, early) /\ NoRegions(d)
<1>1. ASSUME NEW s \in SideSet
      PROVE  /\ pads[s] \in Pads /\ PadOwns(pads[s])
             /\ pads[s].click_region = NoAction /\ pads[s].touch_region = NoAction
             /\ \A other : PadFrozen(pads[s], other, Excused(s, early))
  <2>1. pads[s] = block_if_touched(e.pads[s])
    BY DEF BlockPads
  <2>2. e.pads[s] \in Pads
    BY EngineFacts
  <2>3. PadFrozen(e.pads[s], e.profile.pads[s], Excused(s, early))
    BY DEF PadsSafe
  <2> QED
    BY <2>1, <2>2, <2>3, BlockedPadIsSafe
<1>2. pads \in [SideSet -> Pads]
  BY <1>1 DEF BlockPads
<1> QED
  BY <1>1, <1>2 DEF PadsSafe, NoRegions

\* A pad is excused as long as it is held.
LEMMA ExcusedWhileHeld ==
  ASSUME NEW e, NEW early, PadsSafe(e, early), NEW rest, rest = {s \in early : e.pads[s].held}
  PROVE  PadsSafe(e, rest)
<1> SUFFICES ASSUME NEW s \in SideSet
             PROVE  PadFrozen(e.pads[s], e.profile.pads[s], Excused(s, rest)) /\ PadOwns(e.pads[s])
  BY DEF PadsSafe
<1>1. PadFrozen(e.pads[s], e.profile.pads[s], Excused(s, early)) /\ PadOwns(e.pads[s])
  BY DEF PadsSafe
<1>2. CASE e.pads[s].held
  BY <1>1, <1>2 DEF Excused
<1>3. CASE ~e.pads[s].held
  BY <1>1, <1>3 DEF Excused, PadFrozen
<1> QED
  BY <1>2, <1>3
LEMMA InitIsSound ==
  ASSUME EngineInit PROVE Sound(engine, desk)
<1>1. PICK l \in Layouts :
        engine = [profile |-> l, previous |-> NoAction, blocked |-> {},
                  active |-> [c \in ControlSet |-> NoAction],
                  counts |-> [o \in Outputs |-> Missing],
                  pads |-> [s \in SideSet |-> NewPad],
                  latches |-> [s \in SideSet |-> NoLatch]]
  BY DEF EngineInit
<1>2. NewPad \in Pads
  BY DEF NewPad, Pads, Anchors, Places, Filters, Momenta
<1>3. /\ [s \in SideSet |-> NewPad] \in [SideSet -> Pads]
      /\ [s \in SideSet |-> NoLatch] \in [SideSet -> [Triggers -> Latched]]
      /\ [o \in Outputs |-> Missing] \in [Outputs -> Int]
      /\ [c \in ControlSet |-> NoAction] \in [ControlSet -> Latched]
  BY <1>2 DEF NoLatch, Latched, Missing
<1>4. engine \in Engines
  BY <1>1, <1>3 DEF Engines
<1>5. desk = [down |-> {}, stuck |-> {}, early |-> {}]
  BY DEF EngineInit
<1>6. desk \in Desks
  BY <1>5 DEF Desks
<1>7. Cleared(engine, desk)
  BY <1>1, <1>5 DEF Cleared, NothingHeld
<1>8. \A s \in SideSet : engine.pads[s] = NewPad
  BY <1>1
<1>9. PadsSafe(engine, desk.early) /\ NoRegions(engine)
  BY <1>8 DEF PadsSafe, NoRegions, NewPad, PadOwns, PadFrozen
<1> QED
  BY <1>4, <1>6, <1>7, <1>9, ClearedIsSound

\* The baseline blocks what is down and touched.
LEMMA BaselineIsSound ==
  ASSUME Sound(engine, desk), Baseline PROVE Sound(engine', desk')
<1>1. PICK mask \in SUBSET ControlSet, samples \in [SideSet -> PadSamples] :
        /\ engine' = [engine EXCEPT !.previous = mask, !.blocked = mask,
                        !.pads = [s \in SideSet |-> baseline_pad(engine.pads[s], samples[s])]]
        /\ desk' = [desk EXCEPT !.early = {s \in SideSet : samples[s].pressed /\ ~samples[s].touched}]
  BY DEF Baseline
<1>2. /\ engine \in Engines /\ desk \in Desks /\ Books(engine, desk)
      /\ NoRegions(engine) /\ NothingHeld(engine) /\ LatchesOwned(engine)
  BY DEF Sound, Baseline
<1> DEFINE pads == [s \in SideSet |-> baseline_pad(engine.pads[s], samples[s])]
           early == {s \in SideSet : samples[s].pressed /\ ~samples[s].touched}
<1>3. ASSUME NEW s \in SideSet
      PROVE  /\ pads[s] \in Pads /\ pads[s].touched = samples[s].touched /\ pads[s].blocked = samples[s].touched
             /\ (~pads[s].touched => (pads[s].held <=> samples[s].pressed)) /\ pads[s].filter = "Parked"
             /\ pads[s].click_region = NoAction /\ pads[s].touch_region = NoAction
  <2>1. engine.pads[s] \in Pads
    BY <1>2, EngineFacts
  <2>2. samples[s] \in PadSamples
    OBVIOUS
  <2>3. pads[s] = baseline_pad(engine.pads[s], samples[s])
    OBVIOUS
  <2> HIDE DEF pads
  <2> QED
    BY <2>1, <2>2, <2>3, PadBaselined
<1>4. pads \in [SideSet -> Pads]
  BY <1>3
<1>5. early \in SUBSET SideSet /\ \A s \in SideSet : s \in early <=> samples[s].pressed /\ ~samples[s].touched
  OBVIOUS
<1>6. engine' = [engine EXCEPT !.previous = mask, !.blocked = mask, !.pads = pads] /\ desk' = [desk EXCEPT !.early = early]
  BY <1>1
<1> HIDE DEF pads, early
<1>7. engine' \in Engines
  BY <1>2, <1>4, <1>6 DEF Engines
<1>8. /\ engine'.profile = engine.profile /\ engine'.previous = mask /\ engine'.blocked = mask
      /\ engine'.active = engine.active /\ engine'.counts = engine.counts /\ engine'.pads = pads
      /\ engine'.latches = engine.latches
  BY <1>2, <1>6 DEF Engines
<1>9. desk' \in Desks /\ desk'.early = early /\ desk'.down = desk.down /\ desk'.stuck = desk.stuck
  BY <1>2, <1>5, <1>6 DEF Desks
<1>10. Books(engine', desk')
  <2>1. \A w \in Owners : ActionOf(engine', w) = ActionOf(engine, w)
    BY <1>8 DEF ActionOf
  <2>2. \A o \in Outputs : Owed(engine', o) = Owed(engine, o)
    <3>1. \A o \in Outputs, w \in Owners : Owes(engine', w, o) <=> Owes(engine, w, o)
      BY <2>1 DEF Owes
    <3> QED
      BY <3>1 DEF Owed
  <2> QED
    BY <1>2, <1>8, <1>9, <2>2 DEF Books
<1>11. NothingHeld(engine') /\ HeldIn(engine', engine'.previous)
  BY <1>2, <1>8 DEF NothingHeld, HeldIn
<1>12. NoRegions(engine') /\ PadsSafe(engine', desk'.early)
  BY <1>3, <1>5, <1>8, <1>9 DEF NoRegions, PadsSafe, PadOwns, PadFrozen, Excused
<1>13. LatchesOwned(engine')
  BY <1>2, <1>3, <1>8 DEF LatchesOwned, PadLatched, NoRegions, latch_for
<1> QED
  BY <1>7, <1>9, <1>10, <1>11, <1>12, <1>13 DEF Sound

\* What a failed operation and a new profile end with: the run r is let go of in
\* q, and leaves the engine e and the desktop d.
EndsIn(r, early, q, l, previous, blocked, rest, e, d) ==
  /\ r \in EngineRuns /\ IsKnown(r) /\ early \in SUBSET SideSet /\ PadsSafe(r.e, early)
  /\ q = release_all(r) /\ l \in Layouts
  /\ previous \in (SUBSET ControlSet) \cup {NoAction} /\ blocked \in SUBSET ControlSet
  /\ rest = early \/ rest = {s \in early : BlockPads(q.e.pads)[s].held}
  /\ e = [q.e EXCEPT !.profile = l, !.previous = previous, !.blocked = blocked, !.pads = BlockPads(q.e.pads)]
  /\ d = [down |-> q.down, stuck |-> q.stuck, early |-> rest]

LEMMA ReleasedIsSound ==
  ASSUME NEW r, NEW early, NEW q, NEW l, NEW previous, NEW blocked, NEW rest, NEW e, NEW d,
         EndsIn(r, early, q, l, previous, blocked, rest, e, d)
  PROVE  Sound(e, d)
<1> SUFFICES ASSUME r \in EngineRuns, IsKnown(r), early \in SUBSET SideSet, PadsSafe(r.e, early),
                    q = release_all(r), l \in Layouts,
                    previous \in (SUBSET ControlSet) \cup {NoAction}, blocked \in SUBSET ControlSet,
                    rest = early \/ rest = {s \in early : BlockPads(q.e.pads)[s].held},
                    e = [q.e EXCEPT !.profile = l, !.previous = previous, !.blocked = blocked,
                                    !.pads = BlockPads(q.e.pads)],
                    d = [down |-> q.down, stuck |-> q.stuck, early |-> rest]
             PROVE  Sound(e, d)
  BY DEF EndsIn
<1> DEFINE pads == BlockPads(q.e.pads)
<1>1. /\ q \in EngineRuns /\ q.e.profile = r.e.profile /\ q.e.pads = r.e.pads
      /\ \A o \in Outputs : q.e.counts[o] = Missing
      /\ NothingHeld(q.e) /\ \A s \in SideSet : q.e.latches[s] = NoLatch
      /\ q.down \subseteq q.stuck
  BY ReleaseAllClears
<1>2. q.e \in Engines /\ r.e \in Engines /\ q.down \in SUBSET Outputs /\ q.stuck \in SUBSET Outputs
  BY <1>1, RunFacts
<1>3. /\ pads \in [SideSet -> Pads]
      /\ \A x : x.pads = pads => PadsSafe(x, early) /\ NoRegions(x)
  BY <1>1, <1>2, BlockPadsIsSafe
<1>4. e = [q.e EXCEPT !.profile = l, !.previous = previous, !.blocked = blocked, !.pads = pads]
  OBVIOUS
<1>5. rest \in SUBSET SideSet
  OBVIOUS
<1>6. rest = early \/ rest = {s \in early : pads[s].held}
  OBVIOUS
<1> HIDE DEF pads
<1>7. e \in Engines
  BY <1>2, <1>3, <1>4 DEF Engines
<1>8. e.counts = q.e.counts /\ e.active = q.e.active /\ e.latches = q.e.latches /\ e.pads = pads
  BY <1>2, <1>4 DEF Engines
<1>9. d \in Desks /\ d.down = q.down /\ d.stuck = q.stuck /\ d.early = rest
  BY <1>2, <1>5 DEF Desks
<1>10. Cleared(e, d)
  BY <1>1, <1>8, <1>9 DEF Cleared, NothingHeld
<1>11. PadsSafe(e, early) /\ NoRegions(e)
  BY <1>3, <1>8
<1>12. PadsSafe(e, rest)
  <2>1. CASE rest = early
    BY <1>11, <2>1
  <2>2. CASE rest = {s \in early : e.pads[s].held}
    BY ONLY <1>11, <2>2, ExcusedWhileHeld
  <2> QED
    BY <1>6, <1>8, <2>1, <2>2
<1> QED
  BY <1>7, <1>9, <1>10, <1>11, <1>12, ClearedIsSound

\* A profile is replaced: everything is let go of first.
LEMMA ReplaceIsSound ==
  ASSUME Sound(engine, desk), EngineReplaceProfile PROVE Sound(engine', desk')
<1>1. PICK l \in Layouts, dead \in BOOLEAN :
        LET held == IF engine.previous = NoAction THEN {} ELSE engine.previous
        IN  EndWith([release_all(Start(0, dead)) EXCEPT
                      !.e.profile = l, !.e.blocked = held, !.e.pads = BlockPads(@)], desk.early)
  BY DEF EngineReplaceProfile
<1> DEFINE r == Start(0, dead)
           q == release_all(r)
           held == IF engine.previous = NoAction THEN {} ELSE engine.previous
           z == [q EXCEPT !.e.profile = l, !.e.blocked = held, !.e.pads = BlockPads(@)]
<1>2. engine' = z.e /\ desk' = [down |-> z.down, stuck |-> z.stuck, early |-> desk.early]
  BY <1>1 DEF EndWith
<1>3. engine.previous \in (SUBSET ControlSet) \cup {NoAction} /\ desk.early \in SUBSET SideSet
      /\ PadsSafe(engine, desk.early)
  BY EngineFacts DEF Sound, Desks
<1>4. held \in SUBSET ControlSet
  BY <1>3
<1>5. r \in EngineRuns /\ r.e = engine /\ IsKnown(r)
  BY SoundStart
<1> HIDE DEF r, held
<1>6. q \in EngineRuns /\ q.e.previous = engine.previous
  BY <1>5, ReleaseAllClears
<1>7. q = release_all(r)
  OBVIOUS
<1>8. /\ z.e = [q.e EXCEPT !.profile = l, !.blocked = held, !.pads = BlockPads(q.e.pads)]
      /\ z.down = q.down /\ z.stuck = q.stuck
  <2> HIDE DEF q
  <2>1. q.e \in Engines
    BY <1>6, RunFacts
  <2> QED
    BY <1>6, <2>1 DEF EngineRuns, Engines
<1> HIDE DEF q, z
<1>9. z.e = [q.e EXCEPT !.profile = l, !.previous = engine.previous, !.blocked = held, !.pads = BlockPads(q.e.pads)]
  <2>1. q.e \in Engines
    BY <1>6, RunFacts
  <2> QED
    BY <1>6, <1>8, <2>1 DEF Engines
<1>10. desk' = [down |-> q.down, stuck |-> q.stuck, early |-> desk.early]
  BY <1>2, <1>8
<1> DEFINE early == desk.early
           previous == engine.previous
           e == z.e
           d == [down |-> q.down, stuck |-> q.stuck, early |-> early]
<1>11. early \in SUBSET SideSet
  BY <1>3
<1>12. previous \in (SUBSET ControlSet) \cup {NoAction}
  BY <1>3
<1>13. PadsSafe(r.e, early)
  BY <1>3, <1>5
<1>14. r \in EngineRuns
  BY <1>5
<1>15. IsKnown(r)
  BY <1>5
<1>16. e = [q.e EXCEPT !.profile = l, !.previous = previous, !.blocked = held, !.pads = BlockPads(q.e.pads)]
  BY <1>9
<1>17. d = [down |-> q.down, stuck |-> q.stuck, early |-> early]
  OBVIOUS
<1>18. l \in Layouts
  OBVIOUS
<1>19. early = early \/ early = {s \in early : BlockPads(q.e.pads)[s].held}
  OBVIOUS
<1> HIDE DEF early, previous, e, d
<1>20. EndsIn(r, early, q, l, previous, held, early, e, d)
  BY ONLY <1>4, <1>7, <1>11, <1>12, <1>13, <1>14, <1>15, <1>16, <1>17, <1>18, <1>19 DEF EndsIn
<1>21. Sound(e, d)
  BY ONLY <1>20, ReleasedIsSound
<1> QED
  BY <1>2, <1>10, <1>21 DEF e, d, early

\* A disconnect lets go of everything and forgets the baseline.
LEMMA DisconnectIsSound ==
  ASSUME Sound(engine, desk), EngineDisconnect PROVE Sound(engine', desk')
<1>1. PICK dead \in BOOLEAN :
        EndWith([release_all(Start(0, dead)) EXCEPT
                  !.e.previous = NoAction, !.e.blocked = {}, !.e.pads = [s \in SideSet |-> NewPad]], {})
  BY DEF EngineDisconnect
<1> DEFINE r == Start(0, dead)
           q == release_all(r)
           pads == [s \in SideSet |-> NewPad]
           z == [q EXCEPT !.e.previous = NoAction, !.e.blocked = {}, !.e.pads = pads]
<1>2. engine' = z.e /\ desk' = [down |-> z.down, stuck |-> z.stuck, early |-> {}]
  BY <1>1 DEF EndWith
<1>3. r \in EngineRuns /\ r.e = engine /\ IsKnown(r)
  BY SoundStart
<1> HIDE DEF r
<1>4. /\ q \in EngineRuns
      /\ \A o \in Outputs : q.e.counts[o] = Missing
      /\ NothingHeld(q.e) /\ \A s \in SideSet : q.e.latches[s] = NoLatch
      /\ q.down \subseteq q.stuck
  BY <1>3, ReleaseAllClears
<1>5. q.e \in Engines /\ q.down \in SUBSET Outputs /\ q.stuck \in SUBSET Outputs
  BY <1>4, RunFacts
<1>6. NewPad \in Pads
  BY DEF NewPad, Pads, Anchors, Places, Filters, Momenta
<1>7. pads \in [SideSet -> Pads] /\ \A s \in SideSet : pads[s] = NewPad
  BY <1>6
<1> HIDE DEF q, pads
<1>8. /\ z.e = [q.e EXCEPT !.previous = NoAction, !.blocked = {}, !.pads = pads]
      /\ z.down = q.down /\ z.stuck = q.stuck
  BY <1>4, <1>5 DEF EngineRuns, Engines
<1> HIDE DEF z
<1>9. engine' \in Engines
  BY <1>2, <1>5, <1>7, <1>8 DEF Engines
<1>10. engine'.counts = q.e.counts /\ engine'.active = q.e.active /\ engine'.latches = q.e.latches
       /\ engine'.pads = pads
  BY <1>2, <1>5, <1>8 DEF Engines
<1>11. desk' \in Desks /\ desk'.down = q.down /\ desk'.stuck = q.stuck /\ desk'.early = {}
  BY <1>2, <1>5, <1>8 DEF Desks
<1>12. Cleared(engine', desk')
  BY <1>4, <1>10, <1>11 DEF Cleared, NothingHeld
<1>13. PadsSafe(engine', desk'.early) /\ NoRegions(engine')
  BY <1>7, <1>10 DEF PadsSafe, NoRegions, NewPad, PadOwns, PadFrozen
<1> QED
  BY <1>9, <1>11, <1>12, <1>13, ClearedIsSound
LEMMA MomentumGoesOn ==
  ASSUME NEW p \in Pads, NEW ends, NEW q, q = advance_scroll_momentum(p, ends).pad
  PROVE  q \in Pads /\ Alike(p, q) /\ q.filter = p.filter
<1>1. q = p \/ q = [p EXCEPT !.momentum = "none"]
  BY DEF advance_scroll_momentum, Swallows, Passes
<1>2. Alike(p, p)
  BY DEF Alike, SameContact, SamePress, SameRegions
<1>3. "none" \in Momenta
  BY DEF Momenta
<1> QED
  BY <1>1, <1>2, <1>3, MomentumSet

\* A tick goes on with the momentum of a page, or fails and lets go of everything.
LEMMA TickIsSound ==
  ASSUME Sound(engine, desk), EngineTick PROVE Sound(engine', desk')
<1>1. /\ engine \in Engines /\ desk \in Desks /\ Books(engine, desk)
      /\ HeldIn(engine, engine.previous) /\ PadsSafe(engine, desk.early) /\ LatchesOwned(engine)
      /\ engine.previous = NoAction => NoRegions(engine) /\ NothingHeld(engine)
  BY DEF Sound
<1>2. CASE \E ends \in [SideSet -> BOOLEAN] :
             /\ engine' = [engine EXCEPT !.pads = [s \in SideSet |->
                             IF pad_momentum_pending(s)
                             THEN advance_scroll_momentum(@[s], ends[s]).pad ELSE @[s]]]
             /\ UNCHANGED desk
  <2>1. PICK ends \in [SideSet -> BOOLEAN] :
             /\ engine' = [engine EXCEPT !.pads = [s \in SideSet |->
                             IF pad_momentum_pending(s)
                             THEN advance_scroll_momentum(engine.pads[s], ends[s]).pad ELSE engine.pads[s]]]
             /\ desk' = desk
    BY <1>2
  <2> DEFINE pads == [s \in SideSet |-> IF pad_momentum_pending(s)
                        THEN advance_scroll_momentum(engine.pads[s], ends[s]).pad ELSE engine.pads[s]]
  <2>2. ASSUME NEW s \in SideSet
        PROVE  pads[s] \in Pads /\ Alike(engine.pads[s], pads[s]) /\ pads[s].filter = engine.pads[s].filter
    <3>1. engine.pads[s] \in Pads
      BY <1>1, EngineFacts
    <3>2. Alike(engine.pads[s], engine.pads[s])
      BY DEF Alike, SameContact, SamePress, SameRegions
    <3>3. CASE pad_momentum_pending(s)
      <4>1. pads[s] = advance_scroll_momentum(engine.pads[s], ends[s]).pad
        BY <3>3
      <4> QED
        BY <3>1, <4>1, MomentumGoesOn
    <3>4. CASE ~pad_momentum_pending(s)
      <4>1. pads[s] = engine.pads[s]
        BY <3>4
      <4> QED
        BY <3>1, <3>2, <4>1
    <3> QED
      BY <3>3, <3>4
  <2>3. pads \in [SideSet -> Pads]
    BY <2>2
  <2>4. engine' = [engine EXCEPT !.pads = pads]
    BY <2>1
  <2> HIDE DEF pads
  <2>5. engine' \in Engines
    BY <1>1, <2>3, <2>4 DEF Engines
  <2>6. /\ engine'.profile = engine.profile /\ engine'.previous = engine.previous
        /\ engine'.blocked = engine.blocked
        /\ engine'.active = engine.active /\ engine'.counts = engine.counts /\ engine'.pads = pads
        /\ engine'.latches = engine.latches
    BY <1>1, <2>4 DEF Engines
  <2>7. Books(engine', desk')
    <3>1. \A o \in Outputs, w \in Owners : Owes(engine', w, o) <=> Owes(engine, w, o)
      BY <2>6 DEF Owes, ActionOf
    <3>2. \A o \in Outputs : Owed(engine', o) = Owed(engine, o)
      BY <3>1 DEF Owed
    <3> QED
      BY <1>1, <2>1, <2>6, <3>2 DEF Books
  <2>8. HeldIn(engine', engine'.previous)
    BY <1>1, <2>6 DEF HeldIn
  <2>9. PadsSafe(engine', desk'.early)
    <3> SUFFICES ASSUME NEW s \in SideSet
                 PROVE  PadOwns(pads[s]) /\ PadFrozen(pads[s], engine.profile.pads[s], Excused(s, desk.early))
      BY <2>1, <2>6 DEF PadsSafe
    <3>1. PadOwns(engine.pads[s]) /\ PadFrozen(engine.pads[s], engine.profile.pads[s], Excused(s, desk.early))
      BY <1>1 DEF PadsSafe
    <3>2. Alike(engine.pads[s], pads[s]) /\ pads[s].filter = engine.pads[s].filter
      BY <2>2
    <3> QED
      BY <3>1, <3>2 DEF Alike, SameContact, SamePress, SameRegions, PadOwns, PadFrozen
  <2>10. LatchesOwned(engine')
    <3> SUFFICES ASSUME NEW s \in SideSet
                 PROVE  PadLatched(pads[s], engine.latches[s], engine.profile.pads[s])
      BY <2>6 DEF LatchesOwned
    <3>1. PadLatched(engine.pads[s], engine.latches[s], engine.profile.pads[s])
      BY <1>1 DEF LatchesOwned
    <3>2. SameRegions(engine.pads[s], pads[s])
      BY <2>2 DEF Alike
    <3> QED
      BY <3>1, <3>2 DEF SameRegions, PadLatched
  <2>11. engine'.previous # NoAction
    BY <2>6 DEF EngineTick, needs_tick
  <2> QED
    BY <1>1, <2>1, <2>5, <2>7, <2>8, <2>9, <2>10, <2>11 DEF Sound
<1>3. CASE \E dead \in BOOLEAN :
             EndWith([release_all(Start(0, dead)) EXCEPT !.e.pads = BlockPads(@)], desk.early)
  <2>1. PICK dead \in BOOLEAN :
             EndWith([release_all(Start(0, dead)) EXCEPT !.e.pads = BlockPads(@)], desk.early)
    BY <1>3
  <2> DEFINE r == Start(0, dead)
             q == release_all(r)
             z == [q EXCEPT !.e.pads = BlockPads(@)]
             early == desk.early
             previous == engine.previous
             blocked == engine.blocked
             l == engine.profile
             e == z.e
             d == [down |-> q.down, stuck |-> q.stuck, early |-> early]
  <2>2. engine' = z.e /\ desk' = [down |-> z.down, stuck |-> z.stuck, early |-> early]
    BY <2>1 DEF EndWith
  <2>3. r \in EngineRuns
    BY SoundStart
  <2>4. IsKnown(r)
    BY SoundStart
  <2>5. r.e = engine
    BY SoundStart
  <2> HIDE DEF r
  <2>6. q \in EngineRuns /\ q.e.previous = previous /\ q.e.blocked = blocked /\ q.e.profile = l
    BY <2>3, <2>4, <2>5, ReleaseAllClears
  <2>7. q = release_all(r)
    OBVIOUS
  <2>8. q.e \in Engines
    BY <2>6, RunFacts
  <2>9. z.e = [q.e EXCEPT !.pads = BlockPads(q.e.pads)] /\ z.down = q.down /\ z.stuck = q.stuck
    <3> HIDE DEF q
    <3> QED
      BY <2>6, <2>8 DEF EngineRuns, Engines
  <2> HIDE DEF q, z
  <2>10. e = [q.e EXCEPT !.profile = l, !.previous = previous, !.blocked = blocked, !.pads = BlockPads(q.e.pads)]
    <3> HIDE DEF previous, blocked, l, early
    <3>1. q.e = [q.e EXCEPT !.profile = l, !.previous = previous, !.blocked = blocked]
      BY <2>6, <2>8 DEF Engines
    <3> QED
      BY ONLY <2>8, <2>9, <3>1 DEF Engines, e
  <2>11. l \in Layouts
    BY <1>1, EngineFacts
  <2>12. previous \in (SUBSET ControlSet) \cup {NoAction}
    BY <1>1, EngineFacts
  <2>13. blocked \in SUBSET ControlSet
    BY <1>1, EngineFacts
  <2>14. early \in SUBSET SideSet
    BY <1>1 DEF Desks
  <2>15. PadsSafe(r.e, early)
    BY <1>1, <2>5
  <2>16. d = [down |-> q.down, stuck |-> q.stuck, early |-> early]
    OBVIOUS
  <2>17. early = early \/ early = {s \in early : BlockPads(q.e.pads)[s].held}
    OBVIOUS
  <2>18. desk' = d
    BY <2>2, <2>9
  <2> HIDE DEF early, previous, blocked, l, e, d
  <2>19. EndsIn(r, early, q, l, previous, blocked, early, e, d)
    BY ONLY <2>3, <2>4, <2>7, <2>10, <2>11, <2>12, <2>13, <2>14, <2>15, <2>16, <2>17 DEF EndsIn
  <2>20. Sound(e, d)
    BY ONLY <2>19, ReleasedIsSound
  <2> QED
    BY <2>2, <2>18, <2>20 DEF e
<1> QED
  BY <1>2, <1>3 DEF EngineTick
\* A snapshot that is carried out: the run of observe_snapshot after its passes.
LEMMA PassesKeep ==
  ASSUME Sound(engine, desk), engine.previous # NoAction, NEW mask \in SUBSET ControlSet,
         NEW samples \in [SideSet -> PadSamples], NEW left \in Int, NEW dead \in BOOLEAN,
         NEW begun, begun = [Start(left, dead) EXCEPT !.e.blocked = @ \cap mask],
         NEW r, r = process_pads(apply_changes(begun, mask), samples)
  PROVE  /\ r \in EngineRuns /\ Booked(r) /\ PadsSafe(r.e, desk.early)
         /\ ~r.failed => LatchesOwned(r.e) /\ HeldIn(r.e, mask)
<1> DEFINE s == Start(left, dead)
           blocked == engine.blocked \cap mask
           e == [engine EXCEPT !.blocked = blocked]
           x == apply_changes(begun, mask)
           early == desk.early
<1>1. /\ engine \in Engines /\ HeldIn(engine, engine.previous) /\ PadsSafe(engine, early)
      /\ LatchesOwned(engine)
  BY DEF Sound
<1>2. /\ s \in EngineRuns /\ s.e = engine /\ s.down = desk.down /\ s.stuck = desk.stuck
      /\ ~s.failed /\ Booked(s)
  BY SoundStart
<1>3. begun = [s EXCEPT !.e.blocked = @ \cap mask]
  OBVIOUS
<1>4. blocked \in SUBSET ControlSet /\ blocked \subseteq engine.blocked
  BY <1>1, EngineFacts
<1> HIDE DEF s
<1>5. begun = [s EXCEPT !.e = e]
  BY <1>2, <1>3 DEF EngineRuns
<1> HIDE DEF blocked
<1>6. e \in Engines
  BY <1>1, <1>4 DEF Engines
<1>7. /\ e.profile = engine.profile /\ e.previous = engine.previous /\ e.blocked = blocked
      /\ e.active = engine.active /\ e.counts = engine.counts /\ e.pads = engine.pads
      /\ e.latches = engine.latches
  BY <1>1 DEF Engines
<1> HIDE DEF e
<1>8. begun \in EngineRuns
  BY <1>2, <1>5, <1>6 DEF EngineRuns
<1>9. begun.e = e /\ begun.down = s.down /\ begun.stuck = s.stuck /\ begun.failed = s.failed
  BY <1>2, <1>5, <1>6 DEF EngineRuns
<1>10. Booked(begun)
  <2>1. OwedIn(begun.e) = OwedIn(s.e)
    BY <1>2, <1>7, <1>9, SameActions
  <2>2. SameSink(s, begun)
    BY <1>2, <1>7, <1>9 DEF SameSink
  <2> QED
    BY <1>2, <2>1, <2>2, SameSinkIsFine DEF Booked
<1>11. HeldIn(begun.e, begun.e.previous)
  BY <1>1, <1>4, <1>7, <1>9 DEF HeldIn
<1>12. ~begun.failed
  BY <1>2, <1>9
<1>13. /\ x \in EngineRuns /\ Booked(x) /\ ActiveOnly(begun, x)
       /\ ~x.failed => HeldIn(x.e, mask)
  BY <1>8, <1>10, <1>11, <1>12, ApplyChangesKeeps
<1>14. r = process_pads(x, samples)
  OBVIOUS
<1> HIDE DEF x
<1>15. SidesKept(x, early, x)
  <2>1. x.e.profile = engine.profile /\ x.e.pads = engine.pads /\ x.e.latches = engine.latches
    BY <1>7, <1>9, <1>13 DEF ActiveOnly
  <2>2. PadsSafe(x.e, early) /\ LatchesOwned(x.e)
    BY <1>1, <2>1 DEF PadsSafe, LatchesOwned
  <2> QED
    BY <1>13, <2>2 DEF SidesKept, SameButtons
<1> HIDE DEF early
<1>16. SidesKept(x, early, r)
  BY <1>14, <1>15, ProcessPadsKeeps
<1>17. /\ r \in EngineRuns /\ Booked(r) /\ SameButtons(x, r) /\ (x.failed => r = x)
       /\ PadsSafe(r.e, early) /\ (~r.failed => LatchesOwned(r.e))
  BY <1>16 DEF SidesKept
<1>18. ~r.failed => HeldIn(r.e, mask)
  BY <1>13, <1>17 DEF SameButtons, HeldIn
<1> QED
  BY <1>17, <1>18 DEF early

\* Every snapshot after the baseline, whether the sink fails in it or not.
LEMMA SnapshotIsSound ==
  ASSUME Sound(engine, desk), SeeSnapshot PROVE Sound(engine', desk')
<1>1. PICK mask \in SUBSET ControlSet, samples \in [SideSet -> PadSamples],
           left \in (0 .. MaxCalls) \cup {Enough}, dead \in BOOLEAN :
        \E r \in {SnapshotSeen(mask, samples, left, dead)} :
          EndWith(r, {s \in desk.early : r.e.pads[s].held})
  BY DEF SeeSnapshot
<1> DEFINE begun == [Start(left, dead) EXCEPT !.e.blocked = @ \cap mask]
           r == process_pads(apply_changes(begun, mask), samples)
           seen == [r EXCEPT !.e.previous = mask]
           q == release_all(seen)
           z == IF ~r.failed THEN seen ELSE [q EXCEPT !.e.blocked = mask, !.e.pads = BlockPads(@)]
           early == desk.early
           rest == {s \in early : z.e.pads[s].held}
<1>2. z = SnapshotSeen(mask, samples, left, dead)
  BY DEF SnapshotSeen
<1>3. engine' = z.e /\ desk' = [down |-> z.down, stuck |-> z.stuck, early |-> rest]
  BY <1>1, <1>2 DEF EndWith
<1>4. left \in Int
  BY DEF Enough
<1>5. engine.previous # NoAction /\ mask # NoAction
  BY BindingsAssumption DEF SeeSnapshot
<1>6. /\ r \in EngineRuns /\ Booked(r) /\ PadsSafe(r.e, early)
      /\ ~r.failed => LatchesOwned(r.e) /\ HeldIn(r.e, mask)
  BY <1>4, <1>5, PassesKeep
<1>7. early \in SUBSET SideSet
  BY DEF Sound, Desks
<1> HIDE DEF r, early
<1>8. r.e \in Engines /\ r.down \in SUBSET Outputs /\ r.stuck \in SUBSET Outputs
  BY <1>6, RunFacts
<1> DEFINE a == [r.e EXCEPT !.previous = mask]
<1>9. a \in Engines
  BY <1>8 DEF Engines
<1>10. /\ a.profile = r.e.profile /\ a.previous = mask /\ a.blocked = r.e.blocked
       /\ a.active = r.e.active /\ a.counts = r.e.counts /\ a.pads = r.e.pads
       /\ a.latches = r.e.latches
  BY <1>8 DEF Engines
<1>11. seen = [r EXCEPT !.e = a]
  BY <1>6 DEF EngineRuns
<1> HIDE DEF a
<1>12. seen \in EngineRuns
  BY <1>6, <1>9, <1>11 DEF EngineRuns
<1>13. seen.e = a /\ seen.down = r.down /\ seen.stuck = r.stuck /\ seen.failed = r.failed
  BY <1>6, <1>9, <1>11 DEF EngineRuns
<1> HIDE DEF seen
<1>14. PadsSafe(seen.e, early)
  BY <1>6, <1>10, <1>13 DEF PadsSafe
<1>15. CASE ~r.failed
  <2>1. z = seen
    BY <1>15
  <2> HIDE DEF z
  <2>2. engine' = a /\ desk' = [down |-> r.down, stuck |-> r.stuck, early |-> rest] /\ rest = {s \in early : a.pads[s].held}
    BY <1>3, <1>13, <2>1
  <2>3. rest \in SUBSET SideSet
    BY <1>7
  <2> HIDE DEF rest
  <2>4. desk' \in Desks /\ desk'.down = r.down /\ desk'.stuck = r.stuck /\ desk'.early = rest
    BY <1>8, <2>2, <2>3 DEF Desks
  <2>5. PadsSafe(a, rest)
    BY <1>13, <1>14, <2>2, ExcusedWhileHeld
  <2>6. OwedIn(a) = OwedIn(r.e)
    BY <1>10, SameActions
  <2>7. IsCounted(r, OwedIn(r.e))
    BY <1>6, <1>15 DEF Booked, Fine
  <2>8. \A o \in Outputs : OwedIn(a)[o] = Owed(a, o)
    BY DEF OwedIn
  <2>9. Books(a, desk')
    BY <1>10, <2>4, <2>6, <2>7, <2>8 DEF Books, IsCounted
  <2>10. HeldIn(a, a.previous) /\ LatchesOwned(a)
    BY <1>6, <1>10, <1>15 DEF HeldIn, LatchesOwned
  <2>11. a.previous # NoAction
    BY <1>5, <1>10
  <2> QED
    BY <1>9, <2>2, <2>4, <2>5, <2>9, <2>10, <2>11 DEF Sound
<1>16. CASE r.failed
  <2> DEFINE l == r.e.profile
             d == [down |-> q.down, stuck |-> q.stuck, early |-> rest]
             e == z.e
  <2>1. z = [q EXCEPT !.e.blocked = mask, !.e.pads = BlockPads(@)]
    BY <1>16
  <2>2. IsKnown(seen)
    <3>1. IsKnown(r)
      BY <1>6, <1>16 DEF Booked, Fine
    <3> QED
      BY <1>10, <1>13, <3>1 DEF IsKnown
  <2>3. q \in EngineRuns /\ q.e.previous = mask /\ q.e.profile = l
    BY <1>10, <1>12, <1>13, <2>2, ReleaseAllClears
  <2>4. q = release_all(seen)
    OBVIOUS
  <2>5. q.e \in Engines
    BY <2>3, RunFacts
  <2> HIDE DEF q, z
  <2>6. z.e = [q.e EXCEPT !.blocked = mask, !.pads = BlockPads(q.e.pads)] /\ z.down = q.down /\ z.stuck = q.stuck
    BY <2>1, <2>3, <2>5 DEF EngineRuns, Engines
  <2>7. e = [q.e EXCEPT !.profile = l, !.previous = mask, !.blocked = mask, !.pads = BlockPads(q.e.pads)]
    <3> HIDE DEF l, begun, rest
    <3>1. q.e = [q.e EXCEPT !.profile = l, !.previous = mask]
      BY <2>3, <2>5 DEF Engines
    <3> QED
      BY <2>5, <2>6, <3>1 DEF Engines
  <2>8. z.e.pads = BlockPads(q.e.pads)
    BY <2>5, <2>6 DEF Engines
  <2>9. l \in Layouts
    BY <1>8, EngineFacts
  <2>10. mask \in (SUBSET ControlSet) \cup {NoAction}
    OBVIOUS
  <2>11. mask \in SUBSET ControlSet
    OBVIOUS
  <2>12. rest = early \/ rest = {s \in early : BlockPads(q.e.pads)[s].held}
    BY <2>8
  <2>13. d = [down |-> q.down, stuck |-> q.stuck, early |-> rest]
    OBVIOUS
  <2>14. desk' = d
    BY <1>3, <2>6
  <2> HIDE DEF l, d, e, rest
  <2>15. EndsIn(seen, early, q, l, mask, mask, rest, e, d)
    BY ONLY <1>7, <1>12, <1>14, <2>2, <2>4, <2>7, <2>9, <2>10, <2>11, <2>12, <2>13 DEF EndsIn
  <2>16. Sound(e, d)
    BY ONLY <2>15, ReleasedIsSound
  <2> QED
    BY <1>3, <2>14, <2>16 DEF e
<1> QED
  BY <1>15, <1>16

\* HeldIsOwed holds after any sequence of baselines, snapshots, ticks, new
\* profiles and disconnects, with a sink that may fail in each of them.
THEOREM EngineHoldsWhatIsOwed == EngineSpec => []HeldIsOwed
<1>1. EngineInit => Sound(engine, desk)
  BY InitIsSound
<1>2. Sound(engine, desk) /\ [EngineNext]_engineVars => Sound(engine, desk)'
  <2> SUFFICES ASSUME Sound(engine, desk), [EngineNext]_engineVars PROVE Sound(engine, desk)'
    OBVIOUS
  <2>1. CASE Baseline
    BY <2>1, BaselineIsSound
  <2>2. CASE SeeSnapshot
    BY <2>2, SnapshotIsSound
  <2>3. CASE EngineTick
    BY <2>3, TickIsSound
  <2>4. CASE EngineReplaceProfile
    BY <2>4, ReplaceIsSound
  <2>5. CASE EngineDisconnect
    BY <2>5, DisconnectIsSound
  <2>6. CASE UNCHANGED engineVars
    BY <2>6 DEF engineVars
  <2> QED
    BY <2>1, <2>2, <2>3, <2>4, <2>5, <2>6 DEF EngineNext
<1>3. Sound(engine, desk) => HeldIsOwed
  BY SoundIsOwed
<1> QED
  BY <1>1, <1>2, <1>3, PTL DEF EngineSpec
=============================================================================
