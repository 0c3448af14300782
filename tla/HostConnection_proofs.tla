----------------------- MODULE HostConnection_proofs ------------------------
(***************************************************************************)
(* What TLAPS proves of the bridge output, for any states, intervals,      *)
(* capacity of the queue and number of messages a poll reads: the bridge   *)
(* plays the newest state, the deadlines of both ends are kept, and a      *)
(* control request succeeds only on the answer it was given.               *)
(*                                                                         *)
(* The three rest on one invariant, HostInv.  Between calls an open session*)
(* is Good: what it refreshes is what the engine asked for last            *)
(* (Delivered), its refresh clock is no younger than the last state the    *)
(* device heard (Refreshed), its ping clocks no younger than the last sign *)
(* of life (Unanswered), and an answer that waits in it was read after the *)
(* request that awaits it (Known).                                         *)
(*                                                                         *)
(* Inside a call the same is said of a session at work, relative to the    *)
(* context the call began in: Kept(x) is the set of sessions that have     *)
(* failed or are Good in x, and every step of a poll, whatever is read and *)
(* whichever write the port refuses, maps Kept(x) into itself.  A batch of *)
(* messages is a recursion over its length: the induction is over the set  *)
(* of lengths for which it stays inside Kept(x) (SetInduction).            *)
(***************************************************************************)
EXTENDS HostTiming, RecursionTheorems, SequenceTheorems, FiniteSetTheorems, TLAPS

-----------------------------------------------------------------------------
(* The batch that a poll reads.                                            *)

\* One message more.
Further(outcomes) ==
  outcomes \cup {handle_message(t, m) : t \in outcomes, m \in DeviceMessages}
Run(s, n, f) ==
  f = [i \in 0 .. n |-> IF i = 0 THEN {s} ELSE Further(f[i - 1])]

LEMMA RunSteps ==
  ASSUME NEW s, NEW n \in Nat, NEW f, Run(s, n, f), NEW i \in 1 .. n,
         NEW k, k = i - 1
  PROVE  f[i] = Further(f[k])
<1>1. i \in 0 .. n /\ i # 0
  OBVIOUS
<1>2. f[i] = [j \in 0 .. n |-> IF j = 0 THEN {s} ELSE Further(f[j - 1])][i]
  BY Zenon DEF Run
<1> QED
  BY <1>1, <1>2

LEMMA RunsExist ==
  ASSUME NEW s, NEW n \in Nat
  PROVE  \E f : Run(s, n, f)
<1> DEFINE S == {i \in Nat : \E f : Run(s, i, f)}
<1>1. 0 \in S
  <2> DEFINE f == [i \in 0 .. 0 |-> {s}]
  <2>1. Run(s, 0, f)
    BY DEF Run
  <2> QED
    BY <2>1
<1>2. ASSUME NEW i \in Nat, i \in S PROVE i + 1 \in S
  <2>1. PICK f : Run(s, i, f)
    BY <1>2
  <2> DEFINE g == [j \in 0 .. i + 1 |-> IF j <= i THEN f[j] ELSE Further(f[i])]
  <2>2. ASSUME NEW j \in 0 .. i + 1
        PROVE  g[j] = IF j = 0 THEN {s} ELSE Further(g[j - 1])
    <3>1. CASE j = 0
      <4>1. f[0] = {s}
        BY <2>1 DEF Run
      <4> QED
        BY <3>1, <4>1
    <3>2. CASE j # 0 /\ j <= i
      <4>1. f[j] = Further(f[j - 1])
        <5>1. j \in 1 .. i
          BY <3>2
        <5> QED
          BY <2>1, <5>1, RunSteps
      <4>2. g[j] = f[j] /\ g[j - 1] = f[j - 1]
        BY <3>2
      <4> QED
        BY <3>2, <4>1, <4>2
    <3>3. CASE j = i + 1
      <4>1. ~(j <= i) /\ j # 0 /\ j - 1 = i /\ i \in 0 .. i + 1 /\ j \in 0 .. i + 1 /\ i <= i
        BY <3>3
      <4>2. g[j] = Further(f[i])
        BY <4>1
      <4>3. g[i] = f[i]
        BY <4>1
      <4>4. g[j - 1] = f[i]
        BY <4>1, <4>3
      <4> QED
        BY <4>1, <4>2, <4>4
    <3> QED
      BY <3>1, <3>2, <3>3
  <2>3. Run(s, i + 1, g)
    <3> DEFINE h == [j \in 0 .. i + 1 |-> IF j = 0 THEN {s} ELSE Further(g[j - 1])]
    <3>1. g = h
      <4>1. DOMAIN g = 0 .. i + 1 /\ DOMAIN h = 0 .. i + 1
        OBVIOUS
      <4>2. \A j \in 0 .. i + 1 : g[j] = h[j]
        BY <2>2
      <4> HIDE DEF g
      <4>3. g = [j \in 0 .. i + 1 |-> g[j]]
        BY DEF g
      <4> QED
        BY <4>2, <4>3
    <3> QED
      BY <3>1 DEF Run
  <2> QED
    BY <2>3
<1>3. n \in S
  BY <1>1, <1>2, SetInduction
<1> QED
  BY <1>3

\* What one message keeps, any batch keeps.
LEMMA BatchKeeps ==
  ASSUME NEW G, NEW s \in G,
         \A t \in G, m \in DeviceMessages : handle_message(t, m) \in G
  PROVE  Handled(s) \subseteq G
<1> DEFINE f == CHOOSE f : Run(s, BatchLimit, f)
<1>0. BatchLimit \in Nat
  BY LimitAssumption
<1>1. Run(s, BatchLimit, f)
  BY <1>0, RunsExist
<1>2. Handled(s) = f[BatchLimit]
  BY DEF Handled, Run, Further
<1> HIDE DEF f
<1> DEFINE S == {i \in Nat : i <= BatchLimit => f[i] \subseteq G}
<1>3. 0 \in S
  BY <1>0, <1>1 DEF Run
<1>4. ASSUME NEW i \in Nat, i \in S PROVE i + 1 \in S
  <2>1. SUFFICES ASSUME i + 1 <= BatchLimit PROVE f[i + 1] \subseteq G
    OBVIOUS
  <2>2. f[i] \subseteq G
    BY <1>0, <1>4, <2>1
  <2>3. f[i + 1] = Further(f[i])
    <3>1. i + 1 \in 1 .. BatchLimit /\ i = i + 1 - 1
      BY <1>0, <2>1
    <3> QED
      BY <1>0, <1>1, <3>1, RunSteps
  <2> QED
    BY <2>2, <2>3 DEF Further
<1>5. BatchLimit \in S
  <2> HIDE DEF S
  <2> QED
    BY <1>0, <1>3, <1>4, SetInduction
<1> QED
  BY <1>0, <1>2, <1>5


-----------------------------------------------------------------------------
(* Sessions.                                                               *)

LEMMA Limits ==
  /\ QueueCapacity \in Nat /\ QueueCapacity > 0 /\ SeqModulus \in Nat /\ SeqModulus > 0
  /\ BatchLimit \in Nat /\ ServiceTicks \in Nat /\ RefreshTicks \in Nat /\ RefreshTicks > 0
  /\ PingTicks \in Nat /\ PingTicks > 0 /\ PongTicks \in Nat /\ PongTicks > 0
  /\ GraceTicks \in Nat /\ GraceTicks > 0
  BY LimitAssumption

Slots == States \cup {NoState}
Active(a) == a \in States \ {Neutral}
Sequences == 0 .. SeqModulus - 1
Pings == [nonce : Sequences, age : 0 .. PongTicks] \cup {None}

\* What may be written while the engine asks for a.
Letters(a) ==
  {Hello, NeutralNow, Pong} \cup [type : {"Ping"}, nonce : Sequences]
    \cup [type : {"GamepadState"}, state : States \cap {a}]
    \cup [type : {"EnterUf2Bootloader"}, id : RequestIds]
    \cup [type : {"RecordInstallReceipt"}, id : RequestIds, receipt : Receipts]
Wires(a) == Seq([sequence : Sequences, message : Letters(a)])

Links(a) ==
  [status : {"Handshaking", "Ready"}, sequence : Sequences, queued : Seq(States \cap {a}),
   since_ping : 0 .. PingTicks, pending_ping : Pings,
   last_state : (States \ {Neutral}) \cup {NoState}, since_state : -1 .. RefreshTicks,
   pending_feedback : Rumbles \cup {None},
   firmware : {"Pending", "Reported", "Capable", "Unreported"},
   since_ready : -1 .. GraceTicks,
   uf2_bootloader_ready : RequestIds \cup {None},
   install_receipt_recorded : [id : RequestIds, receipt : Receipts] \cup {None},
   control_error : RequestIds \cup {None}]

SessionsOver(links, a, polls) ==
  [c : links, last_poll : polls, wire : Wires(a), told : Slots, writes : Nat,
   heard : SUBSET Answers, alive : BOOLEAN, failed : BOOLEAN]
Live(a, polls) == SessionsOver(Links(a), a, polls)

Wrote(frames) == \E i \in 1 .. Len(frames) : frames[i].message.type = "GamepadState"

\* What writing changes of a session.
Writes(s, w, m) ==
  /\ w.wire = Append(s.wire, [sequence |-> s.c.sequence, message |-> m])
  /\ w.told = Tells(m, s.told)
  /\ \E q \in Sequences : w.c = [s.c EXCEPT !.sequence = q]
  /\ w.last_poll = s.last_poll /\ w.heard = s.heard /\ w.alive = s.alive
  /\ ~w.failed

LEMMA WriteIs ==
  ASSUME NEW a \in Slots, NEW polls, NEW s \in Live(a, polls), NEW m \in Letters(a)
  PROVE  LET w == write_message(s, m)
         IN  /\ w \in Live(a, polls)
             /\ w.failed \/ Writes(s, w, m)
<1> DEFINE w == write_message(s, m)
           frame == [sequence |-> s.c.sequence, message |-> m]
           q == (s.c.sequence + 1) % SeqModulus
           told == Tells(m, s.told)
           written == [s EXCEPT !.wire = Append(s.wire, frame), !.told = told,
                                !.writes = s.writes - 1, !.c.sequence = q]
<1>1. /\ s.c \in Links(a) /\ s.wire \in Wires(a) /\ s.told \in Slots /\ s.writes \in Nat
      /\ s.failed \in BOOLEAN
  BY DEF Live, SessionsOver
<1>2. CASE s.failed
  BY <1>1, <1>2 DEF write_message
<1>3. CASE ~s.failed /\ s.writes = 0
  <2>1. w = [s EXCEPT !.failed = TRUE]
    BY <1>3 DEF write_message, Fail
  <2>2. w \in Live(a, polls) /\ w.failed
    BY <2>1 DEF Live, SessionsOver
  <2> QED
    BY <2>2
<1>4. CASE ~s.failed /\ s.writes # 0
  <2>1. w = written
    BY <1>4 DEF write_message
  <2>2. q \in Sequences
    <3>1. s.c.sequence + 1 \in Nat
      BY <1>1 DEF Links, Sequences
    <3> QED
      BY <3>1, Limits DEF Sequences
  <2>3. told \in Slots
    BY <1>1, StateAssumption DEF Letters, Tells, Slots, Hello, NeutralNow, Pong
  <2>4. frame \in [sequence : Sequences, message : Letters(a)]
    BY <1>1 DEF Links
  <2>5. Append(s.wire, frame) \in Wires(a)
    BY <1>1, <2>4 DEF Wires
  <2>6. s.writes - 1 \in Nat
    BY <1>1, <1>4
  <2> HIDE DEF q, told, frame
  <2>7. [s.c EXCEPT !.sequence = q] \in Links(a)
    BY <1>1, <2>2 DEF Links
  <2>8. written \in Live(a, polls)
    BY <2>3, <2>5, <2>6, <2>7 DEF Live, SessionsOver
  <2>9. /\ written.wire = Append(s.wire, frame) /\ written.told = told
        /\ written.c = [s.c EXCEPT !.sequence = q]
        /\ written.last_poll = s.last_poll /\ written.heard = s.heard /\ written.alive = s.alive
        /\ written.failed = s.failed
    BY DEF Live, SessionsOver
  <2>10. Writes(s, written, m)
    BY <1>4, <2>2, <2>9 DEF Writes, told, frame
  <2> QED
    BY <2>1, <2>8, <2>10
<1> QED
  BY <1>1, <1>2, <1>3, <1>4

-----------------------------------------------------------------------------
(* What every step of a call keeps, until the call fails.                  *)

\* What a call starts from: the state the engine asks for, what the device
\* holds, the answers a request may count on, and the age of the last state
\* and of the last sign of life.
Contexts ==
  [asked : Slots, device : Slots, answers : SUBSET Answers, status : {{"Ready"}, {"Handshaking", "Ready"}},
   polls : {-1 .. ServiceTicks, 0 .. ServiceTicks}, told : Nat, alive : Nat]

\* Only a session that holds a state refreshes it.
Steady(c) == (c.since_state = -1) <=> (c.last_state = NoState)
\* Once the queue is flushed, the state that is refreshed is the newest.
Current(c, x) == c.queued = << >> => c.last_state \in {x.asked, NoState}
\* Once the queue is flushed, the device holds what the engine asks for.
Delivered(s, x) ==
  Active(x.asked) /\ s.c.queued = << >> =>
    /\ s.c.last_state = x.asked
    /\ s.told = x.asked \/ (s.told = NoState /\ x.device = x.asked)
\* An answer that waits in the connection has been read.
Known(s, x) ==
  /\ s.c.uf2_bootloader_ready # None =>
       [type |-> "Uf2BootloaderReady", id |-> s.c.uf2_bootloader_ready] \in x.answers \cup s.heard
  /\ s.c.install_receipt_recorded # None =>
       [type |-> "InstallReceiptRecorded", id |-> s.c.install_receipt_recorded.id,
        receipt |-> s.c.install_receipt_recorded.receipt] \in x.answers \cup s.heard
\* The refresh clock is no younger than the last state written.
Refreshed(s, x) ==
  Active(x.asked) /\ s.c.queued = << >> =>
    Wrote(s.wire) \/ (s.c.since_state < RefreshTicks => x.told <= s.c.since_state)
\* The ping clocks are no younger than the last sign of life.
Unanswered(c, silence) ==
  IF c.pending_ping = None
  THEN silence <= PingTicks + ServiceTicks /\ (c.since_ping < PingTicks => silence <= c.since_ping)
  ELSE c.pending_ping.age < PongTicks =>
         silence <= PingTicks + ServiceTicks + c.pending_ping.age
Answering(s, x) == s.c.status = "Ready" => s.alive \/ Unanswered(s.c, x.alive)

Good(s, x) ==
  /\ Steady(s.c) /\ Current(s.c, x) /\ Delivered(s, x) /\ Known(s, x)
  /\ Refreshed(s, x) /\ Answering(s, x) /\ s.c.status \in x.status

Kept(x) == {s \in Live(x.asked, x.polls) : s.failed \/ Good(s, x)}

\* What a step does not look at cannot spoil it.
LEMMA Untouched ==
  ASSUME NEW x, NEW s, NEW t, Good(s, x),
         t.c.queued = s.c.queued, t.c.last_state = s.c.last_state,
         t.c.since_state = s.c.since_state, t.told = s.told,
         t.c.uf2_bootloader_ready = s.c.uf2_bootloader_ready,
         t.c.install_receipt_recorded = s.c.install_receipt_recorded,
         s.heard \subseteq t.heard, Wrote(s.wire) => Wrote(t.wire),
         t.c.status = s.c.status, t.alive = s.alive,
         t.c.pending_ping = s.c.pending_ping, t.c.since_ping = s.c.since_ping
  PROVE  Good(t, x)
<1>1. Steady(t.c) /\ Current(t.c, x) /\ t.c.status \in x.status
  BY DEF Good, Steady, Current
<1>2. Delivered(t, x)
  BY DEF Good, Delivered
<1>3. Known(t, x)
  BY DEF Good, Known
<1>4. Refreshed(t, x)
  BY DEF Good, Refreshed
<1>5. Answering(t, x)
  BY DEF Good, Answering, Unanswered
<1> QED
  BY <1>1, <1>2, <1>3, <1>4, <1>5 DEF Good

LEMMA WroteStays ==
  ASSUME NEW a, NEW w \in Wires(a), NEW f, Wrote(w)
  PROVE  Wrote(Append(w, f))
<1>1. PICK i \in 1 .. Len(w) : w[i].message.type = "GamepadState"
  BY DEF Wrote
<1>2. i \in 1 .. Len(Append(w, f)) /\ Append(w, f)[i] = w[i]
  BY DEF Wires
<1> QED
  BY <1>1, <1>2 DEF Wrote

LEMMA WroteNow ==
  ASSUME NEW a, NEW w \in Wires(a), NEW f, f.message.type = "GamepadState"
  PROVE  Wrote(Append(w, f))
<1>1. Len(w) + 1 \in 1 .. Len(Append(w, f)) /\ Append(w, f)[Len(w) + 1] = f
  BY DEF Wires
<1> QED
  BY <1>1 DEF Wrote

\* Pings and their answers disturb nothing.
LEMMA PingsKeep ==
  ASSUME NEW x \in Contexts, NEW s \in Kept(x), NEW m \in Letters(x.asked),
         m.type \in {"Ping", "Pong"}
  PROVE  write_message(s, m) \in Kept(x)
<1> DEFINE w == write_message(s, m)
<1>0. s \in Live(x.asked, x.polls) /\ x.asked \in Slots /\ s.wire \in Wires(x.asked)
  BY DEF Kept, Contexts, Live, SessionsOver
<1>1. w \in Live(x.asked, x.polls) /\ (w.failed \/ Writes(s, w, m))
  BY <1>0, WriteIs
<1>2. CASE w.failed
  BY <1>1, <1>2 DEF Kept
<1>3. CASE ~w.failed
  <2>1. Good(s, x)
    BY <1>3 DEF Kept, write_message
  <2>2. Writes(s, w, m)
    BY <1>1, <1>3
  <2>3. w.told = s.told
    BY <2>2 DEF Writes, Tells
  <2>4. Wrote(s.wire) => Wrote(w.wire)
    BY <1>0, <2>2, WroteStays DEF Writes
  <2>5. PICK q \in Sequences : w.c = [s.c EXCEPT !.sequence = q]
    BY <2>2 DEF Writes
  <2>6. s.c \in Links(x.asked)
    BY <1>0 DEF Live, SessionsOver
  <2>7. /\ w.c.queued = s.c.queued /\ w.c.last_state = s.c.last_state
        /\ w.c.since_state = s.c.since_state
        /\ w.c.uf2_bootloader_ready = s.c.uf2_bootloader_ready
        /\ w.c.install_receipt_recorded = s.c.install_receipt_recorded
        /\ w.c.status = s.c.status
        /\ w.c.pending_ping = s.c.pending_ping /\ w.c.since_ping = s.c.since_ping
    BY <2>5, <2>6 DEF Links
  <2> HIDE DEF w
  <2>8. Good(w, x)
    BY <2>1, <2>2, <2>3, <2>4, <2>7, Untouched DEF Writes
  <2> QED
    BY <1>1, <2>8 DEF Kept, w
<1> QED
  BY <1>2, <1>3

LEMMA MessageFields ==
  ASSUME NEW m \in DeviceMessages
  PROVE  /\ m.type \in {"HelloResponse", "VersionRejected", "Ping", "Noise", "DeviceInfo", "Pong", "Rumble",
                        "Uf2BootloaderReady", "Error", "InstallReceiptRecorded"}
         /\ m.type = "Rumble" => m.rumble \in Rumbles
         /\ m.type \in {"Uf2BootloaderReady", "Error"} =>
              m.id \in RequestIds /\ m \in Answers /\ m = [type |-> m.type, id |-> m.id]
         /\ m.type = "InstallReceiptRecorded" =>
              /\ m.id \in RequestIds /\ m.receipt \in Receipts /\ m \in Answers
              /\ m = [type |-> "InstallReceiptRecorded", id |-> m.id, receipt |-> m.receipt]
<1>1. CASE m \in [type : {"Uf2BootloaderReady", "Error"}, id : RequestIds]
  BY <1>1 DEF Answers
<1>2. CASE m \in [type : {"InstallReceiptRecorded"}, id : RequestIds, receipt : Receipts]
  BY <1>2 DEF Answers
<1>3. CASE m \in Unsolicited
  BY <1>3 DEF Unsolicited
<1> QED
  BY <1>1, <1>2, <1>3 DEF DeviceMessages, Answers

LEMMA LiveFields ==
  ASSUME NEW a, NEW polls, NEW s \in Live(a, polls)
  PROVE  /\ s = [c |-> s.c, last_poll |-> s.last_poll, wire |-> s.wire, told |-> s.told,
                 writes |-> s.writes, heard |-> s.heard, alive |-> s.alive, failed |-> s.failed]
         /\ s.c \in Links(a) /\ s.wire \in Wires(a) /\ s.told \in Slots /\ s.writes \in Nat
         /\ s.last_poll \in polls
         /\ s.heard \in SUBSET Answers /\ s.alive \in BOOLEAN /\ s.failed \in BOOLEAN
  BY DEF Live, SessionsOver

\* A session whose connection has moved, and that may have heard more.
LEMMA Moved ==
  ASSUME NEW a, NEW polls, NEW s \in Live(a, polls), NEW c \in Links(a), NEW h \in SUBSET Answers
  PROVE  /\ [s EXCEPT !.c = c] \in Live(a, polls)
         /\ [s EXCEPT !.heard = h] \in Live(a, polls)
  BY DEF Live, SessionsOver

LEMMA HearingKeeps ==
  ASSUME NEW x \in Contexts, NEW s \in Kept(x), NEW h \in SUBSET Answers
  PROVE  [s EXCEPT !.heard = s.heard \cup h] \in Kept(x)
<1> DEFINE t == [s EXCEPT !.heard = s.heard \cup h]
<1>1. s \in Live(x.asked, x.polls)
  BY DEF Kept
<1>2. s.heard \cup h \in SUBSET Answers
  BY <1>1, LiveFields
<1>3. t \in Live(x.asked, x.polls)
  BY <1>1, <1>2 DEF Live, SessionsOver
<1>4. /\ t.c = s.c /\ t.told = s.told /\ t.wire = s.wire /\ t.alive = s.alive
      /\ t.failed = s.failed /\ t.heard = s.heard \cup h
  BY <1>1 DEF Live, SessionsOver
<1>5. s.heard \subseteq t.heard
  BY <1>4
<1> HIDE DEF t
<1>6. ASSUME Good(s, x) PROVE Good(t, x)
  BY <1>4, <1>5, <1>6, Untouched
<1> QED
  BY <1>3, <1>4, <1>6 DEF Kept, t

\* An answer or a rumble is noted in the connection.
LEMMA NotingKeeps ==
  ASSUME NEW x \in Contexts, NEW s \in Kept(x), NEW c \in Links(x.asked),
         c.queued = s.c.queued, c.last_state = s.c.last_state, c.since_state = s.c.since_state,
         c.status = s.c.status, c.pending_ping = s.c.pending_ping, c.since_ping = s.c.since_ping,
         \/ c.uf2_bootloader_ready = s.c.uf2_bootloader_ready
         \/ [type |-> "Uf2BootloaderReady", id |-> c.uf2_bootloader_ready] \in s.heard,
         \/ c.install_receipt_recorded = s.c.install_receipt_recorded
         \/ [type |-> "InstallReceiptRecorded", id |-> c.install_receipt_recorded.id,
             receipt |-> c.install_receipt_recorded.receipt] \in s.heard
  PROVE  [s EXCEPT !.c = c] \in Kept(x)
<1> DEFINE t == [s EXCEPT !.c = c]
<1>1. s \in Live(x.asked, x.polls)
  BY DEF Kept
<1>2. t \in Live(x.asked, x.polls)
  BY <1>1, Moved
<1>3. /\ t.c = c /\ t.told = s.told /\ t.wire = s.wire /\ t.alive = s.alive
      /\ t.failed = s.failed /\ t.heard = s.heard
  BY <1>1 DEF Live, SessionsOver
<1> HIDE DEF t
<1>4. ASSUME Good(s, x) PROVE Good(t, x)
  <2>1. Steady(t.c) /\ Current(t.c, x) /\ t.c.status \in x.status
    BY <1>3, <1>4 DEF Good, Steady, Current
  <2>2. Delivered(t, x)
    BY <1>3, <1>4 DEF Good, Delivered
  <2>3. Known(t, x)
    <3>1. Known(s, x)
      BY <1>4 DEF Good
    <3> QED
      BY <1>3, <3>1 DEF Known
  <2>4. Refreshed(t, x)
    BY <1>3, <1>4 DEF Good, Refreshed
  <2>5. Answering(t, x)
    BY <1>3, <1>4 DEF Good, Answering, Unanswered
  <2> QED
    BY <2>1, <2>2, <2>3, <2>4, <2>5 DEF Good
<1> QED
  BY <1>2, <1>3, <1>4 DEF Kept, t

\* What the messages write into a connection.
LEMMA Noted ==
  ASSUME NEW a, NEW c \in Links(a)
  PROVE  /\ \A id \in RequestIds : [c EXCEPT !.uf2_bootloader_ready = id] \in Links(a)
         /\ \A id \in RequestIds, r \in Receipts :
              [c EXCEPT !.install_receipt_recorded = [id |-> id, receipt |-> r]] \in Links(a)
         /\ \A id \in RequestIds : [c EXCEPT !.control_error = id] \in Links(a)
         /\ \A u \in Rumbles : [c EXCEPT !.pending_feedback = u] \in Links(a)
         /\ [c EXCEPT !.status = "Ready", !.since_ready = 0] \in Links(a)
<1>1. ASSUME NEW id \in RequestIds PROVE [c EXCEPT !.uf2_bootloader_ready = id] \in Links(a)
  BY DEF Links
<1>2. ASSUME NEW id \in RequestIds, NEW r \in Receipts
      PROVE  [c EXCEPT !.install_receipt_recorded = [id |-> id, receipt |-> r]] \in Links(a)
  BY DEF Links
<1>3. ASSUME NEW id \in RequestIds PROVE [c EXCEPT !.control_error = id] \in Links(a)
  BY DEF Links
<1>4. ASSUME NEW u \in Rumbles PROVE [c EXCEPT !.pending_feedback = u] \in Links(a)
  BY DEF Links
<1>5. [c EXCEPT !.status = "Ready", !.since_ready = 0] \in Links(a)
  <2>1. 0 \in -1 .. GraceTicks
    BY Limits
  <2> QED
    BY <2>1 DEF Links
<1> QED
  BY <1>1, <1>2, <1>3, <1>4, <1>5

LEMMA FailKeeps ==
  ASSUME NEW x, NEW s \in Live(x.asked, x.polls)
  PROVE  Fail(s) \in Kept(x) /\ Fail(s).failed /\ Fail(s) \in Live(x.asked, x.polls)
<1>1. Fail(s) \in Live(x.asked, x.polls) /\ Fail(s).failed
  BY DEF Live, SessionsOver, Fail
<1> QED
  BY <1>1 DEF Kept

\* No message spoils a session.
LEMMA MessageKeeps ==
  ASSUME NEW x \in Contexts, NEW s0 \in Kept(x), NEW m \in DeviceMessages
  PROVE  handle_message(s0, m) \in Kept(x)
<1> DEFINE s == [s0 EXCEPT !.heard = s0.heard \cup ({m} \cap Answers)]
           t == handle_message(s0, m)
<1>1. s \in Kept(x)
  BY HearingKeeps
<1>2. s \in Live(x.asked, x.polls) /\ s0 \in Live(x.asked, x.polls)
  BY <1>1 DEF Kept
<1>3. s.c \in Links(x.asked) /\ x.asked \in Slots
  BY <1>2, LiveFields DEF Contexts
<1>4. m \in Answers => m \in s.heard
  BY <1>2 DEF Live, SessionsOver
<1> HIDE DEF s
<1>5. CASE s.failed
  <2>1. t = s
    BY <1>5 DEF handle_message, s
  <2> QED
    BY <1>1, <2>1
<1>6. CASE ~s.failed /\ m.type = "HelloResponse"
  <2> DEFINE c == [s.c EXCEPT !.status = "Ready", !.since_ready = 0]
             n == [s EXCEPT !.c = c, !.alive = TRUE]
  <2>1. t = [s EXCEPT !.c.status = "Ready", !.c.since_ready = 0, !.alive = TRUE]
    BY <1>6 DEF handle_message, s
  <2>2. t = n
    BY <1>2, <1>3, <2>1 DEF Live, SessionsOver, Links
  <2>3. c \in Links(x.asked)
    BY <1>3, Noted
  <2>4. n \in Live(x.asked, x.polls)
    <3>1. [s EXCEPT !.c = c] \in Live(x.asked, x.polls)
      BY <1>2, <2>3, Moved
    <3> HIDE DEF c
    <3> QED
      BY <1>2, <2>3 DEF Live, SessionsOver
  <2>5. /\ n.c = c /\ n.told = s.told /\ n.wire = s.wire /\ n.alive /\ n.heard = s.heard
        /\ n.failed = s.failed
    <3> HIDE DEF c
    <3> QED
      BY <1>2 DEF Live, SessionsOver
  <2>6. /\ c.queued = s.c.queued /\ c.last_state = s.c.last_state
        /\ c.since_state = s.c.since_state
        /\ c.uf2_bootloader_ready = s.c.uf2_bootloader_ready
        /\ c.install_receipt_recorded = s.c.install_receipt_recorded
        /\ c.status = "Ready"
    BY <1>3 DEF Links
  <2> HIDE DEF n, c
  <2>7. Good(s, x)
    BY <1>1, <1>6 DEF Kept
  <2>8. Steady(n.c) /\ Current(n.c, x) /\ n.c.status \in x.status
    BY <2>5, <2>6, <2>7 DEF Good, Steady, Current, Contexts
  <2>9. Delivered(n, x)
    BY <2>5, <2>6, <2>7 DEF Good, Delivered
  <2>10. Known(n, x)
    BY <2>5, <2>6, <2>7 DEF Good, Known
  <2>11. Refreshed(n, x)
    BY <2>5, <2>6, <2>7 DEF Good, Refreshed
  <2>12. Answering(n, x)
    BY <2>5 DEF Answering
  <2> QED
    BY <2>2, <2>4, <2>8, <2>9, <2>10, <2>11, <2>12 DEF Kept, Good
<1>7. CASE ~s.failed /\ m.type = "VersionRejected"
  <2>1. t = Fail(s)
    BY <1>7 DEF handle_message, s
  <2> QED
    BY <1>2, <2>1, FailKeeps
<1>8. CASE ~s.failed /\ m.type = "Ping"
  <2>1. t = write_message(s, Pong)
    BY <1>8 DEF handle_message, s
  <2>2. Pong \in Letters(x.asked) /\ Pong.type = "Pong"
    BY DEF Letters, Pong
  <2> QED
    BY <1>1, <2>1, <2>2, PingsKeep
<1>9. CASE ~s.failed /\ m.type = "Pong"
  <2>1. CASE ~(s.c.pending_ping # None /\ s.c.pending_ping.nonce = m.nonce)
    <3>1. t = s
      BY <1>9, <2>1 DEF handle_message, s
    <3> QED
      BY <1>1, <3>1
  <2>2. CASE s.c.pending_ping # None /\ s.c.pending_ping.nonce = m.nonce
    <3> DEFINE c == [s.c EXCEPT !.pending_ping = None]
               n == [s EXCEPT !.c = c, !.alive = TRUE]
    <3>1. t = [s EXCEPT !.c.pending_ping = None, !.alive = TRUE]
      BY <1>9, <2>2 DEF handle_message, s
    <3>2. t = n
      BY <1>2, <1>3, <3>1 DEF Live, SessionsOver, Links
    <3>3. c \in Links(x.asked)
      BY <1>3 DEF Links, Pings
    <3>4. n \in Live(x.asked, x.polls)
      <4>1. [s EXCEPT !.c = c] \in Live(x.asked, x.polls)
        BY <1>2, <3>3, Moved
      <4> HIDE DEF c
      <4> QED
        BY <1>2, <3>3 DEF Live, SessionsOver
    <3>5. /\ n.c = c /\ n.told = s.told /\ n.wire = s.wire /\ n.alive /\ n.heard = s.heard
          /\ n.failed = s.failed
      <4> HIDE DEF c
      <4> QED
        BY <1>2 DEF Live, SessionsOver
    <3>6. /\ c.queued = s.c.queued /\ c.last_state = s.c.last_state
          /\ c.since_state = s.c.since_state /\ c.status = s.c.status
          /\ c.uf2_bootloader_ready = s.c.uf2_bootloader_ready
          /\ c.install_receipt_recorded = s.c.install_receipt_recorded
      BY <1>3 DEF Links
    <3> HIDE DEF n, c
    <3>7. Good(s, x)
      BY <1>1, <1>9 DEF Kept
    <3>8. Steady(n.c) /\ Current(n.c, x) /\ n.c.status \in x.status
      BY <3>5, <3>6, <3>7 DEF Good, Steady, Current
    <3>9. Delivered(n, x)
      BY <3>5, <3>6, <3>7 DEF Good, Delivered
    <3>10. Known(n, x)
      BY <3>5, <3>6, <3>7 DEF Good, Known
    <3>11. Refreshed(n, x)
      BY <3>5, <3>6, <3>7 DEF Good, Refreshed
    <3>12. Answering(n, x)
      BY <3>5 DEF Answering
    <3> QED
      BY <3>2, <3>4, <3>8, <3>9, <3>10, <3>11, <3>12 DEF Kept, Good
  <2> QED
    BY <2>1, <2>2
<1>10. CASE ~s.failed /\ m.type = "DeviceInfo"
  <2> DEFINE f == IF m.capable THEN "Capable" ELSE "Reported"
             c == [s.c EXCEPT !.firmware = f]
  <2>1. t = [s EXCEPT !.c.firmware = f]
    BY <1>10 DEF handle_message, s
  <2>2. t = [s EXCEPT !.c = c]
    BY <1>2, <1>3, <2>1 DEF Live, SessionsOver, Links
  <2>3. f \in {"Capable", "Reported"}
    OBVIOUS
  <2> HIDE DEF f
  <2>4. c \in Links(x.asked)
    BY <1>3, <2>3 DEF Links
  <2>5. /\ c.queued = s.c.queued /\ c.last_state = s.c.last_state
        /\ c.since_state = s.c.since_state /\ c.status = s.c.status
        /\ c.uf2_bootloader_ready = s.c.uf2_bootloader_ready
        /\ c.install_receipt_recorded = s.c.install_receipt_recorded
        /\ c.pending_ping = s.c.pending_ping /\ c.since_ping = s.c.since_ping
    BY <1>3 DEF Links
  <2> HIDE DEF c
  <2> QED
    BY <1>1, <2>2, <2>4, <2>5, NotingKeeps
<1>11. CASE ~s.failed /\ m.type \in {"Uf2BootloaderReady", "InstallReceiptRecorded", "Error", "Rumble"}
  <2> DEFINE c == CASE m.type = "Uf2BootloaderReady" -> [s.c EXCEPT !.uf2_bootloader_ready = m.id]
                    [] m.type = "InstallReceiptRecorded" ->
                         [s.c EXCEPT !.install_receipt_recorded = [id |-> m.id, receipt |-> m.receipt]]
                    [] m.type = "Error" -> [s.c EXCEPT !.control_error = m.id]
                    [] m.type = "Rumble" -> [s.c EXCEPT !.pending_feedback = m.rumble]
  <2>1. t = WhenReady(s, c)
    <3>1. CASE m.type = "Uf2BootloaderReady"
      BY <1>11, <3>1 DEF handle_message, s
    <3>2. CASE m.type = "InstallReceiptRecorded"
      BY <1>11, <3>2 DEF handle_message, s
    <3>3. CASE m.type = "Error"
      BY <1>11, <3>3 DEF handle_message, s
    <3>4. CASE m.type = "Rumble"
      BY <1>11, <3>4 DEF handle_message, s
    <3> QED
      BY <1>11, <3>1, <3>2, <3>3, <3>4
  <2>2. /\ c \in Links(x.asked)
        /\ c.queued = s.c.queued /\ c.last_state = s.c.last_state
        /\ c.since_state = s.c.since_state /\ c.status = s.c.status
        /\ c.pending_ping = s.c.pending_ping /\ c.since_ping = s.c.since_ping
        /\ \/ c.uf2_bootloader_ready = s.c.uf2_bootloader_ready
           \/ [type |-> "Uf2BootloaderReady", id |-> c.uf2_bootloader_ready] \in s.heard
        /\ \/ c.install_receipt_recorded = s.c.install_receipt_recorded
           \/ [type |-> "InstallReceiptRecorded", id |-> c.install_receipt_recorded.id,
               receipt |-> c.install_receipt_recorded.receipt] \in s.heard
    <3>1. CASE m.type = "Uf2BootloaderReady"
      <4>1. c = [s.c EXCEPT !.uf2_bootloader_ready = m.id]
        BY <3>1
      <4>2. m.id \in RequestIds /\ [type |-> "Uf2BootloaderReady", id |-> m.id] \in s.heard
        BY <1>4, <3>1, MessageFields
      <4> HIDE DEF c
      <4>3. c \in Links(x.asked)
        BY <1>3, <4>1, <4>2, Noted
      <4>4. /\ c.queued = s.c.queued /\ c.last_state = s.c.last_state
            /\ c.since_state = s.c.since_state /\ c.status = s.c.status
            /\ c.pending_ping = s.c.pending_ping /\ c.since_ping = s.c.since_ping
        BY <1>3, <4>1 DEF Links
      <4>5. /\ \/ c.uf2_bootloader_ready = s.c.uf2_bootloader_ready
               \/ [type |-> "Uf2BootloaderReady", id |-> c.uf2_bootloader_ready] \in s.heard
            /\ \/ c.install_receipt_recorded = s.c.install_receipt_recorded
               \/ [type |-> "InstallReceiptRecorded", id |-> c.install_receipt_recorded.id,
                   receipt |-> c.install_receipt_recorded.receipt] \in s.heard
        BY <1>3, <4>1, <4>2 DEF Links
      <4> QED
        BY <4>3, <4>4, <4>5
    <3>2. CASE m.type = "InstallReceiptRecorded"
      <4>1. c = [s.c EXCEPT !.install_receipt_recorded = [id |-> m.id, receipt |-> m.receipt]]
        BY <3>2
      <4>2. /\ m.id \in RequestIds /\ m.receipt \in Receipts
            /\ [type |-> "InstallReceiptRecorded", id |-> m.id, receipt |-> m.receipt] \in s.heard
        BY <1>4, <3>2, MessageFields
      <4> HIDE DEF c
      <4>3. c \in Links(x.asked)
        BY <1>3, <4>1, <4>2, Noted
      <4>4. /\ c.queued = s.c.queued /\ c.last_state = s.c.last_state
            /\ c.since_state = s.c.since_state /\ c.status = s.c.status
            /\ c.pending_ping = s.c.pending_ping /\ c.since_ping = s.c.since_ping
        BY <1>3, <4>1 DEF Links
      <4>5. /\ \/ c.uf2_bootloader_ready = s.c.uf2_bootloader_ready
               \/ [type |-> "Uf2BootloaderReady", id |-> c.uf2_bootloader_ready] \in s.heard
            /\ \/ c.install_receipt_recorded = s.c.install_receipt_recorded
               \/ [type |-> "InstallReceiptRecorded", id |-> c.install_receipt_recorded.id,
                   receipt |-> c.install_receipt_recorded.receipt] \in s.heard
        BY <1>3, <4>1, <4>2 DEF Links
      <4> QED
        BY <4>3, <4>4, <4>5
    <3>3. CASE m.type = "Error"
      <4>1. c = [s.c EXCEPT !.control_error = m.id]
        BY <3>3
      <4>2. m.id \in RequestIds
        BY <3>3, MessageFields
      <4> HIDE DEF c
      <4>3. c \in Links(x.asked)
        BY <1>3, <4>1, <4>2, Noted
      <4>4. /\ c.queued = s.c.queued /\ c.last_state = s.c.last_state
            /\ c.since_state = s.c.since_state /\ c.status = s.c.status
            /\ c.pending_ping = s.c.pending_ping /\ c.since_ping = s.c.since_ping
        BY <1>3, <4>1 DEF Links
      <4>5. /\ \/ c.uf2_bootloader_ready = s.c.uf2_bootloader_ready
               \/ [type |-> "Uf2BootloaderReady", id |-> c.uf2_bootloader_ready] \in s.heard
            /\ \/ c.install_receipt_recorded = s.c.install_receipt_recorded
               \/ [type |-> "InstallReceiptRecorded", id |-> c.install_receipt_recorded.id,
                   receipt |-> c.install_receipt_recorded.receipt] \in s.heard
        BY <1>3, <4>1, <4>2 DEF Links
      <4> QED
        BY <4>3, <4>4, <4>5
    <3>4. CASE m.type = "Rumble"
      <4>1. c = [s.c EXCEPT !.pending_feedback = m.rumble]
        BY <3>4
      <4>2. m.rumble \in Rumbles
        BY <3>4, MessageFields
      <4> HIDE DEF c
      <4>3. c \in Links(x.asked)
        BY <1>3, <4>1, <4>2, Noted
      <4>4. /\ c.queued = s.c.queued /\ c.last_state = s.c.last_state
            /\ c.since_state = s.c.since_state /\ c.status = s.c.status
            /\ c.pending_ping = s.c.pending_ping /\ c.since_ping = s.c.since_ping
        BY <1>3, <4>1 DEF Links
      <4>5. /\ \/ c.uf2_bootloader_ready = s.c.uf2_bootloader_ready
               \/ [type |-> "Uf2BootloaderReady", id |-> c.uf2_bootloader_ready] \in s.heard
            /\ \/ c.install_receipt_recorded = s.c.install_receipt_recorded
               \/ [type |-> "InstallReceiptRecorded", id |-> c.install_receipt_recorded.id,
                   receipt |-> c.install_receipt_recorded.receipt] \in s.heard
        BY <1>3, <4>1, <4>2 DEF Links
      <4> QED
        BY <4>3, <4>4, <4>5
    <3> QED
      BY <1>11, <3>1, <3>2, <3>3, <3>4
  <2> HIDE DEF c
  <2>3. CASE s.c.status = "Ready"
    <3>1. t = [s EXCEPT !.c = c]
      BY <2>1, <2>3 DEF WhenReady
    <3> QED
      BY <1>1, <2>2, <2>3, <3>1, NotingKeeps
  <2>4. CASE s.c.status # "Ready"
    BY <1>1, <2>1, <2>4 DEF WhenReady
  <2> QED
    BY <2>3, <2>4
<1>12. CASE ~s.failed /\ m.type = "Noise"
  <2>1. t = s
    BY <1>12 DEF handle_message, s
  <2> QED
    BY <1>1, <2>1
<1>13. m.type \in {"HelloResponse", "VersionRejected", "Ping", "Noise", "DeviceInfo", "Pong", "Rumble",
                   "Uf2BootloaderReady", "Error", "InstallReceiptRecorded"}
  BY MessageFields
<1> QED
  BY <1>5, <1>6, <1>7, <1>8, <1>9, <1>10, <1>11, <1>12, <1>13

\* Every device answers an unanswered ping in time, or the session fails.
PingsDone(c) == IF c.pending_ping = None THEN c.since_ping # PingTicks ELSE c.pending_ping.age # PongTicks

LEMMA GraceKeeps ==
  ASSUME NEW x \in Contexts, NEW s \in Kept(x)
  PROVE  report_grace(s) \in Kept(x)
<1>1. s \in Live(x.asked, x.polls) /\ s.c \in Links(x.asked)
  BY LiveFields DEF Kept
<1> DEFINE c == [s.c EXCEPT !.firmware = "Unreported"]
<1>2. CASE report_grace(s) = s
  BY <1>2
<1>3. CASE report_grace(s) # s
  <2>1. report_grace(s) = [s EXCEPT !.c.firmware = "Unreported"]
    BY <1>3 DEF report_grace
  <2>2. report_grace(s) = [s EXCEPT !.c = c]
    BY <1>1, <2>1 DEF Live, SessionsOver, Links
  <2>3. c \in Links(x.asked)
    BY <1>1 DEF Links
  <2>4. /\ c.queued = s.c.queued /\ c.last_state = s.c.last_state
        /\ c.since_state = s.c.since_state /\ c.status = s.c.status
        /\ c.uf2_bootloader_ready = s.c.uf2_bootloader_ready
        /\ c.install_receipt_recorded = s.c.install_receipt_recorded
        /\ c.pending_ping = s.c.pending_ping /\ c.since_ping = s.c.since_ping
    BY <1>1 DEF Links
  <2> HIDE DEF c
  <2> QED
    BY <2>2, <2>3, <2>4, NotingKeeps
<1> QED
  BY <1>2, <1>3

LEMMA PongKeeps ==
  ASSUME NEW x \in Contexts, NEW s \in Kept(x)
  PROVE  LET t == check_pong(s)
         IN  /\ t \in Kept(x)
             /\ t.failed \/ t.c.pending_ping = None \/ t.c.pending_ping.age # PongTicks
<1>1. s \in Live(x.asked, x.polls)
  BY DEF Kept
<1>2. CASE ~s.failed /\ s.c.pending_ping # None /\ s.c.pending_ping.age = PongTicks
  <2>1. check_pong(s) = Fail(s)
    BY <1>2 DEF check_pong
  <2> QED
    BY <1>1, <2>1, FailKeeps
<1>3. CASE ~(~s.failed /\ s.c.pending_ping # None /\ s.c.pending_ping.age = PongTicks)
  <2>1. check_pong(s) = s
    BY <1>3 DEF check_pong
  <2> QED
    BY <1>3, <2>1
<1> QED
  BY <1>2, <1>3

LEMMA PingKeeps ==
  ASSUME NEW x \in Contexts, NEW s \in Kept(x),
         s.failed \/ s.c.pending_ping = None \/ s.c.pending_ping.age # PongTicks
  PROVE  LET t == send_ping(s)
         IN  /\ t \in Kept(x)
             /\ t.failed \/ t.c.status # "Ready" \/ PingsDone(t.c)
<1> DEFINE Due == /\ ~s.failed /\ s.c.status = "Ready" /\ s.c.pending_ping = None
                  /\ s.c.since_ping = PingTicks
           m == Ping(s.c.sequence)
           p == write_message(s, m)
           ping == [nonce |-> s.c.sequence, age |-> 0]
<1>1. s \in Live(x.asked, x.polls) /\ s.c \in Links(x.asked) /\ x.asked \in Slots
  BY LiveFields DEF Kept, Contexts
<1>2. CASE ~Due
  <2>1. send_ping(s) = s
    BY <1>2 DEF send_ping
  <2> QED
    BY <1>2, <2>1 DEF PingsDone
<1>3. CASE Due
  <2>1. m \in Letters(x.asked) /\ m.type = "Ping"
    BY <1>1 DEF Letters, Ping, Links
  <2>2. p \in Kept(x)
    BY <2>1, PingsKeep
  <2>3. p \in Live(x.asked, x.polls) /\ p.c \in Links(x.asked)
    BY <2>2, LiveFields DEF Kept
  <2>4. CASE p.failed
    <3>1. send_ping(s) = p
      BY <1>3, <2>4 DEF send_ping
    <3> QED
      BY <2>2, <2>4, <3>1
  <2>5. CASE ~p.failed
    <3> DEFINE c == [p.c EXCEPT !.pending_ping = ping, !.since_ping = 0]
               n == [p EXCEPT !.c = c]
    <3> HIDE DEF p
    <3>1. send_ping(s) = [p EXCEPT !.c.pending_ping = ping, !.c.since_ping = 0]
      BY <1>3, <2>5 DEF send_ping, p
    <3>2. send_ping(s) = n
      BY <2>3, <3>1 DEF Live, SessionsOver, Links
    <3>3. ping \in [nonce : Sequences, age : 0 .. PongTicks]
      BY SMTT(40), <1>1, Limits DEF Links, Sequences
    <3>4. ping # None /\ ping \in Pings
      BY <3>3, LimitAssumption DEF Pings, Sequences
    <3> HIDE DEF ping
    <3>5. c \in Links(x.asked)
      <4>1. 0 \in 0 .. PingTicks
        BY Limits
      <4> QED
        BY <2>3, <3>4, <4>1 DEF Links
    <3>6. n \in Live(x.asked, x.polls)
      <4> HIDE DEF c
      <4> QED
        BY <2>3, <3>5, Moved
    <3>7. /\ n.c = c /\ n.told = p.told /\ n.wire = p.wire /\ n.alive = p.alive
          /\ n.heard = p.heard /\ n.failed = p.failed
      <4> HIDE DEF c
      <4> QED
        BY <2>3 DEF Live, SessionsOver
    <3>8. /\ c.queued = p.c.queued /\ c.last_state = p.c.last_state
          /\ c.since_state = p.c.since_state /\ c.status = p.c.status
          /\ c.uf2_bootloader_ready = p.c.uf2_bootloader_ready
          /\ c.install_receipt_recorded = p.c.install_receipt_recorded
          /\ c.pending_ping = ping /\ c.since_ping = 0
      BY <2>3 DEF Links
    <3> HIDE DEF n, c
    <3>9. Good(p, x)
      BY <2>2, <2>5 DEF Kept
    <3>10. Steady(n.c) /\ Current(n.c, x) /\ n.c.status \in x.status
      BY <3>7, <3>8, <3>9 DEF Good, Steady, Current
    <3>11. Delivered(n, x)
      BY <3>7, <3>8, <3>9 DEF Good, Delivered
    <3>12. Known(n, x)
      BY <3>7, <3>8, <3>9 DEF Good, Known
    <3>13. Refreshed(n, x)
      BY <3>7, <3>8, <3>9 DEF Good, Refreshed
    <3>14. ping.age = 0
      BY DEF ping
    <3>15. Answering(n, x)
      <4>1. s.alive \/ x.alive <= PingTicks + ServiceTicks
        <5>1. Good(s, x) /\ s.c.status = "Ready" /\ s.c.pending_ping = None
          BY <1>3 DEF Kept
        <5> QED
          BY <5>1 DEF Good, Answering, Unanswered
      <4>2. p.alive = s.alive
        <5>1. p.failed \/ Writes(s, p, m)
          BY <1>1, <2>1, WriteIs DEF p
        <5> QED
          BY <2>5, <5>1 DEF Writes
      <4> QED
        BY <3>4, <3>7, <3>8, <3>14, <4>1, <4>2, Limits DEF Answering, Unanswered, Contexts
    <3>16. n \in Kept(x)
      BY <3>6, <3>10, <3>11, <3>12, <3>13, <3>15 DEF Kept, Good
    <3>17. PingsDone(n.c)
      BY <3>4, <3>7, <3>8, <3>14, Limits DEF PingsDone
    <3> QED
      BY <3>2, <3>16, <3>17
  <2> QED
    BY <2>4, <2>5
<1> QED
  BY <1>2, <1>3

LEMMA Emptied ==
  ASSUME NEW a, NEW c \in Links(a)
  PROVE  [c EXCEPT !.queued = << >>] \in Links(a)
<1>1. << >> \in Seq(States \cap {a})
  OBVIOUS
<1> QED
  BY <1>1 DEF Links

LEMMA FlushKeeps ==
  ASSUME NEW x \in Contexts, NEW s \in Kept(x),
         s.failed \/ s.c.status # "Ready" \/ PingsDone(s.c)
  PROVE  LET t == flush_states(s)
         IN  /\ t \in Kept(x)
             /\ t.failed \/ t.c.status # "Ready" \/ (PingsDone(t.c) /\ t.c.queued = << >>)
<1>1. s \in Live(x.asked, x.polls) /\ s.c \in Links(x.asked) /\ x.asked \in Slots
  BY LiveFields DEF Kept, Contexts
<1>2. CASE s.failed \/ s.c.status # "Ready" \/ s.c.queued = << >>
  <2>1. flush_states(s) = s
    BY <1>2 DEF flush_states
  <2> QED
    BY <1>2, <2>1
<1>3. CASE ~(s.failed \/ s.c.status # "Ready" \/ s.c.queued = << >>)
  <2> DEFINE state == s.c.queued[Len(s.c.queued)]
             c0 == [s.c EXCEPT !.queued = << >>]
             s1 == [s EXCEPT !.c = c0]
             m == GamepadState(state)
             p == write_message(s1, m)
  <2>1. state \in States /\ state = x.asked
    <3>1. s.c.queued \in Seq(States \cap {x.asked}) /\ s.c.queued # << >>
      BY <1>1, <1>3 DEF Links
    <3>2. Len(s.c.queued) \in 1 .. Len(s.c.queued)
      BY <3>1
    <3> QED
      BY <3>1, <3>2
  <2> HIDE DEF state
  <2>2. c0 \in Links(x.asked)
    BY <1>1, Emptied
  <2>3. s1 = [s EXCEPT !.c.queued = << >>]
    BY <1>1 DEF Live, SessionsOver, Links
  <2>4. /\ c0.pending_ping = s.c.pending_ping /\ c0.since_ping = s.c.since_ping
        /\ c0.uf2_bootloader_ready = s.c.uf2_bootloader_ready
        /\ c0.install_receipt_recorded = s.c.install_receipt_recorded
        /\ c0.status = s.c.status /\ c0.queued = << >>
    BY <1>1 DEF Links
  <2> HIDE DEF c0
  <2>5. s1 \in Live(x.asked, x.polls)
    BY <1>1, <2>2, Moved
  <2>6. /\ s1.c = c0 /\ s1.told = s.told /\ s1.wire = s.wire /\ s1.alive = s.alive
        /\ s1.heard = s.heard /\ s1.failed = s.failed
    BY <1>1 DEF Live, SessionsOver
  <2>7. m \in Letters(x.asked) /\ m.type = "GamepadState" /\ m.state = x.asked
    BY <2>1 DEF Letters, GamepadState
  <2>8. flush_states(s) = IF p.failed THEN p
                          ELSE IF state = Neutral
                          THEN [p EXCEPT !.c.last_state = NoState, !.c.since_state = Off]
                          ELSE [p EXCEPT !.c.last_state = state, !.c.since_state = 0]
    BY <1>3, <2>3 DEF flush_states, state
  <2> HIDE DEF s1, m
  <2>9. p \in Live(x.asked, x.polls) /\ (p.failed \/ Writes(s1, p, m))
    BY <1>1, <2>5, <2>7, WriteIs
  <2> HIDE DEF p
  <2>10. CASE p.failed
    BY <2>8, <2>9, <2>10 DEF Kept
  <2>11. CASE ~p.failed
    <3> DEFINE last == IF state = Neutral THEN NoState ELSE state
               since == IF state = Neutral THEN -1 ELSE 0
               c == [p.c EXCEPT !.last_state = last, !.since_state = since]
               n == [p EXCEPT !.c = c]
    <3>1. p.c \in Links(x.asked)
      BY <2>9, LiveFields
    <3>2. flush_states(s) = n
      <4>1. flush_states(s) = [p EXCEPT !.c.last_state = last, !.c.since_state = since]
        BY <2>8, <2>11 DEF Off
      <4> HIDE DEF last, since
      <4> QED
        BY <2>9, <3>1, <4>1 DEF Live, SessionsOver, Links
    <3>3. /\ last \in (States \ {Neutral}) \cup {NoState} /\ since \in -1 .. RefreshTicks
          /\ since = -1 <=> last = NoState
          /\ last \in {x.asked, NoState}
          /\ Active(x.asked) => last = x.asked
      BY <2>1, Limits, StateAssumption DEF Active
    <3> HIDE DEF last, since
    <3>4. c \in Links(x.asked)
      BY <3>1, <3>3 DEF Links
    <3>5. PICK q \in Sequences : p.c = [c0 EXCEPT !.sequence = q]
      BY <2>6, <2>9, <2>11 DEF Writes
    <3>6. /\ c.queued = << >> /\ c.last_state = last /\ c.since_state = since
          /\ c.status = s.c.status
          /\ c.uf2_bootloader_ready = s.c.uf2_bootloader_ready
          /\ c.install_receipt_recorded = s.c.install_receipt_recorded
          /\ c.pending_ping = s.c.pending_ping /\ c.since_ping = s.c.since_ping
      <4>1. /\ p.c.queued = << >> /\ p.c.status = s.c.status
            /\ p.c.uf2_bootloader_ready = s.c.uf2_bootloader_ready
            /\ p.c.install_receipt_recorded = s.c.install_receipt_recorded
            /\ p.c.pending_ping = s.c.pending_ping /\ p.c.since_ping = s.c.since_ping
        BY <2>2, <2>4, <3>5 DEF Links
      <4> QED
        BY <3>1, <4>1 DEF Links
    <3> HIDE DEF c
    <3>7. n \in Live(x.asked, x.polls)
      BY <2>9, <3>4, Moved
    <3>8. /\ n.c = c /\ n.told = x.asked /\ n.alive = s.alive /\ n.heard = s.heard
          /\ n.wire = p.wire
      <4>1. p.told = x.asked /\ p.alive = s.alive /\ p.heard = s.heard
        BY <2>6, <2>7, <2>9, <2>11 DEF Writes, Tells
      <4> QED
        BY <2>9, <4>1 DEF Live, SessionsOver
    <3> HIDE DEF n
    <3>9. Wrote(n.wire)
      <4>1. p.wire = Append(s1.wire, [sequence |-> s1.c.sequence, message |-> m])
        BY <2>9, <2>11 DEF Writes
      <4>2. s1.wire \in Wires(x.asked)
        BY <2>5, LiveFields
      <4> QED
        BY <2>7, <3>8, <4>1, <4>2, WroteNow
    <3>10. Good(s, x)
      BY <1>3 DEF Kept
    <3>11. Steady(n.c) /\ Current(n.c, x) /\ n.c.status \in x.status
      BY <3>3, <3>6, <3>8, <3>10 DEF Good, Steady, Current
    <3>12. Delivered(n, x)
      BY <3>3, <3>6, <3>8 DEF Delivered
    <3>13. Known(n, x)
      BY <3>6, <3>8, <3>10 DEF Good, Known
    <3>14. Refreshed(n, x)
      BY <3>9 DEF Refreshed
    <3>15. Answering(n, x)
      BY <3>6, <3>8, <3>10 DEF Good, Answering, Unanswered
    <3>16. PingsDone(n.c) /\ n.c.queued = << >>
      BY <1>3, <3>6, <3>8 DEF PingsDone
    <3> QED
      BY <3>2, <3>7, <3>11, <3>12, <3>13, <3>14, <3>15, <3>16 DEF Kept, Good
  <2> QED
    BY <2>10, <2>11
<1> QED
  BY <1>2, <1>3

\* What a poll leaves nothing of to do.
Served(c) == PingsDone(c) /\ c.queued = << >> /\ c.since_state # RefreshTicks

LEMMA RefreshKeeps ==
  ASSUME NEW x \in Contexts, NEW s \in Kept(x),
         s.failed \/ s.c.status # "Ready" \/ (PingsDone(s.c) /\ s.c.queued = << >>)
  PROVE  LET t == refresh_state(s)
         IN  /\ t \in Kept(x)
             /\ t.failed \/ t.c.status # "Ready" \/ Served(t.c)
<1> DEFINE Due == /\ ~s.failed /\ s.c.status = "Ready" /\ s.c.queued = << >>
                  /\ s.c.since_state = RefreshTicks
           m == GamepadState(s.c.last_state)
           p == write_message(s, m)
<1>1. s \in Live(x.asked, x.polls) /\ s.c \in Links(x.asked) /\ x.asked \in Slots
  BY LiveFields DEF Kept, Contexts
<1>2. CASE ~Due
  <2>1. refresh_state(s) = s
    BY <1>2 DEF refresh_state
  <2> QED
    BY <1>2, <2>1 DEF Served
<1>3. CASE Due
  <2>1. Good(s, x)
    BY <1>3 DEF Kept
  <2>2. s.c.last_state = x.asked /\ x.asked \in States
    <3>1. s.c.since_state # -1
      BY <1>3, Limits
    <3>2. s.c.last_state # NoState /\ s.c.last_state \in {x.asked, NoState}
      BY <1>3, <2>1, <3>1 DEF Good, Steady, Current
    <3> QED
      BY <1>1, <3>2 DEF Slots
  <2>3. m \in Letters(x.asked) /\ m.type = "GamepadState" /\ m.state = x.asked
    BY <2>2 DEF Letters, GamepadState
  <2>4. refresh_state(s) = IF p.failed THEN p ELSE [p EXCEPT !.c.since_state = 0]
    BY <1>3 DEF refresh_state
  <2> HIDE DEF m
  <2>5. p \in Live(x.asked, x.polls) /\ (p.failed \/ Writes(s, p, m))
    BY <1>1, <2>3, WriteIs
  <2> HIDE DEF p
  <2>6. CASE p.failed
    BY <2>4, <2>5, <2>6 DEF Kept
  <2>7. CASE ~p.failed
    <3> DEFINE c == [p.c EXCEPT !.since_state = 0]
               n == [p EXCEPT !.c = c]
    <3>1. p.c \in Links(x.asked)
      BY <2>5, LiveFields
    <3>2. refresh_state(s) = n
      BY <2>4, <2>5, <2>7, <3>1 DEF Live, SessionsOver, Links
    <3>3. c \in Links(x.asked)
      <4>1. 0 \in -1 .. RefreshTicks
        BY Limits
      <4> QED
        BY <3>1, <4>1 DEF Links
    <3>4. PICK q \in Sequences : p.c = [s.c EXCEPT !.sequence = q]
      BY <2>5, <2>7 DEF Writes
    <3>5. /\ c.queued = << >> /\ c.last_state = x.asked /\ c.since_state = 0
          /\ c.status = s.c.status
          /\ c.uf2_bootloader_ready = s.c.uf2_bootloader_ready
          /\ c.install_receipt_recorded = s.c.install_receipt_recorded
          /\ c.pending_ping = s.c.pending_ping /\ c.since_ping = s.c.since_ping
      <4>1. /\ p.c.queued = << >> /\ p.c.status = s.c.status /\ p.c.last_state = x.asked
            /\ p.c.uf2_bootloader_ready = s.c.uf2_bootloader_ready
            /\ p.c.install_receipt_recorded = s.c.install_receipt_recorded
            /\ p.c.pending_ping = s.c.pending_ping /\ p.c.since_ping = s.c.since_ping
        BY <1>1, <1>3, <2>2, <3>4 DEF Links
      <4> QED
        BY <3>1, <4>1 DEF Links
    <3> HIDE DEF c
    <3>6. n \in Live(x.asked, x.polls)
      BY <2>5, <3>3, Moved
    <3>7. /\ n.c = c /\ n.told = x.asked /\ n.alive = s.alive /\ n.heard = s.heard
          /\ n.wire = p.wire
      <4>1. p.told = x.asked /\ p.alive = s.alive /\ p.heard = s.heard
        BY <2>3, <2>5, <2>7 DEF Writes, Tells
      <4> QED
        BY <2>5, <4>1 DEF Live, SessionsOver
    <3> HIDE DEF n
    <3>8. Wrote(n.wire)
      <4>1. p.wire = Append(s.wire, [sequence |-> s.c.sequence, message |-> m])
        BY <2>5, <2>7 DEF Writes
      <4>2. s.wire \in Wires(x.asked)
        BY <1>1, LiveFields
      <4> QED
        BY <2>3, <3>7, <4>1, <4>2, WroteNow
    <3>9. Steady(n.c) /\ Current(n.c, x) /\ n.c.status \in x.status
      BY <2>1, <2>2, <3>5, <3>7, StateAssumption DEF Good, Steady, Current
    <3>10. Delivered(n, x)
      BY <3>5, <3>7 DEF Delivered
    <3>11. Known(n, x)
      BY <2>1, <3>5, <3>7 DEF Good, Known
    <3>12. Refreshed(n, x)
      BY <3>8 DEF Refreshed
    <3>13. Answering(n, x)
      BY <2>1, <3>5, <3>7 DEF Good, Answering, Unanswered
    <3>14. Served(n.c)
      BY <1>3, <3>5, <3>7, Limits DEF PingsDone, Served
    <3> QED
      BY <3>2, <3>6, <3>9, <3>10, <3>11, <3>12, <3>13, <3>14 DEF Kept, Good
  <2> QED
    BY <2>6, <2>7
<1> QED
  BY <1>2, <1>3

\* What a poll makes of a session.
LEMMA PollKeeps ==
  ASSUME NEW x \in Contexts, NEW s \in Kept(x), NEW t \in poll_connection(s)
  PROVE  /\ t \in Kept(x)
         /\ t.failed \/ t.c.status # "Ready" \/ Served(t.c)
<1>1. PICK h \in Handled(s) :
        t = refresh_state(flush_states(send_ping(check_pong(report_grace(h)))))
  BY DEF poll_connection
<1>2. h \in Kept(x)
  <2> DEFINE G == Kept(x)
  <2>1. \A u \in G, m \in DeviceMessages : handle_message(u, m) \in G
    BY MessageKeeps
  <2>2. s \in G
    OBVIOUS
  <2> HIDE DEF G
  <2>3. Handled(s) \subseteq G
    BY <2>1, <2>2, BatchKeeps
  <2> QED
    BY <1>1, <2>3 DEF G
<1>3. report_grace(h) \in Kept(x)
  BY <1>2, GraceKeeps
<1> DEFINE u == check_pong(report_grace(h))
<1>4. u \in Kept(x) /\ (u.failed \/ u.c.pending_ping = None \/ u.c.pending_ping.age # PongTicks)
  BY <1>3, PongKeeps
<1> HIDE DEF u
<1> DEFINE v == send_ping(u)
<1>5. v \in Kept(x) /\ (v.failed \/ v.c.status # "Ready" \/ PingsDone(v.c))
  BY <1>4, PingKeeps
<1> HIDE DEF v
<1> DEFINE w == flush_states(v)
<1>6. w \in Kept(x) /\ (w.failed \/ w.c.status # "Ready" \/ (PingsDone(w.c) /\ w.c.queued = << >>))
  BY <1>5, FlushKeeps
<1> HIDE DEF w
<1> QED
  BY <1>1, <1>6, RefreshKeeps DEF u, v, w

-----------------------------------------------------------------------------
(* What the attempts of a call come to.                                    *)

\* A session whose connection is gone.
Lost(a) == SessionsOver({Closed}, a, -1 .. ServiceTicks)

\* What an attempt may end with: an open session that has nothing left to do,
\* or a failure that closed it.
Done(x) ==
  {t \in Kept(x) : ~t.failed /\ t.c.status = "Ready" /\ Served(t.c)}
    \cup {t \in Lost(x.asked) : t.failed}

LEMMA LostFields ==
  ASSUME NEW a, NEW s \in Lost(a)
  PROVE  /\ s = [c |-> s.c, last_poll |-> s.last_poll, wire |-> s.wire, told |-> s.told,
                 writes |-> s.writes, heard |-> s.heard, alive |-> s.alive, failed |-> s.failed]
         /\ s.c = Closed /\ s.wire \in Wires(a) /\ s.told \in Slots /\ s.writes \in Nat
         /\ s.last_poll \in -1 .. ServiceTicks
         /\ s.heard \in SUBSET Answers /\ s.alive \in BOOLEAN /\ s.failed \in BOOLEAN
  BY DEF Lost, SessionsOver

LEMMA WiresGrow ==
  ASSUME NEW a, NEW w \in Wires(NoState)
  PROVE  w \in Wires(a)
<1>1. Letters(NoState) \subseteq Letters(a)
  BY StateAssumption DEF Letters
<1>2. [sequence : Sequences, message : Letters(NoState)]
        \subseteq [sequence : Sequences, message : Letters(a)]
  BY <1>1
<1> QED
  BY <1>2, SeqMonotonic DEF Wires

LEMMA WritesKeep ==
  ASSUME NEW x \in Contexts, NEW s \in Kept(x), NEW n \in Nat
  PROVE  /\ [s EXCEPT !.writes = n] \in Kept(x)
         /\ [s EXCEPT !.writes = n].c = s.c /\ [s EXCEPT !.writes = n].failed = s.failed
<1> DEFINE t == [s EXCEPT !.writes = n]
<1>1. s \in Live(x.asked, x.polls)
  BY DEF Kept
<1>2. t \in Live(x.asked, x.polls)
  BY <1>1 DEF Live, SessionsOver
<1>3. /\ t.c = s.c /\ t.told = s.told /\ t.wire = s.wire /\ t.alive = s.alive
      /\ t.failed = s.failed /\ t.heard = s.heard
  BY <1>1 DEF Live, SessionsOver
<1> HIDE DEF t
<1>4. ASSUME Good(s, x) PROVE Good(t, x)
  BY <1>3, <1>4, Untouched
<1> QED
  BY <1>2, <1>3, <1>4 DEF Kept, t

LEMMA TimeKeeps ==
  ASSUME NEW x \in Contexts, NEW y \in Contexts, NEW s \in Kept(x), NEW n \in y.polls,
         y = [x EXCEPT !.polls = y.polls]
  PROVE  [s EXCEPT !.last_poll = n] \in Kept(y)
<1> DEFINE t == [s EXCEPT !.last_poll = n]
<1>1. s \in Live(x.asked, x.polls)
  BY DEF Kept
<1>2. /\ y.asked = x.asked /\ y.device = x.device /\ y.answers = x.answers
      /\ y.status = x.status /\ y.told = x.told /\ y.alive = x.alive
  <2>1. y = [x EXCEPT !.polls = y.polls]
    OBVIOUS
  <2> QED
    BY <2>1 DEF Contexts
<1>3. t \in Live(y.asked, y.polls)
  BY <1>1, <1>2 DEF Live, SessionsOver
<1>4. /\ t.c = s.c /\ t.told = s.told /\ t.wire = s.wire /\ t.alive = s.alive
      /\ t.failed = s.failed /\ t.heard = s.heard
  BY <1>1 DEF Live, SessionsOver
<1> HIDE DEF t
<1>5. ASSUME Good(s, x) PROVE Good(t, x)
  BY <1>4, <1>5, Untouched
<1>6. Good(t, x) => Good(t, y)
  BY <1>2 DEF Good, Current, Delivered, Known, Refreshed, Answering
<1> QED
  BY <1>3, <1>4, <1>5, <1>6 DEF Kept, t

\* A poll of BridgeOutput.
LEMMA PolledKeeps ==
  ASSUME NEW x \in Contexts, 0 \in x.polls, NEW s \in Kept(x), ~s.failed, NEW t \in Polled(s)
  PROVE  /\ t \in Kept(x)
         /\ t.failed \/ t.c.status # "Ready" \/ Served(t.c)
<1> DEFINE now == [s EXCEPT !.last_poll = 0]
<1>1. now \in Kept(x)
  <2>1. x = [x EXCEPT !.polls = x.polls]
    BY DEF Contexts
  <2> QED
    BY <2>1, TimeKeeps
<1>2. Polled(s) = {Fail(now)} \cup Rest(UNION {poll_connection(u) : u \in Ports(now)})
  BY DEF Polled
<1> HIDE DEF now
<1>3. CASE t = Fail(now)
  BY <1>1, <1>3, FailKeeps DEF Kept
<1>4. CASE t \in Rest(UNION {poll_connection(u) : u \in Ports(now)})
  <2>1. PICK u \in Ports(now) : \E v \in poll_connection(u) : t = [v EXCEPT !.writes = 0]
    BY <1>4 DEF Rest
  <2>11. PICK v \in poll_connection(u) : t = [v EXCEPT !.writes = 0]
    BY <2>1
  <2>2. PICK n \in Nat : u = [now EXCEPT !.writes = n]
    BY <2>1, Limits DEF Ports
  <2>3. u \in Kept(x)
    BY <1>1, <2>2, WritesKeep
  <2>4. v \in Kept(x) /\ (v.failed \/ v.c.status # "Ready" \/ Served(v.c))
    BY <2>11, <2>3, PollKeeps
  <2> QED
    BY <2>11, <2>4, WritesKeep
<1> QED
  BY <1>2, <1>3, <1>4

\* The context of a handshake: nothing is asked of a session that has not
\* begun, and it has heard nothing for longer than any device may be silent.
Silence == PingTicks + PongTicks + ServiceTicks
Fresh == [asked |-> NoState, device |-> NoState, answers |-> {},
          status |-> {"Handshaking", "Ready"}, polls |-> -1 .. ServiceTicks,
          told |-> 0, alive |-> Silence + 1]

LEMMA FreshIs == Fresh \in Contexts
<1>1. Silence + 1 \in Nat
  BY Limits DEF Silence
<1>2. NoState \in Slots /\ {} \in SUBSET Answers /\ 0 \in Nat
  BY DEF Slots
<1> QED
  BY <1>1, <1>2 DEF Fresh, Contexts

LEMMA NewIs ==
  ASSUME NEW e \in {0, PingTicks}
  PROVE  /\ Session(NewConnection(e), Off) \in Kept(Fresh)
         /\ ~Session(NewConnection(e), Off).failed
<1> DEFINE c == NewConnection(e)
           s == Session(c, Off)
<1>1. << >> \in Seq(States \cap {NoState}) /\ << >> \in Wires(NoState)
  BY DEF Wires
<1>2. 0 \in Sequences /\ e \in 0 .. PingTicks /\ -1 \in -1 .. RefreshTicks /\ -1 \in -1 .. GraceTicks
      /\ -1 \in -1 .. ServiceTicks
  BY Limits DEF Sequences
<1>3. c \in Links(NoState)
  BY <1>1, <1>2 DEF NewConnection, Links, Off, Pings
<1>4. /\ c.queued = << >> /\ c.last_state = NoState /\ c.since_state = -1
      /\ c.status = "Handshaking" /\ c.uf2_bootloader_ready = None
      /\ c.install_receipt_recorded = None
  BY DEF NewConnection, Off
<1>5. Fresh.asked = NoState /\ Fresh.polls = -1 .. ServiceTicks /\ Fresh.status = {"Handshaking", "Ready"}
  BY DEF Fresh
<1> HIDE DEF c
<1>6. s \in Live(Fresh.asked, Fresh.polls)
  <2>1. NoState \in Slots /\ {} \in SUBSET Answers /\ 0 \in Nat
    BY DEF Slots
  <2> QED
    BY <1>1, <1>2, <1>3, <1>5, <2>1 DEF Session, Live, SessionsOver, Off
<1>7. s.c = c
  BY DEF Session
<1>8. ~Active(NoState)
  BY StateAssumption DEF Active
<1>9. Good(s, Fresh)
  BY <1>4, <1>5, <1>7, <1>8
    DEF Good, Steady, Current, Delivered, Known, Refreshed, Answering
<1>10. ~s.failed
  BY DEF Session
<1> QED
  BY <1>6, <1>9, <1>10 DEF Kept, c

\* The sessions of a handshake; what is Ready has heard a Hello.
LEMMA ShakenIs ==
  ASSUME NEW t \in Shaken
  PROVE  /\ t \in Kept(Fresh)
         /\ t.failed \/ t.c.status # "Ready" \/ (Served(t.c) /\ t.alive)
<1>1. PICK u \in UNION {Ports(Session(NewConnection(e), Off)) : e \in {0, PingTicks}} :
        t \in poll_connection(write_message(u, Hello))
  BY DEF Shaken
<1>2. PICK e \in {0, PingTicks} : u \in Ports(Session(NewConnection(e), Off))
  BY <1>1
<1> DEFINE s == Session(NewConnection(e), Off)
<1>3. PICK n \in Nat : u = [s EXCEPT !.writes = n]
  BY <1>2, Limits DEF Ports
<1>4. u \in Kept(Fresh) /\ ~u.failed
  <2>1. s \in Kept(Fresh) /\ ~s.failed
    BY NewIs
  <2> HIDE DEF s
  <2> QED
    BY <1>3, <2>1, FreshIs, WritesKeep
<1> DEFINE w == write_message(u, Hello)
<1>5. Fresh.asked = NoState /\ NoState \in Slots /\ ~Active(NoState)
  BY StateAssumption DEF Fresh, Slots, Active
<1>6. w \in Kept(Fresh)
  <2>1. Hello \in Letters(Fresh.asked)
    BY DEF Letters
  <2>2. u \in Live(Fresh.asked, Fresh.polls) /\ Good(u, Fresh) /\ u.c \in Links(Fresh.asked)
    BY <1>4, LiveFields DEF Kept
  <2>3. w \in Live(Fresh.asked, Fresh.polls) /\ (w.failed \/ Writes(u, w, Hello))
    BY <1>5, <2>1, <2>2, WriteIs
  <2> HIDE DEF w
  <2>4. CASE ~w.failed
    <3>1. PICK q \in Sequences : w.c = [u.c EXCEPT !.sequence = q]
      BY <2>3, <2>4 DEF Writes
    <3>2. /\ w.c.queued = u.c.queued /\ w.c.last_state = u.c.last_state
          /\ w.c.since_state = u.c.since_state
          /\ w.c.uf2_bootloader_ready = u.c.uf2_bootloader_ready
          /\ w.c.install_receipt_recorded = u.c.install_receipt_recorded
          /\ w.c.status = u.c.status
          /\ w.c.pending_ping = u.c.pending_ping /\ w.c.since_ping = u.c.since_ping
      BY <2>2, <3>1 DEF Links
    <3>3. w.heard = u.heard /\ w.alive = u.alive
      BY <2>3, <2>4 DEF Writes
    <3>4. Steady(w.c) /\ Current(w.c, Fresh) /\ w.c.status \in Fresh.status
      BY <2>2, <3>2 DEF Good, Steady, Current
    <3>5. Delivered(w, Fresh) /\ Refreshed(w, Fresh)
      BY <1>5 DEF Delivered, Refreshed
    <3>6. Known(w, Fresh)
      BY <2>2, <3>2, <3>3 DEF Good, Known
    <3>7. Answering(w, Fresh)
      BY <2>2, <3>2, <3>3 DEF Good, Answering, Unanswered
    <3> QED
      BY <2>3, <3>4, <3>5, <3>6, <3>7 DEF Kept, Good
  <2> QED
    BY <2>3, <2>4 DEF Kept
<1> HIDE DEF w
<1>7. t \in Kept(Fresh) /\ (t.failed \/ t.c.status # "Ready" \/ Served(t.c))
  BY <1>1, <1>6, FreshIs, PollKeeps DEF w
<1>8. ASSUME ~t.failed, t.c.status = "Ready" PROVE t.alive
  <2>1. Good(t, Fresh) /\ Served(t.c) /\ t.c \in Links(NoState)
    BY <1>5, <1>7, <1>8, LiveFields DEF Kept
  <2>2. t.alive \/ Unanswered(t.c, Silence + 1)
    BY <1>8, <2>1 DEF Good, Answering, Fresh
  <2>3. ~Unanswered(t.c, Silence + 1)
    <3>1. CASE t.c.pending_ping = None
      <4>1. ~(Silence + 1 <= PingTicks + ServiceTicks)
        BY Limits DEF Silence
      <4> QED
        BY <3>1, <4>1 DEF Unanswered
    <3>2. CASE t.c.pending_ping # None
      <4>1. t.c.pending_ping.age \in 0 .. PongTicks /\ t.c.pending_ping.age # PongTicks
        BY <2>1, <3>2 DEF Links, Pings, Served, PingsDone
      <4>2. t.c.pending_ping.age < PongTicks
            /\ ~(Silence + 1 <= PingTicks + ServiceTicks + t.c.pending_ping.age)
        BY <4>1, Limits DEF Silence
      <4> QED
        BY <3>2, <4>2 DEF Unanswered
    <3> QED
      BY <3>1, <3>2
  <2> QED
    BY <2>2, <2>3
<1> QED
  BY <1>7, <1>8

\* What a call may desire of a new session, in a context.
Wants(x, d) == d \in Slots /\ (d = x.asked \/ (d = NoState /\ ~Active(x.asked)))

\* A fresh session that is Ready has its place in every context.
LEMMA WelcomeIs ==
  ASSUME NEW x \in Contexts, NEW d, Wants(x, d), x.polls = 0 .. ServiceTicks,
         NEW t \in Kept(Fresh), ~t.failed, t.c.status = "Ready", Served(t.c), t.alive
  PROVE  LET h == Handshake(t, d)
         IN  /\ h \in Kept(x) /\ ~h.failed /\ h.c.status = "Ready"
             /\ d = NoState => Served(h.c)
<1> DEFINE q == IF d = NoState THEN << >> ELSE << d >>
           c == [t.c EXCEPT !.queued = q]
           n == [t EXCEPT !.c = c, !.last_poll = 0]
<1>0. /\ Fresh.asked = NoState /\ Fresh.polls = -1 .. ServiceTicks /\ ~Active(NoState)
      /\ Fresh.answers = {}
  BY StateAssumption DEF Fresh, Active
<1>1. t \in Live(NoState, -1 .. ServiceTicks) /\ t.c \in Links(NoState) /\ Good(t, Fresh)
      /\ t.wire \in Wires(x.asked)
  BY <1>0, LiveFields, WiresGrow DEF Kept
<1>2. t.c.queued = << >> /\ t.c.last_state = NoState /\ t.c.since_state = -1
  <2>1. t.c.queued = << >> /\ Current(t.c, Fresh) /\ Steady(t.c)
    BY <1>1 DEF Served, Good
  <2> QED
    BY <1>0, <2>1 DEF Current, Steady
<1>3. Handshake(t, d) = n
  <2>1. CASE d = NoState
    <3>1. t.c = c
      BY <1>1, <1>2, <2>1 DEF Links
    <3>2. Handshake(t, d) = [t EXCEPT !.last_poll = 0]
      BY <2>1 DEF Handshake
    <3> HIDE DEF c
    <3> QED
      BY <1>1, <3>1, <3>2 DEF Live, SessionsOver
  <2>2. CASE d # NoState
    <3>1. queue_state(t.c, d) = [t.c EXCEPT !.queued = << d >>]
      <4>1. Len(t.c.queued) # QueueCapacity
        BY <1>2, Limits
      <4>2. Append(t.c.queued, d) = << d >>
        BY <1>2
      <4> QED
        BY <4>1, <4>2 DEF queue_state
    <3>2. c = [t.c EXCEPT !.queued = << d >>]
      BY <2>2
    <3> HIDE DEF c
    <3> QED
      BY <1>1, <2>2, <3>1, <3>2 DEF Handshake, Live, SessionsOver
  <2> QED
    BY <2>1, <2>2
<1>4. q \in Seq(States \cap {x.asked}) /\ (q = << >> => d = NoState)
  <2>1. CASE d = NoState
    BY <2>1
  <2>2. CASE d # NoState
    <3>1. d \in States \cap {x.asked}
      BY <2>2 DEF Wants, Slots
    <3> QED
      BY <2>2, <3>1
  <2> QED
    BY <2>1, <2>2
<1> HIDE DEF q
<1>5. c \in Links(x.asked)
  BY <1>1, <1>4 DEF Links
<1>6. /\ c.queued = q /\ c.last_state = NoState /\ c.since_state = -1 /\ c.status = "Ready"
      /\ c.uf2_bootloader_ready = t.c.uf2_bootloader_ready
      /\ c.install_receipt_recorded = t.c.install_receipt_recorded
      /\ c.pending_ping = t.c.pending_ping /\ c.since_ping = t.c.since_ping
  BY <1>1, <1>2 DEF Links
<1> HIDE DEF c
<1>7. n \in Live(x.asked, x.polls)
  <2>1. 0 \in x.polls
    BY Limits
  <2> QED
    BY <1>1, <1>5, <2>1 DEF Live, SessionsOver
<1>8. n.c = c /\ n.heard = t.heard /\ n.alive = t.alive /\ n.failed = t.failed
  BY <1>1 DEF Live, SessionsOver
<1> HIDE DEF n
<1>9. q = << >> => ~Active(x.asked)
  BY <1>0, <1>4 DEF Wants
<1>10. Steady(n.c) /\ Current(n.c, x) /\ n.c.status \in x.status
  BY <1>6, <1>8 DEF Steady, Current, Contexts
<1>11. Delivered(n, x) /\ Refreshed(n, x)
  BY <1>6, <1>8, <1>9 DEF Delivered, Refreshed
<1>12. Known(n, x)
  BY <1>0, <1>1, <1>6, <1>8 DEF Good, Known
<1>13. Answering(n, x)
  BY <1>8 DEF Answering
<1>14. d = NoState => Served(n.c)
  <2>1. d = NoState => q = << >>
    BY DEF q
  <2> QED
    BY <1>6, <1>8, <2>1, Limits DEF Served, PingsDone
<1> QED
  BY <1>3, <1>6, <1>7, <1>8, <1>10, <1>11, <1>12, <1>13, <1>14 DEF Kept, Good

\* connect, in a context.
LEMMA ConnectedIs ==
  ASSUME NEW x \in Contexts, NEW d, Wants(x, d), x.polls = 0 .. ServiceTicks, NEW t \in Connected[d]
  PROVE  \/ t \in Lost(x.asked) /\ t.failed
         \/ /\ t \in Kept(x) /\ ~t.failed /\ t.c.status = "Ready"
            /\ d = NoState => Served(t.c)
<1>1. Connected[d] = Rest({Handshake(s, d) : s \in Shaken})
  BY DEF Connected, Wants, Slots
<1>2. PICK s \in Shaken : t = [Handshake(s, d) EXCEPT !.writes = 0]
  BY <1>1 DEF Rest
<1>3. s \in Kept(Fresh) /\ (s.failed \/ s.c.status # "Ready" \/ (Served(s.c) /\ s.alive))
  BY ShakenIs
<1>4. CASE s.failed \/ s.c.status # "Ready"
  <2>1. t = [Close(Fail(s)) EXCEPT !.writes = 0]
    BY <1>2, <1>4 DEF Handshake
  <2>2. s \in Live(NoState, -1 .. ServiceTicks) /\ s.wire \in Wires(x.asked)
    BY <1>3, LiveFields, WiresGrow DEF Kept, Fresh
  <2>3. t = [c |-> Closed, last_poll |-> s.last_poll, wire |-> s.wire, told |-> s.told,
             writes |-> 0, heard |-> {}, alive |-> s.alive, failed |-> TRUE]
    BY <2>1, <2>2 DEF Live, SessionsOver, Close, Fail
  <2> QED
    BY <2>2, <2>3 DEF Lost, Live, SessionsOver
<1>5. CASE ~(s.failed \/ s.c.status # "Ready")
  <2> DEFINE h == Handshake(s, d)
  <2>1. h \in Kept(x) /\ ~h.failed /\ h.c.status = "Ready" /\ (d = NoState => Served(h.c))
    BY <1>3, <1>5, WelcomeIs
  <2> HIDE DEF h
  <2>2. t = [h EXCEPT !.writes = 0]
    BY <1>2 DEF h
  <2> QED
    BY <2>1, <2>2, WritesKeep
<1> QED
  BY <1>4, <1>5

\* The contexts of a call of an open output.
AtWork(x) == x \in Contexts /\ x.polls = 0 .. ServiceTicks /\ x.status = {"Ready"}

LEMMA CloseLoses ==
  ASSUME NEW x \in Contexts, NEW s, s \in Kept(x) \/ s \in Lost(x.asked)
  PROVE  /\ Close(s) \in Lost(x.asked) /\ Close(s).failed = s.failed
         /\ Close(s).c = Closed
<1>1. CASE s \in Lost(x.asked)
  BY <1>1 DEF Close, Lost, SessionsOver
<1>2. CASE s \in Kept(x)
  <2>1. s \in Live(x.asked, x.polls)
    BY <1>2 DEF Kept
  <2>2. s.last_poll \in -1 .. ServiceTicks
    <3>1. s.last_poll \in x.polls
      BY <2>1, LiveFields
    <3> QED
      BY <3>1, Limits DEF Contexts
  <2> QED
    BY <2>1, <2>2 DEF Close, Lost, Live, SessionsOver
<1> QED
  BY <1>1, <1>2

\* A poll of an open session ends it or leaves nothing to do.
LEMMA PolledEnds ==
  ASSUME NEW x, AtWork(x), NEW s \in Kept(x), ~s.failed, NEW u \in Polled(s)
  PROVE  (IF u.failed THEN Close(u) ELSE u) \in Done(x)
<1>1. x \in Contexts /\ 0 \in x.polls
  BY Limits DEF AtWork
<1>2. u \in Kept(x) /\ (u.failed \/ u.c.status # "Ready" \/ Served(u.c))
  BY <1>1, PolledKeeps
<1>3. CASE u.failed
  BY <1>1, <1>2, <1>3, CloseLoses DEF Done
<1>4. CASE ~u.failed
  <2>1. u.c.status = "Ready"
    BY <1>2, <1>4 DEF Kept, Good, AtWork
  <2> QED
    BY <1>2, <1>4, <2>1 DEF Done
<1> QED
  BY <1>3, <1>4

LEMMA ReopenedEnds ==
  ASSUME NEW x, AtWork(x), NEW d, Wants(x, d), NEW t \in Reopened[d]
  PROVE  t \in Done(x)
<1>1. Reopened[d] = {IF u.failed THEN Close(u) ELSE u : u \in UNION {Polled(s) : s \in Connected[d]}}
  BY DEF Reopened, Wants, Slots
<1>2. PICK u \in UNION {Polled(s) : s \in Connected[d]} : t = IF u.failed THEN Close(u) ELSE u
  BY <1>1
<1>3. PICK s \in Connected[d] : u \in Polled(s)
  BY <1>2
<1>4. \/ s \in Lost(x.asked) /\ s.failed
      \/ s \in Kept(x) /\ ~s.failed
  BY ConnectedIs DEF AtWork
<1>5. CASE s.failed
  <2>1. u = s /\ s \in Lost(x.asked)
    BY <1>3, <1>4, <1>5 DEF Polled
  <2> QED
    BY <1>2, <1>5, <2>1, CloseLoses DEF Done, AtWork
<1>6. CASE ~s.failed
  BY <1>2, <1>3, <1>4, <1>6, PolledEnds
<1> QED
  BY <1>5, <1>6

LEMMA WroteJoined ==
  ASSUME NEW a, NEW v \in Wires(a), NEW w \in Wires(a)
  PROVE  v \o w \in Wires(a) /\ (Wrote(w) => Wrote(v \o w))
<1>1. v \o w \in Wires(a)
  BY ConcatProperties DEF Wires
<1>2. ASSUME Wrote(w) PROVE Wrote(v \o w)
  <2>1. PICK i \in 1 .. Len(w) : w[i].message.type = "GamepadState"
    BY <1>2 DEF Wrote
  <2>2. Len(v) \in Nat /\ Len(w) \in Nat
    BY DEF Wires
  <2>3. Len(v) + i \in 1 .. Len(v) + Len(w) /\ ~(Len(v) + i <= Len(v)) /\ Len(v) + i - Len(v) = i
    BY <2>2
  <2>4. Len(v \o w) = Len(v) + Len(w) /\ (v \o w)[Len(v) + i] = w[i]
    BY <2>3, ConcatProperties DEF Wires
  <2> QED
    BY <2>1, <2>3, <2>4 DEF Wrote
<1> QED
  BY <1>1, <1>2

\* An attempt of an output without a connection, or with an open one.
LEMMA AttemptsEnd ==
  ASSUME NEW x, AtWork(x), NEW d, Wants(x, d), NEW s,
         s \in Lost(x.asked) \/ (s \in Kept(x) /\ ~s.failed),
         NEW t \in Attempts(s, d)
  PROVE  t \in Done(x)
<1>0. x \in Contexts
  BY DEF AtWork
<1>1. CASE s \in Kept(x) /\ ~s.failed
  <2>1. s.c # Closed
    <3>1. s.c \in Links(x.asked)
      BY <1>1, LiveFields DEF Kept
    <3> QED
      BY <3>1 DEF Links, Closed
  <2>2. PICK u \in Polled(s) : t = IF u.failed THEN Close(u) ELSE u
    BY <2>1 DEF Attempts
  <2> QED
    BY <1>1, <2>2, PolledEnds
<1>2. CASE s \in Lost(x.asked)
  <2>1. s.c = Closed
    BY <1>2, LostFields
  <2>2. CASE t = Fail(s)
    BY <1>2, <2>2 DEF Fail, Lost, SessionsOver, Done
  <2>3. CASE t # Fail(s)
    <3>1. PICK r \in Reopened[d] :
            t = [r EXCEPT !.wire = s.wire \o @, !.heard = s.heard \cup @,
                          !.told = IF @ = NoState THEN s.told ELSE @]
      BY <2>1, <2>3 DEF Attempts
    <3> DEFINE y == [x EXCEPT !.device = NoState]
               told == IF r.told = NoState THEN s.told ELSE r.told
    <3>2. /\ AtWork(y) /\ y.asked = x.asked /\ y.answers = x.answers /\ y.status = x.status
          /\ y.polls = x.polls /\ y.told = x.told /\ y.alive = x.alive /\ y.device = NoState
      <4>1. NoState \in Slots
        BY DEF Slots
      <4> QED
        BY <4>1 DEF AtWork, Contexts
    <3> HIDE DEF y
    <3>3. r \in Done(y)
      <4>1. Wants(y, d)
        BY <3>2 DEF Wants
      <4> QED
        BY <3>2, <4>1, ReopenedEnds
    <3>4. s.wire \in Wires(x.asked) /\ s.heard \in SUBSET Answers /\ s.told \in Slots
      BY <1>2, LostFields
    <3>5. CASE r.failed
      <4>1. r \in Lost(x.asked)
        BY <3>2, <3>3, <3>5 DEF Done
      <4>2. s.wire \o r.wire \in Wires(x.asked) /\ s.heard \cup r.heard \in SUBSET Answers
            /\ told \in Slots
        BY <3>4, <4>1, LostFields, WroteJoined
      <4>3. t = [r EXCEPT !.wire = s.wire \o r.wire, !.heard = s.heard \cup r.heard, !.told = told]
        BY <3>1, <4>1 DEF Lost, SessionsOver
      <4> HIDE DEF told
      <4>4. t \in Lost(x.asked) /\ t.failed = r.failed
        BY <4>1, <4>2, <4>3 DEF Lost, SessionsOver
      <4> QED
        BY <3>5, <4>4 DEF Done
    <3>6. CASE ~r.failed
      <4>1. r \in Kept(y) /\ r.c.status = "Ready" /\ Served(r.c) /\ Good(r, y)
        BY <3>3, <3>6 DEF Done, Kept
      <4>2. r \in Live(x.asked, x.polls)
        BY <3>2, <4>1 DEF Kept
      <4>3. /\ s.wire \o r.wire \in Wires(x.asked) /\ (Wrote(r.wire) => Wrote(s.wire \o r.wire))
            /\ s.heard \cup r.heard \in SUBSET Answers /\ told \in Slots
        BY <3>4, <4>2, LiveFields, WroteJoined
      <4>4. t = [r EXCEPT !.wire = s.wire \o r.wire, !.heard = s.heard \cup r.heard, !.told = told]
        BY <3>1, <4>2 DEF Live, SessionsOver
      <4>5. Active(x.asked) => told = x.asked
        <5>1. SUFFICES ASSUME Active(x.asked) PROVE told = x.asked
          OBVIOUS
        <5>2. r.told = x.asked
          BY <3>2, <4>1, <5>1, StateAssumption DEF Good, Delivered, Served, Active
        <5> QED
          BY <5>1, <5>2, StateAssumption DEF Active
      <4> HIDE DEF told
      <4>6. t \in Live(x.asked, x.polls)
        BY <4>2, <4>3, <4>4 DEF Live, SessionsOver
      <4>7. /\ t.c = r.c /\ t.wire = s.wire \o r.wire /\ t.heard = s.heard \cup r.heard
            /\ t.told = told /\ t.alive = r.alive /\ t.failed = r.failed
        BY <4>2, <4>4 DEF Live, SessionsOver
      <4>8. Steady(t.c) /\ Current(t.c, x) /\ t.c.status \in x.status
        BY <3>2, <4>1, <4>7 DEF Good, Current
      <4>9. Delivered(t, x)
        BY <3>2, <4>1, <4>5, <4>7 DEF Good, Delivered
      <4>10. Known(t, x)
        BY <3>2, <4>1, <4>7 DEF Good, Known
      <4>11. Refreshed(t, x)
        BY <3>2, <4>1, <4>3, <4>7 DEF Good, Refreshed
      <4>12. Answering(t, x)
        BY <3>2, <4>1, <4>7 DEF Good, Answering
      <4> QED
        BY <3>6, <4>1, <4>6, <4>7, <4>8, <4>9, <4>10, <4>11, <4>12 DEF Done, Kept, Good
    <3> QED
      BY <3>5, <3>6
  <2> QED
    BY <2>2, <2>3
<1> QED
  BY <1>1, <1>2

\* send_state and service.
LEMMA TwoAttemptsEnd ==
  ASSUME NEW x, AtWork(x), NEW d, Wants(x, d), NEW s,
         s \in Lost(x.asked) \/ (s \in Kept(x) /\ ~s.failed),
         NEW t \in TwoAttempts(Attempts(s, d), d)
  PROVE  t \in Done(x)
<1>1. CASE t \in Attempts(s, d)
  BY <1>1, AttemptsEnd
<1>2. CASE t \notin Attempts(s, d)
  <2>1. PICK r \in Attempts(s, d) : r.failed /\ t \in Attempts([r EXCEPT !.failed = FALSE], d)
    BY <1>2 DEF TwoAttempts
  <2>2. r \in Lost(x.asked)
    BY <2>1, AttemptsEnd DEF Done
  <2>3. [r EXCEPT !.failed = FALSE] \in Lost(x.asked)
    BY <2>2 DEF Lost, SessionsOver
  <2> QED
    BY <2>1, <2>3, AttemptsEnd
<1> QED
  BY <1>1, <1>2

\* Another sequence number.
Numbered(c, d) == \E q \in Sequences : d = [c EXCEPT !.sequence = q]

\* What a write does, whether or not the port takes the frame.
LEMMA WriteMoves ==
  ASSUME NEW a \in Slots, NEW polls, NEW s \in Live(a, polls), NEW m \in Letters(a),
         NEW w, w = write_message(s, m)
  PROVE  /\ w \in Live(a, polls)
         /\ Numbered(s.c, w.c)
         /\ w.last_poll = s.last_poll /\ w.heard = s.heard /\ w.alive = s.alive
         /\ w.told \in {s.told, Tells(m, s.told)}
<1>1. w \in Live(a, polls) /\ (w.failed \/ Writes(s, w, m))
  BY WriteIs
<1>2. CASE Writes(s, w, m)
  BY <1>1, <1>2 DEF Writes, Numbered
<1>3. CASE ~Writes(s, w, m)
  <2>1. w.failed
    BY <1>1, <1>3
  <2>2. s.c \in Links(a) /\ s.c.sequence \in Sequences
    BY LiveFields DEF Links
  <2>3. s.c = [s.c EXCEPT !.sequence = s.c.sequence]
    BY <2>2 DEF Links
  <2>4. CASE s.failed
    BY <1>1, <2>2, <2>3, <2>4 DEF write_message, Numbered
  <2>5. CASE ~s.failed /\ s.writes = 0
    <3>1. w = [s EXCEPT !.failed = TRUE]
      BY <2>5 DEF write_message, Fail
    <3>2. w.c = s.c /\ w.last_poll = s.last_poll /\ w.heard = s.heard /\ w.alive = s.alive
          /\ w.told = s.told
      BY <3>1 DEF Live, SessionsOver
    <3> QED
      BY <1>1, <2>2, <2>3, <3>2 DEF Numbered
  <2>6. CASE ~s.failed /\ s.writes # 0
    <3>1. w.failed = s.failed
      BY <2>6 DEF write_message, Live, SessionsOver
    <3> QED
      BY <2>1, <2>6, <3>1
  <2> QED
    BY <2>4, <2>5, <2>6
<1> QED
  BY <1>2, <1>3

\* The neutral leaves nothing to refresh.
LEMMA NeutralSent ==
  ASSUME NEW x, AtWork(x), x.asked = Neutral, NEW y, AtWork(y), y.answers = x.answers, y.alive = x.alive,
         NEW s \in Kept(y), ~s.failed, s.wire = << >>, NEW u \in Ports(s), NEW t, t = send_neutral_now(u)
  PROVE  /\ t \in Live(x.asked, x.polls) /\ Good(t, x) /\ t.c.queued = << >>
         /\ t.last_poll = s.last_poll /\ t.heard = s.heard /\ t.alive = s.alive
         /\ t.told \in {s.told, Neutral} /\ t.c.pending_ping = s.c.pending_ping
<1>1. s \in Live(y.asked, y.polls) /\ Good(s, y) /\ s.c \in Links(y.asked) /\ s.c.status = "Ready"
  BY LiveFields DEF Kept, Good, AtWork
<1>11. x.polls = y.polls /\ << >> \in Wires(x.asked)
  BY DEF AtWork, Wires
<1>2. PICK n \in Nat : u = [s EXCEPT !.writes = n]
  BY Limits DEF Ports
<1> DEFINE c == [s.c EXCEPT !.queued = << >>, !.last_state = NoState, !.since_state = -1]
           v == [[s EXCEPT !.writes = n] EXCEPT !.c = c]
<1>3. c \in Links(x.asked)
  <2>1. -1 \in -1 .. RefreshTicks /\ << >> \in Seq(States \cap {x.asked})
    BY Limits
  <2> QED
    BY <1>1, <2>1 DEF Links
<1>4. t = write_message(v, NeutralNow)
  <2>1. u.c = s.c
    BY <1>1, <1>2 DEF Live, SessionsOver
  <2>2. [u EXCEPT !.c.queued = << >>, !.c.last_state = NoState, !.c.since_state = -1] = v
    BY <1>1, <1>2 DEF Live, SessionsOver, Links
  <2> HIDE DEF v
  <2> QED
    BY <1>1, <2>1, <2>2 DEF send_neutral_now, Off
<1>5. NeutralNow \in Letters(x.asked) /\ Tells(NeutralNow, s.told) = Neutral
  BY DEF Letters, Tells, NeutralNow
<1>6. /\ c.queued = << >> /\ c.last_state = NoState /\ c.since_state = -1 /\ c.status = "Ready"
      /\ c.uf2_bootloader_ready = s.c.uf2_bootloader_ready
      /\ c.install_receipt_recorded = s.c.install_receipt_recorded
      /\ c.pending_ping = s.c.pending_ping /\ c.since_ping = s.c.since_ping
  BY <1>1 DEF Links
<1> HIDE DEF c
<1>7. /\ t \in Live(x.asked, x.polls)
      /\ Numbered(c, t.c)
      /\ t.last_poll = s.last_poll /\ t.heard = s.heard /\ t.alive = s.alive
      /\ t.told \in {s.told, Neutral}
  <2>1. v \in Live(x.asked, x.polls)
    BY <1>1, <1>3, <1>11 DEF Live, SessionsOver
  <2>2. /\ v.c = c /\ v.last_poll = s.last_poll /\ v.heard = s.heard /\ v.alive = s.alive
        /\ v.told = s.told
    BY <1>1 DEF Live, SessionsOver
  <2>3. x.asked \in Slots
    BY DEF AtWork, Contexts
  <2> HIDE DEF v
  <2>4. /\ t \in Live(x.asked, x.polls)
        /\ Numbered(v.c, t.c)
        /\ t.last_poll = v.last_poll /\ t.heard = v.heard /\ t.alive = v.alive
        /\ t.told \in {v.told, Tells(NeutralNow, v.told)}
    BY ONLY <1>4, <1>5, <2>1, <2>3, WriteMoves
  <2> QED
    BY <1>5, <2>2, <2>4
<1>8. PICK q \in Sequences : t.c = [c EXCEPT !.sequence = q]
  BY <1>7 DEF Numbered
<1>9. /\ t.c.queued = << >> /\ t.c.last_state = NoState /\ t.c.since_state = -1 /\ t.c.status = "Ready"
      /\ t.c.uf2_bootloader_ready = s.c.uf2_bootloader_ready
      /\ t.c.install_receipt_recorded = s.c.install_receipt_recorded
      /\ t.c.pending_ping = s.c.pending_ping /\ t.c.since_ping = s.c.since_ping
  BY <1>3, <1>6, <1>8 DEF Links
<1>10. Steady(t.c) /\ Current(t.c, x) /\ t.c.status \in x.status
  BY <1>9 DEF Steady, Current, AtWork
<1>14. Delivered(t, x) /\ Refreshed(t, x)
  BY DEF Delivered, Refreshed, Active
<1>12. Known(t, x)
  BY <1>1, <1>7, <1>9 DEF Good, Known
<1>13. Answering(t, x)
  BY <1>1, <1>7, <1>9 DEF Good, Answering, Unanswered
<1> QED
  BY <1>7, <1>9, <1>10, <1>14, <1>12, <1>13 DEF Good

\* A request forgets the answers of its kind and disturbs nothing else.
LEMMA RequestSent ==
  ASSUME NEW x, AtWork(x), NEW s \in Kept(x), ~s.failed, s.c.queued = << >>, s.told = NoState,
         s.wire = << >>, NEW m \in [type : {"EnterUf2Bootloader"}, id : RequestIds]
                     \cup [type : {"RecordInstallReceipt"}, id : RequestIds, receipt : Receipts],
         NEW u \in Ports(s), NEW t, t = send_request(u, m)
  PROVE  /\ t \in Live(x.asked, x.polls) /\ Good(t, x) /\ t.c.queued = << >>
         /\ t.last_poll = s.last_poll /\ t.heard = s.heard /\ t.alive = s.alive
         /\ t.told = NoState /\ t.c.pending_ping = s.c.pending_ping
         /\ t.c.uf2_bootloader_ready =
              IF m.type = "EnterUf2Bootloader" THEN None ELSE s.c.uf2_bootloader_ready
         /\ t.c.install_receipt_recorded =
              IF m.type = "EnterUf2Bootloader" THEN s.c.install_receipt_recorded ELSE None
<1>1. s \in Live(x.asked, x.polls) /\ Good(s, x) /\ s.c \in Links(x.asked)
  BY LiveFields DEF Kept
<1>2. PICK n \in Nat : u = [s EXCEPT !.writes = n]
  BY Limits DEF Ports
<1> DEFINE ready == IF m.type = "EnterUf2Bootloader" THEN None ELSE s.c.uf2_bootloader_ready
           recorded == IF m.type = "EnterUf2Bootloader" THEN s.c.install_receipt_recorded ELSE None
           c == [s.c EXCEPT !.uf2_bootloader_ready = ready, !.install_receipt_recorded = recorded,
                            !.control_error = None]
           v == [[s EXCEPT !.writes = n] EXCEPT !.c = c]
<1>3. /\ ready \in RequestIds \cup {None} /\ (ready = None \/ ready = s.c.uf2_bootloader_ready)
      /\ recorded \in [id : RequestIds, receipt : Receipts] \cup {None}
      /\ recorded = None \/ recorded = s.c.install_receipt_recorded
  BY <1>1 DEF Links
<1>4. t = write_message(v, m)
  <2>1. u.c = s.c
    BY <1>1, <1>2 DEF Live, SessionsOver
  <2>2. c = IF m.type = "EnterUf2Bootloader"
            THEN [u.c EXCEPT !.uf2_bootloader_ready = None, !.control_error = None]
            ELSE [u.c EXCEPT !.install_receipt_recorded = None, !.control_error = None]
    BY <1>1, <2>1 DEF Links
  <2> HIDE DEF c
  <2>3. [u EXCEPT !.c = c] = v
    BY <1>2
  <2> HIDE DEF v
  <2> QED
    BY <2>2, <2>3 DEF send_request
<1> HIDE DEF ready, recorded
<1>5. c \in Links(x.asked)
  BY <1>1, <1>3 DEF Links
<1>6. m \in Letters(x.asked) /\ Tells(m, s.told) = NoState
  BY DEF Letters, Tells
<1>7. /\ c.queued = << >> /\ c.last_state = s.c.last_state /\ c.since_state = s.c.since_state
      /\ c.status = s.c.status
      /\ c.uf2_bootloader_ready = ready /\ c.install_receipt_recorded = recorded
      /\ c.pending_ping = s.c.pending_ping /\ c.since_ping = s.c.since_ping
  BY <1>1 DEF Links
<1> HIDE DEF c
<1>8. /\ t \in Live(x.asked, x.polls)
      /\ Numbered(c, t.c)
      /\ t.last_poll = s.last_poll /\ t.heard = s.heard /\ t.alive = s.alive
      /\ t.told = NoState
  <2>1. v \in Live(x.asked, x.polls)
    <3>1. [s EXCEPT !.writes = n] \in Live(x.asked, x.polls)
      BY <1>1 DEF Live, SessionsOver
    <3> QED
      BY <1>5, <3>1, Moved
  <2>2. /\ v.c = c /\ v.last_poll = s.last_poll /\ v.heard = s.heard /\ v.alive = s.alive
        /\ v.told = s.told
    BY <1>1 DEF Live, SessionsOver
  <2>3. x.asked \in Slots
    BY DEF AtWork, Contexts
  <2> HIDE DEF v
  <2>4. /\ t \in Live(x.asked, x.polls)
        /\ Numbered(v.c, t.c)
        /\ t.last_poll = v.last_poll /\ t.heard = v.heard /\ t.alive = v.alive
        /\ t.told \in {v.told, Tells(m, v.told)}
    BY ONLY <1>4, <1>6, <2>1, <2>3, WriteMoves
  <2> QED
    BY <1>6, <2>2, <2>4
<1>9. PICK q \in Sequences : t.c = [c EXCEPT !.sequence = q]
  BY <1>8 DEF Numbered
<1>10. /\ t.c.queued = << >> /\ t.c.last_state = s.c.last_state /\ t.c.since_state = s.c.since_state
       /\ t.c.status = s.c.status
       /\ t.c.uf2_bootloader_ready = ready /\ t.c.install_receipt_recorded = recorded
       /\ t.c.pending_ping = s.c.pending_ping /\ t.c.since_ping = s.c.since_ping
  BY <1>5, <1>7, <1>9 DEF Links
<1>11. Steady(t.c) /\ Current(t.c, x) /\ t.c.status \in x.status
  BY <1>1, <1>10 DEF Good, Steady, Current
<1>12. Delivered(t, x)
  BY <1>1, <1>8, <1>10 DEF Good, Delivered
<1>13. Known(t, x)
  BY <1>1, <1>3, <1>8, <1>10 DEF Good, Known
<1>14. Answering(t, x)
  BY <1>1, <1>8, <1>10 DEF Good, Answering, Unanswered
<1>15. Refreshed(t, x)
  <2>1. ~Wrote(s.wire)
    BY DEF Wrote
  <2> QED
    BY <1>1, <1>8, <1>10, <2>1 DEF Good, Refreshed
<1> QED
  BY <1>8, <1>10, <1>11, <1>12, <1>13, <1>14, <1>15 DEF Good, ready, recorded

-----------------------------------------------------------------------------
(* The invariant between calls.                                            *)

Calls ==
  {Idle} \cup [kind : {"Info"}] \cup [kind : {"Uf2"}, id : RequestIds]
    \cup [kind : {"Receipt"}, id : RequestIds, receipt : Receipts]
Observations == {None} \cup [kind : {"Observed"}, id : RequestIds, receipt : Receipts]

\* The context of a call by which the engine asks for a.
Context(a) ==
  [asked |-> a, device |-> device, answers |-> heard \cup (Answers \ Awaited),
   status |-> {"Ready"}, polls |-> 0 .. ServiceTicks,
   told |-> IF stalled THEN 0 ELSE since_told, alive |-> IF stalled THEN 0 ELSE since_alive]
Standing == Context(asked)

\* How old the last state and the last sign of life may be, polled ago.
Timely(c, ago) ==
  /\ Active(asked) => since_told <= RefreshTicks + ago
  /\ IF c.pending_ping = None THEN since_alive <= PingTicks + ago
     ELSE since_alive <= PingTicks + ServiceTicks + PongTicks + ago

HostTyped ==
  /\ asked \in Slots /\ device \in States /\ desired_state \in Slots
  /\ heard \in SUBSET Answers /\ call \in Calls /\ observed \in Observations
  /\ last_poll \in -1 .. ServiceTicks
  /\ dropped \in BOOLEAN /\ stalled \in BOOLEAN
  /\ since_told \in Nat /\ since_alive \in Nat
Desired == desired_state = asked \/ (desired_state = NoState /\ ~Active(asked))
Between ==
  /\ dropped => connection = Closed /\ call = Idle
  /\ call # Idle => connection # Closed
LinkGood ==
  connection # Closed =>
    /\ Session(connection, last_poll) \in Live(asked, 0 .. ServiceTicks)
    /\ Good(Session(connection, last_poll), Standing)
    /\ connection.queued = << >>
    /\ ~stalled => Timely(connection, last_poll)
HostInv == HostTyped /\ Desired /\ Between /\ LinkGood

\* What TimedCall does to the clocks.
Clocks ==
  /\ since_told' = IF WroteState \/ connection' = Closed THEN 0 ELSE since_told
  /\ since_alive' = IF alive' \/ connection' = Closed THEN 0 ELSE since_alive
  /\ stalled' = (stalled /\ connection' # Closed)

LEMMA ContextIs ==
  ASSUME HostTyped, NEW a \in Slots
  PROVE  /\ AtWork(Context(a)) /\ Context(a) \in Contexts
         /\ Context(a).asked = a /\ Context(a).device = device
         /\ Context(a).answers = heard \cup (Answers \ Awaited)
         /\ Context(a).told = IF stalled THEN 0 ELSE since_told
         /\ Context(a).alive = IF stalled THEN 0 ELSE since_alive
         /\ Context(a).polls = 0 .. ServiceTicks /\ Context(a).status = {"Ready"}
<1>1. device \in Slots /\ heard \cup (Answers \ Awaited) \in SUBSET Answers
  BY DEF HostTyped, Slots
<1> DEFINE told == IF stalled THEN 0 ELSE since_told
           silence == IF stalled THEN 0 ELSE since_alive
<1>2. told \in Nat /\ silence \in Nat
  BY DEF HostTyped
<1>3. Context(a) = [asked |-> a, device |-> device, answers |-> heard \cup (Answers \ Awaited),
                    status |-> {"Ready"}, polls |-> 0 .. ServiceTicks, told |-> told, alive |-> silence]
  BY DEF Context
<1> HIDE DEF told, silence
<1>4. Context(a) \in Contexts
  BY <1>1, <1>2, <1>3 DEF Contexts
<1> QED
  BY <1>3, <1>4 DEF AtWork, told, silence

LEMMA SessionIs ==
  ASSUME NEW c, NEW p
  PROVE  LET s == Session(c, p)
         IN  /\ s.c = c /\ s.last_poll = p /\ s.wire = << >> /\ s.told = NoState
             /\ s.heard = {} /\ ~s.alive /\ ~s.failed
  BY DEF Session

LEMMA SessionLives ==
  ASSUME NEW a, NEW c \in Links(a), NEW polls, NEW p \in polls
  PROVE  Session(c, p) \in Live(a, polls)
<1>1. << >> \in Wires(a) /\ NoState \in Slots /\ {} \in SUBSET Answers /\ 0 \in Nat
  BY DEF Wires, Slots
<1> QED
  BY <1>1 DEF Session, Live, SessionsOver

LEMMA SessionLost ==
  ASSUME NEW a, NEW p \in -1 .. ServiceTicks
  PROVE  Session(Closed, p) \in Lost(a) /\ Fail(Session(Closed, p)) \in Lost(a)
         /\ Fail(Session(Closed, p)).failed
<1>1. << >> \in Wires(a) /\ NoState \in Slots /\ {} \in SUBSET Answers /\ 0 \in Nat
  BY DEF Wires, Slots
<1>2. Session(Closed, p) \in Lost(a)
  BY <1>1 DEF Session, Lost, SessionsOver
<1> QED
  BY <1>2 DEF Fail, Lost, SessionsOver

LEMMA LinkIsLink ==
  ASSUME NEW a, NEW c \in Links(a)
  PROVE  c # Closed
  BY DEF Links, Closed

\* The open connection between the calls.
LEMMA LinkIs ==
  ASSUME HostInv, connection # Closed
  PROVE  /\ connection \in Links(asked) /\ last_poll \in 0 .. ServiceTicks
         /\ Session(connection, last_poll) \in Kept(Standing)
         /\ connection.status = "Ready" /\ connection.queued = << >>
<1>1. Session(connection, last_poll) \in Live(asked, 0 .. ServiceTicks)
      /\ Good(Session(connection, last_poll), Standing)
  BY DEF HostInv, LinkGood
<1>2. connection \in Links(asked) /\ last_poll \in 0 .. ServiceTicks
  <2> DEFINE s == Session(connection, last_poll)
  <2>1. s.c = connection /\ s.last_poll = last_poll
    BY DEF Session
  <2> HIDE DEF s
  <2>2. s.c \in Links(asked) /\ s.last_poll \in 0 .. ServiceTicks
    BY <1>1, LiveFields DEF s
  <2> QED
    BY <2>1, <2>2
<1>3. Standing.asked = asked /\ Standing.polls = 0 .. ServiceTicks /\ Standing.status = {"Ready"}
  BY ContextIs DEF HostInv, HostTyped, Standing
<1>4. connection.status = "Ready"
  BY <1>1, <1>3, SessionIs DEF Good
<1> QED
  BY <1>1, <1>2, <1>3, <1>4 DEF Kept, HostInv, LinkGood

\* What a poll has served is in time.
LEMMA ServedIsTimely ==
  ASSUME NEW x, AtWork(x), NEW s \in Kept(x), ~s.failed, Served(s.c)
  PROVE  /\ Active(x.asked) => Wrote(s.wire) \/ x.told <= RefreshTicks
         /\ \/ s.alive
            \/ IF s.c.pending_ping = None THEN x.alive <= PingTicks
               ELSE x.alive <= PingTicks + ServiceTicks + PongTicks
<1>1. s.c \in Links(x.asked) /\ Good(s, x) /\ x.told \in Nat /\ x.alive \in Nat
  BY LiveFields DEF Kept, AtWork, Contexts
<1>2. ASSUME Active(x.asked) PROVE Wrote(s.wire) \/ x.told <= RefreshTicks
  <2>1. Wrote(s.wire) \/ (s.c.since_state < RefreshTicks => x.told <= s.c.since_state)
    BY <1>1, <1>2 DEF Good, Refreshed, Served
  <2>2. s.c.since_state \in -1 .. RefreshTicks /\ s.c.since_state # RefreshTicks
    BY <1>1 DEF Links, Served
  <2> QED
    BY <1>1, <2>1, <2>2, Limits
<1>3. ASSUME ~s.alive
      PROVE  IF s.c.pending_ping = None THEN x.alive <= PingTicks
             ELSE x.alive <= PingTicks + ServiceTicks + PongTicks
  <2>1. Unanswered(s.c, x.alive)
    BY <1>1, <1>3 DEF Good, Answering, AtWork
  <2>2. CASE s.c.pending_ping = None
    <3>1. s.c.since_ping \in 0 .. PingTicks /\ s.c.since_ping # PingTicks
      BY <1>1, <2>2 DEF Links, Served, PingsDone
    <3> QED
      BY <1>1, <2>1, <2>2, <3>1, Limits DEF Unanswered
  <2>3. CASE s.c.pending_ping # None
    <3>1. s.c.pending_ping.age \in 0 .. PongTicks /\ s.c.pending_ping.age # PongTicks
      BY <1>1, <2>3 DEF Links, Pings, Served, PingsDone
    <3> QED
      BY <1>1, <2>1, <2>3, <3>1, Limits DEF Unanswered
  <2> QED
    BY <2>2, <2>3
<1> QED
  BY <1>2, <1>3

\* Every state on the wire of the step is the newest.
NewestOnly == wire' \in Wires(asked')
\* A step reports a request's success only with the answer read.
AnswerStep ==
  outcome' # None /\ outcome'.verdict = "Ok" /\ outcome'.request.kind # "Info" =>
    Expected(outcome'.request) \in heard'

\* The open connection that a call leaves behind.
LEMMA LeftOpen ==
  ASSUME HostTyped, asked' \in Slots, device' \in States,
         NEW s \in Live(asked', 0 .. ServiceTicks), Good(s, Context(asked')), s.c.queued = << >>,
         Leave(s), Clocks, Known(Session(s.c, s.last_poll), Standing'),
         ~stalled => (Active(asked') => Wrote(s.wire) \/ since_told <= RefreshTicks + s.last_poll),
         ~stalled => \/ s.alive
                     \/ IF s.c.pending_ping = None THEN since_alive <= PingTicks + s.last_poll
                        ELSE since_alive <= PingTicks + ServiceTicks + PongTicks + s.last_poll
  PROVE  connection' # Closed /\ LinkGood' /\ NewestOnly /\ last_poll' \in -1 .. ServiceTicks
         /\ stalled' = stalled /\ since_told' \in Nat /\ since_alive' \in Nat
<1> DEFINE x == Context(asked')
           y == Standing'
           n == Session(s.c, s.last_poll)
<1>1. /\ s.c \in Links(asked') /\ s.wire \in Wires(asked') /\ s.told \in Slots
      /\ s.last_poll \in 0 .. ServiceTicks /\ s.alive \in BOOLEAN
  BY LiveFields
<1>2. /\ x.asked = asked' /\ x.device = device /\ x.status = {"Ready"}
      /\ x.told = (IF stalled THEN 0 ELSE since_told) /\ x.alive = (IF stalled THEN 0 ELSE since_alive)
  BY ContextIs
<1>3. /\ y.asked = asked' /\ y.device = device' /\ y.status = {"Ready"}
      /\ y.told = (IF stalled' THEN 0 ELSE since_told')
      /\ y.alive = (IF stalled' THEN 0 ELSE since_alive')
  BY DEF Standing, Context
<1>4. connection' = s.c /\ connection' # Closed /\ last_poll' = s.last_poll
      /\ wire' = s.wire /\ alive' = s.alive
      /\ device' = (IF s.told = NoState THEN device ELSE s.told)
  BY <1>1, LinkIsLink DEF Leave
<1>5. /\ stalled' = stalled
      /\ since_told' = IF Wrote(s.wire) THEN 0 ELSE since_told
      /\ since_alive' = IF s.alive THEN 0 ELSE since_alive
      /\ stalled \in BOOLEAN /\ since_told \in Nat /\ since_alive \in Nat
  BY <1>4 DEF Clocks, WroteState, Wrote, HostTyped
<1>6. n.c = s.c /\ n.last_poll = s.last_poll /\ n.told = NoState /\ n.wire = << >>
  BY DEF Session
<1>7. n \in Live(asked', 0 .. ServiceTicks)
  BY <1>1, SessionLives
<1> HIDE DEF x, y, n
<1>8. Good(s, x)
  BY DEF x
<1>9. Steady(n.c) /\ Current(n.c, y) /\ n.c.status \in y.status
  BY <1>2, <1>3, <1>6, <1>8 DEF Good, Steady, Current
<1>10. Delivered(n, y)
  BY <1>2, <1>3, <1>4, <1>6, <1>8 DEF Good, Delivered
<1>11. Active(asked') => s.c.since_state \in 0 .. RefreshTicks
  BY <1>1, <1>2, <1>8, StateAssumption, Limits DEF Good, Delivered, Steady, Active, Links
<1>12. Refreshed(n, y)
  <2>1. SUFFICES ASSUME Active(asked'), s.c.since_state < RefreshTicks
                 PROVE  y.told <= s.c.since_state
    BY <1>3, <1>6 DEF Refreshed
  <2>2. CASE stalled \/ Wrote(s.wire)
    BY <1>3, <1>5, <1>11, <2>1, <2>2
  <2>3. CASE ~stalled /\ ~Wrote(s.wire)
    BY <1>2, <1>3, <1>5, <1>8, <2>1, <2>3 DEF Good, Refreshed
  <2> QED
    BY <2>2, <2>3
<1>13. Answering(n, y)
  <2>1. CASE stalled \/ s.alive
    <3>1. y.alive = 0
      BY <1>3, <1>5, <2>1
    <3>2. s.c.since_ping \in 0 .. PingTicks /\ s.c.pending_ping \in Pings
      BY <1>1 DEF Links
    <3> QED
      BY <1>6, <3>1, <3>2, Limits DEF Answering, Unanswered, Pings
  <2>2. CASE ~stalled /\ ~s.alive
    <3>1. y.alive = x.alive /\ s.c.status = "Ready"
      BY <1>2, <1>3, <1>5, <1>8, <2>2 DEF Good
    <3> QED
      BY <1>6, <1>8, <2>2, <3>1 DEF Good, Answering
  <2> QED
    BY <2>1, <2>2
<1>14. Good(n, y)
  BY <1>9, <1>10, <1>12, <1>13 DEF Good, n, y
<1>15. ~stalled' => Timely(connection, last_poll)'
  BY <1>1, <1>4, <1>5, Limits DEF Timely
<1>16. LinkGood'
  BY <1>4, <1>7, <1>14, <1>15 DEF LinkGood, n, y
<1> QED
  BY <1>1, <1>4, <1>5, <1>16 DEF NewestOnly

\* The connection that a call has lost.
LEMMA LeftClosed ==
  ASSUME HostTyped, NEW s \in Lost(asked'), Leave(s), Clocks
  PROVE  connection' = Closed /\ LinkGood' /\ NewestOnly /\ last_poll' \in -1 .. ServiceTicks
         /\ stalled' = FALSE /\ since_told' \in Nat /\ since_alive' \in Nat /\ device' \in States
<1>1. s.c = Closed /\ s.wire \in Wires(asked') /\ s.last_poll \in -1 .. ServiceTicks /\ s.told \in Slots
  BY LostFields
<1>2. connection' = Closed /\ wire' = s.wire /\ last_poll' = s.last_poll
  BY <1>1 DEF Leave
<1>3. device' \in States
  BY <1>1 DEF Leave, HostTyped, Slots
<1> QED
  BY <1>1, <1>2, <1>3 DEF Clocks, LinkGood, NewestOnly

\* What is read while no new answer is awaited stays known.
LEMMA KeptIsKnown ==
  ASSUME HostTyped, NEW a \in Slots, NEW s \in Live(a, 0 .. ServiceTicks), Known(s, Context(a)),
         heard' = (heard \cup s.heard) \cap Awaited, Awaited' \subseteq Awaited, NEW p
  PROVE  Known(Session(s.c, p), Standing')
<1>1. s.c \in Links(a)
  BY LiveFields
<1>2. Standing'.answers = heard' \cup (Answers \ Awaited')
  BY DEF Standing, Context
<1>3. Context(a).answers = heard \cup (Answers \ Awaited)
  BY ContextIs
<1>4. ASSUME NEW w \in Answers, w \in Context(a).answers \cup s.heard
      PROVE  w \in Standing'.answers
  BY <1>2, <1>3, <1>4
<1>5. Session(s.c, p).c = s.c /\ Session(s.c, p).heard = {}
  BY DEF Session
<1>6. ASSUME s.c.uf2_bootloader_ready # None
      PROVE  [type |-> "Uf2BootloaderReady", id |-> s.c.uf2_bootloader_ready] \in Standing'.answers
  <2>1. s.c.uf2_bootloader_ready \in RequestIds
    BY <1>1, <1>6 DEF Links
  <2>2. [type |-> "Uf2BootloaderReady", id |-> s.c.uf2_bootloader_ready] \in Answers
    BY <2>1 DEF Answers
  <2> QED
    BY <1>4, <1>6, <2>2 DEF Known
<1>7. ASSUME s.c.install_receipt_recorded # None
      PROVE  [type |-> "InstallReceiptRecorded", id |-> s.c.install_receipt_recorded.id,
              receipt |-> s.c.install_receipt_recorded.receipt] \in Standing'.answers
  <2>1. s.c.install_receipt_recorded \in [id : RequestIds, receipt : Receipts]
    BY <1>1, <1>7 DEF Links
  <2>2. [type |-> "InstallReceiptRecorded", id |-> s.c.install_receipt_recorded.id,
         receipt |-> s.c.install_receipt_recorded.receipt] \in Answers
    BY <2>1 DEF Answers
  <2> QED
    BY <1>4, <1>7, <2>2 DEF Known
<1> QED
  BY <1>5, <1>6, <1>7 DEF Known

\* What a call that polls leaves behind.
LEMMA DoneLeft ==
  ASSUME HostTyped, asked' \in Slots, NEW t \in Done(Context(asked')), Keep(t), Clocks,
         Awaited' \subseteq Awaited
  PROVE  /\ LinkGood' /\ NewestOnly /\ last_poll' \in -1 .. ServiceTicks
         /\ stalled' \in BOOLEAN /\ since_told' \in Nat /\ since_alive' \in Nat
         /\ device' \in States /\ heard' \in SUBSET Answers
<1> DEFINE x == Context(asked')
<1>x. /\ AtWork(x) /\ x \in Contexts /\ x.asked = asked' /\ x.polls = 0 .. ServiceTicks
      /\ x.told = IF stalled THEN 0 ELSE since_told
      /\ x.alive = IF stalled THEN 0 ELSE since_alive
  BY ContextIs
<1>l. Leave(t) /\ heard' = (heard \cup t.heard) \cap Awaited  BY DEF Keep
<1>h. HostTyped /\ stalled \in BOOLEAN /\ device \in States /\ heard \in SUBSET Answers
  BY DEF HostTyped
<1>1. CASE t.failed /\ t \in Lost(asked')
  <2>1. /\ LinkGood' /\ NewestOnly /\ last_poll' \in -1 .. ServiceTicks
        /\ stalled' = FALSE /\ since_told' \in Nat /\ since_alive' \in Nat /\ device' \in States
    BY <1>1, <1>l, LeftClosed
  <2>2. t.heard \in SUBSET Answers  BY <1>1, LostFields
  <2> QED  BY <1>l, <1>h, <2>1, <2>2
<1>2. CASE t \in Kept(x) /\ ~t.failed /\ t.c.status = "Ready" /\ Served(t.c)
  <2>1. t \in Live(asked', 0 .. ServiceTicks) /\ Good(t, x)
    BY <1>2, <1>x DEF Kept
  <2>2. /\ t.heard \in SUBSET Answers /\ t.told \in Slots /\ t.last_poll \in 0 .. ServiceTicks
        /\ t.c \in Links(asked')
    BY <2>1, LiveFields
  <2>3. device' \in States  BY <1>l, <1>h, <2>2 DEF Leave, Slots
  <2>4. t.c.queued = << >>  BY <1>2 DEF Served
  <2>5. Known(t, x)  BY <2>1 DEF Good
  <2>6. Known(Session(t.c, t.last_poll), Standing')
    BY <1>h, <1>l, <2>1, <2>5, KeptIsKnown
  <2>7. /\ Active(asked') => Wrote(t.wire) \/ x.told <= RefreshTicks
        /\ \/ t.alive
           \/ IF t.c.pending_ping = None THEN x.alive <= PingTicks
              ELSE x.alive <= PingTicks + ServiceTicks + PongTicks
    BY <1>2, <1>x, ServedIsTimely
  <2>8. since_told \in Nat /\ since_alive \in Nat  BY <1>h DEF HostTyped
  <2>9. t.last_poll \in Nat  BY <2>2, Limits
  <2>10. ~stalled => (Active(asked') => Wrote(t.wire) \/ since_told <= RefreshTicks + t.last_poll)
    <3> HIDE DEF x
    <3> QED  BY <1>x, <2>7, <2>8, <2>9, Limits
  <2>11. ~stalled => \/ t.alive
                    \/ IF t.c.pending_ping = None THEN since_alive <= PingTicks + t.last_poll
                       ELSE since_alive <= PingTicks + ServiceTicks + PongTicks + t.last_poll
    <3> HIDE DEF x
    <3> QED  BY <1>x, <2>7, <2>8, <2>9, Limits
  <2>12. /\ connection' # Closed /\ LinkGood' /\ NewestOnly /\ last_poll' \in -1 .. ServiceTicks
         /\ stalled' = stalled /\ since_told' \in Nat /\ since_alive' \in Nat
    BY <1>h, <1>l, <2>1, <2>3, <2>4, <2>6, <2>10, <2>11, LeftOpen
  <2> QED  BY <1>l, <1>h, <2>2, <2>3, <2>12
<1> QED  BY <1>1, <1>2, <1>x DEF Done

-----------------------------------------------------------------------------
(* Each call.                                                              *)

\* A state that is queued replaces what the session stood for.
LEMMA QueuedIs ==
  ASSUME HostInv, connection # Closed, NEW a \in States
  PROVE  /\ Session(queue_state(connection, a), last_poll) \in Kept(Context(a))
         /\ ~Session(queue_state(connection, a), last_poll).failed
<1> DEFINE c == connection
           d == queue_state(c, a)
           x == Context(a)
<1>t. HostTyped /\ a \in Slots /\ asked \in Slots  BY DEF HostInv, HostTyped, Slots
<1>x. /\ x \in Contexts /\ x.asked = a /\ x.polls = 0 .. ServiceTicks /\ x.status = {"Ready"}
      /\ x.answers = heard \cup (Answers \ Awaited)
      /\ x.alive = IF stalled THEN 0 ELSE since_alive
  BY <1>t, ContextIs
<1>y. /\ Standing.answers = heard \cup (Answers \ Awaited)
      /\ Standing.alive = IF stalled THEN 0 ELSE since_alive
  BY <1>t, ContextIs DEF Standing
<1>1. /\ c \in Links(asked) /\ last_poll \in 0 .. ServiceTicks
      /\ c.status = "Ready" /\ c.queued = << >>
  BY LinkIs
<1>2. Good(Session(c, last_poll), Standing)  BY DEF HostInv, LinkGood
<1>3. << >> \in Seq(States \cap {a})  OBVIOUS
<1>4. Append(<< >>, a) \in Seq(States \cap {a}) /\ Append(<< >>, a) # << >>  BY <1>3
<1>5. d = [c EXCEPT !.queued = Append(<< >>, a)]
  BY <1>1, Limits DEF queue_state
<1>6. /\ d \in Links(a) /\ d.queued # << >> /\ d.last_state = c.last_state
      /\ d.since_state = c.since_state /\ d.status = "Ready"
      /\ d.pending_ping = c.pending_ping /\ d.since_ping = c.since_ping
      /\ d.uf2_bootloader_ready = c.uf2_bootloader_ready
      /\ d.install_receipt_recorded = c.install_receipt_recorded
  BY <1>1, <1>4, <1>5 DEF Links
<1> DEFINE s == Session(c, last_poll)
           t == Session(d, last_poll)
<1>7. t \in Live(a, 0 .. ServiceTicks)  BY <1>1, <1>6, SessionLives
<1>8. /\ t.c = d /\ t.heard = {} /\ ~t.alive /\ ~t.failed
      /\ s.c = c /\ s.heard = {} /\ ~s.alive
  BY DEF Session
<1> HIDE DEF s, t, d, x
<1>9. Good(t, x)
  <2>1. Steady(s.c) /\ Known(s, Standing) /\ Answering(s, Standing)  BY <1>2 DEF Good, s, c
  <2>2. Steady(t.c)  BY <2>1, <1>6, <1>8 DEF Steady
  <2>3. Known(t, x)  BY <2>1, <1>6, <1>8, <1>x, <1>y DEF Known
  <2>4. Answering(t, x)  BY <2>1, <1>1, <1>6, <1>8, <1>x, <1>y DEF Answering, Unanswered, c
  <2> QED  BY <2>2, <2>3, <2>4, <1>6, <1>8, <1>x DEF Good, Current, Delivered, Refreshed
<1> QED  BY <1>7, <1>8, <1>9, <1>x DEF Kept, t, d, x

\* What HostInv says of a step, put together.
LEMMA SendStateStep ==
  ASSUME HostInv, NEW state \in States, SendState(state), Clocks
  PROVE  HostInv' /\ NewestOnly /\ AnswerStep
<1> DEFINE x == Context(asked')
           c == IF connection = Closed THEN Closed ELSE queue_state(connection, state)
<1>1. /\ asked' = state /\ desired_state' = state /\ outcome' = None
      /\ bootloader_transition' = bootloader_transition /\ call' = call /\ observed' = observed
      /\ dropped' = dropped /\ ~dropped /\ call = Idle
  BY DEF SendState, Usable, requests
<1>t. HostTyped /\ state \in Slots /\ asked' \in Slots  BY <1>1 DEF HostInv, HostTyped, Slots
<1>x. AtWork(x) /\ x.asked = asked' /\ x.polls = 0 .. ServiceTicks  BY <1>t, ContextIs
<1>2. PICK t \in TwoAttempts(Attempts(Session(c, last_poll), state), state) : Keep(t)
  BY DEF SendState
<1>3. \/ Session(c, last_poll) \in Lost(x.asked)
      \/ Session(c, last_poll) \in Kept(x) /\ ~Session(c, last_poll).failed
  <2>1. CASE connection = Closed
    <3>1. last_poll \in -1 .. ServiceTicks  BY <1>t DEF HostTyped
    <3> QED  BY <2>1, <3>1, SessionLost
  <2>2. CASE connection # Closed  BY <2>2, <1>1, QueuedIs
  <2> QED  BY <2>1, <2>2
<1>4. Wants(x, state)  BY <1>t, <1>x, <1>1 DEF Wants
<1> HIDE DEF x, c
<1>5. t \in Done(x)  BY <1>x, <1>2, <1>3, <1>4, TwoAttemptsEnd
<1>6. Awaited' = Awaited  BY <1>1 DEF Awaited
<1>7. /\ LinkGood' /\ NewestOnly /\ last_poll' \in -1 .. ServiceTicks
      /\ stalled' \in BOOLEAN /\ since_told' \in Nat /\ since_alive' \in Nat
      /\ device' \in States /\ heard' \in SUBSET Answers
  BY <1>t, <1>2, <1>5, <1>6, DoneLeft DEF x
<1>8. HostTyped' /\ Desired' /\ Between'
  BY <1>1, <1>t, <1>7 DEF HostInv, HostTyped, Desired, Between
<1> QED  BY <1>1, <1>7, <1>8 DEF HostInv, AnswerStep

LEMMA ServiceStep ==
  ASSUME HostInv, Service, Clocks
  PROVE  HostInv' /\ NewestOnly /\ AnswerStep
<1> DEFINE x == Context(asked')
<1>1. /\ asked' = asked /\ desired_state' = desired_state /\ outcome' = None
      /\ call' = call /\ observed' = observed
      /\ dropped' = dropped /\ ~dropped /\ call = Idle
  BY DEF Service, Usable, requests
<1>t. HostTyped /\ asked' \in Slots /\ Desired  BY <1>1 DEF HostInv, HostTyped
<1>x. AtWork(x) /\ x.asked = asked' /\ x.polls = 0 .. ServiceTicks  BY <1>t, ContextIs
<1>2. PICK t \in TwoAttempts(Attempts(Session(connection, last_poll), desired_state), desired_state) : Keep(t)
  BY DEF Service
<1>3. \/ Session(connection, last_poll) \in Lost(x.asked)
      \/ Session(connection, last_poll) \in Kept(x) /\ ~Session(connection, last_poll).failed
  <2>1. CASE connection = Closed
    <3>1. last_poll \in -1 .. ServiceTicks  BY <1>t DEF HostTyped
    <3> QED  BY <2>1, <3>1, SessionLost
  <2>2. CASE connection # Closed  BY <2>2, <1>1, LinkIs, SessionIs DEF Standing
  <2> QED  BY <2>1, <2>2
<1>4. Wants(x, desired_state)
  BY <1>t, <1>x, <1>1 DEF Wants, Desired, HostTyped
<1> HIDE DEF x
<1>5. t \in Done(x)  BY <1>x, <1>2, <1>3, <1>4, TwoAttemptsEnd
<1>6. Awaited' = Awaited  BY <1>1 DEF Awaited
<1>7. /\ LinkGood' /\ NewestOnly /\ last_poll' \in -1 .. ServiceTicks
      /\ stalled' \in BOOLEAN /\ since_told' \in Nat /\ since_alive' \in Nat
      /\ device' \in States /\ heard' \in SUBSET Answers
  BY <1>t, <1>2, <1>5, <1>6, DoneLeft DEF x
<1>8. HostTyped' /\ Desired' /\ Between'
  BY <1>1, <1>t, <1>7 DEF HostInv, HostTyped, Desired, Between
<1> QED  BY <1>1, <1>7, <1>8 DEF HostInv, AnswerStep

\* What a session that no longer waits for an answer stands for.
LEMMA Cleared ==
  ASSUME NEW x \in Contexts, NEW s \in Live(x.asked, x.polls), Good(s, x),
         NEW c \in Links(x.asked), c.queued = s.c.queued, c.last_state = s.c.last_state,
         c.since_state = s.c.since_state, c.status = s.c.status,
         c.pending_ping = s.c.pending_ping, c.since_ping = s.c.since_ping,
         c.uf2_bootloader_ready \in {s.c.uf2_bootloader_ready, None},
         c.install_receipt_recorded \in {s.c.install_receipt_recorded, None},
         NEW t, t = [s EXCEPT !.c = c]
  PROVE  /\ t \in Live(x.asked, x.polls) /\ Good(t, x)
         /\ t.c = c /\ t.last_poll = s.last_poll /\ t.wire = s.wire /\ t.told = s.told
         /\ t.heard = s.heard /\ t.alive = s.alive /\ t.failed = s.failed
<1>1. t \in Live(x.asked, x.polls)  BY Moved
<1>2. /\ t.c = c /\ t.last_poll = s.last_poll /\ t.wire = s.wire /\ t.told = s.told
      /\ t.heard = s.heard /\ t.alive = s.alive /\ t.failed = s.failed
  BY LiveFields
<1>3. Steady(t.c) /\ Current(t.c, x) /\ t.c.status \in x.status
  BY <1>2 DEF Good, Steady, Current
<1>4. Delivered(t, x)  BY <1>2 DEF Good, Delivered
<1>5. Known(t, x)  BY <1>2 DEF Good, Known
<1>6. Refreshed(t, x)  BY <1>2 DEF Good, Refreshed
<1>7. Answering(t, x)  BY <1>2 DEF Good, Answering, Unanswered
<1>8. Good(t, x)  BY <1>3, <1>4, <1>5, <1>6, <1>7 DEF Good
<1> QED  BY <1>1, <1>2, <1>8

\* What a call leaves behind that only clears a slot of the connection.
LEMMA StillLeft ==
  ASSUME HostInv, connection # Closed,
         connection' \in Links(asked), connection'.queued = connection.queued,
         connection'.last_state = connection.last_state,
         connection'.since_state = connection.since_state, connection'.status = connection.status,
         connection'.pending_ping = connection.pending_ping,
         connection'.since_ping = connection.since_ping,
         connection'.uf2_bootloader_ready \in {connection.uf2_bootloader_ready, None},
         connection'.install_receipt_recorded \in {connection.install_receipt_recorded, None},
         last_poll' = last_poll, wire' = << >>, alive' = FALSE, device' = device, asked' = asked,
         heard' = heard, Awaited' \subseteq Awaited, Clocks
  PROVE  /\ connection' # Closed /\ LinkGood' /\ NewestOnly /\ last_poll' \in -1 .. ServiceTicks
         /\ stalled' = stalled /\ since_told' \in Nat /\ since_alive' \in Nat
<1> DEFINE c == connection'
           s == Session(connection, last_poll)
           t == [s EXCEPT !.c = c]
           x == Context(asked')
<1>t. HostTyped /\ asked \in Slots /\ device \in States /\ since_told \in Nat /\ since_alive \in Nat
  BY DEF HostInv, HostTyped
<1>x. /\ x \in Contexts /\ x.asked = asked /\ x.polls = 0 .. ServiceTicks
      /\ x.answers = heard \cup (Answers \ Awaited)
  BY <1>t, ContextIs
<1>1. s \in Live(asked, 0 .. ServiceTicks) /\ Good(s, x) /\ connection.queued = << >>
      /\ (~stalled => Timely(connection, last_poll))
  BY DEF HostInv, LinkGood, Standing
<1>2. /\ s.c = connection /\ s.last_poll = last_poll /\ s.wire = << >> /\ s.told = NoState
      /\ s.heard = {} /\ ~s.alive /\ s.alive = FALSE
  BY SessionIs DEF Session
<1> HIDE DEF s, x
<1>3. /\ t \in Live(asked, 0 .. ServiceTicks) /\ Good(t, x)
      /\ t.c = c /\ t.last_poll = last_poll /\ t.wire = << >> /\ t.told = NoState
      /\ t.heard = {} /\ t.alive = FALSE
  <2>1. /\ c.uf2_bootloader_ready \in {s.c.uf2_bootloader_ready, None}
        /\ c.install_receipt_recorded \in {s.c.install_receipt_recorded, None}
        /\ c.queued = s.c.queued /\ c.last_state = s.c.last_state
        /\ c.since_state = s.c.since_state /\ c.status = s.c.status
        /\ c.pending_ping = s.c.pending_ping /\ c.since_ping = s.c.since_ping
    BY <1>2
  <2>2. s \in Live(x.asked, x.polls) /\ c \in Links(x.asked)  BY <1>1, <1>x
  <2> HIDE DEF c
  <2> QED  BY <1>1, <1>2, <1>x, <2>1, <2>2, Cleared
<1> HIDE DEF t
<1>4. Leave(t)  BY <1>3 DEF Leave
<1>5. Known(Session(t.c, t.last_poll), Standing')
  <2>1. Known(t, x)  BY <1>3 DEF Good
  <2>2. Standing'.answers = heard' \cup (Answers \ Awaited')  BY DEF Standing, Context
  <2>3. x.answers \subseteq Standing'.answers  BY <1>x, <2>2
  <2>4. Session(t.c, t.last_poll).c = t.c  BY DEF Session
  <2> QED  BY <1>3, <2>1, <2>3, <2>4 DEF Known
<1>6. ~stalled => /\ Active(asked') => since_told <= RefreshTicks + t.last_poll
                  /\ IF t.c.pending_ping = None THEN since_alive <= PingTicks + t.last_poll
                     ELSE since_alive <= PingTicks + ServiceTicks + PongTicks + t.last_poll
  BY <1>1, <1>3 DEF Timely
<1>7. t.c.queued = << >>  BY <1>1, <1>3
<1> QED  BY <1>t, <1>3, <1>4, <1>5, <1>6, <1>7, LeftOpen DEF x

LEMMA TakeFeedbackStep ==
  ASSUME HostInv, TakeFeedback, Clocks
  PROVE  HostInv' /\ NewestOnly /\ AnswerStep
<1>1. /\ connection # Closed /\ connection' = [connection EXCEPT !.pending_feedback = None]
      /\ desired_state' = desired_state /\ last_poll' = last_poll
      /\ call' = call /\ observed' = observed /\ dropped' = dropped
      /\ asked' = asked /\ device' = device /\ heard' = heard
      /\ outcome' = None /\ wire' = << >> /\ alive' = FALSE /\ ~dropped /\ call = Idle
  BY DEF TakeFeedback, Quiet, Usable, requests, ghosts
<1>2. connection \in Links(asked)  BY <1>1, LinkIs
<1>3. /\ connection' \in Links(asked) /\ connection'.queued = connection.queued
      /\ connection'.last_state = connection.last_state
      /\ connection'.since_state = connection.since_state /\ connection'.status = connection.status
      /\ connection'.pending_ping = connection.pending_ping
      /\ connection'.since_ping = connection.since_ping
      /\ connection'.uf2_bootloader_ready = connection.uf2_bootloader_ready
      /\ connection'.install_receipt_recorded = connection.install_receipt_recorded
  BY <1>1, <1>2 DEF Links
<1>4. Awaited' = Awaited  BY <1>1 DEF Awaited
<1>5. /\ connection' # Closed /\ LinkGood' /\ NewestOnly /\ last_poll' \in -1 .. ServiceTicks
      /\ stalled' = stalled /\ since_told' \in Nat /\ since_alive' \in Nat
  BY <1>1, <1>3, <1>4, StillLeft
<1>6. HostTyped' /\ Desired' /\ Between'
  BY <1>1, <1>5 DEF HostInv, HostTyped, Desired, Between
<1> QED  BY <1>1, <1>5, <1>6 DEF HostInv, AnswerStep

LEMMA WaitForFirmwareInfoStep ==
  ASSUME HostInv, WaitForFirmwareInfo, Clocks
  PROVE  HostInv' /\ NewestOnly /\ AnswerStep
<1>1. /\ connection # Closed /\ connection' = connection
      /\ desired_state' = desired_state /\ last_poll' = last_poll
      /\ call' = [kind |-> "Info"] /\ observed' = observed /\ dropped' = dropped
      /\ asked' = asked /\ device' = device /\ heard' = heard
      /\ outcome' = None /\ wire' = << >> /\ alive' = FALSE /\ ~dropped /\ call = Idle
  BY DEF WaitForFirmwareInfo, Quiet, Usable, output, ghosts
<1>2. connection \in Links(asked)  BY <1>1, LinkIs
<1>4. Awaited' = Awaited  BY <1>1 DEF Awaited
<1>5. /\ connection' # Closed /\ LinkGood' /\ NewestOnly /\ last_poll' \in -1 .. ServiceTicks
      /\ stalled' = stalled /\ since_told' \in Nat /\ since_alive' \in Nat
  BY <1>1, <1>2, <1>4, StillLeft
<1>6. call' \in Calls  BY <1>1 DEF Calls
<1>7. HostTyped' /\ Desired' /\ Between'
  BY <1>1, <1>5, <1>6 DEF HostInv, HostTyped, Desired, Between
<1> QED  BY <1>1, <1>5, <1>7 DEF HostInv, AnswerStep

\* What a waiting call takes from the connection.
LEMMA TakenReceipt ==
  ASSUME NEW a, NEW c \in Links(a), NEW id, NEW r, NEW taken, taken = TakeReceiptResponse(c, id, r)
  PROVE  /\ taken.c \in Links(a) /\ taken.c.queued = c.queued
         /\ taken.c.last_state = c.last_state
         /\ taken.c.since_state = c.since_state /\ taken.c.status = c.status
         /\ taken.c.pending_ping = c.pending_ping /\ taken.c.since_ping = c.since_ping
         /\ taken.c.uf2_bootloader_ready = c.uf2_bootloader_ready
         /\ taken.c.install_receipt_recorded \in {c.install_receipt_recorded, None}
         /\ taken.verdict = "Ok" =>
              /\ c.install_receipt_recorded # None
              /\ c.install_receipt_recorded.id = id /\ c.install_receipt_recorded.receipt = r
<1>1. taken.c \in {c, [c EXCEPT !.install_receipt_recorded = None], [c EXCEPT !.control_error = None]}
  BY DEF TakeReceiptResponse, NoneYet
<1>2. /\ [c EXCEPT !.install_receipt_recorded = None] \in Links(a)
      /\ [c EXCEPT !.control_error = None] \in Links(a)
  BY DEF Links
<1>3. ASSUME NEW d \in {c, [c EXCEPT !.install_receipt_recorded = None], [c EXCEPT !.control_error = None]}
      PROVE  /\ d \in Links(a) /\ d.queued = c.queued /\ d.last_state = c.last_state
             /\ d.since_state = c.since_state /\ d.status = c.status
             /\ d.pending_ping = c.pending_ping /\ d.since_ping = c.since_ping
             /\ d.uf2_bootloader_ready = c.uf2_bootloader_ready
             /\ d.install_receipt_recorded \in {c.install_receipt_recorded, None}
  <2>1. CASE d = c  BY <2>1
  <2>2. CASE d = [c EXCEPT !.install_receipt_recorded = None]
    BY <1>2, <2>2 DEF Links
  <2>3. CASE d = [c EXCEPT !.control_error = None]
    <3>1. c.install_receipt_recorded = d.install_receipt_recorded  BY <2>3 DEF Links
    <3> QED  BY <1>2, <2>3, <3>1 DEF Links
  <2> QED  BY <2>1, <2>2, <2>3
<1>4. ASSUME taken.verdict = "Ok"
      PROVE  /\ c.install_receipt_recorded # None
             /\ c.install_receipt_recorded.id = id /\ c.install_receipt_recorded.receipt = r
  <2>1. CASE c.install_receipt_recorded # None
    <3>1. taken.verdict = CASE c.install_receipt_recorded.id # id -> "RequestMismatch"
                            [] c.install_receipt_recorded = [id |-> id, receipt |-> r] -> "Ok"
                            [] OTHER -> "ReceiptMismatch"
      BY <2>1 DEF TakeReceiptResponse
    <3>2. c.install_receipt_recorded = [id |-> id, receipt |-> r]  BY <1>4, <3>1
    <3> QED  BY <2>1, <3>2
  <2>2. CASE c.install_receipt_recorded = None
    <3>1. taken.verdict \in {"Rejected", "RequestMismatch", "Waiting"}
      BY <2>2 DEF TakeReceiptResponse, Rejected, NoneYet
    <3> QED  BY <1>4, <3>1
  <2> QED  BY <2>1, <2>2
<1> QED  BY <1>1, <1>3, <1>4

LEMMA TakenUf2 ==
  ASSUME NEW a, NEW c \in Links(a), NEW id, NEW taken, taken = TakeUf2Response(c, id)
  PROVE  /\ taken.c \in Links(a) /\ taken.c.queued = c.queued
         /\ taken.c.last_state = c.last_state
         /\ taken.c.since_state = c.since_state /\ taken.c.status = c.status
         /\ taken.c.pending_ping = c.pending_ping /\ taken.c.since_ping = c.since_ping
         /\ taken.c.uf2_bootloader_ready \in {c.uf2_bootloader_ready, None}
         /\ taken.c.install_receipt_recorded = c.install_receipt_recorded
         /\ taken.verdict = "Ok" =>
              c.uf2_bootloader_ready # None /\ c.uf2_bootloader_ready = id
<1>1. taken.c \in {c, [c EXCEPT !.uf2_bootloader_ready = None], [c EXCEPT !.control_error = None]}
  BY DEF TakeUf2Response, NoneYet
<1>2. ASSUME NEW d \in {c, [c EXCEPT !.uf2_bootloader_ready = None], [c EXCEPT !.control_error = None]}
      PROVE  /\ d \in Links(a) /\ d.queued = c.queued /\ d.last_state = c.last_state
             /\ d.since_state = c.since_state /\ d.status = c.status
             /\ d.pending_ping = c.pending_ping /\ d.since_ping = c.since_ping
             /\ d.uf2_bootloader_ready \in {c.uf2_bootloader_ready, None}
             /\ d.install_receipt_recorded = c.install_receipt_recorded
  BY DEF Links
<1>3. taken.verdict = "Ok" => c.uf2_bootloader_ready # None /\ c.uf2_bootloader_ready = id
  <2>1. CASE c.uf2_bootloader_ready # None
    BY <2>1 DEF TakeUf2Response
  <2>2. CASE c.uf2_bootloader_ready = None
    <3>1. taken.verdict \in {"Rejected", "RequestMismatch", "Waiting"}
      BY <2>2 DEF TakeUf2Response, Rejected, NoneYet
    <3> QED  BY <3>1
  <2> QED  BY <2>1, <2>2
<1> QED  BY <1>1, <1>2, <1>3

LEMMA PollReceiptStep ==
  ASSUME HostInv, PollFirmwareInstallReceipt, Clocks
  PROVE  HostInv' /\ NewestOnly /\ AnswerStep
<1> DEFINE taken == TakeReceiptResponse(connection, observed.id, observed.receipt)
<1>1. /\ connection # Closed /\ connection' = taken.c /\ observed # None
      /\ desired_state' = desired_state /\ last_poll' = last_poll
      /\ call' = call /\ observed' = None /\ dropped' = dropped
      /\ asked' = asked /\ device' = device /\ heard' = heard
      /\ outcome' = [request |-> observed, verdict |-> taken.verdict]
      /\ wire' = << >> /\ alive' = FALSE /\ ~dropped /\ call = Idle
  BY DEF PollFirmwareInstallReceipt, Usable, ghosts
<1>0. taken = TakeReceiptResponse(connection, observed.id, observed.receipt)  OBVIOUS
<1> HIDE DEF taken
<1>2. connection \in Links(asked)  BY <1>1, LinkIs
<1>3. /\ taken.c \in Links(asked) /\ taken.c.queued = connection.queued
      /\ taken.c.last_state = connection.last_state
      /\ taken.c.since_state = connection.since_state /\ taken.c.status = connection.status
      /\ taken.c.pending_ping = connection.pending_ping
      /\ taken.c.since_ping = connection.since_ping
      /\ taken.c.uf2_bootloader_ready = connection.uf2_bootloader_ready
      /\ taken.c.install_receipt_recorded \in {connection.install_receipt_recorded, None}
  BY <1>0, <1>2, TakenReceipt
<1>4. Awaited' \subseteq Awaited  BY <1>1 DEF Awaited
<1>5. /\ connection' # Closed /\ LinkGood' /\ NewestOnly /\ last_poll' \in -1 .. ServiceTicks
      /\ stalled' = stalled /\ since_told' \in Nat /\ since_alive' \in Nat
  <2> HIDE DEF taken
  <2> QED  BY <1>1, <1>3, <1>4, StillLeft
<1>6. HostTyped' /\ Desired' /\ Between'
  BY <1>1, <1>5 DEF HostInv, HostTyped, Desired, Between, Observations
<1>7. ASSUME taken.verdict = "Ok"
      PROVE  Expected(observed) \in heard
  <2>1. observed \in [kind : {"Observed"}, id : RequestIds, receipt : Receipts]
    BY <1>1 DEF HostInv, HostTyped, Observations
  <2>2. /\ connection.install_receipt_recorded # None
        /\ connection.install_receipt_recorded.id = observed.id
        /\ connection.install_receipt_recorded.receipt = observed.receipt
    BY <1>0, <1>7, <1>2, TakenReceipt
  <2>3. Expected(observed) =
          [type |-> "InstallReceiptRecorded", id |-> observed.id, receipt |-> observed.receipt]
    BY <2>1 DEF Expected
  <2>4. Known(Session(connection, last_poll), Standing)
    BY <1>1 DEF HostInv, LinkGood, Good
  <2>5. Session(connection, last_poll).c = connection /\ Session(connection, last_poll).heard = {}
    BY SessionIs
  <2>6. Standing.answers = heard \cup (Answers \ Awaited)  BY DEF Standing, Context
  <2>7. Expected(observed) \in Standing.answers
    BY <2>2, <2>3, <2>4, <2>5 DEF Known
  <2>8. Expected(observed) \in Awaited  BY <1>1 DEF Awaited
  <2> QED  BY <2>6, <2>7, <2>8
<1>8. AnswerStep
  <2> HIDE DEF taken
  <2> QED  BY <1>1, <1>7 DEF AnswerStep
<1> QED  BY <1>5, <1>6, <1>8 DEF HostInv

LEMMA SendNeutralStep ==
  ASSUME HostInv, SendNeutral, Clocks
  PROVE  HostInv' /\ NewestOnly /\ AnswerStep
<1> DEFINE x == Context(asked')
           s == Session(connection, last_poll)
<1>1. /\ asked' = Neutral /\ outcome' = None /\ call' = call /\ observed' = observed
      /\ dropped' = dropped /\ ~dropped /\ call = Idle
  BY DEF SendNeutral, Usable, requests
<1>t. HostTyped /\ asked' \in Slots /\ asked \in Slots /\ last_poll \in -1 .. ServiceTicks
      /\ heard \in SUBSET Answers /\ device \in States /\ since_told \in Nat /\ since_alive \in Nat
      /\ stalled \in BOOLEAN
  BY <1>1, StateAssumption DEF HostInv, HostTyped, Slots
<1>x. /\ AtWork(x) /\ x \in Contexts /\ x.asked = Neutral /\ x.polls = 0 .. ServiceTicks
      /\ AtWork(Standing) /\ Standing.answers = x.answers /\ Standing.alive = x.alive
  BY <1>1, <1>t, ContextIs DEF Standing
<1>2. PICK t \in IF connection = Closed THEN {Fail(Session(Closed, last_poll))}
                 ELSE {send_neutral_now(u) : u \in Ports(s)} :
        Keep(t) /\ desired_state' = IF t.failed THEN Neutral ELSE NoState
  BY DEF SendNeutral
<1>3. Awaited' = Awaited  BY <1>1 DEF Awaited
<1>4. Leave(t) /\ heard' = (heard \cup t.heard) \cap Awaited  BY <1>2 DEF Keep
<1>5. desired_state' \in {Neutral, NoState}  BY <1>2
<1>6. /\ LinkGood' /\ NewestOnly /\ last_poll' \in -1 .. ServiceTicks
      /\ stalled' \in BOOLEAN /\ since_told' \in Nat /\ since_alive' \in Nat
      /\ device' \in States /\ heard' \in SUBSET Answers
      /\ call # Idle => connection' # Closed
  <2>1. CASE connection = Closed
    <3>1. t \in Lost(Neutral) /\ t.failed  BY <1>t, <1>2, <2>1, SessionLost
    <3>2. t \in Done(x)  BY <1>x, <3>1 DEF Done
    <3> QED  BY <1>1, <1>t, <1>2, <1>3, <3>2, DoneLeft
  <2>2. CASE connection # Closed
    <3>1. PICK u \in Ports(s) : t = send_neutral_now(u)  BY <1>2, <2>2
    <3>2. s \in Kept(Standing) /\ ~s.failed /\ s.wire = << >> /\ s.told = NoState
          /\ s.heard = {} /\ s.alive = FALSE /\ s.last_poll = last_poll /\ s.c = connection
      BY <2>2, LinkIs, SessionIs DEF Session
    <3>3. last_poll \in 0 .. ServiceTicks  BY <2>2, LinkIs
    <3> HIDE DEF x, s
    <3>4. /\ t \in Live(x.asked, x.polls) /\ Good(t, x) /\ t.c.queued = << >>
          /\ t.last_poll = s.last_poll /\ t.heard = s.heard /\ t.alive = s.alive
          /\ t.told \in {s.told, Neutral} /\ t.c.pending_ping = s.c.pending_ping
      BY <1>x, <3>1, <3>2, NeutralSent
    <3>5. t \in Live(asked', 0 .. ServiceTicks)  BY <1>1, <1>x, <3>4
    <3>6. device' \in States  BY <1>4, <1>t, <3>2, <3>4, StateAssumption DEF Leave
    <3>7. Known(t, Context(asked'))  BY <3>4 DEF Good, x
    <3>8. Known(Session(t.c, t.last_poll), Standing')
      BY <1>t, <1>3, <1>4, <3>5, <3>7, KeptIsKnown
    <3>9. ~stalled => IF t.c.pending_ping = None THEN since_alive <= PingTicks + t.last_poll
                      ELSE since_alive <= PingTicks + ServiceTicks + PongTicks + t.last_poll
      BY <2>2, <3>2, <3>4 DEF HostInv, LinkGood, Timely
    <3>10. ~Active(asked')  BY <1>1 DEF Active
    <3>11. Good(t, Context(asked')) /\ t.c.queued = << >>  BY <3>4 DEF x
    <3>12. /\ connection' # Closed /\ LinkGood' /\ NewestOnly /\ last_poll' \in -1 .. ServiceTicks
           /\ stalled' = stalled /\ since_told' \in Nat /\ since_alive' \in Nat
      BY <1>t, <1>4, <3>5, <3>6, <3>8, <3>9, <3>10, <3>11, LeftOpen
    <3>13. heard' \in SUBSET Answers  BY <1>t, <1>4, <3>2, <3>4
    <3> QED  BY <1>t, <3>6, <3>12, <3>13
  <2> QED  BY <2>1, <2>2
<1>7. HostTyped' /\ Desired' /\ Between'
  BY <1>1, <1>t, <1>5, <1>6, StateAssumption DEF HostInv, HostTyped, Desired, Between, Slots, Active
<1> QED  BY <1>1, <1>6, <1>7 DEF HostInv, AnswerStep

LEMMA OpenStep ==
  ASSUME HostInv, Open, Clocks
  PROVE  HostInv' /\ NewestOnly /\ AnswerStep
<1> DEFINE x == Context(asked')
<1>1. /\ asked' = NoState /\ desired_state' = NoState /\ outcome' = None
      /\ call' = call /\ observed' = None /\ dropped
  BY DEF Open
<1>t. HostTyped /\ asked' \in Slots /\ call = Idle  BY <1>1 DEF HostInv, HostTyped, Between, Slots
<1>x. AtWork(x) /\ x \in Contexts /\ x.asked = NoState /\ x.polls = 0 .. ServiceTicks
  BY <1>1, <1>t, ContextIs
<1>2. PICK t \in Connected[NoState] \cup {Fail(Session(Closed, Off))} : dropped' = t.failed /\ Keep(t)
  BY DEF Open
<1>3. t \in Done(x)
  <2>1. CASE t \in Connected[NoState]
    <3>1. Wants(x, NoState)  BY <1>x DEF Wants, Slots
    <3> HIDE DEF x
    <3>2. \/ t \in Lost(x.asked) /\ t.failed
          \/ t \in Kept(x) /\ ~t.failed /\ t.c.status = "Ready" /\ Served(t.c)
      BY <1>x, <2>1, <3>1, ConnectedIs
    <3> QED  BY <3>2 DEF Done
  <2>2. CASE t = Fail(Session(Closed, Off))
    <3>1. Off \in -1 .. ServiceTicks  BY Limits DEF Off
    <3>2. t \in Lost(NoState) /\ t.failed  BY <2>2, <3>1, SessionLost
    <3> QED  BY <1>x, <3>2 DEF Done
  <2> QED  BY <2>1, <2>2, <1>2
<1>4. Awaited' \subseteq Awaited  BY <1>1, <1>t DEF Awaited
<1>5. t.failed \in BOOLEAN /\ (t.failed => connection' = Closed)
  <2>1. CASE t \in Lost(NoState) /\ t.failed
    BY <1>2, <2>1, LostFields DEF Keep, Leave
  <2>2. CASE t \in Kept(x) /\ ~t.failed
    <3>1. t \in Live(x.asked, x.polls)  BY <2>2 DEF Kept
    <3>2. t.failed \in BOOLEAN  BY <3>1, LiveFields
    <3> QED  BY <2>2, <3>2
  <2> QED  BY <1>3, <1>x, <2>1, <2>2 DEF Done
<1>6. /\ LinkGood' /\ NewestOnly /\ last_poll' \in -1 .. ServiceTicks
      /\ stalled' \in BOOLEAN /\ since_told' \in Nat /\ since_alive' \in Nat
      /\ device' \in States /\ heard' \in SUBSET Answers
  BY <1>t, <1>2, <1>3, <1>4, DoneLeft
<1>7. HostTyped' /\ Desired' /\ Between'
  BY <1>1, <1>t, <1>2, <1>5, <1>6 DEF HostInv, HostTyped, Desired, Between, Slots, Observations
<1> QED  BY <1>1, <1>6, <1>7 DEF HostInv, AnswerStep

\* The last neutral of an output that is dropped.
LEMMA LastSent ==
  ASSUME NEW x \in Contexts, NEW s \in Live(x.asked, x.polls), NEW u \in Ports(s),
         NEW t, t = send_neutral_now(u)
  PROVE  t \in Live(x.asked, x.polls)
<1>1. PICK n \in Nat : u = [s EXCEPT !.writes = n]
  BY Limits DEF Ports
<1>2. u \in Live(x.asked, x.polls) /\ u.c = s.c /\ u.c \in Links(x.asked)
  BY <1>1 DEF Live, SessionsOver
<1>3. CASE u.c.status # "Ready"
  <2>1. t = Fail(u)  BY <1>3 DEF send_neutral_now
  <2> QED  BY <1>2, <2>1, FailKeeps
<1>4. CASE u.c.status = "Ready"
  <2> DEFINE c == [u.c EXCEPT !.queued = << >>, !.last_state = NoState, !.since_state = -1]
             v == [u EXCEPT !.c = c]
  <2>1. -1 \in -1 .. RefreshTicks /\ << >> \in Seq(States \cap {x.asked})  BY Limits
  <2>2. c \in Links(x.asked)  BY <1>2, <2>1 DEF Links
  <2>3. [u EXCEPT !.c.queued = << >>, !.c.last_state = NoState, !.c.since_state = -1] = v
    BY <1>2 DEF Live, SessionsOver, Links
  <2> HIDE DEF c
  <2>4. v \in Live(x.asked, x.polls)  BY <1>2, <2>2, Moved
  <2> HIDE DEF v
  <2>5. t = write_message(v, NeutralNow)  BY <1>4, <2>3 DEF send_neutral_now, Off
  <2>6. NeutralNow \in Letters(x.asked) /\ x.asked \in Slots  BY DEF Letters, NeutralNow, Contexts
  <2> QED  BY ONLY <2>4, <2>5, <2>6, WriteIs
<1> QED  BY <1>3, <1>4

LEMMA LiveCloses ==
  ASSUME NEW x, AtWork(x), NEW s \in Live(x.asked, x.polls)
  PROVE  Close(s) \in Lost(x.asked)
<1>1. s.last_poll \in -1 .. ServiceTicks  BY LiveFields, Limits DEF AtWork
<1> QED  BY <1>1 DEF Close, Lost, Live, SessionsOver

LEMMA DropStep ==
  ASSUME HostInv, Drop, Clocks
  PROVE  HostInv' /\ NewestOnly /\ AnswerStep
<1> DEFINE x == Context(asked')
           s == Session(connection, last_poll)
<1>1. /\ asked' = asked /\ desired_state' = desired_state /\ outcome' = None
      /\ call' = call /\ observed' = observed /\ dropped' = TRUE /\ call = Idle
  BY DEF Drop, Usable, requests
<1>t. HostTyped /\ asked' \in Slots /\ last_poll \in -1 .. ServiceTicks /\ heard \in SUBSET Answers
  BY <1>1 DEF HostInv, HostTyped
<1>x. AtWork(x) /\ x \in Contexts /\ x.asked = asked' /\ x.polls = 0 .. ServiceTicks /\ x = Standing
  BY <1>1, <1>t, ContextIs DEF Standing
<1>2. PICK u \in IF bootloader_transition \/ desired_state = NoState \/ connection = Closed
                 THEN {s} ELSE {send_neutral_now(p) : p \in Ports(s)} : Keep(Close(u))
  BY DEF Drop
<1>3. Close(u) \in Lost(asked')
  <2>1. CASE connection = Closed
    <3>1. u = s /\ s \in Lost(x.asked)  BY <1>t, <1>2, <2>1, SessionLost
    <3> QED  BY <1>x, <3>1, CloseLoses
  <2>2. CASE connection # Closed
    <3>1. s \in Live(x.asked, x.polls)  BY <1>x, <2>2, LinkIs DEF Kept
    <3>2. u \in Live(x.asked, x.polls)
      <4> HIDE DEF x, s
      <4> QED  BY <1>x, <1>2, <3>1, LastSent
    <3> QED  BY <1>x, <3>2, LiveCloses
  <2> QED  BY <2>1, <2>2
<1>4. Leave(Close(u)) /\ heard' = (heard \cup Close(u).heard) \cap Awaited  BY <1>2 DEF Keep
<1>5. connection' = Closed /\ LinkGood' /\ NewestOnly /\ last_poll' \in -1 .. ServiceTicks
      /\ stalled' = FALSE /\ since_told' \in Nat /\ since_alive' \in Nat /\ device' \in States
  BY <1>t, <1>3, <1>4, LeftClosed
<1>6. heard' \in SUBSET Answers  BY <1>t, <1>3, <1>4, LostFields
<1>7. HostTyped' /\ Desired' /\ Between'
  BY <1>1, <1>5, <1>6 DEF HostInv, HostTyped, Desired, Between
<1> QED  BY <1>1, <1>5, <1>7 DEF HostInv, AnswerStep

ControlMessages ==
  [type : {"EnterUf2Bootloader"}, id : RequestIds]
    \cup [type : {"RecordInstallReceipt"}, id : RequestIds, receipt : Receipts]

\* What a request leaves behind, whatever call it begins: only answers of its
\* kind are newly awaited, and of those none is left in the connection.
LEMMA RequestLeft ==
  ASSUME HostInv, NEW m \in ControlMessages, connection # Closed,
         NEW u \in Ports(Session(connection, last_poll)), NEW t, t = send_request(u, m),
         Leave(t), asked' = asked, heard' = {a \in heard : a.type # AnswerType(m)}, Clocks,
         \A w \in Awaited' : w \in Awaited \/ w.type = AnswerType(m)
  PROVE  /\ connection' # Closed /\ LinkGood' /\ NewestOnly /\ last_poll' \in -1 .. ServiceTicks
         /\ stalled' = stalled /\ since_told' \in Nat /\ since_alive' \in Nat
         /\ device' \in States /\ heard' \in SUBSET Answers
<1> DEFINE x == Context(asked')
           s == Session(connection, last_poll)
<1>t. HostTyped /\ asked' \in Slots /\ heard \in SUBSET Answers /\ device \in States
      /\ since_told \in Nat /\ since_alive \in Nat
  BY DEF HostInv, HostTyped
<1>x. AtWork(x) /\ x.asked = asked' /\ x.polls = 0 .. ServiceTicks /\ x = Standing
      /\ x.answers = heard \cup (Answers \ Awaited)
  BY <1>t, ContextIs DEF Standing
<1>1. s \in Kept(x) /\ ~s.failed /\ s.wire = << >> /\ s.told = NoState /\ s.heard = {}
      /\ s.alive = FALSE /\ s.last_poll = last_poll /\ s.c = connection /\ s.c.queued = << >>
  BY <1>x, LinkIs, SessionIs DEF Session
<1> HIDE DEF x, s
<1>2. /\ t \in Live(x.asked, x.polls) /\ Good(t, x) /\ t.c.queued = << >>
      /\ t.last_poll = s.last_poll /\ t.heard = s.heard /\ t.alive = s.alive
      /\ t.told = NoState /\ t.c.pending_ping = s.c.pending_ping
      /\ t.c.uf2_bootloader_ready =
           IF m.type = "EnterUf2Bootloader" THEN None ELSE s.c.uf2_bootloader_ready
      /\ t.c.install_receipt_recorded =
           IF m.type = "EnterUf2Bootloader" THEN s.c.install_receipt_recorded ELSE None
  <2>1. u \in Ports(s) /\ m \in [type : {"EnterUf2Bootloader"}, id : RequestIds]
                            \cup [type : {"RecordInstallReceipt"}, id : RequestIds, receipt : Receipts]
    BY DEF s, ControlMessages
  <2> QED  BY <1>x, <1>1, <2>1, RequestSent
<1>3. device' \in States  BY <1>t, <1>2 DEF Leave
<1>4. Known(Session(t.c, t.last_poll), Standing')
  <2>1. Known(t, x) /\ t.c \in Links(asked') /\ t.heard = {}
    BY <1>x, <1>1, <1>2, LiveFields DEF Good
  <2>2. Standing'.answers = heard' \cup (Answers \ Awaited')  BY DEF Standing, Context
  <2>3. Session(t.c, t.last_poll).c = t.c  BY DEF Session
  <2>4. ASSUME NEW w \in Answers, w \in x.answers, w.type # AnswerType(m)
        PROVE  w \in Standing'.answers
    BY <1>x, <2>2, <2>4
  <2>5. ASSUME t.c.uf2_bootloader_ready # None
        PROVE  [type |-> "Uf2BootloaderReady", id |-> t.c.uf2_bootloader_ready] \in Standing'.answers
    <3> DEFINE w == [type |-> "Uf2BootloaderReady", id |-> t.c.uf2_bootloader_ready]
    <3>1. t.c.uf2_bootloader_ready \in RequestIds  BY <2>1, <2>5 DEF Links
    <3>2. w \in Answers  BY <3>1 DEF Answers
    <3>3. w \in x.answers  BY <2>1, <2>5 DEF Known
    <3>4. w.type # AnswerType(m)  BY <1>2, <2>5 DEF AnswerType
    <3> HIDE DEF w
    <3>5. w \in Standing'.answers  BY <2>4, <3>2, <3>3, <3>4
    <3> QED  BY <3>5 DEF w
  <2>6. ASSUME t.c.install_receipt_recorded # None
        PROVE  [type |-> "InstallReceiptRecorded", id |-> t.c.install_receipt_recorded.id,
                receipt |-> t.c.install_receipt_recorded.receipt] \in Standing'.answers
    <3> DEFINE w == [type |-> "InstallReceiptRecorded", id |-> t.c.install_receipt_recorded.id,
                     receipt |-> t.c.install_receipt_recorded.receipt]
    <3>1. t.c.install_receipt_recorded \in [id : RequestIds, receipt : Receipts]
      BY <2>1, <2>6 DEF Links
    <3>2. w \in Answers  BY <3>1 DEF Answers
    <3>3. w \in x.answers  BY <2>1, <2>6 DEF Known
    <3>4. w.type # AnswerType(m)  BY <1>2, <2>6 DEF AnswerType
    <3> HIDE DEF w
    <3>5. w \in Standing'.answers  BY <2>4, <3>2, <3>3, <3>4
    <3> QED  BY <3>5 DEF w
  <2> QED  BY <2>3, <2>5, <2>6 DEF Known
<1>5. /\ ~stalled => /\ Active(asked') => since_told <= RefreshTicks + t.last_poll
                     /\ IF t.c.pending_ping = None THEN since_alive <= PingTicks + t.last_poll
                        ELSE since_alive <= PingTicks + ServiceTicks + PongTicks + t.last_poll
  BY <1>1, <1>2 DEF HostInv, LinkGood, Timely
<1>6. t \in Live(asked', 0 .. ServiceTicks) /\ Good(t, Context(asked'))  BY <1>x, <1>2 DEF x
<1>7. /\ connection' # Closed /\ LinkGood' /\ NewestOnly /\ last_poll' \in -1 .. ServiceTicks
      /\ stalled' = stalled /\ since_told' \in Nat /\ since_alive' \in Nat
  BY <1>t, <1>2, <1>3, <1>4, <1>5, <1>6, LeftOpen
<1> QED  BY <1>t, <1>3, <1>7

LEMMA RequestUf2Step ==
  ASSUME HostInv, NEW id \in RequestIds, RequestUf2Bootloader(id), Clocks
  PROVE  HostInv' /\ NewestOnly /\ AnswerStep
<1> DEFINE m == EnterUf2Bootloader(id)
<1>1. /\ connection # Closed /\ asked' = asked /\ outcome' = None
      /\ heard' = {a \in heard : a.type # AnswerType(m)}
      /\ desired_state' = desired_state /\ dropped' = dropped /\ ~dropped /\ call = Idle
      /\ observed' = observed
  BY DEF RequestUf2Bootloader, Request, Usable
<1>2. PICK t \in {send_request(u, m) : u \in Ports(Session(connection, last_poll))} :
        Leave(t) /\ call' \in {call, [kind |-> "Uf2", id |-> id]}
  BY DEF RequestUf2Bootloader, Request
<1>3. PICK u \in Ports(Session(connection, last_poll)) : t = send_request(u, m)
  BY <1>2
<1>4. m \in ControlMessages /\ AnswerType(m) = "Uf2BootloaderReady"
  BY DEF ControlMessages, EnterUf2Bootloader, AnswerType
<1>5. \A w \in Awaited' : w \in Awaited \/ w.type = AnswerType(m)
  BY <1>1, <1>2, <1>4 DEF Awaited, Expected
<1> HIDE DEF m
<1>6. /\ connection' # Closed /\ LinkGood' /\ NewestOnly /\ last_poll' \in -1 .. ServiceTicks
      /\ stalled' = stalled /\ since_told' \in Nat /\ since_alive' \in Nat
      /\ device' \in States /\ heard' \in SUBSET Answers
  BY <1>1, <1>2, <1>3, <1>4, <1>5, RequestLeft
<1>7. call' \in Calls  BY <1>2 DEF HostInv, HostTyped, Calls
<1>8. HostTyped' /\ Desired' /\ Between'
  BY <1>1, <1>6, <1>7 DEF HostInv, HostTyped, Desired, Between
<1> QED  BY <1>1, <1>6, <1>8 DEF HostInv, AnswerStep

LEMMA RecordStep ==
  ASSUME HostInv, NEW id \in RequestIds, NEW r \in Receipts, Clocks,
         RecordInstallReceiptAndWait(id, r) \/ RequestFirmwareInstallReceipt(id, r)
  PROVE  HostInv' /\ NewestOnly /\ AnswerStep
<1> DEFINE m == RecordInstallReceipt(id, r)
<1>1. /\ connection # Closed /\ asked' = asked /\ outcome' = None
      /\ heard' = {a \in heard : a.type # AnswerType(m)}
      /\ desired_state' = desired_state /\ dropped' = dropped /\ ~dropped /\ call = Idle
  BY DEF RecordInstallReceiptAndWait, RequestFirmwareInstallReceipt, Request, Usable
<1>2. PICK t \in {send_request(u, m) : u \in Ports(Session(connection, last_poll))} :
        /\ Leave(t) /\ call' \in {call, [kind |-> "Receipt", id |-> id, receipt |-> r]}
        /\ observed' \in {observed, [kind |-> "Observed", id |-> id, receipt |-> r]}
  BY DEF RecordInstallReceiptAndWait, RequestFirmwareInstallReceipt, Request
<1>3. PICK u \in Ports(Session(connection, last_poll)) : t = send_request(u, m)
  BY <1>2
<1>4. m \in ControlMessages /\ AnswerType(m) = "InstallReceiptRecorded"
  BY DEF ControlMessages, RecordInstallReceipt, AnswerType
<1>5. \A w \in Awaited' : w \in Awaited \/ w.type = AnswerType(m)
  BY <1>1, <1>2, <1>4 DEF Awaited, Expected
<1> HIDE DEF m
<1>6. /\ connection' # Closed /\ LinkGood' /\ NewestOnly /\ last_poll' \in -1 .. ServiceTicks
      /\ stalled' = stalled /\ since_told' \in Nat /\ since_alive' \in Nat
      /\ device' \in States /\ heard' \in SUBSET Answers
  BY <1>1, <1>2, <1>3, <1>4, <1>5, RequestLeft
<1>7. call' \in Calls /\ observed' \in Observations
  BY <1>2 DEF HostInv, HostTyped, Calls, Observations
<1>8. HostTyped' /\ Desired' /\ Between'
  BY <1>1, <1>6, <1>7 DEF HostInv, HostTyped, Desired, Between
<1> QED  BY <1>1, <1>6, <1>8 DEF HostInv, AnswerStep

\* What one look at the connection takes for the call in progress.
LEMMA TakenIs ==
  ASSUME NEW a, NEW c \in Links(a), call \in Calls, call # Idle, NEW taken, taken = TakeResponse(c)
  PROVE  /\ taken.c \in Links(a) /\ taken.c.queued = c.queued
         /\ taken.c.last_state = c.last_state
         /\ taken.c.since_state = c.since_state /\ taken.c.status = c.status
         /\ taken.c.pending_ping = c.pending_ping /\ taken.c.since_ping = c.since_ping
         /\ taken.c.uf2_bootloader_ready \in {c.uf2_bootloader_ready, None}
         /\ taken.c.install_receipt_recorded \in {c.install_receipt_recorded, None}
         /\ taken.verdict = "Ok" =>
              \/ call.kind = "Info"
              \/ /\ call.kind = "Uf2" /\ c.uf2_bootloader_ready # None
                 /\ c.uf2_bootloader_ready = call.id
              \/ /\ call.kind = "Receipt" /\ c.install_receipt_recorded # None
                 /\ c.install_receipt_recorded.id = call.id
                 /\ c.install_receipt_recorded.receipt = call.receipt
<1>1. call.kind \in {"Uf2", "Receipt", "Info"}  BY DEF Calls, Idle
<1>2. CASE call.kind = "Uf2"
  <2>1. taken = TakeUf2Response(c, call.id)  BY <1>2 DEF TakeResponse
  <2> QED  BY <1>2, <2>1, TakenUf2
<1>3. CASE call.kind = "Receipt"
  <2>1. taken = TakeReceiptResponse(c, call.id, call.receipt)  BY <1>3 DEF TakeResponse
  <2> QED  BY <1>3, <2>1, TakenReceipt
<1>4. CASE call.kind = "Info"
  <2>1. taken.c = c  BY <1>4 DEF TakeResponse, NoneYet
  <2> QED  BY <1>4, <2>1
<1> QED  BY <1>1, <1>2, <1>3, <1>4

LEMMA WaitStep ==
  ASSUME HostInv, WaitForControlResponse, Clocks
  PROVE  HostInv' /\ NewestOnly /\ AnswerStep
<1> DEFINE x == Context(asked')
           o == Session(connection, last_poll)
<1>1. /\ asked' = asked /\ desired_state' = desired_state /\ observed' = observed
      /\ dropped' = dropped /\ call # Idle
  BY DEF WaitForControlResponse
<1>t. /\ HostTyped /\ asked' \in Slots /\ call \in Calls /\ connection # Closed /\ ~dropped
      /\ dropped \in BOOLEAN /\ observed \in Observations /\ desired_state \in Slots
  BY <1>1 DEF HostInv, HostTyped, Between
<1>x. AtWork(x) /\ x \in Contexts /\ x.asked = asked' /\ x.polls = 0 .. ServiceTicks /\ x = Standing
      /\ x.answers = heard \cup (Answers \ Awaited)
  BY <1>1, <1>t, ContextIs DEF Standing
<1>2. PICK s \in Polled(o) :
        \/ s.failed /\ Keep(Close(s)) /\ Returns("Failed")
        \/ ~s.failed /\ LET taken == TakeResponse(s.c) IN
             /\ Keep([s EXCEPT !.c = taken.c])
             /\ \/ taken.verdict # "Waiting" /\ Returns(taken.verdict)
                \/ taken.verdict = "Waiting" /\ Returns("ControlTimeout")
                \/ /\ taken.verdict = "Waiting"
                   /\ outcome' = None /\ UNCHANGED <<call, bootloader_transition>>
  BY DEF WaitForControlResponse
<1>3. o \in Kept(x) /\ ~o.failed  BY <1>t, <1>x, LinkIs, SessionIs
<1>4. call' \in {Idle, call}  BY <1>2 DEF Returns
<1>5. Awaited' \subseteq Awaited  BY <1>1, <1>4 DEF Awaited
<1> HIDE DEF o, x
<1>6. (IF s.failed THEN Close(s) ELSE s) \in Done(x)  BY <1>x, <1>3, PolledEnds
<1>7. ASSUME NEW t \in Done(x), Keep(t), call' = Idle \/ connection' # Closed, AnswerStep
      PROVE  HostInv' /\ NewestOnly /\ AnswerStep
  <2>1. /\ LinkGood' /\ NewestOnly /\ last_poll' \in -1 .. ServiceTicks
        /\ stalled' \in BOOLEAN /\ since_told' \in Nat /\ since_alive' \in Nat
        /\ device' \in States /\ heard' \in SUBSET Answers
    BY <1>t, <1>5, <1>7, DoneLeft DEF x
  <2>2. call' \in Calls  BY <1>t, <1>4 DEF Calls
  <2>3. HostTyped' /\ Desired' /\ Between'
    BY <1>1, <1>t, <1>7, <2>1, <2>2 DEF HostInv, HostTyped, Desired, Between
  <2> QED  BY <1>7, <2>1, <2>3 DEF HostInv
<1>8. CASE s.failed
  <2>1. Keep(Close(s)) /\ Returns("Failed") /\ Close(s) \in Done(x)  BY <1>2, <1>6, <1>8
  <2>2. call' = Idle /\ AnswerStep  BY <2>1 DEF Returns, AnswerStep
  <2> QED  BY <1>7, <2>1, <2>2
<1>9. CASE ~s.failed
  <2> DEFINE taken == TakeResponse(s.c)
             t == [s EXCEPT !.c = taken.c]
  <2>1. /\ Keep(t)
        /\ \/ Returns(taken.verdict)
           \/ taken.verdict = "Waiting" /\ Returns("ControlTimeout")
           \/ outcome' = None /\ call' = call
    BY <1>2, <1>9
  <2>2. s \in Kept(x) /\ ~s.failed /\ s.c.status = "Ready" /\ Served(s.c)
    <3>1. ASSUME s \in Lost(x.asked), s.failed PROVE FALSE  BY <1>9, <3>1
    <3> QED  BY <1>6, <1>9, <3>1 DEF Done
  <2>3. s \in Live(x.asked, x.polls) /\ Good(s, x) /\ s.c \in Links(x.asked)
    BY <2>2, LiveFields DEF Kept
  <2>4. taken = TakeResponse(s.c)  OBVIOUS
  <2> HIDE DEF taken
  <2>5. /\ taken.c \in Links(x.asked) /\ taken.c.queued = s.c.queued
        /\ taken.c.last_state = s.c.last_state
        /\ taken.c.since_state = s.c.since_state /\ taken.c.status = s.c.status
        /\ taken.c.pending_ping = s.c.pending_ping /\ taken.c.since_ping = s.c.since_ping
        /\ taken.c.uf2_bootloader_ready \in {s.c.uf2_bootloader_ready, None}
        /\ taken.c.install_receipt_recorded \in {s.c.install_receipt_recorded, None}
        /\ taken.verdict = "Ok" =>
             \/ call.kind = "Info"
             \/ /\ call.kind = "Uf2" /\ s.c.uf2_bootloader_ready # None
                /\ s.c.uf2_bootloader_ready = call.id
             \/ /\ call.kind = "Receipt" /\ s.c.install_receipt_recorded # None
                /\ s.c.install_receipt_recorded.id = call.id
                /\ s.c.install_receipt_recorded.receipt = call.receipt
    BY <1>1, <1>t, <2>3, <2>4, TakenIs
  <2>6. t = [s EXCEPT !.c = taken.c]  OBVIOUS
  <2> HIDE DEF t
  <2>7. /\ t \in Live(x.asked, x.polls) /\ Good(t, x) /\ t.c = taken.c
        /\ t.heard = s.heard /\ t.failed = s.failed
    BY <1>x, <2>3, <2>5, <2>6, Cleared
  <2>8. t \in Done(x)
    <3>1. t \in Kept(x)  BY <2>7 DEF Kept
    <3>2. ~t.failed  BY <1>9, <2>7
    <3>3. t.c.status = "Ready" /\ Served(t.c)
      BY <2>2, <2>5, <2>7 DEF Served, PingsDone
    <3> QED  BY <3>1, <3>2, <3>3 DEF Done
  <2>9. connection' # Closed
    <3>1. connection' = t.c  BY <2>1 DEF Keep, Leave
    <3>2. t.c \in Links(x.asked)  BY <2>5, <2>7
    <3> QED  BY <3>1, <3>2, LinkIsLink
  <2>10. AnswerStep
    <3>1. SUFFICES ASSUME Returns(taken.verdict), taken.verdict = "Ok", call.kind # "Info"
                   PROVE  Expected(call) \in heard'
      <4>1. CASE Returns(taken.verdict)
        BY <3>1, <4>1 DEF AnswerStep, Returns
      <4>2. CASE Returns("ControlTimeout")
        BY <4>2 DEF AnswerStep, Returns
      <4>3. CASE outcome' = None
        BY <4>3 DEF AnswerStep
      <4> QED  BY <2>1, <4>1, <4>2, <4>3
    <3>2. Known(s, x)  BY <2>3 DEF Good
    <3>3. heard' = (heard \cup s.heard) \cap Awaited  BY <2>1, <2>7 DEF Keep
    <3>4. Expected(call) \in Awaited
      BY <1>1, <3>1 DEF Awaited
    <3>5. CASE call.kind = "Uf2"
      <4>1. Expected(call) = [type |-> "Uf2BootloaderReady", id |-> s.c.uf2_bootloader_ready]
        BY <2>5, <3>1, <3>5 DEF Expected
      <4>2. Expected(call) \in x.answers \cup s.heard
        BY <2>5, <3>1, <3>2, <3>5, <4>1 DEF Known
      <4> QED  BY <1>x, <3>3, <3>4, <4>2
    <3>6. CASE call.kind = "Receipt"
      <4>1. Expected(call) =
              [type |-> "InstallReceiptRecorded", id |-> s.c.install_receipt_recorded.id,
               receipt |-> s.c.install_receipt_recorded.receipt]
        BY <2>5, <3>1, <3>6 DEF Expected
      <4>2. Expected(call) \in x.answers \cup s.heard
        BY <2>5, <3>1, <3>2, <3>6, <4>1 DEF Known
      <4> QED  BY <1>x, <3>3, <3>4, <4>2
    <3> QED  BY <2>5, <3>1, <3>5, <3>6
  <2> QED  BY <1>7, <2>1, <2>8, <2>9, <2>10
<1> QED  BY <1>8, <1>9

\* The passing of time, as long as no poll is due that the host leaves undone.
LEMMA OlderIs ==
  ASSUME NEW limit \in Nat, NEW age \in -1 .. limit
  PROVE  /\ Older(age, limit) \in -1 .. limit
         /\ Older(age, limit) = -1 <=> age = -1
         /\ age \in 0 .. limit => Older(age, limit) \in 0 .. limit
         /\ age # -1 /\ age # limit => Older(age, limit) = age + 1
         /\ age # -1 /\ Older(age, limit) # limit => age # limit
  BY DEF Older, Off

LEMMA ClockIs ==
  ASSUME NEW limit \in Nat, NEW age \in Nat
  PROVE  Older(age, limit) \in Nat /\ Older(age, limit) <= age + 1
  BY DEF Older, Off

LEMMA AgedIs ==
  ASSUME NEW a, NEW c \in Links(a), NEW d, d = Aged(c)
  PROVE  /\ d \in Links(a) /\ d.queued = c.queued /\ d.last_state = c.last_state
         /\ d.status = c.status /\ d.since_ping = Older(c.since_ping, PingTicks)
         /\ d.since_state = Older(c.since_state, RefreshTicks)
         /\ d.uf2_bootloader_ready = c.uf2_bootloader_ready
         /\ d.install_receipt_recorded = c.install_receipt_recorded
         /\ d.pending_ping = None <=> c.pending_ping = None
         /\ c.pending_ping # None => d.pending_ping.age = Older(c.pending_ping.age, PongTicks)
<1> DEFINE ping == AgedPing(c.pending_ping)
<1>1. /\ c.since_ping \in 0 .. PingTicks /\ c.since_state \in -1 .. RefreshTicks
      /\ c.since_ready \in -1 .. GraceTicks /\ c.pending_ping \in Pings
  BY DEF Links
<1>2. /\ Older(c.since_ping, PingTicks) \in 0 .. PingTicks
      /\ Older(c.since_state, RefreshTicks) \in -1 .. RefreshTicks
      /\ Older(c.since_ready, GraceTicks) \in -1 .. GraceTicks
  <2>1. c.since_ping \in -1 .. PingTicks  BY <1>1, Limits
  <2> QED  BY <1>1, <2>1, Limits, OlderIs
<1>3. /\ ping \in Pings /\ (ping = None <=> c.pending_ping = None)
      /\ c.pending_ping # None => ping.age = Older(c.pending_ping.age, PongTicks)
  <2>1. CASE c.pending_ping = None  BY <2>1 DEF Pings, AgedPing
  <2>2. CASE c.pending_ping # None
    <3>1. c.pending_ping \in [nonce : Sequences, age : 0 .. PongTicks]  BY <1>1, <2>2 DEF Pings
    <3>2. c.pending_ping.age \in -1 .. PongTicks  BY <3>1, Limits
    <3>3. Older(c.pending_ping.age, PongTicks) \in 0 .. PongTicks
      BY <3>1, <3>2, Limits, OlderIs
    <3>4. ping = [c.pending_ping EXCEPT !.age = Older(c.pending_ping.age, PongTicks)]
      BY <2>2 DEF AgedPing
    <3> HIDE DEF ping
    <3>5. /\ ping \in [nonce : Sequences, age : 0 .. PongTicks]
          /\ ping.age = Older(c.pending_ping.age, PongTicks)
      BY <3>1, <3>3, <3>4
    <3>6. None \notin [nonce : Sequences, age : 0 .. PongTicks]
      BY LimitAssumption DEF Sequences
    <3> QED  BY <2>2, <3>5, <3>6 DEF Pings
  <2> QED  BY <2>1, <2>2
<1>4. d = [c EXCEPT !.since_ping = Older(c.since_ping, PingTicks),
                    !.since_state = Older(c.since_state, RefreshTicks),
                    !.since_ready = Older(c.since_ready, GraceTicks),
                    !.pending_ping = ping]
  BY DEF Aged
<1> HIDE DEF ping
<1> DEFINE e == [[c EXCEPT !.since_ping = Older(c.since_ping, PingTicks)]
                   EXCEPT !.since_state = Older(c.since_state, RefreshTicks)]
           h == [e EXCEPT !.since_ready = Older(c.since_ready, GraceTicks)]
<1>5. d \in Links(a)
  <2>1. e \in Links(a)
    BY <1>2, Zenon DEF Links
  <2>2. d = [[e EXCEPT !.since_ready = Older(c.since_ready, GraceTicks)] EXCEPT !.pending_ping = ping]
    BY <1>4, Zenon
  <2> HIDE DEF e
  <2>3. h \in Links(a)
    BY <1>2, <2>1, Zenon DEF Links
  <2>4. d = [h EXCEPT !.pending_ping = ping]
    BY <2>2, Zenon
  <2> HIDE DEF h
  <2> QED
    BY <1>3, <2>3, <2>4, Zenon DEF Links
<1>6. /\ d.queued = c.queued /\ d.last_state = c.last_state /\ d.status = c.status
      /\ d.uf2_bootloader_ready = c.uf2_bootloader_ready
      /\ d.install_receipt_recorded = c.install_receipt_recorded
  BY <1>4, Zenon DEF Links
<1>7. /\ d.since_ping = Older(c.since_ping, PingTicks)
      /\ d.since_state = Older(c.since_state, RefreshTicks) /\ d.pending_ping = ping
  BY <1>4, Zenon DEF Links
<1> QED  BY <1>3, <1>5, <1>6, <1>7

LEMMA AdvanceStep ==
  ASSUME HostInv, TimedAdvance
  PROVE  HostInv' /\ NewestOnly /\ AnswerStep
<1>1. /\ last_poll' = Older(last_poll, ServiceTicks)
      /\ desired_state' = desired_state /\ call' = call /\ observed' = observed
      /\ dropped' = dropped /\ asked' = asked /\ device' = device /\ heard' = heard
      /\ outcome' = None /\ wire' = << >>
      /\ stalled' = (stalled \/ PollDue)
      /\ since_told' = IF stalled' THEN 0 ELSE Older(since_told, RefreshBound + 1)
      /\ since_alive' = IF stalled' THEN 0 ELSE Older(since_alive, SilenceBound + 1)
  BY DEF TimedAdvance, Advance, Quiet, requests, ghosts
<1>t. /\ HostTyped /\ last_poll \in -1 .. ServiceTicks /\ since_told \in Nat /\ since_alive \in Nat
      /\ stalled \in BOOLEAN /\ asked \in Slots
  BY DEF HostInv, HostTyped
<1>2. last_poll' \in -1 .. ServiceTicks  BY <1>1, <1>t, Limits, OlderIs
<1>3. /\ since_told' \in Nat /\ since_told' <= since_told + 1
      /\ since_alive' \in Nat /\ since_alive' <= since_alive + 1
      /\ stalled' \in BOOLEAN
  <2>1. RefreshBound + 1 \in Nat /\ SilenceBound + 1 \in Nat
    BY Limits DEF RefreshBound, SilenceBound
  <2>2. stalled' \in BOOLEAN  BY <1>1
  <2>3. /\ Older(since_told, RefreshBound + 1) \in Nat
        /\ Older(since_told, RefreshBound + 1) <= since_told + 1
        /\ Older(since_alive, SilenceBound + 1) \in Nat
        /\ Older(since_alive, SilenceBound + 1) <= since_alive + 1
    BY <1>t, <2>1, ClockIs
  <2>4. CASE stalled'
    <3>1. since_told' = 0 /\ since_alive' = 0  BY <1>1, <2>4
    <3> QED  BY <1>t, <2>2, <3>1
  <2>5. CASE ~stalled'
    <3>1. /\ since_told' = Older(since_told, RefreshBound + 1)
          /\ since_alive' = Older(since_alive, SilenceBound + 1)
      BY <1>1, <2>5
    <3> QED  BY <2>2, <2>3, <3>1
  <2> QED  BY <2>4, <2>5
<1>4. connection = Closed => connection' = Closed  BY DEF TimedAdvance, Advance
<1>5. ASSUME connection # Closed PROVE connection' # Closed /\ LinkGood'
  <2> DEFINE s == Session(connection, last_poll)
             t == Session(connection', last_poll')
             y == Standing'
  <2>1. /\ connection \in Links(asked) /\ last_poll \in 0 .. ServiceTicks
        /\ connection.status = "Ready" /\ connection.queued = << >>
    BY <1>5, LinkIs
  <2>2. connection' = Aged(connection)
    BY <1>5 DEF TimedAdvance, Advance
  <2> DEFINE d == connection'
  <2>3. /\ d \in Links(asked) /\ d.queued = << >> /\ d.last_state = connection.last_state
        /\ d.status = "Ready" /\ d.since_ping = Older(connection.since_ping, PingTicks)
        /\ d.since_state = Older(connection.since_state, RefreshTicks)
        /\ d.uf2_bootloader_ready = connection.uf2_bootloader_ready
        /\ d.install_receipt_recorded = connection.install_receipt_recorded
        /\ d.pending_ping = None <=> connection.pending_ping = None
        /\ connection.pending_ping # None =>
             d.pending_ping.age = Older(connection.pending_ping.age, PongTicks)
    <3>1. d = Aged(connection)  BY <2>2
    <3> HIDE DEF d, s, t, y
    <3>2. /\ d \in Links(asked) /\ d.queued = connection.queued
          /\ d.last_state = connection.last_state /\ d.status = connection.status
          /\ d.since_ping = Older(connection.since_ping, PingTicks)
          /\ d.since_state = Older(connection.since_state, RefreshTicks)
          /\ d.uf2_bootloader_ready = connection.uf2_bootloader_ready
          /\ d.install_receipt_recorded = connection.install_receipt_recorded
          /\ d.pending_ping = None <=> connection.pending_ping = None
          /\ connection.pending_ping # None =>
               d.pending_ping.age = Older(connection.pending_ping.age, PongTicks)
      BY <2>1, <3>1, AgedIs
    <3> QED  BY <2>1, <3>2
  <2>4. /\ connection.since_ping \in 0 .. PingTicks /\ connection.since_state \in -1 .. RefreshTicks
        /\ connection.pending_ping \in Pings
        /\ connection.pending_ping # None => connection.pending_ping.age \in 0 .. PongTicks
    BY <2>1 DEF Links, Pings
  <2>5. /\ d.since_ping \in 0 .. PingTicks
        /\ d.since_ping < PingTicks => d.since_ping = connection.since_ping + 1
        /\ d.since_state \in -1 .. RefreshTicks /\ (d.since_state = -1 <=> connection.since_state = -1)
        /\ d.since_state # -1 /\ d.since_state < RefreshTicks =>
             d.since_state = connection.since_state + 1
        /\ connection.pending_ping # None =>
             /\ d.pending_ping.age \in 0 .. PongTicks
             /\ d.pending_ping.age < PongTicks => d.pending_ping.age = connection.pending_ping.age + 1
    BY SMTT(40), <2>3, <2>4, Limits DEF Older, Off
  <2>6. last_poll' \in 0 .. ServiceTicks
    BY <1>1, <2>1, Limits DEF Older, Off
  <2>7. t \in Live(asked', 0 .. ServiceTicks)  BY <1>1, <2>3, <2>6, SessionLives
  <2>8. Good(s, Standing) /\ (~stalled => Timely(connection, last_poll))
    BY <1>5 DEF HostInv, LinkGood
  <2>9. /\ s.c = connection /\ s.wire = << >> /\ s.told = NoState /\ s.heard = {} /\ ~s.alive
        /\ t.c = d /\ t.wire = << >> /\ t.told = NoState /\ t.heard = {} /\ ~t.alive
    BY SessionIs
  <2>10. /\ y.asked = asked /\ y.device = device /\ y.answers = heard \cup (Answers \ Awaited)
         /\ y.status = {"Ready"}
         /\ y.told = (IF stalled' THEN 0 ELSE since_told')
         /\ y.alive = (IF stalled' THEN 0 ELSE since_alive')
    <3>1. Awaited' = Awaited  BY <1>1 DEF Awaited
    <3> QED  BY <1>1, <3>1 DEF Standing, Context
  <2>11. /\ Standing.asked = asked /\ Standing.device = device
         /\ Standing.answers = heard \cup (Answers \ Awaited)
         /\ Standing.told = (IF stalled THEN 0 ELSE since_told)
         /\ Standing.alive = (IF stalled THEN 0 ELSE since_alive)
    BY DEF Standing, Context
  <2> HIDE DEF s, t, d, y
  <2>12. ~stalled' => ~stalled /\ last_poll < ServiceTicks /\ last_poll' = last_poll + 1
    <3>1. ~stalled' => ~stalled /\ last_poll # ServiceTicks
      BY <1>1, <1>5 DEF PollDue, ServiceDue
    <3> QED  BY <1>1, <2>1, <3>1, Limits DEF Older, Off
  <2>13. Steady(t.c) /\ Current(t.c, y) /\ Delivered(t, y) /\ Known(t, y) /\ t.c.status \in y.status
    <3>1. Steady(t.c)  BY <2>3, <2>5, <2>8, <2>9 DEF Good, Steady
    <3>2. Current(t.c, y)  BY <2>1, <2>3, <2>8, <2>9, <2>10, <2>11 DEF Good, Current
    <3>3. Delivered(t, y)  BY <2>1, <2>3, <2>8, <2>9, <2>10, <2>11 DEF Good, Delivered
    <3>4. Known(t, y)  BY <2>3, <2>8, <2>9, <2>10, <2>11 DEF Good, Known
    <3> QED  BY <3>1, <3>2, <3>3, <3>4, <2>3, <2>9, <2>10
  <2>14. Refreshed(t, y)
    <3>1. SUFFICES ASSUME Active(asked), d.since_state < RefreshTicks
                   PROVE  y.told <= d.since_state
      BY <2>9, <2>10 DEF Refreshed
    <3>2. connection.last_state = asked /\ connection.since_state # -1
      BY <2>1, <2>8, <2>9, <2>11, <3>1, StateAssumption DEF Good, Delivered, Steady, Active
    <3>3. d.since_state = connection.since_state + 1  BY <2>5, <3>1, <3>2
    <3>4. ~Wrote(s.wire)  BY <2>9 DEF Wrote
    <3>5. connection.since_state < RefreshTicks  BY <2>4, <3>1, <3>3, Limits
    <3>6. Standing.told <= connection.since_state
      BY <2>1, <2>8, <2>9, <2>11, <3>1, <3>4, <3>5 DEF Good, Refreshed
    <3>7. connection.since_state \in Nat  BY <2>4, <3>2, Limits
    <3>8. CASE stalled'
      <4>1. y.told = 0  BY <2>10, <3>8
      <4> QED  BY <3>3, <3>7, <4>1
    <3>9. CASE ~stalled'
      <4>1. y.told = since_told' /\ Standing.told = since_told  BY <2>10, <2>11, <2>12, <3>9
      <4> QED  BY <1>3, <1>t, <3>3, <3>6, <3>7, <4>1
    <3> QED  BY <3>8, <3>9
  <2>15. Answering(t, y)
    <3>1. CASE stalled'
      <4>1. y.alive = 0  BY <2>10, <3>1
      <4>2. 0 <= d.since_ping /\ (d.pending_ping # None => 0 <= d.pending_ping.age)
        BY <2>3, <2>5, Limits
      <4> QED  BY <2>9, <4>1, <4>2, Limits, <2>3, <2>5 DEF Answering, Unanswered
    <3>2. CASE ~stalled'
      <4>1. /\ ~stalled /\ last_poll < ServiceTicks /\ y.alive = since_alive'
            /\ Standing.alive = since_alive
        BY <2>10, <2>11, <2>12, <3>2
      <4>2. Unanswered(connection, since_alive) /\ Timely(connection, last_poll)
        BY <2>1, <2>8, <2>9, <4>1 DEF Good, Answering
      <4>3. Unanswered(d, since_alive')
        <5>1. CASE connection.pending_ping = None
          <6>1. since_alive <= PingTicks + last_poll
                /\ (connection.since_ping < PingTicks => since_alive <= connection.since_ping)
            BY <4>2, <5>1 DEF Unanswered, Timely
          <6>2. since_alive' <= PingTicks + ServiceTicks
            BY <1>3, <1>t, <2>1, <4>1, <6>1, Limits
          <6>3. d.since_ping < PingTicks => since_alive' <= d.since_ping
            BY <1>3, <1>t, <2>4, <2>5, <6>1, Limits
          <6> QED  BY <2>3, <5>1, <6>2, <6>3 DEF Unanswered
        <5>2. CASE connection.pending_ping # None
          <6>1. connection.pending_ping.age < PongTicks =>
                  since_alive <= PingTicks + ServiceTicks + connection.pending_ping.age
            BY <4>2, <5>2 DEF Unanswered
          <6>2. d.pending_ping.age < PongTicks =>
                  since_alive' <= PingTicks + ServiceTicks + d.pending_ping.age
            BY <1>3, <1>t, <2>4, <2>5, <5>2, <6>1, Limits
          <6> QED  BY <2>3, <5>2, <6>2 DEF Unanswered
        <5> QED  BY <5>1, <5>2
      <4> QED  BY <2>9, <4>1, <4>3 DEF Answering
    <3> QED  BY <3>1, <3>2
  <2>16. Good(t, y)  BY <2>13, <2>14, <2>15 DEF Good
  <2>17. ~stalled' => Timely(connection, last_poll)'
    <3>1. SUFFICES ASSUME ~stalled' PROVE Timely(connection, last_poll)'  OBVIOUS
    <3>2. Timely(connection, last_poll)  BY <2>8, <2>12, <3>1
    <3>3. last_poll' = last_poll + 1  BY <2>12, <3>1
    <3> QED
      BY <1>1, <1>3, <1>t, <2>1, <2>3, <3>2, <3>3, Limits DEF Timely, d
  <2>18. connection' # Closed  BY <2>3, LinkIsLink DEF d
  <2> QED  BY <2>3, <2>7, <2>16, <2>17, <2>18 DEF LinkGood, t, d, y
<1>6. LinkGood'  BY <1>4, <1>5 DEF LinkGood
<1>7. HostTyped' /\ Desired' /\ Between'
  BY <1>1, <1>2, <1>3, <1>4, <1>5 DEF HostInv, HostTyped, Desired, Between
<1>8. NewestOnly
  <2>1. wire' = << >>  BY <1>1
  <2> QED  BY <2>1 DEF NewestOnly, Wires
<1> QED  BY <1>1, <1>6, <1>7, <1>8 DEF HostInv, AnswerStep

-----------------------------------------------------------------------------
(* The theorems.                                                           *)

LEMMA HostInit == TimingInit => HostInv
<1> SUFFICES ASSUME TimingInit PROVE HostInv  OBVIOUS
<1>1. /\ connection = Closed /\ desired_state = NoState /\ last_poll = -1
      /\ call = Idle /\ observed = None /\ dropped = TRUE /\ asked = NoState /\ device = Neutral
      /\ heard = {} /\ since_told = 0 /\ since_alive = 0 /\ stalled = FALSE
  BY DEF TimingInit, Init, Off
<1>2. last_poll \in -1 .. ServiceTicks  BY <1>1, Limits
<1> QED
  BY <1>1, <1>2, StateAssumption
  DEF HostInv, HostTyped, Desired, Between, LinkGood, Slots, Calls, Observations

LEMMA CallStep ==
  ASSUME HostInv, Call, Clocks
  PROVE  HostInv' /\ NewestOnly /\ AnswerStep
<1>1. CASE Open  BY <1>1, OpenStep
<1>2. CASE Service  BY <1>2, ServiceStep
<1>3. CASE TakeFeedback  BY <1>3, TakeFeedbackStep
<1>4. CASE Drop  BY <1>4, DropStep
<1>5. CASE SendNeutral  BY <1>5, SendNeutralStep
<1>6. ASSUME NEW state \in States, SendState(state)
      PROVE  HostInv' /\ NewestOnly /\ AnswerStep
  BY <1>6, SendStateStep
<1>7. ASSUME NEW id \in RequestIds, RequestUf2Bootloader(id)
      PROVE  HostInv' /\ NewestOnly /\ AnswerStep
  BY <1>7, RequestUf2Step
<1>8. ASSUME NEW id \in RequestIds, NEW r \in Receipts,
             RecordInstallReceiptAndWait(id, r) \/ RequestFirmwareInstallReceipt(id, r)
      PROVE  HostInv' /\ NewestOnly /\ AnswerStep
  BY <1>8, RecordStep
<1>9. CASE WaitForFirmwareInfo  BY <1>9, WaitForFirmwareInfoStep
<1>10. CASE WaitForControlResponse  BY <1>10, WaitStep
<1>11. CASE PollFirmwareInstallReceipt  BY <1>11, PollReceiptStep
<1>12. CASE SessionCall
  BY <1>12, <1>1, <1>2, <1>3, <1>4 DEF SessionCall
<1>13. CASE StateCall
  BY <1>13, <1>5, <1>6 DEF StateCall
<1>14. CASE ControlCall
  BY <1>14, <1>7, <1>8, <1>9, <1>10, <1>11 DEF ControlCall
<1> QED  BY <1>12, <1>13, <1>14 DEF Call

LEMMA HostStep ==
  ASSUME HostInv, TimingNext
  PROVE  HostInv' /\ NewestOnly /\ AnswerStep
<1>1. CASE TimedCall
  <2>1. Call /\ Clocks  BY <1>1 DEF TimedCall, Clocks
  <2> QED  BY <2>1, CallStep
<1>2. CASE TimedAdvance  BY <1>2, AdvanceStep
<1> QED  BY <1>1, <1>2 DEF TimingNext

LEMMA HostStutter ==
  ASSUME HostInv, UNCHANGED timing_vars
  PROVE  HostInv'
<1>1. /\ connection' = connection /\ desired_state' = desired_state /\ last_poll' = last_poll
      /\ call' = call /\ observed' = observed /\ dropped' = dropped
      /\ asked' = asked /\ device' = device /\ heard' = heard
      /\ since_told' = since_told /\ since_alive' = since_alive /\ stalled' = stalled
  BY DEF timing_vars, vars, output, requests, ghosts
<1>2. HostTyped' /\ Desired' /\ Between'
  BY <1>1 DEF HostInv, HostTyped, Desired, Between
<1>3. Awaited' = Awaited  BY <1>1 DEF Awaited
<1>4. Standing' = Standing  BY <1>1, <1>3 DEF Standing, Context
<1>5. LinkGood'  BY <1>1, <1>4 DEF HostInv, LinkGood, Timely
<1> QED  BY <1>2, <1>5 DEF HostInv

LEMMA LetterIs ==
  ASSUME NEW a, NEW w \in Wires(a), NEW i \in 1 .. Len(w)
  PROVE  w[i].message \in Letters(a)
<1> DEFINE Frames == [sequence : Sequences, message : Letters(a)]
<1>1. w \in Seq(Frames)  BY DEF Wires
<1>2. ASSUME NEW f \in Frames PROVE f.message \in Letters(a)  OBVIOUS
<1> HIDE DEF Frames
<1>3. w[i] \in Frames  BY <1>1
<1> QED  BY <1>2, <1>3

\* HostInv is an invariant of the timed output: between calls an open session
\* has told the device what the engine asked for and has nothing queued, its
\* clocks are no younger than what they measure, and an answer that waits in it
\* was read after its request.
THEOREM HostInvariant == TimingSpec => []HostInv
<1>1. TimingInit => HostInv  BY HostInit
<1>2. HostInv /\ [TimingNext]_timing_vars => HostInv'  BY HostStep, HostStutter
<1> QED  BY <1>1, <1>2, PTL DEF TimingSpec

\* However calls queue states, refresh them, fail, close the port and connect
\* again, the bridge plays the state the engine asked for last (flush_states,
\* refresh_state and connect of BridgeOutput).
THEOREM NewestPlays == TimingSpec => BridgePlaysNewest
<1>1. HostInv => NewestIsDelivered
  <2>1. SUFFICES ASSUME HostInv, connection # Closed, asked \notin {Neutral, NoState}
                 PROVE  device = asked
    BY DEF NewestIsDelivered
  <2>2. Active(asked)  BY <2>1 DEF HostInv, HostTyped, Slots, Active
  <2>3. Delivered(Session(connection, last_poll), Standing) /\ connection.queued = << >>
    BY <2>1 DEF HostInv, LinkGood, Good
  <2>4. Standing.asked = asked /\ Standing.device = device  BY DEF Standing, Context
  <2>5. Session(connection, last_poll).c = connection /\ Session(connection, last_poll).told = NoState
    BY SessionIs
  <2> QED  BY <2>1, <2>2, <2>3, <2>4, <2>5 DEF Delivered
<1>2. HostInv /\ [TimingNext]_timing_vars => [WireIsNewest]_vars
  <2>1. SUFFICES ASSUME HostInv, TimingNext PROVE WireIsNewest
    BY DEF timing_vars
  <2>2. wire' \in Wires(asked')  BY <2>1, HostStep DEF NewestOnly
  <2>3. SUFFICES ASSUME NEW i \in 1 .. Len(wire'), wire'[i].message.type = "GamepadState"
                 PROVE  wire'[i].message.state = asked'
    BY DEF WireIsNewest
  <2>4. wire'[i].message \in Letters(asked')
    BY <2>2, <2>3, LetterIs
  <2> QED  BY <2>3, <2>4 DEF Letters, Hello, NeutralNow, Pong
<1> QED  BY <1>1, <1>2, HostInvariant, PTL DEF TimingSpec, BridgePlaysNewest

\* For every choice of the intervals, a host that services its output when
\* service() would act refreshes an active state within its interval plus one
\* service interval, and drops a silent device within a ping interval, a pong
\* timeout and two service intervals.
THEOREM DeadlinesHold == TimingSpec => []HostIsTimely
<1>1. HostInv => HostIsTimely
  <2>1. SUFFICES ASSUME HostInv, connection # Closed, ~stalled
                 PROVE  /\ asked \notin {Neutral, NoState} => since_told <= RefreshBound
                        /\ since_alive <= SilenceBound
    BY DEF HostIsTimely, StateIsRefreshed, SilentDeviceIsDropped
  <2>2. Timely(connection, last_poll) /\ asked \in Slots /\ since_told \in Nat /\ since_alive \in Nat
    BY <2>1 DEF HostInv, HostTyped, LinkGood
  <2>3. last_poll \in 0 .. ServiceTicks  BY <2>1, LinkIs
  <2>4. asked \notin {Neutral, NoState} => Active(asked)  BY <2>2 DEF Slots, Active
  <2> QED  BY <2>2, <2>3, <2>4, Limits DEF Timely, RefreshBound, SilenceBound
<1> QED  BY <1>1, HostInvariant, PTL

\* Whatever answers to earlier or abandoned requests arrive late, a control
\* request succeeds only on the very answer the device gave after the request
\* was written (send_request clears the slots that wait_for_control_response
\* and poll_firmware_install_receipt look at).
THEOREM SuccessIsAnswered == TimingSpec => AnswerWasGiven
<1>1. HostInv /\ [TimingNext]_timing_vars =>
        [outcome' # None /\ outcome'.verdict = "Ok" /\ outcome'.request.kind # "Info" =>
           Expected(outcome'.request) \in heard']_vars
  <2>1. SUFFICES ASSUME HostInv, TimingNext
                 PROVE  outcome' # None /\ outcome'.verdict = "Ok" /\ outcome'.request.kind # "Info" =>
                          Expected(outcome'.request) \in heard'
    BY DEF timing_vars
  <2>2. AnswerStep  BY <2>1, HostStep
  <2> QED  BY <2>2 DEF AnswerStep
<1> QED  BY <1>1, HostInvariant, PTL DEF TimingSpec, AnswerWasGiven
=============================================================================
