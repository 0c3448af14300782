------------------------- MODULE RecursionTheorems --------------------------
(***************************************************************************)
(* Lemmas for the models that fold a sequence with a recursive function:    *)
(* induction over numbers and sequences with a set in the place of a        *)
(* predicate, the parts of a sequence that is one element longer, and that  *)
(* the function a recursion over 0 .. n defines exists, is the only one, and *)
(* keeps what each of its steps keeps.                                      *)
(***************************************************************************)
EXTENDS Integers, Sequences, SequencesExt, SequenceTheorems, NaturalsInduction,
        WellFoundedInduction, TLAPS

\* Induction, for a set of numbers in the place of a predicate.
LEMMA SetInduction ==
  ASSUME NEW S, 0 \in S, \A n \in Nat : n \in S => n + 1 \in S
  PROVE  Nat \subseteq S
<1> DEFINE T == Nat \ S
<1>1. SUFFICES ASSUME T # {} PROVE FALSE
  OBVIOUS
<1>2. PICK least \in T : \A k \in T : ~(<<k, least>> \in OpToRel(<, Nat))
  BY <1>1, NatLessThanWellFounded, WFMin
<1>3. \A k \in Nat : k < least => <<k, least>> \in OpToRel(<, Nat)
  BY <1>2 DEF OpToRel
<1>4. least \in Nat /\ least # 0
  BY <1>2
<1>5. least - 1 \in Nat /\ least - 1 < least
  BY <1>4
<1>6. least - 1 \in S
  BY <1>2, <1>3, <1>5
<1>7. least - 1 + 1 \in S
  BY <1>5, <1>6
<1>8. least - 1 + 1 = least
  BY <1>4
<1> QED
  BY <1>2, <1>7, <1>8

\* A sequence is what is left of it without its last element, and that one.
LEMMA FrontAndLast ==
  ASSUME NEW M, NEW s \in Seq(M), s # << >>
  PROVE  /\ Front(s) \in Seq(M) /\ Last(s) \in M /\ s = Append(Front(s), Last(s))
         /\ Len(s) \in Nat /\ Len(s) > 0 /\ Len(Front(s)) = Len(s) - 1
         /\ \A i \in 1 .. Len(s) - 1 : Front(s)[i] = s[i]
<1> DEFINE n == Len(s) - 1
           f == SubSeq(s, 1, n)
           l == s[Len(s)]
           t == Append(f, l)
<1>1. Len(s) \in Nat /\ DOMAIN s = 1 .. Len(s) /\ Len(s) # 0
  BY LenProperties, EmptySeq
<1>2. n \in 0 .. Len(s) /\ Len(s) \in 1 .. Len(s) /\ n \in Int /\ n + 1 = Len(s)
  BY <1>1
<1>3. \A i \in 1 .. n : s[i] \in M
  BY <1>1, <1>2, ElementOfSeq
<1>4. /\ f \in Seq(M)
      /\ Len(f) = IF 1 <= n THEN n - 1 + 1 ELSE 0
      /\ \A i \in 1 .. n - 1 + 1 : f[i] = s[1 + i - 1]
  BY <1>2, <1>3, SubSeqProperties
<1>5. Front(s) = f /\ Last(s) = l
  BY DEF Front, Last
<1>6. l \in M
  BY <1>2, ElementOfSeq
<1> HIDE DEF f, l, n
<1>7. Len(f) = n
  BY <1>2, <1>4
<1>8. \A i \in 1 .. n : f[i] = s[i]
  <2>1. \A i \in 1 .. n : i \in 1 .. n - 1 + 1 /\ 1 + i - 1 = i
    BY <1>2
  <2> QED
    BY <1>4, <2>1
<1>9. /\ t \in Seq(M) /\ Len(t) = n + 1 /\ t[n + 1] = l
      /\ \A i \in 1 .. n : t[i] = f[i]
  BY <1>4, <1>6, <1>7, AppendProperties
<1> HIDE DEF t
<1>10. ASSUME NEW i \in 1 .. Len(t) PROVE t[i] = s[i]
  <2>1. CASE i = n + 1
    BY <1>2, <1>9, <2>1 DEF l
  <2>2. CASE i \in 1 .. n
    BY <1>8, <1>9, <2>2
  <2> QED
    BY <1>2, <1>9, <2>1, <2>2
<1>11. t = s
  BY <1>2, <1>9, <1>10, SeqEqual
<1>12. s = Append(Front(s), Last(s))
  BY <1>5, <1>11 DEF t
<1>13. /\ Front(s) \in Seq(M) /\ Last(s) \in M /\ Len(Front(s)) = n
       /\ \A i \in 1 .. n : Front(s)[i] = s[i]
  BY <1>4, <1>5, <1>6, <1>7, <1>8
<1>14. Len(s) > 0 /\ n = Len(s) - 1
  BY <1>1 DEF n
<1> QED
  BY <1>1, <1>12, <1>13, <1>14

\* What Append makes, element by element.
LEMMA OneMore ==
  ASSUME NEW M, NEW s \in Seq(M), NEW m \in M
  PROVE  /\ Append(s, m) \in Seq(M) /\ Append(s, m) # << >>
         /\ Front(Append(s, m)) = s /\ Last(Append(s, m)) = m
         /\ Len(s) \in Nat /\ Len(Append(s, m)) = Len(s) + 1
         /\ Append(s, m)[Len(s) + 1] = m
         /\ \A i \in 1 .. Len(s) : Append(s, m)[i] = s[i]
         /\ DOMAIN s = 1 .. Len(s) /\ DOMAIN Append(s, m) = 1 .. Len(s) + 1
<1> DEFINE t == Append(s, m)
<1>1. /\ t \in Seq(M) /\ t # << >> /\ Len(t) = Len(s) + 1
      /\ \A i \in 1 .. Len(s) : t[i] = s[i]
      /\ t[Len(s) + 1] = m
  BY AppendProperties
<1>2. DOMAIN t = 1 .. Len(t) /\ DOMAIN s = 1 .. Len(s) /\ Len(s) \in Nat
  BY <1>1, LenProperties
<1> HIDE DEF t
<1>3. Last(t) = m
  BY <1>1 DEF Last
<1>4. Front(t) = s
  <2>1. /\ Front(t) \in Seq(M) /\ Len(Front(t)) = Len(t) - 1
        /\ \A i \in 1 .. Len(t) - 1 : Front(t)[i] = t[i]
    BY <1>1, FrontAndLast
  <2>2. Len(t) - 1 = Len(s)
    BY <1>1, <1>2
  <2>3. \A i \in 1 .. Len(s) : Front(t)[i] = s[i]
    BY <1>1, <2>1, <2>2
  <2> QED
    BY <2>1, <2>2, <2>3, SeqEqual
<1> QED
  BY <1>1, <1>2, <1>3, <1>4 DEF t

\* Induction over sequences: what the empty one has, and every one keeps that
\* is an element longer, all of them have.
LEMMA SequenceSetInduction ==
  ASSUME NEW M, NEW S, << >> \in S,
         \A s \in Seq(M) : \A m \in M : s \in S => Append(s, m) \in S
  PROVE  Seq(M) \subseteq S
<1> DEFINE T == {n \in Nat : \A s \in Seq(M) : Len(s) = n => s \in S}
<1>1. 0 \in T
  <2>1. \A s \in Seq(M) : Len(s) = 0 => s = << >>
    BY EmptySeq
  <2> QED
    BY <2>1
<1>2. ASSUME NEW n \in Nat, n \in T PROVE n + 1 \in T
  <2>1. ASSUME NEW s \in Seq(M), Len(s) = n + 1 PROVE s \in S
    <3>1. s # << >>
      <4>1. Len(<< >>) = 0
        BY EmptySeq
      <4> QED
        BY <2>1, <4>1
    <3> DEFINE f == Front(s)
               l == Last(s)
    <3>2. f \in Seq(M) /\ l \in M /\ s = Append(f, l) /\ Len(f) = Len(s) - 1
      BY <3>1, FrontAndLast
    <3> HIDE DEF f, l
    <3>3. Len(f) = n
      BY <2>1, <3>2
    <3>4. f \in S
      BY <1>2, <3>2, <3>3
    <3> QED
      BY <3>2, <3>4
  <2> QED
    BY <2>1
<1> HIDE DEF T
<1>3. Nat \subseteq T
  BY <1>1, <1>2, SetInduction
<1>4. ASSUME NEW s \in Seq(M) PROVE s \in S
  <2>1. Len(s) \in Nat
    BY LenProperties
  <2>2. Len(s) \in T
    BY <1>3, <2>1
  <2> QED
    BY <2>2 DEF T
<1> QED
  BY <1>4

\* What a recursion over 0 .. n defines exists, whatever its step.
Moves(n, X) == [(1 .. n) \X X -> X]
Recursion(X, base, n, move, f) ==
  f \in [0 .. n -> X] /\ f[0] = base /\ \A i \in 1 .. n : f[i] = move[<<i, f[i - 1]>>]

LEMMA RecursionExists ==
  ASSUME NEW X, NEW base \in X, NEW n \in Nat, NEW move \in Moves(n, X)
  PROVE  \E f : Recursion(X, base, n, move, f)
<1> USE DEF Moves
<1> DEFINE Fits(k, f) == Recursion(X, base, k, move, f)
           S == {k \in Nat : k <= n => \E f : Fits(k, f)}
<1>1. 0 \in S
  <2> DEFINE f == [i \in 0 .. 0 |-> base]
  <2>1. Fits(0, f)
    BY DEF Recursion
  <2> QED
    BY <2>1
<1>2. ASSUME NEW k \in Nat, k \in S PROVE k + 1 \in S
  <2>1. SUFFICES ASSUME k + 1 <= n PROVE \E g : Fits(k + 1, g)
    OBVIOUS
  <2>2. PICK f : Fits(k, f)
    BY <1>2, <2>1
  <2> DEFINE next == move[<<k + 1, f[k]>>]
             g == [i \in 0 .. k + 1 |-> IF i <= k THEN f[i] ELSE next]
  <2>3. /\ f[k] \in X /\ k + 1 \in 1 .. n /\ f \in [0 .. k -> X] /\ f[0] = base
        /\ \A i \in 1 .. k : f[i] = move[<<i, f[i - 1]>>]
    BY <2>1, <2>2 DEF Recursion
  <2>4. next \in X
    BY <2>3
  <2> HIDE DEF next
  <2>5. g \in [0 .. k + 1 -> X] /\ g[0] = base
    BY <2>3, <2>4
  <2>6. ASSUME NEW i \in 1 .. k + 1 PROVE g[i] = move[<<i, g[i - 1]>>]
    <3>1. CASE i <= k
      <4>1. g[i] = f[i] /\ g[i - 1] = f[i - 1] /\ i \in 1 .. k
        BY <3>1
      <4> QED
        BY <2>3, <4>1
    <3>2. CASE i = k + 1
      <4>1. g[i] = next /\ g[k] = f[k] /\ i - 1 = k
        BY <3>2
      <4>2. g[i - 1] = f[k]
        BY <4>1
      <4> HIDE DEF g
      <4> QED
        BY <3>2, <4>1, <4>2 DEF next
    <3> QED
      BY <3>1, <3>2
  <2> HIDE DEF g
  <2>7. Fits(k + 1, g)
    BY <2>5, <2>6 DEF Recursion
  <2> QED
    BY <2>7
<1> HIDE DEF S
<1>3. n \in S
  BY <1>1, <1>2, SetInduction
<1>4. \E f : Fits(n, f)
  BY <1>3 DEF S
<1> QED
  BY <1>4

\* Two of them that take the same steps agree.
LEMMA RecursionAgrees ==
  ASSUME NEW k \in Nat, NEW f, NEW g, f[0] = g[0],
         \A i \in 1 .. k : f[i - 1] = g[i - 1] => f[i] = g[i]
  PROVE  f[k] = g[k]
<1> DEFINE S == {i \in Nat : i <= k => f[i] = g[i]}
<1>1. 0 \in S
  OBVIOUS
<1>2. ASSUME NEW i \in Nat, i \in S PROVE i + 1 \in S
  <2>1. ASSUME i + 1 <= k PROVE f[i + 1] = g[i + 1]
    <3>1. i + 1 \in 1 .. k /\ i + 1 - 1 = i
      BY <2>1
    <3>2. f[i + 1 - 1] = g[i + 1 - 1]
      BY <1>2, <3>1
    <3> QED
      BY <3>1, <3>2
  <2> QED
    BY <2>1
<1> HIDE DEF S
<1>3. k \in S
  BY <1>1, <1>2, SetInduction
<1> QED
  BY <1>3 DEF S

\* A recursion on an element that is smaller each time: it ends on those of
\* Ended, and goes on with next[b] from any other b.
Descends(S, Ended, size, next) ==
  /\ size \in [S -> Nat] /\ next \in [S -> S]
  /\ \A b \in S : b \notin Ended => size[next[b]] < size[b]
Unfolds(Ended, base, next, step, b, f) ==
  f[b] = IF b \in Ended THEN base[b] ELSE step[<<b, f[next[b]]>>]

\* The function such a recursion defines exists.
LEMMA DescentExists ==
  ASSUME NEW S, NEW X, NEW Ended, NEW size, NEW next, Descends(S, Ended, size, next),
         NEW base \in [S -> X], NEW step \in [S \X X -> X]
  PROVE  \E f : f \in [S -> X] /\ \A b \in S : Unfolds(Ended, base, next, step, b, f)
<1> DEFINE Fits(n, f) == /\ f \in [S -> X]
                         /\ \A b \in S : size[b] < n => Unfolds(Ended, base, next, step, b, f)
           Agree(n, f, g) == \A b \in S : size[b] < n => f[b] = g[b]
<1>1. /\ \A b \in S : size[b] \in Nat /\ next[b] \in S
      /\ \A b \in S : b \notin Ended => size[next[b]] < size[b]
  BY DEF Descends
<1>2. \A b \in S : base[b] \in X
  OBVIOUS
<1>3. \A b \in S, x \in X : step[<<b, x>>] \in X
  OBVIOUS
\* Up to each size there is one.
<1>4. \A n \in Nat : \E f : Fits(n, f)
  <2> DEFINE T == {n \in Nat : \E f : Fits(n, f)}
  <2>1. 0 \in T
    <3>1. Fits(0, base)
      BY <1>1
    <3> QED
      BY <3>1
  <2>2. ASSUME NEW n \in Nat, n \in T PROVE n + 1 \in T
    <3>1. PICK f : Fits(n, f)
      BY <2>2
    <3> DEFINE more(b) == IF b \in Ended THEN base[b] ELSE step[<<b, f[next[b]]>>]
               g == [b \in S |-> IF size[b] < n THEN f[b] ELSE more(b)]
    <3>2. f \in [S -> X] /\ \A b \in S : size[b] < n => f[b] = more(b)
      BY <3>1 DEF Unfolds
    <3>3. \A b \in S : more(b) \in X
      BY <1>1, <1>2, <1>3, <3>2
    <3>4. g \in [S -> X]
      BY <3>2, <3>3
    <3>5. ASSUME NEW b \in S PROVE g[b] = more(b)
      BY <3>2
    <3>6. ASSUME NEW b \in S, size[b] < n + 1 PROVE Unfolds(Ended, base, next, step, b, g)
      <4>1. CASE b \in Ended
        BY <3>5, <4>1 DEF Unfolds
      <4>2. CASE b \notin Ended
        <5>1. next[b] \in S /\ size[next[b]] < n
          BY <1>1, <3>6, <4>2
        <5>2. g[next[b]] = f[next[b]]
          BY <5>1
        <5>3. g[b] = step[<<b, f[next[b]]>>]
          BY <3>5, <4>2
        <5> HIDE DEF g, more
        <5> QED
          BY <4>2, <5>2, <5>3 DEF Unfolds
      <4> QED
        BY <4>1, <4>2
    <3> HIDE DEF g
    <3>7. Fits(n + 1, g)
      BY <3>4, <3>6
    <3> QED
      BY <3>7
  <2> HIDE DEF T
  <2>3. Nat \subseteq T
    BY <2>1, <2>2, SetInduction
  <2> QED
    BY <2>3 DEF T
\* Two of them agree as far as both go.
<1>5. ASSUME NEW f, NEW g, NEW m \in Nat, NEW k \in Nat, Fits(m, f), Fits(k, g)
      PROVE  \A b \in S : size[b] < m /\ size[b] < k => f[b] = g[b]
  <2> DEFINE T == {n \in Nat : n <= m /\ n <= k => Agree(n, f, g)}
  <2>1. 0 \in T
    BY <1>1
  <2>2. ASSUME NEW n \in Nat, n \in T PROVE n + 1 \in T
    <3>1. ASSUME n + 1 <= m, n + 1 <= k, NEW b \in S, size[b] < n + 1 PROVE f[b] = g[b]
      <4>1. size[b] \in Nat /\ size[b] < m /\ size[b] < k /\ n <= m /\ n <= k
        BY <1>1, <3>1
      <4>2. Unfolds(Ended, base, next, step, b, f) /\ Unfolds(Ended, base, next, step, b, g)
        BY <1>5, <4>1
      <4>3. b \notin Ended => f[next[b]] = g[next[b]]
        <5>1. b \notin Ended => next[b] \in S /\ size[next[b]] \in Nat /\ size[next[b]] < n
          BY <1>1, <3>1, <4>1
        <5> QED
          BY <2>2, <4>1, <5>1
      <4> QED
        BY <4>2, <4>3 DEF Unfolds
    <3> QED
      BY <3>1
  <2> HIDE DEF T
  <2>3. Nat \subseteq T
    BY <2>1, <2>2, SetInduction
  <2>4. ASSUME NEW b \in S, size[b] < m, size[b] < k PROVE f[b] = g[b]
    <3> DEFINE n == IF m < k THEN m ELSE k
    <3>1. n \in Nat /\ n <= m /\ n <= k /\ size[b] < n
      BY <1>1, <2>4
    <3> HIDE DEF n
    <3>2. n \in T
      BY <2>3, <3>1
    <3> QED
      BY <3>1, <3>2 DEF T
  <2> QED
    BY <2>4
<1> DEFINE Of(n) == CHOOSE f : Fits(n, f)
           h == [b \in S |-> Of(size[b] + 1)[b]]
<1>6. \A n \in Nat : Fits(n, Of(n))
  BY <1>4
<1> HIDE DEF Fits, Of
<1>7. h \in [S -> X]
  <2>1. ASSUME NEW b \in S PROVE Of(size[b] + 1)[b] \in X
    <3>1. size[b] + 1 \in Nat
      BY <1>1
    <3>2. Of(size[b] + 1) \in [S -> X]
      BY <1>6, <3>1 DEF Fits
    <3> QED
      BY <3>2
  <2> QED
    BY <2>1
<1>8. ASSUME NEW b \in S PROVE Unfolds(Ended, base, next, step, b, h)
  <2> DEFINE n == size[b] + 1
  <2>1. n \in Nat /\ size[b] < n /\ Fits(n, Of(n)) /\ h[b] = Of(n)[b]
    BY <1>1, <1>6
  <2>2. Unfolds(Ended, base, next, step, b, Of(n))
    BY <2>1 DEF Fits
  <2>3. b \notin Ended => Of(n)[next[b]] = h[next[b]]
    <3> DEFINE c == next[b]
               k == size[c] + 1
    <3>1. SUFFICES ASSUME b \notin Ended PROVE Of(n)[c] = h[c]
      OBVIOUS
    <3>2. c \in S /\ k \in Nat /\ size[c] < n /\ size[c] < k
      BY <1>1, <2>1, <3>1
    <3>3. Fits(k, Of(k)) /\ h[c] = Of(k)[c]
      BY <1>6, <3>2
    <3> HIDE DEF n, k, h, c
    <3>4. Of(n)[c] = Of(k)[c]
      BY <1>5, <2>1, <3>2, <3>3
    <3> QED
      BY <3>3, <3>4
  <2> HIDE DEF n, h
  <2> QED
    BY <2>1, <2>2, <2>3 DEF Unfolds
<1> HIDE DEF h
<1> QED
  BY <1>7, <1>8

LEMMA LeastNumber ==
  ASSUME NEW T, T \subseteq Nat, T # {}
  PROVE  Min(T) \in T /\ \A n \in T : Min(T) <= n
<1>1. PICK least \in T : \A k \in T : ~(<<k, least>> \in OpToRel(<, Nat))
  BY NatLessThanWellFounded, WFMin
<1>2. \A n \in Nat : n < least => <<n, least>> \in OpToRel(<, Nat)
  BY <1>1 DEF OpToRel
<1>3. ASSUME NEW n \in T PROVE least <= n
  <2>1. n \in Nat /\ least \in Nat
    BY <1>1
  <2>2. ~(n < least)
    BY <1>1, <1>2, <2>1
  <2> QED
    BY <2>1, <2>2
<1> QED
  BY <1>3 DEF Min

\* What a recursion over 0 .. n defines exists and stays in the set of its
\* index, if each step leads from one of these sets into the next.
LeadsOn(n, Good, step) ==
  \A i \in 1 .. n : \A x \in Good[i - 1] : step[<<i, x>>] \in Good[i]
StaysIn(n, Good, base, step, f) ==
  /\ f = [i \in 0 .. n |-> f[i]] /\ f[0] = base
  /\ \A i \in 1 .. n : f[i] = step[<<i, f[i - 1]>>]
  /\ \A i \in 0 .. n : f[i] \in Good[i]

LEMMA RecursionKeeps ==
  ASSUME NEW n \in Nat, NEW Good, NEW base, base \in Good[0], NEW step, LeadsOn(n, Good, step)
  PROVE  \E f : StaysIn(n, Good, base, step, f)
<1> USE DEF LeadsOn
<1> DEFINE X == UNION {Good[i] : i \in 0 .. n}
           move == [q \in (1 .. n) \X X |-> IF step[q] \in X THEN step[q] ELSE base]
<1>1. base \in X
  OBVIOUS
<1>2. \A i \in 0 .. n : Good[i] \subseteq X
  OBVIOUS
<1> HIDE DEF X
<1>3. move \in Moves(n, X)
  BY <1>1 DEF Moves
<1>4. \A i \in 1 .. n : \A x \in X : step[<<i, x>>] \in X => move[<<i, x>>] = step[<<i, x>>]
  OBVIOUS
<1> HIDE DEF move
<1>5. PICK f : Recursion(X, base, n, move, f)
  BY <1>1, <1>3, RecursionExists
<1>6. f \in [0 .. n -> X] /\ f[0] = base /\ \A i \in 1 .. n : f[i] = move[<<i, f[i - 1]>>]
  BY <1>5 DEF Recursion
<1> DEFINE S == {k \in Nat : k <= n => f[k] \in Good[k]}
<1>7. 0 \in S
  BY <1>6
<1>8. ASSUME NEW k \in Nat, k \in S PROVE k + 1 \in S
  <2>1. SUFFICES ASSUME k + 1 <= n PROVE f[k + 1] \in Good[k + 1]
    OBVIOUS
  <2>2. k + 1 \in 1 .. n /\ k + 1 \in 0 .. n /\ k \in 0 .. n /\ k + 1 - 1 = k
    BY <2>1
  <2>3. f[k] \in Good[k]
    BY <1>8, <2>2
  <2>4. f[k + 1] = move[<<k + 1, f[k]>>]
    BY <1>6, <2>2
  <2>5. step[<<k + 1, f[k]>>] \in Good[k + 1]
    BY <2>2, <2>3
  <2> QED
    BY <1>2, <1>4, <2>2, <2>3, <2>4, <2>5
<1>9. \A i \in 0 .. n : f[i] \in Good[i]
  <2>1. Nat \subseteq S
    BY <1>7, <1>8, SetInduction
  <2> QED
    BY <2>1
<1>10. ASSUME NEW i \in 1 .. n PROVE f[i] = step[<<i, f[i - 1]>>]
  <2>1. i - 1 \in 0 .. n
    OBVIOUS
  <2>2. f[i - 1] \in Good[i - 1]
    BY <1>9, <2>1
  <2>3. step[<<i, f[i - 1]>>] \in Good[i]
    BY <2>2
  <2> QED
    BY <1>2, <1>4, <1>6, <2>1, <2>2, <2>3
<1> QED
  BY <1>6, <1>9, <1>10 DEF StaysIn

\* The same of a function that is known to take such steps.
LEMMA StepsKeep ==
  ASSUME NEW n \in Nat, NEW Good, NEW f, f[0] \in Good[0],
         \A i \in 1 .. n : f[i - 1] \in Good[i - 1] => f[i] \in Good[i]
  PROVE  f[n] \in Good[n]
<1> DEFINE S == {k \in Nat : k <= n => f[k] \in Good[k]}
<1>1. 0 \in S
  OBVIOUS
<1>2. ASSUME NEW k \in Nat, k \in S PROVE k + 1 \in S
  <2>1. SUFFICES ASSUME k + 1 <= n PROVE f[k + 1] \in Good[k + 1]
    OBVIOUS
  <2>2. k + 1 \in 1 .. n /\ k + 1 - 1 = k
    BY <2>1
  <2> QED
    BY <1>2, <2>1, <2>2
<1>3. Nat \subseteq S
  BY <1>1, <1>2, SetInduction
<1> QED
  BY <1>3
=============================================================================
