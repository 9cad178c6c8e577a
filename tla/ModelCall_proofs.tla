-------------------------- MODULE ModelCall_proofs --------------------------
(***************************************************************************)
(* Proofs about ModelCall for all texts, vocabularies, hints, numbers of   *)
(* retries and behaviours of the provider: one charge at most and a        *)
(* bounded sleep; what the PII rail recognises never goes out whole; the   *)
(* injection rail strips its findings and nothing else.                    *)
(***************************************************************************)
EXTENDS ModelCall, Induction, FiniteSetTheorems, SequenceTheorems

----------------------------------------------------------------------------
(* The bounded call. *)

(* No delay is longer than the cap, whatever the provider asks for.        *)
LEMMA DelayIsCapped ==
    ASSUME NEW hint \in Hints, attempt \in Nat
    PROVE  Delay(hint) \in 0..HintCap
<1>1. hint \in Int
  BY CallAssumption
<1>2. RetryAfter(hint) \in 0..HintCap
  BY <1>1 DEF RetryAfter, HintCap
<1>3. Backoff \in 1..8
  <2>1. CASE attempt < 3
    <3>1. attempt \in {0, 1, 2}
      BY <2>1
    <3> QED
      BY <2>1, <3>1 DEF Backoff
  <2>2. CASE ~(attempt < 3)
    BY <2>2 DEF Backoff
  <2> QED
    BY <2>1, <2>2
<1> QED
  BY <1>2, <1>3 DEF Delay, HintCap

(* Nothing is charged for before the completion, which is the last request *)
(* of the call, and every retry adds one delay at most.                    *)
CallInv ==
    /\ attempt \in Nat
    /\ slept \in Nat /\ slept <= attempt * HintCap
    /\ billed \in {0, 1}
    /\ stage \in {"asked", "screened", "calling"} => billed = 0
    /\ stage \in {"completed", "answered"} => billed = 1

LEMMA CallInvInit == Init => CallInv
  BY DEF Init, CallInv, HintCap

LEMMA CallInvNext == CallInv /\ [Next]_vars => CallInv'
<1> SUFFICES ASSUME CallInv, [Next]_vars
             PROVE  CallInv'
  OBVIOUS
<1> USE DEF CallInv
<1>1. CASE Screen
  BY <1>1 DEF Screen, Degraded, Moves
<1>2. CASE Scrub
  BY <1>2 DEF Scrub, Degraded, Moves
<1>3. CASE NoKey
  BY <1>3 DEF NoKey, Degraded
<1>4. CASE Deliver
  BY <1>4 DEF Deliver, Degraded, Moves
<1>5. ASSUME NEW r \in Refusal, Retry(r)
      PROVE  CallInv'
  <2>1. r.hint \in Hints
    BY DEF Refusal
  <2>2. Delay(r.hint) \in 0..HintCap
    BY <2>1, DelayIsCapped
  <2> QED
    BY <1>5, <2>2 DEF Retry, HintCap
<1>6. ASSUME NEW r \in Refusal, GiveUp(r)
      PROVE  CallInv'
  BY <1>6 DEF GiveUp, Degraded, Leaves, HintCap
<1>7. ASSUME NEW charged \in {0, 1}, TransportError(charged)
      PROVE  CallInv'
  BY <1>7 DEF TransportError, Degraded, Leaves, HintCap
<1>8. ASSUME NEW form, NEW text, NEW finish, Complete(form, text, finish)
      PROVE  CallInv'
  BY <1>8 DEF Complete, Moves, Leaves, HintCap
<1>9. CASE UNCHANGED vars
  BY <1>9 DEF vars
<1> QED
  BY <1>1, <1>2, <1>3, <1>4, <1>5, <1>6, <1>7, <1>8, <1>9 DEF Next

(* Every question ends with one charge at most, an answer with exactly     *)
(* one, and never slept more than the capped hint a retry                  *)
(* (GeminiProvider.complete).                                              *)
THEOREM CallIsBounded == Spec => []BoundedCall
<1>1. CallInv => BoundedCall
  BY DEF CallInv, BoundedCall, HintCap
<1> QED
  BY <1>1, CallInvInit, CallInvNext, PTL DEF Spec

----------------------------------------------------------------------------
(* Sorted spans: all of them, by their starts. *)
Ordered(q, n, S) ==
    /\ q \in [1..n -> S]
    /\ \A i, j \in 1..n : i < j => q[i][1] <= q[j][1]
    /\ \A x \in S : \E i \in 1..n : q[i] = x

(* The injection rail's sort orders its spans by their starts.             *)
LEMMA SortedOrders ==
    ASSUME NEW S, S \subseteq Int \X Int, IsFiniteSet(S)
    PROVE  Cardinality(S) \in Nat /\ Ordered(Sorted(S, Precedes), Cardinality(S), S)
<1> DEFINE below == [x \in S |-> {y \in S : Precedes(y, x)}]
           n == Cardinality(S)
           q == Sorted(S, Precedes)
<1>0. \A x \in S : x[1] \in Int /\ x[2] \in Int /\ x = <<x[1], x[2]>>
  OBVIOUS
<1>1. /\ n \in Nat
      /\ \A x \in S : Cardinality(below[x]) \in 0..(n - 1)
      /\ \A x, y \in S : Cardinality(below[x]) < Cardinality(below[y]) <=> x \in below[y]
      /\ \A k \in 1..n : \E x \in S : Cardinality(below[x]) = k - 1
  <2>1. below \in [S -> SUBSET S]
    OBVIOUS
  <2>2. \A x \in S : x \notin below[x]
    BY <1>0 DEF Precedes
  <2>3. ASSUME NEW x \in S, NEW y \in S, x \in below[y] PROVE below[x] \subseteq below[y]
    BY <1>0, <2>3 DEF Precedes
  <2>4. \A x, y \in S : x = y \/ x \in below[y] \/ y \in below[x]
    BY <1>0 DEF Precedes
  <2> HIDE DEF below
  <2> QED
    BY <2>1, <2>2, <2>3, <2>4, Ranked
<1>2. ASSUME NEW k \in 1..n PROVE q[k] \in S /\ Cardinality(below[q[k]]) = k - 1
  <2>1. q[k] = CHOOSE x \in S : Cardinality({y \in S : Precedes(y, x)}) = k - 1
    BY DEF Sorted
  <2>2. \A x \in S : below[x] = {y \in S : Precedes(y, x)}
    OBVIOUS
  <2>3. PICK x \in S : Cardinality({y \in S : Precedes(y, x)}) = k - 1
    BY <1>1, <2>2
  <2> HIDE DEF below, q
  <2> QED
    BY <2>1, <2>2, <2>3
<1>7. q = [k \in 1..n |-> q[k]]
  BY DEF Sorted
<1>3. \A x, y \in S : /\ x \in below[y] => x[1] <= y[1]
                      /\ x = y \/ x \in below[y] \/ y \in below[x]
  BY <1>0 DEF Precedes
<1> HIDE DEF below, q
<1>5. ASSUME NEW i \in 1..n, NEW j \in 1..n, i < j PROVE q[i][1] <= q[j][1]
  <2>1. Cardinality(below[q[i]]) = i - 1 /\ Cardinality(below[q[j]]) = j - 1
    BY <1>2
  <2>2. Cardinality(below[q[i]]) < Cardinality(below[q[j]])
    BY <1>1, <1>5, <2>1
  <2>3. q[i] \in below[q[j]]
    BY <1>1, <1>2, <2>2
  <2> QED
    BY <1>2, <1>3, <2>3
<1>6. ASSUME NEW x \in S PROVE \E i \in 1..n : q[i] = x
  <2> DEFINE i == Cardinality(below[x]) + 1
  <2>1. i \in 1..n
    BY <1>1
  <2>2. q[i] \in S /\ Cardinality(below[q[i]]) = Cardinality(below[x])
    BY <1>1, <1>2, <2>1
  <2>3. q[i] \notin below[x] /\ x \notin below[q[i]]
    BY <1>1, <2>2
  <2> QED
    BY <1>3, <2>1, <2>2, <2>3
<1>8. q \in [1..n -> S]
  BY <1>2, <1>7
<1> QED
  BY <1>1, <1>5, <1>6, <1>8 DEF Ordered, q

----------------------------------------------------------------------------
(* The spans taken from left to right. *)

(* A span begins in the text, ends in it or behind it, and is not empty.   *)
LEMMA SpanFacts ==
    ASSUME NEW text, Len(text) \in Nat
    PROVE  \A s \in Spans(text) : /\ s = <<s[1], s[2]>>
                                  /\ s[1] \in 1..Len(text) /\ s[2] \in 2..(Len(text) + 1)
                                  /\ s[1] < s[2] /\ s[1] \in Positions(s)
  BY DEF Spans, Positions

(* Of some spans one is first, and it begins no later than the others.     *)
LEMMA FirstExists ==
    ASSUME NEW text, Len(text) \in Nat, NEW S, S \subseteq Spans(text)
    PROVE  /\ \A s \in First(S) : s \in S /\ \A t \in S : s[1] <= t[1]
           /\ S # {} => First(S) # {}
<1> USE SpanFacts
<1>1. ASSUME NEW s \in First(S) PROVE s \in S /\ \A t \in S : s[1] <= t[1]
  BY DEF First, Before
<1>2. ASSUME S # {} PROVE First(S) # {}
  <2> DEFINE T == {s[1] : s \in S}
  <2>1. PICK s \in S : \A t \in S : s[1] <= t[1]
    <3>1. T \subseteq Nat /\ T # {}
      BY <1>2
    <3>2. PICK a \in T : \A b \in T : a <= b
      BY <3>1, LeastExists
    <3>3. \A t \in S : a <= t[1]
      BY <3>2
    <3> QED
      BY <3>2, <3>3
  <2> DEFINE U == {Len(text) + 1 - t[2] : t \in {r \in S : r[1] = s[1]}}
  <2>2. PICK t \in S : t[1] = s[1] /\ \A r \in S : r[1] = s[1] => r[2] <= t[2]
    <3>1. U \subseteq Nat /\ U # {}
      OBVIOUS
    <3>2. PICK a \in U : \A b \in U : a <= b
      BY <3>1, LeastExists
    <3>3. PICK t \in S : t[1] = s[1] /\ a = Len(text) + 1 - t[2]
      BY <3>2
    <3>4. ASSUME NEW r \in S, r[1] = s[1] PROVE r[2] <= t[2]
      <4>1. a <= Len(text) + 1 - r[2]
        BY <3>2, <3>4
      <4> QED
        BY <3>3, <4>1
    <3> QED
      BY <3>3, <3>4
  <2>3. ASSUME NEW r \in S \ {t} PROVE Before(t, r)
    <3>1. s[1] <= r[1] /\ t[1] = s[1] /\ (r[1] = s[1] => r[2] <= t[2])
      BY <2>1, <2>2
    <3>2. r # t /\ r = <<r[1], r[2]>> /\ t = <<t[1], t[2]>>
      OBVIOUS
    <3>3. r[1] # t[1] \/ r[2] # t[2]
      BY <3>2
    <3>4. /\ r[1] \in Int /\ r[2] \in Int /\ t[1] \in Int /\ t[2] \in Int
      OBVIOUS
    <3> QED
      BY <3>1, <3>3, <3>4 DEF Before
  <2> QED
    BY <2>3 DEF First
<1> QED
  BY <1>1, <1>2

(* The next span from a cursor on, and what it is to take them all.        *)
Onward(spans, c) == First({t \in spans : t[1] >= c})

IsTake(take, spans) ==
    \A c \in Int : \A x : x \in take[c] <=> \E s \in Onward(spans, c) : x = s \/ x \in take[s[2]]

(* The recursion of Taken has a solution: the least fixed point of its     *)
(* step, the intersection of all that is closed under it.                  *)
LEMMA TakenBy ==
    ASSUME NEW text, Len(text) \in Nat, NEW spans, spans \subseteq Spans(text), NEW from
    PROVE  \E take : IsTake(take, spans) /\ Taken(spans, from) = take[from]
<1> DEFINE F(g) == [c \in Int |-> {x \in spans : \E s \in Onward(spans, c) : x = s \/ x \in g[s[2]]}]
           Maps == [Int -> SUBSET spans]
           Closed == {g \in Maps : \A c \in Int : F(g)[c] \subseteq g[c]}
           least == [c \in Int |-> {x \in spans : \A g \in Closed : x \in g[c]}]
<1>1. \A c \in Int : \A s \in Onward(spans, c) : s \in spans /\ s[2] \in Int
  <2> TAKE c \in Int
  <2> DEFINE S == {t \in spans : t[1] >= c}
  <2>1. S \subseteq Spans(text) /\ S \subseteq spans
    OBVIOUS
  <2>2. First(S) \subseteq S
    BY <2>1, FirstExists
  <2> QED
    BY <2>1, <2>2, SpanFacts DEF Onward
<1>2. \A g \in Maps : F(g) \in Maps
  OBVIOUS
<1>3. least \in Maps
  OBVIOUS
<1>4. ASSUME NEW c \in Int PROVE F(least)[c] \subseteq least[c]
  <2> SUFFICES ASSUME NEW x \in F(least)[c], NEW g \in Closed PROVE x \in g[c]
    OBVIOUS
  <2>1. PICK s \in Onward(spans, c) : x = s \/ x \in least[s[2]]
    OBVIOUS
  <2>2. x = s \/ x \in g[s[2]]
    BY <1>1, <2>1
  <2>3. x \in F(g)[c]
    BY <2>2
  <2> QED
    BY <2>3
<1>5. F(least) \in Closed
  <2> SUFFICES ASSUME NEW c \in Int, NEW x \in F(F(least))[c] PROVE x \in F(least)[c]
    BY <1>2, <1>3
  <2>1. PICK s \in Onward(spans, c) : x = s \/ x \in F(least)[s[2]]
    OBVIOUS
  <2>2. x = s \/ x \in least[s[2]]
    BY <1>1, <1>4, <2>1
  <2> QED
    BY <2>2
<1>6. \A c \in Int : least[c] = F(least)[c]
  <2> TAKE c \in Int
  <2>1. least[c] \subseteq F(least)[c]
    BY <1>5
  <2> QED
    BY <1>4, <2>1
<1>7. \A c \in Int : \A x : x \in least[c] <=> \E s \in Onward(spans, c) : x = s \/ x \in least[s[2]]
  <2> SUFFICES ASSUME NEW c \in Int, NEW x
               PROVE  x \in least[c] <=> \E s \in Onward(spans, c) : x = s \/ x \in least[s[2]]
    OBVIOUS
  <2>1. x \in least[c] <=> x \in spans /\ \E s \in Onward(spans, c) : x = s \/ x \in least[s[2]]
    <3>1. least[c] = F(least)[c]
      BY <1>6
    <3> HIDE DEF least
    <3> QED
      BY <3>1
  <2>2. \A s \in Onward(spans, c) : s \in spans /\ least[s[2]] \subseteq spans
    BY <1>1
  <2> HIDE DEF least
  <2> QED
    BY <2>1, <2>2
<1> HIDE DEF least
<1> DEFINE G(g) == [c \in Int |-> UNION {{s} \cup g[s[2]] : s \in Onward(spans, c)}]
<1>8. least = G(least)
  <2>1. \A c \in Int : \A x : x \in G(least)[c] <=> \E s \in Onward(spans, c) : x = s \/ x \in least[s[2]]
    OBVIOUS
  <2>2. \A c \in Int : least[c] = G(least)[c]
    BY <1>7, <2>1
  <2>3. DOMAIN least = Int /\ DOMAIN G(least) = Int /\ least = [c \in Int |-> least[c]]
    BY <1>3
  <2> QED
    BY <2>2, <2>3
<1> DEFINE take == CHOOSE g : g = G(g)
<1>9. take = G(take)
  BY <1>8
<1>10. Taken(spans, from) = take[from]
  BY DEF Taken, Onward
<1> HIDE DEF take
<1>11. IsTake(take, spans)
  <2> SUFFICES ASSUME NEW c \in Int, NEW x
               PROVE  x \in take[c] <=> \E s \in Onward(spans, c) : x = s \/ x \in take[s[2]]
    BY DEF IsTake
  <2>1. take[c] = UNION {{s} \cup take[s[2]] : s \in Onward(spans, c)}
    BY <1>9
  <2> QED
    BY <2>1
<1> QED
  BY <1>10, <1>11

(* All that is taken are spans there were, and where a span begins         *)
(* something is taken: it or one that began before and is not over.        *)
LEMMA TakenCovers ==
    ASSUME NEW text, Len(text) \in Nat, NEW spans, spans \subseteq Spans(text)
    PROVE  /\ Taken(spans, 1) \subseteq spans
           /\ \A s \in spans : \E t \in Taken(spans, 1) : s[1] \in Positions(t)
<1>1. PICK take : IsTake(take, spans) /\ Taken(spans, 1) = take[1]
  BY TakenBy
<1> DEFINE L == Len(text)
           P(c) == /\ take[c] \subseteq spans
                   /\ \A s \in spans : s[1] >= c => \E t \in take[c] : s[1] \in Positions(t)
           K == {k \in 0..(L + 1) : \A c \in Int : c >= L + 1 - k => P(c)}
<1>2. ASSUME NEW c \in Int
      PROVE  /\ \A s \in Onward(spans, c) : s \in spans /\ s[1] >= c /\ \A t \in spans : t[1] >= c => s[1] <= t[1]
             /\ \A s \in spans : s[1] >= c => Onward(spans, c) # {}
  <2> DEFINE S == {t \in spans : t[1] >= c}
  <2>1. S \subseteq Spans(text)
    OBVIOUS
  <2>2. \A s \in First(S) : s \in S /\ \A t \in S : s[1] <= t[1]
    BY <2>1, FirstExists
  <2>3. S # {} => First(S) # {}
    BY <2>1, FirstExists
  <2> QED
    BY <2>2, <2>3 DEF Onward
<1>3. 0 \in K
  <2> SUFFICES ASSUME NEW c \in Int, c >= L + 1 PROVE P(c)
    OBVIOUS
  <2>1. \A s \in spans : ~(s[1] >= c)
    BY SpanFacts
  <2>2. Onward(spans, c) = {}
    BY <1>2, <2>1
  <2>3. take[c] = {}
    BY <1>1, <2>2 DEF IsTake
  <2> QED
    BY <2>1, <2>3
<1>4. ASSUME NEW k \in 1..(L + 1), k - 1 \in K PROVE k \in K
  <2> SUFFICES ASSUME NEW c \in Int, c >= L + 1 - k PROVE P(c)
    OBVIOUS
  <2>1. CASE c >= L + 1 - (k - 1)
    BY <1>4, <2>1
  <2>2. CASE c = L + 1 - k
    <3>1. ASSUME NEW s \in Onward(spans, c) PROVE s \in spans /\ P(s[2])
      <4>1. s \in spans /\ s[1] >= c
        BY <1>2
      <4>2. s[2] \in Int /\ s[2] > c
        BY <4>1, SpanFacts
      <4>3. s[2] >= L + 1 - (k - 1)
        BY <2>2, <4>2
      <4> QED
        BY <1>4, <4>1, <4>2, <4>3
    <3>2. take[c] \subseteq spans
      BY <1>1, <3>1 DEF IsTake
    <3>3. ASSUME NEW s \in spans, s[1] >= c PROVE \E t \in take[c] : s[1] \in Positions(t)
      <4>1. PICK f \in Onward(spans, c) : f \in spans /\ f[1] <= s[1]
        BY <1>2, <3>3
      <4>2. f \in take[c] /\ take[f[2]] \subseteq take[c]
        BY <1>1, <4>1 DEF IsTake
      <4>3. CASE s[1] < f[2]
        <5>1. s[1] \in Positions(f)
          BY <4>1, <4>3, SpanFacts DEF Positions
        <5> QED
          BY <4>2, <5>1
      <4>4. CASE ~(s[1] < f[2])
        <5>1. s[1] >= f[2]
          BY <4>1, <4>4, SpanFacts
        <5>2. \E t \in take[f[2]] : s[1] \in Positions(t)
          BY <3>1, <5>1
        <5> QED
          BY <4>2, <5>2
      <4> QED
        BY <4>3, <4>4
    <3> QED
      BY <3>2, <3>3
  <2> QED
    BY <2>1, <2>2
<1>5. 0..(L + 1) \subseteq K
  <2>1. L + 1 \in Nat
    OBVIOUS
  <2> HIDE DEF K, L
  <2> QED
    BY <1>3, <1>4, <2>1, UpTo
<1>6. L \in K
  <2> HIDE DEF K
  <2> QED
    BY <1>5
<1>7. P(1)
  BY <1>6
<1> QED
  BY <1>1, <1>7, SpanFacts

(* What is found in a text. *)
LEMMA MatchesFacts ==
    ASSUME NEW text, Len(text) \in Nat, NEW words
    PROVE  /\ Occurrences(text, words) \subseteq Spans(text)
           /\ Matches(text, words) \subseteq Occurrences(text, words)
           /\ Occurrences(text, words) # {} => Matches(text, words) # {}
<1>1. Occurrences(text, words) \subseteq Spans(text)
  BY DEF Occurrences
<1> QED
  BY <1>1, TakenCovers DEF Matches

(* Identifiers are spans of the text. *)
LEMMA IdentifierFacts ==
    ASSUME NEW text, Len(text) \in Nat
    PROVE  IdentifierSpans(text) \subseteq Spans(text)
<1>1. ASSUME NEW p \in Identifiers
      PROVE  Taken({s \in Occurrences(text, p.words) :
                       Boundary(text, s[1]) /\ (p.whole => Boundary(text, s[2]))}, 1) \subseteq Spans(text)
  <2> DEFINE S == {s \in Occurrences(text, p.words) :
                       Boundary(text, s[1]) /\ (p.whole => Boundary(text, s[2]))}
  <2>1. S \subseteq Spans(text)
    BY DEF Occurrences
  <2> HIDE DEF S
  <2>2. Taken(S, 1) \subseteq Spans(text)
    BY <2>1, TakenCovers
  <2> QED
    BY <2>2 DEF S
<1> QED
  BY <1>1 DEF IdentifierSpans

----------------------------------------------------------------------------
(* The card windows. *)

(* The places of a run's digits, which Offsets lists. *)
Digits(text, run) == {i \in Positions(run) : text[i] \in DOMAIN Digit}

LEMMA OffsetFacts ==
    ASSUME NEW text, Len(text) \in Nat, NEW run \in Spans(text)
    PROVE  /\ Digits(text, run) \subseteq Positions(run) /\ Positions(run) \subseteq 1..Len(text)
           /\ Len(Offsets(text, run)) \in Nat
           /\ Lists(Offsets(text, run), Len(Offsets(text, run)), Digits(text, run))
<1> DEFINE S == Digits(text, run)
           q == Offsets(text, run)
           n == Cardinality(S)
<1>1. S \subseteq Positions(run) /\ Positions(run) \subseteq 1..Len(text)
  BY SpanFacts DEF Digits, Positions
<1>2. S \subseteq Int /\ IsFiniteSet(S)
  <2>1. IsFiniteSet(1..Len(text))
    BY FS_Interval
  <2>2. S \subseteq 1..Len(text)
    BY <1>1
  <2> HIDE DEF S
  <2>3. IsFiniteSet(S)
    BY <2>1, <2>2, FS_Subset
  <2> QED
    BY <2>2, <2>3
<1>3. q = Sorted(S, <)
  BY DEF Offsets, Digits
<1> HIDE DEF S, q
<1>4. n \in Nat /\ Lists(q, n, S)
  BY <1>2, <1>3, SortedLists
<1>5. q \in [1..n -> S]
  BY <1>4 DEF Lists
<1>6. q \in Seq(S) /\ Len(q) = n
  <2>1. q \in Seq(S)
    BY <1>4, <1>5
  <2>2. DOMAIN q = 1..n
    BY <1>5
  <2> QED
    BY <1>4, <2>1, <2>2
<1> QED
  BY <1>1, <1>4, <1>6 DEF S, q

(* Where the window at a digit ends, and the scan goes on.                 *)
Window(text, o, i) == <<o[i], o[i + Max(CardLengths(text, o, i)) - 1] + 1>>

Further(text, o, i) == i + Max(CardLengths(text, o, i))

(* The longest window at a digit ends within the run. *)
LEMMA LongestFacts ==
    ASSUME NEW text, NEW o, Len(o) \in Nat, NEW i \in 1..Len(o), CardLengths(text, o, i) # {}
    PROVE  /\ Max(CardLengths(text, o, i)) \in Nat \ {0}
           /\ i + Max(CardLengths(text, o, i)) - 1 <= Len(o)
<1> DEFINE S == CardLengths(text, o, i)
           T == {MaxCard - l : l \in S}
<1>1. S \subseteq MinCard..MaxCard /\ \A l \in S : i + l - 1 <= Len(o)
  BY DEF CardLengths
<1>2. MinCard \in Nat \ {0, 1} /\ MaxCard \in Nat
  BY RailsAssumption
<1> HIDE DEF S
<1>3. T \subseteq Nat /\ T # {}
  BY <1>1, <1>2 DEF S
<1>4. PICK a \in T : \A b \in T : a <= b
  BY <1>3, LeastExists
<1>5. PICK m \in S : a = MaxCard - m
  BY <1>4
<1>6. ASSUME NEW l \in S PROVE m >= l
  <2>1. a <= MaxCard - l
    BY <1>4
  <2> QED
    BY <1>1, <1>2, <1>5, <2>1
<1>7. Max(S) \in S
  BY <1>6 DEF Max
<1>8. PICK l \in S : Max(S) = l
  BY <1>7
<1>9. l \in Nat \ {0} /\ i + l - 1 <= Len(o)
  BY <1>1, <1>2
<1> QED
  BY <1>8, <1>9 DEF S

(* The windows of a run. *)
Slide(text, o) ==
    LET slide[i \in 1..(Len(o) + 1)] ==
          IF i > Len(o) THEN {}
          ELSE LET lengths == CardLengths(text, o, i)
               IN  IF lengths = {} THEN slide[i + 1]
                   ELSE LET l == Max(lengths)
                        IN  {<<o[i], o[i + l - 1] + 1>>} \cup slide[i + l]
    IN  slide[1]

(* The spans of the cards are the windows of the runs. *)
LEMMA CardSpansBy == \A text : CardSpans(text) = UNION {Slide(text, Offsets(text, run)) : run \in DigitRuns(text)}
  BY DEF CardSpans, Slide

(* What it is to slide over a run, *)
IsSlide(text, o, slide) ==
    \A i \in 1..(Len(o) + 1) :
        slide[i] = IF i > Len(o) THEN {}
                   ELSE IF CardLengths(text, o, i) = {} THEN slide[i + 1]
                   ELSE {Window(text, o, i)} \cup slide[Further(text, o, i)]

(* and that sliding over it is possible. *)
LEMMA SlideBy ==
    ASSUME NEW text, NEW o, Len(o) \in Nat
    PROVE  \E slide : IsSlide(text, o, slide) /\ Slide(text, o) = slide[1]
<1> DEFINE n == Len(o)
           Found == {i \in 1..n : CardLengths(text, o, i) # {}}
           All == {Window(text, o, i) : i \in Found}
           I == 1..(n + 1)
           Maps == [I -> SUBSET All]
           F(g) == [i \in I |-> IF i > n THEN {}
                                ELSE IF i \notin Found THEN g[i + 1]
                                ELSE {Window(text, o, i)} \cup g[Further(text, o, i)]]
           Closed == {g \in Maps : \A i \in I : F(g)[i] \subseteq g[i]}
           least == [i \in I |-> {x \in All : \A g \in Closed : x \in g[i]}]
<1>1. /\ \A i \in I : ~(i > n) => i + 1 \in I
      /\ \A i \in Found : Further(text, o, i) \in I
  <2>1. ASSUME NEW i \in Found PROVE Further(text, o, i) \in I
    <3>1. /\ Max(CardLengths(text, o, i)) \in Nat \ {0}
          /\ i + Max(CardLengths(text, o, i)) - 1 <= n
      BY LongestFacts
    <3> QED
      BY <3>1 DEF Further
  <2> QED
    BY <2>1
<1>2. \A g \in Maps : F(g) \in Maps
  <2> SUFFICES ASSUME NEW g \in Maps, NEW i \in I PROVE F(g)[i] \in SUBSET All
    OBVIOUS
  <2>1. CASE i > n
    BY <2>1
  <2>2. CASE ~(i > n) /\ i \notin Found
    <3>1. g[i + 1] \in SUBSET All
      BY <1>1, <2>2
    <3> HIDE DEF All, Found
    <3> QED
      BY <2>2, <3>1
  <2>3. CASE i \in Found
    <3>1. g[Further(text, o, i)] \in SUBSET All /\ Window(text, o, i) \in All /\ ~(i > n)
      BY <1>1, <2>3
    <3> HIDE DEF All, Found
    <3> QED
      BY <2>3, <3>1
  <2> QED
    BY <2>1, <2>2, <2>3
<1> HIDE DEF All, Found
<1>3. least \in Maps
  OBVIOUS
<1>4. ASSUME NEW g \in Maps, NEW h \in Maps, \A i \in I : g[i] \subseteq h[i]
      PROVE  \A i \in I : F(g)[i] \subseteq F(h)[i]
  <2> SUFFICES ASSUME NEW i \in I PROVE F(g)[i] \subseteq F(h)[i]
    OBVIOUS
  <2>1. CASE i > n
    BY <2>1
  <2>2. CASE ~(i > n) /\ i \notin Found
    BY <1>1, <1>4, <2>2
  <2>3. CASE ~(i > n) /\ i \in Found
    BY <1>1, <1>4, <2>3
  <2> QED
    BY <2>1, <2>2, <2>3
<1>5. ASSUME NEW i \in I PROVE F(least)[i] \subseteq least[i]
  <2>0. F(least)[i] \subseteq All
    <3> HIDE DEF least
    <3>1. F(least) \in Maps
      BY <1>2, <1>3
    <3> HIDE DEF F
    <3> QED
      BY <3>1
  <2> SUFFICES ASSUME NEW x \in F(least)[i], NEW g \in Closed PROVE x \in g[i]
    <3> HIDE DEF F, Closed
    <3> QED
      BY <2>0
  <2>1. \A j \in I : least[j] \subseteq g[j]
    OBVIOUS
  <2> HIDE DEF least
  <2>2. F(least)[i] \subseteq F(g)[i]
    BY <1>3, <1>4, <2>1
  <2>3. F(g)[i] \subseteq g[i]
    OBVIOUS
  <2> QED
    BY <2>2, <2>3
<1>6. F(least) \in Closed
  <2> DEFINE h == F(least)
  <2> HIDE DEF least
  <2>1. h \in Maps
    BY <1>2, <1>3
  <2>2. \A i \in I : h[i] \subseteq least[i]
    BY <1>5
  <2> HIDE DEF h
  <2>3. \A i \in I : F(h)[i] \subseteq F(least)[i]
    <3> HIDE DEF F
    <3> QED
      BY <1>3, <1>4, <2>1, <2>2
  <2>4. \A i \in I : F(h)[i] \subseteq h[i]
    <3> HIDE DEF F
    <3> QED
      BY <2>3 DEF h
  <2>5. h \in Closed
    BY <2>1, <2>4
  <2> QED
    BY <2>5 DEF h
<1>7. \A i \in I : least[i] = F(least)[i]
  <2> TAKE i \in I
  <2>1. least[i] \subseteq F(least)[i]
    <3> SUFFICES ASSUME NEW x \in least[i] PROVE x \in F(least)[i]
      OBVIOUS
    <3> DEFINE h == F(least)
    <3>1. h \in Closed
      BY <1>6
    <3> HIDE DEF h, F
    <3>2. x \in h[i]
      BY <3>1
    <3> QED
      BY <3>2 DEF h
  <2> QED
    BY <1>5, <2>1
<1> HIDE DEF least
<1> DEFINE G(g) == [i \in I |-> IF i > n THEN {}
                                ELSE IF CardLengths(text, o, i) = {} THEN g[i + 1]
                                ELSE {<<o[i], o[i + Max(CardLengths(text, o, i)) - 1] + 1>>}
                                        \cup g[i + Max(CardLengths(text, o, i))]]
<1>8. least = G(least)
  <2>1. ASSUME NEW i \in I PROVE least[i] = G(least)[i]
    <3>1. least[i] = F(least)[i]
      BY <1>7
    <3>2. CASE i > n
      BY <3>1, <3>2
    <3>3. CASE ~(i > n) /\ CardLengths(text, o, i) = {}
      BY <3>1, <3>3 DEF Found
    <3>4. CASE ~(i > n) /\ CardLengths(text, o, i) # {}
      BY <3>1, <3>4 DEF Found, Window, Further
    <3> QED
      BY <3>2, <3>3, <3>4
  <2>2. DOMAIN least = I /\ least = [i \in I |-> least[i]]
    BY <1>3
  <2> QED
    BY <2>1, <2>2
<1> DEFINE slide == CHOOSE g : g = G(g)
<1>9. slide = G(slide)
  BY <1>8
<1>10. Slide(text, o) = slide[1]
  BY DEF Slide
<1> HIDE DEF slide
<1>11. IsSlide(text, o, slide)
  BY <1>9 DEF IsSlide, Window, Further
<1> QED
  BY <1>10, <1>11

(* The windows taken in a run are spans of it that do not overlap, and     *)
(* wherever a card number could begin one of them covers the place.        *)
LEMMA SlideCovers ==
    ASSUME NEW text, Len(text) \in Nat, NEW run \in Spans(text), NEW o, o = Offsets(text, run)
    PROVE  /\ \A s \in Slide(text, o) : s \in Spans(text) /\ run[1] <= s[1] /\ s[2] <= run[2]
           /\ \A s, t \in Slide(text, o) : s = t \/ s[2] <= t[1] \/ t[2] <= s[1]
           /\ \A i \in 1..Len(o) : CardLengths(text, o, i) # {} =>
                 \E s \in Slide(text, o) : o[i] \in Positions(s)
<1> DEFINE n == Len(o)
           In(s) == s \in Spans(text) /\ run[1] <= s[1] /\ s[2] <= run[2]
<1>1. PICK slide : IsSlide(text, o, slide) /\ Slide(text, o) = slide[1]
  BY OffsetFacts, SlideBy
<1>2. /\ n \in Nat
      /\ \A i \in 1..n : /\ o[i] \in Int /\ run[1] <= o[i] /\ o[i] < run[2]
                         /\ 1 <= o[i] /\ o[i] <= Len(text)
      /\ \A i, j \in 1..n : i < j => o[i] < o[j]
  <2>1. n \in Nat /\ Lists(o, n, Digits(text, run)) /\ Digits(text, run) \subseteq Positions(run)
    BY OffsetFacts
  <2>2. \A i \in 1..n : o[i] \in Positions(run)
    BY <2>1 DEF Lists
  <2> QED
    BY <2>1, <2>2, SpanFacts DEF Lists, Positions
<1> DEFINE P(i) == /\ \A s \in slide[i] : In(s) /\ i <= n /\ o[i] <= s[1]
                   /\ \A s, t \in slide[i] : s = t \/ s[2] <= t[1] \/ t[2] <= s[1]
                   /\ \A j \in i..n : CardLengths(text, o, j) # {} =>
                         \E s \in slide[i] : o[j] \in Positions(s)
           K == {k \in 0..n : \A i \in 1..(n + 1) : i >= n + 1 - k => P(i)}
<1>3. 0 \in K
  <2> SUFFICES ASSUME NEW i \in 1..(n + 1), i >= n + 1 - 0 PROVE P(i)
    BY <1>2
  <2>1. i > n
    BY <1>2
  <2>2. slide[i] = {}
    BY <1>1, <2>1 DEF IsSlide
  <2> QED
    BY <1>2, <2>1, <2>2
<1> HIDE DEF n, P
<1>4. ASSUME NEW k \in 1..n, k - 1 \in K PROVE k \in K
  <2> SUFFICES ASSUME NEW i \in 1..(n + 1), i = n + 1 - k PROVE P(i)
    BY <1>2, <1>4
  <2>1. i \in 1..n /\ ~(i > n)
    BY <1>2
  <2>2. \A j \in 1..(n + 1) : j > i => P(j)
    BY <1>2, <1>4
  <2> USE DEF P
  <2>3. CASE CardLengths(text, o, i) = {}
    <3>1. slide[i] = slide[i + 1]
      BY <1>1, <2>1, <2>3 DEF IsSlide, n
    <3>2. P(i + 1)
      <4> HIDE DEF P
      <4> QED
        BY <1>2, <2>1, <2>2
    <3>3. ASSUME NEW s \in slide[i] PROVE In(s) /\ i <= n /\ o[i] <= s[1]
      <4>1. In(s) /\ i + 1 <= n /\ o[i + 1] <= s[1]
        BY <3>1, <3>2
      <4>2. o[i] < o[i + 1] /\ o[i] \in Int /\ o[i + 1] \in Int
        BY <1>2, <2>1, <4>1
      <4>3. s[1] \in Int
        BY <4>1, SpanFacts
      <4> QED
        BY <2>1, <4>1, <4>2, <4>3
    <3>4. ASSUME NEW j \in i..n, CardLengths(text, o, j) # {} PROVE \E s \in slide[i] : o[j] \in Positions(s)
      <4>1. j # i
        BY <2>3, <3>4
      <4>2. j \in (i + 1)..n
        BY <1>2, <2>1, <4>1
      <4> QED
        BY <3>1, <3>2, <3>4, <4>2
    <3> QED
      BY <3>1, <3>2, <3>3, <3>4
  <2>4. CASE CardLengths(text, o, i) # {}
    <3> DEFINE w == Window(text, o, i)
               f == Further(text, o, i)
    <3>1. slide[i] = {w} \cup slide[f]
      BY <1>1, <2>1, <2>4 DEF IsSlide, n
    <3>2. f \in (i + 1)..(n + 1) /\ w = <<o[i], o[f - 1] + 1>>
      <4>1. /\ Max(CardLengths(text, o, i)) \in Nat \ {0}
            /\ i + Max(CardLengths(text, o, i)) - 1 <= n
        BY <1>2, <2>1, <2>4, LongestFacts DEF n
      <4> QED
        BY <1>2, <2>1, <4>1 DEF Further, Window, n
    <3>3. f - 1 \in i..n /\ o[i] <= o[f - 1] /\ o[i] \in Int /\ o[f - 1] \in Int /\ f \in 1..(n + 1)
      <4>1. f - 1 \in i..n /\ f \in 1..(n + 1) /\ f - 1 \in 1..n /\ (i = f - 1 \/ i < f - 1)
        BY <1>2, <2>1, <3>2
      <4> HIDE DEF f
      <4> QED
        BY <1>2, <2>1, <4>1
    <3>4. w[1] = o[i] /\ w[2] = o[f - 1] + 1 /\ w[1] < w[2]
      BY <3>2, <3>3
    <3>5. w \in Spans(text) /\ run[1] <= w[1] /\ w[2] <= run[2]
      <4>1. o[i] \in 1..Len(text) /\ o[f - 1] + 1 \in 2..(Len(text) + 1)
        BY <1>2, <2>1, <3>3
      <4>2. run[1] <= o[i] /\ o[f - 1] < run[2] /\ run[2] \in Int
        <5>1. i \in 1..n /\ f - 1 \in 1..n
          BY <1>2, <2>1, <3>3
        <5> QED
          BY <1>2, <5>1, SpanFacts
      <4> QED
        BY <3>2, <3>3, <3>4, <4>1, <4>2 DEF Spans
    <3> HIDE DEF w, f
    <3>6. P(f)
      <4> HIDE DEF P
      <4> QED
        BY <1>2, <2>1, <2>2, <3>2
    <3>7. ASSUME NEW s \in slide[f] PROVE In(s) /\ o[i] <= s[1] /\ w[2] <= s[1]
      <4>1. In(s) /\ f <= n /\ o[f] <= s[1]
        BY <3>6
      <4>2. o[f - 1] < o[f] /\ o[f] \in Int
        BY <1>2, <2>1, <3>2, <3>3, <4>1
      <4>3. s[1] \in Int
        BY <4>1, SpanFacts
      <4> QED
        BY <3>3, <3>4, <4>1, <4>2, <4>3
    <3>8. \A s \in slide[i] : In(s) /\ i <= n /\ o[i] <= s[1]
      BY <2>1, <3>1, <3>3, <3>4, <3>5, <3>7
    <3>9. \A s, t \in slide[i] : s = t \/ s[2] <= t[1] \/ t[2] <= s[1]
      BY <3>1, <3>6, <3>7
    <3>10. ASSUME NEW j \in i..n, CardLengths(text, o, j) # {} PROVE \E s \in slide[i] : o[j] \in Positions(s)
      <4>1. CASE j < f
        <5>1. j \in 1..n /\ f - 1 \in 1..n /\ (i = j \/ i < j) /\ (j = f - 1 \/ j < f - 1)
          BY <1>2, <2>1, <3>2, <3>3, <4>1
        <5>2. o[i] <= o[j] /\ o[j] <= o[f - 1] /\ o[j] \in Int
          BY <1>2, <2>1, <5>1
        <5>3. o[j] \in Positions(w)
          BY <3>3, <3>4, <5>2 DEF Positions
        <5> QED
          BY <3>1, <5>3
      <4>2. CASE ~(j < f)
        <5>1. j \in f..n
          BY <1>2, <2>1, <3>2, <3>3, <4>2
        <5> QED
          BY <3>1, <3>6, <3>10, <5>1
      <4> QED
        BY <4>1, <4>2
    <3> QED
      BY <3>8, <3>9, <3>10
  <2> QED
    BY <2>3, <2>4
<1>5. n \in K
  <2>1. 0..n \subseteq K
    <3> HIDE DEF K
    <3> QED
      BY <1>2, <1>3, <1>4, UpTo
  <2> HIDE DEF K
  <2> QED
    BY <1>2, <2>1
<1>6. P(1)
  BY <1>2, <1>5
<1> QED
  BY <1>1, <1>2, <1>6 DEF P, n

(* Runs of digits do not overlap. *)
LEMMA RunsApart ==
    ASSUME NEW text, Len(text) \in Nat, NEW r \in DigitRuns(text), NEW s \in DigitRuns(text)
    PROVE  r = s \/ r[2] <= s[1] \/ s[2] <= r[1]
<1> DEFINE in(i) == i \in DOMAIN text /\ text[i] \in DOMAIN Digit \cup Separators
<1>1. \A q \in DigitRuns(text) : q \in Spans(text) /\ (\A i \in Positions(q) : in(i)) /\ ~in(q[1] - 1) /\ ~in(q[2])
  BY DEF DigitRuns
<1> HIDE DEF in
<1>2. SUFFICES ASSUME s[1] < r[2], r[1] < s[2] PROVE r = s
  BY <1>1, SpanFacts
<1>3. /\ r[1] \in Int /\ r[2] \in Int /\ s[1] \in Int /\ s[2] \in Int
      /\ r[1] < r[2] /\ s[1] < s[2] /\ r = <<r[1], r[2]>> /\ s = <<s[1], s[2]>>
  BY <1>1, SpanFacts
<1>4. /\ \A i \in Int : r[1] <= i /\ i < r[2] => in(i)
      /\ \A i \in Int : s[1] <= i /\ i < s[2] => in(i)
  BY <1>1, <1>3 DEF Positions
<1>5. ~in(r[1] - 1) /\ ~in(s[1] - 1) /\ ~in(r[2]) /\ ~in(s[2])
  BY <1>1
<1>6. r[1] = s[1]
  <2>1. ~(r[1] < s[1])
    BY <1>2, <1>3, <1>4, <1>5
  <2>2. ~(s[1] < r[1])
    BY <1>2, <1>3, <1>4, <1>5
  <2> QED
    BY <1>3, <2>1, <2>2
<1>7. r[2] = s[2]
  <2>1. ~(r[2] < s[2])
    BY <1>2, <1>3, <1>4, <1>5
  <2>2. ~(s[2] < r[2])
    BY <1>2, <1>3, <1>4, <1>5
  <2> QED
    BY <1>3, <2>1, <2>2
<1> QED
  BY <1>3, <1>6, <1>7

(* Card spans do not overlap, and every window of digits that could be a   *)
(* card number has its first digit in one of them (_card_spans).           *)
LEMMA CardFacts ==
    ASSUME NEW text, Len(text) \in Nat, DOMAIN text = 1..Len(text)
    PROVE  /\ CardSpans(text) \subseteq Spans(text)
           /\ \A s, t \in CardSpans(text) : s = t \/ s[2] <= t[1] \/ t[2] <= s[1]
           /\ \A w \in CardWindows(text) : /\ w[1] \in Positions(w) /\ w[1] \in DOMAIN text
                                           /\ \E s \in CardSpans(text) : w[1] \in Positions(s)
<1>1. \A s : s \in CardSpans(text) <=> \E run \in DigitRuns(text) : s \in Slide(text, Offsets(text, run))
  BY CardSpansBy
<1>2. DigitRuns(text) \subseteq Spans(text)
  BY DEF DigitRuns
<1>3. \A run \in DigitRuns(text) :
          /\ \A s \in Slide(text, Offsets(text, run)) : s \in Spans(text) /\ run[1] <= s[1] /\ s[2] <= run[2]
          /\ \A s, t \in Slide(text, Offsets(text, run)) : s = t \/ s[2] <= t[1] \/ t[2] <= s[1]
          /\ \A i \in 1..Len(Offsets(text, run)) : CardLengths(text, Offsets(text, run), i) # {} =>
                \E s \in Slide(text, Offsets(text, run)) : Offsets(text, run)[i] \in Positions(s)
  BY <1>2, SlideCovers
<1>4. ASSUME NEW s \in CardSpans(text), NEW t \in CardSpans(text)
      PROVE  s = t \/ s[2] <= t[1] \/ t[2] <= s[1]
  <2>1. PICK q \in DigitRuns(text) : s \in Slide(text, Offsets(text, q))
    BY <1>1
  <2>2. PICK r \in DigitRuns(text) : t \in Slide(text, Offsets(text, r))
    BY <1>1
  <2>3. CASE q = r
    BY <1>3, <2>1, <2>2, <2>3
  <2>4. CASE q[2] <= r[1] \/ r[2] <= q[1]
    <3>1. s[2] <= q[2] /\ q[1] <= s[1] /\ t[2] <= r[2] /\ r[1] <= t[1] /\ s \in Spans(text) /\ t \in Spans(text)
      BY <1>3, <2>1, <2>2
    <3>2. /\ s[1] \in Int /\ s[2] \in Int /\ t[1] \in Int /\ t[2] \in Int
          /\ q[1] \in Int /\ q[2] \in Int /\ r[1] \in Int /\ r[2] \in Int
      BY <1>2, <3>1, SpanFacts
    <3> QED
      BY <2>4, <3>1, <3>2
  <2> QED
    BY <2>3, <2>4, RunsApart
<1>5. ASSUME NEW w \in CardWindows(text)
      PROVE  /\ w[1] \in Positions(w) /\ w[1] \in DOMAIN text
             /\ \E s \in CardSpans(text) : w[1] \in Positions(s)
  <2>a. PICK run \in DigitRuns(text) :
             \E i \in DOMAIN Offsets(text, run) : \E l \in CardLengths(text, Offsets(text, run), i) :
                w = <<Offsets(text, run)[i], Offsets(text, run)[i + l - 1] + 1>>
    BY DEF CardWindows
  <2> DEFINE o == Offsets(text, run)
  <2>b. PICK i \in DOMAIN o : \E l \in CardLengths(text, o, i) : w = <<o[i], o[i + l - 1] + 1>>
    BY <2>a
  <2>1. PICK l \in CardLengths(text, o, i) : w = <<o[i], o[i + l - 1] + 1>>
    BY <2>b
  <2>2. /\ Len(o) \in Nat /\ Lists(o, Len(o), Digits(text, run))
        /\ Digits(text, run) \subseteq Positions(run) /\ Positions(run) \subseteq 1..Len(text)
    BY <1>2, OffsetFacts
  <2>3. i \in 1..Len(o) /\ i + l - 1 \in i..Len(o)
    <3>1. DOMAIN o = 1..Len(o)
      BY <2>2 DEF Lists
    <3>2. l \in MinCard..MaxCard /\ i + l - 1 <= Len(o) /\ MinCard \in Nat \ {0, 1} /\ MaxCard \in Nat
      BY RailsAssumption DEF CardLengths
    <3> HIDE DEF o
    <3> QED
      BY <2>1, <2>2, <3>1, <3>2 DEF o
  <2>4. o[i] \in 1..Len(text) /\ o[i + l - 1] \in Int /\ o[i] <= o[i + l - 1]
    <3> HIDE DEF o
    <3>1. i + l - 1 \in 1..Len(o) /\ (i = i + l - 1 \/ i < i + l - 1)
      BY <2>2, <2>3
    <3>2. \A j \in 1..Len(o) : o[j] \in 1..Len(text)
      BY <2>2 DEF Lists
    <3>3. \A j \in 1..Len(o) : i < j => o[i] < o[j]
      BY <2>2, <2>3 DEF Lists
    <3> QED
      BY <2>3, <3>1, <3>2, <3>3
  <2>5. w[1] = o[i] /\ w[2] = o[i + l - 1] + 1
    BY <2>1
  <2>6. \E s \in Slide(text, o) : o[i] \in Positions(s)
    BY <1>3, <2>3
  <2>7. w[1] \in Positions(w)
    <3> HIDE DEF o
    <3> QED
      BY <2>4, <2>5 DEF Positions
  <2>8. w[1] \in DOMAIN text
    BY <2>4, <2>5
  <2> QED
    BY <1>1, <2>5, <2>6, <2>7, <2>8
<1> QED
  BY <1>1, <1>3, <1>4, <1>5

(* What a text is to the rails: a finite sequence. *)
IsText(text) == Len(text) \in Nat /\ DOMAIN text = 1..Len(text)

(* What the PII rail recognises in a text is touched in its output.        *)
LEMMA RedactedTouches ==
    ASSUME NEW text, IsText(text)
    PROVE  /\ \A s \in IdentifierSpans(text) : Touched(s, Redacted(text, Accepted(text)))
           /\ IdentifierSpans(text) = {} =>
                 \A s \in CardWindows(text) : Touched(s, Redacted(text, Accepted(text)))
<1> DEFINE all == CardSpans(text) \cup IdentifierSpans(text)
           out == Redacted(text, Accepted(text))
<1>0. Len(text) \in Nat /\ DOMAIN text = 1..Len(text)
  BY DEF IsText
<1>1. all \subseteq Spans(text)
  BY <1>0, CardFacts, IdentifierFacts
<1>2. /\ Accepted(text) \subseteq all
      /\ \A s \in all : \E t \in Accepted(text) : s[1] \in Positions(t)
  BY <1>0, <1>1, TakenCovers DEF Accepted
<1>3. ASSUME NEW i \in DOMAIN text, \E t \in Accepted(text) : i \in Positions(t)
      PROVE  out[i] = Mark
  BY <1>3 DEF Redacted
<1>4. ASSUME NEW s \in IdentifierSpans(text) PROVE Touched(s, out)
  <2>1. s[1] \in Positions(s) /\ s[1] \in DOMAIN text
    BY <1>0, <1>1, SpanFacts
  <2> QED
    BY <1>2, <1>3, <2>1 DEF Touched
<1>5. ASSUME IdentifierSpans(text) = {}, NEW w \in CardWindows(text) PROVE Touched(w, out)
  <2>1. PICK s \in CardSpans(text) : w[1] \in Positions(s)
    BY <1>0, CardFacts
  <2>2. PICK t \in Accepted(text) : s[1] \in Positions(t)
    BY <1>2, <2>1
  <2>3. t \in CardSpans(text)
    BY <1>2, <1>5, <2>2
  <2>4. s = t \/ s[2] <= t[1] \/ t[2] <= s[1]
    BY <1>0, <2>1, <2>3, CardFacts
  <2>5. s = t
    BY <1>0, <1>1, <2>1, <2>2, <2>3, <2>4, SpanFacts DEF Positions
  <2>6. w[1] \in Positions(w) /\ w[1] \in DOMAIN text
    BY <1>0, <1>5, CardFacts
  <2> HIDE DEF out
  <2> QED
    BY <1>3, <2>1, <2>2, <2>5, <2>6 DEF Touched
<1> QED
  BY <1>4, <1>5

----------------------------------------------------------------------------
(* Cutting the findings out. *)

(* The first positions are listed first. *)
Begins(K, b) == K \subseteq Nat \ {0} /\ 1..b \subseteq K

Fixed(q, b) == \A j \in 1..b : q[j] = j

LEMMA PrefixListed ==
    ASSUME NEW K, NEW n \in Nat, NEW q, NEW b \in Nat, Lists(q, n, K), Begins(K, b)
    PROVE  b <= n /\ Fixed(q, b)
<1>0. K \subseteq Nat \ {0} /\ 1..b \subseteq K
  BY DEF Begins
<1>1. /\ \A i \in 1..n : q[i] \in K
      /\ \A i, j \in 1..n : i < j => q[i] < q[j]
      /\ \A x \in K : \E i \in 1..n : q[i] = x
  BY DEF Lists
<1> DEFINE S == {k \in 0..b : k <= n /\ \A j \in 1..k : q[j] = j}
<1>2. 0 \in S
  OBVIOUS
<1>3. ASSUME NEW k \in 1..b, k - 1 \in S PROVE k \in S
  <2>1. PICK i \in 1..n : q[i] = k
    BY <1>0, <1>1
  <2>2. i >= k
    <3> SUFFICES ASSUME i < k PROVE FALSE
      OBVIOUS
    <3>1. i \in 1..(k - 1)
      OBVIOUS
    <3> QED
      BY <1>3, <2>1, <3>1
  <2>3. ~(i > k)
    <3> SUFFICES ASSUME i > k PROVE FALSE
      OBVIOUS
    <3>1. k \in 1..n
      OBVIOUS
    <3>2. q[k] < k /\ q[k] \in Nat \ {0}
      BY <1>0, <1>1, <2>1, <3>1
    <3>3. q[k] \in 1..(k - 1) /\ q[k] \in 1..n
      BY <3>1, <3>2
    <3>4. q[q[k]] = q[k]
      BY <1>3, <3>3
    <3>5. q[q[k]] < q[k]
      BY <1>1, <3>1, <3>2, <3>3
    <3> QED
      BY <3>2, <3>4, <3>5
  <2>4. i = k
    BY <2>2, <2>3
  <2> QED
    BY <1>3, <2>1, <2>4
<1>4. b \in S
  <2>1. 0..b \subseteq S
    <3> HIDE DEF S
    <3> QED
      BY <1>2, <1>3, UpTo
  <2> HIDE DEF S
  <2> QED
    BY <2>1
<1> QED
  BY <1>4 DEF Fixed

(* A span that may be cut: all before its end is still there.              *)
Cuttable(text, K, a, b) ==
    /\ K \subseteq 1..Len(text) /\ 1..(b - 1) \subseteq K
    /\ a \in Nat \ {0} /\ b \in Nat /\ a < b

Remaining(text, K, a, b) == Picked(text, K \ Positions(<<a, b>>))

(* Cutting a span from the characters picked, with all before it picked,   *)
(* picks the positions outside it.                                         *)
LEMMA CutPicks ==
    ASSUME NEW R, NEW text \in Seq(R), NEW K, NEW a, NEW b, Cuttable(text, K, a, b)
    PROVE  Cut(Picked(text, K), <<a, b>>) = Remaining(text, K, a, b)
<1> SUFFICES ASSUME K \subseteq 1..Len(text), 1..(b - 1) \subseteq K,
                    a \in Nat \ {0}, b \in Nat, a < b
             PROVE  Cut(Picked(text, K), <<a, b>>) = Picked(text, K \ Positions(<<a, b>>))
  BY DEF Cuttable, Remaining
<1> DEFINE n == Cardinality(K)
           q == Sorted(K, <)
           p == Picked(text, K)
           w == b - a
           r == [j \in 1..(n - w) |-> IF j < a THEN j ELSE q[j + w]]
           rest == K \ Positions(<<a, b>>)
<1>a. Len(text) \in Nat /\ \A i \in 1..Len(text) : text[i] \in R
  OBVIOUS
<1>b. K \subseteq Int /\ K \subseteq Nat \ {0}
  <2> DEFINE m == Len(text)
  <2>1. K \subseteq 1..m /\ m \in Nat
    BY <1>a
  <2> HIDE DEF m
  <2> QED
    BY <2>1
<1>c. rest \subseteq Int
  BY <1>b
<1>d. K \subseteq Int
  BY <1>b
<1>0. /\ Len(text) \in Nat /\ \A i \in 1..Len(text) : text[i] \in R
      /\ K \subseteq Int /\ K \subseteq Nat \ {0} /\ rest \subseteq Int
  BY <1>a, <1>b, <1>c
<1>1. IsFiniteSet(K)
  <2>1. IsFiniteSet(1..Len(text))
    BY <1>0, FS_Interval
  <2> QED
    BY <2>1, FS_Subset
<1>2. n \in Nat /\ Lists(q, n, K)
  BY <1>0, <1>1, SortedLists
<1>3. /\ \A i \in 1..n : q[i] \in K
      /\ \A i, j \in 1..n : i < j => q[i] < q[j]
      /\ \A x \in K : \E i \in 1..n : q[i] = x
  BY <1>2 DEF Lists
<1>4. p = [i \in 1..n |-> text[q[i]]]
  <2> HIDE DEF n, q
  <2> QED
    <3>1. Picked(text, K) = Along(text, q, n)
      BY <1>d, <1>2, PicksListed
    <3> QED
      BY <3>1 DEF Along
<1> HIDE DEF n, q, p
<1>5. b - 1 <= n /\ \A j \in 1..(b - 1) : q[j] = j
  <2> DEFINE c == b - 1
  <2>1. c \in Nat /\ Begins(K, c)
    BY <1>b DEF Begins
  <2> HIDE DEF c
  <2>2. c <= n
    BY <1>2, <2>1, PrefixListed
  <2>3. Fixed(q, c)
    BY <1>2, <2>1, PrefixListed
  <2> QED
    BY <2>2, <2>3 DEF c, Fixed
<1>6. w \in Nat \ {0} /\ n - w \in Nat /\ Positions(<<a, b>>) = a..(b - 1)
  BY <1>2, <1>5 DEF Positions
<1>7. ASSUME NEW i \in b..n PROVE q[i] >= b
  <2>1. i \in 1..n /\ b - 1 \in 1..n /\ b - 1 < i
    BY <1>2
  <2>2. q[b - 1] = b - 1
    BY <1>5, <2>1
  <2>3. q[b - 1] < q[i] /\ q[i] \in Int
    BY <1>0, <1>3, <2>1
  <2> QED
    BY <2>2, <2>3
<1> HIDE DEF w
<1>w. w = b - a
  BY DEF w
<1>8. Lists(r, n - w, rest)
  <2>1. ASSUME NEW j \in 1..(n - w) PROVE r[j] \in rest
    <3>1. CASE j < a
      <4>1. j \in 1..(b - 1)
        BY <1>2, <1>w, <3>1
      <4> QED
        BY <1>6, <3>1, <4>1
    <3>2. CASE ~(j < a)
      <4>1. j + w \in b..n /\ j + w \in 1..n
        BY <1>2, <1>6, <1>w, <3>2
      <4>2. q[j + w] \in K /\ q[j + w] >= b
        BY <1>3, <1>7, <4>1
      <4> QED
        BY <1>6, <3>2, <4>2
    <3> QED
      BY <3>1, <3>2
  <2>2. ASSUME NEW i \in 1..(n - w), NEW j \in 1..(n - w), i < j PROVE r[i] < r[j]
    <3>1. CASE j < a
      BY <2>2, <3>1
    <3>2. CASE ~(j < a)
      <4>1. j + w \in b..n /\ j + w \in 1..n
        BY <1>2, <1>6, <1>w, <3>2
      <4>2. q[j + w] >= b /\ q[j + w] \in Nat
        BY <1>0, <1>3, <1>7, <4>1
      <4>3. CASE i < a
        BY <3>2, <4>2, <4>3
      <4>4. CASE ~(i < a)
        <5>1. i + w \in 1..n /\ i + w < j + w
          BY <1>2, <1>6, <2>2
        <5> QED
          BY <1>3, <3>2, <4>1, <4>4, <5>1
      <4> QED
        BY <4>3, <4>4
    <3> QED
      BY <3>1, <3>2
  <2>3. ASSUME NEW x \in rest PROVE \E j \in 1..(n - w) : r[j] = x
    <3>0. x \in Nat \ {0}
      OBVIOUS
    <3>1. PICK i \in 1..n : q[i] = x
      BY <1>3
    <3>2. CASE i < a
      <4>1. i \in 1..(n - w) /\ i \in 1..(b - 1)
        BY <1>2, <1>5, <1>w, <3>2
      <4> QED
        BY <1>5, <3>1, <3>2, <4>1
    <3>3. CASE ~(i < a)
      <4>1. ~(i < b)
        <5> SUFFICES ASSUME i < b PROVE FALSE
          OBVIOUS
        <5>1. i \in 1..(b - 1) /\ i \in a..(b - 1)
          BY <3>3
        <5> QED
          BY <1>5, <1>6, <3>1, <5>1
      <4>2. i - w \in 1..(n - w) /\ ~(i - w < a) /\ (i - w) + w = i
        BY <1>2, <1>6, <1>w, <4>1
      <4> QED
        BY <3>1, <4>2
    <3> QED
      BY <3>2, <3>3
  <2> HIDE DEF r, rest
  <2>4. r = [j \in 1..(n - w) |-> r[j]]
    BY DEF r
  <2> QED
    BY <2>1, <2>2, <2>3, <2>4 DEF Lists
<1>9. Picked(text, rest) = [i \in 1..(n - w) |-> text[r[i]]]
  <2> DEFINE m == n - w
  <2>1. m \in Nat /\ Lists(r, m, rest)
    BY <1>6, <1>8
  <2> HIDE DEF r, rest, m
  <2>2. Picked(text, rest) = Along(text, r, m)
    BY <1>c, <2>1, PicksListed
  <2> QED
    BY <2>2 DEF Along, m
<1>10. p \in Seq(R) /\ Len(p) = n
  <2>1. \A i \in 1..n : text[q[i]] \in R
    BY <1>0, <1>3
  <2> QED
    BY <1>2, <1>4, <2>1
<1> DEFINE head == SubSeq(p, 1, a - 1)
           tail == SubSeq(p, b, n)
<1>11. head \in Seq(R) /\ Len(head) = a - 1 /\ \A i \in 1..(a - 1) : head[i] = p[i]
  <2>1. a - 1 \in 0..n
    BY <1>2, <1>5
  <2> QED
    BY <1>10, <2>1, SubSeqProperties
<1>12. tail \in Seq(R) /\ Len(tail) = n - b + 1 /\ \A i \in 1..(n - b + 1) : tail[i] = p[b + i - 1]
  BY <1>2, <1>5, <1>10, SubSeqProperties
<1>13. Cut(p, <<a, b>>) = head \o tail
  BY <1>10 DEF Cut
<1> HIDE DEF head, tail
<1> DEFINE all == head \o tail
<1>14. /\ all \in Seq(R) /\ Len(all) = n - w
       /\ \A i \in 1..(n - w) : all[i] = IF i < a THEN head[i] ELSE tail[i - (a - 1)]
  <2>1. /\ all \in Seq(R) /\ Len(all) = Len(head) + Len(tail)
        /\ \A i \in 1..(Len(head) + Len(tail)) :
              all[i] = IF i <= Len(head) THEN head[i] ELSE tail[i - Len(head)]
    BY <1>11, <1>12, ConcatProperties
  <2>2. Len(head) = a - 1 /\ Len(head) + Len(tail) = n - w
    BY <1>2, <1>5, <1>11, <1>12, <1>w
  <2> HIDE DEF all
  <2>3. \A i \in 1..(n - w) : i <= Len(head) <=> i < a
    BY <1>2, <1>6, <2>2
  <2> QED
    BY <2>1, <2>2, <2>3
<1> HIDE DEF all
<1>15. ASSUME NEW i \in 1..(n - w) PROVE all[i] = text[r[i]]
  <2>1. CASE i < a
    <3>1. i \in 1..(a - 1) /\ i \in 1..n /\ i \in 1..(b - 1)
      BY <1>2, <1>5, <2>1
    <3> QED
      BY <1>4, <1>5, <1>11, <1>14, <2>1, <3>1
  <2>2. CASE ~(i < a)
    <3>1. i - (a - 1) \in 1..(n - b + 1) /\ b + (i - (a - 1)) - 1 = i + w /\ i + w \in 1..n
      BY <1>2, <1>5, <1>w, <2>2
    <3>2. all[i] = p[i + w]
      BY <1>12, <1>14, <2>2, <3>1
    <3> QED
      BY <1>4, <2>2, <3>1, <3>2
  <2> QED
    BY <2>1, <2>2
<1>16. all = [i \in 1..(n - w) |-> text[r[i]]]
  <2>1. all = [i \in 1..(n - w) |-> all[i]]
    BY <1>14
  <2> HIDE DEF r
  <2> QED
    BY <1>15, <2>1
<1> QED
  BY <1>9, <1>13, <1>16 DEF p, all, rest

Pairs == Seq(Int \X Int)

(* Merged spans: of the text, in order, and with something between them.   *)
Apart(text, m) ==
    /\ m \in Pairs
    /\ \A j \in 1..Len(m) : 1 <= m[j][1] /\ m[j][1] < m[j][2] /\ m[j][2] <= Len(text) + 1
    /\ \A j, k \in 1..Len(m) : j < k => m[j][2] < m[k][1]

LEMMA Within ==
    ASSUME NEW s, s[1] \in Int, s[2] \in Int, NEW x \in Int
    PROVE  x \in Positions(s) <=> s[1] <= x /\ x < s[2]
  BY DEF Positions

(* A position is in one of the spans. *)
In(x, m) == \E j \in 1..Len(m) : x \in Positions(m[j])

LEMMA JoinedTyped ==
    ASSUME NEW m \in Pairs, NEW s \in Int \X Int
    PROVE  Joined(m, s) \in Pairs
<1>1. CASE m # <<>> /\ s[1] <= m[Len(m)][2]
  <2> DEFINE e == <<m[Len(m)][1], IF m[Len(m)][2] > s[2] THEN m[Len(m)][2] ELSE s[2]>>
  <2>1. Len(m) \in 1..Len(m) /\ m[Len(m)] \in Int \X Int
    BY <1>1 DEF Pairs
  <2>2. e \in Int \X Int
    BY <2>1
  <2>3. Joined(m, s) = [m EXCEPT ![Len(m)] = e]
    BY <1>1 DEF Joined
  <2> HIDE DEF e
  <2> QED
    BY <2>1, <2>2, <2>3 DEF Pairs
<1>2. CASE ~(m # <<>> /\ s[1] <= m[Len(m)][2])
  BY <1>2 DEF Joined, Pairs
<1> QED
  BY <1>1, <1>2

(* Joining a span that begins no earlier keeps them apart and covers what  *)
(* was covered and the span.                                               *)
LEMMA JoinedFacts ==
    ASSUME NEW text, Len(text) \in Nat, NEW m, Apart(text, m), NEW s \in Spans(text),
           Len(m) > 0 => m[Len(m)][1] <= s[1]
    PROVE  /\ Apart(text, Joined(m, s))
           /\ Len(Joined(m, s)) > 0 /\ Joined(m, s)[Len(Joined(m, s))][1] <= s[1]
           /\ \A x \in Int : In(x, Joined(m, s)) <=> In(x, m) \/ x \in Positions(s)
<1> DEFINE n == Len(m)
           new == Joined(m, s)
<1>1. /\ m \in Pairs /\ n \in Nat
      /\ \A j \in 1..n : /\ m[j][1] \in Int /\ m[j][2] \in Int /\ m[j] \in Int \X Int
                         /\ 1 <= m[j][1] /\ m[j][1] < m[j][2] /\ m[j][2] <= Len(text) + 1
      /\ \A j, k \in 1..n : j < k => m[j][2] < m[k][1]
  BY DEF Apart, Pairs
<1>2. /\ s = <<s[1], s[2]>> /\ s \in Int \X Int /\ s[1] \in Int /\ s[2] \in Int
      /\ 1 <= s[1] /\ s[1] < s[2] /\ s[2] <= Len(text) + 1
  BY SpanFacts DEF Spans
<1>3. new \in Pairs
  BY <1>1, <1>2, JoinedTyped
<1>4. CASE n > 0 /\ s[1] <= m[n][2]
  <2> DEFINE e == <<m[n][1], IF m[n][2] > s[2] THEN m[n][2] ELSE s[2]>>
  <2>1. new = [m EXCEPT ![n] = e]
    <3>1. m # <<>>
      BY <1>4
    <3> QED
      BY <1>4, <3>1 DEF Joined
  <2>2. /\ n \in 1..n /\ e[1] = m[n][1] /\ e[2] \in Int
        /\ m[n][1] \in Int /\ m[n][2] \in Int
        /\ e[1] \in Int /\ e[2] >= m[n][2] /\ e[2] >= s[2] /\ (e[2] = m[n][2] \/ e[2] = s[2])
    BY <1>1, <1>2, <1>4
  <2>9. 1 <= e[1] /\ e[1] < e[2] /\ e[2] <= Len(text) + 1
    <3>1. 1 <= m[n][1] /\ m[n][1] < m[n][2] /\ m[n][2] <= Len(text) + 1
      BY <1>1, <2>2
    <3> HIDE DEF e
    <3> QED
      BY <1>2, <2>2, <3>1
  <2>3. Len(new) = n /\ new[n] = e /\ \A j \in 1..n : j # n => new[j] = m[j]
    BY <1>1, <2>1, <2>2 DEF Pairs
  <2> HIDE DEF e, new, n
  <2>4. m[n][1] <= s[1]
    BY <1>4 DEF n
  <2>5. \A j \in 1..n : 1 <= new[j][1] /\ new[j][1] < new[j][2] /\ new[j][2] <= Len(text) + 1
    <3> TAKE j \in 1..n
    <3>1. CASE j = n
      BY <2>3, <2>9, <3>1
    <3>2. CASE j # n
      BY <1>1, <2>3, <3>2
    <3> QED
      BY <3>1, <3>2
  <2>6. \A j, k \in 1..n : j < k => new[j][2] < new[k][1]
    <3> TAKE j, k \in 1..n
    <3> HAVE j < k
    <3>1. j # n /\ new[j] = m[j]
      BY <1>1, <2>3
    <3>2. new[k][1] = m[k][1]
      BY <2>2, <2>3
    <3> QED
      BY <1>1, <3>1, <3>2
  <2>7. ASSUME NEW x \in Int PROVE In(x, new) <=> In(x, m) \/ x \in Positions(s)
    <3>1. x \in Positions(e) <=> x \in Positions(m[n]) \/ x \in Positions(s)
      <4>1. s[1] <= m[n][2]
        BY <1>4 DEF n
      <4>2. /\ x \in Positions(e) <=> m[n][1] <= x /\ x < e[2]
            /\ x \in Positions(m[n]) <=> m[n][1] <= x /\ x < m[n][2]
            /\ x \in Positions(s) <=> s[1] <= x /\ x < s[2]
        BY <1>2, <2>2, <2>9, Within
      <4> QED
        BY <1>2, <2>2, <2>4, <4>1, <4>2
    <3>2. In(x, new) <=> \E j \in 1..n : x \in Positions(new[j])
      BY <2>3 DEF In
    <3>3. In(x, m) <=> \E j \in 1..n : x \in Positions(m[j])
      BY DEF In, n
    <3> QED
      BY <2>2, <2>3, <3>1, <3>2, <3>3
  <2>8. Apart(text, new)
    BY <1>3, <2>3, <2>5, <2>6 DEF Apart
  <2> QED
    BY <1>4, <2>2, <2>3, <2>4, <2>7, <2>8 DEF new
<1>5. CASE ~(n > 0 /\ s[1] <= m[n][2])
  <2>1. new = Append(m, s)
    <3>1. m # <<>> => n > 0
      BY <1>1 DEF Pairs
    <3> QED
      BY <1>5, <3>1 DEF Joined
  <2>2. Len(new) = n + 1 /\ new[n + 1] = s /\ \A j \in 1..n : new[j] = m[j]
    BY <1>1, <1>2, <2>1 DEF Pairs
  <2> HIDE DEF new, n
  <2>3. \A j \in 1..(n + 1) : j = n + 1 \/ j \in 1..n
    BY <1>1
  <2>4. \A j \in 1..(n + 1) : 1 <= new[j][1] /\ new[j][1] < new[j][2] /\ new[j][2] <= Len(text) + 1
    BY <1>1, <1>2, <2>2, <2>3
  <2>5. \A j, k \in 1..(n + 1) : j < k => new[j][2] < new[k][1]
    <3> TAKE j, k \in 1..(n + 1)
    <3> HAVE j < k
    <3>1. j \in 1..n /\ new[j] = m[j] /\ n \in 1..n
      BY <1>1, <2>2, <2>3
    <3>2. CASE k \in 1..n
      BY <1>1, <2>2, <3>1, <3>2
    <3>3. CASE k = n + 1
      <4>1. m[n][2] < s[1]
        <5>1. n > 0 /\ m[n][2] \in Int
          BY <1>1, <3>1
        <5> QED
          BY <1>2, <1>5, <5>1
      <4>2. j = n \/ j < n
        BY <1>1, <3>1
      <4>3. m[j][2] < s[1]
        <5>1. CASE j = n
          BY <4>1, <5>1
        <5>2. CASE j < n
          <6>1. m[j][2] < m[n][1] /\ m[n][1] < m[n][2]
            BY <1>1, <3>1, <5>2
          <6> QED
            BY <1>1, <1>2, <3>1, <4>1, <6>1
        <5> QED
          BY <4>2, <5>1, <5>2
      <4> QED
        BY <2>2, <3>1, <3>3, <4>3
    <3> QED
      BY <2>3, <3>2, <3>3
  <2>6. ASSUME NEW x \in Int PROVE In(x, new) <=> In(x, m) \/ x \in Positions(s)
    <3>1. In(x, new) <=> \E j \in 1..(n + 1) : x \in Positions(new[j])
      BY <2>2 DEF In
    <3>2. In(x, m) <=> \E j \in 1..n : x \in Positions(m[j])
      BY DEF In, n
    <3>3. n + 1 \in 1..(n + 1) /\ \A j \in 1..n : j \in 1..(n + 1)
      BY <1>1
    <3> QED
      BY <2>2, <2>3, <3>1, <3>2, <3>3
  <2>7. Apart(text, new)
    BY <1>3, <2>2, <2>4, <2>5 DEF Apart
  <2> QED
    BY <1>1, <1>2, <2>2, <2>6, <2>7 DEF new
<1> QED
  BY <1>4, <1>5

(* The merged spans are apart and cover just what the spans cover.         *)
LEMMA MergeFacts ==
    ASSUME NEW text, Len(text) \in Nat, NEW found, found \subseteq Spans(text)
    PROVE  /\ Apart(text, Merge(found))
           /\ \A x \in Int : In(x, Merge(found)) <=> \E s \in found : x \in Positions(s)
<1> DEFINE n == Cardinality(found)
           sorted == Sorted(found, Precedes)
           R(f) == [i \in 0..n |-> IF i = 0 THEN <<>> ELSE Joined(f[i - 1], sorted[i])]
<1>1. found \subseteq Int \X Int
  BY SpanFacts DEF Spans
<1>2. IsFiniteSet(found)
  <2>1. IsFiniteSet(1..Len(text)) /\ IsFiniteSet(2..(Len(text) + 1))
    BY FS_Interval
  <2>2. IsFiniteSet((1..Len(text)) \X (2..(Len(text) + 1)))
    BY <2>1, FS_Product
  <2>3. found \subseteq (1..Len(text)) \X (2..(Len(text) + 1))
    BY DEF Spans
  <2> QED
    BY <2>2, <2>3, FS_Subset
<1>3. n \in Nat /\ Ordered(sorted, n, found)
  BY <1>1, <1>2, SortedOrders
<1>4. /\ \A i \in 1..n : sorted[i] \in found /\ sorted[i] \in Int \X Int
      /\ \A i, j \in 1..n : i < j => sorted[i][1] <= sorted[j][1]
      /\ \A x \in found : \E i \in 1..n : sorted[i] = x
  BY <1>1, <1>3 DEF Ordered
<1>5. Merge(found) = (CHOOSE f : f = R(f))[n]
  BY DEF Merge
<1> HIDE DEF n, sorted
<1>6. \E f : f = R(f)
  <2> DEFINE step == [i \in 1..n |-> [m \in Pairs |-> Joined(m, sorted[i])]]
  <2>1. step \in Steps(n, Pairs)
    BY <1>4, JoinedTyped DEF Steps
  <2>2. <<>> \in Pairs
    BY DEF Pairs
  <2> HIDE DEF step
  <2>3. PICK g : Stepped(n, Pairs, <<>>, step, g)
    BY <1>3, <2>1, <2>2, StepsExist
  <2>4. g \in [0..n -> Pairs] /\ g[0] = <<>> /\ \A i \in 1..n : g[i] = step[i][g[i - 1]]
    BY <2>3 DEF Stepped
  <2>5. ASSUME NEW i \in 0..n PROVE g[i] = IF i = 0 THEN <<>> ELSE Joined(g[i - 1], sorted[i])
    <3>1. CASE i = 0
      BY <2>4, <3>1
    <3>2. CASE i # 0
      <4>1. i \in 1..n /\ i - 1 \in 0..n
        BY <1>3, <3>2
      <4>2. g[i] = step[i][g[i - 1]] /\ g[i - 1] \in Pairs
        BY <2>4, <4>1
      <4> QED
        BY <3>2, <4>1, <4>2 DEF step
    <3> QED
      BY <3>1, <3>2
  <2>6. g = R(g)
    BY <2>4, <2>5
  <2> QED
    BY <2>6
<1> DEFINE f == CHOOSE g : g = R(g)
<1>7. f = R(f)
  BY <1>6
<1>8. Merge(found) = f[n]
  BY <1>5
<1> HIDE DEF f
<1>9. f[0] = <<>> /\ \A i \in 1..n : f[i] = Joined(f[i - 1], sorted[i])
  <2>1. \A i \in 0..n : f[i] = IF i = 0 THEN <<>> ELSE Joined(f[i - 1], sorted[i])
    BY <1>7
  <2> QED
    BY <1>3, <2>1
<1> DEFINE P(i) == /\ Apart(text, f[i])
                   /\ Len(f[i]) > 0 => i > 0 /\ f[i][Len(f[i])][1] <= sorted[i][1]
                   /\ \A x \in Int : In(x, f[i]) <=> \E j \in 1..i : x \in Positions(sorted[j])
           K == {i \in 0..n : P(i)}
<1>10. 0 \in K
  <2>1. Apart(text, <<>>) /\ Len(<<>>) = 0
    BY DEF Apart, Pairs
  <2>2. \A x : ~In(x, <<>>)
    BY DEF In
  <2> QED
    BY <1>3, <1>9, <2>1, <2>2
<1>11. ASSUME NEW i \in 1..n, i - 1 \in K PROVE i \in K
  <2> DEFINE m == f[i - 1]
  <2>1. sorted[i] \in Spans(text) /\ sorted[i][1] \in Int
    BY <1>4, SpanFacts
  <2>2. Len(m) > 0 => m[Len(m)][1] <= sorted[i][1]
    <3> SUFFICES ASSUME Len(m) > 0 PROVE m[Len(m)][1] <= sorted[i][1]
      OBVIOUS
    <3>1. i - 1 > 0 /\ m[Len(m)][1] <= sorted[i - 1][1]
      BY <1>11
    <3>2. i - 1 \in 1..n /\ i - 1 < i
      BY <1>3, <3>1
    <3>3. sorted[i - 1][1] <= sorted[i][1] /\ sorted[i - 1][1] \in Int
      BY <1>4, <3>2
    <3>4. m[Len(m)][1] \in Int
      BY <1>11 DEF Apart, Pairs
    <3> QED
      BY <2>1, <3>1, <3>3, <3>4
  <2>3. Apart(text, m)
    BY <1>11
  <2>4. f[i] = Joined(m, sorted[i])
    BY <1>9
  <2>5. /\ Apart(text, f[i])
        /\ Len(f[i]) > 0 /\ f[i][Len(f[i])][1] <= sorted[i][1]
        /\ \A x \in Int : In(x, f[i]) <=> In(x, m) \/ x \in Positions(sorted[i])
    <3> HIDE DEF m
    <3> QED
      BY <2>1, <2>2, <2>3, <2>4, JoinedFacts
  <2>6. ASSUME NEW x \in Int PROVE In(x, f[i]) <=> \E j \in 1..i : x \in Positions(sorted[j])
    <3>1. In(x, m) <=> \E j \in 1..(i - 1) : x \in Positions(sorted[j])
      BY <1>11
    <3>2. \A j : j \in 1..i <=> j \in 1..(i - 1) \/ j = i
      OBVIOUS
    <3> HIDE DEF m
    <3> QED
      BY <2>5, <3>1, <3>2
  <2> QED
    BY <2>5, <2>6
<1>12. n \in K
  <2>1. 0..n \subseteq K
    <3> HIDE DEF K
    <3> QED
      BY <1>3, <1>10, <1>11, UpTo
  <2> HIDE DEF K
  <2> QED
    BY <1>3, <2>1
<1>13. \A x : (\E j \in 1..n : x \in Positions(sorted[j])) <=> \E s \in found : x \in Positions(s)
  BY <1>4
<1> QED
  BY <1>8, <1>12, <1>13

(* All positions picked are the text. *)
LEMMA AllPicked ==
    ASSUME NEW R, NEW text \in Seq(R)
    PROVE  Picked(text, 1..Len(text)) = text
<1> DEFINE n == Len(text)
           K == 1..n
           q == [i \in 1..n |-> i]
<1>1. n \in Nat /\ text = [i \in 1..n |-> text[i]]
  OBVIOUS
<1> HIDE DEF n
<1>2. K \subseteq Int /\ Lists(q, n, K)
  BY <1>1 DEF Lists
<1>3. \A i \in 1..n : q[i] = i
  OBVIOUS
<1> HIDE DEF q, K
<1>4. Picked(text, K) = Along(text, q, n)
  BY <1>1, <1>2, PicksListed
<1>5. Along(text, q, n) = [i \in 1..n |-> text[i]]
  BY <1>3 DEF Along
<1> QED
  BY <1>1, <1>4, <1>5 DEF K, n

(* Cutting the merged spans one by one leaves the characters outside them. *)
LEMMA WithoutFacts ==
    ASSUME NEW R, NEW text \in Seq(R), NEW m, Apart(text, m)
    PROVE  Without(text, m) = Picked(text, {x \in 1..Len(text) : ~In(x, m)})
<1> DEFINE n == Len(m)
           all == 1..Len(text)
           K(i) == {x \in all : ~\E j \in (n + 1 - i)..n : x \in Positions(m[j])}
           r == [i \in 0..n |-> Picked(text, K(i))]
           G(f) == [i \in 0..n |-> IF i = 0 THEN text ELSE Cut(f[i - 1], m[n + 1 - i])]
<1>1. /\ m \in Pairs /\ n \in Nat /\ Len(text) \in Nat
      /\ \A j \in 1..n : /\ m[j][1] \in Int /\ m[j][2] \in Int /\ m[j] = <<m[j][1], m[j][2]>>
                         /\ 1 <= m[j][1] /\ m[j][1] < m[j][2] /\ m[j][2] <= Len(text) + 1
      /\ \A j, k \in 1..n : j < k => m[j][2] < m[k][1]
  BY DEF Apart, Pairs
<1>2. Without(text, m) = (CHOOSE f : f = G(f))[n]
  BY DEF Without
<1> HIDE DEF n
<1>3. Picked(text, K(0)) = text
  <2>1. (n + 1 - 0)..n = {}
    BY <1>1
  <2>2. K(0) = all
    BY <2>1
  <2> HIDE DEF K
  <2> QED
    BY <2>2, AllPicked
<1>4. ASSUME NEW i \in 1..n PROVE Picked(text, K(i)) = Cut(Picked(text, K(i - 1)), m[n + 1 - i])
  <2> DEFINE k == n + 1 - i
             a == m[k][1]
             b == m[k][2]
  <2>1. k \in 1..n /\ n + 1 - (i - 1) = k + 1
    BY <1>1
  <2>2. /\ a \in Nat \ {0} /\ b \in Nat /\ a < b /\ b <= Len(text) + 1 /\ m[k] = <<a, b>>
    BY <1>1, <2>1
  <2>3. K(i - 1) = {x \in all : ~\E j \in (k + 1)..n : x \in Positions(m[j])}
    BY <2>1
  <2>4. K(i) = {x \in all : ~\E j \in k..n : x \in Positions(m[j])}
    OBVIOUS
  <2> HIDE DEF K, k, a, b
  <2>5. \A j : j \in k..n <=> j = k \/ j \in (k + 1)..n
    BY <1>1, <2>1
  <2>6. K(i) = K(i - 1) \ Positions(<<a, b>>)
    BY <2>2, <2>3, <2>4, <2>5
  <2>7. 1..(b - 1) \subseteq K(i - 1)
    <3> SUFFICES ASSUME NEW x \in 1..(b - 1) PROVE x \in K(i - 1)
      OBVIOUS
    <3>1. x \in all /\ x < b
      BY <1>1, <2>2
    <3>2. ASSUME NEW j \in (k + 1)..n PROVE x \notin Positions(m[j])
      <4>1. j \in 1..n /\ k < j
        BY <1>1, <2>1
      <4>2. m[k][2] < m[j][1] /\ m[j][1] \in Int
        BY <1>1, <2>1, <4>1
      <4> QED
        BY <2>2, <3>1, <4>2 DEF Positions, b
    <3> QED
      BY <2>3, <3>1, <3>2
  <2>8. K(i - 1) \subseteq 1..Len(text)
    BY <2>3
  <2> DEFINE Ki == K(i - 1)
  <2>9. Cuttable(text, Ki, a, b)
    BY <2>2, <2>7, <2>8 DEF Cuttable
  <2> HIDE DEF Ki
  <2>10. Cut(Picked(text, Ki), <<a, b>>) = Remaining(text, Ki, a, b)
    BY <2>9, CutPicks
  <2> QED
    BY <2>2, <2>6, <2>10 DEF Ki, k, Remaining
<1> HIDE DEF K
<1>5. r = G(r)
  <2>1. ASSUME NEW i \in 0..n PROVE r[i] = IF i = 0 THEN text ELSE Cut(r[i - 1], m[n + 1 - i])
    <3>1. CASE i = 0
      BY <1>3, <3>1
    <3>2. CASE i # 0
      <4>1. i \in 1..n /\ i - 1 \in 0..n
        BY <1>1, <3>2
      <4>2. r[i] = Picked(text, K(i)) /\ r[i - 1] = Picked(text, K(i - 1))
        BY <4>1
      <4> QED
        BY <1>4, <3>2, <4>1, <4>2
    <3> QED
      BY <3>1, <3>2
  <2>2. r = [i \in 0..n |-> r[i]]
    OBVIOUS
  <2> HIDE DEF r
  <2> QED
    BY <2>1, <2>2
<1> DEFINE f == CHOOSE g : g = G(g)
<1>6. f = G(f)
  <2> HIDE DEF r
  <2> QED
    BY <1>5
<1>7. Without(text, m) = f[n]
  BY <1>2 DEF n
<1> HIDE DEF f
<1>8. \A i \in 0..n : f[i] = IF i = 0 THEN text ELSE Cut(f[i - 1], m[n + 1 - i])
  BY <1>6
<1> DEFINE S == {i \in 0..n : f[i] = Picked(text, K(i))}
<1>9. 0 \in S
  BY <1>1, <1>3, <1>8
<1>10. ASSUME NEW i \in 1..n, i - 1 \in S PROVE i \in S
  <2>1. i \in 0..n /\ i # 0
    BY <1>1
  <2> QED
    BY <1>4, <1>8, <1>10, <2>1
<1>11. n \in S
  <2>1. 0..n \subseteq S
    <3> HIDE DEF S
    <3> QED
      BY <1>1, <1>9, <1>10, UpTo
  <2> HIDE DEF S
  <2> QED
    BY <1>1, <2>1
<1>12. K(n) = {x \in all : ~In(x, m)}
  <2>1. (n + 1 - n)..n = 1..n
    BY <1>1
  <2> QED
    BY <2>1 DEF K, In, n
<1> QED
  BY <1>7, <1>11, <1>12

----------------------------------------------------------------------------
(* The injection rail and the texts of a call. *)

(* What is left of a text without its findings. *)
Left(text) == Picked(text, DOMAIN text \ UNION {Positions(s) : s \in Findings(text)})

(* Characters picked of a text are a text of its characters.               *)
LEMMA PickedTyped ==
    ASSUME NEW R, NEW text \in Seq(R), NEW K, K \subseteq 1..Len(text)
    PROVE  Picked(text, K) \in Seq(R)
<1> DEFINE n == Cardinality(K)
           q == Sorted(K, <)
<1>0. Len(text) \in Nat /\ \A i \in 1..Len(text) : text[i] \in R
  OBVIOUS
<1>1. K \subseteq Int
  <2> DEFINE m == Len(text)
  <2>1. K \subseteq 1..m /\ m \in Nat
    BY <1>0
  <2> HIDE DEF m
  <2> QED
    BY <2>1
<1>2. IsFiniteSet(K)
  <2>1. IsFiniteSet(1..Len(text))
    BY <1>0, FS_Interval
  <2> QED
    BY <2>1, FS_Subset
<1>3. n \in Nat /\ Lists(q, n, K)
  BY <1>1, <1>2, SortedLists
<1> HIDE DEF n, q
<1>4. Picked(text, K) = Along(text, q, n)
  BY <1>1, <1>3, PicksListed
<1>5. \A i \in 1..n : text[q[i]] \in R
  BY <1>0, <1>3 DEF Lists
<1> QED
  BY <1>3, <1>4, <1>5 DEF Along

LEMMA FindingsAreSpans ==
    ASSUME NEW text, Len(text) \in Nat
    PROVE  Findings(text) \subseteq Spans(text)
<1>1. \A words : Matches(text, words) \subseteq Spans(text)
  BY MatchesFacts
<1>2. SuspectLines(text) \subseteq Spans(text)
  BY DEF SuspectLines
<1> QED
  BY <1>1, <1>2 DEF Findings

(* A text without findings does not trip the rail. *)
LEMMA NoFindingsNoTrip ==
    ASSUME NEW text, Len(text) \in Nat, Findings(text) = {}
    PROVE  ~Trips(text)
<1> SUFFICES ASSUME Trips(text) PROVE FALSE
  OBVIOUS
<1>1. PICK s \in Spans(text) : Piece(text, s) \in Strippable \cup MustBlock
  BY DEF Trips, Occurrences
<1> DEFINE w == Piece(text, s)
<1>2. Occurrences(text, {w}) # {}
  BY <1>1 DEF Occurrences
<1> HIDE DEF w
<1>3. Matches(text, {w}) # {}
  BY <1>2, MatchesFacts
<1>4. w \in Strippable \cup MustBlock
  BY <1>1 DEF w
<1> QED
  BY <1>3, <1>4 DEF Findings

(* What the injection rail lets through is the rest of the text, and the   *)
(* rest does not trip it.                                                  *)
LEMMA ScanLeaves ==
    ASSUME NEW R, NEW text \in Seq(R)
    PROVE  /\ scan_injection(text).sanitised \in Seq(R)
           /\ scan_injection(text).action # "block" =>
                 scan_injection(text).sanitised = Left(text) /\ ~Trips(Left(text))
<1> DEFINE found == Findings(text)
           rest == Without(text, Merge(found))
<1>1. Len(text) \in Nat /\ DOMAIN text = 1..Len(text)
  OBVIOUS
<1>2. found \subseteq Spans(text)
  BY <1>1, FindingsAreSpans
<1>3. rest = Left(text)
  <2> DEFINE m == Merge(found)
  <2>1. Apart(text, m) /\ \A x \in Int : In(x, m) <=> \E s \in found : x \in Positions(s)
    BY <1>1, <1>2, MergeFacts
  <2> HIDE DEF m
  <2>2. Without(text, m) = Picked(text, {x \in 1..Len(text) : ~In(x, m)})
    BY <2>1, WithoutFacts
  <2>3. {x \in 1..Len(text) : ~In(x, m)} = DOMAIN text \ UNION {Positions(s) : s \in found}
    BY <1>1, <2>1
  <2> QED
    BY <2>2, <2>3 DEF Left, m
<1>4. Left(text) \in Seq(R)
  <2> DEFINE K == DOMAIN text \ UNION {Positions(s) : s \in found}
  <2>1. K \subseteq 1..Len(text)
    BY <1>1
  <2> HIDE DEF K
  <2>2. Picked(text, K) \in Seq(R)
    BY <2>1, PickedTyped
  <2> QED
    BY <2>2 DEF Left, K
<1>5. CASE found = {}
  <2>1. Left(text) = text
    <3>1. DOMAIN text \ UNION {Positions(s) : s \in found} = 1..Len(text)
      BY <1>1, <1>5
    <3> QED
      BY <3>1, AllPicked DEF Left
  <2>2. ~Trips(text)
    BY <1>1, <1>5, NoFindingsNoTrip
  <2> QED
    BY <1>5, <2>1, <2>2 DEF scan_injection
<1>6. CASE found # {}
  BY <1>3, <1>4, <1>6 DEF scan_injection
<1> QED
  BY <1>5, <1>6

(* The characters of the texts a call deals with. *)
Characters ==
    DOMAIN Digit \cup Separators \cup {Mark} \cup
        UNION {Range(t) : t \in Questions \cup {r.text : r \in Replies}}

LEMMA TextFacts ==
    /\ Text = Seq(Characters) /\ Mark \in Characters /\ <<>> \in Text
    /\ Questions \subseteq Text
    /\ \A r \in Replies : r.text \in Text
    /\ \A t \in Text : IsText(t) /\ \A i \in 1..Len(t) : t[i] \in Characters
<1>1. Text = Seq(Characters) /\ Mark \in Characters
  BY DEF Text, Characters
<1>2. ASSUME NEW t \in Questions \cup {r.text : r \in Replies} PROVE t \in Text
  <2>1. Range(t) \subseteq Characters
    BY DEF Characters
  <2>2. t \in Seq(Range(t))
    BY CallAssumption
  <2> HIDE DEF Characters
  <2> DEFINE S == Range(t)
  <2>3. S \subseteq Characters /\ t \in Seq(S)
    BY <2>1, <2>2
  <2> HIDE DEF S
  <2> QED
    BY <1>1, <2>3
<1>3. \A t \in Text : IsText(t) /\ \A i \in 1..Len(t) : t[i] \in Characters
  <2> HIDE DEF Characters
  <2> QED
    BY <1>1 DEF IsText
<1> QED
  BY <1>1, <1>2, <1>3

LEMMA RedactedTyped ==
    ASSUME NEW t \in Text, NEW spans
    PROVE  Redacted(t, spans) \in Text
<1>1. Len(t) \in Nat /\ DOMAIN t = 1..Len(t) /\ \A i \in 1..Len(t) : t[i] \in Characters
  BY TextFacts DEF IsText
<1>2. \A i \in DOMAIN t : (IF \E s \in spans : i \in Positions(s) THEN Mark ELSE t[i]) \in Characters
  BY <1>1, TextFacts
<1> HIDE DEF Mark
<1>3. Redacted(t, spans) \in [1..Len(t) -> Characters]
  BY <1>1, <1>2 DEF Redacted
<1> QED
  BY <1>1, <1>3, TextFacts

(* Unless it blocks, the PII rail redacts what it accepts.                 *)
LEMMA RedactedScan ==
    ASSUME NEW t
    PROVE  /\ scan_pii(t).action # "block" => scan_pii(t).sanitised = Redacted(t, Accepted(t))
           /\ t \in Text /\ Len(t) <= MaxScan => scan_pii(t).sanitised = Redacted(t, Accepted(t))
           /\ t \in Text => scan_pii(t).sanitised \in Text
<1>1. CASE Len(t) > MaxScan
  <2>1. scan_pii(t) = [action |-> "block", sanitised |-> <<>>]
    BY <1>1 DEF scan_pii
  <2>2. t \in Text => ~(Len(t) <= MaxScan)
    BY <1>1, TextFacts, RailsAssumption DEF IsText
  <2>3. <<>> \in Text
    BY TextFacts
  <2>4. /\ scan_pii(t).action = "block" /\ scan_pii(t).sanitised = <<>>
        /\ ~(t \in Text /\ Len(t) <= MaxScan)
    BY <2>1, <2>2
  <2> QED
    BY <1>1, <2>3, <2>4
<1>2. CASE ~(Len(t) > MaxScan)
  <2>1. scan_pii(t).sanitised = Redacted(t, Accepted(t))
    BY <1>2 DEF scan_pii
  <2> QED
    BY <2>1, RedactedTyped
<1> QED
  BY <1>1, <1>2

(* The prompt is what is left of the question, and what is released is the *)
(* output of the PII rail.                                                 *)
TextInv ==
    /\ stage # "asked" /\ reason # "injection_blocked" =>
          /\ prompt = IF Left(question) = <<>> THEN question ELSE Left(question)
          /\ ~Trips(Left(question))
    /\ stage \in {"calling", "completed", "answered"} =>
          sent = Redacted(prompt, Accepted(prompt))
    /\ stage = "answered" =>
          shown = Redacted(reply.text, Accepted(reply.text))

LEMMA TypedInit == Init => TypeOK /\ TextInv
<1> SUFFICES ASSUME Init PROVE TypeOK /\ TextInv
  OBVIOUS
<1>1. question \in Text /\ <<>> \in Text
  BY TextFacts DEF Init
<1>2. MaxRetries \in Nat
  BY CallAssumption
<1>3. TypeOK
  BY <1>1, <1>2 DEF Init, TypeOK, NoReply, Forms, Finishes, Reasons, HintCap
<1>4. TextInv
  BY DEF Init, TextInv
<1> QED
  BY <1>3, <1>4

LEMMA CodesAreReasons ==
    \A r : ErrorCode(r) \in Reasons \ {"none", "injection_blocked"}
  BY DEF ErrorCode, Reasons

LEMMA TypedNext == CallInv /\ TypeOK /\ TextInv /\ [Next]_vars => TypeOK' /\ TextInv'
<1> SUFFICES ASSUME CallInv, TypeOK, TextInv, [Next]_vars
             PROVE  TypeOK' /\ TextInv'
  OBVIOUS
<1>0. /\ MaxRetries \in Nat /\ HintCap = 30
      /\ attempt \in 0..MaxRetries /\ slept \in Nat /\ slept <= attempt * HintCap
  BY CallAssumption DEF HintCap, CallInv, TypeOK
<1> DEFINE Typed == /\ {question, prompt, sent, shown} \subseteq Text
                    /\ reply.form \in Forms /\ reply.text \in Text /\ reply.finish \in Finishes
                    /\ attempt \in 0..MaxRetries
                    /\ slept \in 0..(MaxRetries * HintCap)
                    /\ billed \in Nat
           Staged == /\ stage \in {"asked", "screened", "calling", "completed"} \cup Ended
                     /\ reason \in Reasons
                     /\ stage = "degraded" <=> reason # "none"
<1>a. TypeOK <=> Typed /\ Staged
  BY DEF TypeOK
<1>b. TypeOK' <=> Typed' /\ Staged'
  BY DEF TypeOK
<1>c. Typed /\ Staged
  BY <1>a
<1>1. CASE Screen
  <2> DEFINE v == scan_injection(question)
  <2>1. /\ v.sanitised \in Text
        /\ v.action # "block" => v.sanitised = Left(question) /\ ~Trips(Left(question))
    <3>1. question \in Seq(Characters)
      BY <1>c, TextFacts
    <3> QED
      BY <3>1, TextFacts, ScanLeaves
  <2>2. /\ stage = "asked"
        /\ UNCHANGED <<question, sent, attempt, slept, billed, reply, shown>>
        /\ IF v.action = "block"
             THEN stage' = "degraded" /\ reason' = "injection_blocked" /\ prompt' = prompt
             ELSE /\ prompt' = IF v.sanitised = <<>> THEN question ELSE v.sanitised
                  /\ stage' = "screened" /\ reason' = reason
    BY <1>1 DEF Screen, Degraded, Moves
  <2> HIDE DEF v
  <2>3. Typed'
    BY <1>c, <2>1, <2>2
  <2>4. Staged'
    BY <1>c, <2>2 DEF Ended, Reasons
  <2>5. TextInv'
    BY <2>1, <2>2 DEF TextInv
  <2> QED
    BY <1>b, <2>3, <2>4, <2>5
<1>2. CASE Scrub
  <2> DEFINE v == scan_pii(prompt)
  <2>1. /\ v.sanitised \in Text
        /\ v.action # "block" => v.sanitised = Redacted(prompt, Accepted(prompt))
    BY <1>c, RedactedScan
  <2>2. /\ stage = "screened"
        /\ UNCHANGED <<question, prompt, attempt, slept, billed, reply, shown>>
        /\ IF v.action = "block"
             THEN stage' = "degraded" /\ reason' = "provider_error" /\ sent' = sent
             ELSE sent' = v.sanitised /\ stage' = "calling" /\ reason' = reason
    BY <1>2 DEF Scrub, Degraded, Moves
  <2> HIDE DEF v
  <2>3. Typed'
    BY <1>c, <2>1, <2>2
  <2>4. Staged'
    BY <1>c, <2>2 DEF Ended, Reasons
  <2>5. TextInv'
    BY <1>c, <2>1, <2>2 DEF TextInv
  <2> QED
    BY <1>b, <2>3, <2>4, <2>5
<1>3. CASE NoKey
  <2>1. /\ stage = "calling" /\ stage' = "degraded" /\ reason' = "provider_error"
        /\ UNCHANGED <<question, prompt, sent, attempt, slept, billed, reply, shown>>
    BY <1>3 DEF NoKey, Degraded
  <2>2. Typed'
    BY <1>c, <2>1
  <2>3. Staged'
    BY <1>c, <2>1 DEF Ended, Reasons
  <2>4. TextInv'
    BY <1>c, <2>1 DEF TextInv
  <2> QED
    BY <1>b, <2>2, <2>3, <2>4
<1>4. CASE Deliver
  <2> DEFINE screened == scan_pii(reply.text).sanitised
  <2>1. /\ screened \in Text
        /\ Len(reply.text) <= MaxScan => screened = Redacted(reply.text, Accepted(reply.text))
    BY <1>c, RedactedScan
  <2>2. /\ stage = "completed"
        /\ UNCHANGED <<question, prompt, sent, attempt, slept, billed, reply>>
        /\ \/ /\ stage' = "degraded" /\ reason' \in Reasons \ {"none", "injection_blocked"}
              /\ shown' = shown
           \/ /\ stage' = "answered" /\ reason' = reason /\ shown' = screened
              /\ Len(reply.text) <= MaxAnswer
    BY <1>4 DEF Deliver, Degraded, Moves, Reasons
  <2>6. Len(reply.text) <= MaxAnswer => Len(reply.text) <= MaxScan
    <3>1. Len(reply.text) \in Nat /\ MaxScan \in Nat /\ MaxAnswer \in Nat /\ MaxAnswer <= MaxScan
      BY <1>c, TextFacts, RailsAssumption, CallAssumption DEF IsText
    <3> QED
      BY <3>1
  <2> HIDE DEF screened
  <2>3. Typed'
    BY <1>c, <2>1, <2>2
  <2>4. Staged'
    BY <1>c, <2>2 DEF Ended
  <2>5. TextInv'
    BY <1>c, <2>1, <2>2, <2>6 DEF TextInv
  <2> QED
    BY <1>b, <2>3, <2>4, <2>5
<1>5. ASSUME NEW r \in Refusal, Retry(r) PROVE TypeOK' /\ TextInv'
  <2>1. r.hint \in Hints
    BY DEF Refusal
  <2>2. Delay(r.hint) \in 0..HintCap
    BY <1>0, <2>1, DelayIsCapped
  <2>3. /\ stage = "calling" /\ attempt < MaxRetries
        /\ slept' = slept + Delay(r.hint) /\ attempt' = attempt + 1
        /\ UNCHANGED <<stage, question, prompt, sent, billed, reply, shown, reason>>
    BY <1>5 DEF Retry
  <2>4. attempt' \in 0..MaxRetries /\ slept' \in 0..(MaxRetries * HintCap)
    BY <1>0, <2>2, <2>3
  <2>5. Typed'
    BY <1>c, <2>3, <2>4
  <2>6. Staged' /\ TextInv'
    BY <1>c, <2>3 DEF TextInv
  <2> QED
    BY <1>b, <2>5, <2>6
<1>6. ASSUME NEW r \in Refusal, GiveUp(r) PROVE TypeOK' /\ TextInv'
  <2>1. /\ stage = "calling" /\ stage' = "degraded"
        /\ reason' \in Reasons \ {"none", "injection_blocked"}
        /\ attempt' = 0 /\ slept' = 0
        /\ UNCHANGED <<question, prompt, sent, billed, reply, shown>>
    BY <1>6, CodesAreReasons DEF GiveUp, Degraded, Leaves
  <2>2. Typed'
    BY <1>0, <1>c, <2>1
  <2>3. Staged'
    BY <1>c, <2>1 DEF Ended
  <2>4. TextInv'
    BY <1>c, <2>1 DEF TextInv
  <2> QED
    BY <1>b, <2>2, <2>3, <2>4
<1>7. ASSUME NEW charged \in {0, 1}, TransportError(charged) PROVE TypeOK' /\ TextInv'
  <2>1. /\ stage = "calling" /\ stage' = "degraded" /\ reason' = "provider_error"
        /\ attempt' = 0 /\ slept' = 0 /\ billed' = billed + charged
        /\ UNCHANGED <<question, prompt, sent, reply, shown>>
    BY <1>7 DEF TransportError, Degraded, Leaves
  <2>2. Typed'
    BY <1>0, <1>c, <2>1
  <2>3. Staged'
    BY <1>c, <2>1 DEF Ended, Reasons
  <2>4. TextInv'
    BY <1>c, <2>1 DEF TextInv
  <2> QED
    BY <1>b, <2>2, <2>3, <2>4
<1>8. ASSUME NEW form \in Forms, NEW text \in Text, NEW finish \in {"stop", "max_tokens"},
             Complete(form, text, finish)
      PROVE  TypeOK' /\ TextInv'
  <2>1. /\ stage = "calling" /\ stage' = "completed" /\ reason' = reason
        /\ attempt' = 0 /\ slept' = 0 /\ billed' = billed + 1
        /\ reply'.form = form /\ reply'.text = text /\ reply'.finish \in Finishes
        /\ UNCHANGED <<question, prompt, sent, shown>>
    BY <1>8 DEF Complete, Moves, Leaves, Finishes
  <2>2. Typed'
    BY <1>0, <1>c, <2>1
  <2>3. Staged'
    BY <1>c, <2>1 DEF Ended
  <2>4. TextInv'
    BY <1>c, <2>1 DEF TextInv
  <2> QED
    BY <1>b, <2>2, <2>3, <2>4
<1>9. CASE UNCHANGED vars
  BY <1>9, <1>b, <1>c DEF vars, TextInv
<1>10. ASSUME NEW r \in Replies, NEW finish \in {"stop", "max_tokens"}, Complete(r.form, r.text, finish)
       PROVE  TypeOK' /\ TextInv'
  <2>1. r.form \in Forms /\ r.text \in Text
    BY CallAssumption, TextFacts
  <2> QED
    BY <1>8, <1>10, <2>1
<1>11. CASE Complete("prose", <<>>, "max_tokens")
  <2>1. "prose" \in Forms /\ <<>> \in Text
    BY TextFacts DEF Forms
  <2> QED
    BY <1>8, <1>11, <2>1
<1> QED
  BY <1>1, <1>2, <1>3, <1>4, <1>5, <1>6, <1>7, <1>9, <1>10, <1>11 DEF Next

LEMMA TextInvHolds == Spec => [](CallInv /\ TypeOK /\ TextInv)
<1> QED
  BY CallInvInit, CallInvNext, TypedInit, TypedNext, PTL DEF Spec

(* Texts, counters and reasons keep their ranges, and a call is degraded   *)
(* just when it has a reason (PolicyPipeline.ask).                         *)
THEOREM CallTypeCorrect == Spec => []TypeOK
  BY TextInvHolds, PTL

(* Whatever the texts hold, and whatever overlaps in them, of every        *)
(* identifier the PII rail's patterns match some part is redacted before   *)
(* the provider or the employee sees it, and where they match none, of     *)
(* every window of digits that could be a card number (scan_pii).          *)
THEOREM NothingReleasedWhole == Spec => []FoundIsTouched
<1>1. TypeOK /\ TextInv => FoundIsTouched
  <2> SUFFICES ASSUME TypeOK, TextInv, NEW pair \in Released
               PROVE  /\ \A s \in IdentifierSpans(pair[1]) : Touched(s, pair[2])
                      /\ IdentifierSpans(pair[1]) = {} =>
                            \A s \in CardWindows(pair[1]) : Touched(s, pair[2])
    BY DEF FoundIsTouched
  <2>1. \/ pair = <<prompt, sent>> /\ sent = Redacted(prompt, Accepted(prompt))
        \/ pair = <<reply.text, shown>> /\ shown = Redacted(reply.text, Accepted(reply.text))
    BY DEF Released, TextInv
  <2>2. IsText(prompt) /\ IsText(reply.text)
    BY TextFacts DEF TypeOK
  <2>3. IsText(pair[1]) /\ pair[2] = Redacted(pair[1], Accepted(pair[1]))
    BY <2>1, <2>2
  <2> QED
    BY <2>3, RedactedTouches
<1> QED
  BY <1>1, TextInvHolds, PTL

(* The prompt is the question without the positions of its findings, each  *)
(* other character once and in order, and does not trip the rail again     *)
(* (scan_injection).                                                       *)
THEOREM StripLeavesTheRest == Spec => []StripIsExact
<1>1. TextInv => StripIsExact
  BY DEF TextInv, StripIsExact, Kept, Left, Picked
<1> QED
  BY <1>1, TextInvHolds, PTL
=============================================================================
