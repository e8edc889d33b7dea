------------------------- MODULE SessionQueueProofs -------------------------
(***************************************************************************)
(* Theorems about the session queue, for every set of sessions and         *)
(* receivers, batch size and bound: no message is lost or doubled, a       *)
(* session is in one hand at a time, and what a block gives back is in its *)
(* order.                                                                  *)
(***************************************************************************)
EXTENDS SessionQueue, SequenceTheorems, FiniteSetTheorems, TLAPS

Rising(q) == \A i, j \in DOMAIN q : i < j => q[i] < q[j]

\* Every element of S is below every element of T.
Below(S, T) == \A x \in S, y \in T : x < y

-----------------------------------------------------------------------------
(* Lemmas on sequences of messages.                                        *)

LEMMA Facts ==
    ASSUME NEW q \in Seq(Nat)
    PROVE  /\ Len(q) \in Nat /\ DOMAIN q = 1..Len(q)
           /\ \A i \in DOMAIN q : q[i] \in Nat /\ q[i] \in Range(q)
           /\ Range(q) \subseteq Nat
           /\ \A x \in Range(q) : \E i \in DOMAIN q : x = q[i]
           /\ Range(q) = {} <=> q = <<>>
<1>1. Len(q) \in Nat /\ DOMAIN q = 1..Len(q) /\ \A i \in DOMAIN q : q[i] \in Nat
  BY LenProperties
<1>2. Range(q) = {} <=> q = <<>>
  <2>1. q # <<>> => 1 \in DOMAIN q
    BY <1>1, EmptySeq
  <2> QED
    BY <2>1 DEF Range
<1> QED
  BY <1>1, <1>2 DEF Range

LEMMA ConcatFacts ==
    \A a, b \in Seq(Nat) :
        /\ a \o b \in Seq(Nat)
        /\ Range(a \o b) = Range(a) \cup Range(b)
        /\ IsInjective(a \o b) <=>
              IsInjective(a) /\ IsInjective(b) /\ Range(a) \cap Range(b) = {}
        /\ Rising(a \o b) <=>
              Rising(a) /\ Rising(b) /\ Below(Range(a), Range(b))
<1> TAKE a, b \in Seq(Nat)
<1> DEFINE q == a \o b
<1>1. /\ q \in Seq(Nat) /\ Len(q) = Len(a) + Len(b)
      /\ \A i \in 1..Len(a) + Len(b) : q[i] = IF i <= Len(a) THEN a[i] ELSE b[i - Len(a)]
  BY ConcatProperties
<1>2. /\ Len(a) \in Nat /\ DOMAIN a = 1..Len(a) /\ Len(b) \in Nat /\ DOMAIN b = 1..Len(b)
      /\ DOMAIN q = 1..(Len(a) + Len(b))
  BY <1>1, Facts
<1> HIDE DEF q
\* Where the elements of each part are.
<1>3. /\ \A i \in DOMAIN a : i \in DOMAIN q /\ q[i] = a[i]
      /\ \A i \in DOMAIN b : Len(a) + i \in DOMAIN q /\ q[Len(a) + i] = b[i]
      /\ \A i \in DOMAIN a, j \in DOMAIN b : i < Len(a) + j
      /\ \A i, j \in DOMAIN b : i < j => Len(a) + i < Len(a) + j
      /\ \A i, j \in DOMAIN b : Len(a) + i = Len(a) + j => i = j
  <2>1. \A i \in DOMAIN a : i \in DOMAIN q /\ q[i] = a[i]
    BY <1>1, <1>2
  <2>2. ASSUME NEW i \in DOMAIN b
        PROVE  Len(a) + i \in DOMAIN q /\ q[Len(a) + i] = b[i]
    <3>1. Len(a) + i \in 1..(Len(a) + Len(b)) /\ ~(Len(a) + i <= Len(a))
      BY <1>2
    <3>2. (Len(a) + i) - Len(a) = i
      BY <1>2
    <3> QED
      BY <1>1, <1>2, <3>1, <3>2
  <2>3. /\ \A i \in DOMAIN a, j \in DOMAIN b : i < Len(a) + j
        /\ \A i, j \in DOMAIN b : i < j => Len(a) + i < Len(a) + j
        /\ \A i, j \in DOMAIN b : Len(a) + i = Len(a) + j => i = j
    BY ONLY <1>2
  <2> QED
    BY <2>1, <2>2, <2>3
<1>4. \A k \in DOMAIN q :
         \/ k \in DOMAIN a /\ q[k] = a[k]
         \/ \E i \in DOMAIN b : k = Len(a) + i /\ q[k] = b[i]
  <2> TAKE k \in DOMAIN q
  <2>1. CASE k <= Len(a)
    BY <1>1, <1>2, <2>1
  <2>2. CASE ~(k <= Len(a))
    <3>1. k - Len(a) \in DOMAIN b /\ k = Len(a) + (k - Len(a)) /\ q[k] = b[k - Len(a)]
      BY <1>1, <1>2, <2>2
    <3> QED
      BY <3>1
  <2> QED
    BY <2>1, <2>2
<1>5. Range(q) = Range(a) \cup Range(b)
  BY <1>3, <1>4 DEF Range
<1>6. ASSUME IsInjective(q)
      PROVE  IsInjective(a) /\ IsInjective(b) /\ Range(a) \cap Range(b) = {}
  <2>1. \A i \in DOMAIN a, j \in DOMAIN b : a[i] # b[j]
    <3> TAKE i \in DOMAIN a, j \in DOMAIN b
    <3>1. i # Len(a) + j
      BY <1>2, <1>3
    <3> QED
      BY <1>3, <1>6, <3>1 DEF IsInjective
  <2>2. IsInjective(a)
    BY <1>3, <1>6 DEF IsInjective
  <2>3. IsInjective(b)
    BY <1>3, <1>6 DEF IsInjective
  <2> QED
    BY <2>1, <2>2, <2>3 DEF Range
<1>7. ASSUME IsInjective(a), IsInjective(b), Range(a) \cap Range(b) = {}
      PROVE  IsInjective(q)
  <2>1. \A i \in DOMAIN a, j \in DOMAIN b : a[i] # b[j]
    BY <1>7 DEF Range
  <2> QED
    BY <1>4, <1>7, <2>1 DEF IsInjective
<1>8. ASSUME Rising(q)
      PROVE  Rising(a) /\ Rising(b) /\ Below(Range(a), Range(b))
  <2>1. \A i \in DOMAIN a, j \in DOMAIN b : a[i] < b[j]
    BY <1>3, <1>8 DEF Rising
  <2>2. Rising(a)
    BY <1>3, <1>8 DEF Rising
  <2>3. Rising(b)
    BY <1>3, <1>8 DEF Rising
  <2> QED
    BY <2>1, <2>2, <2>3 DEF Range, Below
<1>9. ASSUME Rising(a), Rising(b), Below(Range(a), Range(b))
      PROVE  Rising(q)
  <2> SUFFICES ASSUME NEW k \in DOMAIN q, NEW l \in DOMAIN q, k < l
               PROVE  q[k] < q[l]
    BY DEF Rising
  <2>1. \A i \in DOMAIN a, j \in DOMAIN b : a[i] < b[j]
    BY <1>9 DEF Range, Below
  <2>2. CASE k \in DOMAIN a /\ q[k] = a[k]
    BY <1>4, <1>9, <2>1, <2>2 DEF Rising
  <2>3. ASSUME NEW i \in DOMAIN b, k = Len(a) + i, q[k] = b[i]
        PROVE  q[k] < q[l]
    <3>1. PICK j \in DOMAIN b : l = Len(a) + j /\ q[l] = b[j]
      BY <1>2, <1>4, <2>3
    <3>2. i < j
      BY <1>2, <2>3, <3>1
    <3> QED
      BY <1>9, <2>3, <3>1, <3>2 DEF Rising
  <2> QED
    BY <1>4, <2>2, <2>3
<1> QED
  BY <1>1, <1>5, <1>6, <1>7, <1>8, <1>9 DEF q

LEMMA Single ==
    ASSUME NEW n \in Nat
    PROVE  /\ <<n>> \in Seq(Nat) /\ Range(<<n>>) = {n}
           /\ IsInjective(<<n>>) /\ Rising(<<n>>)
<1>1. <<n>> \in Seq(Nat) /\ DOMAIN <<n>> = {1} /\ <<n>>[1] = n
  OBVIOUS
<1> QED
  BY <1>1 DEF Range, IsInjective, Rising

LEMMA Nothing ==
    /\ <<>> \in Seq(Nat) /\ Range(<<>>) = {}
    /\ IsInjective(<<>>) /\ Rising(<<>>)
BY DEF Range, IsInjective, Rising

\* list.remove takes out m and leaves the rest as it is.
LEMMA RemoveFacts ==
    ASSUME NEW q \in Seq(Nat), NEW m \in Range(q), IsInjective(q)
    PROVE  /\ RemoveAt(q, First(q, m)) \in Seq(Nat)
           /\ Range(RemoveAt(q, First(q, m))) = Range(q) \ {m}
           /\ IsInjective(RemoveAt(q, First(q, m)))
           /\ Rising(q) => Rising(RemoveAt(q, First(q, m)))
<1>1. PICK i \in DOMAIN q : q[i] = m
  BY Facts
<1>2. \A j \in 1..(i - 1) : j \in DOMAIN q /\ j # i
  <2>1. Len(q) \in Nat /\ DOMAIN q = 1..Len(q)
    BY Facts
  <2>2. \A j \in 1..(i - 1) : j \in 1..Len(q) /\ j # i
    BY ONLY <2>1, i \in DOMAIN q
  <2> QED
    BY <2>1, <2>2
<1>3. \A j \in 1..(i - 1) : q[j] # m
  BY <1>1, <1>2 DEF IsInjective
<1>4. First(q, m) \in DOMAIN q /\ q[First(q, m)] = m
  BY <1>1, <1>3 DEF First
<1>5. First(q, m) = i
  BY <1>1, <1>4 DEF IsInjective
<1> DEFINE a == SubSeq(q, 1, i - 1)
           c == SubSeq(q, i + 1, Len(q))
           b == <<m>> \o c
<1>6. RemoveAt(q, First(q, m)) = a \o c
  BY <1>5 DEF RemoveAt
<1>7. Len(q) \in Nat /\ i \in 1..Len(q) /\ m \in Nat
  BY <1>1, Facts
<1>8. a \in Seq(Nat) /\ c \in Seq(Nat)
  <2>1. /\ \A k \in 1..(i - 1) : q[k] \in Nat
        /\ \A k \in (i + 1)..Len(q) : q[k] \in Nat
    <3>1. \A k \in 1..Len(q) : q[k] \in Nat
      BY Facts
    <3> QED
      BY ONLY <1>7, <3>1
  <2>2. 1 \in Int /\ i - 1 \in Int /\ i + 1 \in Int /\ Len(q) \in Int
    BY <1>7
  <2>3. a \in Seq(Nat)
    BY ONLY <2>1, <2>2, SubSeqProperties
  <2>4. c \in Seq(Nat)
    BY ONLY <2>1, <2>2, SubSeqProperties
  <2> QED
    BY <2>3, <2>4
<1>9. q = a \o b
  <2>1. SubSeq(q, i, Len(q)) = <<m>> \o c
    <3>1. Len(q) \in i..Len(q)
      BY <1>7
    <3>2. SubSeq(q, i, Len(q)) = <<q[i]>> \o SubSeq(q, i + 1, Len(q))
      BY ONLY <1>7, <3>1, q \in Seq(Nat), SubSeqRecursiveFirst
    <3> QED
      BY <1>1, <3>2
  <2>2. /\ 1 \in 1..Len(q) + 1 /\ i - 1 \in (1 - 1)..Len(q) /\ Len(q) \in (i - 1)..Len(q)
        /\ (i - 1) + 1 = i
    BY <1>7
  <2>3. a \o SubSeq(q, i, Len(q)) = SubSeq(q, 1, Len(q))
    BY <2>2, ConcatAdjacentSubSeq
  <2> QED
    BY <2>1, <2>3, SubSeqFull
<1>10. <<m>> \in Seq(Nat) /\ b \in Seq(Nat) /\ Range(<<m>>) = {m}
  BY <1>7, <1>8, Single, ConcatFacts
<1> HIDE DEF a, c
<1>11. /\ IsInjective(a) /\ IsInjective(b) /\ Range(a) \cap Range(b) = {}
       /\ Range(q) = Range(a) \cup Range(b)
       /\ Rising(q) => Rising(a) /\ Rising(b) /\ Below(Range(a), Range(b))
  BY <1>8, <1>9, <1>10, ConcatFacts
<1>12. /\ IsInjective(c) /\ {m} \cap Range(c) = {} /\ Range(b) = {m} \cup Range(c)
       /\ Rising(b) => Rising(c)
  <2> DEFINE M == <<m>>
  <2>0. M \in Seq(Nat) /\ Range(M) = {m} /\ b = M \o c
    BY <1>10
  <2> HIDE DEF M, b
  <2>1. /\ IsInjective(b) <=>
              IsInjective(M) /\ IsInjective(c) /\ Range(M) \cap Range(c) = {}
        /\ Range(b) = Range(M) \cup Range(c)
        /\ Rising(b) <=> Rising(M) /\ Rising(c) /\ Below(Range(M), Range(c))
    BY <1>8, <2>0, ConcatFacts
  <2> QED
    BY <1>11, <2>0, <2>1
<1>13. /\ a \o c \in Seq(Nat) /\ Range(a \o c) = Range(a) \cup Range(c)
       /\ IsInjective(a \o c)
  BY <1>8, <1>11, <1>12, ConcatFacts
<1>14. ASSUME Rising(q)
       PROVE  Rising(a \o c)
  <2>1. Rising(a) /\ Rising(c) /\ Below(Range(a), Range(c))
    BY <1>11, <1>12, <1>14 DEF Below
  <2> QED
    BY <1>8, <2>1, ConcatFacts
<1>15. Range(a \o c) = Range(q) \ {m}
  BY <1>11, <1>12, <1>13
<1> QED
  BY <1>6, <1>13, <1>14, <1>15

LEMMA LineFacts ==
    \A a, b, c \in Seq(Nat) :
        /\ a \o b \o c \in Seq(Nat)
        /\ Range(a \o b \o c) = Range(a) \cup Range(b) \cup Range(c)
        /\ IsInjective(a \o b \o c) <=>
              /\ IsInjective(a) /\ IsInjective(b) /\ IsInjective(c)
              /\ Range(a) \cap Range(b) = {} /\ Range(a) \cap Range(c) = {}
              /\ Range(b) \cap Range(c) = {}
        /\ Rising(a \o b \o c) <=>
              /\ Rising(a) /\ Rising(b) /\ Rising(c)
              /\ Below(Range(a), Range(b)) /\ Below(Range(a), Range(c))
              /\ Below(Range(b), Range(c))
<1> TAKE a, b, c \in Seq(Nat)
<1>1. /\ a \o b \in Seq(Nat) /\ Range(a \o b) = Range(a) \cup Range(b)
      /\ IsInjective(a \o b) <=>
            IsInjective(a) /\ IsInjective(b) /\ Range(a) \cap Range(b) = {}
      /\ Rising(a \o b) <=> Rising(a) /\ Rising(b) /\ Below(Range(a), Range(b))
  BY ConcatFacts
<1> DEFINE d == a \o b
<1> HIDE DEF d
<1>2. /\ d \o c \in Seq(Nat) /\ Range(d \o c) = Range(d) \cup Range(c)
      /\ IsInjective(d \o c) <=>
            IsInjective(d) /\ IsInjective(c) /\ Range(d) \cap Range(c) = {}
      /\ Rising(d \o c) <=> Rising(d) /\ Rising(c) /\ Below(Range(d), Range(c))
  BY <1>1, ConcatFacts DEF d
<1>3. Below(Range(d), Range(c)) <=> Below(Range(a), Range(c)) /\ Below(Range(b), Range(c))
  BY <1>1 DEF Below, d
<1>4. Range(d) \cap Range(c) = {} <=>
         Range(a) \cap Range(c) = {} /\ Range(b) \cap Range(c) = {}
  BY <1>1 DEF d
<1> QED
  BY <1>1, <1>2, <1>3, <1>4 DEF d

-----------------------------------------------------------------------------
(* The invariant.                                                          *)

TypeInv ==
    /\ sent \in Seq(Sessions)
    /\ pending \in [Sessions -> Seq(Nat)]
    /\ in_flight \in [Sessions -> Seq(Nat)]
    /\ holding \in [Receivers -> SUBSET Sessions]
    /\ taken \in [Receivers -> Seq(Nat)]
    /\ completed \subseteq Messages
    /\ abandons \in Nat

\* A receiver is the thread inside one with block, and what is popped or in
\* flight belongs to a session whose block is open.
Locks ==
    /\ OneReceiverPerSession
    /\ \A r \in Receivers : \A s, t \in holding[r] : s = t
    /\ \A r \in Receivers : taken[r] # <<>> => holding[r] # {}
    /\ \A s \in Sessions : in_flight[s] # <<>> => Locked(s)

\* The messages of a session that nobody completed.
Owed(s) == {m \in Messages : sent[m] = s /\ m \notin completed}

Lines == \A s \in Sessions : Range(Line(s)) = Owed(s) /\ IsInjective(Line(s))

Ordered == abandons = 0 => \A s \in Sessions : Rising(Line(s))

QueueInv == TypeInv /\ Locks /\ Lines /\ Ordered

Hand(h, g, s) ==
    IF \E r \in Receivers : s \in h[r]
    THEN g[CHOOSE r \in Receivers : s \in h[r]] ELSE <<>>

LEMMA HandFacts ==
    ASSUME NEW h, NEW g, NEW s,
           \A r, q \in Receivers : h[r] \cap h[q] # {} => r = q
    PROVE  /\ \A r \in Receivers : s \in h[r] => Hand(h, g, s) = g[r]
           /\ (\A r \in Receivers : s \notin h[r]) => Hand(h, g, s) = <<>>
<1>1. ASSUME NEW r \in Receivers, s \in h[r]
      PROVE  Hand(h, g, s) = g[r]
  <2> DEFINE c == CHOOSE x \in Receivers : s \in h[x]
  <2>1. c \in Receivers /\ s \in h[c]
    BY <1>1
  <2>2. c = r
    BY <1>1, <2>1
  <2> QED
    BY <1>1, <2>2 DEF Hand
<1> QED
  BY <1>1 DEF Hand

\* The line of a session, by who holds it.
LEMMA LineIs ==
    ASSUME TypeInv, OneReceiverPerSession, NEW s \in Sessions
    PROVE  /\ \A r \in Receivers :
                 s \in holding[r] => Line(s) = in_flight[s] \o taken[r] \o pending[s]
           /\ ~Locked(s) => Line(s) = in_flight[s] \o <<>> \o pending[s]
<1>1. Line(s) = in_flight[s] \o Hand(holding, taken, s) \o pending[s]
  BY DEF Line, InHand, Locked, Hand
<1>2. \A r, q \in Receivers : holding[r] \cap holding[q] # {} => r = q
  BY DEF OneReceiverPerSession
<1>3. /\ \A r \in Receivers : s \in holding[r] => Hand(holding, taken, s) = taken[r]
      /\ (\A r \in Receivers : s \notin holding[r]) => Hand(holding, taken, s) = <<>>
  BY <1>2, HandFacts
<1> QED
  BY <1>1, <1>3 DEF Locked

LEMMA LineIsNext ==
    ASSUME TypeInv', OneReceiverPerSession', NEW s \in Sessions
    PROVE  /\ \A r \in Receivers :
                 s \in holding'[r] => Line(s)' = in_flight'[s] \o taken'[r] \o pending'[s]
           /\ ~Locked(s)' => Line(s)' = in_flight'[s] \o <<>> \o pending'[s]
<1>1. Line(s)' = in_flight'[s] \o Hand(holding', taken', s) \o pending'[s]
  BY DEF Line, InHand, Locked, Hand
<1>2. \A r, q \in Receivers : holding'[r] \cap holding'[q] # {} => r = q
  BY DEF OneReceiverPerSession
<1>3. /\ \A r \in Receivers : s \in holding'[r] => Hand(holding', taken', s) = taken'[r]
      /\ (\A r \in Receivers : s \notin holding'[r]) => Hand(holding', taken', s) = <<>>
  BY <1>2, HandFacts
<1> QED
  BY <1>1, <1>3 DEF Locked

LEMMA LineTyped ==
    ASSUME TypeInv, OneReceiverPerSession, NEW s \in Sessions
    PROVE  Line(s) \in Seq(Nat)
<1>1. /\ in_flight[s] \in Seq(Nat) /\ pending[s] \in Seq(Nat) /\ <<>> \in Seq(Nat)
      /\ \A r \in Receivers : taken[r] \in Seq(Nat)
  BY DEF TypeInv
<1>2. \A q \in Seq(Nat) : in_flight[s] \o q \o pending[s] \in Seq(Nat)
  BY <1>1, LineFacts
<1>3. ASSUME NEW r \in Receivers, s \in holding[r]
      PROVE  Line(s) \in Seq(Nat)
  <2>1. Line(s) = in_flight[s] \o taken[r] \o pending[s]
    BY <1>3, LineIs
  <2> QED
    BY <1>1, <1>2, <2>1
<1>4. ASSUME ~Locked(s)
      PROVE  Line(s) \in Seq(Nat)
  <2>1. Line(s) = in_flight[s] \o <<>> \o pending[s]
    BY <1>4, LineIs
  <2> QED
    BY <1>1, <1>2, <2>1
<1> QED
  BY <1>3, <1>4 DEF Locked

-----------------------------------------------------------------------------
(* Types and locks.                                                        *)

LEMMA PiecesTyped ==
    ASSUME NEW q \in Seq(Nat), NEW n \in 0..Len(q)
    PROVE  /\ SubSeq(q, 1, n) \in Seq(Nat) /\ SubSeq(q, n + 1, Len(q)) \in Seq(Nat)
           /\ SubSeq(q, 1, n) \o SubSeq(q, n + 1, Len(q)) = q
<1>1. Len(q) \in Nat /\ \A k \in 1..Len(q) : q[k] \in Nat
  BY Facts
<1>2. /\ \A k \in 1..n : q[k] \in Nat
      /\ \A k \in (n + 1)..Len(q) : q[k] \in Nat
      /\ 1 \in Int /\ n \in Int /\ n + 1 \in Int /\ Len(q) \in Int
  BY <1>1
<1>3. SubSeq(q, 1, n) \in Seq(Nat)
  BY ONLY <1>2, SubSeqProperties
<1>4. SubSeq(q, n + 1, Len(q)) \in Seq(Nat)
  BY ONLY <1>2, SubSeqProperties
<1>5. 1 \in 1..Len(q) + 1 /\ n \in (1 - 1)..Len(q) /\ Len(q) \in n..Len(q)
  BY <1>1
<1>6. SubSeq(q, 1, n) \o SubSeq(q, n + 1, Len(q)) = SubSeq(q, 1, Len(q))
  BY ONLY <1>5, q \in Seq(Nat), ConcatAdjacentSubSeq
<1> QED
  BY <1>3, <1>4, <1>6, SubSeqFull

\* What a call takes out of a session and what it leaves there.
LEMMA ReceiveTyped ==
    ASSUME TypeInv, NEW r \in Receivers, NEW s \in Sessions, Receive(r, s)
    PROVE  /\ taken'[r] \in Seq(Nat) /\ pending'[s] \in Seq(Nat)
           /\ taken'[r] \o pending'[s] = pending[s]
           /\ pending' = [pending EXCEPT ![s] = pending'[s]]
           /\ taken' = [taken EXCEPT ![r] = taken'[r]]
<1> DEFINE n == IF Batch < Len(pending[s]) THEN Batch ELSE Len(pending[s])
<1>1. pending[s] \in Seq(Nat) /\ Len(pending[s]) \in Nat
  BY LenProperties DEF TypeInv
<1>2. n \in 0..Len(pending[s])
  BY <1>1, QueueAssumption
<1>3. /\ taken'[r] = SubSeq(pending[s], 1, n)
      /\ pending'[s] = SubSeq(pending[s], n + 1, Len(pending[s]))
      /\ pending' = [pending EXCEPT ![s] = pending'[s]]
      /\ taken' = [taken EXCEPT ![r] = taken'[r]]
  BY DEF Receive, SetPending, TypeInv
<1> HIDE DEF n
<1> QED
  BY <1>1, <1>2, <1>3, PiecesTyped

\* What is in flight is what its line begins with, so list.remove finds m once.
LEMMA InFlightOut ==
    ASSUME QueueInv, NEW r \in Receivers, NEW s \in Sessions, NEW m \in Messages,
           Complete(r, s, m) \/ Abandon(r, s, m)
    PROVE  /\ m \in Range(in_flight[s]) /\ IsInjective(in_flight[s])
           /\ RemoveAt(in_flight[s], First(in_flight[s], m)) \in Seq(Nat)
<1>1. s \in holding[r] /\ Contains(in_flight[s], m)
  BY DEF Complete, Abandon
<1>2. /\ in_flight[s] \in Seq(Nat) /\ taken[r] \in Seq(Nat) /\ pending[s] \in Seq(Nat)
      /\ OneReceiverPerSession
  BY DEF QueueInv, TypeInv, Locks
<1>3. m \in Range(in_flight[s])
  BY <1>1, <1>2, Facts DEF Contains
<1>4. IsInjective(in_flight[s] \o taken[r] \o pending[s])
  BY <1>1, <1>2, LineIs DEF QueueInv, Lines
<1>5. IsInjective(in_flight[s])
  BY <1>2, <1>4, LineFacts
<1> QED
  BY <1>2, <1>3, <1>5, RemoveFacts

LEMMA TypeStep ==
    ASSUME QueueInv, QueueNext
    PROVE  TypeInv'
<1> USE DEF QueueInv
<1>0. Messages = 1..Len(sent) /\ Len(sent) \in Nat
  BY LenProperties DEF TypeInv, Messages
<1>1. ASSUME NEW s \in Sessions, Send(s)
      PROVE  TypeInv'
  <2>1. sent' = Append(sent, s) /\ pending' = [pending EXCEPT ![s] = Append(@, Len(sent) + 1)]
    BY <1>1 DEF Send, SetPending
  <2>2. sent' \in Seq(Sessions) /\ Len(sent') = Len(sent) + 1
    BY <2>1, AppendProperties DEF TypeInv
  <2>3. Append(pending[s], Len(sent) + 1) \in Seq(Nat)
    BY <1>0, AppendProperties DEF TypeInv
  <2>4. pending' \in [Sessions -> Seq(Nat)]
    BY <2>1, <2>3 DEF TypeInv
  <2>5. completed' \subseteq Messages'
    BY <1>0, <1>1, <2>2 DEF Send, TypeInv, Messages
  <2> QED
    BY <1>1, <2>2, <2>4, <2>5 DEF Send, TypeInv
<1>2. ASSUME NEW r \in Receivers, NEW s \in Sessions, Claim(r, s) \/ ClaimById(r, s)
      PROVE  TypeInv'
  BY <1>2 DEF Claim, ClaimById, KeepPending, TypeInv, Messages
<1>3. ASSUME NEW r \in Receivers, NEW s \in Sessions, Receive(r, s)
      PROVE  TypeInv'
  <2>1. pending' \in [Sessions -> Seq(Nat)] /\ taken' \in [Receivers -> Seq(Nat)]
    BY <1>3, ReceiveTyped DEF TypeInv
  <2> QED
    BY <1>3, <2>1 DEF Receive, TypeInv, Messages
<1>4. ASSUME NEW r \in Receivers, NEW s \in Sessions, MarkInFlight(r, s)
      PROVE  TypeInv'
  <2>1. in_flight[s] \o taken[r] \in Seq(Nat) /\ <<>> \in Seq(Nat)
    BY ConcatProperties DEF TypeInv
  <2> QED
    BY <1>4, <2>1 DEF MarkInFlight, KeepPending, TypeInv, Messages
<1>5. ASSUME NEW r \in Receivers, NEW s \in Sessions, NEW m \in Messages,
             Complete(r, s, m) \/ Abandon(r, s, m)
      PROVE  TypeInv'
  <2>1. RemoveAt(in_flight[s], First(in_flight[s], m)) \in Seq(Nat)
    BY <1>5, InFlightOut
  <2>2. <<m>> \o pending[s] \in Seq(Nat)
    BY <1>0, Single, ConcatProperties DEF TypeInv
  <2>3. CASE Complete(r, s, m)
    BY <2>1, <2>3 DEF Complete, KeepPending, TypeInv, Messages
  <2>4. CASE Abandon(r, s, m)
    BY <2>1, <2>2, <2>4 DEF Abandon, SetPending, TypeInv, Messages
  <2> QED
    BY <1>5, <2>3, <2>4
<1>6. ASSUME NEW r \in Receivers, NEW s \in Sessions, Release(r, s)
      PROVE  TypeInv'
  <2>1. in_flight[s] \o pending[s] \in Seq(Nat) /\ <<>> \in Seq(Nat)
    BY ConcatProperties DEF TypeInv
  <2>2. pending' \in [Sessions -> Seq(Nat)]
    BY <1>6, <2>1 DEF Release, KeepPending, SetPending, TypeInv
  <2> QED
    BY <1>6, <2>1, <2>2 DEF Release, TypeInv, Messages
<1> QED
  BY <1>1, <1>2, <1>3, <1>4, <1>5, <1>6 DEF QueueNext

\* A claim takes a session nobody holds; everything else that changes what is
\* out is done by the one who holds the session.
LEMMA LocksStep ==
    ASSUME QueueInv, QueueNext
    PROVE  Locks'
<1>0. TypeInv /\ Locks
  BY DEF QueueInv
<1>1. ASSUME NEW s \in Sessions, Send(s)
      PROVE  Locks'
  BY <1>0, <1>1 DEF Send, Locks, Locked, OneReceiverPerSession
<1>2. ASSUME NEW r \in Receivers, NEW s \in Sessions, Claim(r, s) \/ ClaimById(r, s)
      PROVE  Locks'
  <2>1. /\ holding[r] = {} /\ ~Locked(s)
        /\ holding' = [holding EXCEPT ![r] = {s}]
        /\ in_flight' = in_flight /\ taken' = taken
    BY <1>2 DEF Claim, ClaimById, Claimable
  <2>2. /\ holding'[r] = {s}
        /\ \A q \in Receivers \ {r} : holding'[q] = holding[q] /\ s \notin holding[q]
    BY <1>0, <2>1 DEF TypeInv, Locked
  <2>3. OneReceiverPerSession'
    BY <1>0, <2>2 DEF Locks, OneReceiverPerSession
  <2>4. \A t \in Sessions : Locked(t) => Locked(t)'
    BY <2>1, <2>2 DEF Locked
  <2> QED
    BY <1>0, <2>1, <2>2, <2>3, <2>4 DEF Locks
<1>3. ASSUME NEW r \in Receivers, NEW s \in Sessions,
             Receive(r, s) \/ MarkInFlight(r, s)
      PROVE  Locks'
  <2>1. /\ s \in holding[r] /\ holding' = holding
        /\ \A q \in Receivers \ {r} : taken'[q] = taken[q]
        /\ \A t \in Sessions \ {s} : in_flight'[t] = in_flight[t]
    BY <1>0, <1>3 DEF Receive, MarkInFlight, TypeInv
  <2> QED
    BY <1>0, <2>1 DEF Locks, Locked, OneReceiverPerSession
<1>4. ASSUME NEW r \in Receivers, NEW s \in Sessions, NEW m \in Messages,
             Complete(r, s, m) \/ Abandon(r, s, m)
      PROVE  Locks'
  <2>1. /\ s \in holding[r] /\ holding' = holding /\ taken' = taken
        /\ \A t \in Sessions \ {s} : in_flight'[t] = in_flight[t]
    BY <1>0, <1>4 DEF Complete, Abandon, TypeInv
  <2> QED
    BY <1>0, <2>1 DEF Locks, Locked, OneReceiverPerSession
<1>5. ASSUME NEW r \in Receivers, NEW s \in Sessions, Release(r, s)
      PROVE  Locks'
  <2>1. /\ s \in holding[r] /\ taken[r] = <<>> /\ taken' = taken
        /\ holding'[r] = {} /\ \A q \in Receivers \ {r} : holding'[q] = holding[q]
        /\ in_flight'[s] = <<>>
        /\ \A t \in Sessions \ {s} : in_flight'[t] = in_flight[t]
    BY <1>0, <1>5 DEF Release, TypeInv
  <2>2. OneReceiverPerSession'
    BY <1>0, <2>1 DEF Locks, OneReceiverPerSession
  <2>3. /\ \A q \in Receivers : \A x, y \in holding'[q] : x = y
        /\ \A q \in Receivers : taken'[q] # <<>> => holding'[q] # {}
    BY <1>0, <2>1 DEF Locks
  <2>4. ASSUME NEW t \in Sessions, in_flight'[t] # <<>>
        PROVE  Locked(t)'
    <3>1. t # s /\ Locked(t)
      BY <1>0, <2>1, <2>4 DEF Locks
    <3>2. PICK q \in Receivers : t \in holding[q]
      BY <3>1 DEF Locked
    <3>3. q # r
      BY <1>0, <2>1, <3>1, <3>2 DEF Locks
    <3> QED
      BY <2>1, <3>2, <3>3 DEF Locked
  <2> QED
    BY <2>2, <2>3, <2>4 DEF Locks
<1> QED
  BY <1>1, <1>2, <1>3, <1>4, <1>5 DEF QueueNext

-----------------------------------------------------------------------------
(* The lines.                                                              *)

\* Whoever holds s, a session that is not s keeps its line when nothing of
\* its own changes.
LEMMA OtherLines ==
    ASSUME QueueInv, TypeInv', Locks', NEW r \in Receivers, NEW s \in Sessions,
           \/ s \in holding[r] /\ holding'[r] \subseteq {s}
           \/ holding[r] = {} /\ holding'[r] = {s},
           \A q \in Receivers \ {r} : holding'[q] = holding[q] /\ taken'[q] = taken[q],
           NEW t \in Sessions, t # s,
           in_flight'[t] = in_flight[t], pending'[t] = pending[t]
    PROVE  Line(t)' = Line(t)
<1>1. TypeInv /\ Locks /\ OneReceiverPerSession /\ OneReceiverPerSession'
  BY DEF QueueInv, Locks
<1>2. t \notin holding[r] /\ t \notin holding'[r]
  BY <1>1 DEF Locks
<1>3. ASSUME NEW q \in Receivers, t \in holding[q]
      PROVE  Line(t)' = Line(t)
  <2>1. q # r /\ t \in holding'[q] /\ taken'[q] = taken[q]
    BY <1>2, <1>3
  <2>2. Line(t) = in_flight[t] \o taken[q] \o pending[t]
    BY <1>1, <1>3, LineIs
  <2>3. Line(t)' = in_flight'[t] \o taken'[q] \o pending'[t]
    BY <1>1, <2>1, LineIsNext
  <2> QED
    BY <2>1, <2>2, <2>3
<1>4. ASSUME ~Locked(t)
      PROVE  Line(t)' = Line(t)
  <2>1. ~Locked(t)'
    BY <1>2, <1>4 DEF Locked
  <2>2. Line(t) = in_flight[t] \o <<>> \o pending[t]
    BY <1>1, <1>4, LineIs
  <2>3. Line(t)' = in_flight'[t] \o <<>> \o pending'[t]
    BY <1>1, <2>1, LineIsNext
  <2> QED
    BY <2>2, <2>3
<1> QED
  BY <1>3, <1>4 DEF Locked

\* A step that completes, sends and abandons nothing and keeps every line.
LEMMA LinesKept ==
    ASSUME QueueInv, sent' = sent, completed' = completed, abandons' = abandons,
           \A s \in Sessions : Line(s)' = Line(s)
    PROVE  Lines' /\ Ordered'
<1>1. \A s \in Sessions : Owed(s)' = Owed(s)
  BY DEF Owed, Messages
<1>2. Lines'
  BY <1>1 DEF QueueInv, Lines
<1>3. Ordered'
  BY DEF QueueInv, Ordered
<1> QED
  BY <1>2, <1>3

LEMMA Assoc == \A a, b, c \in Seq(Nat) : a \o b \o c = a \o (b \o c)
<1> TAKE a, b, c \in Seq(Nat)
<1> QED
  BY SMTT(30), ConcatAssociative

LEMMA ClaimLines ==
    ASSUME QueueInv, TypeInv', Locks', NEW r \in Receivers, NEW s \in Sessions,
           Claim(r, s) \/ ClaimById(r, s)
    PROVE  Lines' /\ Ordered'
<1>1. TypeInv /\ Locks /\ OneReceiverPerSession /\ OneReceiverPerSession'
  BY DEF QueueInv, Locks
<1>2. /\ holding[r] = {} /\ ~Locked(s) /\ holding'[r] = {s}
      /\ \A q \in Receivers \ {r} : holding'[q] = holding[q]
      /\ UNCHANGED <<sent, pending, in_flight, taken, completed, abandons>>
  BY <1>1 DEF Claim, ClaimById, Claimable, KeepPending, TypeInv
<1>3. taken[r] = <<>>
  BY <1>1, <1>2 DEF Locks
<1>4. Line(s) = in_flight[s] \o <<>> \o pending[s]
  BY <1>1, <1>2, LineIs
<1>5. Line(s)' = in_flight'[s] \o taken'[r] \o pending'[s]
  BY <1>1, <1>2, LineIsNext
<1>6. Line(s)' = Line(s)
  BY <1>2, <1>3, <1>4, <1>5
<1>7. \A t \in Sessions : t # s => Line(t)' = Line(t)
  BY <1>2, OtherLines
<1> QED
  BY <1>2, <1>6, <1>7, LinesKept

LEMMA ReceiveLines ==
    ASSUME QueueInv, TypeInv', Locks', NEW r \in Receivers, NEW s \in Sessions,
           Receive(r, s) \/ MarkInFlight(r, s) \/ Release(r, s)
    PROVE  Lines' /\ Ordered'
<1>1. TypeInv /\ Locks /\ OneReceiverPerSession /\ OneReceiverPerSession'
  BY DEF QueueInv, Locks
<1>2. /\ s \in holding[r] /\ holding'[r] \subseteq {s}
      /\ \A q \in Receivers \ {r} : holding'[q] = holding[q] /\ taken'[q] = taken[q]
      /\ \A t \in Sessions \ {s} : in_flight'[t] = in_flight[t] /\ pending'[t] = pending[t]
      /\ UNCHANGED <<sent, completed, abandons>>
  <2>1. holding[r] \subseteq {s} /\ s \in holding[r]
    BY <1>1 DEF Receive, MarkInFlight, Release, Locks
  <2> QED
    BY <1>1, <2>1 DEF Receive, MarkInFlight, Release, KeepPending, SetPending, TypeInv
<1> DEFINE F == in_flight[s]
           T == taken[r]
           P == pending[s]
<1>3. F \in Seq(Nat) /\ T \in Seq(Nat) /\ P \in Seq(Nat) /\ <<>> \in Seq(Nat)
  BY <1>1 DEF TypeInv
<1>4. Line(s) = F \o T \o P
  BY <1>1, <1>2, LineIs
<1>5. ASSUME Receive(r, s)
      PROVE  Line(s)' = Line(s)
  <2>1. /\ T = <<>> /\ in_flight' = in_flight /\ s \in holding'[r]
        /\ taken'[r] \in Seq(Nat) /\ pending'[s] \in Seq(Nat)
        /\ taken'[r] \o pending'[s] = P
    BY <1>1, <1>5, ReceiveTyped DEF Receive
  <2>2. Line(s)' = F \o taken'[r] \o pending'[s]
    BY <1>1, <2>1, LineIsNext
  <2>3. F \o taken'[r] \o pending'[s] = F \o P
    <3> DEFINE A == taken'[r]
               B == pending'[s]
    <3> HIDE DEF F, A, B
    <3>1. F \in Seq(Nat) /\ A \in Seq(Nat) /\ B \in Seq(Nat) /\ A \o B = P
      BY <1>3, <2>1 DEF A, B
    <3>2. F \o A \o B = F \o (A \o B)
      BY <3>1, Assoc
    <3> QED
      BY <3>1, <3>2 DEF A, B
  <2>4. F \o T = F
    BY <1>3, <2>1, ConcatEmptySeq
  <2> QED
    BY <1>4, <2>2, <2>3, <2>4
<1>6. ASSUME MarkInFlight(r, s)
      PROVE  Line(s)' = Line(s)
  <2>1. /\ in_flight'[s] = F \o T /\ taken'[r] = <<>> /\ pending' = pending
        /\ s \in holding'[r]
    BY <1>1, <1>6 DEF MarkInFlight, KeepPending, TypeInv
  <2>2. Line(s)' = (F \o T) \o <<>> \o P
    BY <1>1, <2>1, LineIsNext
  <2>3. F \o T \in Seq(Nat)
    BY <1>3, ConcatProperties
  <2>4. (F \o T) \o <<>> = F \o T
    BY <2>3, ConcatEmptySeq
  <2> QED
    BY <1>4, <2>2, <2>4
<1>7. ASSUME Release(r, s)
      PROVE  Line(s)' = Line(s)
  <2>1. /\ T = <<>> /\ in_flight'[s] = <<>> /\ holding'[r] = {}
        /\ F # <<>> => pending'[s] = F \o P
        /\ F = <<>> => pending'[s] = P
    BY <1>1, <1>7 DEF Release, KeepPending, SetPending, TypeInv
  <2>2. pending'[s] = F \o P /\ pending'[s] \in Seq(Nat)
    <3>1. F \o P \in Seq(Nat) /\ <<>> \o P = P
      BY <1>3, ConcatEmptySeq, ConcatProperties
    <3> QED
      BY <2>1, <3>1
  <2>3. ~Locked(s)'
    BY <1>1, <1>2, <2>1 DEF Locked, OneReceiverPerSession
  <2>4. Line(s)' = <<>> \o <<>> \o pending'[s]
    BY <1>1, <2>1, <2>3, LineIsNext
  <2>5. <<>> \o <<>> = <<>> /\ <<>> \o pending'[s] = pending'[s] /\ F \o T = F
    BY <1>3, <2>1, <2>2, ConcatEmptySeq
  <2> QED
    BY <1>4, <2>2, <2>4, <2>5
<1>8. Line(s)' = Line(s)
  BY <1>5, <1>6, <1>7
<1>9. \A t \in Sessions : t # s => Line(t)' = Line(t)
  BY <1>2, OtherLines
<1> QED
  BY <1>2, <1>8, <1>9, LinesKept

LEMMA SendLines ==
    ASSUME QueueInv, TypeInv', Locks', NEW s \in Sessions, Send(s)
    PROVE  Lines' /\ Ordered'
<1>1. TypeInv /\ Locks /\ Lines /\ OneReceiverPerSession /\ OneReceiverPerSession'
  BY DEF QueueInv, Locks
<1> DEFINE n == Len(sent) + 1
           F == in_flight[s]
           P == pending[s]
<1>2. /\ sent' = Append(sent, s) /\ pending'[s] = Append(P, n)
      /\ \A t \in Sessions \ {s} : pending'[t] = pending[t]
      /\ UNCHANGED <<in_flight, holding, taken, completed, abandons>>
  BY <1>1 DEF Send, SetPending, TypeInv
<1>3. /\ Len(sent) \in Nat /\ n \in Nat /\ Messages = 1..Len(sent) /\ Messages' = 1..n
      /\ sent'[n] = s /\ \A m \in Messages : sent'[m] = sent[m]
      /\ n \notin completed
  BY <1>1, <1>2, LenProperties, AppendProperties DEF TypeInv, Messages
<1>4. /\ Owed(s)' = Owed(s) \cup {n} /\ n \notin Owed(s) /\ Below(Owed(s), {n})
      /\ \A t \in Sessions \ {s} : Owed(t)' = Owed(t)
  <2>1. Messages' = Messages \cup {n} /\ \A m \in Messages : m < n /\ m # n
    BY <1>3
  <2>2. Owed(s)' = Owed(s) \cup {n} /\ \A t \in Sessions \ {s} : Owed(t)' = Owed(t)
    BY <1>2, <1>3, <2>1 DEF Owed
  <2> QED
    BY <2>1, <2>2 DEF Owed, Below
<1>5. PICK T \in Seq(Nat) : Line(s) = F \o T \o P /\ Line(s)' = F \o T \o pending'[s]
  <2>1. ASSUME NEW r \in Receivers, s \in holding[r]
        PROVE  \E T \in Seq(Nat) :
                  Line(s) = F \o T \o P /\ Line(s)' = F \o T \o pending'[s]
    <3>1. Line(s) = F \o taken[r] \o P
      BY <1>1, <2>1, LineIs
    <3>2. Line(s)' = F \o taken[r] \o pending'[s]
      BY <1>1, <1>2, <2>1, LineIsNext
    <3> QED
      BY <1>1, <3>1, <3>2 DEF TypeInv
  <2>2. ASSUME ~Locked(s)
        PROVE  \E T \in Seq(Nat) :
                  Line(s) = F \o T \o P /\ Line(s)' = F \o T \o pending'[s]
    <3>1. Line(s) = F \o <<>> \o P
      BY <1>1, <2>2, LineIs
    <3>2. ~Locked(s)'
      BY <1>2, <2>2 DEF Locked
    <3>3. Line(s)' = F \o <<>> \o pending'[s]
      BY <1>1, <1>2, <3>2, LineIsNext
    <3>4. <<>> \in Seq(Nat)
      OBVIOUS
    <3> QED
      BY <3>1, <3>3, <3>4
  <2> QED
    BY <2>1, <2>2 DEF Locked
<1>6. F \in Seq(Nat) /\ P \in Seq(Nat) /\ F \o T \o P \in Seq(Nat)
  BY <1>1, LineFacts DEF TypeInv
<1>7. <<n>> \in Seq(Nat) /\ Range(<<n>>) = {n} /\ IsInjective(<<n>>) /\ Rising(<<n>>)
  BY <1>3, Single
\* The new message is at the end of the line.
<1>8. Line(s)' = Line(s) \o <<n>>
  <2>1. pending'[s] = P \o <<n>>
    BY <1>2, <1>3, <1>6, AppendIsConcat
  <2>2. F \o T \o (P \o <<n>>) = F \o T \o P \o <<n>>
    <3> DEFINE E == F \o T
               N == <<n>>
    <3>1. E \in Seq(Nat) /\ P \in Seq(Nat) /\ N \in Seq(Nat)
      BY <1>6, <1>7, ConcatFacts
    <3> HIDE DEF P, E, N
    <3>2. E \o P \o N = E \o (P \o N)
      BY <3>1, Assoc
    <3> QED
      BY <3>2 DEF E, N
  <2> QED
    BY <1>5, <2>1, <2>2
<1>9. Line(s) \in Seq(Nat) /\ Range(Line(s)) = Owed(s) /\ IsInjective(Line(s))
  BY <1>1, <1>5, <1>6 DEF Lines
<1>10. /\ Range(Line(s)') = Owed(s) \cup {n} /\ IsInjective(Line(s)')
       /\ Rising(Line(s)) => Rising(Line(s)')
  <2> DEFINE q == Line(s)
  <2> HIDE DEF q
  <2>1. q \in Seq(Nat) /\ Range(q) = Owed(s) /\ IsInjective(q)
    BY <1>9 DEF q
  <2>2. /\ Range(q \o <<n>>) = Owed(s) \cup {n} /\ IsInjective(q \o <<n>>)
        /\ Rising(q) => Rising(q \o <<n>>)
    <3>1. /\ Range(q \o <<n>>) = Range(q) \cup Range(<<n>>)
          /\ IsInjective(q \o <<n>>) <=>
                IsInjective(q) /\ IsInjective(<<n>>) /\ Range(q) \cap Range(<<n>>) = {}
          /\ Rising(q \o <<n>>) <=>
                Rising(q) /\ Rising(<<n>>) /\ Below(Range(q), Range(<<n>>))
      BY <1>7, <2>1, ConcatFacts
    <3> QED
      BY <1>4, <1>7, <2>1, <3>1
  <2> QED
    BY <1>8, <2>2 DEF q
<1>11. ASSUME NEW t \in Sessions, t # s
       PROVE  Line(t)' = Line(t)
  <2>1. in_flight'[t] = in_flight[t] /\ pending'[t] = pending[t]
    BY <1>2, <1>11
  <2> QED
    BY <1>2, <2>1 DEF Line, InHand, Locked
<1>12. Lines'
  BY <1>1, <1>4, <1>10, <1>11 DEF Lines
<1>13. Ordered'
  BY <1>2, <1>10, <1>11 DEF QueueInv, Ordered
<1> QED
  BY <1>12, <1>13

LEMMA OutLines ==
    ASSUME QueueInv, TypeInv', Locks', NEW r \in Receivers, NEW s \in Sessions,
           NEW m \in Messages, Complete(r, s, m) \/ Abandon(r, s, m)
    PROVE  Lines' /\ Ordered'
<1>1. TypeInv /\ Locks /\ Lines /\ OneReceiverPerSession /\ OneReceiverPerSession'
  BY DEF QueueInv, Locks
<1> DEFINE F == in_flight[s]
           T == taken[r]
           P == pending[s]
           R == RemoveAt(F, First(F, m))
<1>2. /\ s \in holding[r] /\ holding' = holding /\ taken' = taken /\ sent' = sent
      /\ in_flight'[s] = R
      /\ \A t \in Sessions \ {s} : in_flight'[t] = in_flight[t] /\ pending'[t] = pending[t]
  BY <1>1 DEF Complete, Abandon, KeepPending, SetPending, TypeInv
<1>3. /\ F \in Seq(Nat) /\ T \in Seq(Nat) /\ P \in Seq(Nat) /\ m \in Nat
      /\ <<m>> \in Seq(Nat) /\ Range(<<m>>) = {m} /\ IsInjective(<<m>>)
  BY <1>1, Single DEF TypeInv, Messages
<1>4. m \in Range(F) /\ IsInjective(F) /\ R \in Seq(Nat)
  BY InFlightOut
<1>5. /\ Range(R) = Range(F) \ {m} /\ IsInjective(R)
      /\ Rising(F) => Rising(R)
  BY <1>3, <1>4, RemoveFacts
<1>6. Line(s) = F \o T \o P
  BY <1>1, <1>2, LineIs
<1>7. Line(s)' = R \o T \o pending'[s]
  BY <1>1, <1>2, LineIsNext
<1> HIDE DEF F, T, P, R
<1>8. /\ Range(F) \cup Range(T) \cup Range(P) = Owed(s)
      /\ IsInjective(T) /\ IsInjective(P)
      /\ Range(F) \cap Range(T) = {} /\ Range(F) \cap Range(P) = {}
      /\ Range(T) \cap Range(P) = {}
      /\ Rising(Line(s)) =>
            /\ Rising(F) /\ Rising(T) /\ Rising(P)
            /\ Below(Range(F), Range(T)) /\ Below(Range(F), Range(P))
            /\ Below(Range(T), Range(P))
  <2>1. Range(F \o T \o P) = Owed(s) /\ IsInjective(F \o T \o P)
    BY <1>1, <1>6 DEF Lines
  <2> QED
    BY <1>3, <1>6, <2>1, LineFacts
<1>9. m \in Owed(s) /\ m \notin Range(T) /\ m \notin Range(P)
  BY <1>4, <1>8
<1>10. \A t \in Sessions : t # s => Line(t)' = Line(t)
  <2>1. holding[r] \subseteq {s}
    BY <1>1, <1>2 DEF Locks
  <2> QED
    BY <1>2, <2>1, OtherLines
<1>11. CASE Complete(r, s, m)
  <2>1. pending'[s] = P /\ completed' = completed \cup {m} /\ abandons' = abandons
    BY <1>11 DEF Complete, KeepPending, P
  <2>2. /\ Owed(s)' = Owed(s) \ {m}
        /\ \A t \in Sessions : t # s => Owed(t)' = Owed(t)
    BY <1>2, <1>9, <2>1 DEF Owed, Messages
  <2>3. /\ Range(Line(s)') = Owed(s) \ {m} /\ IsInjective(Line(s)')
        /\ Rising(Line(s)) => Rising(Line(s)')
    <3>1. /\ Range(R \o T \o P) = Range(R) \cup Range(T) \cup Range(P)
          /\ IsInjective(R \o T \o P)
      <4>1. Range(R) \cap Range(T) = {} /\ Range(R) \cap Range(P) = {}
        BY <1>5, <1>8
      <4>2. IsInjective(R) /\ IsInjective(T) /\ IsInjective(P) /\ Range(T) \cap Range(P) = {}
        BY <1>5, <1>8
      <4>3. R \in Seq(Nat) /\ T \in Seq(Nat) /\ P \in Seq(Nat)
        BY <1>3, <1>4
      <4>4. Range(R \o T \o P) = Range(R) \cup Range(T) \cup Range(P)
        BY ONLY <4>1, <4>2, <4>3, LineFacts
      <4>5. IsInjective(R \o T \o P)
        BY ONLY <4>1, <4>2, <4>3, LineFacts
      <4> QED
        BY <4>4, <4>5
    <3>2. ASSUME Rising(Line(s))
          PROVE  Rising(R \o T \o P)
      <4>1. /\ Rising(R) /\ Rising(T) /\ Rising(P)
            /\ Below(Range(R), Range(T)) /\ Below(Range(R), Range(P))
            /\ Below(Range(T), Range(P))
        BY <1>5, <1>8, <3>2 DEF Below
      <4> QED
        BY <1>3, <1>4, <4>1, LineFacts
    <3>3. Range(R) \cup Range(T) \cup Range(P) = Owed(s) \ {m}
      BY <1>5, <1>8, <1>9
    <3> QED
      BY <1>7, <2>1, <3>1, <3>2, <3>3
  <2>4. Lines'
    BY <1>1, <1>10, <2>2, <2>3 DEF Lines
  <2>5. Ordered'
    BY <1>10, <2>1, <2>3 DEF QueueInv, Ordered
  <2> QED
    BY <2>4, <2>5
<1>12. CASE Abandon(r, s, m)
  <2>1. /\ pending'[s] = <<m>> \o P /\ completed' = completed
        /\ abandons' = abandons + 1 /\ abandons \in Nat
    BY <1>1, <1>12 DEF Abandon, SetPending, TypeInv, P
  <2>2. \A t \in Sessions : Owed(t)' = Owed(t)
    BY <1>2, <2>1 DEF Owed, Messages
  <2>3. /\ <<m>> \o P \in Seq(Nat) /\ Range(<<m>> \o P) = {m} \cup Range(P)
        /\ IsInjective(<<m>> \o P)
    <3> DEFINE M == <<m>>
    <3> HIDE DEF M
    <3>1. M \in Seq(Nat) /\ P \in Seq(Nat) /\ Range(M) = {m} /\ IsInjective(M)
      BY <1>3 DEF M
    <3>2. IsInjective(P) /\ Range(M) \cap Range(P) = {}
      BY <1>8, <1>9, <3>1
    <3>3. /\ M \o P \in Seq(Nat) /\ Range(M \o P) = {m} \cup Range(P)
          /\ IsInjective(M \o P)
      BY ONLY <3>1, <3>2, ConcatFacts
    <3> QED
      BY <3>3 DEF M
  <2>4. Range(Line(s)') = Owed(s) /\ IsInjective(Line(s)')
    <3> DEFINE Q == <<m>> \o P
    <3> HIDE DEF Q
    <3>1. Q \in Seq(Nat) /\ Range(Q) = {m} \cup Range(P) /\ IsInjective(Q)
      BY <2>3 DEF Q
    <3>2. /\ Range(R) \cap Range(T) = {} /\ Range(R) \cap Range(Q) = {}
          /\ Range(T) \cap Range(Q) = {}
      BY <1>5, <1>8, <1>9, <3>1
    <3>3. /\ Range(R \o T \o Q) = Range(R) \cup Range(T) \cup Range(Q)
          /\ IsInjective(R \o T \o Q)
      <4>1. /\ R \in Seq(Nat) /\ T \in Seq(Nat) /\ Q \in Seq(Nat)
            /\ IsInjective(R) /\ IsInjective(T) /\ IsInjective(Q)
        BY <1>3, <1>4, <1>5, <1>8, <3>1
      <4>4. Range(R \o T \o Q) = Range(R) \cup Range(T) \cup Range(Q)
        BY ONLY <4>1, <3>2, LineFacts
      <4>5. IsInjective(R \o T \o Q)
        BY ONLY <4>1, <3>2, LineFacts
      <4> QED
        BY <4>4, <4>5
    <3>4. Range(R) \cup Range(T) \cup Range(Q) = Owed(s)
      BY <1>4, <1>5, <1>8, <3>1
    <3> QED
      BY <1>7, <2>1, <3>3, <3>4 DEF Q
  <2>5. Lines'
    BY <1>1, <1>10, <2>2, <2>4 DEF Lines
  <2>6. Ordered'
    BY <2>1 DEF Ordered
  <2> QED
    BY <2>5, <2>6
<1> QED
  BY <1>11, <1>12

-----------------------------------------------------------------------------
(* The theorems.                                                           *)

LEMMA InvStep == QueueInv /\ [QueueNext]_queueVars => QueueInv'
<1> SUFFICES ASSUME QueueInv, [QueueNext]_queueVars
             PROVE  QueueInv'
  OBVIOUS
<1>1. CASE QueueNext
  <2>1. TypeInv' /\ Locks'
    BY <1>1, TypeStep, LocksStep
  <2>2. Lines' /\ Ordered'
    <3>1. ASSUME NEW s \in Sessions, Send(s)
          PROVE  Lines' /\ Ordered'
      BY <2>1, <3>1, SendLines
    <3>2. ASSUME NEW r \in Receivers, NEW s \in Sessions, Claim(r, s) \/ ClaimById(r, s)
          PROVE  Lines' /\ Ordered'
      BY <2>1, <3>2, ClaimLines
    <3>3. ASSUME NEW r \in Receivers, NEW s \in Sessions,
                 Receive(r, s) \/ MarkInFlight(r, s) \/ Release(r, s)
          PROVE  Lines' /\ Ordered'
      BY <2>1, <3>3, ReceiveLines
    <3>4. ASSUME NEW r \in Receivers, NEW s \in Sessions, NEW m \in Messages,
                 Complete(r, s, m) \/ Abandon(r, s, m)
          PROVE  Lines' /\ Ordered'
      BY <2>1, <3>4, OutLines
    <3> QED
      BY <1>1, <3>1, <3>2, <3>3, <3>4 DEF QueueNext
  <2> QED
    BY <2>1, <2>2 DEF QueueInv
<1>2. CASE UNCHANGED queueVars
  <2>1. TypeInv' /\ Locks'
    BY <1>2 DEF queueVars, QueueInv, TypeInv, Locks, Locked, OneReceiverPerSession, Messages
  <2>2. \A s \in Sessions : Line(s)' = Line(s)
    BY <1>2 DEF queueVars, Line, InHand, Locked
  <2>3. Lines' /\ Ordered'
    BY <1>2, <2>2, LinesKept DEF queueVars
  <2> QED
    BY <2>1, <2>3 DEF QueueInv
<1> QED
  BY <1>1, <1>2

LEMMA InvInit == QueueInit => QueueInv
<1> SUFFICES ASSUME QueueInit
             PROVE  QueueInv
  OBVIOUS
<1>1. Messages = {} /\ \A s \in Sessions : ~Locked(s)
  BY DEF QueueInit, Messages, Locked
<1>2. TypeInv /\ Locks
  BY <1>1 DEF QueueInit, TypeInv, Locks, OneReceiverPerSession
<1>3. ASSUME NEW s \in Sessions
      PROVE  Line(s) = <<>> /\ Owed(s) = {}
  <2>1. Line(s) = <<>> \o <<>> \o <<>>
    BY <1>1 DEF QueueInit, Line, InHand
  <2>2. <<>> \o <<>> = <<>>
    BY Nothing, ConcatEmptySeq
  <2> QED
    BY <1>1, <2>1, <2>2 DEF Owed
<1>4. Lines /\ Ordered
  BY <1>3, Nothing DEF Lines, Ordered
<1> QED
  BY <1>2, <1>4 DEF QueueInv

LEMMA InvHolds == QueueSpec => []QueueInv
BY InvInit, InvStep, PTL DEF QueueSpec

\* A session's messages are out with one receiver at a time, however claims by
\* turn and by id interleave: the lock is looked at and taken in one critical
\* section of _claim.
THEOREM OneReceiverHolds == QueueSpec => []OneReceiverPerSession
<1>1. QueueInv => OneReceiverPerSession
  BY DEF QueueInv, Locks
<1> QED
  BY <1>1, InvHolds, PTL

\* No message is lost or doubled: what receive_messages popped and has not yet
\* marked in flight is in the hands of the one who holds the session, and
\* _abandon and _release put back what they take out.
THEOREM NothingLostHolds == QueueSpec => []NothingLostOrTwice
<1>1. ASSUME QueueInv
      PROVE  NothingLostOrTwice
  <2> SUFFICES ASSUME NEW m \in Messages, NEW s \in Sessions
               PROVE  Cardinality({i \in 1..Len(Line(s)) : Line(s)[i] = m})
                         = IF s = sent[m] /\ m \notin completed THEN 1 ELSE 0
    BY DEF NothingLostOrTwice
  <2> DEFINE q == Line(s)
             places == {i \in 1..Len(q) : q[i] = m}
  <2>1. q \in Seq(Nat) /\ Range(q) = Owed(s) /\ IsInjective(q)
    BY <1>1, LineTyped DEF QueueInv, Lines, Locks
  <2>2. Len(q) \in Nat /\ DOMAIN q = 1..Len(q)
    BY <2>1, Facts
  <2> HIDE DEF q
  <2>3. CASE s = sent[m] /\ m \notin completed
    <3>1. PICK i \in DOMAIN q : q[i] = m
      BY <2>1, <2>3 DEF Owed, Range
    <3>2. places = {i}
      BY <2>1, <2>2, <3>1 DEF IsInjective
    <3> QED
      BY <2>3, <3>2, FS_Singleton DEF q
  <2>4. CASE ~(s = sent[m] /\ m \notin completed)
    <3>1. places = {}
      BY <2>1, <2>2, <2>4 DEF Owed, Range
    <3> QED
      BY <2>4, <3>1, FS_EmptySet DEF q
  <2> QED
    BY <2>3, <2>4
<1> QED
  BY <1>1, InvHolds, PTL

\* A block left early, by an exception or in the middle of a batch, gives its
\* messages back in the order they were sent: _release walks in_flight backwards.
THEOREM RedeliveryHolds == QueueSpec => []RedeliveredInOrder
<1>1. ASSUME QueueInv
      PROVE  RedeliveredInOrder
  <2> SUFFICES ASSUME abandons = 0, NEW s \in Sessions
               PROVE  \A i, j \in 1..Len(Line(s)) : i < j => Line(s)[i] < Line(s)[j]
    BY DEF RedeliveredInOrder
  <2>1. Line(s) \in Seq(Nat) /\ Rising(Line(s))
    BY <1>1, LineTyped DEF QueueInv, Ordered, Locks
  <2>2. DOMAIN Line(s) = 1..Len(Line(s))
    BY <2>1, Facts
  <2> QED
    BY <2>1, <2>2 DEF Rising
<1> QED
  BY <1>1, InvHolds, PTL

=============================================================================
