-------------------------- MODULE ColdStartProofs --------------------------
(***************************************************************************)
(* Theorems about a cold start beside pages, onboarding and test events,   *)
(* for every set of keys, page size and bound.                             *)
(***************************************************************************)
EXTENDS TestEvents, SequenceTheorems, WellFoundedInduction, TLAPS

-----------------------------------------------------------------------------
(* Types.                                                                  *)

Phases == {"started", "people", "walked", "students", "loaded", "latest", "advanced"}

Event == [key : Keys, deleted : BOOLEAN, kind : Kinds, value : 1..MaxValue]
Snapshot == [value : 0..MaxValue, deleted : BOOLEAN, event : 0..MaxEvents]
OpenPage == [open : {TRUE}, since : 0..Foreign, events : SUBSET (1..MaxEvents),
             known : SUBSET Students]
RunningLoad == [phase : Phases, payload : [Keys -> 0..MaxValue],
                seen : [Keys -> 0..MaxEvents], latest : 0..MaxEvents]

\* The canonical table is what the live snapshots show.
TypeInv ==
    /\ partner \in [Keys -> 0..MaxValue]
    /\ feed \in Seq(Event) /\ Len(feed) <= MaxEvents
    /\ dropped \in 0..Len(feed)
    /\ live \in [Keys -> Snapshot]
    /\ canonical = [k \in Keys |-> [value |-> live[k].value, deleted |-> live[k].deleted]]
    /\ cursor \in 0..Len(feed) \cup {Foreign}
    /\ page # NoPage => /\ page \in OpenPage
                        /\ page.since \in 0..Len(feed) \cup {Foreign}
                        /\ page.events \subseteq 1..Len(feed)
    /\ load # NoLoad => /\ load \in RunningLoad
                        /\ load.latest <= Len(feed)
                        /\ \A k \in Keys : load.seen[k] <= Len(feed)
    /\ heard \subseteq 1..Len(feed)
    /\ overtaken \in BOOLEAN

-----------------------------------------------------------------------------
(* What an event of the feed has come to.                                  *)

Of(k) == {p \in DOMAIN feed : feed[p].key = k}
Newest(k, p) == p \in Of(k) /\ \A q \in Of(k) : q <= p

\* The last event of a key tells how the partner holds it.
FeedInv == \A k \in Keys : \A p \in Of(k) : Newest(k, p) =>
    IF partner[k] = 0 THEN feed[p].deleted
    ELSE ~feed[p].deleted /\ feed[p].value = partner[k]

\* A live snapshot was written by a load, or holds an event of its key.
LiveInv == \A k \in Keys :
    IF live[k].event = 0 THEN ~live[k].deleted /\ (Of(k) = {} => live[k].value = partner[k])
    ELSE /\ live[k].event \in Of(k)
         /\ live[k].value = feed[live[k].event].value
         /\ live[k].deleted = feed[live[k].event].deleted

Excused(p) == p \in held_back \cup missed \/ (p \in heard /\ feed[p].kind # "ok")

Settled(k, p) ==
    \/ Agrees(k)
    \/ p \notin heard /\ feed[p].deleted
    \/ p \notin heard /\ k \in Enrollments /\ live[k].deleted /\ live[k].value = feed[p].value

\* Up to c, the last event of a key is in the tables or has its reason.
SettledTo(c) == c # Foreign =>
    \A k \in Keys : \A p \in Of(k) : Newest(k, p) /\ p <= c => Excused(p) \/ Settled(k, p)

\* What a page has brought is in the tables, wherever the cursor has gone.
HeardInv == \A k \in Keys : \A p \in Of(k) :
    Newest(k, p) /\ p \in heard => Excused(p) \/ Agrees(k)

-----------------------------------------------------------------------------
(* Where the cursor, an open page and a load stand.                        *)

\* A poll after c brings nothing at or before this position.
Behind(c) == IF c = 0 THEN dropped ELSE c

NoneBeyond(c) == \A p \in heard : p <= Behind(c)

CursorInv == SettledTo(cursor) /\ NoneBeyond(cursor)

\* A page continues where its cursor was: it skips only events that were
\* missed, and it repeats none.
PageInv == page.open =>
    /\ load = NoLoad
    /\ SettledTo(page.since)
    /\ page.events = {} => NoneBeyond(page.since)
    /\ \A q \in page.events :
          /\ page.since < q
          /\ \A p \in heard : p < q
          /\ \A p \in 1..q : p <= page.since \/ p \in missed \cup page.events

\* The keys whose resource a load has walked, and those it has written.
Walked == IF load.phase = "started" THEN {} ELSE IF load.phase = "people" THEN Students ELSE Keys
Applied == IF load.phase \in {"started", "people", "walked"} THEN {}
           ELSE IF load.phase = "students" THEN Students ELSE Keys

\* What a walk saw is what the partner holds, unless an event followed; and
\* nothing that follows was heard of or is behind the cursor.
WalkInv == \A k \in Walked :
    /\ (\A p \in Of(k) : p <= load.seen[k]) => load.payload[k] = partner[k]
    /\ \A p \in heard : p <= load.seen[k]
    /\ load.phase = "advanced" \/ cursor = Foreign \/ cursor <= load.seen[k]

ApplyInv == \A k \in Applied : \A p \in Of(k) :
    Newest(k, p) /\ p <= load.seen[k] => Excused(p) \/ Settled(k, p)

LoadInv == load # NoLoad =>
    WalkInv /\ ApplyInv /\ (load.phase = "latest" => NoneBeyond(load.latest))

\* As long as no page and no load have overlapped.
Calm == FeedInv /\ LiveInv /\ HeardInv /\ CursorInv /\ PageInv /\ LoadInv

ColdInv == TypeInv /\ (overtaken \/ Calm)

-----------------------------------------------------------------------------
(* Facts about the operators.                                              *)

LEMMA Bounds ==
    /\ MaxEvents \in Nat /\ MaxValue \in Nat /\ MaxValue > 0 /\ PageSize \in Nat /\ PageSize > 0
    /\ Foreign = MaxEvents + 1 /\ Foreign \in Nat
    /\ Students \cap Enrollments = {} /\ Keys = Students \cup Enrollments
    /\ \A e \in Enrollments : StudentOf[e] \in Students
BY FeedAssumption DEF Foreign, Keys

\* A set of positions that is not empty has a greatest one.
LEMMA Greatest ==
    ASSUME NEW N \in Nat, NEW T \in SUBSET (1..N), T # {}
    PROVE  /\ Max(T) \in T
           /\ \A n \in T : n <= Max(T)
<1> DEFINE D == {N - m : m \in T}
<1>0. \A i \in T : i \in Nat
  OBVIOUS
<1>1. D \subseteq Nat /\ D # {}
  <2>1. \A m \in T : N - m \in Nat
    OBVIOUS
  <2> QED
    BY <2>1
<1>2. \E x \in D : \A y \in D : ~(<<y, x>> \in OpToRel(<, Nat))
  BY <1>1, NatLessThanWellFounded, WFMin
<1>3. PICK x \in D : \A y \in D : ~(y < x)
  BY <1>1, <1>2 DEF OpToRel
<1>4. PICK m \in T : x = N - m
  OBVIOUS
<1>5. \A n \in T : m >= n
  <2> TAKE n \in T
  <2>1. ~(N - n < N - m)
    BY <1>3, <1>4
  <2>2. n \in Nat /\ m \in Nat
    BY <1>0
  <2> QED
    BY <2>1, <2>2
<1>6. Max(T) \in T /\ \A n \in T : Max(T) >= n
  BY <1>5 DEF Max
<1> QED
  BY <1>6

LEMMA FeedFacts ==
    ASSUME TypeInv
    PROVE  /\ Len(feed) \in Nat /\ DOMAIN feed = 1..Len(feed)
           /\ \A p \in 1..Len(feed) : /\ feed[p] \in Event /\ feed[p].key \in Keys
                                      /\ feed[p].deleted \in BOOLEAN
                                      /\ feed[p].value \in 1..MaxValue
           /\ \A k : Of(k) \subseteq 1..Len(feed)
<1>1. Len(feed) \in Nat /\ DOMAIN feed = 1..Len(feed)
  BY LenProperties DEF TypeInv
<1>2. \A p \in 1..Len(feed) : feed[p] \in Event
  BY <1>1, ElementOfSeq DEF TypeInv
<1> QED
  BY <1>1, <1>2 DEF Event, Of

LEMMA NewestIsLast ==
    ASSUME TypeInv, NEW k \in Keys, Of(k) # {}
    PROVE  Newest(k, LastEvent(k))
BY FeedFacts, Greatest DEF LastEvent, Of, Newest

LEMMA LoadIsNot ==
    /\ NoLoad \notin RunningLoad /\ NoLoad.phase = "rest" /\ ~NoPage.open
    /\ NoPage \notin OpenPage
BY DEF NoLoad, RunningLoad, Phases, NoPage, OpenPage

\* The row and the snapshot a load writes.
LEMMA LoadedRow ==
    ASSUME NEW v
    PROVE  /\ [NoSnapshot EXCEPT !.value = v] = [value |-> v, deleted |-> FALSE, event |-> 0]
           /\ [NoRow EXCEPT !.value = v] = [value |-> v, deleted |-> FALSE]
<1> DEFINE r == [NoRow EXCEPT !.value = v]
           n == [NoSnapshot EXCEPT !.value = v]
<1>1. r \in [value : {v}, deleted : {FALSE}]
  BY DEF NoRow
<1>2. n \in [value : {v}, deleted : {FALSE}, event : {0}]
  BY DEF NoSnapshot
<1> HIDE DEF r, n
<1>3. r = [value |-> v, deleted |-> FALSE]
  BY <1>1
<1>4. n = [value |-> v, deleted |-> FALSE, event |-> 0]
  BY <1>2
<1> QED
  BY <1>3, <1>4 DEF r, n

-----------------------------------------------------------------------------
LEMMA InitInv == TestInit => ColdInv
<1> SUFFICES ASSUME TestInit PROVE ColdInv
  OBVIOUS
<1>1. /\ feed = <<>> /\ dropped = 0 /\ cursor = 0 /\ page = NoPage /\ load = NoLoad
      /\ heard = {} /\ held_back = {} /\ missed = {} /\ overtaken = FALSE
      /\ live = [k \in Keys |-> [NoSnapshot EXCEPT !.value = partner[k]]]
      /\ canonical = [k \in Keys |-> [NoRow EXCEPT !.value = partner[k]]]
  BY DEF TestInit, LoadInit, FeedInit
<1>2. partner \in [Keys -> 0..MaxValue]
  BY Bounds DEF TestInit, LoadInit, FeedInit
<1>3. \A k \in Keys :
          /\ [NoSnapshot EXCEPT !.value = partner[k]]
                = [value |-> partner[k], deleted |-> FALSE, event |-> 0]
          /\ [NoRow EXCEPT !.value = partner[k]] = [value |-> partner[k], deleted |-> FALSE]
  BY LoadedRow
<1>4. /\ live = [k \in Keys |-> [value |-> partner[k], deleted |-> FALSE, event |-> 0]]
      /\ canonical = [k \in Keys |-> [value |-> partner[k], deleted |-> FALSE]]
  BY <1>1, <1>3
<1>5. /\ live \in [Keys -> Snapshot]
      /\ canonical = [k \in Keys |-> [value |-> live[k].value, deleted |-> live[k].deleted]]
  <2>1. \A k \in Keys : [value |-> partner[k], deleted |-> FALSE, event |-> 0] \in Snapshot
    BY <1>2, Bounds DEF Snapshot
  <2>2. \A k \in Keys : live[k].value = partner[k] /\ live[k].deleted = FALSE
    BY <1>4
  <2> QED
    BY <1>4, <2>1, <2>2
<1>6. feed \in Seq(Event) /\ Len(feed) = 0 /\ DOMAIN feed = {}
  <2>1. <<>> \in Seq(Event) /\ Len(<<>>) = 0 /\ DOMAIN <<>> = 1..0 /\ 1..0 = {}
    BY EmptySeq, LenProperties
  <2> QED
    BY <1>1, <2>1
<1>7. TypeInv
  <2>1. cursor \in 0..Len(feed) \cup {Foreign} /\ dropped \in 0..Len(feed)
    BY <1>1, <1>6
  <2>2. Len(feed) <= MaxEvents /\ heard \subseteq 1..Len(feed)
    BY <1>1, <1>6, Bounds
  <2>3. overtaken \in BOOLEAN
    BY <1>1
  <2> QED
    BY <1>1, <1>2, <1>5, <1>6, <2>1, <2>2, <2>3 DEF TypeInv
<1>8. \A k : Of(k) = {}
  BY <1>6 DEF Of
<1>9. FeedInv /\ LiveInv /\ HeardInv
  BY <1>4, <1>8 DEF FeedInv, LiveInv, HeardInv
<1>10. CursorInv
  BY <1>1, <1>8 DEF CursorInv, SettledTo, NoneBeyond
<1>11. PageInv /\ LoadInv
  BY <1>1, LoadIsNot DEF PageInv, LoadInv
<1> QED
  BY <1>7, <1>9, <1>10, <1>11 DEF ColdInv, Calm

-----------------------------------------------------------------------------
(* Steps that leave the feed and the tables as they are.                   *)

TablesKept == UNCHANGED <<partner, feed, ledger, heard, held_back>> /\ missed \subseteq missed'

LEMMA TablesKeptFacts ==
    ASSUME TablesKept, NEW k, NEW p
    PROVE  /\ Of(k)' = Of(k) /\ (Newest(k, p)' <=> Newest(k, p))
           /\ Agrees(k)' <=> Agrees(k)
           /\ Settled(k, p)' <=> Settled(k, p)
           /\ Excused(p) => Excused(p)'
<1>1. Of(k)' = Of(k)
  BY DEF TablesKept, Of
<1>2. Newest(k, p)' <=> Newest(k, p)
  BY <1>1 DEF Newest
<1>3. Agrees(k)' <=> Agrees(k)
  BY DEF TablesKept, Agrees, ledger
<1>4. Settled(k, p)' <=> Settled(k, p)
  BY <1>3 DEF TablesKept, Settled, ledger
<1> QED
  BY <1>1, <1>2, <1>3, <1>4 DEF TablesKept, Excused

LEMMA TablesInvKept ==
    ASSUME TablesKept
    PROVE  /\ FeedInv => FeedInv'
           /\ LiveInv => LiveInv'
           /\ HeardInv => HeardInv'
<1>1. FeedInv => FeedInv'
  BY TablesKeptFacts DEF FeedInv, TablesKept
<1>2. LiveInv => LiveInv'
  BY TablesKeptFacts DEF LiveInv, TablesKept, ledger
<1>3. HeardInv => HeardInv'
  BY TablesKeptFacts DEF HeardInv, TablesKept
<1> QED
  BY <1>1, <1>2, <1>3

LEMMA CursorKept ==
    ASSUME TypeInv, TypeInv', TablesKept, dropped <= dropped', CursorInv,
           cursor' \in {cursor, Foreign}
    PROVE  CursorInv'
<1>1. CASE cursor' = Foreign
  <2>1. SettledTo(cursor)'
    BY <1>1, FeedAssumption DEF SettledTo, Foreign
  <2>2. \A p \in heard' : p \in 1..Len(feed') /\ Len(feed') <= MaxEvents /\ p <= Foreign
    BY Bounds, FeedFacts DEF TypeInv, TablesKept
  <2>3. NoneBeyond(cursor)'
    BY <1>1, <2>2, Bounds DEF NoneBeyond, Behind, Foreign
  <2> QED
    BY <2>1, <2>3 DEF CursorInv
<1>2. CASE cursor' = cursor
  <2>1. SettledTo(cursor)'
    BY <1>2, TablesKeptFacts, FeedAssumption DEF CursorInv, SettledTo, Foreign
  <2>2. NoneBeyond(cursor)'
    BY <1>2, FeedFacts DEF CursorInv, NoneBeyond, Behind, TablesKept, TypeInv
  <2> QED
    BY <2>1, <2>2 DEF CursorInv
<1> QED
  BY <1>1, <1>2

LEMMA PageKept ==
    ASSUME TypeInv, TypeInv', TablesKept, dropped <= dropped', PageInv, page' = page,
           page.open => load' = NoLoad
    PROVE  PageInv'
<1> SUFFICES ASSUME page.open PROVE PageInv'
  BY DEF PageInv
<1>1. SettledTo(page.since)'
  BY TablesKeptFacts DEF PageInv, SettledTo, Foreign
<1>2. page'.events = {} => NoneBeyond(page.since)'
  BY FeedFacts DEF PageInv, NoneBeyond, Behind, TablesKept, TypeInv
<1>3. \A q \in page'.events :
          /\ page'.since < q
          /\ \A p \in heard' : p < q
          /\ \A p \in 1..q : p <= page'.since \/ p \in missed' \cup page'.events
  BY DEF PageInv, TablesKept
<1> QED
  BY <1>1, <1>2, <1>3 DEF PageInv

LEMMA LoadKept ==
    ASSUME TypeInv, TypeInv', TablesKept, dropped <= dropped', LoadInv,
           load' \in {load, NoLoad}, cursor' \in {cursor, Foreign}
    PROVE  LoadInv'
<1> SUFFICES ASSUME load' = load, load # NoLoad PROVE LoadInv'
  BY DEF LoadInv
<1>1. Walked' = Walked /\ Applied' = Applied
  BY DEF Walked, Applied
<1>2. WalkInv'
  BY <1>1, TablesKeptFacts DEF LoadInv, WalkInv, TablesKept, Foreign
<1>3. ApplyInv'
  BY <1>1, TablesKeptFacts DEF LoadInv, ApplyInv
<1>4. load'.phase = "latest" => NoneBeyond(load.latest)'
  BY FeedFacts DEF LoadInv, NoneBeyond, Behind, TablesKept, TypeInv, RunningLoad
<1> QED
  BY <1>2, <1>3, <1>4 DEF LoadInv

\* A step that leaves the tables as they are, sends the cursor nowhere or to
\* an id that is not the partner's, and at most ends a load.
LEMMA CalmKept ==
    ASSUME ColdInv, TypeInv', TablesKept, dropped <= dropped', page' = page,
           load' \in {load, NoLoad}, cursor' \in {cursor, Foreign},
           overtaken' = overtaken
    PROVE  ColdInv'
<1> SUFFICES ASSUME ~overtaken PROVE Calm'
  BY DEF ColdInv
<1>1. Calm /\ TypeInv
  BY DEF ColdInv
<1>2. FeedInv' /\ LiveInv' /\ HeardInv'
  BY <1>1, TablesInvKept DEF Calm
<1>3. CursorInv' /\ LoadInv'
  BY <1>1, CursorKept, LoadKept DEF Calm
<1>4. PageInv'
  BY <1>1, PageKept DEF Calm, PageInv
<1> QED
  BY <1>2, <1>3, <1>4 DEF Calm

-----------------------------------------------------------------------------
(* The partner.                                                            *)

LEMMA PublishStep ==
    ASSUME ColdInv, NEW k \in Keys, NEW v \in 0..MaxValue, NEW kind \in Kinds,
           Publish(k, v, kind),
           UNCHANGED <<ledger, cursor, page, load, running, orphaned, history>>
    PROVE  ColdInv'
<1> DEFINE n == Len(feed) + 1
           ev == [key |-> k, deleted |-> v = 0, kind |-> kind,
                  value |-> IF v = 0 THEN partner[k] ELSE v]
<1>1. TypeInv
  BY DEF ColdInv
<1>2. /\ feed' = Append(feed, ev) /\ partner' = [partner EXCEPT ![k] = v] /\ partner[k] # v
      /\ dropped' = dropped /\ live' = live /\ canonical' = canonical /\ cursor' = cursor
      /\ page' = page /\ load' = load /\ heard' = heard /\ held_back' = held_back
      /\ missed' = missed /\ overtaken' = overtaken /\ Len(feed) < MaxEvents
  BY DEF Publish, ledger, history
<1>3. ev \in Event
  <2>1. partner[k] \in 0..MaxValue
    BY <1>1 DEF TypeInv
  <2>2. (IF v = 0 THEN partner[k] ELSE v) \in 1..MaxValue
    BY <1>2, <2>1, Bounds
  <2> QED
    BY <2>2 DEF Event
<1> HIDE DEF ev
<1>4. /\ feed' \in Seq(Event) /\ Len(feed') = n /\ n \in Nat
      /\ feed'[n] = ev /\ \A p \in 1..Len(feed) : feed'[p] = feed[p]
      /\ DOMAIN feed' = 1..n /\ DOMAIN feed = 1..Len(feed) /\ Len(feed) \in Nat
  BY <1>1, <1>2, <1>3, AppendProperties, LenProperties DEF TypeInv
<1>5. /\ \A j \in Keys \ {k} : Of(j)' = Of(j) /\ n \notin Of(j)
      /\ Of(k)' = Of(k) \cup {n} /\ n \notin Of(k)
  BY <1>4 DEF Of, ev
<1>6. \A j \in Keys : Of(j) \subseteq 1..Len(feed)
  BY <1>4 DEF Of
<1>7. /\ \A j \in Keys \ {k} : \A p : Newest(j, p)' <=> Newest(j, p)
      /\ \A p : Newest(k, p)' => p = n
  <2>1. \A j \in Keys \ {k} : \A p : Newest(j, p)' <=> Newest(j, p)
    BY <1>5 DEF Newest
  <2>2. \A p : Newest(k, p)' => p = n
    BY <1>4, <1>5, <1>6 DEF Newest
  <2> QED
    BY <2>1, <2>2
<1>8. TypeInv'
  <2>1. partner' \in [Keys -> 0..MaxValue]
    BY <1>1, <1>2 DEF TypeInv
  <2>2. 0..Len(feed) \subseteq 0..Len(feed') /\ 1..Len(feed) \subseteq 1..Len(feed')
    BY <1>4
  <2>3. Len(feed') <= MaxEvents
    BY <1>2, <1>4, Bounds
  <2>4. load' # NoLoad => load'.latest <= Len(feed') /\ \A j \in Keys : load'.seen[j] <= Len(feed')
    BY <1>1, <1>2, <1>4 DEF TypeInv, RunningLoad
  <2> QED
    BY <1>1, <1>2, <1>4, <2>1, <2>2, <2>3, <2>4 DEF TypeInv
<1> SUFFICES ASSUME ~overtaken PROVE Calm'
  BY <1>2, <1>8 DEF ColdInv
<1>9. Calm
  BY DEF ColdInv
<1>10. \A j \in Keys \ {k} : partner'[j] = partner[j]
  BY <1>1, <1>2 DEF TypeInv
<1>11. partner'[k] = v
  BY <1>1, <1>2 DEF TypeInv
<1>12. FeedInv'
  <2>1. ASSUME NEW j \in Keys \ {k}, NEW p \in Of(j)', Newest(j, p)'
        PROVE  IF partner'[j] = 0 THEN feed'[p].deleted
               ELSE ~feed'[p].deleted /\ feed'[p].value = partner'[j]
    <3>1. p \in Of(j) /\ Newest(j, p) /\ feed'[p] = feed[p] /\ partner'[j] = partner[j]
      BY <1>4, <1>5, <1>6, <1>7, <1>10, <2>1
    <3> QED
      BY <1>9, <3>1 DEF Calm, FeedInv
  <2>2. IF partner'[k] = 0 THEN feed'[n].deleted
        ELSE ~feed'[n].deleted /\ feed'[n].value = partner'[k]
    <3>1. (ev.deleted <=> v = 0) /\ ev.value = IF v = 0 THEN partner[k] ELSE v
      BY DEF ev
    <3>2. v # 0 => ev.value = v
      BY <3>1
    <3> QED
      BY <1>4, <1>11, <3>1, <3>2
  <2> QED
    BY <1>7, <2>1, <2>2 DEF FeedInv
<1>13. LiveInv'
  <2> SUFFICES ASSUME NEW j \in Keys
               PROVE  IF live[j].event = 0
                      THEN ~live[j].deleted /\ (Of(j)' = {} => live[j].value = partner'[j])
                      ELSE /\ live[j].event \in Of(j)'
                           /\ live[j].value = feed'[live[j].event].value
                           /\ live[j].deleted = feed'[live[j].event].deleted
    BY <1>2 DEF LiveInv
  <2>1. Of(j) \subseteq Of(j)' /\ (Of(j)' = {} => Of(j) = {} /\ partner'[j] = partner[j])
    BY <1>5, <1>10
  <2>2. \A p \in Of(j) : feed'[p] = feed[p]
    BY <1>4, <1>6
  <2> QED
    BY <1>9, <2>1, <2>2 DEF Calm, LiveInv
<1>14. \A j \in Keys \ {k} : \A p \in Of(j) :
           /\ Agrees(j)' <=> Agrees(j)
           /\ Excused(p)' <=> Excused(p)
           /\ Settled(j, p)' <=> Settled(j, p)
  <2> TAKE j \in Keys \ {k}
  <2> TAKE p \in Of(j)
  <2>1. Agrees(j)' <=> Agrees(j)
    BY <1>2, <1>10 DEF Agrees
  <2>2. feed'[p] = feed[p]
    BY <1>4, <1>6
  <2> QED
    BY <1>2, <2>1, <2>2 DEF Excused, Settled
<1>15. HeardInv'
  <2>1. n \notin heard
    BY <1>1, <1>4 DEF TypeInv
  <2> QED
    BY <1>2, <1>5, <1>7, <1>9, <1>14, <2>1 DEF Calm, HeardInv
<1>16. ASSUME NEW c \in 0..Len(feed) \cup {Foreign}, SettledTo(c)
       PROVE  c # Foreign => \A j \in Keys : \A p \in Of(j)' :
                  Newest(j, p)' /\ p <= c => Excused(p)' \/ Settled(j, p)'
  <2> SUFFICES ASSUME c # Foreign, NEW j \in Keys, NEW p \in Of(j)', Newest(j, p)', p <= c
               PROVE  Excused(p)' \/ Settled(j, p)'
    OBVIOUS
  <2>1. c \in 0..Len(feed) /\ ~(n <= c)
    BY <1>4
  <2>2. j # k
    BY <1>7, <2>1
  <2> QED
    BY <1>5, <1>7, <1>14, <1>16, <2>2 DEF SettledTo
<1>17. CursorInv'
  <2>1. SettledTo(cursor)'
    BY <1>1, <1>2, <1>9, <1>16 DEF TypeInv, Calm, CursorInv, SettledTo, Foreign
  <2>2. NoneBeyond(cursor)'
    BY <1>2, <1>9 DEF Calm, CursorInv, NoneBeyond, Behind
  <2> QED
    BY <2>1, <2>2 DEF CursorInv
<1>18. PageInv'
  <2> SUFFICES ASSUME page.open PROVE PageInv'
    BY <1>2 DEF PageInv
  <2>1. page.since \in 0..Len(feed) \cup {Foreign}
    BY <1>1, LoadIsNot DEF TypeInv
  <2>2. SettledTo(page.since)'
    BY <1>2, <1>9, <1>16, <2>1 DEF Calm, PageInv, SettledTo, Foreign
  <2> QED
    BY <1>2, <1>9, <2>2 DEF Calm, PageInv, NoneBeyond, Behind
<1>19. LoadInv'
  <2> SUFFICES ASSUME load # NoLoad PROVE LoadInv'
    BY <1>2 DEF LoadInv
  <2>1. \A j \in Keys : load.seen[j] \in Nat /\ ~(n <= load.seen[j])
    BY <1>1, <1>4 DEF TypeInv, RunningLoad
  <2>2. Walked' = Walked /\ Applied' = Applied /\ Walked \subseteq Keys /\ Applied \subseteq Keys
    BY <1>2 DEF Walked, Applied, Keys
  <2>3. WalkInv'
    BY <1>2, <1>5, <1>9, <1>10, <2>1, <2>2 DEF Calm, LoadInv, WalkInv, Foreign
  <2>4. ApplyInv'
    BY <1>2, <1>5, <1>7, <1>9, <1>14, <2>1, <2>2 DEF Calm, LoadInv, ApplyInv
  <2> QED
    BY <1>2, <1>9, <2>3, <2>4 DEF Calm, LoadInv, NoneBeyond, Behind
<1> QED
  BY <1>12, <1>13, <1>15, <1>17, <1>18, <1>19 DEF Calm

LEMMA ExpireStep ==
    ASSUME ColdInv, Expire,
           UNCHANGED <<ledger, cursor, page, load, running, orphaned, history>>
    PROVE  ColdInv'
<1>1. TypeInv
  BY DEF ColdInv
<1>2. /\ dropped' = dropped + 1 /\ dropped < Len(feed) /\ feed' = feed /\ partner' = partner
      /\ live' = live /\ canonical' = canonical /\ cursor' = cursor /\ page' = page
      /\ load' = load /\ heard' = heard /\ held_back' = held_back /\ missed' = missed
      /\ overtaken' = overtaken
  BY DEF Expire, ledger, history
<1>3. dropped' \in 0..Len(feed) /\ dropped <= dropped'
  BY <1>1, <1>2, FeedFacts DEF TypeInv
<1>4. TypeInv'
  BY <1>1, <1>2, <1>3 DEF TypeInv, Foreign
<1>5. TablesKept
  BY <1>2 DEF TablesKept, ledger
<1> QED
  BY <1>2, <1>3, <1>4, <1>5, CalmKept

-----------------------------------------------------------------------------
(* The worker.                                                             *)

\* What a poll brings.
LEMMA EventsFacts ==
    ASSUME TypeInv
    PROVE  /\ GetEvents(cursor) \subseteq 1..Len(feed)
           /\ \A q \in GetEvents(cursor) :
                 /\ cursor \in 0..Len(feed) /\ Behind(cursor) < q
                 /\ \A p \in 1..q : p <= Behind(cursor) \/ p \in GetEvents(cursor)
<1>1. /\ Len(feed) \in Nat /\ DOMAIN feed = 1..Len(feed) /\ dropped \in 0..Len(feed)
      /\ cursor \in 0..Len(feed) \cup {Foreign} /\ Len(feed) < Foreign
  BY FeedFacts, Bounds DEF TypeInv
<1>2. CASE ~Held(cursor)
  <2>1. SliceStart(cursor) = Len(feed)
    BY <1>2 DEF SliceStart
  <2> QED
    BY <1>1, <2>1 DEF GetEvents
<1>3. CASE Held(cursor)
  <2>1. cursor \in 0..Len(feed)
    BY <1>1, <1>3 DEF Held
  <2>2. SliceStart(cursor) = Behind(cursor) /\ Behind(cursor) \in 0..Len(feed)
    BY <1>1, <1>3, <2>1 DEF SliceStart, Behind
  <2> QED
    BY <1>1, <2>1, <2>2, Bounds DEF GetEvents
<1> QED
  BY <1>2, <1>3

LEMMA FetchPageStep ==
    ASSUME ColdInv, FetchPage
    PROVE  ColdInv'
<1>1. TypeInv
  BY DEF ColdInv
<1>2. /\ ~page.open
      /\ page' = [open |-> TRUE, since |-> cursor, events |-> GetEvents(cursor),
                  known |-> {s \in Students : canonical[s] # NoRow}]
      /\ missed \subseteq missed' /\ (cursor = 0 => 1..dropped \subseteq missed')
      /\ overtaken' = (overtaken \/ load # NoLoad) /\ dropped' = dropped
      /\ feed' = feed /\ partner' = partner /\ live' = live /\ canonical' = canonical
      /\ cursor' = cursor /\ load' = load /\ heard' = heard /\ held_back' = held_back
  BY DEF FetchPage, ledger, feedVars
<1>3. /\ Len(feed) \in Nat /\ Len(feed) <= MaxEvents /\ dropped \in 0..Len(feed)
      /\ cursor \in 0..Len(feed) \cup {Foreign} /\ GetEvents(cursor) \subseteq 1..Len(feed)
  BY <1>1, FeedFacts, EventsFacts DEF TypeInv
<1>4. TypeInv'
  <2>1. page' \in OpenPage /\ page'.since = cursor /\ page'.events = GetEvents(cursor)
    BY <1>2, <1>3, Bounds DEF OpenPage
  <2>2. overtaken' \in BOOLEAN
    BY <1>2
  <2> QED
    BY <1>1, <1>2, <1>3, <2>1, <2>2 DEF TypeInv, Foreign
<1> SUFFICES ASSUME ~overtaken' PROVE Calm'
  BY <1>4 DEF ColdInv
<1>5. Calm /\ load = NoLoad
  BY <1>2 DEF ColdInv
<1>6. TablesKept
  BY <1>2 DEF TablesKept, ledger
<1>7. FeedInv' /\ LiveInv' /\ HeardInv'
  BY <1>5, <1>6, TablesInvKept DEF Calm
<1>8. CursorInv'
  BY <1>1, <1>2, <1>3, <1>4, <1>5, <1>6, CursorKept DEF Calm
<1>9. LoadInv'
  BY <1>2, <1>5 DEF LoadInv
<1>10. PageInv'
  <2>1. SettledTo(page.since)'
    BY <1>2, <1>5, <1>6, TablesKeptFacts DEF Calm, CursorInv, SettledTo, Foreign
  <2>2. NoneBeyond(page.since)'
    BY <1>2, <1>5 DEF Calm, CursorInv, NoneBeyond, Behind
  <2>3. ASSUME NEW q \in GetEvents(cursor)
        PROVE  /\ cursor < q
               /\ \A p \in heard : p < q
               /\ \A p \in 1..q : p <= cursor \/ p \in missed' \cup GetEvents(cursor)
    <3>1. /\ cursor \in 0..Len(feed) /\ Behind(cursor) < q /\ q \in 1..Len(feed)
          /\ \A p \in 1..q : p <= Behind(cursor) \/ p \in GetEvents(cursor)
      BY <1>1, <1>3, EventsFacts
    <3>2. \A p \in heard : p <= Behind(cursor) /\ p \in 1..Len(feed)
      BY <1>1, <1>5 DEF Calm, CursorInv, NoneBeyond, TypeInv
    <3>3. CASE cursor = 0
      BY <1>2, <1>3, <3>1, <3>2, <3>3 DEF Behind
    <3>4. CASE cursor # 0
      BY <1>3, <3>1, <3>2, <3>4 DEF Behind
    <3> QED
      BY <3>3, <3>4
  <2> QED
    BY <1>2, <1>5, <2>1, <2>2, <2>3 DEF PageInv
<1> QED
  BY <1>7, <1>8, <1>9, <1>10 DEF Calm

LEMMA PageEndFacts ==
    ASSUME TypeInv, page.open
    PROVE  /\ page.events \subseteq 1..Len(feed) /\ Len(feed) \in Nat
           /\ page.events = {} => PageEnd = page.since
           /\ page.events # {} => /\ PageEnd \in page.events
                                  /\ \A q \in page.events : q <= PageEnd
           /\ page.since \in 0..Len(feed) \cup {Foreign}
           /\ PageEnd \in 0..Len(feed) \cup {Foreign}
<1>1. /\ page.events \subseteq 1..Len(feed) /\ Len(feed) \in Nat
      /\ page.since \in 0..Len(feed) \cup {Foreign}
  BY FeedFacts, LoadIsNot DEF TypeInv
<1>2. page.events # {} => /\ Max(page.events) \in page.events
                          /\ \A q \in page.events : q <= Max(page.events)
  BY <1>1, Greatest
<1> QED
  BY <1>1, <1>2 DEF PageEnd

LEMMA WrittenFacts ==
    ASSUME TypeInv, page.open, NEW k \in Keys
    PROVE  /\ Written(k) \subseteq Of(k) /\ Written(k) \subseteq page.events
           /\ \A p \in Written(k) : p > live[k].event
           /\ \A p \in Of(k) \cap Accepted : p \in Orphans \/ p <= live[k].event \/ p \in Written(k)
           /\ Written(k) # {} => /\ Max(Written(k)) \in Written(k)
                                 /\ \A q \in Written(k) : q <= Max(Written(k))
<1>1. page.events \subseteq 1..Len(feed) /\ Len(feed) \in Nat /\ DOMAIN feed = 1..Len(feed)
  BY FeedFacts, PageEndFacts
<1>2. live[k].event \in Nat
  BY Bounds DEF TypeInv, Snapshot
<1>3. /\ Written(k) \subseteq Of(k) /\ Written(k) \subseteq page.events
      /\ \A p \in Written(k) : p > live[k].event
      /\ \A p \in Of(k) \cap Accepted : p \in Orphans \/ p <= live[k].event \/ p \in Written(k)
  BY <1>1, <1>2 DEF Written, Accepted, Of
<1>4. Written(k) # {} => /\ Max(Written(k)) \in Written(k)
                         /\ \A q \in Written(k) : q <= Max(Written(k))
  BY <1>1, <1>3, Greatest
<1> QED
  BY <1>3, <1>4

\* What the commit of a page writes of each key, by name.
LEMMA CommitFacts ==
    ASSUME TypeInv, CommitPage
    PROVE  /\ page.open /\ page' = NoPage /\ cursor' = PageEnd
           /\ heard' = heard \cup page.events /\ held_back' = held_back \cup Orphans
           /\ overtaken' = (overtaken \/ load # NoLoad)
           /\ feed' = feed /\ partner' = partner /\ dropped' = dropped
           /\ load' = load /\ missed' = missed
           /\ live' \in [Keys -> Snapshot]
           /\ canonical' = [k \in Keys |-> [value |-> live'[k].value, deleted |-> live'[k].deleted]]
           /\ \A k \in Keys : Written(k) = {} => live'[k] = live[k]
           /\ \A k \in Keys : Written(k) # {} =>
                 /\ live'[k].event = Max(Written(k))
                 /\ live'[k].value = feed[Max(Written(k))].value
                 /\ live'[k].deleted = feed[Max(Written(k))].deleted
<1> DEFINE snap(k) == IF Written(k) = {} THEN live[k]
                      ELSE LET p == Max(Written(k))
                           IN  [value |-> feed[p].value, deleted |-> feed[p].deleted, event |-> p]
           row(k) == IF Written(k) = {} THEN canonical[k]
                     ELSE LET p == Max(Written(k))
                          IN  [value |-> feed[p].value, deleted |-> feed[p].deleted]
<1>1. /\ page.open /\ page' = NoPage /\ cursor' = PageEnd
      /\ heard' = heard \cup page.events /\ held_back' = held_back \cup Orphans
      /\ overtaken' = (overtaken \/ load # NoLoad)
      /\ feed' = feed /\ partner' = partner /\ dropped' = dropped
      /\ load' = load /\ missed' = missed
  BY DEF CommitPage, feedVars
<1>2. live' = [k \in Keys |-> snap(k)] /\ canonical' = [k \in Keys |-> row(k)]
  BY DEF CommitPage
<1>3. ASSUME NEW k \in Keys
      PROVE  /\ snap(k) \in Snapshot
             /\ row(k) = [value |-> snap(k).value, deleted |-> snap(k).deleted]
             /\ Written(k) = {} => snap(k) = live[k]
             /\ Written(k) # {} => /\ snap(k).event = Max(Written(k))
                                   /\ snap(k).value = feed[Max(Written(k))].value
                                   /\ snap(k).deleted = feed[Max(Written(k))].deleted
  <2>1. CASE Written(k) = {}
    BY <2>1 DEF TypeInv
  <2>2. CASE Written(k) # {}
    <3> DEFINE p == Max(Written(k))
    <3>1. p \in 1..Len(feed) /\ Len(feed) <= MaxEvents /\ Len(feed) \in Nat
      BY <1>1, <2>2, WrittenFacts, PageEndFacts DEF TypeInv
    <3>2. feed[p].deleted \in BOOLEAN /\ feed[p].value \in 1..MaxValue
      BY <3>1, FeedFacts
    <3> HIDE DEF p
    <3>3. [value |-> feed[p].value, deleted |-> feed[p].deleted, event |-> p] \in Snapshot
      BY <3>1, <3>2, Bounds DEF Snapshot
    <3>4. /\ snap(k) = [value |-> feed[p].value, deleted |-> feed[p].deleted, event |-> p]
          /\ row(k) = [value |-> feed[p].value, deleted |-> feed[p].deleted]
      BY <2>2 DEF p
    <3> QED
      BY <2>2, <3>3, <3>4 DEF p
  <2> QED
    BY <2>1, <2>2
<1> HIDE DEF snap, row
<1>4. /\ live' \in [Keys -> Snapshot]
      /\ canonical' = [k \in Keys |-> [value |-> live'[k].value, deleted |-> live'[k].deleted]]
  BY <1>2, <1>3
<1> QED
  BY <1>1, <1>2, <1>3, <1>4

LEMMA CommitPageStep ==
    ASSUME ColdInv, CommitPage
    PROVE  ColdInv'
<1>1. TypeInv
  BY DEF ColdInv
<1>2. page.open /\ page' = NoPage /\ feed' = feed /\ partner' = partner /\ missed' = missed
  BY <1>1, CommitFacts
<1>3. TypeInv'
  <2>1. heard' \subseteq 1..Len(feed) /\ cursor' \in 0..Len(feed) \cup {Foreign}
    BY <1>1, CommitFacts, PageEndFacts DEF TypeInv
  <2>2. overtaken' \in BOOLEAN
    BY <1>1, CommitFacts DEF TypeInv
  <2> QED
    BY <1>1, <2>1, <2>2, CommitFacts DEF TypeInv, Foreign
<1> SUFFICES ASSUME ~overtaken' PROVE Calm'
  BY <1>3 DEF ColdInv
<1>4. Calm /\ load = NoLoad
  BY <1>1, CommitFacts DEF ColdInv
<1>5. \A k, p : Of(k)' = Of(k) /\ (Newest(k, p)' <=> Newest(k, p))
  BY <1>2 DEF Newest, Of
<1>6. /\ page.events \subseteq 1..Len(feed) /\ Len(feed) \in Nat /\ heard \subseteq 1..Len(feed)
      /\ Len(feed) < Foreign
  BY <1>1, <1>2, PageEndFacts, Bounds DEF TypeInv
<1>7. \A k \in Keys : Of(k) \subseteq 1..Len(feed) /\ live[k].event \in Nat
  BY <1>1, FeedFacts, Bounds DEF TypeInv, Snapshot
<1>8. /\ \A k \in Keys : canonical[k] = [value |-> live[k].value, deleted |-> live[k].deleted]
      /\ \A k \in Keys : canonical'[k] = [value |-> live'[k].value, deleted |-> live'[k].deleted]
  BY <1>1, CommitFacts DEF TypeInv
\* A key whose live snapshot holds its last event is as the partner has it.
<1>9. ASSUME NEW k \in Keys, NEW p \in Of(k), Newest(k, p),
             live'[k].value = feed[p].value, live'[k].deleted = feed[p].deleted
      PROVE  Agrees(k)'
  <2>1. IF partner[k] = 0 THEN feed[p].deleted
        ELSE ~feed[p].deleted /\ feed[p].value = partner[k]
    BY <1>4, <1>9 DEF Calm, FeedInv
  <2>2. canonical'[k] = [value |-> feed[p].value, deleted |-> feed[p].deleted]
    BY <1>8, <1>9
  <2>3. CASE partner[k] = 0
    BY <1>2, <2>1, <2>2, <2>3 DEF Agrees
  <2>4. CASE partner[k] # 0
    <3>1. feed[p].deleted = FALSE
      BY <1>1, <1>7, <2>1, <2>4, FeedFacts
    <3> QED
      BY <1>2, <2>1, <2>2, <2>4, <3>1 DEF Agrees
  <2> QED
    BY <2>3, <2>4
\* So it is with a last event on the page, unless it is quarantined or left
\* out.
<1>10. ASSUME NEW k \in Keys, NEW p \in Of(k), Newest(k, p), p \in page.events
       PROVE  Excused(p)' \/ Agrees(k)'
  <2>1. CASE p \in Orphans \/ p \notin Accepted
    BY <1>1, <1>10, <2>1, CommitFacts DEF Accepted, Excused
  <2>2. CASE p \in Accepted /\ p \notin Orphans /\ p > live[k].event
    <3>1. p \in Written(k)
      BY <1>1, <1>2, <1>7, <1>10, <2>2, WrittenFacts
    <3>2. Max(Written(k)) = p
      BY <1>1, <1>2, <1>6, <1>7, <1>10, <3>1, WrittenFacts DEF Newest
    <3> QED
      BY <1>1, <1>9, <1>10, <3>1, <3>2, CommitFacts
  <2>3. CASE ~(p > live[k].event)
    <3>1. live[k].event # 0 /\ live[k].event \in Of(k)
      BY <1>4, <1>7, <2>3 DEF Calm, LiveInv
    <3>2. live[k].event = p
      BY <1>7, <1>10, <2>3, <3>1 DEF Newest
    <3>3. Written(k) = {}
      BY <1>1, <1>2, <1>7, <1>10, <3>2, WrittenFacts DEF Newest
    <3>4. live'[k] = live[k] /\ live[k].value = feed[p].value /\ live[k].deleted = feed[p].deleted
      BY <1>1, <1>4, <3>1, <3>2, <3>3, CommitFacts DEF Calm, LiveInv
    <3> QED
      BY <1>9, <1>10, <3>4
  <2> QED
    BY <2>1, <2>2, <2>3
\* A key whose last event came before the page is left as it is.
<1>11. ASSUME NEW k \in Keys, NEW p \in Of(k), Newest(k, p), p \notin page.events,
              p \in heard \/ p <= PageEnd, ~Excused(p)
       PROVE  /\ Written(k) = {}
              /\ PageEnd # Foreign /\ p <= PageEnd => p <= page.since
  <2>1. ASSUME page.events # {}, p <= PageEnd
        PROVE  p <= page.since
    <3>1. PageEnd \in page.events /\ p \in 1..PageEnd
      BY <1>1, <1>2, <1>6, <1>7, <2>1, PageEndFacts
    <3> QED
      BY <1>2, <1>4, <1>11, <3>1 DEF Calm, PageInv, Excused
  <2>2. ASSUME NEW w \in Written(k)
        PROVE  FALSE
    <3>1. w \in Of(k) /\ w \in page.events /\ w < p
      BY <1>1, <1>2, <1>7, <1>11, WrittenFacts DEF Newest
    <3>2. p \notin heard
      BY <1>2, <1>4, <1>6, <1>7, <3>1 DEF Calm, PageInv
    <3>3. p <= page.since /\ page.since < w
      BY <1>2, <1>4, <1>11, <2>1, <3>1, <3>2 DEF Calm, PageInv
    <3> QED
      BY <1>1, <1>2, <1>6, <1>7, <3>1, <3>3, PageEndFacts, Bounds
  <2>3. PageEnd # Foreign /\ p <= PageEnd => p <= page.since
    BY <1>1, <1>2, <2>1, PageEndFacts
  <2> QED
    BY <2>2, <2>3
<1>12. ASSUME NEW k \in Keys, Written(k) = {}
       PROVE  live'[k] = live[k] /\ canonical'[k] = canonical[k] /\ (Agrees(k)' <=> Agrees(k))
  <2>1. live'[k] = live[k] /\ canonical'[k] = canonical[k]
    BY <1>1, <1>8, <1>12, CommitFacts
  <2> QED
    BY <1>2, <2>1 DEF Agrees
<1>13. FeedInv'
  BY <1>2, <1>4, <1>5 DEF Calm, FeedInv
<1>14. LiveInv'
  <2> SUFFICES ASSUME NEW k \in Keys
               PROVE  IF live'[k].event = 0
                      THEN ~live'[k].deleted /\ (Of(k) = {} => live'[k].value = partner[k])
                      ELSE /\ live'[k].event \in Of(k)
                           /\ live'[k].value = feed[live'[k].event].value
                           /\ live'[k].deleted = feed[live'[k].event].deleted
    BY <1>2, <1>5 DEF LiveInv
  <2>1. CASE Written(k) = {}
    BY <1>4, <1>12, <2>1 DEF Calm, LiveInv
  <2>2. CASE Written(k) # {}
    <3>1. Max(Written(k)) \in Of(k) /\ Max(Written(k)) # 0
      BY <1>1, <1>2, <1>7, <2>2, WrittenFacts
    <3> QED
      BY <1>1, <2>2, <3>1, CommitFacts
  <2> QED
    BY <2>1, <2>2
<1>15. \A p : Excused(p) => Excused(p)'
  BY <1>1, CommitFacts DEF Excused
<1>16. HeardInv'
  <2> SUFFICES ASSUME NEW k \in Keys, NEW p \in Of(k), Newest(k, p), p \in heard \cup page.events
               PROVE  Excused(p)' \/ Agrees(k)'
    BY <1>1, <1>5, CommitFacts DEF HeardInv
  <2>1. CASE p \in page.events
    BY <1>10, <2>1
  <2>2. CASE p \notin page.events
    BY <1>4, <1>11, <1>12, <1>15, <2>2 DEF Calm, HeardInv
  <2> QED
    BY <2>1, <2>2
<1>17. SettledTo(cursor)'
  <2> SUFFICES ASSUME PageEnd # Foreign, NEW k \in Keys, NEW p \in Of(k), Newest(k, p), p <= PageEnd
               PROVE  Excused(p)' \/ Settled(k, p)'
    BY <1>1, <1>5, CommitFacts DEF SettledTo, Foreign
  <2>1. CASE p \in page.events
    BY <1>10, <2>1 DEF Settled
  <2>2. CASE p \notin page.events /\ ~Excused(p)
    <3>1. Written(k) = {} /\ p <= page.since
      BY <1>11, <2>2
    <3>2. page.since # Foreign
      <4>1. CASE page.events = {}
        BY <1>1, <1>2, <4>1, PageEndFacts
      <4>2. CASE page.events # {}
        <5>1. PageEnd \in page.events /\ page.since < PageEnd
          BY <1>1, <1>2, <1>4, <4>2, PageEndFacts DEF Calm, PageInv
        <5> QED
          BY <1>6, <5>1, Bounds
      <4> QED
        BY <4>1, <4>2
    <3>3. Settled(k, p)
      BY <1>2, <1>4, <2>2, <3>1, <3>2 DEF Calm, PageInv, SettledTo
    <3>4. (p \in heard' <=> p \in heard) /\ feed'[p] = feed[p]
      BY <1>1, <2>2, CommitFacts
    <3> QED
      BY <1>12, <3>1, <3>3, <3>4 DEF Settled
  <2> QED
    BY <1>15, <2>1, <2>2
<1>18. NoneBeyond(cursor)'
  <2>1. CASE page.events = {}
    BY <1>1, <1>2, <1>4, <2>1, CommitFacts, PageEndFacts DEF Calm, PageInv, NoneBeyond, Behind
  <2>2. CASE page.events # {}
    <3>1. PageEnd \in page.events /\ \A q \in page.events : q <= PageEnd
      BY <1>1, <1>2, <2>2, PageEndFacts
    <3>2. \A p \in heard : p <= PageEnd
      BY <1>2, <1>4, <1>6, <3>1 DEF Calm, PageInv
    <3>3. PageEnd # 0
      BY <1>6, <3>1
    <3> QED
      BY <1>1, <3>1, <3>2, <3>3, CommitFacts DEF NoneBeyond, Behind
  <2> QED
    BY <2>1, <2>2
<1>19. PageInv' /\ LoadInv'
  BY <1>1, <1>2, <1>4, CommitFacts, LoadIsNot DEF PageInv, LoadInv
<1> QED
  BY <1>13, <1>14, <1>16, <1>17, <1>18, <1>19 DEF Calm, CursorInv

\* A page that fails leaves everything but itself.
LEMMA PageFailsStep ==
    ASSUME ColdInv, PageFails
    PROVE  ColdInv'
<1>1. /\ page' = NoPage /\ dropped' = dropped /\ cursor' = cursor /\ load' = load
      /\ feed' = feed /\ partner' = partner /\ live' = live /\ canonical' = canonical
      /\ heard' = heard /\ held_back' = held_back /\ missed' = missed /\ overtaken' = overtaken
  BY DEF PageFails, ledger, feedVars, history
<1>2. TypeInv /\ TypeInv'
  BY <1>1 DEF ColdInv, TypeInv, Foreign
<1> SUFFICES ASSUME ~overtaken PROVE Calm'
  BY <1>1, <1>2 DEF ColdInv
<1>3. Calm
  BY DEF ColdInv
<1>4. TablesKept /\ dropped <= dropped'
  BY <1>1, <1>2, FeedFacts DEF TablesKept, ledger, TypeInv
<1>5. FeedInv' /\ LiveInv' /\ HeardInv'
  BY <1>3, <1>4, TablesInvKept DEF Calm
<1>6. CursorInv' /\ LoadInv'
  BY <1>1, <1>2, <1>3, <1>4, CursorKept, LoadKept DEF Calm
<1>7. PageInv'
  BY <1>1, LoadIsNot DEF PageInv
<1> QED
  BY <1>5, <1>6, <1>7 DEF Calm

\* onboard-lea.
LEMMA OnboardStep ==
    ASSUME ColdInv, Onboard
    PROVE  ColdInv'
<1>1. TypeInv
  BY DEF ColdInv
<1>2. /\ cursor = 0 /\ ~page.open /\ load = NoLoad /\ cursor' = LatestCursor
      /\ missed' = missed \cup ((1..LatestCursor) \ heard)
      /\ page' = page /\ load' = load /\ overtaken' = overtaken /\ dropped' = dropped
      /\ feed' = feed /\ partner' = partner /\ live' = live /\ canonical' = canonical
      /\ heard' = heard /\ held_back' = held_back
  BY DEF Onboard, SetCursor, ledger, feedVars
<1>3. /\ Len(feed) \in Nat /\ Len(feed) < Foreign /\ LatestCursor \in 0..Len(feed)
      /\ heard \subseteq 1..Len(feed)
      /\ \A p \in heard : p <= IF LatestCursor = 0 THEN dropped ELSE LatestCursor
  BY <1>1, FeedFacts, Bounds DEF LatestCursor, TypeInv
<1>4. TypeInv'
  BY <1>1, <1>2, <1>3 DEF TypeInv, Foreign
<1> SUFFICES ASSUME ~overtaken PROVE Calm'
  BY <1>2, <1>4 DEF ColdInv
<1>5. Calm
  BY DEF ColdInv
<1>6. TablesKept
  BY <1>2 DEF TablesKept, ledger
<1>7. FeedInv' /\ LiveInv' /\ HeardInv'
  BY <1>5, <1>6, TablesInvKept DEF Calm
<1>8. SettledTo(cursor)'
  <2> SUFFICES ASSUME NEW k \in Keys, NEW p \in Of(k), Newest(k, p), p <= LatestCursor
               PROVE  Excused(p)' \/ Settled(k, p)'
    BY <1>2, <1>6, TablesKeptFacts DEF SettledTo, Foreign
  <2>1. CASE p \in heard
    <3>1. Excused(p) \/ Agrees(k)
      BY <1>5, <2>1 DEF Calm, HeardInv
    <3> QED
      BY <1>6, <3>1, TablesKeptFacts DEF Settled
  <2>2. CASE p \notin heard
    BY <1>1, <1>2, <1>3, <2>2, FeedFacts DEF Excused
  <2> QED
    BY <2>1, <2>2
<1>9. NoneBeyond(cursor)'
  BY <1>2, <1>3 DEF NoneBeyond, Behind
<1>10. PageInv' /\ LoadInv'
  BY <1>2 DEF PageInv, LoadInv
<1> QED
  BY <1>7, <1>8, <1>9, <1>10 DEF Calm, CursorInv

-----------------------------------------------------------------------------
(* The load.                                                               *)

LEMMA StartLoadStep ==
    ASSUME ColdInv, StartLoad
    PROVE  ColdInv'
<1>1. TypeInv
  BY DEF ColdInv
<1>2. /\ load = NoLoad
      /\ load' = [phase |-> "started", payload |-> [k \in Keys |-> 0],
                  seen |-> [k \in Keys |-> 0], latest |-> 0]
      /\ overtaken' = (overtaken \/ page.open)
      /\ page' = page /\ dropped' = dropped /\ cursor' = cursor
      /\ feed' = feed /\ partner' = partner /\ live' = live /\ canonical' = canonical
      /\ heard' = heard /\ held_back' = held_back /\ missed' = missed
  BY DEF StartLoad, ledger, feedVars
<1>3. load' \in RunningLoad /\ load'.latest = 0 /\ (\A k \in Keys : load'.seen[k] = 0)
      /\ load'.phase = "started"
  BY <1>2, Bounds DEF RunningLoad, Phases
<1>4. TypeInv'
  <2>1. overtaken' \in BOOLEAN
    BY <1>2
  <2> QED
    BY <1>1, <1>2, <1>3, <2>1, FeedFacts DEF TypeInv, Foreign
<1> SUFFICES ASSUME ~overtaken' PROVE Calm'
  BY <1>4 DEF ColdInv
<1>5. Calm /\ ~page.open
  BY <1>2 DEF ColdInv
<1>6. TablesKept /\ dropped <= dropped'
  BY <1>1, <1>2 DEF TablesKept, ledger, TypeInv
<1>7. FeedInv' /\ LiveInv' /\ HeardInv'
  BY <1>5, <1>6, TablesInvKept DEF Calm
<1>8. CursorInv'
  BY <1>1, <1>2, <1>4, <1>5, <1>6, CursorKept DEF Calm
<1>9. PageInv'
  BY <1>2, <1>5 DEF PageInv
<1>10. LoadInv'
  BY <1>3 DEF LoadInv, WalkInv, ApplyInv, Walked, Applied
<1> QED
  BY <1>7, <1>8, <1>9, <1>10 DEF Calm

\* While a load is under way no page is open, or they overlap.
LEMMA LoadAlone ==
    ASSUME Calm, load # NoLoad
    PROVE  ~page.open
BY DEF Calm, PageInv

\* A step of a load that leaves the tables and the cursor as they are.
LEMMA LoadMoves ==
    ASSUME ColdInv, load # NoLoad, load' \in RunningLoad, load' # NoLoad,
           load'.latest <= Len(feed), \A k \in Keys : load'.seen[k] <= Len(feed),
           UNCHANGED <<feedVars, ledger, cursor, page, history>>,
           ~overtaken => LoadInv'
    PROVE  ColdInv'
<1>1. TypeInv
  BY DEF ColdInv
<1>2. /\ page' = page /\ dropped' = dropped /\ cursor' = cursor
      /\ feed' = feed /\ partner' = partner /\ live' = live /\ canonical' = canonical
      /\ heard' = heard /\ held_back' = held_back /\ missed' = missed /\ overtaken' = overtaken
  BY DEF ledger, feedVars, history
<1>3. TypeInv'
  BY <1>1, <1>2 DEF TypeInv, Foreign
<1> SUFFICES ASSUME ~overtaken PROVE Calm'
  BY <1>2, <1>3 DEF ColdInv
<1>4. Calm /\ ~page.open
  BY LoadAlone DEF ColdInv
<1>5. TablesKept /\ dropped <= dropped'
  BY <1>1, <1>2 DEF TablesKept, ledger, TypeInv
<1>6. FeedInv' /\ LiveInv' /\ HeardInv'
  BY <1>4, <1>5, TablesInvKept DEF Calm
<1>7. CursorInv'
  BY <1>1, <1>2, <1>3, <1>4, <1>5, CursorKept DEF Calm
<1>8. PageInv'
  BY <1>2, <1>4 DEF PageInv
<1> QED
  BY <1>6, <1>7, <1>8 DEF Calm

LEMMA WalkedLoad ==
    ASSUME NEW l \in RunningLoad, NEW phase \in Phases, NEW payload \in [Keys -> 0..MaxValue],
           NEW seen \in [Keys -> 0..MaxEvents]
    PROVE  [l EXCEPT !.phase = phase, !.payload = payload, !.seen = seen] \in RunningLoad
BY DEF RunningLoad

LEMMA WalkStep ==
    ASSUME ColdInv,
           \/ Walk("started", "people", Students)
           \/ Walk("people", "walked", Enrollments)
    PROVE  ColdInv'
<1>1. TypeInv
  BY DEF ColdInv
<1>2. PICK ks \in {Students, Enrollments}, next \in {"people", "walked"} :
          /\ load.phase \in {"started", "people"}
          /\ IF load.phase = "started" THEN ks = Students /\ next = "people"
             ELSE ks = Enrollments /\ next = "walked"
          /\ Walk(load.phase, next, ks)
  <2>1. CASE Walk("started", "people", Students)
    BY <2>1 DEF Walk
  <2>2. CASE Walk("people", "walked", Enrollments)
    BY <2>2 DEF Walk
  <2> QED
    BY <2>1, <2>2
<1>3. load # NoLoad /\ load \in RunningLoad /\ ks \subseteq Keys
  BY <1>1, <1>2, LoadIsNot, Bounds DEF TypeInv
<1>4. /\ load' = [load EXCEPT !.phase = next,
                     !.payload = [k \in Keys |-> IF k \in ks THEN partner[k] ELSE @[k]],
                     !.seen = [k \in Keys |-> IF k \in ks THEN Len(feed) ELSE @[k]]]
      /\ UNCHANGED <<feedVars, ledger, cursor, page, history>>
  BY <1>2 DEF Walk
<1>5. /\ load'.phase = next /\ load'.latest = load.latest
      /\ \A k \in Keys : load'.payload[k] = IF k \in ks THEN partner[k] ELSE load.payload[k]
      /\ \A k \in Keys : load'.seen[k] = IF k \in ks THEN Len(feed) ELSE load.seen[k]
  BY <1>3, <1>4 DEF RunningLoad
<1>6. load' \in RunningLoad
  <2> DEFINE payload == [k \in Keys |-> IF k \in ks THEN partner[k] ELSE load.payload[k]]
             seen == [k \in Keys |-> IF k \in ks THEN Len(feed) ELSE load.seen[k]]
  <2>1. \A k \in Keys : /\ (IF k \in ks THEN partner[k] ELSE load.payload[k]) \in 0..MaxValue
                        /\ (IF k \in ks THEN Len(feed) ELSE load.seen[k]) \in 0..MaxEvents
    BY <1>1, <1>3, FeedFacts, Bounds DEF TypeInv, RunningLoad
  <2>2. payload \in [Keys -> 0..MaxValue] /\ seen \in [Keys -> 0..MaxEvents]
    BY <2>1
  <2>3. next \in Phases
    BY <1>2 DEF Phases
  <2>4. load' = [load EXCEPT !.phase = next, !.payload = payload, !.seen = seen]
    BY <1>4
  <2> HIDE DEF payload, seen
  <2> QED
    <3>1. [load EXCEPT !.phase = next, !.payload = payload, !.seen = seen] \in RunningLoad
      BY <1>3, <2>2, <2>3, WalkedLoad
    <3> QED
      BY <2>4, <3>1
<1>7. load'.latest <= Len(feed) /\ \A k \in Keys : load'.seen[k] <= Len(feed)
  <2>1. load.latest <= Len(feed) /\ \A k \in Keys : load.seen[k] <= Len(feed)
    BY <1>1, <1>3 DEF TypeInv
  <2>2. Len(feed) \in Nat
    BY <1>1, FeedFacts
  <2> QED
    BY <1>5, <2>1, <2>2
<1>8. ASSUME ~overtaken PROVE LoadInv'
  <2>1. LoadInv
    BY <1>8 DEF ColdInv, Calm
  <2>2. /\ feed' = feed /\ partner' = partner /\ heard' = heard /\ cursor' = cursor
        /\ \A k : Of(k)' = Of(k)
    BY <1>4 DEF feedVars, history, Of
  <2>3. Applied' = {} /\ Walked' = Walked \cup ks /\ Walked \cap ks = {} /\ Walked \subseteq Keys
    BY <1>2, <1>5, Bounds DEF Applied, Walked
  <2>4. WalkInv'
    <3> SUFFICES ASSUME NEW k \in Walked \cup ks
                 PROVE  /\ (\A p \in Of(k) : p <= load'.seen[k]) => load'.payload[k] = partner[k]
                        /\ \A p \in heard : p <= load'.seen[k]
                        /\ cursor = Foreign \/ cursor <= load'.seen[k]
      BY <2>2, <2>3 DEF WalkInv, Foreign
    <3>1. CASE k \in ks
      <4>1. k \in Keys /\ load'.payload[k] = partner[k] /\ load'.seen[k] = Len(feed)
        BY <1>3, <1>5, <3>1
      <4>2. heard \subseteq 1..Len(feed) /\ cursor \in 0..Len(feed) \cup {Foreign} /\ Len(feed) \in Nat
        BY <1>1, FeedFacts DEF TypeInv
      <4>3. \A p \in heard : p <= Len(feed)
        BY <4>2
      <4>4. cursor = Foreign \/ cursor <= Len(feed)
        BY <4>2
      <4> QED
        BY <4>1, <4>3, <4>4
    <3>2. CASE k \notin ks
      <4>1. k \in Walked /\ load'.payload[k] = load.payload[k] /\ load'.seen[k] = load.seen[k]
        BY <1>5, <2>3, <3>2
      <4>2. WalkInv /\ load.phase # "advanced"
        BY <1>2, <1>3, <2>1 DEF LoadInv
      <4>3. /\ (\A p \in Of(k) : p <= load.seen[k]) => load.payload[k] = partner[k]
            /\ \A p \in heard : p <= load.seen[k]
            /\ cursor = Foreign \/ cursor <= load.seen[k]
        BY <4>1, <4>2 DEF WalkInv
      <4> QED
        BY <4>1, <4>3
    <3> QED
      BY <3>1, <3>2
  <2>5. ApplyInv' /\ load'.phase # "latest"
    BY <1>2, <1>5, <2>3 DEF ApplyInv
  <2> QED
    BY <2>4, <2>5 DEF LoadInv
<1>9. load' # NoLoad
  BY <1>6, LoadIsNot
<1> QED
  BY <1>3, <1>4, <1>6, <1>7, <1>8, <1>9, LoadMoves

LEMMA FetchLatestStep ==
    ASSUME ColdInv, FetchLatest
    PROVE  ColdInv'
<1>1. TypeInv
  BY DEF ColdInv
<1>2. load # NoLoad /\ load \in RunningLoad /\ load.phase = "loaded"
  BY <1>1, LoadIsNot DEF FetchLatest, TypeInv
<1>3. /\ load' = [load EXCEPT !.phase = "latest", !.latest = LatestCursor]
      /\ UNCHANGED <<feedVars, ledger, cursor, page, history>>
  BY DEF FetchLatest
<1>4. /\ LatestCursor \in 0..Len(feed) /\ Len(feed) \in Nat /\ Len(feed) <= MaxEvents
      /\ heard \subseteq 1..Len(feed) /\ (LatestCursor = 0 => dropped = Len(feed))
      /\ (LatestCursor # 0 => LatestCursor = Len(feed))
  BY <1>1, FeedFacts DEF LatestCursor, TypeInv
<1>5. /\ load'.phase = "latest" /\ load'.latest = LatestCursor
      /\ load'.payload = load.payload /\ load'.seen = load.seen /\ load' \in RunningLoad
  <2>1. LatestCursor \in 0..MaxEvents /\ "latest" \in Phases
    BY <1>4, Bounds DEF Phases
  <2> QED
    BY <1>2, <1>3, <2>1 DEF RunningLoad
<1>6. ASSUME ~overtaken PROVE LoadInv'
  <2>1. WalkInv /\ ApplyInv
    BY <1>2, <1>6 DEF ColdInv, Calm, LoadInv
  <2>2. TablesKept /\ cursor' = cursor /\ dropped' = dropped /\ heard' = heard /\ partner' = partner
    BY <1>3 DEF TablesKept, feedVars, history, ledger
  <2>3. Walked' = Walked /\ Applied' = Applied
    BY <1>2, <1>5 DEF Walked, Applied
  <2>4. WalkInv'
    BY <1>2, <1>5, <2>1, <2>2, <2>3, TablesKeptFacts DEF WalkInv, Foreign
  <2>5. ApplyInv'
    BY <1>5, <2>1, <2>2, <2>3, TablesKeptFacts DEF ApplyInv
  <2>6. NoneBeyond(load.latest)'
    BY <1>4, <1>5, <2>2 DEF NoneBeyond, Behind
  <2> QED
    BY <2>4, <2>5, <2>6 DEF LoadInv
<1>7. load' # NoLoad
  BY <1>5, LoadIsNot
<1>8. load'.latest <= Len(feed) /\ \A k \in Keys : load'.seen[k] <= Len(feed)
  BY <1>1, <1>2, <1>4, <1>5 DEF TypeInv
<1> QED
  BY <1>2, <1>3, <1>5, <1>6, <1>7, <1>8, LoadMoves

LEMMA AdvanceCursorStep ==
    ASSUME ColdInv, AdvanceCursor
    PROVE  ColdInv'
<1>1. TypeInv
  BY DEF ColdInv
<1>2. load # NoLoad /\ load \in RunningLoad /\ load.phase = "latest" /\ load.latest \in 0..Len(feed)
  BY <1>1, LoadIsNot DEF AdvanceCursor, TypeInv, RunningLoad
<1>3. /\ load' = [load EXCEPT !.phase = "advanced"] /\ cursor' = load.latest
      /\ missed' = missed \cup {p \in 1..load.latest : p > load.seen[feed[p].key]}
      /\ page' = page /\ dropped' = dropped
      /\ feed' = feed /\ partner' = partner /\ live' = live /\ canonical' = canonical
      /\ heard' = heard /\ held_back' = held_back /\ overtaken' = overtaken
  BY DEF AdvanceCursor, LoadGoesTo, ledger, feedVars
<1>4. /\ load'.phase = "advanced" /\ load'.latest = load.latest
      /\ load'.payload = load.payload /\ load'.seen = load.seen /\ load' \in RunningLoad
  BY <1>2, <1>3 DEF RunningLoad, Phases
<1>5. TypeInv'
  BY <1>1, <1>2, <1>3, <1>4 DEF TypeInv, Foreign
<1> SUFFICES ASSUME ~overtaken PROVE Calm'
  BY <1>3, <1>5 DEF ColdInv
<1>6. Calm /\ ~page.open
  BY <1>2, LoadAlone DEF ColdInv
<1>7. TablesKept
  BY <1>3 DEF TablesKept, ledger
<1>8. FeedInv' /\ LiveInv' /\ HeardInv'
  BY <1>6, <1>7, TablesInvKept DEF Calm
<1>9. WalkInv /\ ApplyInv /\ NoneBeyond(load.latest) /\ Applied = Keys /\ Walked = Keys
  BY <1>2, <1>6 DEF Calm, LoadInv, Applied, Walked
<1>10. SettledTo(cursor)'
  <2> SUFFICES ASSUME NEW k \in Keys, NEW p \in Of(k), Newest(k, p), p <= load.latest
               PROVE  Excused(p)' \/ Settled(k, p)'
    BY <1>3, <1>7, TablesKeptFacts DEF SettledTo, Foreign
  <2>1. p \in 1..Len(feed) /\ feed[p].key = k /\ load.seen[k] \in Nat
    BY <1>1, <1>2, Bounds, FeedFacts DEF Of, RunningLoad
  <2>2. CASE p > load.seen[k]
    BY <1>2, <1>3, <2>1, <2>2 DEF Excused
  <2>3. CASE ~(p > load.seen[k])
    BY <1>7, <1>9, <2>1, <2>3, TablesKeptFacts DEF ApplyInv
  <2> QED
    BY <2>2, <2>3
<1>11. NoneBeyond(cursor)'
  BY <1>3, <1>9 DEF NoneBeyond, Behind
<1>12. PageInv'
  BY <1>3, <1>6 DEF PageInv
<1>13. LoadInv'
  <2>1. Walked' = Keys /\ Applied' = Keys
    BY <1>4 DEF Walked, Applied
  <2>2. WalkInv'
    BY <1>3, <1>4, <1>7, <1>9, <2>1, TablesKeptFacts DEF WalkInv
  <2>3. ApplyInv'
    BY <1>4, <1>7, <1>9, <2>1, TablesKeptFacts DEF ApplyInv
  <2> QED
    BY <1>4, <2>2, <2>3 DEF LoadInv
<1> QED
  BY <1>8, <1>10, <1>11, <1>12, <1>13 DEF Calm, CursorInv

\* What a load writes of each key, by name.
Changed(ks) == {k \in ks : load.payload[k] # 0 /\ ~Unchanged(k)}

\* What a write of ks does: live rows of the payload, the rest as it was.
Loaded(next, ks) ==
    /\ load' = [load EXCEPT !.phase = next]
    /\ feed' = feed /\ partner' = partner /\ dropped' = dropped /\ cursor' = cursor
    /\ page' = page /\ heard' = heard /\ held_back' = held_back /\ missed' = missed
    /\ overtaken' = overtaken
    /\ live' \in [Keys -> Snapshot]
    /\ canonical' = [k \in Keys |-> [value |-> live'[k].value, deleted |-> live'[k].deleted]]
    /\ \A k \in Keys \ Changed(ks) : live'[k] = live[k]
    /\ \A k \in Changed(ks) : /\ live'[k].value = load.payload[k]
                              /\ live'[k].deleted = FALSE /\ live'[k].event = 0

LEMMA ApplyFacts ==
    ASSUME TypeInv, NEW phase, NEW next, NEW ks, ks \subseteq Keys, Apply(phase, next, ks),
           load \in RunningLoad
    PROVE  Loaded(next, ks)
<1> DEFINE changed == {k \in ks : load.payload[k] # 0 /\ ~Unchanged(k)}
<1>1. changed = Changed(ks) /\ Changed(ks) \subseteq Keys
  BY DEF Changed
<1>2. /\ load' = [load EXCEPT !.phase = next]
      /\ feed' = feed /\ partner' = partner /\ dropped' = dropped /\ cursor' = cursor
      /\ page' = page /\ heard' = heard /\ held_back' = held_back /\ missed' = missed
      /\ overtaken' = overtaken
  BY DEF Apply, LoadGoesTo, feedVars, history
<1>3. /\ live' = [k \in Keys |-> IF k \in Changed(ks)
                                THEN [NoSnapshot EXCEPT !.value = load.payload[k]] ELSE live[k]]
      /\ canonical' = [k \in Keys |-> IF k \in Changed(ks)
                                     THEN [NoRow EXCEPT !.value = load.payload[k]]
                                     ELSE canonical[k]]
  BY DEF Apply, Changed
<1>4. ASSUME NEW k \in Keys
      PROVE  /\ k \in Changed(ks) =>
                   /\ live'[k] = [value |-> load.payload[k], deleted |-> FALSE, event |-> 0]
                   /\ canonical'[k] = [value |-> load.payload[k], deleted |-> FALSE]
             /\ k \notin Changed(ks) => live'[k] = live[k] /\ canonical'[k] = canonical[k]
  BY <1>3, LoadedRow
<1>5. ASSUME NEW k \in Keys
      PROVE  /\ live'[k] \in Snapshot
             /\ canonical'[k] = [value |-> live'[k].value, deleted |-> live'[k].deleted]
  <2>1. CASE k \in Changed(ks)
    <3>1. load.payload[k] \in 0..MaxValue
      BY DEF RunningLoad
    <3>2. [value |-> load.payload[k], deleted |-> FALSE, event |-> 0] \in Snapshot
      BY <3>1, Bounds DEF Snapshot
    <3>3. live'[k] = [value |-> load.payload[k], deleted |-> FALSE, event |-> 0]
      BY <1>4, <2>1
    <3>4. canonical'[k] = [value |-> load.payload[k], deleted |-> FALSE]
      BY <1>4, <2>1
    <3>5. live'[k].value = load.payload[k] /\ live'[k].deleted = FALSE
      BY <3>3
    <3>6. live'[k] \in Snapshot
      BY <3>2, <3>3
    <3>7. canonical'[k] = [value |-> live'[k].value, deleted |-> live'[k].deleted]
      BY <3>4, <3>5
    <3> QED
      BY <3>6, <3>7
  <2>2. CASE k \notin Changed(ks)
    BY <1>4, <2>2 DEF TypeInv
  <2> QED
    BY <2>1, <2>2
<1>6. /\ live' \in [Keys -> Snapshot]
      /\ canonical' = [k \in Keys |-> [value |-> live'[k].value, deleted |-> live'[k].deleted]]
  BY <1>3, <1>5
<1>7. \A k \in Keys \ Changed(ks) : live'[k] = live[k]
  BY <1>4
<1>8. ASSUME NEW k \in Changed(ks)
      PROVE  live'[k].value = load.payload[k] /\ live'[k].deleted = FALSE /\ live'[k].event = 0
  <2>1. live'[k] = [value |-> load.payload[k], deleted |-> FALSE, event |-> 0]
    BY <1>1, <1>4
  <2> QED
    BY <2>1
<1> QED
  BY <1>2, <1>6, <1>7, <1>8 DEF Loaded

LEMMA ApplyStep ==
    ASSUME ColdInv,
           \/ Apply("walked", "students", Students)
           \/ Apply("students", "loaded", Enrollments)
    PROVE  ColdInv'
<1>1. TypeInv
  BY DEF ColdInv
<1>2. PICK ks \in {Students, Enrollments}, next \in {"students", "loaded"} :
          /\ load.phase \in {"walked", "students"}
          /\ IF load.phase = "walked" THEN ks = Students /\ next = "students"
             ELSE ks = Enrollments /\ next = "loaded"
          /\ Apply(load.phase, next, ks)
  <2>1. CASE Apply("walked", "students", Students)
    BY <2>1 DEF Apply
  <2>2. CASE Apply("students", "loaded", Enrollments)
    BY <2>2 DEF Apply
  <2> QED
    BY <2>1, <2>2
<1>3. load # NoLoad /\ load \in RunningLoad /\ ks \subseteq Keys
  BY <1>1, <1>2, LoadIsNot, Bounds DEF TypeInv
<1>4. /\ load' = [load EXCEPT !.phase = next]
      /\ feed' = feed /\ partner' = partner /\ dropped' = dropped /\ cursor' = cursor
      /\ page' = page /\ heard' = heard /\ held_back' = held_back /\ missed' = missed
      /\ overtaken' = overtaken
      /\ live' \in [Keys -> Snapshot]
      /\ canonical' = [k \in Keys |-> [value |-> live'[k].value, deleted |-> live'[k].deleted]]
      /\ \A k \in Keys \ Changed(ks) : live'[k] = live[k]
      /\ \A k \in Changed(ks) : /\ live'[k].value = load.payload[k]
                                /\ live'[k].deleted = FALSE /\ live'[k].event = 0
  <2>1. Loaded(next, ks)
    BY <1>1, <1>2, <1>3, ApplyFacts
  <2> QED
    BY <2>1 DEF Loaded
<1>5. /\ load'.phase = next /\ load'.latest = load.latest /\ load'.payload = load.payload
      /\ load'.seen = load.seen /\ load' \in RunningLoad
  BY <1>2, <1>3, <1>4 DEF RunningLoad, Phases
<1>6. TypeInv'
  BY <1>1, <1>3, <1>4, <1>5 DEF TypeInv, Foreign
<1> SUFFICES ASSUME ~overtaken PROVE Calm'
  BY <1>4, <1>6 DEF ColdInv
<1>7. Calm /\ ~page.open
  BY <1>3, LoadAlone DEF ColdInv
<1>8. WalkInv /\ ApplyInv /\ Walked = Keys /\ load.phase # "advanced"
  BY <1>2, <1>3, <1>7 DEF Calm, LoadInv, Walked
<1>9. \A k, p : /\ Of(k)' = Of(k) /\ (Newest(k, p)' <=> Newest(k, p))
                /\ (Excused(p)' <=> Excused(p))
  BY <1>4 DEF Of, Newest, Excused
<1>10. /\ \A k \in Keys : canonical[k] = [value |-> live[k].value, deleted |-> live[k].deleted]
       /\ \A k \in Keys : canonical'[k] = [value |-> live'[k].value, deleted |-> live'[k].deleted]
       /\ Changed(ks) \subseteq ks
  BY <1>1, <1>4 DEF TypeInv, Changed
<1>11. ASSUME NEW k \in Keys \ Changed(ks), NEW p
       PROVE  /\ live'[k] = live[k] /\ canonical'[k] = canonical[k]
              /\ Agrees(k)' <=> Agrees(k)
              /\ Settled(k, p)' <=> Settled(k, p)
  <2>1. live'[k] = live[k] /\ canonical'[k] = canonical[k]
    BY <1>4, <1>10
  <2>2. Agrees(k)' <=> Agrees(k)
    BY <1>4, <2>1 DEF Agrees
  <2> QED
    BY <1>4, <2>1, <2>2 DEF Settled
\* A key that no event has followed since the walk is settled by the write.
<1>12. ASSUME NEW k \in ks, NEW p \in Of(k), Newest(k, p), p <= load.seen[k]
       PROVE  /\ Excused(p) \/ Settled(k, p)'
              /\ p \in heard => Excused(p) \/ Agrees(k)'
  <2>1. /\ k \in Keys /\ load.seen[k] \in Nat /\ load.payload[k] \in 0..MaxValue
        /\ p \in 1..Len(feed) /\ Of(k) \subseteq 1..Len(feed) /\ Len(feed) \in Nat
    BY <1>1, <1>3, FeedFacts, Bounds DEF RunningLoad
  <2>2. load.payload[k] = partner[k]
    <3>1. \A q \in Of(k) : q <= load.seen[k]
      BY <1>12, <2>1 DEF Newest
    <3> QED
      BY <1>8, <2>1, <3>1 DEF WalkInv
  <2>3. IF partner[k] = 0 THEN feed[p].deleted
        ELSE ~feed[p].deleted /\ feed[p].value = partner[k]
    BY <1>7, <1>12, <2>1 DEF Calm, FeedInv
  <2>4. p \in heard => Excused(p) \/ Agrees(k)
    BY <1>7, <1>12, <2>1 DEF Calm, HeardInv
  <2>5. CASE k \in Changed(ks)
    <3>1. canonical'[k] = [value |-> partner[k], deleted |-> FALSE] /\ partner[k] # 0
      BY <1>4, <1>10, <2>1, <2>2, <2>5 DEF Changed
    <3>2. Agrees(k)'
      BY <1>4, <3>1 DEF Agrees
    <3> QED
      BY <3>2 DEF Settled
  <2>6. CASE k \notin Changed(ks)
    <3>1. Agrees(k)' <=> Agrees(k)
      BY <1>11, <2>1, <2>6
    <3>2. Settled(k, p)' <=> Settled(k, p)
      BY <1>11, <2>1, <2>6
    <3>3. p \notin heard => Settled(k, p)
      <4>1. CASE partner[k] = 0
        BY <2>3, <4>1 DEF Settled
      <4>2. CASE partner[k] # 0
        <5>1. live[k].value = partner[k] /\ (k \in Students => live[k].event = 0)
          BY <2>2, <2>6, <4>2 DEF Changed, Unchanged
        <5>2. live[k].event = 0 => ~live[k].deleted
          BY <1>7, <2>1 DEF Calm, LiveInv
        <5>3. CASE live[k].deleted
          BY <2>1, <2>3, <4>2, <5>1, <5>2, <5>3, Bounds DEF Settled
        <5>4. CASE ~live[k].deleted
          <6>1. live[k].deleted = FALSE
            BY <1>1, <2>1, <5>4 DEF TypeInv, Snapshot
          <6> QED
            BY <1>10, <2>1, <4>2, <5>1, <6>1 DEF Agrees, Settled
        <5> QED
          BY <5>3, <5>4
      <4> QED
        BY <4>1, <4>2
    <3> QED
      BY <2>4, <3>1, <3>2, <3>3 DEF Settled
  <2> QED
    BY <2>5, <2>6
<1>13. FeedInv'
  BY <1>4, <1>7, <1>9 DEF Calm, FeedInv
<1>14. LiveInv'
  <2> SUFFICES ASSUME NEW k \in Keys
               PROVE  IF live'[k].event = 0
                      THEN ~live'[k].deleted /\ (Of(k) = {} => live'[k].value = partner[k])
                      ELSE /\ live'[k].event \in Of(k)
                           /\ live'[k].value = feed[live'[k].event].value
                           /\ live'[k].deleted = feed[live'[k].event].deleted
    BY <1>4, <1>9 DEF LiveInv
  <2>1. CASE k \in Changed(ks)
    <3>1. Of(k) = {} => load.payload[k] = partner[k]
      BY <1>8 DEF WalkInv
    <3> QED
      BY <1>4, <2>1, <3>1
  <2>2. CASE k \notin Changed(ks)
    BY <1>4, <1>7, <2>2 DEF Calm, LiveInv
  <2> QED
    BY <2>1, <2>2
<1>15. HeardInv'
  <2> SUFFICES ASSUME NEW k \in Keys, NEW p \in Of(k), Newest(k, p), p \in heard
               PROVE  Excused(p) \/ Agrees(k)'
    BY <1>4, <1>9 DEF HeardInv
  <2>1. CASE k \in ks
    BY <1>8, <1>12, <2>1 DEF WalkInv
  <2>2. CASE k \notin ks
    BY <1>7, <1>10, <1>11, <2>2 DEF Calm, HeardInv
  <2> QED
    BY <2>1, <2>2
<1>16. SettledTo(cursor)'
  <2> SUFFICES ASSUME cursor # Foreign, NEW k \in Keys, NEW p \in Of(k), Newest(k, p), p <= cursor
               PROVE  Excused(p) \/ Settled(k, p)'
    BY <1>4, <1>9 DEF SettledTo, Foreign
  <2>1. CASE k \in ks
    <3>1. cursor <= load.seen[k]
      BY <1>8 DEF WalkInv
    <3>2. p \in Nat /\ cursor \in Nat /\ load.seen[k] \in Nat
      BY <1>1, <1>3, FeedFacts, Bounds DEF TypeInv, RunningLoad
    <3> QED
      BY <1>12, <2>1, <3>1, <3>2
  <2>2. CASE k \notin ks
    BY <1>7, <1>10, <1>11, <2>2 DEF Calm, CursorInv, SettledTo
  <2> QED
    BY <2>1, <2>2
<1>17. NoneBeyond(cursor)'
  BY <1>4, <1>7 DEF Calm, CursorInv, NoneBeyond, Behind
<1>18. PageInv'
  BY <1>4, <1>7 DEF PageInv
<1>19. LoadInv'
  <2>1. Walked' = Keys /\ Applied' = Applied \cup ks
    BY <1>2, <1>5 DEF Walked, Applied, Keys
  <2>2. WalkInv'
    BY <1>4, <1>5, <1>8, <1>9, <2>1 DEF WalkInv, Foreign
  <2>3. ApplyInv'
    <3> SUFFICES ASSUME NEW k \in Applied \cup ks, NEW p \in Of(k), Newest(k, p), p <= load.seen[k]
                 PROVE  Excused(p) \/ Settled(k, p)'
      BY <1>5, <1>9, <2>1 DEF ApplyInv
    <3>1. CASE k \in ks
      BY <1>12, <3>1
    <3>2. CASE k \notin ks
      <4>1. k \in Applied /\ k \in Keys \ Changed(ks)
        BY <1>10, <3>2 DEF Applied, Keys
      <4> QED
        BY <1>8, <1>11, <4>1 DEF ApplyInv
    <3> QED
      BY <3>1, <3>2
  <2> QED
    BY <1>2, <1>5, <2>2, <2>3 DEF LoadInv
<1> QED
  BY <1>13, <1>14, <1>15, <1>16, <1>17, <1>18, <1>19 DEF Calm, CursorInv

-----------------------------------------------------------------------------
(* Every step.                                                             *)

LEMMA KeptFacts ==
    ASSUME ColdInv,
           UNCHANGED <<feedVars, ledger, page, history>>, load' \in {load, NoLoad},
           cursor' \in {cursor, Foreign}
    PROVE  ColdInv'
<1>1. TypeInv
  BY DEF ColdInv
<1>2. /\ page' = page /\ dropped' = dropped
      /\ feed' = feed /\ partner' = partner /\ live' = live /\ canonical' = canonical
      /\ heard' = heard /\ held_back' = held_back /\ missed' = missed /\ overtaken' = overtaken
  BY DEF ledger, feedVars, history
<1>3. TypeInv'
  <2>1. load' # NoLoad => load' = load
    OBVIOUS
  <2> QED
    BY <1>1, <1>2, <2>1 DEF TypeInv, Foreign
<1>4. TablesKept /\ dropped <= dropped'
  BY <1>1, <1>2, FeedFacts DEF TablesKept, ledger, TypeInv
<1> QED
  BY <1>2, <1>3, <1>4, CalmKept

\* The task that is scheduled is one of a kind that is dispatched.
Dispatched == test # NoTest => test.kind \in TestKinds

LEMMA DispatchedStep == Dispatched /\ [TestNext]_testVars => Dispatched'
BY DEF Dispatched, TestNext, testVars, Enqueue, Handle, ForceFailure, TaskLost

LEMMA HandledCursor ==
    ASSUME Dispatched, Handle
    PROVE  cursor' \in {cursor, Foreign}
<1>1. /\ cursor' = Handlers[test.kind]
      /\ test.kind \in {"happy_delta", "l1_failure", "l2_failure", "l3_failure", "l4_orphan",
                         "l5_threshold", "reconciliation_drift"}
  BY TestEventsAssumption DEF Handle, Dispatched
<1> QED
  BY <1>1 DEF Handlers, HappyDelta, L1Failure, L2Failure, L3Failure, L4Orphan, L5Threshold,
              ReconciliationDrift

LEMMA Step == ColdInv /\ Dispatched /\ [TestNext]_testVars => ColdInv'
<1> SUFFICES ASSUME ColdInv, Dispatched, [TestNext]_testVars
             PROVE  ColdInv'
  OBVIOUS
<1>1. ASSUME (\E k \in Keys, v \in 0..MaxValue, kind \in Kinds : Publish(k, v, kind)) \/ Expire,
             UNCHANGED <<ledger, cursor, page, load, running, orphaned, history>>
      PROVE  ColdInv'
  BY <1>1, PublishStep, ExpireStep
<1>2. CASE FetchPage \/ CommitPage \/ PageFails \/ Onboard \/ StartLoad
  BY <1>2, FetchPageStep, CommitPageStep, PageFailsStep, OnboardStep, StartLoadStep
<1>3. CASE \/ Walk("started", "people", Students)
           \/ Walk("people", "walked", Enrollments)
  BY <1>3, WalkStep
<1>4. CASE \/ Apply("walked", "students", Students)
           \/ Apply("students", "loaded", Enrollments)
  BY <1>4, ApplyStep
<1>5. CASE FetchLatest \/ AdvanceCursor
  BY <1>5, FetchLatestStep, AdvanceCursorStep
<1>6. CASE FinishLoad \/ RefuseOrphan \/ FailLoad \/ KillLoad
  <2>1. /\ UNCHANGED <<feedVars, ledger, page, history>>
        /\ load' \in {load, NoLoad} /\ cursor' \in {cursor, Foreign}
    BY <1>6 DEF FinishLoad, RefuseOrphan, FailLoad, KillLoad, EndLoad
  <2> QED
    BY <2>1, KeptFacts
<1>7. CASE (\E kind \in TestKinds : Enqueue(kind)) \/ Handle \/ ForceFailure \/ TaskLost
  <2>1. /\ UNCHANGED <<feedVars, ledger, page, history>>
        /\ load' \in {load, NoLoad} /\ cursor' \in {cursor, Foreign}
    BY <1>7, HandledCursor DEF Enqueue, Handle, ForceFailure, TaskLost
  <2> QED
    BY <2>1, KeptFacts
<1>8. CASE UNCHANGED testVars
  <2>1. /\ UNCHANGED <<feedVars, ledger, page, history>>
        /\ load' \in {load, NoLoad} /\ cursor' \in {cursor, Foreign}
    BY <1>8 DEF testVars, loadVars
  <2> QED
    BY <2>1, KeptFacts
<1> QED
  BY <1>1, <1>2, <1>3, <1>4, <1>5, <1>6, <1>7, <1>8 DEF TestNext, LoadNext, LoadStep

LEMMA Inductive == ColdStartSpec => []ColdInv
<1>1. TestInit => ColdInv /\ Dispatched
  BY InitInv DEF TestInit, Dispatched
<1>2. (ColdInv /\ Dispatched) /\ [TestNext]_testVars => (ColdInv /\ Dispatched)'
  BY Step, DispatchedStep
<1> QED
  BY <1>1, <1>2, PTL DEF ColdStartSpec

\* The tables of a cold start, a page and a load keep their types, and the
\* canonical table is what the live snapshots show.
THEOREM ColdTypes == ColdStartSpec => []TypeInv
<1>1. ColdInv => TypeInv
  BY DEF ColdInv
<1> QED
  BY <1>1, Inductive, PTL

\* Pages, loads that fail or die at any step, onboardings and test events
\* leave a row different from the partner's for the reasons named only.
THEOREM StaleCorrect == ColdStartSpec => []StaleForAReason
<1>1. ColdInv => StaleForAReason
  <2> SUFFICES ASSUME ColdInv, ~page.open, load = NoLoad, cursor = Len(feed),
                      NEW k \in Keys, ~Agrees(k), ~overtaken
               PROVE  LET p == LastEvent(k)
                      IN  \/ p \in held_back \cup missed
                          \/ p \in heard /\ feed[p].kind # "ok"
                          \/ p \notin heard /\ feed[p].deleted
                          \/ p \notin heard /\ k \in Enrollments /\ live[k].deleted
                               /\ live[k].value = feed[p].value
    BY DEF StaleForAReason
  <2>1. TypeInv /\ Calm
    BY DEF ColdInv
  <2>2. Of(k) # {}
    <3> SUFFICES ASSUME Of(k) = {} PROVE FALSE
      OBVIOUS
    <3>1. live[k].event = 0 /\ ~live[k].deleted /\ live[k].value = partner[k]
      BY <2>1 DEF Calm, LiveInv
    <3>2. live[k].deleted = FALSE
      BY <2>1, <3>1 DEF TypeInv, Snapshot
    <3>3. canonical[k] = [value |-> partner[k], deleted |-> FALSE]
      BY <2>1, <3>1, <3>2 DEF TypeInv
    <3> QED
      BY <3>3 DEF Agrees, NoRow
  <2>3. Newest(k, LastEvent(k))
    BY <2>1, <2>2, NewestIsLast
  <2>4. cursor # Foreign /\ LastEvent(k) \in Of(k) /\ LastEvent(k) <= cursor
    BY <2>1, <2>3, FeedFacts, Bounds DEF Newest, TypeInv
  <2>5. Excused(LastEvent(k)) \/ Settled(k, LastEvent(k))
    BY <2>1, <2>3, <2>4 DEF Calm, CursorInv, SettledTo
  <2> QED
    BY <2>5 DEF Excused, Settled
<1> QED
  BY <1>1, Inductive, PTL

=============================================================================
