-------------------------- MODULE PageIntakeProofs --------------------------
(***************************************************************************)
(* Theorems about what becomes of raw events, for every feed, page size    *)
(* and bound: what is left out is on record, orphans trace back to an      *)
(* event that was rejected, and a drop of the live students is warned of.  *)
(***************************************************************************)
EXTENDS PageIntake, SequenceTheorems, FiniteSetTheorems, WellFoundedInduction, TLAPS

\* A set of indices that is not empty and has an upper bound has a greatest one.
LEMMA Greatest ==
    ASSUME NEW N \in Nat, NEW T \in SUBSET (1..N), T # {}
    PROVE  \E m \in T : \A n \in T : n <= m
<1> DEFINE D == {N - m : m \in T}
<1>1. D \subseteq Nat /\ D # {}
  <2>1. \A m \in T : N - m \in Nat
    OBVIOUS
  <2> QED
    BY <2>1
<1>2. \E x \in D : \A y \in D : ~(<<y, x>> \in OpToRel(<, Nat))
  BY <1>1, NatLessThanWellFounded, WFMin
<1>3. PICK x \in D : \A y \in D : ~(y < x)
  BY <1>1, <1>2 DEF OpToRel
<1>4. PICK m \in T : x = N - m
  OBVIOUS
<1>5. ASSUME NEW n \in T
      PROVE  n <= m
  <2>1. ~(N - n < N - m)
    BY <1>3, <1>4
  <2>2. n \in Nat /\ m \in Nat
    OBVIOUS
  <2> QED
    BY <2>1, <2>2
<1> QED
  BY <1>5

-----------------------------------------------------------------------------
(* Types.                                                                  *)

Positions == 1..MaxEvents

Row == [event : 0..MaxEvents, deleted : BOOLEAN]

Issue == Positions \X {2, 3} \X {"error", "warning"}

Warnings == {"BASELINE_INSUFFICIENT", "EVENT_VOLUME_SPIKE", "DELETION_BURST",
             "POPULATION_SHIFT"}

JobRow == [status : {"success", "failed"}, events : Nat, deletions : Nat,
           issues : SUBSET Issue, warnings : SUBSET Warnings,
           before : 0..MaxEvents, after : 0..MaxEvents]

TypeInv ==
    /\ feed \in [Positions -> Raws]
    /\ roster \in [Keys -> Row]
    /\ cursor \in 0..MaxEvents
    /\ jobs \in Seq(JobRow)
    /\ quarantine \subseteq Positions
    /\ unalerted \in 0..Len(jobs)
    /\ alerts \subseteq (1..Len(jobs)) \X {"sync_failure", "schema_drift"}
    /\ history \in [retries : 0..MaxRetries, lost : SUBSET (1..Len(jobs))]

LEMMA Bounds ==
    /\ MaxEvents \in Nat /\ MaxJobs \in Nat /\ MaxRetries \in Nat /\ MinHistory \in Nat
    /\ PageSize \in Nat /\ PageSize > 0
BY IntakeAssumption

LEMMA PageEndFacts ==
    ASSUME TypeInv
    PROVE  /\ Len(feed) = MaxEvents
           /\ PageEnd \in cursor..MaxEvents /\ PageEnd \in 0..MaxEvents
           /\ PageEnd = cursor + PageSize \/ PageEnd = MaxEvents
           /\ PageEnd <= cursor + PageSize
<1>1. feed \in Seq(Raws) /\ Len(feed) = MaxEvents
  <2>1. feed \in Seq(Raws)
    BY Bounds, SeqDef DEF TypeInv, Positions
  <2>2. DOMAIN feed = 1..MaxEvents /\ DOMAIN feed = 1..Len(feed) /\ Len(feed) \in Nat
    BY <2>1, LenProperties DEF TypeInv, Positions
  <2> QED
    BY <2>1, <2>2, Bounds
<1> QED
  BY <1>1, Bounds DEF TypeInv, PageEnd

\* A raw event is about a student or an enrollment of its own kind.
LEMMA RawFacts ==
    ASSUME TypeInv, NEW p \in Positions
    PROVE  /\ feed[p] \in Raws /\ feed[p].key \in Keys
           /\ feed[p].word = "person" => feed[p].key \in Students
           /\ feed[p].word = "enrollment" => feed[p].key \in Enrollments
           /\ ~Dropped(feed[p]) => feed[p].word \in {"person", "enrollment"}
<1>1. feed[p] \in Raws
  BY DEF TypeInv
<1> QED
  BY <1>1, IntakeAssumption DEF Raw, Dropped

-----------------------------------------------------------------------------
(* What CommitPage computes, by name.                                      *)

Mapped == {p \in (cursor + 1)..PageEnd : ~Dropped(feed[p])}
Schema == UNION {Layer2(p) : p \in Mapped}
Parse == UNION {Layer3(p) : p \in Mapped \ Rejected(Schema)}
Surviving == Mapped \ Rejected(Schema \cup Parse)
Orphaned == Orphans(Surviving)
New == Fresh(Surviving \ Orphaned)

CommittedJob ==
    Job("success", Cardinality(New),
        Cardinality({p \in New : feed[p].action = "deleted"}),
        Schema \cup Parse, Layer5(Mapped))

LEMMA CommitDef ==
    ASSUME CommitPage
    PROVE  /\ unalerted = 0 /\ cursor' = PageEnd
           /\ roster' = Written(New) /\ quarantine' = quarantine \cup Orphaned
           /\ jobs' = Append(jobs, CommittedJob) /\ unalerted' = Len(jobs) + 1
           /\ UNCHANGED <<feed, alerts, history>>
BY DEF CommitPage, CanPoll, Mapped, Schema, Parse, Surviving, Orphaned, New, CommittedJob

\* The content that Layers 2 and 3 object to.
Faulty(p) == Layer2(p) # {} \/ Layer3(p) # {}

LEMMA LayerIssues ==
    ASSUME NEW p
    PROVE  /\ \A i \in Layer2(p) : i = <<p, 2, "error">>
           /\ \A i \in Layer3(p) : i = <<p, 3, "error">> \/ i = <<p, 3, "warning">>
<1>1. \A i \in Layer2(p) : i = <<p, 2, "error">>
  BY DEF Layer2
<1>2. CASE feed[p].data = "odd_grade"
  BY <1>1, <1>2 DEF Layer3
<1>3. CASE feed[p].data = "ends_first"
  BY <1>1, <1>3 DEF Layer3
<1>4. CASE feed[p].data \notin {"odd_grade", "ends_first"}
  BY <1>1, <1>4 DEF Layer3
<1> QED
  BY <1>2, <1>3, <1>4

LEMMA MappedFacts ==
    ASSUME TypeInv
    PROVE  /\ Mapped \subseteq Positions /\ IsFiniteSet(Mapped)
           /\ \A p \in Mapped : cursor < p /\ p <= PageEnd
<1>1. \A p \in Mapped : p \in Positions /\ cursor < p /\ p <= PageEnd
  BY PageEndFacts, Bounds DEF Mapped, Positions, TypeInv
<1>2. IsFiniteSet(Positions)
  BY Bounds, FS_Interval DEF Positions
<1> QED
  BY <1>1, <1>2, FS_Subset

\* An event of the page goes on exactly when no layer objects to it, and each
\* objection is on record.
LEMMA LayerFacts ==
    ASSUME TypeInv
    PROVE  /\ Schema \cup Parse \subseteq Issue
           /\ \A i \in Schema \cup Parse : i[1] \in Mapped /\ Faulty(i[1])
           /\ \A p \in Mapped : p \in Surviving \/ \E i \in Schema \cup Parse : i[1] = p
           /\ \A p \in Surviving : p \in Mapped /\ ~Faulty(p)
<1>1. \A i \in Schema : \E p \in Mapped : i = <<p, 2, "error">> /\ Faulty(p)
  BY LayerIssues DEF Schema, Faulty
<1>2. \A i \in Parse : \E p \in Mapped :
          (i = <<p, 3, "error">> \/ i = <<p, 3, "warning">>) /\ Faulty(p)
  BY LayerIssues DEF Parse, Faulty
<1>3. Mapped \subseteq Positions
  BY MappedFacts
<1>4. Schema \cup Parse \subseteq Issue
  <2>1. \A p \in Mapped : <<p, 2, "error">> \in Issue /\ <<p, 3, "error">> \in Issue
                          /\ <<p, 3, "warning">> \in Issue
    BY <1>3 DEF Issue
  <2> QED
    BY <1>1, <1>2, <2>1
<1>5. \A i \in Schema \cup Parse : i[1] \in Mapped /\ Faulty(i[1])
  <2>1. \A i \in Schema : i[1] \in Mapped /\ Faulty(i[1])
    BY <1>1
  <2>2. \A i \in Parse : i[1] \in Mapped /\ Faulty(i[1])
    BY <1>2
  <2> QED
    BY <2>1, <2>2
<1>6. \A p \in Mapped : p \in Surviving \/ \E i \in Schema \cup Parse : i[1] = p
  BY DEF Surviving, Rejected
<1>7. ASSUME NEW p \in Surviving
      PROVE  p \in Mapped /\ ~Faulty(p)
  <2>1. p \in Mapped /\ \A i \in Schema \cup Parse : i[1] # p
    BY DEF Surviving, Rejected
  <2>2. Layer2(p) = {}
    <3> SUFFICES ASSUME NEW i \in Layer2(p) PROVE FALSE
      OBVIOUS
    <3>1. i \in Schema /\ i[1] = p
      BY <2>1, LayerIssues DEF Schema
    <3> QED
      BY <2>1, <3>1
  <2>3. Layer3(p) = {}
    <3> SUFFICES ASSUME NEW i \in Layer3(p) PROVE FALSE
      OBVIOUS
    <3>1. p \notin Rejected(Schema)
      BY <2>1 DEF Rejected
    <3>2. i \in Parse /\ i[1] = p
      BY <2>1, <3>1, LayerIssues DEF Parse
    <3> QED
      BY <2>1, <3>2
  <2> QED
    BY <2>1, <2>2, <2>3 DEF Faulty
<1> QED
  BY <1>4, <1>5, <1>6, <1>7


\* The last of the new events of a key is what its row becomes.
LEMMA WrittenFacts ==
    ASSUME TypeInv, NEW fresh \in SUBSET Mapped
    PROVE  /\ Written(fresh) \in [Keys -> Row]
           /\ \A k \in Keys :
                 \/ /\ \A p \in fresh : feed[p].key # k
                    /\ Written(fresh)[k] = roster[k]
                 \/ \E p \in fresh :
                       /\ feed[p].key = k /\ \A q \in fresh : feed[q].key = k => q <= p
                       /\ Written(fresh)[k] =
                             [event |-> p, deleted |-> feed[p].action = "deleted"]
<1>1. fresh \subseteq Positions
  BY MappedFacts
<1>2. ASSUME NEW k \in Keys
      PROVE  /\ Written(fresh)[k] \in Row
             /\ \/ /\ \A p \in fresh : feed[p].key # k
                   /\ Written(fresh)[k] = roster[k]
                \/ \E p \in fresh :
                      /\ feed[p].key = k /\ \A q \in fresh : feed[q].key = k => q <= p
                      /\ Written(fresh)[k] =
                            [event |-> p, deleted |-> feed[p].action = "deleted"]
  <2> DEFINE mine == {p \in fresh : feed[p].key = k}
             last == CHOOSE n \in mine : \A q \in mine : q <= n
  <2>1. Written(fresh)[k] =
            IF mine = {} THEN roster[k]
            ELSE [event |-> last, deleted |-> feed[last].action = "deleted"]
    BY DEF Written
  <2>2. CASE mine = {}
    <3>1. Written(fresh)[k] = roster[k]
      BY <2>1, <2>2
    <3>2. \A p \in fresh : feed[p].key # k
      BY <2>2
    <3> QED
      BY <3>1, <3>2 DEF TypeInv
  <2>3. CASE mine # {}
    <3>1. \E n \in mine : \A q \in mine : q <= n
      BY <1>1, <2>3, Bounds, Greatest DEF Positions
    <3>2. last \in mine /\ \A q \in mine : q <= last
      BY <3>1, Zenon
    <3>3. Written(fresh)[k] = [event |-> last, deleted |-> feed[last].action = "deleted"]
      BY <2>1, <2>3
    <3>4. last \in fresh /\ feed[last].key = k /\ \A q \in fresh : feed[q].key = k => q <= last
      BY <3>2
    <3> HIDE DEF last, mine
    <3>5. last \in 0..MaxEvents
      BY <1>1, <3>4, Bounds DEF Positions
    <3>6. Written(fresh)[k] \in Row
      BY <3>3, <3>5 DEF Row
    <3> QED
      BY <3>3, <3>4, <3>6
  <2> QED
    BY <2>2, <2>3
<1>3. Written(fresh) \in [Keys -> Row]
  <2>1. Written(fresh) = [k \in Keys |-> Written(fresh)[k]]
    BY DEF Written
  <2> QED
    BY <1>2, <2>1
<1> QED
  BY <1>2, <1>3

LEMMA NewFacts ==
    ASSUME TypeInv
    PROVE  /\ New \subseteq Surviving /\ New \subseteq Mapped /\ New \subseteq Positions
           /\ IsFiniteSet(New)
           /\ \A p \in Surviving :
                 p \in Orphaned \/ p \in New \/ ~(roster[feed[p].key].event < p)
           /\ \A p \in New : p \notin Orphaned /\ roster[feed[p].key].event < p
<1>1. New \subseteq Surviving /\ New \subseteq Mapped
  BY LayerFacts DEF New, Fresh
<1>2. New \subseteq Positions /\ IsFiniteSet(New)
  BY <1>1, MappedFacts, FS_Subset
<1> QED
  BY <1>1, <1>2 DEF New, Fresh

LEMMA OrphanFacts ==
    ASSUME TypeInv, NEW p \in Orphaned
    PROVE  /\ p \in Surviving /\ p \in Mapped /\ p \in Positions
           /\ feed[p].word = "enrollment"
           /\ StudentOf[feed[p].key] \in Students
           /\ roster[StudentOf[feed[p].key]].event = 0
           /\ \A q \in Surviving :
                 q < p /\ feed[q].word = "person" => feed[q].key # StudentOf[feed[p].key]
<1>1. /\ p \in Surviving /\ feed[p].word = "enrollment"
      /\ StudentOf[feed[p].key] \notin Known(Surviving, p)
  BY DEF Orphaned, Orphans
<1>2. p \in Mapped /\ p \in Positions
  BY <1>1, LayerFacts, MappedFacts
<1>3. StudentOf[feed[p].key] \in Students
  BY <1>1, <1>2, RawFacts, IntakeAssumption
<1> QED
  BY <1>1, <1>2, <1>3 DEF Known

\* Every row keeps its event or gets a later one.
LEMMA RowsAdvance ==
    ASSUME TypeInv, CommitPage
    PROVE  /\ roster' \in [Keys -> Row]
           /\ \A k \in Keys : roster[k].event <= roster'[k].event
           /\ \A p \in New : p <= roster'[feed[p].key].event
           /\ \A k \in Keys : roster'[k].event # roster[k].event => roster'[k].event \in New
<1>1. roster' = Written(New) /\ New \in SUBSET Mapped /\ New \subseteq Positions
  BY CommitDef, NewFacts
<1>2. /\ roster' \in [Keys -> Row]
      /\ \A k \in Keys :
            \/ /\ \A p \in New : feed[p].key # k
               /\ roster'[k] = roster[k]
            \/ \E p \in New :
                  /\ feed[p].key = k /\ \A q \in New : feed[q].key = k => q <= p
                  /\ roster'[k] = [event |-> p, deleted |-> feed[p].action = "deleted"]
  BY <1>1, WrittenFacts
<1>3. ASSUME NEW k \in Keys
      PROVE  /\ roster[k].event <= roster'[k].event
             /\ \A p \in New : feed[p].key = k => p <= roster'[k].event
             /\ roster'[k].event # roster[k].event => roster'[k].event \in New
  <2>1. roster[k] \in Row /\ roster[k].event \in Nat
    BY Bounds DEF TypeInv, Row
  <2>2. CASE /\ \A p \in New : feed[p].key # k
             /\ roster'[k] = roster[k]
    BY <2>1, <2>2
  <2>3. CASE \E p \in New :
                /\ feed[p].key = k /\ \A q \in New : feed[q].key = k => q <= p
                /\ roster'[k] = [event |-> p, deleted |-> feed[p].action = "deleted"]
    <3>1. PICK p \in New :
                /\ feed[p].key = k /\ \A q \in New : feed[q].key = k => q <= p
                /\ roster'[k] = [event |-> p, deleted |-> feed[p].action = "deleted"]
      BY <2>3
    <3>2. roster[k].event < p /\ p \in Nat
      BY <1>1, <3>1, NewFacts, Bounds DEF Positions
    <3> QED
      BY <2>1, <3>1, <3>2
  <2> QED
    BY <1>2, <2>2, <2>3
<1>4. \A p \in New : feed[p].key \in Keys
  BY <1>1, RawFacts
<1> QED
  BY <1>2, <1>3, <1>4

-----------------------------------------------------------------------------
LEMMA AppendFacts ==
    ASSUME NEW S, NEW s \in Seq(S), NEW e \in S
    PROVE  /\ Append(s, e) \in Seq(S) /\ Len(s) \in Nat
           /\ Len(Append(s, e)) = Len(s) + 1
           /\ \A n \in 1..Len(s) : Append(s, e)[n] = s[n]
           /\ Append(s, e)[Len(s) + 1] = e
BY AppendProperties, LenProperties

LEMMA JobTyped ==
    ASSUME TypeInv, NEW st \in {"success", "failed"}, NEW n \in Nat, NEW m \in Nat,
           NEW is \in SUBSET Issue, NEW ws \in SUBSET Warnings
    PROVE  /\ Job(st, n, m, is, ws) \in JobRow
           /\ Job(st, n, m, is, ws).issues = is /\ Job(st, n, m, is, ws).warnings = ws
           /\ Job(st, n, m, is, ws).before = cursor /\ Job(st, n, m, is, ws).status = st
<1>1. cursor \in 0..MaxEvents /\ PageEnd \in 0..MaxEvents
  BY PageEndFacts DEF TypeInv
<1> QED
  BY <1>1 DEF Job, JobRow

LEMMA CommittedTyped ==
    ASSUME TypeInv
    PROVE  /\ CommittedJob \in JobRow /\ CommittedJob.issues = Schema \cup Parse
           /\ CommittedJob.before = cursor /\ CommittedJob.warnings = Layer5(Mapped)
<1>1. /\ Cardinality(New) \in Nat
      /\ Cardinality({p \in New : feed[p].action = "deleted"}) \in Nat
  <2>1. IsFiniteSet(New)
    BY NewFacts
  <2>2. IsFiniteSet({p \in New : feed[p].action = "deleted"})
    BY <2>1, FS_Subset
  <2> QED
    BY <2>1, <2>2, FS_CardinalityType
<1>2. Schema \cup Parse \in SUBSET Issue
  BY LayerFacts
<1>3. Layer5(Mapped) \in SUBSET Warnings
  <2>1. Layer5(Mapped) = {"BASELINE_INSUFFICIENT"}
        \/ \A w \in Layer5(Mapped) :
              w \in {"EVENT_VOLUME_SPIKE", "DELETION_BURST", "POPULATION_SHIFT"}
    BY Zenon DEF Layer5
  <2> QED
    BY <2>1 DEF Warnings
<1> DEFINE n == Cardinality(New)
           m == Cardinality({p \in New : feed[p].action = "deleted"})
           is == Schema \cup Parse
           ws == Layer5(Mapped)
<1>4. n \in Nat /\ m \in Nat /\ is \in SUBSET Issue /\ ws \in SUBSET Warnings
  BY <1>1, <1>2, <1>3
<1>5. CommittedJob = Job("success", n, m, is, ws)
  BY DEF CommittedJob
<1> HIDE DEF n, m, is, ws
<1>6. /\ CommittedJob \in JobRow /\ CommittedJob.issues = is
      /\ CommittedJob.before = cursor /\ CommittedJob.warnings = ws
  BY <1>4, <1>5, JobTyped
<1> QED
  BY <1>6 DEF is, ws

\* A job that is added, by a page or by a blocked one.
JobAdded(j) ==
    /\ jobs' = Append(jobs, j) /\ unalerted = 0 /\ unalerted' = Len(jobs) + 1
    /\ UNCHANGED <<feed, alerts, history>>

BlockedJob == Job("failed", 0, 0, {}, {})

LEMMA BlockedDef ==
    ASSUME TypeInv, BlockedPage
    PROVE  /\ JobAdded(BlockedJob) /\ UNCHANGED <<roster, cursor, quarantine>>
           /\ BlockedJob \in JobRow /\ BlockedJob.issues = {} /\ BlockedJob.before = cursor
<1>1. BlockedJob \in JobRow /\ BlockedJob.issues = {} /\ BlockedJob.before = cursor
  BY JobTyped DEF BlockedJob
<1> QED
  BY <1>1 DEF BlockedPage, CanPoll, JobAdded, BlockedJob

LEMMA JobAddedTypes ==
    ASSUME TypeInv, NEW j \in JobRow, JobAdded(j),
           roster' \in [Keys -> Row], cursor' \in 0..MaxEvents, quarantine' \subseteq Positions
    PROVE  TypeInv'
<1>1. /\ jobs' \in Seq(JobRow) /\ Len(jobs) \in Nat /\ Len(jobs') = Len(jobs) + 1
  BY AppendFacts DEF TypeInv, JobAdded
<1>2. unalerted' \in 0..Len(jobs') /\ 1..Len(jobs) \subseteq 1..Len(jobs')
  BY <1>1 DEF JobAdded
<1>3. alerts' \subseteq (1..Len(jobs')) \X {"sync_failure", "schema_drift"}
  BY <1>2 DEF TypeInv, JobAdded
<1>4. history' \in [retries : 0..MaxRetries, lost : SUBSET (1..Len(jobs'))]
  <2>1. history \in [retries : 0..MaxRetries, lost : SUBSET (1..Len(jobs))]
    BY DEF TypeInv
  <2> QED
    BY <1>2, <2>1 DEF JobAdded
<1> QED
  BY <1>1, <1>2, <1>3, <1>4 DEF TypeInv, JobAdded

LEMMA CommitTypes ==
    ASSUME TypeInv, CommitPage
    PROVE  TypeInv' /\ JobAdded(CommittedJob) /\ Issues' = Issues \cup Schema \cup Parse
<1>1. JobAdded(CommittedJob)
  BY CommitDef DEF JobAdded
<1>2. Orphaned \subseteq Positions
  BY OrphanFacts
<1>3. roster' \in [Keys -> Row] /\ cursor' \in 0..MaxEvents /\ quarantine' \subseteq Positions
  BY <1>2, CommitDef, RowsAdvance, PageEndFacts DEF TypeInv
<1>4. TypeInv'
  BY <1>1, <1>3, CommittedTyped, JobAddedTypes
<1>5. /\ Len(jobs) \in Nat /\ Len(jobs') = Len(jobs) + 1
      /\ \A n \in 1..Len(jobs) : jobs'[n] = jobs[n]
      /\ jobs'[Len(jobs) + 1].issues = Schema \cup Parse
  BY <1>1, CommittedTyped, AppendFacts DEF TypeInv, JobAdded
<1>6. 1..Len(jobs') = 1..Len(jobs) \cup {Len(jobs) + 1}
  BY <1>5
<1>7. Issues' = Issues \cup Schema \cup Parse
  BY <1>5, <1>6 DEF Issues
<1> QED
  BY <1>1, <1>4, <1>7

LEMMA TypeInit == Init => TypeInv
<1> SUFFICES ASSUME Init PROVE TypeInv
  OBVIOUS
<1>1. jobs \in Seq(JobRow) /\ Len(jobs) = 0
  BY DEF Init
<1>2. feed \in [Positions -> Raws] /\ roster \in [Keys -> Row]
  BY Bounds DEF Init, Positions, Row
<1> QED
  BY <1>1, <1>2, Bounds DEF Init, TypeInv

LEMMA TypeStep == TypeInv /\ [Next]_vars => TypeInv'
<1> SUFFICES ASSUME TypeInv, [Next]_vars PROVE TypeInv'
  OBVIOUS
<1>0. jobs \in Seq(JobRow) /\ Len(jobs) \in Nat
  BY DEF TypeInv
<1>1. CASE UNCHANGED vars
  BY <1>1 DEF TypeInv, vars
<1>2. CASE CommitPage
  BY <1>2, CommitTypes
<1>3. CASE BlockedPage
  <2>1. roster' \in [Keys -> Row] /\ cursor' \in 0..MaxEvents /\ quarantine' \subseteq Positions
    BY <1>3, BlockedDef DEF TypeInv
  <2> QED
    BY <1>3, <2>1, BlockedDef, JobAddedTypes
<1>4. CASE EvaluateAlerts
  <2>1. unalerted \in 1..Len(jobs) /\ 0 \in 0..Len(jobs)
    BY <1>0, <1>4 DEF EvaluateAlerts, TypeInv
  <2>2. SyncOutcome(unalerted) \subseteq (1..Len(jobs)) \X {"sync_failure", "schema_drift"}
    BY <2>1 DEF SyncOutcome
  <2> QED
    BY <1>4, <2>1, <2>2 DEF EvaluateAlerts, TypeInv
<1>5. CASE Crash
  <2>1. unalerted \in 1..Len(jobs) /\ 0 \in 0..Len(jobs)
    BY <1>0, <1>5 DEF Crash, TypeInv
  <2>2. history' \in [retries : 0..MaxRetries, lost : SUBSET (1..Len(jobs))]
    BY <1>5, <2>1 DEF Crash, TypeInv
  <2> QED
    BY <1>5, <2>1, <2>2 DEF Crash, TypeInv
<1>6. ASSUME NEW j \in 1..Len(jobs), Retry(j) PROVE TypeInv'
  <2>1. jobs[j] \in JobRow
    BY <1>0
  <2>2. cursor' \in 0..MaxEvents
    BY <1>6, <2>1 DEF Retry, JobRow
  <2>3. history.retries + 1 \in 0..MaxRetries
    BY <1>6, Bounds DEF Retry, TypeInv
  <2>4. history' \in [retries : 0..MaxRetries, lost : SUBSET (1..Len(jobs))]
    BY <1>6, <2>3 DEF Retry, TypeInv
  <2> QED
    BY <1>6, <2>2, <2>4 DEF Retry, TypeInv
<1> QED
  BY <1>1, <1>2, <1>3, <1>4, <1>5, <1>6 DEF Next


-----------------------------------------------------------------------------
(* Pages start and end at the same places however often they are replayed, *)
(* and up to the furthest of those places every event is accounted for.    *)

IsCut(n) == n = MaxEvents \/ \E a \in Nat : n = a * PageSize

Handled(p) ==
    \/ Dropped(feed[p])
    \/ p \in quarantine
    \/ p <= roster[feed[p].key].event
    \/ \E i \in Issues : i[1] = p

ReadUpTo(mark) ==
    /\ IsCut(mark)
    /\ IsCut(cursor) /\ cursor <= mark
    /\ \A n \in 1..Len(jobs) : IsCut(jobs[n].before) /\ jobs[n].before <= mark
    /\ \A k \in Keys : roster[k].event <= mark
    /\ \A p \in 1..mark : Handled(p)

OnRecord == \E mark \in 0..MaxEvents : ReadUpTo(mark)

IssuesFaulty == \A i \in Issues : Faulty(i[1])

Alerted ==
    \A n \in 1..Len(jobs) : \A i \in jobs[n].issues :
        i[2] = 2 /\ i[3] = "error" =>
            n \in history.lost \cup {unalerted} \/ <<n, "schema_drift">> \in alerts

QuarantineOfEnrollments == \A p \in quarantine : feed[p].word = "enrollment"

IntakeInv ==
    /\ TypeInv
    /\ OnRecord
    /\ IssuesFaulty
    /\ Alerted
    /\ QuarantineOfEnrollments
    /\ OrphansTraceBack

-----------------------------------------------------------------------------
LEMMA NextCut ==
    ASSUME NEW c \in 0..MaxEvents, IsCut(c), NEW e \in 0..MaxEvents, IsCut(e), c < e
    PROVE  e = MaxEvents \/ c + PageSize <= e
<1> SUFFICES ASSUME e # MaxEvents PROVE c + PageSize <= e
  OBVIOUS
<1>1. PICK a \in Nat : c = a * PageSize
  BY Bounds DEF IsCut
<1>2. PICK b \in Nat : e = b * PageSize
  BY DEF IsCut
<1>3. a < b
  <2> SUFFICES ASSUME b <= a PROVE FALSE
    OBVIOUS
  <2>1. PICK d \in Nat : a = b + d
    <3>1. a - b \in Nat /\ a = b + (a - b)
      OBVIOUS
    <3> QED
      BY <3>1
  <2>2. a * PageSize = b * PageSize + d * PageSize /\ d * PageSize \in Nat
    BY <2>1, Bounds
  <2> QED
    BY <1>1, <1>2, <2>2, Bounds
<1>4. PICK d \in Nat : b = (a + 1) + d
  <2>1. b - (a + 1) \in Nat /\ b = (a + 1) + (b - (a + 1))
    BY <1>3
  <2> QED
    BY <2>1
<1>5. /\ b * PageSize = (a + 1) * PageSize + d * PageSize /\ d * PageSize \in Nat
      /\ (a + 1) * PageSize = a * PageSize + PageSize
  BY <1>4, Bounds
<1> QED
  BY <1>1, <1>2, <1>5, Bounds

LEMMA PageEndIsCut ==
    ASSUME TypeInv, IsCut(cursor) PROVE IsCut(PageEnd)
<1>1. CASE PageEnd = MaxEvents
  BY <1>1 DEF IsCut
<1>2. CASE PageEnd # MaxEvents
  <2>1. PageEnd = cursor + PageSize
    BY <1>2, PageEndFacts
  <2>2. cursor # MaxEvents
    BY <1>2, PageEndFacts, Bounds DEF TypeInv
  <2>3. PICK a \in Nat : cursor = a * PageSize
    BY <2>2 DEF IsCut
  <2>4. PageEnd = (a + 1) * PageSize /\ a + 1 \in Nat
    BY <2>1, <2>3, Bounds
  <2> QED
    BY <2>4 DEF IsCut
<1> QED
  BY <1>1, <1>2

\* What a page passes is accounted for, and stays so.
LEMMA PageHandled ==
    ASSUME TypeInv, CommitPage
    PROVE  /\ \A p \in Positions : Handled(p) => Handled(p)'
           /\ \A p \in (cursor + 1)..PageEnd : Handled(p)'
<1>1. /\ UNCHANGED feed /\ quarantine' = quarantine \cup Orphaned
      /\ Issues' = Issues \cup Schema \cup Parse
  BY CommitDef, CommitTypes
<1>2. /\ roster \in [Keys -> Row] /\ roster' \in [Keys -> Row]
      /\ \A k \in Keys : roster[k].event <= roster'[k].event
      /\ \A p \in New : p <= roster'[feed[p].key].event
  BY RowsAdvance DEF TypeInv
<1>3. \A k \in Keys : roster[k].event \in Nat /\ roster'[k].event \in Nat
  BY <1>2, Bounds DEF Row
<1>4. ASSUME NEW p \in Positions, Handled(p) PROVE Handled(p)'
  <2>1. feed[p].key \in Keys /\ p \in Nat
    BY RawFacts, Bounds DEF Positions
  <2>2. p <= roster[feed[p].key].event => p <= roster'[feed[p].key].event
    BY <1>2, <1>3, <2>1
  <2> QED
    BY <1>1, <1>4, <2>2 DEF Handled
<1>5. ASSUME NEW p \in (cursor + 1)..PageEnd PROVE Handled(p)'
  <2>1. p \in Positions /\ p \in Nat
    BY PageEndFacts, Bounds DEF Positions, TypeInv
  <2>2. feed[p].key \in Keys
    BY <2>1, RawFacts
  <2>3. CASE Dropped(feed[p])
    BY <1>1, <2>3 DEF Handled
  <2>4. CASE p \in Orphaned
    BY <1>1, <2>4 DEF Handled
  <2>5. CASE p \in Mapped /\ p \notin Surviving
    BY <1>1, <2>5, LayerFacts DEF Handled
  <2>6. CASE p \in New
    BY <1>1, <1>2, <2>6 DEF Handled
  <2>7. CASE ~(roster[feed[p].key].event < p)
    <3>1. p <= roster'[feed[p].key].event
      BY <1>2, <1>3, <2>1, <2>2, <2>7
    <3> QED
      BY <1>1, <3>1 DEF Handled
  <2> QED
    BY <2>3, <2>4, <2>5, <2>6, <2>7, NewFacts DEF Mapped
<1> QED
  BY <1>4, <1>5

LEMMA CommitOnRecord ==
    ASSUME IntakeInv, CommitPage PROVE OnRecord'
<1>1. PICK mark \in 0..MaxEvents : ReadUpTo(mark)
  BY DEF IntakeInv, OnRecord
<1>2. TypeInv /\ TypeInv'
  BY CommitTypes DEF IntakeInv
<1>3. /\ cursor' = PageEnd /\ PageEnd \in cursor..MaxEvents /\ PageEnd \in 0..MaxEvents
      /\ PageEnd <= cursor + PageSize
      /\ IsCut(cursor) /\ IsCut(PageEnd) /\ cursor \in 0..MaxEvents /\ cursor <= mark
  BY <1>1, <1>2, CommitDef, PageEndFacts, PageEndIsCut DEF ReadUpTo, TypeInv
<1>4. PICK high \in 0..MaxEvents :
          /\ IsCut(high) /\ mark <= high /\ PageEnd <= high
          /\ \A p \in 1..high : p \in 1..mark \/ p \in (cursor + 1)..PageEnd
  <2>1. CASE cursor < mark
    <3>1. PageEnd <= mark
      BY <1>1, <1>3, <2>1, NextCut, Bounds DEF ReadUpTo
    <3> QED
      BY <1>1, <3>1, Bounds DEF ReadUpTo
  <2>2. CASE cursor = mark
    <3>1. mark <= PageEnd /\ \A p \in 1..PageEnd : p \in 1..mark \/ p \in (cursor + 1)..PageEnd
      BY <1>1, <1>3, <2>2, Bounds
    <3> QED
      BY <1>3, <3>1, Bounds
  <2> QED
    BY <1>1, <1>3, <2>1, <2>2, Bounds
<1>5. \A p \in 1..high : Handled(p)'
  <2>1. \A p \in 1..mark : p \in Positions
    BY Bounds DEF Positions
  <2> QED
    BY <1>1, <1>2, <1>4, <2>1, PageHandled DEF ReadUpTo
<1>6. \A k \in Keys : roster'[k].event <= high
  <2> SUFFICES ASSUME NEW k \in Keys PROVE roster'[k].event <= high
    OBVIOUS
  <2>1. roster[k].event <= mark /\ roster[k].event \in Nat
    BY <1>1, <1>2, Bounds DEF ReadUpTo, TypeInv, Row
  <2>2. roster'[k].event = roster[k].event \/ roster'[k].event \in New
    BY <1>2, RowsAdvance
  <2>3. \A p \in New : p <= PageEnd /\ p \in Nat
    BY <1>2, NewFacts, MappedFacts, Bounds DEF Positions
  <2> QED
    BY <1>3, <1>4, <2>1, <2>2, <2>3, Bounds
<1>7. \A n \in 1..Len(jobs') : IsCut(jobs'[n].before) /\ jobs'[n].before <= high
  <2>1. JobAdded(CommittedJob) /\ CommittedJob \in JobRow /\ CommittedJob.before = cursor
    BY <1>2, CommitTypes, CommittedTyped
  <2>2. /\ Len(jobs) \in Nat /\ Len(jobs') = Len(jobs) + 1
        /\ \A n \in 1..Len(jobs) : jobs'[n] = jobs[n]
        /\ jobs'[Len(jobs) + 1].before = cursor
    BY <1>2, <2>1, AppendFacts DEF TypeInv, JobAdded
  <2>3. \A n \in 1..Len(jobs') : n \in 1..Len(jobs) \/ n = Len(jobs) + 1
    BY <2>2
  <2>4. \A n \in 1..Len(jobs) : /\ IsCut(jobs[n].before) /\ jobs[n].before <= mark
                                /\ jobs[n].before \in Nat
    <3>1. \A n \in 1..Len(jobs) : jobs[n] \in JobRow
      BY <1>2 DEF TypeInv
    <3>2. \A n \in 1..Len(jobs) : jobs[n].before \in Nat
      BY <3>1, Bounds DEF JobRow
    <3> QED
      BY <1>1, <3>2 DEF ReadUpTo
  <2> QED
    BY <1>1, <1>3, <1>4, <2>2, <2>3, <2>4, Bounds
<1>8. ReadUpTo(high)'
  BY <1>3, <1>4, <1>5, <1>6, <1>7 DEF ReadUpTo, IsCut
<1> QED
  BY <1>8 DEF OnRecord

\* An enrollment that this page orphans.
LEMMA CommitOrphans ==
    ASSUME IntakeInv, CommitPage PROVE OrphansTraceBack' /\ QuarantineOfEnrollments'
<1>1. PICK mark \in 0..MaxEvents : ReadUpTo(mark)
  BY DEF IntakeInv, OnRecord
<1>2. /\ TypeInv /\ UNCHANGED feed /\ quarantine' = quarantine \cup Orphaned
      /\ Issues' = Issues \cup Schema \cup Parse
      /\ quarantine \subseteq Positions
  BY CommitDef, CommitTypes DEF IntakeInv, TypeInv
<1>3. QuarantineOfEnrollments'
  BY <1>2, OrphanFacts DEF IntakeInv, QuarantineOfEnrollments
<1>4. ASSUME NEW p \in quarantine', NEW q \in 1..(p - 1),
             feed[q].word = "person", feed[q].key = StudentOf[feed[p].key]
      PROVE  Dropped(feed[q]) \/ \E i \in Issues' : i[1] = q
  <2>1. CASE p \in quarantine
    BY <1>2, <1>4, <2>1 DEF IntakeInv, OrphansTraceBack
  <2>2. CASE p \in Orphaned
    <3>1. /\ p \in Mapped /\ p \in Positions
          /\ roster[StudentOf[feed[p].key]].event = 0
          /\ \A n \in Surviving :
                n < p /\ feed[n].word = "person" => feed[n].key # StudentOf[feed[p].key]
      BY <1>2, <2>2, OrphanFacts
    <3>2. q < p /\ q \in Nat /\ q > 0 /\ p <= PageEnd /\ PageEnd \in 0..MaxEvents
      BY <1>2, <1>4, <3>1, MappedFacts, PageEndFacts, Bounds DEF Positions
    <3>3. q \notin Surviving
      BY <1>4, <3>1, <3>2
    <3>4. CASE q <= cursor
      <4>1. Handled(q)
        BY <1>1, <1>2, <3>2, <3>4, Bounds DEF ReadUpTo, TypeInv
      <4>2. q \notin quarantine
        BY <1>4 DEF IntakeInv, QuarantineOfEnrollments
      <4>3. ~(q <= roster[feed[q].key].event)
        BY <1>4, <3>1, <3>2
      <4> QED
        BY <1>2, <4>1, <4>2, <4>3 DEF Handled
    <3>5. CASE cursor < q
      <4>1. q \in (cursor + 1)..PageEnd
        <5>1. p \in Nat /\ cursor \in Nat /\ PageEnd \in Nat
          BY <1>2, <3>1, <3>2, Bounds DEF TypeInv, Positions
        <5> QED
          BY <3>2, <3>5, <5>1
      <4>2. CASE q \in Mapped
        BY <1>2, <3>3, <4>2, LayerFacts
      <4>3. CASE q \notin Mapped
        BY <4>1, <4>3 DEF Mapped
      <4> QED
        BY <4>2, <4>3
    <3> QED
      BY <1>2, <3>2, <3>4, <3>5, Bounds DEF TypeInv
  <2> QED
    BY <1>2, <2>1, <2>2
<1>5. OrphansTraceBack'
  BY <1>2, <1>4 DEF OrphansTraceBack
<1> QED
  BY <1>3, <1>5


-----------------------------------------------------------------------------
LEMMA IntakeInit == Init => IntakeInv
<1> SUFFICES ASSUME Init PROVE IntakeInv
  OBVIOUS
<1>1. TypeInv
  BY TypeInit
<1>2. Len(jobs) = 0 /\ Issues = {} /\ cursor = 0 /\ quarantine = {}
  BY DEF Init, Issues
<1>3. IsCut(0)
  <2>1. 0 = 0 * PageSize
    BY Bounds
  <2> QED
    BY <2>1 DEF IsCut
<1>4. ReadUpTo(0)
  BY <1>2, <1>3 DEF ReadUpTo, Init
<1>5. OnRecord
  BY <1>4, Bounds DEF OnRecord
<1>6. IssuesFaulty /\ Alerted /\ QuarantineOfEnrollments /\ OrphansTraceBack
  BY <1>2 DEF IssuesFaulty, Alerted, QuarantineOfEnrollments, OrphansTraceBack
<1> QED
  BY <1>1, <1>5, <1>6 DEF IntakeInv

\* A new job is the one whose alerts are to be evaluated.
LEMMA AddedAlerted ==
    ASSUME TypeInv, Alerted, NEW j \in JobRow, JobAdded(j) PROVE Alerted'
<1>1. /\ Len(jobs) \in Nat /\ Len(jobs') = Len(jobs) + 1
      /\ \A n \in 1..Len(jobs) : jobs'[n] = jobs[n]
  BY AppendFacts DEF TypeInv, JobAdded
<1> SUFFICES ASSUME NEW n \in 1..Len(jobs'), NEW i \in jobs'[n].issues,
                    i[2] = 2, i[3] = "error"
             PROVE  \/ n \in history'.lost \cup {unalerted'}
                    \/ <<n, "schema_drift">> \in alerts'
  BY DEF Alerted
<1>2. CASE n = Len(jobs) + 1
  BY <1>2 DEF JobAdded
<1>3. CASE n \in 1..Len(jobs)
  <2>1. n # 0 /\ jobs'[n] = jobs[n]
    BY <1>1, <1>3
  <2> QED
    BY <1>3, <2>1 DEF Alerted, JobAdded
<1> QED
  BY <1>1, <1>2, <1>3

\* Steps that leave the feed, the roster, the jobs and the quarantine alone.
LEMMA RecordKept ==
    ASSUME IntakeInv, UNCHANGED <<feed, roster, jobs, quarantine>>,
           \A mark \in 0..MaxEvents : ReadUpTo(mark) => IsCut(cursor') /\ cursor' <= mark
    PROVE  OnRecord' /\ IssuesFaulty' /\ QuarantineOfEnrollments' /\ OrphansTraceBack'
<1>1. Issues' = Issues
  BY DEF Issues
<1>2. PICK mark \in 0..MaxEvents : ReadUpTo(mark)
  BY DEF IntakeInv, OnRecord
<1>3. \A p \in 1..mark : Handled(p)'
  BY <1>1, <1>2 DEF ReadUpTo, Handled
<1>4. ReadUpTo(mark)'
  BY <1>2, <1>3 DEF ReadUpTo, IsCut
<1>5. \A p : Faulty(p)' <=> Faulty(p)
  BY DEF Faulty, Layer2, Layer3
<1>6. IssuesFaulty'
  BY <1>1, <1>5 DEF IntakeInv, IssuesFaulty
<1>7. QuarantineOfEnrollments' /\ OrphansTraceBack'
  BY <1>1 DEF IntakeInv, QuarantineOfEnrollments, OrphansTraceBack
<1> QED
  BY <1>4, <1>6, <1>7 DEF OnRecord

LEMMA IntakeStep == IntakeInv /\ [Next]_vars => IntakeInv'
<1> SUFFICES ASSUME IntakeInv, [Next]_vars PROVE IntakeInv'
  OBVIOUS
<1>0. TypeInv /\ TypeInv' /\ jobs \in Seq(JobRow) /\ Len(jobs) \in Nat /\ Alerted
  BY TypeStep DEF IntakeInv, TypeInv
<1>1. CASE CommitPage
  <2>1. OnRecord' /\ OrphansTraceBack' /\ QuarantineOfEnrollments'
    BY <1>1, CommitOnRecord, CommitOrphans
  <2>2. /\ JobAdded(CommittedJob) /\ CommittedJob \in JobRow
        /\ Issues' = Issues \cup Schema \cup Parse
    BY <1>0, <1>1, CommitTypes, CommittedTyped
  <2>3. Alerted'
    BY <1>0, <2>2, AddedAlerted
  <2>4. \A p : Faulty(p)' <=> Faulty(p)
    BY <2>2 DEF Faulty, Layer2, Layer3, JobAdded
  <2>5. IssuesFaulty'
    BY <1>0, <2>2, <2>4, LayerFacts DEF IntakeInv, IssuesFaulty
  <2> QED
    BY <1>0, <2>1, <2>3, <2>5 DEF IntakeInv
<1>2. CASE BlockedPage
  <2>1. /\ JobAdded(BlockedJob) /\ UNCHANGED <<feed, roster, cursor, quarantine>>
        /\ BlockedJob \in JobRow /\ BlockedJob.issues = {} /\ BlockedJob.before = cursor
    BY <1>0, <1>2, BlockedDef DEF JobAdded
  <2>2. Alerted'
    BY <1>0, <2>1, AddedAlerted
  <2>3. /\ Len(jobs') = Len(jobs) + 1
        /\ \A n \in 1..Len(jobs) : jobs'[n] = jobs[n]
        /\ jobs'[Len(jobs) + 1] = BlockedJob
    BY <1>0, <2>1, AppendFacts DEF JobAdded
  <2>4. 1..Len(jobs') = 1..Len(jobs) \cup {Len(jobs) + 1}
    BY <1>0, <2>3
  <2>5. Issues' = Issues
    BY <2>1, <2>3, <2>4 DEF Issues
  <2>6. PICK mark \in 0..MaxEvents : ReadUpTo(mark)
    BY DEF IntakeInv, OnRecord
  <2>7. \A p \in 1..mark : Handled(p)'
    BY <2>1, <2>5, <2>6 DEF ReadUpTo, Handled
  <2>8. ReadUpTo(mark)'
    BY <2>1, <2>3, <2>4, <2>6, <2>7 DEF ReadUpTo, IsCut
  <2>9. \A p : Faulty(p)' <=> Faulty(p)
    BY <2>1 DEF Faulty, Layer2, Layer3
  <2>10. IssuesFaulty'
    BY <2>5, <2>9 DEF IntakeInv, IssuesFaulty
  <2>11. QuarantineOfEnrollments' /\ OrphansTraceBack'
    BY <2>1, <2>5 DEF IntakeInv, QuarantineOfEnrollments, OrphansTraceBack
  <2> QED
    BY <1>0, <2>2, <2>8, <2>10, <2>11 DEF IntakeInv, OnRecord
<1>3. CASE EvaluateAlerts
  <2>1. UNCHANGED <<feed, roster, cursor, jobs, quarantine>>
    BY <1>3 DEF EvaluateAlerts
  <2>2. OnRecord' /\ IssuesFaulty' /\ QuarantineOfEnrollments' /\ OrphansTraceBack'
    BY <2>1, RecordKept DEF ReadUpTo
  <2>3. Alerted'
    <3> SUFFICES ASSUME NEW n \in 1..Len(jobs), NEW i \in jobs[n].issues,
                        i[2] = 2, i[3] = "error"
                 PROVE  n \in history'.lost \/ <<n, "schema_drift">> \in alerts'
      BY <2>1 DEF Alerted
    <3>1. \/ n \in history.lost \cup {unalerted} \/ <<n, "schema_drift">> \in alerts
      BY <1>0 DEF Alerted
    <3>2. n = unalerted => <<n, "schema_drift">> \in SyncOutcome(unalerted)
      BY DEF SyncOutcome
    <3> QED
      BY <1>3, <3>1, <3>2 DEF EvaluateAlerts
  <2> QED
    BY <1>0, <2>2, <2>3 DEF IntakeInv
<1>4. CASE Crash
  <2>1. UNCHANGED <<feed, roster, cursor, jobs, quarantine, alerts>>
    BY <1>4 DEF Crash
  <2>2. OnRecord' /\ IssuesFaulty' /\ QuarantineOfEnrollments' /\ OrphansTraceBack'
    BY <2>1, RecordKept DEF ReadUpTo
  <2>3. history'.lost = history.lost \cup {unalerted}
    BY <1>0, <1>4 DEF Crash, TypeInv
  <2>4. Alerted'
    BY <1>0, <2>1, <2>3 DEF Alerted
  <2> QED
    BY <1>0, <2>2, <2>4 DEF IntakeInv
<1>5. ASSUME NEW j \in 1..Len(jobs), Retry(j) PROVE IntakeInv'
  <2>1. /\ UNCHANGED <<feed, roster, jobs, quarantine, unalerted, alerts>>
        /\ cursor' = jobs[j].before
    BY <1>5 DEF Retry
  <2>2. OnRecord' /\ IssuesFaulty' /\ QuarantineOfEnrollments' /\ OrphansTraceBack'
    BY <2>1, RecordKept DEF ReadUpTo
  <2>3. history'.lost = history.lost
    BY <1>0, <1>5 DEF Retry, TypeInv
  <2>4. Alerted'
    BY <1>0, <2>1, <2>3 DEF Alerted
  <2> QED
    BY <1>0, <2>2, <2>4 DEF IntakeInv
<1>6. CASE UNCHANGED vars
  <2>1. OnRecord' /\ IssuesFaulty' /\ QuarantineOfEnrollments' /\ OrphansTraceBack'
    BY <1>6, RecordKept DEF ReadUpTo, vars
  <2>2. Alerted'
    BY <1>0, <1>6 DEF Alerted, vars
  <2> QED
    BY <1>0, <2>1, <2>2 DEF IntakeInv
<1> QED
  BY <1>1, <1>2, <1>3, <1>4, <1>5, <1>6 DEF Next

-----------------------------------------------------------------------------
\* The state of the intake is well typed: the jobs, issues, warnings and alerts
\* that run_pipeline and the worker write have the fields their readers expect.
THEOREM IntakeTypeOk == Spec => []TypeInv
<1>1. IntakeInv => TypeInv
  BY DEF IntakeInv
<1> QED
  BY <1>1, IntakeInit, IntakeStep, PTL DEF Spec

\* Nothing the cursor has passed is lost without a trace: mapping, validation,
\* quarantine or the roster accounts for it, and Layer 2 for its alert.
THEOREM LeftOutHolds == Spec => []LeftOutIsOnRecord
<1>1. IntakeInv => LeftOutIsOnRecord
  <2> SUFFICES ASSUME IntakeInv, NEW p \in 1..cursor
               PROVE  \/ Dropped(feed[p])
                      \/ p \in quarantine
                      \/ p <= roster[feed[p].key].event
                      \/ /\ \E i \in Issues : i[1] = p
                         /\ \A n \in 1..Len(jobs) :
                              <<p, 2, "error">> \in jobs[n].issues =>
                                  \/ n \in history.lost \cup {unalerted}
                                  \/ <<n, "schema_drift">> \in alerts
    BY DEF LeftOutIsOnRecord
  <2>1. PICK mark \in 0..MaxEvents : ReadUpTo(mark)
    BY DEF IntakeInv, OnRecord
  <2>2. p \in 1..mark
    BY <2>1, Bounds DEF ReadUpTo, IntakeInv, TypeInv
  <2>3. Handled(p)
    BY <2>1, <2>2 DEF ReadUpTo
  <2>4. <<p, 2, "error">>[2] = 2 /\ <<p, 2, "error">>[3] = "error"
    OBVIOUS
  <2>5. \A n \in 1..Len(jobs) :
            <<p, 2, "error">> \in jobs[n].issues =>
                n \in history.lost \cup {unalerted} \/ <<n, "schema_drift">> \in alerts
    BY <2>4 DEF IntakeInv, Alerted
  <2> QED
    BY <2>3, <2>5 DEF Handled
<1> QED
  BY <1>1, IntakeInit, IntakeStep, PTL DEF Spec

\* Layer 4 orphans an enrollment only because the student's own events were
\* dropped or rejected, in the same page or in an earlier one.
THEOREM OrphansHold == Spec => []OrphansTraceBack
<1>1. IntakeInv => OrphansTraceBack
  BY DEF IntakeInv
<1> QED
  BY <1>1, IntakeInit, IntakeStep, PTL DEF Spec


-----------------------------------------------------------------------------
(* The warning of a drop: what the roster of students loses in a page, its *)
(* deletions are at least.                                                 *)

LEMMA OneToOne ==
    ASSUME NEW S, NEW T, IsFiniteSet(T), NEW f \in [S -> T],
           \A x, y \in S : f[x] = f[y] => x = y
    PROVE  IsFiniteSet(S) /\ Cardinality(S) <= Cardinality(T)
<1>1. f \in Injection(S, T)
  BY DEF Injection, IsInjective
<1> QED
  BY <1>1, FS_Injection

LEMMA SplitCount ==
    ASSUME NEW S, IsFiniteSet(S), NEW T \in SUBSET S, NEW U, U = S \ T
    PROVE  /\ IsFiniteSet(T) /\ IsFiniteSet(U)
           /\ Cardinality(S) \in Nat /\ Cardinality(T) \in Nat /\ Cardinality(U) \in Nat
           /\ Cardinality(S) = Cardinality(T) + Cardinality(U)
<1>1. IsFiniteSet(T) /\ IsFiniteSet(U) /\ S \cap T = T
  BY FS_Subset
<1>2. Cardinality(U) = Cardinality(S) - Cardinality(S \cap T)
  BY FS_Difference
<1>3. Cardinality(S) \in Nat /\ Cardinality(T) \in Nat /\ Cardinality(U) \in Nat
  BY <1>1, FS_CardinalityType
<1> QED
  BY <1>1, <1>2, <1>3

LiveStudents(d) == {s \in Students : d[s].event # 0 /\ ~d[s].deleted}
Departures == OfKind(Mapped, {"person"}, "deleted")
Arrivals == OfKind(Mapped, {"person"}, "created")

LEMMA Counted ==
    /\ \A d : LiveCount(d) = Cardinality(LiveStudents(d))
    /\ \A d : IsFiniteSet(LiveStudents(d)) /\ LiveCount(d) \in Nat
<1>1. \A d : LiveCount(d) = Cardinality(LiveStudents(d))
  BY DEF LiveCount, LiveStudents
<1>2. \A d : IsFiniteSet(LiveStudents(d))
  BY IntakeAssumption, FS_Subset DEF LiveStudents
<1>3. \A d : Cardinality(LiveStudents(d)) \in Nat
  BY <1>2, FS_CardinalityType
<1> QED
  BY <1>1, <1>2, <1>3

LEMMA KindFacts ==
    ASSUME TypeInv
    PROVE  /\ IsFiniteSet(Departures) /\ IsFiniteSet(Arrivals)
           /\ \A p \in Arrivals : /\ p \in Mapped /\ p \in Positions /\ Created(p)
                                  /\ feed[p].word = "person" /\ feed[p].key \in Students
           /\ \A p \in Departures : /\ p \in Mapped /\ p \in Positions
                                    /\ feed[p].key \in Students
           /\ \A p \in Mapped : feed[p].key \in Students =>
                 /\ feed[p].word = "person"
                 /\ feed[p].action = "deleted" => p \in Departures
<1>1. Mapped \subseteq Positions /\ IsFiniteSet(Mapped)
  BY MappedFacts
<1>2. Departures \subseteq Mapped /\ Arrivals \subseteq Mapped
  BY DEF Departures, Arrivals, OfKind
<1>3. IsFiniteSet(Departures) /\ IsFiniteSet(Arrivals)
  BY <1>1, <1>2, FS_Subset
<1>4. \A p \in Mapped : feed[p].key \in Students => feed[p].word = "person"
  <2> SUFFICES ASSUME NEW p \in Mapped, feed[p].key \in Students
               PROVE  feed[p].word = "person"
    OBVIOUS
  <2>1. /\ feed[p].word \in {"person", "enrollment"}
        /\ feed[p].word = "enrollment" => feed[p].key \in Enrollments
    BY <1>1, RawFacts DEF Mapped
  <2> QED
    BY <2>1, IntakeAssumption
<1>5. \A p \in Mapped : feed[p].word = "person" => feed[p].key \in Students
  BY <1>1, RawFacts
<1>6. \A p \in Arrivals : feed[p].word = "person" /\ Created(p)
  BY <1>2 DEF Arrivals, OfKind, Created, Mapped
<1>7. \A p \in Departures : feed[p].word = "person"
  BY DEF Departures, OfKind
<1>8. \A p \in Mapped : feed[p].word = "person" /\ feed[p].action = "deleted"
                            => p \in Departures
  BY DEF Departures, OfKind
<1> QED
  BY <1>1, <1>2, <1>3, <1>4, <1>5, <1>6, <1>7, <1>8

\* A page read for the first time: each student that is live no more was
\* deleted by it, and each one created by it is live, or was deleted by it too.
LEMMA DropCounted ==
    ASSUME TypeInv, CommitPage, \A k \in Keys : roster[k].event <= cursor,
           \A p \in (cursor + 1)..PageEnd : ~AddsNobody(p)
    PROVE  /\ Cardinality(Departures) \in Nat /\ Cardinality(Arrivals) \in Nat
           /\ Cardinality(Departures) - Cardinality(Arrivals)
                  >= LiveCount(roster) - LiveCount(roster')
<1> DEFINE Before == LiveStudents(roster)
           After == LiveStudents(roster')
           Left == Before \ After
           Joined == After \ Before
           Remain == Before \ Left
           D1 == {p \in Departures : feed[p].key \in Before}
           D2 == Departures \ D1
           C1 == {p \in Arrivals : feed[p].key \in After}
           C2 == Arrivals \ C1
<1>1. /\ Mapped \subseteq Positions
      /\ \A p \in Mapped : p \in (cursor + 1)..PageEnd /\ cursor < p /\ p \in Nat
  BY MappedFacts, PageEndFacts, Bounds DEF Mapped, TypeInv, Positions
<1>2. IsFiniteSet(Before) /\ IsFiniteSet(After)
  BY Counted
<1>3. \A p \in Arrivals :
          /\ p \in Mapped /\ feed[p].word = "person" /\ feed[p].key \in Students
          /\ feed[p].key \notin Before
          /\ \A q \in Arrivals : q < p => feed[q].key # feed[p].key
          /\ \A i \in Schema \cup Parse : i[1] # p
  <2> SUFFICES ASSUME NEW p \in Arrivals
               PROVE  /\ p \in Mapped /\ feed[p].word = "person" /\ feed[p].key \in Students
                      /\ feed[p].key \notin Before
                      /\ \A q \in Arrivals : q < p => feed[q].key # feed[p].key
                      /\ \A i \in Schema \cup Parse : i[1] # p
    OBVIOUS
  <2>1. p \in Mapped /\ Created(p) /\ feed[p].word = "person" /\ feed[p].key \in Students
    BY KindFacts
  <2>2. ~AddsNobody(p)
    BY <1>1, <2>1
  <2>3. Issues' = Issues \cup Schema \cup Parse
    BY CommitTypes
  <2>4. ASSUME NEW q \in Arrivals, q < p
        PROVE  q \in (cursor + 1)..(p - 1) /\ Created(q)
    <3>1. q \in Mapped /\ Created(q)
      BY KindFacts
    <3> QED
      BY <1>1, <2>1, <2>4, <3>1, Bounds DEF TypeInv
  <2> QED
    BY <2>1, <2>2, <2>3, <2>4 DEF AddsNobody, LiveStudents
<1>4. \A p \in Arrivals : \A q \in Arrivals : feed[p].key = feed[q].key => p = q
  <2>1. \A p \in Arrivals : p \in Nat
    BY <1>1, <1>3
  <2> QED
    BY <1>3, <2>1
\* What becomes of a student's row that an event of the page is written to.
<1>5. \A s \in Students :
          \/ /\ \A p \in New : feed[p].key # s
             /\ roster'[s] = roster[s]
          \/ /\ roster'[s].event \in New /\ feed[roster'[s].event].key = s
             /\ roster'[s].event # 0
             /\ roster'[s].deleted => roster'[s].event \in Departures
  <2> SUFFICES ASSUME NEW s \in Students
               PROVE  \/ /\ \A p \in New : feed[p].key # s
                         /\ roster'[s] = roster[s]
                      \/ /\ roster'[s].event \in New /\ feed[roster'[s].event].key = s
                         /\ roster'[s].event # 0
                         /\ roster'[s].deleted => roster'[s].event \in Departures
    OBVIOUS
  <2>1. New \in SUBSET Mapped /\ roster' = Written(New) /\ s \in Keys
    BY NewFacts, CommitDef DEF Keys
  <2>2. CASE /\ \A p \in New : feed[p].key # s
             /\ Written(New)[s] = roster[s]
    BY <2>1, <2>2
  <2>3. CASE \E p \in New :
                /\ feed[p].key = s /\ \A q \in New : feed[q].key = s => q <= p
                /\ Written(New)[s] = [event |-> p, deleted |-> feed[p].action = "deleted"]
    <3>1. PICK p \in New :
                /\ feed[p].key = s
                /\ roster'[s] = [event |-> p, deleted |-> feed[p].action = "deleted"]
      BY <2>1, <2>3
    <3>2. roster'[s].event = p /\ (roster'[s].deleted => feed[p].action = "deleted")
      <4>1. roster'[s].event = p
        BY <3>1
      <4> DEFINE b == feed[p].action = "deleted"
      <4>2. roster'[s] = [event |-> p, deleted |-> b]
        BY <3>1
      <4> HIDE DEF b
      <4>3. roster'[s].deleted = b
        BY <4>2
      <4>4. roster'[s].deleted => b
        BY <4>3, Zenon
      <4> QED
        BY <4>1, <4>4 DEF b
    <3>3. p \in Mapped /\ p # 0
      BY <1>1, <2>1, Bounds DEF Positions
    <3>4. feed[p].action = "deleted" => p \in Departures
      BY <3>1, <3>3, KindFacts
    <3> QED
      BY <3>1, <3>2, <3>3, <3>4
  <2> QED
    BY <2>1, <2>2, <2>3, WrittenFacts
<1>6. Cardinality(Left) <= Cardinality(D1)
  <2> DEFINE f == [s \in Left |-> roster'[s].event]
  <2>1. \A s \in Left : roster'[s].event \in D1 /\ feed[roster'[s].event].key = s
    BY <1>5 DEF LiveStudents
  <2>2. IsFiniteSet(D1)
    BY KindFacts, FS_Subset
  <2>3. f \in [Left -> D1] /\ \A s, r \in Left : f[s] = f[r] => s = r
    BY <2>1
  <2> HIDE DEF f, Left, D1
  <2> QED
    BY <2>2, <2>3, OneToOne
<1>7. Cardinality(C1) <= Cardinality(Joined)
  <2> DEFINE f == [p \in C1 |-> feed[p].key]
  <2>1. f \in [C1 -> Joined] /\ \A p, q \in C1 : f[p] = f[q] => p = q
    BY <1>3, <1>4
  <2>2. IsFiniteSet(Joined)
    BY <1>2, FS_Subset
  <2> HIDE DEF f, C1, Joined
  <2> QED
    BY <2>1, <2>2, OneToOne
<1>8. Cardinality(C2) <= Cardinality(D2)
  <2> DEFINE f == [p \in C2 |-> roster'[feed[p].key].event]
  <2>1. \A p \in C2 : /\ roster'[feed[p].key].event \in D2
                      /\ feed[roster'[feed[p].key].event].key = feed[p].key
    <3> SUFFICES ASSUME NEW p \in C2
                 PROVE  /\ roster'[feed[p].key].event \in D2
                        /\ feed[roster'[feed[p].key].event].key = feed[p].key
      OBVIOUS
    <3>1. /\ p \in Arrivals /\ p \in Mapped /\ feed[p].word = "person"
          /\ feed[p].key \in Students /\ feed[p].key \in Keys
          /\ feed[p].key \notin Before /\ feed[p].key \notin After
      BY <1>3 DEF Keys
    <3>2. p \in Surviving
      BY <1>3, <3>1, LayerFacts
    <3>3. p \notin Orphaned
      <4> SUFFICES ASSUME p \in Orphaned PROVE FALSE
        OBVIOUS
      <4>1. feed[p].word = "enrollment"
        BY OrphanFacts
      <4> QED
        BY <3>1, <4>1
    <3>4. p \in New
      <4>1. roster[feed[p].key].event <= cursor /\ roster[feed[p].key].event \in Nat
        BY <3>1, Bounds DEF TypeInv, Row
      <4>2. roster[feed[p].key].event < p
        BY <1>1, <3>1, <4>1, Bounds DEF TypeInv
      <4> QED
        BY <3>2, <3>3, <4>2, NewFacts
    <3>5. /\ roster'[feed[p].key].event \in New
          /\ feed[roster'[feed[p].key].event].key = feed[p].key
          /\ roster'[feed[p].key].event # 0
          /\ roster'[feed[p].key].deleted => roster'[feed[p].key].event \in Departures
      BY <1>5, <3>1, <3>4
    <3>6. roster'[feed[p].key].deleted
      BY <3>1, <3>5 DEF LiveStudents
    <3> QED
      BY <3>1, <3>5, <3>6
  <2>2. \A p, q \in C2 : f[p] = f[q] => p = q
    BY <1>4, <2>1
  <2>3. f \in [C2 -> D2]
    BY <2>1
  <2>4. IsFiniteSet(D2)
    BY KindFacts, FS_Subset
  <2> HIDE DEF f, C2, D2
  <2> QED
    BY <2>2, <2>3, <2>4, OneToOne
<1>9. /\ Cardinality(Before) = Cardinality(Left) + Cardinality(Remain)
      /\ Cardinality(Left) \in Nat /\ Cardinality(Remain) \in Nat
  <2>1. Left \in SUBSET Before /\ Remain = Before \ Left
    OBVIOUS
  <2> HIDE DEF Left, Remain, Before
  <2> QED
    BY <1>2, <2>1, SplitCount
<1>10. /\ Cardinality(After) = Cardinality(Joined) + Cardinality(Remain)
       /\ Cardinality(Joined) \in Nat
  <2>1. Joined \in SUBSET After /\ Remain = After \ Joined
    OBVIOUS
  <2> HIDE DEF Joined, Remain, After
  <2> QED
    BY <1>2, <2>1, SplitCount
<1>11. /\ Cardinality(Departures) = Cardinality(D1) + Cardinality(D2)
       /\ Cardinality(D1) \in Nat /\ Cardinality(D2) \in Nat
  <2>1. D1 \in SUBSET Departures /\ D2 = Departures \ D1
    OBVIOUS
  <2>2. IsFiniteSet(Departures)
    BY KindFacts
  <2> HIDE DEF D1, D2
  <2> QED
    BY <2>1, <2>2, SplitCount
<1>12. /\ Cardinality(Arrivals) = Cardinality(C1) + Cardinality(C2)
       /\ Cardinality(C1) \in Nat /\ Cardinality(C2) \in Nat
  <2>1. C1 \in SUBSET Arrivals /\ C2 = Arrivals \ C1
    OBVIOUS
  <2>2. IsFiniteSet(Arrivals)
    BY KindFacts
  <2> HIDE DEF C1, C2
  <2> QED
    BY <2>1, <2>2, SplitCount
<1>13. /\ LiveCount(roster) = Cardinality(Before)
       /\ LiveCount(roster') = Cardinality(After)
  BY Counted
<1> HIDE DEF Before, After, Left, Joined, Remain, D1, D2, C1, C2
<1> QED
  BY <1>6, <1>7, <1>8, <1>9, <1>10, <1>11, <1>12, <1>13

\* A page read again writes to no student: what it could write is on record.
LEMMA ReplayKeepsStudents ==
    ASSUME IntakeInv, CommitPage, NEW mark \in 0..MaxEvents, ReadUpTo(mark), cursor < mark
    PROVE  \A s \in Students : roster'[s] = roster[s]
<1>1. TypeInv
  BY DEF IntakeInv
<1>2. PageEnd <= mark /\ PageEnd \in 0..MaxEvents
  <2>1. PageEnd <= cursor + PageSize /\ PageEnd \in 0..MaxEvents
    BY <1>1, PageEndFacts
  <2>2. mark = MaxEvents \/ cursor + PageSize <= mark
    BY <1>1, NextCut DEF ReadUpTo, TypeInv
  <2> QED
    BY <1>1, <2>1, <2>2, Bounds DEF TypeInv
<1>3. ASSUME NEW p \in New, feed[p].key \in Students PROVE FALSE
  <2>1. p \in Mapped /\ p \in Surviving /\ p \in Positions /\ p <= PageEnd
    BY <1>1, NewFacts, MappedFacts
  <2>2. feed[p].word = "person"
    BY <1>1, <1>3, <2>1, KindFacts
  <2>3. p \in 1..mark
    BY <1>2, <2>1, Bounds DEF Positions
  <2>4. Handled(p)
    BY <2>3 DEF ReadUpTo
  <2>5. ~Dropped(feed[p])
    BY <2>1 DEF Mapped
  <2>6. p \notin quarantine
    BY <2>2 DEF IntakeInv, QuarantineOfEnrollments
  <2>7. ~(p <= roster[feed[p].key].event)
    <3>1. roster[feed[p].key].event < p
      BY <1>1, NewFacts
    <3>2. feed[p].key \in Keys /\ p \in Nat
      BY <1>1, <2>1, RawFacts, Bounds DEF Positions
    <3>3. roster[feed[p].key].event \in Nat
      BY <1>1, <3>2, Bounds DEF TypeInv, Row
    <3> QED
      BY <3>1, <3>2, <3>3
  <2>8. \A i \in Issues : i[1] # p
    BY <1>1, <2>1, LayerFacts DEF IntakeInv, IssuesFaulty
  <2> QED
    BY <2>4, <2>5, <2>6, <2>7, <2>8 DEF Handled
<1>4. New \in SUBSET Mapped /\ roster' = Written(New)
  BY <1>1, NewFacts, CommitDef
<1> SUFFICES ASSUME NEW s \in Students PROVE roster'[s] = roster[s]
  OBVIOUS
<1>5. /\ \A p \in New : feed[p].key # s
      /\ s \in Keys
  BY <1>3 DEF Keys
<1>6. Written(New)[s] = roster[s]
  BY <1>1, <1>4, <1>5, WrittenFacts
<1> QED
  BY <1>4, <1>6

DropStep ==
    LET before == LiveCount(roster)
        after == LiveCount(roster')
    IN  Cardinality(Successes) >= MinHistory /\ before > after
        /\ 4 * (before - after) >= before
            => \/ "POPULATION_SHIFT" \in jobs'[Len(jobs')].warnings
               \/ \E p \in (cursor + 1)..cursor' : AddsNobody(p)

LEMMA SameLive ==
    ASSUME \A s \in Students : roster'[s] = roster[s]
    PROVE  LiveCount(roster') = LiveCount(roster)
<1>1. LiveStudents(roster') = LiveStudents(roster)
  BY DEF LiveStudents
<1> QED
  BY <1>1, Counted

LEMMA PageDropWarned ==
    ASSUME IntakeInv, CommitPage PROVE DropStep
<1> SUFFICES ASSUME Cardinality(Successes) >= MinHistory,
                    LiveCount(roster) > LiveCount(roster'),
                    4 * (LiveCount(roster) - LiveCount(roster')) >= LiveCount(roster),
                    \A p \in (cursor + 1)..PageEnd : ~AddsNobody(p)
             PROVE  "POPULATION_SHIFT" \in jobs'[Len(jobs')].warnings
  BY CommitDef DEF DropStep
<1>1. PICK mark \in 0..MaxEvents : ReadUpTo(mark)
  BY DEF IntakeInv, OnRecord
<1>2. TypeInv /\ LiveCount(roster) \in Nat /\ LiveCount(roster') \in Nat
  BY Counted DEF IntakeInv
<1>3. ~(cursor < mark)
  <2> SUFFICES ASSUME cursor < mark PROVE FALSE
    OBVIOUS
  <2>1. LiveCount(roster') = LiveCount(roster)
    BY <1>1, ReplayKeepsStudents, SameLive
  <2> QED
    BY <1>2, <2>1
<1>4. \A k \in Keys : roster[k].event <= cursor
  <2>1. cursor = mark
    BY <1>1, <1>2, <1>3, Bounds DEF ReadUpTo, TypeInv
  <2> QED
    BY <1>1, <2>1 DEF ReadUpTo
<1>5. 4 * (Cardinality(Departures) - Cardinality(Arrivals)) >= LiveCount(roster)
  <2>1. /\ Cardinality(Departures) \in Nat /\ Cardinality(Arrivals) \in Nat
        /\ Cardinality(Departures) - Cardinality(Arrivals)
               >= LiveCount(roster) - LiveCount(roster')
    BY <1>2, <1>4, DropCounted
  <2> QED
    BY <1>2, <2>1
<1>6. Shifted(Mapped)
  BY <1>5 DEF Shifted, Departures, Arrivals
<1>7. Cardinality(Successes) \in Nat
  <2>1. jobs \in Seq(JobRow) /\ Len(jobs) \in Nat
    BY <1>2 DEF TypeInv
  <2>2. IsFiniteSet(1..Len(jobs))
    BY <2>1, FS_Interval
  <2>3. IsFiniteSet(Successes)
    BY <2>2, FS_Subset DEF Successes
  <2> QED
    BY <2>3, FS_CardinalityType
<1>8. ~(Cardinality(Successes) < MinHistory) /\ LiveCount(roster) > 0
  BY <1>2, <1>7, Bounds
<1>9. "POPULATION_SHIFT" \in Layer5(Mapped)
  BY <1>6, <1>8 DEF Layer5
<1>10. /\ Len(jobs) \in Nat /\ Len(jobs') = Len(jobs) + 1
       /\ jobs'[Len(jobs) + 1] = CommittedJob /\ CommittedJob.warnings = Layer5(Mapped)
  BY SMTT(30), <1>2, CommitTypes, CommittedTyped, AppendFacts DEF TypeInv, JobAdded
<1> QED
  BY <1>9, <1>10

\* Layer 5's estimate from the page's own operations is never below what the
\* page takes from the live students, so a quarter of them does not go unseen.
THEOREM DropWarned == Spec => PopulationDropWarned
<1>1. ASSUME IntakeInv, [Next]_vars PROVE [DropStep]_vars
  <2>1. CASE CommitPage
    BY <1>1, <2>1, PageDropWarned
  <2>2. CASE UNCHANGED roster
    <3>1. LiveCount(roster') = LiveCount(roster) /\ LiveCount(roster) \in Nat
      BY <2>2, Counted
    <3> QED
      BY <3>1 DEF DropStep
  <2>3. UNCHANGED roster \/ CommitPage
    BY <1>1 DEF Next, vars, BlockedPage, EvaluateAlerts, Crash, Retry
  <2> QED
    BY <2>1, <2>2, <2>3
<1>2. [][DropStep]_vars => PopulationDropWarned
  BY PTL DEF PopulationDropWarned, DropStep
<1> QED
  BY <1>1, <1>2, IntakeInit, IntakeStep, PTL DEF Spec

=============================================================================
