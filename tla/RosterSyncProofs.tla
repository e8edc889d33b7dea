-------------------------- MODULE RosterSyncProofs --------------------------
(***************************************************************************)
(* Theorems about RosterSync, for every set of keys, page size and bound:  *)
(* the types and the lineage of the snapshots first; then that enrollments *)
(* resolve, no event is lost, a second revert of a job moves nothing and   *)
(* replays never move a live snapshot back, each with an inductive         *)
(* invariant of its own over the first two; then that RosterSync           *)
(* implements RosterLedger; and last, about QuarantineReview, for every    *)
(* number of operators, that a row is resolved once and what of RosterSync *)
(* survives a release.                                                     *)
(***************************************************************************)
EXTENDS RosterSyncLedger, QuarantineReview, SequenceTheorems, FiniteSetTheorems, TLAPS

-----------------------------------------------------------------------------
(* Lemmas on the tables.                                                   *)

LEMMA TableFields ==
    ASSUME NEW d \in Tables
    PROVE  /\ d.snapshots \subseteq Snapshot
           /\ d.canonical \in [Keys -> CanonicalRow]
           /\ d.cursor \in Nat
           /\ d.jobs \in Seq(Job)
           /\ Len(d.jobs) \in Nat
           /\ d.quarantine \subseteq QuarantineRow
           /\ d.issues \subseteq Nat \X Nat
<1>1. d.jobs \in Seq(Job)
  BY DEF Tables
<1> QED
  BY <1>1, LenProperties DEF Tables

LEMMA UpdateSnapshots ==
    ASSUME NEW d \in Tables, NEW v \in SUBSET Snapshot
    PROVE  LET u == [d EXCEPT !.snapshots = v]
           IN  /\ u \in Tables /\ u.snapshots = v
               /\ u.canonical = d.canonical /\ u.cursor = d.cursor /\ u.jobs = d.jobs
               /\ u.quarantine = d.quarantine /\ u.issues = d.issues
BY DEF Tables

LEMMA UpdateCanonical ==
    ASSUME NEW d \in Tables, NEW v \in [Keys -> CanonicalRow]
    PROVE  LET u == [d EXCEPT !.canonical = v]
           IN  /\ u \in Tables /\ u.canonical = v
               /\ u.snapshots = d.snapshots /\ u.cursor = d.cursor /\ u.jobs = d.jobs
               /\ u.quarantine = d.quarantine /\ u.issues = d.issues
BY DEF Tables

LEMMA UpdateCursor ==
    ASSUME NEW d \in Tables, NEW v \in Nat
    PROVE  LET u == [d EXCEPT !.cursor = v]
           IN  /\ u \in Tables /\ u.cursor = v
               /\ u.snapshots = d.snapshots /\ u.canonical = d.canonical /\ u.jobs = d.jobs
               /\ u.quarantine = d.quarantine /\ u.issues = d.issues
BY DEF Tables

LEMMA UpdateJobs ==
    ASSUME NEW d \in Tables, NEW v \in Seq(Job)
    PROVE  LET u == [d EXCEPT !.jobs = v]
           IN  /\ u \in Tables /\ u.jobs = v
               /\ u.snapshots = d.snapshots /\ u.canonical = d.canonical /\ u.cursor = d.cursor
               /\ u.quarantine = d.quarantine /\ u.issues = d.issues
BY DEF Tables

LEMMA UpdateQuarantine ==
    ASSUME NEW d \in Tables, NEW v \in SUBSET QuarantineRow
    PROVE  LET u == [d EXCEPT !.quarantine = v]
           IN  /\ u \in Tables /\ u.quarantine = v
               /\ u.snapshots = d.snapshots /\ u.canonical = d.canonical /\ u.cursor = d.cursor
               /\ u.jobs = d.jobs /\ u.issues = d.issues
BY DEF Tables

LEMMA UpdateIssues ==
    ASSUME NEW d \in Tables, NEW v \in SUBSET (Nat \X Nat)
    PROVE  LET u == [d EXCEPT !.issues = v]
           IN  /\ u \in Tables /\ u.issues = v
               /\ u.snapshots = d.snapshots /\ u.canonical = d.canonical /\ u.cursor = d.cursor
               /\ u.jobs = d.jobs /\ u.quarantine = d.quarantine
BY DEF Tables

LEMMA MarkSupersededType ==
    ASSUME NEW S \in SUBSET Snapshot, NEW k \in Keys, NEW j \in Nat
    PROVE  MarkSuperseded(S, k, j) \in SUBSET Snapshot
BY DEF MarkSuperseded, Snapshot

\* What writing one event changes, field by field.
LEMMA ApplyEventFields ==
    ASSUME NEW d \in Tables, NEW p \in Nat \ {0}, NEW j \in Nat \ {0},
           feed[p] \in Event
    PROVE  LET e == feed[p]
               gone == e.op = "deleted"
               u == ApplyEvent(d, p, j)
           IN  /\ u \in Tables
               /\ u.snapshots = MarkSuperseded(d.snapshots, e.key, j) \cup
                      {[key |-> e.key, gen |-> j, event |-> p,
                        deleted |-> gone, sup |-> 0]}
               /\ u.canonical = [d.canonical EXCEPT ![e.key] =
                                    [event |-> p, deleted |-> gone]]
               /\ u.jobs = d.jobs /\ u.cursor = d.cursor
               /\ u.quarantine = d.quarantine /\ u.issues = d.issues
<1> DEFINE e == feed[p]
           gone == e.op = "deleted"
           row == [key |-> e.key, gen |-> j, event |-> p, deleted |-> gone,
                   sup |-> 0]
           S == MarkSuperseded(d.snapshots, e.key, j) \cup {row}
           C == [d.canonical EXCEPT ![e.key] = [event |-> p, deleted |-> gone]]
           d1 == [d EXCEPT !.snapshots = S]
<1>1. e.key \in Keys
  BY DEF Event
<1>2. row \in Snapshot
  BY <1>1 DEF Snapshot
<1>3. S \in SUBSET Snapshot
  BY <1>1, <1>2, MarkSupersededType, TableFields
<1>4. [event |-> p, deleted |-> gone] \in CanonicalRow
  BY DEF CanonicalRow
<1>5. C \in [Keys -> CanonicalRow]
  BY <1>1, <1>4, TableFields
<1>6. /\ d1 \in Tables /\ d1.snapshots = S
      /\ d1.canonical = d.canonical /\ d1.jobs = d.jobs /\ d1.cursor = d.cursor
      /\ d1.quarantine = d.quarantine /\ d1.issues = d.issues
  BY <1>3, UpdateSnapshots
<1>7. ApplyEvent(d, p, j) = [d1 EXCEPT !.canonical = C]
  BY <1>6 DEF ApplyEvent
<1> HIDE DEF d1, S, C
<1>8. LET u == [d1 EXCEPT !.canonical = C]
      IN  /\ u \in Tables /\ u.snapshots = S /\ u.canonical = C
          /\ u.jobs = d.jobs /\ u.cursor = d.cursor
          /\ u.quarantine = d.quarantine /\ u.issues = d.issues
  BY <1>5, <1>6, UpdateCanonical
<1> QED
  BY <1>7, <1>8 DEF S, C

\* A job row appended to the tables.
LEMMA AppendJob ==
    ASSUME NEW d \in Tables, NEW job \in Job
    PROVE  LET u == [d EXCEPT !.jobs = Append(@, job)]
           IN  /\ u \in Tables
               /\ u.jobs = Append(d.jobs, job)
               /\ Len(u.jobs) = Len(d.jobs) + 1
               /\ \A i \in 1..Len(d.jobs) : u.jobs[i] = d.jobs[i]
               /\ u.jobs[Len(d.jobs) + 1] = job
               /\ u.snapshots = d.snapshots /\ u.canonical = d.canonical
               /\ u.cursor = d.cursor
               /\ u.quarantine = d.quarantine /\ u.issues = d.issues
<1>1. /\ Append(d.jobs, job) \in Seq(Job)
      /\ Len(Append(d.jobs, job)) = Len(d.jobs) + 1
      /\ \A i \in 1..Len(d.jobs) : Append(d.jobs, job)[i] = d.jobs[i]
      /\ Append(d.jobs, job)[Len(d.jobs) + 1] = job
  BY TableFields, AppendProperties
<1> QED
  BY <1>1, UpdateJobs

\* What comes back when a job is taken out.
LEMMA PriorFacts ==
    ASSUME NEW d, NEW j, NEW k
    PROVE  /\ \A s \in Prior(d, j, k) :
                 /\ s \in d.snapshots /\ s.key = k /\ s.sup = j
                 /\ \A t \in d.snapshots : t.key = k /\ t.sup = j => t.event <= s.event
                 /\ Prior(d, j, k) = {s}
           /\ LastSuperseded(d, j, k) # {} => Prior(d, j, k) # {}
<1> DEFINE last == LastSuperseded(d, j, k)
<1>1. CASE last = {}
  BY <1>1 DEF Prior
<1>2. CASE last # {}
  <2>1. Prior(d, j, k) = {CHOOSE s \in last : TRUE} /\ (CHOOSE s \in last : TRUE) \in last
    BY <1>2 DEF Prior
  <2> QED
    BY <2>1 DEF LastSuperseded
<1> QED
  BY <1>1, <1>2

LEMMA RevertTypes ==
    ASSUME NEW d \in Tables, NEW j \in Nat
    PROVE  /\ {RevertSnapshot(d, j, s) : s \in d.snapshots} \in SUBSET Snapshot
           /\ [k \in Keys |-> RevertRow(d, j, k)] \in [Keys -> CanonicalRow]
<1>1. \A s \in d.snapshots : RevertSnapshot(d, j, s) \in Snapshot
  <2> TAKE s \in d.snapshots
  <2>1. s \in Snapshot /\ Len(d.jobs) \in Nat
    BY TableFields
  <2>2. /\ [s EXCEPT !.sup = Len(d.jobs) + 1] \in Snapshot
        /\ [s EXCEPT !.sup = 0] \in Snapshot
    BY <2>1 DEF Snapshot
  <2> QED
    BY <2>1, <2>2 DEF RevertSnapshot
<1>2. \A k \in Keys : RevertRow(d, j, k) \in CanonicalRow
  <2> TAKE k \in Keys
  <2>1. d.canonical[k] \in CanonicalRow
    BY TableFields
  <2>2. [d.canonical[k] EXCEPT !.deleted = TRUE] \in CanonicalRow
    BY <2>1 DEF CanonicalRow
  <2>3. ASSUME Prior(d, j, k) # {}
        PROVE  LET p == CHOOSE s \in Prior(d, j, k) : TRUE
               IN  [event |-> p.event, deleted |-> p.deleted] \in CanonicalRow
    <3> DEFINE p == CHOOSE s \in Prior(d, j, k) : TRUE
    <3>1. p \in Prior(d, j, k)
      BY <2>3
    <3>2. p \in Snapshot
      BY <3>1, TableFields, PriorFacts
    <3> QED
      BY <3>2 DEF Snapshot, CanonicalRow
  <2> QED
    BY <2>1, <2>2, <2>3 DEF RevertRow
<1> QED
  BY <1>1, <1>2

\* What a revert leaves in the tables, field by field.
LEMMA RevertFields ==
    ASSUME NEW d \in Tables, NEW j \in Nat
    PROVE  LET u == Undone(d, j)
           IN  /\ u \in Tables
               /\ Len(u.jobs) = Len(d.jobs) + 1
               /\ \A i \in 1..Len(d.jobs) : u.jobs[i] = d.jobs[i]
               /\ u.jobs[Len(d.jobs) + 1] = [status |-> "revert", before |-> 0]
               /\ u.snapshots = {RevertSnapshot(d, j, s) : s \in d.snapshots}
               /\ u.canonical = [k \in Keys |-> RevertRow(d, j, k)]
               /\ u.cursor = d.cursor
               /\ u.quarantine = d.quarantine /\ u.issues = d.issues
<1> DEFINE job == [status |-> "revert", before |-> 0]
           S == {RevertSnapshot(d, j, s) : s \in d.snapshots}
           C == [k \in Keys |-> RevertRow(d, j, k)]
           d1 == [d EXCEPT !.jobs = Append(@, job)]
           d2 == [d1 EXCEPT !.snapshots = S]
           d3 == [d2 EXCEPT !.canonical = C]
<1>1. job \in Job
  BY DEF Job, Status
<1>2. /\ d1 \in Tables /\ Len(d1.jobs) = Len(d.jobs) + 1
      /\ \A i \in 1..Len(d.jobs) : d1.jobs[i] = d.jobs[i]
      /\ d1.jobs[Len(d.jobs) + 1] = job
      /\ d1.snapshots = d.snapshots /\ d1.canonical = d.canonical
      /\ d1.cursor = d.cursor
      /\ d1.quarantine = d.quarantine /\ d1.issues = d.issues
  BY <1>1, AppendJob
<1>3. S \in SUBSET Snapshot /\ C \in [Keys -> CanonicalRow]
  BY RevertTypes
<1>4. Undone(d, j) = d3
  BY <1>2 DEF Undone, RevertJob
<1> HIDE DEF S, C, d1, job
<1>5. /\ d2 \in Tables /\ d2.snapshots = S /\ d2.jobs = d1.jobs
      /\ d2.canonical = d.canonical /\ d2.cursor = d.cursor
      /\ d2.quarantine = d.quarantine /\ d2.issues = d.issues
  BY <1>2, <1>3, UpdateSnapshots
<1> HIDE DEF d2
<1>6. /\ d3 \in Tables /\ d3.snapshots = S /\ d3.jobs = d1.jobs
      /\ d3.canonical = C /\ d3.cursor = d.cursor
      /\ d3.quarantine = d.quarantine /\ d3.issues = d.issues
  BY <1>3, <1>5, UpdateCanonical
<1> QED
  BY <1>2, <1>4, <1>6 DEF S, C, job

\* What the end of a page changes, field by field.
LEMMA SucceedFields ==
    ASSUME NEW d \in Tables, NEW j \in 1..Len(d.jobs), NEW c \in Nat
    PROVE  LET u == Succeeded(d, j, c)
           IN  /\ u \in Tables
               /\ Len(u.jobs) = Len(d.jobs)
               /\ \A i \in 1..Len(d.jobs) :
                     /\ u.jobs[i].status =
                           IF i = j THEN "success" ELSE d.jobs[i].status
                     /\ u.jobs[i].before = d.jobs[i].before
               /\ u.snapshots = d.snapshots /\ u.canonical = d.canonical
               /\ u.cursor = c
               /\ u.quarantine = d.quarantine /\ u.issues = d.issues
<1> DEFINE job == [d.jobs[j] EXCEPT !.status = "success"]
           d1 == [d EXCEPT !.jobs = MarkSuccess(@, j)]
<1>1. d.jobs \in Seq(Job) /\ d.jobs[j] \in Job
  BY TableFields, ElementOfSeq
<1>2. job \in Job /\ job.status = "success" /\ job.before = d.jobs[j].before
  BY <1>1 DEF Job, Status
<1>3. MarkSuccess(d.jobs, j) = [d.jobs EXCEPT ![j] = job]
  BY DEF MarkSuccess
<1> HIDE DEF job
<1>4. /\ MarkSuccess(d.jobs, j) \in Seq(Job)
      /\ Len(MarkSuccess(d.jobs, j)) = Len(d.jobs)
      /\ \A i \in 1..Len(d.jobs) :
            MarkSuccess(d.jobs, j)[i] = IF i = j THEN job ELSE d.jobs[i]
  BY <1>1, <1>2, <1>3, ExceptSeq
<1>5. /\ d1 \in Tables /\ d1.jobs = MarkSuccess(d.jobs, j)
      /\ d1.snapshots = d.snapshots /\ d1.canonical = d.canonical
      /\ d1.quarantine = d.quarantine /\ d1.issues = d.issues
  BY <1>4, UpdateJobs
<1>6. Succeeded(d, j, c) = [d1 EXCEPT !.cursor = c]
  BY DEF Succeeded
<1> HIDE DEF d1
<1>7. LET u == [d1 EXCEPT !.cursor = c]
      IN  /\ u \in Tables /\ u.jobs = MarkSuccess(d.jobs, j)
          /\ u.snapshots = d.snapshots /\ u.canonical = d.canonical
          /\ u.cursor = c
          /\ u.quarantine = d.quarantine /\ u.issues = d.issues
  BY <1>5, UpdateCursor
<1> QED
  BY <1>2, <1>4, <1>6, <1>7

-----------------------------------------------------------------------------
(* Type correctness.                                                       *)

\* While a page is open its transaction has inserted a job row.
JobInserted == page.open => Len(work.jobs) > 0

TypeInv == TypeOK /\ JobInserted

LEMMA PollTypes ==
    ASSUME TypeInv, Poll
    PROVE  /\ page' \in Page /\ page'.open
           /\ work' = [db EXCEPT !.jobs = Append(@,
                          [status |-> "running", before |-> db.cursor])]
           /\ [status |-> "running", before |-> db.cursor] \in Job
           /\ work' \in Tables
           /\ Len(work'.jobs) = Len(db.jobs) + 1
<1> DEFINE job == [status |-> "running", before |-> db.cursor]
<1>1. db \in Tables /\ db.cursor \in Nat /\ Len(feed) \in Nat
  BY TableFields, LenProperties DEF TypeInv, TypeOK
<1>2. PageEnd \in Nat
  BY <1>1, ConstantsAssumption DEF PageEnd
<1>3. page' \in Page /\ page'.open
  BY <1>1, <1>2 DEF Poll, Page, KnownStudents
<1>4. job \in Job
  BY <1>1 DEF Job, Status
<1>5. work' = [db EXCEPT !.jobs = Append(@, job)]
  BY DEF Poll
<1> QED
  BY <1>1, <1>3, <1>4, <1>5, AppendJob

LEMMA PendingTypes ==
    ASSUME TypeInv, NEW p \in 1..Len(feed), Pending(p)
    PROVE  /\ feed[p] \in Event
           /\ p \in Nat \ {0}
           /\ CurrentJob \in Nat \ {0}
           /\ CurrentJob \in 1..Len(work.jobs)
           /\ work \in Tables
           /\ Advance(feed[p]) => page' \in Page /\ page'.open
<1>1. feed \in Seq(Event) /\ work \in Tables /\ page \in Page /\ page.open
  BY DEF TypeInv, TypeOK, Pending
<1>2. feed[p] \in Event
  BY <1>1, ElementOfSeq
<1>3. p \in Nat \ {0}
  BY <1>1, LenProperties
<1>4. Len(work.jobs) \in Nat /\ Len(work.jobs) > 0
  BY <1>1, TableFields DEF TypeInv, JobInserted
<1>5. ASSUME Advance(feed[p]) PROVE page' \in Page /\ page'.open
  <2> DEFINE n == page.next + 1
             kn == IF feed[p].kind = "ok" /\ feed[p].key \in Students
                   THEN page.known \cup {feed[p].key} ELSE page.known
  <2>1. n \in Nat /\ kn \in SUBSET Students
    BY <1>1 DEF Page
  <2>2. page' = [page EXCEPT !.next = n, !.known = kn]
    BY <1>5 DEF Advance
  <2> HIDE DEF n, kn
  <2> QED
    BY <1>1, <2>1, <2>2 DEF Page
<1> QED
  BY <1>1, <1>2, <1>3, <1>4, <1>5 DEF CurrentJob

LEMMA TypeInit == Init => TypeInv
<1> SUFFICES ASSUME Init PROVE TypeInv
  OBVIOUS
<1>1. EmptyTables \in Tables
  BY EmptySeq DEF EmptyTables, Tables, NoRow, CanonicalRow
<1>2. NoPage \in Page
  BY DEF NoPage, Page
<1> QED
  BY <1>1, <1>2, EmptySeq DEF Init, TypeInv, TypeOK, JobInserted, NoPage

LEMMA TypeStep == TypeInv /\ [Next]_vars => TypeInv'
<1> SUFFICES ASSUME TypeInv, [Next]_vars
             PROVE  TypeInv'
  OBVIOUS
<1>0. /\ feed \in Seq(Event) /\ db \in Tables /\ work \in Tables
      /\ page \in Page /\ audit \in Seq(AuditRow) /\ unproductive \in Nat
  BY DEF TypeInv, TypeOK
<1>1. ASSUME NEW e \in Event, Publish(e) PROVE TypeInv'
  <2>1. feed' \in Seq(Event)
    BY <1>0, <1>1, AppendProperties DEF Publish
  <2> QED
    BY <1>0, <1>1, <2>1 DEF Publish, TypeInv, TypeOK, JobInserted
<1>2. CASE Poll
  <2>1. unproductive' \in Nat
    BY <1>0, <1>2 DEF Poll
  <2>2. Len(work'.jobs) > 0
    BY <1>0, <1>2, PollTypes, TableFields
  <2> QED
    BY <1>0, <1>2, <2>1, <2>2, PollTypes DEF Poll, TypeInv, TypeOK, JobInserted
<1>3. CASE BlockPage
  <2>1. [status |-> "failed", before |-> db.cursor] \in Job
    BY <1>0, TableFields DEF Job, Status
  <2>2. db' \in Tables /\ work' \in Tables
    BY <1>0, <1>3, <2>1, AppendJob DEF BlockPage, FailedJob, Commit
  <2> QED
    BY <1>0, <1>3, <2>2 DEF BlockPage, FailedJob, TypeInv, TypeOK, JobInserted
<1>4. ASSUME NEW p \in 1..Len(feed), SkipEvent(p) PROVE TypeInv'
  <2> DEFINE v == IF feed[p].kind # "unmapped"
                  THEN work.issues \cup {<<p, CurrentJob>>} ELSE work.issues
  <2>1. Pending(p)
    BY <1>4 DEF SkipEvent
  <2>2. v \in SUBSET (Nat \X Nat)
    BY <1>0, <2>1, PendingTypes, TableFields
  <2>3. work' = [work EXCEPT !.issues = v]
    BY <1>4 DEF SkipEvent
  <2> HIDE DEF v
  <2>4. work' \in Tables /\ work'.jobs = work.jobs
    BY <1>0, <2>2, <2>3, UpdateIssues
  <2> QED
    BY <1>0, <1>4, <2>1, <2>4, PendingTypes
       DEF SkipEvent, TypeInv, TypeOK, JobInserted, CurrentJob
<1>5. ASSUME NEW p \in 1..Len(feed), QuarantineEvent(p) PROVE TypeInv'
  <2> DEFINE row == [gen |-> CurrentJob, event |-> p, key |-> feed[p].key,
                     status |-> "unresolved"]
             v == work.quarantine \cup {row}
  <2>1. Pending(p)
    BY <1>5 DEF QuarantineEvent
  <2>2. row \in QuarantineRow
    BY <2>1, PendingTypes DEF QuarantineRow, Event
  <2>3. v \in SUBSET QuarantineRow
    BY <1>0, <2>2, TableFields
  <2>4. work' = [work EXCEPT !.quarantine = v]
    BY <1>5 DEF QuarantineEvent
  <2> HIDE DEF v
  <2>5. work' \in Tables /\ work'.jobs = work.jobs
    BY <1>0, <2>3, <2>4, UpdateQuarantine
  <2> QED
    BY <1>0, <1>5, <2>1, <2>5, PendingTypes
       DEF QuarantineEvent, TypeInv, TypeOK, JobInserted, CurrentJob
<1>6. ASSUME NEW p \in 1..Len(feed), DedupEvent(p) PROVE TypeInv'
  BY <1>0, <1>6, PendingTypes
     DEF DedupEvent, TypeInv, TypeOK, JobInserted
<1>7. ASSUME NEW p \in 1..Len(feed), WriteEvent(p) PROVE TypeInv'
  <2>1. Pending(p)
    BY <1>7 DEF WriteEvent
  <2>2. work' \in Tables /\ work'.jobs = work.jobs
    BY ZenonT(30), <1>7, <2>1, PendingTypes, ApplyEventFields DEF WriteEvent
  <2> QED
    BY <1>0, <1>7, <2>1, <2>2, PendingTypes
       DEF WriteEvent, TypeInv, TypeOK, JobInserted
<1>8. CASE CommitPage
  <2>1. CurrentJob \in 1..Len(work.jobs) /\ NextCursor \in Nat
    BY <1>0, <1>8, TableFields
       DEF CommitPage, TypeInv, JobInserted, CurrentJob, NextCursor, Page
  <2>2. db' \in Tables /\ work' \in Tables
    BY <1>0, <1>8, <2>1, SucceedFields DEF CommitPage, Commit
  <2> QED
    BY <1>0, <1>8, <2>2
       DEF CommitPage, NoPage, Page, TypeInv, TypeOK, JobInserted
<1>9. CASE Crash
  BY <1>0, <1>9 DEF Crash, NoPage, Page, TypeInv, TypeOK, JobInserted
<1>10. ASSUME NEW j \in 1..Len(db.jobs), NEW forced \in BOOLEAN, Retry(j, forced)
       PROVE  TypeInv'
  <2> DEFINE c == IF db.jobs[j].status = "quarantine_release"
                  THEN db.cursor ELSE db.jobs[j].before
  <2>1. db.jobs[j] \in Job
    BY <1>0, TableFields, ElementOfSeq
  <2>2. c \in Nat /\ j \in Nat
    BY <1>0, <2>1, TableFields DEF Job
  <2>3. db' = [db EXCEPT !.cursor = c] /\ work' = db'
    BY <1>10 DEF Retry, Commit
  <2> HIDE DEF c
  <2>4. db' \in Tables
    BY <1>0, <2>2, <2>3, UpdateCursor
  <2>5. audit' \in Seq(AuditRow)
    <3>1. [action |-> "retry", job |-> j, moved |-> FALSE] \in AuditRow
      BY <2>2 DEF AuditRow
    <3> QED
      BY <1>0, <1>10, <3>1, AppendProperties DEF Retry
  <2> QED
    BY <1>0, <1>10, <2>3, <2>4, <2>5
       DEF Retry, CanIntervene, TypeInv, TypeOK, JobInserted
<1>11. ASSUME NEW j \in 1..Len(db.jobs), Revert(j) PROVE TypeInv'
  <2>1. j \in Nat
    BY <1>0, TableFields
  <2>2. db' \in Tables /\ work' = db'
    BY <1>0, <1>11, <2>1, RevertFields DEF Revert, Commit
  <2>3. audit' \in Seq(AuditRow)
    <3>1. [action |-> "revert", job |-> j,
           moved |-> \E k \in Keys : Reverted(db, j, k) # {}] \in AuditRow
      BY <2>1 DEF AuditRow
    <3> QED
      BY <1>0, <1>11, <3>1, AppendProperties DEF Revert
  <2> QED
    BY <1>0, <1>11, <2>2, <2>3
       DEF Revert, CanIntervene, TypeInv, TypeOK, JobInserted
<1>12. CASE UNCHANGED vars
  BY <1>0, <1>12 DEF vars, TypeInv, TypeOK, JobInserted
<1> QED
  BY <1>1, <1>2, <1>3, <1>4, <1>5, <1>6, <1>7, <1>8, <1>9, <1>10, <1>11, <1>12
     DEF Next, Worker, ProcessEvent, Operator

\* The tables and the page hold values of their types in every reachable
\* state, whatever the keys, the page size and the bounds.
THEOREM TypeCorrect == Spec => []TypeOK
<1>1. Spec => []TypeInv
  BY TypeInit, TypeStep, PTL DEF Spec
<1>2. TypeInv => TypeOK
  BY DEF TypeInv
<1> QED
  BY <1>1, <1>2, PTL

-----------------------------------------------------------------------------
(* The lineage invariant.                                                  *)

LEMMA SnapshotFields ==
    ASSUME NEW d \in Tables, NEW s \in d.snapshots
    PROVE  /\ s \in Snapshot
           /\ s.key \in Keys /\ s.gen \in Nat \ {0} /\ s.event \in Nat \ {0}
           /\ s.deleted \in BOOLEAN /\ s.sup \in Nat
BY TableFields DEF Snapshot

LEMMA SetSup ==
    ASSUME NEW s \in Snapshot, NEW n \in Nat
    PROVE  LET u == [s EXCEPT !.sup = n]
           IN  /\ u \in Snapshot /\ u.sup = n
               /\ u.key = s.key /\ u.gen = s.gen /\ u.event = s.event
               /\ u.deleted = s.deleted
BY DEF Snapshot

\* The lineage invariant does not depend on what becomes of the jobs, as long
\* as none disappears and none turns into a revert or out of one.
LEMMA LineageKept ==
    ASSUME NEW d \in Tables, NEW u \in Tables, LineageInv(d),
           u.snapshots = d.snapshots, u.canonical = d.canonical,
           Len(d.jobs) <= Len(u.jobs),
           \A i \in 1..Len(d.jobs) :
               u.jobs[i].status = "revert" <=> d.jobs[i].status = "revert"
    PROVE  LineageInv(u)
<1>0. Len(d.jobs) \in Nat /\ Len(u.jobs) \in Nat
  BY TableFields
<1>1. \A s \in d.snapshots :
         /\ s.gen \in 1..Len(d.jobs)
         /\ s.sup # 0 => s.sup \in 1..Len(d.jobs)
  BY <1>0, SnapshotFields DEF LineageInv, JobsKnown
<1>2. \A s \in d.snapshots : InLineage(u, s) <=> InLineage(d, s)
  BY <1>1 DEF InLineage
<1>3. \A k : Lineage(u, k) = Lineage(d, k) /\ Live(u, k) = Live(d, k)
  BY <1>2 DEF Lineage, Live
<1>4. JobsKnown(u)
  <2> SUFFICES ASSUME NEW s \in d.snapshots
               PROVE  /\ s.gen <= Len(u.jobs) /\ u.jobs[s.gen].status # "revert"
                      /\ s.sup <= Len(u.jobs)
                      /\ s.sup # 0 => s.gen <= s.sup
    BY DEF JobsKnown
  <2>1. /\ s.gen <= Len(d.jobs) /\ d.jobs[s.gen].status # "revert"
        /\ s.sup <= Len(d.jobs)
        /\ s.sup # 0 => s.gen <= s.sup
    BY DEF LineageInv, JobsKnown
  <2> QED
    BY <1>0, <1>1, <2>1, SnapshotFields
<1>5. LineageOrdered(u)
  BY <1>3 DEF LineageInv, LineageOrdered
<1>6. LineageLive(u)
  BY <1>3 DEF LineageInv, LineageLive
<1>7. CanonicalMatches(u)
  BY <1>3 DEF LineageInv, CanonicalMatches
<1> QED
  BY <1>4, <1>5, <1>6, <1>7 DEF LineageInv

LEMMA LiveIsTop ==
    ASSUME NEW d \in Tables, LineageInv(d), NEW k \in Keys
    PROVE  /\ Live(d, k) \subseteq Lineage(d, k)
           /\ \A s, t \in Live(d, k) : s = t
           /\ \A s \in Lineage(d, k) : \A t \in Live(d, k) : s.event <= t.event
<1>1. Live(d, k) \subseteq Lineage(d, k)
  BY DEF Live, Lineage, InLineage
<1>2. \A s, t \in Live(d, k) : s = t
  <2> TAKE s, t \in Live(d, k)
  <2>1. s \in d.snapshots /\ t \in d.snapshots /\ s.sup = 0 /\ t.sup = 0
    BY DEF Live
  <2>2. ~ (s.event < t.event) /\ ~ (t.event < s.event)
    BY <1>1, <2>1 DEF LineageInv, LineageOrdered
  <2>3. s.event = t.event
    BY <2>1, <2>2, SnapshotFields
  <2> QED
    BY <1>1, <2>3 DEF LineageInv, LineageOrdered
<1>3. \A s \in Lineage(d, k) : \A t \in Live(d, k) : s.event <= t.event
  BY <1>2 DEF LineageInv, LineageLive
<1> QED
  BY <1>1, <1>2, <1>3

\* Writing an event above the high-water mark extends the chain of its key.
LEMMA ApplyEventLineage ==
    ASSUME NEW d \in Tables, LineageInv(d), NEW p \in Nat \ {0},
           feed[p] \in Event, ~AlreadyApplied(d, p),
           NEW j \in Nat \ {0}, j = Len(d.jobs), d.jobs[j].status # "revert"
    PROVE  LineageInv(ApplyEvent(d, p, j))
<1> DEFINE u == ApplyEvent(d, p, j)
           k0 == feed[p].key
           gone == feed[p].op = "deleted"
           row == [key |-> k0, gen |-> j, event |-> p, deleted |-> gone, sup |-> 0]
           old(s) == IF s.key = k0 /\ s.sup = 0 THEN [s EXCEPT !.sup = j] ELSE s
<1>0. k0 \in Keys /\ gone \in BOOLEAN
  BY DEF Event
<1>1. /\ u \in Tables
      /\ u.snapshots = {old(s) : s \in d.snapshots} \cup {row}
      /\ u.canonical = [d.canonical EXCEPT ![k0] = [event |-> p, deleted |-> gone]]
      /\ u.jobs = d.jobs
  BY ApplyEventFields DEF MarkSuperseded
<1> HIDE DEF u
<1>2. \A s \in d.snapshots :
         /\ old(s).key = s.key /\ old(s).gen = s.gen
         /\ old(s).event = s.event /\ old(s).deleted = s.deleted
         /\ old(s).sup = IF s.key = k0 /\ s.sup = 0 THEN j ELSE s.sup
  BY SnapshotFields, SetSup
<1>3. /\ row.key = k0 /\ row.gen = j /\ row.event = p /\ row.deleted = gone
      /\ row.sup = 0
  OBVIOUS
<1>3a. \A s \in d.snapshots : s.key # k0 => old(s) = s
  OBVIOUS
<1> HIDE DEF row, old
<1>4. \A s \in d.snapshots : InLineage(u, old(s)) <=> InLineage(d, s)
  BY <1>1, <1>2 DEF InLineage
<1>5. \A k : Lineage(u, k) = {old(s) : s \in Lineage(d, k)} \cup
                             (IF k = k0 THEN {row} ELSE {})
  <2> TAKE k
  <2>1. ASSUME NEW s \in Lineage(u, k)
        PROVE  s \in {old(v) : v \in Lineage(d, k)} \cup
                     (IF k = k0 THEN {row} ELSE {})
    <3>1. s \in u.snapshots /\ s.key = k /\ InLineage(u, s)
      BY <2>1 DEF Lineage
    <3>2. CASE s = row
      BY <3>1, <3>2, <1>3
    <3>3. ASSUME NEW v \in d.snapshots, s = old(v)
          PROVE  v \in Lineage(d, k)
      BY <3>1, <3>3, <1>2, <1>4 DEF Lineage
    <3> QED
      BY <3>1, <3>2, <3>3, <1>1
  <2>2. \A s \in Lineage(d, k) : old(s) \in Lineage(u, k)
    BY <1>1, <1>2, <1>4 DEF Lineage
  <2>3. k = k0 => row \in Lineage(u, k)
    BY <1>1, <1>3 DEF Lineage, InLineage
  <2> QED
    BY <2>1, <2>2, <2>3
<1>6. Live(u, k0) = {row}
  BY <1>1, <1>2, <1>3 DEF Live
<1>7. \A k : k # k0 => Live(u, k) = Live(d, k)
  BY <1>1, <1>2, <1>3, <1>3a DEF Live
<1>8. \A s \in Lineage(d, k0) : s.event < p
  <2> TAKE s \in Lineage(d, k0)
  <2>1. PICK t \in Live(d, k0) : s.event <= t.event
    BY <1>0 DEF LineageInv, LineageLive
  <2>2. ~ (p <= t.event)
    BY DEF AlreadyApplied
  <2>3. s.event \in Nat /\ t.event \in Nat
    BY SnapshotFields DEF Lineage, Live
  <2> QED
    BY <2>1, <2>2, <2>3
<1>9. JobsKnown(u)
  <2>1. ASSUME NEW s \in d.snapshots
        PROVE  /\ s.gen <= j /\ d.jobs[s.gen].status # "revert"
               /\ old(s).sup <= j
               /\ old(s).sup # 0 => s.gen <= old(s).sup
    BY <1>2, SnapshotFields DEF LineageInv, JobsKnown
  <2> QED
    BY <1>1, <1>2, <1>3, <2>1 DEF JobsKnown
<1>10. LineageOrdered(u)
  <2> SUFFICES ASSUME NEW k \in Keys, NEW x \in Lineage(u, k), NEW y \in Lineage(u, k)
               PROVE  /\ x.event = y.event => x = y
                      /\ x.event < y.event =>
                            /\ x.sup # 0 /\ x.sup <= y.gen
                            /\ \E r \in Lineage(u, k) :
                                  r.event < y.event /\ r.sup = y.gen
    BY DEF LineageOrdered
  <2>1. ASSUME NEW s \in Lineage(d, k), NEW t \in Lineage(d, k),
               x = old(s), y = old(t)
        PROVE  /\ x.event = y.event => x = y
               /\ x.event < y.event =>
                     /\ x.sup # 0 /\ x.sup <= y.gen
                     /\ \E r \in Lineage(u, k) :
                           r.event < y.event /\ r.sup = y.gen
    <3>1. s \in d.snapshots /\ t \in d.snapshots
      BY DEF Lineage
    <3>2. /\ s.event = t.event => s = t
          /\ s.event < t.event =>
                /\ s.sup # 0 /\ s.sup <= t.gen
                /\ \E r \in Lineage(d, k) : r.event < t.event /\ r.sup = t.gen
      BY DEF LineageInv, LineageOrdered
    <3>3. ASSUME s.event < t.event
          PROVE  \E r \in Lineage(u, k) : r.event < y.event /\ r.sup = y.gen
      <4>1. PICK r \in Lineage(d, k) : r.event < t.event /\ r.sup = t.gen
        BY <3>2, <3>3
      <4>2. r \in d.snapshots /\ r.sup # 0
        BY <3>1, <4>1, SnapshotFields DEF Lineage
      <4>3. old(r) \in Lineage(u, k) /\ old(r).event = r.event /\ old(r).sup = r.sup
        BY <1>2, <1>5, <4>2
      <4> QED
        BY <1>2, <2>1, <3>1, <4>1, <4>3
    <3> QED
      BY <1>2, <2>1, <3>1, <3>2, <3>3
  <2>2. ASSUME NEW s \in Lineage(d, k), x = old(s), y = row, k = k0
        PROVE  /\ x.event < y.event
               /\ x.sup # 0 /\ x.sup <= y.gen
               /\ \E r \in Lineage(u, k) : r.event < y.event /\ r.sup = y.gen
    <3>1. s \in d.snapshots /\ s.key = k0 /\ s.event < p /\ s.sup \in Nat /\ s.sup <= j
      BY <1>8, <2>2, SnapshotFields DEF Lineage, LineageInv, JobsKnown
    <3>2. PICK t \in Live(d, k0) : s.event <= t.event
      BY <1>0, <2>2 DEF LineageInv, LineageLive
    <3>3. t \in d.snapshots /\ t \in Lineage(d, k0) /\ t.sup = 0 /\ t.key = k0
      BY <3>2 DEF Live, Lineage, InLineage
    <3>4. old(t) \in Lineage(u, k) /\ old(t).event < p /\ old(t).sup = j
      BY <1>2, <1>5, <1>8, <2>2, <3>3
    <3> QED
      BY <1>2, <1>3, <2>2, <3>1, <3>4
  <2>3. ASSUME NEW t \in Lineage(d, k), x = row, y = old(t), k = k0
        PROVE  y.event < x.event
    BY <1>2, <1>3, <1>8, <2>3 DEF Lineage
  <2>4. \A z \in Lineage(u, k) : z.event \in Nat
    BY <1>1, SnapshotFields DEF Lineage
  <2> QED
    BY <1>5, <2>1, <2>2, <2>3, <2>4
<1>11. LineageLive(u)
  <2> SUFFICES ASSUME NEW k \in Keys, NEW x \in Lineage(u, k)
               PROVE  \E t \in Live(u, k) : x.event <= t.event
    BY DEF LineageLive
  <2>1. CASE k = k0
    <3>1. ASSUME NEW s \in Lineage(d, k0), x = old(s) PROVE x.event <= p
      <4>1. s \in d.snapshots /\ s.event < p /\ s.event \in Nat
        BY <1>8, SnapshotFields DEF Lineage
      <4> QED
        BY <1>2, <3>1, <4>1
    <3> QED
      BY <1>3, <1>5, <1>6, <2>1, <3>1
  <2>2. CASE k # k0
    <3>1. PICK s \in Lineage(d, k) : x = old(s)
      BY <1>5, <2>2
    <3> QED
      BY <1>2, <1>7, <2>2, <3>1 DEF LineageInv, LineageLive, Lineage
  <2> QED
    BY <2>1, <2>2
<1>12. CanonicalMatches(u)
  <2> SUFFICES ASSUME NEW k \in Keys
               PROVE  IF Live(u, k) = {}
                      THEN u.canonical[k].event = 0 \/ u.canonical[k].deleted
                      ELSE \E s \in Live(u, k) :
                             u.canonical[k] = [event |-> s.event, deleted |-> s.deleted]
    BY DEF CanonicalMatches
  <2>0. d.canonical \in [Keys -> CanonicalRow]
    BY TableFields
  <2>1. CASE k = k0
    <3>1. u.canonical[k] = [event |-> p, deleted |-> gone]
      BY <1>0, <1>1, <2>0, <2>1
    <3> QED
      BY <1>3, <1>6, <2>1, <3>1
  <2>2. CASE k # k0
    <3>1. u.canonical[k] = d.canonical[k]
      BY <1>1, <2>0, <2>2
    <3> QED
      BY <1>7, <2>2, <3>1 DEF LineageInv, CanonicalMatches
  <2> QED
    BY <2>1, <2>2
<1> QED
  BY <1>9, <1>10, <1>11, <1>12 DEF LineageInv, u

\* Undoing job j along the chain of a key it holds the live snapshot of: it
\* wrote only that one, at most one snapshot is superseded by it, that one is
\* the next in the chain, and there is one unless the chain is t alone.
LEMMA RevertChain ==
    ASSUME NEW d \in Tables, LineageInv(d), NEW j \in 1..Len(d.jobs),
           ~RevertRefused(d, j), NEW k \in Keys, NEW t \in Reverted(d, j, k)
    PROVE  /\ Live(d, k) = {t} /\ Reverted(d, j, k) = {t}
           /\ \A s \in Lineage(d, k) : s # t => s.event < t.event
           /\ Prior(d, j, k) = {} => Lineage(d, k) = {t}
           /\ \A r \in Prior(d, j, k) :
                 /\ Prior(d, j, k) = {r}
                 /\ r \in Lineage(d, k) /\ r # t
                 /\ \A s \in Lineage(d, k) : s # t => s.event <= r.event
<1>0. /\ t \in d.snapshots /\ t.key = k /\ t.sup = 0 /\ t.gen = j
      /\ t \in Live(d, k) /\ t \in Lineage(d, k)
      /\ j \in Nat /\ j # 0 /\ t.event \in Nat
  BY TableFields, SnapshotFields DEF Reverted, Live, Lineage, InLineage
<1>1. Live(d, k) = {t} /\ Reverted(d, j, k) = {t}
  BY <1>0, LiveIsTop DEF Reverted
<1>2. \A s \in Lineage(d, k) : s \in d.snapshots /\ s.key = k /\ s.event \in Nat
                               /\ s.gen \in Nat /\ s.sup \in Nat
                               /\ (s.sup # 0 => s.gen <= s.sup)
  BY SnapshotFields DEF Lineage, LineageInv, JobsKnown
<1>3. \A s \in Lineage(d, k) : s # t => s.event < t.event
  <2> TAKE s \in Lineage(d, k)
  <2>1. s.event <= t.event
    BY <1>0, LiveIsTop
  <2>2. s.event = t.event => s = t
    BY <1>0 DEF LineageInv, LineageOrdered
  <2> QED
    BY <1>0, <1>2, <2>1, <2>2
<1>4. d.jobs[j].status # "revert"
  BY <1>0 DEF LineageInv, JobsKnown
<1>5. ASSUME NEW s \in d.snapshots, s.key = k, s.sup = j
      PROVE  s \in Lineage(d, k) /\ s # t /\ s.gen # j
  <2>1. s \in Lineage(d, k)
    BY <1>4, <1>5 DEF Lineage, InLineage
  <2>2. s.gen # j
    BY <1>0, <1>4, <1>5 DEF RevertRefused
  <2> QED
    BY <1>0, <1>5, <2>1, <2>2
<1>6. ASSUME NEW s \in d.snapshots, s.key = k, s.sup = j,
             NEW v \in d.snapshots, v.key = k, v.sup = j
      PROVE  ~ (s.event < v.event)
  <2> SUFFICES ASSUME s.event < v.event PROVE FALSE
    OBVIOUS
  <2>1. s \in Lineage(d, k) /\ v \in Lineage(d, k) /\ v.gen # j
    BY <1>5, <1>6
  <2>2. s.sup <= v.gen
    BY <2>1 DEF LineageInv, LineageOrdered
  <2>3. v.gen <= v.sup
    BY <1>0, <1>2, <1>6, <2>1
  <2> QED
    BY <1>0, <1>2, <1>6, <2>1, <2>2, <2>3
<1>7. ASSUME NEW s \in d.snapshots, s.key = k, s.sup = j,
             NEW v \in d.snapshots, v.key = k, v.sup = j
      PROVE  s = v
  <2>1. s \in Lineage(d, k) /\ v \in Lineage(d, k)
    BY <1>5, <1>7
  <2>2. s.event = v.event
    BY <1>2, <1>6, <1>7, <2>1
  <2> QED
    BY <2>1, <2>2 DEF LineageInv, LineageOrdered
<1>8. ASSUME NEW s \in d.snapshots, s.key = k, s.sup = j
      PROVE  Prior(d, j, k) = {s}
  <2>1. s.event <= s.event
    BY <1>8, SnapshotFields
  <2>2. LastSuperseded(d, j, k) # {} /\ \A r \in Prior(d, j, k) : r = s
    BY <1>7, <1>8, <2>1, PriorFacts DEF LastSuperseded
  <2> QED
    BY <2>2, PriorFacts
<1>9. ASSUME NEW s \in Lineage(d, k), s # t
      PROVE  \E r \in d.snapshots : r.key = k /\ r.sup = j
  <2>1. s.event < t.event
    BY <1>3, <1>9
  <2>2. PICK r \in Lineage(d, k) : r.event < t.event /\ r.sup = t.gen
    BY <1>0, <2>1 DEF LineageInv, LineageOrdered
  <2> QED
    BY <1>0, <1>2, <2>2
<1>10. Prior(d, j, k) = {} => Lineage(d, k) = {t}
  BY <1>0, <1>8, <1>9
<1>11. ASSUME NEW r \in Prior(d, j, k)
       PROVE  /\ Prior(d, j, k) = {r}
              /\ r \in Lineage(d, k) /\ r # t
              /\ \A s \in Lineage(d, k) : s # t => s.event <= r.event
  <2>1. r \in d.snapshots /\ r.key = k /\ r.sup = j
    BY <1>11, PriorFacts
  <2>2. r \in Lineage(d, k) /\ r # t
    BY <1>5, <2>1
  <2>3. ASSUME NEW s \in Lineage(d, k), s # t PROVE s.event <= r.event
    <3> SUFFICES ASSUME r.event < s.event PROVE FALSE
      BY <1>2, <2>2
    <3>1. r.sup <= s.gen
      BY <2>2 DEF LineageInv, LineageOrdered
    <3>2. s.event < t.event
      BY <1>3, <2>3
    <3>3. s.sup # 0 /\ s.sup <= t.gen
      BY <1>0, <3>2 DEF LineageInv, LineageOrdered
    <3>4. s.sup = j
      BY <1>0, <1>2, <2>1, <3>1, <3>3
    <3>5. s = r
      BY <1>2, <1>7, <2>1, <3>4
    <3> QED
      BY <1>2, <3>5
  <2> QED
    BY <1>8, <2>1, <2>2, <2>3
<1> QED
  BY <1>1, <1>3, <1>10, <1>11

\* A revert takes the top version of some keys off and leaves the chains of
\* the others alone.
LEMMA RevertLineage ==
    ASSUME NEW d \in Tables, LineageInv(d), NEW j \in 1..Len(d.jobs),
           ~RevertRefused(d, j),
           NEW u \in Tables,
           Len(u.jobs) = Len(d.jobs) + 1,
           \A i \in 1..Len(d.jobs) : u.jobs[i] = d.jobs[i],
           u.jobs[Len(d.jobs) + 1] = [status |-> "revert", before |-> 0],
           u.snapshots = {RevertSnapshot(d, j, s) : s \in d.snapshots},
           u.canonical = [k \in Keys |-> RevertRow(d, j, k)]
    PROVE  /\ LineageInv(u)
           /\ \A k \in Keys :
                 Lineage(u, k) = {RevertSnapshot(d, j, s) :
                                     s \in Lineage(d, k) \ Reverted(d, j, k)}
<1> DEFINE n == Len(d.jobs) + 1
           rs(s) == RevertSnapshot(d, j, s)
<1>0. Len(d.jobs) \in Nat /\ j \in Nat /\ n \in Nat /\ n # 0
  BY TableFields
<1>1. \A s \in d.snapshots :
         /\ s.key \in Keys /\ s.gen \in 1..Len(d.jobs) /\ s.event \in Nat
         /\ s.sup \in Nat /\ s.sup <= Len(d.jobs)
         /\ (s.sup # 0 => s.gen <= s.sup /\ s.sup \in 1..Len(d.jobs))
         /\ d.jobs[s.gen].status # "revert"
  BY <1>0, SnapshotFields DEF LineageInv, JobsKnown
<1>2. \A s \in d.snapshots :
         /\ rs(s).key = s.key /\ rs(s).gen = s.gen
         /\ rs(s).event = s.event /\ rs(s).deleted = s.deleted
         /\ rs(s).sup = IF s \in Reverted(d, j, s.key) THEN n
                        ELSE IF Reverted(d, j, s.key) # {}
                                /\ s \in Prior(d, j, s.key) THEN 0
                        ELSE s.sup
  BY <1>0, SnapshotFields, SetSup DEF RevertSnapshot
<1>3. \A s \in d.snapshots :
         /\ s \notin Reverted(d, j, s.key)
         /\ Reverted(d, j, s.key) = {} \/ s \notin Prior(d, j, s.key)
         => rs(s) = s
  BY DEF RevertSnapshot
<1> HIDE DEF rs
<1>4. ASSUME NEW s \in d.snapshots
      PROVE  InLineage(u, rs(s)) <=> InLineage(d, s) /\ s \notin Reverted(d, j, s.key)
  <2>1. CASE s \in Reverted(d, j, s.key)
    BY <1>0, <1>2, <2>1 DEF InLineage
  <2>2. CASE s \notin Reverted(d, j, s.key) /\ Reverted(d, j, s.key) # {}
             /\ s \in Prior(d, j, s.key)
    <3>1. PICK t : t \in Reverted(d, j, s.key)
      BY <2>2
    <3>2. s \in Lineage(d, s.key)
      BY <1>1, <2>2, <3>1, RevertChain
    <3> QED
      BY <1>2, <2>2, <3>2 DEF InLineage, Lineage
  <2>3. CASE s \notin Reverted(d, j, s.key)
             /\ (Reverted(d, j, s.key) = {} \/ s \notin Prior(d, j, s.key))
    BY <1>1, <1>3, <2>3 DEF InLineage
  <2> QED
    BY <2>1, <2>2, <2>3
<1>5. \A k \in Keys : Lineage(u, k) = {rs(s) : s \in Lineage(d, k) \ Reverted(d, j, k)}
  <2> TAKE k \in Keys
  <2>1. ASSUME NEW x \in Lineage(u, k)
        PROVE  x \in {rs(s) : s \in Lineage(d, k) \ Reverted(d, j, k)}
    <3>1. PICK s \in d.snapshots : x = rs(s)
      BY <2>1 DEF Lineage, rs
    <3>2. s.key = k /\ InLineage(u, rs(s))
      BY <1>2, <2>1, <3>1 DEF Lineage
    <3> QED
      BY <1>4, <3>1, <3>2 DEF Lineage
  <2>2. ASSUME NEW s \in Lineage(d, k) \ Reverted(d, j, k)
        PROVE  rs(s) \in Lineage(u, k)
    <3>1. s \in d.snapshots /\ s.key = k /\ InLineage(d, s)
      BY DEF Lineage
    <3>2. rs(s) \in u.snapshots
      BY <3>1 DEF rs
    <3> QED
      BY <1>2, <1>4, <3>1, <3>2 DEF Lineage
  <2> QED
    BY <2>1, <2>2
<1>6. ASSUME NEW k \in Keys, Reverted(d, j, k) = {}
      PROVE  Lineage(u, k) = Lineage(d, k) /\ Live(u, k) = Live(d, k)
  <2>1. \A s \in d.snapshots : s.key = k => rs(s) = s
    BY <1>3, <1>6
  <2>2. Lineage(u, k) = Lineage(d, k)
    BY <1>5, <1>6, <2>1 DEF Lineage
  <2>3. \A x : x \in u.snapshots /\ x.key = k <=> x \in d.snapshots /\ x.key = k
    BY <1>2, <2>1 DEF rs
  <2> QED
    BY <2>2, <2>3 DEF Live
<1>7. ASSUME NEW k \in Keys, NEW t \in Reverted(d, j, k)
      PROVE  /\ Lineage(u, k) = {rs(s) : s \in Lineage(d, k) \ {t}}
             /\ Prior(d, j, k) = {} => Live(u, k) = {} /\ Lineage(u, k) = {}
             /\ \A r \in Prior(d, j, k) : Live(u, k) = {rs(r)}
             /\ \A s \in Lineage(d, k) \ {t} :
                   s \notin Prior(d, j, k) => rs(s) = s
  <2>1. /\ Live(d, k) = {t} /\ Reverted(d, j, k) = {t}
        /\ Prior(d, j, k) = {} => Lineage(d, k) = {t}
        /\ \A r \in Prior(d, j, k) :
              Prior(d, j, k) = {r} /\ r \in Lineage(d, k) /\ r # t
    BY RevertChain
  <2>2. \A x \in Live(u, k) : x \in Lineage(u, k)
    BY DEF Live, Lineage, InLineage
  <2>3. Lineage(u, k) = {rs(s) : s \in Lineage(d, k) \ {t}}
    BY <1>5, <2>1
  <2>4. Prior(d, j, k) = {} => Live(u, k) = {} /\ Lineage(u, k) = {}
    BY <2>1, <2>2, <2>3
  <2>5. \A s \in Lineage(d, k) \ {t} : s \notin Prior(d, j, k) => rs(s) = s
    BY <1>3, <2>1 DEF Lineage
  <2>6. ASSUME NEW r \in Prior(d, j, k) PROVE Live(u, k) = {rs(r)}
    <3>1. r \in d.snapshots /\ r.key = k /\ Prior(d, j, k) = {r} /\ r # t
      BY <2>1 DEF Lineage
    <3>2. rs(r).sup = 0
      BY <1>2, <2>1, <3>1
    <3>3. rs(r) \in Live(u, k)
      BY <1>2, <3>1, <3>2 DEF Live, rs
    <3>4. ASSUME NEW x \in Live(u, k) PROVE x = rs(r)
      <4>1. PICK s \in Lineage(d, k) \ {t} : x = rs(s)
        BY <2>2, <2>3
      <4>2. CASE s = r
        BY <4>1, <4>2
      <4>3. CASE s # r
        <5>1. rs(s) = s
          BY <2>5, <3>1, <4>3
        <5>2. s \in Live(d, k)
          BY <4>1, <5>1, <3>4 DEF Lineage, Live
        <5> QED
          BY <2>1, <4>1, <5>2
      <4> QED
        BY <4>2, <4>3
    <3> QED
      BY <3>3, <3>4
  <2> QED
    BY <2>3, <2>4, <2>5, <2>6
<1>8. JobsKnown(u)
  <2> SUFFICES ASSUME NEW s \in d.snapshots
               PROVE  /\ rs(s).gen <= Len(u.jobs)
                      /\ u.jobs[rs(s).gen].status # "revert"
                      /\ rs(s).sup <= Len(u.jobs)
                      /\ rs(s).sup # 0 => rs(s).gen <= rs(s).sup
    BY DEF JobsKnown, rs
  <2>1. u.jobs[s.gen] = d.jobs[s.gen] /\ s.gen <= n
    BY <1>0, <1>1
  <2> QED
    BY SMTT(30), <1>0, <1>1, <1>2, <2>1
<1>9. LineageOrdered(u)
  <2> SUFFICES ASSUME NEW k \in Keys, NEW x \in Lineage(u, k), NEW y \in Lineage(u, k)
               PROVE  /\ x.event = y.event => x = y
                      /\ x.event < y.event =>
                            /\ x.sup # 0 /\ x.sup <= y.gen
                            /\ \E r \in Lineage(u, k) :
                                  r.event < y.event /\ r.sup = y.gen
    BY DEF LineageOrdered
  <2>1. CASE Reverted(d, j, k) = {}
    BY <1>6, <2>1 DEF LineageInv, LineageOrdered
  <2>2. ASSUME NEW t \in Reverted(d, j, k)
        PROVE  /\ x.event = y.event => x = y
               /\ x.event < y.event =>
                     /\ x.sup # 0 /\ x.sup <= y.gen
                     /\ \E r \in Lineage(u, k) :
                           r.event < y.event /\ r.sup = y.gen
    <3>1. PICK a \in Lineage(d, k) \ {t} : x = rs(a)
      BY <1>7
    <3>2. PICK b \in Lineage(d, k) \ {t} : y = rs(b)
      BY <1>7
    <3>3. /\ a \in d.snapshots /\ b \in d.snapshots
          /\ a.event \in Nat /\ b.event \in Nat
          /\ x.event = a.event /\ y.event = b.event /\ y.gen = b.gen
      BY <1>1, <1>2, <3>1, <3>2 DEF Lineage
    <3>4. x.event = y.event => x = y
      BY ZenonT(30), <3>1, <3>2, <3>3 DEF LineageInv, LineageOrdered
    <3>5. ASSUME a.event < b.event
          PROVE  /\ x.sup # 0 /\ x.sup <= y.gen
                 /\ \E r \in Lineage(u, k) : r.event < y.event /\ r.sup = y.gen
      <4>1. /\ a.sup # 0 /\ a.sup <= b.gen
            /\ \E r \in Lineage(d, k) : r.event < b.event /\ r.sup = b.gen
        BY <3>5 DEF LineageInv, LineageOrdered
      <4>2. \A s \in Lineage(d, k) : s.event < b.event => s # t /\ rs(s) = s
        <5> TAKE s \in Lineage(d, k)
        <5> HAVE s.event < b.event
        <5>1. b.event < t.event /\ t.event \in Nat /\ s.event \in Nat
          BY <1>1, RevertChain DEF Lineage, Reverted, Live
        <5>2. s # t
          BY <3>3, <5>1
        <5>3. s \notin Prior(d, j, k)
          <6> SUFFICES ASSUME s \in Prior(d, j, k) PROVE FALSE
            OBVIOUS
          <6>1. b.event <= s.event
            BY RevertChain
          <6> QED
            BY <3>3, <5>1, <6>1
        <5> QED
          BY <1>7, <5>2, <5>3
      <4>3. x = a
        BY <3>1, <3>5, <4>2
      <4>4. PICK r \in Lineage(d, k) : r.event < b.event /\ r.sup = b.gen
        BY <4>1
      <4>5. r \in Lineage(u, k)
        BY <1>7, <4>2, <4>4
      <4> QED
        BY <3>3, <4>1, <4>3, <4>4, <4>5
    <3> QED
      BY <3>3, <3>4, <3>5
  <2> QED
    BY <2>1, <2>2
<1>10. LineageLive(u)
  <2> SUFFICES ASSUME NEW k \in Keys, NEW x \in Lineage(u, k)
               PROVE  \E v \in Live(u, k) : x.event <= v.event
    BY DEF LineageLive
  <2>1. CASE Reverted(d, j, k) = {}
    BY <1>6, <2>1 DEF LineageInv, LineageLive
  <2>2. ASSUME NEW t \in Reverted(d, j, k)
        PROVE  \E v \in Live(u, k) : x.event <= v.event
    <3>1. PICK a \in Lineage(d, k) \ {t} : x = rs(a)
      BY <1>7
    <3>2. PICK r : r \in Prior(d, j, k)
      BY <1>7, <3>1
    <3>3. a.event <= r.event /\ r \in Lineage(d, k)
      BY <3>1, <3>2, RevertChain
    <3> QED
      BY <1>2, <1>7, <3>1, <3>2, <3>3 DEF Lineage
  <2> QED
    BY <2>1, <2>2
<1>11. CanonicalMatches(u)
  <2> SUFFICES ASSUME NEW k \in Keys
               PROVE  IF Live(u, k) = {}
                      THEN RevertRow(d, j, k).event = 0 \/ RevertRow(d, j, k).deleted
                      ELSE \E s \in Live(u, k) :
                             RevertRow(d, j, k) = [event |-> s.event, deleted |-> s.deleted]
    BY DEF CanonicalMatches
  <2>1. CASE Reverted(d, j, k) = {}
    <3>1. RevertRow(d, j, k) = d.canonical[k]
      BY <2>1 DEF RevertRow
    <3> QED
      BY SMTT(30), <1>6, <2>1, <3>1 DEF LineageInv, CanonicalMatches
  <2>2. CASE Reverted(d, j, k) # {} /\ Prior(d, j, k) = {}
    <3>1. Live(u, k) = {}
      BY <1>7, <2>2
    <3>2. d.canonical[k] \in CanonicalRow
      BY TableFields
    <3>3. [d.canonical[k] EXCEPT !.deleted = TRUE].deleted
      BY <3>2 DEF CanonicalRow
    <3> QED
      BY <2>2, <3>1, <3>3 DEF RevertRow
  <2>3. ASSUME Reverted(d, j, k) # {}, NEW r \in Prior(d, j, k)
        PROVE  /\ Live(u, k) # {}
               /\ \E s \in Live(u, k) :
                     RevertRow(d, j, k) = [event |-> s.event, deleted |-> s.deleted]
    <3>1. PICK t : t \in Reverted(d, j, k)
      BY <2>3
    <3>2. Prior(d, j, k) = {r} /\ r \in d.snapshots
      BY <3>1, RevertChain DEF Lineage
    <3>3. (CHOOSE s \in Prior(d, j, k) : TRUE) = r
      BY <3>2
    <3>4. RevertRow(d, j, k) = [event |-> r.event, deleted |-> r.deleted]
      BY <2>3, <3>2, <3>3 DEF RevertRow
    <3>5. Live(u, k) = {rs(r)}
      BY <1>7, <3>1
    <3> QED
      BY <1>2, <3>2, <3>4, <3>5
  <2> QED
    BY <2>1, <2>2, <2>3
<1> QED
  BY <1>5, <1>8, <1>9, <1>10, <1>11 DEF LineageInv, rs

\* What a step of the worker or of an operator does to the chains.
LEMMA LineageStep ==
    TypeInv /\ LineageInvariant /\ [Next]_vars => LineageInvariant'
<1> SUFFICES ASSUME TypeInv, LineageInvariant, [Next]_vars
             PROVE  LineageInvariant'
  OBVIOUS
<1>a. TypeInv'
  BY TypeStep
<1>b. /\ db \in Tables /\ work \in Tables /\ db' \in Tables /\ work' \in Tables
      /\ page \in Page /\ page' \in Page
      /\ LineageInv(db) /\ LineageInv(work)
      /\ page.open => work.jobs[CurrentJob].status = "running"
  BY <1>a DEF TypeInv, TypeOK, LineageInvariant
<1>c. Len(db.jobs) \in Nat /\ Len(work.jobs) \in Nat
  BY <1>b, TableFields
<1>d. work \in Tables
  BY <1>b
<1>1. ASSUME NEW e \in Event, Publish(e) PROVE LineageInvariant'
  BY <1>b, <1>1 DEF Publish, LineageInvariant, CurrentJob
<1>2. CASE Poll
  <2> DEFINE job == [status |-> "running", before |-> db.cursor]
  <2>0. job \in Job /\ job.status = "running"
        /\ work' = [db EXCEPT !.jobs = Append(@, job)]
    BY <1>2, PollTypes
  <2> HIDE DEF job
  <2>a. /\ Len(work'.jobs) = Len(db.jobs) + 1
        /\ \A i \in 1..Len(db.jobs) : work'.jobs[i] = db.jobs[i]
        /\ work'.jobs[Len(db.jobs) + 1] = job
        /\ work'.snapshots = db.snapshots /\ work'.canonical = db.canonical
    BY <1>b, <2>0, AppendJob
  <2>1. LineageInv(work')
    BY <1>b, <1>c, <2>a, LineageKept
  <2>2. work'.jobs[Len(work'.jobs)].status = "running"
    BY <2>0, <2>a
  <2> QED
    BY <1>b, <1>2, <2>1, <2>2 DEF Poll, LineageInvariant, CurrentJob
<1>3. CASE BlockPage
  <2>1. [status |-> "failed", before |-> db.cursor] \in Job
    BY <1>b, TableFields DEF Job, Status
  <2> DEFINE job == [status |-> "failed", before |-> db.cursor]
  <2>0. db' = [db EXCEPT !.jobs = Append(@, job)]
    BY <1>3 DEF BlockPage, FailedJob, Commit
  <2> HIDE DEF job
  <2>a. /\ Len(db'.jobs) = Len(db.jobs) + 1
        /\ \A i \in 1..Len(db.jobs) : db'.jobs[i] = db.jobs[i]
        /\ db'.snapshots = db.snapshots /\ db'.canonical = db.canonical
    BY <1>b, <2>0, <2>1, AppendJob DEF job
  <2>2. LineageInv(db')
    BY <1>b, <1>c, <2>a, LineageKept
  <2> QED
    BY <1>3, <2>2 DEF BlockPage, FailedJob, Commit, LineageInvariant
<1>4. ASSUME NEW p \in 1..Len(feed), SkipEvent(p) PROVE LineageInvariant'
  <2> DEFINE v == IF feed[p].kind # "unmapped"
                  THEN work.issues \cup {<<p, CurrentJob>>} ELSE work.issues
  <2>1. v \in SUBSET (Nat \X Nat)
    BY <1>b, <1>4, PendingTypes, TableFields DEF SkipEvent
  <2>2. work' = [work EXCEPT !.issues = v]
    BY <1>4 DEF SkipEvent
  <2> HIDE DEF v
  <2>3. /\ work'.snapshots = work.snapshots /\ work'.canonical = work.canonical
        /\ work'.jobs = work.jobs
    BY <1>b, <2>1, <2>2, UpdateIssues
  <2>4. LineageInv(work')
    BY <1>b, <1>c, <2>3, LineageKept
  <2> QED
    BY <1>b, <1>4, <2>3, <2>4 DEF SkipEvent, Pending, LineageInvariant, CurrentJob
<1>5. ASSUME NEW p \in 1..Len(feed), QuarantineEvent(p) PROVE LineageInvariant'
  <2> DEFINE row == [gen |-> CurrentJob, event |-> p, key |-> feed[p].key,
                     status |-> "unresolved"]
             v == work.quarantine \cup {row}
  <2>1. row \in QuarantineRow
    BY <1>5, PendingTypes DEF QuarantineRow, Event, QuarantineEvent
  <2>2. v \in SUBSET QuarantineRow
    BY <1>b, <2>1, TableFields
  <2>3. work' = [work EXCEPT !.quarantine = v]
    BY <1>5 DEF QuarantineEvent
  <2> HIDE DEF v
  <2>4. /\ work'.snapshots = work.snapshots /\ work'.canonical = work.canonical
        /\ work'.jobs = work.jobs
    BY <1>b, <2>2, <2>3, UpdateQuarantine
  <2>5. LineageInv(work')
    BY <1>b, <1>c, <2>4, LineageKept
  <2> QED
    BY <1>b, <1>5, <2>4, <2>5
       DEF QuarantineEvent, Pending, LineageInvariant, CurrentJob
<1>6. ASSUME NEW p \in 1..Len(feed), DedupEvent(p) PROVE LineageInvariant'
  BY <1>b, <1>6 DEF DedupEvent, Pending, LineageInvariant, CurrentJob
<1>7. ASSUME NEW p \in 1..Len(feed), WriteEvent(p) PROVE LineageInvariant'
  <2>1. Pending(p)
    BY <1>7 DEF WriteEvent
  <2>2. work.jobs[CurrentJob].status # "revert"
    BY <1>b, <2>1 DEF Pending
  <2>a. /\ feed[p] \in Event /\ p \in Nat \ {0} /\ CurrentJob \in Nat \ {0}
        /\ ~AlreadyApplied(work, p)
        /\ work' = ApplyEvent(work, p, CurrentJob)
    BY <1>7, <2>1, PendingTypes DEF WriteEvent
  <2>c. CurrentJob = Len(work.jobs)
    BY DEF CurrentJob
  <2>b. work'.jobs = work.jobs
    BY <1>d, <2>a, ApplyEventFields, ZenonT(30)
  <2>3. LineageInv(work') /\ work'.jobs = work.jobs
    BY <1>b, <2>2, <2>a, <2>b, <2>c, ApplyEventLineage
  <2> QED
    BY <1>b, <1>7, <2>1, <2>3 DEF WriteEvent, Pending, LineageInvariant, CurrentJob
<1>8. CASE CommitPage
  <2>1. CurrentJob \in 1..Len(work.jobs) /\ NextCursor \in Nat
    BY <1>b, <1>c, <1>8
       DEF CommitPage, TypeInv, JobInserted, CurrentJob, NextCursor, Page
  <2>a. /\ work.jobs[CurrentJob].status = "running"
        /\ db' = Succeeded(work, CurrentJob, NextCursor)
    BY <1>b, <1>8 DEF CommitPage, Commit
  <2>b. /\ Len(db'.jobs) = Len(work.jobs)
        /\ \A i \in 1..Len(work.jobs) :
              db'.jobs[i].status =
                  IF i = CurrentJob THEN "success" ELSE work.jobs[i].status
        /\ db'.snapshots = work.snapshots /\ db'.canonical = work.canonical
    BY <1>d, <2>1, <2>a, SucceedFields
  <2>c. \A i \in 1..Len(work.jobs) :
           db'.jobs[i].status = "revert" <=> work.jobs[i].status = "revert"
    BY <2>a, <2>b
  <2>2. LineageInv(db')
    BY <1>b, <1>c, <2>b, <2>c, LineageKept
  <2> QED
    BY <1>8, <2>2 DEF CommitPage, Commit, NoPage, LineageInvariant
<1>9. CASE Crash
  BY <1>b, <1>9 DEF Crash, NoPage, LineageInvariant
<1>10. ASSUME NEW j \in 1..Len(db.jobs), NEW forced \in BOOLEAN, Retry(j, forced)
       PROVE  LineageInvariant'
  <2> DEFINE c == IF db.jobs[j].status = "quarantine_release"
                  THEN db.cursor ELSE db.jobs[j].before
  <2>1. db.jobs[j] \in Job
    BY <1>b, TableFields, ElementOfSeq
  <2>2. c \in Nat
    BY <1>b, <2>1, TableFields DEF Job
  <2>3. db' = [db EXCEPT !.cursor = c]
    BY <1>10 DEF Retry, Commit
  <2> HIDE DEF c
  <2>a. /\ db'.snapshots = db.snapshots /\ db'.canonical = db.canonical
        /\ db'.jobs = db.jobs
    BY <1>b, <2>2, <2>3, UpdateCursor
  <2>4. LineageInv(db')
    BY <1>b, <1>c, <2>a, LineageKept
  <2> QED
    BY <1>10, <2>4 DEF Retry, Commit, CanIntervene, LineageInvariant
<1>11. ASSUME NEW j \in 1..Len(db.jobs), Revert(j) PROVE LineageInvariant'
  <2>1. j \in Nat
    BY <1>c
  <2>a. db' = Undone(db, j) /\ ~RevertRefused(db, j)
    BY <1>11 DEF Revert, Commit
  <2>b. /\ db' \in Tables
        /\ Len(db'.jobs) = Len(db.jobs) + 1
        /\ \A i \in 1..Len(db.jobs) : db'.jobs[i] = db.jobs[i]
        /\ db'.jobs[Len(db.jobs) + 1] = [status |-> "revert", before |-> 0]
        /\ db'.snapshots = {RevertSnapshot(db, j, s) : s \in db.snapshots}
        /\ db'.canonical = [k \in Keys |-> RevertRow(db, j, k)]
    BY <1>b, <2>1, <2>a, RevertFields
  <2>2. LineageInv(db')
    BY <1>b, <2>a, <2>b, RevertLineage
  <2> QED
    BY <1>11, <2>2 DEF Revert, Commit, CanIntervene, LineageInvariant
<1>12. CASE UNCHANGED vars
  BY <1>b, <1>12 DEF vars, LineageInvariant, CurrentJob
<1> QED
  BY <1>1, <1>2, <1>3, <1>4, <1>5, <1>6, <1>7, <1>8, <1>9, <1>10, <1>11, <1>12
     DEF Next, Worker, ProcessEvent, Operator

LEMMA LineageInit == Init => LineageInvariant
<1> SUFFICES ASSUME Init PROVE LineageInvariant
  OBVIOUS
<1>1. /\ db = EmptyTables /\ work = EmptyTables /\ ~page.open
  BY DEF Init, NoPage
<1>2. /\ EmptyTables.snapshots = {}
      /\ \A k \in Keys : EmptyTables.canonical[k].event = 0
  BY DEF EmptyTables, NoRow
<1>3. \A k : Lineage(EmptyTables, k) = {} /\ Live(EmptyTables, k) = {}
  BY <1>2 DEF Lineage, Live
<1>4. LineageInv(EmptyTables)
  BY <1>2, <1>3 DEF LineageInv, JobsKnown, LineageOrdered, LineageLive,
     CanonicalMatches
<1> QED
  BY <1>1, <1>4 DEF LineageInvariant

\* In every reachable state the snapshots of every key that no revert took
\* out form one chain in event order, in the tables and in the open page.
THEOREM LineageCorrect == Spec => [](TypeInv /\ LineageInvariant)
BY TypeInit, TypeStep, LineageInit, LineageStep, PTL DEF Spec

\* The sync worker and the revert service never leave two snapshots of a key
\* with superseded_by_generation_id NULL.
THEOREM SupersessionCorrect == Spec => []SupersessionInvariant
<1>1. TypeInv /\ LineageInvariant => SupersessionInvariant
  BY LiveIsTop DEF TypeInv, TypeOK, LineageInvariant, SupersessionInvariant, OneLive
<1> QED
  BY <1>1, LineageCorrect, PTL

\* A canonical row says what the live snapshot of its key says, through every
\* page, crash, replay and revert.
THEOREM CanonicalCorrect == Spec => []CanonicalFollowsSnapshots
<1>1. LineageInvariant => CanonicalFollowsSnapshots
  BY DEF LineageInvariant, LineageInv, CanonicalFollowsSnapshots
<1> QED
  BY <1>1, LineageCorrect, PTL
-----------------------------------------------------------------------------
(* Five more invariants, most of them over LineageInvariant too.            *)

\* What the inductions start from in every step.
LEMMA StepTypes ==
    ASSUME TypeInv, [Next]_vars
    PROVE  /\ db \in Tables /\ work \in Tables /\ db' \in Tables /\ work' \in Tables
           /\ page \in Page /\ page' \in Page
           /\ feed \in Seq(Event) /\ feed' \in Seq(Event) /\ Len(feed) \in Nat
           /\ audit \in Seq(AuditRow) /\ Len(audit) \in Nat
           /\ Len(db.jobs) \in Nat /\ Len(work.jobs) \in Nat
<1>1. TypeInv'
  BY TypeStep
<1> QED
  BY <1>1, TableFields, LenProperties DEF TypeInv, TypeOK
-----------------------------------------------------------------------------
(* What each action leaves in the tables.                                  *)

LEMMA PollEffect ==
    ASSUME TypeInv, Poll
    PROVE  /\ db' = db /\ feed' = feed /\ audit' = audit
           /\ page'.open /\ page'.next = db.cursor + 1 /\ page'.to = PageEnd
           /\ page'.known = KnownStudents(db)
           /\ Len(work'.jobs) = Len(db.jobs) + 1
           /\ \A i \in 1..Len(db.jobs) : work'.jobs[i] = db.jobs[i]
           /\ work'.jobs[Len(db.jobs) + 1].before = db.cursor
           /\ work'.jobs[Len(db.jobs) + 1].status = "running"
           /\ work'.snapshots = db.snapshots /\ work'.canonical = db.canonical
           /\ work'.quarantine = db.quarantine /\ work'.issues = db.issues
<1> DEFINE job == [status |-> "running", before |-> db.cursor]
<1>1. job \in Job /\ work' = [db EXCEPT !.jobs = Append(@, job)] /\ db \in Tables
  BY PollTypes DEF TypeInv, TypeOK
<1>2. job.before = db.cursor /\ job.status = "running"
  OBVIOUS
<1> HIDE DEF job
<1> QED
  BY <1>1, <1>2, AppendJob DEF Poll

LEMMA BlockPageEffect ==
    ASSUME TypeInv, BlockPage
    PROVE  /\ ~page.open /\ page' = page /\ feed' = feed /\ audit' = audit
           /\ db'.cursor = db.cursor
           /\ Len(db'.jobs) = Len(db.jobs) + 1
           /\ \A i \in 1..Len(db.jobs) : db'.jobs[i] = db.jobs[i]
           /\ db'.jobs[Len(db.jobs) + 1].before = db.cursor
           /\ db'.jobs[Len(db.jobs) + 1].status = "failed"
           /\ db'.snapshots = db.snapshots /\ db'.canonical = db.canonical
           /\ db'.quarantine = db.quarantine /\ db'.issues = db.issues
           /\ work' = db'
<1> DEFINE job == [status |-> "failed", before |-> db.cursor]
<1>1. /\ db \in Tables /\ job \in Job
      /\ job.before = db.cursor /\ job.status = "failed"
  BY TableFields DEF TypeInv, TypeOK, Job, Status
<1>2. db' = [db EXCEPT !.jobs = Append(@, job)] /\ work' = db'
  BY DEF BlockPage, FailedJob, Commit
<1> HIDE DEF job
<1> QED
  BY <1>1, <1>2, AppendJob DEF BlockPage, FailedJob

\* The part of the page that has been walked grows by one event.
LEMMA AdvanceEffect ==
    ASSUME TypeInv, NEW p \in 1..Len(feed), Pending(p), Advance(feed[p])
    PROVE  /\ page'.open /\ page'.to = page.to
           /\ page.next = p /\ page'.next = p + 1 /\ p <= page.to
           /\ page'.known = IF feed[p].kind = "ok" /\ feed[p].key \in Students
                            THEN page.known \cup {feed[p].key} ELSE page.known
<1>1. page \in Page
  BY DEF TypeInv, TypeOK
<1> QED
  BY <1>1 DEF Page, Pending, Advance

LEMMA SkipEffect ==
    ASSUME TypeInv, NEW p \in 1..Len(feed), SkipEvent(p)
    PROVE  /\ Pending(p) /\ Advance(feed[p]) /\ feed[p].kind # "ok"
           /\ db' = db /\ feed' = feed /\ audit' = audit
           /\ work'.snapshots = work.snapshots /\ work'.canonical = work.canonical
           /\ work'.jobs = work.jobs /\ work'.quarantine = work.quarantine
           /\ work.issues \subseteq work'.issues
           /\ \/ feed[p].kind = "unmapped"
              \/ /\ feed[p].kind \in {"schema", "parse"}
                 /\ <<p, CurrentJob>> \in work'.issues
<1> DEFINE v == IF feed[p].kind # "unmapped"
                THEN work.issues \cup {<<p, CurrentJob>>} ELSE work.issues
<1>1. Pending(p)
  BY DEF SkipEvent
<1>2. work \in Tables /\ v \in SUBSET (Nat \X Nat)
  BY <1>1, PendingTypes, TableFields
<1>3. work' = [work EXCEPT !.issues = v]
  BY DEF SkipEvent
<1>4. /\ work.issues \subseteq v
      /\ feed[p].kind # "unmapped" => <<p, CurrentJob>> \in v
  OBVIOUS
<1> HIDE DEF v
<1> QED
  BY <1>2, <1>3, <1>4, UpdateIssues DEF SkipEvent

LEMMA QuarantineEffect ==
    ASSUME TypeInv, NEW p \in 1..Len(feed), QuarantineEvent(p)
    PROVE  /\ Pending(p) /\ Advance(feed[p])
           /\ feed[p].kind = "ok" /\ ~Resolves(feed[p])
           /\ db' = db /\ feed' = feed /\ audit' = audit
           /\ work'.snapshots = work.snapshots /\ work'.canonical = work.canonical
           /\ work'.jobs = work.jobs /\ work'.issues = work.issues
           /\ work.quarantine \subseteq work'.quarantine
           /\ \E q \in work'.quarantine : q.event = p
           /\ \E q \in QuarantineRow :
                 /\ q.gen = CurrentJob /\ q.event = p /\ q.status = "unresolved"
                 /\ work'.quarantine = work.quarantine \cup {q}
<1> DEFINE row == [gen |-> CurrentJob, event |-> p, key |-> feed[p].key,
                   status |-> "unresolved"]
           v == work.quarantine \cup {row}
<1>1. Pending(p)
  BY DEF QuarantineEvent
<1>2. work \in Tables /\ row \in QuarantineRow
  BY <1>1, PendingTypes DEF QuarantineRow, Event
<1>3. v \in SUBSET QuarantineRow
  BY <1>2, TableFields
<1>4. work' = [work EXCEPT !.quarantine = v]
  BY DEF QuarantineEvent
<1>5. row.gen = CurrentJob /\ row.event = p /\ row.status = "unresolved"
  OBVIOUS
<1>6. work.quarantine \subseteq v /\ row \in v /\ v = work.quarantine \cup {row}
  OBVIOUS
<1> HIDE DEF v, row
<1>7. /\ work'.quarantine = v
      /\ work'.snapshots = work.snapshots /\ work'.canonical = work.canonical
      /\ work'.jobs = work.jobs /\ work'.issues = work.issues
  BY <1>2, <1>3, <1>4, UpdateQuarantine
<1>8. \E q \in work'.quarantine : q.event = p
  BY <1>5, <1>6, <1>7
<1>9. work'.quarantine = work.quarantine \cup {row}
  BY <1>6, <1>7
<1> QED
  BY <1>1, <1>2, <1>5, <1>6, <1>7, <1>8, <1>9 DEF QuarantineEvent

LEMMA WriteEffect ==
    ASSUME TypeInv, NEW p \in 1..Len(feed), WriteEvent(p)
    PROVE  /\ Pending(p) /\ Advance(feed[p])
           /\ feed[p].kind = "ok" /\ Resolves(feed[p])
           /\ feed[p].key \in Keys /\ p \in Nat \ {0}
           /\ db' = db /\ feed' = feed /\ audit' = audit
           /\ work'.snapshots = MarkSuperseded(work.snapshots, feed[p].key, CurrentJob)
                  \cup {[key |-> feed[p].key, gen |-> CurrentJob, event |-> p,
                         deleted |-> feed[p].op = "deleted", sup |-> 0]}
           /\ \A k \in Keys :
                 work'.canonical[k] =
                     IF k = feed[p].key
                     THEN [event |-> p, deleted |-> feed[p].op = "deleted"]
                     ELSE work.canonical[k]
           /\ work'.jobs = work.jobs
           /\ work'.quarantine = work.quarantine /\ work'.issues = work.issues
<1>1. Pending(p)
  BY DEF WriteEvent
<1>2. /\ feed[p] \in Event /\ p \in Nat \ {0} /\ CurrentJob \in Nat \ {0}
      /\ work \in Tables /\ work.canonical \in [Keys -> CanonicalRow]
  BY <1>1, PendingTypes, TableFields
<1>3. work' = ApplyEvent(work, p, CurrentJob)
  BY DEF WriteEvent
<1>4. /\ work'.snapshots = MarkSuperseded(work.snapshots, feed[p].key, CurrentJob)
             \cup {[key |-> feed[p].key, gen |-> CurrentJob, event |-> p,
                    deleted |-> feed[p].op = "deleted", sup |-> 0]}
      /\ work'.canonical = [work.canonical EXCEPT ![feed[p].key] =
                               [event |-> p, deleted |-> feed[p].op = "deleted"]]
      /\ work'.jobs = work.jobs
      /\ work'.quarantine = work.quarantine /\ work'.issues = work.issues
  BY <1>2, <1>3, ApplyEventFields
<1>5. feed[p].key \in Keys
  BY <1>2 DEF Event
<1> QED
  BY <1>1, <1>2, <1>4, <1>5 DEF WriteEvent

LEMMA CommitEffect ==
    ASSUME TypeInv, CommitPage
    PROVE  /\ page.open /\ ~page'.open /\ page.next = page.to + 1
           /\ feed' = feed /\ audit' = audit /\ work' = db'
           /\ db'.cursor = page.to
           /\ Len(db'.jobs) = Len(work.jobs)
           /\ \A i \in 1..Len(work.jobs) :
                 /\ db'.jobs[i].before = work.jobs[i].before
                 /\ db'.jobs[i].status =
                       IF i = CurrentJob THEN "success" ELSE work.jobs[i].status
           /\ db'.snapshots = work.snapshots /\ db'.canonical = work.canonical
           /\ db'.quarantine = work.quarantine /\ db'.issues = work.issues
<1>1. page.open /\ page \in Page /\ work \in Tables
  BY DEF CommitPage, TypeInv, TypeOK
<1>2. CurrentJob \in 1..Len(work.jobs) /\ NextCursor \in Nat /\ NextCursor = page.to
  BY <1>1, TableFields DEF TypeInv, JobInserted, CurrentJob, NextCursor, Page
<1>3. db' = Succeeded(work, CurrentJob, NextCursor) /\ work' = db'
  BY DEF CommitPage, Commit
<1> QED
  BY <1>1, <1>2, <1>3, SucceedFields DEF CommitPage, NoPage

LEMMA RetryEffect ==
    ASSUME TypeInv, NEW j \in 1..Len(db.jobs), NEW forced \in BOOLEAN,
           Retry(j, forced)
    PROVE  /\ ~page.open /\ page' = page /\ feed' = feed /\ work' = db'
           /\ audit' = Append(audit,
                          [action |-> "retry", job |-> j, moved |-> FALSE])
           /\ db'.cursor \in {db.cursor, db.jobs[j].before}
           /\ db'.jobs = db.jobs
           /\ db'.snapshots = db.snapshots /\ db'.canonical = db.canonical
           /\ db'.quarantine = db.quarantine /\ db'.issues = db.issues
<1> DEFINE c == IF db.jobs[j].status = "quarantine_release"
                THEN db.cursor ELSE db.jobs[j].before
<1>1. db \in Tables /\ db.jobs[j] \in Job
  BY TableFields, ElementOfSeq DEF TypeInv, TypeOK
<1>2. c \in Nat /\ c \in {db.cursor, db.jobs[j].before}
  BY <1>1, TableFields DEF Job
<1>3. db' = [db EXCEPT !.cursor = c] /\ work' = db'
  BY DEF Retry, Commit
<1> HIDE DEF c
<1> QED
  BY <1>1, <1>2, <1>3, UpdateCursor DEF Retry, CanIntervene

LEMMA RevertEffect ==
    ASSUME TypeInv, NEW j \in 1..Len(db.jobs), Revert(j)
    PROVE  /\ ~page.open /\ page' = page /\ feed' = feed /\ work' = db'
           /\ ~RevertRefused(db, j)
           /\ audit' = Append(audit, [action |-> "revert", job |-> j,
                          moved |-> \E k \in Keys : Reverted(db, j, k) # {}])
           /\ db'.cursor = db.cursor
           /\ Len(db'.jobs) = Len(db.jobs) + 1
           /\ \A i \in 1..Len(db.jobs) : db'.jobs[i] = db.jobs[i]
           /\ db'.jobs[Len(db.jobs) + 1] = [status |-> "revert", before |-> 0]
           /\ db'.snapshots = {RevertSnapshot(db, j, s) : s \in db.snapshots}
           /\ \A k \in Keys : db'.canonical[k] = RevertRow(db, j, k)
           /\ db'.quarantine = db.quarantine /\ db'.issues = db.issues
<1>1. db \in Tables /\ j \in Nat
  BY TableFields DEF TypeInv, TypeOK
<1>2. db' = Undone(db, j) /\ work' = db'
  BY DEF Revert, Commit
<1>3. /\ Len(db'.jobs) = Len(db.jobs) + 1
      /\ \A i \in 1..Len(db.jobs) : db'.jobs[i] = db.jobs[i]
      /\ db'.jobs[Len(db.jobs) + 1] = [status |-> "revert", before |-> 0]
      /\ db'.snapshots = {RevertSnapshot(db, j, s) : s \in db.snapshots}
      /\ db'.canonical = [k \in Keys |-> RevertRow(db, j, k)]
      /\ db'.cursor = db.cursor
      /\ db'.quarantine = db.quarantine /\ db'.issues = db.issues
  BY <1>1, <1>2, RevertFields
<1>4. \A k \in Keys : db'.canonical[k] = RevertRow(db, j, k)
  BY <1>3
<1> QED
  BY <1>2, <1>3, <1>4 DEF Revert, CanIntervene

-----------------------------------------------------------------------------
(* Enrollments resolve.                                                    *)

HasRow(d, k) == d.canonical[k].event # 0

RowsResolve(d) == \A e \in Enrollments : HasRow(d, e) => HasRow(d, StudentOf[e])

\* A row is written with the key's first snapshot and is never deleted.
Rowed(d) == \A s \in d.snapshots : HasRow(d, s.key)

\* Layer 4's walking set holds students the open transaction has a row for.
ResolveInv ==
    /\ RowsResolve(db) /\ Rowed(db)
    /\ RowsResolve(work) /\ Rowed(work)
    /\ \A k \in Keys : HasRow(db, k) => HasRow(work, k)
    /\ page.open => \A s \in page.known : HasRow(work, s)

LEMMA ResolveStep ==
    ASSUME TypeInv, ResolveInv, [Next]_vars
    PROVE  ResolveInv' /\ \A k \in Keys : HasRow(db, k) => HasRow(db', k)
<1>a. StudentOf \in [Enrollments -> Students] /\ Students \cap Enrollments = {}
      /\ Keys = Students \cup Enrollments
  BY ConstantsAssumption DEF Keys
<1>b. db \in Tables /\ work \in Tables /\ page \in Page
  BY StepTypes
\* Steps that change neither the rows nor the snapshots.
<1>c. ASSUME db' = db, work'.canonical = work.canonical, work'.snapshots = work.snapshots,
             page'.open => \A s \in page'.known : HasRow(work, s)
      PROVE  ResolveInv' /\ \A k \in Keys : HasRow(db, k) => HasRow(db', k)
  BY <1>c DEF ResolveInv, RowsResolve, Rowed, HasRow
\* Steps between pages.
<1>d. ASSUME ~page'.open, work' = db', RowsResolve(db'), Rowed(db'),
             \A k \in Keys : HasRow(db, k) => HasRow(db', k)
      PROVE  ResolveInv' /\ \A k \in Keys : HasRow(db, k) => HasRow(db', k)
  BY <1>d DEF ResolveInv, RowsResolve, Rowed, HasRow
<1>e. ASSUME ~page'.open, work' = db', db'.canonical = db.canonical,
             db'.snapshots = db.snapshots
      PROVE  ResolveInv' /\ \A k \in Keys : HasRow(db, k) => HasRow(db', k)
  BY <1>e DEF ResolveInv, RowsResolve, Rowed, HasRow
<1>1. CASE \E e \in Event : Publish(e)
  <2>1. db' = db /\ work' = work /\ page' = page
    BY <1>1 DEF Publish
  <2> QED
    BY <1>c, <2>1 DEF ResolveInv
<1>2. CASE Poll
  <2>1. /\ db' = db /\ page'.known = KnownStudents(db)
        /\ work'.snapshots = db.snapshots /\ work'.canonical = db.canonical
    BY <1>2, PollEffect
  <2>2. \A s \in page'.known : HasRow(work', s)
    BY <2>1 DEF KnownStudents, HasRow
  <2> QED
    BY <2>1, <2>2 DEF ResolveInv, RowsResolve, Rowed, HasRow
<1>3. CASE BlockPage
  BY <1>e, <1>3, BlockPageEffect
<1>4. ASSUME NEW p \in 1..Len(feed), SkipEvent(p)
      PROVE  ResolveInv' /\ \A k \in Keys : HasRow(db, k) => HasRow(db', k)
  <2>1. /\ Pending(p) /\ Advance(feed[p]) /\ feed[p].kind # "ok" /\ db' = db
        /\ work'.snapshots = work.snapshots /\ work'.canonical = work.canonical
    BY <1>4, SkipEffect
  <2>2. page.open /\ page'.known = page.known
    BY <2>1, AdvanceEffect DEF Pending
  <2> QED
    BY <1>c, <2>1, <2>2 DEF ResolveInv
<1>5. ASSUME NEW p \in 1..Len(feed), QuarantineEvent(p)
      PROVE  ResolveInv' /\ \A k \in Keys : HasRow(db, k) => HasRow(db', k)
  <2>1. /\ Pending(p) /\ Advance(feed[p]) /\ ~Resolves(feed[p]) /\ db' = db
        /\ work'.snapshots = work.snapshots /\ work'.canonical = work.canonical
    BY <1>5, QuarantineEffect
  <2>2. feed[p].key \notin Students
    BY <1>a, <2>1 DEF Resolves
  <2>3. page.open /\ page'.known = page.known
    BY <2>1, <2>2, AdvanceEffect DEF Pending
  <2> QED
    BY <1>c, <2>1, <2>3 DEF ResolveInv
<1>6. ASSUME NEW p \in 1..Len(feed), DedupEvent(p)
      PROVE  ResolveInv' /\ \A k \in Keys : HasRow(db, k) => HasRow(db', k)
  <2>1. Pending(p) /\ Advance(feed[p]) /\ feed[p].key \in Keys
    BY <1>6, PendingTypes DEF DedupEvent, Event
  <2>2. HasRow(work, feed[p].key)
    BY <1>6 DEF DedupEvent, AlreadyApplied, Live, ResolveInv, Rowed
  <2>3. db' = db /\ work' = work
    BY <1>6 DEF DedupEvent
  <2>4. page.open /\ page'.known \subseteq page.known \cup {feed[p].key}
    BY <2>1, AdvanceEffect DEF Pending
  <2> QED
    BY <1>c, <2>2, <2>3, <2>4 DEF ResolveInv
<1>7. ASSUME NEW p \in 1..Len(feed), WriteEvent(p)
      PROVE  ResolveInv' /\ \A k \in Keys : HasRow(db, k) => HasRow(db', k)
  <2>0. /\ page.open /\ page'.open /\ db' = db
        /\ p # 0 /\ feed[p].key \in Keys /\ Resolves(feed[p])
        /\ page'.known \subseteq page.known \cup {feed[p].key}
    BY <1>7, WriteEffect, AdvanceEffect DEF Pending
  <2>1. \A k \in Keys :
           work'.canonical[k].event = IF k = feed[p].key THEN p
                                      ELSE work.canonical[k].event
    <3> TAKE k \in Keys
    <3> DEFINE row == [event |-> p, deleted |-> feed[p].op = "deleted"]
    <3>1. row.event = p
      OBVIOUS
    <3>2. work'.canonical[k] = IF k = feed[p].key THEN row ELSE work.canonical[k]
      BY <1>7, WriteEffect
    <3> HIDE DEF row
    <3> QED
      BY <3>1, <3>2
  <2>2. \A k \in Keys : HasRow(work', k) <=> k = feed[p].key \/ HasRow(work, k)
    BY <2>0, <2>1 DEF HasRow
  <2>3. \A s \in page.known : HasRow(work, s) /\ s \in Students
    BY <1>b, <2>0 DEF ResolveInv, Page
  <2>4. RowsResolve(work) /\ Rowed(work)
    BY DEF ResolveInv
  <2>5. RowsResolve(work')
    <3> SUFFICES ASSUME NEW e \in Enrollments, HasRow(work', e)
                 PROVE  HasRow(work', StudentOf[e])
      BY DEF RowsResolve
    <3>1. e \in Keys /\ StudentOf[e] \in Keys
      BY <1>a
    <3>2. CASE e = feed[p].key
      BY <2>0, <2>2, <2>3, <3>1, <3>2 DEF Resolves
    <3>3. CASE e # feed[p].key
      BY <2>2, <2>4, <3>1, <3>3 DEF RowsResolve
    <3> QED
      BY <3>2, <3>3
  <2>6. Rowed(work')
    <3>1. ASSUME NEW s \in work'.snapshots
          PROVE  s.key = feed[p].key \/ \E t \in work.snapshots : t.key = s.key
      <4>1. /\ work'.snapshots = MarkSuperseded(work.snapshots, feed[p].key, CurrentJob)
                   \cup {[key |-> feed[p].key, gen |-> CurrentJob, event |-> p,
                          deleted |-> feed[p].op = "deleted", sup |-> 0]}
            /\ work.snapshots \subseteq Snapshot
        BY <1>7, <1>b, WriteEffect, TableFields
      <4>2. CASE s \in MarkSuperseded(work.snapshots, feed[p].key, CurrentJob)
        BY <4>1, <4>2 DEF MarkSuperseded, Snapshot
      <4> QED
        BY <4>1, <4>2
    <3>2. \A t \in work.snapshots : t.key \in Keys
      BY <1>b, SnapshotFields
    <3> QED
      BY <2>0, <2>2, <2>4, <3>1, <3>2 DEF Rowed
  <2>7. \A s \in page'.known : HasRow(work', s)
    BY <1>a, <2>0, <2>2, <2>3
  <2>8. \A k \in Keys : HasRow(db', k) => HasRow(work', k)
    BY <2>0, <2>2 DEF ResolveInv
  <2>9. RowsResolve(db') /\ Rowed(db')
    BY <2>0 DEF ResolveInv
  <2> QED
    BY <2>0, <2>5, <2>6, <2>7, <2>8, <2>9 DEF ResolveInv, RowsResolve, Rowed, HasRow
<1>8. CASE CommitPage
  <2>1. /\ ~page'.open /\ work' = db'
        /\ db'.snapshots = work.snapshots /\ db'.canonical = work.canonical
    BY <1>8, CommitEffect
  <2>2. RowsResolve(db') /\ Rowed(db')
    BY <2>1 DEF ResolveInv, RowsResolve, Rowed, HasRow
  <2>3. \A k \in Keys : HasRow(db, k) => HasRow(db', k)
    BY <2>1 DEF ResolveInv, HasRow
  <2> QED
    BY <1>d, <2>1, <2>2, <2>3
<1>9. CASE Crash
  BY <1>9, <1>e DEF Crash, NoPage
<1>10. ASSUME NEW j \in 1..Len(db.jobs), NEW forced \in BOOLEAN, Retry(j, forced)
       PROVE  ResolveInv' /\ \A k \in Keys : HasRow(db, k) => HasRow(db', k)
  BY <1>e, <1>10, RetryEffect
<1>11. ASSUME NEW j \in 1..Len(db.jobs), Revert(j)
       PROVE  ResolveInv' /\ \A k \in Keys : HasRow(db, k) => HasRow(db', k)
  <2>1. /\ ~page'.open /\ work' = db'
        /\ db'.snapshots = {RevertSnapshot(db, j, s) : s \in db.snapshots}
        /\ \A k \in Keys : db'.canonical[k] = RevertRow(db, j, k)
    BY <1>11, RevertEffect
  <2>2. RowsResolve(db) /\ Rowed(db)
    BY DEF ResolveInv
  <2>3. \A k \in Keys : HasRow(db', k) <=> HasRow(db, k)
    <3> SUFFICES ASSUME NEW k \in Keys
                 PROVE  RevertRow(db, j, k).event # 0 <=> db.canonical[k].event # 0
      BY <2>1 DEF HasRow
    <3>1. CASE Reverted(db, j, k) = {}
      BY <3>1 DEF RevertRow
    <3>2. CASE Reverted(db, j, k) # {} /\ Prior(db, j, k) = {}
      BY <1>b, <3>2, TableFields DEF RevertRow, CanonicalRow
    <3>3. CASE Reverted(db, j, k) # {} /\ Prior(db, j, k) # {}
      <4> DEFINE q == CHOOSE s \in Prior(db, j, k) : TRUE
      <4>1. q \in Prior(db, j, k)
        BY <3>3
      <4>2. q.event # 0
        BY <1>b, <4>1, SnapshotFields, PriorFacts
      <4>3. RevertRow(db, j, k).event = q.event
        BY <3>3 DEF RevertRow
      <4>4. HasRow(db, k)
        BY <2>2, <3>3 DEF Reverted, Live, Rowed
      <4> QED
        BY <4>2, <4>3, <4>4 DEF HasRow
    <3> QED
      BY <3>1, <3>2, <3>3
  <2>4. RowsResolve(db')
    BY <1>a, <2>2, <2>3 DEF RowsResolve
  <2>5. Rowed(db')
    <3>1. ASSUME NEW s \in db.snapshots
          PROVE  RevertSnapshot(db, j, s).key = s.key /\ s.key \in Keys
      BY <1>b, TableFields DEF RevertSnapshot, Snapshot
    <3> QED
      BY <2>1, <2>2, <2>3, <3>1 DEF Rowed
  <2> QED
    BY <1>d, <2>1, <2>3, <2>4, <2>5
<1>12. CASE UNCHANGED vars
  <2>1. db' = db /\ work' = work /\ page' = page
    BY <1>12 DEF vars
  <2> QED
    BY <1>c, <2>1 DEF ResolveInv
<1> QED
  BY <1>1, <1>2, <1>3, <1>4, <1>5, <1>6, <1>7, <1>8, <1>9, <1>10, <1>11, <1>12
     DEF Next, Worker, ProcessEvent, Operator

LEMMA ResolveInit == Init => ResolveInv
BY DEF Init, NoPage, EmptyTables, NoRow, ResolveInv, RowsResolve, Rowed, HasRow, Keys

LEMMA ResolveHolds == ResolveInv => EnrollmentsResolve
BY DEF ResolveInv, RowsResolve, HasRow, EnrollmentsResolve

\* The sync worker and the revert service never leave an enrollment row whose
\* student has no row: Layer 4 resolves only against rows the transaction has.
THEOREM ResolveCorrect == Spec => []EnrollmentsResolve
<1>1. TypeInv /\ ResolveInv /\ [Next]_vars => ResolveInv'
  BY ResolveStep
<1> QED
  BY <1>1, ResolveInit, ResolveHolds, TypeInit, TypeStep, PTL DEF Spec

-----------------------------------------------------------------------------
(* Rolling back the newer sync first is a way out.                         *)

LEMMA TopIsFree == TypeInv /\ LineageInvariant => RollbackFromTheTop
<1> SUFFICES ASSUME TypeInv, LineageInvariant, NEW j \in 1..Len(db.jobs),
                    \A s \in db.snapshots :
                       (s.gen = j => s.sup # j) /\ (s.sup = 0 => s.gen <= j),
                    NEW s \in db.snapshots,
                    s.gen = j, s.sup # 0, db.jobs[s.sup].status # "revert"
             PROVE  FALSE
  BY DEF RollbackFromTheTop, RevertRefused
<1>1. db \in Tables /\ LineageInv(db)
  BY DEF TypeInv, TypeOK, LineageInvariant
<1>2. /\ s.key \in Keys /\ s \in Lineage(db, s.key)
      /\ s.event \in Nat /\ s.gen \in Nat /\ s.sup \in Nat
  BY <1>1, SnapshotFields DEF Lineage, InLineage
<1>3. j < s.sup
  <2>1. s.gen <= s.sup /\ s.sup # j
    BY <1>1 DEF LineageInv, JobsKnown
  <2> QED
    BY <1>2, <2>1
<1>4. PICK t \in Live(db, s.key) : s.event <= t.event
  BY <1>1, <1>2 DEF LineageInv, LineageLive
<1>5. /\ t \in db.snapshots /\ t.sup = 0 /\ t \in Lineage(db, s.key)
      /\ t.event \in Nat /\ t.gen \in Nat
  BY <1>1, <1>4, SnapshotFields DEF Live, Lineage, InLineage
<1>6. s.event < t.event
  <2>1. s.event = t.event => s = t
    BY <1>1, <1>2, <1>5 DEF LineageInv, LineageOrdered
  <2> QED
    BY <1>2, <1>4, <1>5, <2>1
<1>7. s.sup <= t.gen
  BY <1>1, <1>2, <1>5, <1>6 DEF LineageInv, LineageOrdered
<1> QED
  BY <1>2, <1>3, <1>5, <1>7

\* RevertService does not refuse a job for ever over what later syncs did:
\* when their snapshots are out, the chains of the keys are such that nothing
\* is left for the join to find, except a row the job superseded itself.
THEOREM RollbackCorrect == Spec => []RollbackFromTheTop
BY LineageCorrect, TopIsFree, PTL

-----------------------------------------------------------------------------
(* No event is lost.                                                       *)

AccountedTo(d, n) == n <= Len(feed) /\ \A p \in 1..n : Accounted(d, p)

\* Every cursor a retry may go back to is accounted for,
JobsAccounted(d) == \A j \in 1..Len(d.jobs) : AccountedTo(d, d.jobs[j].before)

\* and so is the part of the page the open transaction has walked.
PageAccounted(d, g) ==
    /\ g.next \in 1..(g.to + 1)
    /\ g.to <= Len(feed)
    /\ AccountedTo(d, g.next - 1)
    /\ JobsAccounted(d)

NoLossInv ==
    /\ AccountedTo(db, db.cursor)
    /\ JobsAccounted(db)
    /\ page.open => PageAccounted(work, page)

\* u holds all that d accounts for events with.
Covers(d, u) ==
    /\ \A s \in d.snapshots : \E t \in u.snapshots : t.key = s.key /\ t.event = s.event
    /\ d.quarantine \subseteq u.quarantine
    /\ d.issues \subseteq u.issues
    /\ Len(d.jobs) <= Len(u.jobs)

\* What accounts for an event, by its kind.
LEMMA AccountedKinds ==
    ASSUME NEW d, NEW p
    PROVE  /\ feed[p].kind = "unmapped" => Accounted(d, p)
           /\ feed[p].kind \in {"schema", "parse"} =>
                 (Accounted(d, p) <=> \E j \in 1..Len(d.jobs) : <<p, j>> \in d.issues)
           /\ feed[p].kind = "ok" =>
                 (Accounted(d, p) <=>
                     \/ \E s \in d.snapshots : s.key = feed[p].key /\ p <= s.event
                     \/ \E q \in d.quarantine : q.event = p)
BY DEF Accounted

LEMMA AccountedKept ==
    ASSUME NEW d \in Tables, NEW u \in Tables, Covers(d, u)
    PROVE  /\ \A p : Accounted(d, p) => Accounted(u, p)
           /\ \A n : AccountedTo(d, n) => AccountedTo(u, n)
<1>0. Len(d.jobs) \in Nat /\ Len(u.jobs) \in Nat
  BY TableFields
<1>1. ASSUME NEW p, Accounted(d, p) PROVE Accounted(u, p)
  <2>1. CASE feed[p].kind = "ok"
    <3>1. CASE \E s \in d.snapshots : s.key = feed[p].key /\ p <= s.event
      BY <2>1, <3>1 DEF Accounted, Covers
    <3>2. CASE \E q \in d.quarantine : q.event = p
      BY <2>1, <3>2 DEF Accounted, Covers
    <3> QED
      BY <1>1, <2>1, <3>1, <3>2 DEF Accounted
  <2>2. CASE feed[p].kind \in {"schema", "parse"}
    <3>1. PICK j \in 1..Len(d.jobs) : <<p, j>> \in d.issues
      BY <1>1, <2>2 DEF Accounted
    <3>2. j \in 1..Len(u.jobs) /\ <<p, j>> \in u.issues
      BY <1>0, <3>1 DEF Covers
    <3> QED
      BY <2>2, <3>2 DEF Accounted
  <2>3. CASE feed[p].kind \notin {"ok", "schema", "parse"}
    BY <1>1, <2>3 DEF Accounted
  <2> QED
    BY <2>1, <2>2, <2>3
<1> QED
  BY <1>1 DEF AccountedTo

\* The same over a feed of its own: publishing moves no event that is
\* already there.
AccountedIn(f, d, n) ==
    /\ n <= Len(f)
    /\ \A p \in 1..n :
          CASE f[p].kind = "ok" ->
                  \/ \E s \in d.snapshots : s.key = f[p].key /\ p <= s.event
                  \/ \E q \in d.quarantine : q.event = p
            [] f[p].kind \in {"schema", "parse"} ->
                  \E j \in 1..Len(d.jobs) : <<p, j>> \in d.issues
            [] OTHER -> f[p].kind = "unmapped"

LEMMA FeedGrows ==
    ASSUME NEW f \in Seq(Event), NEW e \in Event, NEW d, NEW n \in Nat,
           AccountedIn(f, d, n)
    PROVE  AccountedIn(Append(f, e), d, n)
<1> DEFINE g == Append(f, e)
<1>1. /\ Len(f) \in Nat /\ Len(g) = Len(f) + 1
      /\ \A p \in 1..Len(f) : g[p] = f[p]
  BY LenProperties, AppendProperties
<1> HIDE DEF g
<1>2. n <= Len(g) /\ \A p \in 1..n : g[p] = f[p]
  BY <1>1 DEF AccountedIn
<1>3. AccountedIn(g, d, n)
  BY <1>2 DEF AccountedIn
<1> QED
  BY <1>3 DEF g

\* An event the open transaction has dealt with is accounted for in it.
LEMMA WalkedAccounted ==
    ASSUME TypeInv, NEW p \in 1..Len(feed),
           SkipEvent(p) \/ QuarantineEvent(p) \/ DedupEvent(p) \/ WriteEvent(p)
    PROVE  Accounted(work', p) /\ Covers(work, work') /\ work'.jobs = work.jobs
<1>0. /\ Pending(p) /\ p \in Nat /\ work \in Tables
      /\ CurrentJob \in 1..Len(work.jobs) /\ Len(work.jobs) \in Nat
  <2>1. Pending(p)
    BY DEF SkipEvent, QuarantineEvent, DedupEvent, WriteEvent
  <2> QED
    BY <2>1, PendingTypes, TableFields
<1>1. CASE SkipEvent(p)
  <2>0. work'.jobs = work.jobs
    BY <1>1, SkipEffect
  <2>1. feed[p].kind = "unmapped" => Accounted(work', p)
    BY AccountedKinds
  <2>2. feed[p].kind \in {"schema", "parse"} /\ <<p, CurrentJob>> \in work'.issues
        => Accounted(work', p)
    BY <1>0, <2>0, AccountedKinds
  <2>3. /\ work'.snapshots = work.snapshots /\ work'.quarantine = work.quarantine
        /\ work.issues \subseteq work'.issues
    BY <1>1, SkipEffect
  <2>4. Covers(work, work')
    BY <1>0, <2>0, <2>3 DEF Covers
  <2> QED
    BY <1>1, <2>0, <2>1, <2>2, <2>4, SkipEffect
<1>2. CASE QuarantineEvent(p)
  BY <1>0, <1>2, QuarantineEffect DEF Accounted, Covers
<1>3. CASE DedupEvent(p)
  <2>1. work' = work /\ feed[p].kind = "ok" /\ AlreadyApplied(work, p)
    BY <1>3 DEF DedupEvent
  <2> QED
    BY <1>0, <2>1 DEF AlreadyApplied, Live, Accounted, Covers
<1>4. CASE WriteEvent(p)
  <2> DEFINE row == [key |-> feed[p].key, gen |-> CurrentJob, event |-> p,
                     deleted |-> feed[p].op = "deleted", sup |-> 0]
             old == MarkSuperseded(work.snapshots, feed[p].key, CurrentJob)
  <2>1. row.key = feed[p].key /\ row.event = p
    OBVIOUS
  <2>2. /\ work'.snapshots = old \cup {row} /\ work'.jobs = work.jobs
        /\ work'.quarantine = work.quarantine /\ work'.issues = work.issues
        /\ feed[p].kind = "ok"
    BY <1>4, WriteEffect
  <2>3. \A s \in work.snapshots : \E t \in old : t.key = s.key /\ t.event = s.event
    <3> TAKE s \in work.snapshots
    <3> DEFINE t == IF s.key = feed[p].key /\ s.sup = 0
                    THEN [s EXCEPT !.sup = CurrentJob] ELSE s
    <3>1. t.key = s.key /\ t.event = s.event
      BY <1>0, SnapshotFields, SetSup
    <3>2. t \in old
      BY DEF MarkSuperseded
    <3> QED
      BY <3>1, <3>2
  <2> HIDE DEF row, old
  <2>4. Covers(work, work')
    BY <1>0, <2>2, <2>3 DEF Covers
  <2>5. Accounted(work', p)
    BY <1>0, <2>1, <2>2 DEF Accounted
  <2> QED
    BY <2>2, <2>4, <2>5
<1> QED
  BY <1>1, <1>2, <1>3, <1>4

LEMMA NoLossStep ==
    TypeInv /\ NoLossInv /\ [Next]_vars => NoLossInv'
<1> SUFFICES ASSUME TypeInv, NoLossInv, [Next]_vars
             PROVE  NoLossInv'
  OBVIOUS
<1>a. /\ db \in Tables /\ work \in Tables /\ db' \in Tables /\ work' \in Tables
      /\ page \in Page /\ Len(feed) \in Nat
      /\ Len(db.jobs) \in Nat /\ Len(work.jobs) \in Nat
      /\ db.cursor \in Nat
  BY StepTypes, TableFields
<1>b. /\ \A j \in 1..Len(db.jobs) : db.jobs[j].before \in Nat
      /\ \A j \in 1..Len(work.jobs) : work.jobs[j].before \in Nat
  <2>1. ASSUME NEW d \in Tables, NEW j \in 1..Len(d.jobs)
        PROVE  d.jobs[j].before \in Nat
    <3>1. d.jobs \in Seq(Job)
      BY TableFields
    <3>2. d.jobs[j] \in Job
      BY <3>1, ElementOfSeq
    <3> QED
      BY <3>2 DEF Job
  <2> QED
    BY <1>a, <2>1
<1>c. /\ AccountedTo(db, db.cursor) /\ JobsAccounted(db)
      /\ page.open => PageAccounted(work, page)
  BY DEF NoLossInv
<1>d. SUFFICES ASSUME feed' = feed
               PROVE  /\ AccountedTo(db', db'.cursor) /\ JobsAccounted(db')
                      /\ page'.open => PageAccounted(work', page')
  <2>1. CASE feed' = feed
    BY <1>d, <2>1 DEF NoLossInv, JobsAccounted, PageAccounted, AccountedTo, Accounted
  <2>2. ASSUME NEW e \in Event, Publish(e) PROVE NoLossInv'
    <3>1. /\ db' = db /\ work' = work /\ page' = page
          /\ feed' = Append(feed, e)
      BY <2>2 DEF Publish
    <3>2. \A d : \A n \in Nat : AccountedTo(d, n) => AccountedIn(feed', d, n)
      <4>1. \A d, n : AccountedTo(d, n) <=> AccountedIn(feed, d, n)
        BY DEF AccountedTo, Accounted, AccountedIn
      <4> QED
        BY <3>1, <4>1, StepTypes, FeedGrows
    <3>3. AccountedTo(db, db.cursor)'
      <4>1. AccountedIn(feed', db, db.cursor)
        BY <1>a, <1>c, <3>2
      <4>2. AccountedIn(feed', db, db.cursor) = AccountedTo(db, db.cursor)'
        BY <3>1 DEF AccountedTo, Accounted, AccountedIn
      <4> QED
        BY <4>1, <4>2
    <3>4. JobsAccounted(db)'
      <4>1. \A j \in 1..Len(db.jobs) : AccountedIn(feed', db, db.jobs[j].before)
        BY <1>b, <1>c, <3>2 DEF JobsAccounted
      <4>2. (\A j \in 1..Len(db.jobs) : AccountedIn(feed', db, db.jobs[j].before))
            = JobsAccounted(db)'
        BY <3>1 DEF JobsAccounted, AccountedTo, Accounted, AccountedIn
      <4> QED
        BY <4>1, <4>2
    <3>5. page.open => PageAccounted(work, page)'
      <4> SUFFICES ASSUME page.open PROVE PageAccounted(work, page)'
        OBVIOUS
      <4>1. /\ \A j \in 1..Len(work.jobs) :
                  AccountedIn(feed', work, work.jobs[j].before)
            /\ AccountedIn(feed', work, page.next - 1)
        BY <1>a, <1>b, <1>c, <3>2 DEF JobsAccounted, PageAccounted, Page
      <4>2. page.next \in 1..(page.to + 1) /\ page.to <= Len(feed')
        BY <1>a, <1>c, <3>1, AppendProperties, StepTypes DEF PageAccounted, Page
      <4>3. (\A j \in 1..Len(work.jobs) :
                AccountedIn(feed', work, work.jobs[j].before))
            = JobsAccounted(work)'
        BY <3>1 DEF JobsAccounted, AccountedTo, Accounted, AccountedIn
      <4>4. AccountedIn(feed', work, page.next - 1) = AccountedTo(work, page.next - 1)'
        BY <3>1 DEF AccountedTo, Accounted, AccountedIn
      <4>5. JobsAccounted(work)' /\ AccountedTo(work, page.next - 1)'
        BY <4>1, <4>3, <4>4
      <4> QED
        BY <3>1, <4>2, <4>5 DEF PageAccounted
    <3> QED
      BY <3>1, <3>3, <3>4, <3>5 DEF NoLossInv
  <2>3. UNCHANGED feed \/ \E e \in Event : Publish(e)
    BY DEF Next, Worker, ProcessEvent, Operator, vars, Poll, SkipEvent,
       QuarantineEvent, DedupEvent, WriteEvent, CommitPage, BlockPage, Crash,
       Retry, Revert
  <2> QED
    BY <2>1, <2>2, <2>3
<1>e. \A d, u : d \in Tables /\ u \in Tables /\ Covers(d, u) =>
         \A n : AccountedTo(d, n) => AccountedTo(u, n)
  BY AccountedKept
<1>f. \A d \in Tables : \A u \in Tables :
         /\ JobsAccounted(d) /\ Covers(d, u) /\ Len(u.jobs) = Len(d.jobs)
         /\ \A j \in 1..Len(d.jobs) : u.jobs[j].before = d.jobs[j].before
         => JobsAccounted(u)
  BY <1>e DEF JobsAccounted
\* ... with one job more, whose cursor_before is accounted for.
<1>g. \A d \in Tables : \A u \in Tables :
         /\ JobsAccounted(d) /\ Covers(d, u) /\ Len(u.jobs) = Len(d.jobs) + 1
         /\ \A j \in 1..Len(d.jobs) : u.jobs[j] = d.jobs[j]
         /\ AccountedTo(d, u.jobs[Len(d.jobs) + 1].before)
         => JobsAccounted(u)
  <2> SUFFICES ASSUME NEW d \in Tables, NEW u \in Tables,
                      JobsAccounted(d), Covers(d, u), Len(u.jobs) = Len(d.jobs) + 1,
                      \A j \in 1..Len(d.jobs) : u.jobs[j] = d.jobs[j],
                      AccountedTo(d, u.jobs[Len(d.jobs) + 1].before),
                      NEW j \in 1..Len(u.jobs)
               PROVE  AccountedTo(u, u.jobs[j].before)
    BY DEF JobsAccounted
  <2>1. j \in 1..Len(d.jobs) \/ j = Len(d.jobs) + 1
    BY TableFields
  <2>2. AccountedTo(d, u.jobs[j].before)
    BY <2>1 DEF JobsAccounted
  <2> QED
    BY <1>e, <2>2
<1>2. CASE Poll
  <2>1. /\ db' = db /\ page'.next = db.cursor + 1 /\ page'.to = PageEnd
        /\ Len(work'.jobs) = Len(db.jobs) + 1
        /\ \A i \in 1..Len(db.jobs) : work'.jobs[i] = db.jobs[i]
        /\ work'.jobs[Len(db.jobs) + 1].before = db.cursor
    BY <1>2, PollEffect
  <2>2. Covers(db, work')
    BY <1>a, <1>2, PollEffect DEF Covers
  <2>3. JobsAccounted(work')
    BY <1>a, <1>c, <1>g, <2>1, <2>2
  <2>4. AccountedTo(work', db.cursor)
    BY <1>a, <1>c, <1>e, <2>2
  <2>5. db.cursor <= Len(feed)
    BY <1>c DEF AccountedTo
  <2>6. PageEnd \in Nat /\ db.cursor <= PageEnd /\ PageEnd <= Len(feed)
    BY <1>a, <2>5, ConstantsAssumption DEF PageEnd
  <2>7. /\ page'.next \in 1..(page'.to + 1) /\ page'.to <= Len(feed)
        /\ page'.next - 1 = db.cursor
    <3>1. /\ db.cursor + 1 \in 1..(PageEnd + 1)
          /\ (db.cursor + 1) - 1 = db.cursor
      BY <1>a, <2>6
    <3> QED
      BY <2>1, <2>6, <3>1
  <2> QED
    BY <1>c, <2>1, <2>3, <2>4, <2>7 DEF PageAccounted
<1>3. CASE BlockPage
  <2>1. /\ ~page.open /\ page' = page /\ db'.cursor = db.cursor
        /\ Len(db'.jobs) = Len(db.jobs) + 1
        /\ \A i \in 1..Len(db.jobs) : db'.jobs[i] = db.jobs[i]
        /\ db'.jobs[Len(db.jobs) + 1].before = db.cursor
    BY <1>3, BlockPageEffect
  <2>2. Covers(db, db')
    BY <1>a, <1>3, BlockPageEffect DEF Covers
  <2>3. JobsAccounted(db')
    BY <1>a, <1>c, <1>g, <2>1, <2>2
  <2> QED
    BY <1>a, <1>c, <1>e, <2>1, <2>2, <2>3
<1>4. ASSUME NEW p \in 1..Len(feed),
             SkipEvent(p) \/ QuarantineEvent(p) \/ DedupEvent(p) \/ WriteEvent(p)
      PROVE  /\ AccountedTo(db', db'.cursor) /\ JobsAccounted(db')
             /\ page'.open => PageAccounted(work', page')
  <2>1. db' = db /\ Pending(p) /\ Advance(feed[p])
    BY <1>4 DEF SkipEvent, QuarantineEvent, DedupEvent, WriteEvent
  <2>2. Accounted(work', p) /\ Covers(work, work') /\ work'.jobs = work.jobs
    BY <1>4, WalkedAccounted
  <2>3. /\ page.open /\ page'.to = page.to
        /\ page.next = p /\ page'.next = p + 1 /\ p <= page.to
    BY <2>1, AdvanceEffect DEF Pending
  <2>4. JobsAccounted(work')
    BY <1>a, <1>c, <1>f, <2>2, <2>3 DEF PageAccounted
  <2>5. AccountedTo(work', p - 1)
    BY <1>a, <1>c, <1>e, <2>2, <2>3 DEF PageAccounted
  <2>6. AccountedTo(work', p)
    <3>1. \A q \in 1..p : q \in 1..(p - 1) \/ q = p
      BY <1>a
    <3> QED
      BY <1>a, <2>2, <2>5, <3>1 DEF AccountedTo
  <2>7. page'.next \in 1..(page'.to + 1) /\ page'.next - 1 = p /\ page'.to <= Len(feed)
    BY <1>a, <1>c, <2>3 DEF PageAccounted, Page
  <2> QED
    BY <1>c, <2>1, <2>4, <2>6, <2>7 DEF PageAccounted
<1>5. CASE CommitPage
  <2>1. /\ page.open /\ ~page'.open /\ page.next = page.to + 1
        /\ db'.cursor = page.to /\ Len(db'.jobs) = Len(work.jobs)
        /\ \A i \in 1..Len(work.jobs) : db'.jobs[i].before = work.jobs[i].before
    BY <1>5, CommitEffect
  <2>2. Covers(work, db')
    BY <1>a, <1>5, CommitEffect DEF Covers
  <2>3. JobsAccounted(work) /\ AccountedTo(work, page.next - 1)
    BY <1>c, <2>1 DEF PageAccounted
  <2>4. page.next - 1 = page.to
    BY <1>a, <2>1 DEF Page
  <2> QED
    BY <1>a, <1>e, <1>f, <2>1, <2>2, <2>3, <2>4
<1>6. CASE Crash
  BY <1>c, <1>6 DEF Crash, NoPage
<1>7. ASSUME NEW j \in 1..Len(db.jobs), NEW forced \in BOOLEAN, Retry(j, forced)
      PROVE  /\ AccountedTo(db', db'.cursor) /\ JobsAccounted(db')
             /\ page'.open => PageAccounted(work', page')
  <2>1. /\ ~page.open /\ page' = page
        /\ db'.cursor \in {db.cursor, db.jobs[j].before} /\ db'.jobs = db.jobs
    BY <1>7, RetryEffect
  <2>a. /\ db'.snapshots = db.snapshots
        /\ db'.quarantine = db.quarantine /\ db'.issues = db.issues
    BY <1>7, RetryEffect
  <2>2. Covers(db, db')
    BY <1>a, <2>1, <2>a DEF Covers
  <2>3. AccountedTo(db, db'.cursor)
    BY <1>c, <2>1 DEF JobsAccounted
  <2> QED
    BY <1>a, <1>c, <1>e, <1>f, <2>1, <2>2, <2>3
<1>8. ASSUME NEW j \in 1..Len(db.jobs), Revert(j)
      PROVE  /\ AccountedTo(db', db'.cursor) /\ JobsAccounted(db')
             /\ page'.open => PageAccounted(work', page')
  <2>1. /\ ~page.open /\ page' = page /\ db'.cursor = db.cursor
        /\ Len(db'.jobs) = Len(db.jobs) + 1
        /\ \A i \in 1..Len(db.jobs) : db'.jobs[i] = db.jobs[i]
        /\ db'.snapshots = {RevertSnapshot(db, j, s) : s \in db.snapshots}
    BY <1>8, RevertEffect
  <2>2. db'.jobs[Len(db.jobs) + 1].before = 0
    <3>1. db'.jobs[Len(db.jobs) + 1] = [status |-> "revert", before |-> 0]
      BY <1>8, RevertEffect
    <3> QED
      BY <3>1
  <2>3. \A s \in db.snapshots :
           /\ RevertSnapshot(db, j, s).key = s.key
           /\ RevertSnapshot(db, j, s).event = s.event
    BY <1>a, SnapshotFields, SetSup DEF RevertSnapshot
  <2>4. db.quarantine \subseteq db'.quarantine /\ db.issues \subseteq db'.issues
    BY <1>8, RevertEffect
  <2>5. Covers(db, db')
    BY <1>a, <2>1, <2>3, <2>4 DEF Covers
  <2>6. AccountedTo(db, 0)
    BY <1>a DEF AccountedTo
  <2>7. JobsAccounted(db')
    BY <1>a, <1>c, <1>g, <2>1, <2>2, <2>5, <2>6
  <2> QED
    BY <1>a, <1>c, <1>e, <2>1, <2>5, <2>7
<1>9. CASE UNCHANGED vars \/ \E e \in Event : Publish(e)
  <2>1. db' = db /\ work' = work /\ page' = page
    BY <1>9 DEF vars, Publish
  <2> QED
    BY <1>c, <2>1
<1> QED
  BY <1>2, <1>3, <1>4, <1>5, <1>6, <1>7, <1>8, <1>9
     DEF Next, Worker, ProcessEvent, Operator

\* Every event the cursor has passed is accounted for, through crashes, failed
\* pages, replays and reverts: a snapshot, a quarantine row or an issue.
THEOREM NoLossCorrect == Spec => []NoEventLost
<1>1. Init => NoLossInv
  <2> SUFFICES ASSUME Init PROVE NoLossInv
    OBVIOUS
  <2>1. /\ db.cursor = 0 /\ db.jobs = <<>> /\ ~page.open /\ Len(feed) = 0
    BY EmptySeq DEF Init, EmptyTables, NoPage
  <2> QED
    BY <2>1 DEF NoLossInv, AccountedTo, JobsAccounted
<1>2. NoLossInv => NoEventLost
  BY DEF NoLossInv, AccountedTo, NoEventLost
<1> QED
  BY <1>1, <1>2, NoLossStep, LineageCorrect, PTL DEF Spec

-----------------------------------------------------------------------------
(* A revert is final.                                                      *)

\* Every snapshot job j wrote has been superseded by a revert.
TakenOut(d, j) ==
    /\ j <= Len(d.jobs)
    /\ \A s \in d.snapshots :
          s.gen = j => s.sup # 0 /\ d.jobs[s.sup].status = "revert"

FinalInv ==
    /\ DoubleRevertMovesNothing
    /\ \A m \in 1..Len(audit) :
          audit[m].action = "revert" =>
              /\ TakenOut(db, audit[m].job)
              /\ page.open => TakenOut(work, audit[m].job)
                              /\ audit[m].job < CurrentJob

\* A transaction of the worker that leaves the snapshots alone, and turns no
\* revert job into another, takes nothing back in.
LEMMA TakenOutKept ==
    ASSUME NEW d \in Tables, NEW u \in Tables, LineageInv(d), NEW j \in Nat,
           TakenOut(d, j),
           u.snapshots = d.snapshots, Len(d.jobs) <= Len(u.jobs),
           \A i \in 1..Len(d.jobs) :
               d.jobs[i].status = "revert" => u.jobs[i].status = "revert"
    PROVE  TakenOut(u, j)
<1>1. Len(d.jobs) \in Nat /\ Len(u.jobs) \in Nat
  BY TableFields
<1>2. \A s \in d.snapshots : s.sup \in Nat /\ s.sup <= Len(d.jobs)
  BY SnapshotFields DEF LineageInv, JobsKnown
<1> QED
  BY <1>1, <1>2 DEF TakenOut

\* Writing an event supersedes live snapshots only, none of them job j's.
LEMMA TakenOutWrite ==
    ASSUME TypeInv, LineageInvariant, NEW p \in 1..Len(feed), WriteEvent(p),
           NEW j \in Nat, TakenOut(work, j), j < CurrentJob
    PROVE  TakenOut(work', j)
<1> DEFINE row == [key |-> feed[p].key, gen |-> CurrentJob, event |-> p,
                   deleted |-> feed[p].op = "deleted", sup |-> 0]
<1>0. row.gen # j
  BY DEF CurrentJob
<1>1. /\ work'.jobs = work.jobs
      /\ work'.snapshots =
            MarkSuperseded(work.snapshots, feed[p].key, CurrentJob) \cup {row}
  BY WriteEffect
<1> HIDE DEF row
<1>2. work \in Tables
  BY DEF TypeInv, TypeOK
<1>3. ASSUME NEW t \in MarkSuperseded(work.snapshots, feed[p].key, CurrentJob),
             t.gen = j
      PROVE  t.sup # 0 /\ work.jobs[t.sup].status = "revert"
  <2>1. PICK s \in work.snapshots :
           t = IF s.key = feed[p].key /\ s.sup = 0
               THEN [s EXCEPT !.sup = CurrentJob] ELSE s
    BY DEF MarkSuperseded
  <2>2. CurrentJob \in Nat
    BY <1>2, TableFields DEF CurrentJob
  <2>3. s.gen = j
    BY <1>2, <1>3, <2>1, <2>2, SnapshotFields, SetSup
  <2>4. s.sup # 0 /\ work.jobs[s.sup].status = "revert"
    BY <2>3 DEF TakenOut
  <2> QED
    BY <2>1, <2>4
<1> QED
  BY <1>0, <1>1, <1>3 DEF TakenOut

\* A revert of job j takes out what j wrote and takes nothing back in that an
\* earlier revert took out.
LEMMA TakenOutRevert ==
    ASSUME TypeInv, LineageInvariant, NEW j \in 1..Len(db.jobs), Revert(j),
           NEW i \in Nat, i = j \/ TakenOut(db, i)
    PROVE  TakenOut(db', i)
<1> DEFINE n == Len(db.jobs) + 1
<1>0. db \in Tables /\ Len(db.jobs) \in Nat /\ JobsKnown(db)
  BY TableFields DEF TypeInv, TypeOK, LineageInvariant, LineageInv
<1>1. /\ ~RevertRefused(db, j)
      /\ Len(db'.jobs) = n
      /\ \A m \in 1..Len(db.jobs) : db'.jobs[m] = db.jobs[m]
      /\ db'.snapshots = {RevertSnapshot(db, j, s) : s \in db.snapshots}
  BY RevertEffect
<1>2. db'.jobs[n].status = "revert"
  <2>1. db'.jobs[n] = [status |-> "revert", before |-> 0]
    BY RevertEffect
  <2> QED
    BY <2>1
<1>3. i <= Len(db.jobs)
  BY <1>0 DEF TakenOut
<1>4. ASSUME NEW s \in db.snapshots, RevertSnapshot(db, j, s).gen = i
      PROVE  /\ RevertSnapshot(db, j, s).sup # 0
             /\ db'.jobs[RevertSnapshot(db, j, s).sup].status = "revert"
  <2>1. s \in Snapshot /\ s.key \in Keys /\ s.sup \in Nat /\ s.sup <= Len(db.jobs)
    BY <1>0, SnapshotFields DEF JobsKnown
  <2>2. s.gen = i
    BY <1>0, <1>4, <2>1, SetSup DEF RevertSnapshot
  <2>3. CASE s \in Reverted(db, j, s.key)
    <3>1. RevertSnapshot(db, j, s).sup = n
      BY <1>0, <2>1, <2>3, SetSup DEF RevertSnapshot
    <3> QED
      BY <1>0, <1>2, <3>1
  <2>4. CASE s \notin Reverted(db, j, s.key)
    <3>1. s.sup # 0 /\ db.jobs[s.sup].status = "revert"
      BY <1>1, <2>2, <2>4 DEF Reverted, Live, RevertRefused, TakenOut
    <3>2. ASSUME s \in Prior(db, j, s.key), Reverted(db, j, s.key) # {}
          PROVE  FALSE
      <4>1. s.sup = j
        BY <3>2, PriorFacts
      <4>2. PICK t \in db.snapshots : t.gen = j
        BY <3>2 DEF Reverted, Live
      <4> QED
        BY <1>0, <3>1, <4>1, <4>2 DEF JobsKnown
    <3>3. RevertSnapshot(db, j, s) = s
      BY <2>4, <3>2 DEF RevertSnapshot
    <3>4. s.sup \in 1..Len(db.jobs)
      BY <1>0, <2>1, <3>1
    <3> QED
      BY <1>1, <3>1, <3>3, <3>4
  <2> QED
    BY <2>3, <2>4
<1> QED
  BY <1>0, <1>1, <1>3, <1>4 DEF TakenOut

LEMMA FinalStep ==
    TypeInv /\ LineageInvariant /\ FinalInv /\ [Next]_vars => FinalInv'
<1> SUFFICES ASSUME TypeInv, LineageInvariant, FinalInv, [Next]_vars
             PROVE  FinalInv'
  OBVIOUS
<1>a. /\ db \in Tables /\ work \in Tables /\ db' \in Tables /\ work' \in Tables
      /\ Len(audit) \in Nat /\ Len(db.jobs) \in Nat /\ Len(work.jobs) \in Nat
      /\ LineageInv(db) /\ LineageInv(work)
      /\ page.open => work.jobs[CurrentJob].status = "running"
      /\ CurrentJob = Len(work.jobs)
  BY StepTypes DEF LineageInvariant, CurrentJob
<1>b. /\ audit \in Seq(AuditRow)
      /\ \A m \in 1..Len(audit) : audit[m].job \in Nat
  <2>1. \A m \in 1..Len(audit) : audit[m] \in AuditRow
    BY StepTypes, ElementOfSeq
  <2> QED
    BY <2>1, StepTypes DEF AuditRow
<1>c. \A m \in 1..Len(audit) :
         audit[m].action = "revert" =>
             /\ TakenOut(db, audit[m].job)
             /\ page.open => TakenOut(work, audit[m].job) /\ audit[m].job < CurrentJob
  BY DEF FinalInv
\* A step that adds no row to the audit trail.
<1>d. ASSUME audit' = audit,
             \A j \in Nat :
                 /\ TakenOut(db, j)
                 /\ page.open => TakenOut(work, j) /\ j < CurrentJob
                 => /\ TakenOut(db', j)
                    /\ page'.open => TakenOut(work', j) /\ j < Len(work'.jobs)
      PROVE  FinalInv'
  BY SMTT(30), <1>b, <1>c, <1>d
     DEF FinalInv, DoubleRevertMovesNothing, TakenOut, CurrentJob
\* A step that adds one, for job j, which has nothing live if a revert of it
\* has been recorded before.
<1>e. ASSUME NEW r \in AuditRow, audit' = Append(audit, r), ~page'.open,
             \A m \in 1..Len(audit) :
                 audit[m].action = "revert" => TakenOut(db', audit[m].job),
             r.action = "revert" => TakenOut(db', r.job),
             \A m \in 1..Len(audit) :
                 /\ audit[m].action = "revert" /\ r.action = "revert"
                 /\ audit[m].job = r.job
                 => ~r.moved
      PROVE  FinalInv'
  <2>1. /\ Len(audit') = Len(audit) + 1 /\ audit'[Len(audit) + 1] = r
        /\ \A m \in 1..Len(audit) : audit'[m] = audit[m]
    BY <1>a, <1>b, <1>e, AppendProperties
  <2>2. \A m \in 1..Len(audit') :
           \/ m \in 1..Len(audit) /\ audit'[m] = audit[m]
           \/ m = Len(audit) + 1 /\ audit'[m] = r
    <3>1. \A m \in 1..(Len(audit) + 1) : m \in 1..Len(audit) \/ m = Len(audit) + 1
      BY <1>a
    <3> QED
      BY <2>1, <3>1
  <2>3. DoubleRevertMovesNothing'
    <3> SUFFICES ASSUME NEW m \in 1..Len(audit'), NEW n \in 1..Len(audit'), m < n,
                        audit'[m].action = "revert", audit'[n].action = "revert",
                        audit'[m].job = audit'[n].job
                 PROVE  ~audit'[n].moved
      BY DEF DoubleRevertMovesNothing
    <3>1. m \in 1..Len(audit) /\ audit'[m] = audit[m]
      BY <1>a, <2>1, <2>2
    <3> QED
      BY <1>e, <2>2, <3>1 DEF FinalInv, DoubleRevertMovesNothing
  <2>4. \A m \in 1..Len(audit') :
           audit'[m].action = "revert" => TakenOut(db', audit'[m].job)
    BY <1>e, <2>2
  <2> QED
    BY <1>e, <2>3, <2>4 DEF FinalInv, TakenOut
<1>1. ASSUME NEW e \in Event, Publish(e) PROVE FinalInv'
  BY <1>1, <1>a, <1>d DEF Publish
<1>2. CASE Poll
  <2>1. /\ db' = db /\ audit' = audit
        /\ Len(work'.jobs) = Len(db.jobs) + 1
        /\ \A i \in 1..Len(db.jobs) : work'.jobs[i] = db.jobs[i]
        /\ work'.snapshots = db.snapshots
    BY <1>2, PollEffect
  <2>2. \A j \in Nat : TakenOut(db, j) => TakenOut(work', j) /\ j < Len(work'.jobs)
    <3> TAKE j \in Nat
    <3> HAVE TakenOut(db, j)
    <3>1. TakenOut(work', j)
      BY <1>a, <2>1, TakenOutKept
    <3>2. j <= Len(db.jobs) /\ Len(db.jobs) \in Nat
      BY <1>a DEF TakenOut
    <3> QED
      BY <2>1, <3>1, <3>2
  <2> QED
    BY <1>d, <2>1, <2>2
<1>3. CASE BlockPage
  <2>1. /\ ~page.open /\ page' = page /\ audit' = audit
        /\ Len(db'.jobs) = Len(db.jobs) + 1
        /\ \A i \in 1..Len(db.jobs) : db'.jobs[i] = db.jobs[i]
        /\ db'.snapshots = db.snapshots
    BY <1>3, BlockPageEffect
  <2>2. \A j \in Nat : TakenOut(db, j) => TakenOut(db', j)
    BY <1>a, <2>1, TakenOutKept
  <2> QED
    BY <1>d, <2>1, <2>2
<1>4. ASSUME NEW p \in 1..Len(feed), SkipEvent(p) PROVE FinalInv'
  <2>1. /\ page.open /\ db' = db /\ audit' = audit
        /\ work'.snapshots = work.snapshots /\ work'.jobs = work.jobs
    BY <1>4, SkipEffect DEF Pending
  <2> QED
    BY <1>a, <1>d, <2>1 DEF TakenOut
<1>5. ASSUME NEW p \in 1..Len(feed), QuarantineEvent(p) PROVE FinalInv'
  <2>1. /\ page.open /\ db' = db /\ audit' = audit
        /\ work'.snapshots = work.snapshots /\ work'.jobs = work.jobs
    BY <1>5, QuarantineEffect DEF Pending
  <2> QED
    BY <1>a, <1>d, <2>1 DEF TakenOut
<1>6. ASSUME NEW p \in 1..Len(feed), DedupEvent(p) PROVE FinalInv'
  <2>1. page.open /\ db' = db /\ audit' = audit /\ work' = work
    BY <1>6 DEF DedupEvent, Pending
  <2> QED
    BY <1>a, <1>d, <2>1
<1>7. ASSUME NEW p \in 1..Len(feed), WriteEvent(p) PROVE FinalInv'
  <2>1. page.open /\ db' = db /\ audit' = audit /\ work'.jobs = work.jobs
    BY <1>7, WriteEffect DEF Pending
  <2>2. \A j \in Nat : TakenOut(work, j) /\ j < CurrentJob => TakenOut(work', j)
    BY <1>7, TakenOutWrite
  <2> QED
    BY <1>a, <1>d, <2>1, <2>2
<1>8. CASE CommitPage
  <2>1. /\ page.open /\ ~page'.open /\ audit' = audit
        /\ Len(db'.jobs) = Len(work.jobs) /\ db'.snapshots = work.snapshots
    BY <1>8, CommitEffect
  <2>2. \A i \in 1..Len(work.jobs) :
           work.jobs[i].status = "revert" => db'.jobs[i].status = "revert"
    BY <1>a, <1>8, <2>1, CommitEffect
  <2>3. \A j \in Nat : TakenOut(work, j) => TakenOut(db', j)
    BY <1>a, <2>1, <2>2, TakenOutKept
  <2> QED
    BY <1>d, <2>1, <2>3
<1>9. CASE Crash
  BY <1>9, <1>d DEF Crash, NoPage
<1>10. ASSUME NEW j \in 1..Len(db.jobs), NEW forced \in BOOLEAN, Retry(j, forced)
       PROVE  FinalInv'
  <2> DEFINE r == [action |-> "retry", job |-> j, moved |-> FALSE]
  <2>1. r \in AuditRow /\ r.action # "revert"
    BY <1>a DEF AuditRow
  <2>2. /\ ~page.open /\ page' = page /\ audit' = Append(audit, r)
        /\ db'.snapshots = db.snapshots /\ db'.jobs = db.jobs
    BY <1>10, RetryEffect
  <2> HIDE DEF r
  <2>3. \A m \in 1..Len(audit) :
           audit[m].action = "revert" => TakenOut(db', audit[m].job)
    BY <1>c, <2>2 DEF TakenOut
  <2> QED
    BY <1>e, <2>1, <2>2, <2>3
<1>11. ASSUME NEW j \in 1..Len(db.jobs), Revert(j) PROVE FinalInv'
  <2> DEFINE moves == \E k \in Keys : Reverted(db, j, k) # {}
             r == [action |-> "revert", job |-> j, moved |-> moves]
  <2>1. ~page.open /\ page' = page /\ audit' = Append(audit, r)
    BY <1>11, RevertEffect
  <2>2. moves \in BOOLEAN /\ j \in Nat
    BY <1>a
  <2>3. TakenOut(db, j) => ~moves
    BY DEF TakenOut, Reverted, Live
  <2> HIDE DEF moves
  <2>4. r \in AuditRow /\ r.job = j /\ r.moved = moves
    BY <2>2 DEF AuditRow
  <2> HIDE DEF r
  <2>5. \A i \in Nat : i = j \/ TakenOut(db, i) => TakenOut(db', i)
    BY <1>11, TakenOutRevert
  <2>6. \A m \in 1..Len(audit) :
           audit[m].action = "revert" => TakenOut(db', audit[m].job)
    BY <1>b, <1>c, <2>5
  <2>7. TakenOut(db', r.job)
    BY <2>2, <2>4, <2>5
  <2>8. \A m \in 1..Len(audit) :
           audit[m].action = "revert" /\ audit[m].job = r.job => ~r.moved
    BY <1>c, <2>3, <2>4
  <2> QED
    BY <1>e, <2>1, <2>4, <2>6, <2>7, <2>8
<1>12. CASE UNCHANGED vars
  BY <1>12, <1>a, <1>d DEF vars
<1> QED
  BY <1>1, <1>2, <1>3, <1>4, <1>5, <1>6, <1>7, <1>8, <1>9, <1>10, <1>11, <1>12
     DEF Next, Worker, ProcessEvent, Operator

\* What a revert took out never becomes live again, whatever other jobs are
\* reverted, retried or replayed in between: a second revert of the job finds
\* nothing to move.
THEOREM FinalCorrect == Spec => []DoubleRevertMovesNothing
<1>1. Init => FinalInv
  <2> SUFFICES ASSUME Init PROVE FinalInv
    OBVIOUS
  <2>1. Len(audit) = 0
    BY EmptySeq DEF Init
  <2> QED
    BY <2>1 DEF FinalInv, DoubleRevertMovesNothing
<1>2. FinalInv => DoubleRevertMovesNothing
  BY DEF FinalInv
<1> QED
  BY <1>1, <1>2, FinalStep, LineageCorrect, PTL DEF Spec

-----------------------------------------------------------------------------
(* Replays never move a live snapshot back.                                *)

\* The live snapshots of u are not below those of d.
NotBelow(d, u) ==
    \A k \in Keys : \A s \in Live(d, k) : \E t \in Live(u, k) : s.event <= t.event

\* The open transaction is ahead of the committed tables.
AheadInv == page.open => NotBelow(db, work)

LEMMA NotBelowSame ==
    ASSUME NEW d \in Tables, NEW u, u.snapshots = d.snapshots
    PROVE  /\ NotBelow(d, u)
           /\ \A c : NotBelow(c, d) => NotBelow(c, u)
<1>1. \A k : Live(u, k) = Live(d, k)
  BY DEF Live
<1>2. \A k : \A s \in Live(d, k) : s.event <= s.event
  BY SnapshotFields DEF Live
<1> QED
  BY <1>1, <1>2 DEF NotBelow

\* The event written is above the high-water mark of its key.
LEMMA NotBelowWrite ==
    ASSUME TypeInv, NEW p \in 1..Len(feed), WriteEvent(p), NotBelow(db, work)
    PROVE  NotBelow(db, work')
<1> DEFINE row == [key |-> feed[p].key, gen |-> CurrentJob, event |-> p,
                   deleted |-> feed[p].op = "deleted", sup |-> 0]
           old == MarkSuperseded(work.snapshots, feed[p].key, CurrentJob)
<1>0. row.key = feed[p].key /\ row.event = p /\ row.sup = 0
  OBVIOUS
<1>1. work'.snapshots = old \cup {row} /\ p \in Nat
  BY WriteEffect
<1>2. db \in Tables /\ work \in Tables
  BY DEF TypeInv, TypeOK
<1>3. ASSUME NEW k \in Keys, k # feed[p].key
      PROVE  Live(work, k) \subseteq Live(work', k)
  <2>1. \A s \in Live(work, k) : s \in old
    BY <1>3 DEF Live, MarkSuperseded
  <2> QED
    BY <1>1, <2>1 DEF Live
<1> HIDE DEF row, old
<1>4. row \in Live(work', feed[p].key)
  BY <1>0, <1>1 DEF Live
<1>5. \A t \in Live(work, feed[p].key) : t.event < p
  <2> TAKE t \in Live(work, feed[p].key)
  <2>1. ~ (p <= t.event)
    BY DEF WriteEvent, AlreadyApplied
  <2> QED
    BY <1>1, <1>2, <2>1, SnapshotFields DEF Live
<1> SUFFICES ASSUME NEW k \in Keys, NEW s \in Live(db, k)
             PROVE  \E t \in Live(work', k) : s.event <= t.event
  BY DEF NotBelow
<1>6. PICK t \in Live(work, k) : s.event <= t.event
  BY DEF NotBelow
<1>7. CASE k # feed[p].key
  BY <1>3, <1>6, <1>7
<1>8. CASE k = feed[p].key
  <2>1. s.event \in Nat /\ t.event \in Nat
    BY <1>2, SnapshotFields DEF Live
  <2>2. s.event <= p
    BY <1>1, <1>5, <1>6, <1>8, <2>1
  <2> QED
    BY <1>0, <1>4, <1>8, <2>2
<1> QED
  BY <1>7, <1>8

LEMMA AheadStep ==
    ASSUME TypeInv, AheadInv, [Next]_vars
    PROVE  /\ AheadInv'
           /\ audit' = audit => NotBelow(db, db')
<1>a. /\ db \in Tables /\ work \in Tables /\ audit \in Seq(AuditRow)
  BY StepTypes
<1>b. NotBelow(db, db)
  BY <1>a, NotBelowSame
<1>c. /\ AheadInv' <=> (page'.open => NotBelow(db', work'))
  BY DEF AheadInv, NotBelow, Live
<1>d. \A r \in AuditRow : Append(audit, r) # audit
  <2> TAKE r \in AuditRow
  <2>1. Len(Append(audit, r)) = Len(audit) + 1 /\ Len(audit) \in Nat
    BY <1>a, AppendProperties, LenProperties
  <2> QED
    BY <2>1
<1>1. CASE \E e \in Event : Publish(e)
  BY <1>1, <1>b, <1>c DEF Publish, AheadInv
<1>2. CASE Poll
  <2>1. db' = db /\ work'.snapshots = db.snapshots
    BY <1>2, PollEffect
  <2> QED
    BY <1>a, <1>b, <1>c, <2>1, NotBelowSame
<1>3. CASE BlockPage
  <2>1. ~page.open /\ page' = page /\ db'.snapshots = db.snapshots
    BY <1>3, BlockPageEffect
  <2> QED
    BY <1>a, <1>c, <2>1, NotBelowSame
<1>4. ASSUME NEW p \in 1..Len(feed), SkipEvent(p) \/ QuarantineEvent(p) \/ DedupEvent(p)
      PROVE  AheadInv' /\ NotBelow(db, db')
  <2>1. page.open /\ db' = db /\ work'.snapshots = work.snapshots
    BY <1>4, SkipEffect, QuarantineEffect DEF DedupEvent, Pending
  <2>2. NotBelow(db, work')
    BY <1>a, <2>1, NotBelowSame DEF AheadInv
  <2> QED
    BY <1>b, <1>c, <2>1, <2>2
<1>5. ASSUME NEW p \in 1..Len(feed), WriteEvent(p)
      PROVE  AheadInv' /\ NotBelow(db, db')
  <2>1. page.open /\ db' = db
    BY <1>5, WriteEffect DEF Pending
  <2>2. NotBelow(db, work')
    BY <1>5, <2>1, NotBelowWrite DEF AheadInv
  <2> QED
    BY <1>b, <1>c, <2>1, <2>2
<1>6. CASE CommitPage
  <2>1. page.open /\ ~page'.open /\ db'.snapshots = work.snapshots
    BY <1>6, CommitEffect
  <2>2. NotBelow(db, db')
    BY <1>a, <2>1, NotBelowSame DEF AheadInv
  <2> QED
    BY <1>c, <2>1, <2>2
<1>7. CASE Crash
  BY <1>7, <1>b, <1>c DEF Crash, NoPage
<1>8. ASSUME NEW j \in 1..Len(db.jobs), NEW forced \in BOOLEAN, Retry(j, forced)
      PROVE  AheadInv' /\ audit' # audit
  <2> DEFINE r == [action |-> "retry", job |-> j, moved |-> FALSE]
  <2>1. ~page.open /\ page' = page /\ audit' = Append(audit, r)
    BY <1>8, RetryEffect
  <2>2. r \in AuditRow
    BY <1>a, TableFields DEF AuditRow
  <2> HIDE DEF r
  <2> QED
    BY <1>c, <1>d, <2>1, <2>2
<1>9. ASSUME NEW j \in 1..Len(db.jobs), Revert(j)
      PROVE  AheadInv' /\ audit' # audit
  <2> DEFINE r == [action |-> "revert", job |-> j,
                   moved |-> \E k \in Keys : Reverted(db, j, k) # {}]
  <2>1. ~page.open /\ page' = page /\ audit' = Append(audit, r)
    BY <1>9, RevertEffect
  <2>2. r \in AuditRow
    BY <1>a, TableFields DEF AuditRow
  <2> HIDE DEF r
  <2> QED
    BY <1>c, <1>d, <2>1, <2>2
<1>10. CASE UNCHANGED vars
  BY <1>10, <1>b, <1>c DEF vars, AheadInv
<1> QED
  BY <1>1, <1>2, <1>3, <1>4, <1>5, <1>6, <1>7, <1>8, <1>9, <1>10
     DEF Next, Worker, ProcessEvent, Operator

\* A page replayed after a crash or a retry never overwrites newer data: the
\* live snapshot of a key moves back only in a step that records a revert.
THEOREM NoRegressCorrect == Spec => ReplayNeverRegresses
<1>1. Init => AheadInv
  BY DEF Init, NoPage, AheadInv
<1>2. TypeInv /\ AheadInv /\ [Next]_vars => AheadInv'
  BY AheadStep
<1>3. TypeInv /\ AheadInv /\ [Next]_vars =>
         [audit' = audit =>
             \A k \in Keys : \A s \in Live(db, k) :
                 \E t \in Live(db', k) : s.event <= t.event]_vars
  BY AheadStep DEF NotBelow
<1> QED
  BY <1>1, <1>2, <1>3, TypeInit, TypeStep, PTL DEF Spec, ReplayNeverRegresses
-----------------------------------------------------------------------------
(* The refinement: RosterSync implements RosterLedger.                     *)

Version(s) == [key |-> s.key, job |-> s.gen, event |-> s.event, deleted |-> s.deleted]

LEMMA VersionsDef ==
    ASSUME NEW d \in Tables
    PROVE  /\ \A s \in d.snapshots : InLineage(d, s) => Version(s) \in Versions(d)
           /\ \A v \in Versions(d) : \E s \in d.snapshots :
                 /\ InLineage(d, s) /\ v = Version(s) /\ s.key \in Keys
                 /\ v.key = s.key /\ v.job = s.gen
                 /\ v.event = s.event /\ v.deleted = s.deleted
                 /\ v.event \in Nat /\ v.job \in Nat
BY SnapshotFields DEF Versions, Version

\* Canonical shows the newest version of every key that is not a deletion.
LEMMA ShownIsShowing ==
    ASSUME NEW d \in Tables, LineageInv(d)
    PROVE  Shown(d) = Ledger!Showing(Versions(d))
<1> DEFINE V == Versions(d)
<1>1. ASSUME NEW k \in Keys, NEW s \in Live(d, k)
      PROVE  /\ Version(s) \in Ledger!Newest(V)
             /\ s.key = k /\ s.event # 0 /\ s.event \in Nat
             /\ d.canonical[k].event = s.event /\ d.canonical[k].deleted = s.deleted
  <2>1. s \in d.snapshots /\ s.key = k /\ s.sup = 0 /\ InLineage(d, s)
    BY DEF Live, InLineage
  <2>2. Version(s) \in V
    BY <2>1, VersionsDef
  <2>3. \A w \in V : w.key = k => w.event <= s.event
    <3> TAKE w \in V
    <3> HAVE w.key = k
    <3>1. PICK t \in d.snapshots :
             InLineage(d, t) /\ w.key = t.key /\ w.event = t.event
      BY VersionsDef
    <3>2. t \in Lineage(d, k)
      BY <3>1 DEF Lineage
    <3> QED
      BY <3>1, <3>2, LiveIsTop
  <2>4. Version(s).key = k /\ Version(s).event = s.event
    BY <2>1 DEF Version
  <2>5. PICK t \in Live(d, k) :
           d.canonical[k] = [event |-> t.event, deleted |-> t.deleted]
    BY DEF LineageInv, CanonicalMatches
  <2>7. t = s
    BY LiveIsTop
  <2>6. Version(s) \in Ledger!Newest(V)
    BY <2>2, <2>3, <2>4 DEF Ledger!Newest
  <2> QED
    BY <2>1, <2>5, <2>6, <2>7, SnapshotFields
<1>2. ASSUME NEW v \in Ledger!Newest(V)
      PROVE  v.key \in Keys /\ \E s \in Live(d, v.key) : v = Version(s)
  <2>1. v \in V /\ \A w \in V : w.key = v.key => w.event <= v.event
    BY DEF Ledger!Newest
  <2>2. PICK s \in d.snapshots :
           /\ InLineage(d, s) /\ v = Version(s) /\ s.key \in Keys
           /\ v.key = s.key /\ v.event = s.event
    BY <2>1, VersionsDef
  <2>3. s \in Lineage(d, v.key)
    BY <2>2 DEF Lineage
  <2>4. PICK t \in Live(d, v.key) : s.event <= t.event
    BY <2>2, <2>3 DEF LineageInv, LineageLive
  <2>5. t \in Lineage(d, v.key) /\ t \in d.snapshots /\ InLineage(d, t) /\ t.key = v.key
    BY <2>2, <2>4, LiveIsTop DEF Live, Lineage
  <2>6. Version(t) \in V /\ Version(t).key = v.key /\ Version(t).event = t.event
    BY <2>5, VersionsDef DEF Version
  <2>7. t.event = s.event
    BY <2>1, <2>2, <2>4, <2>5, <2>6, SnapshotFields
  <2>8. t = s
    BY <2>2, <2>3, <2>5, <2>7 DEF LineageInv, LineageOrdered
  <2> QED
    BY <2>2, <2>4, <2>8
<1>3. \A x \in Shown(d) : x \in Ledger!Showing(V)
  <2> TAKE x \in Shown(d)
  <2>1. PICK k \in Keys : /\ x = <<k, d.canonical[k].event>>
                          /\ d.canonical[k].event # 0 /\ ~d.canonical[k].deleted
    BY DEF Shown
  <2>2. PICK s \in Live(d, k) : TRUE
    BY <2>1 DEF LineageInv, CanonicalMatches
  <2>3. /\ Version(s) \in Ledger!Newest(V)
        /\ Version(s).key = k /\ Version(s).event = s.event
        /\ Version(s).deleted = s.deleted
    BY <1>1 DEF Version
  <2>4. d.canonical[k].event = s.event /\ d.canonical[k].deleted = s.deleted
    BY <1>1
  <2>5. ~Version(s).deleted
    BY <2>1, <2>3, <2>4
  <2> QED
    BY <2>1, <2>3, <2>4, <2>5 DEF Ledger!Showing
<1>4. \A x \in Ledger!Showing(V) : x \in Shown(d)
  <2> TAKE x \in Ledger!Showing(V)
  <2>1. PICK v \in Ledger!Newest(V) : ~v.deleted /\ x = <<v.key, v.event>>
    BY DEF Ledger!Showing
  <2>2. PICK s \in Live(d, v.key) : v = Version(s) /\ v.key \in Keys
    BY <1>2
  <2>3. v.event = s.event /\ v.deleted = s.deleted
    BY <2>2 DEF Version
  <2>4. /\ d.canonical[v.key].event = s.event
        /\ d.canonical[v.key].deleted = s.deleted /\ s.event # 0
    BY <1>1, <2>2
  <2> QED
    BY <2>1, <2>2, <2>3, <2>4 DEF Shown
<1> QED
  BY <1>3, <1>4

\* Tables with the same snapshots and the same revert jobs hold the same
\* versions.
LEMMA VersionsKept ==
    ASSUME NEW d \in Tables, NEW u \in Tables, LineageInv(d),
           u.snapshots = d.snapshots,
           \A i \in 1..Len(d.jobs) :
               u.jobs[i].status = "revert" <=> d.jobs[i].status = "revert"
    PROVE  Versions(u) = Versions(d)
<1>1. \A s \in d.snapshots : s.sup # 0 => s.sup \in 1..Len(d.jobs)
  BY TableFields, SnapshotFields DEF LineageInv, JobsKnown
<1>2. \A s \in d.snapshots : InLineage(u, s) <=> InLineage(d, s)
  BY <1>1 DEF InLineage
<1> QED
  BY <1>2 DEF Versions

-----------------------------------------------------------------------------
(* The steps of the implementation.                                        *)

\* The versions the open transaction has accepted are its job's, and newer
\* than all committed ones of their keys.
PageAccepts ==
    page.open =>
        /\ Versions(db) \subseteq Versions(work)
        /\ Len(work.jobs) = Len(db.jobs) + 1
        /\ \A w \in Versions(work) \ Versions(db) :
              /\ w.job = CurrentJob
              /\ \A v \in Versions(db) : v.key = w.key => v.event < w.event

\* Writing an event adds its version and takes none away.
LEMMA WriteVersions ==
    ASSUME TypeInv, LineageInvariant, NEW p \in 1..Len(feed), WriteEvent(p)
    PROVE  LET v == [key |-> feed[p].key, job |-> CurrentJob, event |-> p,
                     deleted |-> feed[p].op = "deleted"]
           IN  /\ Versions(work') = Versions(work) \cup {v}
               /\ \A w \in Versions(work) : w.key = feed[p].key => w.event < p
<1> DEFINE k0 == feed[p].key
           row == [key |-> k0, gen |-> CurrentJob, event |-> p,
                   deleted |-> feed[p].op = "deleted", sup |-> 0]
           v == [key |-> k0, job |-> CurrentJob, event |-> p,
                 deleted |-> feed[p].op = "deleted"]
           new(s) == IF s.key = k0 /\ s.sup = 0 THEN [s EXCEPT !.sup = CurrentJob] ELSE s
<1>0. /\ work \in Tables /\ LineageInv(work) /\ k0 \in Keys /\ p \in Nat
      /\ CurrentJob \in Nat \ {0} /\ ~AlreadyApplied(work, p)
      /\ work.jobs[CurrentJob].status = "running"
  <2>1. Pending(p) /\ k0 \in Keys /\ ~AlreadyApplied(work, p)
    BY WriteEffect DEF WriteEvent
  <2> QED
    BY <2>1, PendingTypes DEF LineageInvariant, Pending
<1>1. /\ work'.snapshots = {new(s) : s \in work.snapshots} \cup {row}
      /\ work'.jobs = work.jobs
  BY WriteEffect DEF MarkSuperseded
<1>2. Version(row) = v /\ InLineage(work', row)
  BY DEF Version, InLineage
<1>3. \A s \in work.snapshots :
         /\ Version(new(s)) = Version(s)
         /\ InLineage(work', new(s)) <=> InLineage(work, s)
  <2> TAKE s \in work.snapshots
  <2>1. /\ new(s).key = s.key /\ new(s).gen = s.gen
        /\ new(s).event = s.event /\ new(s).deleted = s.deleted
        /\ new(s).sup = IF s.key = k0 /\ s.sup = 0 THEN CurrentJob ELSE s.sup
    BY <1>0, SnapshotFields, SetSup
  <2> HIDE DEF new
  <2> QED
    BY <1>0, <1>1, <2>1 DEF Version, InLineage
<1> HIDE DEF row, v, new
<1>4. Versions(work') = {Version(s) : s \in {t \in work'.snapshots : InLineage(work', t)}}
      /\ Versions(work) = {Version(s) : s \in {t \in work.snapshots : InLineage(work, t)}}
  BY DEF Versions, Version
<1>5. Versions(work') = Versions(work) \cup {v}
  BY <1>1, <1>2, <1>3, <1>4
<1>6. ASSUME NEW w \in Versions(work), w.key = k0 PROVE w.event < p
  <2>1. PICK s \in work.snapshots :
           InLineage(work, s) /\ s.key = k0 /\ s.event = w.event
    BY <1>0, <1>6, VersionsDef
  <2>2. s \in Lineage(work, k0)
    BY <2>1 DEF Lineage
  <2>3. PICK t \in Live(work, k0) : s.event <= t.event
    BY <1>0, <2>2 DEF LineageInv, LineageLive
  <2>4. ~ (p <= t.event)
    BY <1>0 DEF AlreadyApplied
  <2>5. t.event \in Nat /\ s.event \in Nat
    BY <1>0, SnapshotFields DEF Live
  <2> QED
    BY <1>0, <2>1, <2>3, <2>4, <2>5
<1> QED
  BY <1>5, <1>6 DEF v

\* A revert that is not refused takes out exactly the versions of its job,
\* and they are the newest of their keys.
LEMMA RevertVersions ==
    ASSUME TypeInv, LineageInvariant, NEW j \in 1..Len(db.jobs), Revert(j)
    PROVE  LET V == {v \in Versions(db) : v.job = j}
           IN  /\ Versions(db') = Versions(db) \ V
               /\ V \subseteq Ledger!Newest(Versions(db))
<1> DEFINE rs(s) == RevertSnapshot(db, j, s)
<1>0. /\ db \in Tables /\ LineageInv(db) /\ j \in Nat
      /\ db' \in Tables /\ Len(db.jobs) \in Nat
  BY StepTypes, TableFields DEF TypeInv, TypeOK, LineageInvariant, Next, Operator
<1>1. /\ ~RevertRefused(db, j)
      /\ db'.snapshots = {rs(s) : s \in db.snapshots}
      /\ \A k \in Keys : Lineage(db', k) = {rs(s) : s \in Lineage(db, k) \ Reverted(db, j, k)}
  <2>1. db' = Undone(db, j) /\ ~RevertRefused(db, j)
    BY DEF Revert, Commit
  <2>2. /\ Len(db'.jobs) = Len(db.jobs) + 1
        /\ \A i \in 1..Len(db.jobs) : db'.jobs[i] = db.jobs[i]
        /\ db'.jobs[Len(db.jobs) + 1] = [status |-> "revert", before |-> 0]
        /\ db'.snapshots = {RevertSnapshot(db, j, s) : s \in db.snapshots}
        /\ db'.canonical = [k \in Keys |-> RevertRow(db, j, k)]
    BY <1>0, <2>1, RevertFields
  <2>3. \A k \in Keys : Lineage(db', k) = {RevertSnapshot(db, j, s) :
                              s \in Lineage(db, k) \ Reverted(db, j, k)}
    BY <1>0, <2>1, <2>2, RevertLineage
  <2> QED
    BY <2>1, <2>2, <2>3
<1>2. \A s \in db.snapshots : Version(rs(s)) = Version(s) /\ rs(s).key = s.key
  <2> TAKE s \in db.snapshots
  <2>1. /\ rs(s).key = s.key /\ rs(s).gen = s.gen
        /\ rs(s).event = s.event /\ rs(s).deleted = s.deleted
    BY <1>0, SnapshotFields, SetSup DEF RevertSnapshot
  <2> QED
    BY <2>1 DEF Version
\* In the lineage, job j's snapshots are those the revert takes out.
<1>3. \A s \in db.snapshots :
         InLineage(db, s) => (s.gen = j <=> s \in Reverted(db, j, s.key))
  BY <1>1 DEF InLineage, Reverted, Live, RevertRefused
<1> HIDE DEF rs
<1>4. ASSUME NEW v \in Versions(db'), v \notin {w \in Versions(db) : w.job # j}
      PROVE  FALSE
  <2>1. PICK t \in db'.snapshots : InLineage(db', t) /\ v = Version(t) /\ t.key \in Keys
    BY <1>0, VersionsDef
  <2>2. t \in Lineage(db', t.key)
    BY <2>1 DEF Lineage
  <2>3. PICK s \in Lineage(db, t.key) \ Reverted(db, j, t.key) : t = rs(s)
    BY <1>1, <2>1, <2>2
  <2>4. s \in db.snapshots /\ InLineage(db, s) /\ s.key = t.key
    BY <2>3 DEF Lineage
  <2>5. s.gen # j /\ v = Version(s)
    BY <1>2, <1>3, <2>1, <2>3, <2>4
  <2> QED
    BY <1>0, <1>4, <2>4, <2>5, VersionsDef DEF Version
<1>5. ASSUME NEW v \in Versions(db), v.job # j
      PROVE  v \in Versions(db')
  <2>1. PICK s \in db.snapshots :
           InLineage(db, s) /\ v = Version(s) /\ s.key \in Keys /\ v.job = s.gen
    BY <1>0, VersionsDef
  <2>2. s \in Lineage(db, s.key) \ Reverted(db, j, s.key)
    BY <1>3, <1>5, <2>1 DEF Lineage
  <2>3. rs(s) \in Lineage(db', s.key)
    BY <1>1, <2>1, <2>2
  <2>4. rs(s) \in db'.snapshots /\ InLineage(db', rs(s))
    BY <2>3 DEF Lineage
  <2> QED
    BY <1>0, <1>2, <2>1, <2>4, VersionsDef
<1>6. ASSUME NEW v \in Versions(db), v.job = j
      PROVE  v \in Ledger!Newest(Versions(db))
  <2>1. PICK s \in db.snapshots :
           /\ InLineage(db, s) /\ s.key \in Keys
           /\ v.job = s.gen /\ v.key = s.key /\ v.event = s.event
    BY <1>0, VersionsDef
  <2>2. s \in Live(db, s.key)
    BY <1>3, <1>6, <2>1 DEF Reverted
  <2>3. ASSUME NEW w \in Versions(db), w.key = v.key PROVE w.event <= v.event
    <3>1. PICK t \in db.snapshots : InLineage(db, t) /\ t.key = w.key /\ t.event = w.event
      BY <1>0, VersionsDef
    <3>2. t \in Lineage(db, s.key)
      BY <2>1, <2>3, <3>1 DEF Lineage
    <3> QED
      BY <1>0, <2>1, <2>2, <3>1, <3>2, LiveIsTop
  <2> QED
    BY <2>3 DEF Ledger!Newest
<1> QED
  BY <1>4, <1>5, <1>6

\* The committed tables change as the ledger allows, and the open transaction
\* stays one that may be committed.
LEMMA LedgerStep ==
    ASSUME TypeInv, LineageInvariant, PageAccepts, [Next]_vars
    PROVE  /\ PageAccepts'
           /\ \/ Ledger!Next
              \/ Versions(db') = Versions(db) /\ Shown(db') = Shown(db)
<1> DEFINE same == Versions(db') = Versions(db) /\ Shown(db') = Shown(db)
<1>a. /\ db \in Tables /\ work \in Tables /\ db' \in Tables /\ work' \in Tables
      /\ LineageInv(db) /\ LineageInv(work) /\ LineageInv(db')
      /\ Len(db.jobs) \in Nat /\ Len(work.jobs) \in Nat
      /\ page.open => work.jobs[CurrentJob].status = "running"
  BY StepTypes, LineageStep DEF LineageInvariant
<1>b. Shown(db) = Ledger!Showing(Versions(db)) /\ Shown(db') = Ledger!Showing(Versions(db'))
  BY <1>a, ShownIsShowing
<1>c. Versions(db') = Versions(db) => same
  BY <1>b
<1>d. \A v \in Versions(db) : v.job \in Nat /\ v.job <= Len(db.jobs) /\ v.event \in Nat
  <2> TAKE v \in Versions(db)
  <2>1. PICK s \in db.snapshots : v.job = s.gen /\ v.job \in Nat /\ v.event \in Nat
    BY <1>a, VersionsDef
  <2> QED
    BY <1>a, <2>1 DEF LineageInv, JobsKnown
<1>e. ~page'.open => PageAccepts'
  BY DEF PageAccepts
\* Nothing accepted, nothing undone.
<1>f. ASSUME ~page'.open, db'.snapshots = db.snapshots,
             \A i \in 1..Len(db.jobs) :
                 db'.jobs[i].status = "revert" <=> db.jobs[i].status = "revert"
      PROVE  PageAccepts' /\ same
  BY <1>a, <1>c, <1>e, <1>f, VersionsKept
<1> HIDE DEF same
\* A step inside the open transaction.
<1>g. ASSUME page.open, db' = db, Len(work'.jobs) = Len(work.jobs),
             Versions(work') = Versions(work)
      PROVE  PageAccepts' /\ same
  BY <1>c, <1>g DEF PageAccepts, CurrentJob, Versions, InLineage
<1>1. ASSUME NEW e \in Event, Publish(e) PROVE PageAccepts' /\ same
  BY <1>1, <1>c DEF Publish, PageAccepts, CurrentJob, Versions, InLineage
<1>2. CASE Poll
  <2>1. /\ db' = db /\ Len(work'.jobs) = Len(db.jobs) + 1
        /\ \A i \in 1..Len(db.jobs) : work'.jobs[i] = db.jobs[i]
        /\ work'.snapshots = db.snapshots
    BY <1>2, PollEffect
  <2>2. Versions(work') = Versions(db)
    BY <1>a, <2>1, VersionsKept
  <2>3. PageAccepts'
    BY <2>1, <2>2 DEF PageAccepts, Versions, InLineage
  <2> QED
    BY <1>c, <2>1, <2>3
<1>3. ASSUME BlockPage PROVE PageAccepts' /\ same
  <2>1. /\ ~page'.open /\ db'.snapshots = db.snapshots
        /\ \A i \in 1..Len(db.jobs) : db'.jobs[i] = db.jobs[i]
    BY <1>3, BlockPageEffect
  <2>2. \A i \in 1..Len(db.jobs) :
           db'.jobs[i].status = "revert" <=> db.jobs[i].status = "revert"
    BY <2>1
  <2> QED
    BY <1>f, <2>1, <2>2
<1>4. ASSUME NEW p \in 1..Len(feed), SkipEvent(p) \/ QuarantineEvent(p) \/ DedupEvent(p)
      PROVE  PageAccepts' /\ same
  <2>1. /\ page.open /\ db' = db /\ work'.jobs = work.jobs
        /\ work'.snapshots = work.snapshots
    BY <1>4, SkipEffect, QuarantineEffect DEF DedupEvent, Pending
  <2>2. Versions(work') = Versions(work)
    BY <1>a, <2>1, VersionsKept
  <2> QED
    BY <1>g, <2>1, <2>2
<1>5. ASSUME NEW p \in 1..Len(feed), WriteEvent(p) PROVE PageAccepts' /\ same
  <2> DEFINE v == [key |-> feed[p].key, job |-> CurrentJob, event |-> p,
                   deleted |-> feed[p].op = "deleted"]
  <2>1. page.open /\ db' = db /\ work'.jobs = work.jobs
    BY <1>5, WriteEffect DEF Pending
  <2>2. /\ Versions(work') = Versions(work) \cup {v}
        /\ \A w \in Versions(work) : w.key = feed[p].key => w.event < p
    BY <1>5, WriteVersions
  <2>3. v.job = CurrentJob /\ v.key = feed[p].key /\ v.event = p
    OBVIOUS
  <2> HIDE DEF v
  <2>4. /\ Versions(db) \subseteq Versions(work)
        /\ Len(work.jobs) = Len(db.jobs) + 1
        /\ \A w \in Versions(work) \ Versions(db) :
              /\ w.job = CurrentJob
              /\ \A u \in Versions(db) : u.key = w.key => u.event < w.event
    BY <2>1 DEF PageAccepts
  <2>5. /\ Versions(db) \subseteq Versions(work')
        /\ \A w \in Versions(work') \ Versions(db) :
              /\ w.job = CurrentJob
              /\ \A u \in Versions(db) : u.key = w.key => u.event < w.event
    BY <2>2, <2>3, <2>4
  <2>6. CurrentJob' = CurrentJob
    BY <2>1 DEF CurrentJob
  <2>7. PageAccepts'
    BY <2>1, <2>4, <2>5, <2>6 DEF PageAccepts, Versions, InLineage
  <2> QED
    BY <1>c, <2>1, <2>7
<1>6. CASE CommitPage
  <2>1. page.open /\ ~page'.open /\ db'.snapshots = work.snapshots
    BY <1>6, CommitEffect
  <2>2. \A i \in 1..Len(work.jobs) :
           db'.jobs[i].status = "revert" <=> work.jobs[i].status = "revert"
    BY <1>a, <1>6, <2>1, CommitEffect
  <2>3. Versions(db') = Versions(work)
    BY <1>a, <2>1, <2>2, VersionsKept
  <2>4. CurrentJob = Len(db.jobs) + 1
    BY <2>1 DEF PageAccepts, CurrentJob
  <2>5. /\ Versions(db) \subseteq Versions(db')
        /\ \A w, u \in Versions(db') \ Versions(db) : u.job = w.job
        /\ \A w \in Versions(db') \ Versions(db) : \A v \in Versions(db) :
              v.job < w.job /\ (v.key = w.key => v.event < w.event)
    BY <1>a, <1>d, <2>1, <2>3, <2>4 DEF PageAccepts
  <2>6. Ledger!Accept
    BY <1>b, <2>5 DEF Ledger!Accept
  <2> QED
    BY <1>e, <2>1, <2>6 DEF Ledger!Next
<1>7. CASE Crash
  BY <1>7, <1>f DEF Crash, NoPage
<1>8. ASSUME NEW j \in 1..Len(db.jobs), NEW forced \in BOOLEAN, Retry(j, forced)
      PROVE  PageAccepts' /\ same
  BY <1>8, <1>f, RetryEffect
<1>9. ASSUME NEW j \in 1..Len(db.jobs), Revert(j)
      PROVE  PageAccepts' /\ (Ledger!Next \/ same)
  <2>1. ~page'.open
    BY <1>9, RevertEffect
  <2>2. LET V == {v \in Versions(db) : v.job = j}
        IN  Versions(db') = Versions(db) \ V /\ V \subseteq Ledger!Newest(Versions(db))
    BY <1>9, RevertVersions
  <2>3. CASE j \in {v.job : v \in Versions(db)}
    BY <1>b, <1>e, <2>1, <2>2, <2>3 DEF Ledger!Next, Ledger!Undo
  <2>4. CASE j \notin {v.job : v \in Versions(db)}
    BY <1>c, <1>e, <2>1, <2>2, <2>4
  <2> QED
    BY <2>3, <2>4
<1>10. CASE UNCHANGED vars
  BY <1>10, <1>c DEF vars, PageAccepts, CurrentJob, Versions, InLineage
<1> QED
  BY <1>1, <1>2, <1>3, <1>4, <1>5, <1>6, <1>7, <1>8, <1>9, <1>10
     DEF Next, Worker, ProcessEvent, Operator, same

\* The sync worker and the revert service implement the ledger: whatever
\* crashes, replays, retries and reverts do, pages only accept newer versions,
\* a revert undoes one job, and canonical shows the newest version.
THEOREM LedgerCorrect == Spec => ImplementsLedger
<1>1. Init => PageAccepts /\ Ledger!Init
  <2> SUFFICES ASSUME Init PROVE PageAccepts /\ Ledger!Init
    OBVIOUS
  <2>1. /\ ~page.open /\ db.snapshots = {}
        /\ \A k \in Keys : db.canonical[k].event = 0
    BY DEF Init, EmptyTables, NoRow, NoPage
  <2> QED
    BY <2>1 DEF PageAccepts, Ledger!Init, Versions, Shown
<1>2. TypeInv /\ LineageInvariant /\ PageAccepts /\ [Next]_vars => PageAccepts'
  BY LedgerStep
<1>3. TypeInv /\ LineageInvariant /\ PageAccepts /\ [Next]_vars => [Ledger!Next]_(Ledger!vars)
  <2> SUFFICES ASSUME TypeInv, LineageInvariant, PageAccepts, [Next]_vars
               PROVE  [Ledger!Next]_(Ledger!vars)
    OBVIOUS
  <2>1. CASE Ledger!Next
    BY <2>1
  <2>2. CASE Versions(db') = Versions(db) /\ Shown(db') = Shown(db)
    BY <2>2 DEF Ledger!vars, Versions, Shown, InLineage
  <2> QED
    BY <2>1, <2>2, LedgerStep
<1> QED
  BY <1>1, <1>2, <1>3, LineageCorrect, PTL DEF Spec, ImplementsLedger, Ledger!Spec

-----------------------------------------------------------------------------
(* QuarantineReview.                                                       *)

RowId == [gen: Nat \ {0}, event: Nat \ {0}, key: Keys]

SessionOK ==
    session \in [Operators -> [doing: {"idle", "release", "reject"},
                               row: RowId \cup {NoRowRead}]]

-----------------------------------------------------------------------------
(* Sets of quarantine rows.                                                *)

\* (generation_id, source_event_id, natural key) names one row.
IdsUnique(Q) == \A q, r \in Q : Id(q) = Id(r) => q = r

Settled(Q) == {q \in Q : q.status # "unresolved"}

Resolved(Q, id, status) ==
    {IF Id(q) = id THEN [q EXCEPT !.status = status] ELSE q : q \in Q}

LEMMA RowFields ==
    ASSUME NEW q \in QuarantineRow, NEW st \in {"released", "rejected"}
    PROVE  LET u == [q EXCEPT !.status = st]
           IN  /\ u \in QuarantineRow /\ u.status = st /\ Id(u) = Id(q)
               /\ u.gen = q.gen /\ u.event = q.event /\ u.key = q.key
               /\ Id(q) \in RowId
               /\ Id(q).gen = q.gen /\ Id(q).event = q.event /\ Id(q).key = q.key
BY DEF QuarantineRow, RowId, Id

\* What an UPDATE by id does to the rows, and to how many are settled.
LEMMA ResolvedRows ==
    ASSUME NEW Q \in SUBSET QuarantineRow, IsFiniteSet(Q), IdsUnique(Q),
           NEW q0 \in Q, NEW st \in {"released", "rejected"}
    PROVE  LET u == [q0 EXCEPT !.status = st]
               R == Resolved(Q, Id(q0), st)
           IN  /\ R = (Q \ {q0}) \cup {u}
               /\ R \in SUBSET QuarantineRow /\ IsFiniteSet(R) /\ IdsUnique(R)
               /\ Cardinality(Settled(Q)) \in Nat
               /\ Cardinality(Settled(R)) \in Nat
               /\ Cardinality(Settled(Q)) <= Cardinality(Settled(R))
               /\ q0.status = "unresolved" =>
                     Cardinality(Settled(R)) = Cardinality(Settled(Q)) + 1
<1> DEFINE u == [q0 EXCEPT !.status = st]
           R == Resolved(Q, Id(q0), st)
           rest == Settled(Q) \ {q0}
<1>1. u \in QuarantineRow /\ u.status = st /\ Id(u) = Id(q0) /\ u.status # "unresolved"
  BY RowFields
<1>2. R = (Q \ {q0}) \cup {u}
  BY DEF IdsUnique, Resolved
<1> HIDE DEF u, R
<1>3. IdsUnique(R)
  BY <1>1, <1>2 DEF IdsUnique
<1>4. IsFiniteSet(R)
  BY <1>2, FS_RemoveElement, FS_AddElement
<1>5. /\ IsFiniteSet(Settled(Q)) /\ IsFiniteSet(rest)
      /\ Cardinality(Settled(Q)) \in Nat /\ Cardinality(rest) \in Nat
      /\ Cardinality(rest) = IF q0 \in Settled(Q) THEN Cardinality(Settled(Q)) - 1
                             ELSE Cardinality(Settled(Q))
  <2>1. IsFiniteSet(Settled(Q))
    BY FS_Subset DEF Settled
  <2> QED
    BY <2>1, FS_RemoveElement, FS_CardinalityType
<1>6. Settled(R) = rest \cup {u} /\ u \notin rest
  BY <1>1, <1>2 DEF Settled, IdsUnique
<1>7. Cardinality(Settled(R)) = Cardinality(rest) + 1
  BY ZenonT(30), <1>5, <1>6, FS_AddElement
<1>8. q0.status = "unresolved" => q0 \notin Settled(Q)
  BY DEF Settled
<1> QED
  BY <1>1, <1>2, <1>3, <1>4, <1>5, <1>7, <1>8 DEF u, R

-----------------------------------------------------------------------------
(* What the two resolutions leave in the tables.                           *)

LEMMA ResolveFields ==
    ASSUME NEW d \in Tables, NEW id, NEW st \in {"released", "rejected"}
    PROVE  LET u == Resolve(d, id, st)
           IN  /\ u \in Tables /\ u.quarantine = Resolved(d.quarantine, id, st)
               /\ u.snapshots = d.snapshots /\ u.canonical = d.canonical
               /\ u.cursor = d.cursor /\ u.jobs = d.jobs /\ u.issues = d.issues
<1>1. Resolved(d.quarantine, id, st) \in SUBSET QuarantineRow
  <2> SUFFICES ASSUME NEW q \in d.quarantine
               PROVE  [q EXCEPT !.status = st] \in QuarantineRow /\ q \in QuarantineRow
    BY DEF Resolved
  <2>1. q \in QuarantineRow
    BY TableFields
  <2> QED
    BY <2>1, RowFields
<1>2. Resolve(d, id, st) = [d EXCEPT !.quarantine = Resolved(d.quarantine, id, st)]
  BY DEF Resolve, Resolved
<1> QED
  BY <1>1, <1>2 DEF Tables

LEMMA ReleasedFields ==
    ASSUME NEW d \in Tables, NEW id \in RowId
    PROVE  LET u == Released(d, id)
           IN  /\ u \in Tables
               /\ u.quarantine = Resolved(d.quarantine, id, "released")
               /\ Len(u.jobs) = Len(d.jobs) + 1
               /\ \A i \in 1..Len(d.jobs) : u.jobs[i] = d.jobs[i]
               /\ u.jobs[Len(d.jobs) + 1].status = "quarantine_release"
               /\ u.snapshots = d.snapshots \cup
                      {[key |-> id.key, gen |-> Len(d.jobs) + 1, event |-> id.event,
                        deleted |-> FALSE, sup |-> 0]}
               /\ u.canonical = [d.canonical EXCEPT ![id.key] =
                                    [event |-> id.event, deleted |-> FALSE]]
<1> DEFINE job == [status |-> "quarantine_release", before |-> 0]
           row == [key |-> id.key, gen |-> Len(d.jobs) + 1, event |-> id.event,
                   deleted |-> FALSE, sup |-> 0]
           S == d.snapshots \cup {row}
           C == [d.canonical EXCEPT ![id.key] = [event |-> id.event, deleted |-> FALSE]]
           d0 == Resolve(d, id, "released")
           d1 == [d0 EXCEPT !.jobs = Append(@, job)]
           d2 == [d1 EXCEPT !.snapshots = S]
<1>1. /\ d0 \in Tables /\ d0.quarantine = Resolved(d.quarantine, id, "released")
      /\ d0.snapshots = d.snapshots /\ d0.canonical = d.canonical /\ d0.jobs = d.jobs
  BY ResolveFields
<1>2. job \in Job /\ job.status = "quarantine_release"
  BY DEF Job, Status
<1>3. row \in Snapshot
  BY TableFields DEF Snapshot, RowId
<1>4. [event |-> id.event, deleted |-> FALSE] \in CanonicalRow /\ id.key \in Keys
  BY DEF CanonicalRow, RowId
<1>5. S \in SUBSET Snapshot /\ C \in [Keys -> CanonicalRow]
  BY <1>3, <1>4, TableFields
<1>6. Released(d, id) = [d2 EXCEPT !.canonical = C]
  BY <1>1 DEF Released
<1> HIDE DEF S, C, d0, job, row
<1>7. /\ d1 \in Tables /\ d1.quarantine = d0.quarantine
      /\ Len(d1.jobs) = Len(d.jobs) + 1
      /\ \A i \in 1..Len(d.jobs) : d1.jobs[i] = d.jobs[i]
      /\ d1.jobs[Len(d.jobs) + 1] = job
  BY <1>1, <1>2, AppendJob
<1> HIDE DEF d1
<1>8. /\ d2 \in Tables /\ d2.quarantine = d1.quarantine /\ d2.jobs = d1.jobs
      /\ d2.snapshots = S
  BY <1>5, <1>7, UpdateSnapshots
<1> HIDE DEF d2
<1>9. LET u == [d2 EXCEPT !.canonical = C]
      IN  /\ u \in Tables /\ u.quarantine = d2.quarantine /\ u.jobs = d2.jobs
          /\ u.snapshots = d2.snapshots /\ u.canonical = C
  BY <1>5, <1>8, UpdateCanonical
<1>10. Released(d, id).snapshots = S /\ Released(d, id).canonical = C
  BY <1>6, <1>8, <1>9
<1> QED
  BY <1>1, <1>2, <1>6, <1>7, <1>8, <1>9, <1>10 DEF S, C, row

-----------------------------------------------------------------------------
(* The inductive invariant.                                                *)

ReleaseJobs(d) == {j \in 1..Len(d.jobs) : d.jobs[j].status = "quarantine_release"}

RowsOK(d) ==
    /\ IsFiniteSet(d.quarantine)
    /\ IdsUnique(d.quarantine)
    /\ \A q \in d.quarantine : q.gen <= Len(d.jobs)

\* The page in progress quarantines an event at most once, resolves nothing
\* and releases nothing.
PageRowsOK ==
    /\ RowsOK(work)
    /\ db.quarantine \subseteq work.quarantine
    /\ Settled(work.quarantine) = Settled(db.quarantine)
    /\ ReleaseJobs(work) = ReleaseJobs(db)
    /\ Len(work.jobs) = Len(db.jobs) + 1
    /\ work.jobs[CurrentJob].status = "running"
    /\ \A q \in work.quarantine : q.gen = CurrentJob => q.event < page.next

\* A release under way holds the lock of a row that is still unresolved.
SessionsHold ==
    /\ \A o \in Operators :
          session[o].doing = "release" =>
              \E q \in db.quarantine : Id(q) = session[o].row /\ q.status = "unresolved"
    /\ \A o \in Operators :
          session[o].doing = "reject" => \E q \in db.quarantine : Id(q) = session[o].row
    /\ \A o1, o2 \in Operators :
          /\ session[o1].doing = "release" /\ session[o2].doing = "release"
          /\ session[o1].row = session[o2].row
          => o1 = o2

ReviewInv ==
    /\ RowsOK(db)
    /\ page.open => PageRowsOK
    /\ SessionsHold
    /\ EachReleaseResolvesOneRow

LEMMA CountDef ==
    EachReleaseResolvesOneRow <=>
        Cardinality(ReleaseJobs(db)) <= Cardinality(Settled(db.quarantine))
BY DEF EachReleaseResolvesOneRow, ReleaseJobs, Settled

\* A job row that is not a release's is appended.
LEMMA ReleaseJobsKept ==
    ASSUME NEW d \in Tables, NEW u \in Tables,
           Len(u.jobs) = Len(d.jobs)
           \/ /\ Len(u.jobs) = Len(d.jobs) + 1
              /\ u.jobs[Len(d.jobs) + 1].status # "quarantine_release",
           \A i \in 1..Len(d.jobs) :
               u.jobs[i].status = "quarantine_release"
                   <=> d.jobs[i].status = "quarantine_release"
    PROVE  ReleaseJobs(u) = ReleaseJobs(d)
<1>1. Len(d.jobs) \in Nat
  BY TableFields
<1>2. 1..Len(u.jobs) = 1..Len(d.jobs) \cup {Len(u.jobs)} \/ Len(u.jobs) = Len(d.jobs)
  BY <1>1
<1> QED
  BY <1>1, <1>2 DEF ReleaseJobs

\* Sessions and counts look at the committed rows and release jobs only.
LEMMA CommittedKept ==
    ASSUME RowsOK(db), SessionsHold, EachReleaseResolvesOneRow,
           db.quarantine \subseteq db'.quarantine,
           Settled(db'.quarantine) = Settled(db.quarantine),
           ReleaseJobs(db') = ReleaseJobs(db), session' = session
    PROVE  /\ SessionsHold' /\ EachReleaseResolvesOneRow'
           /\ \A q \in db.quarantine : q \in db'.quarantine
<1>1. SessionsHold'
  BY DEF SessionsHold
<1>2. EachReleaseResolvesOneRow'
  BY DEF EachReleaseResolvesOneRow, ReleaseJobs, Settled
<1> QED
  BY <1>1, <1>2

\* The worker, retry and revert.
LEMMA WorkerStep ==
    ASSUME TypeInv, ReviewInv, [Next]_vars, session' = session
    PROVE  ReviewInv' /\ db.quarantine \subseteq db'.quarantine
<1>a. /\ db \in Tables /\ work \in Tables /\ db' \in Tables /\ work' \in Tables
      /\ page \in Page /\ Len(db.jobs) \in Nat /\ Len(work.jobs) \in Nat
      /\ db.quarantine \subseteq QuarantineRow /\ work.quarantine \subseteq QuarantineRow
  BY StepTypes, TableFields
<1>b. /\ RowsOK(db) /\ SessionsHold /\ EachReleaseResolvesOneRow
      /\ page.open => PageRowsOK
  BY DEF ReviewInv
<1>c. CurrentJob = Len(work.jobs)
  BY DEF CurrentJob
\* Steps that leave the committed tables alone.
<1>d. ASSUME db' = db, page'.open => PageRowsOK'
      PROVE  ReviewInv' /\ db.quarantine \subseteq db'.quarantine
  <2>1. SessionsHold' /\ EachReleaseResolvesOneRow'
    BY <1>b, <1>d, CommittedKept
  <2>2. RowsOK(db)'
    BY <1>b, <1>d DEF RowsOK
  <2> QED
    BY <1>d, <2>1, <2>2 DEF ReviewInv
\* Steps between pages that append a job.
<1>e. ASSUME ~page'.open, db'.quarantine = db.quarantine,
             Len(db'.jobs) = Len(db.jobs)
             \/ /\ Len(db'.jobs) = Len(db.jobs) + 1
                /\ db'.jobs[Len(db.jobs) + 1].status # "quarantine_release",
             \A i \in 1..Len(db.jobs) : db'.jobs[i].status = db.jobs[i].status
      PROVE  ReviewInv' /\ db.quarantine \subseteq db'.quarantine
  <2>1. ReleaseJobs(db') = ReleaseJobs(db)
    BY <1>a, <1>e, ReleaseJobsKept
  <2>2. SessionsHold' /\ EachReleaseResolvesOneRow'
    BY <1>b, <1>e, <2>1, CommittedKept
  <2>3. RowsOK(db')
    <3>1. \A q \in db.quarantine : q.gen \in Nat /\ q.gen <= Len(db.jobs)
      BY <1>a, <1>b DEF RowsOK, QuarantineRow
    <3> QED
      BY <1>a, <1>b, <1>e, <3>1 DEF RowsOK
  <2> QED
    BY <1>e, <2>2, <2>3 DEF ReviewInv, RowsOK
\* Steps inside the page that quarantine nothing.
<1>f. ASSUME page.open, page'.open, db' = db, page'.next = page.next + 1,
             work'.quarantine = work.quarantine, work'.jobs = work.jobs
      PROVE  ReviewInv' /\ db.quarantine \subseteq db'.quarantine
  <2>1. PageRowsOK
    BY <1>b, <1>f
  <2>2. ReleaseJobs(work') = ReleaseJobs(work)
    BY <1>f DEF ReleaseJobs
  <2>3. \A q \in work.quarantine : q.gen = CurrentJob => q.event < page.next + 1
    BY <1>a, <2>1 DEF PageRowsOK, QuarantineRow, Page
  <2>4. PageRowsOK'
    BY <1>f, <2>1, <2>2, <2>3 DEF PageRowsOK, RowsOK, ReleaseJobs, CurrentJob
  <2> QED
    BY <1>d, <1>f, <2>4
<1>1. CASE \E e \in Event : Publish(e)
  <2>1. db' = db /\ work' = work /\ page' = page
    BY <1>1 DEF Publish
  <2>2. page'.open => PageRowsOK'
    BY <1>b, <2>1 DEF PageRowsOK, RowsOK, ReleaseJobs, CurrentJob
  <2> QED
    BY <1>d, <2>1, <2>2
<1>2. CASE Poll
  <2>1. /\ db' = db /\ work'.quarantine = db.quarantine
        /\ Len(work'.jobs) = Len(db.jobs) + 1
        /\ \A i \in 1..Len(db.jobs) : work'.jobs[i] = db.jobs[i]
        /\ work'.jobs[Len(db.jobs) + 1].status = "running"
    BY <1>2, PollEffect
  <2>2. ReleaseJobs(work') = ReleaseJobs(db)
    BY <1>a, <2>1, ReleaseJobsKept
  <2>3. \A q \in db.quarantine : q.gen \in Nat /\ q.gen <= Len(db.jobs)
    BY <1>a, <1>b DEF RowsOK, QuarantineRow
  <2>4. RowsOK(work')
    BY <1>a, <1>b, <2>1, <2>3 DEF RowsOK
  <2>5. \A q \in work'.quarantine : q.gen # Len(work'.jobs)
    BY <1>a, <2>1, <2>3
  <2>6. PageRowsOK'
    BY <2>1, <2>2, <2>4, <2>5 DEF PageRowsOK, RowsOK, ReleaseJobs, CurrentJob
  <2> QED
    BY <1>d, <2>1, <2>6
<1>3. CASE BlockPage
  <2>1. /\ ~page'.open /\ db'.quarantine = db.quarantine
        /\ Len(db'.jobs) = Len(db.jobs) + 1
        /\ db'.jobs[Len(db.jobs) + 1].status = "failed"
        /\ \A i \in 1..Len(db.jobs) : db'.jobs[i] = db.jobs[i]
    BY <1>3, BlockPageEffect
  <2> QED
    BY <1>e, <2>1
<1>4. ASSUME NEW p \in 1..Len(feed), SkipEvent(p) \/ DedupEvent(p) \/ WriteEvent(p)
      PROVE  ReviewInv' /\ db.quarantine \subseteq db'.quarantine
  <2>1. /\ Pending(p) /\ Advance(feed[p]) /\ db' = db
        /\ work'.quarantine = work.quarantine /\ work'.jobs = work.jobs
    BY <1>4, SkipEffect, WriteEffect DEF DedupEvent
  <2>2. page.open /\ page'.open /\ page'.next = page.next + 1
    BY <2>1, AdvanceEffect DEF Pending
  <2> QED
    BY <1>f, <2>1, <2>2
<1>5. ASSUME NEW p \in 1..Len(feed), QuarantineEvent(p)
      PROVE  ReviewInv' /\ db.quarantine \subseteq db'.quarantine
  <2>1. Pending(p) /\ Advance(feed[p]) /\ db' = db /\ work'.jobs = work.jobs
    BY <1>5, QuarantineEffect
  <2>2. page.open /\ page'.open /\ page.next = p /\ page'.next = p + 1 /\ p \in Nat
    BY <2>1, AdvanceEffect, PendingTypes DEF Pending
  <2>3. PICK row \in QuarantineRow :
           /\ row.gen = CurrentJob /\ row.event = p /\ row.status = "unresolved"
           /\ work'.quarantine = work.quarantine \cup {row}
    BY <1>5, QuarantineEffect
  <2>4. PageRowsOK /\ RowsOK(work)
    BY <1>b, <2>2 DEF PageRowsOK
  <2>5. \A q \in work.quarantine : q.gen = CurrentJob => q.event < p
    BY <2>2, <2>4 DEF PageRowsOK
  <2>6. \A q \in work.quarantine : Id(q) # Id(row)
    BY <1>a, <2>2, <2>3, <2>5 DEF Id
  <2>7. RowsOK(work')
    <3>1. IsFiniteSet(work'.quarantine)
      BY <2>3, <2>4, FS_AddElement DEF RowsOK
    <3>2. IdsUnique(work'.quarantine)
      BY <2>3, <2>4, <2>6 DEF RowsOK, IdsUnique
    <3>3. row.gen <= Len(work.jobs)
      BY <1>a, <1>c, <2>3
    <3>4. \A q \in work'.quarantine : q.gen <= Len(work'.jobs)
      BY <2>1, <2>3, <2>4, <3>3 DEF RowsOK
    <3> QED
      BY <3>1, <3>2, <3>4 DEF RowsOK
  <2>8. Settled(work'.quarantine) = Settled(work.quarantine)
    BY <2>3 DEF Settled
  <2>9. \A q \in work'.quarantine : q.gen = CurrentJob => q.event < p + 1
    BY <1>a, <2>2, <2>3, <2>5 DEF QuarantineRow
  <2>10. ReleaseJobs(work') = ReleaseJobs(work)
    BY <2>1 DEF ReleaseJobs
  <2>11. db.quarantine \subseteq work'.quarantine
    BY <2>3, <2>4 DEF PageRowsOK
  <2>12. CurrentJob' = CurrentJob
    BY <2>1 DEF CurrentJob
  <2>13. PageRowsOK'
    BY <2>1, <2>2, <2>4, <2>7, <2>8, <2>9, <2>10, <2>11, <2>12
       DEF PageRowsOK, RowsOK, ReleaseJobs
  <2> QED
    BY <1>d, <2>1, <2>13
<1>6. CASE CommitPage
  <2>1. /\ page.open /\ ~page'.open /\ db'.quarantine = work.quarantine
        /\ Len(db'.jobs) = Len(work.jobs)
    BY <1>6, CommitEffect
  <2>2. PageRowsOK
    BY <1>b, <2>1
  <2>3. \A i \in 1..Len(work.jobs) :
           db'.jobs[i].status = "quarantine_release"
               <=> work.jobs[i].status = "quarantine_release"
    BY <1>6, <2>2, CommitEffect DEF PageRowsOK
  <2>4. ReleaseJobs(db') = ReleaseJobs(work)
    BY <1>a, <2>1, <2>3, ReleaseJobsKept
  <2>5. /\ db.quarantine \subseteq db'.quarantine
        /\ Settled(db'.quarantine) = Settled(db.quarantine)
        /\ ReleaseJobs(db') = ReleaseJobs(db)
    BY <2>1, <2>2, <2>4 DEF PageRowsOK
  <2>6. SessionsHold' /\ EachReleaseResolvesOneRow'
    BY <1>b, <2>5, CommittedKept
  <2>7. RowsOK(db)'
    BY <2>1, <2>2 DEF PageRowsOK, RowsOK
  <2> QED
    BY <2>1, <2>5, <2>6, <2>7 DEF ReviewInv
<1>7. CASE Crash
  <2>1. db' = db /\ ~page'.open
    BY <1>7 DEF Crash, NoPage
  <2> QED
    BY <1>d, <2>1
<1>8. ASSUME NEW j \in 1..Len(db.jobs), NEW forced \in BOOLEAN, Retry(j, forced)
      PROVE  ReviewInv' /\ db.quarantine \subseteq db'.quarantine
  <2>1. ~page'.open /\ db'.quarantine = db.quarantine /\ db'.jobs = db.jobs
    BY <1>8, RetryEffect
  <2> QED
    BY <1>e, <2>1
<1>9. ASSUME NEW j \in 1..Len(db.jobs), Revert(j)
      PROVE  ReviewInv' /\ db.quarantine \subseteq db'.quarantine
  <2>1. /\ ~page'.open /\ db'.quarantine = db.quarantine
        /\ Len(db'.jobs) = Len(db.jobs) + 1
        /\ \A i \in 1..Len(db.jobs) : db'.jobs[i] = db.jobs[i]
    BY <1>9, RevertEffect
  <2>2. db'.jobs[Len(db.jobs) + 1].status = "revert"
    <3>1. db'.jobs[Len(db.jobs) + 1] = [status |-> "revert", before |-> 0]
      BY <1>9, RevertEffect
    <3> QED
      BY <3>1
  <2> QED
    BY <1>e, <2>1, <2>2
<1>10. CASE UNCHANGED vars
  <2>1. db' = db /\ work' = work /\ page' = page
    BY <1>10 DEF vars
  <2>2. page'.open => PageRowsOK'
    BY <1>b, <2>1 DEF PageRowsOK, RowsOK, ReleaseJobs, CurrentJob
  <2> QED
    BY <1>d, <2>1, <2>2
<1> QED
  BY <1>1, <1>2, <1>3, <1>4, <1>5, <1>6, <1>7, <1>8, <1>9, <1>10
     DEF Next, Worker, ProcessEvent, Operator

-----------------------------------------------------------------------------
(* The operators.                                                          *)

TypedReview == TypeInv /\ SessionOK /\ ReviewInv

\* What ResolvedOnceUnlessRaced allows a step.
Allowed ==
    \A q \in db.quarantine :
        q.status # "unresolved" =>
           \/ q \in db'.quarantine
           \/ /\ q.status = "released"
              /\ [q EXCEPT !.status = "rejected"] \in db'.quarantine
              /\ \E o \in Operators :
                    session[o] = [doing |-> "reject", row |-> Id(q)]

LEMMA ReviewTypes ==
    ASSUME TypedReview
    PROVE  /\ db \in Tables /\ Len(db.jobs) \in Nat
           /\ db.quarantine \subseteq QuarantineRow
           /\ RowsOK(db) /\ SessionsHold /\ EachReleaseResolvesOneRow
           /\ \A o \in Operators :
                 /\ session[o] = [doing |-> session[o].doing, row |-> session[o].row]
                 /\ session[o].doing \in {"idle", "release", "reject"}
                 /\ session[o].row \in RowId \cup {NoRowRead}
<1>1. db \in Tables
  BY DEF TypedReview, TypeInv, TypeOK
<1> QED
  BY <1>1, TableFields DEF TypedReview, SessionOK, ReviewInv

\* An operator begins, or gives up: the tables are as they were.
LEMMA SessionStep ==
    ASSUME TypedReview, UNCHANGED vars, NEW o \in Operators,
           NEW t \in [doing: {"idle", "release", "reject"}, row: RowId \cup {NoRowRead}],
           session' = [session EXCEPT ![o] = t],
           t.doing # "idle" => \E q \in db.quarantine :
                                  Id(q) = t.row /\ q.status = "unresolved",
           t.doing = "release" => ~Locked(t.row)
    PROVE  TypedReview' /\ Allowed
<1>1. db' = db /\ work' = work /\ page' = page
  BY DEF vars
<1>2. /\ session' \in [Operators -> [doing: {"idle", "release", "reject"},
                                     row: RowId \cup {NoRowRead}]]
      /\ session'[o] = t /\ \A o1 \in Operators : o1 # o => session'[o1] = session[o1]
  BY DEF TypedReview, SessionOK
<1>3. TypeInv'
  BY TypeStep DEF TypedReview
<1>4. SessionsHold'
  <2>1. \A o1 \in Operators :
           session'[o1].doing = "release" =>
               \E q \in db.quarantine : Id(q) = session'[o1].row /\ q.status = "unresolved"
    BY <1>2, ReviewTypes DEF SessionsHold
  <2>2. \A o1 \in Operators :
           session'[o1].doing = "reject" => \E q \in db.quarantine : Id(q) = session'[o1].row
    BY <1>2, ReviewTypes DEF SessionsHold
  <2>3. ASSUME t.doing = "release", NEW o1 \in Operators, o1 # o,
               session[o1].doing = "release", session[o1].row = t.row
        PROVE  FALSE
    BY <2>3, ReviewTypes DEF Locked
  <2>4. \A o1, o2 \in Operators :
           /\ session'[o1].doing = "release" /\ session'[o2].doing = "release"
           /\ session'[o1].row = session'[o2].row
           => o1 = o2
    BY <1>2, <2>3, ReviewTypes DEF SessionsHold
  <2> QED
    BY <1>1, <2>1, <2>2, <2>4 DEF SessionsHold
<1>5. ReviewInv'
  BY <1>1, <1>4 DEF TypedReview, ReviewInv, PageRowsOK, RowsOK, ReleaseJobs,
     CurrentJob, EachReleaseResolvesOneRow
<1> QED
  BY <1>1, <1>2, <1>3, <1>5 DEF TypedReview, SessionOK, Allowed

\* An operator resolves row q0 and commits.
LEMMA FinishStep ==
    ASSUME TypedReview, NEW o \in Operators, NEW st \in {"released", "rejected"},
           NEW q0 \in db.quarantine, ~page.open, page' = page,
           UNCHANGED <<feed, audit, unproductive>>, work' = db', db' \in Tables,
           db'.quarantine = Resolved(db.quarantine, Id(q0), st),
           session' = [session EXCEPT ![o] = Idle],
           \A o1 \in Operators :
               o1 # o /\ session[o1].doing = "release" => session[o1].row # Id(q0),
           \/ /\ st = "released" /\ q0.status = "unresolved"
              /\ Len(db'.jobs) = Len(db.jobs) + 1
              /\ \A i \in 1..Len(db.jobs) : db'.jobs[i] = db.jobs[i]
           \/ /\ st = "rejected" /\ db'.jobs = db.jobs
              /\ session[o] = [doing |-> "reject", row |-> Id(q0)]
    PROVE  TypedReview' /\ Allowed
<1> DEFINE u == [q0 EXCEPT !.status = st]
<1>1. /\ db \in Tables /\ Len(db.jobs) \in Nat /\ db.quarantine \subseteq QuarantineRow
      /\ RowsOK(db) /\ SessionsHold /\ EachReleaseResolvesOneRow
  BY ReviewTypes
<1>2. /\ db'.quarantine = (db.quarantine \ {q0}) \cup {u}
      /\ IsFiniteSet(db'.quarantine) /\ IdsUnique(db'.quarantine)
      /\ Cardinality(Settled(db.quarantine)) \in Nat
      /\ Cardinality(Settled(db'.quarantine)) \in Nat
      /\ Cardinality(Settled(db.quarantine)) <= Cardinality(Settled(db'.quarantine))
      /\ q0.status = "unresolved" =>
            Cardinality(Settled(db'.quarantine)) = Cardinality(Settled(db.quarantine)) + 1
  BY <1>1, ResolvedRows DEF RowsOK
<1>3. u.status = st /\ Id(u) = Id(q0) /\ u.gen = q0.gen
  BY <1>1, RowFields
<1> HIDE DEF u
<1>4. /\ session'[o] = Idle /\ Idle.doing = "idle"
      /\ \A o1 \in Operators : o1 # o => session'[o1] = session[o1]
      /\ SessionOK'
  <2>1. Idle \in [doing: {"idle", "release", "reject"}, row: RowId \cup {NoRowRead}]
        /\ Idle.doing = "idle"
    BY DEF Idle
  <2> QED
    BY <2>1 DEF TypedReview, SessionOK
<1>5. TypeInv'
  BY DEF TypedReview, TypeInv, TypeOK, JobInserted
<1>6. RowsOK(db')
  <2>1. \A q \in db'.quarantine : q.gen <= Len(db.jobs) /\ q.gen \in Nat
    BY <1>1, <1>2, <1>3 DEF RowsOK, QuarantineRow
  <2>2. Len(db.jobs) <= Len(db'.jobs) /\ Len(db'.jobs) \in Nat
    BY <1>1
  <2> QED
    BY <1>1, <1>2, <2>1, <2>2 DEF RowsOK
<1>7. SessionsHold'
  <2>1. \A o1 \in Operators :
           session'[o1].doing = "release" =>
               \E q \in db'.quarantine : Id(q) = session'[o1].row /\ q.status = "unresolved"
    BY <1>1, <1>2, <1>4 DEF SessionsHold
  <2>2. \A o1 \in Operators :
           session'[o1].doing = "reject" => \E q \in db'.quarantine : Id(q) = session'[o1].row
    BY <1>1, <1>2, <1>3, <1>4 DEF SessionsHold
  <2>3. \A o1, o2 \in Operators :
           /\ session'[o1].doing = "release" /\ session'[o2].doing = "release"
           /\ session'[o1].row = session'[o2].row
           => o1 = o2
    BY <1>1, <1>4 DEF SessionsHold
  <2> QED
    BY <2>1, <2>2, <2>3 DEF SessionsHold
<1>8. Cardinality(ReleaseJobs(db')) <= Cardinality(Settled(db'.quarantine))
  <2>1. /\ IsFiniteSet(ReleaseJobs(db)) /\ Cardinality(ReleaseJobs(db)) \in Nat
        /\ Cardinality(ReleaseJobs(db)) <= Cardinality(Settled(db.quarantine))
    <3>1. IsFiniteSet(1..Len(db.jobs))
      BY <1>1, FS_Interval
    <3>2. IsFiniteSet(ReleaseJobs(db))
      BY <3>1, FS_Subset DEF ReleaseJobs
    <3> QED
      BY <1>1, <3>2, FS_CardinalityType, CountDef
  <2>2. CASE db'.jobs = db.jobs
    <3>1. ReleaseJobs(db') = ReleaseJobs(db)
      BY <2>2 DEF ReleaseJobs
    <3> QED
      BY <1>2, <2>1, <3>1
  <2>3. CASE /\ q0.status = "unresolved" /\ Len(db'.jobs) = Len(db.jobs) + 1
             /\ \A i \in 1..Len(db.jobs) : db'.jobs[i] = db.jobs[i]
    <3>0. \A i \in 1..(Len(db.jobs) + 1) : i \in 1..Len(db.jobs) \/ i = Len(db.jobs) + 1
      BY <1>1
    <3>1. ReleaseJobs(db') \subseteq ReleaseJobs(db) \cup {Len(db.jobs) + 1}
      BY <2>3, <3>0 DEF ReleaseJobs
    <3>2. /\ IsFiniteSet(ReleaseJobs(db) \cup {Len(db.jobs) + 1})
          /\ Cardinality(ReleaseJobs(db) \cup {Len(db.jobs) + 1}) \in Nat
          /\ Cardinality(ReleaseJobs(db) \cup {Len(db.jobs) + 1})
                <= Cardinality(ReleaseJobs(db)) + 1
      <4> DEFINE n == Len(db.jobs) + 1
      <4>1. /\ IsFiniteSet(ReleaseJobs(db) \cup {n})
            /\ Cardinality(ReleaseJobs(db) \cup {n}) =
                  IF n \in ReleaseJobs(db) THEN Cardinality(ReleaseJobs(db))
                  ELSE Cardinality(ReleaseJobs(db)) + 1
        BY <2>1, FS_AddElement
      <4> HIDE DEF n
      <4>2. Cardinality(ReleaseJobs(db) \cup {n}) \in Nat
            /\ Cardinality(ReleaseJobs(db) \cup {n}) <= Cardinality(ReleaseJobs(db)) + 1
        BY <2>1, <4>1
      <4> QED
        BY <4>1, <4>2 DEF n
    <3>3. Cardinality(ReleaseJobs(db')) <= Cardinality(ReleaseJobs(db) \cup {Len(db.jobs) + 1})
          /\ Cardinality(ReleaseJobs(db')) \in Nat
      BY <3>1, <3>2, FS_Subset, FS_CardinalityType
    <3> QED
      BY <1>2, <2>1, <2>3, <3>2, <3>3
  <2> QED
    BY <2>2, <2>3
<1>9. EachReleaseResolvesOneRow'
  BY <1>8 DEF EachReleaseResolvesOneRow, ReleaseJobs, Settled
<1>10. ReviewInv'
  BY <1>6, <1>7, <1>9 DEF ReviewInv, RowsOK
<1>11. Allowed
  <2> SUFFICES ASSUME NEW q \in db.quarantine, q.status # "unresolved",
                      q \notin db'.quarantine
               PROVE  /\ q.status = "released"
                      /\ [q EXCEPT !.status = "rejected"] \in db'.quarantine
                      /\ \E o1 \in Operators :
                            session[o1] = [doing |-> "reject", row |-> Id(q)]
    BY DEF Allowed
  <2>1. q = q0
    BY <1>2
  <2>2. st = "rejected" /\ session[o] = [doing |-> "reject", row |-> Id(q)]
    BY <2>1
  <2>3. u = [q EXCEPT !.status = "rejected"] /\ u \in db'.quarantine
    BY <1>2, <2>1, <2>2 DEF u
  <2>4. q.status = "released"
    <3>1. q \in QuarantineRow
      BY <1>1
    <3>2. q.status = "rejected" => [q EXCEPT !.status = "rejected"] = q
      BY <3>1 DEF QuarantineRow
    <3> QED
      BY <2>3, <3>1, <3>2 DEF QuarantineRow
  <2> QED
    BY <2>2, <2>3, <2>4
<1> QED
  BY <1>4, <1>5, <1>10, <1>11 DEF TypedReview

LEMMA ReviewStep ==
    TypedReview /\ [ReviewNext]_reviewVars => TypedReview' /\ Allowed
<1> SUFFICES ASSUME TypedReview, [ReviewNext]_reviewVars
             PROVE  TypedReview' /\ Allowed
  OBVIOUS
<1>1. CASE [Next]_vars /\ UNCHANGED session
  <2>1. TypeInv' /\ ReviewInv' /\ db.quarantine \subseteq db'.quarantine
    BY <1>1, TypeStep, WorkerStep DEF TypedReview
  <2> QED
    BY <1>1, <2>1 DEF TypedReview, SessionOK, Allowed
<1>2. ASSUME NEW o \in Operators, NEW q \in db.quarantine,
             BeginRelease(o, q) \/ BeginReject(o, q)
      PROVE  TypedReview' /\ Allowed
  <2>0. q \in QuarantineRow /\ Id(q) \in RowId
    BY ReviewTypes, RowFields
  <2>1. CASE BeginRelease(o, q)
    <3> DEFINE t == [doing |-> "release", row |-> Id(q)]
    <3>1. /\ UNCHANGED vars /\ session' = [session EXCEPT ![o] = t]
          /\ q.status = "unresolved" /\ ~Locked(Id(q))
      BY <2>1 DEF BeginRelease
    <3>2. /\ t \in [doing: {"idle", "release", "reject"}, row: RowId \cup {NoRowRead}]
          /\ t.row = Id(q)
      BY <2>0
    <3> HIDE DEF t
    <3> QED
      BY <3>1, <3>2, SessionStep
  <2>2. CASE BeginReject(o, q)
    <3> DEFINE t == [doing |-> "reject", row |-> Id(q)]
    <3>1. /\ UNCHANGED vars /\ session' = [session EXCEPT ![o] = t]
          /\ q.status = "unresolved"
      BY <2>2 DEF BeginReject
    <3>2. /\ t \in [doing: {"idle", "release", "reject"}, row: RowId \cup {NoRowRead}]
          /\ t.row = Id(q) /\ t.doing # "release"
      BY <2>0
    <3> HIDE DEF t
    <3> QED
      BY <3>1, <3>2, SessionStep
  <2> QED
    BY <1>2, <2>1, <2>2
<1>3. ASSUME NEW o \in Operators, FinishRelease(o) PROVE TypedReview' /\ Allowed
  <2>1. session[o].doing = "release"
    BY <1>3 DEF FinishRelease
  <2>2. PICK q0 \in db.quarantine : Id(q0) = session[o].row /\ q0.status = "unresolved"
    BY <2>1, ReviewTypes DEF SessionsHold
  <2>3. Id(q0) \in RowId
    BY ReviewTypes, RowFields
  <2>4. /\ ~page.open /\ page' = page /\ UNCHANGED <<feed, audit, unproductive>>
        /\ db' = Released(db, Id(q0)) /\ work' = db'
        /\ session' = [session EXCEPT ![o] = Idle]
    BY <1>3, <2>2 DEF FinishRelease, Commit
  <2>5. /\ db' \in Tables /\ db'.quarantine = Resolved(db.quarantine, Id(q0), "released")
        /\ Len(db'.jobs) = Len(db.jobs) + 1
        /\ \A i \in 1..Len(db.jobs) : db'.jobs[i] = db.jobs[i]
    BY <2>3, <2>4, ReviewTypes, ReleasedFields
  <2>6. \A o1 \in Operators :
           o1 # o /\ session[o1].doing = "release" => session[o1].row # Id(q0)
    BY <2>1, <2>2, ReviewTypes DEF SessionsHold
  <2> QED
    BY <2>2, <2>4, <2>5, <2>6, FinishStep
<1>4. ASSUME NEW o \in Operators, FinishReject(o) PROVE TypedReview' /\ Allowed
  <2>1. session[o].doing = "reject" /\ ~Locked(session[o].row)
    BY <1>4 DEF FinishReject
  <2>2. PICK q0 \in db.quarantine : Id(q0) = session[o].row
    BY <2>1, ReviewTypes DEF SessionsHold
  <2>3. session[o] = [doing |-> "reject", row |-> Id(q0)]
    BY <2>1, <2>2, ReviewTypes
  <2>4. /\ ~page.open /\ page' = page /\ UNCHANGED <<feed, audit, unproductive>>
        /\ db' = Resolve(db, Id(q0), "rejected") /\ work' = db'
        /\ session' = [session EXCEPT ![o] = Idle]
    BY <1>4, <2>2 DEF FinishReject, Commit
  <2>5. /\ db' \in Tables /\ db'.quarantine = Resolved(db.quarantine, Id(q0), "rejected")
        /\ db'.jobs = db.jobs
    BY <2>4, ReviewTypes, ResolveFields
  <2>6. \A o1 \in Operators :
           o1 # o /\ session[o1].doing = "release" => session[o1].row # Id(q0)
    BY <2>1, <2>2, ReviewTypes DEF Locked
  <2> QED
    BY <2>3, <2>4, <2>5, <2>6, FinishStep
<1>5. ASSUME NEW o \in Operators, Abandon(o) PROVE TypedReview' /\ Allowed
  <2>1. Idle \in [doing: {"idle", "release", "reject"}, row: RowId \cup {NoRowRead}]
        /\ Idle.doing = "idle"
    BY DEF Idle
  <2>2. UNCHANGED vars /\ session' = [session EXCEPT ![o] = Idle]
    BY <1>5 DEF Abandon
  <2> HIDE DEF Idle
  <2> QED
    BY <2>1, <2>2, SessionStep
<1> QED
  BY <1>1, <1>2, <1>3, <1>4, <1>5 DEF ReviewNext, Review, reviewVars

LEMMA ReviewInitOK == ReviewInit => TypedReview
<1> SUFFICES ASSUME ReviewInit PROVE TypedReview
  OBVIOUS
<1>1. db.quarantine = {} /\ db.jobs = <<>> /\ ~page.open
  BY DEF ReviewInit, Init, EmptyTables, NoPage
<1>2. \A o \in Operators : session[o].doing = "idle"
  BY DEF ReviewInit, Idle
<1>3. SessionOK
  BY DEF ReviewInit, Idle, SessionOK
<1>4. RowsOK(db)
  BY <1>1, FS_EmptySet DEF RowsOK, IdsUnique
<1>5. Cardinality(ReleaseJobs(db)) <= Cardinality(Settled(db.quarantine))
  <2>1. Len(db.jobs) = 0
    BY <1>1, EmptySeq
  <2>2. ReleaseJobs(db) = {} /\ Settled(db.quarantine) = {}
    BY <1>1, <2>1 DEF ReleaseJobs, Settled
  <2> QED
    BY <2>2, FS_EmptySet
<1> QED
  BY <1>1, <1>2, <1>3, <1>4, <1>5, CountDef, TypeInit
     DEF TypedReview, ReviewInit, ReviewInv, SessionsHold

\* However many operators release the same row at once, each release job of
\* the timeline has resolved a row of its own: FOR UPDATE makes the second
\* one find the row resolved.
THEOREM ReleaseCorrect == ReviewSpec => []EachReleaseResolvesOneRow
<1>1. TypedReview => EachReleaseResolvesOneRow
  BY DEF TypedReview, ReviewInv
<1> QED
  BY <1>1, ReviewInitOK, ReviewStep, PTL DEF ReviewSpec

\* A resolution changes only from released to rejected, and only by a reject
\* that read the row while it was unresolved; pages, retries and reverts never
\* touch one.
THEOREM ResolvedOnceCorrect == ReviewSpec => ResolvedOnceUnlessRaced
<1>1. TypedReview /\ [ReviewNext]_reviewVars =>
         [\A q \in db.quarantine :
             q.status # "unresolved" =>
                \/ q \in db'.quarantine
                \/ /\ q.status = "released"
                   /\ [q EXCEPT !.status = "rejected"] \in db'.quarantine
                   /\ \E o \in Operators :
                         session[o] = [doing |-> "reject", row |-> Id(q)]]_reviewVars
  BY ReviewStep DEF Allowed
<1> QED
  BY <1>1, ReviewInitOK, ReviewStep, PTL DEF ReviewSpec, ResolvedOnceUnlessRaced

-----------------------------------------------------------------------------
(* Forked lineages: what a release may leave, and nothing else.            *)

IsRelease(d, s) == d.jobs[s.gen].status = "quarantine_release"

\* Snapshots name jobs that exist, and no release superseded one.
JobsNamed(d) ==
    \A s \in d.snapshots :
        /\ s.gen <= Len(d.jobs) /\ s.sup <= Len(d.jobs)
        /\ s.sup # 0 => d.jobs[s.sup].status # "quarantine_release"

\* Of a key's snapshots that pages wrote, at most one is live, and those that
\* one job superseded are of different events: a revert brings back one.
PagesApart(d) ==
    \A s, t \in d.snapshots :
        /\ s.key = t.key /\ s.sup = t.sup /\ ~IsRelease(d, s) /\ ~IsRelease(d, t)
        /\ s.sup # 0 => s.event = t.event
        => s = t

Forked(d) == JobsNamed(d) /\ PagesApart(d)

\* What the job of an open page superseded is older than what is live.
PageSupersedes ==
    /\ Len(work.jobs) = Len(db.jobs) + 1
    /\ work.jobs[CurrentJob].status = "running"
    /\ \A s \in work.snapshots : s.sup = CurrentJob =>
          /\ s.event < page.next
          /\ \A t \in Live(work, s.key) : s.event < t.event

ForkInv == Forked(db) /\ (page.open => Forked(work) /\ PageSupersedes)

LEMMA ForkedKept ==
    ASSUME NEW d \in Tables, NEW u \in Tables, Forked(d),
           u.snapshots = d.snapshots, Len(d.jobs) <= Len(u.jobs),
           \A i \in 1..Len(d.jobs) :
               u.jobs[i].status = "quarantine_release"
                   <=> d.jobs[i].status = "quarantine_release"
    PROVE  Forked(u)
<1>1. Len(d.jobs) \in Nat /\ Len(u.jobs) \in Nat
  BY TableFields
<1>2. ASSUME NEW s \in d.snapshots
      PROVE  /\ s.gen \in 1..Len(d.jobs) /\ s.sup \in 0..Len(d.jobs)
             /\ s.gen <= Len(u.jobs) /\ s.sup <= Len(u.jobs)
             /\ IsRelease(u, s) <=> IsRelease(d, s)
  <2>1. s.gen \in Nat \ {0} /\ s.sup \in Nat
    BY SnapshotFields
  <2>2. s.gen \in 1..Len(d.jobs) /\ s.sup \in 0..Len(d.jobs)
    BY <1>1, <2>1 DEF Forked, JobsNamed
  <2> QED
    BY <1>1, <2>1, <2>2 DEF IsRelease
<1>3. JobsNamed(u)
  BY <1>1, <1>2 DEF Forked, JobsNamed
<1>4. PagesApart(u)
  BY <1>2 DEF Forked, PagesApart
<1> QED
  BY <1>3, <1>4 DEF Forked

\* A page supersedes every live snapshot of the key, a release's too.
LEMMA WriteForked ==
    ASSUME TypeInv, page.open, Forked(work), PageSupersedes,
           NEW p \in 1..Len(feed), WriteEvent(p)
    PROVE  Forked(work)' /\ PageSupersedes'
<1> DEFINE k0 == feed[p].key
           j == CurrentJob
           row == [key |-> k0, gen |-> j, event |-> p,
                   deleted |-> feed[p].op = "deleted", sup |-> 0]
           S == work.snapshots
           old(s) == IF s.key = k0 /\ s.sup = 0 THEN [s EXCEPT !.sup = j] ELSE s
<1>1. /\ work \in Tables /\ work' \in Tables /\ db' = db /\ p \in Nat \ {0} /\ k0 \in Keys
      /\ j \in Nat \ {0} /\ j = Len(work.jobs) /\ work'.jobs = work.jobs
      /\ page.next = p /\ page'.next = p + 1 /\ j' = j
  <2>1. /\ Pending(p) /\ Advance(feed[p]) /\ work'.jobs = work.jobs /\ db' = db
        /\ k0 \in Keys /\ p \in Nat \ {0}
    BY WriteEffect
  <2>2. [Next]_vars
    BY DEF Next, Worker, ProcessEvent
  <2>3. work \in Tables /\ work' \in Tables
    BY <2>2, StepTypes
  <2>4. page.next = p /\ page'.next = p + 1
    BY <2>1, AdvanceEffect
  <2>5. j \in Nat \ {0} /\ j = Len(work.jobs)
    BY <2>1, PendingTypes DEF CurrentJob
  <2> QED
    BY <2>1, <2>3, <2>4, <2>5 DEF CurrentJob
<1>2. work'.snapshots = {old(s) : s \in S} \cup {row}
  BY WriteEffect DEF MarkSuperseded
<1>3. ~AlreadyApplied(work, p)
  BY DEF WriteEvent
<1>4. row.key = k0 /\ row.gen = j /\ row.event = p /\ row.sup = 0
  OBVIOUS
<1>5. ASSUME NEW s \in S
      PROVE  /\ s \in Snapshot /\ s.gen \in Nat /\ s.sup \in Nat /\ s.event \in Nat
             /\ s.gen <= j /\ s.sup <= j
             /\ s.sup # 0 => work.jobs[s.sup].status # "quarantine_release"
             /\ old(s).key = s.key /\ old(s).gen = s.gen /\ old(s).event = s.event
             /\ IsRelease(work, old(s)) <=> IsRelease(work, s)
             /\ s.key = k0 /\ s.sup = 0 => old(s).sup = j /\ s.event < p
             /\ ~(s.key = k0 /\ s.sup = 0) => old(s) = s
  <2>1. s \in Snapshot /\ s.gen \in Nat /\ s.sup \in Nat /\ s.event \in Nat
    BY <1>1, SnapshotFields
  <2>2. /\ s.gen <= j /\ s.sup <= j
        /\ s.sup # 0 => work.jobs[s.sup].status # "quarantine_release"
    BY <1>1 DEF Forked, JobsNamed
  <2>3. LET v == [s EXCEPT !.sup = j]
        IN  v.sup = j /\ v.key = s.key /\ v.gen = s.gen /\ v.event = s.event
    BY <1>1, <2>1, SetSup
  <2>4. s.key = k0 /\ s.sup = 0 => s.event < p
    BY <1>1, <1>3, <2>1 DEF AlreadyApplied, Live
  <2> QED
    BY <2>1, <2>2, <2>3, <2>4 DEF IsRelease
<1> HIDE DEF row, old
<1>6. JobsNamed(work')
  <2>1. ASSUME NEW s \in S
        PROVE  /\ old(s).gen <= j /\ old(s).sup <= j
               /\ old(s).sup # 0 => work.jobs[old(s).sup].status # "quarantine_release"
    <3>1. work.jobs[j].status # "quarantine_release" /\ j <= j
      BY <1>1 DEF PageSupersedes
    <3> QED
      BY <1>5, <3>1
  <2>2. row.gen <= j /\ row.sup <= j /\ row.sup = 0
    BY <1>1, <1>4
  <2> QED
    BY <1>1, <1>2, <2>1, <2>2 DEF JobsNamed
\* Two rows of a page, superseded by the same job at the same event.
<1>7. ASSUME NEW s \in S, NEW t \in S, old(s).key = old(t).key, old(s).sup = old(t).sup,
             ~IsRelease(work, s), ~IsRelease(work, t),
             old(s).sup # 0 => old(s).event = old(t).event
      PROVE  s = t
  <2>1. s.key = t.key /\ (old(s).sup # 0 => s.event = t.event)
    BY <1>5, <1>7
  <2>2. CASE s.sup = t.sup
    <3>1. s.sup # 0 => old(s).sup # 0
      BY <1>5
    <3> QED
      BY <1>7, <2>1, <2>2, <3>1 DEF Forked, PagesApart
  <2>3. ASSUME NEW x \in S, NEW y \in S, x.key = y.key, x.key = k0, x.sup = 0, y.sup = j
        PROVE  x.event # y.event
    <3>1. x \in Live(work, y.key)
      BY <2>3 DEF Live
    <3>2. y.event < x.event
      BY <2>3, <3>1 DEF PageSupersedes
    <3> QED
      BY <1>5, <3>2
  <2>4. CASE s.sup # t.sup
    <3>1. \/ s.key = k0 /\ s.sup = 0 /\ t.sup = j
          \/ t.key = k0 /\ t.sup = 0 /\ s.sup = j
      BY <1>5, <1>7, <2>1, <2>4
    <3>2. old(s).sup # 0
      BY <1>1, <1>5, <1>7, <3>1
    <3> QED
      BY <2>1, <2>3, <3>1, <3>2
  <2> QED
    BY <2>2, <2>4
<1>8. \A s \in S : old(s).key = k0 => old(s).sup # 0
  BY <1>1, <1>5
<1>9. PagesApart(work')
  <2> SUFFICES ASSUME NEW x \in work'.snapshots, NEW y \in work'.snapshots,
                      x.key = y.key, x.sup = y.sup,
                      ~IsRelease(work', x), ~IsRelease(work', y),
                      x.sup # 0 => x.event = y.event
               PROVE  x = y
    BY DEF PagesApart
  <2>1. ~IsRelease(work, x) /\ ~IsRelease(work, y)
    BY <1>1 DEF IsRelease
  <2>2. CASE x = row \/ y = row
    BY <1>2, <1>4, <1>8, <2>2
  <2>3. CASE x # row /\ y # row
    <3>1. PICK s \in S, t \in S : x = old(s) /\ y = old(t)
      BY <1>2, <2>3
    <3>2. ~IsRelease(work, s) /\ ~IsRelease(work, t)
      BY <1>5, <2>1, <3>1
    <3> QED
      BY <1>7, <3>1, <3>2
  <2> QED
    BY <2>2, <2>3
<1>10. PageSupersedes'
  <2> SUFFICES ASSUME NEW x \in work'.snapshots, x.sup = j
               PROVE  /\ x.event < p + 1
                      /\ \A y \in Live(work', x.key) : x.event < y.event
    BY <1>1 DEF PageSupersedes
  <2>1. PICK s \in S : x = old(s)
    BY <1>1, <1>2, <1>4
  <2>2. x.key = s.key /\ x.event = s.event /\ s.event \in Nat
    BY <1>5, <2>1
  <2>3. s.event < p
    <3>1. CASE s.key = k0 /\ s.sup = 0
      BY <1>5, <3>1
    <3>2. CASE s.sup = j
      BY <1>1, <3>2 DEF PageSupersedes
    <3> QED
      BY <1>5, <2>1, <3>1, <3>2
  <2>4. ASSUME NEW y \in Live(work', x.key)
        PROVE  s.event < y.event
    <3>1. y \in work'.snapshots /\ y.key = s.key /\ y.sup = 0
      BY <2>2 DEF Live
    <3>2. CASE y = row
      BY <1>4, <2>3, <3>2
    <3>3. CASE y # row
      <4>1. PICK t \in S : y = old(t)
        BY <1>2, <3>1, <3>3
      <4>2. t.sup = 0 /\ t.key # k0 /\ y = t
        BY <1>1, <1>5, <3>1, <4>1
      <4>3. t \in Live(work, s.key)
        BY <3>1, <4>2 DEF Live
      <4>4. s.key # k0
        BY <3>1, <4>2
      <4>5. s.sup = j
        BY <1>5, <2>1, <4>4
      <4> QED
        BY <1>1, <4>2, <4>3, <4>5 DEF PageSupersedes
    <3> QED
      BY <3>2, <3>3
  <2> QED
    BY <1>1, <2>2, <2>3, <2>4
<1> QED
  BY <1>6, <1>9, <1>10 DEF Forked

\* A revert brings back one snapshot for each it takes out, so a key has at
\* most one page's snapshot live again.
LEMMA RevertForked ==
    ASSUME NEW d \in Tables, Forked(d), NEW j \in 1..Len(d.jobs), NEW u \in Tables,
           Len(u.jobs) = Len(d.jobs) + 1,
           \A i \in 1..Len(d.jobs) : u.jobs[i] = d.jobs[i],
           u.jobs[Len(d.jobs) + 1].status = "revert",
           u.snapshots = {RevertSnapshot(d, j, s) : s \in d.snapshots}
    PROVE  Forked(u)
<1> DEFINE S == d.snapshots
           n == Len(d.jobs) + 1
           new(s) == RevertSnapshot(d, j, s)
           out(s) == s \in Reverted(d, j, s.key)
           back(s) == ~out(s) /\ Reverted(d, j, s.key) # {} /\ s \in Prior(d, j, s.key)
<1>1. Len(d.jobs) \in Nat /\ n \in Nat \ {0} /\ j \in Nat \ {0} /\ j # n
  BY TableFields
<1>2. ASSUME NEW s \in S
      PROVE  /\ s.gen \in 1..Len(d.jobs) /\ s.sup \in 0..Len(d.jobs)
             /\ s.sup # 0 => d.jobs[s.sup].status # "quarantine_release"
             /\ new(s).key = s.key /\ new(s).gen = s.gen /\ new(s).event = s.event
             /\ IsRelease(u, new(s)) <=> IsRelease(d, s)
             /\ out(s) => new(s).sup = n /\ s.sup = 0 /\ s.gen = j
             /\ back(s) => new(s).sup = 0 /\ s.sup = j
             /\ ~out(s) /\ ~back(s) => new(s) = s
  <2>1. s \in Snapshot /\ s.gen \in Nat \ {0} /\ s.sup \in Nat
    BY SnapshotFields
  <2>2. /\ s.gen \in 1..Len(d.jobs) /\ s.sup \in 0..Len(d.jobs)
        /\ s.sup # 0 => d.jobs[s.sup].status # "quarantine_release"
    BY <1>1, <2>1 DEF Forked, JobsNamed
  <2>3. LET v == [s EXCEPT !.sup = n]
            w == [s EXCEPT !.sup = 0]
        IN  /\ v.sup = n /\ v.key = s.key /\ v.gen = s.gen /\ v.event = s.event
            /\ w.sup = 0 /\ w.key = s.key /\ w.gen = s.gen /\ w.event = s.event
    BY <1>1, <2>1, SetSup
  <2>4. /\ out(s) => new(s) = [s EXCEPT !.sup = n] /\ s.sup = 0 /\ s.gen = j
        /\ back(s) => new(s) = [s EXCEPT !.sup = 0] /\ s.sup = j
        /\ ~out(s) /\ ~back(s) => new(s) = s
    BY PriorFacts DEF RevertSnapshot, Reverted, Live
  <2>5. new(s).key = s.key /\ new(s).gen = s.gen /\ new(s).event = s.event
    BY <2>3, <2>4
  <2> QED
    BY <2>2, <2>3, <2>4, <2>5 DEF IsRelease
<1>3. JobsNamed(u)
  <2> SUFFICES ASSUME NEW s \in S
               PROVE  /\ new(s).gen <= n /\ new(s).sup <= n
                      /\ new(s).sup # 0 => u.jobs[new(s).sup].status # "quarantine_release"
    BY DEF JobsNamed
  <2>1. new(s).gen <= n
    BY <1>1, <1>2
  <2>2. \/ new(s).sup = n
        \/ new(s).sup = 0
        \/ new(s).sup = s.sup
    BY <1>2
  <2> HIDE DEF new
  <2>3. s.sup # 0 => s.sup \in 1..Len(d.jobs)
    BY <1>1, <1>2
  <2> QED
    BY SMTT(30), <1>1, <1>2, <2>1, <2>2, <2>3
<1>4. \A s, t \in S :
         /\ s.key = t.key /\ s.sup = t.sup /\ ~IsRelease(d, s) /\ ~IsRelease(d, t)
         /\ s.sup # 0 => s.event = t.event
         => s = t
  BY DEF Forked, PagesApart
\* A page's snapshot that stays live is not of the key of one that comes back.
<1>5. ASSUME NEW s \in S, NEW t \in S, s.key = t.key, back(s), ~out(t), t.sup = 0,
             ~IsRelease(d, t)
      PROVE  FALSE
  <2>1. PICK r \in Reverted(d, j, s.key) : TRUE
    BY <1>5
  <2>2. r \in S /\ r.key = s.key /\ r.sup = 0 /\ r.gen = j
    BY <2>1 DEF Reverted, Live
  <2>3. s.sup = j
    BY <1>2, <1>5
  <2>4. d.jobs[j].status # "quarantine_release"
    BY <1>1, <1>2, <2>3
  <2>5. ~IsRelease(d, r)
    BY <2>2, <2>4 DEF IsRelease
  <2>6. r = t
    BY <1>4, <1>5, <2>2, <2>5
  <2> QED
    BY <1>5, <2>1, <2>6
\* Those that come back are of one event.
<1>6. ASSUME NEW s \in S, NEW t \in S, s.key = t.key, back(s), back(t)
      PROVE  s.event = t.event /\ s.sup = t.sup /\ s.sup = j
  <2>1. s.event \in Nat /\ t.event \in Nat
    BY SnapshotFields
  <2>2. s.event <= t.event /\ t.event <= s.event /\ s.sup = j /\ t.sup = j
    BY <1>6, PriorFacts
  <2> QED
    BY <2>1, <2>2
<1> HIDE DEF new, out, back
<1>7. ASSUME NEW s \in S, NEW t \in S, new(s).key = new(t).key, new(s).sup = new(t).sup,
             ~IsRelease(d, s), ~IsRelease(d, t), new(s).sup # 0 => new(s).event = new(t).event
      PROVE  s = t
  <2>1. s.key = t.key
    BY <1>2, <1>7
  <2>2. CASE out(s) \/ out(t)
    <3>1. /\ out(s) => new(s).sup = n /\ s.sup = 0
          /\ out(t) => new(t).sup = n /\ t.sup = 0
      BY <1>2
    <3>2. /\ ~out(s) => new(s).sup # n
          /\ ~out(t) => new(t).sup # n
      BY <1>1, <1>2
    <3>3. s.sup = 0 /\ t.sup = 0
      BY <1>7, <2>2, <3>1, <3>2
    <3> QED
      BY <1>4, <1>7, <2>1, <3>3
  <2>3. CASE ~out(s) /\ ~out(t) /\ back(s) /\ back(t)
    BY <1>1, <1>4, <1>6, <1>7, <2>1, <2>3
  <2>4. CASE ~out(s) /\ ~out(t) /\ back(s) /\ ~back(t)
    <3>1. t.sup = 0
      BY <1>2, <1>7, <2>4
    <3> QED
      BY <1>5, <1>7, <2>1, <2>4, <3>1
  <2>5. CASE ~out(s) /\ ~out(t) /\ ~back(s) /\ back(t)
    <3>1. s.sup = 0
      BY <1>2, <1>7, <2>5
    <3> QED
      BY <1>5, <1>7, <2>1, <2>5, <3>1
  <2>6. CASE ~out(s) /\ ~out(t) /\ ~back(s) /\ ~back(t)
    <3>1. new(s) = s /\ new(t) = t
      BY <1>2, <2>6
    <3> QED
      BY <1>4, <1>7, <3>1
  <2> QED
    BY <2>2, <2>3, <2>4, <2>5, <2>6
<1>8. PagesApart(u)
  <2> SUFFICES ASSUME NEW x \in u.snapshots, NEW y \in u.snapshots,
                      x.key = y.key, x.sup = y.sup, ~IsRelease(u, x), ~IsRelease(u, y),
                      x.sup # 0 => x.event = y.event
               PROVE  x = y
    BY DEF PagesApart
  <2>1. PICK s \in S, t \in S : x = new(s) /\ y = new(t)
    BY DEF new
  <2>2. ~IsRelease(d, s) /\ ~IsRelease(d, t)
    BY <1>2, <2>1
  <2> QED
    BY <1>7, <2>1, <2>2
<1> QED
  BY <1>3, <1>8 DEF Forked

\* A release puts its snapshot beside what is there.
LEMMA ReleaseForked ==
    ASSUME NEW d \in Tables, Forked(d), NEW id \in RowId
    PROVE  Forked(Released(d, id))
<1> DEFINE u == Released(d, id)
           n == Len(d.jobs) + 1
           row == [key |-> id.key, gen |-> n, event |-> id.event, deleted |-> FALSE, sup |-> 0]
           S == d.snapshots
<1>1. /\ u \in Tables /\ Len(u.jobs) = n /\ n \in Nat /\ Len(d.jobs) \in Nat
      /\ \A i \in 1..Len(d.jobs) : u.jobs[i] = d.jobs[i]
      /\ u.jobs[n].status = "quarantine_release"
  BY ReleasedFields, TableFields
<1>2. u.snapshots = S \cup {row}
  BY ReleasedFields
<1>3. row.gen = n /\ row.sup = 0
  OBVIOUS
<1> HIDE DEF u, row
<1>4. ASSUME NEW s \in S
      PROVE  /\ s.gen <= n /\ s.sup <= n
             /\ s.sup # 0 => u.jobs[s.sup].status # "quarantine_release"
             /\ IsRelease(u, s) <=> IsRelease(d, s)
  <2>1. s.gen \in Nat \ {0} /\ s.sup \in Nat
    BY SnapshotFields
  <2>2. s.gen \in 1..Len(d.jobs) /\ s.sup \in 0..Len(d.jobs)
    BY <1>1, <2>1 DEF Forked, JobsNamed
  <2>3. s.sup # 0 => s.sup \in 1..Len(d.jobs)
    BY <1>1, <2>2
  <2>4. s.sup # 0 => u.jobs[s.sup] = d.jobs[s.sup]
    BY <1>1, <2>3
  <2> QED
    BY <1>1, <2>2, <2>4 DEF Forked, JobsNamed, IsRelease
<1>5. IsRelease(u, row)
  BY <1>1, <1>3 DEF IsRelease
<1>6. JobsNamed(u)
  BY <1>1, <1>2, <1>3, <1>4 DEF JobsNamed
<1>7. PagesApart(u)
  BY <1>2, <1>4, <1>5 DEF Forked, PagesApart
<1> QED
  BY <1>6, <1>7 DEF Forked, u

LEMMA ForkStep ==
    ASSUME TypeInv, ForkInv, [Next]_vars
    PROVE  ForkInv'
<1>a. /\ db \in Tables /\ work \in Tables /\ db' \in Tables /\ work' \in Tables
      /\ Len(db.jobs) \in Nat /\ Len(work.jobs) \in Nat /\ page \in Page
  BY StepTypes
<1>b. Forked(db) /\ (page.open => Forked(work) /\ PageSupersedes)
  BY DEF ForkInv
<1>c. CurrentJob = Len(work.jobs)
  BY DEF CurrentJob
\* Steps of an open page that leave its snapshots and jobs alone.
<1>d. ASSUME page.open, db' = db, page'.next \in Nat, page.next <= page'.next,
             work'.snapshots = work.snapshots, work'.jobs = work.jobs
      PROVE  ForkInv'
  <2>1. Forked(work') /\ Forked(db')
    BY <1>a, <1>b, <1>d, ForkedKept
  <2>2. \A s \in work.snapshots : s.sup = CurrentJob => s.event < page'.next
    <3>1. \A s \in work.snapshots : s.event \in Nat
      BY <1>a, SnapshotFields
    <3>2. page.next \in Nat
      BY <1>a DEF Page
    <3> QED
      BY <1>b, <1>d, <3>1, <3>2 DEF PageSupersedes
  <2>3. PageSupersedes'
    BY <1>b, <1>d, <2>2 DEF PageSupersedes, CurrentJob, Live
  <2> QED
    BY <2>1, <2>3 DEF ForkInv
\* Steps between pages that add at most a job and no snapshot.
<1>e. ASSUME ~page'.open, db'.snapshots = db.snapshots, Len(db.jobs) <= Len(db'.jobs),
             \A i \in 1..Len(db.jobs) : db'.jobs[i] = db.jobs[i]
      PROVE  ForkInv'
  <2>1. Forked(db')
    BY <1>a, <1>b, <1>e, ForkedKept
  <2> QED
    BY <1>e, <2>1 DEF ForkInv
<1>1. CASE \E e \in Event : Publish(e)
  <2>1. db' = db /\ work' = work /\ page' = page
    BY <1>1 DEF Publish
  <2> QED
    BY <1>b, <2>1 DEF ForkInv, PageSupersedes, CurrentJob
<1>2. CASE Poll
  <2>1. /\ db' = db /\ work'.snapshots = db.snapshots
        /\ Len(work'.jobs) = Len(db.jobs) + 1
        /\ \A i \in 1..Len(db.jobs) : work'.jobs[i] = db.jobs[i]
        /\ work'.jobs[Len(db.jobs) + 1].status = "running"
    BY <1>2, PollEffect
  <2>2. Forked(work')
    BY <1>a, <1>b, <2>1, ForkedKept
  <2>3. \A s \in work'.snapshots : s.sup # Len(work'.jobs)
    <3>1. \A s \in db.snapshots : s.sup \in Nat /\ s.sup <= Len(db.jobs)
      BY <1>a, <1>b, SnapshotFields DEF Forked, JobsNamed
    <3> QED
      BY <1>a, <2>1, <3>1
  <2>4. PageSupersedes'
    BY <2>1, <2>3 DEF PageSupersedes, CurrentJob
  <2> QED
    BY <1>b, <2>1, <2>2, <2>4 DEF ForkInv
<1>3. CASE BlockPage
  <2>1. /\ ~page'.open /\ db'.snapshots = db.snapshots
        /\ Len(db'.jobs) = Len(db.jobs) + 1
        /\ \A i \in 1..Len(db.jobs) : db'.jobs[i] = db.jobs[i]
    BY <1>3, BlockPageEffect
  <2> QED
    BY <1>a, <1>e, <2>1
<1>4. ASSUME NEW p \in 1..Len(feed), SkipEvent(p) \/ DedupEvent(p) \/ QuarantineEvent(p)
      PROVE  ForkInv'
  <2>1. /\ Pending(p) /\ Advance(feed[p]) /\ db' = db
        /\ work'.snapshots = work.snapshots /\ work'.jobs = work.jobs
    BY <1>4, SkipEffect, QuarantineEffect DEF DedupEvent
  <2>2. page.open /\ page'.next = page.next + 1
    BY <2>1, AdvanceEffect DEF Pending
  <2>3. page.next \in Nat
    BY <1>a DEF Page
  <2>4. page'.next \in Nat /\ page.next <= page'.next
    BY <2>2, <2>3
  <2> QED
    BY <1>d, <2>1, <2>2, <2>4
<1>5. ASSUME NEW p \in 1..Len(feed), WriteEvent(p)
      PROVE  ForkInv'
  <2>1. page.open /\ db' = db
    BY <1>5, WriteEffect DEF Pending
  <2> QED
    BY <1>5, <1>b, <2>1, WriteForked DEF ForkInv
<1>6. CASE CommitPage
  <2>1. /\ page.open /\ ~page'.open /\ Len(db'.jobs) = Len(work.jobs)
        /\ db'.snapshots = work.snapshots
        /\ \A i \in 1..Len(work.jobs) :
              db'.jobs[i].status = IF i = CurrentJob THEN "success" ELSE work.jobs[i].status
    BY <1>6, CommitEffect
  <2>2. work.jobs[CurrentJob].status = "running"
    BY <1>b, <2>1 DEF PageSupersedes
  <2>3. \A i \in 1..Len(work.jobs) :
           db'.jobs[i].status = "quarantine_release"
               <=> work.jobs[i].status = "quarantine_release"
    BY <2>1, <2>2
  <2>4. Forked(db')
    BY <1>a, <1>b, <2>1, <2>3, ForkedKept
  <2> QED
    BY <2>1, <2>4 DEF ForkInv
<1>7. CASE Crash
  <2>1. db' = db /\ ~page'.open
    BY <1>7 DEF Crash, NoPage
  <2> QED
    BY <1>b, <2>1 DEF ForkInv
<1>8. ASSUME NEW j \in 1..Len(db.jobs), NEW forced \in BOOLEAN, Retry(j, forced)
      PROVE  ForkInv'
  <2>1. ~page'.open /\ db'.snapshots = db.snapshots /\ db'.jobs = db.jobs
    BY <1>8, RetryEffect
  <2> QED
    BY <1>a, <1>e, <2>1
<1>9. ASSUME NEW j \in 1..Len(db.jobs), Revert(j)
      PROVE  ForkInv'
  <2>1. /\ ~page'.open /\ Len(db'.jobs) = Len(db.jobs) + 1
        /\ \A i \in 1..Len(db.jobs) : db'.jobs[i] = db.jobs[i]
        /\ db'.jobs[Len(db.jobs) + 1] = [status |-> "revert", before |-> 0]
        /\ db'.snapshots = {RevertSnapshot(db, j, s) : s \in db.snapshots}
    BY <1>9, RevertEffect
  <2>2. db'.jobs[Len(db.jobs) + 1].status = "revert"
    BY <2>1
  <2>3. Forked(db')
    BY <1>a, <1>b, <2>1, <2>2, RevertForked
  <2> QED
    BY <2>1, <2>3 DEF ForkInv
<1>10. CASE UNCHANGED vars
  <2>1. db' = db /\ work' = work /\ page' = page
    BY <1>10 DEF vars
  <2> QED
    BY <1>b, <2>1 DEF ForkInv, PageSupersedes, CurrentJob
<1> QED
  BY <1>1, <1>2, <1>3, <1>4, <1>5, <1>6, <1>7, <1>8, <1>9, <1>10
     DEF Next, Worker, ProcessEvent, Operator

LEMMA ForkReviewStep ==
    TypedReview /\ ForkInv /\ [ReviewNext]_reviewVars => ForkInv'
<1> SUFFICES ASSUME TypedReview, ForkInv, [ReviewNext]_reviewVars
             PROVE  ForkInv'
  OBVIOUS
<1>1. CASE [Next]_vars
  BY <1>1, ForkStep DEF TypedReview
<1>2. CASE UNCHANGED vars
  BY <1>1, <1>2
<1>3. ASSUME NEW o \in Operators, FinishRelease(o)
      PROVE  ForkInv'
  <2>1. /\ ~page'.open /\ db' = Released(db, session[o].row)
        /\ session[o].doing = "release"
    BY <1>3 DEF FinishRelease, Commit
  <2>2. session[o].row \in RowId
    <3>1. PICK q \in db.quarantine : Id(q) = session[o].row
      BY <2>1, ReviewTypes DEF SessionsHold
    <3> QED
      BY <3>1, ReviewTypes, RowFields
  <2>3. Forked(db')
    BY <2>1, <2>2, ReviewTypes, ReleaseForked DEF ForkInv
  <2> QED
    BY <2>1, <2>3 DEF ForkInv
<1>4. ASSUME NEW o \in Operators, FinishReject(o)
      PROVE  ForkInv'
  <2>1. ~page'.open /\ db' = Resolve(db, session[o].row, "rejected")
    BY <1>4 DEF FinishReject, Commit
  <2>2. db' \in Tables /\ db'.snapshots = db.snapshots /\ db'.jobs = db.jobs
    BY <2>1, ReviewTypes, ResolveFields
  <2>3. Len(db.jobs) <= Len(db'.jobs)
    BY <2>2, ReviewTypes
  <2>4. Forked(db')
    BY <2>2, <2>3, ReviewTypes, ForkedKept DEF ForkInv
  <2> QED
    BY <2>1, <2>4 DEF ForkInv
<1>5. ASSUME NEW o \in Operators, NEW q \in db.quarantine,
             BeginRelease(o, q) \/ BeginReject(o, q)
      PROVE  ForkInv'
  BY <1>2, <1>5 DEF BeginRelease, BeginReject
<1>6. ASSUME NEW o \in Operators, Abandon(o)
      PROVE  ForkInv'
  BY <1>2, <1>6 DEF Abandon
<1> QED
  BY <1>1, <1>2, <1>3, <1>4, <1>5, <1>6 DEF ReviewNext, Review, reviewVars

LEMMA ForkInit == ReviewInit => ForkInv
<1> SUFFICES ASSUME ReviewInit PROVE ForkInv
  OBVIOUS
<1>1. db.snapshots = {} /\ ~page.open
  BY DEF ReviewInit, Init, EmptyTables, NoPage
<1> QED
  BY <1>1 DEF ForkInv, Forked, JobsNamed, PagesApart

-----------------------------------------------------------------------------
(* Enrollments resolve under releases too.                                 *)

\* The student an open release has found is still there when it commits.
ReleasesResolve ==
    \A o \in Operators :
        session[o].doing = "release" => StudentOf[session[o].row.key] \in KnownStudents(db)

LEMMA ReleaseResolves ==
    ASSUME TypedReview, ResolveInv, ReleasesResolve, NEW o \in Operators, FinishRelease(o)
    PROVE  ResolveInv' /\ \A k \in Keys : HasRow(db, k) => HasRow(db', k)
<1> DEFINE id == session[o].row
           row == [event |-> id.event, deleted |-> FALSE]
           snap == [key |-> id.key, gen |-> Len(db.jobs) + 1, event |-> id.event,
                    deleted |-> FALSE, sup |-> 0]
<1>a. StudentOf \in [Enrollments -> Students] /\ Keys = Students \cup Enrollments
  BY ConstantsAssumption DEF Keys
<1>1. /\ ~page'.open /\ db' = Released(db, id) /\ work' = db'
      /\ session[o].doing = "release"
  BY DEF FinishRelease, Commit
<1>2. id \in RowId
  <2>1. PICK q \in db.quarantine : Id(q) = id
    BY <1>1, ReviewTypes DEF SessionsHold
  <2> QED
    BY <2>1, ReviewTypes, RowFields
<1>3. db \in Tables /\ db.canonical \in [Keys -> CanonicalRow] /\ db.snapshots \subseteq Snapshot
  BY ReviewTypes, TableFields
<1>4. db'.canonical = [db.canonical EXCEPT ![id.key] = row]
      /\ db'.snapshots = db.snapshots \cup {snap}
  BY <1>1, <1>2, <1>3, ReleasedFields
<1>5. row.event = id.event /\ snap.key = id.key /\ id.event # 0 /\ id.key \in Keys
  BY <1>2 DEF RowId
<1> HIDE DEF row, snap
<1>6. \A k \in Keys : HasRow(db', k) <=> k = id.key \/ HasRow(db, k)
  BY <1>3, <1>4, <1>5 DEF HasRow
<1>7. RowsResolve(db')
  <2> SUFFICES ASSUME NEW e \in Enrollments, HasRow(db', e) PROVE HasRow(db', StudentOf[e])
    BY DEF RowsResolve
  <2>1. e \in Keys /\ StudentOf[e] \in Keys
    BY <1>a
  <2>2. HasRow(db, StudentOf[e])
    BY <1>1, <1>6, <2>1 DEF ReleasesResolve, KnownStudents, ResolveInv, RowsResolve, HasRow
  <2> QED
    BY <1>6, <2>1, <2>2
<1>8. Rowed(db')
  <2>1. \A s \in db.snapshots : s.key \in Keys /\ HasRow(db, s.key)
    BY <1>3, SnapshotFields DEF ResolveInv, Rowed
  <2> QED
    BY <1>4, <1>5, <1>6, <2>1 DEF Rowed
<1> QED
  BY <1>1, <1>6, <1>7, <1>8 DEF ResolveInv, RowsResolve, Rowed, HasRow

LEMMA ResolveReviewStep ==
    ASSUME TypedReview, ResolveInv, ReleasesResolve, [ReviewNext]_reviewVars
    PROVE  ResolveInv' /\ ReleasesResolve'
<1>a. session \in [Operators -> [doing: {"idle", "release", "reject"},
                                 row: RowId \cup {NoRowRead}]]
  BY DEF TypedReview, SessionOK
\* The rows stay, and no operator begins a release.
<1>1. ASSUME \A k \in Keys : HasRow(db, k) => HasRow(db', k),
             \A o \in Operators : session'[o].doing = "release" => session'[o] = session[o]
      PROVE  ReleasesResolve'
  <2> SUFFICES ASSUME NEW o \in Operators, session'[o].doing = "release"
               PROVE  StudentOf[session'[o].row.key] \in KnownStudents(db')
    BY DEF ReleasesResolve, KnownStudents
  <2>1. session'[o] = session[o]
    BY <1>1
  <2>2. StudentOf[session[o].row.key] \in KnownStudents(db)
    BY <2>1 DEF ReleasesResolve
  <2>3. KnownStudents(db) \subseteq KnownStudents(db')
    BY <1>1 DEF KnownStudents, HasRow, Keys
  <2> QED
    BY <2>1, <2>2, <2>3
\* The tables stay as they are.
<1>2. ASSUME UNCHANGED vars
      PROVE  ResolveInv' /\ \A k \in Keys : HasRow(db, k) => HasRow(db', k)
  BY <1>2, ResolveStep DEF TypedReview
<1>3. CASE [Next]_vars /\ session' = session
  BY <1>1, <1>3, ResolveStep DEF TypedReview
<1>4. ASSUME NEW o \in Operators, NEW q \in db.quarantine,
             BeginRelease(o, q) \/ BeginReject(o, q)
      PROVE  ResolveInv' /\ ReleasesResolve'
  <2>0. UNCHANGED vars
    BY <1>4 DEF BeginRelease, BeginReject
  <2>1. /\ Id(q).key = q.key
        /\ \A s \in {"release", "reject"} : [doing |-> s, row |-> Id(q)].doing = s
        /\ \A s : [doing |-> s, row |-> Id(q)].row = Id(q)
    BY DEF Id
  <2>2. CASE BeginReject(o, q)
    <3>1. session' = [session EXCEPT ![o] = [doing |-> "reject", row |-> Id(q)]]
      BY <2>2 DEF BeginReject
    <3>2. \A m \in Operators : session'[m].doing = "release" => session'[m] = session[m]
      BY <1>a, <3>1
    <3> QED
      BY <1>1, <1>2, <2>0, <3>2
  <2>3. CASE BeginRelease(o, q)
    <3>1. /\ session' = [session EXCEPT ![o] = [doing |-> "release", row |-> Id(q)]]
          /\ StudentOf[q.key] \in KnownStudents(db)
      BY <2>3 DEF BeginRelease
    <3>2. ASSUME NEW m \in Operators, session'[m].doing = "release"
          PROVE  StudentOf[session'[m].row.key] \in KnownStudents(db)
      <4>1. CASE m = o
        <5>1. session'[m].row.key = q.key
          BY <1>a, <2>1, <3>1, <4>1
        <5> QED
          BY <3>1, <5>1
      <4>2. CASE m # o
        BY <1>a, <3>1, <3>2, <4>2 DEF ReleasesResolve
      <4> QED
        BY <4>1, <4>2
    <3>3. db' = db
      BY <2>0 DEF vars
    <3>4. ReleasesResolve'
      BY <3>2, <3>3 DEF ReleasesResolve, KnownStudents
    <3> QED
      BY <1>2, <2>0, <3>4
  <2> QED
    BY <1>4, <2>2, <2>3
<1>5. ASSUME NEW o \in Operators, session' = [session EXCEPT ![o] = Idle],
             \A k \in Keys : HasRow(db, k) => HasRow(db', k)
      PROVE  ReleasesResolve'
  <2>1. Idle.doing # "release"
    BY DEF Idle
  <2>2. \A m \in Operators : session'[m].doing = "release" => session'[m] = session[m]
    BY <1>a, <1>5, <2>1
  <2> QED
    BY <1>1, <1>5, <2>2
<1>6. ASSUME NEW o \in Operators, FinishRelease(o)
      PROVE  ResolveInv' /\ ReleasesResolve'
  BY <1>5, <1>6, ReleaseResolves DEF FinishRelease
<1>7. ASSUME NEW o \in Operators, FinishReject(o)
      PROVE  ResolveInv' /\ ReleasesResolve'
  <2>1. /\ ~page'.open /\ work' = db' /\ db' = Resolve(db, session[o].row, "rejected")
        /\ session' = [session EXCEPT ![o] = Idle]
    BY <1>7 DEF FinishReject, Commit
  <2>2. db'.snapshots = db.snapshots /\ db'.canonical = db.canonical
    BY <2>1, ReviewTypes, ResolveFields
  <2>3. ResolveInv' /\ \A k \in Keys : HasRow(db, k) => HasRow(db', k)
    BY <2>1, <2>2 DEF ResolveInv, RowsResolve, Rowed, HasRow
  <2> QED
    BY <1>5, <2>1, <2>3
<1>8. ASSUME NEW o \in Operators, Abandon(o)
      PROVE  ResolveInv' /\ ReleasesResolve'
  BY <1>2, <1>5, <1>8 DEF Abandon
<1>9. CASE UNCHANGED reviewVars
  BY <1>3, <1>9 DEF reviewVars
<1> QED
  BY <1>3, <1>4, <1>6, <1>7, <1>8, <1>9 DEF ReviewNext, Review

\* QuarantineService.release checks the student again before it writes, and
\* nothing takes the student's row away until it commits: with operators
\* releasing beside the worker, an enrollment row still never names a student
\* without one.
THEOREM ReviewResolveCorrect == ReviewSpec => []EnrollmentsResolve
<1>1. ReviewInit => ResolveInv /\ ReleasesResolve
  BY ResolveInit DEF ReviewInit, ReleasesResolve, Idle
<1>2. TypedReview /\ ResolveInv /\ ReleasesResolve /\ [ReviewNext]_reviewVars
         => ResolveInv' /\ ReleasesResolve'
  BY ResolveReviewStep
<1> QED
  BY <1>1, <1>2, ResolveHolds, ReviewInitOK, ReviewStep, PTL DEF ReviewSpec

\* QuarantineService.release supersedes nothing, so an event released after a
\* later one was applied is live beside it; every other pair of live snapshots
\* is ruled out, whatever pages, retries and reverts do to the pair later.
THEOREM ForkCorrect == ReviewSpec => []ReleaseAloneForksLineage
<1>1. ForkInv => ReleaseAloneForksLineage
  BY DEF ForkInv, Forked, PagesApart, ReleaseAloneForksLineage, Live, IsRelease
<1> QED
  BY <1>1, ReviewInitOK, ForkInit, ReviewStep, ForkReviewStep, PTL DEF ReviewSpec

-----------------------------------------------------------------------------
(* Deletions stay unless released.                                         *)

Upserted(f, p) == p \in 1..Len(f) /\ f[p].op = "upsert"

\* A row of the event has been released, or released and then rejected.
Freed(d, k, p) ==
    \E q \in d.quarantine : q.key = k /\ q.event = p /\ q.status # "unresolved"

\* The snapshots a revert can bring back, and the rows as they are.
DeletionsKept(d, f) ==
    /\ \A s \in d.snapshots : ~s.deleted => Upserted(f, s.event) \/ Freed(d, s.key, s.event)
    /\ \A k \in Keys :
          d.canonical[k].event # 0 /\ ~d.canonical[k].deleted
              => Upserted(f, d.canonical[k].event) \/ Freed(d, k, d.canonical[k].event)

DeletionsInv == DeletionsKept(db, feed) /\ DeletionsKept(work, feed)

\* Feeds grow, settled quarantine rows stay settled.
LEMMA DeletionsStay ==
    ASSUME NEW d, NEW u, NEW f, NEW g, DeletionsKept(d, f),
           u.snapshots = d.snapshots, u.canonical = d.canonical,
           \A k, p : Freed(d, k, p) => Freed(u, k, p),
           \A p : Upserted(f, p) => Upserted(g, p)
    PROVE  DeletionsKept(u, g)
BY DEF DeletionsKept

LEMMA DeletionsWrite ==
    ASSUME TypeInv, DeletionsInv, NEW p \in 1..Len(feed), WriteEvent(p)
    PROVE  DeletionsInv'
<1> DEFINE gone == feed[p].op = "deleted"
           snap == [key |-> feed[p].key, gen |-> CurrentJob, event |-> p,
                    deleted |-> gone, sup |-> 0]
           row == [event |-> p, deleted |-> gone]
<1>1. /\ db' = db /\ feed' = feed /\ work'.quarantine = work.quarantine
      /\ work'.snapshots = MarkSuperseded(work.snapshots, feed[p].key, CurrentJob) \cup {snap}
      /\ \A k \in Keys : work'.canonical[k] = IF k = feed[p].key THEN row ELSE work.canonical[k]
  BY WriteEffect
<1>2. /\ snap.event = p /\ snap.deleted = gone /\ row.event = p /\ row.deleted = gone
      /\ ~gone => Upserted(feed, p)
  <2>1. feed[p] \in Event
    BY ElementOfSeq DEF TypeInv, TypeOK
  <2> QED
    BY <2>1 DEF Event, Upserted
<1> HIDE DEF gone, snap, row
<1>3. \A k, q : Freed(work', k, q) <=> Freed(work, k, q)
  BY <1>1 DEF Freed
<1>4. ASSUME NEW s \in work'.snapshots, ~s.deleted
      PROVE  Upserted(feed, s.event) \/ Freed(work', s.key, s.event)
  <2>1. CASE s = snap
    BY <1>2, <1>4, <2>1
  <2>2. CASE s \in MarkSuperseded(work.snapshots, feed[p].key, CurrentJob)
    <3>1. PICK t \in work.snapshots :
             s.key = t.key /\ s.event = t.event /\ s.deleted = t.deleted
      <4>1. work.snapshots \subseteq Snapshot
        BY TableFields DEF TypeInv, TypeOK
      <4> QED
        BY <2>2, <4>1 DEF MarkSuperseded, Snapshot
    <3> QED
      BY <1>3, <1>4, <3>1 DEF DeletionsInv, DeletionsKept
  <2> QED
    BY <1>1, <2>1, <2>2
<1>5. ASSUME NEW k \in Keys, work'.canonical[k].event # 0, ~work'.canonical[k].deleted
      PROVE  Upserted(feed, work'.canonical[k].event) \/ Freed(work', k, work'.canonical[k].event)
  <2>1. CASE k = feed[p].key
    BY <1>1, <1>2, <1>5, <2>1
  <2>2. CASE k # feed[p].key
    BY <1>1, <1>3, <1>5, <2>2 DEF DeletionsInv, DeletionsKept
  <2> QED
    BY <2>1, <2>2
<1>6. DeletionsKept(work', feed)
  BY <1>4, <1>5 DEF DeletionsKept
<1> QED
  BY <1>1, <1>6 DEF DeletionsInv

\* A revert brings a snapshot back as it was written.
LEMMA DeletionsRevert ==
    ASSUME TypeInv, DeletionsInv, NEW j \in 1..Len(db.jobs), Revert(j)
    PROVE  DeletionsInv'
<1>1. /\ work' = db' /\ feed' = feed /\ db'.quarantine = db.quarantine
      /\ db'.snapshots = {RevertSnapshot(db, j, s) : s \in db.snapshots}
      /\ \A k \in Keys : db'.canonical[k] = RevertRow(db, j, k)
  BY RevertEffect
<1>2. db.snapshots \subseteq Snapshot /\ db.canonical \in [Keys -> CanonicalRow]
  BY TableFields DEF TypeInv, TypeOK
<1>3. \A k, q : Freed(db', k, q) <=> Freed(db, k, q)
  BY <1>1 DEF Freed
<1>4. DeletionsKept(db, feed)
  BY DEF DeletionsInv
<1>5. ASSUME NEW s \in db.snapshots
      PROVE  LET t == RevertSnapshot(db, j, s)
             IN  t.key = s.key /\ t.event = s.event /\ t.deleted = s.deleted
  BY <1>2 DEF RevertSnapshot, Snapshot
<1>6. ASSUME NEW k \in Keys, RevertRow(db, j, k).event # 0, ~RevertRow(db, j, k).deleted
      PROVE  \/ Upserted(feed, RevertRow(db, j, k).event)
             \/ Freed(db, k, RevertRow(db, j, k).event)
  <2>1. CASE Reverted(db, j, k) = {}
    BY <1>4, <1>6, <2>1 DEF RevertRow, DeletionsKept
  <2>2. CASE Reverted(db, j, k) # {} /\ Prior(db, j, k) = {}
    <3>1. RevertRow(db, j, k) = [db.canonical[k] EXCEPT !.deleted = TRUE]
      BY <2>2 DEF RevertRow
    <3>2. RevertRow(db, j, k).deleted = TRUE
      BY <1>2, <3>1 DEF CanonicalRow
    <3> QED
      BY <1>6, <3>2
  <2>3. CASE Reverted(db, j, k) # {} /\ Prior(db, j, k) # {}
    <3> DEFINE r == CHOOSE s \in Prior(db, j, k) : TRUE
    <3>1. r \in db.snapshots /\ r.key = k
      BY <2>3, PriorFacts
    <3>2. RevertRow(db, j, k) = [event |-> r.event, deleted |-> r.deleted]
      BY <2>3 DEF RevertRow
    <3>3. RevertRow(db, j, k).event = r.event /\ RevertRow(db, j, k).deleted = r.deleted
      BY <3>2
    <3> HIDE DEF r
    <3> QED
      BY <1>4, <1>6, <3>1, <3>3 DEF DeletionsKept
  <2> QED
    BY <2>1, <2>2, <2>3
<1>7. DeletionsKept(db', feed)
  <2>1. ASSUME NEW s \in db'.snapshots, ~s.deleted
        PROVE  Upserted(feed, s.event) \/ Freed(db', s.key, s.event)
    <3>1. PICK t \in db.snapshots : s = RevertSnapshot(db, j, t)
      BY <1>1
    <3>2. s.key = t.key /\ s.event = t.event /\ s.deleted = t.deleted
      BY <1>5, <3>1
    <3> QED
      BY <1>3, <1>4, <2>1, <3>2 DEF DeletionsKept
  <2>2. ASSUME NEW k \in Keys, db'.canonical[k].event # 0, ~db'.canonical[k].deleted
        PROVE  Upserted(feed, db'.canonical[k].event) \/ Freed(db', k, db'.canonical[k].event)
    BY <1>1, <1>3, <1>6, <2>2
  <2> QED
    BY <2>1, <2>2 DEF DeletionsKept
<1> QED
  BY <1>1, <1>7 DEF DeletionsInv

LEMMA DeletionsStep ==
    ASSUME TypeInv, DeletionsInv, [Next]_vars
    PROVE  DeletionsInv'
\* Steps that leave rows and snapshots to what either transaction has.
<1>a. ASSUME NEW d \in {db, work}, NEW u,
             u.snapshots = d.snapshots, u.canonical = d.canonical,
             d.quarantine \subseteq u.quarantine, feed' = feed
      PROVE  DeletionsKept(u, feed')
  <2>1. \A k, p : Freed(d, k, p) => Freed(u, k, p)
    BY <1>a DEF Freed
  <2> QED
    BY <1>a, <2>1, DeletionsStay DEF DeletionsInv
<1>1. ASSUME NEW e \in Event, Publish(e) PROVE DeletionsInv'
  <2>1. /\ db' = db /\ work' = work /\ feed \in Seq(Event) /\ feed' = Append(feed, e)
    BY <1>1 DEF Publish, TypeInv, TypeOK
  <2>2. \A p : Upserted(feed, p) => Upserted(feed', p)
    BY <2>1, AppendProperties, LenProperties DEF Upserted
  <2> QED
    BY <2>1, <2>2 DEF DeletionsInv, DeletionsKept
<1>2. CASE Poll
  BY <1>2, <1>a, PollEffect DEF DeletionsInv
<1>3. CASE BlockPage
  BY <1>3, <1>a, BlockPageEffect DEF DeletionsInv
<1>4. ASSUME NEW p \in 1..Len(feed), SkipEvent(p) \/ QuarantineEvent(p) \/ DedupEvent(p)
      PROVE  DeletionsInv'
  <2>1. /\ db' = db /\ feed' = feed
        /\ work'.snapshots = work.snapshots /\ work'.canonical = work.canonical
        /\ work.quarantine \subseteq work'.quarantine
    BY <1>4, SkipEffect, QuarantineEffect DEF DedupEvent
  <2> QED
    BY <1>a, <2>1 DEF DeletionsInv
<1>5. ASSUME NEW p \in 1..Len(feed), WriteEvent(p) PROVE DeletionsInv'
  BY <1>5, DeletionsWrite
<1>6. CASE CommitPage
  BY <1>6, <1>a, CommitEffect DEF DeletionsInv
<1>7. CASE Crash
  BY <1>7, <1>a DEF Crash, DeletionsInv
<1>8. ASSUME NEW j \in 1..Len(db.jobs), NEW forced \in BOOLEAN, Retry(j, forced)
      PROVE  DeletionsInv'
  BY <1>8, <1>a, RetryEffect DEF DeletionsInv
<1>9. ASSUME NEW j \in 1..Len(db.jobs), Revert(j) PROVE DeletionsInv'
  BY <1>9, DeletionsRevert
<1>10. CASE UNCHANGED vars
  BY <1>10 DEF vars, DeletionsInv
<1> QED
  BY <1>1, <1>2, <1>3, <1>4, <1>5, <1>6, <1>7, <1>8, <1>9, <1>10
     DEF Next, Worker, ProcessEvent, Operator

\* A row resolved once is settled in the tables after any resolution.
LEMMA FreedResolved ==
    ASSUME NEW d \in Tables, NEW u \in Tables, NEW id, NEW st \in {"released", "rejected"},
           u.quarantine = Resolved(d.quarantine, id, st)
    PROVE  /\ \A k, p : Freed(d, k, p) => Freed(u, k, p)
           /\ \A q \in d.quarantine : Id(q) = id => Freed(u, q.key, q.event)
<1>1. ASSUME NEW q \in d.quarantine, q.status # "unresolved" \/ Id(q) = id
      PROVE  Freed(u, q.key, q.event)
  <2> DEFINE r == IF Id(q) = id THEN [q EXCEPT !.status = st] ELSE q
  <2>1. q \in QuarantineRow
    BY TableFields
  <2>2. r \in u.quarantine
    BY DEF Resolved
  <2>3. r.key = q.key /\ r.event = q.event /\ r.status # "unresolved"
    BY <1>1, <2>1, RowFields
  <2> HIDE DEF r
  <2> QED
    BY <2>2, <2>3 DEF Freed
<1> QED
  BY <1>1 DEF Freed

\* A release writes the event as not deleted, and its row says it did.
LEMMA DeletionsRelease ==
    ASSUME TypedReview, DeletionsInv, NEW o \in Operators, FinishRelease(o)
    PROVE  DeletionsInv'
<1> DEFINE id == session[o].row
           row == [event |-> id.event, deleted |-> FALSE]
           snap == [key |-> id.key, gen |-> Len(db.jobs) + 1, event |-> id.event,
                    deleted |-> FALSE, sup |-> 0]
<1>1. /\ db' = Released(db, id) /\ work' = db' /\ feed' = feed
      /\ session[o].doing = "release"
  BY DEF FinishRelease, Commit
<1>2. PICK q \in db.quarantine : Id(q) = id
  BY <1>1, ReviewTypes DEF SessionsHold
<1>3. /\ db \in Tables /\ id \in RowId /\ id.key = q.key /\ id.event = q.event
      /\ db.canonical \in [Keys -> CanonicalRow] /\ id.key \in Keys
  <2>1. db \in Tables /\ q \in QuarantineRow
    BY <1>2, ReviewTypes
  <2>2. Id(q) \in RowId /\ Id(q).key = q.key /\ Id(q).event = q.event
    BY <2>1, RowFields
  <2>3. q.key \in Keys
    BY <2>1 DEF QuarantineRow
  <2>4. db.canonical \in [Keys -> CanonicalRow]
    BY <2>1, TableFields
  <2> QED
    BY <1>2, <2>1, <2>2, <2>3, <2>4
<1>4. /\ db' \in Tables /\ db'.quarantine = Resolved(db.quarantine, id, "released")
      /\ db'.snapshots = db.snapshots \cup {snap}
      /\ db'.canonical = [db.canonical EXCEPT ![id.key] = row]
  BY <1>1, <1>3, ReleasedFields
<1>5. /\ row.event = id.event /\ snap.key = id.key /\ snap.event = id.event
  OBVIOUS
<1> HIDE DEF row, snap
<1>6. /\ \A k, p : Freed(db, k, p) => Freed(db', k, p)
      /\ Freed(db', id.key, id.event)
  BY <1>2, <1>3, <1>4, FreedResolved
<1>7. DeletionsKept(db', feed)
  <2>1. ASSUME NEW s \in db'.snapshots, ~s.deleted
        PROVE  Upserted(feed, s.event) \/ Freed(db', s.key, s.event)
    BY <1>4, <1>5, <1>6, <2>1 DEF DeletionsInv, DeletionsKept
  <2>2. ASSUME NEW k \in Keys, db'.canonical[k].event # 0, ~db'.canonical[k].deleted
        PROVE  Upserted(feed, db'.canonical[k].event) \/ Freed(db', k, db'.canonical[k].event)
    <3>1. CASE k = id.key
      BY <1>3, <1>4, <1>5, <1>6, <3>1
    <3>2. CASE k # id.key
      <4>1. db'.canonical[k] = db.canonical[k]
        BY <1>3, <1>4, <3>2
      <4> QED
        BY <1>6, <2>2, <4>1 DEF DeletionsInv, DeletionsKept
    <3> QED
      BY <3>1, <3>2
  <2> QED
    BY <2>1, <2>2 DEF DeletionsKept
<1> QED
  BY <1>1, <1>7 DEF DeletionsInv

LEMMA DeletionsReviewStep ==
    TypedReview /\ DeletionsInv /\ [ReviewNext]_reviewVars => DeletionsInv'
<1> SUFFICES ASSUME TypedReview, DeletionsInv, [ReviewNext]_reviewVars
             PROVE  DeletionsInv'
  OBVIOUS
<1>1. CASE [Next]_vars
  BY <1>1, DeletionsStep DEF TypedReview
<1>2. CASE UNCHANGED vars
  BY <1>1, <1>2
<1>3. ASSUME NEW o \in Operators, FinishRelease(o) PROVE DeletionsInv'
  BY <1>3, DeletionsRelease
<1>4. ASSUME NEW o \in Operators, FinishReject(o) PROVE DeletionsInv'
  <2>1. db' = Resolve(db, session[o].row, "rejected") /\ work' = db' /\ feed' = feed
    BY <1>4 DEF FinishReject, Commit
  <2>2. /\ db' \in Tables /\ db'.snapshots = db.snapshots /\ db'.canonical = db.canonical
        /\ db'.quarantine = Resolved(db.quarantine, session[o].row, "rejected")
    BY <2>1, ReviewTypes, ResolveFields
  <2>3. \A k, p : Freed(db, k, p) => Freed(db', k, p)
    BY <2>2, ReviewTypes, FreedResolved
  <2>4. DeletionsKept(db', feed)
    BY <2>2, <2>3, DeletionsStay DEF DeletionsInv
  <2> QED
    BY <2>1, <2>4 DEF DeletionsInv
<1>5. ASSUME NEW o \in Operators, NEW q \in db.quarantine,
             BeginRelease(o, q) \/ BeginReject(o, q)
      PROVE  DeletionsInv'
  BY <1>2, <1>5 DEF BeginRelease, BeginReject
<1>6. ASSUME NEW o \in Operators, Abandon(o) PROVE DeletionsInv'
  BY <1>2, <1>6 DEF Abandon
<1> QED
  BY <1>1, <1>2, <1>3, <1>4, <1>5, <1>6 DEF ReviewNext, Review, reviewVars

\* A page carries a deletion into the snapshot and the row, a revert brings a
\* snapshot back with the mark it was written with, and only release writes an
\* event as live without knowing what it was.
THEOREM DeletionsCorrect == ReviewSpec => []DeletionsStayUnlessReleased
<1>1. ReviewInit => DeletionsInv
  <2> SUFFICES ASSUME ReviewInit PROVE DeletionsInv
    OBVIOUS
  <2>1. /\ db.snapshots = {} /\ work.snapshots = {}
        /\ \A k \in Keys : db.canonical[k].event = 0 /\ work.canonical[k].event = 0
    BY DEF ReviewInit, Init, EmptyTables, NoRow
  <2> QED
    BY <2>1 DEF DeletionsInv, DeletionsKept
<1>2. DeletionsInv => DeletionsStayUnlessReleased
  BY DEF DeletionsInv, DeletionsKept, DeletionsStayUnlessReleased, Upserted, Freed
<1> QED
  BY <1>1, <1>2, DeletionsReviewStep, ReviewInitOK, ReviewStep, PTL DEF ReviewSpec

=============================================================================
