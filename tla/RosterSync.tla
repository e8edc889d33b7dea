----------------------------- MODULE RosterSync -----------------------------
(***************************************************************************)
(* The rostering ledger of one LEA: the partner's event feed, the tables   *)
(* the sync worker writes from it (snapshots, canonical rows, sync_jobs,   *)
(* quarantine, cursor_state), and the two operator actions that rewrite    *)
(* them, revert and retry.                                                 *)
(*                                                                         *)
(* The worker commits a page of events in one transaction: `work' is the   *)
(* tables as its open transaction sees them, `db' the committed tables; a  *)
(* crash or an exception drops `work'.  Transactions of the worker and of  *)
(* the operators are taken one after the other here.                       *)
(*                                                                         *)
(* A natural key is a student or an enrollment, an event id is its         *)
(* position in the feed, and a payload is the id of the event that carried *)
(* it.  Job and generation ids are positions in `jobs'; 0 stands for NULL. *)
(***************************************************************************)
EXTENDS Naturals, Sequences

CONSTANTS
    Students,          \* natural keys of entity type student
    Enrollments,       \* natural keys of entity type enrollment
    StudentOf,         \* the student_id in an enrollment's payload
    Kinds,             \* how the partner's events fare before Layer 4
    PageSize,          \* events per fetch_changes page
    MaxEvents,         \* bound: events the partner publishes
    MaxUnproductive,   \* bound: crashes, failed pages and empty polls
    MaxInterventions   \* bound: operator actions

ASSUME ConstantsAssumption ==
    /\ Students \cap Enrollments = {}
    /\ StudentOf \in [Enrollments -> Students]
    /\ Kinds \subseteq {"ok", "schema", "parse", "unmapped", "unparsable"}
    /\ PageSize \in Nat \ {0}
    /\ MaxEvents \in Nat
    /\ MaxUnproductive \in Nat
    /\ MaxInterventions \in Nat

VARIABLES
    feed,          \* the partner's event log
    db,            \* the committed tables
    work,          \* the tables inside the worker's open transaction
    page,          \* the page that transaction is applying
    audit,         \* retry_actions and revert_actions, in order
    unproductive   \* polls so far that moved nothing (bounded)

vars == <<feed, db, work, page, audit, unproductive>>

-----------------------------------------------------------------------------
(* The tables.                                                             *)

Keys == Students \cup Enrollments

\* "ok": mapped and clears Layers 2 and 3; "schema", "parse": mapped, with a
\* Layer 2 or a Layer 3 issue; "unmapped": the connector's _normalize returns
\* None; "unparsable": it raises (a begin date missing or not ISO).
Event == [key: Keys, op: {"upsert", "deleted"}, kind: Kinds]

Status == {"running", "success", "failed", "revert", "quarantine_release"}

Job == [status: Status, before: Nat]

\* `sup' is superseded_by_generation_id.
Snapshot == [key: Keys, gen: Nat \ {0}, event: Nat \ {0}, deleted: BOOLEAN,
             sup: Nat]

\* A canonical row holds the payload of `event'; event 0 is no row at all.
\* `deleted' says deleted_at is set.
CanonicalRow == [event: Nat, deleted: BOOLEAN]

NoRow == [event |-> 0, deleted |-> FALSE]

QuarantineRow == [gen: Nat \ {0}, event: Nat \ {0}, key: Keys,
                  status: {"unresolved", "released", "rejected"}]

\* `issues' are the (event, job) pairs sync_validation_results holds for
\* events a layer rejected.
Tables == [snapshots: SUBSET Snapshot, canonical: [Keys -> CanonicalRow],
           cursor: Nat, jobs: Seq(Job), quarantine: SUBSET QuarantineRow,
           issues: SUBSET (Nat \X Nat)]

AuditRow == [action: {"retry", "revert"}, job: Nat, moved: BOOLEAN]

Page == [open: BOOLEAN, next: Nat, to: Nat, known: SUBSET Students]

NoPage == [open |-> FALSE, next |-> 0, to |-> 0, known |-> {}]

-----------------------------------------------------------------------------
(* Queries and statements.                                                 *)

Live(d, k) == {s \in d.snapshots : s.key = k /\ s.sup = 0}

\* SELECT id FROM students: soft-deleted rows are still known.
KnownStudents(d) == {s \in Students : d.canonical[s].event # 0}

AlreadyApplied_Never(d, p) == FALSE  \* mutant: no high-water mark

\* The dedup high-water mark: a live snapshot of the event's key whose
\* source_event_id is not below the event's.
AlreadyApplied(d, p) == \E s \in Live(d, feed[p].key) : p <= s.event

MarkSuperseded_OtherJobsOnly(S, k, j) ==  \* mutant: skips the page's own rows
    {IF s.key = k /\ s.sup = 0 /\ s.gen # j THEN [s EXCEPT !.sup = j] ELSE s :
     s \in S}

MarkSuperseded(S, k, j) ==
    {IF s.key = k /\ s.sup = 0 THEN [s EXCEPT !.sup = j] ELSE s : s \in S}

\* One event written by job j: prior live snapshot superseded, snapshot
\* inserted, canonical row upserted.
ApplyEvent(d, p, j) ==
    LET e == feed[p]
        gone == e.op = "deleted"
    IN  [d EXCEPT
           !.snapshots = MarkSuperseded(@, e.key, j) \cup
               {[key |-> e.key, gen |-> j, event |-> p, deleted |-> gone,
                 sup |-> 0]},
           !.canonical = [@ EXCEPT ![e.key] = [event |-> p, deleted |-> gone]]]

\* A transaction that commits: the worker's session, idle, sees the result.
Commit(d) == db' = d /\ work' = d

-----------------------------------------------------------------------------
(* The partner.                                                            *)

Publish(e) ==
    /\ Len(feed) < MaxEvents
    /\ feed' = Append(feed, e)
    /\ UNCHANGED <<db, work, page, audit, unproductive>>

-----------------------------------------------------------------------------
(* The sync worker: one action per step of _process_one_page.              *)

PageEnd ==
    IF db.cursor + PageSize < Len(feed) THEN db.cursor + PageSize ELSE Len(feed)

Fetched == (db.cursor + 1)..PageEnd

\* Read the cursor, fetch the page after it, read the students Layer 4 may
\* resolve against, insert the running job.  A page with an unparsable event
\* raises out of fetch_changes: there is no transaction to speak of.
Poll ==
    /\ ~page.open
    /\ \A p \in Fetched : feed[p].kind # "unparsable"
    /\ Fetched = {} => unproductive < MaxUnproductive
    /\ work' = [db EXCEPT !.jobs =
                    Append(@, [status |-> "running", before |-> db.cursor])]
    /\ page' = [open |-> TRUE, next |-> db.cursor + 1, to |-> PageEnd,
                known |-> KnownStudents(db)]
    /\ UNCHANGED <<feed, db, audit, unproductive>>

\* _insert_sync_job_running, then _mark_sync_job_failed.
FailedJob == [status |-> "failed", before |-> db.cursor]

\* Layer 1 failed: the job is committed as failed, the cursor stays.
BlockPage ==
    /\ ~page.open
    /\ unproductive < MaxUnproductive
    /\ unproductive' = unproductive + 1
    /\ Commit([db EXCEPT !.jobs = Append(@, FailedJob)])
    /\ UNCHANGED <<feed, page, audit>>

CurrentJob == Len(work.jobs)

\* The next event of the page, and the loop over page.events moving past it.
Pending(p) == page.open /\ page.next <= page.to /\ p = page.next

Resolves(e) == e.key \in Enrollments => StudentOf[e.key] \in page.known

\* mutant: Layer 4 walks every event of the page, rejected ones included
Advance_WalksRejected(e) ==
    page' = [page EXCEPT !.next = @ + 1,
                         !.known = IF e.key \in Students
                                   THEN @ \cup {e.key} ELSE @]

\* mutant: the walk adds the key of every entity
Advance_AddsEveryKey(e) ==
    page' = [page EXCEPT !.next = @ + 1,
                         !.known = IF e.kind = "ok" THEN @ \cup {e.key} ELSE @]

\* Layer 4 walks the surviving events in page order, adding each student.
Advance(e) ==
    page' = [page EXCEPT !.next = @ + 1,
                         !.known = IF e.kind = "ok" /\ e.key \in Students
                                   THEN @ \cup {e.key} ELSE @]

\* Dropped by the connector, or rejected by Layer 2 or 3, which leaves a
\* sync_validation_results row.
SkipEvent(p) ==
    /\ Pending(p)
    /\ feed[p].kind \in {"schema", "parse", "unmapped"}
    /\ work' = [work EXCEPT !.issues =
                    IF feed[p].kind # "unmapped"
                    THEN @ \cup {<<p, CurrentJob>>} ELSE @]
    /\ Advance(feed[p])
    /\ UNCHANGED <<feed, db, audit, unproductive>>

\* Layer 4 routes an orphan enrollment to quarantine.
QuarantineEvent(p) ==
    /\ Pending(p)
    /\ feed[p].kind = "ok"
    /\ ~Resolves(feed[p])
    /\ work' = [work EXCEPT !.quarantine = @ \cup
                    {[gen |-> CurrentJob, event |-> p, key |-> feed[p].key,
                      status |-> "unresolved"]}]
    /\ Advance(feed[p])
    /\ UNCHANGED <<feed, db, audit, unproductive>>

\* _apply_event returned False.
DedupEvent(p) ==
    /\ Pending(p)
    /\ feed[p].kind = "ok"
    /\ Resolves(feed[p])
    /\ AlreadyApplied(work, p)
    /\ Advance(feed[p])
    /\ UNCHANGED <<feed, db, work, audit, unproductive>>

WriteEvent(p) ==
    /\ Pending(p)
    /\ feed[p].kind = "ok"
    /\ Resolves(feed[p])
    /\ ~AlreadyApplied(work, p)
    /\ work' = ApplyEvent(work, p, CurrentJob)
    /\ Advance(feed[p])
    /\ UNCHANGED <<feed, db, audit, unproductive>>

\* mutant: the cursor is the last event that was mapped
NextCursor_LastMapped ==
    IF \E p \in (db.cursor + 1)..page.to : feed[p].kind # "unmapped"
    THEN CHOOSE p \in (db.cursor + 1)..page.to :
            /\ feed[p].kind # "unmapped"
            /\ \A q \in (p + 1)..page.to : feed[q].kind = "unmapped"
    ELSE db.cursor

\* EventPage.next_cursor: the id of the last event of the response, mapped or
\* not, and the cursor it was asked for when there is none.
NextCursor == page.to

MarkSuccess(J, j) == [J EXCEPT ![j].status = "success"]

Succeeded(d, j, c) == [d EXCEPT !.jobs = MarkSuccess(@, j), !.cursor = c]

\* The job succeeds and the cursor moves in the transaction of the writes.
CommitPage ==
    /\ page.open
    /\ page.next = page.to + 1
    /\ IF NextCursor = db.cursor
       THEN /\ unproductive < MaxUnproductive
            /\ unproductive' = unproductive + 1
       ELSE UNCHANGED unproductive
    /\ Commit(Succeeded(work, CurrentJob, NextCursor))
    /\ page' = NoPage
    /\ UNCHANGED <<feed, audit>>

\* mutant: the cursor is saved on the way out of the exception
Crash_SavesCursor ==
    /\ page.open
    /\ unproductive < MaxUnproductive
    /\ unproductive' = unproductive + 1
    /\ Commit([db EXCEPT !.cursor = NextCursor])
    /\ page' = NoPage
    /\ UNCHANGED <<feed, audit>>

\* The process dies, or an exception leaves the session block: rollback.
Crash ==
    /\ page.open
    /\ unproductive < MaxUnproductive
    /\ unproductive' = unproductive + 1
    /\ work' = db
    /\ page' = NoPage
    /\ UNCHANGED <<feed, db, audit>>

-----------------------------------------------------------------------------
(* Operator actions.                                                       *)

CanIntervene == ~page.open /\ Len(audit) < MaxInterventions

\* RetryService.retry: the cursor goes back to the job's cursor_before.  A
\* quarantine_release job carries partner 'operator', whose cursor_state row
\* is another one than the worker's.
Retry(j, forced) ==
    /\ CanIntervene
    /\ db.jobs[j].status # "revert"
    /\ db.jobs[j].status = "success" => forced
    /\ Commit([db EXCEPT !.cursor =
                   IF db.jobs[j].status = "quarantine_release"
                   THEN @ ELSE db.jobs[j].before])
    /\ audit' = Append(audit, [action |-> "retry", job |-> j, moved |-> FALSE])
    /\ UNCHANGED <<feed, page, unproductive>>

\* mutant: a row that a revert took out counts too
RevertRefused_AnySupersession(d, j) == \E s \in d.snapshots : s.gen = j /\ s.sup # 0

\* _refuse_if_superseded_by_newer_sync.
RevertRefused(d, j) ==
    \E s \in d.snapshots :
        s.gen = j /\ s.sup # 0 /\ d.jobs[s.sup].status # "revert"

\* mutant: superseded rows of the job are taken out again
Reverted_AnyRow(d, j, k) == {s \in d.snapshots : s.key = k /\ s.gen = j}

\* The snapshots job j wrote that are still live.
Reverted(d, j, k) == {s \in Live(d, k) : s.gen = j}

Prior_LastSuperseded(d, j, k) ==  \* mutant: whoever superseded it
    {s \in d.snapshots :
        /\ s.key = k /\ s.sup # 0 /\ s.gen # j
        /\ \A t \in d.snapshots :
               t.key = k /\ t.sup # 0 /\ t.gen # j => t.event <= s.event}

LastSuperseded(d, j, k) ==
    {s \in d.snapshots :
        /\ s.key = k /\ s.sup = j
        /\ \A t \in d.snapshots : t.key = k /\ t.sup = j => t.event <= s.event}

\* The one snapshot of a key, of the highest event, that comes back when job
\* j's is taken out.  Which of several with that event is not determined.
Prior(d, j, k) ==
    LET last == LastSuperseded(d, j, k)
    IN  IF last = {} THEN {} ELSE {CHOOSE s \in last : TRUE}

RevertSnapshot(d, j, s) ==
    IF s \in Reverted(d, j, s.key) THEN [s EXCEPT !.sup = Len(d.jobs) + 1]
    ELSE IF Reverted(d, j, s.key) # {} /\ s \in Prior(d, j, s.key)
    THEN [s EXCEPT !.sup = 0]
    ELSE s

RevertRow_AlwaysLive(d, j, k) ==  \* mutant: deleted_upstream is ignored
    IF Reverted(d, j, k) = {} THEN d.canonical[k]
    ELSE IF Prior(d, j, k) = {} THEN [d.canonical[k] EXCEPT !.deleted = TRUE]
    ELSE LET p == CHOOSE s \in Prior(d, j, k) : TRUE
         IN  [event |-> p.event, deleted |-> FALSE]

RevertRow(d, j, k) ==
    IF Reverted(d, j, k) = {} THEN d.canonical[k]
    ELSE IF Prior(d, j, k) = {} THEN [d.canonical[k] EXCEPT !.deleted = TRUE]
    ELSE LET p == CHOOSE s \in Prior(d, j, k) : TRUE
         IN  [event |-> p.event, deleted |-> p.deleted]

RevertJob == [status |-> "revert", before |-> 0]

\* The synthetic revert job, the snapshots and canonical rows of every key.
Undone(d, j) ==
    [d EXCEPT
       !.jobs = Append(@, RevertJob),
       !.snapshots = {RevertSnapshot(d, j, s) : s \in @},
       !.canonical = [k \in Keys |-> RevertRow(d, j, k)]]

\* RevertService.revert, one transaction, with its audit row.
Revert(j) ==
    /\ CanIntervene
    /\ ~RevertRefused(db, j)
    /\ Commit(Undone(db, j))
    /\ audit' = Append(audit, [action |-> "revert", job |-> j,
                   moved |-> \E k \in Keys : Reverted(db, j, k) # {}])
    /\ UNCHANGED <<feed, page, unproductive>>

-----------------------------------------------------------------------------
EmptyTables ==
    [snapshots |-> {}, canonical |-> [k \in Keys |-> NoRow], cursor |-> 0,
     jobs |-> <<>>, quarantine |-> {}, issues |-> {}]

Init ==
    /\ feed = <<>>
    /\ db = EmptyTables
    /\ work = EmptyTables
    /\ page = NoPage
    /\ audit = <<>>
    /\ unproductive = 0

ProcessEvent ==
    \E p \in 1..Len(feed) :
        SkipEvent(p) \/ QuarantineEvent(p) \/ DedupEvent(p) \/ WriteEvent(p)

Worker == Poll \/ ProcessEvent \/ CommitPage

Operator ==
    \E j \in 1..Len(db.jobs) :
        Revert(j) \/ \E forced \in BOOLEAN : Retry(j, forced)

Next ==
    \/ \E e \in Event : Publish(e)
    \/ Worker
    \/ BlockPage
    \/ Crash
    \/ Operator

Spec == Init /\ [][Next]_vars

\* The scheduler keeps polling the LEA and an open page is worked off.
FairSpec == Spec /\ WF_vars(Poll) /\ WF_vars(ProcessEvent \/ CommitPage)

-----------------------------------------------------------------------------
(* Properties.                                                             *)

TypeOK ==
    /\ feed \in Seq(Event)
    /\ db \in Tables
    /\ work \in Tables
    /\ page \in Page
    /\ audit \in Seq(AuditRow)
    /\ unproductive \in Nat

OneLive(d) == \A k \in Keys : \A s, t \in Live(d, k) : s = t

CanonicalMatches(d) ==
    \A k \in Keys :
        IF Live(d, k) = {}
        THEN d.canonical[k].event = 0 \/ d.canonical[k].deleted
        ELSE \E s \in Live(d, k) :
                d.canonical[k] = [event |-> s.event, deleted |-> s.deleted]

\* At most one snapshot per natural key has superseded_by_generation_id
\* NULL: what a page, a replay or a revert leaves behind is one lineage.
SupersessionInvariant == OneLive(db)

\* The canonical row shows exactly what the live snapshot says, and a key
\* without a live snapshot has no row or a soft-deleted one: after a revert
\* canonical is rewound together with the snapshots.
CanonicalFollowsSnapshots == CanonicalMatches(db)

\* An enrollment row never names a student without a row (the composite
\* foreign key would abort the page): Layer 4's walking set never runs ahead
\* of what the transaction has written.
EnrollmentsResolve ==
    \A e \in Enrollments :
        db.canonical[e].event # 0 => db.canonical[StudentOf[e]].event # 0

\* Every mapped event the cursor has passed is accounted for: a snapshot of
\* its key at or above it, a quarantine row, or a validation issue.  A crash
\* between the writes and the cursor, or a rewind, loses nothing.
Accounted(d, p) ==
    CASE feed[p].kind = "ok" ->
            \/ \E s \in d.snapshots : s.key = feed[p].key /\ p <= s.event
            \/ \E q \in d.quarantine : q.event = p
      [] feed[p].kind \in {"schema", "parse"} -> \E j \in 1..Len(d.jobs) : <<p, j>> \in d.issues
      [] OTHER -> feed[p].kind = "unmapped"

NoEventLost == \A p \in 1..db.cursor : Accounted(db, p)

\* A revert is final: a snapshot taken out by one never becomes live again,
\* so a second revert of the same job finds nothing to move.
DoubleRevertMovesNothing ==
    \A m, n \in 1..Len(audit) :
        m < n /\ audit[m].action = "revert" /\ audit[n].action = "revert"
              /\ audit[m].job = audit[n].job
        => ~audit[n].moved

\* "Roll back the newer sync first" is a way out: once no later job has a live
\* snapshot, whatever reverts, retries and replays that took, a job is not
\* refused, unless it superseded a row of its own.
RollbackFromTheTop ==
    \A j \in 1..Len(db.jobs) :
        (\A s \in db.snapshots : (s.gen = j => s.sup # j) /\ (s.sup = 0 => s.gen <= j))
        => ~RevertRefused(db, j)

\* The live snapshot of a key moves back only by an operator's revert: a page
\* replayed after a crash or a retry never overwrites newer data.
ReplayNeverRegresses ==
    [][audit' = audit =>
         \A k \in Keys : \A s \in Live(db, k) :
             \E t \in Live(db', k) : s.event <= t.event]_vars

\* Always, the worker eventually catches up with what has been published,
\* unless the page after its cursor holds an event whose date does not parse:
\* that alone stops a polled LEA, through crashes, failed pages and retries.
CatchesUp ==
    []<>(\/ db.cursor = Len(feed)
         \/ \E p \in Fetched : feed[p].kind = "unparsable")

-----------------------------------------------------------------------------
(* What the repository says and the code does not do.                      *)

\* RevertService: "If the target sync_job has snapshots that have been
\* superseded by a NEWER sync_job (not by a revert), the revert is refused":
\* a job is refused over what a later sync did, and over nothing else.
OnlyNewerSyncRefuses ==
    \A j \in 1..Len(db.jobs) :
        RevertRefused(db, j)
        => \E s \in db.snapshots : s.gen = j /\ s.sup > j /\ db.jobs[s.sup].status # "revert"

=============================================================================
