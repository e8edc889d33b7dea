----------------------------- MODULE PageIntake -----------------------------
(***************************************************************************)
(* What becomes of the partner's raw events: the EdLink connector's        *)
(* mapping, the five validation layers, the write, and the alerts after    *)
(* the commit.  RosterSync takes the outcome of mapping and Layers 2 and 3 *)
(* as a kind an event has; here it follows from the event's content, and   *)
(* Layer 5 compares a page with the jobs before it.                        *)
(*                                                                         *)
(* A page is one step: its transaction and its races are RosterSync's and  *)
(* PageRaces'.  Without reverts the live snapshot of a key and its         *)
(* canonical row are one thing, here a row of `roster'.                    *)
(***************************************************************************)
EXTENDS Integers, Sequences, FiniteSets, TLC

CONSTANTS
    Students, Enrollments,
    StudentOf,      \* the user an enrollment refers to
    Raws,           \* the raw events the partner may publish
    PageSize,
    MinHistory,     \* ThresholdConfig.min_history_for_thresholds
    MaxEvents,      \* bound: events published
    MaxJobs,        \* bound: pages; below the 30 jobs Layer 5 looks back on
    MaxRetries      \* bound: operator retries

Keys == Students \cup Enrollments

\* type is <entity word>.<action>; of the payload, what one check tells apart.
Raw == [word: {"person", "enrollment", "class", "device"},
        action: {"created", "updated", "deleted", "merged"},
        key: Keys,
        data: {"fine", "teacher", "no_name", "odd_grade", "ends_first", "no_date"}]

ASSUME IntakeAssumption ==
    /\ StudentOf \in [Enrollments -> Students]
    /\ Students \cap Enrollments = {} /\ IsFiniteSet(Students)
    /\ Raws \subseteq Raw
    /\ \A r \in Raws : /\ r.word = "person" => r.key \in Students
                       /\ r.word = "enrollment" => r.key \in Enrollments
    /\ PageSize \in Nat \ {0}
    /\ {MinHistory, MaxEvents, MaxJobs, MaxRetries} \subseteq Nat

VARIABLES
    feed,      \* the partner's event log, published before the run
    roster,    \* canonical row and live snapshot of each key
    cursor,
    jobs,      \* sync_jobs: what Layer 5 reads, and each one's issues
    quarantine,\* ids of quarantined events
    unalerted, \* the job whose alerts the worker has still to evaluate, or 0
    alerts,    \* the alerts raised
    history    \* retries so far, and the jobs a crash left without alerts

vars == <<feed, roster, cursor, jobs, quarantine, unalerted, alerts, history>>

-----------------------------------------------------------------------------
(* EdLinkConnector._normalize.                                             *)

Operations == {"created", "updated", "deleted"}

Dropped(r) ==
    \/ r.word \notin {"person", "enrollment"}
    \/ r.action \notin Operations
    \/ r.word = "person" /\ r.data = "teacher"

\* _parse_date on a begin date that is missing or not ISO.
Raises(r) == ~Dropped(r) /\ r.word = "enrollment" /\ r.data = "no_date"

-----------------------------------------------------------------------------
(* The layers.  An issue is <<event, layer, severity>>.                    *)

Layer2(p) == IF feed[p].data = "no_name" THEN {<<p, 2, "error">>} ELSE {}

Layer3(p) ==
    CASE feed[p].data = "odd_grade" -> {<<p, 3, "warning">>}
      [] feed[p].data = "ends_first" -> {<<p, 3, "error">>}
      [] OTHER -> {}

\* run_pipeline adds the event of every issue, whatever its severity.
Rejected(issues) == {i[1] : i \in issues}

\* mutant: only the page's own students, not those in canonical
Known_PageOnly(surviving, p) ==
    {feed[q].key : q \in {n \in surviving : n < p /\ feed[n].word = "person"}}

\* The walking set when the walk reaches p; soft-deleted students are in it.
Known(surviving, p) ==
    {s \in Students : roster[s].event # 0}
    \cup {feed[q].key : q \in {n \in surviving : n < p /\ feed[n].word = "person"}}

Orphans(surviving) ==
    {p \in surviving : feed[p].word = "enrollment"
                       /\ StudentOf[feed[p].key] \notin Known(surviving, p)}

\* Twice the median, so that it stays an integer; the code's is at least 1.
TwiceMedian(s) ==
    LET t == SortSeq(s, <)
        n == Len(s)
        m == t[(n + 1) \div 2] + t[n \div 2 + 1]
    IN  IF m > 2 THEN m ELSE 2

LiveCount(d) == Cardinality({s \in Students : d[s].event # 0 /\ ~d[s].deleted})

Successes == {n \in 1..Len(jobs) : jobs[n].status = "success"}

Counts(field) ==
    LET s == SelectSeq(jobs, LAMBDA j : j.status = "success")
    IN  [n \in 1..Len(s) |-> s[n][field]]

OfKind(page, word, action) ==
    {p \in page : feed[p].action = action /\ feed[p].word \in word}

Shifted_Net(page) ==  \* mutant: updates count as arrivals, as upserts do
    4 * (Cardinality(OfKind(page, {"person"}, "deleted"))
         - Cardinality(OfKind(page, {"person"}, "created"))
         - Cardinality(OfKind(page, {"person"}, "updated"))) >= LiveCount(roster)

\* drop_fraction is at least 0.25 of the live students.
Shifted(page) ==
    4 * (Cardinality(OfKind(page, {"person"}, "deleted"))
         - Cardinality(OfKind(page, {"person"}, "created"))) >= LiveCount(roster)

\* check_thresholds on the mapped events of the page, rejected ones included:
\* a page over 3 times the median, over 2 times the median of deletions that
\* are at least 0.3 of it, or a drop of the students.
Layer5(page) ==
    LET size == Cardinality(page)
        deletions == Cardinality(OfKind(page, {"person", "enrollment"}, "deleted"))
    IN  IF Cardinality(Successes) < MinHistory THEN {"BASELINE_INSUFFICIENT"}
        ELSE {w \in {"EVENT_VOLUME_SPIKE", "DELETION_BURST", "POPULATION_SHIFT"} :
                \/ /\ w = "EVENT_VOLUME_SPIKE"
                   /\ 2 * size > 3 * TwiceMedian(Counts("events"))
                \/ /\ w = "DELETION_BURST"
                   /\ 10 * deletions >= 3 * size
                   /\ deletions > TwiceMedian(Counts("deletions"))
                \/ /\ w = "POPULATION_SHIFT"
                   /\ LiveCount(roster) > 0
                   /\ Shifted(page)}

-----------------------------------------------------------------------------
PageEnd == IF cursor + PageSize < Len(feed) THEN cursor + PageSize ELSE Len(feed)

CanPoll ==
    /\ unalerted = 0
    /\ Len(jobs) < MaxJobs
    /\ ~\E p \in (cursor + 1)..PageEnd : Raises(feed[p])

Job(status, events, deletions, issues, warnings) ==
    [status |-> status, events |-> events, deletions |-> deletions,
     issues |-> issues, warnings |-> warnings,
     before |-> cursor, after |-> IF status = "success" THEN PageEnd ELSE cursor]

\* Layer 1 failed: the other layers do not run, the job fails.
BlockedPage ==
    /\ CanPoll
    /\ jobs' = Append(jobs, Job("failed", 0, 0, {}, {}))
    /\ unalerted' = Len(jobs) + 1
    /\ UNCHANGED <<feed, roster, cursor, quarantine, alerts, history>>

\* What is new to its key among the events of `ok'.
Fresh(ok) == {p \in ok : roster[feed[p].key].event < p}

Written(fresh) ==
    [k \in Keys |->
        LET mine == {p \in fresh : feed[p].key = k}
        IN  IF mine = {} THEN roster[k]
            ELSE LET p == CHOOSE n \in mine : \A q \in mine : q <= n
                 IN  [event |-> p, deleted |-> feed[p].action = "deleted"]]

\* A page, mapped, validated and committed.
CommitPage ==
    LET page == {p \in (cursor + 1)..PageEnd : ~Dropped(feed[p])}
        schema == UNION {Layer2(p) : p \in page}
        parse == UNION {Layer3(p) : p \in page \ Rejected(schema)}
        surviving == page \ Rejected(schema \cup parse)
        orphans == Orphans(surviving)
        fresh == Fresh(surviving \ orphans)
    IN  /\ CanPoll
        /\ roster' = Written(fresh)
        /\ cursor' = PageEnd
        /\ quarantine' = quarantine \cup orphans
        /\ jobs' = Append(jobs,
               Job("success", Cardinality(fresh),
                   Cardinality({p \in fresh : feed[p].action = "deleted"}),
                   schema \cup parse, Layer5(page)))
        /\ unalerted' = Len(jobs) + 1
        /\ UNCHANGED <<feed, alerts, history>>

SyncOutcome_Failed(j) ==  \* mutant: only a failed job is looked at
    IF jobs[j].status = "failed" THEN {<<j, "sync_failure">>} ELSE {}

\* evaluate_sync_outcome: of Layers 3 to 5 nothing is raised.
SyncOutcome(j) ==
    {a \in {<<j, "sync_failure">>, <<j, "schema_drift">>} :
        \/ a[2] = "sync_failure" /\ jobs[j].status = "failed"
        \/ a[2] = "schema_drift" /\ \E i \in jobs[j].issues : i[2] = 2 /\ i[3] = "error"}

EvaluateAlerts ==
    /\ unalerted # 0
    /\ alerts' = alerts \cup SyncOutcome(unalerted)
    /\ unalerted' = 0
    /\ UNCHANGED <<feed, roster, cursor, jobs, quarantine, history>>

\* The worker dies between the commit of a page and its alerts.
Crash ==
    /\ unalerted # 0
    /\ unalerted' = 0
    /\ history' = [history EXCEPT !.lost = @ \cup {unalerted}]
    /\ UNCHANGED <<feed, roster, cursor, jobs, quarantine, alerts>>

\* RetryService.retry.
Retry(j) ==
    /\ history.retries < MaxRetries
    /\ cursor' = jobs[j].before
    /\ history' = [history EXCEPT !.retries = @ + 1]
    /\ UNCHANGED <<feed, roster, jobs, quarantine, unalerted, alerts>>

Init ==
    /\ feed \in [1..MaxEvents -> Raws]
    /\ roster = [k \in Keys |-> [event |-> 0, deleted |-> FALSE]]
    /\ cursor = 0
    /\ jobs = <<>>
    /\ quarantine = {}
    /\ unalerted = 0
    /\ alerts = {}
    /\ history = [retries |-> 0, lost |-> {}]

Next ==
    \/ CommitPage \/ BlockedPage
    \/ EvaluateAlerts \/ Crash
    \/ \E j \in 1..Len(jobs) : Retry(j)

Spec == Init /\ [][Next]_vars

-----------------------------------------------------------------------------
Issues == UNION {jobs[n].issues : n \in 1..Len(jobs)}

\* An event the cursor has passed is dropped by the mapping, superseded or
\* shown by its key's row, in quarantine, or on record as an issue; and where
\* the issue is of Layer 2 an operator was alerted of it by every job that met
\* it, unless the worker died before.  A Layer 3 issue, the grade warning
\* among them, keeps the event out of the roster and alerts nobody.
LeftOutIsOnRecord ==
    \A p \in 1..cursor :
        \/ Dropped(feed[p])
        \/ p \in quarantine
        \/ p <= roster[feed[p].key].event
        \/ /\ \E i \in Issues : i[1] = p
           /\ \A n \in 1..Len(jobs) :
                <<p, 2, "error">> \in jobs[n].issues =>
                    n \in history.lost \cup {unalerted} \/ <<n, "schema_drift">> \in alerts

\* An enrollment is quarantined only when every event of its student that was
\* ahead of it failed to be mapped or was rejected, in whichever pages they
\* came, replayed or not; a grade outside the enumeration is enough.
OrphansTraceBack ==
    \A p \in quarantine : \A q \in 1..(p - 1) :
        feed[q].word = "person" /\ feed[q].key = StudentOf[feed[p].key] =>
            Dropped(feed[q]) \/ \E i \in Issues : i[1] = q

\* A page that takes a quarter of the live students away is warned about once
\* the history suffices, unless it also holds a `created' that adds nobody:
\* of a student live already, or created by the page before, or of one a layer
\* rejected.
Created(p) ==
    feed[p].word = "person" /\ feed[p].action = "created" /\ ~Dropped(feed[p])

AddsNobody(p) ==
    /\ Created(p)
    /\ \/ roster[feed[p].key].event # 0 /\ ~roster[feed[p].key].deleted
       \/ \E q \in (cursor + 1)..(p - 1) : Created(q) /\ feed[q].key = feed[p].key
       \/ \E i \in Issues' : i[1] = p

PopulationDropWarned ==
    [][LET before == LiveCount(roster)
           after == LiveCount(roster')
       IN  Cardinality(Successes) >= MinHistory /\ before > after
           /\ 4 * (before - after) >= before
               => \/ "POPULATION_SHIFT" \in jobs'[Len(jobs')].warnings
                  \/ \E p \in (cursor + 1)..cursor' : AddsNobody(p)]_vars

=============================================================================
