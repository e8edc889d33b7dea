----------------------------- MODULE PageRaces -----------------------------
(***************************************************************************)
(* The sync worker's page, the revert and the retry of RosterSync, one SQL *)
(* statement at a time: what PostgreSQL at READ COMMITTED makes of them    *)
(* when they overlap, which nothing in the code prevents.                  *)
(*                                                                         *)
(* A statement sees the committed rows and its own transaction's writes.   *)
(* An UPDATE takes the rows its WHERE matched when it started, waits for   *)
(* the transactions that have written one of them, and looks at each again *)
(* when they are gone.  An insert or a job is seen by others once it is    *)
(* committed.  Keys are students, all events are accepted, and what Layer  *)
(* 4, quarantine and releases add is left to RosterSync and                *)
(* QuarantineReview.                                                       *)
(***************************************************************************)
EXTENDS Naturals, Sequences

CONSTANTS
    Keys,           \* the students' natural keys
    Operators,      \* those who revert; each has a transaction of its own
    PageSize,
    MaxEvents,      \* bound: events the partner publishes
    MaxJobs,        \* bound: pages and reverts begun
    MaxRetries      \* bound: retries

Worker == "worker"

ASSUME RacesAssumption ==
    /\ Worker \notin Operators
    /\ PageSize \in Nat \ {0}
    /\ {MaxEvents, MaxJobs, MaxRetries} \subseteq Nat

Transactions == {Worker} \cup Operators

VARIABLES
    feed,      \* the partner's event log, published before the run
    rows,      \* committed snapshot rows
    canonical, \* committed canonical row of each key
    cursor,    \* committed cursor_state
    jobs,      \* sync_jobs, with what became of each transaction
    tx,        \* what each transaction has written and where it stands
    history    \* what the properties remember

vars == <<feed, rows, canonical, cursor, jobs, tx, history>>

-----------------------------------------------------------------------------
NoTx == [job |-> 0, at |-> "idle", sup |-> <<>>, new |-> {}, canonical |-> <<>>,
         seen |-> {}, todo |-> <<>>]

Open(x) == tx[x].job # 0

Id(r) == [gen |-> r.gen, event |-> r.event, key |-> r.key]

\* The rows as transaction x sees them.
View(x) ==
    {IF Id(r) \in DOMAIN tx[x].sup THEN [r EXCEPT !.sup = tx[x].sup[Id(r)]] ELSE r :
     r \in rows \cup tx[x].new}

\* The canonical row of k as transaction x sees it.
Shown(x, k) == IF k \in DOMAIN tx[x].canonical THEN tx[x].canonical[k] ELSE canonical[k]

LiveIn(S, k) == {r \in S : r.key = k /\ r.sup = 0}

\* No other transaction has written snapshot row i, or the canonical row of k.
Free(x, i) == \A y \in Transactions \ {x} : i \notin DOMAIN tx[y].sup

FreeKey(x, k) == \A y \in Transactions \ {x} : k \notin DOMAIN tx[y].canonical

Write(f, i, v) == [j \in DOMAIN f \cup {i} |-> IF j = i THEN v ELSE f[j]]

Highest(S) == {r \in S : \A t \in S : t.event <= r.event}

\* Transaction x begins: its job row, and whoever else is open overlaps it.
Begin(x, t, kind, from, target) ==
    LET j == Len(jobs) + 1
        others == {y \in Transactions \ {x} : Open(y)}
    IN  /\ Len(jobs) < MaxJobs
        /\ jobs' = Append(jobs, [kind |-> kind, from |-> from, target |-> target,
                                 done |-> FALSE])
        /\ tx' = [tx EXCEPT ![x] = [t EXCEPT !.job = j]]
        /\ history' = [history EXCEPT !.raced = @ \cup
               IF others = {} THEN {} ELSE {x} \cup others]

\* Transaction x commits.
Committed(x) ==
    /\ rows' = View(x)
    /\ canonical' = [k \in Keys |-> Shown(x, k)]
    /\ jobs' = [jobs EXCEPT ![tx[x].job].done = TRUE]
    /\ tx' = [tx EXCEPT ![x] = NoTx]

\* The keys a race may have left unsound: those an overlapped transaction
\* wrote, until a page that runs alone writes them again.
Tainted(x) ==
    IF x \in history.raced THEN history.tainted \cup DOMAIN tx[x].canonical
    ELSE IF x = Worker THEN history.tainted \ DOMAIN tx[x].canonical
    ELSE history.tainted

-----------------------------------------------------------------------------
PageEnd(from) == IF from + PageSize < Len(feed) THEN from + PageSize ELSE Len(feed)

Events(from, to) == [i \in 1..(to - from) |-> from + i]

Worked == {j \in 1..Len(jobs) : jobs[j].kind = "page" /\ jobs[j].done}

\* mutant: the drain loop goes on from the cursor it saved last
ReadCursor_Kept ==
    IF Worked = {} THEN cursor
    ELSE jobs[CHOOSE j \in Worked : \A i \in Worked : i <= j].target

\* The cursor is read again for every page of a drain.
ReadCursor == cursor

\* Cursor read, page fetched, running job inserted.
Poll ==
    /\ ~Open(Worker)
    /\ ReadCursor < Len(feed)
    /\ LET to == PageEnd(ReadCursor)
       IN  Begin(Worker, [NoTx EXCEPT !.at = "dedup",
                                      !.todo = Events(ReadCursor, to)],
                 "page", ReadCursor, to)
    /\ UNCHANGED <<feed, rows, canonical, cursor>>

At(x, s) == Open(x) /\ tx[x].at = s /\ tx[x].todo # <<>>

Step(x, t) ==
    /\ tx' = [tx EXCEPT ![x] = t]
    /\ UNCHANGED <<feed, rows, canonical, cursor, jobs, history>>

This(x) == Head(tx[x].todo)

KeyOf(p) == feed[p].key

\* _latest_live_source_event_id; an event not above it is skipped.
Dedup ==
    LET t == tx[Worker]
    IN  /\ At(Worker, "dedup")
        /\ Step(Worker,
                IF \E r \in LiveIn(View(Worker), KeyOf(This(Worker))) :
                       This(Worker) <= r.event
                THEN [t EXCEPT !.todo = Tail(@)] ELSE [t EXCEPT !.at = "aim"])

Aimed_Newest(S) == Highest(S)  \* mutant: only the newest live row

Aimed(S) == S

\* The superseding UPDATE starts: the rows its WHERE matches now ...
AimSupersede ==
    /\ At(Worker, "aim")
    /\ Step(Worker, [tx[Worker] EXCEPT !.at = "supersede",
              !.seen = {Id(r) : r \in Aimed(LiveIn(View(Worker), KeyOf(This(Worker))))}])

\* ... and those of them that are still live when nobody else holds them.
Supersede ==
    LET t == tx[Worker]
        hit == {i \in t.seen : \E r \in View(Worker) : Id(r) = i /\ r.sup = 0}
    IN  /\ At(Worker, "supersede")
        /\ \A i \in t.seen : Free(Worker, i)
        /\ Step(Worker, [t EXCEPT !.at = "write",
                  !.sup = [i \in DOMAIN @ \cup hit |-> IF i \in hit THEN t.job ELSE @[i]]])

\* The snapshot is inserted and the canonical row upserted.
WriteEvent ==
    LET t == tx[Worker]
        p == This(Worker)
        k == KeyOf(p)
    IN  /\ At(Worker, "write")
        /\ FreeKey(Worker, k)
        /\ Step(Worker, [t EXCEPT
                  !.at = "dedup", !.todo = Tail(@), !.seen = {},
                  !.new = @ \cup {[key |-> k, gen |-> t.job, event |-> p,
                                   deleted |-> feed[p].deleted, sup |-> 0]},
                  !.canonical = Write(@, k, [event |-> p, deleted |-> feed[p].deleted])])

\* Job success and cursor, whatever the cursor has become since it was read.
CommitPage ==
    LET j == jobs[tx[Worker].job]
    IN  /\ Open(Worker)
        /\ tx[Worker].todo = <<>>
        /\ Committed(Worker)
        /\ cursor' = j.target
        /\ history' = [history EXCEPT
               !.tainted = Tainted(Worker), !.raced = @ \ {Worker}, !.retried = FALSE,
               !.owed = IF history.retried THEN {p \in @ : p > j.target}
                        ELSE @ \ ((j.from + 1)..j.target)]
        /\ UNCHANGED feed

-----------------------------------------------------------------------------
\* RetryService.retry, a select, one upsert and the commit: nothing of it is
\* undone by an open page but its own commit.
Retry(j) ==
    /\ history.retries < MaxRetries
    /\ jobs[j].kind = "page" /\ jobs[j].done
    /\ cursor' = jobs[j].from
    /\ history' = [history EXCEPT
           !.retries = @ + 1, !.retried = Open(Worker),
           !.owed = {p \in @ : p > jobs[j].from}
                    \cup ((jobs[j].from + 1)..jobs[j].target)]
    /\ UNCHANGED <<feed, rows, canonical, jobs, tx>>

\* _refuse_if_superseded_by_newer_sync, then the synthetic job.
BeginRevert(o, j) ==
    /\ ~Open(o)
    /\ jobs[j].kind = "page" /\ jobs[j].done
    /\ ~\E r \in rows : r.gen = j /\ r.sup # 0 /\ jobs[r.sup].kind # "revert"
    /\ Begin(o, [NoTx EXCEPT !.at = "select"], "revert", 0, j)
    /\ UNCHANGED <<feed, rows, canonical, cursor>>

Target(o) == jobs[tx[o].job].target

\* The enumerations of S in event order: one, the events of S being distinct.
InOrder(S) ==
    {s \in UNION {[1..n -> S] : n \in 0..Len(feed)} :
        /\ S = {s[a] : a \in DOMAIN s}
        /\ \A a, b \in DOMAIN s : a < b => s[a].event < s[b].event}

\* The live snapshots of the target job, in event order.
SelectLive(o) ==
    LET live == {s \in View(o) : s.gen = Target(o) /\ s.sup = 0}
    IN  /\ Open(o) /\ tx[o].at = "select"
        /\ \E order \in InOrder({Id(r) : r \in live}) :
              Step(o, [tx[o] EXCEPT !.at = "prior", !.todo = order])

\* ORDER BY source_event_id DESC LIMIT 1: what the query may answer.
Prior(S) == IF S = {} THEN {{}} ELSE {{r} : r \in Highest(S)}

FindPrior(o) ==
    /\ At(o, "prior")
    /\ \E prior \in Prior({s \in View(o) : s.key = This(o).key /\ s.sup = Target(o)}) :
          Step(o, [tx[o] EXCEPT !.at = "restore", !.seen = {Id(r) : r \in prior}])

\* The prior snapshot lives again, by its id; with none, nothing is restored.
RestorePrior(o) ==
    LET t == tx[o]
    IN  /\ At(o, "restore")
        /\ \A i \in t.seen : Free(o, i)
        /\ Step(o, [t EXCEPT !.at = "canonical",
                  !.sup = [i \in DOMAIN @ \cup t.seen |-> IF i \in t.seen THEN 0 ELSE @[i]]])

\* The payload of the prior snapshot, or deleted_at on the row that is there.
RestoreCanonical(o) ==
    LET k == This(o).key
        newest == Highest({r \in View(o) : Id(r) \in tx[o].seen})
    IN  /\ At(o, "canonical")
        /\ FreeKey(o, k)
        /\ Step(o, [tx[o] EXCEPT !.at = "take",
                  !.canonical = Write(@, k,
                     IF newest = {} THEN [Shown(o, k) EXCEPT !.deleted = TRUE]
                     ELSE LET r == CHOOSE r \in newest : TRUE
                          IN  [event |-> r.event, deleted |-> r.deleted])])

TakeOut_ByKey(o, i) ==  \* mutant: UPDATE by natural key, not by snapshot_id
    {Id(r) : r \in {s \in View(o) : s.key = i.key /\ s.sup = 0 /\ Id(s) \notin tx[o].seen}}

TakeOut(o, i) == {i}

\* The target's snapshot is superseded by the revert, by its id.
MarkReverted(o) ==
    LET t == tx[o]
        out == TakeOut(o, This(o))
    IN  /\ At(o, "take")
        /\ \A i \in out : Free(o, i)
        /\ Step(o, [t EXCEPT !.at = "prior", !.todo = Tail(@), !.seen = {},
                  !.sup = [i \in DOMAIN @ \cup out |-> IF i \in out THEN t.job ELSE @[i]]])

CommitRevert(o) ==
    /\ Open(o) /\ tx[o].at # "select" /\ tx[o].todo = <<>>
    /\ Committed(o)
    /\ history' = [history EXCEPT !.tainted = Tainted(o), !.raced = @ \ {o}]
    /\ UNCHANGED <<feed, cursor>>

\* A process dies, an exception leaves the session block, or PostgreSQL ends
\* a deadlock of a page and a revert by rolling one of them back.
Rollback(x) ==
    /\ Open(x)
    /\ tx' = [tx EXCEPT ![x] = NoTx]
    /\ history' = [history EXCEPT !.raced = @ \ {x}, !.retried = @ /\ x # Worker]
    /\ UNCHANGED <<feed, rows, canonical, cursor, jobs>>

-----------------------------------------------------------------------------
Init ==
    /\ feed \in [1..MaxEvents -> [key: Keys, deleted: BOOLEAN]]
    /\ rows = {} /\ cursor = 0 /\ jobs = <<>>
    /\ canonical = [k \in Keys |-> [event |-> 0, deleted |-> FALSE]]
    /\ tx = [x \in Transactions |-> NoTx]
    /\ history = [raced |-> {}, tainted |-> {}, owed |-> {},
                  retried |-> FALSE, retries |-> 0]

PageStep == Poll \/ Dedup \/ AimSupersede \/ Supersede \/ WriteEvent \/ CommitPage

RevertStep(o) ==
    \/ \E j \in 1..Len(jobs) : BeginRevert(o, j)
    \/ SelectLive(o) \/ FindPrior(o) \/ RestorePrior(o) \/ RestoreCanonical(o)
    \/ MarkReverted(o) \/ CommitRevert(o)

Next ==
    \/ PageStep
    \/ \E o \in Operators : RevertStep(o)
    \/ \E j \in 1..Len(jobs) : Retry(j)
    \/ \E x \in Transactions : Rollback(x)

Spec == Init /\ [][Next]_vars

-----------------------------------------------------------------------------
Sound(k) ==
    LET live == LiveIn(rows, k)
    IN  IF live = {} THEN canonical[k].event = 0 \/ canonical[k].deleted
        ELSE \E r \in live : /\ live = {r}
                             /\ canonical[k] = [event |-> r.event, deleted |-> r.deleted]

\* One live snapshot and canonical in step with it, for every key but those
\* last written in a race of a page and a revert, or of two reverts.  The next
\* page that writes the key alone heals what the race left, and reverting that
\* page keeps it healed: a page supersedes every live row and a revert brings
\* back one of them.
SoundUnlessRaced == \A k \in Keys : k \in history.tainted \/ Sound(k)

TakenOut(r) == r.sup # 0 /\ jobs[r.sup].kind = "revert" /\ jobs[r.sup].target = r.gen

Stored(r) == \E q \in rows : Id(q) = Id(r)

\* However reverts and a page overlap, a snapshot goes out of use for a reason:
\* in the commit of a revert of its own job, or of a page that has written its
\* key.  What a page commits supersedes only older rows of its own, so the
\* newest it wrote of each key is live; a page that runs alone supersedes only
\* older ones of others.  Nothing a page wrote is lost to another job's revert.
NewestWriteStaysLive ==
    [][\A s \in rows' :
          s.sup # 0 /\ ~(\E r \in rows : Id(r) = Id(s) /\ r.sup # 0) =>
             \/ TakenOut(s)'
             \/ \E w \in rows' :
                   /\ w.gen = s.sup /\ w.key = s.key /\ ~Stored(w)
                   /\ ~Stored(s) \/ Worker \notin history.raced => s.event < w.event]_vars

\* The events a retry asks for again lie ahead of the cursor until a page has
\* read them; only a page that was open at the retry goes past them unread,
\* because its commit saves the cursor over the rewound one.
RewindLostOnlyToOpenPage == \A p \in history.owed : p > cursor

=============================================================================
