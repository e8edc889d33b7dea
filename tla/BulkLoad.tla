------------------------------ MODULE BulkLoad ------------------------------
(***************************************************************************)
(* The cold start of one LEA (BulkLoadService) beside the worker's pages.  *)
(* A load walks the partner's resources one after the other, writes each   *)
(* entity type in a transaction of its own, asks for the latest event,     *)
(* sets the cursor and closes its job, each in a transaction of its own.   *)
(* Nothing keeps a page from being fetched or committed in between.        *)
(***************************************************************************)
EXTENDS PartnerFeed, FiniteSetsExt

VARIABLES
    live,        \* the live snapshot of each key
    canonical,   \* the canonical row of each key
    cursor,      \* cursor_state.last_event_id
    page,        \* the page the worker has fetched
    load,        \* the load that is under way
    running,     \* job rows that are not terminal
    orphaned,    \* those among them whose process has died
    heard,       \* events that reached the tables on a page
    held_back,   \* those among them that were quarantined
    missed,      \* events a cursor passed that neither a page nor a walk had seen
    overtaken    \* a page and a load have overlapped

ledger == <<live, canonical>>
history == <<heard, held_back, missed, overtaken>>
loadVars == <<feedVars, ledger, cursor, page, load, running, orphaned, history>>

-----------------------------------------------------------------------------
NoRow == [value |-> 0, deleted |-> FALSE]
NoSnapshot == [value |-> 0, deleted |-> FALSE, event |-> 0]
NoPage == [open |-> FALSE]
NoLoad == [phase |-> "rest"]

-----------------------------------------------------------------------------
(* The worker.                                                             *)

\* An event the connector cannot parse raises out of the fetch.
Unparsable(p) == feed[p].kind = "unparsable"

\* The students are read after the fetch.
FetchPage ==
    /\ ~page.open
    /\ \A p \in GetEvents(cursor) : ~Unparsable(p)
    /\ page' = [open |-> TRUE, since |-> cursor, events |-> GetEvents(cursor),
                known |-> {s \in Students : canonical[s] # NoRow}]
    /\ missed' = IF cursor = 0 THEN missed \cup 1..dropped ELSE missed
    /\ overtaken' = (overtaken \/ load # NoLoad)
    /\ UNCHANGED <<feedVars, ledger, cursor, load, running, orphaned,
                   heard, held_back>>

\* The events Layers 2 and 3 let through.
Accepted == {p \in page.events : feed[p].kind = "ok"}

\* Layer 4: an enrollment whose student was not known and is not accepted on
\* the page before it.
Orphans ==
    {p \in Accepted :
        LET s == StudentOf[feed[p].key]
        IN  /\ feed[p].key \in Enrollments
            /\ s \notin page.known
            /\ \A q \in Accepted : q < p => feed[q].key # s}

\* mutant: the id a load writes is above every event's
Written_LoadIsNewest(k) ==
    {p \in Accepted \ Orphans :
        feed[p].key = k /\ p > live[k].event /\ (live[k].event = 0 => live[k].value = 0)}

\* The events of k that are written: those above the id its live snapshot
\* carries, and the id a load writes is below every event's.
Written(k) ==
    {p \in Accepted \ Orphans : feed[p].key = k /\ p > live[k].event}

PageEnd == IF page.events = {} THEN page.since ELSE Max(page.events)

\* What is left out is passed by the cursor like the rest.
CommitPage ==
    /\ page.open
    /\ live' = [k \in Keys |->
                   IF Written(k) = {} THEN live[k]
                   ELSE LET p == Max(Written(k))
                        IN  [value |-> feed[p].value, deleted |-> feed[p].deleted,
                             event |-> p]]
    /\ canonical' = [k \in Keys |->
                        IF Written(k) = {} THEN canonical[k]
                        ELSE LET p == Max(Written(k))
                             IN  [value |-> feed[p].value, deleted |-> feed[p].deleted]]
    /\ cursor' = PageEnd
    /\ page' = NoPage
    /\ heard' = heard \cup page.events
    /\ held_back' = held_back \cup Orphans
    /\ overtaken' = (overtaken \/ load # NoLoad)
    /\ UNCHANGED <<feedVars, load, running, orphaned, missed>>

\* Layer 1 blocks the page and its job is failed, or the worker dies before
\* the commit: the cursor stays.
PageFails ==
    /\ page.open
    /\ page' = NoPage
    /\ UNCHANGED <<feedVars, ledger, cursor, load, running, orphaned, history>>

-----------------------------------------------------------------------------
(* The load.                                                               *)

LoadGoesTo(phase) == load' = [load EXCEPT !.phase = phase]

\* The job is inserted with status bulk_load.
StartLoad ==
    /\ load = NoLoad
    /\ "load" \notin running
    /\ load' = [phase |-> "started", payload |-> [k \in Keys |-> 0], seen |-> [k \in Keys |-> 0],
                latest |-> 0]
    /\ running' = running \cup {"load"}
    /\ overtaken' = (overtaken \/ page.open)
    /\ UNCHANGED <<feedVars, ledger, cursor, page, orphaned, heard, held_back, missed>>

\* One resource is walked, people before enrollments.
Walk(phase, next, ks) ==
    /\ load.phase = phase
    /\ load' = [load EXCEPT !.phase = next,
                            !.payload = [k \in Keys |-> IF k \in ks THEN partner[k] ELSE @[k]],
                            !.seen = [k \in Keys |-> IF k \in ks THEN Len(feed) ELSE @[k]]]
    /\ UNCHANGED <<feedVars, ledger, cursor, page, running, orphaned, history>>

\* The live snapshot has the payload the load would write.  What an event
\* wrote for a student carries the external ids too, and never has it; that
\* the snapshot may be the mark of a deletion is not looked at.
Unchanged(k) ==
    /\ live[k].value = load.payload[k]
    /\ k \in Students => live[k].event = 0

\* One entity type in one transaction.  What the partner does not list is
\* left as it is.  A student_id without a row breaks the foreign key.
Apply(phase, next, ks) ==
    LET changed == {k \in ks : load.payload[k] # 0 /\ ~Unchanged(k)}
    IN  /\ load.phase = phase
        /\ \A k \in changed \cap Enrollments : canonical[StudentOf[k]] # NoRow
        /\ live' = [k \in Keys |->
                       IF k \in changed
                       THEN [NoSnapshot EXCEPT !.value = load.payload[k]] ELSE live[k]]
        /\ canonical' = [k \in Keys |->
                            IF k \in changed
                            THEN [NoRow EXCEPT !.value = load.payload[k]] ELSE canonical[k]]
        /\ LoadGoesTo(next)
        /\ UNCHANGED <<feedVars, cursor, page, running, orphaned, history>>

FetchLatest ==
    /\ load.phase = "loaded"
    /\ load' = [load EXCEPT !.phase = "latest", !.latest = LatestCursor]
    /\ UNCHANGED <<feedVars, ledger, cursor, page, running, orphaned, history>>

AdvanceCursor ==
    /\ load.phase = "latest"
    /\ cursor' = load.latest
    /\ missed' = missed \cup {p \in 1..load.latest : p > load.seen[feed[p].key]}
    /\ LoadGoesTo("advanced")
    /\ UNCHANGED <<feedVars, ledger, page, running, orphaned,
                   heard, held_back, overtaken>>

EndLoad == load' = NoLoad /\ running' = running \ {"load"}

FinishLoad ==
    /\ load.phase = "advanced"
    /\ EndLoad
    /\ UNCHANGED <<feedVars, ledger, cursor, page, orphaned, history>>

\* Any exception, a resource that cannot be projected or inserted among them:
\* the job is failed; what was committed stays.
FailLoad ==
    /\ load # NoLoad
    /\ EndLoad
    /\ UNCHANGED <<feedVars, ledger, cursor, page, orphaned, history>>

\* The foreign key was broken.
RefuseOrphan ==
    /\ load.phase = "students"
    /\ \E k \in Enrollments :
          load.payload[k] # 0 /\ ~Unchanged(k) /\ canonical[StudentOf[k]] = NoRow
    /\ EndLoad
    /\ UNCHANGED <<feedVars, ledger, cursor, page, orphaned, history>>

\* The process dies: the row keeps the status bulk_load (bound: no load is
\* started after that).
KillLoad ==
    /\ load # NoLoad
    /\ load' = NoLoad
    /\ orphaned' = orphaned \cup {"load"}
    /\ UNCHANGED <<feedVars, ledger, cursor, page, running, history>>

\* EdLinkConnector.set_cursor, in a transaction of its own.
SetCursor(c) == cursor' = c

\* onboard-lea sets the cursor to the latest event and walks the resources
\* for their counts alone; nothing is loaded.  (Bound: before the first page
\* and with no load under way.)
Onboard ==
    /\ cursor = 0 /\ ~page.open /\ load = NoLoad
    /\ SetCursor(LatestCursor)
    /\ missed' = missed \cup ((1..LatestCursor) \ heard)
    /\ UNCHANGED <<feedVars, ledger, page, load, running, orphaned,
                   heard, held_back, overtaken>>

LoadStep ==
    \/ Walk("started", "people", Students) \/ Walk("people", "walked", Enrollments)
    \/ Apply("walked", "students", Students) \/ Apply("students", "loaded", Enrollments)
    \/ FetchLatest \/ AdvanceCursor \/ FinishLoad \/ RefuseOrphan

\* An LEA that was never synced, or whose roster a load has brought.
LoadInit ==
    /\ \E known \in {{}, Keys} :
          /\ FeedInit(known)
          /\ live = [k \in Keys |-> [NoSnapshot EXCEPT !.value = partner[k]]]
          /\ canonical = [k \in Keys |-> [NoRow EXCEPT !.value = partner[k]]]
    /\ cursor = 0 /\ page = NoPage /\ load = NoLoad
    /\ running = {} /\ orphaned = {}
    /\ heard = {} /\ held_back = {} /\ missed = {} /\ overtaken = FALSE

LoadNext ==
    \/ /\ (\E k \in Keys, v \in 0..MaxValue, kind \in Kinds : Publish(k, v, kind)) \/ Expire
       /\ UNCHANGED <<ledger, cursor, page, load, running, orphaned, history>>
    \/ FetchPage \/ CommitPage \/ PageFails \/ Onboard
    \/ StartLoad \/ LoadStep \/ FailLoad \/ KillLoad

=============================================================================
