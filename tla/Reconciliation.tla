--------------------------- MODULE Reconciliation ---------------------------
(***************************************************************************)
(* Reconciliation (ReconciliationService) and its daily sweep              *)
(* (ReconciliationScheduler) beside the pages that go on changing the      *)
(* canonical tables and the partner that goes on changing its own.  A      *)
(* hash is as good as what it is taken of: a table is the value of its one *)
(* entity, 0 when there is none, and two hashes differ when the values do. *)
(*                                                                         *)
(* Every table is a SELECT of its own and every resource a walk of its     *)
(* own, and nothing is locked.  The sweep's reconciliations and those an   *)
(* operator forces never read what another wrote, so one is under way at a *)
(* time here.                                                              *)
(***************************************************************************)
EXTENDS Alerts, Sequences

CONSTANTS
    LeaOrder,      \* the LEAs, in the order of the sweep's query
    TypeOrder,     \* the entity types, in the order of _ENTITY_TABLES
    MaxValue,      \* bound: contents an entity can have
    QuietWindow,   \* require_quiet_minutes
    Retention,     \* how long the partner keeps an event
    MaxTime,       \* bound: the clock
    MaxEvents,     \* bound: changes at the partner, for each LEA
    MaxRuns,       \* bound: reconciliations started
    MaxRetries     \* bound: operator retries

Leas == {LeaOrder[n] : n \in DOMAIN LeaOrder}
Types == {TypeOrder[n] : n \in DOMAIN TypeOrder}
Values == 0..MaxValue

ASSUME ReconciliationAssumption ==
    /\ LeaOrder \in Seq(Leas) /\ TypeOrder \in Seq(Types)
    /\ MaxEvents \in [Leas -> Nat]
    /\ {QuietWindow, MaxValue, MaxTime, MaxRuns, MaxRetries} \subseteq Nat
    /\ {AlertWindow, CursorLagThreshold, Retention} \subseteq Nat
    /\ CursorLagThreshold < Retention

VARIABLES
    now,             \* the clock
    partner,         \* the partner's resources
    feed,            \* the partner's events of each LEA
    applied,         \* how many of them the worker's cursor has passed
    retries,         \* operator retries (bounded)
    canonical,       \* the canonical tables
    written,         \* the event each table was last written from
    last_event_at,   \* cursor_state.last_event_at
    runs,            \* reconciliation_runs, in order of insertion
    started,         \* reconciliations started (bounded)
    job,             \* the reconciliation that is under way
    sweep            \* the sweep: its targets, what is left, what its report counts

world == <<partner, feed, applied, retries, canonical, written, last_event_at>>
reconVars == <<now, world, runs, started, job, sweep>>

-----------------------------------------------------------------------------
NoJob == [by |-> "none"]

\* What moves under a reconciliation of l that is under way.
Moved(l) ==
    job' = IF job # NoJob /\ job.lea = l THEN [job EXCEPT !.moved = TRUE] ELSE job

PartnerChanges(l, t, v) ==
    /\ Len(feed[l]) < MaxEvents[l]
    /\ partner[l][t] # v
    /\ partner' = [partner EXCEPT ![l][t] = v]
    /\ feed' = [feed EXCEPT ![l] = Append(@, [type |-> t, value |-> v, at |-> now])]
    /\ Moved(l)
    /\ UNCHANGED <<now, applied, retries, canonical, written, last_event_at, runs,
                   started, sweep>>

\* A page of one event commits: the event is applied, unless it is rejected,
\* quarantined, or not newer than what is there.  last_event_at is its date.
CommitPage(l) ==
    LET p == applied[l] + 1
        e == feed[l][p]
    IN  /\ p \in DOMAIN feed[l]
        /\ \/ /\ p > written[l][e.type]
              /\ canonical' = [canonical EXCEPT ![l][e.type] = e.value]
              /\ written' = [written EXCEPT ![l][e.type] = p]
           \/ UNCHANGED <<canonical, written>>
        /\ applied' = [applied EXCEPT ![l] = p]
        /\ last_event_at' = [last_event_at EXCEPT ![l] = e.at]
        /\ Moved(l)
        /\ UNCHANGED <<now, partner, feed, retries, runs, started, sweep>>

\* RetryService.retry: the cursor goes back to where some job began, or stays
\* for one that failed there, and its date becomes NULL.
Retry(l) ==
    /\ retries < MaxRetries /\ retries' = retries + 1
    /\ \E before \in 0..applied[l] : applied' = [applied EXCEPT ![l] = before]
    /\ last_event_at' = [last_event_at EXCEPT ![l] = NoDate]
    /\ UNCHANGED <<now, partner, feed, canonical, written, runs, started, job, sweep>>

Tick ==
    /\ now < MaxTime
    /\ now' = now + 1
    /\ UNCHANGED <<world, runs, started, job, sweep>>

-----------------------------------------------------------------------------
\* _cursor_quiet_for: no cursor, no date, or an old one.  The date is that of
\* the last event, not of the poll that brought it.
Quiet(l) == last_event_at[l] = NoDate \/ now - last_event_at[l] >= QuietWindow

\* The row a reconciliation leaves; `truth' remembers how the two sides stood
\* at its end, unless one of them moved on the way.
Run(l, status, moved) ==
    [lea |-> l, at |-> now, status |-> status,
     truth |-> IF moved THEN "moved"
               ELSE IF canonical[l] = partner[l] THEN "matched" ELSE "drift_detected"]

\* l is counted in one column of the sweep's report, and the sweep goes to
\* its next target.
Counted(by, l) ==
    sweep' = IF by = "sweep"
             THEN [sweep EXCEPT !.todo = @ \ {l}, !.counted = @ \cup {l}]
             ELSE sweep

BeginRun(by, l, check_quiet) ==
    /\ job = NoJob
    /\ started < MaxRuns /\ started' = started + 1
    /\ IF check_quiet /\ ~Quiet(l)
       THEN /\ runs' = Append(runs, Run(l, "skipped_quiet_window", TRUE))
            /\ Counted(by, l)
            /\ UNCHANGED job
       ELSE /\ job' = [by |-> by, lea |-> l, canonical |-> <<>>, partner |-> <<>>,
                       moved |-> FALSE]
            /\ UNCHANGED <<runs, sweep>>
    /\ UNCHANGED <<now, world>>

\* mutant: only the first table is hashed
TablesHashed_First == 1

TablesHashed == Len(TypeOrder)

ReadTable ==
    LET n == Len(job.canonical) + 1
    IN  /\ job # NoJob
        /\ n <= TablesHashed
        /\ job' = [job EXCEPT !.canonical = Append(@, canonical[job.lea][TypeOrder[n]])]
        /\ UNCHANGED <<now, world, runs, started, sweep>>

WalkResource ==
    LET n == Len(job.partner) + 1
    IN  /\ job # NoJob
        /\ Len(job.canonical) = TablesHashed
        /\ n <= Len(TypeOrder)
        /\ job' = [job EXCEPT !.partner = Append(@, partner[job.lea][TypeOrder[n]])]
        /\ UNCHANGED <<now, world, runs, started, sweep>>

\* _diff_sides: the types of the canonical side whose mid hashes differ.
Drift == {n \in DOMAIN job.canonical : job.canonical[n] # job.partner[n]}

FinishRun ==
    LET status == IF Drift = {} THEN "matched" ELSE "drift_detected"
    IN  /\ job # NoJob
        /\ Len(job.partner) = Len(TypeOrder)
        /\ runs' = Append(runs, Run(job.lea, status, job.moved))
        /\ Counted(job.by, job.lea)
        /\ job' = NoJob
        /\ UNCHANGED <<now, world, started>>

\* mutant: the exception ends the sweep
RunFails_EndsSweep ==
    /\ job # NoJob
    /\ sweep' = IF job.by = "sweep" THEN [sweep EXCEPT !.todo = {}] ELSE sweep
    /\ job' = NoJob
    /\ UNCHANGED <<now, world, runs, started>>

\* The walk or the database raises: no row is written, and the sweep counts
\* the LEA as failed.
RunFails ==
    /\ job # NoJob
    /\ Counted(job.by, job.lea)
    /\ job' = NoJob
    /\ UNCHANGED <<now, world, runs, started>>

-----------------------------------------------------------------------------
AtRest == [phase |-> "rest", targets |-> {}, todo |-> {}, counted |-> {}]

\* run_daily_sweep reads the active authorizations once, at its start.
StartSweep(active) ==
    /\ sweep.phase = "rest"
    /\ started < MaxRuns
    /\ sweep' = [phase |-> "running", targets |-> active, todo |-> active, counted |-> {}]
    /\ UNCHANGED <<now, world, runs, started, job>>

\* The next target, in the order of the query.
SweepNext ==
    /\ sweep.phase = "running"
    /\ \E n \in DOMAIN LeaOrder :
          /\ LeaOrder[n] \in sweep.todo
          /\ \A m \in DOMAIN LeaOrder : LeaOrder[m] \in sweep.todo => n <= m
          /\ BeginRun("sweep", LeaOrder[n], TRUE)

\* The targets are through: the idempotency keys are swept, and an error
\* there is swallowed.
EndSweep ==
    /\ sweep.phase = "running" /\ sweep.todo = {}
    /\ sweep' = AtRest
    /\ UNCHANGED <<now, world, runs, started, job>>

JobStep == ReadTable \/ WalkResource \/ FinishRun

ReconInit ==
    /\ now = 0
    /\ partner = [l \in Leas |-> [t \in Types |-> 0]]
    /\ feed = [l \in Leas |-> <<>>]
    /\ applied = [l \in Leas |-> 0]
    /\ retries = 0
    /\ canonical = partner
    /\ written = partner
    /\ last_event_at = [l \in Leas |-> NoDate]
    /\ runs = <<>>
    /\ started = 0
    /\ job = NoJob
    /\ sweep = AtRest

ReconNext ==
    \/ \E l \in Leas, t \in Types, v \in Values : PartnerChanges(l, t, v)
    \/ \E l \in Leas : CommitPage(l) \/ Retry(l)
    \/ Tick
    \/ \E active \in SUBSET Leas \ {{}} : StartSweep(active)
    \/ SweepNext \/ EndSweep
    \/ \E l \in Leas, check_quiet \in BOOLEAN : BeginRun("forced", l, check_quiet)
    \/ JobStep \/ RunFails

ReconSpec == ReconInit /\ [][ReconNext]_reconVars

-----------------------------------------------------------------------------
\* A verdict that was reached while neither side moved is right: drift is
\* reported exactly when some table differs.  Only a page or a change at the
\* partner during the run can make it wrong.
VerdictTrueAtRest == \A n \in DOMAIN runs :
    runs[n].truth # "moved" => runs[n].status = runs[n].truth

\* A drift that a reconciliation has found and nothing has moved since is
\* alerted on as long as the run is in the window, unless a later run was
\* skipped: the skip is then the latest run and hides the drift.
WedgedDriftAlerted == \A n \in DOMAIN runs :
    LET l == runs[n].lea
    IN  \/ runs[n].status # "drift_detected" \/ runs[n].at < now - AlertWindow
        \/ l \in ReconciliationDrift(runs, now)
        \/ \E m \in DOMAIN runs : m > n /\ runs[m].lea = l /\ runs[m].status # "drift_detected"

\* An event that the worker has not passed and the partner is about to drop
\* is announced by the cursor's lag, for every LEA that has had a page since
\* its cursor was last sent back: a retry clears the date the lag is taken of.
LostEventsWereAlerted == \A l \in Leas :
    \/ applied[l] = Len(feed[l])
    \/ now - feed[l][applied[l] + 1].at < Retention
    \/ l \in CursorLag(last_event_at, now)
    \/ last_event_at[l] = NoDate

\* Whatever raised on the way, a sweep ends only when each of the targets it
\* started with was matched, drifted, skipped or counted as failed: none is
\* left out because of another.
SweepAccountsForAll ==
    [][sweep.phase = "running" /\ sweep'.phase = "rest" =>
           sweep.targets \subseteq sweep.counted]_reconVars

=============================================================================
