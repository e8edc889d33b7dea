# A TLA+ model of edlink-rostering

edlink-rostering keeps a school district's (an LEA's) students and enrollments
in step with a partner's event feed. A worker polls the feed, validates a page
of events and commits it in one transaction; operators revert a sync job, send
the cursor back, authorize and revoke connectors, and resolve events that were
quarantined; a bulk load brings a district in the first time; a daily sweep
compares the result with the partner. Everything that matters is in PostgreSQL
tables, written by short transactions that several processes run side by side.

Paths below are relative to `edlink_rostering/`.

## Inventory

| component | state it keeps | operations | works with |
|---|---|---|---|
| Sync worker `services/sync_worker.py` | `sync_jobs`, `*_snapshots`, canonical `students`/`enrollments`, `quarantine`, `sync_validation_results`, `cursor_state` | poll, insert the running job, apply each event, commit; block the page | connector (call), validation (call), tables, alerts (call after commit) |
| Validation pipeline `services/validation/` | none; Layer 4 walks a set of known students along the page | layers 2 to 5 over the events of a page | called by the worker |
| EdLink connector `connectors/edlink/` | the partner's feed and resources | `fetch_changes`, `walk_resources`, integration status | called by worker, bulk load, reconciliation |
| Revert `services/revert.py` | the worker's tables, `revert_actions` | take out a job's snapshots, bring back what they replaced | tables shared with the worker |
| Retry `services/retry.py` | `cursor_state`, `retry_actions` | send the cursor back to a job's `cursor_before` | tables shared with the worker |
| Quarantine review `services/quarantine.py` | `quarantine`, a synthetic job, a snapshot, canonical | release, reject | tables shared with all the above |
| Idempotency keys `services/idempotency.py` | `idempotency_keys` | register, replay, store, discard, sweep | wraps the operator actions; swept by the scheduler |
| Session queue `infrastructure/azure_mocks/service_bus.py` | deque, in-flight list and lock per session | send, claim, receive, complete, abandon, release | serialises the work on one LEA |
| Bulk load `services/bulk_load.py` | the worker's tables | one transaction per step: job, students, enrollments, cursor, outcome | tables shared with the worker |
| Reconciliation and scheduler | `reconciliation_runs` | quiet check, hash canonical, walk the partner, compare; sweep | reads the worker's tables |
| Alerts `services/alerts.py` | none; what it finds is sent | sync outcome, cursor lag, drift, quarantine growth | called by worker and scheduler |
| Authorizations `services/connector_authz.py`, `integration_status.py` | `connector_authorization`, `audit_log` | authorize, revoke, adjust the interval, store the partner's status | consulted before a drain |
| LEA administration `services/lea_admin.py` | `leas`, `audit_log` | create, move the status | the worker adds placeholder rows |
| Test event dispatcher `services/test_events.py` | a task in memory; the worker's tables | dispatch, run the scenario's handler, mark the job failed | tables shared with the worker |
| Key vault cache, retry policy | cached secrets | get, rotate, retry | called by the connector |
| API, auth, CLI, seed data, read models, console, migrations | none of their own that changes | parsing, presentation, queries | call the services |

What is hard in it:

* *Replay.* A crash, a failed page or a retry makes the worker see events again,
  over data that may be newer by now.
* *Undo.* A revert walks supersession pointers back through snapshots that
  pages, replays and other reverts wrote; canonical rows are rewritten by
  different code than the worker's.
* *Order inside a page.* An enrollment may rest on a student earlier in its own
  page, which may have been rejected.
* *Races without locks.* Operators write the worker's tables; few statements
  lock what they read, and updates are by id.
* *Giving up.* The process can die between a handler's commit and the storing
  of its answer, between a page and its alert, between two steps of a load.
* *Silence.* A poll that finds nothing, an LEA without a date and a
  reconciliation that was skipped all look like everything is fine.

`PROJECT.json` lists these at their lines under "hazards", each with the
properties that watch it or the reason none does.

What makes each component correct:

* worker: nothing the cursor passes is lost, an older event never replaces a
  newer one, an enrollment never precedes its student, it catches up;
* validation: what it leaves out is on record, for a reason that can be traced;
* revert: one live snapshot per key, canonical in step with it, exactly one
  generation taken out, a second revert moves nothing, history is kept; beside a
  page, no write of the page is lost;
* review: a row is resolved once, by one operator, and what is released resolves;
* idempotency: one execution per key, honest replays, no key stuck without a
  dead request behind it;
* queue: a session in one pair of hands, nothing lost or doubled, order kept;
* bulk load: what it leaves different from the partner has a known reason;
* reconciliation and alerts: drift reported is drift that exists, and what is
  wrong is announced before it is too late;
* authorizations, LEAs: one live authorization, an audit log that tells the state.

## Modules

| module | models |
|---|---|
| `RosterSync` | worker, connector page, validation dispositions, revert, retry over one LEA's tables |
| `RosterLedger` | what worker and revert promise: accepted versions and what is shown |
| `RosterSyncLedger` | the mapping between the two, and the lineage invariant |
| `PageRaces` | a page, reverts and retries statement by statement at READ COMMITTED |
| `PageIntake` | mapping, the five layers, the write and the alerts, from raw events |
| `QuarantineReview` | two operators releasing and rejecting, beside all of `RosterSync` |
| `PartnerFeed` | the partner: resources, events, retention, the answer to a cursor |
| `BulkLoad` | a cold start step by step beside the worker's pages, on `PartnerFeed` |
| `TestEvents` | the test event dispatcher on the tables of `BulkLoad` |
| `Alerts` | the scheduled alert rules as set-valued operators |
| `Reconciliation` | reconciliations and the sweep beside pages, retries and the partner, with `Alerts` |
| `LeaAdmin` | the lifecycle of LEAs and the audit log |
| `ConnectorLifecycle` | authorizations, the partner's status and the drain, on `LeaAdmin` |
| `Idempotency` | one key and the requests that carry it |
| `SessionQueue` | one session-enabled queue and its receivers |
| `MC...` | the instances TLC checks |
| `RosterSyncProofs`, `PageRacesProofs`, `PageIntakeProofs`, `ColdStartProofs`, `ReconciliationProofs`, `ConnectorProofs`, `IdempotencyProofs`, `SessionQueueProofs` | theorems |

The same transaction appears at the grain a question needs: a revert is one step
in `RosterSync`, where its meaning is compared with the ledger, and
seven steps in `PageRaces`, where it overlaps a page.

### RosterSync

`db` is the committed tables of one LEA, `work` what the worker's open
transaction sees, `page` where the loop over `page.events` stands. `feed` is the
partner's log; an event's id is its position in it and stands for its payload,
so an older and a newer state of a row differ. An event's `kind` is how it fares
before Layer 4. Table rows are records: a snapshot has `sup`
(`superseded_by_generation_id`, 0 for NULL), a canonical row the event whose
payload it holds and whether `deleted_at` is set.

| action | code |
|---|---|
| `Publish` | the partner appends an event |
| `Poll` | `_process_one_page` up to the running job: cursor read, `fetch_changes`, known students |
| `BlockPage` | Layer 1 failed: failed job, cursor kept |
| `SkipEvent` | dropped by `_normalize`, or rejected by Layer 2/3 with an issue row |
| `QuarantineEvent` | Layer 4 orphan |
| `DedupEvent`, `WriteEvent` | `_apply_event` returning False or True |
| `CommitPage` | success, cursor, commit in one transaction |
| `Crash` | rollback by death or exception |
| `Retry`, `Revert` | `RetryService.retry`, `RevertService.revert`, each one transaction |

Operators act between pages in this module; that they may also act during one
is the subject of `PageRaces`.

`RosterLedger` knows only versions and what readers are shown. A page is one
`Accept` of versions newer than all versions of their keys; a revert is an
`Undo` that removes the versions of one job *as if it had never run*. The
refinement (`ImplementsLedger`) reads a snapshot as a version unless a revert
took it out. It is the strongest thing said about revert: pointers, tombstones
and canonical rewrites must together amount to removing one element of a set.

### PageRaces

Every SQL statement of a page (cursor read, dedup read, superseding UPDATE in
its two halves, insert with canonical upsert, commit) and of a revert (refusal
check, select of live rows, prior, restore, canonical, mark, commit) is an
action. `rows` and `canonical` are committed, `tx[x]` is what transaction `x`
has written. A statement sees the committed rows and its own writes; an UPDATE
fixes its rows when it starts, waits while another transaction has written one
of them, and re-evaluates the WHERE then.
`Rollback` is a death, an exception, or PostgreSQL's answer to a deadlock: a
page takes a key's snapshot rows before its canonical row, a revert marks the
snapshot after it, so the two can block each other.

`history.raced` are transactions that have overlapped another, `tainted` the
keys a raced transaction wrote. `SoundUnlessRaced` says exactly where one live
snapshot and a matching canonical row may fail to hold, and that the next page
which writes the key alone heals it. `NewestWriteStaysLive` is what holds even
in a race, and it is said of steps: a snapshot goes out of use only in the
commit of a revert of its own job, or of a page that wrote its key. (Said of
states, "the newest snapshot no revert took out is live" is false for longer
runs than TLC's: a race may leave two live ones, and a page may then supersede
them both.) `owed` are the events a retry has asked for again.

### PageIntake

Here the fate of an event follows from its content: type words, action, one
defect per outcome. `Dropped`, `Raises` are the connector's mapping; `Layer2` to
`Layer5` the pipeline, Layer 5 over the counts of earlier jobs (`TwiceMedian`);
`unalerted` is the job between its commit and its alerts, where `Crash` strikes.
There are no reverts, so a key's live snapshot and its canonical row are one row
of `roster`. `AddsNobody` are the `created` events by which Layer 5 counts a
student whom the write does not add: one live already, one created earlier in
the same page, one whose event is rejected.

### QuarantineReview

`session[o]` is what operator `o`'s open transaction is resolving. Release is
split after `SELECT ... FOR UPDATE` and the student check, reject after its
unlocked SELECT, so another operator, a page, a revert may come in between. The
row lock is modelled where the code takes it. A release writes "not deleted"
whatever the event said, because the quarantine row has no operation.

### PartnerFeed, BulkLoad, TestEvents

`PartnerFeed` keeps what the partner holds apart from what it has said about it,
so that a walk and a poll can disagree; `SliceStart` is what a poll after a
cursor gets, including one the feed does not hold. An event has a `kind`: what is
wrong with it makes Layers 2 and 3 or the mapping leave it out of its page, or
raises out of the fetch. `BulkLoad` takes one step per
transaction: the job row, two walks, two writes, the latest event, the cursor,
the outcome, with `FailLoad` and `KillLoad` possible at every one, `RefuseOrphan`
for the foreign key, and the worker's fetch and commit in between. A walk reads
its resource in one step; the pages it comes in are not told apart. A fetch does
not happen while the page ahead holds an event that raises (`Unparsable`); a
commit passes what is not `Accepted` like the rest of the page; `PageFails` is a
page that Layer 1 blocks or the worker dies over, with the cursor kept. `heard`,
`held_back`, `missed` and `overtaken` remember what became of each event.
`Unchanged` is the load's payload comparison: equal only to what a load wrote for
a student, since an event's payload has no external ids, and blind to tombstones.
`Onboard` is the CLI's `onboard-lea`. `TestEvents` adds the dispatcher: a task in
memory, lost on a restart, whose handler may put an id of its own in the cursor.
The job rows, issues and quarantine rows the handlers insert are read by nothing
here and left out, but for the row's end.

### Alerts, Reconciliation

The clock `now` counts units of about two weeks. A reconciliation reads one
table or walks one resource at a time; pages, retries and the partner move in
between and set `moved`. A table is the value of its one entity, so a hash is
the content it is taken of. A run row remembers how the sides really stood.
`NoDate` is a NULL `last_event_at`: no page yet, or a retry since. The sweep
reads its targets once, takes them in the order of the LEAs and counts each. Runs are taken one at a time: they never
read each other's rows, so overlapping ones would show nothing more.

### LeaAdmin, ConnectorLifecycle

Each operator call is two steps, the read and the write with its audit row;
`tx[o]` is what it read. Only constraints of the tables stand in between: the
partial unique index on live authorizations, the primary key and the unique
integration id of `leas`. `seen` in an audit row is how much of the log the call
had behind it, which says whether two calls overlapped. Activating a pending row
also sets its poll interval, of which the audit row says nothing; so the trail of
an interval begins anew with each activation (`IntervalTrail`). `drain` is the worker's
drain: ask the partner, store the answer on the live row, rest if degraded,
otherwise fetch up to `MaxPages` pages, each ensuring the LEA's row.

### Idempotency

One slot `(operator, route, key)`, since every statement names the whole key.
The INSERT and the SELECT of `get_or_register` are two steps: at READ COMMITTED
the SELECT sees what committed in between. The handler's own commit, the storing
of the response and the discard are separate transactions, and a request may die
between any two (`Lose`). `epoch` counts sweeps of the slot: a key is good for
one execution per epoch.

### SessionQueue

Each critical section of `_SessionQueue.lock` is one action; `receive_messages`
has two, with a gap between them. `known` is the key order of the `sessions`
dict, which decides what a claim without an id gets: the first claimable key.
`Line(s)` is every message of a session that is not completed, in the order it
will be handed out: unacknowledged, popped but not yet in flight, pending. A receiver is used inside
its own `with` block.

## What each run checks

| run | question | bounds |
|---|---|---|
| `sync_replay` | does a crashed, failed or retried page lose or regress anything, does an enrollment ever precede its student, does the worker reach the end of the feed unless the page ahead holds a date that does not parse | one student with one enrollment, 3 events (accepted, Layer 3 issue, unmapped, unparsable), pages of 2, one crash/failed page/empty poll, one operator action |
| `sync_revert` | do reverts and retries in any order keep one live snapshot, canonical in step, and the ledger's semantics; does rolling back from the top reopen every job that wrote no key twice | same keys, 3 events, 3 operator actions |
| `twice_written` | is a job refused only over what a newer job did: it is not | same keys, 3 events, pages of 2, one operator action |
| `page_races` | which of these survive reverts and a retry during a page; what does a race cost, and when is it healed | one key, 4 events, pages of 1, two operators, 5 pages and reverts, one retry |
| `page_intake` | is everything the cursor passes on record, do orphans trace back, is a drop of the roster warned about | two students, one enrollment, every feed of 4 events out of 11 raw ones, pages of 2, 3 pages, one retry, thresholds from one job on |
| `quarantine_review` | can two operators release one row twice, can a release orphan an enrollment, may anything but a release bring a deletion back, what else may a release or reject do | two operators, 3 events, one retry or revert |
| `cold_start` | why may a row differ from the partner once the worker has nothing left to fetch; do polls fall silent; do job rows end | one student, one enrollment, one content each beside absence, 2 events of which one expires and one is left out or unparsable, pages of 2, any number of failed pages, one kind of test event (`l4_orphan`, which moves the cursor to an id of its own) |
| `reconciliation` | are verdicts right, is drift alerted, is an LEA about to lose events alerted, does a sweep account for all | two LEAs, two tables, 2 changes, 2 reconciliations, one retry, clock to 2, retention 2, alert at 1 |
| `connector_lifecycle` | one live authorization, an honest audit log, unique labels, does a degraded integration rest | two operators, two LEAs, one name, one integration id, 2 audited calls, 2 rows, one change at the partner |
| `revoked_polls` | does a revoked authorization block polls: it does not | the same |
| `idempotency` | one execution per sweep, honest replays, no ownerless pending row, every request answered | three requests with one body, one with another, two deaths, any number of sweeps |
| `session_queue` | exclusive sessions, nothing lost, order, completion | two receivers, two sessions, 3 messages, batches of 2, 3 irregular acts |

Why they are enough. The relations of the roster involve one key (its chain of
snapshots) or one enrollment and its student, so two keys show them all. Three
events with pages of two give a page with two events of one key, a page with two
keys, and a later page that supersedes an earlier one; three operator actions
give revert, revert again and retry, or a revert of each of two generations and
a replay. A race is between two rows of one key: in `page_races` four events and
five transactions give two generations, two reverts that overlap each other or a
page, and a page that heals. In `page_intake` four events and three pages
separate a student from its enrollment by a page boundary, replay a page after a
retry, and give Layer 5 a history before it judges. A load has six steps, and
two events put one before, between or after each of them. In `reconciliation`
one LEA changes and the other is there for the sweep to get to. A race of two
calls needs two operators and two calls, and the second LEA for names and
indexes. In `idempotency` a holder, a request that collides with it, one that
takes over after a discard or a sweep, and a mismatch are the roles there are.
In `session_queue` one receiver is refused or takes the other session, a batch
is split, and a message is redelivered more than once. The theorems below lift
the central invariants to any number of keys, events, operators and calls.

`CHECK_DEADLOCK FALSE` is set because every model stops when its bounds are
used up or all requests are answered: nothing is then left to do. Progress is
asked by the liveness properties instead. `MaxUnproductive` bounds polls that do
not advance the cursor, of which there may be arbitrarily many in the program;
no property depends on their number. `KillLoad` ends loads, `Onboard` is taken
before the first page only, and `PageIntake` has fewer jobs than the 30 Layer 5
looks back on.

Several properties have the form "X holds unless Y", where Y is the exact
history in which the code gives X up: `SoundUnlessRaced`, `StaleForAReason`,
`ResolvedOnceUnlessRaced`, `LabelsClashOnlyOnOverlap`, `AuditTrailFaithful`,
`RewindLostOnlyToOpenPage`, `DeletionsStayUnlessReleased`. They say two things at once: what can go wrong, and
that nothing else can.
`LostEventsWereAlerted` and `WedgedDriftAlerted` are of that form too, and what they
except is the gap itself: an LEA without a date, a later run that was skipped. They
bound what the gap costs and do not call it right.

### Fairness

* `FairSpec` of `RosterSync`: weak fairness of `Poll` (the scheduler polls an
  LEA for ever) and of working off an open page (the worker's loop does not
  stop by itself). None for the partner, the operators or crashes.
* `FairSpec` of `Idempotency`: a request whose process lives goes on. None for
  the sweep: no request may have to wait a day.
* `QueueSpec`: a consumer that can claim, take, acknowledge or leave an empty
  session does so. None for senders or for the irregular acts.
* `ConnectorSpec`: a drain that was started goes on (`StoreAnswer`,
  `FetchPage`). None for starting one, for operators or the partner.
* `ColdStartSpec`: the worker fetches and commits pages on its timer, a load and
  a scheduled task go on. None for failures, deaths, onboarding or the partner.
  A fetch is not enabled while it would raise, and a page may fail at any time, so
  this fairness alone brings no page in. `HeardOrUnknown` assumes that pages with
  events do not fail for ever, and excepts a page whose fetch raises.

## What is proved

The theorems hold for every value of the constants the modules' assumptions
allow, infinite sets of keys, operators or receivers and any bounds included.
Each assumption says what the code fixes:

| assumption | of the constants |
|---|---|
| `ConstantsAssumption` | students and enrollments are disjoint and an enrollment has a student; the page size is positive |
| `RacesAssumption` | the worker is not an operator; the page size is positive |
| `IntakeAssumption` | as above; a person event is about a student and an enrollment event about an enrollment; there are finitely many students, since Layer 5 counts them |
| `ReconciliationAssumption` | LEAs and tables are listed in an order; the cursor alert comes before the feed's retention ends |
| `LeaAdminAssumption`, `ConnectorAssumption` | NULL is neither a name nor an integration id; intervals lie in 60..3600 and 300 is one |
| `FeedAssumption` | students and enrollments are disjoint and an enrollment has a student; the page size and the largest content are positive |
| `RequestsAssumption`, `QueueAssumption` | every request has a body hash; the batch size is positive |

Every run and its theorems use the same definitions; where an invariant was
found for a proof, TLC checked it on the run's instance first.

`RosterSyncProofs`
* `TypeCorrect`: the tables, committed and in the open transaction, keep their types.
* `LineageCorrect`: the inductive invariant. That one snapshot per key is live
  is not inductive under revert: bringing a snapshot back is safe only because
  exactly one was superseded by the job being taken out, and it is the next
  lower event. So the invariant says that the snapshots of a key which no revert
  took out form a chain in event order, each superseded by or before the job of
  the next, the last one live; that jobs named by snapshots exist; and that
  canonical shows the live one. It is proved of `db` and of `work`, because a
  page is committed whole: lemma `ApplyEventLineage` for one event,
  `RevertLineage` (resting on `RevertChain`) for a revert.
* `SupersessionCorrect`, `CanonicalCorrect`: its two consequences the runs check.
* Next it states once what each action leaves in the tables (`PollEffect`,
  `WriteEffect`, ...), and the inductions below run over them.
* `ResolveCorrect`, `ReviewResolveCorrect` (`EnrollmentsResolve`, without and with
  releases): Layer 4's walking set holds only students the *open transaction*
  has a row for, and every snapshot's key has a row (`ResolveInv`, `Rowed`), so
  that a deduplicated student has one too. A revert keeps rows and only
  soft-deletes them; so the student a release has found is still there when it
  commits, however many pages and reverts came in between (`ReleasesResolve`).
  The lineage is not needed, which is why the induction survives releases.
* `RollbackCorrect` (`RollbackFromTheTop`): the refusal is lifted as its message
  says, once nothing above the job is live. By the chain, whatever superseded one
  of its snapshots is at or below the job of the live one, which the premise puts
  at or below the job itself (`TopIsFree`). A job
  that superseded a row of its own is the exception, and the subject of the run
  `twice_written`.
* `NoLossCorrect` (`NoEventLost`): that the cursor's past is accounted for is not
  inductive under retry, which moves the cursor to any job's `cursor_before`, nor
  under a commit. So `NoLossInv` says it of every `cursor_before` on record and
  of the part of the page that has been walked. Only the cursor moves back; what
  accounts for an event never goes away (`Covers`).
* `FinalCorrect` (`DoubleRevertMovesNothing`): every snapshot of a reverted job
  stays superseded by a revert (`TakenOut`). Another revert could bring one back
  only if the superseding revert had written snapshots itself, which none does.
* `NoRegressCorrect` (`ReplayNeverRegresses`): the open transaction's live
  snapshots are never below the committed ones.
* `LedgerCorrect` (`ImplementsLedger`): the refinement mapping of
  `RosterSyncLedger` takes every step to `Accept`, `Undo` or a stutter. The
  lineage invariant gives that canonical shows the newest versions; `PageAccepts`
  says that what the open transaction has accepted is its job's and newer than
  everything committed, so its commit is one `Accept`.

The same module, on `QuarantineReview`, with `ReviewResolveCorrect` above:
* `ReleaseCorrect` (`EachReleaseResolvesOneRow`): a release under way holds the
  lock of a row that is *still* unresolved, so its commit settles one row more
  and adds one job; rejects settle rows or replace a settled one.
* `ResolvedOnceCorrect` (`ResolvedOnceUnlessRaced`): from the same invariant,
  which also needs that (generation, event, key) names one row, in the open page
  too.
* `ForkCorrect` (`ReleaseAloneForksLineage`): the chain of `LineageCorrect` is
  gone once releases exist, so this is an induction of its own (`ForkInv`). Of
  the snapshots of a key that pages wrote, those with the same superseding job
  are of one event (`PagesApart`): a revert therefore brings back at most one,
  and no release ever supersedes any.
* `DeletionsCorrect` (`DeletionsStayUnlessReleased`): a row is often rewritten
  from a snapshot, by a revert, so the property is said of the snapshots too, and
  of the open transaction (`DeletionsInv`): one without the mark is of an upsert,
  or of an event whose quarantine row is settled, and stays settled.

`PageRacesProofs`. One invariant over the statements of all open transactions,
proved statement by statement; the row locks are not needed for it.
* `RacesTypeOk`: the tables and every transaction's writes keep their types.
* `SoundKeys` (`SoundUnlessRaced`): what a transaction that has run alone sees is
  what is committed (`AloneInv`); for a page that means every key it has written
  is sound in its own view, save the one between its two statements
  (`LonePageInv`), and for a revert that exactly the row it put back may be live
  beside the row it is about to take out (`LoneRevertInv`). A raced transaction
  taints the keys it wrote, so its commit owes nothing.
* `NewestWriteHolds` (`NewestWriteStaysLive`): what a transaction has marked
  superseded is either its target's own row or a row of a key it writes, older
  than what it wrote (`PageInv`, `RevertInv`); the page's ids increase.
* `RewindHolds` (`RewindLostOnlyToOpenPage`): a page that saw no retry since it
  read the cursor commits from where the cursor still is.

`PageIntakeProofs`
* `IntakeTypeOk`: the tables, job rows and alerts keep their types.
* `LeftOutHolds` (`LeftOutIsOnRecord`): a replay may read an event to another end
  than the first time, so what the *cursor* has passed is not inductive. Up to a
  mark that only advances, and that is always where some page ended, every event
  is handled (`ReadUpTo`); a page either ends below the mark, where its events
  were handled already, or moves it.
* `OrphansHold` (`OrphansTraceBack`): from the same invariant, with issues held
  only by events that are faulty in themselves and only enrollments in quarantine.
* `DropWarned` (`PopulationDropWarned`): by counting. If no `created` of the page
  is one that adds nobody, creations inject into the students that became live
  and students that left inject into the deletions, so that Layer 5's estimate
  falls at least as far as the roster does.

`ColdStartProofs`
* `ColdTypes`: the feed, the tables, an open page and a load keep their types.
* `StaleCorrect` (`StaleForAReason`): the property speaks of the moment the worker
  has caught up; the induction (`ColdInv`) says the same of the last event of each
  key, up to wherever the cursor is, a page was opened or a load has come
  (`SettledTo`, `HeardInv`, `LoadInv`). It needs that a page neither repeats an
  event nor skips one that is not counted as missed, although a test event may
  have sent the cursor to an id nobody knows (`PageInv`, `NoneBeyond`), and that
  what a load walked is what the partner holds unless an event followed
  (`WalkInv`). All of it holds only while no page and no load have overlapped,
  which is the property's last exception. An event that was left out of its page
  is `Excused` for good, and one that raises is never on an open page. TLC checked
  `ColdInv` on the instance
  of `cold_start` before it was proved.

`ReconciliationProofs`
* `ReconTypeOk`: contents, dates, runs and the sweep keep their types.
* `VerdictHolds` (`VerdictTrueAtRest`): until something moves, each hash a run
  has taken is that of the table or resource as it still is (`JobInv`).
* `DriftAlerted` (`WedgedDriftAlerted`): when each later run of the
  LEA found drift too, so did the latest, which is the one the rule looks at.
* `LossAnnounced` (`LostEventsWereAlerted`): dates grow along the feed and the
  cursor's date is that of the last event it passed (`FeedInv`), so an event that
  expires unread is younger than a cursor that has been announced.
* `SweepAccounts` (`SweepAccountsForAll`): a target the sweep has left is counted.

`ConnectorProofs`
* `AuthorizationTypes`: rows keep their types and an open call names a row that
  exists, or none. The second part is what makes a late UPDATE by id harmless to
  the next theorem: it hits one row, of one LEA, and clears no `revoked_at`.
* `OneLiveCorrect`: one live authorization per LEA, however many operators call
  at once. Only the INSERT can add one, and it is past the partial index.
* `AuditCorrect` (`AuditTrailFaithful`): `LogInv` says of each LEA and each row
  what its part of the log tells (`LeaHistory`, `RowHistory`), and of each open
  call that what it read still stands, or that an entry later than its reading
  says why not (`ReadOK`). Two calls that overlapped are exactly those for which
  the second alternative holds. For intervals, `IntervalInv` says the same of the
  entries since the last activation (`Since`): an activation empties that part of
  the trail, so the interval it sets unaudited contradicts nothing.
* `LabelsCorrect` (`LabelsClashOnlyOnOverlap`): from the same invariant. An LEA
  that a drain adds has no label, so only creations can clash.

`IdempotencyProofs`
* `Inductive`: with the three properties below it says that a request at work
  has the pending row to itself and that nothing else of its epoch has
  committed, that a free slot is unused in its epoch, and that a stored response
  is that of a committed handler.
* `KeyTypes`, `OnceCorrect`, `ReplayCorrect`, `PendingCorrect`: the consequences.

`SessionQueueProofs`. `QueueInv` says that a session's line lists exactly its
uncompleted messages, each once (`Lines`); that it increases as long as nothing
was abandoned (`Ordered`); and that what is popped or in flight belongs to a
session somebody holds (`Locks`).
* `OneReceiverHolds`, `NothingLostHolds`, `RedeliveryHolds`: the three invariants
  of the run. A release puts the in-flight messages back in front, which leaves
  the line as it was: that is why an order survives it.

Only model-checked: liveness (`CatchesUp`, `EveryRequestAnswered`,
`EveryMessageCompleted`, `DegradedStopsPolling`, `HeardOrUnknown`, `RowsEnd`), out
of this prover's reach. Every invariant and every action property of every run
has a theorem.

## Where the code and its documentation differ

* *Revoking does not stop polling.* The revoke dialog says it "blocks subsequent
  sync polls"; with no live row the poller answers None and the drain goes on
  (`revoked_polls`, `services/sync_worker.py:134`).
* *A revert is refused with no newer sync in the way.* The class, its exception
  and its message speak of a newer sync that is to be rolled back first
  (`services/revert.py:26`, `85`, `347`). A job that wrote one key twice superseded
  its own snapshot, and the guard counts every job that is no revert, the target
  too; nothing ever lifts that refusal (`twice_written`, `services/revert.py:345`).

The following are part of the models, so the properties name them as the only
exceptions, or describe behaviour no property judges.

* An event with a missing or malformed begin date raises out of `fetch_changes`
  (`connectors/edlink/connector.py:603`) although layers 2 and 3 exist to reject
  single events; the LEA is never polled past it (`CatchesUp`).
* The report's text has Layer 2 and 5 errors block a page; only Layer 1 does
  (`validation/pipeline.py:162`), and Layer 5 only ever warns. A Layer 3
  *warning*, a grade outside the enumeration, rejects its event, and nobody is
  alerted (`LeftOutIsOnRecord`).
* A `created` of a student who is live or rejected counts as growth and can mask
  a population shift (`PopulationDropWarned`). Layer 5's baseline is the median
  over all successful jobs, empty polls among them.
* Release inserts a live snapshot beside a later one, though "exactly one live
  row" is documented, and it revives deletions (`quarantine.py:354`, `370`; nothing else does,
  `DeletionsStayUnlessReleased`);
  reverting one side of such a fork does not end it, the next page does. Reject
  overwrites a release that committed after it read the row (`276`).
* A revert that overlaps a page, or another revert, can leave two live snapshots,
  a canonical row that shows an older one, or its audit row with nothing moved;
  a page of the key that runs alone heals it (`SoundUnlessRaced`). A retry
  during a page is undone by the page's commit.
* A retry clears `last_event_at`, so that the lag clock restarts with the replay;
  until that page commits the LEA is outside the lag alert altogether, however
  long it takes (`retry.py:187`, `LostEventsWereAlerted`), and counts as quiet.
* Bulk load: deletions are never applied; a re-created enrollment with the
  payload of its tombstone is taken for unchanged; the cursor is asked for after
  the walk; a foreign key refusal leaves the students committed and the cursor
  where it was; a death leaves a `bulk_load` row. Nothing in the repository calls
  it or sets `cold_start_required`. `onboard-lea` sets the latest cursor with
  nothing loaded.
* Reconciliation: `classes`, `academic_sessions` and `schools` are compared
  although only the seed writes them; a run that fails writes no row; a skipped
  run hides drift found before it; the targets are chosen by `status`, not by
  `revoked_at`; an exception while reading them ends the sweep.
* `authorize` on a pending row overwrites its poll interval, and the audit row it
  writes has the status only (`services/connector_authz.py:296`, `350`): the log
  does not tell where that interval came from (`AuditTrailFaithful`).
* `lea_admin.py:7` says that uniqueness is enforced on `name` and on
  `edlink_integration_id`. The second has a unique index; the first is looked up
  and then inserted, and two creations that overlap share a name
  (`LabelsClashOnlyOnOverlap`).
* A test event leaves an id in the cursor that no feed knows: the next polls find
  nothing (`connectors/edlink/client.py:253`, `HeardOrUnknown`).

## Not modelled, and why

Payload contents, names, timestamps and formatting: no property tells them
apart. Event ids are positions, so the string comparison of ids of unequal width
(`sync_worker.py:741`) is not covered. The key vault cache and `core/retry.py`
are a dictionary with an expiry and a loop with a sleep, used by one thread of
control each. Alerts on quarantine growth and on the size of the idempotency
table compare a count with a threshold. The retention drift check compares two
texts. The API's parsing, authentication, read models, seed data and console
hold no state of their own. Deletion of an LEA's data, migrations and the
database's own recovery are outside. The real Service Bus is represented by the
queue the repository ships.

What could be added: releases and bulk loads at the grain of `PageRaces`.
