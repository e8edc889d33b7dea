----------------------------- MODULE TestEvents -----------------------------
(***************************************************************************)
(* The dispatcher of synthetic events (TestEventService) on the ledger of  *)
(* BulkLoad.  A request commits a running job row and leaves the rest to a *)
(* task in memory, which after a delay runs the scenario's handler in one  *)
(* transaction.  Some handlers put an id of their own into the cursor.     *)
(* The student and the enrollment of a happy delta have fresh ids that no  *)
(* event of the feed and no resource carries; they are not represented.    *)
(***************************************************************************)
EXTENDS BulkLoad

CONSTANT TestKinds   \* scenario kinds dispatched

ASSUME TestEventsAssumption ==
    TestKinds \subseteq {"happy_delta", "l1_failure", "l2_failure", "l3_failure", "l4_orphan",
                         "l5_threshold", "reconciliation_drift"}

VARIABLE test   \* the task the dispatcher has scheduled

testVars == <<loadVars, test>>

-----------------------------------------------------------------------------
NoTest == [kind |-> "none"]

(* What each handler leaves in the cursor: an id made up for the occasion,  *)
(* or the cursor as it is.  The issues, quarantine rows and reconciliation  *)
(* runs they insert are in tables that nothing here reads.                  *)

HappyDelta == Foreign

L1Failure == cursor
L2Failure == cursor

\* The event was rejected or quarantined, the page around it has succeeded.
L3Failure == Foreign
L4Orphan == Foreign

L5Threshold == cursor
ReconciliationDrift == cursor

Handlers ==
    [happy_delta |-> HappyDelta, l1_failure |-> L1Failure, l2_failure |-> L2Failure,
     l3_failure |-> L3Failure, l4_orphan |-> L4Orphan, l5_threshold |-> L5Threshold,
     reconciliation_drift |-> ReconciliationDrift]

Enqueue(kind) ==
    /\ test = NoTest
    /\ "test" \notin running
    /\ test' = [kind |-> kind]
    /\ running' = running \cup {"test"}
    /\ UNCHANGED <<feedVars, ledger, cursor, page, load, orphaned, history>>

\* mutant: the row is not marked terminal
Handle_LeavesRow ==
    /\ test # NoTest
    /\ cursor' = Handlers[test.kind]
    /\ test' = NoTest
    /\ UNCHANGED <<feedVars, ledger, page, load, running, orphaned, history>>

\* The handler's statements, the terminal status and the commit.
Handle ==
    /\ test # NoTest
    /\ cursor' = Handlers[test.kind]
    /\ test' = NoTest
    /\ running' = running \ {"test"}
    /\ UNCHANGED <<feedVars, ledger, page, load, orphaned, history>>

\* The handler raised and was rolled back: the row is marked failed.
ForceFailure ==
    /\ test # NoTest
    /\ test' = NoTest
    /\ running' = running \ {"test"}
    /\ UNCHANGED <<feedVars, ledger, cursor, page, load, orphaned, history>>

\* The API restarts, or marking the row failed raises as well.
TaskLost ==
    /\ test # NoTest
    /\ test' = NoTest
    /\ orphaned' = orphaned \cup {"test"}
    /\ UNCHANGED <<feedVars, ledger, cursor, page, load, running, history>>

TestInit == LoadInit /\ test = NoTest

TestNext ==
    \/ LoadNext /\ UNCHANGED test
    \/ \E kind \in TestKinds : Enqueue(kind)
    \/ Handle \/ ForceFailure \/ TaskLost

\* The worker polls on its timer; a load and a task that have begun go on.
ColdStartSpec ==
    /\ TestInit /\ [][TestNext]_testVars
    /\ WF_testVars((FetchPage \/ CommitPage) /\ UNCHANGED test)
    /\ WF_testVars(LoadStep /\ UNCHANGED test)
    /\ WF_testVars(Handle)

-----------------------------------------------------------------------------
Agrees(k) ==
    IF partner[k] = 0 THEN canonical[k] = NoRow \/ canonical[k].deleted
    ELSE canonical[k] = [value |-> partner[k], deleted |-> FALSE]

LastEvent(k) == Max({p \in DOMAIN feed : feed[p].key = k})

\* Once the worker has nothing left to fetch, a row differs from the partner
\* for one of these reasons only: the key's last event was quarantined; it
\* came on a page and was left out of it, dropped by the connector or rejected
\* by Layer 2 or 3; it was passed by a load's cursor although it came after
\* the walk, or by that of an onboarding; it had expired before the first
\* poll; it is a deletion a load stood in for, and a load removes nothing; it
\* brings back an enrollment as it was, and the load took the mark of the
\* deletion for it; or a page and a load overlapped.
StaleForAReason ==
    /\ ~page.open /\ load = NoLoad /\ cursor = Len(feed)
    => \A k \in Keys : Agrees(k) \/
        LET p == LastEvent(k)
        IN  \/ p \in held_back \cup missed
            \/ p \in heard /\ feed[p].kind # "ok"
            \/ p \notin heard /\ feed[p].deleted
            \/ p \notin heard /\ k \in Enrollments /\ live[k].deleted
                 /\ live[k].value = feed[p].value
            \/ overtaken

\* As long as pages with events do not fail for ever, the worker keeps catching
\* up with what the feed holds, with two exceptions: the cursor comes to name an
\* event that is not in it, and polls bring nothing; or an event the connector
\* cannot parse is on the next page, and every fetch raises.
HeardOrUnknown ==
    <>[][~(PageFails /\ page.events # {})]_testVars
    => []<>(\/ cursor = Len(feed) \/ ~Held(cursor) \/ dropped = Len(feed)
            \/ \E p \in GetEvents(cursor) : Unparsable(p))

\* A job row that is not terminal becomes so, unless its process has died or
\* marking it failed has raised as well.
RowsEnd == \A r \in {"load", "test"} : []<>(r \notin running \ orphaned)

=============================================================================
