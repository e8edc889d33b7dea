-------------------------- MODULE QuarantineReview --------------------------
(***************************************************************************)
(* The operators' review of quarantined events (QuarantineService) beside  *)
(* the sync worker, retry and revert of RosterSync.  Two operators may     *)
(* resolve the same row at once, so a resolution is two steps: the read    *)
(* (_load_unresolved), and the writes up to the commit.  release reads the *)
(* row FOR UPDATE and holds it until it commits; reject takes no lock      *)
(* before its UPDATE, which waits for one.                                 *)
(***************************************************************************)
EXTENDS RosterSync, FiniteSets

CONSTANT Operators

VARIABLE session   \* what each operator's open transaction is resolving

reviewVars == <<vars, session>>

NoRowRead == [gen |-> 0]

Idle == [doing |-> "idle", row |-> NoRowRead]

\* A quarantine row's id; its status is what changes.
Id(q) == [gen |-> q.gen, event |-> q.event, key |-> q.key]

Locked(id) ==
    \E o \in Operators : session[o] = [doing |-> "release", row |-> id]

Resolve(d, id, status) ==
    [d EXCEPT !.quarantine =
        {IF Id(q) = id THEN [q EXCEPT !.status = status] ELSE q : q \in @}]

-----------------------------------------------------------------------------
\* mutant: the row is read without FOR UPDATE
BeginRelease_NoLock(o, q) ==
    /\ ~page.open
    /\ session[o] = Idle
    /\ q.status = "unresolved"
    /\ StudentOf[q.key] \in KnownStudents(db)
    /\ session' = [session EXCEPT ![o] = [doing |-> "release", row |-> Id(q)]]
    /\ UNCHANGED vars

\* mutant: the reference is not re-validated
BeginRelease_NoCheck(o, q) ==
    /\ ~page.open
    /\ session[o] = Idle
    /\ ~Locked(Id(q))
    /\ q.status = "unresolved"
    /\ session' = [session EXCEPT ![o] = [doing |-> "release", row |-> Id(q)]]
    /\ UNCHANGED vars

\* mutant: a row that is resolved already is released again
BeginRelease_Resolved(o, q) ==
    /\ ~page.open
    /\ session[o] = Idle
    /\ ~Locked(Id(q))
    /\ StudentOf[q.key] \in KnownStudents(db)
    /\ session' = [session EXCEPT ![o] = [doing |-> "release", row |-> Id(q)]]
    /\ UNCHANGED vars

\* The row is locked and unresolved, and its student has a row by now;
\* otherwise the call raises and nothing happened.
BeginRelease(o, q) ==
    /\ ~page.open
    /\ session[o] = Idle
    /\ ~Locked(Id(q))
    /\ q.status = "unresolved"
    /\ StudentOf[q.key] \in KnownStudents(db)
    /\ session' = [session EXCEPT ![o] = [doing |-> "release", row |-> Id(q)]]
    /\ UNCHANGED vars

\* What the release writes: a synthetic job, a snapshot that says not
\* deleted, the canonical row.  No other snapshot is superseded.
Released(d, id) ==
    LET j == Len(d.jobs) + 1
    IN  [Resolve(d, id, "released") EXCEPT
           !.jobs = Append(@, [status |-> "quarantine_release", before |-> 0]),
           !.snapshots = @ \cup {[key |-> id.key, gen |-> j, event |-> id.event,
                                  deleted |-> FALSE, sup |-> 0]},
           !.canonical = [@ EXCEPT ![id.key] =
                             [event |-> id.event, deleted |-> FALSE]]]

FinishRelease(o) ==
    /\ ~page.open
    /\ session[o].doing = "release"
    /\ Commit(Released(db, session[o].row))
    /\ session' = [session EXCEPT ![o] = Idle]
    /\ UNCHANGED <<feed, page, audit, unproductive>>

BeginReject(o, q) ==
    /\ session[o] = Idle
    /\ q.status = "unresolved"
    /\ session' = [session EXCEPT ![o] = [doing |-> "reject", row |-> Id(q)]]
    /\ UNCHANGED vars

\* The UPDATE is by id alone: whatever has become of the row in between.
FinishReject(o) ==
    /\ ~page.open
    /\ session[o].doing = "reject"
    /\ ~Locked(session[o].row)
    /\ Commit(Resolve(db, session[o].row, "rejected"))
    /\ session' = [session EXCEPT ![o] = Idle]
    /\ UNCHANGED <<feed, page, audit, unproductive>>

\* The operator's process dies, or release meets the error path: rollback.
Abandon(o) ==
    /\ session[o] # Idle
    /\ session' = [session EXCEPT ![o] = Idle]
    /\ UNCHANGED vars

ReviewInit == Init /\ session = [o \in Operators |-> Idle]

Review ==
    \E o \in Operators :
        \/ \E q \in db.quarantine : BeginRelease(o, q) \/ BeginReject(o, q)
        \/ FinishRelease(o)
        \/ FinishReject(o)
        \/ Abandon(o)

ReviewNext == (Next /\ UNCHANGED session) \/ Review

ReviewSpec == ReviewInit /\ [][ReviewNext]_reviewVars

-----------------------------------------------------------------------------
\* Each release of the timeline resolved a row of its own: two operators who
\* release one row at the same time leave one synthetic job, not two.
EachReleaseResolvesOneRow ==
    Cardinality({j \in 1..Len(db.jobs) :
                    db.jobs[j].status = "quarantine_release"})
        <= Cardinality({q \in db.quarantine : q.status # "unresolved"})

\* Two snapshots of a key are live at once only when a release put them
\* there: it supersedes nothing (_insert_enrollment_snapshot), and whatever
\* pages, retries and reverts follow, only one of the live ones is a page's.
ReleaseAloneForksLineage ==
    \A k \in Keys : \A s, t \in Live(db, k) :
        s # t => \E u \in {s, t} : db.jobs[u.gen].status = "quarantine_release"

\* A key whose deletion was written is live again only by a later event, by a
\* revert that took the deletion out, or by a release of the deletion itself:
\* a quarantine row does not keep the operation, and release writes a row that
\* is not deleted.
DeletionsStayUnlessReleased ==
    \A k \in Keys :
        LET row == db.canonical[k]
        IN  row.event # 0 /\ ~row.deleted =>
               \/ feed[row.event].op = "upsert"
               \/ \E q \in db.quarantine : /\ q.key = k /\ q.event = row.event
                                            /\ q.status # "unresolved"

\* "A second call on an already-resolved row raises" holds of calls that read
\* the row resolved: a resolution changes only from released to rejected, and
\* only by a reject that read the row before the release committed.
ResolvedOnceUnlessRaced ==
    [][\A q \in db.quarantine :
          q.status # "unresolved" =>
             \/ q \in db'.quarantine
             \/ /\ q.status = "released"
                /\ [q EXCEPT !.status = "rejected"] \in db'.quarantine
                /\ \E o \in Operators :
                      session[o] = [doing |-> "reject", row |-> Id(q)]]_reviewVars

=============================================================================
