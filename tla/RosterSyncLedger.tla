-------------------------- MODULE RosterSyncLedger --------------------------
(***************************************************************************)
(* RosterSync implements RosterLedger: the snapshots not taken out by a    *)
(* revert are the accepted versions, and the canonical rows that are not   *)
(* soft-deleted are what is shown.                                         *)
(***************************************************************************)
EXTENDS RosterSync

\* A superseded snapshot is still part of its key's lineage unless it was a
\* revert that took it out.
InLineage(d, s) == s.sup = 0 \/ d.jobs[s.sup].status # "revert"

Versions(d) ==
    {[key |-> s.key, job |-> s.gen, event |-> s.event, deleted |-> s.deleted] :
        s \in {t \in d.snapshots : InLineage(d, t)}}

Shown(d) ==
    {<<k, d.canonical[k].event>> :
        k \in {i \in Keys : d.canonical[i].event # 0 /\ ~d.canonical[i].deleted}}

Ledger == INSTANCE RosterLedger WITH versions <- Versions(db), shown <- Shown(db)

\* Every committed transaction of the worker and the operators, crashes and
\* replays included, is a step of the ledger or leaves it alone: pages only
\* accept newer versions, and a revert undoes one job as if it never ran.
ImplementsLedger == Ledger!Spec

-----------------------------------------------------------------------------
(* The inductive invariant behind it.                                      *)

Lineage(d, k) == {s \in d.snapshots : s.key = k /\ InLineage(d, s)}

\* Jobs referenced by a snapshot exist, and reverts write none.
JobsKnown(d) ==
    \A s \in d.snapshots :
        /\ s.gen <= Len(d.jobs) /\ d.jobs[s.gen].status # "revert"
        /\ s.sup <= Len(d.jobs)
        /\ s.sup # 0 => s.gen <= s.sup

\* The lineage of a key is ordered by event: a version was superseded before
\* or by the job that wrote a newer one, and the version just below another
\* was superseded by that other's job.
LineageOrdered(d) ==
    \A k \in Keys : \A s, t \in Lineage(d, k) :
        /\ s.event = t.event => s = t
        /\ s.event < t.event =>
              /\ s.sup # 0 /\ s.sup <= t.gen
              /\ \E r \in Lineage(d, k) : r.event < t.event /\ r.sup = t.gen

\* and its newest version is live.
LineageLive(d) ==
    \A k \in Keys : \A s \in Lineage(d, k) :
        \E t \in Live(d, k) : s.event <= t.event

LineageInv(d) ==
    JobsKnown(d) /\ LineageOrdered(d) /\ LineageLive(d) /\ CanonicalMatches(d)

\* Every key's snapshots that no revert took out form one chain, in event
\* order and ending in the live one, in the committed tables and in the open
\* transaction: it is along this chain that a revert finds its way back.
LineageInvariant ==
    /\ LineageInv(db)
    /\ LineageInv(work)
    /\ page.open => work.jobs[CurrentJob].status = "running"
=============================================================================
