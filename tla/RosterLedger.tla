---------------------------- MODULE RosterLedger ----------------------------
(***************************************************************************)
(* What the sync worker and the revert service promise together, without   *)
(* transactions, cursors, supersession pointers or canonical tables: the   *)
(* accepted versions of each natural key, the job that wrote each, and     *)
(* what a reader of canonical is shown, which is always the newest version *)
(* of every key unless that version is a deletion.                         *)
(***************************************************************************)
EXTENDS Naturals

VARIABLES
    versions,   \* the accepted versions, as [key, job, event, deleted]
    shown       \* the <<key, event>> pairs canonical shows

vars == <<versions, shown>>

Newest(V) ==
    {v \in V : \A w \in V : w.key = v.key => w.event <= v.event}

Showing(V) == {<<v.key, v.event>> : v \in {w \in Newest(V) : ~w.deleted}}

\* A job accepts versions newer than every version of their keys.
Accept ==
    LET W == versions' \ versions
    IN  /\ versions \subseteq versions'
        /\ \A w, u \in W : u.job = w.job
        /\ \A w \in W : \A v \in versions :
              /\ v.job < w.job
              /\ v.key = w.key => v.event < w.event
        /\ shown' = Showing(versions')

\* A job is undone, only while its versions are the newest of their keys, so
\* none of them replaced another: they go, and what they replaced is shown.
Undo(j) ==
    LET V == {v \in versions : v.job = j}
    IN  /\ V \subseteq Newest(versions)
        /\ versions' = versions \ V
        /\ shown' = Showing(versions')

Init == versions = {} /\ shown = {}

Next ==
    \/ Accept
    \/ \E j \in {v.job : v \in versions} : Undo(j)

Spec == Init /\ [][Next]_vars
=============================================================================
