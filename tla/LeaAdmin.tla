------------------------------ MODULE LeaAdmin ------------------------------
(***************************************************************************)
(* The lifecycle of LEAs (LeaAdminService).  Each call is one transaction  *)
(* of two steps: the SELECT it checks, and the write with its audit row up *)
(* to the commit.  Nothing is locked in between, so the calls of two       *)
(* operators overlap; a call that is refused, loses on a constraint or     *)
(* dies rolls back.                                                        *)
(***************************************************************************)
EXTENDS Naturals, Sequences, FiniteSets

CONSTANTS
    Leas, Names, Integrations, Operators,
    NoLabel,        \* the NULL of a name or an integration id
    MaxChanges      \* bound: audited calls, committed or open

ASSUME LeaAdminAssumption ==
    /\ NoLabel \notin Names \cup Integrations
    /\ MaxChanges \in Nat

VARIABLES
    leas,    \* the table leas
    audit,   \* audit_log, in order of commit
    tx       \* what each operator's open transaction has read and will write

-----------------------------------------------------------------------------
LeaStatus == {"onboarding", "active", "decommissioned"}

Absent == [status |-> "absent", name |-> NoLabel, integration |-> NoLabel]

LeaRow == [status : LeaStatus, name : Names \cup {NoLabel},
           integration : Integrations \cup {NoLabel}]

Known(l) == leas[l].status # "absent"

ValidTransitions ==
    {<<"onboarding", "active">>, <<"onboarding", "decommissioned">>,
     <<"active", "decommissioned">>}

Idle == [op |-> "idle"]

\* The call has read what it needs and decided to write `work'; it remembers
\* how much of the audit log was committed by then.
Begin(o, work) ==
    /\ tx[o] = Idle
    /\ Len(audit) + Cardinality({p \in Operators : tx[p] # Idle}) < MaxChanges
    /\ tx' = [tx EXCEPT ![o] = [w |-> work, op |-> work.op, seen |-> Len(audit)]]

\* The audit row of the same transaction, and the commit.
Audit(o, target, field, from, to) ==
    /\ audit' = Append(audit, [target |-> target, field |-> field, from |-> from,
                               to |-> to, seen |-> tx[o].seen])
    /\ tx' = [tx EXCEPT ![o] = Idle]

Rollback(o) ==
    /\ tx[o] # Idle
    /\ tx' = [tx EXCEPT ![o] = Idle]
    /\ UNCHANGED <<leas, audit>>

-----------------------------------------------------------------------------
NameFree_Any(n) == TRUE  \* mutant: the name is not looked for

NameFree(n) == \A k \in Leas : leas[k].name # n

IntegrationFree(i) == i # NoLabel => \A k \in Leas : leas[k].integration # i

\* _assert_unique: no row has the id, the name or the integration id.
Unique(l, n, i) == ~Known(l) /\ NameFree(n) /\ IntegrationFree(i)

BeginCreate(o, l, n, i) ==
    /\ Unique(l, n, i)
    /\ Begin(o, [op |-> "create", lea |-> l, name |-> n, integration |-> i])
    /\ UNCHANGED <<leas, audit>>

\* What the table itself enforces at the INSERT: the primary key and
\* uq_leas_edlink_integration_id.  There is no constraint on the name.
LeaConstraints(w) == ~Known(w.lea) /\ IntegrationFree(w.integration)

FinishCreate(o) ==
    LET w == tx[o].w
    IN  /\ tx[o].op = "create"
        /\ LeaConstraints(w)
        /\ leas' = [leas EXCEPT ![w.lea] =
                       [status |-> "onboarding", name |-> w.name,
                        integration |-> w.integration]]
        /\ Audit(o, w.lea, "lea_status", "absent", "onboarding")

BeginTransition(o, l, target) ==
    /\ <<leas[l].status, target>> \in ValidTransitions
    /\ Begin(o, [op |-> "transition", lea |-> l, from |-> leas[l].status, to |-> target])
    /\ UNCHANGED <<leas, audit>>

\* mutant: no audit row in the transaction
FinishTransition_NoAudit(o) ==
    /\ tx[o].op = "transition"
    /\ leas' = [leas EXCEPT ![tx[o].w.lea].status = tx[o].w.to]
    /\ tx' = [tx EXCEPT ![o] = Idle]
    /\ UNCHANGED audit

\* The UPDATE is by id alone.
FinishTransition(o) ==
    LET w == tx[o].w
    IN  /\ tx[o].op = "transition"
        /\ leas' = [leas EXCEPT ![w.lea].status = w.to]
        /\ Audit(o, w.lea, "lea_status", w.from, w.to)

\* _ensure_lea_exists of the sync worker: a placeholder row for an LEA that
\* was never created, without an audit row.
EnsureLea(l) ==
    leas' = IF Known(l) THEN leas
            ELSE [leas EXCEPT ![l] = [Absent EXCEPT !.status = "onboarding"]]

LeaAdminCall(o) ==
    \/ \E l \in Leas, n \in Names, i \in Integrations \cup {NoLabel} :
          BeginCreate(o, l, n, i)
    \/ FinishCreate(o)
    \/ \E l \in Leas, s \in LeaStatus : BeginTransition(o, l, s)
    \/ FinishTransition(o)
    \/ Rollback(o)

-----------------------------------------------------------------------------
\* Where the audit log holds the changes of one field of one row; the field
\* says which table it is of.
TrailOf(target, field) ==
    {n \in 1..Len(audit) : audit[n].target = target /\ audit[n].field = field}

\* The n-th call had read before the change m of the same row was committed.
Overlapped(n, m) == m < n /\ audit[n].seen < m

\* A trail is a chain: each change starts where the one before ended, unless
\* the two calls overlapped; and it ends at the value the row has now, on the
\* same condition.
Chained(trail, value) ==
    \A n \in trail :
        LET before == {m \in trail : m < n}
            late == \E m \in before : Overlapped(n, m)
        IN  /\ \A m \in before :
                  (\A k \in before : k <= m) => late \/ audit[n].from = audit[m].to
            /\ (\A k \in trail : k <= n) => late \/ value = audit[n].to

LeaTrails == \A l \in Leas : Chained(TrailOf(l, "lea_status"), leas[l].status)

\* Two LEAs never carry one integration id, and carry one name only when the
\* two calls that created them overlapped: the check of the name is a SELECT
\* that nothing backs.
LabelsClashOnlyOnOverlap ==
    \A k, l \in Leas : k # l =>
        /\ leas[k].integration = leas[l].integration => leas[k].integration = NoLabel
        /\ leas[k].name = leas[l].name /\ leas[k].name # NoLabel =>
              \E m \in TrailOf(k, "lea_status"), n \in TrailOf(l, "lea_status") :
                  /\ audit[m].from = "absent" /\ audit[n].from = "absent"
                  /\ Overlapped(m, n) \/ Overlapped(n, m)

=============================================================================
