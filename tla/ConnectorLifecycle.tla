------------------------- MODULE ConnectorLifecycle -------------------------
(***************************************************************************)
(* The authorization of a connector for an LEA: the operators' calls       *)
(* (ConnectorAuthorizationService) beside those of LeaAdmin, and the sync  *)
(* worker's drain, which asks the partner for the integration's status     *)
(* (IntegrationStatusPoller), stores the answer on the live authorization  *)
(* row and fetches pages unless the answer is a degraded one.              *)
(***************************************************************************)
EXTENDS LeaAdmin

CONSTANTS
    PartnerStatuses,  \* what the partner may answer
    Intervals,        \* poll intervals that pass _validate_interval
    MaxPages,         \* max_pages_per_drain
    MaxRows,          \* bound: authorization rows
    MaxFlips          \* bound: changes of status at the partner

ASSUME ConnectorAssumption ==
    /\ MaxPages \in Nat \ {0} /\ MaxRows \in Nat /\ MaxFlips \in Nat
    /\ Intervals \subseteq 60..3600 /\ 300 \in Intervals

VARIABLES
    auth,      \* the table connector_authorization, in order of insertion
    partner,   \* the integration's status at the partner
    flips,     \* changes of that status so far (bounded)
    drain      \* the drain the worker is in

connectorVars == <<leas, audit, tx, auth, partner, flips, drain>>

-----------------------------------------------------------------------------
AuthStatus == {"pending", "active", "revoked"}
PartnerStatus == {"active", "requested", "inactive", "disabled", "destroyed"}

Degraded == {"inactive", "disabled", "destroyed"}

Rows == 1..Len(auth)

\* The row of _load_live_row, if there is one.
Live(l) == {r \in Rows : auth[r].lea = l /\ ~auth[r].revoked}

NewRow(l, interval) ==
    [lea |-> l, status |-> "active", revoked |-> FALSE, interval |-> interval,
     integration |-> "unknown"]

AtRest == [phase |-> "rest"]

-----------------------------------------------------------------------------
\* Every call starts by reading the live row, `row' = 0 when there is none.
Call(op, l, interval) ==
    LET live == Live(l)
        r == IF live = {} THEN 0 ELSE CHOOSE r \in live : TRUE
    IN  [op |-> op, lea |-> l, row |-> r, interval |-> interval,
         was |-> IF r = 0 THEN "none" ELSE auth[r].status,
         had |-> IF r = 0 THEN 0 ELSE auth[r].interval]

BeginAuthorize(o, l, interval) ==
    /\ Known(l)
    /\ Begin(o, Call("authorize", l, interval))
    /\ UNCHANGED <<leas, audit, auth, partner, flips, drain>>

IndexAllows_Any(l) == TRUE  \* mutant: the partial index is gone

\* uq_connector_authorization_live
IndexAllows(l) == Live(l) = {}

\* No live row was read: INSERT, which the index refuses when another call
\* has inserted one since.
AuthorizeNew(o) ==
    LET w == tx[o].w
    IN  /\ tx[o].op = "authorize" /\ w.row = 0
        /\ IndexAllows(w.lea)
        /\ Len(auth) < MaxRows
        /\ auth' = Append(auth, NewRow(w.lea, w.interval))
        /\ Audit(o, Len(auth) + 1, "status", "none", "active")
        /\ UNCHANGED <<leas, partner, flips, drain>>

\* A pending row was read: UPDATE by id, whatever has become of it.
AuthorizePending(o) ==
    LET w == tx[o].w
    IN  /\ tx[o].op = "authorize" /\ w.row # 0 /\ w.was = "pending"
        /\ auth' = [auth EXCEPT ![w.row].status = "active",
                                ![w.row].interval = w.interval]
        /\ Audit(o, w.row, "status", "pending", "active")
        /\ UNCHANGED <<leas, partner, flips, drain>>

\* An active row was read: only the attempt is put on record.
AuthorizeAgain(o) ==
    LET w == tx[o].w
    IN  /\ tx[o].op = "authorize" /\ w.row # 0 /\ w.was # "pending"
        /\ Audit(o, w.row, "status", w.was, w.was)
        /\ UNCHANGED <<leas, auth, partner, flips, drain>>

BeginRevoke(o, l) ==
    /\ Live(l) # {}
    /\ Begin(o, Call("revoke", l, 0))
    /\ UNCHANGED <<leas, audit, auth, partner, flips, drain>>

FinishRevoke(o) ==
    LET w == tx[o].w
    IN  /\ tx[o].op = "revoke"
        /\ auth' = [auth EXCEPT ![w.row].status = "revoked",
                                ![w.row].revoked = TRUE]
        /\ Audit(o, w.row, "status", w.was, "revoked")
        /\ UNCHANGED <<leas, partner, flips, drain>>

BeginAdjust(o, l, interval) ==
    /\ Live(l) # {}
    /\ Begin(o, Call("adjust", l, interval))
    /\ UNCHANGED <<leas, audit, auth, partner, flips, drain>>

FinishAdjust(o) ==
    LET w == tx[o].w
    IN  /\ tx[o].op = "adjust"
        /\ auth' = [auth EXCEPT ![w.row].interval = w.interval]
        /\ Audit(o, w.row, "interval", w.had, w.interval)
        /\ UNCHANGED <<leas, partner, flips, drain>>

OperatorCall(o) ==
    \/ LeaAdminCall(o) /\ UNCHANGED <<auth, partner, flips, drain>>
    \/ \E l \in Leas, i \in Intervals : BeginAuthorize(o, l, i) \/ BeginAdjust(o, l, i)
    \/ AuthorizeNew(o) \/ AuthorizePending(o) \/ AuthorizeAgain(o)
    \/ \E l \in Leas : BeginRevoke(o, l)
    \/ FinishRevoke(o) \/ FinishAdjust(o)

-----------------------------------------------------------------------------
\* The district or the partner changes the integration.
PartnerChanges(l, s) ==
    /\ flips < MaxFlips
    /\ partner[l] # s
    /\ partner' = [partner EXCEPT ![l] = s]
    /\ flips' = flips + 1
    /\ UNCHANGED <<leas, audit, tx, auth, drain>>

\* drain_lea asks the partner ...
StartDrain(l) ==
    /\ drain = AtRest
    /\ drain' = [phase |-> "asked", lea |-> l, answer |-> partner[l], pages |-> 0,
                 live |-> Live(l) # {}]
    /\ UNCHANGED <<leas, audit, tx, auth, partner, flips>>

Fetching == [drain EXCEPT !.phase = "fetching", !.live = @ \/ Live(drain.lea) # {}]

Pauses_OnceDestroyed(l, answer) == Live(l) # {} /\ answer = "destroyed"  \* mutant

Pauses(l, answer) == Live(l) # {} /\ answer \in Degraded

\* ... stores the answer on the live row, and rests if it is a degraded one.
\* With no live row there is nothing to store, and the drain goes on.
StoreAnswer ==
    /\ drain.phase = "asked"
    /\ auth' = [r \in Rows |->
                   IF r \in Live(drain.lea)
                   THEN [auth[r] EXCEPT !.integration = drain.answer] ELSE auth[r]]
    /\ drain' = IF Pauses(drain.lea, drain.answer) THEN AtRest ELSE Fetching
    /\ UNCHANGED <<leas, audit, tx, partner, flips>>

\* One page, then the next while the partner has more and the page succeeded.
FetchPage ==
    /\ drain.phase = "fetching"
    /\ EnsureLea(drain.lea)
    /\ drain' \in {AtRest} \cup
          IF drain.pages + 1 < MaxPages THEN {[drain EXCEPT !.pages = @ + 1]} ELSE {}
    /\ UNCHANGED <<audit, tx, auth, partner, flips>>

\* The partner cannot be reached, or the process dies.
DrainFails ==
    /\ drain # AtRest
    /\ drain' = AtRest
    /\ UNCHANGED <<leas, audit, tx, auth, partner, flips>>

-----------------------------------------------------------------------------
\* A pending row is the column's default: one left by a tool outside src/.
ConnectorInit ==
    /\ leas \in {[l \in Leas |-> Absent]} \cup
          {[l \in Leas |-> IF l = k THEN [Absent EXCEPT !.status = "onboarding"]
                           ELSE Absent] : k \in Leas}
    /\ auth \in {<<>>} \cup
          {<<[NewRow(l, 300) EXCEPT !.status = "pending"]>> : l \in {k \in Leas : Known(k)}}
    /\ audit = <<>>
    /\ tx = [o \in Operators |-> Idle]
    /\ partner = [l \in Leas |-> "active"]
    /\ flips = 0
    /\ drain = AtRest

DrainStep ==
    \/ \E l \in Leas : StartDrain(l)
    \/ StoreAnswer \/ FetchPage \/ DrainFails

ConnectorNext ==
    \/ \E o \in Operators : OperatorCall(o)
    \/ \E l \in Leas, s \in PartnerStatuses : PartnerChanges(l, s)
    \/ DrainStep

\* A drain that was started goes on; nobody has to call anything.
ConnectorSpec ==
    /\ ConnectorInit /\ [][ConnectorNext]_connectorVars
    /\ WF_connectorVars(StoreAnswer) /\ WF_connectorVars(FetchPage)

-----------------------------------------------------------------------------
\* An LEA never has two live authorizations, whoever authorizes and revokes
\* at the same time: revoked_at is never cleared, and the partial unique index
\* decides between two calls that both read no live row.
OneLiveAuthorization == \A q, r \in Rows :
    q # r /\ auth[q].lea = auth[r].lea => auth[q].revoked \/ auth[r].revoked

\* The calls that made a pending row active.  They set its poll interval too,
\* and their audit rows do not say so.
Activations(r) ==
    {k \in TrailOf(r, "status") : audit[k].from = "pending" /\ audit[k].to = "active"}

\* The changes of a row's poll interval since it was last activated.
IntervalTrail(r) ==
    {n \in TrailOf(r, "interval") : \A k \in Activations(r) : k < n}

\* The audit log tells the state: each change of an LEA's status, of an
\* authorization's status or, since its activation, of its poll interval
\* starts where the one before ended, and the last one ends at the value
\* stored now.  Only a call that overlapped the change before its own can break
\* the chain, which is how a revoked authorization becomes active and a
\* decommissioned LEA too.
AuditTrailFaithful ==
    /\ LeaTrails
    /\ \A r \in Rows : /\ Chained(TrailOf(r, "status"), auth[r].status)
                       /\ Chained(IntervalTrail(r), auth[r].interval)
                       /\ auth[r].revoked /\ auth[r].status # "revoked" =>
                             \E m \in TrailOf(r, "status"), n \in Activations(r) :
                                 audit[m].to = "revoked" /\ Overlapped(n, m)

\* While the partner reports an authorized integration as degraded, polling
\* stops: at most the drain that is under way still fetches.
DegradedStopsPolling ==
    \A l \in Leas :
        <>[](partner[l] \in Degraded /\ Live(l) # {}) =>
            <>[](drain.phase = "fetching" => drain.lea # l)

(***************************************************************************)
(* What the repository says and the code does not do.                      *)
(***************************************************************************)

\* The revoke dialog: "Marks the row revoked and blocks subsequent sync
\* polls".  A drain fetches only for an LEA that was authorized at some point
\* of the drain, once an authorization has been revoked.
RevokeBlocksPolls ==
    drain.phase = "fetching" =>
        drain.live \/ ~(\E r \in Rows : auth[r].lea = drain.lea /\ auth[r].revoked)

=============================================================================
