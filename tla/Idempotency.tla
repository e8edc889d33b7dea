---------------------------- MODULE Idempotency ----------------------------
(***************************************************************************)
(* The Idempotency-Key wrapper around the operator actions: one slot       *)
(* (operator, route, key) of idempotency_keys and the requests that carry  *)
(* it.  Every statement names the whole primary key, so slots do not touch *)
(* each other.  Each step is one transaction of its own, except the pair   *)
(* INSERT ... ON CONFLICT DO NOTHING and SELECT, which share one but see   *)
(* other transactions commit in between.                                   *)
(***************************************************************************)
EXTENDS Naturals

CONSTANTS
    Requests,    \* calls that carry the key
    Hashes,      \* request hashes, of path and body
    HashOf,      \* the hash of each call
    MaxLost      \* bound: requests whose process dies

ASSUME RequestsAssumption == HashOf \in [Requests -> Hashes] /\ MaxLost \in Nat

VARIABLES
    slot,      \* the rows of the slot: none, or one
    phase,     \* where each request is
    serves,    \* whose result a request answers with: its own until replayed
    effects,   \* handler transactions committed, each with its epoch
    epoch,     \* sweeps that have reclaimed the slot so far
    lost       \* requests that died (bounded)

vars == <<slot, phase, serves, effects, epoch, lost>>

-----------------------------------------------------------------------------
\* `response' is NULL ({}) until store_response; `stale': older than 24 h.
Row == [hash: Hashes, response: {{}} \cup {{r} : r \in Requests}, stale: BOOLEAN]

\* "stuck": died between the reservation and store_response or discard.
Working == {"running", "committed", "raised"}
Final == {"ok", "conflict", "in_flight", "error", "lost", "stuck"}
Phase == {"new", "reading"} \cup Working \cup Final

Effect == [by: Requests, epoch: Nat]

To(r, p) == phase' = [phase EXCEPT ![r] = p]

\* get_or_register, the INSERT: the slot was free and is now reserved.
Insert(r) ==
    /\ phase[r] = "new"
    /\ slot = {}
    /\ slot' = {[hash |-> HashOf[r], response |-> {}, stale |-> FALSE]}
    /\ To(r, "running")
    /\ UNCHANGED <<serves, effects, epoch, lost>>

\* The INSERT did nothing: the SELECT comes next.
Collide(r) ==
    /\ phase[r] = "new"
    /\ slot # {}
    /\ To(r, "reading")
    /\ UNCHANGED <<slot, serves, effects, epoch, lost>>

\* The row is gone by the time of the SELECT: get_or_register calls itself.
Reread(r) ==
    /\ phase[r] = "reading"
    /\ slot = {}
    /\ To(r, "new")
    /\ UNCHANGED <<slot, serves, effects, epoch, lost>>

RefuseBody(r) ==
    /\ phase[r] = "reading"
    /\ \E row \in slot : row.hash # HashOf[r]
    /\ To(r, "conflict")
    /\ UNCHANGED <<slot, serves, effects, epoch, lost>>

RefuseInFlight_Waits(r) ==  \* mutant: polls until the other request is done
    /\ phase[r] = "reading"
    /\ \E row \in slot : row.hash = HashOf[r] /\ row.response = {}
    /\ To(r, "new")
    /\ UNCHANGED <<slot, serves, effects, epoch, lost>>

RefuseInFlight(r) ==
    /\ phase[r] = "reading"
    /\ \E row \in slot : row.hash = HashOf[r] /\ row.response = {}
    /\ To(r, "in_flight")
    /\ UNCHANGED <<slot, serves, effects, epoch, lost>>

Replay_AnyBody(r) ==  \* mutant: the hash is not compared
    /\ phase[r] = "reading"
    /\ \E row \in slot : \E q \in row.response :
           serves' = [serves EXCEPT ![r] = q]
    /\ To(r, "ok")
    /\ UNCHANGED <<slot, effects, epoch, lost>>

Replay(r) ==
    /\ phase[r] = "reading"
    /\ \E row \in slot :
           /\ row.hash = HashOf[r]
           /\ \E q \in row.response : serves' = [serves EXCEPT ![r] = q]
    /\ To(r, "ok")
    /\ UNCHANGED <<slot, effects, epoch, lost>>

\* The handler is one transaction of a service: it commits, or raises.
HandlerCommits(r) ==
    /\ phase[r] = "running"
    /\ effects' = effects \cup {[by |-> r, epoch |-> epoch]}
    /\ To(r, "committed")
    /\ UNCHANGED <<slot, serves, epoch, lost>>

HandlerRaises(r) ==
    /\ phase[r] = "running"
    /\ To(r, "raised")
    /\ UNCHANGED <<slot, serves, effects, epoch, lost>>

\* store_response: an UPDATE by key, whatever row is there.
Store(r) ==
    /\ phase[r] = "committed"
    /\ slot' = {[row EXCEPT !.response = {r}] : row \in slot}
    /\ To(r, "ok")
    /\ UNCHANGED <<serves, effects, epoch, lost>>

Discard_KeepsRow(r) ==  \* mutant: the exception is passed on, no more
    /\ phase[r] = "raised"
    /\ To(r, "error")
    /\ UNCHANGED <<slot, serves, effects, epoch, lost>>

\* discard: a DELETE by key of a pending row, then the exception goes on.
Discard(r) ==
    /\ phase[r] = "raised"
    /\ slot' = {row \in slot : row.response # {}}
    /\ To(r, "error")
    /\ UNCHANGED <<serves, effects, epoch, lost>>

\* The process dies, the client hangs up (CancelledError is no Exception),
\* or store_response or discard itself raises: nothing more is written.
Lose(r) ==
    /\ lost < MaxLost
    /\ phase[r] \in {"new", "reading"} \cup Working
    /\ lost' = lost + 1
    /\ To(r, IF phase[r] \in Working THEN "stuck" ELSE "lost")
    /\ UNCHANGED <<slot, serves, effects, epoch>>

\* A day passes.  Requests are answered or dead long before that.
GrowStale ==
    /\ \A r \in Requests : phase[r] \notin Working
    /\ \E row \in slot : ~row.stale
    /\ slot' = {[row EXCEPT !.stale = TRUE] : row \in slot}
    /\ UNCHANGED <<phase, serves, effects, epoch, lost>>

\* mutant: the sweep takes pending rows however young
SweepStale_Pending ==
    /\ \E row \in slot : row.stale \/ row.response = {}
    /\ slot' = {}
    /\ epoch' = epoch + 1
    /\ UNCHANGED <<phase, serves, effects, lost>>

\* sweep_stale, from the daily sweep: pending rows go as well.
SweepStale ==
    /\ \E row \in slot : row.stale
    /\ slot' = {row \in slot : ~row.stale}
    /\ epoch' = epoch + 1
    /\ UNCHANGED <<phase, serves, effects, lost>>

-----------------------------------------------------------------------------
Init ==
    /\ slot = {}
    /\ phase = [r \in Requests |-> "new"]
    /\ serves = [r \in Requests |-> r]
    /\ effects = {}
    /\ epoch = 0
    /\ lost = 0

\* with_idempotency
Step(r) ==
    \/ Insert(r) \/ Collide(r) \/ Reread(r)
    \/ RefuseBody(r) \/ RefuseInFlight(r) \/ Replay(r)
    \/ HandlerCommits(r) \/ HandlerRaises(r) \/ Store(r) \/ Discard(r)

Next ==
    \/ \E r \in Requests : Step(r) \/ Lose(r)
    \/ GrowStale
    \/ SweepStale

Spec == Init /\ [][Next]_vars

\* A request whose process lives goes on; nobody waits for the sweep.
FairSpec == Spec /\ \A r \in Requests : WF_vars(Step(r))

-----------------------------------------------------------------------------
TypeOK ==
    /\ slot \subseteq Row
    /\ phase \in [Requests -> Phase]
    /\ serves \in [Requests -> Requests]
    /\ effects \subseteq Effect
    /\ epoch \in Nat
    /\ lost \in Nat

\* Of all the requests that carry a key at most one has its handler's
\* transaction committed before the daily sweep reclaims the key, whatever
\* collides, raises, dies or is sent again.
OncePerEpoch == \A a, b \in effects : a.epoch = b.epoch => a.by = b.by

\* A request answered with a result is answered with that of a handler that
\* did commit, for a request of the same path and body.
AnswersAreEffects ==
    \A r \in Requests : phase[r] = "ok" =>
        /\ HashOf[serves[r]] = HashOf[r]
        /\ \E a \in effects : a.by = serves[r]

\* A pending row belongs to a request at work, or to one whose process died:
\* a handler that raised never leaves a key behind that answers 409.
Holders == {r \in Requests : phase[r] \in Working \cup {"stuck"}}

PendingIsHeld ==
    \A row \in slot : row.response = {} =>
        \E r \in Holders : HashOf[r] = row.hash

\* Every request is answered unless its process dies: get_or_register's
\* recursion ends.
EveryRequestAnswered == \A r \in Requests : <>(phase[r] \in Final)

=============================================================================
