---------------------------- MODULE PartnerFeed ----------------------------
(***************************************************************************)
(* The partner as EdLinkClient presents it for one LEA: the resources it   *)
(* holds, the events it publishes about them and keeps for a while, and    *)
(* what a poll after a cursor is answered.  An event id is a position in   *)
(* the feed; 0 is the empty cursor, and Foreign an id that is not the      *)
(* partner's.                                                              *)
(***************************************************************************)
EXTENDS Integers, Sequences, FiniteSets

CONSTANTS
    Students, Enrollments,   \* natural keys
    StudentOf,               \* the student of an enrollment
    Kinds,                   \* what the worker can make of an event
    PageSize,                \* events per page
    MaxValue,                \* bound: contents an entity can have
    MaxEvents,               \* bound: events the partner publishes
    MaxFaulty,               \* bound: those among them that are not ok
    MaxExpired               \* bound: events that leave the retention window

ASSUME FeedAssumption ==
    /\ Students \cap Enrollments = {}
    /\ StudentOf \in [Enrollments -> Students]
    /\ Kinds \subseteq {"ok", "left_out", "unparsable"}
    /\ PageSize \in Nat \ {0} /\ MaxValue \in Nat \ {0} /\ MaxEvents \in Nat
    /\ MaxFaulty \in Nat /\ MaxExpired \in Nat

VARIABLES
    partner,   \* the partner's resources: the content of a key, 0 for none
    feed,      \* the events it has published
    dropped    \* how many of them it keeps no longer

feedVars == <<partner, feed, dropped>>

-----------------------------------------------------------------------------
Keys == Students \cup Enrollments
Foreign == MaxEvents + 1

\* The partner's own roster hangs together: an enrollment has its student.
Consistent(roster) ==
    \A e \in Enrollments : roster[e] # 0 => roster[StudentOf[e]] # 0

\* The event of a deletion carries the entity as it was.  What is wrong with
\* an event is a matter of that event: one is left out of its page (it is of
\* no type the connector knows, or Layer 2 or 3 rejects it), another raises
\* out of the fetch.
Publish(k, v, kind) ==
    /\ Len(feed) < MaxEvents
    /\ kind = "ok" \/ Cardinality({p \in DOMAIN feed : feed[p].kind # "ok"}) < MaxFaulty
    /\ partner[k] # v
    /\ partner' = [partner EXCEPT ![k] = v]
    /\ Consistent(partner')
    /\ feed' = Append(feed, [key |-> k, deleted |-> v = 0,
                             kind |-> kind,
                             value |-> IF v = 0 THEN partner[k] ELSE v])
    /\ UNCHANGED dropped

\* The oldest event leaves the retention window.
Expire ==
    /\ dropped < Len(feed) /\ dropped < MaxExpired
    /\ dropped' = dropped + 1
    /\ UNCHANGED <<partner, feed>>

\* The feed still holds the event the cursor names.
Held(cursor) == cursor = 0 \/ cursor \in (dropped + 1)..Len(feed)

SliceStart_EndWhenEmpty(cursor) ==  \* mutant: an empty cursor is just unknown
    IF Held(cursor) /\ cursor # 0 THEN cursor ELSE Len(feed)

\* Where the page after a cursor starts; at the end of the list when the
\* cursor is not in the feed.
SliceStart(cursor) ==
    IF ~Held(cursor) THEN Len(feed) ELSE IF cursor = 0 THEN dropped ELSE cursor

GetEvents(cursor) ==
    {p \in DOMAIN feed : SliceStart(cursor) < p /\ p <= SliceStart(cursor) + PageSize}

LatestCursor == IF dropped = Len(feed) THEN 0 ELSE Len(feed)

FeedInit(known) ==
    /\ partner = [k \in Keys |-> IF k \in known THEN 1 ELSE 0]
    /\ feed = <<>>
    /\ dropped = 0

=============================================================================
