---------------------------- MODULE SessionQueue ----------------------------
(***************************************************************************)
(* One queue of the in-process Service Bus: messages under a session id    *)
(* (the LEA), receivers that claim a session, take messages from it and    *)
(* complete them or give them back.  A message is the number of its send.  *)
(*                                                                         *)
(* Each action is one critical section of the queue's lock.  A receiver is *)
(* used inside its `with' block by the thread that opened it.              *)
(***************************************************************************)
EXTENDS Naturals, Sequences, FiniteSets, SequencesExt

CONSTANTS
    Sessions, Receivers,
    Batch,         \* max_count of receive_messages
    MaxMessages,   \* bound: messages sent
    MaxStrays      \* bound: abandons, claims by id and blocks left early

ASSUME QueueAssumption ==
    /\ Batch \in Nat \ {0}
    /\ MaxMessages \in Nat
    /\ MaxStrays \in Nat

VARIABLES
    sent,        \* the session of every message sent, in order
    pending,     \* sessions: the deque of each session
    known,       \* the keys of sessions, in order of insertion
    in_flight,   \* handed out, neither completed nor abandoned
    holding,     \* the sessions each receiver holds: none, or one
    taken,       \* popped by receive_messages, not yet marked in flight
    completed,   \* messages acknowledged
    abandons,    \* abandon_message calls so far (bounded)
    strays       \* claims by id and blocks left early, so far (bounded)

queueVars == <<sent, pending, known, in_flight, holding, taken, completed, abandons, strays>>

-----------------------------------------------------------------------------
Locked(s) == \E r \in Receivers : s \in holding[r]

\* sessions is a defaultdict: any access by key inserts it.
SetPending(s, q) ==
    /\ pending' = [pending EXCEPT ![s] = q]
    /\ known' = IF Contains(known, s) THEN known ELSE Append(known, s)

KeepPending == UNCHANGED <<pending, known>>

Send(s) ==
    /\ Len(sent) < MaxMessages
    /\ sent' = Append(sent, s)
    /\ SetPending(s, Append(pending[s], Len(sent) + 1))
    /\ UNCHANGED <<in_flight, holding, taken, completed, abandons, strays>>

Claimable_Locked(s) == pending[s] # <<>>  \* mutant: the lock is not looked at

Claimable(s) == pending[s] # <<>> /\ ~Locked(s)

\* receive_session without an id: the first key that can be claimed.
Claim(r, s) ==
    /\ holding[r] = {}
    /\ \E i \in DOMAIN known :
          /\ known[i] = s /\ Claimable(s)
          /\ \A j \in 1..(i - 1) : ~Claimable(known[j])
    /\ holding' = [holding EXCEPT ![r] = {s}]
    /\ KeepPending /\ UNCHANGED <<sent, in_flight, taken, completed, abandons, strays>>

\* receive_session with an id claims an empty session too.
ClaimById(r, s) ==
    /\ holding[r] = {}
    /\ ~Locked(s)
    /\ abandons + strays < MaxStrays /\ strays' = strays + 1
    /\ holding' = [holding EXCEPT ![r] = {s}]
    /\ KeepPending /\ UNCHANGED <<sent, in_flight, taken, completed, abandons>>

\* receive_messages: popped under the lock, which is then let go ...
Receive(r, s) ==
    LET n == IF Batch < Len(pending[s]) THEN Batch ELSE Len(pending[s])
    IN  /\ s \in holding[r]
        /\ taken[r] = <<>>
        /\ taken' = [taken EXCEPT ![r] = SubSeq(pending[s], 1, n)]
        /\ SetPending(s, SubSeq(pending[s], n + 1, Len(pending[s])))
        /\ UNCHANGED <<sent, in_flight, holding, completed, abandons, strays>>

\* ... and taken again to mark the messages in flight.
MarkInFlight(r, s) ==
    /\ s \in holding[r]
    /\ taken[r] # <<>>
    /\ in_flight' = [in_flight EXCEPT ![s] = @ \o taken[r]]
    /\ taken' = [taken EXCEPT ![r] = <<>>]
    /\ KeepPending /\ UNCHANGED <<sent, holding, completed, abandons, strays>>

\* list.remove: the first of in_flight[s] that equals m.
First(q, m) == CHOOSE i \in DOMAIN q : q[i] = m /\ \A j \in 1..(i - 1) : q[j] # m

Complete(r, s, m) ==
    /\ s \in holding[r]
    /\ Contains(in_flight[s], m)
    /\ in_flight' = [in_flight EXCEPT ![s] = RemoveAt(@, First(@, m))]
    /\ completed' = completed \cup {m}
    /\ KeepPending /\ UNCHANGED <<sent, holding, taken, abandons, strays>>

\* Back to the head of the session, before the messages received after it
\* and before those received ahead of it that are still in flight.
Abandon(r, s, m) ==
    /\ s \in holding[r]
    /\ Contains(in_flight[s], m)
    /\ abandons + strays < MaxStrays
    /\ in_flight' = [in_flight EXCEPT ![s] = RemoveAt(@, First(@, m))]
    /\ SetPending(s, <<m>> \o pending[s])
    /\ abandons' = abandons + 1
    /\ UNCHANGED <<sent, holding, taken, completed, strays>>

\* A block left before its session is empty counts against the bound.
Leave(s) ==
    IF pending[s] = <<>> /\ in_flight[s] = <<>>
    THEN UNCHANGED strays
    ELSE abandons + strays < MaxStrays /\ strays' = strays + 1

Release_Forward(r, s) ==  \* mutant: appendleft in order of receipt
    /\ s \in holding[r]
    /\ taken[r] = <<>>
    /\ Leave(s)
    /\ SetPending(s, Reverse(in_flight[s]) \o pending[s])
    /\ in_flight' = [in_flight EXCEPT ![s] = <<>>]
    /\ holding' = [holding EXCEPT ![r] = {}]
    /\ UNCHANGED <<sent, taken, completed, abandons>>

Release_UnlocksOnly(r, s) ==  \* mutant: in-flight messages are forgotten
    /\ s \in holding[r]
    /\ taken[r] = <<>>
    /\ in_flight' = [in_flight EXCEPT ![s] = <<>>]
    /\ holding' = [holding EXCEPT ![r] = {}]
    /\ KeepPending /\ UNCHANGED <<sent, taken, completed, abandons, strays>>

\* The with block ends, done or by an exception: what is in flight goes back
\* to the head of the session in its order, and the lock is released.
Release(r, s) ==
    /\ s \in holding[r]
    /\ taken[r] = <<>>
    /\ Leave(s)
    /\ IF in_flight[s] = <<>> THEN KeepPending
       ELSE SetPending(s, in_flight[s] \o pending[s])
    /\ in_flight' = [in_flight EXCEPT ![s] = <<>>]
    /\ holding' = [holding EXCEPT ![r] = {}]
    /\ UNCHANGED <<sent, taken, completed, abandons>>

-----------------------------------------------------------------------------
QueueInit ==
    /\ sent = <<>>
    /\ pending = [s \in Sessions |-> <<>>]
    /\ known = <<>>
    /\ in_flight = [s \in Sessions |-> <<>>]
    /\ holding = [r \in Receivers |-> {}]
    /\ taken = [r \in Receivers |-> <<>>]
    /\ completed = {}
    /\ abandons = 0
    /\ strays = 0

Messages == 1..Len(sent)

\* A consumer claims the next session, takes and completes a batch at a time
\* and leaves the block when the session is empty, but for the strays.
Consume(r) ==
    \E s \in Sessions :
        \/ Claim(r, s) \/ MarkInFlight(r, s)
        \/ in_flight[s] = <<>> /\ pending[s] # <<>> /\ Receive(r, s)
        \/ \E m \in Messages : Complete(r, s, m)
        \/ pending[s] = <<>> /\ in_flight[s] = <<>> /\ Release(r, s)

QueueNext ==
    \/ \E s \in Sessions : Send(s)
    \/ \E r \in Receivers, s \in Sessions :
          \/ Claim(r, s) \/ ClaimById(r, s)
          \/ Receive(r, s) \/ MarkInFlight(r, s)
          \/ \E m \in Messages : Complete(r, s, m) \/ Abandon(r, s, m)
          \/ Release(r, s)

\* Consumers keep consuming.
FairConsumers == \A r \in Receivers : WF_queueVars(Consume(r))

QueueSpec == QueueInit /\ [][QueueNext]_queueVars /\ FairConsumers

-----------------------------------------------------------------------------
\* Popped from the session, not yet marked: in the hands of its holder.
InHand(s) ==
    IF Locked(s) THEN taken[CHOOSE r \in Receivers : s \in holding[r]] ELSE <<>>

\* What is left of a session, in the order it would be seen again if its
\* receiver left the block now.
Line(s) == in_flight[s] \o InHand(s) \o pending[s]

\* A message is in the line of its own session exactly once until it is
\* completed, whoever claims, abandons, raises or releases.
NothingLostOrTwice ==
    \A m \in Messages, s \in Sessions :
        Cardinality({i \in 1..Len(Line(s)) : Line(s)[i] = m})
            = IF s = sent[m] /\ m \notin completed THEN 1 ELSE 0

\* The messages of a session are out with one receiver at a time, the one
\* that holds its lock: a session's events are never worked on in parallel.
OneReceiverPerSession ==
    \A r, q \in Receivers : holding[r] \cap holding[q] # {} => r = q

\* A block that is left, by an exception or in the middle of a batch, gives
\* its messages back in the order they were sent.
RedeliveredInOrder ==
    abandons = 0 =>
        \A s \in Sessions : \A i, j \in 1..Len(Line(s)) :
            i < j => Line(s)[i] < Line(s)[j]

\* Every message is eventually completed.
EveryMessageCompleted == \A m \in 1..MaxMessages : m \in Messages ~> m \in completed

=============================================================================
