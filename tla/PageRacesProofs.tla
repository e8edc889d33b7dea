-------------------------- MODULE PageRacesProofs --------------------------
(***************************************************************************)
(* What the statements of a page, the reverts beside it and a retry keep   *)
(* true, in whatever order READ COMMITTED lets them run.                   *)
(*                                                                         *)
(* The row locks are not used: what the properties claim of transactions   *)
(* that overlap follows from which rows each of them may write, and of a   *)
(* transaction that runs alone from what it has seen still being so.       *)
(***************************************************************************)
EXTENDS PageRaces, SequenceTheorems, TLAPS

-----------------------------------------------------------------------------
(* Types.                                                                  *)

\* The functions from part of S to T.
PartialFcn(S, T) == UNION {[D -> T] : D \in SUBSET S}

Ids == [gen : Nat, event : Nat, key : Keys]
Row == [key : Keys, gen : Nat, event : Nat, deleted : BOOLEAN, sup : Nat]
Show == [event : Nat, deleted : BOOLEAN]
Event == [key : Keys, deleted : BOOLEAN]
Job == [kind : {"page", "revert"}, from : Nat, target : Nat, done : BOOLEAN]

PagePhases == {"dedup", "aim", "supersede", "write"}
RevertPhases == {"select", "prior", "restore", "canonical", "take"}

Tx == [job : Nat, at : {"idle"} \cup PagePhases \cup RevertPhases,
       sup : PartialFcn(Ids, Nat), new : SUBSET Row,
       canonical : PartialFcn(Keys, Show), seen : SUBSET Ids,
       todo : Seq(Nat \cup Ids)]

History == [raced : SUBSET Transactions, tainted : SUBSET Keys, owed : SUBSET Nat,
            retried : BOOLEAN, retries : Nat]

TypeInv ==
    /\ feed \in Seq(Event)
    /\ rows \in SUBSET Row
    /\ canonical \in [Keys -> Show]
    /\ cursor \in Nat
    /\ jobs \in Seq(Job)
    /\ tx \in [Transactions -> Tx]
    /\ history \in History
    /\ tx[Worker].todo \in Seq(1..Len(feed))
    /\ \A o \in Operators : tx[o].todo \in Seq(Ids)

-----------------------------------------------------------------------------
(* Which job a transaction runs, and which rows there are.                 *)

JobInv ==
    \A x \in Transactions :
        IF Open(x)
        THEN /\ tx[x].job \in 1..Len(jobs)
             /\ ~jobs[tx[x].job].done
             /\ \A y \in Transactions \ {x} : tx[y].job # tx[x].job
             /\ x = Worker => /\ jobs[tx[x].job].kind = "page"
                              /\ tx[x].at \in PagePhases
             /\ x # Worker => /\ jobs[tx[x].job].kind = "revert"
                              /\ tx[x].at \in RevertPhases
                              /\ Target(x) # 0
        ELSE tx[x] = NoTx

RowInv ==
    /\ \A r \in rows : r.gen \in 1..Len(jobs) /\ jobs[r.gen].done
    /\ \A r \in tx[Worker].new : r.gen = tx[Worker].job /\ r.sup = 0
    /\ \A r, s \in rows \cup tx[Worker].new : Id(r) = Id(s) => r = s
    /\ \A o \in Operators : tx[o].new = {}

\* A page goes through increasing events: an id of its own that it has
\* written or seen is that of an earlier one.
PageOrderInv ==
    LET t == tx[Worker]
    IN  /\ \A m, n \in DOMAIN t.todo : m < n => t.todo[m] < t.todo[n]
        /\ \A r \in t.new, n \in DOMAIN t.todo : r.event < t.todo[n]
        /\ \A i \in DOMAIN t.sup \cup t.seen :
              i.gen = t.job => \E r \in t.new : Id(r) = i
        /\ t.at \in {"aim", "supersede", "write"} => t.todo # <<>>

\* What a row that a page supersedes has to be older than.
Older(i, p) == i.gen = tx[Worker].job \/ Worker \notin history.raced => i.event < p

PageInv ==
    LET t == tx[Worker]
    IN  Open(Worker) =>
        /\ \A r \in t.new : r.key \in DOMAIN t.canonical
        /\ \A i \in DOMAIN t.sup :
              /\ t.sup[i] = t.job
              /\ \/ \E w \in t.new : w.key = i.key /\ Older(i, w.event)
                 \/ t.at = "write" /\ i.key = KeyOf(This(Worker)) /\ Older(i, This(Worker))
        /\ t.at = "supersede" => \A i \in t.seen :
              i.key = KeyOf(This(Worker)) /\ Older(i, This(Worker))

RevertAt(o) ==
    LET t == tx[o]
    IN  Open(o) =>
        /\ \A m, n \in DOMAIN t.todo : m < n => t.todo[m].event < t.todo[n].event
        /\ \A n \in DOMAIN t.todo : t.todo[n].gen = Target(o)
        /\ t.at \in {"select", "prior"} \/ t.todo # <<>>
        /\ t.at = "select" => DOMAIN t.sup = {} /\ DOMAIN t.canonical = {} /\ t.todo = <<>>
        /\ t.at = "take" => This(o).key \in DOMAIN t.canonical
        /\ t.at \in {"restore", "canonical", "take"} =>
              \A i \in t.seen : i.key = This(o).key
        /\ \A i \in DOMAIN t.sup :
              /\ t.sup[i] = 0 \/ (t.sup[i] = t.job /\ i.gen = Target(o))
              /\ i.key \in DOMAIN t.canonical \/ (t.at = "canonical" /\ i.key = This(o).key)

RevertInv == \A o \in Operators : RevertAt(o)

-----------------------------------------------------------------------------
(* A transaction that runs alone.                                          *)

AloneInv == \A x \in Transactions :
    Open(x) /\ x \notin history.raced => \A y \in Transactions \ {x} : ~Open(y)

Alone(x) == Open(x) /\ x \notin history.raced

\* One live row of k among S, with canonical in step.
SoundIn(S, c, k) ==
    LET live == LiveIn(S, k)
    IN  IF live = {} THEN c.event = 0 \/ c.deleted
        ELSE \E r \in live : live = {r} /\ c = [event |-> r.event, deleted |-> r.deleted]

LonePageInv ==
    LET t == tx[Worker]
        S == View(Worker)
    IN  Alone(Worker) =>
        /\ \A k \in Keys : k \in DOMAIN t.canonical \/ k \notin history.tainted =>
              \/ SoundIn(S, Shown(Worker, k), k)
              \/ t.at = "write" /\ k = KeyOf(This(Worker))
        /\ t.at \in {"aim", "supersede"} =>
              \A r \in LiveIn(S, KeyOf(This(Worker))) : r.event < This(Worker)
        /\ t.at = "supersede" =>
              \A r \in LiveIn(S, KeyOf(This(Worker))) : Id(r) \in t.seen
        /\ t.at = "write" => LiveIn(S, KeyOf(This(Worker))) = {}

\* The row a revert has put back, if it has found one.
PutBack(o) == {r \in View(o) : Id(r) \in tx[o].seen}

LoneRevertAt(o) ==
    LET t == tx[o]
        S == View(o)
    IN  Alone(o) =>
        /\ \A k \in Keys \ history.tainted :
              \/ SoundIn(S, Shown(o, k), k)
              \/ t.at \in {"canonical", "take"} /\ k = This(o).key
        /\ \A n \in DOMAIN t.todo : t.todo[n].key \notin history.tainted =>
              \E r \in LiveIn(S, t.todo[n].key) : Id(r) = t.todo[n]
        /\ t.at \in {"restore", "canonical", "take"} /\ This(o).key \notin history.tainted =>
              /\ \A q, r \in PutBack(o) : q = r
              /\ This(o) \notin t.seen
        /\ t.at \in {"canonical", "take"} /\ This(o).key \notin history.tainted =>
              \A r \in LiveIn(S, This(o).key) :
                  r \in PutBack(o) \/ Id(r) = This(o)
        /\ t.at \in {"canonical", "take"} => \A r \in PutBack(o) : r.sup = 0
        /\ t.at = "take" /\ This(o).key \notin history.tainted =>
              IF PutBack(o) = {} THEN Shown(o, This(o).key).deleted
              ELSE \A r \in PutBack(o) : Shown(o, This(o).key) =
                        [event |-> r.event, deleted |-> r.deleted]

LoneRevertInv == \A o \in Operators : LoneRevertAt(o)

-----------------------------------------------------------------------------
(* The cursor.                                                             *)

RewindInv ==
    /\ \A p \in history.owed : p > cursor
    /\ Open(Worker) /\ ~history.retried => jobs[tx[Worker].job].from = cursor

\* What one statement of transaction x leaves: its own fields, all else as it was.
Becomes(x, at, sup, new, can, seen, todo) ==
    /\ tx'[x].job = tx[x].job /\ tx'[x].at = at /\ tx'[x].sup = sup
    /\ tx'[x].new = new /\ tx'[x].canonical = can
    /\ tx'[x].seen = seen /\ tx'[x].todo = todo
    /\ tx' \in [Transactions -> Tx]
    /\ \A y \in Transactions \ {x} : tx'[y] = tx[y]
    /\ UNCHANGED <<feed, rows, canonical, cursor, jobs, history>>

LEMMA Overwrite ==
    ASSUME NEW S, NEW T, NEW f \in PartialFcn(S, T), NEW D \in SUBSET S, NEW v \in T
    PROVE  [i \in DOMAIN f \cup D |-> IF i \in D THEN v ELSE f[i]] \in PartialFcn(S, T)
<1> DEFINE g == [i \in DOMAIN f \cup D |-> IF i \in D THEN v ELSE f[i]]
<1>1. PICK E \in SUBSET S : f \in [E -> T]
  BY DEF PartialFcn
<1>2. g \in [DOMAIN f \cup D -> T] /\ DOMAIN f \cup D \in SUBSET S
  BY <1>1
<1> QED
  BY <1>2 DEF PartialFcn

LEMMA WriteType ==
    ASSUME NEW S, NEW T, NEW f \in PartialFcn(S, T), NEW k \in S, NEW v \in T
    PROVE  /\ Write(f, k, v) \in PartialFcn(S, T)
           /\ DOMAIN Write(f, k, v) = DOMAIN f \cup {k}
           /\ Write(f, k, v)[k] = v
           /\ \A j \in DOMAIN f \ {k} : Write(f, k, v)[j] = f[j]
<1>1. PICK E \in SUBSET S : f \in [E -> T]
  BY DEF PartialFcn
<1>2. Write(f, k, v) \in [DOMAIN f \cup {k} -> T] /\ DOMAIN f \cup {k} \in SUBSET S
  BY <1>1 DEF Write
<1>3. Write(f, k, v) \in PartialFcn(S, T)
  BY <1>2 DEF PartialFcn
<1> QED
  BY <1>2, <1>3 DEF Write

LEMMA PartialFacts ==
    ASSUME NEW S, NEW T, NEW f \in PartialFcn(S, T)
    PROVE  DOMAIN f \in SUBSET S /\ \A i \in DOMAIN f : f[i] \in T
BY DEF PartialFcn

LEMMA TxFields ==
    ASSUME TypeInv, NEW x \in Transactions
    PROVE  /\ tx[x] \in Tx
           /\ tx[x].job \in Nat
           /\ tx[x].at \in {"idle"} \cup PagePhases \cup RevertPhases
           /\ tx[x].sup \in PartialFcn(Ids, Nat)
           /\ tx[x].new \in SUBSET Row
           /\ tx[x].canonical \in PartialFcn(Keys, Show)
           /\ tx[x].seen \in SUBSET Ids
           /\ tx[x].todo \in Seq(Nat \cup Ids)
<1>1. tx[x] \in Tx
  BY DEF TypeInv
<1> QED
  BY <1>1 DEF Tx

LEMMA StepBecomes ==
    ASSUME TypeInv, NEW x \in Transactions, NEW t \in Tx, t.job = tx[x].job, Step(x, t)
    PROVE  Becomes(x, t.at, t.sup, t.new, t.canonical, t.seen, t.todo)
BY DEF TypeInv, Step, Becomes

\* The next of the rows or events a transaction has left.
LEMMA TodoFacts ==
    ASSUME NEW S, NEW s \in Seq(S), s # <<>>
    PROVE  /\ Head(s) \in S /\ Head(s) = s[1] /\ 1 \in DOMAIN s
           /\ Tail(s) \in Seq(S)
           /\ \A n \in DOMAIN Tail(s) : 
                 /\ n + 1 \in DOMAIN s /\ Tail(s)[n] = s[n + 1]
                 /\ n \in Nat /\ n >= 1
BY HeadTailProperties, LenProperties, ElementOfSeq

LEMMA WorkerThis ==
    ASSUME TypeInv, tx[Worker].todo # <<>>
    PROVE  /\ This(Worker) \in 1..Len(feed) /\ This(Worker) \in Nat
           /\ KeyOf(This(Worker)) \in Keys
           /\ feed[This(Worker)] \in Event
<1>1. This(Worker) \in 1..Len(feed)
  BY TodoFacts DEF TypeInv, This
<1>2. Len(feed) \in Nat /\ \A n \in 1..Len(feed) : feed[n] \in Event
  BY LenProperties, ElementOfSeq DEF TypeInv
<1> QED
  BY <1>1, <1>2 DEF KeyOf, Event

LEMMA OperatorThis ==
    ASSUME TypeInv, NEW o \in Operators, tx[o].todo # <<>>
    PROVE  /\ This(o) \in Ids /\ This(o).key \in Keys
           /\ This(o).event \in Nat /\ This(o).gen \in Nat
<1>1. This(o) \in Ids
  BY TodoFacts DEF TypeInv, This
<1> QED
  BY <1>1 DEF Ids

LEMMA ViewType ==
    ASSUME TypeInv, NEW x \in Transactions
    PROVE  View(x) \in SUBSET Row
<1> SUFFICES ASSUME NEW r \in rows \cup tx[x].new
             PROVE  (IF Id(r) \in DOMAIN tx[x].sup
                     THEN [r EXCEPT !.sup = tx[x].sup[Id(r)]] ELSE r) \in Row
  BY DEF View
<1>1. r \in Row
  BY TxFields DEF TypeInv
<1>2. Id(r) \in DOMAIN tx[x].sup => tx[x].sup[Id(r)] \in Nat
  BY TxFields, PartialFacts
<1> QED
  BY <1>1, <1>2 DEF Row

LEMMA IdType ==
    ASSUME NEW r \in Row
    PROVE  /\ Id(r) \in Ids
           /\ Id(r).gen = r.gen /\ Id(r).event = r.event /\ Id(r).key = r.key
BY DEF Id, Ids, Row

-----------------------------------------------------------------------------
(* The effect of each statement.                                           *)

LEMMA DedupEffect ==
    ASSUME TypeInv, Dedup
    PROVE  LET t == tx[Worker]
           IN  /\ Open(Worker) /\ t.at = "dedup" /\ t.todo # <<>>
               /\ \/ /\ \A r \in LiveIn(View(Worker), KeyOf(This(Worker))) :
                           r.event < This(Worker)
                     /\ Becomes(Worker, "aim", t.sup, t.new, t.canonical, t.seen, t.todo)
                  \/ Becomes(Worker, "dedup", t.sup, t.new, t.canonical, t.seen, Tail(t.todo))
<1> DEFINE t == tx[Worker]
           u == [t EXCEPT !.todo = Tail(@)]
           v == [t EXCEPT !.at = "aim"]
<1>1. Worker \in Transactions /\ t \in Tx /\ t.todo \in Seq(Nat \cup Ids)
  BY TxFields DEF Transactions
<1>2. Open(Worker) /\ t.at = "dedup" /\ t.todo # <<>>
  BY DEF Dedup, At
<1>3. Tail(t.todo) \in Seq(Nat \cup Ids)
  BY <1>1, <1>2, TodoFacts
<1>4. /\ u \in Tx /\ u.job = t.job /\ u.at = "dedup" /\ u.sup = t.sup /\ u.new = t.new
      /\ u.canonical = t.canonical /\ u.seen = t.seen /\ u.todo = Tail(t.todo)
  BY <1>1, <1>2, <1>3 DEF Tx
<1>5. /\ v \in Tx /\ v.job = t.job /\ v.at = "aim" /\ v.sup = t.sup /\ v.new = t.new
      /\ v.canonical = t.canonical /\ v.seen = t.seen /\ v.todo = t.todo
  BY <1>1 DEF Tx, PagePhases
<1>6. \/ /\ ~\E r \in LiveIn(View(Worker), KeyOf(This(Worker))) : This(Worker) <= r.event
         /\ Step(Worker, v)
      \/ Step(Worker, u)
  BY DEF Dedup
<1> HIDE DEF u, v
<1>7. CASE Step(Worker, u)
  <2>1. Becomes(Worker, u.at, u.sup, u.new, u.canonical, u.seen, u.todo)
    BY <1>1, <1>4, <1>7, StepBecomes
  <2> QED
    BY <1>2, <1>4, <2>1
<1>8. CASE /\ ~\E r \in LiveIn(View(Worker), KeyOf(This(Worker))) : This(Worker) <= r.event
           /\ Step(Worker, v)
  <2>1. Becomes(Worker, v.at, v.sup, v.new, v.canonical, v.seen, v.todo)
    BY <1>1, <1>5, <1>8, StepBecomes
  <2>2. \A r \in LiveIn(View(Worker), KeyOf(This(Worker))) : r.event \in Nat
    BY <1>1, ViewType DEF LiveIn, Row
  <2> QED
    BY <1>2, <1>5, <1>8, <2>1, <2>2, WorkerThis
<1> QED
  BY <1>6, <1>7, <1>8

LEMMA AimEffect ==
    ASSUME TypeInv, AimSupersede
    PROVE  LET t == tx[Worker]
           IN  /\ Open(Worker) /\ t.at = "aim" /\ t.todo # <<>>
               /\ Becomes(Worker, "supersede", t.sup, t.new, t.canonical,
                    {Id(r) : r \in LiveIn(View(Worker), KeyOf(This(Worker)))}, t.todo)
<1> DEFINE t == tx[Worker]
           S == {Id(r) : r \in LiveIn(View(Worker), KeyOf(This(Worker)))}
           u == [t EXCEPT !.at = "supersede", !.seen = S]
<1>1. Worker \in Transactions /\ t \in Tx
  BY TxFields DEF Transactions
<1>2. Open(Worker) /\ t.at = "aim" /\ t.todo # <<>> /\ Step(Worker, u)
  BY DEF AimSupersede, At, Aimed
<1>3. S \in SUBSET Ids
  BY <1>1, ViewType, IdType DEF LiveIn
<1> HIDE DEF S
<1>4. /\ u \in Tx /\ u.job = t.job /\ u.at = "supersede" /\ u.sup = t.sup /\ u.new = t.new
      /\ u.canonical = t.canonical /\ u.seen = S /\ u.todo = t.todo
  BY <1>1, <1>3 DEF Tx, PagePhases
<1> HIDE DEF u
<1>5. Becomes(Worker, u.at, u.sup, u.new, u.canonical, u.seen, u.todo)
  BY <1>1, <1>2, <1>4, StepBecomes
<1> QED
  BY <1>2, <1>4, <1>5 DEF S

\* The rows a page still finds live of those it has aimed at.
Hit == {i \in tx[Worker].seen : \E r \in View(Worker) : Id(r) = i /\ r.sup = 0}

LEMMA SupersedeEffect ==
    ASSUME TypeInv, Supersede
    PROVE  LET t == tx[Worker]
               f == [i \in DOMAIN t.sup \cup Hit |-> IF i \in Hit THEN t.job ELSE t.sup[i]]
           IN  /\ Open(Worker) /\ t.at = "supersede" /\ t.todo # <<>>
               /\ Becomes(Worker, "write", f, t.new, t.canonical, t.seen, t.todo)
<1> DEFINE t == tx[Worker]
           f == [i \in DOMAIN t.sup \cup Hit |-> IF i \in Hit THEN t.job ELSE t.sup[i]]
           u == [t EXCEPT !.at = "write", !.sup = f]
<1>1. /\ Worker \in Transactions /\ t \in Tx /\ t.seen \in SUBSET Ids
      /\ t.sup \in PartialFcn(Ids, Nat) /\ t.job \in Nat
  BY TxFields DEF Transactions
<1>2. Open(Worker) /\ t.at = "supersede" /\ t.todo # <<>> /\ Step(Worker, u)
  BY DEF Supersede, At, Hit
<1>3. Hit \in SUBSET Ids
  BY <1>1 DEF Hit
<1>4. f \in PartialFcn(Ids, Nat)
  BY <1>1, <1>3, Overwrite
<1> HIDE DEF f
<1>5. /\ u \in Tx /\ u.job = t.job /\ u.at = "write" /\ u.sup = f /\ u.new = t.new
      /\ u.canonical = t.canonical /\ u.seen = t.seen /\ u.todo = t.todo
  BY <1>1, <1>4 DEF Tx, PagePhases
<1> HIDE DEF u
<1>6. Becomes(Worker, u.at, u.sup, u.new, u.canonical, u.seen, u.todo)
  BY <1>1, <1>2, <1>5, StepBecomes
<1> QED
  BY <1>2, <1>5, <1>6 DEF f

\* The snapshot a page inserts for its next event.
NewRow ==
    LET p == This(Worker)
    IN  [key |-> KeyOf(p), gen |-> tx[Worker].job, event |-> p,
         deleted |-> feed[p].deleted, sup |-> 0]

NewShow == [event |-> This(Worker), deleted |-> feed[This(Worker)].deleted]

LEMMA WriteEffect ==
    ASSUME TypeInv, WriteEvent
    PROVE  LET t == tx[Worker]
           IN  /\ Open(Worker) /\ t.at = "write" /\ t.todo # <<>>
               /\ NewRow \in Row /\ NewShow \in Show
               /\ Becomes(Worker, "dedup", t.sup, t.new \cup {NewRow},
                          Write(t.canonical, KeyOf(This(Worker)), NewShow), {}, Tail(t.todo))
<1> DEFINE t == tx[Worker]
           c == Write(t.canonical, KeyOf(This(Worker)), NewShow)
           u == [t EXCEPT !.at = "dedup", !.todo = Tail(@), !.seen = {},
                          !.new = @ \cup {NewRow}, !.canonical = c]
<1>1. /\ Worker \in Transactions /\ t \in Tx /\ t.job \in Nat
      /\ t.canonical \in PartialFcn(Keys, Show) /\ t.new \in SUBSET Row
      /\ t.todo \in Seq(Nat \cup Ids)
  BY TxFields DEF Transactions
<1>2. Open(Worker) /\ t.at = "write" /\ t.todo # <<>>
  BY DEF WriteEvent, At
<1>3. Step(Worker, u)
  BY DEF WriteEvent, NewRow, NewShow
<1>4. NewRow \in Row /\ NewShow \in Show
  BY <1>1, <1>2, WorkerThis DEF NewRow, NewShow, Row, Show, Event
<1>5. c \in PartialFcn(Keys, Show)
  BY <1>1, <1>2, <1>4, WorkerThis, WriteType
<1>6. Tail(t.todo) \in Seq(Nat \cup Ids) /\ t.new \cup {NewRow} \in SUBSET Row
  BY <1>1, <1>2, <1>4, TodoFacts
<1> HIDE DEF c
<1>7. /\ u \in Tx /\ u.job = t.job /\ u.at = "dedup" /\ u.sup = t.sup
      /\ u.new = t.new \cup {NewRow}
      /\ u.canonical = c /\ u.seen = {} /\ u.todo = Tail(t.todo)
  BY <1>1, <1>5, <1>6 DEF Tx, PagePhases
<1> HIDE DEF u
<1>8. Becomes(Worker, u.at, u.sup, u.new, u.canonical, u.seen, u.todo)
  BY <1>1, <1>3, <1>7, StepBecomes
<1> QED
  BY <1>2, <1>4, <1>7, <1>8 DEF c

LEMMA SelectEffect ==
    ASSUME TypeInv, NEW o \in Operators, SelectLive(o)
    PROVE  LET t == tx[o]
           IN  /\ Open(o) /\ t.at = "select"
               /\ \E order \in Seq(Ids) :
                    /\ \A n \in DOMAIN order :
                          /\ order[n].gen = Target(o)
                          /\ \E r \in LiveIn(View(o), order[n].key) : Id(r) = order[n]
                    /\ \A m, n \in DOMAIN order : m < n => order[m].event < order[n].event
                    /\ Becomes(o, "prior", t.sup, t.new, t.canonical, t.seen, order)
<1> DEFINE t == tx[o]
           live == {s \in View(o) : s.gen = Target(o) /\ s.sup = 0}
           S == {Id(r) : r \in live}
<1>1. o \in Transactions /\ t \in Tx /\ View(o) \in SUBSET Row
  BY TxFields, ViewType DEF Transactions
<1>2. Open(o) /\ t.at = "select"
  BY DEF SelectLive
<1>3. PICK order \in InOrder(S) : Step(o, [t EXCEPT !.at = "prior", !.todo = order])
  BY DEF SelectLive
<1>4. S \in SUBSET Ids
  BY <1>1, IdType
<1>5. \A i \in S : i.gen = Target(o) /\ \E r \in LiveIn(View(o), i.key) : Id(r) = i
  BY <1>1, IdType DEF LiveIn
<1> HIDE DEF S
<1>6. Len(feed) \in Nat
  BY LenProperties DEF TypeInv
<1>7. PICK n \in 0..Len(feed) : order \in [1..n -> S]
  BY <1>3 DEF InOrder
<1>8. order \in [1..n -> Ids] /\ n \in Nat /\ DOMAIN order = 1..n
  BY <1>4, <1>6, <1>7
<1>9. order \in Seq(Ids)
  BY <1>8, SeqDef
<1>10. order \in Seq(Nat \cup Ids)
  BY <1>9, SeqMonotonic
<1>11. \A a, b \in DOMAIN order : a < b => order[a].event < order[b].event
  BY <1>3 DEF InOrder
<1>12. \A a \in DOMAIN order : order[a] \in S
  BY <1>7
<1> DEFINE u == [t EXCEPT !.at = "prior", !.todo = order]
<1>13. /\ u \in Tx /\ u.job = t.job /\ u.at = "prior" /\ u.sup = t.sup /\ u.new = t.new
       /\ u.canonical = t.canonical /\ u.seen = t.seen /\ u.todo = order
  BY <1>1, <1>10 DEF Tx, RevertPhases
<1>14. Step(o, u)
  BY <1>3
<1> HIDE DEF u
<1>15. Becomes(o, u.at, u.sup, u.new, u.canonical, u.seen, u.todo)
  BY <1>1, <1>13, <1>14, StepBecomes
<1>16. Becomes(o, "prior", t.sup, t.new, t.canonical, t.seen, order)
  BY <1>13, <1>15
<1> QED
  BY <1>2, <1>5, <1>9, <1>11, <1>12, <1>16

LEMMA FindEffect ==
    ASSUME TypeInv, NEW o \in Operators, FindPrior(o)
    PROVE  LET t == tx[o]
           IN  /\ Open(o) /\ t.at = "prior" /\ t.todo # <<>>
               /\ \E seen \in SUBSET Ids :
                    /\ \A i \in seen : \E r \in View(o) :
                          Id(r) = i /\ r.key = This(o).key /\ r.sup = Target(o)
                    /\ \A i, j \in seen : i = j
                    /\ Becomes(o, "restore", t.sup, t.new, t.canonical, seen, t.todo)
<1> DEFINE t == tx[o]
           S == {s \in View(o) : s.key = This(o).key /\ s.sup = Target(o)}
<1>1. o \in Transactions /\ t \in Tx /\ View(o) \in SUBSET Row
  BY TxFields, ViewType DEF Transactions
<1>2. Open(o) /\ t.at = "prior" /\ t.todo # <<>>
  BY DEF FindPrior, At
<1>3. PICK prior \in Prior(S) :
         Step(o, [t EXCEPT !.at = "restore", !.seen = {Id(r) : r \in prior}])
  BY DEF FindPrior
<1>4. prior \in SUBSET S /\ \A q, r \in prior : q = r
  BY DEF Prior, Highest
<1> DEFINE seen == {Id(r) : r \in prior}
<1>5. /\ seen \in SUBSET Ids
      /\ \A i \in seen : \E r \in View(o) :
            Id(r) = i /\ r.key = This(o).key /\ r.sup = Target(o)
      /\ \A i, j \in seen : i = j
  BY <1>1, <1>4, IdType
<1> HIDE DEF seen
<1> DEFINE u == [t EXCEPT !.at = "restore", !.seen = seen]
<1>6. /\ u \in Tx /\ u.job = t.job /\ u.at = "restore" /\ u.sup = t.sup /\ u.new = t.new
      /\ u.canonical = t.canonical /\ u.seen = seen /\ u.todo = t.todo
  BY <1>1, <1>5 DEF Tx, RevertPhases
<1>7. Step(o, u)
  BY <1>3 DEF seen
<1> HIDE DEF u
<1>8. Becomes(o, u.at, u.sup, u.new, u.canonical, u.seen, u.todo)
  BY <1>1, <1>6, <1>7, StepBecomes
<1>9. Becomes(o, "restore", t.sup, t.new, t.canonical, seen, t.todo)
  BY <1>6, <1>8
<1> QED
  BY <1>2, <1>5, <1>9

LEMMA RestoreEffect ==
    ASSUME TypeInv, NEW o \in Operators, RestorePrior(o)
    PROVE  LET t == tx[o]
               f == [i \in DOMAIN t.sup \cup t.seen |-> IF i \in t.seen THEN 0 ELSE t.sup[i]]
           IN  /\ Open(o) /\ t.at = "restore" /\ t.todo # <<>>
               /\ Becomes(o, "canonical", f, t.new, t.canonical, t.seen, t.todo)
<1> DEFINE t == tx[o]
           f == [i \in DOMAIN t.sup \cup t.seen |-> IF i \in t.seen THEN 0 ELSE t.sup[i]]
           u == [t EXCEPT !.at = "canonical", !.sup = f]
<1>1. /\ o \in Transactions /\ t \in Tx /\ t.seen \in SUBSET Ids
      /\ t.sup \in PartialFcn(Ids, Nat)
  BY TxFields DEF Transactions
<1>2. Open(o) /\ t.at = "restore" /\ t.todo # <<>> /\ Step(o, u)
  BY DEF RestorePrior, At
<1>3. f \in PartialFcn(Ids, Nat)
  BY <1>1, Overwrite
<1> HIDE DEF f
<1>4. /\ u \in Tx /\ u.job = t.job /\ u.at = "canonical" /\ u.sup = f /\ u.new = t.new
      /\ u.canonical = t.canonical /\ u.seen = t.seen /\ u.todo = t.todo
  BY <1>1, <1>3 DEF Tx, RevertPhases
<1> HIDE DEF u
<1>5. Becomes(o, u.at, u.sup, u.new, u.canonical, u.seen, u.todo)
  BY <1>1, <1>2, <1>4, StepBecomes
<1> QED
  BY <1>2, <1>4, <1>5 DEF f

LEMMA ShownType ==
    ASSUME TypeInv, NEW x \in Transactions, NEW k \in Keys
    PROVE  Shown(x, k) \in Show
BY TxFields, PartialFacts DEF Shown, TypeInv

LEMMA CanonicalEffect ==
    ASSUME TypeInv, NEW o \in Operators, RestoreCanonical(o)
    PROVE  LET t == tx[o]
           IN  /\ Open(o) /\ t.at = "canonical" /\ t.todo # <<>>
               /\ \E c \in Show :
                    /\ PutBack(o) = {} => c.deleted
                    /\ \A r \in PutBack(o) : (\A q \in PutBack(o) : q = r) =>
                          c = [event |-> r.event, deleted |-> r.deleted]
                    /\ Becomes(o, "take", t.sup, t.new, Write(t.canonical, This(o).key, c),
                               t.seen, t.todo)
<1> DEFINE t == tx[o]
           k == This(o).key
           newest == Highest(PutBack(o))
           c == IF newest = {} THEN [Shown(o, k) EXCEPT !.deleted = TRUE]
                ELSE LET r == CHOOSE r \in newest : TRUE
                     IN  [event |-> r.event, deleted |-> r.deleted]
           w == Write(t.canonical, k, c)
           u == [t EXCEPT !.at = "take", !.canonical = w]
<1>1. /\ o \in Transactions /\ t \in Tx /\ View(o) \in SUBSET Row
      /\ t.canonical \in PartialFcn(Keys, Show)
  BY TxFields, ViewType DEF Transactions
<1>2. Open(o) /\ t.at = "canonical" /\ t.todo # <<>>
  BY DEF RestoreCanonical, At
<1>3. Step(o, u)
  BY DEF RestoreCanonical, PutBack
<1>4. k \in Keys /\ Shown(o, k) \in Show
  BY <1>1, <1>2, OperatorThis, ShownType
<1>5. PutBack(o) \in SUBSET Row
  BY <1>1 DEF PutBack
<1>6. newest \in SUBSET Row
  BY <1>5 DEF Highest
<1>7. c \in Show
  <2>1. CASE newest = {}
    BY <1>4, <2>1 DEF Show
  <2>2. CASE newest # {}
    BY <1>6, <2>2 DEF Show, Row
  <2> QED
    BY <2>1, <2>2
<1>8. PutBack(o) = {} => c.deleted
  BY <1>4 DEF Highest, Show
<1>9. ASSUME NEW r \in PutBack(o), \A q \in PutBack(o) : q = r
      PROVE  c = [event |-> r.event, deleted |-> r.deleted]
  <2>1. r.event \in Nat
    BY <1>5 DEF Row
  <2>2. newest = {r}
    BY <1>9, <2>1 DEF Highest
  <2> QED
    BY <2>2
<1> HIDE DEF c
<1>10. w \in PartialFcn(Keys, Show)
  BY <1>1, <1>4, <1>7, WriteType
<1> HIDE DEF w
<1>11. /\ u \in Tx /\ u.job = t.job /\ u.at = "take" /\ u.sup = t.sup /\ u.new = t.new
       /\ u.canonical = w /\ u.seen = t.seen /\ u.todo = t.todo
  BY <1>1, <1>10 DEF Tx, RevertPhases
<1> HIDE DEF u
<1>12. Becomes(o, u.at, u.sup, u.new, u.canonical, u.seen, u.todo)
  BY <1>1, <1>3, <1>11, StepBecomes
<1>13. Becomes(o, "take", t.sup, t.new, w, t.seen, t.todo)
  BY <1>11, <1>12
<1> QED
  BY <1>2, <1>7, <1>8, <1>9, <1>13 DEF w

LEMMA TakeEffect ==
    ASSUME TypeInv, NEW o \in Operators, MarkReverted(o)
    PROVE  LET t == tx[o]
               f == [i \in DOMAIN t.sup \cup {This(o)} |->
                        IF i \in {This(o)} THEN t.job ELSE t.sup[i]]
           IN  /\ Open(o) /\ t.at = "take" /\ t.todo # <<>>
               /\ Becomes(o, "prior", f, t.new, t.canonical, {}, Tail(t.todo))
<1> DEFINE t == tx[o]
           f == [i \in DOMAIN t.sup \cup {This(o)} |->
                    IF i \in {This(o)} THEN t.job ELSE t.sup[i]]
           u == [t EXCEPT !.at = "prior", !.todo = Tail(@), !.seen = {}, !.sup = f]
<1>1. /\ o \in Transactions /\ t \in Tx /\ t.job \in Nat
      /\ t.sup \in PartialFcn(Ids, Nat) /\ t.todo \in Seq(Nat \cup Ids)
  BY TxFields DEF Transactions
<1>2. Open(o) /\ t.at = "take" /\ t.todo # <<>> /\ Step(o, u)
  BY DEF MarkReverted, At, TakeOut
<1>3. This(o) \in Ids /\ Tail(t.todo) \in Seq(Nat \cup Ids)
  BY <1>1, <1>2, OperatorThis, TodoFacts
<1>4. f \in PartialFcn(Ids, Nat)
  BY <1>1, <1>3, Overwrite
<1> HIDE DEF f
<1>5. /\ u \in Tx /\ u.job = t.job /\ u.at = "prior" /\ u.sup = f /\ u.new = t.new
      /\ u.canonical = t.canonical /\ u.seen = {} /\ u.todo = Tail(t.todo)
  BY <1>1, <1>3, <1>4 DEF Tx, RevertPhases
<1> HIDE DEF u
<1>6. Becomes(o, u.at, u.sup, u.new, u.canonical, u.seen, u.todo)
  BY <1>1, <1>2, <1>5, StepBecomes
<1> QED
  BY <1>2, <1>5, <1>6 DEF f

LEMMA NoTxType == NoTx \in Tx
<1>1. <<>> \in PartialFcn(Ids, Nat) /\ <<>> \in PartialFcn(Keys, Show)
  <2>1. <<>> \in [{} -> Nat] /\ <<>> \in [{} -> Show]
    OBVIOUS
  <2> QED
    BY <2>1 DEF PartialFcn
<1>2. <<>> \in Seq(Nat \cup Ids)
  BY EmptySeq
<1> QED
  BY <1>1, <1>2 DEF NoTx, Tx

LEMMA NoTxFields ==
    /\ NoTx.job = 0 /\ NoTx.at = "idle" /\ NoTx.todo = <<>>
    /\ DOMAIN NoTx.sup = {} /\ NoTx.new = {} /\ DOMAIN NoTx.canonical = {}
    /\ NoTx.seen = {}
BY DEF NoTx

LEMMA BeginEffect ==
    ASSUME TypeInv, NEW x \in Transactions, NEW t \in Tx, NEW kind \in {"page", "revert"},
           NEW from \in Nat, NEW target \in Nat, Begin(x, t, kind, from, target)
    PROVE  /\ tx' \in [Transactions -> Tx]
           /\ tx'[x].job = Len(jobs) + 1 /\ tx'[x].at = t.at /\ tx'[x].sup = t.sup
           /\ tx'[x].new = t.new /\ tx'[x].canonical = t.canonical
           /\ tx'[x].seen = t.seen /\ tx'[x].todo = t.todo
           /\ \A y \in Transactions \ {x} : tx'[y] = tx[y]
           /\ jobs' \in Seq(Job) /\ Len(jobs) \in Nat /\ Len(jobs') = Len(jobs) + 1
           /\ \A j \in 1..Len(jobs) : jobs'[j] = jobs[j]
           /\ jobs'[Len(jobs) + 1] =
                 [kind |-> kind, from |-> from, target |-> target, done |-> FALSE]
           /\ history' \in History
           /\ history'.tainted = history.tainted /\ history'.owed = history.owed
           /\ history'.retried = history.retried
           /\ history.raced \subseteq history'.raced
           /\ \A y \in Transactions \ {x} : Open(y) =>
                 x \in history'.raced /\ y \in history'.raced
<1> DEFINE j == Len(jobs) + 1
           row == [kind |-> kind, from |-> from, target |-> target, done |-> FALSE]
           others == {y \in Transactions \ {x} : Open(y)}
           raced == history.raced \cup (IF others = {} THEN {} ELSE {x} \cup others)
           u == [t EXCEPT !.job = j]
<1>1. jobs \in Seq(Job) /\ Len(jobs) \in Nat /\ row \in Job /\ history \in History
  BY LenProperties DEF TypeInv, Job
<1>2. /\ jobs' = Append(jobs, row) /\ tx' = [tx EXCEPT ![x] = u]
      /\ history' = [history EXCEPT !.raced = raced]
  BY DEF Begin
<1>3. /\ u \in Tx /\ u.job = j /\ u.at = t.at /\ u.sup = t.sup /\ u.new = t.new
      /\ u.canonical = t.canonical /\ u.seen = t.seen /\ u.todo = t.todo
  BY SMTT(30), <1>1 DEF Tx
<1>4. raced \in SUBSET Transactions /\ history.raced \subseteq raced
  BY <1>1 DEF History
<1>5. \A y \in Transactions \ {x} : Open(y) => x \in raced /\ y \in raced
  OBVIOUS
<1> HIDE DEF u, raced, row
<1>6. /\ tx' \in [Transactions -> Tx] /\ tx'[x] = u
      /\ \A y \in Transactions \ {x} : tx'[y] = tx[y]
  BY <1>2, <1>3 DEF TypeInv
<1>7. /\ jobs' \in Seq(Job) /\ Len(jobs') = Len(jobs) + 1
      /\ \A i \in 1..Len(jobs) : jobs'[i] = jobs[i]
      /\ jobs'[Len(jobs) + 1] = row
  BY <1>1, <1>2, AppendProperties
<1>8. /\ history' \in History /\ history'.raced = raced
      /\ history'.tainted = history.tainted /\ history'.owed = history.owed
      /\ history'.retried = history.retried
  BY <1>1, <1>2, <1>4 DEF History
<1> QED
  BY <1>1, <1>3, <1>4, <1>5, <1>6, <1>7, <1>8 DEF row

LEMMA PollEffect ==
    ASSUME TypeInv, Poll
    PROVE  /\ ~Open(Worker)
           /\ feed' = feed /\ rows' = rows /\ canonical' = canonical /\ cursor' = cursor
           /\ \E todo \in Seq(1..Len(feed)), target \in Nat :
                /\ \A m, n \in DOMAIN todo : m < n => todo[m] < todo[n]
                /\ \E t \in Tx :
                     /\ t.at = "dedup" /\ t.todo = todo
                     /\ DOMAIN t.sup = {} /\ t.new = {} /\ DOMAIN t.canonical = {}
                     /\ t.seen = {}
                     /\ Begin(Worker, t, "page", cursor, target)
<1> DEFINE to == PageEnd(cursor)
           todo == Events(cursor, to)
           t == [NoTx EXCEPT !.at = "dedup", !.todo = todo]
<1>1. ~Open(Worker) /\ cursor < Len(feed) /\ Begin(Worker, t, "page", cursor, to)
  BY DEF Poll, ReadCursor
<1>2. cursor \in Nat /\ Len(feed) \in Nat /\ PageSize \in Nat \ {0}
  BY LenProperties, RacesAssumption DEF TypeInv
<1>3. to \in Nat /\ cursor < to /\ to <= Len(feed)
  BY <1>1, <1>2 DEF PageEnd
<1>4. /\ todo \in [1..(to - cursor) -> 1..Len(feed)] /\ to - cursor \in Nat
      /\ \A m \in DOMAIN todo : todo[m] = cursor + m /\ m \in Nat
  BY <1>2, <1>3 DEF Events
<1> HIDE DEF todo, to
<1>5. todo \in Seq(1..Len(feed))
  BY <1>4, SeqDef
<1>6. todo \in Seq(Nat \cup Ids)
  <2>1. 1..Len(feed) \subseteq Nat \cup Ids
    BY <1>2
  <2> QED
    BY <1>5, <2>1, SeqMonotonic
<1>7. \A m, n \in DOMAIN todo : m < n => todo[m] < todo[n]
  BY <1>2, <1>4
<1>8. /\ t \in Tx /\ t.at = "dedup" /\ t.todo = todo
      /\ DOMAIN t.sup = {} /\ t.new = {} /\ DOMAIN t.canonical = {} /\ t.seen = {}
  BY <1>6, NoTxType, NoTxFields DEF Tx, PagePhases
<1> HIDE DEF t
<1> QED
  BY <1>1, <1>3, <1>5, <1>7, <1>8 DEF Poll

LEMMA BeginRevertEffect ==
    ASSUME TypeInv, NEW o \in Operators, NEW j \in 1..Len(jobs), BeginRevert(o, j)
    PROVE  /\ ~Open(o)
           /\ feed' = feed /\ rows' = rows /\ canonical' = canonical /\ cursor' = cursor
           /\ \E t \in Tx :
                /\ t.at = "select" /\ t.todo = <<>>
                /\ DOMAIN t.sup = {} /\ t.new = {} /\ DOMAIN t.canonical = {}
                /\ t.seen = {}
                /\ Begin(o, t, "revert", 0, j)
<1> DEFINE t == [NoTx EXCEPT !.at = "select"]
<1>1. /\ t \in Tx /\ t.at = "select" /\ t.todo = <<>>
      /\ DOMAIN t.sup = {} /\ t.new = {} /\ DOMAIN t.canonical = {} /\ t.seen = {}
  BY NoTxType, NoTxFields DEF Tx, RevertPhases
<1>2. Begin(o, t, "revert", 0, j) /\ ~Open(o)
  BY DEF BeginRevert
<1> HIDE DEF t
<1> QED
  BY <1>1, <1>2 DEF BeginRevert

LEMMA CommittedEffect ==
    ASSUME TypeInv, NEW x \in Transactions, tx[x].job \in 1..Len(jobs), Committed(x)
    PROVE  /\ rows' = View(x) /\ rows' \in SUBSET Row
           /\ canonical' \in [Keys -> Show]
           /\ \A k \in Keys : canonical'[k] = Shown(x, k)
           /\ jobs' \in Seq(Job) /\ Len(jobs') = Len(jobs)
           /\ \A j \in 1..Len(jobs) :
                 /\ jobs'[j].kind = jobs[j].kind /\ jobs'[j].from = jobs[j].from
                 /\ jobs'[j].target = jobs[j].target
                 /\ jobs'[j].done = (jobs[j].done \/ j = tx[x].job)
           /\ tx' \in [Transactions -> Tx] /\ tx'[x] = NoTx
           /\ \A y \in Transactions \ {x} : tx'[y] = tx[y]
<1> DEFINE i == tx[x].job
           row == [jobs[i] EXCEPT !.done = TRUE]
<1>1. jobs \in Seq(Job) /\ i \in 1..Len(jobs) /\ \A j \in 1..Len(jobs) : jobs[j] \in Job
  BY ElementOfSeq DEF TypeInv
<1>2. jobs' = [jobs EXCEPT ![i] = row]
  BY DEF Committed
<1>3. /\ row \in Job /\ row.kind = jobs[i].kind /\ row.from = jobs[i].from
      /\ row.target = jobs[i].target /\ row.done = TRUE
  BY <1>1 DEF Job
<1> HIDE DEF row
<1>4. /\ jobs' \in Seq(Job) /\ Len(jobs') = Len(jobs) /\ jobs'[i] = row
      /\ \A j \in 1..Len(jobs) \ {i} : jobs'[j] = jobs[j]
  BY <1>1, <1>2, <1>3, ExceptSeq
<1>5. \A j \in 1..Len(jobs) : jobs[j].done \in BOOLEAN
  BY <1>1 DEF Job
<1>6. \A j \in 1..Len(jobs) :
         /\ jobs'[j].kind = jobs[j].kind /\ jobs'[j].from = jobs[j].from
         /\ jobs'[j].target = jobs[j].target
         /\ jobs'[j].done = (jobs[j].done \/ j = i)
  <2> TAKE j \in 1..Len(jobs)
  <2>1. CASE j = i
    BY <1>3, <1>4, <2>1
  <2>2. CASE j # i
    BY <1>4, <1>5, <2>2
  <2> QED
    BY <2>1, <2>2
<1>7. canonical' = [k \in Keys |-> Shown(x, k)] /\ rows' = View(x)
  BY DEF Committed
<1>8. tx' \in [Transactions -> Tx] /\ tx'[x] = NoTx /\ \A y \in Transactions \ {x} : tx'[y] = tx[y]
  BY NoTxType DEF Committed, TypeInv
<1> QED
  BY <1>4, <1>6, <1>7, <1>8, ShownType, ViewType

-----------------------------------------------------------------------------
(* Types are kept.                                                         *)

LEMMA BecomesType ==
    ASSUME TypeInv, NEW x \in Transactions,
           NEW at, NEW sup, NEW new, NEW can, NEW seen, NEW todo,
           Becomes(x, at, sup, new, can, seen, todo),
           x = Worker => todo \in Seq(1..Len(feed)),
           x \in Operators => todo \in Seq(Ids)
    PROVE  TypeInv'
<1>1. /\ feed' = feed /\ rows' = rows /\ canonical' = canonical /\ cursor' = cursor
      /\ jobs' = jobs /\ history' = history /\ tx' \in [Transactions -> Tx]
      /\ tx'[x].todo = todo
      /\ \A y \in Transactions \ {x} : tx'[y] = tx[y]
  BY DEF Becomes
<1>2. tx'[Worker].todo \in Seq(1..Len(feed))
  BY <1>1 DEF TypeInv, Transactions
<1>3. \A o \in Operators : tx'[o].todo \in Seq(Ids)
  BY <1>1 DEF TypeInv, Transactions
<1> QED
  BY <1>1, <1>2, <1>3 DEF TypeInv

LEMMA PageStepType ==
    ASSUME TypeInv, Dedup \/ AimSupersede \/ Supersede \/ WriteEvent
    PROVE  TypeInv'
<1>1. Worker \in Transactions /\ Worker \notin Operators
  BY RacesAssumption DEF Transactions
<1>2. /\ tx[Worker].todo \in Seq(1..Len(feed))
      /\ tx[Worker].todo # <<>> => Tail(tx[Worker].todo) \in Seq(1..Len(feed))
  BY TodoFacts DEF TypeInv
<1>3. CASE Dedup
  BY <1>1, <1>2, <1>3, DedupEffect, BecomesType
<1>4. CASE AimSupersede
  BY <1>1, <1>2, <1>4, AimEffect, BecomesType
<1>5. CASE Supersede
  BY <1>1, <1>2, <1>5, SupersedeEffect, BecomesType
<1>6. CASE WriteEvent
  BY <1>1, <1>2, <1>6, WriteEffect, BecomesType
<1> QED
  BY <1>3, <1>4, <1>5, <1>6

LEMMA RevertStepType ==
    ASSUME TypeInv, NEW o \in Operators,
           \/ SelectLive(o) \/ FindPrior(o) \/ RestorePrior(o) \/ RestoreCanonical(o)
           \/ MarkReverted(o)
    PROVE  TypeInv'
<1>1. o \in Transactions /\ o # Worker
  BY RacesAssumption DEF Transactions
<1>2. /\ tx[o].todo \in Seq(Ids)
      /\ tx[o].todo # <<>> => Tail(tx[o].todo) \in Seq(Ids)
  BY TodoFacts DEF TypeInv
<1>3. CASE SelectLive(o)
  BY <1>1, <1>3, SelectEffect, BecomesType
<1>4. CASE FindPrior(o)
  BY <1>1, <1>2, <1>4, FindEffect, BecomesType
<1>5. CASE RestorePrior(o)
  BY <1>1, <1>2, <1>5, RestoreEffect, BecomesType
<1>6. CASE RestoreCanonical(o)
  <2>1. PICK c : Becomes(o, "take", tx[o].sup, tx[o].new,
                         Write(tx[o].canonical, This(o).key, c), tx[o].seen, tx[o].todo)
    BY <1>6, CanonicalEffect
  <2> QED
    BY <1>1, <1>2, <2>1, BecomesType
<1>7. CASE MarkReverted(o)
  BY <1>1, <1>2, <1>7, TakeEffect, BecomesType
<1> QED
  BY <1>3, <1>4, <1>5, <1>6, <1>7

LEMMA HistoryType ==
    ASSUME TypeInv
    PROVE  /\ history \in History /\ history.raced \in SUBSET Transactions
           /\ history.tainted \in SUBSET Keys /\ history.owed \in SUBSET Nat
           /\ history.retried \in BOOLEAN /\ history.retries \in Nat
BY DEF TypeInv, History

LEMMA TaintedType ==
    ASSUME TypeInv, NEW x \in Transactions
    PROVE  Tainted(x) \in SUBSET Keys
BY HistoryType, TxFields, PartialFacts DEF Tainted

LEMMA CommitPageEffect ==
    ASSUME TypeInv, JobInv, CommitPage
    PROVE  LET j == jobs[tx[Worker].job]
           IN  /\ Open(Worker) /\ tx[Worker].todo = <<>> /\ Committed(Worker)
               /\ tx[Worker].job \in 1..Len(jobs) /\ j \in Job
               /\ feed' = feed /\ cursor' = j.target
               /\ history' \in History
               /\ history'.tainted = Tainted(Worker)
               /\ history'.raced = history.raced \ {Worker}
               /\ history'.owed = IF history.retried THEN {p \in history.owed : p > j.target}
                                  ELSE history.owed \ ((j.from + 1)..j.target)
<1> DEFINE j == jobs[tx[Worker].job]
           owed == IF history.retried THEN {p \in history.owed : p > j.target}
                   ELSE history.owed \ ((j.from + 1)..j.target)
           raced == history.raced \ {Worker}
           h == [history EXCEPT !.tainted = Tainted(Worker), !.raced = raced,
                    !.retried = FALSE, !.owed = owed]
<1>1. Open(Worker) /\ tx[Worker].todo = <<>> /\ Worker \in Transactions
  BY DEF CommitPage, Transactions
<1>2. tx[Worker].job \in 1..Len(jobs) /\ j \in Job
  BY <1>1, ElementOfSeq DEF JobInv, TypeInv
<1>3. history' = h
  BY DEF CommitPage
<1>4. owed \in SUBSET Nat /\ raced \in SUBSET Transactions /\ Tainted(Worker) \in SUBSET Keys
  BY <1>1, HistoryType, TaintedType
<1> HIDE DEF owed, raced
<1>5. /\ h \in History /\ h.tainted = Tainted(Worker) /\ h.raced = raced /\ h.owed = owed
  BY <1>4, HistoryType DEF History
<1> QED
  BY <1>1, <1>2, <1>3, <1>5 DEF CommitPage, owed, raced

LEMMA CommitRevertEffect ==
    ASSUME TypeInv, JobInv, NEW o \in Operators, CommitRevert(o)
    PROVE  /\ Open(o) /\ tx[o].todo = <<>> /\ tx[o].at # "select" /\ Committed(o)
           /\ tx[o].job \in 1..Len(jobs)
           /\ feed' = feed /\ cursor' = cursor
           /\ history' \in History
           /\ history'.tainted = Tainted(o)
           /\ history'.raced = history.raced \ {o}
           /\ history'.owed = history.owed /\ history'.retried = history.retried
<1> DEFINE raced == history.raced \ {o}
           h == [history EXCEPT !.tainted = Tainted(o), !.raced = raced]
<1>1. Open(o) /\ o \in Transactions
  BY DEF CommitRevert, Transactions
<1>2. history' = h
  BY DEF CommitRevert
<1>3. raced \in SUBSET Transactions /\ Tainted(o) \in SUBSET Keys
  BY <1>1, HistoryType, TaintedType
<1> HIDE DEF raced
<1>4. /\ h \in History /\ h.tainted = Tainted(o) /\ h.raced = raced
      /\ h.owed = history.owed /\ h.retried = history.retried
  BY <1>3, HistoryType DEF History
<1> QED
  BY <1>1, <1>2, <1>4 DEF CommitRevert, raced, JobInv

LEMMA RetryEffect ==
    ASSUME TypeInv, NEW j \in 1..Len(jobs), Retry(j)
    PROVE  /\ UNCHANGED <<feed, rows, canonical, jobs, tx>>
           /\ jobs[j] \in Job /\ cursor' = jobs[j].from
           /\ history' \in History
           /\ history'.tainted = history.tainted /\ history'.raced = history.raced
           /\ history'.retried = Open(Worker)
           /\ history'.owed = {p \in history.owed : p > jobs[j].from}
                              \cup ((jobs[j].from + 1)..jobs[j].target)
<1> DEFINE owed == {p \in history.owed : p > jobs[j].from}
                   \cup ((jobs[j].from + 1)..jobs[j].target)
           open == Open(Worker)
           count == history.retries + 1
           h == [history EXCEPT !.retries = count, !.retried = open, !.owed = owed]
<1>0. jobs[j] \in Job
  BY ElementOfSeq DEF TypeInv
<1>1. jobs[j].from \in Nat /\ jobs[j].target \in Nat
  BY <1>0 DEF Job
<1>2. history' = h
  BY DEF Retry
<1>3. owed \in SUBSET Nat /\ open \in BOOLEAN /\ count \in Nat
  BY <1>1, HistoryType DEF Open
<1> HIDE DEF owed, open, count
<1>4. /\ h \in History /\ h.tainted = history.tainted /\ h.raced = history.raced
      /\ h.owed = owed /\ h.retried = open
  BY <1>3, HistoryType DEF History
<1> QED
  BY <1>0, <1>2, <1>4 DEF Retry, owed, open

LEMMA RollbackEffect ==
    ASSUME TypeInv, NEW x \in Transactions, Rollback(x)
    PROVE  /\ UNCHANGED <<feed, rows, canonical, cursor, jobs>>
           /\ tx' \in [Transactions -> Tx] /\ tx'[x] = NoTx
           /\ \A y \in Transactions \ {x} : tx'[y] = tx[y]
           /\ history' \in History
           /\ history'.tainted = history.tainted /\ history'.owed = history.owed
           /\ history'.raced = history.raced \ {x}
           /\ history'.retried = (history.retried /\ x # Worker)
<1> DEFINE raced == history.raced \ {x}
           h == [history EXCEPT !.raced = raced, !.retried = @ /\ x # Worker]
<1>1. history' = h
  BY DEF Rollback
<1>2. raced \in SUBSET Transactions /\ (history.retried /\ x # Worker) \in BOOLEAN
  BY HistoryType
<1> HIDE DEF raced
<1>3. /\ h \in History /\ h.tainted = history.tainted /\ h.raced = raced
      /\ h.owed = history.owed /\ h.retried = (history.retried /\ x # Worker)
  BY <1>2, HistoryType DEF History
<1>4. /\ tx' \in [Transactions -> Tx] /\ tx'[x] = NoTx
      /\ \A y \in Transactions \ {x} : tx'[y] = tx[y]
  BY NoTxType DEF Rollback, TypeInv
<1> QED
  BY <1>1, <1>3, <1>4 DEF Rollback, raced

\* A transaction that has ended has nothing left to do.
LEMMA ClosedType ==
    ASSUME TypeInv, NEW x \in Transactions, feed' = feed, tx' \in [Transactions -> Tx],
           tx'[x] = NoTx, \A y \in Transactions \ {x} : tx'[y] = tx[y]
    PROVE  /\ tx'[Worker].todo \in Seq(1..Len(feed))
           /\ \A o \in Operators : tx'[o].todo \in Seq(Ids)
<1>1. NoTx.todo \in Seq(1..Len(feed)) /\ NoTx.todo \in Seq(Ids)
  BY NoTxFields, EmptySeq
<1> QED
  BY <1>1 DEF TypeInv, Transactions

LEMMA TypeStep ==
    ASSUME TypeInv, JobInv, [Next]_vars
    PROVE  TypeInv'
<1>1. Worker \in Transactions /\ Worker \notin Operators /\ Operators \subseteq Transactions
  BY RacesAssumption DEF Transactions
<1>2. ASSUME NEW x \in Transactions, NEW t \in Tx, NEW kind \in {"page", "revert"},
             NEW from \in Nat, NEW target \in Nat, Begin(x, t, kind, from, target),
             UNCHANGED <<feed, rows, canonical, cursor>>,
             x = Worker => t.todo \in Seq(1..Len(feed)),
             x \in Operators => t.todo \in Seq(Ids)
      PROVE  TypeInv'
  <2>1. /\ tx' \in [Transactions -> Tx] /\ tx'[x].todo = t.todo
        /\ \A y \in Transactions \ {x} : tx'[y] = tx[y]
        /\ jobs' \in Seq(Job) /\ history' \in History
    BY ZenonT(30), <1>2, BeginEffect
  <2>2. tx'[Worker].todo \in Seq(1..Len(feed)) /\ \A o \in Operators : tx'[o].todo \in Seq(Ids)
    BY <1>1, <1>2, <2>1 DEF TypeInv
  <2> QED
    BY <1>2, <2>1, <2>2 DEF TypeInv
<1>3. CASE Poll
  <2>1. /\ ~Open(Worker) /\ UNCHANGED <<feed, rows, canonical, cursor>>
        /\ \E todo \in Seq(1..Len(feed)), target \in Nat :
             \E t \in Tx : t.todo = todo /\ Begin(Worker, t, "page", cursor, target)
    BY <1>3, PollEffect
  <2>2. PICK target \in Nat, t \in Tx : /\ t.todo \in Seq(1..Len(feed))
                                        /\ Begin(Worker, t, "page", cursor, target)
    BY <2>1
  <2> QED
    BY <1>1, <1>2, <2>1, <2>2 DEF TypeInv
<1>4. CASE CommitPage
  <2>1. /\ feed' = feed /\ cursor' = jobs[tx[Worker].job].target /\ history' \in History
        /\ tx[Worker].job \in 1..Len(jobs) /\ Committed(Worker)
        /\ jobs[tx[Worker].job] \in Job
    BY <1>4, CommitPageEffect
  <2>2. /\ rows' \in SUBSET Row /\ canonical' \in [Keys -> Show] /\ jobs' \in Seq(Job)
        /\ tx' \in [Transactions -> Tx] /\ tx'[Worker] = NoTx
        /\ \A y \in Transactions \ {Worker} : tx'[y] = tx[y]
    BY <1>1, <2>1, CommittedEffect
  <2>3. cursor' \in Nat
    BY <2>1 DEF Job
  <2> QED
    BY <1>1, <2>1, <2>2, <2>3, ClosedType DEF TypeInv
<1>5. ASSUME NEW o \in Operators, RevertStep(o)
      PROVE  TypeInv'
  <2>1. ASSUME NEW j \in 1..Len(jobs), BeginRevert(o, j)
        PROVE  TypeInv'
    <3>1. /\ UNCHANGED <<feed, rows, canonical, cursor>>
          /\ \E t \in Tx : t.todo = <<>> /\ Begin(o, t, "revert", 0, j)
      BY <2>1, BeginRevertEffect
    <3>2. PICK t \in Tx : t.todo \in Seq(Ids) /\ Begin(o, t, "revert", 0, j)
      BY <3>1, EmptySeq
    <3>3. j \in Nat /\ 0 \in Nat /\ o # Worker /\ o \in Transactions
      BY <1>1
    <3> QED
      BY <1>2, <3>1, <3>2, <3>3
  <2>2. CASE CommitRevert(o)
    <3>1. /\ feed' = feed /\ cursor' = cursor /\ history' \in History
          /\ tx[o].job \in 1..Len(jobs) /\ Committed(o)
      BY <2>2, CommitRevertEffect
    <3>2. /\ rows' \in SUBSET Row /\ canonical' \in [Keys -> Show] /\ jobs' \in Seq(Job)
          /\ tx' \in [Transactions -> Tx] /\ tx'[o] = NoTx
          /\ \A y \in Transactions \ {o} : tx'[y] = tx[y]
      BY <1>1, <3>1, CommittedEffect
    <3> QED
      BY <1>1, <3>1, <3>2, ClosedType DEF TypeInv
  <2> QED
    BY <1>5, <2>1, <2>2, RevertStepType DEF RevertStep
<1>6. ASSUME NEW j \in 1..Len(jobs), Retry(j)
      PROVE  TypeInv'
  <2>1. jobs[j].from \in Nat
    BY <1>6, RetryEffect DEF Job
  <2> QED
    BY <1>6, <2>1, RetryEffect DEF TypeInv
<1>7. ASSUME NEW x \in Transactions, Rollback(x)
      PROVE  TypeInv'
  BY <1>7, RollbackEffect, ClosedType DEF TypeInv
<1>8. CASE UNCHANGED vars
  BY <1>8 DEF vars, TypeInv
<1> QED
  BY <1>3, <1>4, <1>5, <1>6, <1>7, <1>8, PageStepType DEF Next, PageStep

-----------------------------------------------------------------------------
(* Steps by what they do to the transactions: a statement, a begin, an end. *)

\* A statement of x: its transaction goes on, nothing is committed.
Moves(x) ==
    /\ Open(x)
    /\ tx' \in [Transactions -> Tx]
    /\ tx'[x].job = tx[x].job
    /\ x = Worker => tx'[x].at \in PagePhases
    /\ x # Worker => tx'[x].at \in RevertPhases \ {"select"} /\ tx'[x].new = tx[x].new
    /\ \A y \in Transactions \ {x} : tx'[y] = tx[y]
    /\ UNCHANGED <<feed, rows, canonical, cursor, jobs, history>>

\* x begins a job of the kind it runs.
Begins(x) ==
    LET n == Len(jobs) + 1
    IN  /\ ~Open(x)
        /\ UNCHANGED <<feed, rows, canonical, cursor>>
        /\ tx' \in [Transactions -> Tx]
        /\ tx'[x].job = n /\ DOMAIN tx'[x].sup = {} /\ tx'[x].new = {}
        /\ DOMAIN tx'[x].canonical = {} /\ tx'[x].seen = {}
        /\ \A y \in Transactions \ {x} : tx'[y] = tx[y]
        /\ Len(jobs) \in Nat /\ Len(jobs') = n
        /\ \A j \in 1..Len(jobs) : jobs'[j] = jobs[j]
        /\ ~jobs'[n].done
        /\ x = Worker =>
             /\ tx'[x].at = "dedup"
             /\ \A a, b \in DOMAIN tx'[x].todo : a < b => tx'[x].todo[a] < tx'[x].todo[b]
             /\ jobs'[n].kind = "page" /\ jobs'[n].from = cursor
        /\ x # Worker =>
             /\ tx'[x].at = "select" /\ tx'[x].todo = <<>>
             /\ jobs'[n].kind = "revert" /\ jobs'[n].target \in 1..Len(jobs)
        /\ history'.tainted = history.tainted /\ history'.owed = history.owed
        /\ history'.retried = history.retried
        /\ history.raced \subseteq history'.raced
        /\ \A y \in Transactions \ {x} : Open(y) =>
              x \in history'.raced /\ y \in history'.raced

\* x commits.
Commits(x) ==
    /\ Open(x) /\ tx[x].todo = <<>>
    /\ tx[x].job \in 1..Len(jobs)
    /\ x # Worker => tx[x].at # "select"
    /\ feed' = feed
    /\ rows' = View(x)
    /\ canonical' \in [Keys -> Show]
    /\ \A k \in Keys : canonical'[k] = Shown(x, k)
    /\ Len(jobs') = Len(jobs)
    /\ \A j \in 1..Len(jobs) :
          /\ jobs'[j].kind = jobs[j].kind /\ jobs'[j].from = jobs[j].from
          /\ jobs'[j].target = jobs[j].target
          /\ jobs'[j].done = (jobs[j].done \/ j = tx[x].job)
    /\ tx' \in [Transactions -> Tx] /\ tx'[x] = NoTx
    /\ \A y \in Transactions \ {x} : tx'[y] = tx[y]
    /\ history'.tainted = Tainted(x) /\ history'.raced = history.raced \ {x}

\* x is rolled back, or nothing happens to the transactions and the rows.
Stays(x) ==
    /\ UNCHANGED <<feed, rows, canonical, jobs>>
    /\ tx' \in [Transactions -> Tx]
    /\ \A y \in Transactions \ {x} : tx'[y] = tx[y]
    /\ \/ tx'[x] = NoTx /\ history'.raced = history.raced \ {x}
       \/ tx'[x] = tx[x] /\ history'.raced = history.raced
    /\ history'.tainted = history.tainted

LEMMA PageMoves ==
    ASSUME TypeInv, Dedup \/ AimSupersede \/ Supersede \/ WriteEvent
    PROVE  Moves(Worker)
<1>1. CASE Dedup
  BY <1>1, DedupEffect DEF Moves, Becomes, PagePhases
<1>2. CASE AimSupersede
  BY <1>2, AimEffect DEF Moves, Becomes, PagePhases
<1>3. CASE Supersede
  BY <1>3, SupersedeEffect DEF Moves, Becomes, PagePhases
<1>4. CASE WriteEvent
  BY <1>4, WriteEffect DEF Moves, Becomes, PagePhases
<1> QED
  BY <1>1, <1>2, <1>3, <1>4

LEMMA RevertMoves ==
    ASSUME TypeInv, NEW o \in Operators,
           \/ SelectLive(o) \/ FindPrior(o) \/ RestorePrior(o) \/ RestoreCanonical(o)
           \/ MarkReverted(o)
    PROVE  Moves(o)
<1>0. o # Worker
  BY RacesAssumption
<1>1. CASE SelectLive(o)
  BY <1>0, <1>1, SelectEffect DEF Moves, Becomes, RevertPhases
<1>2. CASE FindPrior(o)
  BY <1>0, <1>2, FindEffect DEF Moves, Becomes, RevertPhases
<1>3. CASE RestorePrior(o)
  BY <1>0, <1>3, RestoreEffect DEF Moves, Becomes, RevertPhases
<1>4. CASE RestoreCanonical(o)
  BY <1>0, <1>4, CanonicalEffect DEF Moves, Becomes, RevertPhases
<1>5. CASE MarkReverted(o)
  BY <1>0, <1>5, TakeEffect DEF Moves, Becomes, RevertPhases
<1> QED
  BY <1>1, <1>2, <1>3, <1>4, <1>5

LEMMA PollBegins ==
    ASSUME TypeInv, Poll
    PROVE  Begins(Worker)
<1>1. PICK target \in Nat, t \in Tx :
         /\ t.at = "dedup"
         /\ \A m, n \in DOMAIN t.todo : m < n => t.todo[m] < t.todo[n]
         /\ DOMAIN t.sup = {} /\ t.new = {} /\ DOMAIN t.canonical = {} /\ t.seen = {}
         /\ Begin(Worker, t, "page", cursor, target)
  BY PollEffect
<1>2. cursor \in Nat /\ Worker \in Transactions
  BY DEF TypeInv, Transactions
<1>3. ~Open(Worker) /\ UNCHANGED <<feed, rows, canonical, cursor>>
  BY PollEffect
<1>4. jobs'[Len(jobs) + 1] =
         [kind |-> "page", from |-> cursor, target |-> target, done |-> FALSE]
  BY <1>1, <1>2, BeginEffect
<1>5. /\ ~jobs'[Len(jobs) + 1].done /\ jobs'[Len(jobs) + 1].kind = "page"
      /\ jobs'[Len(jobs) + 1].from = cursor
  BY <1>4
<1> QED
  BY ZenonT(30), <1>1, <1>2, <1>3, <1>5, BeginEffect DEF Begins

LEMMA RevertBegins ==
    ASSUME TypeInv, NEW o \in Operators, NEW j \in 1..Len(jobs), BeginRevert(o, j)
    PROVE  Begins(o)
<1>1. PICK t \in Tx :
         /\ t.at = "select" /\ t.todo = <<>>
         /\ DOMAIN t.sup = {} /\ t.new = {} /\ DOMAIN t.canonical = {} /\ t.seen = {}
         /\ Begin(o, t, "revert", 0, j)
  BY BeginRevertEffect
<1>2. o \in Transactions /\ o # Worker /\ j \in Nat
  BY RacesAssumption DEF Transactions
<1>3. /\ ~Open(o) /\ UNCHANGED <<feed, rows, canonical, cursor>>
  BY BeginRevertEffect
<1>4. jobs'[Len(jobs) + 1] = [kind |-> "revert", from |-> 0, target |-> j, done |-> FALSE]
  BY <1>1, <1>2, BeginEffect
<1>5. /\ ~jobs'[Len(jobs) + 1].done /\ jobs'[Len(jobs) + 1].kind = "revert"
      /\ jobs'[Len(jobs) + 1].target \in 1..Len(jobs)
  BY <1>4
<1> QED
  BY <1>1, <1>2, <1>3, <1>5, BeginEffect DEF Begins

LEMMA PageCommits ==
    ASSUME TypeInv, JobInv, CommitPage
    PROVE  Commits(Worker)
BY CommitPageEffect, CommittedEffect DEF Commits, Transactions

LEMMA RevertCommits ==
    ASSUME TypeInv, JobInv, NEW o \in Operators, CommitRevert(o)
    PROVE  Commits(o)
BY CommitRevertEffect, CommittedEffect DEF Commits, Transactions

LEMMA OtherStays ==
    ASSUME TypeInv, NEW x \in Transactions,
           Rollback(x) \/ (\E j \in 1..Len(jobs) : Retry(j)) \/ UNCHANGED vars
    PROVE  Stays(x)
<1>1. CASE Rollback(x)
  BY <1>1, RollbackEffect DEF Stays
<1>2. CASE \E j \in 1..Len(jobs) : Retry(j)
  <2>1. /\ UNCHANGED <<feed, rows, canonical, jobs, tx>>
        /\ history'.tainted = history.tainted /\ history'.raced = history.raced
    BY <1>2, RetryEffect
  <2> QED
    BY <2>1 DEF Stays, TypeInv
<1>3. CASE UNCHANGED vars
  BY <1>3 DEF Stays, vars, TypeInv
<1> QED
  BY <1>1, <1>2, <1>3

LEMMA StepKinds ==
    ASSUME TypeInv, JobInv, [Next]_vars
    PROVE  \E x \in Transactions : Moves(x) \/ Begins(x) \/ Commits(x) \/ Stays(x)
<1>1. Worker \in Transactions /\ Operators \subseteq Transactions
  BY DEF Transactions
<1>2. CASE PageStep
  BY <1>1, <1>2, PageMoves, PollBegins, PageCommits DEF PageStep
<1>3. CASE \E o \in Operators : RevertStep(o)
  BY <1>1, <1>3, RevertMoves, RevertBegins, RevertCommits DEF RevertStep
<1>4. CASE \/ \E j \in 1..Len(jobs) : Retry(j)
           \/ \E x \in Transactions : Rollback(x)
           \/ UNCHANGED vars
  BY <1>1, <1>4, OtherStays
<1> QED
  BY <1>2, <1>3, <1>4 DEF Next

-----------------------------------------------------------------------------
(* Jobs.                                                                   *)

LEMMA JobStep ==
    ASSUME TypeInv, JobInv, [Next]_vars
    PROVE  JobInv'
<1>1. PICK x \in Transactions : Moves(x) \/ Begins(x) \/ Commits(x) \/ Stays(x)
  BY StepKinds
<1>2. jobs \in Seq(Job) /\ Len(jobs) \in Nat
  BY LenProperties DEF TypeInv
<1>3. NoTx.job = 0
  BY NoTxFields
<1>4. CASE Moves(x)
  BY <1>4 DEF Moves, JobInv, Open, Target
<1>5. CASE Begins(x)
  BY SMTT(30), <1>2, <1>5 DEF Begins, JobInv, Open, Target, PagePhases, RevertPhases
<1>6. ASSUME Commits(x) \/ Stays(x), NEW y \in Transactions
      PROVE  IF Open(y)'
             THEN /\ tx'[y].job \in 1..Len(jobs')
                  /\ ~jobs'[tx'[y].job].done
                  /\ \A z \in Transactions \ {y} : tx'[z].job # tx'[y].job
                  /\ y = Worker => /\ jobs'[tx'[y].job].kind = "page"
                                   /\ tx'[y].at \in PagePhases
                  /\ y # Worker => /\ jobs'[tx'[y].job].kind = "revert"
                                   /\ tx'[y].at \in RevertPhases
                                   /\ Target(y)' # 0
             ELSE tx'[y] = NoTx
  <2>1. /\ \A z \in Transactions : tx'[z] = tx[z] \/ tx'[z] = NoTx
        /\ \A z \in Transactions \ {x} : tx'[z] = tx[z]
    BY <1>6 DEF Commits, Stays
  <2>2. CASE tx'[y] = NoTx
    BY <1>3, <2>2 DEF Open
  <2>3. CASE tx'[y] = tx[y] /\ ~Open(y)
    BY <2>3 DEF Open, JobInv
  <2>4. CASE tx'[y] = tx[y] /\ Open(y) /\ tx'[y] # NoTx
    <3> DEFINE j == tx[y].job
    <3>1. /\ j \in 1..Len(jobs) /\ ~jobs[j].done /\ j # 0
          /\ \A z \in Transactions \ {y} : tx[z].job # j
          /\ y = Worker => jobs[j].kind = "page" /\ tx[y].at \in PagePhases
          /\ y # Worker => /\ jobs[j].kind = "revert" /\ tx[y].at \in RevertPhases
                           /\ jobs[j].target # 0
      BY <2>4 DEF JobInv, Open, Target
    <3>2. \A z \in Transactions \ {y} : tx'[z].job # j
      BY <1>3, <2>1, <3>1
    <3>3. /\ j \in 1..Len(jobs') /\ ~jobs'[j].done /\ jobs'[j].kind = jobs[j].kind
          /\ jobs'[j].target = jobs[j].target
      <4>1. CASE Stays(x)
        BY <3>1, <4>1 DEF Stays
      <4>2. CASE Commits(x)
        <5>1. x # y
          BY <2>4, <4>2 DEF Commits
        <5>2. j # tx[x].job
          BY <3>1, <5>1
        <5> QED
          BY <3>1, <4>2, <5>2 DEF Commits
      <4> QED
        BY <1>6, <4>1, <4>2
    <3> QED
      BY <2>4, <3>1, <3>2, <3>3 DEF Open, Target
  <2> QED
    BY <2>1, <2>2, <2>3, <2>4
<1>7. CASE Commits(x) \/ Stays(x)
  BY <1>6, <1>7 DEF JobInv
<1> QED
  BY <1>1, <1>4, <1>5, <1>7

-----------------------------------------------------------------------------
(* Rows as a transaction sees them.                                        *)

\* Row r with the superseded_by that f has written over it.
Marked(f, r) == IF Id(r) \in DOMAIN f THEN [r EXCEPT !.sup = f[Id(r)]] ELSE r

Base(x) == rows \cup tx[x].new

LEMMA ViewIs == ASSUME NEW x PROVE View(x) = {Marked(tx[x].sup, r) : r \in Base(x)}
BY DEF View, Marked, Base

LEMMA MarkedFacts ==
    ASSUME NEW f \in PartialFcn(Ids, Nat), NEW r \in Row
    PROVE  /\ Marked(f, r) \in Row
           /\ Id(Marked(f, r)) = Id(r) /\ Id(r) \in Ids
           /\ Marked(f, r).key = r.key /\ Marked(f, r).gen = r.gen
           /\ Marked(f, r).event = r.event /\ Marked(f, r).deleted = r.deleted
           /\ Id(r) \in DOMAIN f => Marked(f, r).sup = f[Id(r)]
           /\ Id(r) \notin DOMAIN f => Marked(f, r) = r
           /\ Id(r).gen = r.gen /\ Id(r).event = r.event /\ Id(r).key = r.key
<1>1. CASE Id(r) \in DOMAIN f
  <2>1. f[Id(r)] \in Nat
    BY <1>1, PartialFacts
  <2>2. Marked(f, r) = [r EXCEPT !.sup = f[Id(r)]]
    BY <1>1 DEF Marked
  <2> QED
    BY <1>1, <2>1, <2>2, IdType DEF Row, Id
<1>2. CASE Id(r) \notin DOMAIN f
  BY <1>2, IdType DEF Marked
<1> QED
  BY <1>1, <1>2

LEMMA BaseType ==
    ASSUME TypeInv, NEW x \in Transactions
    PROVE  Base(x) \in SUBSET Row /\ tx[x].sup \in PartialFcn(Ids, Nat)
BY TxFields DEF TypeInv, Base

\* No two of the rows have one id.
Unique(S) == \A q, r \in S : Id(q) = Id(r) => q = r

LEMMA ViewUnique ==
    ASSUME TypeInv, RowInv, NEW x \in Transactions
    PROVE  Unique(View(x)) /\ Unique(Base(x)) /\ (x # Worker => Base(x) = rows)
<1>1. Unique(Base(x)) /\ (x # Worker => Base(x) = rows)
  BY DEF RowInv, Base, Unique, Transactions
<1>2. ASSUME NEW q \in Base(x), NEW r \in Base(x),
             Id(Marked(tx[x].sup, q)) = Id(Marked(tx[x].sup, r))
      PROVE  q = r
  <2>1. q \in Row /\ r \in Row
    BY BaseType
  <2>2. Id(q) = Id(r)
    BY <1>2, <2>1, BaseType, MarkedFacts
  <2> QED
    BY <1>1, <2>2 DEF Unique
<1> QED
  BY <1>1, <1>2, ViewIs DEF Unique

\* Every row seen is a row that is there, and the other way about.
LEMMA ViewFacts ==
    ASSUME TypeInv, NEW x \in Transactions
    PROVE  /\ View(x) \in SUBSET Row
           /\ \A v \in View(x) : \E r \in Base(x) :
                 v = Marked(tx[x].sup, r) /\ Id(v) = Id(r) /\ v.gen = r.gen /\ r \in Row
           /\ \A r \in Base(x) : \E v \in View(x) :
                 v = Marked(tx[x].sup, r) /\ Id(v) = Id(r) /\ v.gen = r.gen /\ v \in Row
<1>1. \A r \in Base(x) :
         /\ Marked(tx[x].sup, r) \in View(x) /\ r \in Row
         /\ Id(Marked(tx[x].sup, r)) = Id(r) /\ Marked(tx[x].sup, r).gen = r.gen
  <2> TAKE r \in Base(x)
  <2>1. r \in Row /\ tx[x].sup \in PartialFcn(Ids, Nat)
    BY BaseType
  <2> QED
    BY <2>1, MarkedFacts, ViewIs
<1> QED
  BY <1>1, ViewIs, ViewType

-----------------------------------------------------------------------------
(* Rows.                                                                   *)

\* What a statement of the page inserts has an id that no row has.
LEMMA MoveNew ==
    ASSUME TypeInv, JobInv, RowInv, PageOrderInv,
           Dedup \/ AimSupersede \/ Supersede \/ WriteEvent
    PROVE  \/ tx'[Worker].new = tx[Worker].new
           \/ /\ tx'[Worker].new = tx[Worker].new \cup {NewRow}
              /\ NewRow \in Row /\ NewRow.gen = tx[Worker].job /\ NewRow.sup = 0
              /\ \A r \in Base(Worker) : Id(r) # Id(NewRow)
<1>1. CASE Dedup \/ AimSupersede \/ Supersede
  BY <1>1, DedupEffect, AimEffect, SupersedeEffect DEF Becomes
<1>2. CASE WriteEvent
  <2>1. /\ tx'[Worker].new = tx[Worker].new \cup {NewRow} /\ NewRow \in Row
        /\ Open(Worker) /\ tx[Worker].todo # <<>>
    BY <1>2, WriteEffect DEF Becomes
  <2>2. NewRow.gen = tx[Worker].job /\ NewRow.sup = 0 /\ NewRow.event = This(Worker)
    BY DEF NewRow
  <2>3. Worker \in Transactions /\ ~jobs[tx[Worker].job].done
    BY <2>1 DEF JobInv, Transactions
  <2>4. This(Worker) = tx[Worker].todo[1] /\ 1 \in DOMAIN tx[Worker].todo
    BY <2>1, TodoFacts DEF TypeInv, This
  <2>5. ASSUME NEW r \in Base(Worker)
        PROVE  Id(r) # Id(NewRow)
    <3>1. r \in Row /\ This(Worker) \in Nat
      BY <2>1, <2>3, BaseType, WorkerThis
    <3>2. Id(r).gen = r.gen /\ Id(r).event = r.event
      BY <3>1, IdType
    <3>3. Id(NewRow).gen = tx[Worker].job /\ Id(NewRow).event = This(Worker)
      BY <2>1, <2>2, IdType
    <3>4. CASE r \in rows
      BY <2>3, <3>2, <3>3, <3>4 DEF RowInv
    <3>5. CASE r \in tx[Worker].new
      <4>1. r.event < This(Worker) /\ r.event \in Nat
        BY <2>4, <3>1, <3>5 DEF PageOrderInv, Row
      <4> QED
        BY <3>1, <3>2, <3>3, <4>1
    <3> QED
      BY <3>4, <3>5 DEF Base
  <2> QED
    BY <2>1, <2>2, <2>5
<1> QED
  BY <1>1, <1>2

LEMMA RowKept ==
    ASSUME TypeInv, JobInv, RowInv, NEW x \in Transactions, Begins(x) \/ Commits(x) \/ Stays(x)
    PROVE  RowInv'
<1>0. Worker \in Transactions /\ NoTx.new = {} /\ NoTx.job = 0
  BY NoTxFields DEF Transactions
<1>1. jobs \in Seq(Job) /\ Len(jobs) \in Nat
  BY LenProperties DEF TypeInv
<1>2. CASE Begins(x)
  <2>1. /\ rows' = rows
        /\ \A j \in 1..Len(jobs) : jobs'[j] = jobs[j]
        /\ Len(jobs') = Len(jobs) + 1
        /\ tx'[Worker] = tx[Worker] \/ tx'[Worker].new = {}
        /\ \A o \in Operators : tx'[o].new = tx[o].new \/ tx'[o].new = {}
    BY <1>0, <1>2 DEF Begins, Transactions
  <2>2. /\ \A r \in rows' : r.gen \in 1..Len(jobs') /\ jobs'[r.gen].done
        /\ \A r \in tx'[Worker].new : r.gen = tx'[Worker].job /\ r.sup = 0
    BY <1>1, <2>1 DEF RowInv
  <2>3. \A r, s \in rows' \cup tx'[Worker].new : Id(r) = Id(s) => r = s
    BY <2>1 DEF RowInv
  <2> QED
    BY <2>1, <2>2, <2>3 DEF RowInv, Id
<1>3. CASE Stays(x)
  <2>1. /\ rows' = rows /\ jobs' = jobs
        /\ \A y \in Transactions : tx'[y] = tx[y] \/ tx'[y] = NoTx
    BY <1>3 DEF Stays
  <2>2. \A r \in tx'[Worker].new : r.gen = tx'[Worker].job /\ r.sup = 0
    BY <1>0, <2>1 DEF RowInv
  <2>3. \A r, s \in rows' \cup tx'[Worker].new : Id(r) = Id(s) => r = s
    BY <1>0, <2>1 DEF RowInv
  <2>4. \A o \in Operators : tx'[o].new = {}
    BY <1>0, <2>1 DEF RowInv, Transactions
  <2> QED
    BY <2>1, <2>2, <2>3, <2>4 DEF RowInv, Id
<1>4. CASE Commits(x)
  <2>1. /\ rows' = View(x) /\ tx'[x] = NoTx /\ Len(jobs') = Len(jobs)
        /\ \A y \in Transactions \ {x} : tx'[y] = tx[y]
        /\ \A j \in 1..Len(jobs) : jobs'[j].done = (jobs[j].done \/ j = tx[x].job)
        /\ tx[x].job \in 1..Len(jobs) /\ Open(x)
    BY <1>4 DEF Commits
  <2>2. \A r \in Base(x) : r.gen \in 1..Len(jobs) /\ (jobs[r.gen].done \/ r.gen = tx[x].job)
    BY <2>1 DEF Base, RowInv, Transactions
  <2>3. \A v \in rows' : v.gen \in 1..Len(jobs') /\ jobs'[v.gen].done
    <3> TAKE v \in rows'
    <3>1. PICK r \in Base(x) : v.gen = r.gen
      BY <2>1, ViewFacts
    <3> QED
      BY <2>1, <2>2, <3>1
  <2>4. \A r \in tx'[Worker].new : r.gen = tx'[Worker].job /\ r.sup = 0
    BY <1>0, <2>1 DEF RowInv
  <2>5. \A o \in Operators : tx'[o].new = {}
    BY <1>0, <2>1 DEF RowInv, Transactions
  <2>6. Unique(rows')
    BY <2>1, ViewUnique
  <2>7. CASE x = Worker
    BY <1>0, <2>1, <2>3, <2>4, <2>5, <2>6, <2>7 DEF RowInv, Unique, Id
  <2>8. CASE x # Worker
    <3>1. tx'[Worker] = tx[Worker] /\ Base(x) = rows
      BY <1>0, <2>1, <2>8, ViewUnique
    <3>2. ASSUME NEW v \in rows', NEW w \in tx[Worker].new
          PROVE  Id(v) # Id(w)
      <4>1. PICK r \in rows : Id(v) = Id(r) /\ r \in Row
        BY <2>1, <3>1, ViewFacts
      <4>2. w \in Row
        BY <1>0, TxFields
      <4>3. jobs[r.gen].done /\ w.gen = tx[Worker].job
        BY DEF RowInv
      <4>4. ~jobs[tx[Worker].job].done \/ ~Open(Worker)
        BY <1>0 DEF JobInv
      <4>5. Open(Worker)
        BY <1>0, NoTxFields DEF JobInv
      <4> QED
        BY <4>1, <4>2, <4>3, <4>4, <4>5, IdType
    <3>3. \A r, s \in rows' \cup tx'[Worker].new : Id(r) = Id(s) => r = s
      BY <2>6, <3>1, <3>2 DEF Unique, RowInv
    <3> QED
      BY <2>3, <2>4, <2>5, <3>3 DEF RowInv, Id
  <2> QED
    BY <2>7, <2>8
<1> QED
  BY <1>2, <1>3, <1>4

LEMMA RowStep ==
    ASSUME TypeInv, JobInv, RowInv, PageOrderInv, [Next]_vars
    PROVE  RowInv'
<1>0. Worker \in Transactions /\ Operators \subseteq Transactions /\ Worker \notin Operators
  BY RacesAssumption DEF Transactions
<1>1. ASSUME NEW o \in Operators, Moves(o)
      PROVE  RowInv'
  <2>1. rows' = rows /\ jobs' = jobs /\ tx'[Worker] = tx[Worker]
        /\ \A y \in Operators : tx'[y].new = tx[y].new
    BY <1>0, <1>1 DEF Moves
  <2> QED
    BY <2>1 DEF RowInv, Id
<1>2. CASE Dedup \/ AimSupersede \/ Supersede \/ WriteEvent
  <2>1. Moves(Worker)
    BY <1>2, PageMoves
  <2>2. /\ rows' = rows /\ jobs' = jobs /\ tx'[Worker].job = tx[Worker].job
        /\ \A y \in Operators : tx'[y] = tx[y]
    BY <1>0, <2>1 DEF Moves
  <2>3. CASE tx'[Worker].new = tx[Worker].new
    BY <2>2, <2>3 DEF RowInv, Id
  <2>4. CASE /\ tx'[Worker].new = tx[Worker].new \cup {NewRow}
             /\ NewRow \in Row /\ NewRow.gen = tx[Worker].job /\ NewRow.sup = 0
             /\ \A r \in Base(Worker) : Id(r) # Id(NewRow)
    <3>1. \A r \in tx'[Worker].new : r.gen = tx'[Worker].job /\ r.sup = 0
      BY <2>2, <2>4 DEF RowInv
    <3>2. rows' \cup tx'[Worker].new = Base(Worker) \cup {NewRow}
      BY <2>2, <2>4 DEF Base
    <3> HIDE DEF NewRow
    <3>3. \A r, s \in Base(Worker) \cup {NewRow} : Id(r) = Id(s) => r = s
      BY <2>4 DEF Base, RowInv
    <3> QED
      BY <2>2, <3>1, <3>2, <3>3 DEF RowInv, Id
  <2> QED
    BY <1>2, <2>3, <2>4, MoveNew
<1>3. CASE PageStep
  BY <1>0, <1>2, <1>3, PollBegins, PageCommits, RowKept DEF PageStep
<1>4. CASE \E o \in Operators : RevertStep(o)
  BY <1>0, <1>1, <1>4, RevertMoves, RevertBegins, RevertCommits, RowKept DEF RevertStep
<1>5. CASE \/ \E j \in 1..Len(jobs) : Retry(j)
           \/ \E x \in Transactions : Rollback(x)
           \/ UNCHANGED vars
  BY <1>0, <1>5, OtherStays, RowKept
<1> QED
  BY <1>3, <1>4, <1>5 DEF Next

-----------------------------------------------------------------------------
(* The page.                                                               *)

\* Where what is left of a sequence was in it.
LEMMA TailOrder ==
    ASSUME NEW S, NEW s \in Seq(S), s # <<>>
    PROVE  /\ \A n \in DOMAIN Tail(s) :
                 n + 1 \in DOMAIN s /\ Tail(s)[n] = s[n + 1] /\ 1 < n + 1
           /\ \A m, n \in DOMAIN Tail(s) : m < n => m + 1 < n + 1
<1>1. \A n \in DOMAIN Tail(s) : /\ n + 1 \in DOMAIN s /\ Tail(s)[n] = s[n + 1]
                               /\ n \in Nat /\ n >= 1
  BY TodoFacts
<1> QED
  BY <1>1

LEMMA WorkerTail ==
    ASSUME TypeInv, PageOrderInv, tx[Worker].todo # <<>>
    PROVE  LET s == Tail(tx[Worker].todo)
           IN  /\ \A m, n \in DOMAIN s : m < n => s[m] < s[n]
               /\ \A n \in DOMAIN s : This(Worker) < s[n]
               /\ \A r \in tx[Worker].new, n \in DOMAIN s : r.event < s[n]
               /\ \A r \in tx[Worker].new : r.event < This(Worker)
<1> DEFINE t == tx[Worker].todo
           s == Tail(t)
<1>1. t \in Seq(1..Len(feed)) /\ t # <<>>
  BY DEF TypeInv
<1>2. This(Worker) = t[1] /\ 1 \in DOMAIN t
  BY <1>1, TodoFacts DEF This
<1>3. /\ \A m, n \in DOMAIN t : m < n => t[m] < t[n]
      /\ \A r \in tx[Worker].new, n \in DOMAIN t : r.event < t[n]
  BY DEF PageOrderInv
<1> HIDE DEF t
<1>4. /\ \A n \in DOMAIN s : n + 1 \in DOMAIN t /\ s[n] = t[n + 1] /\ 1 < n + 1
      /\ \A m, n \in DOMAIN s : m < n => m + 1 < n + 1
  BY <1>1, TailOrder
<1> HIDE DEF s
<1>5. /\ \A m, n \in DOMAIN s : m < n => s[m] < s[n]
      /\ \A n \in DOMAIN s : t[1] < s[n]
      /\ \A r \in tx[Worker].new, n \in DOMAIN s : r.event < s[n]
      /\ \A r \in tx[Worker].new : r.event < t[1]
  BY <1>2, <1>3, <1>4
<1> QED
  BY <1>2, <1>5 DEF s, t

\* A row of the page's own job is one the page has inserted.
LEMMA OwnRow ==
    ASSUME TypeInv, JobInv, RowInv, Open(Worker), NEW v \in View(Worker), v.gen = tx[Worker].job
    PROVE  \E r \in tx[Worker].new : Id(r) = Id(v) /\ r.event = v.event
<1>1. Worker \in Transactions
  BY DEF Transactions
<1>2. PICK r \in Base(Worker) : Id(v) = Id(r) /\ v.gen = r.gen /\ r \in Row
  BY <1>1, ViewFacts
<1>3. r \notin rows
  BY <1>1, <1>2 DEF RowInv, JobInv
<1>4. v \in Row
  BY <1>1, ViewFacts
<1>5. r.event = v.event
  BY <1>2, <1>4, IdType
<1> QED
  BY <1>2, <1>3, <1>5 DEF Base

LEMMA PageOrderMoves ==
    ASSUME TypeInv, JobInv, RowInv, PageOrderInv,
           Dedup \/ AimSupersede \/ Supersede \/ WriteEvent
    PROVE  PageOrderInv'
<1> DEFINE t == tx[Worker]
<1>0. Worker \in Transactions /\ t.todo \in Seq(Nat \cup Ids)
  BY TxFields DEF Transactions
<1>1. CASE Dedup
  <2>1. /\ t.at = "dedup" /\ t.todo # <<>> /\ tx'[Worker].job = t.job
        /\ tx'[Worker].sup = t.sup /\ tx'[Worker].new = t.new /\ tx'[Worker].seen = t.seen
        /\ \/ tx'[Worker].at = "aim" /\ tx'[Worker].todo = t.todo
           \/ tx'[Worker].at = "dedup" /\ tx'[Worker].todo = Tail(t.todo)
    BY <1>1, DedupEffect DEF Becomes
  <2>2. \A i \in DOMAIN tx'[Worker].sup \cup tx'[Worker].seen :
           i.gen = tx'[Worker].job => \E r \in tx'[Worker].new : Id(r)' = i
    BY <2>1 DEF PageOrderInv, Id
  <2>3. CASE tx'[Worker].todo = t.todo
    BY <2>1, <2>2, <2>3 DEF PageOrderInv
  <2>4. CASE tx'[Worker].at = "dedup" /\ tx'[Worker].todo = Tail(t.todo)
    BY <2>1, <2>2, <2>4, WorkerTail DEF PageOrderInv
  <2> QED
    BY <2>1, <2>3, <2>4
<1>2. CASE AimSupersede
  <2>1. /\ Open(Worker) /\ t.at = "aim" /\ t.todo # <<>> /\ tx'[Worker].job = t.job
        /\ tx'[Worker].sup = t.sup /\ tx'[Worker].new = t.new
        /\ tx'[Worker].seen = {Id(r) : r \in LiveIn(View(Worker), KeyOf(This(Worker)))}
        /\ tx'[Worker].todo = t.todo
    BY <1>2, AimEffect DEF Becomes
  <2>2. ASSUME NEW i \in tx'[Worker].seen, i.gen = t.job
        PROVE  \E r \in t.new : Id(r) = i
    <3>1. PICK v \in View(Worker) : i = Id(v)
      BY <2>1 DEF LiveIn
    <3>2. v.gen = t.job
      BY <1>0, <2>2, <3>1, ViewType, IdType
    <3> QED
      BY <2>1, <3>1, <3>2, OwnRow
  <2> QED
    BY <2>1, <2>2 DEF PageOrderInv, Id
<1>3. CASE Supersede
  <2>1. /\ t.at = "supersede" /\ t.todo # <<>> /\ tx'[Worker].job = t.job
        /\ DOMAIN tx'[Worker].sup = DOMAIN t.sup \cup Hit /\ tx'[Worker].new = t.new
        /\ tx'[Worker].seen = t.seen /\ tx'[Worker].todo = t.todo
    BY <1>3, SupersedeEffect DEF Becomes
  <2>2. Hit \subseteq t.seen
    BY DEF Hit
  <2> QED
    BY <2>1, <2>2 DEF PageOrderInv, Id
<1>4. CASE WriteEvent
  <2>1. /\ t.at = "write" /\ t.todo # <<>> /\ tx'[Worker].job = t.job
        /\ tx'[Worker].at = "dedup"
        /\ tx'[Worker].sup = t.sup /\ tx'[Worker].new = t.new \cup {NewRow}
        /\ tx'[Worker].seen = {} /\ tx'[Worker].todo = Tail(t.todo)
    BY <1>4, WriteEffect DEF Becomes
  <2>2. NewRow.event = This(Worker)
    BY DEF NewRow
  <2> HIDE DEF NewRow
  <2>3. \A r \in tx'[Worker].new, n \in DOMAIN tx'[Worker].todo :
           r.event < tx'[Worker].todo[n]
    BY <2>1, <2>2, WorkerTail
  <2>4. \A i \in DOMAIN tx'[Worker].sup \cup tx'[Worker].seen :
           i.gen = tx'[Worker].job => \E r \in tx'[Worker].new : Id(r)' = i
    BY <2>1 DEF PageOrderInv, Id
  <2> QED
    BY <2>1, <2>3, <2>4, WorkerTail DEF PageOrderInv
<1> QED
  BY <1>1, <1>2, <1>3, <1>4

\* The page's own transaction in the steps that are no statement of the page.
LEMMA PageAside ==
    ASSUME TypeInv, JobInv, NEW x \in Transactions,
           (x # Worker /\ Moves(x)) \/ Begins(x) \/ Commits(x) \/ Stays(x)
    PROVE  \/ /\ tx'[Worker] = tx[Worker] /\ feed' = feed
              /\ Worker \in history.raced => Worker \in history'.raced
           \/ tx'[Worker] = NoTx
           \/ x = Worker /\ Begins(x)
BY DEF Moves, Begins, Commits, Stays, Transactions

LEMMA PageOrderStep ==
    ASSUME TypeInv, JobInv, RowInv, PageOrderInv, [Next]_vars
    PROVE  PageOrderInv'
<1>0. Worker \in Transactions /\ Operators \subseteq Transactions /\ Worker \notin Operators
  BY RacesAssumption DEF Transactions
<1>1. ASSUME NEW x \in Transactions,
             (x # Worker /\ Moves(x)) \/ Begins(x) \/ Commits(x) \/ Stays(x)
      PROVE  PageOrderInv'
  <2>1. CASE tx'[Worker] = tx[Worker]
    BY <2>1 DEF PageOrderInv, Id
  <2>2. CASE tx'[Worker] = NoTx
    <3>1. DOMAIN NoTx.todo = {}
      BY NoTxFields
    <3> QED
      BY <2>2, <3>1, NoTxFields DEF PageOrderInv
  <2>3. CASE x = Worker /\ Begins(x)
    BY <2>3 DEF Begins, PageOrderInv
  <2> QED
    BY <1>1, <2>1, <2>2, <2>3, PageAside
<1>2. CASE PageStep
  BY <1>0, <1>1, <1>2, PageOrderMoves, PollBegins, PageCommits DEF PageStep
<1>3. CASE \E o \in Operators : RevertStep(o)
  BY <1>0, <1>1, <1>3, RevertMoves, RevertBegins, RevertCommits DEF RevertStep
<1>4. CASE \/ \E j \in 1..Len(jobs) : Retry(j)
           \/ \E x \in Transactions : Rollback(x)
           \/ UNCHANGED vars
  BY <1>0, <1>1, <1>4, OtherStays
<1> QED
  BY <1>2, <1>3, <1>4 DEF Next

LEMMA PageMovesInv ==
    ASSUME TypeInv, JobInv, RowInv, PageOrderInv, PageInv, LonePageInv,
           Dedup \/ AimSupersede \/ Supersede \/ WriteEvent
    PROVE  PageInv'
<1> DEFINE t == tx[Worker]
           u == tx'[Worker]
<1>0. Worker \in Transactions /\ t.todo \in Seq(Nat \cup Ids) /\ t.job \in Nat
      /\ t.canonical \in PartialFcn(Keys, Show) /\ t.sup \in PartialFcn(Ids, Nat)
  BY TxFields DEF Transactions
<1>1. /\ Moves(Worker) /\ Open(Worker) /\ feed' = feed /\ history' = history /\ u.job = t.job
  BY PageMoves DEF Moves
<1>2. \A i, p : Older(i, p)' <=> Older(i, p)
  BY <1>1 DEF Older
<1> HIDE DEF Older
<1>3. /\ \A r \in t.new : r.key \in DOMAIN t.canonical
      /\ \A i \in DOMAIN t.sup :
            /\ t.sup[i] = t.job
            /\ \/ \E w \in t.new : w.key = i.key /\ Older(i, w.event)
               \/ t.at = "write" /\ i.key = KeyOf(This(Worker)) /\ Older(i, This(Worker))
      /\ t.at = "supersede" => \A i \in t.seen :
            i.key = KeyOf(This(Worker)) /\ Older(i, This(Worker))
  BY <1>1 DEF PageInv
<1>4. SUFFICES /\ \A r \in u.new : r.key \in DOMAIN u.canonical
               /\ \A i \in DOMAIN u.sup :
                     /\ u.sup[i] = u.job
                     /\ \/ \E w \in u.new : w.key = i.key /\ Older(i, w.event)
                        \/ /\ u.at = "write" /\ i.key = KeyOf(This(Worker))'
                           /\ Older(i, This(Worker)')
               /\ u.at = "supersede" => \A i \in u.seen :
                     i.key = KeyOf(This(Worker))' /\ Older(i, This(Worker)')
  BY <1>2 DEF PageInv
<1>6. u.todo = t.todo => /\ This(Worker)' = This(Worker)
                         /\ KeyOf(This(Worker))' = KeyOf(This(Worker))
  BY <1>1 DEF This, KeyOf
<1>7. CASE Dedup
  <2>1. /\ t.at = "dedup" /\ u.at \in {"aim", "dedup"} /\ u.canonical = t.canonical
        /\ u.sup = t.sup /\ u.new = t.new
    BY <1>7, DedupEffect DEF Becomes
  <2> QED
    BY <1>1, <1>3, <2>1
<1>8. CASE AimSupersede
  <2>1. /\ t.at = "aim" /\ u.at = "supersede" /\ u.canonical = t.canonical
        /\ u.sup = t.sup /\ u.new = t.new /\ u.todo = t.todo /\ t.todo # <<>>
        /\ u.seen = {Id(r) : r \in LiveIn(View(Worker), KeyOf(This(Worker)))}
    BY <1>8, AimEffect DEF Becomes
  <2>2. ASSUME NEW i \in u.seen
        PROVE  i.key = KeyOf(This(Worker)) /\ Older(i, This(Worker))
    <3>1. PICK v \in LiveIn(View(Worker), KeyOf(This(Worker))) : i = Id(v)
      BY <2>1
    <3>2. /\ v \in View(Worker) /\ v.key = KeyOf(This(Worker)) /\ v \in Row
          /\ i.key = v.key /\ i.event = v.event /\ i.gen = v.gen
      BY <1>0, <3>1, ViewType, IdType DEF LiveIn
    <3>3. CASE i.gen = t.job
      BY <1>1, <2>1, <3>2, <3>3, OwnRow, WorkerTail DEF Older
    <3>4. CASE Worker \notin history.raced
      BY <1>1, <2>1, <3>1, <3>2, <3>4 DEF LonePageInv, Alone, Older
    <3> QED
      BY <3>2, <3>3, <3>4 DEF Older
  <2> QED
    BY <1>1, <1>3, <1>6, <2>1, <2>2
<1>9. CASE Supersede
  <2>1. /\ t.at = "supersede" /\ u.at = "write" /\ u.canonical = t.canonical
        /\ u.sup = [i \in DOMAIN t.sup \cup Hit |-> IF i \in Hit THEN t.job ELSE t.sup[i]]
        /\ u.new = t.new /\ u.todo = t.todo
    BY <1>9, SupersedeEffect DEF Becomes
  <2>2. Hit \subseteq t.seen
    BY DEF Hit
  <2>3. ASSUME NEW i \in DOMAIN u.sup
        PROVE  /\ u.sup[i] = u.job
               /\ \/ \E w \in u.new : w.key = i.key /\ Older(i, w.event)
                  \/ i.key = KeyOf(This(Worker)) /\ Older(i, This(Worker))
    <3>1. CASE i \in Hit
      BY <1>1, <1>3, <2>1, <2>2, <3>1
    <3>2. CASE i \notin Hit
      BY <1>1, <1>3, <2>1, <3>2
    <3> QED
      BY <3>1, <3>2
  <2> QED
    BY <1>1, <1>3, <1>6, <2>1, <2>3
<1>10. CASE WriteEvent
  <2>1. /\ t.at = "write" /\ u.at = "dedup" /\ t.todo # <<>>
        /\ u.canonical = Write(t.canonical, KeyOf(This(Worker)), NewShow)
        /\ u.sup = t.sup /\ u.new = t.new \cup {NewRow} /\ NewShow \in Show
    BY <1>10, WriteEffect DEF Becomes
  <2>2. NewRow.event = This(Worker) /\ NewRow.key = KeyOf(This(Worker))
    BY DEF NewRow
  <2>3. DOMAIN u.canonical = DOMAIN t.canonical \cup {KeyOf(This(Worker))}
    BY <2>1 DEF Write
  <2> HIDE DEF NewRow
  <2> QED
    BY <1>1, <1>3, <2>1, <2>2, <2>3
<1> QED
  BY <1>7, <1>8, <1>9, <1>10

LEMMA PageInvStep ==
    ASSUME TypeInv, JobInv, RowInv, PageOrderInv, PageInv, LonePageInv, [Next]_vars
    PROVE  PageInv'
<1>0. Worker \in Transactions /\ Operators \subseteq Transactions /\ Worker \notin Operators
  BY RacesAssumption DEF Transactions
<1>1. ASSUME NEW x \in Transactions,
             (x # Worker /\ Moves(x)) \/ Begins(x) \/ Commits(x) \/ Stays(x)
      PROVE  PageInv'
  <2>1. CASE /\ tx'[Worker] = tx[Worker] /\ feed' = feed
             /\ Worker \in history.raced => Worker \in history'.raced
    <3>1. \A i, p : Older(i, p) => Older(i, p)'
      BY <2>1 DEF Older
    <3> HIDE DEF Older
    <3> QED
      BY <2>1, <3>1 DEF PageInv, Open, This, KeyOf
  <2>2. CASE tx'[Worker] = NoTx
    BY <2>2, NoTxFields DEF PageInv, Open
  <2>3. CASE x = Worker /\ Begins(x)
    BY <2>3 DEF Begins, PageInv
  <2> QED
    BY <1>1, <2>1, <2>2, <2>3, PageAside
<1>2. CASE PageStep
  BY <1>0, <1>1, <1>2, PageMovesInv, PollBegins, PageCommits DEF PageStep
<1>3. CASE \E o \in Operators : RevertStep(o)
  BY <1>0, <1>1, <1>3, RevertMoves, RevertBegins, RevertCommits DEF RevertStep
<1>4. CASE \/ \E j \in 1..Len(jobs) : Retry(j)
           \/ \E x \in Transactions : Rollback(x)
           \/ UNCHANGED vars
  BY <1>0, <1>1, <1>4, OtherStays
<1> QED
  BY <1>2, <1>3, <1>4 DEF Next

LEMMA AloneStep ==
    ASSUME TypeInv, JobInv, AloneInv, [Next]_vars
    PROVE  AloneInv'
<1>1. PICK x \in Transactions : Moves(x) \/ Begins(x) \/ Commits(x) \/ Stays(x)
  BY StepKinds
<1>2. NoTx.job = 0
  BY NoTxFields
<1>3. CASE Moves(x)
  BY <1>3 DEF Moves, AloneInv, Open
<1>4. CASE Begins(x)
  BY <1>4 DEF Begins, AloneInv, Open
<1>5. CASE Commits(x) \/ Stays(x)
  <2>1. /\ \A y \in Transactions : tx'[y] = tx[y] \/ tx'[y] = NoTx
        /\ \/ tx'[x] = NoTx /\ history'.raced = history.raced \ {x}
           \/ tx'[x] = tx[x] /\ history'.raced = history.raced
    BY <1>5 DEF Commits, Stays
  <2> QED
    BY <1>2, <2>1 DEF AloneInv, Open
<1> QED
  BY <1>1, <1>3, <1>4, <1>5

-----------------------------------------------------------------------------
(* The revert.                                                             *)

LEMMA OperatorTail ==
    ASSUME TypeInv, NEW o \in Operators, RevertAt(o), Open(o), tx[o].todo # <<>>
    PROVE  LET s == Tail(tx[o].todo)
           IN  /\ \A m, n \in DOMAIN s : m < n => s[m].event < s[n].event
               /\ \A n \in DOMAIN s : s[n].gen = Target(o)
               /\ \A n \in DOMAIN s : s[n] # This(o) /\ \E m \in DOMAIN tx[o].todo :
                     s[n] = tx[o].todo[m]
               /\ This(o).gen = Target(o) /\ 1 \in DOMAIN tx[o].todo
               /\ This(o) = tx[o].todo[1]
<1> DEFINE t == tx[o].todo
           s == Tail(t)
<1>1. t \in Seq(Ids) /\ t # <<>>
  BY DEF TypeInv
<1>2. This(o) = t[1] /\ 1 \in DOMAIN t
  BY <1>1, TodoFacts DEF This
<1>3. /\ \A m, n \in DOMAIN t : m < n => t[m].event < t[n].event
      /\ \A n \in DOMAIN t : t[n].gen = Target(o)
  BY DEF RevertAt
<1>5. t[1].event \in Nat
  BY <1>1, <1>2, OperatorThis
<1> HIDE DEF t
<1>4. /\ \A n \in DOMAIN s : n + 1 \in DOMAIN t /\ s[n] = t[n + 1] /\ 1 < n + 1
      /\ \A m, n \in DOMAIN s : m < n => m + 1 < n + 1
  BY <1>1, TailOrder
<1> HIDE DEF s
<1>6. /\ \A m, n \in DOMAIN s : m < n => s[m].event < s[n].event
      /\ \A n \in DOMAIN s : s[n].gen = Target(o)
      /\ \A n \in DOMAIN s : t[1].event < s[n].event /\ \E m \in DOMAIN t : s[n] = t[m]
  BY <1>2, <1>3, <1>4
<1> QED
  BY <1>2, <1>3, <1>5, <1>6 DEF s, t

LEMMA RevertMovesInv ==
    ASSUME TypeInv, JobInv, NEW o \in Operators, RevertAt(o),
           \/ SelectLive(o) \/ FindPrior(o) \/ RestorePrior(o) \/ RestoreCanonical(o)
           \/ MarkReverted(o)
    PROVE  RevertAt(o)'
<1> DEFINE t == tx[o]
           u == tx'[o]
<1>0. /\ o \in Transactions /\ t.todo \in Seq(Nat \cup Ids) /\ t.job \in Nat
      /\ t.canonical \in PartialFcn(Keys, Show) /\ t.sup \in PartialFcn(Ids, Nat)
  BY TxFields DEF Transactions
<1>1. /\ Open(o) /\ u.job = t.job /\ Target(o)' = Target(o)
  BY RevertMoves DEF Moves, Target
<1>2. u.todo = t.todo => This(o)' = This(o)
  BY DEF This
<1>3. SUFFICES
        /\ \A m, n \in DOMAIN u.todo : m < n => u.todo[m].event < u.todo[n].event
        /\ \A n \in DOMAIN u.todo : u.todo[n].gen = Target(o)
        /\ u.at \in {"select", "prior"} \/ u.todo # <<>>
        /\ u.at = "select" => DOMAIN u.sup = {} /\ DOMAIN u.canonical = {} /\ u.todo = <<>>
        /\ u.at = "take" => This(o)'.key \in DOMAIN u.canonical
        /\ u.at \in {"restore", "canonical", "take"} =>
              \A i \in u.seen : i.key = This(o)'.key
        /\ \A i \in DOMAIN u.sup :
              /\ u.sup[i] = 0 \/ (u.sup[i] = t.job /\ i.gen = Target(o))
              /\ i.key \in DOMAIN u.canonical \/ (u.at = "canonical" /\ i.key = This(o)'.key)
  BY <1>1 DEF RevertAt
<1>4. CASE SelectLive(o)
  BY SMTT(30), <1>1, <1>4, SelectEffect DEF Becomes, RevertAt
<1>5. CASE FindPrior(o)
  <2>1. PICK seen \in SUBSET Ids :
           /\ \A i \in seen : \E r \in View(o) : Id(r) = i /\ r.key = This(o).key
           /\ t.at = "prior" /\ u.at = "restore" /\ u.sup = t.sup /\ u.canonical = t.canonical
           /\ u.seen = seen /\ u.todo = t.todo /\ t.todo # <<>>
    BY <1>5, FindEffect DEF Becomes
  <2>2. \A i \in seen : i.key = This(o).key
    BY <2>1 DEF Id
  <2> QED
    BY <1>1, <1>2, <2>1, <2>2 DEF RevertAt
<1>6. CASE RestorePrior(o)
  <2>1. /\ t.at = "restore" /\ u.at = "canonical" /\ u.canonical = t.canonical
        /\ u.sup = [i \in DOMAIN t.sup \cup t.seen |-> IF i \in t.seen THEN 0 ELSE t.sup[i]]
        /\ u.seen = t.seen /\ u.todo = t.todo /\ t.todo # <<>>
    BY <1>6, RestoreEffect DEF Becomes
  <2>2. ASSUME NEW i \in DOMAIN u.sup
        PROVE  /\ u.sup[i] = 0 \/ (u.sup[i] = t.job /\ i.gen = Target(o))
               /\ i.key \in DOMAIN u.canonical \/ i.key = This(o).key
    <3>1. CASE i \in t.seen
      BY <1>1, <2>1, <3>1 DEF RevertAt
    <3>2. CASE i \notin t.seen
      BY <1>1, <2>1, <3>2 DEF RevertAt
    <3> QED
      BY <3>1, <3>2
  <2> QED
    BY <1>1, <1>2, <2>1, <2>2 DEF RevertAt
<1>7. CASE RestoreCanonical(o)
  <2>1. PICK c :
           /\ t.at = "canonical" /\ u.at = "take" /\ u.sup = t.sup
           /\ u.canonical = Write(t.canonical, This(o).key, c)
           /\ u.seen = t.seen /\ u.todo = t.todo /\ t.todo # <<>>
    BY <1>7, CanonicalEffect DEF Becomes
  <2>2. DOMAIN u.canonical = DOMAIN t.canonical \cup {This(o).key}
    BY <2>1 DEF Write
  <2> QED
    BY <1>1, <1>2, <2>1, <2>2 DEF RevertAt
<1>8. CASE MarkReverted(o)
  <2>1. /\ t.at = "take" /\ u.at = "prior" /\ u.canonical = t.canonical
        /\ u.sup = [i \in DOMAIN t.sup \cup {This(o)} |->
                       IF i \in {This(o)} THEN t.job ELSE t.sup[i]]
        /\ u.seen = {} /\ u.todo = Tail(t.todo) /\ t.todo # <<>>
    BY <1>8, TakeEffect DEF Becomes
  <2>2. ASSUME NEW i \in DOMAIN u.sup
        PROVE  /\ u.sup[i] = 0 \/ (u.sup[i] = t.job /\ i.gen = Target(o))
               /\ i.key \in DOMAIN u.canonical
    <3>1. CASE i = This(o)
      BY <1>1, <2>1, <3>1, OperatorTail DEF RevertAt
    <3>2. CASE i # This(o)
      BY <1>1, <2>1, <3>2 DEF RevertAt
    <3> QED
      BY <3>1, <3>2
  <2>3. /\ \A m, n \in DOMAIN u.todo : m < n => u.todo[m].event < u.todo[n].event
        /\ \A n \in DOMAIN u.todo : u.todo[n].gen = Target(o)
    BY <1>1, <2>1, OperatorTail
  <2> QED
    BY <2>1, <2>2, <2>3
<1> QED
  BY <1>4, <1>5, <1>6, <1>7, <1>8

\* A revert's transaction in the steps that are no statement of the revert.
LEMMA RevertAside ==
    ASSUME TypeInv, JobInv, NEW o \in Operators, NEW x \in Transactions,
           (x # o /\ Moves(x)) \/ Begins(x) \/ Commits(x) \/ Stays(x)
    PROVE  \/ /\ tx'[o] = tx[o] /\ feed' = feed
              /\ Open(o) => Target(o)' = Target(o)
              /\ o \in history.raced => o \in history'.raced
           \/ tx'[o] = NoTx
           \/ x = o /\ Begins(x)
<1>0. o \in Transactions
  BY DEF Transactions
<1>1. Open(o) => tx[o].job \in 1..Len(jobs)
  BY <1>0 DEF JobInv
<1>2. CASE x # o /\ Moves(x)
  BY <1>0, <1>2 DEF Moves, Target
<1>3. CASE Begins(x) /\ x # o
  BY <1>0, <1>1, <1>3 DEF Begins, Target
<1>4. CASE Commits(x)
  BY <1>0, <1>1, <1>4 DEF Commits, Target
<1>5. CASE Stays(x)
  BY <1>0, <1>1, <1>5 DEF Stays, Target
<1> QED
  BY <1>2, <1>3, <1>4, <1>5

LEMMA RevertInvStep ==
    ASSUME TypeInv, JobInv, RevertInv, [Next]_vars
    PROVE  RevertInv'
<1> SUFFICES ASSUME NEW o \in Operators
             PROVE  RevertAt(o)'
  BY DEF RevertInv
<1>0. /\ Worker \in Transactions /\ Operators \subseteq Transactions /\ Worker \notin Operators
      /\ RevertAt(o)
  BY RacesAssumption DEF Transactions, RevertInv
<1>1. ASSUME NEW x \in Transactions,
             (x # o /\ Moves(x)) \/ Begins(x) \/ Commits(x) \/ Stays(x)
      PROVE  RevertAt(o)'
  <2>1. CASE tx'[o] = tx[o] /\ (Open(o) => Target(o)' = Target(o))
    BY <1>0, <2>1 DEF RevertAt, Open, This
  <2>2. CASE tx'[o] = NoTx
    BY <2>2, NoTxFields DEF RevertAt, Open
  <2>3. CASE x = o /\ Begins(x)
    BY <1>0, <2>3 DEF Begins, RevertAt
  <2> QED
    BY <1>1, <2>1, <2>2, <2>3, RevertAside
<1>2. CASE PageStep
  BY <1>0, <1>1, <1>2, PageMoves, PollBegins, PageCommits DEF PageStep
<1>3. ASSUME NEW p \in Operators, RevertStep(p)
      PROVE  RevertAt(o)'
  <2>1. CASE p = o
    BY <1>0, <1>1, <1>3, <2>1, RevertMovesInv, RevertBegins, RevertCommits DEF RevertStep
  <2>2. CASE p # o
    BY <1>0, <1>1, <1>3, <2>2, RevertMoves, RevertBegins, RevertCommits DEF RevertStep
  <2> QED
    BY <2>1, <2>2
<1>4. CASE \/ \E j \in 1..Len(jobs) : Retry(j)
           \/ \E x \in Transactions : Rollback(x)
           \/ UNCHANGED vars
  BY <1>0, <1>1, <1>4, OtherStays
<1> QED
  BY <1>2, <1>3, <1>4 DEF Next

-----------------------------------------------------------------------------
(* Sound keys.                                                             *)

LEMMA SoundIs == ASSUME NEW k PROVE Sound(k) <=> SoundIn(rows, canonical[k], k)
BY DEF Sound, SoundIn

\* What is sound of a key depends on its live rows only.
LEMMA SameLive ==
    ASSUME NEW S, NEW T, NEW c, NEW k, LiveIn(S, k) = LiveIn(T, k), SoundIn(S, c, k)
    PROVE  SoundIn(T, c, k)
BY DEF SoundIn

LEMMA MarkedLive ==
    ASSUME NEW S, NEW f, NEW g, NEW k,
           \A r \in S : Marked(f, r).key = r.key /\ Marked(g, r).key = r.key,
           \A r \in S : r.key = k => Marked(f, r) = Marked(g, r)
    PROVE  LiveIn({Marked(f, r) : r \in S}, k) = LiveIn({Marked(g, r) : r \in S}, k)
BY DEF LiveIn

\* A statement that inserts nothing and marks no row of k leaves k's live rows.
LEMMA LiveElsewhere ==
    ASSUME TypeInv, TypeInv', NEW x \in Transactions, NEW k \in Keys,
           rows' = rows, tx'[x].new = tx[x].new,
           \A i \in Ids : i.key = k =>
              /\ i \in DOMAIN tx'[x].sup <=> i \in DOMAIN tx[x].sup
              /\ i \in DOMAIN tx[x].sup => tx'[x].sup[i] = tx[x].sup[i]
    PROVE  LiveIn(View(x)', k) = LiveIn(View(x), k)
<1> DEFINE f == tx[x].sup
           g == tx'[x].sup
<1>1. f \in PartialFcn(Ids, Nat) /\ Base(x) \in SUBSET Row
  BY BaseType
<1>2. g \in PartialFcn(Ids, Nat)
  BY DEF TypeInv, Tx
<1>3. Base(x)' = Base(x)
  BY DEF Base
<1>4. View(x)' = {Marked(g, r) : r \in Base(x)}
  BY <1>3 DEF View, Marked, Base, Id
<1> HIDE DEF f, g
<1>5. \A r \in Base(x) : Marked(f, r).key = r.key /\ Marked(g, r).key = r.key
  BY <1>1, <1>2, MarkedFacts
<1>6. ASSUME NEW r \in Base(x), r.key = k
      PROVE  Marked(f, r) = Marked(g, r)
  <2>1. Id(r) \in Ids /\ Id(r).key = k
    BY <1>1, <1>6, IdType
  <2> QED
    BY <2>1 DEF Marked, f, g
<1>7. LiveIn({Marked(f, r) : r \in Base(x)}, k) = LiveIn({Marked(g, r) : r \in Base(x)}, k)
  BY <1>5, <1>6, MarkedLive
<1> QED
  BY <1>4, <1>7, ViewIs DEF f

\* A transaction that has written nothing sees what is committed.
LEMMA FreshView ==
    ASSUME NEW x \in Transactions, rows' = rows, canonical' = canonical,
           DOMAIN tx'[x].sup = {}, tx'[x].new = {}, DOMAIN tx'[x].canonical = {}
    PROVE  View(x)' = rows /\ \A k \in Keys : Shown(x, k)' = canonical[k]
BY DEF View, Shown

\* The steps that leave a transaction that runs alone where it is.
LEMMA LoneAside ==
    ASSUME TypeInv, JobInv, AloneInv, NEW z \in Transactions, NEW x \in Transactions,
           (x # z /\ Moves(x)) \/ Begins(x) \/ Commits(x) \/ Stays(x), Alone(z)'
    PROVE  \/ z = x /\ Begins(x)
           \/ /\ tx'[z] = tx[z] /\ feed' = feed /\ rows' = rows /\ canonical' = canonical
              /\ history'.tainted = history.tainted /\ Alone(z)
<1>1. NoTx.job = 0
  BY NoTxFields
<1>2. CASE x # z /\ Moves(x)
  BY <1>2 DEF Moves, Alone, AloneInv, Open
<1>3. CASE Begins(x)
  BY <1>3 DEF Begins, Alone, Open
<1>4. CASE Commits(x)
  BY <1>1, <1>4 DEF Commits, Alone, AloneInv, Open
<1>5. CASE Stays(x)
  BY <1>1, <1>5 DEF Stays, Alone, Open
<1> QED
  BY <1>2, <1>3, <1>4, <1>5

-----------------------------------------------------------------------------
(* A page that runs alone.                                                 *)

LEMMA SameView ==
    ASSUME NEW x, rows' = rows, tx'[x].new = tx[x].new, tx'[x].sup = tx[x].sup
    PROVE  View(x)' = View(x)
BY DEF View, Id

LEMMA LonePageMoves ==
    ASSUME TypeInv, TypeInv', JobInv, RowInv, PageOrderInv, PageInv, LonePageInv,
           Dedup \/ AimSupersede \/ Supersede \/ WriteEvent
    PROVE  LonePageInv'
<1> DEFINE t == tx[Worker]
           u == tx'[Worker]
           k0 == KeyOf(This(Worker))
           S == View(Worker)
           T == View(Worker)'
<1>0. Worker \in Transactions /\ t.todo \in Seq(Nat \cup Ids) /\ t.job \in Nat
      /\ t.canonical \in PartialFcn(Keys, Show) /\ t.sup \in PartialFcn(Ids, Nat)
  BY TxFields DEF Transactions
<1>1. /\ Moves(Worker) /\ Open(Worker) /\ feed' = feed /\ history' = history
      /\ rows' = rows /\ canonical' = canonical /\ u.job = t.job
  BY PageMoves DEF Moves
<1>2. SUFFICES ASSUME Alone(Worker)
               PROVE
        /\ \A k \in Keys : k \in DOMAIN u.canonical \/ k \notin history.tainted =>
              \/ SoundIn(T, Shown(Worker, k)', k)
              \/ u.at = "write" /\ k = KeyOf(This(Worker))'
        /\ u.at \in {"aim", "supersede"} =>
              \A r \in LiveIn(T, KeyOf(This(Worker))') : r.event < This(Worker)'
        /\ u.at = "supersede" =>
              \A r \in LiveIn(T, KeyOf(This(Worker))') : Id(r) \in u.seen
        /\ u.at = "write" => LiveIn(T, KeyOf(This(Worker))') = {}
  BY <1>1 DEF LonePageInv, Alone, Open, LiveIn, SoundIn, Id
<1>3. /\ \A k \in Keys : k \in DOMAIN t.canonical \/ k \notin history.tainted =>
              \/ SoundIn(S, Shown(Worker, k), k)
              \/ t.at = "write" /\ k = k0
      /\ t.at \in {"aim", "supersede"} => \A r \in LiveIn(S, k0) : r.event < This(Worker)
      /\ t.at = "supersede" => \A r \in LiveIn(S, k0) : Id(r) \in t.seen
      /\ t.at = "write" => LiveIn(S, k0) = {}
  BY <1>2 DEF LonePageInv
<1>4. u.todo = t.todo => This(Worker)' = This(Worker) /\ KeyOf(This(Worker))' = k0
  BY <1>1 DEF This, KeyOf
<1>5. u.canonical = t.canonical => \A k : Shown(Worker, k)' = Shown(Worker, k)
  BY <1>1 DEF Shown
<1>6. u.new = t.new /\ u.sup = t.sup => T = S
  BY <1>1, SameView
<1> HIDE DEF T, S, k0
<1>7. CASE Dedup
  <2>1. /\ t.at = "dedup" /\ u.canonical = t.canonical /\ u.sup = t.sup /\ u.new = t.new
        /\ \/ u.at = "dedup"
           \/ /\ u.at = "aim" /\ u.todo = t.todo
              /\ \A r \in LiveIn(S, k0) : r.event < This(Worker)
    BY <1>7, DedupEffect DEF Becomes, S, k0
  <2> QED
    BY <1>3, <1>4, <1>5, <1>6, <2>1
<1>8. CASE AimSupersede
  <2>1. /\ t.at = "aim" /\ u.at = "supersede" /\ u.canonical = t.canonical
        /\ u.sup = t.sup /\ u.new = t.new /\ u.todo = t.todo
        /\ u.seen = {Id(r) : r \in LiveIn(S, k0)}
    BY <1>8, AimEffect DEF Becomes, S, k0
  <2> QED
    BY <1>3, <1>4, <1>5, <1>6, <2>1
<1>9. CASE Supersede
  <2>1. /\ t.at = "supersede" /\ u.at = "write" /\ u.canonical = t.canonical
        /\ u.sup = [i \in DOMAIN t.sup \cup Hit |-> IF i \in Hit THEN t.job ELSE t.sup[i]]
        /\ u.new = t.new /\ u.todo = t.todo /\ t.todo # <<>>
    BY <1>9, SupersedeEffect DEF Becomes
  <2>2. \A i \in Hit : i.key = k0
    BY <1>1, <2>1 DEF Hit, PageInv, k0
  <2>3. ASSUME NEW k \in Keys \ {k0}
        PROVE  LiveIn(T, k) = LiveIn(S, k)
    <3>1. \A i \in Ids : i.key = k =>
             /\ i \in DOMAIN u.sup <=> i \in DOMAIN t.sup
             /\ i \in DOMAIN t.sup => u.sup[i] = t.sup[i]
      BY <2>1, <2>2, <2>3
    <3> QED
      BY <1>0, <1>1, <2>1, <3>1, LiveElsewhere DEF T, S
  <2>4. LiveIn(T, k0) = {}
    <3> SUFFICES ASSUME NEW v \in T, v.key = k0, v.sup = 0
                 PROVE  FALSE
      BY DEF LiveIn
    <3>1. T = {Marked(u.sup, r) : r \in Base(Worker)}
      BY <1>1, <2>1 DEF View, Marked, Base, Id, T
    <3>2. PICK r \in Base(Worker) : v = Marked(u.sup, r)
      BY <3>1
    <3>3. u.sup \in PartialFcn(Ids, Nat) /\ r \in Row
      BY <1>0, BaseType DEF TypeInv, Tx
    <3>4. Id(r) \notin Hit
      BY <1>1, <2>1, <3>2, <3>3, MarkedFacts DEF Open
    <3>5. Marked(u.sup, r) = Marked(t.sup, r)
      BY <2>1, <3>4 DEF Marked
    <3>6. v \in S /\ Id(v) = Id(r)
      BY <1>0, <3>2, <3>3, <3>5, ViewIs, MarkedFacts DEF S
    <3>7. v \in LiveIn(S, k0)
      BY <3>6 DEF LiveIn
    <3>8. Id(r) \in t.seen
      BY <1>3, <2>1, <3>6, <3>7
    <3> QED
      BY <3>4, <3>6, <3>8 DEF Hit, S
  <2>5. ASSUME NEW k \in Keys \ {k0}, k \in DOMAIN u.canonical \/ k \notin history.tainted
        PROVE  SoundIn(T, Shown(Worker, k)', k)
    BY <1>3, <1>5, <2>1, <2>3, <2>5, SameLive
  <2> QED
    BY <1>4, <2>1, <2>4, <2>5
<1>10. CASE WriteEvent
  <2>1. /\ t.at = "write" /\ u.at = "dedup" /\ t.todo # <<>>
        /\ u.canonical = Write(t.canonical, k0, NewShow)
        /\ u.sup = t.sup /\ u.new = t.new \cup {NewRow}
        /\ NewRow \in Row /\ NewShow \in Show
    BY <1>10, WriteEffect DEF Becomes, k0
  <2>2. NewRow.key = k0 /\ NewRow.sup = 0 /\ NewRow.gen = t.job /\ NewRow.event = This(Worker)
    BY DEF NewRow, k0
  <2>3. NewShow = [event |-> NewRow.event, deleted |-> NewRow.deleted]
    BY DEF NewRow, NewShow
  <2> HIDE DEF NewRow, NewShow
  <2>4. Id(NewRow) \notin DOMAIN t.sup
    <3>1. \A r \in t.new : r \in Row /\ r.event < This(Worker) /\ This(Worker) \in Nat
      BY <1>0, <2>1, TxFields, WorkerTail, WorkerThis
    <3>2. \A r \in t.new : Id(r) # Id(NewRow)
      BY <2>1, <2>2, <3>1, IdType DEF Row
    <3>3. Id(NewRow).gen = t.job
      BY <2>1, <2>2, IdType
    <3> QED
      BY <3>2, <3>3 DEF PageOrderInv
  <2>5. T = S \cup {NewRow}
    BY <1>1, <2>1, <2>4 DEF View, T, S, Id
  <2>6. LiveIn(T, k0) = {NewRow}
    BY <1>3, <2>1, <2>2, <2>5 DEF LiveIn
  <2>7. \A k \in Keys \ {k0} : LiveIn(T, k) = LiveIn(S, k)
    BY <2>2, <2>5 DEF LiveIn
  <2>8. k0 \in Keys
    BY <2>1, WorkerThis DEF k0
  <2>9. /\ \A k \in Keys : k = k0 => Shown(Worker, k)' = NewShow
        /\ \A k \in Keys \ {k0} : Shown(Worker, k)' = Shown(Worker, k)
        /\ DOMAIN u.canonical = DOMAIN t.canonical \cup {k0}
    BY <1>1, <2>1 DEF Shown, Write
  <2>10. ASSUME NEW k \in Keys, k = k0
         PROVE  SoundIn(T, Shown(Worker, k)', k)
    <3>1. Shown(Worker, k)' = [event |-> NewRow.event, deleted |-> NewRow.deleted]
      BY <2>3, <2>9, <2>10
    <3> QED
      BY <2>6, <2>10, <3>1 DEF SoundIn
  <2>11. ASSUME NEW k \in Keys \ {k0}, k \in DOMAIN u.canonical \/ k \notin history.tainted
         PROVE  SoundIn(T, Shown(Worker, k)', k)
    BY <1>3, <2>7, <2>9, <2>11, SameLive
  <2> QED
    BY <2>1, <2>10, <2>11
<1> QED
  BY <1>7, <1>8, <1>9, <1>10

LEMMA LonePageStep ==
    ASSUME TypeInv, TypeInv', JobInv, RowInv, PageOrderInv, PageInv, AloneInv, LonePageInv,
           SoundUnlessRaced, [Next]_vars
    PROVE  LonePageInv'
<1>0. Worker \in Transactions /\ Operators \subseteq Transactions /\ Worker \notin Operators
  BY RacesAssumption DEF Transactions
<1>1. ASSUME NEW x \in Transactions,
             (x # Worker /\ Moves(x)) \/ Begins(x) \/ Commits(x) \/ Stays(x)
      PROVE  LonePageInv'
  <2> SUFFICES ASSUME Alone(Worker)'
               PROVE  LonePageInv'
    BY DEF LonePageInv
  <2>1. CASE x = Worker /\ Begins(x)
    <3>1. /\ tx'[Worker].at = "dedup" /\ history'.tainted = history.tainted
          /\ rows' = rows /\ canonical' = canonical /\ DOMAIN tx'[Worker].canonical = {}
          /\ DOMAIN tx'[Worker].sup = {} /\ tx'[Worker].new = {}
      BY <2>1 DEF Begins
    <3>2. View(Worker)' = rows /\ \A k \in Keys : Shown(Worker, k)' = canonical[k]
      BY <1>0, <3>1, FreshView
    <3>3. \A k \in Keys \ history'.tainted : SoundIn(View(Worker)', Shown(Worker, k)', k)
      BY <3>1, <3>2, SoundIs DEF SoundUnlessRaced
    <3> QED
      BY <3>1, <3>3 DEF LonePageInv, SoundIn, LiveIn
  <2>2. CASE /\ tx'[Worker] = tx[Worker] /\ feed' = feed
             /\ rows' = rows /\ canonical' = canonical
             /\ history'.tainted = history.tainted /\ Alone(Worker)
    <3>1. View(Worker)' = View(Worker)
      BY <2>2 DEF View, Id
    <3>2. \A k : Shown(Worker, k)' = Shown(Worker, k)
      BY <2>2 DEF Shown
    <3>3. This(Worker)' = This(Worker) /\ KeyOf(This(Worker))' = KeyOf(This(Worker))
      BY <2>2 DEF This, KeyOf
    <3> QED
      BY <2>2, <3>1, <3>2, <3>3 DEF LonePageInv, SoundIn, LiveIn, Id
  <2> QED
    BY <1>0, <1>1, <2>1, <2>2, LoneAside
<1>2. CASE PageStep
  BY <1>0, <1>1, <1>2, LonePageMoves, PollBegins, PageCommits DEF PageStep
<1>3. CASE \E o \in Operators : RevertStep(o)
  BY <1>0, <1>1, <1>3, RevertMoves, RevertBegins, RevertCommits DEF RevertStep
<1>4. CASE \/ \E j \in 1..Len(jobs) : Retry(j)
           \/ \E x \in Transactions : Rollback(x)
           \/ UNCHANGED vars
  BY <1>0, <1>1, <1>4, OtherStays
<1> QED
  BY <1>2, <1>3, <1>4 DEF Next

-----------------------------------------------------------------------------
(* A revert that runs alone.                                               *)

\* A statement of a revert gives new marks to the rows whose ids are in D.
LEMMA MarkEffect ==
    ASSUME TypeInv, TypeInv', RowInv, NEW o \in Operators, NEW D \in SUBSET Ids, NEW v \in Nat,
           rows' = rows, tx'[o].new = tx[o].new,
           DOMAIN tx'[o].sup = DOMAIN tx[o].sup \cup D,
           \A i \in D : tx'[o].sup[i] = v,
           \A i \in DOMAIN tx[o].sup \ D : tx'[o].sup[i] = tx[o].sup[i]
    PROVE  /\ Unique(View(o)')
           /\ \A r \in View(o)' : \/ (Id(r) \in D /\ r.sup = v)
                                  \/ (Id(r) \notin D /\ r \in View(o))
           /\ \A r \in View(o) : Id(r) \notin D => r \in View(o)'
           /\ \A r \in View(o) : \E q \in View(o)' : Id(q) = Id(r) /\ q.key = r.key
           /\ \A q \in View(o)' : \E r \in View(o) : Id(q) = Id(r)
           /\ \A k \in Keys : (\A i \in D : i.key # k) => LiveIn(View(o)', k) = LiveIn(View(o), k)
<1> DEFINE f == tx[o].sup
           g == tx'[o].sup
           S == View(o)
           T == View(o)'
<1>1. o \in Transactions /\ o # Worker
  BY RacesAssumption DEF Transactions
<1>2. f \in PartialFcn(Ids, Nat) /\ Base(o) \in SUBSET Row /\ Unique(Base(o))
  BY <1>1, BaseType, ViewUnique
<1>3. g \in PartialFcn(Ids, Nat)
  BY <1>1 DEF TypeInv, Tx
<1>4. S = {Marked(f, r) : r \in Base(o)} /\ T = {Marked(g, r) : r \in Base(o)}
  <2>1. T = {Marked(g, r) : r \in Base(o)'}
    BY DEF View, Marked, Base, Id
  <2>2. Base(o)' = Base(o)
    BY DEF Base
  <2> QED
    BY <2>1, <2>2, ViewIs
<1>5. \A r \in Base(o) : /\ Id(Marked(f, r)) = Id(r) /\ Marked(f, r).key = r.key
                         /\ Id(Marked(g, r)) = Id(r) /\ Marked(g, r).key = r.key
  BY <1>2, <1>3, MarkedFacts
<1>6. \A r \in Base(o) : Id(r) \in D => Marked(g, r).sup = v
  <2>1. \A r \in Base(o) : Id(r) \in DOMAIN g => Marked(g, r).sup = g[Id(r)]
    BY <1>2, <1>3, MarkedFacts
  <2> QED
    BY <2>1
<1>7. \A r \in Base(o) : Id(r) \notin D => Marked(g, r) = Marked(f, r)
  BY DEF Marked
<1>8. ASSUME NEW k \in Keys, \A i \in D : i.key # k
      PROVE  LiveIn(View(o)', k) = LiveIn(View(o), k)
  BY <1>1, <1>8, LiveElsewhere
<1> HIDE DEF f, g, S, T
<1>9. Unique(T)
  BY <1>2, <1>4, <1>5 DEF Unique
<1>10. \A r \in T : (Id(r) \in D /\ r.sup = v) \/ (Id(r) \notin D /\ r \in S)
  BY <1>4, <1>5, <1>6, <1>7
<1>11. \A r \in S : Id(r) \notin D => r \in T
  BY <1>4, <1>5, <1>7
<1>12. /\ \A r \in S : \E q \in T : Id(q) = Id(r) /\ q.key = r.key
       /\ \A q \in T : \E r \in S : Id(q) = Id(r)
  <2>1. \A r \in Base(o) : Marked(f, r) \in S /\ Marked(g, r) \in T
    BY <1>4
  <2>2. ASSUME NEW r \in S
        PROVE  \E q \in T : Id(q) = Id(r) /\ q.key = r.key
    <3>1. PICK b \in Base(o) : r = Marked(f, b)
      BY <1>4
    <3> QED
      BY <1>5, <2>1, <3>1
  <2>3. ASSUME NEW q \in T
        PROVE  \E r \in S : Id(q) = Id(r)
    <3>1. PICK b \in Base(o) : q = Marked(g, b)
      BY <1>4
    <3> QED
      BY <1>5, <2>1, <3>1
  <2> QED
    BY <2>2, <2>3
<1> QED
  BY <1>8, <1>9, <1>10, <1>11, <1>12 DEF S, T

LEMMA LoneRevertMoves ==
    ASSUME TypeInv, TypeInv', JobInv, RowInv, NEW o \in Operators, RevertAt(o), LoneRevertAt(o),
           \/ SelectLive(o) \/ FindPrior(o) \/ RestorePrior(o) \/ RestoreCanonical(o)
           \/ MarkReverted(o)
    PROVE  LoneRevertAt(o)'
<1> DEFINE t == tx[o]
           u == tx'[o]
           i0 == This(o)
           k0 == This(o).key
           S == View(o)
           T == View(o)'
           P == PutBack(o)
           Q == {r \in T : Id(r) \in u.seen}
           tainted == history.tainted
<1>0. /\ o \in Transactions /\ t.todo \in Seq(Nat \cup Ids) /\ t.job \in Nat
      /\ t.seen \in SUBSET Ids /\ o # Worker
  BY TxFields, RacesAssumption DEF Transactions
<1>1. /\ Moves(o) /\ Open(o) /\ history' = history /\ u.job = t.job /\ u.new = t.new
      /\ rows' = rows /\ canonical' = canonical /\ Target(o) # 0
  BY <1>0, RevertMoves DEF Moves, JobInv
<1>2. SUFFICES ASSUME Alone(o)
               PROVE
        /\ \A k \in Keys \ tainted :
              \/ SoundIn(T, Shown(o, k)', k)
              \/ u.at \in {"canonical", "take"} /\ k = This(o)'.key
        /\ \A n \in DOMAIN u.todo : u.todo[n].key \notin tainted =>
              \E r \in LiveIn(T, u.todo[n].key) : Id(r) = u.todo[n]
        /\ u.at \in {"restore", "canonical", "take"} /\ This(o)'.key \notin tainted =>
              /\ \A q, r \in Q : q = r
              /\ This(o)' \notin u.seen
        /\ u.at \in {"canonical", "take"} /\ This(o)'.key \notin tainted =>
              \A r \in LiveIn(T, This(o)'.key) : r \in Q \/ Id(r) = This(o)'
        /\ u.at \in {"canonical", "take"} => \A r \in Q : r.sup = 0
        /\ u.at = "take" /\ This(o)'.key \notin tainted => \A k : k = This(o)'.key =>
              IF Q = {} THEN Shown(o, k)'.deleted
              ELSE \A r \in Q : Shown(o, k)' = [event |-> r.event, deleted |-> r.deleted]
  <2>1. PutBack(o)' = Q
    BY DEF PutBack, Id
  <2> HIDE DEF Q
  <2> QED
    BY <1>1, <2>1 DEF LoneRevertAt, Alone, Open, LiveIn, SoundIn, Id
<1>3. /\ \A k \in Keys \ tainted :
            \/ SoundIn(S, Shown(o, k), k)
            \/ t.at \in {"canonical", "take"} /\ k = k0
      /\ \A n \in DOMAIN t.todo : t.todo[n].key \notin tainted =>
            \E r \in LiveIn(S, t.todo[n].key) : Id(r) = t.todo[n]
      /\ t.at \in {"restore", "canonical", "take"} /\ k0 \notin tainted =>
            (\A q, r \in P : q = r) /\ i0 \notin t.seen
      /\ t.at \in {"canonical", "take"} /\ k0 \notin tainted =>
            \A r \in LiveIn(S, k0) : r \in P \/ Id(r) = i0
      /\ t.at \in {"canonical", "take"} => \A r \in P : r.sup = 0
      /\ t.at = "take" /\ k0 \notin tainted =>
            IF P = {} THEN Shown(o, k0).deleted
            ELSE \A r \in P : Shown(o, k0) = [event |-> r.event, deleted |-> r.deleted]
  BY <1>2 DEF LoneRevertAt
<1>4. u.todo = t.todo => This(o)' = i0
  BY DEF This
<1>5. u.canonical = t.canonical => \A k : Shown(o, k)' = Shown(o, k)
  BY <1>1 DEF Shown
<1>6. u.sup = t.sup => T = S
  BY <1>1, SameView
<1>7. P = {r \in S : Id(r) \in t.seen}
  BY DEF PutBack
<1>8. Unique(S)
  BY <1>0, ViewUnique
<1>9. t.todo # <<>> => /\ i0 \in Ids /\ k0 \in Keys
                       /\ k0 \notin tainted => \E r \in LiveIn(S, k0) : Id(r) = i0
  <2> SUFFICES ASSUME t.todo # <<>>
               PROVE  /\ i0 \in Ids /\ k0 \in Keys
                      /\ k0 \notin tainted => \E r \in LiveIn(S, k0) : Id(r) = i0
    OBVIOUS
  <2>1. 1 \in DOMAIN t.todo /\ i0 = t.todo[1]
    BY <1>1, OperatorTail
  <2> QED
    BY <1>3, <2>1, OperatorThis
<1> HIDE DEF T, S, P, i0, k0, tainted
<1>10. CASE SelectLive(o)
  <2>1. PICK order \in Seq(Ids) :
           /\ \A n \in DOMAIN order : \E r \in LiveIn(S, order[n].key) : Id(r) = order[n]
           /\ t.at = "select" /\ u.at = "prior" /\ u.sup = t.sup
           /\ u.canonical = t.canonical /\ u.todo = order
    BY <1>10, SelectEffect DEF Becomes, S
  <2> QED
    BY <1>3, <1>5, <1>6, <2>1
<1>11. CASE FindPrior(o)
  <2>1. PICK seen \in SUBSET Ids :
           /\ \A i \in seen : \E r \in S :
                 Id(r) = i /\ r.key = This(o).key /\ r.sup = Target(o)
           /\ \A i, j \in seen : i = j
           /\ t.at = "prior" /\ u.at = "restore" /\ u.sup = t.sup /\ u.canonical = t.canonical
           /\ u.seen = seen /\ u.todo = t.todo /\ t.todo # <<>>
    BY <1>11, FindEffect DEF Becomes, S
  <2>2. \A q, r \in Q : q = r
    BY <1>6, <1>8, <2>1 DEF Unique
  <2>3. k0 \notin tainted => i0 \notin seen
    BY <1>1, <1>8, <1>9, <2>1 DEF Unique, LiveIn
  <2> QED
    BY <1>3, <1>4, <1>5, <1>6, <2>1, <2>2, <2>3 DEF i0, k0
<1>12. CASE RestorePrior(o)
  <2>1. /\ t.at = "restore" /\ u.at = "canonical" /\ u.canonical = t.canonical
        /\ u.sup = [i \in DOMAIN t.sup \cup t.seen |-> IF i \in t.seen THEN 0 ELSE t.sup[i]]
        /\ u.seen = t.seen /\ u.todo = t.todo /\ t.todo # <<>>
    BY <1>12, RestoreEffect DEF Becomes
  <2>2. /\ Unique(T)
        /\ \A r \in T : (Id(r) \in t.seen /\ r.sup = 0) \/ (Id(r) \notin t.seen /\ r \in S)
        /\ \A r \in S : Id(r) \notin t.seen => r \in T
        /\ \A r \in S : \E q \in T : Id(q) = Id(r) /\ q.key = r.key
        /\ \A q \in T : \E r \in S : Id(q) = Id(r)
        /\ \A k \in Keys : (\A i \in t.seen : i.key # k) => LiveIn(T, k) = LiveIn(S, k)
    <3>1. /\ DOMAIN u.sup = DOMAIN t.sup \cup t.seen
          /\ \A i \in t.seen : u.sup[i] = 0
          /\ \A i \in DOMAIN t.sup \ t.seen : u.sup[i] = t.sup[i]
          /\ 0 \in Nat
      BY <2>1
    <3> QED
      BY <1>0, <1>1, <3>1, MarkEffect DEF S, T
  <2>3. \A i \in t.seen : i.key = k0
    BY <1>1, <2>1 DEF RevertAt, k0
  <2>4. ASSUME NEW k \in Keys \ tainted, k # k0
        PROVE  SoundIn(T, Shown(o, k)', k)
    BY <1>3, <1>5, <2>1, <2>2, <2>3, <2>4, SameLive
  <2>5. ASSUME NEW n \in DOMAIN u.todo, u.todo[n].key \notin tainted
        PROVE  \E r \in LiveIn(T, u.todo[n].key) : Id(r) = u.todo[n]
    <3>1. PICK r \in LiveIn(S, u.todo[n].key) : Id(r) = u.todo[n]
      BY <1>3, <2>1, <2>5
    <3>2. r \in S /\ r.key = u.todo[n].key /\ r.sup = 0
      BY <3>1 DEF LiveIn
    <3>3. CASE Id(r) \in t.seen
      <4>1. PICK q \in T : Id(q) = Id(r) /\ q.key = r.key
        BY <2>2, <3>2
      <4>2. q.sup = 0
        BY <2>2, <3>3, <4>1
      <4> QED
        BY <3>1, <3>2, <4>1, <4>2 DEF LiveIn
    <3>4. CASE Id(r) \notin t.seen
      BY <2>2, <3>1, <3>2, <3>4 DEF LiveIn
    <3> QED
      BY <3>3, <3>4
  <2>6. ASSUME k0 \notin tainted, NEW q \in Q, NEW r \in Q
        PROVE  q = r
    <3>1. q \in T /\ r \in T /\ Id(q) \in t.seen /\ Id(r) \in t.seen
      BY <2>1
    <3>2. PICK a \in S : Id(q) = Id(a)
      BY <2>2, <3>1
    <3>3. PICK b \in S : Id(r) = Id(b)
      BY <2>2, <3>1
    <3>4. a = b
      BY <1>3, <1>7, <2>1, <2>6, <3>1, <3>2, <3>3
    <3> QED
      BY <2>2, <3>1, <3>2, <3>3, <3>4 DEF Unique
  <2>7. ASSUME k0 \notin tainted, NEW r \in LiveIn(T, k0)
        PROVE  r \in Q \/ Id(r) = i0
    <3>1. r \in T /\ r.key = k0 /\ r.sup = 0
      BY <2>7 DEF LiveIn
    <3>2. CASE Id(r) \in t.seen
      BY <2>1, <3>1, <3>2
    <3>3. CASE Id(r) \notin t.seen
      <4>1. r \in LiveIn(S, k0)
        BY <2>2, <3>1, <3>3 DEF LiveIn
      <4>2. PICK q \in LiveIn(S, k0) : Id(q) = i0
        BY <1>9, <2>1, <2>7
      <4>3. SoundIn(S, Shown(o, k0), k0)
        BY <1>3, <1>9, <2>1, <2>7
      <4>4. q = r
        BY <4>1, <4>2, <4>3 DEF SoundIn
      <4> QED
        BY <4>2, <4>4
    <3> QED
      BY <3>2, <3>3
  <2>8. \A r \in Q : r.sup = 0
    BY <2>1, <2>2
  <2>9. This(o)' = i0 /\ k0 = i0.key
    BY <1>4, <2>1 DEF i0, k0
  <2> HIDE DEF Q
  <2> QED
    BY <1>3, <2>1, <2>4, <2>5, <2>6, <2>7, <2>8, <2>9
<1>13. CASE RestoreCanonical(o)
  <2>1. PICK c \in Show :
           /\ P = {} => c.deleted
           /\ \A r \in P : (\A q \in P : q = r) => c = [event |-> r.event, deleted |-> r.deleted]
           /\ t.at = "canonical" /\ u.at = "take" /\ u.sup = t.sup
           /\ u.canonical = Write(t.canonical, This(o).key, c)
           /\ u.seen = t.seen /\ u.todo = t.todo /\ t.todo # <<>>
    BY <1>13, CanonicalEffect DEF Becomes, P
  <2>2. /\ \A k : k = k0 => Shown(o, k)' = c
        /\ \A k : k # k0 => Shown(o, k)' = Shown(o, k)
    BY <1>1, <2>1 DEF Shown, Write, k0
  <2>3. T = S /\ Q = P
    BY <1>6, <1>7, <2>1
  <2>4. This(o)' = i0 /\ k0 = i0.key
    BY <1>4, <2>1 DEF i0, k0
  <2>5. k0 \notin tainted => IF P = {} THEN c.deleted
           ELSE \A r \in P : c = [event |-> r.event, deleted |-> r.deleted]
    BY <1>3, <2>1
  <2>6. \A k \in Keys \ tainted : k # k0 => SoundIn(T, Shown(o, k)', k)
    BY <1>3, <2>2, <2>3
  <2> HIDE DEF Q
  <2> QED
    BY <1>3, <2>1, <2>2, <2>3, <2>4, <2>5, <2>6
<1>14. CASE MarkReverted(o)
  <2>1. /\ t.at = "take" /\ u.at = "prior" /\ u.canonical = t.canonical
        /\ u.sup = [i \in DOMAIN t.sup \cup {i0} |-> IF i \in {i0} THEN t.job ELSE t.sup[i]]
        /\ u.seen = {} /\ u.todo = Tail(t.todo) /\ t.todo # <<>>
    BY <1>14, TakeEffect DEF Becomes, i0
  <2>2. PICK i1 : i1 = i0
    OBVIOUS
  <2>3. /\ \A r \in T : (Id(r) = i1 /\ r.sup = t.job) \/ (Id(r) # i1 /\ r \in S)
        /\ \A r \in S : Id(r) # i1 => r \in T
        /\ \A k \in Keys : i1.key # k => LiveIn(T, k) = LiveIn(S, k)
    <3>0. PICK D, j : D = {i1} /\ j = t.job
      OBVIOUS
    <3>1. D \in SUBSET Ids /\ j \in Nat
      BY <1>0, <1>9, <2>1, <2>2, <3>0
    <3>2. /\ DOMAIN u.sup = DOMAIN t.sup \cup D
          /\ \A i \in D : u.sup[i] = j
          /\ \A i \in DOMAIN t.sup \ D : u.sup[i] = t.sup[i]
      BY <2>1, <2>2, <3>0
    <3>3. /\ \A r \in T : (Id(r) \in D /\ r.sup = j) \/ (Id(r) \notin D /\ r \in S)
          /\ \A r \in S : Id(r) \notin D => r \in T
          /\ \A k \in Keys : (\A i \in D : i.key # k) => LiveIn(T, k) = LiveIn(S, k)
      BY <1>0, <1>1, <3>1, <3>2, MarkEffect DEF S, T
    <3> QED
      BY <3>0, <3>3
  <2>4. k0 = i1.key /\ t.job # 0
    BY <1>1, <2>2 DEF i0, k0, Open
  <2>5. \A i \in t.seen : i.key = k0
    BY <1>1, <2>1 DEF RevertAt, k0
  <2>6. ASSUME k0 \notin tainted
        PROVE  LiveIn(T, k0) = P
    <3>1. LiveIn(T, k0) \subseteq P
      BY <1>3, <2>1, <2>2, <2>3, <2>4, <2>6 DEF LiveIn
    <3>2. ASSUME NEW r \in P
          PROVE  r \in LiveIn(T, k0)
      <4>1. r \in S /\ Id(r) \in t.seen /\ r.sup = 0
        BY <1>3, <1>7, <2>1
      <4>2. r.key = k0
        BY <2>5, <4>1 DEF Id
      <4>3. r \in T
        BY <1>3, <2>1, <2>2, <2>3, <2>6, <4>1
      <4> QED
        BY <4>1, <4>2, <4>3 DEF LiveIn
    <3> QED
      BY <3>1, <3>2
  <2>7. ASSUME NEW k \in Keys \ tainted
        PROVE  SoundIn(T, Shown(o, k)', k)
    <3>1. CASE k # k0
      BY <1>3, <1>5, <2>1, <2>3, <2>4, <3>1, SameLive
    <3>2. CASE k = k0
      <4>1. Shown(o, k)' = Shown(o, k)
        BY <1>5, <2>1
      <4>2. LiveIn(T, k) = P
        BY <2>6, <3>2
      <4>3. IF P = {} THEN Shown(o, k).deleted
            ELSE \A r \in P : Shown(o, k) = [event |-> r.event, deleted |-> r.deleted]
        BY <1>3, <2>1, <3>2
      <4>4. \A q, r \in P : q = r
        BY <1>3, <2>1, <3>2
      <4> QED
        BY <4>1, <4>2, <4>3, <4>4 DEF SoundIn
    <3> QED
      BY <3>1, <3>2
  <2>8. ASSUME NEW n \in DOMAIN u.todo, u.todo[n].key \notin tainted
        PROVE  \E r \in LiveIn(T, u.todo[n].key) : Id(r) = u.todo[n]
    <3>1. PICK m \in DOMAIN t.todo : u.todo[n] # i1 /\ u.todo[n] = t.todo[m]
      BY <1>1, <2>1, <2>2, OperatorTail DEF i0, k0
    <3>2. PICK r \in LiveIn(S, t.todo[m].key) : Id(r) = t.todo[m]
      BY <1>3, <2>8, <3>1
    <3> QED
      BY <2>3, <3>1, <3>2 DEF LiveIn
  <2> QED
    BY <2>1, <2>7, <2>8
<1> QED
  BY <1>10, <1>11, <1>12, <1>13, <1>14

LEMMA LoneRevertStep ==
    ASSUME TypeInv, TypeInv', JobInv, RowInv, RevertInv, AloneInv, LoneRevertInv,
           SoundUnlessRaced, [Next]_vars
    PROVE  LoneRevertInv'
<1> SUFFICES ASSUME NEW o \in Operators
             PROVE  LoneRevertAt(o)'
  BY DEF LoneRevertInv
<1>0. /\ Worker \in Transactions /\ Operators \subseteq Transactions /\ Worker \notin Operators
      /\ RevertAt(o) /\ LoneRevertAt(o)
  BY RacesAssumption DEF Transactions, RevertInv, LoneRevertInv
<1>1. ASSUME NEW x \in Transactions,
             (x # o /\ Moves(x)) \/ Begins(x) \/ Commits(x) \/ Stays(x)
      PROVE  LoneRevertAt(o)'
  <2> SUFFICES ASSUME Alone(o)'
               PROVE  LoneRevertAt(o)'
    BY DEF LoneRevertAt
  <2>1. CASE x = o /\ Begins(x)
    <3>1. /\ tx'[o].at = "select" /\ history'.tainted = history.tainted
          /\ rows' = rows /\ canonical' = canonical /\ DOMAIN tx'[o].canonical = {}
          /\ DOMAIN tx'[o].sup = {} /\ tx'[o].new = {} /\ tx'[o].todo = <<>>
      BY <1>0, <2>1 DEF Begins
    <3>2. View(o)' = rows /\ \A k \in Keys : Shown(o, k)' = canonical[k]
      BY <1>0, <3>1, FreshView
    <3>3. \A k \in Keys \ history'.tainted : SoundIn(View(o)', Shown(o, k)', k)
      BY <3>1, <3>2, SoundIs DEF SoundUnlessRaced
    <3> QED
      BY <3>1, <3>3 DEF LoneRevertAt, SoundIn, LiveIn
  <2>2. CASE /\ tx'[o] = tx[o] /\ rows' = rows /\ canonical' = canonical
             /\ history'.tainted = history.tainted /\ Alone(o)
    <3>1. View(o)' = View(o)
      BY <2>2 DEF View, Id
    <3>2. \A k : Shown(o, k)' = Shown(o, k)
      BY <2>2 DEF Shown
    <3>3. This(o)' = This(o)
      BY <2>2 DEF This
    <3>4. PutBack(o)' = PutBack(o)
      BY <2>2, <3>1 DEF PutBack, Id
    <3> QED
      BY <1>0, <2>2, <3>1, <3>2, <3>3, <3>4 DEF LoneRevertAt, SoundIn, LiveIn, Id
  <2> QED
    BY <1>0, <1>1, <2>1, <2>2, LoneAside
<1>2. CASE PageStep
  BY <1>0, <1>1, <1>2, PageMoves, PollBegins, PageCommits DEF PageStep
<1>3. ASSUME NEW p \in Operators, RevertStep(p)
      PROVE  LoneRevertAt(o)'
  <2>1. CASE p = o
    BY <1>0, <1>1, <1>3, <2>1, LoneRevertMoves, RevertBegins, RevertCommits DEF RevertStep
  <2>2. CASE p # o
    BY <1>0, <1>1, <1>3, <2>2, RevertMoves, RevertBegins, RevertCommits DEF RevertStep
  <2> QED
    BY <2>1, <2>2
<1>4. CASE \/ \E j \in 1..Len(jobs) : Retry(j)
           \/ \E x \in Transactions : Rollback(x)
           \/ UNCHANGED vars
  BY <1>0, <1>1, <1>4, OtherStays
<1> QED
  BY <1>2, <1>3, <1>4 DEF Next

-----------------------------------------------------------------------------
(* What is committed.                                                      *)

\* The canonical rows a transaction has written by its end are of the keys
\* whose snapshots it has written.
LEMMA Written ==
    ASSUME TypeInv, JobInv, PageOrderInv, PageInv, RevertInv, RowInv, NEW x \in Transactions,
           Commits(x)
    PROVE  /\ \A r \in tx[x].new : r.key \in DOMAIN tx[x].canonical
           /\ \A i \in DOMAIN tx[x].sup : i.key \in DOMAIN tx[x].canonical
<1>1. Open(x) /\ tx[x].todo = <<>>
  BY DEF Commits
<1>2. CASE x = Worker
  <2>1. tx[x].at # "write"
    BY <1>1, <1>2 DEF PageOrderInv, Commits
  <2> QED
    BY <1>1, <1>2, <2>1 DEF PageInv
<1>3. CASE x \in Operators
  <2>1. tx[x].new = {} /\ RevertAt(x)
    BY <1>3 DEF RowInv, RevertInv
  <2>2. tx[x].at # "canonical"
    BY <1>1, <2>1 DEF RevertAt
  <2> QED
    BY <1>1, <2>1, <2>2 DEF RevertAt
<1> QED
  BY <1>2, <1>3 DEF Transactions

LEMMA SoundStep ==
    ASSUME TypeInv, JobInv, RowInv, PageOrderInv, PageInv, RevertInv, LonePageInv,
           LoneRevertInv, SoundUnlessRaced, [Next]_vars
    PROVE  SoundUnlessRaced'
<1>1. PICK x \in Transactions : Moves(x) \/ Begins(x) \/ Commits(x) \/ Stays(x)
  BY StepKinds
<1>2. CASE Moves(x) \/ Begins(x) \/ Stays(x)
  <2>1. rows' = rows /\ canonical' = canonical /\ history'.tainted = history.tainted
    BY <1>2 DEF Moves, Begins, Stays
  <2> QED
    BY <2>1 DEF SoundUnlessRaced, Sound, LiveIn
<1>3. ASSUME Commits(x), NEW k \in Keys, k \notin history'.tainted
      PROVE  SoundIn(View(x), Shown(x, k), k)
  <2>1. /\ Open(x) /\ tx[x].todo = <<>> /\ history'.tainted = Tainted(x)
        /\ x # Worker => tx[x].at # "select"
    BY <1>3 DEF Commits
  <2>2. CASE x \in history.raced \/ (k \notin history.tainted /\ k \notin DOMAIN tx[x].canonical)
    <3>1. k \notin DOMAIN tx[x].canonical /\ k \notin history.tainted
      BY <1>3, <2>1, <2>2 DEF Tainted
    <3>2. /\ \A r \in tx[x].new : r.key # k
          /\ \A i \in DOMAIN tx[x].sup : i.key # k
      BY <1>3, <3>1, Written
    <3>3. Shown(x, k) = canonical[k] /\ SoundIn(rows, canonical[k], k)
      BY <3>1, SoundIs DEF Shown, SoundUnlessRaced
    <3>4. \A r \in Base(x) : r.key = k => r \in rows /\ Marked(tx[x].sup, r) = r
      <4> SUFFICES ASSUME NEW r \in Base(x), r.key = k
                   PROVE  r \in rows /\ Marked(tx[x].sup, r) = r
        OBVIOUS
      <4>1. Id(r).key = k
        BY DEF Id
      <4> QED
        BY <3>2, <4>1 DEF Base, Marked
    <3>5. \A r \in Base(x) : Marked(tx[x].sup, r).key = r.key
      BY BaseType, MarkedFacts
    <3>6. View(x) = {Marked(tx[x].sup, r) : r \in Base(x)} /\ rows \subseteq Base(x)
      BY ViewIs DEF Base
    <3>7. LiveIn(View(x), k) = LiveIn(rows, k)
      BY <3>4, <3>5, <3>6 DEF LiveIn
    <3> QED
      BY <3>3, <3>7, SameLive
  <2>3. CASE x = Worker /\ x \notin history.raced
    <3>1. k \in DOMAIN tx[x].canonical \/ k \notin history.tainted
      BY <1>3, <2>1, <2>3 DEF Tainted
    <3>2. tx[x].at # "write"
      BY <2>1, <2>3 DEF PageOrderInv
    <3> QED
      BY <2>1, <2>3, <3>1, <3>2 DEF LonePageInv, Alone
  <2>4. CASE x \in Operators /\ x # Worker /\ x \notin history.raced
    <3>1. k \notin history.tainted
      BY <1>3, <2>1, <2>4 DEF Tainted
    <3>2. RevertAt(x) /\ LoneRevertAt(x)
      BY <2>4 DEF RevertInv, LoneRevertInv
    <3>3. tx[x].at \notin {"canonical", "take"}
      BY <2>1, <3>2 DEF RevertAt
    <3> QED
      BY <2>1, <2>4, <3>1, <3>2, <3>3 DEF LoneRevertAt, Alone
  <2> QED
    BY <2>2, <2>3, <2>4 DEF Transactions
<1>4. CASE Commits(x)
  <2>1. rows' = View(x) /\ \A k \in Keys : canonical'[k] = Shown(x, k)
    BY <1>4 DEF Commits
  <2>2. \A k \in Keys : k \in history'.tainted \/ SoundIn(rows', canonical'[k], k)
    BY <1>3, <1>4, <2>1
  <2> QED
    BY <2>2 DEF SoundUnlessRaced, Sound, SoundIn, LiveIn
<1> QED
  BY <1>1, <1>2, <1>4

-----------------------------------------------------------------------------
(* The cursor.                                                             *)

LEMMA RewindStep ==
    ASSUME TypeInv, JobInv, RewindInv, [Next]_vars
    PROVE  RewindInv'
<1>0. /\ Worker \in Transactions /\ Operators \subseteq Transactions /\ Worker \notin Operators
      /\ jobs \in Seq(Job) /\ Len(jobs) \in Nat /\ cursor \in Nat /\ history.owed \in SUBSET Nat
      /\ Open(Worker) => tx[Worker].job \in 1..Len(jobs)
  BY RacesAssumption, LenProperties, HistoryType DEF Transactions, TypeInv, JobInv
<1>1. ASSUME NEW x \in Transactions \ {Worker}, Moves(x) \/ Begins(x) \/ Commits(x) \/ Stays(x),
             cursor' = cursor, history'.owed = history.owed, history'.retried = history.retried
      PROVE  RewindInv'
  <2>1. /\ tx'[Worker] = tx[Worker]
        /\ \A j \in 1..Len(jobs) : jobs'[j].from = jobs[j].from
    BY <1>0, <1>1 DEF Moves, Begins, Commits, Stays
  <2> QED
    BY <1>0, <1>1, <2>1 DEF RewindInv, Open
<1>2. CASE Dedup \/ AimSupersede \/ Supersede \/ WriteEvent
  BY <1>2, PageMoves DEF Moves, RewindInv, Open
<1>3. CASE Poll
  BY <1>3, PollBegins DEF Begins, RewindInv
<1>4. CASE CommitPage
  <2> DEFINE j == jobs[tx[Worker].job]
  <2>1. /\ Open(Worker) /\ cursor' = j.target /\ j \in Job
        /\ history'.owed = IF history.retried THEN {p \in history.owed : p > j.target}
                           ELSE history.owed \ ((j.from + 1)..j.target)
    BY <1>4, CommitPageEffect
  <2>2. j.from \in Nat /\ j.target \in Nat
    BY <2>1 DEF Job
  <2>3. ~Open(Worker)'
    BY <1>4, PageCommits, NoTxFields DEF Commits, Open
  <2>4. history.retried \/ j.from = cursor
    BY <2>1 DEF RewindInv
  <2> HIDE DEF j
  <2>5. \A p \in history'.owed : p > cursor'
    BY <1>0, <2>1, <2>2, <2>4 DEF RewindInv
  <2> QED
    BY <2>3, <2>5 DEF RewindInv
<1>5. ASSUME NEW o \in Operators, RevertStep(o)
      PROVE  RewindInv'
  <2>1. ASSUME NEW j \in 1..Len(jobs), BeginRevert(o, j)
        PROVE  RewindInv'
    <3>1. Begins(o)
      BY <2>1, RevertBegins
    <3>2. cursor' = cursor /\ history'.owed = history.owed /\ history'.retried = history.retried
      BY <3>1 DEF Begins
    <3> QED
      BY <1>0, <1>1, <3>1, <3>2
  <2>2. CASE \/ SelectLive(o) \/ FindPrior(o) \/ RestorePrior(o) \/ RestoreCanonical(o)
             \/ MarkReverted(o)
    <3>1. Moves(o)
      BY <2>2, RevertMoves
    <3>2. cursor' = cursor /\ history' = history
      BY <3>1 DEF Moves
    <3> QED
      BY <1>0, <1>1, <3>1, <3>2
  <2>3. CASE CommitRevert(o)
    BY <1>0, <1>1, <2>3, RevertCommits, CommitRevertEffect
  <2> QED
    BY <1>5, <2>1, <2>2, <2>3 DEF RevertStep
<1>6. ASSUME NEW j \in 1..Len(jobs), Retry(j)
      PROVE  RewindInv'
  <2>1. /\ UNCHANGED <<jobs, tx>> /\ jobs[j] \in Job /\ cursor' = jobs[j].from
        /\ history'.retried = Open(Worker)
        /\ history'.owed = {p \in history.owed : p > jobs[j].from}
                           \cup ((jobs[j].from + 1)..jobs[j].target)
    BY <1>6, RetryEffect
  <2>2. jobs[j].from \in Nat /\ jobs[j].target \in Nat
    BY <2>1 DEF Job
  <2>3. \A p \in history'.owed : p > cursor'
    BY <1>0, <2>1, <2>2
  <2> QED
    BY <2>1, <2>3 DEF RewindInv, Open
<1>7. ASSUME NEW x \in Transactions, Rollback(x)
      PROVE  RewindInv'
  <2>1. /\ UNCHANGED <<jobs, cursor>> /\ history'.owed = history.owed
        /\ tx'[x] = NoTx /\ \A y \in Transactions \ {x} : tx'[y] = tx[y]
        /\ history'.retried = (history.retried /\ x # Worker)
    BY <1>7, RollbackEffect
  <2>2. CASE x = Worker
    BY <2>1, <2>2, NoTxFields DEF RewindInv, Open
  <2>3. CASE x # Worker
    BY <1>0, <2>1, <2>3, HistoryType DEF RewindInv, Open
  <2> QED
    BY <2>2, <2>3
<1>8. CASE UNCHANGED vars
  BY <1>8 DEF vars, RewindInv, Open
<1> QED
  BY <1>2, <1>3, <1>4, <1>5, <1>6, <1>7, <1>8 DEF Next, PageStep

-----------------------------------------------------------------------------
(* The theorems.                                                           *)

IInv ==
    /\ TypeInv /\ JobInv /\ RowInv /\ PageOrderInv /\ PageInv /\ RevertInv
    /\ AloneInv /\ LonePageInv /\ LoneRevertInv /\ RewindInv /\ SoundUnlessRaced

LEMMA InitInv == Init => IInv
<1> SUFFICES ASSUME Init
             PROVE  IInv
  OBVIOUS
<1>1. /\ feed \in [1..MaxEvents -> Event] /\ MaxEvents \in Nat
      /\ rows = {} /\ cursor = 0 /\ jobs = <<>>
      /\ canonical = [k \in Keys |-> [event |-> 0, deleted |-> FALSE]]
      /\ tx = [x \in Transactions |-> NoTx]
      /\ history = [raced |-> {}, tainted |-> {}, owed |-> {},
                    retried |-> FALSE, retries |-> 0]
  BY RacesAssumption DEF Init, Event
<1>2. feed \in Seq(Event)
  BY <1>1, SeqDef
<1>3. Worker \in Transactions /\ Operators \subseteq Transactions
  BY DEF Transactions
<1>4. \A x \in Transactions : tx[x] = NoTx /\ ~Open(x)
  BY <1>1, NoTxFields DEF Open
<1>5. TypeInv
  <2>1. canonical \in [Keys -> Show] /\ history \in History /\ jobs \in Seq(Job)
    BY <1>1, EmptySeq DEF Show, History
  <2>2. /\ tx \in [Transactions -> Tx] /\ tx[Worker].todo \in Seq(1..Len(feed))
        /\ \A o \in Operators : tx[o].todo \in Seq(Ids)
    BY <1>1, <1>3, <1>4, NoTxType, NoTxFields, EmptySeq
  <2> QED
    BY <1>1, <1>2, <2>1, <2>2 DEF TypeInv
<1>6. JobInv /\ AloneInv /\ PageInv /\ LonePageInv
  BY <1>3, <1>4 DEF JobInv, AloneInv, PageInv, LonePageInv, Alone
<1>7. RevertInv /\ LoneRevertInv
  BY <1>3, <1>4 DEF RevertInv, RevertAt, LoneRevertInv, LoneRevertAt, Alone
<1>8. RowInv /\ PageOrderInv
  <2>1. DOMAIN tx[Worker].todo = {}
    BY <1>3, <1>4, NoTxFields
  <2>2. RowInv
    BY <1>1, <1>3, <1>4, NoTxFields DEF RowInv
  <2> QED
    BY <1>3, <1>4, <2>1, <2>2, NoTxFields DEF PageOrderInv
<1>9. RewindInv
  BY <1>1, <1>3, <1>4 DEF RewindInv
<1>10. SoundUnlessRaced
  BY <1>1 DEF SoundUnlessRaced, Sound, LiveIn
<1> QED
  BY <1>5, <1>6, <1>7, <1>8, <1>9, <1>10 DEF IInv

LEMMA NextInv == IInv /\ [Next]_vars => IInv'
<1> SUFFICES ASSUME IInv, [Next]_vars
             PROVE  IInv'
  OBVIOUS
<1>1. /\ TypeInv /\ JobInv /\ RowInv /\ PageOrderInv /\ PageInv /\ RevertInv
      /\ AloneInv /\ LonePageInv /\ LoneRevertInv /\ RewindInv /\ SoundUnlessRaced
  BY DEF IInv
<1>2. TypeInv' /\ JobInv' /\ RowInv' /\ PageOrderInv'
  BY <1>1, TypeStep, JobStep, RowStep, PageOrderStep
<1>3. PageInv' /\ RevertInv' /\ AloneInv' /\ RewindInv'
  BY <1>1, PageInvStep, RevertInvStep, AloneStep, RewindStep
<1>4. LonePageInv' /\ LoneRevertInv' /\ SoundUnlessRaced'
  BY <1>1, <1>2, LonePageStep, LoneRevertStep, SoundStep
<1> QED
  BY <1>2, <1>3, <1>4 DEF IInv

LEMMA Inductive == Spec => []IInv
BY InitInv, NextInv, PTL DEF Spec

\* The types the state of the transactions and the tables keeps, whatever the
\* interleaving.
THEOREM RacesTypeOk == Spec => []TypeInv
<1>1. IInv => TypeInv
  BY DEF IInv
<1> QED
  BY <1>1, Inductive, PTL

\* For any number of students, operators, pages and retries: every key but
\* those last written in a race has at most one live snapshot, and canonical
\* in step with it.
THEOREM SoundKeys == Spec => []SoundUnlessRaced
<1>1. IInv => SoundUnlessRaced
  BY DEF IInv
<1> QED
  BY <1>1, Inductive, PTL

\* For any interleaving, what a retry asked for again lies ahead of the cursor
\* until a page has read it or a page open at the retry has gone past it.
THEOREM RewindHolds == Spec => []RewindLostOnlyToOpenPage
<1>1. IInv => RewindLostOnlyToOpenPage
  BY DEF IInv, RewindInv, RewindLostOnlyToOpenPage
<1> QED
  BY <1>1, Inductive, PTL

\* The step of NewestWriteStaysLive.
OutOfUse(s) ==
    \/ TakenOut(s)'
    \/ \E w \in rows' :
          /\ w.gen = s.sup /\ w.key = s.key /\ ~Stored(w)
          /\ ~Stored(s) \/ Worker \notin history.raced => s.event < w.event

LEMMA PageTakesOut ==
    ASSUME IInv, Commits(Worker), NEW s \in rows', s.sup # 0,
           ~\E r \in rows : Id(r) = Id(s) /\ r.sup # 0
    PROVE  OutOfUse(s)
<1> DEFINE t == tx[Worker]
           i == Id(s)
<1>0. Worker \in Transactions /\ TypeInv /\ JobInv /\ RowInv /\ PageOrderInv /\ PageInv
  BY DEF Transactions, IInv
<1>1. rows' = View(Worker) /\ Open(Worker) /\ t.todo = <<>>
  BY DEF Commits
<1>2. PICK r \in Base(Worker) : s = Marked(t.sup, r) /\ i = Id(r) /\ s.gen = r.gen /\ r \in Row
  BY <1>0, <1>1, ViewFacts
<1>3. t.sup \in PartialFcn(Ids, Nat) /\ Base(Worker) \in SUBSET Row
  BY <1>0, BaseType
<1>4. /\ i \in Ids /\ s.key = i.key /\ s.event = i.event /\ s.gen = i.gen
      /\ i \in DOMAIN t.sup => s.sup = t.sup[i]
      /\ i \notin DOMAIN t.sup => s = r
  BY <1>2, <1>3, MarkedFacts
<1>5. i \in DOMAIN t.sup
  BY <1>0, <1>2, <1>4 DEF Base, RowInv
<1>6. s.sup = t.job /\ \E w \in t.new : w.key = i.key /\ Older(i, w.event)
  <2>1. t.at # "write"
    BY <1>0, <1>1 DEF PageOrderInv
  <2> QED
    BY <1>0, <1>1, <1>4, <1>5, <2>1 DEF PageInv
<1>7. PICK w \in t.new : w.key = i.key /\ Older(i, w.event)
  BY <1>6
<1>8. w \in Base(Worker) /\ w \in Row /\ w.gen = t.job
  BY <1>0, <1>3 DEF Base, RowInv
<1>9. PICK v \in rows' : v = Marked(t.sup, w) /\ Id(v) = Id(w)
  BY <1>0, <1>1, <1>8, ViewFacts
<1>10. v.gen = t.job /\ v.key = i.key /\ v.event = w.event
  BY <1>3, <1>7, <1>8, <1>9, MarkedFacts
<1>11. ~jobs[t.job].done
  BY <1>0, <1>1 DEF JobInv
<1>12. ASSUME NEW q \in rows
       PROVE  q.gen # t.job /\ Id(q).gen = q.gen
  BY <1>0, <1>11 DEF RowInv, Id
<1>13. ~Stored(v)
  BY <1>8, <1>9, <1>12, IdType DEF Stored
<1>14. ~Stored(s) => i.gen = t.job
  BY <1>0, <1>2, <1>4 DEF Base, RowInv, Stored
<1>15. ~Stored(s) \/ Worker \notin history.raced => s.event < v.event
  BY <1>4, <1>7, <1>10, <1>14 DEF Older
<1> QED
  BY <1>4, <1>6, <1>10, <1>13, <1>15 DEF OutOfUse

LEMMA RevertTakesOut ==
    ASSUME IInv, NEW o \in Operators, Commits(o), NEW s \in rows', s.sup # 0,
           ~\E r \in rows : Id(r) = Id(s) /\ r.sup # 0
    PROVE  OutOfUse(s)
<1> DEFINE t == tx[o]
           i == Id(s)
<1>0. o \in Transactions /\ o # Worker /\ TypeInv /\ JobInv /\ RowInv /\ RevertAt(o)
  BY RacesAssumption DEF Transactions, IInv, RevertInv
<1>1. rows' = View(o) /\ Open(o)
  BY DEF Commits
<1>2. PICK r \in rows : s = Marked(t.sup, r) /\ i = Id(r) /\ s.gen = r.gen /\ r \in Row
  BY <1>0, <1>1, ViewFacts, ViewUnique
<1>3. t.sup \in PartialFcn(Ids, Nat)
  BY <1>0, BaseType
<1>4. /\ s.gen = i.gen
      /\ i \in DOMAIN t.sup => s.sup = t.sup[i]
      /\ i \notin DOMAIN t.sup => s = r
  BY <1>2, <1>3, MarkedFacts
<1>5. s.sup = t.job /\ s.gen = Target(o)
  BY <1>0, <1>1, <1>2, <1>4 DEF RevertAt
<1>6. t.job \in 1..Len(jobs) /\ jobs[t.job].kind = "revert"
  BY <1>0, <1>1 DEF JobInv
<1>7. jobs'[t.job].kind = "revert" /\ jobs'[t.job].target = Target(o)
  BY <1>6 DEF Commits, Target
<1> QED
  BY <1>5, <1>7 DEF OutOfUse, TakenOut

\* For any interleaving of reverts and a page, a snapshot goes out of use only
\* in the commit of a revert of its own job or of a page that has written its
\* key; what a page commits, and what it supersedes when it runs alone, leaves
\* the newest live.
THEOREM NewestWriteHolds == Spec => NewestWriteStaysLive
<1>1. ASSUME IInv, [Next]_vars, NEW s \in rows', s.sup # 0,
             ~\E r \in rows : Id(r) = Id(s) /\ r.sup # 0
      PROVE  OutOfUse(s)
  <2>1. PICK x \in Transactions : Moves(x) \/ Begins(x) \/ Commits(x) \/ Stays(x)
    BY <1>1, StepKinds DEF IInv
  <2>2. CASE Moves(x) \/ Begins(x) \/ Stays(x)
    <3>1. rows' = rows
      BY <2>2 DEF Moves, Begins, Stays
    <3> QED
      BY <1>1, <3>1
  <2>3. CASE Commits(x)
    BY <1>1, <2>3, PageTakesOut, RevertTakesOut DEF Transactions
  <2> QED
    BY <2>1, <2>2, <2>3
<1>2. IInv /\ [Next]_vars =>
        [\A s \in rows' :
            s.sup # 0 /\ ~(\E r \in rows : Id(r) = Id(s) /\ r.sup # 0) =>
               \/ TakenOut(s)'
               \/ \E w \in rows' :
                     /\ w.gen = s.sup /\ w.key = s.key /\ ~Stored(w)
                     /\ ~Stored(s) \/ Worker \notin history.raced => s.event < w.event]_vars
  BY <1>1 DEF OutOfUse
<1> QED
  BY <1>2, Inductive, PTL DEF Spec, NewestWriteStaysLive

=============================================================================
