------------------------ MODULE ReconciliationProofs ------------------------
(***************************************************************************)
(* What reconciliation, its sweep and the two alert rules promise, for any *)
(* number of LEAs, tables, contents, changes and runs.                     *)
(***************************************************************************)
EXTENDS Reconciliation, SequenceTheorems, WellFoundedInduction, TLAPS

-----------------------------------------------------------------------------
(* Types.                                                                  *)

Change == [type : Types, value : Values, at : Nat]
Statuses == {"matched", "drift_detected", "skipped_quiet_window"}
RunRow == [lea : Leas, at : Nat, status : Statuses,
           truth : {"moved", "matched", "drift_detected"}]
RunningJob == [by : {"sweep", "forced"}, lea : Leas, canonical : Seq(Values),
               partner : Seq(Values), moved : BOOLEAN]
Contents == [Leas -> [Types -> Values]]

TypeInv ==
    /\ now \in Nat
    /\ partner \in Contents /\ canonical \in Contents
    /\ feed \in [Leas -> Seq(Change)]
    /\ applied \in [Leas -> Nat]
    /\ retries \in Nat /\ started \in Nat
    /\ written \in [Leas -> [Types -> Nat]]
    /\ last_event_at \in [Leas -> Nat \cup {NoDate}]
    /\ runs \in Seq(RunRow)
    /\ job = NoJob \/ job \in RunningJob
    /\ sweep \in [phase : {"rest", "running"}, targets : SUBSET Leas,
                  todo : SUBSET Leas, counted : SUBSET Leas]

-----------------------------------------------------------------------------
(* The invariants the properties rest on.                                  *)

\* What a run has hashed so far is what the tables and resources still hold,
\* unless one of them has moved; the partner is walked when every table is
\* hashed.
JobInv ==
    job # NoJob =>
        /\ Len(job.canonical) <= Len(TypeOrder)
        /\ Len(job.partner) <= Len(TypeOrder)
        /\ job.partner # <<>> => Len(job.canonical) = Len(TypeOrder)
        /\ ~job.moved =>
             /\ \A n \in DOMAIN job.canonical :
                   job.canonical[n] = canonical[job.lea][TypeOrder[n]]
             /\ \A n \in DOMAIN job.partner :
                   job.partner[n] = partner[job.lea][TypeOrder[n]]

\* The events of an LEA are in the order of their dates, and the date of a
\* cursor is that of the last event it has passed.
FeedInv == \A l \in Leas :
    /\ \A n \in DOMAIN feed[l] : feed[l][n].at <= now
    /\ \A m, n \in DOMAIN feed[l] : m <= n => feed[l][m].at <= feed[l][n].at
    /\ applied[l] <= Len(feed[l])
    /\ last_event_at[l] # NoDate =>
          /\ applied[l] \in DOMAIN feed[l]
          /\ last_event_at[l] = feed[l][applied[l]].at

\* A target that the sweep has left is counted.
SweepInv == sweep.targets \subseteq sweep.todo \cup sweep.counted

IInv == TypeInv /\ JobInv /\ FeedInv /\ SweepInv /\ VerdictTrueAtRest

-----------------------------------------------------------------------------
(* Facts about the operators.                                              *)

LEMMA Constants ==
    /\ LeaOrder \in Seq(Leas) /\ TypeOrder \in Seq(Types)
    /\ Len(TypeOrder) \in Nat /\ DOMAIN TypeOrder = 1..Len(TypeOrder)
    /\ \A n \in 1..Len(TypeOrder) : TypeOrder[n] \in Types
    /\ \A t \in Types : \E n \in 1..Len(TypeOrder) : TypeOrder[n] = t
    /\ \A n \in DOMAIN LeaOrder : LeaOrder[n] \in Leas
    /\ MaxEvents \in [Leas -> Nat]
    /\ AlertWindow \in Nat /\ CursorLagThreshold \in Nat /\ Retention \in Nat
    /\ CursorLagThreshold < Retention
    /\ 0 \in Values /\ Values \subseteq Nat
<1>1. /\ LeaOrder \in Seq(Leas) /\ TypeOrder \in Seq(Types) /\ MaxEvents \in [Leas -> Nat]
      /\ AlertWindow \in Nat /\ CursorLagThreshold \in Nat /\ Retention \in Nat
      /\ CursorLagThreshold < Retention /\ MaxValue \in Nat
  BY ReconciliationAssumption
<1>2. Len(TypeOrder) \in Nat /\ DOMAIN TypeOrder = 1..Len(TypeOrder)
  BY <1>1, LenProperties
<1>3. 0 \in Values /\ Values \subseteq Nat
  BY <1>1 DEF Values
<1> QED
  BY <1>1, <1>2, <1>3 DEF Leas, Types

LEMMA NoJobIsNone == \A j \in RunningJob : j # NoJob /\ j.by # "none"
BY DEF RunningJob, NoJob

\* What an append leaves of a sequence.
LEMMA AppendFacts ==
    ASSUME NEW S, NEW s \in Seq(S), NEW e \in S
    PROVE  /\ Append(s, e) \in Seq(S) /\ Len(s) \in Nat
           /\ Len(Append(s, e)) = Len(s) + 1
           /\ DOMAIN s = 1..Len(s) /\ DOMAIN Append(s, e) = 1..(Len(s) + 1)
           /\ \A n \in DOMAIN s : Append(s, e)[n] = s[n]
           /\ Append(s, e)[Len(s) + 1] = e
BY AppendProperties, LenProperties

\* A set of indices that is not empty and has an upper bound has a greatest one.
LEMMA Greatest ==
    ASSUME NEW N \in Nat, NEW T \in SUBSET (1..N), T # {}
    PROVE  \E m \in T : \A n \in T : n <= m
<1> DEFINE D == {N - m : m \in T}
<1>1. D \subseteq Nat /\ D # {}
  <2>1. \A m \in T : N - m \in Nat
    OBVIOUS
  <2> QED
    BY <2>1
<1>2. \E x \in D : \A y \in D : ~(<<y, x>> \in OpToRel(<, Nat))
  BY <1>1, NatLessThanWellFounded, WFMin
<1>3. PICK x \in D : \A y \in D : ~(y < x)
  BY <1>1, <1>2 DEF OpToRel
<1>4. PICK m \in T : x = N - m
  OBVIOUS
<1>5. ASSUME NEW n \in T
      PROVE  n <= m
  <2>1. ~(N - n < N - m)
    BY <1>3, <1>4
  <2>2. n \in Nat /\ m \in Nat
    OBVIOUS
  <2> QED
    BY <2>1, <2>2
<1> QED
  BY <1>5

\* An LEA with a run in the window is reported when the latest of them
\* detected drift.
LEMMA DriftReported ==
    ASSUME TypeInv, NEW n \in DOMAIN runs, runs[n].at >= now - AlertWindow,
           \A m \in DOMAIN runs : m >= n /\ runs[m].lea = runs[n].lea =>
               runs[m].status = "drift_detected"
    PROVE  runs[n].lea \in ReconciliationDrift(runs, now)
<1> DEFINE l == runs[n].lea
           T == Recent(runs, l, now)
<1>1. Len(runs) \in Nat /\ DOMAIN runs = 1..Len(runs)
  BY LenProperties DEF TypeInv
<1>2. T \in SUBSET (1..Len(runs)) /\ n \in T
  BY <1>1 DEF Recent
<1>3. PICK m \in T : \A k \in T : k <= m
  BY <1>1, <1>2, Greatest
<1>4. m \in DOMAIN runs /\ runs[m].lea = l /\ m >= n
  BY <1>1, <1>2, <1>3 DEF Recent
<1>5. runs[m].status = "drift_detected"
  BY <1>4
<1> QED
  BY <1>3, <1>5 DEF ReconciliationDrift

-----------------------------------------------------------------------------
(* Types are kept.                                                         *)

\* What BeginRun leaves, whoever begins it.
LEMMA BeginEffect ==
    ASSUME TypeInv, NEW by \in {"sweep", "forced"}, NEW l \in Leas, NEW q \in BOOLEAN,
           BeginRun(by, l, q)
    PROVE  /\ UNCHANGED <<now, world>> /\ started' \in Nat
           /\ \/ /\ job' = job /\ Counted(by, l)
                 /\ runs' = Append(runs, Run(l, "skipped_quiet_window", TRUE))
              \/ /\ runs' = runs /\ sweep' = sweep /\ job' \in RunningJob
                 /\ job'.lea = l /\ job'.canonical = <<>> /\ job'.partner = <<>>
<1>1. started' \in Nat
  BY DEF BeginRun, TypeInv
<1>2. CASE q /\ ~Quiet(l)
  BY <1>1, <1>2 DEF BeginRun
<1>3. CASE ~(q /\ ~Quiet(l))
  <2> DEFINE j == [by |-> by, lea |-> l, canonical |-> <<>>, partner |-> <<>>,
                   moved |-> FALSE]
  <2>1. <<>> \in Seq(Values)
    BY EmptySeq
  <2>2. /\ j \in RunningJob /\ j.lea = l /\ j.canonical = <<>> /\ j.partner = <<>>
    BY <2>1 DEF RunningJob
  <2> HIDE DEF j
  <2>3. job' = j /\ runs' = runs /\ sweep' = sweep /\ UNCHANGED <<now, world>>
    BY <1>3 DEF BeginRun, j
  <2> QED
    BY <1>1, <2>2, <2>3
<1> QED
  BY <1>2, <1>3

LEMMA RunType ==
    ASSUME TypeInv, NEW l \in Leas, NEW status \in Statuses, NEW moved \in BOOLEAN
    PROVE  /\ Run(l, status, moved) \in RunRow
           /\ Run(l, status, moved).status = status
           /\ moved => Run(l, status, moved).truth = "moved"
           /\ ~moved => Run(l, status, moved).truth =
                  IF canonical[l] = partner[l] THEN "matched" ELSE "drift_detected"
BY DEF Run, RunRow, TypeInv

LEMMA CountedEffect ==
    ASSUME TypeInv, NEW by, NEW l \in Leas, Counted(by, l)
    PROVE  /\ sweep' \in [phase : {"rest", "running"}, targets : SUBSET Leas,
                          todo : SUBSET Leas, counted : SUBSET Leas]
           /\ sweep'.phase = sweep.phase
           /\ SweepInv => SweepInv'
BY DEF TypeInv, Counted, SweepInv

\* A reconciliation that something moves under only learns that it has.
LEMMA MovedEffect ==
    ASSUME TypeInv, NEW l \in Leas, Moved(l)
    PROVE  /\ job' = NoJob \/ job' \in RunningJob
           /\ (job' # NoJob) = (job # NoJob)
           /\ job # NoJob =>
                /\ job'.lea = job.lea /\ job'.canonical = job.canonical
                /\ job'.partner = job.partner
                /\ ~job'.moved => ~job.moved /\ job.lea # l
<1>1. CASE job = NoJob
  BY <1>1 DEF Moved
<1>2. CASE job \in RunningJob /\ job.lea # l
  BY <1>2 DEF Moved
<1>3. CASE job \in RunningJob /\ job.lea = l
  <2>1. job # NoJob
    BY <1>3, NoJobIsNone
  <2>2. job' = [job EXCEPT !.moved = TRUE]
    BY <1>3, <2>1 DEF Moved
  <2>3. job' \in RunningJob
    BY <1>3, <2>2 DEF RunningJob
  <2> QED
    BY <1>3, <2>1, <2>2, <2>3, NoJobIsNone DEF RunningJob
<1> QED
  BY <1>1, <1>2, <1>3 DEF TypeInv

\* A change at the partner is put behind the events of its LEA.
LEMMA ChangeEffect ==
    ASSUME TypeInv, NEW l \in Leas, NEW t \in Types, NEW v \in Values, PartnerChanges(l, t, v)
    PROVE  /\ UNCHANGED <<now, applied, retries, canonical, written, last_event_at, runs,
                          started, sweep>>
           /\ partner' \in Contents /\ \A m \in Leas \ {l} : partner'[m] = partner[m]
           /\ feed' \in [Leas -> Seq(Change)]
           /\ \A m \in Leas \ {l} : feed'[m] = feed[m]
           /\ feed'[l] = Append(feed[l], [type |-> t, value |-> v, at |-> now])
           /\ [type |-> t, value |-> v, at |-> now] \in Change
           /\ Moved(l)
<1> DEFINE e == [type |-> t, value |-> v, at |-> now]
<1>1. e \in Change /\ feed[l] \in Seq(Change)
  BY DEF TypeInv, Change
<1> HIDE DEF e
<1>2. Append(feed[l], e) \in Seq(Change)
  BY <1>1, AppendFacts
<1>3. feed' = [feed EXCEPT ![l] = Append(feed[l], e)]
  BY DEF PartnerChanges, e
<1>4. /\ feed' \in [Leas -> Seq(Change)] /\ feed'[l] = Append(feed[l], e)
      /\ \A m \in Leas \ {l} : feed'[m] = feed[m]
  BY <1>2, <1>3 DEF TypeInv
<1>5. partner' \in Contents /\ \A m \in Leas \ {l} : partner'[m] = partner[m]
  BY DEF PartnerChanges, TypeInv, Contents
<1> QED
  BY <1>1, <1>4, <1>5 DEF PartnerChanges, e

\* One entry of a function of functions.
LEMMA EntryFacts ==
    ASSUME NEW A, NEW B, NEW C, NEW f \in [A -> [B -> C]], NEW a \in A, NEW b \in B, NEW c \in C
    PROVE  /\ [f EXCEPT ![a][b] = c] \in [A -> [B -> C]]
           /\ \A x \in A \ {a} : [f EXCEPT ![a][b] = c][x] = f[x]
<1> DEFINE g == [f[a] EXCEPT ![b] = c]
<1>1. g \in [B -> C]
  OBVIOUS
<1>2. [f EXCEPT ![a][b] = c] = [f EXCEPT ![a] = g]
  OBVIOUS
<1> HIDE DEF g
<1> QED
  BY <1>1, <1>2

LEMMA PageEffect ==
    ASSUME TypeInv, NEW l \in Leas, CommitPage(l)
    PROVE  LET p == applied[l] + 1
           IN  /\ UNCHANGED <<now, partner, feed, retries, runs, started, sweep>>
               /\ p \in DOMAIN feed[l] /\ p \in Nat
               /\ canonical' \in Contents /\ \A m \in Leas \ {l} : canonical'[m] = canonical[m]
               /\ written' \in [Leas -> [Types -> Nat]]
               /\ applied' \in [Leas -> Nat] /\ applied'[l] = p
               /\ last_event_at' \in [Leas -> Nat \cup {NoDate}]
               /\ last_event_at'[l] = feed[l][p].at
               /\ \A m \in Leas \ {l} :
                     applied'[m] = applied[m] /\ last_event_at'[m] = last_event_at[m]
               /\ Moved(l)
<1> DEFINE p == applied[l] + 1
           e == feed[l][p]
<1>1. p \in DOMAIN feed[l] /\ p \in Nat /\ feed[l] \in Seq(Change)
  BY DEF CommitPage, TypeInv
<1>2. e \in Change
  BY <1>1, ElementOfSeq, LenProperties
<1>3. e.type \in Types /\ e.value \in Values /\ e.at \in Nat
  BY <1>2 DEF Change
<1>4. /\ \/ /\ canonical' = [canonical EXCEPT ![l][e.type] = e.value]
            /\ written' = [written EXCEPT ![l][e.type] = p]
         \/ UNCHANGED <<canonical, written>>
      /\ applied' = [applied EXCEPT ![l] = p]
      /\ last_event_at' = [last_event_at EXCEPT ![l] = e.at]
      /\ UNCHANGED <<now, partner, feed, retries, runs, started, sweep>>
      /\ Moved(l)
  BY DEF CommitPage
<1> HIDE DEF e, p
<1>5. canonical' \in Contents /\ \A m \in Leas \ {l} : canonical'[m] = canonical[m]
  <2>1. PICK t \in Types, v \in Values : t = e.type /\ v = e.value
    BY <1>3
  <2>2. canonical' = [canonical EXCEPT ![l][t] = v] \/ canonical' = canonical
    BY <1>4, <2>1
  <2>3. canonical \in [Leas -> [Types -> Values]]
    BY DEF TypeInv, Contents
  <2>4. /\ [canonical EXCEPT ![l][t] = v] \in Contents
        /\ \A m \in Leas \ {l} : [canonical EXCEPT ![l][t] = v][m] = canonical[m]
    BY <2>3, EntryFacts DEF Contents
  <2> QED
    BY <2>2, <2>3, <2>4 DEF Contents
<1>6. written' \in [Leas -> [Types -> Nat]]
  <2>1. PICK t \in Types : t = e.type
    BY <1>3
  <2>2. written' = [written EXCEPT ![l][t] = p] \/ written' = written
    BY <1>4, <2>1
  <2>3. written \in [Leas -> [Types -> Nat]]
    BY DEF TypeInv
  <2>4. [written EXCEPT ![l][t] = p] \in [Leas -> [Types -> Nat]]
    BY <1>1, <2>3, EntryFacts
  <2> QED
    BY <2>2, <2>3, <2>4
<1>7. /\ applied' \in [Leas -> Nat] /\ applied'[l] = p
      /\ last_event_at' \in [Leas -> Nat \cup {NoDate}] /\ last_event_at'[l] = e.at
      /\ \A m \in Leas \ {l} :
            applied'[m] = applied[m] /\ last_event_at'[m] = last_event_at[m]
  BY <1>1, <1>3, <1>4 DEF TypeInv
<1> QED
  BY <1>1, <1>4, <1>5, <1>6, <1>7 DEF e, p

LEMMA RetryEffect ==
    ASSUME TypeInv, NEW l \in Leas, Retry(l)
    PROVE  /\ UNCHANGED <<now, partner, feed, canonical, written, runs, started, job, sweep>>
           /\ retries' \in Nat
           /\ applied' \in [Leas -> Nat] /\ applied'[l] <= applied[l]
           /\ last_event_at' \in [Leas -> Nat \cup {NoDate}] /\ last_event_at'[l] = NoDate
           /\ \A m \in Leas \ {l} :
                 applied'[m] = applied[m] /\ last_event_at'[m] = last_event_at[m]
<1>1. PICK before \in 0..applied[l] : applied' = [applied EXCEPT ![l] = before]
  BY DEF Retry
<1>2. last_event_at' = [last_event_at EXCEPT ![l] = NoDate]
  BY DEF Retry
<1>3. retries' \in Nat
  BY DEF Retry, TypeInv
<1> QED
  BY <1>1, <1>2, <1>3 DEF Retry, TypeInv

\* A read of a table or a walk of a resource: the next content, behind those
\* already hashed.
LEMMA ReadEffect ==
    ASSUME TypeInv, JobInv, ReadTable
    PROVE  LET n == Len(job.canonical) + 1
               v == canonical[job.lea][TypeOrder[n]]
           IN  /\ job \in RunningJob /\ job' \in RunningJob
               /\ n \in 1..Len(TypeOrder) /\ v \in Values
               /\ job'.lea = job.lea /\ job'.partner = job.partner /\ job.partner = <<>>
               /\ job'.moved = job.moved
               /\ job'.canonical = Append(job.canonical, v)
               /\ UNCHANGED <<now, world, runs, started, sweep>>
<1> DEFINE n == Len(job.canonical) + 1
           v == canonical[job.lea][TypeOrder[n]]
           s == Append(job.canonical, v)
<1>1. /\ job # NoJob /\ job \in RunningJob /\ n <= Len(TypeOrder)
      /\ job' = [job EXCEPT !.canonical = s]
      /\ UNCHANGED <<now, world, runs, started, sweep>>
  BY DEF ReadTable, TablesHashed, TypeInv
<1>2. job.canonical \in Seq(Values) /\ job.lea \in Leas /\ Len(job.canonical) \in Nat
  BY <1>1, LenProperties DEF RunningJob
<1>3. n \in 1..Len(TypeOrder)
  BY <1>1, <1>2, Constants
<1>4. v \in Values
  BY <1>2, <1>3, Constants DEF TypeInv, Contents
<1> HIDE DEF v
<1>5. s \in Seq(Values)
  BY <1>2, <1>4, AppendFacts
<1> HIDE DEF s
<1>6. /\ job' \in RunningJob /\ job'.canonical = s /\ job'.lea = job.lea
      /\ job'.partner = job.partner /\ job'.moved = job.moved
  BY <1>1, <1>5 DEF RunningJob
<1>7. job.partner = <<>>
  BY <1>1, <1>2, <1>3, Constants DEF JobInv
<1> QED
  BY <1>1, <1>3, <1>4, <1>6, <1>7 DEF s, v

LEMMA WalkEffect ==
    ASSUME TypeInv, JobInv, WalkResource
    PROVE  LET n == Len(job.partner) + 1
               v == partner[job.lea][TypeOrder[n]]
           IN  /\ job \in RunningJob /\ job' \in RunningJob
               /\ n \in 1..Len(TypeOrder) /\ v \in Values
               /\ job'.lea = job.lea /\ job'.canonical = job.canonical
               /\ Len(job.canonical) = Len(TypeOrder)
               /\ job'.moved = job.moved
               /\ job'.partner = Append(job.partner, v)
               /\ UNCHANGED <<now, world, runs, started, sweep>>
<1> DEFINE n == Len(job.partner) + 1
           v == partner[job.lea][TypeOrder[n]]
           s == Append(job.partner, v)
<1>1. /\ job # NoJob /\ job \in RunningJob /\ n <= Len(TypeOrder)
      /\ Len(job.canonical) = Len(TypeOrder)
      /\ job' = [job EXCEPT !.partner = s]
      /\ UNCHANGED <<now, world, runs, started, sweep>>
  BY DEF WalkResource, TablesHashed, TypeInv
<1>2. job.partner \in Seq(Values) /\ job.lea \in Leas /\ Len(job.partner) \in Nat
  BY <1>1, LenProperties DEF RunningJob
<1>3. n \in 1..Len(TypeOrder)
  BY <1>1, <1>2, Constants
<1>4. v \in Values
  BY <1>2, <1>3, Constants DEF TypeInv, Contents
<1> HIDE DEF v
<1>5. s \in Seq(Values)
  BY <1>2, <1>4, AppendFacts
<1> HIDE DEF s
<1>6. /\ job' \in RunningJob /\ job'.partner = s /\ job'.lea = job.lea
      /\ job'.canonical = job.canonical /\ job'.moved = job.moved
  BY <1>1, <1>5 DEF RunningJob
<1> QED
  BY <1>1, <1>3, <1>4, <1>6 DEF s, v


\* A run that is finished leaves its row: a verdict of how the hashes stand,
\* and how the two sides stand, unless one has moved.
LEMMA FinishEffect ==
    ASSUME TypeInv, FinishRun
    PROVE  LET status == IF Drift = {} THEN "matched" ELSE "drift_detected"
           IN  /\ job \in RunningJob /\ job' = NoJob
               /\ job.lea \in Leas /\ job.moved \in BOOLEAN /\ status \in Statuses
               /\ Len(job.partner) = Len(TypeOrder)
               /\ runs' = Append(runs, Run(job.lea, status, job.moved))
               /\ Counted(job.by, job.lea)
               /\ UNCHANGED <<now, world, started>>
<1>1. job \in RunningJob
  BY DEF FinishRun, TypeInv
<1>2. job.lea \in Leas /\ job.moved \in BOOLEAN
  BY <1>1 DEF RunningJob
<1> QED
  BY <1>1, <1>2 DEF FinishRun, Statuses

LEMMA FailsEffect ==
    ASSUME TypeInv, RunFails
    PROVE  /\ job \in RunningJob /\ job.lea \in Leas /\ job' = NoJob
           /\ Counted(job.by, job.lea)
           /\ UNCHANGED <<now, world, runs, started>>
<1>1. job \in RunningJob
  BY DEF RunFails, TypeInv
<1> QED
  BY <1>1 DEF RunFails, RunningJob

\* The sweep's next target is begun as a reconciliation of its own.
LEMMA NextEffect ==
    ASSUME SweepNext
    PROVE  \E l \in Leas : BeginRun("sweep", l, TRUE)
BY Constants DEF SweepNext

LEMMA RunsType ==
    ASSUME TypeInv, NEW r \in RunRow
    PROVE  Append(runs, r) \in Seq(RunRow)
BY AppendFacts DEF TypeInv

LEMMA TypeStep ==
    ASSUME TypeInv, JobInv, [ReconNext]_reconVars
    PROVE  TypeInv'
<1>1. ASSUME NEW l \in Leas, NEW t \in Types, NEW v \in Values, PartnerChanges(l, t, v)
      PROVE  TypeInv'
  BY <1>1, ChangeEffect, MovedEffect DEF TypeInv
<1>2. ASSUME NEW l \in Leas, CommitPage(l)
      PROVE  TypeInv'
  BY <1>2, PageEffect, MovedEffect DEF TypeInv
<1>3. ASSUME NEW l \in Leas, Retry(l)
      PROVE  TypeInv'
  BY <1>3, RetryEffect DEF TypeInv
<1>4. CASE Tick
  BY <1>4 DEF Tick, TypeInv, world
<1>5. ASSUME NEW active \in SUBSET Leas, StartSweep(active)
      PROVE  TypeInv'
  BY <1>5 DEF StartSweep, TypeInv, world
<1>6. ASSUME NEW by \in {"sweep", "forced"}, NEW l \in Leas, NEW q \in BOOLEAN,
             BeginRun(by, l, q)
      PROVE  TypeInv'
  <2>1. UNCHANGED <<now, world>> /\ started' \in Nat
    BY <1>6, BeginEffect
  <2>2. CASE /\ job' = job /\ Counted(by, l)
             /\ runs' = Append(runs, Run(l, "skipped_quiet_window", TRUE))
    <3>1. Run(l, "skipped_quiet_window", TRUE) \in RunRow
      BY RunType DEF Statuses
    <3>2. runs' \in Seq(RunRow)
      BY <2>2, <3>1, RunsType
    <3>3. sweep' \in [phase : {"rest", "running"}, targets : SUBSET Leas,
                      todo : SUBSET Leas, counted : SUBSET Leas]
      BY <2>2, CountedEffect
    <3> QED
      BY <2>1, <2>2, <3>2, <3>3 DEF TypeInv, world
  <2>3. CASE runs' = runs /\ sweep' = sweep /\ job' \in RunningJob
    BY <2>1, <2>3 DEF TypeInv, world
  <2> QED
    BY <1>6, <2>2, <2>3, BeginEffect
<1>7. CASE SweepNext
  BY <1>6, <1>7, NextEffect
<1>8. CASE EndSweep
  BY <1>8 DEF EndSweep, AtRest, TypeInv, world
<1>9. CASE ReadTable
  BY <1>9, ReadEffect DEF TypeInv, world
<1>10. CASE WalkResource
  BY <1>10, WalkEffect DEF TypeInv, world
<1>11. CASE FinishRun
  <2> DEFINE status == IF Drift = {} THEN "matched" ELSE "drift_detected"
             r == Run(job.lea, status, job.moved)
  <2>1. r \in RunRow /\ runs' = Append(runs, r)
    BY <1>11, FinishEffect, RunType
  <2>2. runs' \in Seq(RunRow)
    BY <2>1, RunsType
  <2>3. sweep' \in [phase : {"rest", "running"}, targets : SUBSET Leas,
                    todo : SUBSET Leas, counted : SUBSET Leas]
    BY <1>11, FinishEffect, CountedEffect
  <2>4. job' = NoJob /\ UNCHANGED <<now, world, started>>
    BY <1>11, FinishEffect
  <2> QED
    BY <2>2, <2>3, <2>4 DEF TypeInv, world
<1>12. CASE RunFails
  <2>1. sweep' \in [phase : {"rest", "running"}, targets : SUBSET Leas,
                    todo : SUBSET Leas, counted : SUBSET Leas]
    BY <1>12, FailsEffect, CountedEffect
  <2> QED
    BY <1>12, <2>1, FailsEffect DEF TypeInv, world
<1>13. CASE UNCHANGED reconVars
  BY <1>13 DEF reconVars, world, TypeInv
<1> QED
  BY <1>1, <1>2, <1>3, <1>4, <1>5, <1>6, <1>7, <1>8, <1>9, <1>10, <1>11, <1>12, <1>13
  DEF ReconNext, JobStep

-----------------------------------------------------------------------------
(* The sweep: a step either leaves it, counts a target, starts it with     *)
(* nothing counted or ends it with nothing left.                           *)

LEMMA SweepStep ==
    ASSUME TypeInv, JobInv, SweepInv, [ReconNext]_reconVars
    PROVE  SweepInv'
<1>1. CASE sweep' = sweep
  BY <1>1 DEF SweepInv
<1>2. ASSUME NEW by, NEW l \in Leas, Counted(by, l)
      PROVE  SweepInv'
  BY <1>2, CountedEffect
<1>3. ASSUME NEW by \in {"sweep", "forced"}, NEW l \in Leas, NEW q \in BOOLEAN,
             BeginRun(by, l, q)
      PROVE  SweepInv'
  BY <1>1, <1>2, <1>3 DEF BeginRun
<1>4. CASE SweepNext
  BY <1>3, <1>4, NextEffect
<1>5. ASSUME NEW active, StartSweep(active)
      PROVE  SweepInv'
  BY <1>5 DEF StartSweep, SweepInv
<1>6. CASE EndSweep
  BY <1>6 DEF EndSweep, AtRest, SweepInv
<1>7. CASE FinishRun
  BY <1>2, <1>7, FinishEffect
<1>8. CASE RunFails
  BY <1>2, <1>8, FailsEffect
<1>9. ASSUME NEW l \in Leas, CommitPage(l) \/ Retry(l)
      PROVE  SweepInv'
  BY <1>1, <1>9 DEF CommitPage, Retry
<1>10. ASSUME NEW l \in Leas, NEW t \in Types, NEW v \in Values, PartnerChanges(l, t, v)
       PROVE  SweepInv'
  BY <1>1, <1>10 DEF PartnerChanges
<1>11. CASE Tick \/ ReadTable \/ WalkResource \/ UNCHANGED reconVars
  BY <1>1, <1>11 DEF Tick, ReadTable, WalkResource, reconVars
<1> QED
  BY <1>3, <1>4, <1>5, <1>6, <1>7, <1>8, <1>9, <1>10, <1>11 DEF ReconNext, JobStep

\* Only EndSweep brings a running sweep to rest.
LEMMA SweepEnds ==
    ASSUME TypeInv, JobInv, SweepInv, [ReconNext]_reconVars
    PROVE  sweep.phase = "running" /\ sweep'.phase = "rest" => sweep.targets \subseteq sweep.counted
<1> SUFFICES ASSUME sweep.phase = "running", sweep'.phase = "rest"
             PROVE  EndSweep
  BY DEF EndSweep, SweepInv
<1>1. sweep' # sweep
  OBVIOUS
<1>2. ~(\E by, l : l \in Leas /\ Counted(by, l))
  BY CountedEffect
<1>3. ~(\E by \in {"sweep", "forced"}, l \in Leas, q \in BOOLEAN : BeginRun(by, l, q))
  BY <1>1, <1>2 DEF BeginRun
<1>4. ~SweepNext
  BY <1>3, NextEffect
<1>5. ~FinishRun /\ ~RunFails
  BY <1>2, FinishEffect, FailsEffect
<1>6. ~(\E l \in Leas : CommitPage(l) \/ Retry(l))
  BY <1>1 DEF CommitPage, Retry
<1>7. ~(\E l \in Leas, t \in Types, v \in Values : PartnerChanges(l, t, v))
  BY <1>1 DEF PartnerChanges
<1>8. ~(Tick \/ ReadTable \/ WalkResource \/ UNCHANGED reconVars)
  BY <1>1 DEF Tick, ReadTable, WalkResource, reconVars
<1>9. ~(\E active \in SUBSET Leas \ {{}} : StartSweep(active))
  BY DEF StartSweep
<1> QED
  BY <1>3, <1>4, <1>5, <1>6, <1>7, <1>8, <1>9 DEF ReconNext, JobStep


-----------------------------------------------------------------------------
(* What a run has hashed.                                                  *)

LEMMA JobStepInv ==
    ASSUME TypeInv, JobInv, [ReconNext]_reconVars
    PROVE  JobInv'
<1>1. ASSUME UNCHANGED <<canonical, partner, job>>
      PROVE  JobInv'
  BY <1>1 DEF JobInv
<1>2. ASSUME job' = NoJob
      PROVE  JobInv'
  BY <1>2 DEF JobInv
<1>3. ASSUME NEW l \in Leas, Moved(l),
             \A m \in Leas \ {l} : canonical'[m] = canonical[m] /\ partner'[m] = partner[m]
      PROVE  JobInv'
  <2>1. CASE job = NoJob
    BY <1>2, <1>3, <2>1, MovedEffect
  <2>2. CASE job # NoJob
    <3>1. /\ job'.lea = job.lea /\ job'.canonical = job.canonical
          /\ job'.partner = job.partner
          /\ ~job'.moved => ~job.moved /\ job.lea # l
      BY <1>3, <2>2, MovedEffect
    <3>2. job.lea \in Leas
      BY <2>2 DEF TypeInv, RunningJob
    <3>3. /\ Len(job.canonical) <= Len(TypeOrder)
          /\ Len(job.partner) <= Len(TypeOrder)
          /\ job.partner # <<>> => Len(job.canonical) = Len(TypeOrder)
      BY <2>2 DEF JobInv
    <3>4. ASSUME ~job'.moved
          PROVE  /\ \A n \in DOMAIN job.canonical :
                       job.canonical[n] = canonical'[job.lea][TypeOrder[n]]
                 /\ \A n \in DOMAIN job.partner :
                       job.partner[n] = partner'[job.lea][TypeOrder[n]]
      BY <1>3, <2>2, <3>1, <3>2, <3>4 DEF JobInv
    <3> QED
      BY <3>1, <3>3, <3>4 DEF JobInv
  <2> QED
    BY <2>1, <2>2
<1>4. ASSUME NEW l \in Leas, NEW t \in Types, NEW v \in Values, PartnerChanges(l, t, v)
      PROVE  JobInv'
  BY <1>3, <1>4, ChangeEffect
<1>5. ASSUME NEW l \in Leas, CommitPage(l)
      PROVE  JobInv'
  BY <1>3, <1>5, PageEffect
<1>6. ASSUME NEW l \in Leas, Retry(l)
      PROVE  JobInv'
  BY <1>1, <1>6 DEF Retry
<1>7. ASSUME NEW by \in {"sweep", "forced"}, NEW l \in Leas, NEW q \in BOOLEAN,
             BeginRun(by, l, q)
      PROVE  JobInv'
  <2>1. UNCHANGED <<canonical, partner>>
    BY <1>7 DEF BeginRun, world
  <2>2. CASE job' = job
    BY <1>1, <2>1, <2>2
  <2>3. CASE job'.canonical = <<>> /\ job'.partner = <<>>
    BY <2>3, Constants, EmptySeq DEF JobInv
  <2> QED
    BY <1>7, <2>2, <2>3, BeginEffect
<1>8. CASE SweepNext
  BY <1>7, <1>8, NextEffect
<1>9. CASE ReadTable
  <2> DEFINE v == canonical[job.lea][TypeOrder[Len(job.canonical) + 1]]
  <2>1. /\ job \in RunningJob /\ Len(job.canonical) + 1 \in 1..Len(TypeOrder)
        /\ v \in Values
        /\ job'.lea = job.lea /\ job'.partner = job.partner /\ job.partner = <<>>
        /\ job'.moved = job.moved /\ job'.canonical = Append(job.canonical, v)
        /\ UNCHANGED <<canonical, partner>>
    BY <1>9, ReadEffect DEF world
  <2>2. job.canonical \in Seq(Values) /\ job # NoJob
    BY <2>1, NoJobIsNone DEF RunningJob
  <2>3. /\ Len(job'.canonical) = Len(job.canonical) + 1
        /\ DOMAIN job.canonical = 1..Len(job.canonical) /\ Len(job.canonical) \in Nat
        /\ DOMAIN job'.canonical = 1..(Len(job.canonical) + 1)
        /\ \A n \in DOMAIN job.canonical : job'.canonical[n] = job.canonical[n]
        /\ job'.canonical[Len(job.canonical) + 1] = v
    <3> HIDE DEF v
    <3> QED
      BY <2>1, <2>2, AppendFacts
  <2>4. ASSUME ~job'.moved, NEW n \in DOMAIN job'.canonical
        PROVE  job'.canonical[n] = canonical'[job'.lea][TypeOrder[n]]
    <3>1. CASE n = Len(job.canonical) + 1
      BY <2>1, <2>3, <3>1
    <3>2. CASE n \in DOMAIN job.canonical
      BY <2>1, <2>2, <2>3, <2>4, <3>2 DEF JobInv
    <3> QED
      BY <2>3, <2>4, <3>1, <3>2
  <2> QED
    BY <2>1, <2>2, <2>3, <2>4, Constants DEF JobInv
<1>10. CASE WalkResource
  <2> DEFINE v == partner[job.lea][TypeOrder[Len(job.partner) + 1]]
  <2>1. /\ job \in RunningJob /\ Len(job.partner) + 1 \in 1..Len(TypeOrder)
        /\ v \in Values
        /\ job'.lea = job.lea /\ job'.canonical = job.canonical
        /\ Len(job.canonical) = Len(TypeOrder)
        /\ job'.moved = job.moved /\ job'.partner = Append(job.partner, v)
        /\ UNCHANGED <<canonical, partner>>
    BY <1>10, WalkEffect DEF world
  <2>2. job.partner \in Seq(Values) /\ job # NoJob
    BY <2>1, NoJobIsNone DEF RunningJob
  <2>3. /\ Len(job'.partner) = Len(job.partner) + 1
        /\ DOMAIN job.partner = 1..Len(job.partner) /\ Len(job.partner) \in Nat
        /\ DOMAIN job'.partner = 1..(Len(job.partner) + 1)
        /\ \A n \in DOMAIN job.partner : job'.partner[n] = job.partner[n]
        /\ job'.partner[Len(job.partner) + 1] = v
    <3> HIDE DEF v
    <3> QED
      BY <2>1, <2>2, AppendFacts
  <2>4. ASSUME ~job'.moved, NEW n \in DOMAIN job'.partner
        PROVE  job'.partner[n] = partner'[job'.lea][TypeOrder[n]]
    <3>1. CASE n = Len(job.partner) + 1
      BY <2>1, <2>3, <3>1
    <3>2. CASE n \in DOMAIN job.partner
      BY <2>1, <2>2, <2>3, <2>4, <3>2 DEF JobInv
    <3> QED
      BY <2>3, <2>4, <3>1, <3>2
  <2> QED
    BY <2>1, <2>2, <2>3, <2>4, Constants DEF JobInv
<1>11. CASE FinishRun \/ RunFails
  BY <1>2, <1>11, FinishEffect, FailsEffect
<1>12. ASSUME NEW active, StartSweep(active)
       PROVE  JobInv'
  BY <1>1, <1>12 DEF StartSweep, world
<1>13. CASE Tick \/ EndSweep \/ UNCHANGED reconVars
  BY <1>1, <1>13 DEF Tick, EndSweep, reconVars, world
<1> QED
  BY <1>4, <1>5, <1>6, <1>7, <1>8, <1>9, <1>10, <1>11, <1>12, <1>13 DEF ReconNext, JobStep

-----------------------------------------------------------------------------
(* The verdicts.                                                           *)

\* Nothing has moved under a run that is finished: its hashes differ exactly
\* when the two sides do.
LEMMA DriftIsTrue ==
    ASSUME TypeInv, JobInv, FinishRun, ~job.moved
    PROVE  Drift = {} <=> canonical[job.lea] = partner[job.lea]
<1> DEFINE l == job.lea
           N == Len(TypeOrder)
<1>1. /\ job # NoJob /\ job \in RunningJob /\ l \in Leas /\ Len(job.partner) = N
  BY FinishEffect, NoJobIsNone
<1>2. job.canonical \in Seq(Values) /\ job.partner \in Seq(Values)
  BY <1>1 DEF RunningJob
<1>3. /\ Len(job.canonical) <= N
      /\ job.partner # <<>> => Len(job.canonical) = N
      /\ \A n \in DOMAIN job.canonical : job.canonical[n] = canonical[l][TypeOrder[n]]
      /\ \A n \in DOMAIN job.partner : job.partner[n] = partner[l][TypeOrder[n]]
  BY <1>1 DEF JobInv
<1>4. Len(job.canonical) = N
  <2>1. CASE N = 0
    BY <1>2, <1>3, <2>1, LenProperties
  <2>2. CASE N # 0
    BY <1>1, <1>3, <2>2, EmptySeq
  <2> QED
    BY <2>1, <2>2
<1>5. DOMAIN job.canonical = 1..N /\ DOMAIN job.partner = 1..N
  BY <1>1, <1>2, <1>4, LenProperties
<1>6. Drift = {n \in 1..N : canonical[l][TypeOrder[n]] # partner[l][TypeOrder[n]]}
  BY <1>3, <1>5 DEF Drift
<1>7. canonical[l] \in [Types -> Values] /\ partner[l] \in [Types -> Values]
  BY <1>1 DEF TypeInv, Contents
<1>8. ASSUME Drift = {}
      PROVE  canonical[l] = partner[l]
  <2>1. \A n \in 1..N : canonical[l][TypeOrder[n]] = partner[l][TypeOrder[n]]
    BY <1>6, <1>8
  <2>2. \A t \in Types : canonical[l][t] = partner[l][t]
    BY <2>1, Constants
  <2> QED
    BY <1>7, <2>2
<1>9. ASSUME canonical[l] = partner[l]
      PROVE  Drift = {}
  BY <1>6, <1>9
<1> QED
  BY <1>8, <1>9

LEMMA VerdictStep ==
    ASSUME TypeInv, JobInv, VerdictTrueAtRest, [ReconNext]_reconVars
    PROVE  VerdictTrueAtRest'
<1>1. CASE runs' = runs
  BY <1>1 DEF VerdictTrueAtRest
<1>2. ASSUME NEW r \in RunRow, runs' = Append(runs, r), r.truth # "moved" => r.status = r.truth
      PROVE  VerdictTrueAtRest'
  <2>1. /\ DOMAIN runs = 1..Len(runs) /\ DOMAIN runs' = 1..(Len(runs) + 1)
        /\ \A n \in DOMAIN runs : runs'[n] = runs[n]
        /\ runs'[Len(runs) + 1] = r /\ Len(runs) \in Nat
    BY <1>2, AppendFacts DEF TypeInv
  <2>2. ASSUME NEW n \in DOMAIN runs', runs'[n].truth # "moved"
        PROVE  runs'[n].status = runs'[n].truth
    <3>1. CASE n = Len(runs) + 1
      BY <1>2, <2>1, <2>2, <3>1
    <3>2. CASE n \in DOMAIN runs
      BY <2>1, <2>2, <3>2 DEF VerdictTrueAtRest
    <3> QED
      BY <2>1, <2>2, <3>1, <3>2
  <2> QED
    BY <2>2 DEF VerdictTrueAtRest
<1>3. ASSUME NEW by \in {"sweep", "forced"}, NEW l \in Leas, NEW q \in BOOLEAN,
             BeginRun(by, l, q)
      PROVE  VerdictTrueAtRest'
  <2> DEFINE r == Run(l, "skipped_quiet_window", TRUE)
  <2>1. r \in RunRow /\ r.truth = "moved"
    BY RunType DEF Statuses
  <2> HIDE DEF r
  <2>2. runs' = runs \/ runs' = Append(runs, r)
    BY <1>3, BeginEffect DEF r
  <2> QED
    BY <1>1, <1>2, <2>1, <2>2
<1>4. CASE SweepNext
  BY <1>3, <1>4, NextEffect
<1>5. CASE FinishRun
  <2> DEFINE status == IF Drift = {} THEN "matched" ELSE "drift_detected"
             r == Run(job.lea, status, job.moved)
  <2>1. r \in RunRow /\ runs' = Append(runs, r)
    BY <1>5, FinishEffect, RunType
  <2>2. r.truth # "moved" => r.status = r.truth
    <3>1. CASE job.moved
      BY <1>5, <3>1, FinishEffect, RunType
    <3>2. CASE ~job.moved
      <4>1. /\ r.status = status
            /\ r.truth = IF canonical[job.lea] = partner[job.lea] THEN "matched"
                         ELSE "drift_detected"
        BY <1>5, <3>2, FinishEffect, RunType
      <4> QED
        BY <1>5, <3>2, <4>1, DriftIsTrue
    <3> QED
      BY <1>5, <3>1, <3>2, FinishEffect
  <2> HIDE DEF r
  <2> QED
    BY <1>2, <2>1, <2>2
<1>6. CASE ~(FinishRun \/ SweepNext) /\ ~(\E l \in Leas, q \in BOOLEAN : BeginRun("forced", l, q))
  BY <1>1, <1>6 DEF ReconNext, JobStep, PartnerChanges, CommitPage, Retry, Tick, StartSweep,
     EndSweep, ReadTable, WalkResource, RunFails, reconVars
<1> QED
  BY <1>3, <1>4, <1>5, <1>6


-----------------------------------------------------------------------------
(* The events of the partner and the dates of the cursors.                 *)

FeedInvOf(l) ==
    /\ \A n \in DOMAIN feed[l] : feed[l][n].at <= now
    /\ \A m, n \in DOMAIN feed[l] : m <= n => feed[l][m].at <= feed[l][n].at
    /\ applied[l] <= Len(feed[l])
    /\ last_event_at[l] # NoDate =>
          /\ applied[l] \in DOMAIN feed[l]
          /\ last_event_at[l] = feed[l][applied[l]].at

LEMMA FeedTypes ==
    ASSUME TypeInv, NEW l \in Leas
    PROVE  /\ feed[l] \in Seq(Change) /\ Len(feed[l]) \in Nat
           /\ DOMAIN feed[l] = 1..Len(feed[l])
           /\ \A n \in DOMAIN feed[l] : feed[l][n].at \in Nat
           /\ applied[l] \in Nat /\ now \in Nat
<1>1. feed[l] \in Seq(Change) /\ applied[l] \in Nat /\ now \in Nat
  BY DEF TypeInv
<1>2. Len(feed[l]) \in Nat /\ DOMAIN feed[l] = 1..Len(feed[l])
  BY <1>1, LenProperties
<1>3. \A n \in DOMAIN feed[l] : feed[l][n] \in Change
  BY <1>1, <1>2, ElementOfSeq
<1> QED
  BY <1>1, <1>2, <1>3 DEF Change

LEMMA FeedStep ==
    ASSUME TypeInv, TypeInv', FeedInv, [ReconNext]_reconVars
    PROVE  FeedInv'
<1> SUFFICES ASSUME NEW x \in Leas
             PROVE  FeedInvOf(x)'
  BY DEF FeedInv, FeedInvOf
<1>0. FeedInvOf(x)
  BY DEF FeedInv, FeedInvOf
<1>1. ASSUME feed'[x] = feed[x], applied'[x] = applied[x], last_event_at'[x] = last_event_at[x],
             now' \in Nat, now <= now'
      PROVE  FeedInvOf(x)'
  <2>1. \A n \in DOMAIN feed[x] : feed[x][n].at <= now'
    BY <1>0, <1>1, FeedTypes DEF FeedInvOf
  <2> QED
    BY <1>0, <1>1, <2>1 DEF FeedInvOf
<1>2. now' = now => now' \in Nat /\ now <= now'
  BY DEF TypeInv
<1>3. ASSUME UNCHANGED <<feed, applied, last_event_at, now>>
      PROVE  FeedInvOf(x)'
  BY <1>1, <1>2, <1>3
<1>4. ASSUME NEW l \in Leas, NEW t \in Types, NEW v \in Values, PartnerChanges(l, t, v)
      PROVE  FeedInvOf(x)'
  <2>1. CASE x # l
    BY <1>1, <1>2, <1>4, <2>1, ChangeEffect
  <2>2. CASE x = l
    <3> DEFINE e == [type |-> t, value |-> v, at |-> now]
               N == Len(feed[x])
    <3>1. /\ e \in Change /\ feed'[x] = Append(feed[x], e)
          /\ UNCHANGED <<now, applied, last_event_at>>
      BY <1>4, <2>2, ChangeEffect
    <3>2. e.at = now
      OBVIOUS
    <3> HIDE DEF e
    <3>3. /\ Len(feed'[x]) = N + 1 /\ N \in Nat
          /\ DOMAIN feed[x] = 1..N /\ DOMAIN feed'[x] = 1..(N + 1)
          /\ \A n \in DOMAIN feed[x] : feed'[x][n] = feed[x][n]
          /\ feed'[x][N + 1] = e
      BY <3>1, FeedTypes, AppendFacts
    <3>4. \A n \in 1..N : feed[x][n].at <= now /\ feed[x][n].at \in Nat
      BY <1>0, <3>3, FeedTypes DEF FeedInvOf
    <3>5. \A n \in 1..(N + 1) : feed'[x][n].at <= now
      <4>1. now <= now
        BY DEF TypeInv
      <4>2. \A n \in 1..(N + 1) : n \in 1..N \/ n = N + 1
        BY <3>3
      <4> QED
        BY <3>2, <3>3, <3>4, <4>1, <4>2
    <3>6. \A m, n \in 1..(N + 1) : m <= n => feed'[x][m].at <= feed'[x][n].at
      <4> SUFFICES ASSUME NEW m \in 1..(N + 1), NEW n \in 1..(N + 1), m <= n
                   PROVE  feed'[x][m].at <= feed'[x][n].at
        OBVIOUS
      <4>1. CASE n = N + 1
        BY <3>2, <3>3, <3>5, <4>1
      <4>2. CASE n \in 1..N
        <5>1. m \in 1..N
          BY <3>3, <4>2
        <5> QED
          BY <1>0, <3>3, <4>2, <5>1 DEF FeedInvOf
      <4> QED
        BY <3>3, <4>1, <4>2
    <3>7. applied[x] <= N /\ applied[x] \in Nat
      BY <1>0, FeedTypes DEF FeedInvOf
    <3>8. applied[x] <= N + 1
      BY <3>3, <3>7
    <3>9. last_event_at[x] # NoDate =>
             applied[x] \in 1..(N + 1) /\ last_event_at[x] = feed'[x][applied[x]].at
      BY <1>0, <3>3 DEF FeedInvOf
    <3> QED
      BY <3>1, <3>3, <3>5, <3>6, <3>8, <3>9 DEF FeedInvOf
  <2> QED
    BY <2>1, <2>2
<1>5. ASSUME NEW l \in Leas, CommitPage(l)
      PROVE  FeedInvOf(x)'
  <2>1. CASE x # l
    BY <1>1, <1>2, <1>5, <2>1, PageEffect
  <2>2. CASE x = l
    <3>1. /\ applied'[x] \in DOMAIN feed[x] /\ last_event_at'[x] = feed[x][applied'[x]].at
          /\ UNCHANGED <<now, feed>>
      BY <1>5, <2>2, PageEffect
    <3>2. applied'[x] <= Len(feed[x])
      BY <3>1, FeedTypes
    <3> QED
      BY <1>0, <3>1, <3>2 DEF FeedInvOf
  <2> QED
    BY <2>1, <2>2
<1>6. ASSUME NEW l \in Leas, Retry(l)
      PROVE  FeedInvOf(x)'
  <2>1. CASE x # l
    BY <1>1, <1>2, <1>6, <2>1, RetryEffect
  <2>2. CASE x = l
    <3>1. /\ applied'[x] <= applied[x] /\ last_event_at'[x] = NoDate
          /\ UNCHANGED <<now, feed>>
      BY <1>6, <2>2, RetryEffect
    <3>2. applied'[x] <= Len(feed[x])
      <4>1. applied'[x] \in Nat
        BY DEF TypeInv
      <4> QED
        BY <1>0, <3>1, <4>1, FeedTypes DEF FeedInvOf
    <3> QED
      BY <1>0, <3>1, <3>2 DEF FeedInvOf
  <2> QED
    BY <2>1, <2>2
<1>7. CASE Tick
  BY <1>1, <1>7 DEF Tick, TypeInv, world
<1>8. ASSUME NEW by, NEW l, NEW q, BeginRun(by, l, q)
      PROVE  FeedInvOf(x)'
  BY <1>3, <1>8 DEF BeginRun, world
<1>9. CASE SweepNext
  BY <1>8, <1>9 DEF SweepNext
<1>10. ASSUME NEW active, StartSweep(active)
       PROVE  FeedInvOf(x)'
  BY <1>3, <1>10 DEF StartSweep, world
<1>11. CASE EndSweep \/ JobStep \/ RunFails \/ UNCHANGED reconVars
  BY <1>3, <1>11
  DEF EndSweep, JobStep, ReadTable, WalkResource, FinishRun, RunFails, reconVars, world
<1> QED
  BY <1>4, <1>5, <1>6, <1>7, <1>8, <1>9, <1>10, <1>11 DEF ReconNext

-----------------------------------------------------------------------------
(* The invariant.                                                          *)

LEMMA InitIInv ==
    ASSUME ReconInit
    PROVE  IInv
<1>1. TypeInv
  <2>1. partner \in Contents /\ canonical \in Contents /\ written \in [Leas -> [Types -> Nat]]
    BY Constants DEF ReconInit, Contents
  <2>2. feed \in [Leas -> Seq(Change)] /\ runs \in Seq(RunRow)
    BY EmptySeq DEF ReconInit
  <2> QED
    BY <2>1, <2>2 DEF ReconInit, TypeInv, AtRest
<1>2. JobInv /\ SweepInv
  BY DEF ReconInit, JobInv, SweepInv, AtRest
<1>3. FeedInv
  <2> SUFFICES ASSUME NEW l \in Leas
               PROVE  FeedInvOf(l)
    BY DEF FeedInv, FeedInvOf
  <2>1. feed[l] = <<>> /\ applied[l] = 0 /\ last_event_at[l] = NoDate
    BY DEF ReconInit
  <2>2. DOMAIN feed[l] = {} /\ Len(feed[l]) = 0
    BY <2>1, EmptySeq
  <2> QED
    BY <2>1, <2>2 DEF FeedInvOf
<1>4. VerdictTrueAtRest
  BY DEF ReconInit, VerdictTrueAtRest
<1> QED
  BY <1>1, <1>2, <1>3, <1>4 DEF IInv

LEMMA IInvStep ==
    ASSUME IInv, [ReconNext]_reconVars
    PROVE  IInv'
<1>1. TypeInv'
  BY TypeStep DEF IInv
<1>2. JobInv'
  BY JobStepInv DEF IInv
<1>3. FeedInv'
  BY <1>1, FeedStep DEF IInv
<1>4. SweepInv'
  BY SweepStep DEF IInv
<1>5. VerdictTrueAtRest'
  BY VerdictStep DEF IInv
<1> QED
  BY <1>1, <1>2, <1>3, <1>4, <1>5 DEF IInv

LEMMA Inductive == ReconSpec => []IInv
<1>1. ReconInit => IInv
  BY InitIInv
<1>2. IInv /\ [ReconNext]_reconVars => IInv'
  BY IInvStep
<1> QED
  BY <1>1, <1>2, PTL DEF ReconSpec

-----------------------------------------------------------------------------
(* The theorems.                                                           *)

\* The tables, the partner's events, the rows of the runs and the run and the
\* sweep that are under way keep their types.
THEOREM ReconTypeOk == ReconSpec => []TypeInv
<1>1. IInv => TypeInv
  BY DEF IInv
<1> QED
  BY <1>1, Inductive, PTL

\* ReconciliationService._run: the tables are read one by one and the
\* resources walked one by one, with nothing locked, and still the verdict is
\* right whenever neither side moved between the first read and the last.
THEOREM VerdictHolds == ReconSpec => []VerdictTrueAtRest
<1>1. IInv => VerdictTrueAtRest
  BY DEF IInv
<1> QED
  BY <1>1, Inductive, PTL

\* AlertService's reconciliation_drift rule: a drift in the window is alerted
\* on, whatever other LEAs' runs came between, until a later run of the LEA
\* says otherwise or is skipped.
THEOREM DriftAlerted == ReconSpec => []WedgedDriftAlerted
<1>1. ASSUME TypeInv
      PROVE  WedgedDriftAlerted
  <2> SUFFICES ASSUME NEW n \in DOMAIN runs,
                      runs[n].status = "drift_detected",
                      ~(runs[n].at < now - AlertWindow),
                      ~(\E m \in DOMAIN runs : m > n /\ runs[m].lea = runs[n].lea
                                                /\ runs[m].status # "drift_detected")
               PROVE  runs[n].lea \in ReconciliationDrift(runs, now)
    BY DEF WedgedDriftAlerted
  <2>1. DOMAIN runs = 1..Len(runs) /\ Len(runs) \in Nat
    BY <1>1, LenProperties DEF TypeInv
  <2>2. runs[n] \in RunRow
    BY <1>1, <2>1, ElementOfSeq DEF TypeInv
  <2>3. runs[n].at \in Nat
    BY <2>2 DEF RunRow
  <2>4. runs[n].at >= now - AlertWindow
    BY <1>1, <2>3, Constants DEF TypeInv
  <2>5. \A m \in DOMAIN runs : m >= n /\ runs[m].lea = runs[n].lea =>
            runs[m].status = "drift_detected"
    BY <2>1
  <2> QED
    BY <1>1, <2>4, <2>5, DriftReported
<1>2. IInv => WedgedDriftAlerted
  BY <1>1 DEF IInv
<1> QED
  BY <1>2, Inductive, PTL

\* AlertService's cursor_lag rule against the partner's retention: the date of
\* the cursor is at most that of the first event behind it, so the lag is over
\* its threshold before the partner drops an event the worker has not seen.
THEOREM LossAnnounced == ReconSpec => []LostEventsWereAlerted
<1>1. ASSUME TypeInv, FeedInv
      PROVE  LostEventsWereAlerted
  <2> SUFFICES ASSUME NEW l \in Leas, applied[l] # Len(feed[l]), last_event_at[l] # NoDate,
                      ~(now - feed[l][applied[l] + 1].at < Retention)
               PROVE  l \in CursorLag(last_event_at, now)
    BY DEF LostEventsWereAlerted
  <2> DEFINE p == applied[l]
             N == Len(feed[l])
  <2>1. /\ N \in Nat /\ DOMAIN feed[l] = 1..N /\ p \in Nat /\ now \in Nat
        /\ \A n \in DOMAIN feed[l] : feed[l][n].at \in Nat
    BY <1>1, FeedTypes
  <2>2. p \in 1..N /\ last_event_at[l] = feed[l][p].at
    BY <1>1, <2>1 DEF FeedInv
  <2>3. p + 1 \in 1..N /\ p <= p + 1
    BY <2>1, <2>2
  <2>4. feed[l][p].at <= feed[l][p + 1].at
    BY <1>1, <2>1, <2>2, <2>3 DEF FeedInv
  <2>5. feed[l][p].at \in Nat /\ feed[l][p + 1].at \in Nat
    BY <2>1, <2>2, <2>3
  <2> DEFINE a == feed[l][p].at
             b == feed[l][p + 1].at
  <2>6. ~(now - b < Retention) /\ last_event_at[l] = a
    BY <2>2
  <2> HIDE DEF a, b
  <2>7. last_event_at[l] < now - CursorLagThreshold
    <3>1. a \in Nat /\ b \in Nat /\ a <= b
      BY <2>4, <2>5 DEF a, b
    <3>2. CursorLagThreshold \in Nat /\ Retention \in Nat /\ CursorLagThreshold < Retention
      BY Constants
    <3> QED
      BY <2>1, <2>6, <3>1, <3>2
  <2>8. l \in DOMAIN last_event_at
    BY <1>1 DEF TypeInv
  <2> QED
    BY <2>7, <2>8 DEF CursorLag
<1>2. IInv => LostEventsWereAlerted
  BY <1>1 DEF IInv
<1> QED
  BY <1>2, Inductive, PTL

\* ReconciliationScheduler.run_daily_sweep: a target leaves the sweep only to
\* be counted, so no exception of another LEA's reconciliation drops it.
THEOREM SweepAccounts == ReconSpec => SweepAccountsForAll
<1>1. IInv /\ [ReconNext]_reconVars =>
        [sweep.phase = "running" /\ sweep'.phase = "rest" =>
             sweep.targets \subseteq sweep.counted]_reconVars
  BY SweepEnds DEF IInv
<1> QED
  BY <1>1, Inductive, PTL DEF ReconSpec, SweepAccountsForAll

=============================================================================
