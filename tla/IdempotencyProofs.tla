------------------------- MODULE IdempotencyProofs -------------------------
(***************************************************************************)
(* The reservation of an idempotency key is exclusive: at most one handler *)
(* of a key commits between two sweeps, replays answer with what it did,   *)
(* and no pending row is left without a request to answer for it.          *)
(***************************************************************************)
EXTENDS Idempotency, TLAPS

Workers == {r \in Requests : phase[r] \in Working}

OneRow == \A x, y \in slot : x = y

\* A request at work has the pending row to itself, and nothing of its epoch
\* has committed but what it has committed itself.
WorkExcludes ==
    \A r \in Workers :
        /\ \A q \in Workers : q = r
        /\ \E row \in slot : row.response = {} /\ row.hash = HashOf[r]
        /\ phase[r] = "committed" => [by |-> r, epoch |-> epoch] \in effects
        /\ phase[r] # "committed" => \A a \in effects : a.epoch # epoch

\* A free slot has had nothing committed since it was last swept.
FreeIsUnused ==
    /\ slot = {} => \A a \in effects : a.epoch # epoch
    /\ \A a \in effects : a.epoch <= epoch

StaleIsIdle == \A row \in slot : row.stale => Workers = {}

StoredIsEffect ==
    /\ \A row \in slot : \A q \in row.response :
           HashOf[q] = row.hash /\ \E a \in effects : a.by = q
    /\ \A r \in Requests : phase[r] # "ok" => serves[r] = r

IInv ==
    /\ TypeOK
    /\ OneRow
    /\ WorkExcludes
    /\ FreeIsUnused
    /\ StaleIsIdle
    /\ StoredIsEffect
    /\ OncePerEpoch
    /\ AnswersAreEffects
    /\ PendingIsHeld

-----------------------------------------------------------------------------
LEMMA InitInv == Init => IInv
BY RequestsAssumption
   DEF Init, IInv, TypeOK, Row, Effect, Phase, Working, Final, Workers, OneRow,
       WorkExcludes, FreeIsUnused, StaleIsIdle, StoredIsEffect, OncePerEpoch,
       AnswersAreEffects, PendingIsHeld, Holders

LEMMA Moves ==
    ASSUME TypeOK, NEW r \in Requests, NEW p \in Phase, To(r, p)
    PROVE  /\ phase' \in [Requests -> Phase]
           /\ phase'[r] = p
           /\ \A q \in Requests \ {r} : phase'[q] = phase[q]
BY DEF TypeOK, To

LEMMA InsertInv == ASSUME IInv, NEW r \in Requests, Insert(r) PROVE IInv'
<1>1. /\ phase' \in [Requests -> Phase]
      /\ phase'[r] = "running"
      /\ \A q \in Requests \ {r} : phase'[q] = phase[q]
  BY Moves DEF IInv, Insert, Phase, Working, Final
<1>2. TypeOK'
  BY RequestsAssumption, <1>1
     DEF IInv, Insert, TypeOK, Row, Effect
<1>3. OneRow' /\ StaleIsIdle'
  BY <1>1 DEF IInv, Insert, OneRow, StaleIsIdle, Workers, Working, TypeOK
<1>4. WorkExcludes'
  BY <1>1
     DEF IInv, Insert, WorkExcludes, FreeIsUnused, Workers, Working, TypeOK,
         Effect, OneRow, Row
<1>5. FreeIsUnused' /\ OncePerEpoch'
  BY <1>1
     DEF IInv, Insert, FreeIsUnused, OncePerEpoch, WorkExcludes, Workers,
         Working, TypeOK, Effect, OneRow
<1>6. StoredIsEffect' /\ AnswersAreEffects'
  BY <1>1
     DEF IInv, Insert, StoredIsEffect, AnswersAreEffects, WorkExcludes,
         Workers, Working, TypeOK, Row
<1>7. PendingIsHeld'
  BY <1>1
     DEF IInv, Insert, PendingIsHeld, Holders, WorkExcludes, Workers, Working,
         OneRow, TypeOK
<1> QED
  BY <1>2, <1>3, <1>4, <1>5, <1>6, <1>7 DEF IInv

LEMMA CollideInv == ASSUME IInv, NEW r \in Requests, Collide(r) PROVE IInv'
<1>1. /\ phase' \in [Requests -> Phase]
      /\ phase'[r] = "reading"
      /\ \A q \in Requests \ {r} : phase'[q] = phase[q]
  BY Moves DEF IInv, Collide, Phase, Working, Final
<1>2. TypeOK'
  BY RequestsAssumption, <1>1
     DEF IInv, Collide, TypeOK, Row, Effect
<1>3. OneRow' /\ StaleIsIdle'
  BY <1>1 DEF IInv, Collide, OneRow, StaleIsIdle, Workers, Working, TypeOK
<1>4. WorkExcludes'
  BY <1>1
     DEF IInv, Collide, WorkExcludes, FreeIsUnused, Workers, Working, TypeOK,
         Effect, OneRow, Row
<1>5. FreeIsUnused' /\ OncePerEpoch'
  BY <1>1
     DEF IInv, Collide, FreeIsUnused, OncePerEpoch, WorkExcludes, Workers,
         Working, TypeOK, Effect, OneRow
<1>6. StoredIsEffect' /\ AnswersAreEffects'
  BY <1>1
     DEF IInv, Collide, StoredIsEffect, AnswersAreEffects, WorkExcludes,
         Workers, Working, TypeOK, Row
<1>7. PendingIsHeld'
  BY <1>1
     DEF IInv, Collide, PendingIsHeld, Holders, WorkExcludes, Workers, Working,
         OneRow, TypeOK
<1> QED
  BY <1>2, <1>3, <1>4, <1>5, <1>6, <1>7 DEF IInv

LEMMA RereadInv == ASSUME IInv, NEW r \in Requests, Reread(r) PROVE IInv'
<1>1. /\ phase' \in [Requests -> Phase]
      /\ phase'[r] = "new"
      /\ \A q \in Requests \ {r} : phase'[q] = phase[q]
  BY Moves DEF IInv, Reread, Phase, Working, Final
<1>2. TypeOK'
  BY RequestsAssumption, <1>1
     DEF IInv, Reread, TypeOK, Row, Effect
<1>3. OneRow' /\ StaleIsIdle'
  BY <1>1 DEF IInv, Reread, OneRow, StaleIsIdle, Workers, Working, TypeOK
<1>4. WorkExcludes'
  BY <1>1
     DEF IInv, Reread, WorkExcludes, FreeIsUnused, Workers, Working, TypeOK,
         Effect, OneRow, Row
<1>5. FreeIsUnused' /\ OncePerEpoch'
  BY <1>1
     DEF IInv, Reread, FreeIsUnused, OncePerEpoch, WorkExcludes, Workers,
         Working, TypeOK, Effect, OneRow
<1>6. StoredIsEffect' /\ AnswersAreEffects'
  BY <1>1
     DEF IInv, Reread, StoredIsEffect, AnswersAreEffects, WorkExcludes,
         Workers, Working, TypeOK, Row
<1>7. PendingIsHeld'
  BY <1>1
     DEF IInv, Reread, PendingIsHeld, Holders, WorkExcludes, Workers, Working,
         OneRow, TypeOK
<1> QED
  BY <1>2, <1>3, <1>4, <1>5, <1>6, <1>7 DEF IInv

LEMMA RefuseBodyInv == ASSUME IInv, NEW r \in Requests, RefuseBody(r) PROVE IInv'
<1>1. /\ phase' \in [Requests -> Phase]
      /\ phase'[r] = "conflict"
      /\ \A q \in Requests \ {r} : phase'[q] = phase[q]
  BY Moves DEF IInv, RefuseBody, Phase, Working, Final
<1>2. TypeOK'
  BY RequestsAssumption, <1>1
     DEF IInv, RefuseBody, TypeOK, Row, Effect
<1>3. OneRow' /\ StaleIsIdle'
  BY <1>1 DEF IInv, RefuseBody, OneRow, StaleIsIdle, Workers, Working, TypeOK
<1>4. WorkExcludes'
  BY <1>1
     DEF IInv, RefuseBody, WorkExcludes, FreeIsUnused, Workers, Working,
         TypeOK, Effect, OneRow, Row
<1>5. FreeIsUnused' /\ OncePerEpoch'
  BY <1>1
     DEF IInv, RefuseBody, FreeIsUnused, OncePerEpoch, WorkExcludes, Workers,
         Working, TypeOK, Effect, OneRow
<1>6. StoredIsEffect' /\ AnswersAreEffects'
  BY <1>1
     DEF IInv, RefuseBody, StoredIsEffect, AnswersAreEffects, WorkExcludes,
         Workers, Working, TypeOK, Row
<1>7. PendingIsHeld'
  BY <1>1
     DEF IInv, RefuseBody, PendingIsHeld, Holders, WorkExcludes, Workers,
         Working, OneRow, TypeOK
<1> QED
  BY <1>2, <1>3, <1>4, <1>5, <1>6, <1>7 DEF IInv

LEMMA RefuseInFlightInv == ASSUME IInv, NEW r \in Requests, RefuseInFlight(r) PROVE IInv'
<1>1. /\ phase' \in [Requests -> Phase]
      /\ phase'[r] = "in_flight"
      /\ \A q \in Requests \ {r} : phase'[q] = phase[q]
  BY Moves DEF IInv, RefuseInFlight, Phase, Working, Final
<1>2. TypeOK'
  BY RequestsAssumption, <1>1
     DEF IInv, RefuseInFlight, TypeOK, Row, Effect
<1>3. OneRow' /\ StaleIsIdle'
  BY <1>1
     DEF IInv, RefuseInFlight, OneRow, StaleIsIdle, Workers, Working, TypeOK
<1>4. WorkExcludes'
  BY <1>1
     DEF IInv, RefuseInFlight, WorkExcludes, FreeIsUnused, Workers, Working,
         TypeOK, Effect, OneRow, Row
<1>5. FreeIsUnused' /\ OncePerEpoch'
  BY <1>1
     DEF IInv, RefuseInFlight, FreeIsUnused, OncePerEpoch, WorkExcludes,
         Workers, Working, TypeOK, Effect, OneRow
<1>6. StoredIsEffect' /\ AnswersAreEffects'
  BY <1>1
     DEF IInv, RefuseInFlight, StoredIsEffect, AnswersAreEffects, WorkExcludes,
         Workers, Working, TypeOK, Row
<1>7. PendingIsHeld'
  BY <1>1
     DEF IInv, RefuseInFlight, PendingIsHeld, Holders, WorkExcludes, Workers,
         Working, OneRow, TypeOK
<1> QED
  BY <1>2, <1>3, <1>4, <1>5, <1>6, <1>7 DEF IInv

LEMMA ReplayInv == ASSUME IInv, NEW r \in Requests, Replay(r) PROVE IInv'
<1>1. /\ phase' \in [Requests -> Phase]
      /\ phase'[r] = "ok"
      /\ \A q \in Requests \ {r} : phase'[q] = phase[q]
  BY Moves DEF IInv, Replay, Phase, Working, Final
<1>2. TypeOK'
  <2>a. PICK row \in slot :
           \E q \in row.response : serves' = [serves EXCEPT ![r] = q]
    BY DEF Replay
  <2>1. PICK q \in row.response : serves' = [serves EXCEPT ![r] = q]
    BY <2>a
  <2>2. q \in Requests
    BY DEF IInv, TypeOK, Row
  <2> QED
    BY <1>1, <2>1, <2>2 DEF IInv, Replay, TypeOK
<1>3. OneRow' /\ StaleIsIdle'
  BY <1>1 DEF IInv, Replay, OneRow, StaleIsIdle, Workers, Working, TypeOK
<1>4. WorkExcludes'
  BY <1>1
     DEF IInv, Replay, WorkExcludes, FreeIsUnused, Workers, Working, TypeOK,
         Effect, OneRow, Row
<1>5. FreeIsUnused' /\ OncePerEpoch'
  BY <1>1
     DEF IInv, Replay, FreeIsUnused, OncePerEpoch, WorkExcludes, Workers,
         Working, TypeOK, Effect, OneRow
<1>6. StoredIsEffect' /\ AnswersAreEffects'
  BY <1>1
     DEF IInv, Replay, StoredIsEffect, AnswersAreEffects, WorkExcludes,
         Workers, Working, TypeOK, Row
<1>7. PendingIsHeld'
  BY <1>1
     DEF IInv, Replay, PendingIsHeld, Holders, WorkExcludes, Workers, Working,
         OneRow, TypeOK
<1> QED
  BY <1>2, <1>3, <1>4, <1>5, <1>6, <1>7 DEF IInv

LEMMA HandlerCommitsInv == ASSUME IInv, NEW r \in Requests, HandlerCommits(r) PROVE IInv'
<1>1. /\ phase' \in [Requests -> Phase]
      /\ phase'[r] = "committed"
      /\ \A q \in Requests \ {r} : phase'[q] = phase[q]
  BY Moves DEF IInv, HandlerCommits, Phase, Working, Final
<1>2. TypeOK'
  BY RequestsAssumption, <1>1
     DEF IInv, HandlerCommits, TypeOK, Row, Effect
<1>3. OneRow' /\ StaleIsIdle'
  BY <1>1
     DEF IInv, HandlerCommits, OneRow, StaleIsIdle, Workers, Working, TypeOK
<1>4. WorkExcludes'
  <2>0. r \in Workers
    BY DEF HandlerCommits, Workers, Working
  <2>1. \A q \in Workers' : q = r
    <3>1. \A q \in Workers : q = r
      BY <2>0 DEF IInv, WorkExcludes
    <3> QED
      BY <1>1, <3>1 DEF Workers
  <2>2. \E row \in slot' : row.response = {} /\ row.hash = HashOf[r]
    BY <2>0 DEF HandlerCommits, IInv, WorkExcludes
  <2>3. [by |-> r, epoch |-> epoch'] \in effects'
    BY DEF HandlerCommits
  <2> QED
    BY <1>1, <2>1, <2>2, <2>3 DEF WorkExcludes
<1>5. FreeIsUnused' /\ OncePerEpoch'
  BY <1>1
     DEF IInv, HandlerCommits, FreeIsUnused, OncePerEpoch, WorkExcludes,
         Workers, Working, TypeOK, Effect, OneRow
<1>6. StoredIsEffect' /\ AnswersAreEffects'
  BY <1>1
     DEF IInv, HandlerCommits, StoredIsEffect, AnswersAreEffects, WorkExcludes,
         Workers, Working, TypeOK, Row
<1>7. PendingIsHeld'
  BY <1>1
     DEF IInv, HandlerCommits, PendingIsHeld, Holders, WorkExcludes, Workers,
         Working, OneRow, TypeOK
<1> QED
  BY <1>2, <1>3, <1>4, <1>5, <1>6, <1>7 DEF IInv

LEMMA HandlerRaisesInv == ASSUME IInv, NEW r \in Requests, HandlerRaises(r) PROVE IInv'
<1>1. /\ phase' \in [Requests -> Phase]
      /\ phase'[r] = "raised"
      /\ \A q \in Requests \ {r} : phase'[q] = phase[q]
  BY Moves DEF IInv, HandlerRaises, Phase, Working, Final
<1>2. TypeOK'
  BY RequestsAssumption, <1>1
     DEF IInv, HandlerRaises, TypeOK, Row, Effect
<1>3. OneRow' /\ StaleIsIdle'
  BY <1>1 DEF IInv, HandlerRaises, OneRow, StaleIsIdle, Workers, Working, TypeOK
<1>4. WorkExcludes'
  BY <1>1
     DEF IInv, HandlerRaises, WorkExcludes, FreeIsUnused, Workers, Working,
         TypeOK, Effect, OneRow, Row
<1>5. FreeIsUnused' /\ OncePerEpoch'
  BY <1>1
     DEF IInv, HandlerRaises, FreeIsUnused, OncePerEpoch, WorkExcludes,
         Workers, Working, TypeOK, Effect, OneRow
<1>6. StoredIsEffect' /\ AnswersAreEffects'
  BY <1>1
     DEF IInv, HandlerRaises, StoredIsEffect, AnswersAreEffects, WorkExcludes,
         Workers, Working, TypeOK, Row
<1>7. PendingIsHeld'
  BY <1>1
     DEF IInv, HandlerRaises, PendingIsHeld, Holders, WorkExcludes, Workers,
         Working, OneRow, TypeOK
<1> QED
  BY <1>2, <1>3, <1>4, <1>5, <1>6, <1>7 DEF IInv

LEMMA StoreInv == ASSUME IInv, NEW r \in Requests, Store(r) PROVE IInv'
<1>1. /\ phase' \in [Requests -> Phase]
      /\ phase'[r] = "ok"
      /\ \A q \in Requests \ {r} : phase'[q] = phase[q]
  BY Moves DEF IInv, Store, Phase, Working, Final
<1>a. r \in Workers /\ \A q \in Workers : q = r
  <2>1. r \in Workers
    BY DEF Store, Workers, Working
  <2> QED
    BY <2>1 DEF IInv, WorkExcludes
<1>b. PICK row \in slot : row.response = {} /\ row.hash = HashOf[r]
  BY <1>a DEF IInv, WorkExcludes
<1>c. slot = {row} /\ row \in Row
  BY <1>b DEF IInv, OneRow, TypeOK
<1> DEFINE new == [row EXCEPT !.response = {r}]
<1>d. slot' = {new}
  BY <1>c DEF Store
<1>e. new \in Row /\ new.hash = HashOf[r] /\ new.response = {r}
  BY <1>b, <1>c DEF Row
<1>f. Workers' = {}
  <2>1. r \notin Workers'
    BY <1>1 DEF Workers, Working
  <2>2. \A q \in Workers' : q \in Workers \/ q = r
    BY <1>1 DEF Workers
  <2> QED
    BY <1>a, <2>1, <2>2
<1> HIDE DEF new
<1>2. TypeOK'
  BY <1>1, <1>d, <1>e DEF IInv, Store, TypeOK
<1>3. OneRow' /\ StaleIsIdle'
  BY <1>d, <1>f DEF OneRow, StaleIsIdle
<1>4. WorkExcludes'
  BY <1>f DEF WorkExcludes
<1>5. FreeIsUnused' /\ OncePerEpoch'
  BY <1>d DEF IInv, Store, FreeIsUnused, OncePerEpoch
<1>6. StoredIsEffect' /\ AnswersAreEffects'
  <2>1. [by |-> r, epoch |-> epoch] \in effects
    BY <1>a DEF Store, IInv, WorkExcludes
  <2>2. \E a \in effects' : a.by = r
    BY <2>1 DEF Store
  <2>3. StoredIsEffect'
    BY <1>1, <1>d, <1>e, <2>2 DEF IInv, Store, StoredIsEffect
  <2>4. serves' = serves /\ serves[r] = r
    BY DEF Store, IInv, StoredIsEffect
  <2>5. AnswersAreEffects'
    BY <1>1, <2>2, <2>4 DEF IInv, Store, AnswersAreEffects
  <2> QED
    BY <2>3, <2>5
<1>7. PendingIsHeld'
  BY <1>d, <1>e DEF PendingIsHeld
<1> QED
  BY <1>2, <1>3, <1>4, <1>5, <1>6, <1>7 DEF IInv

LEMMA DiscardInv == ASSUME IInv, NEW r \in Requests, Discard(r) PROVE IInv'
<1>1. /\ phase' \in [Requests -> Phase]
      /\ phase'[r] = "error"
      /\ \A q \in Requests \ {r} : phase'[q] = phase[q]
  BY Moves DEF IInv, Discard, Phase, Working, Final
<1>2. TypeOK'
  BY RequestsAssumption, <1>1
     DEF IInv, Discard, TypeOK, Row, Effect
<1>3. OneRow' /\ StaleIsIdle'
  BY <1>1 DEF IInv, Discard, OneRow, StaleIsIdle, Workers, Working, TypeOK
<1>4. WorkExcludes'
  BY <1>1
     DEF IInv, Discard, WorkExcludes, FreeIsUnused, Workers, Working, TypeOK,
         Effect, OneRow, Row
<1>5. FreeIsUnused' /\ OncePerEpoch'
  BY <1>1
     DEF IInv, Discard, FreeIsUnused, OncePerEpoch, WorkExcludes, Workers,
         Working, TypeOK, Effect, OneRow
<1>6. StoredIsEffect' /\ AnswersAreEffects'
  BY <1>1
     DEF IInv, Discard, StoredIsEffect, AnswersAreEffects, WorkExcludes,
         Workers, Working, TypeOK, Row
<1>7. PendingIsHeld'
  BY <1>1
     DEF IInv, Discard, PendingIsHeld, Holders, WorkExcludes, Workers, Working,
         OneRow, TypeOK
<1> QED
  BY <1>2, <1>3, <1>4, <1>5, <1>6, <1>7 DEF IInv

LEMMA LoseInv == ASSUME IInv, NEW r \in Requests, Lose(r) PROVE IInv'
<1>1. /\ phase' \in [Requests -> Phase]
      /\ phase'[r] = IF phase[r] \in Working THEN "stuck" ELSE "lost"
      /\ \A q \in Requests \ {r} : phase'[q] = phase[q]
  BY Moves DEF IInv, Lose, Phase, Working, Final
<1>2. TypeOK'
  BY RequestsAssumption, <1>1
     DEF IInv, Lose, TypeOK, Row, Effect
<1>3. OneRow' /\ StaleIsIdle'
  BY <1>1 DEF IInv, Lose, OneRow, StaleIsIdle, Workers, Working, TypeOK
<1>4. WorkExcludes'
  BY <1>1
     DEF IInv, Lose, WorkExcludes, FreeIsUnused, Workers, Working, TypeOK,
         Effect, OneRow, Row
<1>5. FreeIsUnused' /\ OncePerEpoch'
  BY <1>1
     DEF IInv, Lose, FreeIsUnused, OncePerEpoch, WorkExcludes, Workers,
         Working, TypeOK, Effect, OneRow
<1>6. StoredIsEffect' /\ AnswersAreEffects'
  BY <1>1
     DEF IInv, Lose, StoredIsEffect, AnswersAreEffects, WorkExcludes, Workers,
         Working, TypeOK, Row
<1>7. PendingIsHeld'
  BY <1>1
     DEF IInv, Lose, PendingIsHeld, Holders, WorkExcludes, Workers, Working,
         OneRow, TypeOK
<1> QED
  BY <1>2, <1>3, <1>4, <1>5, <1>6, <1>7 DEF IInv

LEMMA GrowStaleInv == ASSUME IInv, GrowStale PROVE IInv'
<1>1. /\ slot # {}
      /\ slot' # {}
      /\ \A x \in slot' : \E row \in slot :
             x.hash = row.hash /\ x.response = row.response
  <2>1. slot # {} /\ slot' = {[row EXCEPT !.stale = TRUE] : row \in slot}
    BY DEF GrowStale
  <2>2. slot' # {}
    BY <2>1
  <2>3. \A row \in slot : [row EXCEPT !.stale = TRUE].hash = row.hash
                        /\ [row EXCEPT !.stale = TRUE].response = row.response
    BY DEF IInv, TypeOK, Row
  <2> QED
    BY <2>1, <2>2, <2>3
<1>2. TypeOK'
  BY RequestsAssumption
     DEF IInv, GrowStale, TypeOK, Row, Effect
<1>3. OneRow' /\ StaleIsIdle'
  BY DEF IInv, GrowStale, OneRow, StaleIsIdle, Workers, Working, TypeOK
<1>4. WorkExcludes'
  BY DEF IInv, GrowStale, WorkExcludes, FreeIsUnused, Workers, Working, TypeOK,
         Effect, OneRow, Row
<1>5. FreeIsUnused' /\ OncePerEpoch'
  BY <1>1 DEF IInv, GrowStale, FreeIsUnused, OncePerEpoch
<1>6. StoredIsEffect' /\ AnswersAreEffects'
  BY DEF IInv, GrowStale, StoredIsEffect, AnswersAreEffects, WorkExcludes,
         Workers, Working, TypeOK, Row
<1>7. PendingIsHeld'
  BY <1>1 DEF IInv, GrowStale, PendingIsHeld, Holders
<1> QED
  BY <1>2, <1>3, <1>4, <1>5, <1>6, <1>7 DEF IInv

LEMMA SweepStaleInv == ASSUME IInv, SweepStale PROVE IInv'
<1>2. TypeOK'
  BY RequestsAssumption
     DEF IInv, SweepStale, TypeOK, Row, Effect
<1>3. OneRow' /\ StaleIsIdle'
  BY DEF IInv, SweepStale, OneRow, StaleIsIdle, Workers, Working, TypeOK
<1>4. WorkExcludes'
  BY DEF IInv, SweepStale, StaleIsIdle, WorkExcludes, FreeIsUnused, Workers,
         Working, TypeOK, Effect, OneRow, Row
<1>5. FreeIsUnused' /\ OncePerEpoch'
  BY DEF IInv, SweepStale, FreeIsUnused, OncePerEpoch, WorkExcludes, Workers,
         Working, TypeOK, Effect, OneRow
<1>6. StoredIsEffect' /\ AnswersAreEffects'
  BY DEF IInv, SweepStale, StoredIsEffect, AnswersAreEffects, WorkExcludes,
         Workers, Working, TypeOK, Row
<1>7. PendingIsHeld'
  BY DEF IInv, SweepStale, PendingIsHeld, Holders, WorkExcludes, Workers,
         Working, OneRow, TypeOK
<1> QED
  BY <1>2, <1>3, <1>4, <1>5, <1>6, <1>7 DEF IInv

-----------------------------------------------------------------------------
LEMMA StepInv == IInv /\ [Next]_vars => IInv'
<1> SUFFICES ASSUME IInv, [Next]_vars PROVE IInv'
  OBVIOUS
<1>1. CASE UNCHANGED vars
  BY <1>1 DEF vars, IInv, TypeOK, OneRow, WorkExcludes, Workers, FreeIsUnused,
         StaleIsIdle, StoredIsEffect, OncePerEpoch, AnswersAreEffects,
         PendingIsHeld, Holders
<1>2. ASSUME NEW r \in Requests, Step(r) PROVE IInv'
  BY <1>2, InsertInv, CollideInv, RereadInv, RefuseBodyInv, RefuseInFlightInv,
     ReplayInv, HandlerCommitsInv, HandlerRaisesInv, StoreInv, DiscardInv
     DEF Step
<1>3. ASSUME NEW r \in Requests, Lose(r) PROVE IInv'
  BY <1>3, LoseInv
<1>4. CASE GrowStale
  BY <1>4, GrowStaleInv
<1>5. CASE SweepStale
  BY <1>5, SweepStaleInv
<1> QED
  BY <1>1, <1>2, <1>3, <1>4, <1>5 DEF Next

THEOREM Inductive == Spec => []IInv
BY InitInv, StepInv, PTL DEF Spec

\* The types of the slot, the requests and the committed effects, for any
\* requests and hashes.
THEOREM KeyTypes == Spec => []TypeOK
<1>1. IInv => TypeOK
  BY DEF IInv
<1> QED
  BY <1>1, Inductive, PTL

\* At most one handler of a key commits before the sweep reclaims the key
\* (with_idempotency), for any number of requests and any interleaving.
THEOREM OnceCorrect == Spec => []OncePerEpoch
<1>1. IInv => OncePerEpoch
  BY DEF IInv
<1> QED
  BY <1>1, Inductive, PTL

\* What a replay answers was done, by a request of the same body.
THEOREM ReplayCorrect == Spec => []AnswersAreEffects
<1>1. IInv => AnswersAreEffects
  BY DEF IInv
<1> QED
  BY <1>1, Inductive, PTL

\* A pending row always has a request at work, or a dead one, behind it.
THEOREM PendingCorrect == Spec => []PendingIsHeld
<1>1. IInv => PendingIsHeld
  BY DEF IInv
<1> QED
  BY <1>1, Inductive, PTL

=============================================================================
