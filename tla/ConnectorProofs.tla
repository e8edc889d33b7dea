-------------------------- MODULE ConnectorProofs --------------------------
(***************************************************************************)
(* An LEA has at most one live authorization, however many operators call  *)
(* at the same time: a row is inserted only past the partial unique index, *)
(* and an UPDATE by id, late as it may be, never clears revoked_at.  The   *)
(* audit log tells how each status, and since its activation each poll     *)
(* interval, came about; only calls that overlapped can break the chain.   *)
(***************************************************************************)
EXTENDS ConnectorLifecycle, TLAPS

Answer == PartnerStatuses \cup {"active", "unknown"}

AuthRow == [lea : Leas, status : AuthStatus, revoked : BOOLEAN, interval : Nat,
            integration : Answer]

\* An open call names a row that was there when it read it, or none.
CallOK(call) ==
    call.op \in {"authorize", "revoke", "adjust"} =>
        /\ call.w.lea \in Leas /\ call.w.interval \in Nat
        /\ call.w.row \in 0..Len(auth)
        /\ call.op # "authorize" => call.w.row # 0

OpenCallsOK ==
    /\ tx = [o \in Operators |-> tx[o]]
    /\ \A o \in Operators : CallOK(tx[o])

Drain == [phase : {"asked", "fetching"}, lea : Leas, answer : Answer, pages : Nat,
          live : BOOLEAN]

DrainOK == drain \in Drain \cup {AtRest}

TypesOK ==
    /\ auth \in Seq(AuthRow)
    /\ OpenCallsOK
    /\ partner \in [Leas -> Answer]
    /\ DrainOK

IInv == TypesOK /\ OneLiveAuthorization

-----------------------------------------------------------------------------
LEMMA InitInv == ConnectorInit => IInv
<1> SUFFICES ASSUME ConnectorInit PROVE IInv
  OBVIOUS
<1>1. auth \in Seq(AuthRow) /\ Len(auth) <= 1
  <2>1. CASE auth = <<>>
    BY <2>1
  <2>2. CASE auth # <<>>
    <3>1. PICK l \in Leas : auth = <<[NewRow(l, 300) EXCEPT !.status = "pending"]>>
      BY <2>2 DEF ConnectorInit
    <3>2. NewRow(l, 300) \in AuthRow
      BY DEF NewRow, AuthRow, AuthStatus, Answer
    <3>3. [NewRow(l, 300) EXCEPT !.status = "pending"] \in AuthRow
      BY <3>2 DEF AuthRow, AuthStatus
    <3> QED
      BY <3>1, <3>3
  <2> QED
    BY <2>1, <2>2
<1>2. OpenCallsOK
  BY DEF ConnectorInit, OpenCallsOK, CallOK, Idle
<1>3. TypesOK
  BY <1>1, <1>2 DEF ConnectorInit, TypesOK, DrainOK, Answer
<1>4. OneLiveAuthorization
  BY <1>1 DEF OneLiveAuthorization, Rows
<1> QED
  BY <1>3, <1>4 DEF IInv

Closes(o) == tx' = [tx EXCEPT ![o] = Idle]

\* What a call that ends does to the open calls.
LEMMA Ends ==
    ASSUME TypesOK, NEW o \in Operators, Closes(o),
           Len(auth) \in Nat, Len(auth') \in Nat, Len(auth) <= Len(auth')
    PROVE  OpenCallsOK'
<1>1. tx'[o] = Idle /\ \A p \in Operators \ {o} : tx'[p] = tx[p]
  BY DEF TypesOK, OpenCallsOK, Closes
<1>2. tx' = [p \in Operators |-> tx'[p]]
  BY DEF TypesOK, OpenCallsOK, Closes
<1>3. ASSUME NEW p \in Operators PROVE CallOK(tx[p])'
  <2>1. CASE p = o
    BY <1>1, <2>1 DEF CallOK, Idle
  <2>2. CASE p # o
    BY <1>1, <2>2 DEF CallOK, TypesOK, OpenCallsOK
  <2> QED
    BY <2>1, <2>2
<1> QED
  BY <1>2, <1>3 DEF OpenCallsOK

\* A call that begins with something sound leaves every open call sound.
LEMMA Begins ==
    ASSUME TypesOK, NEW o \in Operators, NEW work, Begin(o, work), auth' = auth,
           work.op \in {"authorize", "revoke", "adjust"} =>
               /\ work.lea \in Leas /\ work.interval \in Nat
               /\ work.row \in 0..Len(auth)
               /\ work.op # "authorize" => work.row # 0
    PROVE  OpenCallsOK'
<1>1. tx'[o] = [w |-> work, op |-> work.op, seen |-> Len(audit)]
  BY DEF TypesOK, OpenCallsOK, Begin
<1>2. \A p \in Operators \ {o} : tx'[p] = tx[p]
  BY DEF TypesOK, OpenCallsOK, Begin
<1>3. tx' = [p \in Operators |-> tx'[p]]
  BY DEF TypesOK, OpenCallsOK, Begin
<1>4. ASSUME NEW p \in Operators PROVE CallOK(tx[p])'
  <2>1. CASE p = o
    BY <1>1, <2>1 DEF CallOK
  <2>2. CASE p # o
    BY <1>2, <2>2 DEF CallOK, TypesOK, OpenCallsOK
  <2> QED
    BY <2>1, <2>2
<1> QED
  BY <1>3, <1>4 DEF OpenCallsOK

\* _load_live_row finds a row of the table, or nothing.
LEMMA CallFindsRow ==
    ASSUME auth \in Seq(AuthRow), NEW l \in Leas, NEW interval \in Nat, NEW op
    PROVE  LET call == Call(op, l, interval)
           IN  /\ call.op = op /\ call.lea = l /\ call.interval = interval
               /\ call.row \in 0..Len(auth)
               /\ Live(l) # {} => call.row # 0
<1> DEFINE live == Live(l)
           r == IF live = {} THEN 0 ELSE CHOOSE q \in live : TRUE
<1>1. live \subseteq 1..Len(auth)
  BY DEF Live, Rows
<1>2. live # {} => r \in live
  BY Zenon
<1>3. live = {} => r = 0
  OBVIOUS
<1>4. r \in 0..Len(auth) /\ (live # {} => r # 0)
  <2>1. Len(auth) \in Nat
    OBVIOUS
  <2> HIDE DEF live, r
  <2>2. CASE live = {}
    BY <1>3, <2>1, <2>2
  <2>3. CASE live # {}
    <3>1. r \in 1..Len(auth)
      BY <1>1, <1>2, <2>3
    <3> QED
      BY <2>1, <2>3, <3>1
  <2> QED
    BY <2>2, <2>3
<1>5. /\ Call(op, l, interval).row = r /\ Call(op, l, interval).op = op
      /\ Call(op, l, interval).lea = l /\ Call(op, l, interval).interval = interval
  BY Zenon DEF Call
<1> QED
  BY <1>4, <1>5 DEF live

\* An UPDATE that keeps the rows' LEAs and clears no revoked_at keeps the
\* invariant.
LEMMA UpdateKeepsOneLive ==
    ASSUME auth \in Seq(AuthRow), auth' \in Seq(AuthRow), OneLiveAuthorization,
           Len(auth') = Len(auth),
           \A r \in 1..Len(auth) : /\ auth'[r].lea = auth[r].lea
                                   /\ auth[r].revoked => auth'[r].revoked
    PROVE  OneLiveAuthorization'
BY DEF OneLiveAuthorization, Rows

-----------------------------------------------------------------------------
LEMMA LeaAdminInv ==
    ASSUME IInv, NEW o \in Operators, LeaAdminCall(o),
           UNCHANGED <<auth, partner, flips, drain>>
    PROVE  IInv'
<1>1. OneLiveAuthorization' /\ auth' \in Seq(AuthRow) /\ partner' \in [Leas -> Answer]
  BY DEF IInv, TypesOK, OneLiveAuthorization, Rows
<1>2. DrainOK'
  BY DEF IInv, TypesOK, DrainOK
<1>3. Len(auth) \in Nat
  BY DEF IInv, TypesOK
<1>4. OpenCallsOK'
  <2>1. ASSUME NEW l, NEW n, NEW i, BeginCreate(o, l, n, i) PROVE OpenCallsOK'
    BY <2>1, Begins DEF BeginCreate, IInv
  <2>2. ASSUME NEW l, NEW s, BeginTransition(o, l, s) PROVE OpenCallsOK'
    BY <2>2, Begins DEF BeginTransition, IInv
  <2>3. ASSUME Closes(o) PROVE OpenCallsOK'
    BY <2>3, <1>3, Ends DEF IInv
  <2> QED
    BY <2>1, <2>2, <2>3
       DEF LeaAdminCall, FinishCreate, FinishTransition, Rollback, Audit, Closes
<1> QED
  BY <1>1, <1>2, <1>4 DEF IInv, TypesOK

LEMMA BeginInv ==
    ASSUME IInv, NEW o \in Operators, NEW op, NEW l \in Leas, NEW interval \in Nat,
           op = "authorize" \/ Live(l) # {},
           Begin(o, Call(op, l, interval)), UNCHANGED <<auth, partner, drain>>
    PROVE  IInv'
<1>1. OneLiveAuthorization' /\ auth' \in Seq(AuthRow) /\ partner' \in [Leas -> Answer]
  BY DEF IInv, TypesOK, OneLiveAuthorization, Rows
<1>2. DrainOK'
  BY DEF IInv, TypesOK, DrainOK
<1>3. auth \in Seq(AuthRow)
  BY DEF IInv, TypesOK
<1> DEFINE call == Call(op, l, interval)
<1>4. /\ call.op = op /\ call.lea = l /\ call.interval = interval
      /\ call.row \in 0..Len(auth) /\ (Live(l) # {} => call.row # 0)
  BY <1>3, CallFindsRow
<1>5. Begin(o, call)
  OBVIOUS
<1> HIDE DEF call
<1>6. OpenCallsOK'
  BY <1>4, <1>5, Begins DEF IInv
<1> QED
  BY <1>1, <1>2, <1>6 DEF IInv, TypesOK

LEMMA AuthorizeNewInv ==
    ASSUME IInv, NEW o \in Operators, AuthorizeNew(o) PROVE IInv'
<1> DEFINE new == NewRow(tx[o].w.lea, tx[o].w.interval)
<1>1. tx[o].w.lea \in Leas /\ tx[o].w.interval \in Nat
  BY DEF IInv, TypesOK, OpenCallsOK, CallOK, AuthorizeNew
<1>2. new \in AuthRow /\ new.lea = tx[o].w.lea
  BY <1>1 DEF NewRow, AuthRow, AuthStatus, Answer
<1>3. auth \in Seq(AuthRow) /\ auth' = Append(auth, new)
  BY DEF IInv, TypesOK, AuthorizeNew
<1>4. \A r \in 1..Len(auth) : auth[r].lea = tx[o].w.lea => auth[r].revoked
  BY DEF AuthorizeNew, IndexAllows, Live, Rows
<1> HIDE DEF new
<1>5. /\ auth' \in Seq(AuthRow) /\ Len(auth') = Len(auth) + 1
      /\ auth'[Len(auth) + 1] = new
      /\ \A r \in 1..Len(auth) : auth'[r] = auth[r]
  BY <1>2, <1>3
<1>6. OneLiveAuthorization'
  BY <1>2, <1>3, <1>4, <1>5 DEF IInv, OneLiveAuthorization, Rows
<1>7. Closes(o) /\ UNCHANGED <<partner, drain>>
  BY DEF AuthorizeNew, Audit, Closes
<1>8. OpenCallsOK'
  BY <1>3, <1>5, <1>7, Ends DEF IInv
<1>9. DrainOK' /\ partner' \in [Leas -> Answer]
  BY <1>7 DEF IInv, TypesOK, DrainOK
<1> QED
  BY <1>5, <1>6, <1>8, <1>9 DEF IInv, TypesOK

\* An UPDATE of one row by the id that was read.
LEMMA UpdateInv ==
    ASSUME IInv, NEW o \in Operators, NEW r \in 1..Len(auth), NEW row \in AuthRow,
           auth' = [auth EXCEPT ![r] = row], row.lea = auth[r].lea,
           auth[r].revoked => row.revoked,
           Closes(o), UNCHANGED <<partner, drain>>
    PROVE  IInv'
<1>1. auth \in Seq(AuthRow)
  BY DEF IInv, TypesOK
<1>2. auth' \in Seq(AuthRow) /\ Len(auth') = Len(auth) /\ Len(auth) \in Nat
  BY <1>1
<1>3. auth'[r] = row /\ \A q \in 1..Len(auth) : q # r => auth'[q] = auth[q]
  BY <1>1
<1>4. OneLiveAuthorization'
  BY <1>1, <1>2, <1>3, UpdateKeepsOneLive DEF IInv
<1>5. OpenCallsOK'
  BY <1>2, Ends DEF IInv
<1>6. DrainOK' /\ partner' \in [Leas -> Answer]
  BY DEF IInv, TypesOK, DrainOK
<1> QED
  BY <1>2, <1>4, <1>5, <1>6 DEF IInv, TypesOK

LEMMA AuthorizePendingInv ==
    ASSUME IInv, NEW o \in Operators, AuthorizePending(o) PROVE IInv'
<1> DEFINE r == tx[o].w.row
           row == [auth[r] EXCEPT !.status = "active", !.interval = tx[o].w.interval]
<1>1. r \in 1..Len(auth) /\ tx[o].w.interval \in Nat /\ auth \in Seq(AuthRow)
  BY DEF IInv, TypesOK, OpenCallsOK, CallOK, AuthorizePending
<1>2. auth[r] \in AuthRow
  BY <1>1
<1>3. row \in AuthRow /\ row.lea = auth[r].lea /\ row.revoked = auth[r].revoked
  BY <1>1, <1>2 DEF AuthRow, AuthStatus
<1>4. auth' = [auth EXCEPT ![r] = row]
  BY <1>1, <1>2 DEF AuthorizePending, AuthRow
<1>5. Closes(o) /\ UNCHANGED <<partner, drain>>
  BY DEF AuthorizePending, Audit, Closes
<1> HIDE DEF r, row
<1> QED
  BY <1>1, <1>3, <1>4, <1>5, UpdateInv

LEMMA AuthorizeAgainInv ==
    ASSUME IInv, NEW o \in Operators, AuthorizeAgain(o) PROVE IInv'
<1>1. Closes(o) /\ UNCHANGED <<auth, partner, drain>>
  BY DEF AuthorizeAgain, Audit, Closes
<1>2. Len(auth) \in Nat
  BY DEF IInv, TypesOK
<1>3. OpenCallsOK'
  BY <1>1, <1>2, Ends DEF IInv
<1>4. OneLiveAuthorization' /\ DrainOK'
  BY <1>1 DEF IInv, TypesOK, DrainOK, OneLiveAuthorization, Rows
<1> QED
  BY <1>1, <1>3, <1>4 DEF IInv, TypesOK

LEMMA FinishRevokeInv ==
    ASSUME IInv, NEW o \in Operators, FinishRevoke(o) PROVE IInv'
<1> DEFINE r == tx[o].w.row
           row == [auth[r] EXCEPT !.status = "revoked", !.revoked = TRUE]
<1>1. r \in 1..Len(auth) /\ auth \in Seq(AuthRow)
  BY DEF IInv, TypesOK, OpenCallsOK, CallOK, FinishRevoke
<1>2. auth[r] \in AuthRow
  BY <1>1
<1>3. row \in AuthRow /\ row.lea = auth[r].lea /\ row.revoked
  BY <1>1, <1>2 DEF AuthRow, AuthStatus
<1>4. auth' = [auth EXCEPT ![r] = row]
  BY <1>1, <1>2 DEF FinishRevoke, AuthRow
<1>5. Closes(o) /\ UNCHANGED <<partner, drain>>
  BY DEF FinishRevoke, Audit, Closes
<1> HIDE DEF r, row
<1> QED
  BY <1>1, <1>3, <1>4, <1>5, UpdateInv

LEMMA FinishAdjustInv ==
    ASSUME IInv, NEW o \in Operators, FinishAdjust(o) PROVE IInv'
<1> DEFINE r == tx[o].w.row
           row == [auth[r] EXCEPT !.interval = tx[o].w.interval]
<1>1. r \in 1..Len(auth) /\ tx[o].w.interval \in Nat /\ auth \in Seq(AuthRow)
  BY DEF IInv, TypesOK, OpenCallsOK, CallOK, FinishAdjust
<1>2. auth[r] \in AuthRow
  BY <1>1
<1>3. row \in AuthRow /\ row.lea = auth[r].lea /\ row.revoked = auth[r].revoked
  BY <1>1, <1>2 DEF AuthRow
<1>4. auth' = [auth EXCEPT ![r] = row]
  BY <1>1, <1>2 DEF FinishAdjust, AuthRow
<1>5. Closes(o) /\ UNCHANGED <<partner, drain>>
  BY DEF FinishAdjust, Audit, Closes
<1> HIDE DEF r, row
<1> QED
  BY <1>1, <1>3, <1>4, <1>5, UpdateInv

-----------------------------------------------------------------------------
\* A step of the drain or of the partner that touches no call.
LEMMA NoCallInv ==
    ASSUME IInv, tx' = tx, auth' \in Seq(AuthRow), Len(auth') = Len(auth),
           \A r \in 1..Len(auth) : /\ auth'[r].lea = auth[r].lea
                                   /\ auth'[r].revoked = auth[r].revoked,
           partner' \in [Leas -> Answer], DrainOK'
    PROVE  IInv'
<1>1. OneLiveAuthorization'
  BY UpdateKeepsOneLive DEF IInv, TypesOK
<1>2. OpenCallsOK'
  BY DEF IInv, TypesOK, OpenCallsOK, CallOK
<1> QED
  BY <1>1, <1>2 DEF IInv, TypesOK

LEMMA StoreAnswerInv == ASSUME IInv, StoreAnswer PROVE IInv'
<1>1. auth \in Seq(AuthRow) /\ drain.answer \in Answer
  BY DEF IInv, TypesOK, DrainOK, Drain, AtRest, StoreAnswer
<1> DEFINE stored(r) == [auth[r] EXCEPT !.integration = drain.answer]
<1>2. \A r \in 1..Len(auth) : /\ stored(r) \in AuthRow
                              /\ stored(r).lea = auth[r].lea
                              /\ stored(r).revoked = auth[r].revoked
  <2> TAKE r \in 1..Len(auth)
  <2>1. auth[r] \in AuthRow
    BY <1>1
  <2> QED
    BY <1>1, <2>1 DEF AuthRow
<1>3. auth' = [r \in 1..Len(auth) |->
                  IF r \in Live(drain.lea) THEN stored(r) ELSE auth[r]]
  BY DEF StoreAnswer, Rows
<1> HIDE DEF stored
<1>4. /\ auth' \in Seq(AuthRow) /\ Len(auth') = Len(auth)
      /\ \A r \in 1..Len(auth) : /\ auth'[r].lea = auth[r].lea
                                 /\ auth'[r].revoked = auth[r].revoked
  <2> DEFINE f(r) == IF r \in Live(drain.lea) THEN stored(r) ELSE auth[r]
  <2>1. \A r \in 1..Len(auth) : /\ f(r) \in AuthRow
                                /\ f(r).lea = auth[r].lea
                                /\ f(r).revoked = auth[r].revoked
    BY <1>1, <1>2
  <2>2. auth' = [r \in 1..Len(auth) |-> f(r)]
    BY <1>3
  <2>3. Len(auth) \in Nat
    BY <1>1
  <2> HIDE DEF f
  <2> QED
    BY <2>1, <2>2, <2>3
<1>5. DrainOK'
  <2>1. drain \in Drain
    BY DEF StoreAnswer, AtRest, DrainOK, IInv, TypesOK
  <2>2. Fetching \in Drain
    BY <2>1 DEF Fetching, Drain
  <2> QED
    BY <2>2 DEF StoreAnswer, DrainOK
<1>6. partner' \in [Leas -> Answer] /\ tx' = tx
  BY DEF StoreAnswer, IInv, TypesOK
<1> QED
  BY <1>4, <1>5, <1>6, NoCallInv

LEMMA QuietStepInv ==
    ASSUME IInv, UNCHANGED <<tx, auth>>, partner' \in [Leas -> Answer], DrainOK'
    PROVE  IInv'
BY NoCallInv DEF IInv, TypesOK

LEMMA WorkerInv ==
    ASSUME IInv,
           \/ DrainStep
           \/ \E l \in Leas, s \in PartnerStatuses : PartnerChanges(l, s)
    PROVE  IInv'
<1>1. ASSUME NEW l \in Leas, StartDrain(l) PROVE IInv'
  <2>1. DrainOK' /\ partner' \in [Leas -> Answer] /\ UNCHANGED <<tx, auth>>
    BY <1>1 DEF StartDrain, IInv, TypesOK, DrainOK, Drain
  <2> QED
    BY <2>1, QuietStepInv
<1>2. CASE StoreAnswer
  BY <1>2, StoreAnswerInv
<1>3. CASE FetchPage
  <2>1. drain' = AtRest \/ drain' = [drain EXCEPT !.pages = @ + 1]
    BY <1>3 DEF FetchPage
  <2>2. drain \in Drain
    BY <1>3 DEF FetchPage, AtRest, DrainOK, IInv, TypesOK
  <2>3. [drain EXCEPT !.pages = @ + 1] \in Drain
    BY <2>2 DEF Drain
  <2>4. DrainOK'
    BY <2>1, <2>3 DEF DrainOK
  <2>5. partner' \in [Leas -> Answer] /\ UNCHANGED <<tx, auth>>
    BY <1>3 DEF FetchPage, IInv, TypesOK
  <2> QED
    BY <2>4, <2>5, QuietStepInv
<1>4. CASE DrainFails
  <2>1. DrainOK' /\ partner' \in [Leas -> Answer] /\ UNCHANGED <<tx, auth>>
    BY <1>4 DEF DrainFails, IInv, TypesOK, DrainOK, AtRest
  <2> QED
    BY <2>1, QuietStepInv
<1>5. ASSUME NEW l \in Leas, NEW s \in PartnerStatuses, PartnerChanges(l, s)
      PROVE IInv'
  <2>1. DrainOK' /\ partner' \in [Leas -> Answer] /\ UNCHANGED <<tx, auth>>
    BY <1>5 DEF PartnerChanges, IInv, TypesOK, DrainOK, Answer
  <2> QED
    BY <2>1, QuietStepInv
<1> QED
  BY <1>1, <1>2, <1>3, <1>4, <1>5 DEF DrainStep

LEMMA OperatorInv == ASSUME IInv, NEW o \in Operators, OperatorCall(o) PROVE IInv'
<1>1. Intervals \subseteq Nat
  BY ConnectorAssumption
<1>2. CASE LeaAdminCall(o) /\ UNCHANGED <<auth, partner, flips, drain>>
  BY <1>2, LeaAdminInv
<1>3. ASSUME NEW l \in Leas, NEW i \in Intervals, BeginAuthorize(o, l, i) PROVE IInv'
  BY <1>1, <1>3, BeginInv DEF BeginAuthorize
<1>4. ASSUME NEW l \in Leas, NEW i \in Intervals, BeginAdjust(o, l, i) PROVE IInv'
  BY <1>1, <1>4, BeginInv DEF BeginAdjust
<1>5. ASSUME NEW l \in Leas, BeginRevoke(o, l) PROVE IInv'
  BY <1>5, BeginInv DEF BeginRevoke
<1>6. CASE AuthorizeNew(o) \/ AuthorizePending(o) \/ AuthorizeAgain(o)
  BY <1>6, AuthorizeNewInv, AuthorizePendingInv, AuthorizeAgainInv
<1>7. CASE FinishRevoke(o) \/ FinishAdjust(o)
  BY <1>7, FinishRevokeInv, FinishAdjustInv
<1> QED
  BY <1>2, <1>3, <1>4, <1>5, <1>6, <1>7 DEF OperatorCall

LEMMA StepInv == IInv /\ [ConnectorNext]_connectorVars => IInv'
<1> SUFFICES ASSUME IInv, [ConnectorNext]_connectorVars PROVE IInv'
  OBVIOUS
<1>1. CASE UNCHANGED connectorVars
  BY <1>1, QuietStepInv DEF connectorVars, IInv, TypesOK, DrainOK
<1>2. CASE ConnectorNext
  BY <1>2, OperatorInv, WorkerInv DEF ConnectorNext
<1> QED
  BY <1>1, <1>2

\* Every reachable state has well-formed authorization rows, and every open
\* call of ConnectorAuthorizationService an existing row to update.
THEOREM AuthorizationTypes == ConnectorSpec => []TypesOK
<1>1. IInv => TypesOK
  BY DEF IInv
<1> QED
  BY <1>1, InitInv, StepInv, PTL DEF ConnectorSpec

\* authorize, revoke and adjust_poll_interval by any number of operators at
\* the same time never leave an LEA with two authorizations in force.
THEOREM OneLiveCorrect == ConnectorSpec => []OneLiveAuthorization
<1>1. IInv => OneLiveAuthorization
  BY DEF IInv
<1> QED
  BY <1>1, InitInv, StepInv, PTL DEF ConnectorSpec

-----------------------------------------------------------------------------
(* What an audit log says of one field of one row, as functions of the log. *)

TrailIn(log, target, field) ==
    {n \in 1..Len(log) : log[n].target = target /\ log[n].field = field}

LateIn(log, n, m) == m < n /\ log[n].seen < m

\* Each entry starts where the one before ended, or its call came late.
Linked(log, T) == \A n \in T : \A m \in T :
    m < n /\ (\A k \in T : k < n => k <= m) =>
        (\E k \in T : LateIn(log, n, k)) \/ log[n].from = log[m].to

\* The last entry ends at v, or its call came late.
EndsAt(log, T, v) == \A n \in T :
    (\A k \in T : k <= n) => (\E k \in T : LateIn(log, n, k)) \/ v = log[n].to

LastIs(log, T, v) == \A n \in T : (\A k \in T : k <= n) => log[n].to = v

LEMMA ChainedMeans ==
    ASSUME NEW T, NEW v
    PROVE  /\ Chained(T, v) <=> Linked(audit, T) /\ EndsAt(audit, T, v)
           /\ Chained(T, v)' <=> Linked(audit', T) /\ EndsAt(audit', T, v)
<1>1. Chained(T, v) <=> Linked(audit, T) /\ EndsAt(audit, T, v)
  <2>1. ASSUME Chained(T, v) PROVE Linked(audit, T)
    BY <2>1 DEF Chained, Overlapped, Linked, LateIn
  <2>2. ASSUME Chained(T, v) PROVE EndsAt(audit, T, v)
    BY <2>2 DEF Chained, Overlapped, EndsAt, LateIn
  <2>3. ASSUME Linked(audit, T), EndsAt(audit, T, v) PROVE Chained(T, v)
    BY <2>3 DEF Chained, Overlapped, Linked, EndsAt, LateIn
  <2> QED
    BY <2>1, <2>2, <2>3
<1>2. Chained(T, v)' <=> Linked(audit', T) /\ EndsAt(audit', T, v)
  <2>1. ASSUME Chained(T, v)' PROVE Linked(audit', T)
    BY <2>1 DEF Chained, Overlapped, Linked, LateIn
  <2>2. ASSUME Chained(T, v)' PROVE EndsAt(audit', T, v)
    BY <2>2 DEF Chained, Overlapped, EndsAt, LateIn
  <2>3. ASSUME Linked(audit', T), EndsAt(audit', T, v) PROVE Chained(T, v)'
    BY <2>3 DEF Chained, Overlapped, Linked, EndsAt, LateIn
  <2> QED
    BY <2>1, <2>2, <2>3
<1> QED
  BY <1>1, <1>2

Value == LeaStatus \cup AuthStatus \cup {"absent", "none"} \cup Nat

Entry == [target : Leas \cup Nat, field : {"lea_status", "status", "interval"},
          from : Value, to : Value, seen : Nat]

\* An entry is added to its own trail and to no other.
LEMMA TrailAppend ==
    ASSUME NEW log \in Seq(Entry), NEW e \in Entry, NEW t, NEW f
    PROVE  LET log2 == Append(log, e)
               N == Len(log) + 1
           IN  /\ log2 \in Seq(Entry) /\ Len(log) \in Nat /\ Len(log2) = N
               /\ log2[N] = e /\ \A n \in 1..Len(log) : log2[n] = log[n]
               /\ TrailIn(log, t, f) \subseteq 1..Len(log)
               /\ e.target = t /\ e.field = f =>
                      TrailIn(log2, t, f) = TrailIn(log, t, f) \cup {N}
               /\ ~(e.target = t /\ e.field = f) =>
                      TrailIn(log2, t, f) = TrailIn(log, t, f)
<1> DEFINE log2 == Append(log, e)
           N == Len(log) + 1
<1>1. /\ log2 \in Seq(Entry) /\ Len(log) \in Nat /\ Len(log2) = N
      /\ log2[N] = e /\ \A n \in 1..Len(log) : log2[n] = log[n]
  OBVIOUS
<1>2. 1..Len(log2) = 1..Len(log) \cup {N} /\ N \notin 1..Len(log)
  BY <1>1
<1> HIDE DEF log2, N
<1>3. /\ e.target = t /\ e.field = f =>
             TrailIn(log2, t, f) = TrailIn(log, t, f) \cup {N}
      /\ ~(e.target = t /\ e.field = f) => TrailIn(log2, t, f) = TrailIn(log, t, f)
  BY <1>1, <1>2 DEF TrailIn
<1>4. TrailIn(log, t, f) \subseteq 1..Len(log)
  BY DEF TrailIn
<1> QED
  BY <1>1, <1>3, <1>4 DEF log2, N

\* A trail that no entry is added to says what it said.
LEMMA TrailKept ==
    ASSUME NEW log \in Seq(Entry), NEW e \in Entry, NEW T \in SUBSET (1..Len(log)), NEW v
    PROVE  LET log2 == Append(log, e)
           IN  /\ Linked(log, T) => Linked(log2, T)
               /\ EndsAt(log, T, v) => EndsAt(log2, T, v)
               /\ LastIs(log, T, v) => LastIs(log2, T, v)
<1> DEFINE log2 == Append(log, e)
<1>1. \A n \in T : log2[n] = log[n]
  OBVIOUS
<1> HIDE DEF log2
<1>2. \A m, n \in T : LateIn(log2, n, m) <=> LateIn(log, n, m)
  BY <1>1 DEF LateIn
<1>3. Linked(log, T) => Linked(log2, T)
  BY <1>1, <1>2 DEF Linked
<1>4. EndsAt(log, T, v) => EndsAt(log2, T, v)
  BY <1>1, <1>2 DEF EndsAt
<1>5. LastIs(log, T, v) => LastIs(log2, T, v)
  BY <1>1 DEF LastIs
<1> QED
  BY <1>3, <1>4, <1>5 DEF log2

\* A trail that grows by the entry of a call: either a change was committed
\* since the call read, or the entry starts where the trail ended.
LEMMA TrailGrows ==
    ASSUME NEW log \in Seq(Entry), NEW e \in Entry, NEW T \in SUBSET (1..Len(log)), NEW v,
           Linked(log, T),
           \/ \E m \in T : e.seen < m
           \/ LastIs(log, T, e.from) /\ v = e.to
    PROVE  LET log2 == Append(log, e)
               T2 == T \cup {Len(log) + 1}
           IN  /\ Linked(log2, T2) /\ EndsAt(log2, T2, v)
               /\ LastIs(log2, T2, e.to)
<1> DEFINE log2 == Append(log, e)
           N == Len(log) + 1
<1>1. Len(log) \in Nat /\ log2[N] = e /\ \A n \in T : log2[n] = log[n]
  OBVIOUS
<1>2. (\A n \in T : n < N /\ n <= N /\ ~(N <= n) /\ ~(N < n)) /\ N <= N /\ ~(N < N)
  BY <1>1
<1> HIDE DEF log2, N
<1>3. \A n, m \in T : LateIn(log2, n, m) <=> LateIn(log, n, m)
  BY <1>1 DEF LateIn
<1>4. \A m \in T : LateIn(log2, N, m) <=> e.seen < m
  BY <1>1, <1>2 DEF LateIn
<1>5. \/ \E k \in T : LateIn(log2, N, k)
      \/ LastIs(log, T, e.from) /\ v = e.to
  BY <1>4
<1>7. ASSUME NEW n \in T \cup {N}, NEW m \in T \cup {N}, m < n,
             \A k \in T \cup {N} : k < n => k <= m
      PROVE  (\E k \in T \cup {N} : LateIn(log2, n, k)) \/ log2[n].from = log2[m].to
  <2>1. CASE n = N
    <3>1. m \in T
      BY <1>2, <1>7, <2>1
    <3>2. \A k \in T : k <= m
      BY <1>2, <1>7, <2>1
    <3> QED
      BY <1>1, <1>5, <2>1, <3>1, <3>2 DEF LastIs
  <2>2. CASE n \in T
    <3>1. m \in T
      BY <1>2, <1>7, <2>2
    <3>2. \A k \in T : k < n => k <= m
      BY <1>7
    <3>3. (\E k \in T : LateIn(log, n, k)) \/ log[n].from = log[m].to
      BY <1>7, <2>2, <3>1, <3>2 DEF Linked
    <3> QED
      BY <1>1, <1>3, <2>2, <3>1, <3>3
  <2> QED
    BY <2>1, <2>2
<1>8. ASSUME NEW n \in T \cup {N}, \A k \in T \cup {N} : k <= n
      PROVE  n = N
  BY <1>2, <1>8
<1>9. Linked(log2, T \cup {N})
  BY <1>7 DEF Linked
<1>10. EndsAt(log2, T \cup {N}, v)
  BY <1>1, <1>5, <1>8 DEF EndsAt
<1>11. LastIs(log2, T \cup {N}, e.to)
  BY <1>1, <1>8 DEF LastIs
<1> QED
  BY <1>9, <1>10, <1>11 DEF log2, N

-----------------------------------------------------------------------------
(* What ties the audit log to the tables.                                  *)

LeaLog(l) == TrailIn(audit, l, "lea_status")
RowLog(r) == TrailIn(audit, r, "status")

LeaRowOrNone == [status : LeaStatus \cup {"absent"}, name : Names \cup {NoLabel},
                 integration : Integrations \cup {NoLabel}]

LogTypes ==
    /\ leas \in [Leas -> LeaRowOrNone]
    /\ audit \in Seq(Entry)
    /\ \A n \in 1..Len(audit) :
          audit[n].field = "status" => audit[n].target \in 1..Len(auth)

\* Whatever happened to an LEA since its first entry is in its trail.
LeaHistory(l) ==
    /\ Linked(audit, LeaLog(l))
    /\ LastIs(audit, LeaLog(l), leas[l].status)
    /\ LeaLog(l) # {} => Known(l)

\* So it is with a live authorization.  A revoked one may be named by calls
\* that had read it live: they come late.
RowHistory(r) ==
    /\ Linked(audit, RowLog(r))
    /\ EndsAt(audit, RowLog(r), auth[r].status)
    /\ ~auth[r].revoked => /\ auth[r].status \in {"pending", "active"}
                           /\ LastIs(audit, RowLog(r), auth[r].status)
    /\ auth[r].revoked /\ auth[r].status # "revoked" =>
          \E m, n \in RowLog(r) :
              /\ audit[m].to = "revoked" /\ LateIn(audit, n, m)
              /\ audit[n].from = "pending" /\ audit[n].to = "active"

Labels ==
    \A k, l \in Leas : k # l =>
        /\ leas[k].integration = leas[l].integration => leas[k].integration = NoLabel
        /\ leas[k].name = leas[l].name /\ leas[k].name # NoLabel =>
              \E m \in LeaLog(k), n \in LeaLog(l) :
                  /\ audit[m].from = "absent" /\ audit[n].from = "absent"
                  /\ LateIn(audit, m, n) \/ LateIn(audit, n, m)

\* What an open call has read still holds, or an entry committed since tells
\* what has become of it.
CreateOK(call) ==
    /\ call.w.lea \in Leas /\ call.w.name \in Names
    /\ call.w.integration \in Integrations \cup {NoLabel}
    /\ \A k \in Leas : leas[k].name = call.w.name =>
          \E m \in LeaLog(k) : audit[m].from = "absent" /\ call.seen < m

TransitionOK(call) ==
    /\ call.w.lea \in Leas /\ Known(call.w.lea)
    /\ call.w.from \in LeaStatus /\ call.w.to \in LeaStatus
    /\ \/ \E m \in LeaLog(call.w.lea) : call.seen < m
       \/ leas[call.w.lea].status = call.w.from

RowCallOK(call) ==
    LET r == call.w.row
    IN  /\ call.w.had \in Nat
        /\ r # 0 =>
              /\ call.w.was \in {"pending", "active"}
              /\ auth[r].revoked =>
                    \E m \in RowLog(r) : audit[m].to = "revoked" /\ call.seen < m
              /\ ~auth[r].revoked => call.w.was = "pending" \/ auth[r].status = "active"
              /\ \/ \E m \in RowLog(r) : call.seen < m
                 \/ auth[r].status = call.w.was

ReadOK(call) ==
    /\ call.op # "idle" => call.seen \in 0..Len(audit)
    /\ call.op = "create" => CreateOK(call)
    /\ call.op = "transition" => TransitionOK(call)
    /\ call.op \in {"authorize", "revoke", "adjust"} => RowCallOK(call)

LogInv ==
    /\ LogTypes
    /\ \A l \in Leas : LeaHistory(l)
    /\ \A r \in Rows : RowHistory(r)
    /\ Labels
    /\ \A o \in Operators : ReadOK(tx[o])

\* Steps that commit no call: an LEA may get its placeholder row, and no
\* authorization changes its status.
Quiet ==
    /\ audit' = audit /\ Len(auth') = Len(auth)
    /\ leas' \in [Leas -> LeaRowOrNone]
    /\ \A l \in Leas :
          \/ leas'[l] = leas[l]
          \/ /\ ~Known(l) /\ Known(l)'
             /\ leas'[l].name = NoLabel /\ leas'[l].integration = NoLabel
    /\ \A r \in 1..Len(auth) : /\ auth'[r].status = auth[r].status
                               /\ auth'[r].revoked = auth[r].revoked

LEMMA ReadStands ==
    ASSUME Quiet, Len(auth) \in Nat, NEW call, CallOK(call), ReadOK(call)
    PROVE  ReadOK(call)'
<1>1. /\ \A l \in Leas : LeaLog(l)' = LeaLog(l)
      /\ \A r \in 1..Len(auth) : RowLog(r)' = RowLog(r)
  BY DEF Quiet, LeaLog, RowLog
<1>2. ASSUME call.op = "create" PROVE CreateOK(call)'
  <2>1. NoLabel \notin Names
    BY LeaAdminAssumption
  <2> QED
    BY <1>1, <1>2, <2>1 DEF ReadOK, CreateOK, Quiet
<1>3. ASSUME call.op = "transition" PROVE TransitionOK(call)'
  <2>1. leas'[call.w.lea] = leas[call.w.lea]
    BY <1>3 DEF ReadOK, TransitionOK, Quiet
  <2> QED
    BY <1>1, <1>3, <2>1 DEF ReadOK, TransitionOK, Known
<1>4. ASSUME call.op \in {"authorize", "revoke", "adjust"} PROVE RowCallOK(call)'
  <2>1. call.w.row # 0 => call.w.row \in 1..Len(auth)
    BY <1>4 DEF CallOK
  <2> QED
    BY <1>1, <1>4, <2>1 DEF ReadOK, RowCallOK, Quiet
<1>5. call.op # "idle" => call.seen \in 0..Len(audit')
  BY DEF ReadOK, Quiet
<1> QED
  BY <1>2, <1>3, <1>4, <1>5 DEF ReadOK

LEMMA QuietLog ==
    ASSUME LogInv, Quiet, Len(auth) \in Nat, \A o \in Operators : ReadOK(tx[o])'
    PROVE  LogInv'
<1>1. LogTypes'
  BY DEF LogInv, LogTypes, Quiet
<1>2. /\ \A l \in Leas : LeaLog(l)' = LeaLog(l)
      /\ \A r \in 1..Len(auth) : RowLog(r)' = RowLog(r)
  BY DEF Quiet, LeaLog, RowLog
<1>3. ASSUME NEW l \in Leas PROVE LeaHistory(l)'
  <2>1. CASE leas'[l] = leas[l]
    BY <1>2, <2>1 DEF LogInv, LeaHistory, Quiet, Known
  <2>2. CASE ~Known(l) /\ Known(l)'
    <3>1. LeaLog(l) = {} /\ LeaLog(l)' = {}
      BY <1>2, <2>2 DEF LogInv, LeaHistory
    <3> QED
      BY <2>2, <3>1 DEF LeaHistory, Linked, LastIs
  <2> QED
    BY <2>1, <2>2 DEF Quiet
<1>4. ASSUME NEW r \in Rows' PROVE RowHistory(r)'
  <2>1. r \in 1..Len(auth) /\ RowHistory(r)
    BY <1>4 DEF LogInv, Rows, Quiet
  <2> QED
    BY <1>2, <2>1 DEF RowHistory, Quiet
<1>5. Labels'
  <2> SUFFICES ASSUME NEW k \in Leas, NEW l \in Leas, k # l
               PROVE  /\ leas'[k].integration = leas'[l].integration =>
                             leas'[k].integration = NoLabel
                      /\ leas'[k].name = leas'[l].name /\ leas'[k].name # NoLabel =>
                             \E m \in LeaLog(k)', n \in LeaLog(l)' :
                                 /\ audit'[m].from = "absent" /\ audit'[n].from = "absent"
                                 /\ LateIn(audit', m, n) \/ LateIn(audit', n, m)
    BY DEF Labels
  <2>1. CASE leas'[k] = leas[k] /\ leas'[l] = leas[l]
    BY <1>2, <2>1 DEF LogInv, Labels, Quiet
  <2>2. CASE leas'[k] # leas[k] \/ leas'[l] # leas[l]
    BY <2>2 DEF Quiet
  <2> QED
    BY <2>1, <2>2
<1> QED
  BY <1>1, <1>3, <1>4, <1>5 DEF LogInv

-----------------------------------------------------------------------------
\* The entry e tells what the step changed.
Recorded(e) ==
    /\ \A l \in Leas :
          \/ leas'[l] = leas[l]
          \/ /\ e.target = l /\ e.field = "lea_status" /\ leas'[l].status # "absent"
             /\ leas'[l].name = leas[l].name \/ e.from = "absent"
    /\ \A r \in 1..Len(auth) :
          \/ auth'[r].status = auth[r].status /\ auth'[r].revoked = auth[r].revoked
          \/ /\ e.target = r /\ e.field = "status"
             /\ auth'[r].revoked => auth[r].revoked \/ e.to = "revoked"
             /\ ~auth'[r].revoked => ~auth[r].revoked /\ auth'[r].status = "active"

LEMMA ReadOvertaken ==
    ASSUME audit \in Seq(Entry), NEW e \in Entry, audit' = Append(audit, e), Recorded(e),
           Len(auth) \in Nat, NEW call, CallOK(call), ReadOK(call)
    PROVE  ReadOK(call)'
<1> DEFINE N == Len(audit) + 1
<1>1. /\ Len(audit) \in Nat /\ Len(audit') = N /\ audit'[N] = e
      /\ \A n \in 1..Len(audit) : audit'[n] = audit[n]
  BY TrailAppend
<1>2. ASSUME NEW l \in Leas
      PROVE  /\ LeaLog(l) \subseteq LeaLog(l)' /\ LeaLog(l) \subseteq 1..Len(audit)
             /\ e.target = l /\ e.field = "lea_status" => N \in LeaLog(l)'
  BY <1>1 DEF LeaLog, TrailIn
<1>3. ASSUME NEW r \in 1..Len(auth)
      PROVE  /\ RowLog(r) \subseteq RowLog(r)' /\ RowLog(r) \subseteq 1..Len(audit)
             /\ e.target = r /\ e.field = "status" => N \in RowLog(r)'
  BY <1>1 DEF RowLog, TrailIn
<1>4. call.op # "idle" => call.seen \in 0..Len(audit) /\ call.seen < N /\ call.seen \in 0..N
  BY <1>1 DEF ReadOK
<1> HIDE DEF N
<1>5. ASSUME call.op = "create" PROVE CreateOK(call)'
  <2>1. ASSUME NEW k \in Leas, leas'[k].name = call.w.name
        PROVE  \E m \in LeaLog(k)' : audit'[m].from = "absent" /\ call.seen < m
    <3>1. CASE leas'[k].name = leas[k].name
      <4>1. PICK m \in LeaLog(k) : audit[m].from = "absent" /\ call.seen < m
        BY <1>5, <2>1, <3>1 DEF ReadOK, CreateOK
      <4> QED
        BY <1>1, <1>2, <4>1
    <3>2. CASE e.target = k /\ e.field = "lea_status" /\ e.from = "absent"
      BY <1>1, <1>2, <1>4, <1>5, <3>2
    <3> QED
      BY <3>1, <3>2 DEF Recorded
  <2> QED
    BY <1>5, <2>1 DEF ReadOK, CreateOK
<1>6. ASSUME call.op = "transition" PROVE TransitionOK(call)'
  <2> DEFINE l == call.w.lea
  <2>1. l \in Leas /\ Known(l)
    BY <1>6 DEF ReadOK, TransitionOK
  <2>2. CASE leas'[l] = leas[l]
    BY <1>2, <1>6, <2>1, <2>2 DEF ReadOK, TransitionOK, Known
  <2>3. CASE e.target = l /\ e.field = "lea_status" /\ leas'[l].status # "absent"
    <3>1. N \in LeaLog(l)' /\ call.seen < N
      BY <1>2, <1>4, <1>6, <2>1, <2>3
    <3> QED
      BY <1>6, <2>1, <2>3, <3>1 DEF ReadOK, TransitionOK, Known
  <2> QED
    BY <2>1, <2>2, <2>3 DEF Recorded
<1>7. ASSUME call.op \in {"authorize", "revoke", "adjust"} PROVE RowCallOK(call)'
  <2> DEFINE r == call.w.row
  <2>1. call.w.had \in Nat
    BY <1>7 DEF ReadOK, RowCallOK
  <2>2. ASSUME r # 0
        PROVE  /\ call.w.was \in {"pending", "active"}
               /\ auth'[r].revoked =>
                     \E m \in RowLog(r)' : audit'[m].to = "revoked" /\ call.seen < m
               /\ ~auth'[r].revoked => call.w.was = "pending" \/ auth'[r].status = "active"
               /\ \/ \E m \in RowLog(r)' : call.seen < m
                  \/ auth'[r].status = call.w.was
    <3>1. r \in 1..Len(auth)
      BY <1>7, <2>2 DEF CallOK
    <3>2. /\ call.w.was \in {"pending", "active"}
          /\ auth[r].revoked =>
                \E m \in RowLog(r)' : audit'[m].to = "revoked" /\ call.seen < m
          /\ ~auth[r].revoked => call.w.was = "pending" \/ auth[r].status = "active"
          /\ \/ \E m \in RowLog(r)' : call.seen < m
             \/ auth[r].status = call.w.was
      <4>1. \A m \in RowLog(r) : m \in RowLog(r)' /\ audit'[m] = audit[m]
        BY <1>1, <1>3, <3>1
      <4> QED
        BY <1>7, <2>2, <4>1 DEF ReadOK, RowCallOK
    <3>3. CASE auth'[r].status = auth[r].status /\ auth'[r].revoked = auth[r].revoked
      BY <3>2, <3>3
    <3>4. CASE /\ e.target = r /\ e.field = "status"
               /\ auth'[r].revoked => auth[r].revoked \/ e.to = "revoked"
               /\ ~auth'[r].revoked => ~auth[r].revoked /\ auth'[r].status = "active"
      <4>1. N \in RowLog(r)' /\ call.seen < N /\ audit'[N] = e
        BY <1>1, <1>3, <1>4, <1>7, <3>1, <3>4
      <4> QED
        BY <3>2, <3>4, <4>1
    <3> QED
      BY <3>1, <3>3, <3>4 DEF Recorded
  <2> QED
    BY <2>1, <2>2 DEF RowCallOK
<1>8. call.op # "idle" => call.seen \in 0..Len(audit')
  BY <1>1, <1>4
<1> QED
  BY <1>5, <1>6, <1>7, <1>8 DEF ReadOK

-----------------------------------------------------------------------------
(* The trails after an entry e has been added to the log.                  *)

LEMMA OtherHistory ==
    ASSUME LogInv, NEW e \in Entry, audit' = Append(audit, e)
    PROVE  /\ \A l \in Leas :
                 leas'[l] = leas[l] /\ ~(e.target = l /\ e.field = "lea_status") =>
                     LeaHistory(l)'
           /\ \A r \in Rows :
                 /\ auth'[r].status = auth[r].status /\ auth'[r].revoked = auth[r].revoked
                 /\ ~(e.target = r /\ e.field = "status")
                 => RowHistory(r)'
<1>1. audit \in Seq(Entry)
  BY DEF LogInv, LogTypes
<1>2. /\ Len(audit) \in Nat /\ Len(audit') = Len(audit) + 1 /\ audit'[Len(audit) + 1] = e
      /\ \A n \in 1..Len(audit) : audit'[n] = audit[n]
  BY <1>1, TrailAppend
<1>3. ASSUME NEW l \in Leas, leas'[l] = leas[l],
             ~(e.target = l /\ e.field = "lea_status")
      PROVE  LeaHistory(l)'
  <2>1. LeaLog(l)' = LeaLog(l) /\ LeaLog(l) \in SUBSET (1..Len(audit))
    BY <1>2, <1>3 DEF LeaLog, TrailIn
  <2>2. LeaHistory(l)
    BY DEF LogInv
  <2>3. Linked(audit', LeaLog(l)) /\ LastIs(audit', LeaLog(l), leas[l].status)
    BY <1>1, <2>1, <2>2, TrailKept DEF LeaHistory
  <2> QED
    BY <1>3, <2>1, <2>2, <2>3 DEF LeaHistory, Known
<1>4. ASSUME NEW r \in Rows,
             auth'[r].status = auth[r].status, auth'[r].revoked = auth[r].revoked,
             ~(e.target = r /\ e.field = "status")
      PROVE  RowHistory(r)'
  <2>1. RowLog(r)' = RowLog(r) /\ RowLog(r) \in SUBSET (1..Len(audit))
    BY <1>2, <1>4 DEF RowLog, TrailIn
  <2>2. RowHistory(r)
    BY DEF LogInv
  <2>3. /\ Linked(audit', RowLog(r)) /\ EndsAt(audit', RowLog(r), auth[r].status)
        /\ ~auth[r].revoked => LastIs(audit', RowLog(r), auth[r].status)
    BY <1>1, <2>1, <2>2, TrailKept DEF RowHistory
  <2>4. \A m \in RowLog(r) : audit'[m] = audit[m]
    BY <1>2, <2>1
  <2>5. \A m, n \in RowLog(r) : LateIn(audit', n, m) <=> LateIn(audit, n, m)
    BY <2>4 DEF LateIn
  <2> QED
    BY <1>4, <2>1, <2>2, <2>3, <2>4, <2>5 DEF RowHistory
<1> QED
  BY <1>3, <1>4

\* The LEA that the entry is about.
LEMMA OwnLeaHistory ==
    ASSUME audit \in Seq(Entry), NEW e \in Entry, audit' = Append(audit, e),
           NEW l \in Leas, LeaHistory(l), e.target = l, e.field = "lea_status",
           \/ \E m \in LeaLog(l) : e.seen < m
           \/ LastIs(audit, LeaLog(l), e.from),
           leas'[l].status = e.to, e.to # "absent"
    PROVE  LeaHistory(l)'
<1>1. /\ Len(audit) \in Nat /\ Len(audit') = Len(audit) + 1 /\ audit'[Len(audit) + 1] = e
      /\ \A n \in 1..Len(audit) : audit'[n] = audit[n]
  BY TrailAppend
<1>2. /\ LeaLog(l)' = LeaLog(l) \cup {Len(audit) + 1}
      /\ LeaLog(l) \in SUBSET (1..Len(audit))
  BY <1>1 DEF LeaLog, TrailIn
<1>3. /\ Linked(audit', LeaLog(l) \cup {Len(audit) + 1})
      /\ LastIs(audit', LeaLog(l) \cup {Len(audit) + 1}, e.to)
  BY <1>2, TrailGrows DEF LeaHistory
<1> QED
  BY <1>2, <1>3 DEF LeaHistory, Known

\* The authorization that the entry is about.
LEMMA OwnRowHistory ==
    ASSUME audit \in Seq(Entry), NEW e \in Entry, audit' = Append(audit, e),
           NEW r, Linked(audit, RowLog(r)), e.target = r, e.field = "status",
           \/ \E m \in RowLog(r) : e.seen < m
           \/ LastIs(audit, RowLog(r), e.from) /\ auth'[r].status = e.to,
           ~auth'[r].revoked => auth'[r].status = e.to /\ e.to \in {"pending", "active"},
           auth'[r].revoked /\ auth'[r].status # "revoked" =>
               \/ \E m, n \in RowLog(r) :
                     /\ audit[m].to = "revoked" /\ LateIn(audit, n, m)
                     /\ audit[n].from = "pending" /\ audit[n].to = "active"
               \/ /\ e.from = "pending" /\ e.to = "active"
                  /\ \E m \in RowLog(r) : audit[m].to = "revoked" /\ e.seen < m
    PROVE  RowHistory(r)'
<1> DEFINE N == Len(audit) + 1
<1>1. /\ Len(audit) \in Nat /\ Len(audit') = N /\ audit'[N] = e
      /\ \A n \in 1..Len(audit) : audit'[n] = audit[n]
  BY TrailAppend
<1>2. RowLog(r)' = RowLog(r) \cup {N} /\ RowLog(r) \in SUBSET (1..Len(audit))
  BY <1>1 DEF RowLog, TrailIn
<1>3. /\ Linked(audit', RowLog(r) \cup {N})
      /\ EndsAt(audit', RowLog(r) \cup {N}, auth'[r].status)
      /\ LastIs(audit', RowLog(r) \cup {N}, e.to)
  BY <1>2, TrailGrows
<1>4. ASSUME auth'[r].revoked, auth'[r].status # "revoked"
      PROVE  \E m, n \in RowLog(r) \cup {N} :
                 /\ audit'[m].to = "revoked" /\ LateIn(audit', n, m)
                 /\ audit'[n].from = "pending" /\ audit'[n].to = "active"
  <2>1. CASE \E m, n \in RowLog(r) :
                 /\ audit[m].to = "revoked" /\ LateIn(audit, n, m)
                 /\ audit[n].from = "pending" /\ audit[n].to = "active"
    <3>1. PICK m \in RowLog(r), n \in RowLog(r) :
                 /\ audit[m].to = "revoked" /\ LateIn(audit, n, m)
                 /\ audit[n].from = "pending" /\ audit[n].to = "active"
      BY <2>1
    <3>2. audit'[m] = audit[m] /\ audit'[n] = audit[n]
      BY <1>1, <1>2
    <3> QED
      BY <3>1, <3>2 DEF LateIn
  <2>2. CASE /\ e.from = "pending" /\ e.to = "active"
             /\ \E m \in RowLog(r) : audit[m].to = "revoked" /\ e.seen < m
    <3>1. PICK m \in RowLog(r) : audit[m].to = "revoked" /\ e.seen < m
      BY <2>2
    <3>2. audit'[m] = audit[m] /\ m < N
      BY <1>1, <1>2
    <3>3. LateIn(audit', N, m) /\ m \in RowLog(r) \cup {N} /\ N \in RowLog(r) \cup {N}
      BY <1>1, <3>1, <3>2 DEF LateIn
    <3>4. audit'[m].to = "revoked" /\ audit'[N].from = "pending" /\ audit'[N].to = "active"
      BY <1>1, <2>2, <3>1, <3>2
    <3> HIDE DEF N
    <3> QED
      BY <3>3, <3>4
  <2> QED
    BY <1>4, <2>1, <2>2
<1>5. /\ Linked(audit', RowLog(r)') /\ EndsAt(audit', RowLog(r)', auth'[r].status)
      /\ LastIs(audit', RowLog(r)', e.to)
  BY <1>2, <1>3
<1>6. auth'[r].revoked /\ auth'[r].status # "revoked" =>
          \E m, n \in RowLog(r)' :
              /\ audit'[m].to = "revoked" /\ LateIn(audit', n, m)
              /\ audit'[n].from = "pending" /\ audit'[n].to = "active"
  BY <1>2, <1>4
<1> QED
  BY <1>5, <1>6 DEF RowHistory

\* Labels that stay as they are.
LEMMA LabelsKept ==
    ASSUME LogInv, NEW e \in Entry, audit' = Append(audit, e),
           \A l \in Leas : /\ leas'[l].name = leas[l].name
                           /\ leas'[l].integration = leas[l].integration
    PROVE  Labels'
<1>1. audit \in Seq(Entry)
  BY DEF LogInv, LogTypes
<1>2. /\ Len(audit) \in Nat /\ Len(audit') = Len(audit) + 1 /\ audit'[Len(audit) + 1] = e
      /\ \A n \in 1..Len(audit) : audit'[n] = audit[n]
  BY <1>1, TrailAppend
<1>3. \A l \in Leas : LeaLog(l) \subseteq LeaLog(l)' /\ LeaLog(l) \subseteq 1..Len(audit)
  BY <1>2 DEF LeaLog, TrailIn
<1>4. \A l \in Leas : \A m \in LeaLog(l) : m \in LeaLog(l)' /\ audit'[m] = audit[m]
  BY <1>2, <1>3
<1>5. ASSUME NEW k \in Leas, NEW l \in Leas,
             \E m \in LeaLog(k), n \in LeaLog(l) :
                 /\ audit[m].from = "absent" /\ audit[n].from = "absent"
                 /\ LateIn(audit, m, n) \/ LateIn(audit, n, m)
      PROVE  \E m \in LeaLog(k)', n \in LeaLog(l)' :
                 /\ audit'[m].from = "absent" /\ audit'[n].from = "absent"
                 /\ LateIn(audit', m, n) \/ LateIn(audit', n, m)
  BY <1>4, <1>5 DEF LateIn
<1>6. ASSUME NEW k \in Leas, NEW l \in Leas, k # l
      PROVE  /\ leas'[k].integration = leas'[l].integration =>
                    leas'[k].integration = NoLabel
             /\ leas'[k].name = leas'[l].name /\ leas'[k].name # NoLabel =>
                    \E m \in LeaLog(k), n \in LeaLog(l) :
                        /\ audit[m].from = "absent" /\ audit[n].from = "absent"
                        /\ LateIn(audit, m, n) \/ LateIn(audit, n, m)
  BY <1>6 DEF Labels, LogInv
<1>7. ASSUME NEW k \in Leas, NEW l \in Leas, k # l
      PROVE  /\ leas'[k].integration = leas'[l].integration =>
                    leas'[k].integration = NoLabel
             /\ leas'[k].name = leas'[l].name /\ leas'[k].name # NoLabel =>
                    \E m \in LeaLog(k)', n \in LeaLog(l)' :
                        /\ audit'[m].from = "absent" /\ audit'[n].from = "absent"
                        /\ LateIn(audit', m, n) \/ LateIn(audit', n, m)
  BY <1>5, <1>6, <1>7
<1> QED
  BY <1>7, Zenon DEF Labels

\* A step that commits the call of o with the entry e.
LEMMA AuditedLog ==
    ASSUME LogInv, TypesOK, NEW o \in Operators, Closes(o), NEW e \in Entry,
           audit' = Append(audit, e), Recorded(e),
           leas' \in [Leas -> LeaRowOrNone],
           Len(auth') \in Nat, Len(auth) <= Len(auth'),
           e.field = "status" => e.target \in 1..Len(auth'),
           \A l \in Leas : LeaHistory(l)', \A r \in Rows' : RowHistory(r)', Labels'
    PROVE  LogInv'
<1>1. audit \in Seq(Entry) /\ Len(auth) \in Nat
  BY DEF LogInv, LogTypes, TypesOK
<1>2. /\ audit' \in Seq(Entry) /\ Len(audit) \in Nat /\ Len(audit') = Len(audit) + 1
      /\ audit'[Len(audit) + 1] = e
      /\ \A n \in 1..Len(audit) : audit'[n] = audit[n]
  BY <1>1, TrailAppend
<1>3. LogTypes'
  BY <1>1, <1>2 DEF LogInv, LogTypes
<1>4. ASSUME NEW p \in Operators PROVE ReadOK(tx[p])'
  <2>1. CASE p = o
    <3>1. tx'[p] = Idle
      BY <2>1 DEF TypesOK, OpenCallsOK, Closes
    <3> QED
      BY <3>1 DEF ReadOK, Idle
  <2>2. CASE p # o
    <3>1. tx'[p] = tx[p]
      BY <2>2 DEF TypesOK, OpenCallsOK, Closes
    <3>2. CallOK(tx[p]) /\ ReadOK(tx[p])
      BY DEF TypesOK, OpenCallsOK, LogInv
    <3> DEFINE call == tx[p]
    <3>3. ASSUME NEW c, CallOK(c), ReadOK(c) PROVE ReadOK(c)'
      BY <1>1, <3>3, ReadOvertaken
    <3> QED
      BY <3>1, <3>2, <3>3
  <2> QED
    BY <2>1, <2>2
<1> QED
  BY <1>3, <1>4 DEF LogInv

-----------------------------------------------------------------------------
(* The steps of the calls.                                                 *)

FullInv == IInv /\ LogInv

EntryOf(o, target, field, from, to) ==
    [target |-> target, field |-> field, from |-> from, to |-> to, seen |-> tx[o].seen]

LEMMA SeenIsNat ==
    ASSUME LogInv, NEW o \in Operators, tx[o].op # "idle" PROVE tx[o].seen \in Nat
<1>1. ReadOK(tx[o])
  BY DEF LogInv
<1>2. Len(audit) \in Nat
  BY DEF LogInv, LogTypes
<1> QED
  BY <1>1, <1>2 DEF ReadOK

\* A call that changes the LEA l and says so.
LEMMA LeaCallLog ==
    ASSUME FullInv, NEW o \in Operators, Closes(o), auth' = auth,
           NEW e \in Entry, audit' = Append(audit, e),
           NEW l \in Leas, e.target = l, e.field = "lea_status", e.to # "absent",
           \/ \E m \in LeaLog(l) : e.seen < m
           \/ LastIs(audit, LeaLog(l), e.from),
           leas' \in [Leas -> LeaRowOrNone], leas'[l].status = e.to,
           leas'[l].name = leas[l].name \/ e.from = "absent",
           \A k \in Leas : k # l => leas'[k] = leas[k],
           Labels'
    PROVE  LogInv'
<1>1. audit \in Seq(Entry) /\ Len(auth) \in Nat /\ LeaHistory(l) /\ LogInv /\ TypesOK
  BY DEF FullInv, LogInv, LogTypes, IInv, TypesOK
<1>2. LeaHistory(l)'
  BY <1>1, OwnLeaHistory
<1>3. \A k \in Leas : LeaHistory(k)'
  BY <1>1, <1>2, OtherHistory
<1>4. \A r \in Rows' : RowHistory(r)'
  <2>1. Rows' = Rows
    BY DEF Rows
  <2> QED
    BY <1>1, <2>1, OtherHistory
<1>5. Recorded(e)
  BY DEF Recorded
<1>6. Len(auth') \in Nat /\ Len(auth) <= Len(auth')
  BY <1>1
<1> QED
  BY <1>1, <1>3, <1>4, <1>5, <1>6, AuditedLog

\* The new LEA's labels clash with those of LEAs created since the call looked.
LEMMA CreateLabels ==
    ASSUME FullInv, NEW e \in Entry, audit' = Append(audit, e),
           NEW l \in Leas, e.target = l, e.field = "lea_status", e.from = "absent",
           \A k \in Leas : k # l => leas'[k] = leas[k],
           \A k \in Leas : leas[k].integration = leas'[l].integration =>
               leas'[l].integration = NoLabel,
           \A k \in Leas : leas[k].name = leas'[l].name =>
               \E m \in LeaLog(k) : audit[m].from = "absent" /\ e.seen < m
    PROVE  Labels'
<1> DEFINE N == Len(audit) + 1
           Clash(k, j) == \E m \in LeaLog(k)', n \in LeaLog(j)' :
                              /\ audit'[m].from = "absent" /\ audit'[n].from = "absent"
                              /\ LateIn(audit', m, n) \/ LateIn(audit', n, m)
<1>1. /\ audit \in Seq(Entry) /\ Len(audit) \in Nat /\ Len(audit') = N /\ audit'[N] = e
      /\ \A n \in 1..Len(audit) : audit'[n] = audit[n]
  BY TrailAppend DEF FullInv, LogInv, LogTypes
<1>2. N \in 1..Len(audit') /\ 1..Len(audit) \subseteq 1..Len(audit')
  BY <1>1
<1>3. /\ \A k \in Leas : LeaLog(k) \subseteq LeaLog(k)' /\ LeaLog(k) \subseteq 1..Len(audit)
      /\ N \in LeaLog(l)'
  BY <1>1, <1>2 DEF LeaLog, TrailIn
<1>4. \A k \in Leas : \A m \in LeaLog(k) : m \in LeaLog(k)' /\ audit'[m] = audit[m] /\ m < N
  BY <1>1, <1>3
<1>5. ASSUME NEW k \in Leas, leas[k].name = leas'[l].name
      PROVE  Clash(k, l) /\ Clash(l, k)
  <2>1. PICK m \in LeaLog(k) : audit[m].from = "absent" /\ e.seen < m
    BY <1>5
  <2>2. m \in LeaLog(k)' /\ audit'[m].from = "absent" /\ m < N
    BY <1>4, <2>1
  <2>3. LateIn(audit', N, m) /\ audit'[N].from = "absent"
    BY <1>1, <2>1, <2>2 DEF LateIn
  <2> HIDE DEF N
  <2> QED
    BY <1>3, <2>2, <2>3
<1>6. ASSUME NEW k \in Leas, NEW j \in Leas,
             \E m \in LeaLog(k), n \in LeaLog(j) :
                 /\ audit[m].from = "absent" /\ audit[n].from = "absent"
                 /\ LateIn(audit, m, n) \/ LateIn(audit, n, m)
      PROVE  Clash(k, j)
  <2>1. PICK m \in LeaLog(k), n \in LeaLog(j) :
            /\ audit[m].from = "absent" /\ audit[n].from = "absent"
            /\ LateIn(audit, m, n) \/ LateIn(audit, n, m)
    BY <1>6
  <2>2. /\ m \in LeaLog(k)' /\ n \in LeaLog(j)'
        /\ audit'[m] = audit[m] /\ audit'[n] = audit[n]
    BY <1>4, <2>1
  <2> QED
    BY <2>1, <2>2 DEF LateIn
<1> HIDE DEF N, Clash
<1>7. ASSUME NEW k \in Leas, NEW j \in Leas, k # j
      PROVE  /\ leas'[k].integration = leas'[j].integration =>
                    leas'[k].integration = NoLabel
             /\ leas'[k].name = leas'[j].name /\ leas'[k].name # NoLabel => Clash(k, j)
  <2>1. CASE k # l /\ j # l
    <3>1. Labels
      BY DEF FullInv, LogInv
    <3>2. leas'[k] = leas[k] /\ leas'[j] = leas[j]
      BY <2>1
    <3> QED
      BY <1>6, <1>7, <3>1, <3>2 DEF Labels
  <2>2. CASE j = l
    <3>1. leas'[k] = leas[k]
      BY <1>7, <2>2
    <3> QED
      BY <1>5, <2>2, <3>1
  <2>3. CASE k = l
    <3>1. leas'[j] = leas[j]
      BY <1>7, <2>3
    <3> QED
      BY <1>5, <2>3, <3>1
  <2> QED
    BY <2>1, <2>2, <2>3
<1> QED
  BY <1>7, Zenon DEF Labels, Clash

LEMMA CreateLog ==
    ASSUME FullInv, NEW o \in Operators, FinishCreate(o), UNCHANGED auth PROVE LogInv'
<1> DEFINE w == tx[o].w
           e == EntryOf(o, w.lea, "lea_status", "absent", "onboarding")
<1>1. CreateOK(tx[o]) /\ tx[o].op = "create"
  BY DEF FullInv, LogInv, ReadOK, FinishCreate
<1>2. w.lea \in Leas /\ w.name \in Names /\ w.integration \in Integrations \cup {NoLabel}
  BY <1>1 DEF CreateOK
<1>3. leas \in [Leas -> LeaRowOrNone] /\ LeaHistory(w.lea) /\ tx[o].seen \in Nat
  BY <1>1, <1>2, SeenIsNat DEF FullInv, LogInv, LogTypes
<1>4. ~Known(w.lea) /\ IntegrationFree(w.integration)
  BY DEF FinishCreate, LeaConstraints
<1>5. /\ leas' \in [Leas -> LeaRowOrNone]
      /\ leas'[w.lea] =
            [status |-> "onboarding", name |-> w.name, integration |-> w.integration]
      /\ \A k \in Leas : k # w.lea => leas'[k] = leas[k]
  BY <1>2, <1>3 DEF FinishCreate, LeaRowOrNone, LeaStatus
<1>6. /\ e \in Entry /\ e.target = w.lea /\ e.field = "lea_status" /\ e.from = "absent"
      /\ e.to = "onboarding" /\ e.seen = tx[o].seen
  BY <1>2, <1>3 DEF EntryOf, Entry, Value, LeaStatus
<1>7. audit' = Append(audit, e) /\ Closes(o)
  BY DEF FinishCreate, Audit, EntryOf, Closes
<1>8. LastIs(audit, LeaLog(w.lea), e.from)
  BY <1>3, <1>4 DEF LeaHistory, LastIs
<1>9. \A k \in Leas : leas[k].integration = w.integration => w.integration = NoLabel
  BY <1>4 DEF IntegrationFree
<1>10. \A k \in Leas : leas[k].name = w.name =>
           \E m \in LeaLog(k) : audit[m].from = "absent" /\ tx[o].seen < m
  BY <1>1 DEF CreateOK
<1> HIDE DEF e, w
<1>11. Labels'
  BY <1>2, <1>5, <1>6, <1>7, <1>9, <1>10, CreateLabels
<1> QED
  BY <1>2, <1>5, <1>6, <1>7, <1>8, <1>11, LeaCallLog

LEMMA TransitionLog ==
    ASSUME FullInv, NEW o \in Operators, FinishTransition(o), UNCHANGED auth PROVE LogInv'
<1> DEFINE w == tx[o].w
           e == EntryOf(o, w.lea, "lea_status", w.from, w.to)
<1>1. TransitionOK(tx[o]) /\ tx[o].op = "transition"
  BY DEF FullInv, LogInv, ReadOK, FinishTransition
<1>2. w.lea \in Leas /\ w.from \in LeaStatus /\ w.to \in LeaStatus /\ w.to # "absent"
  BY <1>1 DEF TransitionOK, LeaStatus
<1>3. leas \in [Leas -> LeaRowOrNone] /\ LeaHistory(w.lea) /\ tx[o].seen \in Nat
  BY <1>1, <1>2, SeenIsNat DEF FullInv, LogInv, LogTypes
<1>4. /\ leas' \in [Leas -> LeaRowOrNone]
      /\ leas'[w.lea].status = w.to /\ leas'[w.lea].name = leas[w.lea].name
      /\ leas'[w.lea].integration = leas[w.lea].integration
      /\ \A k \in Leas : k # w.lea => leas'[k] = leas[k]
  <2> DEFINE row == [leas[w.lea] EXCEPT !.status = w.to]
  <2>1. leas[w.lea] \in LeaRowOrNone
    BY <1>2, <1>3
  <2>2. leas' = [leas EXCEPT ![w.lea] = row]
    BY <1>2, <1>3 DEF FinishTransition
  <2>3. /\ row \in LeaRowOrNone /\ row.status = w.to
        /\ row.name = leas[w.lea].name /\ row.integration = leas[w.lea].integration
    BY <1>2, <2>1 DEF LeaRowOrNone
  <2> HIDE DEF row, w
  <2> QED
    BY <1>2, <1>3, <2>2, <2>3
<1>5. /\ e \in Entry /\ e.target = w.lea /\ e.field = "lea_status" /\ e.from = w.from
      /\ e.to = w.to /\ e.seen = tx[o].seen
  BY <1>2, <1>3 DEF EntryOf, Entry, Value
<1>6. audit' = Append(audit, e) /\ Closes(o)
  BY DEF FinishTransition, Audit, EntryOf, Closes
<1>7. \/ \E m \in LeaLog(w.lea) : tx[o].seen < m
      \/ LastIs(audit, LeaLog(w.lea), w.from)
  BY <1>1, <1>3 DEF TransitionOK, LeaHistory
<1> HIDE DEF e, w
<1>8. Labels'
  BY <1>4, <1>5, <1>6, LabelsKept DEF FullInv
<1> QED
  BY <1>2, <1>4, <1>5, <1>6, <1>7, <1>8, LeaCallLog

\* A call that names the authorization r in its entry.
LEMMA RowCallLog ==
    ASSUME FullInv, NEW o \in Operators, Closes(o), leas' = leas,
           NEW e \in Entry, audit' = Append(audit, e),
           NEW r \in 1..Len(auth), e.target = r, e.field = "status",
           \/ \E m \in RowLog(r) : e.seen < m
           \/ LastIs(audit, RowLog(r), e.from) /\ auth'[r].status = e.to,
           Len(auth') = Len(auth), \A q \in 1..Len(auth) : q # r => auth'[q] = auth[q],
           ~auth'[r].revoked => /\ auth'[r].status = e.to /\ e.to = "active"
                                /\ ~auth[r].revoked,
           auth'[r].revoked =>
               \/ e.to = "revoked" /\ auth'[r].status = "revoked"
               \/ auth[r].revoked /\ auth'[r].status = auth[r].status
               \/ /\ auth[r].revoked /\ e.from = "pending" /\ e.to = "active"
                  /\ \E m \in RowLog(r) : audit[m].to = "revoked" /\ e.seen < m
    PROVE  LogInv'
<1>1. /\ audit \in Seq(Entry) /\ Len(auth) \in Nat /\ LogInv /\ TypesOK
      /\ leas \in [Leas -> LeaRowOrNone]
  BY DEF FullInv, LogInv, LogTypes, IInv, TypesOK
<1>2. RowHistory(r)
  BY <1>1 DEF LogInv, Rows
<1>3. Linked(audit, RowLog(r))
  BY <1>2 DEF RowHistory
<1>4. auth'[r].revoked /\ auth'[r].status # "revoked" =>
          \/ \E m, n \in RowLog(r) :
                /\ audit[m].to = "revoked" /\ LateIn(audit, n, m)
                /\ audit[n].from = "pending" /\ audit[n].to = "active"
          \/ /\ e.from = "pending" /\ e.to = "active"
             /\ \E m \in RowLog(r) : audit[m].to = "revoked" /\ e.seen < m
  BY <1>2 DEF RowHistory
<1>5. ~auth'[r].revoked => auth'[r].status = e.to /\ e.to \in {"pending", "active"}
  OBVIOUS
<1>6. RowHistory(r)'
  BY <1>1, <1>3, <1>4, <1>5, OwnRowHistory
<1>7. \A q \in Rows' : RowHistory(q)'
  <2>1. Rows' = Rows /\ Rows = 1..Len(auth)
    BY DEF Rows
  <2> QED
    BY <1>1, <1>6, <2>1, OtherHistory
<1>8. \A l \in Leas : LeaHistory(l)'
  BY <1>1, OtherHistory
<1>9. Labels'
  BY <1>1, LabelsKept
<1>10. Recorded(e)
  BY DEF Recorded
<1>11. Len(auth') \in Nat /\ Len(auth) <= Len(auth') /\ e.target \in 1..Len(auth')
  BY <1>1
<1>12. leas' \in [Leas -> LeaRowOrNone]
  BY <1>1
<1> QED
  BY <1>1, <1>7, <1>8, <1>9, <1>10, <1>11, <1>12, AuditedLog

\* What the reading of a call that ends gives its entry.
LEMMA RowCallRead ==
    ASSUME FullInv, NEW o \in Operators, tx[o].op \in {"authorize", "revoke", "adjust"},
           tx[o].w.row # 0
    PROVE  LET r == tx[o].w.row
               w == tx[o].w
           IN  /\ r \in 1..Len(auth) /\ auth \in Seq(AuthRow) /\ Len(auth) \in Nat
               /\ auth[r] \in AuthRow /\ tx[o].seen \in Nat
               /\ w.was \in {"pending", "active"} /\ w.had \in Nat
               /\ auth[r].revoked =>
                     \E m \in RowLog(r) : audit[m].to = "revoked" /\ tx[o].seen < m
               /\ ~auth[r].revoked => w.was = "pending" \/ auth[r].status = "active"
               /\ \/ \E m \in RowLog(r) : tx[o].seen < m
                  \/ /\ LastIs(audit, RowLog(r), w.was)
                     /\ auth[r].status = w.was /\ ~auth[r].revoked
<1>1. ReadOK(tx[o]) /\ CallOK(tx[o]) /\ auth \in Seq(AuthRow)
  BY DEF FullInv, LogInv, IInv, TypesOK, OpenCallsOK
<1>2. tx[o].seen \in Nat
  BY SeenIsNat DEF FullInv
<1>3. Len(auth) \in Nat
  BY <1>1
<1>4. tx[o].w.row \in 1..Len(auth)
  BY <1>1, <1>3 DEF CallOK
<1>5. auth[tx[o].w.row] \in AuthRow
  BY <1>1, <1>4
<1>6. RowHistory(tx[o].w.row)
  BY <1>4 DEF FullInv, LogInv, Rows
<1> QED
  BY <1>1, <1>2, <1>3, <1>4, <1>5, <1>6 DEF ReadOK, RowCallOK, RowHistory

LEMMA AuthorizePendingLog ==
    ASSUME FullInv, NEW o \in Operators, AuthorizePending(o) PROVE LogInv'
<1> DEFINE w == tx[o].w
           r == w.row
           e == EntryOf(o, r, "status", "pending", "active")
           row == [auth[r] EXCEPT !.status = "active", !.interval = w.interval]
<1>1. tx[o].op = "authorize" /\ r # 0 /\ w.was = "pending"
  BY DEF AuthorizePending
<1>2. /\ r \in 1..Len(auth) /\ auth \in Seq(AuthRow) /\ Len(auth) \in Nat
      /\ auth[r] \in AuthRow /\ tx[o].seen \in Nat
      /\ auth[r].revoked => \E m \in RowLog(r) : audit[m].to = "revoked" /\ tx[o].seen < m
      /\ \/ \E m \in RowLog(r) : tx[o].seen < m
         \/ LastIs(audit, RowLog(r), "pending")
  BY <1>1, RowCallRead
<1>3. row.status = "active" /\ row.revoked = auth[r].revoked
  BY <1>2 DEF AuthRow
<1>4. auth' = [auth EXCEPT ![r] = row]
  BY <1>2 DEF AuthorizePending, AuthRow
<1>5. /\ Len(auth') = Len(auth) /\ auth'[r] = row
      /\ \A q \in 1..Len(auth) : q # r => auth'[q] = auth[q]
  <2> HIDE DEF r, row
  <2> QED
    BY <1>2, <1>4
<1>6. /\ e \in Entry /\ e.target = r /\ e.field = "status" /\ e.from = "pending"
      /\ e.to = "active" /\ e.seen = tx[o].seen
  BY <1>2 DEF EntryOf, Entry, Value, AuthStatus
<1>7. audit' = Append(audit, e) /\ Closes(o) /\ leas' = leas
  BY DEF AuthorizePending, Audit, EntryOf, Closes
<1> HIDE DEF e, r, row
<1> QED
  BY <1>2, <1>3, <1>5, <1>6, <1>7, RowCallLog

LEMMA AuthorizeAgainLog ==
    ASSUME FullInv, NEW o \in Operators, AuthorizeAgain(o) PROVE LogInv'
<1> DEFINE w == tx[o].w
           r == w.row
           e == EntryOf(o, r, "status", "active", "active")
<1>1. tx[o].op = "authorize" /\ r # 0 /\ w.was # "pending"
  BY DEF AuthorizeAgain
<1>2. /\ r \in 1..Len(auth) /\ tx[o].seen \in Nat /\ Len(auth) \in Nat /\ w.was = "active"
      /\ ~auth[r].revoked => auth[r].status = "active"
      /\ \/ \E m \in RowLog(r) : tx[o].seen < m
         \/ LastIs(audit, RowLog(r), "active") /\ auth[r].status = "active"
  BY <1>1, RowCallRead
<1>3. auth' = auth
  BY DEF AuthorizeAgain
<1>4. auth[r].revoked \in BOOLEAN
  <2>1. auth[r] \in AuthRow
    BY <1>1, RowCallRead
  <2> QED
    BY <2>1 DEF AuthRow
<1>5. /\ e \in Entry /\ e.target = r /\ e.field = "status" /\ e.from = "active"
      /\ e.to = "active" /\ e.seen = tx[o].seen
  BY <1>2 DEF EntryOf, Entry, Value, AuthStatus
<1>6. audit' = Append(audit, e) /\ Closes(o) /\ leas' = leas
  BY <1>2 DEF AuthorizeAgain, Audit, EntryOf, Closes
<1> HIDE DEF e, r, w
<1> QED
  BY <1>2, <1>3, <1>4, <1>5, <1>6, RowCallLog

LEMMA FinishRevokeLog ==
    ASSUME FullInv, NEW o \in Operators, FinishRevoke(o) PROVE LogInv'
<1> DEFINE w == tx[o].w
           r == w.row
           e == EntryOf(o, r, "status", w.was, "revoked")
           row == [auth[r] EXCEPT !.status = "revoked", !.revoked = TRUE]
<1>1. tx[o].op = "revoke" /\ r # 0
  BY DEF FinishRevoke, FullInv, IInv, TypesOK, OpenCallsOK, CallOK
<1>2. /\ r \in 1..Len(auth) /\ auth \in Seq(AuthRow) /\ Len(auth) \in Nat
      /\ auth[r] \in AuthRow /\ tx[o].seen \in Nat /\ w.was \in {"pending", "active"}
      /\ \/ \E m \in RowLog(r) : tx[o].seen < m
         \/ LastIs(audit, RowLog(r), w.was)
  BY <1>1, RowCallRead
<1>3. row.status = "revoked" /\ row.revoked
  BY <1>2 DEF AuthRow
<1>4. auth' = [auth EXCEPT ![r] = row]
  BY <1>2 DEF FinishRevoke, AuthRow
<1>5. /\ Len(auth') = Len(auth) /\ auth'[r] = row
      /\ \A q \in 1..Len(auth) : q # r => auth'[q] = auth[q]
  <2> HIDE DEF r, row
  <2> QED
    BY <1>2, <1>4
<1>6. /\ e \in Entry /\ e.target = r /\ e.field = "status" /\ e.from = w.was
      /\ e.to = "revoked" /\ e.seen = tx[o].seen
  BY <1>2 DEF EntryOf, Entry, Value, AuthStatus
<1>7. audit' = Append(audit, e) /\ Closes(o) /\ leas' = leas
  BY DEF FinishRevoke, Audit, EntryOf, Closes
<1> HIDE DEF e, r, row, w
<1> QED
  BY <1>2, <1>3, <1>5, <1>6, <1>7, RowCallLog

\* The interval has a trail of its own.
LEMMA FinishAdjustLog ==
    ASSUME FullInv, NEW o \in Operators, FinishAdjust(o) PROVE LogInv'
<1> DEFINE w == tx[o].w
           r == w.row
           e == EntryOf(o, r, "interval", w.had, w.interval)
           row == [auth[r] EXCEPT !.interval = w.interval]
<1>1. /\ tx[o].op = "adjust" /\ r # 0 /\ w.interval \in Nat
      /\ LogInv /\ TypesOK /\ leas \in [Leas -> LeaRowOrNone]
  BY DEF FinishAdjust, FullInv, IInv, TypesOK, OpenCallsOK, CallOK, LogInv, LogTypes
<1>2. /\ r \in 1..Len(auth) /\ auth \in Seq(AuthRow) /\ Len(auth) \in Nat
      /\ auth[r] \in AuthRow /\ tx[o].seen \in Nat /\ w.had \in Nat
  BY <1>1, RowCallRead
<1>3. row.status = auth[r].status /\ row.revoked = auth[r].revoked
  BY <1>2 DEF AuthRow
<1>4. auth' = [auth EXCEPT ![r] = row]
  BY <1>2 DEF FinishAdjust, AuthRow
<1>5. /\ Len(auth') = Len(auth)
      /\ \A q \in 1..Len(auth) : /\ auth'[q].status = auth[q].status
                                 /\ auth'[q].revoked = auth[q].revoked
  <2> HIDE DEF r, row
  <2> QED
    BY <1>2, <1>3, <1>4
<1>6. e \in Entry /\ e.field = "interval"
  BY <1>1, <1>2 DEF EntryOf, Entry, Value
<1>7. audit' = Append(audit, e) /\ Closes(o) /\ leas' = leas
  BY DEF FinishAdjust, Audit, EntryOf, Closes
<1> HIDE DEF e, r, row, w
<1>8. \A l \in Leas : LeaHistory(l)'
  BY <1>1, <1>6, <1>7, OtherHistory
<1>9. \A q \in Rows' : RowHistory(q)'
  <2>1. Rows' = Rows /\ Rows = 1..Len(auth)
    BY <1>5 DEF Rows
  <2> QED
    BY <1>1, <1>5, <1>6, <1>7, <2>1, OtherHistory
<1>10. Labels'
  BY <1>1, <1>6, <1>7, LabelsKept
<1>11. Recorded(e)
  BY <1>5, <1>7 DEF Recorded
<1>12. Len(auth') \in Nat /\ Len(auth) <= Len(auth') /\ leas' \in [Leas -> LeaRowOrNone]
  BY <1>1, <1>2, <1>5, <1>7
<1> QED
  BY <1>1, <1>6, <1>7, <1>8, <1>9, <1>10, <1>11, <1>12, AuditedLog

\* A row that is inserted has no trail yet.
LEMMA AuthorizeNewLog ==
    ASSUME FullInv, NEW o \in Operators, AuthorizeNew(o) PROVE LogInv'
<1>0. PICK r \in Nat : r = Len(auth) + 1
  BY DEF FullInv, IInv, TypesOK
<1> DEFINE w == tx[o].w
           e == EntryOf(o, r, "status", "none", "active")
<1>1. /\ tx[o].op = "authorize" /\ w.interval \in Nat /\ w.lea \in Leas
      /\ LogInv /\ TypesOK /\ leas \in [Leas -> LeaRowOrNone] /\ audit \in Seq(Entry)
      /\ auth \in Seq(AuthRow)
  BY DEF AuthorizeNew, FullInv, IInv, TypesOK, OpenCallsOK, CallOK, LogInv, LogTypes
<1>2. tx[o].seen \in Nat /\ Len(auth) \in Nat /\ r \in Nat
  BY <1>1, SeenIsNat DEF FullInv
<1>3. /\ Len(auth') = r /\ auth'[r] = NewRow(w.lea, w.interval)
      /\ \A q \in 1..Len(auth) : auth'[q] = auth[q]
  BY <1>0, <1>1 DEF AuthorizeNew
<1>4. auth'[r].status = "active" /\ ~auth'[r].revoked
  BY <1>3 DEF NewRow
<1>5. /\ e \in Entry /\ e.target = r /\ e.field = "status" /\ e.from = "none"
      /\ e.to = "active" /\ e.seen = tx[o].seen
  BY <1>2 DEF EntryOf, Entry, Value, AuthStatus
<1>6. audit' = Append(audit, e) /\ Closes(o) /\ leas' = leas
  BY <1>0 DEF AuthorizeNew, Audit, EntryOf, Closes
<1>7. RowLog(r) = {}
  BY <1>0, <1>1, <1>2 DEF LogInv, LogTypes, RowLog, TrailIn
<1>8. Linked(audit, RowLog(r)) /\ LastIs(audit, RowLog(r), e.from)
  BY <1>7 DEF Linked, LastIs
<1>9. /\ r \notin 1..Len(auth) /\ 1..r = 1..Len(auth) \cup {r}
      /\ Len(auth) <= r /\ r \in 1..r
  BY <1>0, <1>2
<1> HIDE DEF e, w
<1>10. RowHistory(r)'
  BY <1>1, <1>4, <1>5, <1>6, <1>8, OwnRowHistory
<1>11. \A q \in Rows' : RowHistory(q)'
  <2>1. Rows' = Rows \cup {r} /\ Rows = 1..Len(auth)
    BY <1>3, <1>9 DEF Rows
  <2>2. \A q \in Rows : q # r
    BY <1>9, <2>1
  <2> QED
    BY <1>1, <1>3, <1>5, <1>6, <1>10, <2>1, <2>2, OtherHistory
<1>12. \A l \in Leas : LeaHistory(l)'
  BY <1>1, <1>5, <1>6, OtherHistory
<1>13. Labels'
  BY <1>1, <1>5, <1>6, LabelsKept
<1>14. Recorded(e)
  BY <1>3, <1>6 DEF Recorded
<1>15. /\ Len(auth') \in Nat /\ Len(auth) <= Len(auth') /\ e.target \in 1..Len(auth')
       /\ leas' \in [Leas -> LeaRowOrNone]
  BY <1>1, <1>2, <1>3, <1>5, <1>6, <1>9
<1> QED
  BY <1>1, <1>5, <1>6, <1>11, <1>12, <1>13, <1>14, <1>15, AuditedLog

-----------------------------------------------------------------------------
\* Steps that commit nothing: the open calls go on, end, or one begins with
\* what it has just read.
LEMMA QuietCalls ==
    ASSUME FullInv, Quiet, NEW idle, idle.op = "idle",
           \A o \in Operators : tx'[o] = tx[o] \/ tx'[o] = idle
    PROVE  LogInv'
<1>1. Len(auth) \in Nat /\ LogInv
  BY DEF FullInv, IInv, TypesOK
<1>2. ASSUME NEW o \in Operators PROVE ReadOK(tx[o])'
  <2>1. CASE tx'[o] = tx[o]
    <3>1. CallOK(tx[o]) /\ ReadOK(tx[o])
      BY <1>1 DEF FullInv, IInv, TypesOK, OpenCallsOK, LogInv
    <3>2. ASSUME NEW c, CallOK(c), ReadOK(c) PROVE ReadOK(c)'
      BY <1>1, <3>2, ReadStands
    <3> QED
      BY <2>1, <3>1, <3>2
  <2>2. CASE tx'[o] = idle
    BY <2>2 DEF ReadOK
  <2> QED
    BY <2>1, <2>2
<1> QED
  BY <1>1, <1>2, QuietLog

LEMMA BeginLog ==
    ASSUME FullInv, NEW o \in Operators, NEW work, Begin(o, work),
           UNCHANGED <<leas, audit, auth>>,
           ReadOK([w |-> work, op |-> work.op, seen |-> Len(audit)])
    PROVE  LogInv'
<1>1. Len(auth) \in Nat /\ LogInv /\ leas \in [Leas -> LeaRowOrNone]
  BY DEF FullInv, IInv, TypesOK, LogInv, LogTypes
<1>2. Quiet
  BY <1>1 DEF Quiet
<1>3. ASSUME NEW p \in Operators PROVE ReadOK(tx[p])'
  <2>1. CASE p = o
    <3>1. tx'[p] = [w |-> work, op |-> work.op, seen |-> Len(audit)]
      BY <2>1 DEF FullInv, IInv, TypesOK, OpenCallsOK, Begin
    <3>2. ASSUME NEW c, ReadOK(c) PROVE ReadOK(c)'
      BY <3>2 DEF ReadOK, CreateOK, TransitionOK, RowCallOK, LeaLog, RowLog, Known
    <3> QED
      BY <3>1, <3>2
  <2>2. CASE p # o
    <3>1. tx'[p] = tx[p]
      BY <2>2 DEF FullInv, IInv, TypesOK, OpenCallsOK, Begin
    <3>2. CallOK(tx[p]) /\ ReadOK(tx[p])
      BY <1>1 DEF FullInv, IInv, TypesOK, OpenCallsOK, LogInv
    <3>3. ASSUME NEW c, CallOK(c), ReadOK(c) PROVE ReadOK(c)'
      BY <1>1, <1>2, <3>3, ReadStands
    <3> QED
      BY <3>1, <3>2, <3>3
  <2> QED
    BY <2>1, <2>2
<1> QED
  BY <1>1, <1>2, <1>3, QuietLog

LEMMA AuditLength == ASSUME FullInv PROVE Len(audit) \in 0..Len(audit)
<1>1. audit \in Seq(Entry)
  BY DEF FullInv, LogInv, LogTypes
<1> QED
  BY <1>1

LEMMA BeginCreateLog ==
    ASSUME FullInv, NEW o \in Operators, NEW l \in Leas, NEW n \in Names,
           NEW i \in Integrations \cup {NoLabel}, BeginCreate(o, l, n, i), UNCHANGED auth
    PROVE  LogInv'
<1> DEFINE work == [op |-> "create", lea |-> l, name |-> n, integration |-> i]
           call == [w |-> work, op |-> work.op, seen |-> Len(audit)]
<1>1. call.op = "create" /\ call.w = work /\ call.seen \in 0..Len(audit)
  BY AuditLength
<1>2. CreateOK(call)
  BY DEF CreateOK, BeginCreate, Unique, NameFree
<1>3. ReadOK(call)
  BY <1>1, <1>2 DEF ReadOK
<1> QED
  BY <1>3, BeginLog DEF BeginCreate

LEMMA BeginTransitionLog ==
    ASSUME FullInv, NEW o \in Operators, NEW l \in Leas, NEW s \in LeaStatus,
           BeginTransition(o, l, s), UNCHANGED auth
    PROVE  LogInv'
<1> DEFINE work == [op |-> "transition", lea |-> l, from |-> leas[l].status, to |-> s]
           call == [w |-> work, op |-> work.op, seen |-> Len(audit)]
<1>1. call.op = "transition" /\ call.w = work /\ call.seen \in 0..Len(audit)
  BY AuditLength
<1>2. leas[l].status \in LeaStatus /\ Known(l)
  BY DEF BeginTransition, ValidTransitions, LeaStatus, Known
<1>3. TransitionOK(call)
  BY <1>2 DEF TransitionOK
<1>4. ReadOK(call)
  BY <1>1, <1>3 DEF ReadOK
<1> QED
  BY <1>4, BeginLog DEF BeginTransition

LEMMA BeginRowLog ==
    ASSUME FullInv, NEW o \in Operators, NEW op \in {"authorize", "revoke", "adjust"},
           NEW l \in Leas, NEW interval \in Nat,
           Begin(o, Call(op, l, interval)), UNCHANGED <<leas, audit, auth>>
    PROVE  LogInv'
<1> DEFINE live == Live(l)
           r == IF live = {} THEN 0 ELSE CHOOSE q \in live : TRUE
           work == Call(op, l, interval)
           call == [w |-> work, op |-> work.op, seen |-> Len(audit)]
<1>1. /\ work.op = op /\ work.row = r
      /\ work.was = IF r = 0 THEN "none" ELSE auth[r].status
      /\ work.had = IF r = 0 THEN 0 ELSE auth[r].interval
  BY Zenon DEF Call
<1>2. r # 0 => r \in live
  BY Zenon
<1>3. call.op = op /\ call.w = work /\ call.seen \in 0..Len(audit)
  BY <1>1, AuditLength
<1>4. auth \in Seq(AuthRow)
  BY DEF FullInv, IInv, TypesOK
<1> HIDE DEF r, work
<1>5. ASSUME r # 0
      PROVE  /\ auth[r].status \in {"pending", "active"} /\ ~auth[r].revoked
             /\ auth[r].interval \in Nat
  <2>1. r \in Rows /\ ~auth[r].revoked
    BY <1>2, <1>5 DEF Live
  <2>2. RowHistory(r) /\ auth[r] \in AuthRow
    BY <1>4, <2>1 DEF FullInv, LogInv, Rows
  <2> QED
    BY <2>1, <2>2 DEF RowHistory, AuthRow
<1>6. RowCallOK(call)
  BY <1>1, <1>3, <1>5 DEF RowCallOK
<1>7. ReadOK(call)
  BY <1>3, <1>6 DEF ReadOK
<1>8. Begin(o, work)
  BY DEF work
<1> QED
  BY <1>7, <1>8, BeginLog

-----------------------------------------------------------------------------
LEMMA InitLog == ConnectorInit => LogInv
<1> SUFFICES ASSUME ConnectorInit PROVE LogInv
  OBVIOUS
<1>1. Absent \in LeaRowOrNone /\ Absent.name = NoLabel /\ Absent.integration = NoLabel
  BY DEF Absent, LeaRowOrNone
<1>2. [Absent EXCEPT !.status = "onboarding"] \in LeaRowOrNone
  BY DEF Absent, LeaRowOrNone, LeaStatus
<1>3. /\ leas \in [Leas -> LeaRowOrNone]
      /\ \A l \in Leas : leas[l].name = NoLabel /\ leas[l].integration = NoLabel
  BY <1>1, <1>2 DEF ConnectorInit, Absent
<1>4. audit = <<>> /\ Len(audit) = 0 /\ audit \in Seq(Entry)
  BY DEF ConnectorInit
<1>5. LogTypes
  BY <1>3, <1>4 DEF LogTypes
<1>6. \A l \in Leas : LeaHistory(l)
  BY <1>4 DEF LeaHistory, LeaLog, TrailIn, Linked, LastIs
<1>7. ASSUME NEW r \in Rows PROVE RowHistory(r)
  <2>1. auth[r].status = "pending" /\ ~auth[r].revoked
    <3>1. auth # <<>>
      BY <1>7 DEF Rows
    <3>2. PICK l \in Leas : auth = <<[NewRow(l, 300) EXCEPT !.status = "pending"]>>
      BY <3>1 DEF ConnectorInit
    <3>3. r = 1
      BY <1>7, <3>2 DEF Rows
    <3> QED
      BY <3>2, <3>3 DEF NewRow
  <2>2. RowLog(r) = {}
    BY <1>4 DEF RowLog, TrailIn
  <2> QED
    BY <2>1, <2>2 DEF RowHistory, Linked, EndsAt, LastIs
<1>8. Labels
  BY <1>3 DEF Labels
<1>9. \A o \in Operators : ReadOK(tx[o])
  BY DEF ConnectorInit, Idle, ReadOK
<1> QED
  BY <1>5, <1>6, <1>7, <1>8, <1>9 DEF LogInv

LEMMA OperatorLog == ASSUME FullInv, NEW o \in Operators, OperatorCall(o) PROVE LogInv'
<1>1. Intervals \subseteq Nat /\ leas \in [Leas -> LeaRowOrNone] /\ TypesOK
  BY ConnectorAssumption DEF FullInv, IInv, LogInv, LogTypes
<1>2. ASSUME LeaAdminCall(o), UNCHANGED <<auth, partner, flips, drain>> PROVE LogInv'
  <2>1. ASSUME NEW l \in Leas, NEW n \in Names, NEW i \in Integrations \cup {NoLabel},
               BeginCreate(o, l, n, i)
        PROVE  LogInv'
    BY <1>2, <2>1, BeginCreateLog
  <2>2. ASSUME NEW l \in Leas, NEW s \in LeaStatus, BeginTransition(o, l, s) PROVE LogInv'
    BY <1>2, <2>2, BeginTransitionLog
  <2>3. CASE FinishCreate(o) \/ FinishTransition(o)
    BY <1>2, <2>3, CreateLog, TransitionLog
  <2>4. CASE Rollback(o)
    <3>1. Quiet
      BY <1>1, <1>2, <2>4 DEF Rollback, Quiet
    <3>2. \A p \in Operators : tx'[p] = tx[p] \/ tx'[p] = Idle
      BY <1>1, <2>4 DEF Rollback, TypesOK, OpenCallsOK
    <3>3. Idle.op = "idle"
      BY DEF Idle
    <3> HIDE DEF Idle
    <3> QED
      BY <3>1, <3>2, <3>3, QuietCalls
  <2> QED
    BY <1>2, <2>1, <2>2, <2>3, <2>4 DEF LeaAdminCall
<1>3. ASSUME NEW l \in Leas, NEW i \in Intervals, BeginAuthorize(o, l, i) PROVE LogInv'
  BY <1>1, <1>3, BeginRowLog DEF BeginAuthorize
<1>4. ASSUME NEW l \in Leas, NEW i \in Intervals, BeginAdjust(o, l, i) PROVE LogInv'
  BY <1>1, <1>4, BeginRowLog DEF BeginAdjust
<1>5. ASSUME NEW l \in Leas, BeginRevoke(o, l) PROVE LogInv'
  BY <1>5, BeginRowLog DEF BeginRevoke
<1>6. CASE AuthorizeNew(o) \/ AuthorizePending(o) \/ AuthorizeAgain(o)
  BY <1>6, AuthorizeNewLog, AuthorizePendingLog, AuthorizeAgainLog
<1>7. CASE FinishRevoke(o) \/ FinishAdjust(o)
  BY <1>7, FinishRevokeLog, FinishAdjustLog
<1> QED
  BY <1>2, <1>3, <1>4, <1>5, <1>6, <1>7 DEF OperatorCall

\* The worker and the partner audit nothing: a placeholder row at the most.
LEMMA WorkerLog ==
    ASSUME FullInv,
           \/ DrainStep
           \/ \E l \in Leas, s \in PartnerStatuses : PartnerChanges(l, s)
    PROVE  LogInv'
<1>1. /\ leas \in [Leas -> LeaRowOrNone] /\ auth \in Seq(AuthRow) /\ Len(auth) \in Nat
      /\ DrainOK
  BY DEF FullInv, IInv, LogInv, LogTypes, TypesOK
<1>2. ASSUME Quiet, tx' = tx PROVE LogInv'
  <2>1. Idle.op = "idle"
    BY DEF Idle
  <2> HIDE DEF Idle
  <2> QED
    BY <1>2, <2>1, QuietCalls
<1>3. ASSUME UNCHANGED <<leas, audit, tx, auth>> PROVE LogInv'
  <2>1. Quiet
    BY <1>1, <1>3 DEF Quiet
  <2> QED
    BY <1>2, <1>3, <2>1
<1>4. CASE StoreAnswer
  <2>1. \A r \in 1..Len(auth) : /\ auth'[r].status = auth[r].status
                                /\ auth'[r].revoked = auth[r].revoked
    <3> TAKE r \in 1..Len(auth)
    <3>1. auth[r] \in AuthRow
      BY <1>1
    <3>2. /\ [auth[r] EXCEPT !.integration = drain.answer].status = auth[r].status
          /\ [auth[r] EXCEPT !.integration = drain.answer].revoked = auth[r].revoked
      BY <3>1 DEF AuthRow
    <3>3. auth'[r] \in {auth[r], [auth[r] EXCEPT !.integration = drain.answer]}
      BY <1>4 DEF StoreAnswer, Rows
    <3> QED
      BY <3>2, <3>3
  <2>2. Len(auth') = Len(auth)
    BY <1>1, <1>4 DEF StoreAnswer, Rows
  <2>3. Quiet
    BY <1>1, <1>4, <2>1, <2>2 DEF StoreAnswer, Quiet
  <2> QED
    BY <1>2, <1>4, <2>3 DEF StoreAnswer
<1>5. CASE FetchPage
  <2>1. drain.lea \in Leas
    BY <1>1, <1>5 DEF FetchPage, DrainOK, Drain, AtRest
  <2>2. [Absent EXCEPT !.status = "onboarding"] \in LeaRowOrNone
    BY DEF Absent, LeaRowOrNone, LeaStatus
  <2>3. \/ leas' = leas
        \/ /\ ~Known(drain.lea)
           /\ leas' = [leas EXCEPT ![drain.lea] = [Absent EXCEPT !.status = "onboarding"]]
    BY <1>5 DEF FetchPage, EnsureLea
  <2>4. Quiet
    <3>1. CASE leas' = leas
      BY <1>1, <1>5, <3>1 DEF FetchPage, Quiet
    <3>2. CASE /\ ~Known(drain.lea)
               /\ leas' = [leas EXCEPT ![drain.lea] = [Absent EXCEPT !.status = "onboarding"]]
      <4>1. leas' \in [Leas -> LeaRowOrNone]
        BY <1>1, <2>2, <3>2
      <4>2. \A l \in Leas :
                \/ leas'[l] = leas[l]
                \/ l = drain.lea /\ leas'[l] = [Absent EXCEPT !.status = "onboarding"]
        BY <1>1, <3>2
      <4>3. \A l \in Leas :
                \/ leas'[l] = leas[l]
                \/ /\ ~Known(l) /\ Known(l)'
                   /\ leas'[l].name = NoLabel /\ leas'[l].integration = NoLabel
        BY <3>2, <4>2 DEF Known, Absent
      <4> QED
        BY <1>5, <4>1, <4>3 DEF FetchPage, Quiet
    <3> QED
      BY <2>3, <3>1, <3>2
  <2> QED
    BY <1>2, <1>5, <2>4 DEF FetchPage
<1>6. CASE DrainFails
  BY <1>3, <1>6 DEF DrainFails
<1>7. ASSUME NEW l \in Leas, StartDrain(l) PROVE LogInv'
  BY <1>3, <1>7 DEF StartDrain
<1>8. ASSUME NEW l \in Leas, NEW s \in PartnerStatuses, PartnerChanges(l, s) PROVE LogInv'
  BY <1>3, <1>8 DEF PartnerChanges
<1> QED
  BY <1>4, <1>5, <1>6, <1>7, <1>8 DEF DrainStep

LEMMA StepLog == FullInv /\ [ConnectorNext]_connectorVars => FullInv'
<1> SUFFICES ASSUME FullInv, [ConnectorNext]_connectorVars PROVE LogInv'
  BY StepInv DEF FullInv
<1>1. CASE UNCHANGED connectorVars
  <2>1. Quiet
    BY <1>1 DEF connectorVars, Quiet, FullInv, LogInv, LogTypes
  <2>2. Idle.op = "idle" /\ \A o \in Operators : tx'[o] = tx[o]
    BY <1>1 DEF Idle, connectorVars
  <2> HIDE DEF Idle
  <2> QED
    BY <2>1, <2>2, QuietCalls
<1>2. CASE ConnectorNext
  BY <1>2, OperatorLog, WorkerLog DEF ConnectorNext
<1> QED
  BY <1>1, <1>2

-----------------------------------------------------------------------------
(* The trail of the poll interval, since the row was last activated.       *)

Activates(e, r) ==
    /\ e.target = r /\ e.field = "status"
    /\ e.from = "pending" /\ e.to = "active"

Since(r) ==
    {n \in TrailIn(audit, r, "interval") :
        \A k \in {i \in RowLog(r) : audit[i].from = "pending" /\ audit[i].to = "active"} : k < n}

\* The last entry of the trail ends at the interval in force.
IntervalHistory(r) ==
    Linked(audit, Since(r)) /\ LastIs(audit, Since(r), auth[r].interval)

\* What adjust_poll_interval has read still holds, or the trail tells that it
\* comes late, or there is no trail yet to fit into.
IntervalRead(call) ==
    call.op = "adjust" =>
        LET r == call.w.row
        IN  \/ \E m \in Since(r) : call.seen < m
            \/ Since(r) = {} \/ auth[r].interval = call.w.had

IntervalInv ==
    /\ \A n \in 1..Len(audit) :
          audit[n].field = "interval" => audit[n].target \in 1..Len(auth)
    /\ \A r \in Rows : IntervalHistory(r)
    /\ \A o \in Operators : IntervalRead(tx[o])

AllInv == FullInv /\ IntervalInv

\* What an entry does to the trail of a row.
LEMMA SinceAfter ==
    ASSUME audit \in Seq(Entry), NEW e \in Entry, audit' = Append(audit, e), NEW r
    PROVE  /\ Since(r) \in SUBSET (1..Len(audit))
           /\ Activates(e, r) => Since(r)' = {}
           /\ e.field = "interval" /\ e.target = r =>
                  Since(r)' = Since(r) \cup {Len(audit) + 1}
           /\ ~Activates(e, r) /\ ~(e.field = "interval" /\ e.target = r) =>
                  Since(r)' = Since(r)
<1> DEFINE N == Len(audit) + 1
           T == TrailIn(audit, r, "interval")
           A == {i \in RowLog(r) : audit[i].from = "pending" /\ audit[i].to = "active"}
           A2 == {i \in RowLog(r)' : audit'[i].from = "pending" /\ audit'[i].to = "active"}
<1>1. /\ Len(audit) \in Nat /\ audit'[N] = e
      /\ \A n \in 1..Len(audit) : audit'[n] = audit[n]
      /\ T \subseteq 1..Len(audit) /\ RowLog(r) \subseteq 1..Len(audit)
  BY TrailAppend DEF RowLog
<1>2. /\ e.target = r /\ e.field = "interval" =>
             TrailIn(audit', r, "interval") = T \cup {N} /\ RowLog(r)' = RowLog(r)
      /\ e.target = r /\ e.field = "status" =>
             TrailIn(audit', r, "interval") = T /\ RowLog(r)' = RowLog(r) \cup {N}
      /\ ~(e.target = r /\ e.field \in {"interval", "status"}) =>
             TrailIn(audit', r, "interval") = T /\ RowLog(r)' = RowLog(r)
  <2>1. /\ e.target = r /\ e.field = "interval" =>
               TrailIn(audit', r, "interval") = T \cup {N}
        /\ ~(e.target = r /\ e.field = "interval") =>
               TrailIn(audit', r, "interval") = T
    BY TrailAppend
  <2>2. /\ e.target = r /\ e.field = "status" =>
               TrailIn(audit', r, "status") = TrailIn(audit, r, "status") \cup {N}
        /\ ~(e.target = r /\ e.field = "status") =>
               TrailIn(audit', r, "status") = TrailIn(audit, r, "status")
    BY TrailAppend
  <2>3. RowLog(r) = TrailIn(audit, r, "status") /\ RowLog(r)' = TrailIn(audit', r, "status")
    BY DEF RowLog
  <2> HIDE DEF N, T
  <2> QED
    BY <2>1, <2>2, <2>3
<1>3. \A n \in 1..Len(audit) : n < N /\ ~(N < n)
  BY <1>1
<1>4. /\ Since(r) = {n \in T : \A k \in A : k < n}
      /\ Since(r)' = {n \in TrailIn(audit', r, "interval") : \A k \in A2 : k < n}
  BY DEF Since
<1>5. A \subseteq 1..Len(audit)
  BY <1>1
<1>6. IF Activates(e, r) THEN A2 = A \cup {N} ELSE A2 = A
  <2> HIDE DEF N
  <2>1. \A i \in RowLog(r) : audit'[i] = audit[i]
    BY <1>1
  <2>2. CASE e.target = r /\ e.field = "status"
    <3>1. RowLog(r)' = RowLog(r) \cup {N}
      BY <1>2, <2>2
    <3> QED
      BY <1>1, <2>1, <2>2, <3>1 DEF Activates
  <2>3. CASE ~(e.target = r /\ e.field = "status")
    <3>1. RowLog(r)' = RowLog(r)
      BY <1>2, <2>3
    <3> QED
      BY <2>1, <2>3, <3>1 DEF Activates
  <2> QED
    BY <2>2, <2>3
<1> HIDE DEF N, T, A, A2
<1>7. Activates(e, r) => Since(r)' = {}
  BY <1>1, <1>2, <1>3, <1>4, <1>6 DEF Activates
<1>8. e.field = "interval" /\ e.target = r => Since(r)' = Since(r) \cup {N}
  BY <1>2, <1>3, <1>4, <1>5, <1>6 DEF Activates
<1>9. ~Activates(e, r) /\ ~(e.field = "interval" /\ e.target = r) => Since(r)' = Since(r)
  BY <1>2, <1>4, <1>6
<1> QED
  BY <1>1, <1>4, <1>7, <1>8, <1>9 DEF N

\* A call that ends with the entry e: what sets an interval says so, or
\* activates the row.
LEMMA IntervalEntry ==
    ASSUME AllInv, NEW o \in Operators, Closes(o),
           NEW e \in Entry, audit' = Append(audit, e),
           Len(auth') \in Nat, Len(auth) <= Len(auth'),
           \A r \in 1..Len(auth) :
               \/ Activates(e, r)
               \/ e.field = "interval" /\ e.target = r /\ auth'[r].interval = e.to
               \/ /\ ~(e.field = "interval" /\ e.target = r)
                  /\ auth'[r].interval = auth[r].interval,
           e.field = "interval" =>
               /\ e.target \in 1..Len(auth)
               /\ \/ \E m \in Since(e.target) : e.seen < m
                  \/ LastIs(audit, Since(e.target), e.from)
    PROVE  IntervalInv'
<1> DEFINE N == Len(audit) + 1
<1>1. /\ audit \in Seq(Entry) /\ Len(auth) \in Nat /\ IntervalInv /\ TypesOK /\ LogInv
  BY DEF AllInv, FullInv, LogInv, LogTypes, IInv, TypesOK
<1>2. /\ Len(audit) \in Nat /\ Len(audit') = N /\ audit'[N] = e
      /\ \A n \in 1..Len(audit) : audit'[n] = audit[n]
  BY <1>1, TrailAppend
<1>3. \A n \in 1..Len(audit') :
          audit'[n].field = "interval" => audit'[n].target \in 1..Len(auth')
  <2> TAKE n \in 1..Len(audit')
  <2>1. n = N \/ n \in 1..Len(audit)
    BY <1>2
  <2>2. 1..Len(auth) \subseteq 1..Len(auth')
    BY <1>1
  <2> QED
    BY <1>1, <1>2, <2>1, <2>2 DEF IntervalInv
<1>4. ASSUME NEW r \in Rows' PROVE IntervalHistory(r)'
  <2>1. Since(r) \in SUBSET (1..Len(audit))
    BY <1>1, SinceAfter
  <2>2. CASE r \notin 1..Len(auth)
    <3>1. TrailIn(audit, r, "interval") = {}
      BY <1>1, <2>2 DEF IntervalInv, TrailIn
    <3>2. Since(r) = {}
      BY <3>1 DEF Since
    <3>3. Since(r)' = {}
      BY <1>1, <2>2, <3>2, SinceAfter
    <3> QED
      BY <3>3 DEF IntervalHistory, Linked, LastIs
  <2>3. CASE r \in 1..Len(auth) /\ Activates(e, r)
    <3>1. Since(r)' = {}
      BY <1>1, <2>3, SinceAfter
    <3> QED
      BY <3>1 DEF IntervalHistory, Linked, LastIs
  <2>4. CASE /\ r \in 1..Len(auth)
             /\ e.field = "interval" /\ e.target = r /\ auth'[r].interval = e.to
    <3>1. Since(r)' = Since(r) \cup {N}
      BY <1>1, <2>4, SinceAfter
    <3>2. IntervalHistory(r)
      BY <1>1, <2>4 DEF IntervalInv, Rows
    <3>3. /\ Linked(audit', Since(r) \cup {N})
          /\ LastIs(audit', Since(r) \cup {N}, e.to)
      BY <1>1, <2>1, <2>4, <3>2, TrailGrows DEF IntervalHistory
    <3> QED
      BY <2>4, <3>1, <3>3 DEF IntervalHistory
  <2>5. CASE /\ r \in 1..Len(auth) /\ ~Activates(e, r)
             /\ ~(e.field = "interval" /\ e.target = r)
             /\ auth'[r].interval = auth[r].interval
    <3>1. Since(r)' = Since(r)
      BY <1>1, <2>5, SinceAfter
    <3>2. IntervalHistory(r)
      BY <1>1, <2>5 DEF IntervalInv, Rows
    <3>3. /\ Linked(audit', Since(r)) /\ LastIs(audit', Since(r), auth[r].interval)
      BY <1>1, <2>1, <3>2, TrailKept DEF IntervalHistory
    <3> QED
      BY <2>5, <3>1, <3>3 DEF IntervalHistory
  <2> QED
    BY <2>2, <2>3, <2>4, <2>5
<1>5. ASSUME NEW p \in Operators PROVE IntervalRead(tx[p])'
  <2>1. CASE p = o
    <3>1. tx'[p] = Idle
      BY <1>1, <2>1 DEF TypesOK, OpenCallsOK, Closes
    <3> QED
      BY <3>1 DEF IntervalRead, Idle
  <2>2. CASE p # o
    <3>1. tx'[p] = tx[p]
      BY <1>1, <2>2 DEF TypesOK, OpenCallsOK, Closes
    <3>2. CallOK(tx[p]) /\ ReadOK(tx[p]) /\ IntervalRead(tx[p])
      BY <1>1 DEF TypesOK, OpenCallsOK, LogInv, IntervalInv
    <3>3. ASSUME NEW c, CallOK(c), ReadOK(c), IntervalRead(c) PROVE IntervalRead(c)'
      <4> SUFFICES ASSUME c.op = "adjust"
                   PROVE  \/ \E m \in Since(c.w.row)' : c.seen < m
                          \/ Since(c.w.row)' = {} \/ auth'[c.w.row].interval = c.w.had
        BY DEF IntervalRead
      <4> DEFINE r == c.w.row
      <4>1. r \in 1..Len(auth) /\ c.seen \in 0..Len(audit) /\ c.seen < N
        BY <1>1, <1>2, <3>3 DEF ReadOK, CallOK
      <4>2. \/ \E m \in Since(r) : c.seen < m
            \/ Since(r) = {} \/ auth[r].interval = c.w.had
        BY <3>3 DEF IntervalRead
      <4> HIDE DEF r, N
      <4>3. CASE Activates(e, r)
        BY <1>1, <4>3, SinceAfter DEF r
      <4>4. CASE e.field = "interval" /\ e.target = r
        <5>1. Since(r)' = Since(r) \cup {N}
          BY <1>1, <4>4, SinceAfter DEF N
        <5> QED
          BY <4>1, <5>1 DEF r
      <4>5. CASE ~Activates(e, r) /\ ~(e.field = "interval" /\ e.target = r)
        <5>1. Since(r)' = Since(r) /\ auth'[r].interval = auth[r].interval
          BY <1>1, <4>1, <4>5, SinceAfter
        <5> QED
          BY <4>2, <5>1 DEF r
      <4> QED
        BY <4>3, <4>4, <4>5
    <3> QED
      BY <3>1, <3>2, <3>3
  <2> QED
    BY <2>1, <2>2
<1> QED
  BY <1>3, <1>4, <1>5 DEF IntervalInv

\* A step that adds no entry and sets no interval.
LEMMA IntervalQuiet ==
    ASSUME AllInv, audit' = audit, Len(auth') = Len(auth),
           \A r \in 1..Len(auth) : auth'[r].interval = auth[r].interval,
           \A p \in Operators :
               \/ tx'[p] = tx[p] \/ tx'[p].op # "adjust"
               \/ /\ tx'[p].w.row \in 1..Len(auth)
                  /\ tx'[p].w.had = auth[tx'[p].w.row].interval
    PROVE  IntervalInv'
<1>1. Len(auth) \in Nat /\ IntervalInv /\ TypesOK
  BY DEF AllInv, FullInv, IInv, TypesOK
<1>2. \A r : Since(r)' = Since(r)
  BY DEF Since, RowLog
<1>3. ASSUME NEW r \in Rows' PROVE IntervalHistory(r)'
  <2>1. r \in 1..Len(auth) /\ IntervalHistory(r)
    BY <1>1, <1>3 DEF IntervalInv, Rows
  <2> QED
    BY <1>2, <2>1 DEF IntervalHistory
<1>4. ASSUME NEW p \in Operators PROVE IntervalRead(tx[p])'
  <2>1. CASE tx'[p] = tx[p]
    <3>1. CallOK(tx[p]) /\ IntervalRead(tx[p])
      BY <1>1 DEF TypesOK, OpenCallsOK, IntervalInv
    <3>2. ASSUME NEW c, CallOK(c), IntervalRead(c) PROVE IntervalRead(c)'
      <4> SUFFICES ASSUME c.op = "adjust" PROVE IntervalRead(c)'
        BY DEF IntervalRead
      <4>1. c.w.row \in 1..Len(auth)
        BY <1>1, <3>2 DEF CallOK
      <4>2. Since(c.w.row)' = Since(c.w.row)
            /\ auth'[c.w.row].interval = auth[c.w.row].interval
        BY <1>2, <4>1
      <4> QED
        BY <3>2, <4>2 DEF IntervalRead
    <3> QED
      BY <2>1, <3>1, <3>2
  <2>2. CASE tx'[p].op # "adjust"
    BY <2>2 DEF IntervalRead
  <2>3. CASE /\ tx'[p].w.row \in 1..Len(auth)
             /\ tx'[p].w.had = auth[tx'[p].w.row].interval
    BY <2>3 DEF IntervalRead
  <2> QED
    BY <2>1, <2>2, <2>3
<1>5. \A n \in 1..Len(audit') :
          audit'[n].field = "interval" => audit'[n].target \in 1..Len(auth')
  BY <1>1 DEF IntervalInv
<1> QED
  BY <1>3, <1>4, <1>5 DEF IntervalInv

LEMMA IntervalInit == ConnectorInit => IntervalInv
<1> SUFFICES ASSUME ConnectorInit PROVE IntervalInv
  OBVIOUS
<1>1. audit = <<>> /\ Len(audit) = 0
  BY DEF ConnectorInit
<1>2. \A r : Since(r) = {}
  BY <1>1 DEF Since, TrailIn
<1>3. \A o \in Operators : IntervalRead(tx[o])
  BY DEF ConnectorInit, Idle, IntervalRead
<1> QED
  BY <1>1, <1>2, <1>3 DEF IntervalInv, IntervalHistory, Linked, LastIs

\* A call whose entry is about something else, and which leaves the intervals.
LEMMA IntervalOther ==
    ASSUME AllInv, FullInv', NEW o \in Operators, Closes(o),
           NEW e, audit' = Append(audit, e),
           e.field # "interval", Len(auth) <= Len(auth'),
           \A r \in 1..Len(auth) : auth'[r].interval = auth[r].interval \/ Activates(e, r)
    PROVE  IntervalInv'
<1>1. Len(auth') \in Nat /\ audit \in Seq(Entry) /\ audit' \in Seq(Entry)
  BY DEF AllInv, FullInv, IInv, TypesOK, LogInv, LogTypes
<1>2. e \in Entry
  <2>1. Len(audit') = Len(audit) + 1 /\ audit'[Len(audit) + 1] = e /\ Len(audit) \in Nat
    BY <1>1
  <2>2. Len(audit) + 1 \in 1..Len(audit')
    BY <2>1
  <2> QED
    BY <1>1, <2>1, <2>2
<1> QED
  BY <1>1, <1>2, IntervalEntry

LEMMA IntervalAdjust ==
    ASSUME AllInv, FullInv', NEW o \in Operators, FinishAdjust(o) PROVE IntervalInv'
<1> DEFINE w == tx[o].w
           r == w.row
           e == EntryOf(o, r, "interval", w.had, w.interval)
           row == [auth[r] EXCEPT !.interval = w.interval]
<1>1. /\ tx[o].op = "adjust" /\ r # 0 /\ w.interval \in Nat /\ FullInv /\ IntervalInv
  BY DEF FinishAdjust, AllInv, FullInv, IInv, TypesOK, OpenCallsOK, CallOK
<1>2. /\ r \in 1..Len(auth) /\ auth \in Seq(AuthRow) /\ Len(auth) \in Nat
      /\ auth[r] \in AuthRow /\ tx[o].seen \in Nat /\ w.had \in Nat
  BY <1>1, RowCallRead
<1>3. row.interval = w.interval
  BY <1>2 DEF AuthRow
<1>4. auth' = [auth EXCEPT ![r] = row]
  BY <1>2 DEF FinishAdjust, AuthRow
<1>5. /\ Len(auth') = Len(auth) /\ auth'[r].interval = w.interval
      /\ \A q \in 1..Len(auth) : q # r => auth'[q] = auth[q]
  <2> HIDE DEF r, row
  <2> QED
    BY <1>2, <1>3, <1>4
<1>6. /\ e \in Entry /\ e.field = "interval" /\ e.target = r
      /\ e.from = w.had /\ e.to = w.interval /\ e.seen = tx[o].seen
  BY <1>1, <1>2 DEF EntryOf, Entry, Value
<1>7. audit' = Append(audit, e) /\ Closes(o)
  BY DEF FinishAdjust, Audit, EntryOf, Closes
<1>8. \/ \E m \in Since(r) : tx[o].seen < m
      \/ LastIs(audit, Since(r), w.had)
  <2>1. IntervalHistory(r)
    BY <1>1, <1>2 DEF IntervalInv, Rows
  <2>2. \/ \E m \in Since(r) : tx[o].seen < m
        \/ Since(r) = {} \/ auth[r].interval = w.had
    BY <1>1 DEF IntervalInv, IntervalRead
  <2> QED
    BY <2>1, <2>2 DEF IntervalHistory, LastIs
<1> HIDE DEF e, r, row, w
<1>9. Len(auth') \in Nat /\ Len(auth) <= Len(auth')
  BY <1>2, <1>5
<1>10. \A q \in 1..Len(auth) :
           \/ e.field = "interval" /\ e.target = q /\ auth'[q].interval = e.to
           \/ /\ ~(e.field = "interval" /\ e.target = q)
              /\ auth'[q].interval = auth[q].interval
  BY <1>5, <1>6
<1>11. /\ e.target \in 1..Len(auth)
       /\ \/ \E m \in Since(e.target) : e.seen < m
          \/ LastIs(audit, Since(e.target), e.from)
  BY <1>2, <1>6, <1>8
<1> QED
  BY <1>6, <1>7, <1>9, <1>10, <1>11, IntervalEntry

LEMMA IntervalOperator ==
    ASSUME AllInv, FullInv', NEW o \in Operators, OperatorCall(o) PROVE IntervalInv'
<1>1. /\ auth \in Seq(AuthRow) /\ Len(auth) \in Nat /\ TypesOK /\ FullInv
      /\ tx = [p \in Operators |-> tx[p]]
  BY DEF AllInv, FullInv, IInv, TypesOK, OpenCallsOK
<1>2. ASSUME UNCHANGED <<audit, auth>>, NEW call, tx' = [tx EXCEPT ![o] = call],
             \/ call.op # "adjust"
             \/ /\ call.w.row \in 1..Len(auth)
                /\ call.w.had = auth[call.w.row].interval
      PROVE  IntervalInv'
  <2>1. \A p \in Operators : tx'[p] = tx[p] \/ tx'[p] = call
    BY <1>1, <1>2
  <2> QED
    BY <1>2, <2>1, IntervalQuiet
<1>3. ASSUME NEW l \in Leas, NEW i, NEW op \in {"authorize", "revoke", "adjust"},
             op = "adjust" => Live(l) # {},
             Begin(o, Call(op, l, i)), UNCHANGED <<audit, auth>>
      PROVE  IntervalInv'
  <2> DEFINE live == Live(l)
             r == IF live = {} THEN 0 ELSE CHOOSE q \in live : TRUE
             work == Call(op, l, i)
  <2>1. /\ work.op = op /\ work.row = r
        /\ work.had = IF r = 0 THEN 0 ELSE auth[r].interval
    BY Zenon DEF Call
  <2>2. live # {} => r \in live
    BY Zenon
  <2>3. live \subseteq 1..Len(auth)
    BY DEF Live, Rows
  <2>4. op = "adjust" => r \in 1..Len(auth)
    <3> HIDE DEF r
    <3> QED
      BY <1>3, <2>2, <2>3
  <2>5. op = "adjust" => work.had = auth[work.row].interval
    <3> HIDE DEF r, work
    <3>1. r \in 1..Len(auth) => r # 0
      BY <1>1
    <3> QED
      BY <2>1, <2>4, <3>1
  <2>6. tx' = [tx EXCEPT ![o] = [w |-> work, op |-> work.op, seen |-> Len(audit)]]
    BY <1>3 DEF Begin
  <2> HIDE DEF r, work
  <2> QED
    BY <1>2, <1>3, <2>1, <2>4, <2>5, <2>6
<1>4. ASSUME LeaAdminCall(o), UNCHANGED <<auth, partner, flips, drain>> PROVE IntervalInv'
  <2>1. ASSUME NEW l \in Leas, NEW n \in Names, NEW i \in Integrations \cup {NoLabel},
               BeginCreate(o, l, n, i)
        PROVE  IntervalInv'
    <3> DEFINE work == [op |-> "create", lea |-> l, name |-> n, integration |-> i]
               call == [w |-> work, op |-> work.op, seen |-> Len(audit)]
    <3>1. tx' = [tx EXCEPT ![o] = call] /\ call.op = "create"
      BY <2>1 DEF BeginCreate, Begin
    <3> HIDE DEF call
    <3> QED
      BY <1>2, <1>4, <2>1, <3>1 DEF BeginCreate
  <2>2. ASSUME NEW l \in Leas, NEW s \in LeaStatus, BeginTransition(o, l, s) PROVE IntervalInv'
    <3> DEFINE work == [op |-> "transition", lea |-> l, from |-> leas[l].status, to |-> s]
               call == [w |-> work, op |-> work.op, seen |-> Len(audit)]
    <3>1. tx' = [tx EXCEPT ![o] = call] /\ call.op = "transition"
      BY <2>2 DEF BeginTransition, Begin
    <3> HIDE DEF call
    <3> QED
      BY <1>2, <1>4, <2>2, <3>1 DEF BeginTransition
  <2>3. CASE FinishCreate(o)
    <3> DEFINE e == EntryOf(o, tx[o].w.lea, "lea_status", "absent", "onboarding")
    <3>1. audit' = Append(audit, e) /\ Closes(o) /\ e.field = "lea_status"
      BY <2>3 DEF FinishCreate, Audit, EntryOf, Closes
    <3> HIDE DEF e
    <3> QED
      BY <1>1, <1>4, <3>1, IntervalOther
  <2>4. CASE FinishTransition(o)
    <3> DEFINE e == EntryOf(o, tx[o].w.lea, "lea_status", tx[o].w.from, tx[o].w.to)
    <3>1. audit' = Append(audit, e) /\ Closes(o) /\ e.field = "lea_status"
      BY <2>4 DEF FinishTransition, Audit, EntryOf, Closes
    <3> HIDE DEF e
    <3> QED
      BY <1>1, <1>4, <3>1, IntervalOther
  <2>5. CASE Rollback(o)
    <3>1. tx' = [tx EXCEPT ![o] = Idle] /\ Idle.op # "adjust" /\ audit' = audit
      BY <2>5 DEF Rollback, Idle
    <3> HIDE DEF Idle
    <3> QED
      BY <1>2, <1>4, <3>1
  <2> QED
    BY <1>4, <2>1, <2>2, <2>3, <2>4, <2>5 DEF LeaAdminCall
<1>5. ASSUME NEW l \in Leas, NEW i \in Intervals, BeginAuthorize(o, l, i) PROVE IntervalInv'
  BY <1>3, <1>5 DEF BeginAuthorize
<1>6. ASSUME NEW l \in Leas, NEW i \in Intervals, BeginAdjust(o, l, i) PROVE IntervalInv'
  BY <1>3, <1>6 DEF BeginAdjust
<1>7. ASSUME NEW l \in Leas, BeginRevoke(o, l) PROVE IntervalInv'
  BY <1>3, <1>7 DEF BeginRevoke
<1>8. CASE AuthorizeNew(o)
  <2> DEFINE e == EntryOf(o, Len(auth) + 1, "status", "none", "active")
             new == NewRow(tx[o].w.lea, tx[o].w.interval)
  <2>1. audit' = Append(audit, e) /\ Closes(o) /\ e.field = "status"
    BY <1>8 DEF AuthorizeNew, Audit, EntryOf, Closes
  <2>2. auth' = Append(auth, new)
    BY <1>8 DEF AuthorizeNew
  <2> HIDE DEF e, new
  <2>3. /\ Len(auth') = Len(auth) + 1
        /\ \A r \in 1..Len(auth) : auth'[r] = auth[r]
    BY <1>1, <2>2
  <2>4. Len(auth) <= Len(auth')
    BY <1>1, <2>3
  <2> QED
    BY <2>1, <2>3, <2>4, IntervalOther
<1>9. CASE AuthorizePending(o)
  <2> DEFINE e == EntryOf(o, tx[o].w.row, "status", "pending", "active")
  <2>1. audit' = Append(audit, e) /\ Closes(o) /\ e.field = "status"
    BY <1>9 DEF AuthorizePending, Audit, EntryOf, Closes
  <2>2. /\ Len(auth') = Len(auth)
        /\ \A r \in 1..Len(auth) : r # tx[o].w.row => auth'[r] = auth[r]
    BY <1>1, <1>9 DEF AuthorizePending
  <2>3. Activates(e, tx[o].w.row)
    BY DEF Activates, EntryOf
  <2>4. Len(auth) <= Len(auth')
    BY <1>1, <2>2
  <2> HIDE DEF e
  <2> QED
    BY <2>1, <2>2, <2>3, <2>4, IntervalOther
<1>10. CASE AuthorizeAgain(o)
  <2> DEFINE e == EntryOf(o, tx[o].w.row, "status", tx[o].w.was, tx[o].w.was)
  <2>1. audit' = Append(audit, e) /\ Closes(o) /\ e.field = "status" /\ auth' = auth
    BY <1>10 DEF AuthorizeAgain, Audit, EntryOf, Closes
  <2> HIDE DEF e
  <2> QED
    BY <1>1, <2>1, IntervalOther
<1>11. CASE FinishRevoke(o)
  <2> DEFINE e == EntryOf(o, tx[o].w.row, "status", tx[o].w.was, "revoked")
  <2>1. audit' = Append(audit, e) /\ Closes(o) /\ e.field = "status"
    BY <1>11 DEF FinishRevoke, Audit, EntryOf, Closes
  <2>2. Len(auth') = Len(auth) /\ Len(auth) <= Len(auth')
    BY <1>1, <1>11 DEF FinishRevoke
  <2>3. \A r \in 1..Len(auth) : auth'[r].interval = auth[r].interval
    <3> TAKE r \in 1..Len(auth)
    <3>1. auth[r] \in AuthRow
      BY <1>1
    <3>2. [auth[r] EXCEPT !.status = "revoked", !.revoked = TRUE].interval
              = auth[r].interval
      BY <3>1 DEF AuthRow
    <3>3. \/ auth'[r] = auth[r]
          \/ auth'[r] = [auth[r] EXCEPT !.status = "revoked", !.revoked = TRUE]
      <4>1. auth' = [auth EXCEPT ![tx[o].w.row] =
                        [@ EXCEPT !.status = "revoked", !.revoked = TRUE]]
        BY <1>1, <1>11 DEF FinishRevoke
      <4>2. r \in DOMAIN auth
        BY <1>1
      <4> QED
        BY <4>1, <4>2, Zenon
    <3> QED
      BY <3>2, <3>3
  <2> HIDE DEF e
  <2> QED
    BY <2>1, <2>2, <2>3, IntervalOther
<1>12. CASE FinishAdjust(o)
  BY <1>12, IntervalAdjust
<1> QED
  BY <1>4, <1>5, <1>6, <1>7, <1>8, <1>9, <1>10, <1>11, <1>12 DEF OperatorCall

LEMMA IntervalWorker ==
    ASSUME AllInv,
           \/ DrainStep
           \/ \E l \in Leas, s \in PartnerStatuses : PartnerChanges(l, s)
    PROVE  IntervalInv'
<1>1. auth \in Seq(AuthRow) /\ Len(auth) \in Nat
  BY DEF AllInv, FullInv, IInv, TypesOK
<1>2. ASSUME UNCHANGED <<audit, tx, auth>> PROVE IntervalInv'
  BY <1>2, IntervalQuiet
<1>3. CASE StoreAnswer
  <2>1. audit' = audit /\ tx' = tx /\ Len(auth') = Len(auth)
    BY <1>1, <1>3 DEF StoreAnswer, Rows
  <2>2. \A r \in 1..Len(auth) : auth'[r].interval = auth[r].interval
    <3> TAKE r \in 1..Len(auth)
    <3>1. auth[r] \in AuthRow
      BY <1>1
    <3>2. [auth[r] EXCEPT !.integration = drain.answer].interval = auth[r].interval
      BY <3>1 DEF AuthRow
    <3>3. auth'[r] \in {auth[r], [auth[r] EXCEPT !.integration = drain.answer]}
      BY <1>3 DEF StoreAnswer, Rows
    <3> QED
      BY <3>2, <3>3
  <2> QED
    BY <2>1, <2>2, IntervalQuiet
<1>4. ASSUME NEW l \in Leas, StartDrain(l) PROVE IntervalInv'
  BY <1>2, <1>4 DEF StartDrain
<1>5. CASE FetchPage
  BY <1>2, <1>5 DEF FetchPage
<1>6. CASE DrainFails
  BY <1>2, <1>6 DEF DrainFails
<1>7. ASSUME NEW l \in Leas, NEW s \in PartnerStatuses, PartnerChanges(l, s)
      PROVE  IntervalInv'
  BY <1>2, <1>7 DEF PartnerChanges
<1> QED
  BY <1>3, <1>4, <1>5, <1>6, <1>7 DEF DrainStep

LEMMA StepAll == AllInv /\ [ConnectorNext]_connectorVars => AllInv'
<1> SUFFICES ASSUME AllInv, [ConnectorNext]_connectorVars PROVE IntervalInv'
  BY StepLog DEF AllInv
<1>1. FullInv'
  BY StepLog DEF AllInv
<1>2. CASE UNCHANGED connectorVars
  BY <1>2, IntervalQuiet DEF connectorVars
<1>3. CASE ConnectorNext
  BY <1>1, <1>3, IntervalOperator, IntervalWorker DEF ConnectorNext
<1> QED
  BY <1>2, <1>3

LEMMA TrailNames ==
    /\ \A l : TrailOf(l, "lea_status") = LeaLog(l)
    /\ \A r : TrailOf(r, "status") = RowLog(r)
    /\ \A r : IntervalTrail(r) = Since(r)
    /\ \A n, m : Overlapped(n, m) <=> LateIn(audit, n, m)
BY DEF TrailOf, LeaLog, RowLog, TrailIn, Overlapped, LateIn, IntervalTrail, Activations,
       Since

\* The audit log tells what happened to every LEA and every authorization,
\* its status and its poll interval: only calls that overlapped break the
\* chain of LeaAdminService's and ConnectorAuthorizationService's audit rows,
\* and the one of the interval begins anew when a pending row is activated.
THEOREM AuditCorrect == ConnectorSpec => []AuditTrailFaithful
<1>1. AllInv => AuditTrailFaithful
  <2> SUFFICES ASSUME LogInv, IntervalInv PROVE AuditTrailFaithful
    BY DEF AllInv, FullInv
  <2>1. LeaTrails
    <3> SUFFICES ASSUME NEW l \in Leas PROVE Chained(TrailOf(l, "lea_status"), leas[l].status)
      BY DEF LeaTrails
    <3>1. Linked(audit, LeaLog(l)) /\ LastIs(audit, LeaLog(l), leas[l].status)
      BY DEF LogInv, LeaHistory
    <3>2. EndsAt(audit, LeaLog(l), leas[l].status)
      BY <3>1 DEF EndsAt, LastIs
    <3> QED
      BY <3>1, <3>2, ChainedMeans, TrailNames
  <2>2. ASSUME NEW r \in Rows PROVE Chained(TrailOf(r, "status"), auth[r].status)
    BY ChainedMeans, TrailNames DEF LogInv, RowHistory
  <2>3. ASSUME NEW r \in Rows PROVE Chained(IntervalTrail(r), auth[r].interval)
    <3>1. Linked(audit, Since(r)) /\ LastIs(audit, Since(r), auth[r].interval)
      BY DEF IntervalInv, IntervalHistory
    <3>2. EndsAt(audit, Since(r), auth[r].interval)
      BY <3>1 DEF EndsAt, LastIs
    <3> QED
      BY <3>1, <3>2, ChainedMeans, TrailNames
  <2>4. ASSUME NEW r \in Rows, auth[r].revoked, auth[r].status # "revoked"
        PROVE  \E m \in TrailOf(r, "status"), n \in Activations(r) :
                   audit[m].to = "revoked" /\ Overlapped(n, m)
    <3>1. PICK m \in RowLog(r), n \in RowLog(r) :
              /\ audit[m].to = "revoked" /\ LateIn(audit, n, m)
              /\ audit[n].from = "pending" /\ audit[n].to = "active"
      BY <2>4 DEF LogInv, RowHistory
    <3> QED
      BY <3>1, TrailNames DEF Activations
  <2> QED
    BY <2>1, <2>2, <2>3, <2>4 DEF AuditTrailFaithful
<1>2. ConnectorInit => AllInv
  BY InitInv, InitLog, IntervalInit DEF FullInv, AllInv
<1> QED
  BY <1>1, <1>2, StepAll, PTL DEF ConnectorSpec

\* Two LEAs share an integration id never, and a name only when the two
\* LeaAdminService.create calls overlapped.
THEOREM LabelsCorrect == ConnectorSpec => []LabelsClashOnlyOnOverlap
<1>1. LogInv => LabelsClashOnlyOnOverlap
  BY TrailNames DEF LogInv, Labels, LabelsClashOnlyOnOverlap
<1>2. ConnectorInit => FullInv
  BY InitInv, InitLog DEF FullInv
<1>3. FullInv => LogInv
  BY DEF FullInv
<1> QED
  BY <1>1, <1>2, <1>3, StepLog, PTL DEF ConnectorSpec

=============================================================================
