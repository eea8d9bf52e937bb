------------------------ MODULE SqliteStore_proofs ------------------------
(***************************************************************************)
(* Proofs about SqliteStore, for every set of paths, transactions, calls   *)
(* and requests: type correctness, the connection discipline, and what the *)
(* OCC check of CommitTransaction guarantees.  At the end, that it         *)
(* implements AtomicStore: the statements of a SQL transaction are         *)
(* stutters, its COMMIT is the step of the whole request.                  *)
(***************************************************************************)
EXTENDS SqliteRefinement, DocTable_proofs

-----------------------------------------------------------------------------
(***************************************************************************)
(* Type correctness.                                                       *)
(***************************************************************************)

\* The fields a call has in each of its states.
LEMMA CallFields ==
  ASSUME TypeOK, NEW c \in Calls
  PROVE  /\ At(c, "write") => calls[c].w \in Writes
         /\ At(c, "record") => /\ calls[c].tx \in TxIds
                               /\ calls[c].path \in Paths
                               /\ calls[c].row \in Row
         /\ At(c, "commit") => /\ calls[c].tx \in TxIds
                               /\ calls[c].reads \in Table
                               /\ calls[c].ops \in Seq(Writes)
         /\ At(c, "applying") => /\ calls[c].tx \in TxIds
                                 /\ calls[c].reads \in Table
                                 /\ calls[c].todo \in Seq(Writes)
                                 /\ calls[c].out \in Seq(Events)
         /\ At(c, "batch") => calls[c].todo \in Seq(Writes)
         /\ At(c, "notify") => calls[c].out \in Seq(Events) \ {<<>>}
<1>1. calls[c] \in CallState
  BY DEF TypeOK
<1> QED BY <1>1 DEF CallState, Idle, At

\* A call goes to a state of the right shape, and the others stay.
LEMMA GotoType ==
  ASSUME TypeOK, NEW c \in Calls, NEW state \in CallState, Goto(c, state)
  PROVE  calls' \in [Calls -> CallState]
BY DEF TypeOK, Goto

\* The states the actions leave a call in have the right shape.
LEMMA StateShapes ==
  /\ Idle \in CallState
  /\ \A w \in Writes : [at |-> "write", w |-> w] \in CallState
  /\ \A t \in TxIds, p \in Paths, r \in Row :
       [at |-> "record", tx |-> t, path |-> p, row |-> r] \in CallState
  /\ \A t \in TxIds, rs \in Table, ops \in Seq(Writes) :
       [at |-> "commit", tx |-> t, reads |-> rs, ops |-> ops] \in CallState
  /\ \A t \in TxIds, rs \in Table, ops \in Seq(Writes), out \in Seq(Events) :
       [at |-> "applying", tx |-> t, reads |-> rs, todo |-> ops, out |-> out]
         \in CallState
  /\ \A ws \in Seq(Writes) : [at |-> "batch", todo |-> ws] \in CallState
  /\ \A out \in Seq(Events) : Announcing(out) \in CallState
BY DEF CallState, Announcing

\* An event pushed into the channel leaves a sequence of events.
LEMMA PushedType ==
  ASSUME TypeOK, NEW e \in Events
  PROVE  Pushed(e) \in Seq(Events)
BY DEF TypeOK, Pushed

\* An empty database with no call in flight is well-typed.
LEMMA InitType == Init => TypeOK
BY NoRowType DEF Init, TypeOK, Table, TxRow, Unused, NoReads, CallState

\* Every statement of the adapter and every step of a handler keeps the types.
LEMMA TypeStep == TypeOK /\ [Next]_vars => TypeOK'
<1> SUFFICES ASSUME TypeOK, [Next]_vars
             PROVE  TypeOK'
  OBVIOUS
<1> USE StateShapes
<1>1. ASSUME NEW c \in Calls, NEW w \in RpcWrites, RpcWrite(c, w)
      PROVE  TypeOK'
  <2>1. w \in Writes
    BY ConstantsAssumption
  <2>2. calls' \in [Calls -> CallState]
    BY <1>1, <2>1, GotoType DEF RpcWrite
  <2> QED BY <1>1, <2>2 DEF RpcWrite, TypeOK, dbVars, histVars
<1>2. ASSUME NEW c \in Calls, NEW w \in RpcWrites, RpcMaskedWrite(c, w)
      PROVE  TypeOK'
  <2>1. w \in Writes
    BY ConstantsAssumption
  <2>2. [w EXCEPT !.kind = "update"] \in Writes
    BY <1>2, <2>1 DEF RpcMaskedWrite, Writes, PlainKinds
  <2>3. calls' \in [Calls -> CallState]
    BY <1>2, <2>1, <2>2, GotoType DEF RpcMaskedWrite
  <2> QED BY <1>2, <2>3 DEF RpcMaskedWrite, TypeOK, dbVars, histVars
<1>3. ASSUME NEW c \in Calls, PlainWrite(c)
      PROVE  TypeOK'
  <2> DEFINE w == calls[c].w
  <2>1. w \in Writes
    BY <1>3, CallFields DEF PlainWrite
  <2>2. NextStamp(w) \in Nat
    BY DEF TypeOK, NextStamp
  <2>3. Apply(db, w, NextStamp(w)) \in Table
    BY <2>1, <2>2, ApplyDescends DEF TypeOK
  <2>4. Announcing(<<EventOf(w)>>) \in CallState
    <3>1. <<EventOf(w)>> \in Seq(Events)
      BY <2>1, EventType
    <3> QED BY <3>1
  <2>5. calls' \in [Calls -> CallState]
    BY <1>3, <2>4, GotoType DEF PlainWrite
  <2>6. db' \in Table /\ work' \in Table /\ stamps' \in Nat
    BY <1>3, <2>2, <2>3 DEF PlainWrite, TypeOK
  <2> QED BY <1>3, <2>5, <2>6 DEF PlainWrite, TypeOK, histVars
<1>4. ASSUME NEW c \in Calls, Notify(c)
      PROVE  TypeOK'
  <2>1. calls[c].out \in Seq(Events) /\ calls[c].out # <<>>
    BY <1>4, CallFields DEF Notify
  <2>2. Head(calls[c].out) \in Events /\ Tail(calls[c].out) \in Seq(Events)
    BY <2>1
  <2>3. hub' \in Seq(Events)
    BY <1>4, <2>2, PushedType DEF Notify
  <2>4. calls' \in [Calls -> CallState]
    BY <1>4, <2>2, GotoType DEF Notify
  <2> QED BY <1>4, <2>3, <2>4 DEF Notify, TypeOK, dbVars, histVars
<1>5. ASSUME NEW c \in Calls, NEW ws \in Batches, BatchBegin(c, ws)
      PROVE  TypeOK'
  <2>1. ws \in Seq(Writes)
    BY ConstantsAssumption
  <2>2. calls' \in [Calls -> CallState]
    BY <1>5, <2>1, GotoType DEF BatchBegin
  <2> QED BY <1>5, <2>2 DEF BatchBegin, TypeOK, histVars
<1>6. ASSUME NEW c \in Calls, BatchWrite(c)
      PROVE  TypeOK'
  <2> DEFINE w == Head(calls[c].todo)
  <2>1. w \in Writes /\ Tail(calls[c].todo) \in Seq(Writes)
    BY <1>6, CallFields DEF BatchWrite
  <2>2. NextStamp(w) \in Nat
    BY DEF TypeOK, NextStamp
  <2>3. Apply(work, w, NextStamp(w)) \in Table
    BY <2>1, <2>2, ApplyDescends DEF TypeOK
  <2>4. Pushed(EventOf(w)) \in Seq(Events)
    BY <2>1, EventType, PushedType
  <2>5. calls' \in [Calls -> CallState]
    BY <1>6, <2>1, GotoType DEF BatchWrite
  <2>6. work' \in Table /\ stamps' \in Nat /\ hub' \in Seq(Events)
    BY <1>6, <2>2, <2>3, <2>4 DEF BatchWrite, TypeOK
  <2> QED BY <1>6, <2>5, <2>6 DEF BatchWrite, TypeOK, histVars
<1>7. ASSUME ReleaseUndone
      PROVE  /\ db' \in Table /\ work' \in Table
             /\ conn' \in Calls \cup {None} /\ undone' \subseteq Nat
  <2>1. Uncommitted \subseteq Nat
    BY DEF TypeOK, Uncommitted, Table, Row
  <2> QED BY <1>7, <2>1 DEF ReleaseUndone, TypeOK
<1>8. ASSUME NEW c \in Calls, BatchFail(c)
      PROVE  TypeOK'
  <2>1. calls' \in [Calls -> CallState]
    BY <1>8, GotoType DEF BatchFail
  <2> QED BY <1>7, <1>8, <2>1 DEF BatchFail, TypeOK
<1>9. ASSUME NEW c \in Calls, BatchCommit(c)
      PROVE  TypeOK'
  <2>1. calls' \in [Calls -> CallState]
    BY <1>9, GotoType DEF BatchCommit
  <2> QED BY <1>9, <2>1 DEF BatchCommit, TypeOK, histVars
<1>10. ASSUME NEW t \in TxIds, TxStep(t)
       PROVE  TypeOK'
  <2>1. txs[t] \in TxRow
    BY DEF TypeOK
  <2>2. \A b \in BOOLEAN : /\ [txs[t] EXCEPT !.used = b] \in TxRow
                           /\ [txs[t] EXCEPT !.row = b] \in TxRow
                           /\ [txs[t] EXCEPT !.expired = b] \in TxRow
                           /\ [txs[t] EXCEPT !.used = b, !.row = b] \in TxRow
    BY <2>1 DEF TxRow
  <2>3. txs' \in [TxIds -> TxRow]
    BY <1>10, <2>2 DEF TxStep, BeginTransaction, RollbackTransaction, Expire,
                       TypeOK
  <2> QED BY <1>10, <2>3 DEF TxStep, BeginTransaction, RollbackTransaction,
                             Expire, TypeOK, dbVars, histVars
<1>11. ASSUME NEW c \in Calls, NEW t \in TxIds, NEW p \in Paths,
              TxRead(c, t, p)
       PROVE  TypeOK'
  <2>1. db[p] \in Row
    BY DEF TypeOK, Table
  <2>2. [at |-> "record", tx |-> t, path |-> p, row |-> db[p]] \in CallState
    BY <2>1
  <2>3. calls' \in [Calls -> CallState]
    BY <1>11, <2>2, GotoType DEF TxRead, TypeOK
  <2>4. shown' \in [TxIds -> SUBSET (Paths \X Row)]
    <3>1. shown[t] \cup {<<p, db[p]>>} \in SUBSET (Paths \X Row)
      BY <2>1 DEF TypeOK
    <3> QED BY <1>11, <3>1 DEF TxRead, TypeOK
  <2> QED BY <1>11, <2>3, <2>4 DEF TxRead, TypeOK, dbVars
<1>12. ASSUME NEW c \in Calls, TxRecord(c)
       PROVE  TypeOK'
  <2> DEFINE t == calls[c].tx  p == calls[c].path  r == calls[c].row
  <2>1. t \in TxIds /\ p \in Paths /\ r \in Row
    BY <1>12, CallFields DEF TxRecord
  <2>2. txs[t] \in TxRow /\ Record(txs[t], p, r) \subseteq TxRow
    <3>1. txs[t] \in TxRow
      BY <2>1 DEF TypeOK
    <3>2. [txs[t].reads EXCEPT ![p] = r] \in Table
      BY <2>1, <3>1 DEF TxRow, Table
    <3>3. /\ [txs[t] EXCEPT !.decodes = FALSE] \in TxRow
          /\ [txs[t] EXCEPT !.reads = [txs[t].reads EXCEPT ![p] = r]] \in TxRow
      BY <3>1, <3>2 DEF TxRow
    <3>4. [txs[t] EXCEPT !.reads[p] = r]
            = [txs[t] EXCEPT !.reads = [txs[t].reads EXCEPT ![p] = r]]
      BY <3>1 DEF TxRow
    <3> QED BY <3>1, <3>3, <3>4 DEF Record
  <2>3. txs' \in [TxIds -> TxRow]
    BY <1>12, <2>1, <2>2 DEF TxRecord, TypeOK
  <2>4. shown' \in [TxIds -> SUBSET (Paths \X Row)]
    <3>1. shown[t] \cup {<<p, r>>} \in SUBSET (Paths \X Row)
      BY <2>1 DEF TypeOK
    <3> QED BY <1>12, <2>1, <3>1 DEF TxRecord, TypeOK
  <2>5. calls' \in [Calls -> CallState]
    BY <1>12, GotoType DEF TxRecord
  <2> QED BY <1>12, <2>3, <2>4, <2>5 DEF TxRecord, TypeOK, dbVars
<1>13. ASSUME NEW c \in Calls, NEW t \in TxIds, NEW ops \in TxOps,
              CommitLoad(c, t, ops)
       PROVE  TypeOK'
  <2>1. ops \in Seq(Writes)
    BY ConstantsAssumption
  <2>2. txs[t].reads \in Table
    BY DEF TypeOK, TxRow
  <2>3. calls' \in [Calls -> CallState]
    BY <1>13, <2>1, <2>2, GotoType DEF CommitLoad
  <2> QED BY <1>13, <2>3 DEF CommitLoad, TypeOK, dbVars, histVars
<1>14. ASSUME NEW c \in Calls, CommitBegin(c)
       PROVE  TypeOK'
  <2>1. /\ calls[c].tx \in TxIds /\ calls[c].reads \in Table
        /\ calls[c].ops \in Seq(Writes) /\ <<>> \in Seq(Events)
    BY <1>14, CallFields DEF CommitBegin
  <2>2. calls' \in [Calls -> CallState]
    BY <1>14, <2>1, GotoType DEF CommitBegin
  <2> QED BY <1>14, <2>2 DEF CommitBegin, TypeOK, histVars
<1>15. ASSUME NEW c \in Calls, CommitWrite(c)
       PROVE  TypeOK'
  <2> DEFINE w == Head(calls[c].todo)
  <2>0. /\ calls[c].tx \in TxIds /\ calls[c].reads \in Table
        /\ calls[c].todo \in Seq(Writes) /\ calls[c].out \in Seq(Events)
        /\ calls[c].todo # <<>>
    BY <1>15, CallFields DEF CommitWrite
  <2>1. w \in Writes /\ Tail(calls[c].todo) \in Seq(Writes)
    BY <2>0
  <2>2. NextStamp(w) \in Nat
    BY DEF TypeOK, NextStamp
  <2>3. Apply(work, w, NextStamp(w)) \in Table
    BY <2>1, <2>2, ApplyDescends DEF TypeOK
  <2>4. Append(calls[c].out, EventOf(w)) \in Seq(Events)
    BY <2>0, <2>1, EventType
  <2>5. [calls[c] EXCEPT !.todo = Tail(@), !.out = Append(@, EventOf(w))]
          \in CallState
    <3>1. calls[c] \in [at : {"applying"}, tx : TxIds, reads : Table,
                        todo : Seq(Writes), out : Seq(Events)]
      BY <1>15 DEF CommitWrite, At, TypeOK, CallState, Idle
    <3>2. [calls[c] EXCEPT !.todo = Tail(@), !.out = Append(@, EventOf(w))]
            \in [at : {"applying"}, tx : TxIds, reads : Table,
                 todo : Seq(Writes), out : Seq(Events)]
      BY <2>1, <2>4, <3>1
    <3> QED BY <3>2 DEF CallState
  <2>6. calls' \in [Calls -> CallState]
    BY <1>15, <2>5, GotoType DEF CommitWrite
  <2>7. work' \in Table /\ stamps' \in Nat
    BY <1>15, <2>2, <2>3 DEF CommitWrite, TypeOK
  <2> QED BY <1>15, <2>6, <2>7 DEF CommitWrite, TypeOK, histVars
<1>16. ASSUME NEW c \in Calls, CommitFinish(c)
       PROVE  TypeOK'
  <2>1. calls[c].tx \in TxIds /\ calls[c].out \in Seq(Events)
    BY <1>16, CallFields DEF CommitFinish
  <2>2. calls' \in [Calls -> CallState]
    BY <1>16, <2>1, GotoType DEF CommitFinish
  <2>3. txs' \in [TxIds -> TxRow]
    BY <1>16, <2>1 DEF CommitFinish, TypeOK, TxRow
  <2>4. wrote' \in [TxIds -> [Paths -> Nat]]
    BY <1>16, <2>1 DEF CommitFinish, TypeOK
  <2> QED BY <1>16, <2>2, <2>3, <2>4 DEF CommitFinish, TypeOK
<1>17. ASSUME SweepExpiredTransactions
       PROVE  TypeOK'
  BY <1>17 DEF SweepExpiredTransactions, TypeOK, TxRow, dbVars, histVars
<1>18. ASSUME NEW c \in Calls, CancelCall(c)
       PROVE  TypeOK'
  <2>1. calls' \in [Calls -> CallState]
    BY <1>18, GotoType DEF CancelCall
  <2> QED BY <1>7, <1>18, <2>1 DEF CancelCall, TypeOK, dbVars
<1>19. CASE UNCHANGED vars
  BY <1>19 DEF vars, TypeOK
<1>20. ASSUME TakeChange
       PROVE  TypeOK'
  BY <1>20 DEF TakeChange, TypeOK, dbVars, histVars
<1> QED
  BY <1>1, <1>2, <1>3, <1>4, <1>5, <1>6, <1>8, <1>9, <1>10, <1>11, <1>12,
     <1>13, <1>14, <1>15, <1>16, <1>17, <1>18, <1>19, <1>20
  DEF Next, StoreNext, CallStep, ClientStep

(***************************************************************************)
(* SqliteStore's variables always have their types, for every instance.    *)
(***************************************************************************)
THEOREM TypeCorrect == Spec => []TypeOK
BY InitType, TypeStep, PTL DEF Spec

-----------------------------------------------------------------------------
(***************************************************************************)
(* The connection.                                                         *)
(***************************************************************************)
\* No step of a handler parts the connection from the call that opened the
\* SQL transaction, nor leaves uncommitted rows behind when it is released.
LEMMA ConnectionStep ==
  TypeOK /\ NoLeakedConnection /\ [Next]_vars => NoLeakedConnection'
<1> SUFFICES ASSUME TypeOK, NoLeakedConnection, [Next]_vars
             PROVE  NoLeakedConnection'
  OBVIOUS
<1> DEFINE Holding(state) == state.at \in {"batch", "applying"}
<1>1. ASSUME NEW c \in Calls, NEW state, Goto(c, state),
             ~Holding(calls[c]), ~Holding(state), UNCHANGED <<conn, db, work>>
      PROVE  NoLeakedConnection'
  BY <1>1 DEF Goto, NoLeakedConnection, TypeOK
<1>2. ASSUME NEW c \in Calls, NEW state, Goto(c, state), conn = None,
             ~Holding(calls[c]), Holding(state), conn' = c
      PROVE  NoLeakedConnection'
  BY <1>2, ConstantsAssumption DEF Goto, NoLeakedConnection, TypeOK
<1>3. ASSUME NEW c \in Calls, NEW state, Goto(c, state),
             Holding(calls[c]), ~Holding(state), conn' = None, work' = db'
      PROVE  NoLeakedConnection'
  BY <1>3, ConstantsAssumption DEF Goto, NoLeakedConnection, TypeOK
<1>4. ASSUME NEW c \in Calls, NEW state, Goto(c, state),
             Holding(calls[c]), Holding(state), UNCHANGED conn
      PROVE  NoLeakedConnection'
  BY <1>4, ConstantsAssumption DEF Goto, NoLeakedConnection, TypeOK
<1>5. ~Holding(Idle) /\ \A out : ~Holding(Announcing(out))
  BY DEF Idle, Announcing
<1>6. ASSUME NEW c \in Calls, CallStep(c)
      PROVE  NoLeakedConnection'
  <2>1. CASE PlainWrite(c)
    <3>1. CASE db' = db /\ work' = work
      BY <1>1, <1>5, <2>1, <3>1 DEF PlainWrite, At
    <3>2. CASE work' = db'
      BY <1>5, <2>1, <3>2 DEF PlainWrite, At, Goto, NoLeakedConnection, TypeOK
    <3> QED BY <2>1, <3>1, <3>2 DEF PlainWrite
  <2>2. CASE Notify(c)
    BY <1>1, <1>5, <2>2 DEF Notify, At, dbVars
  <2>3. CASE BatchWrite(c)
    BY <1>4, <2>3 DEF BatchWrite, At
  <2>4. CASE BatchFail(c)
    BY <1>3, <1>5, <2>4 DEF BatchFail, At, ReleaseUndone
  <2>5. CASE BatchCommit(c)
    BY <1>3, <1>5, <2>5 DEF BatchCommit, At
  <2>6. CASE TxRecord(c)
    BY <1>1, <1>5, <2>6 DEF TxRecord, At, dbVars
  <2>7. CASE CommitBegin(c)
    BY <1>1, <1>2, <1>5, <2>7 DEF CommitBegin, At
  <2>8. CASE CommitWrite(c)
    <3>1. calls[c] \in [at : {"applying"}, tx : TxIds, reads : Table,
                        todo : Seq(Writes), out : Seq(Events)]
      BY <2>8 DEF CommitWrite, At, TypeOK, CallState, Idle
    <3>2. \A x, y : Holding([calls[c] EXCEPT !.todo = x, !.out = y])
      BY <3>1
    <3> QED BY <1>4, <2>8, <3>2 DEF CommitWrite, At
  <2>9. CASE CommitFinish(c)
    BY <1>3, <1>5, <2>9 DEF CommitFinish, At
  <2> QED BY <1>6, <2>1, <2>2, <2>3, <2>4, <2>5, <2>6, <2>7, <2>8, <2>9
          DEF CallStep
<1>7. ASSUME NEW c \in Calls, ClientStep(c)
      PROVE  NoLeakedConnection'
  <2>1. ASSUME NEW w \in RpcWrites, RpcWrite(c, w) \/ RpcMaskedWrite(c, w)
        PROVE  NoLeakedConnection'
    BY <1>1, <2>1 DEF RpcWrite, RpcMaskedWrite, At, dbVars
  <2>2. ASSUME NEW ws \in Batches, BatchBegin(c, ws)
        PROVE  NoLeakedConnection'
    BY <1>2, <2>2 DEF BatchBegin, At
  <2>3. ASSUME NEW t \in TxIds, NEW p \in Paths, TxRead(c, t, p)
        PROVE  NoLeakedConnection'
    <3>1. CASE UNCHANGED calls
      BY <2>3, <3>1 DEF TxRead, dbVars, NoLeakedConnection
    <3>2. CASE Goto(c, [at |-> "record", tx |-> t, path |-> p, row |-> db[p]])
      BY <1>1, <2>3, <3>2 DEF TxRead, At, dbVars
    <3> QED BY <2>3, <3>1, <3>2 DEF TxRead
  <2>4. ASSUME NEW t \in TxIds, NEW ops \in TxOps, CommitLoad(c, t, ops)
        PROVE  NoLeakedConnection'
    BY <1>1, <2>4 DEF CommitLoad, At, dbVars
  <2>5. CASE CancelCall(c)
    <3>1. CASE conn = c
      BY <1>3, <1>5, <2>5, <3>1 DEF CancelCall, ReleaseUndone, NoLeakedConnection
    <3>2. CASE conn # c
      BY <1>1, <1>5, <2>5, <3>2 DEF CancelCall, dbVars, NoLeakedConnection
    <3> QED BY <3>1, <3>2
  <2> QED BY <1>7, <2>1, <2>2, <2>3, <2>4, <2>5 DEF ClientStep
<1>8. CASE \/ \E t \in TxIds : TxStep(t)
           \/ SweepExpiredTransactions
           \/ TakeChange
           \/ UNCHANGED vars
  BY <1>8 DEF TxStep, BeginTransaction, RollbackTransaction, Expire, TakeChange,
              SweepExpiredTransactions, dbVars, vars, NoLeakedConnection
<1> QED BY <1>6, <1>7, <1>8 DEF Next, StoreNext

-----------------------------------------------------------------------------
(***************************************************************************)
(* Remembered rows stay ancestors of the committed ones.                   *)
(***************************************************************************)

\* No step takes a committed row back.
Grows == \A p \in Paths : Descends(db[p], db'[p])

\* A read set that is old stays old when rows only move on.
LEMMA ReadsKept ==
  ASSUME TypeOK, TypeOK', Grows,
         NEW rs \in Table, NEW t \in TxIds, wrote'[t] = wrote[t]
  PROVE  /\ Older(rs) => \A p \in Paths :
              Recorded(rs, p) => Descends(rs[p], db'[p])
         /\ Overwritten(rs, t) => \A p \in Paths :
              Recorded(rs, p) /\ wrote'[t][p] > 0 => Before(rs[p], db'[p])
<1>1. \A p \in Paths : rs[p] \in Row /\ db[p] \in Row /\ db'[p] \in Row
  BY DEF TypeOK, Table
<1>2. \A p \in Paths : Descends(rs[p], db[p]) => Descends(rs[p], db'[p])
  BY <1>1, DescendsTrans DEF Grows
<1>3. \A p \in Paths : Before(rs[p], db[p]) => Before(rs[p], db'[p])
  BY <1>1, BeforeDescends DEF Grows
<1> QED BY <1>2, <1>3 DEF Older, Overwritten

\* A transaction whose row does not change stays old.
LEMMA TxKept ==
  ASSUME StoreInv, TypeOK', Grows, NEW t \in TxIds,
         wrote'[t] = wrote[t], txs'[t].reads = txs[t].reads,
         txs[t].used => txs'[t].used,
         txs'[t].row => txs'[t].used,
         txs'[t].row => txs[t].row \/ \A p \in Paths : wrote[t][p] = 0
  PROVE  TxOld(t)'
<1>1. txs[t].reads \in Table /\ TxOld(t) /\ wrote[t] \in [Paths -> Nat]
  BY DEF StoreInv, TypeOK, TxRow
<1>2. Older(txs[t].reads)' /\ Overwritten(txs[t].reads, t)'
  BY <1>1, ReadsKept DEF StoreInv, TxOld, Older, Overwritten, Recorded
<1>3. \A p \in Paths : wrote'[t][p] > 0 => txs'[t].used /\ ~txs'[t].row
  BY <1>1 DEF TxOld
<1> QED BY <1>2, <1>3 DEF TxOld

\* A call that does not move stays old; one that is applying needs db still.
LEMMA CallKept ==
  ASSUME StoreInv, TypeOK', Grows, NEW c \in Calls, calls'[c] = calls[c],
         UNCHANGED wrote, \A t \in TxIds : txs[t].used => txs'[t].used,
         At(c, "applying") => db' = db
  PROVE  CallOld(c)'
<1>1. CallOld(c)
  BY DEF StoreInv
<1>2. At(c, "record") => /\ txs'[calls[c].tx].used
                         /\ Descends(calls[c].row, db'[calls[c].path])
  <2> SUFFICES ASSUME At(c, "record")
               PROVE  /\ txs'[calls[c].tx].used
                      /\ Descends(calls[c].row, db'[calls[c].path])
    OBVIOUS
  <2>1. calls[c].tx \in TxIds /\ calls[c].path \in Paths /\ calls[c].row \in Row
    BY CallFields DEF StoreInv
  <2>2. db[calls[c].path] \in Row /\ db'[calls[c].path] \in Row
    BY <2>1 DEF StoreInv, TypeOK, Table
  <2> QED BY <1>1, <2>1, <2>2, DescendsTrans DEF CallOld, Grows
<1>3. calls[c].at \in {"commit", "applying"} =>
        /\ txs'[calls[c].tx].used
        /\ Older(calls[c].reads)'
        /\ Overwritten(calls[c].reads, calls[c].tx)'
  <2> SUFFICES ASSUME calls[c].at \in {"commit", "applying"}
               PROVE  /\ txs'[calls[c].tx].used
                      /\ Older(calls[c].reads)'
                      /\ Overwritten(calls[c].reads, calls[c].tx)'
    OBVIOUS
  <2>1. calls[c].tx \in TxIds /\ calls[c].reads \in Table
    BY CallFields DEF StoreInv, At
  <2> QED BY <1>1, <2>1, ReadsKept
          DEF StoreInv, CallOld, Older, Overwritten, Recorded
<1>4. At(c, "applying") => OccCheck(calls[c].reads)'
  BY <1>1 DEF CallOld, OccCheck, Recorded
<1> QED BY <1>2, <1>3, <1>4 DEF CallOld, At

\* Nothing has been read or written yet, so everything remembered is old.
LEMMA InitInv == Init => StoreInv
<1> SUFFICES ASSUME Init PROVE StoreInv
  OBVIOUS
<1>1. TypeOK
  BY InitType
<1>2. NoLeakedConnection
  BY ConstantsAssumption DEF Init, NoLeakedConnection, Idle
<1>3. WorkDescends
  BY <1>1, DescendsRefl DEF Init, WorkDescends, TypeOK, Table
<1>4. ASSUME NEW t \in TxIds PROVE TxOld(t)
  BY DEF Init, TxOld, Older, Overwritten, Recorded, Unused, NoReads, NoRow
<1>5. ASSUME NEW c \in Calls PROVE CallOld(c)
  BY DEF Init, CallOld, Idle, At
<1> QED BY <1>1, <1>2, <1>3, <1>4, <1>5 DEF StoreInv

\* The rows of a table that did not change descend from themselves.
LEMMA GrowsRefl == TypeOK /\ UNCHANGED db => Grows
BY DescendsRefl DEF TypeOK, Table, Grows

\* A step of one call that leaves documents and read sets alone keeps every
\* other call, and the call itself if its new state remembers no row.
LEMMA QuietCallStep ==
  ASSUME StoreInv, TypeOK', NEW c \in Calls, NEW state, Goto(c, state),
         state.at \notin {"record", "commit", "applying"},
         UNCHANGED <<db, txs, wrote>>
  PROVE  /\ \A t \in TxIds : TxOld(t)'
         /\ \A e \in Calls : CallOld(e)'
<1>1. Grows
  BY GrowsRefl DEF StoreInv
<1>2. \A t \in TxIds : TxOld(t)'
  BY <1>1, TxKept DEF StoreInv, TxOld
<1>3. ASSUME NEW e \in Calls, e # c PROVE CallOld(e)'
  <2>1. calls'[e] = calls[e]
    BY <1>3 DEF Goto, StoreInv, TypeOK
  <2> QED BY <1>1, <2>1, CallKept
<1>4. CallOld(c)'
  <2>1. calls'[c] = state
    BY DEF Goto, StoreInv, TypeOK
  <2> QED BY <2>1 DEF CallOld, At
<1> QED BY <1>2, <1>3, <1>4

\* A step that commits documents while no other call is applying.
LEMMA CommittingStep ==
  ASSUME StoreInv, TypeOK', Grows, NEW c \in Calls, NEW state, Goto(c, state),
         state.at \in {"idle", "notify"},
         conn = None \/ conn = c,
         UNCHANGED <<txs, wrote>>
  PROVE  /\ \A t \in TxIds : TxOld(t)'
         /\ \A e \in Calls : CallOld(e)'
<1>2. \A t \in TxIds : TxOld(t)'
  BY TxKept DEF StoreInv, TxOld
<1>3. ASSUME NEW e \in Calls, e # c PROVE CallOld(e)'
  <2>1. calls'[e] = calls[e]
    BY <1>3 DEF Goto, StoreInv, TypeOK
  <2>2. ~At(e, "applying")
    BY <1>3, ConstantsAssumption DEF StoreInv, NoLeakedConnection, At
  <2> QED BY <2>1, <2>2, CallKept
<1>4. CallOld(c)'
  <2>1. calls'[c] = state
    BY DEF Goto, StoreInv, TypeOK
  <2> QED BY <2>1 DEF CallOld, At
<1> QED BY <1>2, <1>3, <1>4

\* The inductive step: reads, writes, deletes, commits, rollbacks and sweeps
\* leave every remembered row an ancestor of the committed one.
LEMMA InvStep == StoreInv /\ [Next]_vars => StoreInv'
<1> SUFFICES ASSUME StoreInv, [Next]_vars
             PROVE  StoreInv'
  OBVIOUS
<1>1. TypeOK' /\ NoLeakedConnection'
  BY TypeStep, ConnectionStep DEF StoreInv
<1>2. TypeOK
  BY DEF StoreInv
<1>3. ASSUME UNCHANGED <<db, work>>
      PROVE  WorkDescends'
  BY <1>3 DEF StoreInv, WorkDescends
<1>4. ASSUME work' = db'
      PROVE  WorkDescends'
  BY <1>1, <1>4, DescendsRefl DEF WorkDescends, TypeOK, Table
<1>5. SUFFICES /\ WorkDescends'
               /\ \A t \in TxIds : TxOld(t)'
               /\ \A c \in Calls : CallOld(c)'
  BY <1>1 DEF StoreInv
<1> DEFINE Goal == /\ WorkDescends'
                   /\ \A t \in TxIds : TxOld(t)'
                   /\ \A c \in Calls : CallOld(c)'
<1> HIDE DEF Goal
<1>6. Goal <=> /\ WorkDescends'
               /\ \A t \in TxIds : TxOld(t)'
               /\ \A c \in Calls : CallOld(c)'
  BY DEF Goal
<1>7. Idle.at = "idle" /\ \A out : Announcing(out).at \in {"idle", "notify"}
  BY DEF Idle, Announcing
<1>8. ASSUME NEW c \in Calls, NEW w \in RpcWrites,
             RpcWrite(c, w) \/ RpcMaskedWrite(c, w)
      PROVE  Goal
  BY <1>1, <1>3, <1>6, <1>8, QuietCallStep
     DEF RpcWrite, RpcMaskedWrite, dbVars, histVars
<1>9. ASSUME NEW c \in Calls, PlainWrite(c)
      PROVE  Goal
  <2>1. Grows
    <3> DEFINE w == calls[c].w
    <3>1. w \in Writes /\ NextStamp(w) \in Nat /\ db \in Table
      BY <1>2, <1>9, CallFields DEF PlainWrite, TypeOK, NextStamp
    <3>2. CASE db' = Apply(db, w, NextStamp(w))
      BY <3>1, <3>2, ApplyDescends DEF Grows
    <3>3. CASE db' = db
      BY <1>2, <3>3, GrowsRefl
    <3> QED BY <1>9, <3>2, <3>3 DEF PlainWrite
  <2>2. WorkDescends'
    BY <1>3, <1>4, <1>9 DEF PlainWrite
  <2> QED BY <1>1, <1>6, <1>7, <1>9, <2>1, <2>2, CommittingStep
          DEF PlainWrite, histVars
<1>10. ASSUME NEW c \in Calls, Notify(c)
       PROVE  Goal
  BY <1>1, <1>3, <1>6, <1>7, <1>10, QuietCallStep DEF Notify, dbVars, histVars
<1>11. ASSUME NEW c \in Calls, NEW ws \in Batches, BatchBegin(c, ws)
       PROVE  Goal
  BY <1>1, <1>3, <1>6, <1>11, QuietCallStep DEF BatchBegin, histVars
<1>12. ASSUME NEW w \in Writes, work' = Apply(work, w, NextStamp(w)),
              UNCHANGED db
       PROVE  WorkDescends'
  <2>1. NextStamp(w) \in Nat /\ work \in Table /\ db \in Table
    BY <1>2 DEF TypeOK, NextStamp
  <2>2. work' \in Table /\ \A p \in Paths : Descends(work[p], work'[p])
    BY <1>12, <2>1, ApplyDescends
  <2>3. \A p \in Paths : db[p] \in Row /\ work[p] \in Row /\ work'[p] \in Row
    BY <2>1, <2>2 DEF Table
  <2>4. \A p \in Paths : Descends(db[p], work[p])
    BY DEF StoreInv, WorkDescends
  <2>5. \A p \in Paths : Descends(db[p], work'[p])
    BY <2>2, <2>3, <2>4, DescendsTrans
  <2> QED BY <1>12, <2>5 DEF WorkDescends
<1>13. ASSUME NEW c \in Calls, BatchWrite(c)
       PROVE  Goal
  <2>1. Head(calls[c].todo) \in Writes
    BY <1>2, <1>13, CallFields DEF BatchWrite
  <2>2. WorkDescends'
    BY <1>3, <1>12, <1>13, <2>1 DEF BatchWrite
  <2> QED BY <1>1, <1>6, <1>13, <2>2, QuietCallStep DEF BatchWrite, histVars
<1>14. ASSUME NEW c \in Calls, BatchFail(c)
       PROVE  Goal
  BY <1>1, <1>4, <1>6, <1>7, <1>14, QuietCallStep DEF BatchFail, ReleaseUndone
<1>15. ASSUME NEW c \in Calls, BatchCommit(c)
       PROVE  Goal
  <2>1. Grows
    BY <1>15 DEF BatchCommit, Grows, StoreInv, WorkDescends
  <2>2. WorkDescends'
    BY <1>4, <1>15 DEF BatchCommit
  <2>3. conn = c
    BY <1>15 DEF BatchCommit, At, StoreInv, NoLeakedConnection
  <2> QED BY <1>1, <1>6, <1>7, <1>15, <2>1, <2>2, <2>3, CommittingStep
          DEF BatchCommit, histVars
<1>16. ASSUME UNCHANGED <<db, work, calls, wrote>>,
              \A t \in TxIds : /\ txs'[t].reads = txs[t].reads
                               /\ txs[t].used => txs'[t].used
                               /\ txs'[t].row => txs'[t].used
                               /\ txs'[t].row => txs[t].row \/ ~txs[t].used
       PROVE  Goal
  <2>1. Grows
    BY <1>2, <1>16, GrowsRefl
  <2>2. ASSUME NEW t \in TxIds PROVE TxOld(t)'
    <3>1. ~txs[t].used => \A p \in Paths : wrote[t][p] = 0
      BY <1>2 DEF StoreInv, TxOld, TypeOK
    <3> QED BY <1>1, <1>16, <2>1, <3>1, TxKept
  <2>3. \A c \in Calls : CallOld(c)'
    BY <1>1, <1>16, <2>1, CallKept
  <2> QED BY <1>3, <1>6, <1>16, <2>2, <2>3
<1>17. ASSUME NEW t \in TxIds, TxStep(t)
       PROVE  Goal
  <2>1. \A u \in TxIds : txs[u] \in TxRow /\ (txs[u].row => txs[u].used)
    BY <1>2 DEF StoreInv, TxOld, TypeOK
  <2>2. \A u \in TxIds : /\ txs'[u].reads = txs[u].reads
                         /\ txs[u].used => txs'[u].used
                         /\ txs'[u].row => txs'[u].used
                         /\ txs'[u].row => txs[u].row \/ ~txs[u].used
    <3>1. CASE BeginTransaction(t)
      <4>1. txs'[t] = [txs[t] EXCEPT !.used = TRUE, !.row = TRUE]
        BY <1>2, <3>1 DEF BeginTransaction, TypeOK
      <4>2. \A u \in TxIds : u # t => txs'[u] = txs[u]
        BY <1>2, <3>1 DEF BeginTransaction, TypeOK
      <4>3. /\ txs'[t].used = TRUE /\ txs'[t].row = TRUE
            /\ txs'[t].reads = txs[t].reads
        BY <2>1, <4>1 DEF TxRow
      <4>4. ~txs[t].used
        BY <3>1 DEF BeginTransaction
      <4> QED BY <2>1, <4>2, <4>3, <4>4
    <3>2. CASE RollbackTransaction(t)
      <4>1. txs'[t] = [txs[t] EXCEPT !.row = FALSE]
        BY <1>2, <3>2 DEF RollbackTransaction, TypeOK
      <4>2. \A u \in TxIds : u # t => txs'[u] = txs[u]
        BY <1>2, <3>2 DEF RollbackTransaction, TypeOK
      <4> QED BY <2>1, <4>1, <4>2 DEF TxRow
    <3>3. CASE Expire(t)
      <4>1. txs'[t] = [txs[t] EXCEPT !.expired = TRUE]
        BY <1>2, <3>3 DEF Expire, TypeOK
      <4>2. \A u \in TxIds : u # t => txs'[u] = txs[u]
        BY <1>2, <3>3 DEF Expire, TypeOK
      <4> QED BY <2>1, <4>1, <4>2 DEF TxRow
    <3> QED BY <1>17, <3>1, <3>2, <3>3 DEF TxStep
  <2> QED BY <1>16, <1>17, <2>2 DEF TxStep, BeginTransaction,
                                    RollbackTransaction, Expire, dbVars, histVars
<1>18. ASSUME SweepExpiredTransactions
       PROVE  Goal
  <2>1. \A u \in TxIds : txs[u] \in TxRow /\ (txs[u].row => txs[u].used)
    BY <1>2 DEF StoreInv, TxOld, TypeOK
  <2>2. \A u \in TxIds : /\ txs'[u].reads = txs[u].reads
                         /\ txs[u].used => txs'[u].used
                         /\ txs'[u].row => txs'[u].used
                         /\ txs'[u].row => txs[u].row \/ ~txs[u].used
    BY <1>18, <2>1 DEF SweepExpiredTransactions, TxRow
  <2> QED BY <1>16, <1>18, <2>2 DEF SweepExpiredTransactions, dbVars, histVars
<1>19. ASSUME NEW c \in Calls, NEW t \in TxIds, NEW p \in Paths,
              TxRead(c, t, p)
       PROVE  Goal
  <2>1. Grows
    BY <1>2, <1>19, GrowsRefl DEF TxRead, dbVars
  <2>2. \A u \in TxIds : TxOld(u)'
    BY <1>1, <1>19, <2>1, TxKept DEF TxRead, StoreInv, TxOld
  <2>3. ASSUME NEW e \in Calls, calls'[e] = calls[e] PROVE CallOld(e)'
    BY <1>1, <1>19, <2>1, <2>3, CallKept DEF TxRead, dbVars
  <2>4. CASE Goto(c, [at |-> "record", tx |-> t, path |-> p, row |-> db[p]])
    <3>1. calls'[c] = [at |-> "record", tx |-> t, path |-> p, row |-> db[p]]
      BY <1>2, <2>4 DEF Goto, TypeOK
    <3>2. Descends(db[p], db[p])
      BY <1>2, DescendsRefl DEF TypeOK, Table
    <3>3. CallOld(c)'
      BY <1>19, <3>1, <3>2 DEF TxRead, CallOld, At, dbVars
    <3>4. \A e \in Calls : e # c => calls'[e] = calls[e]
      BY <1>2, <2>4 DEF Goto, TypeOK
    <3> QED BY <1>3, <1>6, <1>19, <2>2, <2>3, <3>3, <3>4 DEF TxRead, dbVars
  <2>5. CASE UNCHANGED calls
    BY <1>3, <1>6, <1>19, <2>2, <2>3, <2>5 DEF TxRead, dbVars
  <2> QED BY <1>19, <2>4, <2>5 DEF TxRead
<1>20. ASSUME NEW c \in Calls, TxRecord(c)
       PROVE  Goal
  <2> DEFINE t == calls[c].tx  p == calls[c].path  r == calls[c].row
  <2>1. t \in TxIds /\ p \in Paths /\ r \in Row /\ Descends(r, db[p])
    BY <1>2, <1>20, CallFields DEF TxRecord, StoreInv, CallOld
  <2>2. Grows
    BY <1>2, <1>20, GrowsRefl DEF TxRecord, dbVars
  <2>3. \A u \in TxIds : /\ txs'[u].used = txs[u].used
                         /\ txs'[u].row = txs[u].row
                         /\ u # t => txs'[u] = txs[u]
                         /\ \A q \in Paths :
                              \/ txs'[u].reads[q] = txs[u].reads[q]
                              \/ u = t /\ q = p /\ txs'[u].reads[q] = r
                                 /\ txs[u].row
    <3>1. txs[t] \in TxRow /\ txs[t].reads \in Table
      BY <1>2, <2>1 DEF TypeOK, TxRow
    <3>2. CASE \A u \in TxIds : txs'[u] = txs[u]
      BY <3>2
    <3>3. ASSUME txs[t].row,
                 NEW tx \in Record(txs[t], p, r), txs' = [txs EXCEPT ![t] = tx]
          PROVE  \A u \in TxIds : /\ txs'[u].used = txs[u].used
                                  /\ txs'[u].row = txs[u].row
                                  /\ u # t => txs'[u] = txs[u]
                                  /\ \A q \in Paths :
                                       \/ txs'[u].reads[q] = txs[u].reads[q]
                                       \/ u = t /\ q = p /\ txs'[u].reads[q] = r
                                          /\ txs[u].row
      <4>1. txs'[t] \in Record(txs[t], p, r)
        BY <1>2, <2>1, <3>3 DEF TypeOK
      <4>2. \A u \in TxIds : u # t => txs'[u] = txs[u]
        BY <1>2, <2>1, <3>3 DEF TypeOK
      <4>3. /\ txs'[t].used = txs[t].used
            /\ txs'[t].row = txs[t].row
            /\ \A q \in Paths :
                 \/ txs'[t].reads[q] = txs[t].reads[q]
                 \/ q = p /\ txs'[t].reads[q] = r
        <5>1. CASE txs'[t] = txs[t]
          BY <5>1
        <5>2. CASE txs'[t] = [txs[t] EXCEPT !.decodes = FALSE]
          BY <3>1, <5>2 DEF TxRow
        <5>3. CASE txs'[t] = [txs[t] EXCEPT !.reads[p] = r]
          BY <2>1, <3>1, <5>3 DEF TxRow, Table
        <5> QED BY <4>1, <5>1, <5>2, <5>3 DEF Record
      <4> QED BY <3>3, <4>2, <4>3
    <3>4. [txs EXCEPT ![t] = txs[t]] = txs
      BY <1>2, <2>1 DEF TypeOK
    <3> QED BY <1>20, <3>2, <3>3, <3>4 DEF TxRecord
  <2>4. ASSUME NEW u \in TxIds PROVE TxOld(u)'
    <3>1. TxOld(u)
      BY DEF StoreInv
    <3>2. /\ Older(txs[u].reads)' /\ Overwritten(txs[u].reads, u)'
      <4>1. db' = db /\ wrote' = wrote
        BY <1>20 DEF TxRecord, dbVars
      <4>2. \A q \in Paths : txs[u].row => wrote[u][q] = 0
        BY <1>2, <3>1 DEF TxOld, TypeOK
      <4> QED BY <2>1, <2>3, <3>1, <4>1, <4>2
              DEF TxOld, Older, Overwritten, Recorded
    <3>3. wrote' = wrote
      BY <1>20 DEF TxRecord
    <3> QED BY <2>3, <3>1, <3>2, <3>3 DEF TxOld
  <2>5. ASSUME NEW e \in Calls PROVE CallOld(e)'
    <3>1. CASE e = c
      <4>1. calls'[c] = Idle
        BY <1>2, <1>20 DEF TxRecord, Goto, TypeOK
      <4> QED BY <1>7, <3>1, <4>1 DEF CallOld, At
    <3>2. CASE e # c
      <4>1. calls'[e] = calls[e]
        BY <1>2, <1>20, <3>2 DEF TxRecord, Goto, TypeOK
      <4> QED BY <1>1, <1>20, <2>2, <2>3, <4>1, CallKept DEF TxRecord, dbVars
    <3> QED BY <3>1, <3>2
  <2> QED BY <1>3, <1>6, <1>20, <2>4, <2>5 DEF TxRecord, dbVars
<1>21. ASSUME NEW c \in Calls, NEW t \in TxIds, NEW ops \in TxOps,
              CommitLoad(c, t, ops)
       PROVE  Goal
  <2>1. Grows
    BY <1>2, <1>21, GrowsRefl DEF CommitLoad, dbVars
  <2>2. \A u \in TxIds : TxOld(u)'
    BY <1>1, <1>21, <2>1, TxKept DEF CommitLoad, StoreInv, TxOld, histVars
  <2>3. ASSUME NEW e \in Calls, e # c PROVE CallOld(e)'
    <3>1. calls'[e] = calls[e]
      BY <1>2, <1>21, <2>3 DEF CommitLoad, Goto, TypeOK
    <3> QED BY <1>1, <1>21, <2>1, <3>1, CallKept DEF CommitLoad, dbVars, histVars
  <2>4. CallOld(c)'
    <3>1. calls'[c] = [at |-> "commit", tx |-> t, reads |-> txs[t].reads,
                       ops |-> ops]
      BY <1>2, <1>21 DEF CommitLoad, Goto, TypeOK
    <3>2. TxOld(t)
      BY DEF StoreInv
    <3> QED BY <1>21, <3>1, <3>2 DEF CommitLoad, CallOld, TxOld, Older,
              Overwritten, Recorded, At, dbVars, histVars
  <2> QED BY <1>3, <1>6, <1>21, <2>2, <2>3, <2>4 DEF CommitLoad, dbVars
<1>22. ASSUME NEW c \in Calls, CommitBegin(c)
       PROVE  Goal
  <2>1. CASE Goto(c, Idle)
    BY <1>1, <1>3, <1>6, <1>7, <1>22, <2>1, QuietCallStep
       DEF CommitBegin, histVars
  <2>2. CASE ~Goto(c, Idle)
    <3>1. OccCheck(calls[c].reads)
      BY <1>22, <2>2 DEF CommitBegin
    <3>2. calls'[c] = [at |-> "applying", tx |-> calls[c].tx,
                       reads |-> calls[c].reads, todo |-> calls[c].ops,
                       out |-> <<>>]
      BY <1>2, <1>22, <3>1 DEF CommitBegin, Goto, TypeOK
    <3>3. CallOld(c) /\ calls[c].at = "commit"
      BY <1>22 DEF StoreInv, CommitBegin, At
    <3>4. CallOld(c)'
      BY <1>22, <3>1, <3>2, <3>3 DEF CommitBegin, CallOld, Older, Overwritten,
           Recorded, OccCheck, At, histVars
    <3>5. Grows
      BY <1>2, <1>22, GrowsRefl DEF CommitBegin
    <3>6. \A u \in TxIds : TxOld(u)'
      BY <1>1, <1>22, <3>5, TxKept DEF CommitBegin, StoreInv, TxOld, histVars
    <3>7. ASSUME NEW e \in Calls, e # c PROVE CallOld(e)'
      <4>1. calls'[e] = calls[e]
        BY <1>2, <1>22, <3>1, <3>7 DEF CommitBegin, Goto, TypeOK
      <4> QED BY <1>1, <1>22, <3>5, <4>1, CallKept DEF CommitBegin, histVars
    <3> QED BY <1>3, <1>6, <1>22, <3>4, <3>6, <3>7 DEF CommitBegin
  <2> QED BY <2>1, <2>2
<1>23. ASSUME NEW c \in Calls, CommitWrite(c)
       PROVE  Goal
  <2> DEFINE w == Head(calls[c].todo)
  <2>1. w \in Writes
    BY <1>2, <1>23, CallFields DEF CommitWrite
  <2>2. WorkDescends'
    BY <1>12, <1>23, <2>1 DEF CommitWrite
  <2>3. /\ calls[c].at = "applying"
        /\ calls'[c].at = "applying"
        /\ calls'[c].tx = calls[c].tx
        /\ calls'[c].reads = calls[c].reads
    <3>1. calls[c] \in [at : {"applying"}, tx : TxIds, reads : Table,
                        todo : Seq(Writes), out : Seq(Events)]
      BY <1>2, <1>23 DEF CommitWrite, At, TypeOK, CallState, Idle
    <3>2. calls'[c] = [calls[c] EXCEPT !.todo = Tail(@),
                                       !.out = Append(@, EventOf(w))]
      BY <1>2, <1>23 DEF CommitWrite, Goto, TypeOK
    <3> QED BY <3>1, <3>2
  <2>4. CallOld(c)
    BY DEF StoreInv
  <2>5. CallOld(c)'
    BY <1>23, <2>3, <2>4 DEF CommitWrite, CallOld, Older, Overwritten, Recorded,
         OccCheck, At, histVars
  <2>6. Grows
    BY <1>2, <1>23, GrowsRefl DEF CommitWrite
  <2>7. \A u \in TxIds : TxOld(u)'
    BY <1>1, <1>23, <2>6, TxKept DEF CommitWrite, StoreInv, TxOld, histVars
  <2>8. ASSUME NEW e \in Calls, e # c PROVE CallOld(e)'
    <3>1. calls'[e] = calls[e]
      BY <1>2, <1>23, <2>8 DEF CommitWrite, Goto, TypeOK
    <3> QED BY <1>1, <1>23, <2>6, <3>1, CallKept DEF CommitWrite, histVars
  <2> QED BY <1>6, <2>2, <2>5, <2>7, <2>8
<1>24. ASSUME NEW c \in Calls, CommitFinish(c)
       PROVE  Goal
  <2>0. PICK t \in TxIds : t = calls[c].tx
    BY <1>2, <1>24, CallFields DEF CommitFinish
  <2>1. CallOld(c) /\ txs[t].used /\ conn = c
    BY <1>24, <2>0 DEF CommitFinish, StoreInv, CallOld, At, NoLeakedConnection
  <2>2. Grows
    BY <1>24 DEF CommitFinish, Grows, StoreInv, WorkDescends
  <2>3. /\ txs'[t].used = txs[t].used /\ txs'[t].row = FALSE
        /\ txs'[t].reads = txs[t].reads
        /\ \A u \in TxIds : u # t => txs'[u] = txs[u] /\ wrote'[u] = wrote[u]
    <3>1. txs[t] \in TxRow
      BY <1>2, <2>1 DEF TypeOK
    <3>2. txs'[t] = [txs[t] EXCEPT !.row = FALSE]
      BY <1>2, <1>24, <2>0 DEF CommitFinish, TypeOK
    <3>3. \A u \in TxIds : u # t => txs'[u] = txs[u] /\ wrote'[u] = wrote[u]
      BY <1>2, <1>24, <2>0 DEF CommitFinish, TypeOK
    <3> QED BY <3>1, <3>2, <3>3 DEF TxRow
  <2>4. \A p \in Paths : \/ wrote'[t][p] = wrote[t][p]
                         \/ db'[p] # db[p]
    BY <1>2, <1>24, <2>0 DEF CommitFinish, TypeOK
  <2>5. \A u \in TxIds : txs[u].used => txs'[u].used
    BY <2>3
  <2>6. ASSUME NEW rs \in Table, Older(rs), Overwritten(rs, t)
        PROVE  \A p \in Paths :
                 /\ Recorded(rs, p) => Descends(rs[p], db'[p])
                 /\ Recorded(rs, p) /\ wrote'[t][p] > 0 => Before(rs[p], db'[p])
    <3> SUFFICES ASSUME NEW p \in Paths, Recorded(rs, p)
                 PROVE  /\ Descends(rs[p], db'[p])
                        /\ wrote'[t][p] > 0 => Before(rs[p], db'[p])
      OBVIOUS
    <3>1. rs[p] \in Row /\ db[p] \in Row /\ db'[p] \in Row
      BY <1>1, <1>2, <2>6 DEF TypeOK, Table
    <3>2. Descends(rs[p], db[p]) /\ Descends(db[p], db'[p])
      BY <2>2, <2>6 DEF Older, Grows
    <3>3. CASE db'[p] # db[p]
      BY <3>1, <3>2, <3>3, DescendsTrans, DescendsChanged
    <3>4. CASE db'[p] = db[p]
      BY <2>4, <2>6, <3>2, <3>4 DEF Overwritten
    <3> QED BY <3>3, <3>4
  <2>7. TxOld(t)'
    <3>1. TxOld(t) /\ txs[t].reads \in Table
      BY <1>2, <2>1 DEF StoreInv, TypeOK, TxRow
    <3>2. Older(txs[t].reads)' /\ Overwritten(txs[t].reads, t)'
      BY <2>3, <2>6, <3>1 DEF TxOld, Older, Overwritten, Recorded
    <3> QED BY <2>1, <2>3, <3>2 DEF TxOld
  <2>8. ASSUME NEW u \in TxIds, u # t PROVE TxOld(u)'
    BY <1>1, <2>2, <2>3, <2>8, TxKept DEF StoreInv, TxOld
  <2>9. CallOld(c)'
    <3>1. calls'[c] = Announcing(calls[c].out)
      BY <1>2, <1>24 DEF CommitFinish, Goto, TypeOK
    <3> QED BY <1>7, <3>1 DEF CallOld, At
  <2>10. ASSUME NEW e \in Calls, e # c PROVE CallOld(e)'
    <3>1. calls'[e] = calls[e] /\ ~At(e, "applying") /\ CallOld(e)
      BY <1>2, <1>24, <2>1, <2>10
         DEF CommitFinish, Goto, TypeOK, StoreInv, NoLeakedConnection, At
    <3>2. At(e, "record") => /\ txs'[calls[e].tx].used
                             /\ Descends(calls[e].row, db'[calls[e].path])
      <4> SUFFICES ASSUME At(e, "record")
                   PROVE  /\ txs'[calls[e].tx].used
                          /\ Descends(calls[e].row, db'[calls[e].path])
        OBVIOUS
      <4>1. /\ calls[e].tx \in TxIds /\ calls[e].path \in Paths
            /\ calls[e].row \in Row
        BY <1>2, CallFields
      <4>2. db[calls[e].path] \in Row /\ db'[calls[e].path] \in Row
        BY <1>1, <1>2, <4>1 DEF TypeOK, Table
      <4> QED BY <2>2, <2>5, <3>1, <4>1, <4>2, DescendsTrans DEF CallOld, Grows
    <3>3. At(e, "commit") => /\ txs'[calls[e].tx].used
                             /\ Older(calls[e].reads)'
                             /\ Overwritten(calls[e].reads, calls[e].tx)'
      <4> SUFFICES ASSUME At(e, "commit")
                   PROVE  /\ txs'[calls[e].tx].used
                          /\ Older(calls[e].reads)'
                          /\ Overwritten(calls[e].reads, calls[e].tx)'
        OBVIOUS
      <4>1. /\ calls[e].tx \in TxIds /\ calls[e].reads \in Table
            /\ txs[calls[e].tx].used
            /\ Older(calls[e].reads) /\ Overwritten(calls[e].reads, calls[e].tx)
        BY <1>2, <3>1, CallFields DEF CallOld, At
      <4>2. CASE calls[e].tx = t
        BY <2>5, <2>6, <3>1, <4>1, <4>2 DEF Older, Overwritten, Recorded
      <4>3. CASE calls[e].tx # t
        BY <1>1, <1>2, <2>2, <2>3, <2>5, <3>1, <4>1, <4>3, ReadsKept
           DEF Older, Overwritten, Recorded
      <4> QED BY <4>2, <4>3
    <3> QED BY <3>1, <3>2, <3>3 DEF CallOld, At
  <2>11. WorkDescends'
    BY <1>4, <1>24 DEF CommitFinish
  <2> QED BY <1>6, <2>7, <2>8, <2>9, <2>10, <2>11
<1>25. ASSUME NEW c \in Calls, CancelCall(c)
       PROVE  Goal
  <2>1. UNCHANGED <<db, txs, wrote>>
    BY <1>25 DEF CancelCall, ReleaseUndone, dbVars
  <2>2. WorkDescends'
    BY <1>3, <1>4, <1>25 DEF CancelCall, ReleaseUndone, dbVars
  <2> QED BY <1>1, <1>6, <1>7, <1>25, <2>1, <2>2, QuietCallStep DEF CancelCall
<1>26. ASSUME TakeChange \/ UNCHANGED vars PROVE Goal
  BY <1>16, <1>26 DEF TakeChange, dbVars, histVars, vars, StoreInv, TxOld
<1>27. Goal
  BY <1>8, <1>9, <1>10, <1>11, <1>13, <1>14, <1>15, <1>17, <1>18, <1>19, <1>20,
     <1>21, <1>22, <1>23, <1>24, <1>25, <1>26
  DEF Next, StoreNext, CallStep, ClientStep
<1> QED BY <1>6, <1>27

\* The inductive invariant holds of every behaviour of the store.
LEMMA InvAlways == Spec => []StoreInv
BY InitInv, InvStep, PTL DEF Spec

-----------------------------------------------------------------------------
(***************************************************************************)
(* The results.                                                            *)
(***************************************************************************)

(***************************************************************************)
(* The single SQLite connection is held exactly by the call that is inside *)
(* a SQL transaction: WithTransaction and CommitTransaction release it on  *)
(* every path, errors and cancelled contexts included.                     *)
(***************************************************************************)
THEOREM ConnectionNeverLeaks == Spec => []NoLeakedConnection
<1>1. StoreInv => NoLeakedConnection
  BY DEF StoreInv
<1> QED BY <1>1, InvAlways, PTL

(***************************************************************************)
(* CommitTransaction applies its ops only to documents that are the rows   *)
(* its transaction read, unless they were deleted since.                   *)
(***************************************************************************)
THEOREM CommitsAreValidated == Spec => []CommitValidated
<1>1. StoreInv => CommitValidated
  <2> SUFFICES ASSUME StoreInv, NEW c \in Calls, At(c, "applying"),
                      NEW p \in Paths, Recorded(calls[c].reads, p),
                      calls[c].reads[p].epoch = db[p].epoch
               PROVE  calls[c].reads[p] = db[p]
    BY DEF CommitValidated
  <2> DEFINE r == calls[c].reads[p]
  <2>1. r \in Row /\ db[p] \in Row
    BY CallFields DEF StoreInv, TypeOK, Table
  <2>2. Descends(r, db[p]) /\ db[p].version = r.version
    BY DEF StoreInv, CallOld, Older, OccCheck, At
  <2>3. r.stamp = db[p].stamp
    BY <2>1, <2>2 DEF Descends, Row
  <2>4. /\ r = [version |-> r.version, epoch |-> r.epoch, stamp |-> r.stamp]
        /\ db[p] = [version |-> db[p].version, epoch |-> db[p].epoch,
                    stamp |-> db[p].stamp]
    BY <2>1 DEF Row
  <2> QED BY <2>2, <2>3, <2>4
<1> QED BY <1>1, InvAlways, PTL

(***************************************************************************)
(* A second Commit of one transaction gets past the OCC check only if the  *)
(* first wrote none of the documents read, or they were deleted since.     *)
(***************************************************************************)
THEOREM RetriesAreSafe == Spec => []RetrySafe
<1>1. StoreInv => RetrySafe
  <2> SUFFICES ASSUME StoreInv, NEW c \in Calls, At(c, "applying"),
                      NEW p \in Paths, Recorded(calls[c].reads, p),
                      wrote[calls[c].tx][p] > 0
               PROVE  calls[c].reads[p].epoch # db[p].epoch
    BY DEF RetrySafe
  <2>1. calls[c].reads[p] \in Row /\ db[p] \in Row
    BY CallFields DEF StoreInv, TypeOK, Table
  <2>2. /\ Before(calls[c].reads[p], db[p])
        /\ db[p].version = calls[c].reads[p].version
    BY DEF StoreInv, CallOld, Overwritten, OccCheck, At
  <2> QED BY <2>1, <2>2 DEF Before, Row
<1> QED BY <1>1, InvAlways, PTL

-----------------------------------------------------------------------------
(***************************************************************************)
(* Rolled-back writes.                                                     *)
(***************************************************************************)

\* The rows that are committed, or that somebody has read.
KnownRows ==
  {db[p] : p \in Paths}
    \cup {txs[t].reads[p] : t \in TxIds, p \in Paths}
    \cup {s[2] : s \in UNION {shown[t] : t \in TxIds}}
    \cup {calls[c].row : c \in {e \in Calls : At(e, "record")}}

\* A stamp up to n that none of the rows has and that is not in gone.
Fresh(s, n, gone, rows) ==
  s \in 1 .. n /\ s \notin gone /\ \A r \in rows : r.stamp # s

(***************************************************************************)
(* Why nothing rolled back is ever seen: an uncommitted row has a stamp of *)
(* its own, which no known row has, because statements outside the SQL     *)
(* transaction wait for its end.                                           *)
(***************************************************************************)
UndoneInv ==
  /\ undone \subseteq 1 .. stamps
  /\ \A r \in KnownRows : r.stamp <= stamps /\ r.stamp \notin undone
  /\ \A p \in Paths :
       \/ work[p] = db[p]
       \/ work[p].version = 0 /\ work[p].stamp = 0
       \/ Fresh(work[p].stamp, stamps, undone, KnownRows)

\* Known rows are rows.
LEMMA KnownType ==
  ASSUME TypeOK
  PROVE  KnownRows \subseteq Row
<1>1. \A p \in Paths : db[p] \in Row
  BY DEF TypeOK, Table
<1>2. \A t \in TxIds, p \in Paths : txs[t].reads[p] \in Row
  BY DEF TypeOK, TxRow, Table
<1>3. \A t \in TxIds : \A s \in shown[t] : s[2] \in Row
  BY DEF TypeOK
<1>4. \A c \in Calls : At(c, "record") => calls[c].row \in Row
  BY CallFields
<1> QED BY <1>1, <1>2, <1>3, <1>4 DEF KnownRows

\* What a client reads, or has recorded, was known before.
LEMMA ReadsAreKnown ==
  ASSUME TypeOK, [Next]_vars
  PROVE  \A r \in KnownRows' : r \in KnownRows \/ \E p \in Paths : r = db'[p]
<1>1. ASSUME NEW c \in Calls, At(c, "record")'
      PROVE  calls'[c].row \in KnownRows
  <2>1. CASE calls'[c] = calls[c]
    BY <1>1, <2>1 DEF KnownRows, At
  <2>2. ASSUME NEW t \in TxIds, NEW p \in Paths, TxRead(c, t, p)
        PROVE  calls'[c].row \in KnownRows
    <3>1. CASE UNCHANGED calls
      BY <2>1, <3>1
    <3>2. CASE Goto(c, [at |-> "record", tx |-> t, path |-> p, row |-> db[p]])
      <4>1. calls'[c] = [at |-> "record", tx |-> t, path |-> p, row |-> db[p]]
        BY <3>2 DEF Goto, TypeOK
      <4> QED BY <4>1 DEF KnownRows
    <3> QED BY <2>2, <3>1, <3>2 DEF TxRead
  <2>3. ASSUME NEW e \in Calls \ {c}, CallStep(e) \/ ClientStep(e)
        PROVE  calls'[c] = calls[c]
    BY <2>3 DEF TypeOK, CallStep, PlainWrite, Notify, BatchWrite, BatchFail,
       BatchCommit, TxRecord, CommitBegin, CommitWrite, CommitFinish, ClientStep,
       RpcWrite, RpcMaskedWrite, BatchBegin, TxRead, CommitLoad, CancelCall, Goto
  <2>4. CASE \/ \E t \in TxIds : TxStep(t)
             \/ SweepExpiredTransactions \/ TakeChange \/ UNCHANGED vars
    BY <2>1, <2>4 DEF TxStep, BeginTransaction, RollbackTransaction, Expire,
                      SweepExpiredTransactions, TakeChange, vars
  <2>5. ASSUME NEW state, Goto(c, state), state.at # "record"
        PROVE  FALSE
    <3>1. calls'[c] = state
      BY <2>5 DEF Goto, TypeOK
    <3> QED BY <1>1, <2>5, <3>1 DEF At
  <2>6. Idle.at = "idle" /\ \A out : Announcing(out).at \in {"idle", "notify"}
    BY DEF Idle, Announcing
  <2>7. ~CallStep(c)
    <3>1. ~(PlainWrite(c) \/ Notify(c) \/ BatchFail(c) \/ BatchCommit(c)
            \/ TxRecord(c) \/ CommitFinish(c))
      BY <2>5, <2>6 DEF PlainWrite, Notify, BatchFail, BatchCommit, TxRecord,
                        CommitFinish
    <3>2. ~(BatchWrite(c) \/ CommitBegin(c))
      BY <2>5, <2>6 DEF BatchWrite, CommitBegin
    <3>3. ~CommitWrite(c)
      <4>1. SUFFICES ASSUME CommitWrite(c)
                     PROVE  FALSE
        OBVIOUS
      <4>2. calls[c] \in [at : {"applying"}, tx : TxIds, reads : Table,
                          todo : Seq(Writes), out : Seq(Events)]
        BY <4>1 DEF CommitWrite, At, TypeOK, CallState, Idle
      <4>3. \A x, y : [calls[c] EXCEPT !.todo = x, !.out = y].at = "applying"
        BY <4>2
      <4> QED BY <2>5, <4>1, <4>3 DEF CommitWrite
    <3> QED BY <3>1, <3>2, <3>3 DEF CallStep
  <2>8. ASSUME NEW w \in RpcWrites, RpcWrite(c, w) \/ RpcMaskedWrite(c, w)
        PROVE  FALSE
    BY <2>5, <2>8 DEF RpcWrite, RpcMaskedWrite
  <2>9. ASSUME NEW ws \in Batches, BatchBegin(c, ws)
        PROVE  FALSE
    BY <2>5, <2>9 DEF BatchBegin
  <2>10. ASSUME NEW t \in TxIds, NEW ops \in TxOps, CommitLoad(c, t, ops)
         PROVE  FALSE
    BY <2>5, <2>10 DEF CommitLoad
  <2>11. ~CancelCall(c)
    BY <2>5, <2>6 DEF CancelCall
  <2> QED BY <2>1, <2>2, <2>3, <2>4, <2>7, <2>8, <2>9, <2>10, <2>11
          DEF Next, StoreNext, ClientStep
<1>2. ASSUME NEW c \in Calls, TxRecord(c)
      PROVE  /\ calls[c].tx \in TxIds /\ calls[c].path \in Paths
             /\ calls[c].row \in KnownRows
  BY <1>2, CallFields DEF TxRecord, KnownRows
<1>3. ASSUME NEW t \in TxIds, NEW s \in shown'[t]
      PROVE  s[2] \in KnownRows
  <2>1. CASE s \in shown[t]
    BY <2>1 DEF KnownRows
  <2>2. CASE UNCHANGED shown
    BY <1>3, <2>1, <2>2
  <2>3. ASSUME NEW c \in Calls, TxRecord(c)
        PROVE  s[2] \in KnownRows
    <3>1. \/ shown' = shown
          \/ shown' = [shown EXCEPT ![calls[c].tx] = @ \cup {<<calls[c].path, calls[c].row>>}]
      BY <2>3 DEF TxRecord
    <3>2. s \in shown[t] \/ s = <<calls[c].path, calls[c].row>>
      <4> DEFINE new == <<calls[c].path, calls[c].row>>
      <4>1. \/ shown'[t] = shown[t]
            \/ shown'[t] = shown[t] \cup {new}
        <5> HIDE DEF new
        <5>1. CASE shown' = shown
          BY <5>1
        <5>2. CASE shown' = [shown EXCEPT ![calls[c].tx] = @ \cup {new}]
          BY <5>2 DEF TypeOK
        <5> QED BY <3>1, <5>1, <5>2 DEF new
      <4> HIDE DEF new
      <4>2. s \in shown[t] \/ s = new
        BY <1>3, <4>1
      <4> QED BY <4>2 DEF new
    <3> QED BY <1>2, <2>1, <2>3, <3>2
  <2>4. ASSUME NEW c \in Calls, NEW u \in TxIds, NEW p \in Paths, TxRead(c, u, p)
        PROVE  s[2] \in KnownRows
    <3>1. s \in shown[t] \/ s = <<p, db[p]>>
      BY <1>3, <2>4 DEF TxRead, TypeOK
    <3> QED BY <2>1, <3>1 DEF KnownRows
  <2> QED
    BY <2>2, <2>3, <2>4
    DEF Next, StoreNext, CallStep, PlainWrite, Notify, BatchWrite, BatchFail,
        BatchCommit, CommitBegin, CommitWrite, CommitFinish, ClientStep,
        RpcWrite, RpcMaskedWrite, BatchBegin, CommitLoad, CancelCall, TxStep,
        BeginTransaction, RollbackTransaction, Expire,
        SweepExpiredTransactions, TakeChange, histVars, vars
<1>4. ASSUME NEW t \in TxIds, NEW p \in Paths
      PROVE  txs'[t].reads[p] \in KnownRows
  <2>0. txs[t].reads[p] \in KnownRows /\ txs[t] \in TxRow
    BY DEF KnownRows, TypeOK
  <2>1. CASE txs'[t].reads = txs[t].reads
    BY <2>0, <2>1
  <2>2. ASSUME NEW c \in Calls, TxRecord(c)
        PROVE  txs'[t].reads[p] \in KnownRows
    <3>1. CASE txs' = txs
      BY <2>1, <3>1
    <3>2. ASSUME NEW tx \in Record(txs[calls[c].tx], calls[c].path, calls[c].row),
                 txs' = [txs EXCEPT ![calls[c].tx] = tx]
          PROVE  txs'[t].reads[p] \in KnownRows
      <4>1. CASE t # calls[c].tx
        BY <2>1, <3>2, <4>1 DEF TypeOK
      <4>2. CASE t = calls[c].tx
        <5>1. txs'[t] \in Record(txs[t], calls[c].path, calls[c].row)
          BY <3>2, <4>2 DEF TypeOK
        <5>2. \/ txs'[t].reads = txs[t].reads
              \/ txs'[t].reads = [txs[t].reads EXCEPT ![calls[c].path] = calls[c].row]
          BY <2>0, <5>1 DEF Record, TxRow
        <5>3. txs[t].reads \in Table
          BY <2>0 DEF TxRow
        <5> QED BY <1>2, <2>0, <2>2, <5>2, <5>3 DEF Table
      <4> QED BY <4>1, <4>2
    <3>3. [txs EXCEPT ![calls[c].tx] = txs[calls[c].tx]] = txs
      BY <1>2, <2>2 DEF TypeOK
    <3> QED BY <2>2, <3>1, <3>2, <3>3 DEF TxRecord
  <2>3. ASSUME NEW u \in TxIds, TxStep(u)
        PROVE  txs'[t].reads = txs[t].reads
    <3>1. txs[u] \in TxRow
      BY DEF TypeOK
    <3>2. \A b \in BOOLEAN :
            /\ [txs[u] EXCEPT !.used = b, !.row = b].reads = txs[u].reads
            /\ [txs[u] EXCEPT !.row = b].reads = txs[u].reads
            /\ [txs[u] EXCEPT !.expired = b].reads = txs[u].reads
      BY <3>1 DEF TxRow
    <3> QED BY <2>3, <3>2 DEF TxStep, BeginTransaction, RollbackTransaction,
                              Expire, TypeOK
  <2>4. CASE SweepExpiredTransactions
    <3>1. txs'[t].reads = txs[t].reads
      BY <2>0, <2>4 DEF SweepExpiredTransactions, TxRow
    <3> QED BY <2>1, <3>1
  <2>5. ASSUME NEW c \in Calls, CommitFinish(c)
        PROVE  txs'[t].reads = txs[t].reads
    BY <2>0, <2>5 DEF CommitFinish, TypeOK, TxRow
  <2>6. CASE UNCHANGED txs
    BY <2>1, <2>6
  <2> QED
    BY <2>1, <2>2, <2>3, <2>4, <2>5, <2>6
    DEF Next, StoreNext, CallStep, PlainWrite, Notify, BatchWrite, BatchFail,
        BatchCommit, CommitBegin, CommitWrite, ClientStep,
        RpcWrite, RpcMaskedWrite, BatchBegin, CommitLoad, CancelCall, TxRead,
        TakeChange, vars
<1>5. ASSUME NEW r \in KnownRows'
      PROVE  r \in KnownRows \/ \E p \in Paths : r = db'[p]
  <2>1. \/ \E p \in Paths : r = db'[p]
        \/ \E t \in TxIds, p \in Paths : r = txs'[t].reads[p]
        \/ \E t \in TxIds : \E s \in shown'[t] : r = s[2]
        \/ \E c \in Calls : At(c, "record")' /\ r = calls'[c].row
    BY <1>5 DEF KnownRows
  <2> QED BY <1>1, <1>3, <1>4, <2>1
<1> QED BY <1>5

\* A SQL transaction is open only while rows beside the committed ones are
\* written; the stamps of those are new.
LEMMA UndoneStep ==
  ASSUME TypeOK, TypeOK', NoLeakedConnection, UndoneInv, [Next]_vars
  PROVE  UndoneInv'
<1>0. KnownRows \subseteq Row
  BY KnownType
<1>1. \A r \in KnownRows' : r \in KnownRows \/ \E p \in Paths : r = db'[p]
  BY ReadsAreKnown
<1>2. /\ stamps \in Nat /\ undone \subseteq 1 .. stamps
      /\ db \in Table /\ work \in Table
      /\ \A p \in Paths : db[p] \in KnownRows /\ db[p] \in Row /\ work[p] \in Row
  BY DEF TypeOK, UndoneInv, KnownRows, Table
<1>3. ASSUME db' = db
      PROVE  \A r \in KnownRows' : r \in KnownRows
  BY <1>1, <1>2, <1>3
\* Neither rows nor stamps change.
<1>4. ASSUME UNCHANGED <<db, work, undone, stamps>>
      PROVE  UndoneInv'
  BY <1>3, <1>4 DEF UndoneInv, Fresh
\* A statement inside the SQL transaction.
<1>5. ASSUME NEW w \in Writes, UNCHANGED <<db, undone>>, stamps' = NextStamp(w),
             work' = Apply(work, w, stamps')
      PROVE  UndoneInv'
  <2>1. w.path \in Paths
    BY DEF Writes
  <2>2. stamps' \in Nat /\ stamps <= stamps' /\ (~IsDelete(w) => stamps' = stamps + 1)
    BY <1>2, <1>5 DEF NextStamp
  <2>3. \A r \in KnownRows' : r \in KnownRows
    BY <1>3, <1>5
  <2>4. ASSUME NEW s, Fresh(s, stamps, undone, KnownRows)
        PROVE  Fresh(s, stamps', undone', KnownRows')
    BY <1>2, <1>5, <2>2, <2>3, <2>4 DEF Fresh
  <2>5. ASSUME NEW p \in Paths
        PROVE  \/ work'[p] = db'[p]
               \/ work'[p].version = 0 /\ work'[p].stamp = 0
               \/ Fresh(work'[p].stamp, stamps', undone', KnownRows')
    <3>1. CASE p # w.path
      <4>1. work'[p] = work[p]
        BY <1>2, <1>5, <2>1, <3>1 DEF Apply, Table
      <4> QED BY <1>5, <2>4, <4>1 DEF UndoneInv
    <3>2. CASE p = w.path /\ IsDelete(w)
      <4>1. work'[p] = Drop(work[p])
        BY <1>2, <1>5, <2>1, <3>2 DEF Apply, Table
      <4>2. CASE work[p].version = 0
        BY <1>5, <2>4, <4>1, <4>2 DEF UndoneInv, Drop
      <4>3. CASE work[p].version # 0
        BY <4>1, <4>3 DEF Drop
      <4> QED BY <4>2, <4>3
    <3>3. CASE p = w.path /\ ~IsDelete(w)
      <4>1. work'[p] = Put(work[p], stamps')
        BY <1>2, <1>5, <2>1, <3>3 DEF Apply, Table
      <4>2. work'[p].stamp = stamps + 1
        BY <2>2, <3>3, <4>1 DEF Put
      <4>3. \A r \in KnownRows : r.stamp # stamps + 1
        BY <1>0, <1>2 DEF UndoneInv, Row
      <4>4. stamps + 1 \notin undone
        BY <1>2
      <4> QED BY <1>2, <1>5, <2>2, <2>3, <3>3, <4>2, <4>3, <4>4 DEF Fresh
    <3> QED BY <3>1, <3>2, <3>3
  <2>6. undone' \subseteq 1 .. stamps'
    BY <1>2, <1>5, <2>2
  <2>7. \A r \in KnownRows' : r.stamp <= stamps' /\ r.stamp \notin undone'
    BY <1>0, <1>2, <1>5, <2>2, <2>3 DEF UndoneInv, Row
  <2> QED BY <2>5, <2>6, <2>7 DEF UndoneInv
\* A rollback.
<1>6. ASSUME ReleaseUndone, UNCHANGED stamps
      PROVE  UndoneInv'
  <2>1. \A s \in Uncommitted : Fresh(s, stamps, undone, KnownRows)
    BY <1>2 DEF Uncommitted, UndoneInv, Exists, Row
  <2>2. \A r \in KnownRows' : r \in KnownRows
    BY <1>3, <1>6 DEF ReleaseUndone
  <2>3. undone' \subseteq 1 .. stamps'
    BY <1>2, <1>6, <2>1 DEF ReleaseUndone, Fresh
  <2>4. \A r \in KnownRows' : r.stamp <= stamps' /\ r.stamp \notin undone'
    BY <1>6, <2>1, <2>2 DEF ReleaseUndone, Fresh, UndoneInv
  <2> QED BY <1>6, <2>3, <2>4 DEF ReleaseUndone, UndoneInv
\* A row that is committed now has a stamp that was not rolled back.
<1>7. ASSUME work' = db', stamps <= stamps', UNCHANGED undone,
             \A p \in Paths : db'[p].stamp <= stamps' /\ db'[p].stamp \notin undone
      PROVE  UndoneInv'
  <2>1. stamps' \in Nat
    BY DEF TypeOK
  <2>2. \A r \in KnownRows' : r.stamp <= stamps' /\ r.stamp \notin undone'
    BY <1>0, <1>1, <1>2, <1>7, <2>1 DEF UndoneInv, Row
  <2>3. undone' \subseteq 1 .. stamps'
    BY <1>2, <1>7, <2>1
  <2> QED BY <1>7, <2>2, <2>3 DEF UndoneInv
\* A commit.
<1>8. ASSUME db' = work, UNCHANGED <<work, undone, stamps>>
      PROVE  UndoneInv'
  <2>1. ASSUME NEW p \in Paths
        PROVE  work[p].stamp <= stamps /\ work[p].stamp \notin undone
    BY <1>2 DEF UndoneInv, Fresh
  <2> QED BY <1>2, <1>7, <1>8, <2>1
\* An autocommitted statement.
<1>9. ASSUME NEW w \in Writes, UNCHANGED undone, stamps' = NextStamp(w),
             db' = Apply(db, w, stamps'), work' = db'
      PROVE  UndoneInv'
  <2>1. w.path \in Paths
    BY DEF Writes
  <2>2. stamps' \in Nat /\ stamps <= stamps' /\ (~IsDelete(w) => stamps' = stamps + 1)
    BY <1>2, <1>9 DEF NextStamp
  <2>3. ASSUME NEW p \in Paths
        PROVE  db'[p].stamp <= stamps' /\ db'[p].stamp \notin undone
    <3>0. db[p].stamp \in Nat /\ db[p].stamp <= stamps /\ db[p].stamp \notin undone
      BY <1>2 DEF UndoneInv, Row
    <3>1. CASE p # w.path
      <4>1. db'[p] = db[p]
        BY <1>2, <1>9, <2>1, <3>1 DEF Apply, Table
      <4> QED BY <1>2, <2>2, <3>0, <4>1
    <3>2. CASE p = w.path
      <4>1. db'[p] = IF IsDelete(w) THEN Drop(db[p]) ELSE Put(db[p], stamps')
        BY <1>2, <1>9, <2>1, <3>2 DEF Apply, Table
      <4> QED BY <1>2, <2>2, <3>0, <4>1 DEF Drop, Put
    <3> QED BY <3>1, <3>2
  <2> QED BY <1>7, <1>9, <2>2, <2>3
<1>10. ASSUME NEW c \in Calls, PlainWrite(c)
       PROVE  UndoneInv'
  <2>1. calls[c].w \in Writes
    BY <1>10, CallFields DEF PlainWrite
  <2> QED BY <1>4, <1>9, <1>10, <2>1 DEF PlainWrite, histVars
<1>11. ASSUME NEW c \in Calls, BatchWrite(c) \/ CommitWrite(c)
       PROVE  UndoneInv'
  <2>1. Head(calls[c].todo) \in Writes
    BY <1>11, CallFields DEF BatchWrite, CommitWrite
  <2> QED BY <1>4, <1>5, <1>11, <2>1 DEF BatchWrite, CommitWrite, histVars
<1>12. ASSUME NEW c \in Calls, BatchFail(c) \/ CancelCall(c)
       PROVE  UndoneInv'
  BY <1>4, <1>6, <1>12 DEF BatchFail, CancelCall, dbVars
<1>13. ASSUME NEW c \in Calls, BatchCommit(c) \/ CommitFinish(c)
       PROVE  UndoneInv'
  BY <1>8, <1>13 DEF BatchCommit, CommitFinish, histVars
<1> QED
  BY <1>4, <1>10, <1>11, <1>12, <1>13
  DEF Next, StoreNext, CallStep, Notify, TxRecord, CommitBegin, ClientStep,
      RpcWrite, RpcMaskedWrite, BatchBegin, TxRead, CommitLoad, TxStep,
      BeginTransaction, RollbackTransaction, Expire, SweepExpiredTransactions,
      TakeChange, dbVars, histVars, vars

(***************************************************************************)
(* What a batch or a commit that fails or is cancelled has written is      *)
(* never committed and never read: not by a plain read, not into a read    *)
(* set, and not shown to the client of a transaction.                      *)
(***************************************************************************)
THEOREM RollbacksLeaveNoTrace == Spec => []RolledBackInvisible
<1> DEFINE Inv == StoreInv /\ UndoneInv
<1>1. Init => UndoneInv
  <2> SUFFICES ASSUME Init
               PROVE  UndoneInv
    OBVIOUS
  <2>1. \A r \in KnownRows : r = NoRow
    BY DEF Init, KnownRows, Unused, NoReads, Idle, At
  <2> QED BY <2>1 DEF Init, UndoneInv, NoRow
<1>2. Inv /\ [Next]_vars => Inv'
  BY TypeStep, InvStep, UndoneStep DEF StoreInv
<1>3. Inv => RolledBackInvisible
  <2> SUFFICES ASSUME UndoneInv
               PROVE  RolledBackInvisible
    OBVIOUS
  <2>1. \A r \in KnownRows : r.stamp \notin undone
    BY DEF UndoneInv
  <2>2. \A p \in Paths : db[p] \in KnownRows
    BY DEF KnownRows
  <2>3. \A t \in TxIds : \A p \in Paths : txs[t].reads[p] \in KnownRows
    BY DEF KnownRows
  <2>4. \A t \in TxIds : \A s \in shown[t] : s[2] \in KnownRows
    BY DEF KnownRows
  <2> QED BY <2>1, <2>2, <2>3, <2>4 DEF RolledBackInvisible
<1> HIDE DEF Inv
<1>4. Init => Inv
  BY <1>1, InitInv DEF Inv
<1> QED BY <1>2, <1>3, <1>4, PTL DEF Spec

-----------------------------------------------------------------------------
\* The mapping of SqliteRefinement, for the lemmas about AtomicStore.
Facts == INSTANCE AtomicStore_proofs WITH
  Singles  <- RpcWrites \cup {[w EXCEPT !.kind = "update"] : w \in RpcWrites},
  table    <- [p \in Paths |-> Plain(db[p])],
  begun    <- {t \in TxIds : txs[t].used},
  sets     <- [t \in TxIds |-> LiveSets(t)],
  Isolated <- TRUE

Singles == RpcWrites \cup {[w EXCEPT !.kind = "update"] : w \in RpcWrites}

Committing(c) == calls[c].at \in {"commit", "applying"}

(***************************************************************************)
(* The call has executed the first n writes of one of the lists on the     *)
(* table that was committed when it began, and has the rest to do.         *)
(***************************************************************************)
Partway(todo, lists, from, to) ==
  \E ws \in lists : \E n \in 0 .. Len(ws) :
    /\ Len(todo) = Len(ws) - n
    /\ \A i \in 1 .. Len(ws) - n : todo[i] = ws[n + i]
    /\ to \in Store!Reached(from, ws)[n]

\* What a request in flight is part of.
CallMaps(c) ==
  /\ At(c, "write") => calls[c].w \in Singles
  /\ At(c, "commit") => calls[c].ops \in TxOps
  /\ At(c, "batch") => Partway(calls[c].todo, Batches, PlainSet(db), PlainSet(work))
  /\ At(c, "applying") => Partway(calls[c].todo, TxOps, PlainSet(db), PlainSet(work))

\* A transaction that has not begun has read nothing.
TxMaps(t) == ~txs[t].used => txs[t].reads = NoReads /\ txs[t].decodes

(***************************************************************************)
(* What the mapping needs beside StoreInv.                                 *)
(***************************************************************************)
MapInv ==
  /\ \A c \in Calls : CallMaps(c)
  /\ \A t \in TxIds : TxMaps(t)

-----------------------------------------------------------------------------
(***************************************************************************)
(* Tables and outcomes.                                                    *)
(***************************************************************************)

\* The lemma of AtomicStore_proofs, under the mapping.
LEMMA ReachedSteps ==
  ASSUME NEW tbl, NEW ws, Len(ws) \in Nat
  PROVE  /\ Store!Reached(tbl, ws)[0] = {tbl}
         /\ \A n \in 1 .. Len(ws) :
              Store!Reached(tbl, ws)[n] =
                UNION {Store!Outcomes(tbl2, ws[n]) :
                         tbl2 \in Store!Reached(tbl, ws)[n - 1]}
<1>1. \A w, t : Facts!Outcomes(t, w) = Store!Outcomes(t, w)
  BY DEF Facts!Outcomes, Store!Outcomes, Facts!RowOutcomes, Store!RowOutcomes,
         Facts!Written, Facts!Deleted, Store!Written, Store!Deleted
<1>2. Facts!Reached(tbl, ws) = Store!Reached(tbl, ws)
  BY DEF Facts!Reached, Store!Reached, Facts!Outcomes, Store!Outcomes,
         Facts!RowOutcomes, Store!RowOutcomes, Facts!Written, Facts!Deleted,
         Store!Written, Store!Deleted
<1> QED BY <1>1, <1>2, Facts!ReachedSteps

\* A statement that is not refused is one of the outcomes promised.
LEMMA ApplyOutcome ==
  ASSUME NEW tbl \in Table, NEW w \in Writes, NEW s \in Nat, ~WriteFails(tbl, w)
  PROVE  PlainSet(Apply(tbl, w, s)) \in Store!Outcomes(PlainSet(tbl), w)
<1> DEFINE p == w.path
           r == tbl[p]
           new == IF IsDelete(w) THEN Drop(r) ELSE Put(r, s)
<1>1. p \in Paths /\ r \in Row /\ PlainSet(tbl)[p] = Plain(r)
  BY DEF Writes, Table, PlainSet
<1>2. Apply(tbl, w, s) = [tbl EXCEPT ![p] = new]
  BY DEF Apply
<1> HIDE DEF new
<1>3. PlainSet(Apply(tbl, w, s)) =
        [q \in Paths |-> IF q = p THEN Plain(new) ELSE PlainSet(tbl)[q]]
  BY <1>1, <1>2 DEF PlainSet, Table
<1>4. Plain(new) \in Store!RowOutcomes(Plain(r), w.kind)
  <2>1. w.kind \in PlainKinds \cup {"updateIf"}
    BY DEF Writes
  <2>2. CASE IsDelete(w)
    <3>1. Plain(new) = Store!Deleted(Plain(r))
      BY <1>1, <2>2 DEF new, Drop, Plain, Store!Deleted, Row
    <3>2. w.kind = "deleteExisting" => Plain(r).version > 0
      BY <1>1 DEF WriteFails, Exists, Plain
    <3> QED BY <2>2, <3>1, <3>2 DEF IsDelete, Store!RowOutcomes
  <2>3. CASE ~IsDelete(w)
    <3>1. Plain(new) = Store!Written(Plain(r))
      BY <1>1, <2>3 DEF new, Put, Plain, Store!Written, Row
    <3>2. /\ w.kind \in {"update", "updateIf"} => Plain(r).version > 0
          /\ w.kind = "insert" => Plain(r).version = 0
      BY <1>1 DEF WriteFails, Exists, Plain, Row
    <3> QED BY <2>1, <2>3, <3>1, <3>2 DEF IsDelete, PlainKinds, Store!RowOutcomes
  <2> QED BY <2>2, <2>3
<1> HIDE DEF p, r
<1> QED BY <1>1, <1>3, <1>4 DEF Store!Outcomes, p, r

\* So is a delete that finds no row, which executes no write.
LEMMA NoopOutcome ==
  ASSUME NEW tbl \in Table, NEW w \in Writes, IsDelete(w), ~Exists(tbl, w.path),
         ~WriteFails(tbl, w)
  PROVE  PlainSet(tbl) \in Store!Outcomes(PlainSet(tbl), w)
<1>1. Apply(tbl, w, 0) = tbl
  BY DEF Apply, Drop, Exists, Table, Writes, Row
<1>2. PlainSet(Apply(tbl, w, 0)) \in Store!Outcomes(PlainSet(tbl), w)
  BY ApplyOutcome
<1> QED BY <1>1, <1>2

\* One more write of the list.
LEMMA PartwayStep ==
  ASSUME NEW todo, todo # <<>>, NEW lists, todo \in Seq(Writes), lists \subseteq Seq(Writes),
         NEW from, NEW to, Partway(todo, lists, from, to),
         NEW next \in Store!Outcomes(to, Head(todo))
  PROVE  Partway(Tail(todo), lists, from, next)
<1>0. PICK ws \in lists : \E n \in 0 .. Len(ws) :
        /\ Len(todo) = Len(ws) - n
        /\ \A i \in 1 .. Len(ws) - n : todo[i] = ws[n + i]
        /\ to \in Store!Reached(from, ws)[n]
  BY DEF Partway
<1>1. PICK n \in 0 .. Len(ws) :
        /\ Len(todo) = Len(ws) - n
        /\ \A i \in 1 .. Len(ws) - n : todo[i] = ws[n + i]
        /\ to \in Store!Reached(from, ws)[n]
  BY <1>0
<1>2. Len(ws) \in Nat /\ Len(todo) \in Nat /\ Len(todo) > 0
  OBVIOUS
<1>3. n + 1 \in 1 .. Len(ws) /\ n + 1 \in 0 .. Len(ws) /\ (n + 1) - 1 = n
  BY <1>1, <1>2
<1>4. Head(todo) = ws[n + 1]
  BY <1>1, <1>2
<1>5. /\ Len(Tail(todo)) = Len(ws) - (n + 1)
      /\ \A i \in 1 .. Len(ws) - (n + 1) : Tail(todo)[i] = ws[(n + 1) + i]
  BY <1>1, <1>2
<1>6. next \in Store!Reached(from, ws)[n + 1]
  <2>1. Store!Reached(from, ws)[n + 1] =
          UNION {Store!Outcomes(tbl2, ws[n + 1]) :
                   tbl2 \in Store!Reached(from, ws)[(n + 1) - 1]}
    BY <1>2, <1>3, ReachedSteps
  <2> QED BY <1>1, <1>3, <1>4, <2>1
<1> QED BY <1>3, <1>5, <1>6 DEF Partway

\* Nothing has been written at the start, and everything at the end.
LEMMA PartwayEnds ==
  ASSUME NEW lists, lists \subseteq Seq(Writes), NEW from
  PROVE  /\ \A ws \in lists : Partway(ws, lists, from, from)
         /\ \A to : Partway(<<>>, lists, from, to) =>
              \E ws \in lists : to \in Store!AllOutcomes(from, ws)
<1>1. ASSUME NEW ws \in lists
      PROVE  Partway(ws, lists, from, from)
  <2>1. Len(ws) \in Nat
    OBVIOUS
  <2>2. from \in Store!Reached(from, ws)[0]
    BY <2>1, ReachedSteps
  <2>3. /\ 0 \in 0 .. Len(ws) /\ Len(ws) = Len(ws) - 0
        /\ \A i \in 1 .. Len(ws) - 0 : ws[i] = ws[0 + i]
    BY <2>1
  <2> QED BY <2>2, <2>3 DEF Partway
<1>2. ASSUME NEW to, Partway(<<>>, lists, from, to)
      PROVE  \E ws \in lists : to \in Store!AllOutcomes(from, ws)
  <2>0. PICK ws \in lists : \E n \in 0 .. Len(ws) :
          Len(<<>>) = Len(ws) - n /\ to \in Store!Reached(from, ws)[n]
    BY <1>2 DEF Partway
  <2>1. PICK n \in 0 .. Len(ws) :
          Len(<<>>) = Len(ws) - n /\ to \in Store!Reached(from, ws)[n]
    BY <2>0
  <2>2. n = Len(ws)
    BY <2>1
  <2> QED BY <2>1, <2>2 DEF Store!AllOutcomes
<1> QED BY <1>1, <1>2

-----------------------------------------------------------------------------
(***************************************************************************)
(* MapInv is an invariant.                                                 *)
(***************************************************************************)

\* A call that keeps its state stays part of its request if no row changes,
\* or if it is outside every SQL transaction.
LEMMA MapsKept ==
  ASSUME NEW c \in Calls, CallMaps(c), calls'[c] = calls[c],
         UNCHANGED <<db, work>> \/ calls[c].at \notin {"batch", "applying"}
  PROVE  CallMaps(c)'
BY DEF CallMaps, At

\* A step of one call, that is alone in a SQL transaction or changes no row.
LEMMA MapsOthers ==
  ASSUME TypeOK, NoLeakedConnection, MapInv, NEW c \in Calls, NEW state,
         Goto(c, state), UNCHANGED <<db, work>> \/ conn \in {c, None}
  PROVE  /\ calls'[c] = state
         /\ \A d \in Calls \ {c} : CallMaps(d)'
<1>1. calls'[c] = state /\ \A d \in Calls \ {c} : calls'[d] = calls[d]
  BY DEF Goto, TypeOK
<1>2. ASSUME NEW d \in Calls \ {c}, conn \in {c, None}
      PROVE  calls[d].at \notin {"batch", "applying"}
  BY <1>2, ConstantsAssumption DEF NoLeakedConnection
<1> QED BY <1>1, <1>2, MapsKept DEF MapInv

\* A call that goes to a state in which it is part of nothing.
LEMMA MapsDone ==
  ASSUME TypeOK, NoLeakedConnection, MapInv, NEW c \in Calls, NEW state,
         Goto(c, state), UNCHANGED <<db, work>> \/ conn \in {c, None},
         state.at \in {"idle", "notify", "record"}
  PROVE  \A d \in Calls : CallMaps(d)'
<1>1. calls'[c] = state /\ \A d \in Calls \ {c} : CallMaps(d)'
  BY MapsOthers
<1>2. CallMaps(c)'
  BY <1>1 DEF CallMaps, At
<1> QED BY <1>1, <1>2

\* The next write of a SQL transaction.
LEMMA MapsWrite ==
  ASSUME TypeOK, NEW todo \in Seq(Writes), todo # <<>>, NEW lists, lists \subseteq Seq(Writes),
         NEW from, Partway(todo, lists, from, PlainSet(work)),
         ~WriteFails(work, Head(todo)),
         \/ /\ IsDelete(Head(todo)) /\ ~Exists(work, Head(todo).path)
            /\ work' = work
         \/ /\ stamps' = NextStamp(Head(todo))
            /\ work' = Apply(work, Head(todo), stamps')
  PROVE  Partway(Tail(todo), lists, from, PlainSet(work)')
<1>1. Head(todo) \in Writes
  OBVIOUS
<1>2. work \in Table /\ stamps \in Nat
  BY DEF TypeOK
<1>3. PlainSet(work') \in Store!Outcomes(PlainSet(work), Head(todo))
  <2>1. CASE work' = work /\ IsDelete(Head(todo)) /\ ~Exists(work, Head(todo).path)
    BY <1>1, <1>2, <2>1, NoopOutcome
  <2>2. CASE stamps' = NextStamp(Head(todo)) /\ work' = Apply(work, Head(todo), stamps')
    <3>1. stamps' \in Nat
      BY <1>2, <2>2 DEF NextStamp
    <3> QED BY <1>1, <1>2, <2>2, <3>1, ApplyOutcome
  <2> QED BY <2>1, <2>2
<1>4. PlainSet(work)' = PlainSet(work')
  BY DEF PlainSet, Plain
<1> QED BY <1>3, <1>4, PartwayStep

LEMMA MapStep ==
  ASSUME StoreInv, MapInv, [Next]_vars
  PROVE  MapInv'
<1>1. TypeOK /\ NoLeakedConnection
  BY DEF StoreInv
<1>2. ASSUME NEW c \in Calls, CallStep(c) \/ ClientStep(c)
      PROVE  \A d \in Calls : CallMaps(d)'
  <2>1. CASE PlainWrite(c)
    <3>1. PICK out : Goto(c, out) /\ out.at \in {"idle", "notify"}
      BY <2>1 DEF PlainWrite, Announcing, Idle
    <3> QED BY <1>1, <2>1, <3>1, MapsDone DEF PlainWrite
  <2>2. CASE Notify(c)
    <3>1. PICK out : Goto(c, out) /\ out.at \in {"idle", "notify"}
      BY <2>2 DEF Notify, Announcing, Idle
    <3> QED BY <1>1, <2>2, <3>1, MapsDone DEF Notify, dbVars
  <2>3. CASE BatchWrite(c)
    <3>1. conn = c /\ calls[c].todo \in Seq(Writes)
      BY <1>1, <2>3, CallFields DEF BatchWrite, At, NoLeakedConnection
    <3>2. /\ calls'[c] = [at |-> "batch", todo |-> Tail(calls[c].todo)]
          /\ \A d \in Calls \ {c} : CallMaps(d)'
      BY <1>1, <2>3, <3>1, MapsOthers DEF BatchWrite
    <3>3. Partway(calls[c].todo, Batches, PlainSet(db), PlainSet(work))
      BY <2>3 DEF BatchWrite, MapInv, CallMaps
    <3>4. Partway(Tail(calls[c].todo), Batches, PlainSet(db), PlainSet(work)')
      BY <1>1, <2>3, <3>1, <3>3, ConstantsAssumption, MapsWrite DEF BatchWrite
    <3>5. PlainSet(db)' = PlainSet(db)
      BY <2>3 DEF BatchWrite, PlainSet, Plain
    <3>6. CallMaps(c)'
      BY <3>2, <3>4, <3>5 DEF CallMaps, At
    <3> QED BY <3>2, <3>6
  <2>4. CASE BatchFail(c)
    <3>1. Goto(c, Idle) /\ conn = c
      BY <1>1, <2>4 DEF BatchFail, At, NoLeakedConnection
    <3> QED BY <1>1, <3>1, MapsDone DEF Idle
  <2>5. CASE BatchCommit(c)
    <3>1. Goto(c, Idle) /\ conn = c
      BY <1>1, <2>5 DEF BatchCommit, At, NoLeakedConnection
    <3> QED BY <1>1, <3>1, MapsDone DEF Idle
  <2>6. CASE TxRecord(c)
    BY <1>1, <2>6, MapsDone DEF TxRecord, dbVars, Idle
  <2>7. CASE CommitBegin(c)
    <3>1. CASE Goto(c, Idle)
      BY <1>1, <2>7, <3>1, MapsDone DEF CommitBegin, Idle
    <3>2. CASE Goto(c, [at |-> "applying", tx |-> calls[c].tx,
                        reads |-> calls[c].reads, todo |-> calls[c].ops,
                        out |-> <<>>])
      <4>1. conn = None /\ UNCHANGED <<db, work>> /\ work = db
        BY <1>1, <2>7 DEF CommitBegin, NoLeakedConnection
      <4>2. /\ calls'[c] = [at |-> "applying", tx |-> calls[c].tx,
                            reads |-> calls[c].reads, todo |-> calls[c].ops,
                            out |-> <<>>]
            /\ \A d \in Calls \ {c} : CallMaps(d)'
        BY <1>1, <3>2, <4>1, MapsOthers
      <4>3. calls[c].ops \in TxOps
        BY <2>7 DEF CommitBegin, MapInv, CallMaps
      <4>4. Partway(calls[c].ops, TxOps, PlainSet(db), PlainSet(work))
        BY <4>1, <4>3, ConstantsAssumption, PartwayEnds
      <4>5. PlainSet(db)' = PlainSet(db) /\ PlainSet(work)' = PlainSet(work)
        BY <4>1 DEF PlainSet, Plain
      <4>6. CallMaps(c)'
        BY <4>2, <4>4, <4>5 DEF CallMaps, At
      <4> QED BY <4>2, <4>6
    <3> QED BY <2>7, <3>1, <3>2 DEF CommitBegin
  <2>8. CASE CommitWrite(c)
    <3> DEFINE next == [calls[c] EXCEPT !.todo = Tail(@),
                                        !.out = Append(@, EventOf(Head(calls[c].todo)))]
    <3>1. conn = c /\ calls[c].todo \in Seq(Writes)
      BY <1>1, <2>8, CallFields DEF CommitWrite, At, NoLeakedConnection
    <3>2. calls'[c] = next /\ \A d \in Calls \ {c} : CallMaps(d)'
      BY <1>1, <2>8, <3>1, MapsOthers DEF CommitWrite
    <3>3. Partway(calls[c].todo, TxOps, PlainSet(db), PlainSet(work))
      BY <2>8 DEF CommitWrite, MapInv, CallMaps
    <3>4. ~WriteFails(work, Head(calls[c].todo))
      <4>1. PICK ws \in TxOps : \E n \in 0 .. Len(ws) :
              /\ Len(calls[c].todo) = Len(ws) - n
              /\ \A i \in 1 .. Len(ws) - n : calls[c].todo[i] = ws[n + i]
        BY <3>3 DEF Partway
      <4>2. PICK n \in 0 .. Len(ws) :
              /\ Len(calls[c].todo) = Len(ws) - n
              /\ \A i \in 1 .. Len(ws) - n : calls[c].todo[i] = ws[n + i]
        BY <4>1
      <4>3. ws \in Seq(Writes) /\ \A i \in DOMAIN ws : ws[i].kind \in {"upsert", "delete"}
        BY ConstantsAssumption
      <4>4. n + 1 \in DOMAIN ws /\ Head(calls[c].todo) = ws[n + 1]
        <5>1. Len(ws) \in Nat /\ DOMAIN ws = 1 .. Len(ws)
          BY <4>3
        <5>2. /\ Len(calls[c].todo) \in Nat /\ Len(calls[c].todo) > 0
              /\ Head(calls[c].todo) = calls[c].todo[1]
          BY <2>8, <3>1 DEF CommitWrite
        <5>3. 1 \in 1 .. Len(ws) - n /\ n + 1 \in 1 .. Len(ws)
          <6>1. Len(calls[c].todo) = Len(ws) - n
            BY <4>2
          <6>2. Len(ws) - n > 0
            BY <5>2, <6>1
          <6>3. n \in Nat
            BY <5>1
          <6> QED BY <5>1, <6>2, <6>3
        <5>4. calls[c].todo[1] = ws[n + 1]
          BY <4>2, <5>3
        <5> QED BY <5>1, <5>2, <5>3, <5>4
      <4> QED BY <4>3, <4>4 DEF WriteFails
    <3>5. Partway(Tail(calls[c].todo), TxOps, PlainSet(db), PlainSet(work)')
      BY <1>1, <2>8, <3>1, <3>3, <3>4, ConstantsAssumption, MapsWrite DEF CommitWrite
    <3>6. PlainSet(db)' = PlainSet(db)
      BY <2>8 DEF CommitWrite, PlainSet, Plain
    <3>7. next.at = "applying" /\ next.todo = Tail(calls[c].todo)
      <4>1. calls[c] \in [at : {"applying"}, tx : TxIds, reads : Table,
                          todo : Seq(Writes), out : Seq(Events)]
        BY <1>1, <2>8 DEF CommitWrite, At, TypeOK, CallState, Idle
      <4> QED BY <4>1
    <3> HIDE DEF next
    <3>8. CallMaps(c)'
      BY <3>2, <3>5, <3>6, <3>7 DEF CallMaps, At
    <3> QED BY <3>2, <3>8
  <2>9. CASE CommitFinish(c)
    <3>1. PICK out : Goto(c, out) /\ out.at \in {"idle", "notify"}
      BY <2>9 DEF CommitFinish, Announcing, Idle
    <3>2. conn = c
      BY <1>1, <2>9 DEF CommitFinish, At, NoLeakedConnection
    <3> QED BY <1>1, <3>1, <3>2, MapsDone
  <2>10. ASSUME NEW w \in RpcWrites, RpcWrite(c, w) \/ RpcMaskedWrite(c, w)
         PROVE  \A d \in Calls : CallMaps(d)'
    <3>1. PICK w2 \in Singles : Goto(c, [at |-> "write", w |-> w2])
      BY <2>10 DEF RpcWrite, RpcMaskedWrite, Singles
    <3>2. calls'[c] = [at |-> "write", w |-> w2] /\ \A d \in Calls \ {c} : CallMaps(d)'
      BY <1>1, <2>10, <3>1, MapsOthers DEF RpcWrite, RpcMaskedWrite, dbVars
    <3>3. CallMaps(c)'
      BY <3>2 DEF CallMaps, At, Singles
    <3> QED BY <3>2, <3>3
  <2>11. ASSUME NEW ws \in Batches, BatchBegin(c, ws)
         PROVE  \A d \in Calls : CallMaps(d)'
    <3>1. conn = None /\ UNCHANGED <<db, work>> /\ work = db
      BY <1>1, <2>11 DEF BatchBegin, NoLeakedConnection
    <3>2. calls'[c] = [at |-> "batch", todo |-> ws] /\ \A d \in Calls \ {c} : CallMaps(d)'
      BY <1>1, <2>11, <3>1, MapsOthers DEF BatchBegin
    <3>3. Partway(ws, Batches, PlainSet(db), PlainSet(work))
      BY <3>1, ConstantsAssumption, PartwayEnds
    <3>4. PlainSet(db)' = PlainSet(db) /\ PlainSet(work)' = PlainSet(work)
      BY <3>1 DEF PlainSet, Plain
    <3>5. CallMaps(c)'
      BY <3>2, <3>3, <3>4 DEF CallMaps, At
    <3> QED BY <3>2, <3>5
  <2>12. ASSUME NEW t \in TxIds, NEW p \in Paths, TxRead(c, t, p)
         PROVE  \A d \in Calls : CallMaps(d)'
    <3>1. CASE UNCHANGED calls
      BY <2>12, <3>1, MapsKept DEF TxRead, dbVars, MapInv
    <3>2. CASE Goto(c, [at |-> "record", tx |-> t, path |-> p, row |-> db[p]])
      BY <1>1, <2>12, <3>2, MapsDone DEF TxRead, dbVars
    <3> QED BY <2>12, <3>1, <3>2 DEF TxRead
  <2>13. ASSUME NEW t \in TxIds, NEW ops \in TxOps, CommitLoad(c, t, ops)
         PROVE  \A d \in Calls : CallMaps(d)'
    <3>1. /\ calls'[c] = [at |-> "commit", tx |-> t, reads |-> txs[t].reads, ops |-> ops]
          /\ \A d \in Calls \ {c} : CallMaps(d)'
      BY <1>1, <2>13, MapsOthers DEF CommitLoad, dbVars
    <3>2. CallMaps(c)'
      BY <3>1 DEF CallMaps, At
    <3> QED BY <3>1, <3>2
  <2>14. CASE CancelCall(c)
    <3>1. Goto(c, Idle) /\ (UNCHANGED <<db, work>> \/ conn \in {c, None})
      BY <2>14 DEF CancelCall, dbVars
    <3> QED BY <1>1, <3>1, MapsDone DEF Idle
  <2> QED BY <1>2, <2>1, <2>2, <2>3, <2>4, <2>5, <2>6, <2>7, <2>8, <2>9, <2>10,
             <2>11, <2>12, <2>13, <2>14
          DEF CallStep, ClientStep
<1>3. ASSUME UNCHANGED <<db, work, calls>>
      PROVE  \A d \in Calls : CallMaps(d)'
  BY <1>3, MapsKept DEF MapInv
<1>4. \A d \in Calls : CallMaps(d)'
  BY <1>2, <1>3 DEF Next, StoreNext, TxStep, BeginTransaction, RollbackTransaction,
                    Expire, SweepExpiredTransactions, TakeChange, dbVars, vars
<1>5. ASSUME NEW t \in TxIds
      PROVE  TxMaps(t)'
  <2>0. txs[t] \in TxRow /\ TxMaps(t)
    BY <1>1 DEF MapInv, TypeOK
  <2>1. CASE txs' = txs
    BY <2>0, <2>1 DEF TxMaps
  <2>2. ASSUME NEW c \in Calls, TxRecord(c)
        PROVE  TxMaps(t)'
    <3>1. calls[c].tx \in TxIds /\ txs[calls[c].tx].used
      BY <1>1, <2>2, CallFields DEF TxRecord, StoreInv, CallOld
    <3>2. CASE t = calls[c].tx
      <4>1. txs'[t].used
        <5>1. txs' = txs
              \/ \E tx \in Record(txs[t], calls[c].path, calls[c].row) \cup {txs[t]} :
                   txs' = [txs EXCEPT ![t] = tx]
          BY <2>2, <3>2 DEF TxRecord
        <5>2. \A tx \in Record(txs[t], calls[c].path, calls[c].row) : tx.used = txs[t].used
          BY <2>0 DEF Record, TxRow
        <5> QED BY <1>1, <3>1, <3>2, <5>1, <5>2 DEF TypeOK
      <4> QED BY <4>1 DEF TxMaps
    <3>3. CASE t # calls[c].tx
      <4>1. txs' = txs \/ \E tx : txs' = [txs EXCEPT ![calls[c].tx] = tx]
        BY <2>2 DEF TxRecord
      <4>2. txs'[t] = txs[t]
        BY <1>1, <3>3, <4>1 DEF MapInv, TypeOK
      <4> QED BY <2>0, <4>2 DEF TxMaps
    <3> QED BY <3>2, <3>3
  <2>3. ASSUME txs'[t].used = txs[t].used, txs'[t].reads = txs[t].reads,
               txs'[t].decodes = txs[t].decodes
        PROVE  TxMaps(t)'
    BY <2>0, <2>3 DEF TxMaps
  <2>4. ASSUME NEW u \in TxIds, TxStep(u)
        PROVE  TxMaps(t)'
    <3>0. txs[u] \in TxRow
      BY <1>1 DEF TypeOK
    <3>1. \A b \in BOOLEAN :
            /\ [txs[u] EXCEPT !.used = b, !.row = b].used = b
            /\ [txs[u] EXCEPT !.row = b].used = txs[u].used
            /\ [txs[u] EXCEPT !.row = b].reads = txs[u].reads
            /\ [txs[u] EXCEPT !.row = b].decodes = txs[u].decodes
            /\ [txs[u] EXCEPT !.expired = b].used = txs[u].used
            /\ [txs[u] EXCEPT !.expired = b].reads = txs[u].reads
            /\ [txs[u] EXCEPT !.expired = b].decodes = txs[u].decodes
      BY <3>0 DEF TxRow
    <3>2. CASE t # u
      <4>1. txs'[t] = txs[t]
        BY <1>1, <2>4, <3>2 DEF TxStep, BeginTransaction, RollbackTransaction,
                                Expire, TypeOK
      <4> QED BY <2>3, <4>1
    <3>3. CASE t = u /\ BeginTransaction(u)
      <4>1. txs'[t].used
        BY <1>1, <3>1, <3>3 DEF BeginTransaction, TypeOK
      <4> QED BY <4>1 DEF TxMaps
    <3>4. CASE t = u /\ (RollbackTransaction(u) \/ Expire(u))
      BY <1>1, <2>3, <3>1, <3>4 DEF RollbackTransaction, Expire, TypeOK
    <3> QED BY <2>4, <3>2, <3>3, <3>4 DEF TxStep
  <2>5. CASE SweepExpiredTransactions
    BY <1>1, <2>0, <2>3, <2>5 DEF SweepExpiredTransactions, TypeOK, TxRow
  <2>6. ASSUME NEW c \in Calls, CommitFinish(c)
        PROVE  TxMaps(t)'
    BY <1>1, <2>0, <2>3, <2>6 DEF CommitFinish, TypeOK, TxRow
  <2> QED
    BY <2>1, <2>2, <2>4, <2>5, <2>6
    DEF Next, StoreNext, CallStep, PlainWrite, Notify, BatchWrite, BatchFail,
        BatchCommit, CommitBegin, CommitWrite, ClientStep, RpcWrite,
        RpcMaskedWrite, BatchBegin, CommitLoad, CancelCall, TxRead, TakeChange,
        vars
<1> QED BY <1>4, <1>5 DEF MapInv

-----------------------------------------------------------------------------
(***************************************************************************)
(* Every step is a step of AtomicStore, or a stutter.                      *)
(***************************************************************************)

\* The read sets before and after a step.
LEMMA LiveSetsAre ==
  ASSUME NEW t \in TxIds
  PROVE  /\ \A x : x \in LiveSets(t) <=>
              \/ txs[t].row /\ txs[t].decodes /\ x = PlainSet(txs[t].reads)
              \/ \E c \in Calls : /\ Committing(c) /\ calls[c].tx = t
                                  /\ x = PlainSet(calls[c].reads)
         /\ \A x : x \in LiveSets(t)' <=>
              \/ txs'[t].row /\ txs'[t].decodes /\ x = PlainSet(txs'[t].reads)
              \/ \E c \in Calls : /\ Committing(c)' /\ calls'[c].tx = t
                                  /\ x = PlainSet(calls'[c].reads)
<1>1. \A reads : PlainSet(reads) = [p \in Paths |-> Plain(reads[p])]
  BY DEF PlainSet
<1> QED BY <1>1 DEF LiveSets, Committing, PlainSet, Plain

\* The transactions table has no new read set.
NoNewRow(t) ==
  /\ txs'[t].row => txs[t].row
  /\ txs'[t].decodes = txs[t].decodes
  /\ txs'[t].reads = txs[t].reads

\* No read set appears if calls only leave CommitTransaction.
LEMMA SetsShrink ==
  ASSUME NEW t \in TxIds, NoNewRow(t),
         \A c \in Calls : Committing(c)' => calls'[c] = calls[c]
  PROVE  LiveSets(t)' \subseteq LiveSets(t)
BY LiveSetsAre DEF NoNewRow, Committing

\* None disappears either if none leaves it.
LEMMA SetsSame ==
  ASSUME NEW t \in TxIds, txs'[t] = txs[t],
         \A c \in Calls : \/ calls'[c] = calls[c]
                          \/ ~Committing(c) /\ ~Committing(c)'
                          \/ /\ Committing(c) /\ Committing(c)'
                             /\ calls'[c].tx = calls[c].tx
                             /\ calls'[c].reads = calls[c].reads
  PROVE  LiveSets(t)' = LiveSets(t)
<1>1. \A x : x \in LiveSets(t)' <=> x \in LiveSets(t)
  BY LiveSetsAre DEF Committing
<1> QED BY <1>1

\* The variables of AtomicStore.
LEMMA StoreVars ==
  /\ PlainSet(db) = [p \in Paths |-> Plain(db[p])]
  /\ PlainSet(db)' = [p \in Paths |-> Plain(db'[p])]
  /\ db' = db => PlainSet(db)' = PlainSet(db)
BY DEF PlainSet, Plain

\* A step that changes neither documents nor read sets.
LEMMA Stutters ==
  ASSUME UNCHANGED db, \A t \in TxIds : txs'[t].used = txs[t].used,
         \A t \in TxIds : LiveSets(t)' = LiveSets(t)
  PROVE  UNCHANGED Store!vars
<1>1. {t \in TxIds : txs[t].used}' = {t \in TxIds : txs[t].used}
  OBVIOUS
<1>2. [t \in TxIds |-> LiveSets(t)]' = [t \in TxIds |-> LiveSets(t)]
  OBVIOUS
<1>3. [p \in Paths |-> Plain(db[p])]' = [p \in Paths |-> Plain(db[p])]
  BY DEF Plain
<1> QED BY <1>1, <1>2, <1>3 DEF Store!vars

\* A step that gives read sets up.
LEMMA GivesUp ==
  ASSUME UNCHANGED db, \A t \in TxIds : txs'[t].used = txs[t].used,
         \A t \in TxIds : LiveSets(t)' \subseteq LiveSets(t)
  PROVE  Store!Remember
<1>1. {t \in TxIds : txs[t].used}' = {t \in TxIds : txs[t].used}
  OBVIOUS
<1>2. [p \in Paths |-> Plain(db[p])]' = [p \in Paths |-> Plain(db[p])]
  BY DEF Plain
<1>3. \A t \in TxIds : [u \in TxIds |-> LiveSets(u)]'[t] \subseteq [u \in TxIds |-> LiveSets(u)][t]
  OBVIOUS
<1> QED BY <1>1, <1>2, <1>3 DEF Store!Remember

\* A step of a call that begins and ends outside CommitTransaction.
LEMMA CallStutters ==
  ASSUME TypeOK, NEW c \in Calls, NEW state, Goto(c, state), UNCHANGED <<db, txs>>,
         ~Committing(c), state.at \notin {"commit", "applying"}
  PROVE  UNCHANGED Store!vars
<1>1. calls'[c] = state /\ \A d \in Calls \ {c} : calls'[d] = calls[d]
  BY DEF Goto, TypeOK
<1>2. \A t \in TxIds : LiveSets(t)' = LiveSets(t)
  BY <1>1, SetsSame DEF Committing
<1> QED BY <1>2, Stutters

\* A step of a call that stays in CommitTransaction with its read set.
LEMMA CommitStutters ==
  ASSUME TypeOK, NEW c \in Calls, NEW state, Goto(c, state), UNCHANGED <<db, txs>>,
         Committing(c), state.at \in {"commit", "applying"},
         state.tx = calls[c].tx, state.reads = calls[c].reads
  PROVE  UNCHANGED Store!vars
<1>1. calls'[c] = state /\ \A d \in Calls \ {c} : calls'[d] = calls[d]
  BY DEF Goto, TypeOK
<1>2. \A t \in TxIds : LiveSets(t)' = LiveSets(t)
  BY <1>1, SetsSame DEF Committing
<1> QED BY <1>2, Stutters

\* A step of a call that ends without an effect.
LEMMA CallGivesUp ==
  ASSUME TypeOK, NEW c \in Calls, Goto(c, Idle), UNCHANGED <<db, txs>>
  PROVE  Store!Remember
<1>1. calls'[c] = Idle /\ \A d \in Calls \ {c} : calls'[d] = calls[d]
  BY DEF Goto, TypeOK
<1>2. \A t \in TxIds : LiveSets(t)' \subseteq LiveSets(t)
  BY <1>1, SetsShrink DEF Committing, Idle, NoNewRow
<1> QED BY <1>2, GivesUp

\* A step of a call outside CommitTransaction.
LEMMA OutsideCommit ==
  ASSUME TypeOK, NEW c \in Calls, NEW state, Goto(c, state), ~Committing(c),
         state.at \notin {"commit", "applying"}
  PROVE  \A d \in Calls : calls'[d] = calls[d] \/ (~Committing(d) /\ ~Committing(d)')
<1>1. calls'[c] = state /\ \A d \in Calls \ {c} : calls'[d] = calls[d]
  BY DEF Goto, TypeOK
<1>2. ~Committing(c)'
  BY <1>1 DEF Committing
<1> QED BY <1>1, <1>2

\* A plain write that is committed.
LEMMA WriteRefines ==
  ASSUME StoreInv, MapInv, NEW c \in Calls, PlainWrite(c)
  PROVE  Store!Next \/ UNCHANGED Store!vars
<1> DEFINE w == calls[c].w
<1>1. /\ TypeOK /\ At(c, "write") /\ w \in Writes /\ w \in Singles
      /\ db \in Table /\ stamps \in Nat
  BY CallFields DEF StoreInv, TypeOK, MapInv, CallMaps, PlainWrite
<1>2. ~Committing(c)
  BY <1>1 DEF At, Committing
<1>3. CASE Goto(c, Idle) /\ UNCHANGED <<db, txs>>
  BY <1>1, <1>2, <1>3, CallStutters DEF Idle
<1>4. CASE /\ ~WriteFails(db, w) /\ stamps' = NextStamp(w)
           /\ db' = Apply(db, w, stamps')
           /\ Goto(c, Announcing(<<EventOf(w)>>))
           /\ UNCHANGED txs
  <2>1. stamps' \in Nat
    BY <1>1, <1>4 DEF NextStamp
  <2>2. PlainSet(Apply(db, w, stamps')) \in Store!Outcomes(PlainSet(db), w)
    BY <1>1, <1>4, <2>1, ApplyOutcome
  <2>3. PlainSet(db)' \in Store!Outcomes(PlainSet(db), w)
    BY <1>4, <2>2 DEF PlainSet, Plain
  <2>4. \A d \in Calls : calls'[d] = calls[d] \/ (~Committing(d) /\ ~Committing(d)')
    BY <1>1, <1>2, <1>4, OutsideCommit DEF Announcing, Idle
  <2>5. \A t \in TxIds : LiveSets(t)' = LiveSets(t)
    BY <1>4, <2>4, SetsSame DEF Committing
  <2>6. [t \in TxIds |-> LiveSets(t)]' = [t \in TxIds |-> LiveSets(t)]
    BY <2>5
  <2>7. {t \in TxIds : txs[t].used}' = {t \in TxIds : txs[t].used}
    BY <1>4
  <2> HIDE DEF w
  <2>8. Store!Write
    BY <1>1, <2>3, <2>6, <2>7, StoreVars DEF Store!Write, Singles
  <2> QED BY <2>8 DEF Store!Next
<1> QED BY <1>3, <1>4 DEF PlainWrite

\* The COMMIT of a batch.
LEMMA BatchRefines ==
  ASSUME StoreInv, MapInv, NEW c \in Calls, BatchCommit(c)
  PROVE  Store!Next
<1>1. TypeOK /\ At(c, "batch") /\ calls[c].todo = <<>> /\ db' = work /\ Goto(c, Idle)
      /\ UNCHANGED txs
  BY DEF StoreInv, BatchCommit
<1>2. Partway(<<>>, Batches, PlainSet(db), PlainSet(work))
  BY <1>1 DEF MapInv, CallMaps
<1>3. PICK ws \in Batches : PlainSet(work) \in Store!AllOutcomes(PlainSet(db), ws)
  BY <1>2, ConstantsAssumption, PartwayEnds
<1>4. PlainSet(db)' \in Store!AllOutcomes(PlainSet(db), ws)
  BY <1>1, <1>3 DEF PlainSet, Plain
<1>5. \A d \in Calls : calls'[d] = calls[d] \/ (~Committing(d) /\ ~Committing(d)')
  <2>1. ~Committing(c)
    BY <1>1 DEF Committing, At
  <2> QED BY <1>1, <2>1, OutsideCommit DEF Idle
<1>6. \A t \in TxIds : LiveSets(t)' = LiveSets(t)
  BY <1>1, <1>5, SetsSame DEF Committing
<1>7. [t \in TxIds |-> LiveSets(t)]' = [t \in TxIds |-> LiveSets(t)]
  BY <1>6
<1>8. {t \in TxIds : txs[t].used}' = {t \in TxIds : txs[t].used}
  BY <1>1
<1>9. Store!Batch
  BY <1>4, <1>7, <1>8, StoreVars DEF Store!Batch
<1> QED BY <1>9 DEF Store!Next

\* The COMMIT of a Firestore transaction.
LEMMA CommitRefines ==
  ASSUME StoreInv, MapInv, NEW c \in Calls, CommitFinish(c)
  PROVE  Store!Next
<1> DEFINE t == calls[c].tx
           reads == calls[c].reads
<1>1. /\ TypeOK /\ At(c, "applying") /\ calls[c].todo = <<>> /\ db' = work
      /\ Goto(c, Announcing(calls[c].out))
      /\ txs' = [txs EXCEPT ![t].row = FALSE]
      /\ t \in TxIds /\ reads \in Table /\ db \in Table
  BY CallFields DEF StoreInv, TypeOK, CommitFinish
<1>2. Partway(<<>>, TxOps, PlainSet(db), PlainSet(work))
  BY <1>1 DEF MapInv, CallMaps
<1>3. PICK ops \in TxOps : PlainSet(work) \in Store!AllOutcomes(PlainSet(db), ops)
  BY <1>2, ConstantsAssumption, PartwayEnds
<1>4. PlainSet(db)' \in Store!AllOutcomes(PlainSet(db), ops)
  BY <1>1, <1>3 DEF PlainSet, Plain
<1>5. /\ calls'[c].at \notin {"commit", "applying"}
      /\ \A d \in Calls \ {c} : calls'[d] = calls[d]
  BY <1>1 DEF Goto, TypeOK, Announcing, Idle
<1>6. \A u \in TxIds : NoNewRow(u) /\ txs'[u].used = txs[u].used
  <2>1. \A u \in TxIds : txs[u] \in TxRow
    BY <1>1 DEF TypeOK
  <2> QED BY <1>1, <2>1 DEF NoNewRow, TypeOK, TxRow
<1>7. \A u \in TxIds : LiveSets(u)' \subseteq LiveSets(u)
  BY <1>5, <1>6, SetsShrink DEF Committing
<1>8. ASSUME NEW u \in TxIds \ {t}
      PROVE  LiveSets(u)' = LiveSets(u)
  <2>1. txs'[u] = txs[u]
    BY <1>1 DEF TypeOK
  <2>2. \A x : x \in LiveSets(u)' <=> x \in LiveSets(u)
    BY <1>1, <1>5, <2>1, LiveSetsAre DEF Committing
  <2> QED BY <2>2
<1>9. PlainSet(reads) \in LiveSets(t)
  BY <1>1, LiveSetsAre DEF Committing, At
<1>10. Store!Valid(PlainSet(reads))
  <2>1. ASSUME NEW p \in Paths, Plain(reads[p]).version > 0,
               Plain(reads[p]).epoch = Plain(db[p]).epoch
        PROVE  Plain(reads[p]) = Plain(db[p])
    BY <1>1, <2>1 DEF StoreInv, CallOld, OccCheck, Recorded, Plain
  <2> QED BY <2>1 DEF Store!Valid, PlainSet
<1> HIDE DEF t, reads
<1>11. {u \in TxIds : txs[u].used}' = {u \in TxIds : txs[u].used}
  BY <1>6
<1>12. Store!Transaction
  <2> DEFINE old == [u \in TxIds |-> LiveSets(u)]
             new == [u \in TxIds |-> LiveSets(u)]'
  <2>1. /\ PlainSet(reads) \in old[t]
        /\ new[t] \subseteq old[t]
        /\ \A u \in TxIds \ {t} : new[u] = old[u]
    BY <1>1, <1>7, <1>8, <1>9
  <2> QED BY <1>1, <1>4, <1>10, <1>11, <2>1, StoreVars DEF Store!Transaction
<1> QED BY <1>12 DEF Store!Next

\* A read is recorded.
LEMMA RecordRefines ==
  ASSUME StoreInv, MapInv, NEW c \in Calls, TxRecord(c)
  PROVE  Store!Next
<1> DEFINE t == calls[c].tx
           p == calls[c].path
           r == calls[c].row
<1>1. /\ TypeOK /\ At(c, "record") /\ Goto(c, Idle) /\ UNCHANGED db
      /\ t \in TxIds /\ p \in Paths /\ r \in Row /\ db[p] \in Row
      /\ Descends(r, db[p])
  BY CallFields DEF StoreInv, TypeOK, TxRecord, CallOld, dbVars, Table
<1>2. \A d \in Calls : calls'[d] = calls[d] \/ (~Committing(d) /\ ~Committing(d)')
  <2>1. ~Committing(c)
    BY <1>1 DEF Committing, At
  <2> QED BY <1>1, <2>1, OutsideCommit DEF Idle
<1>3. /\ \A u \in TxIds \ {t} : txs'[u] = txs[u]
      /\ txs'[t] = txs[t] \/ (txs[t].row /\ txs'[t] \in Record(txs[t], p, r))
  BY <1>1 DEF TxRecord, TypeOK
<1>4. txs[t] \in TxRow /\ txs[t].reads \in Table
  BY <1>1 DEF TypeOK, TxRow
<1>5. /\ \A u \in TxIds : txs'[u].used = txs[u].used
      /\ \/ NoNewRow(t) \/ ~txs'[t].decodes
         \/ /\ txs'[t].reads = [txs[t].reads EXCEPT ![p] = r]
            /\ txs[t].row /\ txs[t].decodes = txs'[t].decodes
  BY <1>3, <1>4 DEF Record, NoNewRow, TxRow
<1> HIDE DEF t, p, r
<1>6. ASSUME NEW u \in TxIds, NEW x \in LiveSets(u)', x \notin LiveSets(u)
      PROVE  \E old \in LiveSets(u), q \in Paths :
               /\ Store!HasBeen(q, x[q])
               /\ x = [old EXCEPT ![q] = x[q]]
  <2>1. u = t /\ txs[t].row /\ txs[t].decodes
        /\ x = PlainSet([txs[t].reads EXCEPT ![p] = r])
    <3>1. /\ txs'[u].row /\ txs'[u].decodes /\ x = PlainSet(txs'[u].reads)
          /\ ~(txs[u].row /\ txs[u].decodes /\ x = PlainSet(txs[u].reads))
      BY <1>2, <1>6, LiveSetsAre DEF Committing
    <3>2. u = t
      BY <1>3, <3>1
    <3> QED BY <1>5, <3>1, <3>2 DEF NoNewRow
  <2>2. PlainSet(txs[t].reads) \in LiveSets(t)
    BY <1>1, <2>1, LiveSetsAre
  <2>3. x[p] = Plain(r) /\ x = [PlainSet(txs[t].reads) EXCEPT ![p] = Plain(r)]
    BY <1>1, <1>4, <2>1 DEF PlainSet, Table
  <2>4. Store!HasBeen(p, Plain(r))
    BY <1>1 DEF Store!HasBeen, Descends, Plain, Row
  <2> QED BY <1>1, <2>1, <2>2, <2>3, <2>4
<1>7. {u \in TxIds : txs[u].used}' = {u \in TxIds : txs[u].used}
  BY <1>5
<1>8. Store!Remember
  BY <1>1, <1>6, <1>7, StoreVars DEF Store!Remember
<1> QED BY <1>8 DEF Store!Next

\* A transaction begins.
LEMMA BeginRefines ==
  ASSUME StoreInv, MapInv, NEW t \in TxIds, BeginTransaction(t)
  PROVE  Store!Next
<1>1. /\ TypeOK /\ ~txs[t].used /\ UNCHANGED <<db, calls>>
      /\ txs[t] \in TxRow /\ txs[t].reads = NoReads /\ txs[t].decodes
  BY DEF StoreInv, TypeOK, BeginTransaction, dbVars, MapInv, TxMaps
<1>2. /\ txs'[t] = [txs[t] EXCEPT !.used = TRUE, !.row = TRUE]
      /\ \A u \in TxIds \ {t} : txs'[u] = txs[u]
  BY <1>1 DEF BeginTransaction, TypeOK
<1>3. txs'[t].used /\ txs'[t].row /\ txs'[t].decodes /\ txs'[t].reads = NoReads
  BY <1>1, <1>2 DEF TxRow
<1>4. \A c \in Calls : ~(Committing(c) /\ calls[c].tx = t)
  BY <1>1 DEF StoreInv, CallOld, Committing
<1>5. LiveSets(t)' = {Store!Nothing}
  <2>1. PlainSet(NoReads) = Store!Nothing
    BY DEF PlainSet, Plain, NoReads, NoRow, Store!Nothing, Store!Absent
  <2>2. \A c \in Calls : ~(Committing(c)' /\ calls'[c].tx = t)
    BY <1>1, <1>4 DEF Committing
  <2>3. \A x : x \in LiveSets(t)' <=> x = PlainSet(NoReads)
    BY <1>1, <1>3, <2>2, LiveSetsAre
  <2> QED BY <2>1, <2>3
<1>6. ASSUME NEW u \in TxIds \ {t}
      PROVE  LiveSets(u)' = LiveSets(u)
  <2>1. txs'[u] = txs[u] /\ \A c \in Calls : calls'[c] = calls[c]
    BY <1>1, <1>2
  <2> QED BY <2>1, SetsSame DEF Committing
<1>7. {u \in TxIds : txs[u].used}' = {u \in TxIds : txs[u].used} \cup {t}
  BY <1>2, <1>3
<1>8. [u \in TxIds |-> LiveSets(u)]' =
        [[u \in TxIds |-> LiveSets(u)] EXCEPT ![t] = {Store!Nothing}]
  BY <1>5, <1>6
<1>9. Store!Begin
  BY <1>1, <1>7, <1>8, StoreVars DEF Store!Begin
<1> QED BY <1>9 DEF Store!Next

\* Every step of the adapter is a step of AtomicStore or a stutter.
LEMMA StepRefines ==
  ASSUME StoreInv, MapInv, [Next]_vars
  PROVE  [Store!Next]_(Store!vars)
<1> DEFINE Refines == Store!Next \/ UNCHANGED Store!vars
<1> SUFFICES Refines
  OBVIOUS
<1>0. TypeOK /\ \A c \in Calls : calls[c] \in CallState
  BY DEF StoreInv, TypeOK
<1>1. ASSUME NEW c \in Calls, NEW state, Goto(c, state), UNCHANGED <<db, txs>>,
             ~Committing(c), state.at \notin {"commit", "applying"}
      PROVE  Refines
  BY <1>0, <1>1, CallStutters
<1>2. Store!Remember => Refines
  BY DEF Store!Next
<1>3. ASSUME UNCHANGED <<db, calls>>, \A t \in TxIds : txs'[t] = txs[t]
      PROVE  Refines
  <2>1. \A t \in TxIds : LiveSets(t)' = LiveSets(t)
    BY <1>3, SetsSame DEF Committing
  <2> QED BY <1>3, <2>1, Stutters
<1>4. ASSUME UNCHANGED <<db, calls>>,
             \A t \in TxIds : NoNewRow(t) /\ txs'[t].used = txs[t].used
      PROVE  Refines
  BY <1>2, <1>4, SetsShrink, GivesUp
<1> HIDE DEF Refines
<1>5. ASSUME NEW c \in Calls, CallStep(c)
      PROVE  Refines
  <2>1. CASE PlainWrite(c)
    BY <2>1, WriteRefines DEF Refines
  <2>2. CASE Notify(c) \/ BatchWrite(c)
    <3>1. ~Committing(c) /\ UNCHANGED <<db, txs>>
      BY <2>2 DEF Notify, BatchWrite, At, Committing, dbVars
    <3>2. PICK state : Goto(c, state) /\ state.at \in {"idle", "notify", "batch"}
      BY <2>2 DEF Notify, BatchWrite, Announcing, Idle
    <3> QED BY <1>1, <3>1, <3>2
  <2>3. CASE BatchFail(c)
    BY <1>0, <1>2, <2>3, CallGivesUp DEF BatchFail, ReleaseUndone
  <2>4. CASE BatchCommit(c)
    BY <2>4, BatchRefines DEF Refines
  <2>5. CASE TxRecord(c)
    BY <2>5, RecordRefines DEF Refines
  <2>6. CASE CommitBegin(c)
    <3>1. UNCHANGED <<db, txs>> /\ Committing(c)
      BY <2>6 DEF CommitBegin, Committing, At
    <3>2. CASE Goto(c, Idle)
      BY <1>0, <1>2, <3>1, <3>2, CallGivesUp
    <3>3. CASE Goto(c, [at |-> "applying", tx |-> calls[c].tx,
                        reads |-> calls[c].reads, todo |-> calls[c].ops,
                        out |-> <<>>])
      BY <1>0, <3>1, <3>3, CommitStutters DEF Refines
    <3> QED BY <2>6, <3>2, <3>3 DEF CommitBegin
  <2>7. CASE CommitWrite(c)
    <3> DEFINE next == [calls[c] EXCEPT !.todo = Tail(@),
                                        !.out = Append(@, EventOf(Head(calls[c].todo)))]
    <3>1. UNCHANGED <<db, txs>> /\ Committing(c) /\ Goto(c, next)
      BY <2>7 DEF CommitWrite, Committing, At
    <3>2. next.at = "applying" /\ next.tx = calls[c].tx /\ next.reads = calls[c].reads
      <4>1. calls[c] \in [at : {"applying"}, tx : TxIds, reads : Table,
                          todo : Seq(Writes), out : Seq(Events)]
        BY <1>0, <2>7 DEF CommitWrite, At, CallState, Idle
      <4> QED BY <4>1
    <3> HIDE DEF next
    <3> QED BY <1>0, <3>1, <3>2, CommitStutters DEF Refines
  <2>8. CASE CommitFinish(c)
    BY <2>8, CommitRefines DEF Refines
  <2> QED BY <1>5, <2>1, <2>2, <2>3, <2>4, <2>5, <2>6, <2>7, <2>8 DEF CallStep
<1>6. ASSUME NEW c \in Calls, ClientStep(c)
      PROVE  Refines
  <2>1. ASSUME NEW w \in RpcWrites, RpcWrite(c, w) \/ RpcMaskedWrite(c, w)
        PROVE  Refines
    <3>1. ~Committing(c) /\ UNCHANGED <<db, txs>>
      BY <2>1 DEF RpcWrite, RpcMaskedWrite, At, Committing, dbVars
    <3>2. PICK w2 : Goto(c, [at |-> "write", w |-> w2])
      BY <2>1 DEF RpcWrite, RpcMaskedWrite
    <3> QED BY <1>1, <3>1, <3>2
  <2>2. ASSUME NEW ws \in Batches, BatchBegin(c, ws)
        PROVE  Refines
    BY <1>1, <2>2 DEF BatchBegin, At, Committing
  <2>3. ASSUME NEW t \in TxIds, NEW p \in Paths, TxRead(c, t, p)
        PROVE  Refines
    <3>1. CASE UNCHANGED calls
      BY <1>3, <2>3, <3>1 DEF TxRead, dbVars
    <3>2. CASE Goto(c, [at |-> "record", tx |-> t, path |-> p, row |-> db[p]])
      BY <1>1, <2>3, <3>2 DEF TxRead, At, Committing, dbVars
    <3> QED BY <2>3, <3>1, <3>2 DEF TxRead
  <2>4. ASSUME NEW t \in TxIds, NEW ops \in TxOps, CommitLoad(c, t, ops)
        PROVE  Refines
    <3>1. /\ calls'[c] = [at |-> "commit", tx |-> t, reads |-> txs[t].reads, ops |-> ops]
          /\ \A d \in Calls \ {c} : calls'[d] = calls[d]
          /\ ~Committing(c)
          /\ UNCHANGED <<db, txs>> /\ txs[t].row /\ txs[t].decodes
      BY <1>0, <2>4 DEF CommitLoad, Goto, TypeOK, At, Committing, dbVars
    <3>2. Committing(c)' /\ calls'[c].tx = t /\ calls'[c].reads = txs[t].reads
      BY <3>1 DEF Committing
    <3>3. \A d \in Calls \ {c} : Committing(d)' <=> Committing(d)
      BY <3>1 DEF Committing
    <3>4. ASSUME NEW u \in TxIds
          PROVE  LiveSets(u)' = LiveSets(u)
      <4>1. \A x : x \in LiveSets(u)' <=> x \in LiveSets(u)
        BY <3>1, <3>2, <3>3, LiveSetsAre
      <4> QED BY <4>1
    <3> QED BY <3>1, <3>4, Stutters DEF Refines
  <2>5. CASE CancelCall(c)
    BY <1>0, <1>2, <2>5, CallGivesUp DEF CancelCall, ReleaseUndone, dbVars
  <2> QED BY <1>6, <2>1, <2>2, <2>3, <2>4, <2>5 DEF ClientStep
<1>7. ASSUME NEW t \in TxIds, TxStep(t)
      PROVE  Refines
  <2>1. CASE BeginTransaction(t)
    BY <2>1, BeginRefines DEF Refines
  <2>2. CASE RollbackTransaction(t) \/ Expire(t)
    <3>0. \A u \in TxIds : txs[u] \in TxRow
      BY <1>0 DEF TypeOK
    <3>1. \A b \in BOOLEAN :
            /\ [txs[t] EXCEPT !.row = b].row = b
            /\ [txs[t] EXCEPT !.row = b].used = txs[t].used
            /\ [txs[t] EXCEPT !.row = b].reads = txs[t].reads
            /\ [txs[t] EXCEPT !.row = b].decodes = txs[t].decodes
            /\ [txs[t] EXCEPT !.expired = b].row = txs[t].row
            /\ [txs[t] EXCEPT !.expired = b].used = txs[t].used
            /\ [txs[t] EXCEPT !.expired = b].reads = txs[t].reads
            /\ [txs[t] EXCEPT !.expired = b].decodes = txs[t].decodes
      BY <3>0 DEF TxRow
    <3>2. \A u \in TxIds : NoNewRow(u) /\ txs'[u].used = txs[u].used
      BY <1>0, <2>2, <3>1 DEF RollbackTransaction, Expire, TypeOK, NoNewRow
    <3> QED BY <1>4, <2>2, <3>2 DEF RollbackTransaction, Expire, dbVars
  <2> QED BY <1>7, <2>1, <2>2 DEF TxStep
<1>8. CASE SweepExpiredTransactions
  <2>0. \A u \in TxIds : txs[u] \in TxRow
    BY <1>0 DEF TypeOK
  <2>1. \A u \in TxIds : NoNewRow(u) /\ txs'[u].used = txs[u].used
    BY <1>8, <2>0 DEF SweepExpiredTransactions, NoNewRow, TxRow
  <2> QED BY <1>4, <1>8, <2>1 DEF SweepExpiredTransactions, dbVars
<1>9. CASE TakeChange \/ UNCHANGED vars
  BY <1>3, <1>9 DEF TakeChange, dbVars, vars
<1> QED BY <1>5, <1>6, <1>7, <1>8, <1>9 DEF Next, StoreNext

(***************************************************************************)
(* The SQLite adapter implements AtomicStore with its isolation: however   *)
(* many calls interleave on the connection, and whatever lists of writes   *)
(* they carry, every plain write, batch and commit is one atomic step at   *)
(* the moment it becomes durable; a request that fails or is cancelled     *)
(* half way is none; a commit is validated in the step that applies it.    *)
(***************************************************************************)
THEOREM SqliteImplementsAtomicStore == Spec => ImplementsAtomicStore
<1>1. Init => Store!Init
  <2> SUFFICES ASSUME Init
               PROVE  Store!Init
    OBVIOUS
  <2>1. [p \in Paths |-> Plain(db[p])] = Store!Nothing
    BY DEF Init, Plain, NoRow, Store!Nothing, Store!Absent
  <2>2. {t \in TxIds : txs[t].used} = {}
    BY DEF Init, Unused
  <2>3. \A t \in TxIds : LiveSets(t) = {}
    BY DEF Init, LiveSets, Unused, Idle
  <2>4. [t \in TxIds |-> LiveSets(t)] = [t \in TxIds |-> {}]
    BY <2>3
  <2> QED BY <2>1, <2>2, <2>4 DEF Store!Init
<1>2. Init => MapInv
  BY DEF Init, MapInv, CallMaps, TxMaps, At, Idle, Unused
<1>3. StoreInv /\ MapInv /\ [Next]_vars => MapInv'
  BY MapStep
<1>4. StoreInv /\ MapInv /\ [Next]_vars => [Store!Next]_(Store!vars)
  BY StepRefines
<1> QED BY <1>1, <1>2, <1>3, <1>4, InvAlways, PTL
        DEF Spec, ImplementsAtomicStore, Store!Spec

=============================================================================
