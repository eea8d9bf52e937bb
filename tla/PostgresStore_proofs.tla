----------------------- MODULE PostgresStore_proofs -----------------------
(***************************************************************************)
(* Proofs about PostgresStore and its change feed, for every set of paths, *)
(* transactions, calls and requests: type correctness, no leaked row lock, *)
(* what the OCC check is worth at READ COMMITTED, that the feed's last     *)
(* word on a document is right, and that every request is atomic: a step   *)
(* of AtomicStore.                                                         *)
(***************************************************************************)
EXTENDS PgRefinement, DocTable_proofs

-----------------------------------------------------------------------------
(***************************************************************************)
(* Type correctness.                                                       *)
(***************************************************************************)

\* The fields a call has in each of its states.
LEMMA CallFields ==
  ASSUME PgTypeOK, NEW c \in Calls
  PROVE  /\ At(c, "write") => calls[c].w \in Writes
         /\ At(c, "record") => /\ calls[c].tx \in TxIds
                               /\ calls[c].path \in Paths
                               /\ calls[c].row \in Row
         /\ At(c, "commit") => /\ calls[c].tx \in TxIds
                               /\ calls[c].reads \in Table
                               /\ calls[c].ops \in Seq(Writes)
         /\ At(c, "check") => /\ calls[c].tx \in TxIds
                              /\ calls[c].reads \in Table
                              /\ calls[c].ops \in Seq(Writes)
                              /\ calls[c].base \in Table
                              /\ calls[c].left \in SUBSET Paths
         /\ At(c, "applying") => /\ calls[c].tx \in TxIds
                                 /\ calls[c].reads \in Table
                                 /\ calls[c].base \in Table
                                 /\ calls[c].todo \in Seq(Writes)
                                 /\ calls[c].out \in Seq(Events)
         /\ At(c, "batch") => /\ calls[c].todo \in Seq(Writes)
                              /\ calls[c].out \in Seq(Events)
<1>1. calls[c] \in CallState
  BY DEF PgTypeOK
<1> QED BY <1>1 DEF CallState, Idle, At

\* The states of a call inside a SQL transaction.
CheckState ==
  [at : {"check"}, tx : TxIds, reads : Table, ops : Seq(Writes),
   base : Table, left : SUBSET Paths]
ApplyingState ==
  [at : {"applying"}, tx : TxIds, reads : Table, base : Table,
   todo : Seq(Writes), out : Seq(Events)]
BatchState == [at : {"batch"}, todo : Seq(Writes), out : Seq(Events)]

\* A call that is somewhere has all the fields of that state.
LEMMA CallShape ==
  ASSUME PgTypeOK, NEW c \in Calls
  PROVE  /\ At(c, "check") => calls[c] \in CheckState
         /\ At(c, "applying") => calls[c] \in ApplyingState
         /\ At(c, "batch") => calls[c] \in BatchState
<1>1. calls[c] \in CallState
  BY DEF PgTypeOK
<1> QED BY <1>1 DEF CallState, CheckState, ApplyingState, BatchState, Idle, At

\* They are states of a call.
LEMMA TxStates ==
  /\ CheckState \subseteq CallState
  /\ ApplyingState \subseteq CallState
  /\ BatchState \subseteq CallState
BY DEF CallState, CheckState, ApplyingState, BatchState

\* Ticking a path off leaves the rest of the commit as it is.
LEMMA Ticked ==
  ASSUME NEW s \in CheckState, NEW l \in SUBSET Paths
  PROVE  /\ [s EXCEPT !.left = l] \in CheckState
         /\ [s EXCEPT !.left = l].at = s.at
         /\ [s EXCEPT !.left = l].left = l
         /\ [s EXCEPT !.left = l].reads = s.reads
         /\ [s EXCEPT !.left = l].base = s.base
BY DEF CheckState

\* Taking a write off the list leaves the rest of the call as it is.
LEMMA Advanced ==
  ASSUME NEW s \in ApplyingState \cup BatchState, NEW ws \in Seq(Writes)
  PROVE  /\ s \in ApplyingState => /\ [s EXCEPT !.todo = ws] \in ApplyingState
                                   /\ [s EXCEPT !.todo = ws].reads = s.reads
                                   /\ [s EXCEPT !.todo = ws].base = s.base
         /\ s \in BatchState => [s EXCEPT !.todo = ws] \in BatchState
         /\ [s EXCEPT !.todo = ws].at = s.at
         /\ [s EXCEPT !.todo = ws].todo = ws
         /\ [s EXCEPT !.todo = ws].out = s.out
BY DEF ApplyingState, BatchState

\* So does noting an event.
LEMMA Noted ==
  ASSUME NEW s \in ApplyingState \cup BatchState, NEW e \in Events
  PROVE  LET n == [s EXCEPT !.out = Append(@, e)]
         IN /\ s \in ApplyingState => /\ n \in ApplyingState
                                      /\ n.reads = s.reads
                                      /\ n.base = s.base
            /\ s \in BatchState => n \in BatchState
            /\ n.at = s.at
            /\ n.out = Append(s.out, e)
<1>1. Append(s.out, e) \in Seq(Events)
  BY DEF ApplyingState, BatchState
<1> QED BY <1>1 DEF ApplyingState, BatchState

\* A call goes to a state of the right shape, and the others stay.
LEMMA GotoType ==
  ASSUME PgTypeOK, NEW c \in Calls, NEW state \in CallState, Goto(c, state)
  PROVE  calls' \in [Calls -> CallState]
BY DEF PgTypeOK, Goto

\* The states the actions leave a call in have the right shape.
LEMMA StateShapes ==
  /\ Idle \in CallState
  /\ \A w \in Writes : [at |-> "write", w |-> w] \in CallState
  /\ \A t \in TxIds, p \in Paths, r \in Row :
       [at |-> "record", tx |-> t, path |-> p, row |-> r] \in CallState
  /\ \A t \in TxIds, rs \in Table, ops \in Seq(Writes) :
       [at |-> "commit", tx |-> t, reads |-> rs, ops |-> ops] \in CallState
  /\ \A t \in TxIds, rs \in Table, ops \in Seq(Writes), b \in Table,
        left \in SUBSET Paths :
       [at |-> "check", tx |-> t, reads |-> rs, ops |-> ops, base |-> b,
        left |-> left] \in CallState
  /\ \A t \in TxIds, rs \in Table, b \in Table, ops \in Seq(Writes),
        out \in Seq(Events) :
       [at |-> "applying", tx |-> t, reads |-> rs, base |-> b, todo |-> ops,
        out |-> out] \in CallState
  /\ \A ws \in Seq(Writes), out \in Seq(Events) :
       [at |-> "batch", todo |-> ws, out |-> out] \in CallState
BY DEF CallState

\* What a statement sees is a table.
LEMMA ViewType ==
  ASSUME PgTypeOK, NEW c \in Calls
  PROVE  View(c) \in Table
<1>1. mine[c] \in Table /\ db \in Table
  BY DEF PgTypeOK
<1> QED BY <1>1 DEF View, Table

\* Releasing locks leaves locks and rows of the right types.
LEMMA UnlockType ==
  ASSUME PgTypeOK, NEW c \in Calls, Unlock(c)
  PROVE  locks' \in [Paths -> Calls \cup {None}] /\ mine' \in [Calls -> Table]
<1>1. NoReads \in Table
  BY NoRowType DEF NoReads, Table
<1> QED BY <1>1 DEF Unlock, PgTypeOK

\* Events are about paths.
LEMMA PathsOfType ==
  ASSUME NEW events \in Seq(Events)
  PROVE  PathsOf(events) \subseteq Paths
<1>1. \A i \in DOMAIN events : events[i] \in Events
  OBVIOUS
<1>2. \A e \in Events : e.path \in Paths
  BY DEF Events
<1> QED BY <1>1, <1>2 DEF PathsOf

\* The trigger queues events.
LEMMA AnnounceType ==
  ASSUME FeedTypeOK, NEW events \in Seq(Events), Announce(events)
  PROVE  FeedTypeOK'
<1>1. PathsOf(events) \subseteq Paths
  BY PathsOfType
<1>2. notes \o events \in Seq(Events)
  BY DEF FeedTypeOK
<1> QED BY <1>1, <1>2 DEF Announce, FeedTypeOK

\* A rollback keeps the types of everything it touches.
LEMMA RollbackType ==
  ASSUME PgTypeOK, NEW c \in Calls, SqlRollback(c), Goto(c, Idle),
         UNCHANGED <<txs, stamps>>
  PROVE  PgTypeOK'
<1>1. calls' \in [Calls -> CallState]
  BY StateShapes, GotoType
<1>2. locks' \in [Paths -> Calls \cup {None}] /\ mine' \in [Calls -> Table]
  BY UnlockType DEF SqlRollback
<1>3. FeedTypeOK'
  BY DEF SqlRollback, PgTypeOK, FeedTypeOK, feedVars
<1> QED BY <1>1, <1>2, <1>3 DEF SqlRollback, PgTypeOK

\* So does a commit.
LEMMA CommitType ==
  ASSUME PgTypeOK, NEW c \in Calls, NEW events \in Seq(Events),
         SqlCommit(c, events)
  PROVE  /\ db' \in Table
         /\ locks' \in [Paths -> Calls \cup {None}]
         /\ mine' \in [Calls -> Table]
         /\ FeedTypeOK'
<1>1. locks' \in [Paths -> Calls \cup {None}] /\ mine' \in [Calls -> Table]
  BY UnlockType DEF SqlCommit
<1>2. FeedTypeOK'
  BY AnnounceType DEF SqlCommit, PgTypeOK
<1> QED BY <1>1, <1>2, ViewType DEF SqlCommit

\* And a statement inside a SQL transaction.
LEMMA SqlWriteType ==
  ASSUME PgTypeOK, NEW c \in Calls, NEW w \in Writes,
         NEW next \in ApplyingState \cup BatchState, SqlWrite(c, w, next)
  PROVE  PgTypeOK'
<1>1. FeedTypeOK'
  BY DEF SqlWrite, PgTypeOK, FeedTypeOK, feedVars
<1>2. calls' \in [Calls -> CallState]
  <2>1. /\ next \in CallState
        /\ [next EXCEPT !.out = Append(@, EventOf(w))] \in CallState
    BY EventType, Noted, TxStates
  <2> QED BY <2>1, GotoType DEF SqlWrite
<1>3. NextStamp(w) \in Nat
  BY DEF PgTypeOK, NextStamp
<1>4. stamps' \in Nat
  BY <1>3 DEF SqlWrite, PgTypeOK
<1>5. w.path \in Paths
  BY DEF Writes
<1>6. locks' \in [Paths -> Calls \cup {None}]
  BY <1>5 DEF SqlWrite, PgTypeOK
<1>7. mine' \in [Calls -> Table]
  <2>1. Apply(View(c), w, stamps')[w.path] \in Row
    BY <1>4, <1>5, ViewType, ApplyDescends DEF Table
  <2>2. [mine[c] EXCEPT ![w.path] = Apply(View(c), w, stamps')[w.path]] \in Table
    BY <1>5, <2>1 DEF PgTypeOK, Table
  <2> QED BY <2>2 DEF SqlWrite, PgTypeOK
<1> QED BY <1>1, <1>2, <1>4, <1>6, <1>7 DEF SqlWrite, PgTypeOK

\* The feed keeps its types.
LEMMA FeedType == FeedTypeOK /\ FeedNext => FeedTypeOK'
<1> SUFFICES ASSUME FeedTypeOK, FeedNext
             PROVE  FeedTypeOK'
  OBVIOUS
<1>1. CASE FeedConnect \/ FeedListen
  BY <1>1 DEF FeedConnect, FeedListen, FeedTypeOK
<1>2. CASE FeedWait
  BY <1>2 DEF FeedWait, FeedTypeOK
<1>3. CASE FeedSend
  <2>1. chan' \in Seq(Events) /\ Len(chan') <= FeedCap
    <3>1. PICK e \in Events : pend = <<e>>
      BY <1>3 DEF FeedSend, FeedTypeOK
    <3> QED BY <1>3, <3>1, FeedAssumption DEF FeedSend, FeedTypeOK
  <2> QED BY <1>3, <2>1 DEF FeedSend, FeedTypeOK
<1>4. CASE FeedLose
  <2>1. PathsOf(notes) \subseteq Paths
    BY PathsOfType DEF FeedTypeOK
  <2> QED BY <1>4, <2>1, FeedAssumption DEF FeedLose, FeedTypeOK
<1>5. CASE FeedTake
  <2>1. Head(chan) \in Events /\ Tail(chan) \in Seq(Events) /\ Len(Tail(chan)) <= FeedCap
    BY <1>5, FeedAssumption DEF FeedTake, FeedTypeOK
  <2>2. Head(chan).path \in Paths /\ Head(chan).kind \in {"upsert", "delete"}
    BY <2>1 DEF Events
  <2> QED BY <1>5, <2>1, <2>2 DEF FeedTake, FeedTypeOK
<1>6. CASE FeedClose
  <2>1. PathsOf(notes) \subseteq Paths
    BY PathsOfType DEF FeedTypeOK
  <2>2. PathsOf(pend) \subseteq Paths
    BY DEF FeedTypeOK, PathsOf, Events
  <2> QED BY <1>6, <2>1, <2>2 DEF FeedClose, FeedTypeOK
<1> QED BY <1>1, <1>2, <1>3, <1>4, <1>5, <1>6 DEF FeedNext, FeedStep

\* An empty database with no call in flight is well-typed.
LEMMA InitType == Init => PgTypeOK
<1> SUFFICES ASSUME Init
             PROVE  PgTypeOK
  OBVIOUS
<1>1. FeedTypeOK
  BY FeedAssumption DEF Init, FeedInit, FeedTypeOK
<1>2. NoReads \in Table /\ db \in Table
  BY NoRowType DEF Init, NoReads, Table
<1>3. Unused \in TxRow
  BY <1>2 DEF Unused, TxRow
<1> QED BY <1>1, <1>2, <1>3, StateShapes DEF Init, PgTypeOK

\* Every statement, every step of a handler and every step of the feed keeps
\* the types.
LEMMA TypeStep == PgTypeOK /\ [Next]_vars => PgTypeOK'
<1> SUFFICES ASSUME PgTypeOK, [Next]_vars
             PROVE  PgTypeOK'
  OBVIOUS
<1> USE StateShapes
<1>0. UNCHANGED feedVars => FeedTypeOK'
  BY DEF PgTypeOK, FeedTypeOK, feedVars
<1>1. ASSUME NEW c \in Calls, NEW w \in RpcWrites, RpcWrite(c, w)
      PROVE  PgTypeOK'
  <2>1. w \in Writes
    BY PgAssumption
  <2>2. calls' \in [Calls -> CallState]
    BY <1>1, <2>1, GotoType DEF RpcWrite
  <2> QED BY <1>0, <1>1, <2>2 DEF RpcWrite, PgTypeOK
<1>2. ASSUME NEW c \in Calls, NEW w \in RpcWrites, RpcMaskedWrite(c, w)
      PROVE  PgTypeOK'
  <2>1. w \in Writes
    BY PgAssumption
  <2>2. [w EXCEPT !.kind = "update"] \in Writes
    BY <1>2, <2>1 DEF RpcMaskedWrite, Writes, PlainKinds
  <2>3. calls' \in [Calls -> CallState]
    BY <1>2, <2>1, <2>2, GotoType DEF RpcMaskedWrite
  <2> QED BY <1>0, <1>2, <2>3 DEF RpcMaskedWrite, PgTypeOK
<1>3. ASSUME NEW c \in Calls, PlainWrite(c)
      PROVE  PgTypeOK'
  <2> DEFINE w == calls[c].w
  <2>1. w \in Writes
    BY <1>3, CallFields DEF PlainWrite
  <2>2. NextStamp(w) \in Nat
    BY DEF PgTypeOK, NextStamp
  <2>3. stamps' \in Nat
    BY <1>3, <2>2 DEF PlainWrite, PgTypeOK
  <2>4. Apply(db, w, stamps') \in Table
    BY <2>1, <2>3, ApplyDescends DEF PgTypeOK
  <2>5. calls' \in [Calls -> CallState]
    BY <1>3, GotoType DEF PlainWrite
  <2>6. <<EventOf(w)>> \in Seq(Events)
    BY <2>1, EventType
  <2>7. FeedTypeOK'
    BY <1>0, <1>3, <2>6, AnnounceType DEF PlainWrite, PgTypeOK
  <2>8. db' \in Table
    BY <1>3, <2>4 DEF PlainWrite, PgTypeOK
  <2> QED BY <1>3, <2>3, <2>5, <2>7, <2>8 DEF PlainWrite, PgTypeOK
<1>4. ASSUME NEW c \in Calls, NEW ws \in Batches, BatchBegin(c, ws)
      PROVE  PgTypeOK'
  <2>1. ws \in Seq(Writes) /\ <<>> \in Seq(Events)
    BY PgAssumption
  <2>2. calls' \in [Calls -> CallState]
    BY <1>4, <2>1, GotoType DEF BatchBegin
  <2> QED BY <1>0, <1>4, <2>2 DEF BatchBegin, PgTypeOK
<1>5. ASSUME NEW c \in Calls, BatchCheck(c)
      PROVE  PgTypeOK'
  <2> DEFINE w == Head(calls[c].todo)
             u == [kind |-> "update", path |-> w.path]
             ws == <<u>> \o Tail(calls[c].todo)
  <2>1. calls[c].todo \in Seq(Writes) /\ calls[c].out \in Seq(Events)
    BY <1>5, CallFields DEF BatchCheck
  <2>2. w \in Writes /\ Tail(calls[c].todo) \in Seq(Writes)
    BY <1>5, <2>1 DEF BatchCheck
  <2>3. u \in Writes
    BY <2>2 DEF Writes, PlainKinds
  <2>4. ws \in Seq(Writes)
    <3> HIDE DEF u
    <3> QED BY <2>2, <2>3
  <2>5. [calls[c] EXCEPT !.todo = ws] \in CallState
    <3> HIDE DEF ws
    <3> QED BY <1>5, <2>4, CallShape, Advanced, TxStates DEF BatchCheck
  <2>6. Goto(c, [calls[c] EXCEPT !.todo = ws])
    BY <1>5 DEF BatchCheck
  <2>7. calls' \in [Calls -> CallState]
    <3> HIDE DEF ws
    <3> QED BY <2>5, <2>6, GotoType
  <2> QED BY <1>0, <1>5, <2>7 DEF BatchCheck, PgTypeOK
<1>6. ASSUME NEW c \in Calls, BatchWrite(c)
      PROVE  PgTypeOK'
  <2> DEFINE w == Head(calls[c].todo)
             next == [calls[c] EXCEPT !.todo = Tail(@)]
  <2>1. calls[c] \in BatchState
    BY <1>6, CallShape DEF BatchWrite
  <2>2. w \in Writes /\ Tail(calls[c].todo) \in Seq(Writes)
    BY <1>6, CallFields DEF BatchWrite
  <2>3. next \in BatchState
    BY <2>1, <2>2, Advanced
  <2>4. SqlWrite(c, w, next)
    BY <1>6 DEF BatchWrite
  <2> HIDE DEF next, w
  <2> QED BY <2>2, <2>3, <2>4, SqlWriteType
<1>7. ASSUME NEW c \in Calls, BatchFail(c) \/ CancelCall(c) \/ DeadlockAbort(c)
      PROVE  PgTypeOK'
  BY <1>7, RollbackType DEF BatchFail, CancelCall, DeadlockAbort
<1>8. ASSUME NEW c \in Calls, BatchCommit(c)
      PROVE  PgTypeOK'
  <2>1. calls' \in [Calls -> CallState]
    BY <1>8, GotoType DEF BatchCommit
  <2>2. calls[c].out \in Seq(Events)
    BY <1>8, CallFields DEF BatchCommit
  <2> QED BY <1>8, <2>1, <2>2, CommitType DEF BatchCommit, PgTypeOK
<1>9. ASSUME NEW t \in TxIds, TxStep(t)
      PROVE  PgTypeOK'
  <2>1. txs[t] \in TxRow
    BY DEF PgTypeOK
  <2>2. \A b \in BOOLEAN : /\ [txs[t] EXCEPT !.used = b] \in TxRow
                           /\ [txs[t] EXCEPT !.row = b] \in TxRow
                           /\ [txs[t] EXCEPT !.expired = b] \in TxRow
                           /\ [txs[t] EXCEPT !.used = b, !.row = b] \in TxRow
    BY <2>1 DEF TxRow
  <2>3. txs' \in [TxIds -> TxRow]
    BY <1>9, <2>2 DEF TxStep, BeginTransaction, RollbackTransaction, Expire,
                      PgTypeOK
  <2> QED BY <1>0, <1>9, <2>3 DEF TxStep, BeginTransaction,
                                  RollbackTransaction, Expire, PgTypeOK
<1>10. ASSUME NEW c \in Calls, NEW t \in TxIds, NEW p \in Paths,
              TxRead(c, t, p)
       PROVE  PgTypeOK'
  <2>1. db[p] \in Row
    BY DEF PgTypeOK, Table
  <2>2. calls' \in [Calls -> CallState]
    BY <1>10, <2>1, GotoType DEF TxRead
  <2> QED BY <1>0, <1>10, <2>2 DEF TxRead, PgTypeOK
<1>11. ASSUME NEW c \in Calls, TxRecord(c)
       PROVE  PgTypeOK'
  <2> DEFINE t == calls[c].tx  p == calls[c].path  r == calls[c].row
  <2>1. t \in TxIds /\ p \in Paths /\ r \in Row
    BY <1>11, CallFields DEF TxRecord
  <2>2. txs[t] \in TxRow
    BY <2>1 DEF PgTypeOK
  <2>3. [txs[t].reads EXCEPT ![p] = r] \in Table
    BY <2>1, <2>2 DEF TxRow, Table
  <2>4. [txs[t] EXCEPT !.reads = [txs[t].reads EXCEPT ![p] = r]] \in TxRow
    BY <2>2, <2>3 DEF TxRow
  <2>5. [txs EXCEPT ![t].reads[p] = r]
          = [txs EXCEPT ![t] =
               [txs[t] EXCEPT !.reads = [txs[t].reads EXCEPT ![p] = r]]]
    BY <2>2 DEF TxRow
  <2>6. txs' \in [TxIds -> TxRow]
    BY <1>11, <2>1, <2>4, <2>5 DEF TxRecord, PgTypeOK
  <2>7. calls' \in [Calls -> CallState]
    BY <1>11, GotoType DEF TxRecord
  <2> QED BY <1>0, <1>11, <2>6, <2>7 DEF TxRecord, PgTypeOK
<1>12. ASSUME NEW c \in Calls, NEW t \in TxIds, NEW ops \in TxOps,
              CommitLoad(c, t, ops)
       PROVE  PgTypeOK'
  <2>1. ops \in Seq(Writes)
    BY PgAssumption
  <2>2. txs[t].reads \in Table
    BY DEF PgTypeOK, TxRow
  <2>3. calls' \in [Calls -> CallState]
    BY <1>12, <2>1, <2>2, GotoType DEF CommitLoad
  <2> QED BY <1>0, <1>12, <2>3 DEF CommitLoad, PgTypeOK
<1>13. ASSUME NEW c \in Calls, CommitBegin(c)
       PROVE  PgTypeOK'
  <2>1. /\ calls[c].tx \in TxIds /\ calls[c].reads \in Table
        /\ calls[c].ops \in Seq(Writes) /\ db \in Table
    BY <1>13, CallFields DEF CommitBegin, PgTypeOK
  <2>2. {p \in Paths : Recorded(calls[c].reads, p)} \in SUBSET Paths
    OBVIOUS
  <2>3. calls' \in [Calls -> CallState]
    BY <1>13, <2>1, <2>2, GotoType DEF CommitBegin
  <2> QED BY <1>0, <1>13, <2>3 DEF CommitBegin, PgTypeOK
<1>14. ASSUME NEW c \in Calls, CommitCheck(c)
       PROVE  PgTypeOK'
  <2>1. PICK p \in calls[c].left :
          \/ /\ SameVersion(calls[c].reads, p)
             /\ Goto(c, [calls[c] EXCEPT !.left = @ \ {p}])
             /\ UNCHANGED <<db, locks, mine, feedVars>>
          \/ /\ ~SameVersion(calls[c].reads, p)
             /\ SqlRollback(c)
             /\ Goto(c, Idle)
    BY <1>14 DEF CommitCheck
  <2>2. CASE SameVersion(calls[c].reads, p)
    <3>1. calls[c] \in CheckState /\ calls[c].left \ {p} \in SUBSET Paths
      BY <1>14, CallShape, CallFields DEF CommitCheck
    <3>3. [calls[c] EXCEPT !.left = @ \ {p}] \in CallState
      BY <3>1, Ticked, TxStates
    <3>4. calls' \in [Calls -> CallState]
      BY <2>1, <2>2, <3>3, GotoType
    <3> QED BY <1>0, <1>14, <2>1, <2>2, <3>4 DEF CommitCheck, PgTypeOK
  <2>3. CASE ~SameVersion(calls[c].reads, p)
    BY <1>14, <2>1, <2>3, RollbackType DEF CommitCheck
  <2> QED BY <2>2, <2>3
<1>15. ASSUME NEW c \in Calls, CommitChecked(c)
       PROVE  PgTypeOK'
  <2>1. /\ calls[c].tx \in TxIds /\ calls[c].reads \in Table
        /\ calls[c].ops \in Seq(Writes) /\ calls[c].base \in Table
        /\ <<>> \in Seq(Events)
    BY <1>15, CallFields DEF CommitChecked
  <2>2. calls' \in [Calls -> CallState]
    BY <1>15, <2>1, GotoType DEF CommitChecked
  <2> QED BY <1>0, <1>15, <2>2 DEF CommitChecked, PgTypeOK
<1>16. ASSUME NEW c \in Calls, CommitWrite(c)
       PROVE  PgTypeOK'
  <2> DEFINE w == Head(calls[c].todo)
             next == [calls[c] EXCEPT !.todo = Tail(@)]
  <2>1. calls[c] \in ApplyingState
    BY <1>16, CallShape DEF CommitWrite
  <2>2. w \in Writes /\ Tail(calls[c].todo) \in Seq(Writes)
    BY <1>16, CallFields DEF CommitWrite
  <2>3. next \in ApplyingState
    BY <2>1, <2>2, Advanced
  <2>4. SqlWrite(c, w, next)
    BY <1>16 DEF CommitWrite
  <2> HIDE DEF next, w
  <2> QED BY <2>2, <2>3, <2>4, SqlWriteType
<1>17. ASSUME NEW c \in Calls, CommitFinish(c)
       PROVE  PgTypeOK'
  <2>1. calls' \in [Calls -> CallState]
    BY <1>17, GotoType DEF CommitFinish
  <2>2. calls[c].out \in Seq(Events) /\ calls[c].tx \in TxIds
    BY <1>17, CallFields DEF CommitFinish
  <2>3. [txs[calls[c].tx] EXCEPT !.row = FALSE] \in TxRow
    <3>1. txs[calls[c].tx] \in TxRow
      BY <2>2 DEF PgTypeOK
    <3> QED BY <3>1, Zenon DEF TxRow
  <2>4. txs' \in [TxIds -> TxRow]
    BY <1>17, <2>2, <2>3 DEF CommitFinish, PgTypeOK
  <2> QED BY <1>17, <2>1, <2>2, <2>4, CommitType DEF CommitFinish, PgTypeOK
<1>18. ASSUME SweepExpiredTransactions
       PROVE  PgTypeOK'
  <2>1. txs' \in [TxIds -> TxRow]
    <3>1. ASSUME NEW t \in TxIds
          PROVE  [txs[t] EXCEPT !.row = @ /\ ~txs[t].expired] \in TxRow
      <4>1. txs[t] \in TxRow
        BY DEF PgTypeOK
      <4> QED BY <4>1, Zenon DEF TxRow
    <3> QED BY <1>18, <3>1 DEF SweepExpiredTransactions
  <2> QED BY <1>0, <1>18, <2>1 DEF SweepExpiredTransactions, PgTypeOK
<1>19. CASE FeedNext /\ UNCHANGED storeVars
  BY <1>19, FeedType DEF storeVars, PgTypeOK
<1>20. CASE UNCHANGED vars
  BY <1>0, <1>20 DEF vars, storeVars, PgTypeOK
<1> QED
  BY <1>1, <1>2, <1>3, <1>4, <1>5, <1>6, <1>7, <1>8, <1>9, <1>10, <1>11,
     <1>12, <1>13, <1>14, <1>15, <1>16, <1>17, <1>18, <1>19, <1>20
  DEF Next, CallStep, ClientStep

(***************************************************************************)
(* Every reachable state of the adapter, of the handlers' calls and of the *)
(* change feed has the types of PgTypeOK; the channel never holds more     *)
(* than its capacity.                                                      *)
(***************************************************************************)
THEOREM PgTypeCorrect == Spec => []PgTypeOK
<1> QED BY InitType, TypeStep, PTL DEF Spec

-----------------------------------------------------------------------------
(***************************************************************************)
(* What a step does to the rows, the locks and the calls: every step is of *)
(* one of these kinds.                                                     *)
(***************************************************************************)
Others(c) == \A d \in Calls \ {c} : calls'[d] = calls[d]

Applies(c) == calls[c].at \in {"applying", "batch"}

\* Nothing of the store, but perhaps the feed or the transactions table.
Rests == UNCHANGED <<db, locks, mine, calls>> /\ (FeedNext \/ UNCHANGED feedVars)

\* A call outside of any SQL transaction moves on.
Outside(c) ==
  /\ ~InSqlTx(c) /\ ~InSqlTx(c)'
  /\ Others(c)
  /\ UNCHANGED <<db, locks, mine, feedVars>>

\* A SQL transaction begins.
Enters(c) ==
  /\ ~InSqlTx(c)
  /\ \/ At(c, "batch")' /\ calls'[c].out = <<>>
     \/ /\ At(c, "check")'
        /\ calls'[c].base = db
        /\ calls'[c].left = {p \in Paths : Recorded(calls'[c].reads, p)}
  /\ Others(c)
  /\ UNCHANGED <<db, locks, mine, feedVars>>

\* The OCC check passes for one path, or is over.
Checks(c) ==
  /\ At(c, "check")
  /\ calls'[c].reads = calls[c].reads /\ calls'[c].base = calls[c].base
  /\ \/ \E p \in Paths : /\ At(c, "check")'
                         /\ calls'[c].left = calls[c].left \ {p}
                         /\ SameVersion(calls[c].reads, p)
     \/ At(c, "applying")' /\ calls[c].left = {} /\ calls'[c].out = <<>>
  /\ Others(c)
  /\ UNCHANGED <<db, locks, mine, feedVars>>

\* The list of writes gets shorter, or its head is checked.
Continues(c) ==
  /\ Applies(c)
  /\ calls'[c].at = calls[c].at
  /\ At(c, "applying") => /\ calls'[c].reads = calls[c].reads
                          /\ calls'[c].base = calls[c].base
  /\ calls'[c].out = calls[c].out
  /\ Others(c)
  /\ UNCHANGED <<db, locks, mine, feedVars>>

\* A statement of a SQL transaction changes a row.
WritesRow(c, w) ==
  /\ Applies(c)
  /\ ~Blocked(c, w) /\ ~WriteFails(View(c), w) /\ Changes(c, w)
  /\ locks' = [locks EXCEPT ![w.path] = c]
  /\ mine' = [mine EXCEPT ![c] = [@ EXCEPT ![w.path] =
                Apply(View(c), w, stamps')[w.path]]]
  /\ calls'[c].at = calls[c].at
  /\ At(c, "applying") => /\ calls'[c].reads = calls[c].reads
                          /\ calls'[c].base = calls[c].base
  /\ calls'[c].out = Append(calls[c].out, EventOf(w))
  /\ Others(c)
  /\ UNCHANGED <<db, feedVars>>

\* An autocommitted statement changes a row.
WritesPlainly(c, w) ==
  /\ ~InSqlTx(c) /\ ~InSqlTx(c)'
  /\ ~Blocked(c, w) /\ ~WriteFails(db, w) /\ Changes(c, w)
  /\ db' = Apply(db, w, stamps')
  /\ Announce(<<EventOf(w)>>)
  /\ Others(c)
  /\ UNCHANGED <<locks, mine>>

\* A SQL transaction ends.
Undoes(c) == SqlRollback(c) /\ ~InSqlTx(c)' /\ Others(c)
Commits(c) ==
  Applies(c) /\ SqlCommit(c, calls[c].out) /\ ~InSqlTx(c)' /\ Others(c)

\* Going somewhere changes one call.
LEMMA GotoOthers ==
  ASSUME PgTypeOK, NEW c \in Calls, NEW s, Goto(c, s)
  PROVE  calls'[c] = s /\ Others(c)
BY DEF PgTypeOK, Goto, Others

\* A statement inside a SQL transaction changes a row, or none.
LEMMA SqlWriteKinds ==
  ASSUME PgTypeOK, NEW c \in Calls, NEW w \in Writes, NEW ws \in Seq(Writes),
         Applies(c), SqlWrite(c, w, [calls[c] EXCEPT !.todo = ws])
  PROVE  Continues(c) \/ WritesRow(c, w)
<1> DEFINE next == [calls[c] EXCEPT !.todo = ws]
           noted == [next EXCEPT !.out = Append(@, EventOf(w))]
<1>1. calls[c] \in ApplyingState \cup BatchState
  BY CallShape DEF Applies, At
<1>2. /\ At(c, "applying") <=> calls[c] \in ApplyingState
      /\ At(c, "applying") => next.reads = calls[c].reads /\ next.base = calls[c].base
      /\ next.at = calls[c].at /\ next.out = calls[c].out
      /\ next \in ApplyingState \cup BatchState
      /\ At(c, "applying") => next \in ApplyingState
  <2>1. At(c, "applying") <=> calls[c] \in ApplyingState
    BY <1>1 DEF At, ApplyingState, BatchState
  <2> QED BY <1>1, <2>1, Advanced
<1>3. EventOf(w) \in Events
  BY EventType
<1> HIDE DEF next
<1>4. /\ At(c, "applying") => noted.reads = calls[c].reads /\ noted.base = calls[c].base
      /\ noted.at = calls[c].at
      /\ noted.out = Append(calls[c].out, EventOf(w))
  BY <1>2, <1>3, Noted
<1> HIDE DEF noted
<1>5. SqlWrite(c, w, next)
  BY DEF next
<1>6. CASE Changes(c, w)
  <2>1. Goto(c, noted)
    BY <1>5, <1>6 DEF SqlWrite, noted
  <2> QED BY <1>4, <1>5, <1>6, <2>1, GotoOthers DEF SqlWrite, WritesRow
<1>7. CASE ~Changes(c, w)
  <2>1. Goto(c, next)
    BY <1>5, <1>7 DEF SqlWrite
  <2> QED BY <1>2, <1>5, <1>7, <2>1, GotoOthers DEF SqlWrite, Continues
<1> QED BY <1>6, <1>7

\* A step of a call, of any of these kinds.
Moves(c) ==
  \/ Outside(c) \/ Enters(c) \/ Checks(c) \/ Continues(c) \/ Undoes(c) \/ Commits(c)
  \/ \E w \in Writes : WritesRow(c, w) \/ WritesPlainly(c, w)

\* Every step of a handler, a client or the deadlock detector is of one of
\* these kinds.
LEMMA CallKinds ==
  ASSUME PgTypeOK, NEW c \in Calls, CallStep(c) \/ ClientStep(c) \/ DeadlockAbort(c)
  PROVE  Moves(c)
<1> USE GotoOthers
<1>1. ASSUME NEW w \in RpcWrites,
             RpcWrite(c, w) \/ RpcMaskedWrite(c, w)
      PROVE  Outside(c)
  BY <1>1 DEF RpcWrite, RpcMaskedWrite, At, Outside, InSqlTx
<1>2. ASSUME PlainWrite(c)
      PROVE  Outside(c) \/ \E w \in Writes : WritesPlainly(c, w)
  <2>1. calls[c].w \in Writes
    BY <1>2, CallFields DEF PlainWrite
  <2>2. ~InSqlTx(c) /\ ~InSqlTx(c)' /\ Others(c)
    BY <1>2 DEF PlainWrite, At, InSqlTx, Idle
  <2> QED BY <1>2, <2>1, <2>2 DEF PlainWrite, Outside, WritesPlainly
<1>3. ASSUME NEW ws \in Batches, BatchBegin(c, ws)
      PROVE  Enters(c)
  BY <1>3 DEF BatchBegin, At, Enters, InSqlTx
<1>4. ASSUME BatchCheck(c)
      PROVE  Continues(c)
  <2> DEFINE w == Head(calls[c].todo)
             u == [kind |-> "update", path |-> w.path]
             ws == <<u>> \o Tail(calls[c].todo)
  <2>1. calls[c].todo \in Seq(Writes) /\ calls[c] \in BatchState
    BY <1>4, CallFields, CallShape DEF BatchCheck
  <2>2. w \in Writes /\ Tail(calls[c].todo) \in Seq(Writes)
    BY <1>4, <2>1 DEF BatchCheck
  <2>3. u \in Writes
    BY <2>2 DEF Writes, PlainKinds
  <2>4. ws \in Seq(Writes)
    <3> HIDE DEF u
    <3> QED BY <2>2, <2>3
  <2>5. Goto(c, [calls[c] EXCEPT !.todo = ws])
    BY <1>4 DEF BatchCheck
  <2> HIDE DEF ws
  <2> DEFINE s == [calls[c] EXCEPT !.todo = ws]
  <2>6. s.at = calls[c].at /\ s.out = calls[c].out
    BY <2>1, <2>4, Advanced
  <2> HIDE DEF s
  <2>7. calls'[c] = s /\ Others(c)
    BY <2>5 DEF s
  <2> QED BY <1>4, <2>6, <2>7 DEF BatchCheck, Continues, Applies, At
<1>5. ASSUME BatchWrite(c) \/ CommitWrite(c)
      PROVE  Continues(c) \/ \E w \in Writes : WritesRow(c, w)
  <2> DEFINE w == Head(calls[c].todo)
             ws == Tail(calls[c].todo)
  <2>1. Applies(c)
    BY <1>5 DEF BatchWrite, CommitWrite, Applies, At
  <2>2. calls[c].todo \in Seq(Writes) /\ calls[c].todo # <<>>
    BY <1>5, CallFields DEF BatchWrite, CommitWrite
  <2>3. w \in Writes /\ ws \in Seq(Writes)
    BY <2>2
  <2>4. SqlWrite(c, w, [calls[c] EXCEPT !.todo = ws])
    BY <1>5 DEF BatchWrite, CommitWrite
  <2> HIDE DEF w, ws
  <2> QED BY <2>1, <2>3, <2>4, SqlWriteKinds
<1>6. ASSUME BatchFail(c) \/ CancelCall(c) \/ DeadlockAbort(c)
      PROVE  Undoes(c)
  <2>1. SqlRollback(c) /\ Goto(c, Idle)
    BY <1>6 DEF BatchFail, CancelCall, DeadlockAbort
  <2> QED BY <2>1 DEF Undoes, InSqlTx, Idle
<1>7. ASSUME BatchCommit(c) \/ CommitFinish(c)
      PROVE  Commits(c)
  BY <1>7 DEF BatchCommit, CommitFinish, Commits, InSqlTx, Idle, At, Applies
<1>8. ASSUME NEW t \in TxIds, NEW p \in Paths, TxRead(c, t, p)
      PROVE  Outside(c)
  BY <1>8 DEF TxRead, Outside, InSqlTx, At
<1>9. ASSUME TxRecord(c)
       PROVE  Outside(c)
  BY <1>9 DEF TxRecord, Outside, InSqlTx, At, Idle
<1>10. ASSUME NEW t \in TxIds, NEW ops \in TxOps,
              CommitLoad(c, t, ops)
       PROVE  Outside(c)
  BY <1>10 DEF CommitLoad, Outside, InSqlTx, At
<1>11. ASSUME CommitBegin(c)
       PROVE  Enters(c)
  BY <1>11 DEF CommitBegin, Enters, InSqlTx, At
<1>12. ASSUME CommitCheck(c)
       PROVE  Checks(c) \/ Undoes(c)
  <2>1. calls[c] \in CheckState /\ calls[c].left \in SUBSET Paths
    BY <1>12, CallShape, CallFields DEF CommitCheck
  <2>2. PICK p \in calls[c].left :
          \/ /\ SameVersion(calls[c].reads, p)
             /\ Goto(c, [calls[c] EXCEPT !.left = @ \ {p}])
             /\ UNCHANGED <<db, locks, mine, feedVars>>
          \/ /\ ~SameVersion(calls[c].reads, p)
             /\ SqlRollback(c)
             /\ Goto(c, Idle)
    BY <1>12 DEF CommitCheck
  <2>3. CASE SameVersion(calls[c].reads, p)
    <3>1. calls[c].left \ {p} \in SUBSET Paths /\ p \in Paths
      BY <2>1
    <3> DEFINE s == [calls[c] EXCEPT !.left = @ \ {p}]
    <3>2. /\ s.at = calls[c].at /\ s.left = calls[c].left \ {p}
          /\ s.reads = calls[c].reads /\ s.base = calls[c].base
      BY <2>1, <3>1, Ticked
    <3> HIDE DEF s
    <3>3. calls'[c] = s /\ Others(c)
      BY <2>2, <2>3 DEF s
    <3> QED BY <1>12, <2>2, <2>3, <3>1, <3>2, <3>3 DEF CommitCheck, Checks, At
  <2>4. CASE ~SameVersion(calls[c].reads, p)
    BY <2>2, <2>4 DEF Undoes, InSqlTx, Idle
  <2> QED BY <2>3, <2>4
<1>13. ASSUME CommitChecked(c)
       PROVE  Checks(c)
  BY <1>13 DEF CommitChecked, Checks, At
<1> QED
  BY <1>1, <1>2, <1>3, <1>4, <1>5, <1>6, <1>7,
     <1>8, <1>9, <1>10, <1>11, <1>12, <1>13
  DEF CallStep, ClientStep, Moves

\* Every step of the specification is of one of these kinds.
LEMMA StepKinds ==
  ASSUME PgTypeOK, Next
  PROVE  \/ Rests
         \/ \E c \in Calls : \/ Outside(c) \/ Enters(c) \/ Checks(c)
                             \/ Continues(c) \/ Undoes(c) \/ Commits(c)
                             \/ \E w \in Writes : WritesRow(c, w) \/ WritesPlainly(c, w)
<1>1. ASSUME NEW t \in TxIds, TxStep(t)
      PROVE  Rests
  BY <1>1 DEF TxStep, BeginTransaction, RollbackTransaction, Expire, Rests
<1>2. ASSUME SweepExpiredTransactions
       PROVE  Rests
  BY <1>2 DEF SweepExpiredTransactions, Rests
<1>3. CASE FeedNext /\ UNCHANGED storeVars
  BY <1>3 DEF Rests, storeVars
<1>4. \A c \in Calls : CallStep(c) \/ ClientStep(c) \/ DeadlockAbort(c) => Moves(c)
  BY CallKinds
<1> QED BY <1>1, <1>2, <1>3, <1>4 DEF Next, Moves

-----------------------------------------------------------------------------
(***************************************************************************)
(* Locks.                                                                  *)
(***************************************************************************)

\* None is not a call.
LEMMA NoneFree == None \notin Calls
BY PgAssumption

\* After c has given its locks up, the others have theirs and c has none.
LEMMA Unlocked ==
  ASSUME PgTypeOK, NEW c \in Calls, NEW p \in Paths, Unlock(c)
  PROVE  /\ locks'[p] # c
         /\ locks[p] # c => locks'[p] = locks[p]
         /\ locks[p] = c => locks'[p] = None
BY NoneFree DEF Unlock, PgTypeOK

\* A statement that changes a row takes no lock away from another call: an
\* INSERT waits for it, and an UPDATE or DELETE waits unless there is nothing
\* for it to change.
LEMMA NotStolen ==
  ASSUME PgTypeOK, NEW c \in Calls, NEW w \in Writes,
         ~Blocked(c, w), ~WriteFails(View(c), w), Changes(c, w)
  PROVE  locks[w.path] \in {c, None}
<1> SUFFICES ASSUME locks[w.path] \notin {c, None}
             PROVE  FALSE
  OBVIOUS
<1>1. w.path \in Paths
  BY DEF Writes
<1>2. View(c)[w.path] = db[w.path]
  BY <1>1 DEF View
<1>3. NeedsRow(w) /\ ~Exists(View(c), w.path)
  BY <1>2 DEF Blocked, Exists
<1> QED BY <1>3 DEF NeedsRow, WriteFails, Changes, IsDelete

\* A call outside of any SQL transaction sees the committed table.
LEMMA OutsideView ==
  ASSUME PgTypeOK, LocksHeld, NEW c \in Calls, ~InSqlTx(c)
  PROVE  View(c) = db /\ \A p \in Paths : locks[p] # c
<1>1. \A p \in Paths : locks[p] # c
  BY NoneFree DEF LocksHeld
<1> QED BY <1>1 DEF View, PgTypeOK, Table

\* Locks are held inside SQL transactions only, whatever happens.
LEMMA LocksStep == PgTypeOK /\ LocksHeld /\ [Next]_vars => LocksHeld'
<1> SUFFICES ASSUME PgTypeOK, LocksHeld, [Next]_vars
             PROVE  LocksHeld'
  OBVIOUS
<1>0. ASSUME NEW c \in Calls, Others(c),
             \A p \in Paths : locks'[p] = c => InSqlTx(c)',
             \A p \in Paths : locks'[p] # c => locks'[p] \in {locks[p], None}
      PROVE  LocksHeld'
  <2> SUFFICES ASSUME NEW p \in Paths, locks'[p] # None
               PROVE  calls'[locks'[p]].at \in {"check", "applying", "batch"}
    BY DEF LocksHeld, InSqlTx
  <2>1. CASE locks'[p] = c
    BY <1>0, <2>1 DEF InSqlTx
  <2>2. CASE locks'[p] # c
    <3>1. locks'[p] = locks[p] /\ locks[p] \in Calls \ {c}
      BY <1>0, <2>2 DEF PgTypeOK
    <3> QED BY <1>0, <3>1 DEF LocksHeld, InSqlTx, Others
  <2> QED BY <2>1, <2>2
<1>1. CASE UNCHANGED vars \/ Rests
  BY <1>1 DEF vars, storeVars, Rests, LocksHeld, InSqlTx
<1>2. ASSUME NEW c \in Calls,
             Outside(c) \/ Enters(c) \/ Checks(c) \/ Continues(c)
      PROVE  LocksHeld'
  <2>1. UNCHANGED locks /\ Others(c)
    BY <1>2 DEF Outside, Enters, Checks, Continues
  <2>2. InSqlTx(c) => InSqlTx(c)'
    BY <1>2 DEF Outside, Enters, Checks, Continues, InSqlTx, At, Applies
  <2> QED BY <1>0, <2>1, <2>2, OutsideView
<1>3. ASSUME NEW c \in Calls, Undoes(c) \/ Commits(c)
      PROVE  LocksHeld'
  <2>1. Unlock(c) /\ Others(c)
    BY <1>3 DEF Undoes, Commits, SqlRollback, SqlCommit
  <2>2. ASSUME NEW p \in Paths
        PROVE  locks'[p] # c /\ locks'[p] \in {locks[p], None}
    BY <2>1, Unlocked
  <2> QED BY <1>0, <2>1, <2>2
<1>4. ASSUME NEW c \in Calls, NEW w \in Writes, WritesRow(c, w)
      PROVE  LocksHeld'
  <2>1. Others(c) /\ InSqlTx(c)'
    BY <1>4 DEF WritesRow, InSqlTx, Applies
  <2>2. w.path \in Paths
    BY DEF Writes
  <2>3. \A p \in Paths : locks'[p] # c => locks'[p] = locks[p]
    BY <1>4, <2>2 DEF WritesRow, PgTypeOK
  <2> QED BY <1>0, <2>1, <2>3
<1>5. ASSUME NEW c \in Calls, NEW w \in Writes, WritesPlainly(c, w)
      PROVE  LocksHeld'
  <2>1. UNCHANGED locks /\ Others(c) /\ ~InSqlTx(c)
    BY <1>5 DEF WritesPlainly
  <2> QED BY <1>0, <2>1, OutsideView
<1> QED BY <1>1, <1>2, <1>3, <1>4, <1>5, StepKinds

(***************************************************************************)
(* No error path, cancellation or deadlock leaves a row locked: whoever    *)
(* holds a lock is inside a SQL transaction.                               *)
(***************************************************************************)
THEOREM LocksNeverLeak == Spec => []LocksHeld
<1>1. Init => LocksHeld
  BY DEF Init, LocksHeld
<1> QED BY <1>1, InitType, TypeStep, LocksStep, PTL DEF Spec

-----------------------------------------------------------------------------
(***************************************************************************)
(* Rows.                                                                   *)
(***************************************************************************)

(***************************************************************************)
(* What a SQL transaction holds back descends from what it will replace,   *)
(* because a row it has written is locked until it ends.                   *)
(***************************************************************************)
MineDescends ==
  \A c \in Calls, p \in Paths : locks[p] = c => Descends(db[p], mine[c][p])

\* Committed rows only move on.
Grows == \A p \in Paths : Descends(db[p], db'[p])

\* A statement leaves rows that descend from those it sees, and touches one.
LEMMA AppliedRow ==
  ASSUME NEW tbl \in Table, NEW w \in Writes, NEW s \in Nat
  PROVE  /\ w.path \in Paths
         /\ Apply(tbl, w, s)[w.path] \in Row
         /\ Descends(tbl[w.path], Apply(tbl, w, s)[w.path])
         /\ \A p \in Paths : p # w.path => Apply(tbl, w, s)[p] = tbl[p]
<1>1. w.path \in Paths
  BY DEF Writes
<1>2. Apply(tbl, w, s) \in Table /\ Descends(tbl[w.path], Apply(tbl, w, s)[w.path])
  BY <1>1, ApplyDescends
<1>3. \A p \in Paths : p # w.path => Apply(tbl, w, s)[p] = tbl[p]
  BY <1>1 DEF Apply, Table
<1> QED BY <1>1, <1>2, <1>3 DEF Table

\* Every step lets rows move on only, and keeps uncommitted rows descending.
LEMMA RowsStep ==
  ASSUME PgTypeOK, PgTypeOK', LocksHeld, MineDescends, [Next]_vars
  PROVE  Grows /\ MineDescends'
<1>0. ASSUME UNCHANGED db
      PROVE  Grows
  BY <1>0, DescendsRefl DEF Grows, PgTypeOK, Table
<1>1. CASE \/ UNCHANGED vars \/ Rests
           \/ \E c \in Calls : Outside(c) \/ Enters(c) \/ Checks(c) \/ Continues(c)
  <2>1. UNCHANGED <<db, locks, mine>>
    BY <1>1 DEF vars, storeVars, Rests, Outside, Enters, Checks, Continues
  <2> QED BY <1>0, <2>1 DEF MineDescends
<1>2. ASSUME NEW c \in Calls, Undoes(c)
      PROVE  Grows /\ MineDescends'
  <2>1. UNCHANGED db /\ Unlock(c)
    BY <1>2 DEF Undoes, SqlRollback
  <2>2. ASSUME NEW d \in Calls, NEW p \in Paths, locks'[p] = d
        PROVE  d # c /\ locks[p] = d
    <3>1. /\ locks'[p] # c
          /\ locks[p] # c => locks'[p] = locks[p]
          /\ locks[p] = c => locks'[p] = None
      BY <2>1, Unlocked
    <3> QED BY <2>2, <3>1, NoneFree
  <2>3. \A d \in Calls \ {c} : mine'[d] = mine[d]
    BY <2>1 DEF Unlock, PgTypeOK
  <2> QED BY <1>0, <2>1, <2>2, <2>3 DEF MineDescends
<1>3. ASSUME NEW c \in Calls, Commits(c)
      PROVE  Grows /\ MineDescends'
  <2>1. db' = View(c) /\ Unlock(c)
    BY <1>3 DEF Commits, SqlCommit
  <2>2. ASSUME NEW p \in Paths
        PROVE  Descends(db[p], db'[p])
    <3>1. db[p] \in Row
      BY DEF PgTypeOK, Table
    <3> QED BY <2>1, <3>1, DescendsRefl DEF View, MineDescends
  <2>3. ASSUME NEW d \in Calls, NEW p \in Paths, locks'[p] = d
        PROVE  d # c /\ locks[p] = d
    <3>1. /\ locks'[p] # c
          /\ locks[p] # c => locks'[p] = locks[p]
          /\ locks[p] = c => locks'[p] = None
      BY <2>1, Unlocked
    <3> QED BY <2>3, <3>1, NoneFree
  <2>4. \A p \in Paths : locks[p] # c => db'[p] = db[p]
    BY <2>1 DEF View
  <2>5. \A d \in Calls \ {c} : mine'[d] = mine[d]
    BY <2>1 DEF Unlock, PgTypeOK
  <2> QED BY <2>2, <2>3, <2>4, <2>5 DEF Grows, MineDescends
<1>4. ASSUME NEW c \in Calls, NEW w \in Writes, WritesRow(c, w)
      PROVE  Grows /\ MineDescends'
  <2> DEFINE r == Apply(View(c), w, stamps')[w.path]
  <2>1. stamps' \in Nat /\ View(c) \in Table
    BY ViewType DEF PgTypeOK
  <2>2. w.path \in Paths /\ r \in Row /\ Descends(View(c)[w.path], r)
    BY <2>1, AppliedRow
  <2> HIDE DEF r
  <2>3. /\ locks' = [locks EXCEPT ![w.path] = c]
        /\ mine' = [mine EXCEPT ![c] = [@ EXCEPT ![w.path] = r]]
        /\ UNCHANGED db
    BY <1>4 DEF WritesRow, r
  <2>4. Descends(db[w.path], r)
    <3>1. /\ db[w.path] \in Row /\ View(c)[w.path] \in Row
      BY <2>1, <2>2 DEF PgTypeOK, Table
    <3>2. Descends(db[w.path], View(c)[w.path])
      BY <2>2, <3>1, DescendsRefl DEF View, MineDescends
    <3> QED BY <2>2, <3>1, <3>2, DescendsTrans
  <2>5. ASSUME NEW d \in Calls, NEW p \in Paths, locks'[p] = d
        PROVE  Descends(db'[p], mine'[d][p])
    <3>1. CASE p = w.path
      <4>1. d = c
        BY <2>2, <2>3, <2>5, <3>1 DEF PgTypeOK
      <4>2. mine'[d][p] = r
        BY <2>2, <2>3, <3>1, <4>1 DEF PgTypeOK, Table
      <4> QED BY <2>3, <2>4, <3>1, <4>2
    <3>2. CASE p # w.path
      <4>1. locks[p] = d
        BY <2>2, <2>3, <2>5, <3>2 DEF PgTypeOK
      <4>2. mine'[d][p] = mine[d][p]
        BY <2>2, <2>3, <3>2 DEF PgTypeOK, Table
      <4> QED BY <2>3, <4>1, <4>2 DEF MineDescends
    <3> QED BY <3>1, <3>2
  <2> QED BY <1>0, <2>3, <2>5 DEF MineDescends
<1>5. ASSUME NEW c \in Calls, NEW w \in Writes, WritesPlainly(c, w)
      PROVE  Grows /\ MineDescends'
  <2>1. /\ db' = Apply(db, w, stamps') /\ UNCHANGED <<locks, mine>>
        /\ ~InSqlTx(c) /\ ~Blocked(c, w) /\ ~WriteFails(db, w) /\ Changes(c, w)
    BY <1>5 DEF WritesPlainly
  <2>2. View(c) = db /\ \A p \in Paths : locks[p] # c
    BY <2>1, OutsideView
  <2>3. db \in Table /\ stamps' \in Nat
    BY DEF PgTypeOK
  <2>4. w.path \in Paths
    BY <2>3, AppliedRow
  <2>5. locks[w.path] = None
    BY <2>1, <2>2, <2>4, NotStolen
  <2>6. \A p \in Paths : p # w.path => db'[p] = db[p]
    BY <2>1, <2>3, AppliedRow
  <2>7. Grows
    BY <2>1, <2>3, ApplyDescends DEF Grows
  <2> QED BY <2>1, <2>4, <2>5, <2>6, <2>7, NoneFree DEF MineDescends
<1> QED BY <1>1, <1>2, <1>3, <1>4, <1>5, StepKinds

-----------------------------------------------------------------------------
(***************************************************************************)
(* The OCC check.                                                          *)
(***************************************************************************)

\* The check of path p is over.
Settled(c, p) == At(c, "check") => p \notin calls[c].left

(***************************************************************************)
(* What PgCommitValidated says of a path holds from the moment the path is *)
(* checked, and rows only move on from base in the meantime.               *)
(***************************************************************************)
CheckHolds(c) ==
  calls[c].at \in {"check", "applying"} =>
    \A p \in Paths :
      /\ Descends(calls[c].base[p], db[p])
      /\ /\ Recorded(calls[c].reads, p)
         /\ Settled(c, p)
         /\ calls[c].reads[p].epoch = db[p].epoch
         => ~Before(calls[c].reads[p], calls[c].base[p])

\* A row r not overwritten in base b stays so while the committed row moves
\* on from d to e: if d had another epoch than r, r was deleted after b.
LEMMA StillNotBefore ==
  ASSUME NEW r \in Row, NEW b \in Row, NEW d \in Row, NEW e \in Row,
         Descends(b, d), Descends(d, e), r.epoch = e.epoch,
         r.epoch = d.epoch => ~Before(r, b)
  PROVE  ~Before(r, b)
BY DEF Row, Descends, Before

\* A row of the version that is committed now was not overwritten in base b.
LEMMA SameVersionNotBefore ==
  ASSUME NEW r \in Row, NEW b \in Row, NEW d \in Row,
         Descends(b, d), r.version = d.version, r.epoch = d.epoch
  PROVE  ~Before(r, b)
BY DEF Row, Descends, Before

\* Every step keeps what the check has found out.
LEMMA CheckStep ==
  ASSUME PgTypeOK, PgTypeOK', LocksHeld, MineDescends, [Next]_vars,
         NEW d \in Calls, CheckHolds(d)
  PROVE  CheckHolds(d)'
<1> DEFINE Holds(p) == /\ Descends(calls'[d].base[p], db'[p])
                       /\ /\ Recorded(calls'[d].reads, p)
                          /\ Settled(d, p)'
                          /\ calls'[d].reads[p].epoch = db'[p].epoch
                          => ~Before(calls'[d].reads[p], calls'[d].base[p])
<1> SUFFICES ASSUME calls'[d].at \in {"check", "applying"}, NEW p \in Paths
             PROVE  Holds(p)
  BY DEF CheckHolds, Recorded
<1>1. Grows
  BY RowsStep
<1>2. db[p] \in Row /\ db'[p] \in Row /\ Descends(db[p], db'[p])
  BY <1>1 DEF PgTypeOK, Table, Grows
<1>3. calls'[d].reads[p] \in Row /\ calls'[d].base[p] \in Row
  <2>1. calls'[d] \in CallState
    BY DEF PgTypeOK
  <2>2. calls'[d].reads \in Table /\ calls'[d].base \in Table
    BY <2>1 DEF CallState, Idle
  <2> QED BY <2>2 DEF Table
\* The call keeps what it has read and seen, and settles nothing.
<1>4. ASSUME calls[d].at \in {"check", "applying"},
             calls'[d].reads = calls[d].reads, calls'[d].base = calls[d].base,
             Settled(d, p)' => Settled(d, p)
      PROVE  Holds(p)
  <2>1. /\ Descends(calls[d].base[p], db[p])
        /\ Recorded(calls[d].reads, p) /\ Settled(d, p)
             /\ calls[d].reads[p].epoch = db[p].epoch
           => ~Before(calls[d].reads[p], calls[d].base[p])
    BY <1>4 DEF CheckHolds
  <2>2. Descends(calls'[d].base[p], db'[p])
    BY <1>2, <1>3, <1>4, <2>1, DescendsTrans
  <2> QED BY <1>2, <1>3, <1>4, <2>1, <2>2, StillNotBefore
<1>5. ASSUME UNCHANGED calls \/ \E c \in Calls \ {d} : Others(c)
      PROVE  Holds(p)
  <2>1. calls'[d] = calls[d]
    BY <1>5 DEF Others
  <2>2. Settled(d, p)' => Settled(d, p)
    BY <2>1 DEF Settled, At
  <2> HIDE DEF Holds
  <2> QED BY <1>4, <2>1, <2>2
<1>6. CASE UNCHANGED vars \/ Rests
  BY <1>5, <1>6 DEF vars, storeVars, Rests
<1>7. CASE Outside(d) \/ Undoes(d) \/ Commits(d)
           \/ \E w \in Writes : WritesPlainly(d, w)
  <2>1. ~InSqlTx(d)'
    BY <1>7 DEF Outside, Undoes, Commits, WritesPlainly
  <2> QED BY <2>1 DEF InSqlTx
<1>8. CASE Enters(d)
  <2>1. At(d, "check")' /\ calls'[d].base = db /\ db' = db
        /\ calls'[d].left = {x \in Paths : Recorded(calls'[d].reads, x)}
    BY <1>8 DEF Enters, At
  <2>2. ~(Recorded(calls'[d].reads, p) /\ Settled(d, p)')
    BY <2>1 DEF Settled
  <2> QED BY <1>2, <2>1, <2>2
<1>9. CASE Checks(d)
  <2>1. /\ At(d, "check") /\ db' = db
        /\ calls'[d].reads = calls[d].reads /\ calls'[d].base = calls[d].base
    BY <1>9 DEF Checks
  <2>2. calls[d].at \in {"check", "applying"}
    BY <2>1 DEF At
  <2>3. CASE Settled(d, p)' => Settled(d, p)
    <3> HIDE DEF Holds
    <3> QED BY <1>4, <2>1, <2>2, <2>3
  <2>4. CASE Settled(d, p)' /\ ~Settled(d, p)
    <3>1. SameVersion(calls[d].reads, p)
      BY <1>9, <2>4 DEF Checks, Settled, At
    <3>2. Descends(calls[d].base[p], db[p])
      BY <2>2 DEF CheckHolds
    <3>3. calls'[d].reads[p].version = db[p].version
      BY <2>1, <3>1 DEF SameVersion
    <3>4. calls'[d].reads[p].epoch = db[p].epoch
            => ~Before(calls'[d].reads[p], calls'[d].base[p])
      BY <1>2, <1>3, <2>1, <3>2, <3>3, SameVersionNotBefore
    <3> QED BY <2>1, <3>2, <3>4
  <2> QED BY <2>3, <2>4
<1>10. CASE Continues(d) \/ \E w \in Writes : WritesRow(d, w)
  <2>1. /\ Applies(d) /\ calls'[d].at = calls[d].at
        /\ At(d, "applying") => /\ calls'[d].reads = calls[d].reads
                                /\ calls'[d].base = calls[d].base
    BY <1>10 DEF Continues, WritesRow
  <2>2. At(d, "applying")
    BY <2>1 DEF Applies, At
  <2>3. Settled(d, p)
    BY <2>2 DEF Settled, At
  <2> HIDE DEF Holds
  <2> QED BY <1>4, <2>1, <2>2, <2>3 DEF At
<1>11. ASSUME NEW c \in Calls, c # d,
              \/ Outside(c) \/ Enters(c) \/ Checks(c) \/ Continues(c)
              \/ Undoes(c) \/ Commits(c)
              \/ \E w \in Writes : WritesRow(c, w) \/ WritesPlainly(c, w)
       PROVE  Holds(p)
  <2>1. Others(c)
    BY <1>11 DEF Outside, Enters, Checks, Continues, Undoes, Commits,
                 WritesRow, WritesPlainly
  <2> HIDE DEF Holds
  <2> QED BY <1>5, <1>11, <2>1
<1> HIDE DEF Holds
<1>12. ASSUME NEW c \in Calls,
              \/ Outside(c) \/ Enters(c) \/ Checks(c) \/ Continues(c)
              \/ Undoes(c) \/ Commits(c)
              \/ \E w \in Writes : WritesRow(c, w) \/ WritesPlainly(c, w)
       PROVE  Holds(p)
  <2>1. CASE c # d
    BY <1>11, <1>12, <2>1
  <2>2. CASE c = d
    BY <1>7, <1>8, <1>9, <1>10, <1>12, <2>2
  <2> QED BY <2>1, <2>2
<1>13. Holds(p)
  BY <1>6, <1>12, StepKinds
<1> QED BY <1>13

\* The invariant of the rows.
RowsInv ==
  PgTypeOK /\ LocksHeld /\ MineDescends /\ \A c \in Calls : CheckHolds(c)

\* It holds of every reachable state.
LEMMA RowsAlways == Spec => []RowsInv
<1>1. Init => RowsInv
  <2>1. Init => LocksHeld /\ MineDescends
    BY NoneFree DEF Init, LocksHeld, MineDescends
  <2>2. Init => \A c \in Calls : CheckHolds(c)
    <3>1. Init => \A c \in Calls : calls[c].at = "idle"
      BY DEF Init, Idle
    <3> QED BY <3>1 DEF CheckHolds
  <2> QED BY <2>1, <2>2, InitType DEF RowsInv
<1>2. RowsInv /\ [Next]_vars => RowsInv'
  <2> SUFFICES ASSUME RowsInv, [Next]_vars
               PROVE  RowsInv'
    OBVIOUS
  <2>1. PgTypeOK /\ LocksHeld /\ MineDescends
    BY DEF RowsInv
  <2>2. PgTypeOK' /\ LocksHeld'
    BY <2>1, TypeStep, LocksStep
  <2>3. MineDescends'
    BY <2>1, <2>2, RowsStep
  <2>4. ASSUME NEW c \in Calls
        PROVE  CheckHolds(c)'
    BY <2>1, <2>2, CheckStep DEF RowsInv
  <2> QED BY <2>2, <2>3, <2>4 DEF RowsInv
<1> QED BY <1>1, <1>2, PTL DEF Spec

(***************************************************************************)
(* A commit that is past its OCC check has found nothing overwritten that  *)
(* was committed before its SQL transaction began.                         *)
(***************************************************************************)
THEOREM PgCommitsValidated == Spec => []PgCommitValidated
<1>1. RowsInv => PgCommitValidated
  BY DEF RowsInv, CheckHolds, PgCommitValidated, Settled, At
<1> QED BY <1>1, RowsAlways, PTL

-----------------------------------------------------------------------------
(***************************************************************************)
(* Sequences of events.                                                    *)
(***************************************************************************)

\* Event i is the last one about p.
IsLast(s, p, i) ==
  /\ i \in DOMAIN s /\ s[i].path = p
  /\ \A j \in DOMAIN s : i < j => s[j].path # p

\* The last event about p, if any, is right of a table.
Says(s, p, tbl) ==
  \A i \in DOMAIN s : IsLast(s, p, i) => (s[i].kind = "upsert" <=> Exists(tbl, p))

(***************************************************************************)
(* A subscriber that has last been told kind k of p, and has the events s  *)
(* before it, ends up with what the table holds.                           *)
(***************************************************************************)
Faithful(s, p, tbl, k) ==
  /\ Says(s, p, tbl)
  /\ p \notin PathsOf(s) => (k = "upsert" <=> Exists(tbl, p))

\* Where the events of a concatenation are.
LEMMA Concat ==
  ASSUME NEW s \in Seq(Events), NEW t \in Seq(Events)
  PROVE  /\ s \o t \in Seq(Events)
         /\ DOMAIN s = 1 .. Len(s) /\ DOMAIN t = 1 .. Len(t)
         /\ Len(s) \in Nat /\ Len(t) \in Nat
         /\ DOMAIN (s \o t) = 1 .. Len(s) + Len(t)
         /\ \A i \in 1 .. Len(s) : (s \o t)[i] = s[i]
         /\ \A i \in 1 .. Len(t) : (s \o t)[Len(s) + i] = t[i]
OBVIOUS

\* It is about the paths of both.
LEMMA ConcatPaths ==
  ASSUME NEW s \in Seq(Events), NEW t \in Seq(Events)
  PROVE  PathsOf(s \o t) = PathsOf(s) \cup PathsOf(t)
<1> USE Concat
<1>1. ASSUME NEW p \in PathsOf(s \o t)
      PROVE  p \in PathsOf(s) \cup PathsOf(t)
  <2>1. PICK i \in 1 .. Len(s) + Len(t) : (s \o t)[i].path = p
    BY <1>1 DEF PathsOf
  <2>2. CASE i <= Len(s)
    <3>1. i \in DOMAIN s /\ s[i].path = p
      BY <2>1, <2>2
    <3> QED BY <3>1 DEF PathsOf
  <2>3. CASE i > Len(s)
    <3>1. i - Len(s) \in 1 .. Len(t) /\ Len(s) + (i - Len(s)) = i
      BY <2>1, <2>3
    <3>2. i - Len(s) \in DOMAIN t /\ t[i - Len(s)].path = p
      BY <2>1, <3>1
    <3> QED BY <3>2 DEF PathsOf
  <2> QED BY <2>1, <2>2, <2>3
<1>2. ASSUME NEW p \in PathsOf(s)
      PROVE  p \in PathsOf(s \o t)
  <2>1. PICK i \in 1 .. Len(s) : s[i].path = p
    BY <1>2 DEF PathsOf
  <2>2. i \in DOMAIN (s \o t) /\ (s \o t)[i].path = p
    BY <2>1
  <2> QED BY <2>2 DEF PathsOf
<1>3. ASSUME NEW p \in PathsOf(t)
      PROVE  p \in PathsOf(s \o t)
  <2>1. PICK i \in 1 .. Len(t) : t[i].path = p
    BY <1>3 DEF PathsOf
  <2>2. Len(s) + i \in DOMAIN (s \o t) /\ (s \o t)[Len(s) + i].path = p
    BY <2>1
  <2> QED BY <2>2 DEF PathsOf
<1> QED BY <1>1, <1>2, <1>3

\* If the second part is about p, it has the last word.
LEMMA SaysRight ==
  ASSUME NEW s \in Seq(Events), NEW t \in Seq(Events), NEW p \in PathsOf(t),
         NEW tbl, Says(t, p, tbl)
  PROVE  Says(s \o t, p, tbl)
<1> USE Concat
<1> SUFFICES ASSUME NEW i \in DOMAIN (s \o t), IsLast(s \o t, p, i)
             PROVE  (s \o t)[i].kind = "upsert" <=> Exists(tbl, p)
  BY DEF Says
<1>1. PICK k \in 1 .. Len(t) : t[k].path = p
  BY DEF PathsOf
<1>2. ~(i < Len(s) + k)
  <2>1. Len(s) + k \in DOMAIN (s \o t) /\ (s \o t)[Len(s) + k].path = p
    BY <1>1
  <2> QED BY <2>1 DEF IsLast
<1> DEFINE m == i - Len(s)
<1>3. m \in 1 .. Len(t) /\ i = Len(s) + m
  BY <1>1, <1>2
<1>4. (s \o t)[i] = t[m]
  BY <1>3
<1>5. IsLast(t, p, m)
  <2>1. m \in DOMAIN t /\ t[m].path = p
    BY <1>3, <1>4 DEF IsLast
  <2>2. ASSUME NEW j \in 1 .. Len(t), m < j
        PROVE  t[j].path # p
    <3>1. Len(s) + j \in DOMAIN (s \o t) /\ i < Len(s) + j
      BY <1>3, <2>2
    <3>2. (s \o t)[Len(s) + j] = t[j]
      OBVIOUS
    <3> QED BY <3>1, <3>2 DEF IsLast
  <2> QED BY <2>1, <2>2 DEF IsLast
<1> QED BY <1>3, <1>4, <1>5 DEF Says

\* If it is not, the last event about p is that of the first part.
LEMMA LastLeft ==
  ASSUME NEW s \in Seq(Events), NEW t \in Seq(Events), NEW p,
         p \notin PathsOf(t), NEW i
  PROVE  /\ IsLast(s \o t, p, i) <=> IsLast(s, p, i)
         /\ IsLast(s, p, i) => (s \o t)[i] = s[i]
<1> USE Concat
<1>1. \A j \in 1 .. Len(t) : t[j].path # p
  BY DEF PathsOf
<1>2. \A j \in 1 .. Len(s) + Len(t) : (s \o t)[j].path = p =>
          j \in 1 .. Len(s) /\ s[j].path = p
  <2> SUFFICES ASSUME NEW j \in 1 .. Len(s) + Len(t), (s \o t)[j].path = p
               PROVE  j \in 1 .. Len(s) /\ s[j].path = p
    OBVIOUS
  <2>1. CASE j <= Len(s)
    BY <2>1
  <2>2. CASE j > Len(s)
    <3>1. j - Len(s) \in 1 .. Len(t) /\ Len(s) + (j - Len(s)) = j
      BY <2>2
    <3> QED BY <1>1, <3>1
  <2> QED BY <2>1, <2>2
<1>3. \A j \in 1 .. Len(s) : j \in 1 .. Len(s) + Len(t) /\ (s \o t)[j] = s[j]
  OBVIOUS
<1>4. IsLast(s \o t, p, i) => IsLast(s, p, i)
  BY <1>2, <1>3 DEF IsLast
<1>5. IsLast(s, p, i) => IsLast(s \o t, p, i)
  BY <1>2, <1>3 DEF IsLast
<1> QED BY <1>3, <1>4, <1>5 DEF IsLast

\* So the first part has the last word.
LEMMA SaysLeft ==
  ASSUME NEW s \in Seq(Events), NEW t \in Seq(Events), NEW p, NEW old, NEW new,
         p \notin PathsOf(t), Says(s, p, old),
         Exists(new, p) <=> Exists(old, p)
  PROVE  Says(s \o t, p, new)
<1> SUFFICES ASSUME NEW i \in DOMAIN (s \o t), IsLast(s \o t, p, i)
             PROVE  (s \o t)[i].kind = "upsert" <=> Exists(new, p)
  BY DEF Says
<1>1. IsLast(s, p, i) /\ (s \o t)[i] = s[i]
  BY LastLeft
<1>2. i \in DOMAIN s
  BY <1>1 DEF IsLast
<1> QED BY <1>1, <1>2 DEF Says

\* What is announced after a change of the table keeps the word right.
LEMMA FaithfulConcat ==
  ASSUME NEW s \in Seq(Events), NEW t \in Seq(Events), NEW p, NEW k,
         NEW old, NEW new, Faithful(s, p, old, k),
         p \in PathsOf(t) => Says(t, p, new),
         p \notin PathsOf(t) => (Exists(new, p) <=> Exists(old, p))
  PROVE  Faithful(s \o t, p, new, k)
<1>1. CASE p \in PathsOf(t)
  BY <1>1, SaysRight, ConcatPaths DEF Faithful
<1>2. CASE p \notin PathsOf(t)
  <2>1. Says(s \o t, p, new)
    BY <1>2, SaysLeft DEF Faithful
  <2> QED BY <1>2, <2>1, ConcatPaths DEF Faithful
<1> QED BY <1>1, <1>2

\* Events about other paths may be lost.
LEMMA FaithfulPrefix ==
  ASSUME NEW s \in Seq(Events), NEW t \in Seq(Events), NEW p, NEW k, NEW tbl,
         Faithful(s \o t, p, tbl, k), p \notin PathsOf(t)
  PROVE  Faithful(s, p, tbl, k)
<1>1. Says(s, p, tbl)
  <2> SUFFICES ASSUME NEW i \in DOMAIN s, IsLast(s, p, i)
               PROVE  s[i].kind = "upsert" <=> Exists(tbl, p)
    BY DEF Says
  <2>1. IsLast(s \o t, p, i) /\ (s \o t)[i] = s[i]
    BY LastLeft
  <2>2. i \in DOMAIN (s \o t)
    BY <2>1 DEF IsLast
  <2> QED BY <2>1, <2>2 DEF Faithful, Says
<1> QED BY <1>1, ConcatPaths DEF Faithful

\* The subscriber takes the oldest event.
LEMMA FaithfulTail ==
  ASSUME NEW s \in Seq(Events), s # <<>>, NEW p, NEW k, NEW tbl,
         Faithful(s, p, tbl, k)
  PROVE  Faithful(Tail(s), p, tbl, IF Head(s).path = p THEN Head(s).kind ELSE k)
<1> DEFINE t == Tail(s)
<1>1. /\ Len(s) \in Nat \ {0} /\ DOMAIN s = 1 .. Len(s) /\ Head(s) = s[1]
      /\ DOMAIN t = 1 .. Len(s) - 1
      /\ \A i \in 1 .. Len(s) - 1 : t[i] = s[i + 1]
  OBVIOUS
<1> HIDE DEF t
<1>2. Says(t, p, tbl)
  <2> SUFFICES ASSUME NEW i \in DOMAIN t, IsLast(t, p, i)
               PROVE  t[i].kind = "upsert" <=> Exists(tbl, p)
    BY DEF Says
  <2>1. i + 1 \in DOMAIN s /\ s[i + 1] = t[i]
    BY <1>1
  <2>2. IsLast(s, p, i + 1)
    <3> SUFFICES ASSUME NEW j \in DOMAIN s, i + 1 < j
                 PROVE  s[j].path # p
      BY <2>1 DEF IsLast
    <3>1. j - 1 \in DOMAIN t /\ i < j - 1 /\ t[j - 1] = s[j]
      BY <1>1
    <3> QED BY <3>1 DEF IsLast
  <2> QED BY <2>1, <2>2 DEF Faithful, Says
<1>3. ASSUME p \notin PathsOf(t), Head(s).path = p
      PROVE  Head(s).kind = "upsert" <=> Exists(tbl, p)
  <2>1. \A j \in DOMAIN t : t[j].path # p
    BY <1>3 DEF PathsOf
  <2>2. ASSUME NEW j \in DOMAIN s, 1 < j
        PROVE  s[j].path # p
    <3>1. j - 1 \in DOMAIN t /\ t[j - 1] = s[j]
      BY <1>1, <2>2
    <3> QED BY <2>1, <3>1
  <2>3. 1 \in DOMAIN s /\ IsLast(s, p, 1)
    BY <1>1, <1>3, <2>2 DEF IsLast
  <2> QED BY <1>1, <2>3 DEF Faithful, Says
<1>4. ASSUME p \notin PathsOf(t), Head(s).path # p
      PROVE  p \notin PathsOf(s)
  <2>1. ASSUME NEW j \in DOMAIN s
        PROVE  s[j].path # p
    <3>1. CASE j = 1
      BY <1>1, <1>4, <3>1
    <3>2. CASE j # 1
      <4>1. j - 1 \in DOMAIN t /\ t[j - 1] = s[j]
        BY <1>1, <3>2
      <4> QED BY <1>4, <4>1 DEF PathsOf
    <3> QED BY <3>1, <3>2
  <2> QED BY <2>1 DEF PathsOf
<1>5. Faithful(t, p, tbl, IF Head(s).path = p THEN Head(s).kind ELSE k)
  BY <1>2, <1>3, <1>4 DEF Faithful
<1> QED BY <1>5 DEF t

\* The event of a write says what the write has done.
LEMMA EventSays ==
  ASSUME NEW tbl \in Table, NEW w \in Writes, NEW n \in Nat, NEW new,
         new[w.path] = Apply(tbl, w, n)[w.path]
  PROVE  /\ PathsOf(<<EventOf(w)>>) = {w.path}
         /\ Says(<<EventOf(w)>>, w.path, new)
<1>1. EventOf(w).path = w.path
      /\ (EventOf(w).kind = "upsert" <=> ~IsDelete(w))
  BY DEF EventOf
<1>2. Exists(new, w.path) <=> ~IsDelete(w)
  <2>1. w.path \in Paths /\ tbl[w.path] \in Row
    BY DEF Writes, Table
  <2>2. new[w.path] = IF IsDelete(w) THEN Drop(tbl[w.path])
                      ELSE Put(tbl[w.path], n)
    BY <2>1 DEF Apply, Table
  <2> QED BY <2>1, <2>2 DEF Exists, Drop, Put, Row
<1>3. DOMAIN <<EventOf(w)>> = {1} /\ <<EventOf(w)>>[1] = EventOf(w)
  OBVIOUS
<1> QED BY <1>1, <1>2, <1>3 DEF PathsOf, Says

-----------------------------------------------------------------------------
(***************************************************************************)
(* The notifications.                                                      *)
(***************************************************************************)

(***************************************************************************)
(* A SQL transaction has an event for every row it has locked and for no   *)
(* other, and its last event about a row is right of the row it holds back.*)
(***************************************************************************)
OutFaithful(c) ==
  /\ Applies(c) => \A p \in Paths :
                     /\ locks[p] = c <=> p \in PathsOf(calls[c].out)
                     /\ Says(calls[c].out, p, mine[c])
  /\ At(c, "check") => \A p \in Paths : locks[p] # c

\* The events on their way, after what the subscriber has seen, are right of
\* the committed table, for every path whose latest change was not lost.
FeedInv == \A p \in Paths \ missed : Faithful(InFlight, p, db, seen[p])

\* No events say nothing.
LEMMA SaysNothing ==
  ASSUME NEW p, NEW tbl
  PROVE  PathsOf(<<>>) = {} /\ Says(<<>>, p, tbl)
BY DEF PathsOf, Says

\* What the others hold is theirs, whatever c does.
LEMMA OutOthers ==
  ASSUME NEW c \in Calls, NEW d \in Calls \ {c}, Others(c), OutFaithful(d),
         \A p \in Paths : locks'[p] = d <=> locks[p] = d,
         mine'[d] = mine[d]
  PROVE  OutFaithful(d)'
<1>1. calls'[d] = calls[d]
  BY DEF Others
<1> QED BY <1>1 DEF OutFaithful, Applies, At

\* Every step keeps the events of a SQL transaction right.
LEMMA OutStep ==
  ASSUME PgTypeOK, PgTypeOK', LocksHeld, [Next]_vars,
         \A c \in Calls : OutFaithful(c)
  PROVE  \A c \in Calls : OutFaithful(c)'
<1> DEFINE Goal == \A c \in Calls : OutFaithful(c)'
<1> SUFFICES Goal
  OBVIOUS
<1>1. CASE UNCHANGED vars \/ Rests
  <2>1. UNCHANGED <<locks, mine, calls>>
    BY <1>1 DEF vars, storeVars, Rests
  <2> QED BY <2>1 DEF OutFaithful, Applies, At
<1>2. ASSUME NEW c \in Calls, UNCHANGED <<locks, mine>>, Others(c),
             OutFaithful(c)'
      PROVE  Goal
  BY <1>2, OutOthers
<1>3. ASSUME NEW c \in Calls, ~InSqlTx(c)'
      PROVE  OutFaithful(c)'
  BY <1>3 DEF InSqlTx, OutFaithful, Applies, At
<1>4. ASSUME NEW c \in Calls,
             Outside(c) \/ \E w \in Writes : WritesPlainly(c, w)
      PROVE  Goal
  <2>1. UNCHANGED <<locks, mine>> /\ Others(c) /\ ~InSqlTx(c)'
    BY <1>4 DEF Outside, WritesPlainly
  <2> HIDE DEF Goal
  <2> QED BY <1>2, <1>3, <2>1
<1>5. ASSUME NEW c \in Calls, Undoes(c) \/ Commits(c)
      PROVE  Goal
  <2>1. Unlock(c) /\ Others(c) /\ ~InSqlTx(c)'
    BY <1>5 DEF Undoes, Commits, SqlRollback, SqlCommit
  <2>2. ASSUME NEW d \in Calls \ {c}
        PROVE  OutFaithful(d)'
    <3>1. ASSUME NEW p \in Paths
          PROVE  locks'[p] = d <=> locks[p] = d
      BY <2>1, Unlocked, NoneFree
    <3>2. mine'[d] = mine[d]
      BY <2>1 DEF Unlock, PgTypeOK
    <3> QED BY <2>1, <3>1, <3>2, OutOthers
  <2> QED BY <1>3, <2>1, <2>2
<1>6. ASSUME NEW c \in Calls, Enters(c) \/ Checks(c)
      PROVE  Goal
  <2>1. UNCHANGED <<locks, mine>> /\ Others(c)
    BY <1>6 DEF Enters, Checks
  <2>2. \A p \in Paths : locks[p] # c
    BY <1>6, OutsideView DEF Enters, Checks, OutFaithful
  <2>3. Applies(c)' => calls'[c].out = <<>>
    BY <1>6 DEF Enters, Checks, Applies, At
  <2>4. OutFaithful(c)'
    BY <2>1, <2>2, <2>3, SaysNothing DEF OutFaithful
  <2> HIDE DEF Goal
  <2> QED BY <1>2, <2>1, <2>4
<1>7. ASSUME NEW c \in Calls, Continues(c)
      PROVE  Goal
  <2>1. UNCHANGED <<locks, mine>> /\ Others(c) /\ Applies(c)
        /\ calls'[c].at = calls[c].at /\ calls'[c].out = calls[c].out
    BY <1>7 DEF Continues
  <2>2. OutFaithful(c)'
    BY <2>1 DEF OutFaithful, Applies, At
  <2> HIDE DEF Goal
  <2> QED BY <1>2, <2>1, <2>2
<1>8. ASSUME NEW c \in Calls, NEW w \in Writes, WritesRow(c, w)
      PROVE  Goal
  <2> DEFINE r == Apply(View(c), w, stamps')[w.path]
             e == EventOf(w)
  <2>1. /\ Applies(c) /\ Others(c)
        /\ locks' = [locks EXCEPT ![w.path] = c]
        /\ mine' = [mine EXCEPT ![c] = [@ EXCEPT ![w.path] = r]]
        /\ calls'[c].at = calls[c].at
        /\ calls'[c].out = Append(calls[c].out, e)
    BY <1>8 DEF WritesRow
  <2>2. stamps' \in Nat /\ View(c) \in Table
    BY ViewType DEF PgTypeOK
  <2>3. w.path \in Paths /\ e \in Events
    BY EventType DEF Writes
  <2>4. locks[w.path] \in {c, None}
    BY <1>8, NotStolen DEF WritesRow
  <2>5. mine'[c][w.path] = r /\ \A p \in Paths : p # w.path => mine'[c][p] = mine[c][p]
    <3> HIDE DEF r
    <3> QED BY <2>1, <2>3 DEF PgTypeOK, Table
  <2>6. PathsOf(<<e>>) = {w.path} /\ Says(<<e>>, w.path, mine'[c])
    BY <2>2, <2>5, EventSays
  <2> HIDE DEF r, e
  <2>7. ASSUME NEW d \in Calls \ {c}
        PROVE  OutFaithful(d)'
    <3>1. ASSUME NEW p \in Paths
          PROVE  locks'[p] = d <=> locks[p] = d
      BY <2>1, <2>3, <2>4, NoneFree DEF PgTypeOK
    <3>2. mine'[d] = mine[d]
      BY <2>1 DEF PgTypeOK
    <3> QED BY <2>1, <3>1, <3>2, OutOthers
  <2>8. calls[c].out \in Seq(Events)
    BY <2>1, CallFields DEF Applies, At
  <2>9. <<e>> \in Seq(Events) /\ calls'[c].out = calls[c].out \o <<e>>
    BY <2>1, <2>3, <2>8
  <2>10. ASSUME NEW p \in Paths
         PROVE  /\ locks'[p] = c <=> p \in PathsOf(calls'[c].out)
                /\ Says(calls'[c].out, p, mine'[c])
    <3>1. locks[p] = c <=> p \in PathsOf(calls[c].out)
      BY <2>1 DEF OutFaithful
    <3>2. Says(calls[c].out, p, mine[c])
      BY <2>1 DEF OutFaithful
    <3>3. PathsOf(calls'[c].out) = PathsOf(calls[c].out) \cup {w.path}
      BY <2>6, <2>8, <2>9, ConcatPaths
    <3>4. locks'[p] = c <=> locks[p] = c \/ p = w.path
      BY <2>1, <2>3 DEF PgTypeOK
    <3>5. CASE p = w.path
      <4>1. Says(calls'[c].out, p, mine'[c])
        BY <2>6, <2>8, <2>9, <3>5, SaysRight
      <4> QED BY <3>1, <3>3, <3>4, <4>1
    <3>6. CASE p # w.path
      <4>1. p \notin PathsOf(<<e>>)
        BY <2>6, <3>6
      <4>2. Exists(mine'[c], p) <=> Exists(mine[c], p)
        BY <2>5, <3>6 DEF Exists
      <4>3. Says(calls'[c].out, p, mine'[c])
        BY <2>8, <2>9, <3>2, <4>1, <4>2, SaysLeft
      <4> QED BY <3>1, <3>3, <3>4, <3>6, <4>3
    <3> QED BY <3>5, <3>6
  <2>11. OutFaithful(c)'
    <3>1. ~At(c, "check")'
      BY <2>1 DEF Applies, At
    <3> QED BY <2>10, <3>1 DEF OutFaithful
  <2> QED BY <2>7, <2>11
<1> HIDE DEF Goal
<1> QED BY <1>1, <1>4, <1>5, <1>6, <1>7, <1>8, StepKinds

\* Everything on its way is a sequence of events.
LEMMA InFlightType ==
  ASSUME FeedTypeOK
  PROVE  /\ chan \in Seq(Events) /\ pend \in Seq(Events) /\ notes \in Seq(Events)
         /\ chan \o pend \in Seq(Events) /\ InFlight \in Seq(Events)
<1>0. pend \in Seq(Events)
  <2>1. CASE pend = <<>>
    BY <2>1
  <2>2. ASSUME NEW e \in Events, pend = <<e>>
        PROVE  pend \in Seq(Events)
    BY <2>2
  <2> QED BY <2>1, <2>2 DEF FeedTypeOK
<1>1. chan \in Seq(Events) /\ pend \in Seq(Events) /\ notes \in Seq(Events)
  BY <1>0 DEF FeedTypeOK
<1>2. chan \o pend \in Seq(Events)
  BY <1>1
<1> QED BY <1>1, <1>2 DEF InFlight

\* A commit announces what it has changed.
LEMMA AnnounceFaithful ==
  ASSUME PgTypeOK, FeedInv, NEW events \in Seq(Events), Announce(events),
         \A p \in PathsOf(events) : Says(events, p, db'),
         \A p \in Paths \ PathsOf(events) : Exists(db', p) <=> Exists(db, p)
  PROVE  FeedInv'
<1> SUFFICES ASSUME NEW p \in Paths \ missed'
             PROVE  Faithful(InFlight', p, db', seen'[p])
  BY DEF FeedInv
<1>0. FeedTypeOK
  BY DEF PgTypeOK
<1>1. seen' = seen /\ chan' = chan /\ pend' = pend
  BY DEF Announce
<1>2. CASE feed = "listening"
  <2>1. notes' = notes \o events /\ missed' = missed \ PathsOf(events)
    BY <1>2 DEF Announce
  <2>2. InFlight' = InFlight \o events
    <3>1. \A a, b, d \in Seq(Events) : a \o (b \o d) = (a \o b) \o d
      OBVIOUS
    <3>2. InFlight' = (chan \o pend) \o (notes \o events)
      BY <1>1, <2>1 DEF InFlight
    <3> QED BY <1>0, <3>1, <3>2, InFlightType DEF InFlight
  <2>3. CASE p \in missed
    <3>1. p \in PathsOf(events)
      BY <2>1, <2>3
    <3>2. Says(InFlight \o events, p, db')
      BY <1>0, <3>1, InFlightType, SaysRight
    <3>3. p \in PathsOf(InFlight \o events)
      BY <1>0, <3>1, InFlightType, ConcatPaths
    <3> QED BY <2>2, <3>2, <3>3 DEF Faithful
  <2>4. CASE p \notin missed
    <3>1. Faithful(InFlight, p, db, seen[p])
      BY <2>4 DEF FeedInv
    <3>2. Faithful(InFlight \o events, p, db', seen[p])
      BY <1>0, <3>1, InFlightType, FaithfulConcat
    <3> QED BY <1>1, <2>2, <3>2
  <2> QED BY <2>3, <2>4
<1>3. CASE feed # "listening"
  <2>1. notes' = notes /\ missed' = missed \cup PathsOf(events)
    BY <1>3 DEF Announce
  <2>2. Faithful(InFlight, p, db, seen[p])
    BY <2>1 DEF FeedInv
  <2>3. Exists(db', p) <=> Exists(db, p)
    BY <2>1
  <2>4. InFlight' = InFlight
    BY <1>1, <2>1 DEF InFlight
  <2> QED BY <1>1, <2>2, <2>3, <2>4 DEF Faithful, Says
<1> QED BY <1>2, <1>3

\* The feed neither swaps nor drops a change without counting it as missed.
LEMMA FeedFaithfulStep ==
  ASSUME FeedTypeOK, FeedInv, FeedNext, UNCHANGED db
  PROVE  FeedInv'
<1> SUFFICES ASSUME NEW p \in Paths \ missed'
             PROVE  Faithful(InFlight', p, db, seen'[p])
  BY DEF FeedInv
<1> USE InFlightType
<1>0. p \notin missed => Faithful(InFlight, p, db, seen[p])
  BY DEF FeedInv
<1>1. CASE FeedConnect \/ FeedListen
  BY <1>0, <1>1 DEF FeedConnect, FeedListen, InFlight
<1>2. CASE FeedWait
  <2>1. InFlight' = InFlight
    <3>1. /\ pend = <<>> /\ notes # <<>> /\ chan' = chan
          /\ pend' = <<Head(notes)>> /\ notes' = Tail(notes)
      BY <1>2 DEF FeedWait
    <3>2. \A s \in Seq(Events) : s # <<>> => <<Head(s)>> \o Tail(s) = s
      OBVIOUS
    <3>3. \A a, b, d \in Seq(Events) : (a \o b) \o d = a \o (b \o d)
      OBVIOUS
    <3>4. pend' \in Seq(Events) /\ notes' \in Seq(Events)
      BY <3>1
    <3>5. InFlight' = chan \o notes
      BY <3>1, <3>2, <3>3, <3>4 DEF InFlight
    <3>6. InFlight = chan \o notes
      BY <3>1 DEF InFlight
    <3> QED BY <3>5, <3>6
  <2> QED BY <1>0, <1>2, <2>1 DEF FeedWait
<1>3. CASE FeedSend
  <2>1. InFlight' = InFlight
    <3>1. chan' = chan \o pend /\ pend' = <<>> /\ notes' = notes
      BY <1>3 DEF FeedSend
    <3>2. (chan \o pend) \o <<>> = chan \o pend
      OBVIOUS
    <3> QED BY <3>1, <3>2 DEF InFlight
  <2> QED BY <1>0, <1>3, <2>1 DEF FeedSend
<1>4. CASE FeedLose
  <2>1. /\ chan' = chan /\ pend' = pend /\ notes' = <<>> /\ seen' = seen
        /\ p \notin missed /\ p \notin PathsOf(notes)
    BY <1>4 DEF FeedLose
  <2>2. InFlight' = chan \o pend
    BY <2>1 DEF InFlight
  <2>3. Faithful((chan \o pend) \o notes, p, db, seen[p])
    BY <1>0, <2>1 DEF InFlight
  <2> QED BY <2>1, <2>2, <2>3, FaithfulPrefix
<1>5. CASE FeedTake
  <2>1. /\ chan # <<>> /\ chan' = Tail(chan) /\ pend' = pend /\ notes' = notes
        /\ seen' = [seen EXCEPT ![Head(chan).path] = Head(chan).kind]
        /\ missed' = missed
    BY <1>5 DEF FeedTake
  <2>2. InFlight # <<>> /\ Head(InFlight) = Head(chan)
    BY <2>1 DEF InFlight
  <2>3. InFlight' = Tail(InFlight)
    <3>1. \A a, b \in Seq(Events) : a # <<>> => Tail(a \o b) = Tail(a) \o b
      OBVIOUS
    <3>2. chan \o pend # <<>>
      BY <2>1
    <3>3. Tail(chan \o pend) = Tail(chan) \o pend
      BY <2>1, <3>1
    <3> QED BY <2>1, <3>1, <3>2, <3>3 DEF InFlight
  <2>4. seen'[p] = IF Head(InFlight).path = p THEN Head(InFlight).kind ELSE seen[p]
    BY <2>1, <2>2 DEF FeedTypeOK
  <2> QED BY <1>0, <2>1, <2>2, <2>3, <2>4, FaithfulTail
<1>6. CASE FeedClose
  <2>1. /\ chan' = chan /\ pend' = <<>> /\ notes' = <<>> /\ seen' = seen
        /\ p \notin missed /\ p \notin PathsOf(notes) /\ p \notin PathsOf(pend)
    BY <1>6 DEF FeedClose
  <2>2. InFlight' = chan
    BY <2>1 DEF InFlight
  <2>3. Faithful((chan \o pend) \o notes, p, db, seen[p])
    BY <1>0, <2>1 DEF InFlight
  <2>4. Faithful(chan \o pend, p, db, seen[p])
    BY <2>1, <2>3, FaithfulPrefix
  <2>5. Faithful(chan, p, db, seen[p])
    BY <2>1, <2>4, FaithfulPrefix
  <2> QED BY <2>1, <2>2, <2>5
<1> QED BY <1>1, <1>2, <1>3, <1>4, <1>5, <1>6 DEF FeedNext, FeedStep

\* Whatever happens, the words on their way stay right.
LEMMA WordsStep ==
  ASSUME PgTypeOK, PgTypeOK', LocksHeld, [Next]_vars, FeedInv,
         \A c \in Calls : OutFaithful(c)
  PROVE  FeedInv'
<1>1. CASE UNCHANGED <<db, feedVars>>
  BY <1>1 DEF feedVars, FeedInv, InFlight
<1>2. CASE Rests
  <2>1. CASE FeedNext
    BY <1>2, <2>1, FeedFaithfulStep DEF Rests, PgTypeOK
  <2> QED BY <1>1, <1>2, <2>1 DEF Rests
<1>3. ASSUME NEW c \in Calls, Commits(c)
      PROVE  FeedInv'
  <2> DEFINE out == calls[c].out
  <2>1. Applies(c) /\ db' = View(c) /\ Announce(out)
    BY <1>3 DEF Commits, SqlCommit
  <2>2. out \in Seq(Events) /\ PathsOf(out) \subseteq Paths
    BY <2>1, CallFields, PathsOfType DEF Applies, At
  <2>3. ASSUME NEW p \in Paths
        PROVE  /\ locks[p] = c <=> p \in PathsOf(out)
               /\ Says(out, p, mine[c])
    BY <2>1 DEF OutFaithful
  <2>4. ASSUME NEW p \in PathsOf(out)
        PROVE  Says(out, p, db')
    <3>1. p \in Paths /\ locks[p] = c /\ Says(out, p, mine[c])
      BY <2>2, <2>3
    <3>2. db'[p] = mine[c][p]
      BY <2>1, <3>1 DEF View
    <3> QED BY <3>1, <3>2 DEF Says, Exists
  <2>5. ASSUME NEW p \in Paths \ PathsOf(out)
        PROVE  Exists(db', p) <=> Exists(db, p)
    <3>1. locks[p] # c
      BY <2>3
    <3> QED BY <2>1, <3>1 DEF View, Exists
  <2> HIDE DEF out
  <2> QED BY <2>1, <2>2, <2>4, <2>5, AnnounceFaithful
<1>4. ASSUME NEW c \in Calls, NEW w \in Writes, WritesPlainly(c, w)
      PROVE  FeedInv'
  <2> DEFINE out == <<EventOf(w)>>
  <2>1. db' = Apply(db, w, stamps') /\ Announce(out)
    BY <1>4 DEF WritesPlainly
  <2>2. db \in Table /\ stamps' \in Nat /\ out \in Seq(Events)
    BY EventType DEF PgTypeOK
  <2>3. PathsOf(out) = {w.path} /\ Says(out, w.path, db')
    BY <2>1, <2>2, EventSays
  <2>4. \A p \in Paths : p # w.path => db'[p] = db[p]
    BY <2>1, <2>2, AppliedRow
  <2>5. \A p \in Paths \ PathsOf(out) : Exists(db', p) <=> Exists(db, p)
    BY <2>3, <2>4 DEF Exists
  <2> HIDE DEF out
  <2> QED BY <2>1, <2>2, <2>3, <2>5, AnnounceFaithful
<1>5. ASSUME NEW c \in Calls,
             \/ Outside(c) \/ Enters(c) \/ Checks(c) \/ Continues(c)
             \/ Undoes(c) \/ \E w \in Writes : WritesRow(c, w)
      PROVE  UNCHANGED <<db, feedVars>>
  BY <1>5 DEF Outside, Enters, Checks, Continues, Undoes, SqlRollback, WritesRow
<1>6. CASE UNCHANGED vars
  BY <1>1, <1>6 DEF vars, storeVars
<1> QED BY <1>1, <1>2, <1>3, <1>4, <1>5, <1>6, StepKinds

\* The invariant of the notifications.
NotesInv ==
  PgTypeOK /\ LocksHeld /\ FeedInv /\ \A c \in Calls : OutFaithful(c)

(***************************************************************************)
(* The subscriber's last word on a document is right once nothing about it *)
(* is on its way, unless the latest change was lost with a connection: for *)
(* every channel capacity, and any commits, losses and reconnections.      *)
(***************************************************************************)
THEOREM FeedIsFaithful == Spec => []FeedFaithful
<1>1. Init => NotesInv
  <2> SUFFICES ASSUME Init
               PROVE  NotesInv
    OBVIOUS
  <2>1. LocksHeld /\ PgTypeOK
    BY InitType DEF Init, LocksHeld
  <2>2. ASSUME NEW c \in Calls
        PROVE  OutFaithful(c)
    <3>1. calls[c].at = "idle"
      BY DEF Init, Idle
    <3> QED BY <3>1 DEF OutFaithful, Applies, At
  <2>3. ASSUME NEW p \in Paths
        PROVE  Faithful(InFlight, p, db, seen[p])
    <3>1. InFlight = <<>>
      BY DEF Init, FeedInit, InFlight
    <3>2. seen[p] = "delete" /\ ~Exists(db, p)
      BY DEF Init, FeedInit, Exists, NoRow
    <3> QED BY <3>1, <3>2, SaysNothing DEF Faithful
  <2> QED BY <2>1, <2>2, <2>3 DEF NotesInv, FeedInv
<1>2. NotesInv /\ [Next]_vars => NotesInv'
  <2> SUFFICES ASSUME NotesInv, [Next]_vars
               PROVE  NotesInv'
    OBVIOUS
  <2>1. PgTypeOK /\ LocksHeld /\ FeedInv /\ \A c \in Calls : OutFaithful(c)
    BY DEF NotesInv
  <2>2. PgTypeOK' /\ LocksHeld'
    BY <2>1, TypeStep, LocksStep
  <2>3. \A c \in Calls : OutFaithful(c)'
    BY <2>1, <2>2, OutStep
  <2>4. FeedInv'
    BY <2>1, <2>2, WordsStep
  <2> QED BY <2>2, <2>3, <2>4 DEF NotesInv
<1>3. NotesInv => FeedFaithful
  BY DEF NotesInv, FeedInv, Faithful, FeedFaithful
<1> QED BY <1>1, <1>2, <1>3, PTL DEF Spec

-----------------------------------------------------------------------------
(***************************************************************************)
(* The mapping to AtomicStore.                                             *)
(***************************************************************************)

\* The mapping of PgRefinement, for the lemmas about AtomicStore.
Facts == INSTANCE AtomicStore_proofs WITH
  Singles  <- RpcWrites \cup {[w EXCEPT !.kind = "update"] : w \in RpcWrites},
  table    <- [p \in Paths |-> Plain(db[p])],
  begun    <- {t \in TxIds : txs[t].used},
  sets     <- [t \in TxIds |-> LiveSets(t)],
  Isolated <- FALSE

Singles == RpcWrites \cup {[w EXCEPT !.kind = "update"] : w \in RpcWrites}

Committing(c) == calls[c].at \in {"commit", "check", "applying"}

\* The paths that the SQL transaction of c has locked.
Held(c) == {p \in Paths : locks[p] = c}

\* Statement x executes write w of a request: a write with an update-time
\* precondition is an update once the precondition has been checked.
Executes(x, w) ==
  \/ x = w
  \/ w.kind = "updateIf" /\ x = [kind |-> "update", path |-> w.path]

(***************************************************************************)
(* The call has executed the first n writes of one of the lists, from the  *)
(* committed table, and has the rest to do.  It has locked the rows they   *)
(* are about, but for deletes that found none.                             *)
(***************************************************************************)
Progress(ws, n, todo, from, to, held) ==
  /\ Len(todo) = Len(ws) - n
  /\ \A i \in 1 .. Len(ws) - n : Executes(todo[i], ws[n + i])
  /\ to \in Store!Reached(from, ws)[n]
  /\ \A i \in 1 .. n : ws[i].path \in held \/ ws[i].kind = "delete"

Partway(todo, lists, from, to, held) ==
  \E ws \in lists : \E n \in 0 .. Len(ws) : Progress(ws, n, todo, from, to, held)

\* The SQL transaction of c is part of one of the lists.
Follows(c, lists) ==
  Partway(calls[c].todo, lists, PlainSet(db), PlainSet(View(c)), Held(c))

\* What a request in flight is part of.
CallMaps(c) ==
  /\ At(c, "write") => calls[c].w \in Singles
  /\ At(c, "record") => /\ txs[calls[c].tx].used
                        /\ Descends(calls[c].row, db[calls[c].path])
  /\ Committing(c) => txs[calls[c].tx].used
  /\ calls[c].at \in {"commit", "check"} => calls[c].ops \in TxOps
  /\ At(c, "check") => Held(c) = {}
  /\ At(c, "applying") => Follows(c, TxOps)
  /\ At(c, "batch") => Follows(c, Batches)

\* A transaction that has not begun has no row and has read nothing.
TxMaps(t) == ~txs[t].used => txs[t].reads = NoReads /\ ~txs[t].row

(***************************************************************************)
(* What the mapping needs beside RowsInv.                                  *)
(***************************************************************************)
MapInv ==
  /\ \A c \in Calls : CallMaps(c)
  /\ \A t \in TxIds : TxMaps(t)

\* The lemmas of AtomicStore_proofs, under the mapping.
LEMMA ReachedSame ==
  ASSUME NEW tbl, NEW ws
  PROVE  Facts!Reached(tbl, ws) = Store!Reached(tbl, ws)
BY DEF Facts!Reached, Store!Reached, Facts!Outcomes, Store!Outcomes,
       Facts!RowOutcomes, Store!RowOutcomes, Facts!Written, Facts!Deleted,
       Store!Written, Store!Deleted

LEMMA ReachedSteps ==
  ASSUME NEW tbl, NEW ws, Len(ws) \in Nat
  PROVE  /\ Store!Reached(tbl, ws)[0] = {tbl}
         /\ \A n \in 1 .. Len(ws) :
              Store!Reached(tbl, ws)[n] =
                UNION {Store!Outcomes(tbl2, ws[n]) :
                         tbl2 \in Store!Reached(tbl, ws)[n - 1]}
<1>1. \A w, t : Facts!Outcomes(t, w) = Store!Outcomes(t, w)
  BY DEF Facts!Outcomes, Store!Outcomes, Facts!RowOutcomes, Store!RowOutcomes,
         Facts!Written, Facts!Deleted, Store!Written, Store!Deleted
<1> QED BY <1>1, ReachedSame, Facts!ReachedSteps

\* A statement that is not refused is one of the outcomes promised.
LEMMA ApplyOutcome ==
  ASSUME NEW tbl \in Table, NEW w \in Writes, NEW s \in Nat, ~WriteFails(tbl, w)
  PROVE  PlainSet(Apply(tbl, w, s)) \in Store!Outcomes(PlainSet(tbl), w)
<1> DEFINE p == w.path
           r == tbl[p]
           new == IF IsDelete(w) THEN Drop(r) ELSE Put(r, s)
<1>1. p \in Paths /\ r \in Row /\ PlainSet(tbl)[p] = Plain(r)
  BY DEF Writes, Table, PlainSet
<1>2. Apply(tbl, w, s) = [tbl EXCEPT ![p] = new]
  BY DEF Apply
<1> HIDE DEF new
<1>3. PlainSet(Apply(tbl, w, s)) =
        [q \in Paths |-> IF q = p THEN Plain(new) ELSE PlainSet(tbl)[q]]
  BY <1>1, <1>2 DEF PlainSet, Table
<1>4. Plain(new) \in Store!RowOutcomes(Plain(r), w.kind)
  <2>1. w.kind \in PlainKinds \cup {"updateIf"}
    BY DEF Writes
  <2>2. CASE IsDelete(w)
    <3>1. Plain(new) = Store!Deleted(Plain(r))
      BY <1>1, <2>2 DEF new, Drop, Plain, Store!Deleted, Row
    <3>2. w.kind = "deleteExisting" => Plain(r).version > 0
      BY <1>1 DEF WriteFails, Exists, Plain
    <3> QED BY <2>2, <3>1, <3>2 DEF IsDelete, Store!RowOutcomes
  <2>3. CASE ~IsDelete(w)
    <3>1. Plain(new) = Store!Written(Plain(r))
      BY <1>1, <2>3 DEF new, Put, Plain, Store!Written, Row
    <3>2. /\ w.kind \in {"update", "updateIf"} => Plain(r).version > 0
          /\ w.kind = "insert" => Plain(r).version = 0
      BY <1>1 DEF WriteFails, Exists, Plain, Row
    <3> QED BY <2>1, <2>3, <3>1, <3>2 DEF IsDelete, PlainKinds, Store!RowOutcomes
  <2> QED BY <2>2, <2>3
<1> HIDE DEF p, r
<1> QED BY <1>1, <1>3, <1>4 DEF Store!Outcomes, p, r

\* So is a delete that finds no row, which executes no write.
LEMMA NoopOutcome ==
  ASSUME NEW tbl \in Table, NEW w \in Writes, IsDelete(w), ~Exists(tbl, w.path),
         ~WriteFails(tbl, w)
  PROVE  PlainSet(tbl) \in Store!Outcomes(PlainSet(tbl), w)
<1>1. Apply(tbl, w, 0) = tbl
  BY DEF Apply, Drop, Exists, Table, Writes, Row
<1>2. PlainSet(Apply(tbl, w, 0)) \in Store!Outcomes(PlainSet(tbl), w)
  BY ApplyOutcome
<1> QED BY <1>1, <1>2

\* The update behind a checked precondition does what the write promises.
LEMMA ExecutesOutcomes ==
  ASSUME NEW x, NEW w, Executes(x, w), NEW tbl
  PROVE  /\ Store!Outcomes(tbl, x) = Store!Outcomes(tbl, w)
         /\ x.path = w.path
         /\ x.kind = "delete" => w.kind = "delete"
<1>1. CASE x = w
  BY <1>1
<1>2. CASE w.kind = "updateIf" /\ x = [kind |-> "update", path |-> w.path]
  <2>1. x.kind = "update" /\ x.path = w.path
    BY <1>2
  <2>2. Store!RowOutcomes(tbl[w.path], "update") = Store!RowOutcomes(tbl[w.path], "updateIf")
    BY DEF Store!RowOutcomes
  <2> QED BY <1>2, <2>1, <2>2 DEF Store!Outcomes
<1> QED BY <1>1, <1>2 DEF Executes

\* What Partway says, one quantifier at a time.
LEMMA PartwayIs ==
  ASSUME NEW todo, NEW lists, NEW from, NEW to, NEW held,
         Partway(todo, lists, from, to, held), lists \subseteq Seq(Writes)
  PROVE  \E ws \in lists : \E n \in Nat :
           /\ ws \in Seq(Writes) /\ Len(ws) \in Nat /\ n <= Len(ws) /\ n \in 0 .. Len(ws)
           /\ Progress(ws, n, todo, from, to, held)
<1>1. PICK ws \in lists : \E n \in 0 .. Len(ws) :
        Progress(ws, n, todo, from, to, held)
  BY DEF Partway
<1>2. PICK n \in 0 .. Len(ws) : Progress(ws, n, todo, from, to, held)
  BY <1>1
<1>3. ws \in Seq(Writes) /\ Len(ws) \in Nat
  OBVIOUS
<1>4. n \in Nat /\ n <= Len(ws)
  BY <1>3
<1> QED BY <1>2, <1>3, <1>4

\* One more write of the list.
LEMMA PartwayStep ==
  ASSUME NEW todo \in Seq(Writes), todo # <<>>, NEW lists, lists \subseteq Seq(Writes),
         NEW from, NEW to, NEW held, Partway(todo, lists, from, to, held),
         NEW next \in Store!Outcomes(to, Head(todo)),
         NEW held2, held \subseteq held2,
         Head(todo).path \in held2 \/ Head(todo).kind = "delete"
  PROVE  Partway(Tail(todo), lists, from, next, held2)
<1>0. PICK ws \in lists : \E n \in Nat :
        /\ ws \in Seq(Writes) /\ Len(ws) \in Nat /\ n <= Len(ws) /\ n \in 0 .. Len(ws)
        /\ Progress(ws, n, todo, from, to, held)
  BY PartwayIs
<1>1. PICK n \in Nat :
        /\ ws \in Seq(Writes) /\ Len(ws) \in Nat /\ n <= Len(ws) /\ n \in 0 .. Len(ws)
        /\ Progress(ws, n, todo, from, to, held)
  BY <1>0
<1>2. Len(todo) \in Nat /\ Len(todo) > 0 /\ Head(todo) = todo[1]
  OBVIOUS
<1>3. Len(ws) \in Nat /\ Len(todo) = Len(ws) - n
  BY <1>1 DEF Progress
<1>4. /\ n + 1 \in 1 .. Len(ws) /\ n + 1 \in 0 .. Len(ws) /\ (n + 1) - 1 = n
      /\ 1 \in 1 .. Len(ws) - n
  BY <1>2, <1>3
<1>5. Executes(Head(todo), ws[n + 1])
  BY <1>1, <1>2, <1>4 DEF Progress
<1>6. Len(Tail(todo)) = Len(ws) - (n + 1)
  BY <1>2, <1>3
<1>7. ASSUME NEW i \in 1 .. Len(ws) - (n + 1)
      PROVE  Executes(Tail(todo)[i], ws[(n + 1) + i])
  <2>1. i + 1 \in 1 .. Len(ws) - n /\ n + (i + 1) = (n + 1) + i
    BY <1>3
  <2>2. Tail(todo)[i] = todo[i + 1]
    BY <1>6
  <2> QED BY <1>1, <2>1, <2>2 DEF Progress
<1>8. next \in Store!Reached(from, ws)[n + 1]
  <2>1. Store!Reached(from, ws)[n + 1] =
          UNION {Store!Outcomes(tbl2, ws[n + 1]) :
                   tbl2 \in Store!Reached(from, ws)[(n + 1) - 1]}
    BY <1>3, <1>4, ReachedSteps
  <2>2. next \in Store!Outcomes(to, ws[n + 1]) /\ to \in Store!Reached(from, ws)[n]
    BY <1>1, <1>5, ExecutesOutcomes DEF Progress
  <2> QED BY <1>4, <2>1, <2>2
<1>9. ASSUME NEW i \in 1 .. (n + 1)
      PROVE  ws[i].path \in held2 \/ ws[i].kind = "delete"
  <2>1. CASE i = n + 1
    BY <1>5, <2>1, ExecutesOutcomes
  <2>2. CASE i # n + 1
    <3>1. i \in 1 .. n
      BY <2>2
    <3> QED BY <1>1, <3>1 DEF Progress
  <2> QED BY <2>1, <2>2
<1> QED BY <1>4, <1>6, <1>7, <1>8, <1>9 DEF Partway, Progress

\* Nothing has been written at the start, and everything at the end.
LEMMA PartwayEnds ==
  ASSUME NEW lists, lists \subseteq Seq(Writes), NEW from, NEW held
  PROVE  /\ \A ws \in lists : Partway(ws, lists, from, from, held)
         /\ \A to : Partway(<<>>, lists, from, to, held) =>
              \E ws \in lists : to \in Store!AllOutcomes(from, ws)
<1>1. ASSUME NEW ws \in lists
      PROVE  Partway(ws, lists, from, from, held)
  <2>1. Len(ws) \in Nat
    OBVIOUS
  <2>2. from \in Store!Reached(from, ws)[0]
    BY <2>1, ReachedSteps
  <2>3. /\ 0 \in 0 .. Len(ws) /\ Len(ws) = Len(ws) - 0
        /\ \A i \in 1 .. Len(ws) - 0 : Executes(ws[i], ws[0 + i])
        /\ \A i \in 1 .. 0 : ws[i].path \in held \/ ws[i].kind = "delete"
    BY <2>1 DEF Executes
  <2> QED BY <2>2, <2>3 DEF Partway, Progress
<1>2. ASSUME NEW to, Partway(<<>>, lists, from, to, held)
      PROVE  \E ws \in lists : to \in Store!AllOutcomes(from, ws)
  <2>0. PICK ws \in lists : \E n \in 0 .. Len(ws) :
          Len(<<>>) = Len(ws) - n /\ to \in Store!Reached(from, ws)[n]
    BY <1>2 DEF Partway, Progress
  <2>1. PICK n \in 0 .. Len(ws) :
          Len(<<>>) = Len(ws) - n /\ to \in Store!Reached(from, ws)[n]
    BY <2>0
  <2>2. n = Len(ws)
    BY <2>1
  <2> QED BY <2>1, <2>2 DEF Store!AllOutcomes
<1> QED BY <1>1, <1>2 DEF Progress

\* A precondition has been checked: the update remains to be done.
LEMMA PartwayChecked ==
  ASSUME NEW todo \in Seq(Writes), todo # <<>>, NEW lists, lists \subseteq Seq(Writes),
         NEW from, NEW to, NEW held, Partway(todo, lists, from, to, held),
         Head(todo).kind = "updateIf",
         NEW todo2 \in Seq(Writes), Len(todo2) = Len(todo),
         todo2[1] = [kind |-> "update", path |-> Head(todo).path],
         \A i \in 2 .. Len(todo) : todo2[i] = todo[i]
  PROVE  Partway(todo2, lists, from, to, held)
<1>0. PICK ws \in lists : \E n \in Nat :
        /\ ws \in Seq(Writes) /\ Len(ws) \in Nat /\ n <= Len(ws) /\ n \in 0 .. Len(ws)
        /\ Progress(ws, n, todo, from, to, held)
  BY PartwayIs
<1>1. PICK n \in Nat :
        /\ ws \in Seq(Writes) /\ Len(ws) \in Nat /\ n <= Len(ws) /\ n \in 0 .. Len(ws)
        /\ Progress(ws, n, todo, from, to, held)
  BY <1>0
<1>2. ASSUME NEW i \in 1 .. Len(ws) - n
      PROVE  Executes(todo2[i], ws[n + i])
  <2>1. Executes(todo[i], ws[n + i])
    BY <1>1 DEF Progress
  <2>2. CASE i = 1
    <3>1. Head(todo) = todo[1]
      OBVIOUS
    <3>2. todo[1] = ws[n + 1]
      BY <2>1, <2>2, <3>1 DEF Executes
    <3> QED BY <2>2, <3>1, <3>2 DEF Executes
  <2>3. CASE i # 1
    <3>1. i \in 2 .. Len(todo)
      BY <1>1, <2>3 DEF Progress
    <3> QED BY <2>1, <3>1
  <2> QED BY <2>2, <2>3
<1> QED BY <1>1, <1>2 DEF Partway, Progress

\* What others commit at paths that are not locked does not matter.
LEMMA PartwayElsewhere ==
  ASSUME NEW todo, NEW lists, lists \subseteq Seq(Writes),
         NEW from, NEW to, NEW held, Partway(todo, lists, from, to, held),
         NEW from2, from = [p \in Paths |-> from[p]], from2 = [p \in Paths |-> from2[p]],
         \A p \in Paths : p \in held => from2[p] = from[p],
         NEW to2, to2 = [p \in Paths |-> IF p \in held THEN to[p] ELSE from2[p]]
  PROVE  Partway(todo, lists, from2, to2, held)
<1> DEFINE U == Paths \ held
<1>0. PICK ws \in lists : \E n \in Nat :
        /\ ws \in Seq(Writes) /\ Len(ws) \in Nat /\ n <= Len(ws) /\ n \in 0 .. Len(ws)
        /\ Progress(ws, n, todo, from, to, held)
  BY PartwayIs
<1>1. PICK n \in Nat :
        /\ ws \in Seq(Writes) /\ Len(ws) \in Nat /\ n <= Len(ws) /\ n \in 0 .. Len(ws)
        /\ Progress(ws, n, todo, from, to, held)
  BY <1>0
<1>2. \A i \in 1 .. Len(ws) : ws[i].path \in Paths
  <2>1. ws \in Seq(Writes)
    BY <1>1 DEF Progress
  <2>2. \A i \in 1 .. Len(ws) : ws[i] \in Writes
    BY <2>1
  <2> QED BY <2>2 DEF Writes
<1>3. \A i \in 1 .. n : ws[i].path \in U => ws[i].kind = "delete"
  BY <1>1 DEF Progress
<1>4. \A p \in Paths \ U : from2[p] = from[p]
  OBVIOUS
<1>5. to \in Facts!Reached(from, ws)[n]
  BY <1>1, ReachedSame DEF Progress
<1>6. n \in 0 .. Len(ws) /\ Len(ws) \in Nat
  BY <1>1 DEF Progress
<1>7. Facts!Mix(U, from2, to) = to2
  BY DEF Facts!Mix
<1> HIDE DEF U
<1>8. Facts!Mix(U, from2, to) \in Facts!Reached(from2, ws)[n]
  BY <1>2, <1>3, <1>4, <1>5, <1>6, Facts!ReachedElsewhere
<1>9. to2 \in Store!Reached(from2, ws)[n]
  BY <1>7, <1>8, ReachedSame
<1> QED BY <1>1, <1>9 DEF Partway, Progress

-----------------------------------------------------------------------------
(***************************************************************************)
(* MapInv is an invariant.                                                 *)
(***************************************************************************)

\* The write lists of requests are lists of writes.
LEMMA Lists == Batches \subseteq Seq(Writes) /\ TxOps \subseteq Seq(Writes)
BY PgAssumption

\* Row locks: whatever call c does, another SQL transaction keeps its locks
\* and its rows, and the committed rows behind them stay.
Undisturbed(d) ==
  /\ calls'[d] = calls[d]
  /\ Held(d)' = Held(d)
  /\ mine'[d] = mine[d]
  /\ \A p \in Held(d) : db'[p] = db[p]

LEMMA Bystander ==
  ASSUME PgTypeOK, PgTypeOK', LocksHeld, NEW c \in Calls, Moves(c),
         NEW d \in Calls \ {c}
  PROVE  Undisturbed(d)
<1>0. ASSUME calls'[d] = calls[d], mine'[d] = mine[d],
             \A p \in Paths : locks'[p] = d <=> locks[p] = d,
             \A p \in Paths : locks[p] = d => db'[p] = db[p]
      PROVE  Undisturbed(d)
  BY <1>0 DEF Undisturbed, Held
<1>1. CASE Outside(c) \/ Enters(c) \/ Checks(c) \/ Continues(c)
  BY <1>0, <1>1 DEF Outside, Enters, Checks, Continues, Others
<1>2. CASE Undoes(c) \/ Commits(c)
  <2>1. Unlock(c) /\ Others(c) /\ (db' = db \/ db' = View(c))
    BY <1>2 DEF Undoes, Commits, SqlRollback, SqlCommit
  <2>2. ASSUME NEW p \in Paths
        PROVE  locks'[p] = d <=> locks[p] = d
    BY <2>1, Unlocked, NoneFree
  <2>3. mine'[d] = mine[d]
    BY <2>1 DEF Unlock, PgTypeOK
  <2>4. \A p \in Paths : locks[p] = d => db'[p] = db[p]
    BY <2>1 DEF View
  <2> QED BY <1>0, <2>1, <2>2, <2>3, <2>4 DEF Others
<1>3. ASSUME NEW w \in Writes, WritesRow(c, w)
      PROVE  Undisturbed(d)
  <2> DEFINE r == Apply(View(c), w, stamps')[w.path]
  <2>1. /\ Others(c) /\ UNCHANGED db
        /\ locks' = [locks EXCEPT ![w.path] = c]
        /\ mine' = [mine EXCEPT ![c] = [@ EXCEPT ![w.path] = r]]
    BY <1>3 DEF WritesRow
  <2>2. locks[w.path] \in {c, None} /\ w.path \in Paths
    BY <1>3, NotStolen DEF WritesRow, Writes
  <2> HIDE DEF r
  <2>3. ASSUME NEW p \in Paths
        PROVE  locks'[p] = d <=> locks[p] = d
    BY <2>1, <2>2, NoneFree DEF PgTypeOK
  <2>4. mine'[d] = mine[d]
    BY <2>1 DEF PgTypeOK
  <2> QED BY <1>0, <2>1, <2>3, <2>4 DEF Others
<1>4. ASSUME NEW w \in Writes, WritesPlainly(c, w)
      PROVE  Undisturbed(d)
  <2>1. Others(c) /\ UNCHANGED <<locks, mine>> /\ db' = Apply(db, w, stamps')
    BY <1>4 DEF WritesPlainly
  <2>2. View(c) = db /\ \A p \in Paths : locks[p] # c
    BY <1>4, OutsideView DEF WritesPlainly
  <2>3. locks[w.path] \in {c, None} /\ w.path \in Paths
    BY <1>4, <2>2, NotStolen DEF WritesPlainly, Writes
  <2>4. \A p \in Paths : locks[p] = d => db'[p] = db[p]
    BY <2>1, <2>3, NoneFree DEF Apply, PgTypeOK, Table
  <2> QED BY <1>0, <2>1, <2>4 DEF Others
<1> QED BY <1>1, <1>2, <1>3, <1>4 DEF Moves

\* So it stays part of its request.
LEMMA FollowsKept ==
  ASSUME PgTypeOK, NEW d \in Calls, NEW lists, lists \subseteq Seq(Writes),
         Follows(d, lists), Undisturbed(d)
  PROVE  Follows(d, lists)'
<1> DEFINE from == PlainSet(db)
           from2 == PlainSet(db')
           to == PlainSet(View(d))
           held == Held(d)
           to2 == [p \in Paths |-> IF p \in held THEN to[p] ELSE from2[p]]
<1>1. /\ from = [p \in Paths |-> from[p]] /\ from2 = [p \in Paths |-> from2[p]]
      /\ \A p \in Paths : p \in held => from2[p] = from[p]
  BY DEF PlainSet, Undisturbed
<1>2. Partway(calls[d].todo, lists, from, to, held)
  BY DEF Follows
<1>3. PlainSet(db)' = from2
  BY DEF PlainSet, Plain
<1>4. PlainSet(View(d))' = to2
  <2>1. ASSUME NEW p \in Paths
        PROVE  PlainSet(View(d))'[p] = to2[p]
    <3>1. PlainSet(View(d))'[p] = Plain(IF locks'[p] = d THEN mine'[d][p] ELSE db'[p])
      BY DEF PlainSet, View, Plain
    <3>2. locks'[p] = d <=> p \in held
      BY DEF Undisturbed, Held
    <3>3. p \in held => to[p] = Plain(mine[d][p])
      BY DEF PlainSet, View, Held
    <3>4. from2[p] = Plain(db'[p])
      BY DEF PlainSet
    <3>5. mine'[d] = mine[d]
      BY DEF Undisturbed
    <3> HIDE DEF from2, to, held
    <3> QED BY <3>1, <3>2, <3>3, <3>4, <3>5
  <2>2. PlainSet(View(d))' = [p \in Paths |-> PlainSet(View(d))'[p]]
    BY DEF PlainSet
  <2> HIDE DEF from2, to, held
  <2> QED BY <2>1, <2>2
<1> HIDE DEF from, from2, to, held
<1>5. Partway(calls[d].todo, lists, from2, to2, held)
  <2>1. to2 = [p \in Paths |-> IF p \in held THEN to[p] ELSE from2[p]]
    OBVIOUS
  <2> HIDE DEF to2
  <2> QED BY <1>1, <1>2, <2>1, PartwayElsewhere
<1>6. calls'[d].todo = calls[d].todo /\ Held(d)' = held
  BY DEF Undisturbed, held
<1> QED BY <1>3, <1>4, <1>5, <1>6 DEF Follows

\* A transaction that has begun stays so.
Remains == \A t \in TxIds : txs[t].used => txs'[t].used

\* A call that is undisturbed stays part of its request.
LEMMA MapsKept ==
  ASSUME PgTypeOK, PgTypeOK', Grows, Remains, NEW d \in Calls, CallMaps(d),
         Undisturbed(d)
  PROVE  CallMaps(d)'
<1>1. calls'[d] = calls[d]
  BY DEF Undisturbed
<1>2. At(d, "write")' => calls'[d].w \in Singles
  BY <1>1 DEF CallMaps, At
<1>3. ASSUME At(d, "record")'
      PROVE  txs'[calls'[d].tx].used /\ Descends(calls'[d].row, db'[calls'[d].path])
  <2>1. /\ At(d, "record") /\ calls[d].tx \in TxIds /\ calls[d].path \in Paths
        /\ calls[d].row \in Row
    BY <1>1, <1>3, CallFields DEF At
  <2>2. db[calls[d].path] \in Row /\ db'[calls[d].path] \in Row
    BY <2>1 DEF PgTypeOK, Table
  <2>3. Descends(calls[d].row, db[calls[d].path]) /\ txs[calls[d].tx].used
    BY <2>1 DEF CallMaps
  <2>4. Descends(db[calls[d].path], db'[calls[d].path])
    BY <2>1 DEF Grows
  <2>5. Descends(calls[d].row, db'[calls[d].path])
    BY <2>1, <2>2, <2>3, <2>4, DescendsTrans
  <2> QED BY <1>1, <2>1, <2>3, <2>5 DEF Remains
<1>4. ASSUME Committing(d)'
      PROVE  txs'[calls'[d].tx].used
  <2>1. Committing(d) /\ calls[d].tx \in TxIds
    BY <1>1, <1>4, CallFields DEF Committing, At
  <2> QED BY <1>1, <2>1 DEF CallMaps, Remains
<1>5. calls'[d].at \in {"commit", "check"} => calls'[d].ops \in TxOps
  BY <1>1 DEF CallMaps
<1>6. At(d, "check")' => Held(d)' = {}
  BY <1>1 DEF CallMaps, At, Undisturbed
<1>7. At(d, "applying")' => Follows(d, TxOps)'
  BY <1>1, FollowsKept, Lists DEF CallMaps, At
<1>8. At(d, "batch")' => Follows(d, Batches)'
  BY <1>1, FollowsKept, Lists DEF CallMaps, At
<1> QED BY <1>2, <1>3, <1>4, <1>5, <1>6, <1>7, <1>8 DEF CallMaps

\* A SQL transaction that has locked nothing sees the committed table.
LEMMA FollowsBegins ==
  ASSUME PgTypeOK, NEW c \in Calls, NEW lists, lists \subseteq Seq(Writes),
         UNCHANGED <<db, locks, mine>>, \A p \in Paths : locks[p] # c,
         calls'[c].todo \in lists
  PROVE  Follows(c, lists)'
<1>1. View(c)' = db
  BY DEF View, PgTypeOK, Table
<1>2. PlainSet(View(c))' = PlainSet(db) /\ PlainSet(db)' = PlainSet(db)
  BY <1>1 DEF PlainSet, Plain
<1>3. Partway(calls'[c].todo, lists, PlainSet(db), PlainSet(db), Held(c)')
  BY PartwayEnds
<1> QED BY <1>2, <1>3 DEF Follows

\* The next statement of a SQL transaction.
LEMMA FollowsWrite ==
  ASSUME PgTypeOK, PgTypeOK', NEW c \in Calls, NEW lists, lists \subseteq Seq(Writes),
         Follows(c, lists), calls[c].todo \in Seq(Writes), calls[c].todo # <<>>,
         NEW next, SqlWrite(c, Head(calls[c].todo), next),
         calls'[c].todo = Tail(calls[c].todo)
  PROVE  Follows(c, lists)'
<1> DEFINE w == Head(calls[c].todo)
<1>1. w \in Writes /\ w.path \in Paths /\ View(c) \in Table /\ stamps' \in Nat
  BY ViewType DEF Writes, PgTypeOK
<1>2. ~WriteFails(View(c), w) /\ UNCHANGED db
  BY DEF SqlWrite
<1>3. PlainSet(db)' = PlainSet(db)
  BY <1>2 DEF PlainSet, Plain
<1>4. Partway(calls[c].todo, lists, PlainSet(db), PlainSet(View(c)), Held(c))
  BY DEF Follows
<1>5. /\ PlainSet(View(c))' \in Store!Outcomes(PlainSet(View(c)), w)
      /\ Held(c) \subseteq Held(c)'
      /\ w.path \in Held(c)' \/ w.kind = "delete"
  <2>1. CASE Changes(c, w)
    <3> DEFINE r == Apply(View(c), w, stamps')[w.path]
    <3>1. /\ locks' = [locks EXCEPT ![w.path] = c]
          /\ mine' = [mine EXCEPT ![c] = [@ EXCEPT ![w.path] = r]]
      BY <2>1 DEF SqlWrite
    <3>2. Apply(View(c), w, stamps') \in Table
          /\ \A p \in Paths : p # w.path => Apply(View(c), w, stamps')[p] = View(c)[p]
      BY <1>1, ApplyDescends, AppliedRow
    <3> HIDE DEF r
    <3>3. ASSUME NEW p \in Paths
          PROVE  View(c)'[p] = IF p = w.path THEN r ELSE View(c)[p]
      <4>1. View(c)'[p] = IF locks'[p] = c THEN mine'[c][p] ELSE db'[p]
        BY DEF View
      <4>2. View(c)[p] = IF locks[p] = c THEN mine[c][p] ELSE db[p]
        BY DEF View
      <4>3. mine[c] \in Table
        BY DEF PgTypeOK
      <4>4. CASE p = w.path
        BY <1>1, <3>1, <4>1, <4>3, <4>4 DEF PgTypeOK, Table
      <4>5. CASE p # w.path
        <5>1. locks'[p] = locks[p] /\ mine'[c][p] = mine[c][p]
          BY <1>1, <3>1, <4>3, <4>5 DEF PgTypeOK, Table
        <5> QED BY <1>2, <4>1, <4>2, <4>5, <5>1
      <4> QED BY <4>4, <4>5
    <3>4. \A p \in Paths : View(c)'[p] = Apply(View(c), w, stamps')[p]
      BY <3>2, <3>3 DEF r
    <3>5. PlainSet(View(c))' = PlainSet(Apply(View(c), w, stamps'))
      <4>1. PlainSet(View(c))' = [p \in Paths |-> Plain(View(c)'[p])]
        BY DEF PlainSet, Plain
      <4>2. PlainSet(Apply(View(c), w, stamps')) =
              [p \in Paths |-> Plain(Apply(View(c), w, stamps')[p])]
        BY DEF PlainSet
      <4> QED BY <3>4, <4>1, <4>2
    <3>6. Held(c) \subseteq Held(c)' /\ w.path \in Held(c)'
      BY <1>1, <3>1 DEF Held, PgTypeOK
    <3> HIDE DEF w
    <3> QED BY <1>1, <1>2, <3>5, <3>6, ApplyOutcome
  <2>2. CASE ~Changes(c, w)
    <3>1. UNCHANGED <<locks, mine>> /\ IsDelete(w) /\ ~Exists(View(c), w.path)
      BY <2>2 DEF SqlWrite, Changes
    <3>2. w.kind = "delete"
      BY <1>2, <3>1 DEF IsDelete, WriteFails
    <3>3. PlainSet(View(c))' = PlainSet(View(c)) /\ Held(c)' = Held(c)
      BY <1>2, <3>1 DEF PlainSet, Plain, View, Held
    <3> HIDE DEF w
    <3> QED BY <1>1, <1>2, <3>1, <3>2, <3>3, NoopOutcome
  <2> QED BY <2>1, <2>2
<1>6. Partway(Tail(calls[c].todo), lists, PlainSet(db), PlainSet(View(c))', Held(c)')
  BY <1>4, <1>5, PartwayStep
<1> QED BY <1>3, <1>6 DEF Follows

\* Where a statement leaves its call.
LEMMA SqlWriteGoes ==
  ASSUME PgTypeOK, NEW c \in Calls, NEW w \in Writes,
         NEW next \in ApplyingState \cup BatchState, SqlWrite(c, w, next)
  PROVE  /\ calls'[c].at = next.at /\ calls'[c].todo = next.todo
         /\ next \in ApplyingState => /\ calls'[c].tx = next.tx
                                      /\ calls'[c].reads = next.reads
<1> DEFINE noted == [next EXCEPT !.out = Append(@, EventOf(w))]
<1>1. /\ noted.at = next.at /\ noted.todo = next.todo
      /\ next \in ApplyingState => noted.tx = next.tx /\ noted.reads = next.reads
  BY DEF ApplyingState, BatchState
<1> HIDE DEF noted
<1>2. Goto(c, noted) \/ Goto(c, next)
  BY DEF SqlWrite, noted
<1> QED BY <1>1, <1>2, GotoOthers

\* The transactions table: what has begun stays so, and nothing else is read.
LEMMA TxMapsStep ==
  ASSUME PgTypeOK, MapInv, [Next]_vars, NEW t \in TxIds
  PROVE  TxMaps(t)' /\ (txs[t].used => txs'[t].used)
<1> DEFINE Goal == TxMaps(t)' /\ (txs[t].used => txs'[t].used)
<1>0. txs[t] \in TxRow /\ TxMaps(t)
  BY DEF MapInv, PgTypeOK
<1>1. ASSUME txs'[t].used = txs[t].used, txs'[t].reads = txs[t].reads,
             txs'[t].row => txs[t].row
      PROVE  Goal
  BY <1>0, <1>1 DEF TxMaps
<1>2. ASSUME txs'[t].used
      PROVE  Goal
  BY <1>2 DEF TxMaps
<1>3. ASSUME txs' = txs
      PROVE  Goal
  BY <1>3, <1>1
<1> SUFFICES Goal
  OBVIOUS
<1> HIDE DEF Goal
<1>4. ASSUME NEW c \in Calls, TxRecord(c)
      PROVE  Goal
  <2>1. calls[c].tx \in TxIds /\ txs[calls[c].tx].used
    BY <1>4, CallFields DEF TxRecord, MapInv, CallMaps
  <2>2. CASE t = calls[c].tx
    <3>1. txs'[t].used
      BY <1>0, <1>4, <2>1, <2>2 DEF TxRecord, PgTypeOK, TxRow
    <3> QED BY <1>2, <3>1
  <2>3. CASE t # calls[c].tx
    <3>1. txs'[t] = txs[t]
      BY <1>4, <2>1, <2>3 DEF TxRecord, PgTypeOK
    <3> QED BY <1>1, <3>1
  <2> QED BY <2>2, <2>3
<1>5. ASSUME NEW u \in TxIds, TxStep(u)
      PROVE  Goal
  <2>0. txs[u] \in TxRow
    BY DEF PgTypeOK
  <2>1. \A b \in BOOLEAN :
          /\ [txs[u] EXCEPT !.used = b, !.row = b].used = b
          /\ [txs[u] EXCEPT !.row = b].used = txs[u].used
          /\ [txs[u] EXCEPT !.row = b].reads = txs[u].reads
          /\ [txs[u] EXCEPT !.row = b].row = b
          /\ [txs[u] EXCEPT !.expired = b].used = txs[u].used
          /\ [txs[u] EXCEPT !.expired = b].reads = txs[u].reads
          /\ [txs[u] EXCEPT !.expired = b].row = txs[u].row
    BY <2>0 DEF TxRow
  <2>2. CASE t # u
    <3>1. txs'[t] = txs[t]
      BY <1>5, <2>2 DEF TxStep, BeginTransaction, RollbackTransaction, Expire, PgTypeOK
    <3> QED BY <1>1, <3>1
  <2>3. CASE t = u /\ BeginTransaction(u)
    <3>1. txs'[t].used
      BY <2>1, <2>3 DEF BeginTransaction, PgTypeOK
    <3> QED BY <1>2, <3>1
  <2>4. CASE t = u /\ (RollbackTransaction(u) \/ Expire(u))
    BY <1>1, <2>1, <2>4 DEF RollbackTransaction, Expire, PgTypeOK
  <2> QED BY <1>5, <2>2, <2>3, <2>4 DEF TxStep
<1>6. CASE SweepExpiredTransactions
  BY <1>0, <1>1, <1>6 DEF SweepExpiredTransactions, PgTypeOK, TxRow
<1>7. ASSUME NEW c \in Calls, CommitFinish(c)
      PROVE  Goal
  BY <1>0, <1>1, <1>7 DEF CommitFinish, PgTypeOK, TxRow
<1>8. ASSUME NEW c \in Calls, NEW w, NEW next, SqlWrite(c, w, next)
      PROVE  txs' = txs
  BY <1>8 DEF SqlWrite
<1>9. ASSUME NEW c \in Calls, CallStep(c), ~TxRecord(c), ~CommitFinish(c)
      PROVE  txs' = txs
  BY <1>8, <1>9 DEF CallStep, PlainWrite, BatchCheck, BatchWrite, BatchFail,
                    BatchCommit, CommitBegin, CommitCheck, CommitChecked, CommitWrite
<1>10. ASSUME NEW c \in Calls, ClientStep(c) \/ DeadlockAbort(c)
       PROVE  txs' = txs
  BY <1>10 DEF ClientStep, RpcWrite, RpcMaskedWrite, BatchBegin, TxRead, CommitLoad,
               CancelCall, DeadlockAbort
<1>11. CASE UNCHANGED vars \/ UNCHANGED storeVars
  BY <1>3, <1>11 DEF storeVars, vars
<1>12. ASSUME NEW c \in Calls, CallStep(c) \/ ClientStep(c) \/ DeadlockAbort(c)
       PROVE  Goal
  BY <1>3, <1>4, <1>7, <1>9, <1>10, <1>12
<1> QED BY <1>5, <1>6, <1>11, <1>12 DEF Next

\* A call that goes idle is part of nothing.
LEMMA MapsIdle ==
  ASSUME NEW c \in Calls, calls'[c] = Idle
  PROVE  CallMaps(c)'
BY DEF CallMaps, Committing, At, Idle

\* The call that moves is part of a request, too.
LEMMA MapsMover ==
  ASSUME PgTypeOK, PgTypeOK', LocksHeld, MapInv, Remains, NEW c \in Calls,
         CallStep(c) \/ ClientStep(c) \/ DeadlockAbort(c)
  PROVE  CallMaps(c)'
<1>0. CallMaps(c) /\ \A d \in Calls : calls[d] \in CallState
  BY DEF MapInv, PgTypeOK
<1>1. ASSUME Goto(c, Idle)
      PROVE  CallMaps(c)'
  BY <1>1, GotoOthers, MapsIdle
<1>2. CASE PlainWrite(c) \/ TxRecord(c)
  BY <1>1, <1>2 DEF PlainWrite, TxRecord
<1>3. CASE \/ BatchFail(c) \/ BatchCommit(c) \/ CommitFinish(c) \/ CancelCall(c)
           \/ DeadlockAbort(c)
  BY <1>1, <1>3 DEF BatchFail, BatchCommit, CommitFinish, CancelCall, DeadlockAbort
<1>4. CASE BatchCheck(c)
  <2> DEFINE w == Head(calls[c].todo)
             u == [kind |-> "update", path |-> w.path]
             ws == <<u>> \o Tail(calls[c].todo)
  <2>1. /\ calls[c].todo \in Seq(Writes) /\ calls[c] \in BatchState
        /\ calls[c].todo # <<>> /\ w.kind = "updateIf"
    BY <1>4, CallFields, CallShape DEF BatchCheck
  <2>2. w \in Writes /\ Tail(calls[c].todo) \in Seq(Writes)
    BY <2>1
  <2>3. u \in Writes
    BY <2>2 DEF Writes, PlainKinds
  <2>4. ws \in Seq(Writes) /\ Len(ws) = Len(calls[c].todo) /\ ws[1] = u
        /\ \A i \in 2 .. Len(calls[c].todo) : ws[i] = calls[c].todo[i]
    <3> HIDE DEF u
    <3> QED BY <2>1, <2>2, <2>3
  <2>5. Goto(c, [calls[c] EXCEPT !.todo = ws])
    BY <1>4 DEF BatchCheck
  <2>6. Follows(c, Batches) /\ UNCHANGED <<db, locks, mine>>
    BY <1>0, <1>4 DEF BatchCheck, CallMaps
  <2> HIDE DEF ws
  <2>7. calls'[c].at = "batch" /\ calls'[c].todo = ws
    BY <2>1, <2>4, <2>5, GotoOthers, Advanced DEF BatchState
  <2>8. Partway(ws, Batches, PlainSet(db), PlainSet(View(c)), Held(c))
    BY <2>1, <2>4, <2>6, PartwayChecked, Lists DEF Follows
  <2>9. /\ PlainSet(db)' = PlainSet(db) /\ PlainSet(View(c))' = PlainSet(View(c))
        /\ Held(c)' = Held(c)
    BY <2>6 DEF PlainSet, Plain, View, Held
  <2>10. Follows(c, Batches)'
    BY <2>7, <2>8, <2>9 DEF Follows
  <2> QED BY <2>7, <2>10 DEF CallMaps, Committing, At
<1>5. CASE BatchWrite(c)
  <2> DEFINE next == [calls[c] EXCEPT !.todo = Tail(@)]
  <2>1. /\ calls[c].todo \in Seq(Writes) /\ calls[c] \in BatchState
        /\ calls[c].todo # <<>> /\ SqlWrite(c, Head(calls[c].todo), next)
    BY <1>5, CallFields, CallShape DEF BatchWrite
  <2>2. Tail(calls[c].todo) \in Seq(Writes) /\ Head(calls[c].todo) \in Writes
    BY <2>1
  <2>3. next.at = "batch" /\ next.todo = Tail(calls[c].todo) /\ next \in BatchState
    BY <2>1, <2>2, Advanced DEF BatchState
  <2> HIDE DEF next
  <2>4. calls'[c].at = "batch" /\ calls'[c].todo = Tail(calls[c].todo)
    BY <2>1, <2>2, <2>3, SqlWriteGoes
  <2>5. Follows(c, Batches)
    BY <1>0, <1>5 DEF BatchWrite, CallMaps
  <2>6. Follows(c, Batches)'
    BY <2>1, <2>4, <2>5, FollowsWrite, Lists
  <2> QED BY <2>4, <2>6 DEF CallMaps, Committing, At
<1>6. CASE CommitBegin(c)
  <2>1. calls'[c] = [at |-> "check", tx |-> calls[c].tx, reads |-> calls[c].reads,
                     ops |-> calls[c].ops, base |-> db,
                     left |-> {p \in Paths : Recorded(calls[c].reads, p)}]
    BY <1>6, GotoOthers DEF CommitBegin
  <2>2. calls[c].tx \in TxIds /\ Committing(c) /\ calls[c].ops \in TxOps
        /\ txs[calls[c].tx].used
    BY <1>0, <1>6, CallFields DEF CommitBegin, CallMaps, At, Committing
  <2>3. Held(c)' = {}
    BY <1>6, OutsideView DEF CommitBegin, InSqlTx, At, Held
  <2> QED BY <2>1, <2>2, <2>3 DEF CallMaps, Committing, At, Remains
<1>7. CASE CommitCheck(c)
  <2>1. calls[c] \in CheckState /\ calls[c].left \in SUBSET Paths /\ calls[c].tx \in TxIds
    BY <1>7, CallShape, CallFields DEF CommitCheck
  <2>2. txs[calls[c].tx].used /\ calls[c].ops \in TxOps /\ Held(c) = {}
    BY <1>0, <1>7 DEF CommitCheck, CallMaps, Committing, At
  <2>3. ASSUME NEW p \in calls[c].left, Goto(c, [calls[c] EXCEPT !.left = @ \ {p}]),
               UNCHANGED <<db, locks, mine, feedVars>>
        PROVE  CallMaps(c)'
    <3>1. calls[c].left \ {p} \in SUBSET Paths
      BY <2>1
    <3>2. /\ calls'[c].at = "check" /\ calls'[c].tx = calls[c].tx
          /\ calls'[c].ops = calls[c].ops
      BY <2>1, <2>3, <3>1, GotoOthers DEF CheckState
    <3>3. Held(c)' = {}
      BY <2>2, <2>3 DEF Held
    <3> QED BY <2>1, <2>2, <3>2, <3>3 DEF CallMaps, Committing, At, Remains
  <2> QED BY <1>1, <1>7, <2>3 DEF CommitCheck
<1>8. CASE CommitChecked(c)
  <2>1. /\ calls'[c].at = "applying" /\ calls'[c].tx = calls[c].tx
        /\ calls'[c].todo = calls[c].ops
    BY <1>8, GotoOthers DEF CommitChecked
  <2>2. /\ txs[calls[c].tx].used /\ calls[c].ops \in TxOps /\ calls[c].tx \in TxIds
    BY <1>0, <1>8, CallFields DEF CommitChecked, CallMaps, Committing, At
  <2>3. UNCHANGED <<db, locks, mine>> /\ \A p \in Paths : locks[p] # c
    BY <1>0, <1>8 DEF CommitChecked, CallMaps, Held
  <2>4. Follows(c, TxOps)'
    BY <2>1, <2>2, <2>3, FollowsBegins, Lists
  <2> QED BY <2>1, <2>2, <2>4 DEF CallMaps, Committing, At, Remains
<1>9. CASE CommitWrite(c)
  <2> DEFINE next == [calls[c] EXCEPT !.todo = Tail(@)]
  <2>1. /\ calls[c].todo \in Seq(Writes) /\ calls[c] \in ApplyingState
        /\ calls[c].todo # <<>> /\ SqlWrite(c, Head(calls[c].todo), next)
    BY <1>9, CallFields, CallShape DEF CommitWrite
  <2>2. Tail(calls[c].todo) \in Seq(Writes) /\ Head(calls[c].todo) \in Writes
    BY <2>1
  <2>3. /\ next.at = "applying" /\ next.todo = Tail(calls[c].todo)
        /\ next.tx = calls[c].tx /\ next \in ApplyingState
    BY <2>1, <2>2 DEF ApplyingState
  <2> HIDE DEF next
  <2>4. /\ calls'[c].at = "applying" /\ calls'[c].todo = Tail(calls[c].todo)
        /\ calls'[c].tx = calls[c].tx
    BY <2>1, <2>2, <2>3, SqlWriteGoes
  <2>5. Follows(c, TxOps) /\ txs[calls[c].tx].used /\ calls[c].tx \in TxIds
    BY <1>0, <1>9, CallFields DEF CommitWrite, CallMaps, At, Committing
  <2>6. Follows(c, TxOps)'
    BY <2>1, <2>4, <2>5, FollowsWrite, Lists
  <2> QED BY <2>4, <2>5, <2>6 DEF CallMaps, Committing, At, Remains
<1>10. ASSUME NEW w \in RpcWrites, RpcWrite(c, w) \/ RpcMaskedWrite(c, w)
       PROVE  CallMaps(c)'
  <2>1. PICK w2 \in Singles : Goto(c, [at |-> "write", w |-> w2])
    BY <1>10 DEF RpcWrite, RpcMaskedWrite, Singles
  <2>2. calls'[c] = [at |-> "write", w |-> w2]
    BY <2>1, GotoOthers
  <2> QED BY <2>2 DEF CallMaps, Committing, At
<1>11. ASSUME NEW ws \in Batches, BatchBegin(c, ws)
       PROVE  CallMaps(c)'
  <2>1. calls'[c].at = "batch" /\ calls'[c].todo = ws /\ UNCHANGED <<db, locks, mine>>
    BY <1>11, GotoOthers DEF BatchBegin
  <2>2. \A p \in Paths : locks[p] # c
    BY <1>11, OutsideView DEF BatchBegin, InSqlTx, At
  <2>3. Follows(c, Batches)'
    BY <2>1, <2>2, FollowsBegins, Lists
  <2> QED BY <2>1, <2>3 DEF CallMaps, Committing, At
<1>12. ASSUME NEW t \in TxIds, NEW p \in Paths, TxRead(c, t, p)
       PROVE  CallMaps(c)'
  <2>1. calls'[c] = [at |-> "record", tx |-> t, path |-> p, row |-> db[p]]
    BY <1>12, GotoOthers DEF TxRead
  <2>2. db[p] \in Row /\ db' = db /\ txs[t].used
    BY <1>12 DEF TxRead, PgTypeOK, Table
  <2>3. Descends(db[p], db[p])
    BY <2>2, DescendsRefl
  <2> QED BY <2>1, <2>2, <2>3 DEF CallMaps, Committing, At, Remains
<1>13. ASSUME NEW t \in TxIds, NEW ops \in TxOps, CommitLoad(c, t, ops)
       PROVE  CallMaps(c)'
  <2>1. calls'[c] = [at |-> "commit", tx |-> t, reads |-> txs[t].reads, ops |-> ops]
    BY <1>13, GotoOthers DEF CommitLoad
  <2>2. txs[t].used
    BY <1>13 DEF CommitLoad, MapInv, TxMaps
  <2> QED BY <2>1, <2>2 DEF CallMaps, Committing, At, Remains
<1> QED
  BY <1>2, <1>3, <1>4, <1>5, <1>6, <1>7, <1>8, <1>9, <1>10, <1>11, <1>12, <1>13
  DEF CallStep, ClientStep

LEMMA MapStep ==
  ASSUME RowsInv, MapInv, [Next]_vars
  PROVE  MapInv'
<1>1. /\ PgTypeOK /\ LocksHeld /\ MineDescends /\ PgTypeOK'
  BY TypeStep DEF RowsInv
<1>2. Grows
  BY <1>1, RowsStep
<1>3. \A t \in TxIds : TxMaps(t)' /\ (txs[t].used => txs'[t].used)
  BY <1>1, TxMapsStep
<1>4. Remains
  BY <1>3 DEF Remains
<1>5. ASSUME NEW c \in Calls, CallStep(c) \/ ClientStep(c) \/ DeadlockAbort(c),
             NEW d \in Calls
      PROVE  CallMaps(d)'
  <2>1. CASE d = c
    BY <1>1, <1>4, <1>5, <2>1, MapsMover
  <2>2. CASE d # c
    <3>1. Undisturbed(d)
      BY <1>1, <1>5, <2>2, CallKinds, Bystander
    <3> QED BY <1>1, <1>2, <1>4, <3>1, MapsKept DEF MapInv
  <2> QED BY <2>1, <2>2
<1>6. ASSUME UNCHANGED <<db, locks, mine, calls>>, NEW d \in Calls
      PROVE  CallMaps(d)'
  <2>1. Undisturbed(d)
    BY <1>6 DEF Undisturbed, Held
  <2> QED BY <1>1, <1>2, <1>4, <2>1, MapsKept DEF MapInv
<1>7. \A d \in Calls : CallMaps(d)'
  BY <1>5, <1>6 DEF Next, TxStep, BeginTransaction, RollbackTransaction, Expire,
                    SweepExpiredTransactions, storeVars, vars
<1> QED BY <1>3, <1>7 DEF MapInv

-----------------------------------------------------------------------------
(***************************************************************************)
(* Every step is a step of AtomicStore, or a stutter.                      *)
(***************************************************************************)

\* The read sets before and after a step.
LEMMA LiveSetsAre ==
  ASSUME NEW t \in TxIds
  PROVE  /\ \A x : x \in LiveSets(t) <=>
              \/ txs[t].row /\ x = PlainSet(txs[t].reads)
              \/ \E c \in Calls : /\ Committing(c) /\ calls[c].tx = t
                                  /\ x = PlainSet(calls[c].reads)
         /\ \A x : x \in LiveSets(t)' <=>
              \/ txs'[t].row /\ x = PlainSet(txs'[t].reads)
              \/ \E c \in Calls : /\ Committing(c)' /\ calls'[c].tx = t
                                  /\ x = PlainSet(calls'[c].reads)
<1>1. \A reads : PlainSet(reads) = [p \in Paths |-> Plain(reads[p])]
  BY DEF PlainSet
<1> QED BY <1>1 DEF LiveSets, Committing, PlainSet, Plain

\* The transactions table has no new read set.
NoNewRow(t) ==
  /\ txs'[t].row => txs[t].row
  /\ txs'[t].reads = txs[t].reads

\* No read set appears if calls only leave CommitTransaction.
LEMMA SetsShrink ==
  ASSUME NEW t \in TxIds, NoNewRow(t),
         \A c \in Calls : Committing(c)' => calls'[c] = calls[c]
  PROVE  LiveSets(t)' \subseteq LiveSets(t)
BY LiveSetsAre DEF NoNewRow, Committing

\* None disappears either if none leaves it.
LEMMA SetsSame ==
  ASSUME NEW t \in TxIds, txs'[t] = txs[t],
         \A c \in Calls : \/ calls'[c] = calls[c]
                          \/ ~Committing(c) /\ ~Committing(c)'
                          \/ /\ Committing(c) /\ Committing(c)'
                             /\ calls'[c].tx = calls[c].tx
                             /\ calls'[c].reads = calls[c].reads
  PROVE  LiveSets(t)' = LiveSets(t)
<1>1. \A x : x \in LiveSets(t)' <=> x \in LiveSets(t)
  BY LiveSetsAre DEF Committing
<1> QED BY <1>1

\* The variables of AtomicStore.
LEMMA StoreVars ==
  /\ PlainSet(db) = [p \in Paths |-> Plain(db[p])]
  /\ PlainSet(db)' = [p \in Paths |-> Plain(db'[p])]
  /\ db' = db => PlainSet(db)' = PlainSet(db)
BY DEF PlainSet, Plain

\* A step that changes neither documents nor read sets.
LEMMA Stutters ==
  ASSUME UNCHANGED db, \A t \in TxIds : txs'[t].used = txs[t].used,
         \A t \in TxIds : LiveSets(t)' = LiveSets(t)
  PROVE  UNCHANGED Store!vars
<1>1. {t \in TxIds : txs[t].used}' = {t \in TxIds : txs[t].used}
  OBVIOUS
<1>2. [t \in TxIds |-> LiveSets(t)]' = [t \in TxIds |-> LiveSets(t)]
  OBVIOUS
<1>3. [p \in Paths |-> Plain(db[p])]' = [p \in Paths |-> Plain(db[p])]
  BY DEF Plain
<1> QED BY <1>1, <1>2, <1>3 DEF Store!vars

\* A step that gives read sets up.
LEMMA GivesUp ==
  ASSUME UNCHANGED db, \A t \in TxIds : txs'[t].used = txs[t].used,
         \A t \in TxIds : LiveSets(t)' \subseteq LiveSets(t)
  PROVE  Store!Remember
<1>1. {t \in TxIds : txs[t].used}' = {t \in TxIds : txs[t].used}
  OBVIOUS
<1>2. [p \in Paths |-> Plain(db[p])]' = [p \in Paths |-> Plain(db[p])]
  BY DEF Plain
<1>3. \A t \in TxIds : [u \in TxIds |-> LiveSets(u)]'[t] \subseteq [u \in TxIds |-> LiveSets(u)][t]
  OBVIOUS
<1> QED BY <1>1, <1>2, <1>3 DEF Store!Remember

\* A step of a call that begins and ends outside CommitTransaction.
LEMMA CallStutters ==
  ASSUME PgTypeOK, NEW c \in Calls, NEW state, Goto(c, state), UNCHANGED <<db, txs>>,
         ~Committing(c), state.at \notin {"commit", "check", "applying"}
  PROVE  UNCHANGED Store!vars
<1>1. calls'[c] = state /\ \A d \in Calls \ {c} : calls'[d] = calls[d]
  BY GotoOthers DEF Others
<1>2. \A t \in TxIds : LiveSets(t)' = LiveSets(t)
  BY <1>1, SetsSame DEF Committing
<1> QED BY <1>2, Stutters

\* A step of a call that stays in CommitTransaction with its read set.
LEMMA CommitStutters ==
  ASSUME PgTypeOK, NEW c \in Calls, NEW state, Goto(c, state), UNCHANGED <<db, txs>>,
         Committing(c), state.at \in {"commit", "check", "applying"},
         state.tx = calls[c].tx, state.reads = calls[c].reads
  PROVE  UNCHANGED Store!vars
<1>1. calls'[c] = state /\ \A d \in Calls \ {c} : calls'[d] = calls[d]
  BY GotoOthers DEF Others
<1>2. \A t \in TxIds : LiveSets(t)' = LiveSets(t)
  BY <1>1, SetsSame DEF Committing
<1> QED BY <1>2, Stutters

\* A step of a call that ends without an effect.
LEMMA CallGivesUp ==
  ASSUME PgTypeOK, NEW c \in Calls, Goto(c, Idle), UNCHANGED <<db, txs>>
  PROVE  Store!Remember
<1>1. calls'[c] = Idle /\ \A d \in Calls \ {c} : calls'[d] = calls[d]
  BY GotoOthers DEF Others
<1>2. \A t \in TxIds : LiveSets(t)' \subseteq LiveSets(t)
  BY <1>1, SetsShrink DEF Committing, Idle, NoNewRow
<1> QED BY <1>2, GivesUp

\* A step of a call outside CommitTransaction.
LEMMA OutsideCommit ==
  ASSUME PgTypeOK, NEW c \in Calls, NEW state, Goto(c, state), ~Committing(c),
         state.at \notin {"commit", "check", "applying"}
  PROVE  \A d \in Calls : calls'[d] = calls[d] \/ (~Committing(d) /\ ~Committing(d)')
<1>1. calls'[c] = state /\ \A d \in Calls \ {c} : calls'[d] = calls[d]
  BY GotoOthers DEF Others
<1>2. ~Committing(c)'
  BY <1>1 DEF Committing
<1> QED BY <1>1, <1>2
\* A plain write that is committed.
LEMMA WriteRefines ==
  ASSUME PgTypeOK, MapInv, NEW c \in Calls, PlainWrite(c)
  PROVE  Store!Next \/ UNCHANGED Store!vars
<1> DEFINE w == calls[c].w
<1>1. /\ At(c, "write") /\ w \in Writes /\ w \in Singles
      /\ db \in Table /\ stamps \in Nat /\ Goto(c, Idle) /\ UNCHANGED txs
  BY CallFields DEF PgTypeOK, MapInv, CallMaps, PlainWrite
<1>2. ~Committing(c)
  BY <1>1 DEF At, Committing
<1>3. CASE UNCHANGED db
  BY <1>1, <1>2, <1>3, CallStutters DEF Idle
<1>4. CASE /\ ~WriteFails(db, w) /\ stamps' = NextStamp(w)
           /\ db' = Apply(db, w, stamps')
  <2>1. stamps' \in Nat
    BY <1>1, <1>4 DEF NextStamp
  <2>2. PlainSet(Apply(db, w, stamps')) \in Store!Outcomes(PlainSet(db), w)
    BY <1>1, <1>4, <2>1, ApplyOutcome
  <2>3. PlainSet(db)' \in Store!Outcomes(PlainSet(db), w)
    BY <1>4, <2>2 DEF PlainSet, Plain
  <2>4. \A d \in Calls : calls'[d] = calls[d] \/ (~Committing(d) /\ ~Committing(d)')
    BY <1>1, <1>2, OutsideCommit DEF Idle
  <2>5. \A t \in TxIds : LiveSets(t)' = LiveSets(t)
    BY <1>1, <2>4, SetsSame DEF Committing
  <2>6. [t \in TxIds |-> LiveSets(t)]' = [t \in TxIds |-> LiveSets(t)]
    BY <2>5
  <2>7. {t \in TxIds : txs[t].used}' = {t \in TxIds : txs[t].used}
    BY <1>1
  <2> HIDE DEF w
  <2>8. Store!Write
    BY <1>1, <2>3, <2>6, <2>7, StoreVars DEF Store!Write, Singles
  <2> QED BY <2>8 DEF Store!Next
<1> QED BY <1>3, <1>4 DEF PlainWrite

\* The COMMIT of a SQL transaction that has nothing left to do: it makes all
\* the writes of one list at once.
LEMMA CommitOutcome ==
  ASSUME NEW c \in Calls, NEW lists, lists \subseteq Seq(Writes), Follows(c, lists),
         calls[c].todo = <<>>, db' = View(c)
  PROVE  \E ws \in lists : PlainSet(db)' \in Store!AllOutcomes(PlainSet(db), ws)
<1>1. Partway(<<>>, lists, PlainSet(db), PlainSet(View(c)), Held(c))
  BY DEF Follows
<1>2. PlainSet(db)' = PlainSet(View(c))
  BY DEF PlainSet, Plain
<1> QED BY <1>1, <1>2, PartwayEnds

\* The COMMIT of a batch.
LEMMA BatchRefines ==
  ASSUME PgTypeOK, MapInv, NEW c \in Calls, BatchCommit(c)
  PROVE  Store!Next
<1>1. /\ At(c, "batch") /\ calls[c].todo = <<>> /\ db' = View(c) /\ Goto(c, Idle)
      /\ UNCHANGED txs
  BY DEF BatchCommit, SqlCommit
<1>2. Follows(c, Batches)
  BY <1>1 DEF MapInv, CallMaps
<1>3. PICK ws \in Batches : PlainSet(db)' \in Store!AllOutcomes(PlainSet(db), ws)
  BY <1>1, <1>2, Lists, CommitOutcome
<1>4. \A d \in Calls : calls'[d] = calls[d] \/ (~Committing(d) /\ ~Committing(d)')
  <2>1. ~Committing(c)
    BY <1>1 DEF Committing, At
  <2> QED BY <1>1, <2>1, OutsideCommit DEF Idle
<1>5. \A t \in TxIds : LiveSets(t)' = LiveSets(t)
  BY <1>1, <1>4, SetsSame DEF Committing
<1>6. [t \in TxIds |-> LiveSets(t)]' = [t \in TxIds |-> LiveSets(t)]
  BY <1>5
<1>7. {t \in TxIds : txs[t].used}' = {t \in TxIds : txs[t].used}
  BY <1>1
<1>8. Store!Batch
  BY <1>3, <1>6, <1>7, StoreVars DEF Store!Batch
<1> QED BY <1>8 DEF Store!Next

\* The COMMIT of a Firestore transaction.
LEMMA CommitRefines ==
  ASSUME PgTypeOK, MapInv, NEW c \in Calls, CommitFinish(c)
  PROVE  Store!Next
<1> DEFINE t == calls[c].tx
           reads == calls[c].reads
<1>1. /\ At(c, "applying") /\ calls[c].todo = <<>> /\ db' = View(c) /\ Goto(c, Idle)
      /\ txs' = [txs EXCEPT ![t].row = FALSE] /\ t \in TxIds
  BY CallFields DEF CommitFinish, SqlCommit
<1>2. Follows(c, TxOps)
  BY <1>1 DEF MapInv, CallMaps
<1>3. PICK ops \in TxOps : PlainSet(db)' \in Store!AllOutcomes(PlainSet(db), ops)
  BY <1>1, <1>2, Lists, CommitOutcome
<1>4. /\ calls'[c].at \notin {"commit", "check", "applying"}
      /\ \A d \in Calls \ {c} : calls'[d] = calls[d]
  BY <1>1, GotoOthers DEF Others, Idle
<1>5. \A u \in TxIds : NoNewRow(u) /\ txs'[u].used = txs[u].used
  <2>1. \A u \in TxIds : txs[u] \in TxRow
    BY DEF PgTypeOK
  <2> QED BY <1>1, <2>1 DEF NoNewRow, PgTypeOK, TxRow
<1>6. \A u \in TxIds : LiveSets(u)' \subseteq LiveSets(u)
  BY <1>4, <1>5, SetsShrink DEF Committing
<1>7. ASSUME NEW u \in TxIds \ {t}
      PROVE  LiveSets(u)' = LiveSets(u)
  <2>1. txs'[u] = txs[u]
    BY <1>1 DEF PgTypeOK
  <2>2. \A x : x \in LiveSets(u)' <=> x \in LiveSets(u)
    BY <1>1, <1>4, <2>1, LiveSetsAre DEF Committing
  <2> QED BY <2>2
<1>8. PlainSet(reads) \in LiveSets(t)
  BY <1>1, LiveSetsAre DEF Committing, At
<1> HIDE DEF t, reads
<1>9. {u \in TxIds : txs[u].used}' = {u \in TxIds : txs[u].used}
  BY <1>5
<1>10. Store!Transaction
  <2> DEFINE old == [u \in TxIds |-> LiveSets(u)]
             new == [u \in TxIds |-> LiveSets(u)]'
  <2>1. /\ PlainSet(reads) \in old[t]
        /\ new[t] \subseteq old[t]
        /\ \A u \in TxIds \ {t} : new[u] = old[u]
    BY <1>1, <1>6, <1>7, <1>8
  <2> QED BY <1>1, <1>3, <1>9, <2>1, StoreVars DEF Store!Transaction
<1> QED BY <1>10 DEF Store!Next

\* A read is recorded.
LEMMA RecordRefines ==
  ASSUME PgTypeOK, MapInv, NEW c \in Calls, TxRecord(c)
  PROVE  Store!Next
<1> DEFINE t == calls[c].tx
           p == calls[c].path
           r == calls[c].row
<1>1. /\ At(c, "record") /\ Goto(c, Idle) /\ UNCHANGED db
      /\ t \in TxIds /\ p \in Paths /\ r \in Row /\ db[p] \in Row
      /\ Descends(r, db[p])
  BY CallFields DEF PgTypeOK, TxRecord, MapInv, CallMaps, Table
<1>2. \A d \in Calls : calls'[d] = calls[d] \/ (~Committing(d) /\ ~Committing(d)')
  <2>1. ~Committing(c)
    BY <1>1 DEF Committing, At
  <2> QED BY <1>1, <2>1, OutsideCommit DEF Idle
<1>3. /\ \A u \in TxIds \ {t} : txs'[u] = txs[u]
      /\ txs'[t] = txs[t] \/ (txs[t].row /\ txs'[t] = [txs[t] EXCEPT !.reads[p] = r])
  BY <1>1 DEF TxRecord, PgTypeOK
<1>4. txs[t] \in TxRow /\ txs[t].reads \in Table
  BY <1>1 DEF PgTypeOK, TxRow
<1>5. /\ \A u \in TxIds : txs'[u].used = txs[u].used
      /\ NoNewRow(t) \/ (txs'[t].reads = [txs[t].reads EXCEPT ![p] = r] /\ txs[t].row)
  BY <1>3, <1>4 DEF NoNewRow, TxRow
<1> HIDE DEF t, p, r
<1>6. ASSUME NEW u \in TxIds, NEW x \in LiveSets(u)', x \notin LiveSets(u)
      PROVE  \E old \in LiveSets(u), q \in Paths :
               /\ Store!HasBeen(q, x[q])
               /\ x = [old EXCEPT ![q] = x[q]]
  <2>1. u = t /\ txs[t].row /\ x = PlainSet([txs[t].reads EXCEPT ![p] = r])
    <3>1. /\ txs'[u].row /\ x = PlainSet(txs'[u].reads)
          /\ ~(txs[u].row /\ x = PlainSet(txs[u].reads))
      BY <1>2, <1>6, LiveSetsAre DEF Committing
    <3>2. u = t
      BY <1>3, <3>1
    <3> QED BY <1>5, <3>1, <3>2 DEF NoNewRow
  <2>2. PlainSet(txs[t].reads) \in LiveSets(t)
    BY <1>1, <2>1, LiveSetsAre
  <2>3. x[p] = Plain(r) /\ x = [PlainSet(txs[t].reads) EXCEPT ![p] = Plain(r)]
    BY <1>1, <1>4, <2>1 DEF PlainSet, Table
  <2>4. Store!HasBeen(p, Plain(r))
    BY <1>1 DEF Store!HasBeen, Descends, Plain, Row
  <2> QED BY <1>1, <2>1, <2>2, <2>3, <2>4
<1>7. {u \in TxIds : txs[u].used}' = {u \in TxIds : txs[u].used}
  BY <1>5
<1>8. Store!Remember
  BY <1>1, <1>6, <1>7, StoreVars DEF Store!Remember
<1> QED BY <1>8 DEF Store!Next

\* A transaction begins.
LEMMA BeginRefines ==
  ASSUME PgTypeOK, MapInv, NEW t \in TxIds, BeginTransaction(t)
  PROVE  Store!Next
<1>1. /\ ~txs[t].used /\ UNCHANGED <<db, calls>>
      /\ txs[t] \in TxRow /\ txs[t].reads = NoReads
  BY DEF PgTypeOK, BeginTransaction, MapInv, TxMaps
<1>2. /\ txs'[t] = [txs[t] EXCEPT !.used = TRUE, !.row = TRUE]
      /\ \A u \in TxIds \ {t} : txs'[u] = txs[u]
  BY <1>1 DEF BeginTransaction, PgTypeOK
<1>3. txs'[t].used /\ txs'[t].row /\ txs'[t].reads = NoReads
  BY <1>1, <1>2 DEF TxRow
<1>4. \A c \in Calls : ~(Committing(c) /\ calls[c].tx = t)
  BY <1>1 DEF MapInv, CallMaps
<1>5. LiveSets(t)' = {Store!Nothing}
  <2>1. PlainSet(NoReads) = Store!Nothing
    BY DEF PlainSet, Plain, NoReads, NoRow, Store!Nothing, Store!Absent
  <2>2. \A c \in Calls : ~(Committing(c)' /\ calls'[c].tx = t)
    BY <1>1, <1>4 DEF Committing
  <2>3. \A x : x \in LiveSets(t)' <=> x = PlainSet(NoReads)
    BY <1>1, <1>3, <2>2, LiveSetsAre
  <2> QED BY <2>1, <2>3
<1>6. ASSUME NEW u \in TxIds \ {t}
      PROVE  LiveSets(u)' = LiveSets(u)
  <2>1. txs'[u] = txs[u] /\ \A c \in Calls : calls'[c] = calls[c]
    BY <1>1, <1>2
  <2> QED BY <2>1, SetsSame DEF Committing
<1>7. {u \in TxIds : txs[u].used}' = {u \in TxIds : txs[u].used} \cup {t}
  BY <1>2, <1>3
<1>8. [u \in TxIds |-> LiveSets(u)]' =
        [[u \in TxIds |-> LiveSets(u)] EXCEPT ![t] = {Store!Nothing}]
  BY <1>5, <1>6
<1>9. Store!Begin
  BY <1>1, <1>7, <1>8, StoreVars DEF Store!Begin
<1> QED BY <1>9 DEF Store!Next

\* Statements of a SQL transaction, and the checks before them, are not seen.
LEMMA StatementStutters ==
  ASSUME PgTypeOK, NEW c \in Calls,
         \/ BatchCheck(c) \/ BatchWrite(c) \/ CommitBegin(c) \/ CommitChecked(c)
         \/ CommitWrite(c)
  PROVE  UNCHANGED Store!vars
<1>0. ASSUME ~Committing(c), ~Committing(c)', Others(c), UNCHANGED <<db, txs>>
      PROVE  UNCHANGED Store!vars
  <2>1. \A d \in Calls : calls'[d] = calls[d] \/ (~Committing(d) /\ ~Committing(d)')
    BY <1>0 DEF Others
  <2>2. \A t \in TxIds : LiveSets(t)' = LiveSets(t)
    BY <1>0, <2>1, SetsSame
  <2> QED BY <1>0, <2>2, Stutters
<1>1. ASSUME Committing(c), Committing(c)', calls'[c].tx = calls[c].tx,
             calls'[c].reads = calls[c].reads, Others(c), UNCHANGED <<db, txs>>
      PROVE  UNCHANGED Store!vars
  <2>1. \A t \in TxIds : LiveSets(t)' = LiveSets(t)
    BY <1>1, SetsSame DEF Others
  <2> QED BY <1>1, <2>1, Stutters
<1>2. CASE BatchCheck(c)
  <2> DEFINE ws == <<[kind |-> "update", path |-> Head(calls[c].todo).path]>>
                     \o Tail(calls[c].todo)
  <2>1. /\ At(c, "batch") /\ UNCHANGED <<db, txs>>
        /\ Goto(c, [calls[c] EXCEPT !.todo = ws])
    BY <1>2 DEF BatchCheck
  <2> HIDE DEF ws
  <2>2. [calls[c] EXCEPT !.todo = ws].at = "batch"
    BY <2>1, CallShape DEF BatchState
  <2>3. calls'[c].at = "batch" /\ Others(c)
    BY <2>1, <2>2, GotoOthers
  <2> QED BY <1>0, <2>1, <2>3 DEF Committing, At
<1>3. CASE BatchWrite(c)
  <2> DEFINE next == [calls[c] EXCEPT !.todo = Tail(@)]
  <2>1. /\ calls[c].todo \in Seq(Writes) /\ calls[c] \in BatchState /\ At(c, "batch")
        /\ calls[c].todo # <<>> /\ SqlWrite(c, Head(calls[c].todo), next)
    BY <1>3, CallFields, CallShape DEF BatchWrite
  <2>2. Tail(calls[c].todo) \in Seq(Writes) /\ Head(calls[c].todo) \in Writes
    BY <2>1
  <2>3. next.at = "batch" /\ next \in BatchState
    BY <2>1, <2>2, Advanced DEF BatchState
  <2> HIDE DEF next
  <2>4. calls'[c].at = "batch"
    BY <2>1, <2>2, <2>3, SqlWriteGoes
  <2>5. Others(c) /\ UNCHANGED <<db, txs>>
    BY <2>1, GotoOthers DEF SqlWrite
  <2> QED BY <1>0, <2>1, <2>4, <2>5 DEF Committing, At
<1>4. CASE CommitBegin(c)
  <2>1. /\ calls'[c] = [at |-> "check", tx |-> calls[c].tx, reads |-> calls[c].reads,
                        ops |-> calls[c].ops, base |-> db,
                        left |-> {p \in Paths : Recorded(calls[c].reads, p)}]
        /\ Others(c) /\ UNCHANGED <<db, txs>> /\ At(c, "commit")
    BY <1>4, GotoOthers DEF CommitBegin
  <2>2. /\ calls'[c].at = "check" /\ calls'[c].tx = calls[c].tx
        /\ calls'[c].reads = calls[c].reads
    BY <2>1
  <2> QED BY <1>1, <2>1, <2>2 DEF Committing, At
<1>5. CASE CommitChecked(c)
  <2>1. /\ calls'[c] = [at |-> "applying", tx |-> calls[c].tx,
                        reads |-> calls[c].reads, base |-> calls[c].base,
                        todo |-> calls[c].ops, out |-> <<>>]
        /\ Others(c) /\ UNCHANGED <<db, txs>> /\ At(c, "check")
    BY <1>5, GotoOthers DEF CommitChecked
  <2>2. /\ calls'[c].at = "applying" /\ calls'[c].tx = calls[c].tx
        /\ calls'[c].reads = calls[c].reads
    BY <2>1
  <2> QED BY <1>1, <2>1, <2>2 DEF Committing, At
<1>6. CASE CommitWrite(c)
  <2> DEFINE next == [calls[c] EXCEPT !.todo = Tail(@)]
  <2>1. /\ calls[c].todo \in Seq(Writes) /\ calls[c] \in ApplyingState
        /\ At(c, "applying")
        /\ calls[c].todo # <<>> /\ SqlWrite(c, Head(calls[c].todo), next)
    BY <1>6, CallFields, CallShape DEF CommitWrite
  <2>2. Tail(calls[c].todo) \in Seq(Writes) /\ Head(calls[c].todo) \in Writes
    BY <2>1
  <2>3. /\ next.at = "applying" /\ next.tx = calls[c].tx
        /\ next.reads = calls[c].reads /\ next \in ApplyingState
    BY <2>1, <2>2 DEF ApplyingState
  <2> HIDE DEF next
  <2>4. /\ calls'[c].at = "applying" /\ calls'[c].tx = calls[c].tx
        /\ calls'[c].reads = calls[c].reads
    BY <2>1, <2>2, <2>3, SqlWriteGoes
  <2>5. Others(c) /\ UNCHANGED <<db, txs>>
    BY <2>1, GotoOthers DEF SqlWrite
  <2> QED BY <1>1, <2>1, <2>4, <2>5 DEF Committing, At
<1> QED BY <1>2, <1>3, <1>4, <1>5, <1>6

\* Every step of the adapter is a step of AtomicStore or a stutter.
LEMMA StepRefines ==
  ASSUME PgTypeOK, MapInv, [Next]_vars
  PROVE  [Store!Next]_(Store!vars)
<1> DEFINE Refines == Store!Next \/ UNCHANGED Store!vars
<1> SUFFICES Refines
  OBVIOUS
<1>1. ASSUME NEW c \in Calls, NEW state, Goto(c, state), UNCHANGED <<db, txs>>,
             ~Committing(c), state.at \notin {"commit", "check", "applying"}
      PROVE  Refines
  BY <1>1, CallStutters
<1>2. Store!Remember => Refines
  BY DEF Store!Next
<1>3. ASSUME UNCHANGED <<db, calls>>, \A t \in TxIds : txs'[t] = txs[t]
      PROVE  Refines
  <2>1. \A t \in TxIds : LiveSets(t)' = LiveSets(t)
    BY <1>3, SetsSame DEF Committing
  <2> QED BY <1>3, <2>1, Stutters
<1>4. ASSUME UNCHANGED <<db, calls>>,
             \A t \in TxIds : NoNewRow(t) /\ txs'[t].used = txs[t].used
      PROVE  Refines
  BY <1>2, <1>4, SetsShrink, GivesUp
<1> HIDE DEF Refines
<1>5. ASSUME NEW c \in Calls, CallStep(c)
      PROVE  Refines
  <2>1. CASE PlainWrite(c)
    BY <2>1, WriteRefines DEF Refines
  <2>2. CASE \/ BatchCheck(c) \/ BatchWrite(c) \/ CommitBegin(c) \/ CommitChecked(c)
             \/ CommitWrite(c)
    BY <2>2, StatementStutters DEF Refines
  <2>3. CASE BatchFail(c)
    BY <1>2, <2>3, CallGivesUp DEF BatchFail, SqlRollback
  <2>4. CASE BatchCommit(c)
    BY <2>4, BatchRefines DEF Refines
  <2>5. CASE TxRecord(c)
    BY <2>5, RecordRefines DEF Refines
  <2>6. CASE CommitCheck(c)
    <3>1. PICK p \in calls[c].left :
            \/ /\ Goto(c, [calls[c] EXCEPT !.left = @ \ {p}])
               /\ UNCHANGED db
            \/ SqlRollback(c) /\ Goto(c, Idle)
      BY <2>6 DEF CommitCheck
    <3>2. UNCHANGED txs /\ Committing(c) /\ calls[c] \in CheckState
      BY <2>6, CallShape DEF CommitCheck, Committing, At
    <3>3. CASE SqlRollback(c) /\ Goto(c, Idle)
      BY <1>2, <3>2, <3>3, CallGivesUp DEF SqlRollback
    <3>4. CASE Goto(c, [calls[c] EXCEPT !.left = @ \ {p}]) /\ UNCHANGED db
      <4> DEFINE next == [calls[c] EXCEPT !.left = @ \ {p}]
      <4>1. next.at = "check" /\ next.tx = calls[c].tx /\ next.reads = calls[c].reads
        BY <3>2 DEF CheckState
      <4> HIDE DEF next
      <4>2. Goto(c, next) /\ UNCHANGED <<db, txs>>
        BY <3>2, <3>4 DEF next
      <4> QED BY <3>2, <4>1, <4>2, CommitStutters DEF Refines
    <3> QED BY <3>1, <3>3, <3>4
  <2>7. CASE CommitFinish(c)
    BY <2>7, CommitRefines DEF Refines
  <2> QED BY <1>5, <2>1, <2>2, <2>3, <2>4, <2>5, <2>6, <2>7 DEF CallStep
<1>6. ASSUME NEW c \in Calls, ClientStep(c) \/ DeadlockAbort(c)
      PROVE  Refines
  <2>1. ASSUME NEW w \in RpcWrites, RpcWrite(c, w) \/ RpcMaskedWrite(c, w)
        PROVE  Refines
    <3>1. ~Committing(c) /\ UNCHANGED <<db, txs>>
      BY <2>1 DEF RpcWrite, RpcMaskedWrite, At, Committing
    <3>2. PICK w2 : Goto(c, [at |-> "write", w |-> w2])
      BY <2>1 DEF RpcWrite, RpcMaskedWrite
    <3> QED BY <1>1, <3>1, <3>2
  <2>2. ASSUME NEW ws \in Batches, BatchBegin(c, ws)
        PROVE  Refines
    BY <1>1, <2>2 DEF BatchBegin, At, Committing
  <2>3. ASSUME NEW t \in TxIds, NEW p \in Paths, TxRead(c, t, p)
        PROVE  Refines
    BY <1>1, <2>3 DEF TxRead, At, Committing
  <2>4. ASSUME NEW t \in TxIds, NEW ops \in TxOps, CommitLoad(c, t, ops)
        PROVE  Refines
    <3>1. /\ calls'[c] = [at |-> "commit", tx |-> t, reads |-> txs[t].reads, ops |-> ops]
          /\ \A d \in Calls \ {c} : calls'[d] = calls[d]
          /\ ~Committing(c)
          /\ UNCHANGED <<db, txs>> /\ txs[t].row
      BY <2>4, GotoOthers DEF CommitLoad, Others, At, Committing
    <3>2. Committing(c)' /\ calls'[c].tx = t /\ calls'[c].reads = txs[t].reads
      BY <3>1 DEF Committing
    <3>3. \A d \in Calls \ {c} : Committing(d)' <=> Committing(d)
      BY <3>1 DEF Committing
    <3>4. ASSUME NEW u \in TxIds
          PROVE  LiveSets(u)' = LiveSets(u)
      <4>1. \A x : x \in LiveSets(u)' <=> x \in LiveSets(u)
        BY <3>1, <3>2, <3>3, LiveSetsAre
      <4> QED BY <4>1
    <3> QED BY <3>1, <3>4, Stutters DEF Refines
  <2>5. CASE CancelCall(c) \/ DeadlockAbort(c)
    BY <1>2, <2>5, CallGivesUp DEF CancelCall, DeadlockAbort, SqlRollback
  <2> QED BY <1>6, <2>1, <2>2, <2>3, <2>4, <2>5 DEF ClientStep
<1>7. ASSUME NEW t \in TxIds, TxStep(t)
      PROVE  Refines
  <2>1. CASE BeginTransaction(t)
    BY <2>1, BeginRefines DEF Refines
  <2>2. CASE RollbackTransaction(t) \/ Expire(t)
    <3>0. \A u \in TxIds : txs[u] \in TxRow
      BY DEF PgTypeOK
    <3>1. \A b \in BOOLEAN :
            /\ [txs[t] EXCEPT !.row = b].row = b
            /\ [txs[t] EXCEPT !.row = b].used = txs[t].used
            /\ [txs[t] EXCEPT !.row = b].reads = txs[t].reads
            /\ [txs[t] EXCEPT !.expired = b].row = txs[t].row
            /\ [txs[t] EXCEPT !.expired = b].used = txs[t].used
            /\ [txs[t] EXCEPT !.expired = b].reads = txs[t].reads
      BY <3>0 DEF TxRow
    <3>2. \A u \in TxIds : NoNewRow(u) /\ txs'[u].used = txs[u].used
      BY <2>2, <3>1 DEF RollbackTransaction, Expire, PgTypeOK, NoNewRow
    <3> QED BY <1>4, <2>2, <3>2 DEF RollbackTransaction, Expire
  <2> QED BY <1>7, <2>1, <2>2 DEF TxStep
<1>8. CASE SweepExpiredTransactions
  <2>0. \A u \in TxIds : txs[u] \in TxRow
    BY DEF PgTypeOK
  <2>1. \A u \in TxIds : NoNewRow(u) /\ txs'[u].used = txs[u].used
    BY <1>8, <2>0 DEF SweepExpiredTransactions, NoNewRow, TxRow
  <2> QED BY <1>4, <1>8, <2>1 DEF SweepExpiredTransactions
<1>9. CASE UNCHANGED storeVars \/ UNCHANGED vars
  BY <1>3, <1>9 DEF storeVars, vars
<1> QED BY <1>5, <1>6, <1>7, <1>8, <1>9 DEF Next

(***************************************************************************)
(* Row locks make every request atomic at READ COMMITTED: however the      *)
(* statements of any number of connections interleave, and wherever calls  *)
(* are cancelled or chosen as deadlock victims, every plain write, batch   *)
(* and CommitTransaction is one step of AtomicStore at its COMMIT, each    *)
(* row moving on from its latest committed version, and one that is rolled *)
(* back is no step.  It is AtomicStore without isolation, because the OCC  *)
(* check of CommitTransaction locks nothing.                               *)
(***************************************************************************)
THEOREM PgIsAtomic == Spec => PgImplementsAtomicStore
<1>1. Init => Store!Init
  <2> SUFFICES ASSUME Init
               PROVE  Store!Init
    OBVIOUS
  <2>1. [p \in Paths |-> Plain(db[p])] = Store!Nothing
    BY DEF Init, Plain, NoRow, Store!Nothing, Store!Absent
  <2>2. {t \in TxIds : txs[t].used} = {}
    BY DEF Init, Unused
  <2>3. \A t \in TxIds : LiveSets(t) = {}
    BY DEF Init, LiveSets, Unused, Idle
  <2>4. [t \in TxIds |-> LiveSets(t)] = [t \in TxIds |-> {}]
    BY <2>3
  <2> QED BY <2>1, <2>2, <2>4 DEF Store!Init
<1>2. Init => MapInv
  BY DEF Init, MapInv, CallMaps, Committing, TxMaps, At, Idle, Unused
<1>3. RowsInv /\ MapInv /\ [Next]_vars => MapInv'
  BY MapStep
<1>4. RowsInv /\ MapInv /\ [Next]_vars => [Store!Next]_(Store!vars)
  BY StepRefines DEF RowsInv
<1> QED BY <1>1, <1>2, <1>3, <1>4, RowsAlways, PTL
        DEF Spec, PgImplementsAtomicStore, Store!Spec

=============================================================================
