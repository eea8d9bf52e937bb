---------------------------- MODULE SqliteStore ----------------------------
(***************************************************************************)
(* The SQLite adapter and the RPC handlers that drive it: plain document   *)
(* writes, WithTransaction batches (Commit without a transaction, the      *)
(* Write stream, BatchWrite) and Firestore transactions with optimistic    *)
(* concurrency control (BeginTransaction, BatchGetDocuments, Commit,       *)
(* Rollback, and the sweeper).                                             *)
(*                                                                         *)
(* The pool holds ONE connection.  A statement outside a SQL transaction   *)
(* is one atomic step and waits while a SQL transaction is open; between   *)
(* two statements of one handler anything may happen.  A call is one RPC   *)
(* in flight; it goes through the states below.  Several calls may serve   *)
(* the same Firestore transaction at once: nothing in the server stops a   *)
(* client from that, and a retried request does it.                        *)
(***************************************************************************)
EXTENDS DocTable, Sequences

CONSTANTS
  TxIds,         \* the random transaction ids that may be drawn
  Calls,         \* slots for RPCs in flight
  RpcWrites,     \* writes that CreateDocument, UpdateDocument and
                 \* DeleteDocument RPCs may ask for
  Batches,       \* write lists that WithTransaction may be given
  TxOps,         \* write lists that Commit may carry for a transaction
  OddPaths,      \* paths with a '.' or a '[', where json_set cuts them up
  HubCap,        \* capacity of the subscriber channel (64 in the code)
  MaxStamp,      \* bound: no new write request once this many are applied
  None           \* no call

ASSUME ConstantsAssumption ==
  /\ RpcWrites \subseteq Writes
  /\ \A w \in RpcWrites : w.kind \in PlainKinds
  /\ Batches \subseteq Seq(Writes)
  /\ TxOps \subseteq Seq(Writes)
  /\ \A ops \in TxOps : \A i \in DOMAIN ops : ops[i].kind \in {"upsert", "delete"}
  /\ OddPaths \subseteq Paths
  /\ HubCap \in Nat
  /\ MaxStamp \in Nat
  /\ None \notin Calls

VARIABLES
  db,       \* the committed documents table
  conn,     \* the call whose SQL transaction holds the connection, or None
  work,     \* the documents table as that SQL transaction sees it
  txs,      \* the transactions table
  calls,    \* where every RPC in flight stands
  hub,      \* the adapter's subscriber channel
  stamps,   \* writes applied so far; names the next one
  undone,   \* history: stamps of writes that were rolled back
  wrote,    \* history: wrote[t][p] is the stamp t's commit left at p, or 0
  shown     \* history: <<p, row>> pairs the client of t was given

dbVars == <<db, conn, work>>
histVars == <<undone, wrote, shown>>
vars == <<db, conn, work, txs, calls, hub, stamps, undone, wrote, shown>>

-----------------------------------------------------------------------------
(***************************************************************************)
(* A row of transactions.  used records that the id has been drawn; row    *)
(* that the row exists.  reads[p] is the row recorded for p, NoRow when    *)
(* none is: the code stores its version only, and compares versions only.  *)
(* decodes is FALSE once an odd path has made the JSON nested, which       *)
(* CommitTransaction cannot unmarshal.                                     *)
(***************************************************************************)
NoReads == [p \in Paths |-> NoRow]

TxRow == [used : BOOLEAN, row : BOOLEAN, expired : BOOLEAN,
          reads : Table, decodes : BOOLEAN]

Unused == [used |-> FALSE, row |-> FALSE, expired |-> FALSE,
           reads |-> NoReads, decodes |-> TRUE]

(***************************************************************************)
(* The states of a call.                                                   *)
(*   write     a plain write about to run its statement                    *)
(*   record    GetDocumentForTransaction between its two statements        *)
(*   commit    CommitTransaction with the read set loaded                  *)
(*   applying  CommitTransaction inside its SQL transaction, past the OCC  *)
(*             check                                                       *)
(*   batch     inside WithTransaction                                      *)
(*   notify    the writes are committed, out is still to be announced      *)
(***************************************************************************)
Idle == [at |-> "idle"]

CallState ==
  {Idle}
    \cup [at : {"write"}, w : Writes]
    \cup [at : {"record"}, tx : TxIds, path : Paths, row : Row]
    \cup [at : {"commit"}, tx : TxIds, reads : Table, ops : Seq(Writes)]
    \cup [at : {"applying"}, tx : TxIds, reads : Table, todo : Seq(Writes),
          out : Seq(Events)]
    \cup [at : {"batch"}, todo : Seq(Writes)]
    \cup [at : {"notify"}, out : Seq(Events) \ {<<>>}]

At(c, label) == calls[c].at = label

Recorded(reads, p) == reads[p].version > 0

\* One type invariant for the module.
TypeOK ==
  /\ db \in Table
  /\ conn \in Calls \cup {None}
  /\ work \in Table
  /\ txs \in [TxIds -> TxRow]
  /\ calls \in [Calls -> CallState]
  /\ hub \in Seq(Events)
  /\ stamps \in Nat
  /\ undone \subseteq Nat
  /\ wrote \in [TxIds -> [Paths -> Nat]]
  /\ shown \in [TxIds -> SUBSET (Paths \X Row)]

Init ==
  /\ db = [p \in Paths |-> NoRow]
  /\ conn = None
  /\ work = db
  /\ txs = [t \in TxIds |-> Unused]
  /\ calls = [c \in Calls |-> Idle]
  /\ hub = <<>>
  /\ stamps = 0
  /\ undone = {}
  /\ wrote = [t \in TxIds |-> [p \in Paths |-> 0]]
  /\ shown = [t \in TxIds |-> {}]

-----------------------------------------------------------------------------
(***************************************************************************)
(* Shared pieces of the actions.                                           *)
(***************************************************************************)

\* notifySubscribers: a full channel drops the event without a trace.
Pushed(e) == IF Len(hub) < HubCap THEN Append(hub, e) ELSE hub

Goto(c, state) == calls' = [calls EXCEPT ![c] = state]

\* The bound on write requests; those in flight always run to their end.
MayRequest == stamps < MaxStamp

\* A delete leaves no data behind and needs no stamp.
NextStamp(w) == IF IsDelete(w) THEN stamps ELSE stamps + 1

\* Mutant of Announcing: the empty list is announced too.
AnnouncingNothing(out) == [at |-> "notify", out |-> out]

\* The state a committed write leaves its call in: announce, or be done.
Announcing(out) == IF out = <<>> THEN Idle ELSE [at |-> "notify", out |-> out]

\* Stamps of rows that only the open SQL transaction can see.
Uncommitted ==
  {work[p].stamp : p \in {q \in Paths : Exists(work, q)}}
     \ {db[p].stamp : p \in Paths}

\* Mutant of ReleaseUndone: Commit where Rollback was meant.
ReleaseCommitted ==
  /\ conn' = None
  /\ db' = work
  /\ undone' = undone \cup Uncommitted
  /\ UNCHANGED work

\* tx.Rollback: the connection is released, nothing else happened to db.
ReleaseUndone ==
  /\ conn' = None
  /\ work' = db
  /\ undone' = undone \cup Uncommitted
  /\ UNCHANGED db

-----------------------------------------------------------------------------
(***************************************************************************)
(* Plain document writes: one autocommitted statement, then the event.     *)
(***************************************************************************)

\* An RPC without an update mask goes straight to its statement.
RpcWrite(c, w) ==
  /\ At(c, "idle")
  /\ MayRequest
  /\ Goto(c, [at |-> "write", w |-> w])
  /\ UNCHANGED <<dbVars, txs, hub, stamps, histVars>>

(***************************************************************************)
(* UpdateDocument with a mask reads the document first, in a statement of  *)
(* its own.  A document that exists turns an upsert into an update; one    *)
(* that is absent leaves the mode alone.                                   *)
(***************************************************************************)
RpcMaskedWrite(c, w) ==
  /\ At(c, "idle")
  /\ MayRequest
  /\ conn = None
  /\ w.kind \in {"upsert", "update", "insert"}
  /\ ~WriteFails(db, w)
  /\ Goto(c, [at |-> "write",
              w |-> IF Exists(db, w.path) THEN [w EXCEPT !.kind = "update"]
                    ELSE w])
  /\ UNCHANGED <<dbVars, txs, hub, stamps, histVars>>

\* The statement of a plain write, refused or committed.
PlainWrite(c) ==
  /\ At(c, "write")
  /\ conn = None
  /\ LET w == calls[c].w
         noop == IsDelete(w) /\ ~Exists(db, w.path)
     IN \/ /\ WriteFails(db, w) \/ noop
           /\ Goto(c, Idle)
           /\ UNCHANGED <<db, work, stamps>>
        \/ /\ ~WriteFails(db, w) /\ ~noop
           /\ stamps' = NextStamp(w)
           /\ db' = Apply(db, w, stamps')
           /\ work' = db'
           /\ Goto(c, Announcing(<<EventOf(w)>>))
  /\ UNCHANGED <<conn, txs, hub, histVars>>

\* One event of a committed write reaches the subscriber channel.
Notify(c) ==
  /\ At(c, "notify")
  /\ hub' = Pushed(Head(calls[c].out))
  /\ Goto(c, Announcing(Tail(calls[c].out)))
  /\ UNCHANGED <<dbVars, txs, stamps, histVars>>

-----------------------------------------------------------------------------
(***************************************************************************)
(* WithTransaction around applyWriteBatch.  Every write announces itself   *)
(* at once, before the SQL transaction commits.                            *)
(***************************************************************************)
BatchBegin(c, ws) ==
  /\ At(c, "idle")
  /\ MayRequest
  /\ conn = None
  /\ conn' = c
  /\ Goto(c, [at |-> "batch", todo |-> ws])
  /\ UNCHANGED <<db, work, txs, hub, stamps, histVars>>

\* Mutant of BatchWrite: the statement runs on the pool, not on the SQL
\* transaction in the context.
BatchWriteAutocommits(c) ==
  /\ At(c, "batch")
  /\ calls[c].todo # <<>>
  /\ LET w == Head(calls[c].todo)
     IN /\ ~WriteFails(work, w)
        /\ stamps' = NextStamp(w)
        /\ work' = Apply(work, w, stamps')
        /\ db' = work'
        /\ hub' = Pushed(EventOf(w))
  /\ Goto(c, [at |-> "batch", todo |-> Tail(calls[c].todo)])
  /\ UNCHANGED <<conn, txs, histVars>>

\* The next write of the batch succeeds.
BatchWrite(c) ==
  /\ At(c, "batch")
  /\ calls[c].todo # <<>>
  /\ LET w == Head(calls[c].todo)
         noop == IsDelete(w) /\ ~Exists(work, w.path)
     IN /\ ~WriteFails(work, w)
        /\ \/ noop /\ UNCHANGED <<work, hub, stamps>>
           \/ /\ ~noop
              /\ stamps' = NextStamp(w)
              /\ work' = Apply(work, w, stamps')
              /\ hub' = Pushed(EventOf(w))
  /\ Goto(c, [at |-> "batch", todo |-> Tail(calls[c].todo)])
  /\ UNCHANGED <<db, conn, txs, histVars>>

\* Mutant of BatchFail: the deferred Rollback is missing.
BatchFailLeaks(c) ==
  /\ At(c, "batch")
  /\ calls[c].todo # <<>>
  /\ WriteFails(work, Head(calls[c].todo))
  /\ Goto(c, Idle)
  /\ UNCHANGED <<dbVars, txs, hub, stamps, histVars>>

\* The next write of the batch fails, and the deferred Rollback runs.
BatchFail(c) ==
  /\ At(c, "batch")
  /\ calls[c].todo # <<>>
  /\ WriteFails(work, Head(calls[c].todo))
  /\ ReleaseUndone
  /\ Goto(c, Idle)
  /\ UNCHANGED <<txs, hub, stamps, wrote, shown>>

\* The function returned nil: tx.Commit.
BatchCommit(c) ==
  /\ At(c, "batch")
  /\ calls[c].todo = <<>>
  /\ db' = work
  /\ conn' = None
  /\ Goto(c, Idle)
  /\ UNCHANGED <<work, txs, hub, stamps, histVars>>

-----------------------------------------------------------------------------
(***************************************************************************)
(* Firestore transactions.                                                 *)
(***************************************************************************)

\* BeginTransaction, or BatchGetDocuments with new_transaction.
BeginTransaction(t) ==
  /\ conn = None
  /\ ~txs[t].used
  /\ txs' = [txs EXCEPT ![t].used = TRUE, ![t].row = TRUE]
  /\ UNCHANGED <<dbVars, calls, hub, stamps, histVars>>

(***************************************************************************)
(* GetDocumentForTransaction, first statement.  A missing document is      *)
(* reported to the client without being recorded.  The transaction row is  *)
(* not looked at, so a finished transaction can still read.                *)
(***************************************************************************)
TxRead(c, t, p) ==
  /\ At(c, "idle")
  /\ conn = None
  /\ txs[t].used
  /\ IF Exists(db, p)
       THEN /\ Goto(c, [at |-> "record", tx |-> t, path |-> p, row |-> db[p]])
            /\ UNCHANGED shown
       ELSE /\ shown' = [shown EXCEPT ![t] = @ \cup {<<p, db[p]>>}]
            /\ UNCHANGED calls
  /\ UNCHANGED <<dbVars, txs, hub, stamps, undone, wrote>>

(***************************************************************************)
(* What the UPDATE ... json_set of a read may do to a row of transactions: *)
(* a plain path overwrites what was recorded for it.  An odd one nests the *)
(* JSON, or leaves it as it was where the object or array that it names    *)
(* lies below a number; which of them is left open.                        *)
(***************************************************************************)
Record(tx, p, r) ==
  IF p \in OddPaths THEN {tx, [tx EXCEPT !.decodes = FALSE]}
  ELSE {[tx EXCEPT !.reads[p] = r]}

\* Second statement: it updates no row if the transaction is gone, and fails if
\* the path is no JSON path.
TxRecord(c) ==
  /\ At(c, "record")
  /\ conn = None
  /\ LET t == calls[c].tx
         p == calls[c].path
         r == calls[c].row
     IN \/ /\ \E tx \in IF txs[t].row THEN Record(txs[t], p, r) ELSE {txs[t]} :
                txs' = [txs EXCEPT ![t] = tx]
           /\ shown' = [shown EXCEPT ![t] = @ \cup {<<p, r>>}]
        \/ /\ p \in OddPaths /\ txs[t].row
           /\ UNCHANGED <<txs, shown>>
  /\ Goto(c, Idle)
  /\ UNCHANGED <<dbVars, hub, stamps, undone, wrote>>

(***************************************************************************)
(* CommitTransaction, first statement: load the read set, outside the SQL  *)
(* transaction.  A missing row (NotFound) and a read set that does not     *)
(* decode end the call with no effect, so they are no step here.           *)
(***************************************************************************)
CommitLoad(c, t, ops) ==
  /\ At(c, "idle")
  /\ MayRequest
  /\ conn = None
  /\ txs[t].row
  /\ txs[t].decodes
  /\ Goto(c, [at |-> "commit", tx |-> t, reads |-> txs[t].reads, ops |-> ops])
  /\ UNCHANGED <<dbVars, txs, hub, stamps, histVars>>

\* Mutant of OccCheck: the documents must exist, in whatever version.
OccCheckExists(reads) ==
  \A p \in Paths : Recorded(reads, p) => Exists(db, p)

\* The OCC check: every recorded document still has the version read.
OccCheck(reads) ==
  \A p \in Paths : Recorded(reads, p) => db[p].version = reads[p].version

\* BeginTx and the check; on a mismatch Rollback and Aborted.
CommitBegin(c) ==
  /\ At(c, "commit")
  /\ conn = None
  /\ IF OccCheck(calls[c].reads)
       THEN /\ conn' = c
            /\ Goto(c, [at |-> "applying", tx |-> calls[c].tx,
                        reads |-> calls[c].reads, todo |-> calls[c].ops,
                        out |-> <<>>])
       ELSE /\ Goto(c, Idle)
            /\ UNCHANGED conn
  /\ UNCHANGED <<db, work, txs, hub, stamps, histVars>>

\* One op of the commit; a delete is announced even if no row was there.
CommitWrite(c) ==
  /\ At(c, "applying")
  /\ calls[c].todo # <<>>
  /\ LET w == Head(calls[c].todo)
     IN /\ stamps' = NextStamp(w)
        /\ work' = Apply(work, w, stamps')
        /\ Goto(c, [calls[c] EXCEPT !.todo = Tail(@),
                                    !.out = Append(@, EventOf(w))])
  /\ UNCHANGED <<db, conn, txs, hub, histVars>>

\* DELETE FROM transactions (whether or not a row is left) and tx.Commit.
CommitFinish(c) ==
  /\ At(c, "applying")
  /\ calls[c].todo = <<>>
  /\ LET t == calls[c].tx
     IN /\ txs' = [txs EXCEPT ![t].row = FALSE]
        /\ wrote' = [wrote EXCEPT ![t] = [p \in Paths |->
                       IF work[p] # db[p] THEN stamps ELSE @[p]]]
  /\ db' = work
  /\ conn' = None
  /\ Goto(c, Announcing(calls[c].out))
  /\ UNCHANGED <<work, hub, stamps, undone, shown>>

(***************************************************************************)
(* Rollback, by the client or by BatchGetDocuments when it fails after     *)
(* starting the transaction itself: deletes the row, if any.               *)
(***************************************************************************)
RollbackTransaction(t) ==
  /\ conn = None
  /\ txs[t].row
  /\ txs' = [txs EXCEPT ![t].row = FALSE]
  /\ UNCHANGED <<dbVars, calls, hub, stamps, histVars>>

\* Time passes expires_at.
Expire(t) ==
  /\ txs[t].row
  /\ ~txs[t].expired
  /\ txs' = [txs EXCEPT ![t].expired = TRUE]
  /\ UNCHANGED <<dbVars, calls, hub, stamps, histVars>>

\* Mutant of SweepExpiredTransactions: the comparison is the wrong way round.
SweepLiveTransactions ==
  /\ conn = None
  /\ \E t \in TxIds : txs[t].row /\ txs[t].expired
  /\ txs' = [t \in TxIds |->
               IF txs[t].expired THEN txs[t]
               ELSE [txs[t] EXCEPT !.row = FALSE]]
  /\ UNCHANGED <<dbVars, calls, hub, stamps, histVars>>

\* The sweeper deletes every expired row.
SweepExpiredTransactions ==
  /\ conn = None
  /\ \E t \in TxIds : txs[t].row /\ txs[t].expired
  /\ txs' = [t \in TxIds |->
               IF txs[t].expired THEN [txs[t] EXCEPT !.row = FALSE]
               ELSE txs[t]]
  /\ UNCHANGED <<dbVars, calls, hub, stamps, histVars>>

-----------------------------------------------------------------------------
\* Mutant of CancelCall: the error path returns without Rollback.
CancelCallLeaks(c) ==
  /\ calls[c].at \in {"write", "record", "commit", "batch", "applying"}
  /\ Goto(c, Idle)
  /\ UNCHANGED <<dbVars, txs, hub, stamps, histVars>>

(***************************************************************************)
(* The request context is cancelled (the client went away, or a deadline   *)
(* passed): the statement in progress or the next one fails, and an open   *)
(* SQL transaction is rolled back.  Announcing is not cancellable.         *)
(***************************************************************************)
CancelCall(c) ==
  /\ calls[c].at \in {"write", "record", "commit", "batch", "applying"}
  /\ IF conn = c THEN ReleaseUndone ELSE UNCHANGED <<dbVars, undone>>
  /\ Goto(c, Idle)
  /\ UNCHANGED <<txs, hub, stamps, wrote, shown>>

\* The subscriber receives from its channel.
TakeChange ==
  /\ hub # <<>>
  /\ hub' = Tail(hub)
  /\ UNCHANGED <<dbVars, txs, calls, stamps, histVars>>

CallStep(c) ==
  \/ PlainWrite(c)
  \/ Notify(c)
  \/ BatchWrite(c)
  \/ BatchFail(c)
  \/ BatchCommit(c)
  \/ TxRecord(c)
  \/ CommitBegin(c)
  \/ CommitWrite(c)
  \/ CommitFinish(c)

ClientStep(c) ==
  \/ \E w \in RpcWrites : RpcWrite(c, w) \/ RpcMaskedWrite(c, w)
  \/ \E ws \in Batches : BatchBegin(c, ws)
  \/ \E t \in TxIds :
       \/ \E p \in Paths : TxRead(c, t, p)
       \/ \E ops \in TxOps : CommitLoad(c, t, ops)
  \/ CancelCall(c)

TxStep(t) ==
  \/ BeginTransaction(t)
  \/ RollbackTransaction(t)
  \/ Expire(t)

StoreNext ==
  \/ \E c \in Calls : CallStep(c) \/ ClientStep(c)
  \/ \E t \in TxIds : TxStep(t)
  \/ SweepExpiredTransactions

Next == StoreNext \/ TakeChange

Spec == Init /\ [][Next]_vars

(***************************************************************************)
(* Fairness.  database/sql hands the connection to waiting goroutines in   *)
(* the order they asked, and the Go scheduler runs every goroutine, so a   *)
(* step that is enabled again and again is taken: strong fairness.  The    *)
(* clock and the sweeper's ticker never stop.  Nothing is assumed of the   *)
(* clients.                                                                *)
(***************************************************************************)
LiveSpec ==
  /\ Spec
  /\ \A c \in Calls : SF_vars(CallStep(c))
  /\ \A t \in TxIds : WF_vars(Expire(t))
  /\ SF_vars(SweepExpiredTransactions)

-----------------------------------------------------------------------------
(***************************************************************************)
(* The connection is held by exactly the call that is inside a SQL         *)
(* transaction, and a free connection has no uncommitted change behind it. *)
(* WithTransaction's deferred Rollback and the Rollback on every error     *)
(* path of CommitTransaction are there for this: a leaked *sql.Tx blocks   *)
(* every later statement of the adapter for ever.                          *)
(***************************************************************************)
NoLeakedConnection ==
  /\ \A c \in Calls : conn = c <=> calls[c].at \in {"batch", "applying"}
  /\ conn = None => work = db

(***************************************************************************)
(* What a passed OCC check is worth.  While CommitTransaction applies its  *)
(* ops, every document in the read set it loaded is still the very row     *)
(* that was read, unless that document was deleted in the meantime.  The   *)
(* read was taken by another RPC, before the load and in a statement of    *)
(* its own, with every kind of write possible in between.                  *)
(***************************************************************************)
CommitValidated ==
  \A c \in Calls : At(c, "applying") =>
    \A p \in Paths :
      LET r == calls[c].reads[p]
      IN Recorded(calls[c].reads, p) /\ r.epoch = db[p].epoch => r = db[p]

(***************************************************************************)
(* A Commit that is sent again while the first one is in flight (both have *)
(* loaded the read set) applies its ops a second time only if the first    *)
(* one wrote none of the documents in the read set, or such a document was *)
(* deleted in the meantime: a transaction that reads what it writes is     *)
(* applied once.                                                           *)
(***************************************************************************)
RetrySafe ==
  \A c \in Calls : At(c, "applying") =>
    \A p \in Paths :
      Recorded(calls[c].reads, p) /\ wrote[calls[c].tx][p] > 0 =>
        calls[c].reads[p].epoch # db[p].epoch

(***************************************************************************)
(* Nothing a rolled-back SQL transaction wrote is in the documents table,  *)
(* in a read set, or in what a transaction's client was shown.             *)
(***************************************************************************)
RolledBackInvisible ==
  /\ \A p \in Paths : db[p].stamp \notin undone
  /\ \A t \in TxIds :
       /\ \A p \in Paths : txs[t].reads[p].stamp \notin undone
       /\ \A s \in shown[t] : s[2].stamp \notin undone

(***************************************************************************)
(* Every row of transactions is eventually deleted, although clients may   *)
(* never commit or roll back and BatchGetDocuments cannot roll back with a *)
(* context that is already cancelled.                                      *)
(***************************************************************************)
TransactionsReclaimed ==
  \A t \in TxIds : txs[t].row ~> ~txs[t].row

\* An open SQL transaction always ends, so no statement waits for ever.
ConnectionReturned == (conn # None) ~> (conn = None)

-----------------------------------------------------------------------------
(***************************************************************************)
(* The inductive invariant behind CommitValidated and RetrySafe.  Every    *)
(* row that somebody remembers (a recorded read, a read about to be        *)
(* recorded, a loaded read set) is an ancestor of the committed row of its *)
(* path, and the committed row an ancestor of the uncommitted one; once a  *)
(* transaction has been applied it is closed, and what it read of the      *)
(* documents it wrote is strictly older than they are.                     *)
(***************************************************************************)
Older(reads) ==
  \A p \in Paths : Recorded(reads, p) => Descends(reads[p], db[p])

Overwritten(reads, t) ==
  \A p \in Paths :
    Recorded(reads, p) /\ wrote[t][p] > 0 => Before(reads[p], db[p])

WorkDescends == \A p \in Paths : Descends(db[p], work[p])

TxOld(t) ==
  /\ Older(txs[t].reads)
  /\ Overwritten(txs[t].reads, t)
  /\ txs[t].row => txs[t].used
  /\ \A p \in Paths : wrote[t][p] > 0 => txs[t].used /\ ~txs[t].row

CallOld(c) ==
  /\ At(c, "record") =>
       /\ txs[calls[c].tx].used
       /\ Descends(calls[c].row, db[calls[c].path])
  /\ calls[c].at \in {"commit", "applying"} =>
       /\ txs[calls[c].tx].used
       /\ Older(calls[c].reads)
       /\ Overwritten(calls[c].reads, calls[c].tx)
  /\ At(c, "applying") => OccCheck(calls[c].reads)

StoreInv ==
  /\ TypeOK
  /\ NoLeakedConnection
  /\ WorkDescends
  /\ \A t \in TxIds : TxOld(t)
  /\ \A c \in Calls : CallOld(c)

=============================================================================
