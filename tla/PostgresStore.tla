--------------------------- MODULE PostgresStore ---------------------------
(***************************************************************************)
(* The PostgreSQL adapter and the RPC handlers that drive it.  The         *)
(* operations are those of SqliteStore; what differs is the database.      *)
(* There are many connections and every SQL transaction runs at READ       *)
(* COMMITTED: a statement sees what is committed when it starts and what   *)
(* its own SQL transaction wrote.  A row that a SQL transaction has        *)
(* written is locked until that transaction ends.  An INSERT (or upsert)   *)
(* waits for the lock of its path; an UPDATE or DELETE waits only if there *)
(* is a committed row, and finds nothing, without waiting, if there is     *)
(* none.  Changes are announced by a trigger (PgFeed).                     *)
(***************************************************************************)
EXTENDS PgFeed, Relation

CONSTANTS
  TxIds,       \* the random transaction ids that may be drawn
  Calls,       \* slots for RPCs in flight, each with its own connection
  RpcWrites,   \* writes that CreateDocument, UpdateDocument and
               \* DeleteDocument RPCs may ask for
  Batches,     \* write lists that WithTransaction may be given
  TxOps,       \* write lists that Commit may carry for a transaction
  MaxStamp,    \* bound: no new write request once this many are applied
  None         \* no call

\* A SQL transaction that deletes a row and creates it again is left out: a
\* statement waiting for the old row does not find the new one.
NoRecreation(ws) ==
  \A i, j \in DOMAIN ws : i < j /\ ws[i].path = ws[j].path => ~IsDelete(ws[i])

ASSUME PgAssumption ==
  /\ RpcWrites \subseteq Writes
  /\ \A w \in RpcWrites : w.kind \in PlainKinds
  /\ \A ws \in Batches \cup TxOps : ws \in Seq(Writes) /\ NoRecreation(ws)
  /\ \A ops \in TxOps : \A i \in DOMAIN ops : ops[i].kind \in {"upsert", "delete"}
  /\ MaxStamp \in Nat
  /\ None \notin Calls

VARIABLES
  db,       \* the committed documents table
  locks,    \* the call whose SQL transaction has written a path, or None
  mine,     \* mine[c][p]: the row c's SQL transaction left at a path it locked
  txs,      \* the transactions table
  calls,    \* where every RPC in flight stands
  stamps    \* writes applied so far; names the next one

storeVars == <<db, locks, mine, txs, calls, stamps>>
vars == <<storeVars, feedVars>>

-----------------------------------------------------------------------------
NoReads == [p \in Paths |-> NoRow]

TxRow == [used : BOOLEAN, row : BOOLEAN, expired : BOOLEAN, reads : Table]

Unused == [used |-> FALSE, row |-> FALSE, expired |-> FALSE, reads |-> NoReads]

(***************************************************************************)
(* The states of a call.                                                   *)
(*   write     a plain write about to run its statement                    *)
(*   record    GetDocumentForTransaction between its two statements        *)
(*   commit    CommitTransaction with the read set loaded                  *)
(*   check     inside its SQL transaction; left are the paths it still has *)
(*             to check, base is the table when that transaction began     *)
(*   applying  past the check                                              *)
(*   batch     inside WithTransaction                                      *)
(* out holds the notifications of the rows changed so far.                 *)
(***************************************************************************)
Idle == [at |-> "idle"]

CallState ==
  {Idle}
    \cup [at : {"write"}, w : Writes]
    \cup [at : {"record"}, tx : TxIds, path : Paths, row : Row]
    \cup [at : {"commit"}, tx : TxIds, reads : Table, ops : Seq(Writes)]
    \cup [at : {"check"}, tx : TxIds, reads : Table, ops : Seq(Writes),
          base : Table, left : SUBSET Paths]
    \cup [at : {"applying"}, tx : TxIds, reads : Table, base : Table,
          todo : Seq(Writes), out : Seq(Events)]
    \cup [at : {"batch"}, todo : Seq(Writes), out : Seq(Events)]

At(c, label) == calls[c].at = label

Recorded(reads, p) == reads[p].version > 0

InSqlTx(c) == calls[c].at \in {"check", "applying", "batch"}

PgTypeOK ==
  /\ FeedTypeOK
  /\ db \in Table
  /\ locks \in [Paths -> Calls \cup {None}]
  /\ mine \in [Calls -> Table]
  /\ txs \in [TxIds -> TxRow]
  /\ calls \in [Calls -> CallState]
  /\ stamps \in Nat

Init ==
  /\ FeedInit
  /\ db = [p \in Paths |-> NoRow]
  /\ locks = [p \in Paths |-> None]
  /\ mine = [c \in Calls |-> NoReads]
  /\ txs = [t \in TxIds |-> Unused]
  /\ calls = [c \in Calls |-> Idle]
  /\ stamps = 0

-----------------------------------------------------------------------------
(***************************************************************************)
(* What the database does with a statement.                                *)
(***************************************************************************)

\* The table as a statement of c sees it.
View(c) == [p \in Paths |-> IF locks[p] = c THEN mine[c][p] ELSE db[p]]

NeedsRow(w) == w.kind \in {"update", "delete", "deleteExisting"}

\* The statement of w has to wait for another SQL transaction to end.
Blocked(c, w) ==
  /\ locks[w.path] \notin {c, None}
  /\ NeedsRow(w) => Exists(db, w.path)

\* The write w of c changes a row (a delete may find none).
Changes(c, w) == ~(IsDelete(w) /\ ~Exists(View(c), w.path))

Goto(c, state) == calls' = [calls EXCEPT ![c] = state]

\* The bound on write requests; those in flight always run to their end.
MayRequest == stamps < MaxStamp

\* A delete leaves no data behind and needs no stamp.
NextStamp(w) == IF IsDelete(w) THEN stamps ELSE stamps + 1

\* The locks of c, and the rows behind them, are gone.
Unlock(c) ==
  /\ locks' = [p \in Paths |-> IF locks[p] = c THEN None ELSE locks[p]]
  /\ mine' = [mine EXCEPT ![c] = NoReads]

\* COMMIT: the rows of c become visible, and their changes are announced.
SqlCommit(c, events) ==
  /\ db' = View(c)
  /\ Unlock(c)
  /\ Announce(events)

\* Mutant of SqlRollback: the *sql.Tx is dropped without Rollback.
SqlAbandon(c) == UNCHANGED <<db, locks, mine, feedVars>>

\* ROLLBACK: notifications of a SQL transaction that fails are never sent.
SqlRollback(c) ==
  /\ Unlock(c)
  /\ UNCHANGED <<db, feedVars>>

\* Mutant of SqlWrite: the statement runs on the pool, not on the SQL
\* transaction in the context.
SqlWriteAutocommits(c, w, next) ==
  /\ ~Blocked(c, w)
  /\ ~WriteFails(View(c), w)
  /\ stamps' = NextStamp(w)
  /\ db' = Apply(db, w, stamps')
  /\ Goto(c, next)
  /\ UNCHANGED <<locks, mine, txs, feedVars>>

\* Statement w inside the SQL transaction of c, which is in state next after.
SqlWrite(c, w, next) ==
  /\ ~Blocked(c, w)
  /\ ~WriteFails(View(c), w)
  /\ \/ /\ Changes(c, w)
        /\ stamps' = NextStamp(w)
        /\ locks' = [locks EXCEPT ![w.path] = c]
        /\ mine' = [mine EXCEPT ![c] = [@ EXCEPT ![w.path] =
                      Apply(View(c), w, stamps')[w.path]]]
        /\ Goto(c, [next EXCEPT !.out = Append(@, EventOf(w))])
     \/ /\ ~Changes(c, w)
        /\ Goto(c, next)
        /\ UNCHANGED <<stamps, locks, mine>>
  /\ UNCHANGED <<db, txs, feedVars>>

-----------------------------------------------------------------------------
(***************************************************************************)
(* Plain document writes: one autocommitted statement.                     *)
(***************************************************************************)
RpcWrite(c, w) ==
  /\ At(c, "idle")
  /\ MayRequest
  /\ Goto(c, [at |-> "write", w |-> w])
  /\ UNCHANGED <<db, locks, mine, txs, stamps, feedVars>>

\* UpdateDocument with a mask reads the document first; see SqliteStore.
RpcMaskedWrite(c, w) ==
  /\ At(c, "idle")
  /\ MayRequest
  /\ w.kind \in {"upsert", "update", "insert"}
  /\ ~WriteFails(db, w)
  /\ Goto(c, [at |-> "write",
              w |-> IF Exists(db, w.path) THEN [w EXCEPT !.kind = "update"]
                    ELSE w])
  /\ UNCHANGED <<db, locks, mine, txs, stamps, feedVars>>

PlainWrite(c) ==
  /\ At(c, "write")
  /\ LET w == calls[c].w
     IN /\ ~Blocked(c, w)
        /\ \/ /\ WriteFails(db, w) \/ ~Changes(c, w)
              /\ UNCHANGED <<db, stamps, feedVars>>
           \/ /\ ~WriteFails(db, w) /\ Changes(c, w)
              /\ stamps' = NextStamp(w)
              /\ db' = Apply(db, w, stamps')
              /\ Announce(<<EventOf(w)>>)
  /\ Goto(c, Idle)
  /\ UNCHANGED <<locks, mine, txs>>

-----------------------------------------------------------------------------
(***************************************************************************)
(* WithTransaction around applyWriteBatch.                                 *)
(***************************************************************************)
BatchBegin(c, ws) ==
  /\ At(c, "idle")
  /\ MayRequest
  /\ Goto(c, [at |-> "batch", todo |-> ws, out |-> <<>>])
  /\ UNCHANGED <<db, locks, mine, txs, stamps, feedVars>>

\* The document an update-time precondition is about is read, not locked;
\* what follows is an ordinary update.
BatchCheck(c) ==
  /\ At(c, "batch")
  /\ calls[c].todo # <<>>
  /\ LET w == Head(calls[c].todo)
     IN /\ w.kind = "updateIf"
        /\ ~WriteFails(View(c), w)
        /\ Goto(c, [calls[c] EXCEPT !.todo =
                      <<[kind |-> "update", path |-> w.path]>> \o Tail(@)])
  /\ UNCHANGED <<db, locks, mine, txs, stamps, feedVars>>

BatchWrite(c) ==
  /\ At(c, "batch")
  /\ calls[c].todo # <<>>
  /\ Head(calls[c].todo).kind # "updateIf"
  /\ SqlWrite(c, Head(calls[c].todo), [calls[c] EXCEPT !.todo = Tail(@)])

\* The next write fails, and the deferred Rollback runs.
BatchFail(c) ==
  /\ At(c, "batch")
  /\ calls[c].todo # <<>>
  /\ LET w == Head(calls[c].todo)
     IN /\ w.kind = "updateIf" \/ ~Blocked(c, w)
        /\ WriteFails(View(c), w)
  /\ SqlRollback(c)
  /\ Goto(c, Idle)
  /\ UNCHANGED <<txs, stamps>>

BatchCommit(c) ==
  /\ At(c, "batch")
  /\ calls[c].todo = <<>>
  /\ SqlCommit(c, calls[c].out)
  /\ Goto(c, Idle)
  /\ UNCHANGED <<txs, stamps>>

-----------------------------------------------------------------------------
(***************************************************************************)
(* Firestore transactions.                                                 *)
(***************************************************************************)
BeginTransaction(t) ==
  /\ ~txs[t].used
  /\ txs' = [txs EXCEPT ![t].used = TRUE, ![t].row = TRUE]
  /\ UNCHANGED <<db, locks, mine, calls, stamps, feedVars>>

\* GetDocumentForTransaction; a missing document leaves no trace.
TxRead(c, t, p) ==
  /\ At(c, "idle")
  /\ txs[t].used
  /\ Exists(db, p)
  /\ Goto(c, [at |-> "record", tx |-> t, path |-> p, row |-> db[p]])
  /\ UNCHANGED <<db, locks, mine, txs, stamps, feedVars>>

\* reads || jsonb_build_object(path, version): any path is a key as it is.
TxRecord(c) ==
  /\ At(c, "record")
  /\ LET t == calls[c].tx
     IN txs' = IF txs[t].row
                 THEN [txs EXCEPT ![t].reads[calls[c].path] = calls[c].row]
                 ELSE txs
  /\ Goto(c, Idle)
  /\ UNCHANGED <<db, locks, mine, stamps, feedVars>>

CommitLoad(c, t, ops) ==
  /\ At(c, "idle")
  /\ MayRequest
  /\ txs[t].row
  /\ Goto(c, [at |-> "commit", tx |-> t, reads |-> txs[t].reads, ops |-> ops])
  /\ UNCHANGED <<db, locks, mine, txs, stamps, feedVars>>

CommitBegin(c) ==
  /\ At(c, "commit")
  /\ Goto(c, [at |-> "check", tx |-> calls[c].tx, reads |-> calls[c].reads,
              ops |-> calls[c].ops, base |-> db,
              left |-> {p \in Paths : Recorded(calls[c].reads, p)}])
  /\ UNCHANGED <<db, locks, mine, txs, stamps, feedVars>>

\* Mutant of SameVersion: the document must exist, in whatever version.
SameVersionExists(reads, p) == Exists(db, p)

\* The SELECT of the OCC check takes no lock.
SameVersion(reads, p) == db[p].version = reads[p].version

\* Mutant of CommitCheck: a mismatch is looked at again, not reported.
CommitCheckRetries(c) ==
  /\ At(c, "check")
  /\ \E p \in calls[c].left :
       /\ SameVersion(calls[c].reads, p)
       /\ Goto(c, [calls[c] EXCEPT !.left = @ \ {p}])
  /\ UNCHANGED <<db, locks, mine, txs, stamps, feedVars>>

\* One path of the read set, in any order (a Go map); a mismatch rolls back.
CommitCheck(c) ==
  /\ At(c, "check")
  /\ \E p \in calls[c].left :
       \/ /\ SameVersion(calls[c].reads, p)
          /\ Goto(c, [calls[c] EXCEPT !.left = @ \ {p}])
          /\ UNCHANGED <<db, locks, mine, feedVars>>
       \/ /\ ~SameVersion(calls[c].reads, p)
          /\ SqlRollback(c)
          /\ Goto(c, Idle)
  /\ UNCHANGED <<txs, stamps>>

CommitChecked(c) ==
  /\ At(c, "check")
  /\ calls[c].left = {}
  /\ Goto(c, [at |-> "applying", tx |-> calls[c].tx, reads |-> calls[c].reads,
              base |-> calls[c].base, todo |-> calls[c].ops, out |-> <<>>])
  /\ UNCHANGED <<db, locks, mine, txs, stamps, feedVars>>

CommitWrite(c) ==
  /\ At(c, "applying")
  /\ calls[c].todo # <<>>
  /\ SqlWrite(c, Head(calls[c].todo), [calls[c] EXCEPT !.todo = Tail(@)])

\* DELETE FROM transactions (whether or not a row is left) and tx.Commit.
CommitFinish(c) ==
  /\ At(c, "applying")
  /\ calls[c].todo = <<>>
  /\ SqlCommit(c, calls[c].out)
  /\ txs' = [txs EXCEPT ![calls[c].tx].row = FALSE]
  /\ Goto(c, Idle)
  /\ UNCHANGED stamps

RollbackTransaction(t) ==
  /\ txs[t].row
  /\ txs' = [txs EXCEPT ![t].row = FALSE]
  /\ UNCHANGED <<db, locks, mine, calls, stamps, feedVars>>

\* Time passes expires_at.
Expire(t) ==
  /\ txs[t].row
  /\ ~txs[t].expired
  /\ txs' = [txs EXCEPT ![t].expired = TRUE]
  /\ UNCHANGED <<db, locks, mine, calls, stamps, feedVars>>

SweepExpiredTransactions ==
  /\ \E t \in TxIds : txs[t].row /\ txs[t].expired
  /\ txs' = [t \in TxIds |-> [txs[t] EXCEPT !.row = @ /\ ~txs[t].expired]]
  /\ UNCHANGED <<db, locks, mine, calls, stamps, feedVars>>

-----------------------------------------------------------------------------
\* The request context is cancelled; see SqliteStore.
CancelCall(c) ==
  /\ ~At(c, "idle")
  /\ SqlRollback(c)
  /\ Goto(c, Idle)
  /\ UNCHANGED <<txs, stamps>>

\* The statement c is about to run, or is waiting in.
NextWrite(c) ==
  CASE At(c, "write") -> calls[c].w
    [] calls[c].at \in {"batch", "applying"} -> Head(calls[c].todo)

Waits(c) ==
  /\ \/ At(c, "write")
     \/ calls[c].at \in {"batch", "applying"} /\ calls[c].todo # <<>>
  /\ NextWrite(c).kind # "updateIf"
  /\ Blocked(c, NextWrite(c))

WaitsFor ==
  [edge \in Calls \X Calls |->
     Waits(edge[1]) /\ locks[NextWrite(edge[1]).path] = edge[2]]

\* PostgreSQL's deadlock detector fails a statement in a cycle of waits.
DeadlockAbort(c) ==
  /\ TransitiveClosure(WaitsFor, Calls)[<<c, c>>]
  /\ SqlRollback(c)
  /\ Goto(c, Idle)
  /\ UNCHANGED <<txs, stamps>>

CallStep(c) ==
  \/ PlainWrite(c)
  \/ BatchCheck(c)
  \/ BatchWrite(c)
  \/ BatchFail(c)
  \/ BatchCommit(c)
  \/ TxRecord(c)
  \/ CommitBegin(c)
  \/ CommitCheck(c)
  \/ CommitChecked(c)
  \/ CommitWrite(c)
  \/ CommitFinish(c)

ClientStep(c) ==
  \/ \E w \in RpcWrites : RpcWrite(c, w) \/ RpcMaskedWrite(c, w)
  \/ \E ws \in Batches : BatchBegin(c, ws)
  \/ \E t \in TxIds :
       \/ \E p \in Paths : TxRead(c, t, p)
       \/ \E ops \in TxOps : CommitLoad(c, t, ops)
  \/ CancelCall(c)

TxStep(t) == BeginTransaction(t) \/ RollbackTransaction(t) \/ Expire(t)

Next ==
  \/ \E c \in Calls : CallStep(c) \/ ClientStep(c) \/ DeadlockAbort(c)
  \/ \E t \in TxIds : TxStep(t)
  \/ SweepExpiredTransactions
  \/ FeedNext /\ UNCHANGED storeVars

Spec == Init /\ [][Next]_vars

(***************************************************************************)
(* Fairness.  A statement that need not wait runs to its end, a deadlock   *)
(* is detected, Subscribe keeps reconnecting to a database that can be     *)
(* reached, and the dispatcher keeps receiving.  Nothing is assumed of the *)
(* clients, of a cancellation or of the connection's losses.  A lock that  *)
(* is released again and again reaches the call that waits for it          *)
(* (PostgreSQL's lock queue): strong fairness.                             *)
(***************************************************************************)
LiveSpec ==
  /\ Spec
  /\ \A c \in Calls : SF_vars(CallStep(c)) /\ WF_vars(DeadlockAbort(c))
  /\ WF_vars(FeedStep /\ UNCHANGED storeVars)
  /\ WF_vars(FeedTake /\ UNCHANGED storeVars)

-----------------------------------------------------------------------------
(***************************************************************************)
(* Only a call inside a SQL transaction holds locks: every error path of   *)
(* WithTransaction and CommitTransaction rolls back.  A leaked lock blocks *)
(* every later write of its document.                                      *)
(***************************************************************************)
LocksHeld == \A p \in Paths : locks[p] # None => InSqlTx(locks[p])

(***************************************************************************)
(* What a passed OCC check is worth at READ COMMITTED.  Nothing that was   *)
(* committed before the commit's SQL transaction began has overwritten     *)
(* what the transaction read (unless the document was deleted meanwhile).  *)
(* What is committed later, between the check of a path and the write, is  *)
(* not covered: see PgSerializable.                                        *)
(***************************************************************************)
PgCommitValidated ==
  \A c \in Calls : At(c, "applying") =>
    \A p \in Paths :
      LET r == calls[c].reads[p]
          b == calls[c].base[p]
      IN Recorded(calls[c].reads, p) /\ r.epoch = db[p].epoch => ~Before(r, b)

(***************************************************************************)
(* The subscriber's last word on a document is right once nothing about it *)
(* is on the way, unless its latest change was lost with a connection:     *)
(* changes are neither dropped at a full channel nor swapped, whatever the *)
(* commits, losses and reconnections in between.                           *)
(***************************************************************************)
FeedFaithful ==
  \A p \in Paths \ missed :
    p \notin PathsOf(InFlight) => (seen[p] = "upsert" <=> Exists(db, p))

(***************************************************************************)
(* Every call ends, although the rows it needs may be locked by calls that *)
(* wait for it: writes of one batch lock rows in the order of the request. *)
(***************************************************************************)
PgCallsEnd == \A c \in Calls : ~At(c, "idle") ~> At(c, "idle")

(***************************************************************************)
(* After finitely many losses the feed is up again and the subscriber has  *)
(* everything that was notified, or the subscription was cancelled.        *)
(***************************************************************************)
FeedCatchesUp == <>[](feed = "closed" \/ (feed = "listening" /\ InFlight = <<>>))

-----------------------------------------------------------------------------
(***************************************************************************)
(* What COMPATIBILITY.md:74 says of transactions ("isolation backed by     *)
(* PostgreSQL/SQLite serializable transactions") and the code does not do: *)
(* a document that a committing transaction has read and now writes is     *)
(* still the one it read.  The check and the write are two statements at   *)
(* READ COMMITTED, and the check takes no lock.                            *)
(***************************************************************************)
PgSerializable ==
  \A c \in Calls, p \in Paths :
    At(c, "applying") /\ locks[p] = c /\ Recorded(calls[c].reads, p) =>
      calls[c].reads[p] = db[p]

=============================================================================
