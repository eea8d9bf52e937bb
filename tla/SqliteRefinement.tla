-------------------------- MODULE SqliteRefinement --------------------------
(***************************************************************************)
(* The SQLite adapter implements AtomicStore: however its calls interleave *)
(* on the one connection, every request is one atomic step at the moment   *)
(* its SQL transaction commits.                                            *)
(***************************************************************************)
EXTENDS SqliteStore

\* The mapping forgets the data (stamps), connections, calls and channel.
Plain(r) == [version |-> r.version, epoch |-> r.epoch]

PlainSet(reads) == [p \in Paths |-> Plain(reads[p])]

\* The read set in the transactions table, and those that CommitTransaction
\* has loaded and not finished with.
LiveSets(t) ==
  {PlainSet(txs[u].reads) : u \in {v \in {t} : txs[v].row /\ txs[v].decodes}}
    \cup {PlainSet(calls[c].reads) :
            c \in {d \in Calls : /\ calls[d].at \in {"commit", "applying"}
                                 /\ calls[d].tx = t}}

Store == INSTANCE AtomicStore WITH
  Singles  <- RpcWrites \cup {[w EXCEPT !.kind = "update"] : w \in RpcWrites},
  table    <- [p \in Paths |-> Plain(db[p])],
  begun    <- {t \in TxIds : txs[t].used},
  sets     <- [t \in TxIds |-> LiveSets(t)],
  Isolated <- TRUE

(***************************************************************************)
(* Plain writes, batches and Firestore transactions on the one connection  *)
(* of the SQLite adapter behave like single atomic steps: a batch that     *)
(* fails or is cancelled half way leaves no trace, a commit validates and  *)
(* applies in one step, a transaction that is over cannot commit again.    *)
(***************************************************************************)
ImplementsAtomicStore == Store!Spec

=============================================================================
