---------------------------- MODULE PgRefinement ----------------------------
(***************************************************************************)
(* The PostgreSQL adapter implements AtomicStore without its isolation: a  *)
(* request is one atomic step at the COMMIT of its SQL transaction, but a  *)
(* commit may overwrite what was committed after it was validated, and a   *)
(* delete that found no row may be overtaken by a creation.                *)
(***************************************************************************)
EXTENDS PostgresStore

Plain(r) == [version |-> r.version, epoch |-> r.epoch]

PlainSet(reads) == [p \in Paths |-> Plain(reads[p])]

\* The read set in the transactions table, and those that CommitTransaction
\* has loaded and not finished with.
LiveSets(t) ==
  {PlainSet(txs[u].reads) : u \in {v \in {t} : txs[v].row}}
    \cup {PlainSet(calls[c].reads) :
            c \in {d \in Calls : /\ calls[d].at \in {"commit", "check", "applying"}
                                 /\ calls[d].tx = t}}

Store == INSTANCE AtomicStore WITH
  Singles  <- RpcWrites \cup {[w EXCEPT !.kind = "update"] : w \in RpcWrites},
  table    <- [p \in Paths |-> Plain(db[p])],
  begun    <- {t \in TxIds : txs[t].used},
  sets     <- [t \in TxIds |-> LiveSets(t)],
  Isolated <- FALSE

(***************************************************************************)
(* Row locks make every batch and every commit all or nothing at READ      *)
(* COMMITTED: whatever other connections commit between its statements,    *)
(* the rows a request wrote change together, each from its latest          *)
(* committed version, and a transaction that is over cannot commit again.  *)
(***************************************************************************)
PgImplementsAtomicStore == Store!Spec

=============================================================================
