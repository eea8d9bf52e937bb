---------------------------- MODULE AtomicStore ----------------------------
(***************************************************************************)
(* What a storage adapter promises its callers: an abstract specification. *)
(* One step is one whole request: a plain write, a whole WithTransaction   *)
(* batch, or a whole CommitTransaction.  There are no connections, locks,  *)
(* SQL transactions, calls in flight or announcements here.                *)
(*                                                                         *)
(* A row is [version, epoch] (see DocTable): what the data was is left     *)
(* out, so a write guarded by an update time may find it right or wrong.   *)
(***************************************************************************)
EXTENDS Naturals, Sequences

CONSTANTS
  Paths,
  TxIds,
  Singles,   \* writes that are requests of their own
  Batches,   \* write lists of WithTransaction
  TxOps,     \* write lists of CommitTransaction
  Isolated   \* TRUE: a commit is validated in the step that applies it, and
             \* a delete sees the row that the whole request sees

VARIABLES
  table,     \* the documents table
  begun,     \* the transactions that were ever begun
  sets       \* sets[t]: the read sets that may still be committed for t

vars == <<table, begun, sets>>

Absent == [version |-> 0, epoch |-> 0]

Nothing == [p \in Paths |-> Absent]

Init ==
  /\ table = Nothing
  /\ begun = {}
  /\ sets = [t \in TxIds |-> {}]

-----------------------------------------------------------------------------
Written(r) == [r EXCEPT !.version = @ + 1]

Deleted(r) == IF r.version = 0 THEN r
              ELSE [version |-> 0, epoch |-> r.epoch + 1]

\* What a write of this kind may make of row r; nothing if it is refused.
RowOutcomes(r, kind) ==
  CASE kind = "upsert" -> {Written(r)}
    [] kind \in {"update", "updateIf"} /\ r.version > 0 -> {Written(r)}
    [] kind = "insert" /\ r.version = 0 -> {Written(r)}
    [] kind = "delete" -> {Deleted(r)} \cup (IF Isolated THEN {} ELSE {r})
    [] kind = "deleteExisting" /\ r.version > 0 -> {Deleted(r)}
    [] OTHER -> {}

Outcomes(tbl, w) ==
  {[p \in Paths |-> IF p = w.path THEN r ELSE tbl[p]] :
     r \in RowOutcomes(tbl[w.path], w.kind)}

\* Reached(tbl, ws)[n]: the tables that the first n writes of ws, in order,
\* may leave; none if one of them is refused.
Reached(tbl, ws) ==
  LET after[n \in 0 .. Len(ws)] ==
        IF n = 0 THEN {tbl}
        ELSE UNION {Outcomes(tbl2, ws[n]) : tbl2 \in after[n - 1]}
  IN after

AllOutcomes(tbl, ws) == Reached(tbl, ws)[Len(ws)]

\* Every document in the read set is as it was read, unless it was deleted
\* in the meantime (versions start again at 1).
Valid(reads) ==
  \A p \in Paths :
    reads[p].version > 0 /\ reads[p].epoch = table[p].epoch => reads[p] = table[p]

\* A row that the document at p has had, or has now.
HasBeen(p, r) ==
  \/ r.epoch < table[p].epoch
  \/ r.epoch = table[p].epoch /\ r.version <= table[p].version

-----------------------------------------------------------------------------
Write ==
  /\ \E w \in Singles : table' \in Outcomes(table, w)
  /\ UNCHANGED <<begun, sets>>

Batch ==
  /\ \E ws \in Batches : table' \in AllOutcomes(table, ws)
  /\ UNCHANGED <<begun, sets>>

\* A commit: of t, with one of its read sets.  It leaves no new read set.
Transaction ==
  /\ \E t \in TxIds, ops \in TxOps :
       /\ \E reads \in sets[t] : Isolated => Valid(reads)
       /\ table' \in AllOutcomes(table, ops)
       /\ sets'[t] \subseteq sets[t]
       /\ \A u \in TxIds \ {t} : sets'[u] = sets[u]
  /\ UNCHANGED begun

Begin ==
  /\ \E t \in TxIds \ begun :
       /\ begun' = begun \cup {t}
       /\ sets' = [sets EXCEPT ![t] = {Nothing}]
  /\ UNCHANGED table

(***************************************************************************)
(* A read is added to a read set, or a read set is given up (a rollback, a *)
(* failed commit, the sweeper).  A transaction that has no read set left   *)
(* is over: it gets no new one.                                            *)
(***************************************************************************)
Remember ==
  /\ \A t \in TxIds : \A reads \in sets'[t] \ sets[t] :
       \E old \in sets[t], p \in Paths :
         /\ HasBeen(p, reads[p])
         /\ reads = [old EXCEPT ![p] = reads[p]]
  /\ UNCHANGED <<table, begun>>

Next == Remember \/ Begin \/ Write \/ Batch \/ Transaction

Spec == Init /\ [][Next]_vars

=============================================================================
