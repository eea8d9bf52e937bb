-------------------------- MODULE MCPostgresStore --------------------------
(***************************************************************************)
(* Instances of PostgresStore for TLC.                                     *)
(***************************************************************************)
EXTENDS PgRefinement

\* Two documents.
CONSTANTS p, q

W(kind, path) == [kind |-> kind, path |-> path]

ChurnWrites == {W("upsert", p), W("delete", p)}

UpsertOnly == {W("upsert", p)}

NoBatches == {}

\* Two batches that lock the same rows in opposite orders; one may fail.
CrossedBatches ==
  {<<W("upsert", q), W("deleteExisting", p)>>,
   <<[kind |-> "updateIf", path |-> p, at |-> 1], W("upsert", q)>>}

\* A commit that writes one document and deletes another.
TxWrites == {<<W("upsert", p), W("delete", q)>>}

OneTxWrite == {<<W("upsert", p)>>}

=============================================================================
