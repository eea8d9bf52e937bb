--------------------------- MODULE MCSqliteStore ---------------------------
(***************************************************************************)
(* Instances of SqliteStore for TLC.                                       *)
(***************************************************************************)
EXTENDS SqliteRefinement, TLC

W(kind, path) == [kind |-> kind, path |-> path]

\* Requests that can create, change, delete and re-create "p".
ChurnWrites == {W("upsert", "p"), W("delete", "p")}

\* Requests that can only create and change.
UpsertOnly == {W("upsert", "p")}

NoBatches == {}

\* A batch that may fail at its second write.
OneBatch == {<<W("upsert", "q"), W("deleteExisting", "p")>>}

\* One that creates a document and changes another if it is still as it was.
GuardedBatch == {<<W("insert", "q"), [kind |-> "updateIf", path |-> "p", at |-> 1]>>}

OneTxWrite == {<<W("upsert", "p")>>}

\* A commit that writes what it read, and one that does not.
TxWrites == {<<W("upsert", "p")>>, <<W("upsert", "q")>>}

\* Calls are interchangeable.
CallSymmetry == Permutations(Calls)

=============================================================================
