--------------------------- MODULE MCListenStream ---------------------------
(***************************************************************************)
(* Instances of ListenStream for TLC.                                      *)
(***************************************************************************)
EXTENDS ListenStream, TLC

W(kind, path) == [kind |-> kind, path |-> path]

UpsertP == {W("upsert", "p")}
UpsertPQ == {W("upsert", "p"), W("upsert", "q")}
ChurnP == {W("upsert", "p"), W("delete", "p")}

NoRequests == {}

\* A batch that may be rolled back after announcing an upsert.
UpsertBatches == {<<W("upsert", "p"), W("update", "q")>>}

TxChurn == {<<W("upsert", "p")>>, <<W("delete", "p")>>}

OrderPQ == <<"p", "q">>

\* Target "d" lists "p"; target "q" is a query over both paths.
DocAndQuery == [g \in Targets |-> IF g = "d" THEN {"p"} ELSE {"p", "q"}]

CallSymmetry == Permutations(Calls)

StreamSymmetry == Permutations(Calls) \cup Permutations(Streams)

=============================================================================
