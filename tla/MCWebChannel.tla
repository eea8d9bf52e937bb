---------------------------- MODULE MCWebChannel ----------------------------
(***************************************************************************)
(* Instances of WebChannel for TLC.                                        *)
(***************************************************************************)
EXTENDS WebChannel, TLC

\* An opening POST with a request.
Asking == <<"open">>

\* Two POSTs; the request of the second does not decode.
TwoBodies == (1 :> <<"a", "b">>) @@ (2 :> <<"bad">>)
OneBody == (1 :> <<"a">>)

\* Slots are interchangeable.
SlotSymmetry == Permutations(Posts) \cup Permutations(Conns)

=============================================================================
