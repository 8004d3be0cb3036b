------------------------------- MODULE MCGate -------------------------------
(***************************************************************************)
(* Gate for TLC: three names in segments of two.  Two names share the hash *)
(* of the index, and the filter bits of the third are covered by the other *)
(* two, so that the filter may admit it when it is absent.                 *)
(***************************************************************************)
EXTENDS Gate

CONSTANTS n1, n2, n3

MCNames == {n1, n2, n3}
MCKey == n1 :> [hi |-> 4, lo |-> 0] @@ n2 :> [hi |-> 5, lo |-> 2]
             @@ n3 :> [hi |-> 6, lo |-> 1]
MCNameHash == n1 :> 1 @@ n2 :> 1 @@ n3 :> 2
MCPageOf == n1 :> 0 @@ n2 :> 1 @@ n3 :> 0
MCInodeOf == n1 :> 1 @@ n2 :> 2 @@ n3 :> 3
=============================================================================
