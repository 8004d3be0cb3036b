---------------------------- MODULE MCBlockStore ----------------------------
(* Instances of BlockStore for TLC. *)
EXTENDS BlockStore, TLC

CONSTANT wide   \* the one content that needs two clusters

SizeOf == [k \in Keys |-> IF k = wide THEN 2 ELSE 1]

\* Holders are interchangeable, and so are contents of the same size.
Symmetry == Permutations(Holders) \cup Permutations(Keys \ {wide})
=============================================================================
