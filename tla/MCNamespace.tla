---------------------------- MODULE MCNamespace ----------------------------
(* Instances of Namespace for TLC. *)
EXTENDS Namespace, TLC

\* Names are interchangeable.
Symmetry == Permutations(Names)
=============================================================================
