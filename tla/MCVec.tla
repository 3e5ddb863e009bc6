------------------------------- MODULE MCVec --------------------------------
(***************************************************************************)
(* Two small vectors for model-checking.                                   *)
(***************************************************************************)
EXTENDS VecProps, TLC

\* Addresses are only compared, and both vectors can do the same.
Symmetry == Permutations(Vectors) \cup Permutations(Blocks)
=============================================================================
