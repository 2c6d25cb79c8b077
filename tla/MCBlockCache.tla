---------------------------- MODULE MCBlockCache ----------------------------
(* BlockCache for TLC: people and calls are interchangeable.               *)
EXTENDS BlockCache, TLC

Symmetry == Permutations(Others) \cup Permutations(Reads) \cup Permutations(Writes)
=============================================================================
