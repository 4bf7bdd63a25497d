-------------------------- MODULE MCRocAllocator --------------------------
(* Instance for TLC: 2-byte words, a 5-bit usize, malloc aligned to 4.      *)
EXTENDS RocAllocator, TLC

Symmetry == Permutations(Ids)
=============================================================================
