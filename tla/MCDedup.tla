------------------------------ MODULE MCDedup ------------------------------
(***************************************************************************)
(* Small instance of Dedup: callers and fingerprints are interchangeable.  *)
(***************************************************************************)
EXTENDS Dedup, TLC

DedupSymmetry == Permutations(Callers) \cup Permutations(Fingerprints)
=============================================================================
