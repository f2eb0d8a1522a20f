---------------------------- MODULE MCAtomicFile ----------------------------
(* An instance of AtomicFile for TLC. *)
EXTENDS AtomicFile, TLC

Symmetric == Permutations(Writers) \cup Permutations(Payloads)
=============================================================================
