----------------------------- MODULE MCPathScan -----------------------------
(* Small instances of PathScan for TLC. *)
EXTENDS PathScan, TLC

Symmetry == Permutations(Nodes)
=============================================================================
