------------------------------ MODULE MCHandles ------------------------------
(* Small instances of Handles for TLC. *)
EXTENDS Handles, TLC

NoFaults  == {}
AllFaults == FaultKinds
Rejects   == {"reject"}

\* Goroutines and native values are interchangeable in the safety runs.
Symmetry == Permutations(Threads) \cup Permutations(Natives) \cup Permutations(Progs)
=============================================================================
