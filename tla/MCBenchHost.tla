----------------------------- MODULE MCBenchHost -----------------------------
(* Small instances of the bench for TLC. *)
EXTENDS BenchHost, TLC

AllOfThem == AllKinds
Symmetry == Permutations(Tags) \cup Permutations(Requests)

=============================================================================
