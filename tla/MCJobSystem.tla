----------------------------- MODULE MCJobSystem -----------------------------
(* Small instances of the job system for TLC. *)
EXTENDS JobSystem

\* Sound for the safety runs: no definition tells these values apart.
Symmetry == Permutations(Jobs) \cup Permutations(Agents) \cup Permutations(Users)

=============================================================================
