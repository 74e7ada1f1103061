--------------------------- MODULE MCSessionLeases ---------------------------
(* A small instance of the lease table for TLC. *)
EXTENDS SessionLeases, TLC

CONSTANTS b1, b2, l1, l2, c1, c2

MCModes == {"imperative"}
MCDefaultTTL == [m \in MCModes |-> 2]
\* None (or 0), a ttl shorter than the default, and a negative extend_seconds,
\* which heartbeat() accepts.
MCSeconds == {0, 1, -1}

LeaseSymmetry == Permutations(LeaseIds) \cup Permutations(Callers)

=============================================================================
