--------------------------- MODULE MCEdgeRegistry ---------------------------
(* Small instances of the edge agent registry for TLC. *)
EXTENDS EdgeRegistry, TLC

CONSTANTS b1, b2, a1, a2, a3

\* Every agent registers for one backend: a1 and a2 compete for b1.
OneHomeEach == (a1 :> {b1}) @@ (a2 :> {b1}) @@ (a3 :> {b2})

Symmetry == Permutations(Regs)

\* What a record says that neither map refers to does not matter.
WithoutGarbage ==
  <<by_backend, by_agent, [r \in Regs |-> IF Free(r) THEN Absent ELSE rec[r]],
    last_disconnect, quiet, fetched>>

=============================================================================
