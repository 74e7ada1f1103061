----------------------------- MODULE AgentSlots -----------------------------
(***************************************************************************)
(* What the edge agent registry promises to the rest of the coordinator:   *)
(* a backend has at most one agent, the one that registered last, and it   *)
(* loses that agent only when the agent says goodbye or has sent no        *)
(* heartbeat for the stale window.                                         *)
(***************************************************************************)
CONSTANTS
  Backends,
  AgentIds,
  None

VARIABLES
  attached,     \* attached[b]: the agent of backend b
  quiet         \* quiet[a]: a has sent nothing for longer than the window

vars == <<attached, quiet>>

Init ==
  /\ attached = [b \in Backends |-> None]
  /\ quiet = [a \in AgentIds |-> FALSE]

Register(a, b) ==
  /\ attached' = [attached EXCEPT ![b] = a]
  /\ quiet' = [quiet EXCEPT ![a] = FALSE]

Leave(a) ==
  /\ attached' = [b \in Backends |-> IF attached[b] = a THEN None ELSE attached[b]]
  /\ UNCHANGED quiet

\* Some backends lose agents that are quiet; an agent may speak up too late.
Evict(B) ==
  /\ \A b \in B : attached[b] # None /\ quiet[attached[b]]
  /\ attached' = [b \in Backends |-> IF b \in B THEN None ELSE attached[b]]
  /\ \/ UNCHANGED quiet
     \/ \E a \in AgentIds : quiet' = [quiet EXCEPT ![a] = FALSE]

Hears(a) ==
  /\ \E q \in BOOLEAN : quiet' = [quiet EXCEPT ![a] = q]
  /\ UNCHANGED attached

Next ==
  \/ \E a \in AgentIds : Leave(a) \/ Hears(a) \/ \E b \in Backends : Register(a, b)
  \/ \E B \in SUBSET Backends : Evict(B)

Spec == Init /\ [][Next]_vars

=============================================================================
