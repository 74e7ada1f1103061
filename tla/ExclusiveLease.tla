--------------------------- MODULE ExclusiveLease ---------------------------
(***************************************************************************)
(* What the session lease table promises to the rest of the coordinator:   *)
(* docs/EXECUTION_MODES.md section 4.2, "at most one active SessionLease   *)
(* per BackendId".  A backend has one owner or none; a lease is granted    *)
(* only while the backend has no owner; a lease that was lost - released,  *)
(* expired, or dropped by the fail-closed edge path - never returns.       *)
(* Time, the two dictionaries and the error classes of lease_manager.py    *)
(* are absent here; module SessionLeases is shown to implement this one.   *)
(***************************************************************************)
CONSTANTS
  Backends,   \* backend ids, each with a lease of its own
  LeaseIds,   \* the uuids acquire() may draw
  NoLease     \* "no active lease", not one of LeaseIds

VARIABLES
  owner,      \* owner[b]: the lease that may drive backend b, or NoLease
  spent       \* the lease ids granted or discarded so far

vars == <<owner, spent>>

TypeOK ==
  /\ owner \in [Backends -> LeaseIds \cup {NoLease}]
  /\ spent \in SUBSET LeaseIds

Init ==
  /\ owner = [b \in Backends |-> NoLease]
  /\ spent = {}

\* A lease that was never used before becomes the owner of a free backend.
Grant(b, l) ==
  /\ owner[b] = NoLease
  /\ l \notin spent
  /\ owner' = [owner EXCEPT ![b] = l]
  /\ spent' = spent \cup {l}

\* A lease id that was drawn in vain: the backend had an owner, or the TTL had
\* already elapsed when the table recorded the lease.
Discard(l) ==
  /\ spent' = spent \cup {l}
  /\ UNCHANGED owner

\* The owners of a set of backends are released, expire or are evicted.
Lose(S) ==
  /\ owner' = [b \in Backends |-> IF b \in S THEN NoLease ELSE owner[b]]
  /\ UNCHANGED spent

Next ==
  \/ \E b \in Backends, l \in LeaseIds : Grant(b, l)
  \/ \E l \in LeaseIds : Discard(l)
  \/ \E S \in SUBSET Backends : Lose(S)

Spec == Init /\ [][Next]_vars

=============================================================================
