---------------------------- MODULE SessionLeases ----------------------------
(***************************************************************************)
(* backend/lab_model/coordinator/jobs/lease_manager.py: the coordinator's  *)
(* table of exclusive session leases.                                      *)
(*                                                                         *)
(* The table keeps two dictionaries over the same mutable records, one by  *)
(* backend and one by lease id.  Every method runs under one RLock and is  *)
(* one action, except acquire(): it draws its uuid, reads the clock and    *)
(* builds the record BEFORE it takes the lock, so it is two actions of a   *)
(* caller, between which time passes and other callers run.                *)
(***************************************************************************)
EXTENDS Integers

CONSTANTS
  Backends,     \* backend ids
  LeaseIds,     \* the uuids acquire() may draw
  NoLease,      \* None, where a lease or a lease id is optional
  Callers,      \* threads and handlers that call acquire()
  Idle,         \* a caller outside acquire()
  Modes,        \* execution modes
  DefaultTTL,   \* _DEFAULT_TTL_BY_MODE
  Seconds,      \* the ttl_seconds / extend_seconds that callers pass; 0 is None
  MaxNow        \* bound: the clock stops there

ASSUME LeaseAssumptions ==
  /\ Backends # {} /\ Modes # {}
  /\ NoLease \notin LeaseIds
  /\ DefaultTTL \in [Modes -> Nat \ {0}]
  /\ Seconds \subseteq Int
  /\ MaxNow \in Nat

Record == [backend : Backends, mode : Modes, expires : Int]
Acquiring == [lease : LeaseIds, rec : Record, read_at : Nat]

ASSUME IdleAssumption == Idle \notin Acquiring

VARIABLES
  now,          \* the UTC clock
  by_backend,   \* _by_backend: backend -> lease id, NoLease where absent
  by_id,        \* _by_id: the lease ids present
  record,       \* the SessionLeaseRecord behind each id, shared by both maps
  drawn,        \* lease ids drawn so far (uuid4 never repeats)
  pending,      \* pending[c]: the record built by a caller still before the lock
  check         \* outcome of the latest validate_command_lease

vars == <<now, by_backend, by_id, record, drawn, pending, check>>

Verdicts == {"none", "ok", "conflict", "not_found", "expired"}

TypeOK ==
  /\ now \in Nat
  /\ by_backend \in [Backends -> LeaseIds \cup {NoLease}]
  /\ by_id \in SUBSET LeaseIds
  /\ record \in [LeaseIds -> Record]
  /\ drawn \in SUBSET LeaseIds
  /\ pending \in [Callers -> Acquiring \cup {Idle}]
  /\ check \in [lease : LeaseIds \cup {NoLease}, verdict : Verdicts]

\* The record of an id nobody drew yet is irrelevant; any value will do.
AnyRecord ==
  [backend |-> CHOOSE b \in Backends : TRUE, mode |-> CHOOSE m \in Modes : TRUE, expires |-> 0]

Init ==
  /\ now = 0
  /\ by_backend = [b \in Backends |-> NoLease]
  /\ by_id = {}
  /\ record = [l \in LeaseIds |-> AnyRecord]
  /\ drawn = {}
  /\ pending = [c \in Callers |-> Idle]
  /\ check = [lease |-> NoLease, verdict |-> "none"]

-----------------------------------------------------------------------------
\* The clock

Tick ==
  /\ now < MaxNow
  /\ now' = now + 1
  /\ UNCHANGED <<by_backend, by_id, record, drawn, pending, check>>

\* is_expired(now=at): an expiry equal to the reference time has elapsed.
ExpiredAt(l, at) == at >= record[l].expires
Live(l) == l \in by_id /\ ~ExpiredAt(l, now)

\* int(seconds or default): None and 0 both select the mode's default.
OrDefault(seconds, m) == IF seconds = 0 THEN DefaultTTL[m] ELSE seconds

-----------------------------------------------------------------------------
\* The two dictionaries after _drop_locked of every record in D: by_backend
\* loses an entry only if it still names the dropped lease.
KeptIds(D) == by_id \ D
\* Faulty: a dropped lease leaves its entry in _by_backend behind.
FaultyKeptOwners(D) == by_backend

KeptOwners(D) ==
  [b \in Backends |->
     IF by_backend[b] \in {l \in D : record[l].backend = b} THEN NoLease ELSE by_backend[b]]

\* _sweep_expired_locked
Elapsed == {l \in by_id : ExpiredAt(l, now)}
SweptIds == KeptIds(Elapsed)
SweptOwners == KeptOwners(Elapsed)
Sweep ==
  /\ by_id' = SweptIds
  /\ by_backend' = SweptOwners

DropWithSweep(D) ==
  /\ by_id' = KeptIds(Elapsed \cup D)
  /\ by_backend' = KeptOwners(Elapsed \cup D)

-----------------------------------------------------------------------------
\* Faulty: the lease id is not unique.
FaultyBeginAcquire(c, b, m, seconds, l) ==
  /\ pending[c] = Idle
  /\ OrDefault(seconds, m) > 0
  /\ drawn' = drawn \cup {l}
  /\ pending' = [pending EXCEPT ![c] =
       [lease |-> l, read_at |-> now,
        rec |-> [backend |-> b, mode |-> m, expires |-> now + OrDefault(seconds, m)]]]
  /\ UNCHANGED <<now, by_backend, by_id, record, check>>

\* acquire(), before the lock.  A requested ttl that is not positive raises
\* ValueError and changes nothing.
BeginAcquire(c, b, m, seconds, l) ==
  /\ pending[c] = Idle
  /\ l \notin drawn
  /\ OrDefault(seconds, m) > 0
  /\ drawn' = drawn \cup {l}
  /\ pending' = [pending EXCEPT ![c] =
       [lease |-> l, read_at |-> now,
        rec |-> [backend |-> b, mode |-> m, expires |-> now + OrDefault(seconds, m)]]]
  /\ UNCHANGED <<now, by_backend, by_id, record, check>>

\* acquire(), under the lock: sweep, then LeaseConflictError if the backend has
\* a record that had not expired when the caller read the clock.
Conflict(p) ==
  LET existing == SweptOwners[p.rec.backend]
  IN  existing # NoLease /\ ~ExpiredAt(existing, p.read_at)

FinishAcquire(c) ==
  /\ pending[c] # Idle
  /\ LET p == pending[c] IN
       IF Conflict(p)
       THEN Sweep /\ UNCHANGED record
       ELSE /\ by_backend' = [SweptOwners EXCEPT ![p.rec.backend] = p.lease]
            /\ by_id' = SweptIds \cup {p.lease}
            /\ record' = [record EXCEPT ![p.lease] = p.rec]
  /\ pending' = [pending EXCEPT ![c] = Idle]
  /\ UNCHANGED <<now, drawn, check>>

\* Faulty: heartbeat() neither sweeps nor checks is_expired before it extends.
FaultyHeartbeat(l, seconds) ==
  /\ l \in by_id
  /\ record' = [record EXCEPT ![l].expires = now + OrDefault(seconds, record[l].mode)]
  /\ UNCHANGED <<now, by_backend, by_id, drawn, pending, check>>

\* heartbeat(): an id that the sweep left unknown raises LeaseNotFoundError.
Heartbeat(l, seconds) ==
  /\ l \in drawn
  /\ Sweep
  /\ record' = IF l \in SweptIds
               THEN [record EXCEPT ![l].expires = now + OrDefault(seconds, record[l].mode)]
               ELSE record
  /\ UNCHANGED <<now, drawn, pending, check>>

\* release(): by id, without a sweep; an unknown id is answered with None.
Release(l) ==
  /\ l \in by_id
  /\ by_id' = KeptIds({l})
  /\ by_backend' = KeptOwners({l})
  /\ UNCHANGED <<now, record, drawn, pending, check>>

\* release_backend(): the eviction path drops whatever lease the backend has.
ReleaseBackend(b) ==
  /\ DropWithSweep({SweptOwners[b]} \ {NoLease})
  /\ UNCHANGED <<now, record, drawn, pending, check>>

\* active_lease() and get() sweep before they read.
Observe ==
  /\ Sweep
  /\ UNCHANGED <<now, record, drawn, pending, check>>

\* Faulty: any lease id the table knows is accepted.
FaultyVerdict(b, l, required) ==
  CASE l # NoLease /\ l \in SweptIds    -> "ok"
    [] l # NoLease /\ l \notin SweptIds -> "not_found"
    [] l = NoLease -> IF SweptOwners[b] # NoLease /\ required THEN "conflict" ELSE "ok"

\* validate_command_lease(require_when_locked=required), after its sweep.
Verdict(b, l, required) ==
  LET active == SweptOwners[b] IN
  CASE active = NoLease /\ l = NoLease               -> "ok"
    [] active = NoLease /\ l # NoLease /\ l \notin SweptIds -> "not_found"
    [] active = NoLease /\ l # NoLease /\ l \in SweptIds    -> "expired"
    [] active # NoLease /\ l = NoLease               -> IF required THEN "conflict" ELSE "ok"
    [] active # NoLease /\ l # NoLease               -> IF l = active THEN "ok" ELSE "conflict"

ValidateCommandLease(b, l, required) ==
  /\ l \in drawn \cup {NoLease}
  /\ Sweep
  /\ check' = [lease |-> l, verdict |-> Verdict(b, l, required)]
  /\ UNCHANGED <<now, record, drawn, pending>>

-----------------------------------------------------------------------------
Next ==
  \/ Tick
  \/ \E c \in Callers, b \in Backends, m \in Modes, s \in Seconds, l \in LeaseIds :
       BeginAcquire(c, b, m, s, l)
  \/ \E c \in Callers : FinishAcquire(c)
  \/ \E l \in LeaseIds, s \in Seconds : Heartbeat(l, s)
  \/ \E l \in LeaseIds : Release(l)
  \/ \E b \in Backends : ReleaseBackend(b)
  \/ Observe
  \/ \E b \in Backends, l \in LeaseIds \cup {NoLease}, r \in BOOLEAN :
       ValidateCommandLease(b, l, r)

Spec == Init /\ [][Next]_vars

-----------------------------------------------------------------------------
\* Properties

\* The two dictionaries agree: a backend's entry is a lease present by id and
\* issued for that backend, and every lease present by id is its backend's
\* entry.  Since a backend has one entry, two callers never hold leases on the
\* same backend, however their acquire() calls interleave with expiry.
MapsAgree ==
  /\ by_id \subseteq drawn
  /\ \A b \in Backends : by_backend[b] # NoLease =>
       by_backend[b] \in by_id /\ record[by_backend[b]].backend = b
  /\ \A l \in by_id : by_backend[record[l].backend] = l

\* Between its two halves acquire() holds an id that no other caller holds and
\* that is not in the table, and a clock reading that is not in the future.
PendingFresh ==
  /\ \A c \in Callers : pending[c] # Idle =>
       pending[c].lease \in drawn \ by_id /\ pending[c].read_at <= now
  /\ \A c, d \in Callers :
       pending[c] # Idle /\ pending[d] # Idle /\ c # d => pending[c].lease # pending[d].lease

\* The owner the rest of the system sees: the entry, unless its TTL elapsed.
Owner == [b \in Backends |->
            IF by_backend[b] # NoLease /\ Live(by_backend[b]) THEN by_backend[b] ELSE NoLease]

\* A drawn id counts as spent once acquire() has returned or raised.
InAcquire == {pending[c].lease : c \in {d \in Callers : pending[d] # Idle}}
Spent == drawn \ InAcquire

Abstract == INSTANCE ExclusiveLease WITH owner <- Owner, spent <- Spent

\* The table implements the exclusive lock: no step replaces a live owner by
\* another lease, and neither a late heartbeat nor a release of an old id
\* brings back a lease that was lost.
ImplementsExclusiveLease == Abstract!Spec

\* A command is admitted with a lease id only if that lease owns the backend,
\* and, where a lease is required, without one only while the backend is free;
\* in particular the lease of another backend or of an earlier session fails.
AdmissionSound ==
  [][\A b \in Backends, l \in LeaseIds \cup {NoLease} :
       /\ ValidateCommandLease(b, l, TRUE)
       /\ check'.verdict = "ok"
       => Owner'[b] = l]_vars

=============================================================================
