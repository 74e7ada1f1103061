------------------------ MODULE SessionLeases_proofs ------------------------
(***************************************************************************)
(* For every set of backends, lease ids, callers and TTLs: the two         *)
(* dictionaries of the lease table agree, and the table implements the     *)
(* exclusive lock of module ExclusiveLease.                                *)
(***************************************************************************)
EXTENDS SessionLeases, TLAPS

(***************************************************************************)
(* The invariant.  MapsAgree alone is not inductive: that acquire() finds  *)
(* the backend free after its sweep has to follow from the clock it read   *)
(* earlier, and that its record overwrites no other from the freshness of  *)
(* its id; both are PendingFresh.                                          *)
(***************************************************************************)
IInv == TypeOK /\ MapsAgree /\ PendingFresh

-----------------------------------------------------------------------------
\* Every value of the constants is typed, in particular the dummy record.
LEMMA AnyRecordTyped == AnyRecord \in Record
  BY LeaseAssumptions DEF AnyRecord, Record

\* int(seconds or default) is an integer.
LEMMA OrDefaultInt ==
  ASSUME NEW s \in Seconds, NEW m \in Modes
  PROVE  OrDefault(s, m) \in Int
  BY LeaseAssumptions DEF OrDefault

LEMMA InitTypeOK == Init => TypeOK
  BY AnyRecordTyped, LeaseAssumptions DEF Init, TypeOK, Verdicts

LEMMA KeptTyped ==
  ASSUME TypeOK, NEW D
  PROVE  /\ KeptIds(D) \in SUBSET LeaseIds
         /\ KeptOwners(D) \in [Backends -> LeaseIds \cup {NoLease}]
  BY DEF TypeOK, KeptIds, KeptOwners

LEMMA NextTypeOK == TypeOK /\ [Next]_vars => TypeOK'
<1> SUFFICES ASSUME TypeOK, [Next]_vars PROVE TypeOK'
  OBVIOUS
<1> USE DEF TypeOK
<1>1. CASE Tick
  BY <1>1 DEF Tick
<1>2. ASSUME NEW c \in Callers, NEW b \in Backends, NEW m \in Modes, NEW s \in Seconds,
             NEW l \in LeaseIds, BeginAcquire(c, b, m, s, l)
      PROVE  TypeOK'
  <2>1. [backend |-> b, mode |-> m, expires |-> now + OrDefault(s, m)] \in Record
    BY OrDefaultInt DEF Record
  <2>2. [lease |-> l, read_at |-> now,
         rec |-> [backend |-> b, mode |-> m, expires |-> now + OrDefault(s, m)]] \in Acquiring
    BY <2>1 DEF Acquiring
  <2>3. pending' \in [Callers -> Acquiring \cup {Idle}]
    BY <1>2, <2>2 DEF BeginAcquire
  <2> QED
    BY <1>2, <2>3 DEF BeginAcquire
<1>3. ASSUME NEW c \in Callers, FinishAcquire(c)
      PROVE  TypeOK'
  <2>1. pending[c] \in Acquiring
    BY <1>3 DEF FinishAcquire
  <2>2. pending[c].lease \in LeaseIds /\ pending[c].rec \in Record /\ pending[c].rec.backend \in Backends
    BY <2>1 DEF Acquiring, Record
  <2>3. SweptIds \in SUBSET LeaseIds /\ SweptOwners \in [Backends -> LeaseIds \cup {NoLease}]
    BY KeptTyped DEF SweptIds, SweptOwners
  <2>4. by_id' \in SUBSET LeaseIds /\ by_backend' \in [Backends -> LeaseIds \cup {NoLease}]
    BY <1>3, <2>2, <2>3 DEF FinishAcquire, Sweep
  <2>5. record' \in [LeaseIds -> Record]
    BY <1>3, <2>2 DEF FinishAcquire
  <2>6. pending' \in [Callers -> Acquiring \cup {Idle}]
    BY <1>3 DEF FinishAcquire
  <2> QED
    BY <1>3, <2>4, <2>5, <2>6 DEF FinishAcquire
<1>4. ASSUME NEW l \in LeaseIds, NEW s \in Seconds, Heartbeat(l, s)
      PROVE  TypeOK'
  <2>1. SweptIds \in SUBSET LeaseIds /\ SweptOwners \in [Backends -> LeaseIds \cup {NoLease}]
    BY KeptTyped DEF SweptIds, SweptOwners
  <2>2. now + OrDefault(s, record[l].mode) \in Int
    BY OrDefaultInt DEF Record
  <2>3. record' \in [LeaseIds -> Record]
    BY <1>4, <2>2 DEF Heartbeat, Record
  <2> QED
    BY <1>4, <2>1, <2>3 DEF Heartbeat, Sweep
<1>5. ASSUME NEW l \in LeaseIds, Release(l)
      PROVE  TypeOK'
  BY <1>5, KeptTyped DEF Release
<1>6. ASSUME NEW b \in Backends, ReleaseBackend(b)
      PROVE  TypeOK'
  BY <1>6, KeptTyped DEF ReleaseBackend, DropWithSweep
<1>7. CASE Observe
  BY <1>7, KeptTyped DEF Observe, Sweep, SweptIds, SweptOwners
<1>8. ASSUME NEW b \in Backends, NEW l \in LeaseIds \cup {NoLease}, NEW r \in BOOLEAN,
             ValidateCommandLease(b, l, r)
      PROVE  TypeOK'
  <2>1. SweptIds \in SUBSET LeaseIds /\ SweptOwners \in [Backends -> LeaseIds \cup {NoLease}]
    BY KeptTyped DEF SweptIds, SweptOwners
  <2>2. Verdict(b, l, r) \in Verdicts
    BY DEF Verdict, Verdicts
  <2> QED
    BY <1>8, <2>1, <2>2 DEF ValidateCommandLease, Sweep
<1>9. CASE UNCHANGED vars
  BY <1>9 DEF vars
<1> QED
  BY <1>1, <1>2, <1>3, <1>4, <1>5, <1>6, <1>7, <1>8, <1>9 DEF Next

\* Every state of the lease table is well typed (lease_manager.py, whole class).
THEOREM TypeCorrect == Spec => []TypeOK
<1>1. Init => TypeOK
  BY InitTypeOK
<1>2. TypeOK /\ [Next]_vars => TypeOK'
  BY NextTypeOK
<1> QED
  BY <1>1, <1>2, PTL DEF Spec


-----------------------------------------------------------------------------
(***************************************************************************)
(* Dropping leases.  Dropping any set of leases keeps the two maps in      *)
(* agreement; the sweep leaves exactly the live owners.                    *)
(***************************************************************************)
LEMMA DropAgrees ==
  ASSUME TypeOK, MapsAgree, NEW D
  PROVE  /\ KeptIds(D) \subseteq by_id
         /\ \A b \in Backends : KeptOwners(D)[b] # NoLease =>
              /\ KeptOwners(D)[b] = by_backend[b]
              /\ KeptOwners(D)[b] \in KeptIds(D)
         /\ \A l \in KeptIds(D) : KeptOwners(D)[record[l].backend] = l
  BY DEF TypeOK, MapsAgree, KeptIds, KeptOwners, Record

LEMMA SweptIsOwner ==
  ASSUME TypeOK, MapsAgree
  PROVE  /\ SweptOwners = Owner
         /\ SweptIds = {l \in by_id : Live(l)}
<1>1. ASSUME NEW b \in Backends PROVE SweptOwners[b] = Owner[b]
  BY DEF SweptOwners, KeptOwners, Elapsed, Owner, Live, MapsAgree, TypeOK
<1>2. SweptOwners = Owner
  BY <1>1 DEF SweptOwners, KeptOwners, Owner
<1>3. SweptIds = {l \in by_id : Live(l)}
  BY DEF SweptIds, KeptIds, Elapsed, Live
<1> QED
  BY <1>2, <1>3

\* A caller whose clock reading is not in the future finds a conflict exactly
\* when the backend still has an owner after the sweep.
LEMMA ConflictMeansOwned ==
  ASSUME IInv, NEW c \in Callers, pending[c] # Idle
  PROVE  Conflict(pending[c]) <=> Owner[pending[c].rec.backend] # NoLease
<1> DEFINE p == pending[c]
<1>1. p \in Acquiring /\ p.rec.backend \in Backends /\ p.read_at \in Nat /\ p.read_at <= now
  BY DEF IInv, TypeOK, PendingFresh, Acquiring, Record
<1>2. SweptOwners[p.rec.backend] = Owner[p.rec.backend]
  BY SweptIsOwner DEF IInv
<1>3. ASSUME Owner[p.rec.backend] # NoLease
      PROVE  ~ExpiredAt(Owner[p.rec.backend], p.read_at)
  <2>1. Live(Owner[p.rec.backend]) /\ Owner[p.rec.backend] \in LeaseIds
    BY <1>1, <1>3 DEF Owner, Live, IInv, TypeOK
  <2>2. now < record[Owner[p.rec.backend]].expires
    BY <2>1 DEF Live, ExpiredAt, IInv, TypeOK, Record
  <2> QED
    BY <1>1, <2>1, <2>2 DEF ExpiredAt, IInv, TypeOK, Record
<1> QED
  BY <1>2, <1>3 DEF Conflict

-----------------------------------------------------------------------------
LEMMA InitIInv == Init => IInv
  BY InitTypeOK DEF Init, IInv, MapsAgree, PendingFresh

LEMMA NextMapsAgree == IInv /\ [Next]_vars => MapsAgree'
<1> SUFFICES ASSUME IInv, [Next]_vars PROVE MapsAgree'
  OBVIOUS
<1> USE DEF IInv
<1>1. CASE Tick
  BY <1>1 DEF Tick, MapsAgree
<1>2. ASSUME NEW c \in Callers, NEW b \in Backends, NEW m \in Modes, NEW s \in Seconds,
             NEW l \in LeaseIds, BeginAcquire(c, b, m, s, l)
      PROVE  MapsAgree'
  BY <1>2 DEF BeginAcquire, MapsAgree
<1>3. ASSUME NEW D, by_id' = KeptIds(D), by_backend' = KeptOwners(D),
             UNCHANGED <<record, drawn>>
      PROVE  MapsAgree'
  BY <1>3, DropAgrees DEF MapsAgree
<1>4. ASSUME NEW c \in Callers, FinishAcquire(c)
      PROVE  MapsAgree'
  <2> DEFINE p == pending[c]
  <2>1. p \in Acquiring /\ p.rec.backend \in Backends /\ p.lease \in LeaseIds
        /\ p.lease \in drawn \ by_id
    BY <1>4 DEF FinishAcquire, TypeOK, PendingFresh, Acquiring, Record
  <2>2. CASE Conflict(p)
    BY <1>3, <1>4, <2>2 DEF FinishAcquire, Sweep, SweptIds, SweptOwners
  <2>3. CASE ~Conflict(p)
    <3>1. /\ by_backend' = [SweptOwners EXCEPT ![p.rec.backend] = p.lease]
          /\ by_id' = SweptIds \cup {p.lease}
          /\ record' = [record EXCEPT ![p.lease] = p.rec]
          /\ drawn' = drawn
      BY <1>4, <2>3 DEF FinishAcquire
    <3>2. SweptOwners[p.rec.backend] = NoLease
      BY <1>4, <2>3, ConflictMeansOwned, SweptIsOwner DEF FinishAcquire
    <3>3. /\ SweptIds \subseteq by_id
          /\ \A b \in Backends : SweptOwners[b] # NoLease =>
               SweptOwners[b] = by_backend[b] /\ SweptOwners[b] \in SweptIds
          /\ \A l \in SweptIds : SweptOwners[record[l].backend] = l
      BY DropAgrees DEF SweptIds, SweptOwners
    <3>4. SweptOwners \in [Backends -> LeaseIds \cup {NoLease}] /\ SweptIds \subseteq LeaseIds
      BY KeptTyped DEF SweptIds, SweptOwners
    <3>5. by_id' \subseteq drawn'
      BY <2>1, <3>1, <3>3 DEF MapsAgree
    <3>6. ASSUME NEW b \in Backends, by_backend'[b] # NoLease
          PROVE  by_backend'[b] \in by_id' /\ record'[by_backend'[b]].backend = b
      <4>1. CASE b = p.rec.backend
        BY <2>1, <3>1, <3>4, <4>1 DEF TypeOK
      <4>2. CASE b # p.rec.backend
        BY <2>1, <3>1, <3>3, <3>4, <3>6, <4>2 DEF TypeOK, MapsAgree
      <4> QED
        BY <4>1, <4>2
    <3>7. ASSUME NEW l \in by_id'
          PROVE  by_backend'[record'[l].backend] = l
      <4>1. CASE l = p.lease
        BY <2>1, <3>1, <3>4, <4>1 DEF TypeOK
      <4>2. CASE l \in SweptIds
        BY <2>1, <3>1, <3>2, <3>3, <3>4, <4>2, LeaseAssumptions DEF TypeOK, Record
      <4> QED
        BY <3>1, <3>7, <4>1, <4>2
    <3> QED
      BY <3>5, <3>6, <3>7 DEF MapsAgree
  <2> QED
    BY <2>2, <2>3
<1>5. ASSUME NEW l \in LeaseIds, NEW s \in Seconds, Heartbeat(l, s)
      PROVE  MapsAgree'
  <2>1. \A k \in LeaseIds : record'[k].backend = record[k].backend
    BY <1>5 DEF Heartbeat, TypeOK, Record
  <2>2. by_id' = KeptIds(Elapsed) /\ by_backend' = KeptOwners(Elapsed) /\ drawn' = drawn
    BY <1>5 DEF Heartbeat, Sweep, SweptIds, SweptOwners
  <2>3. by_id' \subseteq LeaseIds /\ by_backend' \in [Backends -> LeaseIds \cup {NoLease}]
    BY <2>2, KeptTyped
  <2> QED
    BY <2>1, <2>2, <2>3, DropAgrees DEF MapsAgree, TypeOK
<1>6. ASSUME NEW l \in LeaseIds, Release(l)
      PROVE  MapsAgree'
  BY <1>3, <1>6 DEF Release
<1>7. ASSUME NEW b \in Backends, ReleaseBackend(b)
      PROVE  MapsAgree'
  BY <1>3, <1>7 DEF ReleaseBackend, DropWithSweep
<1>8. CASE Observe
  BY <1>3, <1>8 DEF Observe, Sweep, SweptIds, SweptOwners
<1>9. ASSUME NEW b \in Backends, NEW l \in LeaseIds \cup {NoLease}, NEW r \in BOOLEAN,
             ValidateCommandLease(b, l, r)
      PROVE  MapsAgree'
  BY <1>3, <1>9 DEF ValidateCommandLease, Sweep, SweptIds, SweptOwners
<1>10. CASE UNCHANGED vars
  BY <1>10 DEF vars, MapsAgree
<1> QED
  BY <1>1, <1>2, <1>4, <1>5, <1>6, <1>7, <1>8, <1>9, <1>10 DEF Next

LEMMA NextPendingFresh == IInv /\ [Next]_vars => PendingFresh'
<1> SUFFICES ASSUME IInv, [Next]_vars PROVE PendingFresh'
  OBVIOUS
<1> USE DEF IInv
<1>1. CASE Tick
  BY <1>1 DEF Tick, PendingFresh, TypeOK, Acquiring
<1>2. ASSUME NEW c \in Callers, NEW b \in Backends, NEW m \in Modes, NEW s \in Seconds,
             NEW l \in LeaseIds, BeginAcquire(c, b, m, s, l)
      PROVE  PendingFresh'
  <2>1. l \notin by_id
    BY <1>2 DEF BeginAcquire, MapsAgree
  <2>2. \A d \in Callers : d # c => pending'[d] = pending[d]
    BY <1>2 DEF BeginAcquire, TypeOK
  <2>3. pending'[c].lease = l /\ pending'[c].read_at = now
    BY <1>2 DEF BeginAcquire, TypeOK
  <2> QED
    BY <1>2, <2>1, <2>2, <2>3 DEF BeginAcquire, PendingFresh, TypeOK
<1>3. ASSUME by_id' \subseteq by_id, UNCHANGED <<now, pending, drawn>>
      PROVE  PendingFresh'
  BY <1>3 DEF PendingFresh
<1>4. ASSUME NEW c \in Callers, FinishAcquire(c)
      PROVE  PendingFresh'
  <2>1. by_id' \subseteq by_id \cup {pending[c].lease}
    BY <1>4 DEF FinishAcquire, Sweep, SweptIds, KeptIds
  <2>2. pending'[c] = Idle /\ \A d \in Callers : d # c => pending'[d] = pending[d]
    BY <1>4 DEF FinishAcquire, TypeOK
  <2>3. \A d \in Callers : d # c /\ pending[d] # Idle => pending[d].lease # pending[c].lease
    BY <1>4 DEF FinishAcquire, PendingFresh
  <2> QED
    BY <1>4, <2>1, <2>2, <2>3 DEF FinishAcquire, PendingFresh
<1>5. ASSUME NEW l \in LeaseIds, NEW s \in Seconds, Heartbeat(l, s)
      PROVE  PendingFresh'
  BY <1>3, <1>5 DEF Heartbeat, Sweep, SweptIds, KeptIds
<1>6. ASSUME NEW l \in LeaseIds, Release(l)
      PROVE  PendingFresh'
  BY <1>3, <1>6 DEF Release, KeptIds
<1>7. ASSUME NEW b \in Backends, ReleaseBackend(b)
      PROVE  PendingFresh'
  BY <1>3, <1>7 DEF ReleaseBackend, DropWithSweep, KeptIds
<1>8. CASE Observe
  BY <1>3, <1>8 DEF Observe, Sweep, SweptIds, KeptIds
<1>9. ASSUME NEW b \in Backends, NEW l \in LeaseIds \cup {NoLease}, NEW r \in BOOLEAN,
             ValidateCommandLease(b, l, r)
      PROVE  PendingFresh'
  BY <1>3, <1>9 DEF ValidateCommandLease, Sweep, SweptIds, KeptIds
<1>10. CASE UNCHANGED vars
  BY <1>10 DEF vars, PendingFresh
<1> QED
  BY <1>1, <1>2, <1>4, <1>5, <1>6, <1>7, <1>8, <1>9, <1>10 DEF Next

LEMMA Invariant == Spec => []IInv
<1>1. Init => IInv
  BY InitIInv
<1>2. IInv /\ [Next]_vars => IInv'
  BY NextTypeOK, NextMapsAgree, NextPendingFresh DEF IInv
<1> QED
  BY <1>1, <1>2, PTL DEF Spec

\* _by_backend and _by_id agree after every method, in any interleaving of the
\* two halves of acquire() with expiry (lease_manager.py:151-158, 231-245).
THEOREM DictionariesAgree == Spec => []MapsAgree
<1>1. IInv => MapsAgree
  BY DEF IInv
<1> QED
  BY <1>1, Invariant, PTL

\* What acquire() relies on between reading the clock and taking the lock
\* (lease_manager.py:140-149).
THEOREM AcquiringIsFresh == Spec => []PendingFresh
<1>1. IInv => PendingFresh
  BY DEF IInv
<1> QED
  BY <1>1, Invariant, PTL

-----------------------------------------------------------------------------
(***************************************************************************)
(* Admission.  validate_command_lease() answers from the maps its sweep    *)
(* has left, so what it admits is the owner the rest of the system sees.   *)
(***************************************************************************)
\* After a sweep the entries of the one map are the owners.
LEMMA OwnerAfterSweep ==
  ASSUME IInv, Sweep, UNCHANGED <<now, record>>, NEW b \in Backends
  PROVE  Owner'[b] = SweptOwners[b]
<1>1. SweptOwners[b] = Owner[b] /\ by_backend' = SweptOwners /\ by_id' = {l \in by_id : Live(l)}
  BY SweptIsOwner DEF IInv, Sweep
<1>2. Owner[b] # NoLease => Owner[b] \in by_id /\ Live(Owner[b])
  BY DEF Owner, Live
<1>3. Live(Owner[b]) /\ Owner[b] \in by_id' => Live(SweptOwners[b])'
  BY <1>1 DEF Live, ExpiredAt, SweptOwners, KeptOwners, Elapsed
<1> QED
  BY <1>1, <1>2 DEF Owner, Live, ExpiredAt

\* The only answers that admit a command that has to have a lease.
LEMMA AdmittedIsActive ==
  ASSUME NEW b, NEW l, Verdict(b, l, TRUE) = "ok"
  PROVE  l = SweptOwners[b]
  BY DEF Verdict

\* A command is admitted with the lease that owns the backend at that moment, and
\* without one only at a backend nobody owns.
THEOREM AdmittedOwns == Spec => AdmissionSound
<1>1. ASSUME IInv, NEW b \in Backends, NEW l \in LeaseIds \cup {NoLease},
             ValidateCommandLease(b, l, TRUE), check'.verdict = "ok"
      PROVE  Owner'[b] = l
  <2>1. Verdict(b, l, TRUE) = "ok" /\ Sweep /\ UNCHANGED <<now, record>>
    BY <1>1 DEF ValidateCommandLease
  <2> QED
    BY <1>1, <2>1, AdmittedIsActive, OwnerAfterSweep
<1>2. IInv =>
        [\A b \in Backends, l \in LeaseIds \cup {NoLease} :
           /\ ValidateCommandLease(b, l, TRUE)
           /\ check'.verdict = "ok"
           => Owner'[b] = l]_vars
  BY <1>1
<1> QED
  BY <1>2, Invariant, PTL DEF AdmissionSound, Spec

-----------------------------------------------------------------------------
(***************************************************************************)
(* Refinement.  Everything but acquire() leaves an owner alone or takes it *)
(* away, and acquire() changes only the backend it was called for.         *)
(***************************************************************************)
LEMMA LoseStep ==
  ASSUME \A b \in Backends : Owner'[b] \in {Owner[b], NoLease}, Spent' = Spent
  PROVE  Abstract!Next
<1> DEFINE S == {b \in Backends : Owner'[b] = NoLease}
<1>1. Owner' = [b \in Backends |-> IF b \in S THEN NoLease ELSE Owner[b]]
  BY DEF Owner
<1>2. Abstract!Lose(S)
  BY <1>1 DEF Abstract!Lose
<1> QED
  BY <1>2 DEF Abstract!Next

\* Dropping leases, with or without the sweep, only takes owners away.
LEMMA DropStep ==
  ASSUME IInv, NEW D, by_id' = KeptIds(D), by_backend' = KeptOwners(D),
         UNCHANGED <<now, record>>
  PROVE  \A b \in Backends : Owner'[b] \in {Owner[b], NoLease}
  BY DropAgrees DEF IInv, Owner, Live, ExpiredAt, MapsAgree

LEMMA FinishStep ==
  ASSUME IInv, NEW c \in Callers, FinishAcquire(c)
  PROVE  Abstract!Next
<1> USE DEF IInv
<1> DEFINE p == pending[c]
           bk == p.rec.backend
<1>1. p \in Acquiring /\ bk \in Backends /\ p.lease \in LeaseIds /\ p.lease \in drawn \ by_id
  BY DEF FinishAcquire, TypeOK, PendingFresh, Acquiring, Record
<1>2. pending'[c] = Idle /\ \A d \in Callers : d # c => pending'[d] = pending[d]
  BY DEF FinishAcquire, TypeOK
<1>3. InAcquire' = InAcquire \ {p.lease} /\ p.lease \in InAcquire
  <2>1. \A d \in Callers : d # c /\ pending[d] # Idle => pending[d].lease # p.lease
    BY DEF FinishAcquire, PendingFresh
  <2> QED
    BY <1>2, <2>1 DEF FinishAcquire, InAcquire
<1>4. Spent' = Spent \cup {p.lease} /\ p.lease \notin Spent
  BY <1>1, <1>3 DEF FinishAcquire, Spent
<1>5. CASE Conflict(p)
  <2>1. by_id' = SweptIds /\ by_backend' = SweptOwners /\ UNCHANGED <<now, record>>
    BY <1>5 DEF FinishAcquire, Sweep
  <2>2. by_backend' = Owner /\ by_id' = {l \in by_id : Live(l)}
    BY <2>1, SweptIsOwner
  <2>3. ASSUME NEW b \in Backends PROVE Owner'[b] = Owner[b]
    BY <2>1, <2>2 DEF Owner, Live, ExpiredAt
  <2>4. Owner' = Owner
    BY <2>3 DEF Owner
  <2> QED
    BY <1>1, <1>4, <2>4 DEF Abstract!Next, Abstract!Discard
<1>6. CASE ~Conflict(p)
  <2>1. /\ by_backend' = [SweptOwners EXCEPT ![bk] = p.lease]
        /\ by_id' = SweptIds \cup {p.lease}
        /\ record' = [record EXCEPT ![p.lease] = p.rec]
        /\ now' = now
    BY <1>6 DEF FinishAcquire
  <2>2. Owner[bk] = NoLease
    BY <1>6, ConflictMeansOwned DEF FinishAcquire
  <2>3. SweptOwners = Owner /\ SweptIds = {l \in by_id : Live(l)}
    BY SweptIsOwner
  <2>4. ASSUME NEW b \in Backends, b # bk PROVE Owner'[b] = Owner[b]
    <3>1. by_backend'[b] = Owner[b]
      BY <2>1, <2>3, <2>4 DEF Owner
    <3>2. CASE Owner[b] = NoLease
      BY <3>1, <3>2 DEF Owner
    <3>3. CASE Owner[b] # NoLease
      <4>1. Owner[b] \in SweptIds /\ Owner[b] \in by_id /\ ~ExpiredAt(Owner[b], now)
        BY <2>3, <3>3 DEF Owner, Live
      <4>2. Owner[b] # p.lease
        BY <1>1, <4>1
      <4>3. record'[Owner[b]] = record[Owner[b]]
        BY <2>1, <4>1, <4>2 DEF TypeOK
      <4>4. Owner[b] \in by_id' /\ ~(now' >= record'[Owner[b]].expires)
        BY <2>1, <4>1, <4>3 DEF ExpiredAt
      <4> QED
        BY <3>1, <3>3, <4>4 DEF Owner, Live, ExpiredAt
    <3> QED
      BY <3>2, <3>3
  <2>5. by_backend'[bk] = p.lease
    BY <1>1, <2>1, KeptTyped DEF SweptOwners
  <2>6. Owner'[bk] \in {p.lease, NoLease}
    BY <1>1, <2>5 DEF Owner
  <2>7. CASE Owner'[bk] = p.lease
    <3>1. Owner' = [Owner EXCEPT ![bk] = p.lease]
      BY <1>1, <2>4, <2>7 DEF Owner
    <3> QED
      BY <1>1, <1>4, <2>2, <3>1 DEF Abstract!Next, Abstract!Grant
  <2>8. CASE Owner'[bk] = NoLease
    <3>1. Owner' = Owner
      BY <2>2, <2>4, <2>8 DEF Owner
    <3> QED
      BY <1>1, <1>4, <3>1 DEF Abstract!Next, Abstract!Discard
  <2> QED
    BY <2>6, <2>7, <2>8
<1> QED
  BY <1>5, <1>6

LEMMA StepRefines == IInv /\ IInv' /\ [Next]_vars => [Abstract!Next]_(Abstract!vars)
<1> SUFFICES ASSUME IInv, IInv', Next
             PROVE  Abstract!Next
  <2>1. UNCHANGED vars => UNCHANGED Abstract!vars
    BY DEF vars, Abstract!vars, Owner, Spent, InAcquire, Live, ExpiredAt
  <2> QED
    BY <2>1
<1> USE DEF IInv
<1>1. CASE Tick
  <2>1. now \in Nat /\ now' = now + 1 /\ UNCHANGED <<by_backend, by_id, record, drawn, pending>>
    BY <1>1 DEF Tick, TypeOK
  <2>2. ASSUME NEW b \in Backends PROVE Owner'[b] \in {Owner[b], NoLease}
    <3>1. CASE by_backend[b] = NoLease
      BY <2>1, <3>1 DEF Owner
    <3>2. CASE by_backend[b] # NoLease
      <4>1. record[by_backend[b]].expires \in Int
        BY <3>2 DEF TypeOK, Record
      <4>2. ExpiredAt(by_backend[b], now) => now + 1 >= record[by_backend[b]].expires
        BY <2>1, <4>1 DEF ExpiredAt
      <4> QED
        BY <2>1, <4>2 DEF Owner, Live, ExpiredAt
    <3> QED
      BY <3>1, <3>2
  <2>3. Spent' = Spent
    BY <2>1 DEF Spent, InAcquire
  <2> QED
    BY <2>2, <2>3, LoseStep
<1>2. ASSUME NEW c \in Callers, NEW b \in Backends, NEW m \in Modes, NEW s \in Seconds,
             NEW l \in LeaseIds, BeginAcquire(c, b, m, s, l)
      PROVE  Abstract!Next
  <2>1. Owner' = Owner
    BY <1>2 DEF BeginAcquire, Owner, Live, ExpiredAt
  <2>2. pending'[c] # Idle /\ pending'[c].lease = l /\ \A d \in Callers : d # c => pending'[d] = pending[d]
    <3>1. pending'[c] \in Acquiring
      <4>1. pending'[c] = [lease |-> l, read_at |-> now,
               rec |-> [backend |-> b, mode |-> m, expires |-> now + OrDefault(s, m)]]
        BY <1>2 DEF BeginAcquire, TypeOK
      <4> QED
        BY <4>1, OrDefaultInt DEF Acquiring, Record, TypeOK
    <3> QED
      BY <1>2, <3>1, IdleAssumption DEF BeginAcquire, TypeOK
  <2>3. InAcquire' = InAcquire \cup {l}
    BY <1>2, <2>2 DEF BeginAcquire, InAcquire
  <2>4. Spent' = Spent
    BY <1>2, <2>3 DEF BeginAcquire, Spent
  <2> QED
    BY <2>1, <2>4, LoseStep
<1>3. ASSUME NEW c \in Callers, FinishAcquire(c)
      PROVE  Abstract!Next
  BY <1>3, FinishStep
<1>4. ASSUME NEW D, by_id' = KeptIds(D), by_backend' = KeptOwners(D),
             UNCHANGED <<now, record, drawn, pending>>
      PROVE  Abstract!Next
  <2>1. Spent' = Spent
    BY <1>4 DEF Spent, InAcquire
  <2> QED
    BY <1>4, <2>1, DropStep, LoseStep
<1>5. ASSUME NEW l \in LeaseIds, NEW s \in Seconds, Heartbeat(l, s)
      PROVE  Abstract!Next
  <2>1. by_id' = {k \in by_id : Live(k)} /\ by_backend' = Owner
        /\ UNCHANGED <<now, drawn, pending>>
    BY <1>5, SweptIsOwner DEF Heartbeat, Sweep
  <2>2. \A b \in Backends : Owner'[b] \in {Owner[b], NoLease}
    BY <2>1 DEF Owner
  <2>3. Spent' = Spent
    BY <2>1 DEF Spent, InAcquire
  <2> QED
    BY <2>2, <2>3, LoseStep
<1>6. ASSUME NEW l \in LeaseIds, Release(l)
      PROVE  Abstract!Next
  BY <1>4, <1>6 DEF Release
<1>7. ASSUME NEW b \in Backends, ReleaseBackend(b)
      PROVE  Abstract!Next
  BY <1>4, <1>7 DEF ReleaseBackend, DropWithSweep
<1>8. CASE Observe
  BY <1>4, <1>8 DEF Observe, Sweep, SweptIds, SweptOwners
<1>9. ASSUME NEW b \in Backends, NEW l \in LeaseIds \cup {NoLease}, NEW r \in BOOLEAN,
             ValidateCommandLease(b, l, r)
      PROVE  Abstract!Next
  BY <1>4, <1>9 DEF ValidateCommandLease, Sweep, SweptIds, SweptOwners
<1> QED
  BY <1>1, <1>2, <1>3, <1>5, <1>6, <1>7, <1>8, <1>9 DEF Next

\* The lease table implements the exclusive lock: a backend gets a new owner
\* only while it has none, and a lost lease never owns a backend again
\* (docs/EXECUTION_MODES.md section 4.2, lease_manager.py).
THEOREM TableImplementsLock == Spec => ImplementsExclusiveLease
<1>1. Init => Abstract!Init
  BY DEF Init, Abstract!Init, Owner, Spent, InAcquire
<1>2. IInv /\ IInv' /\ [Next]_vars => [Abstract!Next]_(Abstract!vars)
  BY StepRefines
<1> QED
  BY <1>1, <1>2, Invariant, PTL DEF Spec, ImplementsExclusiveLease, Abstract!Spec

=============================================================================
