---------------------------- MODULE Bench_proofs -----------------------------
(*****************************************************************************)
(* The bench and, at a finer grain, a teleoperation session on it: each has  *)
(* the variables and the invariant of its own.                               *)
(*****************************************************************************)
EXTENDS BenchHost, TeleopSession, WellFoundedInduction, FiniteSetTheorems, TLAPS

(*****************************************************************************)
(* BenchHost.  The safety of one bench for every set of components, storage  *)
(* cells and commands.                                                       *)
(*****************************************************************************)
\* A nonempty set of numbers has a least one.
LEMMA LeastNumber ==
  ASSUME NEW S \in SUBSET Nat, S # {}
  PROVE  \E n \in S : \A m \in S : n <= m
<1> DEFINE less == {ss \in Nat \X Nat : ss[1] < ss[2]}
<1>1. less = OpToRel(<, Nat)
  BY Zenon DEF OpToRel
<1>2. IsWellFoundedOn(less, Nat)
  BY <1>1, NatLessThanWellFounded, Zenon
<1>3. PICK n \in S : \A m \in S : ~ (<<m, n>> \in less)
  <2> HIDE DEF less
  <2> QED
    BY <1>2, WFMin, Zenon
<1>4. ASSUME NEW m \in S PROVE n <= m
  <2>1. <<m, n>> \notin less
    BY <1>3, Zenon
  <2>2. <<m, n>> \in Nat \X Nat /\ <<m, n>>[1] = m /\ <<m, n>>[2] = n
    OBVIOUS
  <2>3. ~ (m < n)
    <3> SUFFICES ASSUME m < n PROVE <<m, n>> \in less
      BY <2>1, Zenon
    <3> QED
      BY <2>2
  <2> QED
    BY <2>3
<1> QED
  BY <1>4

\* The first free cell is one of the free ones.
LEMMA FirstFreeIsFree ==
  ASSUME NEW t, FreeSlots(t) # {}
  PROVE  FirstFree(t) \in FreeSlots(t) /\ FirstFree(t) \in Slots
<1>1. FreeSlots(t) \in SUBSET Nat /\ FreeSlots(t) \subseteq Slots
  BY BenchAssumptions DEF FreeSlots
<1>2. \E s \in FreeSlots(t) : \A z \in FreeSlots(t) : s <= z
  BY <1>1, LeastNumber
<1> QED
  BY <1>1, <1>2, Zenon DEF FirstFree

\* A command that gets to its hardware step has a target of the right type.
LEMMA TargetTyped ==
  ASSUME TypeOK, NEW k, NEW t \in Tags, ~Refused(k, t)
  PROVE  Target(k, t) \in Slots \cup {None}
<1>1. k \in {"store", "repack"} => FreeSlots(t) # {}
  BY DEF Refused
<1> QED
  BY <1>1, FirstFreeIsFree DEF Target, TypeOK, Part

\* Components keep their types when one of them is put somewhere.
LEMMA PutTyped ==
  ASSUME TypeOK, NEW t \in Tags, NEW s \in Slots \cup {None},
         NEW presence \in {"breadboard", "storage"}, Put(t, presence, s)
  PROVE  parts' \in [Tags -> Part]
  BY DEF TypeOK, Put, Part

LEMMA FreeTyped == Free \in Request
  BY DEF Free, Command, Request

\* A command on its way has a kind, a component, and a cell or none.
LEMMA RequestTyped ==
  ASSUME TypeOK, NEW r \in Requests, request[r].at # "free"
  PROVE  /\ request[r] \in Request
         /\ request[r].kind \in AllKinds
         /\ request[r].tag \in Tags
         /\ request[r].slot \in Slots \cup {None}
  BY DEF TypeOK, Request, Free, Command

-----------------------------------------------------------------------------
\* The variables have their types.
LEMMA TypeInit == Init => TypeOK
  BY FreeTyped DEF Init, TypeOK, Part, Statuses, Troubles

LEMMA WorseTyped ==
  ASSUME TypeOK, NEW bad, Worse(bad)
  PROVE  trouble' \in Troubles
  BY DEF TypeOK, Worse, Troubles

LEMMA TypeStep == TypeOK /\ [Next]_vars => TypeOK'
<1> SUFFICES ASSUME TypeOK, [Next]_vars PROVE TypeOK'
  OBVIOUS
<1> USE FreeTyped
<1>1. ASSUME NEW r \in Requests, NEW k \in Kinds, NEW t \in Tags, Post(r, k, t) PROVE TypeOK'
  <2>1. Command("posted", k, t, None, FALSE) \in Request
    BY BenchAssumptions DEF Command, Request
  <2> QED
    BY <1>1, <2>1 DEF Post, TypeOK, holding
<1>2. ASSUME NEW r \in Requests, Refuse(r) PROVE TypeOK'
  BY <1>2 DEF Refuse, TypeOK, holding
<1>3. ASSUME NEW r \in Requests, Begin(r) PROVE TypeOK'
  <2> DEFINE k == request[r].kind  t == request[r].tag
  <2>1. /\ request' = [request EXCEPT ![r] = Command("moving", k, t, Target(k, t), HeldMode(k))]
        /\ ~Refused(k, t) /\ request[r].at = "posted"
    BY <1>3 DEF Begin
  <2>2. k \in AllKinds /\ t \in Tags /\ Target(k, t) \in Slots \cup {None}
    BY <2>1, RequestTyped, TargetTyped
  <2>3. HeldMode(k) \in BOOLEAN
    BY DEF HeldMode
  <2>4. Command("moving", k, t, Target(k, t), HeldMode(k)) \in Request
    BY <2>2, <2>3 DEF Command, Request
  <2>5. trouble' \in Troubles
    BY <1>3, WorseTyped DEF Begin
  <2>6. status' \in Statuses /\ UNCHANGED <<holding, parts, teleop, gripper>>
    BY <1>3 DEF Begin, Statuses
  <2> QED
    BY <2>1, <2>4, <2>5, <2>6 DEF TypeOK, holding
<1>4. ASSUME NEW r \in Requests, Affirm(r) PROVE TypeOK'
  <2>1. request[r].tag \in Tags /\ Put(request[r].tag, "breadboard", None)
    BY <1>4, RequestTyped DEF Affirm
  <2>2. parts' \in [Tags -> Part] /\ trouble' \in Troubles
    BY <1>4, <2>1, PutTyped, WorseTyped DEF Affirm
  <2> QED
    BY <1>4, <2>2 DEF Affirm, TypeOK, holding
<1>5. ASSUME NEW r \in Requests, Confirm(r) PROVE TypeOK'
  BY <1>5, RequestTyped, WorseTyped DEF Confirm, TypeOK, holding
<1>6. ASSUME NEW r \in Requests, Remove(r) PROVE TypeOK'
  BY <1>6, RequestTyped, WorseTyped DEF Remove, TypeOK, holding, Part
<1>7. ASSUME NEW r \in Requests, Picks(r) PROVE TypeOK'
  BY <1>7, RequestTyped DEF Picks, Grasped, TypeOK, holding, Statuses
<1>8. ASSUME NEW r \in Requests, Hovers(r) PROVE TypeOK'
  BY <1>8, RequestTyped DEF Hovers, Grasped, TypeOK, holding, Statuses
<1>9. ASSUME NEW r \in Requests, Places(r) PROVE TypeOK'
  <2>1. request[r].tag \in Tags /\ Put(request[r].tag, "breadboard", None)
    BY <1>9, RequestTyped DEF Places
  <2>2. parts' \in [Tags -> Part]
    BY <2>1, PutTyped
  <2> QED
    BY <1>9, <2>2 DEF Places, Released, TypeOK, holding, Statuses
<1>10. ASSUME NEW r \in Requests, Moved(r) PROVE TypeOK'
  <2>1. /\ request[r].tag \in Tags /\ request[r].slot \in Slots \cup {None}
        /\ \/ Put(request[r].tag, "breadboard", None)
           \/ Put(request[r].tag, "storage", request[r].slot)
    BY <1>10, RequestTyped DEF Moved
  <2>2. parts' \in [Tags -> Part]
    BY <2>1, PutTyped
  <2> QED
    BY <1>10, <2>2 DEF Moved, TypeOK, holding, Statuses
<1>11. ASSUME NEW r \in Requests, Stops(r) PROVE TypeOK'
  BY <1>11 DEF Stops, StatusAfter, TypeOK, holding, Statuses
<1>12. ASSUME NEW r \in Requests, Fails(r) PROVE TypeOK'
  <2>1. gripper' \in Tags \cup {None} /\ trouble' \in Troubles
    BY <1>12, RequestTyped, WorseTyped DEF Fails, TypeOK
  <2> QED
    BY <1>12, <2>1 DEF Fails, StatusAfter, TypeOK, holding, Statuses
<1>13. ASSUME NEW t \in Tags, StartTeleop(t) PROVE TypeOK'
  BY <1>13, WorseTyped DEF StartTeleop, Synced, TypeOK, holding, Statuses
<1>14. ASSUME NEW t \in Tags, TeleopReady(t) PROVE TypeOK'
  BY <1>14 DEF TeleopReady, TypeOK, holding
<1>15. ASSUME NEW t \in Tags, EndTeleop(t) PROVE TypeOK'
  BY <1>15, WorseTyped DEF EndTeleop, Synced, TypeOK, holding, Statuses
<1>16. ASSUME NEW t \in Tags, Untrack(t) PROVE TypeOK'
  BY <1>16, WorseTyped DEF Untrack, TypeOK, holding, Statuses, Part
<1>17. ASSUME NEW t \in Tags, Track(t) \/ AddStored(t) PROVE TypeOK'
  <2>1. CASE Track(t)
    BY <2>1 DEF Track, TypeOK, holding, Part
  <2>2. CASE AddStored(t)
    BY <2>2, FirstFreeIsFree, WorseTyped DEF AddStored, TypeOK, holding, Part
  <2> QED
    BY <1>17, <2>1, <2>2
<1>18. ASSUME Restart PROVE TypeOK'
  BY <1>18, WorseTyped DEF Restart, Boot, TypeOK, holding, Statuses, Troubles
<1>19. CASE UNCHANGED vars
  BY <1>19 DEF vars, holding, TypeOK
<1> QED
  BY <1>1, <1>2, <1>3, <1>4, <1>5, <1>6, <1>7, <1>8, <1>9, <1>10, <1>11, <1>12,
     <1>13, <1>14, <1>15, <1>16, <1>17, <1>18, <1>19 DEF Next, Runs, Ends

\* The variables have their types.
THEOREM BenchTyped == Spec => []TypeOK
  BY TypeInit, TypeStep, PTL DEF Spec

-----------------------------------------------------------------------------
\* What a step does to the set of the commands in their hardware step.
LEMMA MovingUpdate ==
  ASSUME TypeOK, NEW r \in Requests, NEW c, request' = [request EXCEPT ![r] = c]
  PROVE  /\ c.at = "moving" => Moving' = Moving \cup {r}
         /\ c.at # "moving" => Moving' = Moving \ {r}
         /\ request'[r] = c
         /\ \A s \in Requests \ {r} : request'[s] = request[s]
  BY DEF TypeOK, Moving

LEMMA FreeMoves == Free.at # "moving"
  BY DEF Free, Command

\* Only a restart in a hardware step makes the trouble a cut.
LEMMA WorseNotCut ==
  ASSUME TypeOK, NEW bad, Worse(bad)
  PROVE  trouble' = "cut" <=> trouble = "cut"
  BY DEF Worse

\* Nothing bad has come with a step that leaves no trouble.
LEMMA WorseNone ==
  ASSUME TypeOK, NEW bad, Worse(bad), trouble' = "none"
  PROVE  trouble = "none" /\ ~bad
  BY DEF Worse

\* A busy status is somebody's hardware step.
LEMMA BusyInit == Init => BusyIsBacked
  BY DEF Init, BusyIsBacked, Busy

LEMMA BusyStep == TypeOK /\ BusyIsBacked /\ [Next]_vars => BusyIsBacked'
<1> SUFFICES ASSUME TypeOK, BusyIsBacked, [Next]_vars PROVE BusyIsBacked'
  OBVIOUS
<1> USE FreeMoves DEF BusyIsBacked, Busy
<1>1. ASSUME NEW r \in Requests, NEW k \in Kinds, NEW t \in Tags, Post(r, k, t)
      PROVE BusyIsBacked'
  <2>1. Moving' = Moving \ {r} /\ r \notin Moving
    BY <1>1, MovingUpdate DEF Post, Command, Moving
  <2> QED
    BY <1>1, <2>1 DEF Post
<1>2. ASSUME NEW r \in Requests, Refuse(r) PROVE BusyIsBacked'
  <2>1. Moving' = Moving \ {r} /\ r \notin Moving
    BY <1>2, MovingUpdate DEF Refuse, Moving
  <2> QED
    BY <1>2, <2>1 DEF Refuse
<1>3. ASSUME NEW r \in Requests, Begin(r) PROVE BusyIsBacked'
  <2> DEFINE c == Command("moving", request[r].kind, request[r].tag,
                          Target(request[r].kind, request[r].tag), HeldMode(request[r].kind))
  <2>1. request' = [request EXCEPT ![r] = c]
    BY <1>3 DEF Begin
  <2>2. c.at = "moving"
    BY DEF Command
  <2> HIDE DEF c
  <2> QED
    BY <2>1, <2>2, MovingUpdate
<1>4. ASSUME NEW r \in Requests, Affirm(r) \/ Confirm(r) \/ Remove(r) PROVE BusyIsBacked'
  <2>1. Moving' = Moving \ {r} /\ r \notin Moving
    BY <1>4, MovingUpdate DEF Affirm, Confirm, Remove, Moving
  <2>2. status' = status /\ (trouble' = "cut" <=> trouble = "cut")
    BY <1>4, WorseNotCut DEF Affirm, Confirm, Remove
  <2> QED
    BY <2>1, <2>2
<1>5. ASSUME NEW r \in Requests, Ends(r) PROVE BusyIsBacked'
  BY <1>5 DEF Ends, Picks, Hovers, Places, Moved, Stops, Fails, Grasped, Released, StatusAfter
<1>6. ASSUME NEW t \in Tags, StartTeleop(t) \/ EndTeleop(t) PROVE BusyIsBacked'
  BY <1>6 DEF StartTeleop, EndTeleop, Synced
<1>7. ASSUME NEW t \in Tags, TeleopReady(t) \/ Track(t) PROVE BusyIsBacked'
  BY <1>7 DEF TeleopReady, Track, Moving
<1>8. ASSUME NEW t \in Tags, Untrack(t) \/ AddStored(t) PROVE BusyIsBacked'
  <2>1. trouble' = "cut" <=> trouble = "cut"
    BY <1>8, WorseNotCut DEF Untrack, AddStored
  <2> QED
    BY <1>8, <2>1 DEF Untrack, AddStored, Moving, holding
<1>9. ASSUME Restart PROVE BusyIsBacked'
  <2>1. Moving = {} => (trouble' = "cut" <=> trouble = "cut")
    BY <1>9, WorseNotCut DEF Restart
  <2> QED
    BY <1>9, <2>1 DEF Restart, Boot
<1>10. CASE UNCHANGED vars
  BY <1>10 DEF vars, holding, Moving
<1> QED
  BY <1>1, <1>2, <1>3, <1>4, <1>5, <1>6, <1>7, <1>8, <1>9, <1>10 DEF Next, Runs

\* A busy status is somebody's hardware step, so it ends, however commands and
\* sessions overlap; only a process that dies in a step leaves one behind.
THEOREM BusyStatusEnds == Spec => []BusyIsBacked
  BY TypeInit, TypeStep, BusyInit, BusyStep, PTL DEF Spec

-----------------------------------------------------------------------------
\* Two sessions would be two components.
SameSession == \A t, u \in InTeleop : t = u

LEMMA SameIsOne == SameSession => OneTeleop
<1> SUFFICES ASSUME SameSession PROVE Cardinality(InTeleop) <= 1
  BY DEF OneTeleop
<1>1. CASE InTeleop = {}
  BY <1>1, FS_EmptySet
<1>2. CASE InTeleop # {}
  <2>1. PICK t \in InTeleop : InTeleop = {t}
    BY <1>2 DEF SameSession
  <2> QED
    BY <2>1, FS_Singleton
<1> QED
  BY <1>1, <1>2

LEMMA SessionStep == TypeOK /\ SameSession /\ [Next]_vars => SameSession'
<1> SUFFICES ASSUME TypeOK, SameSession, [Next]_vars PROVE SameSession'
  OBVIOUS
<1> USE DEF SameSession, InTeleop, TypeOK
<1>1. ASSUME NEW t \in Tags, StartTeleop(t) PROVE SameSession'
  BY <1>1 DEF StartTeleop, MayStart
<1>2. ASSUME NEW t \in Tags, TeleopReady(t) PROVE SameSession'
  BY <1>2 DEF TeleopReady
<1>3. ASSUME NEW t \in Tags, teleop' = [teleop EXCEPT ![t] = "off"] PROVE SameSession'
  BY <1>3
<1>4. CASE UNCHANGED teleop
  BY <1>4
<1>5. CASE \E t \in Tags : EndTeleop(t) \/ Untrack(t)
  BY <1>3, <1>5 DEF EndTeleop, Untrack
<1>6. ASSUME NEW r \in Requests, Runs(r) PROVE SameSession'
  <2>1. CASE Remove(r)
    BY <1>3, <2>1, RequestTyped DEF Remove
  <2> QED
    BY <1>4, <1>6, <2>1 DEF Runs, Refuse, Begin, Affirm, Confirm
<1>7. ASSUME NEW r \in Requests, Ends(r) PROVE SameSession'
  BY <1>4, <1>7 DEF Ends, Picks, Hovers, Places, Moved, Stops, Fails
<1>8. CASE Restart \/ \E t \in Tags : Track(t) \/ AddStored(t)
  BY <1>4, <1>8 DEF Restart, Track, AddStored
<1>9. ASSUME NEW r \in Requests, NEW k \in Kinds, NEW t \in Tags, Post(r, k, t) PROVE SameSession'
  BY <1>4, <1>9 DEF Post
<1> QED
  BY <1>1, <1>2, <1>4, <1>5, <1>6, <1>7, <1>8, <1>9 DEF Next, vars

\* At most one component is teleoperated, across starts that are repeated,
\* setups that fail, restarts and parts that come and go.
THEOREM OneSession == Spec => []OneTeleop
<1>1. Init => SameSession
  BY DEF Init, SameSession, InTeleop
<1> QED
  BY <1>1, TypeInit, TypeStep, SessionStep, SameIsOne, PTL DEF Spec

-----------------------------------------------------------------------------
\* The order in which a bench is kept until something goes wrong from outside.

\* The commands that find the part they are about in the gripper
Carries(q) == q.kind \in {"hover", "place_from_hover"} \/ q.held_mode

\* A command in its hardware step: the gripper is as the step needs it, and
\* the cell it goes for is not taken.
Fits(q) ==
  /\ q.kind \notin Instant
  /\ gripper = IF Carries(q) THEN q.tag ELSE None
  /\ q.held_mode => q.kind = "scan_rotate"
  /\ q.kind \in {"store", "repack", "recenter"} =>
       \A u \in Tags \ {q.tag} : Stored(u) => parts[u].slot # q.slot

\* Commands run one at a time, under a busy status.
OneAtATime ==
  /\ \A r, s \in Moving : r = s
  /\ Moving # {} => Busy /\ ~unconfirmed
  /\ \A r \in Moving : Fits(request[r])

\* The holding block and the gripper, during a hardware step as well.
Truth ==
  /\ held = IF unconfirmed THEN None ELSE gripper
  /\ unconfirmed => gripper # None
  /\ gripper # None => status \in {"HOLDING", "TELEOP"} \/ Moving # {}
  /\ status = "HOLDING" => gripper # None

Distinct == \A t, u \in Tags : Stored(t) /\ Stored(u) /\ t # u => parts[t].slot # parts[u].slot

Orderly == OneAtATime /\ Truth /\ Distinct

InOrder == trouble = "none" => Orderly

LEMMA InOrderImplies == TypeOK /\ InOrder => HoldingTruth /\ ArmFree /\ SlotsDistinct
<1> SUFFICES ASSUME TypeOK, InOrder, trouble = "none"
             PROVE  HoldingTruth /\ ArmFree /\ SlotsDistinct
  BY DEF HoldingTruth, ArmFree, SlotsDistinct
<1>1. HoldingTruth
  BY DEF HoldingTruth, InOrder, Orderly, Truth
<1>2. ArmFree
  BY DEF ArmFree, InOrder, Orderly, OneAtATime, Fits, Carries, Moves
<1>3. SlotsDistinct
  BY DEF SlotsDistinct, InOrder, Orderly, Distinct
<1> QED
  BY <1>1, <1>2, <1>3

LEMMA OrderInit == Init => InOrder
<1> SUFFICES ASSUME Init PROVE Orderly
  BY DEF InOrder
<1>1. Moving = {}
  BY FreeMoves DEF Init, Moving
<1> QED
  BY <1>1 DEF Init, Orderly, OneAtATime, Truth, Distinct, Stored

\* What a step keeps that changes nothing the order is about.
LEMMA OrderKept ==
  ASSUME Orderly, Moving' = Moving, \A r \in Moving : request'[r] = request[r],
         UNCHANGED <<status, holding, parts, gripper>>
  PROVE  Orderly'
  BY DEF Orderly, OneAtATime, Truth, Distinct, Fits, Carries, Busy, Stored, holding

\* The step of the only command in its hardware step ends.
LEMMA OrderEnd ==
  ASSUME TypeOK, OneAtATime, NEW r \in Requests, request[r].at = "moving",
         request' = [request EXCEPT ![r] = Free]
  PROVE  /\ Moving = {r} /\ Moving' = {}
         /\ OneAtATime'
         /\ Fits(request[r]) /\ ~unconfirmed
<1>1. r \in Moving
  BY DEF Moving
<1>2. Moving = {r}
  BY <1>1 DEF OneAtATime
<1>3. Moving' = {}
  BY <1>2, MovingUpdate, FreeMoves
<1> QED
  BY <1>1, <1>2, <1>3 DEF OneAtATime

\* A component is put where nobody else is.
LEMMA PutDistinct ==
  ASSUME TypeOK, Distinct, NEW t \in Tags, NEW presence \in {"breadboard", "storage"}, NEW s,
         Put(t, presence, s),
         presence = "storage" => \A u \in Tags \ {t} : Stored(u) => parts[u].slot # s
  PROVE  Distinct'
<1>1. CASE ~Present(t)
  BY <1>1 DEF Put, Distinct, Stored
<1>2. CASE Present(t)
  <2>1. /\ parts' = [parts EXCEPT ![t] = [presence |-> presence, slot |-> s]]
        /\ parts \in [Tags -> Part]
    BY <1>2 DEF Put, TypeOK
  <2>2. /\ parts'[t].presence = presence /\ parts'[t].slot = s
        /\ \A u \in Tags \ {t} : parts'[u] = parts[u]
    BY <2>1
  <2> QED
    BY <2>2 DEF Distinct, Stored
<1> QED
  BY <1>1, <1>2

\* A command that is not overtaken begins on a bench at rest, which is as the
\* command needs it.
LEMMA BeginFits ==
  ASSUME TypeOK, Orderly, NEW k \in AllKinds, NEW t \in Tags,
         ~Refused(k, t), ~Overtaken(k, t), k \notin Instant
  PROVE  /\ Moving = {} /\ ~unconfirmed
         /\ Fits(Command("moving", k, t, Target(k, t), HeldMode(k)))
<1>1. status \notin {"BUSY", "OPTIMIZING"} /\ HoldingRules(k, t)
      /\ ~(status = "TELEOP" /\ held # None)
  BY DEF Overtaken, Admitted
<1>2. Moving = {} /\ ~unconfirmed
  BY <1>1 DEF Orderly, OneAtATime, Busy, HoldingRules, Instant
<1>3. held = gripper /\ (gripper # None <=> status = "HOLDING")
  BY <1>1, <1>2 DEF Orderly, Truth
<1> DEFINE q == Command("moving", k, t, Target(k, t), HeldMode(k))
<1>4. q.kind = k /\ q.tag = t /\ q.slot = Target(k, t) /\ q.held_mode = HeldMode(k)
  BY DEF Command
<1>5. HeldMode(k) <=> k = "scan_rotate" /\ status = "HOLDING"
  BY DEF HeldMode
<1>6. gripper = IF Carries(q) THEN q.tag ELSE None
  <2>1. CASE k \in {"hover", "place_from_hover"}
    BY <2>1, <1>1, <1>2, <1>3, <1>4 DEF HoldingRules, Holds, Carries
  <2>2. CASE k = "scan_rotate"
    BY <2>2, <1>1, <1>2, <1>3, <1>4, <1>5 DEF HoldingRules, Holds, Carries
  <2>3. CASE k \notin {"hover", "place_from_hover", "scan_rotate"}
    BY <2>3, <1>1, <1>2, <1>3, <1>4, <1>5 DEF HoldingRules, Carries, Instant
  <2> QED
    BY <2>1, <2>2, <2>3
<1>7. ASSUME k \in {"store", "repack", "recenter"}, NEW u \in Tags \ {t}, Stored(u)
      PROVE  parts[u].slot # Target(k, t)
  <2>1. CASE k \in {"store", "repack"}
    <3>1. FreeSlots(t) # {}
      BY <2>1 DEF Refused
    <3> QED
      BY <1>7, <2>1, <3>1, FirstFreeIsFree DEF Target, FreeSlots
  <2>2. CASE k = "recenter"
    BY <1>7, <2>2 DEF Target, Refused, Orderly, Distinct
  <2> QED
    BY <1>7, <2>1, <2>2
<1> HIDE DEF q
<1> QED
  BY <1>2, <1>4, <1>5, <1>6, <1>7 DEF Fits, q

\* The commands that begin, and those without a hardware step
LEMMA OrderRuns ==
  ASSUME TypeOK, InOrder, NEW r \in Requests, Runs(r), trouble' = "none"
  PROVE  Orderly'
<1> DEFINE k == request[r].kind  t == request[r].tag
<1>1. request[r].at = "posted" /\ k \in AllKinds /\ t \in Tags
  <2>1. request[r].at = "posted"
    BY DEF Runs, Refuse, Begin, Affirm, Confirm, Remove
  <2> QED
    BY <2>1, RequestTyped
<1>2. ASSUME request' = [request EXCEPT ![r] = Free]
      PROVE  Moving' = Moving /\ \A s \in Moving : request'[s] = request[s]
  <2>1. r \notin Moving
    BY <1>1 DEF Moving
  <2> QED
    BY <1>2, <2>1, MovingUpdate, FreeMoves DEF Moving
<1>3. CASE Refuse(r)
  <2>1. Orderly
    BY <1>3 DEF Refuse, InOrder
  <2> QED
    BY <1>2, <1>3, <2>1, OrderKept DEF Refuse
<1>4. CASE Begin(r)
  <2>1. PICK q : q = Command("moving", k, t, Target(k, t), HeldMode(k))
    OBVIOUS
  <2>2. Orderly /\ ~Overtaken(k, t)
    BY <1>4, WorseNone DEF Begin, InOrder
  <2>3. Moving = {} /\ ~unconfirmed /\ Fits(q)
    BY <1>1, <1>4, <2>1, <2>2, BeginFits DEF Begin
  <2>4. q.at = "moving"
    BY <2>1 DEF Command
  <2>5. request' = [request EXCEPT ![r] = q] /\ Busy' /\ UNCHANGED <<holding, parts, gripper>>
    BY <1>4, <2>1 DEF Begin, Busy
  <2>6. Moving' = {r} /\ request'[r] = q
    BY <2>3, <2>4, <2>5, MovingUpdate
  <2>7. Fits(q)'
    BY <2>3, <2>5 DEF Fits, Carries, Stored
  <2>8. OneAtATime'
    BY <2>3, <2>5, <2>6, <2>7 DEF OneAtATime, holding
  <2>9. Truth' /\ Distinct'
    BY <2>2, <2>3, <2>5, <2>6 DEF Orderly, Truth, Distinct, Stored, Busy, holding
  <2> QED
    BY <2>8, <2>9 DEF Orderly
<1>5. CASE Affirm(r)
  <2>1. Orderly /\ Moving = {} /\ UNCHANGED <<status, holding, gripper>>
    BY <1>5, WorseNone DEF Affirm, InOrder
  <2>2. Moving' = {}
    BY <1>2, <1>5, <2>1 DEF Affirm
  <2>3. Distinct'
    BY <1>1, <1>5, <2>1, PutDistinct DEF Affirm, Orderly
  <2> QED
    BY <2>1, <2>2, <2>3 DEF Orderly, OneAtATime, Truth, holding
<1>6. CASE Confirm(r)
  <2>1. Orderly /\ t = gripper /\ status = "HOLDING" /\ UNCHANGED <<status, parts, gripper>>
    BY <1>6, WorseNone DEF Confirm, InOrder, Refused
  <2>2. held' = t /\ unconfirmed' = FALSE /\ Moving = {} /\ Moving' = {}
    BY <1>2, <1>6, <2>1 DEF Confirm, Orderly, OneAtATime, Busy
  <2> QED
    BY <2>1, <2>2 DEF Orderly, OneAtATime, Truth, Distinct, Stored
<1>7. CASE Remove(r)
  <2>1. Orderly /\ ~Overtaken("remove", t) /\ UNCHANGED <<status, holding, gripper>>
    BY <1>7, WorseNone DEF Remove, InOrder
  <2>2. Moving = {} /\ Moving' = {}
    BY <1>2, <1>7, <2>1 DEF Remove, Overtaken, Admitted, Orderly, OneAtATime, Busy
  <2>3. Distinct'
    BY <1>7, <2>1 DEF Remove, Orderly, Distinct, Stored, TypeOK
  <2> QED
    BY <2>1, <2>2, <2>3 DEF Orderly, OneAtATime, Truth, holding
<1> QED
  BY <1>3, <1>4, <1>5, <1>6, <1>7 DEF Runs

\* The end of a hardware step
LEMMA OrderEnds ==
  ASSUME TypeOK, InOrder, NEW r \in Requests, Ends(r), trouble' = "none"
  PROVE  Orderly'
<1> DEFINE q == request[r]  t == request[r].tag
<1>1. q.at = "moving" /\ request' = [request EXCEPT ![r] = Free]
  BY DEF Ends, Picks, Hovers, Places, Moved, Stops, Fails
<1>2. t \in Tags /\ t # None
  BY <1>1, RequestTyped, BenchAssumptions
<1>3. Orderly
  <2>1. trouble = "none"
    BY WorseNone DEF Ends, Picks, Hovers, Places, Moved, Stops, Fails
  <2> QED
    BY <2>1 DEF InOrder
<1>4. /\ Moving = {r} /\ Moving' = {} /\ OneAtATime'
      /\ Fits(q) /\ ~unconfirmed /\ held = gripper
  BY <1>1, <1>3, OrderEnd DEF Orderly, Truth
<1>5. ASSUME NEW presence \in {"breadboard", "storage"}, NEW s, Put(t, presence, s),
             presence = "storage" => s = q.slot /\ q.kind \in {"store", "repack", "recenter"}
      PROVE  Distinct'
  BY <1>2, <1>3, <1>4, <1>5, PutDistinct DEF Orderly, Fits
<1>6. UNCHANGED parts => Distinct'
  BY <1>3 DEF Orderly, Distinct, Stored
<1>7. CASE Picks(r)
  <2>1. Truth'
    BY <1>2, <1>4, <1>7 DEF Picks, Grasped, Truth
  <2> QED
    BY <1>4, <1>6, <1>7, <2>1 DEF Picks, Orderly
<1>8. CASE Hovers(r)
  <2>1. Truth'
    BY <1>2, <1>4, <1>8 DEF Hovers, Grasped, Truth, Fits, Carries
  <2> QED
    BY <1>4, <1>6, <1>8, <2>1 DEF Hovers, Orderly
<1>9. CASE Places(r)
  <2>1. Truth'
    BY <1>9 DEF Places, Released, Truth
  <2>2. Distinct'
    BY <1>5, <1>9 DEF Places
  <2> QED
    BY <1>4, <2>1, <2>2 DEF Orderly
<1>10. CASE Moved(r)
  <2>1. q.kind \in Moves /\ status' = "IDLE" /\ UNCHANGED <<holding, gripper>>
    BY <1>10 DEF Moved
  <2>2. Truth'
    BY <1>4, <2>1 DEF Truth, Fits, Carries, Moves, holding
  <2>3. Distinct'
    BY <1>5, <1>10 DEF Moved, Moves
  <2> QED
    BY <1>4, <2>2, <2>3 DEF Orderly
<1>11. CASE Stops(r)
  <2>1. Truth'
    BY <1>2, <1>4, <1>11 DEF Stops, StatusAfter, Truth, Fits, Carries, holding
  <2> QED
    BY <1>4, <1>6, <1>11, <2>1 DEF Stops, Orderly
<1>12. CASE Fails(r)
  <2>1. gripper' = gripper
    BY <1>12, WorseNone DEF Fails
  <2>2. Truth'
    BY <1>2, <1>4, <1>12, <2>1 DEF Fails, StatusAfter, Truth, Fits, Carries, holding
  <2> QED
    BY <1>4, <1>6, <1>12, <2>2 DEF Fails, Orderly
<1> QED
  BY <1>7, <1>8, <1>9, <1>10, <1>11, <1>12 DEF Ends

\* Sessions and the inventory
LEMMA OrderRest ==
  ASSUME TypeOK, InOrder, NEW t \in Tags, trouble' = "none",
         \/ StartTeleop(t) \/ TeleopReady(t) \/ EndTeleop(t)
         \/ Untrack(t) \/ Track(t) \/ AddStored(t)
  PROVE  Orderly'
<1>1. CASE StartTeleop(t) \/ EndTeleop(t)
  <2>1. Orderly /\ Moving = {} /\ ~unconfirmed /\ UNCHANGED <<holding, parts, request, gripper>>
    BY <1>1, WorseNone DEF StartTeleop, EndTeleop, Interferes, InOrder
  <2>2. status' = "TELEOP" \/ status' = IF held # None THEN "HOLDING" ELSE "IDLE"
    BY <1>1 DEF StartTeleop, EndTeleop, Synced
  <2>3. Moving' = {}
    BY <2>1 DEF Moving
  <2> QED
    BY <2>1, <2>2, <2>3 DEF Orderly, OneAtATime, Truth, Distinct, Stored, holding
<1>2. CASE TeleopReady(t)
  <2>1. Orderly /\ Moving' = Moving
    BY <1>2 DEF TeleopReady, InOrder, Moving
  <2> QED
    BY <1>2, <2>1, OrderKept DEF TeleopReady
<1>3. CASE Untrack(t)
  <2>1. Orderly /\ gripper # t /\ Moving = {} /\ UNCHANGED <<request, gripper>>
    BY <1>3, WorseNone DEF Untrack, InOrder
  <2>2. Moving' = {} /\ held # t
    BY <2>1, BenchAssumptions DEF Moving, Orderly, Truth
  <2>3. UNCHANGED <<status, holding>> /\ Distinct'
    BY <1>3, <2>1, <2>2 DEF Untrack, Orderly, Distinct, Stored, TypeOK
  <2> QED
    BY <2>1, <2>2, <2>3 DEF Orderly, OneAtATime, Truth, holding
<1>4. CASE Track(t)
  <2>1. Orderly /\ UNCHANGED <<status, holding, request, gripper>> /\ Moving' = Moving
    BY <1>4 DEF Track, InOrder, Moving
  <2>2. \A u \in Tags : Stored(u)' => Stored(u) /\ parts'[u] = parts[u]
    BY <1>4 DEF Track, Stored, TypeOK
  <2>3. Distinct' /\ \A r \in Moving : Fits(request[r])'
    BY <2>1, <2>2 DEF Orderly, OneAtATime, Distinct, Fits, Carries
  <2> QED
    BY <2>1, <2>3 DEF Orderly, OneAtATime, Truth, Busy, holding
<1>5. CASE AddStored(t)
  <2>1. Orderly /\ UNCHANGED <<status, holding, request, gripper>> /\ Moving' = Moving
    BY <1>5, WorseNone DEF AddStored, InOrder, Moving
  <2>2. /\ \A u \in Tags \ {t} : parts[u].slot # FirstFree(t) \/ ~Stored(u)
        /\ \A r \in Moving : request[r].slot # FirstFree(t)
    BY <1>5, FirstFreeIsFree, WorseNone DEF AddStored, FreeSlots
  <2>3. /\ \A u \in Tags \ {t} : parts'[u] = parts[u]
        /\ parts'[t].slot = FirstFree(t)
    BY <1>5 DEF AddStored, TypeOK
  <2>4. Distinct'
    BY <2>1, <2>2, <2>3 DEF Orderly, Distinct, Stored
  <2>5. \A r \in Moving : Fits(request[r])'
    BY <2>1, <2>2, <2>3 DEF Orderly, OneAtATime, Fits, Carries, Stored
  <2> QED
    BY <2>1, <2>4, <2>5 DEF Orderly, OneAtATime, Truth, Busy, holding
<1> QED
  BY <1>1, <1>2, <1>3, <1>4, <1>5

LEMMA OrderStep == TypeOK /\ InOrder /\ [Next]_vars => InOrder'
<1> SUFFICES ASSUME TypeOK, InOrder, [Next]_vars, trouble' = "none" PROVE Orderly'
  BY DEF InOrder
<1>1. ASSUME NEW r \in Requests, NEW k \in Kinds, NEW t \in Tags, Post(r, k, t) PROVE Orderly'
  <2> DEFINE c == Command("posted", k, t, None, FALSE)
  <2>1. Orderly /\ request' = [request EXCEPT ![r] = c] /\ request[r].at = "free"
    BY <1>1 DEF Post, InOrder
  <2>2. c.at = "posted"
    BY DEF Command
  <2>3. r \notin Moving
    BY <2>1 DEF Moving
  <2> HIDE DEF c
  <2>4. Moving' = Moving /\ \A s \in Moving : request'[s] = request[s]
    BY <2>1, <2>2, <2>3, MovingUpdate DEF Moving
  <2> QED
    BY <1>1, <2>1, <2>4, OrderKept DEF Post
<1>2. CASE UNCHANGED vars
  <2>1. Orderly /\ Moving' = Moving
    BY <1>2 DEF vars, InOrder, Moving
  <2> QED
    BY <1>2, <2>1, OrderKept DEF vars
<1>3. CASE Restart
  <2>1. Orderly /\ Moving = {} /\ UNCHANGED <<parts, gripper>>
    BY <1>3, WorseNone DEF Restart, InOrder
  <2>2. Moving' = {}
    BY <1>3, FreeMoves DEF Restart, Moving
  <2>3. Truth'
    BY <1>3, <2>1, <2>2 DEF Restart, Boot, Orderly, Truth
  <2> QED
    BY <2>1, <2>2, <2>3 DEF Orderly, OneAtATime, Distinct, Stored
<1> QED
  BY <1>1, <1>2, <1>3, OrderRuns, OrderEnds, OrderRest DEF Next

LEMMA AlwaysInOrder == Spec => []InOrder
  BY TypeInit, TypeStep, OrderInit, OrderStep, PTL DEF Spec

\* As long as commands come one after the other, no session interferes with
\* one and no failed step moves the gripper: the holding block tells the truth
\* about the gripper between the steps.
THEOREM HoldingIsTrue == Spec => []HoldingTruth
  BY BenchTyped, AlwaysInOrder, InOrderImplies, PTL

\* ... the arm is sent for a part with an empty gripper only ...
THEOREM ArmStartsFree == Spec => []ArmFree
  BY BenchTyped, AlwaysInOrder, InOrderImplies, PTL

\* ... and no two stored parts share a cell.
THEOREM SlotsAreDistinct == Spec => []SlotsDistinct
  BY BenchTyped, AlwaysInOrder, InOrderImplies, PTL

-----------------------------------------------------------------------------
(*****************************************************************************)
(* TeleopSession.  The safety of a session for every number of poses and of  *)
(* setups that run at the same time.                                         *)
(*****************************************************************************)
\* Where the pose that the motion has reached may be, besides the buffer
Grabbed == handler \in {"ending", "stopped"} /\ grabbed = arm
Swept == sweeper = "read" /\ swept = arm
Ending == handler \in {"ending", "stopped"}

\* What the handlers rely on while they are under way.
HandlerSound ==
  /\ handler \in {"going", "readying"} => session = "ready" /\ fresh
  /\ handler = "stopped" => ~target /\ live = NoPose
  /\ handler = "readying" => grabbed \in Poses
  /\ NoGhostMotion

\* No copy of the pose is an old one, and one of them lasts.
PoseSound ==
  /\ live # NoPose => live = arm
  /\ handler = "readying" => grabbed = arm /\ live = NoPose
  /\ Ending => grabbed \in {NoPose, arm}
  /\ sweeper = "read" => swept \in {NoPose, arm}
  /\ recorded = arm \/ live = arm \/ Grabbed \/ Swept
  /\ Ending => recorded = arm \/ Grabbed \/ Swept
  /\ sweeper = "read" => recorded = arm \/ Grabbed \/ Swept
  /\ sweeper = "written" => recorded = arm \/ Grabbed

\* The session, its phase and its buffer go together.
SessionSound ==
  /\ Sweeping => session # "ready"
  /\ session = "ready" /\ handler \notin {"readying", "stopped"} => live # NoPose
  /\ session # "ready" /\ ~Ending /\ ~Sweeping => live = NoPose
  /\ phase = "executing" => session = "ready" /\ handler # "readying"
  /\ phase = "executing" /\ handler \notin {"going", "stopped"}
       => target \/ motion \in {"seen", "arrived"}

\* The inductive invariant
Sound ==
  /\ TeleopTypeOK /\ HandlerSound
  /\ ~raced /\ ~crashed => PoseSound /\ SessionSound

LEMMA SoundImplies ==
  Sound => TeleopTypeOK /\ NoGhostMotion /\ ReadyHasBuffer /\ FinalPose /\ ExecutingMoves
<1> SUFFICES ASSUME Sound PROVE ReadyHasBuffer /\ FinalPose /\ ExecutingMoves
  BY DEF Sound, HandlerSound
<1>1. ReadyHasBuffer
  BY DEF Sound, SessionSound, ReadyHasBuffer
<1>2. FinalPose
  BY TeleopAssumptions
     DEF Sound, TeleopTypeOK, PoseSound, SessionSound, FinalPose, Grabbed, Swept, Ending, Sweeping,
         Poses
<1>3. ExecutingMoves
  BY DEF Sound, SessionSound, ExecutingMoves
<1> QED
  BY <1>1, <1>2, <1>3

\* The values of the flags are flags.
LEMMA Flags == FALSE \in BOOLEAN /\ TRUE \in BOOLEAN
  OBVIOUS

LEMMA TeleopTypeInit == TeleopInit => TeleopTypeOK
<1> SUFFICES ASSUME TeleopInit PROVE TeleopTypeOK
  OBVIOUS
<1>1. /\ fresh \in BOOLEAN /\ target \in BOOLEAN /\ quit \in BOOLEAN
      /\ raced \in BOOLEAN /\ crashed \in BOOLEAN
  BY Zenon, Flags DEF TeleopInit
<1> QED
  BY <1>1, TeleopAssumptions DEF TeleopInit, TeleopTypeOK, Poses

LEMMA TeleopTypeStep == TeleopTypeOK /\ [TeleopNext]_teleopVars => TeleopTypeOK'
<1> SUFFICES ASSUME TeleopTypeOK, [TeleopNext]_teleopVars PROVE TeleopTypeOK'
  OBVIOUS
<1> USE TeleopAssumptions
    DEF TeleopTypeOK, Poses, Recording, lease, buffer, threads, history
<1>1. CASE Start
  BY <1>1 DEF Start
<1>2. CASE SetupReady
  <2>1. fresh' \in BOOLEAN /\ raced' \in BOOLEAN
    BY <1>2, Flags DEF SetupReady
  <2> QED
    BY <1>2, <2>1 DEF SetupReady
<1>3. CASE SetupFails
  BY <1>3 DEF SetupFails
<1>4. CASE SetupTooLate
  BY <1>4 DEF SetupTooLate
<1>5. CASE LiveStart
  <2>1. target' \in BOOLEAN
    BY <1>5, Flags DEF LiveStart
  <2> QED
    BY <1>5, <2>1 DEF LiveStart
<1>6. CASE Goto
  BY <1>6 DEF Goto
<1>7. CASE SetGoto
  BY <1>7 DEF SetGoto
<1>8. CASE End
  BY <1>8 DEF End
<1>9. CASE EndStop
  <2>1. target' \in BOOLEAN
    BY <1>9, Flags DEF EndStop
  <2> QED
    BY <1>9, <2>1 DEF EndStop
<1>10. CASE EndCommit
  BY <1>10 DEF EndCommit
<1>11. CASE Look
  BY <1>11 DEF Look
<1>12. CASE TickGone
  BY <1>12 DEF TickGone
<1>13. CASE Tick
  <2>1. target' \in BOOLEAN /\ raced' \in BOOLEAN
    BY <1>13, Flags DEF Tick
  <2> QED
    BY <1>13, <2>1 DEF Tick
<1>14. CASE MotionIdle
  BY <1>14 DEF MotionIdle
<1>15. CASE Sweep
  BY <1>15 DEF Sweep
<1>16. CASE SweepRead
  BY <1>16 DEF SweepRead
<1>17. CASE SweepWrite
  BY <1>17 DEF SweepWrite
<1>18. CASE SweepStop
  <2>1. target' \in BOOLEAN
    BY <1>18, Flags DEF SweepStop
  <2> QED
    BY <1>18, <2>1 DEF SweepStop
<1>19. CASE Expire
  <2>1. fresh' \in BOOLEAN
    BY <1>19, Flags DEF Expire
  <2> QED
    BY <1>19, <2>1 DEF Expire
<1>20. CASE Quit
  BY <1>20 DEF Quit
<1>21. CASE TeleopRestart
  <2>1. target' \in BOOLEAN /\ crashed' \in BOOLEAN
    BY <1>21, Flags DEF TeleopRestart
  <2> QED
    BY <1>21, <2>1 DEF TeleopRestart
<1>22. CASE UNCHANGED teleopVars
  BY <1>22 DEF teleopVars
<1> QED
  BY <1>1, <1>2, <1>3, <1>4, <1>5, <1>6, <1>7, <1>8, <1>9, <1>10, <1>11, <1>12, <1>13,
     <1>14, <1>15, <1>16, <1>17, <1>18, <1>19, <1>20, <1>21, <1>22
     DEF TeleopNext, Handles, Setup, MotionLoop, Sweeps

\* The invariant besides the types
SoundRest == HandlerSound /\ (~raced /\ ~crashed => PoseSound /\ SessionSound)

LEMMA RestInit == TeleopInit => SoundRest
  BY TeleopAssumptions
     DEF TeleopInit, SoundRest, HandlerSound, PoseSound, SessionSound, NoGhostMotion, Ending,
         Grabbed, Swept, Sweeping

LEMMA RestStep == TeleopTypeOK /\ SoundRest /\ [TeleopNext]_teleopVars => SoundRest'
<1> SUFFICES ASSUME TeleopTypeOK, SoundRest, [TeleopNext]_teleopVars PROVE SoundRest'
  OBVIOUS
<1> USE TeleopAssumptions
    DEF TeleopTypeOK, Poses, SoundRest, HandlerSound, PoseSound, SessionSound, NoGhostMotion,
        Ending, Grabbed, Swept, Sweeping, Recording, Late, lease, buffer, threads, history
<1>1. CASE Start
  BY <1>1 DEF Start
<1>2. CASE SetupReady
  <2>1. HandlerSound'
    BY <1>2 DEF SetupReady
  <2>2. ~raced' /\ ~crashed' => PoseSound'
    BY <1>2 DEF SetupReady
  <2>3. ~raced' /\ ~crashed' => SessionSound'
    BY <1>2 DEF SetupReady
  <2> QED
    BY <2>1, <2>2, <2>3, Zenon DEF SoundRest
<1>3. CASE SetupFails
  BY <1>3 DEF SetupFails
<1>4. CASE SetupTooLate
  BY <1>4 DEF SetupTooLate
<1>5. CASE LiveStart
  <2>1. HandlerSound'
    BY <1>5 DEF LiveStart
  <2>2. ~raced' /\ ~crashed' => PoseSound'
    BY <1>5 DEF LiveStart
  <2>3. ~raced' /\ ~crashed' => SessionSound'
    BY <1>5 DEF LiveStart
  <2> QED
    BY <2>1, <2>2, <2>3, Zenon DEF SoundRest
<1>6. CASE Goto
  BY <1>6 DEF Goto
<1>7. CASE SetGoto
  BY <1>7 DEF SetGoto
<1>8. CASE End
  BY <1>8 DEF End
<1>9. CASE EndStop
  <2>1. HandlerSound'
    BY <1>9 DEF EndStop
  <2>2. ~raced' /\ ~crashed' => PoseSound'
    BY <1>9 DEF EndStop
  <2>3. ~raced' /\ ~crashed' => SessionSound'
    BY <1>9 DEF EndStop
  <2> QED
    BY <2>1, <2>2, <2>3, Zenon DEF SoundRest
<1>10. CASE EndCommit
  BY <1>10 DEF EndCommit
<1>11. CASE Look
  BY <1>11 DEF Look
<1>12. CASE TickGone
  BY <1>12 DEF TickGone
<1>13. CASE Tick
  <2>1. HandlerSound'
    BY <1>13 DEF Tick
  <2>2. ~raced' /\ ~crashed' => PoseSound'
    BY <1>13 DEF Tick
  <2>3. ~raced' /\ ~crashed' => SessionSound'
    BY <1>13 DEF Tick
  <2> QED
    BY <2>1, <2>2, <2>3, Zenon DEF SoundRest
<1>14. CASE MotionIdle
  BY <1>14 DEF MotionIdle
<1>15. CASE Sweep
  BY <1>15 DEF Sweep
<1>16. CASE SweepRead
  BY <1>16 DEF SweepRead
<1>17. CASE SweepWrite
  <2>1. HandlerSound'
    BY <1>17 DEF SweepWrite
  <2>2. ~raced' /\ ~crashed' => PoseSound'
    BY <1>17 DEF SweepWrite
  <2>3. ~raced' /\ ~crashed' => SessionSound'
    BY <1>17 DEF SweepWrite
  <2> QED
    BY <2>1, <2>2, <2>3, Zenon DEF SoundRest
<1>18. CASE SweepStop
  <2>1. HandlerSound'
    BY <1>18 DEF SweepStop
  <2>2. ~raced' /\ ~crashed' => PoseSound'
    BY <1>18 DEF SweepStop
  <2>3. ~raced' /\ ~crashed' => SessionSound'
    BY <1>18 DEF SweepStop
  <2> QED
    BY <2>1, <2>2, <2>3, Zenon DEF SoundRest
<1>19. CASE Expire
  <2>1. HandlerSound'
    BY <1>19 DEF Expire
  <2>2. ~raced' /\ ~crashed' => PoseSound'
    BY <1>19 DEF Expire
  <2>3. ~raced' /\ ~crashed' => SessionSound'
    BY <1>19 DEF Expire
  <2> QED
    BY <2>1, <2>2, <2>3, Zenon DEF SoundRest
<1>20. CASE Quit
  BY <1>20 DEF Quit
<1>21. CASE TeleopRestart
  <2>1. HandlerSound'
    BY <1>21 DEF TeleopRestart
  <2>2. ~raced' /\ ~crashed' => PoseSound'
    BY <1>21 DEF TeleopRestart
  <2>3. ~raced' /\ ~crashed' => SessionSound'
    BY <1>21 DEF TeleopRestart
  <2> QED
    BY <2>1, <2>2, <2>3, Zenon DEF SoundRest
<1>22. CASE UNCHANGED teleopVars
  BY <1>22 DEF teleopVars
<1> QED
  BY <1>1, <1>2, <1>3, <1>4, <1>5, <1>6, <1>7, <1>8, <1>9, <1>10, <1>11, <1>12, <1>13,
     <1>14, <1>15, <1>16, <1>17, <1>18, <1>19, <1>20, <1>21, <1>22
     DEF TeleopNext, Handles, Setup, MotionLoop, Sweeps

LEMMA AlwaysSound == TeleopSpec => []Sound
<1>1. TeleopTypeOK /\ SoundRest <=> Sound
  BY Zenon DEF Sound, SoundRest
<1> QED
  BY <1>1, TeleopTypeInit, TeleopTypeStep, RestInit, RestStep, PTL DEF TeleopSpec

\* The variables have their types.
THEOREM TeleopTyped == TeleopSpec => []TeleopTypeOK
  BY AlwaysSound, SoundImplies, PTL

\* Nothing moves without a session, whatever setups, sweeps, motions and
\* handlers overlap, and through a restart of the process.
THEOREM MotionNeedsSession == TeleopSpec => []NoGhostMotion
  BY AlwaysSound, SoundImplies, PTL

\* A ready session can be steered, unless it has come up during a sweep.
THEOREM ReadySessionsSteer == TeleopSpec => []ReadyHasBuffer
  BY AlwaysSound, SoundImplies, PTL

\* The pose that the motion has reached is in the lab state once the session
\* has ended, by its operator or by the sweeper, unless the arm moved after
\* the pose was read.
THEOREM FinalPoseRecorded == TeleopSpec => []FinalPose
  BY AlwaysSound, SoundImplies, PTL

\* No component is left executing without a motion.
THEOREM NothingExecutesForEver == TeleopSpec => []ExecutingMoves
  BY AlwaysSound, SoundImplies, PTL

=============================================================================
