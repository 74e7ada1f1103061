------------------------------ MODULE BenchHost ------------------------------
(***************************************************************************)
(* One bench: the commands POST /api/command admits                        *)
(* (backend/main.py), the primitives they run                              *)
(* (backend/lab_model/execution/orchestration) and the state of the host   *)
(* they read and write (mock_edge/host/base.py and communicator.py).       *)
(*                                                                         *)
(* A command is admitted by its request, begins as a background task after *)
(* the response and ends when its hardware step does; nothing else happens *)
(* to it in between, and everything may happen to the rest of the bench.   *)
(* Poses, measurables and motor angles are left out.                       *)
(***************************************************************************)
EXTENDS Naturals, FiniteSets

CONSTANTS
  Tags,         \* components, by tag
  Slots,        \* storage cells in row-major order, as numbers
  Requests,     \* at most this many commands between their POST and their end
  Kinds,        \* the primitives the clients send, of AllKinds
  None

Moves == {"move", "store", "place_from_storage", "repack", "recenter"}
InAir == {"pick", "hover", "place_from_hover"}
Instant == {"affirm", "confirm", "remove"}
AllKinds == Moves \cup InAir \cup Instant \cup {"scan_rotate", "move_motor", "optimize"}

ASSUME BenchAssumptions ==
  /\ Slots \subseteq Nat /\ Kinds \subseteq AllKinds
  /\ None \notin Tags /\ None \notin Slots /\ None \notin AllKinds

VARIABLES
  status,       \* system_status
  held,         \* holding.tag_id
  unconfirmed,  \* holding.requires_operator_confirm
  parts,        \* components: presence and storage slot
  teleop,       \* telemetry.teleop of each component
  request,      \* the commands on their way
  gripper,      \* the part that is in the gripper
  trouble       \* history: what has gone wrong from outside so far, see below

holding == <<held, unconfirmed>>
vars == <<status, holding, parts, teleop, request, gripper, trouble>>

Statuses == {"IDLE", "BUSY", "OPTIMIZING", "HOLDING", "TELEOP"}
Part == [presence : {"absent", "breadboard", "storage"}, slot : Slots \cup {None}]
Command(at, kind, tag, slot, held_mode) ==
  [at |-> at, kind |-> kind, tag |-> tag, slot |-> slot, held_mode |-> held_mode]
Free == Command("free", None, None, None, FALSE)
Request == [at : {"posted", "moving"}, kind : AllKinds, tag : Tags,
            slot : Slots \cup {None}, held_mode : BOOLEAN] \cup {Free}

\* "none": commands came one after the other, no teleoperation and no change of
\* the inventory interfered with one, and every failed step left the gripper as
\* it was.  "unruly": not so.
\* "cut": the process died during a hardware step.
Troubles == {"none", "unruly", "cut"}
Worse(bad) == trouble' = IF trouble = "none" /\ bad THEN "unruly" ELSE trouble

TypeOK ==
  /\ status \in Statuses
  /\ held \in Tags \cup {None} /\ unconfirmed \in BOOLEAN
  /\ parts \in [Tags -> Part]
  /\ teleop \in [Tags -> {"off", "pending", "ready"}]
  /\ request \in [Requests -> Request]
  /\ gripper \in Tags \cup {None}
  /\ trouble \in Troubles

Present(t) == parts[t].presence # "absent"
Stored(t) == parts[t].presence = "storage"
InTeleop == {t \in Tags : teleop[t] # "off"}
Moving == {r \in Requests : request[r].at = "moving"}

\* _reconcile_holding_on_boot: a closed gripper under any other status than
\* HOLDING has to be confirmed by the operator; TELEOP counts as IDLE.
Boot(s, h, u) ==
  IF gripper' # None /\ s # "HOLDING"
  THEN status' = "HOLDING" /\ held' = None /\ unconfirmed' = TRUE
  ELSE status' = s /\ held' = h /\ unconfirmed' = u

\* A bench at rest, with an empty gripper or with one part in it.
Init ==
  /\ parts = [t \in Tags |-> [presence |-> "breadboard", slot |-> None]]
  /\ teleop = [t \in Tags |-> "off"]
  /\ request = [r \in Requests |-> Free]
  /\ gripper \in Tags \cup {None}
  /\ status = IF gripper = None THEN "IDLE" ELSE "HOLDING"
  /\ held = None
  /\ unconfirmed = (gripper # None)
  /\ trouble = "none"

-----------------------------------------------------------------------------
\* Admission

\* The part may be the one that is held; None waits for its tag.
Holds(t) == status = "HOLDING" /\ held \in {None, t}

\* Faulty: the commands that do not need a held part are not looked at.
FaultyHoldingRules(k, t) ==
  /\ unconfirmed => k = "confirm"
  /\ ~unconfirmed /\ k \in {"hover", "place_from_hover", "confirm"} => Holds(t)

\* _enforce_holding_rules
HoldingRules(k, t) ==
  /\ unconfirmed => k = "confirm"
  /\ ~unconfirmed =>
     /\ k \in {"hover", "place_from_hover"} => Holds(t)
     /\ k = "scan_rotate" => Holds(t) \/ status = "IDLE"
     /\ k = "confirm" => status = "HOLDING"
     /\ k \notin {"hover", "place_from_hover", "scan_rotate", "confirm"} => status # "HOLDING"

\* The status is checked here and set when the task begins.
Admitted(k, t) == status \notin {"BUSY", "OPTIMIZING"} /\ HoldingRules(k, t)

\* POST /api/command, up to its response.
Post(r, k, t) ==
  /\ request[r].at = "free"
  /\ Admitted(k, t)
  /\ request' = [request EXCEPT ![r] = Command("posted", k, t, None, FALSE)]
  /\ UNCHANGED <<status, holding, parts, teleop, gripper, trouble>>

-----------------------------------------------------------------------------
\* The background task

\* Faulty: the cells of the parts on the breadboard count as occupied.
FaultyFreeSlots(t) ==
  Slots \ {parts[u].slot : u \in {v \in Tags \ {t} : parts[v].presence = "breadboard"}}

\* occupied_slots and find_storage_slot_and_center; every part fits a cell.
FreeSlots(t) == Slots \ {parts[u].slot : u \in {v \in Tags \ {t} : Stored(v)}}
FirstFree(t) == CHOOSE s \in FreeSlots(t) : \A z \in FreeSlots(t) : s <= z

\* refuse_if_teleop_active
InSession(t) == teleop[t] # "off"

\* The refusals each primitive walks through before it touches anything.
Refused(k, t) ==
  \/ k = "pick" /\ (status = "HOLDING" \/ ~Present(t) \/ Stored(t) \/ InSession(t))
  \/ k \in {"hover", "place_from_hover"} /\ (~Holds(t) \/ InSession(t))
  \/ k = "scan_rotate" /\ \/ status = "HOLDING" /\ ~Holds(t)
                          \/ status \notin {"HOLDING", "IDLE"}
                          \/ status = "IDLE" /\ parts[t].presence # "breadboard"
                          \/ InSession(t)
  \/ k = "move" /\ (~Present(t) \/ Stored(t) \/ InSession(t))
  \/ k = "store" /\ (parts[t].presence # "breadboard" \/ InSession(t) \/ FreeSlots(t) = {})
  \/ k = "place_from_storage" /\ (~Stored(t) \/ InSession(t))
  \/ k = "repack" /\ (~Stored(t) \/ FreeSlots(t) = {})
  \/ k \in {"recenter", "affirm"} /\ ~Stored(t)
  \/ k \in {"move_motor", "optimize"} /\ (Stored(t) \/ InSession(t))
  \/ k = "confirm" /\ status # "HOLDING"
  \/ k = "remove" /\ ~Present(t)

Refuse(r) ==
  /\ request[r].at = "posted" /\ Refused(request[r].kind, request[r].tag)
  /\ request' = [request EXCEPT ![r] = Free]
  /\ UNCHANGED <<status, holding, parts, teleop, gripper, trouble>>

\* The primitive does not fit the state it finds: admission would refuse it
\* by now, or a part is held under the status TELEOP.
Overtaken(k, t) == ~Admitted(k, t) \/ (status = "TELEOP" /\ held # None)

\* The slot a move to storage goes for.
Target(k, t) == IF k \in {"store", "repack"} THEN FirstFree(t)
                ELSE IF k = "recenter" THEN parts[t].slot ELSE None

\* Whether scan_rotate turns the part in the gripper or one on the breadboard
HeldMode(k) == k = "scan_rotate" /\ status = "HOLDING"

Begin(r) ==
  LET k == request[r].kind  t == request[r].tag IN
  /\ request[r].at = "posted" /\ k \notin Instant /\ ~Refused(k, t)
  /\ request' = [request EXCEPT ![r] = Command("moving", k, t, Target(k, t), HeldMode(k))]
  /\ status' = IF k = "optimize" THEN "OPTIMIZING" ELSE "BUSY"
  /\ Worse(Overtaken(k, t))
  /\ UNCHANGED <<holding, parts, teleop, gripper>>

\* The entry of a part that is gone is not written.
Put(t, presence, slot) ==
  parts' = IF Present(t) THEN [parts EXCEPT ![t] = [presence |-> presence, slot |-> slot]]
           ELSE parts

\* run_affirm_placed_at_current, run_confirm_holding_tag, remove_component
Affirm(r) ==
  LET t == request[r].tag IN
  /\ request[r].at = "posted" /\ request[r].kind = "affirm" /\ ~Refused("affirm", t)
  /\ request' = [request EXCEPT ![r] = Free]
  /\ Put(t, "breadboard", None)
  /\ Worse(Moving # {})
  /\ UNCHANGED <<status, holding, teleop, gripper>>

Confirm(r) ==
  LET t == request[r].tag IN
  /\ request[r].at = "posted" /\ request[r].kind = "confirm" /\ ~Refused("confirm", t)
  /\ request' = [request EXCEPT ![r] = Free]
  /\ held' = t /\ unconfirmed' = FALSE
  /\ Worse(t # gripper)
  /\ UNCHANGED <<status, parts, teleop, gripper>>

Remove(r) ==
  LET t == request[r].tag IN
  /\ request[r].at = "posted" /\ request[r].kind = "remove" /\ ~Refused("remove", t)
  /\ request' = [request EXCEPT ![r] = Free]
  /\ parts' = [parts EXCEPT ![t] = [presence |-> "absent", slot |-> None]]
  /\ teleop' = [teleop EXCEPT ![t] = "off"]
  /\ Worse(Overtaken("remove", t))
  /\ UNCHANGED <<status, holding, gripper>>

-----------------------------------------------------------------------------
\* The end of the hardware step

\* commit_pick and commit_hover: set_holding ...
Grasped(t) == status' = "HOLDING" /\ held' = t /\ unconfirmed' = FALSE
\* ... commit_place_from_hover: clear_holding.
Released == status' = "IDLE" /\ held' = None /\ unconfirmed' = FALSE

\* Faulty: a place from hover does not clear the holding block.
FaultyPlaces(r) ==
  /\ request[r].at = "moving" /\ request[r].kind = "place_from_hover"
  /\ request' = [request EXCEPT ![r] = Free]
  /\ status' = "IDLE" /\ gripper' = None
  /\ Put(request[r].tag, "breadboard", None)
  /\ UNCHANGED <<holding, teleop, trouble>>

Picks(r) ==
  LET t == request[r].tag IN
  /\ request[r].at = "moving" /\ request[r].kind = "pick"
  /\ request' = [request EXCEPT ![r] = Free]
  /\ Grasped(t) /\ gripper' = t
  /\ UNCHANGED <<parts, teleop, trouble>>

Places(r) ==
  /\ request[r].at = "moving" /\ request[r].kind = "place_from_hover"
  /\ request' = [request EXCEPT ![r] = Free]
  /\ Released /\ gripper' = None
  /\ Put(request[r].tag, "breadboard", None)
  /\ UNCHANGED <<teleop, trouble>>

Hovers(r) ==
  /\ request[r].at = "moving" /\ request[r].kind = "hover"
  /\ request' = [request EXCEPT ![r] = Free]
  /\ Grasped(request[r].tag)
  /\ UNCHANGED <<parts, teleop, gripper, trouble>>

\* run_move_to_breadboard and run_move_to_storage
Moved(r) ==
  LET q == request[r] IN
  /\ q.at = "moving" /\ q.kind \in Moves
  /\ request' = [request EXCEPT ![r] = Free]
  /\ IF q.kind \in {"move", "place_from_storage"} THEN Put(q.tag, "breadboard", None)
     ELSE Put(q.tag, "storage", q.slot)
  /\ status' = "IDLE"
  /\ UNCHANGED <<holding, teleop, gripper, trouble>>

\* run_move_motor, run_optimize_component and run_scan_rotate_in_place end in
\* the same way whether their step succeeds or not.
StatusAfter(q) == IF q.kind \in {"hover", "place_from_hover"} \/ q.held_mode
                  THEN "HOLDING" ELSE "IDLE"

Stops(r) ==
  /\ request[r].at = "moving" /\ request[r].kind \in {"scan_rotate", "move_motor", "optimize"}
  /\ request' = [request EXCEPT ![r] = Free]
  /\ status' = StatusAfter(request[r])
  /\ UNCHANGED <<holding, parts, teleop, gripper, trouble>>

\* Faulty: the status stays BUSY.
FaultyFails(r) ==
  /\ request[r].at = "moving"
  /\ request' = [request EXCEPT ![r] = Free]
  /\ UNCHANGED <<status, holding, parts, teleop, gripper, trouble>>

\* The step raises: nothing is committed.  A pick or a place may have raised
\* after the gripper had closed or opened.
Fails(r) ==
  LET q == request[r] IN
  /\ q.at = "moving"
  /\ request' = [request EXCEPT ![r] = Free]
  /\ status' = StatusAfter(q)
  /\ \/ gripper' = gripper
     \/ q.kind = "pick" /\ gripper' = q.tag
     \/ q.kind = "place_from_hover" /\ gripper' = None
  /\ Worse(gripper' # gripper)
  /\ UNCHANGED <<holding, parts, teleop>>

-----------------------------------------------------------------------------
\* Teleoperation, as far as the other commands see it

\* _sync_system_status_for_teleop
Synced(sessions) ==
  status' = IF \E t \in Tags : sessions[t] # "off" THEN "TELEOP"
            ELSE IF held # None THEN "HOLDING" ELSE "IDLE"

\* A session that changes the status during a hardware step, or of a gripper
\* that is to be confirmed.
Interferes == Moving # {} \/ unconfirmed

\* refuse_teleop_start, with require_lab_idle off
MayStart(t) == /\ ~Stored(t)
               /\ InTeleop \subseteq {t}
               /\ status \notin {"BUSY", "OPTIMIZING"}

\* A session that is still pending is started again without these checks.
StartTeleop(t) ==
  /\ Present(t) /\ teleop[t] # "ready"
  /\ teleop[t] = "off" => MayStart(t)
  /\ teleop' = [teleop EXCEPT ![t] = "pending"]
  /\ Synced(teleop')
  /\ Worse(Interferes)
  /\ UNCHANGED <<holding, parts, request, gripper>>

TeleopReady(t) ==
  /\ teleop[t] = "pending"
  /\ teleop' = [teleop EXCEPT ![t] = "ready"]
  /\ UNCHANGED <<status, holding, parts, request, gripper, trouble>>

\* commit_teleop_end, commit_teleop_start_failed, and the sweeper.  An end is
\* carried out whether or not there is a session.
EndTeleop(t) ==
  /\ Present(t)
  /\ teleop' = [teleop EXCEPT ![t] = "off"]
  /\ Synced(teleop')
  /\ Worse(Interferes)
  /\ UNCHANGED <<holding, parts, request, gripper>>

-----------------------------------------------------------------------------
\* The inventory and the process

\* untrack_component
Untrack(t) ==
  /\ Present(t) \/ held = t
  /\ parts' = [parts EXCEPT ![t] = [presence |-> "absent", slot |-> None]]
  /\ teleop' = [teleop EXCEPT ![t] = "off"]
  /\ IF held = t
     THEN /\ held' = None /\ unconfirmed' = FALSE
          /\ status' = IF status = "HOLDING" THEN "IDLE" ELSE status
     ELSE UNCHANGED <<status, holding>>
  /\ Worse(gripper = t \/ Moving # {})
  /\ UNCHANGED <<request, gripper>>

\* track_component: a part that is not on the bench is put on the breadboard.
Track(t) ==
  /\ ~Present(t)
  /\ parts' = [parts EXCEPT ![t] = [presence |-> "breadboard", slot |-> None]]
  /\ UNCHANGED <<status, holding, teleop, request, gripper, trouble>>

\* add_component_to_state and add_component_from_inventory into storage: the
\* part gets the first free cell under any status, also one that a store under
\* way has chosen and not entered yet.
AddStored(t) ==
  /\ ~Present(t) /\ FreeSlots(t) # {}
  /\ parts' = [parts EXCEPT ![t] = [presence |-> "storage", slot |-> FirstFree(t)]]
  /\ Worse(\E r \in Moving : request[r].slot = FirstFree(t))
  /\ UNCHANGED <<status, holding, teleop, request, gripper>>

\* The process dies and comes back: the commands are gone, the state file and
\* the gripper are as they were.
Restart ==
  /\ request' = [r \in Requests |-> Free]
  /\ gripper' = gripper
  /\ Boot(status, held, unconfirmed)
  /\ IF Moving # {} THEN trouble' = "cut" ELSE Worse(InTeleop # {})
  /\ UNCHANGED <<parts, teleop>>

-----------------------------------------------------------------------------
Runs(r) == Refuse(r) \/ Begin(r) \/ Affirm(r) \/ Confirm(r) \/ Remove(r)
Ends(r) == Picks(r) \/ Hovers(r) \/ Places(r) \/ Moved(r) \/ Stops(r) \/ Fails(r)

Next ==
  \/ \E r \in Requests, k \in Kinds, t \in Tags : Post(r, k, t)
  \/ \E r \in Requests : Runs(r) \/ Ends(r)
  \/ \E t \in Tags : StartTeleop(t) \/ TeleopReady(t) \/ EndTeleop(t)
  \/ \E t \in Tags : Untrack(t) \/ Track(t) \/ AddStored(t)
  \/ Restart

Spec == Init /\ [][Next]_vars

-----------------------------------------------------------------------------
\* Properties

Busy == status \in {"BUSY", "OPTIMIZING"}

\* A busy status is somebody's hardware step, so it ends, however commands and
\* sessions overlap; only a process that dies in a step leaves one behind.
BusyIsBacked == trouble # "cut" /\ Busy => Moving # {}

\* At most one component is teleoperated, across starts that are repeated,
\* setups that fail, restarts and parts that come and go.
OneTeleop == Cardinality(InTeleop) <= 1

\* Between the hardware steps the holding block tells the truth about the
\* gripper, through picks, places, sessions, untracked parts and restarts; a
\* part that is to be confirmed has no tag yet.
HoldingTruth ==
  trouble = "none" /\ Moving = {} =>
    /\ held = IF unconfirmed THEN None ELSE gripper
    /\ gripper # None => status \in {"HOLDING", "TELEOP"}
    /\ status = "HOLDING" => gripper # None

\* The arm is sent for a part only with an empty gripper.
ArmFree == trouble = "none" =>
  \A r \in Moving : request[r].kind \in Moves \cup {"pick"} => gripper = None

\* No two stored parts share a cell, though a cell is chosen before the move
\* is awaited and entered after it, and parts are stored, repacked and added to
\* the storage meanwhile; excepted are a second command in the middle of the move
\* and a part that is added to the very cell the move is going for.
SlotsDistinct == trouble = "none" =>
  \A t, u \in Tags : Stored(t) /\ Stored(u) /\ t # u => parts[t].slot # parts[u].slot

\* What the code says, and does not keep.

\* "you can't pick a second part while one is already in the gripper"
\* (refuse_if_holding).
NoSecondPick ==
  [][\A r \in Requests : Begin(r) /\ request[r].kind = "pick" => gripper = None]_vars

\* "Row-major first free cell" (find_storage_slot_and_center): a part is put into
\* a cell in which no other part is, with one command under way at most.
PutIntoFreeCell ==
  [][\A r \in Requests : Moved(r) /\ Moving = {r} /\ request[r].slot # None
                          => request[r].slot \in FreeSlots(request[r].tag)]_vars

=============================================================================
