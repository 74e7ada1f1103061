----------------------------- MODULE Edge_proofs -----------------------------
(*****************************************************************************)
(* The two halves of backend/lab_model/execution/edge, each with the         *)
(* variables and the invariant of its own: the agent registry and the        *)
(* command queue with its callers and its agents.                            *)
(*****************************************************************************)
EXTENDS EdgeRegistry, EdgeCommands, WellFoundedInduction, TLAPS

(*****************************************************************************)
(* EdgeRegistry.  For any number of backends, agents and records: the registry *)
(* is well typed; and if no agent id is used for two backends, its two maps  *)
(* agree, it implements AgentSlots, and an agent that keeps sending stays.   *)
(*****************************************************************************)
\* The registry makes up a new id for each registration; agents that bring one
\* of their own must not use it for two backends.
OneHome == \A a \in AgentIds : \A b, c \in Homes[a] : b = c

(***************************************************************************)
(* The invariants.  A map leads to a record, never to nothing (Referred);  *)
(* with OneHome, a record that is reachable is reachable through both maps *)
(* and is filed under its own ids (Filed), and it is old only if its agent *)
(* is quiet (Aged).  They take the maps and the records as parameters, so  *)
(* that the lemmas can speak of the next ones.                             *)
(***************************************************************************)
Referred(bb, ba, rc) ==
  /\ \A b \in Backends : bb[b] # Absent => rc[bb[b]] \in Record
  /\ \A a \in AgentIds : ba[a] # Absent => rc[ba[a]] \in Record

Filed(bb, ba, rc) ==
  /\ \A b \in Backends : bb[b] # Absent =>
       /\ rc[bb[b]].backend_id = b
       /\ b \in Homes[rc[bb[b]].agent_id]
       /\ ba[rc[bb[b]].agent_id] = bb[b]
  /\ \A a \in AgentIds : ba[a] # Absent =>
       /\ rc[ba[a]].agent_id = a
       /\ bb[rc[ba[a]].backend_id] = ba[a]

Aged(bb, rc, q) == \A b \in Backends : bb[b] # Absent /\ rc[bb[b]].old => q[rc[bb[b]].agent_id]

TypeInv == RegistryTypeOK /\ Referred(by_backend, by_agent, rec)
RegistryInv == TypeInv /\ Filed(by_backend, by_agent, rec) /\ Aged(by_backend, rec, quiet)

\* Records that were rewritten without changing whose they are.
Keeps(rc) ==
  /\ rc \in [Regs -> Record \cup {Absent}]
  /\ \A r \in Regs : rec[r] \in Record =>
       /\ rc[r] \in Record
       /\ rc[r].agent_id = rec[r].agent_id
       /\ rc[r].backend_id = rec[r].backend_id

-----------------------------------------------------------------------------
\* A heartbeat keeps the records, and makes none old.
LEMMA HeardKeeps ==
  ASSUME TypeInv, NEW a \in AgentIds, NEW s \in AgentIds \cup {Absent}
  PROVE  /\ Keeps(Heard(a, s))
         /\ \A r \in Regs : rec[r] \in Record /\ Heard(a, s)[r].old => rec[r].old
         /\ by_agent[a] # Absent => ~Heard(a, s)[by_agent[a]].old
<1>1. CASE by_agent[a] = Absent
  BY <1>1 DEF TypeInv, RegistryTypeOK, Keeps, Heard
<1>2. CASE by_agent[a] # Absent
  <2> DEFINE r == by_agent[a]
             n == [rec[r] EXCEPT !.old = FALSE, !.lab_state = IF s = Absent THEN @ ELSE s]
  <2>1. r \in Regs /\ rec[r] \in Record
    BY <1>2 DEF TypeInv, RegistryTypeOK, Referred
  <2>2. n \in Record /\ n.agent_id = rec[r].agent_id /\ n.backend_id = rec[r].backend_id /\ ~n.old
    BY <2>1 DEF Record
  <2>3. Heard(a, s) = [rec EXCEPT ![r] = n]
    BY <1>2, <2>1 DEF Heard, TypeInv, RegistryTypeOK, Record
  <2> QED
    BY <2>1, <2>2, <2>3 DEF Keeps, TypeInv, RegistryTypeOK
<1> QED BY <1>1, <1>2

\* Whose records they are is all that AgentOf depends on.
LEMMA KeepsReferred ==
  ASSUME TypeInv, NEW rc, Keeps(rc)
  PROVE  /\ Referred(by_backend, by_agent, rc)
         /\ \A b \in Backends : by_backend[b] # Absent => rc[by_backend[b]].agent_id = AgentOf(b)
  BY DEF TypeInv, RegistryTypeOK, Referred, Keeps, AgentOf

LEMMA KeepsFiled ==
  ASSUME TypeInv, Filed(by_backend, by_agent, rec), NEW rc, Keeps(rc)
  PROVE  Filed(by_backend, by_agent, rc)
  BY DEF TypeInv, RegistryTypeOK, Referred, Keeps, Filed

\* Agents that are attached are agent ids.
LEMMA AgentOfType ==
  ASSUME TypeInv, NEW b \in Backends
  PROVE  /\ AgentOf(b) \in AgentIds \cup {Absent}
         /\ (AgentOf(b) = Absent) <=> (by_backend[b] = Absent)
<1>1. CASE by_backend[b] = Absent
  BY <1>1 DEF AgentOf
<1>2. CASE by_backend[b] # Absent
  <2>1. rec[by_backend[b]].agent_id \in AgentIds
    BY <1>2 DEF TypeInv, RegistryTypeOK, Referred, Record
  <2> QED
    BY <1>2, <2>1, RegistryAssumptions DEF AgentOf
<1> QED BY <1>1, <1>2

-----------------------------------------------------------------------------
(***************************************************************************)
(* Types.  Every step but a registration keeps the records and leads no    *)
(* map to a record it did not lead to before.                              *)
(***************************************************************************)
LEMMA InitTypeInv == RegistryInit => TypeInv
  BY DEF RegistryInit, TypeInv, RegistryTypeOK, Referred

\* A step that only clears entries of the maps, and may rewrite records.
LEMMA ClearTyped ==
  ASSUME TypeInv, NEW rc, Keeps(rc), NEW bb, NEW ba,
         bb \in [Backends -> Regs \cup {Absent}], ba \in [AgentIds -> Regs \cup {Absent}],
         \A b \in Backends : bb[b] \in {by_backend[b], Absent},
         \A a \in AgentIds : ba[a] \in {by_agent[a], Absent}
  PROVE  Referred(bb, ba, rc)
  BY KeepsReferred DEF Referred

LEMMA DetachTyped ==
  ASSUME TypeInv, NEW B \in SUBSET Backends, Detach(B), NEW rc, Keeps(rc)
  PROVE  /\ by_backend' \in [Backends -> Regs \cup {Absent}]
         /\ by_agent' \in [AgentIds -> Regs \cup {Absent}]
         /\ last_disconnect' \in [Backends -> AgentIds \cup {Absent}]
         /\ Referred(by_backend', by_agent', rc)
<1>1. /\ by_backend' \in [Backends -> Regs \cup {Absent}]
      /\ by_agent' \in [AgentIds -> Regs \cup {Absent}]
  BY DEF Detach, TypeInv, RegistryTypeOK
<1>2. last_disconnect' \in [Backends -> AgentIds \cup {Absent}]
  BY AgentOfType DEF Detach, TypeInv, RegistryTypeOK
<1>3. /\ \A b \in Backends : by_backend'[b] \in {by_backend[b], Absent}
      /\ \A a \in AgentIds : by_agent'[a] \in {by_agent[a], Absent}
  BY DEF Detach
<1>4. Referred(by_backend', by_agent', rc)
  BY <1>1, <1>3, ClearTyped
<1> QED
  BY <1>1, <1>2, <1>4

LEMMA SameKeeps == TypeInv => Keeps(rec)
  BY DEF TypeInv, RegistryTypeOK, Keeps

\* A record that a map leads to ages, and stays whose it is.
LEMMA AgeKeeps ==
  ASSUME TypeInv, NEW r \in Regs, RecordAges(r)
  PROVE  Keeps(rec') /\ \A x \in Regs : x # r => rec'[x] = rec[x]
<1>1. rec[r] \in Record
  BY RegistryAssumptions DEF RecordAges, Free, TypeInv, Referred
<1>2. [rec[r] EXCEPT !.old = TRUE] \in Record
  BY <1>1 DEF Record
<1>3. rec' = [rec EXCEPT ![r] = [rec[r] EXCEPT !.old = TRUE]]
  BY DEF RecordAges
<1> QED
  BY <1>1, <1>2, <1>3 DEF Keeps, TypeInv, RegistryTypeOK, Record

LEMMA NextTypeInv == TypeInv /\ [RegistryNext]_registryVars => TypeInv'
<1> SUFFICES ASSUME TypeInv, [RegistryNext]_registryVars PROVE TypeInv'
  OBVIOUS
<1>1. ASSUME NEW a \in AgentIds, Heartbeat(a)
      PROVE  TypeInv'
  <2>1. Keeps(rec')
    BY <1>1, HeardKeeps DEF Heartbeat
  <2>2. Referred(by_backend, by_agent, rec')
    BY <2>1, KeepsReferred
  <2> QED
    BY <1>1, <2>1, <2>2 DEF Heartbeat, Keeps, TypeInv, RegistryTypeOK
<1>2. ASSUME NEW a \in AgentIds, Unregister(a)
      PROVE  TypeInv'
  <2>1. rec[by_agent[a]] \in Record /\ rec[by_agent[a]].backend_id \in Backends
    BY <1>2 DEF Unregister, TypeInv, Referred, Record
  <2>2. /\ by_backend' \in [Backends -> Regs \cup {Absent}]
        /\ by_agent' \in [AgentIds -> Regs \cup {Absent}]
    BY <1>2, <2>1 DEF Unregister, TypeInv, RegistryTypeOK
  <2>3. /\ \A b \in Backends : by_backend'[b] \in {by_backend[b], Absent}
        /\ \A x \in AgentIds : by_agent'[x] \in {by_agent[x], Absent}
    BY <1>2, <2>1 DEF Unregister, TypeInv, RegistryTypeOK
  <2>4. Referred(by_backend', by_agent', rec)
    BY <2>2, <2>3, SameKeeps, ClearTyped
  <2> QED
    BY <1>2, <2>2, <2>4 DEF Unregister, TypeInv, RegistryTypeOK
<1>3. ASSUME NEW a \in AgentIds, GoesQuiet(a)
      PROVE  TypeInv'
  BY <1>3 DEF GoesQuiet, TypeInv, RegistryTypeOK
<1>4. ASSUME NEW a \in AgentIds, NEW b \in Homes[a], Register(a, b)
      PROVE  TypeInv'
  <2>1. b \in Backends
    BY RegistryAssumptions
  <2>2. PICK r \in Regs :
          /\ Free(r)
          /\ by_agent' = Registered(a, b, r)
          /\ by_backend' = [by_backend EXCEPT ![b] = r]
          /\ rec' = [rec EXCEPT ![r] =
                       [agent_id |-> a, backend_id |-> b, old |-> FALSE, lab_state |-> Absent]]
    BY <1>4 DEF Register
  <2>3. [agent_id |-> a, backend_id |-> b, old |-> FALSE, lab_state |-> Absent] \in Record
    BY <2>1 DEF Record
  <2>4. /\ by_agent' \in [AgentIds -> Regs \cup {Absent}]
        /\ by_backend' \in [Backends -> Regs \cup {Absent}]
        /\ rec' \in [Regs -> Record \cup {Absent}]
    BY <2>2, <2>3 DEF Registered, TypeInv, RegistryTypeOK
  <2>5. rec'[r] \in Record /\ \A x \in Regs : x # r => rec'[x] = rec[x]
    BY <2>2, <2>3 DEF TypeInv, RegistryTypeOK
  <2>6. ASSUME NEW c \in Backends, by_backend'[c] # Absent PROVE rec'[by_backend'[c]] \in Record
    <3>1. c # b => by_backend'[c] = by_backend[c] /\ by_backend[c] # r /\ by_backend[c] \in Regs
      BY <2>1, <2>2, <2>6 DEF Free, TypeInv, RegistryTypeOK
    <3>2. c = b => by_backend'[c] = r
      BY <2>1, <2>2 DEF TypeInv, RegistryTypeOK
    <3> QED
      BY <2>5, <2>6, <3>1, <3>2 DEF TypeInv, Referred
  <2>7. ASSUME NEW x \in AgentIds, by_agent'[x] # Absent PROVE rec'[by_agent'[x]] \in Record
    <3>1. by_agent'[x] = r \/ (by_agent'[x] = by_agent[x] /\ by_agent[x] # r /\ by_agent[x] \in Regs)
      BY <2>2, <2>7 DEF Registered, Free, TypeInv, RegistryTypeOK
    <3> QED
      BY <2>5, <2>7, <3>1 DEF TypeInv, Referred
  <2>8. Referred(by_backend', by_agent', rec')
    BY <2>6, <2>7 DEF Referred
  <2> QED
    BY <1>4, <2>1, <2>4, <2>8 DEF Register, TypeInv, RegistryTypeOK
<1>5. ASSUME NEW B \in SUBSET Backends, Detach(B), Keeps(rec'),
             quiet' \in [AgentIds -> BOOLEAN], fetched' \subseteq Backends \X AgentIds
      PROVE  TypeInv'
  BY <1>5, DetachTyped DEF TypeInv, RegistryTypeOK, Keeps
<1>6. ASSUME NEW a \in AgentIds, NEW b \in Homes[a], Poll(a, b)
      PROVE  TypeInv'
  <2>1. Keeps(rec')
    BY <1>6, HeardKeeps, SameKeeps DEF Poll
  <2>2. quiet' \in [AgentIds -> BOOLEAN] /\ fetched' \subseteq Backends \X AgentIds
    BY <1>6 DEF Poll, TypeInv, RegistryTypeOK
  <2> QED
    BY <1>5, <1>6, <2>1, <2>2 DEF Poll, Stale
<1>7. ASSUME NEW a \in AgentIds, NEW b \in Backends, LabStateAnswered(b, a)
      PROVE  TypeInv'
  BY <1>7 DEF LabStateAnswered, TypeInv, RegistryTypeOK
<1>8. ASSUME NEW a \in AgentIds, NEW b \in Backends, LabStateStored(b, a)
      PROVE  TypeInv'
  <2>1. Keeps(rec')
    BY <1>8, HeardKeeps, SameKeeps, AgentOfType DEF LabStateStored
  <2>2. quiet' \in [AgentIds -> BOOLEAN] /\ fetched' \subseteq Backends \X AgentIds
    BY <1>8 DEF LabStateStored, TypeInv, RegistryTypeOK
  <2> QED
    BY <1>5, <1>8, <2>1, <2>2 DEF LabStateStored, Stale
<1>9. ASSUME NEW b \in Backends, Lookup(b)
      PROVE  TypeInv'
  BY <1>5, <1>9, SameKeeps DEF Lookup, Stale, TypeInv, RegistryTypeOK
<1>10. CASE Sweep
  BY <1>5, <1>10, SameKeeps DEF Sweep, Stale, TypeInv, RegistryTypeOK
<1>11. ASSUME NEW r \in Regs, RecordAges(r)
       PROVE  TypeInv'
  <2>1. Keeps(rec') /\ Referred(by_backend, by_agent, rec')
    BY <1>11, AgeKeeps, KeepsReferred
  <2> QED
    BY <1>11, <2>1 DEF RecordAges, Keeps, TypeInv, RegistryTypeOK
<1>12. CASE UNCHANGED registryVars
  BY <1>12 DEF registryVars, TypeInv, RegistryTypeOK
<1> QED
  BY <1>1, <1>2, <1>3, <1>4, <1>6, <1>7, <1>8, <1>9, <1>10, <1>11, <1>12 DEF RegistryNext

\* Every state of the registry is well typed, and neither map leads to a record
\* that was never filled in (registry.py, whole class).
THEOREM RegistryTyped == RegistrySpec => []RegistryTypeOK
<1>1. RegistryInit => TypeInv
  BY InitTypeInv
<1>2. TypeInv /\ [RegistryNext]_registryVars => TypeInv'
  BY NextTypeInv
<1>3. TypeInv => RegistryTypeOK
  BY DEF TypeInv
<1> QED
  BY <1>1, <1>2, <1>3, PTL DEF RegistrySpec

-----------------------------------------------------------------------------
(***************************************************************************)
(* The maps agree.  A record that is detached goes from both maps: what    *)
(* _by_agent holds under its agent's id is the record itself.              *)
(***************************************************************************)
\* An agent is attached to one backend.
LEMMA OneBackend ==
  ASSUME RegistryInv, NEW b \in Backends, NEW c \in Backends, AgentOf(b) = AgentOf(c), AgentOf(b) # Absent
  PROVE  b = c
<1>1. by_backend[b] # Absent /\ by_backend[c] # Absent
  BY AgentOfType DEF RegistryInv
<1>2. by_backend[b] = by_backend[c]
  BY <1>1 DEF RegistryInv, Filed, AgentOf
<1> QED
  BY <1>1, <1>2 DEF RegistryInv, Filed

LEMMA DetachFiled ==
  ASSUME RegistryInv, NEW B \in SUBSET Backends, Detach(B), NEW rc, Keeps(rc)
  PROVE  Filed(by_backend', by_agent', rc)
<1>1. Filed(by_backend, by_agent, rc)
  BY KeepsFiled DEF RegistryInv
<1>2. ASSUME NEW b \in Backends, by_backend'[b] # Absent
      PROVE  /\ rc[by_backend'[b]].backend_id = b
             /\ b \in Homes[rc[by_backend'[b]].agent_id]
             /\ by_agent'[rc[by_backend'[b]].agent_id] = by_backend'[b]
  <2>1. b \notin B /\ by_backend'[b] = by_backend[b] /\ by_backend[b] # Absent
    BY <1>2 DEF Detach
  <2>2. rc[by_backend[b]].agent_id = AgentOf(b) /\ AgentOf(b) \in AgentIds /\ AgentOf(b) # Absent
    BY <2>1, KeepsReferred, AgentOfType DEF RegistryInv
  <2>3. \A c \in B : AgentOf(c) # AgentOf(b)
    BY <2>1, <2>2, OneBackend
  <2>4. by_agent'[AgentOf(b)] = by_agent[AgentOf(b)]
    BY <2>2, <2>3 DEF Detach
  <2> QED
    BY <1>1, <2>1, <2>2, <2>4 DEF Filed
<1>3. ASSUME NEW a \in AgentIds, by_agent'[a] # Absent
      PROVE  /\ rc[by_agent'[a]].agent_id = a
             /\ by_backend'[rc[by_agent'[a]].backend_id] = by_agent'[a]
  <2>1. by_agent'[a] = by_agent[a] /\ by_agent[a] # Absent /\ \A c \in B : AgentOf(c) # a
    BY <1>3 DEF Detach
  <2> DEFINE b == rc[by_agent[a]].backend_id
  <2>2. rc[by_agent[a]] \in Record
    BY <2>1, KeepsReferred DEF RegistryInv, Referred
  <2>3. rc[by_agent[a]].agent_id = a /\ b \in Backends /\ by_backend[b] = by_agent[a]
    BY <1>1, <2>1, <2>2 DEF Filed, Record
  <2>4. AgentOf(b) = a
    BY <2>1, <2>3, KeepsReferred DEF RegistryInv
  <2> QED
    BY <2>1, <2>3, <2>4 DEF Detach
<1> QED
  BY <1>2, <1>3 DEF Filed

\* Detaching takes the agents of these backends away and no others.
LEMMA DetachAgents ==
  ASSUME TypeInv, NEW B \in SUBSET Backends, Detach(B), Keeps(rec')
  PROVE  \A b \in Backends : AgentOf(b)' = IF b \in B THEN Absent ELSE AgentOf(b)
<1> TAKE b \in Backends
<1>1. by_backend'[b] = IF b \in B THEN Absent ELSE by_backend[b]
  BY DEF Detach
<1> QED
  BY <1>1, KeepsReferred DEF AgentOf

LEMMA NextFiled == OneHome /\ RegistryInv /\ [RegistryNext]_registryVars => Filed(by_backend', by_agent', rec')
<1> SUFFICES ASSUME OneHome, RegistryInv, [RegistryNext]_registryVars
             PROVE  Filed(by_backend', by_agent', rec')
  OBVIOUS
<1>t. TypeInv /\ Filed(by_backend, by_agent, rec)
  BY DEF RegistryInv
<1>1. ASSUME NEW a \in AgentIds, Heartbeat(a)
      PROVE  Filed(by_backend', by_agent', rec')
  <2>1. Keeps(rec')
    BY <1>t, <1>1, HeardKeeps DEF Heartbeat
  <2> QED
    BY <1>t, <1>1, <2>1, KeepsFiled DEF Heartbeat
<1>2. ASSUME NEW a \in AgentIds, Unregister(a)
      PROVE  Filed(by_backend', by_agent', rec')
  <2> DEFINE r == by_agent[a]
             b == rec[r].backend_id
  <2>1. r # Absent /\ rec[r] \in Record /\ b \in Backends
    BY <1>t, <1>2 DEF Unregister, TypeInv, Referred, Record
  <2>2. rec[r].agent_id = a /\ by_backend[b] = r
    BY <1>t, <2>1 DEF Filed
  <2>3. AgentOf(b) = a
    BY <2>1, <2>2 DEF AgentOf
  <2>4. /\ by_backend' = [by_backend EXCEPT ![b] = Absent]
        /\ by_agent' = [by_agent EXCEPT ![a] = Absent]
        /\ rec' = rec
    BY <1>2, <2>3 DEF Unregister
  <2>5. /\ \A c \in Backends : by_backend'[c] = IF c = b THEN Absent ELSE by_backend[c]
        /\ \A x \in AgentIds : by_agent'[x] = IF x = a THEN Absent ELSE by_agent[x]
    BY <1>t, <2>1, <2>4 DEF TypeInv, RegistryTypeOK
  <2>6. ASSUME NEW c \in Backends, by_backend'[c] # Absent
        PROVE  /\ rec[by_backend'[c]].backend_id = c
               /\ c \in Homes[rec[by_backend'[c]].agent_id]
               /\ by_agent'[rec[by_backend'[c]].agent_id] = by_backend'[c]
    <3>1. c # b /\ by_backend'[c] = by_backend[c] /\ by_backend[c] # Absent
      BY <2>5, <2>6
    <3>2. rec[by_backend[c]] \in Record /\ rec[by_backend[c]].agent_id \in AgentIds
      BY <1>t, <3>1 DEF TypeInv, Referred, Record
    <3>3. rec[by_backend[c]].agent_id # a
      BY <1>t, <2>2, <3>1 DEF Filed
    <3> QED
      BY <1>t, <2>5, <3>1, <3>2, <3>3 DEF Filed
  <2>7. ASSUME NEW x \in AgentIds, by_agent'[x] # Absent
        PROVE  /\ rec[by_agent'[x]].agent_id = x
               /\ by_backend'[rec[by_agent'[x]].backend_id] = by_agent'[x]
    <3>1. x # a /\ by_agent'[x] = by_agent[x] /\ by_agent[x] # Absent
      BY <2>5, <2>7
    <3>2. rec[by_agent[x]].agent_id = x /\ by_backend[rec[by_agent[x]].backend_id] = by_agent[x]
      BY <1>t, <3>1 DEF Filed
    <3>3. rec[by_agent[x]].backend_id \in Backends
      BY <1>t, <3>1 DEF TypeInv, Referred, Record
    <3>4. rec[by_agent[x]].backend_id # b
      BY <2>2, <3>1, <3>2
    <3> QED
      BY <2>5, <3>1, <3>2, <3>3, <3>4
  <2> QED
    BY <2>4, <2>6, <2>7 DEF Filed
<1>3. ASSUME NEW a \in AgentIds, GoesQuiet(a)
      PROVE  Filed(by_backend', by_agent', rec')
  BY <1>t, <1>3 DEF GoesQuiet
<1>4. ASSUME NEW a \in AgentIds, NEW b \in Homes[a], Register(a, b)
      PROVE  Filed(by_backend', by_agent', rec')
  <2>1. b \in Backends
    BY RegistryAssumptions
  <2>2. PICK r \in Regs :
          /\ Free(r)
          /\ by_agent' = Registered(a, b, r)
          /\ by_backend' = [by_backend EXCEPT ![b] = r]
          /\ rec' = [rec EXCEPT ![r] =
                       [agent_id |-> a, backend_id |-> b, old |-> FALSE, lab_state |-> Absent]]
    BY <1>4 DEF Register
  <2>3. /\ \A c \in Backends : by_backend'[c] = IF c = b THEN r ELSE by_backend[c]
        /\ \A x \in AgentIds : by_agent'[x] =
             IF x = a THEN r ELSE IF x = AgentOf(b) THEN Absent ELSE by_agent[x]
        /\ \A x \in Regs : x # r => rec'[x] = rec[x]
        /\ rec'[r].agent_id = a /\ rec'[r].backend_id = b
    BY <1>t, <2>1, <2>2 DEF Registered, TypeInv, RegistryTypeOK
  <2>4. ASSUME NEW c \in Backends, by_backend'[c] # Absent
        PROVE  /\ rec'[by_backend'[c]].backend_id = c
               /\ c \in Homes[rec'[by_backend'[c]].agent_id]
               /\ by_agent'[rec'[by_backend'[c]].agent_id] = by_backend'[c]
    <3>1. CASE c = b
      BY <2>3, <3>1
    <3>2. CASE c # b
      <4>1. /\ by_backend'[c] = by_backend[c] /\ by_backend[c] \in Regs /\ by_backend[c] # r
            /\ rec'[by_backend[c]] = rec[by_backend[c]]
        BY <1>t, <2>2, <2>3, <2>4, <3>2 DEF Free, TypeInv, RegistryTypeOK
      <4>2. /\ rec[by_backend[c]].agent_id = AgentOf(c) /\ AgentOf(c) \in AgentIds
            /\ AgentOf(c) # Absent
        BY <1>t, <2>4, <4>1, AgentOfType DEF AgentOf
      <4>3. /\ rec[by_backend[c]].backend_id = c
            /\ c \in Homes[AgentOf(c)]
            /\ by_agent[AgentOf(c)] = by_backend[c]
        BY <1>t, <2>4, <4>1, <4>2 DEF Filed
      <4>4. AgentOf(c) # a
        BY <2>1, <3>2, <4>3 DEF OneHome
      <4>5. AgentOf(c) # AgentOf(b)
        BY <2>1, <3>2, <4>2, OneBackend
      <4> QED
        BY <2>3, <4>1, <4>2, <4>3, <4>4, <4>5
    <3> QED
      BY <3>1, <3>2
  <2>5. ASSUME NEW x \in AgentIds, by_agent'[x] # Absent
        PROVE  /\ rec'[by_agent'[x]].agent_id = x
               /\ by_backend'[rec'[by_agent'[x]].backend_id] = by_agent'[x]
    <3>1. CASE x = a
      BY <2>1, <2>3, <3>1
    <3>2. CASE x # a
      <4>1. /\ x # AgentOf(b) /\ by_agent'[x] = by_agent[x] /\ by_agent[x] \in Regs
            /\ by_agent[x] # r /\ rec'[by_agent[x]] = rec[by_agent[x]]
        BY <1>t, <2>2, <2>3, <2>5, <3>2 DEF Free, TypeInv, RegistryTypeOK
      <4> DEFINE c == rec[by_agent[x]].backend_id
      <4>2. rec[by_agent[x]].agent_id = x /\ by_backend[c] = by_agent[x]
        BY <1>t, <2>5, <4>1 DEF Filed
      <4>3. c \in Backends
        BY <1>t, <2>5, <4>1 DEF TypeInv, Referred, Record
      <4>4. AgentOf(c) = x
        BY <2>5, <4>1, <4>2 DEF AgentOf
      <4>5. c # b
        BY <4>1, <4>4
      <4> QED
        BY <2>3, <4>1, <4>2, <4>3, <4>5
    <3> QED
      BY <3>1, <3>2
  <2> QED
    BY <2>4, <2>5 DEF Filed
<1>5. ASSUME NEW B \in SUBSET Backends, Detach(B), Keeps(rec')
      PROVE  Filed(by_backend', by_agent', rec')
  BY <1>5, DetachFiled
<1>6. ASSUME NEW a \in AgentIds, NEW b \in Homes[a], Poll(a, b)
      PROVE  Filed(by_backend', by_agent', rec')
  <2>1. Keeps(rec')
    BY <1>t, <1>6, HeardKeeps, SameKeeps DEF Poll
  <2> QED
    BY <1>5, <1>6, <2>1 DEF Poll, Stale
<1>7. ASSUME NEW a \in AgentIds, NEW b \in Backends, LabStateAnswered(b, a)
      PROVE  Filed(by_backend', by_agent', rec')
  BY <1>t, <1>7 DEF LabStateAnswered
<1>8. ASSUME NEW a \in AgentIds, NEW b \in Backends, LabStateStored(b, a)
      PROVE  Filed(by_backend', by_agent', rec')
  <2>1. Keeps(rec')
    BY <1>t, <1>8, HeardKeeps, SameKeeps, AgentOfType DEF LabStateStored
  <2> QED
    BY <1>5, <1>8, <2>1 DEF LabStateStored, Stale
<1>9. ASSUME NEW b \in Backends, Lookup(b)
      PROVE  Filed(by_backend', by_agent', rec')
  BY <1>t, <1>5, <1>9, SameKeeps DEF Lookup, Stale
<1>10. CASE Sweep
  BY <1>t, <1>5, <1>10, SameKeeps DEF Sweep, Stale
<1>11. ASSUME NEW r \in Regs, RecordAges(r)
       PROVE  Filed(by_backend', by_agent', rec')
  BY <1>t, <1>11, AgeKeeps, KeepsFiled DEF RecordAges
<1>12. CASE UNCHANGED registryVars
  BY <1>t, <1>12 DEF registryVars
<1> QED
  BY <1>1, <1>2, <1>3, <1>4, <1>6, <1>7, <1>8, <1>9, <1>10, <1>11, <1>12 DEF RegistryNext

-----------------------------------------------------------------------------
(***************************************************************************)
(* A record is old only if its agent is quiet.                             *)
(***************************************************************************)
\* Some backends are detached, the agents Q fall silent or none changes, and
\* the records that stay attached are no older than they were.
LEMMA AgedKept ==
  ASSUME RegistryInv, NEW bb, NEW rc, Keeps(rc), NEW q,
         \A b \in Backends : bb[b] \in {by_backend[b], Absent},
         \A b \in Backends : bb[b] # Absent /\ rc[bb[b]].old =>
            rec[bb[b]].old /\ (quiet[AgentOf(b)] => q[AgentOf(b)])
  PROVE  Aged(bb, rc, q)
<1> SUFFICES ASSUME NEW b \in Backends, bb[b] # Absent, rc[bb[b]].old
             PROVE  q[rc[bb[b]].agent_id]
  BY DEF Aged
<1>1. bb[b] = by_backend[b] /\ by_backend[b] # Absent
  OBVIOUS
<1>2. rc[by_backend[b]].agent_id = AgentOf(b) /\ rec[by_backend[b]].agent_id = AgentOf(b)
  BY <1>1, KeepsReferred DEF RegistryInv, AgentOf
<1>3. rec[by_backend[b]].old /\ (quiet[AgentOf(b)] => q[AgentOf(b)])
  BY <1>1
<1> QED
  BY <1>1, <1>2, <1>3 DEF RegistryInv, Aged

\* An agent whose heartbeat is recorded has no old record left.
LEMMA HeardYoung ==
  ASSUME RegistryInv, NEW a \in AgentIds, NEW s \in AgentIds \cup {Absent}, NEW b \in Backends,
         by_backend[b] # Absent, Heard(a, s)[by_backend[b]].old
  PROVE  rec[by_backend[b]].old /\ AgentOf(b) # a
<1>1. by_backend[b] \in Regs /\ rec[by_backend[b]] \in Record
  BY DEF RegistryInv, TypeInv, RegistryTypeOK, Referred
<1>2. rec[by_backend[b]].old
  BY <1>1, HeardKeeps DEF RegistryInv
<1>3. AgentOf(b) = a => by_agent[a] = by_backend[b]
  BY DEF RegistryInv, Filed, AgentOf
<1> QED
  BY <1>2, <1>3, HeardKeeps DEF RegistryInv

LEMMA NextAged == OneHome /\ RegistryInv /\ [RegistryNext]_registryVars => Aged(by_backend', rec', quiet')
<1> SUFFICES ASSUME OneHome, RegistryInv, [RegistryNext]_registryVars
             PROVE  Aged(by_backend', rec', quiet')
  OBVIOUS
<1>t. TypeInv /\ Filed(by_backend, by_agent, rec) /\ Aged(by_backend, rec, quiet)
  BY DEF RegistryInv
<1>q. quiet \in [AgentIds -> BOOLEAN] /\ \A b \in Backends : by_backend[b] # Absent => AgentOf(b) \in AgentIds
  BY <1>t, AgentOfType DEF TypeInv, RegistryTypeOK
<1>1. ASSUME NEW a \in AgentIds, Heartbeat(a)
      PROVE  Aged(by_backend', rec', quiet')
  <2>1. PICK s \in {a, Absent} : rec' = Heard(a, s)
    BY <1>1 DEF Heartbeat
  <2>2. by_backend' = by_backend /\ quiet' = [quiet EXCEPT ![a] = FALSE]
    BY <1>1 DEF Heartbeat
  <2>3. Keeps(rec')
    BY <1>t, <2>1, HeardKeeps
  <2>4. ASSUME NEW b \in Backends, by_backend[b] # Absent, rec'[by_backend[b]].old
        PROVE  rec[by_backend[b]].old /\ (quiet[AgentOf(b)] => quiet'[AgentOf(b)])
    BY <1>q, <2>1, <2>2, <2>4, HeardYoung
  <2> QED
    BY <2>2, <2>3, <2>4, AgedKept
<1>2. ASSUME NEW a \in AgentIds, Unregister(a)
      PROVE  Aged(by_backend', rec', quiet')
  <2>1. rec[by_agent[a]].backend_id \in Backends
    BY <1>t, <1>2 DEF Unregister, TypeInv, Referred, Record
  <2>2. \A b \in Backends : by_backend'[b] \in {by_backend[b], Absent}
    BY <1>t, <1>2, <2>1 DEF Unregister, TypeInv, RegistryTypeOK
  <2>3. rec' = rec /\ quiet' = quiet
    BY <1>2 DEF Unregister
  <2> QED
    BY <1>t, <2>2, <2>3, SameKeeps, AgedKept
<1>3. ASSUME NEW a \in AgentIds, GoesQuiet(a)
      PROVE  Aged(by_backend', rec', quiet')
  <2>1. by_backend' = by_backend /\ rec' = rec /\ quiet' = [quiet EXCEPT ![a] = TRUE]
    BY <1>3 DEF GoesQuiet
  <2>2. \A b \in Backends : by_backend[b] # Absent => (quiet[AgentOf(b)] => quiet'[AgentOf(b)])
    BY <1>q, <2>1
  <2> QED
    BY <1>t, <2>1, <2>2, SameKeeps, AgedKept
<1>4. ASSUME NEW a \in AgentIds, NEW b \in Homes[a], Register(a, b)
      PROVE  Aged(by_backend', rec', quiet')
  <2>1. b \in Backends
    BY RegistryAssumptions
  <2>2. PICK r \in Regs :
          /\ Free(r)
          /\ by_backend' = [by_backend EXCEPT ![b] = r]
          /\ rec' = [rec EXCEPT ![r] =
                       [agent_id |-> a, backend_id |-> b, old |-> FALSE, lab_state |-> Absent]]
          /\ quiet' = [quiet EXCEPT ![a] = FALSE]
    BY <1>4 DEF Register
  <2>3. ASSUME NEW c \in Backends, by_backend'[c] # Absent, rec'[by_backend'[c]].old
        PROVE  quiet'[rec'[by_backend'[c]].agent_id]
    <3>1. c # b
      BY <1>t, <2>1, <2>2, <2>3 DEF TypeInv, RegistryTypeOK
    <3>2. /\ by_backend'[c] = by_backend[c] /\ by_backend[c] \in Regs /\ by_backend[c] # r
          /\ rec'[by_backend[c]] = rec[by_backend[c]]
      BY <1>t, <2>1, <2>2, <2>3, <3>1 DEF Free, TypeInv, RegistryTypeOK
    <3>3. rec[by_backend[c]].agent_id = AgentOf(c) /\ AgentOf(c) \in AgentIds /\ c \in Homes[AgentOf(c)]
      BY <1>t, <1>q, <2>3, <3>2 DEF AgentOf, Filed
    <3>4. AgentOf(c) # a
      BY <2>1, <3>1, <3>3 DEF OneHome
    <3>5. quiet[AgentOf(c)]
      BY <1>t, <2>3, <3>2, <3>3 DEF Aged
    <3> QED
      BY <1>q, <2>2, <3>2, <3>3, <3>4, <3>5
  <2> QED
    BY <2>3 DEF Aged
<1>5. ASSUME NEW B \in SUBSET Backends, Detach(B), rec' = rec, quiet' = quiet
      PROVE  Aged(by_backend', rec', quiet')
  <2>1. \A b \in Backends : by_backend'[b] \in {by_backend[b], Absent}
    BY <1>5 DEF Detach
  <2> QED
    BY <1>t, <1>5, <2>1, SameKeeps, AgedKept
<1>6. ASSUME NEW a \in AgentIds, NEW b \in Homes[a], Poll(a, b)
      PROVE  Aged(by_backend', rec', quiet')
  <2>1. b \in Backends
    BY RegistryAssumptions
  <2>2. /\ \A c \in Backends : by_backend'[c] =
             IF c \in Stale \cap {b} THEN Absent ELSE by_backend[c]
        /\ quiet' = [quiet EXCEPT ![a] = FALSE]
        /\ rec' = IF b \notin Stale /\ AgentOf(b) = a THEN Heard(a, Absent) ELSE rec
    BY <1>6 DEF Poll, Detach
  <2>3. Keeps(rec')
    BY <1>t, <2>2, HeardKeeps, SameKeeps
  <2>4. ASSUME NEW c \in Backends, by_backend'[c] # Absent, rec'[by_backend'[c]].old
        PROVE  rec[by_backend'[c]].old /\ (quiet[AgentOf(c)] => quiet'[AgentOf(c)])
    <3>1. by_backend'[c] = by_backend[c] /\ by_backend[c] # Absent /\ ~(c = b /\ c \in Stale)
      BY <2>2, <2>4
    <3>2. CASE rec' = Heard(a, Absent)
      BY <1>q, <2>2, <2>4, <3>1, <3>2, HeardYoung
    <3>3. CASE rec' = rec /\ ~(b \notin Stale /\ AgentOf(b) = a)
      <4>1. rec[by_backend[c]].old /\ c \in Stale /\ c # b
        BY <2>4, <3>1, <3>3 DEF Stale
      <4>2. c \in Homes[AgentOf(c)] /\ AgentOf(c) \in AgentIds
        BY <1>t, <1>q, <3>1 DEF Filed, AgentOf
      <4>3. AgentOf(c) # a
        BY <2>1, <4>1, <4>2 DEF OneHome
      <4> QED
        BY <1>q, <2>2, <3>1, <4>1, <4>2, <4>3
    <3> QED
      BY <2>2, <3>2, <3>3
  <2>5. \A c \in Backends : by_backend'[c] \in {by_backend[c], Absent}
    BY <2>2
  <2> QED
    BY <2>3, <2>4, <2>5, AgedKept
<1>7. ASSUME NEW a \in AgentIds, NEW b \in Backends, LabStateAnswered(b, a)
      PROVE  Aged(by_backend', rec', quiet')
  BY <1>t, <1>7 DEF LabStateAnswered
<1>8. ASSUME NEW a \in AgentIds, NEW b \in Backends, LabStateStored(b, a)
      PROVE  Aged(by_backend', rec', quiet')
  <2>1. /\ \A c \in Backends : by_backend'[c] \in {by_backend[c], Absent}
        /\ quiet' = quiet
        /\ rec' = IF b \in Stale \/ by_backend[b] = Absent THEN rec ELSE Heard(AgentOf(b), a)
    BY <1>8 DEF LabStateStored, Detach
  <2>2. Keeps(rec')
    BY <1>t, <1>q, <2>1, HeardKeeps, SameKeeps
  <2>3. ASSUME NEW c \in Backends, by_backend'[c] # Absent, rec'[by_backend'[c]].old
        PROVE  rec[by_backend'[c]].old
    BY <1>q, <2>1, <2>3, HeardYoung
  <2> QED
    BY <2>1, <2>2, <2>3, AgedKept
<1>9. ASSUME NEW b \in Backends, Lookup(b)
      PROVE  Aged(by_backend', rec', quiet')
  BY <1>5, <1>9 DEF Lookup, Stale
<1>10. CASE Sweep
  BY <1>5, <1>10 DEF Sweep, Stale
<1>11. ASSUME NEW r \in Regs, RecordAges(r)
       PROVE  Aged(by_backend', rec', quiet')
  <2>1. by_backend' = by_backend /\ quiet' = quiet /\ Keeps(rec')
    BY <1>t, <1>11, AgeKeeps DEF RecordAges
  <2>2. ASSUME NEW b \in Backends, by_backend[b] # Absent, rec'[by_backend[b]].old
        PROVE  quiet[rec'[by_backend[b]].agent_id]
    <3>1. rec'[by_backend[b]].agent_id = AgentOf(b)
      BY <1>t, <2>1, <2>2, KeepsReferred
    <3>2. CASE by_backend[b] = r
      <4>1. rec[r].agent_id = AgentOf(b) /\ by_agent[AgentOf(b)] = r
        BY <1>t, <2>2, <3>2 DEF AgentOf, Filed
      <4> QED
        BY <1>11, <3>1, <3>2, <4>1 DEF RecordAges
    <3>3. CASE by_backend[b] # r
      <4>1. by_backend[b] \in Regs
        BY <1>t, <2>2 DEF TypeInv, RegistryTypeOK
      <4>2. rec'[by_backend[b]] = rec[by_backend[b]]
        BY <1>t, <1>11, <3>3, <4>1, AgeKeeps
      <4> QED
        BY <1>t, <2>2, <4>2 DEF Aged
    <3> QED
      BY <3>2, <3>3
  <2> QED
    BY <2>1, <2>2 DEF Aged
<1>12. CASE UNCHANGED registryVars
  BY <1>t, <1>12 DEF registryVars
<1> QED
  BY <1>1, <1>2, <1>3, <1>4, <1>6, <1>7, <1>8, <1>9, <1>10, <1>11, <1>12 DEF RegistryNext

LEMMA InitRegistryInv == RegistryInit => RegistryInv
  BY InitTypeInv DEF RegistryInit, RegistryInv, Filed, Aged

LEMMA NextRegistryInv == OneHome /\ RegistryInv /\ [RegistryNext]_registryVars => RegistryInv'
  BY NextTypeInv, NextFiled, NextAged DEF RegistryInv

\* An agent that is attached can be heard and unregistered, whatever register,
\* unregister and the sweeper do in between (registry.py:81-215).
THEOREM RecordsFound == OneHome => (RegistrySpec => []MapsAgree)
<1> SUFFICES ASSUME OneHome PROVE RegistrySpec => []MapsAgree
  OBVIOUS
<1>1. RegistryInit => RegistryInv
  BY InitRegistryInv
<1>2. RegistryInv /\ [RegistryNext]_registryVars => RegistryInv'
  BY NextRegistryInv
<1>3. RegistryInv => MapsAgree
  BY DEF RegistryInv, Filed, MapsAgree, AgentOf
<1> QED
  BY <1>1, <1>2, <1>3, PTL DEF RegistrySpec

-----------------------------------------------------------------------------
(***************************************************************************)
(* Refinement.  A step either changes no agent, or detaches backends whose *)
(* records are old, hence whose agents are quiet, or is a registration or  *)
(* an unregistration.                                                      *)
(***************************************************************************)
LEMMA SameAgents ==
  ASSUME TypeInv, by_backend' = by_backend, Keeps(rec')
  PROVE  \A b \in Backends : AgentOf(b)' = AgentOf(b)
  BY KeepsReferred DEF AgentOf

LEMMA StaleQuiet ==
  ASSUME RegistryInv, NEW b \in Stale
  PROVE  AgentOf(b) # Absent /\ quiet[AgentOf(b)]
  BY AgentOfType DEF RegistryInv, Stale, Aged, AgentOf

\* A detach of stale records is an eviction.
LEMMA DetachEvicts ==
  ASSUME RegistryInv, NEW B \in SUBSET Stale, Detach(B), Keeps(rec'),
         \/ UNCHANGED quiet
         \/ \E a \in AgentIds : quiet' = [quiet EXCEPT ![a] = FALSE]
  PROVE  Slots!Next
<1>1. B \in SUBSET Backends
  BY DEF Stale
<1>2. \A b \in Backends : AgentOf(b)' = IF b \in B THEN Absent ELSE AgentOf(b)
  BY <1>1, DetachAgents DEF RegistryInv
<1>3. \A b \in B : AgentOf(b) # Absent /\ quiet[AgentOf(b)]
  BY StaleQuiet
<1>4. Slots!Evict(B)
  BY <1>1, <1>2, <1>3 DEF Slots!Evict
<1> QED
  BY <1>1, <1>4 DEF Slots!Next

\* What unregister() does to the agents.
LEMMA UnregisterAgents ==
  ASSUME RegistryInv, NEW a \in AgentIds, Unregister(a)
  PROVE  \A b \in Backends : AgentOf(b)' = IF AgentOf(b) = a THEN Absent ELSE AgentOf(b)
<1> DEFINE r == by_agent[a]
           c == rec[r].backend_id
<1>1. r # Absent /\ c \in Backends
  BY DEF Unregister, RegistryInv, TypeInv, Referred, Record
<1>2. AgentOf(c) = a /\ a # Absent
  BY <1>1, RegistryAssumptions DEF RegistryInv, Filed, AgentOf
<1>3. by_backend' = [by_backend EXCEPT ![c] = Absent] /\ rec' = rec
  BY <1>2 DEF Unregister
<1> TAKE b \in Backends
<1>4. AgentOf(b) = a <=> b = c
  BY <1>1, <1>2, OneBackend
<1>5. by_backend'[b] = IF b = c THEN Absent ELSE by_backend[b]
  BY <1>1, <1>3 DEF RegistryInv, TypeInv, RegistryTypeOK
<1> QED
  BY <1>3, <1>4, <1>5 DEF AgentOf

\* What register() does to them.
LEMMA RegisterAgents ==
  ASSUME TypeInv, NEW a \in AgentIds, NEW b \in Homes[a], Register(a, b)
  PROVE  b \in Backends /\ \A c \in Backends : AgentOf(c)' = IF c = b THEN a ELSE AgentOf(c)
<1>1. b \in Backends
  BY RegistryAssumptions
<1>2. PICK r \in Regs :
        /\ Free(r)
        /\ by_backend' = [by_backend EXCEPT ![b] = r]
        /\ rec' = [rec EXCEPT ![r] =
                     [agent_id |-> a, backend_id |-> b, old |-> FALSE, lab_state |-> Absent]]
  BY DEF Register
<1>3. rec'[r].agent_id = a /\ r # Absent
  BY <1>2, RegistryAssumptions DEF TypeInv, RegistryTypeOK
<1>4. ASSUME NEW c \in Backends
      PROVE  AgentOf(c)' = IF c = b THEN a ELSE AgentOf(c)
  <2>1. CASE c = b
    BY <1>1, <1>2, <1>3, <2>1 DEF AgentOf, TypeInv, RegistryTypeOK
  <2>2. CASE c # b
    <3>1. by_backend'[c] = by_backend[c] /\ by_backend[c] # r
      BY <1>1, <1>2, <2>2 DEF Free, TypeInv, RegistryTypeOK
    <3>2. by_backend[c] # Absent => rec'[by_backend[c]] = rec[by_backend[c]]
      BY <1>2, <3>1 DEF TypeInv, RegistryTypeOK
    <3> QED
      BY <2>2, <3>1, <3>2 DEF AgentOf
  <2> QED
    BY <2>1, <2>2
<1> QED
  BY <1>1, <1>4

LEMMA InitSlots == RegistryInit => Slots!Init
  BY DEF RegistryInit, Slots!Init, AgentOf

LEMMA StepSlots == RegistryInv /\ [RegistryNext]_registryVars => [Slots!Next]_(Slots!vars)
<1> SUFFICES ASSUME RegistryInv, [RegistryNext]_registryVars PROVE [Slots!Next]_(Slots!vars)
  OBVIOUS
<1>t. TypeInv /\ \A b \in Backends : by_backend[b] # Absent => AgentOf(b) \in AgentIds
  BY AgentOfType DEF RegistryInv
<1>h. ASSUME NEW a \in AgentIds, NEW q \in BOOLEAN, by_backend' = by_backend, Keeps(rec'),
             quiet' = [quiet EXCEPT ![a] = q]
      PROVE  Slots!Next
  BY <1>t, <1>h, SameAgents DEF Slots!Next, Slots!Hears
<1>1. ASSUME NEW a \in AgentIds, Heartbeat(a)
      PROVE  Slots!Next
  BY <1>t, <1>h, <1>1, HeardKeeps DEF Heartbeat
<1>2. ASSUME NEW a \in AgentIds, Unregister(a)
      PROVE  Slots!Next
  <2>1. Slots!Leave(a)
    BY <1>2, UnregisterAgents DEF Unregister, Slots!Leave
  <2> QED
    BY <2>1 DEF Slots!Next
<1>3. ASSUME NEW a \in AgentIds, GoesQuiet(a)
      PROVE  Slots!Next
  BY <1>t, <1>h, <1>3, SameKeeps DEF GoesQuiet
<1>4. ASSUME NEW a \in AgentIds, NEW b \in Homes[a], Register(a, b)
      PROVE  Slots!Next
  <2>1. b \in Backends /\ \A c \in Backends : AgentOf(c)' = IF c = b THEN a ELSE AgentOf(c)
    BY <1>t, <1>4, RegisterAgents
  <2>2. Slots!Register(a, b)
    BY <1>4, <2>1 DEF Register, Slots!Register
  <2> QED
    BY <2>1, <2>2 DEF Slots!Next
<1>6. ASSUME NEW a \in AgentIds, NEW b \in Homes[a], Poll(a, b)
      PROVE  Slots!Next
  <2>1. Keeps(rec')
    BY <1>t, <1>6, HeardKeeps, SameKeeps DEF Poll
  <2> QED
    BY <1>6, <2>1, DetachEvicts DEF Poll
<1>7. ASSUME NEW a \in AgentIds, NEW b \in Backends, LabStateAnswered(b, a)
      PROVE  UNCHANGED Slots!vars
  BY <1>t, <1>7, SameAgents, SameKeeps DEF LabStateAnswered, Slots!vars
<1>8. ASSUME NEW a \in AgentIds, NEW b \in Backends, LabStateStored(b, a)
      PROVE  Slots!Next
  <2>1. Keeps(rec')
    BY <1>t, <1>8, HeardKeeps, SameKeeps DEF LabStateStored
  <2> QED
    BY <1>8, <2>1, DetachEvicts DEF LabStateStored
<1>9. ASSUME NEW b \in Backends, Lookup(b)
      PROVE  Slots!Next
  BY <1>t, <1>9, SameKeeps, DetachEvicts DEF Lookup
<1>10. CASE Sweep
  BY <1>t, <1>10, SameKeeps, DetachEvicts DEF Sweep
<1>11. ASSUME NEW r \in Regs, RecordAges(r)
       PROVE  UNCHANGED Slots!vars
  BY <1>t, <1>11, AgeKeeps, SameAgents DEF RecordAges, Slots!vars
<1>12. CASE UNCHANGED registryVars
  BY <1>t, <1>12, SameKeeps, SameAgents DEF registryVars, Slots!vars
<1> QED
  BY <1>1, <1>2, <1>3, <1>4, <1>6, <1>7, <1>8, <1>9, <1>10, <1>11, <1>12 DEF RegistryNext

\* A backend has one agent, the one that registered last, and loses it only to
\* a goodbye, a successor or silence (registry.py:81-215).
THEOREM RegistryImplementsSlots == OneHome => (RegistrySpec => SlotsSpec)
<1> SUFFICES ASSUME OneHome PROVE RegistrySpec => SlotsSpec
  OBVIOUS
<1>1. RegistryInit => RegistryInv
  BY InitRegistryInv
<1>2. RegistryInv /\ [RegistryNext]_registryVars => RegistryInv'
  BY NextRegistryInv
<1>3. RegistryInit => Slots!Init
  BY InitSlots
<1>4. RegistryInv /\ [RegistryNext]_registryVars => [Slots!Next]_(Slots!vars)
  BY StepSlots
<1> QED
  BY <1>1, <1>2, <1>3, <1>4, PTL DEF RegistrySpec, SlotsSpec, Slots!Spec

\* The step that LiveAgentStays allows.
StaysStep ==
  \A b \in Backends : AgentOf(b) # Absent /\ AgentOf(b)' = Absent /\ ~quiet[AgentOf(b)] =>
    Unregister(AgentOf(b))

\* Detaching what is stale takes no agent that is not quiet.
LEMMA DetachStays ==
  ASSUME RegistryInv, NEW B \in SUBSET Stale, Detach(B), Keeps(rec')
  PROVE  StaysStep
<1>1. B \in SUBSET Backends
  BY DEF Stale
<1>2. \A b \in Backends : AgentOf(b)' = IF b \in B THEN Absent ELSE AgentOf(b)
  BY <1>1, DetachAgents DEF RegistryInv
<1> QED
  BY <1>2, StaleQuiet DEF StaysStep

LEMMA StepStays == RegistryInv /\ [RegistryNext]_registryVars => StaysStep
<1> SUFFICES ASSUME RegistryInv, [RegistryNext]_registryVars PROVE StaysStep
  OBVIOUS
<1>t. TypeInv /\ \A b \in Backends : by_backend[b] # Absent => AgentOf(b) \in AgentIds
  BY AgentOfType DEF RegistryInv
<1>h. ASSUME by_backend' = by_backend, Keeps(rec')
      PROVE  StaysStep
  BY <1>t, <1>h, SameAgents DEF StaysStep
<1>1. ASSUME NEW a \in AgentIds, Heartbeat(a)
      PROVE  StaysStep
  BY <1>t, <1>h, <1>1, HeardKeeps DEF Heartbeat
<1>2. ASSUME NEW a \in AgentIds, Unregister(a)
      PROVE  StaysStep
  BY <1>2, UnregisterAgents DEF StaysStep
<1>3. ASSUME NEW a \in AgentIds, GoesQuiet(a)
      PROVE  StaysStep
  BY <1>t, <1>h, <1>3, SameKeeps DEF GoesQuiet
<1>4. ASSUME NEW a \in AgentIds, NEW b \in Homes[a], Register(a, b)
      PROVE  StaysStep
  BY <1>t, <1>4, RegisterAgents, RegistryAssumptions DEF StaysStep
<1>6. ASSUME NEW a \in AgentIds, NEW b \in Homes[a], Poll(a, b)
      PROVE  StaysStep
  <2>1. Keeps(rec')
    BY <1>t, <1>6, HeardKeeps, SameKeeps DEF Poll
  <2> QED
    BY <1>6, <2>1, DetachStays DEF Poll
<1>7. ASSUME NEW a \in AgentIds, NEW b \in Backends, LabStateAnswered(b, a)
      PROVE  StaysStep
  BY <1>t, <1>h, <1>7, SameKeeps DEF LabStateAnswered
<1>8. ASSUME NEW a \in AgentIds, NEW b \in Backends, LabStateStored(b, a)
      PROVE  StaysStep
  <2>1. Keeps(rec')
    BY <1>t, <1>8, HeardKeeps, SameKeeps DEF LabStateStored
  <2> QED
    BY <1>8, <2>1, DetachStays DEF LabStateStored
<1>9. ASSUME NEW b \in Backends, Lookup(b)
      PROVE  StaysStep
  BY <1>t, <1>9, SameKeeps, DetachStays DEF Lookup
<1>10. CASE Sweep
  BY <1>t, <1>10, SameKeeps, DetachStays DEF Sweep
<1>11. ASSUME NEW r \in Regs, RecordAges(r)
       PROVE  StaysStep
  BY <1>t, <1>h, <1>11, AgeKeeps DEF RecordAges
<1>12. CASE UNCHANGED registryVars
  BY <1>t, <1>h, <1>12, SameKeeps DEF registryVars
<1> QED
  BY <1>1, <1>2, <1>3, <1>4, <1>6, <1>7, <1>8, <1>9, <1>10, <1>11, <1>12 DEF RegistryNext

\* "no heartbeat -> edge considered gone", and only then: an agent that keeps
\* sending is never swept (registry.py:13, 138-201).
THEOREM HeardAgentsStay == OneHome => (RegistrySpec => LiveAgentStays)
<1> SUFFICES ASSUME OneHome PROVE RegistrySpec => LiveAgentStays
  OBVIOUS
<1>1. RegistryInit => RegistryInv
  BY InitRegistryInv
<1>2. RegistryInv /\ [RegistryNext]_registryVars => RegistryInv'
  BY NextRegistryInv
<1>3. RegistryInv /\ [RegistryNext]_registryVars =>
        [\A b \in Backends : AgentOf(b) # Absent /\ AgentOf(b)' = Absent /\ ~quiet[AgentOf(b)] =>
           Unregister(AgentOf(b))]_registryVars
  BY StepStays DEF StaysStep
<1> QED
  BY <1>1, <1>2, <1>3, PTL DEF RegistrySpec, LiveAgentStays

-----------------------------------------------------------------------------
(*****************************************************************************)
(* EdgeCommands.  For any number of commands, holders and agents and any set *)
(* of faults: what a caller is told is true of the execution, no command is  *)
(* handed out twice, and none after its caller gave it up.                   *)
(*****************************************************************************)
\* A nonempty set of numbers has a least one.
LEMMA LeastNumber ==
  ASSUME NEW S \in SUBSET Nat, S # {}
  PROVE  \E n \in S : \A m \in S : n <= m
<1> DEFINE less == {ss \in Nat \X Nat : ss[1] < ss[2]}
<1>1. less = OpToRel(<, Nat)
  BY Zenon DEF OpToRel
<1>2. IsWellFoundedOn(less, Nat)
  BY <1>1, NatLessThanWellFounded, Zenon
<1>3. PICK n \in S : \A m \in S : ~ (<<m, n>> \in less)
  <2> HIDE DEF less
  <2> QED
    BY <1>2, WFMin, Zenon
<1>4. ASSUME NEW m \in S PROVE n <= m
  <2>1. <<m, n>> \notin less
    BY <1>3, Zenon
  <2>2. <<m, n>> \in Nat \X Nat /\ <<m, n>>[1] = m /\ <<m, n>>[2] = n
    OBVIOUS
  <2>3. ~ (m < n)
    <3> SUFFICES ASSUME m < n PROVE <<m, n>> \in less
      BY <2>1, Zenon
    <3> QED
      BY <2>2
  <2> QED
    BY <2>3
<1> QED
  BY <1>4

(***************************************************************************)
(* The invariant.  What a caller is told rests on what the queue entry     *)
(* records, and that on where the one agent is that got the command.       *)
(***************************************************************************)

\* A queued command is there once, and was never handed out.
InQueue ==
  /\ \A i, k \in DOMAIN pending : pending[i] = pending[k] => i = k
  /\ \A i \in DOMAIN pending : /\ runs[pending[i]] = 0
                               /\ caller[pending[i]] \notin {"off", "sent"}

\* Nothing is known of a command that is not in the queue yet.
Unsent == \A c \in Cmds : caller[c] \in {"off", "sent"} => runs[c] = 0 /\ ~done[c] /\ error[c] = None

Busy(ag) == ag.at \in {"exec", "report", "excuse"}

\* A command has one agent at most, which got it the first time it was handed
\* out, and the place of that agent tells how the execution ended.
AtWork ==
  /\ \A a \in Agents : Busy(agent[a]) =>
       /\ agent[a].cmd \in Cmds /\ runs[agent[a].cmd] = 1
       /\ agent[a].at = "exec" => ended[agent[a].cmd] = None
       /\ agent[a].at = "report" => ended[agent[a].cmd] = "ok"
       /\ agent[a].at = "excuse" => ended[agent[a].cmd] \in {"error", "unsure"}
  /\ \A a, b \in Agents :
       Busy(agent[a]) /\ Busy(agent[b]) /\ agent[a].cmd = agent[b].cmd => a = b

\* What the entry of a command records is true of its execution, and there is
\* an error or a success by the time the caller looks.
Recorded == \A c \in Cmds :
  /\ runs[c] <= 1
  /\ runs[c] = 0 => ended[c] = None
  /\ error[c] = "error" => ended[c] \in {"error", "unsure"}
  /\ done[c] \/ caller[c] \in {"marked", "read"} => error[c] # None \/ ended[c] \in {"ok", "unsure"}
  /\ caller[c] \in {"read", "ok", "error", "timeout"} => done[c]
  /\ caller[c] = "ok" => ended[c] \in {"ok", "unsure"}
  /\ caller[c] = "error" => ended[c] \in {"error", "unsure"}

CommandInv == TypeOK /\ InQueue /\ Unsent /\ AtWork /\ Recorded

LEMMA InitCommandInv == Init => CommandInv
  BY DEF Init, CommandInv, TypeOK, InQueue, Unsent, AtWork, Recorded, Callers, Agent, Places, Parked, Busy

-----------------------------------------------------------------------------
\* The requests

\* A request that goes on without touching the queue or the history.
LEMMA CallerGoesOn ==
  ASSUME CommandInv, NEW c \in Cmds, NEW s \in Callers \ {"off", "sent"},
         caller' = [caller EXCEPT ![c] = s], caller[c] \notin {"off", "sent"},
         UNCHANGED <<pending, result, holder, lease, attached, agent, runs, ended>>,
         error' \in [Cmds -> {None, "timeout", "error"}], done' \in [Cmds -> BOOLEAN],
         \A x \in Cmds : x # c => error'[x] = error[x] /\ (done'[x] <=> done[x]),
         error'[c] = "error" => ended[c] \in {"error", "unsure"},
         done'[c] \/ s \in {"marked", "read"} => error'[c] # None \/ ended[c] \in {"ok", "unsure"},
         s \in {"read", "ok", "error", "timeout"} => done'[c],
         s = "ok" => ended[c] \in {"ok", "unsure"},
         s = "error" => ended[c] \in {"error", "unsure"}
  PROVE  CommandInv'
<1>1. TypeOK'
  BY DEF CommandInv, TypeOK
<1>2. InQueue'
  BY DEF CommandInv, InQueue, TypeOK
<1>3. Unsent'
  BY DEF CommandInv, Unsent, TypeOK
<1>4. AtWork'
  BY DEF CommandInv, AtWork, TypeOK
<1>5. Recorded'
  BY DEF CommandInv, Recorded, TypeOK
<1> QED
  BY <1>1, <1>2, <1>3, <1>4, <1>5 DEF CommandInv

LEMMA PostInv ==
  ASSUME CommandInv, NEW c \in Cmds, NEW h \in Holders, Post(c, h)
  PROVE  CommandInv'
<1>1. TypeOK'
  BY DEF CommandInv, TypeOK, Post, Callers, history
<1>2. InQueue' /\ Unsent' /\ AtWork' /\ Recorded'
  BY DEF CommandInv, TypeOK, Post, history, InQueue, Unsent, AtWork, Recorded
<1> QED
  BY <1>1, <1>2 DEF CommandInv

LEMMA EnqueueInv ==
  ASSUME CommandInv, NEW c \in Cmds, Enqueue(c)
  PROVE  CommandInv'
<1>1. /\ caller[c] = "sent" /\ caller' = [caller EXCEPT ![c] = "waiting"]
      /\ pending' = Append(pending, c) /\ pending \in Seq(Cmds)
      /\ UNCHANGED <<done, result, error, holder, lease, attached, agent, runs, ended>>
  BY DEF CommandInv, TypeOK, Enqueue, history
<1>2. /\ pending' \in Seq(Cmds)
      /\ DOMAIN pending' = 1..(Len(pending) + 1) /\ DOMAIN pending = 1..Len(pending)
      /\ Len(pending) \in Nat
      /\ \A i \in 1..Len(pending) : pending'[i] = pending[i]
      /\ pending'[Len(pending) + 1] = c
  BY <1>1
<1>3. TypeOK'
  BY <1>1, <1>2 DEF CommandInv, TypeOK, Callers
<1>4. runs[c] = 0 /\ \A i \in 1..Len(pending) : pending[i] # c
  BY <1>1, <1>2 DEF CommandInv, InQueue, Unsent
<1>5. InQueue'
  <2>1. \A i \in DOMAIN pending' : runs[pending'[i]] = 0 /\ caller'[pending'[i]] \notin {"off", "sent"}
    <3> SUFFICES ASSUME NEW i \in 1..(Len(pending) + 1)
                 PROVE  runs[pending'[i]] = 0 /\ caller'[pending'[i]] \notin {"off", "sent"}
      BY <1>2
    <3>1. CASE i = Len(pending) + 1
      BY <1>1, <1>2, <1>4, <3>1 DEF CommandInv, TypeOK
    <3>2. CASE i # Len(pending) + 1
      <4>1. i \in 1..Len(pending) /\ pending'[i] = pending[i] /\ pending[i] \in Cmds
        BY <1>1, <1>2, <3>2
      <4> QED
        BY <1>1, <1>2, <4>1 DEF CommandInv, TypeOK, InQueue
    <3> QED
      BY <3>1, <3>2
  <2>2. \A i, k \in DOMAIN pending' : pending'[i] = pending'[k] => i = k
    BY <1>2, <1>4 DEF CommandInv, InQueue
  <2> QED
    BY <1>1, <2>1, <2>2 DEF InQueue
<1>6. Unsent' /\ AtWork' /\ Recorded'
  BY <1>1 DEF CommandInv, TypeOK, Unsent, AtWork, Recorded
<1> QED
  BY <1>3, <1>5, <1>6 DEF CommandInv

LEMMA CallerInv ==
  ASSUME CommandInv, NEW c \in Cmds, CallerNext(c)
  PROVE  CommandInv'
<1>0. /\ error \in [Cmds -> {None, "timeout", "error"}] /\ done \in [Cmds -> BOOLEAN]
      /\ error[c] = "error" => ended[c] \in {"error", "unsure"}
      /\ done[c] \/ caller[c] \in {"marked", "read"} => error[c] # None \/ ended[c] \in {"ok", "unsure"}
      /\ caller[c] \in {"read", "ok", "error", "timeout"} => done[c]
  BY DEF CommandInv, TypeOK, Recorded
<1>1. CASE Enqueue(c)
  BY <1>1, EnqueueInv
<1>2. CASE Woken(c)
  <2>1. /\ caller' = [caller EXCEPT ![c] = "read"] /\ caller[c] \notin {"off", "sent"}
        /\ UNCHANGED <<pending, result, holder, lease, attached, agent, runs, ended>>
    BY <1>2 DEF Woken, history
  <2>2. done' = done /\ error' = error
    BY <1>2 DEF Woken
  <2>3. done[c]
    BY <1>2 DEF Woken
  <2> QED
    BY <1>0, <2>1, <2>2, <2>3, CallerGoesOn DEF Callers
<1>3. CASE TimesOut(c)
  <2>1. /\ caller' = [caller EXCEPT ![c] = "late"] /\ caller[c] \notin {"off", "sent"}
        /\ UNCHANGED <<pending, result, holder, lease, attached, agent, runs, ended>>
    BY <1>3 DEF TimesOut, history
  <2>2. done' = done /\ error' = error
    BY <1>3 DEF TimesOut
  <2> QED
    BY <1>0, <2>1, <2>2, CallerGoesOn DEF Callers
<1>4. CASE MarksError(c)
  <2>1. /\ caller' = [caller EXCEPT ![c] = "marked"] /\ caller[c] \notin {"off", "sent"}
        /\ UNCHANGED <<pending, result, holder, lease, attached, agent, runs, ended>>
    BY <1>4 DEF MarksError, history
  <2>2. /\ done' = done /\ error' \in [Cmds -> {None, "timeout", "error"}]
        /\ \A x \in Cmds : x # c => error'[x] = error[x]
        /\ error'[c] = IF error[c] = None THEN "timeout" ELSE error[c]
    BY <1>0, <1>4 DEF MarksError
  <2>3. error'[c] # None
    BY <2>2, CommandAssumptions
  <2> QED
    BY <1>0, <2>1, <2>2, <2>3, CallerGoesOn DEF Callers
<1>5. CASE MarksDone(c)
  <2>1. /\ caller' = [caller EXCEPT ![c] = "read"] /\ caller[c] \notin {"off", "sent"}
        /\ UNCHANGED <<pending, result, holder, lease, attached, agent, runs, ended>>
    BY <1>5 DEF MarksDone, history
  <2>2. /\ error' = error /\ done' \in [Cmds -> BOOLEAN] /\ done'[c]
        /\ \A x \in Cmds : x # c => (done'[x] <=> done[x])
    BY <1>0, <1>5 DEF MarksDone
  <2>3. caller[c] = "marked"
    BY <1>5 DEF MarksDone
  <2> QED
    BY <1>0, <2>1, <2>2, <2>3, CallerGoesOn DEF Callers
<1>6. CASE Answered(c)
  <2>1. PICK s : s = IF error[c] = None THEN "ok" ELSE error[c]
    OBVIOUS
  <2>2. /\ caller' = [caller EXCEPT ![c] = s] /\ caller[c] = "read"
        /\ UNCHANGED <<pending, result, holder, lease, attached, agent, runs, ended>>
        /\ done' = done /\ error' = error
    BY <1>6, <2>1 DEF Answered, history
  <2>3. s \in {"ok", "timeout", "error"}
    BY <1>0, <2>1
  <2>4. s \in Callers \ {"off", "sent"} /\ s \notin {"marked"}
    BY <2>3 DEF Callers
  <2>5. /\ s = "ok" => ended[c] \in {"ok", "unsure"}
        /\ s = "error" => ended[c] \in {"error", "unsure"}
    BY <1>0, <2>1, <2>2
  <2> QED
    BY <1>0, <2>2, <2>4, <2>5, CallerGoesOn
<1> QED
  BY <1>1, <1>2, <1>3, <1>4, <1>5, <1>6 DEF CallerNext

-----------------------------------------------------------------------------
\* The agents

\* An agent that has no command afterwards, with what is left of the queue
LEMMA AgentParked ==
  ASSUME CommandInv, NEW a \in Agents, NEW place \in {"off", "idle", "stopping", "gone"},
         Goes(a, place), InQueue', pending' \in Seq(Cmds), attached' \in Agents \cup {None},
         UNCHANGED <<done, result, error, caller, holder, lease, runs, ended>>
  PROVE  CommandInv'
<1>1. TypeOK'
  BY DEF CommandInv, TypeOK, Goes, Parked, Agent, Places
<1>2. AtWork'
  BY DEF CommandInv, TypeOK, AtWork, Goes, Parked, Busy
<1>3. Unsent' /\ Recorded'
  BY DEF CommandInv, Unsent, Recorded
<1> QED
  BY <1>1, <1>2, <1>3 DEF CommandInv

\* An undone command that poll() finds, and what it leaves of the queue
LEMMA RestFacts ==
  ASSUME CommandInv, Undone # {}
  PROVE  /\ FirstUndone \in DOMAIN pending
         /\ ~done[pending[FirstUndone]] /\ pending[FirstUndone] \in Cmds
         /\ Rest \in Seq(Cmds)
         /\ \A i \in DOMAIN Rest : /\ FirstUndone + i \in DOMAIN pending
                                   /\ FirstUndone + i # FirstUndone
                                   /\ Rest[i] = pending[FirstUndone + i]
         /\ \A i, k \in DOMAIN Rest : FirstUndone + i = FirstUndone + k => i = k
<1> DEFINE n == FirstUndone
<1>1. pending \in Seq(Cmds) /\ DOMAIN pending = 1..Len(pending) /\ Len(pending) \in Nat
  BY DEF CommandInv, TypeOK
<1>2. n \in Undone
  <2>1. Undone \in SUBSET Nat
    BY <1>1 DEF Undone
  <2>2. \E i \in Undone : \A k \in Undone : i <= k
    BY <2>1, LeastNumber
  <2> QED
    BY <2>2, Zenon DEF FirstUndone
<1>3. n \in 1..Len(pending) /\ ~done[pending[n]] /\ pending[n] \in Cmds
  BY <1>1, <1>2 DEF Undone
<1> HIDE DEF n
<1>4. /\ SubSeq(pending, n + 1, Len(pending)) \in Seq(Cmds)
      /\ DOMAIN SubSeq(pending, n + 1, Len(pending)) = 1..(Len(pending) - n)
      /\ \A i \in 1..(Len(pending) - n) : SubSeq(pending, n + 1, Len(pending))[i] = pending[n + i]
  BY <1>1, <1>3
<1>5. Rest = SubSeq(pending, n + 1, Len(pending))
  BY DEF Rest, n
<1>6. ASSUME NEW i \in DOMAIN Rest
      PROVE  n + i \in DOMAIN pending /\ n + i # n /\ Rest[i] = pending[n + i]
  BY <1>1, <1>3, <1>4, <1>5, <1>6
<1>7. \A i, k \in DOMAIN Rest : n + i = n + k => i = k
  BY <1>3, <1>4, <1>5
<1> QED
  BY <1>1, <1>3, <1>4, <1>5, <1>6, <1>7 DEF n

LEMMA RestSound ==
  ASSUME CommandInv, Undone # {}, pending' = Rest, caller' = caller,
         NEW c, c = pending[FirstUndone], \A x \in Cmds : x # c => runs'[x] = runs[x]
  PROVE  InQueue'
<1>1. ASSUME NEW i \in DOMAIN Rest, NEW k \in DOMAIN Rest, Rest[i] = Rest[k] PROVE i = k
  <2>1. FirstUndone + i = FirstUndone + k
    BY <1>1, RestFacts DEF CommandInv, InQueue
  <2> QED
    BY <2>1, RestFacts
<1>2. ASSUME NEW i \in DOMAIN Rest
      PROVE  runs'[Rest[i]] = 0 /\ caller[Rest[i]] \notin {"off", "sent"}
  <2>1. /\ FirstUndone + i \in DOMAIN pending /\ FirstUndone + i # FirstUndone
        /\ Rest[i] = pending[FirstUndone + i] /\ FirstUndone \in DOMAIN pending
    BY RestFacts
  <2>2. Rest[i] # c /\ Rest[i] \in Cmds
    BY <2>1 DEF CommandInv, InQueue, TypeOK
  <2> QED
    BY <2>1, <2>2 DEF CommandInv, InQueue
<1> QED
  BY <1>1, <1>2 DEF InQueue

LEMMA AgentPollInv ==
  ASSUME CommandInv, NEW a \in Agents, AgentPoll(a)
  PROVE  CommandInv'
<1>1. UNCHANGED <<done, result, error, caller, holder, lease, attached, ended>>
  BY DEF AgentPoll
<1>2. CASE Undone = {}
  <2>1. pending' = <<>> /\ agent' = agent /\ runs' = runs
    BY <1>2 DEF AgentPoll
  <2>2. TypeOK'
    BY <1>1, <2>1 DEF CommandInv, TypeOK
  <2>3. InQueue' /\ Unsent' /\ AtWork' /\ Recorded'
    BY <1>1, <2>1 DEF CommandInv, InQueue, Unsent, AtWork, Recorded
  <2> QED
    BY <2>2, <2>3 DEF CommandInv
<1>3. CASE Undone # {}
  <2>1. PICK c : c = pending[FirstUndone]
    OBVIOUS
  <2>2. /\ c \in Cmds /\ ~done[c] /\ runs[c] = 0 /\ caller[c] \notin {"off", "sent"}
        /\ Rest \in Seq(Cmds)
    BY <1>3, <2>1, RestFacts DEF CommandInv, InQueue
  <2>3. /\ pending' = Rest /\ runs' = [runs EXCEPT ![c] = @ + 1]
        /\ agent' = [agent EXCEPT ![a] = [at |-> "exec", cmd |-> c]] /\ agent[a].at = "idle"
    BY <1>3, <2>1 DEF AgentPoll
  <2>4. /\ runs' \in [Cmds -> Nat] /\ runs'[c] = 1 /\ \A x \in Cmds : x # c => runs'[x] = runs[x]
    BY <2>2, <2>3 DEF CommandInv, TypeOK
  <2>5. TypeOK'
    <3>1. [at |-> "exec", cmd |-> c] \in Agent
      BY <2>2 DEF Agent, Places
    <3> QED
      BY <1>1, <2>2, <2>3, <2>4, <3>1 DEF CommandInv, TypeOK
  <2>6. InQueue'
    BY <1>1, <1>3, <2>1, <2>3, <2>4, RestSound
  <2>7. Unsent'
    BY <1>1, <2>2, <2>4 DEF CommandInv, Unsent
  <2>8. AtWork'
    <3>1. /\ \A b \in Agents : b # a => agent'[b] = agent[b]
          /\ agent'[a].at = "exec" /\ agent'[a].cmd = c
      BY <2>3 DEF CommandInv, TypeOK
    <3>2. \A b \in Agents : Busy(agent[b]) => agent[b].cmd # c
      BY <2>2 DEF CommandInv, AtWork
    <3>3. ended[c] = None
      BY <2>2 DEF CommandInv, Recorded
    <3> QED
      BY <1>1, <2>2, <2>4, <3>1, <3>2, <3>3 DEF CommandInv, AtWork, Busy
  <2>9. Recorded'
    BY <1>1, <2>2, <2>4 DEF CommandInv, Recorded
  <2> QED
    BY <2>5, <2>6, <2>7, <2>8, <2>9 DEF CommandInv
<1> QED
  BY <1>2, <1>3

\* What an execution leaves of the invariant: the entry and the history of its
\* command change, and the agent that has it.
LEMMA CommandEnds ==
  ASSUME CommandInv, NEW a \in Agents, NEW c \in Cmds, Busy(agent[a]), agent[a].cmd = c,
         UNCHANGED <<pending, caller, holder, lease, attached, runs>>,
         done' \in [Cmds -> BOOLEAN], result' \in [Cmds -> BOOLEAN],
         error' \in [Cmds -> {None, "timeout", "error"}],
         ended' \in [Cmds -> {None, "ok", "error", "unsure"}],
         \A x \in Cmds : x # c => /\ error'[x] = error[x] /\ (done'[x] <=> done[x])
                                  /\ ended'[x] = ended[x],
         NEW place \in {"idle", "report", "excuse"},
         NEW left \in Agent, left.at = place, place # "idle" => left.cmd = c,
         agent' = [agent EXCEPT ![a] = left],
         place = "report" => ended'[c] = "ok",
         place = "excuse" => ended'[c] \in {"error", "unsure"},
         done[c] => done'[c],
         error'[c] = "error" => ended'[c] \in {"error", "unsure"},
         done'[c] \/ caller[c] = "marked" => error'[c] # None \/ ended'[c] \in {"ok", "unsure"},
         ended[c] \in {"ok", "unsure"} => ended'[c] \in {"ok", "unsure"},
         ended[c] \in {"error", "unsure"} => ended'[c] \in {"error", "unsure"}
  PROVE  CommandInv'
<1>1. runs[c] = 1 /\ caller[c] \notin {"off", "sent"}
  <2>1. runs[c] = 1
    BY DEF CommandInv, AtWork
  <2> QED
    BY <2>1 DEF CommandInv, Unsent
<1>2. TypeOK'
  BY DEF CommandInv, TypeOK
<1>3. InQueue'
  BY DEF CommandInv, InQueue
<1>4. Unsent'
  BY <1>1 DEF CommandInv, Unsent
<1>5. AtWork'
  <2>1. /\ \A b \in Agents : b # a => agent'[b] = agent[b]
        /\ agent'[a].at = place /\ (Busy(agent'[a]) => agent'[a].cmd = c)
    BY DEF CommandInv, TypeOK, Busy
  <2>2. \A b \in Agents : b # a /\ Busy(agent[b]) => agent[b].cmd # c
    BY DEF CommandInv, AtWork
  <2> QED
    BY <1>1, <2>1, <2>2 DEF CommandInv, AtWork, Busy
<1>6. Recorded'
  BY <1>1 DEF CommandInv, Recorded
<1> QED
  BY <1>2, <1>3, <1>4, <1>5, <1>6 DEF CommandInv

\* What an agent at work knows of its command
LEMMA WorkFacts ==
  ASSUME CommandInv, NEW a \in Agents, Busy(agent[a])
  PROVE  /\ agent[a].cmd \in Cmds /\ agent[a] \in Agent
         /\ agent[a].at = "exec" => ended[agent[a].cmd] = None
         /\ agent[a].at = "report" => ended[agent[a].cmd] = "ok"
         /\ agent[a].at = "excuse" => ended[agent[a].cmd] \in {"error", "unsure"}
  BY DEF CommandInv, TypeOK, AtWork, Agent

LEMMA AgentExecutedInv ==
  ASSUME CommandInv, NEW a \in Agents, NEW ok \in BOOLEAN, AgentExecuted(a, ok)
  PROVE  CommandInv'
<1>1. PICK c \in Cmds : c = agent[a].cmd /\ ended[c] = None /\ Busy(agent[a])
  BY WorkFacts DEF AgentExecuted, Busy
<1>2. PICK to : to = IF ok THEN "report" ELSE "excuse"
  OBVIOUS
<1>3. PICK left \in Agent : left = [at |-> to, cmd |-> c] /\ left.at = to /\ left.cmd = c
  <2>1. [at |-> to, cmd |-> c] \in Agent
    BY <1>2 DEF Agent, Places
  <2> QED
    BY <2>1
<1>4. /\ UNCHANGED <<pending, done, result, error, caller, holder, lease, attached, runs>>
      /\ ended' = [ended EXCEPT ![c] = IF ok THEN "ok" ELSE "error"]
      /\ agent' = [agent EXCEPT ![a] = left]
  <2>1. agent' = [agent EXCEPT ![a].at = to]
    BY <1>2 DEF AgentExecuted
  <2>2. [agent[a] EXCEPT !.at = to] = left
    BY <1>1, <1>3, WorkFacts DEF Agent
  <2>3. agent' = [agent EXCEPT ![a] = left]
    BY <2>1, <2>2 DEF CommandInv, TypeOK
  <2> QED
    BY <1>1, <2>3 DEF AgentExecuted, requests
<1>5. /\ ended' \in [Cmds -> {None, "ok", "error", "unsure"}]
      /\ ended'[c] = IF ok THEN "ok" ELSE "error"
      /\ \A x \in Cmds : x # c => ended'[x] = ended[x]
  BY <1>4 DEF CommandInv, TypeOK
<1>6. /\ error[c] # "error"
      /\ done[c] \/ caller[c] = "marked" => error[c] # None
  BY <1>1, CommandAssumptions DEF CommandInv, Recorded
<1>7. /\ done' \in [Cmds -> BOOLEAN] /\ result' \in [Cmds -> BOOLEAN]
      /\ error' \in [Cmds -> {None, "timeout", "error"}]
  BY <1>4 DEF CommandInv, TypeOK
<1>8. to \in {"idle", "report", "excuse"} /\ to # "idle"
  BY <1>2
<1>9. to = "report" <=> ok
  BY <1>2
<1>10. ended[c] \notin {"ok", "error", "unsure"}
  BY <1>1, CommandAssumptions
<1> QED
  BY <1>1, <1>2, <1>3, <1>4, <1>5, <1>6, <1>7, <1>8, <1>9, <1>10, CommandEnds

\* complete() in its two cases
LEMMA CompletedFacts ==
  ASSUME CommandInv, NEW c \in Cmds, NEW ok \in BOOLEAN, Completed(c, ok)
  PROVE  /\ done' \in [Cmds -> BOOLEAN] /\ result' \in [Cmds -> BOOLEAN]
         /\ error' \in [Cmds -> {None, "timeout", "error"}]
         /\ done'[c] /\ error'[c] = IF ok THEN None ELSE "error"
         /\ \A x \in Cmds : x # c => error'[x] = error[x] /\ (done'[x] <=> done[x])
  BY DEF CommandInv, TypeOK, Completed

LEMMA AgentReportsInv ==
  ASSUME CommandInv, NEW a \in Agents, AgentReports(a)
  PROVE  CommandInv'
<1>1. PICK c \in Cmds : c = agent[a].cmd
  BY WorkFacts DEF AgentReports, Reporting, Busy
<1>2. PICK ok \in BOOLEAN : ok <=> agent[a].at = "report"
  OBVIOUS
<1>3. /\ Busy(agent[a]) /\ ok => ended[c] = "ok"
      /\ ~ok => ended[c] \in {"error", "unsure"}
  BY <1>1, <1>2, WorkFacts DEF AgentReports, Reporting, Busy
<1>4. Completed(c, ok)
  <2>1. ok = (agent[a].at = "report")
    BY <1>2
  <2> QED
    BY <1>1, <2>1 DEF AgentReports
<1>5. PICK left \in Agent : left = Parked("idle") /\ left.at = "idle"
  <2>1. Parked("idle") \in Agent /\ Parked("idle").at = "idle"
    BY DEF Agent, Places, Parked
  <2> QED
    BY <2>1
<1>6. /\ UNCHANGED <<pending, caller, holder, lease, attached, runs, ended>>
      /\ agent' = [agent EXCEPT ![a] = left]
  BY <1>5 DEF AgentReports, Goes, Parked, history
<1>7. ended' \in [Cmds -> {None, "ok", "error", "unsure"}]
  BY <1>6 DEF CommandInv, TypeOK
<1>8. Busy(agent[a])
  BY DEF AgentReports, Reporting, Busy
<1>9. error'[c] = "error" => ~ok
  BY <1>4, CompletedFacts, CommandAssumptions
<1>10. error'[c] # None \/ ended'[c] \in {"ok", "unsure"}
  BY <1>3, <1>4, <1>6, <1>8, CompletedFacts, CommandAssumptions
<1>11. PICK to : to = "idle"
  OBVIOUS
<1>12. left.at = to
  BY <1>5, <1>11
<1>13. /\ to \in {"idle", "report", "excuse"} /\ to # "report" /\ to # "excuse"
       /\ error'[c] = "error" => ended'[c] \in {"error", "unsure"}
       /\ ended'[c] = ended[c] /\ \A x \in Cmds : ended'[x] = ended[x]
  BY <1>3, <1>6, <1>8, <1>9, <1>11
<1>14. /\ done' \in [Cmds -> BOOLEAN] /\ result' \in [Cmds -> BOOLEAN]
       /\ error' \in [Cmds -> {None, "timeout", "error"}] /\ done'[c]
       /\ \A x \in Cmds : x # c => error'[x] = error[x] /\ (done'[x] <=> done[x])
  BY <1>4, CompletedFacts
<1> QED
  BY <1>1, <1>6, <1>7, <1>8, <1>10, <1>12, <1>13, <1>14, CommandEnds

LEMMA AgentReportLostInv ==
  ASSUME CommandInv, NEW a \in Agents, NEW arrived \in BOOLEAN, AgentReportLost(a, arrived)
  PROVE  CommandInv'
<1>1. PICK c \in Cmds : c = agent[a].cmd
  BY WorkFacts DEF AgentReportLost, Reporting, Busy
<1>2. PICK ok \in BOOLEAN : ok <=> agent[a].at = "report"
  OBVIOUS
<1>3. Busy(agent[a]) /\ agent[a].at \in {"report", "excuse"}
  BY DEF AgentReportLost, Reporting, Busy
<1>4. /\ ok => ended[c] = "ok"
      /\ ~ok => ended[c] \in {"error", "unsure"}
  BY <1>1, <1>2, <1>3, WorkFacts
<1>5. PICK left \in Agent : left = IF ok THEN [at |-> "excuse", cmd |-> c] ELSE Parked("idle")
  BY DEF Agent, Places, Parked
<1>6. PICK to \in {"idle", "excuse"} : to = IF ok THEN "excuse" ELSE "idle"
  OBVIOUS
<1>7. left.at = to /\ (to # "idle" => left.cmd = c)
  BY <1>5, <1>6 DEF Parked
<1>8. /\ UNCHANGED <<pending, caller, holder, lease, attached, runs>>
      /\ ended' = [ended EXCEPT ![c] = IF @ = "ok" THEN "unsure" ELSE @]
      /\ agent' = [agent EXCEPT ![a] = left]
  <2>1. agent' = [agent EXCEPT ![a] = IF agent[a].at = "report" THEN [agent[a] EXCEPT !.at = "excuse"]
                                      ELSE Parked("idle")]
    BY DEF AgentReportLost, AfterFailedReport
  <2>2. [agent[a] EXCEPT !.at = "excuse"] = [at |-> "excuse", cmd |-> c]
    BY <1>1, <1>3, WorkFacts DEF Agent
  <2> QED
    BY <1>1, <1>2, <1>5, <2>1, <2>2 DEF AgentReportLost
<1>9. /\ ended' \in [Cmds -> {None, "ok", "error", "unsure"}]
      /\ ended'[c] = IF ok THEN "unsure" ELSE ended[c]
      /\ \A x \in Cmds : x # c => ended'[x] = ended[x]
  BY <1>4, <1>8 DEF CommandInv, TypeOK
<1>10. /\ done' \in [Cmds -> BOOLEAN] /\ result' \in [Cmds -> BOOLEAN]
       /\ error' \in [Cmds -> {None, "timeout", "error"}]
       /\ done[c] => done'[c]
       /\ error'[c] = "error" => error[c] = "error" \/ ~ok
       /\ done'[c] \/ caller[c] = "marked" => error'[c] # None \/ ended[c] \in {"ok", "unsure"}
       /\ \A x \in Cmds : x # c => error'[x] = error[x] /\ (done'[x] <=> done[x])
  <2>1. CASE arrived
    <3>1. Completed(c, ok)
      <4>1. ok = (agent[a].at = "report")
        BY <1>2
      <4> QED
        BY <1>1, <2>1, <4>1 DEF AgentReportLost
    <3> QED
      BY <1>4, <3>1, CompletedFacts, CommandAssumptions
  <2>2. CASE ~arrived
    <3>1. UNCHANGED <<done, result, error>>
      BY <2>2 DEF AgentReportLost
    <3>2. done[c] \/ caller[c] = "marked" => error[c] # None \/ ended[c] \in {"ok", "unsure"}
      BY DEF CommandInv, Recorded
    <3> QED
      BY <3>1, <3>2 DEF CommandInv, TypeOK
  <2> QED
    BY <2>1, <2>2
<1>11. error'[c] = "error" => ended'[c] \in {"error", "unsure"}
  BY <1>4, <1>9, <1>10 DEF CommandInv, Recorded
<1>12. done'[c] \/ caller[c] = "marked" => error'[c] # None \/ ended'[c] \in {"ok", "unsure"}
  BY <1>4, <1>9, <1>10
<1>13. /\ ended[c] \in {"ok", "unsure"} => ended'[c] \in {"ok", "unsure"}
       /\ ended[c] \in {"error", "unsure"} => ended'[c] \in {"error", "unsure"}
       /\ to = "excuse" => ended'[c] \in {"error", "unsure"} /\ to # "report"
       /\ to \in {"idle", "report", "excuse"} /\ to # "report"
  BY <1>4, <1>6, <1>9
<1> QED
  BY <1>1, <1>3, <1>7, <1>8, <1>9, <1>10, <1>11, <1>12, <1>13, CommandEnds, ZenonT(60)

LEMMA AgentInv ==
  ASSUME CommandInv, NEW a \in Agents, AgentNext(a)
  PROVE  CommandInv'
<1>1. CASE AgentRegister(a)
  <2>1. /\ Goes(a, "idle") /\ attached' = a /\ pending' = pending
        /\ UNCHANGED <<done, result, error, caller, holder, lease, runs, ended>>
    BY <1>1 DEF AgentRegister, requests, history
  <2>2. InQueue' /\ pending' \in Seq(Cmds)
    BY <2>1 DEF CommandInv, TypeOK, InQueue
  <2> QED
    BY <2>1, <2>2, AgentParked
<1>2. CASE AgentPoll(a)
  BY <1>2, AgentPollInv
<1>3. CASE AgentPollLost(a)
  <2>1. /\ Goes(a, "gone") /\ attached' = attached /\ pending' = Rest /\ Undone # {}
        /\ UNCHANGED <<done, result, error, caller, holder, lease, runs, ended>>
    BY <1>3 DEF AgentPollLost, history
  <2>2. InQueue' /\ pending' \in Seq(Cmds)
    BY <2>1, RestFacts, RestSound
  <2> QED
    BY <2>1, <2>2, AgentParked DEF CommandInv, TypeOK
<1>4. CASE AgentTurnedAway(a) \/ AgentInterrupt(a) \/ AgentUnregister(a) \/ AgentCrash(a)
  <2>1. /\ Goes(a, "gone") \/ Goes(a, "stopping")
        /\ attached' \in {attached, None} /\ pending' = pending
        /\ UNCHANGED <<done, result, error, caller, holder, lease, runs, ended>>
    BY <1>4 DEF AgentTurnedAway, AgentInterrupt, AgentUnregister, AgentCrash, requests, history
  <2>2. InQueue' /\ pending' \in Seq(Cmds) /\ attached' \in Agents \cup {None}
    BY <2>1 DEF CommandInv, TypeOK, InQueue
  <2> QED
    BY <2>1, <2>2, AgentParked
<1>5. CASE \E ok \in BOOLEAN : AgentExecuted(a, ok)
  BY <1>5, AgentExecutedInv
<1>6. CASE AgentReports(a)
  BY <1>6, AgentReportsInv
<1>7. CASE \E arrived \in BOOLEAN : AgentReportLost(a, arrived)
  BY <1>7, AgentReportLostInv
<1> QED
  BY <1>1, <1>2, <1>3, <1>4, <1>5, <1>6, <1>7 DEF AgentNext

-----------------------------------------------------------------------------
LEMMA NextCommandInv == CommandInv /\ [Next]_vars => CommandInv'
<1> SUFFICES ASSUME CommandInv, [Next]_vars PROVE CommandInv'
  OBVIOUS
<1>1. ASSUME NEW c \in Cmds, CallerNext(c) \/ \E h \in Holders : Post(c, h) PROVE CommandInv'
  BY <1>1, CallerInv, PostInv
<1>2. ASSUME NEW a \in Agents, AgentNext(a) PROVE CommandInv'
  BY <1>2, AgentInv
<1>3. CASE UNCHANGED vars \/ LeaseEnds \/ Evict \/ \E h \in Holders : Acquire(h)
  <2>1. /\ UNCHANGED <<pending, done, result, error, caller, holder, agent, runs, ended>>
        /\ lease' \in Holders \cup {None} /\ attached' \in Agents \cup {None}
    BY <1>3 DEF vars, LeaseEnds, Evict, Acquire, requests, history, CommandInv, TypeOK
  <2>2. TypeOK'
    BY <2>1 DEF CommandInv, TypeOK
  <2>3. InQueue' /\ Unsent' /\ AtWork' /\ Recorded'
    BY <2>1 DEF CommandInv, InQueue, Unsent, AtWork, Recorded
  <2> QED
    BY <2>2, <2>3 DEF CommandInv
<1> QED
  BY <1>1, <1>2, <1>3 DEF Next

\* The queue, the entries, the callers and the agents keep their types.
THEOREM CommandsTyped == Spec => []TypeOK
<1>1. CommandInv => TypeOK
  BY DEF CommandInv
<1> QED
  BY InitCommandInv, NextCommandInv, <1>1, PTL DEF Spec

\* Whoever gives up while complete() arrives (wait and complete write `error'
\* and the event in either order): an answer without an error means that the
\* command was executed to its end.
THEOREM SuccessIsTrue == Spec => []OkMeansExecuted
<1>1. CommandInv => OkMeansExecuted
  BY DEF CommandInv, Recorded, OkMeansExecuted
<1> QED
  BY InitCommandInv, NextCommandInv, <1>1, PTL DEF Spec

\* ... and an error of the edge that it failed there, or that the report of
\* its success failed (the except clauses of the agent's loop).
THEOREM FailureIsTrue == Spec => []ErrorHasCause
<1>1. CommandInv => ErrorHasCause
  BY DEF CommandInv, Recorded, ErrorHasCause
<1> QED
  BY InitCommandInv, NextCommandInv, <1>1, PTL DEF Spec

\* poll() hands a command out once: not to an agent that took over, not after a
\* poll whose answer was lost.
THEOREM HandedOutOnce == Spec => []DeliveredOnce
<1>1. CommandInv => DeliveredOnce
  BY DEF CommandInv, Recorded, DeliveredOnce
<1> QED
  BY InitCommandInv, NextCommandInv, <1>1, PTL DEF Spec

\* A command that was given up before any agent got it is skipped by poll().
THEOREM GivenUpStaysUndone == Spec => GivenUpNeverRuns
<1>1. CommandInv /\ [Next]_vars
        => [\A c \in Cmds : caller[c] = "timeout" /\ runs[c] = 0 => runs'[c] = 0]_vars
  <2> SUFFICES ASSUME CommandInv, Next, NEW c \in Cmds, caller[c] = "timeout", runs[c] = 0
               PROVE  runs'[c] = 0
    OBVIOUS
  <2>1. done[c]
    BY DEF CommandInv, Recorded
  <2>2. ASSUME NEW a \in Agents, AgentPoll(a) PROVE runs'[c] = 0
    <3>1. CASE Undone = {}
      BY <2>2, <3>1 DEF AgentPoll
    <3>2. CASE Undone # {}
      <4>1. /\ pending[FirstUndone] # c
            /\ runs' = [runs EXCEPT ![pending[FirstUndone]] = @ + 1]
        BY <2>1, <2>2, <3>2, RestFacts DEF AgentPoll
      <4> QED
        BY <4>1 DEF CommandInv, TypeOK
    <3> QED
      BY <3>1, <3>2
  <2>3. (\A a \in Agents : ~AgentPoll(a)) => runs' = runs
    BY DEF Next, CallerNext, AgentNext, Post, Enqueue, Woken, TimesOut, MarksError, MarksDone,
           Answered, AgentRegister, AgentPollLost, AgentTurnedAway, AgentExecuted, AgentReports,
           AgentReportLost, AgentInterrupt, AgentUnregister, AgentCrash, Acquire, LeaseEnds,
           Evict, history
  <2> QED
    BY <2>2, <2>3
<1> QED
  BY InitCommandInv, NextCommandInv, <1>1, PTL DEF Spec, GivenUpNeverRuns

=============================================================================
