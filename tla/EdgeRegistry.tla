---------------------------- MODULE EdgeRegistry ----------------------------
(***************************************************************************)
(* backend/lab_model/execution/edge/registry.py: which edge agent serves   *)
(* which backend, and whose lab state is shown for it.                     *)
(*                                                                         *)
(* A record is an object that both maps of the registry refer to, so the   *)
(* model keeps records apart from the maps; an object that neither map     *)
(* refers to is garbage and may be used again.  Times are not modelled: a  *)
(* record is old once its last_heartbeat_at is more than stale_after_s     *)
(* ago, and an agent is quiet once it has sent nothing for that long.      *)
(*                                                                         *)
(* Every method takes the registry's lock, and the HTTP handlers and the   *)
(* sweeper, which call them, run on one event loop without an await.       *)
(***************************************************************************)
CONSTANTS
  Backends,
  AgentIds,     \* the registry makes one up unless the agent brings its own
  Homes,        \* Homes[a]: the backends agents register for under id a
  Regs,         \* record objects
  Absent

ASSUME RegistryAssumptions ==
  /\ Absent \notin Backends \cup AgentIds \cup Regs
  /\ Homes \in [AgentIds -> SUBSET Backends]

VARIABLES
  by_backend,       \* _by_backend
  by_agent,         \* _by_agent
  rec,              \* the record objects
  last_disconnect,  \* _last_disconnect: the agent evicted last
  quiet,            \* quiet[a]: no request of agent a for stale_after_s
  fetched           \* <<b, a>>: GET /api/lab-state for b awaits a's answer

registryVars == <<by_backend, by_agent, rec, last_disconnect, quiet, fetched>>

Record == [agent_id   : AgentIds,
           backend_id : Backends,
           old        : BOOLEAN,
           lab_state  : AgentIds \cup {Absent}]   \* whose snapshot it is

RegistryTypeOK ==
  /\ by_backend \in [Backends -> Regs \cup {Absent}]
  /\ by_agent \in [AgentIds -> Regs \cup {Absent}]
  /\ rec \in [Regs -> Record \cup {Absent}]
  /\ last_disconnect \in [Backends -> AgentIds \cup {Absent}]
  /\ quiet \in [AgentIds -> BOOLEAN]
  /\ fetched \subseteq Backends \X AgentIds

RegistryInit ==
  /\ by_backend = [b \in Backends |-> Absent]
  /\ by_agent = [a \in AgentIds |-> Absent]
  /\ rec = [r \in Regs |-> Absent]
  /\ last_disconnect = [b \in Backends |-> Absent]
  /\ quiet = [a \in AgentIds |-> FALSE]
  /\ fetched = {}

Free(r) ==
  /\ \A b \in Backends : by_backend[b] # r
  /\ \A a \in AgentIds : by_agent[a] # r

\* The agent of a backend, stale or not.
AgentOf(b) == IF by_backend[b] = Absent THEN Absent ELSE rec[by_backend[b]].agent_id

Stale == {b \in Backends : by_backend[b] # Absent /\ rec[by_backend[b]].old}

-----------------------------------------------------------------------------
\* Faulty: the record of the agent that is replaced stays in _by_agent.
FaultyRegistered(a, b, r) == [by_agent EXCEPT ![a] = r]

\* What register() leaves in _by_agent: the record it replaces is popped first.
Registered(a, b, r) ==
  [x \in AgentIds |-> IF x = a THEN r ELSE IF x = AgentOf(b) THEN Absent ELSE by_agent[x]]

\* POST /api/edge/register
Register(a, b) ==
  \E r \in {x \in Regs : Free(x)} :
    /\ by_agent' = Registered(a, b, r)
    /\ by_backend' = [by_backend EXCEPT ![b] = r]
    /\ rec' = [rec EXCEPT ![r] =
                 [agent_id |-> a, backend_id |-> b, old |-> FALSE, lab_state |-> Absent]]
    /\ last_disconnect' = [last_disconnect EXCEPT ![b] = Absent]
    /\ quiet' = [quiet EXCEPT ![a] = FALSE]
    /\ UNCHANGED fetched

\* Faulty: a heartbeat stores the snapshot and forgets last_heartbeat_at.
FaultyHeard(a, s) ==
  IF by_agent[a] = Absent THEN rec
  ELSE [rec EXCEPT ![by_agent[a]].lab_state = IF s = Absent THEN @ ELSE s]

\* heartbeat(a, lab_state=s): an unknown agent changes nothing.
Heard(a, s) ==
  IF by_agent[a] = Absent THEN rec
  ELSE [rec EXCEPT ![by_agent[a]].old = FALSE,
                   ![by_agent[a]].lab_state = IF s = Absent THEN @ ELSE s]

\* POST /api/edge/heartbeat; lab_state may be missing.
Heartbeat(a) ==
  /\ \E s \in {a, Absent} : rec' = Heard(a, s)
  /\ quiet' = [quiet EXCEPT ![a] = FALSE]
  /\ UNCHANGED <<by_backend, by_agent, last_disconnect, fetched>>

\* POST /api/edge/unregister
Unregister(a) ==
  /\ by_agent[a] # Absent
  /\ LET b == rec[by_agent[a]].backend_id
     IN  by_backend' = IF AgentOf(b) = a THEN [by_backend EXCEPT ![b] = Absent] ELSE by_backend
  /\ by_agent' = [by_agent EXCEPT ![a] = Absent]
  /\ UNCHANGED <<rec, last_disconnect, quiet, fetched>>

\* _detach_locked for the records of the backends B: what _by_agent holds under
\* the agent's id goes, whatever record it is.
Detach(B) ==
  /\ by_backend' = [b \in Backends |-> IF b \in B THEN Absent ELSE by_backend[b]]
  /\ by_agent' = [a \in AgentIds |-> IF \E b \in B : AgentOf(b) = a THEN Absent ELSE by_agent[a]]
  /\ last_disconnect' = [b \in Backends |-> IF b \in B THEN AgentOf(b) ELSE last_disconnect[b]]

\* sweep_stale
Sweep ==
  /\ Detach(Stale)
  /\ UNCHANGED <<rec, quiet, fetched>>

\* get_for_backend, called for its answer alone.
Lookup(b) ==
  /\ Detach(Stale \cap {b})
  /\ UNCHANGED <<rec, quiet, fetched>>

\* GET /api/edge/work and /api/edge/commands: get_for_backend, and a heartbeat
\* if it is this agent that is attached.
Poll(a, b) ==
  /\ Detach(Stale \cap {b})
  /\ rec' = IF b \notin Stale /\ AgentOf(b) = a THEN Heard(a, Absent) ELSE rec
  /\ quiet' = [quiet EXCEPT ![a] = FALSE]
  /\ UNCHANGED fetched

-----------------------------------------------------------------------------
\* GET /api/lab-state, when no snapshot was cached: the attached agent a answers
\* the get_lab_state command of the request ...
LabStateAnswered(b, a) ==
  /\ AgentOf(b) = a
  /\ fetched' = fetched \cup {<<b, a>>}
  /\ UNCHANGED <<by_backend, by_agent, rec, last_disconnect, quiet>>

\* ... and after that await the handler asks for the attached agent again and
\* stores the answer as that agent's heartbeat.
LabStateStored(b, a) ==
  /\ <<b, a>> \in fetched
  /\ fetched' = fetched \ {<<b, a>>}
  /\ Detach(Stale \cap {b})
  /\ rec' = IF b \in Stale \/ by_backend[b] = Absent THEN rec ELSE Heard(AgentOf(b), a)
  /\ UNCHANGED quiet

-----------------------------------------------------------------------------
\* Time passes.  A record is old only if heartbeats did not come, or went to
\* another record.
GoesQuiet(a) ==
  /\ ~quiet[a]
  /\ quiet' = [quiet EXCEPT ![a] = TRUE]
  /\ UNCHANGED <<by_backend, by_agent, rec, last_disconnect, fetched>>

RecordAges(r) ==
  /\ ~Free(r) /\ ~rec[r].old
  /\ quiet[rec[r].agent_id] \/ by_agent[rec[r].agent_id] # r
  /\ rec' = [rec EXCEPT ![r].old = TRUE]
  /\ UNCHANGED <<by_backend, by_agent, last_disconnect, quiet, fetched>>

-----------------------------------------------------------------------------
RegistryNext ==
  \/ \E a \in AgentIds :
       \/ Heartbeat(a) \/ Unregister(a) \/ GoesQuiet(a)
       \/ \E b \in Homes[a] : Register(a, b) \/ Poll(a, b)
       \/ \E b \in Backends : LabStateAnswered(b, a) \/ LabStateStored(b, a)
  \/ \E b \in Backends : Lookup(b)
  \/ Sweep
  \/ \E r \in Regs : RecordAges(r)

RegistrySpec == RegistryInit /\ [][RegistryNext]_registryVars

-----------------------------------------------------------------------------
\* An agent that is attached can be heard: its id leads to the record of its
\* backend, and no other id leads to a record that is attached nowhere.
MapsAgree ==
  /\ \A b \in Backends : by_backend[b] # Absent => by_agent[AgentOf(b)] = by_backend[b]
  /\ \A a \in AgentIds : by_agent[a] # Absent =>
       rec[by_agent[a]].agent_id = a /\ by_backend[rec[by_agent[a]].backend_id] = by_agent[a]

\* The registry implements AgentSlots, for the agents read off its records.
Slots == INSTANCE AgentSlots WITH attached <- [b \in Backends |-> AgentOf(b)], None <- Absent
SlotsSpec == Slots!Spec

\* "no heartbeat -> edge considered gone": an agent that keeps sending is
\* detached only when it unregisters or another one takes its place.
LiveAgentStays ==
  [][\A b \in Backends : AgentOf(b) # Absent /\ AgentOf(b)' = Absent /\ ~quiet[AgentOf(b)] =>
       Unregister(AgentOf(b))]_registryVars

=============================================================================
