---------------------------- MODULE EdgeCommands ----------------------------
(***************************************************************************)
(* backend/lab_model/execution/edge/commands.py and its two sides: the     *)
(* POST /api/command requests that put a command into the queue and wait   *)
(* for its answer in a worker thread (PollEdgeClient.execute_command), and *)
(* the edge agents that poll, execute and answer                           *)
(* (scripts/ops/mock_edge_agent.py).  One backend, with a lease required.  *)
(*                                                                         *)
(* A waiting thread holds no lock while it gives up (wait()), so its two   *)
(* writes after a timeout interleave with everything else.  complete()     *)
(* runs on the event loop, like every handler, and is one step.            *)
(***************************************************************************)
EXTENDS Naturals, Sequences, FiniteSets

CONSTANTS
  Cmds,         \* commands; each is a request of its own
  Holders,      \* lease holders
  Agents,       \* edge agent processes
  None,
  Faults        \* see FaultKinds

\* "timeout": an answer takes longer than timeout_s.  "evict": an
\* agent misses its heartbeats.  "crash": an agent dies, is stopped, or its poll
\* response is lost.  "lost": a report, or the response to it, is lost.
FaultKinds == {"timeout", "evict", "crash", "lost"}

ASSUME CommandAssumptions ==
  /\ Faults \subseteq FaultKinds
  /\ None \notin Cmds \cup Holders \cup Agents \cup {"timeout", "error", "ok", "unsure"}
  /\ IsFiniteSet(Cmds)

VARIABLES
  pending,      \* _pending of the backend
  done,         \* EdgeCommand.done
  result,       \* EdgeCommand.result is set
  error,        \* EdgeCommand.error: what made it
  caller,       \* caller[c]: where the request of c is
  holder,       \* holder[c]: whose lease admitted c
  lease,        \* the holder of the live lease
  attached,     \* the agent attached to the backend
  agent,        \* agent[a]: what process a does
  runs,         \* history: how often an agent got c
  ended         \* history: how c's execution ended last; "unsure" once a
                \* report of its success has failed

requests == <<pending, done, result, error, caller, holder>>
history == <<runs, ended>>
vars == <<requests, lease, attached, agent, history>>

Callers == {"off", "sent", "waiting", "late", "marked", "read", "ok", "error", "timeout"}
Places == {"off", "idle", "exec", "report", "excuse", "stopping", "gone"}
Agent == [at : Places, cmd : Cmds \cup {None}]
Parked(place) == [at |-> place, cmd |-> None]

TypeOK ==
  /\ pending \in Seq(Cmds)
  /\ done \in [Cmds -> BOOLEAN] /\ result \in [Cmds -> BOOLEAN]
  /\ error \in [Cmds -> {None, "timeout", "error"}]
  /\ caller \in [Cmds -> Callers]
  /\ holder \in [Cmds -> Holders \cup {None}]
  /\ lease \in Holders \cup {None}
  /\ attached \in Agents \cup {None}
  /\ agent \in [Agents -> Agent]
  /\ runs \in [Cmds -> Nat]
  /\ ended \in [Cmds -> {None, "ok", "error", "unsure"}]

Init ==
  /\ pending = <<>>
  /\ done = [c \in Cmds |-> FALSE] /\ result = [c \in Cmds |-> FALSE]
  /\ error = [c \in Cmds |-> None]
  /\ caller = [c \in Cmds |-> "off"]
  /\ holder = [c \in Cmds |-> None]
  /\ lease = None
  /\ attached = None
  /\ agent = [a \in Agents |-> Parked("off")]
  /\ runs = [c \in Cmds |-> 0]
  /\ ended = [c \in Cmds |-> None]

-----------------------------------------------------------------------------
\* The request

\* POST /api/command: validate_command_lease, then the client for a backend
\* with an agent attached, which hands over to a worker thread.
Post(c, h) ==
  /\ caller[c] = "off"
  /\ lease = h /\ attached # None
  /\ caller' = [caller EXCEPT ![c] = "sent"]
  /\ holder' = [holder EXCEPT ![c] = h]
  /\ UNCHANGED <<pending, done, result, error, lease, attached, agent, history>>

\* submit, in the worker thread.
Enqueue(c) ==
  /\ caller[c] = "sent"
  /\ caller' = [caller EXCEPT ![c] = "waiting"]
  /\ pending' = Append(pending, c)
  /\ UNCHANGED <<done, result, error, holder, lease, attached, agent, history>>

\* wait: the event is set in time ...
Woken(c) ==
  /\ caller[c] = "waiting" /\ done[c]
  /\ caller' = [caller EXCEPT ![c] = "read"]
  /\ UNCHANGED <<pending, done, result, error, holder, lease, attached, agent, history>>

\* Faulty: only a command that is still in the queue times out.
FaultyTimesOut(c) ==
  /\ "timeout" \in Faults
  /\ caller[c] = "waiting" /\ ~done[c]
  /\ \E i \in DOMAIN pending : pending[i] = c
  /\ caller' = [caller EXCEPT ![c] = "late"]
  /\ UNCHANGED <<pending, done, result, error, holder, lease, attached, agent, history>>

\* ... or it is not; then the thread notes the error, unless there is one ...
TimesOut(c) ==
  /\ "timeout" \in Faults
  /\ caller[c] = "waiting" /\ ~done[c]
  /\ caller' = [caller EXCEPT ![c] = "late"]
  /\ UNCHANGED <<pending, done, result, error, holder, lease, attached, agent, history>>

\* Faulty: giving up sets the event but no error.
FaultyMarksError(c) ==
  /\ caller[c] = "late"
  /\ caller' = [caller EXCEPT ![c] = "marked"]
  /\ UNCHANGED <<pending, done, result, error, holder, lease, attached, agent, history>>

MarksError(c) ==
  /\ caller[c] = "late"
  /\ error' = [error EXCEPT ![c] = IF @ = None THEN "timeout" ELSE @]
  /\ caller' = [caller EXCEPT ![c] = "marked"]
  /\ UNCHANGED <<pending, done, result, holder, lease, attached, agent, history>>

\* Faulty: giving up leaves the command undone.
FaultyMarksDone(c) ==
  /\ caller[c] = "marked"
  /\ caller' = [caller EXCEPT ![c] = "read"]
  /\ UNCHANGED <<pending, done, result, error, holder, lease, attached, agent, history>>

\* ... and sets the event itself.
MarksDone(c) ==
  /\ caller[c] = "marked"
  /\ done' = [done EXCEPT ![c] = TRUE]
  /\ caller' = [caller EXCEPT ![c] = "read"]
  /\ UNCHANGED <<pending, result, error, holder, lease, attached, agent, history>>

\* Back on the event loop: without an error the answer is {"status": "ok"} or
\* the result.
Answered(c) ==
  /\ caller[c] = "read"
  /\ caller' = [caller EXCEPT ![c] = IF error[c] = None THEN "ok" ELSE error[c]]
  /\ UNCHANGED <<pending, done, result, error, holder, lease, attached, agent, history>>

-----------------------------------------------------------------------------
\* The lease and the registry, as far as they matter here

Acquire(h) ==
  /\ lease = None
  /\ lease' = h
  /\ UNCHANGED <<requests, attached, agent, history>>

\* The holder releases the lease, or it expires.
LeaseEnds ==
  /\ lease # None
  /\ lease' = None
  /\ UNCHANGED <<requests, attached, agent, history>>

\* _on_edge_evicted: leases are dropped and jobs are failed; the command queue
\* is not touched.
Evict ==
  /\ "evict" \in Faults
  /\ attached # None
  /\ attached' = None /\ lease' = None
  /\ UNCHANGED <<requests, agent, history>>

-----------------------------------------------------------------------------
\* The agents

Goes(a, place) == agent' = [agent EXCEPT ![a] = Parked(place)]

AgentRegister(a) ==
  /\ agent[a].at = "off"
  /\ attached' = a
  /\ Goes(a, "idle")
  /\ UNCHANGED <<requests, lease, history>>

\* The entries of the queue that nobody has given up.
Undone == {i \in DOMAIN pending : ~done[pending[i]]}

FirstUndone == CHOOSE i \in Undone : \A k \in Undone : i <= k

\* Faulty: the entry that is handed out stays in the queue.
FaultyRest == SubSeq(pending, FirstUndone, Len(pending))

\* What poll() leaves of the queue when it finds a command.
Rest == SubSeq(pending, FirstUndone + 1, Len(pending))

\* GET /api/edge/commands, by the agent that is attached.
AgentPoll(a) ==
  /\ agent[a].at = "idle" /\ attached = a
  /\ IF Undone = {}
     THEN pending' = <<>> /\ UNCHANGED <<agent, runs>>
     ELSE /\ pending' = Rest
          /\ runs' = [runs EXCEPT ![pending[FirstUndone]] = @ + 1]
          /\ agent' = [agent EXCEPT ![a] = [at |-> "exec", cmd |-> pending[FirstUndone]]]
  /\ UNCHANGED <<done, result, error, caller, holder, lease, attached, ended>>

\* The same, but the response never reaches the agent, which ends.
AgentPollLost(a) ==
  /\ "crash" \in Faults
  /\ agent[a].at = "idle" /\ attached = a /\ Undone # {}
  /\ pending' = Rest
  /\ Goes(a, "gone")
  /\ UNCHANGED <<done, result, error, caller, holder, lease, attached, history>>

\* 409, or 404 to a heartbeat: nothing catches the exception, the process ends.
AgentTurnedAway(a) ==
  /\ agent[a].at = "idle" /\ attached # a
  /\ Goes(a, "gone")
  /\ UNCHANGED <<requests, lease, attached, history>>

\* execute_validated_command returned (ok) or raised.
AgentExecuted(a, ok) ==
  /\ agent[a].at = "exec"
  /\ ended' = [ended EXCEPT ![agent[a].cmd] = IF ok THEN "ok" ELSE "error"]
  /\ agent' = [agent EXCEPT ![a].at = IF ok THEN "report" ELSE "excuse"]
  /\ UNCHANGED <<requests, lease, attached, runs>>

\* Faulty: str(None) is stored as the error of a success.
FaultyCompletedText(c, ok) ==
  /\ done' = [done EXCEPT ![c] = TRUE]
  /\ result' = [result EXCEPT ![c] = ok]
  /\ error' = [error EXCEPT ![c] = "error"]

\* complete(): whether or not the command is done already.  The text of an
\* exception is taken not to be empty; an empty one would pass for no error.
Completed(c, ok) ==
  /\ done' = [done EXCEPT ![c] = TRUE]
  /\ result' = [result EXCEPT ![c] = ok]
  /\ error' = [error EXCEPT ![c] = IF ok THEN None ELSE "error"]

Reporting(a) == agent[a].at \in {"report", "excuse"}

\* Where a refused or unanswered report leads: a result that could not be
\* reported is excused with an error, an error is not reported twice.
AfterFailedReport(a) ==
  [agent EXCEPT ![a] = IF @.at = "report" THEN [@ EXCEPT !.at = "excuse"] ELSE Parked("idle")]

\* POST /api/edge/commands/{command_id}/complete
AgentReports(a) ==
  /\ Reporting(a)
  /\ Completed(agent[a].cmd, agent[a].at = "report")
  /\ Goes(a, "idle")
  /\ UNCHANGED <<pending, caller, holder, lease, attached, history>>

\* The request is lost, or only the response to it.
AgentReportLost(a, arrived) ==
  /\ "lost" \in Faults
  /\ Reporting(a)
  /\ IF arrived THEN Completed(agent[a].cmd, agent[a].at = "report")
     ELSE UNCHANGED <<done, result, error>>
  /\ agent' = AfterFailedReport(a)
  /\ ended' = [ended EXCEPT ![agent[a].cmd] = IF @ = "ok" THEN "unsure" ELSE @]
  /\ UNCHANGED <<pending, caller, holder, lease, attached, runs>>

\* Ctrl-C, then POST /api/edge/unregister.
AgentInterrupt(a) ==
  /\ "crash" \in Faults
  /\ agent[a].at \in {"idle", "exec", "report", "excuse"}
  /\ Goes(a, "stopping")
  /\ UNCHANGED <<requests, lease, attached, history>>

AgentUnregister(a) ==
  /\ agent[a].at = "stopping"
  /\ Goes(a, "gone")
  /\ attached' = IF attached = a THEN None ELSE attached
  /\ UNCHANGED <<requests, lease, history>>

AgentCrash(a) ==
  /\ "crash" \in Faults
  /\ agent[a].at \notin {"off", "gone"}
  /\ Goes(a, "gone")
  /\ UNCHANGED <<requests, lease, attached, history>>

-----------------------------------------------------------------------------
CallerNext(c) ==
  Enqueue(c) \/ Woken(c) \/ TimesOut(c) \/ MarksError(c) \/ MarksDone(c) \/ Answered(c)

AgentNext(a) ==
  \/ AgentRegister(a) \/ AgentPoll(a) \/ AgentPollLost(a) \/ AgentTurnedAway(a)
  \/ (\E ok \in BOOLEAN : AgentExecuted(a, ok)) \/ AgentReports(a)
  \/ (\E arrived \in BOOLEAN : AgentReportLost(a, arrived))
  \/ AgentInterrupt(a) \/ AgentUnregister(a) \/ AgentCrash(a)

Next ==
  \/ \E c \in Cmds : CallerNext(c) \/ \E h \in Holders : Post(c, h)
  \/ \E a \in Agents : AgentNext(a)
  \/ \E h \in Holders : Acquire(h)
  \/ LeaseEnds \/ Evict

Spec == Init /\ [][Next]_vars

\* The threads of the requests that can go on do, and a timer that may run out
\* does run out; nothing is asked of the agents.
Fairness == \A c \in Cmds : WF_vars(CallerNext(c))

FairSpec == Spec /\ Fairness

-----------------------------------------------------------------------------
\* A caller is told of success only if the command was executed to its end, for
\* all the writes of a late answer and a timeout that cross.
OkMeansExecuted == \A c \in Cmds : caller[c] = "ok" => ended[c] \in {"ok", "unsure"}

\* No command is handed out twice, also not to an agent that took over.
DeliveredOnce == \A c \in Cmds : runs[c] <= 1

\* A command whose caller was told of a timeout before any agent got it is never
\* executed afterwards.
GivenUpNeverRuns ==
  [][\A c \in Cmds : caller[c] = "timeout" /\ runs[c] = 0 => runs'[c] = 0]_vars

\* A caller is told that the edge failed only if the command did fail there, or
\* the report of its success failed.
ErrorHasCause == \A c \in Cmds : caller[c] = "error" => ended[c] \in {"error", "unsure"}

\* Every request is answered.
RequestsAnswered ==
  \A c \in Cmds : caller[c] = "sent" ~> caller[c] \in {"ok", "error", "timeout"}

-----------------------------------------------------------------------------
\* "Every primitive dispatch [...] must present a valid lease_id that matches
\* the active lease": no agent starts to execute a command while the backend is
\* leased to someone other than the holder whose lease admitted it.
NoForeignDispatch ==
  [][\A c \in Cmds : runs'[c] # runs[c] => lease \in {holder[c], None}]_vars

=============================================================================
