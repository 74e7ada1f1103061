------------------------------ MODULE JobSystem ------------------------------
(***************************************************************************)
(* One backend of the coordinator: its job table (module JobManager), the  *)
(* exclusive lease, the in-process job runner (coordinator/jobs/runner.py  *)
(* and _kick_job_runner_for in main.py), the edge agent attached to it     *)
(* (execution/edge/registry.py), the edge agent processes                  *)
(* (scripts/ops/mock_edge_agent.py) and the holders of imperative leases.  *)
(*                                                                         *)
(* The coordinator is one asyncio event loop and its handlers are async    *)
(* functions without an await, so a handler is one action, and so is a     *)
(* stretch of a runner task between two awaits.  An agent is a process of  *)
(* its own: each HTTP request it makes is one action, and everything else  *)
(* may happen between two of its requests.                                 *)
(***************************************************************************)
EXTENDS JobManager

CONSTANTS
  Users,        \* holders of imperative leases (SDK sessions, the Twin UI)
  Agents,       \* edge agent processes; a restarted agent is another one
  NoLease,      \* the backend has no live lease
  NoAgent,      \* no agent is attached
  Faults        \* what may go wrong, see FaultKinds

\* "expiry": a lease runs out.  "slow": a live agent misses its heartbeats (it
\* sends none during a job).  "crash": an agent process dies.  "interrupt": it
\* gets Ctrl-C.  "lost": its completion report is lost.  "unavailable": the
\* backend does not initialise.  "staging": the kernels of a job already
\* submitted cannot be staged.
FaultKinds == {"expiry", "slow", "crash", "interrupt", "lost", "unavailable", "staging"}

ASSUME SystemAssumptions ==
  /\ Faults \subseteq FaultKinds
  /\ NoLease \notin Jobs \cup Users /\ Jobs \cap Users = {}
  /\ NoAgent \notin Agents

VARIABLES
  jobs,         \* the job table
  task,         \* task[j]: the asyncio task running job j in the coordinator
  lease,        \* holder of the live lease: a user, or a job for its own run
  attached,     \* the agent registered for the backend
  stale,        \* its last heartbeat is older than stale_after_s
  agent,        \* agent[a]: where process a is in its main loop
  starts        \* history: how often the body of a job began to run

vars == <<jobs, task, lease, attached, stale, agent, starts>>
registryVars == <<attached, stale>>

TaskStates == {"none", "pending", "body", "cleanup", "gone"}
AgentPlaces == {"off", "idle", "claimed", "body", "release", "stopping", "gone"}
Agent == [at : AgentPlaces, job : Jobs \cup {NoJob}, stop : BOOLEAN]
Parked(place) == [at |-> place, job |-> NoJob, stop |-> FALSE]

TypeOK ==
  /\ jobs \in JobTable
  /\ task \in [Jobs -> TaskStates]
  /\ lease \in Jobs \cup Users \cup {NoLease}
  /\ attached \in Agents \cup {NoAgent}
  /\ stale \in BOOLEAN
  /\ agent \in [Agents -> Agent]
  /\ starts \in [Jobs -> Nat]

Init ==
  /\ jobs = EmptyTable
  /\ task = [j \in Jobs |-> "none"]
  /\ lease = NoLease
  /\ attached = NoAgent
  /\ stale = FALSE
  /\ agent = [a \in Agents |-> Parked("off")]
  /\ starts = [j \in Jobs |-> 0]

-----------------------------------------------------------------------------
\* The in-process runner

\* schedule_job_runner, called with the table t and the tasks tk.
Schedule(t, tk) ==
  LET j == NextQueued(t)
      starting == RunnerShouldStart(t) /\ j # NoJob
  IN  /\ jobs' = CASE starting              -> NotedScheduled(Popped(t), TRUE)
                   [] ~RunnerShouldStart(t) -> t
                   [] OTHER                 -> Popped(t)
      /\ task' = IF starting THEN [tk EXCEPT ![j] = "pending"] ELSE tk

Evicting == attached # NoAgent /\ stale

\* Faulty: an eviction drops the lease but leaves the jobs to the next agent.
FaultyEvict(t) ==
  /\ jobs' = t
  /\ lease' = NoLease
  /\ attached' = NoAgent
  /\ stale' = FALSE

\* _detach_locked, then the callback _on_edge_evicted.
Evict(t) ==
  /\ jobs' = FailedOpen(t)
  /\ lease' = NoLease
  /\ attached' = NoAgent
  /\ stale' = FALSE

\* _kick_job_runner_for with the table t: is_attached() may evict, after which
\* nothing is queued; with a live agent the queue is left to that agent.
Kick(t) ==
  \/ Evicting /\ Evict(t) /\ UNCHANGED task
  \/ attached # NoAgent /\ ~stale /\ jobs' = t /\ UNCHANGED <<task, lease, registryVars>>
  \/ attached = NoAgent /\ Schedule(t, task) /\ UNCHANGED <<lease, registryVars>>

\* Faulty: the wrapper frees the runner slot but does not look at the queue.
FaultyTaskEnds(j, t) ==
  /\ jobs' = NotedScheduled(t, FALSE)
  /\ task' = [task EXCEPT ![j] = "gone"]

\* The finally of the wrapper: it schedules the next job itself, and does not
\* ask whether an agent has been attached meanwhile.
TaskEnds(j, t) == Schedule(NotedScheduled(t, FALSE), [task EXCEPT ![j] = "gone"])

\* _run_one: require_backend raises and run_job is never called.
TaskUnavailable(j) ==
  /\ "unavailable" \in Faults
  /\ task[j] = "pending"
  /\ TaskEnds(j, jobs)
  /\ UNCHANGED <<lease, registryVars, agent, starts>>

\* run_job: the backend is leased to someone else (LeaseConflictError), or the
\* lease is acquired, mark_running refuses, and the lease is released again.
TaskRefused(j) ==
  /\ task[j] = "pending"
  /\ lease # NoLease \/ ~MayRun(jobs, j)
  /\ TaskEnds(j, Completed(jobs, j, "failed"))
  /\ UNCHANGED <<lease, registryVars, agent, starts>>

\* Faulty: the runner starts a job without the lease.
FaultyTaskStart(j) ==
  /\ task[j] = "pending"
  /\ MayRun(jobs, j)
  /\ lease' = IF lease = NoLease THEN j ELSE lease
  /\ jobs' = MarkedRunning(jobs, j)
  /\ task' = [task EXCEPT ![j] = "body"]
  /\ starts' = [starts EXCEPT ![j] = @ + 1]
  /\ UNCHANGED <<registryVars, agent>>

\* run_job up to the first await of the body.
TaskStart(j) ==
  /\ task[j] = "pending"
  /\ lease = NoLease /\ MayRun(jobs, j)
  /\ lease' = j
  /\ jobs' = MarkedRunning(jobs, j)
  /\ task' = [task EXCEPT ![j] = "body"]
  /\ starts' = [starts EXCEPT ![j] = @ + 1]
  /\ UNCHANGED <<registryVars, agent>>

\* The status run_job completes the job with, after the body returned (ok) or
\* raised.
Verdict(j, ok) ==
  CASE ~ok -> "failed" [] ok /\ jobs.cancel[j] -> "cancelled" [] OTHER -> "succeeded"

\* The body ends, the job is completed, and the task awaits its telemetry task
\* while it still holds the lease.
TaskFinish(j, ok) ==
  /\ task[j] = "body"
  /\ jobs' = Completed(jobs, j, Verdict(j, ok))
  /\ task' = [task EXCEPT ![j] = "cleanup"]
  /\ UNCHANGED <<lease, registryVars, agent, starts>>

\* Faulty: the cleanup drops the lease of the backend, whosever it is.
FaultyTaskCleanup(j) ==
  /\ task[j] = "cleanup"
  /\ lease' = NoLease
  /\ TaskEnds(j, jobs)
  /\ UNCHANGED <<registryVars, agent, starts>>

\* The rest of run_job's finally: release by lease id, which is a no-op when
\* that lease has expired or was evicted.
TaskCleanup(j) ==
  /\ task[j] = "cleanup"
  /\ lease' = IF lease = j THEN NoLease ELSE lease
  /\ TaskEnds(j, jobs)
  /\ UNCHANGED <<registryVars, agent, starts>>

-----------------------------------------------------------------------------
\* The coordinator's handlers

\* POST /api/jobs/submit
Submit(j) ==
  /\ jobs.status[j] = "none"
  /\ Kick(Submitted(jobs, j))
  /\ UNCHANGED <<agent, starts>>

\* The same, when staging the job's kernels fails: the client is told 400, the
\* job stays in the queue and no runner is started.
SubmitUnstaged(j) ==
  /\ "staging" \in Faults
  /\ jobs.status[j] = "none"
  /\ jobs' = Submitted(jobs, j)
  /\ UNCHANGED <<task, lease, registryVars, agent, starts>>

\* POST /api/jobs/{job_id}/cancel
Cancel(j) ==
  /\ jobs.status[j] # "none"
  /\ Kick(CancelRequested(jobs, j))
  /\ UNCHANGED <<agent, starts>>

\* The stale sweeper, or any handler that asks for the attached agent.
Sweep ==
  /\ Evicting
  /\ Evict(jobs)
  /\ UNCHANGED <<task, agent, starts>>

\* POST /api/jobs/lease/acquire and /release by a user.
UserAcquire(u) ==
  /\ lease = NoLease
  /\ lease' = u
  /\ UNCHANGED <<jobs, task, registryVars, agent, starts>>

UserRelease(u) ==
  /\ lease = u
  /\ lease' = NoLease
  /\ UNCHANGED <<jobs, task, registryVars, agent, starts>>

\* A lease is not renewed before its expires_at; a job's lease never is.
LeaseExpires ==
  /\ "expiry" \in Faults
  /\ lease # NoLease
  /\ lease' = NoLease
  /\ UNCHANGED <<jobs, task, registryVars, agent, starts>>

HeartbeatAges ==
  /\ attached # NoAgent /\ ~stale
  /\ "slow" \in Faults \/ agent[attached].at = "gone"
  /\ stale' = TRUE
  /\ UNCHANGED <<jobs, task, lease, attached, agent, starts>>

-----------------------------------------------------------------------------
\* The edge agent process.  A refused request (409, 404) raises in _post or
\* _get, and nothing but KeyboardInterrupt is caught: the process ends, without
\* unregistering.

Goes(a, place) == agent' = [agent EXCEPT ![a] = Parked(place)]

\* register() replaces the agent that was attached; nothing is evicted.
AgentRegister(a) ==
  /\ agent[a].at = "off"
  /\ attached' = a
  /\ stale' = FALSE
  /\ Goes(a, "idle")
  /\ UNCHANGED <<jobs, task, lease, starts>>

\* heartbeat(): it revives a stale record that was not evicted yet.
AgentHeartbeat(a) ==
  /\ agent[a].at = "idle"
  /\ IF attached = a
     THEN stale' = FALSE /\ UNCHANGED <<attached, agent>>
     ELSE Goes(a, "gone") /\ UNCHANGED registryVars
  /\ UNCHANGED <<jobs, task, lease, starts>>

\* GET /api/edge/work, with the eviction get_for_backend may find due.
AgentClaim(a) ==
  /\ agent[a].at = "idle"
  /\ attached = a /\ ~stale
  /\ jobs' = Claimed(jobs)
  /\ agent' = IF NextQueued(jobs) = NoJob THEN agent
              ELSE [agent EXCEPT ![a] = [at |-> "claimed", job |-> NextQueued(jobs), stop |-> FALSE]]
  /\ UNCHANGED <<task, lease, registryVars, starts>>

AgentTurnedAway(a) ==
  /\ agent[a].at = "idle"
  /\ Goes(a, "gone")
  /\ \/ Evicting /\ Evict(jobs)
     \/ attached # a /\ ~Evicting /\ UNCHANGED <<jobs, lease, registryVars>>
  /\ UNCHANGED <<task, starts>>

\* POST /api/jobs/lease/acquire for the job it claimed; the job's status is not
\* asked again.
AgentAcquire(a) ==
  /\ agent[a].at = "claimed"
  /\ IF lease = NoLease
     THEN /\ lease' = agent[a].job
          /\ agent' = [agent EXCEPT ![a].at = "body"]
          /\ starts' = [starts EXCEPT ![agent[a].job] = @ + 1]
     ELSE Goes(a, "gone") /\ UNCHANGED <<lease, starts>>
  /\ UNCHANGED <<jobs, task, registryVars>>

\* The body ends, and POST /api/edge/jobs/{job_id}/complete follows.  The agent
\* never learns of a cancel request (_ProgressProxy._cancel stays False).
AgentComplete(a, ok) ==
  /\ agent[a].at = "body"
  /\ jobs' = Completed(jobs, agent[a].job, IF ok THEN "succeeded" ELSE "failed")
  /\ agent' = [agent EXCEPT ![a].at = "release"]
  /\ UNCHANGED <<task, lease, registryVars, starts>>

AgentCompleteLost(a) ==
  /\ "lost" \in Faults
  /\ agent[a].at = "body"
  /\ agent' = [agent EXCEPT ![a].at = "release"]
  /\ UNCHANGED <<jobs, task, lease, registryVars, starts>>

\* POST /api/jobs/lease/release; a 404 is only logged.
AgentRelease(a) ==
  /\ agent[a].at = "release"
  /\ lease' = IF lease = agent[a].job THEN NoLease ELSE lease
  /\ Goes(a, IF agent[a].stop THEN "stopping" ELSE "idle")
  /\ UNCHANGED <<jobs, task, registryVars, starts>>

\* Ctrl-C.  In the body it cancels the coroutine, whose finally reports the
\* status set before the body: "succeeded".
AgentInterrupt(a) ==
  /\ "interrupt" \in Faults
  /\ \/ agent[a].at \in {"idle", "claimed"} /\ Goes(a, "stopping") /\ UNCHANGED jobs
     \/ /\ agent[a].at = "body"
        /\ jobs' = Completed(jobs, agent[a].job, "succeeded")
        /\ agent' = [agent EXCEPT ![a].at = "release", ![a].stop = TRUE]
  /\ UNCHANGED <<task, lease, registryVars, starts>>

\* POST /api/edge/unregister: the record goes, but no eviction happens.
AgentUnregister(a) ==
  /\ agent[a].at = "stopping"
  /\ Goes(a, "gone")
  /\ IF attached = a THEN attached' = NoAgent /\ stale' = FALSE ELSE UNCHANGED registryVars
  /\ UNCHANGED <<jobs, task, lease, starts>>

AgentCrash(a) ==
  /\ "crash" \in Faults
  /\ agent[a].at \notin {"off", "gone"}
  /\ Goes(a, "gone")
  /\ UNCHANGED <<jobs, task, lease, registryVars, starts>>

-----------------------------------------------------------------------------
TaskNext(j) ==
  \/ TaskUnavailable(j) \/ TaskRefused(j) \/ TaskStart(j)
  \/ \E ok \in BOOLEAN : TaskFinish(j, ok)
  \/ TaskCleanup(j)

AgentNext(a) ==
  \/ AgentRegister(a) \/ AgentHeartbeat(a) \/ AgentClaim(a) \/ AgentTurnedAway(a)
  \/ AgentAcquire(a) \/ (\E ok \in BOOLEAN : AgentComplete(a, ok)) \/ AgentCompleteLost(a)
  \/ AgentRelease(a) \/ AgentInterrupt(a) \/ AgentUnregister(a) \/ AgentCrash(a)

Next ==
  \/ \E j \in Jobs : Submit(j) \/ SubmitUnstaged(j) \/ Cancel(j) \/ TaskNext(j)
  \/ \E a \in Agents : AgentNext(a)
  \/ \E u \in Users : UserAcquire(u) \/ UserRelease(u)
  \/ Sweep \/ LeaseExpires \/ HeartbeatAges

Spec == Init /\ [][Next]_vars

\* The event loop runs every task that is ready, a job's body ends, the sweeper
\* wakes up every second, and an agent that is up goes on with its loop: it asks
\* for work again and again, and each request is answered.
Fairness ==
  /\ \A j \in Jobs : WF_vars(TaskNext(j))
  /\ \A a \in Agents :
       /\ WF_vars(AgentClaim(a) \/ AgentTurnedAway(a))
       /\ WF_vars(AgentAcquire(a) \/ (\E ok \in BOOLEAN : AgentComplete(a, ok)) \/ AgentRelease(a)
                  \/ AgentUnregister(a))
  /\ WF_vars(Sweep)
  /\ WF_vars(HeartbeatAges /\ agent[attached].at = "gone")

FairSpec == Spec /\ Fairness

-----------------------------------------------------------------------------
\* Properties that hold

\* Every id in the queue is there once, is queued, and has no worker yet.
\* pop_next_queued skips other entries, so a violation would lose no job by
\* itself, but runner_should_start and the cancel path count on it.
QueueSound ==
  /\ IsInjective(jobs.queue)
  /\ \A i \in DOMAIN jobs.queue :
       /\ jobs.status[jobs.queue[i]] = "queued"
       /\ task[jobs.queue[i]] = "none"
       /\ \A a \in Agents : agent[a].job # jobs.queue[i]

\* A queued job is in the queue, or was popped for a task that has not begun:
\* no sequence of kicks, cancels, claims and evictions forgets one.
NotForgotten ==
  \A j \in Jobs : jobs.status[j] = "queued" =>
    task[j] = "pending" \/ \E i \in DOMAIN jobs.queue : jobs.queue[i] = j

\* The job that blocks pop and claim is one that runs.  Were it a finished one
\* the backend would never start a job again.
ActiveRuns == jobs.active # NoJob => jobs.status[jobs.active] = "running"

\* The body of a job begins at most once, whether it is the in-process runner
\* or an agent that got the job, and however often agents come and go.
RunsOnce == \A j \in Jobs : starts[j] <= 1

\* A job that is finished is never queued or running again: mark_running
\* refuses a job that was cancelled or failed between its pop and its start.
NoResurrection ==
  [][\A j \in Jobs : jobs.status[j] \in Terminal => jobs'.status[j] \in Terminal]_vars

\* When an agent is evicted for missed heartbeats no job of its backend is left
\* queued or running, and no lease survives.
FailClosed ==
  [][Evicting /\ attached' = NoAgent /\ ~(\E a \in Agents : AgentUnregister(a)) =>
       /\ \A j \in Jobs : ~Open(jobs', j)
       /\ jobs'.queue = <<>>
       /\ lease' = NoLease]_vars

\* A user loses a lease only by releasing it, by its expiry or by the eviction
\* of an agent that missed its heartbeats.  No cleanup takes it away, neither that
\* of a task whose own lease is long gone nor the release of an agent's lease, by
\* whatever worker and whether or not an agent is attached.
NoForeignRelease ==
  [][\A u \in Users : lease = u /\ lease' # u =>
       /\ lease' = NoLease
       /\ UserRelease(u) \/ LeaseExpires \/ (Evicting /\ attached' = NoAgent)]_vars

\* A job that runs in its body, in the coordinator or at an agent, has the
\* lease, so no two of them and no imperative session drive the bench together;
\* an eviction that takes the lease away has failed the job, and no cleanup of
\* another worker, no user and no new agent takes it.
BodyHoldsLease ==
  \A j \in Jobs : jobs.status[j] = "running" =>
    /\ task[j] = "body" => lease = j
    /\ \A a \in Agents : agent[a].at = "body" /\ agent[a].job = j => lease = j

\* A job in the queue has somebody who will look at the queue: an agent, or a
\* task that schedules the next job when it ends.
NoLostWakeup ==
  jobs.queue # <<>> =>
    attached # NoAgent \/ \E j \in Jobs : task[j] \in {"pending", "body", "cleanup"}

\* Every submitted job finishes.
SubmittedJobsFinish ==
  \A j \in Jobs : jobs.status[j] = "queued" ~> jobs.status[j] \in Terminal

=============================================================================
