-------------------------- MODULE JobSystem_proofs --------------------------
(***************************************************************************)
(* For any number of jobs, users and agents and any set of faults: the     *)
(* queue is sound, the active job runs, no job is run twice or comes back  *)
(* after it finished, and an eviction leaves nothing open.  Each without   *)
(* the fault that breaks it: no job is forgotten, a body has the lease,    *)
(* and a queue that is not empty has somebody who looks at it.             *)
(***************************************************************************)
EXTENDS JobSystem, JobManager_proofs

(***************************************************************************)
(* The invariant.  QueueSound and RunsOnce are not inductive: that a job   *)
(* begins once follows from the fact that a job gets a worker (a runner    *)
(* task or an agent) only while it is fresh, that it has one worker at     *)
(* most, and that it has not begun while that worker is before the body.   *)
(* F stands for the fresh jobs, the others for task, agent and starts.     *)
(***************************************************************************)
Workers(F, tk, ag, st) ==
  /\ \A j \in F : tk[j] = "none" /\ st[j] = 0 /\ \A a \in Agents : ag[a].job # j
  /\ \A j \in Jobs : tk[j] # "none" => \A a \in Agents : ag[a].job # j
  /\ \A j \in Jobs : tk[j] = "pending" => st[j] = 0
  /\ \A a \in Agents : ag[a].at \in {"claimed", "body", "release"} => ag[a].job \in Jobs
  /\ \A a \in Agents : ag[a].at = "claimed" => st[ag[a].job] = 0
  /\ \A a, b \in Agents : ag[a].job = ag[b].job /\ ag[a].job # NoJob => a = b
  /\ \A j \in Jobs : st[j] <= 1

IInv ==
  /\ TypeOK
  /\ TableSound(jobs)
  /\ Workers(Fresh(jobs), task, agent, starts)

-----------------------------------------------------------------------------
\* Fewer fresh jobs are less to claim.
LEMMA WorkersShrink ==
  ASSUME NEW F, NEW F2, F2 \subseteq F, NEW tk, NEW ag, NEW st, Workers(F, tk, ag, st)
  PROVE  Workers(F2, tk, ag, st)
  BY DEF Workers

\* A fresh job may be given to a task.
LEMMA WorkersPending ==
  ASSUME NEW F, NEW tk \in [Jobs -> TaskStates], NEW ag, NEW st, Workers(F, tk, ag, st),
         NEW j \in F \cap Jobs, F \subseteq Jobs
  PROVE  Workers(F \ {j}, [tk EXCEPT ![j] = "pending"], ag, st)
  BY DEF Workers

\* A task that is not fresh moves on.
LEMMA WorkersTask ==
  ASSUME NEW F, NEW tk \in [Jobs -> TaskStates], NEW ag, NEW st, Workers(F, tk, ag, st),
         NEW j \in Jobs, tk[j] # "none", NEW s \in TaskStates \ {"none", "pending"}
  PROVE  Workers(F, [tk EXCEPT ![j] = s], ag, st)
  BY DEF Workers

\* An agent goes back to a place where it has no job.
LEMMA WorkersParked ==
  ASSUME NEW F, F \subseteq Jobs, NEW tk, NEW ag \in [Agents -> Agent], NEW st,
         Workers(F, tk, ag, st),
         NEW a \in Agents, NEW p \in {"off", "idle", "stopping", "gone"}
  PROVE  /\ Workers(F, tk, [ag EXCEPT ![a] = Parked(p)], st)
         /\ [ag EXCEPT ![a] = Parked(p)] \in [Agents -> Agent]
<1> DEFINE g == [ag EXCEPT ![a] = Parked(p)]
<1>1. Parked(p) \in Agent /\ Parked(p).at = p /\ Parked(p).job = NoJob
  BY DEF Parked, Agent, AgentPlaces
<1>2. g \in [Agents -> Agent]
  BY <1>1
<1>3. \A b \in Agents : g[b] = IF b = a THEN Parked(p) ELSE ag[b]
  OBVIOUS
<1> HIDE DEF g
<1>4. Workers(F, tk, g, st)
  BY <1>1, <1>3, JobAssumption DEF Workers
<1> QED
  BY <1>2, <1>4 DEF g

-----------------------------------------------------------------------------
\* What schedule_job_runner does to a sound table and its workers.
LEMMA ScheduleStep ==
  ASSUME NEW STATE t, TableSound(t),
         NEW STATE tk, tk \in [Jobs -> TaskStates],
         Workers(Fresh(t), tk, agent, starts),
         Schedule(t, tk)
  PROVE  /\ TableStep(t, jobs')
         /\ task' \in [Jobs -> TaskStates]
         /\ Workers(Fresh(jobs'), task', agent, starts)
<1> DEFINE j == NextQueued(t)
           p == Popped(t)
<1>1. TableStep(t, p) /\ TableSound(p) /\ Fresh(p) \subseteq Fresh(t)
  BY PoppedStep DEF TableStep
<1>2. CASE RunnerShouldStart(t) /\ j # NoJob
  <2>1. jobs' = NotedScheduled(p, TRUE) /\ task' = [tk EXCEPT ![j] = "pending"]
    BY <1>2 DEF Schedule
  <2>2. j \in Fresh(t) /\ j \in Jobs /\ j \notin Fresh(p)
    BY <1>2, PoppedStep DEF Fresh
  <2>3. TableStep(p, jobs')
    BY <1>1, <2>1, NotedStep
  <2>4. TableStep(t, jobs')
    BY <1>1, <2>3, TableStepTransitive
  <2>5. Fresh(jobs') \subseteq Fresh(t) \ {j}
    BY <1>1, <2>2, <2>3 DEF TableStep
  <2>6. Workers(Fresh(t) \ {j}, task', agent, starts)
    BY <2>1, <2>2, WorkersPending, FreshAreJobs
  <2>7. Workers(Fresh(jobs'), task', agent, starts)
    BY <2>5, <2>6, WorkersShrink
  <2> QED
    BY <2>1, <2>4, <2>7 DEF TaskStates
<1>3. CASE ~(RunnerShouldStart(t) /\ j # NoJob)
  <2>1. (jobs' = t \/ jobs' = p) /\ task' = tk
    BY <1>3 DEF Schedule
  <2>2. TableStep(t, jobs')
    BY <1>1, <2>1, TableStepReflexive
  <2>3. Workers(Fresh(jobs'), task', agent, starts)
    BY <2>1, <2>2, WorkersShrink DEF TableStep
  <2> QED
    BY <2>1, <2>2, <2>3
<1> QED
  BY <1>2, <1>3

\* What an eviction does.
LEMMA EvictStep ==
  ASSUME IInv, NEW STATE t, TableStep(jobs, t), Evict(t)
  PROVE  /\ TableStep(jobs, jobs')
         /\ Workers(Fresh(jobs'), task, agent, starts)
<1>1. TableStep(t, jobs')
  BY FailedOpenStep DEF Evict, TableStep
<1>2. TableStep(jobs, jobs')
  BY <1>1, TableStepTransitive
<1> QED
  BY <1>2, WorkersShrink DEF TableStep, IInv

\* What _kick_job_runner_for does, after a call that changed the table to t.
LEMMA KickStep ==
  ASSUME IInv, NEW STATE t, TableStep(jobs, t), Kick(t), UNCHANGED <<agent, starts>>
  PROVE  IInv' /\ TableStep(jobs, jobs')
<1>1. Workers(Fresh(t), task, agent, starts)
  BY WorkersShrink DEF TableStep, IInv
<1>2. CASE Evicting /\ Evict(t) /\ UNCHANGED task
  <2>1. TableStep(jobs, jobs') /\ Workers(Fresh(jobs'), task, agent, starts)
    BY <1>2, EvictStep
  <2> QED
    BY <1>2, <2>1 DEF IInv, TypeOK, Evict, TableStep, TableSound
<1>3. CASE attached # NoAgent /\ ~stale /\ jobs' = t /\ UNCHANGED <<task, lease, registryVars>>
  BY <1>1, <1>3 DEF IInv, TypeOK, registryVars, TableStep, TableSound
<1>4. CASE attached = NoAgent /\ Schedule(t, task) /\ UNCHANGED <<lease, registryVars>>
  <2>1. TableSound(t) /\ task \in [Jobs -> TaskStates]
    BY DEF TableStep, IInv, TypeOK
  <2>2. /\ TableStep(t, jobs') /\ task' \in [Jobs -> TaskStates]
        /\ Workers(Fresh(jobs'), task', agent, starts)
    BY <1>1, <1>4, <2>1, ScheduleStep
  <2>3. TableStep(jobs, jobs')
    BY <2>2, TableStepTransitive
  <2> QED
    BY <1>4, <2>2, <2>3 DEF IInv, TypeOK, registryVars, TableStep, TableSound
<1> QED
  BY <1>2, <1>3, <1>4 DEF Kick

\* The end of a runner task, after its last call changed the table to t.
LEMMA TaskEndsStep ==
  ASSUME IInv, NEW STATE t, TableStep(jobs, t), NEW j \in Jobs, task[j] # "none",
         TaskEnds(j, t), UNCHANGED <<registryVars, agent, starts>>,
         lease' \in Jobs \cup Users \cup {NoLease}
  PROVE  IInv' /\ TableStep(jobs, jobs')
<1> DEFINE n == NotedScheduled(t, FALSE)
           tk == [task EXCEPT ![j] = "gone"]
<1>1. TableStep(t, n) /\ TableStep(jobs, n) /\ TableSound(n)
  BY NotedStep, TableStepTransitive DEF TableStep
<1>2. tk \in [Jobs -> TaskStates]
  BY DEF IInv, TypeOK, TaskStates
<1>3. Workers(Fresh(jobs), tk, agent, starts)
  BY WorkersTask DEF IInv, TypeOK, TaskStates
<1>4. Workers(Fresh(n), tk, agent, starts)
  BY <1>1, <1>3, WorkersShrink DEF TableStep
<1>5. Schedule(n, tk)
  BY DEF TaskEnds
<1> HIDE DEF n, tk
<1>6. /\ TableStep(n, jobs') /\ task' \in [Jobs -> TaskStates]
      /\ Workers(Fresh(jobs'), task', agent, starts)
  BY <1>1, <1>2, <1>4, <1>5, ScheduleStep
<1>7. TableStep(jobs, jobs')
  BY <1>1, <1>6, TableStepTransitive
<1> QED
  BY <1>6, <1>7 DEF IInv, TypeOK, registryVars, TableStep, TableSound

\* An agent claims the next job, which was fresh.
LEMMA WorkersClaimed ==
  ASSUME NEW F, NEW tk, NEW ag \in [Agents -> Agent], NEW st, Workers(F, tk, ag, st),
         NEW a \in Agents, NEW j \in F \cap Jobs, F \subseteq Jobs
  PROVE  LET g == [ag EXCEPT ![a] = [at |-> "claimed", job |-> j, stop |-> FALSE]]
         IN  Workers(F \ {j}, tk, g, st) /\ g \in [Agents -> Agent]
<1> DEFINE v == [at |-> "claimed", job |-> j, stop |-> FALSE]
           g == [ag EXCEPT ![a] = v]
<1>1. v \in Agent /\ v.at = "claimed" /\ v.job = j
  BY DEF Agent, AgentPlaces
<1>2. g \in [Agents -> Agent] /\ \A b \in Agents : g[b] = IF b = a THEN v ELSE ag[b]
  BY <1>1
<1> HIDE DEF g, v
<1>3. Workers(F \ {j}, tk, g, st)
  BY <1>1, <1>2, JobAssumption DEF Workers
<1> QED
  BY <1>2, <1>3 DEF g, v

\* An agent moves on with its job; past "claimed" the job has begun or not.
LEMMA WorkersMoved ==
  ASSUME NEW F, NEW tk, NEW ag \in [Agents -> Agent], NEW st, Workers(F, tk, ag, st),
         NEW a \in Agents, ag[a].at \in {"claimed", "body"},
         NEW g \in [Agents -> Agent],
         \A b \in Agents \ {a} : g[b] = ag[b],
         g[a].job = ag[a].job, g[a].at \in {"body", "release"}
  PROVE  Workers(F, tk, g, st)
<1>1. \A b \in Agents : g[b].job = ag[b].job /\ (b # a => g[b].at = ag[b].at)
  OBVIOUS
<1> QED
  BY <1>1 DEF Workers

\* A job begins that had not begun.
LEMMA WorkersBegin ==
  ASSUME NEW F, F \subseteq Jobs, NEW tk, NEW ag, NEW st, Workers(F, tk, ag, st),
         NEW j \in Jobs, j \notin F, st[j] = 0, tk[j] # "pending",
         \A a \in Agents : ag[a].job = j => ag[a].at # "claimed",
         NEW s, s[j] = 1, \A i \in Jobs : i # j => s[i] = st[i]
  PROVE  Workers(F, tk, ag, s)
<1>1. \A i \in Jobs : s[i] <= 1
  BY DEF Workers
<1>2. \A i \in F : i # j /\ i \in Jobs
  OBVIOUS
<1>3. \A i \in F : tk[i] = "none" /\ s[i] = 0 /\ \A a \in Agents : ag[a].job # i
  BY <1>2 DEF Workers
<1>4. \A a \in Agents : ag[a].at = "claimed" => s[ag[a].job] = 0
  BY DEF Workers
<1>5. \A i \in Jobs : tk[i] = "pending" => s[i] = 0
  BY DEF Workers
<1> QED
  BY <1>1, <1>3, <1>4, <1>5 DEF Workers

-----------------------------------------------------------------------------
\* The invariant holds at the start: every job is fresh and nobody works.
LEMMA InitIInv == Init => IInv
<1> SUFFICES ASSUME Init PROVE IInv
  OBVIOUS
<1>1. TableSound(jobs) /\ jobs \in JobTable
  BY EmptySound DEF Init, TableSound
<1>2. TypeOK
  <2>1. \A a \in Agents : Parked("off") \in Agent
    BY DEF Parked, Agent, AgentPlaces
  <2> QED
    BY <1>1, <2>1 DEF Init, TypeOK, TaskStates
<1>3. Workers(Fresh(jobs), task, agent, starts)
  <2>1. \A a \in Agents : agent[a].job = NoJob /\ agent[a].at = "off"
    BY DEF Init, Parked
  <2>2. Fresh(jobs) \subseteq Jobs
    BY <1>1, FreshAreJobs
  <2> QED
    BY <2>1, <2>2, JobAssumption DEF Init, Workers
<1> QED
  BY <1>1, <1>2, <1>3 DEF IInv

\* What the invariant says of a job whose task exists.
LEMMA TaskNotFresh ==
  ASSUME IInv, NEW j \in Jobs, task[j] # "none"
  PROVE  j \in Jobs \ Fresh(jobs) /\ j \in Jobs \ Queued(jobs)
  BY DEF IInv, Workers, Fresh

\* What the invariant says of an agent that has a job.
LEMMA AgentNotFresh ==
  ASSUME IInv, NEW a \in Agents, agent[a].at \in {"claimed", "body", "release"}
  PROVE  agent[a].job \in Jobs \ Fresh(jobs) /\ agent[a].job \in Jobs \ Queued(jobs)
  BY DEF IInv, Workers, Fresh

\* A step of a runner task.
LEMMA TaskStep ==
  ASSUME IInv, NEW j \in Jobs, TaskNext(j)
  PROVE  IInv' /\ TableStep(jobs, jobs')
<1>0. /\ TypeOK /\ TableSound(jobs) /\ TableStep(jobs, jobs) /\ Fresh(jobs) \subseteq Jobs
      /\ lease \in Jobs \cup Users \cup {NoLease}
  BY TableStepReflexive, FreshAreJobs DEF IInv, TypeOK
<1>1. CASE TaskUnavailable(j)
  BY <1>0, <1>1, TaskEndsStep DEF TaskUnavailable
<1>2. CASE TaskRefused(j)
  <2>1. TableStep(jobs, Completed(jobs, j, "failed"))
    BY <1>0, <1>2, TaskNotFresh, CompletedStep DEF TaskRefused, Terminal
  <2> QED
    BY <1>0, <1>2, <2>1, TaskEndsStep DEF TaskRefused
<1>3. CASE TaskStart(j)
  <2>1. TableStep(jobs, jobs')
    BY <1>0, <1>3, TaskNotFresh, MarkedRunningStep DEF TaskStart
  <2>2. task[j] = "pending" /\ starts[j] = 0 /\ \A a \in Agents : agent[a].job # j
    BY <1>3 DEF TaskStart, IInv, Workers
  <2>3. task' = [task EXCEPT ![j] = "body"] /\ task \in [Jobs -> TaskStates]
    BY <1>0, <1>3 DEF TaskStart, TypeOK
  <2>4. Workers(Fresh(jobs), task', agent, starts) /\ task'[j] = "body"
    BY <2>2, <2>3, WorkersTask DEF IInv, TaskStates
  <2>5. /\ Workers(Fresh(jobs), task', agent, starts')
        /\ starts' \in [Jobs -> Nat]
    <3>1. starts' = [starts EXCEPT ![j] = @ + 1] /\ starts \in [Jobs -> Nat]
      BY <1>0, <1>3 DEF TaskStart, TypeOK
    <3>2. j \in Jobs \ Fresh(jobs) /\ task'[j] # "pending"
      BY <2>2, <2>4, TaskNotFresh
    <3>3. \A a \in Agents : agent[a].job = j => agent[a].at # "claimed"
      BY <2>2
    <3>4. /\ starts'[j] = 1 /\ \A i \in Jobs : i # j => starts'[i] = starts[i]
          /\ starts' \in [Jobs -> Nat]
      BY <2>2, <3>1
    <3> QED
      BY <1>0, <2>2, <2>4, <3>2, <3>3, <3>4, WorkersBegin
  <2>6. Workers(Fresh(jobs'), task', agent, starts')
    BY <2>1, <2>5, WorkersShrink DEF TableStep
  <2> QED
    BY <1>0, <1>3, <2>1, <2>3, <2>5, <2>6
    DEF IInv, TypeOK, TaskStart, registryVars, TableStep, TableSound, TaskStates
<1>4. ASSUME NEW ok \in BOOLEAN, TaskFinish(j, ok) PROVE IInv' /\ TableStep(jobs, jobs')
  <2>1. Verdict(j, ok) \in Terminal
    BY DEF Verdict, Terminal
  <2>2. TableStep(jobs, jobs')
    BY <1>0, <1>4, <2>1, TaskNotFresh, CompletedStep DEF TaskFinish
  <2>3. task' = [task EXCEPT ![j] = "cleanup"] /\ task[j] = "body" /\ task' \in [Jobs -> TaskStates]
    BY <1>0, <1>4 DEF TaskFinish, TypeOK, TaskStates
  <2>4. Workers(Fresh(jobs), task', agent, starts)
    BY <1>0, <2>3, WorkersTask DEF IInv, TypeOK, TaskStates
  <2>5. Workers(Fresh(jobs'), task', agent, starts)
    BY <2>2, <2>4, WorkersShrink DEF TableStep
  <2> QED
    BY <1>0, <1>4, <2>2, <2>3, <2>5
    DEF IInv, TypeOK, TaskFinish, registryVars, TableStep, TableSound
<1>5. CASE TaskCleanup(j)
  BY <1>0, <1>5, TaskEndsStep DEF TaskCleanup
<1> QED
  BY <1>1, <1>2, <1>3, <1>4, <1>5 DEF TaskNext


\* A step of an agent.
LEMMA AgentStep ==
  ASSUME IInv, NEW a \in Agents, AgentNext(a)
  PROVE  IInv' /\ TableStep(jobs, jobs')
<1>0. /\ TypeOK /\ TableSound(jobs) /\ TableStep(jobs, jobs) /\ Fresh(jobs) \subseteq Jobs
      /\ Workers(Fresh(jobs), task, agent, starts)
      /\ agent \in [Agents -> Agent] /\ starts \in [Jobs -> Nat] /\ jobs \in JobTable
  BY TableStepReflexive, FreshAreJobs DEF IInv, TypeOK
<1>1. ASSUME NEW p \in {"off", "idle", "stopping", "gone"}, Goes(a, p)
      PROVE  agent' \in [Agents -> Agent] /\ Workers(Fresh(jobs), task, agent', starts)
  BY <1>0, <1>1, WorkersParked DEF Goes
<1>2. ASSUME UNCHANGED <<jobs, task, starts>>, agent' \in [Agents -> Agent],
             Workers(Fresh(jobs), task, agent', starts),
             lease' \in Jobs \cup Users \cup {NoLease},
             attached' \in Agents \cup {NoAgent}, stale' \in BOOLEAN
      PROVE  IInv' /\ TableStep(jobs, jobs')
  BY <1>0, <1>2 DEF IInv, TypeOK
<1>3. CASE AgentRegister(a)
  BY <1>0, <1>1, <1>2, <1>3 DEF AgentRegister, TypeOK
<1>4. CASE AgentHeartbeat(a)
  BY <1>0, <1>1, <1>2, <1>4 DEF AgentHeartbeat, registryVars, TypeOK
<1>5. CASE AgentClaim(a)
  <2>1. TableStep(jobs, jobs') /\ jobs' = Claimed(jobs)
    BY <1>0, <1>5, ClaimedStep DEF AgentClaim
  <2>2. /\ agent' \in [Agents -> Agent]
        /\ Workers(Fresh(jobs'), task, agent', starts)
    <3>1. CASE NextQueued(jobs) = NoJob
      BY <1>0, <1>5, <2>1, <3>1, WorkersShrink DEF AgentClaim, TableStep
    <3>2. CASE NextQueued(jobs) # NoJob
      <4> DEFINE j == NextQueued(jobs)
                 g == [agent EXCEPT ![a] = [at |-> "claimed", job |-> j, stop |-> FALSE]]
      <4>1. j \in Jobs /\ j \in Fresh(jobs) /\ j \notin Fresh(jobs')
        BY <1>0, <2>1, <3>2, ClaimedStep
      <4>2. agent' = g
        BY <1>5, <3>2 DEF AgentClaim
      <4> HIDE DEF j
      <4>3. Workers(Fresh(jobs) \ {j}, task, g, starts) /\ g \in [Agents -> Agent]
        BY <1>0, <4>1, WorkersClaimed
      <4>4. Fresh(jobs') \subseteq Fresh(jobs) \ {j}
        BY <2>1, <4>1 DEF TableStep
      <4> QED
        BY <4>2, <4>3, <4>4, WorkersShrink
    <3> QED
      BY <3>1, <3>2
  <2> QED
    BY <1>0, <1>5, <2>1, <2>2
    DEF IInv, TypeOK, AgentClaim, registryVars, TableStep, TableSound
<1>6. CASE AgentTurnedAway(a)
  <2>1. agent' \in [Agents -> Agent] /\ Workers(Fresh(jobs), task, agent', starts)
    BY <1>1, <1>6 DEF AgentTurnedAway
  <2>2. CASE UNCHANGED <<jobs, lease, registryVars>>
    BY <1>0, <1>2, <1>6, <2>1, <2>2 DEF AgentTurnedAway, registryVars, TypeOK
  <2>3. CASE Evict(jobs)
    <3>1. TableStep(jobs, jobs')
      BY <1>0, <2>3, EvictStep
    <3>2. Workers(Fresh(jobs'), task, agent', starts)
      BY <2>1, <3>1, WorkersShrink DEF TableStep
    <3> QED
      BY <1>0, <1>6, <2>1, <2>3, <3>1, <3>2
      DEF IInv, TypeOK, Evict, AgentTurnedAway, TableStep, TableSound
  <2> QED
    BY <1>6, <2>2, <2>3 DEF AgentTurnedAway
<1>7. CASE AgentAcquire(a)
  <2>1. agent[a].job \in Jobs \ Fresh(jobs) /\ agent[a].at = "claimed"
    BY <1>7, AgentNotFresh DEF AgentAcquire
  <2>2. CASE lease # NoLease
    BY <1>0, <1>1, <1>2, <1>7, <2>2 DEF AgentAcquire, registryVars, TypeOK
  <2>3. CASE lease = NoLease
    <3> DEFINE j == agent[a].job
    <3>1. /\ agent' = [agent EXCEPT ![a].at = "body"] /\ agent' \in [Agents -> Agent]
          /\ starts' = [starts EXCEPT ![j] = @ + 1] /\ lease' = j
          /\ UNCHANGED <<jobs, task, registryVars>>
      BY <1>0, <1>7, <2>3 DEF AgentAcquire, Agent, AgentPlaces
    <3>2. /\ agent'[a].job = j /\ agent'[a].at = "body"
          /\ \A b \in Agents \ {a} : agent'[b] = agent[b]
      BY <1>0, <3>1 DEF Agent
    <3>3. Workers(Fresh(jobs), task, agent', starts)
      BY <1>0, <2>1, <3>1, <3>2, WorkersMoved
    <3>4. /\ starts[j] = 0 /\ task[j] # "pending"
          /\ \A b \in Agents : agent'[b].job = j => agent'[b].at # "claimed"
      <4>1. starts[j] = 0
        BY <2>1 DEF IInv, Workers
      <4>2. task[j] = "none"
        BY <2>1 DEF IInv, Workers
      <4>3. \A b \in Agents : agent[b].job = j => b = a
        BY <2>1, JobAssumption DEF IInv, Workers
      <4> QED
        BY <3>2, <4>1, <4>2, <4>3
    <3> HIDE DEF j
    <3>5. Workers(Fresh(jobs), task, agent', starts') /\ starts' \in [Jobs -> Nat]
      <4>1. j \in Jobs /\ j \notin Fresh(jobs)
        BY <2>1 DEF j
      <4>2. /\ starts'[j] = 1 /\ \A i \in Jobs : i # j => starts'[i] = starts[i]
            /\ starts' \in [Jobs -> Nat]
        BY <1>0, <3>1, <3>4, <4>1
      <4> QED
        BY <1>0, <3>3, <3>4, <4>1, <4>2, WorkersBegin
    <3> QED
      BY <1>0, <2>1, <3>1, <3>5 DEF IInv, TypeOK, registryVars, j
  <2> QED
    BY <2>2, <2>3
<1>8. ASSUME NEW ok \in BOOLEAN, AgentComplete(a, ok) PROVE IInv' /\ TableStep(jobs, jobs')
  <2>1. agent[a].at = "body" /\ agent' = [agent EXCEPT ![a].at = "release"]
    BY <1>8 DEF AgentComplete
  <2>2. TableStep(jobs, jobs')
    BY <1>0, <1>8, <2>1, AgentNotFresh, CompletedStep DEF AgentComplete, Terminal
  <2>3. /\ agent' \in [Agents -> Agent] /\ agent'[a].job = agent[a].job
        /\ agent'[a].at = "release" /\ \A b \in Agents \ {a} : agent'[b] = agent[b]
    BY <1>0, <2>1 DEF Agent, AgentPlaces
  <2>4. Workers(Fresh(jobs), task, agent', starts)
    BY <1>0, <2>1, <2>3, WorkersMoved
  <2>5. Workers(Fresh(jobs'), task, agent', starts)
    BY <2>2, <2>4, WorkersShrink DEF TableStep
  <2> QED
    BY <1>0, <1>8, <2>2, <2>3, <2>5
    DEF IInv, TypeOK, AgentComplete, registryVars, TableStep, TableSound
<1>9. CASE AgentCompleteLost(a)
  <2>1. agent[a].at = "body" /\ agent' = [agent EXCEPT ![a].at = "release"]
    BY <1>9 DEF AgentCompleteLost
  <2>2. /\ agent' \in [Agents -> Agent] /\ agent'[a].job = agent[a].job
        /\ agent'[a].at = "release" /\ \A b \in Agents \ {a} : agent'[b] = agent[b]
    BY <1>0, <2>1 DEF Agent, AgentPlaces
  <2>3. Workers(Fresh(jobs), task, agent', starts)
    BY <1>0, <2>1, <2>2, WorkersMoved
  <2> QED
    BY <1>0, <1>2, <1>9, <2>2, <2>3 DEF AgentCompleteLost, registryVars, TypeOK
<1>10. CASE AgentRelease(a)
  BY <1>0, <1>1, <1>2, <1>10 DEF AgentRelease, registryVars, TypeOK
<1>11. CASE AgentInterrupt(a)
  <2>1. CASE Goes(a, "stopping") /\ UNCHANGED jobs
    BY <1>0, <1>1, <1>2, <1>11, <2>1 DEF AgentInterrupt, registryVars, TypeOK
  <2>2. CASE /\ agent[a].at = "body"
             /\ jobs' = Completed(jobs, agent[a].job, "succeeded")
             /\ agent' = [agent EXCEPT ![a].at = "release", ![a].stop = TRUE]
    <3>1. TableStep(jobs, jobs')
      BY <1>0, <2>2, AgentNotFresh, CompletedStep DEF Terminal
    <3>2. /\ agent' \in [Agents -> Agent] /\ agent'[a].job = agent[a].job
          /\ agent'[a].at = "release" /\ \A b \in Agents \ {a} : agent'[b] = agent[b]
      BY <1>0, <2>2 DEF Agent, AgentPlaces
    <3>3. Workers(Fresh(jobs), task, agent', starts)
      BY <1>0, <2>2, <3>2, WorkersMoved
    <3>4. Workers(Fresh(jobs'), task, agent', starts)
      BY <3>1, <3>3, WorkersShrink DEF TableStep
    <3> QED
      BY <1>0, <1>11, <3>1, <3>2, <3>4
      DEF IInv, TypeOK, AgentInterrupt, registryVars, TableStep, TableSound
  <2> QED
    BY <1>11, <2>1, <2>2 DEF AgentInterrupt
<1>12. CASE AgentUnregister(a)
  BY <1>0, <1>1, <1>2, <1>12 DEF AgentUnregister, registryVars, TypeOK
<1>13. CASE AgentCrash(a)
  BY <1>0, <1>1, <1>2, <1>13 DEF AgentCrash, registryVars, TypeOK
<1> QED
  BY <1>3, <1>4, <1>5, <1>6, <1>7, <1>8, <1>9, <1>10, <1>11, <1>12, <1>13 DEF AgentNext


\* The invariant is inductive, and every step is a step of the table.
LEMMA NextIInv ==
  ASSUME IInv, [Next]_vars
  PROVE  IInv' /\ TableStep(jobs, jobs')
<1>0. /\ TypeOK /\ TableSound(jobs) /\ TableStep(jobs, jobs)
      /\ Workers(Fresh(jobs), task, agent, starts)
  BY TableStepReflexive DEF IInv
<1>1. ASSUME NEW j \in Jobs, Submit(j) PROVE IInv' /\ TableStep(jobs, jobs')
  BY <1>0, <1>1, SubmittedStep, KickStep DEF Submit
<1>2. ASSUME NEW j \in Jobs, SubmitUnstaged(j) PROVE IInv' /\ TableStep(jobs, jobs')
  <2>1. TableStep(jobs, jobs')
    BY <1>0, <1>2, SubmittedStep DEF SubmitUnstaged
  <2>2. Workers(Fresh(jobs'), task, agent, starts)
    BY <1>0, <2>1, WorkersShrink DEF TableStep
  <2> QED
    BY <1>0, <1>2, <2>1, <2>2
    DEF SubmitUnstaged, IInv, TypeOK, registryVars, TableStep, TableSound
<1>3. ASSUME NEW j \in Jobs, Cancel(j) PROVE IInv' /\ TableStep(jobs, jobs')
  BY <1>0, <1>3, CancelRequestedStep, KickStep DEF Cancel
<1>4. CASE Sweep
  <2>1. TableStep(jobs, jobs') /\ Workers(Fresh(jobs'), task, agent, starts)
    BY <1>0, <1>4, EvictStep DEF Sweep
  <2> QED
    BY <1>0, <1>4, <2>1 DEF Sweep, Evict, IInv, TypeOK, TableStep, TableSound
<1>5. ASSUME UNCHANGED <<jobs, task, agent, starts, attached>>,
             lease' \in Jobs \cup Users \cup {NoLease}, stale' \in BOOLEAN
      PROVE  IInv' /\ TableStep(jobs, jobs')
  BY <1>0, <1>5 DEF IInv, TypeOK
<1>6. ASSUME NEW u \in Users, UserAcquire(u) \/ UserRelease(u)
      PROVE  IInv' /\ TableStep(jobs, jobs')
  BY <1>0, <1>5, <1>6 DEF UserAcquire, UserRelease, registryVars, TypeOK
<1>7. CASE LeaseExpires \/ HeartbeatAges
  BY <1>0, <1>5, <1>7 DEF LeaseExpires, HeartbeatAges, registryVars, TypeOK
<1>8. CASE UNCHANGED vars
  BY <1>0, <1>5, <1>8 DEF vars, TypeOK
<1> QED
  BY <1>1, <1>2, <1>3, <1>4, <1>6, <1>7, <1>8, TaskStep, AgentStep DEF Next

-----------------------------------------------------------------------------
\* IInv holds in every state of every execution, whatever the faults.
THEOREM Invariance == Spec => []IInv
<1>1. IInv /\ [Next]_vars => IInv'
  BY NextIInv
<1> QED
  BY <1>1, InitIInv, PTL DEF Spec

\* The variables keep their types (the job table of _JobManager, the registry
\* record, the lease, the places of runner tasks and agent processes).
THEOREM TypeCorrect == Spec => []TypeOK
<1>1. IInv => TypeOK
  BY DEF IInv
<1> QED
  BY <1>1, Invariance, PTL

\* The job queue never holds an id twice, nor one that is not queued any more or
\* that a runner task or an agent has already.
THEOREM QueueIsSound == Spec => []QueueSound
<1>1. IInv => QueueSound
  BY DEF IInv, QueueSound, TableSound, Workers, Fresh, Queued
<1> QED
  BY <1>1, Invariance, PTL

\* The _active_job_id that blocks pop and claim is always that of a running job.
THEOREM ActiveJobRuns == Spec => []ActiveRuns
<1>1. IInv => ActiveRuns
  BY DEF IInv, ActiveRuns, TableSound
<1> QED
  BY <1>1, Invariance, PTL

\* The body of a job begins at most once, in the coordinator or at an agent.
THEOREM BodyRunsOnce == Spec => []RunsOnce
<1>1. IInv => RunsOnce
  BY DEF IInv, RunsOnce, Workers
<1> QED
  BY <1>1, Invariance, PTL

\* No step, of whatever handler, task or agent, makes a finished job queued or
\* running again.
THEOREM FinishedStaysFinished == Spec => NoResurrection
<1>1. IInv /\ [Next]_vars =>
        [\A j \in Jobs : jobs.status[j] \in Terminal => jobs'.status[j] \in Terminal]_vars
  BY NextIInv DEF TableStep
<1> QED
  BY <1>1, Invariance, PTL DEF Spec, NoResurrection

\* An eviction leaves no job open, no queue and no lease: the fail-closed
\* promise of _on_edge_evicted.
THEOREM EvictionFailsClosed == Spec => FailClosed
<1> DEFINE Lost == Evicting /\ attached' = NoAgent /\ ~(\E a \in Agents : AgentUnregister(a))
           Closed == /\ \A j \in Jobs : ~Open(jobs', j)
                     /\ jobs'.queue = <<>>
                     /\ lease' = NoLease
<1>1. ASSUME IInv, Next, Lost PROVE Closed
  <2>1. attached # NoAgent /\ stale /\ attached' = NoAgent
    BY <1>1 DEF Evicting
  <2>2. ASSUME NEW t, TableSound(t), Evict(t) PROVE Closed
    BY <2>2, FailedOpenStep DEF Evict
  <2>3. TableSound(jobs)
    BY <1>1 DEF IInv
  <2>4. ASSUME NEW t, TableStep(jobs, t), Kick(t) PROVE Closed
    BY <2>1, <2>2, <2>4 DEF Kick, TableStep, registryVars
  <2>5. ASSUME NEW j \in Jobs, Submit(j) \/ SubmitUnstaged(j) \/ Cancel(j) PROVE Closed
    BY <2>1, <2>3, <2>4, <2>5, SubmittedStep, CancelRequestedStep
    DEF Submit, SubmitUnstaged, Cancel, registryVars
  <2>6. ASSUME NEW j \in Jobs, TaskNext(j) PROVE Closed
    BY <2>1, <2>6
    DEF TaskNext, TaskUnavailable, TaskRefused, TaskStart, TaskFinish, TaskCleanup, registryVars
  <2>7. ASSUME NEW a \in Agents, AgentNext(a) PROVE Closed
    <3>1. CASE AgentTurnedAway(a)
      BY <2>1, <2>2, <2>3, <3>1 DEF AgentTurnedAway, registryVars
    <3>2. CASE AgentRegister(a)
      BY <2>1, <3>2, SystemAssumptions DEF AgentRegister
    <3>3. ~AgentUnregister(a)
      BY <1>1
    <3> QED
      BY <2>1, <2>7, <3>1, <3>2, <3>3
      DEF AgentNext, AgentHeartbeat, AgentClaim, AgentAcquire, AgentComplete, AgentCompleteLost,
          AgentRelease, AgentInterrupt, AgentCrash, registryVars
  <2>8. CASE Sweep
    BY <2>2, <2>3, <2>8 DEF Sweep
  <2>9. ASSUME NEW u \in Users, UserAcquire(u) \/ UserRelease(u) PROVE Closed
    BY <2>1, <2>9 DEF UserAcquire, UserRelease, registryVars
  <2>10. CASE LeaseExpires \/ HeartbeatAges
    BY <2>1, <2>10 DEF LeaseExpires, HeartbeatAges, registryVars
  <2> HIDE DEF Lost, Closed
  <2> QED
    BY <1>1, <2>5, <2>6, <2>7, <2>8, <2>9, <2>10 DEF Next
<1>2. IInv /\ [Next]_vars => [Lost => Closed]_vars
  BY <1>1
<1> QED
  BY <1>2, Invariance, PTL DEF Spec, FailClosed

\* A user's lease ends only by the user's release, by expiry or by an eviction;
\* no job's cleanup, in the coordinator or at an agent, releases it.
THEOREM NobodyReleasesForAUser == Spec => NoForeignRelease
<1> DEFINE Fine(u) == lease = u /\ lease' # u =>
             /\ lease' = NoLease
             /\ UserRelease(u) \/ LeaseExpires \/ (Evicting /\ attached' = NoAgent)
<1>1. ASSUME IInv, Next, NEW u \in Users PROVE Fine(u)
  <2>1. u # NoLease /\ u \notin Jobs
    BY SystemAssumptions
  <2>2. ASSUME NEW t, Evicting, Evict(t) PROVE Fine(u)
    BY <2>2 DEF Evict
  <2>3. ASSUME NEW t, Kick(t) PROVE Fine(u)
    BY <2>2, <2>3 DEF Kick
  <2>4. ASSUME NEW j \in Jobs, Submit(j) \/ SubmitUnstaged(j) \/ Cancel(j) PROVE Fine(u)
    BY <2>3, <2>4 DEF Submit, SubmitUnstaged, Cancel
  <2>5. ASSUME NEW j \in Jobs, TaskNext(j) PROVE Fine(u)
    BY <2>1, <2>5
    DEF TaskNext, TaskUnavailable, TaskRefused, TaskStart, TaskFinish, TaskCleanup
  <2>6. ASSUME NEW a \in Agents, AgentNext(a) PROVE Fine(u)
    <3>1. CASE AgentRelease(a)
      <4>1. agent[a].job \in Jobs
        BY <1>1, <3>1, AgentNotFresh DEF AgentRelease
      <4> QED
        BY <2>1, <3>1, <4>1 DEF AgentRelease
    <3>2. CASE AgentTurnedAway(a)
      BY <2>2, <3>2 DEF AgentTurnedAway
    <3> QED
      BY <2>1, <2>6, <3>1, <3>2
      DEF AgentNext, AgentRegister, AgentHeartbeat, AgentClaim, AgentAcquire, AgentComplete,
          AgentCompleteLost, AgentInterrupt, AgentUnregister, AgentCrash
  <2>7. CASE Sweep
    BY <2>2, <2>7 DEF Sweep
  <2>8. ASSUME NEW v \in Users, UserAcquire(v) \/ UserRelease(v) PROVE Fine(u)
    BY <2>1, <2>8 DEF UserAcquire, UserRelease
  <2>9. CASE LeaseExpires \/ HeartbeatAges
    BY <2>9 DEF LeaseExpires, HeartbeatAges
  <2> HIDE DEF Fine
  <2> QED
    BY <1>1, <2>4, <2>5, <2>6, <2>7, <2>8, <2>9 DEF Next
<1>2. IInv /\ [Next]_vars => [\A u \in Users : Fine(u)]_vars
  BY <1>1
<1> QED
  BY <1>2, Invariance, PTL DEF Spec, NoForeignRelease

-----------------------------------------------------------------------------
(***************************************************************************)
(* What the calls do to the jobs that run and to those that were popped    *)
(* and have not begun.  None but mark_running and claim_next_queued makes  *)
(* a job run, and none but a pop takes a queued job out of the queue.      *)
(***************************************************************************)
Running(t) == {j \in Jobs : t.status[j] = "running"}
Waiting(t) == {j \in Jobs : t.status[j] = "queued"} \ Queued(t)

Quiet(t, u) ==
  /\ Running(u) \subseteq Running(t)
  /\ Waiting(u) \subseteq Waiting(t)
  /\ u.active \in {t.active, NoJob}
  /\ u.scheduled => t.scheduled

LEMMA QuietTransitive ==
  ASSUME NEW t, NEW u, NEW v, Quiet(t, u), Quiet(u, v)
  PROVE  Quiet(t, v)
  BY DEF Quiet

LEMMA SubmittedQuiet ==
  ASSUME NEW t, TableSound(t), NEW j \in Jobs
  PROVE  Quiet(t, Submitted(t, j))
<1> DEFINE u == Submitted(t, j)
<1>1. /\ t.status \in [Jobs -> Status] /\ t.queue \in Seq(Jobs)
  BY DEF TableSound, JobTable
<1>2. /\ u.status = [t.status EXCEPT ![j] = "queued"] /\ u.queue = Append(t.queue, j)
      /\ u.active = t.active /\ u.scheduled = t.scheduled
  BY DEF TableSound, JobTable, Submitted
<1> HIDE DEF u
<1>3. /\ DOMAIN u.queue = 1..(Len(t.queue) + 1) /\ DOMAIN t.queue = 1..Len(t.queue)
      /\ Len(t.queue) \in Nat
      /\ \A i \in 1..Len(t.queue) : u.queue[i] = t.queue[i]
      /\ u.queue[Len(t.queue) + 1] = j
  BY <1>1, <1>2
<1>4. Queued(t) \subseteq Queued(u) /\ j \in Queued(u)
  <2>1. ASSUME NEW i \in DOMAIN t.queue PROVE t.queue[i] \in Queued(u)
    <3>1. i \in DOMAIN u.queue /\ u.queue[i] = t.queue[i]
      BY <1>3
    <3> QED
      BY <3>1 DEF Queued
  <2>2. Len(t.queue) + 1 \in DOMAIN u.queue
    BY <1>3
  <2> QED
    BY <1>3, <2>1, <2>2 DEF Queued
<1>5. Running(u) \subseteq Running(t) /\ Waiting(u) \subseteq Waiting(t)
  BY <1>1, <1>2, <1>4 DEF Running, Waiting
<1> QED
  BY <1>2, <1>5 DEF Quiet, u

LEMMA CancelQuiet ==
  ASSUME NEW t, TableSound(t), NEW j \in Jobs, t.status[j] # "none"
  PROVE  Quiet(t, CancelRequested(t, j))
<1> DEFINE u == CancelRequested(t, j)
<1>1. /\ t \in JobTable /\ t.status \in [Jobs -> Status] /\ t.queue \in Seq(Jobs)
      /\ t.cancel \in [Jobs -> BOOLEAN] /\ IsInjective(t.queue)
  BY DEF TableSound, JobTable
<1>2. CASE t.status[j] = "running"
  <2> DEFINE k == [t.cancel EXCEPT ![j] = TRUE]
  <2>1. u = [t EXCEPT !.cancel = k]
    BY <1>2 DEF CancelRequested
  <2> HIDE DEF k, u
  <2>2. u.status = t.status /\ u.queue = t.queue /\ u.active = t.active /\ u.scheduled = t.scheduled
    BY <1>1, <2>1 DEF JobTable
  <2> QED
    BY <2>2 DEF Quiet, Running, Waiting, Queued, u
<1>3. CASE t.status[j] \in Terminal
  BY <1>3 DEF CancelRequested, Terminal, Quiet
<1>4. CASE t.status[j] = "queued"
  <2> DEFINE r == RemoveFirst(t.queue, j)
             st == [t.status EXCEPT ![j] = "cancelled"]
  <2>1. u = [t EXCEPT !.status = st, !.queue = r]
    BY <1>4 DEF CancelRequested
  <2>2. \A k \in DOMAIN t.queue : t.queue[k] # j => \E i \in DOMAIN r : r[i] = t.queue[k]
    BY <1>1, RemoveFirstFact
  <2> HIDE DEF r, u
  <2>3. u.status = st /\ u.queue = r /\ u.active = t.active /\ u.scheduled = t.scheduled
    BY <1>1, <2>1 DEF JobTable
  <2>4. Queued(t) \subseteq Queued(u) \cup {j}
    BY <2>2, <2>3 DEF Queued
  <2>5. Running(u) \subseteq Running(t) /\ Waiting(u) \subseteq Waiting(t)
    BY <1>1, <2>3, <2>4 DEF Running, Waiting
  <2> QED
    BY <2>3, <2>5 DEF Quiet, u
<1> QED
  BY <1>1, <1>2, <1>3, <1>4 DEF Status

LEMMA CompletedQuiet ==
  ASSUME NEW t, TableSound(t), NEW j \in Jobs, NEW s \in Terminal
  PROVE  LET u == Completed(t, j, s) IN
         /\ Quiet(t, u) /\ j \notin Running(u) /\ j \notin Waiting(u)
         /\ u.queue = t.queue /\ u.active # j /\ u.scheduled = FALSE
<1> DEFINE u == Completed(t, j, s)
           a == IF t.active = j THEN NoJob ELSE t.active
<1>1. t \in JobTable /\ t.status \in [Jobs -> Status] /\ t.active \in Jobs \cup {NoJob}
  BY DEF TableSound, JobTable
<1>2. u = [t EXCEPT !.status = [t.status EXCEPT ![j] = s], !.active = a, !.scheduled = FALSE]
  BY DEF Completed
<1>3. a \in {t.active, NoJob} /\ a # j
  BY JobAssumption
<1> HIDE DEF a, u
<1>4. /\ u.status = [t.status EXCEPT ![j] = s] /\ u.queue = t.queue /\ u.active = a
      /\ u.scheduled = FALSE
  BY <1>1, <1>2 DEF JobTable
<1>5. s # "running" /\ s # "queued"
  BY DEF Terminal
<1>6. /\ Running(u) \subseteq Running(t) /\ Waiting(u) \subseteq Waiting(t)
      /\ j \notin Running(u) /\ j \notin Waiting(u)
  BY <1>1, <1>4, <1>5 DEF Running, Waiting, Queued
<1> QED
  BY <1>3, <1>4, <1>6 DEF Quiet, u

LEMMA NotedQuiet ==
  ASSUME NEW t, TableSound(t), NEW b \in BOOLEAN
  PROVE  LET u == NotedScheduled(t, b) IN
         /\ Running(u) = Running(t) /\ Waiting(u) = Waiting(t)
         /\ u.active = t.active /\ u.scheduled = b /\ u.queue = t.queue
<1> DEFINE u == NotedScheduled(t, b)
<1>1. u.status = t.status /\ u.queue = t.queue /\ u.active = t.active /\ u.scheduled = b
  BY DEF TableSound, JobTable, NotedScheduled
<1> HIDE DEF u
<1> QED
  BY <1>1 DEF Running, Waiting, Queued, u

LEMMA FailedOpenQuiet ==
  ASSUME NEW t, TableSound(t)
  PROVE  LET u == FailedOpen(t) IN
         Running(u) = {} /\ Waiting(u) = {} /\ u.active = NoJob /\ u.scheduled = FALSE /\ u.queue = <<>>
<1> DEFINE u == FailedOpen(t)
<1>1. u.active = NoJob /\ u.scheduled = FALSE
  BY DEF FailedOpen, TableSound, JobTable
<1>2. u.queue = <<>> /\ \A j \in Jobs : ~Open(u, j)
  BY FailedOpenStep
<1> HIDE DEF u
<1> QED
  BY <1>1, <1>2 DEF Open, Running, Waiting, u

\* A pop may leave a job out of the queue: the one it hands out.
LEMMA PoppedLeaves ==
  ASSUME NEW t, TableSound(t)
  PROVE  LET p == Popped(t) IN
         /\ Running(p) = Running(t) /\ p.active = t.active /\ p.scheduled = t.scheduled
         /\ \A j \in Waiting(p) : j \in Waiting(t) \/ j = NextQueued(t)
         /\ RunnerShouldStart(t) => NextQueued(t) # NoJob
<1> DEFINE p == Popped(t)
<1>1. /\ t \in JobTable /\ t.queue \in Seq(Jobs) /\ DOMAIN t.queue = 1..Len(t.queue)
      /\ Len(t.queue) \in Nat /\ p.status = t.status /\ p.active = t.active
  BY PoppedStep DEF TableSound, JobTable
<1>2. p.scheduled = t.scheduled
  BY <1>1 DEF Popped, JobTable
<1>3. RunnerShouldStart(t) => NextQueued(t) # NoJob
  <2> SUFFICES ASSUME RunnerShouldStart(t) PROVE NextQueued(t) # NoJob
    OBVIOUS
  <2>1. t.queue # <<>> /\ t.active = NoJob
    BY DEF RunnerShouldStart
  <2>2. NextQueued(t) = t.queue[1] /\ 1 \in DOMAIN t.queue
    BY <1>1, <2>1, NextIsHead
  <2> QED
    BY <1>1, <2>2, JobAssumption
<1>4. CASE t.active # NoJob
  BY <1>3, <1>4 DEF Popped, Running, Waiting
<1>5. CASE t.active = NoJob /\ t.queue = <<>>
  <2>1. FirstQueued(t) = 0 /\ NextQueued(t) = NoJob
    BY <1>5, NextIsHead
  <2>2. p.queue = <<>>
    BY <1>1, <1>5, <2>1 DEF Popped, JobTable
  <2> HIDE DEF p
  <2>3. Running(p) = Running(t) /\ Waiting(p) = Waiting(t)
    BY <1>1, <1>5, <2>2 DEF Running, Waiting, Queued
  <2> QED
    BY <1>1, <1>2, <1>3, <2>3 DEF p
<1>6. CASE t.active = NoJob /\ t.queue # <<>>
  <2>1. FirstQueued(t) = 1 /\ NextQueued(t) = t.queue[1] /\ Len(t.queue) >= 1
    BY <1>1, <1>6, NextIsHead
  <2>2. p.queue = SubSeq(t.queue, 2, Len(t.queue))
    BY <1>1, <1>6, <2>1 DEF Popped, JobTable
  <2> HIDE DEF p
  <2>3. /\ DOMAIN p.queue = 1..(Len(t.queue) - 1)
        /\ \A i \in 1..(Len(t.queue) - 1) : p.queue[i] = t.queue[i + 1]
    BY <1>1, <2>1, <2>2
  <2>4. ASSUME NEW i \in DOMAIN t.queue, i # 1 PROVE t.queue[i] \in Queued(p)
    <3>1. i - 1 \in DOMAIN p.queue /\ p.queue[i - 1] = t.queue[(i - 1) + 1] /\ (i - 1) + 1 = i
      BY <1>1, <2>3, <2>4
    <3> QED
      BY <3>1 DEF Queued
  <2>5. Queued(t) \subseteq Queued(p) \cup {t.queue[1]}
    BY <2>4 DEF Queued
  <2>6. Running(p) = Running(t) /\ \A j \in Waiting(p) : j \in Waiting(t) \/ j = NextQueued(t)
    BY <1>1, <2>1, <2>5 DEF Running, Waiting
  <2> QED
    BY <1>1, <1>2, <1>3, <2>6 DEF p
<1> QED
  BY <1>4, <1>5, <1>6

LEMMA ClaimedLeaves ==
  ASSUME NEW t, TableSound(t)
  PROVE  LET u == Claimed(t) IN
         /\ Waiting(u) \subseteq Waiting(t)
         /\ \A j \in Running(u) : j \in Running(t) \/ j = NextQueued(t)
<1> DEFINE j == NextQueued(t)
           p == Popped(t)
           u == Claimed(t)
<1>1. /\ TableSound(p) /\ p \in JobTable /\ p.status \in [Jobs -> Status]
      /\ Running(p) = Running(t) /\ \A k \in Waiting(p) : k \in Waiting(t) \/ k = j
  BY PoppedStep, PoppedLeaves DEF TableStep, TableSound, JobTable
<1>2. CASE j = NoJob
  <2>1. u = p
    BY <1>2 DEF Claimed
  <2>2. \A k \in Waiting(p) : k # NoJob
    BY JobAssumption DEF Waiting
  <2> QED
    BY <1>1, <1>2, <2>1, <2>2
<1>3. CASE j # NoJob
  <2>1. u = [p EXCEPT !.status = [p.status EXCEPT ![j] = "running"], !.active = j,
                      !.scheduled = TRUE]
    BY <1>3 DEF Claimed
  <2> HIDE DEF p, u, j
  <2>2. u.status = [p.status EXCEPT ![j] = "running"] /\ u.queue = p.queue
    BY <1>1, <2>1 DEF JobTable
  <2>3. Waiting(u) \subseteq Waiting(p) \ {j} /\ \A k \in Running(u) : k \in Running(p) \/ k = j
    BY <1>1, <2>2 DEF Waiting, Running, Queued
  <2> QED
    BY <1>1, <2>3 DEF u, j
<1> QED
  BY <1>2, <1>3

LEMMA MarkedLeaves ==
  ASSUME NEW t, TableSound(t), NEW j \in Jobs
  PROVE  LET u == MarkedRunning(t, j) IN
         /\ Waiting(u) \subseteq Waiting(t) \ {j} /\ u.active = j
         /\ \A k \in Running(u) : k \in Running(t) \/ k = j
<1> DEFINE u == MarkedRunning(t, j)
<1>1. t \in JobTable /\ t.status \in [Jobs -> Status]
  BY DEF TableSound, JobTable
<1>2. u.status = [t.status EXCEPT ![j] = "running"] /\ u.queue = t.queue /\ u.active = j
  BY <1>1 DEF MarkedRunning, JobTable
<1> HIDE DEF u
<1>3. Waiting(u) \subseteq Waiting(t) \ {j} /\ \A k \in Running(u) : k \in Running(t) \/ k = j
  BY <1>1, <1>2 DEF Waiting, Running, Queued
<1> QED
  BY <1>2, <1>3 DEF u

-----------------------------------------------------------------------------
\* What the scheduler may do to the table t and the tasks tk: no job starts to
\* run, one that it pops gets a task, and no other task moves.
Handled(t, tk, u, uk) ==
  /\ Running(u) \subseteq Running(t)
  /\ \A j \in Waiting(u) : j \in Waiting(t) \/ uk[j] = "pending"
  /\ \A j \in Jobs : uk[j] = tk[j] \/ (tk[j] = "none" /\ uk[j] = "pending")

\* Somebody will look at the queue: a task that is not over does when it ends,
\* and the active job is that of a task.
Live(tk) == \E j \in Jobs : tk[j] \in {"pending", "body", "cleanup"}
ActiveTask(t, tk) == t.active # NoJob => tk[t.active] = "body"
Awake(t, tk) == t.scheduled \/ t.queue # <<>> => Live(tk)
Settled == attached = NoAgent => ActiveTask(jobs, task) /\ Awake(jobs, task)

LEMMA ScheduleHandled ==
  ASSUME NEW STATE t, TableSound(t),
         NEW STATE tk, tk \in [Jobs -> TaskStates],
         Workers(Fresh(t), tk, agent, starts),
         Schedule(t, tk)
  PROVE  /\ Handled(t, tk, jobs', task')
         /\ ActiveTask(t, tk) /\ (t.scheduled => Live(tk)) =>
              ActiveTask(jobs', task') /\ Awake(jobs', task')
<1> DEFINE j == NextQueued(t)
           p == Popped(t)
<1>1. CASE RunnerShouldStart(t) /\ j # NoJob
  <2>1. jobs' = NotedScheduled(p, TRUE) /\ task' = [tk EXCEPT ![j] = "pending"]
    BY <1>1 DEF Schedule
  <2>2. j \in Jobs /\ tk[j] = "none" /\ TableSound(p)
    BY <1>1, PoppedStep DEF Fresh, Workers, TableStep
  <2>3. /\ Running(p) = Running(t) /\ p.active = t.active
        /\ \A k \in Waiting(p) : k \in Waiting(t) \/ k = j
    BY PoppedLeaves
  <2>4. /\ Running(jobs') = Running(p) /\ Waiting(jobs') = Waiting(p) /\ jobs'.active = p.active
    BY <2>1, <2>2, NotedQuiet
  <2>5. t.active = NoJob
    BY <1>1 DEF RunnerShouldStart
  <2> HIDE DEF j, p
  <2>6. Handled(t, tk, jobs', task')
    BY <2>1, <2>2, <2>3, <2>4 DEF Handled
  <2>7. Live(task')
    BY <2>1, <2>2 DEF Live
  <2>8. ActiveTask(jobs', task')
    BY <2>3, <2>4, <2>5 DEF ActiveTask
  <2> QED
    BY <2>6, <2>7, <2>8 DEF Awake
<1>2. CASE ~RunnerShouldStart(t)
  <2>1. jobs' = t /\ task' = tk
    BY <1>2 DEF Schedule
  <2>2. Handled(t, tk, t, tk)
    BY DEF Handled
  <2>3. ASSUME ActiveTask(t, tk), t.scheduled => Live(tk) PROVE Awake(t, tk)
    <3>1. CASE t.active = NoJob
      BY <1>2, <2>3, <3>1 DEF RunnerShouldStart, Awake
    <3>2. CASE t.active # NoJob
      <4>1. t.active \in Jobs /\ tk[t.active] = "body"
        BY <2>3, <3>2 DEF ActiveTask, TableSound, JobTable
      <4> QED
        BY <4>1 DEF Awake, Live
    <3> QED
      BY <3>1, <3>2
  <2> QED
    BY <2>1, <2>2, <2>3
<1>3. RunnerShouldStart(t) => j # NoJob
  BY PoppedLeaves
<1> QED
  BY <1>1, <1>2, <1>3

\* What the callers of _kick_job_runner_for may count on.
LEMMA KickHandled ==
  ASSUME IInv, NEW STATE t, TableStep(jobs, t), Quiet(jobs, t), Kick(t)
  PROVE  /\ Handled(jobs, task, jobs', task')
         /\ lease' = lease \/ Running(jobs') = {}
         /\ Settled => Settled'
<1>1. Workers(Fresh(t), task, agent, starts) /\ TableSound(t) /\ task \in [Jobs -> TaskStates]
  BY WorkersShrink DEF TableStep, IInv, TypeOK
<1>2. CASE Evicting /\ Evict(t) /\ UNCHANGED task
  <2>1. /\ Running(jobs') = {} /\ Waiting(jobs') = {} /\ jobs'.active = NoJob
        /\ jobs'.scheduled = FALSE /\ jobs'.queue = <<>> /\ task' = task
    BY <1>1, <1>2, FailedOpenQuiet DEF Evict
  <2> QED
    BY <2>1 DEF Handled, Settled, ActiveTask, Awake
<1>3. CASE attached # NoAgent /\ ~stale /\ jobs' = t /\ UNCHANGED <<task, lease, registryVars>>
  BY <1>3 DEF Quiet, Handled, Settled, registryVars
<1>4. CASE attached = NoAgent /\ Schedule(t, task) /\ UNCHANGED <<lease, registryVars>>
  <2>1. /\ Handled(t, task, jobs', task')
        /\ ActiveTask(t, task) /\ (t.scheduled => Live(task)) =>
             ActiveTask(jobs', task') /\ Awake(jobs', task')
    BY <1>1, <1>4, ScheduleHandled
  <2>2. Handled(jobs, task, jobs', task')
    BY <2>1 DEF Handled, Quiet
  <2>3. Settled => ActiveTask(t, task) /\ (t.scheduled => Live(task))
    BY <1>4 DEF Settled, ActiveTask, Awake, Quiet
  <2> QED
    BY <1>4, <2>1, <2>2, <2>3 DEF Settled
<1> QED
  BY <1>2, <1>3, <1>4 DEF Kick

\* What the end of a runner task does besides.
LEMMA TaskEndsHandled ==
  ASSUME IInv, NEW STATE t, TableStep(jobs, t), Quiet(jobs, t),
         NEW j \in Jobs, task[j] # "none", TaskEnds(j, t), UNCHANGED registryVars
  PROVE  /\ Running(jobs') \subseteq Running(t)
         /\ \A k \in Waiting(jobs') : k \in Waiting(t) \/ task'[k] = "pending"
         /\ \A k \in Jobs \ {j} : task'[k] = task[k] \/ (task[k] = "none" /\ task'[k] = "pending")
         /\ task'[j] = "gone"
         /\ Settled /\ t.active # j => Settled'
<1> DEFINE n == NotedScheduled(t, FALSE)
           tk == [task EXCEPT ![j] = "gone"]
<1>1. TableSound(n) /\ TableStep(jobs, n)
  BY NotedStep, TableStepTransitive DEF TableStep
<1>2. /\ Running(n) = Running(t) /\ Waiting(n) = Waiting(t)
      /\ n.active = t.active /\ n.scheduled = FALSE
  BY NotedQuiet DEF TableStep
<1>3. tk \in [Jobs -> TaskStates] /\ tk[j] = "gone" /\ \A k \in Jobs \ {j} : tk[k] = task[k]
  BY DEF IInv, TypeOK, TaskStates
<1>4. Workers(Fresh(n), tk, agent, starts)
  <2>1. Workers(Fresh(jobs), tk, agent, starts)
    BY WorkersTask DEF IInv, TypeOK, TaskStates
  <2> QED
    BY <1>1, <2>1, WorkersShrink DEF TableStep
<1>5. Schedule(n, tk)
  BY DEF TaskEnds
<1> HIDE DEF n, tk
<1>6. /\ Handled(n, tk, jobs', task')
      /\ ActiveTask(n, tk) /\ (n.scheduled => Live(tk)) =>
           ActiveTask(jobs', task') /\ Awake(jobs', task')
  BY <1>1, <1>3, <1>4, <1>5, ScheduleHandled
<1>7. ASSUME Settled, t.active # j, attached = NoAgent PROVE ActiveTask(n, tk)
  <2>1. n.active # NoJob => n.active = jobs.active /\ n.active \in Jobs \ {j}
    BY <1>2, <1>7 DEF Quiet, IInv, TypeOK, JobTable
  <2> QED
    BY <1>3, <1>7, <2>1 DEF Settled, ActiveTask
<1>8. Settled /\ t.active # j => Settled'
  BY <1>2, <1>6, <1>7 DEF Settled, registryVars
<1> QED
  BY <1>2, <1>3, <1>6, <1>8 DEF Handled

-----------------------------------------------------------------------------
\* A job that was popped has a task that has not begun yet, if no task is given
\* up because its backend does not initialise.
PoppedHasTask == \A j \in Waiting(jobs) : task[j] = "pending"

LEMMA PoppedKeepTheirTask ==
  ASSUME "unavailable" \notin Faults, IInv, PoppedHasTask, [Next]_vars
  PROVE  PoppedHasTask'
<1>0. TableSound(jobs) /\ TableStep(jobs, jobs) /\ Quiet(jobs, jobs) /\ task \in [Jobs -> TaskStates]
  BY TableStepReflexive DEF IInv, TypeOK, Quiet
<1>1. ASSUME NEW STATE t, TableStep(jobs, t), Quiet(jobs, t), Kick(t) PROVE PoppedHasTask'
  <2>1. Handled(jobs, task, jobs', task')
    BY <1>1, KickHandled
  <2> QED
    BY <2>1 DEF Handled, PoppedHasTask, Waiting
<1>2. ASSUME Evict(jobs), UNCHANGED task PROVE PoppedHasTask'
  <2>1. Waiting(jobs') = {}
    BY <1>0, <1>2, FailedOpenQuiet DEF Evict
  <2> QED
    BY <2>1 DEF PoppedHasTask
<1>3. ASSUME Waiting(jobs') \subseteq Waiting(jobs), UNCHANGED task PROVE PoppedHasTask'
  BY <1>3 DEF PoppedHasTask
<1>4. ASSUME NEW j \in Jobs, NEW STATE t, TableStep(jobs, t), Quiet(jobs, t), task[j] # "none",
             j \notin Waiting(t), TaskEnds(j, t), UNCHANGED registryVars
      PROVE  PoppedHasTask'
  <2>1. /\ \A k \in Waiting(jobs') : k \in Waiting(t) \/ task'[k] = "pending"
        /\ \A k \in Jobs \ {j} : task'[k] = task[k] \/ (task[k] = "none" /\ task'[k] = "pending")
    BY <1>4, TaskEndsHandled
  <2> QED
    BY <1>4, <2>1 DEF PoppedHasTask, Quiet, Waiting
<1>5. ASSUME NEW j \in Jobs, Submit(j) \/ SubmitUnstaged(j) PROVE PoppedHasTask'
  <2>1. Quiet(jobs, Submitted(jobs, j)) /\ TableStep(jobs, Submitted(jobs, j))
    BY <1>0, <1>5, SubmittedStep, SubmittedQuiet DEF Submit, SubmitUnstaged
  <2> QED
    BY <1>1, <1>3, <1>5, <2>1 DEF Submit, SubmitUnstaged, Quiet
<1>6. ASSUME NEW j \in Jobs, Cancel(j) PROVE PoppedHasTask'
  <2>1. Quiet(jobs, CancelRequested(jobs, j)) /\ TableStep(jobs, CancelRequested(jobs, j))
    BY <1>0, <1>6, CancelRequestedStep, CancelQuiet DEF Cancel
  <2> QED
    BY <1>1, <1>6, <2>1 DEF Cancel
<1>7. ASSUME NEW j \in Jobs, TaskNext(j) PROVE PoppedHasTask'
  <2>1. ~TaskUnavailable(j)
    BY DEF TaskUnavailable
  <2>2. CASE TaskRefused(j)
    <3> DEFINE t == Completed(jobs, j, "failed")
    <3>1. TableStep(jobs, t) /\ Quiet(jobs, t) /\ j \notin Waiting(t)
      BY <1>0, <2>2, TaskNotFresh, CompletedStep, CompletedQuiet DEF TaskRefused, Terminal
    <3> QED
      BY <1>4, <2>2, <3>1 DEF TaskRefused
  <2>3. CASE TaskStart(j)
    <3>1. Waiting(jobs') \subseteq Waiting(jobs) \ {j}
      BY <1>0, <2>3, MarkedLeaves DEF TaskStart
    <3>2. \A k \in Jobs \ {j} : task'[k] = task[k]
      BY <1>0, <2>3 DEF TaskStart
    <3> QED
      BY <3>1, <3>2 DEF PoppedHasTask, Waiting
  <2>4. ASSUME NEW ok \in BOOLEAN, TaskFinish(j, ok) PROVE PoppedHasTask'
    <3>1. Verdict(j, ok) \in Terminal
      BY DEF Verdict, Terminal
    <3>2. PICK s \in Terminal : jobs' = Completed(jobs, j, s)
      BY <2>4, <3>1 DEF TaskFinish
    <3>3. Waiting(jobs') \subseteq Waiting(jobs) \ {j}
      <4>1. Quiet(jobs, Completed(jobs, j, s)) /\ j \notin Waiting(Completed(jobs, j, s))
        BY <1>0, <3>2, CompletedQuiet
      <4> QED
        BY <3>2, <4>1 DEF Quiet
    <3>4. \A k \in Jobs \ {j} : task'[k] = task[k]
      BY <1>0, <2>4 DEF TaskFinish
    <3> QED
      BY <3>3, <3>4 DEF PoppedHasTask, Waiting
  <2>5. CASE TaskCleanup(j)
    <3>1. task[j] = "cleanup" /\ j \notin Waiting(jobs)
      BY <2>5 DEF TaskCleanup, PoppedHasTask
    <3> QED
      BY <1>0, <1>4, <2>5, <3>1 DEF TaskCleanup
  <2> QED
    BY <1>7, <2>1, <2>2, <2>3, <2>4, <2>5 DEF TaskNext
<1>8. ASSUME NEW a \in Agents, AgentNext(a) PROVE PoppedHasTask'
  <2>1. CASE AgentClaim(a)
    BY <1>0, <1>3, <2>1, ClaimedLeaves DEF AgentClaim
  <2>2. CASE AgentTurnedAway(a)
    BY <1>2, <1>3, <2>2 DEF AgentTurnedAway
  <2>3. ASSUME agent[a].at = "body", UNCHANGED task, NEW s \in Terminal,
               jobs' = Completed(jobs, agent[a].job, s)
        PROVE  PoppedHasTask'
    <3>1. agent[a].job \in Jobs
      BY <2>3, AgentNotFresh
    <3> QED
      BY <1>0, <1>3, <2>3, <3>1, CompletedQuiet DEF Quiet
  <2>4. ASSUME NEW ok \in BOOLEAN, AgentComplete(a, ok) PROVE PoppedHasTask'
    BY <2>3, <2>4 DEF AgentComplete, Terminal
  <2>5. CASE AgentInterrupt(a)
    BY <1>3, <2>3, <2>5 DEF AgentInterrupt, Terminal
  <2> QED
    BY <1>3, <1>8, <2>1, <2>2, <2>4, <2>5
    DEF AgentNext, AgentRegister, AgentHeartbeat, AgentAcquire, AgentCompleteLost,
        AgentRelease, AgentUnregister, AgentCrash
<1>9. ASSUME NEW u \in Users, UserAcquire(u) \/ UserRelease(u) PROVE PoppedHasTask'
  BY <1>3, <1>9 DEF UserAcquire, UserRelease
<1>10. CASE Sweep
  BY <1>2, <1>10 DEF Sweep
<1>11. CASE LeaseExpires \/ HeartbeatAges
  BY <1>3, <1>11 DEF LeaseExpires, HeartbeatAges
<1>12. CASE UNCHANGED vars
  BY <1>3, <1>12 DEF vars
<1> QED
  BY <1>5, <1>6, <1>7, <1>8, <1>9, <1>10, <1>11, <1>12 DEF Next

\* Unless a backend fails to initialise, every queued job is in the queue or has
\* the task that was scheduled when it was popped.
THEOREM NothingForgotten ==
  ASSUME "unavailable" \notin Faults
  PROVE  Spec => []NotForgotten
<1>1. Init => PoppedHasTask
  BY DEF Init, EmptyTable, PoppedHasTask, Waiting
<1>2. IInv /\ PoppedHasTask /\ [Next]_vars => PoppedHasTask'
  BY PoppedKeepTheirTask
<1>3. PoppedHasTask => NotForgotten
  BY DEF PoppedHasTask, NotForgotten, Waiting, Queued
<1> QED
  BY <1>1, <1>2, <1>3, Invariance, PTL DEF Spec

-----------------------------------------------------------------------------
\* Who has a body in hand keeps the lease, unless it may expire: the workers
\* that give the lease back give back their own, and have no body any more.
LEMMA BodyKeepsLease ==
  ASSUME "expiry" \notin Faults, IInv, BodyHoldsLease, [Next]_vars
  PROVE  BodyHoldsLease'
<1>0. /\ TableSound(jobs) /\ TableStep(jobs, jobs) /\ Quiet(jobs, jobs)
      /\ task \in [Jobs -> TaskStates] /\ agent \in [Agents -> Agent]
  BY TableStepReflexive DEF IInv, TypeOK, Quiet
<1> DEFINE NoNewTask == \A j \in Jobs : task'[j] = "body" => task[j] = "body"
           NoNewAgent == \A a \in Agents : agent'[a].at = "body" => agent'[a] = agent[a]
\* The two ways in which most steps keep it.
<1>1. ASSUME Running(jobs') \subseteq Running(jobs), NoNewTask, NoNewAgent,
             lease' = lease \/ Running(jobs') = {}
      PROVE  BodyHoldsLease'
  BY <1>1 DEF BodyHoldsLease, Running
<1>2. ASSUME NEW j \in Jobs \cup Users, lease = j, Running(jobs') \subseteq Running(jobs),
             NoNewTask, NoNewAgent, j \in Jobs => task'[j] # "body",
             \A a \in Agents : agent'[a].at = "body" => agent'[a].job # j
      PROVE  BodyHoldsLease'
  BY <1>2 DEF BodyHoldsLease, Running
<1>3. ASSUME NEW STATE t, TableStep(jobs, t), Quiet(jobs, t), Kick(t), UNCHANGED agent
      PROVE  BodyHoldsLease'
  <2>1. Handled(jobs, task, jobs', task') /\ (lease' = lease \/ Running(jobs') = {})
    BY <1>3, KickHandled
  <2> QED
    BY <1>1, <1>3, <2>1 DEF Handled
<1>4. ASSUME Evict(jobs), NoNewTask, NoNewAgent PROVE BodyHoldsLease'
  <2>1. Running(jobs') = {}
    BY <1>0, <1>4, FailedOpenQuiet DEF Evict
  <2> QED
    BY <1>1, <1>4, <2>1
<1>5. ASSUME NEW j \in Jobs, NEW STATE t, TableStep(jobs, t), Quiet(jobs, t), task[j] # "none",
             TaskEnds(j, t), UNCHANGED <<registryVars, agent>>,
             lease' = lease \/ lease = j
      PROVE  BodyHoldsLease'
  <2>1. /\ Running(jobs') \subseteq Running(t)
        /\ \A k \in Jobs \ {j} : task'[k] = task[k] \/ (task[k] = "none" /\ task'[k] = "pending")
        /\ task'[j] = "gone"
    BY <1>5, TaskEndsHandled
  <2>2. Running(jobs') \subseteq Running(jobs) /\ NoNewTask
    BY <1>5, <2>1 DEF Quiet
  <2>3. \A a \in Agents : agent[a].job # j
    BY <1>5 DEF IInv, Workers
  <2> QED
    BY <1>1, <1>2, <1>5, <2>1, <2>2, <2>3
<1>6. ASSUME NEW j \in Jobs, Submit(j) \/ SubmitUnstaged(j) PROVE BodyHoldsLease'
  <2>1. Quiet(jobs, Submitted(jobs, j)) /\ TableStep(jobs, Submitted(jobs, j))
    BY <1>0, <1>6, SubmittedStep, SubmittedQuiet DEF Submit, SubmitUnstaged
  <2> QED
    BY <1>1, <1>3, <1>6, <2>1 DEF Submit, SubmitUnstaged, Quiet
<1>7. ASSUME NEW j \in Jobs, Cancel(j) PROVE BodyHoldsLease'
  <2>1. Quiet(jobs, CancelRequested(jobs, j)) /\ TableStep(jobs, CancelRequested(jobs, j))
    BY <1>0, <1>7, CancelRequestedStep, CancelQuiet DEF Cancel
  <2> QED
    BY <1>3, <1>7, <2>1 DEF Cancel
<1>8. ASSUME NEW j \in Jobs, TaskNext(j) PROVE BodyHoldsLease'
  <2>1. CASE TaskUnavailable(j)
    BY <1>0, <1>5, <2>1 DEF TaskUnavailable
  <2>2. CASE TaskRefused(j)
    <3> DEFINE t == Completed(jobs, j, "failed")
    <3>1. TableStep(jobs, t) /\ Quiet(jobs, t)
      BY <1>0, <2>2, TaskNotFresh, CompletedStep, CompletedQuiet DEF TaskRefused, Terminal
    <3> QED
      BY <1>5, <2>2, <3>1 DEF TaskRefused
  <2>3. CASE TaskStart(j)
    <3>1. /\ lease = NoLease /\ lease' = j /\ UNCHANGED agent /\ task[j] = "pending"
          /\ task'[j] = "body" /\ \A k \in Jobs \ {j} : task'[k] = task[k]
      BY <1>0, <2>3 DEF TaskStart
    <3>2. \A k \in Running(jobs') : k \in Running(jobs) \/ k = j
      BY <1>0, <2>3, MarkedLeaves DEF TaskStart
    <3>3. \A k \in Jobs : k # NoLease
      BY SystemAssumptions
    <3> QED
      BY <3>1, <3>2, <3>3 DEF BodyHoldsLease, Running
  <2>4. ASSUME NEW ok \in BOOLEAN, TaskFinish(j, ok) PROVE BodyHoldsLease'
    <3>1. Verdict(j, ok) \in Terminal
      BY DEF Verdict, Terminal
    <3>2. PICK s \in Terminal : jobs' = Completed(jobs, j, s)
      BY <2>4, <3>1 DEF TaskFinish
    <3>3. Quiet(jobs, jobs')
      BY <1>0, <3>2, CompletedQuiet
    <3>4. NoNewTask /\ NoNewAgent /\ lease' = lease
      BY <1>0, <2>4 DEF TaskFinish
    <3> QED
      BY <1>1, <3>3, <3>4 DEF Quiet
  <2>5. CASE TaskCleanup(j)
    BY <1>0, <1>5, <2>5 DEF TaskCleanup
  <2> QED
    BY <1>8, <2>1, <2>2, <2>3, <2>4, <2>5 DEF TaskNext
<1>9. ASSUME NEW a \in Agents, AgentNext(a) PROVE BodyHoldsLease'
  <2>1. ASSUME NEW p \in {"idle", "stopping", "gone"}, Goes(a, p)
        PROVE  NoNewAgent /\ agent'[a].at # "body"
    BY <1>0, <2>1 DEF Goes, Parked
  <2>2. CASE AgentClaim(a)
    <3>1. CASE NextQueued(jobs) = NoJob
      <4>1. \A k \in Running(jobs') : k \in Running(jobs)
        BY <1>0, <2>2, <3>1, ClaimedLeaves, JobAssumption DEF AgentClaim, Running
      <4> QED
        BY <1>1, <2>2, <3>1, <4>1 DEF AgentClaim
    <3>2. CASE NextQueued(jobs) # NoJob
      <4> DEFINE j == NextQueued(jobs)
      <4>1. \A k \in Running(jobs') : k \in Running(jobs) \/ k = j
        BY <1>0, <2>2, ClaimedLeaves DEF AgentClaim
      <4>2. j \in Fresh(jobs)
        BY <1>0, <3>2, PoppedStep DEF Fresh
      <4>3. task[j] = "none" /\ \A b \in Agents : agent[b].job # j
        BY <4>2 DEF IInv, Workers
      <4>4. agent'[a].at = "claimed" /\ \A b \in Agents \ {a} : agent'[b] = agent[b]
        BY <1>0, <2>2, <3>2 DEF AgentClaim
      <4> HIDE DEF j
      <4> QED
        BY <2>2, <4>1, <4>3, <4>4 DEF AgentClaim, BodyHoldsLease, Running
    <3> QED
      BY <3>1, <3>2
  <2>3. CASE AgentTurnedAway(a)
    BY <1>1, <1>4, <2>1, <2>3 DEF AgentTurnedAway
  <2>4. CASE AgentAcquire(a)
    <3>1. CASE lease # NoLease
      BY <1>1, <2>1, <2>4, <3>1 DEF AgentAcquire
    <3>2. CASE lease = NoLease
      <4>1. /\ lease' = agent[a].job /\ agent'[a].job = agent[a].job /\ UNCHANGED <<jobs, task>>
            /\ \A b \in Agents \ {a} : agent'[b] = agent[b]
        BY <1>0, <2>4, <3>2 DEF AgentAcquire, Agent
      <4>2. \A k \in Jobs : k # NoLease
        BY SystemAssumptions
      <4>3. agent[a].job \in Jobs /\ task[agent[a].job] = "none"
        BY <2>4, AgentNotFresh DEF AgentAcquire, IInv, Workers
      <4> QED
        BY <3>2, <4>1, <4>2, <4>3 DEF BodyHoldsLease
    <3> QED
      BY <3>1, <3>2
  <2>5. ASSUME agent[a].at = "body", UNCHANGED <<task, lease>>, NEW s \in Terminal,
               jobs' = Completed(jobs, agent[a].job, s), NoNewAgent
        PROVE  BodyHoldsLease'
    <3>1. agent[a].job \in Jobs
      BY <2>5, AgentNotFresh
    <3> QED
      BY <1>0, <1>1, <2>5, <3>1, CompletedQuiet DEF Quiet
  <2>6. ASSUME NEW ok \in BOOLEAN, AgentComplete(a, ok) PROVE BodyHoldsLease'
    <3>1. NoNewAgent
      BY <1>0, <2>6 DEF AgentComplete, Agent
    <3> QED
      BY <2>5, <2>6, <3>1 DEF AgentComplete, Terminal
  <2>7. CASE AgentCompleteLost(a)
    <3>1. NoNewAgent
      BY <1>0, <2>7 DEF AgentCompleteLost, Agent
    <3> QED
      BY <1>1, <2>7, <3>1 DEF AgentCompleteLost
  <2>8. CASE AgentRelease(a)
    <3>1. NoNewAgent /\ agent'[a].at # "body"
      BY <2>1, <2>8 DEF AgentRelease
    <3>2. /\ agent[a].job \in Jobs /\ task[agent[a].job] = "none"
          /\ \A b \in Agents : agent[b].job = agent[a].job => b = a
      BY <2>8, AgentNotFresh, JobAssumption DEF AgentRelease, IInv, Workers
    <3>3. UNCHANGED <<jobs, task>> /\ (lease' = lease \/ lease = agent[a].job)
      BY <2>8 DEF AgentRelease
    <3> QED
      BY <1>1, <1>2, <3>1, <3>2, <3>3
  <2>9. CASE AgentInterrupt(a)
    <3>1. CASE Goes(a, "stopping") /\ UNCHANGED jobs
      BY <1>1, <2>1, <2>9, <3>1 DEF AgentInterrupt
    <3>2. CASE /\ agent[a].at = "body"
               /\ jobs' = Completed(jobs, agent[a].job, "succeeded")
               /\ agent' = [agent EXCEPT ![a].at = "release", ![a].stop = TRUE]
      <4>1. NoNewAgent
        BY <1>0, <3>2 DEF Agent
      <4> QED
        BY <2>5, <2>9, <3>2, <4>1 DEF AgentInterrupt, Terminal
    <3> QED
      BY <2>9, <3>1, <3>2 DEF AgentInterrupt
  <2> QED
    BY <1>1, <1>9, <2>1, <2>2, <2>3, <2>4, <2>6, <2>7, <2>8, <2>9
    DEF AgentNext, AgentRegister, AgentHeartbeat, AgentUnregister, AgentCrash
<1>10. ASSUME NEW u \in Users, UserAcquire(u) \/ UserRelease(u) PROVE BodyHoldsLease'
  <2>1. \A j \in Jobs : j # NoLease /\ j # u
    BY SystemAssumptions
  <2> QED
    BY <1>10, <2>1 DEF UserAcquire, UserRelease, BodyHoldsLease
<1>11. CASE Sweep
  BY <1>4, <1>11 DEF Sweep
<1>12. ~LeaseExpires
  BY DEF LeaseExpires
<1>13. CASE HeartbeatAges \/ UNCHANGED vars
  BY <1>13 DEF HeartbeatAges, vars, BodyHoldsLease
<1> QED
  BY <1>6, <1>7, <1>8, <1>9, <1>10, <1>11, <1>12, <1>13 DEF Next

\* Unless a lease expires, a running job that is in its body, in the coordinator
\* or at an agent, has the lease of its backend.
THEOREM BodiesHoldTheLease ==
  ASSUME "expiry" \notin Faults
  PROVE  Spec => []BodyHoldsLease
<1>1. Init => BodyHoldsLease
  BY DEF Init, EmptyTable, BodyHoldsLease
<1>2. IInv /\ BodyHoldsLease /\ [Next]_vars => BodyHoldsLease'
  BY BodyKeepsLease
<1> QED
  BY <1>1, <1>2, Invariance, PTL DEF Spec

-----------------------------------------------------------------------------
\* Without an agent the table is Settled: its flag and its queue have a task that
\* is not over.  An agent that leaves in good order would break it, but it does
\* so only when it is interrupted; an eviction empties the queue.
NoneLeaves == \A a \in Agents : agent[a].at # "stopping" /\ ~agent[a].stop

LEMMA NobodyLeaves ==
  ASSUME "interrupt" \notin Faults, IInv, NoneLeaves, [Next]_vars
  PROVE  NoneLeaves'
<1>0. agent \in [Agents -> Agent]
  BY DEF IInv, TypeOK
<1>1. ASSUME NEW a \in Agents, NEW p \in {"idle", "gone"}, Goes(a, p) PROVE NoneLeaves'
  BY <1>0, <1>1 DEF Goes, Parked, NoneLeaves
<1>2. ASSUME UNCHANGED agent PROVE NoneLeaves'
  BY <1>2 DEF NoneLeaves
<1>3. ASSUME NEW a \in Agents, AgentNext(a) PROVE NoneLeaves'
  <2>1. CASE AgentClaim(a)
    BY <1>0, <2>1 DEF AgentClaim, NoneLeaves
  <2>2. CASE AgentAcquire(a)
    BY <1>0, <1>1, <2>2 DEF AgentAcquire, NoneLeaves, Agent
  <2>3. ASSUME agent' = [agent EXCEPT ![a].at = "release"] PROVE NoneLeaves'
    BY <1>0, <2>3 DEF NoneLeaves, Agent
  <2>4. CASE AgentRelease(a)
    BY <1>1, <2>4 DEF AgentRelease, NoneLeaves
  <2>5. ~AgentInterrupt(a) /\ ~AgentUnregister(a)
    BY DEF AgentInterrupt, AgentUnregister, NoneLeaves
  <2> QED
    BY <1>1, <1>2, <1>3, <2>1, <2>2, <2>3, <2>4, <2>5
    DEF AgentNext, AgentRegister, AgentHeartbeat, AgentTurnedAway, AgentComplete,
        AgentCompleteLost, AgentCrash
<1>4. ASSUME NEW j \in Jobs, TaskNext(j) PROVE NoneLeaves'
  BY <1>2, <1>4
  DEF TaskNext, TaskUnavailable, TaskRefused, TaskStart, TaskFinish, TaskCleanup
<1> QED
  BY <1>2, <1>3, <1>4
  DEF Next, Submit, SubmitUnstaged, Cancel, UserAcquire, UserRelease, Sweep, LeaseExpires,
      HeartbeatAges, vars

LEMMA StaysSettled ==
  ASSUME "staging" \notin Faults, IInv, NoneLeaves, Settled, [Next]_vars
  PROVE  Settled'
<1>0. /\ TableSound(jobs) /\ TableStep(jobs, jobs) /\ Quiet(jobs, jobs)
      /\ task \in [Jobs -> TaskStates]
  BY TableStepReflexive DEF IInv, TypeOK, Quiet
<1>1. ASSUME NEW STATE t, TableStep(jobs, t), Quiet(jobs, t), Kick(t) PROVE Settled'
  BY <1>1, KickHandled
<1>2. ASSUME Evict(jobs), UNCHANGED task PROVE Settled'
  <2>1. jobs'.active = NoJob /\ jobs'.scheduled = FALSE /\ jobs'.queue = <<>>
    BY <1>0, <1>2, FailedOpenQuiet DEF Evict
  <2> QED
    BY <2>1 DEF Settled, ActiveTask, Awake
<1>3. ASSUME UNCHANGED <<jobs, task, attached>> PROVE Settled'
  BY <1>3 DEF Settled
<1>4. ASSUME NEW j \in Jobs, NEW STATE t, TableStep(jobs, t), Quiet(jobs, t), task[j] # "none",
             t.active # j, TaskEnds(j, t), UNCHANGED registryVars
      PROVE  Settled'
  BY <1>4, TaskEndsHandled
\* With an agent at the backend nothing is claimed.
<1>5. ASSUME attached' = attached, attached # NoAgent PROVE Settled'
  BY <1>5 DEF Settled
<1>6. ASSUME NEW j \in Jobs, Submit(j) PROVE Settled'
  <2>1. Quiet(jobs, Submitted(jobs, j)) /\ TableStep(jobs, Submitted(jobs, j))
    BY <1>0, <1>6, SubmittedStep, SubmittedQuiet DEF Submit
  <2> QED
    BY <1>1, <1>6, <2>1 DEF Submit
<1>7. ASSUME NEW j \in Jobs, Cancel(j) PROVE Settled'
  <2>1. Quiet(jobs, CancelRequested(jobs, j)) /\ TableStep(jobs, CancelRequested(jobs, j))
    BY <1>0, <1>7, CancelRequestedStep, CancelQuiet DEF Cancel
  <2> QED
    BY <1>1, <1>7, <2>1 DEF Cancel
<1>8. ASSUME NEW j \in Jobs, NEW s \in Terminal, jobs' = Completed(jobs, j, s),
             UNCHANGED <<task, attached>>
      PROVE  Settled'
  <2> SUFFICES ASSUME attached = NoAgent PROVE ActiveTask(jobs', task') /\ Awake(jobs', task')
    BY <1>8 DEF Settled
  <2> DEFINE u == Completed(jobs, j, s)
  <2>1. u.queue = jobs.queue /\ u.scheduled = FALSE /\ Quiet(jobs, u)
    BY <1>0, CompletedQuiet
  <2>2. u.active \in {jobs.active, NoJob} /\ ~u.scheduled /\ jobs' = u
    BY <1>8, <2>1 DEF Quiet
  <2> HIDE DEF u
  <2> QED
    BY <1>8, <2>1, <2>2 DEF Settled, ActiveTask, Awake
<1>9. ASSUME NEW j \in Jobs, TaskNext(j) PROVE Settled'
  <2>1. ASSUME attached = NoAgent, task[j] # "body" PROVE jobs.active # j
    BY <2>1, JobAssumption DEF Settled, ActiveTask
  <2>2. ASSUME attached # NoAgent, UNCHANGED registryVars PROVE Settled'
    BY <1>5, <2>2 DEF registryVars
  <2>3. CASE TaskUnavailable(j)
    BY <1>0, <1>4, <2>1, <2>2, <2>3 DEF TaskUnavailable
  <2>4. CASE TaskRefused(j)
    <3> DEFINE t == Completed(jobs, j, "failed")
    <3>1. TableStep(jobs, t) /\ Quiet(jobs, t) /\ t.active # j
      BY <1>0, <2>4, TaskNotFresh, CompletedStep, CompletedQuiet DEF TaskRefused, Terminal
    <3> QED
      BY <1>4, <2>4, <3>1 DEF TaskRefused
  <2>5. CASE TaskStart(j)
    <3>1. jobs'.active = j
      BY <1>0, <2>5, MarkedLeaves DEF TaskStart
    <3>2. task'[j] = "body"
      BY <1>0, <2>5 DEF TaskStart
    <3> QED
      BY <3>1, <3>2 DEF Settled, ActiveTask, Awake, Live
  <2>6. ASSUME NEW ok \in BOOLEAN, TaskFinish(j, ok) PROVE Settled'
    <3>1. Verdict(j, ok) \in Terminal
      BY DEF Verdict, Terminal
    <3>2. PICK s \in Terminal : jobs' = Completed(jobs, j, s)
      BY <2>6, <3>1 DEF TaskFinish
    <3>3. task[j] = "body" /\ task' = [task EXCEPT ![j] = "cleanup"] /\ attached' = attached
      BY <2>6 DEF TaskFinish, registryVars
    <3> SUFFICES ASSUME attached = NoAgent PROVE ActiveTask(jobs', task') /\ Awake(jobs', task')
      BY <3>3 DEF Settled
    <3>4. /\ jobs'.active # j /\ jobs'.active \in {jobs.active, NoJob}
          /\ jobs.active \in Jobs \cup {NoJob}
      BY <1>0, <3>2, CompletedQuiet DEF Quiet, IInv, TypeOK, JobTable
    <3>5. Live(task')
      BY <1>0, <3>3 DEF Live
    <3> QED
      BY <1>0, <3>3, <3>4, <3>5 DEF Settled, ActiveTask, Awake
  <2>7. CASE TaskCleanup(j)
    BY <1>0, <1>4, <2>1, <2>2, <2>7 DEF TaskCleanup
  <2> QED
    BY <1>9, <2>3, <2>4, <2>5, <2>6, <2>7 DEF TaskNext
<1>10. ASSUME NEW a \in Agents, AgentNext(a) PROVE Settled'
  <2>1. a # NoAgent
    BY SystemAssumptions
  <2>2. CASE AgentRegister(a)
    BY <2>1, <2>2 DEF AgentRegister, Settled
  <2>3. CASE AgentClaim(a)
    BY <1>5, <2>1, <2>3 DEF AgentClaim, registryVars
  <2>4. CASE AgentTurnedAway(a)
    BY <1>2, <1>3, <2>4 DEF AgentTurnedAway, registryVars
  <2>5. ASSUME NEW ok \in BOOLEAN, AgentComplete(a, ok) PROVE Settled'
    <3>1. agent[a].job \in Jobs
      BY <2>5, AgentNotFresh DEF AgentComplete
    <3>2. PICK s \in Terminal : jobs' = Completed(jobs, agent[a].job, s)
      BY <2>5 DEF AgentComplete, Terminal
    <3> QED
      BY <1>8, <2>5, <3>1, <3>2 DEF AgentComplete, registryVars
  <2>6. ~AgentUnregister(a)
    BY DEF AgentUnregister, NoneLeaves
  <2>7. CASE AgentInterrupt(a)
    <3>1. CASE UNCHANGED jobs
      BY <1>3, <2>7, <3>1 DEF AgentInterrupt, registryVars
    <3>2. CASE agent[a].at = "body" /\ jobs' = Completed(jobs, agent[a].job, "succeeded")
      <4>1. agent[a].job \in Jobs
        BY <3>2, AgentNotFresh
      <4> QED
        BY <1>8, <2>7, <3>2, <4>1 DEF AgentInterrupt, registryVars, Terminal
    <3> QED
      BY <2>7, <3>1, <3>2 DEF AgentInterrupt
  <2> QED
    BY <1>3, <1>10, <2>2, <2>3, <2>4, <2>5, <2>6, <2>7
    DEF AgentNext, AgentHeartbeat, AgentAcquire, AgentCompleteLost, AgentRelease, AgentCrash,
        registryVars
<1>11. CASE Sweep
  BY <1>2, <1>11 DEF Sweep
<1>12. ASSUME NEW j \in Jobs PROVE ~SubmitUnstaged(j)
  BY DEF SubmitUnstaged
<1>13. ASSUME \E u \in Users : UserAcquire(u) \/ UserRelease(u) PROVE Settled'
  BY <1>3, <1>13 DEF UserAcquire, UserRelease, registryVars
<1>14. CASE LeaseExpires \/ HeartbeatAges \/ UNCHANGED vars
  BY <1>3, <1>14 DEF LeaseExpires, HeartbeatAges, vars, registryVars
<1> QED
  BY <1>6, <1>7, <1>9, <1>10, <1>11, <1>12, <1>13, <1>14 DEF Next

\* Unless a submission fails halfway or an agent is interrupted, a job in the
\* queue has an agent, or a runner task that looks at the queue when it ends.
THEOREM QueueIsWatched ==
  ASSUME "staging" \notin Faults, "interrupt" \notin Faults
  PROVE  Spec => []NoLostWakeup
<1>1. Init => NoneLeaves /\ Settled
  BY DEF Init, EmptyTable, NoneLeaves, Parked, Settled, ActiveTask, Awake
<1>2. IInv /\ NoneLeaves /\ Settled /\ [Next]_vars => NoneLeaves' /\ Settled'
  BY NobodyLeaves, StaysSettled
<1>3. Settled => NoLostWakeup
  BY DEF Settled, Awake, Live, NoLostWakeup
<1> QED
  BY <1>1, <1>2, <1>3, Invariance, PTL DEF Spec

=============================================================================
