# Verification of cloud-labs

TLA+ models of the coordinator of cloud-labs, checked with TLC and, where it says
so below, proved with TLAPS. Paths are relative to the repository's root.

1. [The system](#1-the-system)
2. [Modules](#2-modules)
3. [Runs](#3-runs)
4. [Fairness](#4-fairness)
5. [Proofs](#5-proofs)
6. [What the checks found](#6-what-the-checks-found)
7. [What is not modelled](#7-what-is-not-modelled)
8. [Plan](#8-plan)

## 1. The system

A **coordinator** (`backend/main.py`, FastAPI on one asyncio event loop) gives people and
programs access to optical benches, its *backends*. A bench is driven in one of three ways: by a
communicator inside the coordinator's process, by an HTTP server next to the bench, or by an
**edge agent** that polls the coordinator for work. The parts that keep state:

| part | source | state | operations | correct when |
|---|---|---|---|---|
| lease table | `coordinator/jobs/lease_manager.py` | `_by_backend`, `_by_id` | acquire, heartbeat, release, release_backend, validate_command_lease, the lazy sweep | one owner per backend; a lease id admits commands only while it owns; both maps agree |
| job table | `coordinator/jobs/job_manager.py`, one per backend from `job_hub.py` | `_by_id`, `_queue`, `_active_job_id`, `_runner_scheduled` | submit, pop, claim, mark_running, complete, request_cancel, fail_open_work | no job is lost, run twice, or comes back; one job at a time |
| job runner | `coordinator/jobs/runner.py`, `_kick_job_runner_for` | asyncio tasks | schedule, run_job, the wrapper that chains to the next job | the queue drains; the bench is leased while a job runs |
| agent registry | `execution/edge/registry.py` | `_by_backend`, `_by_agent`, `_last_disconnect`, a lab-state cache in each record | register, heartbeat, unregister, lookups and sweep that evict | a live agent stays; a dead one goes, and its work fails closed |
| command queue | `execution/edge/commands.py` | `_pending`, `_by_id`, one event per command | submit, poll, complete, wait | every caller gets the answer of its own command, in time or a timeout; each command runs once |
| edge agent | `scripts/ops/mock_edge_agent.py` | a process | heartbeat, claim, acquire, run, complete, release; poll, execute, report | does what it claimed, under the lease |
| bench host | `mock_edge/host/base.py`, `execution/orchestration/*`, `coordinator/state/commits.py` | `current_state`: system_status, holding, components | pick, hover, place, move, store, scan, optimize, ... | the status and the holding block tell what the gripper holds; slots are not shared |
| teleoperation | `execution/orchestration/teleop.py` | a telemetry bucket per component, a sweeper thread | start, setup, goto, end, sweep | one session at a time; a session ends once |
| control repository | `coordinator/state/control_manager.py` | refs.json, commits, stash.json, bench_origin.json | commit, fork, checkout, adopt, stash, pop | uncommitted work is not lost; the applied node is what the bench shows |
| catalog pins | `coordinator/catalog/pins_store.py` | pins.json, publish_requests.json | submit, approve, reject | an approved request has its pin, and a pin an approval |
| session kernels | `execution/optimization/kernels/session_store.py` | directories per lease and job, one list of roots for the process | register, delete, stage, activate, purge | a job finds what it staged; nothing is resolved from a purged directory |
| ensemble optimization | `execution/orchestration/optimize_ensemble.py`, `execution/optimization/session.py` | the session in a thread, `last_ensemble_optimization` | preflight, trial, measure, abort, commit | a session ends at its best point, and its job reports it |

**How they interact.** The HTTP handlers are `async` functions; those for leases, jobs and edges
do not await, so each is atomic with respect to the others. What interleaves is: (a) runner tasks,
at each await; (b) edge agents, separate processes with a round trip between any two of their steps;
(c) worker threads that wait for a command's answer (`asyncio.to_thread`); (d) sweeper threads of
the bench host; (e) the thread of an optimization, which resolves its kernels from the process-wide roots that
requests replace. Evictions call back from the registry (`_on_edge_evicted`) into the lease table and
the job table in the middle of whatever asked whether an agent is attached. Leases, jobs, agents and commands
live in memory, so for them a crash of the coordinator is a fresh start; the lab state, the control
repositories and the pins are files, and a crash may come between two writes. Agents and clients crash
on their own.

**Hard behaviours:** two schedulers of the same queue (runner and agents); a pop that is not
recorded until a task starts; leases that expire under a running job; late, lost and repeated
reports; a caller's timeout that crosses the answer; records reachable through two maps; an eviction
in the middle of a handler; a status that is checked when a command is posted and set when it begins; a
session that ends while its arm still moves; a history kept in several files; a global that every request sets. `PROJECT.json` lists each under `hazards` with its line and the
properties about it.

## 2. Modules

| module | models | about |
|---|---|---|
| `ExclusiveLease` | – | abstract: each backend is free or owned by one lease id, which is spent when it ends |
| `SessionLeases` | `lease_manager.py` | detailed; implements `ExclusiveLease` |
| `JobManager` | `job_manager.py` | the job table as a value and each method as an operator on it |
| `JobSystem` | `runner.py`, the job, lease and edge handlers of `main.py`, the agent's job loop | composes the table with the lease, the runner tasks, the attachment and the agent processes |
| `AgentSlots` | – | abstract: a backend has one agent, and loses it only if it is quiet or leaves |
| `EdgeRegistry` | `registry.py`, `/api/edge/*`, `/api/lab-state` | detailed; implements `AgentSlots` |
| `EdgeCommands` | `commands.py`, `PollEdgeClient`, `/api/command`, the agent's command loop | the command queue with its callers and agents |
| `BenchHost` | `/api/command` admission, `execution/orchestration/*`, `commits.py`, the bench host's state | the commands of one bench, from admission to commit, and the holding block |
| `TeleopSession` | `teleop.py`, `teleop_live_pose.py` | one session with its three threads |
| `ControlRepo` | `control_manager.py`, the `/api/control` handlers, `reconcile_executor.py`, the two writes of jobs | the configuration history of several repositories on one bench, write by write |
| `KernelJobs` | `session_store.py`, its endpoints, `runner.py`, `optimize_ensemble.py`, `optimization/session.py` | session kernels, the jobs that run them and their optimization; uses `JobManager` |
| `CatalogPins` | `pins_store.py`, `resolve_snapshot_target` | requests and pins as two files, and the jobs that name a pin |
| `*_proofs` | | theorems: `Edge_proofs` about `EdgeRegistry` and `EdgeCommands`, `Bench_proofs` about `BenchHost` and `TeleopSession`, the other ones about the module they are named after; `JobManager_proofs` has the lemmas about the methods of the table that `JobSystem_proofs` and `KernelJobs_proofs` share |
| `MC*` | – | small constants, symmetry and views for TLC |

`PROJECT.json` maps every definition to its lines.

**SessionLeases.** The methods run under one lock and are one action each, except `acquire()`: it
draws its id and reads the clock before it takes the lock, so it is `BeginAcquire` and
`FinishAcquire` with anything in between. The clock is an integer that `Tick` advances; a lease
expires lazily, when some call sweeps. A record is shared by both dictionaries, so the model keeps
`record` apart from `by_backend` and `by_id`.

**JobManager and JobSystem.** `JobManager` has no variables: each method runs under the manager's
lock and calls nothing back, so it is an operator from table to table, and the handler that calls
several of them composes them into one action. An action of `JobSystem` is a handler, a stretch of a
runner task between two awaits, or one request of an agent with the local steps up to the next.
`task[j]` is the runner task of job j: `pending` (scheduled, not begun), `body`, `cleanup`
(completed, awaiting its telemetry task, lease still held), `gone`. `Kick` is
`_kick_job_runner_for`, including the eviction that its `is_attached()` may perform. Leases are
reduced to their holder, which `SessionLeases` justifies: a release by a dead id is a no-op.
A refusal by `reserve_operation` (the runtime is switching) is a body that fails at once.
The agent's branch for a job of an unknown execution mode is left out: `submit_job` admits only the
two modes it knows. `starts[j]` is a history variable.

**EdgeRegistry.** Records are objects (`Regs`) that the two maps refer to, which is what makes the
interesting states possible: a record may be reachable through one map only. Time is two facts, a
record is `old` (last heartbeat longer ago than the window) and an agent is `quiet` (sent nothing for that
long); `RecordAges` ties them: a record grows old only if its agent is quiet or its heartbeats
go elsewhere. `GET /api/lab-state` is two actions, around its await.

**EdgeCommands.** A caller is the request of one command: `sent` (the handler has handed over to a thread),
`waiting`, then either `read`, or `late` and `marked`, which are the two unlocked writes of `wait()` after a
timeout. `complete()` writes whatever the command's state. The model takes an exception's text
to be non-empty: an empty one would be stored as no error. `runs` and `ended` are history variables.

**BenchHost.** A command is three steps: the request is admitted (`Post`: the status and
`_enforce_holding_rules`), its background task begins (`Refuse` or `Begin`: the primitive's own refusals, the
choice of the storage cell, BUSY), and its hardware step ends (one action for each way to commit, or `Fails`).
Several commands and a session may be on their way at once, as nothing in the code excludes it. The state is what
the primitives decide by: `system_status`, the holding block, presence and slot of each part, and the state of
its session. `gripper` is the part that is really in the gripper; the code does not know it, the holding block
is to tell it. Parts come to the bench without a look at the status: `Track` puts one on the breadboard, `AddStored`
(`POST /api/components` with `placement_mode=storage`) into the first cell that the state calls free, also while a store
is on its way to that cell. `Restart` includes `_reconcile_holding_on_boot`. `trouble` is a history variable: `unruly` once two
commands have overlapped, a session has interfered with one, a part was added to the cell that a move is going for, an operator has confirmed a wrong part or given up
tracking the one in the gripper, or a step has failed after the gripper had closed or opened; `cut` once the process has died in a hardware step.

**TeleopSession.** One component. The event loop's handlers take several steps under different locks and are
cut there (`Goto`/`SetGoto`, `End`/`EndStop`/`EndCommit`, `SetupReady`/`LiveStart`); the sweeper thread and the
motion loop of the buffer are cut where they let a lock go. `setups` counts the setup tasks that wait for the
hardware: a session that is started again while it is pending has two. Poses are numbers in the order in which
they are reached, so that an old copy of the pose differs from the last one. `raced` is a history variable: the
arm has moved after the pose was read that ends the session, or a session has come up in the middle of a sweep.

**ControlRepo.** Each handler checks, perhaps awaits a plan, and then has a list of writes, `todo`, one for
each file. `Write` makes the next one; `Crash` may come before any of them. A plan is a set of steps that the
bench takes one at a time, any of which may be refused (and is then counted as done, as in the code) or raise.
Between two steps come the handlers that do not ask for an idle bench, and the moves of jobs and of commands that were
admitted before (`MoveBegins`, then `MoveEnds` or `MoveFails`). Their ends leave `system_status` IDLE, and the idle check of the
handlers that have one (`Admitted`) reads the status and nothing else: such a handler may be let in while another awaits its
plan, so `plan` is a function over `Handlers`. `slipped` is a history variable that says that it has happened. The ends of
teleoperation, which rewrite the status as well, are for this module such moves. A configuration maps a part to its pose, a
part without an entry is stored; `Extract` and `Project` are the two directions. A caller may also make the moves
itself and tell the coordinator to finalize; `missed` says that some projection may be of moves that were not made, or
that a job has undone.
`owed` is a history variable that holds one configuration an operator has set up and not given up, any one; `cut` says
that work was lost in one of the ways listed at `CutShort` and in `StashPop`.

**KernelJobs.** One backend without an edge agent, so that the job table has one scheduler; the table is that of
`JobManager`, and the leases are reduced to their holder. A package is a kernel id in the scratch directory of a lease or a job,
`roots` is `_EXTRA_ROOTS`, and `Resolvable` is what `get_manifest_entry` finds through them. Every step that calls
`set_extra_kernels_roots` goes through `SetRoots`. `SubmitInline` is the SDK's way (packages in the body, lease released before),
`SubmitFromLease` copies from the lease in the header, and `SubmitUnstaged` is the job that is queued although
staging it fails. The body of a job is its optimization: `Preflight`, then `Trial` and `Measure` of the solver's thread,
then `Returned` or `Raised` on the event loop. The preflight may refuse the session, for its kernels, for the cancel, or for a
reason of its own (a stored or teleoperated component, a tag that is not in the catalog); a session may raise at any
trial or measurement (`SessionRaises`: the kernel itself, the shape of its output). Whether a loss is the lowest so far is a nondeterministic choice;
the archive copies and the caches are left out. A lease that a client
releases in a job's name is in `JobSystem` only. `own`, `staged` and `spoiled` are history variables: jobs
whose result is their own, what a submit wrote, and jobs whose session was refused for a reason of its own, or has raised by
itself, or whose roots another step has changed under them. A lease of a job does not
run out while another task is ready: it lasts an hour.

**CatalogPins.** A handler does not await, so it is one action but for `todo`, the writes it has still to make, between which the
process may end. An approval makes three: the pin, the request, and the list of requests again as its caller had read it. The
directory may belong to two backends, as `schemas/backends.json` gives the mock and the real bench the same lab view, so
requests that are approved by themselves (`SubmitAuto`) meet those an owner decides. The owner may give any pin id.
`automatic` and `torn` are history variables, and so is the request in a pin.

**Faults.** What may go wrong is a constant set, so that a run can say which faults it needs:
`JobSystem`: expiry, slow, crash, interrupt, lost, unavailable, staging. `EdgeCommands`: timeout,
evict, crash, lost. `KernelJobs`: expiry, unstaged. In the other modules failures and restarts are always possible.

Operators named `Faulty...` are not part of the model: each is a plausible bug, defined next to the
definition it would replace, that some property is known to catch.

## 3. Runs

Runs that must pass:

| run | instance | shows |
|---|---|---|
| `leases` | 2 backends, 2 ids, 2 callers, clock to 3, seconds -1..1, default 2 | both maps agree, the table is a lock, only the owner's id admits |
| `jobs` | 3 jobs, 1 user, 2 agents, all faults | the safety properties that hold whatever goes wrong: a sound queue, a body that runs once, an end that is final, an eviction that leaves nothing open, a user's lease that no cleanup takes |
| `jobs_edge` | 3 jobs, 1 user, 1 agent that may be slow or die | a body has the lease, a queue is looked at, no job is forgotten, every submitted job finishes |
| `registry` | 2 agents compete for a backend, a third at another | maps agree, implements `AgentSlots`, a live agent stays |
| `commands` | 2 commands, 1 holder, 2 agents, all faults | success is told only of executed commands, an error told did happen, nothing is handed out twice or after it was given up, every request is answered |
| `bench` | 2 parts, 2 cells, 2 commands, all primitives | a busy status ends; in an orderly execution the holding block is true, the gripper is empty when the arm is sent for a part, cells are not shared |
| `teleop` | poses 0..3, 2 setups | nothing moves without a session, a ready session can be steered, the final pose is recorded, `executing` ends, an abandoned session ends |
| `kernels` | 1 session, 1 kernel, 2 jobs, 2 points, expiry and failed staging | no root without its package; scratch follows the task; a job that is left alone, not refused, and whose kernels do not raise reports its own result and ends at its best point; every runner ends |
| `pins` | 3 requests, 2 pin ids, 2 configurations, 1 job, crashes | an approved request has its pin, a pin its approval |
| `control` | 2 repositories, 1 branch, 1 part with 1 pose, 2 commits | files name what exists, work is kept, the lab state is true, no stash is written over another |

**Bounds.** Lease ids, jobs and commands are never reused, so their number bounds a behaviour. Two
lease ids per pair of callers are enough for a stale id to meet a new owner; three jobs are enough for a job
that runs, one that is handed over and one that waits; two agents are enough for a successor, and
an agent process that restarts is a new one. Three records for three agents are enough since one of a
replaced agent becomes garbage at once. The clock bound 3 exceeds the default lifetime 2, so that a renewed
lease can still expire. `registry` uses a view that hides what a record says which no map refers to; its
properties do not read such records. In `bench` two commands are enough for every pair of primitives to overlap, and a
request that has ended is used again, so the number of commands in a behaviour is not bounded (2.3 million states). In
`teleop` sessions are started again without bound, but the arm moves three times at most (0.5 million states). In
`control` two commits are enough for a repository's head to move and for a second repository to claim the bench;
with one part and one pose a configuration is empty or not, which tells a clean bench from a dirty one, and a plan has
one step; one job moves at a time. Its constraint `StillAsked` leaves a state unexplored once work has been lost in a listed way or a handler has
slipped in, since three of the properties ask nothing of it afterwards, and `RefsSound` is proved for all states (section 5);
up to there one handler at a time has a plan, so `Handlers` has one element. After a missed move the run goes on until its
handler and any other one have ended, and its view no longer tells where the components really are. The view also leaves out the parents
and the node of the bench, which are written and never read, but keeps whether they exist (1.6 million states). All the invariants of
the proof were also checked with two handlers, behind a slip too. In `kernels` one kernel is enough to be there or not, as a package and as a root, in the session's directory and in two jobs';
one evaluation is enough to differ from the starting point and to be interrupted at (0.55 million states). With two sessions, with three kernels
of which one does not load, and with three jobs the invariants were checked as well. In `pins` three requests are enough for two to share a pin id while a third is torn (0.7 million
states). Symmetry is used on ids that no property or constant
tells apart, and in no run with a liveness property. `CHECK_DEADLOCK FALSE` is set where all jobs, leases or commands
may be used up and all agents gone, or the operator may be gone; then the system does stop.

No run checks a type invariant: section 5 proves each of them for all constants, as it does `OneTeleop` and
`LiveAgentStays`, and the runs are kept for what could be wrong and for liveness.

Runs that must fail, each with one property a comment or document states: see section 6.

## 4. Fairness

`JobSystem`, `EdgeCommands`, `TeleopSession` and `KernelJobs` have liveness properties.

- `JobSystem`: weak fairness of the coordinator's tasks (the event loop runs what is ready, a body returns or
  raises), of an agent process that is up (its loop polls every fraction of a second and its executions end), of the
  sweeper, which runs every few seconds, and of the ageing of the record of a process that is gone.
- `EdgeCommands`: only the threads of the requests, and the timer that may run out. Nothing is asked of the agents:
  that every request is answered rests on its timeout alone.
- `TeleopSession`: handlers that have begun and setup tasks go on, the motion loop and the sweeper thread run, and
  time passes.
- `KernelJobs`: weak fairness of each job's runner task (the event loop runs what is ready) and of its solver's thread, whose
  evaluations are bounded by `max_total_evals`. Leases need not run out, and sessions need not release theirs. No session need raise an exception.

Nothing is assumed of users, of submissions, or of agents that are down: no new agent need come.

## 5. Proofs

TLAPS proves for every value of the constants, under the assumptions named in the modules
(the "null" values differ from the ids and the records they stand beside; default lifetimes are positive; faults are
among the known kinds; commits and cells are numbers). An invariant is a conjunction of named parts. The proof that
`Next` keeps it has a step or a lemma for each action; what the model's operators do is stated in lemmas of their own, which
those proofs cite.

- `SessionLeases_proofs`: `TypeCorrect`, `DictionariesAgree`, `AcquiringIsFresh`, `AdmittedOwns`, and
  `TableImplementsLock`: the table implements `ExclusiveLease`. The maps agree only if an id that
  a caller has drawn, and not entered yet, is nobody else's; hence the strengthening `PendingFresh`. The
  implementation proof maps each action to a step of the lock or a stutter; a sweep is the expiry of
  a set of leases. `AdmittedOwns` follows an admission through the sweep that the same call makes (`OwnerAfterSweep`):
  who is let in is the owner after the sweep, not only before.
- `JobSystem_proofs`, with all faults: `TypeCorrect`, `QueueIsSound`, `ActiveJobRuns`, `BodyRunsOnce`,
  `FinishedStaysFinished`, `EvictionFailsClosed`, `NobodyReleasesForAUser`. "Runs once"
  is not inductive. The invariant `IInv` adds: a *fresh* job (unknown or in the queue) has
  no worker and has not begun; a job has one worker at most, a task or an agent; a worker before
  the body has a job that has not begun (`Workers`); the queue is injective with queued jobs only and the
  active job runs (`TableSound`). The lemmas of `JobManager_proofs` say what each method of the table does to
  `TableSound` and to the set of fresh jobs, so that the proof has one step per action and never
  opens the table. Three more theorems leave out exactly the fault that breaks them:
  `NothingForgotten` (no backend that fails to initialise): a job popped has a task that has not begun.
  `BodiesHoldTheLease` (no expiry): who gives a lease back gives back its own, and by `Workers` it is the only
  worker of its job. `QueueIsWatched` (no submission that fails halfway, no interrupt): while no agent is
  attached, the scheduler's flag or a queue that is not empty implies a task that is not over, and the active
  job is one of a task (`Settled`).
- `Edge_proofs`, the registry: `RegistryTyped`, `RecordsFound`, `RegistryImplementsSlots` and `HeardAgentsStay`,
  the last three under `OneHome`: no agent id is used for two backends. Without it they are false
  (section 6). `MapsAgree` does not say whose the records are, which every step needs; the invariant
  adds that a map leads to a filled-in record (`Referred`), that a reachable record is reachable
  through both maps under its own ids, at a home of its agent (`Filed`), and that it is old only if
  its agent is quiet (`Aged`). `OneHome` is used by the registration (the agent's id must not lead
  to another backend's record) and by the poll (an agent that speaks has no stale record elsewhere).
  A step of the abstract registry is a set of evictions, so the sweep needs no stuttering.
- `Edge_proofs`, the commands, with all faults: `CommandsTyped`, `SuccessIsTrue`, `FailureIsTrue`, `HandedOutOnce`,
  `GivenUpStaysUndone`. The invariant `CommandInv` adds: the queue holds commands that nobody got, each once (`InQueue`);
  nothing is recorded of a command before it is in the queue (`Unsent`); a command has one agent at most, and the place of the agent
  tells how the execution ended (`AtWork`); what the entry of a command records is true, and there is an
  error or a success by the time the caller looks (`Recorded`), which is what the order of the two writes of
  `wait()` is for.
- `Bench_proofs`, the bench: `BenchTyped`, `BusyStatusEnds`, `OneSession`, `HoldingIsTrue`, `ArmStartsFree` and
  `SlotsAreDistinct`. As long as nothing is unruly one command at most is in its step (`OneAtATime`); between steps the holding
  block is true, and during one it says what will be true of its outcome (`Truth`); stored parts have cells of
  their own, and the cell a move goes for is still free (`Distinct`). The choice of the first free cell rests on
  `LeastNumber`: a nonempty set of numbers has a least one.
- `Bench_proofs`, the session: `TeleopTyped`, `MotionNeedsSession`, `ReadySessionsSteer`, `FinalPoseRecorded`,
  `NothingExecutesForEver`. The invariant `Sound` says where the pose that the motion has reached may be: in the
  buffer, in the hands of the handler or the sweeper that ends the session, or in the lab state, and that none of
  these is an older one (`PoseSound`).
- `ControlRepo_proofs`, for any number of handlers whose plans overlap: `TypeCorrect`, `FilesSound`, `LabStateTrue`, `NoStashLost`, `WorkIsKept`.
  The first two hold of every behaviour, the other three until a handler slips in beside the plan of another. Since a crash may come
  between any two writes, the invariant `Inv` is about the rest of `todo` at each moment: a write that is still to
  come names what exists, or what an earlier write of the same list makes (`TodoSound`); a plan names what exists and
  its stash goes to an empty slot (`PlanSound`); one plan is awaited at a time (`OnePlan`, without a slip); the parts a plan has no step for any more are where it wants them,
  and each of the others is there after its one step, wherever a job moves it before (`Placed`). `WorkInv` adds where the work that is owed is, in every stage of a commit, a plan, a stash and a pop (`Owed`).
- `KernelJobs_proofs`: `TypeCorrect`, `RootsAreOnDisk`, `ScratchLivesWithTask`, `ResultIsOwn`, `BestPointIsSet`. A lease may run
  out under a body, so it is not the lease that keeps a second body out: it is the active job of the table. `Turns` says
  that the active job is the one whose body runs, that a fresh job has no task, and that while another task is
  about to start the body holds the lease. `JobSound` says of one job that its scratch is what was staged until
  its task is over, and that, unless the job is `spoiled`, the roots are its own packages: what the preflight found,
  every measurement finds, so an optimization that is under way has all its kernels (`ResultIsOwn`). `SessionSound`
  ties the optimization to an active job and its count of evaluations to the limit. `BestPointIsSet` is an action property of
  that invariant.
- `CatalogPins_proofs`: `TypeCorrect`, `ApprovedArePinned`, `PinsAreAccounted`. As in the control repository the process may end
  between two writes, so the invariant speaks of the rest of `todo`: `Underway` says that it is the rest of one
  decision and that what was written before is in the files. A pin is not accounted for while the mark of its
  request is still to come; `Accounted` allows that, and a crash at that moment is what `torn` records.
  The last write of an approval repeats the one before it from an older reading, and `Underway` is what shows that it changes nothing.

Only model-checked: the liveness properties (`SubmittedJobsFinish`, `RequestsAnswered`, `AbandonedEnds`, `RunnerEnds`), which are
out of reach of the prover, as is `ENABLED`. Every safety property of a passing run is a theorem.

## 6. What the checks found

Each is a run that TLC must find violated; `PROJECT.json` quotes the line at odds under `findings`.

| run | the code |
|---|---|
| `jobs_agent_restart` | an agent restarted within the window leaves its old job running, and the queue blocked, for ever |
| `commands_lease` | a queued command is executed under the lease of the next holder |

The same holds of the following, which are configurations beside the runs (`tlc -config <file>.cfg <module>`, with `MCBenchHost` for the first two); TLC finds each
violated within seconds.

| configuration | the code | at odds with |
|---|---|---|
| `BenchHost_NoSecondPick` | two picks posted to an idle bench are both admitted, and the arm is sent for a second part with the first in the gripper | `state_machine.py:100` "you can't pick a second part while one is already in the gripper" |
| `BenchHost_PutIntoFreeCell` | a part added to the storage takes the cell that an awaited store has chosen, and the store puts its part there as well | `storage_region.py:348` "Row-major first free cell" |
| `ControlRepo_SingleSlot` | a job's move ends while a stash awaits its plan, and leaves the status IDLE; a second stash is let in, finds the slot free, and one of the two is written over the other | `main.py:2829` "Single-slot: refuses if a stash already exists." |
| `ControlRepo_PopOnCleanHead` | a repository that does not own the bench pops its stash over the uncommitted work of the one that does | `main.py:2965` "Pop is only allowed on a clean HEAD" |
| `KernelJobs_SucceededRanItsKernels` | the preflight refuses the session, or a request with a lease header replaces the roots and the job's kernels are not found: it succeeds with another session's result | `SESSION_KERNELS.md:8` jobs "run the **same** artifacts on the edge" |
| `KernelJobs_ScratchGoesWithJob` | a job cancelled in the queue leaves its packages in its scratch directory | `SESSION_KERNELS.md:27` "job scratch after the job ends" |
| `KernelJobs_FailureKeepsBest` | a measurement that raises discards the best point, and the bench stays at the trial | `ENSEMBLE_OPTIMIZATION.md:132` "commit best-so-far unless `rollback_on_fail: true`" |
| `KernelJobs_ReleaseSparesOthers` | the release of one lease clears the roots of another owner's packages | `session_store.py:246` "only clear extra roots if they pointed at this lease" |
| `CatalogPins_ApprovedPinsOnly` | after a crash between the two files, a rejected request has a pin | `LAB_SURFACES_VC_AND_INITIALIZATION.md:335` "approved pins only" |
| `CatalogPins_PinsAreFrozen` | a pin is replaced by a later approval of its id, under a job that names it | `client.py:458` "frozen snapshots" |

Some properties are checked only where they hold, and the model shows why they do not hold elsewhere.

- Jobs. An agent evicted after its claim starts the job all the same, although it was failed: its acquire does not
  ask for the status. Two runner tasks may exist at once, since an ending task clears the flag of a task that was
  scheduled meanwhile; one of them fails on the lease. `mark_running` does not
  look at `_active_job_id`, so an agent that claims between the pop and the start of another job makes two
  jobs run. Nothing renews a job's lease, so a body that outlasts it goes on without. When a backend fails to initialise,
  `_run_one` leaves its popped job queued outside the queue. A terminal
  status is only kept terminal (`NoResurrection`): `complete()` overwrites `failed` and `cancelled` alike.
- Registry. The run gives each agent id one backend: with two, the heartbeats of the id reach only the record
  filed last, the other one goes stale, and its eviction pops the first from `_by_agent` as well. A snapshot that was
  asked of an agent that is replaced during the await is cached for its successor.
- Bench. With two commands at a time nothing but `BusyIsBacked` and `OneTeleop` is left: a table move that overlaps a
  pick ends with IDLE and leaves a part in the gripper that no status tells of; two moves to storage choose the same cell, since it
  is entered after the move, and so may a part that is added to the storage during one, without a second command; a confirmation under TELEOP is refused, although the part has to be confirmed.
- Teleoperation. A session that comes up in the middle of a sweep loses its buffer to it, and goto then makes one up
  at the origin; an arm that moves after its pose was read is not where the lab state says.
- Kernels. `OwnResult` and `EndsAtBest` leave out the jobs that are `spoiled`. A job whose roots were changed under it, which no lock
  excludes, whose session the preflight refuses, or whose kernel raises in its forward pass or returns a wrong shape, succeeds
  with what an earlier session left; the last of them leaves the bench at the trial point.
  The packages of a lease that ran out are purged by nobody.
- Pins. A pin may stand for a request that is pending, after a crash (`torn`), or that is listed nowhere (`automatic`).
- Control. Work is lost by a crash or a failing step in a stash that has begun to move the bench, by a crash before a
  projection is saved, and by the pop in the table above. The idle check of the control operations reads a status that the end of any
  move resets: a job, or a command admitted before, that moves a part while a plan is awaited lets the next operation in, and
  then a stash or uncommitted work is lost with nothing else going wrong. A job that moves a part which the plan is done with makes the plan's
  projection false. A move that fails is recorded as made.

## 7. What is not modelled

The other components are listed in `PROJECT.json` with their reasons. Left out for good are numerical optimization,
vision and physics, the frontend, the SDKs (wrappers of endpoints), schemas, configuration loading and pure
file I/O at startup: they are most of the repository's lines, and keep no state that two actors share. The runtime mode switch can never leave `mock` at this commit.

Of the modelled components: poses, measurables, motor angles, powers and the geometry of storage cells in
`BenchHost`; the interpolation of poses and the websocket, a second way to the same controller, in
`TeleopSession`; setups, observations, annotations and the backfill of old documents in `ControlRepo`; the HTTP
transport of the edge client and its stream proxy; the steps of a compiled DAG; jobs with session kernels on a backend with an
agent, whose process has roots of its own.

Assumptions that are not checked: the
parent of a commit is the head of its branch; the text of an exception is not empty. `_by_id` of the command queue
is never pruned, and the poll transport has no idempotency key: neither changes what the properties say.

## 8. Plan

1. **Reconcile** and **StorageGrid**: the diff, the plan and the choice of cells with their geometry, as pure operators against
   reference definitions.
2. `BenchHost` and `JobSystem` composed: a job whose body is a sequence of commands, under the lease that admits them, and
   with it the steps of a compiled DAG.
