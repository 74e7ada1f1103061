----------------------------- MODULE KernelJobs -----------------------------
(***************************************************************************)
(* Session kernels and the closed-loop jobs that run them, on one backend  *)
(* without an edge agent: the package store                                *)
(* (execution/optimization/kernels/session_store.py), its endpoints in     *)
(* main.py, the job runner, and the ensemble optimization a job's body is  *)
(* (orchestration/optimize_ensemble.py, optimization/session.py).          *)
(*                                                                         *)
(* Packages lie in a scratch directory of a lease or of a job.  Which of   *)
(* them can be resolved is process-global: _EXTRA_ROOTS, which every       *)
(* request and every job replaces as a whole.  The handlers and the        *)
(* runner's steps are atomic on the event loop; the optimization runs in a *)
(* thread beside it and resolves its kernels anew at every measurement.    *)
(***************************************************************************)
EXTENDS JobManager

CONSTANTS
  Leases,       \* lease ids of SDK sessions
  Kernels,      \* ids of session kernels
  Broken,       \* those whose artifact torch.jit.load refuses
  Points,       \* values of the variables a job searches over
  MaxEvals,     \* evaluations the solver makes at most
  NoLease,      \* the backend has no live lease
  Disturbances  \* what clients and time may do besides the lifecycle

\* "expiry": a lease runs out.  "unstaged": a client submits a job whose kernels
\* cannot be staged.
ASSUME KernelAssumptions ==
  /\ Leases \cap Jobs = {} /\ NoLease \notin Leases \cup Jobs
  /\ Broken \subseteq Kernels
  /\ MaxEvals \in Nat \ {0}
  /\ Disturbances \subseteq {"expiry", "unstaged"}

VARIABLES
  jobs,         \* the job table
  task,         \* task[j]: the asyncio task running job j
  lease,        \* holder of the live lease
  given,        \* leases that were given out, live or not
  scratch,      \* scratch[o]: the packages in the directory of lease or job o
  made,         \* kernel ids that were registered
  needs,        \* needs[j]: the kernels the objective of job j refers to
  roots,        \* _EXTRA_ROOTS: package directories, as pairs of owner and kernel
  bench,        \* the point the bench is set to
  session,      \* the optimization that runs, see Session
  own,          \* history: jobs whose result is that of their own session
  staged,       \* history: staged[j]: what the submit of j wrote into its scratch
  spoiled       \* history: jobs whose session was refused or raised by itself, or
                \* during whose body another step changed the roots

vars == <<jobs, task, lease, given, scratch, made, needs, roots, bench, session,
          own, staged, spoiled>>
storeVars == <<given, made>>
jobSpecs == <<needs, staged>>

Owners == Leases \cup Jobs
TaskStates == {"none", "pending", "body", "cleanup", "gone"}
\* Where the optimization is: "off", before its preflight ("init"), between two
\* evaluations ("trial"), at a trial point that is not measured yet ("measure"),
\* or its thread is done and the event loop has not gone on yet.
Steps == {"off", "init", "trial", "measure", "returned", "raised"}
Session == [step : Steps, best : Points, evals : 0..MaxEvals]

TypeOK ==
  /\ jobs \in JobTable
  /\ task \in [Jobs -> TaskStates]
  /\ lease \in Owners \cup {NoLease}
  /\ given \subseteq Leases /\ made \subseteq Kernels
  /\ scratch \in [Owners -> SUBSET made]
  /\ needs \in [Jobs -> SUBSET made] /\ staged \in [Jobs -> SUBSET made]
  /\ roots \subseteq Owners \X Kernels
  /\ bench \in Points
  /\ session \in Session
  /\ own \subseteq Jobs /\ spoiled \subseteq Jobs

Init ==
  /\ jobs = EmptyTable
  /\ task = [j \in Jobs |-> "none"]
  /\ lease = NoLease
  /\ given = {} /\ made = {}
  /\ scratch = [o \in Owners |-> {}]
  /\ needs = [j \in Jobs |-> {}] /\ staged = [j \in Jobs |-> {}]
  /\ roots = {}
  /\ bench \in Points
  /\ session = [step |-> "off", best |-> bench, evals |-> 0]
  /\ own = {} /\ spoiled = {}

-----------------------------------------------------------------------------
\* The package store

\* package_roots_for_lease and package_roots_for_job.
PackageRoots(o) == {o} \X scratch[o]

\* set_extra_kernels_roots by a step that is not job j's own.
SetRoots(r, j) ==
  /\ roots' = r
  /\ spoiled' = IF r = roots THEN spoiled
               ELSE spoiled \cup {i \in Jobs \ {j} : task[i] = "body"}

\* What get_manifest_entry finds.
Resolvable == {k \in Kernels : \E o \in Owners : <<o, k>> \in roots /\ k \in scratch[o]}

\* ensure_torchscript_ready, run_torchscript_output: every kernel of the
\* objective is found and loads.
Runs(j) == needs[j] \subseteq Resolvable \ Broken

\* POST /api/jobs/lease/acquire by a session.
Acquire(l) ==
  /\ lease = NoLease /\ l \notin given
  /\ lease' = l
  /\ given' = given \cup {l}
  /\ UNCHANGED <<jobs, task, scratch, made, jobSpecs, roots, bench, session, own, spoiled>>

\* POST /api/jobs/lease/release and delete_lease_scratch, which looks for job
\* packages under the lease's id, finds none and clears all roots.
Release(l) ==
  /\ lease = l
  /\ lease' = NoLease
  /\ scratch' = [scratch EXCEPT ![l] = {}]
  /\ SetRoots({}, NoJob)
  /\ UNCHANGED <<jobs, task, storeVars, jobSpecs, bench, session, own>>

\* A lease that runs out is dropped; nothing looks at its scratch directory.  A
\* task that is ready does not wait for the hour a job's lease lasts.
Expire ==
  /\ "expiry" \in Disturbances
  /\ lease # NoLease
  /\ lease \in Jobs => \A j \in Jobs : task[j] # "pending"
  /\ lease' = NoLease
  /\ UNCHANGED <<jobs, task, storeVars, scratch, jobSpecs, roots, bench, session, own, spoiled>>

\* POST /api/kernels/session: the package is written, loaded once, and the
\* lease's packages become the roots.  A broken one stays where it is.
Register(l, k) ==
  /\ lease = l /\ k \notin made
  /\ made' = made \cup {k}
  /\ scratch' = [scratch EXCEPT ![l] = @ \cup {k}]
  /\ IF k \in Broken THEN UNCHANGED <<roots, spoiled>>
     ELSE SetRoots(PackageRoots(l) \cup {<<l, k>>}, NoJob)
  /\ UNCHANGED <<jobs, task, lease, given, jobSpecs, bench, session, own>>

\* Faulty: the roots are left as they are.
FaultyDelete(l, k) ==
  /\ l \in given /\ k \in scratch[l]
  /\ scratch' = [scratch EXCEPT ![l] = @ \ {k}]
  /\ UNCHANGED <<jobs, task, lease, storeVars, jobSpecs, roots, bench, session, own, spoiled>>

\* DELETE /api/kernels/session/{kernel_id}: the lease in the header names a
\* directory, whether it is live is not asked.
Delete(l, k) ==
  /\ l \in given /\ k \in scratch[l]
  /\ scratch' = [scratch EXCEPT ![l] = @ \ {k}]
  /\ SetRoots(PackageRoots(l) \ {<<l, k>>}, NoJob)
  /\ UNCHANGED <<jobs, task, lease, storeVars, jobSpecs, bench, session, own>>

\* GET /api/kernels with a lease header, live or not; EVAL_KERNEL of the live one.
Browse(l) ==
  /\ l \in given
  /\ SetRoots(PackageRoots(l), NoJob)
  /\ UNCHANGED <<jobs, task, lease, storeVars, scratch, jobSpecs, bench, session, own>>

-----------------------------------------------------------------------------
\* Submitting and cancelling

\* schedule_job_runner, with the table t and the tasks tk.
Schedule(t, tk) ==
  LET j == NextQueued(t)
      starting == RunnerShouldStart(t) /\ j # NoJob
  IN  /\ jobs' = CASE starting              -> NotedScheduled(Popped(t), TRUE)
                   [] ~RunnerShouldStart(t) -> t
                   [] OTHER                 -> Popped(t)
      /\ task' = IF starting THEN [tk EXCEPT ![j] = "pending"] ELSE tk

\* The session of a submit with lease header h: its packages become the roots.
HeaderRoots(h) ==
  IF h = NoLease THEN UNCHANGED <<roots, spoiled>> ELSE SetRoots(PackageRoots(h), NoJob)

\* session_kernel_ids: what the objective names and all packages of the lease.
SessionIds(h, ks) == ks \cup (IF h = NoLease THEN {} ELSE scratch[h])

\* The packages written for a job j that needs ks.
Stages(j, ks, packages) ==
  /\ needs' = [needs EXCEPT ![j] = ks]
  /\ staged' = [staged EXCEPT ![j] = packages]
  /\ scratch' = [scratch EXCEPT ![j] = packages]
  /\ UNCHANGED <<lease, storeVars, bench, session, own>>

\* POST /api/jobs/submit with the packages inline, as the SDK sends them once it
\* has released its lease.
SubmitInline(j, ks, h) ==
  /\ jobs.status[j] = "none" /\ ks # {}
  /\ HeaderRoots(h)
  /\ Stages(j, ks, ks)
  /\ Schedule(Submitted(jobs, j), task)

\* The same without packages: they are copied from the lease in the header.
SubmitFromLease(j, ks, h) ==
  /\ jobs.status[j] = "none"
  /\ ks \subseteq SessionIds(h, {})
  /\ HeaderRoots(h)
  /\ Stages(j, ks, SessionIds(h, ks))
  /\ Schedule(Submitted(jobs, j), task)

\* The client is told 400 and no runner is started, but the job is queued: no
\* lease or packages the lease does not have, or an inline package without its
\* artifact, after those before it were written.
SubmitUnstaged(j, ks, h) ==
  /\ "unstaged" \in Disturbances
  /\ jobs.status[j] = "none"
  /\ HeaderRoots(h)
  /\ \/ ~(ks \subseteq SessionIds(h, {})) /\ Stages(j, ks, {})
     \/ \E some \in SUBSET ks \ {ks} : Stages(j, ks, some)
  /\ jobs' = Submitted(jobs, j)
  /\ UNCHANGED task

\* POST /api/jobs/{job_id}/cancel
Cancel(j) ==
  /\ jobs.status[j] # "none"
  /\ Schedule(CancelRequested(jobs, j), task)
  /\ UNCHANGED <<lease, storeVars, scratch, jobSpecs, roots, bench, session, own, spoiled>>

-----------------------------------------------------------------------------
\* The job runner

\* Faulty: the scratch directory is left to the next job.
FaultyTaskEnds(j, t) ==
  /\ SetRoots({}, j)
  /\ Schedule(NotedScheduled(t, FALSE), [task EXCEPT ![j] = "gone"])
  /\ UNCHANGED scratch

\* The end of run_job's finally and of the wrapper around it.
TaskEnds(j, t) ==
  /\ scratch' = [scratch EXCEPT ![j] = {}]
  /\ SetRoots({}, j)
  /\ Schedule(NotedScheduled(t, FALSE), [task EXCEPT ![j] = "gone"])

\* run_job: the backend is leased (LeaseConflictError), or mark_running refuses
\* and the lease is released again.
RunnerRefused(j) ==
  /\ task[j] = "pending"
  /\ lease # NoLease \/ ~MayRun(jobs, j)
  /\ TaskEnds(j, Completed(jobs, j, "failed"))
  /\ UNCHANGED <<lease, storeVars, jobSpecs, bench, session, own>>

\* Faulty: the job's packages are not activated.
FaultyRunnerStart(j) ==
  /\ task[j] = "pending"
  /\ lease = NoLease /\ MayRun(jobs, j)
  /\ lease' = j
  /\ jobs' = MarkedRunning(jobs, j)
  /\ task' = [task EXCEPT ![j] = "body"]
  /\ session' = [session EXCEPT !.step = "init"]
  /\ UNCHANGED <<storeVars, scratch, jobSpecs, roots, bench, own, spoiled>>

\* run_job up to its first await, that of the initial reconcile.
RunnerStart(j) ==
  /\ task[j] = "pending"
  /\ lease = NoLease /\ MayRun(jobs, j)
  /\ lease' = j
  /\ jobs' = MarkedRunning(jobs, j)
  /\ task' = [task EXCEPT ![j] = "body"]
  /\ session' = [session EXCEPT !.step = "init"]
  /\ SetRoots(PackageRoots(j), j)
  /\ UNCHANGED <<storeVars, scratch, jobSpecs, bench, own>>

\* The job is completed with status s (ok) or "cancelled", and the task awaits
\* its telemetry task while it still holds the lease.  Nothing is left of a session.
BodyEnds(j, s) ==
  /\ jobs' = Completed(jobs, j, IF s = "succeeded" /\ jobs.cancel[j] THEN "cancelled" ELSE s)
  /\ task' = [task EXCEPT ![j] = "cleanup"]
  /\ session' = [step |-> "off", best |-> bench', evals |-> 0]
  /\ UNCHANGED <<lease, storeVars, scratch, jobSpecs, roots>>

\* run_init_reconcile_if_needed raises.
ReconcileFails(j) ==
  /\ task[j] = "body" /\ session.step = "init"
  /\ UNCHANGED <<bench, own, spoiled>>
  /\ BodyEnds(j, "failed")

\* run_optimize_ensemble refuses, prints why and returns, or is not called any
\* more; the result is what an earlier session left in the lab state.  It refuses
\* for a missing kernel, and for what is not modelled: a path that does not
\* resolve, a part that is stored, teleoperated or not in the catalog.
Preflight(j) ==
  /\ task[j] = "body" /\ session.step = "init"
  /\ UNCHANGED <<bench, own>>
  /\ \/ /\ Runs(j) /\ ~jobs.cancel[j]
        /\ session' = [step |-> "trial", best |-> bench, evals |-> 0]
        /\ UNCHANGED <<jobs, task, lease, storeVars, scratch, jobSpecs, roots, spoiled>>
     \/ /\ ~(Runs(j) /\ ~jobs.cancel[j])
        /\ BodyEnds(j, "succeeded")
        /\ UNCHANGED spoiled
     \/ /\ ~jobs.cancel[j]
        /\ BodyEnds(j, "succeeded")
        /\ spoiled' = spoiled \cup {j}

\* The objective: the abort check, then the trial point is set.
Trial(j, p) ==
  /\ task[j] = "body" /\ session.step = "trial"
  /\ ~jobs.cancel[j] /\ session.evals < MaxEvals
  /\ bench' = p
  /\ session' = [session EXCEPT !.step = "measure"]
  /\ UNCHANGED <<jobs, task, lease, storeVars, scratch, jobSpecs, roots, own, spoiled>>

\* Faulty: a missing kernel is waited for.
FaultyMeasure(j) ==
  /\ task[j] = "body" /\ session.step = "measure"
  /\ Runs(j)
  /\ \E best \in {session.best, bench} :
       session' = [step |-> "trial", best |-> best, evals |-> session.evals + 1]
  /\ UNCHANGED <<jobs, task, lease, storeVars, scratch, jobSpecs, roots, bench, own, spoiled>>

\* evaluate_loss: the loss may be the lowest so far, or a kernel is missing and
\* KeyError ends the solver.
Measure(j) ==
  /\ task[j] = "body" /\ session.step = "measure"
  /\ IF Runs(j)
     THEN \E best \in {session.best, bench} :
            session' = [step |-> "trial", best |-> best, evals |-> session.evals + 1]
     ELSE session' = [session EXCEPT !.step = "raised"]
  /\ UNCHANGED <<jobs, task, lease, storeVars, scratch, jobSpecs, roots, bench, own, spoiled>>

\* Anything else raises in the thread: a forward pass, an output of the wrong
\* shape, a camera, the router of the bench or the solver.
SessionRaises(j) ==
  /\ task[j] = "body" /\ session.step \in {"trial", "measure"}
  /\ session' = [session EXCEPT !.step = "raised"]
  /\ spoiled' = spoiled \cup {j}
  /\ UNCHANGED <<jobs, task, lease, storeVars, scratch, jobSpecs, roots, bench, own>>

\* The solver has converged or used up its evaluations, or the abort check
\* raises _OptimizationAborted: run_ensemble_optimization returns its best.
Stop(j) ==
  /\ task[j] = "body" /\ session.step = "trial"
  /\ jobs.cancel[j] \/ session.evals > 0
  /\ session' = [session EXCEPT !.step = "returned"]
  /\ UNCHANGED <<jobs, task, lease, storeVars, scratch, jobSpecs, roots, bench, own, spoiled>>

\* Faulty: what a session returned is recorded but not set on the bench.
FaultyReturned(j) ==
  /\ task[j] = "body" /\ session.step = "returned"
  /\ own' = own \cup {j}
  /\ UNCHANGED <<bench, spoiled>>
  /\ BodyEnds(j, "succeeded")

\* The awaited thread has returned: commit_optimization_ensemble_complete,
\* last_ensemble_optimization, IDLE, and the job collects its result.
Returned(j) ==
  /\ task[j] = "body" /\ session.step = "returned"
  /\ bench' = session.best
  /\ own' = own \cup {j}
  /\ BodyEnds(j, "succeeded")
  /\ UNCHANGED spoiled

\* The thread has raised: the exception is printed, nothing is committed, IDLE;
\* the job collects the result of an earlier session.
Raised(j) ==
  /\ task[j] = "body" /\ session.step = "raised"
  /\ UNCHANGED <<bench, own, spoiled>>
  /\ BodyEnds(j, "succeeded")

\* The rest of run_job's finally; the release is a no-op when the lease ran out.
Cleanup(j) ==
  /\ task[j] = "cleanup"
  /\ lease' = IF lease = j THEN NoLease ELSE lease
  /\ TaskEnds(j, jobs)
  /\ UNCHANGED <<storeVars, jobSpecs, bench, session, own>>

-----------------------------------------------------------------------------
Sessions ==
  \/ \E l \in Leases : Acquire(l) \/ Release(l) \/ Browse(l)
  \/ \E l \in Leases, k \in Kernels : Register(l, k) \/ Delete(l, k)
  \/ \E j \in Jobs : Cancel(j)
  \/ \E j \in Jobs, ks \in SUBSET made, h \in given \cup {NoLease} :
       SubmitInline(j, ks, h) \/ SubmitFromLease(j, ks, h) \/ SubmitUnstaged(j, ks, h)

RunnerStep(j) ==
  \/ RunnerRefused(j) \/ RunnerStart(j)
  \/ ReconcileFails(j) \/ Preflight(j)
  \/ Returned(j) \/ Raised(j)
  \/ Cleanup(j)

SolverStep(j) == (\E p \in Points : Trial(j, p)) \/ Measure(j) \/ Stop(j)

Next == Sessions \/ Expire \/ \E j \in Jobs : RunnerStep(j) \/ SolverStep(j) \/ SessionRaises(j)

\* The event loop runs the tasks that are ready; the thread of the solver runs.
\* No session need raise.
Fairness == \A j \in Jobs : WF_vars(RunnerStep(j)) /\ WF_vars(SolverStep(j))

Spec == Init /\ [][Next]_vars /\ Fairness

-----------------------------------------------------------------------------
\* Properties

\* Whatever requests register, delete, browse and release, and whatever jobs
\* come and go between them: every root is a package that is on disk, so no
\* kernel is resolved from a directory that was purged.
RootsExist == \A r \in roots : r[2] \in scratch[r[1]]

\* What a submit staged stays in the job's scratch as long as the job's task is
\* not over, whatever becomes of the lease it came from, and nothing of it stays
\* after.
ScratchFollowsTask ==
  \A j \in Jobs : scratch[j] = IF task[j] = "gone" THEN {} ELSE staged[j]

\* A job that reports "succeeded" with the result of another session has a reason
\* of its own for it: its kernels were not all staged or do not load, its session
\* was refused or raised, or a step that was not its own replaced the roots under
\* it.  No cancel, no purge, no lease that runs out and no other job is one.
OwnResult ==
  \A j \in Jobs :
    jobs.status[j] = "succeeded" /\ needs[j] \subseteq staged[j] \ Broken /\ j \notin spoiled
    => j \in own

Optimizing == session.step \in {"trial", "measure", "returned", "raised"}

\* A session leaves the bench at its best point, aborted or not, whatever trial it
\* was at when the cancel came, unless it raised by itself or its roots were
\* replaced: no kernel of a job that was left alone goes missing in the middle.
EndsAtBest ==
  [][Optimizing /\ ~Optimizing' /\ jobs.active \notin spoiled => bench' = session.best]_vars

\* A job a runner was started for comes to its end, whatever is done to its lease
\* and to its kernels: the bench is not left OPTIMIZING.
RunnerEnds == \A j \in Jobs : task[j] = "pending" ~> task[j] = "gone"

-----------------------------------------------------------------------------
\* What documents and comments say, and the code does not keep

\* docs/SESSION_KERNELS.md: jobs "run the same artifacts on the edge".
SucceededRanItsKernels == \A j \in Jobs : jobs.status[j] = "succeeded" => j \in own

\* docs/SESSION_KERNELS.md: "job scratch [is deleted] after the job ends".
ScratchGoesWithJob ==
  \A j \in Jobs : jobs.status[j] \in Terminal /\ task[j] \in {"none", "gone"} => scratch[j] = {}

\* docs/ENSEMBLE_OPTIMIZATION.md: the failure default is "keep_best: true -
\* commit best-so-far unless rollback_on_fail: true".
FailureKeepsBest ==
  [][Optimizing /\ ~Optimizing' /\ session.evals > 0 => bench' = session.best]_vars

\* session_store.py: "only clear extra roots if they pointed at this lease".
ReleaseSparesOthers ==
  [][\A l \in Leases : lease = l /\ lease' # l /\ scratch'[l] # scratch[l]
       => roots' = {r \in roots : r[1] # l}]_vars

=============================================================================
