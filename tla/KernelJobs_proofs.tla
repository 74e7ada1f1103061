-------------------------- MODULE KernelJobs_proofs --------------------------
(***************************************************************************)
(* For any leases, jobs, kernels, points and evaluations, and whatever     *)
(* clients and time may do besides the lifecycle: the kernels that can be  *)
(* resolved are on disk, a job's packages live as long as its task, a job  *)
(* whose roots nobody touched reports its own result, and its optimization *)
(* leaves the bench at its best point.                                     *)
(***************************************************************************)
EXTENDS KernelJobs, JobManager_proofs

(***************************************************************************)
(* The invariant.  Turns: a job nobody has worked on has no task, the      *)
(* active job is the one whose body runs, and while another task is about  *)
(* to start it is that body that holds the lease.  The lease alone does    *)
(* not keep a second body out, since it may run out under the first.       *)
(***************************************************************************)
Turns ==
  /\ \A j \in Fresh(jobs) : task[j] = "none"
  /\ \A j \in Jobs : task[j] = "body" <=> jobs.active = j
  /\ \A i, j \in Jobs : task[i] = "body" /\ task[j] = "pending" => lease = i

\* The optimization that runs is that of an active job.
SessionSound ==
  /\ Optimizing => jobs.active # NoJob
  /\ session.step = "measure" => session.evals < MaxEvals

(***************************************************************************)
(* What holds of one job: its scratch, and, as long as no other step has   *)
(* changed the roots under its body, that the roots are its own packages,  *)
(* so that what its preflight found it finds at every measurement.         *)
(***************************************************************************)
JobSound(j) ==
  /\ scratch[j] = IF task[j] = "gone" THEN {} ELSE staged[j]
  /\ jobs.status[j] = "none" => staged[j] = {}
  /\ task[j] = "body" /\ j \notin spoiled =>
       /\ roots = PackageRoots(j)
       /\ session.step # "raised"
       /\ Optimizing => needs[j] \subseteq staged[j] \ Broken
  /\ jobs.status[j] = "succeeded" /\ needs[j] \subseteq staged[j] \ Broken /\ j \notin spoiled
       => j \in own

IInv ==
  /\ TypeOK
  /\ TableSound(jobs)
  /\ Turns
  /\ SessionSound
  /\ RootsExist
  /\ \A j \in Jobs : JobSound(j)

LEMMA IInvImplies == IInv => TypeOK /\ RootsExist /\ ScratchFollowsTask /\ OwnResult
  BY DEF IInv, JobSound, ScratchFollowsTask, OwnResult

LEMMA InitIInv == Init => IInv
<1> SUFFICES ASSUME Init PROVE IInv
  OBVIOUS
<1>1. TableSound(EmptyTable) /\ EmptyTable \in JobTable
  BY EmptySound DEF TableSound
<1>2. jobs.active = NoJob /\ jobs.status = [j \in Jobs |-> "none"]
  BY DEF Init, EmptyTable
<1>3. session.step = "off" /\ session \in Session
  BY KernelAssumptions DEF Init, Session, Steps
<1>4. TypeOK
  BY <1>1, <1>3 DEF Init, TypeOK, TaskStates
<1>5. Turns
  BY <1>1, <1>2, JobAssumption, FreshAreJobs DEF Init, Turns
<1>6. SessionSound
  BY <1>3 DEF SessionSound, Optimizing
<1>7. \A j \in Jobs : JobSound(j)
  BY <1>2 DEF Init, JobSound, Owners
<1> QED
  BY <1>1, <1>4, <1>5, <1>6, <1>7 DEF Init, IInv, RootsExist

-----------------------------------------------------------------------------
(***************************************************************************)
(* What a step of job j, or of no job, leaves the other jobs: their status *)
(* and packages, at most a task that is created, and either their roots or *)
(* the mark of having lost them.                                           *)
(***************************************************************************)
Elsewhere(j) ==
  /\ \A i \in Jobs \ {j} :
       /\ jobs'.status[i] = jobs.status[i]
       /\ \/ task'[i] = task[i]
          \/ task[i] = "none" /\ task'[i] = "pending"
       /\ scratch'[i] = scratch[i] /\ staged'[i] = staged[i] /\ needs'[i] = needs[i]
       /\ i \in spoiled => i \in spoiled'
       /\ task[i] = "body" => i \in spoiled' \/ roots' = roots
       /\ i \in own => i \in own'
  /\ session' = session \/ \A i \in Jobs \ {j} : task'[i] # "body"

LEMMA OthersSound ==
  ASSUME IInv, NEW j, Elsewhere(j), NEW i \in Jobs \ {j}
  PROVE  JobSound(i)'
<1>1. JobSound(i)
  BY DEF IInv
<1>2. task'[i] = "body" => task[i] = "body" /\ session' = session
  BY DEF Elsewhere
<1>3. task'[i] = "gone" <=> task[i] = "gone"
  BY DEF Elsewhere
<1>4. /\ jobs'.status[i] = jobs.status[i]
      /\ scratch'[i] = scratch[i] /\ staged'[i] = staged[i] /\ needs'[i] = needs[i]
      /\ i \in spoiled => i \in spoiled'
      /\ task[i] = "body" => i \in spoiled' \/ roots' = roots
      /\ i \in own => i \in own'
  BY DEF Elsewhere
<1> QED
  BY <1>1, <1>2, <1>3, <1>4 DEF JobSound, PackageRoots, Optimizing

\* A step of no job is one of the others' for every job.
LEMMA AllSound ==
  ASSUME IInv, Elsewhere(NoJob)
  PROVE  \A i \in Jobs : JobSound(i)'
  BY OthersSound, JobAssumption

\* set_extra_kernels_roots marks the bodies whose roots it changes.
LEMMA SetRootsMarks ==
  ASSUME TypeOK, NEW STATE r, NEW j, SetRoots(r, j)
  PROVE  /\ roots' = r /\ spoiled \subseteq spoiled' /\ spoiled' \subseteq Jobs
         /\ \A i \in Jobs \ {j} : task[i] = "body" => i \in spoiled' \/ roots' = roots
         /\ j \in spoiled' => j \in spoiled
  BY DEF SetRoots, TypeOK

\* The packages of an owner are roots that exist.
LEMMA PackagesTyped ==
  ASSUME TypeOK, NEW o \in Owners
  PROVE  /\ PackageRoots(o) \subseteq Owners \X Kernels
         /\ \A r \in PackageRoots(o) : r[1] = o /\ r[2] \in scratch[o]
  BY DEF TypeOK, PackageRoots

\* A job whose body runs has left the queue.
LEMMA BodyFacts ==
  ASSUME IInv, NEW j \in Jobs, task[j] = "body"
  PROVE  /\ jobs.active = j /\ jobs.status[j] = "running"
         /\ j \notin Queued(jobs)
         /\ \A i \in Jobs \ {j} : task[i] # "body"
  BY JobAssumption DEF IInv, Turns, TableSound, Queued, Fresh

-----------------------------------------------------------------------------
(***************************************************************************)
(* schedule_job_runner: from a table and tasks that are in turn, it at     *)
(* most creates the task of a fresh job, and that only while no job is     *)
(* active.                                                                 *)
(***************************************************************************)
LEMMA ScheduleStep ==
  ASSUME NEW STATE t, TableSound(t),
         NEW STATE tk, tk \in [Jobs -> TaskStates],
         \A j \in Fresh(t) : tk[j] = "none",
         Schedule(t, tk)
  PROVE  /\ TableStep(t, jobs')
         /\ jobs'.status = t.status /\ jobs'.active = t.active
         /\ task' \in [Jobs -> TaskStates]
         /\ \A j \in Fresh(jobs') : task'[j] = "none"
         /\ \A j \in Jobs : \/ task'[j] = tk[j]
                            \/ tk[j] = "none" /\ task'[j] = "pending" /\ t.active = NoJob
<1> DEFINE j == NextQueued(t)
           p == Popped(t)
<1>1. /\ TableStep(t, p) /\ TableSound(p) /\ Fresh(p) \subseteq Fresh(t)
      /\ p.status = t.status /\ p.active = t.active
  BY PoppedStep DEF TableStep
<1>2. CASE RunnerShouldStart(t) /\ j # NoJob
  <2>1. jobs' = NotedScheduled(p, TRUE) /\ task' = [tk EXCEPT ![j] = "pending"]
    BY <1>2 DEF Schedule
  <2>2. /\ j \in Jobs /\ j \in Fresh(t) /\ t.active = NoJob
        /\ t.status[j] = "queued" /\ j \notin Queued(p)
    BY <1>2, PoppedStep DEF Fresh
  <2> HIDE DEF j, p
  <2>3. TableStep(p, jobs') /\ jobs'.status = p.status /\ jobs'.active = p.active
        /\ jobs'.queue = p.queue
    BY <1>1, <2>1, NotedStep DEF NotedScheduled, TableSound, JobTable
  <2>4. TableStep(t, jobs')
    BY <1>1, <2>3, TableStepTransitive
  <2>5. Fresh(jobs') \subseteq Fresh(t) \ {j}
    BY <1>1, <2>2, <2>3 DEF Fresh, Queued
  <2>6. task' \in [Jobs -> TaskStates] /\ tk[j] = "none"
    BY <2>1, <2>2 DEF TaskStates
  <2> QED
    BY <1>1, <2>1, <2>2, <2>3, <2>4, <2>5, <2>6, FreshAreJobs
<1>3. CASE ~(RunnerShouldStart(t) /\ j # NoJob)
  <2>1. (jobs' = t \/ jobs' = p) /\ task' = tk
    BY <1>3 DEF Schedule
  <2> QED
    BY <1>1, <2>1, TableStepReflexive DEF TableStep
<1> QED
  BY <1>2, <1>3

\* With it everybody keeps the turn, if no body begins or ends and the lease of
\* a body that runs is not touched.
LEMMA ScheduleTurns ==
  ASSUME IInv,
         NEW STATE t, TableSound(t), t.active = jobs.active,
         NEW STATE tk, tk \in [Jobs -> TaskStates],
         \A j \in Fresh(t) : tk[j] = "none",
         \A j \in Jobs : tk[j] = "body" <=> task[j] = "body",
         \A j \in Jobs : tk[j] = "pending" => task[j] = "pending",
         Schedule(t, tk),
         \A j \in Jobs : task[j] = "body" /\ lease = j => lease' = j
  PROVE  Turns'
<1>1. /\ jobs'.active = t.active
      /\ \A j \in Fresh(jobs') : task'[j] = "none"
      /\ \A j \in Jobs : \/ task'[j] = tk[j]
                         \/ tk[j] = "none" /\ task'[j] = "pending" /\ t.active = NoJob
  BY ScheduleStep
<1>2. \A j \in Jobs : task'[j] = "body" <=> task[j] = "body"
  BY <1>1
<1>3. \A j \in Jobs : task'[j] = "body" <=> jobs'.active = j
  BY <1>1, <1>2 DEF IInv, Turns
<1>4. ASSUME NEW i \in Jobs, NEW j \in Jobs, task'[i] = "body", task'[j] = "pending"
      PROVE  lease' = i
  <2>1. t.active = i /\ task[i] = "body"
    BY <1>1, <1>2, <1>3, <1>4
  <2>2. task[j] = "pending"
    BY <1>1, <1>4, <2>1, JobAssumption
  <2> QED
    BY <2>1, <2>2 DEF IInv, Turns
<1> QED
  BY <1>1, <1>3, <1>4 DEF Turns

\* The optimization does not notice what the other steps do.
LEMMA SameSessionSound ==
  ASSUME IInv, session' = session, jobs'.active = jobs.active
  PROVE  SessionSound'
  BY DEF IInv, SessionSound, Optimizing

-----------------------------------------------------------------------------
(***************************************************************************)
(* The package store: requests of sessions, which leave jobs and tasks     *)
(* alone and change no job's packages.                                     *)
(***************************************************************************)
LEMMA StoreStep ==
  ASSUME IInv, NEW STATE r, SetRoots(r, NoJob),
         UNCHANGED <<jobs, task, given, jobSpecs, bench, session, own>>,
         made \subseteq made', made' \subseteq Kernels,
         scratch' \in [Owners -> SUBSET made'],
         \A j \in Jobs : scratch'[j] = scratch[j],
         r \subseteq Owners \X Kernels,
         \A x \in r : x[2] \in scratch'[x[1]],
         lease' = lease \/ (lease \notin Jobs /\ lease' = NoLease)
  PROVE  IInv'
<1>1. TypeOK /\ TableSound(jobs) /\ NoJob \notin Jobs
  BY JobAssumption DEF IInv
<1>2. /\ roots' = r /\ spoiled \subseteq spoiled' /\ spoiled' \subseteq Jobs
      /\ \A i \in Jobs \ {NoJob} : task[i] = "body" => i \in spoiled' \/ roots' = roots
  BY <1>1, SetRootsMarks
<1>3. TypeOK'
  BY <1>1, <1>2 DEF TypeOK, jobSpecs
<1>4. Elsewhere(NoJob)
  BY <1>1, <1>2 DEF Elsewhere, jobSpecs
<1>5. Turns'
  BY <1>1 DEF IInv, Turns
<1>6. SessionSound'
  BY SameSessionSound
<1>7. RootsExist'
  BY <1>2 DEF RootsExist
<1> QED
  BY <1>1, <1>3, <1>4, <1>5, <1>6, <1>7, AllSound DEF IInv

LEMMA ReleaseStep ==
  ASSUME IInv, NEW l \in Leases, Release(l)
  PROVE  IInv'
<1>1. TypeOK /\ l \in Owners /\ l \notin Jobs
  BY KernelAssumptions DEF IInv, Owners
<1>2. scratch' \in [Owners -> SUBSET made] /\ \A j \in Jobs : scratch'[j] = scratch[j]
  BY <1>1 DEF Release, TypeOK, Owners
<1>3. made \subseteq Kernels /\ made' = made
  BY <1>1 DEF TypeOK, Release, storeVars
<1> QED
  BY <1>1, <1>2, <1>3, StoreStep DEF Release, storeVars

LEMMA BrowseStep ==
  ASSUME IInv, NEW l \in Leases, Browse(l)
  PROVE  IInv'
<1>1. TypeOK /\ l \in Owners
  BY DEF IInv, Owners
<1>2. made \subseteq Kernels /\ made' = made /\ scratch' = scratch /\ scratch \in [Owners -> SUBSET made]
  BY <1>1 DEF TypeOK, Browse, storeVars
<1>3. PackageRoots(l) \subseteq Owners \X Kernels /\ \A x \in PackageRoots(l) : x[2] \in scratch'[x[1]]
  BY <1>1, <1>2, PackagesTyped
<1> QED
  BY <1>2, <1>3, StoreStep DEF Browse, storeVars

LEMMA DeleteStep ==
  ASSUME IInv, NEW l \in Leases, NEW k \in Kernels, Delete(l, k)
  PROVE  IInv'
<1> DEFINE r == PackageRoots(l) \ {<<l, k>>}
<1>1. TypeOK /\ l \in Owners /\ l \notin Jobs
  BY KernelAssumptions DEF IInv, Owners
<1>2. /\ scratch' \in [Owners -> SUBSET made]
      /\ \A o \in Owners : scratch'[o] = IF o = l THEN scratch[l] \ {k} ELSE scratch[o]
  BY <1>1 DEF Delete, TypeOK
<1>3. \A x \in r : x[2] \in scratch'[x[1]]
  <2> SUFFICES ASSUME NEW x \in r PROVE x[2] \in scratch'[x[1]]
    OBVIOUS
  <2>1. x[1] = l /\ x[2] \in scratch[l] /\ x = <<l, x[2]>>
    BY DEF PackageRoots
  <2> QED
    BY <1>1, <1>2, <2>1
<1>4. made \subseteq Kernels /\ made' = made
  BY <1>1 DEF TypeOK, Delete, storeVars
<1>5. r \subseteq Owners \X Kernels
  BY <1>1, PackagesTyped
<1>6. \A j \in Jobs : scratch'[j] = scratch[j]
  BY <1>1, <1>2 DEF Owners
<1> HIDE DEF r
<1>7. SetRoots(r, NoJob)
  BY DEF Delete, r
<1> QED
  BY <1>2, <1>3, <1>4, <1>5, <1>6, <1>7, StoreStep DEF Delete, storeVars

LEMMA RegisterStep ==
  ASSUME IInv, NEW l \in Leases, NEW k \in Kernels, Register(l, k)
  PROVE  IInv'
<1> DEFINE r == PackageRoots(l) \cup {<<l, k>>}
<1>1. TypeOK /\ l \in Owners /\ l \notin Jobs
  BY KernelAssumptions DEF IInv, Owners
<1>2. /\ made' = made \cup {k} /\ made' \subseteq Kernels
      /\ scratch' \in [Owners -> SUBSET made']
      /\ \A o \in Owners : scratch'[o] = IF o = l THEN scratch[l] \cup {k} ELSE scratch[o]
  BY <1>1 DEF Register, TypeOK
<1>3. \A j \in Jobs : scratch'[j] = scratch[j]
  BY <1>1, <1>2 DEF Owners
<1>4. CASE k \in Broken
  <2>1. SetRoots(roots, NoJob)
    BY <1>4 DEF Register, SetRoots
  <2>2. roots \subseteq Owners \X Kernels
    BY <1>1 DEF TypeOK
  <2>3. \A x \in roots : x[2] \in scratch'[x[1]]
    <3> SUFFICES ASSUME NEW x \in roots PROVE x[2] \in scratch'[x[1]]
      OBVIOUS
    <3>1. x[1] \in Owners /\ x[2] \in scratch[x[1]]
      BY <2>2 DEF IInv, RootsExist
    <3> QED
      BY <1>2, <3>1
  <2> QED
    BY <1>2, <1>3, <2>1, <2>2, <2>3, StoreStep DEF Register
<1>5. CASE k \notin Broken
  <2>1. SetRoots(r, NoJob)
    BY <1>5 DEF Register
  <2>2. r \subseteq Owners \X Kernels
    BY <1>1, PackagesTyped
  <2>3. \A x \in r : x[2] \in scratch'[x[1]]
    <3> SUFFICES ASSUME NEW x \in r PROVE x[2] \in scratch'[x[1]]
      OBVIOUS
    <3>1. CASE x = <<l, k>>
      BY <1>1, <1>2, <3>1
    <3>2. CASE x \in PackageRoots(l)
      BY <1>1, <1>2, <3>2, PackagesTyped
    <3> QED
      BY <3>1, <3>2
  <2> HIDE DEF r
  <2> QED
    BY <1>2, <1>3, <2>1, <2>2, <2>3, StoreStep DEF Register
<1> QED
  BY <1>4, <1>5

\* A lease is given out, or it runs out; neither touches the lease of a body
\* beside which a task is about to start.
LEMMA LeaseStep ==
  ASSUME IInv, (\E l \in Leases : Acquire(l)) \/ Expire
  PROVE  IInv'
<1>1. TypeOK /\ TableSound(jobs) /\ Turns
  BY DEF IInv
<1>2. UNCHANGED <<jobs, task, scratch, made, needs, staged, roots, bench, session, own, spoiled>>
  BY DEF Acquire, Expire, storeVars, jobSpecs
<1>3. given' \subseteq Leases /\ lease' \in Owners \cup {NoLease}
  BY <1>1 DEF TypeOK, Acquire, Expire, storeVars, Owners
<1>4. Turns'
  <2>1. ASSUME NEW i \in Jobs, NEW j \in Jobs, task[i] = "body", task[j] = "pending"
        PROVE  FALSE
    <3>1. lease = i
      BY <1>1, <2>1 DEF Turns
    <3> QED
      BY <2>1, <3>1, KernelAssumptions DEF Acquire, Expire
  <2> QED
    BY <1>1, <1>2, <2>1 DEF Turns
<1>5. Elsewhere(NoJob)
  BY <1>2 DEF Elsewhere
<1>6. RootsExist' /\ SessionSound'
  BY <1>2, SameSessionSound DEF IInv, RootsExist
<1>7. TypeOK'
  BY <1>1, <1>2, <1>3 DEF TypeOK
<1> QED
  BY <1>1, <1>2, <1>4, <1>5, <1>6, <1>7, AllSound DEF IInv

-----------------------------------------------------------------------------
(***************************************************************************)
(* Submitting and cancelling                                               *)
(***************************************************************************)
\* The packages a submit reads and activates are those of a lease.
LEMMA HeaderRootsStep ==
  ASSUME IInv, NEW h \in given \cup {NoLease}, HeaderRoots(h)
  PROVE  /\ spoiled \subseteq spoiled' /\ spoiled' \subseteq Jobs
         /\ \A i \in Jobs : task[i] = "body" => i \in spoiled' \/ roots' = roots
         /\ roots' \subseteq Owners \X Kernels
         /\ \A x \in roots' : x[1] \in Owners /\ x[2] \in scratch[x[1]]
<1>1. TypeOK /\ NoJob \notin Jobs
  BY JobAssumption DEF IInv
<1>2. roots \subseteq Owners \X Kernels /\ spoiled \subseteq Jobs
  BY <1>1 DEF TypeOK
<1>3. CASE h = NoLease
  BY <1>1, <1>2, <1>3 DEF HeaderRoots, IInv, RootsExist
<1>4. CASE h # NoLease
  <2>1. h \in Owners /\ SetRoots(PackageRoots(h), NoJob)
    BY <1>1, <1>4 DEF HeaderRoots, TypeOK, Owners
  <2>2. /\ roots' = PackageRoots(h) /\ spoiled \subseteq spoiled' /\ spoiled' \subseteq Jobs
        /\ \A i \in Jobs \ {NoJob} : task[i] = "body" => i \in spoiled' \/ roots' = roots
    BY <1>1, <2>1, SetRootsMarks
  <2>3. /\ PackageRoots(h) \subseteq Owners \X Kernels
        /\ \A r \in PackageRoots(h) : r[1] = h /\ r[2] \in scratch[h]
    BY <1>1, <2>1, PackagesTyped
  <2> QED
    BY <1>1, <2>1, <2>2, <2>3
<1> QED
  BY <1>3, <1>4

\* What a lease has, and what a submit from it writes, was registered.
LEMMA SessionIdsMade ==
  ASSUME TypeOK, NEW h \in given \cup {NoLease}, NEW ks \in SUBSET made
  PROVE  SessionIds(h, ks) \subseteq made
  BY DEF TypeOK, SessionIds, Owners

\* A job that was not submitted before is queued with its packages, and a runner
\* may be started for a job, if it is this one or not.
LEMMA SubmitStep ==
  ASSUME IInv, NEW j \in Jobs, NEW ks \in SUBSET made, NEW h \in given \cup {NoLease},
         NEW packages \in SUBSET made,
         jobs.status[j] = "none", HeaderRoots(h), Stages(j, ks, packages),
         \/ Schedule(Submitted(jobs, j), task)
         \/ jobs' = Submitted(jobs, j) /\ task' = task
  PROVE  IInv'
<1> DEFINE t == Submitted(jobs, j)
<1>1. /\ TypeOK /\ TableSound(jobs) /\ Turns /\ jobs \in JobTable
      /\ jobs.status \in [Jobs -> Status] /\ task \in [Jobs -> TaskStates]
  BY DEF IInv, TableSound, JobTable, TypeOK
<1>2. /\ TableStep(jobs, t) /\ TableSound(t)
      /\ t.status = [jobs.status EXCEPT ![j] = "queued"] /\ t.active = jobs.active
  BY <1>1, SubmittedStep, SubmittedStatus DEF TableStep
<1>3. \A i \in Fresh(t) : task[i] = "none"
  BY <1>1, <1>2 DEF TableStep, Turns
<1>4. task[j] = "none"
  BY <1>1 DEF Turns, Fresh
<1> HIDE DEF t
<1>5. /\ TableSound(jobs') /\ jobs'.status = t.status /\ jobs'.active = t.active
      /\ task' \in [Jobs -> TaskStates]
      /\ \A i \in Jobs : task'[i] = task[i] \/ (task[i] = "none" /\ task'[i] = "pending")
      /\ Turns'
  <2>1. CASE Schedule(t, task)
    <3>1. Turns'
      BY <1>1, <1>2, <1>3, <2>1, ScheduleTurns DEF Stages
    <3> QED
      BY <1>1, <1>2, <1>3, <2>1, <3>1, ScheduleStep DEF TableStep
  <2>2. CASE jobs' = t /\ task' = task
    BY <1>1, <1>2, <1>3, <2>2 DEF Turns, Stages
  <2> QED
    BY <2>1, <2>2 DEF t
<1>6. /\ lease' = lease /\ given' = given /\ made' = made /\ bench' = bench
      /\ session' = session /\ own' = own
      /\ needs' = [needs EXCEPT ![j] = ks] /\ staged' = [staged EXCEPT ![j] = packages]
      /\ scratch' = [scratch EXCEPT ![j] = packages]
  BY DEF Stages, storeVars
<1>7. /\ spoiled \subseteq spoiled' /\ spoiled' \subseteq Jobs
      /\ \A i \in Jobs : task[i] = "body" => i \in spoiled' \/ roots' = roots
      /\ roots' \subseteq Owners \X Kernels
      /\ \A x \in roots' : x[1] \in Owners /\ x[2] \in scratch[x[1]]
  BY HeaderRootsStep
<1>8. TypeOK'
  BY <1>1, <1>5, <1>6, <1>7 DEF TypeOK, TableSound, Owners
<1>9. scratch[j] = {}
  BY <1>4 DEF IInv, JobSound
<1>10. RootsExist'
  BY <1>1, <1>6, <1>7, <1>9 DEF RootsExist, TypeOK, Owners
<1>11. SessionSound'
  BY <1>2, <1>5, <1>6, SameSessionSound
<1>12. Elsewhere(j)
  BY <1>1, <1>2, <1>5, <1>6, <1>7 DEF Elsewhere, TypeOK, Owners
<1>13. JobSound(j)'
  <2>1. task'[j] \notin {"body", "gone"} /\ jobs'.status[j] = "queued"
    BY <1>1, <1>2, <1>4, <1>5
  <2>2. scratch'[j] = packages /\ staged'[j] = packages
    BY <1>1, <1>6 DEF TypeOK, Owners
  <2> QED
    BY <2>1, <2>2 DEF JobSound
<1> QED
  BY <1>5, <1>8, <1>10, <1>11, <1>12, <1>13, OthersSound DEF IInv

LEMMA SubmissionStep ==
  ASSUME IInv, NEW j \in Jobs, NEW ks \in SUBSET made, NEW h \in given \cup {NoLease},
         SubmitInline(j, ks, h) \/ SubmitFromLease(j, ks, h) \/ SubmitUnstaged(j, ks, h)
  PROVE  IInv'
<1>1. CASE SubmitInline(j, ks, h)
  BY <1>1, SubmitStep DEF SubmitInline
<1>2. CASE SubmitFromLease(j, ks, h)
  BY <1>2, SubmitStep, SessionIdsMade DEF SubmitFromLease, IInv
<1>3. CASE SubmitUnstaged(j, ks, h)
  <2>1. PICK some \in SUBSET made : Stages(j, ks, some)
    BY <1>3 DEF SubmitUnstaged
  <2> QED
    BY <1>3, <2>1, SubmitStep DEF SubmitUnstaged
<1> QED
  BY <1>1, <1>2, <1>3

\* A cancelled job stays with the task it has.
LEMMA CancelStep ==
  ASSUME IInv, NEW j \in Jobs, Cancel(j)
  PROVE  IInv'
<1> DEFINE t == CancelRequested(jobs, j)
<1>1. /\ TypeOK /\ TableSound(jobs) /\ Turns /\ jobs \in JobTable
      /\ jobs.status \in [Jobs -> Status] /\ task \in [Jobs -> TaskStates]
  BY DEF IInv, TableSound, JobTable, TypeOK
<1>2. /\ TableStep(jobs, t) /\ TableSound(t) /\ t.active = jobs.active
      /\ t.status = jobs.status \/ t.status = [jobs.status EXCEPT ![j] = "cancelled"]
  BY <1>1, CancelRequestedStep, CancelledStatus DEF TableStep, Cancel
<1>3. \A i \in Fresh(t) : task[i] = "none"
  BY <1>1, <1>2 DEF TableStep, Turns
<1>4. Schedule(t, task)
  BY DEF Cancel
<1>5. UNCHANGED <<lease, given, made, scratch, needs, staged, roots, bench, session, own, spoiled>>
  BY DEF Cancel, storeVars, jobSpecs
<1> HIDE DEF t
<1>6. Turns'
  BY <1>1, <1>2, <1>3, <1>4, <1>5, ScheduleTurns
<1>7. /\ TableSound(jobs') /\ jobs'.status = t.status /\ jobs'.active = t.active
      /\ task' \in [Jobs -> TaskStates]
      /\ \A i \in Jobs : task'[i] = task[i] \/ (task[i] = "none" /\ task'[i] = "pending")
  BY <1>1, <1>2, <1>3, <1>4, ScheduleStep DEF TableStep
<1>8. TypeOK'
  BY <1>1, <1>5, <1>7 DEF TypeOK, TableSound
<1>9. RootsExist' /\ SessionSound'
  BY <1>2, <1>5, <1>7, SameSessionSound DEF IInv, RootsExist
<1>10. Elsewhere(j)
  BY <1>1, <1>2, <1>5, <1>7 DEF Elsewhere
<1>11. JobSound(j)'
  <2>1. jobs'.status[j] = jobs.status[j] \/ jobs'.status[j] = "cancelled"
    BY <1>1, <1>2, <1>7
  <2>2. (task'[j] = "body" <=> task[j] = "body") /\ (task'[j] = "gone" <=> task[j] = "gone")
    BY <1>7
  <2>3. JobSound(j)
    BY DEF IInv
  <2> QED
    BY <1>5, <2>1, <2>2, <2>3 DEF JobSound, PackageRoots, Optimizing
<1> QED
  BY <1>6, <1>7, <1>8, <1>9, <1>10, <1>11, OthersSound DEF IInv

-----------------------------------------------------------------------------
(***************************************************************************)
(* The job runner                                                          *)
(***************************************************************************)
\* A task that ends, after its last call left the table t, purges the packages
\* of its job and all roots, which marks the body of another job.
LEMMA TaskEndsStep ==
  ASSUME IInv, NEW j \in Jobs, task[j] \in {"pending", "cleanup"},
         NEW STATE t, TableStep(jobs, t), t.active = jobs.active,
         \A i \in Jobs \ {j} : t.status[i] = jobs.status[i],
         t.status[j] = jobs.status[j] \/ t.status[j] = "failed",
         TaskEnds(j, t),
         lease' = lease \/ (lease = j /\ lease' = NoLease),
         UNCHANGED <<storeVars, jobSpecs, bench, session, own>>
  PROVE  IInv'
<1> DEFINE n == NotedScheduled(t, FALSE)
           tk == [task EXCEPT ![j] = "gone"]
<1>1. /\ TypeOK /\ TableSound(jobs) /\ Turns /\ jobs \in JobTable
      /\ task \in [Jobs -> TaskStates] /\ JobSound(j)
  BY DEF IInv, TableSound, TypeOK
<1>2. /\ TableStep(jobs, n) /\ TableSound(n)
      /\ n.status = t.status /\ n.active = jobs.active
  <2>1. TableSound(t) /\ t \in JobTable
    BY DEF TableStep, TableSound
  <2>2. TableStep(t, n) /\ n.status = t.status /\ n.active = t.active
    BY <2>1, NotedStep, NotedStatus
  <2> HIDE DEF n
  <2>3. TableStep(jobs, n)
    BY <2>2, TableStepTransitive
  <2> QED
    BY <2>2, <2>3 DEF TableStep
<1>3. tk \in [Jobs -> TaskStates] /\ tk[j] = "gone" /\ \A i \in Jobs \ {j} : tk[i] = task[i]
  BY <1>1 DEF TaskStates
<1>4. \A i \in Fresh(n) : tk[i] = "none"
  BY <1>1, <1>2, <1>3, FreshAreJobs DEF TableStep, Turns
<1>5. /\ Schedule(n, tk) /\ scratch' = [scratch EXCEPT ![j] = {}]
      /\ SetRoots({}, j)
  BY DEF TaskEnds
<1> HIDE DEF n, tk
<1>6. Turns'
  <2>1. \A i \in Jobs : task[i] = "body" /\ lease = i => lease' = i
    BY <1>1
  <2>2. /\ \A i \in Jobs : tk[i] = "body" <=> task[i] = "body"
        /\ \A i \in Jobs : tk[i] = "pending" => task[i] = "pending"
    BY <1>3
  <2> QED
    BY <1>2, <1>3, <1>4, <1>5, <2>1, <2>2, ScheduleTurns
<1>7. /\ TableSound(jobs') /\ jobs'.status = t.status /\ jobs'.active = jobs.active
      /\ task' \in [Jobs -> TaskStates]
      /\ \A i \in Jobs : task'[i] = tk[i] \/ (tk[i] = "none" /\ task'[i] = "pending")
  BY <1>2, <1>3, <1>4, <1>5, ScheduleStep DEF TableStep
<1>8. /\ roots' = {} /\ spoiled \subseteq spoiled' /\ spoiled' \subseteq Jobs
      /\ \A i \in Jobs \ {j} : task[i] = "body" => i \in spoiled' \/ roots' = roots
      /\ j \in spoiled' => j \in spoiled
  BY <1>1, <1>5, SetRootsMarks
<1>9. TypeOK'
  BY <1>1, <1>5, <1>7, <1>8 DEF TypeOK, TableSound, storeVars, jobSpecs
<1>10. RootsExist' /\ SessionSound'
  BY <1>7, <1>8, SameSessionSound DEF RootsExist
<1>11. Elsewhere(j)
  BY <1>1, <1>3, <1>5, <1>7, <1>8 DEF Elsewhere, TypeOK, Owners, jobSpecs
<1>12. JobSound(j)'
  <2>1. task'[j] = "gone" /\ scratch'[j] = {}
    BY <1>1, <1>3, <1>5, <1>7 DEF TypeOK, Owners
  <2>2. jobs'.status[j] = jobs.status[j] \/ jobs'.status[j] = "failed"
    BY <1>7
  <2> QED
    BY <1>1, <1>8, <2>1, <2>2 DEF JobSound, jobSpecs
<1> QED
  BY <1>6, <1>7, <1>9, <1>10, <1>11, <1>12, OthersSound DEF IInv

LEMMA RefusedStep ==
  ASSUME IInv, NEW j \in Jobs, RunnerRefused(j)
  PROVE  IInv'
<1> DEFINE t == Completed(jobs, j, "failed")
<1>1. /\ TableSound(jobs) /\ Turns /\ jobs \in JobTable /\ jobs.status \in [Jobs -> Status]
      /\ task[j] = "pending"
  BY DEF IInv, TableSound, JobTable, RunnerRefused
<1>2. j \in Jobs \ Queued(jobs) /\ jobs.active # j
  BY <1>1 DEF Turns, Fresh
<1>3. TableStep(jobs, t)
  BY <1>1, <1>2, CompletedStep DEF Terminal
<1>4. t.status = [jobs.status EXCEPT ![j] = "failed"] /\ t.active = jobs.active
  BY <1>1, <1>2, CompletedStatus DEF Terminal
<1>5. TaskEnds(j, t) /\ UNCHANGED <<lease, storeVars, jobSpecs, bench, session, own>>
  BY DEF RunnerRefused
<1> HIDE DEF t
<1> QED
  BY <1>1, <1>3, <1>4, <1>5, TaskEndsStep

LEMMA CleanupStep ==
  ASSUME IInv, NEW j \in Jobs, Cleanup(j)
  PROVE  IInv'
<1>1. TableStep(jobs, jobs) /\ task[j] = "cleanup"
  BY TableStepReflexive DEF IInv, Cleanup
<1>2. lease' = lease \/ (lease = j /\ lease' = NoLease)
  BY DEF Cleanup
<1> QED
  BY <1>1, <1>2, TaskEndsStep DEF Cleanup

\* A body begins: nobody else's does, for its lease would not be free.
LEMMA StartStep ==
  ASSUME IInv, NEW j \in Jobs, RunnerStart(j)
  PROVE  IInv'
<1>1. /\ TypeOK /\ TableSound(jobs) /\ Turns /\ jobs \in JobTable
      /\ jobs.status \in [Jobs -> Status] /\ task \in [Jobs -> TaskStates] /\ JobSound(j)
  BY DEF IInv, TableSound, JobTable, TypeOK
<1>2. /\ task[j] = "pending" /\ lease = NoLease /\ MayRun(jobs, j)
      /\ lease' = j /\ jobs' = MarkedRunning(jobs, j) /\ task' = [task EXCEPT ![j] = "body"]
      /\ session' = [session EXCEPT !.step = "init"]
      /\ SetRoots(PackageRoots(j), j)
      /\ UNCHANGED <<given, made, scratch, needs, staged, bench, own>>
  BY DEF RunnerStart, storeVars, jobSpecs
<1>3. j \in Jobs \ Queued(jobs)
  BY <1>1, <1>2 DEF Turns, Fresh
<1>4. \A i \in Jobs : task[i] # "body"
  BY <1>1, <1>2, KernelAssumptions DEF Turns
<1>5. /\ TableStep(jobs, jobs') /\ TableSound(jobs')
      /\ jobs'.status = [jobs.status EXCEPT ![j] = "running"] /\ jobs'.active = j
  BY <1>1, <1>2, <1>3, MarkedRunningStep, MarkedRunningStatus DEF TableStep
<1>6. Turns'
  <2>1. \A i \in Fresh(jobs') : task'[i] = "none"
    BY <1>1, <1>2, <1>5, FreshAreJobs DEF Turns, TableStep
  <2>2. \A i \in Jobs : task'[i] = "body" <=> i = j
    BY <1>1, <1>2, <1>4
  <2> QED
    BY <1>2, <1>5, <2>1, <2>2 DEF Turns
<1>7. /\ roots' = PackageRoots(j) /\ spoiled \subseteq spoiled' /\ spoiled' \subseteq Jobs
      /\ \A i \in Jobs \ {j} : task[i] = "body" => i \in spoiled' \/ roots' = roots
  BY <1>1, <1>2, SetRootsMarks
<1>8. /\ PackageRoots(j) \subseteq Owners \X Kernels
      /\ \A r \in PackageRoots(j) : r[1] = j /\ r[2] \in scratch[j]
  BY <1>1, PackagesTyped DEF Owners
<1>9. session' \in Session /\ session'.step = "init"
  BY <1>1, <1>2 DEF TypeOK, Session, Steps
<1>10. TypeOK'
  BY <1>1, <1>2, <1>5, <1>7, <1>8, <1>9 DEF TypeOK, TableSound, TaskStates, Owners
<1>11. RootsExist' /\ SessionSound'
  BY <1>2, <1>7, <1>8, <1>9 DEF RootsExist, SessionSound, Optimizing
<1>12. Elsewhere(j)
  BY <1>1, <1>2, <1>4, <1>5, <1>7 DEF Elsewhere
<1>13. JobSound(j)'
  <2>1. task'[j] = "body" /\ jobs'.status[j] = "running"
    BY <1>1, <1>2, <1>5
  <2>2. roots' = PackageRoots(j)'
    BY <1>2, <1>7 DEF PackageRoots
  <2> QED
    BY <1>1, <1>2, <1>9, <2>1, <2>2 DEF JobSound, Optimizing
<1> QED
  BY <1>5, <1>6, <1>10, <1>11, <1>12, <1>13, OthersSound DEF IInv

\* While a job's roots are left alone its packages, and no others, are found.
LEMMA OwnPackagesFound ==
  ASSUME IInv, NEW j \in Jobs, task[j] = "body", j \notin spoiled
  PROVE  Runs(j) <=> needs[j] \subseteq staged[j] \ Broken
<1>1. roots = {j} \X scratch[j] /\ scratch[j] = staged[j]
  BY DEF IInv, JobSound, PackageRoots
<1>2. scratch[j] \subseteq Kernels /\ j \in Owners
  BY DEF IInv, TypeOK, Owners
<1>3. Resolvable = scratch[j]
  BY <1>1, <1>2 DEF Resolvable
<1> QED
  BY <1>1, <1>3 DEF Runs

\* A body ends: the job is finished, and succeeds with its own result if its
\* kernels run.
LEMMA BodyEndsStep ==
  ASSUME IInv, NEW j \in Jobs, task[j] = "body", NEW s \in {"succeeded", "failed"},
         BodyEnds(j, s), bench' \in Points,
         own' = own \/ own' = own \cup {j},
         spoiled' = spoiled \/ spoiled' = spoiled \cup {j},
         s = "succeeded" /\ ~jobs.cancel[j] /\ j \notin spoiled'
           /\ needs[j] \subseteq staged[j] \ Broken => j \in own'
  PROVE  IInv'
<1> DEFINE x == IF s = "succeeded" /\ jobs.cancel[j] THEN "cancelled" ELSE s
<1>1. /\ TypeOK /\ TableSound(jobs) /\ Turns /\ jobs \in JobTable
      /\ jobs.status \in [Jobs -> Status] /\ task \in [Jobs -> TaskStates] /\ JobSound(j)
  BY DEF IInv, TableSound, JobTable, TypeOK
<1>2. /\ jobs' = Completed(jobs, j, x) /\ task' = [task EXCEPT ![j] = "cleanup"]
      /\ session' = [step |-> "off", best |-> bench', evals |-> 0]
      /\ UNCHANGED <<lease, given, made, scratch, needs, staged, roots>>
  BY DEF BodyEnds, storeVars, jobSpecs
<1>3. x \in Terminal /\ (x = "succeeded" => s = "succeeded" /\ ~jobs.cancel[j])
  BY DEF Terminal
<1> HIDE DEF x
<1>4. /\ jobs.active = j /\ j \in Jobs \ Queued(jobs)
      /\ \A i \in Jobs \ {j} : task[i] # "body"
  BY BodyFacts
<1>5. /\ TableStep(jobs, jobs') /\ TableSound(jobs')
      /\ jobs'.status = [jobs.status EXCEPT ![j] = x] /\ jobs'.active = NoJob
  BY <1>1, <1>2, <1>3, <1>4, CompletedStep, CompletedStatus DEF TableStep
<1>6. Turns'
  <2>1. \A i \in Fresh(jobs') : task'[i] = "none"
    BY <1>1, <1>2, <1>5, FreshAreJobs DEF Turns, TableStep
  <2>2. \A i \in Jobs : task'[i] # "body"
    BY <1>1, <1>2, <1>4
  <2> QED
    BY <1>5, <2>1, <2>2, JobAssumption DEF Turns
<1>7. session' \in Session /\ session'.step = "off"
  BY <1>2, KernelAssumptions DEF Session, Steps
<1>8. TypeOK'
  BY <1>1, <1>2, <1>5, <1>7 DEF TypeOK, TableSound, TaskStates
<1>9. RootsExist' /\ SessionSound'
  BY <1>2, <1>7 DEF IInv, RootsExist, SessionSound, Optimizing
<1>10. Elsewhere(j)
  BY <1>1, <1>2, <1>4, <1>5 DEF Elsewhere
<1>11. JobSound(j)'
  <2>1. task'[j] = "cleanup" /\ jobs'.status[j] = x /\ x # "none"
    BY <1>1, <1>2, <1>3, <1>5 DEF Terminal
  <2>2. x = "succeeded" /\ j \notin spoiled' /\ needs[j] \subseteq staged[j] \ Broken => j \in own'
    BY <1>3
  <2> QED
    BY <1>1, <1>2, <2>1, <2>2 DEF JobSound
<1> QED
  BY <1>5, <1>6, <1>8, <1>9, <1>10, <1>11, OthersSound DEF IInv

\* The optimization of job j goes on, and still knows whether its kernels run.
LEMMA SessionStep ==
  ASSUME IInv, NEW j \in Jobs, task[j] = "body",
         UNCHANGED <<jobs, task, lease, storeVars, scratch, jobSpecs, roots, own>>,
         bench' \in Points, session' \in Session,
         session'.step = "measure" => session'.evals < MaxEvals,
         spoiled' = spoiled \/ spoiled' = spoiled \cup {j},
         j \notin spoiled' => /\ session'.step # "raised"
                             /\ needs[j] \subseteq staged[j] \ Broken
  PROVE  IInv'
<1>1. /\ TypeOK /\ TableSound(jobs) /\ Turns /\ RootsExist /\ JobSound(j)
      /\ jobs.active = j /\ \A i \in Jobs \ {j} : task[i] # "body"
  BY BodyFacts DEF IInv
<1>2. UNCHANGED <<jobs, task, lease, given, made, scratch, needs, staged, roots, own>>
  BY DEF storeVars, jobSpecs
<1>3. TypeOK' /\ Turns' /\ RootsExist'
  BY <1>1, <1>2 DEF TypeOK, Turns, RootsExist
<1>4. SessionSound'
  BY <1>1, <1>2, JobAssumption DEF SessionSound
<1>5. Elsewhere(j)
  BY <1>1, <1>2 DEF Elsewhere
<1>6. JobSound(j)'
  BY <1>1, <1>2 DEF JobSound, PackageRoots
<1> QED
  BY <1>1, <1>2, <1>3, <1>4, <1>5, <1>6, OthersSound DEF IInv

\* What an optimization under way knows of its kernels.
LEMMA KernelsKnown ==
  ASSUME IInv, NEW j \in Jobs, task[j] = "body", Optimizing, j \notin spoiled
  PROVE  /\ session.step # "raised" /\ Runs(j)
         /\ needs[j] \subseteq staged[j] \ Broken
<1>1. session.step # "raised" /\ needs[j] \subseteq staged[j] \ Broken
  BY DEF IInv, JobSound
<1> QED
  BY <1>1, OwnPackagesFound

LEMMA SolverGoesOn ==
  ASSUME IInv, NEW j \in Jobs, SolverStep(j) \/ SessionRaises(j)
  PROVE  IInv'
<1>1. /\ task[j] = "body" /\ Optimizing /\ session \in Session /\ bench \in Points
      /\ session.step = "measure" => session.evals < MaxEvals
      /\ MaxEvals \in Nat
  BY KernelAssumptions DEF IInv, TypeOK, SessionSound, SolverStep, Trial, Measure, SessionRaises, Stop, Optimizing
<1>2. j \notin spoiled => Runs(j) /\ needs[j] \subseteq staged[j] \ Broken
  BY <1>1, KernelsKnown
<1>3. ASSUME NEW p \in Points, Trial(j, p) PROVE IInv'
  <2>1. /\ session' = [session EXCEPT !.step = "measure"] /\ session.evals < MaxEvals
        /\ bench' = p
        /\ UNCHANGED <<jobs, task, lease, storeVars, scratch, jobSpecs, roots, own, spoiled>>
    BY <1>3 DEF Trial
  <2>2. session' \in Session /\ session'.step = "measure" /\ session'.evals = session.evals
    BY <1>1, <2>1 DEF Session, Steps
  <2> QED
    BY <1>1, <1>2, <2>1, <2>2, SessionStep
<1>4. CASE Measure(j)
  <2>0. UNCHANGED <<jobs, task, lease, storeVars, scratch, jobSpecs, roots, bench, own, spoiled>>
    BY <1>4 DEF Measure
  <2>1. CASE Runs(j)
    <3>1. PICK best \in {session.best, bench} :
            session' = [step |-> "trial", best |-> best, evals |-> session.evals + 1]
      BY <1>4, <2>1 DEF Measure
    <3>2. session.evals < MaxEvals /\ session.evals \in 0..MaxEvals /\ best \in Points
      BY <1>1, <1>4 DEF Measure, Session
    <3>3. session' \in Session /\ session'.step = "trial"
      BY <1>1, <3>1, <3>2 DEF Session, Steps
    <3> QED
      BY <1>1, <1>2, <2>0, <3>3, SessionStep
  <2>2. CASE ~Runs(j)
    <3>1. session' = [session EXCEPT !.step = "raised"] /\ j \in spoiled
      BY <1>2, <1>4, <2>2 DEF Measure
    <3>2. session' \in Session /\ session'.step = "raised"
      BY <1>1, <3>1 DEF Session, Steps
    <3> QED
      BY <1>1, <2>0, <3>1, <3>2, SessionStep
  <2> QED
    BY <2>1, <2>2
<1>5. CASE Stop(j)
  <2>1. /\ session' = [session EXCEPT !.step = "returned"] /\ bench' = bench
        /\ UNCHANGED <<jobs, task, lease, storeVars, scratch, jobSpecs, roots, own, spoiled>>
    BY <1>5 DEF Stop
  <2>2. session' \in Session /\ session'.step = "returned"
    BY <1>1, <2>1 DEF Session, Steps
  <2> QED
    BY <1>1, <1>2, <2>1, <2>2, SessionStep
<1>6. CASE SessionRaises(j)
  <2>1. /\ session' = [session EXCEPT !.step = "raised"] /\ spoiled' = spoiled \cup {j}
        /\ bench' = bench
        /\ UNCHANGED <<jobs, task, lease, storeVars, scratch, jobSpecs, roots, own>>
    BY <1>6 DEF SessionRaises
  <2>2. session' \in Session /\ session'.step = "raised"
    BY <1>1, <2>1 DEF Session, Steps
  <2> QED
    BY <1>1, <2>1, <2>2, SessionStep
<1> QED
  BY <1>3, <1>4, <1>5, <1>6 DEF SolverStep

LEMMA PreflightStep ==
  ASSUME IInv, NEW j \in Jobs, Preflight(j)
  PROVE  IInv'
<1>1. /\ task[j] = "body" /\ bench \in Points /\ bench' = bench /\ own' = own
      /\ MaxEvals \in Nat
  BY KernelAssumptions DEF IInv, TypeOK, Preflight
<1>2. CASE /\ Runs(j) /\ ~jobs.cancel[j]
           /\ session' = [step |-> "trial", best |-> bench, evals |-> 0]
           /\ UNCHANGED <<jobs, task, lease, storeVars, scratch, jobSpecs, roots, spoiled>>
  <2>1. session' \in Session /\ session'.step = "trial"
    BY <1>1, <1>2 DEF Session, Steps
  <2>2. j \notin spoiled => needs[j] \subseteq staged[j] \ Broken
    BY <1>1, <1>2, OwnPackagesFound
  <2> QED
    BY <1>1, <1>2, <2>1, <2>2, SessionStep
<1>3. CASE ~(Runs(j) /\ ~jobs.cancel[j]) /\ BodyEnds(j, "succeeded") /\ UNCHANGED spoiled
  <2>1. ~jobs.cancel[j] /\ j \notin spoiled => ~(needs[j] \subseteq staged[j] \ Broken)
    BY <1>1, <1>3, OwnPackagesFound
  <2> QED
    BY <1>1, <1>3, <2>1, BodyEndsStep
<1>4. CASE BodyEnds(j, "succeeded") /\ spoiled' = spoiled \cup {j}
  BY <1>1, <1>4, BodyEndsStep
<1> QED
  BY <1>2, <1>3, <1>4 DEF Preflight

\* The event loop takes the body further.
LEMMA BodyStep ==
  ASSUME IInv, NEW j \in Jobs, ReconcileFails(j) \/ Returned(j) \/ Raised(j)
  PROVE  IInv'
<1>1. task[j] = "body" /\ bench \in Points /\ session.best \in Points
  BY DEF IInv, TypeOK, Session, ReconcileFails, Returned, Raised
<1>2. CASE ReconcileFails(j)
  BY <1>1, <1>2, BodyEndsStep DEF ReconcileFails
<1>3. CASE Returned(j)
  BY <1>1, <1>3, BodyEndsStep DEF Returned
<1>4. CASE Raised(j)
  <2>1. session.step = "raised" /\ j \in spoiled
    BY <1>1, <1>4, KernelsKnown DEF Raised, Optimizing
  <2> QED
    BY <1>1, <1>4, <2>1, BodyEndsStep DEF Raised
<1> QED
  BY <1>2, <1>3, <1>4

-----------------------------------------------------------------------------
LEMMA NextIInv == IInv /\ [Next]_vars => IInv'
<1> SUFFICES ASSUME IInv, [Next]_vars PROVE IInv'
  OBVIOUS
<1>1. ASSUME Sessions PROVE IInv'
  <2>1. CASE \E l \in Leases : Acquire(l) \/ Release(l) \/ Browse(l)
    BY <2>1, LeaseStep, ReleaseStep, BrowseStep
  <2>2. CASE \E l \in Leases, k \in Kernels : Register(l, k) \/ Delete(l, k)
    BY <2>2, RegisterStep, DeleteStep
  <2>3. CASE \E j \in Jobs : Cancel(j)
    BY <2>3, CancelStep
  <2>4. CASE \E j \in Jobs, ks \in SUBSET made, h \in given \cup {NoLease} :
               SubmitInline(j, ks, h) \/ SubmitFromLease(j, ks, h) \/ SubmitUnstaged(j, ks, h)
    BY <2>4, SubmissionStep
  <2> QED
    BY <1>1, <2>1, <2>2, <2>3, <2>4 DEF Sessions
<1>2. CASE Expire
  BY <1>2, LeaseStep
<1>3. ASSUME NEW j \in Jobs, RunnerStep(j) PROVE IInv'
  BY <1>3, RefusedStep, StartStep, PreflightStep, BodyStep, CleanupStep DEF RunnerStep
<1>4. ASSUME NEW j \in Jobs, SolverStep(j) \/ SessionRaises(j) PROVE IInv'
  BY <1>4, SolverGoesOn
<1>5. CASE UNCHANGED vars
  <2>1. Elsewhere(NoJob)
    BY <1>5 DEF vars, storeVars, jobSpecs, Elsewhere
  <2>2. \A j \in Jobs : JobSound(j)'
    BY <2>1, AllSound
  <2> QED
    BY <1>5, <2>2 DEF vars, storeVars, jobSpecs, IInv, TypeOK, Turns, SessionSound, Optimizing, RootsExist
<1> QED
  BY <1>1, <1>2, <1>3, <1>4, <1>5 DEF Next

LEMMA Invariance == Spec => []IInv
  BY InitIInv, NextIInv, PTL DEF Spec

\* The variables keep their types; in particular the solver makes MaxEvals
\* evaluations at most.
THEOREM TypeCorrect == Spec => []TypeOK
  BY Invariance, IInvImplies, PTL

\* No kernel is resolved from a directory that was purged, whatever requests and
\* jobs do to scratch directories and roots in between.
THEOREM RootsAreOnDisk == Spec => []RootsExist
  BY Invariance, IInvImplies, PTL

\* What a submit staged is in the job's scratch until the job's task is over, and
\* nothing of it after.
THEOREM ScratchLivesWithTask == Spec => []ScratchFollowsTask
  BY Invariance, IInvImplies, PTL

\* A job that succeeded with kernels that were staged and load, whose roots no
\* other step changed and whose session was not refused and did not raise, has the
\* result of its own session.
THEOREM ResultIsOwn == Spec => []OwnResult
  BY Invariance, IInvImplies, PTL

-----------------------------------------------------------------------------
\* An optimization ends with what the event loop does once its thread is done.
LEMMA OptimizationEnds ==
  ASSUME IInv, [Next]_vars, Optimizing, ~Optimizing', jobs.active \notin spoiled
  PROVE  bench' = session.best
<1>1. session' # session
  BY DEF Optimizing
<1>2. PICK j \in Jobs : RunnerStep(j) \/ SolverStep(j) \/ SessionRaises(j)
  <2>1. ~(UNCHANGED vars) /\ ~Expire
    BY <1>1 DEF vars, Expire
  <2>2. ~Sessions
    <3>1. \A l \in Leases : ~Acquire(l) /\ ~Release(l) /\ ~Browse(l)
      BY <1>1 DEF Acquire, Release, Browse
    <3>2. \A l \in Leases, k \in Kernels : ~Register(l, k) /\ ~Delete(l, k)
      BY <1>1 DEF Register, Delete
    <3>3. \A i \in Jobs : ~Cancel(i)
      BY <1>1 DEF Cancel
    <3>4. \A i \in Jobs, ks \in SUBSET made, h \in given \cup {NoLease} :
            ~SubmitInline(i, ks, h) /\ ~SubmitFromLease(i, ks, h) /\ ~SubmitUnstaged(i, ks, h)
      BY <1>1 DEF SubmitInline, SubmitFromLease, SubmitUnstaged, Stages
    <3> QED
      BY <3>1, <3>2, <3>3, <3>4 DEF Sessions
  <2> QED
    BY <2>1, <2>2 DEF Next
<1>3. ~(SolverStep(j) \/ SessionRaises(j))
  BY DEF SolverStep, Trial, Measure, SessionRaises, Stop, Optimizing, IInv, TypeOK, Session
<1>4. CASE RunnerStart(j)
  <2>1. task[j] = "pending" /\ lease = NoLease /\ jobs.active # NoJob
    BY <1>4 DEF RunnerStart, IInv, SessionSound
  <2>2. jobs.active \in Jobs /\ task[jobs.active] = "body"
    BY <2>1 DEF IInv, TypeOK, JobTable, Turns
  <2> QED
    BY <2>1, <2>2, KernelAssumptions DEF IInv, Turns
<1>5. CASE Returned(j)
  BY <1>5 DEF Returned
<1>6. CASE Raised(j)
  BY <1>6, KernelsKnown, BodyFacts DEF Raised, Optimizing
<1>7. ~ReconcileFails(j) /\ ~Preflight(j) /\ ~RunnerRefused(j) /\ ~Cleanup(j)
  BY <1>1 DEF ReconcileFails, Preflight, RunnerRefused, Cleanup, Optimizing
<1> QED
  BY <1>2, <1>3, <1>4, <1>5, <1>6, <1>7 DEF RunnerStep

\* An optimization that does not raise by itself and whose roots are left alone
\* leaves the bench at its best point, aborted or not.
THEOREM BestPointIsSet == Spec => EndsAtBest
<1>1. IInv /\ [Next]_vars =>
        [Optimizing /\ ~Optimizing' /\ jobs.active \notin spoiled => bench' = session.best]_vars
  BY OptimizationEnds
<1> QED
  BY <1>1, Invariance, PTL DEF Spec, EndsAtBest

=============================================================================
