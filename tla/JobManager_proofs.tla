-------------------------- MODULE JobManager_proofs --------------------------
(***************************************************************************)
(* The methods of the job table, for every set of jobs: each of them keeps *)
(* the table sound, takes no job back into the set of jobs no worker may   *)
(* have, and revives no finished job.  Who calls them when is the subject  *)
(* of JobSystem_proofs and KernelJobs_proofs.                              *)
(***************************************************************************)
EXTENDS JobManager, SequenceTheorems, TLAPS

\* The jobs waiting in the queue, and those nobody has worked on so far.
Queued(t) == {t.queue[i] : i \in DOMAIN t.queue}
Fresh(t) == Queued(t) \cup {j \in Jobs : t.status[j] = "none"}

\* The queue holds queued jobs, each once; the active job runs.
TableSound(t) ==
  /\ t \in JobTable
  /\ IsInjective(t.queue)
  /\ \A i \in DOMAIN t.queue : t.status[t.queue[i]] = "queued"
  /\ t.active # NoJob => t.status[t.active] = "running"

\* What every call does to a sound table.
TableStep(t, u) ==
  /\ TableSound(u)
  /\ Fresh(u) \subseteq Fresh(t)
  /\ \A j \in Jobs : t.status[j] \in Terminal => u.status[j] \in Terminal

LEMMA TableStepTransitive ==
  ASSUME NEW t, NEW u, NEW v, TableStep(t, u), TableStep(u, v)
  PROVE  TableStep(t, v)
  BY DEF TableStep

LEMMA TableStepReflexive ==
  ASSUME NEW t, TableSound(t)
  PROVE  TableStep(t, t)
  BY DEF TableStep

\* The fresh jobs are jobs.
LEMMA FreshAreJobs == ASSUME NEW t, TableSound(t) PROVE Fresh(t) \subseteq Jobs
  BY DEF Fresh, Queued, TableSound, JobTable

\* A new table is sound.
LEMMA EmptySound == TableSound(EmptyTable)
  BY JobAssumption DEF TableSound, EmptyTable, JobTable, Status, IsInjective

\* Updates of some of the attributes keep the table typed.
LEMMA StatusQueueUpdate ==
  ASSUME NEW t \in JobTable, NEW st \in [Jobs -> Status], NEW q \in Seq(Jobs)
  PROVE  [t EXCEPT !.status = st, !.queue = q] \in JobTable
  BY DEF JobTable

LEMMA StatusActiveUpdate ==
  ASSUME NEW t \in JobTable, NEW st \in [Jobs -> Status], NEW a \in Jobs \cup {NoJob},
         NEW b \in BOOLEAN
  PROVE  /\ [t EXCEPT !.status = st, !.active = a, !.scheduled = b] \in JobTable
         /\ [t EXCEPT !.status = st, !.active = a] \in JobTable
  BY DEF JobTable

LEMMA WholeUpdate ==
  ASSUME NEW t \in JobTable, NEW st \in [Jobs -> Status], NEW c \in [Jobs -> BOOLEAN],
         NEW q \in Seq(Jobs), NEW a \in Jobs \cup {NoJob}, NEW b \in BOOLEAN
  PROVE  [t EXCEPT !.status = st, !.cancel = c, !.queue = q, !.active = a, !.scheduled = b]
           \in JobTable
  BY DEF JobTable

-----------------------------------------------------------------------------
\* submit() appends an id that is not in the queue yet.
LEMMA SubmittedStep ==
  ASSUME NEW t, TableSound(t), NEW j \in Jobs, t.status[j] = "none"
  PROVE  TableStep(t, Submitted(t, j))
<1> DEFINE u == Submitted(t, j)
<1>1. /\ t.status \in [Jobs -> Status] /\ t.cancel \in [Jobs -> BOOLEAN] /\ t.queue \in Seq(Jobs)
      /\ t.active \in Jobs \cup {NoJob} /\ t.scheduled \in BOOLEAN
  BY DEF TableSound, JobTable
<1>2. /\ u.status = [t.status EXCEPT ![j] = "queued"] /\ u.queue = Append(t.queue, j)
      /\ u.active = t.active
      /\ u \in JobTable
  <2>1. u.status = [t.status EXCEPT ![j] = "queued"]
    BY <1>1 DEF TableSound, JobTable, Submitted
  <2>2. u.queue = Append(t.queue, j) /\ u.active = t.active
        /\ u.cancel = t.cancel /\ u.scheduled = t.scheduled
    BY <1>1 DEF TableSound, JobTable, Submitted
  <2>3. u \in JobTable
    <3>1. [t.status EXCEPT ![j] = "queued"] \in [Jobs -> Status] /\ Append(t.queue, j) \in Seq(Jobs)
      BY <1>1 DEF Status
    <3> QED
      BY <3>1, StatusQueueUpdate DEF TableSound, Submitted
  <2> QED
    BY <2>1, <2>2, <2>3
<1>3. /\ DOMAIN u.queue = 1..(Len(t.queue) + 1) /\ DOMAIN t.queue = 1..Len(t.queue)
      /\ Len(t.queue) \in Nat
      /\ \A i \in 1..Len(t.queue) : u.queue[i] = t.queue[i]
      /\ u.queue[Len(t.queue) + 1] = j
  BY <1>1, <1>2
<1>4. \A i \in DOMAIN t.queue : t.queue[i] # j /\ t.queue[i] \in Jobs
  BY <1>1 DEF TableSound
<1>5. IsInjective(u.queue)
  BY <1>3, <1>4 DEF TableSound, IsInjective
<1>6. \A i \in DOMAIN u.queue : u.status[u.queue[i]] = "queued"
  BY <1>1, <1>2, <1>3, <1>4 DEF TableSound
<1>7. u.active # NoJob => u.status[u.active] = "running"
  BY <1>1, <1>2 DEF TableSound
<1>8. Queued(u) \subseteq Queued(t) \cup {j}
  BY <1>3 DEF Queued
<1>9. Fresh(u) \subseteq Fresh(t)
  BY <1>1, <1>2, <1>8 DEF Fresh
<1> HIDE DEF u
<1> QED
  BY <1>1, <1>2, <1>5, <1>6, <1>7, <1>9 DEF TableStep, TableSound, Terminal, u

\* In a sound table pop_next_queued and claim_next_queued take the head.
LEMMA NextIsHead ==
  ASSUME NEW t, TableSound(t)
  PROVE  /\ t.queue # <<>> => FirstQueued(t) = 1
         /\ t.queue = <<>> => FirstQueued(t) = 0
         /\ NextQueued(t) = IF t.active # NoJob \/ t.queue = <<>> THEN NoJob ELSE t.queue[1]
<1>1. t.queue \in Seq(Jobs) /\ DOMAIN t.queue = 1..Len(t.queue) /\ Len(t.queue) \in Nat
  BY DEF TableSound, JobTable
<1> DEFINE I == {i \in 1..Len(t.queue) : t.status[t.queue[i]] = "queued"}
<1>2. FirstQueued(t) = IF I # {} THEN Min(I) ELSE 0
  BY DEF FirstQueued, SelectInSeq
<1>3. I = 1..Len(t.queue)
  BY <1>1 DEF TableSound
<1>4. ASSUME t.queue # <<>> PROVE FirstQueued(t) = 1
  <2>1. 1 \in I /\ \A i \in I : 1 =< i
    BY <1>1, <1>3, <1>4
  <2>2. Min(I) \in I /\ \A i \in I : Min(I) =< i
    BY <2>1 DEF Min
  <2>3. Min(I) = 1
    BY <2>1, <2>2, <1>1, <1>3
  <2> QED
    BY <1>2, <2>1, <2>3
<1>5. ASSUME t.queue = <<>> PROVE FirstQueued(t) = 0
  <2>1. I = {}
    BY <1>1, <1>3, <1>5
  <2> QED
    BY <1>2, <2>1
<1> QED
  BY <1>4, <1>5 DEF NextQueued

\* A pop takes the next job out of the queue, and touches nothing else.
LEMMA PoppedStep ==
  ASSUME NEW t, TableSound(t)
  PROVE  /\ TableStep(t, Popped(t))
         /\ Popped(t).status = t.status /\ Popped(t).active = t.active
         /\ NextQueued(t) # NoJob =>
              /\ t.active = NoJob
              /\ NextQueued(t) \in Queued(t) /\ NextQueued(t) \in Jobs
              /\ t.status[NextQueued(t)] = "queued"
              /\ NextQueued(t) \notin Queued(Popped(t))
<1> DEFINE u == Popped(t)
<1>1. /\ t.status \in [Jobs -> Status] /\ t.cancel \in [Jobs -> BOOLEAN] /\ t.queue \in Seq(Jobs)
      /\ t.active \in Jobs \cup {NoJob} /\ t.scheduled \in BOOLEAN
      /\ DOMAIN t.queue = 1..Len(t.queue) /\ Len(t.queue) \in Nat
  BY DEF TableSound, JobTable
<1>2. CASE t.active # NoJob
  BY <1>2, TableStepReflexive DEF Popped, NextQueued
<1>3. CASE t.active = NoJob /\ t.queue = <<>>
  <2>1. FirstQueued(t) = 0 /\ NextQueued(t) = NoJob
    BY <1>3, NextIsHead
  <2>2. u = [t EXCEPT !.queue = <<>>]
    BY <1>3, <2>1 DEF Popped
  <2>3. u = t
    BY <1>3, <2>2 DEF TableSound, JobTable
  <2> QED
    BY <2>1, <2>3, TableStepReflexive
<1>4. CASE t.active = NoJob /\ t.queue # <<>>
  <2>1. FirstQueued(t) = 1 /\ NextQueued(t) = t.queue[1] /\ Len(t.queue) >= 1
    BY <1>1, <1>4, NextIsHead
  <2>2. u = [t EXCEPT !.queue = SubSeq(t.queue, 2, Len(t.queue))]
    BY <1>4, <2>1 DEF Popped
  <2>3. /\ u.status = t.status /\ u.active = t.active
        /\ u.queue = SubSeq(t.queue, 2, Len(t.queue))
    BY <2>2 DEF TableSound, JobTable
  <2>4. /\ u.queue \in Seq(Jobs)
        /\ DOMAIN u.queue = 1..(Len(t.queue) - 1)
        /\ \A i \in 1..(Len(t.queue) - 1) : u.queue[i] = t.queue[i + 1]
    BY <1>1, <2>1, <2>3
  <2>5. u \in JobTable
    BY <1>1, <2>2, <2>3, <2>4 DEF TableSound, JobTable
  <2>6. IsInjective(u.queue)
    <3> SUFFICES ASSUME NEW a \in DOMAIN u.queue, NEW b \in DOMAIN u.queue,
                        u.queue[a] = u.queue[b]
                 PROVE  a = b
      BY DEF IsInjective
    <3>0. a \in 1..(Len(t.queue) - 1) /\ b \in 1..(Len(t.queue) - 1)
      BY <2>4
    <3>1. a + 1 \in DOMAIN t.queue /\ b + 1 \in DOMAIN t.queue /\ t.queue[a + 1] = t.queue[b + 1]
      <4>1. a + 1 \in 1..Len(t.queue) /\ b + 1 \in 1..Len(t.queue)
        BY <1>1, <3>0
      <4>2. u.queue[a] = t.queue[a + 1] /\ u.queue[b] = t.queue[b + 1]
        BY <2>4, <3>0
      <4> QED
        BY <1>1, <4>1, <4>2
    <3>2. a + 1 = b + 1
      BY <3>1 DEF TableSound, IsInjective
    <3> QED
      BY <2>4, <3>2
  <2>7. ASSUME NEW i \in DOMAIN u.queue
        PROVE  u.status[u.queue[i]] = "queued"
    <3>1. i + 1 \in DOMAIN t.queue /\ u.queue[i] = t.queue[i + 1]
      BY <1>1, <2>1, <2>4
    <3>2. t.status[t.queue[i + 1]] = "queued"
      BY <3>1 DEF TableSound
    <3> QED
      BY <2>3, <3>1, <3>2
  <2>8. Queued(u) \subseteq Queued(t)
    <3> SUFFICES ASSUME NEW i \in DOMAIN u.queue PROVE u.queue[i] \in Queued(t)
      BY DEF Queued
    <3>1. i + 1 \in DOMAIN t.queue /\ u.queue[i] = t.queue[i + 1]
      BY <1>1, <2>1, <2>4
    <3> QED
      BY <3>1 DEF Queued
  <2>9. t.queue[1] \notin Queued(u)
    <3> SUFFICES ASSUME NEW i \in DOMAIN u.queue, u.queue[i] = t.queue[1] PROVE FALSE
      BY DEF Queued
    <3>1. i + 1 \in DOMAIN t.queue /\ 1 \in DOMAIN t.queue /\ t.queue[i + 1] = t.queue[1]
      BY <1>1, <2>1, <2>4
    <3>2. i + 1 = 1
      BY <3>1 DEF TableSound, IsInjective
    <3> QED
      BY <2>4, <3>2
  <2>10. TableStep(t, u)
    BY <1>4, <2>3, <2>5, <2>6, <2>7, <2>8 DEF TableStep, TableSound, Fresh
  <2>11. t.queue[1] \in Queued(t) /\ t.queue[1] \in Jobs /\ t.status[t.queue[1]] = "queued"
    BY <1>1, <2>1 DEF Queued, TableSound
  <2> QED
    BY <1>4, <2>1, <2>3, <2>9, <2>10, <2>11
<1> QED
  BY <1>1, <1>2, <1>3, <1>4

\* A status update of one job that is neither queued nor finished before, nor
\* active afterwards unless it runs, and leaves the queue alone.
LEMMA StatusStep ==
  ASSUME NEW t, TableSound(t), NEW u \in JobTable, NEW j \in Jobs \ Queued(t),
         NEW s \in Status \ {"none"},
         t.status[j] \in Terminal => s \in Terminal,
         u.status = [t.status EXCEPT ![j] = s], u.queue = t.queue,
         u.active # NoJob => u.status[u.active] = "running"
  PROVE  TableStep(t, u)
<1>1. t.status \in [Jobs -> Status] /\ t.queue \in Seq(Jobs)
  BY DEF TableSound, JobTable
<1>2. \A i \in DOMAIN t.queue : t.queue[i] # j /\ t.queue[i] \in Jobs
  BY <1>1 DEF Queued
<1>3. TableSound(u)
  BY <1>1, <1>2 DEF TableSound
<1>4. Fresh(u) \subseteq Fresh(t)
  BY <1>1 DEF Fresh, Queued
<1> QED
  BY <1>1, <1>3, <1>4 DEF TableStep

\* claim_next_queued: the claimed job was fresh and no longer is.
LEMMA ClaimedStep ==
  ASSUME NEW t, TableSound(t)
  PROVE  /\ TableStep(t, Claimed(t))
         /\ NextQueued(t) # NoJob =>
              NextQueued(t) \in Fresh(t) \ Fresh(Claimed(t)) /\ NextQueued(t) \in Jobs
<1> DEFINE j == NextQueued(t)
           p == Popped(t)
           u == Claimed(t)
<1>1. CASE j = NoJob
  BY <1>1, PoppedStep DEF Claimed
<1>2. CASE j # NoJob
  <2>1. /\ TableStep(t, p) /\ TableSound(p) /\ p \in JobTable
        /\ p.status = t.status /\ p.active = NoJob
        /\ j \in Jobs \ Queued(p) /\ j \in Queued(t) /\ p.status[j] = "queued"
    BY <1>2, PoppedStep DEF TableStep, TableSound
  <2> HIDE DEF p, j
  <2>2. u = [p EXCEPT !.status = [p.status EXCEPT ![j] = "running"], !.active = j,
                      !.scheduled = TRUE]
    BY <1>2 DEF Claimed, p, j
  <2> HIDE DEF u
  <2>3. [p.status EXCEPT ![j] = "running"] \in [Jobs -> Status]
    BY <2>1 DEF JobTable, Status
  <2>4. u \in JobTable
    BY <2>1, <2>2, <2>3, StatusActiveUpdate
  <2>5. u.status = [p.status EXCEPT ![j] = "running"] /\ u.queue = p.queue /\ u.active = j
    BY <2>1, <2>2 DEF JobTable
  <2>6. TableStep(p, u)
    BY <2>1, <2>4, <2>5, StatusStep DEF Status, Terminal, JobTable
  <2>7. TableStep(t, u)
    BY <2>1, <2>6, TableStepTransitive
  <2>8. j \notin Fresh(u)
    BY <2>1, <2>5 DEF Fresh, Queued, JobTable
  <2> QED
    BY <2>1, <2>7, <2>8 DEF u, j, Fresh
<1> QED
  BY <1>1, <1>2

\* mark_running: only of a job that was popped before.
LEMMA MarkedRunningStep ==
  ASSUME NEW t, TableSound(t), NEW j \in Jobs \ Queued(t), MayRun(t, j)
  PROVE  TableStep(t, MarkedRunning(t, j))
<1> DEFINE u == MarkedRunning(t, j)
<1>1. t \in JobTable /\ t.status[j] = "queued" /\ t.status \in [Jobs -> Status]
  BY DEF TableSound, MayRun, JobTable
<1>2. [t.status EXCEPT ![j] = "running"] \in [Jobs -> Status]
  BY <1>1 DEF Status
<1>3. u \in JobTable
  BY <1>1, <1>2, StatusActiveUpdate DEF MarkedRunning
<1>4. u.status = [t.status EXCEPT ![j] = "running"] /\ u.queue = t.queue /\ u.active = j
  BY <1>1 DEF MarkedRunning, JobTable
<1> HIDE DEF u
<1> QED
  BY <1>1, <1>3, <1>4, StatusStep DEF Status, Terminal, u

\* complete(): whatever the status of the job, but it must not be in the queue.
LEMMA CompletedStep ==
  ASSUME NEW t, TableSound(t), NEW j \in Jobs \ Queued(t), NEW s \in Terminal
  PROVE  TableStep(t, Completed(t, j, s))
<1> DEFINE u == Completed(t, j, s)
           a == IF t.active = j THEN NoJob ELSE t.active
<1>1. t \in JobTable /\ t.status \in [Jobs -> Status] /\ t.active \in Jobs \cup {NoJob}
  BY DEF TableSound, JobTable
<1>2. [t.status EXCEPT ![j] = s] \in [Jobs -> Status] /\ a \in Jobs \cup {NoJob}
  BY <1>1 DEF Status
<1>3. u = [t EXCEPT !.status = [t.status EXCEPT ![j] = s], !.active = a, !.scheduled = FALSE]
  BY DEF Completed
<1> HIDE DEF a, u
<1>4. u \in JobTable
  BY <1>1, <1>2, <1>3, StatusActiveUpdate
<1>5. u.status = [t.status EXCEPT ![j] = s] /\ u.queue = t.queue /\ u.active = a
  BY <1>1, <1>3 DEF JobTable
<1>6. u.active # NoJob => u.active # j /\ u.active = t.active /\ u.active \in Jobs
  BY <1>1, <1>5 DEF a
<1>7. u.active # NoJob => u.status[u.active] = "running"
  BY <1>1, <1>5, <1>6 DEF TableSound
<1>8. s \in Status \ {"none"}
  BY DEF Status, Terminal
<1>9. TableStep(t, u)
  BY <1>4, <1>5, <1>7, <1>8, StatusStep
<1> QED
  BY <1>9 DEF u

\* note_runner_scheduled
LEMMA NotedStep ==
  ASSUME NEW t, TableSound(t), NEW b \in BOOLEAN
  PROVE  TableStep(t, NotedScheduled(t, b)) /\ NotedScheduled(t, b).queue = t.queue
<1> DEFINE u == NotedScheduled(t, b)
<1>1. /\ u \in JobTable
      /\ u.status = t.status /\ u.queue = t.queue /\ u.active = t.active
  BY DEF TableSound, JobTable, NotedScheduled
<1> HIDE DEF u
<1> QED
  BY <1>1 DEF TableStep, TableSound, Fresh, Queued, u

\* Removing an id from a queue that holds it at most once.
LEMMA RemoveFirstFact ==
  ASSUME NEW q \in Seq(Jobs), IsInjective(q), NEW j \in Jobs
  PROVE  /\ RemoveFirst(q, j) \in Seq(Jobs)
         /\ IsInjective(RemoveFirst(q, j))
         /\ \A i \in DOMAIN RemoveFirst(q, j) :
              /\ RemoveFirst(q, j)[i] # j
              /\ \E k \in DOMAIN q : q[k] = RemoveFirst(q, j)[i]
         /\ \A k \in DOMAIN q : q[k] # j => \E i \in DOMAIN RemoveFirst(q, j) : RemoveFirst(q, j)[i] = q[k]
<1> DEFINE n == Len(q)
           r == RemoveFirst(q, j)
<1>1. n \in Nat /\ DOMAIN q = 1..n
  OBVIOUS
<1>2. CASE \A i \in 1..n : q[i] # j
  BY <1>1, <1>2 DEF RemoveFirst
<1>3. ASSUME NEW k \in 1..n, q[k] = j
      PROVE  /\ r \in Seq(Jobs)
             /\ IsInjective(r)
             /\ \A i \in DOMAIN r : r[i] # j /\ \E h \in DOMAIN q : q[h] = r[i]
             /\ \A h \in DOMAIN q : q[h] # j => \E i \in DOMAIN r : r[i] = q[h]
  <2>1. {i \in 1..n : q[i] = j} = {k}
    BY <1>1, <1>3 DEF IsInjective
  <2>2. Min({k}) = k
    BY <1>3 DEF Min
  <2>3. SelectInSeq(q, LAMBDA v : v = j) = k
    BY <2>1, <2>2 DEF SelectInSeq
  <2>4. r = SubSeq(q, 1, k - 1) \o SubSeq(q, k + 1, n)
    BY <1>3, <2>3 DEF RemoveFirst, RemoveAt
  <2>5. /\ SubSeq(q, 1, k - 1) \in Seq(Jobs) /\ Len(SubSeq(q, 1, k - 1)) = k - 1
        /\ \A i \in 1..(k - 1) : SubSeq(q, 1, k - 1)[i] = q[i]
    BY <1>1, <1>3
  <2>6. /\ SubSeq(q, k + 1, n) \in Seq(Jobs) /\ Len(SubSeq(q, k + 1, n)) = n - k
        /\ \A i \in 1..(n - k) : SubSeq(q, k + 1, n)[i] = q[k + i]
    BY <1>1, <1>3
  <2> HIDE DEF r
  <2>7. /\ r \in Seq(Jobs) /\ Len(r) = n - 1 /\ DOMAIN r = 1..(n - 1)
        /\ \A i \in 1..(n - 1) : r[i] = IF i < k THEN q[i] ELSE q[i + 1]
    <3> DEFINE s1 == SubSeq(q, 1, k - 1)
               s2 == SubSeq(q, k + 1, n)
    <3>1. s1 \in Seq(Jobs) /\ s2 \in Seq(Jobs) /\ Len(s1) = k - 1 /\ Len(s2) = n - k
      BY <2>5, <2>6
    <3>2. r = s1 \o s2
      BY <2>4
    <3> HIDE DEF s1, s2
    <3>3. r \in Seq(Jobs) /\ Len(r) = n - 1 /\ DOMAIN r = 1..(n - 1)
      <4>1. r \in Seq(Jobs) /\ Len(r) = Len(s1) + Len(s2)
        BY <3>1, <3>2, ConcatProperties
      <4>2. Len(r) = n - 1
        BY <1>1, <1>3, <3>1, <4>1
      <4>3. DOMAIN r = 1..Len(r)
        BY <4>1
      <4> QED
        BY <4>1, <4>2, <4>3
    <3>4. ASSUME NEW i \in 1..(n - 1), i < k PROVE r[i] = q[i]
      <4>1. i \in 1..(k - 1) /\ r[i] = s1[i]
        BY <1>1, <1>3, <3>1, <3>2, <3>4
      <4> QED
        BY <2>5, <4>1 DEF s1
    <3>5. ASSUME NEW i \in 1..(n - 1), ~(i < k) PROVE r[i] = q[i + 1]
      <4>1. i - (k - 1) \in 1..(n - k) /\ r[i] = s2[i - (k - 1)] /\ k + (i - (k - 1)) = i + 1
        BY <1>1, <1>3, <3>1, <3>2, <3>5
      <4> QED
        BY <2>6, <4>1 DEF s2
    <3> QED
      BY <3>3, <3>4, <3>5
  <2>8. \A i \in DOMAIN r : r[i] # j /\ \E h \in DOMAIN q : q[h] = r[i]
    <3> SUFFICES ASSUME NEW i \in 1..(n - 1)
                 PROVE  r[i] # j /\ \E h \in DOMAIN q : q[h] = r[i]
      BY <2>7
    <3>1. CASE i < k
      <4>1. i \in DOMAIN q /\ i # k /\ k \in DOMAIN q /\ r[i] = q[i]
        BY <1>1, <1>3, <2>7, <3>1
      <4> QED
        BY <1>3, <4>1 DEF IsInjective
    <3>2. CASE ~(i < k)
      <4>1. i + 1 \in DOMAIN q /\ i + 1 # k /\ r[i] = q[i + 1]
        BY <1>1, <1>3, <2>7, <3>2
      <4> QED
        BY <1>1, <1>3, <4>1 DEF IsInjective
    <3> QED
      BY <3>1, <3>2
  <2>9. IsInjective(r)
    <3> DEFINE old(i) == IF i < k THEN i ELSE i + 1
    <3> SUFFICES ASSUME NEW a \in 1..(n - 1), NEW b \in 1..(n - 1), r[a] = r[b]
                 PROVE  a = b
      BY <2>7 DEF IsInjective
    <3>1. old(a) \in DOMAIN q /\ old(b) \in DOMAIN q /\ q[old(a)] = q[old(b)]
      BY <1>1, <1>3, <2>7
    <3>2. old(a) = old(b)
      BY <3>1 DEF IsInjective
    <3> QED
      BY <1>1, <1>3, <3>2
  <2>10. ASSUME NEW h \in 1..n, q[h] # j PROVE \E i \in DOMAIN r : r[i] = q[h]
    <3>1. CASE h < k
      <4>1. h \in 1..(n - 1) /\ r[h] = q[h]
        BY <1>1, <1>3, <2>7, <3>1
      <4> QED
        BY <2>7, <4>1
    <3>2. CASE h > k
      <4>1. h - 1 \in 1..(n - 1) /\ ~(h - 1 < k) /\ (h - 1) + 1 = h
        BY <1>1, <1>3, <2>10, <3>2
      <4>2. r[h - 1] = q[h]
        BY <2>7, <4>1
      <4> QED
        BY <2>7, <4>1, <4>2
    <3> QED
      BY <1>3, <2>10, <3>1, <3>2
  <2> QED
    BY <1>1, <2>7, <2>8, <2>9, <2>10
<1> QED
  BY <1>2, <1>3

\* request_cancel, in each of its three cases.
LEMMA CancelRequestedStep ==
  ASSUME NEW t, TableSound(t), NEW j \in Jobs, t.status[j] # "none"
  PROVE  TableStep(t, CancelRequested(t, j))
<1> DEFINE u == CancelRequested(t, j)
<1>1. /\ t \in JobTable /\ t.status \in [Jobs -> Status] /\ t.queue \in Seq(Jobs)
      /\ t.cancel \in [Jobs -> BOOLEAN]
      /\ DOMAIN t.queue = 1..Len(t.queue) /\ Len(t.queue) \in Nat
  BY DEF TableSound, JobTable
<1>2. CASE t.status[j] = "running"
  <2> DEFINE k == [t.cancel EXCEPT ![j] = TRUE]
  <2>1. u = [t EXCEPT !.cancel = k]
    BY <1>2 DEF CancelRequested
  <2>2. k \in [Jobs -> BOOLEAN]
    BY <1>1
  <2> HIDE DEF k
  <2>3. u \in JobTable /\ u.status = t.status /\ u.queue = t.queue /\ u.active = t.active
    BY <1>1, <2>1, <2>2 DEF JobTable
  <2> HIDE DEF u
  <2>4. TableSound(u)
    BY <2>3 DEF TableSound
  <2>5. Fresh(u) = Fresh(t)
    BY <2>3 DEF Fresh, Queued
  <2>6. TableStep(t, u)
    BY <2>3, <2>4, <2>5 DEF TableStep
  <2> QED
    BY <2>6 DEF u
<1>3. CASE t.status[j] \in Terminal
  BY <1>3, TableStepReflexive DEF CancelRequested, Terminal
<1>4. CASE t.status[j] = "queued"
  <2> DEFINE r == RemoveFirst(t.queue, j)
             st == [t.status EXCEPT ![j] = "cancelled"]
  <2>1. u = [t EXCEPT !.status = st, !.queue = r]
    BY <1>4 DEF CancelRequested
  <2>2. /\ r \in Seq(Jobs) /\ IsInjective(r)
        /\ \A i \in DOMAIN r : r[i] \in Queued(t) /\ r[i] # j
    <3>1. IsInjective(t.queue)
      BY DEF TableSound
    <3>2. /\ r \in Seq(Jobs) /\ IsInjective(r)
          /\ \A i \in DOMAIN r : r[i] # j /\ \E k \in DOMAIN t.queue : t.queue[k] = r[i]
      BY <1>1, <3>1, RemoveFirstFact
    <3> HIDE DEF r
    <3> QED
      BY <3>2 DEF Queued
  <2>3. st \in [Jobs -> Status]
    BY <1>1 DEF Status, Terminal
  <2> HIDE DEF r, u
  <2>4. u \in JobTable
    BY <1>1, <2>1, <2>2, <2>3, StatusQueueUpdate
  <2>5. u.status = st /\ u.queue = r /\ u.active = t.active
    BY <1>1, <2>1 DEF JobTable
  <2>6. \A i \in DOMAIN u.queue : u.status[u.queue[i]] = "queued"
    BY <1>1, <2>2, <2>5 DEF TableSound, Queued
  <2>7. u.active # NoJob => u.status[u.active] = "running"
    BY <1>1, <1>4, <2>5 DEF TableSound, JobTable
  <2>8. Queued(u) \subseteq Queued(t)
    BY <2>2, <2>5 DEF Queued
  <2>9. Fresh(u) \subseteq Fresh(t)
    BY <1>1, <2>5, <2>8 DEF Fresh
  <2> QED
    BY <1>1, <2>2, <2>4, <2>5, <2>6, <2>7, <2>9 DEF TableStep, TableSound, Terminal, u
<1> QED
  BY <1>1, <1>2, <1>3, <1>4 DEF Status

\* fail_open_work leaves an empty queue and no open job.
LEMMA FailedOpenStep ==
  ASSUME NEW t, TableSound(t)
  PROVE  /\ TableStep(t, FailedOpen(t))
         /\ FailedOpen(t).queue = <<>>
         /\ \A j \in Jobs : ~Open(FailedOpen(t), j)
<1> DEFINE u == FailedOpen(t)
           st == [j \in Jobs |-> IF Open(t, j) THEN "failed" ELSE t.status[j]]
           c == [j \in Jobs |-> t.cancel[j] \/ Open(t, j)]
<1>1. /\ t \in JobTable /\ t.status \in [Jobs -> Status] /\ t.cancel \in [Jobs -> BOOLEAN]
  BY DEF TableSound, JobTable
<1>2. /\ st \in [Jobs -> Status]
      /\ \A j \in Jobs : st[j] \notin {"queued", "running"}
      /\ \A j \in Jobs : st[j] = "none" => t.status[j] = "none"
      /\ \A j \in Jobs : t.status[j] \in Terminal => st[j] \in Terminal
  BY <1>1 DEF Status, Terminal, Open
<1>3. c \in [Jobs -> BOOLEAN]
  OBVIOUS
<1>4. u = [t EXCEPT !.status = st, !.cancel = c, !.queue = <<>>, !.active = NoJob, !.scheduled = FALSE]
  BY DEF FailedOpen
<1> HIDE DEF st, c, u
<1>5. u \in JobTable
  <2>1. <<>> \in Seq(Jobs) /\ NoJob \in Jobs \cup {NoJob} /\ FALSE \in BOOLEAN
    OBVIOUS
  <2> QED
    BY <1>1, <1>2, <1>3, <1>4, <2>1, WholeUpdate
<1>6. u.status = st /\ u.queue = <<>> /\ u.active = NoJob
  BY <1>1, <1>4 DEF JobTable
<1>7. TableSound(u)
  BY <1>5, <1>6 DEF TableSound, IsInjective
<1>8. Fresh(u) \subseteq Fresh(t)
  BY <1>2, <1>6 DEF Fresh, Queued
<1> QED
  BY <1>2, <1>6, <1>7, <1>8 DEF TableStep, Open, u

-----------------------------------------------------------------------------
\* Which status and which active job a method leaves.
LEMMA SubmittedStatus ==
  ASSUME NEW t \in JobTable, NEW j \in Jobs
  PROVE  /\ Submitted(t, j).status = [t.status EXCEPT ![j] = "queued"]
         /\ Submitted(t, j).active = t.active
  BY DEF JobTable, Submitted

LEMMA MarkedRunningStatus ==
  ASSUME NEW t \in JobTable, NEW j \in Jobs
  PROVE  /\ MarkedRunning(t, j).status = [t.status EXCEPT ![j] = "running"]
         /\ MarkedRunning(t, j).active = j
  BY DEF JobTable, MarkedRunning

LEMMA CompletedStatus ==
  ASSUME NEW t \in JobTable, NEW j \in Jobs, NEW s \in Terminal
  PROVE  /\ Completed(t, j, s).status = [t.status EXCEPT ![j] = s]
         /\ Completed(t, j, s).active = IF t.active = j THEN NoJob ELSE t.active
  BY DEF JobTable, Completed

LEMMA NotedStatus ==
  ASSUME NEW t \in JobTable, NEW b \in BOOLEAN
  PROVE  NotedScheduled(t, b).status = t.status /\ NotedScheduled(t, b).active = t.active
  BY DEF JobTable, NotedScheduled

\* A cancel makes a queued job "cancelled" and leaves every other status alone.
LEMMA CancelledStatus ==
  ASSUME NEW t \in JobTable, NEW j \in Jobs
  PROVE  /\ CancelRequested(t, j).active = t.active
         /\ \/ CancelRequested(t, j).status = t.status
            \/ CancelRequested(t, j).status = [t.status EXCEPT ![j] = "cancelled"]
  BY DEF JobTable, CancelRequested

=============================================================================
