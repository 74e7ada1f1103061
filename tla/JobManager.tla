----------------------------- MODULE JobManager -----------------------------
(***************************************************************************)
(* backend/lab_model/coordinator/jobs/job_manager.py: the job table of one *)
(* backend.                                                                *)
(*                                                                         *)
(* A value of the table is the record the manager's attributes make up.    *)
(* Each method runs under the manager's lock and calls nothing back, so it *)
(* is an operator from the table before the call to the table after it;    *)
(* module JobSystem composes them into the atomic sections of the HTTP     *)
(* handlers, the job runner and the edge agents.  Specs, results, errors   *)
(* and progress are not modelled: no method decides anything by them.      *)
(***************************************************************************)
EXTENDS SequencesExt

CONSTANTS
  Jobs,         \* job ids
  NoJob         \* None

ASSUME JobAssumption == NoJob \notin Jobs

Terminal == {"succeeded", "failed", "cancelled"}
\* "none": the id is not a key of _by_id yet.
Status == {"none", "queued", "running"} \cup Terminal

JobTable == [status    : [Jobs -> Status],      \* JobRecord.status
             cancel    : [Jobs -> BOOLEAN],     \* JobRecord.cancel_requested
             queue     : Seq(Jobs),             \* _queue
             active    : Jobs \cup {NoJob},     \* _active_job_id
             scheduled : BOOLEAN]               \* _runner_scheduled

EmptyTable == [status    |-> [j \in Jobs |-> "none"],
               cancel    |-> [j \in Jobs |-> FALSE],
               queue     |-> <<>>,
               active    |-> NoJob,
               scheduled |-> FALSE]

Open(t, j) == t.status[j] \in {"queued", "running"}

-----------------------------------------------------------------------------
\* submit: j is a fresh uuid.
Submitted(t, j) == [t EXCEPT !.status[j] = "queued", !.queue = Append(@, j)]

\* The position of the first entry of _queue that is still queued, 0 if none.
FirstQueued(t) == SelectInSeq(t.queue, LAMBDA j : t.status[j] = "queued")

\* The job that pop_next_queued and claim_next_queued return: entries before it
\* are thrown away with it, and none is returned while a job is active.
NextQueued(t) ==
  IF t.active # NoJob \/ FirstQueued(t) = 0 THEN NoJob ELSE t.queue[FirstQueued(t)]

\* Faulty: the job is taken and the rest of the queue is thrown away.
FaultyPoppedAll(t) == IF t.active # NoJob THEN t ELSE [t EXCEPT !.queue = <<>>]

\* pop_next_queued
Popped(t) ==
  IF t.active # NoJob THEN t
  ELSE [t EXCEPT !.queue = IF FirstQueued(t) = 0 THEN <<>>
                           ELSE SubSeq(@, FirstQueued(t) + 1, Len(@))]

\* Faulty: the job is handed out but not taken from the queue.
FaultyClaimed(t) == t

\* claim_next_queued: the popped job starts to run at an edge agent.
Claimed(t) ==
  LET j == NextQueued(t) IN
  IF j = NoJob THEN Popped(t)
  ELSE [Popped(t) EXCEPT !.status[j] = "running", !.active = j, !.scheduled = TRUE]

\* Faulty: a job cancelled or failed since it was popped may start nevertheless.
FaultyMayRun(t, j) == t.status[j] # "none"

\* mark_running raises JobConflictError unless the job is still queued; what
\* other job is active it does not ask.
MayRun(t, j) == t.status[j] = "queued"
MarkedRunning(t, j) == [t EXCEPT !.status[j] = "running", !.active = j]

\* Faulty: the finished job stays the active one.
FaultyCompleted(t, j, s) == [t EXCEPT !.status[j] = s, !.scheduled = FALSE]

\* complete(status=s): whatever the status of the job was.
Completed(t, j, s) ==
  [t EXCEPT !.status[j] = s,
            !.active = IF @ = j THEN NoJob ELSE @,
            !.scheduled = FALSE]

\* Faulty: the cancelled job stays in the queue.
FaultyCancelRequested(t, j) ==
  CASE t.status[j] = "queued"  -> [t EXCEPT !.status[j] = "cancelled"]
    [] t.status[j] = "running" -> [t EXCEPT !.cancel[j] = TRUE]
    [] OTHER                   -> t

\* request_cancel: a queued job is cancelled at once and leaves the queue (its
\* id is there at most once), a running one is asked to stop.
CancelRequested(t, j) ==
  CASE t.status[j] = "queued"  -> [t EXCEPT !.status[j] = "cancelled",
                                            !.queue = RemoveFirst(@, j)]
    [] t.status[j] = "running" -> [t EXCEPT !.cancel[j] = TRUE]
    [] OTHER                   -> t

\* note_runner_scheduled
NotedScheduled(t, b) == [t EXCEPT !.scheduled = b]

\* runner_should_start
RunnerShouldStart(t) == ~t.scheduled /\ t.active = NoJob /\ t.queue # <<>>

\* Faulty: running jobs are failed, the queue is left to the next agent.
FaultyFailedOpen(t) ==
  [t EXCEPT !.status = [j \in Jobs |-> IF @[j] = "running" THEN "failed" ELSE @[j]],
            !.cancel = [j \in Jobs |-> @[j] \/ t.status[j] = "running"],
            !.active = NoJob,
            !.scheduled = FALSE]

\* fail_open_work: every queued or running job fails.
FailedOpen(t) ==
  [t EXCEPT !.status = [j \in Jobs |-> IF Open(t, j) THEN "failed" ELSE @[j]],
            !.cancel = [j \in Jobs |-> @[j] \/ Open(t, j)],
            !.queue = <<>>,
            !.active = NoJob,
            !.scheduled = FALSE]

=============================================================================
