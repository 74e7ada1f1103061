---------------------------- MODULE TeleopSession ----------------------------
(***************************************************************************)
(* The teleoperation session of one component: TeleopController            *)
(* (backend/lab_model/execution/orchestration/teleop.py), its pose buffer  *)
(* (teleop_live_pose.py) and the part of the host between them.            *)
(*                                                                         *)
(* Three threads: the event loop, whose handlers do not await between      *)
(* their steps, so that one of them is under way at a time; the sweeper of *)
(* stale leases; and the motion loop of the buffer.  What a handler or a   *)
(* thread does under one lock is one step.  Which session may start beside *)
(* which command is the subject of BenchHost.                              *)
(***************************************************************************)
EXTENDS Naturals

CONSTANTS
  MaxPose,      \* poses are numbered in the order in which they are reached
  MaxSetups,    \* setup tasks that run at the same time
  NoPose

ASSUME TeleopAssumptions ==
  MaxPose \in Nat /\ MaxSetups \in Nat \ {0} /\ NoPose \notin 0..MaxPose

VARIABLES
  session,      \* telemetry.teleop: active and ready
  phase,        \* ... its command.phase
  fresh,        \* ... its lease_ts is younger than the TTL
  recorded,     \* the pose of the component in the lab state
  live,         \* the pose in the buffer, NoPose without an entry
  target,       \* the buffer has a target
  setups,       \* _finish_start tasks that wait for the hardware
  handler,      \* the handler the event loop is in
  grabbed,      \* ... the pose it has read
  sweeper,      \* the sweeper thread
  swept,        \* ... the pose it has read
  motion,       \* the motion loop
  arm,          \* history: the last pose the motion loop has reached
  quit,         \* the operator has gone, with the session or without
  raced,        \* history: the arm has moved after its pose was read to end
                \* the session, or a session has come up during a sweep
  crashed       \* history: the process has been restarted

lease == <<session, phase, fresh>>
buffer == <<live, target>>
threads == <<setups, handler, grabbed, sweeper, swept, motion>>
history == <<arm, quit, raced, crashed>>
teleopVars == <<lease, recorded, buffer, threads, history>>

Poses == 0..MaxPose

TeleopTypeOK ==
  /\ session \in {"off", "pending", "ready"} /\ phase \in {"idle", "executing"}
  /\ fresh \in BOOLEAN /\ recorded \in Poses
  /\ live \in Poses \cup {NoPose} /\ target \in BOOLEAN
  /\ setups \in 0..MaxSetups
  /\ handler \in {"free", "readying", "going", "ending", "stopped"}
  /\ grabbed \in Poses \cup {NoPose}
  /\ sweeper \in {"none", "waiting", "cleared", "read", "written"}
  /\ swept \in Poses \cup {NoPose}
  /\ motion \in {"none", "idle", "seen", "arrived"}
  /\ arm \in Poses
  /\ quit \in BOOLEAN /\ raced \in BOOLEAN /\ crashed \in BOOLEAN

TeleopInit ==
  /\ session = "off" /\ phase = "idle" /\ fresh = FALSE /\ recorded = 0
  /\ live = NoPose /\ target = FALSE
  /\ setups = 0 /\ handler = "free" /\ grabbed = NoPose
  /\ sweeper = "none" /\ swept = NoPose /\ motion = "none"
  /\ arm = 0 /\ quit = FALSE /\ raced = FALSE /\ crashed = FALSE

Sweeping == sweeper \in {"cleared", "read", "written"}

\* Somebody may have read the pose to close the session by it.
Late == handler = "ending" \/ Sweeping

\* The pose in the lab state once one has been read from the buffer
Recording(pose) == IF pose = NoPose THEN recorded ELSE pose

-----------------------------------------------------------------------------
\* The handlers

\* start: a session that is ready is left alone, one that is pending starts
\* again; the sweeper is started with the first one.
Start ==
  /\ handler = "free" /\ ~quit /\ session # "ready" /\ setups < MaxSetups
  /\ session' = "pending" /\ phase' = "idle" /\ fresh' = TRUE
  /\ setups' = setups + 1
  /\ sweeper' = IF sweeper = "none" THEN "waiting" ELSE sweeper
  /\ UNCHANGED <<recorded, buffer, handler, grabbed, swept, motion, history>>

\* Faulty: a setup makes a session ready without a buffer.
FaultySetupReady ==
  /\ handler = "free" /\ setups > 0 /\ session = "pending"
  /\ setups' = setups - 1
  /\ session' = "ready" /\ fresh' = TRUE
  /\ UNCHANGED <<phase, recorded, buffer, handler, grabbed, sweeper, swept, motion, history>>

\* _finish_start: the hardware is prepared, whichever session it was for.
SetupReady ==
  /\ handler = "free" /\ setups > 0 /\ session = "pending"
  /\ setups' = setups - 1
  /\ session' = "ready" /\ fresh' = TRUE
  /\ handler' = "readying" /\ grabbed' = recorded
  /\ raced' = (raced \/ Sweeping)
  /\ UNCHANGED <<phase, recorded, buffer, sweeper, swept, motion, arm, quit, crashed>>

SetupFails ==
  /\ handler = "free" /\ setups > 0 /\ session = "pending"
  /\ setups' = setups - 1
  /\ session' = "off" /\ phase' = "idle"
  /\ UNCHANGED <<fresh, recorded, buffer, handler, grabbed, sweeper, swept, motion, history>>

SetupTooLate ==
  /\ handler = "free" /\ setups > 0 /\ session # "pending"
  /\ setups' = setups - 1
  /\ UNCHANGED <<lease, recorded, buffer, handler, grabbed, sweeper, swept, motion, history>>

\* start_session
LiveStart ==
  /\ handler = "readying"
  /\ live' = grabbed /\ target' = FALSE
  /\ handler' = "free" /\ grabbed' = NoPose
  /\ UNCHANGED <<lease, recorded, setups, sweeper, swept, motion, history>>

\* Faulty: the session is not looked at.
FaultyGoto ==
  /\ handler = "free" /\ ~quit
  /\ phase' = "executing" /\ fresh' = TRUE
  /\ handler' = "going"
  /\ UNCHANGED <<session, recorded, buffer, setups, grabbed, sweeper, swept, motion, history>>

\* goto, under the lock ...
Goto ==
  /\ handler = "free" /\ ~quit /\ session = "ready"
  /\ phase' = "executing" /\ fresh' = TRUE
  /\ handler' = "going"
  /\ UNCHANGED <<session, recorded, buffer, setups, grabbed, sweeper, swept, motion, history>>

\* ... and set_goto, which makes up an entry that is missing.
SetGoto ==
  /\ handler = "going"
  /\ handler' = "free"
  /\ live' = IF live = NoPose THEN 0 ELSE live
  /\ target' = TRUE
  /\ motion' = IF motion = "none" THEN "idle" ELSE motion
  /\ UNCHANGED <<lease, recorded, setups, grabbed, sweeper, swept, history>>

\* end, with or without a session: read the pose ...
End ==
  /\ handler = "free" /\ ~quit
  /\ grabbed' = live /\ handler' = "ending"
  /\ UNCHANGED <<lease, recorded, buffer, setups, sweeper, swept, motion, history>>

\* ... stop the motion ...
EndStop ==
  /\ handler = "ending"
  /\ live' = NoPose /\ target' = FALSE /\ handler' = "stopped"
  /\ UNCHANGED <<lease, recorded, setups, grabbed, sweeper, swept, motion, history>>

\* Faulty: the pose is recorded for a session that is ready only.
FaultyEndCommit ==
  /\ handler = "stopped"
  /\ recorded' = IF grabbed # NoPose /\ phase = "idle" THEN grabbed ELSE recorded
  /\ session' = "off" /\ phase' = "idle"
  /\ handler' = "free" /\ grabbed' = NoPose
  /\ UNCHANGED <<fresh, buffer, setups, sweeper, swept, motion, history>>

\* ... and record both under the lock.
EndCommit ==
  /\ handler = "stopped"
  /\ recorded' = Recording(grabbed)
  /\ session' = "off" /\ phase' = "idle"
  /\ handler' = "free" /\ grabbed' = NoPose
  /\ UNCHANGED <<fresh, buffer, setups, sweeper, swept, motion, history>>

-----------------------------------------------------------------------------
\* The motion loop

Look ==
  /\ motion = "idle" /\ target
  /\ motion' = "seen"
  /\ UNCHANGED <<lease, recorded, buffer, setups, handler, grabbed, sweeper, swept, history>>

\* _tick_tag: the session may have ended since the loop looked.
TickGone ==
  /\ motion = "seen" /\ (live = NoPose \/ ~target)
  /\ motion' = "arrived"
  /\ UNCHANGED <<lease, recorded, buffer, setups, handler, grabbed, sweeper, swept, history>>

\* One step towards the target, or the last one.
Tick ==
  /\ motion = "seen" /\ live # NoPose /\ target
  /\ \E pose \in {live, live + 1} \cap Poses, done \in BOOLEAN :
       /\ done \/ pose # live
       /\ live' = pose /\ arm' = pose
       /\ target' = ~done
       /\ motion' = IF done THEN "arrived" ELSE "idle"
       /\ raced' = (raced \/ (pose # arm /\ Late))
  /\ UNCHANGED <<lease, recorded, setups, handler, grabbed, sweeper, swept, quit, crashed>>

\* Faulty: the loop does not come back to look.
FaultyMotionIdle ==
  /\ motion = "arrived"
  /\ motion' = "idle"
  /\ recorded' = Recording(live)
  /\ UNCHANGED <<lease, buffer, setups, handler, grabbed, sweeper, swept, history>>

\* _on_teleop_motion_idle, under the lock
MotionIdle ==
  /\ motion = "arrived"
  /\ motion' = "idle"
  /\ recorded' = Recording(live)
  /\ phase' = "idle"
  /\ UNCHANGED <<session, fresh, buffer, setups, handler, grabbed, sweeper, swept, history>>

-----------------------------------------------------------------------------
\* The sweeper

\* sweep_stale_teleop_leases, under the lock ...
Sweep ==
  /\ sweeper = "waiting" /\ session # "off" /\ ~fresh
  /\ session' = "off" /\ phase' = "idle"
  /\ sweeper' = "cleared"
  /\ UNCHANGED <<fresh, recorded, buffer, setups, handler, grabbed, swept, motion, history>>

\* ... and then, without it, the final pose and the buffer.
SweepRead ==
  /\ sweeper = "cleared"
  /\ swept' = live /\ sweeper' = "read"
  /\ UNCHANGED <<lease, recorded, buffer, setups, handler, grabbed, motion, history>>

SweepWrite ==
  /\ sweeper = "read"
  /\ recorded' = Recording(swept)
  /\ sweeper' = "written"
  /\ UNCHANGED <<lease, buffer, setups, handler, grabbed, swept, motion, history>>

\* Faulty: the thread ends with the first lease that it has cleared.
FaultySweepStop ==
  /\ sweeper = "written"
  /\ live' = NoPose /\ target' = FALSE
  /\ sweeper' = "none" /\ swept' = NoPose
  /\ UNCHANGED <<lease, recorded, setups, handler, grabbed, motion, history>>

SweepStop ==
  /\ sweeper = "written"
  /\ live' = NoPose /\ target' = FALSE
  /\ sweeper' = "waiting" /\ swept' = NoPose
  /\ UNCHANGED <<lease, recorded, setups, handler, grabbed, motion, history>>

-----------------------------------------------------------------------------
\* Time, the operator and the process

\* The TTL is far longer than a handler takes.
Expire ==
  /\ fresh /\ handler = "free"
  /\ fresh' = FALSE
  /\ UNCHANGED <<session, phase, recorded, buffer, threads, history>>

Quit ==
  /\ ~quit /\ quit' = TRUE
  /\ UNCHANGED <<lease, recorded, buffer, threads, arm, raced, crashed>>

\* The lab state is read back from its file, sessions included; the buffer
\* and the threads are gone.
TeleopRestart ==
  /\ ~crashed /\ crashed' = TRUE
  /\ live' = NoPose /\ target' = FALSE
  /\ setups' = 0 /\ handler' = "free" /\ grabbed' = NoPose
  /\ sweeper' = "none" /\ swept' = NoPose /\ motion' = "none"
  /\ UNCHANGED <<lease, recorded, arm, quit, raced>>

-----------------------------------------------------------------------------
Handles == LiveStart \/ SetGoto \/ EndStop \/ EndCommit
Setup == SetupReady \/ SetupFails \/ SetupTooLate
MotionLoop == Look \/ TickGone \/ Tick \/ MotionIdle
Sweeps == Sweep \/ SweepRead \/ SweepWrite \/ SweepStop

TeleopNext ==
  \/ Start \/ Goto \/ End \/ Handles \/ Setup
  \/ MotionLoop \/ Sweeps
  \/ Expire \/ Quit \/ TeleopRestart

\* Handlers and threads go on, the hardware answers, and time passes.
Fairness ==
  /\ WF_teleopVars(Handles) /\ WF_teleopVars(Setup)
  /\ WF_teleopVars(MotionLoop) /\ WF_teleopVars(Sweeps) /\ WF_teleopVars(Expire)

TeleopSpec == TeleopInit /\ [][TeleopNext]_teleopVars /\ Fairness

-----------------------------------------------------------------------------
\* Properties

\* Nothing moves without a session: a target in the buffer belongs to a ready
\* session or to one whose sweep is not over, across all the threads.
NoGhostMotion == target => session = "ready" \/ Sweeping

\* A session that was told ready can be steered: its pose is in the buffer,
\* whatever setups and sweeps of earlier sessions are still under way.
ReadyHasBuffer ==
  session = "ready" /\ handler = "free" /\ ~raced /\ ~crashed => live # NoPose

\* The session leaves the pose it has reached in the lab state, however it
\* ended: by the operator, by the sweeper, during a motion or after it.
FinalPose ==
  session = "off" /\ handler = "free" /\ ~Sweeping /\ ~raced /\ ~crashed
    => recorded = arm /\ live = NoPose

\* An abandoned session comes to its end, and so does its motion, for good.
AbandonedEnds == quit ~> [](crashed \/ (session = "off" /\ ~target))

\* A component that is shown as executing has a motion under way: the loop,
\* which reports its end later, goto and end leave none executing for ever.
ExecutingMoves ==
  phase = "executing" /\ handler = "free" /\ ~raced /\ ~crashed
    => target \/ motion \in {"seen", "arrived"}

=============================================================================
