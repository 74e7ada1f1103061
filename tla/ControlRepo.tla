----------------------------- MODULE ControlRepo -----------------------------
(***************************************************************************)
(* The control repositories: the configuration history that an operator    *)
(* commits the bench to and checks it out from (ControlManager in          *)
(* backend/lab_model/coordinator/state/control_manager.py), its endpoints  *)
(* in backend/main.py and the two places where a job writes to it.         *)
(*                                                                         *)
(* A handler runs on the event loop: it checks, may await a plan of moves, *)
(* and then makes its writes, each to a file of its own, without another   *)
(* await.  Nothing but a crash comes between two of them.  Between two     *)
(* moves come the handlers that do not ask for an idle bench, the moves of *)
(* jobs and admitted commands, and, because these leave the status IDLE    *)
(* when they end, the handlers that do ask.                                *)
(***************************************************************************)
EXTENDS Naturals, Sequences, FiniteSets

CONSTANTS
  Repos, Branches,
  Parts,        \* components of the bench
  Poses,        \* where a component may be on the breadboard
  Commits,      \* ids of the commits that can be made, in their order
  Handlers,     \* the handlers that may await a plan at a time
  None, Stored

ASSUME ControlAssumptions ==
  /\ Commits \subseteq Nat /\ IsFiniteSet(Commits)
  /\ None \notin Repos \cup Branches \cup Commits \cup Poses
  /\ Stored \notin Poses

VARIABLES
  documents,    \* configurations/<id>.json
  heads,        \* refs.json, heads ...
  applied,      \* ... and applied
  stash,        \* stash.json
  origin,       \* bench_origin.json, one for all the repositories
  saved,        \* lab_state.json
  runtime,      \* the lab state in memory
  bench,        \* where a component really is
  status,       \* system_status
  plan,         \* the plan that each handler awaits, None if there is none
  todo,         \* the writes that a handler has before it
  move,         \* the move that a job or an admitted command is making
  owed,         \* history: a configuration that the operator has set up and
                \* has not given up, any one of them
  missed,       \* history: a move was not made, or undone, that a projection
                \* may be told of
  slipped,      \* history: a handler that asks for an idle bench was let in
                \* while another awaited its plan
  cut           \* history: work was lost in a way listed at CutShort

files == <<documents, heads, applied, stash, origin>>
lab == <<saved, runtime, bench>>
motion == <<status, move>>
work == <<plan, todo>>
history == <<owed, missed, slipped, cut>>
vars == <<files, lab, motion, work, history>>

-----------------------------------------------------------------------------
\* Configurations: a stored component is left out of one.

Places == Poses \cup {Stored}
Configurations == [Parts -> Poses \cup {None}]
EMPTY_CONFIGURATION == [p \in Parts |-> None]

\* extract_configuration
Extract(lab_state) ==
  [p \in Parts |-> IF lab_state[p] = Stored THEN None ELSE lab_state[p]]

\* apply_configuration_to_components: components in cfg take its tunables,
\* the others are put in storage, as far as the lab state is concerned.
Project(cfg) == [p \in Parts |-> IF cfg[p] = None THEN Stored ELSE cfg[p]]

\* Faulty: components that are not in the target are forgotten.
FaultyPlan(from, to) ==
  {[part |-> p, action |-> "place"] : p \in {q \in Parts : from[q] = None /\ to[q] # None}}
  \cup
  {[part |-> p, action |-> "move"] :
     p \in {q \in Parts : from[q] # None /\ to[q] # None /\ from[q] # to[q]}}

\* plan_reconcile over configuration_diff: at most one move for a component.
Plan(from, to) ==
  {[part |-> p, action |-> "place"] : p \in {q \in Parts : from[q] = None /\ to[q] # None}}
  \cup
  {[part |-> p, action |-> "store"] : p \in {q \in Parts : from[q] # None /\ to[q] = None}}
  \cup
  {[part |-> p, action |-> "move"] :
     p \in {q \in Parts : from[q] # None /\ to[q] # None /\ from[q] # to[q]}}

\* The refusals of run_store_component, run_move_component and
\* run_place_from_storage, which are printed and not raised.
Refused(step) == (runtime[step.part] = Stored) # (step.action = "place")

Moved(step, target) ==
  [runtime EXCEPT ![step.part] = IF step.action = "store" THEN Stored ELSE target[step.part]]

Node == Commits \cup {None}
Document == [repo : Repos, branch : Branches, parent_id : Node, configuration : Configurations]
Snapshot == [configuration : Configurations, base : Node]
Writes == [to : {"document", "head", "applied", "origin", "stash", "clear", "runtime", "saved"},
           repo : Repos, branch : Branches \cup {None}, id : Node,
           configuration : Configurations]
Steps == [part : Parts, action : {"place", "store", "move"}]
At == [id : Node, branch : Branches \cup {None}]
Plans == [op : {"checkout", "stash", "pop"}, repo : Repos, at : At, target : Configurations,
          snapshot : Configurations, steps : SUBSET Steps]
Moves == [part : Parts, to : Places]
ASSUME NoneIsNoRecord == None \notin Document \cup Snapshot \cup Plans \cup Moves

TypeOK ==
  /\ documents \in [Commits -> Document \cup {None}]
  /\ heads \in [Repos -> [Branches -> Node]]
  /\ applied \in [Repos -> At]
  /\ stash \in [Repos -> Snapshot \cup {None}]
  /\ origin \in [repo : Repos \cup {None}, id : Node]
  /\ {saved, runtime, bench} \subseteq [Parts -> Places]
  /\ status \in {"IDLE", "BUSY"} /\ move \in Moves \cup {None}
  /\ plan \in [Handlers -> Plans \cup {None}]
  /\ todo \in Seq(Writes)
  /\ owed \in Configurations \cup {None}
  /\ missed \in BOOLEAN /\ slipped \in BOOLEAN /\ cut \in BOOLEAN

-----------------------------------------------------------------------------
\* The repository

History(r) == {c \in Commits : documents[c] # None /\ documents[c].repo = r}

OwnsBench(r) == origin.repo \in {None, r}

Applied(r) == IF OwnsBench(r) THEN applied[r] ELSE [id |-> None, branch |-> None]

get_head(r, b) == IF b = None THEN None ELSE heads[r][b]

Detached(r) ==
  /\ Applied(r).id # None
  /\ Applied(r).id # get_head(r, Applied(r).branch)

Base(r) ==
  IF Applied(r).id = None THEN EMPTY_CONFIGURATION ELSE documents[Applied(r).id].configuration

\* runtime_is_dirty; working_state says clean of a bench that is not owned.
IsDirty(r) == Extract(runtime) # Base(r)
Dirty(r) == OwnsBench(r) /\ IsDirty(r)

Awaited == \E h \in Handlers : plan[h] # None

\* _assert_lab_idle_for_control asks for the status and for nothing else.
Admitted ==
  /\ status = "IDLE"
  /\ slipped' = (slipped \/ Awaited)

\* The event loop is free.
Free == todo = <<>>

-----------------------------------------------------------------------------
\* The writes of a handler, in the order in which the code makes them

W(to, r, b, c, cfg) ==
  [to |-> to, repo |-> r, branch |-> b, id |-> c, configuration |-> cfg]

SaveDocument(r, b, c, cfg) == W("document", r, b, c, cfg)
SetHead(r, b, c) == W("head", r, b, c, EMPTY_CONFIGURATION)
SetApplied(r, b, c) == W("applied", r, b, c, EMPTY_CONFIGURATION)
ClaimBench(r, c) == W("origin", r, None, c, EMPTY_CONFIGURATION)
SaveStash(r, cfg, base) == W("stash", r, None, base, cfg)
ClearStash(r) == W("clear", r, None, None, EMPTY_CONFIGURATION)
Projection(r, cfg) == W("runtime", r, None, None, cfg)
PersistState(r) == W("saved", r, None, None, EMPTY_CONFIGURATION)

\* Faulty: the document is saved last.
FaultyCommitWrites(r, b, c) ==
  <<SetHead(r, b, c), SetApplied(r, b, c), SaveDocument(r, b, c, Extract(runtime)),
    ClaimBench(r, c)>>

\* commit_configuration and the claim of its callers
CommitWrites(r, b, c) ==
  <<SaveDocument(r, b, c, Extract(runtime)), SetHead(r, b, c), SetApplied(r, b, c),
    ClaimBench(r, c)>>

\* The end of a hard checkout, finalized by the caller or not
CheckoutWrites(r, b, c) ==
  <<Projection(r, documents[c].configuration), SetApplied(r, b, c), ClaimBench(r, c), PersistState(r)>>

StashWrites(r, at, base, snapshot) ==
  <<Projection(r, base), SetApplied(r, at.branch, at.id), SaveStash(r, snapshot, at.id),
    ClaimBench(r, at.id), PersistState(r)>>

PopWrites(r, snapshot) == <<Projection(r, snapshot), ClearStash(r), PersistState(r)>>

Write ==
  /\ ~Free
  /\ todo' = Tail(todo)
  /\ LET w == Head(todo) IN
     \/ /\ w.to = "document"
        /\ documents' = [documents EXCEPT ![w.id] =
             [repo |-> w.repo, branch |-> w.branch, parent_id |-> get_head(w.repo, w.branch),
              configuration |-> w.configuration]]
        /\ UNCHANGED <<heads, applied, stash, origin, saved, runtime>>
     \/ /\ w.to = "head"
        /\ heads' = [heads EXCEPT ![w.repo][w.branch] = w.id]
        /\ UNCHANGED <<documents, applied, stash, origin, saved, runtime>>
     \/ /\ w.to = "applied"
        /\ applied' = [applied EXCEPT ![w.repo] = [id |-> w.id, branch |-> w.branch]]
        /\ UNCHANGED <<documents, heads, stash, origin, saved, runtime>>
     \/ /\ w.to = "origin"
        /\ origin' = [repo |-> w.repo, id |-> w.id]
        /\ UNCHANGED <<documents, heads, applied, stash, saved, runtime>>
     \/ /\ w.to = "stash"
        /\ stash' = [stash EXCEPT ![w.repo] = [configuration |-> w.configuration, base |-> w.id]]
        /\ UNCHANGED <<documents, heads, applied, origin, saved, runtime>>
     \/ /\ w.to = "clear"
        /\ stash' = [stash EXCEPT ![w.repo] = None]
        /\ UNCHANGED <<documents, heads, applied, origin, saved, runtime>>
     \/ /\ w.to = "runtime"
        /\ runtime' = Project(w.configuration)
        /\ UNCHANGED <<files, saved>>
     \/ /\ w.to = "saved"
        /\ saved' = runtime
        /\ UNCHANGED <<files, runtime>>
  /\ UNCHANGED <<bench, motion, plan, history>>

-----------------------------------------------------------------------------
\* The handlers, up to their first write or their plan

\* Who asks for this gives cfg up.
GiveUp(cfg) == owed' = IF owed = cfg THEN None ELSE owed

\* A caller that says it has moved the bench to cfg
Trusted(cfg) ==
  missed' = (missed \/ bench # Project(cfg))

NextId == CHOOSE c \in Commits :
            documents[c] = None /\ \A d \in Commits : documents[d] = None => c <= d

\* control_commit_configuration, with the head of the branch as the parent
Commit(r, b) ==
  /\ Free /\ Admitted
  /\ ~Detached(r)
  /\ \E c \in Commits : documents[c] = None
  /\ todo' = CommitWrites(r, b, NextId)
  /\ UNCHANGED <<files, lab, motion, plan, owed, missed, cut>>

\* apply_post_job_commit_if_needed: as the endpoint, on a bench in any state
PostJobCommit(r, b) ==
  /\ Free
  /\ ~Detached(r)
  /\ \E c \in Commits : documents[c] = None
  /\ todo' = CommitWrites(r, b, NextId) \o <<Projection(r, Extract(runtime)), PersistState(r)>>
  /\ UNCHANGED <<files, lab, motion, plan, history>>

\* control_fork_branch: any bench, any branch, new or not
Fork(r, b, c) ==
  /\ Free
  /\ c \in History(r)
  /\ todo' = <<SetHead(r, b, c), SetApplied(r, b, c), ClaimBench(r, c)>>
  /\ UNCHANGED <<files, lab, motion, plan, history>>

\* control_checkout, mode adopt
Adopt(r, c) ==
  /\ Free /\ Admitted
  /\ c \in History(r)
  /\ todo' = <<SetApplied(r, documents[c].branch, c), ClaimBench(r, c), PersistState(r)>>
  /\ UNCHANGED <<files, lab, motion, plan, owed, missed, cut>>

\* control_checkout, mode hard with finalize: the caller has made the moves.
CheckoutFinalize(r, c) ==
  /\ Free /\ Admitted
  /\ c \in History(r)
  /\ todo' = CheckoutWrites(r, documents[c].branch, c)
  /\ GiveUp(Extract(runtime)) /\ Trusted(documents[c].configuration)
  /\ UNCHANGED <<files, lab, motion, plan, cut>>

\* apply_checkout_finalize: the moves were the job's, the branch is its own.
JobFinalize(r, b, c) ==
  /\ Free
  /\ c \in History(r)
  /\ todo' = CheckoutWrites(r, b, c)
  /\ GiveUp(Extract(runtime)) /\ Trusted(documents[c].configuration)
  /\ UNCHANGED <<files, lab, motion, plan, slipped, cut>>

\* Await the plan, or go on without one if there is nothing to move.
Execute(op, r, at, target, snapshot, writes) ==
  LET steps == Plan(Extract(runtime), target) IN
  IF steps = {}
    THEN todo' = writes /\ UNCHANGED <<status, plan>>
    ELSE /\ \E h \in Handlers :
              /\ plan[h] = None
              /\ plan' = [plan EXCEPT ![h] =
                   [op |-> op, repo |-> r, at |-> at, target |-> target,
                    snapshot |-> snapshot, steps |-> steps]]
         /\ status' = "BUSY"
         /\ UNCHANGED todo

\* Faulty: uncommitted changes do not stop a checkout.
FaultyMayLeave(r, c, force) == TRUE

MayLeave(r, c, force) == ~IsDirty(r) \/ force \/ c = Applied(r).id

\* control_checkout, mode hard; force stands for force_reconcile under a lease.
Checkout(r, c, force) ==
  LET at == [id |-> c, branch |-> documents[c].branch] IN
  /\ Free /\ Admitted
  /\ c \in History(r)
  /\ MayLeave(r, c, force)
  /\ Execute("checkout", r, at, documents[c].configuration, EMPTY_CONFIGURATION,
             CheckoutWrites(r, at.branch, c))
  /\ IF force \/ c = Applied(r).id THEN GiveUp(Extract(runtime)) ELSE UNCHANGED owed
  /\ UNCHANGED <<files, lab, move, missed, cut>>

\* Faulty: the slot is not looked at.
FaultySlotFree(r) == TRUE

SlotFree(r) == stash[r] = None

\* control_stash
Stash(r) ==
  /\ Free /\ Admitted
  /\ SlotFree(r)
  /\ Dirty(r)
  /\ Execute("stash", r, Applied(r), Base(r), Extract(runtime),
             StashWrites(r, Applied(r), Base(r), Extract(runtime)))
  /\ UNCHANGED <<files, lab, move, owed, missed, cut>>

\* ... with finalize: the caller has made the moves, and has the snapshot from
\* a preview, which is refused on a clean bench.
StashFinalize(r, snapshot) ==
  /\ Free /\ Admitted
  /\ SlotFree(r)
  /\ todo' = StashWrites(r, Applied(r), Base(r), snapshot)
  /\ GiveUp(Extract(runtime)) /\ Trusted(Base(r))
  /\ UNCHANGED <<files, lab, motion, plan, cut>>

\* control_stash_pop: a repository that does not own the bench finds it clean.
StashPop(r) ==
  /\ Free /\ Admitted
  /\ stash[r] # None
  /\ ~Detached(r) /\ ~Dirty(r)
  /\ Execute("pop", r, Applied(r), stash[r].configuration, EMPTY_CONFIGURATION,
             PopWrites(r, stash[r].configuration))
  /\ cut' = (cut \/ ~OwnsBench(r))
  /\ UNCHANGED <<files, lab, move, owed, missed>>

\* ... with finalize
StashPopFinalize(r) ==
  /\ Free /\ Admitted
  /\ stash[r] # None
  /\ todo' = PopWrites(r, stash[r].configuration)
  /\ GiveUp(Extract(runtime)) /\ Trusted(stash[r].configuration)
  /\ UNCHANGED <<files, lab, motion, plan, cut>>

\* control_stash_drop: any bench
StashDrop(r) ==
  /\ Free
  /\ stash[r] # None
  /\ todo' = <<ClearStash(r)>>
  /\ GiveUp(stash[r].configuration)
  /\ UNCHANGED <<files, lab, motion, plan, missed, slipped, cut>>

-----------------------------------------------------------------------------
\* execute_reconcile_plan

\* What an end that comes too early loses: the snapshot of a stash that is no
\* longer on the bench, and a projection that is not in lab_state.json yet.
\* The third way is a pop by a repository that does not own the bench.
CutShort ==
  \/ \E h \in Handlers : /\ plan[h] # None /\ plan[h].op = "stash"
                         /\ plan[h].snapshot # Extract(runtime)
  \/ \E i \in DOMAIN todo : todo[i].to = "stash"
  \/ runtime # saved

\* The writes of a handler whose plan is done
Continuation(d) ==
  IF d.op = "checkout" THEN CheckoutWrites(d.repo, d.at.branch, d.at.id)
  ELSE IF d.op = "stash" THEN StashWrites(d.repo, d.at, d.target, d.snapshot)
  ELSE PopWrites(d.repo, d.target)

\* A step ends.  The next one begins, and the writes after the last one come,
\* before anybody else can see that the status is IDLE.
Step(h, step) ==
  /\ Free
  /\ \/ /\ ~Refused(step)
        /\ runtime' = Moved(step, plan[h].target)
        /\ bench' = [bench EXCEPT ![step.part] = runtime'[step.part]]
        /\ saved' = runtime'
        /\ UNCHANGED missed
     \/ /\ missed' = TRUE           \* refused or failed: printed, not raised
        /\ saved' = runtime
        /\ UNCHANGED <<bench, runtime>>
  /\ \/ /\ plan[h].steps # {step}
        /\ plan' = [plan EXCEPT ![h].steps = @ \ {step}]
        /\ status' = "BUSY"
        /\ UNCHANGED todo
     \/ /\ plan[h].steps = {step}
        /\ plan' = [plan EXCEPT ![h] = None]
        /\ status' = "IDLE"
        /\ todo' = Continuation(plan[h])
  /\ UNCHANGED <<files, move, owed, slipped, cut>>

\* ReconcilePlanError, before a step begins: the handler ends where it is.
PlanFails(h) ==
  /\ Free /\ plan[h] # None
  /\ plan' = [plan EXCEPT ![h] = None]
  /\ status' = "IDLE"
  /\ cut' = (cut \/ CutShort)
  /\ UNCHANGED <<files, lab, move, todo, owed, missed, slipped>>

-----------------------------------------------------------------------------
\* The moves of jobs and of admitted commands, and the process

\* None of them asks for an idle bench.
MoveBegins(p, place) ==
  /\ Free /\ move = None
  /\ place # runtime[p]
  /\ move' = [part |-> p, to |-> place]
  /\ status' = "BUSY"
  /\ UNCHANGED <<files, lab, work, history>>

\* What the operator has set up: nothing new while a plan moves the bench.
SetUp(lab_state) ==
  IF Awaited THEN {owed}
  ELSE (IF owed = Extract(runtime) THEN {None} ELSE {owed})
       \cup (IF owed = None /\ Extract(lab_state) # EMPTY_CONFIGURATION
             THEN {Extract(lab_state)} ELSE {})

MoveEnds ==
  /\ Free /\ move # None
  /\ runtime' = [runtime EXCEPT ![move.part] = move.to]
  /\ bench' = [bench EXCEPT ![move.part] = move.to]
  /\ saved' = runtime'
  /\ owed' \in SetUp(runtime')
  \* a plan that is done with the component will not put it right
  /\ missed' = (missed \/ \E h \in Handlers :
                 plan[h] # None /\ \A step \in plan[h].steps : step.part # move.part)
  /\ move' = None /\ status' = "IDLE"
  /\ UNCHANGED <<files, work, slipped, cut>>

MoveFails ==
  /\ Free /\ move # None
  /\ saved' = runtime
  /\ move' = None /\ status' = "IDLE"
  /\ UNCHANGED <<files, runtime, bench, work, history>>

\* A component that was on its way may be anywhere.
Crash ==
  /\ ~Free \/ Awaited \/ move # None
  /\ runtime' = saved
  /\ plan' = [h \in Handlers |-> None] /\ todo' = <<>>
  /\ move' = None /\ status' = "IDLE"
  /\ missed' = (missed \/ Awaited \/ move # None)
  /\ cut' = (cut \/ CutShort)
  /\ UNCHANGED <<files, saved, bench, owed, slipped>>

-----------------------------------------------------------------------------
Init ==
  /\ documents = [c \in Commits |-> None]
  /\ heads = [r \in Repos |-> [b \in Branches |-> None]]
  /\ applied = [r \in Repos |-> [id |-> None, branch |-> None]]
  /\ stash = [r \in Repos |-> None]
  /\ origin = [repo |-> None, id |-> None]
  /\ runtime = Project(EMPTY_CONFIGURATION) /\ saved = runtime /\ bench = runtime
  /\ plan = [h \in Handlers |-> None] /\ todo = <<>>
  /\ move = None /\ status = "IDLE"
  /\ owed = None /\ missed = FALSE /\ slipped = FALSE /\ cut = FALSE

Next ==
  \/ Write \/ MoveEnds \/ MoveFails \/ Crash
  \/ \E r \in Repos : Stash(r) \/ StashPop(r) \/ StashPopFinalize(r) \/ StashDrop(r)
  \/ \E r \in Repos : \E snapshot \in Configurations \ {Base(r)} : StashFinalize(r, snapshot)
  \/ \E r \in Repos, b \in Branches : Commit(r, b) \/ PostJobCommit(r, b)
  \/ \E r \in Repos, c \in Commits : Adopt(r, c) \/ CheckoutFinalize(r, c)
  \/ \E r \in Repos, c \in Commits, force \in BOOLEAN : Checkout(r, c, force)
  \/ \E r \in Repos, b \in Branches, c \in Commits : Fork(r, b, c) \/ JobFinalize(r, b, c)
  \/ \E h \in Handlers : \/ PlanFails(h)
                         \/ \E step \in (IF plan[h] = None THEN {} ELSE plan[h].steps) : Step(h, step)
  \/ \E p \in Parts, place \in Places : MoveBegins(p, place)

Spec == Init /\ [][Next]_vars

-----------------------------------------------------------------------------
\* Properties

Ref(r) == History(r) \cup {None}

\* Whatever was being written when the process died, everything that the
\* files name exists: heads, applied node, parents, the base of the stash and
\* the node that the bench was last brought to.
RefsSound ==
  /\ \A r \in Repos : /\ \A b \in Branches : heads[r][b] \in Ref(r)
                      /\ applied[r].id \in Ref(r)
                      /\ stash[r] # None => stash[r].base \in Ref(r)
  /\ \A c \in Commits : documents[c] # None => documents[c].parent_id \in Ref(documents[c].repo)
  /\ origin.repo # None => origin.id \in Ref(origin.repo)

\* What the operator has set up is on the bench, in a commit or in a stash
\* until the operator gives it up, through checkouts, stashes, jobs and their
\* moves, plans that fail and crashes, the losses listed at CutShort excepted,
\* as long as no control operation is let in during the plan of another.
Kept(cfg) ==
  \/ Extract(runtime) = cfg
  \/ \E c \in Commits : documents[c] # None /\ documents[c].configuration = cfg
  \/ \E r \in Repos : stash[r] # None /\ stash[r].configuration = cfg
  \/ \E h \in Handlers : plan[h] # None /\ plan[h].op = "stash" /\ plan[h].snapshot = cfg
  \/ \E i \in DOMAIN todo : todo[i].to = "stash" /\ todo[i].configuration = cfg

WorkKept == ~cut /\ ~slipped /\ owed # None => Kept(owed)

\* The lab state tells where the components are: a plan brings all of them to
\* where its projection says, also while a job moves one that the plan has
\* still to move.  Not so when a move fails, when a job moves a component that
\* the plan is done with, when the process dies during a move, and when two
\* plans run at a time.
PlacesTrue == ~missed /\ ~slipped => runtime = bench

\* The slot of a stash is taken once: until it is popped or dropped, nothing
\* is stashed over it, whatever forks, jobs and drops run while the bench is
\* moved, as long as no control operation is let in during the plan of another.
SlotTakenOnce ==
  [][~slipped' => \A r \in Repos : stash[r] # None => stash'[r] \in {None, stash[r]}]_vars

\* What the code says, and does not keep.

\* "Pop is only allowed on a clean HEAD" (control_stash_pop)
PopOnCleanHead ==
  [][\A r \in Repos : StashPop(r) => \A owner \in Repos : origin.repo = owner => ~Dirty(owner)]_vars

\* "Single-slot: refuses if a stash already exists." (control_stash): two that
\* overlap both find the slot free, and the second one takes it again.
SingleSlot == [][\A r \in Repos : stash[r] # None => stash'[r] \in {None, stash[r]}]_vars

=============================================================================
