--------------------------- MODULE ControlRepo_proofs ---------------------------
(***************************************************************************)
(* The control repositories for every set of repositories, branches,       *)
(* components, poses and commits: what a crash leaves behind is sound, a   *)
(* stash is not overwritten, the lab state tells where the components are, *)
(* and what the operator has set up is not lost.                           *)
(***************************************************************************)
EXTENDS ControlRepo, SequenceTheorems, WellFoundedInduction, TLAPS

-----------------------------------------------------------------------------
\* Configurations and writes

LEMMA ExtractTyped ==
  ASSUME NEW s \in [Parts -> Places]
  PROVE  Extract(s) \in Configurations
  BY DEF Extract, Configurations, Places

LEMMA ProjectTyped ==
  ASSUME NEW cfg \in Configurations
  PROVE  Project(cfg) \in [Parts -> Places]
  BY DEF Project, Configurations, Places

LEMMA EmptyTyped == EMPTY_CONFIGURATION \in Configurations
  BY DEF EMPTY_CONFIGURATION, Configurations

\* A projection of what was extracted changes nothing.
LEMMA ProjectExtract ==
  ASSUME NEW s \in [Parts -> Places]
  PROVE  Project(Extract(s)) = s
  BY ControlAssumptions DEF Extract, Project, Places

LEMMA PlanTyped ==
  ASSUME NEW from, NEW to
  PROVE  Plan(from, to) \subseteq Steps
  BY DEF Plan, Steps

Targets == {"document", "head", "applied", "origin", "stash", "clear", "runtime", "saved"}

LEMMA WTyped ==
  ASSUME NEW to \in Targets, NEW r \in Repos, NEW b \in Branches \cup {None}, NEW c \in Node,
         NEW cfg \in Configurations
  PROVE  /\ W(to, r, b, c, cfg) \in Writes
         /\ W(to, r, b, c, cfg).to = to /\ W(to, r, b, c, cfg).repo = r
         /\ W(to, r, b, c, cfg).branch = b /\ W(to, r, b, c, cfg).id = c
         /\ W(to, r, b, c, cfg).configuration = cfg
  BY DEF W, Writes, Targets

\* A nonempty set of numbers has a least one.
LEMMA LeastNumber ==
  ASSUME NEW S \in SUBSET Nat, S # {}
  PROVE  \E n \in S : \A m \in S : n <= m
<1> DEFINE less == {ss \in Nat \X Nat : ss[1] < ss[2]}
<1>1. less = OpToRel(<, Nat)
  BY Zenon DEF OpToRel
<1>2. IsWellFoundedOn(less, Nat)
  BY <1>1, NatLessThanWellFounded, Zenon
<1>3. PICK n \in S : \A m \in S : ~ (<<m, n>> \in less)
  <2> HIDE DEF less
  <2> QED
    BY <1>2, WFMin, Zenon
<1>4. ASSUME NEW m \in S PROVE n <= m
  <2>1. <<m, n>> \notin less
    BY <1>3, Zenon
  <2>2. <<m, n>> \in Nat \X Nat /\ <<m, n>>[1] = m /\ <<m, n>>[2] = n
    OBVIOUS
  <2>3. ~ (m < n)
    <3> SUFFICES ASSUME m < n PROVE <<m, n>> \in less
      BY <2>1, Zenon
    <3> QED
      BY <2>2
  <2> QED
    BY <2>3
<1> QED
  BY <1>4

\* The next id is one of a commit that does not exist.
LEMMA NextIdFree ==
  ASSUME \E c \in Commits : documents[c] = None
  PROVE  NextId \in Commits /\ documents[NextId] = None
<1> DEFINE missing == {c \in Commits : documents[c] = None}
<1>1. missing \in SUBSET Nat /\ missing # {}
  BY ControlAssumptions
<1>2. \E n \in missing : \A m \in missing : n <= m
  BY <1>1, LeastNumber
<1>3. \E c \in Commits : documents[c] = None /\ \A d \in Commits : documents[d] = None => c <= d
  BY <1>2
<1> QED
  BY <1>3, Zenon DEF NextId

-----------------------------------------------------------------------------
\* Sequences of writes

Elements(s) == {s[i] : i \in DOMAIN s}

LEMMA TailElements ==
  ASSUME NEW S, NEW s \in Seq(S), s # <<>>
  PROVE  /\ Tail(s) \in Seq(S) /\ Head(s) \in Elements(s) /\ Elements(Tail(s)) \subseteq Elements(s)
         /\ Elements(s) \subseteq S
         /\ Tail(s) # <<>> => Elements(Tail(Tail(s))) \subseteq Elements(Tail(s))
<1>1. /\ Len(s) \in Nat \ {0} /\ DOMAIN s = 1..Len(s) /\ Head(s) = s[1]
      /\ Tail(s) \in Seq(S) /\ DOMAIN Tail(s) = 1..(Len(s) - 1)
      /\ \A i \in DOMAIN Tail(s) : Tail(s)[i] = s[i + 1]
  OBVIOUS
<1>2. Tail(s) # <<>> => /\ DOMAIN Tail(Tail(s)) = 1..(Len(s) - 2)
                        /\ \A i \in DOMAIN Tail(Tail(s)) : Tail(Tail(s))[i] = Tail(s)[i + 1]
  BY <1>1
<1>3. \A i \in DOMAIN s : s[i] \in S
  BY <1>1
<1> QED
  BY <1>1, <1>2, <1>3 DEF Elements

LEMMA TailRest ==
  ASSUME NEW S, NEW s \in Seq(S), s # <<>>
  PROVE  \A w \in Elements(s) : w = Head(s) \/ w \in Elements(Tail(s))
<1>1. /\ Len(s) \in Nat \ {0} /\ DOMAIN s = 1..Len(s) /\ Head(s) = s[1]
      /\ DOMAIN Tail(s) = 1..(Len(s) - 1) /\ \A i \in DOMAIN Tail(s) : Tail(s)[i] = s[i + 1]
  OBVIOUS
<1>2. ASSUME NEW i \in DOMAIN s PROVE s[i] = Head(s) \/ s[i] \in Elements(Tail(s))
  <2>1. CASE i = 1
    BY <1>1, <2>1
  <2>2. CASE i # 1
    <3>1. i - 1 \in DOMAIN Tail(s) /\ Tail(s)[i - 1] = s[i]
      BY <1>1, <2>2
    <3> QED
      BY <3>1 DEF Elements
  <2> QED
    BY <2>1, <2>2
<1> QED
  BY <1>2 DEF Elements

LEMMA ElementsOfFew ==
  /\ Elements(<<>>) = {}
  /\ \A a : Elements(<<a>>) = {a}
  /\ \A a, b : Elements(<<a, b>>) = {a, b}
  /\ \A a, b, c : Elements(<<a, b, c>>) = {a, b, c}
  /\ \A a, b, c, d : Elements(<<a, b, c, d>>) = {a, b, c, d}
  /\ \A a, b, c, d, e : Elements(<<a, b, c, d, e>>) = {a, b, c, d, e}
  BY DEF Elements

\* A commit saves its document first, and what comes after it is no document.
LEMMA CommitList ==
  ASSUME NEW r \in Repos, NEW b \in Branches, NEW c \in Commits,
         runtime \in [Parts -> Places]
  PROVE  /\ CommitWrites(r, b, c) \in Seq(Writes) /\ CommitWrites(r, b, c) # <<>>
         /\ Head(CommitWrites(r, b, c)) = SaveDocument(r, b, c, Extract(runtime))
         /\ Elements(Tail(CommitWrites(r, b, c))) =
              {SetHead(r, b, c), SetApplied(r, b, c), ClaimBench(r, c)}
         /\ Elements(CommitWrites(r, b, c)) =
              {SaveDocument(r, b, c, Extract(runtime)), SetHead(r, b, c), SetApplied(r, b, c),
               ClaimBench(r, c)}
<1>1. /\ SaveDocument(r, b, c, Extract(runtime)) \in Writes
      /\ SetHead(r, b, c) \in Writes /\ SetApplied(r, b, c) \in Writes
      /\ ClaimBench(r, c) \in Writes
  BY WTyped, ExtractTyped, EmptyTyped
     DEF Targets, Node, SaveDocument, SetHead, SetApplied, ClaimBench
<1>2. Tail(CommitWrites(r, b, c)) = <<SetHead(r, b, c), SetApplied(r, b, c), ClaimBench(r, c)>>
  BY <1>1 DEF CommitWrites
<1> QED
  BY <1>1, <1>2, ElementsOfFew DEF CommitWrites

LEMMA ConcatList ==
  ASSUME NEW S, NEW s \in Seq(S), NEW t \in Seq(S), s # <<>>
  PROVE  /\ s \o t \in Seq(S) /\ s \o t # <<>> /\ Head(s \o t) = Head(s)
         /\ Elements(s \o t) \subseteq Elements(s) \cup Elements(t)
         /\ Elements(Tail(s \o t)) \subseteq Elements(Tail(s)) \cup Elements(t)
<1> DEFINE u == s \o t
<1>1. /\ Len(s) \in Nat \ {0} /\ Len(t) \in Nat /\ DOMAIN s = 1..Len(s) /\ DOMAIN t = 1..Len(t)
      /\ Head(s) = s[1]
      /\ DOMAIN Tail(s) = 1..(Len(s) - 1) /\ \A i \in DOMAIN Tail(s) : Tail(s)[i] = s[i + 1]
  OBVIOUS
<1>2. /\ u \in Seq(S) /\ Len(u) = Len(s) + Len(t)
      /\ \A i \in 1..(Len(s) + Len(t)) : u[i] = IF i <= Len(s) THEN s[i] ELSE t[i - Len(s)]
  BY ConcatProperties
<1> HIDE DEF u
<1>3. /\ DOMAIN u = 1..(Len(s) + Len(t)) /\ u # <<>> /\ Head(u) = u[1]
      /\ DOMAIN Tail(u) = 1..(Len(s) + Len(t) - 1)
      /\ \A i \in DOMAIN Tail(u) : Tail(u)[i] = u[i + 1]
  BY <1>1, <1>2
<1>4. ASSUME NEW i \in DOMAIN u PROVE u[i] \in Elements(s) \cup Elements(t)
  <2>1. CASE i <= Len(s)
    BY <1>1, <1>2, <1>3, <2>1 DEF Elements
  <2>2. CASE ~(i <= Len(s))
    <3>1. u[i] = t[i - Len(s)] /\ i - Len(s) \in DOMAIN t
      BY <1>1, <1>2, <1>3, <2>2
    <3> QED
      BY <3>1 DEF Elements
  <2> QED
    BY <2>1, <2>2
<1>5. ASSUME NEW i \in DOMAIN Tail(u) PROVE Tail(u)[i] \in Elements(Tail(s)) \cup Elements(t)
  <2>1. Tail(u)[i] = u[i + 1] /\ i + 1 \in DOMAIN u /\ i \in Nat \ {0}
    BY <1>1, <1>3
  <2>2. CASE i + 1 <= Len(s)
    <3>1. Tail(u)[i] = Tail(s)[i] /\ i \in DOMAIN Tail(s)
      BY <1>1, <1>2, <1>3, <2>1, <2>2
    <3> QED
      BY <3>1 DEF Elements
  <2>3. CASE ~(i + 1 <= Len(s))
    <3>1. Tail(u)[i] = t[i + 1 - Len(s)] /\ i + 1 - Len(s) \in DOMAIN t
      BY <1>1, <1>2, <1>3, <2>1, <2>3
    <3> QED
      BY <3>1 DEF Elements
  <2> QED
    BY <2>2, <2>3
<1>6. Elements(u) \subseteq Elements(s) \cup Elements(t)
  BY <1>4 DEF Elements
<1>7. Elements(Tail(u)) \subseteq Elements(Tail(s)) \cup Elements(t)
  BY <1>5 DEF Elements
<1> QED
  BY <1>1, <1>2, <1>3, <1>6, <1>7 DEF u

-----------------------------------------------------------------------------
\* The inductive invariant

\* A write in the list s names what exists, or the document that is written
\* first.
Coming(s, w) ==
  s # <<>> /\ Head(s).to = "document" /\ Head(s).repo = w.repo /\ Head(s).id = w.id

SoundIn(s, w) ==
  /\ w.to = "document" => w.branch \in Branches /\ w.id \in Commits /\ documents[w.id] = None
  /\ w.to = "head" => w.branch \in Branches
  /\ w.to \in {"head", "applied", "origin"} => w.id \in Ref(w.repo) \/ Coming(s, w)
  /\ w.to = "stash" => w.id \in Ref(w.repo) /\ (~slipped => stash[w.repo] = None)

OneStash(s) == \A i, j \in DOMAIN s : s[i].to = "stash" /\ s[j].to = "stash" => i = j

NoDocument(s) == \A w \in Elements(s) : w.to # "document"

NoStash(s) == \A w \in Elements(s) : w.to # "stash"

TodoSound ==
  /\ \A w \in Elements(todo) : SoundIn(todo, w)
  /\ OneStash(todo)
  /\ todo # <<>> => NoDocument(Tail(todo))

\* A plan names what exists, and its stash goes to an empty slot.
PlanFits(d) ==
  /\ d.at.id \in Ref(d.repo)
  /\ d.op = "checkout" => /\ d.at.id \in History(d.repo)
                          /\ documents[d.at.id].configuration = d.target
  /\ \A s \in d.steps : s.action = "store" <=> d.target[s.part] = None
  /\ ~slipped => (d.op = "stash" => stash[d.repo] = None) /\ NoStash(todo)

PlanSound == \A h \in Handlers : plan[h] # None => PlanFits(plan[h])

\* There is one plan at a time, as long as nobody slips in.
OnePlan == ~slipped => \A g, h \in Handlers : plan[g] # None /\ plan[h] # None => g = h

\* The components that a plan has no step for are where it wants them, and
\* each of the others is there after its step.
OnItsWay(d) ==
  /\ \A p \in Parts : (\A s \in d.steps : s.part # p) => runtime[p] = Project(d.target)[p]
  /\ \A s, t \in d.steps : s.part = t.part => s = t

Placed == ~missed /\ ~slipped =>
  /\ runtime = bench /\ saved = bench
  /\ \A h \in Handlers : plan[h] # None => OnItsWay(plan[h])
  /\ \A w \in Elements(todo) : w.to = "runtime" => bench = Project(w.configuration)

Inv == TypeOK /\ RefsSound /\ TodoSound /\ PlanSound /\ OnePlan /\ Placed

LEMMA InvInit == Init => Inv
<1> SUFFICES ASSUME Init PROVE Inv
  OBVIOUS
<1>1. TypeOK
  <2>1. runtime \in [Parts -> Places] /\ saved = runtime /\ bench = runtime
    BY ProjectTyped, EmptyTyped DEF Init
  <2>2. /\ documents \in [Commits -> Document \cup {None}] /\ heads \in [Repos -> [Branches -> Node]]
        /\ applied \in [Repos -> At] /\ stash \in [Repos -> Snapshot \cup {None}]
        /\ origin \in [repo : Repos \cup {None}, id : Node]
    BY DEF Init, Node, At
  <2>3. /\ plan = [h \in Handlers |-> None] /\ todo = <<>> /\ owed = None
        /\ missed = FALSE /\ slipped = FALSE /\ cut = FALSE /\ status = "IDLE" /\ move = None
    BY DEF Init
  <2>4. <<>> \in Seq(Writes)
    OBVIOUS
  <2>5. missed \in BOOLEAN /\ slipped \in BOOLEAN /\ cut \in BOOLEAN
    BY <2>3, Zenon
  <2> QED
    BY <2>1, <2>2, <2>3, <2>4, <2>5 DEF TypeOK
<1>2. RefsSound
  BY ControlAssumptions DEF Init, RefsSound, Ref
<1>3. TodoSound
  BY ElementsOfFew DEF Init, TodoSound, OneStash
<1>4. PlanSound /\ OnePlan /\ Placed
  BY ElementsOfFew DEF Init, PlanSound, OnePlan, Placed
<1> QED
  BY <1>1, <1>2, <1>3, <1>4 DEF Inv

\* What the invariant says of one repository
LEMMA RepoFacts ==
  ASSUME Inv, NEW r \in Repos
  PROVE  /\ Applied(r) \in At /\ Applied(r).id \in Ref(r) /\ Base(r) \in Configurations
         /\ \A c \in History(r) : /\ c \in Commits /\ documents[c] \in Document
                                  /\ documents[c].branch \in Branches
                                  /\ documents[c].configuration \in Configurations
         /\ Ref(r) \subseteq Node
         /\ \A b \in Branches \cup {None} : get_head(r, b) \in Ref(r)
<1>1. \A c \in History(r) : /\ c \in Commits /\ documents[c] \in Document
                            /\ documents[c].branch \in Branches
                            /\ documents[c].configuration \in Configurations
  BY DEF Inv, TypeOK, History, Document
<1>2. Ref(r) \subseteq Node
  BY <1>1 DEF Ref, Node
<1>3. Applied(r) \in At /\ Applied(r).id \in Ref(r)
  BY DEF Inv, TypeOK, RefsSound, Applied, At, Node, Ref
<1>4. Base(r) \in Configurations
  BY <1>1, <1>3, EmptyTyped DEF Base, Ref
<1>5. \A b \in Branches \cup {None} : get_head(r, b) \in Ref(r)
  BY DEF Inv, RefsSound, get_head, Ref
<1> QED
  BY <1>1, <1>2, <1>3, <1>4, <1>5

\* The rest of the state keeps its types, and what was missed stays missed.
RestTyped ==
  /\ owed' \in Configurations \cup {None}
  /\ missed' \in BOOLEAN /\ slipped' \in BOOLEAN /\ cut' \in BOOLEAN
  /\ status' \in {"IDLE", "BUSY"} /\ move' \in Moves \cup {None}
  /\ (missed => missed') /\ (slipped => slipped')

LEMMA GiveUpTyped ==
  ASSUME Inv, NEW cfg, GiveUp(cfg)
  PROVE  owed' \in Configurations \cup {None}
  BY DEF Inv, TypeOK, GiveUp

LEMMA TrustedTyped ==
  ASSUME Inv, NEW cfg, Trusted(cfg)
  PROVE  missed' \in BOOLEAN /\ (~missed' => ~missed /\ bench = Project(cfg))
  BY DEF Inv, TypeOK, Trusted

LEMMA AdmittedTyped ==
  ASSUME Inv, Admitted
  PROVE  slipped' \in BOOLEAN /\ (slipped => slipped') /\ (~slipped' => ~slipped /\ ~Awaited)
  BY Zenon DEF Inv, TypeOK, Admitted

\* A list of writes that a handler may go on to
Lands(w) == w.to = "runtime" /\ ~missed' /\ ~slipped' => bench' = Project(w.configuration)

Good(s) ==
  /\ s \in Seq(Writes) /\ OneStash(s) /\ (s # <<>> => NoDocument(Tail(s)))
  /\ \A w \in Elements(s) : SoundIn(s, w) /\ Lands(w)

\* The plans that go on, and the writes that come.
LEMMA PlansKept ==
  ASSUME Inv, UNCHANGED files, slipped => slipped', \A h \in Handlers : plan'[h] \in {None, plan[h]},
         ~slipped' => NoStash(todo') \/ \A h \in Handlers : plan'[h] = None
  PROVE  PlanSound' /\ OnePlan'
<1>1. UNCHANGED <<documents, stash>> /\ \A r : Ref(r)' = Ref(r) /\ History(r)' = History(r)
  BY DEF files, Ref, History
<1>2. ASSUME NEW h \in Handlers, plan'[h] # None PROVE PlanFits(plan[h])'
  <2>1. plan'[h] = plan[h] /\ PlanFits(plan[h])
    BY <1>2 DEF Inv, PlanSound
  <2>2. ~slipped' => NoStash(todo)'
    BY <1>2 DEF NoStash
  <2> QED
    BY <1>1, <2>1, <2>2 DEF PlanFits
<1>3. OnePlan'
  BY DEF Inv, OnePlan
<1> QED
  BY <1>2, <1>3 DEF PlanSound

LEMMA Goes ==
  ASSUME Inv, UNCHANGED files, TypeOK', slipped => slipped', Good(todo'), PlanSound', OnePlan',
         ~missed' /\ ~slipped' =>
           /\ runtime' = bench' /\ saved' = bench'
           /\ \A h \in Handlers : plan'[h] # None => OnItsWay(plan[h])'
  PROVE  Inv'
<1>1. UNCHANGED <<documents, heads, applied, stash, origin>>
  BY DEF files
<1>2. \A r : Ref(r)' = Ref(r) /\ History(r)' = History(r)
  BY <1>1 DEF Ref, History
<1>3. RefsSound'
  BY <1>1, <1>2 DEF Inv, RefsSound
<1>4. TodoSound'
  BY <1>1, <1>2 DEF TodoSound, Good, SoundIn
<1>5. \A w \in Elements(todo') : w.to = "runtime" /\ ~missed' /\ ~slipped'
                                   => bench' = Project(w.configuration)'
  BY DEF Good, Lands, Project
<1>6. Placed'
  BY <1>5 DEF Placed
<1> QED
  BY <1>3, <1>4, <1>6 DEF Inv

\* A handler that goes on to its writes
LEMMA NewTodo ==
  ASSUME Inv, UNCHANGED <<files, lab, plan>>, RestTyped, Good(todo'),
         ~slipped' => NoStash(todo') \/ ~Awaited
  PROVE  Inv'
<1>1. UNCHANGED <<documents, heads, applied, stash, origin, saved, runtime, bench>>
  BY DEF files, lab
<1>2. TypeOK'
  BY <1>1 DEF Inv, TypeOK, RestTyped, Good
<1>3. PlanSound' /\ OnePlan'
  <2>1. slipped => slipped'
    BY DEF RestTyped
  <2>2. ~slipped' => NoStash(todo') \/ \A h \in Handlers : plan'[h] = None
    BY DEF Awaited
  <2> QED
    BY <2>1, <2>2, PlansKept
<1>4. ~missed' /\ ~slipped' =>
        /\ runtime' = bench' /\ saved' = bench'
        /\ \A h \in Handlers : plan'[h] # None => OnItsWay(plan[h])'
  BY <1>1 DEF Inv, Placed, OnItsWay, Project, RestTyped
<1> QED
  BY <1>2, <1>3, <1>4, Goes DEF RestTyped

\* A handler that stops for its plan
LEMMA NewPlan ==
  ASSUME Inv, UNCHANGED <<files, lab, todo>>, RestTyped, todo = <<>>, ~slipped' => ~Awaited,
         NEW op \in {"checkout", "stash", "pop"}, NEW r \in Repos, NEW at \in At,
         NEW target \in Configurations, NEW snapshot \in Configurations,
         at.id \in Ref(r), op = "stash" => stash[r] = None,
         op = "checkout" => at.id \in History(r) /\ documents[at.id].configuration = target,
         NEW h \in Handlers,
         plan' = [plan EXCEPT ![h] =
           [op |-> op, repo |-> r, at |-> at, target |-> target, snapshot |-> snapshot,
            steps |-> Plan(Extract(runtime), target)]]
  PROVE  Inv'
<1> DEFINE steps == Plan(Extract(runtime), target)
           d == [op |-> op, repo |-> r, at |-> at, target |-> target, snapshot |-> snapshot,
                 steps |-> steps]
<1>1. UNCHANGED <<documents, heads, applied, stash, origin, saved, runtime, bench>>
  BY DEF files, lab
<1>2. \A q : Ref(q)' = Ref(q) /\ History(q)' = History(q)
  BY <1>1 DEF Ref, History
<1>3. d \in Plans
  BY PlanTyped DEF Plans
<1>4. /\ plan' \in [Handlers -> Plans \cup {None}] /\ plan'[h] = d
      /\ \A g \in Handlers : g # h => plan'[g] = plan[g]
  BY <1>3 DEF Inv, TypeOK
<1>5. TypeOK'
  BY <1>1, <1>4 DEF Inv, TypeOK, RestTyped
<1>6. PlanSound'
  <2>1. \A s \in steps : s.action = "store" <=> target[s.part] = None
    BY DEF Plan
  <2>2. NoStash(todo)'
    BY ElementsOfFew DEF NoStash
  <2>3. PlanFits(plan[h])'
    <3>1. /\ d.at = at /\ d.repo = r /\ d.op = op /\ d.target = target /\ d.steps = steps
      OBVIOUS
    <3> HIDE DEF d, steps
    <3> QED
      BY <1>1, <1>2, <1>4, <2>1, <2>2, <3>1 DEF PlanFits
  <2>4. ASSUME NEW g \in Handlers, g # h, plan'[g] # None PROVE PlanFits(plan[g])'
    <3>1. plan'[g] = plan[g] /\ PlanFits(plan[g])
      BY <1>4, <2>4 DEF Inv, PlanSound
    <3> QED
      BY <1>1, <1>2, <2>2, <3>1 DEF PlanFits, RestTyped
  <2> HIDE DEF d, steps
  <2> QED
    BY <2>3, <2>4 DEF PlanSound
<1>7. ~slipped' => \A g \in Handlers : g # h => plan'[g] = None
  BY <1>4 DEF Awaited
<1>8. OnePlan'
  BY <1>7 DEF OnePlan
<1>9. /\ d.target = target /\ d.steps = steps
      /\ runtime \in [Parts -> Places] /\ target \in [Parts -> Poses \cup {None}]
  BY DEF Inv, TypeOK, Configurations
<1>10. OnItsWay(d)
  <2>1. ASSUME NEW p \in Parts, \A s \in steps : s.part # p
        PROVE  runtime[p] = Project(target)[p]
    <3>1. /\ ~(Extract(runtime)[p] = None /\ target[p] # None)
          /\ ~(Extract(runtime)[p] # None /\ target[p] = None)
          /\ ~(Extract(runtime)[p] # None /\ target[p] # None /\ Extract(runtime)[p] # target[p])
      <4>1. [part |-> p, action |-> "place"] \notin steps /\ [part |-> p, action |-> "store"] \notin steps
            /\ [part |-> p, action |-> "move"] \notin steps
        BY <2>1
      <4> QED
        BY <4>1 DEF Plan
    <3> QED
      BY <1>9, <3>1, ControlAssumptions DEF Extract, Project, Places
  <2>2. \A s, t \in steps : s.part = t.part => s = t
    BY DEF Plan
  <2> HIDE DEF d, steps
  <2> QED
    BY <1>9, <2>1, <2>2 DEF OnItsWay
<1> HIDE DEF d, steps
<1>11. ~missed' /\ ~slipped' =>
         /\ runtime' = bench' /\ saved' = bench'
         /\ \A g \in Handlers : plan'[g] # None => OnItsWay(plan[g])'
  <2> SUFFICES ASSUME ~missed', ~slipped'
               PROVE  /\ runtime' = bench' /\ saved' = bench'
                      /\ \A g \in Handlers : plan'[g] # None => OnItsWay(plan[g])'
    OBVIOUS
  <2>1. runtime' = bench' /\ saved' = bench'
    BY <1>1 DEF Inv, Placed, RestTyped
  <2>2. OnItsWay(plan[h])'
    BY <1>1, <1>4, <1>10 DEF OnItsWay, Project
  <2> QED
    BY <1>7, <2>1, <2>2
<1>12. Good(todo')
  <2>1. todo' = <<>> /\ <<>> \in Seq(Writes)
    OBVIOUS
  <2> QED
    BY <2>1, ElementsOfFew DEF Good, OneStash
<1> QED
  BY <1>5, <1>6, <1>8, <1>11, <1>12, Goes DEF RestTyped

\* An empty plan: the components are where it wants them.
LEMMA NothingToMove ==
  ASSUME NEW s \in [Parts -> Places], NEW target \in Configurations, Plan(Extract(s), target) = {}
  PROVE  Project(target) = s
<1>1. ASSUME NEW p \in Parts PROVE Project(target)[p] = s[p]
  <2>1. /\ ~(Extract(s)[p] = None /\ target[p] # None)
        /\ ~(Extract(s)[p] # None /\ target[p] = None)
        /\ ~(Extract(s)[p] # None /\ target[p] # None /\ Extract(s)[p] # target[p])
    BY DEF Plan
  <2> QED
    BY <2>1, ControlAssumptions DEF Extract, Project, Places, Configurations
<1> QED
  BY <1>1 DEF Project

\* Without a stash and a document there is nothing to say of their order.
LEMMA PlainList ==
  ASSUME NEW s \in Seq(Writes), \A w \in Elements(s) : w.to \notin {"document", "stash"}
  PROVE  OneStash(s) /\ NoStash(s) /\ (s # <<>> => NoDocument(Tail(s)))
<1>1. OneStash(s)
  BY DEF OneStash, Elements
<1>2. s # <<>> => NoDocument(Tail(s))
  BY TailElements DEF NoDocument
<1> QED
  BY <1>1, <1>2 DEF NoStash

-----------------------------------------------------------------------------
\* The lists of writes

LEMMA WriteFacts ==
  ASSUME Inv, NEW r \in Repos, NEW s
  PROVE  /\ \A c \in Ref(r), b \in Branches \cup {None} :
              /\ SetApplied(r, b, c) \in Writes /\ SetApplied(r, b, c).to = "applied"
              /\ SoundIn(s, SetApplied(r, b, c)) /\ Lands(SetApplied(r, b, c))
         /\ \A c \in Ref(r), b \in Branches :
              /\ SetHead(r, b, c) \in Writes /\ SetHead(r, b, c).to = "head"
              /\ SoundIn(s, SetHead(r, b, c)) /\ Lands(SetHead(r, b, c))
         /\ \A c \in Ref(r) :
              /\ ClaimBench(r, c) \in Writes /\ ClaimBench(r, c).to = "origin"
              /\ SoundIn(s, ClaimBench(r, c)) /\ Lands(ClaimBench(r, c))
         /\ /\ ClearStash(r) \in Writes /\ ClearStash(r).to = "clear"
            /\ SoundIn(s, ClearStash(r)) /\ Lands(ClearStash(r))
         /\ /\ PersistState(r) \in Writes /\ PersistState(r).to = "saved"
            /\ SoundIn(s, PersistState(r)) /\ Lands(PersistState(r))
         /\ \A cfg \in Configurations :
              /\ Projection(r, cfg) \in Writes /\ Projection(r, cfg).to = "runtime"
              /\ SoundIn(s, Projection(r, cfg))
              /\ (~missed' /\ ~slipped' => bench' = Project(cfg)) => Lands(Projection(r, cfg))
         /\ \A cfg \in Configurations, c \in Ref(r) :
              /\ SaveStash(r, cfg, c) \in Writes /\ SaveStash(r, cfg, c).to = "stash"
              /\ Lands(SaveStash(r, cfg, c))
              /\ (~slipped => stash[r] = None) => SoundIn(s, SaveStash(r, cfg, c))
<1>1. None \in Node /\ Ref(r) \subseteq Node
  BY RepoFacts DEF Node
<1> USE <1>1, EmptyTyped DEF SoundIn, Lands
<1>2. \A c \in Ref(r), b \in Branches \cup {None} :
        /\ SetApplied(r, b, c) \in Writes /\ SetApplied(r, b, c).to = "applied"
        /\ SoundIn(s, SetApplied(r, b, c)) /\ Lands(SetApplied(r, b, c))
  BY WTyped DEF Targets, SetApplied
<1>3. \A c \in Ref(r), b \in Branches :
        /\ SetHead(r, b, c) \in Writes /\ SetHead(r, b, c).to = "head"
        /\ SoundIn(s, SetHead(r, b, c)) /\ Lands(SetHead(r, b, c))
  BY WTyped DEF Targets, SetHead
<1>4. \A c \in Ref(r) :
        /\ ClaimBench(r, c) \in Writes /\ ClaimBench(r, c).to = "origin"
        /\ SoundIn(s, ClaimBench(r, c)) /\ Lands(ClaimBench(r, c))
  BY WTyped DEF Targets, ClaimBench
<1>5. /\ ClearStash(r) \in Writes /\ ClearStash(r).to = "clear"
      /\ SoundIn(s, ClearStash(r)) /\ Lands(ClearStash(r))
  BY WTyped DEF Targets, ClearStash
<1>6. /\ PersistState(r) \in Writes /\ PersistState(r).to = "saved"
      /\ SoundIn(s, PersistState(r)) /\ Lands(PersistState(r))
  BY WTyped DEF Targets, PersistState
<1>7. \A cfg \in Configurations :
        /\ Projection(r, cfg) \in Writes /\ Projection(r, cfg).to = "runtime"
        /\ SoundIn(s, Projection(r, cfg))
        /\ (~missed' /\ ~slipped' => bench' = Project(cfg)) => Lands(Projection(r, cfg))
  BY WTyped DEF Targets, Projection
<1>8. \A cfg \in Configurations, c \in Ref(r) :
        /\ SaveStash(r, cfg, c) \in Writes /\ SaveStash(r, cfg, c).to = "stash"
        /\ Lands(SaveStash(r, cfg, c))
        /\ (~slipped => stash[r] = None) => SoundIn(s, SaveStash(r, cfg, c))
  BY WTyped DEF Targets, SaveStash
<1> QED
  BY <1>2, <1>3, <1>4, <1>5, <1>6, <1>7, <1>8

LEMMA CommitGood ==
  ASSUME Inv, NEW r \in Repos, NEW b \in Branches, NEW c \in Commits, documents[c] = None
  PROVE  /\ Good(CommitWrites(r, b, c)) /\ NoStash(CommitWrites(r, b, c))
         /\ RestTyped /\ bench' = bench =>
              /\ Good(CommitWrites(r, b, c) \o <<Projection(r, Extract(runtime)), PersistState(r)>>)
              /\ NoStash(CommitWrites(r, b, c) \o <<Projection(r, Extract(runtime)), PersistState(r)>>)
<1> DEFINE list == CommitWrites(r, b, c)
           save == SaveDocument(r, b, c, Extract(runtime))
           more == <<Projection(r, Extract(runtime)), PersistState(r)>>
<1>1. runtime \in [Parts -> Places] /\ Extract(runtime) \in Configurations
  BY ExtractTyped DEF Inv, TypeOK
<1>2. /\ list \in Seq(Writes) /\ list # <<>> /\ Head(list) = save
      /\ Elements(Tail(list)) = {SetHead(r, b, c), SetApplied(r, b, c), ClaimBench(r, c)}
      /\ Elements(list) = {save, SetHead(r, b, c), SetApplied(r, b, c), ClaimBench(r, c)}
  BY <1>1, CommitList
<1>3. /\ save.to = "document" /\ save.repo = r /\ save.branch = b /\ save.id = c
      /\ SetHead(r, b, c).to = "head" /\ SetHead(r, b, c).repo = r
      /\ SetHead(r, b, c).branch = b /\ SetHead(r, b, c).id = c
      /\ SetApplied(r, b, c).to = "applied" /\ SetApplied(r, b, c).repo = r
      /\ SetApplied(r, b, c).id = c
      /\ ClaimBench(r, c).to = "origin" /\ ClaimBench(r, c).repo = r /\ ClaimBench(r, c).id = c
  BY DEF SaveDocument, SetHead, SetApplied, ClaimBench, W
<1> HIDE DEF list, save, more
<1>4. ASSUME NEW s, s # <<>>, Head(s) = save, NEW w \in Elements(list)
      PROVE  SoundIn(s, w) /\ Lands(w) /\ w.to # "stash"
  BY <1>2, <1>3, <1>4 DEF SoundIn, Coming, Lands
<1>5. OneStash(list) /\ NoDocument(Tail(list)) /\ NoStash(list)
  <2>1. NoDocument(Tail(list)) /\ NoStash(list)
    BY <1>2, <1>3 DEF NoDocument, NoStash
  <2> QED
    BY <2>1 DEF OneStash, NoStash, Elements
<1>6. Good(list)
  BY <1>2, <1>4, <1>5 DEF Good
<1>7. ASSUME RestTyped, bench' = bench PROVE Good(list \o more) /\ NoStash(list \o more)
  <2>1. /\ Projection(r, Extract(runtime)) \in Writes /\ PersistState(r) \in Writes
        /\ Projection(r, Extract(runtime)).to = "runtime" /\ PersistState(r).to = "saved"
        /\ \A s : SoundIn(s, Projection(r, Extract(runtime))) /\ SoundIn(s, PersistState(r))
        /\ (~missed' /\ ~slipped' => bench' = Project(Extract(runtime))) => Lands(Projection(r, Extract(runtime)))
        /\ Lands(PersistState(r))
    BY <1>1, WriteFacts
  <2>2. ~missed' /\ ~slipped' => bench' = Project(Extract(runtime))
    BY <1>1, <1>7, ProjectExtract DEF Inv, Placed, RestTyped
  <2>3. more \in Seq(Writes) /\ Elements(more) = {Projection(r, Extract(runtime)), PersistState(r)}
    BY <2>1, ElementsOfFew DEF more
  <2>4. /\ list \o more \in Seq(Writes) /\ list \o more # <<>> /\ Head(list \o more) = save
        /\ Elements(list \o more) \subseteq Elements(list) \cup Elements(more)
        /\ Elements(Tail(list \o more)) \subseteq Elements(Tail(list)) \cup Elements(more)
    BY <1>2, <2>3, ConcatList
  <2> DEFINE u == list \o more
  <2> HIDE DEF u
  <2>5. \A w \in Elements(u) : SoundIn(u, w) /\ Lands(w) /\ w.to # "stash"
    BY <1>4, <2>1, <2>2, <2>3, <2>4 DEF u
  <2>6. NoDocument(Tail(u)) /\ NoStash(u)
    BY <1>5, <2>1, <2>3, <2>4, <2>5 DEF u, NoDocument, NoStash
  <2>7. OneStash(u)
    BY <2>6 DEF OneStash, NoStash, Elements
  <2>8. Good(u)
    BY <2>4, <2>5, <2>6, <2>7 DEF Good, u
  <2> QED
    BY <2>6, <2>8 DEF u
<1> QED
  BY <1>5, <1>6, <1>7 DEF list, more

\* A list of writes none of which is a document or a stash
LEMMA PlainGood ==
  ASSUME NEW s \in Seq(Writes),
         \A w \in Elements(s) : /\ w.to \notin {"document", "stash"}
                                /\ SoundIn(s, w) /\ Lands(w)
  PROVE  Good(s) /\ NoStash(s)
  BY PlainList DEF Good

LEMMA CheckoutGood ==
  ASSUME Inv, NEW r \in Repos, NEW b \in Branches \cup {None}, NEW c \in History(r),
         ~missed' /\ ~slipped' => bench' = Project(documents[c].configuration)
  PROVE  Good(CheckoutWrites(r, b, c)) /\ NoStash(CheckoutWrites(r, b, c))
<1> DEFINE s == CheckoutWrites(r, b, c)
           p == Projection(r, documents[c].configuration)
<1>1. c \in Ref(r) /\ documents[c].configuration \in Configurations
  BY RepoFacts DEF Ref
<1>2. /\ s \in Seq(Writes)
      /\ Elements(s) = {p, SetApplied(r, b, c), ClaimBench(r, c), PersistState(r)}
  BY <1>1, WriteFacts, ElementsOfFew DEF CheckoutWrites
<1> HIDE DEF s
<1>3. \A w \in Elements(s) : w.to \notin {"document", "stash"} /\ SoundIn(s, w) /\ Lands(w)
  <2>1. p.to = "runtime" /\ SoundIn(s, p) /\ Lands(p)
    BY <1>1, WriteFacts
  <2>2. /\ SetApplied(r, b, c).to = "applied" /\ SoundIn(s, SetApplied(r, b, c))
        /\ Lands(SetApplied(r, b, c))
    BY <1>1, WriteFacts
  <2>3. ClaimBench(r, c).to = "origin" /\ SoundIn(s, ClaimBench(r, c)) /\ Lands(ClaimBench(r, c))
    BY <1>1, WriteFacts
  <2>4. PersistState(r).to = "saved" /\ SoundIn(s, PersistState(r)) /\ Lands(PersistState(r))
    BY WriteFacts
  <2> QED
    BY <1>2, <2>1, <2>2, <2>3, <2>4
<1> QED
  BY <1>2, <1>3, PlainGood DEF s

LEMMA ForkGood ==
  ASSUME Inv, NEW r \in Repos, NEW b \in Branches, NEW c \in History(r)
  PROVE  Good(<<SetHead(r, b, c), SetApplied(r, b, c), ClaimBench(r, c)>>)
         /\ NoStash(<<SetHead(r, b, c), SetApplied(r, b, c), ClaimBench(r, c)>>)
<1> DEFINE s == <<SetHead(r, b, c), SetApplied(r, b, c), ClaimBench(r, c)>>
<1>1. c \in Ref(r)
  BY DEF Ref
<1>2. s \in Seq(Writes) /\ Elements(s) = {SetHead(r, b, c), SetApplied(r, b, c), ClaimBench(r, c)}
  BY <1>1, WriteFacts, ElementsOfFew
<1> HIDE DEF s
<1>3. \A w \in Elements(s) : w.to \notin {"document", "stash"} /\ SoundIn(s, w) /\ Lands(w)
  <2>1. /\ SetApplied(r, b, c).to = "applied" /\ SoundIn(s, SetApplied(r, b, c))
        /\ Lands(SetApplied(r, b, c))
    BY <1>1, WriteFacts
  <2>2. ClaimBench(r, c).to = "origin" /\ SoundIn(s, ClaimBench(r, c)) /\ Lands(ClaimBench(r, c))
    BY <1>1, WriteFacts
  <2>3. SetHead(r, b, c).to = "head" /\ SoundIn(s, SetHead(r, b, c)) /\ Lands(SetHead(r, b, c))
    BY <1>1, WriteFacts
  <2> QED
    BY <1>2, <2>1, <2>2, <2>3
<1> QED
  BY <1>2, <1>3, PlainGood DEF s

LEMMA AdoptGood ==
  ASSUME Inv, NEW r \in Repos, NEW b \in Branches, NEW c \in History(r)
  PROVE  Good(<<SetApplied(r, b, c), ClaimBench(r, c), PersistState(r)>>)
<1> DEFINE s == <<SetApplied(r, b, c), ClaimBench(r, c), PersistState(r)>>
<1>1. c \in Ref(r)
  BY DEF Ref
<1>2. s \in Seq(Writes) /\ Elements(s) = {SetApplied(r, b, c), ClaimBench(r, c), PersistState(r)}
  BY <1>1, WriteFacts, ElementsOfFew
<1> HIDE DEF s
<1>3. \A w \in Elements(s) : w.to \notin {"document", "stash"} /\ SoundIn(s, w) /\ Lands(w)
  <2>1. /\ SetApplied(r, b, c).to = "applied" /\ SoundIn(s, SetApplied(r, b, c))
        /\ Lands(SetApplied(r, b, c))
    BY <1>1, WriteFacts
  <2>2. ClaimBench(r, c).to = "origin" /\ SoundIn(s, ClaimBench(r, c)) /\ Lands(ClaimBench(r, c))
    BY <1>1, WriteFacts
  <2>3. PersistState(r).to = "saved" /\ SoundIn(s, PersistState(r)) /\ Lands(PersistState(r))
    BY WriteFacts
  <2> QED
    BY <1>2, <2>1, <2>2, <2>3
<1> QED
  BY <1>2, <1>3, PlainGood DEF s

LEMMA DropGood ==
  ASSUME Inv, NEW r \in Repos
  PROVE  Good(<<ClearStash(r)>>) /\ NoStash(<<ClearStash(r)>>)
<1> DEFINE s == <<ClearStash(r)>>
<1>1. s \in Seq(Writes) /\ Elements(s) = {ClearStash(r)}
  BY WriteFacts, ElementsOfFew
<1> HIDE DEF s
<1>2. \A w \in Elements(s) : w.to \notin {"document", "stash"} /\ SoundIn(s, w) /\ Lands(w)
  BY <1>1, WriteFacts
<1> QED
  BY <1>1, <1>2, PlainGood DEF s

LEMMA PopGood ==
  ASSUME Inv, NEW r \in Repos, NEW cfg \in Configurations, ~missed' /\ ~slipped' => bench' = Project(cfg)
  PROVE  Good(PopWrites(r, cfg))
<1> DEFINE s == PopWrites(r, cfg)
<1>1. s \in Seq(Writes) /\ Elements(s) = {Projection(r, cfg), ClearStash(r), PersistState(r)}
  BY WriteFacts, ElementsOfFew DEF PopWrites
<1> HIDE DEF s
<1>2. \A w \in Elements(s) : w.to \notin {"document", "stash"} /\ SoundIn(s, w) /\ Lands(w)
  BY <1>1, WriteFacts
<1> QED
  BY <1>1, <1>2, PlainGood DEF s

LEMMA StashGood ==
  ASSUME Inv, NEW r \in Repos, NEW at \in At, at.id \in Ref(r), NEW base \in Configurations,
         NEW snapshot \in Configurations, ~slipped => stash[r] = None,
         ~missed' /\ ~slipped' => bench' = Project(base)
  PROVE  Good(StashWrites(r, at, base, snapshot))
<1> DEFINE s == StashWrites(r, at, base, snapshot)
           v == SaveStash(r, snapshot, at.id)
<1>1. at.branch \in Branches \cup {None}
  BY DEF At
<1>2. /\ Projection(r, base) \in Writes /\ SetApplied(r, at.branch, at.id) \in Writes
      /\ v \in Writes /\ ClaimBench(r, at.id) \in Writes /\ PersistState(r) \in Writes
  BY <1>1, WriteFacts
<1>3. /\ s \in Seq(Writes) /\ DOMAIN s = 1..5 /\ s[1] = Projection(r, base)
      /\ s[2] = SetApplied(r, at.branch, at.id) /\ s[3] = v /\ s[4] = ClaimBench(r, at.id)
      /\ s[5] = PersistState(r)
      /\ Elements(s) = {Projection(r, base), SetApplied(r, at.branch, at.id), v,
                        ClaimBench(r, at.id), PersistState(r)}
  BY <1>2, ElementsOfFew DEF StashWrites
<1> HIDE DEF s
<1>4. /\ s[1].to = "runtime" /\ s[2].to = "applied" /\ s[4].to = "origin" /\ s[5].to = "saved"
      /\ v.to = "stash"
  BY <1>1, <1>3, WriteFacts
<1>5. \A w \in Elements(s) : w.to # "document" /\ SoundIn(s, w) /\ Lands(w)
  <2> DEFINE Fits(w) == w.to # "document" /\ SoundIn(s, w) /\ Lands(w)
  <2>1. Fits(Projection(r, base)) /\ Fits(PersistState(r))
    BY WriteFacts
  <2>2. Fits(SetApplied(r, at.branch, at.id)) /\ Fits(ClaimBench(r, at.id))
    BY <1>1, WriteFacts
  <2>3. Fits(v)
    BY WriteFacts
  <2> HIDE DEF Fits, v
  <2>4. \A w \in Elements(s) : Fits(w)
    BY <1>3, <2>1, <2>2, <2>3
  <2> QED
    BY <2>4 DEF Fits
<1>6. OneStash(s)
  <2>1. \A i \in 1..5 : s[i].to = "stash" => i = 3
    BY <1>3, <1>4
  <2> QED
    BY <1>3, <2>1 DEF OneStash
<1>7. s # <<>> => NoDocument(Tail(s))
  BY <1>3, <1>5, TailElements DEF NoDocument
<1> QED
  BY <1>3, <1>5, <1>6, <1>7 DEF Good, s

-----------------------------------------------------------------------------
\* The handlers


LEMMA SameHistory ==
  ASSUME Inv, UNCHANGED <<motion, history>>
  PROVE  RestTyped
  BY DEF Inv, TypeOK, RestTyped, motion, history

LEMMA NewHistory ==
  ASSUME Inv, UNCHANGED motion, owed' \in Configurations \cup {None},
         missed' \in BOOLEAN, missed => missed', cut' \in BOOLEAN, Admitted \/ slipped' = slipped
  PROVE  RestTyped
<1>1. status' \in {"IDLE", "BUSY"} /\ move' \in Moves \cup {None}
  BY DEF motion, Inv, TypeOK
<1>2. slipped' \in BOOLEAN /\ (slipped => slipped')
  BY AdmittedTyped, Zenon DEF Inv, TypeOK
<1> QED
  BY <1>1, <1>2 DEF RestTyped

LEMMA CommitInv ==
  ASSUME Inv, NEW r \in Repos, NEW b \in Branches, Commit(r, b) \/ PostJobCommit(r, b)
  PROVE  Inv'
<1>1. RestTyped
  <2>1. CASE Commit(r, b)
    BY <2>1, NewHistory DEF Commit, Inv, TypeOK
  <2>2. CASE PostJobCommit(r, b)
    BY <2>2, SameHistory DEF PostJobCommit
  <2> QED
    BY <2>1, <2>2
<1>2. UNCHANGED <<files, lab, plan>> /\ bench' = bench
  BY DEF Commit, PostJobCommit, lab
<1>3. NextId \in Commits /\ documents[NextId] = None
  BY NextIdFree DEF Commit, PostJobCommit
<1>4. Good(todo') /\ NoStash(todo')
  BY <1>1, <1>2, <1>3, CommitGood DEF Commit, PostJobCommit
<1> QED
  BY <1>1, <1>2, <1>4, NewTodo

LEMMA ForkInv ==
  ASSUME Inv, NEW r \in Repos, NEW b \in Branches, NEW c \in Commits, Fork(r, b, c)
  PROVE  Inv'
<1>1. RestTyped /\ UNCHANGED <<files, lab, plan>>
  BY SameHistory DEF Fork
<1>2. Good(todo') /\ NoStash(todo')
  BY ForkGood DEF Fork
<1> QED
  BY <1>1, <1>2, NewTodo

LEMMA AdoptInv ==
  ASSUME Inv, NEW r \in Repos, NEW c \in Commits, Adopt(r, c)
  PROVE  Inv'
<1>1. /\ UNCHANGED <<files, lab, plan>> /\ Admitted /\ RestTyped
  BY NewHistory DEF Adopt, Inv, TypeOK
<1>2. Good(todo')
  BY AdoptGood, RepoFacts DEF Adopt
<1> QED
  BY <1>1, <1>2, AdmittedTyped, NewTodo

LEMMA FinalizeInv ==
  ASSUME Inv, NEW r \in Repos, NEW b \in Branches \cup {None}, NEW c \in History(r),
         todo' = CheckoutWrites(r, b, c), GiveUp(Extract(runtime)),
         Trusted(documents[c].configuration), UNCHANGED <<files, lab, motion, plan, cut>>,
         Admitted \/ slipped' = slipped
  PROVE  Inv'
<1>1. RestTyped /\ (~missed' => bench' = Project(documents[c].configuration))
  BY GiveUpTyped, TrustedTyped, NewHistory DEF Inv, TypeOK, lab
<1>2. Good(todo') /\ NoStash(todo')
  BY <1>1, CheckoutGood
<1> QED
  BY <1>1, <1>2, NewTodo

\* A handler that goes on without its plan, because there is nothing to move,
\* or awaits it
LEMMA ExecuteInv ==
  ASSUME Inv, Admitted, Free, NEW op \in {"checkout", "stash", "pop"}, NEW r \in Repos, NEW at \in At,
         NEW target \in Configurations, NEW snapshot \in Configurations, NEW writes,
         Execute(op, r, at, target, snapshot, writes), at.id \in Ref(r),
         op = "stash" => stash[r] = None,
         op = "checkout" => at.id \in History(r) /\ documents[at.id].configuration = target,
         owed' \in Configurations \cup {None}, missed' = missed, cut' \in BOOLEAN,
         UNCHANGED <<files, lab, move>>,
         (~missed' /\ ~slipped' => bench' = Project(target)) => Good(writes)
  PROVE  Inv'
<1>1. ~slipped' => ~slipped /\ ~Awaited
  BY AdmittedTyped
<1>2. RestTyped
  <2>1. status' \in {"IDLE", "BUSY"}
    BY DEF Execute, Inv, TypeOK
  <2> QED
    BY <2>1, AdmittedTyped DEF RestTyped, Inv, TypeOK
<1>3. CASE Plan(Extract(runtime), target) = {}
  <2>1. todo' = writes /\ plan' = plan
    BY <1>3 DEF Execute
  <2>2. ~missed' /\ ~slipped' => bench' = Project(target)
    BY <1>1, <1>3, NothingToMove DEF Inv, TypeOK, Placed, lab
  <2> QED
    BY <1>1, <1>2, <2>1, <2>2, NewTodo
<1>4. CASE Plan(Extract(runtime), target) # {}
  <2>1. PICK h \in Handlers :
          plan' = [plan EXCEPT ![h] =
            [op |-> op, repo |-> r, at |-> at, target |-> target, snapshot |-> snapshot,
             steps |-> Plan(Extract(runtime), target)]]
    BY <1>4 DEF Execute
  <2>2. UNCHANGED todo /\ todo = <<>>
    BY <1>4 DEF Execute, Free
  <2> QED
    BY <1>1, <1>2, <2>1, <2>2, NewPlan
<1> QED
  BY <1>3, <1>4

LEMMA CheckoutInv ==
  ASSUME Inv, NEW r \in Repos, NEW c \in Commits, NEW force \in BOOLEAN, Checkout(r, c, force)
  PROVE  Inv'
<1> DEFINE at == [id |-> c, branch |-> documents[c].branch]
           target == documents[c].configuration
<1>1. /\ Free /\ Admitted /\ c \in History(r) /\ missed' = missed /\ cut' = cut
      /\ UNCHANGED <<files, lab, move>>
      /\ Execute("checkout", r, at, target, EMPTY_CONFIGURATION, CheckoutWrites(r, at.branch, c))
      /\ GiveUp(Extract(runtime)) \/ UNCHANGED owed
  BY DEF Checkout
<1>2. owed' \in Configurations \cup {None} /\ cut' \in BOOLEAN
  BY <1>1, GiveUpTyped DEF Inv, TypeOK
<1>3. documents[c].branch \in Branches /\ target \in Configurations /\ at.id = c
      /\ at.branch \in Branches \cup {None} /\ at.branch = documents[c].branch
  BY <1>1, RepoFacts
<1>4. at \in At
  BY <1>3 DEF At, Node
<1>5. c \in Ref(r)
  BY <1>1 DEF Ref
<1> HIDE DEF at
<1>6. (~missed' /\ ~slipped' => bench' = Project(target)) => Good(CheckoutWrites(r, at.branch, c))
  BY <1>1, <1>3, CheckoutGood
<1> QED
  BY <1>1, <1>2, <1>3, <1>4, <1>5, <1>6, EmptyTyped, ExecuteInv

LEMMA StashInv ==
  ASSUME Inv, NEW r \in Repos, Stash(r)
  PROVE  Inv'
<1>1. /\ missed' = missed /\ owed' = owed /\ cut' = cut /\ Free /\ Admitted /\ stash[r] = None
      /\ UNCHANGED <<files, lab, move>>
      /\ Execute("stash", r, Applied(r), Base(r), Extract(runtime),
                 StashWrites(r, Applied(r), Base(r), Extract(runtime)))
  BY DEF Stash, SlotFree
<1>2. /\ Applied(r) \in At /\ Applied(r).id \in Ref(r) /\ Base(r) \in Configurations
      /\ Extract(runtime) \in Configurations
      /\ owed' \in Configurations \cup {None} /\ cut' \in BOOLEAN
  BY <1>1, RepoFacts, ExtractTyped DEF Inv, TypeOK
<1>3. (~missed' /\ ~slipped' => bench' = Project(Base(r)))
        => Good(StashWrites(r, Applied(r), Base(r), Extract(runtime)))
  BY <1>1, <1>2, StashGood
<1> QED
  BY <1>1, <1>2, <1>3, ExecuteInv

LEMMA StashFinalizeInv ==
  ASSUME Inv, NEW r \in Repos, NEW snapshot \in Configurations, StashFinalize(r, snapshot)
  PROVE  Inv'
<1>1. /\ GiveUp(Extract(runtime)) /\ Trusted(Base(r)) /\ Admitted /\ stash[r] = None
      /\ UNCHANGED <<files, lab, motion, plan, cut>>
      /\ todo' = StashWrites(r, Applied(r), Base(r), snapshot)
  BY DEF StashFinalize, SlotFree
<1>2. RestTyped /\ (~missed' => bench' = Project(Base(r)))
  BY <1>1, GiveUpTyped, TrustedTyped, NewHistory DEF Inv, TypeOK, lab
<1>3. Applied(r) \in At /\ Applied(r).id \in Ref(r) /\ Base(r) \in Configurations
  BY RepoFacts
<1>4. Good(todo')
  BY <1>1, <1>2, <1>3, StashGood
<1> QED
  BY <1>1, <1>2, <1>4, AdmittedTyped, NewTodo

LEMMA StashPopInv ==
  ASSUME Inv, NEW r \in Repos, StashPop(r)
  PROVE  Inv'
<1> DEFINE target == stash[r].configuration
<1>1. /\ Free /\ Admitted /\ stash[r] # None /\ owed' = owed /\ missed' = missed
      /\ UNCHANGED <<files, lab, move>>
      /\ Execute("pop", r, Applied(r), target, EMPTY_CONFIGURATION, PopWrites(r, target))
  BY DEF StashPop
<1>2. cut' \in BOOLEAN
  BY Zenon DEF StashPop
<1>3. owed' \in Configurations \cup {None}
  BY <1>1 DEF Inv, TypeOK
<1>4. /\ Applied(r) \in At /\ Applied(r).id \in Ref(r) /\ target \in Configurations
  BY <1>1, RepoFacts DEF Inv, TypeOK, Snapshot
<1> HIDE DEF target
<1>5. (~missed' /\ ~slipped' => bench' = Project(target)) => Good(PopWrites(r, target))
  BY <1>4, PopGood
<1> QED
  BY <1>1, <1>2, <1>3, <1>4, <1>5, EmptyTyped, ExecuteInv

LEMMA StashPopFinalizeInv ==
  ASSUME Inv, NEW r \in Repos, StashPopFinalize(r)
  PROVE  Inv'
<1> DEFINE target == stash[r].configuration
<1>1. /\ GiveUp(Extract(runtime)) /\ Trusted(target) /\ Admitted
      /\ stash[r] # None /\ UNCHANGED <<files, lab, motion, plan, cut>> /\ todo' = PopWrites(r, target)
  BY DEF StashPopFinalize
<1>2. RestTyped /\ (~missed' => bench' = Project(target))
  BY <1>1, GiveUpTyped, TrustedTyped, NewHistory DEF Inv, TypeOK, lab
<1>3. target \in Configurations
  BY <1>1 DEF Inv, TypeOK, Snapshot
<1> HIDE DEF target
<1>4. Good(todo')
  BY <1>1, <1>2, <1>3, PopGood
<1> QED
  BY <1>1, <1>2, <1>4, AdmittedTyped, NewTodo

LEMMA StashDropInv ==
  ASSUME Inv, NEW r \in Repos, StashDrop(r)
  PROVE  Inv'
<1>1. /\ GiveUp(stash[r].configuration) /\ missed' = missed /\ slipped' = slipped /\ cut' = cut
      /\ UNCHANGED <<files, lab, motion, plan>> /\ todo' = <<ClearStash(r)>>
  BY DEF StashDrop
<1>2. RestTyped
  BY <1>1, GiveUpTyped, NewHistory DEF Inv, TypeOK
<1>3. Good(todo') /\ NoStash(todo')
  BY <1>1, DropGood
<1> QED
  BY <1>1, <1>2, <1>3, NewTodo

-----------------------------------------------------------------------------
\* A write of a list

LEMMA WriteFrame ==
  ASSUME Inv, Write
  PROVE  /\ Head(todo) \in Writes /\ SoundIn(todo, Head(todo)) /\ Head(todo) \in Elements(todo)
         /\ todo' = Tail(todo) /\ todo' \in Seq(Writes) /\ OneStash(todo')
         /\ todo' # <<>> => NoDocument(Tail(todo'))
         /\ \A v \in Elements(todo') : /\ v \in Elements(todo) /\ v \in Writes /\ SoundIn(todo, v)
                                       /\ v.to # "document"
                                       /\ Head(todo).to = "stash" => v.to # "stash"
         /\ UNCHANGED <<bench, motion, plan, owed, missed, slipped, cut>>
<1>1. todo \in Seq(Writes) /\ todo # <<>> /\ todo' = Tail(todo)
  BY DEF Inv, TypeOK, Write, Free
<1>2. /\ Tail(todo) \in Seq(Writes) /\ Head(todo) \in Elements(todo)
      /\ Elements(Tail(todo)) \subseteq Elements(todo) /\ Elements(todo) \subseteq Writes
      /\ Tail(todo) # <<>> => Elements(Tail(Tail(todo))) \subseteq Elements(Tail(todo))
  BY <1>1, TailElements
<1>3. NoDocument(Tail(todo)) /\ OneStash(todo) /\ \A w \in Elements(todo) : SoundIn(todo, w)
  BY <1>1 DEF Inv, TodoSound
<1>4. /\ Head(todo) = todo[1] /\ 1 \in DOMAIN todo
      /\ DOMAIN Tail(todo) = 1..(Len(todo) - 1)
      /\ \A i \in DOMAIN Tail(todo) : Tail(todo)[i] = todo[i + 1] /\ i + 1 \in DOMAIN todo /\ i \in Nat \ {0}
  BY <1>1
<1>5. OneStash(Tail(todo))
  <2> SUFFICES ASSUME NEW i \in DOMAIN Tail(todo), NEW j \in DOMAIN Tail(todo),
                      Tail(todo)[i].to = "stash", Tail(todo)[j].to = "stash"
               PROVE  i = j
    BY DEF OneStash
  <2>1. i + 1 = j + 1
    BY <1>3, <1>4 DEF OneStash
  <2> QED
    BY <1>4, <2>1
<1>6. ASSUME Head(todo).to = "stash", NEW v \in Elements(Tail(todo)) PROVE v.to # "stash"
  <2>1. PICK i \in DOMAIN Tail(todo) : v = Tail(todo)[i]
    BY DEF Elements
  <2>2. i + 1 # 1 /\ v = todo[i + 1] /\ i + 1 \in DOMAIN todo
    BY <1>4, <2>1
  <2> QED
    BY <1>3, <1>4, <1>6, <2>2 DEF OneStash
<1>7. Tail(todo) # <<>> => NoDocument(Tail(Tail(todo)))
  BY <1>2, <1>3 DEF NoDocument
<1>8. UNCHANGED <<bench, motion, plan, owed, missed, slipped, cut>>
  BY DEF Write, history
<1> QED
  BY <1>1, <1>2, <1>3, <1>5, <1>6, <1>7, <1>8 DEF NoDocument

LEMMA RefGrows ==
  ASSUME \A c \in Commits : documents[c] # None => documents'[c] = documents[c]
  PROVE  \A r : Ref(r) \subseteq Ref(r)' /\ History(r) \subseteq History(r)'
  BY DEF Ref, History

\* What a write has to keep
LEMMA Written ==
  ASSUME Inv, Write, TypeOK', RefsSound',
         \A c \in Commits : documents[c] # None => documents'[c] = documents[c],
         \A v \in Elements(todo') : v.to \in {"head", "applied", "origin"} => v.id \in Ref(v.repo)',
         \A r \in Repos : stash[r] = None =>
           (stash'[r] = None \/ (Head(todo).to = "stash" /\ Head(todo).repo = r)),
         ~missed /\ ~slipped => runtime' = runtime /\ saved' \in {saved, runtime}
  PROVE  Inv'
<1>1. \A r : Ref(r) \subseteq Ref(r)' /\ History(r) \subseteq History(r)'
  BY RefGrows
<1>2. ASSUME NEW v \in Elements(todo') PROVE SoundIn(todo, v)'
  <2>1. /\ v \in Writes /\ SoundIn(todo, v) /\ v.to # "document" /\ slipped' = slipped
        /\ (Head(todo).to = "stash" => v.to # "stash")
    BY WriteFrame
  <2>2. v.repo \in Repos
    BY <2>1 DEF Writes
  <2>3. v.to = "stash" => v.id \in Ref(v.repo)' /\ (~slipped' => stash'[v.repo] = None)
    BY <1>1, <2>1, <2>2 DEF SoundIn
  <2> QED
    BY <2>1, <2>3 DEF SoundIn
<1>3. TodoSound'
  BY <1>2, WriteFrame DEF TodoSound
<1>4. ASSUME NEW h \in Handlers, plan'[h] # None PROVE PlanFits(plan[h])'
  <2>1. plan' = plan /\ slipped' = slipped /\ PlanFits(plan[h]) /\ plan[h] \in Plans
    BY <1>4, WriteFrame DEF Inv, PlanSound, TypeOK
  <2>2. PICK d : d = plan[h]
    OBVIOUS
  <2>3. d.repo \in Repos /\ d.at.id \in Ref(d.repo)' /\ PlanFits(d) /\ plan'[h] = d
    BY <1>1, <2>1, <2>2 DEF PlanFits, Plans
  <2>4. d.op = "checkout" => /\ d.at.id \in History(d.repo)'
                             /\ documents'[d.at.id].configuration = d.target
    BY <1>1, <2>3 DEF PlanFits, History
  <2>5. ~slipped => Head(todo).to # "stash" /\ NoStash(todo)'
    BY <2>3, WriteFrame DEF PlanFits, NoStash
  <2>6. ~slipped /\ d.op = "stash" => stash'[d.repo] = None
    BY <2>3, <2>5 DEF PlanFits
  <2> QED
    BY <2>1, <2>3, <2>4, <2>5, <2>6 DEF PlanFits
<1>5. PlanSound' /\ OnePlan'
  BY <1>4, WriteFrame DEF PlanSound, Inv, OnePlan
<1>6. Placed'
  <2> SUFFICES ASSUME ~missed', ~slipped' PROVE Placed'
    BY DEF Placed
  <2>1. ~missed /\ ~slipped /\ plan' = plan /\ bench' = bench /\ runtime' = runtime /\ saved' = bench
    BY WriteFrame DEF Inv, Placed
  <2>2. \A h \in Handlers : plan'[h] # None => OnItsWay(plan[h])'
    BY <2>1 DEF Inv, Placed, OnItsWay, Project
  <2>3. \A w \in Elements(todo') : w.to = "runtime" => bench' = Project(w.configuration)'
    BY <2>1, WriteFrame DEF Inv, Placed, Project
  <2> QED
    BY <2>1, <2>2, <2>3 DEF Inv, Placed
<1> QED
  BY <1>3, <1>5, <1>6 DEF Inv

\* In a list that does not begin with a document every name is one already.
LEMMA NamesKept ==
  ASSUME Inv, Write, Head(todo).to # "document", documents' = documents
  PROVE  /\ \A r : Ref(r)' = Ref(r)
         /\ \A v \in Elements(todo') : v.to \in {"head", "applied", "origin"} => v.id \in Ref(v.repo)'
         /\ Head(todo).to \in {"head", "applied", "origin"} => Head(todo).id \in Ref(Head(todo).repo)
         /\ \A c \in Commits : documents[c] # None => documents'[c] = documents[c]
<1>1. \A r : Ref(r)' = Ref(r)
  BY DEF Ref, History
<1>2. \A v \in Elements(todo) : SoundIn(todo, v) /\ ~Coming(todo, v)
  BY DEF Inv, TodoSound, Coming
<1>3. Elements(todo') \subseteq Elements(todo) /\ Head(todo) \in Elements(todo)
  BY WriteFrame
<1> QED
  BY <1>1, <1>2, <1>3 DEF SoundIn

LEMMA WriteDocument ==
  ASSUME Inv, Write, Head(todo).to = "document"
  PROVE  Inv'
<1>1. PICK w \in Writes : w = Head(todo)
  BY WriteFrame
<1>2. PICK d : d = [repo |-> w.repo, branch |-> w.branch, parent_id |-> get_head(w.repo, w.branch),
                    configuration |-> w.configuration]
  OBVIOUS
<1>3. /\ SoundIn(todo, w) /\ todo' \in Seq(Writes)
      /\ documents' = [documents EXCEPT ![w.id] = d]
      /\ UNCHANGED <<heads, applied, stash, origin, saved, runtime, bench, motion, plan, owed, missed, slipped, cut>>
  <2>1. /\ documents' = [documents EXCEPT ![w.id] = d]
        /\ UNCHANGED <<heads, applied, stash, origin, saved, runtime>>
    BY <1>1, <1>2 DEF Write
  <2> QED
    BY <1>1, <2>1, WriteFrame
<1>4. /\ w.branch \in Branches /\ w.id \in Commits /\ documents[w.id] = None /\ w.repo \in Repos
      /\ w.configuration \in Configurations
  BY <1>1, <1>3 DEF SoundIn, Writes
<1>5. get_head(w.repo, w.branch) \in Ref(w.repo) /\ Ref(w.repo) \subseteq Node
  BY <1>4, RepoFacts
<1>6. /\ d \in Document /\ d # None
      /\ d.repo = w.repo /\ d.parent_id \in Ref(w.repo)
  <2>1. d \in Document /\ d.repo = w.repo /\ d.parent_id = get_head(w.repo, w.branch)
    BY <1>2, <1>4, <1>5 DEF Document
  <2> QED
    BY <1>5, <2>1, NoneIsNoRecord
<1>7. TypeOK'
  BY <1>3, <1>4, <1>6 DEF Inv, TypeOK, motion
<1>8. /\ \A c \in Commits : documents[c] # None => documents'[c] = documents[c]
      /\ documents'[w.id] = d /\ \A c \in Commits : c # w.id => documents'[c] = documents[c]
  BY <1>3, <1>4 DEF Inv, TypeOK, motion
<1>9. \A r : Ref(r) \subseteq Ref(r)'
  BY <1>8, RefGrows
<1>10. w.id \in Ref(w.repo)'
  BY <1>4, <1>6, <1>8 DEF Ref, History
<1>11. RefsSound'
  <2>1. (\A c \in Commits : documents[c] # None => documents[c].parent_id \in Ref(documents[c].repo))'
    <3> SUFFICES ASSUME NEW c \in Commits, documents'[c] # None
                 PROVE  (documents[c].parent_id \in Ref(documents[c].repo))'
      OBVIOUS
    <3>1. CASE c = w.id
      BY <1>6, <1>8, <1>9, <3>1
    <3>2. CASE c # w.id
      <4>1. documents[c] # None /\ documents'[c] = documents[c]
        BY <1>8, <3>2
      <4>2. documents[c].parent_id \in Ref(documents[c].repo)
        BY <4>1 DEF Inv, RefsSound
      <4> QED
        BY <1>9, <4>1, <4>2
    <3> QED
      BY <3>1, <3>2
  <2>2. \A r \in Repos : /\ \A b \in Branches : heads'[r][b] \in Ref(r)'
                         /\ applied'[r].id \in Ref(r)'
                         /\ stash'[r] # None => stash'[r].base \in Ref(r)'
    BY <1>3, <1>9 DEF Inv, RefsSound
  <2>3. (origin.repo # None => origin.id \in Ref(origin.repo))'
    BY <1>3, <1>9 DEF Inv, RefsSound
  <2> QED
    BY <2>1, <2>2, <2>3 DEF RefsSound
<1>12. \A v \in Elements(todo') : v.to \in {"head", "applied", "origin"} => v.id \in Ref(v.repo)'
  <2>1. \A v \in Elements(todo') : SoundIn(todo, v)
    BY WriteFrame
  <2> QED
    BY <1>1, <1>9, <1>10, <2>1 DEF SoundIn, Coming
<1> QED
  BY <1>3, <1>7, <1>8, <1>11, <1>12, Written

LEMMA WriteNames ==
  ASSUME Inv, Write, Head(todo).to \in {"head", "applied", "origin"}
  PROVE  Inv'
<1> DEFINE w == Head(todo)
<1>1. /\ w \in Writes /\ SoundIn(todo, w) /\ todo' \in Seq(Writes)
      /\ UNCHANGED <<documents, stash, saved, runtime, bench, motion, plan, owed, missed, slipped, cut>>
  <2>1. UNCHANGED <<documents, stash, saved, runtime>>
    BY DEF Write
  <2> QED
    BY <2>1, WriteFrame
<1>2. /\ \A r : Ref(r)' = Ref(r)
      /\ \A v \in Elements(todo') : v.to \in {"head", "applied", "origin"} => v.id \in Ref(v.repo)'
      /\ w.id \in Ref(w.repo)
      /\ \A c \in Commits : documents[c] # None => documents'[c] = documents[c]
  BY <1>1, NamesKept
<1>3. w.repo \in Repos /\ w.branch \in Branches \cup {None} /\ w.id \in Node
  BY <1>1 DEF Writes
<1>4. CASE w.to = "head"
  <2>1. heads' = [heads EXCEPT ![w.repo][w.branch] = w.id] /\ UNCHANGED <<applied, origin>>
    BY <1>4 DEF Write
  <2>2. w.branch \in Branches
    BY <1>1, <1>4 DEF SoundIn
  <2> HIDE DEF w
  <2>3. TypeOK'
    BY <1>1, <1>3, <2>1, <2>2 DEF Inv, TypeOK, motion
  <2>4. \A r \in Repos, b \in Branches : heads'[r][b] \in Ref(r)
    BY <1>2, <1>3, <2>1, <2>2 DEF Inv, TypeOK, RefsSound
  <2>5. RefsSound'
    BY <1>1, <1>2, <2>1, <2>4 DEF Inv, RefsSound
  <2> QED
    BY <1>1, <1>2, <2>3, <2>5, Written
<1>5. CASE w.to = "applied"
  <2>1. /\ applied' = [applied EXCEPT ![w.repo] = [id |-> w.id, branch |-> w.branch]]
        /\ UNCHANGED <<heads, origin>>
    BY <1>5 DEF Write
  <2> HIDE DEF w
  <2>2. [id |-> w.id, branch |-> w.branch] \in At
    BY <1>3 DEF At
  <2>3. TypeOK'
    BY <1>1, <1>3, <2>1, <2>2 DEF Inv, TypeOK, motion
  <2>4. \A r \in Repos : applied'[r].id \in Ref(r)
    BY <1>2, <1>3, <2>1 DEF Inv, TypeOK, RefsSound
  <2>5. RefsSound'
    BY <1>1, <1>2, <2>1, <2>4 DEF Inv, RefsSound
  <2> QED
    BY <1>1, <1>2, <2>3, <2>5, Written
<1>6. CASE w.to = "origin"
  <2>1. origin' = [repo |-> w.repo, id |-> w.id] /\ UNCHANGED <<heads, applied>>
    BY <1>6 DEF Write
  <2> HIDE DEF w
  <2>2. TypeOK'
    BY <1>1, <1>3, <2>1 DEF Inv, TypeOK, motion
  <2>3. RefsSound'
    BY <1>1, <1>2, <2>1 DEF Inv, RefsSound
  <2> QED
    BY <1>1, <1>2, <2>2, <2>3, Written
<1> QED
  BY <1>4, <1>5, <1>6

LEMMA WriteStash ==
  ASSUME Inv, Write, Head(todo).to \in {"stash", "clear"}
  PROVE  Inv'
<1> DEFINE w == Head(todo)
           snapshot == [configuration |-> w.configuration, base |-> w.id]
<1>1. /\ w \in Writes /\ SoundIn(todo, w) /\ todo' \in Seq(Writes)
      /\ UNCHANGED <<documents, heads, applied, origin, saved, runtime, bench, motion, plan, owed, missed, slipped, cut>>
  <2>1. UNCHANGED <<documents, heads, applied, origin, saved, runtime>>
    BY DEF Write
  <2> QED
    BY <2>1, WriteFrame
<1>2. /\ \A r : Ref(r)' = Ref(r)
      /\ \A v \in Elements(todo') : v.to \in {"head", "applied", "origin"} => v.id \in Ref(v.repo)'
      /\ \A c \in Commits : documents[c] # None => documents'[c] = documents[c]
  BY <1>1, NamesKept
<1>3. w.repo \in Repos /\ w.configuration \in Configurations /\ w.id \in Node
  BY <1>1 DEF Writes
<1>4. /\ stash' = [stash EXCEPT ![w.repo] = IF w.to = "stash" THEN snapshot ELSE None]
      /\ w.to = "stash" => w.id \in Ref(w.repo)
  BY <1>1 DEF Write, SoundIn
<1>5. snapshot \in Snapshot /\ snapshot.base = w.id
  BY <1>3 DEF Snapshot
<1> HIDE DEF snapshot
<1>6. TypeOK'
  BY <1>1, <1>3, <1>4, <1>5 DEF Inv, TypeOK, motion
<1>7. \A r \in Repos : stash'[r] # None => stash'[r].base \in Ref(r)
  BY <1>3, <1>4, <1>5 DEF Inv, TypeOK, RefsSound
<1>8. RefsSound'
  BY <1>1, <1>2, <1>7 DEF Inv, RefsSound
<1>9. \A r \in Repos : stash[r] = None => (stash'[r] = None \/ (w.to = "stash" /\ w.repo = r))
  <2>1. \A r \in Repos : r # w.repo => stash'[r] = stash[r]
    BY <1>3, <1>4 DEF Inv, TypeOK, motion
  <2>2. w.to # "stash" => stash'[w.repo] = None
    BY <1>3, <1>4 DEF Inv, TypeOK, motion
  <2> SUFFICES ASSUME NEW r \in Repos, stash[r] = None
               PROVE  stash'[r] = None \/ (w.to = "stash" /\ w.repo = r)
    OBVIOUS
  <2>3. CASE r = w.repo
    BY <2>2, <2>3, Zenon
  <2>4. CASE r # w.repo
    BY <2>1, <2>4, Zenon
  <2> QED
    BY <2>3, <2>4, Zenon
<1> QED
  BY <1>1, <1>2, <1>6, <1>8, <1>9, Written

LEMMA WriteLab ==
  ASSUME Inv, Write, Head(todo).to \in {"runtime", "saved"}
  PROVE  Inv'
<1> DEFINE w == Head(todo)
<1>1. /\ w \in Writes /\ w \in Elements(todo) /\ todo' \in Seq(Writes)
      /\ UNCHANGED <<documents, heads, applied, stash, origin, bench, motion, plan, owed, missed, slipped, cut>>
  <2>1. UNCHANGED <<documents, heads, applied, stash, origin>>
    BY DEF Write, files
  <2> QED
    BY <2>1, WriteFrame
<1>2. /\ \A r : Ref(r)' = Ref(r)
      /\ \A v \in Elements(todo') : v.to \in {"head", "applied", "origin"} => v.id \in Ref(v.repo)'
      /\ \A c \in Commits : documents[c] # None => documents'[c] = documents[c]
  BY <1>1, NamesKept
<1>3. \/ w.to = "runtime" /\ runtime' = Project(w.configuration) /\ saved' = saved
      \/ saved' = runtime /\ runtime' = runtime
  BY DEF Write
<1>4. Project(w.configuration) \in [Parts -> Places]
  BY <1>1, ProjectTyped DEF Writes
<1>5. TypeOK'
  BY <1>1, <1>3, <1>4 DEF Inv, TypeOK, motion
<1>6. RefsSound'
  BY <1>1, <1>2 DEF Inv, RefsSound
<1>7. ~missed /\ ~slipped => runtime' = runtime /\ saved' \in {saved, runtime}
  BY <1>1, <1>3 DEF Inv, Placed
<1> QED
  BY <1>1, <1>2, <1>5, <1>6, <1>7, Written

LEMMA WriteInv == Inv /\ Write => Inv'
<1> SUFFICES ASSUME Inv, Write PROVE Inv'
  OBVIOUS
<1>1. Head(todo).to \in {"document", "head", "applied", "origin", "stash", "clear", "runtime", "saved"}
  BY WriteFrame DEF Writes
<1> QED
  BY <1>1, WriteDocument, WriteNames, WriteStash, WriteLab

-----------------------------------------------------------------------------
\* The plan, the operator and the process

\* A plan goes on with the steps that are left.
LEMMA PlanLess ==
  ASSUME Inv, NEW h \in Handlers, plan[h] # None, NEW step,
         plan' = [plan EXCEPT ![h].steps = @ \ {step}]
  PROVE  /\ plan' \in [Handlers -> Plans \cup {None}]
         /\ \A g \in Handlers : g # h => plan'[g] = plan[g]
         /\ plan'[h] \in Plans /\ plan'[h] # None
         /\ plan'[h].op = plan[h].op /\ plan'[h].repo = plan[h].repo /\ plan'[h].at = plan[h].at
         /\ plan'[h].target = plan[h].target /\ plan'[h].snapshot = plan[h].snapshot
         /\ plan'[h].steps = plan[h].steps \ {step}
<1> DEFINE d == plan[h]
           less == [op |-> d.op, repo |-> d.repo, at |-> d.at, target |-> d.target,
                    snapshot |-> d.snapshot, steps |-> d.steps \ {step}]
<1>1. d \in Plans /\ plan \in [Handlers -> Plans \cup {None}]
  BY DEF Inv, TypeOK
<1>2. d = [op |-> d.op, repo |-> d.repo, at |-> d.at, target |-> d.target,
           snapshot |-> d.snapshot, steps |-> d.steps]
  BY <1>1 DEF Plans
<1>3. [d EXCEPT !.steps = @ \ {step}] = less
  BY <1>2
<1>4. less \in Plans
  BY <1>1 DEF Plans
<1>5. less # None
  BY <1>4, NoneIsNoRecord
<1>6. plan' = [plan EXCEPT ![h] = less]
  BY <1>3
<1>7. /\ less.op = d.op /\ less.repo = d.repo /\ less.at = d.at /\ less.target = d.target
      /\ less.snapshot = d.snapshot /\ less.steps = d.steps \ {step}
  OBVIOUS
<1> HIDE DEF less
<1> QED
  BY <1>1, <1>4, <1>5, <1>6, <1>7

\* What a plan says of its step
LEMMA StepFacts ==
  ASSUME Inv, NEW h \in Handlers, plan[h] # None, NEW step \in plan[h].steps
  PROVE  /\ plan[h] \in Plans /\ PlanFits(plan[h]) /\ step.part \in Parts
         /\ plan[h].target \in Configurations
         /\ Moved(step, plan[h].target) \in [Parts -> Places]
         /\ \A p \in Parts : p # step.part => Moved(step, plan[h].target)[p] = runtime[p]
         /\ Moved(step, plan[h].target)[step.part] = Project(plan[h].target)[step.part]
<1>1. plan[h] \in Plans /\ PlanFits(plan[h])
  BY DEF Inv, TypeOK, PlanSound
<1>2. /\ step \in Steps /\ step.part \in Parts /\ plan[h].target \in [Parts -> Poses \cup {None}]
      /\ plan[h].target \in Configurations
  BY <1>1 DEF Plans, Steps, Configurations
<1>3. /\ step.action = "store" <=> plan[h].target[step.part] = None
      /\ runtime \in [Parts -> Places]
  BY <1>1 DEF PlanFits, Inv, TypeOK
<1> QED
  BY <1>1, <1>2, <1>3 DEF Moved, Places, Project

\* ... what it leaves of the lab state
LEMMA StepLab ==
  ASSUME Inv, NEW h \in Handlers, plan[h] # None, NEW step \in plan[h].steps, Step(h, step)
  PROVE  /\ {saved', runtime', bench'} \subseteq [Parts -> Places]
         /\ missed' \in BOOLEAN /\ (missed => missed')
         /\ ~missed' => /\ runtime' = Moved(step, plan[h].target)
                        /\ bench' = [bench EXCEPT ![step.part] = runtime'[step.part]]
                        /\ saved' = runtime'
<1>1. \/ /\ missed' = missed /\ saved' = runtime' /\ runtime' = Moved(step, plan[h].target)
         /\ bench' = [bench EXCEPT ![step.part] = runtime'[step.part]]
      \/ missed' = TRUE /\ saved' = runtime /\ bench' = bench /\ runtime' = runtime
  BY DEF Step
<1>2. /\ missed' \in BOOLEAN /\ (missed => missed')
      /\ ~missed' => /\ runtime' = Moved(step, plan[h].target)
                     /\ bench' = [bench EXCEPT ![step.part] = runtime'[step.part]]
                     /\ saved' = runtime'
  BY <1>1, Zenon DEF Inv, TypeOK
<1>3. {saved', runtime', bench'} \subseteq [Parts -> Places]
  BY <1>1, StepFacts DEF Inv, TypeOK
<1> QED
  BY <1>2, <1>3

\* ... and of its plan
LEMMA StepOnWay ==
  ASSUME Inv, NEW h \in Handlers, plan[h] # None, NEW step \in plan[h].steps, Step(h, step),
         ~missed', ~slipped'
  PROVE  /\ runtime' = bench' /\ saved' = bench'
         /\ \A g \in Handlers : g # h => plan[g] = None
         /\ \A p \in Parts : (\A s \in plan[h].steps \ {step} : s.part # p)
                               => runtime'[p] = Project(plan[h].target)[p]
         /\ \A s, t \in plan[h].steps : s.part = t.part => s = t
<1>1. ~missed /\ ~slipped
  BY StepLab DEF Step
<1>2. runtime = bench /\ OnItsWay(plan[h]) /\ \A g \in Handlers : g # h => plan[g] = None
  BY <1>1 DEF Inv, Placed, OnePlan
<1>3. /\ runtime' = Moved(step, plan[h].target) /\ saved' = runtime'
      /\ bench' = [bench EXCEPT ![step.part] = runtime'[step.part]]
      /\ runtime' \in [Parts -> Places] /\ bench' \in [Parts -> Places]
  BY StepLab
<1>4. /\ \A p \in Parts : p # step.part => runtime'[p] = runtime[p]
      /\ runtime'[step.part] = Project(plan[h].target)[step.part]
  BY <1>3, StepFacts
<1>5. \A p \in Parts : runtime'[p] = bench'[p]
  BY <1>2, <1>3, <1>4 DEF Inv, TypeOK
<1>6. runtime' = bench'
  BY <1>3, <1>5
<1>7. ASSUME NEW p \in Parts, \A s \in plan[h].steps \ {step} : s.part # p
      PROVE  runtime'[p] = Project(plan[h].target)[p]
  BY <1>2, <1>4, <1>7 DEF OnItsWay
<1> QED
  BY <1>2, <1>3, <1>6, <1>7 DEF OnItsWay

\* The writes that come after a plan
LEMMA ContinuationGood ==
  ASSUME Inv, NEW d \in Plans, PlanFits(d),
         ~missed' /\ ~slipped' => bench' = Project(d.target)
  PROVE  Good(Continuation(d))
<1>1. /\ d.repo \in Repos /\ d.at \in At /\ d.at.id \in Ref(d.repo) /\ d.target \in Configurations
      /\ d.snapshot \in Configurations /\ d.at.branch \in Branches \cup {None}
      /\ d.op \in {"checkout", "stash", "pop"}
      /\ d.op = "checkout" => /\ d.at.id \in History(d.repo)
                              /\ documents[d.at.id].configuration = d.target
      /\ d.op = "stash" => (~slipped => stash[d.repo] = None)
  BY DEF PlanFits, Plans, At
<1>2. CASE d.op = "checkout"
  <2>1. Good(CheckoutWrites(d.repo, d.at.branch, d.at.id))
    BY <1>1, <1>2, CheckoutGood
  <2> QED
    BY <1>2, <2>1 DEF Continuation
<1>3. CASE d.op = "stash"
  <2>1. Good(StashWrites(d.repo, d.at, d.target, d.snapshot))
    BY <1>1, <1>3, StashGood
  <2> QED
    BY <1>3, <2>1 DEF Continuation
<1>4. CASE d.op = "pop"
  <2>1. Good(PopWrites(d.repo, d.target))
    BY <1>1, <1>4, PopGood
  <2> QED
    BY <1>4, <2>1 DEF Continuation
<1> QED
  BY <1>1, <1>2, <1>3, <1>4

LEMMA NothingToWrite == Good(<<>>) /\ NoStash(<<>>)
<1>1. <<>> \in Seq(Writes)
  OBVIOUS
<1> QED
  BY <1>1, ElementsOfFew DEF Good, NoStash, OneStash

LEMMA StepInv ==
  ASSUME Inv, NEW h \in Handlers, plan[h] # None, NEW step \in plan[h].steps, Step(h, step)
  PROVE  Inv'
<1>1. /\ todo = <<>> /\ UNCHANGED <<files, move, owed, slipped, cut>>
      /\ status' \in {"IDLE", "BUSY"}
  BY DEF Step, Free
<1>2. UNCHANGED <<documents, heads, applied, stash, origin>> /\ (slipped => slipped')
  BY <1>1 DEF files
<1>3. \A r : Ref(r)' = Ref(r) /\ History(r)' = History(r)
  BY <1>2 DEF Ref, History
<1>4. CASE plan' = [plan EXCEPT ![h].steps = @ \ {step}] /\ UNCHANGED todo
  <2>1. TypeOK'
    BY <1>1, <1>2, <1>4, PlanLess, StepLab DEF Inv, TypeOK
  <2>2. Good(todo') /\ NoStash(todo)'
    BY <1>1, <1>4, NothingToWrite DEF NoStash
  <2>3. PlanSound'
    <3>1. ASSUME NEW g \in Handlers, plan'[g] # None PROVE PlanFits(plan[g])'
      <4>1. /\ plan'[g].op = plan[g].op /\ plan'[g].repo = plan[g].repo /\ plan'[g].at = plan[g].at
            /\ plan'[g].target = plan[g].target /\ plan'[g].steps \subseteq plan[g].steps
            /\ plan[g] # None
        BY <1>4, <3>1, PlanLess
      <4>2. PlanFits(plan[g])
        BY <4>1 DEF Inv, PlanSound
      <4> QED
        BY <1>1, <1>2, <1>3, <2>2, <4>1, <4>2 DEF PlanFits
    <3> QED
      BY <3>1 DEF PlanSound
  <2>4. OnePlan'
    <3>1. \A g \in Handlers : plan'[g] # None => plan[g] # None
      BY <1>4, PlanLess
    <3> QED
      BY <1>1, <3>1 DEF Inv, OnePlan
  <2>5. ~missed' /\ ~slipped' =>
          /\ runtime' = bench' /\ saved' = bench'
          /\ \A g \in Handlers : plan'[g] # None => OnItsWay(plan[g])'
    <3> SUFFICES ASSUME ~missed', ~slipped'
                 PROVE  /\ runtime' = bench' /\ saved' = bench'
                        /\ \A g \in Handlers : plan'[g] # None => OnItsWay(plan[g])'
      OBVIOUS
    <3>1. \A g \in Handlers : g # h => plan'[g] = None
      BY <1>4, PlanLess, StepOnWay
    <3>2. OnItsWay(plan[h])'
      <4>1. /\ plan'[h].target = plan[h].target /\ plan'[h].steps = plan[h].steps \ {step}
        BY <1>4, PlanLess
      <4>2. Project(plan'[h].target) = Project(plan[h].target)
        BY <4>1
      <4>3. Project(plan[h].target)' = Project(plan'[h].target)
        BY DEF Project
      <4> QED
        BY <4>1, <4>2, <4>3, StepOnWay DEF OnItsWay
    <3> QED
      BY <3>1, <3>2, StepOnWay
  <2> QED
    BY <1>1, <1>2, <2>1, <2>2, <2>3, <2>4, <2>5, Goes
<1>5. CASE /\ plan[h].steps = {step} /\ plan' = [plan EXCEPT ![h] = None]
           /\ todo' = Continuation(plan[h])
  <2>1. \A g \in Handlers : plan'[g] = IF g = h THEN None ELSE plan[g]
    BY <1>5 DEF Inv, TypeOK
  <2>2. ASSUME ~missed', ~slipped'
        PROVE  /\ runtime' = bench' /\ saved' = bench' /\ bench' = Project(plan[h].target)
               /\ \A g \in Handlers : plan'[g] = None
    <3>1. \A p \in Parts : runtime'[p] = Project(plan[h].target)[p]
      BY <1>5, <2>2, StepOnWay
    <3>2. runtime' \in [Parts -> Places] /\ Project(plan[h].target) \in [Parts -> Places]
      BY StepLab, StepFacts, ProjectTyped
    <3>3. runtime' = Project(plan[h].target)
      BY <3>1, <3>2
    <3> QED
      BY <2>1, <2>2, <3>3, StepOnWay
  <2>3. Good(todo')
    BY <1>5, <2>2, StepFacts, ContinuationGood
  <2>4. TypeOK'
    BY <1>1, <1>2, <1>5, <2>3, StepLab DEF Inv, TypeOK, Good
  <2>5. PlanSound' /\ OnePlan'
    <3>1. ~slipped' => \A g \in Handlers : plan'[g] = None
      BY <1>1, <2>1 DEF Inv, OnePlan
    <3> QED
      BY <1>1, <1>2, <2>1, <3>1, PlansKept
  <2> QED
    BY <1>1, <1>2, <2>2, <2>3, <2>4, <2>5, Goes
<1> QED
  BY <1>4, <1>5 DEF Step

\* What ends a handler and leaves the files alone
LEMMA Stopped ==
  ASSUME Inv, UNCHANGED <<files, bench>>, RestTyped, todo' = <<>>,
         plan' \in [Handlers -> Plans \cup {None}], \A h \in Handlers : plan'[h] \in {None, plan[h]},
         saved' \in {saved, runtime},
         runtime' = runtime \/ (runtime' = saved /\ \A h \in Handlers : plan'[h] = None)
  PROVE  Inv'
<1>1. UNCHANGED <<documents, heads, applied, stash, origin>>
  BY DEF files
<1>2. Good(todo') /\ NoStash(todo') /\ todo' \in Seq(Writes)
  BY NothingToWrite DEF Good
<1>3. TypeOK'
  BY <1>1, <1>2 DEF Inv, TypeOK, RestTyped
<1>4. PlanSound' /\ OnePlan'
  BY <1>2, PlansKept DEF RestTyped
<1>5. ~missed' /\ ~slipped' =>
        /\ runtime' = bench' /\ saved' = bench'
        /\ \A h \in Handlers : plan'[h] # None => OnItsWay(plan[h])'
  BY DEF Inv, Placed, OnItsWay, Project, RestTyped
<1> QED
  BY <1>2, <1>3, <1>4, <1>5, Goes DEF RestTyped

LEMMA EndInv ==
  ASSUME Inv, Crash \/ \E h \in Handlers : PlanFails(h)
  PROVE  Inv'
<1>1. CASE Crash
  <2>1. cut' \in BOOLEAN /\ missed' \in BOOLEAN /\ (missed => missed')
    BY <1>1, Zenon DEF Crash
  <2>2. RestTyped
    BY <1>1, <2>1 DEF Crash, RestTyped, Inv, TypeOK
  <2>3. /\ UNCHANGED <<files, bench>> /\ todo' = <<>> /\ runtime' = saved /\ saved' = saved
        /\ plan' = [h \in Handlers |-> None]
    BY <1>1 DEF Crash
  <2> QED
    BY <2>2, <2>3, Stopped
<1>2. ASSUME NEW h \in Handlers, PlanFails(h) PROVE Inv'
  <2>1. cut' \in BOOLEAN
    BY <1>2, Zenon DEF PlanFails
  <2>2. RestTyped
    BY <1>2, <2>1 DEF PlanFails, RestTyped, Inv, TypeOK
  <2>3. /\ UNCHANGED <<files, bench, runtime, saved>> /\ todo' = <<>>
        /\ plan' = [plan EXCEPT ![h] = None] /\ plan \in [Handlers -> Plans \cup {None}]
    BY <1>2 DEF PlanFails, lab, Free, Inv, TypeOK
  <2> QED
    BY <2>2, <2>3, Stopped
<1> QED
  BY <1>1, <1>2

LEMMA MoveFrameInv ==
  ASSUME Inv, MoveFails \/ \E p \in Parts, place \in Places : MoveBegins(p, place)
  PROVE  Inv'
<1>1. RestTyped
  BY DEF MoveFails, MoveBegins, RestTyped, Inv, TypeOK, history, Moves
<1>2. /\ UNCHANGED <<files, bench, runtime>> /\ todo' = <<>> /\ saved' \in {saved, runtime}
      /\ plan' = plan /\ plan \in [Handlers -> Plans \cup {None}]
  BY DEF MoveFails, MoveBegins, lab, work, Free, Inv, TypeOK
<1> QED
  BY <1>1, <1>2, Stopped

LEMMA MoveEndsInv ==
  ASSUME Inv, MoveEnds
  PROVE  Inv'
<1>1. /\ move \in Moves /\ move.part \in Parts /\ move.to \in Places
  BY DEF MoveEnds, Inv, TypeOK, Moves
<1>2. /\ runtime' = [runtime EXCEPT ![move.part] = move.to]
      /\ bench' = [bench EXCEPT ![move.part] = move.to]
      /\ saved' = runtime' /\ todo = <<>> /\ move' = None /\ status' = "IDLE"
      /\ UNCHANGED <<files, plan, todo, slipped, cut>>
  BY DEF MoveEnds, Free, work
<1>3. UNCHANGED <<documents, heads, applied, stash, origin>>
  BY <1>2 DEF files
<1>4. runtime' \in [Parts -> Places] /\ bench' \in [Parts -> Places]
  BY <1>1, <1>2 DEF Inv, TypeOK
<1>5. owed' \in Configurations \cup {None}
  <2>1. Extract(runtime') \in Configurations
    BY <1>4, ExtractTyped
  <2>2. owed' \in {None, owed, Extract(runtime')}
    BY DEF MoveEnds, SetUp
  <2> QED
    BY <2>1, <2>2 DEF Inv, TypeOK
<1>6. /\ missed' \in BOOLEAN /\ (missed => missed')
      /\ ~missed' => \A h \in Handlers :
           plan[h] # None => \E step \in plan[h].steps : step.part = move.part
  BY Zenon DEF MoveEnds
<1>7. TypeOK'
  BY <1>2, <1>3, <1>4, <1>5, <1>6 DEF Inv, TypeOK
<1>8. Good(todo') /\ NoStash(todo')
  BY <1>2, NothingToWrite
<1>9. PlanSound' /\ OnePlan'
  BY <1>2, <1>8, PlansKept
<1>10. ~missed' /\ ~slipped' =>
         /\ runtime' = bench' /\ saved' = bench'
         /\ \A h \in Handlers : plan'[h] # None => OnItsWay(plan[h])'
  <2> SUFFICES ASSUME ~missed', ~slipped'
               PROVE  /\ runtime' = bench' /\ saved' = bench'
                      /\ \A h \in Handlers : plan'[h] # None => OnItsWay(plan[h])'
    OBVIOUS
  <2>1. /\ runtime = bench /\ \A h \in Handlers : plan[h] # None => OnItsWay(plan[h])
    BY <1>2, <1>6 DEF Inv, Placed
  <2>2. ASSUME NEW h \in Handlers, plan'[h] # None PROVE OnItsWay(plan[h])'
    <3>1. PICK step \in plan[h].steps : step.part = move.part
      BY <1>2, <1>6, <2>2
    <3>2. \A p \in Parts : p # move.part => runtime'[p] = runtime[p]
      BY <1>1, <1>2 DEF Inv, TypeOK
    <3>3. OnItsWay(plan[h]) /\ plan' = plan
      BY <1>2, <2>1, <2>2
    <3> QED
      BY <3>1, <3>2, <3>3 DEF OnItsWay, Project
  <2> QED
    BY <1>2, <2>1, <2>2
<1> QED
  BY <1>2, <1>7, <1>8, <1>9, <1>10, Goes

-----------------------------------------------------------------------------
LEMMA InvStep == Inv /\ [Next]_vars => Inv'
<1> SUFFICES ASSUME Inv, [Next]_vars PROVE Inv'
  OBVIOUS
<1>1. CASE UNCHANGED vars
  <2>1. UNCHANGED <<documents, heads, applied, stash, origin, saved, runtime, bench, status, move,
                    plan, todo, owed, missed, slipped, cut>>
    BY <1>1 DEF vars, files, lab, motion, work, history
  <2>2. TypeOK'
    BY <2>1 DEF Inv, TypeOK
  <2>3. RefsSound'
    BY <2>1 DEF Inv, RefsSound, Ref, History
  <2>4. TodoSound'
    BY <2>1 DEF Inv, TodoSound, SoundIn, Coming, Ref, History
  <2>5. PlanSound' /\ OnePlan'
    BY <2>1 DEF Inv, PlanSound, PlanFits, Ref, History, OnePlan
  <2>6. Placed'
    BY <2>1 DEF Inv, Placed, OnItsWay, Project
  <2> QED
    BY <2>2, <2>3, <2>4, <2>5, <2>6 DEF Inv
<1>2. CASE Write \/ MoveEnds \/ MoveFails \/ Crash
  BY <1>2, WriteInv, MoveEndsInv, MoveFrameInv, EndInv
<1>3. ASSUME NEW r \in Repos, Stash(r) \/ StashPop(r) \/ StashPopFinalize(r) \/ StashDrop(r)
      PROVE  Inv'
  BY <1>3, StashInv, StashPopInv, StashPopFinalizeInv, StashDropInv
<1>4. ASSUME NEW r \in Repos, NEW snapshot \in Configurations, StashFinalize(r, snapshot)
      PROVE  Inv'
  BY <1>4, StashFinalizeInv
<1>5. ASSUME NEW r \in Repos, NEW b \in Branches, Commit(r, b) \/ PostJobCommit(r, b)
      PROVE  Inv'
  BY <1>5, CommitInv
<1>6. ASSUME NEW r \in Repos, NEW c \in Commits, Adopt(r, c) \/ CheckoutFinalize(r, c)
      PROVE  Inv'
  <2>1. CASE Adopt(r, c)
    BY <2>1, AdoptInv
  <2>2. CASE CheckoutFinalize(r, c)
    <3>1. /\ c \in History(r) /\ todo' = CheckoutWrites(r, documents[c].branch, c)
          /\ GiveUp(Extract(runtime)) /\ Trusted(documents[c].configuration)
          /\ Admitted \/ slipped' = slipped
          /\ UNCHANGED <<files, lab, motion, plan, cut>>
      BY <2>2 DEF CheckoutFinalize
    <3>2. documents[c].branch \in Branches \cup {None}
      BY <3>1, RepoFacts
    <3> QED
      BY <3>1, <3>2, FinalizeInv
  <2> QED
    BY <1>6, <2>1, <2>2
<1>7. ASSUME NEW r \in Repos, NEW c \in Commits, NEW force \in BOOLEAN, Checkout(r, c, force)
      PROVE  Inv'
  BY <1>7, CheckoutInv
<1>8. ASSUME NEW r \in Repos, NEW b \in Branches, NEW c \in Commits,
             Fork(r, b, c) \/ JobFinalize(r, b, c)
      PROVE  Inv'
  <2>1. CASE Fork(r, b, c)
    BY <2>1, ForkInv
  <2>2. CASE JobFinalize(r, b, c)
    <3>1. /\ c \in History(r) /\ todo' = CheckoutWrites(r, b, c) /\ b \in Branches \cup {None}
          /\ GiveUp(Extract(runtime)) /\ Trusted(documents[c].configuration)
          /\ Admitted \/ slipped' = slipped
          /\ UNCHANGED <<files, lab, motion, plan, cut>>
      BY <2>2 DEF JobFinalize
    <3> QED
      BY <3>1, FinalizeInv
  <2> QED
    BY <1>8, <2>1, <2>2
<1>9. ASSUME NEW h \in Handlers,
             \/ PlanFails(h)
             \/ \E step \in (IF plan[h] = None THEN {} ELSE plan[h].steps) : Step(h, step)
      PROVE  Inv'
  BY <1>9, StepInv, EndInv
<1>10. ASSUME NEW p \in Parts, NEW place \in Places, MoveBegins(p, place)
       PROVE  Inv'
  BY <1>10, MoveFrameInv
<1>11. CASE Next
  BY <1>2, <1>3, <1>4, <1>5, <1>6, <1>7, <1>8, <1>9, <1>10, <1>11, Zenon DEF Next
<1> QED
  BY <1>1, <1>11

-----------------------------------------------------------------------------
\* The state stays typed: every configuration, document, stash, plan and write
\* is one, whatever the handlers, the plans and the crashes do.
THEOREM TypeCorrect == Spec => []TypeOK
<1>1. Inv => TypeOK
  BY DEF Inv
<1> QED
  BY InvInit, InvStep, <1>1, PTL DEF Spec

\* Heads, applied nodes, parents, stash bases and the node that the bench was
\* brought to exist, after every single write and so after a crash at any
\* point (_write_refs, save_document, _write_stash and _write_bench_origin of
\* ControlManager).
THEOREM FilesSound == Spec => []RefsSound
<1>1. Inv => RefsSound
  BY DEF Inv
<1> QED
  BY InvInit, InvStep, <1>1, PTL DEF Spec

\* The lab state tells where the components are: the projections at the end of
\* checkouts, stashes and pops say what the plans of moves have done
\* (execute_reconcile_plan and apply_configuration_to_components), also with
\* jobs that move components which the plan has still to move, as long as no
\* move was missed, none of those that a plan is done with was moved, and no
\* two plans run at a time.
THEOREM LabStateTrue == Spec => []PlacesTrue
<1>1. Inv => PlacesTrue
  BY DEF Inv, Placed, PlacesTrue
<1> QED
  BY InvInit, InvStep, <1>1, PTL DEF Spec

\* Nothing is stashed over a stash, although control_stash looks at the slot
\* before its plan of moves and writes it after the plan.
THEOREM NoStashLost == Spec => SlotTakenOnce
<1>1. Inv /\ [Next]_vars
        => [~slipped' => \A r \in Repos : stash[r] # None => stash'[r] \in {None, stash[r]}]_vars
  <2> SUFFICES ASSUME Inv, Next, ~slipped', NEW r \in Repos, stash[r] # None
               PROVE  stash'[r] \in {None, stash[r]}
    OBVIOUS
  <2>1. CASE Write
    <3>1. Head(todo) \in Writes /\ SoundIn(todo, Head(todo)) /\ ~slipped
      BY <2>1, WriteFrame
    <3>2. CASE Head(todo).to = "stash"
      <4>1. Head(todo).repo # r
        BY <3>1, <3>2 DEF SoundIn
      <4>2. \E x : stash' = [stash EXCEPT ![Head(todo).repo] = x]
        BY <2>1, <3>2 DEF Write
      <4> QED
        BY <4>1, <4>2 DEF Inv, TypeOK
    <3>3. CASE Head(todo).to = "clear"
      <4>1. stash' = [stash EXCEPT ![Head(todo).repo] = None]
        BY <2>1, <3>3 DEF Write
      <4> QED
        BY <4>1 DEF Inv, TypeOK
    <3>4. CASE Head(todo).to \notin {"stash", "clear"}
      BY <2>1, <3>4 DEF Write, files
    <3> QED
      BY <3>2, <3>3, <3>4
  <2>2. CASE ~Write
    <3>1. UNCHANGED files
      BY <2>2 DEF Next, PlanFails, Crash, Stash, StashPop, StashPopFinalize, StashDrop,
                  StashFinalize, Commit, PostJobCommit, Adopt, CheckoutFinalize, Checkout, Fork,
                  JobFinalize, Step, MoveBegins, MoveEnds, MoveFails
    <3> QED
      BY <3>1 DEF files
  <2> QED
    BY <2>1, <2>2
<1> QED
  BY InvInit, InvStep, <1>1, PTL DEF Spec, SlotTakenOnce

-----------------------------------------------------------------------------
\* Work is kept

\* In a commit or in a stash
Firm(cfg) ==
  \/ \E c \in Commits : documents[c] # None /\ documents[c].configuration = cfg
  \/ \E r \in Repos : stash[r] # None /\ stash[r].configuration = cfg

\* ... or on its way into a stash
Apart(cfg) ==
  \/ Firm(cfg)
  \/ \E h \in Handlers : plan[h] # None /\ plan[h].op = "stash" /\ plan[h].snapshot = cfg
  \/ \E w \in Elements(todo) : w.to = "stash" /\ w.configuration = cfg

\* The write changes the lab state.
Changes(w) == w.to = "runtime" /\ Project(w.configuration) # runtime
Steady == \A w \in Elements(todo) : ~Changes(w)

\* What the operator is owed is kept, apart from the bench when something may
\* change the bench.
BenchKept == Extract(runtime) = owed \/ Apart(owed)
PlanKept == Awaited \/ ~Steady => Apart(owed)

\* The stash that a pop clears is on the bench by then.
Restored(w) ==
  /\ ~Awaited
  /\ \/ /\ Head(todo).to = "runtime" /\ Head(todo).configuration = owed
        /\ \A v \in Elements(Tail(todo)) : v.to # "runtime"
     \/ /\ Extract(runtime) = owed
        /\ \A v \in Elements(todo) : v.to # "runtime"
PopKept == \A w \in Elements(todo) :
  w.to = "clear" /\ stash[w.repo] # None /\ stash[w.repo].configuration = owed => Restored(w)

PopFits(d) == d.op = "pop" /\ stash[d.repo] # None => stash[d.repo].configuration = d.target

PopSound ==
  /\ ~slipped => \A h \in Handlers : plan[h] # None => PopFits(plan[h])
  /\ (\E w \in Elements(todo) : w.to = "clear") => NoStash(todo)

Owed == ~cut /\ ~slipped /\ owed # None =>
  owed # EMPTY_CONFIGURATION /\ BenchKept /\ PlanKept /\ PopKept

WorkInv == Inv /\ PopSound /\ Owed

LEMMA ExtractProject ==
  ASSUME NEW cfg \in Configurations
  PROVE  Extract(Project(cfg)) = cfg
<1>1. \A p \in Parts : Extract(Project(cfg))[p] = cfg[p]
  BY ControlAssumptions DEF Extract, Project, Configurations
<1> QED
  BY <1>1 DEF Extract, Configurations

\* On a clean bench there is what a commit says.
LEMMA CleanIsFirm ==
  ASSUME Inv, NEW r \in Repos, ~IsDirty(r), Extract(runtime) # EMPTY_CONFIGURATION
  PROVE  Firm(Extract(runtime))
<1>1. Extract(runtime) = Base(r) /\ Applied(r).id # None
  BY DEF IsDirty, Base
<1>2. Applied(r).id \in Commits /\ documents[Applied(r).id] # None
  BY <1>1, RepoFacts DEF Ref, History
<1> QED
  BY <1>1, <1>2 DEF Base, Firm

LEMMA OwedInit == Init => PopSound /\ Owed
  BY ElementsOfFew DEF Init, PopSound, NoStash, Owed

\* Without a plan and without writes it is in a commit or in a stash.
LEMMA AtRest ==
  ASSUME todo = <<>>
  PROVE  /\ \A cfg : Apart(cfg) => \/ Firm(cfg)
                                   \/ \E h \in Handlers : /\ plan[h] # None /\ plan[h].op = "stash"
                                                          /\ plan[h].snapshot = cfg
         /\ ~Awaited => \A cfg : Apart(cfg) => Firm(cfg)
         /\ Steady
  BY ElementsOfFew DEF Apart, Steady, Awaited

\* A handler that goes on to its writes
LEMMA OwedTodo ==
  ASSUME WorkInv, UNCHANGED <<files, lab, plan>>, todo = <<>>, ~cut' => ~cut, slipped => slipped',
         owed' # None => owed' = owed,
         owed' # None /\ ~Steady' => Extract(runtime) # owed,
         owed' # None /\ ~slipped' => PopKept',
         (\E w \in Elements(todo') : w.to = "clear") => NoStash(todo')
  PROVE  PopSound' /\ Owed'
<1>1. UNCHANGED <<documents, heads, applied, stash, origin, saved, runtime, bench, plan>>
  BY DEF files, lab
<1>2. PopSound'
  BY <1>1 DEF WorkInv, PopSound, PopFits, NoStash
<1> SUFFICES ASSUME ~cut', ~slipped', owed' # None
             PROVE  (owed # EMPTY_CONFIGURATION /\ BenchKept /\ PlanKept)'
  BY <1>2 DEF Owed
<1>3. ~cut /\ owed' = owed /\ owed # EMPTY_CONFIGURATION /\ BenchKept /\ PlanKept
  BY DEF WorkInv, Owed
<1>4. Apart(owed) => Apart(owed)'
  <2>1. Firm(owed) => Firm(owed)'
    BY <1>1, <1>3 DEF Firm
  <2> QED
    BY <1>1, <1>3, <2>1, AtRest DEF Apart
<1>5. BenchKept'
  BY <1>1, <1>3, <1>4 DEF BenchKept
<1>6. PlanKept'
  BY <1>1, <1>3, <1>4 DEF PlanKept, BenchKept, Awaited
<1>7. EMPTY_CONFIGURATION' = EMPTY_CONFIGURATION
  BY DEF EMPTY_CONFIGURATION
<1> QED
  BY <1>3, <1>5, <1>6, <1>7

\* A handler that begins its plan
LEMMA OwedPlan ==
  ASSUME WorkInv, UNCHANGED <<files, lab, todo>>, todo = <<>>, slipped => slipped',
         ~slipped' => ~Awaited, NEW h \in Handlers, NEW d \in Plans, plan' = [plan EXCEPT ![h] = d],
         ~cut' => ~cut, owed' # None => owed' = owed,
         owed' # None /\ ~cut' /\ ~slipped' /\ Extract(runtime) = owed
           => Firm(owed) \/ (d.op = "stash" /\ d.snapshot = owed),
         PopFits(d)
  PROVE  PopSound' /\ Owed'
<1>1. UNCHANGED <<documents, heads, applied, stash, origin, saved, runtime, bench, todo>>
  BY DEF files, lab
<1>2. /\ plan'[h] = d /\ d # None
      /\ ~slipped' => \A g \in Handlers : g # h => plan'[g] = None
  BY NoneIsNoRecord DEF WorkInv, Inv, TypeOK, Awaited
<1>3. PopSound'
  BY <1>1, <1>2, ElementsOfFew DEF PopSound, PopFits, NoStash
<1> SUFFICES ASSUME ~cut', ~slipped', owed' # None
             PROVE  (owed # EMPTY_CONFIGURATION /\ BenchKept /\ PlanKept /\ PopKept)'
  BY <1>3 DEF Owed
<1>4. ~cut /\ owed' = owed /\ owed # EMPTY_CONFIGURATION /\ BenchKept
  BY DEF WorkInv, Owed
<1>5. Firm(owed) => Firm(owed)'
  BY <1>1, <1>4 DEF Firm
<1>6. Extract(runtime) # owed => Firm(owed)
  BY <1>4, AtRest DEF BenchKept
<1>7. Apart(owed)'
  BY <1>2, <1>4, <1>5, <1>6 DEF Apart
<1>8. PopKept'
  BY <1>1, ElementsOfFew DEF PopKept
<1>9. EMPTY_CONFIGURATION' = EMPTY_CONFIGURATION
  BY DEF EMPTY_CONFIGURATION
<1> QED
  BY <1>4, <1>7, <1>8, <1>9 DEF BenchKept, PlanKept

\* What the lists clear and project
NoClear(s) == \A w \in Elements(s) : w.to # "clear"
Projects(s, cfg) == \A w \in Elements(s) : w.to = "runtime" => w.configuration = cfg

LEMMA QuietList ==
  ASSUME NoClear(todo')
  PROVE  PopKept' /\ ((\E w \in Elements(todo') : w.to = "clear") => NoStash(todo'))
  BY DEF NoClear, PopKept

LEMMA SteadyList ==
  ASSUME NEW cfg, Projects(todo', cfg), Project(cfg) = runtime, runtime' = runtime
  PROVE  Steady'
<1>1. ASSUME NEW w \in Elements(todo'), w.to = "runtime" PROVE Project(w.configuration) = runtime
  BY <1>1 DEF Projects
<1>2. ASSUME NEW w \in Elements(todo') PROVE ~(w.to = "runtime" /\ Project(w.configuration)' # runtime')
  BY <1>1 DEF Project
<1> QED
  BY <1>2 DEF Steady, Changes

LEMMA ListsWithoutClear ==
  ASSUME NEW r, NEW b, NEW c, NEW at, NEW base, NEW snapshot
  PROVE  /\ NoClear(CheckoutWrites(r, b, c)) /\ Projects(CheckoutWrites(r, b, c), documents[c].configuration)
         /\ NoClear(StashWrites(r, at, base, snapshot)) /\ Projects(StashWrites(r, at, base, snapshot), base)
         /\ NoClear(<<SetHead(r, b, c), SetApplied(r, b, c), ClaimBench(r, c)>>)
         /\ \A cfg : Projects(<<SetHead(r, b, c), SetApplied(r, b, c), ClaimBench(r, c)>>, cfg)
         /\ NoClear(<<SetApplied(r, b, c), ClaimBench(r, c), PersistState(r)>>)
         /\ \A cfg : Projects(<<SetApplied(r, b, c), ClaimBench(r, c), PersistState(r)>>, cfg)
<1>1. /\ SetHead(r, b, c).to = "head" /\ ClaimBench(r, c).to = "origin"
      /\ SetApplied(r, b, c).to = "applied" /\ PersistState(r).to = "saved"
      /\ ClaimBench(r, at.id).to = "origin" /\ SetApplied(r, at.branch, at.id).to = "applied"
      /\ SaveStash(r, snapshot, at.id).to = "stash"
  BY DEF SetHead, ClaimBench, SetApplied, PersistState, SaveStash, W
<1>2. \A cfg : Projection(r, cfg).to = "runtime" /\ Projection(r, cfg).configuration = cfg
  BY DEF Projection, W
<1>3. NoClear(CheckoutWrites(r, b, c)) /\ Projects(CheckoutWrites(r, b, c), documents[c].configuration)
  BY <1>1, <1>2, ElementsOfFew DEF CheckoutWrites, NoClear, Projects
<1>4. NoClear(StashWrites(r, at, base, snapshot)) /\ Projects(StashWrites(r, at, base, snapshot), base)
  BY <1>1, <1>2, ElementsOfFew DEF StashWrites, NoClear, Projects
<1>5. /\ NoClear(<<SetHead(r, b, c), SetApplied(r, b, c), ClaimBench(r, c)>>)
      /\ \A cfg : Projects(<<SetHead(r, b, c), SetApplied(r, b, c), ClaimBench(r, c)>>, cfg)
  BY <1>1, ElementsOfFew DEF NoClear, Projects
<1>6. /\ NoClear(<<SetApplied(r, b, c), ClaimBench(r, c), PersistState(r)>>)
      /\ \A cfg : Projects(<<SetApplied(r, b, c), ClaimBench(r, c), PersistState(r)>>, cfg)
  BY <1>1, ElementsOfFew DEF NoClear, Projects
<1> QED
  BY <1>3, <1>4, <1>5, <1>6

\* A pop brings the stash to the bench before it clears it.
LEMMA PopList ==
  ASSUME NEW r \in Repos, NEW cfg, todo' = PopWrites(r, cfg), ~Awaited',
         stash'[r] # None => stash'[r].configuration = cfg
  PROVE  PopKept'
<1>1. /\ Projection(r, cfg).to = "runtime" /\ Projection(r, cfg).configuration = cfg
      /\ ClearStash(r).to = "clear" /\ ClearStash(r).repo = r /\ PersistState(r).to = "saved"
  BY DEF Projection, ClearStash, PersistState, W
<1>2. /\ Head(todo') = Projection(r, cfg) /\ Tail(todo') = <<ClearStash(r), PersistState(r)>>
      /\ Elements(todo') = {Projection(r, cfg), ClearStash(r), PersistState(r)}
      /\ Elements(Tail(todo')) = {ClearStash(r), PersistState(r)}
  <2>1. Head(todo') = Projection(r, cfg) /\ Tail(todo') = <<ClearStash(r), PersistState(r)>>
    BY DEF PopWrites
  <2>2. Elements(todo') = {Projection(r, cfg), ClearStash(r), PersistState(r)}
    BY ElementsOfFew DEF PopWrites
  <2>3. Elements(<<ClearStash(r), PersistState(r)>>) = {ClearStash(r), PersistState(r)}
    BY ElementsOfFew
  <2> QED
    BY <2>1, <2>2, <2>3
<1>3. ASSUME NEW w \in Elements(todo'), w.to = "clear", stash'[w.repo] # None,
             stash'[w.repo].configuration = owed'
      PROVE  Restored(w)'
  <2>1. w = ClearStash(r) /\ owed' = cfg
    BY <1>1, <1>2, <1>3
  <2> QED
    BY <1>1, <1>2, <2>1 DEF Restored
<1> QED
  BY <1>3 DEF PopKept

LEMMA PopShape ==
  ASSUME NEW r \in Repos, NEW cfg, todo' = PopWrites(r, cfg)
  PROVE  NoStash(todo') /\ Projects(todo', cfg)
<1>1. /\ Projection(r, cfg).to = "runtime" /\ Projection(r, cfg).configuration = cfg
      /\ ClearStash(r).to = "clear" /\ PersistState(r).to = "saved"
  BY DEF Projection, ClearStash, PersistState, W
<1>2. Elements(todo') = {Projection(r, cfg), ClearStash(r), PersistState(r)}
  BY ElementsOfFew DEF PopWrites
<1> QED
  BY <1>1, <1>2 DEF NoStash, Projects

LEMMA OwedCommit ==
  ASSUME WorkInv, NEW r \in Repos, NEW b \in Branches, Commit(r, b) \/ PostJobCommit(r, b)
  PROVE  PopSound' /\ Owed'
<1> DEFINE list == CommitWrites(r, b, NextId)
           more == <<Projection(r, Extract(runtime)), PersistState(r)>>
<1>1. /\ UNCHANGED <<files, lab, plan, owed, cut>> /\ todo = <<>> /\ (slipped => slipped')
      /\ todo' = list \/ todo' = list \o more
      /\ runtime \in [Parts -> Places] /\ runtime' = runtime
  BY DEF Commit, PostJobCommit, Admitted, Free, history, lab, WorkInv, Inv, TypeOK
<1>2. NextId \in Commits
  BY NextIdFree DEF Commit, PostJobCommit
<1>3. /\ list \in Seq(Writes) /\ list # <<>>
      /\ Elements(list) = {SaveDocument(r, b, NextId, Extract(runtime)), SetHead(r, b, NextId),
                           SetApplied(r, b, NextId), ClaimBench(r, NextId)}
  BY <1>1, <1>2, CommitList
<1>4. /\ Projection(r, Extract(runtime)) \in Writes /\ PersistState(r) \in Writes
      /\ Projection(r, Extract(runtime)).to = "runtime" /\ PersistState(r).to = "saved"
      /\ Projection(r, Extract(runtime)).configuration = Extract(runtime)
  <2>1. Extract(runtime) \in Configurations /\ None \in Node
    BY <1>1, ExtractTyped DEF Node
  <2> HIDE DEF more, list
  <2>2. /\ Projection(r, Extract(runtime)) \in Writes
        /\ Projection(r, Extract(runtime)).to = "runtime"
        /\ Projection(r, Extract(runtime)).configuration = Extract(runtime)
    BY <2>1, WTyped DEF Projection, Targets
  <2>3. PersistState(r) \in Writes /\ PersistState(r).to = "saved"
    BY <2>1, EmptyTyped, WTyped DEF PersistState, Targets
  <2> QED
    BY <2>2, <2>3
<1>5. more \in Seq(Writes) /\ Elements(more) = {Projection(r, Extract(runtime)), PersistState(r)}
  BY <1>4, ElementsOfFew
<1>6. /\ SaveDocument(r, b, NextId, Extract(runtime)).to = "document"
      /\ SetHead(r, b, NextId).to = "head" /\ SetApplied(r, b, NextId).to = "applied"
      /\ ClaimBench(r, NextId).to = "origin"
  BY DEF SaveDocument, SetHead, SetApplied, ClaimBench, W
<1> HIDE DEF list, more
<1>7. Elements(todo') \subseteq Elements(list) \cup Elements(more)
  BY <1>1, <1>3, <1>5, ConcatList
<1>8. NoClear(todo') /\ Projects(todo', Extract(runtime))
  BY <1>3, <1>4, <1>5, <1>6, <1>7 DEF NoClear, Projects
<1>9. Steady'
  BY <1>1, <1>8, ProjectExtract, SteadyList
<1> QED
  BY <1>1, <1>8, <1>9, QuietList, OwedTodo

LEMMA OwedPointers ==
  ASSUME WorkInv, NEW r \in Repos, NEW c \in Commits,
         Adopt(r, c) \/ \E b \in Branches : Fork(r, b, c)
  PROVE  PopSound' /\ Owed'
<1>1. /\ UNCHANGED <<files, lab, plan, owed, cut>> /\ todo = <<>> /\ (slipped => slipped')
      /\ runtime \in [Parts -> Places] /\ runtime' = runtime
  BY DEF Adopt, Fork, Admitted, Free, history, lab, WorkInv, Inv, TypeOK
<1>2. NoClear(todo') /\ Projects(todo', Extract(runtime))
  BY ListsWithoutClear DEF Adopt, Fork
<1>3. Steady'
  BY <1>1, <1>2, ProjectExtract, SteadyList
<1> QED
  BY <1>1, <1>2, <1>3, QuietList, OwedTodo

\* Who says that the bench was moved gives up what was on it.
LEMMA OwedFinalize ==
  ASSUME WorkInv, GiveUp(Extract(runtime)), UNCHANGED <<files, lab, plan, cut>>, todo = <<>>,
         slipped => slipped', ~slipped' => PopKept', (\E w \in Elements(todo') : w.to = "clear") => NoStash(todo')
  PROVE  PopSound' /\ Owed'
<1>1. owed' # None => owed' = owed /\ Extract(runtime) # owed
  BY DEF GiveUp
<1> QED
  BY <1>1, OwedTodo

LEMMA OwedExecute ==
  ASSUME WorkInv, Admitted, Free, NEW op \in {"checkout", "stash", "pop"}, NEW r \in Repos,
         NEW at \in At, NEW target \in Configurations,
         NEW snapshot \in Configurations, NEW writes,
         Execute(op, r, at, target, snapshot, writes),
         UNCHANGED <<files, lab>>, ~cut' => ~cut, owed' # None => owed' = owed,
         owed' # None /\ ~cut' /\ ~slipped' /\ Extract(runtime) = owed
           => Firm(owed) \/ (op = "stash" /\ snapshot = owed),
         op = "pop" => stash[r].configuration = target,
         todo' = writes =>
           /\ Projects(todo', target) /\ (~Awaited' => PopKept')
           /\ (\E w \in Elements(todo') : w.to = "clear") => NoStash(todo')
  PROVE  PopSound' /\ Owed'
<1>1. (slipped => slipped') /\ (~slipped' => ~Awaited) /\ todo = <<>>
  BY AdmittedTyped DEF WorkInv, Free
<1>2. CASE Plan(Extract(runtime), target) = {}
  <2>1. todo' = writes /\ plan' = plan /\ runtime' = runtime
    BY <1>2 DEF Execute, lab
  <2>2. Project(target) = runtime
    BY <1>2, NothingToMove DEF WorkInv, Inv, TypeOK
  <2>3. Steady'
    BY <2>1, <2>2, SteadyList
  <2>4. ~slipped' => ~Awaited'
    BY <1>1, <2>1 DEF Awaited
  <2> QED
    BY <1>1, <2>1, <2>3, <2>4, OwedTodo
<1>3. CASE Plan(Extract(runtime), target) # {}
  <2> DEFINE d == [op |-> op, repo |-> r, at |-> at, target |-> target, snapshot |-> snapshot,
                   steps |-> Plan(Extract(runtime), target)]
  <2>1. PICK h \in Handlers : plan' = [plan EXCEPT ![h] = d]
    BY <1>3 DEF Execute
  <2>2. d \in Plans
    BY PlanTyped DEF Plans
  <2>3. d.op = op /\ d.repo = r /\ d.target = target /\ d.snapshot = snapshot /\ UNCHANGED todo
    BY <1>3 DEF Execute
  <2> HIDE DEF d
  <2>4. PopFits(d)
    BY <2>3 DEF PopFits
  <2> QED
    BY <1>1, <2>1, <2>2, <2>3, <2>4, OwedPlan
<1> QED
  BY <1>2, <1>3

LEMMA OwedCheckout ==
  ASSUME WorkInv, NEW r \in Repos, NEW c \in Commits, NEW force \in BOOLEAN, Checkout(r, c, force)
  PROVE  PopSound' /\ Owed'
<1> DEFINE at == [id |-> c, branch |-> documents[c].branch]
           target == documents[c].configuration
<1>1. /\ Free /\ Admitted /\ c \in History(r) /\ cut' = cut /\ UNCHANGED <<files, lab>>
      /\ Execute("checkout", r, at, target, EMPTY_CONFIGURATION, CheckoutWrites(r, at.branch, c))
  BY DEF Checkout
<1>2. \/ owed' # None => owed' = owed /\ Extract(runtime) # owed
      \/ owed' = owed /\ ~IsDirty(r)
  <2>1. CASE force \/ c = Applied(r).id
    BY <2>1 DEF Checkout, GiveUp
  <2>2. CASE ~(force \/ c = Applied(r).id)
    BY <2>2 DEF Checkout, MayLeave
  <2> QED
    BY <2>1, <2>2
<1>3. owed' # None /\ ~cut' /\ ~slipped' /\ Extract(runtime) = owed => Firm(owed)
  <2> SUFFICES ASSUME owed' # None, ~cut', ~slipped', Extract(runtime) = owed PROVE Firm(owed)
    OBVIOUS
  <2>1. ~IsDirty(r) /\ owed # None /\ ~slipped
    BY <1>1, <1>2, AdmittedTyped DEF WorkInv
  <2>2. owed # EMPTY_CONFIGURATION
    BY <1>1, <2>1 DEF WorkInv, Owed
  <2> QED
    BY <2>1, <2>2, CleanIsFirm DEF WorkInv
<1>4. target \in Configurations /\ at \in At
  BY <1>1, RepoFacts DEF WorkInv, At, Node
<1> HIDE DEF at
<1>5. ASSUME todo' = CheckoutWrites(r, at.branch, c)
      PROVE  /\ Projects(todo', target) /\ (~Awaited' => PopKept')
             /\ (\E w \in Elements(todo') : w.to = "clear") => NoStash(todo')
  BY <1>5, ListsWithoutClear, QuietList
<1> QED
  BY <1>1, <1>2, <1>3, <1>4, <1>5, EmptyTyped, OwedExecute

LEMMA OwedStash ==
  ASSUME WorkInv, NEW r \in Repos, Stash(r)
  PROVE  PopSound' /\ Owed'
<1> DEFINE writes == StashWrites(r, Applied(r), Base(r), Extract(runtime))
<1>1. /\ Free /\ Admitted /\ cut' = cut /\ owed' = owed /\ UNCHANGED <<files, lab>>
      /\ Execute("stash", r, Applied(r), Base(r), Extract(runtime), writes)
  BY DEF Stash
<1>2. Applied(r) \in At /\ Base(r) \in Configurations /\ Extract(runtime) \in Configurations
  BY RepoFacts, ExtractTyped DEF WorkInv, Inv, TypeOK
<1>3. ASSUME todo' = writes
      PROVE  /\ Projects(todo', Base(r)) /\ (~Awaited' => PopKept')
             /\ (\E w \in Elements(todo') : w.to = "clear") => NoStash(todo')
  BY <1>3, ListsWithoutClear, QuietList
<1> HIDE DEF writes
<1> QED
  BY <1>1, <1>2, <1>3, OwedExecute

LEMMA OwedStashPop ==
  ASSUME WorkInv, NEW r \in Repos, StashPop(r)
  PROVE  PopSound' /\ Owed'
<1> DEFINE target == stash[r].configuration
<1>1. /\ Free /\ Admitted /\ stash[r] # None /\ owed' = owed /\ UNCHANGED <<files, lab>>
      /\ Execute("pop", r, Applied(r), target, EMPTY_CONFIGURATION, PopWrites(r, target))
      /\ ~Dirty(r)
  BY DEF StashPop
<1>2. ~cut' => ~cut /\ OwnsBench(r)
  BY Zenon DEF StashPop
<1>3. ASSUME owed' # None, ~cut', ~slipped', Extract(runtime) = owed
      PROVE  Firm(owed)
  <2>1. ~IsDirty(r) /\ owed # None /\ ~cut /\ ~slipped
    BY <1>1, <1>2, <1>3, AdmittedTyped DEF Dirty, WorkInv
  <2>2. owed # EMPTY_CONFIGURATION
    BY <1>1, <2>1 DEF WorkInv, Owed
  <2> QED
    BY <1>3, <2>1, <2>2, CleanIsFirm DEF WorkInv
<1>4. Applied(r) \in At /\ target \in Configurations
  BY <1>1, RepoFacts DEF WorkInv, Inv, TypeOK, Snapshot
<1>5. stash' = stash
  BY <1>1 DEF files
<1>6. ASSUME todo' = PopWrites(r, target)
      PROVE  /\ Projects(todo', target) /\ (~Awaited' => PopKept')
             /\ (\E w \in Elements(todo') : w.to = "clear") => NoStash(todo')
  BY <1>5, <1>6, PopList, PopShape
<1> HIDE DEF target
<1> QED
  BY <1>1, <1>2, <1>3, <1>4, <1>6, EmptyTyped, OwedExecute DEF target

\* The handlers that are told that the bench has moved, and the drop
LEMMA OwedTold ==
  ASSUME WorkInv, NEW r \in Repos,
         \/ StashPopFinalize(r) \/ StashDrop(r)
         \/ \E snapshot \in Configurations : StashFinalize(r, snapshot)
         \/ \E c \in Commits : CheckoutFinalize(r, c)
         \/ \E b \in Branches, c \in Commits : JobFinalize(r, b, c)
  PROVE  PopSound' /\ Owed'
<1>1. CASE StashPopFinalize(r)
  <2>1. /\ GiveUp(Extract(runtime)) /\ UNCHANGED <<files, lab, plan, cut>> /\ todo = <<>>
        /\ (slipped => slipped')
        /\ todo' = PopWrites(r, stash[r].configuration) /\ stash' = stash
        /\ ~slipped' => ~Awaited'
    BY <1>1, AdmittedTyped DEF StashPopFinalize, Free, files, Awaited, WorkInv
  <2>2. (~slipped' => PopKept') /\ NoStash(todo')
    BY <2>1, PopList, PopShape
  <2> QED
    BY <2>1, <2>2, OwedFinalize
<1>2. CASE StashDrop(r)
  <2>1. /\ UNCHANGED <<files, lab, plan, cut>> /\ todo = <<>>
        /\ (slipped => slipped') /\ todo' = <<ClearStash(r)>>
        /\ owed' # None => owed' = owed /\ stash[r].configuration # owed
        /\ stash' = stash
    BY <1>2 DEF StashDrop, GiveUp, Free, files
  <2>2. Elements(todo') = {ClearStash(r)} /\ ClearStash(r).to = "clear" /\ ClearStash(r).repo = r
    BY <2>1, ElementsOfFew DEF ClearStash, W
  <2>3. Steady' /\ NoStash(todo')
    BY <2>2 DEF Steady, Changes, NoStash
  <2>4. owed' # None => PopKept'
    BY <2>1, <2>2 DEF PopKept
  <2> QED
    BY <2>1, <2>3, <2>4, OwedTodo
<1>3. ASSUME NEW snapshot \in Configurations, StashFinalize(r, snapshot) PROVE PopSound' /\ Owed'
  <2>1. /\ GiveUp(Extract(runtime)) /\ UNCHANGED <<files, lab, plan, cut>> /\ todo = <<>>
        /\ (slipped => slipped')
        /\ todo' = StashWrites(r, Applied(r), Base(r), snapshot)
    BY <1>3 DEF StashFinalize, Admitted, Free
  <2>2. NoClear(todo')
    BY <2>1, ListsWithoutClear
  <2> QED
    BY <2>1, <2>2, QuietList, OwedFinalize
<1>4. ASSUME NEW c \in Commits, NEW b, CheckoutFinalize(r, c) \/ JobFinalize(r, b, c)
      PROVE  PopSound' /\ Owed'
  <2>1. /\ GiveUp(Extract(runtime)) /\ UNCHANGED <<files, lab, plan, cut>> /\ todo = <<>>
        /\ (slipped => slipped')
        /\ todo' = CheckoutWrites(r, b, c) \/ todo' = CheckoutWrites(r, documents[c].branch, c)
    BY <1>4, AdmittedTyped DEF CheckoutFinalize, JobFinalize, Free, WorkInv
  <2>2. NoClear(todo')
    BY <2>1, ListsWithoutClear
  <2> QED
    BY <2>1, <2>2, QuietList, OwedFinalize
<1> QED
  BY <1>1, <1>2, <1>3, <1>4

-----------------------------------------------------------------------------
\* ... and the writes

LEMMA OwedWriteNames ==
  ASSUME WorkInv, Write, Head(todo).to \in {"document", "head", "applied", "origin", "saved"}
  PROVE  PopSound' /\ Owed'
<1>1. /\ UNCHANGED <<bench, plan, owed, missed, slipped, cut>> /\ UNCHANGED <<stash, runtime>>
      /\ Head(todo) \in Elements(todo)
      /\ \A v \in Elements(todo') : v \in Elements(todo)
  <2>1. UNCHANGED <<stash, runtime>>
    BY DEF Write, files
  <2> QED
    BY <2>1, WriteFrame DEF WorkInv
<1>2. \A v \in Elements(todo) : v.to = "stash" => v \in Elements(todo')
  <2>1. todo \in Seq(Writes) /\ todo # <<>> /\ todo' = Tail(todo)
    BY DEF WorkInv, Inv, TypeOK, Write, Free
  <2> QED
    BY <2>1, TailRest
<1>3. \A c \in Commits : documents[c] # None => documents'[c] = documents[c]
  <2>1. CASE Head(todo).to = "document"
    <3>1. /\ Head(todo).id \in Commits /\ documents[Head(todo).id] = None
      BY <1>1, <2>1 DEF WorkInv, Inv, TodoSound, SoundIn
    <3>2. \E d : documents' = [documents EXCEPT ![Head(todo).id] = d]
      BY <2>1 DEF Write
    <3> QED
      BY <3>1, <3>2 DEF WorkInv, Inv, TypeOK
  <2>2. CASE Head(todo).to # "document"
    BY <2>2 DEF Write, files
  <2> QED
    BY <2>1, <2>2
<1>4. PopSound'
  BY <1>1 DEF WorkInv, PopSound, PopFits, NoStash
<1> SUFFICES ASSUME ~cut', ~slipped', owed' # None
             PROVE  (owed # EMPTY_CONFIGURATION /\ BenchKept /\ PlanKept /\ PopKept)'
  BY <1>4 DEF Owed
<1>5. /\ owed' = owed /\ owed # EMPTY_CONFIGURATION
      /\ BenchKept /\ PlanKept /\ PopKept
  BY <1>1 DEF WorkInv, Owed
<1>6. Firm(owed) => Firm(owed)'
  BY <1>1, <1>3, <1>5 DEF Firm
<1>7. Apart(owed) => Apart(owed)'
  BY <1>1, <1>2, <1>5, <1>6 DEF Apart
<1>8. Steady => Steady'
  BY <1>1 DEF Steady, Changes, Project
<1>9. BenchKept' /\ PlanKept'
  BY <1>1, <1>5, <1>6, <1>7, <1>8 DEF BenchKept, PlanKept, Awaited
<1>10. PopKept'
  <2> SUFFICES ASSUME NEW w \in Elements(todo'), w.to = "clear", stash[w.repo] # None,
                      stash[w.repo].configuration = owed
               PROVE  Restored(w)'
    BY <1>1 DEF PopKept
  <2>1. Restored(w)
    BY <1>1, <1>5 DEF PopKept
  <2>2. ~Awaited /\ Extract(runtime) = owed /\ \A v \in Elements(todo) : v.to # "runtime"
    BY <2>1 DEF Restored, Awaited
  <2> QED
    BY <1>1, <2>2 DEF Restored, Awaited
<1>11. EMPTY_CONFIGURATION' = EMPTY_CONFIGURATION
  BY DEF EMPTY_CONFIGURATION
<1> QED
  BY <1>5, <1>9, <1>10, <1>11

LEMMA OwedWriteStash ==
  ASSUME WorkInv, Write, Head(todo).to \in {"stash", "clear"}
  PROVE  PopSound' /\ Owed'
<1>1. PICK w \in Writes : w = Head(todo)
  BY WriteFrame DEF WorkInv
<1>2. /\ UNCHANGED <<bench, plan, owed, missed, slipped, cut, documents, runtime>>
      /\ w \in Elements(todo) /\ SoundIn(todo, w) /\ w.repo \in Repos
      /\ \A v \in Elements(todo') : v \in Elements(todo)
  <2>1. UNCHANGED <<documents, runtime>>
    BY DEF Write
  <2> QED
    BY <1>1, <2>1, WriteFrame DEF WorkInv, Writes
<1>3. \A v \in Elements(todo) : v = w \/ v \in Elements(todo')
  <2>1. todo \in Seq(Writes) /\ todo # <<>> /\ todo' = Tail(todo)
    BY DEF WorkInv, Inv, TypeOK, Write, Free
  <2> QED
    BY <1>1, <2>1, TailRest
<1>4. /\ \A r \in Repos : r # w.repo => stash'[r] = stash[r]
      /\ w.to = "clear" => stash'[w.repo] = None
      /\ w.to = "stash" => /\ ~slipped => stash[w.repo] = None
                           /\ stash'[w.repo] # None
                           /\ stash'[w.repo].configuration = w.configuration
  <2>1. CASE w.to = "clear"
    <3>1. stash' = [stash EXCEPT ![w.repo] = None]
      BY <1>1, <2>1 DEF Write
    <3> QED
      BY <1>2, <2>1, <3>1 DEF WorkInv, Inv, TypeOK
  <2>2. CASE w.to = "stash"
    <3>1. PICK d : d = [configuration |-> w.configuration, base |-> w.id]
      OBVIOUS
    <3>2. stash' = [stash EXCEPT ![w.repo] = d] /\ d \in Snapshot /\ d.configuration = w.configuration
      BY <1>1, <2>2, <3>1 DEF Write, Writes, Snapshot
    <3>3. d # None
      BY <3>2, NoneIsNoRecord
    <3> QED
      BY <1>2, <2>2, <3>2, <3>3 DEF WorkInv, Inv, TypeOK, SoundIn
  <2> QED
    BY <1>1, <2>1, <2>2
<1>5. PopSound'
  <2>1. ASSUME ~slipped', NEW h \in Handlers, plan'[h] # None
        PROVE  PopFits(plan[h])'
    <3>1. plan[h] \in Plans /\ NoStash(todo) /\ PopFits(plan[h]) /\ plan' = plan
      BY <1>2, <2>1 DEF WorkInv, Inv, TypeOK, PlanSound, PlanFits, PopSound
    <3>2. plan[h].repo \in Repos /\ w.to = "clear"
      BY <1>1, <1>2, <3>1 DEF Plans, NoStash
    <3>3. stash'[plan[h].repo] \in {None, stash[plan[h].repo]}
      BY <1>4, <3>2
    <3> QED
      BY <3>1, <3>3 DEF PopFits
  <2>2. (\E v \in Elements(todo') : v.to = "clear") => NoStash(todo')
    BY <1>2 DEF WorkInv, PopSound, NoStash
  <2> QED
    BY <2>1, <2>2 DEF PopSound, NoStash
<1> SUFFICES ASSUME ~cut', ~slipped', owed' # None
             PROVE  (owed # EMPTY_CONFIGURATION /\ BenchKept /\ PlanKept /\ PopKept)'
  BY <1>5 DEF Owed
<1>6. /\ owed' = owed /\ owed # EMPTY_CONFIGURATION
      /\ BenchKept /\ PlanKept /\ PopKept
  BY <1>2 DEF WorkInv, Owed
<1>7. Steady => Steady'
  BY <1>2 DEF Steady, Changes, Project
<1>8. EMPTY_CONFIGURATION' = EMPTY_CONFIGURATION
  BY DEF EMPTY_CONFIGURATION
<1>9. CASE w.to = "stash"
  <2>1. Firm(owed) => Firm(owed)'
    BY <1>2, <1>4, <1>6, <1>9 DEF Firm
  <2>2. w.configuration = owed => Firm(owed)'
    BY <1>2, <1>4, <1>6, <1>9 DEF Firm
  <2>3. Apart(owed) => Apart(owed)'
    BY <1>2, <1>3, <1>6, <2>1, <2>2 DEF Apart
  <2>4. BenchKept' /\ PlanKept'
    BY <1>2, <1>6, <1>7, <2>1, <2>3 DEF BenchKept, PlanKept, Awaited
  <2>5. \A v \in Elements(todo') : v.to # "clear"
    BY <1>2, <1>9 DEF WorkInv, PopSound, NoStash
  <2>6. PopKept'
    BY <2>5 DEF PopKept
  <2> QED
    BY <1>6, <1>8, <2>4, <2>6
<1>10. CASE w.to = "clear" /\ stash[w.repo] # None /\ stash[w.repo].configuration = owed
  <2>1. Restored(w)
    BY <1>2, <1>6, <1>10 DEF PopKept
  <2>2. ~Awaited /\ Extract(runtime) = owed /\ \A v \in Elements(todo) : v.to # "runtime"
    BY <1>1, <1>10, <2>1 DEF Restored, Awaited
  <2>3. BenchKept' /\ PopKept' /\ Steady'
    BY <1>2, <1>6, <2>2 DEF BenchKept, PopKept, Restored, Awaited, Steady, Changes
  <2>4. PlanKept'
    BY <1>2, <2>2, <2>3 DEF PlanKept, Awaited
  <2> QED
    BY <1>6, <1>8, <2>3, <2>4
<1>11. CASE w.to = "clear" /\ ~(stash[w.repo] # None /\ stash[w.repo].configuration = owed)
  <2>1. Firm(owed) => Firm(owed)'
    BY <1>2, <1>4, <1>6, <1>11 DEF Firm
  <2>2. Apart(owed) => Apart(owed)'
    BY <1>2, <1>3, <1>6, <1>11, <2>1 DEF Apart
  <2>3. BenchKept' /\ PlanKept'
    BY <1>2, <1>6, <1>7, <2>1, <2>2 DEF BenchKept, PlanKept, Awaited
  <2>4. PopKept'
    <3> SUFFICES ASSUME NEW v \in Elements(todo'), v.to = "clear", stash'[v.repo] # None,
                        stash'[v.repo].configuration = owed
                 PROVE  Restored(v)'
      BY <1>6 DEF PopKept
    <3>1. v.repo # w.repo /\ v \in Elements(todo) /\ v.repo \in Repos
      BY <1>2, <1>4, <1>11, WriteFrame DEF WorkInv, Writes
    <3>2. Restored(v)
      BY <1>4, <1>6, <3>1 DEF PopKept
    <3>3. ~Awaited /\ Extract(runtime) = owed /\ \A u \in Elements(todo) : u.to # "runtime"
      BY <1>1, <1>11, <3>2 DEF Restored, Awaited
    <3> QED
      BY <1>2, <1>6, <3>3 DEF Restored, Awaited
  <2> QED
    BY <1>6, <1>8, <2>3, <2>4
<1> QED
  BY <1>1, <1>9, <1>10, <1>11

LEMMA OwedWriteLab ==
  ASSUME WorkInv, Write, Head(todo).to = "runtime"
  PROVE  PopSound' /\ Owed'
<1>1. PICK w \in Writes : w = Head(todo)
  BY WriteFrame DEF WorkInv
<1>2. /\ UNCHANGED <<bench, plan, owed, missed, slipped, cut, documents, stash>>
      /\ w \in Elements(todo) /\ w.configuration \in Configurations
      /\ runtime' = Project(w.configuration) /\ todo' = Tail(todo)
      /\ \A v \in Elements(todo') : v \in Elements(todo)
  <2>1. UNCHANGED <<documents, stash>> /\ runtime' = Project(w.configuration)
    BY <1>1 DEF Write, files
  <2> QED
    BY <1>1, <2>1, WriteFrame DEF WorkInv, Writes
<1>3. \A v \in Elements(todo) : v = w \/ v \in Elements(todo')
  <2>1. todo \in Seq(Writes) /\ todo # <<>> /\ todo' = Tail(todo)
    BY DEF WorkInv, Inv, TypeOK, Write, Free
  <2> QED
    BY <1>1, <2>1, TailRest
<1>4. PopSound'
  BY <1>2 DEF WorkInv, PopSound, PopFits, NoStash
<1> SUFFICES ASSUME ~cut', ~slipped', owed' # None
             PROVE  (owed # EMPTY_CONFIGURATION /\ BenchKept /\ PlanKept /\ PopKept)'
  BY <1>4 DEF Owed
<1>5. /\ owed' = owed /\ owed # EMPTY_CONFIGURATION
      /\ BenchKept /\ PlanKept /\ PopKept
  BY <1>2 DEF WorkInv, Owed
<1>6. Firm(owed) => Firm(owed)'
  BY <1>2, <1>5 DEF Firm
<1>7. Apart(owed) => Apart(owed)'
  BY <1>1, <1>2, <1>3, <1>5, <1>6 DEF Apart
<1>8. runtime' # runtime => ~Steady
  BY <1>1, <1>2 DEF Steady, Changes
<1>9. Steady => runtime' = runtime /\ Steady'
  <2> SUFFICES ASSUME Steady PROVE runtime' = runtime /\ Steady'
    OBVIOUS
  <2>1. runtime' = runtime
    BY <1>8
  <2> QED
    BY <1>2, <2>1 DEF Steady, Changes, Project
<1>10. BenchKept'
  BY <1>5, <1>7, <1>8 DEF BenchKept, PlanKept, Awaited
<1>11. PlanKept'
  BY <1>2, <1>5, <1>7, <1>9 DEF PlanKept, Awaited
<1>12. PopKept'
  <2> SUFFICES ASSUME NEW v \in Elements(todo'), v.to = "clear", stash[v.repo] # None,
                      stash[v.repo].configuration = owed
               PROVE  Restored(v)'
    BY <1>2 DEF PopKept
  <2>1. Restored(v)
    BY <1>2, <1>5 DEF PopKept
  <2>2. ~Awaited /\ w.configuration = owed /\ \A u \in Elements(todo') : u.to # "runtime"
    BY <1>1, <1>2, <2>1 DEF Restored, Awaited
  <2>3. Extract(runtime)' = owed
    BY <1>2, <2>2, ExtractProject
  <2> QED
    BY <1>2, <2>2, <2>3 DEF Restored, Awaited
<1>13. EMPTY_CONFIGURATION' = EMPTY_CONFIGURATION
  BY DEF EMPTY_CONFIGURATION
<1> QED
  BY <1>5, <1>10, <1>11, <1>12, <1>13

-----------------------------------------------------------------------------
\* ... and the plans, the failures and the moves of jobs

\* What is in a file stays there.
LEMMA FirmStays ==
  ASSUME UNCHANGED files, owed' = owed
  PROVE  Firm(owed) => Firm(owed)'
  BY DEF files, Firm

LEMMA EmptySame == EMPTY_CONFIGURATION' = EMPTY_CONFIGURATION
  BY DEF EMPTY_CONFIGURATION

LEMMA OwedStep ==
  ASSUME WorkInv, NEW h \in Handlers, plan[h] # None, NEW step,
         plan' = [plan EXCEPT ![h].steps = @ \ {step}], todo = <<>>, todo' = todo,
         UNCHANGED <<files, owed, slipped, cut>>
  PROVE  PopSound' /\ Owed'
<1>1. /\ plan'[h] # None /\ \A g \in Handlers : g # h => plan'[g] = plan[g]
      /\ plan'[h].op = plan[h].op /\ plan'[h].repo = plan[h].repo
      /\ plan'[h].target = plan[h].target /\ plan'[h].snapshot = plan[h].snapshot
  BY PlanLess DEF WorkInv
<1>2. stash' = stash
  BY DEF files
<1>3. \A g \in Handlers : PopFits(plan[g]) => PopFits(plan[g])'
  BY <1>1, <1>2 DEF PopFits
<1>4. PopSound'
  BY <1>1, <1>3, ElementsOfFew DEF WorkInv, PopSound, NoStash
<1> SUFFICES ASSUME ~cut', ~slipped', owed' # None
             PROVE  (owed # EMPTY_CONFIGURATION /\ BenchKept /\ PlanKept /\ PopKept)'
  BY <1>4 DEF Owed
<1>5. owed # EMPTY_CONFIGURATION /\ Apart(owed)
  BY DEF WorkInv, Owed, PlanKept, Awaited
<1>6. Apart(owed)'
  BY <1>1, <1>5, AtRest, FirmStays DEF Apart
<1>7. PopKept'
  BY ElementsOfFew DEF PopKept
<1> QED
  BY <1>5, <1>6, <1>7, EmptySame DEF BenchKept, PlanKept

\* A plan that is done goes on to its writes.
LEMMA OwedDone ==
  ASSUME WorkInv, NEW h \in Handlers, plan[h] # None, todo = <<>>,
         plan' = [plan EXCEPT ![h] = None], todo' = Continuation(plan[h]),
         UNCHANGED <<files, owed, slipped, cut>>
  PROVE  PopSound' /\ Owed'
<1>1. PICK d : d = plan[h]
  OBVIOUS
<1>2. /\ d \in Plans /\ d.repo \in Repos /\ d.op \in {"checkout", "stash", "pop"}
      /\ plan' \in [Handlers -> Plans \cup {None}] /\ \A g \in Handlers : plan'[g] \in {None, plan[g]}
      /\ stash' = stash /\ todo' = Continuation(d)
  BY <1>1 DEF WorkInv, Inv, TypeOK, Plans, files
<1>3. ~slipped' => (\A g \in Handlers : g # h => plan[g] = None) /\ ~Awaited' /\ PopFits(d)
  BY <1>1, <1>2 DEF WorkInv, Inv, TypeOK, OnePlan, Awaited, PopSound
<1>4. /\ ~slipped' => PopKept'
      /\ (\E w \in Elements(todo') : w.to = "clear") => NoStash(todo')
      /\ d.op = "stash" => \E w \in Elements(todo') : w.to = "stash" /\ w.configuration = d.snapshot
  <2>1. CASE d.op = "checkout"
    <3>1. todo' = CheckoutWrites(d.repo, d.at.branch, d.at.id)
      BY <1>2, <2>1 DEF Continuation
    <3>2. NoClear(todo')
      BY <3>1, ListsWithoutClear
    <3> QED
      BY <2>1, <3>2, QuietList
  <2>2. CASE d.op = "stash"
    <3>1. todo' = StashWrites(d.repo, d.at, d.target, d.snapshot)
      BY <1>2, <2>2 DEF Continuation
    <3>2. NoClear(todo')
      BY <3>1, ListsWithoutClear
    <3>3. SaveStash(d.repo, d.snapshot, d.at.id) \in Elements(todo')
      BY <3>1, ElementsOfFew DEF StashWrites
    <3>4. /\ SaveStash(d.repo, d.snapshot, d.at.id).to = "stash"
          /\ SaveStash(d.repo, d.snapshot, d.at.id).configuration = d.snapshot
      BY DEF SaveStash, W
    <3> QED
      BY <3>2, <3>3, <3>4, QuietList
  <2>3. CASE d.op = "pop"
    <3>1. todo' = PopWrites(d.repo, d.target)
      BY <1>2, <2>3 DEF Continuation
    <3>2. ~slipped' => (stash'[d.repo] # None => stash'[d.repo].configuration = d.target)
      BY <1>2, <1>3, <2>3 DEF PopFits
    <3>3. PICK r \in Repos : r = d.repo
      BY <1>2
    <3>4. NoStash(todo')
      BY <3>1, <3>3, PopShape
    <3>5. ~slipped' => PopKept'
      BY <1>3, <3>1, <3>2, <3>3, PopList
    <3> QED
      BY <2>3, <3>4, <3>5
  <2> QED
    BY <1>2, <2>1, <2>2, <2>3
<1>5. PopSound'
  BY <1>3, <1>4 DEF PopSound, Awaited
<1> SUFFICES ASSUME ~cut', ~slipped', owed' # None
             PROVE  (owed # EMPTY_CONFIGURATION /\ BenchKept /\ PlanKept)'
  BY <1>4, <1>5 DEF Owed
<1>6. owed # EMPTY_CONFIGURATION /\ Apart(owed)
  BY DEF WorkInv, Owed, PlanKept, Awaited
<1>7. Firm(owed) \/ (d.op = "stash" /\ d.snapshot = owed)
  BY <1>1, <1>3, <1>6, AtRest
<1>8. Apart(owed)'
  BY <1>4, <1>7, FirmStays DEF Apart
<1> QED
  BY <1>6, <1>8, EmptySame DEF BenchKept, PlanKept

LEMMA OwedEnd ==
  ASSUME WorkInv, Crash \/ \E h \in Handlers : PlanFails(h)
  PROVE  PopSound' /\ Owed'
<1>1. /\ UNCHANGED <<files, owed, slipped>> /\ todo' = <<>> /\ runtime' \in {runtime, saved}
      /\ cut' = (cut \/ CutShort)
  BY DEF PlanFails, Crash, lab, Free
<1>2. \A g \in Handlers : plan'[g] \in {None, plan[g]}
  BY DEF PlanFails, Crash, WorkInv, Inv, TypeOK
<1>3. ~slipped' => ~Awaited'
  BY <1>1 DEF PlanFails, Crash, WorkInv, Inv, TypeOK, OnePlan, Awaited
<1>4. PopSound' /\ PopKept' /\ Steady'
  BY <1>1, <1>3, ElementsOfFew DEF PopSound, PopKept, Steady, Awaited
<1> SUFFICES ASSUME ~cut', ~slipped', owed' # None
             PROVE  (owed # EMPTY_CONFIGURATION /\ BenchKept /\ PlanKept)'
  BY <1>4 DEF Owed
<1>5. ~cut /\ ~CutShort
  BY <1>1, Zenon
<1>6. owed # EMPTY_CONFIGURATION /\ BenchKept
  BY <1>1, <1>5 DEF WorkInv, Owed
<1>7. /\ runtime' = runtime
      /\ \A h \in Handlers : plan[h] # None /\ plan[h].op = "stash" => plan[h].snapshot = Extract(runtime)
      /\ \A w \in Elements(todo) : w.to # "stash"
  BY <1>1, <1>5 DEF CutShort, Elements
<1>8. Extract(runtime) = owed \/ Firm(owed)
  BY <1>6, <1>7 DEF BenchKept, Apart
<1>9. BenchKept'
  BY <1>1, <1>7, <1>8, FirmStays DEF BenchKept, Apart
<1> QED
  BY <1>1, <1>3, <1>4, <1>6, <1>9, EmptySame DEF PlanKept

\* A move begins or fails: nothing has moved.
LEMMA OwedMove ==
  ASSUME WorkInv, MoveFails \/ \E p \in Parts, place \in Places : MoveBegins(p, place)
  PROVE  PopSound' /\ Owed'
<1>1. /\ UNCHANGED <<files, runtime, plan, owed, slipped, cut>> /\ todo = <<>> /\ todo' = todo
      /\ stash' = stash
  BY DEF MoveFails, MoveBegins, Free, lab, work, history, files
<1>2. PopSound' /\ PopKept' /\ Steady'
  BY <1>1, ElementsOfFew DEF WorkInv, PopSound, PopFits, PopKept, NoStash, Steady
<1>3. Apart(owed) => Apart(owed)'
  BY <1>1, AtRest, FirmStays DEF Apart
<1> QED
  BY <1>1, <1>2, <1>3, EmptySame DEF WorkInv, Owed, BenchKept, PlanKept, Awaited

LEMMA OwedMoveEnds ==
  ASSUME WorkInv, MoveEnds
  PROVE  PopSound' /\ Owed'
<1>1. /\ UNCHANGED <<files, plan, slipped, cut>> /\ todo = <<>> /\ todo' = todo
      /\ stash' = stash /\ owed' \in SetUp(runtime')
  BY DEF MoveEnds, Free, work, files
<1>2. PopSound' /\ PopKept' /\ Steady'
  BY <1>1, ElementsOfFew DEF WorkInv, PopSound, PopFits, PopKept, NoStash, Steady
<1> SUFFICES ASSUME ~cut', ~slipped', owed' # None
             PROVE  (owed # EMPTY_CONFIGURATION /\ BenchKept /\ PlanKept)'
  BY <1>2 DEF Owed
<1>3. CASE owed' = owed /\ (Awaited \/ Extract(runtime) # owed)
  <2>1. owed # EMPTY_CONFIGURATION /\ BenchKept /\ PlanKept
    BY <1>1, <1>3 DEF WorkInv, Owed
  <2>2. Apart(owed)
    BY <1>3, <2>1 DEF BenchKept, PlanKept
  <2>3. Apart(owed)'
    BY <1>1, <1>3, <2>2, AtRest, FirmStays DEF Apart
  <2> QED
    BY <1>3, <2>1, <2>3, EmptySame DEF BenchKept, PlanKept
<1>4. CASE ~Awaited /\ owed' = Extract(runtime') /\ owed' # EMPTY_CONFIGURATION
  <2>1. Extract(runtime') = Extract(runtime)'
    BY DEF Extract
  <2> QED
    BY <1>1, <1>2, <1>4, <2>1, EmptySame DEF BenchKept, PlanKept, Awaited
<1> QED
  BY <1>1, <1>3, <1>4, Zenon DEF SetUp

LEMMA WorkStep == WorkInv /\ [Next]_vars => WorkInv'
<1> SUFFICES ASSUME WorkInv, [Next]_vars PROVE PopSound' /\ Owed'
  BY InvStep DEF WorkInv
<1>1. CASE UNCHANGED vars
  <2>1. UNCHANGED <<documents, heads, applied, stash, origin, saved, runtime, bench, status, move,
                    plan, todo, owed, missed, slipped, cut>>
    BY <1>1 DEF vars, files, lab, motion, work, history
  <2>2. PopSound'
    BY <2>1 DEF WorkInv, PopSound, PopFits, NoStash
  <2>3. Firm(owed) => Firm(owed)'
    BY <2>1 DEF Firm
  <2>4. Apart(owed) => Apart(owed)'
    BY <2>1, <2>3 DEF Apart
  <2>5. Steady' <=> Steady
    BY <2>1 DEF Steady, Changes, Project
  <2>6. Owed'
    BY <2>1, <2>3, <2>4, <2>5, EmptySame
       DEF WorkInv, Owed, BenchKept, PlanKept, PopKept, Restored, Awaited
  <2> QED
    BY <2>2, <2>6
<1>2. CASE Write
  <2>1. Head(todo).to \in Targets
    BY <1>2, WriteFrame DEF WorkInv, Writes, Targets
  <2> QED
    BY <1>2, <2>1, OwedWriteNames, OwedWriteStash, OwedWriteLab DEF Targets
<1>3. CASE MoveEnds \/ MoveFails \/ Crash
  BY <1>3, OwedMoveEnds, OwedMove, OwedEnd
<1>4. ASSUME NEW r \in Repos, Stash(r) \/ StashPop(r) \/ StashPopFinalize(r) \/ StashDrop(r)
      PROVE  PopSound' /\ Owed'
  BY <1>4, OwedStash, OwedStashPop, OwedTold
<1>5. ASSUME NEW r \in Repos, NEW snapshot \in Configurations, StashFinalize(r, snapshot)
      PROVE  PopSound' /\ Owed'
  BY <1>5, OwedTold
<1>6. ASSUME NEW r \in Repos, NEW b \in Branches, Commit(r, b) \/ PostJobCommit(r, b)
      PROVE  PopSound' /\ Owed'
  BY <1>6, OwedCommit
<1>7. ASSUME NEW r \in Repos, NEW c \in Commits, Adopt(r, c) \/ CheckoutFinalize(r, c)
      PROVE  PopSound' /\ Owed'
  BY <1>7, OwedPointers, OwedTold
<1>8. ASSUME NEW r \in Repos, NEW c \in Commits, NEW force \in BOOLEAN, Checkout(r, c, force)
      PROVE  PopSound' /\ Owed'
  BY <1>8, OwedCheckout
<1>9. ASSUME NEW r \in Repos, NEW b \in Branches, NEW c \in Commits,
             Fork(r, b, c) \/ JobFinalize(r, b, c)
      PROVE  PopSound' /\ Owed'
  BY <1>9, OwedPointers, OwedTold
<1>10. ASSUME NEW h \in Handlers,
              \/ PlanFails(h)
              \/ \E step \in (IF plan[h] = None THEN {} ELSE plan[h].steps) : Step(h, step)
       PROVE  PopSound' /\ Owed'
  <2>1. CASE PlanFails(h)
    BY <2>1, OwedEnd
  <2>2. ASSUME NEW step, plan[h] # None, Step(h, step) PROVE PopSound' /\ Owed'
    <3>1. /\ todo = <<>> /\ UNCHANGED <<files, owed, slipped, cut>>
          /\ \/ plan' = [plan EXCEPT ![h].steps = @ \ {step}] /\ todo' = todo
             \/ plan' = [plan EXCEPT ![h] = None] /\ todo' = Continuation(plan[h])
      BY <2>2 DEF Step, Free
    <3> QED
      BY <2>2, <3>1, OwedStep, OwedDone
  <2> QED
    BY <1>10, <2>1, <2>2
<1>11. ASSUME NEW p \in Parts, NEW place \in Places, MoveBegins(p, place)
       PROVE  PopSound' /\ Owed'
  BY <1>11, OwedMove
<1>12. CASE Next
  BY <1>2, <1>3, <1>4, <1>5, <1>6, <1>7, <1>8, <1>9, <1>10, <1>11, <1>12, Zenon DEF Next
<1> QED
  BY <1>1, <1>12

\* What the operator has set up is not lost: whatever is committed, checked
\* out, stashed, popped and dropped, whatever jobs move meanwhile, in a plan
\* that fails or in a process that dies between two writes, it is on the bench,
\* in a commit or in a stash, or on its way into one (the order of the writes
\* in control_stash, control_stash_pop, control_checkout and
\* commit_configuration, and the refusals of a dirty bench), with the
\* exceptions that CutShort lists, and as long as no operation that asks for an
\* idle bench is let in during the plan of another
\* (_assert_lab_idle_for_control).
THEOREM WorkIsKept == Spec => []WorkKept
<1>1. WorkInv => WorkKept
  <2> SUFFICES ASSUME WorkInv, ~cut, ~slipped, owed # None PROVE Kept(owed)
    BY DEF WorkKept
  <2>1. Extract(runtime) = owed \/ Apart(owed)
    BY DEF WorkInv, Owed, BenchKept
  <2> QED
    BY <2>1 DEF Kept, Apart, Firm, Elements
<1>2. Init => WorkInv
  BY InvInit, OwedInit DEF WorkInv
<1> QED
  BY <1>1, <1>2, WorkStep, PTL DEF Spec

=============================================================================
