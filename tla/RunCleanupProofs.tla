-------------------------- MODULE RunCleanupProofs --------------------------
(***************************************************************************)
(* What RunCleanup guarantees for any number of cleanups, resources and    *)
(* sessions.  The inductive invariant adds three facts to the types: one   *)
(* cleanup at a time (the lease), a fenced and unchanged record while it   *)
(* removes things, and a held branch that stays at its frozen tip.  On it  *)
(* rests a second one (Tracked): what a removal without an error has done  *)
(* so far is gone for good, and all its record lists was once made.        *)
(***************************************************************************)
EXTENDS RunCleanup, TLAPS

RepoState ==
  [path : Nat, registration : Nat, attached : BOOLEAN, dirty : BOOLEAN,
   branch : Nat, tip : 1 .. MaxTip, merged : 1 .. MaxTip, made : Nat]

\* The blank records have their types.
LEMMA BlankTypes ==
  /\ NewRun \in RunRecord /\ NoRun \in RunRecord
  /\ Free \in CleanerState /\ Free.held = FALSE /\ Free.pc = "idle"
  /\ NewRepo \in RepoState
<1>1. NewRun \in RunRecord /\ NoRun \in RunRecord
  BY DEF NewRun, NoRun, RunRecord, Unregistered
<1>2. NewRepo \in RepoState
  BY CleanupBoundsAssumption DEF NewRepo, RepoState
<1>3. [r \in Resources |-> 0] \in [Resources -> 0 .. MaxTip]
  BY CleanupBoundsAssumption
<1>4. Free \in CleanerState /\ Free.held = FALSE /\ Free.pc = "idle"
  BY <1>1, <1>3 DEF Free, CleanerState, Stages
<1>5. QED
  BY <1>1, <1>2, <1>4

\* A cleanup that takes a well-typed state keeps the type of all of them.
LEMMA BecomesTyped ==
  ASSUME TypeOK, NEW c \in Cleaners, NEW p \in CleanerState, Becomes(c, p),
         p.held => p.pc \in Branch
  PROVE  /\ cleaner' \in [Cleaners -> CleanerState]
         /\ \A d \in Cleaners : cleaner'[d].held => cleaner'[d].pc \in Branch
BY DEF TypeOK, Becomes

\* A change of one resource keeps the type of the repository.
LEMMA WorkTyped ==
  ASSUME TypeOK, NEW r \in Resources, NEW g \in RepoState, Work(r, g)
  PROVE  TypeOK'
<1>1. repo' \in [Resources -> RepoState]
  BY DEF TypeOK, Work, RepoState
<1>2. changes' \in 0 .. MaxChanges
  BY CleanupBoundsAssumption DEF TypeOK, Work, Changes
<1>3. rewound' \subseteq Resources
  BY DEF TypeOK, Work
<1>4. QED
  BY <1>1, <1>2, <1>3 DEF TypeOK, Work, RepoState

\* The edits of one resource have its type.
LEMMA EditedTypes ==
  ASSUME NEW g \in RepoState
  PROVE  /\ [g EXCEPT !.path = 0] \in RepoState
         /\ [g EXCEPT !.path = g.registration] \in RepoState
         /\ [g EXCEPT !.registration = 0, !.dirty = FALSE] \in RepoState
         /\ [g EXCEPT !.path = g.made + 1, !.made = @ + 1] \in RepoState
         /\ [g EXCEPT !.path = g.made + 1, !.registration = g.made + 1,
                      !.made = @ + 1, !.attached = TRUE] \in RepoState
         /\ [g EXCEPT !.branch = 0] \in RepoState
         /\ [g EXCEPT !.branch = g.made + 1, !.made = @ + 1] \in RepoState
<1>1. [g EXCEPT !.path = 0] \in RepoState
  BY DEF RepoState
<1>2. [g EXCEPT !.path = g.registration] \in RepoState
  BY DEF RepoState
<1>3. [g EXCEPT !.registration = 0, !.dirty = FALSE] \in RepoState
  BY DEF RepoState
<1>4. [g EXCEPT !.branch = 0] \in RepoState
  BY DEF RepoState
<1>5. PICK n \in Nat : n = g.made + 1
  BY DEF RepoState
<1>6. [g EXCEPT !.path = n, !.made = n] \in RepoState
  BY DEF RepoState
<1>7. [g EXCEPT !.path = n, !.registration = n, !.made = n, !.attached = TRUE]
        \in RepoState
  BY DEF RepoState
<1>8. [g EXCEPT !.branch = n, !.made = n] \in RepoState
  BY DEF RepoState
<1>9. QED
  BY <1>1, <1>2, <1>3, <1>4, <1>5, <1>6, <1>7, <1>8

\* What others do keeps the types.
LEMMA OthersTyped ==
  ASSUME TypeOK, Others
  PROVE  TypeOK'
<1>1. CASE ToggleWorker
  <2>1. [run EXCEPT !.active = ~@] \in RunRecord
    BY DEF TypeOK, RunRecord
  <2>2. changes' \in 0 .. MaxChanges
    BY <1>1, CleanupBoundsAssumption DEF ToggleWorker, Changes, TypeOK
  <2>3. QED
    BY <1>1, <2>1, <2>2 DEF ToggleWorker, Update, TypeOK
<1>2. CASE AddSession
  <2>1. PICK x \in Sessions :
          Update([run EXCEPT !.sessions = @ \cup {x}]) /\ live' = live \cup {x}
    BY <1>2 DEF AddSession
  <2>2. [run EXCEPT !.sessions = @ \cup {x}] \in RunRecord
    BY DEF TypeOK, RunRecord
  <2>3. changes' \in 0 .. MaxChanges
    BY <1>2, CleanupBoundsAssumption DEF AddSession, Changes, TypeOK
  <2>4. live' \subseteq Sessions
    BY <2>1 DEF TypeOK
  <2>5. QED
    BY <2>1, <2>2, <2>3, <2>4 DEF Update, TypeOK
<1>3. CASE CreateRun
  <2>1. changes' \in 0 .. MaxChanges
    BY <1>3, CleanupBoundsAssumption DEF CreateRun, Changes, TypeOK
  <2>2. QED
    BY <1>3, <2>1, BlankTypes DEF CreateRun, TypeOK
<1>4. ASSUME NEW r \in Resources, Register(r)
      PROVE  TypeOK'
  <2>1. [run EXCEPT !.owned[r] = [worktree |-> repo[r].path,
                                  branch |-> repo[r].branch]] \in RunRecord
    BY DEF TypeOK, RunRecord
  <2>2. QED
    BY <1>4, <2>1 DEF Register, Update, TypeOK
<1>5. ASSUME NEW r \in Resources, UseBranch(r)
      PROVE  TypeOK'
  <2>1. repo[r] \in RepoState
    BY DEF TypeOK, RepoState
  <2>2. /\ [repo[r] EXCEPT !.dirty = ~@] \in RepoState
        /\ [repo[r] EXCEPT !.attached = ~@] \in RepoState
        /\ \A t \in 1 .. MaxTip : /\ [repo[r] EXCEPT !.tip = t] \in RepoState
                                  /\ [repo[r] EXCEPT !.merged = t] \in RepoState
    BY <2>1, Zenon DEF RepoState
  <2>3. QED
    BY <1>5, <2>2, WorkTyped DEF UseBranch
<1>6. ASSUME NEW r \in Resources, Replace(r)
      PROVE  TypeOK'
  <2>1. repo[r] \in RepoState
    BY DEF TypeOK, RepoState
  <2>2. QED
    BY <1>6, <2>1, EditedTypes, WorkTyped, Zenon DEF Replace
<1>7. QED
  BY <1>1, <1>2, <1>3, <1>4, <1>5, <1>6 DEF Others

\* A process that goes on or stops, the rest being typed, keeps the types.
LEMMA StepTyped ==
  ASSUME TypeOK, NEW c \in Cleaners, NEW p \in CleanerState, Becomes(c, p),
         p.held => p.pc \in Branch, run' \in RunRecord,
         live' \subseteq Sessions, repo' \in [Resources -> RepoState],
         changes' = changes, rewound' = rewound
  PROVE  TypeOK'
<1>1. /\ cleaner' \in [Cleaners -> CleanerState]
      /\ \A d \in Cleaners : cleaner'[d].held => cleaner'[d].pc \in Branch
  BY BecomesTyped
<1>2. changes' \in 0 .. MaxChanges /\ rewound' \subseteq Resources
  BY DEF TypeOK
<1>3. QED
  BY <1>1, <1>2 DEF TypeOK, RepoState

\* What is in a cleanup's state.
LEMMA Fields ==
  ASSUME NEW p \in CleanerState
  PROVE  /\ p.pc \in Stages /\ p.force \in BOOLEAN /\ p.held \in BOOLEAN
         /\ p.selected \in SUBSET Categories
         /\ p.plan \in RunRecord /\ p.base \in RunRecord
         /\ p.tips \in [Resources -> 0 .. MaxTip]
         /\ p.ids \in SUBSET Sessions /\ p.todo \in SUBSET Resources
         /\ p.target \in SUBSET Resources
         /\ p.errors \in SUBSET (Resources \cup Sessions)
         /\ p.failed \in SUBSET Resources /\ p.completed \in SUBSET Resources
BY DEF CleanerState

\* What a cleanup plans.
LEMMA PlanTyped ==
  ASSUME NEW p \in CleanerState
  PROVE  /\ PlannedSessions(p) \in SUBSET Sessions
         /\ PlannedWorktrees(p) \in SUBSET Resources
         /\ PlannedBranches(p) \in SUBSET Resources
<1>1. p.plan.sessions \in SUBSET Sessions
  BY Fields DEF RunRecord
<1>2. QED
  BY <1>1 DEF PlannedSessions, PlannedWorktrees, PlannedBranches, Selected,
              Registered

\* A request is loaded: what the cleanup becomes.
LEMMA RequestLoads ==
  ASSUME TypeOK, NEW c \in Cleaners, Request(c)
  PROVE  \E n \in CleanerState :
           /\ Becomes(c, n) /\ ~n.held /\ n.pc = "preflight" /\ n.plan = run
           /\ n.failed = {} /\ n.completed = {} /\ n.blockedWorktrees = {}
           /\ n.blockedBranches = {} /\ \A r \in Resources : n.tips[r] = 0
<1> DEFINE p(q) == [Free EXCEPT !.pc = "preflight", !.plan = run,
                                !.force = q.force, !.selected = q.selected]
           n(q) == [p(q) EXCEPT !.todo = PlannedWorktrees(p(q))]
<1>1. PICK q \in Requests : Becomes(c, n(q))
  BY Zenon DEF Request
<1>2. q.force \in BOOLEAN /\ q.selected \in SUBSET Categories
  BY RequestsAssumption, <1>1
<1>3. "preflight" \in Stages
  BY DEF Stages, Looking
<1>4. run \in RunRecord
  BY DEF TypeOK
<1>5. p(q) \in CleanerState
  BY <1>2, <1>3, <1>4, BlankTypes DEF CleanerState
<1>6. /\ ~p(q).held /\ p(q).pc = "preflight" /\ p(q).plan = run
      /\ p(q).failed = {} /\ p(q).completed = {} /\ p(q).blockedWorktrees = {}
      /\ p(q).blockedBranches = {} /\ \A r \in Resources : p(q).tips[r] = 0
  BY DEF Free
<1>7. PlannedWorktrees(p(q)) \in SUBSET Resources
  BY <1>5, PlanTyped
<1> HIDE DEF p
<1>8. /\ n(q) \in CleanerState /\ ~n(q).held /\ n(q).pc = "preflight"
      /\ n(q).plan = run /\ n(q).failed = {} /\ n(q).completed = {}
      /\ n(q).blockedWorktrees = {} /\ n(q).blockedBranches = {}
      /\ \A r \in Resources : n(q).tips[r] = 0
  BY <1>5, <1>6, <1>7 DEF CleanerState
<1> HIDE DEF n
<1>9. QED
  BY <1>1, <1>8

\* Loading a request keeps the types.
LEMMA LoadTyped ==
  ASSUME TypeOK, NEW c \in Cleaners, Request(c)
  PROVE  TypeOK'
<1>1. PICK n \in CleanerState : Becomes(c, n) /\ ~n.held
  BY RequestLoads
<1>2. run \in RunRecord /\ live \subseteq Sessions
      /\ repo \in [Resources -> RepoState]
  BY DEF TypeOK, RepoState
<1>3. QED
  BY <1>1, <1>2, StepTyped DEF Request

\* The ways a removal goes on.
LEMMA MovesTyped ==
  ASSUME NEW p \in CleanerState, NEW k \in Stages
  PROVE  /\ Back(p, k) \in CleanerState /\ Back(p, k).held = FALSE
         /\ Failing(p) \in CleanerState /\ BranchFailing(p) \in CleanerState
<1>1. {} \in SUBSET Resources
  OBVIOUS
<1>2. Back(p, k) \in CleanerState /\ Back(p, k).held = FALSE
  BY <1>1 DEF Back, CleanerState
<1>3. p.errors \cup p.target \in SUBSET (Resources \cup Sessions)
  BY Fields
<1>4. Failing(p) \in CleanerState
  BY <1>3 DEF Failing, CleanerState
<1>5. /\ Failing(p).failed \cup p.target \in SUBSET Resources
      /\ Failing(p).target = p.target
  BY <1>4, Fields DEF Failing, CleanerState
<1>6. BranchFailing(p) \in CleanerState
  BY <1>4, <1>5 DEF BranchFailing, CleanerState
<1>7. QED
  BY <1>2, <1>4, <1>6

-----------------------------------------------------------------------------
(* The preflight.                                                          *)

LookStep(c) ==
  \/ LookAtWorktree(c) \/ LookForDirt(c) \/ LookAtTip(c) \/ LookAtReflog(c)
  \/ LookAtOwner(c) \/ LookAtHead(c) \/ Looked(c)

\* A branch whose tip has been read is being looked at.
Checking == {"reflog", "owner", "merged"}

\* The steps on one resource have one resource.
Aiming == Branch \cup Checking \cup {"prepare", "unref"}
Aimed(p) == p.pc \in Aiming => \E r \in Resources : p.target = {r}

\* Without force, and unless they were moved back since, HEAD has the commits of
\* each branch that is to go; of one still looked at, the branch has them.
Limit(p, r) == IF p.pc \in Checking /\ r \in p.target THEN repo[r].tip
               ELSE repo[r].merged
Merged(p) ==
  p.pc \in Looking \cup Removing /\ ~p.force =>
    \A r \in Resources \ (p.blockedBranches \cup rewound) :
      p.tips[r] <= Limit(p, r)

\* Every block is an error.
Blocks(p) ==
  p.blockedWorktrees \subseteq p.errors /\ p.blockedBranches \subseteq p.errors

\* A look takes p on to n: the plan stays, and nothing is removed.
LooksOn(p, n) ==
  /\ n \in CleanerState /\ ~n.held /\ n.pc \in Looking /\ Aimed(n)
  /\ n.plan = p.plan /\ n.force = p.force
  /\ n.failed = p.failed /\ n.completed = p.completed
  /\ Blocks(p) => Blocks(n)

\* A look that takes up r, and then k at r.
Taken(p, r) == [p EXCEPT !.todo = @ \ {r}]
TakenOn(p, r, k) == [Taken(p, r) EXCEPT !.pc = k, !.target = {r}]

\* The look at a resource is over, or goes on with one.
LEMMA NextLook ==
  ASSUME NEW p \in CleanerState, ~p.held, NEW r \in Resources,
         NEW k \in Looking
  PROVE  LET q == Taken(p, r)
             n == TakenOn(p, r, k)
         IN /\ q \in CleanerState /\ q.pc = p.pc /\ q.tips = p.tips
            /\ q.blockedBranches = p.blockedBranches
            /\ p.pc \in Looking \ Checking => LooksOn(p, q)
            /\ LooksOn(p, n) /\ n.pc = k /\ n.tips = p.tips /\ n.target = {r}
            /\ n.blockedBranches = p.blockedBranches
<1> USE DEF Taken, TakenOn
<1> DEFINE q == Taken(p, r)
           n == [q EXCEPT !.pc = k, !.target = {r}]
<1>1. /\ q \in CleanerState /\ q.pc = p.pc /\ q.tips = p.tips /\ ~q.held
      /\ q.plan = p.plan /\ q.force = p.force /\ q.target = p.target
      /\ q.failed = p.failed /\ q.completed = p.completed
      /\ q.blockedWorktrees = p.blockedWorktrees
      /\ q.blockedBranches = p.blockedBranches /\ q.errors = p.errors
  BY DEF CleanerState
<1>2. k \in Stages /\ {r} \in SUBSET Resources
  BY DEF Stages
<1> HIDE DEF q
<1>3. /\ n \in CleanerState /\ n.pc = k /\ n.tips = q.tips /\ ~n.held
      /\ n.plan = q.plan /\ n.force = q.force /\ n.target = {r}
      /\ n.failed = q.failed /\ n.completed = q.completed
      /\ n.blockedWorktrees = q.blockedWorktrees
      /\ n.blockedBranches = q.blockedBranches /\ n.errors = q.errors
  BY <1>1, <1>2 DEF CleanerState
<1> HIDE DEF n
<1>4. LooksOn(p, n)
  BY <1>1, <1>3 DEF LooksOn, Aimed, Blocks
<1>5. p.pc \in Looking \ Checking => LooksOn(p, q)
  BY <1>1 DEF LooksOn, Aimed, Aiming, Blocks, Looking, Branch
<1>6. QED
  BY <1>1, <1>3, <1>4, <1>5 DEF q, n

\* A look that goes on to another stage.
LEMMA StageLook ==
  ASSUME NEW p \in CleanerState, ~p.held, Aimed(p), NEW k \in Looking,
         k \in Checking => p.pc \in Checking
  PROVE  LET n == [p EXCEPT !.pc = k]
             b == Back(p, k)
         IN /\ LooksOn(p, n) /\ n.pc = k /\ n.tips = p.tips
            /\ n.target = p.target /\ n.blockedBranches = p.blockedBranches
            /\ k \notin Checking =>
                 /\ LooksOn(p, b) /\ b.pc = k /\ b.tips = p.tips
                 /\ b.blockedBranches = p.blockedBranches /\ b.target = {}
<1> DEFINE n == [p EXCEPT !.pc = k]
           b == Back(p, k)
<1>1. k \in Stages /\ {} \in SUBSET Resources
  BY DEF Stages
<1>2. /\ n \in CleanerState /\ n.pc = k /\ n.tips = p.tips /\ ~n.held
      /\ n.plan = p.plan /\ n.force = p.force /\ n.target = p.target
      /\ n.failed = p.failed /\ n.completed = p.completed
      /\ n.blockedWorktrees = p.blockedWorktrees
      /\ n.blockedBranches = p.blockedBranches /\ n.errors = p.errors
  BY <1>1 DEF CleanerState
<1>3. /\ b \in CleanerState /\ b.pc = k /\ b.tips = p.tips /\ ~b.held
      /\ b.plan = p.plan /\ b.force = p.force /\ b.target = {}
      /\ b.failed = p.failed /\ b.completed = p.completed
      /\ b.blockedWorktrees = p.blockedWorktrees
      /\ b.blockedBranches = p.blockedBranches /\ b.errors = p.errors
  BY <1>1 DEF CleanerState, Back
<1> HIDE DEF n, b
<1>4. k \in Aiming => k \in Checking /\ p.pc \in Aiming
  BY DEF Aiming, Looking, Branch, Checking
<1>5. LooksOn(p, n)
  BY <1>2, <1>4 DEF LooksOn, Aimed, Blocks
<1>6. k \notin Checking => LooksOn(p, b)
  BY <1>3, <1>4 DEF LooksOn, Aimed, Blocks
<1>7. QED
  BY <1>2, <1>3, <1>5, <1>6 DEF n, b

\* A look that blocks.
LEMMA BlockingLook ==
  ASSUME NEW p \in CleanerState, ~p.held, Aimed(p), p.pc \in Looking,
         NEW r \in Resources
  PROVE  LET w == BlockWorktree(p, r)
             b == BlockBranch(p, r)
         IN /\ LooksOn(p, w) /\ w.pc = p.pc /\ w.tips = p.tips
            /\ w.target = p.target /\ w.blockedBranches = p.blockedBranches
            /\ LooksOn(p, b) /\ b.pc = p.pc /\ b.tips = p.tips
            /\ b.target = p.target
            /\ b.blockedBranches = p.blockedBranches \cup {r}
<1> DEFINE w == BlockWorktree(p, r)
           b == BlockBranch(p, r)
<1>1. /\ p.errors \cup {r} \in SUBSET (Resources \cup Sessions)
      /\ p.blockedWorktrees \cup {r} \in SUBSET Resources
      /\ p.blockedBranches \cup {r} \in SUBSET Resources
  BY DEF CleanerState
<1>2. /\ w \in CleanerState /\ w.pc = p.pc /\ w.tips = p.tips /\ ~w.held
      /\ w.plan = p.plan /\ w.force = p.force /\ w.target = p.target
      /\ w.failed = p.failed /\ w.completed = p.completed
      /\ w.blockedWorktrees = p.blockedWorktrees \cup {r}
      /\ w.blockedBranches = p.blockedBranches /\ w.errors = p.errors \cup {r}
  BY <1>1 DEF CleanerState, BlockWorktree
<1>3. b = [w EXCEPT !.blockedBranches = @ \cup {r}]
  BY DEF BlockBranch
<1> HIDE DEF w, b
<1>4. /\ b \in CleanerState /\ b.pc = p.pc /\ b.tips = p.tips /\ ~b.held
      /\ b.plan = p.plan /\ b.force = p.force /\ b.target = p.target
      /\ b.failed = p.failed /\ b.completed = p.completed
      /\ b.blockedWorktrees = p.blockedWorktrees \cup {r}
      /\ b.blockedBranches = p.blockedBranches \cup {r}
      /\ b.errors = p.errors \cup {r}
  BY <1>1, <1>2, <1>3 DEF CleanerState
<1>5. LooksOn(p, w) /\ LooksOn(p, b)
  BY <1>2, <1>4 DEF LooksOn, Aimed, Blocks
<1>6. QED
  BY <1>2, <1>4, <1>5 DEF w, b

\* Looks in a row.
LEMMA LooksOnOn ==
  ASSUME NEW p, NEW q, NEW n, LooksOn(p, q), LooksOn(q, n)
  PROVE  LooksOn(p, n)
BY DEF LooksOn

\* What becomes of a cleanup that looks.
LEMMA LookEnds ==
  ASSUME NEW c, NEW fine, NEW next, NEW blocked, Look(c, fine, next, blocked)
  PROVE  Becomes(c, blocked) \/ (fine /\ Becomes(c, next))
BY DEF Look

\* As long as no tip is read, what was merged stays merged.
LEMMA MergedOn ==
  ASSUME NEW p, NEW n, n.tips = p.tips, n.blockedBranches = p.blockedBranches,
         n.force = p.force, p.pc \in Looking, p.pc \notin Checking,
         n.pc \notin Checking, repo' = repo, rewound' = rewound, Merged(p)
  PROVE  Merged(n)'
BY DEF Merged, Limit

\* A look that goes on to q, and blocks what is at r.
LEMMA WorktreeBlocked ==
  ASSUME NEW p, NEW q, LooksOn(p, q), NEW r \in Resources
  PROVE  LET w == BlockWorktree(q, r)
         IN /\ LooksOn(p, w) /\ w.pc = q.pc /\ w.tips = q.tips
            /\ w.blockedBranches = q.blockedBranches
<1> DEFINE w == BlockWorktree(q, r)
<1>1. q \in CleanerState /\ ~q.held /\ Aimed(q) /\ q.pc \in Looking
  BY DEF LooksOn
<1>2. /\ LooksOn(q, w) /\ w.pc = q.pc /\ w.tips = q.tips
      /\ w.blockedBranches = q.blockedBranches
  BY <1>1, BlockingLook
<1> HIDE DEF w
<1>3. LooksOn(p, w)
  BY <1>2, LooksOnOn
<1>4. QED
  BY <1>2, <1>3 DEF w

LEMMA BranchBlocked ==
  ASSUME NEW p, NEW q, LooksOn(p, q), NEW r \in Resources
  PROVE  LET b == BlockBranch(q, r)
         IN /\ LooksOn(p, b) /\ b.pc = q.pc /\ b.tips = q.tips
            /\ b.blockedBranches = q.blockedBranches \cup {r}
<1> DEFINE b == BlockBranch(q, r)
<1>1. q \in CleanerState /\ ~q.held /\ Aimed(q) /\ q.pc \in Looking
  BY DEF LooksOn
<1>2. /\ LooksOn(q, b) /\ b.pc = q.pc /\ b.tips = q.tips
      /\ b.blockedBranches = q.blockedBranches \cup {r}
  BY <1>1, BlockingLook
<1> HIDE DEF b
<1>3. LooksOn(p, b)
  BY <1>2, LooksOnOn
<1>4. QED
  BY <1>2, <1>3 DEF b


\* Every look goes on, and without force leaves the branches that are to go
\* merged unless they were moved back.
LEMMA LookLeads ==
  ASSUME TypeOK, NEW c \in Cleaners, LookStep(c)
  PROVE  /\ cleaner[c].pc \in Looking /\ ~cleaner[c].held
         /\ Aimed(cleaner[c]) =>
              \E n \in CleanerState :
                /\ Becomes(c, n) /\ LooksOn(cleaner[c], n)
                /\ Merged(cleaner[c]) => Merged(n)'
<1>1. PICK p \in CleanerState : p = cleaner[c]
  BY DEF TypeOK
<1>2. p.pc \in Looking /\ ~p.held /\ repo' = repo
  BY <1>1 DEF TypeOK, LookStep, LookAtWorktree, LookForDirt, LookAtTip,
     LookAtReflog, LookAtOwner, LookAtHead, Looked, Looking, Branch
<1> SUFFICES ASSUME Aimed(p)
             PROVE  \E n \in CleanerState :
                      /\ Becomes(c, n) /\ LooksOn(p, n)
                      /\ Merged(p) => Merged(n)'
  BY <1>1, <1>2
<1>3. ASSUME NEW n, Becomes(c, n), LooksOn(p, n), Merged(p) => Merged(n)'
      PROVE  \E m \in CleanerState :
               /\ Becomes(c, m) /\ LooksOn(p, m)
               /\ Merged(p) => Merged(m)'
  BY <1>3 DEF LooksOn
<1>4. p.target \in SUBSET Resources /\ p.todo \in SUBSET Resources
  BY Fields
<1>5. \A r \in Resources : repo[r].tip \in 1 .. MaxTip /\ repo[r].merged \in Nat
  BY DEF TypeOK
<1>6. p.tips \in [Resources -> 0 .. MaxTip]
  BY Fields
<1>7. CASE LookAtWorktree(c)
  <2> DEFINE gone(r) == repo[r].path = 0
             fine(r) == IF gone(r) THEN repo[r].registration = 0
                        ELSE WorktreeOwned(p, r)
             q(r) == Taken(p, r)
             n(r) == TakenOn(p, r, "status")
             next(r) == IF gone(r) \/ p.force THEN q(r) ELSE n(r)
             blocked(r) == BlockWorktree(q(r), r)
  <2>1. p.pc = "preflight" /\ rewound' = rewound
    BY <1>1, <1>7 DEF LookAtWorktree
  <2>2. PICK r \in p.todo : Look(c, fine(r), next(r), blocked(r))
    BY <1>1, <1>7, Zenon DEF LookAtWorktree, Taken, TakenOn
  <2>3. Becomes(c, blocked(r)) \/ Becomes(c, next(r))
    <3> HIDE DEF fine, next, blocked
    <3>1. QED
      BY <2>2, LookEnds
  <2>4. r \in Resources /\ "status" \in Looking
        /\ "preflight" \notin Checking /\ "status" \notin Checking
        /\ p.pc \in Looking \ Checking
    BY <1>4, <2>1 DEF Looking, Checking
  <2>5. /\ LooksOn(p, q(r)) /\ q(r).pc = "preflight" /\ q(r).tips = p.tips
        /\ q(r).blockedBranches = p.blockedBranches
        /\ LooksOn(p, n(r)) /\ n(r).pc = "status" /\ n(r).tips = p.tips
        /\ n(r).blockedBranches = p.blockedBranches
    BY <1>2, <2>1, <2>4, NextLook
  <2> HIDE DEF q, n
  <2>6. /\ LooksOn(p, blocked(r)) /\ blocked(r).pc = "preflight"
        /\ blocked(r).tips = p.tips
        /\ blocked(r).blockedBranches = p.blockedBranches
    BY <2>4, <2>5, WorktreeBlocked
  <2> HIDE DEF blocked
  <2>7. \E m : /\ Becomes(c, m) /\ LooksOn(p, m) /\ m.tips = p.tips
               /\ m.blockedBranches = p.blockedBranches
               /\ m.pc \in {"preflight", "status"}
    BY <2>3, <2>5, <2>6
  <2>8. QED
    BY <1>2, <1>3, <2>1, <2>4, <2>7, MergedOn DEF LooksOn
<1>8. CASE LookForDirt(c)
  <2> DEFINE q == Back(p, "preflight")
             fine(r) == repo[r].path # 0 /\ ~repo[r].dirty
             blocked(r) == BlockWorktree(q, r)
  <2>1. p.pc = "status" /\ rewound' = rewound
    BY <1>1, <1>8 DEF LookForDirt
  <2>2. PICK r \in p.target : Look(c, fine(r), q, blocked(r))
    BY <1>1, <1>8, Zenon DEF LookForDirt
  <2>3. Becomes(c, blocked(r)) \/ Becomes(c, q)
    <3> HIDE DEF fine, q, blocked
    <3>1. QED
      BY <2>2, LookEnds
  <2>4. r \in Resources /\ "preflight" \in Looking
        /\ "preflight" \notin Checking /\ "status" \notin Checking
    BY <1>4 DEF Looking, Checking
  <2>5. /\ LooksOn(p, q) /\ q.pc = "preflight" /\ q.tips = p.tips
        /\ q.blockedBranches = p.blockedBranches
    BY <1>2, <1>4, <2>1, <2>4, StageLook, Zenon
  <2> HIDE DEF q
  <2>6. /\ LooksOn(p, blocked(r)) /\ blocked(r).pc = "preflight"
        /\ blocked(r).tips = p.tips
        /\ blocked(r).blockedBranches = p.blockedBranches
    BY <2>4, <2>5, WorktreeBlocked
  <2> HIDE DEF blocked
  <2>7. QED
    BY <1>2, <1>3, <2>1, <2>3, <2>4, <2>5, <2>6, MergedOn DEF LooksOn
<1>9. CASE LookAtTip(c)
  <2> DEFINE absent(r) == repo[r].branch = 0
             fine(r) == absent(r)
                        \/ r \in PlannedWorktrees(p) \ p.blockedWorktrees
             q(r) == Taken(p, r)
             n(r) == [q(r) EXCEPT !.pc = "reflog", !.target = {r},
                                  !.tips[r] = repo[r].tip]
             next(r) == IF absent(r) THEN q(r) ELSE n(r)
             blocked(r) == BlockBranch(q(r), r)
  <2>1. p.pc = "preflight_branches"
    BY <1>1, <1>9 DEF LookAtTip
  <2>2. PICK r \in p.todo :
          /\ Look(c, fine(r), next(r), blocked(r))
          /\ rewound' = IF absent(r) THEN rewound ELSE rewound \ {r}
    BY <1>1, <1>9, Zenon DEF LookAtTip, Taken
  <2>3. Becomes(c, blocked(r)) \/ Becomes(c, next(r))
    <3> HIDE DEF fine, next, blocked
    <3>1. QED
      BY <2>2, LookEnds
  <2>4. r \in Resources /\ "reflog" \in Looking /\ "reflog" \in Checking
        /\ "preflight_branches" \notin Checking
    BY <1>4 DEF Looking, Checking
  <2>5. /\ LooksOn(p, q(r)) /\ q(r).pc = p.pc /\ q(r).tips = p.tips
        /\ q(r).blockedBranches = p.blockedBranches
    BY <1>2, <2>1, <2>4, NextLook
  <2>6. /\ LooksOn(p, n(r)) /\ n(r).pc = "reflog" /\ n(r).target = {r}
        /\ n(r).tips = [p.tips EXCEPT ![r] = repo[r].tip]
        /\ n(r).blockedBranches = p.blockedBranches
    <3> DEFINE m == TakenOn(p, r, "reflog")
               k == [m EXCEPT !.tips[r] = repo[r].tip]
    <3>1. /\ LooksOn(p, m) /\ m.pc = "reflog" /\ m.tips = p.tips
          /\ m.target = {r} /\ m.blockedBranches = p.blockedBranches
      BY <1>2, <2>4, NextLook
    <3>2. n(r) = k
      BY <2>5 DEF LooksOn, CleanerState, TakenOn
    <3> HIDE DEF m
    <3>3. m \in CleanerState
      BY <3>1 DEF LooksOn
    <3>4. /\ k \in CleanerState /\ k.pc = m.pc /\ k.held = m.held
          /\ k.plan = m.plan /\ k.force = m.force /\ k.target = m.target
          /\ k.failed = m.failed /\ k.completed = m.completed
          /\ k.blockedWorktrees = m.blockedWorktrees
          /\ k.blockedBranches = m.blockedBranches /\ k.errors = m.errors
          /\ k.tips = [m.tips EXCEPT ![r] = repo[r].tip]
      BY <1>5, <2>4, <3>3 DEF CleanerState
    <3> HIDE DEF k
    <3>5. LooksOn(m, k)
      BY <3>1, <3>4 DEF LooksOn, Aimed, Blocks
    <3>6. QED
      BY <3>1, <3>2, <3>4, <3>5, LooksOnOn
  <2> HIDE DEF q, n
  <2>7. /\ LooksOn(p, blocked(r)) /\ blocked(r).pc = p.pc
        /\ blocked(r).tips = p.tips
        /\ blocked(r).blockedBranches = p.blockedBranches \cup {r}
    BY <2>4, <2>5, BranchBlocked
  <2> HIDE DEF blocked
  <2>8. CASE Becomes(c, blocked(r))
    <3>1. Merged(p) => Merged(blocked(r))'
      BY <1>2, <2>1, <2>2, <2>4, <2>7 DEF Merged, Limit, LooksOn
    <3>2. QED
      BY <1>3, <2>7, <2>8, <3>1
  <2>9. CASE Becomes(c, q(r)) /\ absent(r)
    BY <1>2, <1>3, <2>1, <2>2, <2>4, <2>5, <2>9, MergedOn DEF LooksOn
  <2>10. CASE Becomes(c, n(r)) /\ ~absent(r)
    <3>1. \A x \in Resources \ {r} : n(r).tips[x] = p.tips[x]
      BY <1>6, <2>6
    <3>2. n(r).tips[r] = repo[r].tip
      BY <1>6, <2>4, <2>6
    <3>3. rewound' = rewound \ {r}
      BY <2>2, <2>10
    <3>4. PICK m : m = n(r)
      OBVIOUS
    <3>5. /\ m.force = p.force /\ m.pc = "reflog" /\ m.target = {r}
          /\ m.blockedBranches = p.blockedBranches /\ LooksOn(p, m)
      BY <2>6, <3>4 DEF LooksOn
    <3>6. Merged(p) => Merged(m)'
      <4> SUFFICES ASSUME Merged(p), ~p.force,
                          NEW x \in Resources \ (p.blockedBranches
                                                 \cup (rewound \ {r}))
                   PROVE  m.tips[x] <= IF x = r THEN repo[x].tip
                                       ELSE repo[x].merged
        BY <1>2, <2>4, <3>3, <3>5 DEF Merged, Limit
      <4>1. CASE x = r
        BY <1>5, <2>4, <3>2, <3>4, <4>1
      <4>2. CASE x # r
        BY <1>2, <2>1, <2>4, <3>1, <3>4, <4>2 DEF Merged, Limit
      <4>3. QED
        BY <4>1, <4>2
    <3>7. QED
      BY <1>3, <2>10, <3>4, <3>5, <3>6
  <2>11. QED
    BY <2>3, <2>8, <2>9, <2>10
<1>10. ASSUME p.pc \in {"reflog", "owner"}, NEW r \in p.target,
              Becomes(c, Unverified(p, r)), rewound' = rewound
       PROVE  \E n \in CleanerState :
                /\ Becomes(c, n) /\ LooksOn(p, n)
                /\ Merged(p) => Merged(n)'
  <2> DEFINE b == Back(p, "preflight_branches")
             k == [b EXCEPT !.tips[r] = 0]
             n == Unverified(p, r)
  <2>1. /\ p.target = {r} /\ r \in Resources
        /\ "preflight_branches" \in Looking
        /\ "preflight_branches" \notin Checking /\ p.pc \in Checking
    BY <1>4, <1>10 DEF Aimed, Aiming, Checking, Looking
  <2>2. /\ LooksOn(p, b) /\ b.pc = "preflight_branches" /\ b.tips = p.tips
        /\ b.blockedBranches = p.blockedBranches
    BY <1>2, <1>4, <2>1, StageLook, Zenon
  <2> HIDE DEF b
  <2>3. b \in CleanerState
    BY <2>2 DEF LooksOn
  <2>4. /\ k \in CleanerState /\ k.pc = b.pc /\ k.held = b.held
        /\ k.plan = b.plan /\ k.force = b.force /\ k.target = b.target
        /\ k.failed = b.failed /\ k.completed = b.completed
        /\ k.blockedWorktrees = b.blockedWorktrees
        /\ k.blockedBranches = b.blockedBranches /\ k.errors = b.errors
        /\ k.tips = [b.tips EXCEPT ![r] = 0]
    BY <2>1, <2>3, CleanupBoundsAssumption DEF CleanerState
  <2>5. n = BlockBranch(k, r)
    BY DEF Unverified, b
  <2> HIDE DEF k, n
  <2>6. LooksOn(b, k)
    BY <2>2, <2>4 DEF LooksOn, Aimed, Blocks
  <2>7. /\ LooksOn(k, n) /\ n.pc = k.pc /\ n.tips = k.tips
        /\ n.blockedBranches = k.blockedBranches \cup {r}
    BY <2>1, <2>5, <2>6, BlockingLook DEF LooksOn
  <2>8. LooksOn(p, n)
    BY <2>2, <2>6, <2>7, LooksOnOn
  <2>9. \A x \in Resources \ {r} : n.tips[x] = p.tips[x]
    BY <1>6, <2>2, <2>4, <2>7
  <2>10. Merged(p) => Merged(n)'
    BY <1>2, <1>10, <2>1, <2>2, <2>4, <2>7, <2>8, <2>9
       DEF Merged, Limit, LooksOn
  <2>11. QED
    BY <1>3, <1>10, <2>8, <2>10 DEF n
<1>11. CASE LookAtReflog(c)
  <2> DEFINE fine(r) == repo[r].path # 0 /\ BranchOwned(p, r)
             n == [p EXCEPT !.pc = "owner"]
  <2>1. p.pc = "reflog" /\ rewound' = rewound
    BY <1>1, <1>11 DEF LookAtReflog
  <2>2. PICK r \in p.target : Look(c, fine(r), n, Unverified(p, r))
    BY <1>1, <1>11, Zenon DEF LookAtReflog
  <2>3. Becomes(c, Unverified(p, r)) \/ Becomes(c, n)
    <3> HIDE DEF fine, n
    <3>1. QED
      BY <2>2, LookEnds
  <2>4. "owner" \in Looking /\ "owner" \in Checking /\ p.pc \in Checking
    BY <2>1 DEF Checking, Looking
  <2>5. /\ LooksOn(p, n) /\ n.pc = "owner" /\ n.tips = p.tips
        /\ n.target = p.target /\ n.blockedBranches = p.blockedBranches
    BY <1>2, <1>4, <2>1, <2>4, StageLook, Zenon
  <2> HIDE DEF n
  <2>6. Merged(p) => Merged(n)'
    BY <1>2, <2>1, <2>4, <2>5 DEF Merged, Limit, LooksOn
  <2>7. QED
    BY <1>3, <1>10, <2>1, <2>2, <2>3, <2>5, <2>6
<1>12. CASE LookAtOwner(c)
  <2> DEFINE fine(r) == repo[r].path = 0 \/ WorktreeOwned(p, r)
             n == [p EXCEPT !.pc = "merged"]
             b == Back(p, "preflight_branches")
             next == IF p.force THEN b ELSE n
  <2>1. p.pc = "owner" /\ rewound' = rewound
    BY <1>1, <1>12 DEF LookAtOwner
  <2>2. PICK r \in p.target : Look(c, fine(r), next, Unverified(p, r))
    BY <1>1, <1>12, Zenon DEF LookAtOwner
  <2>3. Becomes(c, Unverified(p, r)) \/ Becomes(c, next)
    <3> HIDE DEF fine, next
    <3>1. QED
      BY <2>2, LookEnds
  <2>4. /\ "merged" \in Looking /\ "merged" \in Checking
        /\ "preflight_branches" \in Looking
        /\ "preflight_branches" \notin Checking /\ p.pc \in Checking
    BY <2>1 DEF Checking, Looking
  <2>5. /\ LooksOn(p, n) /\ n.pc = "merged" /\ n.tips = p.tips
        /\ n.target = p.target /\ n.blockedBranches = p.blockedBranches
    BY <1>2, <1>4, <2>1, <2>4, StageLook, Zenon
  <2>6. LooksOn(p, b)
    BY <1>2, <1>4, <2>1, <2>4, StageLook, Zenon
  <2> HIDE DEF n, b
  <2>7. Merged(p) => Merged(n)'
    BY <1>2, <2>1, <2>4, <2>5 DEF Merged, Limit, LooksOn
  <2>8. p.force => Merged(b)'
    BY <2>6 DEF Merged, LooksOn
  <2>9. QED
    BY <1>3, <1>10, <2>1, <2>2, <2>3, <2>5, <2>6, <2>7, <2>8
<1>13. CASE LookAtHead(c)
  <2> DEFINE fine(r) == repo[r].branch # 0 /\ repo[r].tip <= repo[r].merged
             q == Back(p, "preflight_branches")
             blocked(r) == BlockBranch(q, r)
  <2>1. p.pc = "merged" /\ rewound' = rewound
    BY <1>1, <1>13 DEF LookAtHead
  <2>2. PICK r \in p.target : Look(c, fine(r), q, blocked(r))
    BY <1>1, <1>13, Zenon DEF LookAtHead
  <2>3. Becomes(c, blocked(r)) \/ (fine(r) /\ Becomes(c, q))
    <3> HIDE DEF fine, q, blocked
    <3>1. QED
      BY <2>2, LookEnds
  <2>4. /\ p.target = {r} /\ r \in Resources
        /\ "preflight_branches" \in Looking
        /\ "preflight_branches" \notin Checking /\ p.pc \in Checking
    BY <1>4, <2>1, <2>2 DEF Aimed, Aiming, Checking, Looking
  <2>5. /\ LooksOn(p, q) /\ q.pc = "preflight_branches" /\ q.tips = p.tips
        /\ q.blockedBranches = p.blockedBranches
    BY <1>2, <1>4, <2>1, <2>4, StageLook, Zenon
  <2> HIDE DEF q
  <2>6. /\ LooksOn(p, blocked(r)) /\ blocked(r).pc = "preflight_branches"
        /\ blocked(r).tips = p.tips
        /\ blocked(r).blockedBranches = p.blockedBranches \cup {r}
    BY <2>4, <2>5, BranchBlocked
  <2> HIDE DEF blocked
  <2>7. Merged(p) => Merged(blocked(r))'
    BY <1>2, <2>1, <2>4, <2>6 DEF Merged, Limit, LooksOn
  <2>8. fine(r) /\ Merged(p) => Merged(q)'
    <3>1. ASSUME fine(r), p.tips[r] <= repo[r].tip
          PROVE  p.tips[r] <= repo[r].merged
      BY <1>5, <1>6, <2>4, <3>1
    <3>2. QED
      BY <1>2, <2>1, <2>4, <2>5, <3>1 DEF Merged, Limit, LooksOn
  <2>9. QED
    BY <1>3, <2>3, <2>5, <2>6, <2>7, <2>8
<1>14. CASE Looked(c)
  <2> DEFINE m == [p EXCEPT !.pc = "preflight_branches",
                            !.todo = PlannedBranches(p)]
             n == [p EXCEPT !.pc = "begin"]
  <2>1. p.pc \in {"preflight", "preflight_branches"} /\ rewound' = rewound
    BY <1>1, <1>14 DEF Looked
  <2>2. Becomes(c, m) \/ Becomes(c, n)
    BY <1>1, <1>14, Zenon DEF Looked
  <2>3. /\ "begin" \in Looking /\ "preflight_branches" \in Looking
        /\ "begin" \notin Checking /\ "preflight_branches" \notin Checking
        /\ p.pc \notin Checking /\ PlannedBranches(p) \in SUBSET Resources
    BY <2>1, PlanTyped DEF Checking, Looking
  <2>4. /\ LooksOn(p, m) /\ m.pc = "preflight_branches" /\ m.tips = p.tips
        /\ m.blockedBranches = p.blockedBranches
    <3>1. "preflight_branches" \in Stages
      BY DEF Stages, Looking
    <3>2. /\ m \in CleanerState /\ m.pc = "preflight_branches"
          /\ m.tips = p.tips /\ m.held = p.held
          /\ m.plan = p.plan /\ m.force = p.force /\ m.target = p.target
          /\ m.failed = p.failed /\ m.completed = p.completed
          /\ m.blockedWorktrees = p.blockedWorktrees
          /\ m.blockedBranches = p.blockedBranches /\ m.errors = p.errors
      BY <2>3, <3>1 DEF CleanerState
    <3> HIDE DEF m
    <3>3. QED
      BY <1>2, <2>3, <3>2 DEF LooksOn, Aimed, Aiming, Blocks, Branch
  <2>5. /\ LooksOn(p, n) /\ n.pc = "begin" /\ n.tips = p.tips
        /\ n.blockedBranches = p.blockedBranches
    BY <1>2, <1>4, <2>1, <2>3, StageLook, Zenon
  <2> HIDE DEF m, n
  <2>6. QED
    BY <1>2, <1>3, <2>1, <2>2, <2>3, <2>4, <2>5, MergedOn DEF LooksOn
<1>15. QED
  BY <1>7, <1>8, <1>9, <1>11, <1>12, <1>13, <1>14 DEF LookStep

\* A look leaves alone what it looks at.
LEMMA LookOnly ==
  ASSUME NEW c \in Cleaners, LookStep(c)
  PROVE  /\ run' = run /\ live' = live /\ repo' = repo
         /\ changes' = changes \/ Changes
         /\ rewound' = rewound \/ \E r : rewound' = rewound \ {r}
<1>1. LookStep(c) => run' = run /\ live' = live /\ repo' = repo
  BY Zenon DEF LookStep, LookAtWorktree, LookForDirt, LookAtTip, LookAtReflog,
     LookAtOwner, LookAtHead, Looked
<1>2. LookStep(c) => changes' = changes \/ Changes
  BY Zenon DEF LookStep, LookAtWorktree, LookForDirt, LookAtTip, LookAtReflog,
     LookAtOwner, LookAtHead, Looked, Look
<1>3. LookStep(c) => rewound' = rewound \/ \E r : rewound' = rewound \ {r}
  <2>1. LookAtTip(c) => \E r : rewound' \in {rewound, rewound \ {r}}
    BY DEF LookAtTip
  <2>2. ~LookAtTip(c) => rewound' = rewound
    BY Zenon DEF LookStep, LookAtWorktree, LookForDirt, LookAtReflog,
       LookAtOwner, LookAtHead, Looked
  <2>3. QED
    BY <2>1, <2>2
<1>4. QED
  BY <1>1, <1>2, <1>3

\* A look keeps the types.
LEMMA PreflightTyped ==
  ASSUME TypeOK, NEW c \in Cleaners, Aimed(cleaner[c]), LookStep(c)
  PROVE  TypeOK'
<1>1. PICK n \in CleanerState : Becomes(c, n) /\ ~n.held
  BY LookLeads DEF LooksOn
<1>2. /\ cleaner' \in [Cleaners -> CleanerState]
      /\ \A d \in Cleaners : cleaner'[d].held => cleaner'[d].pc \in Branch
  BY <1>1, BecomesTyped
<1>3. changes' \in 0 .. MaxChanges
  BY LookOnly, CleanupBoundsAssumption DEF TypeOK, Changes
<1>4. rewound' \subseteq Resources
  BY LookOnly DEF TypeOK
<1>5. QED
  BY <1>2, <1>3, <1>4, LookOnly DEF TypeOK

\* The audit and the ways to leave keep the types.
LEMMA AuditTyped ==
  ASSUME TypeOK, NEW c \in Cleaners,
         Refuse(c) \/ Begin(c) \/ Finish(c) \/ Delete(c) \/ Die(c)
  PROVE  TypeOK'
<1>1. PICK p \in CleanerState : p = cleaner[c]
  BY DEF TypeOK
<1>2. p.held => p.pc \in Branch
  BY <1>1 DEF TypeOK
<1>3. run \in RunRecord /\ live \subseteq Sessions
      /\ repo \in [Resources -> RepoState]
  BY DEF TypeOK, RepoState
<1>4. Free \in CleanerState /\ ~Free.held
  BY BlankTypes
<1>5. \A a \in {"none", "in_progress", "partial", "done"} :
        [run EXCEPT !.audit = a] \in RunRecord
  BY <1>3 DEF RunRecord
<1>6. CASE Refuse(c) \/ Die(c)
  BY <1>3, <1>4, <1>6, StepTyped DEF Refuse, Die, Leave
<1>7. CASE Begin(c)
  <2>1. CASE run # p.plan
    BY <1>1, <1>3, <1>4, <1>7, <2>1, StepTyped DEF Begin, Leave
  <2>2. CASE run = p.plan
    <3> DEFINE n == [p EXCEPT !.pc = "sessions", !.base = run',
                              !.ids = PlannedSessions(p)]
    <3>1. run' = [run EXCEPT !.audit = "in_progress"] /\ Becomes(c, n)
      BY <1>1, <1>7, <2>2 DEF Begin
    <3>2. run' \in RunRecord
      BY <1>5, <3>1
    <3>3. "sessions" \in Stages
      BY DEF Stages, Removing
    <3>4. PlannedSessions(p) \in SUBSET Sessions
      BY PlanTyped
    <3>5. n \in CleanerState
      BY <3>2, <3>3, <3>4 DEF CleanerState
    <3>6. ~p.held
      BY <1>1, <1>2, <1>7 DEF Begin, Branch
    <3>7. ~n.held
      BY <3>6 DEF CleanerState
    <3>8. QED
      BY <1>3, <1>7, <3>1, <3>2, <3>5, <3>7, StepTyped DEF Begin
  <2>3. QED
    BY <2>1, <2>2
<1>8. CASE Finish(c)
  <2>1. run' \in RunRecord
    BY <1>5, <1>8, Zenon DEF Finish
  <2> DEFINE n == [p EXCEPT !.pc = "delete", !.base = run']
  <2>2. Becomes(c, n) \/ Becomes(c, Free)
    BY <1>1, <1>8, Zenon DEF Finish
  <2>3. "delete" \in Stages
    BY DEF Stages
  <2>4. n \in CleanerState
    BY <2>1, <2>3 DEF CleanerState
  <2>5. ~p.held
    BY <1>1, <1>2, <1>8, Zenon DEF Finish, Branch
  <2>6. ~n.held
    BY <2>5 DEF CleanerState
  <2> HIDE DEF n
  <2>7. QED
    BY <1>3, <1>4, <1>8, <2>1, <2>2, <2>4, <2>6, StepTyped, Zenon DEF Finish
<1>9. CASE Delete(c)
  <2>1. run' \in RunRecord
    BY <1>5, <1>9, BlankTypes DEF Delete
  <2>2. QED
    BY <1>3, <1>4, <1>9, <2>1, StepTyped DEF Delete, Leave
<1>10. QED
  BY <1>6, <1>7, <1>8, <1>9

\* Removing sessions, and going from one kind of resource to the next, keep the
\* types.
LEMMA SessionsTyped ==
  ASSUME TypeOK, NEW c \in Cleaners, DeleteSession(c) \/ NextKind(c)
  PROVE  TypeOK'
<1>1. PICK p \in CleanerState : p = cleaner[c]
  BY DEF TypeOK
<1>2. run \in RunRecord /\ live \subseteq Sessions
      /\ repo \in [Resources -> RepoState]
  BY DEF TypeOK, RepoState
<1>3. ~p.held
  BY <1>1, Zenon DEF TypeOK, DeleteSession, NextKind, Branch
<1>4. CASE DeleteSession(c)
  <2>1. PICK x \in p.ids :
          \/ Becomes(c, [p EXCEPT !.ids = @ \ {x}])
          \/ Becomes(c, [p EXCEPT !.ids = @ \ {x}, !.errors = @ \cup {x}])
    BY <1>1, <1>4, Zenon DEF DeleteSession
  <2>2. live' \subseteq Sessions
    BY <1>2, <1>4, Zenon DEF DeleteSession
  <2> DEFINE n == [p EXCEPT !.ids = @ \ {x}]
             m == [p EXCEPT !.ids = @ \ {x}, !.errors = @ \cup {x}]
  <2>3. /\ p.ids \ {x} \in SUBSET Sessions
        /\ p.errors \cup {x} \in SUBSET (Resources \cup Sessions)
    BY <2>1, Fields
  <2>4. n \in CleanerState /\ ~n.held
    BY <1>3, <2>3 DEF CleanerState
  <2>5. m \in CleanerState /\ ~m.held
    BY <1>3, <2>3 DEF CleanerState
  <2> HIDE DEF n, m
  <2>6. QED
    BY <1>2, <1>4, <2>1, <2>2, <2>4, <2>5, StepTyped, Zenon
      DEF DeleteSession, n, m
<1>5. CASE NextKind(c)
  <2>1. PICK k \in Stages, t \in SUBSET Resources :
          Becomes(c, [p EXCEPT !.pc = k, !.todo = t])
          \/ Becomes(c, [p EXCEPT !.pc = k])
    BY <1>1, <1>5, PlanTyped, Zenon DEF NextKind, Stages, Removing
  <2> DEFINE n == [p EXCEPT !.pc = k, !.todo = t]
             m == [p EXCEPT !.pc = k]
  <2>2. n \in CleanerState /\ ~n.held
    BY <1>3, <2>1 DEF CleanerState
  <2>3. m \in CleanerState /\ ~m.held
    BY <1>3, <2>1 DEF CleanerState
  <2> HIDE DEF n, m
  <2>4. QED
    BY <1>2, <1>5, <2>1, <2>2, <2>3, StepTyped DEF NextKind, n, m
<1>6. QED
  BY <1>4, <1>5

\* Removing a resource from git's account keeps its type.
LEMMA GoneTyped ==
  ASSUME NEW g \in [Resources -> RepoState], NEW r \in Resources
  PROVE  /\ [g EXCEPT ![r].branch = 0] \in [Resources -> RepoState]
         /\ [g EXCEPT ![r].path = 0, ![r].registration = 0, ![r].dirty = FALSE]
              \in [Resources -> RepoState]
<1>1. /\ [g[r] EXCEPT !.branch = 0] \in RepoState
      /\ [g[r] EXCEPT !.path = 0, !.registration = 0, !.dirty = FALSE]
           \in RepoState
  BY DEF RepoState
<1>2. QED
  BY <1>1

\* The states a look at a resource may lead to.
LEMMA LooksTyped ==
  ASSUME NEW p \in CleanerState, ~p.held, NEW r \in p.todo, NEW k \in Stages
  PROVE
    LET q == [p EXCEPT !.todo = @ \ {r}]
        bad == [q EXCEPT !.errors = @ \cup {r}]
        failed == [bad EXCEPT !.failed = @ \cup {r}]
        chosen == [q EXCEPT !.target = {r}]
        goes == [chosen EXCEPT !.pc = k]
        picked == [q EXCEPT !.pc = k, !.target = {r}]
    IN \A n \in {q, bad, failed, goes, picked} : n \in CleanerState /\ ~n.held
<1> DEFINE
  q == [p EXCEPT !.todo = @ \ {r}]
  bad == [q EXCEPT !.errors = @ \cup {r}]
  failed == [bad EXCEPT !.failed = @ \cup {r}]
  chosen == [q EXCEPT !.target = {r}]
  goes == [chosen EXCEPT !.pc = k]
  picked == [q EXCEPT !.pc = k, !.target = {r}]
<1>1. r \in Resources /\ p.todo \ {r} \in SUBSET Resources
  BY Fields
<1>2. q \in CleanerState /\ ~q.held
  BY <1>1 DEF CleanerState
<1> HIDE DEF q
<1>3. q.errors \cup {r} \in SUBSET (Resources \cup Sessions)
  BY <1>1, <1>2, Fields
<1>4. bad \in CleanerState /\ ~bad.held
  BY <1>2, <1>3 DEF CleanerState
<1> HIDE DEF bad
<1>5. bad.failed \cup {r} \in SUBSET Resources
  BY <1>1, <1>4, Fields
<1>6. failed \in CleanerState /\ ~failed.held
  BY <1>4, <1>5 DEF CleanerState
<1>7. {r} \in SUBSET Resources
  BY <1>1
<1>8. chosen \in CleanerState /\ ~chosen.held
  BY <1>2, <1>7 DEF CleanerState
<1>9. picked \in CleanerState /\ ~picked.held
  BY <1>2, <1>7, Zenon DEF CleanerState
<1> HIDE DEF chosen
<1>10. goes \in CleanerState /\ ~goes.held
  BY <1>8 DEF CleanerState
<1>11. QED
  BY <1>2, <1>4, <1>6, <1>9, <1>10 DEF q, bad, chosen

\* A look at a resource keeps the types.
LEMMA ChecksTyped ==
  ASSUME TypeOK, NEW c \in Cleaners, CheckWorktree(c) \/ CheckBranch(c)
  PROVE  TypeOK'
<1>1. PICK p \in CleanerState : p = cleaner[c]
  BY DEF TypeOK
<1>2. run \in RunRecord /\ live \subseteq Sessions
      /\ repo \in [Resources -> RepoState]
  BY DEF TypeOK, RepoState
<1>3. ~p.held
  BY <1>1, Zenon DEF TypeOK, CheckWorktree, CheckBranch, Branch
<1>4. {"prepare", "remove", "unref"} \subseteq Stages
  BY DEF Stages, Removing, Branch
<1>5. \E n \in CleanerState : Becomes(c, n) /\ ~n.held
  <2>1. CASE CheckWorktree(c)
    <3>1. PICK r \in p.todo :
            LET q == [p EXCEPT !.todo = @ \ {r}]
                bad == [q EXCEPT !.errors = @ \cup {r}]
                chosen == [q EXCEPT !.target = {r}]
            IN
            \/ Becomes(c, q) \/ Becomes(c, bad)
            \/ \E k \in {"prepare", "remove"} :
                 Becomes(c, [chosen EXCEPT !.pc = k])
            \/ Becomes(c, [bad EXCEPT !.failed = @ \cup {r}])
      BY <1>1, <2>1, Zenon DEF CheckWorktree
    <3>2. QED
      BY <1>3, <1>4, <3>1, LooksTyped, Zenon
  <2>2. CASE CheckBranch(c)
    <3>1. PICK r \in p.todo :
            LET q == [p EXCEPT !.todo = @ \ {r}]
            IN
            \/ Becomes(c, q) \/ Becomes(c, [q EXCEPT !.errors = @ \cup {r}])
            \/ Becomes(c, [q EXCEPT !.pc = "unref", !.target = {r}])
      BY <1>1, <2>2, Zenon DEF CheckBranch
    <3>2. QED
      BY <1>3, <1>4, <3>1, LooksTyped, Zenon
  <2>3. QED
    BY <2>1, <2>2, SMTT(30)
<1>6. QED
  BY <1>2, <1>5, StepTyped, Zenon DEF CheckWorktree, CheckBranch

\* Removing a worktree and its branch keeps the types.
LEMMA RemovalTyped ==
  ASSUME TypeOK, NEW c \in Cleaners,
         Prepare(c) \/ Verify(c) \/ Remove(c) \/ Commit(c) \/ Unref(c)
  PROVE  TypeOK'
<1>1. PICK p \in CleanerState : p = cleaner[c]
  BY DEF TypeOK
<1>2. run \in RunRecord /\ live \subseteq Sessions
      /\ repo \in [Resources -> RepoState]
  BY DEF TypeOK, RepoState
<1>3. {"worktrees", "branches", "verify", "remove", "commit"} \subseteq Stages
  BY DEF Stages, Removing, Branch
<1>4. /\ \A k \in {"worktrees", "branches"} :
           /\ Back(p, k) \in CleanerState /\ ~Back(p, k).held
           /\ Back(Failing(p), k) \in CleanerState /\ ~Back(Failing(p), k).held
           /\ Back(BranchFailing(p), k) \in CleanerState
           /\ ~Back(BranchFailing(p), k).held
  BY <1>3, MovesTyped
<1>5. \A r \in p.target :
        /\ [repo EXCEPT ![r].branch = 0] \in [Resources -> RepoState]
        /\ [repo EXCEPT ![r].path = 0, ![r].registration = 0, ![r].dirty = FALSE]
             \in [Resources -> RepoState]
  <2> SUFFICES ASSUME NEW r \in p.target
               PROVE  /\ [repo EXCEPT ![r].branch = 0]
                           \in [Resources -> RepoState]
                      /\ [repo EXCEPT ![r].path = 0, ![r].registration = 0,
                                      ![r].dirty = FALSE]
                           \in [Resources -> RepoState]
    BY Zenon
  <2>1. r \in Resources
    BY Fields
  <2>2. QED
    BY <1>2, <2>1, GoneTyped, Zenon
<1>6. CASE Prepare(c)
  <2> DEFINE n == [p EXCEPT !.pc = "verify", !.held = TRUE]
  <2>1. n \in CleanerState /\ n.pc \in Branch
    BY <1>3 DEF CleanerState, Branch
  <2>2. Becomes(c, n) \/ Becomes(c, Back(BranchFailing(p), "worktrees"))
    BY <1>1, <1>6 DEF Prepare
  <2> HIDE DEF n
  <2>3. QED
    BY <1>2, <1>4, <1>6, <2>1, <2>2, StepTyped DEF Prepare
<1>7. CASE Verify(c)
  <2> DEFINE n == [p EXCEPT !.pc = "remove"]
  <2>1. n \in CleanerState /\ n.pc \in Branch
    BY <1>3 DEF CleanerState, Branch
  <2>2. Becomes(c, n) \/ Becomes(c, Back(Failing(p), "worktrees"))
    BY <1>1, <1>7 DEF Verify
  <2> HIDE DEF n
  <2>3. QED
    BY <1>2, <1>4, <1>7, <2>1, <2>2, StepTyped DEF Verify
<1>8. CASE Remove(c)
  <2> DEFINE n == [p EXCEPT !.pc = "commit"]
  <2>1. n \in CleanerState /\ n.pc \in Branch
    BY <1>3 DEF CleanerState, Branch
  <2>2. \/ Becomes(c, n) \/ Becomes(c, Back(p, "worktrees"))
        \/ Becomes(c, Back(Failing(p), "worktrees"))
    BY <1>1, <1>8, Zenon DEF Remove
  <2>3. repo' \in [Resources -> RepoState]
    <3>1. \/ \E r \in p.target :
               repo' = [repo EXCEPT ![r].path = 0, ![r].registration = 0,
                                      ![r].dirty = FALSE]
          \/ repo' = repo
      BY <1>1, <1>8, Zenon DEF Remove
    <3>2. QED
      BY <1>2, <1>5, <3>1, Zenon
  <2> HIDE DEF n
  <2>4. QED
    BY <1>2, <1>4, <1>8, <2>1, <2>2, <2>3, StepTyped, Zenon DEF Remove
<1>9. CASE Commit(c)
  <2> DEFINE b == Back(p, "worktrees")
             n(r) == [b EXCEPT !.completed = @ \cup {r}]
  <2>1. ASSUME NEW r \in p.target
        PROVE  n(r) \in CleanerState /\ ~n(r).held
    <3>1. b \in CleanerState /\ ~b.held
      BY <1>4
    <3> HIDE DEF b
    <3>2. b.completed \cup {r} \in SUBSET Resources
      BY <3>1, Fields
    <3>3. QED
      BY <3>1, <3>2 DEF CleanerState
  <2>2. \/ \E r \in p.target : Becomes(c, n(r))
        \/ Becomes(c, Back(BranchFailing(p), "worktrees"))
    BY <1>1, <1>9 DEF Commit
  <2>3. repo' \in [Resources -> RepoState]
    <3>1. \/ \E r \in p.target :
               repo' = [repo EXCEPT ![r].branch = 0]
          \/ repo' = repo
      BY <1>1, <1>9 DEF Commit
    <3>2. QED
      BY <1>2, <1>5, <3>1, ZenonT(30)
  <2> HIDE DEF n
  <2>4. QED
    BY <1>2, <1>4, <1>9, <2>1, <2>2, <2>3, StepTyped DEF Commit
<1>10. CASE Unref(c)
  <2>1. \/ Becomes(c, Back(p, "branches"))
        \/ Becomes(c, Back(Failing(p), "branches"))
    BY <1>1, <1>10 DEF Unref
  <2>2. repo' \in [Resources -> RepoState]
    <3>1. \/ \E r \in p.target :
               repo' = [repo EXCEPT ![r].branch = 0]
          \/ repo' = repo
      BY <1>1, <1>10 DEF Unref
    <3>2. QED
      BY <1>2, <1>5, <3>1, ZenonT(30)
  <2>3. QED
    BY <1>2, <1>4, <1>10, <2>1, <2>2, StepTyped DEF Unref
<1>11. QED
  BY <1>6, <1>7, <1>8, <1>9, <1>10

\* Every step keeps the types.
LEMMA StepTypes ==
  ASSUME TypeOK, [Next]_vars, \A c \in Cleaners : Aimed(cleaner[c])
  PROVE  TypeOK'
<1>1. CASE Others
  BY <1>1, OthersTyped
<1>2. ASSUME NEW c \in Cleaners, Cleanup(c) \/ Die(c) PROVE TypeOK'
  BY <1>2, LoadTyped, PreflightTyped, AuditTyped, SessionsTyped, ChecksTyped,
     RemovalTyped DEF Cleanup, LookStep
<1>3. CASE UNCHANGED vars
  BY <1>3 DEF vars, TypeOK
<1>4. QED
  BY <1>1, <1>2, <1>3 DEF Next

\* The variables start with their types.
LEMMA InitTypes == Init => TypeOK
<1> SUFFICES ASSUME Init PROVE TypeOK
  OBVIOUS
<1>1. PICK t \in 1 .. MaxTip, m \in 1 .. MaxTip :
        repo = [r \in Resources |-> [NewRepo EXCEPT !.tip = t, !.merged = m]]
  <2>1. \A t \in 1 .. MaxTip : \A m \in 1 .. t : m \in 1 .. MaxTip
    BY CleanupBoundsAssumption
  <2>2. QED
    BY <2>1, Zenon DEF Init
<1>2. t \in 1 .. MaxTip /\ m \in 1 .. MaxTip
  BY <1>1
<1>3. [NewRepo EXCEPT !.tip = t, !.merged = m] \in RepoState
  BY <1>2, BlankTypes DEF RepoState
<1>4. repo \in [Resources -> RepoState]
  BY <1>1, <1>3
<1>5. QED
  BY <1>4, BlankTypes, CleanupBoundsAssumption DEF Init, TypeOK, RepoState

-----------------------------------------------------------------------------
(* The inductive invariant.                                                *)

\* The lease: one cleanup at a time.
Exclusive ==
  \A c, d \in Cleaners :
    cleaner[c].pc # "idle" /\ cleaner[d].pc # "idle" => c = d

\* A plan is made from a record that exists.
Planned(p) == p.pc \in Looking => p.plan.exists

\* The fence: the record of a cleanup that removes things is marked, is the one
\* it began with and, without force, has no active worker.
Fenced(p) ==
  p.pc \in Removing =>
    /\ run = p.base /\ run.exists /\ run.audit = "in_progress"
    /\ p.force \/ ~run.active

\* The lock: a branch whose deletion is prepared stays at its frozen tip.
HeldAtTip(p) ==
  /\ p.held => \A r \in p.target : repo[r].tip = p.tips[r]
  /\ p.pc = "commit" => p.held

Sound(p) == Planned(p) /\ Fenced(p) /\ Aimed(p) /\ HeldAtTip(p)

IInv == TypeOK /\ Exclusive /\ \A c \in Cleaners : Sound(cleaner[c])

-----------------------------------------------------------------------------
(* A removal goes on.                                                      *)

RemovalStep(c) ==
  \/ DeleteSession(c) \/ NextKind(c) \/ CheckWorktree(c) \/ Prepare(c)
  \/ Verify(c) \/ Remove(c) \/ Commit(c) \/ CheckBranch(c) \/ Unref(c)

\* A removal goes on from p to n: it keeps its plan, and holds a branch only
\* if it held it or has just prepared its deletion.
Goes(p, n) ==
  /\ n.base = p.base /\ n.force = p.force /\ n.tips = p.tips
  /\ n.pc \in Removing /\ Aimed(n)
  /\ n.pc = "commit" => n.held
  /\ n.held => n.target = p.target /\ (p.held \/ p.pc = "prepare")

\* Going back to the next resource, with or without a failure.
LEMMA BackGoes ==
  ASSUME NEW p \in CleanerState, NEW k \in {"worktrees", "branches"}
  PROVE  /\ Goes(p, Back(p, k)) /\ Goes(p, Back(Failing(p), k))
         /\ Goes(p, Back(BranchFailing(p), k))
<1>1. \A q \in CleanerState :
        /\ Back(q, k).base = q.base /\ Back(q, k).force = q.force
        /\ Back(q, k).tips = q.tips /\ Back(q, k).pc = k
        /\ Back(q, k).held = FALSE
  BY DEF Back, CleanerState
<1>2. \A q \in CleanerState :
        /\ Failing(q).base = q.base /\ Failing(q).force = q.force
        /\ Failing(q).tips = q.tips
  BY DEF Failing, CleanerState
<1>3. k \in Stages /\ k \in Removing /\ k \notin Aiming /\ k # "commit"
  BY DEF Stages, Removing, Aiming, Checking, Branch
<1>4. Failing(p) \in CleanerState /\ BranchFailing(p) \in CleanerState
  BY <1>3, MovesTyped
<1>5. /\ BranchFailing(p).base = p.base /\ BranchFailing(p).force = p.force
      /\ BranchFailing(p).tips = p.tips
  <2>1. \A q \in CleanerState :
          /\ [q EXCEPT !.failed = @ \cup p.target].base = q.base
          /\ [q EXCEPT !.failed = @ \cup p.target].force = q.force
          /\ [q EXCEPT !.failed = @ \cup p.target].tips = q.tips
    BY DEF CleanerState
  <2>2. QED
    BY <1>2, <1>4, <2>1 DEF BranchFailing
<1>6. QED
  BY <1>1, <1>2, <1>3, <1>4, <1>5 DEF Goes, Aimed

\* Every removal step goes on, and leaves the record alone.
LEMMA RemovalGoes ==
  ASSUME IInv, NEW c \in Cleaners, RemovalStep(c)
  PROVE  /\ cleaner[c].pc \in Removing /\ run' = run
         /\ Goes(cleaner[c], cleaner'[c])
         /\ \E n : Becomes(c, n)
<1>1. PICK p \in CleanerState : p = cleaner[c]
  BY DEF IInv, TypeOK
<1>2. ASSUME NEW n, Becomes(c, n), Goes(p, n)
      PROVE  Goes(p, cleaner'[c]) /\ \E m : Becomes(c, m)
  <2>1. cleaner'[c] = n
    BY <1>2 DEF Becomes, IInv, TypeOK
  <2>2. QED
    BY <1>2, <2>1
<1>3. (p.held => p.pc \in Branch) /\ Aimed(p) /\ (p.pc = "commit" => p.held)
  BY <1>1 DEF IInv, TypeOK, Sound, HeldAtTip
<1>4. CASE DeleteSession(c)
  <2> DEFINE n(x) == [p EXCEPT !.ids = @ \ {x}]
             m(x) == [p EXCEPT !.ids = @ \ {x}, !.errors = @ \cup {x}]
  <2>1. p.pc = "sessions" /\ run' = run
    BY <1>1, <1>4 DEF DeleteSession
  <2>2. \E x : Becomes(c, n(x)) \/ Becomes(c, m(x))
    BY <1>1, <1>4, Zenon DEF DeleteSession
  <2>3. \A x : Goes(p, n(x)) /\ Goes(p, m(x))
    BY <1>3, <2>1 DEF CleanerState, Goes, Aimed, Aiming, Checking, Removing,
       Branch
  <2> HIDE DEF n, m
  <2>4. QED
    BY <1>1, <1>2, <2>1, <2>2, <2>3 DEF Removing
<1>5. CASE NextKind(c)
  <2> DEFINE n(k, t) == [p EXCEPT !.pc = k, !.todo = t]
             m(k) == [p EXCEPT !.pc = k]
  <2>1. p.pc \in {"sessions", "worktrees", "branches"} /\ run' = run
    BY <1>1, <1>5 DEF NextKind
  <2>2. \/ Becomes(c, n("worktrees", PlannedWorktrees(p)))
        \/ Becomes(c, n("branches", PlannedBranches(p)))
        \/ Becomes(c, m("finish"))
    BY <1>1, <1>5 DEF NextKind
  <2>3. \A k \in {"worktrees", "branches", "finish"} : \A t :
          Goes(p, n(k, t)) /\ Goes(p, m(k))
    BY <1>3, <2>1 DEF CleanerState, Goes, Aimed, Aiming, Checking, Removing,
       Branch
  <2> HIDE DEF n, m
  <2>4. QED
    BY <1>1, <1>2, <2>1, <2>2, <2>3 DEF Removing
<1>6. CASE CheckWorktree(c)
  <2> DEFINE q(r) == [p EXCEPT !.todo = @ \ {r}]
             bad(r) == [q(r) EXCEPT !.errors = @ \cup {r}]
             chosen(r, k) == [[q(r) EXCEPT !.target = {r}] EXCEPT !.pc = k]
             lost(r) == [bad(r) EXCEPT !.failed = @ \cup {r}]
  <2>1. p.pc = "worktrees" /\ run' = run
    BY <1>1, <1>6 DEF CheckWorktree
  <2>2. \E r \in Resources :
          \/ Becomes(c, q(r)) \/ Becomes(c, bad(r)) \/ Becomes(c, lost(r))
          \/ Becomes(c, chosen(r, "prepare"))
          \/ Becomes(c, chosen(r, "remove"))
    <3>1. PICK r \in p.todo :
            \/ Becomes(c, q(r)) \/ Becomes(c, bad(r)) \/ Becomes(c, lost(r))
            \/ Becomes(c, chosen(r, IF WithBranch(p, r) THEN "prepare"
                                    ELSE "remove"))
            \/ Becomes(c, IF repo[r].registration # 0 THEN bad(r) ELSE q(r))
      BY <1>1, <1>6, Zenon DEF CheckWorktree
    <3> HIDE DEF q, bad, chosen, lost
    <3>2. QED
      BY <3>1, Fields
  <2>3. \A r \in Resources, k \in {"prepare", "remove"} :
          /\ Goes(p, q(r)) /\ Goes(p, bad(r)) /\ Goes(p, lost(r))
          /\ Goes(p, chosen(r, k))
    BY <1>3, <2>1 DEF CleanerState, Goes, Aimed, Aiming, Checking, Removing,
       Branch
  <2> HIDE DEF q, bad, chosen, lost
  <2>4. QED
    BY <1>1, <1>2, <2>1, <2>2, <2>3 DEF Removing
<1>7. CASE CheckBranch(c)
  <2> DEFINE q(r) == [p EXCEPT !.todo = @ \ {r}]
             bad(r) == [q(r) EXCEPT !.errors = @ \cup {r}]
             chosen(r) == [q(r) EXCEPT !.pc = "unref", !.target = {r}]
  <2>1. p.pc = "branches" /\ run' = run
    BY <1>1, <1>7 DEF CheckBranch
  <2>2. \E r \in Resources :
          Becomes(c, q(r)) \/ Becomes(c, bad(r)) \/ Becomes(c, chosen(r))
    <3>1. PICK r \in p.todo :
            \/ Becomes(c, q(r))
            \/ Becomes(c, IF BranchOwned(p, r) /\ repo[r].tip = p.tips[r]
                          THEN chosen(r) ELSE bad(r))
      BY <1>1, <1>7, Zenon DEF CheckBranch
    <3> HIDE DEF q, bad, chosen
    <3>2. QED
      BY <3>1, Fields
  <2>3. \A r \in Resources :
          Goes(p, q(r)) /\ Goes(p, bad(r)) /\ Goes(p, chosen(r))
    BY <1>3, <2>1 DEF CleanerState, Goes, Aimed, Aiming, Checking, Removing,
       Branch
  <2> HIDE DEF q, bad, chosen
  <2>4. QED
    BY <1>1, <1>2, <2>1, <2>2, <2>3 DEF Removing
<1>8. CASE Prepare(c)
  <2> DEFINE n == [p EXCEPT !.pc = "verify", !.held = TRUE]
  <2>1. p.pc = "prepare" /\ run' = run
    BY <1>1, <1>8 DEF Prepare
  <2>2. Becomes(c, n) \/ Becomes(c, Back(BranchFailing(p), "worktrees"))
    BY <1>1, <1>8 DEF Prepare
  <2>3. Goes(p, n)
    BY <1>3, <2>1 DEF CleanerState, Goes, Aimed, Aiming, Checking, Removing,
       Branch
  <2> HIDE DEF n
  <2>4. QED
    BY <1>1, <1>2, <2>1, <2>2, <2>3, BackGoes DEF Removing
<1>9. CASE Verify(c)
  <2> DEFINE n == [p EXCEPT !.pc = "remove"]
  <2>1. p.pc = "verify" /\ run' = run
    BY <1>1, <1>9 DEF Verify
  <2>2. Becomes(c, n) \/ Becomes(c, Back(Failing(p), "worktrees"))
    BY <1>1, <1>9 DEF Verify
  <2>3. Goes(p, n)
    BY <1>3, <2>1 DEF CleanerState, Goes, Aimed, Aiming, Checking, Removing,
       Branch
  <2> HIDE DEF n
  <2>4. QED
    BY <1>1, <1>2, <2>1, <2>2, <2>3, BackGoes DEF Removing, Branch
<1>10. CASE Remove(c)
  <2> DEFINE n == [p EXCEPT !.pc = "commit"]
  <2>1. p.pc = "remove" /\ run' = run
    BY <1>1, <1>10, Zenon DEF Remove
  <2>2. \/ p.held /\ Becomes(c, n)
        \/ Becomes(c, Back(p, "worktrees"))
        \/ Becomes(c, Back(Failing(p), "worktrees"))
    BY <1>1, <1>10, Zenon DEF Remove
  <2>3. p.held => Goes(p, n)
    BY <1>3, <2>1 DEF CleanerState, Goes, Aimed, Aiming, Checking, Removing,
       Branch
  <2> HIDE DEF n
  <2>4. QED
    BY <1>1, <1>2, <2>1, <2>2, <2>3, BackGoes DEF Removing, Branch
<1>11. CASE Unref(c)
  <2>1. p.pc = "unref" /\ run' = run
    BY <1>1, <1>11 DEF Unref
  <2>2. \/ Becomes(c, Back(p, "branches"))
        \/ Becomes(c, Back(Failing(p), "branches"))
    BY <1>1, <1>11 DEF Unref
  <2>3. QED
    BY <1>1, <1>2, <1>3, <2>1, <2>2, BackGoes DEF Removing
<1>12. CASE Commit(c)
  <2> DEFINE b == Back(p, "worktrees")
             n(r) == [b EXCEPT !.completed = @ \cup {r}]
  <2>1. p.pc = "commit" /\ run' = run
    BY <1>1, <1>12 DEF Commit
  <2>2. \/ \E r : Becomes(c, n(r))
        \/ Becomes(c, Back(BranchFailing(p), "worktrees"))
    BY <1>1, <1>12 DEF Commit
  <2>3. b \in CleanerState /\ Goes(p, b) /\ b.held = FALSE
    BY MovesTyped, BackGoes DEF Stages, Removing
  <2>4. \A r : Goes(p, n(r))
    <3> HIDE DEF b
    <3>1. \A r : /\ n(r).base = b.base /\ n(r).force = b.force
                 /\ n(r).tips = b.tips /\ n(r).pc = b.pc
                 /\ n(r).held = FALSE /\ n(r).target = b.target
      BY <2>3 DEF CleanerState
    <3>2. QED
      BY <2>3, <3>1 DEF Goes, Aimed
  <2> HIDE DEF b, n
  <2>5. QED
    BY <1>1, <1>2, <1>3, <2>1, <2>2, <2>4, BackGoes DEF Removing, Branch
<1>13. QED
  BY <1>4, <1>5, <1>6, <1>7, <1>8, <1>9, <1>10, <1>11,
     <1>12 DEF RemovalStep

\* A removal step moves no branch nor HEAD; a deletion is prepared at the frozen
\* tip.
LEMMA RemovalTips ==
  ASSUME IInv, NEW c \in Cleaners, RemovalStep(c)
  PROVE  /\ \A r \in Resources : /\ repo'[r].tip = repo[r].tip
                                /\ repo'[r].merged = repo[r].merged
         /\ cleaner[c].pc = "prepare" /\ cleaner'[c].held =>
              \E r \in cleaner[c].target : repo[r].tip = cleaner[c].tips[r]
<1>1. PICK p \in CleanerState : p = cleaner[c]
  BY DEF IInv, TypeOK
<1>2. repo \in [Resources -> RepoState]
  BY SMTT(30) DEF IInv, TypeOK, RepoState
<1>3. \/ repo' = repo
      \/ \E r \in p.target :
           \/ repo' = [repo EXCEPT ![r].branch = 0]
           \/ repo' = [repo EXCEPT ![r].path = 0, ![r].registration = 0,
                                   ![r].dirty = FALSE]
  <2>1. CASE Remove(c)
    BY <1>1, <2>1, Zenon DEF Remove
  <2>2. CASE Commit(c)
    BY <1>1, <2>2, Zenon DEF Commit
  <2>3. CASE Unref(c)
    BY <1>1, <2>3, ZenonT(30) DEF Unref
  <2>4. CASE ~Remove(c) /\ ~Commit(c) /\ ~Unref(c)
    BY <2>4, Zenon
      DEF RemovalStep, DeleteSession, NextKind, CheckWorktree, Prepare,
       Verify, CheckBranch
  <2>5. QED
    BY <2>1, <2>2, <2>3, <2>4, Zenon
<1>4. \A r \in Resources : /\ repo'[r].tip = repo[r].tip
                            /\ repo'[r].merged = repo[r].merged
  <2>1. ASSUME NEW r \in Resources
        PROVE  LET b == [repo[r] EXCEPT !.branch = 0]
                   w == [repo[r] EXCEPT !.path = 0, !.registration = 0,
                                        !.dirty = FALSE]
               IN /\ b.tip = repo[r].tip /\ b.merged = repo[r].merged
                  /\ w.tip = repo[r].tip /\ w.merged = repo[r].merged
    BY <1>2 DEF RepoState
  <2>2. QED
    BY <1>2, <1>3, <2>1, ZenonT(30)
<1>5. ASSUME p.pc = "prepare", cleaner'[c].held
      PROVE  \E r \in p.target : repo[r].tip = p.tips[r]
  <2>1. Prepare(c)
    BY <1>1, <1>5 DEF RemovalStep, DeleteSession, NextKind, CheckWorktree,
       Verify, Remove, Commit, CheckBranch, Unref
  <2>2. CASE Becomes(c, Back(BranchFailing(p), "worktrees"))
    <3>1. Back(BranchFailing(p), "worktrees").held = FALSE
      BY MovesTyped DEF Stages, Removing
    <3>2. cleaner'[c].held = FALSE
      BY <2>2, <3>1 DEF Becomes, IInv, TypeOK
    <3>3. QED
      BY <1>5, <3>2
  <2>3. QED
    BY <1>1, <2>1, <2>2 DEF Prepare
<1>6. QED
  BY <1>1, <1>4, <1>5

-----------------------------------------------------------------------------
(* Every step keeps the invariant.                                         *)

\* A cleanup that is not running is sound.
LEMMA IdleSound ==
  ASSUME TypeOK', NEW c \in Cleaners, cleaner'[c].pc = "idle"
  PROVE  Sound(cleaner[c])'
<1>1. ~cleaner'[c].held
  BY DEF TypeOK, Branch
<1>2. QED
  BY <1>1 DEF Sound, Planned, Fenced, Aimed, HeldAtTip, Looking, Removing,
     Aiming, Checking, Branch

\* While one cleanup takes a step the others are idle.
LEMMA AloneSound ==
  ASSUME IInv, TypeOK', NEW c \in Cleaners, NEW n, Becomes(c, n),
         \A d \in Cleaners \ {c} : cleaner[d].pc = "idle",
         Sound(cleaner[c])'
  PROVE  IInv'
<1>1. \A d \in Cleaners \ {c} : cleaner'[d].pc = "idle"
  BY DEF Becomes, IInv, TypeOK
<1>2. \A d \in Cleaners : Sound(cleaner[d])'
  BY <1>1, IdleSound
<1>3. Exclusive'
  BY <1>1 DEF Exclusive
<1>4. QED
  BY <1>2, <1>3 DEF IInv

\* A removal step keeps the invariant.
LEMMA RemovalSound ==
  ASSUME IInv, TypeOK', NEW c \in Cleaners, RemovalStep(c)
  PROVE  IInv'
<1> DEFINE p == cleaner[c]
           n == cleaner'[c]
<1>1. p.pc \in Removing /\ run' = run /\ Goes(p, n)
  BY RemovalGoes
<1>2. Planned(n)
  BY <1>1 DEF Goes, Planned, Looking, Removing, Branch
<1>3. Fenced(cleaner[c])'
  BY <1>1 DEF Goes, IInv, Sound, Fenced
<1>4. HeldAtTip(cleaner[c])'
  <2>1. p.target \in SUBSET Resources
    BY Fields DEF IInv, TypeOK
  <2>2. ASSUME n.held, NEW r \in n.target
        PROVE  repo'[r].tip = n.tips[r]
    <3>1. /\ n.target = p.target /\ n.tips = p.tips
          /\ p.held \/ p.pc = "prepare"
      BY <1>1, <2>2 DEF Goes
    <3>2. repo'[r].tip = repo[r].tip
      BY <2>1, <2>2, <3>1, RemovalTips
    <3>3. CASE p.held
      BY <2>2, <3>1, <3>2, <3>3 DEF IInv, Sound, HeldAtTip
    <3>4. CASE p.pc = "prepare"
      <4>1. \E q \in Resources : p.target = {q}
        BY <3>4 DEF IInv, Sound, Aimed, Aiming, Checking
      <4>2. \E q \in p.target : repo[q].tip = p.tips[q]
        BY <2>2, <3>4, RemovalTips
      <4>3. QED
        BY <2>2, <3>1, <3>2, <4>1, <4>2
    <3>5. QED
      BY <3>1, <3>3, <3>4
  <2>3. QED
    BY <1>1, <2>2 DEF HeldAtTip, Goes
<1>5. Sound(cleaner[c])'
  BY <1>1, <1>2, <1>3, <1>4 DEF Sound, Goes, Planned, Aimed
<1>6. \A d \in Cleaners \ {c} : cleaner[d].pc = "idle"
  BY <1>1 DEF IInv, Exclusive, Removing, Branch
<1>7. \E m : Becomes(c, m)
  BY RemovalGoes
<1>8. QED
  BY <1>5, <1>6, <1>7, AloneSound

\* Loading the record and the preflight keep the invariant: the plan is the
\* record, which exists.
LEMMA LoadSound ==
  ASSUME IInv, TypeOK', NEW c \in Cleaners, Request(c) \/ LookStep(c)
  PROVE  IInv'
<1>1. ASSUME NEW n, Becomes(c, n), n.pc \in Looking, n.plan.exists, Aimed(n),
             \A d \in Cleaners \ {c} : cleaner[d].pc = "idle"
      PROVE  IInv'
  <2>1. cleaner'[c] = n
    BY <1>1 DEF Becomes, IInv, TypeOK
  <2>2. ~n.held
    BY <1>1, <2>1 DEF TypeOK, Branch, Looking
  <2>3. Sound(cleaner[c])'
    BY <1>1, <2>1, <2>2 DEF Sound, Planned, Fenced, Aimed, HeldAtTip,
       Looking, Removing, Branch
  <2>4. QED
    BY <1>1, <2>3, AloneSound
<1>2. CASE Request(c)
  <2>1. PICK n \in CleanerState :
          Becomes(c, n) /\ n.pc = "preflight" /\ n.plan = run
    BY <1>2, RequestLoads DEF IInv
  <2>2. n.pc \in Looking /\ Aimed(n)
    BY <2>1 DEF Looking, Aimed, Aiming, Checking, Branch
  <2>3. run.exists /\ \A d \in Cleaners \ {c} : cleaner[d].pc = "idle"
    BY <1>2, Zenon DEF Request
  <2>4. QED
    BY <1>1, <2>1, <2>2, <2>3
<1>3. CASE LookStep(c)
  <2>1. cleaner[c].pc \in Looking /\ Aimed(cleaner[c])
    BY <1>3, LookLeads DEF IInv, Sound
  <2>2. PICK n \in CleanerState : Becomes(c, n) /\ LooksOn(cleaner[c], n)
    BY <1>3, <2>1, LookLeads DEF IInv
  <2>3. cleaner[c].plan.exists
    BY <2>1 DEF IInv, Sound, Planned
  <2>4. \A d \in Cleaners \ {c} : cleaner[d].pc = "idle"
    BY <2>1 DEF IInv, Exclusive, Looking
  <2>5. QED
    BY <1>1, <2>2, <2>3, <2>4 DEF LooksOn
<1>4. QED
  BY <1>2, <1>3

\* The audit and the ways to leave keep the invariant: the removal begins on
\* the record that was planned from.
LEMMA AuditSound ==
  ASSUME IInv, TypeOK', NEW c \in Cleaners,
         Refuse(c) \/ Begin(c) \/ Finish(c) \/ Delete(c) \/ Die(c)
  PROVE  IInv'
<1>1. PICK p \in CleanerState : p = cleaner[c]
  BY DEF IInv, TypeOK
<1>2. ASSUME Becomes(c, Free) PROVE IInv'
  <2>1. cleaner'[c].pc = "idle"
    BY <1>2, BlankTypes DEF Becomes, IInv, TypeOK
  <2>2. \A d \in Cleaners \ {c} : cleaner[d].pc = "idle"
    BY DEF IInv, Exclusive, Refuse, Begin, Finish, Delete, Die
  <2>3. QED
    BY <1>2, <2>1, <2>2, IdleSound, AloneSound
<1>3. CASE Refuse(c) \/ Delete(c) \/ Die(c)
  BY <1>2, <1>3 DEF Refuse, Delete, Die, Leave
<1>4. CASE Begin(c)
  <2>1. CASE run # p.plan
    BY <1>1, <1>2, <1>4, <2>1 DEF Begin, Leave
  <2>2. CASE run = p.plan
    <3> DEFINE n == [p EXCEPT !.pc = "sessions", !.base = run',
                              !.ids = PlannedSessions(p)]
    <3>1. /\ run' = [run EXCEPT !.audit = "in_progress"] /\ Becomes(c, n)
          /\ p.pc = "begin" /\ ~(p.plan.active /\ ~p.force)
      BY <1>1, <1>4, <2>2 DEF Begin
    <3>2. run.exists
      BY <1>1, <2>2, <3>1 DEF IInv, Sound, Planned, Looking
    <3>3. /\ run'.exists = run.exists /\ run'.active = run.active
          /\ run'.audit = "in_progress"
      BY <3>1 DEF IInv, TypeOK, RunRecord
    <3>4. /\ n.pc = "sessions" /\ n.base = run' /\ n.force = p.force
          /\ n.held = p.held
      BY DEF CleanerState
    <3>5. ~p.held
      BY <1>1, <3>1 DEF IInv, TypeOK, Branch
    <3> HIDE DEF n
    <3>6. cleaner'[c] = n
      BY <3>1 DEF Becomes, IInv, TypeOK
    <3>7. Sound(cleaner[c])'
      BY <2>2, <3>1, <3>2, <3>3, <3>4, <3>5, <3>6 DEF Sound, Planned, Fenced,
         Aimed, HeldAtTip, Aiming, Checking, Looking, Branch
    <3>8. \A d \in Cleaners \ {c} : cleaner[d].pc = "idle"
      BY <1>4 DEF IInv, Exclusive, Begin
    <3>9. QED
      BY <3>1, <3>7, <3>8, AloneSound
  <2>3. QED
    BY <2>1, <2>2
<1>5. CASE Finish(c)
  <2> DEFINE n == [p EXCEPT !.pc = "delete", !.base = run']
  <2>1. p.pc = "finish" /\ (Becomes(c, n) \/ Becomes(c, Free))
    BY <1>1, <1>5, Zenon DEF Finish
  <2>2. n.pc = "delete" /\ n.held = p.held
    BY DEF CleanerState
  <2>3. ~p.held
    BY <1>1, <2>1 DEF IInv, TypeOK, Branch
  <2> HIDE DEF n
  <2>4. ASSUME Becomes(c, n) PROVE IInv'
    <3>1. cleaner'[c] = n
      BY <2>4 DEF Becomes, IInv, TypeOK
    <3>2. Sound(cleaner[c])'
      BY <2>2, <2>3, <3>1, SMTT(30)
        DEF Sound, Planned, Fenced, Aimed, HeldAtTip, Aiming, Checking,
         Looking, Removing, Branch
    <3>3. \A d \in Cleaners \ {c} : cleaner[d].pc = "idle"
      BY <1>5, Zenon DEF IInv, Exclusive, Finish
    <3>4. QED
      BY <2>4, <3>2, <3>3, AloneSound
  <2>5. QED
    BY <1>2, <2>1, <2>4, SMTT(30)
<1>6. QED
  BY <1>3, <1>4, <1>5

\* Others move no branch whose deletion is prepared.
LEMMA OthersTips ==
  ASSUME TypeOK, Others, NEW r \in Resources, Locked(r)
  PROVE  repo'[r].tip = repo[r].tip
<1>1. repo \in [Resources -> RepoState]
  BY DEF TypeOK, RepoState
<1>2. CASE ToggleWorker \/ AddSession \/ CreateRun
           \/ \E q \in Resources : Register(q)
  BY <1>2 DEF ToggleWorker, AddSession, CreateRun, Register, Update
<1>3. ASSUME NEW q \in Resources, q # r, NEW g, Work(q, g)
      PROVE  repo'[r].tip = repo[r].tip
  BY <1>1, <1>3 DEF Work
<1>4. ASSUME NEW g, Work(r, g), g.tip = repo[r].tip
      PROVE  repo'[r].tip = repo[r].tip
  BY <1>1, <1>4 DEF Work
<1>5. ASSUME NEW q \in Resources, UseBranch(q) \/ Replace(q)
      PROVE  repo'[r].tip = repo[r].tip
  <2>1. CASE q # r
    <3>1. \E g : Work(q, g)
      BY <1>5, Zenon DEF UseBranch, Replace
    <3>2. QED
      BY <1>3, <2>1, <3>1
  <2>2. CASE q = r
    <3>1. PICK g \in RepoState : g = repo[r]
      BY <1>1
    <3>2. /\ [g EXCEPT !.dirty = ~@].tip = g.tip
          /\ [g EXCEPT !.attached = ~@].tip = g.tip
          /\ \A m : [g EXCEPT !.merged = m].tip = g.tip
          /\ [g EXCEPT !.path = 0].tip = g.tip
          /\ [g EXCEPT !.path = g.registration].tip = g.tip
          /\ [g EXCEPT !.registration = 0, !.dirty = FALSE].tip = g.tip
          /\ [g EXCEPT !.path = g.made + 1, !.made = @ + 1].tip = g.tip
          /\ [g EXCEPT !.path = g.made + 1, !.registration = g.made + 1,
                       !.made = @ + 1, !.attached = TRUE].tip = g.tip
          /\ [g EXCEPT !.branch = 0].tip = g.tip
          /\ [g EXCEPT !.branch = g.made + 1, !.made = @ + 1].tip = g.tip
      BY DEF RepoState
    <3>3. CASE UseBranch(r)
      BY <1>4, <3>1, <3>2, <3>3 DEF UseBranch
    <3>4. CASE Replace(r)
      BY <1>4, <3>1, <3>2, <3>4 DEF Replace
    <3>5. QED
      BY <1>5, <2>2, <3>3, <3>4
  <2>3. QED
    BY <2>1, <2>2
<1>6. QED
  BY <1>2, <1>5 DEF Others

\* Others keep the invariant: the fence keeps the record of a cleanup that
\* removes things, the lock the branch it holds.
LEMMA OthersSound ==
  ASSUME IInv, TypeOK', Others
  PROVE  IInv'
<1>1. cleaner' = cleaner
  BY Zenon DEF Others, ToggleWorker, AddSession, CreateRun, Register, Update,
     UseBranch, Replace, Work
<1>2. run' = run \/ Updatable \/ ~run.exists
  BY Zenon DEF Others, ToggleWorker, AddSession, CreateRun, Register, Update,
     UseBranch, Replace, Work
<1>3. ASSUME NEW c \in Cleaners
      PROVE  Sound(cleaner[c])'
  <2>1. Sound(cleaner[c])
    BY DEF IInv
  <2>2. Planned(cleaner[c])' /\ Aimed(cleaner[c])'
    BY <1>1, <2>1 DEF Sound, Planned, Aimed
  <2>3. Fenced(cleaner[c])'
    BY <1>1, <1>2, <2>1 DEF Sound, Fenced, Updatable
  <2>4. HeldAtTip(cleaner[c])'
    <3>1. cleaner[c].target \in SUBSET Resources
      BY Fields DEF IInv, TypeOK
    <3>2. ASSUME cleaner[c].held, NEW r \in cleaner[c].target
          PROVE  repo'[r].tip = repo[r].tip
      BY <3>1, <3>2, OthersTips DEF IInv, Locked
    <3>3. QED
      BY <1>1, <2>1, <3>2 DEF Sound, HeldAtTip
  <2>5. QED
    BY <2>2, <2>3, <2>4 DEF Sound
<1>4. Exclusive'
  BY <1>1 DEF IInv, Exclusive
<1>5. QED
  BY <1>3, <1>4 DEF IInv

\* Every step keeps the invariant.
LEMMA StepSound ==
  ASSUME IInv, [Next]_vars
  PROVE  IInv'
<1>1. TypeOK'
  BY StepTypes DEF IInv, Sound
<1>2. CASE Others
  BY <1>1, <1>2, OthersSound
<1>3. ASSUME NEW c \in Cleaners, Cleanup(c) \/ Die(c) PROVE IInv'
  BY <1>1, <1>3, LoadSound, AuditSound, RemovalSound
     DEF Cleanup, RemovalStep, LookStep
<1>4. CASE UNCHANGED vars
  BY <1>1, <1>4 DEF vars, IInv, Exclusive, Sound, Planned, Fenced, Aimed,
     HeldAtTip
<1>5. QED
  BY <1>2, <1>3, <1>4 DEF Next

\* The invariant holds at the start.
LEMMA InitSound == Init => IInv
<1>1. Init => \A c \in Cleaners : cleaner[c].pc = "idle" /\ ~cleaner[c].held
  BY BlankTypes DEF Init
<1>2. QED
  BY <1>1, InitTypes DEF IInv, Exclusive, Sound, Planned, Fenced, Aimed,
     HeldAtTip, Looking, Removing, Aiming, Checking, Branch

\* The inductive invariant: one cleanup at a time (the lease), a fenced record
\* while it removes things, a branch held at its frozen tip.
THEOREM Invariance == Spec => []IInv
BY InitSound, StepSound, PTL DEF Spec

\* The variables keep their types: the record, the repository and the state of
\* every cleanup, however many there are (RunCleanupService and its
\* environment).
THEOREM TypeCorrect == Spec => []TypeOK
<1>1. IInv => TypeOK
  BY DEF IInv
<1>2. QED
  BY <1>1, Invariance, PTL

\* The plan of a removal stays true: the fence of update_run, the comparison of
\* begin_cleanup_audit and the lease together keep every other command from
\* changing the record.
THEOREM PlanStaysTrueAlways == Spec => []PlanStaysTrue
<1>1. IInv => PlanStaysTrue
  BY DEF IInv, Sound, Fenced, PlanStaysTrue
<1>2. QED
  BY <1>1, Invariance, PTL

\* No worker becomes active under a removal that is not forced, although
\* active_cleanup_is_blocked looks at a record loaded before.
THEOREM SparesActiveWorkersAlways == Spec => []SparesActiveWorkers
<1>1. IInv => SparesActiveWorkers
  BY DEF IInv, Sound, Fenced, SparesActiveWorkers
<1>2. QED
  BY <1>1, Invariance, PTL

\* A branch is deleted at the tip its preflight froze, in its transaction and
\* by remove_branches.
THEOREM DeletesFrozenTipAlways == Spec => DeletesFrozenTip
<1>1. ASSUME IInv, [Next]_vars, NEW c \in Cleaners, NEW r \in Resources,
             RemovesBranch(c, r)
      PROVE  repo[r].tip = cleaner[c].tips[r]
  <2>1. repo \in [Resources -> RepoState]
    BY <1>1 DEF IInv, TypeOK, RepoState
  <2>2. cleaner'[c] # cleaner[c] /\ repo[r].branch # 0 /\ repo'[r].branch = 0
    BY <1>1 DEF RemovesBranch
  <2>3. ~Others
    BY <2>2, Zenon
      DEF Others, ToggleWorker, AddSession, CreateRun, Register, Update,
       UseBranch, Replace, Work
  <2>4. PICK d \in Cleaners : Cleanup(d) \/ Die(d)
    BY <1>1, <2>2, <2>3 DEF Next, vars
  <2>5. CASE Remove(d)
    <3>1. \/ repo' = repo
          \/ \E q \in cleaner[d].target :
               repo' = [repo EXCEPT ![q].path = 0, ![q].registration = 0,
                                    ![q].dirty = FALSE]
      BY <2>5, Zenon DEF Remove
    <3>2. [repo[r] EXCEPT !.path = 0, !.registration = 0, !.dirty = FALSE]
            .branch = repo[r].branch
      BY <2>1 DEF RepoState
    <3>3. QED
      BY <2>1, <2>2, <3>1, <3>2, ZenonT(30)
  <2>6. CASE Commit(d)
    <3>1. d = c
      BY <1>1, <2>2, <2>6 DEF Commit, Becomes, IInv, TypeOK
    <3>2. PICK q \in cleaner[c].target : repo' = [repo EXCEPT ![q].branch = 0]
      BY <2>2, <2>6, <3>1 DEF Commit
    <3>3. q = r
      BY <2>1, <2>2, <3>2
    <3>4. QED
      BY <1>1, <2>6, <3>1, <3>2, <3>3 DEF Commit, IInv, Sound, HeldAtTip
  <2>7. CASE Unref(d)
    <3>1. d = c
      BY <1>1, <2>2, <2>7 DEF Unref, Becomes, IInv, TypeOK
    <3>2. PICK q \in cleaner[c].target :
            /\ repo[q].tip = cleaner[c].tips[q]
            /\ repo' = [repo EXCEPT ![q].branch = 0]
      BY <2>2, <2>7, <3>1 DEF Unref
    <3>3. q = r
      BY <2>1, <2>2, <3>2
    <3>4. QED
      BY <3>2, <3>3
  <2>8. CASE ~Remove(d) /\ ~Commit(d) /\ ~Unref(d)
    <3>1. repo' = repo
      BY <2>4, <2>8, LookOnly, Zenon DEF Cleanup, LookStep, Request, Refuse,
         Begin, DeleteSession, NextKind, CheckWorktree, Prepare, Verify,
         CheckBranch, Finish, Delete, Die
    <3>2. QED
      BY <2>2, <3>1
  <2>9. QED
    BY <2>5, <2>6, <2>7, <2>8
<1>2. IInv /\ [Next]_vars =>
        [\A c \in Cleaners, r \in Resources :
           RemovesBranch(c, r) => repo[r].tip = cleaner[c].tips[r]]_vars
  BY <1>1
<1>3. QED
  BY <1>2, Invariance, PTL DEF Spec, DeletesFrozenTip

-----------------------------------------------------------------------------
(* What a removal has done.                                                *)

\* Numbers are given out in order: none is above the last one made.
Numbered ==
  \A r \in Resources :
    /\ repo[r].path <= repo[r].made /\ repo[r].registration <= repo[r].made
    /\ repo[r].branch <= repo[r].made

\* What a record lists was once made.
Owned(record) ==
  \A r \in Resources : record.owned[r] # Unregistered =>
    /\ record.owned[r].worktree \in 1 .. repo[r].made
    /\ record.owned[r].branch \in 1 .. repo[r].made

Lasting == Removing \cup {"delete"}

\* Nothing has failed before the removal begins, and every block and every
\* failure is an error.
Blamed(p) ==
  /\ p.pc \in Looking => p.failed = {} /\ p.completed = {}
  /\ p.pc \in Looking \cup Removing => Blocks(p) /\ p.failed \subseteq p.errors
  /\ p.pc = "delete" => p.errors = {}

\* The steps that delete a branch are taken for those that are to go.
Chosen(p) ==
  /\ p.pc = "prepare" \/ p.held => \A r \in p.target : WithBranch(p, r)
  /\ p.pc = "unref" => p.target \cap p.blockedBranches = {}

\* The record of a removal lists what was planned.
Recorded(p) ==
  /\ p.pc \in Lasting => /\ p.base.owned = p.plan.owned
                         /\ p.base.sessions = p.plan.sessions
  /\ p.pc = "delete" => run.exists /\ p.plan.sessions \subseteq run.sessions

\* The resources whose worktree, or branch, has had its turn.
WorktreesDone(p) ==
  CASE p.pc = "worktrees" \/ p.pc = "commit" -> PlannedWorktrees(p) \ p.todo
    [] p.pc \in {"prepare", "verify", "remove"} ->
         PlannedWorktrees(p) \ (p.todo \cup p.target)
    [] p.pc \in {"branches", "unref", "finish", "delete"} -> PlannedWorktrees(p)
    [] OTHER -> {}
BranchesDone(p) ==
  CASE p.pc = "branches" -> p.completed \cup (PlannedBranches(p) \ p.todo)
    [] p.pc = "unref" ->
         p.completed \cup (PlannedBranches(p) \ (p.todo \cup p.target))
    [] p.pc \in {"finish", "delete"} -> p.completed \cup PlannedBranches(p)
    [] OTHER -> p.completed

WorktreeGone(p, r) == repo[r].registration # p.plan.owned[r].worktree
BranchGone(p, r) == repo[r].branch # p.plan.owned[r].branch

\* What has had its turn without an error is gone.
Done(p) ==
  p.pc \in Lasting =>
    /\ p.pc # "sessions" => p.ids = {}
    /\ p.completed \subseteq PlannedBranches(p)
    /\ p.errors = {} =>
         /\ PlannedSessions(p) \cap live \subseteq p.ids
         /\ \A r \in WorktreesDone(p) : WorktreeGone(p, r)
         /\ \A r \in BranchesDone(p) : BranchGone(p, r)

Careful(p) ==
  /\ p.pc # "idle" => Owned(p.plan)
  /\ Blamed(p) /\ Merged(p) /\ Chosen(p) /\ Recorded(p) /\ Done(p)

Tracked == Numbered /\ Owned(run) /\ \A c \in Cleaners : Careful(cleaner[c])

-----------------------------------------------------------------------------
(* What a step may do to a resource.                                       *)

\* The numbers of a resource are in order.
InOrder(g) ==
  g.path <= g.made /\ g.registration <= g.made /\ g.branch <= g.made

\* A resource from g to h: nothing that is gone comes back under its number.
Ages(g, h) ==
  /\ h.made >= g.made /\ InOrder(h)
  /\ h.registration = g.registration \/ h.registration = 0
     \/ h.registration > g.made
  /\ h.branch = g.branch \/ h.branch = 0 \/ h.branch > g.made

\* A resource ages under each of the edits.
LEMMA EditsAge ==
  ASSUME NEW g \in RepoState, InOrder(g)
  PROVE  /\ Ages(g, g)
         /\ Ages(g, [g EXCEPT !.dirty = ~@])
         /\ Ages(g, [g EXCEPT !.attached = ~@])
         /\ \A t \in 1 .. MaxTip : /\ Ages(g, [g EXCEPT !.tip = t])
                                   /\ Ages(g, [g EXCEPT !.merged = t])
         /\ Ages(g, [g EXCEPT !.path = 0])
         /\ Ages(g, [g EXCEPT !.path = g.registration])
         /\ Ages(g, [g EXCEPT !.registration = 0, !.dirty = FALSE])
         /\ Ages(g, [g EXCEPT !.path = g.made + 1, !.made = @ + 1])
         /\ Ages(g, [g EXCEPT !.path = g.made + 1,
                              !.registration = g.made + 1,
                              !.made = @ + 1, !.attached = TRUE])
         /\ Ages(g, [g EXCEPT !.branch = 0])
         /\ Ages(g, [g EXCEPT !.branch = g.made + 1, !.made = @ + 1])
         /\ Ages(g, [g EXCEPT !.path = 0, !.registration = 0,
                              !.dirty = FALSE])
<1> USE CleanupBoundsAssumption DEF Ages, InOrder, RepoState
<1>1. Ages(g, g)
  OBVIOUS
<1>2. Ages(g, [g EXCEPT !.dirty = ~@])
  OBVIOUS
<1>3. Ages(g, [g EXCEPT !.attached = ~@])
  OBVIOUS
<1>4. \A t \in 1 .. MaxTip : Ages(g, [g EXCEPT !.tip = t])
  OBVIOUS
<1>5. \A t \in 1 .. MaxTip : Ages(g, [g EXCEPT !.merged = t])
  OBVIOUS
<1>6. Ages(g, [g EXCEPT !.path = 0])
  OBVIOUS
<1>7. Ages(g, [g EXCEPT !.path = g.registration])
  OBVIOUS
<1>8. Ages(g, [g EXCEPT !.registration = 0, !.dirty = FALSE])
  OBVIOUS
<1>9. Ages(g, [g EXCEPT !.path = g.made + 1, !.made = @ + 1])
  OBVIOUS
<1>10. Ages(g, [g EXCEPT !.path = g.made + 1, !.registration = g.made + 1,
                         !.made = @ + 1, !.attached = TRUE])
  OBVIOUS
<1>11. Ages(g, [g EXCEPT !.branch = 0])
  OBVIOUS
<1>12. Ages(g, [g EXCEPT !.branch = g.made + 1, !.made = @ + 1])
  OBVIOUS
<1>13. Ages(g, [g EXCEPT !.path = 0, !.registration = 0, !.dirty = FALSE])
  OBVIOUS
<1> HIDE DEF Ages, InOrder, RepoState
<1>14. QED
  BY <1>1, <1>2, <1>3, <1>4, <1>5, <1>6, <1>7, <1>8, <1>9, <1>10, <1>11,
     <1>12, <1>13

\* What others do, every resource ages.
LEMMA OthersAge ==
  ASSUME TypeOK, Numbered, Others
  PROVE  \A r \in Resources : Ages(repo[r], repo'[r])
<1>1. /\ repo \in [Resources -> RepoState]
      /\ \A r \in Resources : InOrder(repo[r])
  BY DEF TypeOK, RepoState, Numbered, InOrder
<1>a. \A r \in Resources : Ages(repo[r], repo[r])
  <2>1. ASSUME NEW r \in Resources PROVE Ages(repo[r], repo[r])
    <3>1. PICK g \in RepoState : g = repo[r] /\ InOrder(g)
      BY <1>1
    <3>2. QED
      BY <3>1, EditsAge, Zenon
  <2>2. QED
    BY <2>1, Zenon
<1>2. CASE repo' = repo
  BY <1>a, <1>2, Zenon
<1>3. ASSUME NEW q \in Resources, NEW g, Work(q, g), Ages(repo[q], g)
      PROVE  \A r \in Resources : Ages(repo[r], repo'[r])
  BY <1>1, <1>a, <1>3 DEF Work
<1>4. ASSUME NEW q \in Resources, UseBranch(q)
      PROVE  \A r \in Resources : Ages(repo[r], repo'[r])
  <2>1. PICK g \in RepoState : g = repo[q] /\ InOrder(g)
    BY <1>1
  <2>2. \/ Work(q, [g EXCEPT !.dirty = ~@])
        \/ Work(q, [g EXCEPT !.attached = ~@])
        \/ \E t \in 1 .. MaxTip : \/ Work(q, [g EXCEPT !.tip = t])
                                  \/ Work(q, [g EXCEPT !.merged = t])
    BY <1>4, <2>1, Zenon DEF UseBranch
  <2>3. /\ Ages(g, [g EXCEPT !.dirty = ~@])
        /\ Ages(g, [g EXCEPT !.attached = ~@])
        /\ \A t \in 1 .. MaxTip : /\ Ages(g, [g EXCEPT !.tip = t])
                                  /\ Ages(g, [g EXCEPT !.merged = t])
    BY <2>1, EditsAge, Zenon
  <2>4. PICK h : Work(q, h) /\ Ages(g, h)
    BY <2>2, <2>3, Zenon
  <2>5. QED
    BY <1>3, <2>1, <2>4
<1>5. ASSUME NEW q \in Resources, Replace(q)
      PROVE  \A r \in Resources : Ages(repo[r], repo'[r])
  <2>1. PICK g \in RepoState : g = repo[q] /\ InOrder(g)
    BY <1>1
  <2>2. \/ Work(q, [g EXCEPT !.path = 0])
        \/ Work(q, [g EXCEPT !.path = g.registration])
        \/ Work(q, [g EXCEPT !.registration = 0, !.dirty = FALSE])
        \/ Work(q, [g EXCEPT !.path = g.made + 1, !.made = @ + 1])
        \/ Work(q, [g EXCEPT !.path = g.made + 1, !.registration = g.made + 1,
                         !.made = @ + 1, !.attached = TRUE])
        \/ Work(q, [g EXCEPT !.branch = 0])
        \/ Work(q, [g EXCEPT !.branch = g.made + 1, !.made = @ + 1])
    BY <1>5, <2>1, Zenon DEF Replace
  <2>3. /\ Ages(g, [g EXCEPT !.path = 0])
        /\ Ages(g, [g EXCEPT !.path = g.registration])
        /\ Ages(g, [g EXCEPT !.registration = 0, !.dirty = FALSE])
        /\ Ages(g, [g EXCEPT !.path = g.made + 1, !.made = @ + 1])
        /\ Ages(g, [g EXCEPT !.path = g.made + 1, !.registration = g.made + 1,
                         !.made = @ + 1, !.attached = TRUE])
        /\ Ages(g, [g EXCEPT !.branch = 0])
        /\ Ages(g, [g EXCEPT !.branch = g.made + 1, !.made = @ + 1])
    BY <2>1, EditsAge, ZenonT(30)
  <2>4. PICK h : Work(q, h) /\ Ages(g, h)
    BY <2>2, <2>3, Zenon
  <2>5. QED
    BY <1>3, <2>1, <2>4
<1>6. QED
  BY <1>2, <1>4, <1>5 DEF Others, ToggleWorker, AddSession, CreateRun, Register,
     Update

\* Under a removal step every resource ages.
LEMMA RemovalAges ==
  ASSUME TypeOK, Numbered, NEW c \in Cleaners, Cleanup(c) \/ Die(c)
  PROVE  \A r \in Resources : Ages(repo[r], repo'[r])
<1>1. /\ repo \in [Resources -> RepoState]
      /\ \A r \in Resources : InOrder(repo[r])
  BY SMTT(30) DEF TypeOK, RepoState, Numbered, InOrder
<1>2. \/ repo' = repo
      \/ \E r \in cleaner[c].target :
           \/ repo' = [repo EXCEPT ![r].branch = 0]
           \/ repo' = [repo EXCEPT ![r].path = 0, ![r].registration = 0,
                                   ![r].dirty = FALSE]
  <2>1. CASE Remove(c)
    BY <2>1, Zenon DEF Remove
  <2>2. CASE Commit(c)
    BY <2>2, Zenon DEF Commit
  <2>3. CASE Unref(c)
    BY <2>3, ZenonT(30) DEF Unref
  <2>4. CASE ~Remove(c) /\ ~Commit(c) /\ ~Unref(c)
    BY <2>4, LookOnly, Zenon
      DEF Cleanup, LookStep, Request, Refuse, Begin, DeleteSession, NextKind,
       CheckWorktree, Prepare, Verify, CheckBranch, Finish, Delete, Die
  <2>5. QED
    BY <2>1, <2>2, <2>3, <2>4, Zenon
<1>3. CASE repo' = repo
  BY <1>1, <1>3, EditsAge, Zenon
<1>4. ASSUME NEW q \in cleaner[c].target,
             \/ repo' = [repo EXCEPT ![q].branch = 0]
             \/ repo' = [repo EXCEPT ![q].path = 0, ![q].registration = 0,
                                     ![q].dirty = FALSE]
      PROVE  \A r \in Resources : Ages(repo[r], repo'[r])
  <2>1. q \in Resources
    BY Fields DEF TypeOK
  <2>2. PICK g \in RepoState : g = repo[q] /\ InOrder(g)
    BY <1>1, <2>1, SMTT(30)
  <2>3. /\ Ages(g, [g EXCEPT !.branch = 0])
        /\ Ages(g, [g EXCEPT !.path = 0, !.registration = 0, !.dirty = FALSE])
    BY <2>2, EditsAge, Zenon
  <2>4. Ages(repo[q], repo'[q])
    BY <1>1, <1>4, <2>1, <2>2, <2>3
  <2>5. \A r \in Resources \ {q} : repo'[r] = repo[r]
    BY <1>1, <1>4, <2>1
  <2>6. QED
    BY <1>1, <2>4, <2>5, EditsAge, Zenon
<1>5. QED
  BY <1>2, <1>3, <1>4, Zenon

\* The branches and HEAD go forward, but for those moved back.
Forward ==
  \A r \in Resources \ rewound' :
    /\ r \notin rewound
    /\ repo'[r].tip >= repo[r].tip /\ repo'[r].merged >= repo[r].merged

\* What others move back is noted.
LEMMA OthersForward ==
  ASSUME TypeOK, TypeOK', Others
  PROVE  Forward
<1>1. \A r \in Resources : repo[r] \in RepoState /\ repo'[r] \in RepoState
  BY DEF TypeOK, RepoState
<1>2. CASE repo' = repo /\ rewound' = rewound
  BY <1>1, <1>2 DEF Forward, RepoState
<1>3. ASSUME NEW q \in Resources, NEW g, Work(q, g)
      PROVE  Forward
  <2>1. repo'[q] = g /\ \A r \in Resources \ {q} : repo'[r] = repo[r]
    BY <1>3 DEF Work, TypeOK
  <2>2. /\ rewound \subseteq rewound'
        /\ q \in rewound' \/ ~(g.tip < repo[q].tip \/ g.merged < repo[q].merged)
    BY <1>3 DEF Work
  <2>3. QED
    BY <1>1, <2>1, <2>2 DEF Forward, RepoState
<1>4. \/ repo' = repo /\ rewound' = rewound
      \/ \E q \in Resources : \E g : Work(q, g)
  BY Zenon DEF Others, ToggleWorker, AddSession, CreateRun, Register, Update,
     UseBranch, Replace
<1>5. QED
  BY <1>2, <1>3, <1>4

\* A removal moves nothing back.
LEMMA RemovalForward ==
  ASSUME IInv, TypeOK', NEW c \in Cleaners, RemovalStep(c)
  PROVE  Forward
<1>1. \A r \in Resources : repo[r] \in RepoState /\ repo'[r] \in RepoState
  BY DEF IInv, TypeOK, RepoState
<1>2. rewound' = rewound
  BY Zenon DEF RemovalStep, DeleteSession, NextKind, CheckWorktree, Prepare,
     Verify, Remove, Commit, CheckBranch, Unref
<1>3. QED
  BY <1>1, <1>2, RemovalTips DEF Forward, RepoState

-----------------------------------------------------------------------------
(* What has been done stays done.                                          *)

\* The numbers stay in order, and what was once made stays so.
LEMMA OwnedStays ==
  ASSUME TypeOK, TypeOK', \A r \in Resources : Ages(repo[r], repo'[r])
  PROVE  /\ Numbered'
         /\ \A record : Owned(record) => Owned(record)'
<1>1. \A r \in Resources : repo[r] \in RepoState /\ repo'[r] \in RepoState
  BY DEF TypeOK, RepoState
<1>2. Numbered'
  BY DEF Numbered, Ages, InOrder
<1>3. ASSUME NEW record, Owned(record)
      PROVE  Owned(record)'
  <2>1. ASSUME NEW r \in Resources, NEW n \in 1 .. repo[r].made
        PROVE  n \in 1 .. repo'[r].made
    BY <1>1 DEF RepoState, Ages
  <2>2. QED
    BY <1>3, <2>1 DEF Owned
<1>4. QED
  BY <1>2, <1>3

\* Only what the plan lists has its turn.
LEMMA DoneIsPlanned ==
  ASSUME NEW p \in CleanerState, p.completed \subseteq PlannedBranches(p)
  PROVE  /\ WorktreesDone(p) \subseteq Registered(p)
         /\ BranchesDone(p) \subseteq Registered(p)
<1>1. /\ PlannedWorktrees(p) \subseteq Registered(p)
      /\ PlannedBranches(p) \subseteq Registered(p)
  BY DEF PlannedWorktrees, PlannedBranches, Selected
<1>2. WorktreesDone(p) \subseteq PlannedWorktrees(p)
  BY DEF WorktreesDone
<1>3. BranchesDone(p) \subseteq p.completed \cup PlannedBranches(p)
  BY DEF BranchesDone
<1>4. QED
  BY <1>1, <1>2, <1>3

\* What is gone stays gone: a replacement has a new number.
LEMMA GoneStays ==
  ASSUME TypeOK, TypeOK', NEW p \in CleanerState, Owned(p.plan),
         NEW r \in Registered(p), Ages(repo[r], repo'[r])
  PROVE  /\ WorktreeGone(p, r) \/ repo'[r].registration = 0 =>
              WorktreeGone(p, r)'
         /\ BranchGone(p, r) \/ repo'[r].branch = 0 => BranchGone(p, r)'
<1>1. r \in Resources /\ p.plan.owned[r] # Unregistered
  BY DEF Registered
<1>2. repo[r] \in RepoState /\ repo'[r] \in RepoState
  BY <1>1 DEF TypeOK, RepoState
<1>3. /\ p.plan.owned[r].worktree \in 1 .. repo[r].made
      /\ p.plan.owned[r].branch \in 1 .. repo[r].made
  BY <1>1 DEF Owned
<1>4. QED
  BY <1>2, <1>3 DEF Ages, RepoState, WorktreeGone, BranchGone

\* As long as no planned session appears, what is done stays done.
LEMMA DoneStays ==
  ASSUME TypeOK, TypeOK', NEW p \in CleanerState, p.pc # "idle" => Owned(p.plan),
         \A r \in Resources : Ages(repo[r], repo'[r]),
         p.pc \in Lasting =>
           p.plan.sessions \cap live' \subseteq p.plan.sessions \cap live,
         Done(p)
  PROVE  Done(p)'
<1> SUFFICES ASSUME p.pc \in Lasting
             PROVE  Done(p)'
  BY DEF Done
<1>1. p.completed \subseteq PlannedBranches(p) /\ (p.pc # "sessions" => p.ids = {})
  BY DEF Done
<1>2. Owned(p.plan)
  BY DEF Lasting, Removing, Branch
<1> SUFFICES ASSUME p.errors = {}
             PROVE  /\ PlannedSessions(p) \cap live' \subseteq p.ids
                    /\ \A r \in WorktreesDone(p) : WorktreeGone(p, r)'
                    /\ \A r \in BranchesDone(p) : BranchGone(p, r)'
  BY <1>1 DEF Done
<1>3. PlannedSessions(p) \cap live' \subseteq PlannedSessions(p) \cap live
  BY DEF PlannedSessions, Selected
<1>4. Registered(p) \subseteq Resources
  BY DEF Registered
<1>5. ASSUME NEW r \in WorktreesDone(p)
      PROVE  WorktreeGone(p, r)'
  BY <1>1, <1>2, <1>4, <1>5, DoneIsPlanned, GoneStays DEF Done
<1>6. ASSUME NEW r \in BranchesDone(p)
      PROVE  BranchGone(p, r)'
  BY <1>1, <1>2, <1>4, <1>6, DoneIsPlanned, GoneStays DEF Done
<1>7. QED
  BY <1>3, <1>5, <1>6 DEF Done

\* Without force the commits that were merged stay so, unless they are moved
\* back.
LEMMA MergedStays ==
  ASSUME TypeOK, TypeOK', NEW p \in CleanerState, Forward, Merged(p)
  PROVE  Merged(p)'
<1>1. \A r \in Resources : repo[r] \in RepoState /\ repo'[r] \in RepoState
  BY DEF TypeOK, RepoState
<1>2. p.tips \in [Resources -> 0 .. MaxTip]
  BY Fields
<1>3. ASSUME NEW r \in Resources \ rewound', p.tips[r] <= Limit(p, r)
      PROVE  p.tips[r] <= Limit(p, r)'
  <2>1. /\ p.tips[r] \in 0 .. MaxTip
        /\ repo[r].tip \in 1 .. MaxTip /\ repo[r].merged \in 1 .. MaxTip
        /\ repo'[r].tip \in 1 .. MaxTip /\ repo'[r].merged \in 1 .. MaxTip
    BY <1>1, <1>2 DEF RepoState
  <2>2. repo'[r].tip >= repo[r].tip /\ repo'[r].merged >= repo[r].merged
    BY DEF Forward
  <2>3. QED
    BY <1>3, <2>1, <2>2, CleanupBoundsAssumption DEF Limit
<1>4. \A r \in Resources \ rewound' : r \notin rewound
  BY DEF Forward
<1>5. QED
  BY <1>3, <1>4 DEF Merged

\* Others leave the care of every cleanup as it is.
LEMMA OthersCareful ==
  ASSUME IInv, Tracked, TypeOK', Others
  PROVE  Tracked'
<1>1. cleaner' = cleaner
  BY Zenon DEF Others, ToggleWorker, AddSession, CreateRun, Register, Update,
     UseBranch, Replace, Work
<1>2. Forward /\ \A r \in Resources : Ages(repo[r], repo'[r])
  BY OthersAge, OthersForward DEF Tracked, IInv
<1>3. /\ \/ run' = run
         \/ Updatable /\ run'.exists /\ run.sessions \subseteq run'.sessions
         \/ ~run.exists
      /\ \/ live' = live
         \/ Updatable /\ live' \cap run.sessions = live \cap run.sessions
  <2>1. run \in RunRecord
    BY DEF IInv, TypeOK
  <2>2. CASE ToggleWorker
    BY <2>1, <2>2 DEF ToggleWorker, Update, RunRecord, Updatable
  <2>3. CASE AddSession
    BY <2>1, <2>3 DEF AddSession, Update, RunRecord, Updatable
  <2>4. ASSUME NEW r \in Resources, Register(r)
        PROVE  Updatable /\ live' = live /\ run'.exists
               /\ run'.sessions = run.sessions
    BY <2>1, <2>4 DEF Register, Update, RunRecord, Updatable
  <2>5. CASE CreateRun \/ \E r \in Resources : UseBranch(r) \/ Replace(r)
    BY <2>5, Zenon DEF CreateRun, UseBranch, Replace, Work
  <2>6. QED
    BY <2>2, <2>3, <2>4, <2>5 DEF Others
<1>4. Owned(run)'
  <2>1. \/ run' = run \/ run'.owned = run.owned \/ run' = NewRun
        \/ \E r \in Resources : Register(r)
    BY Zenon DEF Others, ToggleWorker, AddSession, CreateRun, UseBranch, Replace,
       Update, Work, IInv, TypeOK, RunRecord
  <2>2. Owned(run) => (run' = run \/ run'.owned = run.owned => Owned(run'))
    BY DEF Owned
  <2>3. CASE run' = run \/ run'.owned = run.owned
    <3>1. \A record : Owned(record) => Owned(record)'
      BY <1>2, OwnedStays DEF IInv
    <3>2. PICK record : record = run /\ Owned(record)
      BY DEF Tracked
    <3>3. Owned(record)' /\ run'.owned = record.owned
      BY <2>3, <3>1, <3>2
    <3>4. QED
      BY <3>3 DEF Owned
  <2>4. CASE run' = NewRun
    BY <2>4 DEF Owned, NewRun
  <2>5. ASSUME NEW r \in Resources, Register(r)
        PROVE  Owned(run)'
    <3>1. /\ repo' = repo
          /\ run' = [run EXCEPT !.owned[r] = [worktree |-> repo[r].path,
                                              branch |-> repo[r].branch]]
          /\ repo[r].path # 0 /\ repo[r].branch # 0
      BY <2>5 DEF Register, Update
    <3>2. \A q \in Resources \ {r} : run'.owned[q] = run.owned[q]
      BY <3>1 DEF IInv, TypeOK, RunRecord
    <3>3. run'.owned[r] = [worktree |-> repo[r].path,
                           branch |-> repo[r].branch]
      BY <3>1 DEF IInv, TypeOK, RunRecord
    <3>4. repo[r].path \in 1 .. repo[r].made /\ repo[r].branch \in 1 .. repo[r].made
      BY <3>1 DEF IInv, TypeOK, Tracked, Numbered
    <3>5. QED
      BY <3>1, <3>2, <3>3, <3>4 DEF Tracked, Owned
  <2>6. QED
    BY <2>1, <2>3, <2>4, <2>5
<1>5. ASSUME NEW c \in Cleaners, NEW p \in CleanerState, p = cleaner[c]
      PROVE  Careful(p)'
  <2>1. Careful(p) /\ Sound(p)
    BY <1>5 DEF Tracked, IInv
  <2>2. p.pc # "idle" => Owned(p.plan)'
    BY <1>2, <2>1, OwnedStays DEF IInv, Careful
  <2>3. Merged(p)' /\ Blamed(p)' /\ Chosen(p)'
    BY <1>2, <2>1, MergedStays DEF IInv, Careful, Blamed, Blocks, Chosen
  <2>4. Recorded(p)'
    BY <1>3, <2>1 DEF Careful, Recorded
  <2>5. p.pc \in Lasting =>
          p.plan.sessions \cap live' \subseteq p.plan.sessions \cap live
    BY <1>3, <2>1 DEF Careful, Sound, Fenced, Recorded, Updatable, Lasting
  <2>6. Done(p)'
    BY <1>2, <2>1, <2>5, DoneStays DEF IInv, Careful
  <2>7. QED
    BY <2>2, <2>3, <2>4, <2>6 DEF Careful
<1>6. \A c \in Cleaners : Careful(cleaner[c])'
  <2> SUFFICES ASSUME NEW c \in Cleaners
               PROVE  Careful(cleaner[c])'
    OBVIOUS
  <2>1. PICK p \in CleanerState : p = cleaner[c]
    BY DEF IInv, TypeOK
  <2>2. cleaner'[c] = p
    BY <1>1, <2>1
  <2>3. Careful(p)'
    BY <1>5, <2>1
  <2>4. QED
    BY <2>2, <2>3
<1>7. QED
  BY <1>2, <1>4, <1>6, OwnedStays DEF Tracked, IInv

-----------------------------------------------------------------------------
(* A removal goes on with care.                                            *)

\* The plan of a removal, and what its preflight found, do not change.
Same(p, n) ==
  /\ n.plan = p.plan /\ n.base = p.base /\ n.force = p.force
  /\ n.selected = p.selected /\ n.tips = p.tips
  /\ n.blockedWorktrees = p.blockedWorktrees
  /\ n.blockedBranches = p.blockedBranches

\* A removal goes on from p to n: no error is forgotten, a branch that failed
\* is one, and the branches that were deleted were to go.
Continues(p, n) ==
  /\ Same(p, n) /\ p.errors \subseteq n.errors
  /\ n.failed \subseteq p.failed \cup n.errors
  /\ n.pc \in Removing /\ Chosen(n)
  /\ n.pc # "sessions" => n.ids = {}
  /\ n.completed \subseteq PlannedBranches(p)

\* What had its turn in that step, and met no error, is gone.
Earned(p, n) ==
  n.errors = {} =>
    /\ PlannedSessions(p) \cap live' \subseteq n.ids
    /\ \A r \in WorktreesDone(n) \ WorktreesDone(p) : repo'[r].registration = 0
    /\ \A r \in BranchesDone(n) \ BranchesDone(p) : repo'[r].branch = 0

\* The same plan.
LEMMA SamePlan ==
  ASSUME NEW p, NEW n, Same(p, n)
  PROVE  /\ PlannedSessions(n) = PlannedSessions(p)
         /\ PlannedWorktrees(n) = PlannedWorktrees(p)
         /\ PlannedBranches(n) = PlannedBranches(p)
         /\ Registered(n) = Registered(p)
         /\ \A r : WithBranch(p, r) <=> WithBranch(n, r)
BY DEF Same, PlannedSessions, PlannedWorktrees, PlannedBranches, Registered,
   Selected, WithBranch

\* Going on with care keeps the invariant.
LEMMA ContinuesCareful ==
  ASSUME TypeOK, TypeOK', NEW p \in CleanerState, NEW n \in CleanerState,
         Careful(p), p.pc \in Removing, run' = run, Forward,
         \A r \in Resources : Ages(repo[r], repo'[r]),
         Continues(p, n), Earned(p, n)
  PROVE  Careful(n)'
<1>1. Same(p, n) /\ n.pc \in Removing
  BY DEF Continues
<1>2. /\ p.pc # "idle" /\ p.pc \in Lasting /\ p.pc # "delete"
      /\ n.pc \in Lasting /\ n.pc \notin Looking /\ n.pc # "delete"
      /\ p.pc \notin Checking /\ n.pc \notin Checking
  BY <1>1 DEF Lasting, Looking, Removing, Branch, Checking
<1>3. Owned(p.plan) /\ Owned(n.plan)
  BY <1>1, <1>2 DEF Careful, Same
<1>4. Owned(n.plan)'
  BY <1>3, OwnedStays
<1>5. Blamed(n)'
  BY <1>1, <1>2 DEF Careful, Blamed, Blocks, Continues, Same
<1>6. Merged(n)'
  <2>1. Merged(n)
    BY <1>1, <1>2 DEF Careful, Merged, Limit, Same
  <2>2. QED
    BY <2>1, MergedStays
<1>7. Chosen(n)'
  BY DEF Continues, Chosen
<1>8. Recorded(n)'
  BY <1>1, <1>2 DEF Careful, Recorded, Same
<1>9. Done(n)'
  <2>1. (n.pc # "sessions" => n.ids = {}) /\ n.completed \subseteq PlannedBranches(n)
    BY <1>1, SamePlan DEF Continues
  <2> SUFFICES ASSUME n.errors = {}
               PROVE  /\ PlannedSessions(n) \cap live' \subseteq n.ids
                      /\ \A r \in WorktreesDone(n) : WorktreeGone(n, r)'
                      /\ \A r \in BranchesDone(n) : BranchGone(n, r)'
    BY <2>1 DEF Done
  <2>2. p.errors = {} /\ Done(p)
    BY DEF Continues, Careful
  <2>3. /\ \A r \in WorktreesDone(p) : WorktreeGone(n, r)
        /\ \A r \in BranchesDone(p) : BranchGone(n, r)
    BY <1>1, <1>2, <2>2 DEF Done, WorktreeGone, BranchGone, Same
  <2>4. Registered(n) \subseteq Resources
    BY DEF Registered
  <2>5. ASSUME NEW r \in WorktreesDone(n)
        PROVE  WorktreeGone(n, r)'
    BY <1>3, <2>1, <2>3, <2>4, <2>5, DoneIsPlanned, GoneStays DEF Earned
  <2>6. ASSUME NEW r \in BranchesDone(n)
        PROVE  BranchGone(n, r)'
    BY <1>3, <2>1, <2>3, <2>4, <2>6, DoneIsPlanned, GoneStays DEF Earned
  <2>7. PlannedSessions(n) \cap live' \subseteq n.ids
    BY <1>1, SamePlan DEF Earned
  <2>8. QED
    BY <2>5, <2>6, <2>7
<1>10. QED
  BY <1>4, <1>5, <1>6, <1>7, <1>8, <1>9 DEF Careful

\* The fields of a removal that goes back.
LEMMA BackFields ==
  ASSUME NEW p \in CleanerState, NEW k \in {"worktrees", "branches"}
  PROVE  /\ Same(p, Back(p, k)) /\ Same(p, Back(Failing(p), k))
         /\ Same(p, Back(BranchFailing(p), k))
         /\ \A n \in {Back(p, k), Back(Failing(p), k), Back(BranchFailing(p), k)} :
              /\ n.pc = k /\ n.target = {} /\ n.held = FALSE
              /\ n.ids = p.ids /\ n.todo = p.todo /\ n.completed = p.completed
         /\ Back(p, k).errors = p.errors /\ Back(p, k).failed = p.failed
         /\ Back(Failing(p), k).errors = p.errors \cup p.target
         /\ Back(Failing(p), k).failed = p.failed
         /\ Back(BranchFailing(p), k).errors = p.errors \cup p.target
         /\ Back(BranchFailing(p), k).failed = p.failed \cup p.target
<1>1. \A q \in CleanerState :
        /\ Same(q, Back(q, k)) /\ Back(q, k).pc = k /\ Back(q, k).target = {}
        /\ Back(q, k).held = FALSE /\ Back(q, k).ids = q.ids
        /\ Back(q, k).todo = q.todo /\ Back(q, k).completed = q.completed
        /\ Back(q, k).errors = q.errors /\ Back(q, k).failed = q.failed
  BY DEF Back, CleanerState, Same
<1>2. /\ Same(p, Failing(p)) /\ Failing(p).ids = p.ids
      /\ Failing(p).todo = p.todo /\ Failing(p).completed = p.completed
      /\ Failing(p).errors = p.errors \cup p.target /\ Failing(p).failed = p.failed
  BY DEF Failing, CleanerState, Same
<1>3. Failing(p) \in CleanerState /\ BranchFailing(p) \in CleanerState
  BY MovesTyped DEF Stages, Removing
<1>4. \A q \in CleanerState :
        LET f == [q EXCEPT !.failed = @ \cup p.target] IN
        /\ Same(q, f) /\ f.ids = q.ids /\ f.todo = q.todo
        /\ f.completed = q.completed /\ f.errors = q.errors
        /\ f.failed = q.failed \cup p.target
  BY DEF CleanerState, Same
<1> DEFINE b == BranchFailing(p)
           f == Failing(p)
<1>5. /\ Same(f, b) /\ b.ids = p.ids /\ b.todo = p.todo
      /\ b.completed = p.completed /\ b.errors = p.errors \cup p.target
      /\ b.failed = p.failed \cup p.target
  BY <1>2, <1>3, <1>4 DEF BranchFailing
<1>6. b \in CleanerState /\ f \in CleanerState
  BY <1>3
<1>7. Same(p, f) /\ f.ids = p.ids /\ f.todo = p.todo /\ f.completed = p.completed
      /\ f.errors = p.errors \cup p.target /\ f.failed = p.failed
  BY <1>2
<1> HIDE DEF b, f
<1>8. Same(p, Back(f, k)) /\ Same(p, Back(b, k))
  BY <1>1, <1>5, <1>6, <1>7 DEF Same
<1>9. \A n \in {Back(p, k), Back(f, k), Back(b, k)} :
        /\ n.pc = k /\ n.target = {} /\ n.held = FALSE
        /\ n.ids = p.ids /\ n.todo = p.todo /\ n.completed = p.completed
  BY <1>1, <1>5, <1>6, <1>7
<1>10. /\ Back(p, k).errors = p.errors /\ Back(p, k).failed = p.failed
       /\ Back(f, k).errors = p.errors \cup p.target /\ Back(f, k).failed = p.failed
       /\ Back(b, k).errors = p.errors \cup p.target
       /\ Back(b, k).failed = p.failed \cup p.target
  BY <1>1, <1>5, <1>6, <1>7
<1>11. QED
  BY <1>1, <1>8, <1>9, <1>10 DEF b, f

\* What a removal may rely on.
LEMMA AtHand ==
  ASSUME IInv, Tracked, NEW c \in Cleaners, RemovalStep(c)
  PROVE  LET p == cleaner[c] IN
         /\ p \in CleanerState /\ p.pc \in Removing /\ Chosen(p)
         /\ cleaner'[c] = p \/ \A n : Becomes(c, n) => cleaner'[c] = n
         /\ p.held => p.pc \in Branch
         /\ p.pc = "commit" => p.held
         /\ p.pc \in Aiming => \E r \in Resources : p.target = {r}
         /\ p.pc # "sessions" => p.ids = {}
         /\ p.completed \subseteq PlannedBranches(p)
         /\ p.blockedWorktrees \subseteq p.errors
         /\ p.blockedBranches \subseteq p.errors
         /\ p.failed \subseteq p.errors
         /\ p.errors = {} => PlannedSessions(p) \cap live \subseteq p.ids
<1>1. PICK p \in CleanerState : p = cleaner[c]
  BY DEF IInv, TypeOK
<1>2. p.pc \in Removing
  BY <1>1, RemovalGoes
<1>3. Careful(p) /\ Sound(p)
  BY <1>1 DEF IInv, Tracked
<1>4. p.pc \in Lasting
  BY <1>2 DEF Lasting
<1>5. p.held => p.pc \in Branch
  BY <1>1 DEF IInv, TypeOK
<1>6. \A n : Becomes(c, n) => cleaner'[c] = n
  BY DEF Becomes, IInv, TypeOK
<1>7. QED
  BY <1>1, <1>2, <1>3, <1>4, <1>5, <1>6 DEF Careful, Sound, Done, Blamed, Blocks, Aimed,
     HeldAtTip

\* Deleting a session, and going to the next kind of resource.
LEMMA SessionsEarn ==
  ASSUME IInv, Tracked, NEW c \in Cleaners, DeleteSession(c) \/ NextKind(c)
  PROVE  Continues(cleaner[c], cleaner'[c]) /\ Earned(cleaner[c], cleaner'[c])
<1>1. RemovalStep(c)
  BY DEF RemovalStep
<1>2. PICK p \in CleanerState : p = cleaner[c]
  BY DEF IInv, TypeOK
<1>3. /\ p.pc \in Removing /\ Chosen(p) /\ (p.held => p.pc \in Branch)
      /\ p.pc # "sessions" => p.ids = {}
      /\ p.completed \subseteq PlannedBranches(p)
      /\ p.errors = {} => PlannedSessions(p) \cap live \subseteq p.ids
  BY <1>1, <1>2, AtHand
<1>4. \A n : Becomes(c, n) => cleaner'[c] = n
  BY DEF Becomes, IInv, TypeOK
<1>5. CASE DeleteSession(c)
  <2> DEFINE n(x) == [p EXCEPT !.ids = @ \ {x}]
             m(x) == [p EXCEPT !.ids = @ \ {x}, !.errors = @ \cup {x}]
  <2>1. p.pc = "sessions" /\ ~p.held
    BY <1>2, <1>3, <1>5, Zenon DEF DeleteSession, Branch
  <2>2. \E x \in p.ids : \/ Becomes(c, n(x)) /\ live' = live \ {x}
                         \/ Becomes(c, m(x))
    BY <1>2, <1>5, Zenon DEF DeleteSession
  <2>3. ASSUME NEW x \in p.ids
        PROVE  /\ n(x).pc = "sessions" /\ m(x).pc = "sessions"
               /\ n(x).held = FALSE /\ m(x).held = FALSE
               /\ n(x).completed = p.completed /\ m(x).completed = p.completed
               /\ Same(p, n(x)) /\ Same(p, m(x)) /\ n(x).ids = p.ids \ {x}
               /\ n(x).errors = p.errors /\ m(x).errors = p.errors \cup {x}
               /\ n(x).failed = p.failed /\ m(x).failed = p.failed
    BY <2>1 DEF CleanerState, Same
  <2> HIDE DEF n, m
  <2>4. ASSUME NEW x \in p.ids, NEW o \in {n(x), m(x)}
        PROVE  Continues(p, o)
    BY <1>3, <2>3, <2>4 DEF Continues, Chosen, Removing
  <2>5. ASSUME NEW x \in p.ids, live' = live \ {x}
        PROVE  Earned(p, n(x))
    <3>1. WorktreesDone(n(x)) = {} /\ BranchesDone(n(x)) = p.completed
      BY <2>3 DEF WorktreesDone, BranchesDone
    <3>2. BranchesDone(p) = p.completed
      BY <2>1 DEF BranchesDone
    <3>3. QED
      BY <1>3, <2>3, <2>5, <3>1, <3>2 DEF Earned
  <2>6. ASSUME NEW x \in p.ids
        PROVE  Earned(p, m(x))
    BY <2>3 DEF Earned
  <2>7. QED
    BY <1>2, <1>4, <2>2, <2>4, <2>5, <2>6
<1>6. CASE NextKind(c)
  <2> DEFINE n(k, t) == [p EXCEPT !.pc = k, !.todo = t]
             m == [p EXCEPT !.pc = "finish"]
  <2>1. /\ p.pc \in {"sessions", "worktrees", "branches"} /\ p.ids = {}
        /\ p.todo = {} /\ ~p.held /\ live' = live /\ repo' = repo
    BY <1>2, <1>3, <1>6 DEF NextKind, Branch
  <2>2. \/ p.pc = "sessions" /\ Becomes(c, n("worktrees", PlannedWorktrees(p)))
        \/ p.pc = "worktrees" /\ Becomes(c, n("branches", PlannedBranches(p)))
        \/ p.pc = "branches" /\ Becomes(c, m)
    BY <1>2, <1>6 DEF NextKind
  <2>3. ASSUME NEW k \in {"worktrees", "branches"}, NEW t
        PROVE  /\ n(k, t).pc = k /\ n(k, t).held = FALSE /\ n(k, t).todo = t
               /\ n(k, t).completed = p.completed /\ Same(p, n(k, t))
               /\ n(k, t).ids = p.ids /\ n(k, t).errors = p.errors
               /\ n(k, t).failed = p.failed
    BY <2>1 DEF CleanerState, Same
  <2>4. /\ m.pc = "finish" /\ m.held = FALSE /\ m.completed = p.completed
        /\ Same(p, m) /\ m.ids = p.ids /\ m.errors = p.errors
        /\ m.failed = p.failed
    BY <2>1 DEF CleanerState, Same
  <2> HIDE DEF n, m
  <2>5. Continues(p, m)
    BY <1>3, <2>1, <2>4 DEF Continues, Chosen, Removing
  <2>6. CASE p.pc = "sessions"
    <3> DEFINE o == n("worktrees", PlannedWorktrees(p))
    <3>1. /\ o.pc = "worktrees" /\ Same(p, o) /\ o.ids = p.ids
          /\ o.todo = PlannedWorktrees(p) /\ o.held = FALSE
          /\ o.errors = p.errors /\ o.completed = p.completed
          /\ o.failed = p.failed
      BY <2>3
    <3> HIDE DEF o
    <3>2. WorktreesDone(o) = {} /\ BranchesDone(o) = p.completed
      BY <3>1, SamePlan DEF WorktreesDone, BranchesDone
    <3>3. BranchesDone(p) = p.completed
      BY <2>6 DEF BranchesDone
    <3>4. Earned(p, o)
      BY <1>3, <2>1, <3>2, <3>3, <3>1 DEF Earned
    <3>5. Continues(p, o)
      BY <1>3, <2>1, <3>1 DEF Continues, Chosen, Removing
    <3>6. QED
      BY <1>2, <1>4, <2>2, <2>6, <3>4, <3>5 DEF o
  <2>7. CASE p.pc = "worktrees"
    <3> DEFINE o == n("branches", PlannedBranches(p))
    <3>1. /\ o.pc = "branches" /\ Same(p, o) /\ o.ids = p.ids
          /\ o.todo = PlannedBranches(p) /\ o.held = FALSE
          /\ o.errors = p.errors /\ o.completed = p.completed
          /\ o.failed = p.failed
      BY <2>3
    <3> HIDE DEF o
    <3>2. WorktreesDone(o) = PlannedWorktrees(p) /\ BranchesDone(o) = p.completed
      BY <3>1, SamePlan DEF WorktreesDone, BranchesDone
    <3>3. WorktreesDone(p) = PlannedWorktrees(p) /\ BranchesDone(p) = p.completed
      BY <2>1, <2>7 DEF WorktreesDone, BranchesDone
    <3>4. Earned(p, o)
      BY <1>3, <2>1, <3>2, <3>3, <3>1 DEF Earned
    <3>5. Continues(p, o)
      BY <1>3, <2>1, <3>1 DEF Continues, Chosen, Removing
    <3>6. QED
      BY <1>2, <1>4, <2>2, <2>7, <3>4, <3>5 DEF o
  <2>8. CASE p.pc = "branches"
    <3>1. /\ WorktreesDone(m) = PlannedWorktrees(p)
          /\ BranchesDone(m) = p.completed \cup PlannedBranches(p)
      BY <2>4, SamePlan DEF WorktreesDone, BranchesDone
    <3>2. /\ WorktreesDone(p) = PlannedWorktrees(p)
          /\ BranchesDone(p) = p.completed \cup PlannedBranches(p)
      BY <2>1, <2>8 DEF WorktreesDone, BranchesDone
    <3>3. Earned(p, m)
      BY <1>3, <2>1, <2>4, <3>1, <3>2 DEF Earned
    <3>4. QED
      BY <1>2, <1>4, <2>2, <2>5, <2>8, <3>3
  <2>9. QED
    BY <2>1, <2>6, <2>7, <2>8
<1>7. QED
  BY <1>5, <1>6

\* Looking at a worktree.
LEMMA WorktreesEarn ==
  ASSUME IInv, Tracked, NEW c \in Cleaners, CheckWorktree(c)
  PROVE  Continues(cleaner[c], cleaner'[c]) /\ Earned(cleaner[c], cleaner'[c])
<1>1. RemovalStep(c)
  BY DEF RemovalStep
<1>2. PICK p \in CleanerState : p = cleaner[c]
  BY DEF IInv, TypeOK
<1>3. /\ p.pc \in Removing /\ Chosen(p) /\ (p.held => p.pc \in Branch)
      /\ p.pc # "sessions" => p.ids = {}
      /\ p.completed \subseteq PlannedBranches(p)
      /\ p.blockedWorktrees \subseteq p.errors
      /\ p.errors = {} => PlannedSessions(p) \cap live \subseteq p.ids
  BY <1>1, <1>2, AtHand
<1>4. \A n : Becomes(c, n) => cleaner'[c] = n
  BY DEF Becomes, IInv, TypeOK
<1>5. /\ p.pc = "worktrees" /\ p.ids = {} /\ ~p.held /\ repo' = repo
      /\ live' = live
  BY <1>2, <1>3 DEF CheckWorktree, Branch
<1> DEFINE q(r) == [p EXCEPT !.todo = @ \ {r}]
           bad(r) == [q(r) EXCEPT !.errors = @ \cup {r}]
           chosen(r) == [q(r) EXCEPT !.target = {r}]
           lost(r) == [bad(r) EXCEPT !.failed = @ \cup {r}]
           prepare(r) == [chosen(r) EXCEPT !.pc = "prepare"]
           remove(r) == [chosen(r) EXCEPT !.pc = "remove"]
<1>6. PICK r \in p.todo :
        \/ r \in p.blockedWorktrees /\ Becomes(c, q(r))
        \/ Becomes(c, bad(r)) \/ Becomes(c, lost(r))
        \/ WithBranch(p, r) /\ Becomes(c, prepare(r))
        \/ Becomes(c, remove(r))
        \/ repo[r].registration = 0 /\ Becomes(c, q(r))
  <2>1. PICK r \in p.todo :
          \/ r \in p.blockedWorktrees /\ Becomes(c, q(r))
          \/ Becomes(c, bad(r)) \/ Becomes(c, lost(r))
          \/ Becomes(c, [chosen(r) EXCEPT !.pc = IF WithBranch(p, r)
                                                 THEN "prepare" ELSE "remove"])
          \/ Becomes(c, IF repo[r].registration # 0 THEN bad(r) ELSE q(r))
    BY <1>2, Zenon DEF CheckWorktree
  <2> HIDE DEF q, bad, chosen, lost
  <2>2. QED
    BY <2>1
<1>7. q(r) \in CleanerState
  <2>1. p.todo \ {r} \in SUBSET Resources
    BY Fields
  <2>2. QED
    BY <2>1 DEF CleanerState
<1>8. /\ q(r).pc = "worktrees" /\ q(r).held = FALSE /\ q(r).ids = {}
      /\ q(r).todo = p.todo \ {r} /\ q(r).completed = p.completed /\ Same(p, q(r))
      /\ q(r).errors = p.errors /\ q(r).failed = p.failed
  BY <1>5 DEF CleanerState, Same
<1> HIDE DEF q
<1>9. /\ bad(r).pc = "worktrees" /\ bad(r).held = FALSE /\ bad(r).ids = {}
      /\ bad(r).todo = p.todo \ {r} /\ bad(r).completed = p.completed
      /\ Same(p, bad(r)) /\ bad(r).errors = p.errors \cup {r}
      /\ bad(r).failed = p.failed
  BY <1>7, <1>8 DEF CleanerState, Same
<1>10. bad(r) \in CleanerState
  <2>1. q(r).errors \cup {r} \in SUBSET (Resources \cup Sessions)
    BY <1>6, <1>7, Fields
  <2>2. QED
    BY <1>7, <2>1 DEF CleanerState
<1>11. /\ chosen(r) \in CleanerState /\ chosen(r).held = FALSE
       /\ chosen(r).ids = {} /\ chosen(r).todo = p.todo \ {r}
       /\ chosen(r).completed = p.completed /\ Same(p, chosen(r))
       /\ chosen(r).errors = p.errors /\ chosen(r).failed = p.failed
       /\ chosen(r).target = {r}
  <2>1. {r} \in SUBSET Resources
    BY Fields
  <2>2. QED
    BY <1>7, <1>8, <2>1 DEF CleanerState, Same
<1> HIDE DEF bad, chosen
<1>12. /\ lost(r).pc = "worktrees" /\ lost(r).held = FALSE /\ lost(r).ids = {}
       /\ lost(r).todo = p.todo \ {r} /\ lost(r).completed = p.completed
       /\ Same(p, lost(r)) /\ lost(r).errors = p.errors \cup {r}
       /\ lost(r).failed = p.failed \cup {r}
  BY <1>9, <1>10 DEF CleanerState, Same
<1>13. \A n \in {prepare(r), remove(r)} :
         /\ n.held = FALSE /\ n.ids = {} /\ n.todo = p.todo \ {r}
         /\ n.completed = p.completed /\ Same(p, n) /\ n.errors = p.errors
         /\ n.failed = p.failed /\ n.target = {r}
  BY <1>11 DEF CleanerState, Same
<1>14. prepare(r).pc = "prepare" /\ remove(r).pc = "remove"
  BY <1>11 DEF CleanerState
<1> HIDE DEF lost, prepare, remove
<1>15. WorktreesDone(p) = PlannedWorktrees(p) \ p.todo
       /\ BranchesDone(p) = p.completed
  BY <1>5 DEF WorktreesDone, BranchesDone
<1>16. Continues(p, q(r)) /\ Continues(p, bad(r)) /\ Continues(p, lost(r))
  BY <1>3, <1>5, <1>8, <1>9, <1>12 DEF Continues, Chosen, Removing
<1>17. Earned(p, bad(r)) /\ Earned(p, lost(r))
  BY <1>9, <1>12 DEF Earned
<1>18. ASSUME r \in p.blockedWorktrees \/ repo[r].registration = 0
       PROVE  Earned(p, q(r))
  <2>1. /\ WorktreesDone(q(r)) = PlannedWorktrees(p) \ (p.todo \ {r})
        /\ BranchesDone(q(r)) = p.completed
    BY <1>8, SamePlan DEF WorktreesDone, BranchesDone
  <2>2. QED
    BY <1>3, <1>5, <1>8, <1>15, <1>18, <2>1 DEF Earned
<1>19. ASSUME NEW n \in {prepare(r), remove(r)}
       PROVE  Earned(p, n)
  <2>1. /\ WorktreesDone(n) = PlannedWorktrees(p) \ ((p.todo \ {r}) \cup {r})
        /\ BranchesDone(n) = p.completed
    BY <1>13, <1>14, <1>19, SamePlan DEF WorktreesDone, BranchesDone
  <2>2. QED
    BY <1>3, <1>5, <1>13, <1>15, <1>19, <2>1 DEF Earned
<1>20. WithBranch(p, r) => Continues(p, prepare(r))
  BY <1>3, <1>13, <1>14, SamePlan DEF Continues, Chosen, Removing
<1>21. Continues(p, remove(r))
  BY <1>3, <1>13, <1>14 DEF Continues, Chosen, Removing, Branch
<1>22. QED
  BY <1>2, <1>4, <1>6, <1>16, <1>17, <1>18, <1>19, <1>20, <1>21

\* Looking at a branch, and deleting its ref.
LEMMA BranchesEarn ==
  ASSUME IInv, Tracked, NEW c \in Cleaners, CheckBranch(c) \/ Unref(c)
  PROVE  Continues(cleaner[c], cleaner'[c]) /\ Earned(cleaner[c], cleaner'[c])
<1>1. RemovalStep(c)
  BY DEF RemovalStep
<1>2. PICK p \in CleanerState : p = cleaner[c]
  BY DEF IInv, TypeOK
<1>3. /\ p.pc \in Removing /\ Chosen(p) /\ (p.held => p.pc \in Branch)
      /\ p.pc \in Aiming => \E r \in Resources : p.target = {r}
      /\ p.pc # "sessions" => p.ids = {}
      /\ p.completed \subseteq PlannedBranches(p)
      /\ p.blockedBranches \subseteq p.errors /\ p.failed \subseteq p.errors
      /\ p.errors = {} => PlannedSessions(p) \cap live \subseteq p.ids
  BY <1>1, <1>2, AtHand
<1>4. \A n : Becomes(c, n) => cleaner'[c] = n
  BY DEF Becomes, IInv, TypeOK
<1>5. CASE CheckBranch(c)
  <2>1. /\ p.pc = "branches" /\ p.ids = {} /\ ~p.held /\ repo' = repo
        /\ live' = live
    BY <1>2, <1>3, <1>5, Zenon DEF CheckBranch, Branch
  <2> DEFINE q(r) == [p EXCEPT !.todo = @ \ {r}]
             bad(r) == [q(r) EXCEPT !.errors = @ \cup {r}]
             unref(r) == [q(r) EXCEPT !.pc = "unref", !.target = {r}]
             done(r) == \/ r \in p.completed \cup p.failed \cup p.blockedBranches
                        \/ repo[r].branch = 0
  <2>2. PICK r \in p.todo :
          \/ done(r) /\ Becomes(c, q(r))
          \/ Becomes(c, bad(r))
          \/ ~done(r) /\ Becomes(c, unref(r))
    <3>1. PICK r \in p.todo :
            \/ done(r) /\ Becomes(c, q(r))
            \/ ~done(r) /\ Becomes(c, IF BranchOwned(p, r)
                                         /\ repo[r].tip = p.tips[r]
                                      THEN unref(r) ELSE bad(r))
      BY <1>2, <1>5, Zenon DEF CheckBranch
    <3> HIDE DEF q, bad, unref, done
    <3>2. QED
      BY <3>1
  <2>3. q(r) \in CleanerState
    <3>1. p.todo \ {r} \in SUBSET Resources
      BY Fields
    <3>2. QED
      BY <3>1 DEF CleanerState
  <2>4. /\ q(r).pc = "branches" /\ q(r).held = FALSE /\ q(r).ids = {}
        /\ q(r).todo = p.todo \ {r} /\ q(r).completed = p.completed
        /\ Same(p, q(r)) /\ q(r).errors = p.errors /\ q(r).failed = p.failed
    BY <2>1 DEF CleanerState, Same
  <2> HIDE DEF q
  <2>5. /\ bad(r).pc = "branches" /\ bad(r).held = FALSE /\ bad(r).ids = {}
        /\ bad(r).completed = p.completed /\ Same(p, bad(r))
        /\ bad(r).errors = p.errors \cup {r} /\ bad(r).failed = p.failed
    BY <2>3, <2>4 DEF CleanerState, Same
  <2>6. /\ unref(r).pc = "unref" /\ unref(r).held = FALSE /\ unref(r).ids = {}
        /\ unref(r).todo = p.todo \ {r} /\ unref(r).completed = p.completed
        /\ Same(p, unref(r)) /\ unref(r).errors = p.errors
        /\ unref(r).failed = p.failed /\ unref(r).target = {r}
    BY <2>3, <2>4 DEF CleanerState, Same
  <2> HIDE DEF bad, unref
  <2>7. /\ WorktreesDone(p) = PlannedWorktrees(p)
        /\ BranchesDone(p) = p.completed \cup (PlannedBranches(p) \ p.todo)
    BY <2>1 DEF WorktreesDone, BranchesDone
  <2>8. ASSUME done(r)
        PROVE  Continues(p, q(r)) /\ Earned(p, q(r))
    <3>1. Continues(p, q(r))
      BY <1>3, <2>1, <2>4 DEF Continues, Chosen, Removing
    <3>2. /\ WorktreesDone(q(r)) = PlannedWorktrees(p)
          /\ BranchesDone(q(r)) =
               p.completed \cup (PlannedBranches(p) \ (p.todo \ {r}))
      BY <2>4, SamePlan DEF WorktreesDone, BranchesDone
    <3>3. Earned(p, q(r))
      BY <1>3, <2>1, <2>4, <2>7, <2>8, <3>2 DEF Earned
    <3>4. QED
      BY <3>1, <3>3
  <2>9. Continues(p, bad(r)) /\ Earned(p, bad(r))
    BY <1>3, <2>1, <2>5 DEF Continues, Chosen, Removing, Earned
  <2>10. ASSUME ~done(r)
         PROVE  Continues(p, unref(r)) /\ Earned(p, unref(r))
    <3>1. Chosen(unref(r))
      BY <2>6, <2>10 DEF Chosen, Same
    <3>2. Continues(p, unref(r))
      BY <1>3, <2>1, <2>6, <3>1 DEF Continues, Removing
    <3>3. /\ WorktreesDone(unref(r)) = PlannedWorktrees(p)
          /\ BranchesDone(unref(r)) =
               p.completed \cup (PlannedBranches(p) \ ((p.todo \ {r}) \cup {r}))
      BY <2>6, SamePlan DEF WorktreesDone, BranchesDone
    <3>4. Earned(p, unref(r))
      BY <1>3, <2>1, <2>6, <2>7, <3>3 DEF Earned
    <3>5. QED
      BY <3>2, <3>4
  <2> HIDE DEF done
  <2>11. QED
    BY <1>2, <1>4, <2>2, <2>8, <2>9, <2>10, SMTT(30)
<1>6. CASE Unref(c)
  <2>1. p.pc = "unref" /\ p.ids = {} /\ ~p.held /\ live' = live
    BY <1>2, <1>3, <1>6 DEF Unref, Branch
  <2>2. PICK r \in Resources : p.target = {r}
    BY <1>3, <2>1 DEF Aiming, Checking
  <2> DEFINE n == Back(p, "branches")
             m == Back(Failing(p), "branches")
  <2>3. \/ repo' = [repo EXCEPT ![r].branch = 0] /\ Becomes(c, n)
        \/ Becomes(c, m)
    BY <1>2, <1>6, <2>2 DEF Unref
  <2>4. /\ Same(p, n) /\ n.pc = "branches" /\ n.held = FALSE /\ n.ids = {}
        /\ n.todo = p.todo /\ n.completed = p.completed
        /\ n.errors = p.errors /\ n.failed = p.failed
    BY <2>1, BackFields
  <2>5. /\ Same(p, m) /\ m.pc = "branches" /\ m.held = FALSE /\ m.ids = {}
        /\ m.completed = p.completed
        /\ m.errors = p.errors \cup {r} /\ m.failed = p.failed
    BY <2>1, <2>2, BackFields
  <2> HIDE DEF n, m
  <2>6. Continues(p, n) /\ Continues(p, m)
    BY <1>3, <2>4, <2>5 DEF Continues, Chosen, Removing
  <2>7. Earned(p, m)
    BY <2>5 DEF Earned
  <2>8. ASSUME repo' = [repo EXCEPT ![r].branch = 0]
        PROVE  Earned(p, n)
    <3>1. repo'[r].branch = 0
      BY <2>8 DEF IInv, TypeOK
    <3>2. /\ WorktreesDone(n) = PlannedWorktrees(p)
          /\ BranchesDone(n) = p.completed \cup (PlannedBranches(p) \ p.todo)
      BY <2>4, SamePlan DEF WorktreesDone, BranchesDone
    <3>3. /\ WorktreesDone(p) = PlannedWorktrees(p)
          /\ BranchesDone(p) =
               p.completed \cup (PlannedBranches(p) \ (p.todo \cup {r}))
      BY <2>1, <2>2 DEF WorktreesDone, BranchesDone
    <3>4. QED
      BY <1>3, <2>1, <2>4, <3>1, <3>2, <3>3 DEF Earned
  <2>9. QED
    BY <1>2, <1>4, <2>3, <2>6, <2>7, <2>8
<1>7. QED
  BY <1>5, <1>6

\* Removing a worktree and its branch.
LEMMA RemovalsEarn ==
  ASSUME IInv, Tracked, NEW c \in Cleaners,
         Prepare(c) \/ Verify(c) \/ Remove(c) \/ Commit(c)
  PROVE  Continues(cleaner[c], cleaner'[c]) /\ Earned(cleaner[c], cleaner'[c])
<1>1. RemovalStep(c)
  BY DEF RemovalStep
<1>2. PICK p \in CleanerState : p = cleaner[c]
  BY DEF IInv, TypeOK
<1>3. /\ p.pc \in {"prepare", "verify", "remove", "commit"}
      /\ Chosen(p) /\ p.ids = {} /\ live' = live
      /\ (p.held => p.pc \in Branch) /\ (p.pc = "commit" => p.held)
      /\ p.completed \subseteq PlannedBranches(p)
      /\ p.errors = {} => PlannedSessions(p) \cap live \subseteq p.ids
      /\ \E r \in Resources : p.target = {r}
  <2>1. p.pc \in {"prepare", "verify", "remove", "commit"} /\ live' = live
    BY <1>2, Zenon DEF Prepare, Verify, Remove, Commit
  <2>2. p.pc \in Aiming /\ p.pc # "sessions"
    BY <2>1 DEF Aiming, Checking, Branch
  <2>3. QED
    BY <1>1, <1>2, <2>1, <2>2, AtHand
<1>4. \A n : Becomes(c, n) => cleaner'[c] = n
  BY DEF Becomes, IInv, TypeOK
<1>5. PICK r \in Resources : p.target = {r}
  BY <1>3
<1>6. BranchesDone(p) = p.completed
  BY <1>3 DEF BranchesDone
<1>7. WorktreesDone(p) =
        PlannedWorktrees(p) \ (p.todo \cup (IF p.pc = "commit" THEN {} ELSE {r}))
  BY <1>3, <1>5 DEF WorktreesDone
<1> DEFINE b == Back(p, "worktrees")
           f == Back(Failing(p), "worktrees")
           l == Back(BranchFailing(p), "worktrees")
<1>8. /\ Same(p, b) /\ b.pc = "worktrees" /\ b.held = FALSE /\ b.ids = {}
      /\ b.todo = p.todo /\ b.completed = p.completed
      /\ b.errors = p.errors /\ b.failed = p.failed /\ b \in CleanerState
  BY <1>3, BackFields, MovesTyped DEF Stages, Removing
<1>9. /\ Same(p, f) /\ f.pc = "worktrees" /\ f.held = FALSE /\ f.ids = {}
      /\ f.completed = p.completed
      /\ f.errors = p.errors \cup {r} /\ f.failed = p.failed
  <2>1. /\ Same(p, f) /\ f.pc = "worktrees" /\ f.held = FALSE
        /\ f.ids = p.ids /\ f.completed = p.completed
        /\ f.errors = p.errors \cup p.target
        /\ f.failed = p.failed
    BY BackFields
  <2> HIDE DEF f
  <2>2. QED
    BY <1>3, <1>5, <2>1
<1>10. /\ Same(p, l) /\ l.pc = "worktrees" /\ l.held = FALSE /\ l.ids = {}
       /\ l.completed = p.completed
       /\ l.errors = p.errors \cup {r} /\ l.failed = p.failed \cup {r}
  <2>1. /\ Same(p, l) /\ l.pc = "worktrees" /\ l.held = FALSE
        /\ l.ids = p.ids /\ l.completed = p.completed
        /\ l.errors = p.errors \cup p.target
        /\ l.failed = p.failed \cup p.target
    BY BackFields
  <2> HIDE DEF l
  <2>2. QED
    BY <1>3, <1>5, <2>1
<1> DEFINE held == [p EXCEPT !.pc = "verify", !.held = TRUE]
           goes(k) == [p EXCEPT !.pc = k]
           gone == [b EXCEPT !.completed = @ \cup {r}]
<1>11. /\ held.pc = "verify" /\ held.target = {r} /\ held.ids = {}
       /\ held.todo = p.todo /\ held.completed = p.completed /\ Same(p, held)
       /\ held.errors = p.errors /\ held.failed = p.failed
  BY <1>3, <1>5 DEF CleanerState, Same
<1>12. \A k \in {"remove", "commit"} :
         /\ goes(k).pc = k /\ goes(k).held = p.held /\ goes(k).target = {r}
         /\ goes(k).ids = {} /\ goes(k).todo = p.todo
         /\ goes(k).completed = p.completed /\ Same(p, goes(k))
         /\ goes(k).errors = p.errors /\ goes(k).failed = p.failed
  BY <1>3, <1>5 DEF CleanerState, Same
<1> HIDE DEF b, f, l
<1>13. /\ gone.pc = "worktrees" /\ gone.held = FALSE /\ gone.ids = {}
       /\ gone.todo = p.todo /\ gone.completed = p.completed \cup {r}
       /\ Same(p, gone) /\ gone.errors = p.errors /\ gone.failed = p.failed
  BY <1>8 DEF CleanerState, Same
<1> HIDE DEF held, goes, gone
<1>14. Continues(p, b) /\ Continues(p, f) /\ Continues(p, l)
  BY <1>3, <1>8, <1>9, <1>10 DEF Continues, Chosen, Removing
<1>15. Earned(p, f) /\ Earned(p, l)
  BY <1>9, <1>10 DEF Earned
<1>16. CASE Prepare(c)
  <2>1. p.pc = "prepare" /\ repo' = repo
    BY <1>2, <1>16 DEF Prepare
  <2>2. Becomes(c, held) \/ Becomes(c, l)
    BY <1>2, <1>16 DEF Prepare, held, l
  <2>3. Continues(p, held)
    <3>1. Chosen(held)
      BY <1>3, <1>5, <1>11, <2>1, SamePlan DEF Chosen
    <3>2. QED
      BY <1>3, <1>11, <3>1 DEF Continues, Removing, Branch
  <2>4. Earned(p, held)
    <3>1. /\ WorktreesDone(held) = PlannedWorktrees(p) \ (p.todo \cup {r})
          /\ BranchesDone(held) = p.completed
      BY <1>11, SamePlan DEF WorktreesDone, BranchesDone
    <3>2. QED
      BY <1>3, <1>6, <1>7, <1>11, <2>1, <3>1 DEF Earned
  <2>5. QED
    BY <1>2, <1>4, <1>14, <1>15, <2>2, <2>3, <2>4
<1>17. ASSUME NEW k \in {"remove", "commit"}, p.pc # "commit",
              k = "commit" => p.held /\ repo'[r].registration = 0
       PROVE  Continues(p, goes(k)) /\ Earned(p, goes(k))
  <2> DEFINE n == goes(k)
  <2>1. /\ n.pc = k /\ n.held = p.held /\ n.target = {r} /\ n.ids = {}
        /\ n.todo = p.todo /\ n.completed = p.completed /\ Same(p, n)
        /\ n.errors = p.errors /\ n.failed = p.failed
    BY <1>12, <1>17
  <2> HIDE DEF n
  <2>2. Chosen(n)
    BY <1>3, <1>5, <1>17, <2>1, SamePlan DEF Chosen
  <2>3. Continues(p, n)
    BY <1>3, <1>17, <2>1, <2>2 DEF Continues, Removing, Branch
  <2>4. WorktreesDone(n) =
          PlannedWorktrees(p) \ (p.todo \cup (IF k = "commit" THEN {} ELSE {r}))
    BY <1>17, <2>1, SamePlan DEF WorktreesDone
  <2>5. BranchesDone(n) = p.completed
    BY <1>17, <2>1, SamePlan DEF BranchesDone
  <2>6. Earned(p, n)
    BY <1>3, <1>6, <1>7, <1>17, <2>1, <2>4, <2>5 DEF Earned
  <2>7. QED
    BY <2>3, <2>6 DEF n
<1>18. CASE Verify(c)
  <2>1. p.pc = "verify" /\ repo' = repo
    BY <1>2, <1>18 DEF Verify
  <2>2. Becomes(c, goes("remove")) \/ Becomes(c, f)
    BY <1>2, <1>18 DEF Verify, goes, f
  <2>3. Continues(p, goes("remove")) /\ Earned(p, goes("remove"))
    BY <1>17, <2>1
  <2>4. QED
    BY <1>2, <1>4, <1>14, <1>15, <2>2, <2>3
<1>19. CASE Remove(c)
  <2>1. p.pc = "remove"
    BY <1>2, <1>19, Zenon DEF Remove
  <2>2. \/ /\ repo' = [repo EXCEPT ![r].path = 0, ![r].registration = 0,
                                   ![r].dirty = FALSE]
           /\ (p.held /\ Becomes(c, goes("commit"))) \/ Becomes(c, b)
        \/ Becomes(c, f)
    BY <1>2, <1>5, <1>19, Zenon DEF Remove, goes, b, f
  <2>3. ASSUME repo' = [repo EXCEPT ![r].path = 0, ![r].registration = 0,
                                    ![r].dirty = FALSE]
        PROVE  repo'[r].registration = 0
    BY <2>3 DEF IInv, TypeOK
  <2>4. ASSUME repo'[r].registration = 0
        PROVE  Earned(p, b)
    <3>1. /\ WorktreesDone(b) = PlannedWorktrees(p) \ p.todo
          /\ BranchesDone(b) = p.completed
      BY <1>8, SamePlan DEF WorktreesDone, BranchesDone
    <3>2. QED
      BY <1>3, <1>6, <1>7, <1>8, <2>1, <2>4, <3>1 DEF Earned
  <2>5. ASSUME repo'[r].registration = 0, p.held
        PROVE  Continues(p, goes("commit")) /\ Earned(p, goes("commit"))
    BY <1>17, <2>1, <2>5
  <2>6. QED
    BY <1>2, <1>4, <1>14, <1>15, <2>2, <2>3, <2>4, <2>5
<1>20. CASE Commit(c)
  <2>1. p.pc = "commit" /\ p.held
    BY <1>2, <1>3, <1>20 DEF Commit
  <2>2. \/ repo' = [repo EXCEPT ![r].branch = 0] /\ Becomes(c, gone)
        \/ Becomes(c, l)
    BY <1>2, <1>5, <1>20, Zenon DEF Commit, gone, b, l
  <2>3. r \in PlannedBranches(p)
    BY <1>3, <1>5, <2>1 DEF Chosen, WithBranch
  <2>4. Continues(p, gone)
    BY <1>3, <1>13, <2>3 DEF Continues, Chosen, Removing
  <2>5. ASSUME repo' = [repo EXCEPT ![r].branch = 0]
        PROVE  Earned(p, gone)
    <3>1. repo'[r].branch = 0
      BY <2>5 DEF IInv, TypeOK
    <3>2. /\ WorktreesDone(gone) = PlannedWorktrees(p) \ p.todo
          /\ BranchesDone(gone) = p.completed \cup {r}
      BY <1>13, SamePlan DEF WorktreesDone, BranchesDone
    <3>3. QED
      BY <1>3, <1>6, <1>7, <1>13, <2>1, <3>1, <3>2 DEF Earned
  <2>6. QED
    BY <1>2, <1>4, <1>14, <1>15, <2>2, <2>4, <2>5
<1>21. QED
  BY <1>16, <1>18, <1>19, <1>20

-----------------------------------------------------------------------------
(* Every step keeps what is tracked.                                       *)

\* While one cleanup takes a step the others are idle.
LEMMA AloneCareful ==
  ASSUME IInv, Tracked, TypeOK', NEW c \in Cleaners, NEW n, Becomes(c, n),
         Cleanup(c) \/ Die(c), \A d \in Cleaners \ {c} : cleaner[d].pc = "idle",
         Careful(n)', \E record : Owned(record) /\ run'.owned = record.owned
  PROVE  Tracked'
<1>1. \A r \in Resources : Ages(repo[r], repo'[r])
  BY RemovalAges DEF IInv, Tracked
<1>2. Numbered' /\ Owned(run)'
  <2>1. PICK record : Owned(record) /\ run'.owned = record.owned
    OBVIOUS
  <2>2. Numbered' /\ Owned(record)'
    BY <1>1, <2>1, OwnedStays DEF IInv
  <2>3. QED
    BY <2>1, <2>2 DEF Owned
<1>3. ASSUME NEW d \in Cleaners
      PROVE  Careful(cleaner[d])'
  <2>1. CASE d = c
    <3>1. cleaner'[d] = n
      BY <2>1 DEF Becomes, IInv, TypeOK
    <3>2. QED
      BY <3>1
  <2>2. CASE d # c
    <3>1. PICK p \in CleanerState : p = cleaner'[d] /\ p.pc = "idle" /\ ~p.held
      BY <2>2 DEF Becomes, IInv, TypeOK, Branch
    <3>2. Careful(p)'
      BY <3>1 DEF Careful, Blamed, Merged, Chosen, Recorded, Done, Lasting,
         Looking, Removing, Branch
    <3>3. QED
      BY <3>1, <3>2
  <2>3. QED
    BY <2>1, <2>2
<1>4. QED
  BY <1>2, <1>3 DEF Tracked

\* A removal step keeps what is tracked.
LEMMA RemovalCareful ==
  ASSUME IInv, Tracked, TypeOK', NEW c \in Cleaners, RemovalStep(c)
  PROVE  Tracked'
<1>1. PICK p \in CleanerState, n \in CleanerState :
        p = cleaner[c] /\ n = cleaner'[c]
  BY DEF IInv, TypeOK
<1>2. Cleanup(c)
  BY DEF RemovalStep, Cleanup
<1>3. Continues(p, n) /\ Earned(p, n)
  BY <1>1, SessionsEarn, WorktreesEarn, BranchesEarn, RemovalsEarn
     DEF RemovalStep
<1>4. p.pc \in Removing /\ run' = run
  BY <1>1, RemovalGoes
<1>5. Forward /\ \A r \in Resources : Ages(repo[r], repo'[r])
  BY <1>2, RemovalAges, RemovalForward DEF IInv, Tracked
<1>6. Careful(p)
  BY <1>1 DEF Tracked
<1>7. Careful(n)'
  BY <1>3, <1>4, <1>5, <1>6, ContinuesCareful DEF IInv
<1>8. Becomes(c, n)
  <2>1. PICK m : Becomes(c, m)
    BY RemovalGoes
  <2>2. m = n
    BY <1>1, <2>1 DEF Becomes, IInv, TypeOK
  <2>3. QED
    BY <2>1, <2>2
<1>9. \A d \in Cleaners \ {c} : cleaner[d].pc = "idle"
  BY <1>1, <1>4 DEF IInv, Exclusive, Removing, Branch
<1>10. \E record : Owned(record) /\ run'.owned = record.owned
  BY <1>4 DEF Tracked
<1>11. QED
  BY <1>2, <1>7, <1>8, <1>9, <1>10, AloneCareful

\* A cleanup that looks, with nothing begun, is careful.
LEMMA LookingCareful ==
  ASSUME NEW n \in CleanerState, Owned(n.plan)', Merged(n)', n.pc \in Looking,
         ~n.held, n.failed = {}, n.completed = {}, Blocks(n)
  PROVE  Careful(n)'
BY DEF Careful, Blamed, Blocks, Chosen, Recorded, Done, Lasting, Looking,
   Removing, Branch

\* Loading the record and the preflight keep what is tracked: without force a
\* branch is spared unless HEAD has what the preflight saw at its tip.
LEMMA LoadCareful ==
  ASSUME IInv, Tracked, TypeOK', NEW c \in Cleaners, Request(c) \/ LookStep(c)
  PROVE  Tracked'
<1>1. PICK p \in CleanerState : p = cleaner[c]
  BY DEF IInv, TypeOK
<1>2. Cleanup(c) /\ run' = run
  BY LookOnly, Zenon DEF Cleanup, LookStep, Request
<1>3. Owned(run) /\ Careful(p) /\ Sound(p)
  BY <1>1 DEF IInv, Tracked
<1>4. \A r \in Resources : Ages(repo[r], repo'[r])
  BY <1>2, RemovalAges DEF IInv, Tracked
<1>5. \A record : Owned(record) => Owned(record)'
  BY <1>4, OwnedStays DEF IInv
<1>6. \E record : Owned(record) /\ run'.owned = record.owned
  BY <1>2, <1>3
<1>7. CASE Request(c)
  <2>1. PICK n \in CleanerState :
          /\ Becomes(c, n) /\ ~n.held /\ n.pc = "preflight" /\ n.plan = run
          /\ n.failed = {} /\ n.completed = {} /\ n.blockedWorktrees = {}
          /\ n.blockedBranches = {} /\ \A r \in Resources : n.tips[r] = 0
    BY <1>7, RequestLoads DEF IInv
  <2>2. n.pc \in Looking /\ n.pc \notin Checking /\ Blocks(n)
    BY <2>1 DEF Looking, Checking, Blocks
  <2>3. \A r \in Resources : 0 <= repo'[r].merged
    BY DEF TypeOK
  <2>4. Merged(n)'
    BY <2>1, <2>2, <2>3 DEF Merged, Limit
  <2>5. Careful(n)'
    BY <1>3, <1>5, <2>1, <2>2, <2>4, LookingCareful
  <2>6. \A d \in Cleaners \ {c} : cleaner[d].pc = "idle"
    BY <1>7, Zenon DEF Request
  <2>7. QED
    BY <1>2, <1>6, <2>1, <2>5, <2>6, AloneCareful
<1>8. CASE LookStep(c)
  <2>1. p.pc \in Looking
    BY <1>1, <1>8, LookLeads DEF IInv
  <2>2. PICK n \in CleanerState :
          Becomes(c, n) /\ LooksOn(p, n) /\ Merged(n)'
    BY <1>1, <1>3, <1>8, LookLeads DEF IInv, Sound, Careful
  <2>3. /\ Owned(p.plan) /\ p.failed = {} /\ p.completed = {} /\ Blocks(p)
    BY <1>3, <2>1 DEF Careful, Blamed, Looking
  <2>4. Careful(n)'
    BY <1>5, <2>2, <2>3, LookingCareful DEF LooksOn
  <2>5. \A d \in Cleaners \ {c} : cleaner[d].pc = "idle"
    BY <1>1, <2>1 DEF IInv, Exclusive, Looking
  <2>6. QED
    BY <1>2, <1>6, <2>2, <2>4, <2>5, AloneCareful
<1>9. QED
  BY <1>7, <1>8

\* The audit and the ways to leave keep what is tracked.
LEMMA AuditCareful ==
  ASSUME IInv, Tracked, TypeOK', NEW c \in Cleaners,
         Refuse(c) \/ Begin(c) \/ Finish(c) \/ Delete(c) \/ Die(c)
  PROVE  Tracked'
<1>1. PICK p \in CleanerState, n \in CleanerState :
        p = cleaner[c] /\ n = cleaner'[c]
  BY DEF IInv, TypeOK
<1>2. /\ Owned(run) /\ Careful(p) /\ Sound(p) /\ run \in RunRecord
      /\ p.held => p.pc \in Branch
  BY <1>1 DEF IInv, TypeOK, Tracked
<1>3. Cleanup(c) \/ Die(c)
  BY DEF Cleanup
<1>4. \A r \in Resources : Ages(repo[r], repo'[r])
  BY <1>3, RemovalAges DEF IInv, Tracked
<1>5. \A record : Owned(record) => Owned(record)'
  BY <1>4, OwnedStays DEF IInv
<1>6. \A m : Becomes(c, m) => m = n
  BY <1>1 DEF Becomes, IInv, TypeOK
<1>7. \E record : Owned(record) /\ run'.owned = record.owned
  <2>1. Owned(NoRun)
    BY DEF Owned, NoRun, NewRun
  <2>2. \/ run' = run \/ run' = NoRun
        \/ \E a : run' = [run EXCEPT !.audit = a]
    BY DEF Refuse, Begin, Finish, Delete, Die
  <2>3. \A a : [run EXCEPT !.audit = a].owned = run.owned
    BY <1>2 DEF RunRecord
  <2>4. QED
    BY <1>2, <2>1, <2>2, <2>3
<1>8. \A d \in Cleaners \ {c} : cleaner[d].pc = "idle"
  BY DEF IInv, Exclusive, Refuse, Begin, Finish, Delete, Die
<1>9. ASSUME Becomes(c, n), Careful(n)'
      PROVE  Tracked'
  BY <1>3, <1>7, <1>8, <1>9, AloneCareful
<1>10. ASSUME Becomes(c, Free)
       PROVE  Tracked'
  <2>1. n = Free /\ n.pc = "idle" /\ n.held = FALSE
    BY <1>6, <1>10, BlankTypes
  <2>2. Careful(n)'
    BY <2>1 DEF Careful, Blamed, Merged, Chosen, Recorded, Done, Lasting,
       Looking, Removing, Branch
  <2>3. QED
    BY <1>9, <1>10, <2>1, <2>2
<1>11. CASE Refuse(c) \/ Delete(c) \/ Die(c)
  BY <1>10, <1>11 DEF Refuse, Delete, Die, Leave
<1>12. CASE Begin(c)
  <2>1. CASE run # p.plan
    BY <1>1, <1>10, <1>12, <2>1 DEF Begin, Leave
  <2>2. CASE run = p.plan
    <3> DEFINE m == [p EXCEPT !.pc = "sessions", !.base = run',
                              !.ids = PlannedSessions(p)]
    <3>1. /\ run' = [run EXCEPT !.audit = "in_progress"] /\ Becomes(c, m)
          /\ p.pc = "begin" /\ repo' = repo /\ live' = live
      BY <1>1, <1>12, <2>2 DEF Begin
    <3>2. run'.owned = p.plan.owned /\ run'.sessions = p.plan.sessions
      BY <1>2, <2>2, <3>1 DEF RunRecord
    <3>3. /\ m.pc = "sessions" /\ m.base = run' /\ m.force = p.force
          /\ m.held = p.held /\ m.plan = p.plan /\ m.selected = p.selected
          /\ m.ids = PlannedSessions(p) /\ m.tips = p.tips
          /\ m.blockedWorktrees = p.blockedWorktrees
          /\ m.blockedBranches = p.blockedBranches /\ m.errors = p.errors
          /\ m.failed = p.failed /\ m.completed = p.completed
      BY DEF CleanerState
    <3> HIDE DEF m
    <3>4. n = m
      BY <1>6, <3>1
    <3>5. Owned(n.plan)'
      BY <1>2, <1>5, <3>1, <3>3, <3>4 DEF Careful
    <3>6. Blamed(n)'
      BY <1>2, <3>1, <3>3, <3>4 DEF Careful, Blamed, Blocks, Looking,
         Removing, Branch
    <3>7. Merged(n)'
      <4>1. rewound' = rewound
        BY <1>12 DEF Begin
      <4>2. QED
        BY <1>2, <3>1, <3>3, <3>4, <4>1 DEF Careful, Merged, Limit, Looking,
           Removing, Checking
    <3>8. Chosen(n)'
      BY <1>2, <3>1, <3>3, <3>4 DEF Chosen, Branch
    <3>9. Recorded(n)'
      BY <3>2, <3>3, <3>4 DEF Recorded
    <3>10. Done(n)'
      <4>1. PlannedSessions(n) = n.ids /\ n.completed = {}
        BY <1>2, <3>1, <3>3, <3>4 DEF PlannedSessions, Selected, Careful,
           Blamed, Looking
      <4>2. WorktreesDone(n) = {} /\ BranchesDone(n) = {}
        BY <3>3, <3>4, <4>1 DEF WorktreesDone, BranchesDone
      <4>3. QED
        BY <3>3, <3>4, <4>1, <4>2 DEF Done
    <3>11. QED
      BY <1>9, <3>1, <3>4, <3>5, <3>6, <3>7, <3>8, <3>9, <3>10 DEF Careful
  <2>3. QED
    BY <2>1, <2>2
<1>13. CASE Finish(c)
  <2> DEFINE m == [p EXCEPT !.pc = "delete", !.base = run']
  <2>1. /\ p.pc = "finish" /\ repo' = repo /\ live' = live
        /\ \E a : run' = [run EXCEPT !.audit = a]
        /\ Becomes(c, Free) \/ (p.errors = {} /\ Becomes(c, m))
    BY <1>1, <1>13, Zenon DEF Finish
  <2>2. /\ run'.owned = run.owned /\ run'.sessions = run.sessions
        /\ run'.exists = run.exists
    BY <1>2, <2>1 DEF RunRecord
  <2>3. /\ m.pc = "delete" /\ m.base = run' /\ m.held = p.held
        /\ m.plan = p.plan /\ m.selected = p.selected /\ m.ids = p.ids
        /\ m.errors = p.errors /\ m.completed = p.completed
    BY DEF CleanerState
  <2> HIDE DEF m
  <2>4. ASSUME p.errors = {}, Becomes(c, m)
        PROVE  Tracked'
    <3>1. n = m
      BY <1>6, <2>4
    <3>2. p.pc \in Lasting /\ p.pc \in Removing /\ p.pc # "idle" /\ ~p.held
      BY <1>2, <2>1 DEF Lasting, Removing, Branch
    <3>3. /\ run = p.base /\ run.exists /\ p.base.owned = p.plan.owned
          /\ p.base.sessions = p.plan.sessions
      BY <1>2, <3>2 DEF Sound, Fenced, Careful, Recorded
    <3>4. Owned(n.plan)'
      BY <1>2, <1>5, <2>3, <3>1, <3>2 DEF Careful
    <3>5. Blamed(n)' /\ Merged(n)' /\ Chosen(n)'
      BY <2>3, <2>4, <3>1, <3>2 DEF Blamed, Merged, Chosen, Looking,
         Removing, Branch
    <3>6. Recorded(n)'
      BY <2>2, <2>3, <3>1, <3>3 DEF Recorded
    <3>7. Done(n)'
      <4>1. /\ PlannedSessions(n) = PlannedSessions(p)
            /\ PlannedWorktrees(n) = PlannedWorktrees(p)
            /\ PlannedBranches(n) = PlannedBranches(p)
        BY <2>3, <3>1 DEF PlannedSessions, PlannedWorktrees, PlannedBranches,
           Selected, Registered
      <4>2. /\ WorktreesDone(n) = WorktreesDone(p)
            /\ BranchesDone(n) = BranchesDone(p)
        BY <2>1, <2>3, <3>1, <4>1 DEF WorktreesDone, BranchesDone
      <4>3. Done(p)
        BY <1>2 DEF Careful
      <4>4. QED
        BY <2>1, <2>3, <3>1, <3>2, <4>1, <4>2, <4>3 DEF Done, WorktreeGone,
           BranchGone
    <3>8. QED
      BY <1>9, <2>4, <3>1, <3>4, <3>5, <3>6, <3>7 DEF Careful
  <2>5. QED
    BY <1>10, <2>1, <2>4, SMTT(30)
<1>14. QED
  BY <1>11, <1>12, <1>13

\* Every step keeps what is tracked.
LEMMA StepCareful ==
  ASSUME IInv, Tracked, [Next]_vars
  PROVE  Tracked'
<1>1. TypeOK'
  BY StepTypes DEF IInv, Sound
<1>2. CASE Others
  BY <1>1, <1>2, OthersCareful
<1>3. ASSUME NEW c \in Cleaners, Cleanup(c) \/ Die(c) PROVE Tracked'
  BY <1>1, <1>3, LoadCareful, AuditCareful, RemovalCareful, SMTT(30)
     DEF Cleanup, RemovalStep, LookStep
<1>4. CASE UNCHANGED vars
  BY <1>4 DEF vars, Tracked, Numbered, Owned, Careful, Blamed, Merged, Limit, Chosen,
     Recorded, Done, WorktreesDone, BranchesDone, WorktreeGone, BranchGone,
     PlannedSessions, PlannedWorktrees, PlannedBranches, Selected, Registered,
     WithBranch
<1>5. QED
  BY <1>2, <1>3, <1>4 DEF Next

\* It holds at the start.
LEMMA InitCareful == Init => Tracked
<1> SUFFICES ASSUME Init PROVE Tracked
  OBVIOUS
<1>1. Numbered /\ Owned(run)
  <2>1. \A t, m : LET g == [NewRepo EXCEPT !.tip = t, !.merged = m]
                  IN /\ g.path <= g.made /\ g.registration <= g.made
                     /\ g.branch <= g.made
    BY DEF NewRepo
  <2>2. Numbered
    BY <2>1 DEF Init, Numbered
  <2>3. QED
    BY <2>2 DEF Init, Owned, NewRun
<1>2. ASSUME NEW c \in Cleaners
      PROVE  Careful(cleaner[c])
  <2>1. cleaner[c].pc = "idle" /\ cleaner[c].held = FALSE
    BY BlankTypes DEF Init
  <2>2. QED
    BY <2>1 DEF Careful, Blamed, Merged, Chosen, Recorded, Done, Lasting,
       Looking, Removing, Branch
<1>3. QED
  BY <1>1, <1>2 DEF Tracked

\* What a removal has done so far, and has left to do, is tracked.
THEOREM RemovalIsTracked == Spec => []Tracked
BY InitCareful, StepCareful, Invariance, PTL DEF Spec

-----------------------------------------------------------------------------
(* What is lost, and what is left.                                         *)

\* A branch goes in Commit or Unref of the cleanup that moves, a worktree in
\* its Remove.
LEMMA WhoRemoves ==
  ASSUME IInv, [Next]_vars, NEW c \in Cleaners, NEW r \in Resources
  PROVE  /\ RemovesBranch(c, r) =>
              cleaner[c].target = {r} /\ (Commit(c) \/ Unref(c))
         /\ RemovesWorktree(c, r) => cleaner[c].target = {r} /\ Remove(c)
<1>1. repo \in [Resources -> RepoState]
  BY DEF IInv, TypeOK, RepoState
<1> SUFFICES ASSUME cleaner'[c] # cleaner[c],
                    \/ repo[r].branch # 0 /\ repo'[r].branch = 0
                    \/ repo[r].path # 0 /\ repo'[r].path = 0
             PROVE  /\ RemovesBranch(c, r) =>
                         cleaner[c].target = {r} /\ (Commit(c) \/ Unref(c))
                    /\ RemovesWorktree(c, r) =>
                         cleaner[c].target = {r} /\ Remove(c)
  BY DEF RemovesBranch, RemovesWorktree
<1>2. ~Others
  BY Zenon DEF Others, ToggleWorker, AddSession, CreateRun, Register, Update,
     UseBranch, Replace, Work
<1>3. PICK d \in Cleaners : Cleanup(d) \/ Die(d)
  BY <1>2 DEF Next, vars
<1>4. CASE Remove(d)
  <2>1. d = c
    BY <1>4, Zenon DEF Remove, Becomes, IInv, TypeOK
  <2>2. PICK q \in cleaner[c].target :
          repo' = [repo EXCEPT ![q].path = 0, ![q].registration = 0,
                               ![q].dirty = FALSE]
    BY <1>4, <2>1, Zenon DEF Remove
  <2>3. [repo[r] EXCEPT !.path = 0, !.registration = 0, !.dirty = FALSE]
          .branch = repo[r].branch
    BY <1>1 DEF RepoState
  <2>4. repo'[r].branch = repo[r].branch
    BY <1>1, <2>2, <2>3
  <2>5. q = r
    BY <1>1, <2>2, <2>4
  <2>6. cleaner[c].target = {r}
    <3>1. cleaner[c].pc = "remove"
      BY <1>4, <2>1, Zenon DEF Remove
    <3>2. \E x \in Resources : cleaner[c].target = {x}
      BY <3>1 DEF IInv, Sound, Aimed, Aiming, Checking, Branch
    <3>3. QED
      BY <2>2, <2>5, <3>2
  <2>7. QED
    BY <1>4, <2>1, <2>4, <2>6 DEF RemovesBranch
<1>5. CASE Commit(d) \/ Unref(d)
  <2>1. d = c
    BY <1>5 DEF Commit, Unref, Becomes, IInv, TypeOK
  <2>2. PICK q \in cleaner[c].target : repo' = [repo EXCEPT ![q].branch = 0]
    BY <1>5, <2>1 DEF Commit, Unref
  <2>3. [repo[r] EXCEPT !.branch = 0].path = repo[r].path
    BY <1>1 DEF RepoState
  <2>4. repo'[r].path = repo[r].path
    BY <1>1, <2>2, <2>3
  <2>5. q = r
    BY <1>1, <2>2, <2>4
  <2>6. cleaner[c].target = {r}
    BY <1>5, <2>1, <2>2, <2>5 DEF Commit, Unref, IInv, Sound, Aimed, Aiming,
       Checking, Branch
  <2>7. QED
    BY <1>5, <2>1, <2>4, <2>6 DEF RemovesWorktree
<1>6. CASE ~Remove(d) /\ ~Commit(d) /\ ~Unref(d)
  <2>1. repo' = repo
    BY <1>3, <1>6, LookOnly, Zenon
      DEF Cleanup, LookStep, Request, Refuse, Begin, DeleteSession, NextKind,
       CheckWorktree, Prepare, Verify, CheckBranch, Finish, Delete, Die
  <2>2. QED
    BY <2>1, SMTT(30)
<1>7. QED
  BY <1>4, <1>5, <1>6

\* Without force no unsaved work is lost, and no unmerged commit unless users
\* have moved the branch or HEAD back since the preflight read the tip: git
\* spares a worktree that is dirty when it is removed, and a branch goes at the
\* tip read, which HEAD had if the branch went only forward between that look
\* and the look at HEAD, and HEAD afterwards.
THEOREM SparesWorkAlways == Spec => SparesWork
<1>1. ASSUME IInv, Tracked, [Next]_vars, NEW c \in Cleaners,
             NEW r \in Resources, ~cleaner[c].force
      PROVE  /\ RemovesWorktree(c, r) => ~repo[r].dirty
             /\ RemovesBranch(c, r) /\ r \notin rewound =>
                  repo[r].tip <= repo[r].merged
  <2>1. PICK p \in CleanerState : p = cleaner[c]
    BY <1>1 DEF IInv, TypeOK
  <2>2. Careful(p) /\ Sound(p)
    BY <1>1, <2>1 DEF IInv, Tracked
  <2>3. ASSUME RemovesWorktree(c, r)
        PROVE  ~repo[r].dirty
    <3>1. Remove(c) /\ cleaner[c].target = {r}
      BY <1>1, <2>3, WhoRemoves
    <3>2. repo[r].path # 0 /\ repo'[r].path = 0
      BY <2>3 DEF RemovesWorktree
    <3>3. QED
      BY <1>1, <3>1, <3>2, Zenon DEF Remove
  <2>4. ASSUME RemovesBranch(c, r), r \notin rewound
        PROVE  repo[r].tip <= repo[r].merged
    <3>1. p.target = {r} /\ (Commit(c) \/ Unref(c))
      BY <1>1, <2>1, <2>4, WhoRemoves
    <3>2. repo[r].branch # 0 /\ repo'[r].branch = 0
      BY <2>4 DEF RemovesBranch
    <3>3. repo[r].tip = p.tips[r]
      BY <1>1, <2>1, <2>2, <3>1, <3>2 DEF Commit, Unref, Sound, HeldAtTip
    <3>4. /\ p.pc \in Removing /\ p.pc \notin Checking
          /\ r \notin p.blockedBranches
      BY <2>1, <2>2, <3>1 DEF Commit, Unref, Careful, Chosen, Sound, HeldAtTip,
         WithBranch, Removing, Branch, Checking
    <3>5. QED
      BY <1>1, <2>1, <2>2, <2>4, <3>3, <3>4 DEF Careful, Merged, Limit
  <2>5. QED
    BY <2>3, <2>4
<1>2. IInv /\ Tracked /\ [Next]_vars =>
        [\A c \in Cleaners, r \in Resources : ~cleaner[c].force =>
           /\ RemovesWorktree(c, r) => ~repo[r].dirty
           /\ RemovesBranch(c, r) /\ r \notin rewound =>
                repo[r].tip <= repo[r].merged]_vars
  BY <1>1
<1>3. QED
  BY <1>2, Invariance, RemovalIsTracked, PTL DEF Spec, SparesWork

\* The record is deleted last: the sessions, worktrees and branches it lists,
\* of the kinds selected, are gone, whatever failed, appeared or was replaced
\* in the meantime.
THEOREM DeletesRecordLastAlways == Spec => DeletesRecordLast
<1>1. ASSUME IInv, Tracked, [Next]_vars, NEW c \in Cleaners,
             cleaner[c].pc = "delete", run.exists, ~run'.exists
      PROVE  LET p == cleaner[c] IN
             /\ "sessions" \in p.selected => run.sessions \cap live = {}
             /\ \A r \in Resources : run.owned[r] # Unregistered =>
                  /\ "worktrees" \in p.selected =>
                       \/ repo[r].path # run.owned[r].worktree
                       \/ repo[r].registration # run.owned[r].worktree
                  /\ "branches" \in p.selected =>
                       repo[r].branch # run.owned[r].branch
  <2>1. PICK p \in CleanerState : p = cleaner[c]
    BY <1>1 DEF IInv, TypeOK
  <2>2. run \in RunRecord
    BY <1>1 DEF IInv, TypeOK
  <2>3. ~Others
    BY <1>1, <2>2, Zenon
      DEF Others, ToggleWorker, AddSession, CreateRun, Register,
       Update, UseBranch, Replace, Work, RunRecord
  <2>4. PICK d \in Cleaners : Cleanup(d) \/ Die(d)
    BY <1>1, <2>3 DEF Next, vars
  <2>5. \A a : [run EXCEPT !.audit = a].exists = run.exists
    BY <2>2 DEF RunRecord
  <2>6. Delete(d)
    <3>1. ~RemovalStep(d)
      BY <1>1, RemovalGoes
    <3>2. QED
      BY <1>1, <2>4, <2>5, <3>1, LookOnly, Zenon DEF Cleanup, RemovalStep,
         LookStep, Request, Refuse, Begin, Finish, Die
  <2>7. d = c
    BY <1>1, <2>6 DEF Delete, IInv, Exclusive
  <2>8. run = p.base
    BY <1>1, <2>1, <2>5, <2>6, <2>7 DEF Delete
  <2>9. /\ Careful(p) /\ p.pc \in Lasting /\ p.pc # "sessions"
        /\ p.pc = "delete"
    BY <1>1, <2>1 DEF Tracked, Lasting
  <2>10. /\ run.owned = p.plan.owned /\ run.sessions = p.plan.sessions
         /\ p.errors = {}
    BY <2>8, <2>9 DEF Careful, Recorded, Blamed
  <2>11. /\ PlannedSessions(p) \cap live = {}
         /\ \A r \in PlannedWorktrees(p) : WorktreeGone(p, r)
         /\ \A r \in PlannedBranches(p) : BranchGone(p, r)
    BY <2>9, <2>10 DEF Careful, Done, WorktreesDone, BranchesDone
  <2>12. "sessions" \in p.selected => run.sessions \cap live = {}
    BY <2>10, <2>11 DEF PlannedSessions, Selected
  <2>13. ASSUME NEW r \in Resources, run.owned[r] # Unregistered
         PROVE  /\ "worktrees" \in p.selected =>
                     repo[r].registration # run.owned[r].worktree
                /\ "branches" \in p.selected =>
                     repo[r].branch # run.owned[r].branch
    <3>1. r \in Registered(p)
      BY <2>10, <2>13 DEF Registered
    <3>2. QED
      BY <2>10, <2>11, <3>1 DEF PlannedWorktrees, PlannedBranches, Selected,
         WorktreeGone, BranchGone
  <2>14. QED
    BY <2>1, <2>12, <2>13
<1>2. IInv /\ Tracked /\ [Next]_vars =>
        [\A c \in Cleaners :
           LET p == cleaner[c] IN
           (p.pc = "delete" /\ run.exists /\ ~run'.exists) =>
             /\ "sessions" \in p.selected => run.sessions \cap live = {}
             /\ \A r \in Resources : run.owned[r] # Unregistered =>
                  /\ "worktrees" \in p.selected =>
                       \/ repo[r].path # run.owned[r].worktree
                       \/ repo[r].registration # run.owned[r].worktree
                  /\ "branches" \in p.selected =>
                       repo[r].branch # run.owned[r].branch]_vars
  BY <1>1
<1>3. QED
  BY <1>2, Invariance, RemovalIsTracked, PTL DEF Spec, DeletesRecordLast
=============================================================================
