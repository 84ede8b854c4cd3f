----------------------------- MODULE RunCleanup -----------------------------
(***************************************************************************)
(* run cleanup --apply: removes what a run owns (sessions, worktrees,      *)
(* branches, its record) while other commands update the record and the    *)
(* people who use the worktrees work in them.                              *)
(*                                                                         *)
(* A cleanup holds the lease of the run, plans from the record it loads,   *)
(* looks at the repository (preflight), marks the record as being cleaned  *)
(* if it is still the one it planned from, removes resource by resource,   *)
(* writes its audit and deletes the record.                                *)
(*                                                                         *)
(* A resource is a worktree path with the branch registered for it.  What  *)
(* is at the path, and the branch, have identities (inodes): a replacement *)
(* has a new one.  The commits of a branch are 1 .. MaxTip in their order, *)
(* HEAD contains those up to merged.  Log files and project metadata only  *)
(* succeed or fail.  A dry run changes nothing and is left out.            *)
(***************************************************************************)
EXTENDS Naturals, FiniteSets

CONSTANTS
  Cleaners,    \* processes that run the command
  Resources,   \* worktree paths
  Sessions,    \* sessions that may be created for the run
  Requests,    \* [force, selected] a cleanup may be called with
  MaxTip,      \* bound on the commits of a branch
  MaxChanges   \* bound on the changes made by others

Categories == {"sessions", "worktrees", "branches", "run_store", "others"}

ASSUME RequestsAssumption ==
  Requests \subseteq [force : BOOLEAN, selected : SUBSET Categories]
ASSUME CleanupBoundsAssumption == MaxTip \in Nat \ {0} /\ MaxChanges \in Nat

VARIABLES
  run,      \* the run record
  live,     \* sessions on the server
  repo,     \* for each resource, what git and the file system have
  cleaner,  \* the state of each process
  changes,  \* number of changes made by others
  rewound   \* history: the resources whose branch or HEAD users have moved
            \* back since a cleanup last read the branch's tip

vars == <<run, live, repo, cleaner, changes, rewound>>

Unregistered == [worktree |-> 0, branch |-> 0]

NewRun == [exists |-> TRUE, active |-> FALSE, sessions |-> {},
           owned |-> [r \in Resources |-> Unregistered], audit |-> "none"]
NoRun == [NewRun EXCEPT !.exists = FALSE]

\* path: what is there, or 0; registration: the worktree git lists for the
\* path, or 0; attached: that worktree is on the registered branch; branch: the
\* ref, or 0; made: how many worktrees and branches there have been.
NewRepo == [path |-> 1, registration |-> 1, attached |-> TRUE, dirty |-> FALSE,
            branch |-> 1, tip |-> 1, merged |-> 1, made |-> 1]

\* tips: the tip of each branch in the preflight, or 0; ids, todo: sessions and
\* resources of the present kind still to be looked at; held: the deletion of
\* target's branch is prepared; failed, completed: branches; errors: what they
\* are about.
Free == [pc |-> "idle", force |-> FALSE, selected |-> {}, plan |-> NoRun,
         base |-> NoRun, blockedWorktrees |-> {}, blockedBranches |-> {},
         tips |-> [r \in Resources |-> 0], ids |-> {}, todo |-> {},
         target |-> {}, held |-> FALSE, failed |-> {}, completed |-> {}, errors |-> {}]

Init ==
  /\ run = NewRun /\ live = {} /\ changes = 0 /\ rewound = {}
  /\ \E t \in 1 .. MaxTip : \E m \in 1 .. t :
       repo = [r \in Resources |-> [NewRepo EXCEPT !.tip = t, !.merged = m]]
  /\ cleaner = [c \in Cleaners |-> Free]

-----------------------------------------------------------------------------
(* What others do.                                                         *)

\* An update that does not look at the audit.
UpdatableUnfenced == run.exists

\* update_run refuses a record that is being cleaned.
Updatable == run.exists /\ run.audit # "in_progress"

Update(newRun) ==
  /\ Updatable /\ run' = newRun
  /\ UNCHANGED <<repo, cleaner, rewound>>

Changes == changes < MaxChanges /\ changes' = changes + 1

ToggleWorker ==
  Update([run EXCEPT !.active = ~@]) /\ Changes /\ UNCHANGED live

AddSession ==
  /\ \E x \in Sessions \ (live \cup run.sessions) :
       Update([run EXCEPT !.sessions = @ \cup {x}]) /\ live' = live \cup {x}
  /\ Changes

\* register_run_resources
Register(r) ==
  /\ repo[r].path # 0 /\ repo[r].path = repo[r].registration
  /\ repo[r].attached /\ repo[r].branch # 0
  /\ Update([run EXCEPT !.owned[r] = [worktree |-> repo[r].path,
                                      branch   |-> repo[r].branch]])
  /\ UNCHANGED <<live, changes>>

CreateRun ==
  /\ ~run.exists /\ run' = NewRun /\ Changes
  /\ UNCHANGED <<live, repo, cleaner, rewound>>

\* The ref is locked while its deletion is prepared.
Locked(r) == \E c \in Cleaners : cleaner[c].held /\ r \in cleaner[c].target

Work(r, changed) ==
  /\ repo' = [repo EXCEPT ![r] = changed] /\ Changes
  /\ rewound' = IF changed.tip < repo[r].tip \/ changed.merged < repo[r].merged
                THEN rewound \cup {r} ELSE rewound
  /\ UNCHANGED <<run, live, cleaner>>

\* Users edit, switch branches, and move the branch and HEAD anywhere ...
UseBranch(r) ==
  LET g == repo[r] IN
  \/ g.path # 0 /\ Work(r, [g EXCEPT !.dirty = ~@])
  \/ g.path # 0 /\ Work(r, [g EXCEPT !.attached = ~@])
  \/ g.branch # 0 /\ ~Locked(r)
     /\ \E t \in (1 .. MaxTip) \ {g.tip} : Work(r, [g EXCEPT !.tip = t])
  \/ g.branch # 0
     /\ \E m \in (1 .. MaxTip) \ {g.merged} : Work(r, [g EXCEPT !.merged = m])

\* ... take worktrees and branches away, and replace them.
Replace(r) ==
  LET g == repo[r] IN
  \/ g.path # 0 /\ Work(r, [g EXCEPT !.path = 0])
  \/ g.path = 0 /\ g.registration # 0
     /\ (\/ Work(r, [g EXCEPT !.path = g.registration])
         \/ Work(r, [g EXCEPT !.registration = 0, !.dirty = FALSE])
         \/ Work(r, [g EXCEPT !.path = g.made + 1, !.made = @ + 1]))
  \/ g.path = 0 /\ g.registration = 0 /\ g.branch # 0
     /\ Work(r, [g EXCEPT !.path = g.made + 1, !.registration = g.made + 1,
                          !.made = @ + 1, !.attached = TRUE])
  \/ g.branch # 0 /\ ~Locked(r) /\ ~(g.path # 0 /\ g.attached)
     /\ Work(r, [g EXCEPT !.branch = 0])
  \/ g.branch = 0
     /\ Work(r, [g EXCEPT !.branch = g.made + 1, !.made = @ + 1])

Others ==
  \/ ToggleWorker \/ AddSession \/ CreateRun
  \/ \E r \in Resources : Register(r) \/ UseBranch(r) \/ Replace(r)

-----------------------------------------------------------------------------
(* Plan and preflight.                                                     *)

Becomes(c, p) == cleaner' = [cleaner EXCEPT ![c] = p]

Selected(p, category, things) == IF category \in p.selected THEN things ELSE {}
Registered(p) == {r \in Resources : p.plan.owned[r] # Unregistered}
PlannedSessions(p)  == Selected(p, "sessions", p.plan.sessions)
PlannedWorktrees(p) == Selected(p, "worktrees", Registered(p))
PlannedBranches(p)  == Selected(p, "branches", Registered(p))

\* verify_owned_worktree
WorktreeOwned(p, r) ==
  /\ repo[r].path = p.plan.owned[r].worktree
  /\ repo[r].registration = repo[r].path
  /\ repo[r].attached

\* verify_owned_branch
BranchOwned(p, r) == repo[r].branch = p.plan.owned[r].branch

Back(p, kind) == [p EXCEPT !.pc = kind, !.target = {}, !.held = FALSE]

\* The lease is taken without waiting; an interrupted cleanup is resumed only
\* by force.
Request(c) ==
  /\ \A d \in Cleaners : cleaner[d].pc = "idle"
  /\ run.exists
  /\ \E q \in Requests :
       LET p == [Free EXCEPT !.pc = "preflight", !.plan = run,
                             !.force = q.force, !.selected = q.selected]
       IN
       /\ run.audit = "in_progress" => q.force
       /\ Becomes(c, [p EXCEPT !.todo = PlannedWorktrees(p)])
  /\ UNCHANGED <<run, live, repo, changes, rewound>>

BlockWorktree(p, r) ==
  [p EXCEPT !.blockedWorktrees = @ \cup {r}, !.errors = @ \cup {r}]
BlockBranch(p, r) ==
  [BlockWorktree(p, r) EXCEPT !.blockedBranches = @ \cup {r}]

\* What a look leads to: git, if it fails, is taken to have found fault.
Look(c, fine, next, blocked) ==
  \/ Becomes(c, IF fine THEN next ELSE blocked) /\ UNCHANGED changes
  \/ Becomes(c, blocked) /\ Changes

\* preflight_worktrees: whether the worktree is gone, or the owned one ...
LookAtWorktree(c) ==
  LET p == cleaner[c] IN
  /\ p.pc = "preflight"
  /\ \E r \in p.todo :
       LET q == [p EXCEPT !.todo = @ \ {r}]
           gone == repo[r].path = 0
       IN Look(c, IF gone THEN repo[r].registration = 0 ELSE WorktreeOwned(p, r),
               IF gone \/ p.force THEN q
               ELSE [q EXCEPT !.pc = "status", !.target = {r}],
               BlockWorktree(q, r))
  /\ UNCHANGED <<run, live, repo, rewound>>

\* ... and whether what is now at the path is dirty.
LookForDirt(c) ==
  LET p == cleaner[c]
      q == Back(p, "preflight")
  IN
  /\ p.pc = "status"
  /\ \E r \in p.target :
       Look(c, repo[r].path # 0 /\ ~repo[r].dirty, q, BlockWorktree(q, r))
  /\ UNCHANGED <<run, live, repo, rewound>>

\* preflight_branches: the tip, of a branch that goes along with its worktree ...
LookAtTip(c) ==
  LET p == cleaner[c] IN
  /\ p.pc = "preflight_branches"
  /\ \E r \in p.todo :
       LET q == [p EXCEPT !.todo = @ \ {r}]
           absent == repo[r].branch = 0
       IN
       /\ Look(c, absent \/ r \in PlannedWorktrees(p) \ p.blockedWorktrees,
               IF absent THEN q
               ELSE [q EXCEPT !.pc = "reflog", !.target = {r},
                              !.tips[r] = repo[r].tip],
               BlockBranch(q, r))
       /\ rewound' = IF absent THEN rewound ELSE rewound \ {r}
  /\ UNCHANGED <<run, live, repo>>

\* (one that is blocked before it is verified keeps no tip)
Unverified(p, r) ==
  BlockBranch([Back(p, "preflight_branches") EXCEPT !.tips[r] = 0], r)

\* ... whether the worktree is there and the branch the owned one ...
LookAtReflog(c) ==
  LET p == cleaner[c] IN
  /\ p.pc = "reflog"
  /\ \E r \in p.target :
       Look(c, repo[r].path # 0 /\ BranchOwned(p, r),
            [p EXCEPT !.pc = "owner"], Unverified(p, r))
  /\ UNCHANGED <<run, live, repo, rewound>>

\* ... whether the worktree, if it is still there, is the owned one ...
LookAtOwner(c) ==
  LET p == cleaner[c] IN
  /\ p.pc = "owner"
  /\ \E r \in p.target :
       Look(c, repo[r].path = 0 \/ WorktreeOwned(p, r),
            IF p.force THEN Back(p, "preflight_branches")
            ELSE [p EXCEPT !.pc = "merged"],
            Unverified(p, r))
  /\ UNCHANGED <<run, live, repo, rewound>>

\* ... and whether HEAD has the commits that the branch has by now.
LookAtHead(c) ==
  LET p == cleaner[c]
      q == Back(p, "preflight_branches")
  IN
  /\ p.pc = "merged"
  /\ \E r \in p.target :
       Look(c, repo[r].branch # 0 /\ repo[r].tip <= repo[r].merged,
            q, BlockBranch(q, r))
  /\ UNCHANGED <<run, live, repo, rewound>>

\* A preflight that freezes the tips once it has made its checks.
LookedFreezing(c) ==
  LET p == cleaner[c] IN
  /\ p.pc \in {"preflight", "preflight_branches"} /\ p.todo = {}
  /\ Becomes(c, IF p.pc = "preflight"
                THEN [p EXCEPT !.pc = "preflight_branches",
                               !.todo = PlannedBranches(p)]
                ELSE [p EXCEPT !.pc = "begin",
                               !.tips = [r \in Resources |->
                                           IF @[r] = 0 THEN 0 ELSE repo[r].tip]])
  /\ UNCHANGED <<run, live, repo, changes, rewound>>

\* On to the branches, and to the decision.
Looked(c) ==
  LET p == cleaner[c] IN
  /\ p.pc \in {"preflight", "preflight_branches"} /\ p.todo = {}
  /\ Becomes(c, IF p.pc = "preflight"
                THEN [p EXCEPT !.pc = "preflight_branches",
                               !.todo = PlannedBranches(p)]
                ELSE [p EXCEPT !.pc = "begin"])
  /\ UNCHANGED <<run, live, repo, changes, rewound>>

Leave(c) == Becomes(c, Free)

\* Active workers, or a project preview that fails, block the whole cleanup.
Refuse(c) ==
  /\ cleaner[c].pc = "begin"
  /\ \/ cleaner[c].plan.active /\ ~cleaner[c].force
     \/ "others" \in cleaner[c].selected
  /\ Leave(c)
  /\ UNCHANGED <<run, live, repo, changes, rewound>>

\* An audit begun on whatever the record now is.
BeginUnchecked(c) ==
  LET p == cleaner[c] IN
  /\ p.pc = "begin" /\ ~(p.plan.active /\ ~p.force)
  /\ run' = [run EXCEPT !.audit = "in_progress"]
  /\ Becomes(c, [p EXCEPT !.pc = "sessions", !.base = run',
                          !.ids = PlannedSessions(p)])
  /\ UNCHANGED <<live, repo, changes, rewound>>

\* begin_cleanup_audit
Begin(c) ==
  LET p == cleaner[c] IN
  /\ p.pc = "begin" /\ ~(p.plan.active /\ ~p.force)
  /\ \/ /\ run = p.plan
        /\ run' = [run EXCEPT !.audit = "in_progress"]
        /\ Becomes(c, [p EXCEPT !.pc = "sessions", !.base = run',
                                !.ids = PlannedSessions(p)])
     \/ /\ run # p.plan
        /\ Leave(c)
        /\ UNCHANGED run
  /\ UNCHANGED <<live, repo, changes, rewound>>

-----------------------------------------------------------------------------
(* Removal.                                                                *)

\* Every planned session is deleted and read back, or an error is noted.
DeleteSession(c) ==
  LET p == cleaner[c] IN
  /\ p.pc = "sessions"
  /\ \E x \in p.ids :
       \/ /\ Becomes(c, [p EXCEPT !.ids = @ \ {x}])
          /\ live' = live \ {x}
       \/ /\ Becomes(c, [p EXCEPT !.ids = @ \ {x},
                                  !.errors = @ \cup {x}])
          /\ live' \in {live, live \ {x}}
  /\ UNCHANGED <<run, repo, changes, rewound>>

\* On to the next kind of resource.
NextKind(c) ==
  LET p == cleaner[c] IN
  /\ p.ids = {} /\ p.todo = {}
  /\ \/ /\ p.pc = "sessions"
        /\ Becomes(c, [p EXCEPT !.pc = "worktrees",
                                !.todo = PlannedWorktrees(p)])
     \/ /\ p.pc = "worktrees"
        /\ Becomes(c, [p EXCEPT !.pc = "branches", !.todo = PlannedBranches(p)])
     \/ /\ p.pc = "branches"
        /\ Becomes(c, [p EXCEPT !.pc = "finish"])
  /\ UNCHANGED <<run, live, repo, changes, rewound>>

\* The worktree's branch is to go with it.
WithBranch(p, r) ==
  r \in PlannedBranches(p) \ p.blockedBranches /\ p.tips[r] # 0

CheckWorktree(c) ==
  LET p == cleaner[c] IN
  /\ p.pc = "worktrees"
  /\ \E r \in p.todo :
       LET q == [p EXCEPT !.todo = @ \ {r}]
           bad == [q EXCEPT !.errors = @ \cup {r}]
           chosen == [q EXCEPT !.target = {r}]
           present == repo[r].path # 0
           owned == present /\ WorktreeOwned(p, r)
           skipped == r \in p.blockedWorktrees
       IN
       \/ skipped /\ Becomes(c, q)
       \/ ~skipped /\ present /\ ~owned /\ Becomes(c, bad)
       \/ ~skipped /\ owned
          /\ Becomes(c, [chosen EXCEPT !.pc = IF WithBranch(p, r) THEN "prepare"
                                              ELSE "remove"])
       \/ ~skipped /\ ~present /\ WithBranch(p, r)
          /\ Becomes(c, [bad EXCEPT !.failed = @ \cup {r}])
       \/ ~skipped /\ ~present /\ ~WithBranch(p, r)
          /\ Becomes(c, IF repo[r].registration # 0 THEN bad ELSE q)
  /\ UNCHANGED <<run, live, repo, changes, rewound>>

Failing(p) == [p EXCEPT !.errors = @ \cup p.target]
BranchFailing(p) == [Failing(p) EXCEPT !.failed = @ \cup p.target]

\* A deletion prepared at whatever tip the branch now has.
PrepareAnyTip(c) ==
  LET p == cleaner[c] IN
  /\ p.pc = "prepare"
  /\ \E r \in p.target : repo[r].branch # 0
  /\ Becomes(c, [p EXCEPT !.pc = "verify", !.held = TRUE])
  /\ UNCHANGED <<run, live, repo, changes, rewound>>

\* git locks the ref if it is at the frozen tip.
Prepare(c) ==
  LET p == cleaner[c] IN
  /\ p.pc = "prepare"
  /\ \E r \in p.target :
       \/ /\ repo[r].branch # 0 /\ repo[r].tip = p.tips[r]
          /\ Becomes(c, [p EXCEPT !.pc = "verify", !.held = TRUE])
       \/ /\ repo[r].branch = 0 \/ repo[r].tip # p.tips[r]
          /\ Becomes(c, Back(BranchFailing(p), "worktrees"))
  /\ UNCHANGED <<run, live, repo, changes, rewound>>

Verify(c) ==
  LET p == cleaner[c] IN
  /\ p.pc = "verify"
  /\ \E r \in p.target :
       Becomes(c, IF WorktreeOwned(p, r) THEN [p EXCEPT !.pc = "remove"]
                  ELSE Back(Failing(p), "worktrees"))
  /\ UNCHANGED <<run, live, repo, changes, rewound>>

\* A removal always called with --force.
RemoveForced(c) ==
  LET p == cleaner[c] IN
  /\ p.pc = "remove"
  /\ \E r \in p.target :
       /\ repo[r].path # 0 /\ repo[r].path = repo[r].registration
       /\ repo' = [repo EXCEPT ![r].path = 0, ![r].registration = 0,
                               ![r].dirty = FALSE]
  /\ Becomes(c, IF p.held THEN [p EXCEPT !.pc = "commit"]
                ELSE Back(p, "worktrees"))
  /\ UNCHANGED <<run, live, changes, rewound>>

\* git worktree remove, which spares unsaved work unless forced, and fails for
\* reasons of its own: a locked worktree, an open file.
Remove(c) ==
  LET p == cleaner[c] IN
  /\ p.pc = "remove"
  /\ \/ \E r \in p.target :
          /\ repo[r].path # 0 /\ repo[r].path = repo[r].registration
          /\ p.force \/ ~repo[r].dirty
          /\ repo' = [repo EXCEPT ![r].path = 0, ![r].registration = 0,
                                  ![r].dirty = FALSE]
          /\ Becomes(c, IF p.held THEN [p EXCEPT !.pc = "commit"]
                        ELSE Back(p, "worktrees"))
     \/ /\ Becomes(c, Back(Failing(p), "worktrees"))
        /\ UNCHANGED repo
  /\ UNCHANGED <<run, live, changes, rewound>>

\* A failed commit that leaves its transaction open.
CommitLeaks(c) ==
  LET p == cleaner[c] IN
  /\ p.pc = "commit"
  /\ Becomes(c, [BranchFailing(p) EXCEPT !.pc = "worktrees"])
  /\ UNCHANGED <<run, live, repo, changes, rewound>>

Commit(c) ==
  LET p == cleaner[c] IN
  /\ p.pc = "commit"
  /\ \/ \E r \in p.target :
          /\ repo' = [repo EXCEPT ![r].branch = 0]
          /\ Becomes(c, [Back(p, "worktrees") EXCEPT !.completed = @ \cup {r}])
     \/ /\ Becomes(c, Back(BranchFailing(p), "worktrees"))
        /\ UNCHANGED repo
  /\ UNCHANGED <<run, live, changes, rewound>>

\* remove_branches, for those not yet done.
CheckBranch(c) ==
  LET p == cleaner[c] IN
  /\ p.pc = "branches"
  /\ \E r \in p.todo :
       LET q == [p EXCEPT !.todo = @ \ {r}]
           done == \/ r \in p.completed \cup p.failed \cup p.blockedBranches
                   \/ repo[r].branch = 0
       IN
       \/ done /\ Becomes(c, q)
       \/ /\ ~done
          /\ Becomes(c, IF BranchOwned(p, r) /\ repo[r].tip = p.tips[r]
                        THEN [q EXCEPT !.pc = "unref", !.target = {r}]
                        ELSE [q EXCEPT !.errors = @ \cup {r}])
  /\ UNCHANGED <<run, live, repo, changes, rewound>>

\* git update-ref -d with the frozen tip
Unref(c) ==
  LET p == cleaner[c] IN
  /\ p.pc = "unref"
  /\ \/ \E r \in p.target :
          /\ repo[r].branch # 0 /\ repo[r].tip = p.tips[r]
          /\ repo' = [repo EXCEPT ![r].branch = 0]
          /\ Becomes(c, Back(p, "branches"))
     \/ /\ Becomes(c, Back(Failing(p), "branches"))
        /\ UNCHANGED repo
  /\ UNCHANGED <<run, live, changes, rewound>>

-----------------------------------------------------------------------------
(* Audit and deletion of the record.                                       *)

\* finish_cleanup_audit; log files and project metadata may have failed.
Finish(c) ==
  LET p == cleaner[c] IN
  /\ p.pc = "finish"
  /\ \E others \in BOOLEAN :
       LET bad == \/ p.errors # {} \/ run # p.base
                  \/ "others" \in p.selected /\ others
       IN
       /\ run' = [run EXCEPT !.audit = IF bad THEN "partial" ELSE "done"]
       /\ Becomes(c, IF "run_store" \in p.selected /\ ~bad
                     THEN [p EXCEPT !.pc = "delete", !.base = run']
                     ELSE Free)
  /\ UNCHANGED <<live, repo, changes, rewound>>

\* A deletion that does not compare the record.
DeleteUnchecked(c) ==
  /\ cleaner[c].pc = "delete"
  /\ run' = NoRun
  /\ Leave(c)
  /\ UNCHANGED <<live, repo, changes, rewound>>

\* delete_audited_run: if the record has changed, or cannot be unlinked, it is
\* kept with a partial audit.
Delete(c) ==
  LET p == cleaner[c] IN
  /\ p.pc = "delete"
  /\ \/ run = p.base /\ run' = NoRun
     \/ run' = [run EXCEPT !.audit = "partial"]
  /\ Leave(c)
  /\ UNCHANGED <<live, repo, changes, rewound>>

\* The process dies: the lease and the lock on the ref go with it.
Die(c) ==
  /\ cleaner[c].pc # "idle"
  /\ Leave(c)
  /\ UNCHANGED <<run, live, repo, changes, rewound>>

Cleanup(c) ==
  \/ Request(c) \/ LookAtWorktree(c) \/ LookForDirt(c) \/ LookAtTip(c)
  \/ LookAtReflog(c) \/ LookAtOwner(c) \/ LookAtHead(c) \/ Looked(c)
  \/ Refuse(c) \/ Begin(c) \/ DeleteSession(c) \/ NextKind(c) \/ CheckWorktree(c)
  \/ Prepare(c) \/ Verify(c) \/ Remove(c) \/ Commit(c) \/ CheckBranch(c)
  \/ Unref(c) \/ Finish(c) \/ Delete(c)

Next == Others \/ \E c \in Cleaners : Cleanup(c) \/ Die(c)

Spec == Init /\ [][Next]_vars

-----------------------------------------------------------------------------
(* Properties.                                                             *)

Looking  == {"preflight", "status", "preflight_branches", "reflog", "owner",
             "merged", "begin"}
Branch   == {"verify", "remove", "commit"}
Removing == Branch \cup {"sessions", "worktrees", "prepare", "branches",
                         "unref", "finish"}
Stages   == Looking \cup Removing \cup {"idle", "delete"}

RunRecord ==
  [exists : BOOLEAN, active : BOOLEAN, sessions : SUBSET Sessions,
   owned : [Resources -> [worktree : Nat, branch : Nat]],
   audit : {"none", "in_progress", "partial", "done"}]

CleanerState ==
  [pc : Stages, force : BOOLEAN,
   selected : SUBSET Categories, plan : RunRecord, base : RunRecord,
   blockedWorktrees : SUBSET Resources, blockedBranches : SUBSET Resources,
   tips : [Resources -> 0 .. MaxTip], ids : SUBSET Sessions,
   todo : SUBSET Resources, target : SUBSET Resources, held : BOOLEAN,
   failed : SUBSET Resources, completed : SUBSET Resources,
   errors : SUBSET (Resources \cup Sessions)]

TypeOK ==
  /\ run \in RunRecord
  /\ live \subseteq Sessions
  /\ repo \in [Resources ->
                [path : Nat, registration : Nat, attached : BOOLEAN,
                 dirty : BOOLEAN, branch : Nat, tip : 1 .. MaxTip,
                 merged : 1 .. MaxTip, made : Nat]]
  /\ changes \in 0 .. MaxChanges /\ rewound \subseteq Resources
  /\ cleaner \in [Cleaners -> CleanerState]
  /\ \A c \in Cleaners : cleaner[c].held => cleaner[c].pc \in Branch

\* While a cleanup removes things the record stays as it was when the audit
\* began: nothing is added that it does not know of (cleanup_lease, the fence
\* of update_run and the comparison of begin_cleanup_audit together).
PlanStaysTrue ==
  \A c \in Cleaners : cleaner[c].pc \in Removing => run = cleaner[c].base

\* Nothing is removed under an active worker, unless by force
\* (active_cleanup_is_blocked, although it looks at a record loaded earlier).
SparesActiveWorkers ==
  \A c \in Cleaners :
    cleaner[c].pc \in Removing /\ ~cleaner[c].force => ~run.active

RemovesBranch(c, r) ==
  /\ cleaner'[c] # cleaner[c]
  /\ repo[r].branch # 0 /\ repo'[r].branch = 0

RemovesWorktree(c, r) ==
  /\ cleaner'[c] # cleaner[c]
  /\ repo[r].path # 0 /\ repo'[r].path = 0

\* A branch is deleted at the tip its preflight saw, however it moved since
\* (BranchDeleteTransaction and the tip comparison of remove_branches).
DeletesFrozenTip ==
  [][\A c \in Cleaners, r \in Resources :
       RemovesBranch(c, r) => repo[r].tip = cleaner[c].tips[r]]_vars

\* Without force no unsaved work is lost, and no unmerged commit unless users
\* have moved the branch or HEAD back since the preflight read the tip: the
\* tip, the merge and the deletion are three looks at what others change
\* (preflight_branches, remove_worktrees).
SparesWork ==
  [][\A c \in Cleaners, r \in Resources : ~cleaner[c].force =>
       /\ RemovesWorktree(c, r) => ~repo[r].dirty
       /\ RemovesBranch(c, r) /\ r \notin rewound =>
            repo[r].tip <= repo[r].merged]_vars

\* The record is deleted last: all it lists of the kinds selected is gone
\* (RunCleanupExecutor.execute, delete_audited_run).
DeletesRecordLast ==
  [][\A c \in Cleaners :
       LET p == cleaner[c] IN
       (p.pc = "delete" /\ run.exists /\ ~run'.exists) =>
         /\ "sessions" \in p.selected => run.sessions \cap live = {}
         /\ \A r \in Resources : run.owned[r] # Unregistered =>
              /\ "worktrees" \in p.selected =>
                   \/ repo[r].path # run.owned[r].worktree
                   \/ repo[r].registration # run.owned[r].worktree
              /\ "branches" \in p.selected =>
                   repo[r].branch # run.owned[r].branch]_vars

\* A cleanup deletes a branch only after its worktree (docs/ocs/
\* command-reference.md:83, "removes the verified worktree, and deletes the
\* ref").
BranchAfterWorktree ==
  [][\A c \in Cleaners, r \in Resources :
       RemovesBranch(c, r) =>
         repo[r].path # cleaner[c].plan.owned[r].worktree]_vars
=============================================================================
