------------------------- MODULE ProjectCopyCleanup -------------------------
(***************************************************************************)
(* Cleanup of the metadata of one project: the directories (project        *)
(* copies), sandboxes and workspaces the server still has registered after *)
(* their directories are gone.                                             *)
(*                                                                         *)
(* project-copy cleanup --apply treats one prefix; run cleanup treats      *)
(* every prefix the run owns, plans all of them before it changes          *)
(* anything, counts the worktrees it is about to remove as missing, and    *)
(* freezes what a refresh may unregister.  The refresh is the server's:    *)
(* it drops every missing directory of the project, whoever owns it.  The  *)
(* server offers no removal of a sandbox.                                  *)
(*                                                                         *)
(* Each call to the server is a step of its own, and others create, remove *)
(* and register directories and workspaces between any two of them.        *)
(***************************************************************************)
EXTENDS Naturals, Sequences, FiniteSets

CONSTANTS
  Dirs,        \* directories
  Workspaces,  \* workspace ids
  InvalidIds,  \* those that cannot be put into a path
  Requests,    \* [mode, entries, assumed] a cleanup may be called with
  Routes,      \* sets of optional routes a server may support
  Worlds,      \* [disk, copies, sandboxes, workspaces] at the start
  MaxChanges,  \* bound on the changes made by others
  Gone,        \* no such workspace
  Foreign      \* the workspace belongs to another project

\* An entry is a prefix: the set of the directories that match it.
ASSUME RequestsAssumption ==
  \A q \in Requests :
    /\ q.mode \in {"standalone", "run"} /\ q.assumed \subseteq Dirs
    /\ q.entries \in Seq(SUBSET Dirs) /\ q.entries # <<>>
    /\ q.mode = "standalone" => Len(q.entries) = 1 /\ q.assumed = {}
ASSUME WorldsAssumption ==
  \A w \in Worlds :
    /\ w.disk \subseteq Dirs /\ w.copies \subseteq Dirs /\ w.sandboxes \subseteq Dirs
    /\ w.workspaces \in [Workspaces -> Dirs \cup {Gone, Foreign}]
ASSUME ProjectBoundsAssumption == MaxChanges \in Nat
ASSUME NamesAssumption ==
  InvalidIds \subseteq Workspaces /\ {Gone, Foreign} \cap Dirs = {}

VARIABLES
  disk,      \* the directories that exist
  server,    \* what the server has registered
  routes,    \* the optional routes it supports
  request,   \* what the cleanup was called with
  pc,        \* where the cleanup is
  at,        \* the entry it is at
  seen,      \* the last answers of the server
  todo,      \* workspaces still to be looked at
  target,    \* the workspace about to be deleted
  outcomes,  \* the outcome of each entry
  news,      \* for each entry, what others changed since its last listing
  changes    \* number of changes made by others

world == <<disk, server, routes>>
vars == <<disk, server, routes, request, pc, at, seen, todo, target, outcomes, news, changes>>

Registered == [copies : SUBSET Dirs, sandboxes : SUBSET Dirs,
               workspaces : [Workspaces -> Dirs \cup {Gone, Foreign}]]

Entries == 1 .. Len(request.entries)
Prefix(i) == request.entries[i]

\* dirs, boxes, spaces: what is planned; allowed: what a refresh may drop;
\* plan: how the plan ended; status: how the entry ended.
NewOutcome == [dirs |-> {}, boxes |-> {}, spaces |-> [w \in Workspaces |-> Gone],
               unrelated |-> {}, allowed |-> {}, unsupported |-> {}, errors |-> {},
               refreshed |-> FALSE, removed |-> {}, plan |-> "none", status |-> "none"]

Init ==
  /\ request \in Requests /\ routes \in Routes
  /\ \E w \in Worlds :
       /\ disk = w.disk
       /\ server = [copies |-> w.copies, sandboxes |-> w.sandboxes,
                    workspaces |-> w.workspaces]
  /\ pc = "project" /\ at = 1 /\ seen = server /\ todo = {} /\ target = Gone
  /\ outcomes = [i \in Entries |-> NewOutcome]
  /\ news = [i \in Entries |-> {}] /\ changes = 0

-----------------------------------------------------------------------------
(* What others do while the cleanup runs.                                  *)

Changed(things) ==
  /\ pc # "ended" /\ changes < MaxChanges /\ changes' = changes + 1
  /\ news' = [i \in Entries |-> news[i] \cup things]
  /\ UNCHANGED <<routes, request, pc, at, seen, todo, target, outcomes>>

TouchDirectory(d) ==
  /\ disk' = IF d \in disk THEN disk \ {d} ELSE disk \cup {d}
  /\ Changed({d}) /\ UNCHANGED server

RegisterDirectory(d) ==
  /\ \/ d \notin server.copies /\ server' = [server EXCEPT !.copies = @ \cup {d}]
     \/ d \notin server.sandboxes /\ server' = [server EXCEPT !.sandboxes = @ \cup {d}]
  /\ Changed({d}) /\ UNCHANGED disk

MoveWorkspace(w) ==
  /\ \E x \in (Dirs \cup {Gone, Foreign}) \ {server.workspaces[w]} :
       server' = [server EXCEPT !.workspaces[w] = x]
  /\ Changed({w}) /\ UNCHANGED disk

Others ==
  \/ \E d \in Dirs : TouchDirectory(d) \/ RegisterDirectory(d)
  \/ \E w \in Workspaces : MoveWorkspace(w)

-----------------------------------------------------------------------------
(* Steps of the cleanup.                                                   *)

Missing(paths) == paths \ disk

\* _is_stale
Stale(paths, prefix) == paths \cap prefix \cap ((Dirs \ disk) \cup request.assumed)

StaleNow(paths, prefix) == Missing(paths) \cap prefix

\* Does not ask for the project of a workspace.
WithinAnyProject(spaces, dirs) == {w \in Workspaces : spaces[w] \in dirs \cup {Foreign}}

\* The workspaces list_workspaces returns that point into a set of directories.
Within(spaces, dirs) == {w \in Workspaces : spaces[w] \in dirs}

Supports(route) == route \in routes

Outcome(o) == outcomes' = [outcomes EXCEPT ![at] = o]
Listing == news' = [news EXCEPT ![at] = {}]

\* The next entry is planned, or the plans are looked at together.
NextPlan ==
  IF at < Len(request.entries) THEN pc' = "project" /\ at' = at + 1
                               ELSE pc' = "freeze" /\ at' = 1

NextApply ==
  IF at < Len(request.entries) THEN pc' = "copies" /\ at' = at + 1
                               ELSE pc' = "ended" /\ UNCHANGED at

ReadProject ==
  /\ pc = "project" /\ pc' = "directories"
  /\ seen' = [seen EXCEPT !.sandboxes = server.sandboxes]
  /\ UNCHANGED <<world, request, at, todo, target, outcomes, news, changes>>

ReadDirectories ==
  /\ pc = "directories" /\ pc' = "workspaces"
  /\ seen' = [seen EXCEPT !.copies = server.copies]
  /\ UNCHANGED <<world, request, at, todo, target, outcomes, news, changes>>

\* What is in the way of the plan; an unsupported list counts as empty.
Unsupported(dirs, boxes, unrelated, matching) ==
  (IF Supports("workspace_collection") THEN {} ELSE {"workspace_collection"})
  \cup (IF boxes # {} THEN {"project_sandbox_remove"} ELSE {})
  \cup (IF dirs # {} /\ unrelated # {} THEN {"project_copy_refresh_unscoped"} ELSE {})
  \cup (IF dirs # {} /\ ~Supports("project_copy_refresh")
          THEN {"project_copy_refresh"} ELSE {})
  \cup (IF matching \cap InvalidIds # {} THEN {"workspace_identity"} ELSE {})
  \cup (IF matching \ InvalidIds # {} /\ ~Supports("workspace_item")
          THEN {"workspace_item"} ELSE {})

ReadWorkspaces ==
  /\ pc = "workspaces" /\ NextPlan
  /\ LET spaces == IF Supports("workspace_collection")
                     THEN server.workspaces ELSE NewOutcome.spaces
         dirs == Stale(seen.copies, Prefix(at))
         boxes == Stale(seen.sandboxes, Prefix(at))
         unrelated == Missing(seen.copies) \ dirs
         matching == Within(spaces, Stale(Dirs, Prefix(at)))
     IN Outcome([NewOutcome EXCEPT
                   !.dirs = dirs, !.boxes = boxes, !.unrelated = unrelated,
                   !.spaces = [w \in Workspaces |->
                                 IF w \in matching \ InvalidIds THEN spaces[w] ELSE Gone],
                   !.unsupported = Unsupported(dirs, boxes, unrelated, matching),
                   !.plan = "planned"])
  /\ UNCHANGED <<world, request, seen, todo, target, news, changes>>

NotPlanned ==
  /\ Outcome([NewOutcome EXCEPT !.plan = "raised", !.status = "raised"])
  /\ IF request.mode = "run" THEN NextPlan ELSE pc' = "ended" /\ UNCHANGED at
  /\ UNCHANGED <<world, request, seen, todo, target, news, changes>>

\* A call of the plan fails: a standalone cleanup ends there.
PlanRaises == pc \in {"project", "directories", "workspaces"} /\ NotPlanned

\* The prefix of a run's entry does not resolve to what was registered.
Disowned == pc = "project" /\ request.mode = "run" /\ NotPlanned

\* Looks at the first plan only.
FirstPlanned(plans) == plans[1].plan = "planned"

\* The run cleanup is blocked by a plan that is not complete.
AllPlanned(plans) == \A i \in Entries : plans[i].plan = "planned"

\* freeze_project_refresh_scope: a refresh may drop what any entry planned.
Freeze ==
  LET together == UNION {outcomes[i].dirs : i \in Entries}
      Frozen(o) ==
        IF o.plan # "planned" THEN o
        ELSE LET unrelated == o.unrelated \ together
                 reasons == IF unrelated # {} THEN o.unsupported
                            ELSE o.unsupported \ {"project_copy_refresh_unscoped"}
             IN [o EXCEPT !.allowed = together, !.unrelated = unrelated,
                          !.unsupported = reasons,
                          !.plan = IF reasons = {} THEN "planned" ELSE "partial"]
      frozen == [i \in Entries |-> Frozen(outcomes[i])]
  IN /\ pc = "freeze" /\ request.mode = "run"
     /\ outcomes' = frozen
     /\ pc' = IF AllPlanned(frozen) THEN "worktrees" ELSE "ended"
     /\ UNCHANGED <<world, request, at, seen, todo, target, news, changes>>

\* A standalone cleanup applies its plan, whatever it could not plan.
GoOn ==
  /\ pc = "freeze" /\ request.mode = "standalone" /\ pc' = "copies"
  /\ UNCHANGED <<world, request, at, seen, todo, target, outcomes, news, changes>>

\* The run cleanup removes its worktrees, or some of them.
RemoveWorktrees ==
  /\ pc = "worktrees" /\ pc' = "copies"
  /\ \E removed \in SUBSET (request.assumed \cap disk) : disk' = disk \ removed
  /\ UNCHANGED <<server, routes, request, at, seen, todo, target, outcomes, news, changes>>

\* Relies on what the plan saw.
UnrelatedWhenPlanned(o, missing) == o.unrelated

\* The missing directories a refresh would drop and this cleanup may not.
Unrelated(o, missing) == missing \ (IF o.allowed # {} THEN o.allowed ELSE o.dirs)

\* _refresh_project_copies up to its call.
ListCopies ==
  LET o == outcomes[at]
      missing == Missing(server.copies)
      unrelated == Unrelated(o, missing)
      Skip(changed) == Outcome(changed) /\ pc' = "list"
  IN /\ pc = "copies" /\ Listing
     /\ \/ o.dirs \cap missing = {} /\ Skip(o)
        \/ /\ o.dirs \cap missing # {} /\ unrelated # {}
           /\ Skip([o EXCEPT !.unrelated = unrelated,
                             !.unsupported = @ \cup {"project_copy_refresh_unscoped"}])
        \/ /\ o.dirs \cap missing # {} /\ unrelated = {}
           /\ IF Supports("project_copy_refresh")
                THEN Outcome([o EXCEPT !.unrelated = {}]) /\ pc' = "refresh"
                ELSE Skip([o EXCEPT !.unrelated = {},
                                    !.unsupported = @ \cup {"project_copy_refresh"}])
     /\ UNCHANGED <<world, request, at, seen, todo, target, changes>>

\* The call is executed, or not; its answer comes back, or not.
Refresh ==
  LET o == outcomes[at]
      Failed == [o EXCEPT !.errors = @ \cup {"project_copy_refresh"}]
  IN /\ pc = "refresh" /\ pc' = "list"
     /\ \/ /\ server' = [server EXCEPT !.copies = @ \cap disk]
           /\ Outcome([o EXCEPT !.refreshed = TRUE]) \/ Outcome(Failed)
        \/ UNCHANGED server /\ Outcome(Failed)
     /\ UNCHANGED <<disk, routes, request, at, seen, todo, target, news, changes>>

Planned(o) == {w \in Workspaces : o.spaces[w] # Gone}

\* _remove_workspaces up to its loop.
ListWorkspaces ==
  LET o == outcomes[at] IN
  /\ pc = "list" /\ Listing
  /\ IF Planned(o) = {} \/ ~Supports("workspace_item")
       THEN /\ Outcome([o EXCEPT !.unsupported = @ \cup
                         IF Planned(o) = {} THEN {} ELSE {"workspace_item"}])
            /\ pc' = "verify" /\ UNCHANGED <<seen, todo>>
       ELSE /\ seen' = [seen EXCEPT !.workspaces = server.workspaces]
            /\ todo' = Planned(o) /\ pc' = "check" /\ UNCHANGED outcomes
  /\ UNCHANGED <<world, request, at, target, changes>>

WorkspaceFailed(o) == [o EXCEPT !.errors = @ \cup {"workspace_remove"}]

\* Looks at the planned directory, whatever the workspace points to by now.
ConfirmedByPlan(planned, current) == planned \notin disk /\ current # Gone

\* The listed workspace is the planned one and its directory is missing.
Confirmed(planned, current) == current = planned /\ current \notin disk

\* A planned workspace the server does not list any more is done with.
CheckWorkspace(w) ==
  LET o == outcomes[at]
      current == seen.workspaces[w]
  IN /\ pc = "check" /\ w \in todo /\ todo' = todo \ {w}
     /\ IF Confirmed(o.spaces[w], current)
          THEN pc' = "delete" /\ target' = w /\ UNCHANGED outcomes
          ELSE /\ UNCHANGED <<pc, target>>
               /\ Outcome(IF current \in {Gone, Foreign} THEN o ELSE WorkspaceFailed(o))
     /\ UNCHANGED <<world, request, at, seen, news, changes>>

DeleteWorkspace ==
  LET o == outcomes[at] IN
  /\ pc = "delete" /\ pc' = "check" /\ target' = Gone
  /\ \/ /\ server' = [server EXCEPT !.workspaces[target] = Gone]
        /\ Outcome([o EXCEPT !.removed = @ \cup {target}]) \/ Outcome(WorkspaceFailed(o))
     \/ UNCHANGED server /\ Outcome(WorkspaceFailed(o))
  /\ UNCHANGED <<disk, routes, request, at, seen, todo, news, changes>>

\* _verify asks for the project first, then its directories, then workspaces.
VerifyProject ==
  /\ pc = "verify" \/ (pc = "check" /\ todo = {})
  /\ pc' = "verify directories" /\ Listing
  /\ seen' = [seen EXCEPT !.sandboxes = server.sandboxes]
  /\ UNCHANGED <<world, request, at, todo, target, outcomes, changes>>

VerifyDirectories ==
  /\ pc = "verify directories" /\ pc' = "verify workspaces"
  /\ seen' = [seen EXCEPT !.copies = server.copies]
  /\ UNCHANGED <<world, request, at, todo, target, outcomes, news, changes>>

\* Forgets the planned directories that exist.
LeftOverMissing(paths, o, prefix) == StaleNow(paths, prefix)

\* The directories left over: planned ones, and what is stale by now.
LeftOver(paths, o, prefix) ==
  (paths \cap (o.dirs \cup o.boxes)) \cup StaleNow(paths, prefix)

VerifyWorkspaces ==
  LET o == outcomes[at]
      boxes == LeftOver(seen.sandboxes, o, Prefix(at))
      copies == LeftOver(seen.copies, o, Prefix(at))
      spaces == IF Supports("workspace_collection")
                  THEN Within(server.workspaces, StaleNow(Dirs, Prefix(at))) ELSE {}
      reasons == o.unsupported \cup
                   IF boxes = {} THEN {} ELSE {"project_sandbox_remove"}
  IN /\ pc = "verify workspaces" /\ NextApply
     /\ Outcome([o EXCEPT !.unsupported = reasons,
                          !.status =
                            IF o.errors # {} THEN "failed"
                            ELSE IF reasons # {} \/ copies # {} \/ spaces # {}
                              THEN "partial" ELSE "done"])
     /\ UNCHANGED <<world, request, seen, todo, target, news, changes>>

\* A call of the verification fails: the outcome is reported with the error.
VerifyFails ==
  /\ pc \in {"check", "verify", "verify directories", "verify workspaces"}
  /\ pc = "check" => todo = {}
  /\ NextApply
  /\ Outcome([outcomes[at] EXCEPT !.errors = @ \cup {"verify"}, !.status = "failed"])
  /\ UNCHANGED <<world, request, seen, todo, target, news, changes>>

\* A list before the changes fails, or the project is not found afterwards:
\* the outcome, with what has been done by then, is lost.
ApplyRaises ==
  /\ \/ pc \in {"copies", "verify"}
     \/ pc = "list" /\ Planned(outcomes[at]) # {} /\ Supports("workspace_item")
     \/ pc = "check" /\ todo = {}
  /\ NextApply
  /\ Outcome([outcomes[at] EXCEPT !.status = "raised"])
  /\ UNCHANGED <<world, request, seen, todo, target, news, changes>>

Cleanup ==
  \/ ReadProject \/ ReadDirectories \/ ReadWorkspaces \/ PlanRaises \/ Disowned
  \/ Freeze \/ GoOn \/ RemoveWorktrees
  \/ ListCopies \/ Refresh \/ ListWorkspaces
  \/ (\E w \in Workspaces : CheckWorkspace(w)) \/ DeleteWorkspace
  \/ VerifyProject \/ VerifyDirectories \/ VerifyWorkspaces
  \/ VerifyFails \/ ApplyRaises

Next == Cleanup \/ Others

Spec == Init /\ [][Next]_vars

-----------------------------------------------------------------------------
(* Properties.                                                             *)

Reasons == {"workspace_collection", "project_sandbox_remove",
            "project_copy_refresh_unscoped", "project_copy_refresh",
            "workspace_identity", "workspace_item"}

Outcomes ==
  [dirs : SUBSET Dirs, boxes : SUBSET Dirs,
   spaces : [Workspaces -> Dirs \cup {Gone}],
   unrelated : SUBSET Dirs, allowed : SUBSET Dirs, unsupported : SUBSET Reasons,
   errors : SUBSET {"project_copy_refresh", "workspace_remove", "verify"},
   refreshed : BOOLEAN, removed : SUBSET Workspaces,
   plan : {"none", "planned", "partial", "raised"},
   status : {"none", "done", "partial", "failed", "raised"}]

\* The variables have their types (the plan and the result of a cleanup).
TypeOK ==
  /\ disk \subseteq Dirs /\ server \in Registered /\ seen \in Registered
  /\ routes \in Routes /\ request \in Requests
  /\ pc \in {"project", "directories", "workspaces", "freeze", "worktrees",
             "copies", "refresh", "list", "check", "delete", "verify",
             "verify directories", "verify workspaces", "ended"}
  /\ at \in Entries /\ todo \subseteq Workspaces
  /\ target \in Workspaces \cup {Gone} /\ (pc = "delete" => target \in Workspaces)
  /\ outcomes \in [Entries -> Outcomes]
  /\ news \in [Entries -> SUBSET (Dirs \cup Workspaces)] /\ changes \in 0 .. MaxChanges

\* The directories this cleanup may have unregistered: in a run cleanup what
\* any of its entries planned.
MayDrop == UNION {outcomes[i].dirs : i \in Entries}

\* The refresh drops every missing directory of the project, but the cleanup
\* asks for it only when all of those are its own: what it unregisters was
\* planned, unless somebody removed or registered the directory after the
\* listing the decision was taken from (_refresh_project_copies).
RefreshIsScoped ==
  [][ \A d \in Dirs :
        pc = "refresh" /\ d \in server.copies /\ d \notin server'.copies =>
          d \in MayDrop \/ d \in news[at] ]_vars

\* A workspace is deleted only while it points to the directory it was planned
\* with and that directory is missing, unless the workspace or the directory
\* has changed since the workspaces were listed (_remove_workspaces).
DeletesOwnWorkspaces ==
  [][ \A w \in Workspaces :
        DeleteWorkspace /\ server.workspaces[w] # Gone /\ server'.workspaces[w] = Gone =>
          \/ w \in news[at]
          \/ /\ server.workspaces[w] = outcomes[at].spaces[w]
             /\ server.workspaces[w] \notin disk \ news[at] ]_vars

\* When a cleanup says "done", no directory it planned is registered any more,
\* no workspace it planned points to its missing directory, and no missing
\* directory of the prefix is left, but for what others changed after the
\* verification began (_verify, and the status apply_plan takes from it).
DoneIsGone ==
  \A i \in Entries : outcomes[i].status = "done" =>
    LET o == outcomes[i]
        left == server.copies \cup server.sandboxes
    IN /\ left \cap (o.dirs \cup o.boxes) \subseteq news[i]
       /\ StaleNow(left, Prefix(i)) \subseteq news[i]
       /\ \A w \in Within(server.workspaces, StaleNow(Dirs, Prefix(i))) :
            w \in news[i] \/ server.workspaces[w] \in news[i]

\* A run cleanup changes nothing, its worktrees included, unless every entry
\* was planned in full, given what its other entries own
\* (_preview_project_metadata, and the executor that only then runs).
PlansTogether ==
  [][ request.mode = "run" /\ Cleanup /\ (disk' # disk \/ server' # server) =>
        \A i \in Entries : outcomes[i].plan = "planned" ]_vars
=============================================================================
