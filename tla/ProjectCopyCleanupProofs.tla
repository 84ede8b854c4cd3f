---------------------- MODULE ProjectCopyCleanupProofs ----------------------
(***************************************************************************)
(* What ProjectCopyCleanup guarantees for any directories, workspaces,     *)
(* prefixes and routes, however often others interfere.  The invariant     *)
(* says of every list the cleanup decides from that it is still true but   *)
(* for what others have changed since (Scoped, Checked, Aimed, Verified),  *)
(* and of the plans that they stay what was decided together (AllPlanned-  *)
(* ByThen, AllowedOwn, ListNoted).                                         *)
(***************************************************************************)
EXTENDS ProjectCopyCleanup, TLAPS

Planning == {"project", "directories", "workspaces", "freeze"}
Applying == {"worktrees", "copies", "refresh", "list", "check", "delete", "verify",
             "verify directories", "verify workspaces"}

\* Nothing is changed before every entry is planned in full.
AllPlannedByThen ==
  (pc \in Applying \/ (pc = "freeze" /\ request.mode = "standalone")) =>
    \A i \in Entries : outcomes[i].plan = "planned"

\* A refresh may drop only what some entry planned.
AllowedOwn ==
  /\ \A i \in Entries : outcomes[i].allowed \subseteq MayDrop
  /\ pc \in Planning => \A i \in Entries : outcomes[i].allowed = {}

\* A list of workspaces the server does not offer is remembered.
ListNoted ==
  \A i \in Entries :
    outcomes[i].plan \in {"planned", "partial"} /\ ~Supports("workspace_collection") =>
      "workspace_collection" \in outcomes[i].unsupported

\* When the refresh is called, what it drops may be dropped.
Scoped == pc = "refresh" => Missing(server.copies) \subseteq MayDrop \cup news[at]

\* The workspaces are those listed, or deleted since.
Checked ==
  pc \in {"check", "delete"} =>
    \A w \in Workspaces :
      w \in news[at] \/ server.workspaces[w] \in {seen.workspaces[w], Gone}

\* The workspace about to be deleted is the planned one.
Aimed ==
  pc = "delete" =>
    /\ outcomes[at].spaces[target] = seen.workspaces[target]
    /\ seen.workspaces[target] \notin disk \ news[at]

\* The verification knows what is registered.
Verified ==
  /\ pc \in {"verify directories", "verify workspaces"} =>
       server.sandboxes \subseteq seen.sandboxes \cup news[at]
  /\ pc = "verify workspaces" => server.copies \subseteq seen.copies \cup news[at]

\* An entry is done when the cleanup has gone on from it.
DonePast ==
  \A i \in Entries : outcomes[i].status = "done" =>
    /\ pc \notin Planning \cup {"worktrees"}
    /\ pc # "ended" => i < at

\* What is done leaves nothing: DoneIsGone, directory by directory.
NothingLeft ==
  \A i \in Entries : outcomes[i].status = "done" =>
    /\ \A d \in server.copies \cup server.sandboxes :
         \/ d \in news[i]
         \/ d \notin outcomes[i].dirs \cup outcomes[i].boxes /\ d \notin Prefix(i) \ disk
    /\ \A w \in Workspaces :
         \/ w \in news[i] \/ server.workspaces[w] \in news[i]
         \/ server.workspaces[w] \notin Prefix(i) \ disk

IInv ==
  /\ TypeOK /\ AllPlannedByThen /\ AllowedOwn /\ ListNoted
  /\ Scoped /\ Checked /\ Aimed /\ Verified /\ DonePast /\ NothingLeft

-----------------------------------------------------------------------------
(* Types.                                                                  *)

\* What a request says of the entries.
LEMMA RequestTyped ==
  ASSUME request \in Requests
  PROVE  /\ Len(request.entries) \in Nat /\ 1 \in Entries /\ Entries \subseteq Nat
         /\ request.assumed \subseteq Dirs
         /\ \A i \in Entries : Prefix(i) \subseteq Dirs
         /\ request.mode \in {"standalone", "run"}
         /\ request.mode = "standalone" => Entries = {1}
<1>1. /\ request.assumed \subseteq Dirs /\ request.mode \in {"standalone", "run"}
      /\ request.entries \in Seq(SUBSET Dirs) /\ request.entries # <<>>
      /\ request.mode = "standalone" => Len(request.entries) = 1
  BY RequestsAssumption
<1>2. Len(request.entries) \in Nat /\ Len(request.entries) >= 1
  BY <1>1
<1>3. \A i \in Entries : Prefix(i) \subseteq Dirs
  BY <1>1, <1>2 DEF Entries, Prefix
<1>4. \A n \in Nat : n >= 1 => 1 \in 1 .. n /\ 1 .. n \subseteq Nat /\ (n = 1 => 1 .. n = {1})
  OBVIOUS
<1>5. 1 \in Entries /\ Entries \subseteq Nat /\ (Len(request.entries) = 1 => Entries = {1})
  BY <1>2, <1>4 DEF Entries
<1>6. QED
  BY <1>1, <1>2, <1>3, <1>5

\* The entries and their prefixes stay what they are.
LEMMA EntriesStay ==
  ASSUME UNCHANGED request
  PROVE  Entries' = Entries /\ \A i : Prefix(i)' = Prefix(i)
BY DEF Entries, Prefix

\* An outcome before its entry is planned.
LEMMA NewOutcomeTyped ==
  /\ NewOutcome \in Outcomes
  /\ [NewOutcome EXCEPT !.plan = "raised", !.status = "raised"] \in Outcomes
<1>1. NewOutcome \in Outcomes
  BY DEF NewOutcome, Outcomes
<1>2. QED
  BY DEF NewOutcome, Outcomes

\* The fields of an outcome.
LEMMA OutcomeFields ==
  ASSUME NEW o \in Outcomes
  PROVE  /\ o.dirs \in SUBSET Dirs /\ o.boxes \in SUBSET Dirs
         /\ o.spaces \in [Workspaces -> Dirs \cup {Gone}]
         /\ o.unrelated \in SUBSET Dirs /\ o.allowed \in SUBSET Dirs
         /\ o.unsupported \in SUBSET Reasons
         /\ o.errors \in SUBSET {"project_copy_refresh", "workspace_remove", "verify"}
         /\ o.removed \in SUBSET Workspaces
         /\ o.status \in {"none", "done", "partial", "failed", "raised"}
         /\ o.plan \in {"none", "planned", "partial", "raised"}
BY DEF Outcomes

\* What applying a plan leaves of it.
Kept(o, p) ==
  /\ p \in Outcomes
  /\ p.dirs = o.dirs /\ p.boxes = o.boxes /\ p.spaces = o.spaces
  /\ p.allowed = o.allowed /\ p.plan = o.plan
  /\ o.unsupported \subseteq p.unsupported

\* The same, when it does not become done.
Undone(o, p) == Kept(o, p) /\ p.status \in {o.status, "failed", "raised"}

\* The ways an outcome goes on while its plan is applied.
LEMMA KeptEdits ==
  ASSUME NEW o \in Outcomes
  PROVE  /\ Undone(o, o)
         /\ \A u \in SUBSET Dirs, r \in SUBSET Reasons :
              /\ Undone(o, [o EXCEPT !.unrelated = u, !.unsupported = @ \cup r])
              /\ Undone(o, [o EXCEPT !.unrelated = u])
              /\ Undone(o, [o EXCEPT !.unsupported = @ \cup r])
         /\ \A e \in {"project_copy_refresh", "workspace_remove"} :
              Undone(o, [o EXCEPT !.errors = @ \cup {e}])
         /\ Undone(o, [o EXCEPT !.refreshed = TRUE])
         /\ \A w \in Workspaces : Undone(o, [o EXCEPT !.removed = @ \cup {w}])
<1>1. Undone(o, o)
  BY DEF Undone, Kept
<1>2. ASSUME NEW u \in SUBSET Dirs, NEW r \in SUBSET Reasons
      PROVE  Undone(o, [o EXCEPT !.unrelated = u, !.unsupported = @ \cup r])
  BY DEF Undone, Kept, Outcomes
<1>3. ASSUME NEW u \in SUBSET Dirs
      PROVE  Undone(o, [o EXCEPT !.unrelated = u])
  BY DEF Undone, Kept, Outcomes
<1>4. ASSUME NEW r \in SUBSET Reasons
      PROVE  Undone(o, [o EXCEPT !.unsupported = @ \cup r])
  BY DEF Undone, Kept, Outcomes
<1>5. ASSUME NEW e \in {"project_copy_refresh", "workspace_remove"}
      PROVE  Undone(o, [o EXCEPT !.errors = @ \cup {e}])
  BY DEF Undone, Kept, Outcomes
<1>6. Undone(o, [o EXCEPT !.refreshed = TRUE])
  BY Zenon DEF Undone, Kept, Outcomes
<1>7. ASSUME NEW w \in Workspaces
      PROVE  Undone(o, [o EXCEPT !.removed = @ \cup {w}])
  BY DEF Undone, Kept, Outcomes
<1>8. QED
  BY <1>1, <1>2, <1>3, <1>4, <1>5, <1>6, <1>7, Zenon

\* The ways an outcome ends.
LEMMA KeptEnds ==
  ASSUME NEW o \in Outcomes
  PROVE  /\ Undone(o, [o EXCEPT !.status = "raised"])
         /\ Undone(o, [o EXCEPT !.errors = @ \cup {"verify"}, !.status = "failed"])
         /\ \A r \in SUBSET Reasons, status \in {"failed", "partial", "done"} :
              o.unsupported \subseteq r =>
                Kept(o, [o EXCEPT !.unsupported = r, !.status = status])
<1>1. Undone(o, [o EXCEPT !.status = "raised"])
  BY DEF Undone, Kept, Outcomes
<1>2. Undone(o, [o EXCEPT !.errors = @ \cup {"verify"}, !.status = "failed"])
  BY DEF Undone, Kept, Outcomes
<1>3. ASSUME NEW r \in SUBSET Reasons, NEW status \in {"failed", "partial", "done"},
             o.unsupported \subseteq r
      PROVE  Kept(o, [o EXCEPT !.unsupported = r, !.status = status])
  BY <1>3 DEF Kept, Outcomes
<1>4. QED
  BY <1>1, <1>2, <1>3, Zenon

-----------------------------------------------------------------------------
(* The steps that apply a plan.                                            *)

Apply ==
  \/ ListCopies \/ Refresh \/ ListWorkspaces
  \/ (\E w \in Workspaces : CheckWorkspace(w)) \/ DeleteWorkspace
  \/ VerifyProject \/ VerifyDirectories \/ VerifyWorkspaces
  \/ VerifyFails \/ ApplyRaises

\* Every entry keeps its plan.
SamePlans ==
  /\ outcomes' \in [Entries -> Outcomes]
  /\ \A i \in Entries : Kept(outcomes[i], outcomes'[i])
  /\ \A i \in Entries \ {at} : outcomes'[i] = outcomes[i]

\* An outcome that goes on, or does not, leaves the plans.
LEMMA OutcomeKeeps ==
  ASSUME TypeOK, NEW p, Kept(outcomes[at], p),
         Outcome(p) \/ (UNCHANGED outcomes /\ p = outcomes[at])
  PROVE  SamePlans /\ outcomes'[at] = p
<1>1. outcomes \in [Entries -> Outcomes] /\ at \in Entries /\ p \in Outcomes
  BY Zenon DEF TypeOK, Kept
<1>2. outcomes' = [outcomes EXCEPT ![at] = p]
  BY <1>1 DEF Outcome
<1>3. /\ outcomes' \in [Entries -> Outcomes] /\ outcomes'[at] = p
      /\ \A i \in Entries \ {at} : outcomes'[i] = outcomes[i]
  BY <1>1, <1>2
<1>4. \A i \in Entries : Kept(outcomes[i], outcomes[i])
  BY <1>1, KeptEdits, Zenon DEF Undone
<1>5. \A i \in Entries : Kept(outcomes[i], outcomes'[i])
  BY <1>3, <1>4
<1>6. QED
  BY <1>3, <1>5 DEF SamePlans

LEMMA ListCopiesKeeps ==
  ASSUME TypeOK, ListCopies
  PROVE  SamePlans /\ Undone(outcomes[at], outcomes'[at])
<1>1. outcomes[at] \in Outcomes /\ server.copies \in SUBSET Dirs
  BY Zenon DEF TypeOK, Registered
<1> DEFINE o == outcomes[at]
           missing == Missing(server.copies)
           u == Unrelated(o, missing)
<1>2. u \in SUBSET Dirs
  BY <1>1 DEF Missing, Unrelated
<1>3. \/ Outcome(o)
      \/ Outcome([o EXCEPT !.unrelated = u,
                           !.unsupported = @ \cup {"project_copy_refresh_unscoped"}])
      \/ u = {} /\ Outcome([o EXCEPT !.unrelated = {}])
      \/ u = {} /\ Outcome([o EXCEPT !.unrelated = {},
                                     !.unsupported = @ \cup {"project_copy_refresh"}])
  BY DEF ListCopies
<1>4. /\ {"project_copy_refresh_unscoped"} \in SUBSET Reasons
      /\ {"project_copy_refresh"} \in SUBSET Reasons /\ {} \in SUBSET Dirs
  BY DEF Reasons
<1>5. /\ Undone(o, o) /\ Undone(o, [o EXCEPT !.unrelated = {}])
      /\ Undone(o, [o EXCEPT !.unrelated = u,
                           !.unsupported = @ \cup {"project_copy_refresh_unscoped"}])
      /\ Undone(o, [o EXCEPT !.unrelated = {},
                           !.unsupported = @ \cup {"project_copy_refresh"}])
  BY <1>1, <1>2, <1>4, KeptEdits, Zenon
<1> HIDE DEF o, u
<1>6. QED
  BY <1>3, <1>5, OutcomeKeeps DEF o, Undone

LEMMA RefreshKeeps ==
  ASSUME TypeOK, Refresh
  PROVE  SamePlans /\ Undone(outcomes[at], outcomes'[at])
<1>1. outcomes[at] \in Outcomes
  BY Zenon DEF TypeOK
<1> DEFINE o == outcomes[at]
<1>2. \/ Outcome([o EXCEPT !.refreshed = TRUE])
      \/ Outcome([o EXCEPT !.errors = @ \cup {"project_copy_refresh"}])
  BY DEF Refresh
<1>3. /\ Undone(o, [o EXCEPT !.refreshed = TRUE])
      /\ Undone(o, [o EXCEPT !.errors = @ \cup {"project_copy_refresh"}])
  BY <1>1, KeptEdits, Zenon
<1> HIDE DEF o
<1>4. QED
  BY <1>2, <1>3, OutcomeKeeps DEF o, Undone

LEMMA WorkspacesKeep ==
  ASSUME TypeOK,
         ListWorkspaces \/ (\E w \in Workspaces : CheckWorkspace(w)) \/ DeleteWorkspace
  PROVE  SamePlans /\ Undone(outcomes[at], outcomes'[at])
<1>1. outcomes[at] \in Outcomes
  BY Zenon DEF TypeOK
<1> DEFINE o == outcomes[at]
           r == IF Planned(o) = {} THEN {} ELSE {"workspace_item"}
<1>2. /\ r \in SUBSET Reasons
      /\ (pc = "delete" => target \in Workspaces)
  BY Zenon DEF Reasons, TypeOK
<1>3. \/ Outcome([o EXCEPT !.unsupported = @ \cup r])
      \/ Outcome([o EXCEPT !.errors = @ \cup {"workspace_remove"}])
      \/ target \in Workspaces /\ Outcome([o EXCEPT !.removed = @ \cup {target}])
      \/ Outcome(o) \/ UNCHANGED outcomes
  BY <1>2 DEF ListWorkspaces, CheckWorkspace, DeleteWorkspace, WorkspaceFailed
<1>4. /\ Undone(o, [o EXCEPT !.unsupported = @ \cup r])
      /\ Undone(o, [o EXCEPT !.errors = @ \cup {"workspace_remove"}])
      /\ target \in Workspaces => Undone(o, [o EXCEPT !.removed = @ \cup {target}])
      /\ Undone(o, o)
  BY <1>1, <1>2, KeptEdits, Zenon
<1> HIDE DEF o, r
<1>5. QED
  BY <1>3, <1>4, OutcomeKeeps DEF o, Undone

\* What VerifyWorkspaces makes of the outcome.
LEMMA VerifyWorkspacesKeeps ==
  ASSUME TypeOK, VerifyWorkspaces
  PROVE  SamePlans
<1>1. outcomes[at] \in Outcomes
  BY Zenon DEF TypeOK
<1> DEFINE o == outcomes[at]
<1>2. PICK r \in SUBSET Reasons, status \in {"failed", "partial", "done"} :
        o.unsupported \subseteq r /\ Outcome([o EXCEPT !.unsupported = r, !.status = status])
  <2> DEFINE boxes == LeftOver(seen.sandboxes, o, Prefix(at))
             copies == LeftOver(seen.copies, o, Prefix(at))
             spaces == IF Supports("workspace_collection")
                         THEN Within(server.workspaces, StaleNow(Dirs, Prefix(at))) ELSE {}
             reasons == o.unsupported \cup
                          IF boxes = {} THEN {} ELSE {"project_sandbox_remove"}
             status == IF o.errors # {} THEN "failed"
                       ELSE IF reasons # {} \/ copies # {} \/ spaces # {}
                         THEN "partial" ELSE "done"
  <2>1. Outcome([o EXCEPT !.unsupported = reasons, !.status = status])
    BY Zenon DEF VerifyWorkspaces
  <2>2. reasons \in SUBSET Reasons /\ o.unsupported \subseteq reasons
    BY <1>1, OutcomeFields DEF Reasons
  <2>3. status \in {"failed", "partial", "done"}
    BY SMTT(30)
  <2> HIDE DEF o, reasons, status
  <2>4. QED
    BY <2>1, <2>2, <2>3, Zenon
<1>3. Kept(o, [o EXCEPT !.unsupported = r, !.status = status])
  BY <1>1, <1>2, KeptEnds, Zenon
<1> HIDE DEF o
<1>4. QED
  BY <1>2, <1>3, OutcomeKeeps DEF o

\* Applying a plan never changes a plan.
LEMMA ApplyKeeps ==
  ASSUME TypeOK, Apply
  PROVE  /\ SamePlans
         /\ VerifyWorkspaces \/ Undone(outcomes[at], outcomes'[at])
<1>1. outcomes[at] \in Outcomes
  BY Zenon DEF TypeOK
<1>2. /\ Undone(outcomes[at], outcomes[at])
      /\ Undone(outcomes[at], [outcomes[at] EXCEPT !.status = "raised"])
      /\ Undone(outcomes[at], [outcomes[at] EXCEPT !.errors = @ \cup {"verify"},
                                                   !.status = "failed"])
  BY <1>1, KeptEdits, KeptEnds, Zenon
<1>3. CASE VerifyProject \/ VerifyDirectories
  BY <1>2, <1>3, OutcomeKeeps, Zenon
    DEF Undone, VerifyProject, VerifyDirectories
<1>4. CASE VerifyFails
  BY <1>2, <1>4, OutcomeKeeps, Zenon DEF Undone, VerifyFails
<1>5. CASE ApplyRaises
  BY <1>2, <1>5, OutcomeKeeps DEF Undone, ApplyRaises
<1>6. QED
  BY <1>3, <1>4, <1>5, ListCopiesKeeps, RefreshKeeps, WorkspacesKeep,
     VerifyWorkspacesKeeps DEF Apply

-----------------------------------------------------------------------------
(* Type correctness.                                                       *)

\* The cleanup goes on with the next entry, or from planning to applying.
LEMMA NextTyped ==
  ASSUME request \in Requests, at \in Entries, NextPlan \/ NextApply
  PROVE  at' \in Entries
BY RequestTyped DEF NextPlan, NextApply, Entries

\* A new listing starts the list of what others changed.
LEMMA ListingTyped ==
  ASSUME TypeOK, Listing \/ UNCHANGED news, UNCHANGED request
  PROVE  news' \in [Entries -> SUBSET (Dirs \cup Workspaces)]
BY Zenon DEF TypeOK, Listing

LEMMA OthersTyped ==
  ASSUME TypeOK, Others
  PROVE  TypeOK'
<1>1. ASSUME NEW things \in SUBSET (Dirs \cup Workspaces), Changed(things),
             disk' \subseteq Dirs, server' \in Registered
      PROVE  TypeOK'
  <2>1. changes' \in 0 .. MaxChanges
    <3>1. changes \in 0 .. MaxChanges
      BY Zenon DEF TypeOK
    <3>2. changes < MaxChanges /\ changes' = changes + 1
      BY <1>1 DEF Changed
    <3>3. QED
      BY <3>1, <3>2, ProjectBoundsAssumption
  <2>2. news' \in [Entries -> SUBSET (Dirs \cup Workspaces)]
    BY <1>1, Zenon DEF TypeOK, Changed
  <2>3. Entries' = Entries
    BY <1>1, EntriesStay DEF Changed
  <2>4. QED
    BY <1>1, <2>1, <2>2, <2>3, Zenon DEF TypeOK, Changed
<1>2. ASSUME NEW d \in Dirs, TouchDirectory(d)
      PROVE  TypeOK'
  BY <1>1, <1>2, Zenon DEF TouchDirectory, TypeOK
<1>3. ASSUME NEW d \in Dirs, RegisterDirectory(d)
      PROVE  TypeOK'
  <2>1. server \in Registered
    BY Zenon DEF TypeOK
  <2>2. /\ [server EXCEPT !.copies = @ \cup {d}] \in Registered
        /\ [server EXCEPT !.sandboxes = @ \cup {d}] \in Registered
    BY <2>1 DEF Registered
  <2>3. QED
    BY <1>1, <1>3, <2>2, Zenon DEF RegisterDirectory, TypeOK
<1>4. ASSUME NEW w \in Workspaces, MoveWorkspace(w)
      PROVE  TypeOK'
  <2>1. server \in Registered
    BY Zenon DEF TypeOK
  <2>2. \A x \in Dirs \cup {Gone, Foreign} :
          [server EXCEPT !.workspaces[w] = x] \in Registered
    BY <2>1 DEF Registered
  <2>3. QED
    BY <1>1, <1>4, <2>2, Zenon DEF MoveWorkspace, TypeOK
<1>5. QED
  BY <1>2, <1>3, <1>4 DEF Others

\* Reading a list keeps the types.
LEMMA ReadTyped ==
  ASSUME TypeOK, ReadProject \/ ReadDirectories
  PROVE  TypeOK'
<1>1. seen' \in Registered
  BY Zenon DEF ReadProject, ReadDirectories, TypeOK, Registered
<1>2. Entries' = Entries
  BY EntriesStay DEF ReadProject, ReadDirectories
<1>3. QED
  BY <1>1, <1>2, Zenon DEF ReadProject, ReadDirectories, TypeOK, world

\* What ReadWorkspaces plans.
LEMMA PlanTyped ==
  ASSUME TypeOK, ReadWorkspaces
  PROVE  \E o \in Outcomes :
           /\ Outcome(o) /\ o.plan = "planned" /\ o.status = "none" /\ o.allowed = {}
           /\ ~Supports("workspace_collection") =>
                "workspace_collection" \in o.unsupported
<1> DEFINE spaces == IF Supports("workspace_collection")
                       THEN server.workspaces ELSE NewOutcome.spaces
           dirs == Stale(seen.copies, Prefix(at))
           boxes == Stale(seen.sandboxes, Prefix(at))
           unrelated == Missing(seen.copies) \ dirs
           matching == Within(spaces, Stale(Dirs, Prefix(at)))
           planned == [w \in Workspaces |->
                         IF w \in matching \ InvalidIds THEN spaces[w] ELSE Gone]
           reasons == Unsupported(dirs, boxes, unrelated, matching)
           o == [NewOutcome EXCEPT
                   !.dirs = dirs, !.boxes = boxes, !.unrelated = unrelated,
                   !.spaces = planned, !.unsupported = reasons, !.plan = "planned"]
<1>1. /\ dirs \in SUBSET Dirs /\ boxes \in SUBSET Dirs /\ unrelated \in SUBSET Dirs
  BY Zenon DEF TypeOK, Registered, Stale, Missing
<1>2. \A w \in matching : spaces[w] \in Dirs
  BY DEF Within, Stale
<1>3. planned \in [Workspaces -> Dirs \cup {Gone}]
  <2> HIDE DEF matching, spaces
  <2> QED
    BY <1>2
<1>4. /\ reasons \in SUBSET Reasons
      /\ ~Supports("workspace_collection") => "workspace_collection" \in reasons
  BY DEF Unsupported, Reasons
<1>5. Outcome(o)
  BY DEF ReadWorkspaces
<1> HIDE DEF dirs, boxes, unrelated, planned, reasons
<1>6. /\ o \in Outcomes /\ o.plan = "planned" /\ o.status = "none"
      /\ o.allowed = {} /\ o.unsupported = reasons
  BY <1>1, <1>3, <1>4 DEF NewOutcome, Outcomes
<1>7. QED
  BY <1>4, <1>5, <1>6

\* An outcome of its own for the entry at work.
LEMMA OutcomeTyped ==
  ASSUME TypeOK, NEW o \in Outcomes, Outcome(o)
  PROVE  /\ outcomes' \in [Entries -> Outcomes] /\ outcomes'[at] = o
         /\ \A i \in Entries \ {at} : outcomes'[i] = outcomes[i]
BY Zenon DEF TypeOK, Outcome

\* Freeze only adds what a refresh may drop, and takes reasons away.
LEMMA FreezeTyped ==
  ASSUME TypeOK, Freeze
  PROVE  /\ outcomes' \in [Entries -> Outcomes]
         /\ \A i \in Entries :
              LET o == outcomes[i]
                  p == outcomes'[i]
              IN /\ p.dirs = o.dirs /\ p.status = o.status
                 /\ p.allowed = o.allowed \/ p.allowed = MayDrop
                 /\ p.plan = o.plan \/ (o.plan = "planned" /\ p.plan = "partial")
                 /\ "workspace_collection" \in o.unsupported =>
                      "workspace_collection" \in p.unsupported
<1> DEFINE Unrelated1(o) == o.unrelated \ MayDrop
           Reasons1(o) == IF Unrelated1(o) # {} THEN o.unsupported
                          ELSE o.unsupported \ {"project_copy_refresh_unscoped"}
           Frozen(o) ==
             IF o.plan # "planned" THEN o
             ELSE [o EXCEPT !.allowed = MayDrop, !.unrelated = Unrelated1(o),
                            !.unsupported = Reasons1(o),
                            !.plan = IF Reasons1(o) = {} THEN "planned" ELSE "partial"]
<1>1. outcomes' = [i \in Entries |-> Frozen(outcomes[i])]
  BY Zenon DEF Freeze, MayDrop
<1>2. outcomes \in [Entries -> Outcomes]
  BY Zenon DEF TypeOK
<1>3. MayDrop \in SUBSET Dirs
  BY <1>2, OutcomeFields DEF MayDrop
<1>4. ASSUME NEW o \in Outcomes
      PROVE  /\ Frozen(o) \in Outcomes
             /\ Frozen(o).dirs = o.dirs /\ Frozen(o).status = o.status
             /\ Frozen(o).allowed = o.allowed \/ Frozen(o).allowed = MayDrop
             /\ \/ Frozen(o).plan = o.plan
                \/ o.plan = "planned" /\ Frozen(o).plan = "partial"
             /\ "workspace_collection" \in o.unsupported =>
                  "workspace_collection" \in Frozen(o).unsupported
  <2>1. /\ Unrelated1(o) \in SUBSET Dirs /\ Reasons1(o) \in SUBSET Reasons
        /\ "workspace_collection" \in o.unsupported =>
             "workspace_collection" \in Reasons1(o)
    BY OutcomeFields
  <2> DEFINE u == Unrelated1(o)
             r == Reasons1(o)
             plan == IF r = {} THEN "planned" ELSE "partial"
  <2>2. Frozen(o) = IF o.plan # "planned" THEN o
                    ELSE [o EXCEPT !.allowed = MayDrop, !.unrelated = u,
                                   !.unsupported = r, !.plan = plan]
    OBVIOUS
  <2>3. plan \in {"planned", "partial"}
    OBVIOUS
  <2> HIDE DEF u, r, plan, Frozen
  <2>4. ASSUME o.plan = "planned"
        PROVE  LET p == [o EXCEPT !.allowed = MayDrop, !.unrelated = u,
                                  !.unsupported = r, !.plan = plan]
               IN /\ p \in Outcomes /\ p.dirs = o.dirs /\ p.status = o.status
                  /\ p.allowed = MayDrop /\ p.plan = plan /\ p.unsupported = r
    BY <1>3, <2>1, <2>3, Zenon DEF Outcomes, u, r
  <2>5. "workspace_collection" \in o.unsupported => "workspace_collection" \in r
    BY <2>1 DEF r
  <2>6. QED
    BY <2>2, <2>3, <2>4, <2>5
<1> HIDE DEF Frozen
<1>5. \A i \in Entries : outcomes'[i] = Frozen(outcomes[i])
  BY <1>1
<1>6. outcomes' \in [Entries -> Outcomes]
  BY <1>1, <1>2, <1>4
<1>7. QED
  BY <1>2, <1>4, <1>5, <1>6

\* Planning keeps the types.
LEMMA PlanningTyped ==
  ASSUME TypeOK,
         ReadWorkspaces \/ PlanRaises \/ Disowned \/ Freeze \/ GoOn \/ RemoveWorktrees
  PROVE  TypeOK'
<1>1. Entries' = Entries
  BY EntriesStay, Zenon
    DEF ReadWorkspaces, PlanRaises, Disowned, NotPlanned, Freeze, GoOn,
                     RemoveWorktrees
<1>2. request \in Requests /\ at \in Entries
  BY Zenon DEF TypeOK
<1>3. CASE ReadWorkspaces
  <2>1. outcomes' \in [Entries -> Outcomes]
    BY <1>3, PlanTyped, OutcomeTyped
  <2>2. at' \in Entries /\ pc' \in {"project", "freeze"}
    BY <1>2, <1>3, NextTyped DEF ReadWorkspaces, NextPlan
  <2>3. QED
    BY <1>1, <1>3, <2>1, <2>2, Zenon DEF ReadWorkspaces, TypeOK, world
<1>4. CASE PlanRaises \/ Disowned
  <2>1. outcomes' \in [Entries -> Outcomes]
    BY <1>4, NewOutcomeTyped, OutcomeTyped DEF PlanRaises, Disowned, NotPlanned
  <2>2. at' \in Entries /\ pc' \in {"project", "freeze", "ended"}
    BY <1>2, <1>4, NextTyped DEF PlanRaises, Disowned, NotPlanned, NextPlan
  <2>3. QED
    BY <1>1, <1>4, <2>1, <2>2, Zenon
      DEF PlanRaises, Disowned, NotPlanned, TypeOK, world
<1>5. CASE Freeze
  <2>1. outcomes' \in [Entries -> Outcomes]
    BY <1>5, FreezeTyped
  <2>2. pc' \in {"worktrees", "ended"}
    BY <1>5, Zenon DEF Freeze
  <2>3. QED
    BY <1>1, <1>5, <2>1, <2>2, Zenon DEF Freeze, TypeOK, world
<1>6. CASE GoOn
  BY <1>1, <1>6 DEF GoOn, TypeOK, world
<1>7. CASE RemoveWorktrees
  BY <1>1, <1>7 DEF RemoveWorktrees, TypeOK
<1>8. QED
  BY <1>3, <1>4, <1>5, <1>6, <1>7

\* Applying a plan keeps the types.
LEMMA ApplyTyped ==
  ASSUME TypeOK, Apply
  PROVE  TypeOK'
<1>1. outcomes' \in [Entries -> Outcomes]
  BY ApplyKeeps DEF SamePlans
<1>2. /\ request \in Requests /\ at \in Entries
      /\ server \in Registered /\ seen \in Registered
  BY Zenon DEF TypeOK
<1>3. CASE ListCopies
  <2>1. UNCHANGED <<disk, server, routes, request, at, seen, todo, target, changes>>
        /\ pc = "copies" /\ pc' \in {"list", "refresh"} /\ Listing
    BY <1>3 DEF ListCopies, world
  <2>2. Entries' = Entries /\ news' \in [Entries -> SUBSET (Dirs \cup Workspaces)]
    BY <2>1, EntriesStay, ListingTyped
  <2>3. QED
    BY <1>1, <2>1, <2>2, Zenon DEF TypeOK
<1>4. CASE Refresh
  <2>1. [server EXCEPT !.copies = @ \cap disk] \in Registered
    BY <1>2 DEF Registered
  <2>2. server' \in Registered /\ pc = "refresh" /\ pc' = "list"
        /\ UNCHANGED <<disk, routes, request, at, seen, todo, target, news, changes>>
    BY <1>2, <1>4, <2>1 DEF Refresh
  <2>3. Entries' = Entries
    BY <2>2, EntriesStay
  <2>4. QED
    BY <1>1, <2>2, <2>3 DEF TypeOK
<1>5. CASE ListWorkspaces
  <2>1. /\ Listing /\ pc = "list" /\ UNCHANGED <<disk, server, routes, request, at, target, changes>>
        /\ \/ pc' = "verify" /\ UNCHANGED <<seen, todo>>
           \/ /\ seen' = [seen EXCEPT !.workspaces = server.workspaces]
              /\ todo' = Planned(outcomes[at]) /\ pc' = "check"
    BY <1>5 DEF ListWorkspaces, world
  <2>2. [seen EXCEPT !.workspaces = server.workspaces] \in Registered
    BY <1>2 DEF Registered
  <2>3. Planned(outcomes[at]) \in SUBSET Workspaces
    BY DEF Planned
  <2>4. Entries' = Entries /\ news' \in [Entries -> SUBSET (Dirs \cup Workspaces)]
    BY <2>1, EntriesStay, ListingTyped
  <2>5. /\ seen' \in Registered /\ todo' \subseteq Workspaces
        /\ pc' \in {"verify", "check"}
    BY <1>2, <2>1, <2>2, <2>3 DEF TypeOK
  <2>6. QED
    BY <1>1, <2>1, <2>4, <2>5, Zenon DEF TypeOK
<1>6. ASSUME NEW w \in Workspaces, CheckWorkspace(w)
      PROVE  TypeOK'
  <2>1. Entries' = Entries
    BY <1>6, EntriesStay DEF CheckWorkspace
  <2>2. QED
    BY <1>1, <1>6, <2>1, Zenon DEF CheckWorkspace, TypeOK, world
<1>7. CASE DeleteWorkspace
  <2>1. target \in Workspaces
    BY <1>7 DEF DeleteWorkspace, TypeOK
  <2>2. [server EXCEPT !.workspaces[target] = Gone] \in Registered
    BY <1>2, <2>1 DEF Registered
  <2>3. /\ server' \in Registered /\ pc' = "check" /\ target' = Gone
        /\ UNCHANGED <<disk, routes, request, at, seen, todo, news, changes>>
    BY <1>2, <1>7, <2>2 DEF DeleteWorkspace
  <2>4. Entries' = Entries
    BY <2>3, EntriesStay
  <2>5. QED
    BY <1>1, <2>3, <2>4, Zenon DEF TypeOK
<1>8. CASE VerifyProject
  <2>1. Entries' = Entries /\ news' \in [Entries -> SUBSET (Dirs \cup Workspaces)]
    BY <1>8, EntriesStay, ListingTyped, Zenon DEF VerifyProject
  <2>2. [seen EXCEPT !.sandboxes = server.sandboxes] \in Registered
    BY <1>2 DEF Registered
  <2>3. QED
    BY <1>1, <1>8, <2>1, <2>2, Zenon DEF VerifyProject, TypeOK, world
<1>9. CASE VerifyDirectories
  <2>1. Entries' = Entries
    BY <1>9, EntriesStay, Zenon DEF VerifyDirectories
  <2>2. [seen EXCEPT !.copies = server.copies] \in Registered
    BY <1>2 DEF Registered
  <2>3. QED
    BY <1>1, <1>9, <2>1, <2>2, Zenon DEF VerifyDirectories, TypeOK, world
<1>10. CASE VerifyWorkspaces \/ VerifyFails \/ ApplyRaises
  <2>1. /\ NextApply
        /\ UNCHANGED <<disk, server, routes, request, seen, todo, target, news, changes>>
    BY <1>10, Zenon DEF VerifyWorkspaces, VerifyFails, ApplyRaises, world
  <2>2. Entries' = Entries /\ at' \in Entries /\ pc' \in {"copies", "ended"}
    BY <1>2, <2>1, EntriesStay, NextTyped DEF NextApply
  <2>3. QED
    BY <1>1, <2>1, <2>2, Zenon DEF TypeOK
<1>11. QED
  BY <1>3, <1>4, <1>5, <1>6, <1>7, <1>8, <1>9, <1>10 DEF Apply

\* The types hold at the start.
LEMMA InitTyped ==
  ASSUME Init
  PROVE  TypeOK
<1>1. PICK w \in Worlds :
        /\ disk = w.disk
        /\ server = [copies |-> w.copies, sandboxes |-> w.sandboxes,
                     workspaces |-> w.workspaces]
  BY DEF Init
<1>2. disk \subseteq Dirs /\ server \in Registered
  BY <1>1, WorldsAssumption DEF Registered
<1>3. request \in Requests /\ 1 \in Entries
  BY RequestTyped DEF Init
<1>4. /\ outcomes \in [Entries -> Outcomes] /\ changes \in 0 .. MaxChanges
      /\ news \in [Entries -> SUBSET (Dirs \cup Workspaces)]
  BY NewOutcomeTyped, ProjectBoundsAssumption DEF Init
<1>5. QED
  BY <1>2, <1>3, <1>4 DEF Init, TypeOK

\* A step is one of the others', of the planning or of the application.
LEMMA StepTyped ==
  ASSUME TypeOK, [Next]_vars
  PROVE  TypeOK'
<1>1. CASE Next
  BY <1>1, OthersTyped, ReadTyped, PlanningTyped, ApplyTyped DEF Next, Cleanup, Apply
<1>2. CASE UNCHANGED vars
  <2>1. Entries' = Entries
    BY <1>2, EntriesStay DEF vars
  <2>2. QED
    BY <1>2, <2>1, Zenon DEF vars, TypeOK
<1>3. QED
  BY <1>1, <1>2

\* The state of a cleanup of project metadata keeps its types, whatever fails
\* (ProjectCopyCleanupService).
THEOREM TypeCorrect == Spec => []TypeOK
<1>1. Init => TypeOK
  BY InitTyped
<1>2. TypeOK /\ [Next]_vars => TypeOK'
  BY StepTyped
<1>3. QED
  BY <1>1, <1>2, PTL DEF Spec

-----------------------------------------------------------------------------
(* What others do.                                                         *)

\* Others leave the cleanup alone, and what they change is in the news.
Told ==
  /\ UNCHANGED <<routes, request, pc, at, seen, todo, target, outcomes>>
  /\ \E things :
       /\ \A i \in Entries : news'[i] = news[i] \cup things
       /\ \A d \in Dirs :
            \/ d \in things
            \/ /\ d \in disk' <=> d \in disk
               /\ d \in server'.copies <=> d \in server.copies
               /\ d \in server'.sandboxes <=> d \in server.sandboxes
       /\ \A w \in Workspaces :
            w \in things \/ server'.workspaces[w] = server.workspaces[w]

LEMMA OthersTold ==
  ASSUME TypeOK, Others
  PROVE  Told
<1>1. server \in Registered
  BY Zenon DEF TypeOK
<1>2. ASSUME NEW d \in Dirs, TouchDirectory(d)
      PROVE  /\ Changed({d}) /\ UNCHANGED server
             /\ \A e \in Dirs \ {d} : e \in disk' <=> e \in disk
  BY <1>2 DEF TouchDirectory
<1>3. ASSUME NEW d \in Dirs, RegisterDirectory(d)
      PROVE  /\ Changed({d}) /\ UNCHANGED disk /\ server'.workspaces = server.workspaces
             /\ \A e \in Dirs \ {d} :
                  /\ e \in server'.copies <=> e \in server.copies
                  /\ e \in server'.sandboxes <=> e \in server.sandboxes
  BY <1>1, <1>3 DEF RegisterDirectory, Registered
<1>4. ASSUME NEW w \in Workspaces, MoveWorkspace(w)
      PROVE  /\ Changed({w}) /\ UNCHANGED disk
             /\ server'.copies = server.copies /\ server'.sandboxes = server.sandboxes
             /\ \A v \in Workspaces \ {w} : server'.workspaces[v] = server.workspaces[v]
  BY <1>1, <1>4 DEF MoveWorkspace, Registered
<1>5. ASSUME NEW things, Changed(things)
      PROVE  /\ UNCHANGED <<routes, request, pc, at, seen, todo, target, outcomes>>
             /\ \A i \in Entries : news'[i] = news[i] \cup things
  BY <1>5 DEF Changed
<1>6. ASSUME NEW d \in Dirs, TouchDirectory(d) \/ RegisterDirectory(d)
      PROVE  Told
  BY <1>2, <1>3, <1>5, <1>6 DEF Told
<1>7. ASSUME NEW w \in Workspaces, MoveWorkspace(w)
      PROVE  Told
  BY <1>4, <1>5, <1>7 DEF Told
<1>8. QED
  BY <1>6, <1>7 DEF Others

\* What others do leaves every list true but for their changes.
LEMMA OthersKeep ==
  ASSUME IInv, Others
  PROVE  IInv'
<1>1. TypeOK /\ TypeOK'
  BY OthersTyped DEF IInv
<1>2. Told
  BY <1>1, OthersTold
<1>3. Entries' = Entries /\ (\A i : Prefix(i)' = Prefix(i)) /\ MayDrop' = MayDrop
  BY <1>2, EntriesStay DEF Told, MayDrop
<1>4. AllPlannedByThen' /\ AllowedOwn' /\ ListNoted' /\ DonePast'
  BY <1>2, <1>3 DEF IInv, Told, AllPlannedByThen, AllowedOwn, ListNoted, DonePast, Supports
<1>5. PICK things :
        /\ \A i \in Entries : news'[i] = news[i] \cup things
        /\ \A d \in Dirs :
             \/ d \in things
             \/ /\ d \in disk' <=> d \in disk
                /\ d \in server'.copies <=> d \in server.copies
                /\ d \in server'.sandboxes <=> d \in server.sandboxes
        /\ \A w \in Workspaces :
             w \in things \/ server'.workspaces[w] = server.workspaces[w]
  BY <1>2 DEF Told
<1>6. /\ at \in Entries /\ at' = at /\ pc' = pc /\ seen' = seen /\ target' = target
      /\ outcomes' = outcomes
  BY <1>1, <1>2, Zenon DEF TypeOK, Told
<1>7. /\ server.copies \subseteq Dirs /\ server'.copies \subseteq Dirs
      /\ server.sandboxes \subseteq Dirs /\ server'.sandboxes \subseteq Dirs
      /\ disk \subseteq Dirs /\ disk' \subseteq Dirs
      /\ pc = "delete" => target \in Workspaces
  BY <1>1, Zenon DEF TypeOK, Registered
<1>8. Scoped'
  BY <1>3, <1>5, <1>6, <1>7 DEF IInv, Scoped, Missing
<1>9. Checked'
  BY <1>5, <1>6 DEF IInv, Checked
<1>10. Aimed'
  BY <1>5, <1>6, <1>7 DEF IInv, Aimed
<1>11. Verified'
  BY <1>5, <1>6, <1>7, Zenon DEF IInv, Verified
<1>12. NothingLeft'
  <2>1. ASSUME NEW i \in Entries, outcomes[i].status = "done",
               NEW d \in server'.copies \cup server'.sandboxes, d \notin news'[i]
        PROVE  d \notin outcomes[i].dirs \cup outcomes[i].boxes /\ d \notin Prefix(i) \ disk'
    BY <1>5, <1>7, <2>1 DEF IInv, NothingLeft
  <2>2. ASSUME NEW i \in Entries, outcomes[i].status = "done", NEW w \in Workspaces,
               w \notin news'[i], server'.workspaces[w] \notin news'[i]
        PROVE  server'.workspaces[w] \notin Prefix(i) \ disk'
    <3>1. Prefix(i) \subseteq Dirs
      BY <1>1, RequestTyped, Zenon DEF TypeOK
    <3>2. QED
      BY <1>5, <2>2, <3>1 DEF IInv, NothingLeft
  <2>3. QED
    BY <1>3, <1>6, <2>1, <2>2 DEF NothingLeft
<1>13. QED
  BY <1>1, <1>4, <1>8, <1>9, <1>10, <1>11, <1>12 DEF IInv

-----------------------------------------------------------------------------
(* What the cleanup does.                                                  *)

\* Where nothing is done yet, nothing need be gone.
LEMMA NothingDone ==
  ASSUME \A i \in Entries' : outcomes'[i].status # "done"
  PROVE  DonePast' /\ NothingLeft'
BY DEF DonePast, NothingLeft

\* No step of the planning leads into the application but over the freeze.
LEMMA NotApplying ==
  ASSUME pc' \notin {"refresh", "check", "delete", "verify directories",
                     "verify workspaces"}
  PROVE  Scoped' /\ Checked' /\ Aimed' /\ Verified'
BY Zenon DEF Scoped, Checked, Aimed, Verified

\* Planning establishes the invariant of the application.
LEMMA PlanningKeeps ==
  ASSUME IInv,
         \/ ReadProject \/ ReadDirectories \/ ReadWorkspaces \/ PlanRaises \/ Disowned
         \/ Freeze \/ GoOn \/ RemoveWorktrees
  PROVE  IInv'
<1>1. TypeOK /\ TypeOK'
  BY ReadTyped, PlanningTyped DEF IInv
<1>2. /\ Entries' = Entries /\ UNCHANGED <<routes, request>>
      /\ pc \in Planning \cup {"worktrees"}
      /\ pc' \in Planning \cup {"worktrees", "copies", "ended"}
  BY EntriesStay, Zenon
    DEF ReadProject, ReadDirectories, ReadWorkspaces, PlanRaises, Disowned,
     NotPlanned, Freeze, GoOn, RemoveWorktrees, NextPlan, world, Planning
<1>3. /\ outcomes \in [Entries -> Outcomes] /\ at \in Entries
      /\ request.mode \in {"standalone", "run"}
      /\ request.mode = "standalone" => Entries = {1}
  BY <1>1, RequestTyped, Zenon DEF TypeOK
<1>4. \A i \in Entries : outcomes[i].status # "done"
  BY <1>2 DEF IInv, DonePast
<1>5. Scoped' /\ Checked' /\ Aimed' /\ Verified'
  BY <1>2, NotApplying, Zenon DEF Planning
<1>6. CASE ReadProject \/ ReadDirectories \/ GoOn \/ RemoveWorktrees
  <2>1. /\ UNCHANGED outcomes
        /\ pc' \in Applying => pc \in Applying \/ (pc = "freeze" /\ request.mode = "standalone")
        /\ pc' \in Planning => pc \in Planning
        /\ pc' # "freeze"
    BY <1>6, Zenon
      DEF ReadProject, ReadDirectories, GoOn, RemoveWorktrees, Planning, Applying
  <2>2. AllPlannedByThen' /\ AllowedOwn' /\ ListNoted'
    BY <1>2, <2>1 DEF IInv, AllPlannedByThen, AllowedOwn, ListNoted, MayDrop, Supports
  <2>3. QED
    BY <1>1, <1>2, <1>4, <1>5, <2>1, <2>2, NothingDone DEF IInv
<1>7. CASE ReadWorkspaces
  <2>1. PICK o \in Outcomes :
           /\ Outcome(o) /\ o.plan = "planned" /\ o.status = "none" /\ o.allowed = {}
           /\ ~Supports("workspace_collection") =>
                "workspace_collection" \in o.unsupported
    BY <1>1, <1>7, PlanTyped
  <2>2. outcomes'[at] = o /\ \A i \in Entries \ {at} : outcomes'[i] = outcomes[i]
    BY <1>1, <2>1, OutcomeTyped
  <2>3. pc \in Planning /\ pc' \in {"project", "freeze"}
    BY <1>7 DEF ReadWorkspaces, NextPlan, Planning
  <2>4. \A i \in Entries : outcomes'[i].allowed = {} /\ outcomes'[i].status # "done"
    BY <1>4, <2>1, <2>2, <2>3 DEF IInv, AllowedOwn
  <2>5. AllPlannedByThen'
    BY <1>2, <1>3, <2>1, <2>2, <2>3, Zenon DEF AllPlannedByThen, Applying
  <2>6. AllowedOwn' /\ ListNoted'
    BY <1>2, <2>1, <2>2, <2>4 DEF IInv, AllowedOwn, ListNoted, Supports
  <2>7. QED
    BY <1>1, <1>2, <1>5, <2>4, <2>5, <2>6, NothingDone DEF IInv
<1>8. CASE PlanRaises \/ Disowned
  <2> DEFINE o == [NewOutcome EXCEPT !.plan = "raised", !.status = "raised"]
  <2>1. Outcome(o) /\ o \in Outcomes
    BY <1>8, NewOutcomeTyped DEF PlanRaises, Disowned, NotPlanned
  <2>2. o.allowed = {} /\ o.plan = "raised" /\ o.status = "raised"
    BY DEF NewOutcome
  <2> HIDE DEF o
  <2>3. outcomes'[at] = o /\ \A i \in Entries \ {at} : outcomes'[i] = outcomes[i]
    BY <1>1, <2>1, OutcomeTyped
  <2>4. pc \in Planning /\ pc' \in {"project", "freeze", "ended"}
        /\ (pc' = "freeze" => request.mode # "standalone")
    BY <1>8 DEF PlanRaises, Disowned, NotPlanned, NextPlan, Planning
  <2>5. \A i \in Entries : outcomes'[i].allowed = {} /\ outcomes'[i].status # "done"
    BY <1>4, <2>2, <2>3, <2>4 DEF IInv, AllowedOwn
  <2>6. AllPlannedByThen'
    BY <1>2, <2>4, Zenon DEF AllPlannedByThen, Applying
  <2>7. AllowedOwn' /\ ListNoted'
    BY <1>2, <2>2, <2>3, <2>5 DEF IInv, AllowedOwn, ListNoted, Supports
  <2>8. QED
    BY <1>1, <1>2, <1>5, <2>5, <2>6, <2>7, NothingDone DEF IInv
<1>9. CASE Freeze
  <2>1. \A i \in Entries :
          LET o == outcomes[i]
              p == outcomes'[i]
          IN /\ p.dirs = o.dirs /\ p.status = o.status
             /\ p.allowed = o.allowed \/ p.allowed = MayDrop
             /\ p.plan = o.plan \/ (o.plan = "planned" /\ p.plan = "partial")
             /\ "workspace_collection" \in o.unsupported =>
                  "workspace_collection" \in p.unsupported
    BY <1>1, <1>9, FreezeTyped
  <2>2. /\ pc' \in {"worktrees", "ended"} /\ request.mode = "run"
        /\ pc' = "worktrees" => \A i \in Entries : outcomes'[i].plan = "planned"
    BY <1>9, Zenon DEF Freeze, AllPlanned
  <2>3. MayDrop' = MayDrop
    BY <1>2, <2>1 DEF MayDrop
  <2>4. AllPlannedByThen'
    BY <1>2, <2>2, Zenon DEF AllPlannedByThen, Applying
  <2>5. AllowedOwn' /\ ListNoted'
    BY <1>2, <2>1, <2>2, <2>3 DEF IInv, AllowedOwn, ListNoted, Supports, Planning
  <2>6. QED
    BY <1>1, <1>2, <1>4, <1>5, <2>1, <2>4, <2>5, NothingDone DEF IInv
<1>10. QED
  BY <1>6, <1>7, <1>8, <1>9

\* Applying a plan leaves the plans and what they have in common.
LEMMA ApplyKeepsPlans ==
  ASSUME IInv, Apply
  PROVE  /\ Entries' = Entries /\ MayDrop' = MayDrop
         /\ AllPlannedByThen' /\ AllowedOwn' /\ ListNoted'
<1>1. TypeOK /\ SamePlans
  BY ApplyKeeps DEF IInv
<1>2. UNCHANGED <<request, routes>> /\ pc \in Applying /\ pc' \in Applying \cup {"ended"}
  BY Zenon DEF Apply, ListCopies, Refresh, ListWorkspaces, CheckWorkspace, DeleteWorkspace,
     VerifyProject, VerifyDirectories, VerifyWorkspaces, VerifyFails, ApplyRaises,
     NextApply, world, Applying
<1>3. Entries' = Entries
  BY <1>2, EntriesStay
<1>4. \A i \in Entries :
        /\ outcomes'[i].dirs = outcomes[i].dirs
        /\ outcomes'[i].allowed = outcomes[i].allowed
        /\ outcomes'[i].plan = outcomes[i].plan
        /\ outcomes[i].unsupported \subseteq outcomes'[i].unsupported
  BY <1>1 DEF SamePlans, Kept
<1>5. MayDrop' = MayDrop
  BY <1>3, <1>4 DEF MayDrop
<1>6. AllPlannedByThen'
  BY <1>2, <1>3, <1>4 DEF IInv, AllPlannedByThen
<1>7. AllowedOwn'
  BY <1>2, <1>3, <1>4, <1>5, Zenon DEF IInv, AllowedOwn, Planning, Applying
<1>8. ListNoted'
  BY <1>2, <1>3, <1>4 DEF IInv, ListNoted, Supports
<1>9. QED
  BY <1>3, <1>5, <1>6, <1>7, <1>8

\* What has become done has been looked for in vain.
LEMMA VerifiedDone ==
  ASSUME TypeOK, VerifyWorkspaces, outcomes'[at].status = "done"
  PROVE  LET o == outcomes[at]
         IN /\ o.unsupported = {}
            /\ LeftOver(seen.sandboxes, o, Prefix(at)) = {}
            /\ LeftOver(seen.copies, o, Prefix(at)) = {}
            /\ Supports("workspace_collection") =>
                 Within(server.workspaces, StaleNow(Dirs, Prefix(at))) = {}
<1> DEFINE o == outcomes[at]
           boxes == LeftOver(seen.sandboxes, o, Prefix(at))
           copies == LeftOver(seen.copies, o, Prefix(at))
           spaces == IF Supports("workspace_collection")
                       THEN Within(server.workspaces, StaleNow(Dirs, Prefix(at))) ELSE {}
           reasons == o.unsupported \cup
                        IF boxes = {} THEN {} ELSE {"project_sandbox_remove"}
           status == IF o.errors # {} THEN "failed"
                     ELSE IF reasons # {} \/ copies # {} \/ spaces # {}
                       THEN "partial" ELSE "done"
<1>1. outcomes \in [Entries -> Outcomes] /\ at \in Entries
  BY Zenon DEF TypeOK
<1>2. Outcome([o EXCEPT !.unsupported = reasons, !.status = status])
  BY Zenon DEF VerifyWorkspaces
<1>3. outcomes'[at] = [o EXCEPT !.unsupported = reasons, !.status = status]
  BY <1>1, <1>2 DEF Outcome
<1>4. outcomes'[at].status = status
  <2> HIDE DEF reasons, status
  <2> QED
    BY <1>1, <1>3 DEF Outcomes
<1>5. reasons = {} /\ copies = {} /\ spaces = {}
  BY <1>4
<1>6. boxes = {} /\ o.unsupported = {}
  BY <1>5
<1>7. QED
  BY <1>5, <1>6

\* Only the verification of an entry makes it done, and goes on from it.
LEMMA ApplyKeepsDone ==
  ASSUME IInv, Apply
  PROVE  DonePast'
<1>1. TypeOK /\ SamePlans /\ (VerifyWorkspaces \/ Undone(outcomes[at], outcomes'[at]))
  BY ApplyKeeps DEF IInv
<1>2. Entries' = Entries /\ at \in Entries
  BY <1>1, ApplyKeepsPlans, Zenon DEF TypeOK
<1>3. /\ pc \in Applying /\ pc' \in (Applying \ {"worktrees"}) \cup {"ended"}
      /\ at' = at \/ (at' = at + 1 /\ pc' # "ended")
  BY Zenon DEF Apply, ListCopies, Refresh, ListWorkspaces, CheckWorkspace, DeleteWorkspace,
     VerifyProject, VerifyDirectories, VerifyWorkspaces, VerifyFails, ApplyRaises,
     NextApply, world, Applying
<1>4. VerifyWorkspaces => pc' = "ended" \/ at' = at + 1
  BY Zenon DEF VerifyWorkspaces, NextApply
<1>5. Entries \subseteq Nat
  <2>1. request \in Requests
    BY <1>1, Zenon DEF TypeOK
  <2>2. QED
    BY <2>1, RequestTyped
<1>6. outcomes[at].status # "done"
  <2>1. at \in Nat /\ pc # "ended"
    BY <1>2, <1>3, <1>5, Zenon DEF Applying
  <2>2. QED
    BY <1>2, <2>1 DEF IInv, DonePast
<1>7. ASSUME NEW i \in Entries, outcomes'[i].status = "done", pc' # "ended"
      PROVE  i < at'
  <2>1. i \in Nat /\ at \in Nat
    BY <1>2, <1>5
  <2>2. CASE i # at
    <3>1. outcomes[i].status = "done"
      BY <1>1, <1>7, <2>2 DEF SamePlans
    <3>2. i < at
      BY <1>3, <3>1, Zenon DEF IInv, DonePast, Applying
    <3>3. QED
      BY <1>3, <2>1, <3>2
  <2>3. CASE i = at
    <3>1. VerifyWorkspaces
      BY <1>1, <1>6, <1>7, <2>3 DEF Undone
    <3>2. QED
      BY <1>4, <1>7, <2>1, <2>3, <3>1
  <2>4. QED
    BY <2>2, <2>3
<1>8. QED
  BY <1>2, <1>3, <1>7, Zenon DEF DonePast, Planning, Applying

\* What applying a plan changes at the server, and in the news.
LEMMA ApplyTold ==
  ASSUME TypeOK, Apply
  PROVE  /\ UNCHANGED <<disk, request>>
         /\ server'.copies \subseteq server.copies
         /\ server'.sandboxes = server.sandboxes
         /\ \A w \in Workspaces : server'.workspaces[w] \in {server.workspaces[w], Gone}
         /\ \A i \in Entries \ {at} : news'[i] = news[i]
<1>1. server \in Registered /\ news \in [Entries -> SUBSET (Dirs \cup Workspaces)]
  BY Zenon DEF TypeOK
<1>2. CASE Refresh
  BY <1>1, <1>2 DEF Refresh, Registered
<1>3. CASE DeleteWorkspace
  BY <1>1, <1>3 DEF DeleteWorkspace, Registered
<1>4. CASE ListCopies \/ ListWorkspaces \/ VerifyProject
  BY <1>1, <1>4, Zenon
    DEF ListCopies, ListWorkspaces, VerifyProject, Listing, world
<1>5. CASE \/ (\E w \in Workspaces : CheckWorkspace(w)) \/ VerifyDirectories
           \/ VerifyWorkspaces \/ VerifyFails \/ ApplyRaises
  BY <1>1, <1>5, Zenon
    DEF CheckWorkspace, VerifyDirectories, VerifyWorkspaces, VerifyFails,
     ApplyRaises, world
<1>6. QED
  BY <1>2, <1>3, <1>4, <1>5 DEF Apply

\* An entry that becomes done leaves nothing, and one that is done is left alone.
LEMMA ApplyLeavesNothing ==
  ASSUME IInv, Apply
  PROVE  NothingLeft'
<1>1. TypeOK /\ SamePlans /\ (VerifyWorkspaces \/ Undone(outcomes[at], outcomes'[at]))
  BY ApplyKeeps DEF IInv
<1>2. /\ Entries' = Entries /\ (\A i : Prefix(i)' = Prefix(i)) /\ disk' = disk
      /\ server'.copies \subseteq server.copies /\ server'.sandboxes = server.sandboxes
      /\ \A w \in Workspaces : server'.workspaces[w] \in {server.workspaces[w], Gone}
      /\ \A i \in Entries \ {at} : news'[i] = news[i]
  BY <1>1, ApplyTold, EntriesStay
<1>3. /\ Gone \notin Dirs /\ at \in Entries
      /\ server.copies \subseteq Dirs /\ server.sandboxes \subseteq Dirs
      /\ \A i \in Entries : Prefix(i) \subseteq Dirs
  BY <1>1, RequestTyped, NamesAssumption, Zenon DEF TypeOK, Registered
<1>4. \A i \in Entries : /\ outcomes'[i].dirs = outcomes[i].dirs
                         /\ outcomes'[i].boxes = outcomes[i].boxes
                         /\ outcomes'[i].plan = outcomes[i].plan
  BY <1>1 DEF SamePlans, Kept
<1> DEFINE Left(i, s, n) ==
             /\ \A d \in s.copies \cup s.sandboxes :
                  \/ d \in n
                  \/ d \notin outcomes[i].dirs \cup outcomes[i].boxes /\ d \notin Prefix(i) \ disk
             /\ \A w \in Workspaces :
                  \/ w \in n \/ s.workspaces[w] \in n
                  \/ s.workspaces[w] \notin Prefix(i) \ disk
<1>5. ASSUME NEW i \in Entries, i # at, outcomes'[i].status = "done"
      PROVE  Left(i, server', news'[i])
  <2>1. outcomes[i].status = "done" /\ news'[i] = news[i]
    BY <1>1, <1>2, <1>5 DEF SamePlans
  <2>2. Left(i, server, news[i])
    BY <2>1 DEF IInv, NothingLeft
  <2>3. QED
    BY <1>2, <1>3, <2>1, <2>2
<1>6. ASSUME outcomes'[at].status = "done"
      PROVE  Left(at, server', news'[at])
  <2>1. pc \in Applying /\ (VerifyWorkspaces => pc = "verify workspaces")
    BY Zenon DEF Apply, ListCopies, Refresh, ListWorkspaces, CheckWorkspace, DeleteWorkspace,
       VerifyProject, VerifyDirectories, VerifyWorkspaces, VerifyFails, ApplyRaises,
       Applying
  <2>2. at \in Nat
    <3>1. request \in Requests
      BY <1>1, Zenon DEF TypeOK
    <3>2. QED
      BY <1>3, <3>1, RequestTyped
  <2>3. outcomes[at].status # "done"
    <3>1. pc \in Applying /\ "ended" \notin Applying
      BY <2>1, Zenon DEF Applying
    <3>2. ~(at < at)
      BY <2>2
    <3>3. QED
      BY <1>3, <3>1, <3>2 DEF IInv, DonePast
  <2>4. VerifyWorkspaces
    BY <1>1, <1>6, <2>3 DEF Undone
  <2>5. UNCHANGED <<server, news>>
    BY <2>4, Zenon DEF VerifyWorkspaces, world
  <2>6. /\ server.sandboxes \subseteq seen.sandboxes \cup news[at]
        /\ server.copies \subseteq seen.copies \cup news[at]
    BY <2>1, <2>4, Zenon DEF IInv, Verified
  <2>7. /\ outcomes[at].unsupported = {}
        /\ LeftOver(seen.sandboxes, outcomes[at], Prefix(at)) = {}
        /\ LeftOver(seen.copies, outcomes[at], Prefix(at)) = {}
        /\ Supports("workspace_collection") =>
             Within(server.workspaces, StaleNow(Dirs, Prefix(at))) = {}
    BY <1>1, <1>6, <2>4, VerifiedDone
  <2>8. Supports("workspace_collection")
    BY <1>3, <2>1, <2>7, Zenon DEF IInv, AllPlannedByThen, ListNoted
  <2>9. \A d \in server.copies \cup server.sandboxes :
          \/ d \in news[at]
          \/ d \notin outcomes[at].dirs \cup outcomes[at].boxes /\ d \notin Prefix(at) \ disk
    BY <2>6, <2>7 DEF LeftOver, StaleNow, Missing
  <2>10. \A w \in Workspaces : server.workspaces[w] \notin Prefix(at) \ disk
    BY <1>3, <2>7, <2>8 DEF Within, StaleNow, Missing
  <2>11. QED
    BY <2>5, <2>9, <2>10
<1>7. \A i \in Entries : outcomes'[i].status = "done" => Left(i, server', news'[i])
  BY <1>5, <1>6
<1>8. QED
  BY <1>2, <1>4, <1>7 DEF NothingLeft

\* A cleanup decides from lists that are true but for the news.
LEMMA ApplyKeepsLists ==
  ASSUME IInv, Apply
  PROVE  Scoped' /\ Checked' /\ Aimed' /\ Verified'
<1>1. TypeOK /\ at \in Entries /\ server \in Registered /\ seen \in Registered
      /\ news \in [Entries -> SUBSET (Dirs \cup Workspaces)]
  BY Zenon DEF IInv, TypeOK
<1>2. Entries' = Entries /\ MayDrop' = MayDrop
  BY ApplyKeepsPlans
<1>3. CASE ListCopies
  <2>1. /\ UNCHANGED <<disk, server, at>> /\ pc' \in {"list", "refresh"}
        /\ pc' = "refresh" =>
             Unrelated(outcomes[at], Missing(server.copies)) = {}
    BY <1>3 DEF ListCopies, world
  <2>2. Unrelated(outcomes[at], Missing(server.copies)) = {} =>
          Missing(server.copies) \subseteq MayDrop
    BY <1>1 DEF Unrelated, MayDrop, IInv, AllowedOwn
  <2>3. Scoped'
    BY <1>2, <2>1, <2>2 DEF Scoped, Missing
  <2>4. QED
    BY <2>1, <2>3, Zenon DEF Checked, Aimed, Verified
<1>4. CASE ListWorkspaces
  <2>1. /\ pc' \in {"verify", "check"} /\ UNCHANGED server
        /\ pc' = "check" => seen' = [seen EXCEPT !.workspaces = server.workspaces]
    BY <1>4 DEF ListWorkspaces, world
  <2>2. pc' = "check" => seen'.workspaces = server'.workspaces
    BY <1>1, <2>1 DEF Registered
  <2>3. Checked'
    BY <2>1, <2>2 DEF Checked
  <2>4. QED
    BY <2>1, <2>3, Zenon DEF Scoped, Aimed, Verified
<1>5. ASSUME NEW w \in Workspaces, CheckWorkspace(w)
      PROVE  Scoped' /\ Checked' /\ Aimed' /\ Verified'
  <2>1. /\ pc = "check" /\ pc' \in {"check", "delete"}
        /\ UNCHANGED <<disk, server, at, seen, news>>
        /\ pc' = "delete" =>
             target' = w /\ UNCHANGED outcomes
             /\ Confirmed(outcomes[at].spaces[w], seen.workspaces[w])
    BY <1>5 DEF CheckWorkspace, world
  <2>2. Checked'
    BY <2>1 DEF IInv, Checked
  <2>3. Aimed'
    BY <2>1 DEF Aimed, Confirmed
  <2>4. QED
    BY <2>1, <2>2, <2>3, Zenon DEF Scoped, Verified
<1>6. CASE DeleteWorkspace
  <2>1. /\ pc = "delete" /\ pc' = "check" /\ UNCHANGED <<at, seen, news>>
        /\ \A v \in Workspaces : server'.workspaces[v] \in {server.workspaces[v], Gone}
    BY <1>1, <1>6, ApplyTold DEF DeleteWorkspace, Apply
  <2>2. Checked'
    BY <2>1 DEF IInv, Checked
  <2>3. QED
    BY <2>1, <2>2 DEF Scoped, Aimed, Verified
<1>7. CASE VerifyProject
  <2>1. /\ pc' = "verify directories" /\ UNCHANGED server
        /\ seen' = [seen EXCEPT !.sandboxes = server.sandboxes]
    BY <1>7, Zenon DEF VerifyProject, world
  <2>2. seen'.sandboxes = server'.sandboxes
    BY <1>1, <2>1, Zenon DEF Registered
  <2>3. Verified'
    BY <2>1, <2>2, Zenon DEF Verified
  <2>4. QED
    BY <2>1, <2>3, Zenon DEF Scoped, Checked, Aimed
<1>8. CASE VerifyDirectories
  <2>1. /\ pc = "verify directories" /\ pc' = "verify workspaces"
        /\ UNCHANGED <<server, at, news>>
        /\ seen' = [seen EXCEPT !.copies = server.copies]
    BY <1>8, Zenon DEF VerifyDirectories, world
  <2>2. seen'.copies = server'.copies /\ seen'.sandboxes = seen.sandboxes
    BY <1>1, <2>1, Zenon DEF Registered
  <2>3. Verified'
    BY <2>1, <2>2, Zenon DEF IInv, Verified
  <2>4. QED
    BY <2>1, <2>3, Zenon DEF Scoped, Checked, Aimed
<1>9. CASE Refresh \/ VerifyWorkspaces \/ VerifyFails \/ ApplyRaises
  <2>1. pc' \in {"list", "copies", "ended"}
    BY <1>9, Zenon
      DEF Refresh, VerifyWorkspaces, VerifyFails, ApplyRaises, NextApply
  <2>2. QED
    BY <2>1, NotApplying, Zenon
<1>10. QED
  BY <1>3, <1>4, <1>5, <1>6, <1>7, <1>8, <1>9 DEF Apply

-----------------------------------------------------------------------------
(* The theorems.                                                           *)

\* The invariant holds at the start.
LEMMA InitKeeps ==
  ASSUME Init
  PROVE  IInv
<1>1. TypeOK /\ pc = "project" /\ outcomes = [i \in Entries |-> NewOutcome]
  BY InitTyped DEF Init
<1>2. /\ NewOutcome.allowed = {} /\ NewOutcome.plan = "none" /\ NewOutcome.status = "none"
  BY DEF NewOutcome
<1>3. \A i \in Entries : outcomes[i] = NewOutcome
  BY <1>1
<1>4. AllPlannedByThen /\ AllowedOwn /\ ListNoted
  BY <1>1, <1>2, <1>3 DEF AllPlannedByThen, AllowedOwn, ListNoted, Applying
<1>5. Scoped /\ Checked /\ Aimed /\ Verified
  BY <1>1 DEF Scoped, Checked, Aimed, Verified
<1>6. DonePast /\ NothingLeft
  BY <1>2, <1>3 DEF DonePast, NothingLeft
<1>7. QED
  BY <1>1, <1>4, <1>5, <1>6 DEF IInv

\* Every step keeps the invariant.
LEMMA StepKeeps ==
  ASSUME IInv, [Next]_vars
  PROVE  IInv'
<1>1. CASE Others
  BY <1>1, OthersKeep
<1>2. CASE Cleanup
  <2>1. CASE Apply
    <3>1. TypeOK'
      BY <2>1, ApplyTyped DEF IInv
    <3>2. QED
      BY <2>1, <3>1, ApplyKeepsPlans, ApplyKeepsDone, ApplyKeepsLists,
         ApplyLeavesNothing DEF IInv
  <2>2. QED
    BY <1>2, <2>1, PlanningKeeps DEF Cleanup, Apply
<1>3. CASE UNCHANGED vars
  <2>1. TypeOK'
    BY <1>3, StepTyped DEF IInv
  <2>2. /\ Entries' = Entries /\ (\A i : Prefix(i)' = Prefix(i))
        /\ UNCHANGED <<disk, server, routes, request, pc, at, seen, target, outcomes, news>>
    BY <1>3, EntriesStay DEF vars
  <2>3. AllPlannedByThen' /\ AllowedOwn' /\ ListNoted' /\ Scoped'
    BY <2>2 DEF IInv, AllPlannedByThen, AllowedOwn, ListNoted, Scoped, MayDrop,
       Supports, Missing
  <2>4. Checked' /\ Aimed' /\ Verified' /\ DonePast' /\ NothingLeft'
    BY <2>2, Zenon DEF IInv, Checked, Aimed, Verified, DonePast, NothingLeft
  <2>5. QED
    BY <2>1, <2>3, <2>4 DEF IInv
<1>4. QED
  BY <1>1, <1>2, <1>3 DEF Next

\* The lists and plans a cleanup decides from are never worse than what others
\* have changed since.
THEOREM Invariance == Spec => []IInv
<1>1. Init => IInv
  BY InitKeeps
<1>2. IInv /\ [Next]_vars => IInv'
  BY StepKeeps
<1>3. QED
  BY <1>1, <1>2, PTL DEF Spec

\* What a cleanup says is done is gone, although the server is asked for three
\* lists one after the other while others change what they list (_verify).
THEOREM DoneIsGoneAlways == Spec => []DoneIsGone
<1>1. IInv => DoneIsGone
  <2> SUFFICES ASSUME IInv, NEW i \in Entries, outcomes[i].status = "done"
               PROVE  LET o == outcomes[i]
                          left == server.copies \cup server.sandboxes
                      IN /\ left \cap (o.dirs \cup o.boxes) \subseteq news[i]
                         /\ StaleNow(left, Prefix(i)) \subseteq news[i]
                         /\ \A w \in Within(server.workspaces, StaleNow(Dirs, Prefix(i))) :
                              w \in news[i] \/ server.workspaces[w] \in news[i]
    BY DEF DoneIsGone
  <2>1. /\ \A d \in server.copies \cup server.sandboxes :
             \/ d \in news[i]
             \/ d \notin outcomes[i].dirs \cup outcomes[i].boxes /\ d \notin Prefix(i) \ disk
        /\ \A w \in Workspaces :
             \/ w \in news[i] \/ server.workspaces[w] \in news[i]
             \/ server.workspaces[w] \notin Prefix(i) \ disk
    BY DEF IInv, NothingLeft
  <2>2. QED
    BY <2>1 DEF StaleNow, Missing, Within
<1>2. QED
  BY <1>1, Invariance, PTL

\* A refresh drops only directories some entry planned, and what others have
\* changed since its listing (_refresh_project_copies).
THEOREM RefreshIsScopedAlways == Spec => RefreshIsScoped
<1> DEFINE Step == \A d \in Dirs :
                     pc = "refresh" /\ d \in server.copies /\ d \notin server'.copies =>
                       d \in MayDrop \/ d \in news[at]
<1>1. IInv /\ [Next]_vars => [Step]_vars
  <2> SUFFICES ASSUME IInv, Next, NEW d \in Dirs, pc = "refresh",
                      d \in server.copies, d \notin server'.copies
               PROVE  d \in MayDrop \/ d \in news[at]
    BY DEF vars
  <2>1. server \in Registered /\ Missing(server.copies) \subseteq MayDrop \cup news[at]
    BY DEF IInv, TypeOK, Scoped
  <2>2. CASE Refresh
    <3>1. server' = [server EXCEPT !.copies = @ \cap disk]
      BY <2>2 DEF Refresh
    <3>2. d \notin disk
      BY <2>1, <3>1 DEF Registered
    <3>3. QED
      BY <2>1, <3>2 DEF Missing
  <2>3. CASE Others
    <3>1. server'.copies = server.copies \/ server.copies \subseteq server'.copies
      BY <2>1, <2>3 DEF Others, TouchDirectory, RegisterDirectory, MoveWorkspace, Registered
    <3>2. QED
      BY <3>1
  <2>4. CASE Cleanup /\ ~Refresh
    BY <2>4 DEF Cleanup, ReadProject, ReadDirectories, ReadWorkspaces, PlanRaises,
       Disowned, NotPlanned, Freeze, GoOn, RemoveWorktrees, ListCopies, ListWorkspaces,
       CheckWorkspace, DeleteWorkspace, VerifyProject, VerifyDirectories,
       VerifyWorkspaces, VerifyFails, ApplyRaises
  <2>5. QED
    BY <2>2, <2>3, <2>4 DEF Next
<1>2. QED
  BY <1>1, Invariance, PTL DEF Spec, RefreshIsScoped

\* A workspace is deleted only while it points where it was planned to, at a
\* missing directory, but for what others have changed (_remove_workspaces).
THEOREM DeletesOwnWorkspacesAlways == Spec => DeletesOwnWorkspaces
<1> DEFINE Step == \A w \in Workspaces :
              DeleteWorkspace /\ server.workspaces[w] # Gone /\ server'.workspaces[w] = Gone =>
                \/ w \in news[at]
                \/ /\ server.workspaces[w] = outcomes[at].spaces[w]
                   /\ server.workspaces[w] \notin disk \ news[at]
<1>1. IInv => Step
  <2> SUFFICES ASSUME IInv, NEW w \in Workspaces, DeleteWorkspace,
                      server.workspaces[w] # Gone, server'.workspaces[w] = Gone
               PROVE  \/ w \in news[at]
                      \/ /\ server.workspaces[w] = outcomes[at].spaces[w]
                         /\ server.workspaces[w] \notin disk \ news[at]
    OBVIOUS
  <2>1. server \in Registered /\ pc = "delete"
    BY DEF IInv, TypeOK, DeleteWorkspace
  <2>2. server' = [server EXCEPT !.workspaces[target] = Gone]
    BY DEF DeleteWorkspace
  <2>3. w = target
    BY <2>1, <2>2 DEF Registered
  <2>4. w \in news[at] \/ server.workspaces[w] = seen.workspaces[w]
    BY <2>1 DEF IInv, Checked
  <2>5. /\ outcomes[at].spaces[w] = seen.workspaces[w]
        /\ seen.workspaces[w] \notin disk \ news[at]
    BY <2>1, <2>3 DEF IInv, Aimed
  <2>6. QED
    BY <2>4, <2>5
<1>2. QED
  BY <1>1, Invariance, PTL DEF Spec, DeletesOwnWorkspaces

\* A run cleanup changes nothing before all its entries are planned in full
\* (_preview_project_metadata).
THEOREM PlansTogetherAlways == Spec => PlansTogether
<1> DEFINE Step == request.mode = "run" /\ Cleanup /\ (disk' # disk \/ server' # server) =>
                     \A i \in Entries : outcomes[i].plan = "planned"
<1>1. IInv => Step
  <2> SUFFICES ASSUME IInv, Cleanup, disk' # disk \/ server' # server
               PROVE  pc \in Applying
    BY DEF IInv, AllPlannedByThen
  <2>1. QED
    BY Zenon DEF Cleanup, ReadProject, ReadDirectories, ReadWorkspaces, PlanRaises,
       Disowned, NotPlanned, Freeze, GoOn, RemoveWorktrees, ListCopies, Refresh,
       ListWorkspaces, CheckWorkspace, DeleteWorkspace, VerifyProject,
       VerifyDirectories, VerifyWorkspaces, VerifyFails, ApplyRaises, world, Applying
<1>2. QED
  BY <1>1, Invariance, PTL DEF Spec, PlansTogether
=============================================================================
