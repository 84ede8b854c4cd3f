# OCS in TLA+

OCS (`src/opencode_session/`) is a command-line tool that runs *workers* - prompts in
sessions of an OpenCode server - as part of a *run*, a JSON record in a local run
store. Commands are short-lived processes: they read the record, call the server,
and update the record under a file lock. Nothing coordinates them but that record,
so the questions worth asking are about what happens between two updates of it:
another command, a lost answer, a failing update, a death, a late result.

This directory models the parts in which those questions arise, checks them with TLC
on small instances, and proves the main results with TLAPS for every instance.

## 1. The system

| Component | State | Operations | Hard because | Correct if |
|---|---|---|---|---|
| Worker state machine (`worker_state.py`, `worker_field_spec.py`) | the worker record: lifecycle state, attempts, retry counters, result, abort, cleanup | named transitions, each with legal sources and a reducer | a transition is built from one record and applied to a later one | attempts are numbered without gaps, retries stay within their limit, finished and aborted workers stay so |
| Run store and record (`run_store.py`, `run_persistence.py`, `run_record.py`) | one JSON file per run, a lock file each | `update_run`, `delete_run`, cleanup lease, `persist_transitions` | updates go by name, so the run may have been fenced, deleted or recreated meanwhile | an update is all or nothing and is made to the latest record |
| Remote mutation journal (`remote_journal.py`) | outbox entries in the run record | intent, remote call, remote_succeeded, applied / finalized, uncertain | lost answers, failing updates, deaths at every point | nothing the server did is lost from view; nothing is reported that was not recorded |
| Session provisioning (`worker_session_provisioning.py`) | a worker's `session_id`, its journalled creations | create, reuse, recover | concurrent creations, a session that appears meanwhile | every created session is recorded |
| Dependency analysis (`worker_dependencies.py`) | none (computed per plan) | order, cycles, blockers, ready workers | cycles, propagation through chains | nobody is left waiting unnoticed |
| Run start (`multi_worker_orchestration*.py`, `run_start_policy.py`) | the record it holds, the clients' sessions | recover, plan, probe, execute, replan, clean up | long calls between updates; two starts at once; a start that died | dependencies first, every start ends and settles what it can |
| Attempts (`worker_execution.py`, `worker_attempt_*.py`, `worker_active_attempt_recovery.py`) | the attempt records | provision, activate, start, classify outcome, retry, expire | timeouts that race late answers | a worker is active only while somebody executes it |
| Blocking execution, prompt admission (`blocking_*.py`, `prompt_admission.py`, `timeout_boundary.py`) | deadline, the prompt's id | submit, wait, time out, abort, replay | a request that outlives its caller, an answer that is lost | what is reported of a prompt is what became of it |
| Run commands (`run_services.py`) | - | abort, steer, worker, show, collect | the journal's | the journal's |
| Start cleanup (`run_start_core.py`, `worker_cleanup_recovery.py`, `disposable_session_lifecycle.py`) | `cleanup` of each worker, what the start remembers | delete and verify the sessions a start created or finds listed | sessions of others, failing deletes, lists overwritten by another start | deletes what it created, and only what was created to be deleted |
| Run cleanup (`run_cleanup*.py`, `run_branch_transaction.py`, `run_resources.py`) | audit in the record, cleanup lease, git transaction | plan, fence, delete branches, worktrees, projects and the run | the world changes after the plan | deletes only what the plan saw, and only once |
| Project metadata cleanup (`project_metadata*.py`, `run_cleanup_projects.py`) | plan and outcome of each entry | list, plan, refresh, delete workspaces, verify | every list may be stale, a refresh drops whatever is missing | touches only what was planned, and says done only of what is gone |
| Event watcher (`event_watcher.py`, `events.py`, `commands/watch.py`) | reader thread, queue, text not printed yet | open, collect, close, print | two timeouts and a thread, streams that break or stay silent | events in order, each once; the thread ends |
| Client, routes, profiles (`api_*.py`, `capabilities.py`) | the route plan | HTTP requests, route detection | servers of different ages, unreadable documents | a call goes where the server has it |
| Live validation (`validation_*.py`) | its sessions, the checks done | smoke, live_validate, cleanup by prefix | a sweep of sessions in use, checks that raise | no session is left, and success means success |
| Sessions, blockers, diagnostics; schema adapters; CLI | - | queries, decoding, output | - | |

Interaction: the CLI creates a service per command; a service updates the run record
through `RunStore.update_run`, calls the server through the client, and uses the
journal for calls that change something there. `run start` drives the worker state
machine through `persist_transitions`; `run abort`, `run worker`, `run start --prompt`
and `run cleanup` change the same record from other processes.

## 2. Modules

| Module | Models | Lines about |
|---|---|---|
| `WorkerTransitions` | the transition table, guards and reducers of `worker_state.py` as operators on a worker record | no variables |
| `WorkerLifecycle` | one persisted worker and writers that hold transitions built from older versions of it | extends `WorkerTransitions` |
| `Outbox` | what a journal of remote mutations promises | abstract |
| `RemoteJournal` | the journal protocol step by step, with the run record that is fenced, deleted, recreated | implements `Outbox` |
| `WorkerDependencies` | which workers are blocked and which are ready, as operators on a view of the run | extends `WorkerTransitions` |
| `DependencyAnalysis` | the analysis step by step: search, seeds, rounds | extends `WorkerDependencies` |
| `RunOrchestration` | `run start` by one or more processes, with aborts, new prompts and deaths | extends `WorkerDependencies` |
| `RunCleanup` | `run cleanup --apply` by one or more processes, with the other commands and the users of the repository | |
| `ProjectCopyCleanup` | cleanup of project copies, sandboxes and workspaces, standalone or for a run | |
| `ServerProfile` | what the client makes of a server's OpenAPI document: routes, plan, strategy | no variables |
| `SessionPrompts` | prompts: durable admission, blocking execution, timeout and abort | extends `ServerProfile` |
| `DisposableSessions` | creation of sessions to be deleted, delete and verify, the sweep by prefix | extends `SessionPrompts` |
| `EventWatcher` | the event stream, read by a thread or in the foreground | |
| `LiveValidation` | the commands that use one session: smoke, live_validate, run_blocking, steer, watch | composes `EventWatcher` and `DisposableSessions` |
| `WorkerLemmas` | lemmas on transitions, dependencies, least and greatest numbers, rounds of a function | extends `WorkerDependencies` |
| `WorkerLifecycleProofs`, `RemoteJournalProofs`, `DependencyAnalysisProofs`, `RunOrchestrationProofs`, `RunCleanupProofs`, `ProjectCopyCleanupProofs`, `LiveValidationProofs` | theorems about the module of that name | extend it |
| `MC*` | instances for TLC: model values, small sets, symmetry | |

The correspondence in detail is the `map` of `PROJECT.json`, a source range for each
definition. What follows says how to read the models.

### Worker transitions and lifecycle

A worker is a record of the fields that decide something: lifecycle state, session,
abort, retry counters and policy, `failure_retryable`, the manual-retry mark, timeout
policy, attempts, result, and the sessions left to clean up. `Sources` is the
`sources` column of `_WORKER_TRANSITION_SPECS`, `Legal` is
`worker_transition_is_legal`, `Reduce` the reducers, `KeepAcceptedAbort` the rule
`_accepted_abort_terminal_invariant` that runs after each of them.

`persist_transitions` applies a transition to the *latest* record, not to the one it
was built from. `WorkerLifecycle` therefore splits a writer in two: `Build(a)` makes a
transition from the record as it is and holds it; `Persist(a)` applies it, much later
perhaps, if it is legal then, and `Lose(a)` is the `WorkerTransitionError` otherwise.
The `Hold...` actions are the places that build transitions. `Abort`, `SetStatus`,
`Requeue` and `UseSession` are the operator's commands, which build and apply under
one lock.

### Remote journal

Each mutation is a process with the program counter of
`RemoteMutationRunner.execute`. Every step between `record_intent` and the end is one
update of the record or the call itself; `Stop` at any point is an update that fails
or a process that dies, and `CallFails` is an exception of the call, after which the
server may or may not have acted. `Fence`, `DeleteRun` and `CreateRun` are other
processes that clean the run up and start over under the same name. Two branches of
the code are absent because no caller reaches them: a second `mark_remote_succeeded`
when the records differ, and an exception in the record factory. `known` is a history
variable: which mutations the current record has ever listed.

`Outbox` states the promise without the protocol: a mutation is *open* from before the
server can hear of it until it is *settled* (its effect recorded) or *withdrawn* (the
server never acted), unless the record itself is deleted.

### Dependencies

`DependencyAnalysis` has a variable for each local of `_dependency_order_and_cycles`
and one step per visit; the search is free to take a worker's dependencies in any
order. The workers' states are chosen when the search is over, since it reads only the
graph. `WorkerDependencies` computes the same blockers as functions, and
`BlockedIsReachable` says that both agree with a definition by reachability: `Reached`, the
least set closed under a relation, which a proof can use without an induction.

### Run orchestration

A process keeps, as the code does, the record its last update returned (`run`), and
decides from that. Actions are the updates: `Recover`, `Plan` (the first plan and each
replan), `ProbeFails`, `MarkRunActive`, `Intend`, `CreateSession`, `Provision`,
`Activate`, `StartAttempt`, `Answer`. `Persist` writes several transitions or, if one
is illegal, none and ends the process as the uncaught exception does. `base` is the
record of `mark_run_active`, which the failure path uses. The cleanup phase of a start with
`--cleanup` is `PlanCleanup`, `DeleteSessions` and `RecordCleanup`: it deletes what the start
remembers to have created (`remembered`) and what the record lists, whichever start listed
it, and then overwrites each worker's list with what is left. A worker keeps the id of a
session that was deleted; a prompt there is `refused`. All workers have prompts and
graphs are acyclic: the rest is `DependencyAnalysis`'s. The journal entries of a
creation are in `RemoteJournal`; here only the session matters. Prompt ids, run status
and timestamps are left out; whether a lease has expired is a choice.

### Run cleanup

A cleanup goes through the program counters `preflight` with `status` for each worktree,
`preflight_branches` with `reflog`, `owner`, `merged` for each branch, `begin` (looking),
`sessions`, `worktrees` with `prepare`, `verify`, `remove`, `commit` for a
worktree that goes with its branch, `branches` with `unref`, `finish` (removing) and
`delete`. Taking the lease and loading the record are one step (`Request`), since what
happens between the two is seen by the load. Each look at the repository and each change of
it is a step of its own: the tip (`LookAtTip`), the branch's identity (`LookAtReflog`), the
worktree's (`LookAtOwner`) and the merge into HEAD (`LookAtHead`) are read one after the
other, with the users at work between them. Two looks stand for several calls: a worktree's
verification (`verify_owned_worktree`: path, registration, branch) and, of a path that is
missing, its registration; both are made again before anything is removed. A `git` that
fails counts as fault found, and as a change by others (`Look`). What is at a path, and a branch, have numbers that stand for
the inodes the code compares, so a replacement can be told from the original, and
commits are the numbers `1 .. MaxTip` in a line: a branch is at `tip`, HEAD has the commits
up to `merged`. `Die` frees the lease and the lock on
the ref, as the operating system and git do, and leaves the audit in progress.
`UseBranch` and `Replace` are what people do with git: edit, switch, move the branch and
HEAD to any commit, forward or back, move worktrees away and back, prune, remove and
re-create. They respect only git's own lock on a ref (`Locked`). `rewound` is a history
variable: whose branch or HEAD was moved back since a cleanup last read the branch's tip.
`SparesWork` is stated up to it, for the reason section 4 gives. `ToggleWorker`,
`AddSession` and `Register` stand for every update of the record that a cleanup cares about;
all go through `Update`, which is the fence. Log files and project metadata appear as the category `others`, whose preview
or removal may fail.

### Project metadata

A cleanup is one process with a program counter; every call to the server is a step, and
between any two of them `Others` removes, creates and registers directories and moves
workspaces. An entry is a prefix, a set of directories; a standalone cleanup has one, a run
as many as it owns, planned one after the other (`project` to `workspaces`), looked at
together (`Freeze`) and applied in turn. `assumed` are the worktrees the run cleanup is
about to remove, which its plan already counts as missing. Each answer may be an error with
or without an effect. `news[i]` is a history variable: what others changed since the last
list that entry `i` took. The properties are stated up to it, because between a list and
the call that follows nothing holds the server.

### Sessions, prompts and events

`ServerProfile` turns a document, a set of paths, into the availability of routes, the plan
and the strategy of `blocking_execution_start_error`. `SessionPrompts` has the server's side
of a prompt (sent, queued, running, done, failed, stopped, refused) beside the client's
call; answers may be lost, late, unclear or an error, and `AbortSession` follows a timeout
only. `DisposableSessions` has `delete_and_verify` call by call for two cleaners: the
command and a sweep by prefix. `EventWatcher` has the thread of
`BackgroundSessionEventWatcher` between any two of its accesses to what it shares with the
one who waits: the queue, `opened` and `closed`.

`LiveValidation` composes them. A command is a sequence of phases (`detecting`, `creating`,
`steering`, `observing`, ...), and its steps are those of the part at work; `smoke` and
`live_validate` run in the harness, which cleans up after any failure, `run_blocking` only
after the failures it knows. An operator may repeat a failed `steer` with its message id,
once. Events that tell of a turn are sent only when it has run.

## 3. Runs

| Run | Instance | Shows |
|---|---|---|
| `lifecycle` | 2 writers, 2 attempts, limits 0-1; all retry and timeout policies and a session with 1 writer | `AttemptIdsAreIndices`, `RetryWithinLimit`, `NoStaleVerdict`, `FinishedStaysFinished`, `AbortIsFinal` |
| `journal` | 2 commands, 2 creations | `EvidenceKept`, `EntriesTellTruth`, `ReportedIsRecorded`, and `RemoteJournal` implements `Outbox` (`KeepsPromise`) |
| `dependencies` | all graphs of 3 workers and a missing one, 5 states | `CyclesAreFound`, `DependenciesComeFirst`, `BlockedIsReachable`, `NobodyStalls` |
| `start` | 1 process, 2 starts, 3 workers, timeouts | `StartSettlesRun`, `AttemptsAreCounted`, `Terminates` |
| `restart` | 1 process, 2 starts, 2 workers, timeouts, aborts, new prompts, deaths | `NeverRaises` (with sessions registered) |
| `two_starts` | 2 processes, 2 workers, 4 sessions, each start with `--cleanup` or without | `ActiveHasExecutor`, `DeletesDisposable`, `StartCleansUp`, `DependenciesFirst` |
| `cleanup` | 2 cleanups, 2 worktrees, 1 session, 2 changes by others | `PlanStaysTrue`, `SparesActiveWorkers`, `DeletesFrozenTip`, `SparesWork`, `DeletesRecordLast` |
| `projects` | 1 cleanup, 3 directories, 3 workspaces (one id invalid), 1 or 2 entries, 1 change by others | `DoneIsGone`, `RefreshIsScoped`, `DeletesOwnWorkspaces`, `PlansTogether` |
| `validation` | 6 commands, 3 servers, 2 sessions, 2 prompts, 2 events, a sweep | `EventsInOrder`, `CleanupToldTruth`, `EvidenceIsReal`, `TimeoutToldTruth`, `WatcherEnds`, `CommandEnds` |

Bounds. Two writers suffice for a race on one record, since a held transition depends
on one older version only; a third adds no order of two updates that two do not have.
Two attempts and a limit of one retry reach the boundary of `retry_available` from
both sides and a second attempt numbered from a stale record. Three workers give the
shortest chain and the shortest diamond, and cycles of every length up to three.
`MaxStarts` bounds how often a process starts, `MaxAttempts` how many attempts a worker
gets. A start is called only while another attempt and all retries left fit under it, so it
holds up no start but one under `continue` that tries a worker again uncounted.

In `cleanup` two processes suffice, since the lease admits one and the other is what
remains after a death or comes next; a second worktree shows that a failure with one
does not leak into the next (a transaction left open, a target left behind). All
branches start alike, at any tip and merged up to any commit. Two commits
give a branch that moves and one that is not merged, and two changes (`MaxChanges`) a
change between any two looks, or between the preflight and the removal, as well as one that
undoes another. Registering is not counted. The requests are everything at once,
a worktree with project metadata, and a branch alone, each with and without force.

In `start` a prompt succeeds, fails at the API or times out, and a worker retries either
(`all`) or the failures of the API only. Under `fail_fast` a start ends. Under `continue` `Terminates` allows for
one thing, which the code does (section 4): a worker tried again after a timeout without
being counted. For a worker that retries timeouts `AttemptsAreCounted` says nothing, for the
same reason.

`lifecycle` asks two questions in one state space (`MCBound`): two writers race over a worker
that has no session, so that no abort cuts the races short, and one writer meets the
operator's aborts over every other worker. `two_starts` has no retries and continues after
failures, which is where a start prompts and deletes most, and where one start selects
dependents while the other still runs, or picks again, what they depend on; four sessions let each of
two starts create one for each of two workers.

In `projects` two prefixes and a directory outside both are what a refresh can confuse, and
one change by others (`MaxChanges`) suffices to make any one list stale; the proofs are for
any number. In `validation` a document of the current routes, one of the old ones with the
`wait` parameter and one without events cover the branches of `ServerProfile`; two events
(`EventLimit`, `MaxEvents`) reach the limit of `smoke`, and a sweep goes on beside the one
command that makes two sessions (`Swept`).

Of the lifecycle states the analysis tells apart only five classes; `timeout_retry`
stands for a failed worker that may run again, a missing id for one that may not.

Runs of `DependencyAnalysis`, `RunOrchestration`, `RunCleanup`, `ProjectCopyCleanup` and
`LiveValidation` do not check deadlock: the analysis, a cleanup and a command end, a run
start ends and nobody need start it again, and once its record is deleted nothing is left
to clean up.

Fairness. In `RunOrchestration` each process has weak fairness of its own steps, because every
call it waits for has a timeout (`DEFAULT_BLOCKING_EXECUTION_TIMEOUT_SECONDS` for a
prompt, the client's request timeout for the rest). Nothing else is fair: the operator
need not abort, a process may die, nobody need start a run. In `LiveValidation` the command
is fair, because each of its calls has a timeout, of the request or of the command, and so is
the reading thread, because a read of the stream times out like any other request; the
server is not: it need not run a turn, send an event or end the stream, and the sweep need
not go on. The other modules have only safety properties.

## 4. Where code and documents disagree

Each has a run that expects the violation.

* `timeout_retry`: the message "automatic timeout retry skipped because the timed-out
  request may still be running" is followed, under `--execution-policy continue`, by a
  retry in the same start, because the next plan finds `timeout_retry` executable. Such retries are not counted
  in `retry_count` and so have no bound. The trace also shows that the retry goes to the
  session that timed out, while `docs/ocs/orchestration.md:71` promises a newly created one.
* `creation_fails`: when a session cannot be created after another worker finished,
  the failure path asks for an illegal transition of the finished worker, and
  `run start` ends in a traceback instead of recording the failure.
* `cleanup_branch`: a worktree that git refuses to remove (locked, in use), or that no
  longer verifies, keeps its place, but its branch is deleted all the same when
  `remove_branches` runs, because only an error of the category `branches` stops it. The
  worktree is then left with a branch that does not exist. `docs/ocs/command-reference.md`
  promises the worktree's removal first.
Three more observations have no run. `docs/ocs/orchestration.md:30`
says `--cleanup` deletes sessions "created by that start"; it also deletes what the record
lists from other starts with `--cleanup`, never a session of a start without it
(`DeletesDisposable`). And a session listed by another start while `cleanup_updated` writes
its list is forgotten by the record; its creator still deletes it (`StartCleansUp`), unless
it raises. Third, the preflight of a cleanup compares a branch with HEAD once. When HEAD is moved
back afterwards (a reset of the main branch, another branch checked out), the transaction
still finds the branch at its tip and deletes it with a commit that is no longer merged,
without `--force`, although `docs/ocs/command-reference.md:77` says that `--force` is what
permits it; `SparesWork` without its condition on `rewound` is violated that way. A branch that is
reset to a merged commit while HEAD is looked at, and restored, is lost likewise.

## 5. Proofs

TLAPS proves, for every value of the constants, each invariant that a passing run checks,
and each action property and the refinement. The proofs rest on the named `ASSUME`s of the modules, which TLC
evaluates in the runs, and on the hypotheses named here. Each theorem about a whole module
is an inductive invariant and the properties it implies.

**`WorkerLifecycleProofs`**: `TypeCorrect`, `AttemptNumbering`, `RetriesBounded`,
`VerdictsForgotten`, `AbortFinality`, `FinishedFinality`, for any number of writers and
attempts. The inductive invariant `IInv` adds to the checked ones that a *held* attempt or
finalization came from some earlier version of the record (`HeldAttemptsFromSnapshots`):
without it a writer could hold attempt 7 of a worker with two. Each conjunct is preserved by
`Reduce` case by case, in lemmas about `ApplyTransition`.

**`RemoteJournalProofs`**: `TypeCorrect`, `Evidence`, `TruthfulEntries`, `Reported`,
`Refinement`, for any set of mutations. The inductive invariant relates each program counter
to what the journal must say then: a mutation that has not begun is nowhere (`Untouched`),
one in flight is still listed while its record exists (`InFlightListed`), only what asks is
served (`Asked`), what was handled is recorded (`HandledRecorded`), what is listed is known
(`ListedKnown`). Refinement is the step simulation under this invariant.

**`DependencyAnalysisProofs`**: `FindsCycles`, `OrdersDependencies`, `BlocksReachable`,
`LeavesNobodyBehind`, for any graph of any number of workers. The invariant of the search
says that the path being visited is one (`PathIsOpen`), that what was left is what was
ordered (`OrderIsVisited`), that each dependency examined was left before the worker that has
it, unless both lie on cycles reported (`Examined`), and that each cycle reported is one
(`CyclesAreReal`). So without a reported cycle all that a worker reaches comes before it
(`OrderIsDependency`), and a worker that reaches itself would come before itself. `Propagating`
says that each kind of blocker has spread from its seeds and not beyond the closure; that the
rounds of `Propagated` reach the closure is a lemma (`PropagatedEffect`): each round but the
last blocks a worker, and there are only so many.

**`RunOrchestrationProofs`**, for any number of starts, workers, dependencies and sessions:

| Theorem | Property | Hypothesis | What its invariant adds |
|---|---|---|---|
| `TypeCorrect` | `TypeOK` | - | |
| `DisposableOnly` | `DeletesDisposable` | - | lists, memories and plans hold disposable sessions (`OnlyDisposable`) |
| `CleansUpBehind` | `StartCleansUp` | - | what a start remembers is in its plan or deleted, unless a deletion failed (`CleanupTracked`) |
| `ActiveIsExecuted` | `ActiveHasExecutor` | no start dies | nothing: it is inductive with the types |
| `DependenciesRunFirst` | `DependenciesFirst` | one start at a time, or no new prompts (`Undisturbed`) | what a start took for done is done (`DependenciesTracked`) |
| `AttemptsAreRetries` | `AttemptsAreCounted` | one start at a time, no new prompts (`OnlyRetries`) | of the workers that do not retry timeouts, one that may be picked up has no attempt that is not counted (`CountsTracked`) |
| `UpdatesAreLegal` | `NeverRaises` | one start at a time, sessions registered | a start knows each worker but for aborts accepted since (`CourseTracked`) |
| `RunsAreSettled` | `StartSettlesRun` | one start at a time, no aborts; no new prompts or no deaths (`Alone`) | a start knows each worker; what it would fail contains what can be executed (`SettleTracked`) |

The hypotheses are those under which the code keeps the promise: for each of them TLC finds a
counterexample to the property in an instance that violates it. A start that
dies leaves its worker active. A new prompt queues a finished dependency again
while another start relies on it, or while a worker that depends on it was left active. Two
starts may pick the same worker, and one of them then fails to update it (so the runs
`start` and `restart` have one process), or each makes an attempt of it that nobody counts;
so does a start with a new prompt.
An abort after a start has ended leaves the workers that depend on it to the next one.

**`RunCleanupProofs`**: `TypeCorrect`, `Invariance`, `PlanStaysTrueAlways`,
`SparesActiveWorkersAlways`, `DeletesFrozenTipAlways`, `RemovalIsTracked`,
`SparesWorkAlways`, `DeletesRecordLastAlways`, for any number of cleanups, resources,
sessions and changes. `PlanStaysTrue` is not inductive:
another cleanup could begin its audit meanwhile, or the record be replaced. The
invariant adds that one cleanup runs at a time (`Exclusive`), that a plan is of a record
that exists (`Planned`) and that the record of a removal is marked, so that every
update is refused (`Fenced`). For the frozen tip it adds that a removal step has one
target (`Aimed`) and that a prepared branch is at its tip until committed
(`HeldAtTip`), which the lock gives. Nine kinds of removal step have one lemma in
common: each *goes on* (`Goes`) from one state to another with the same plan. The last two
properties speak of what a removal has done so far, so a second invariant on top of the first
(`Tracked`) says what is gone for good at each program counter (`Done`), that failures are
errors (`Blamed`), and that the numbers which tell a thing from its replacement are never
given out twice (`Numbered`, `Ages`). `Merged` carries `SparesWorkAlways` over the looks:
without force, and unless the branch or HEAD was moved back, a tip that was read is among the
commits the branch has, as long as HEAD has yet to be looked at, and among those HEAD has
afterwards (`Limit`). Others keep it because what is not noted in `rewound` went forward
(`Forward`); what each look leads to is one lemma (`LookLeads`).

**`ProjectCopyCleanupProofs`**: `TypeCorrect`, `Invariance`, `DoneIsGoneAlways`,
`RefreshIsScopedAlways`, `DeletesOwnWorkspacesAlways`, `PlansTogetherAlways`, for any number
of changes by others. None of the four properties is inductive: each speaks of a step taken
from a list read earlier. The invariant says for every program counter what the list still
tells: what a refresh would drop is planned or news (`Scoped`), a listed workspace is where
it was or news (`Checked`, `Aimed`), what is registered was seen or is news (`Verified`),
and of the plans that they are complete once anything is changed (`AllPlannedByThen`) and
allow no more than was planned (`AllowedOwn`). Applying a plan never changes one
(`ApplyKeeps`), so each conjunct is a matter of a few steps.

**`LiveValidationProofs`**: `TypeCorrect`, `EventsAreInOrder`, `CleanupTellsTruth`,
`EvidenceHolds`, `TimeoutTellsTruth`, for any documents, kinds of event, bounds and modes.
The invariant has four parts, each resting on those before it. `Shaped` is the types. `Read`
says that what was read, what is queued, what the thread has in hand and what is on the wire
are together what was sent (`InOrder`), until the reading is given up, and who may be reading
(`ReadsAlone`). `Tracked` says that a cleaner deletes sessions made for the command, that
none is made twice (`Fresh`) and that the command knows of all of them unless it has failed
(`Knows`). `Known` says that an event of execution on the wire, and a result that rests on
one, have a turn behind them, and that a call is about its own session (`Linked`). The limit
of `smoke` is a small invariant of its own (`Limited`).

**`WorkerLemmas`** has what several of these need: effects and types of transitions, the
least and the greatest of a set of numbers, and what repeated rounds of a function come to.
The library's induction theorems take an operator, which the provers cannot instantiate, so
a fact about a recursive function (`Propagated`, `Only`) is proved by its least
counterexample (`LeastNatural`), and reachability is defined as the least closed set
(`Reached`) rather than by the library's recursive closure.

Only model-checked: liveness (`Terminates`, `WatcherEnds`, `CommandEnds`), which needs
fairness and `ENABLED`, and the violations of section 4. The `TypeOK` of
`RunOrchestration` and `LiveValidation` are proved; no run is spent on them.

## 6. Not modelled

* Building requests and parsing responses (`api_client.py`, `api_transport.py`,
  `urllib_compat.py`) and the schema adapters: data without control. The models see a call
  that answers, fails or is lost.
* Queries of sessions, blockers and diagnostics, listing and collecting: single calls that
  keep nothing.
* The format of the run record and its migration (`worker_storage_adapter.py`): fields are
  coerced one by one, and no order of steps matters. The aggregated run status is recomputed
  from the workers on each save.
* Argument parsing, exit codes beyond success and kind of failure, formatting.
* `run worker --retry-count` and `--retry-limit` overwrite counters by hand; with them no
  bound on retries holds.
* `snapshot_applied` transitions (`worker_snapshot_transition.py`), which tests alone use.
* Texts (reasons, blockers, prompts), times, costs and tokens, which no property reads.

## 7. What could follow

1. The start of an attempt and its prompt as two steps of `RunOrchestration`, with the prompts
   of `SessionPrompts` in place of its one-step answer, and the proofs carried over.
2. `run status` recovering an expired attempt beside a start that is about to time it out.
3. An abstract specification of a run (a worker is run at most once between two requeues,
   after its dependencies) that `RunOrchestration` implements under `Undisturbed`.
