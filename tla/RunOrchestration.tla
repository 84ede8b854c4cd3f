-------------------------- MODULE RunOrchestration --------------------------
(***************************************************************************)
(* run start: the dependency-ordered serial execution of a run's workers,  *)
(* by one process or several, against the run record they share.           *)
(*                                                                         *)
(* Each action is one update of the record under the run lock, or one look *)
(* at it.  Between two of them a process keeps the record it got from the  *)
(* last one (run) and decides from that.  Model turns, session creations   *)
(* and the capability probe take place between actions.                    *)
(*                                                                         *)
(* Workers are numbered in the sorted order of their ids and all have a    *)
(* prompt; unprompted workers and cycles are left to DependencyAnalysis.   *)
(***************************************************************************)
EXTENDS WorkerDependencies

CONSTANTS
  Starters,     \* processes that execute run start
  N,            \* number of workers
  Missing,      \* an id that names no worker
  Graphs,       \* dependency graphs of the run
  Configs,      \* [retryLimit, retryOn, policy] a worker may be given
  Registered,   \* the session workers are registered with, or NoSession
  Results,      \* statuses an answered prompt may have
  Failures,     \* categories of failure a prompt may end in
  ExecutionPolicies,
  Timed,        \* workers with timeout_seconds
  Abortable,    \* workers the operator may abort
  Reprompted,   \* workers run start may give a new prompt
  Mortal,       \* processes that may die
  Cleanup,      \* whether a start is asked for --cleanup: a set of choices
  MaxStarts,    \* bound on the starts of each process
  MaxAttempts   \* bound on the attempts of a worker; a start is called only
                \* while another attempt and the retries left fit

Worker == 1 .. N

ASSUME NAssumption == N \in Nat \ {0} /\ Missing \notin Worker
ASSUME GraphsAssumption ==   \* acyclic
  \A g \in Graphs :
    /\ g \in [Worker -> SUBSET (Worker \cup {Missing})]
    /\ \A ws \in (SUBSET Worker) \ {{}} : \E w \in ws : g[w] \cap ws = {}
ASSUME ConfigsAssumption ==
  Configs \subseteq [retryLimit : Nat, retryOn : SUBSET
                       (FailureCategories \cup {"all"}),
                     policy : TimeoutPolicies]
ASSUME RegisteredAssumption == Registered \in Sessions \cup {NoSession}
ASSUME AnswersAssumption ==
  Results \subseteq ResultStatuses /\ Failures \subseteq FailureCategories
ASSUME ExecutionPoliciesAssumption ==
  ExecutionPolicies \subseteq {"fail_fast", "continue"}
ASSUME SubsetsAssumption ==
  /\ Timed \subseteq Worker /\ Abortable \subseteq Worker
  /\ Reprompted \subseteq Worker /\ Mortal \subseteq Starters
  /\ Cleanup \subseteq BOOLEAN
ASSUME BoundsAssumption == MaxStarts \in Nat /\ MaxAttempts \in Nat

VARIABLES
  deps,        \* dependencies of each worker
  workers,     \* the persisted worker records
  created,     \* sessions the server was asked to create
  disposable,  \* those whose metadata says that cleanup was requested
  deleted,     \* those the server no longer has
  proc         \* the state of each process

server == <<created, disposable, deleted>>
vars == <<deps, workers, server, proc>>

NewWorker(c) ==
  [lifecycle |-> "queued", session |-> Registered, abort |-> "none",
   retryCount |-> 0, retryLimit |-> c.retryLimit, retryOn |-> c.retryOn,
   retryable |-> TRUE, manualRetry |-> FALSE, policy |-> c.policy,
   attempts |-> << >>, result |-> "none", cleanup |-> {}]

Over == {"idle", "ended", "unclean", "raised", "stopped"}
Busy == {"begin", "recover", "plan", "probe", "provision", "create",
         "provisioned", "active", "attempt", "prompt", "refused", "replan",
         "clean", "delete", "deleted"}

NoRun == << >>

\* run: the record the process last got; base: the one it got when it marked
\* the run active; error: a worker failed in this start; remembered: the
\* sessions it created for each worker, under --cleanup; todo: those of its
\* cleanup plan that are left; failed: a deletion failed.
NoneOf == [w \in Worker |-> {}]

Proc(pc, policy, cleanup, starts) ==
  [pc |-> pc, policy |-> policy, cleanup |-> cleanup, starts |-> starts,
   run |-> NoRun, base |-> NoRun, target |-> 0, attempt |-> 0,
   error |-> FALSE, remembered |-> NoneOf, todo |-> NoneOf, failed |-> FALSE]

Init ==
  /\ deps \in Graphs
  /\ \E c \in Configs : workers = [w \in Worker |-> NewWorker(c)]
  /\ created = {} /\ disposable = {} /\ deleted = {}
  /\ proc = [s \in Starters |-> Proc("idle", "fail_fast", FALSE, 0)]

-----------------------------------------------------------------------------
(* Updates of the record.                                                  *)

Leaves(s, pc) ==
  proc' = [proc EXCEPT ![s] = Proc(pc, @.policy, @.cleanup, @.starts)]

\* The process goes on as p, with the record as it now is.
Resumes(s, p) ==
  IF p.pc \in Over THEN Leaves(s, p.pc)
  ELSE proc' = [proc EXCEPT ![s] = [p EXCEPT !.run = workers']]

\* persist_transitions: all of them, or an exception nothing catches.
Persist(s, transitions, p) ==
  LET ws == DOMAIN transitions IN
  /\ \/ /\ \A w \in ws : Legal(workers[w], transitions[w])
        /\ workers' = [w \in Worker |->
                         IF w \in ws
                         THEN ApplyTransition(workers[w], transitions[w])
                         ELSE workers[w]]
        /\ Resumes(s, p)
     \/ /\ \E w \in ws : ~Legal(workers[w], transitions[w])
        /\ Leaves(s, "raised")
        /\ UNCHANGED workers
  /\ UNCHANGED deps

\* The same for the worker being executed.
PersistTarget(s, transition, p) ==
  Persist(s, [w \in {p.target} |-> transition], p)

View(run) == [life     |-> [w \in Worker |-> run[w].lifecycle],
              prompted |-> Worker,
              deps     |-> deps]

\* Fails all workers of the record, finished ones too.
PendingAll(run) == Worker

\* pending_prompted_workers
Pending(run) == {w \in Worker : Executable(View(run), w)}

\* The workers that run had pending fail; the start goes on at pc.
FailStart(s, run, pc) ==
  Persist(s, [w \in Pending(run) |->
                MarkFailed(run[w], "api", FALSE, NoFinalization)],
          [proc[s] EXCEPT !.pc = pc])

\* Cleans up after a success only.
ExecutedWithoutError(p) ==
  IF p.cleanup /\ ~p.error THEN "clean" ELSE "ended"

\* No worker is left to execute: the cleanup phase follows, if requested.
Executed(p) == IF p.cleanup THEN "clean" ELSE "ended"

-----------------------------------------------------------------------------
(* Before the first worker.                                                *)

\* run start is called; --prompt queues a worker again.
Request(s) ==
  /\ proc[s].pc \in Over
  /\ proc[s].starts < MaxStarts
  /\ \A w \in Worker :
       Len(workers[w].attempts) + workers[w].retryLimit
         < MaxAttempts + workers[w].retryCount
  /\ \E policy \in ExecutionPolicies, cleanup \in Cleanup :
       proc' = [proc EXCEPT ![s] = Proc("begin", policy, cleanup, @.starts + 1)]
  /\ \/ UNCHANGED workers
     \/ \E w \in Reprompted :
          workers' = [workers EXCEPT ![w] = RequeuedWorker(@)]
  /\ UNCHANGED <<deps, server>>

Begin(s) ==
  /\ proc[s].pc = "begin"
  /\ proc' = [proc EXCEPT ![s].pc = "recover", ![s].run = workers]
  /\ UNCHANGED <<deps, workers, server>>

ActiveAttempts(w) ==
  {i \in DOMAIN w.attempts : w.attempts[i].status = "active"}

Latest(ids) == CHOOSE i \in ids : \A j \in ids : j <= i

Recoverable(run) ==
  {w \in Timed : /\ run[w].lifecycle = "active_wait"
                 /\ ActiveAttempts(run[w]) # {}}

\* recover_expired_active_attempts: the workers whose lease has expired.
Recover(s) ==
  LET p == proc[s] IN
  /\ p.pc = "recover"
  /\ \E expired \in SUBSET Recoverable(p.run) :
       Persist(s, [w \in expired |->
                     MarkTimeout(p.run[w],
                       [id     |-> Latest(ActiveAttempts(p.run[w])),
                        status |-> "failed"])],
               [p EXCEPT !.pc = "plan", !.error = expired # {}])
  /\ UNCHANGED server

Least(ws) == CHOOSE w \in ws : \A x \in ws : w <= x

\* Where the process goes on after a plan.
Selected(p, ready) ==
  IF ready = {} \/ (p.error /\ p.policy = "fail_fast")
  THEN [p EXCEPT !.pc = IF p.pc = "plan" THEN "ended" ELSE Executed(p)]
  ELSE [p EXCEPT !.pc = IF p.pc = "plan" THEN "probe" ELSE "provision",
                 !.target = Least(ready)]

\* Returns at once on a failure under fail_fast, without a last plan.
PlanAfterFailFastReturn(s) ==
  LET p       == proc[s]
      blocked == BlockedIds(View(p.run), {})
      ready   == ReadyIds(View(p.run), blocked)
  IN
  /\ p.pc \in {"plan", "replan"}
  /\ IF p.error /\ p.policy = "fail_fast"
     THEN Leaves(s, "ended") /\ UNCHANGED <<deps, workers>>
     ELSE Persist(s, [w \in blocked |-> DependencyBlocked],
                  Selected(p, ready))
  /\ UNCHANGED server

\* Before the first worker and after each one: blocks what the record held by
\* the process says is blocked, and selects from it, too.
Plan(s) ==
  LET p       == proc[s]
      blocked == BlockedIds(View(p.run), {})
      ready   == ReadyIds(View(p.run), blocked)
  IN
  /\ p.pc \in {"plan", "replan"}
  /\ Persist(s, [w \in blocked |-> DependencyBlocked], Selected(p, ready))
  /\ UNCHANGED server

\* The server is unreachable or lacks a route to execute prompts.
ProbeFails(s) ==
  /\ proc[s].pc = "probe"
  /\ FailStart(s, proc[s].run, "ended")
  /\ UNCHANGED server

\* The probe succeeds; the run is marked active.
MarkRunActive(s) ==
  /\ proc[s].pc = "probe"
  /\ proc' = [proc EXCEPT ![s].pc = "provision", ![s].run = workers,
                          ![s].base = workers]
  /\ UNCHANGED <<deps, workers, server>>

-----------------------------------------------------------------------------
(* Executing the selected worker.                                          *)

\* Marks the worker active before its session is created.
IntendActive(s) ==
  LET p == proc[s] IN
  /\ p.pc = "provision"
  /\ p.run[p.target].session = NoSession
  /\ PersistTarget(s, MarkActive, [p EXCEPT !.pc = "create"])
  /\ UNCHANGED server

\* The intent to create a session is written into the record.
Intend(s) ==
  LET p == proc[s] IN
  /\ p.pc = "provision"
  /\ p.run[p.target].session = NoSession
  /\ proc' = [proc EXCEPT ![s].pc = "create", ![s].run = workers]
  /\ UNCHANGED <<deps, workers, server>>

\* remember_created_worker_sessions
Remembering(p, x) ==
  IF p.cleanup THEN [p EXCEPT !.remembered[p.target] = @ \cup {x}] ELSE p

\* The server creates the session, unless the intent's record had one already.
CreateSession(s) ==
  LET p == proc[s] IN
  /\ p.pc = "create"
  /\ \/ /\ p.run[p.target].session # NoSession
        /\ proc' = [proc EXCEPT ![s].pc = "provisioned", ![s].run = workers]
        /\ UNCHANGED <<workers, created, disposable>>
     \/ /\ p.run[p.target].session = NoSession
        /\ \E x \in Sessions \ (created \cup {Registered}) :
             /\ created' = created \cup {x}
             /\ disposable' = IF p.cleanup THEN disposable \cup {x}
                                            ELSE disposable
             /\ workers' = [workers EXCEPT
                              ![p.target] = WithSession(@, x, p.cleanup)]
             /\ proc' = [proc EXCEPT
                           ![s] = [Remembering(p, x) EXCEPT
                                     !.pc = "provisioned", !.run = workers']]
  /\ UNCHANGED <<deps, deleted>>

\* The server does not: the workers fail that were pending when the run was
\* marked active.
CreationFails(s) ==
  LET p == proc[s] IN
  /\ p.pc = "create"
  /\ p.run[p.target].session = NoSession
  /\ FailStart(s, p.base, Executed(p))
  /\ UNCHANGED server

Provision(s) ==
  LET p == proc[s] IN
  /\ \/ p.pc = "provisioned"
     \/ p.pc = "provision" /\ p.run[p.target].session # NoSession
  /\ PersistTarget(s, Provisioned(p.run[p.target]), [p EXCEPT !.pc = "active"])
  /\ UNCHANGED server

Activate(s) ==
  LET p == proc[s] IN
  /\ p.pc = "active"
  /\ PersistTarget(s, MarkActive, [p EXCEPT !.pc = "attempt"])
  /\ UNCHANGED server

StartAttempt(s) ==
  LET p == proc[s]
      w == p.run[p.target]
  IN
  /\ p.pc = "attempt"
  /\ Len(w.attempts) < MaxAttempts
  /\ PersistTarget(s, AttemptStarted(w),
       [p EXCEPT !.pc = IF w.session \in deleted THEN "refused" ELSE "prompt",
                 !.attempt = NewAttempt(w).id])
  /\ UNCHANGED server

\* What the prompt came to, built from the record of the attempt's start.
Answer(s) ==
  LET p == proc[s]
      w == p.run[p.target]
      Ends(status) == [id |-> p.attempt, status |-> status]
      Outcome(transition, failed) ==
        PersistTarget(s, transition,
          [p EXCEPT !.pc = "replan", !.error = @ \/ failed])
  IN
  /\ p.pc \in {"prompt", "refused"}
  /\ \/ \E status \in Results :
          /\ p.pc = "prompt"
          /\ Outcome(ApplyResult(status, Ends("completed")), FALSE)
     \/ \E c \in Failures \ {"timeout"} :
          \/ /\ RetryAvailable(w, c)
             /\ Outcome(ScheduleRetry(w, Ends("retry_scheduled")), FALSE)
          \/ /\ ~RetryAvailable(w, c)
             /\ Outcome(MarkFailed(w, c, TRUE, Ends("failed")), TRUE)
     \/ /\ "timeout" \in Failures
        /\ Outcome(MarkTimeout(w, Ends("failed")), TRUE)
  /\ UNCHANGED server

-----------------------------------------------------------------------------
(* --cleanup: the sessions this start created, and those an earlier one     *)
(* left in the workers' lists.                                             *)

\* The lists come from the record, whichever start wrote them.
Listed(p) == [w \in Worker |-> p.remembered[w] \cup p.run[w].cleanup]

PlanCleanup(s) ==
  LET p == proc[s] IN
  /\ p.pc = "clean"
  /\ IF Listed(p) = NoneOf THEN Leaves(s, "ended")
     ELSE proc' = [proc EXCEPT ![s].pc = "delete", ![s].todo = Listed(p)]
  /\ UNCHANGED <<deps, workers, server>>

\* Deletes the sessions of a worker, which may fail for any of them, and asks
\* for each whether it is gone, which may fail, too.
DeleteSessions(s) ==
  LET p == proc[s] IN
  /\ p.pc = "delete"
  /\ \E w \in Worker :
       /\ p.todo[w] # {}
       /\ \E gone \in SUBSET p.todo[w] :
            /\ deleted' = deleted \cup gone
            /\ \E verified \in SUBSET (p.todo[w] \cap deleted') :
                 LET pending == p.todo[w] \ verified IN
                 proc' = [proc EXCEPT
                   ![s] = [p EXCEPT !.pc = "deleted", !.target = w,
                             !.todo[w] = pending,
                             !.failed = @ \/ pending # {}]]
  /\ UNCHANGED <<deps, workers, created, disposable>>

\* The sessions that are left become the worker's list.
RecordCleanup(s) ==
  LET p    == proc[s]
      todo == [p.todo EXCEPT ![p.target] = {}]
      next == IF todo # NoneOf THEN "delete"
              ELSE IF p.failed THEN "unclean" ELSE "ended"
  IN
  /\ p.pc = "deleted"
  /\ PersistTarget(s, CleanupUpdated(p.todo[p.target]),
                   [p EXCEPT !.pc = next, !.todo = todo])
  /\ UNCHANGED server

-----------------------------------------------------------------------------

\* The process dies, or an update of the record fails.
Stop(s) ==
  /\ s \in Mortal /\ proc[s].pc \in Busy
  /\ Leaves(s, "stopped")
  /\ UNCHANGED <<deps, workers, server>>

\* run abort, after the server answered.
Abort(w) ==
  /\ workers[w].session # NoSession
  /\ \E accepted \in BOOLEAN :
       /\ Legal(workers[w], MarkAborted(accepted))
       /\ workers' = [workers EXCEPT
                        ![w] = ApplyTransition(@, MarkAborted(accepted))]
  /\ UNCHANGED <<deps, server, proc>>

Work(s) ==
  \/ Begin(s) \/ Recover(s) \/ Plan(s) \/ ProbeFails(s) \/ MarkRunActive(s)
  \/ Intend(s) \/ CreateSession(s) \/ CreationFails(s) \/ Provision(s)
  \/ Activate(s) \/ StartAttempt(s) \/ Answer(s)
  \/ PlanCleanup(s) \/ DeleteSessions(s) \/ RecordCleanup(s)

Next ==
  \/ \E s \in Starters : Request(s) \/ Work(s) \/ Stop(s)
  \/ \E w \in Abortable : Abort(w)

\* A process that was started works on: every call to the server has a timeout.
Spec == Init /\ [][Next]_vars /\ \A s \in Starters : WF_vars(Work(s))

-----------------------------------------------------------------------------
(* Properties.                                                             *)

Records == [Worker -> Workers]

Procs ==
  [pc : Over \cup Busy, policy : {"fail_fast", "continue"}, cleanup : BOOLEAN,
   starts : Nat, run : Records \cup {NoRun}, base : Records \cup {NoRun},
   target : Worker \cup {0}, attempt : Nat, error : BOOLEAN,
   remembered : [Worker -> SUBSET Sessions], todo : [Worker -> SUBSET Sessions],
   failed : BOOLEAN]

\* A process has the record, the base and the target it is about to use.
Executing == {"provision", "create", "provisioned", "active", "attempt",
              "prompt", "refused", "replan"}

Equipped(p) ==
  /\ p.pc \in Busy \ {"begin"} => p.run \in Records
  /\ p.pc \in Executing => p.base \in Records
  /\ p.pc \in Executing \cup {"probe", "deleted"} => p.target \in Worker

TypeOK ==
  /\ deps \in Graphs
  /\ workers \in Records
  /\ created \subseteq Sessions
  /\ disposable \subseteq created
  /\ deleted \subseteq Sessions
  /\ proc \in [Starters -> Procs]
  /\ \A s \in Starters : Equipped(proc[s])

\* A step starts an attempt of a worker only if all its dependencies are done
\* by then.
StartsAfterDependencies ==
  \A w \in Worker :
    Len(workers'[w].attempts) > Len(workers[w].attempts) =>
      \A d \in deps[w] : d \in Worker /\ workers[d].lifecycle = "done_collect"

\* Dependencies run first, although a start selects its next worker from the
\* record it holds and other starts and aborts change the shared one
\* (plan_dependency_ordered_serial_step).
DependenciesFirst == [][StartsAfterDependencies]_vars

\* A start that ended on its own leaves no worker to run that could only wait
\* for a failed dependency, even if it stopped at the first failure; and under
\* continue it leaves none that is ready (the loop of _execute_serial_workers).
StartSettlesRun ==
  \A s \in Starters : proc[s].pc = "ended" =>
    LET v == View(workers) IN
    /\ DependencySeeds(v) = {}
    /\ proc[s].policy = "continue" => ReadyIds(v, {}) = {}

\* No update a start asks for is illegal by the time it is made, whatever the
\* operator aborts meanwhile and wherever an earlier start died.
NeverRaises == \A s \in Starters : proc[s].pc # "raised"

RetriesTimeouts(w) == w.retryOn \cap {"timeout", "all"} # {}

EachIsCounted(w) == Len(w.attempts) <= w.retryCount + 1

\* Every attempt after the first has been counted as a retry, whatever failed or
\* timed out, of a worker that does not retry timeouts (schedule_worker_retry,
\* and the retry_available that _apply_timeout_attempt_failure records).
AttemptsAreCounted ==
  \A w \in Worker :
    RetriesTimeouts(workers[w]) \/ EachIsCounted(workers[w])

\* A worker is active only while a start executes it: one that is left active
\* is never picked up again (active_wait is not executable).
ActiveHasExecutor ==
  \A w \in Worker : workers[w].lifecycle = "active_wait" =>
    \E s \in Starters :
      proc[s].target = w /\ proc[s].pc \in {"attempt", "prompt", "refused"}

\* A start that ends without an error has deleted every session it created
\* under --cleanup, whatever other starts wrote into the workers' lists
\* meanwhile (CreatedWorkerCleanupPlanner.plan).
CleansUp ==
  \A s \in Starters :
    (proc[s].pc \in Busy /\ proc'[s].pc = "ended")
      => \A w \in Worker : proc[s].remembered[w] \subseteq deleted'

StartCleansUp == [][CleansUp]_vars

\* Only sessions created under --cleanup are deleted by it: never one a start
\* without it made for the same worker (cleanup_created_worker_sessions).
DeletesDisposable == deleted \subseteq disposable

\* A start under fail_fast always comes to an end, timeouts included; one under
\* continue does unless it tries a worker again without counting it, which it
\* may do after every timeout (the loop of _execute_serial_workers).
Terminates ==
  \A s \in Starters :
    proc[s].pc \in Busy
      ~> \/ proc[s].pc \in Over
         \/ /\ proc[s].policy = "continue"
            /\ \E w \in Worker : ~EachIsCounted(workers[w])

\* A start never goes back to a worker whose timeout it left for a manual retry
\* (the message of _apply_timeout_attempt_failure).
LeavesRetryToOperator ==
  \A s \in Starters :
    (proc[s].pc = "replan" /\ proc'[s].pc = "provision")
      => ~workers[proc'[s].target].manualRetry

NoAutomaticTimeoutRetry == [][LeavesRetryToOperator]_vars
=============================================================================
