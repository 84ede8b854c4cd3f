-------------------------- MODULE WorkerLifecycle --------------------------
(***************************************************************************)
(* One worker record and everybody who writes it: the executor of a        *)
(* run start, a second run start, the lease recovery, the planner and the  *)
(* operator's commands.                                                    *)
(*                                                                         *)
(* Writers do not hold the run lock while they work.  A writer reads a     *)
(* snapshot, builds a transition from it (here: held), works for as long   *)
(* as a model turn takes, and hands the transition to the store, which     *)
(* checks and reduces it against the record of that later moment.          *)
(***************************************************************************)
EXTENDS WorkerTransitions

CONSTANTS
  Actors,        \* processes that write the worker
  NoTransition,  \* a process holds no transition
  RetryLimits,   \* retry limits a worker may be configured with
  RetryChoices,  \* sets of retryable failures it may be configured with
  PolicyChoices, \* timeout policies it may be configured with
  MaxAttempts    \* bound on the attempts started

ASSUME NoTransitionAssumption == NoTransition \notin Transitions
ASSUME RetryLimitsAssumption == RetryLimits \subseteq Nat
ASSUME RetryChoicesAssumption ==
  RetryChoices \subseteq SUBSET (FailureCategories \cup {"all"})
ASSUME PolicyChoicesAssumption == PolicyChoices \subseteq TimeoutPolicies
ASSUME MaxAttemptsAssumption == MaxAttempts \in Nat

VARIABLES
  worker,  \* the persisted record
  held     \* actor -> the transition it built from an earlier snapshot

vars == <<worker, held>>

\* A worker as run worker creates it, with the limits it is configured with.
NewWorkers ==
  [lifecycle : {"queued"}, session : Sessions \cup {NoSession},
   abort : {"none"}, retryCount : {0}, retryLimit : RetryLimits,
   retryOn : RetryChoices, retryable : {TRUE}, manualRetry : {FALSE},
   policy : PolicyChoices, attempts : {<< >>}, result : {"none"},
   cleanup : {{}}]

Init ==
  /\ worker \in NewWorkers
  /\ held = [a \in Actors |-> NoTransition]

-----------------------------------------------------------------------------
(* Building a transition from the current record.                          *)

Hold(a, t) ==
  /\ held[a] = NoTransition
  /\ held' = [held EXCEPT ![a] = t]
  /\ UNCHANGED worker

\* What an executor knows once ACTIVE and ATTEMPT_STARTED went through: its
\* attempt is in flight, or an accepted abort swallowed both of them.
InAttempt == worker.lifecycle = "active_wait" \/ AcceptedAbort(worker)

\* The attempt an outcome finalizes; a swallowed one has an id of its own.
OutcomeIds ==
  {worker.attempts[i].id : i \in DOMAIN worker.attempts}
    \cup (IF AcceptedAbort(worker) THEN {Len(worker.attempts) + 1} ELSE {})

Finalization(id, status) == [id |-> id, status |-> status]

HoldProvisioned(a) == Hold(a, Provisioned(worker))

HoldActive(a) == Hold(a, MarkActive)

HoldAttempt(a) ==
  /\ InAttempt
  /\ Len(worker.attempts) < MaxAttempts
  /\ Hold(a, AttemptStarted(worker))

HoldResult(a) ==
  /\ InAttempt
  /\ \E id \in OutcomeIds, status \in ResultStatuses :
       Hold(a, ApplyResult(status, Finalization(id, "completed")))

\* An api or provider failure: retry while the policy allows it ...
HoldRetry(a) ==
  /\ InAttempt
  /\ \E category \in {"api", "provider"}, id \in OutcomeIds :
       /\ RetryAvailable(worker, category)
       /\ Hold(a, ScheduleRetry(worker, Finalization(id, "retry_scheduled")))

\* ... and fail once it does not.
HoldFailed(a) ==
  /\ InAttempt
  /\ \E category \in {"api", "provider"}, id \in OutcomeIds :
       /\ ~RetryAvailable(worker, category)
       /\ Hold(a, MarkFailed(worker, category, TRUE,
                             Finalization(id, "failed")))

\* The executor's own deadline, or the lease recovery of another process.
HoldTimeout(a) ==
  /\ InAttempt
  /\ \E id \in OutcomeIds :
       Hold(a, MarkTimeout(worker, Finalization(id, "failed")))

\* run start fails before any worker runs: the server is unreachable.
HoldStartFailed(a) ==
  /\ worker.lifecycle \in ExecutableStates
  /\ Hold(a, MarkFailed(worker, "api", FALSE, NoFinalization))

\* The planner blocks a worker whose dependency failed.
HoldBlocked(a) ==
  /\ worker.lifecycle \in RunnableStates
  /\ Hold(a, DependencyBlocked)

\* --cleanup deleted some of the sessions the snapshot names.
HoldCleanup(a) ==
  \E pending \in SUBSET worker.cleanup : Hold(a, CleanupUpdated(pending))

Build(a) ==
  \/ HoldProvisioned(a) \/ HoldActive(a) \/ HoldAttempt(a) \/ HoldResult(a)
  \/ HoldRetry(a) \/ HoldFailed(a) \/ HoldTimeout(a) \/ HoldStartFailed(a)
  \/ HoldBlocked(a) \/ HoldCleanup(a)

-----------------------------------------------------------------------------
(* The store.                                                              *)

\* persist_worker_transitions: checked and reduced under the run lock.
Persist(a) ==
  /\ held[a] # NoTransition
  /\ Legal(worker, held[a])
  /\ worker' = ApplyTransition(worker, held[a])
  /\ held' = [held EXCEPT ![a] = NoTransition]

\* Nothing is written: the transition is illegal by now (WorkerTransitionError),
\* another one of its batch is, the run is fenced by a cleanup, the write fails,
\* or the process dies.
Lose(a) ==
  /\ held[a] # NoTransition
  /\ held' = [held EXCEPT ![a] = NoTransition]
  /\ UNCHANGED worker

\* Transitions that are built from the latest record, under the lock.
ApplyNow(t) ==
  /\ Legal(worker, t)
  /\ worker' = ApplyTransition(worker, t)
  /\ UNCHANGED held

\* run abort, after the server answered.
Abort ==
  /\ worker.session # NoSession
  /\ \E accepted \in BOOLEAN : ApplyNow(MarkAborted(accepted))

\* run worker --status active, run worker --status blocked --blocker b.
SetStatus == ApplyNow(MarkActive) \/ ApplyNow(DependencyBlocked)

\* run start --prompt
Requeue == worker' = RequeuedWorker(worker) /\ UNCHANGED held

\* A created session, or run start --session s.
UseSession ==
  \E s \in Sessions, disposable \in BOOLEAN :
    worker' = WithSession(worker, s, disposable) /\ UNCHANGED held

Next ==
  \/ \E a \in Actors : Build(a) \/ Persist(a) \/ Lose(a)
  \/ Abort \/ SetStatus \/ Requeue \/ UseSession

Spec == Init /\ [][Next]_vars

-----------------------------------------------------------------------------
(* Properties.                                                             *)

\* Every reachable record is one the lifecycle table knows, and what a process
\* holds is a transition the store accepts.
TypeOK ==
  /\ worker \in Workers
  /\ held \in [Actors -> Transitions \cup {NoTransition}]

\* Attempt ids are attempt-1, attempt-2, ... without gap or repetition, however
\* many executors number them from stale snapshots (new_attempt_record counts
\* the snapshot's attempts, append_attempt drops an id already there): a
\* finalization names one attempt.
AttemptIdsAreIndices ==
  \A i \in DOMAIN worker.attempts : worker.attempts[i].id = i

\* retry_count never passes retry_limit, nor does the absolute count a stale
\* process is about to write (schedule_worker_retry checks its own snapshot).
RetryWithinLimit ==
  /\ worker.retryCount <= worker.retryLimit
  /\ \A a \in Actors :
       (held[a] # NoTransition /\ held[a].name = "retry_scheduled")
         => held[a].retryCount <= worker.retryLimit

\* A worker that runs or is done carries no verdict of an earlier failure: not
\* the failure_retryable = False a failed start leaves, which would disable its
\* retries, and not a request for a manual retry.
NoStaleVerdict ==
  worker.lifecycle \in ActiveStates \cup {"done_collect"}
    => worker.retryable /\ ~worker.manualRetry

\* A step keeps an accepted abort, or run start --prompt reopens the worker.
KeepsAbort ==
  AcceptedAbort(worker) =>
    \/ worker' = RequeuedWorker(worker)
    \/ /\ AcceptedAbort(worker')
       /\ worker'.result = worker.result
       /\ worker'.retryCount = worker.retryCount
       /\ Len(worker'.attempts) = Len(worker.attempts)

\* Once an abort is accepted, no result, retry, timeout or failure that was in
\* flight changes the outcome (_accepted_abort_terminal_invariant).
AbortIsFinal == [][KeepsAbort]_vars

FinishedStates == {"done_collect", "failed_terminal", "timeout_terminal",
                   "timeout_failed_terminal", "aborted"}

\* A step leaves a finished worker finished, or run start --prompt reopens it.
KeepsFinished ==
  worker.lifecycle \in FinishedStates =>
    \/ worker'.lifecycle = worker.lifecycle
    \/ worker' = RequeuedWorker(worker)

\* A finished worker stays finished whatever a stale process still writes (the
\* source states of worker_transition_is_legal).
FinishedStaysFinished == [][KeepsFinished]_vars
=============================================================================
