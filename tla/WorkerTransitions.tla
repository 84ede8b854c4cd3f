------------------------- MODULE WorkerTransitions -------------------------
(***************************************************************************)
(* The worker lifecycle of worker_state.py as operators: the lifecycle     *)
(* table, the transitions with their source states, the builders that turn *)
(* a snapshot of a worker into a transition, and the reducer that applies  *)
(* a transition to the latest persisted worker.                            *)
(*                                                                         *)
(* A worker is abstracted to the fields that later decisions read.  Left   *)
(* out: timestamps, free text (error, reason, blockers), agent, model and  *)
(* role, and prompt_ids, which the program only ever prints.               *)
(***************************************************************************)
EXTENDS Naturals, Sequences

CONSTANTS
  Sessions,    \* ids of remote OpenCode sessions
  NoSession    \* session_id is None

ASSUME NoSessionAssumption == NoSession \notin Sessions

-----------------------------------------------------------------------------
(* The lifecycle table.                                                    *)

LifecycleStates ==
  {"queued", "active_wait", "active_retry", "blocked_dependency",
   "blocked_timeout", "done_collect", "failed_retry", "failed_terminal",
   "timeout_retry", "timeout_terminal", "timeout_failed_retry",
   "timeout_failed_terminal", "timeout_aborted", "aborted"}

ActiveStates  == {"active_wait", "active_retry"}
BlockedStates == {"blocked_dependency", "blocked_timeout"}
FailedStates  == {"failed_retry", "failed_terminal", "timeout_failed_retry",
                  "timeout_failed_terminal"}
TimeoutStates == {"timeout_retry", "timeout_terminal"}
AbortedStates == {"timeout_aborted", "aborted"}

\* States run start may pick up again.
ExecutableStates == {"queued", "active_retry", "failed_retry",
                     "timeout_retry", "timeout_failed_retry"}

\* is_failed_dependency_status: a dependent of such a worker is blocked.
FailedDependencyStates ==
  BlockedStates \cup FailedStates \cup TimeoutStates \cup AbortedStates

\* is_runnable_status: neither terminal nor blocked.
RunnableStates == {"queued"} \cup ActiveStates

-----------------------------------------------------------------------------
(* Worker records.                                                         *)

FailureCategories == {"api", "provider", "timeout"}
TimeoutPolicies   == {"timeout", "blocked", "failed", "aborted"}
ResultStatuses    == {"done", "blocked", "failed", "timeout", "aborted"}
AttemptStatuses   == {"active", "completed", "retry_scheduled", "failed"}

Attempts == [id : Nat \ {0}, session : Sessions \cup {NoSession},
             status : AttemptStatuses]

Workers ==
  [lifecycle   : LifecycleStates,
   session     : Sessions \cup {NoSession},
   abort       : {"none", "refused", "accepted"},
   retryCount  : Nat,
   retryLimit  : Nat,
   retryOn     : SUBSET (FailureCategories \cup {"all"}),
   retryable   : BOOLEAN,     \* failure_retryable is not False
   manualRetry : BOOLEAN,     \* manual_retry_required
   policy      : TimeoutPolicies,
   attempts    : Seq(Attempts),
   result      : ResultStatuses \cup {"none"},
   cleanup     : SUBSET Sessions]  \* cleanup.sessions: still to be deleted

AcceptedAbort(w) == w.abort = "accepted" /\ w.lifecycle \in AbortedStates

\* Off by one: the last retry is granted twice.
RetryAvailableOnceMore(w, category) ==
  /\ w.retryable
  /\ w.retryOn \cap {category, "all"} # {}
  /\ w.retryCount <= w.retryLimit

RetryAvailable(w, category) ==
  /\ w.retryable
  /\ w.retryOn \cap {category, "all"} # {}
  /\ w.retryCount < w.retryLimit

-----------------------------------------------------------------------------
(* Targets.                                                                *)

FailedTarget(retryable, available) ==
  IF retryable /\ available THEN "failed_retry" ELSE "failed_terminal"

TimeoutTarget(policy, available) ==
  CASE policy = "blocked" -> "blocked_timeout"
    [] policy = "aborted" -> "timeout_aborted"
    [] policy = "failed"  -> IF available THEN "timeout_failed_retry"
                                          ELSE "timeout_failed_terminal"
    [] policy = "timeout" -> IF available THEN "timeout_retry"
                                          ELSE "timeout_terminal"

ResultTarget(status) ==
  CASE status = "done"    -> "done_collect"
    [] status = "blocked" -> "blocked_dependency"
    [] status = "failed"  -> "failed_terminal"
    [] status = "timeout" -> "timeout_terminal"
    [] status = "aborted" -> "aborted"

-----------------------------------------------------------------------------
(* Transitions.  fin is the attempt finalization the transition carries.   *)

NoFinalization == [id |-> 0, status |-> "active"]
Finalizations  == [id : Nat, status : AttemptStatuses]

RetrySources == {"failed_retry", "timeout_retry", "timeout_failed_retry"}
StartSources == {"queued", "active_wait", "active_retry"} \cup RetrySources

\* A late result overwrites the result of a worker that is already done.
SourcesWithLateResult(name) ==
  CASE name \in {"provisioned", "failed"} -> StartSources
    [] name = "active"             -> StartSources \cup BlockedStates
    [] name = "dependency_blocked" -> {"queued"} \cup ActiveStates
    [] name = "aborted"            -> StartSources \cup BlockedStates
                                                   \cup AbortedStates
    [] name = "retry_scheduled"    -> {"active_wait"} \cup RetrySources
    [] name \in {"attempt_started", "timed_out"} -> {"active_wait"}
    [] name = "result_applied"     -> {"active_wait", "done_collect"}
    [] name = "cleanup_updated"    -> LifecycleStates

\* A start that picks a worker which is done by now makes it active again.
SourcesReopening(name) ==
  CASE name \in {"provisioned", "failed"} -> StartSources
    [] name = "active"             -> StartSources \cup BlockedStates
                                                   \cup {"done_collect"}
    [] name = "dependency_blocked" -> {"queued"} \cup ActiveStates
    [] name = "aborted"            -> StartSources \cup BlockedStates
                                                   \cup AbortedStates
    [] name = "retry_scheduled"    -> {"active_wait"} \cup RetrySources
    [] name \in {"attempt_started", "timed_out", "result_applied"} -> {"active_wait"}
    [] name = "cleanup_updated"    -> LifecycleStates

Sources(name) ==
  CASE name = "provisioned"        -> StartSources
    [] name = "active"             -> StartSources \cup BlockedStates
    [] name = "attempt_started"    -> {"active_wait"}
    [] name = "failed"             -> StartSources
    [] name = "dependency_blocked" -> {"queued"} \cup ActiveStates
    [] name = "aborted"            -> StartSources \cup BlockedStates
                                                   \cup AbortedStates
    [] name = "retry_scheduled"    -> {"active_wait"} \cup RetrySources
    [] name = "timed_out"          -> {"active_wait"}
    [] name = "result_applied"     -> {"active_wait"}
    [] name = "cleanup_updated"    -> LifecycleStates

\* All transitions but cleanup_updated are public lifecycle transitions: after
\* an accepted abort they are legal from anywhere and reduce to the abort.
Legal(w, t) ==
  \/ AcceptedAbort(w) /\ t.name # "cleanup_updated"
  \/ w.lifecycle \in Sources(t.name)

Transitions ==
  [name : {"provisioned"}, session : Sessions \cup {NoSession},
     fin : Finalizations]
  \cup [name : {"active", "dependency_blocked"}, fin : Finalizations]
  \cup [name : {"attempt_started"}, attempt : Attempts, fin : Finalizations]
  \cup [name : {"failed"}, retryable : BOOLEAN, available : BOOLEAN,
          fin : Finalizations]
  \cup [name : {"aborted"}, accepted : BOOLEAN, fin : Finalizations]
  \cup [name : {"retry_scheduled"}, retryCount : Nat, fin : Finalizations]
  \cup [name : {"timed_out"}, policy : TimeoutPolicies, available : BOOLEAN,
          manualRetry : BOOLEAN, fin : Finalizations]
  \cup [name : {"result_applied"}, status : ResultStatuses,
          fin : Finalizations]
  \cup [name : {"cleanup_updated"}, cleanup : SUBSET Sessions,
          fin : Finalizations]

-----------------------------------------------------------------------------
(* Builders: each reads one snapshot w of the worker.                      *)

Provisioned(w) ==
  [name |-> "provisioned", session |-> w.session, fin |-> NoFinalization]

MarkActive == [name |-> "active", fin |-> NoFinalization]

\* Attempts numbered from zero.
NewAttemptFromZero(w) ==
  [id |-> Len(w.attempts), session |-> w.session, status |-> "active"]

NewAttempt(w) ==
  [id |-> Len(w.attempts) + 1, session |-> w.session, status |-> "active"]

AttemptStarted(w) ==
  [name |-> "attempt_started", attempt |-> NewAttempt(w),
   fin |-> NoFinalization]

MarkFailed(w, category, retryable, fin) ==
  [name |-> "failed", retryable |-> retryable,
   available |-> RetryAvailable(w, category), fin |-> fin]

DependencyBlocked ==
  [name |-> "dependency_blocked", fin |-> NoFinalization]

MarkAborted(accepted) ==
  [name |-> "aborted", accepted |-> accepted, fin |-> NoFinalization]

\* Retries without counting.
ScheduleRetryUncounted(w, fin) ==
  [name |-> "retry_scheduled", retryCount |-> w.retryCount, fin |-> fin]

ScheduleRetry(w, fin) ==
  [name |-> "retry_scheduled", retryCount |-> w.retryCount + 1, fin |-> fin]

\* A retry that is still available after a timeout is left to the operator.
MarkTimeout(w, fin) ==
  [name |-> "timed_out", policy |-> w.policy,
   available |-> RetryAvailable(w, "timeout"),
   manualRetry |-> RetryAvailable(w, "timeout"), fin |-> fin]

ApplyResult(status, fin) ==
  [name |-> "result_applied", status |-> status, fin |-> fin]

CleanupUpdated(pending) ==
  [name |-> "cleanup_updated", cleanup |-> pending, fin |-> NoFinalization]

-----------------------------------------------------------------------------
(* Reducers: w is the latest persisted worker, read under the run lock.    *)

\* Forgets to drop failure_retryable.
ClearManualRetryOnly(w) == [w EXCEPT !.manualRetry = FALSE]

\* _clear_current_status_fields: the retry verdict of an earlier failure goes.
ClearStatus(w) == [w EXCEPT !.retryable = TRUE, !.manualRetry = FALSE]

\* Appends without looking for the id.
AppendAttemptAlways(w, a) == [w EXCEPT !.attempts = Append(@, a)]

\* append_attempt ignores an attempt whose id is already recorded.
AppendAttempt(w, a) ==
  IF \E i \in DOMAIN w.attempts : w.attempts[i].id = a.id THEN w
  ELSE [w EXCEPT !.attempts = Append(@, a)]

FinalizeAttempt(w, fin) ==
  [w EXCEPT !.attempts =
     [i \in DOMAIN w.attempts |->
        IF w.attempts[i].id = fin.id
        THEN [w.attempts[i] EXCEPT !.status = fin.status]
        ELSE w.attempts[i]]]

Reduce(w, t) ==
  CASE t.name = "provisioned" ->
         IF w.session = NoSession THEN [w EXCEPT !.session = t.session] ELSE w
    [] t.name = "active" -> [ClearStatus(w) EXCEPT !.lifecycle = "active_wait"]
    [] t.name = "attempt_started" -> AppendAttempt(w, t.attempt)
    [] t.name = "failed" ->
         [w EXCEPT !.lifecycle   = FailedTarget(t.retryable, t.available),
                   !.manualRetry = FALSE,
                   !.retryable   = t.retryable]
    [] t.name = "dependency_blocked" ->
         [w EXCEPT !.lifecycle = "blocked_dependency"]
    [] t.name = "aborted" ->
         IF t.accepted
         THEN [w EXCEPT !.abort = "accepted", !.lifecycle = "aborted"]
         ELSE [w EXCEPT !.abort = "refused"]
    [] t.name = "retry_scheduled" ->
         [ClearStatus(w) EXCEPT !.lifecycle  = "active_retry",
                                !.retryCount = t.retryCount]
    [] t.name = "timed_out" ->
         [w EXCEPT !.lifecycle   = TimeoutTarget(t.policy, t.available),
                   !.manualRetry = t.manualRetry]
    [] t.name = "result_applied" ->
         [(IF t.status = "done" THEN ClearStatus(w) ELSE w) EXCEPT
            !.lifecycle = ResultTarget(t.status),
            !.result    = t.status]
    [] t.name = "cleanup_updated" -> [w EXCEPT !.cleanup = t.cleanup]

\* The reduced worker always wins.
KeepReduced(w, reduced, t) == reduced

\* _accepted_abort_terminal_invariant: an accepted abort outlives whatever
\* arrives after it; only a second accepted abort or a cleanup still writes.
KeepAcceptedAbort(w, reduced, t) ==
  IF \/ ~AcceptedAbort(w)
     \/ t.name = "aborted" /\ t.accepted
     \/ t.name = "cleanup_updated"
  THEN reduced
  ELSE w

\* A legal transition, with the attempt finalization it carries.
ApplyTransition(w, t) ==
  FinalizeAttempt(KeepAcceptedAbort(w, Reduce(w, t), t), t.fin)

\* run start --prompt: the stored prompt is new, the worker is queued again and
\* every other field of the record stays as it is.
RequeuedWorker(w) == [w EXCEPT !.lifecycle = "queued"]

\* Lists every session that is created.
WithSessionListed(w, s, disposable) ==
  [w EXCEPT !.session = s, !.cleanup = @ \cup {s}]

\* set_session, and remember_session_for_cleanup for a disposable session.
WithSession(w, s, disposable) ==
  [w EXCEPT !.session = s,
            !.cleanup = IF disposable THEN @ \cup {s} ELSE @]
=============================================================================
