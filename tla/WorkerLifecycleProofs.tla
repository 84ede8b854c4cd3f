----------------------- MODULE WorkerLifecycleProofs -----------------------
(* Proofs of the properties of WorkerLifecycle for any number of writers,  *)
(* any retry limits and any number of attempts.                            *)
EXTENDS WorkerLifecycle, WorkerLemmas

-----------------------------------------------------------------------------
(* The inductive invariant.                                                *)

\* A held attempt was numbered from a snapshot, and attempts are never removed.
HeldAttemptsFromSnapshots ==
  \A a \in Actors :
    (held[a] # NoTransition /\ held[a].name = "attempt_started")
      => held[a].attempt.id <= Len(worker.attempts) + 1

IInv == /\ TypeOK
        /\ AttemptIdsAreIndices
        /\ RetryWithinLimit
        /\ NoStaleVerdict
        /\ HeldAttemptsFromSnapshots

\* A new worker satisfies it.
LEMMA InitIInv == Init => IInv
<1> SUFFICES ASSUME Init PROVE IInv OBVIOUS
<1>a. worker \in NewWorkers BY DEF Init
<1>0. /\ worker.retryLimit \in RetryLimits
      /\ worker.retryOn \in RetryChoices
      /\ worker.policy \in PolicyChoices
      /\ worker.attempts = << >>
      /\ worker.lifecycle = "queued"
      /\ worker.retryCount = 0
  BY <1>a DEF NewWorkers
<1>1. worker.retryLimit \in Nat BY <1>0, RetryLimitsAssumption
<1>2. worker \in Workers
  <2>1. worker.attempts \in Seq(Attempts) BY <1>0
  <2>2. worker.policy \in TimeoutPolicies BY <1>0, PolicyChoicesAssumption
  <2>3. worker.retryOn \in SUBSET (FailureCategories \cup {"all"})
    BY <1>0, RetryChoicesAssumption
  <2>4. /\ worker.lifecycle \in LifecycleStates
        /\ worker.session \in Sessions \cup {NoSession}
        /\ worker.abort \in {"none", "refused", "accepted"}
        /\ worker.retryCount \in Nat
        /\ worker.result \in ResultStatuses \cup {"none"}
        /\ worker.cleanup \in SUBSET Sessions
    <3>1. worker.cleanup = {} /\ worker.abort = "none" /\ worker.result = "none"
          /\ worker.session \in Sessions \cup {NoSession}
      BY <1>a DEF NewWorkers
    <3> QED BY <1>0, <3>1 DEF LifecycleStates
  <2>6. worker.retryable \in BOOLEAN /\ worker.manualRetry \in BOOLEAN
    BY <1>a, Zenon DEF NewWorkers
  <2>5. worker = [lifecycle |-> worker.lifecycle, session |-> worker.session,
                  abort |-> worker.abort, retryCount |-> worker.retryCount,
                  retryLimit |-> worker.retryLimit,
                  retryOn |-> worker.retryOn, retryable |-> worker.retryable,
                  manualRetry |-> worker.manualRetry,
                  policy |-> worker.policy, attempts |-> worker.attempts,
                  result |-> worker.result, cleanup |-> worker.cleanup]
    BY <1>a DEF NewWorkers
  <2> QED BY <1>1, <2>1, <2>2, <2>3, <2>4, <2>5, <2>6 DEF Workers
<1>3. TypeOK BY <1>2 DEF Init, TypeOK
<1>4. worker.retryCount <= worker.retryLimit BY <1>0, <1>1
<1> QED BY <1>0, <1>3, <1>4
        DEF IInv, Init, AttemptIdsAreIndices, RetryWithinLimit, NoStaleVerdict,
            HeldAttemptsFromSnapshots, ActiveStates

\* Holding a transition that fits the current record preserves it.
LEMMA HoldIInv ==
  ASSUME IInv, NEW a \in Actors, NEW t \in Transitions, Hold(a, t),
         t.name = "retry_scheduled" => t.retryCount <= worker.retryLimit,
         t.name = "attempt_started" => t.attempt.id <= Len(worker.attempts) + 1
  PROVE  IInv'
<1>1. /\ worker' = worker
      /\ held' = [held EXCEPT ![a] = t]
      /\ held \in [Actors -> Transitions \cup {NoTransition}]
  BY DEF Hold, IInv, TypeOK
<1>2. TypeOK' BY <1>1 DEF IInv, TypeOK
<1>3. \A b \in Actors : held'[b] = IF b = a THEN t ELSE held[b] BY <1>1
<1>4. RetryWithinLimit' BY <1>1, <1>3 DEF IInv, RetryWithinLimit
<1>5. HeldAttemptsFromSnapshots'
  BY <1>1, <1>3 DEF IInv, HeldAttemptsFromSnapshots
<1> QED BY <1>1, <1>2, <1>4, <1>5
        DEF IInv, AttemptIdsAreIndices, NoStaleVerdict

\* Every builder yields a transition, with a retry count and an attempt number
\* that fit the record it was built from.
LEMMA BuildIInv ==
  ASSUME IInv, NEW a \in Actors, Build(a)
  PROVE  IInv'
<1> USE DEF Transitions
<1>0. worker \in Workers /\ Len(worker.attempts) \in Nat
  BY DEF IInv, TypeOK, Workers
<1>1. NoFinalization \in Finalizations
  BY DEF NoFinalization, Finalizations, AttemptStatuses
<1>2. \A id \in OutcomeIds, status \in AttemptStatuses :
        Finalization(id, status) \in Finalizations
  <2>1. \A i \in DOMAIN worker.attempts : worker.attempts[i].id \in Nat
    <3>1. worker.attempts \in Seq(Attempts) BY <1>0 DEF Workers
    <3>2. \A i \in DOMAIN worker.attempts : worker.attempts[i] \in Attempts
      BY <3>1
    <3> QED BY <3>2 DEF Attempts
  <2> QED BY <1>0, <2>1 DEF OutcomeIds, Finalization, Finalizations
<1>3. CASE HoldProvisioned(a)
  <2>1. Provisioned(worker) \in Transitions
    BY <1>0, <1>1 DEF Provisioned, Workers
  <2> QED BY <1>3, <2>1, HoldIInv DEF HoldProvisioned, Provisioned
<1>4. CASE HoldActive(a)
  BY <1>1, <1>4, HoldIInv DEF HoldActive, MarkActive
<1>5. CASE HoldAttempt(a)
  <2>1. NewAttempt(worker) \in Attempts
    BY <1>0 DEF NewAttempt, Attempts, AttemptStatuses, Workers
  <2>2. AttemptStarted(worker) \in Transitions
    BY <1>1, <2>1 DEF AttemptStarted
  <2>3. AttemptStarted(worker).attempt.id <= Len(worker.attempts) + 1
    BY <1>0 DEF AttemptStarted, NewAttempt
  <2> QED BY <1>5, <2>2, <2>3, HoldIInv DEF HoldAttempt, AttemptStarted
<1>6. CASE HoldResult(a)
  <2>1. PICK id \in OutcomeIds, status \in ResultStatuses :
          Hold(a, ApplyResult(status, Finalization(id, "completed")))
    BY <1>6 DEF HoldResult
  <2>2. Finalization(id, "completed") \in Finalizations
    BY <1>2 DEF AttemptStatuses
  <2> QED BY <2>1, <2>2, HoldIInv DEF ApplyResult
<1>7. CASE HoldRetry(a)
  <2>1. PICK category \in {"api", "provider"}, id \in OutcomeIds :
          /\ RetryAvailable(worker, category)
          /\ Hold(a, ScheduleRetry(worker,
                                   Finalization(id, "retry_scheduled")))
    BY <1>7 DEF HoldRetry
  <2>2. Finalization(id, "retry_scheduled") \in Finalizations
    BY <1>2 DEF AttemptStatuses
  <2>3. /\ worker.retryCount + 1 \in Nat
        /\ worker.retryCount + 1 <= worker.retryLimit
    BY <1>0, <2>1 DEF RetryAvailable, Workers
  <2> QED BY <2>1, <2>2, <2>3, HoldIInv DEF ScheduleRetry
<1>8. CASE HoldFailed(a)
  <2>1. PICK category \in {"api", "provider"}, id \in OutcomeIds :
          Hold(a, MarkFailed(worker, category, TRUE,
                             Finalization(id, "failed")))
    BY <1>8 DEF HoldFailed
  <2>2. Finalization(id, "failed") \in Finalizations
    BY <1>2 DEF AttemptStatuses
  <2>3. RetryAvailable(worker, category) \in BOOLEAN
    BY <1>0 DEF RetryAvailable, Workers
  <2> QED BY <2>1, <2>2, <2>3, HoldIInv DEF MarkFailed
<1>9. CASE HoldTimeout(a)
  <2>1. PICK id \in OutcomeIds :
          Hold(a, MarkTimeout(worker, Finalization(id, "failed")))
    BY <1>9 DEF HoldTimeout
  <2>2. Finalization(id, "failed") \in Finalizations
    BY <1>2 DEF AttemptStatuses
  <2>3. RetryAvailable(worker, "timeout") \in BOOLEAN
    BY <1>0 DEF RetryAvailable, Workers
  <2>4. worker.policy \in TimeoutPolicies BY <1>0 DEF Workers
  <2> QED BY <2>1, <2>2, <2>3, <2>4, HoldIInv DEF MarkTimeout
<1>10. CASE HoldStartFailed(a)
  <2>1. RetryAvailable(worker, "api") \in BOOLEAN
    BY <1>0 DEF RetryAvailable, Workers
  <2> QED BY <1>1, <1>10, <2>1, HoldIInv DEF HoldStartFailed, MarkFailed
<1>11. CASE HoldBlocked(a)
  BY <1>1, <1>11, HoldIInv DEF HoldBlocked, DependencyBlocked
<1>12. CASE HoldCleanup(a)
  <2>1. PICK pending \in SUBSET worker.cleanup :
          Hold(a, CleanupUpdated(pending))
    BY <1>12 DEF HoldCleanup
  <2>2. pending \in SUBSET Sessions BY <1>0, <2>1 DEF Workers
  <2> QED BY <1>1, <2>1, <2>2, HoldIInv DEF CleanupUpdated
<1> QED BY <1>3, <1>4, <1>5, <1>6, <1>7, <1>8, <1>9, <1>10, <1>11, <1>12
        DEF Build

\* Applying a transition to the record preserves what the record satisfies;
\* the transition may be a held one or one built under the lock.
LEMMA ApplyIInv ==
  ASSUME IInv, NEW t \in Transitions,
         worker' = ApplyTransition(worker, t),
         held' \in [Actors -> Transitions \cup {NoTransition}],
         \A a \in Actors : held'[a] \in {held[a], NoTransition},
         t.name = "retry_scheduled" => t.retryCount <= worker.retryLimit,
         t.name = "attempt_started" => t.attempt.id <= Len(worker.attempts) + 1
  PROVE  IInv'
<1>1. worker \in Workers BY DEF IInv, TypeOK
<1>2. worker' \in Workers BY <1>1, ApplyTransitionTyped
<1>3. TypeOK' BY <1>2 DEF TypeOK
<1>4. AttemptIdsAreIndices' /\ Len(worker.attempts) <= Len(worker'.attempts)
  BY <1>1, AttemptsEffect DEF IInv, AttemptIdsAreIndices, Numbered
<1>5. NoStaleVerdict' BY <1>1, CleanEffect DEF IInv, NoStaleVerdict, Clean
<1>6. RetryWithinLimit' BY <1>1, RetryCounterEffect DEF IInv, RetryWithinLimit
<1>7. HeldAttemptsFromSnapshots'
  <2> SUFFICES ASSUME NEW a \in Actors, held'[a] # NoTransition,
                      held'[a].name = "attempt_started"
               PROVE  held'[a].attempt.id <= Len(worker'.attempts) + 1
    BY DEF HeldAttemptsFromSnapshots
  <2>1. held'[a] = held[a] /\ held[a] \in Transitions
    BY DEF IInv, TypeOK
  <2>2. held[a].attempt.id <= Len(worker.attempts) + 1
    BY <2>1 DEF IInv, HeldAttemptsFromSnapshots
  <2>3. held[a].attempt.id \in Nat
    BY <2>1, TransitionFields DEF Attempts
  <2>4. Len(worker.attempts) \in Nat /\ Len(worker'.attempts) \in Nat
    BY <1>1, <1>2 DEF Workers
  <2> QED BY <1>4, <2>1, <2>2, <2>3, <2>4
<1> QED BY <1>3, <1>4, <1>5, <1>6, <1>7 DEF IInv

\* Every step preserves the invariant: one case per action.
LEMMA NextIInv == IInv /\ [Next]_vars => IInv'
<1> SUFFICES ASSUME IInv, [Next]_vars PROVE IInv' OBVIOUS
<1>0. /\ worker \in Workers
      /\ held \in [Actors -> Transitions \cup {NoTransition}]
  BY DEF IInv, TypeOK
<1>1. ASSUME NEW a \in Actors, Build(a) PROVE IInv' BY <1>1, BuildIInv
<1>2. ASSUME NEW a \in Actors, Persist(a) PROVE IInv'
  <2>1. /\ held[a] \in Transitions
        /\ worker' = ApplyTransition(worker, held[a])
        /\ held' = [held EXCEPT ![a] = NoTransition]
        /\ held[a] # NoTransition
    BY <1>0, <1>2 DEF Persist
  <2>2. \A b \in Actors : held'[b] \in {held[b], NoTransition}
    BY <1>0, <2>1
  <2>3. held' \in [Actors -> Transitions \cup {NoTransition}]
    BY <1>0, <2>1
  <2>4. held[a].name = "retry_scheduled"
          => held[a].retryCount <= worker.retryLimit
    BY <2>1 DEF IInv, RetryWithinLimit
  <2>5. held[a].name = "attempt_started"
          => held[a].attempt.id <= Len(worker.attempts) + 1
    BY <2>1 DEF IInv, HeldAttemptsFromSnapshots
  <2> QED BY <2>1, <2>2, <2>3, <2>4, <2>5, ApplyIInv
<1>3. ASSUME NEW a \in Actors, Lose(a) PROVE IInv'
  <2>1. \A b \in Actors : held'[b] \in {held[b], NoTransition}
    BY <1>0, <1>3 DEF Lose
  <2>2. worker' = worker /\ TypeOK' BY <1>0, <1>3 DEF Lose, TypeOK
  <2>3. RetryWithinLimit' BY <2>1, <2>2 DEF IInv, RetryWithinLimit
  <2>4. HeldAttemptsFromSnapshots'
    BY <2>1, <2>2 DEF IInv, HeldAttemptsFromSnapshots
  <2> QED BY <2>2, <2>3, <2>4 DEF IInv, AttemptIdsAreIndices, NoStaleVerdict
<1>4. ASSUME NEW t \in Transitions, ApplyNow(t),
             t.name \notin {"retry_scheduled", "attempt_started"}
      PROVE  IInv'
  <2>1. worker' = ApplyTransition(worker, t) /\ held' = held
    BY <1>4 DEF ApplyNow
  <2> QED BY <1>0, <1>4, <2>1, ApplyIInv
<1>5. NoFinalization \in Finalizations
  BY DEF NoFinalization, Finalizations, AttemptStatuses
<1>6. CASE Abort
  BY <1>4, <1>5, <1>6 DEF Abort, MarkAborted, Transitions
<1>7. CASE SetStatus
  BY <1>4, <1>5, <1>7 DEF SetStatus, MarkActive, DependencyBlocked, Transitions
<1>8. CASE Requeue
  <2>1. worker' = [worker EXCEPT !.lifecycle = "queued"] /\ held' = held
    BY <1>8 DEF Requeue, RequeuedWorker
  <2>2. worker' \in Workers BY <1>0, <2>1 DEF Workers, LifecycleStates
  <2> QED
    BY <1>0, <2>1, <2>2
       DEF IInv, TypeOK, AttemptIdsAreIndices, RetryWithinLimit,
           NoStaleVerdict, HeldAttemptsFromSnapshots, Workers, ActiveStates
<1>9. CASE UseSession
  <2>1. PICK s \in Sessions, disposable \in BOOLEAN :
          worker' = WithSession(worker, s, disposable) /\ held' = held
    BY <1>9 DEF UseSession
  <2>2. worker' \in Workers BY <1>0, <2>1 DEF WithSession, Workers
  <2>3. /\ worker'.lifecycle = worker.lifecycle
        /\ worker'.attempts = worker.attempts
        /\ worker'.retryCount = worker.retryCount
        /\ worker'.retryLimit = worker.retryLimit
        /\ worker'.retryable = worker.retryable
        /\ worker'.manualRetry = worker.manualRetry
    BY <1>0, <2>1 DEF WithSession, Workers
  <2> QED
    BY <1>0, <2>1, <2>2, <2>3
       DEF IInv, TypeOK, AttemptIdsAreIndices, RetryWithinLimit,
           NoStaleVerdict, HeldAttemptsFromSnapshots
<1>10. CASE UNCHANGED vars
  BY <1>10 DEF vars, IInv, TypeOK, AttemptIdsAreIndices, RetryWithinLimit,
               NoStaleVerdict, HeldAttemptsFromSnapshots
<1> QED BY <1>1, <1>2, <1>3, <1>6, <1>7, <1>8, <1>9, <1>10 DEF Next

\* The inductive invariant holds throughout.
THEOREM Invariance == Spec => []IInv
<1> QED BY InitIInv, NextIInv, PTL DEF Spec

-----------------------------------------------------------------------------
(* The properties.                                                         *)

\* The record always is one the lifecycle table knows.
THEOREM TypeCorrect == Spec => []TypeOK
<1>1. IInv => TypeOK BY DEF IInv
<1> QED BY <1>1, Invariance, PTL

\* However many executors number attempts from stale snapshots, the recorded
\* ids are 1, 2, 3, ... (append_attempt, new_attempt_record).
THEOREM AttemptNumbering == Spec => []AttemptIdsAreIndices
<1>1. IInv => AttemptIdsAreIndices BY DEF IInv
<1> QED BY <1>1, Invariance, PTL

\* No interleaving of stale retries takes retry_count past retry_limit.
THEOREM RetriesBounded == Spec => []RetryWithinLimit
<1>1. IInv => RetryWithinLimit BY DEF IInv
<1> QED BY <1>1, Invariance, PTL

\* Active and done workers carry no verdict of an earlier failure.
THEOREM VerdictsForgotten == Spec => []NoStaleVerdict
<1>1. IInv => NoStaleVerdict BY DEF IInv
<1> QED BY <1>1, Invariance, PTL

\* Every step either applies one transition, requeues the worker, changes its
\* session, or leaves the record alone.
LEMMA StepKinds ==
  ASSUME IInv, [Next]_vars
  PROVE  \/ \E t \in Transitions : /\ Legal(worker, t)
                                   /\ worker' = ApplyTransition(worker, t)
         \/ worker' = RequeuedWorker(worker)
         \/ \E s \in Sessions, d \in BOOLEAN : worker' = WithSession(worker, s, d)
         \/ worker' = worker
<1>1. ASSUME NEW a \in Actors, Build(a) PROVE worker' = worker
  BY <1>1 DEF Build, HoldProvisioned, HoldActive, HoldAttempt, HoldResult,
              HoldRetry, HoldFailed, HoldTimeout, HoldStartFailed,
              HoldBlocked, HoldCleanup, Hold
<1>2. ASSUME NEW a \in Actors, Persist(a)
      PROVE  \E t \in Transitions : /\ Legal(worker, t)
                                    /\ worker' = ApplyTransition(worker, t)
  BY <1>2 DEF Persist, IInv, TypeOK
<1>3. ASSUME NEW a \in Actors, Lose(a) PROVE worker' = worker
  BY <1>3 DEF Lose
<1>4. NoFinalization \in Finalizations
  BY DEF NoFinalization, Finalizations, AttemptStatuses
<1>5. CASE Abort \/ SetStatus
  BY <1>4, <1>5 DEF Abort, SetStatus, ApplyNow, MarkAborted, MarkActive,
                    DependencyBlocked, Transitions
<1>6. CASE Requeue BY <1>6 DEF Requeue
<1>7. CASE UseSession BY <1>7 DEF UseSession
<1>8. CASE UNCHANGED vars BY <1>8 DEF vars
<1> QED BY <1>1, <1>2, <1>3, <1>5, <1>6, <1>7, <1>8 DEF Next

\* No legal transition leads out of a finished state.
LEMMA ApplyKeepsFinished ==
  ASSUME NEW w \in Workers, NEW t \in Transitions,
         w.lifecycle \in FinishedStates, Legal(w, t)
  PROVE  ApplyTransition(w, t).lifecycle = w.lifecycle
<1> DEFINE r == Reduce(w, t)
           k == KeepAcceptedAbort(w, r, t)
<1>1. k.lifecycle = w.lifecycle
  <2>1. CASE t.name = "cleanup_updated"
    <3>1. r = [w EXCEPT !.cleanup = t.cleanup] BY <2>1 DEF Reduce
    <3> HIDE DEF r
    <3> QED BY <3>1 DEF KeepAcceptedAbort, Workers
  <2>2. CASE t.name = "aborted"
    <3>1. w.lifecycle = "aborted"
      BY <2>2 DEF Legal, Sources, StartSources, RetrySources, BlockedStates,
                  AbortedStates, FinishedStates, AcceptedAbort
    <3>2. t.accepted \in BOOLEAN BY <2>2, TransitionFields
    <3>3. r \in {[w EXCEPT !.abort = "accepted", !.lifecycle = "aborted"],
                 [w EXCEPT !.abort = "refused"]}
      BY <2>2, <3>2 DEF Reduce
    <3> HIDE DEF r
    <3>4. r.lifecycle = "aborted" BY <3>1, <3>3 DEF Workers
    <3> QED BY <3>1, <3>4 DEF KeepAcceptedAbort
  <2>3. CASE t.name \notin {"cleanup_updated", "aborted"}
    <3>1. w.lifecycle \notin Sources(t.name)
      BY <2>3, TransitionFields
         DEF Sources, StartSources, RetrySources, BlockedStates, ActiveStates,
             FinishedStates
    <3>2. AcceptedAbort(w) BY <3>1 DEF Legal
    <3> QED BY <2>3, <3>2 DEF KeepAcceptedAbort
  <2> QED BY <2>1, <2>2, <2>3
<1>2. k \in Workers BY ApplyTransitionTyped
<1> HIDE DEF k
<1>3. FinalizeAttempt(k, t.fin).lifecycle = k.lifecycle
  BY <1>2, FinalizeAttemptTyped, TransitionFields
<1> QED BY <1>1, <1>3 DEF ApplyTransition, k

\* The outcome of an accepted abort is final for any number of writers.
THEOREM AbortFinality == Spec => AbortIsFinal
<1>1. IInv /\ [Next]_vars => [KeepsAbort]_vars
  <2> SUFFICES ASSUME IInv, [Next]_vars, AcceptedAbort(worker)
               PROVE  KeepsAbort
    BY DEF KeepsAbort
  <2>0. worker \in Workers BY DEF IInv, TypeOK
  <2>1. ASSUME NEW t \in Transitions, worker' = ApplyTransition(worker, t)
        PROVE  KeepsAbort
    BY <2>0, <2>1, ApplyKeepsAbort DEF KeepsAbort
  <2>2. ASSUME NEW s \in Sessions, NEW d \in BOOLEAN,
               worker' = WithSession(worker, s, d)
        PROVE  KeepsAbort
    BY <2>0, <2>2, WithSessionEffect DEF KeepsAbort, AcceptedAbort
  <2>3. CASE worker' = RequeuedWorker(worker) BY <2>3 DEF KeepsAbort
  <2>4. CASE worker' = worker BY <2>4 DEF KeepsAbort
  <2> QED BY <2>1, <2>2, <2>3, <2>4, StepKinds
<1> QED BY <1>1, Invariance, PTL DEF Spec, AbortIsFinal

\* A finished worker stays finished for any number of stale writers.
THEOREM FinishedFinality == Spec => FinishedStaysFinished
<1>1. IInv /\ [Next]_vars => [KeepsFinished]_vars
  <2> SUFFICES ASSUME IInv, [Next]_vars, worker.lifecycle \in FinishedStates
               PROVE  KeepsFinished
    BY DEF KeepsFinished
  <2>0. worker \in Workers BY DEF IInv, TypeOK
  <2>1. ASSUME NEW t \in Transitions, Legal(worker, t),
               worker' = ApplyTransition(worker, t)
        PROVE  KeepsFinished
    BY <2>0, <2>1, ApplyKeepsFinished DEF KeepsFinished
  <2>2. ASSUME NEW s \in Sessions, NEW d \in BOOLEAN,
               worker' = WithSession(worker, s, d)
        PROVE  KeepsFinished
    BY <2>0, <2>2, WithSessionEffect DEF KeepsFinished
  <2>3. CASE worker' = RequeuedWorker(worker) BY <2>3 DEF KeepsFinished
  <2>4. CASE worker' = worker BY <2>4 DEF KeepsFinished
  <2> QED BY <2>1, <2>2, <2>3, <2>4, StepKinds
<1> QED BY <1>1, Invariance, PTL DEF Spec, FinishedStaysFinished
=============================================================================
