---------------------------- MODULE WorkerLemmas ----------------------------
(* Lemmas about the operators of WorkerTransitions and WorkerDependencies, *)
(* and about minimal elements, for the proofs that rest on them.           *)
EXTENDS WorkerDependencies, FiniteSetTheorems, TLAPS

-----------------------------------------------------------------------------
(* Minimal elements.  A set of counterexamples that has none is empty,     *)
(* which is how the proofs below argue by induction.                       *)

\* Among subsets of a finite set one includes no other.
LEMMA MinimalSubset ==
  ASSUME NEW S, IsFiniteSet(S), NEW T, T \subseteq SUBSET S, T # {}
  PROVE  \E x \in T : \A y \in T : y \subseteq x => y = x
<1>1. IsWellFoundedOn(StrictSubsetOrdering(S), SUBSET S)
  BY FS_StrictSubsetOrderingWellFounded, FS_FiniteSubsetsOfFinite
<1>2. PICK x \in T : \A y \in T : ~ (<<y, x>> \in StrictSubsetOrdering(S))
  BY <1>1, WFMin
<1> QED BY <1>2 DEF StrictSubsetOrdering

\* Among natural numbers one is the least.
LEMMA LeastNatural ==
  ASSUME NEW T, T \subseteq Nat, T # {}
  PROVE  \E n \in T : \A m \in T : n <= m
<1>1. PICK k \in T : TRUE OBVIOUS
<1> DEFINE U == {0 .. m : m \in {m \in T : m <= k}}
<1>2. U \subseteq SUBSET (0 .. k) /\ U # {}
  <2>1. 0 .. k \in U BY <1>1
  <2>2. ASSUME NEW m \in T, m <= k PROVE 0 .. m \subseteq 0 .. k BY <2>2
  <2> QED BY <2>1, <2>2
<1>3. IsFiniteSet(0 .. k)
  <2>1. 0 \in Int /\ k \in Int OBVIOUS
  <2> QED BY <2>1, FS_Interval
<1>4. PICK x \in U : \A y \in U : y \subseteq x => y = x
  <2> DEFINE S == 0 .. k
  <2>1. IsFiniteSet(S) /\ U \subseteq SUBSET S /\ U # {} BY <1>2, <1>3
  <2> HIDE DEF S, U
  <2> QED BY <2>1, MinimalSubset
<1>5. PICK n \in T : n <= k /\ x = 0 .. n BY <1>4
<1>6. ASSUME NEW m \in T, m < n PROVE FALSE
  <2>1. 0 .. m \in U BY <1>5, <1>6
  <2>2. 0 .. m \subseteq 0 .. n /\ n \in 0 .. n /\ n \notin 0 .. m BY <1>6
  <2> QED BY <1>4, <1>5, <2>1, <2>2
<1> QED BY <1>6

\* Among natural numbers below a bound one is the greatest.
LEMMA GreatestNatural ==
  ASSUME NEW b \in Nat, NEW T, T \subseteq 0 .. b, T # {}
  PROVE  \E n \in T : \A m \in T : m <= n
<1> DEFINE U == {b - m : m \in T}
<1>1. U \subseteq Nat /\ U # {}
  <2>1. ASSUME NEW m \in T PROVE b - m \in Nat
    <3>1. m \in 0 .. b OBVIOUS
    <3> QED BY <3>1
  <2>2. PICK m \in T : TRUE OBVIOUS
  <2>3. b - m \in U OBVIOUS
  <2> QED BY <2>1, <2>3
<1>2. PICK x \in U : \A y \in U : x <= y
  <2> HIDE DEF U
  <2> QED BY <1>1, LeastNatural
<1>3. PICK n \in T : x = b - n BY <1>2
<1>4. ASSUME NEW m \in T PROVE m <= n
  <2>1. b - m \in U OBVIOUS
  <2>2. b - n <= b - m BY <1>2, <1>3, <2>1
  <2>3. m \in Nat /\ n \in Nat OBVIOUS
  <2> QED BY <2>2, <2>3
<1> QED BY <1>4

-----------------------------------------------------------------------------
(* Typing of the operators of WorkerTransitions.                           *)

\* FinalizeAttempt rewrites one attempt's status and touches nothing else.
LEMMA FinalizeAttemptTyped ==
  ASSUME NEW w \in Workers, NEW fin \in Finalizations
  PROVE  LET f == FinalizeAttempt(w, fin) IN
         /\ f \in Workers
         /\ Len(f.attempts) = Len(w.attempts)
         /\ \A i \in DOMAIN w.attempts : f.attempts[i].id = w.attempts[i].id
         /\ f.lifecycle = w.lifecycle /\ f.abort = w.abort
         /\ f.retryCount = w.retryCount /\ f.retryLimit = w.retryLimit
         /\ f.retryOn = w.retryOn
         /\ f.retryable = w.retryable /\ f.manualRetry = w.manualRetry
         /\ f.result = w.result /\ f.session = w.session
         /\ f.cleanup = w.cleanup
<1> DEFINE s == w.attempts
           g == [i \in DOMAIN s |-> IF s[i].id = fin.id
                                    THEN [s[i] EXCEPT !.status = fin.status]
                                    ELSE s[i]]
<1>1. s \in Seq(Attempts) BY DEF Workers
<1>2. Len(s) \in Nat /\ DOMAIN s = 1 .. Len(s) BY <1>1
<1>3. \A i \in DOMAIN s : g[i] \in Attempts /\ g[i].id = s[i].id
  <2> TAKE i \in DOMAIN s
  <2>1. s[i] \in Attempts BY <1>1
  <2>2. g[i] = IF s[i].id = fin.id THEN [s[i] EXCEPT !.status = fin.status]
                                   ELSE s[i]
    OBVIOUS
  <2>3. fin.status \in AttemptStatuses BY DEF Finalizations
  <2> HIDE DEF g, s
  <2> QED BY <2>1, <2>2, <2>3 DEF Attempts
<1>4. g \in Seq(Attempts) /\ Len(g) = Len(s)
  <2>1. g \in [1 .. Len(s) -> Attempts] BY <1>2, <1>3
  <2> HIDE DEF g, s
  <2> QED BY <1>2, <2>1
<1>5. FinalizeAttempt(w, fin) = [w EXCEPT !.attempts = g]
  BY DEF FinalizeAttempt
<1> HIDE DEF g
<1>6. [w EXCEPT !.attempts = g] \in Workers BY <1>4 DEF Workers
<1> QED BY <1>3, <1>4, <1>5, <1>6, ZenonT(30) DEF Workers

\* The fields a transition of each name carries.
LEMMA TransitionFields ==
  ASSUME NEW t \in Transitions
  PROVE  /\ t.fin \in Finalizations
         /\ t.name \in {"provisioned", "active", "dependency_blocked",
                        "attempt_started", "failed", "aborted",
                        "retry_scheduled", "timed_out", "result_applied",
                        "cleanup_updated"}
         /\ t.name = "provisioned" => t.session \in Sessions \cup {NoSession}
         /\ t.name = "attempt_started" => t.attempt \in Attempts
         /\ t.name = "failed" => t.retryable \in BOOLEAN
                                 /\ t.available \in BOOLEAN
         /\ t.name = "aborted" => t.accepted \in BOOLEAN
         /\ t.name = "retry_scheduled" => t.retryCount \in Nat
         /\ t.name = "timed_out" => /\ t.policy \in TimeoutPolicies
                                    /\ t.available \in BOOLEAN
                                    /\ t.manualRetry \in BOOLEAN
         /\ t.name = "result_applied" => t.status \in ResultStatuses
         /\ t.name = "cleanup_updated" => t.cleanup \subseteq Sessions
BY DEF Transitions

\* append_attempt adds at most one attempt, at the end.
LEMMA AppendAttemptTyped ==
  ASSUME NEW w \in Workers, NEW a \in Attempts
  PROVE  /\ AppendAttempt(w, a) \in Workers
         /\ \/ AppendAttempt(w, a) = w
            \/ /\ \A i \in DOMAIN w.attempts : w.attempts[i].id # a.id
               /\ AppendAttempt(w, a)
                    = [w EXCEPT !.attempts = Append(w.attempts, a)]
<1>1. Append(w.attempts, a) \in Seq(Attempts) BY DEF Workers
<1>2. [w EXCEPT !.attempts = Append(w.attempts, a)] \in Workers
  BY <1>1 DEF Workers
<1> QED BY <1>2 DEF AppendAttempt

\* Reducing a transition yields a worker of the lifecycle table.
LEMMA ReduceTyped ==
  ASSUME NEW w \in Workers, NEW t \in Transitions
  PROVE  Reduce(w, t) \in Workers
<1> USE TransitionFields
<1>1. CASE t.name = "provisioned" BY <1>1 DEF Reduce, Workers
<1>2. CASE t.name = "active"
  BY <1>2 DEF Reduce, ClearStatus, Workers, LifecycleStates
<1>3. CASE t.name = "attempt_started"
  BY <1>3, AppendAttemptTyped DEF Reduce
<1>4. CASE t.name = "failed"
  BY <1>4, ZenonT(30) DEF Reduce, FailedTarget, Workers, LifecycleStates
<1>5. CASE t.name = "dependency_blocked"
  BY <1>5 DEF Reduce, Workers, LifecycleStates
<1>6. CASE t.name = "aborted"
  BY <1>6, ZenonT(30) DEF Reduce, Workers, LifecycleStates
<1>7. CASE t.name = "retry_scheduled"
  BY <1>7 DEF Reduce, ClearStatus, Workers, LifecycleStates
<1>8. CASE t.name = "timed_out"
  <2>1. TimeoutTarget(t.policy, t.available) \in LifecycleStates
    BY <1>8 DEF TimeoutTarget, TimeoutPolicies, LifecycleStates
  <2> QED BY <1>8, <2>1 DEF Reduce, Workers
<1>9. CASE t.name = "result_applied"
  <2>1. ResultTarget(t.status) \in LifecycleStates
    BY <1>9 DEF ResultTarget, ResultStatuses, LifecycleStates
  <2>2. ClearStatus(w) \in Workers BY DEF ClearStatus, Workers
  <2> QED BY <1>9, <2>1, <2>2, ZenonT(30) DEF Reduce, Workers
<1>10. CASE t.name = "cleanup_updated" BY <1>10 DEF Reduce, Workers
<1> QED BY <1>1, <1>2, <1>3, <1>4, <1>5, <1>6, <1>7, <1>8, <1>9, <1>10

\* So does applying it, finalization included.
LEMMA ApplyTransitionTyped ==
  ASSUME NEW w \in Workers, NEW t \in Transitions
  PROVE  /\ KeepAcceptedAbort(w, Reduce(w, t), t) \in Workers
         /\ ApplyTransition(w, t) \in Workers
BY ReduceTyped, FinalizeAttemptTyped, TransitionFields
   DEF ApplyTransition, KeepAcceptedAbort

-----------------------------------------------------------------------------
(* What applying a transition may change.                                  *)

\* The reduced worker before finalization: w itself or Reduce(w, t).
LEMMA KeepAcceptedAbortIs ==
  ASSUME NEW w, NEW r, NEW t
  PROVE  KeepAcceptedAbort(w, r, t) \in {w, r}
BY DEF KeepAcceptedAbort

\* Only retry_scheduled writes the retry counter; nothing writes the limit.
LEMMA RetryCounterEffect ==
  ASSUME NEW w \in Workers, NEW t \in Transitions
  PROVE  LET n == ApplyTransition(w, t) IN
         /\ n.retryLimit = w.retryLimit /\ n.retryOn = w.retryOn
         /\ \/ n.retryCount = w.retryCount
            \/ t.name = "retry_scheduled" /\ n.retryCount = t.retryCount
<1> DEFINE r == Reduce(w, t)
<1>1. /\ r.retryLimit = w.retryLimit /\ r.retryOn = w.retryOn
      /\ \/ r.retryCount = w.retryCount
         \/ t.name = "retry_scheduled" /\ r.retryCount = t.retryCount
  <2> USE TransitionFields DEF Reduce, Workers
  <2>1. CASE t.name \in {"provisioned", "dependency_blocked", "aborted",
                         "cleanup_updated", "failed", "timed_out"}
    BY <2>1
  <2>2. CASE t.name \in {"active", "retry_scheduled"} BY <2>2 DEF ClearStatus
  <2>3. CASE t.name = "attempt_started" BY <2>3 DEF AppendAttempt
  <2>4. CASE t.name = "result_applied"
    <3>1. CASE t.status = "done" BY <2>4, <3>1 DEF ClearStatus
    <3>2. CASE t.status # "done" BY <2>4, <3>2
    <3> QED BY <3>1, <3>2
  <2> QED BY <2>1, <2>2, <2>3, <2>4
<1> HIDE DEF r
<1> DEFINE k == KeepAcceptedAbort(w, r, t)
<1>2. k \in {w, r} BY KeepAcceptedAbortIs
<1>3. k \in Workers BY ApplyTransitionTyped DEF r
<1> HIDE DEF k
<1>4. /\ FinalizeAttempt(k, t.fin).retryLimit = k.retryLimit
      /\ FinalizeAttempt(k, t.fin).retryOn = k.retryOn
      /\ FinalizeAttempt(k, t.fin).retryCount = k.retryCount
  BY <1>3, FinalizeAttemptTyped, TransitionFields
<1> QED BY <1>1, <1>2, <1>4 DEF ApplyTransition, k, r

Clean(w) == w.lifecycle \in ActiveStates \cup {"done_collect"}
              => w.retryable /\ ~w.manualRetry

\* Every way into an active or done state drops the earlier verdict.
LEMMA CleanEffect ==
  ASSUME NEW w \in Workers, NEW t \in Transitions, Clean(w)
  PROVE  Clean(ApplyTransition(w, t))
<1> DEFINE r == Reduce(w, t)
<1>1. Clean(r)
  <2> USE TransitionFields DEF Reduce, Workers, Clean, ActiveStates
  <2>1. CASE t.name \in {"provisioned", "dependency_blocked", "aborted",
                         "cleanup_updated"}
    BY <2>1, ZenonT(30)
  <2>2. CASE t.name \in {"active", "retry_scheduled"}
    BY <2>2, Zenon DEF ClearStatus
  <2>3. CASE t.name = "attempt_started" BY <2>3 DEF AppendAttempt
  <2>4. CASE t.name = "result_applied"
    <3>1. CASE t.status = "done" BY <2>4, <3>1 DEF ClearStatus
    <3>2. CASE t.status # "done"
      BY <2>4, <3>2, ZenonT(30) DEF ResultTarget, ResultStatuses
    <3> QED BY <3>1, <3>2, Zenon
  <2>5. CASE t.name = "failed" BY <2>5 DEF FailedTarget
  <2>6. CASE t.name = "timed_out"
    <3>1. TimeoutTarget(t.policy, t.available)
            \notin ActiveStates \cup {"done_collect"}
      BY <2>6 DEF TimeoutTarget, TimeoutPolicies
    <3> QED BY <2>6, <3>1
  <2> QED BY <2>1, <2>2, <2>3, <2>4, <2>5, <2>6, Zenon
<1> HIDE DEF r
<1> DEFINE k == KeepAcceptedAbort(w, r, t)
<1>2. k \in {w, r} BY KeepAcceptedAbortIs
<1>3. k \in Workers BY ApplyTransitionTyped DEF r
<1> HIDE DEF k
<1>4. LET f == FinalizeAttempt(k, t.fin) IN
      /\ f.lifecycle = k.lifecycle /\ f.retryable = k.retryable
      /\ f.manualRetry = k.manualRetry
  BY <1>3, FinalizeAttemptTyped, TransitionFields
<1> QED BY <1>1, <1>2, <1>4 DEF ApplyTransition, k, r, Clean

Numbered(w) == \A i \in DOMAIN w.attempts : w.attempts[i].id = i

\* A transition adds at most one attempt, and one numbered past the end keeps
\* the numbering.
LEMMA AttemptsEffect ==
  ASSUME NEW w \in Workers, NEW t \in Transitions, Numbered(w),
         t.name = "attempt_started" => t.attempt.id <= Len(w.attempts) + 1
  PROVE  /\ Numbered(ApplyTransition(w, t))
         /\ Len(w.attempts) <= Len(ApplyTransition(w, t).attempts)
<1> DEFINE r == Reduce(w, t)
<1>0. /\ Len(w.attempts) \in Nat
      /\ DOMAIN w.attempts = 1 .. Len(w.attempts)
  BY DEF Workers
<1>1. Numbered(r) /\ Len(w.attempts) <= Len(r.attempts)
  <2>1. CASE t.name # "attempt_started"
    <3>1. r.attempts = w.attempts
      <4> USE TransitionFields DEF Reduce, Workers
      <4>1. CASE t.name = "result_applied"
        <5>1. CASE t.status = "done" BY <4>1, <5>1 DEF ClearStatus
        <5>2. CASE t.status # "done" BY <4>1, <5>2
        <5> QED BY <5>1, <5>2
      <4>2. CASE t.name # "result_applied" BY <2>1, <4>2 DEF ClearStatus
      <4> QED BY <4>1, <4>2
    <3> QED BY <1>0, <3>1 DEF Numbered
  <2>2. CASE t.name = "attempt_started"
    <3>1. r = AppendAttempt(w, t.attempt) BY <2>2 DEF Reduce
    <3>2. t.attempt \in Attempts BY <2>2, TransitionFields
    <3>3. CASE r = w BY <1>0, <3>3 DEF Numbered
    <3>4. CASE r # w
      <4> DEFINE s == w.attempts
      <4>1. /\ \A i \in DOMAIN s : s[i].id # t.attempt.id
            /\ r = [w EXCEPT !.attempts = Append(s, t.attempt)]
        BY <3>1, <3>2, <3>4, AppendAttemptTyped
      <4>2. t.attempt.id \in Nat \ {0} BY <3>2 DEF Attempts
      <4>3. t.attempt.id = Len(s) + 1
        <5>1. SUFFICES ASSUME t.attempt.id <= Len(s) PROVE FALSE
          BY <1>0, <2>2, <4>2
        <5>2. t.attempt.id \in DOMAIN s BY <1>0, <4>2, <5>1
        <5> QED BY <4>1, <5>2 DEF Numbered
      <4>4. r.attempts = Append(s, t.attempt) BY <4>1 DEF Workers
      <4>5. s \in Seq(Attempts) BY DEF Workers
      <4>6. /\ Len(r.attempts) = Len(s) + 1
            /\ \A i \in 1 .. Len(s) + 1 :
                 r.attempts[i] = IF i <= Len(s) THEN s[i] ELSE t.attempt
            /\ DOMAIN r.attempts = 1 .. Len(s) + 1
        <5> HIDE DEF s, r
        <5> QED BY <3>2, <4>4, <4>5
      <4> QED BY <1>0, <4>3, <4>6 DEF Numbered
    <3> QED BY <3>3, <3>4
  <2> QED BY <2>1, <2>2
<1> HIDE DEF r
<1> DEFINE k == KeepAcceptedAbort(w, r, t)
<1>2. k \in {w, r} BY KeepAcceptedAbortIs
<1>3. k \in Workers BY ApplyTransitionTyped DEF r
<1>4. Numbered(k) /\ Len(w.attempts) <= Len(k.attempts)
  BY <1>0, <1>1, <1>2
<1> HIDE DEF k
<1> DEFINE f == FinalizeAttempt(k, t.fin)
<1>5. /\ f \in Workers
      /\ Len(f.attempts) = Len(k.attempts)
      /\ \A i \in DOMAIN k.attempts : f.attempts[i].id = k.attempts[i].id
  BY <1>3, FinalizeAttemptTyped, TransitionFields
<1>6. DOMAIN f.attempts = DOMAIN k.attempts BY <1>3, <1>5 DEF Workers
<1> HIDE DEF f
<1>7. Numbered(f) /\ Len(w.attempts) <= Len(f.attempts)
  BY <1>4, <1>5, <1>6 DEF Numbered
<1> QED BY <1>7 DEF ApplyTransition, f, k, r

\* A session change leaves everything but session and cleanup alone.
LEMMA WithSessionEffect ==
  ASSUME NEW w \in Workers, NEW s \in Sessions, NEW d \in BOOLEAN
  PROVE  LET n == WithSession(w, s, d) IN
         /\ n.lifecycle = w.lifecycle /\ n.abort = w.abort
         /\ n.result = w.result /\ n.retryCount = w.retryCount
         /\ n.attempts = w.attempts /\ n.session = s
         /\ n.retryOn = w.retryOn
BY DEF WithSession, Workers

\* After an accepted abort a transition reduces to a worker that is as aborted.
LEMMA ApplyKeepsAbort ==
  ASSUME NEW w \in Workers, NEW t \in Transitions, AcceptedAbort(w)
  PROVE  LET n == ApplyTransition(w, t) IN
         /\ AcceptedAbort(n) /\ n.result = w.result
         /\ n.retryCount = w.retryCount
         /\ Len(n.attempts) = Len(w.attempts)
<1> DEFINE r == Reduce(w, t)
           k == KeepAcceptedAbort(w, r, t)
<1>1. /\ AcceptedAbort(k) /\ k.result = w.result
      /\ k.retryCount = w.retryCount /\ k.attempts = w.attempts
  <2>1. CASE t.name = "aborted" /\ t.accepted
    <3>1. r = [w EXCEPT !.abort = "accepted", !.lifecycle = "aborted"]
      BY <2>1 DEF Reduce
    <3>2. k = r BY <2>1 DEF KeepAcceptedAbort
    <3> HIDE DEF k, r
    <3> QED BY <3>1, <3>2 DEF AcceptedAbort, AbortedStates, Workers
  <2>2. CASE t.name = "cleanup_updated"
    <3>1. r = [w EXCEPT !.cleanup = t.cleanup] BY <2>2 DEF Reduce
    <3>2. k = r BY <2>2 DEF KeepAcceptedAbort
    <3> HIDE DEF k, r
    <3> QED BY <3>1, <3>2 DEF AcceptedAbort, Workers
  <2>3. CASE ~(t.name = "aborted" /\ t.accepted) /\ t.name # "cleanup_updated"
    <3>1. k = w BY <2>3 DEF KeepAcceptedAbort
    <3> QED BY <3>1
  <2> QED BY <2>1, <2>2, <2>3
<1>2. k \in Workers BY ApplyTransitionTyped
<1> HIDE DEF k
<1>3. LET f == FinalizeAttempt(k, t.fin) IN
      /\ f.lifecycle = k.lifecycle /\ f.abort = k.abort
      /\ f.result = k.result /\ f.retryCount = k.retryCount
      /\ Len(f.attempts) = Len(k.attempts)
  BY <1>2, FinalizeAttemptTyped, TransitionFields
<1> QED BY <1>1, <1>3 DEF ApplyTransition, AcceptedAbort, k

\* Where a transition that takes effect leads.
Landing(w, t) ==
  CASE t.name = "active"             -> "active_wait"
    [] t.name = "failed"             -> FailedTarget(t.retryable, t.available)
    [] t.name = "dependency_blocked" -> "blocked_dependency"
    [] t.name = "retry_scheduled"    -> "active_retry"
    [] t.name = "timed_out"          -> TimeoutTarget(t.policy, t.available)
    [] t.name = "result_applied"     -> ResultTarget(t.status)
    [] t.name = "aborted"            -> IF t.accepted THEN "aborted" ELSE w.lifecycle
    [] OTHER                         -> w.lifecycle

\* Reducing a transition leads there, and touches the session and the list of
\* sessions to delete in the two transitions that are about them.
LEMMA ReduceEffect ==
  ASSUME NEW w \in Workers, NEW t \in Transitions
  PROVE  LET r == Reduce(w, t) IN
         /\ r.lifecycle = Landing(w, t)
         /\ r.cleanup = IF t.name = "cleanup_updated" THEN t.cleanup ELSE w.cleanup
         /\ r.session = IF t.name = "provisioned" /\ w.session = NoSession
                        THEN t.session ELSE w.session
         /\ r.abort = IF t.name = "aborted"
                      THEN IF t.accepted THEN "accepted" ELSE "refused" ELSE w.abort
         /\ t.name # "attempt_started" => r.attempts = w.attempts
<1> USE TransitionFields DEF Landing, Reduce, Workers
<1>1. CASE t.name \in {"provisioned", "dependency_blocked", "aborted",
                       "cleanup_updated", "failed", "timed_out"}
  BY <1>1
<1>2. CASE t.name \in {"active", "retry_scheduled"} BY <1>2 DEF ClearStatus
<1>3. CASE t.name = "attempt_started" BY <1>3 DEF AppendAttempt
<1>4. CASE t.name = "result_applied"
  <2>1. CASE t.status = "done" BY <1>4, <2>1 DEF ClearStatus
  <2>2. CASE t.status # "done" BY <1>4, <2>2
  <2> QED BY <2>1, <2>2
<1> QED BY <1>1, <1>2, <1>3, <1>4

\* An accepted abort swallows what comes after it.
Swallows(w, t) ==
  /\ AcceptedAbort(w)
  /\ ~(t.name = "aborted" /\ t.accepted) /\ t.name # "cleanup_updated"

\* What applying a transition makes of the fields a start decides by.
LEMMA ApplyEffect ==
  ASSUME NEW w \in Workers, NEW t \in Transitions
  PROVE  LET n == ApplyTransition(w, t) IN
         /\ n \in Workers
         /\ n.lifecycle = IF Swallows(w, t) THEN w.lifecycle ELSE Landing(w, t)
         /\ n.cleanup = IF t.name = "cleanup_updated" THEN t.cleanup ELSE w.cleanup
         /\ n.session = IF t.name = "provisioned" /\ w.session = NoSession
                          /\ ~Swallows(w, t)
                        THEN t.session ELSE w.session
         /\ n.abort = IF t.name = "aborted" /\ ~Swallows(w, t)
                      THEN IF t.accepted THEN "accepted" ELSE "refused" ELSE w.abort
         /\ t.name # "attempt_started" => Len(n.attempts) = Len(w.attempts)
<1> DEFINE r == Reduce(w, t)
           k == KeepAcceptedAbort(w, r, t)
<1>1. k = IF Swallows(w, t) THEN w ELSE r
  BY DEF KeepAcceptedAbort, Swallows
<1>2. k \in Workers /\ ApplyTransition(w, t) \in Workers
  BY ApplyTransitionTyped
<1>3. /\ r.lifecycle = Landing(w, t)
      /\ r.cleanup = IF t.name = "cleanup_updated" THEN t.cleanup ELSE w.cleanup
      /\ r.session = IF t.name = "provisioned" /\ w.session = NoSession
                     THEN t.session ELSE w.session
      /\ r.abort = IF t.name = "aborted"
                   THEN IF t.accepted THEN "accepted" ELSE "refused" ELSE w.abort
      /\ t.name # "attempt_started" => r.attempts = w.attempts
  BY ReduceEffect
<1>4. t.name = "cleanup_updated" => ~Swallows(w, t) BY DEF Swallows
<1>5. ApplyTransition(w, t) = FinalizeAttempt(k, t.fin) BY DEF ApplyTransition
<1> HIDE DEF k, r
<1>6. LET f == FinalizeAttempt(k, t.fin) IN
      /\ f.lifecycle = k.lifecycle /\ f.cleanup = k.cleanup
      /\ f.session = k.session /\ f.abort = k.abort
      /\ Len(f.attempts) = Len(k.attempts)
  BY <1>2, FinalizeAttemptTyped, TransitionFields
<1> QED BY <1>1, <1>2, <1>3, <1>4, <1>5, <1>6

\* A retry that is scheduled and not swallowed is counted.
LEMMA RetryScheduledEffect ==
  ASSUME NEW w \in Workers, NEW t \in Transitions, t.name = "retry_scheduled",
         ~Swallows(w, t)
  PROVE  ApplyTransition(w, t).retryCount = t.retryCount
<1> DEFINE r == Reduce(w, t)
<1>1. r = [ClearStatus(w) EXCEPT !.lifecycle = "active_retry", !.retryCount = t.retryCount]
  BY DEF Reduce
<1>2. r.retryCount = t.retryCount BY <1>1 DEF ClearStatus, Workers
<1>3. r \in Workers BY ReduceTyped
<1>4. ApplyTransition(w, t) = FinalizeAttempt(r, t.fin)
  BY DEF ApplyTransition, KeepAcceptedAbort, Swallows
<1> HIDE DEF r
<1> QED BY <1>2, <1>3, <1>4, FinalizeAttemptTyped, TransitionFields

\* No transition adds more than one attempt.
LEMMA OneAttempt ==
  ASSUME NEW w \in Workers, NEW t \in Transitions
  PROVE  Len(ApplyTransition(w, t).attempts) \in {Len(w.attempts), Len(w.attempts) + 1}
<1> DEFINE r == Reduce(w, t)
           k == KeepAcceptedAbort(w, r, t)
<1>1. CASE t.name # "attempt_started" BY <1>1, ApplyEffect
<1>2. CASE t.name = "attempt_started"
  <2>1. t.attempt \in Attempts /\ r = AppendAttempt(w, t.attempt)
    BY <1>2, TransitionFields DEF Reduce
  <2>2. w.attempts \in Seq(Attempts) BY DEF Workers
  <2>3. Len(r.attempts) \in {Len(w.attempts), Len(w.attempts) + 1}
    <3>1. CASE r = w BY <3>1
    <3>2. CASE r # w
      <4>1. r = [w EXCEPT !.attempts = Append(w.attempts, t.attempt)]
        BY <2>1, <3>2, AppendAttemptTyped
      <4>2. r.attempts = Append(w.attempts, t.attempt) BY <4>1 DEF Workers
      <4> HIDE DEF r
      <4> QED BY <2>1, <2>2, <4>2
    <3> QED BY <3>1, <3>2
  <2>4. k \in {w, r} BY KeepAcceptedAbortIs
  <2>5. k \in Workers BY ApplyTransitionTyped
  <2>6. ApplyTransition(w, t) = FinalizeAttempt(k, t.fin) BY DEF ApplyTransition
  <2> HIDE DEF k, r
  <2>7. Len(FinalizeAttempt(k, t.fin).attempts) = Len(k.attempts)
    BY <2>5, FinalizeAttemptTyped, TransitionFields
  <2> QED BY <2>3, <2>4, <2>6, <2>7
<1> QED BY <1>1, <1>2

-----------------------------------------------------------------------------
(* Rounds.  A function applied over and over, and where that comes to rest. *)

\* The first n + 1 of the values of f, applied over and over to x.
Iterates(f, x, n, h) ==
  /\ DOMAIN h = 0 .. n /\ h[0] = x
  /\ \A i \in 0 .. n : i # n => h[i + 1] = f[h[i]]

LEMMA IteratesExist ==
  ASSUME NEW f, NEW x, NEW n \in Nat
  PROVE  \E h : Iterates(f, x, n, h)
<1> DEFINE Bad == {m \in Nat : ~ \E h : Iterates(f, x, m, h)}
<1>1. SUFFICES ASSUME Bad # {} PROVE FALSE OBVIOUS
<1>2. PICK m \in Bad : \A k \in Bad : m <= k
  <2>1. Bad \subseteq Nat OBVIOUS
  <2> HIDE DEF Bad
  <2> QED BY <1>1, <2>1, LeastNatural
<1>3. CASE m = 0
  <2> DEFINE h == [i \in 0 .. 0 |-> x]
  <2>1. Iterates(f, x, 0, h) BY DEF Iterates
  <2> QED BY <1>3, <2>1
<1>4. CASE m # 0
  <2>1. m - 1 \in Nat /\ m \in Nat BY <1>4
  <2>2. m - 1 \notin Bad BY <1>2, <2>1
  <2>3. PICK h : Iterates(f, x, m - 1, h) BY <2>1, <2>2
  <2> DEFINE g == [i \in 0 .. m |-> IF i = m THEN f[h[m - 1]] ELSE h[i]]
  <2>4. DOMAIN g = 0 .. m /\ g[0] = x BY <1>4, <2>1, <2>3 DEF Iterates
  <2>5. ASSUME NEW i \in 0 .. m, i # m PROVE g[i + 1] = f[g[i]]
    <3>1. CASE i = m - 1 BY <2>1, <2>5, <3>1
    <3>2. CASE i # m - 1
      <4>1. i \in 0 .. (m - 1) /\ i + 1 \in 0 .. m /\ i + 1 # m BY <2>1, <2>5, <3>2
      <4>2. h[i + 1] = f[h[i]] BY <2>3, <3>2, <4>1 DEF Iterates
      <4> QED BY <2>5, <4>1, <4>2
    <3> QED BY <3>1, <3>2
  <2> HIDE DEF g
  <2>6. Iterates(f, x, m, g) BY <2>4, <2>5 DEF Iterates
  <2> QED BY <2>6
<1> QED BY <1>3, <1>4

LEMMA IteratesAgree ==
  ASSUME NEW f, NEW x, NEW m \in Nat, NEW n \in Nat, NEW g, NEW h,
         Iterates(f, x, m, g), Iterates(f, x, n, h), NEW k \in Nat, k <= m, k <= n
  PROVE  g[k] = h[k]
<1> DEFINE Bad == {i \in 0 .. k : g[i] # h[i]}
<1>1. SUFFICES ASSUME Bad # {} PROVE FALSE OBVIOUS
<1>2. PICK i \in Bad : \A j \in Bad : i <= j
  <2>1. Bad \subseteq Nat OBVIOUS
  <2> HIDE DEF Bad
  <2> QED BY <1>1, <2>1, LeastNatural
<1>3. i # 0 BY DEF Iterates
<1>4. i - 1 \in 0 .. k /\ i - 1 \notin Bad BY <1>2, <1>3
<1>5. g[i - 1] = h[i - 1] BY <1>4
<1>6. i - 1 \in 0 .. m /\ i - 1 # m /\ i - 1 \in 0 .. n /\ i - 1 # n /\ (i - 1) + 1 = i
  BY <1>3
<1>7. g[i] = f[g[i - 1]] /\ h[i] = f[h[i - 1]]
  BY <1>6 DEF Iterates
<1> QED BY <1>5, <1>7

\* There is a function that gives all of them.
LEMMA AllIterates ==
  ASSUME NEW f, NEW x
  PROVE  \E g : /\ DOMAIN g = Nat /\ g[0] = x
                /\ \A n \in Nat : g[n + 1] = f[g[n]]
                /\ g \in [Nat -> {g[n] : n \in Nat}]
<1> DEFINE H(n) == CHOOSE h : Iterates(f, x, n, h)
           g == [n \in Nat |-> H(n)[n]]
<1>1. \A n \in Nat : Iterates(f, x, n, H(n)) BY IteratesExist
<1> HIDE DEF H
<1>2. g[0] = x BY <1>1 DEF Iterates
<1>3. ASSUME NEW n \in Nat PROVE g[n + 1] = f[g[n]]
  <2>1. Iterates(f, x, n, H(n)) /\ Iterates(f, x, n + 1, H(n + 1)) BY <1>1
  <2>2. H(n + 1)[n] = H(n)[n]
    <3>1. n + 1 \in Nat /\ n <= n /\ n <= n + 1 OBVIOUS
    <3> QED BY <2>1, <3>1, IteratesAgree
  <2>3. H(n + 1)[n + 1] = f[H(n + 1)[n]]
    <3>1. n \in 0 .. (n + 1) /\ n # n + 1 OBVIOUS
    <3> QED BY <2>1, <3>1 DEF Iterates
  <2> QED BY <2>2, <2>3
<1>4. DOMAIN g = Nat OBVIOUS
<1>5. g \in [Nat -> {g[n] : n \in Nat}] OBVIOUS
<1> HIDE DEF g
<1> QED BY <1>2, <1>3, <1>4, <1>5

\* Once a value stays, all later ones are the same.
LEMMA StaysForGood ==
  ASSUME NEW f, NEW g, \A n \in Nat : g[n + 1] = f[g[n]],
         NEW m \in Nat, g[m + 1] = g[m], NEW n \in Nat, m <= n
  PROVE  g[n + 1] = g[n]
<1> DEFINE Bad == {i \in Nat : m <= i /\ g[i + 1] # g[i]}
<1>1. SUFFICES ASSUME Bad # {} PROVE FALSE OBVIOUS
<1>2. PICK i \in Bad : \A j \in Bad : i <= j
  <2>1. Bad \subseteq Nat OBVIOUS
  <2> HIDE DEF Bad
  <2> QED BY <1>1, <2>1, LeastNatural
<1>3. i - 1 \in Nat /\ m <= i - 1 /\ (i - 1) + 1 = i /\ i - 1 \notin Bad BY <1>2
<1>4. g[(i - 1) + 1] = g[i - 1] BY <1>3
<1>5. g[i + 1] = f[g[i]] /\ g[(i - 1) + 1] = f[g[i - 1]] BY <1>3
<1> QED BY <1>3, <1>4, <1>5

\* A chain of subsets of a finite set that keeps growing has a new element each time.
LEMMA ChainGrows ==
  ASSUME NEW S, IsFiniteSet(S), NEW g, NEW N \in Nat,
         \A n \in 0 .. N : g[n] \subseteq S,
         \A n \in 0 .. N : n # N => g[n] \subseteq g[n + 1] /\ g[n + 1] # g[n]
  PROVE  Cardinality(g[N]) >= N
<1> DEFINE Bad == {n \in 0 .. N : ~(Cardinality(g[n]) >= n)}
<1>0. \A n \in 0 .. N : IsFiniteSet(g[n]) /\ Cardinality(g[n]) \in Nat
  BY FS_Subset, FS_CardinalityType
<1>1. SUFFICES ASSUME Bad # {} PROVE FALSE BY <1>0
<1>2. PICK n \in Bad : \A j \in Bad : n <= j
  <2>1. Bad \subseteq Nat OBVIOUS
  <2> HIDE DEF Bad
  <2> QED BY <1>1, <2>1, LeastNatural
<1>3. n # 0 BY <1>0
<1> DEFINE m == n - 1
<1>4. m \in 0 .. N /\ m # N /\ m + 1 = n /\ m \notin Bad BY <1>2, <1>3
<1>5. Cardinality(g[m]) >= m BY <1>4
<1>6. g[m] \subseteq g[n] /\ g[m] # g[n] BY <1>4
<1> HIDE DEF m
<1>7. IsFiniteSet(g[m]) /\ IsFiniteSet(g[n]) BY <1>0, <1>4
<1>8. Cardinality(g[m]) \in Nat /\ Cardinality(g[n]) \in Nat BY <1>0, <1>4
<1>9. Cardinality(g[m]) < Cardinality(g[n])
  <2>1. Cardinality(g[m]) <= Cardinality(g[n]) BY <1>6, <1>7, FS_Subset
  <2>2. Cardinality(g[m]) # Cardinality(g[n]) BY <1>6, <1>7, FS_Subset
  <2> QED BY <1>8, <2>1, <2>2
<1>10. Cardinality(g[n]) >= n BY <1>4, <1>5, <1>8, <1>9
<1> QED BY <1>10

\* A growing chain of subsets of S has come to rest after as many steps as S
\* has elements.
LEMMA ChainRests ==
  ASSUME NEW S, IsFiniteSet(S), NEW f, NEW g, \A n \in Nat : g[n + 1] = f[g[n]],
         \A n \in Nat : g[n] \subseteq S /\ g[n] \subseteq g[n + 1]
  PROVE  f[g[Cardinality(S)]] = g[Cardinality(S)]
<1> DEFINE N == Cardinality(S)
<1>0. N \in Nat BY FS_CardinalityType
<1> HIDE DEF N
<1>1. SUFFICES ASSUME g[N + 1] # g[N] PROVE FALSE BY <1>0 DEF N
<1>2. \A m \in Nat : m <= N => g[m + 1] # g[m] BY <1>0, <1>1, StaysForGood
<1>3. N + 1 \in Nat /\ \A n \in 0 .. (N + 1) : n \in Nat /\ (n # N + 1 => n <= N) BY <1>0
<1>4. Cardinality(g[N + 1]) >= N + 1
  <2> DEFINE M == N + 1
  <2>1. \A n \in 0 .. M : g[n] \subseteq S BY <1>3
  <2>2. \A n \in 0 .. M : n # M => g[n] \subseteq g[n + 1] /\ g[n + 1] # g[n] BY <1>2, <1>3
  <2>3. M \in Nat BY <1>3
  <2> HIDE DEF M
  <2>4. Cardinality(g[M]) >= M BY <2>1, <2>2, <2>3, ChainGrows
  <2> QED BY <2>4 DEF M
<1>5. g[N + 1] \subseteq S BY <1>3
<1>6. Cardinality(g[N + 1]) <= N BY <1>5, FS_Subset DEF N
<1>7. Cardinality(g[N + 1]) \in Nat BY <1>5, FS_Subset, FS_CardinalityType
<1> QED BY <1>0, <1>4, <1>6, <1>7

-----------------------------------------------------------------------------
(* Propagated: what the rounds of a blocking plan come to.                 *)

\* The rounds of Propagated.
LEMMA PropagatedRounds ==
  ASSUME NEW v, NEW seeds
  PROVE  \E r : /\ r[0] = seeds
                /\ \A n \in Nat : r[n + 1] = r[n] \cup NewlyBlocked(v, r[n])
                /\ Propagated(v, seeds) = r[Cardinality(Ids(v))]
<1> DEFINE Is(r) == r = [n \in Nat |->
                           IF n = 0 THEN seeds
                           ELSE r[n - 1] \cup NewlyBlocked(v, r[n - 1])]
           R == CHOOSE r : Is(r)
<1>1. Propagated(v, seeds) = R[Cardinality(Ids(v))] BY DEF Propagated
<1>2. \E r : Is(r)
  <2> DEFINE D == Ids(v) \cup seeds
             f == [b \in SUBSET D |-> b \cup NewlyBlocked(v, b)]
  <2>1. PICK g : /\ DOMAIN g = Nat /\ g[0] = seeds
                 /\ \A n \in Nat : g[n + 1] = f[g[n]]
                 /\ g \in [Nat -> {g[n] : n \in Nat}]
    <3> HIDE DEF f
    <3> QED BY AllIterates
  <2>2. ASSUME NEW n \in Nat PROVE g[n] \in SUBSET D
    <3> DEFINE Bad == {m \in Nat : g[m] \notin SUBSET D}
    <3>1. SUFFICES ASSUME Bad # {} PROVE FALSE OBVIOUS
    <3>2. PICK m \in Bad : \A k \in Bad : m <= k
      <4>1. Bad \subseteq Nat OBVIOUS
      <4> HIDE DEF Bad
      <4> QED BY <3>1, <4>1, LeastNatural
    <3>3. m # 0 BY <2>1
    <3>4. m - 1 \in Nat /\ (m - 1) + 1 = m /\ m - 1 \notin Bad BY <3>2, <3>3
    <3>5. g[m - 1] \in SUBSET D BY <3>4
    <3>6. g[m] = f[g[m - 1]] BY <2>1, <3>4
    <3>7. g[m] = g[m - 1] \cup NewlyBlocked(v, g[m - 1]) BY <3>5, <3>6
    <3> QED BY <3>5, <3>7 DEF NewlyBlocked
  <2>3. ASSUME NEW n \in Nat, n # 0
        PROVE  f[g[n - 1]] = g[n - 1] \cup NewlyBlocked(v, g[n - 1])
    <3>1. n - 1 \in Nat BY <2>3
    <3>2. g[n - 1] \in SUBSET D BY <2>2, <3>1
    <3> QED BY <3>2
  <2> HIDE DEF f
  <2>4. ASSUME NEW n \in Nat
        PROVE  g[n] = IF n = 0 THEN seeds ELSE g[n - 1] \cup NewlyBlocked(v, g[n - 1])
    <3>1. CASE n = 0 BY <2>1, <3>1
    <3>2. CASE n # 0
      <4>1. n - 1 \in Nat /\ (n - 1) + 1 = n BY <3>2
      <4>2. g[(n - 1) + 1] = f[g[n - 1]] BY <2>1, <4>1
      <4> QED BY <2>3, <3>2, <4>1, <4>2
    <3> QED BY <3>1, <3>2
  <2>5. Is(g) BY <2>1, <2>4
  <2> QED BY <2>5
<1> HIDE DEF Is
<1>3. Is(R) BY <1>2
<1> HIDE DEF R
<1>4. R[0] = seeds BY <1>3 DEF Is
<1>5. ASSUME NEW n \in Nat PROVE R[n + 1] = R[n] \cup NewlyBlocked(v, R[n])
  <2>1. n + 1 \in Nat /\ n + 1 # 0 /\ (n + 1) - 1 = n OBVIOUS
  <2>2. R[n + 1] = R[(n + 1) - 1] \cup NewlyBlocked(v, R[(n + 1) - 1])
    BY <1>3, <2>1 DEF Is
  <2> QED BY <2>1, <2>2
<1> QED BY <1>1, <1>4, <1>5

\* It is the least set that includes the seeds and the dependents, blockable and
\* among the workers, of its members.
LEMMA PropagatedEffect ==
  ASSUME NEW v, IsFiniteSet(Ids(v)), NEW seeds, seeds \subseteq Ids(v)
  PROVE  LET b == Propagated(v, seeds) IN
         /\ seeds \subseteq b /\ b \subseteq Ids(v)
         /\ NewlyBlocked(v, b) = {}
         /\ \A c : seeds \subseteq c /\ NewlyBlocked(v, c) = {} => b \subseteq c
<1> DEFINE b == Propagated(v, seeds)
           f == [x \in SUBSET Ids(v) |-> x \cup NewlyBlocked(v, x)]
<1>1. PICK r : /\ r[0] = seeds
               /\ \A n \in Nat : r[n + 1] = r[n] \cup NewlyBlocked(v, r[n])
               /\ b = r[Cardinality(Ids(v))]
  BY PropagatedRounds
<1>2. Cardinality(Ids(v)) \in Nat BY FS_CardinalityType
<1>3. ASSUME NEW c, seeds \subseteq c, NewlyBlocked(v, c) = {}, NEW n \in Nat
      PROVE  r[n] \subseteq c
  <2> DEFINE Bad == {m \in Nat : ~(r[m] \subseteq c)}
  <2>1. SUFFICES ASSUME Bad # {} PROVE FALSE OBVIOUS
  <2>2. PICK m \in Bad : \A k \in Bad : m <= k
    <3>1. Bad \subseteq Nat OBVIOUS
    <3> HIDE DEF Bad
    <3> QED BY <2>1, <3>1, LeastNatural
  <2>3. m # 0 BY <1>1, <1>3
  <2>4. m - 1 \in Nat /\ (m - 1) + 1 = m /\ m - 1 \notin Bad BY <2>2, <2>3
  <2>5. r[m - 1] \subseteq c BY <2>4
  <2>6. r[m] = r[m - 1] \cup NewlyBlocked(v, r[m - 1]) BY <1>1, <2>4
  <2>7. NewlyBlocked(v, r[m - 1]) \subseteq c BY <1>3, <2>5 DEF NewlyBlocked
  <2> QED BY <2>5, <2>6, <2>7
<1>4. NewlyBlocked(v, Ids(v)) = {} BY DEF NewlyBlocked
<1>5. \A n \in Nat : r[n] \subseteq Ids(v) /\ r[n] \subseteq r[n + 1]
  BY <1>1, <1>3, <1>4
<1>6. \A n \in Nat : f[r[n]] = r[n] \cup NewlyBlocked(v, r[n]) BY <1>5
<1>7. \A n \in Nat : r[n + 1] = f[r[n]] BY <1>1, <1>6
<1>8. f[b] = b
  <2> HIDE DEF f
  <2>1. f[r[Cardinality(Ids(v))]] = r[Cardinality(Ids(v))] BY <1>5, <1>7, ChainRests
  <2> QED BY <1>1, <2>1
<1>9. b = b \cup NewlyBlocked(v, b) BY <1>1, <1>2, <1>6, <1>8
<1>10. NewlyBlocked(v, b) = {} BY <1>9 DEF NewlyBlocked
<1>11. seeds \subseteq b /\ b \subseteq Ids(v)
  <2> DEFINE Bad == {m \in Nat : ~(seeds \subseteq r[m])}
  <2>1. b \subseteq Ids(v) BY <1>1, <1>2, <1>5
  <2>2. SUFFICES ASSUME Bad # {} PROVE FALSE BY <1>1, <1>2, <2>1
  <2>3. PICK m \in Bad : \A k \in Bad : m <= k
    <3>1. Bad \subseteq Nat OBVIOUS
    <3> HIDE DEF Bad
    <3> QED BY <2>2, <3>1, LeastNatural
  <2>4. m # 0 BY <1>1
  <2>5. m - 1 \in Nat /\ (m - 1) + 1 = m /\ m - 1 \notin Bad BY <2>3, <2>4
  <2>6. r[m] = r[m - 1] \cup NewlyBlocked(v, r[m - 1]) BY <1>1, <2>5
  <2> QED BY <2>5, <2>6
<1>12. \A c : seeds \subseteq c /\ NewlyBlocked(v, c) = {} => b \subseteq c
  BY <1>1, <1>2, <1>3
<1> HIDE DEF b
<1> QED BY <1>10, <1>11, <1>12 DEF b

\* A blocking plan blocks blockable workers only: all that have a failed
\* dependency and all whose dependencies it blocks.
LEMMA BlockedIdsEffect ==
  ASSUME NEW v, IsFiniteSet(Ids(v)), NEW cyclic
  PROVE  LET b == BlockedIds(v, cyclic) IN
         /\ \A w \in b : w \in Ids(v) /\ Blockable(v, w)
         /\ DependencySeeds(v) \subseteq b
         /\ \A w \in Ids(v) : Blockable(v, w) /\ v.deps[w] \cap b # {} => w \in b
<1> DEFINE seeds == InvalidSeeds(v, cyclic) \cup DependencySeeds(v)
           b == Propagated(v, seeds)
           c == {w \in Ids(v) : Blockable(v, w)}
<1>1. seeds \subseteq c /\ seeds \subseteq Ids(v) BY DEF InvalidSeeds, DependencySeeds
<1>2. NewlyBlocked(v, c) = {} BY DEF NewlyBlocked
<1> HIDE DEF seeds, c
<1>3. /\ seeds \subseteq b /\ b \subseteq c /\ NewlyBlocked(v, b) = {}
  BY <1>1, <1>2, PropagatedEffect
<1>4. BlockedIds(v, cyclic) = b BY DEF BlockedIds, seeds
<1>5. \A w \in b : w \in Ids(v) /\ Blockable(v, w) BY <1>3 DEF c
<1>6. DependencySeeds(v) \subseteq b BY <1>3 DEF seeds
<1> HIDE DEF b
<1>7. \A w \in Ids(v) : Blockable(v, w) /\ v.deps[w] \cap b # {} => w \in b
  BY <1>3 DEF NewlyBlocked
<1> QED BY <1>4, <1>5, <1>6, <1>7

\* Once the blocked workers are blocked, no worker is left that only could wait
\* for a failed one, and no worker is ready that was not ready before.
LEMMA BlockingSettles ==
  ASSUME NEW v, NEW n, IsFiniteSet(Ids(v)), Ids(n) = Ids(v), n.deps = v.deps,
         n.prompted = v.prompted,
         \A w \in Ids(v) : n.life[w] = IF w \in BlockedIds(v, {})
                                       THEN "blocked_dependency" ELSE v.life[w]
  PROVE  /\ DependencySeeds(n) = {}
         /\ ReadyIds(v, BlockedIds(v, {})) = {} => ReadyIds(n, {}) = {}
<1> DEFINE b == BlockedIds(v, {})
<1>1. /\ \A w \in b : w \in Ids(v) /\ Blockable(v, w)
      /\ DependencySeeds(v) \subseteq b
      /\ \A w \in Ids(v) : Blockable(v, w) /\ v.deps[w] \cap b # {} => w \in b
  BY BlockedIdsEffect
<1>2. \A w \in Ids(v) : n.life[w] = IF w \in b THEN "blocked_dependency" ELSE v.life[w]
  OBVIOUS
<1> HIDE DEF b
<1>3. "blocked_dependency" \notin RunnableStates \cup ExecutableStates \cup {"done_collect"}
  BY DEF RunnableStates, ActiveStates, ExecutableStates
<1>4. ASSUME NEW w \in DependencySeeds(n) PROVE FALSE
  <2>1. w \in Ids(v) /\ w \in n.prompted /\ n.life[w] \in RunnableStates
    BY DEF DependencySeeds, Blockable
  <2>2. w \notin b /\ n.life[w] = v.life[w] BY <1>2, <1>3, <2>1
  <2>3. Blockable(v, w) BY <2>1, <2>2 DEF Blockable
  <2>4. PICK d \in v.deps[w] : FailedDependency(n, d) BY DEF DependencySeeds
  <2>5. d \notin b BY <1>1, <2>1, <2>2, <2>3
  <2>6. FailedDependency(v, d) BY <1>2, <2>4, <2>5 DEF FailedDependency
  <2>7. w \in DependencySeeds(v) BY <2>1, <2>3, <2>4, <2>6 DEF DependencySeeds
  <2> QED BY <1>1, <2>2, <2>7
<1>5. ASSUME NEW w \in ReadyIds(n, {}) PROVE w \in ReadyIds(v, b)
  <2>1. w \in Ids(v) /\ w \in n.prompted /\ n.life[w] \in ExecutableStates
    BY DEF ReadyIds, Executable
  <2>2. w \notin b /\ n.life[w] = v.life[w] BY <1>2, <1>3, <2>1
  <2>3. \A d \in n.deps[w] : d \in Ids(v) /\ n.life[d] = "done_collect"
    BY DEF ReadyIds, DependenciesDone
  <2>4. \A d \in v.deps[w] : d \in Ids(v) /\ v.life[d] = "done_collect"
    BY <1>2, <1>3, <2>3
  <2> QED BY <2>1, <2>2, <2>4 DEF ReadyIds, Executable, DependenciesDone
<1> QED BY <1>4, <1>5 DEF b

\* The same when no worker is left to run, and active ones wait for nothing.
LEMMA NoneLeftSettles ==
  ASSUME NEW v,
         \A w \in Ids(v) : /\ ~Executable(v, w)
                           /\ v.life[w] = "active_wait" => DependenciesDone(v, w)
  PROVE  DependencySeeds(v) = {} /\ ReadyIds(v, {}) = {}
<1>1. ASSUME NEW w \in DependencySeeds(v) PROVE FALSE
  <2>1. w \in Ids(v) /\ Blockable(v, w) BY DEF DependencySeeds
  <2>2. v.life[w] = "active_wait"
    BY <2>1 DEF Blockable, Executable, RunnableStates, ActiveStates, ExecutableStates
  <2>3. PICK d \in v.deps[w] : FailedDependency(v, d) BY DEF DependencySeeds
  <2>4. d \in Ids(v) /\ v.life[d] = "done_collect" BY <2>1, <2>2 DEF DependenciesDone
  <2> QED BY <2>3, <2>4 DEF FailedDependency, FailedDependencyStates, BlockedStates,
             FailedStates, TimeoutStates, AbortedStates
<1>2. ReadyIds(v, {}) = {} BY DEF ReadyIds
<1> QED BY <1>1, <1>2
=============================================================================
