------------------------- MODULE MCWorkerLifecycle -------------------------
(* WorkerLifecycle for TLC.  Two processes race over a worker that has no  *)
(* session, so that no abort shortens the races; over any worker, one      *)
(* process is at work beside the operator, who may abort its session.      *)
EXTENDS WorkerLifecycle, FiniteSets, TLC

MCRetryChoices == {{}, {"api"}, {"all"}, {"api", "timeout"}}

AtWork == {a \in Actors : held[a] # NoTransition}

Races ==
  /\ worker.session = NoSession
  /\ worker.retryOn = {"api", "timeout"} /\ worker.policy \in {"timeout", "failed"}

Aborts ==
  /\ Cardinality(AtWork) <= 1 /\ Len(worker.attempts) <= 1
  /\ worker.retryOn # {"api", "timeout"}

MCBound == Races \/ Aborts

Symmetry == Permutations(Actors)
=============================================================================
