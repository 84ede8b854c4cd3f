------------------------- MODULE MCRunOrchestration -------------------------
(* RunOrchestration for TLC, one configuration per question.               *)
EXTENDS RunOrchestration, TLC

Acyclic(g) ==
  \A ws \in (SUBSET Worker) \ {{}} : \E w \in ws : g[w] \cap ws = {}

MCGraphs == {g \in [Worker -> SUBSET Worker] : Acyclic(g)}
MCGraphsMissing == {g \in [Worker -> SUBSET (Worker \cup {Missing})] :
                      Acyclic(g)}

Config(limit, on, policy) ==
  [retryLimit |-> limit, retryOn |-> on, policy |-> policy]

MCRetries  == {Config(1, {"api"}, "timeout"), Config(1, {"all"}, "failed")}
MCPolicies == {Config(1, {"api", "timeout"}, "timeout"),
               Config(1, {"api", "timeout"}, "failed"),
               Config(0, {}, "blocked"), Config(0, {}, "aborted")}
MCNoRetries == {Config(0, {}, "timeout")}
MCTimeoutRetry == {Config(1, {"timeout"}, "timeout")}

Symmetry == Permutations(Starters) \cup Permutations(Sessions)
=============================================================================
