SPECIFICATION Spec
CONSTANTS
  Starters = {p1, p2}
  N = 2
  Missing = 0
  Graphs <- MCGraphs
  Sessions = {s1, s2, s3, s4}
  NoSession = NoSession
  Configs <- MCNoRetries
  Registered = NoSession
  Results = {"done"}
  Failures = {"api"}
  ExecutionPolicies = {"continue"}
  Timed = {1}
  Abortable = {}
  Reprompted = {}
  Mortal = {}
  Cleanup = {TRUE, FALSE}
  MaxStarts = 1
  MaxAttempts = 4
SYMMETRY Symmetry
INVARIANTS ActiveHasExecutor DeletesDisposable
PROPERTIES StartCleansUp DependenciesFirst
CHECK_DEADLOCK FALSE
