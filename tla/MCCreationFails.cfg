SPECIFICATION Spec
CONSTANTS
  Starters = {p1}
  N = 2
  Missing = 0
  Graphs <- MCGraphs
  Sessions = {s1, s2}
  NoSession = NoSession
  Configs <- MCRetries
  Registered = NoSession
  Results = {"done"}
  Failures = {"api"}
  ExecutionPolicies = {"fail_fast", "continue"}
  Timed = {}
  Abortable = {}
  Reprompted = {}
  Mortal = {}
  Cleanup = {FALSE}
  MaxStarts = 1
  MaxAttempts = 3
INVARIANT NeverRaises
CHECK_DEADLOCK FALSE
