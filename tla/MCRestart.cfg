SPECIFICATION Spec
CONSTANTS
  Starters = {p1}
  N = 2
  Missing = 0
  Graphs <- MCGraphs
  Sessions = {s1}
  NoSession = NoSession
  Configs <- MCPolicies
  Registered = s1
  Results = {"done"}
  Failures = {"api", "timeout"}
  ExecutionPolicies = {"fail_fast", "continue"}
  Timed = {1, 2}
  Abortable = {1}
  Reprompted = {1}
  Mortal = {p1}
  Cleanup = {FALSE}
  MaxStarts = 2
  MaxAttempts = 3
INVARIANT NeverRaises
CHECK_DEADLOCK FALSE
