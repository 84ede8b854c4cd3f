SPECIFICATION Spec
CONSTANTS
  Starters = {p1}
  N = 1
  Missing = 0
  Graphs <- MCGraphs
  Sessions = {s1, s2}
  NoSession = NoSession
  Configs <- MCTimeoutRetry
  Registered = NoSession
  Results = {"done"}
  Failures = {"api", "timeout"}
  ExecutionPolicies = {"fail_fast", "continue"}
  Timed = {1}
  Abortable = {}
  Reprompted = {}
  Mortal = {}
  Cleanup = {FALSE}
  MaxStarts = 2
  MaxAttempts = 3
PROPERTY NoAutomaticTimeoutRetry
CHECK_DEADLOCK FALSE
