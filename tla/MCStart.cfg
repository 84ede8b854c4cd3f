SPECIFICATION Spec
CONSTANTS
  Starters = {p1}
  N = 3
  Missing = 0
  Graphs <- MCGraphs
  Sessions = {s1}
  NoSession = NoSession
  Configs <- MCRetries
  Registered = s1
  Results = {"done"}
  Failures = {"api", "timeout"}
  ExecutionPolicies = {"fail_fast", "continue"}
  Timed = {1, 2, 3}
  Abortable = {}
  Reprompted = {}
  Mortal = {}
  Cleanup = {FALSE}
  MaxStarts = 2
  MaxAttempts = 3
INVARIANTS StartSettlesRun AttemptsAreCounted
PROPERTY Terminates
CHECK_DEADLOCK FALSE
