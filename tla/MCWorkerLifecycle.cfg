SPECIFICATION Spec
CONSTANTS
  Sessions = {s1}
  NoSession = NoSession
  NoTransition = NoTransition
  Actors = {p1, p2}
  RetryLimits = {0, 1}
  RetryChoices <- MCRetryChoices
  PolicyChoices <- TimeoutPolicies
  MaxAttempts = 2
CONSTRAINT MCBound
SYMMETRY Symmetry
INVARIANTS TypeOK AttemptIdsAreIndices RetryWithinLimit NoStaleVerdict
PROPERTIES FinishedStaysFinished AbortIsFinal
