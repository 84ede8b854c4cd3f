SPECIFICATION Spec
CONSTANTS
  Sessions = {}
  NoSession = NoSession
  N = 3
  Missing = 0
  Kinds <- MCKinds
INVARIANTS CyclesAreFound DependenciesComeFirst BlockedIsReachable NobodyStalls
CHECK_DEADLOCK FALSE
