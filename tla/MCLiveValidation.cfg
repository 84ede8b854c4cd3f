SPECIFICATION Spec
CONSTANTS
  Kinds <- MCKinds
  EventLimit = 2
  MaxEvents = 2
  Docs <- MCDocs
  Modes <- AllModes
  Swept <- MCSwept
INVARIANTS EventsInOrder CleanupToldTruth EvidenceIsReal
PROPERTIES TimeoutToldTruth WatcherEnds CommandEnds
CHECK_DEADLOCK FALSE
