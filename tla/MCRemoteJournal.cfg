SPECIFICATION Spec
CONSTANTS
  Commands = {m1, m2}
  Creations = {c1, c2}
SYMMETRY Symmetry
INVARIANTS TypeOK EvidenceKept EntriesTellTruth ReportedIsRecorded
PROPERTY KeepsPromise
