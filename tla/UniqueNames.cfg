SPECIFICATION Spec
CONSTANTS
  Requests = {r1, r2, r3, r4}
  Ids = {i1, i2}
  Names = {n1}
  SourcePaths = {p1}
  TargetPaths = {t1}
  Nodes = {w1}
  NULL = NULL
  MaxFaults = 0
  SerialPerName = FALSE
SYMMETRY Symmetry
INVARIANTS UniqueNames
