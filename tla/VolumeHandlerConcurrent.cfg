SPECIFICATION Spec
CONSTANTS
  Requests = {r1, r2, r3, r4}
  Ids = {i1, i2}
  Names = {n1, n2}
  SourcePaths = {p1}
  TargetPaths = {t1, t2}
  Nodes = {w1, w2}
  NULL = NULL
  MaxFaults = 1
  SerialPerName = FALSE
SYMMETRY Symmetry
INVARIANTS TypeOK NameIndexSound EntriesEarned AckedCreateStands
PROPERTY RefinesIndexCatalog
