SPECIFICATION CsiSpec
CONSTANTS
  p1 = p1
  NoNode = NoNode
  NULL = NULL
  Requests = {r1, r2, r3, r4}
  Ids = {i1, i2}
  Names = {n1}
  SourcePaths = {p1}
  TargetPaths = {t1}
  Nodes = {w1, w2, NoNode}
  DefaultPath <- MCDefaultPath
  MaxFaults = 1
  SerialPerName = FALSE
  NilParameters = TRUE
SYMMETRY Symmetry
INVARIANTS CsiTypeOK OneVolumePerName NodeCallsCarriedOut
