SPECIFICATION CsiSpec
CONSTANTS
  p1 = p1
  NoNode = NoNode
  NULL = NULL
  Requests = {r1, r2, r3, r4, r5}
  Ids = {i1, i2}
  Names = {n1, n2}
  SourcePaths = {p1}
  TargetPaths = {t1, t2}
  Nodes = {w1, NoNode}
  DefaultPath <- MCDefaultPath
  MaxFaults = 0
  SerialPerName = TRUE
  NilParameters = FALSE
SYMMETRY Symmetry
INVARIANTS IndexComplete PublicationHonoured DeleteIsFinal DeletedIsGone
PROPERTIES RefinesRecordCatalog FailuresJustified
