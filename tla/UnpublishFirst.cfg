SPECIFICATION CsiSpec
CONSTANTS
  p1 = p1
  NoNode = NoNode
  NULL = NULL
  Requests = {r1, r2, r3}
  Ids = {i1}
  Names = {n1}
  SourcePaths = {p1}
  TargetPaths = {t1}
  Nodes = {w1, NoNode}
  DefaultPath <- MCDefaultPath
  MaxFaults = 0
  SerialPerName = TRUE
  NilParameters = FALSE
SYMMETRY Symmetry
PROPERTIES UnpublishFirst
