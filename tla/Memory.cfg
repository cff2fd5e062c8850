SPECIFICATION Spec
CONSTANTS
  Requests = {r1, r2, r3, r4}
  Ids = {i1, i2}
  Names = {n1}
  Nodes = {w1}
  NULL = NULL
SYMMETRY Symmetry
INVARIANTS TypeOK PublishedIsProtected EntriesKept DamageOnlyByRaces
PROPERTY RefinesCatalog
