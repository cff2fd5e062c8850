SPECIFICATION Spec
CONSTANTS
  dir = dir
  file = file
  NULL = NULL
  Requests = {w1, w2, w3, g1}
  Readers = {g1}
  Paths = {dir, file}
  Ancestors <- MCAncestors
  Sizes = {0, 2}
  MaxSize = 2
  MaxFaults = 1
SYMMETRY Symmetry
INVARIANTS TypeOK ReadYourWrite ReadYourDelete FailsOnlyWhenDisturbed MixedOnlyByOverlap
