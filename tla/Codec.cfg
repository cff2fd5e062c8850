SPECIFICATION Spec
CONSTANTS
  NULL = NULL
  Texts <- MCTexts
  Contents <- MCContents
  TextLength = 5
  ContentLength = 4
  TextWindow = 2
INVARIANTS CodecTypeOK MeantIsStored GetIsFaithful
PROPERTY PutBackKeeps
