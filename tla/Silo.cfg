CONSTANTS
  Size = 2
  Key = {k1, k2}
  c1 = c1
  c2 = c2
  Content = {c1, c2}
  NULL = NULL
  Failing = {"key", "content"}
  Similarity <- MCSimilarity
  MinSim = 1
  Promise = {p1, p2}
  Writers = {"bridge", "commit", "direct"}
  CopyFails = TRUE
  MaxCount = 3
SPECIFICATION Spec
SYMMETRY Symmetry
CHECK_DEADLOCK FALSE
PROPERTIES OneSlotPerKey OtherKeysKept CommitIsStored
