CONSTANTS
  Promise = {p1, p2, p3}
  Value = {None}
  Error = {}
  LibraryError = LibraryError
  None = None
  Attached = {"THEN", "CATCH", "FINALLY"}
  MaxHeld = 2
  Failing = {"job", "cont", "string"}
SPECIFICATION Spec
SYMMETRY Symmetry
CHECK_DEADLOCK FALSE
INVARIANTS RefcountsExact ReleasedMeansFreed
