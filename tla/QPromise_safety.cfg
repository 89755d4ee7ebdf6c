CONSTANTS
  Promise = {p1, p2, p3}
  Value = {v}
  Error = {e}
  LibraryError = LibraryError
  None = None
  Attached = {"THEN", "CATCH", "FINALLY"}
  MaxHeld = 1
  Failing = {"cont"}
SPECIFICATION Spec
SYMMETRY Symmetry
CHECK_DEADLOCK FALSE
INVARIANTS NoLostWakeup DrainedMeansDelivered
PROPERTIES DerivedOutcome KeepsContract
