CONSTANTS
  Promise = {p1, p2, p3}
  Value = {None}
  Error = {}
  LibraryError = LibraryError
  None = None
  Attached = {"THEN"}
  MaxHeld = 1
  Failing = {}
SPECIFICATION FairSpec
CHECK_DEADLOCK FALSE
PROPERTIES AdoptersSettle FulfilsContract
