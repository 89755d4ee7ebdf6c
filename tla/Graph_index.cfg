CONSTANTS
  n1 = n1
  n2 = n2
  n3 = n3
  e1 = e1
  e2 = e2
  NodeId = {n1, n2, n3}
  EdgeId = {e1, e2}
  concept = concept
  NodeType = {concept}
  a = a
  b = b
  Label = {a, b}
  similar = similar
  Relation = {similar}
  None = None
  Imported <- MCImported
  MaxItems = 2
  OutsideChanges = TRUE
SPECIFICATION Spec
INVARIANTS LookupsMatchScan EdgesHaveEnds
PROPERTIES NoNewDuplicates
