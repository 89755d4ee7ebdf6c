CONSTANTS
  Session = {s1, s2}
  n1 = n1
  n2 = n2
  c1 = c1
  Node = {n1, n2}
  Content = {c1}
  Edge <- MCEdge
  Linked = Linked
  None = None
  Absent = Absent
  Unknown = Unknown
  Imported <- MCImported
  Failing = {}
  InBatch = {"search", "retrieve", "import", "clear"}
  MaxDepth = 1
SPECIFICATION Spec
SYMMETRY Symmetry
INVARIANTS CacheMirrorsRows
