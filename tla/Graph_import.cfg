CONSTANTS
  Session = {s1}
  n1 = n1
  n2 = n2
  c1 = c1
  Node = {n1, n2}
  Content = {c1, c2}
  Edge <- MCEdge
  Linked = Linked
  None = None
  Absent = Absent
  Unknown = Unknown
  Imported <- MCImported
  Failing = {"record"}
  InBatch = {}
  MaxDepth = 2
SPECIFICATION Spec
INVARIANTS AckedIsDurable
