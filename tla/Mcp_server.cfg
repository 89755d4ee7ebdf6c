CONSTANTS
  Key = {k1, k2, k3}
  Awaited = {k2}
  Value = {v1}
  Thread = {t1, t2}
  Session = {s1}
  StoreId = {i1, i2, i3}
  None = None
  SiloSize = {1}
  DefaultSize = 2
  Structured = {k1}
  NodeType = {"concept"}
  t1 = t1
  t2 = t2
  Tools <- MCTools
  MaxSeq = 4
SPECIFICATION Spec
SYMMETRY Symmetry
INVARIANTS StoresSound MissIsReal
PROPERTIES KeepsSessionMemory SetTakesEffect
