CONSTANTS
  Null = Null
  Nobody = Nobody
  None = None
  Done = Done
  c1 = c1
  c2 = c2
  a = a
  b = b
  v1 = v1
  v2 = v2
  f = f
  Snapshotter = s
  SnapshotEvery = 1
  Field = {f}
  Ns <- OneNamespace
  Id = {a}
  Val = {v1, v2}
  Client = {c1}
  Thread = {c1, s}
  Coll = {o1, o2, o3}
  Request <- TinyVector
  FailingOps = {}
  Tiny = {v2}
  MaxSeq = 3
  MaxCrashes = 0
SPECIFICATION Spec
INVARIANTS InStep
