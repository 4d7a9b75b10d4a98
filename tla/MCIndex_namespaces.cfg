CONSTANTS
  Null = Null
  Nobody = Nobody
  None = None
  Done = Done
  c1 = c1
  c2 = c2
  a = a
  b = b
  v1 = v1
  v2 = v2
  f = f
  Snapshotter = s
  SnapshotEvery = 2
  Field = {f}
  Ns <- TwoNamespaces
  Id = {a, b}
  Val = {v1}
  Client = {c1, c2}
  Thread = {c1, c2, s}
  Coll = {o1, o2, o3}
  Request <- OwnNamespaces
  FailingOps = {"delete", "snapshot"}
  Tiny = {}
  MaxSeq = 3
  MaxCrashes = 0
SPECIFICATION Spec
INVARIANTS MarkersOutliveSnapshots Inv
PROPERTIES ImplementsStore
