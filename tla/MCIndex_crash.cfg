CONSTANTS
  Null = Null
  Nobody = Nobody
  None = None
  Done = Done
  c1 = c1
  c2 = c2
  a = a
  b = b
  v1 = v1
  v2 = v2
  f = f
  Snapshotter = s
  SnapshotEvery = 1
  Field = {f}
  Ns <- OneNamespace
  Id = {a, b}
  Val = {v1, v2}
  Client = {c1, c2}
  Thread = {c1, c2, s}
  Coll = {o1, o2}
  Request <- SharedNamespace
  FailingOps = {"upsert", "update", "snapshot"}
  Tiny = {}
  MaxSeq = 5
  MaxCrashes = 2
SPECIFICATION Spec
INVARIANTS TypeOK InStep SameResult NewerWritesReplayed Inv
PROPERTIES ImplementsStore
