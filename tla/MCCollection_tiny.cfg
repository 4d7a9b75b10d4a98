CONSTANTS
  Null = Null
  a = a
  b = b
  v1 = v1
  v2 = v2
  f = f
  Ns = {n}
  Id = {a, b}
  Val = {v1, v2}
  Field = {f}
  Batch <- TinyBatches
  Tiny = {v2}
  IndexType = "auto"
  PromoteAt = 1
  CompactMinDead = 2
  CompactPercent = 40
  MayFail = FALSE
  MaxSlots = 5
  MaxLog = 2
SPECIFICATION Spec
PROPERTIES RebuildInvisible
