CONSTANTS
  Null = Null
  a = a
  b = b
  v1 = v1
  v2 = v2
  f = f
  Ns = {n}
  Id = {a, b}
  Val = {v1, v2}
  Field = {f}
  Batch <- Batches
  Tiny = {}
  IndexType = "auto"
  PromoteAt = 2
  CompactMinDead = 2
  CompactPercent = 40
  MayFail = TRUE
  MaxSlots = 5
  MaxLog = 2
SPECIFICATION FairSpec
INVARIANTS TypeOK TablesAgree Inv
PROPERTIES WritesExact RebuildInvisible PromotionSticks RebuildsEnd
