CONSTANTS
  t1 = t1
  t2 = t2
  t3 = t3
  t4 = t4
  Reader <- Readers
  Writer <- Writers
SPECIFICATION FairSpec
INVARIANTS TypeOK CountersExact Exclusion NoLostWakeup
PROPERTIES ImplementsReadersWriters UpsertsNotStarved
