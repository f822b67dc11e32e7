SPECIFICATION FairSpec
CONSTANTS
  f1 = f1
  f2 = f2
  p1 = p1
  Rows <- MCRows
  Table <- MCTable
  Links <- MCLinks
  BatchSize <- MCBatchSize
  BaseBatchSize = 1
  Loaded = 2
  MaxTime = 3
  MaxFailures = 1
INVARIANTS
  EtlInv
  ChangesPending
PROPERTIES
  DocumentsOnlyAdvance
  ImplementsRepair
  EventuallyIndexed
