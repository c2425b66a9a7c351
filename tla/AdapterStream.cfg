SPECIFICATION FairSpec
CONSTANTS
  BatchSizes <- SomeBatchSizes
  MaxRows = 5
  MaxRequests = 2
INVARIANTS TypeOK QueueBounded FreeIsReady
PROPERTIES ImplementsRowSource Settles
CHECK_DEADLOCK FALSE
