SPECIFICATION FairSpec
CONSTANTS
  Options <- SomeExports
  TupleLengths <- SomeTuples
  PrefixLength = 24
  MaxRows = 4
  SinkHighWaterMark = 1500
INVARIANTS TypeOK StatementsFit EveryRowOnce NothingHalfWritten BufferBounded
PROPERTIES CancelSettles Settles
CHECK_DEADLOCK FALSE
