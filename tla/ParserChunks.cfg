SPECIFICATION Spec
CONSTANTS
  MaxCommandLength = 3
  MaxDelimiterLength = 4
  MaxStatementBytes = 8
  Inputs <- AllInputs
INVARIANTS TypeOK MemoryBounded SplitsAsWhole
PROPERTY ImplementsWholeScan
