SPECIFICATION Spec
CONSTANTS
  Options <- SnapshotOptions
  Callers <- AnyIsolation
  Archives <- ThreeTables
  RowsPerStatement = 1
  MaxVersion = 3
  MaxRefusals = 1
INVARIANTS OneInstant CompletedIsComplete
