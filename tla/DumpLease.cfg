SPECIFICATION FairSpec
CONSTANTS
  Options <- LeaseOptions
  Callers <- PlainSessions
  Archives <- TwoTables
  RowsPerStatement = 1
  MaxVersion = 1
  MaxRefusals = 1
INVARIANTS TypeOK VariablesHandedBack IdleHandedBack AcquiredIsReleased
PROPERTIES ImplementsLease Settles
