SPECIFICATION Spec
CONSTANTS
  Scripts <- GuardedScripts
  Options <- GuardedOptions
  Leftovers = {"stale"}
  MaxRefusals = 1
INVARIANTS
  TypeOK
  VariablesHandedBack
  EveryStatementCountedOnce
  TransactionHandedBack
  AllOrNothing
PROPERTY
  NothingRunsAfterFailure
