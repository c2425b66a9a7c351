SPECIFICATION FairSpec
CONSTANTS
  Scripts <- LockScripts
  Options <- AllOptions
  Leftovers = {"null"}
  MaxRefusals = 2
INVARIANTS
  LocksHandedBack
  SilentAfterRelease
  ExecutedMatchesServer
PROPERTIES
  ImplementsLease
  Settles
