SPECIFICATION Spec
CONSTANTS
  Scripts <- NativeTableScripts
  Options <- JustDefaults
  Leftovers = {"null"}
  MaxRefusals = 1
INVARIANT LocksHandedBack
