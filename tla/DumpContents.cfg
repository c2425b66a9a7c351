SPECIFICATION Spec
CONSTANTS
  Name <- FiveNames
  Lower <- LowerCase
  DatabaseName = 0
  Servers <- SomeServers
  Catalogs <- Shop
  Creations <- SomeCreations
  Selections <- SomeSelections
  Options <- SomeOptions
  MaxDdl = 2
INVARIANTS
  WritesWhatWasAskedFor PlansAreValid RestoresOnEmptyServer LaidOutAsMysqldump
CHECK_DEADLOCK FALSE
