SPECIFICATION Spec
CONSTANTS
  Name <- FiveNames
  Lower <- LowerCase
  DatabaseName = 0
  Servers <- PlainServer
  Catalogs <- Twins
  Creations <- NoCreations
  Selections <- SelectAll
  Options <- JustDefaults
  MaxDdl = 0
INVARIANT WritesWhatWasAskedFor
CHECK_DEADLOCK FALSE
