SPECIFICATION Spec
CONSTANTS
  Name <- FiveNames
  Lower <- LowerCase
  DatabaseName = 0
  Servers <- PlainServer
  Catalogs <- OneView
  Creations <- NoCreations
  Selections <- SelectAll
  Options <- WithoutDrop
  MaxDdl = 0
INVARIANT RestoresOnEmptyServer
CHECK_DEADLOCK FALSE
