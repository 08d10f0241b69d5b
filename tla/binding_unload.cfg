CONSTANTS
  Databases <- Files
  Answer <- FileAnswer
  Loads <- FileLoads
  Lookups <- OneLookup
  NoDatabase = NoDatabase
  NotRequested = NotRequested
  MaxMapped = 2
SPECIFICATION Spec
INVARIANTS UnloadFreesMemory
