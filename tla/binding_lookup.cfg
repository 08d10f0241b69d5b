CONSTANTS
  Databases <- Files
  Answer <- FileAnswer
  Loads <- FileLoads
  Lookups <- AllLookups
  NoDatabase = NoDatabase
  NotRequested = NotRequested
  MaxMapped = 2
SPECIFICATION Spec
INVARIANTS TypeOK EntryOfOwnDatabase LookupAsSpecified LoadedOnceIsFreed
