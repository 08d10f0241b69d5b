CONSTANTS
  Databases <- Files
  Answer <- FileAnswer
  Loads <- FileLoads
  Lookups <- AllLookups
  NoDatabase = NoDatabase
  NotRequested = NotRequested
  MaxMapped = 1
SPECIFICATION Spec
INVARIANTS ReadsPopulatedMember
