CONSTANTS
  Inputs <- AllInputs
  Answer <- Answers
  Number <- Numbers
  IntModulus = 16
  MaxNodes = 12
  MaxCalls = 11
  NoIp = NoIp
  NoEntry = NoEntry
SPECIFICATION Spec
INVARIANTS TypeOK ValueAtPath ListIsPreorder NoNodeLost PrintedIsValue ReturnsEverything ExitCodeTells
PROPERTIES ProgramEnds
