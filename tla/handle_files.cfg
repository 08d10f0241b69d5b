CONSTANTS
  Handles = {h1, h2}
  Addresses = {m1, m2}
  Files <- EveryFileAndGood
  NoAddress = NoAddress
  NoOwner = NoOwner
  CloseTwice = FALSE
SPECIFICATION FairSpec
CHECK_DEADLOCK FALSE
INVARIANTS TypeOK CountsCoverCopies FailedOpenLeavesLists OpenCloseBalanced OpenHandleUsable
PROPERTIES KeepsForeignMaps OpenReturns
