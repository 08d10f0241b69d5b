CONSTANTS
  NodeCount = 2
  DataSize = 1
  V4Bits = 1
  V6Bits = 3
  Threads = {t1}
  Trees <- EveryTree
  Versions = {4, 6}
  Requests <- AllRequests
SPECIFICATION FairSpec
INVARIANTS ReadsInside OrderedLookupsRight NetmaskOfSubnet MappedLookedUpAsV6
PROPERTIES LookupsEnd ImplementsAtomic
