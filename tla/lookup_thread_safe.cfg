CONSTANTS
  NodeCount = 4
  DataSize = 3
  V4Bits = 2
  V6Bits = 4
  Threads = {t1, t2}
  Trees <- ThreadTrees
  Versions = {4, 6}
  Requests <- ThreadRequests
SPECIFICATION Spec
INVARIANTS ThreadSafe
