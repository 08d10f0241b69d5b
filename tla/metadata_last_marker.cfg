CONSTANTS
  Files <- AllFiles
  MarkerLength = 3
  MaxBlock = 20
  Separator = 16
  Wrap = 1073741824
  ShortWrap = 64
  NodeNumbers = {0, 1, 2, 3, 4, 5, 40}
  Offsets <- AllOffsets
SPECIFICATION Spec
CHECK_DEADLOCK FALSE
INVARIANTS LastMarkerCounts
