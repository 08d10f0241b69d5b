CONSTANTS
  Handles = {h1, h2}
  Addresses = {m1, m2}
  Files <- FewEach
  NoAddress = NoAddress
  NoOwner = NoOwner
  CloseTwice = TRUE
SPECIFICATION Spec
CHECK_DEADLOCK FALSE
PROPERTIES CloseTwiceIsSafe
