CONSTANTS
  p1 = p1
  p2 = p2
  code = code
  stack = stack
  stack2 = stack2
  v0 = v0
  v1 = v1
  Proc <- MCTwo
  FilePage <- MCFile
  StackPage <- MCStack
  First = stack
  TOTAL_PAGES = 2
  CLOCK_START = 0
  SWAP_SLOTS = 2
  Val <- MCVal
  FileVal = v0
  NULL = NULL
  MAX_DRIFT = 2
  Alone = FALSE
  Failures = FALSE
SPECIFICATION Spec
CHECK_DEADLOCK FALSE
INVARIANTS
  NullAtInstall
