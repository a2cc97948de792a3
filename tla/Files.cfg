CONSTANTS
  n1 = n1
  n2 = n2
  n3 = n3
  h1 = h1
  h2 = h2
  h3 = h3
  p1 = p1
  p2 = p2
  f1 = f1
  f2 = f2
  f3 = f3
  Name <- MCName
  Handle <- MCHandle
  Exec <- MCExec
  NULL = NULL
  Sectors = 4
  BLOCK_SECTOR_SIZE = 3
  Slots = 2
  Lengths <- MCLengths
  Sizes = {2}
  Seeks <- MCSeeks
  Invalid = {}
  Byte = {1}
  MallocFails = TRUE
  BounceFails = FALSE
SPECIFICATION MCSpec
INVARIANTS DisksInOrder NoSectorLost FilesOwned
PROPERTIES ImplementsStore  LockServed
CHECK_DEADLOCK FALSE
