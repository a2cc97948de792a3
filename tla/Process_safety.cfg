CONSTANTS
  a1 = a1
  b1 = b1
  c1 = c1
  m1 = m1
  Page <- MCPage4
  Main = m1
  NULL = NULL
  MaxTid = 4
  ExitStatus <- MCStatus
  PagesRunOut = TRUE
  LoadsFail = TRUE
  Killed = FALSE
  Orphans = TRUE
SPECIFICATION Spec
CHECK_DEADLOCK FALSE
SYMMETRY MCSymmetry
INVARIANTS
  KidsAreLive
  StatusDelivered
