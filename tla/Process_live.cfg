CONSTANTS
  a1 = a1
  b1 = b1
  c1 = c1
  m1 = m1
  Page <- MCPage3
  Main = m1
  NULL = NULL
  MaxTid = 4
  ExitStatus <- MCStatus
  PagesRunOut = FALSE
  LoadsFail = TRUE
  Killed = TRUE
  Orphans = FALSE
SPECIFICATION FairSpec
CHECK_DEADLOCK FALSE
PROPERTIES
  WaitReturns
