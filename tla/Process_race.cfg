CONSTANTS
  a1 = a1
  b1 = b1
  c1 = c1
  m1 = m1
  Page <- MCPage3
  Main = m1
  NULL = NULL
  MaxTid = 3
  ExitStatus <- MCStatus
  PagesRunOut = FALSE
  LoadsFail = FALSE
  Killed = FALSE
  Orphans = FALSE
SPECIFICATION FairSpec
CHECK_DEADLOCK FALSE
PROPERTIES
  ExecReturns
