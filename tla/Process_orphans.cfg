CONSTANTS
  a1 = a1
  b1 = b1
  c1 = c1
  m1 = m1
  Page <- MCPage4
  Main = m1
  NULL = NULL
  MaxTid = 4
  ExitStatus <- MCStatus
  PagesRunOut = FALSE
  LoadsFail = FALSE
  Killed = FALSE
  Orphans = TRUE
SPECIFICATION FairSpec
CHECK_DEADLOCK FALSE
PROPERTIES
  ChildrenLetGo
