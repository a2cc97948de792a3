CONSTANTS
  Reader = {t1}
  Writer = {t2}
  HandlerPuts = TRUE
  HandlerGets = TRUE
  Byte = {b1, b2}
  NULL = NULL
  INTQ_BUFSIZE = 4
  Boot = boot
  Sec = {1}
  Value = {1, 2}
  MaxRequests = 1
  MaxFaults = 2
  Line = 2
  Capacity = 1
  MaxExtra = 1
  MaxKeys = 2
SPECIFICATION MCSpec
CHECK_DEADLOCK FALSE
INVARIANTS SleepsOnlyWhileItMust OutputWhole SectorsKept
PROPERTIES ImplementsBoundedQueue SleepersWake ConsoleLive RequestsEnd
