SPECIFICATION Spec
CONSTANTS
  NULL = NULL
  Byte = {b1, b2}
  INTQ_BUFSIZE = 3
  Reader = {t1, t2}
  Writer = {}
  HandlerPuts = TRUE
  HandlerGets = FALSE
INVARIANT NoPanic
CHECK_DEADLOCK FALSE
