CONSTANTS
  main = main
  t1 = t1
  t2 = t2
  t3 = t3
  s1 = s1
  l1 = l1
  c1 = c1
  idle_started = idle_started
  tid_lock = tid_lock
  NULL = NULL
  Thread <- FourPages
  Main = main
  Sema = {s1}
  IrqSema = {s1}
  IdleStarted = idle_started
  Lock = {tid_lock, l1}
  TidLock = tid_lock
  Cond = {c1}
  CondLock <- OneCondLock
  TIME_SLICE = 2
  MaxValue = 2
  MaxTid = 5
SPECIFICATION MCSpec
INVARIANTS ElemOnOneList NoThreadLost NoLostWakeup MutualExclusion SignalNotLost
PROPERTIES ImplementsMonitor ReadyRuns WaitersServed
