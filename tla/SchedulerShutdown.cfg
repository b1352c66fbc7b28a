SPECIFICATION FairSpec
CONSTANTS
  t1 = t1
  t2 = t2
  t3 = t3
  NoTask = NoTask
  N = 1
  C = 1
  Tasks = {t1, t2}
  Wakes <- Chain
  LocalCap = 1
  LifoSlot = FALSE
  LifoMax = 1
  MayShutdown = TRUE
PROPERTY ShutdownJoins
CHECK_DEADLOCK FALSE
