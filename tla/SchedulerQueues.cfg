SPECIFICATION Spec
CONSTANTS
  t1 = t1
  t2 = t2
  t3 = t3
  NoTask = NoTask
  N = 2
  C = 1
  Tasks = {t1, t2}
  Wakes <- Chain
  LocalCap = 1
  LifoSlot = TRUE
  LifoMax = 1
  MayShutdown = FALSE
INVARIANT OneEntry
INVARIANT Attended
