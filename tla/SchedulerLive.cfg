SPECIFICATION FairSpec
CONSTANTS
  t1 = t1
  t2 = t2
  t3 = t3
  NoTask = NoTask
  N = 2
  C = 1
  Tasks = {t1}
  Wakes <- NoWakes
  LocalCap = 1
  LifoSlot = TRUE
  LifoMax = 1
  MayShutdown = FALSE
PROPERTY NotifiedRuns
