SPECIFICATION FairSpec
CONSTANTS
  t1 = t1
  t2 = t2
  t3 = t3
  NoTask = NoTask
  N = 1
  C = 1
  Tasks = {t1, t2, t3}
  Wakes <- Pair
  LocalCap = 1
  LifoSlot = TRUE
  LifoMax = 3
  MayShutdown = FALSE
PROPERTY InjectorServed
