\* Current-thread scheduler: the owner and a foreign thread; deallocation is deferred to the owner.
CONSTANTS
  w1 = w1
  w2 = w2
  x1 = x1
  NoThread = NoThread
  Threads = {w1, x1}
  Workers = {w1}
  Owner = w1
  RemoteDealloc = FALSE
  MaxWakers = 2
  MaxAborts = 1
SPECIFICATION FairSpec
PROPERTIES
  TaskProgress
  NoLeak
  KeepsPromise
\* The task may end: every handle dropped, the Cell freed.
CHECK_DEADLOCK FALSE
