\* Current-thread scheduler: which thread destroys the future.
CONSTANTS
  w1 = w1
  w2 = w2
  x1 = x1
  NoThread = NoThread
  Threads = {w1, x1}
  Workers = {w1}
  Owner = w1
  RemoteDealloc = FALSE
  MaxWakers = 1
  MaxAborts = 1
SPECIFICATION Spec
INVARIANT FutureDroppedByOwner
\* The task may end: every handle dropped, the Cell freed.
CHECK_DEADLOCK FALSE
