\* Multi-thread scheduler: two workers and an outside thread, two wakers.
CONSTANTS
  w1 = w1
  w2 = w2
  x1 = x1
  NoThread = NoThread
  Threads = {w1, w2, x1}
  Workers = {w1, w2}
  Owner = w1
  RemoteDealloc = TRUE
  MaxWakers = 2
  MaxAborts = 1
SPECIFICATION Spec
INVARIANTS
  RefCountExact
  NoUseAfterFree
  OneClaim
  WakeNotLost
  JoinNotStranded
  OutputReclaimed
PROPERTY OutcomeStable
\* The task may end: every handle dropped, the Cell freed.
CHECK_DEADLOCK FALSE
