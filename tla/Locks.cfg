\* Three tasks on a Mutex, on a Notify, on an RwLock, and three CancellationTokens.
CONSTANTS
  a = a
  b = b
  c = c
  Tasks = {a, b, c}
  Initial = 1
  Requests = {1}
  MaxAdded = 0
  MaxForgets = 0
  UsizeMax = 9
  Lockers = {a, b, c}
  MaxNotifies = 2
  Tokens = {a, b, c}
  Root = a
  Waits = {"wait"}
SPECIFICATION SumSpec
INVARIANTS
  Exclusive
  HeadIsBlocked
  NotifyKept
  RwLockSound
  CancellationSound
PROPERTY WaitersServed
\* Every waiter may be served or dropped and every token cancelled.
CHECK_DEADLOCK FALSE
