\* Three submitters, two pool threads at most, keep-alive timeouts and a shutdown;
\* a current-thread runtime with two tasks and a remote thread; one takeover.
CONSTANTS
  Jobs = {"a", "b", "c"}
  MaxThreads = 2
  MaxSpawns = 3
  Expires = TRUE
  Tasks = {"a", "b"}
  Remotes = {"r"}
  Interval = 3
  Handed = {"a", "b"}
  Peers = {"p"}
  Taker = "t"
SPECIFICATION SumSpec
INVARIANTS
  PoolSound
  CurrentThreadSound
  TakeoverSound
PROPERTIES
  JobEndsOnce
  ShutdownEnds
  QueuedRuns
\* The jobs of a behaviour are bounded, and a shut-down runtime stays so.
CHECK_DEADLOCK FALSE
