\* Two threads allowed, and closures that need not return.
CONSTANTS
  Jobs = {"a", "b", "c"}
  MaxThreads = 2
  MaxSpawns = 2
  Expires = FALSE
SPECIFICATION LongJobsSpec
PROPERTY ThreadForJob
\* The jobs of a behaviour are bounded, and a shut-down pool stays so.
CHECK_DEADLOCK FALSE
