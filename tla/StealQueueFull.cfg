\* A queue of two slots: it fills, overflows, wraps its indices, and both slots may be claimed.
CONSTANTS
  w1 = w1
  t1 = t1
  t2 = t2
  Owner = w1
  Thieves = {t1, t2}
  Cap = 2
  IndexMod = 8
  Start = 6
  Rooms = {0, 2}
  MaxItems = 4
  MaxQueued = 2
SPECIFICATION FairSpec
INVARIANTS
  TakenOnce
  Conserved
PROPERTIES
  CallsEnd
\* The pushes of a behaviour are bounded.
CHECK_DEADLOCK FALSE
