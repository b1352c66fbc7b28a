\* Four queued items and one thief: a claim of two items.
CONSTANTS
  w1 = w1
  t1 = t1
  t2 = t2
  Owner = w1
  Thieves = {t1}
  Cap = 4
  IndexMod = 8
  Start = 0
  Rooms = {4}
  MaxItems = 4
  MaxQueued = 3
SPECIFICATION Spec
INVARIANT TakenOnce
\* The pushes of a behaviour are bounded.
CHECK_DEADLOCK FALSE
