\* Two tasks on one descriptor whose slab index is registered twice; two io_uring
\* requests on a submission queue of two entries; two timers on a wheel of two levels
\* with two slots.
CONSTANTS
  Users = {"a", "b"}
  Uses <- MCUses
  GenBits = 2
  MaxGen = 2
  Futs = {"a", "b"}
  Classes <- MCClasses
  Entries = 2
  MaxShots = 1
SPECIFICATION SumSpec
INVARIANTS
  ReadinessSound
  UringSound
  TimerSound
\* The scenarios are bounded, and a dropped ring stays so.
CHECK_DEADLOCK FALSE
