\* One channel, set of futures or queue of values at a time, two to three actors each, or
\* three tasks with requests of one and two permits on a Semaphore of two.
CONSTANTS
  Ops = {"a", "b", "c"}
  Cap = 2
  MaxSenders = 2
  Watchers = {"a", "b"}
  Receivers = {"a", "b"}
  Senders = {"a", "b"}
  MaxVersion = 3
  Capacity = 2
  MaxSends = 4
  MaxTxs = 2
  Members = {"a", "b", "c"}
  Coop = {"a", "b"}
  Budget = 1
  Keys = {"a", "b", "c"}
  Tasks = {"a", "b", "c"}
  Initial = 2
  Requests = {1, 2}
  MaxAdded = 1
  MaxForgets = 1
  UsizeMax = 9
SPECIFICATION SumSpec
INVARIANTS
  MpscSound
  OneshotSound
  ChangeReachesAll
  BroadcastSound
  UnorderedSound
  DelayQueueSound
  PermitsAccounted
PROPERTY Fifo
\* Channels close, and their values are bounded.
CHECK_DEADLOCK FALSE
