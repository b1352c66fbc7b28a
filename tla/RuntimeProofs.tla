---------------------------- MODULE RuntimeProofs ---------------------------
(***************************************************************************)
(* The threads of a runtime beside the multi-thread scheduler: the blocking  *)
(* pool, block_in_place's hand-over and the current-thread scheduler, for    *)
(* every number of jobs, threads and tasks.                                  *)
(***************************************************************************)
EXTENDS Runtimes, WaitQueueProofs

-----------------------------------------------------------------------------
(* The blocking pool (blocking.rs).  PoolSound is not inductive.  The cap holds because *)
(* num counts the threads that exist and those a submitter is about to start.  That     *)
(* nobody sleeps beside work takes a count: while anybody waits, the queue is no longer *)
(* than the threads on their way to it and the notifications still to come.             *)

Present == {"loop", "running", "waiting", "notified", "timedOut", "leaving"}
Resting == {"waiting", "notified", "timedOut"}
Coming  == {"loop", "notified", "timedOut"}
Starts   == {"notifySpawn", "spawn"}
Notifies == {"notify", "notifySpawn"}

ThreadCount(P) == Cardinality(StandAt(Threads, thread, P))
SubmitCount(P) == Cardinality(StandAt(Jobs, submit, P))

PoolTypes ==
  /\ queue \in Seq(Jobs) /\ idle \in Nat /\ num \in Nat /\ closed \in BOOLEAN
  /\ handles \subseteq Threads /\ joining \subseteq Threads /\ spawned \in 0 .. MaxSpawns
  /\ job \in [Jobs -> {"new", "queued", "running", "done", "cancelled"}]
  /\ submit \in [Jobs -> {"todo", "notify", "notifySpawn", "spawn", "store", "done"}]
  /\ thread \in [Threads -> Present \cup {"unborn", "ended"}]
  /\ current \in [Threads -> Jobs \cup {NoJob}]
  /\ started \in [Jobs -> 0 .. MaxSpawns]
  /\ shutter \in {"todo", "take", "notifyAll", "takeHandles", "join", "done"}

(* The counters, and which threads were started. *)
Counted ==
  /\ num = ThreadCount(Present) + SubmitCount(Starts) /\ num <= MaxThreads
  /\ idle = ThreadCount(Resting)
  /\ spawned + SubmitCount(Starts) <= MaxSpawns
  /\ \A t \in Threads : thread[t] = "unborn" <=> t > spawned
  /\ \A j \in Jobs : submit[j] = "store" => started[j] \in Threads

(* Where each job is. *)
Placed ==
  /\ Distinct(queue) /\ \A j \in Jobs : Occurs(queue, j) <=> job[j] = "queued"
  /\ \A j \in Jobs : job[j] = "running" <=> \E t \in Threads : current[t] = j
  /\ \A t \in Threads : thread[t] = "running" <=> current[t] # NoJob
  /\ \A t, u \in Threads : current[t] # NoJob /\ current[t] = current[u] => t = u
  /\ \A j \in Jobs : job[j] = "new" <=> submit[j] = "todo"

Closes ==
  /\ closed <=> shutter # "todo"
  /\ shutter \notin {"todo", "take"} => queue = <<>>

(* The count behind NoSleepBesideWork. *)
Served == ThreadCount({"waiting"}) > 0 => Len(queue) <= ThreadCount(Coming) + SubmitCount(Notifies)

PoolInv == PoolTypes /\ Counted /\ Placed /\ Closes /\ Served

-----------------------------------------------------------------------------
LEMMA ThreadsFinite == IsFiniteSet(Threads) /\ IsFiniteSet(Jobs) /\ NoJob \notin Jobs
  BY CapPositive, JobsFinite, FS_Interval DEF Threads, NoJob

LEMMA PoolTypesStep == PoolInv /\ [Next]_vars => PoolTypes'
<1> SUFFICES ASSUME PoolTypes, Placed, Counted, [Next]_vars PROVE PoolTypes'
  BY DEF PoolInv
<1> USE DEF PoolTypes
<1>1. CASE UNCHANGED vars
  BY <1>1 DEF vars, pool
<1>2. CASE CloseFlag
  BY <1>2 DEF CloseFlag
<1>3. CASE ShutdownStep
  <2>1. CASE TakeQueued
    <3>1. <<>> \in Seq(Jobs)
      OBVIOUS
    <3> QED BY <2>1, <3>1 DEF TakeQueued, Drains
  <2>2. CASE NotifyAll
    BY <2>2 DEF NotifyAll, pool, Present
  <2>3. CASE TakeHandles
    BY <2>3 DEF TakeHandles, pool
  <2>4. CASE JoinThreads
    BY <2>4 DEF JoinThreads, pool
  <2> QED BY <1>3, <2>1, <2>2, <2>3, <2>4 DEF ShutdownStep
<1>4. ASSUME NEW j \in Jobs, Submit(j) PROVE PoolTypes'
  <2>1. CASE Refuses
    BY <1>4, <2>1 DEF Submit
  <2>2. CASE ~Refuses
    <3>1. Append(queue, j) \in Seq(Jobs) /\ num + 1 \in Nat
      OBVIOUS
    <3>2. /\ queue' = Append(queue, j) /\ (num' = num + 1 \/ num' = num)
          /\ job' = [job EXCEPT ![j] = "queued"]
          /\ \E p \in {"notify", "notifySpawn"} : submit' = [submit EXCEPT ![j] = p]
      BY <1>4, <2>2 DEF Submit
    <3> QED BY <1>4, <3>1, <3>2 DEF Submit
  <2> QED BY <2>1, <2>2
<1>5. ASSUME NEW j \in Jobs, NotifyOne(j) PROVE PoolTypes'
  BY <1>5 DEF NotifyOne, pool, Present
<1>6. ASSUME NEW j \in Jobs, SpawnThread(j) PROVE PoolTypes'
  <2>1. spawned + 1 <= MaxSpawns
    <3>1. SubmitCount(Starts) > 0
      BY <1>6, ThreadsFinite, SomeStand DEF SpawnThread, SubmitCount, Starts
    <3>2. SubmitCount(Starts) \in Nat
      BY ThreadsFinite, SomeStand DEF SubmitCount
    <3> QED BY <3>1, <3>2, CapPositive DEF Counted
  <2>2. spawned + 1 \in 0 .. MaxSpawns /\ spawned + 1 \in Threads
    BY <2>1, CapPositive DEF Threads
  <2> QED BY <1>6, <2>2 DEF SpawnThread, pool, Present
<1>7. ASSUME NEW j \in Jobs, StoreHandle(j) PROVE PoolTypes'
  BY <1>7 DEF StoreHandle, pool, Counted
<1>8. ASSUME NEW t \in Threads, TakeJob(t) PROVE PoolTypes'
  <2>1. Tail(queue) \in Seq(Jobs) /\ Head(queue) \in Jobs
    BY <1>8 DEF TakeJob
  <2> QED BY <1>8, <2>1 DEF TakeJob, Present
<1>9. ASSUME NEW t \in Threads, FinishJob(t) PROVE PoolTypes'
  BY <1>9 DEF FinishJob, pool, Present
<1>10. ASSUME NEW t \in Threads, FindEmpty(t) PROVE PoolTypes'
  BY <1>10 DEF FindEmpty, Present
<1>11. ASSUME NEW t \in Threads, NEW how \in {"timedOut", "notified"}, EndWait(t, how) PROVE PoolTypes'
  BY <1>11 DEF EndWait, pool, Present
<1>12. ASSUME NEW t \in Threads, Resume(t) PROVE PoolTypes'
  <2>1. idle - 1 \in Nat
    <3>1. ThreadCount(Resting) > 0 /\ ThreadCount(Resting) \in Nat
      BY <1>12, ThreadsFinite, SomeStand DEF Resume, ThreadCount, Resting
    <3> QED BY <3>1 DEF Counted
  <2> QED BY <1>12, <2>1 DEF Resume, IdleLess, Present
<1>13. ASSUME NEW t \in Threads, Retire(t) PROVE PoolTypes'
  <2>1. num - 1 \in Nat
    <3>1. ThreadCount(Present) > 0 /\ ThreadCount(Present) \in Nat
      BY <1>13, ThreadsFinite, SomeStand DEF Retire, ThreadCount, Present
    <3>2. SubmitCount(Starts) \in Nat
      BY ThreadsFinite, SomeStand DEF SubmitCount
    <3> QED BY <3>1, <3>2 DEF Counted
  <2> QED BY <1>13, <2>1 DEF Retire, Present
<1> QED BY <1>1, <1>2, <1>3, <1>4, <1>5, <1>6, <1>7, <1>8, <1>9, <1>10, <1>11, <1>12, <1>13
        DEF Next, SubmitStep, ThreadStep, Timeout
-----------------------------------------------------------------------------
(* How one thread's or one submitter's move changes the counts. *)
LEMMA ThreadMoves ==
  ASSUME PoolTypes, NEW t \in Threads, NEW p, thread' = [thread EXCEPT ![t] = p], NEW P
  PROVE  /\ ThreadCount(P) \in Nat
         /\ Cardinality(StandAt(Threads, thread', P)) = ThreadCount(P) - Is(thread[t], P) + Is(p, P)
<1>1. thread = [u \in Threads |-> thread[u]]
  BY DEF PoolTypes
<1> QED BY <1>1, ThreadsFinite, OneMoves DEF ThreadCount

LEMMA SubmitMoves ==
  ASSUME PoolTypes, NEW j \in Jobs, NEW p, submit' = [submit EXCEPT ![j] = p], NEW P
  PROVE  /\ SubmitCount(P) \in Nat
         /\ Cardinality(StandAt(Jobs, submit', P)) = SubmitCount(P) - Is(submit[j], P) + Is(p, P)
<1>1. submit = [k \in Jobs |-> submit[k]]
  BY DEF PoolTypes
<1> QED BY <1>1, ThreadsFinite, OneMoves DEF SubmitCount

LEMMA CountsAreNat ==
  \A P : ThreadCount(P) \in Nat /\ SubmitCount(P) \in Nat
  BY ThreadsFinite, SomeStand DEF ThreadCount, SubmitCount

(* The six counts the invariant uses, before and after. *)
ThreadsAre(p, r, c, w) ==
  /\ Cardinality(StandAt(Threads, thread', Present)) = ThreadCount(Present) + p /\ Cardinality(StandAt(Threads, thread', Resting)) = ThreadCount(Resting) + r
  /\ Cardinality(StandAt(Threads, thread', Coming)) = ThreadCount(Coming) + c
  /\ Cardinality(StandAt(Threads, thread', {"waiting"})) = ThreadCount({"waiting"}) + w
SubmittersAre(s, n) ==
  Cardinality(StandAt(Jobs, submit', Starts)) = SubmitCount(Starts) + s /\ Cardinality(StandAt(Jobs, submit', Notifies)) = SubmitCount(Notifies) + n

(* What each move of the code is worth. *)
SubmitWorth(from, p, s, n) ==
  s = Is(p, Starts) - Is(from, Starts) /\ n = Is(p, Notifies) - Is(from, Notifies)
ThreadWorth(from, p, n, r, c, w) ==
  /\ n = Is(p, Present) - Is(from, Present) /\ r = Is(p, Resting) - Is(from, Resting)
  /\ c = Is(p, Coming) - Is(from, Coming) /\ w = Is(p, {"waiting"}) - Is(from, {"waiting"})

LEMMA Worths ==
  /\ SubmitWorth("todo", "done", 0, 0) /\ SubmitWorth("todo", "notify", 0, 1)
  /\ SubmitWorth("todo", "notifySpawn", 1, 1) /\ SubmitWorth("notify", "done", 0, -1)
  /\ SubmitWorth("notifySpawn", "spawn", 0, -1) /\ SubmitWorth("spawn", "store", -1, 0)
  /\ SubmitWorth("store", "done", 0, 0) /\ ThreadWorth("waiting", "notified", 0, 0, 1, -1)
  /\ ThreadWorth("waiting", "timedOut", 0, 0, 1, -1) /\ ThreadWorth("unborn", "loop", 1, 0, 1, 0)
  /\ ThreadWorth("loop", "running", 0, 0, -1, 0) /\ ThreadWorth("running", "loop", 0, 0, 1, 0)
  /\ ThreadWorth("loop", "leaving", 0, 0, -1, 0) /\ ThreadWorth("loop", "waiting", 0, 1, -1, 1)
  /\ ThreadWorth("notified", "loop", 0, -1, 0, 0) /\ ThreadWorth("timedOut", "loop", 0, -1, 0, 0)
  /\ ThreadWorth("timedOut", "leaving", 0, -1, -1, 0) /\ ThreadWorth("leaving", "ended", -1, 0, 0, 0)
  BY DEF SubmitWorth, ThreadWorth, Is, Present, Resting, Coming, Starts, Notifies

LEMMA ThreadMove ==
  ASSUME PoolTypes, NEW t \in Threads, NEW p, thread' = [thread EXCEPT ![t] = p], NEW from, from = thread[t],
         NEW n, NEW r, NEW c, NEW w,
         ThreadWorth(from, p, n, r, c, w)
  PROVE  ThreadsAre(n, r, c, w)
<1>1. \A P : /\ ThreadCount(P) \in Nat
             /\ Cardinality(StandAt(Threads, thread', P)) = ThreadCount(P) - Is(thread[t], P) + Is(p, P)
  BY ThreadMoves
<1>2. \A P : Is(p, P) \in Int /\ Is(thread[t], P) \in Int
  BY DEF Is
<1>3. \A P : Cardinality(StandAt(Threads, thread', P)) = ThreadCount(P) + (Is(p, P) - Is(thread[t], P))
  <2> TAKE P
  <2> DEFINE x == Cardinality(StandAt(Threads, thread', P))
             y == ThreadCount(P)
             u == Is(p, P)
             v == Is(thread[t], P)
  <2>1. y \in Nat /\ x = y - v + u /\ u \in Int /\ v \in Int
    BY <1>1, <1>2
  <2> HIDE DEF x, y, u, v
  <2>2. x = y + (u - v)
    BY <2>1
  <2> QED BY <2>2 DEF x, y, u, v
<1> QED BY <1>3 DEF ThreadsAre, ThreadCount, ThreadWorth

LEMMA SubmitMove ==
  ASSUME PoolTypes, NEW j \in Jobs, NEW p, submit' = [submit EXCEPT ![j] = p], NEW from, from = submit[j],
         NEW s, NEW n, SubmitWorth(from, p, s, n)
  PROVE  SubmittersAre(s, n)
<1>1. \A P : /\ SubmitCount(P) \in Nat
             /\ Cardinality(StandAt(Jobs, submit', P)) = SubmitCount(P) - Is(submit[j], P) + Is(p, P)
  BY SubmitMoves
<1>2. \A P : Is(p, P) \in Int /\ Is(submit[j], P) \in Int
  BY DEF Is
<1>3. \A P : Cardinality(StandAt(Jobs, submit', P)) = SubmitCount(P) + (Is(p, P) - Is(submit[j], P))
  <2> TAKE P
  <2> DEFINE x == Cardinality(StandAt(Jobs, submit', P))
             y == SubmitCount(P)
             u == Is(p, P)
             v == Is(submit[j], P)
  <2>1. y \in Nat /\ x = y - v + u /\ u \in Int /\ v \in Int
    BY <1>1, <1>2
  <2> HIDE DEF x, y, u, v
  <2>2. x = y + (u - v)
    BY <2>1
  <2> QED BY <2>2 DEF x, y, u, v
<1> QED BY <1>3 DEF SubmittersAre, SubmitCount, SubmitWorth

LEMMA NoThreadMoves == ASSUME thread' = thread PROVE ThreadsAre(0, 0, 0, 0)
  BY CountsAreNat DEF ThreadsAre, ThreadCount

LEMMA NoSubmitterMoves == ASSUME submit' = submit PROVE SubmittersAre(0, 0)
  BY CountsAreNat DEF SubmittersAre, SubmitCount, Starts, Notifies

(* The counters keep up with the moves. *)
LEMMA CountsFollow ==
  ASSUME PoolTypes, Counted, Served, NEW p \in Int, NEW r \in Int, NEW c \in Int, NEW w \in Int,
         NEW s \in Int, NEW n \in Int, ThreadsAre(p, r, c, w), SubmittersAre(s, n),
         num' = num + p + s, num' <= MaxThreads, idle' = idle + r, NEW x \in Int, spawned' = spawned + x,
         x + s <= 0 \/ spawned + SubmitCount(Starts) + (x + s) <= MaxSpawns,
         NEW k \in Nat, Len(queue) = k, NEW k1 \in Nat, Len(queue') = k1,
         k1 = 0 \/ (w <= 0 /\ k1 - k <= c + n) \/ Cardinality(StandAt(Threads, thread', {"waiting"})) = 0,
         \A t \in Threads : thread'[t] = "unborn" <=> t > spawned',
         \A j \in Jobs : submit'[j] = "store" => started'[j] \in Threads
  PROVE  Counted' /\ Served'
<1> DEFINE a == ThreadCount(Present)
           b == ThreadCount(Resting)
           d == ThreadCount(Coming)
           e == ThreadCount({"waiting"})
           f == SubmitCount(Starts)
           g == SubmitCount(Notifies)
           a1 == Cardinality(StandAt(Threads, thread', Present))
           b1 == Cardinality(StandAt(Threads, thread', Resting))
           d1 == Cardinality(StandAt(Threads, thread', Coming))
           e1 == Cardinality(StandAt(Threads, thread', {"waiting"}))
           f1 == Cardinality(StandAt(Jobs, submit', Starts))
           g1 == Cardinality(StandAt(Jobs, submit', Notifies))
<1>1. /\ a \in Nat /\ b \in Nat /\ d \in Nat /\ e \in Nat /\ f \in Nat /\ g \in Nat
      /\ a1 \in Nat /\ b1 \in Nat /\ d1 \in Nat /\ e1 \in Nat /\ f1 \in Nat /\ g1 \in Nat
  <2>1. a \in Nat /\ b \in Nat /\ d \in Nat /\ e \in Nat /\ f \in Nat /\ g \in Nat
    BY CountsAreNat
  <2>2. /\ \A P : Cardinality(StandAt(Threads, thread', P)) \in Nat
        /\ \A P : Cardinality(StandAt(Jobs, submit', P)) \in Nat
    BY ThreadsFinite, SomeStand
  <2>3. a1 \in Nat /\ b1 \in Nat /\ d1 \in Nat /\ e1 \in Nat /\ f1 \in Nat /\ g1 \in Nat
    BY <2>2 DEF ThreadCount, SubmitCount, Present, Resting, Coming, Starts, Notifies
  <2> QED BY <2>1, <2>3
<1>2. /\ a1 = a + p /\ b1 = b + r /\ d1 = d + c /\ e1 = e + w /\ f1 = f + s /\ g1 = g + n
  BY DEF ThreadsAre, SubmittersAre
<1>3. /\ num = a + f /\ idle = b /\ spawned + f <= MaxSpawns /\ (e > 0 => k <= d + g)
      /\ spawned \in Int /\ MaxSpawns \in Int /\ num \in Nat /\ idle \in Nat
  BY CapPositive DEF Counted, Served, PoolTypes
<1>3a. x + s <= 0 \/ spawned + f + (x + s) <= MaxSpawns
  OBVIOUS
<1> HIDE DEF a, b, d, e, f, g, a1, b1, d1, e1, f1, g1
<1>4. num' = a1 + f1 /\ idle' = b1
  <2>1. num + p + s = a1 + f1
    BY <1>1, <1>2, <1>3
  <2> QED BY <1>2, <1>3, <2>1
<1>5. spawned' + f1 <= MaxSpawns
  <2>1. (spawned + x) + f1 <= MaxSpawns
    BY <1>1, <1>2, <1>3, <1>3a
  <2> QED BY <2>1
<1>6. e1 > 0 => k1 <= d1 + g1
  <2>1. CASE k1 = 0
    BY <1>1, <2>1
  <2>2. CASE w <= 0 /\ k1 - k <= c + n
    BY <1>1, <1>2, <1>3, <2>2
  <2>3. CASE e1 = 0
    BY <2>3
  <2> QED BY <2>1, <2>2, <2>3 DEF e1
<1>7. Counted'
  BY <1>4, <1>5 DEF Counted, ThreadCount, SubmitCount, a1, b1, f1
<1>8. Served'
  BY <1>6 DEF Served, ThreadCount, SubmitCount, d1, e1, g1
<1> QED BY <1>7, <1>8
(* One thread moves, and at most retires, while the queue changes as it says. *)
ThreadGoes(t, p, n, r, c, w) ==
  /\ t \in Threads /\ thread' = [thread EXCEPT ![t] = p] /\ thread[t] # "unborn" /\ p # "unborn"
  /\ ThreadWorth(thread[t], p, n, r, c, w)
  /\ num' = num + n /\ n <= 0 /\ idle' = idle + r /\ UNCHANGED <<submit, started, spawned>>
  /\ \/ Len(queue') = 0
     \/ w <= 0 /\ Len(queue') \in Nat /\ Len(queue') - Len(queue) <= c

LEMMA ThreadCounted ==
  ASSUME PoolInv, NEW t, NEW p, NEW n \in Int, NEW r \in Int, NEW c \in Int, NEW w \in Int,
         ThreadGoes(t, p, n, r, c, w)
  PROVE  Counted' /\ Served'
<1> DEFINE Same == /\ \A u \in Threads : thread'[u] = "unborn" <=> u > spawned'
                   /\ \A j \in Jobs : submit'[j] = "store" => started'[j] \in Threads
<1>1. /\ PoolTypes /\ Counted /\ Served /\ num \in Nat /\ idle \in Nat /\ spawned \in Nat
      /\ queue \in Seq(Jobs) /\ Len(queue) \in Nat /\ num <= MaxThreads /\ MaxThreads \in Nat
      /\ thread = [u \in Threads |-> thread[u]]
      /\ \A u \in Threads : thread[u] = "unborn" <=> u > spawned
      /\ \A j \in Jobs : submit[j] = "store" => started[j] \in Threads
  BY CapPositive DEF PoolInv, PoolTypes, Counted
<1>2. /\ t \in Threads /\ thread' = [thread EXCEPT ![t] = p] /\ thread[t] # "unborn" /\ p # "unborn"
      /\ ThreadWorth(thread[t], p, n, r, c, w)
      /\ num' = num + n /\ n <= 0 /\ idle' = idle + r /\ submit' = submit /\ started' = started
      /\ spawned' = spawned
      /\ \/ Len(queue') = 0
         \/ w <= 0 /\ Len(queue') \in Nat /\ Len(queue') - Len(queue) <= c
  BY DEF ThreadGoes
<1>3. ThreadsAre(n, r, c, w)
  BY <1>1, <1>2, ThreadMove
<1>4. SubmittersAre(0, 0)
  BY <1>2, NoSubmitterMoves
<1>5. num' = num + n + 0 /\ num' <= MaxThreads /\ spawned' = spawned + 0 /\ idle' = idle + r
  BY <1>1, <1>2
<1>6. Same
  <2>1. \A u \in Threads : thread'[u] = "unborn" <=> thread[u] = "unborn"
    BY <1>1, <1>2
  <2> QED BY <1>1, <1>2, <2>1
<1>7. CASE Len(queue') = 0
  <2>1. 0 + 0 <= 0 /\ 0 \in Int /\ 0 \in Nat
    OBVIOUS
  <2> QED BY <1>1, <1>3, <1>4, <1>5, <1>6, <1>7, <2>1, CountsFollow
<1>8. CASE w <= 0 /\ Len(queue') \in Nat /\ Len(queue') - Len(queue) <= c
  <2>1. Len(queue') - Len(queue) <= c + 0
    BY <1>2, <1>8
  <2>2. 0 + 0 <= 0 /\ 0 \in Int
    OBVIOUS
  <2> QED BY <1>1, <1>3, <1>4, <1>5, <1>6, <1>8, <2>1, <2>2, CountsFollow
<1> QED BY <1>2, <1>7, <1>8

LEMMA CountedStep ==
  ASSUME PoolInv, [Next]_vars
  PROVE  Counted' /\ Served'
<1> DEFINE Same == /\ \A t \in Threads : thread'[t] = "unborn" <=> t > spawned'
                   /\ \A j \in Jobs : submit'[j] = "store" => started'[j] \in Threads
<1>1. /\ PoolTypes /\ Counted /\ Served /\ num \in Nat /\ idle \in Nat /\ spawned \in Nat
      /\ queue \in Seq(Jobs) /\ Len(queue) \in Nat /\ num <= MaxThreads /\ MaxThreads \in Nat
      /\ MaxSpawns \in Nat /\ SubmitCount(Starts) \in Nat /\ spawned + SubmitCount(Starts) <= MaxSpawns
      /\ thread \in [Threads -> Present \cup {"unborn", "ended"}]
      /\ submit \in [Jobs -> {"todo", "notify", "notifySpawn", "spawn", "store", "done"}]
      /\ started \in [Jobs -> 0 .. MaxSpawns]
      /\ \A t \in Threads : thread[t] = "unborn" <=> t > spawned
      /\ \A j \in Jobs : submit[j] = "store" => started[j] \in Threads
  BY CapPositive, CountsAreNat DEF PoolInv, PoolTypes, Counted
<1>2. CASE UNCHANGED <<num, idle, spawned, thread, submit, started>> /\ (queue' = queue \/ queue' = <<>>)
  <2>1. ThreadsAre(0, 0, 0, 0) /\ SubmittersAre(0, 0)
    BY <1>2, NoThreadMoves, NoSubmitterMoves
  <2>2. num' = num + 0 + 0 /\ num' <= MaxThreads /\ idle' = idle + 0 /\ spawned' = spawned + 0
    BY <1>1, <1>2
  <2>3. Same
    BY <1>1, <1>2
  <2>4. Len(queue') \in Nat /\ (Len(queue') = 0 \/ Len(queue') = Len(queue))
    BY <1>1, <1>2
  <2>5. CASE Len(queue') = 0
    BY <1>1, <2>1, <2>2, <2>3, <2>4, <2>5, CountsFollow
  <2>6. CASE Len(queue') = Len(queue)
    <3>1. 0 <= 0 /\ Len(queue') - Len(queue) <= 0 + 0
      BY <1>1, <2>6
    <3> QED BY <1>1, <2>1, <2>2, <2>3, <2>4, <3>1, CountsFollow
  <2> QED BY <2>4, <2>5, <2>6
<1>3. CASE NotifyAll
  <2> DEFINE z == ThreadCount(Coming)
             w == Cardinality(StandAt(Threads, thread', Coming)) - z
             e == ThreadCount({"waiting"})
  <2>1. /\ thread' = [t \in Threads |-> IF t \in Waiters THEN "notified" ELSE thread[t]]
        /\ UNCHANGED <<queue, num, idle, spawned, submit, started>>
    BY <1>3 DEF NotifyAll, pool
  <2>2. \A t \in Threads : thread'[t] = IF thread[t] = "waiting" THEN "notified" ELSE thread[t]
    BY <2>1 DEF Waiters
  <2>3. /\ StandAt(Threads, thread', Present) = StandAt(Threads, thread, Present)
        /\ StandAt(Threads, thread', Resting) = StandAt(Threads, thread, Resting)
        /\ StandAt(Threads, thread', {"waiting"}) = {}
    BY <2>2 DEF StandAt, Present, Resting
  <2>4. Cardinality(StandAt(Threads, thread', {"waiting"})) = 0
    BY <2>3, FS_EmptySet
  <2>5. z \in Nat /\ e \in Nat /\ Cardinality(StandAt(Threads, thread', Coming)) \in Nat
    <3>1. \A P : Cardinality(StandAt(Threads, thread', P)) \in Nat
      BY ThreadsFinite, SomeStand
    <3> QED BY <3>1, CountsAreNat
  <2>6. /\ w \in Int /\ Cardinality(StandAt(Threads, thread', Coming)) = z + w
        /\ -e \in Int /\ 0 = e + (-e)
    BY <2>5
  <2>7. ThreadsAre(0, 0, w, -e)
    <3>1. ThreadCount(Present) \in Nat /\ ThreadCount(Resting) \in Nat
      BY CountsAreNat
    <3> HIDE DEF w, e, z
    <3>2. /\ Cardinality(StandAt(Threads, thread', Present)) = ThreadCount(Present) + 0
          /\ Cardinality(StandAt(Threads, thread', Resting)) = ThreadCount(Resting) + 0
      BY <2>3, <3>1 DEF ThreadCount
    <3> QED BY <2>4, <2>6, <3>2 DEF ThreadsAre, z, e
  <2>8. SubmittersAre(0, 0)
    BY <2>1, NoSubmitterMoves
  <2>9. num' = num + 0 + 0 /\ num' <= MaxThreads /\ idle' = idle + 0 /\ spawned' = spawned + 0
    BY <1>1, <2>1
  <2>10. Same
    BY <1>1, <2>1, <2>2
  <2>11. Len(queue') \in Nat
    BY <1>1, <2>1
  <2> HIDE DEF w, e
  <2> QED BY <1>1, <2>4, <2>6, <2>7, <2>8, <2>9, <2>10, <2>11, CountsFollow
<1>4. ASSUME NEW j \in Jobs, Submit(j) PROVE Counted' /\ Served'
  <2>1. ThreadsAre(0, 0, 0, 0) /\ spawned' = spawned /\ idle' = idle /\ thread' = thread /\ started' = started
    BY <1>4, NoThreadMoves DEF Submit
  <2>2. idle' = idle + 0 /\ spawned' = spawned + 0
    BY <1>1, <2>1
  <2>3. CASE Refuses
    <3>1. submit' = [submit EXCEPT ![j] = "done"] /\ queue' = queue /\ num' = num /\ submit[j] = "todo"
      BY <1>4, <2>3 DEF Submit
    <3>2. SubmittersAre(0, 0)
      BY <1>1, <3>1, Worths, SubmitMove
    <3>3. num' = num + 0 + 0 /\ num' <= MaxThreads
      BY <1>1, <3>1
    <3>4. Same
      BY <1>1, <2>1, <3>1
    <3>5. Len(queue') \in Nat /\ 0 <= 0 /\ Len(queue') - Len(queue) <= 0 + 0
      BY <1>1, <3>1
    <3> QED BY <1>1, <2>1, <2>2, <3>2, <3>3, <3>4, <3>5, CountsFollow
  <2>4. CASE ~Refuses
    <3>1. queue' = Append(queue, j) /\ submit[j] = "todo"
      BY <1>4, <2>4 DEF Submit
    <3>2. Len(queue') \in Nat /\ Len(queue') = Len(queue) + 1 /\ 0 <= 0 /\ Len(queue') - Len(queue) <= 0 + 1
      BY <1>1, <3>1
    <3>3. CASE SpawnWanted
      <4>1. submit' = [submit EXCEPT ![j] = "notifySpawn"] /\ num' = num + 1
        BY <1>4, <2>4, <3>3 DEF Submit
      <4>2. SubmittersAre(1, 1)
        BY <1>1, <3>1, <4>1, Worths, SubmitMove
      <4>3. num' = num + 0 + 1 /\ num' <= MaxThreads
        BY <1>1, <3>3, <4>1 DEF SpawnWanted
      <4>4. Same
        BY <1>1, <2>1, <4>1
      <4>5. spawned + SubmitCount(Starts) + (0 + 1) <= MaxSpawns
        <5>1. spawned + Cardinality({k \in Jobs : submit[k] \in {"notifySpawn", "spawn"}}) < MaxSpawns
          BY <1>4, <2>4, <3>3 DEF Submit
        <5>2. SubmitCount(Starts) = Cardinality({k \in Jobs : submit[k] \in {"notifySpawn", "spawn"}})
          BY DEF SubmitCount, StandAt, Starts
        <5>3. spawned + SubmitCount(Starts) < MaxSpawns
          BY <5>1, <5>2
        <5> DEFINE m == SubmitCount(Starts)
        <5> HIDE DEF m
        <5> QED BY <1>1, <5>3 DEF m
      <4> QED BY <1>1, <2>1, <2>2, <3>2, <4>2, <4>3, <4>4, <4>5, CountsFollow
    <3>4. CASE ~SpawnWanted
      <4>1. submit' = [submit EXCEPT ![j] = "notify"] /\ num' = num
        BY <1>4, <2>4, <3>4 DEF Submit
      <4>2. SubmittersAre(0, 1)
        BY <1>1, <3>1, <4>1, Worths, SubmitMove
      <4>3. num' = num + 0 + 0 /\ num' <= MaxThreads
        BY <1>1, <4>1
      <4>4. Same
        BY <1>1, <2>1, <4>1
      <4> QED BY <1>1, <2>1, <2>2, <3>2, <4>2, <4>3, <4>4, CountsFollow
    <3> QED BY <3>3, <3>4
  <2> QED BY <2>3, <2>4
<1>5. ASSUME NEW j \in Jobs, NotifyOne(j) PROVE Counted' /\ Served'
  <2>1. UNCHANGED <<queue, num, idle, spawned, started>> /\ submit[j] \in {"notify", "notifySpawn"}
    BY <1>5 DEF NotifyOne, pool
  <2>2. SubmittersAre(0, -1)
    <3>1. CASE submit[j] = "notify"
      <4>1. submit' = [submit EXCEPT ![j] = "done"]
        BY <1>1, <1>5, <3>1 DEF NotifyOne
      <4> QED BY <1>1, <3>1, <4>1, Worths, SubmitMove
    <3>2. CASE submit[j] = "notifySpawn"
      <4>1. submit' = [submit EXCEPT ![j] = "spawn"]
        BY <1>1, <1>5, <3>2 DEF NotifyOne
      <4> QED BY <1>1, <3>2, <4>1, Worths, SubmitMove
    <3> QED BY <2>1, <3>1, <3>2
  <2>3. num' = num + 0 + 0 /\ num' <= MaxThreads /\ idle' = idle + 0 /\ spawned' = spawned + 0
    BY <1>1, <2>1
  <2>4. \A k \in Jobs : submit'[k] = "store" => started'[k] \in Threads
    BY <1>1, <1>5, <2>1 DEF NotifyOne
  <2>5. Len(queue') \in Nat /\ -1 <= 0 /\ 0 <= 0 /\ Len(queue') - Len(queue) <= 1 + (-1)
    BY <1>1, <2>1
  <2>6. CASE Wakes = {} /\ thread' = thread
    <3>1. ThreadsAre(0, 0, 0, 0)
      BY <2>6, NoThreadMoves
    <3>2. Cardinality(StandAt(Threads, thread', {"waiting"})) = 0
      <4>1. StandAt(Threads, thread', {"waiting"}) = {}
        BY <2>6 DEF Wakes, Waiters, StandAt
      <4> QED BY <4>1, FS_EmptySet
    <3>3. Same
      BY <1>1, <2>1, <2>4, <2>6
    <3> QED BY <1>1, <2>2, <2>3, <2>5, <3>1, <3>2, <3>3, CountsFollow
  <2>7. ASSUME NEW t \in Wakes, thread' = [thread EXCEPT ![t] = "notified"] PROVE Counted' /\ Served'
    <3>1. t \in Threads /\ thread[t] = "waiting"
      BY DEF Wakes, Waiters
    <3>2. ThreadsAre(0, 0, 1, -1)
      BY <1>1, <2>7, <3>1, Worths, ThreadMove
    <3>3. Same
      BY <1>1, <2>1, <2>4, <2>7, <3>1
    <3> QED BY <1>1, <2>2, <2>3, <2>5, <3>2, <3>3, CountsFollow
  <2> QED BY <1>5, <2>6, <2>7 DEF NotifyOne
<1>6. ASSUME NEW j \in Jobs, SpawnThread(j) PROVE Counted' /\ Served'
  <2>1. /\ submit[j] = "spawn" /\ spawned' = spawned + 1 /\ thread' = [thread EXCEPT ![spawned + 1] = "loop"]
        /\ started' = [started EXCEPT ![j] = spawned + 1] /\ submit' = [submit EXCEPT ![j] = "store"]
        /\ UNCHANGED <<queue, num, idle>>
    BY <1>6 DEF SpawnThread, pool
  <2>2. spawned + 1 \in Threads
    <3>1. \E k \in Jobs : submit[k] \in Starts
      BY <2>1 DEF Starts
    <3>2. SubmitCount(Starts) > 0
      BY <3>1, ThreadsFinite, SomeStand DEF SubmitCount
    <3> DEFINE m == SubmitCount(Starts)
    <3>3. m > 0 /\ m \in Nat /\ spawned + m <= MaxSpawns
      BY <1>1, <3>2
    <3> HIDE DEF m
    <3> QED BY <1>1, <3>3 DEF Threads
  <2>3. thread[spawned + 1] = "unborn"
    BY <1>1, <2>2
  <2>4. ThreadsAre(1, 0, 1, 0)
    BY <1>1, <2>1, <2>2, <2>3, Worths, ThreadMove
  <2>5. SubmittersAre(-1, 0)
    BY <1>1, <2>1, Worths, SubmitMove
  <2>6. num' = num + 1 + (-1) /\ num' <= MaxThreads /\ idle' = idle + 0 /\ 1 + (-1) <= 0
    BY <1>1, <2>1
  <2>7. Same
    <3>1. \A t \in Threads : thread'[t] = "unborn" <=> t > spawned'
      <4> SUFFICES ASSUME NEW t \in Threads PROVE thread'[t] = "unborn" <=> t > spawned'
        OBVIOUS
      <4>1. t \in Nat
        BY <1>1 DEF Threads
      <4>2. CASE t = spawned + 1
        BY <1>1, <2>1, <2>2, <4>2
      <4>3. CASE t # spawned + 1
        <5>1. thread'[t] = thread[t] /\ (t > spawned <=> t > spawned + 1)
          BY <1>1, <2>1, <4>1, <4>3
        <5> QED BY <1>1, <2>1, <5>1
      <4> QED BY <4>2, <4>3
    <3>2. \A k \in Jobs : submit'[k] = "store" => started'[k] \in Threads
      BY <1>1, <2>1, <2>2
    <3> QED BY <3>1, <3>2
  <2>8. Len(queue') \in Nat /\ 0 <= 0 /\ Len(queue') - Len(queue) <= 1 + 0
    BY <1>1, <2>1
  <2> QED BY <1>1, <2>1, <2>4, <2>5, <2>6, <2>7, <2>8, CountsFollow
<1>7. ASSUME NEW j \in Jobs, StoreHandle(j) PROVE Counted' /\ Served'
  <2>1. /\ submit[j] = "store" /\ submit' = [submit EXCEPT ![j] = "done"]
        /\ UNCHANGED <<queue, num, idle, started, thread, spawned>>
    BY <1>7 DEF StoreHandle, pool
  <2>2. SubmittersAre(0, 0)
    BY <1>1, <2>1, Worths, SubmitMove
  <2>3. ThreadsAre(0, 0, 0, 0)
    BY <2>1, NoThreadMoves
  <2>4. num' = num + 0 + 0 /\ num' <= MaxThreads /\ idle' = idle + 0 /\ spawned' = spawned + 0
    BY <1>1, <2>1
  <2>5. Same
    BY <1>1, <2>1
  <2>6. Len(queue') \in Nat /\ 0 <= 0 /\ Len(queue') - Len(queue) <= 0 + 0
    BY <1>1, <2>1
  <2> QED BY <1>1, <2>2, <2>3, <2>4, <2>5, <2>6, CountsFollow
<1>9. ASSUME NEW t \in Threads, TakeJob(t) PROVE Counted' /\ Served'
  <2>1. /\ thread[t] = "loop" /\ thread' = [thread EXCEPT ![t] = "running"]
        /\ queue # <<>> /\ queue' = Tail(queue)
        /\ UNCHANGED <<submit, started, spawned, num, idle>>
    BY <1>9 DEF TakeJob
  <2>2. num' = num + 0 /\ 0 <= 0 /\ idle' = idle + 0
    BY <1>1, <2>1
  <2>3. Len(queue') \in Nat /\ Len(queue') - Len(queue) <= -1
    BY <1>1, <2>1
  <2>4. ThreadGoes(t, "running", 0, 0, -1, 0)
    BY <2>1, <2>2, <2>3, Worths DEF ThreadGoes
  <2> QED BY <2>4, ThreadCounted
<1>10. ASSUME NEW t \in Threads, FinishJob(t) PROVE Counted' /\ Served'
  <2>1. /\ thread[t] = "running" /\ thread' = [thread EXCEPT ![t] = "loop"]
        /\ UNCHANGED <<submit, started, spawned, num, idle, queue>>
    BY <1>10 DEF FinishJob, pool
  <2>2. num' = num + 0 /\ 0 <= 0 /\ idle' = idle + 0
    BY <1>1, <2>1
  <2>3. Len(queue') \in Nat /\ Len(queue') - Len(queue) <= 1
    BY <1>1, <2>1
  <2>4. ThreadGoes(t, "loop", 0, 0, 1, 0)
    BY <2>1, <2>2, <2>3, Worths DEF ThreadGoes
  <2> QED BY <2>4, ThreadCounted
<1>11. ASSUME NEW t \in Threads, FindEmpty(t) PROVE Counted' /\ Served'
  <2>1. thread[t] = "loop" /\ Len(queue') = 0 /\ UNCHANGED <<submit, started, spawned, num>>
    BY <1>11 DEF FindEmpty
  <2>2. num' = num + 0 /\ 0 <= 0 /\ idle = idle + 0
    BY <1>1, <2>1
  <2>3. CASE thread' = [thread EXCEPT ![t] = "leaving"] /\ idle' = idle
    <3>1. idle' = idle + 0
      BY <2>2, <2>3
    <3>2. ThreadGoes(t, "leaving", 0, 0, -1, 0)
      BY <2>1, <2>2, <2>3, <3>1, Worths DEF ThreadGoes
    <3> QED BY <3>2, ThreadCounted
  <2>4. CASE thread' = [thread EXCEPT ![t] = "waiting"] /\ idle' = idle + 1
    <3>1. ThreadGoes(t, "waiting", 0, 1, -1, 1)
      BY <2>1, <2>2, <2>4, Worths DEF ThreadGoes
    <3> QED BY <3>1, ThreadCounted
  <2> QED BY <1>11, <2>3, <2>4 DEF FindEmpty
<1>12. ASSUME NEW t \in Threads, NEW how \in {"timedOut", "notified"}, EndWait(t, how)
       PROVE  Counted' /\ Served'
  <2>1. /\ thread[t] = "waiting" /\ thread' = [thread EXCEPT ![t] = how]
        /\ UNCHANGED <<submit, started, spawned, num, idle, queue>>
    BY <1>12 DEF EndWait, pool
  <2>2. num' = num + 0 /\ 0 <= 0 /\ idle' = idle + 0 /\ -1 <= 0
    BY <1>1, <2>1
  <2>3. Len(queue') \in Nat /\ Len(queue') - Len(queue) <= 1
    BY <1>1, <2>1
  <2>4. ThreadWorth("waiting", how, 0, 0, 1, -1) /\ how # "unborn"
    BY Worths
  <2>5. ThreadGoes(t, how, 0, 0, 1, -1)
    BY <2>1, <2>2, <2>3, <2>4 DEF ThreadGoes
  <2> QED BY <2>5, ThreadCounted
<1>13. ASSUME NEW t \in Threads, Resume(t) PROVE Counted' /\ Served'
  <2>1. /\ thread[t] \in {"notified", "timedOut"} /\ idle' = idle + (-1)
        /\ UNCHANGED <<submit, started, spawned, num, queue>>
    BY <1>1, <1>13 DEF Resume, IdleLess
  <2>2. num' = num + 0 /\ 0 <= 0
    BY <1>1, <2>1
  <2>3. CASE GivesUp(t)
    <3>1. thread' = [thread EXCEPT ![t] = "leaving"] /\ thread[t] = "timedOut" /\ Len(queue') = 0
      BY <1>13, <2>1, <2>3 DEF Resume, GivesUp
    <3>2. ThreadGoes(t, "leaving", 0, -1, -1, 0)
      BY <2>1, <2>2, <3>1, Worths DEF ThreadGoes
    <3> QED BY <3>2, ThreadCounted
  <2>4. CASE ~GivesUp(t)
    <3>1. thread' = [thread EXCEPT ![t] = "loop"]
      BY <1>13, <2>4 DEF Resume
    <3>2. Len(queue') \in Nat /\ Len(queue') - Len(queue) <= 0
      BY <1>1, <2>1
    <3>3. ThreadWorth(thread[t], "loop", 0, -1, 0, 0) /\ thread[t] # "unborn"
      BY <2>1, Worths
    <3>4. ThreadGoes(t, "loop", 0, -1, 0, 0)
      BY <2>1, <2>2, <3>1, <3>2, <3>3 DEF ThreadGoes
    <3> QED BY <3>4, ThreadCounted
  <2> QED BY <2>3, <2>4
<1>14. ASSUME NEW t \in Threads, Retire(t) PROVE Counted' /\ Served'
  <2>1. /\ thread[t] = "leaving" /\ thread' = [thread EXCEPT ![t] = "ended"] /\ num' = num + (-1)
        /\ UNCHANGED <<submit, started, spawned, idle, queue>>
    BY <1>1, <1>14 DEF Retire
  <2>2. -1 <= 0 /\ 0 <= 0 /\ idle' = idle + 0
    BY <1>1, <2>1
  <2>3. Len(queue') \in Nat /\ Len(queue') - Len(queue) <= 0
    BY <1>1, <2>1
  <2>4. ThreadGoes(t, "ended", -1, 0, 0, 0)
    BY <2>1, <2>2, <2>3, Worths DEF ThreadGoes
  <2> QED BY <2>4, ThreadCounted
<1>15. UNCHANGED vars \/ CloseFlag \/ TakeQueued \/ TakeHandles \/ JoinThreads
         => UNCHANGED <<num, idle, spawned, thread, submit, started>> /\ (queue' = queue \/ queue' = <<>>)
  BY DEF vars, pool, CloseFlag, TakeQueued, Drains, TakeHandles, JoinThreads
<1> HIDE DEF Same
<1> QED BY <1>2, <1>3, <1>4, <1>5, <1>6, <1>7, <1>9, <1>10, <1>11, <1>12, <1>13, <1>14, <1>15
        DEF Next, ShutdownStep, SubmitStep, ThreadStep, Timeout
-----------------------------------------------------------------------------
LEMMA PlacedStep ==
  ASSUME PoolInv, [Next]_vars
  PROVE  Placed'
<1>1. /\ PoolTypes /\ Placed /\ queue \in Seq(Jobs) /\ Distinct(queue)
      /\ job \in [Jobs -> {"new", "queued", "running", "done", "cancelled"}]
      /\ submit \in [Jobs -> {"todo", "notify", "notifySpawn", "spawn", "store", "done"}]
      /\ thread \in [Threads -> Present \cup {"unborn", "ended"}]
      /\ current \in [Threads -> Jobs \cup {NoJob}]
  BY DEF PoolInv, PoolTypes, Placed
<1>2. CASE UNCHANGED <<queue, job, current, submit, thread>>
  BY <1>1, <1>2 DEF Placed
<1>3. CASE TakeQueued
  <2>1. /\ queue' = <<>> /\ job' = [j \in Jobs |-> IF job[j] = "queued" THEN "cancelled" ELSE job[j]]
        /\ UNCHANGED <<submit, thread, current>>
    BY <1>3 DEF TakeQueued, Drains
  <2>2. Distinct(queue') /\ \A j : ~Occurs(queue', j)
    BY <2>1 DEF Distinct, Occurs
  <2>3. \A j \in Jobs : job'[j] = IF job[j] = "queued" THEN "cancelled" ELSE job[j]
    BY <2>1
  <2>4. \A j \in Jobs : job'[j] = "new" <=> submit'[j] = "todo"
    BY <2>1, <2>3, <1>1 DEF Placed
  <2>5. \A j \in Jobs : job'[j] = "running" <=> \E t \in Threads : current'[t] = j
    BY <2>1, <2>3, <1>1 DEF Placed
  <2>6. \A t \in Threads : thread'[t] = "running" <=> current'[t] # NoJob
    BY <2>1, <1>1 DEF Placed
  <2>7. \A t, u \in Threads : current'[t] # NoJob /\ current'[t] = current'[u] => t = u
    BY <2>1, <1>1 DEF Placed
  <2> QED BY <2>2, <2>3, <2>4, <2>5, <2>6, <2>7 DEF Placed
<1>4. ASSUME NEW t \in Threads, TakeJob(t) PROVE Placed'
  <2> DEFINE h == Head(queue)
  <2>1. /\ thread[t] = "loop" /\ queue # <<>> /\ queue' = Tail(queue)
        /\ job' = [job EXCEPT ![h] = "running"] /\ current' = [current EXCEPT ![t] = h]
        /\ thread' = [thread EXCEPT ![t] = "running"] /\ submit' = submit
    BY <1>4 DEF TakeJob
  <2>2. /\ Distinct(queue') /\ h \in Jobs /\ ~Occurs(queue', h)
        /\ \A v : Occurs(queue, v) <=> Occurs(queue', v) \/ v = h
    <3>1. Distinct(Tail(queue)) /\ Head(queue) \in Jobs /\ ~Occurs(Tail(queue), Head(queue))
      BY <1>1, <2>1, TailFacts
    <3>2. \A v : Occurs(queue, v) <=> Occurs(Tail(queue), v) \/ v = Head(queue)
      BY <1>1, <2>1, TailFacts
    <3> QED BY <2>1, <3>1, <3>2
  <2> HIDE DEF h
  <2>3. job[h] = "queued" /\ h # NoJob /\ current[t] = NoJob
    BY <1>1, <2>1, <2>2, ThreadsFinite DEF Placed
  <2>4. /\ \A j \in Jobs : job'[j] = IF j = h THEN "running" ELSE job[j]
        /\ \A u \in Threads : current'[u] = IF u = t THEN h ELSE current[u]
        /\ \A u \in Threads : thread'[u] = IF u = t THEN "running" ELSE thread[u]
    BY <1>1, <2>1, <2>2
  <2>5. \A u \in Threads : current[u] # h
    BY <1>1, <2>2, <2>3 DEF Placed
  <2>6. \A j \in Jobs : Occurs(queue', j) <=> job'[j] = "queued"
    BY <1>1, <2>2, <2>4 DEF Placed
  <2>7. \A j \in Jobs : job'[j] = "running" <=> \E u \in Threads : current'[u] = j
    <3> SUFFICES ASSUME NEW j \in Jobs PROVE job'[j] = "running" <=> \E u \in Threads : current'[u] = j
      OBVIOUS
    <3>1. CASE j = h
      BY <2>4, <3>1
    <3>2. CASE j # h
      <4>1. (\E u \in Threads : current'[u] = j) <=> (\E u \in Threads : current[u] = j)
        BY <2>3, <2>4, <3>2, ThreadsFinite
      <4> QED BY <1>1, <2>4, <3>2, <4>1 DEF Placed
    <3> QED BY <3>1, <3>2
  <2>8. \A u \in Threads : thread'[u] = "running" <=> current'[u] # NoJob
    BY <1>1, <2>3, <2>4 DEF Placed
  <2>9. \A u, v \in Threads : current'[u] # NoJob /\ current'[u] = current'[v] => u = v
    BY <1>1, <2>4, <2>5 DEF Placed
  <2>10. \A j \in Jobs : job'[j] = "new" <=> submit'[j] = "todo"
    BY <1>1, <2>1, <2>3, <2>4 DEF Placed
  <2> QED BY <2>2, <2>6, <2>7, <2>8, <2>9, <2>10 DEF Placed
<1>5. ASSUME NEW t \in Threads, FinishJob(t) PROVE Placed'
  <2> DEFINE h == current[t]
  <2>1. /\ thread[t] = "running" /\ queue' = queue
        /\ job' = [job EXCEPT ![h] = "done"] /\ current' = [current EXCEPT ![t] = NoJob]
        /\ thread' = [thread EXCEPT ![t] = "loop"] /\ submit' = submit
    BY <1>5 DEF FinishJob, pool
  <2>2. h \in Jobs /\ h # NoJob /\ job[h] = "running"
    BY <1>1, <2>1 DEF Placed
  <2>3. /\ \A j \in Jobs : job'[j] = IF j = h THEN "done" ELSE job[j]
        /\ \A u \in Threads : current'[u] = IF u = t THEN NoJob ELSE current[u]
        /\ \A u \in Threads : thread'[u] = IF u = t THEN "loop" ELSE thread[u]
    BY <1>1, <2>1, <2>2
  <2>4. \A u \in Threads : u # t => current[u] # h
    BY <1>1, <2>2 DEF Placed
  <2> HIDE DEF h
  <2>5. \A j \in Jobs : Occurs(queue', j) <=> job'[j] = "queued"
    BY <1>1, <2>1, <2>2, <2>3 DEF Placed
  <2>6. \A j \in Jobs : job'[j] = "running" <=> \E u \in Threads : current'[u] = j
    <3> SUFFICES ASSUME NEW j \in Jobs PROVE job'[j] = "running" <=> \E u \in Threads : current'[u] = j
      OBVIOUS
    <3>1. j # NoJob
      BY ThreadsFinite
    <3>2. CASE j = h
      BY <2>3, <2>4, <3>1, <3>2
    <3>3. CASE j # h
      <4>1. (\E u \in Threads : current'[u] = j) <=> (\E u \in Threads : current[u] = j)
        BY <2>3, <3>1, <3>3 DEF h
      <4> QED BY <1>1, <2>3, <3>3, <4>1 DEF Placed
    <3> QED BY <3>2, <3>3
  <2>7. \A u \in Threads : thread'[u] = "running" <=> current'[u] # NoJob
    BY <1>1, <2>3 DEF Placed
  <2>8. \A u, v \in Threads : current'[u] # NoJob /\ current'[u] = current'[v] => u = v
    BY <1>1, <2>3 DEF Placed
  <2>9. \A j \in Jobs : job'[j] = "new" <=> submit'[j] = "todo"
    BY <1>1, <2>1, <2>2, <2>3 DEF Placed
  <2> QED BY <1>1, <2>1, <2>5, <2>6, <2>7, <2>8, <2>9 DEF Placed
<1>6. ASSUME NEW j \in Jobs, Submit(j) PROVE Placed'
  <2>1. submit[j] = "todo" /\ job[j] = "new" /\ ~Occurs(queue, j) /\ UNCHANGED <<thread, current>>
    BY <1>1, <1>6 DEF Submit, Placed
  <2>2. \A t \in Threads : current[t] # j
    BY <1>1, <2>1 DEF Placed
  <2>3. PICK s \in {"done", "notify", "notifySpawn"}, w \in {"cancelled", "queued"} :
          /\ submit' = [submit EXCEPT ![j] = s] /\ job' = [job EXCEPT ![j] = w]
          /\ queue' = IF w = "queued" THEN Append(queue, j) ELSE queue
    BY <1>6 DEF Submit
  <2>4. /\ \A k \in Jobs : submit'[k] = IF k = j THEN s ELSE submit[k]
        /\ \A k \in Jobs : job'[k] = IF k = j THEN w ELSE job[k]
    BY <1>1, <2>3
  <2>5. Distinct(queue') /\ \A k : Occurs(queue', k) <=> Occurs(queue, k) \/ (k = j /\ w = "queued")
    <3>1. Distinct(Append(queue, j)) /\ \A k : Occurs(Append(queue, j), k) <=> Occurs(queue, k) \/ k = j
      BY <1>1, <2>1, AppendFacts
    <3> QED BY <1>1, <2>3, <3>1
  <2>6. \A k \in Jobs : Occurs(queue', k) <=> job'[k] = "queued"
    BY <1>1, <2>1, <2>4, <2>5 DEF Placed
  <2>7. \A k \in Jobs : job'[k] = "running" <=> \E t \in Threads : current'[t] = k
    BY <1>1, <2>1, <2>2, <2>4 DEF Placed
  <2>8. \A k \in Jobs : job'[k] = "new" <=> submit'[k] = "todo"
    BY <1>1, <2>4 DEF Placed
  <2>9. /\ \A t \in Threads : thread'[t] = "running" <=> current'[t] # NoJob
        /\ \A t, u \in Threads : current'[t] # NoJob /\ current'[t] = current'[u] => t = u
    BY <1>1, <2>1 DEF Placed
  <2> QED BY <2>5, <2>6, <2>7, <2>8, <2>9 DEF Placed
<1>7. ASSUME UNCHANGED <<queue, job, current>>,
             \A j \in Jobs : submit'[j] = "todo" <=> submit[j] = "todo",
             \A t \in Threads : thread'[t] = "running" <=> thread[t] = "running"
      PROVE  Placed'
  BY <1>1, <1>7 DEF Placed
<1>8. ASSUME NEW j \in Jobs, SubmitStep(j) PROVE Placed'
  <2>1. UNCHANGED <<queue, job, current>>
    BY <1>8 DEF SubmitStep, NotifyOne, SpawnThread, StoreHandle, pool
  <2>2. \A k \in Jobs : submit'[k] = "todo" <=> submit[k] = "todo"
    BY <1>1, <1>8 DEF SubmitStep, NotifyOne, SpawnThread, StoreHandle
  <2>3. CASE NotifyOne(j)
    BY <1>1, <1>7, <2>1, <2>2, <2>3 DEF NotifyOne, Wakes, Waiters
  <2>4. CASE SpawnThread(j)
    <3>1. spawned + 1 \in Threads => thread[spawned + 1] = "unborn"
      BY CapPositive DEF PoolInv, PoolTypes, Counted, Threads
    <3>2. \A t \in Threads : thread'[t] = "running" <=> thread[t] = "running"
      BY <1>1, <2>4, <3>1 DEF SpawnThread
    <3> QED BY <1>7, <2>1, <2>2, <3>2
  <2>5. CASE StoreHandle(j)
    BY <1>7, <2>1, <2>2, <2>5 DEF StoreHandle
  <2> QED BY <1>8, <2>3, <2>4, <2>5 DEF SubmitStep
<1>9. CASE NotifyAll
  <2>1. UNCHANGED <<queue, job, current, submit>>
    BY <1>9 DEF NotifyAll, pool
  <2>2. \A t \in Threads : thread'[t] = "running" <=> thread[t] = "running"
    BY <1>1, <1>9 DEF NotifyAll, Waiters
  <2> QED BY <1>7, <2>1, <2>2
<1>10. ASSUME NEW t \in Threads, FindEmpty(t) \/ Resume(t) \/ Retire(t) \/ EndWait(t, "timedOut") \/ EndWait(t, "notified")
       PROVE  Placed'
  <2>1. UNCHANGED <<queue, job, current, submit>>
    BY <1>10 DEF FindEmpty, Resume, Retire, EndWait, pool
  <2>2. \A u \in Threads : thread'[u] = "running" <=> thread[u] = "running"
    BY <1>1, <1>10 DEF FindEmpty, Resume, Retire, EndWait
  <2> QED BY <1>7, <2>1, <2>2
<1>11. UNCHANGED vars \/ CloseFlag \/ TakeHandles \/ JoinThreads => UNCHANGED <<queue, job, current, submit, thread>>
  BY DEF vars, pool, CloseFlag, TakeHandles, JoinThreads
<1> QED BY <1>2, <1>3, <1>4, <1>5, <1>6, <1>8, <1>9, <1>10, <1>11
        DEF Next, ShutdownStep, ThreadStep, Timeout

(* Once shutdown has emptied the queue, the closed flag keeps it empty. *)
LEMMA ClosesStep ==
  ASSUME PoolInv, [Next]_vars
  PROVE  Closes'
<1>1. Closes /\ closed \in BOOLEAN /\ queue \in Seq(Jobs)
  BY DEF PoolInv, PoolTypes
<1>2. CASE CloseFlag \/ ShutdownStep
  BY <1>1, <1>2 DEF Closes, CloseFlag, ShutdownStep, TakeQueued, Drains, NotifyAll, TakeHandles, JoinThreads, pool
<1>3. ASSUME NEW j \in Jobs, Submit(j) PROVE Closes'
  BY <1>1, <1>3 DEF Closes, Submit, Refuses
<1>4. ASSUME NEW t \in Threads, TakeJob(t) PROVE Closes'
  BY <1>1, <1>4 DEF Closes, TakeJob
<1>5. CASE UNCHANGED <<closed, shutter, queue>>
  BY <1>1, <1>5 DEF Closes
<1>6. \A j \in Jobs : SubmitStep(j) => UNCHANGED <<closed, shutter, queue>>
  BY DEF SubmitStep, NotifyOne, SpawnThread, StoreHandle, pool
<1>7. \A t \in Threads : FindEmpty(t) \/ Resume(t) \/ Retire(t) \/ FinishJob(t) \/ EndWait(t, "timedOut") \/ EndWait(t, "notified")
        => UNCHANGED <<closed, shutter, queue>>
  BY DEF FindEmpty, Resume, Retire, FinishJob, EndWait, pool
<1>8. UNCHANGED vars => UNCHANGED <<closed, shutter, queue>>
  BY DEF vars, pool
<1> QED BY <1>2, <1>3, <1>4, <1>5, <1>6, <1>7, <1>8 DEF Next, ThreadStep, Timeout

LEMMA InitPoolInv == Init => PoolInv
<1> SUFFICES ASSUME Init PROVE PoolInv
  OBVIOUS
<1>1. MaxThreads \in Nat /\ MaxSpawns \in Nat
  BY CapPositive
<1>2. PoolTypes
  <2>1. <<>> \in Seq(Jobs)
    OBVIOUS
  <2>2. 0 \in Nat /\ 0 \in 0 .. MaxSpawns
    BY <1>1
  <2>3. /\ job \in [Jobs -> {"new", "queued", "running", "done", "cancelled"}]
        /\ submit \in [Jobs -> {"todo", "notify", "notifySpawn", "spawn", "store", "done"}]
        /\ thread \in [Threads -> Present \cup {"unborn", "ended"}]
        /\ current \in [Threads -> Jobs \cup {NoJob}]
        /\ started \in [Jobs -> 0 .. MaxSpawns]
    BY <2>2 DEF Init
  <2> QED BY <2>1, <2>2, <2>3 DEF Init, PoolTypes
<1>3. /\ ThreadCount(Present) = 0 /\ ThreadCount(Resting) = 0 /\ ThreadCount({"waiting"}) = 0
      /\ SubmitCount(Starts) = 0
  <2>1. /\ StandAt(Threads, thread, Present) = {} /\ StandAt(Threads, thread, Resting) = {}
        /\ StandAt(Threads, thread, {"waiting"}) = {} /\ StandAt(Jobs, submit, Starts) = {}
    BY DEF Init, StandAt, Present, Resting, Starts
  <2> QED BY <2>1, FS_EmptySet DEF ThreadCount, SubmitCount
<1>4. Counted
  <2>1. \A t \in Threads : t > 0
    BY <1>1 DEF Threads
  <2> QED BY <1>1, <1>3, <2>1 DEF Init, Counted
<1>5. Placed
  <2>1. Distinct(<<>>) /\ \A j : ~Occurs(<<>>, j)
    BY DEF Distinct, Occurs
  <2> QED BY <2>1, ThreadsFinite DEF Init, Placed
<1>6. Closes /\ Served
  BY <1>3 DEF Init, Closes, Served
<1> QED BY <1>2, <1>4, <1>5, <1>6 DEF PoolInv

(* PoolInvariance: the inductive invariant holds in every reachable state. *)
THEOREM PoolInvariance == Spec => []PoolInv
<1>1. PoolInv /\ [Next]_vars => PoolInv'
  BY PoolTypesStep, CountedStep, PlacedStep, ClosesStep DEF PoolInv
<1> QED BY <1>1, InitPoolInv, PTL DEF Spec

(* PoolIsSound: whatever submits, notifications, timeouts, spurious wakes and a       *)
(* shutdown overlap, the cap holds, the idle count and the queue are exact, and no     *)
(* thread sleeps beside a queued job that nobody is on the way to.                     *)
THEOREM PoolIsSound == Spec => []PoolSound
<1>1. PoolInv => PoolSound
  <2> SUFFICES ASSUME PoolInv PROVE PoolSound
    OBVIOUS
  <2>1. /\ ThreadCount(Present) \in Nat /\ ThreadCount(Resting) \in Nat /\ SubmitCount(Starts) \in Nat
        /\ ThreadCount(Coming) \in Nat /\ SubmitCount(Notifies) \in Nat /\ MaxSpawns \in Nat
    BY CountsAreNat, CapPositive
  <2>2. Alive = StandAt(Threads, thread, Present)
    BY DEF PoolInv, PoolTypes, Alive, StandAt, Present
  <2>3. {j \in Jobs : submit[j] \in {"notifySpawn", "spawn"}} = StandAt(Jobs, submit, Starts)
    BY DEF StandAt, Starts
  <2>4. CapRespected
    BY <2>2, <2>3 DEF PoolInv, Counted, CapRespected, ThreadCount, SubmitCount
  <2>5. IdleExact
    <3>1. {t \in Threads : thread[t] \in {"waiting", "notified", "timedOut"}} = StandAt(Threads, thread, Resting)
      BY DEF StandAt, Resting
    <3> QED BY <3>1 DEF PoolInv, Counted, IdleExact, ThreadCount
  <2>6. ThreadCount(Present) <= spawned /\ ThreadCount(Resting) <= ThreadCount(Present)
    <3>1. spawned \in Nat /\ \A t \in Threads : t \in Nat /\ t >= 1
      BY <2>1 DEF PoolInv, PoolTypes, Threads
    <3>2. StandAt(Threads, thread, Present) \subseteq 1 .. spawned
      <4> SUFFICES ASSUME NEW t \in Threads, thread[t] \in Present PROVE t \in 1 .. spawned
        BY DEF StandAt
      <4>1. ~(t > spawned)
        BY DEF PoolInv, Counted, Present
      <4> QED BY <3>1, <4>1
    <3>3. StandAt(Threads, thread, Resting) \subseteq StandAt(Threads, thread, Present)
      BY DEF StandAt, Resting, Present
    <3>4. IsFiniteSet(1 .. spawned) /\ Cardinality(1 .. spawned) = spawned
      BY <3>1, FS_Interval
    <3>5. IsFiniteSet(StandAt(Threads, thread, Present)) /\ ThreadCount(Present) <= spawned
      BY <3>2, <3>4, FS_Subset DEF ThreadCount
    <3>6. ThreadCount(Resting) <= ThreadCount(Present)
      BY <3>3, <3>5, FS_Subset DEF ThreadCount
    <3> QED BY <3>5, <3>6
  <2>7. idle \in 0 .. MaxSpawns /\ num \in 0 .. MaxSpawns
    <3> DEFINE a == ThreadCount(Present)
               b == ThreadCount(Resting)
               f == SubmitCount(Starts)
    <3>1. /\ a \in Nat /\ b \in Nat /\ f \in Nat /\ a <= spawned /\ b <= a /\ idle = b /\ num = a + f
          /\ spawned + f <= MaxSpawns /\ spawned \in Nat
      BY <2>1, <2>6 DEF PoolInv, PoolTypes, Counted
    <3> HIDE DEF a, b, f
    <3> QED BY <2>1, <3>1
  <2>8. TypeOK
    BY <2>7 DEF PoolInv, PoolTypes, TypeOK
  <2>9. QueueExact
    BY DEF PoolInv, Placed, Closes, QueueExact, Occurs
  <2>10. NoSleepBesideWork
    <3> SUFFICES ASSUME queue # <<>>, Waiters # {}
                 PROVE  \/ \E t \in Threads : thread[t] \in Coming
                        \/ \E j \in Jobs : submit[j] \in Notifies
      BY DEF NoSleepBesideWork, Coming, Notifies
    <3>1. ThreadCount({"waiting"}) > 0
      <4>1. \E t \in Threads : thread[t] \in {"waiting"}
        BY DEF Waiters
      <4> QED BY <4>1, ThreadsFinite, SomeStand DEF ThreadCount
    <3>2. Len(queue) <= ThreadCount(Coming) + SubmitCount(Notifies) /\ Len(queue) \in Nat /\ Len(queue) > 0
      BY <3>1 DEF PoolInv, PoolTypes, Served
    <3> DEFINE c == ThreadCount(Coming)
               n == SubmitCount(Notifies)
               k == Len(queue)
    <3>3. c > 0 \/ n > 0
      <4>1. k <= c + n /\ k \in Nat /\ k > 0 /\ c \in Nat /\ n \in Nat
        BY <2>1, <3>2
      <4> HIDE DEF c, n, k
      <4> QED BY <4>1
    <3>4. c > 0 => \E t \in Threads : thread[t] \in Coming
      BY ThreadsFinite, SomeStand DEF ThreadCount
    <3>5. n > 0 => \E j \in Jobs : submit[j] \in Notifies
      BY ThreadsFinite, SomeStand DEF SubmitCount
    <3> QED BY <3>3, <3>4, <3>5
  <2> QED BY <2>4, <2>5, <2>8, <2>9, <2>10 DEF PoolSound
<1> QED BY <1>1, PoolInvariance, PTL

(* JobIsEndedOnce: a cancelled closure is never run and no closure runs twice. *)
THEOREM JobIsEndedOnce == Spec => JobEndsOnce
<1> DEFINE Once == \A j \in Jobs : job[j] \in {"done", "cancelled"} => job'[j] = job[j]
<1>1. PoolInv /\ [Next]_vars => [Once]_vars
  <2> SUFFICES ASSUME PoolInv, Next PROVE Once
    OBVIOUS
  <2>1. /\ job \in [Jobs -> {"new", "queued", "running", "done", "cancelled"}] /\ Placed
        /\ queue \in Seq(Jobs)
    BY DEF PoolInv, PoolTypes
  <2>2. CASE job' = job
    BY <2>2
  <2>3. ASSUME NEW j \in Jobs, Submit(j) PROVE Once
    <3>1. job[j] = "new" /\ \A k \in Jobs : k # j => job'[k] = job[k]
      BY <2>1, <2>3 DEF Submit, Placed
    <3> QED BY <3>1
  <2>4. ASSUME NEW t \in Threads, TakeJob(t) PROVE Once
    <3>1. queue # <<>> /\ job' = [job EXCEPT ![Head(queue)] = "running"]
      BY <2>4 DEF TakeJob
    <3>2. 1 \in 1 .. Len(queue) /\ Head(queue) = queue[1] /\ Head(queue) \in Jobs
      BY <2>1, <3>1
    <3>3. job[Head(queue)] = "queued"
      BY <2>1, <3>2 DEF Placed, Occurs
    <3> QED BY <2>1, <3>1, <3>2, <3>3
  <2>5. ASSUME NEW t \in Threads, FinishJob(t) PROVE Once
    <3>1. thread[t] = "running" /\ job' = [job EXCEPT ![current[t]] = "done"]
      BY <2>5 DEF FinishJob
    <3>2. current[t] \in Jobs /\ job[current[t]] = "running"
      BY <3>1 DEF PoolInv, PoolTypes, Placed
    <3> QED BY <2>1, <3>1, <3>2
  <2>6. CASE TakeQueued
    BY <2>1, <2>6 DEF TakeQueued
  <2>7. CASE CloseFlag \/ NotifyAll \/ TakeHandles \/ JoinThreads
    BY <2>2, <2>7 DEF CloseFlag, NotifyAll, TakeHandles, JoinThreads
  <2>8. ASSUME NEW j \in Jobs, SubmitStep(j) PROVE Once
    BY <2>2, <2>8 DEF SubmitStep, NotifyOne, SpawnThread, StoreHandle
  <2>9. ASSUME NEW t \in Threads,
               FindEmpty(t) \/ Resume(t) \/ Retire(t) \/ EndWait(t, "timedOut") \/ EndWait(t, "notified")
        PROVE  Once
    BY <2>2, <2>9 DEF FindEmpty, Resume, Retire, EndWait
  <2> HIDE DEF Once
  <2> QED BY <2>3, <2>4, <2>5, <2>6, <2>7, <2>8, <2>9 DEF Next, ShutdownStep, ThreadStep, Timeout
<1> QED BY <1>1, PoolInvariance, PTL DEF Spec, JobEndsOnce

-----------------------------------------------------------------------------
(* block_in_place (multi_thread/worker.rs).  The two threads meet in three flags:      *)
(* where one stands says what the flags are and what the other may be doing.           *)

TaskPlaces == {"cell", "slot", "wlifo", "hlifo", "tlifo", "inject", "unborn", "done"}
TakerHas == {"run", "park", "put"}
HandedBack == {"notify", "gone"}
Reclaims == {"reclaim", "join"}
Asking == {"pend", "decide", "notify", "poke"}  \* inside notify_driver
Stages == {"out", "claim", "swap", "drain", "kernel", "release", "asleep", "woken"}

HandOverType ==
  /\ place \in [Handed -> TaskPlaces] /\ some \in BOOLEAN /\ requested \in BOOLEAN /\ returned \in BOOLEAN
  /\ shut \in BOOLEAN
  /\ worker \in {"loop", "poll", "park", "request", "lock", "woken", "checked", "waiting", "onpoll", "onpark"}
                 \cup Reclaims \cup Asking
  /\ taker \in {"none", "start", "flag", "notify", "gone"} \cup TakerHas
  /\ root \in [woken : BOOLEAN, token : BOOLEAN]
  /\ waking \in {"idle", "root", "allPend", "allNotify", "allPoke"} \cup Asking

HandOverInv ==
  /\ worker \in {"loop", "onpoll", "onpark"} <=> taker = "none"
  /\ returned <=> taker \in HandedBack
  /\ some <=> taker = "start" \/ (taker \in {"flag", "notify", "gone"} /\ worker # "join")
  /\ worker \in Reclaims => returned
  /\ requested => worker \in {"lock", "woken", "checked", "waiting"} \cup Reclaims \cup Asking

(* Where a task can be follows from who owns the queue. *)
PlaceInv ==
  \A j \in Handed : /\ place[j] \in {"slot", "hlifo"} => some
                    /\ place[j] = "tlifo" => taker \in TakerHas

QueueOwned == HandOverType /\ HandOverInv /\ PlaceInv /\ K!RootNotAsleep

(* The driver: one holder of the kernel wait, and a takeover thread in it is inside park. *)
DriverType ==
  /\ stage \in [K!Parkers -> Stages] /\ wakePending \in BOOLEAN /\ kernelWake \in BOOLEAN /\ astray \in BOOLEAN
  /\ stage[Taker] # "out" => taker = "park"
OneHolder == \A d, e \in K!Parkers : stage[d] \in K!Held /\ stage[e] \in K!Held => d = e

(* A takeover thread that looked at requested before the request finds wake_pending set *)
(* when it comes to swap it, and one past that has the eventfd coming, unless they went  *)
(* to another thread.                                                                    *)
TakerParkInv ==
  /\ taker = "park" /\ stage[Taker] \in {"out", "claim", "swap"} /\ requested /\ ~wakePending => worker = "pend" \/ astray
  /\ stage[Taker] = "kernel" /\ requested /\ ~kernelWake => worker \in {"pend", "decide", "poke"} \/ astray
  /\ Peers = {} => ~astray

TakeoverInv == QueueOwned /\ DriverType /\ OneHolder /\ TakerParkInv

(* A notification of the condvar moves sleepers and nobody else. *)
LEMMA NotifyMoves ==
  ASSUME NEW others \in [K!Parkers -> Stages],
         \A d \in K!Parkers : stage[d] = "asleep" => others[d] = "asleep",
         K!NotifySleeper(others)
  PROVE  /\ stage' \in [K!Parkers -> Stages]
         /\ \A d \in K!Parkers : stage'[d] = others[d] \/ (others[d] = "asleep" /\ stage'[d] = "woken")
<1>1. CASE stage' = others
  BY <1>1
<1>2. CASE \E d \in K!Parkers : stage[d] = "asleep" /\ stage' = [others EXCEPT ![d] = "woken"]
  BY <1>2 DEF Stages
<1> QED BY <1>1, <1>2 DEF K!NotifySleeper

(* What a step of a parking thread or of a notification does to the driver. *)
LEMMA NotifyStep ==
  ASSUME TakeoverInv, NEW at, NEW next, NEW done, K!NotifyDriver(at, next, done)
  PROVE  /\ stage' \in [K!Parkers -> Stages] /\ wakePending' \in BOOLEAN /\ kernelWake' \in BOOLEAN
         /\ \A d \in K!Parkers : stage'[d] = stage[d] \/ (stage[d] = "asleep" /\ stage'[d] = "woken")
         /\ (wakePending => wakePending') /\ (kernelWake => kernelWake')
         /\ at = "pend" => next = "decide" /\ wakePending'
         /\ at = "decide" => next = IF K!Waiters # {} THEN "notify" ELSE "poke"
         /\ at = "notify" => next = done
         /\ at = "poke" => next = done /\ kernelWake'
         /\ at \in Asking
<1>1. stage \in [K!Parkers -> Stages] /\ wakePending \in BOOLEAN /\ kernelWake \in BOOLEAN
  BY DEF TakeoverInv, DriverType
<1>2. CASE at = "notify"
  <2>1. K!NotifySleeper(stage) /\ UNCHANGED <<wakePending, kernelWake>> /\ next = done
    BY <1>2 DEF K!NotifyDriver
  <2> QED BY <1>1, <1>2, <2>1, NotifyMoves DEF Asking
<1>3. CASE at \in {"pend", "decide", "poke"}
  BY <1>1, <1>3 DEF K!NotifyDriver, Asking
<1> QED BY <1>2, <1>3 DEF K!NotifyDriver

LEMMA QueueOwnedStep ==
  ASSUME TakeoverInv, [K!Next]_(K!vars)
  PROVE  QueueOwned'
<1>i. QueueOwned /\ (stage[Taker] # "out" => taker = "park") /\ Taker \in K!Parkers
  BY DEF TakeoverInv, DriverType, K!Parkers
<1> USE DEF QueueOwned, HandOverType, HandOverInv, PlaceInv, K!RootNotAsleep,
            TakerHas, HandedBack, Reclaims, Asking, TaskPlaces, K!At, K!handover
<1>1. CASE UNCHANGED K!vars
  BY <1>i, <1>1 DEF K!vars
<1>2. CASE K!HandOver
  BY <1>i, <1>2 DEF K!HandOver
<1>3. CASE K!block_on
  BY <1>i, <1>3 DEF K!block_on
<1>4. CASE K!PollInPlace
  BY <1>i, <1>4, ZenonT(60) DEF K!PollInPlace, K!RootLoop
<1>5. CASE K!PollBlockOn
  BY <1>i, <1>5 DEF K!PollBlockOn, K!RootLoop
<1>6. CASE K!Request
  <2>1. CASE worker = "request" /\ requested' = TRUE /\ worker' = "pend" /\ UNCHANGED <<place, some, returned, shut, taker, root, waking>>
    BY <1>i, <1>6, <2>1
  <2>2. CASE \E next \in {"decide", "notify", "poke", "lock"} : K!NotifyDriver(worker, next, "lock") /\ worker' = next
    <3>1. worker \in Asking /\ worker' \in {"decide", "notify", "poke", "lock"} /\ UNCHANGED <<place, some, requested, returned, shut, taker, root, waking>>
      <4>1. worker \in Asking /\ worker' \in {"decide", "notify", "poke", "lock"}
        BY <2>2, NotifyStep
      <4> QED BY <1>6, <4>1 DEF K!Request
    <3> QED BY <1>i, <3>1
  <2> QED BY <1>6, <2>1, <2>2 DEF K!Request
<1>7. CASE K!CheckReturned
  BY <1>i, <1>7 DEF K!CheckReturned, K!MayReclaim
<1>8. CASE K!EnterWait
  BY <1>i, <1>8 DEF K!EnterWait
<1>9. CASE K!Reclaim
  BY <1>i, <1>9 DEF K!Reclaim
<1>10. CASE K!Join
  BY <1>i, <1>10 DEF K!Join
<1>11. CASE K!Start
  BY <1>i, <1>11, ZenonT(60) DEF K!Start
<1>12. CASE K!RunTask
  BY <1>i, <1>12 DEF K!RunTask, K!Work
<1>13. CASE K!Idle
  BY <1>i, <1>13 DEF K!Idle
<1>14. CASE K!ParkTaker
  BY <1>i, <1>14 DEF K!ParkTaker
<1>15. CASE K!PutBack
  BY <1>i, <1>15 DEF K!PutBack
<1>16. CASE K!SetReturned
  BY <1>i, <1>16 DEF K!SetReturned
<1>17. CASE K!NotifyOne
  BY <1>i, <1>17 DEF K!NotifyOne
<1>18. CASE K!WakeRoot
  BY <1>i, <1>18, ZenonT(60) DEF K!WakeRoot
<1>19. CASE K!EndWaking
  <2>1. CASE \E next \in {"decide", "notify", "poke", "idle"} : K!NotifyDriver(waking, next, "idle") /\ waking' = next
    <3>1. waking \in Asking /\ waking' \in {"decide", "notify", "poke", "idle"}
      BY <2>1, NotifyStep
    <3>2. UNCHANGED <<place, some, requested, returned, shut, worker, taker, root>>
      BY <1>19, <3>1 DEF K!EndWaking
    <3> QED BY <1>i, <3>1, <3>2
  <2>2. CASE waking = "root" /\ root' = [root EXCEPT !.token = TRUE] /\ waking' = "idle"
    <3>1. UNCHANGED <<place, some, requested, returned, shut, worker, taker>>
      BY <1>19 DEF K!EndWaking
    <3>2. root'.token = TRUE /\ root'.woken = root.woken /\ root' \in [woken : BOOLEAN, token : BOOLEAN]
      BY <1>i, <2>2
    <3>3. HandOverType'
      BY <1>i, <2>2, <3>1, <3>2
    <3>4. HandOverInv' /\ PlaceInv'
      BY <1>i, <3>1
    <3>5. K!RootNotAsleep'
      BY <3>1, <3>2
    <3> QED BY <3>3, <3>4, <3>5
  <2> QED BY <1>19, <2>1, <2>2 DEF K!EndWaking
<1>20. CASE K!Shutdown
  BY <1>i, <1>20 DEF K!Shutdown
<1>21. ASSUME NEW j \in Handed, K!Inject(j) PROVE QueueOwned'
  BY <1>i, <1>21 DEF K!Inject
<1>22. ASSUME NEW j \in Handed, K!Steal(j) PROVE QueueOwned'
  BY <1>i, <1>22 DEF K!Steal
<1>23. CASE K!UnparkAll
  BY <1>i, <1>23 DEF K!UnparkAll
<1>24. ASSUME NEW d \in K!Parkers, K!Claim(d) \/ K!Swap(d) \/ K!WaitReturns(d) PROVE QueueOwned'
  <2>1. UNCHANGED <<place, some, requested, returned, shut, worker, taker, root, waking>>
    BY <1>24 DEF K!Claim, K!Swap, K!WaitReturns
  <2> QED BY <1>i, <2>1
<1>25. ASSUME NEW d \in K!Parkers, K!LeavePark(d) PROVE QueueOwned'
  <2>1. UNCHANGED <<place, some, requested, returned, shut, worker, root, waking>>
    BY <1>25 DEF K!LeavePark
  <2>2. taker' = taker \/ (taker' = "run" /\ taker = "park")
    BY <1>i, <1>25 DEF K!LeavePark
  <2> QED BY <1>i, <2>1, <2>2
<1>26. ASSUME NEW p \in Peers, K!PeerParks(p) PROVE QueueOwned'
  BY <1>i, <1>26 DEF K!PeerParks
<1> HIDE DEF QueueOwned
<1> QED BY <1>1, <1>2, <1>3, <1>4, <1>5, <1>6, <1>7, <1>8, <1>9, <1>10, <1>11, <1>12, <1>13, <1>14, <1>15, <1>16,
           <1>17, <1>18, <1>19, <1>20, <1>21, <1>22, <1>23, <1>24, <1>25, <1>26 DEF K!Next

(* The driver's part.  The steps that leave it alone change where the threads stand. *)
LEMMA ParkStep ==
  ASSUME TakeoverInv, [K!Next]_(K!vars)
  PROVE  (DriverType /\ OneHolder /\ TakerParkInv)'
<1>t. /\ Taker \in K!Parkers /\ Taker \notin Peers /\ (\A d \in K!Parkers : d # Taker => d \in Peers)
      /\ QueueOwned /\ DriverType /\ OneHolder /\ TakerParkInv
  BY TakerIsNoPeer DEF TakeoverInv, K!Parkers
<1>w. /\ requested \in BOOLEAN /\ (requested => worker \notin {"loop", "poll", "park", "request", "onpoll", "onpark"})
      /\ (worker = "join" /\ taker = "gone" => stage[Taker] = "out")
  BY <1>t DEF QueueOwned, HandOverType, HandOverInv, Reclaims, Asking, DriverType
<1>1. ASSUME UNCHANGED <<stage, wakePending, kernelWake, astray, requested>>,
             taker = "park" => taker' = "park", taker' = "park" => taker = "park",
             requested => worker' = worker \/ (worker' # "pend" /\ worker \notin {"pend", "decide", "poke"})
      PROVE  (DriverType /\ OneHolder /\ TakerParkInv)'
  BY <1>1, <1>t DEF DriverType, OneHolder, TakerParkInv
<1>2. CASE UNCHANGED K!vars
  BY <1>1, <1>2 DEF K!vars, K!handover, K!driver
<1>3. CASE K!HandOver \/ K!block_on \/ K!PollInPlace \/ K!PollBlockOn \/ K!CheckReturned \/ K!EnterWait \/ K!Reclaim
  BY <1>1, <1>3, <1>w DEF K!HandOver, K!block_on, K!PollInPlace, K!PollBlockOn, K!RootLoop, K!CheckReturned, K!EnterWait,
     K!Reclaim, K!handover, K!driver
<1>4. CASE K!Start \/ K!RunTask \/ K!PutBack \/ K!SetReturned \/ K!NotifyOne
  BY <1>1, <1>4 DEF K!Start, K!RunTask, K!PutBack, K!SetReturned, K!NotifyOne, K!handover, K!driver
<1>5. CASE K!WakeRoot \/ K!Shutdown
  BY <1>1, <1>5 DEF K!WakeRoot, K!Shutdown, K!handover, K!driver
<1>6. ASSUME NEW j \in Handed, K!Inject(j) \/ K!Steal(j) PROVE (DriverType /\ OneHolder /\ TakerParkInv)'
  BY <1>1, <1>6 DEF K!Inject, K!Steal, K!handover, K!driver
<1>7. CASE K!Join
  BY <1>7, <1>t, <1>w DEF K!Join, DriverType, OneHolder, TakerParkInv
<1>8. CASE K!Idle
  BY <1>8, <1>t DEF K!Idle, DriverType, OneHolder, TakerParkInv, K!handover, K!driver
<1>9. CASE K!ParkTaker
  <2>1. taker = "park" /\ stage[Taker] = "out" /\ UNCHANGED <<requested, worker, wakePending, kernelWake, astray>>
    BY <1>9 DEF K!ParkTaker, K!handover
  <2>2. CASE taker' = "run" /\ UNCHANGED stage
    BY <1>t, <2>1, <2>2 DEF DriverType, OneHolder, TakerParkInv
  <2>3. CASE stage' = [stage EXCEPT ![Taker] = "claim"] /\ UNCHANGED taker
    <3>1. stage' \in [K!Parkers -> Stages] /\ stage'[Taker] = "claim" /\ \A d \in K!Parkers : d # Taker => stage'[d] = stage[d]
      BY <1>t, <2>3 DEF DriverType, Stages
    <3>2. OneHolder'
      BY <1>t, <3>1 DEF OneHolder, K!Held
    <3> QED BY <1>t, <2>1, <2>3, <3>1, <3>2 DEF DriverType, TakerParkInv
  <2> QED BY <1>9, <2>2, <2>3 DEF K!ParkTaker
(* A notification moves sleepers only, and sets flags. *)
<1>10. ASSUME stage' \in [K!Parkers -> Stages],
              \A d \in K!Parkers : stage'[d] = stage[d] \/ (stage[d] = "asleep" /\ stage'[d] = "woken")
       PROVE  /\ OneHolder' /\ (stage'[Taker] \in {"out", "claim", "swap", "kernel"} => stage'[Taker] = stage[Taker])
              /\ (stage'[Taker] # "out" => stage[Taker] # "out")
  BY <1>10, <1>t DEF OneHolder, K!Held
<1>11. CASE K!UnparkAll
  <2>1. /\ UNCHANGED <<requested, worker, taker, astray>> /\ wakePending' \in BOOLEAN /\ kernelWake' \in BOOLEAN
        /\ (wakePending => wakePending') /\ (kernelWake => kernelWake')
    BY <1>11, <1>t DEF K!UnparkAll, K!handover, DriverType
  <2>2. /\ stage' \in [K!Parkers -> Stages]
        /\ \A d \in K!Parkers : stage'[d] = stage[d] \/ (stage[d] = "asleep" /\ stage'[d] = "woken")
    <3>1. stage \in [K!Parkers -> Stages]
      BY <1>t DEF DriverType
    <3>2. stage' = stage \/ stage' = [d \in K!Parkers |-> IF stage[d] = "asleep" THEN "woken" ELSE stage[d]]
      BY <1>11 DEF K!UnparkAll, K!NotifySleepers
    <3> QED BY <3>1, <3>2 DEF Stages
  <2> QED BY <1>t, <1>10, <2>1, <2>2 DEF DriverType, TakerParkInv
<1>12. CASE K!EndWaking
  <2>1. CASE \E next \in {"decide", "notify", "poke", "idle"} : K!NotifyDriver(waking, next, "idle") /\ waking' = next
    <3>1. /\ waking \in Asking
          /\ stage' \in [K!Parkers -> Stages] /\ wakePending' \in BOOLEAN /\ kernelWake' \in BOOLEAN
          /\ \A d \in K!Parkers : stage'[d] = stage[d] \/ (stage[d] = "asleep" /\ stage'[d] = "woken")
          /\ (wakePending => wakePending') /\ (kernelWake => kernelWake')
      BY <2>1, NotifyStep
    <3>2. UNCHANGED <<requested, worker, taker, astray>>
      BY <1>12, <3>1 DEF K!EndWaking, K!handover, Asking
    <3> QED BY <1>t, <1>10, <3>1, <3>2 DEF DriverType, TakerParkInv
  <2>2. CASE waking = "root" /\ UNCHANGED <<requested, worker, taker, stage, wakePending, kernelWake, astray>>
    BY <1>1, <2>2
  <2> QED BY <1>12, <2>1, <2>2 DEF K!EndWaking, K!handover, K!driver
<1>13. CASE K!Request
  <2>1. CASE /\ worker = "request" /\ requested' = TRUE /\ worker' = "pend"
             /\ UNCHANGED <<taker, stage, wakePending, kernelWake, astray>>
    BY <1>t, <2>1 DEF DriverType, OneHolder, TakerParkInv
  <2>2. CASE /\ \E next \in {"decide", "notify", "poke", "lock"} : K!NotifyDriver(worker, next, "lock") /\ worker' = next
             /\ astray' = (astray \/ (worker = "decide" /\ K!Waiters # {} /\ stage[Taker] = "kernel"))
             /\ UNCHANGED <<requested, taker>>
    <3>1. /\ worker \in Asking
          /\ stage' \in [K!Parkers -> Stages] /\ wakePending' \in BOOLEAN /\ kernelWake' \in BOOLEAN
          /\ \A d \in K!Parkers : stage'[d] = stage[d] \/ (stage[d] = "asleep" /\ stage'[d] = "woken")
          /\ (wakePending => wakePending') /\ (kernelWake => kernelWake')
          /\ worker = "pend" => worker' = "decide" /\ wakePending'
          /\ worker = "decide" => worker' = IF K!Waiters # {} THEN "notify" ELSE "poke"
          /\ worker = "notify" => worker' = "lock"
          /\ worker = "poke" => worker' = "lock" /\ kernelWake'
      BY <2>2, NotifyStep
    <3>2. K!Waiters # {} /\ stage[Taker] = "kernel" => Peers # {}
      BY <1>t DEF K!Waiters
    <3>3. astray' \in BOOLEAN /\ (astray => astray') /\ (Peers = {} => ~astray')
      BY <1>t, <2>2, <3>2 DEF DriverType, TakerParkInv
    <3>4. stage'[Taker] = "kernel" /\ requested' /\ ~kernelWake' => worker' \in {"pend", "decide", "poke"} \/ astray'
      <4> HAVE stage'[Taker] = "kernel" /\ requested' /\ ~kernelWake'
      <4>1. stage[Taker] = "kernel" /\ requested /\ ~kernelWake
        BY <1>10, <2>2, <3>1
      <4>2. worker \in {"pend", "decide", "poke"} \/ astray
        BY <1>t, <4>1 DEF TakerParkInv
      <4> QED BY <2>2, <3>1, <3>3, <4>1, <4>2
    <3>5. taker' = "park" /\ stage'[Taker] \in {"out", "claim", "swap"} /\ requested' /\ ~wakePending' => worker' = "pend" \/ astray'
      BY <1>t, <1>10, <2>2, <3>1, <3>3 DEF TakerParkInv
    <3>6. DriverType'
      BY <1>t, <1>10, <2>2, <3>1, <3>3 DEF DriverType
    <3> QED BY <1>10, <3>1, <3>3, <3>4, <3>5, <3>6 DEF TakerParkInv
  <2> QED BY <1>13, <2>1, <2>2 DEF K!Request, K!handover, K!driver
<1>14. ASSUME NEW p \in Peers, K!PeerParks(p) PROVE (DriverType /\ OneHolder /\ TakerParkInv)'
  <2>1. /\ stage' = [stage EXCEPT ![p] = "claim"] /\ p \in K!Parkers /\ p # Taker
        /\ UNCHANGED <<requested, worker, taker, wakePending, kernelWake, astray>>
    BY <1>14, <1>t DEF K!PeerParks, K!handover, K!Parkers
  <2>2. /\ stage' \in [K!Parkers -> Stages] /\ stage'[Taker] = stage[Taker] /\ stage'[p] = "claim"
        /\ \A d \in K!Parkers : d # p => stage'[d] = stage[d]
    BY <1>t, <2>1 DEF DriverType, Stages
  <2>3. OneHolder'
    BY <1>t, <2>2 DEF OneHolder, K!Held
  <2> QED BY <1>t, <2>1, <2>2, <2>3 DEF DriverType, TakerParkInv
<1>15. ASSUME NEW d \in K!Parkers, K!Claim(d) PROVE (DriverType /\ OneHolder /\ TakerParkInv)'
  <2>1. /\ stage[d] = "claim" /\ UNCHANGED <<requested, worker, taker, wakePending, kernelWake, astray>>
        /\ stage' = [stage EXCEPT ![d] = IF \E e \in K!Parkers : stage[e] \in K!Held THEN "asleep" ELSE "swap"]
    BY <1>15 DEF K!Claim, K!handover
  <2>2. /\ stage' \in [K!Parkers -> Stages] /\ stage'[d] \in {"asleep", "swap"}
        /\ stage'[d] = "swap" => \A e \in K!Parkers : stage[e] \notin K!Held
        /\ \A e \in K!Parkers : e # d => stage'[e] = stage[e]
    BY <1>t, <2>1 DEF DriverType, Stages
  <2>3. OneHolder'
    BY <1>t, <2>2 DEF OneHolder, K!Held
  <2> QED BY <1>t, <2>1, <2>2, <2>3 DEF DriverType, TakerParkInv
<1>16. ASSUME NEW d \in K!Parkers, K!Swap(d) PROVE (DriverType /\ OneHolder /\ TakerParkInv)'
  <2>1. /\ stage[d] = "swap" /\ UNCHANGED <<requested, worker, taker, kernelWake>> /\ wakePending' = FALSE
        /\ stage' = [stage EXCEPT ![d] = IF wakePending THEN "drain" ELSE "kernel"]
        /\ astray' = (astray \/ (d # Taker /\ wakePending /\ requested /\ worker # "pend"))
    BY <1>16 DEF K!Swap, K!handover
  <2>2. /\ stage' \in [K!Parkers -> Stages] /\ stage'[d] \in {"drain", "kernel"}
        /\ stage'[d] = "kernel" => ~wakePending
        /\ \A e \in K!Parkers : e # d => stage'[e] = stage[e]
    BY <1>t, <2>1 DEF DriverType, Stages
  <2>3. OneHolder'
    BY <1>t, <2>1, <2>2 DEF OneHolder, K!Held
  <2>4. astray' \in BOOLEAN /\ (astray => astray') /\ (Peers = {} => ~astray')
    BY <1>t, <2>1 DEF DriverType, TakerParkInv
  <2>5. DriverType'
    BY <1>t, <2>1, <2>2, <2>4 DEF DriverType
  <2>6. CASE d = Taker
    <3>1. taker = "park"
      BY <1>t, <2>1, <2>6 DEF DriverType
    <3>2. stage'[Taker] = "kernel" /\ requested => worker = "pend" \/ astray
      BY <1>t, <2>1, <2>2, <2>6, <3>1 DEF TakerParkInv
    <3> QED BY <2>1, <2>2, <2>3, <2>4, <2>5, <2>6, <3>2 DEF TakerParkInv
  <2>7. CASE d # Taker
    <3>1. stage'[Taker] = stage[Taker] /\ stage[Taker] # "kernel"
      BY <1>t, <2>1, <2>2, <2>7 DEF OneHolder, K!Held
    <3> QED BY <1>t, <2>1, <2>3, <2>4, <2>5, <2>7, <3>1 DEF TakerParkInv
  <2> QED BY <2>6, <2>7
<1>17. ASSUME NEW d \in K!Parkers, K!WaitReturns(d) PROVE (DriverType /\ OneHolder /\ TakerParkInv)'
  <2>1. /\ stage[d] \in {"drain", "kernel"} /\ UNCHANGED <<requested, worker, taker, wakePending, astray>> /\ kernelWake' = FALSE
        /\ stage' = [stage EXCEPT ![d] = "release"]
    BY <1>17 DEF K!WaitReturns, K!handover
  <2>2. /\ stage' \in [K!Parkers -> Stages] /\ stage'[d] = "release"
        /\ \A e \in K!Parkers : e # d => stage'[e] = stage[e]
    BY <1>t, <2>1 DEF DriverType, Stages
  <2>3. OneHolder'
    BY <1>t, <2>1, <2>2 DEF OneHolder, K!Held
  <2>4. stage'[Taker] # "kernel"
    BY <1>t, <2>1, <2>2 DEF OneHolder, K!Held
  <2> QED BY <1>t, <2>1, <2>2, <2>3, <2>4 DEF DriverType, TakerParkInv
<1>18. ASSUME NEW d \in K!Parkers, K!LeavePark(d) PROVE (DriverType /\ OneHolder /\ TakerParkInv)'
  <2>1. /\ taker' = (IF d = Taker THEN "run" ELSE taker) /\ stage[d] \in {"release", "asleep", "woken"}
        /\ UNCHANGED <<requested, worker, wakePending, kernelWake, astray>>
    BY <1>18 DEF K!LeavePark, K!handover
  <2>2. PICK others : others = [stage EXCEPT ![d] = "out"]
    OBVIOUS
  <2>3. /\ others \in [K!Parkers -> Stages] /\ others[d] = "out"
        /\ \A e \in K!Parkers : e # d => others[e] = stage[e]
    BY <1>t, <2>2 DEF DriverType, Stages
  <2>4. /\ stage' \in [K!Parkers -> Stages] /\ stage'[d] = "out"
        /\ \A e \in K!Parkers : e # d => stage'[e] = stage[e] \/ (stage[e] = "asleep" /\ stage'[e] = "woken")
    <3>1. CASE stage' = others
      BY <2>3, <3>1
    <3>2. CASE stage[d] = "release" /\ K!NotifySleeper(others)
      <4>1. \A e \in K!Parkers : stage[e] = "asleep" => others[e] = "asleep"
        BY <2>3, <3>2
      <4> QED BY <2>3, <3>2, <4>1, NotifyMoves
    <3> QED BY <1>18, <2>2, <3>1, <3>2 DEF K!LeavePark
  <2>5. OneHolder'
    BY <1>t, <2>4 DEF OneHolder, K!Held
  <2>6. CASE d = Taker
    BY <1>t, <2>1, <2>4, <2>5, <2>6 DEF DriverType, TakerParkInv
  <2>7. CASE d # Taker
    BY <1>t, <2>1, <2>4, <2>5, <2>7 DEF DriverType, TakerParkInv
  <2> QED BY <2>6, <2>7
<1> QED BY <1>2, <1>3, <1>4, <1>5, <1>6, <1>7, <1>8, <1>9, <1>11, <1>12, <1>13, <1>14, <1>15, <1>16, <1>17, <1>18 DEF K!Next

(* TakeoverIsSound: the worker's queue has one owner at a time, no task is left in the *)
(* hand-over, the thread of the blocked future does not sleep beside its wake, and the  *)
(* takeover thread sleeps through the request for the queue only when another worker    *)
(* of the runtime got the driver's wake, in a one-worker runtime never; whatever the    *)
(* tasks, the thieves, the wakers, the other workers' parks and a shutdown do.          *)
THEOREM TakeoverIsSound == K!Spec => []TakeoverSound
<1>1. K!Init => TakeoverInv
  <2> SUFFICES ASSUME K!Init PROVE TakeoverInv
    OBVIOUS
  <2>1. place \in [Handed -> TaskPlaces] /\ \A j \in Handed : place[j] \in {"cell", "wlifo", "unborn"}
    BY DEF K!Init, TaskPlaces
  <2>2. HandOverType
    BY <2>1 DEF K!Init, HandOverType
  <2>3. HandOverInv /\ PlaceInv /\ K!RootNotAsleep
    BY <2>1 DEF K!Init, HandOverInv, PlaceInv, K!RootNotAsleep, TakerHas, HandedBack, Reclaims
  <2>4. DriverType /\ OneHolder /\ TakerParkInv
    BY DEF K!Init, DriverType, OneHolder, TakerParkInv, Stages, K!Held, K!Parkers
  <2> QED BY <2>2, <2>3, <2>4 DEF TakeoverInv, QueueOwned
<1>2. TakeoverInv /\ [K!Next]_(K!vars) => TakeoverInv'
  BY QueueOwnedStep, ParkStep DEF TakeoverInv
<1>3. TakeoverInv => K!TakeoverSound
  <2> SUFFICES ASSUME TakeoverInv PROVE K!TakeoverSound
    OBVIOUS
  <2>1. K!OneOwner
    BY DEF TakeoverInv, QueueOwned, HandOverType, HandOverInv, K!OneOwner, HandedBack, Reclaims
  <2>2. K!HandOverKeeps
    BY DEF TakeoverInv, QueueOwned, HandOverType, HandOverInv, PlaceInv, K!HandOverKeeps, K!At, TakerHas, HandedBack, Reclaims
  <2>3. K!ReturnAsked
    BY DEF TakeoverInv, TakerParkInv, K!ReturnAsked, K!SleepsUnasked
  <2> QED BY <2>1, <2>2, <2>3 DEF TakeoverInv, QueueOwned, K!TakeoverSound
<1> QED BY <1>1, <1>2, <1>3, PTL DEF K!Spec, TakeoverSound

-----------------------------------------------------------------------------
(* The current-thread scheduler (scheduler/current_thread.rs).  Where an entry of a task  *)
(* can stand: in one of the three queues, in the hands of a remote thread that carries it *)
(* to a queue, or in those of one that returns a finished task to its owner.              *)

QueueNames == {"local", "injection", "deferred"}
CarryPcs == {"register", "enqueue", "inject"}
Stands(k, x, t) ==
  \/ k \in QueueNames /\ x = 0 /\ Occurs(queues[k], t)
  \/ k = "carried" /\ x \in Remotes /\ remote[x].pc \in CarryPcs /\ remote[x].task = t
  \/ k = "returned" /\ x \in Remotes /\ remote[x].pc = "defer" /\ remote[x].task = t
ToRun == {"local", "injection", "carried"}
ToFree == {"deferred", "returned"}

CellRec == [state : {"unborn", "idle", "queued", "running", "done", "freed", "lost"},
            again : BOOLEAN, cancelled : BOOLEAN, handle : BOOLEAN]
LoopPcs == {"drain", "root", "next", "run", "advance", "recheck", "parked"}
MainPcs == LoopPcs \cup {"out", "enter", "cleanup", "release", "cancel", "sweep", "sweeprun", "complete"}
RemotePcs == {"idle", "register", "enqueue", "inject", "unpark", "unparkroot", "defer"}
MainRec == [pc : MainPcs, task : Tasks \cup {C!Nobody}, timed : BOOLEAN]
RemoteRec == [pc : RemotePcs, task : Tasks \cup {C!Nobody}]

ListsType ==
  /\ queues \in [local : Seq(Tasks), injection : Seq(Tasks), deferred : Seq(Tasks)]
  /\ \A q \in QueueNames : Distinct(queues[q])
CellType == cell \in [Tasks -> CellRec]
MainType == main \in MainRec
RemoteType ==
  /\ remote \in [Remotes -> RemoteRec]
  /\ \A r \in Remotes : remote[r].pc \in CarryPcs \cup {"defer"} => remote[r].task \in Tasks
PollInv == main.pc \in {"run", "sweeprun"} => main.task \in Tasks /\ cell[main.task].state = "running"

(* A task stands in one place at most, where it is to be run exactly when it is queued, *)
(* and where it is to be freed only once it is done and its handle is gone.             *)
PlaceOf(t) ==
  /\ \A k, x, l, y : Stands(k, x, t) /\ Stands(l, y, t) => k = l /\ x = y
  /\ cell[t].state = "queued" <=> \E k, x : k \in ToRun /\ Stands(k, x, t)
  /\ (\E k, x : k \in ToFree /\ Stands(k, x, t)) => cell[t].state = "done" /\ ~cell[t].handle

StandInv ==
  ListsType /\ CellType /\ MainType /\ RemoteType /\ PollInv /\ \A t \in Tasks : PlaceOf(t)

(* What a step makes of a task. *)
Stays(t) ==
  /\ \A k, x : Stands(k, x, t)' <=> Stands(k, x, t)
  /\ cell'[t].state = "queued" <=> cell[t].state = "queued"
  /\ cell[t].state = "done" /\ ~cell[t].handle => cell'[t].state = "done" /\ ~cell'[t].handle
Nowhere(t) == (\A k, x : ~Stands(k, x, t)') /\ cell'[t].state # "queued"
Stood(t, k0, x0) ==
  /\ \A k, x : Stands(k, x, t)' <=> k = k0 /\ x = x0
  /\ \/ k0 \in ToRun /\ cell'[t].state = "queued"
     \/ k0 \in ToFree /\ cell'[t].state = "done" /\ ~cell'[t].handle
Accounted(t) == Stays(t) \/ Nowhere(t) \/ \E k, x : Stood(t, k, x)

LEMMA AccountedStep ==
  ASSUME NEW t \in Tasks, PlaceOf(t), Accounted(t)
  PROVE  PlaceOf(t)'
<1>1. CASE Stays(t)
  BY <1>1 DEF Stays, PlaceOf
<1>2. CASE Nowhere(t)
  BY <1>2 DEF Nowhere, PlaceOf
<1>3. ASSUME NEW k0, NEW x0, Stood(t, k0, x0) PROVE PlaceOf(t)'
  <2>1. \A k, x : Stands(k, x, t)' <=> k = k0 /\ x = x0
    BY <1>3 DEF Stood
  <2>2. CASE k0 \in ToRun /\ cell'[t].state = "queued"
    <3>1. k0 \notin ToFree
      BY <2>2 DEF ToRun, ToFree
    <3> QED BY <2>1, <2>2, <3>1 DEF PlaceOf
  <2>3. CASE k0 \in ToFree /\ cell'[t].state = "done" /\ ~cell'[t].handle
    <3>1. k0 \notin ToRun
      BY <2>3 DEF ToRun, ToFree
    <3> QED BY <2>1, <2>3, <3>1 DEF PlaceOf
  <2> QED BY <1>3, <2>2, <2>3 DEF Stood
<1> QED BY <1>1, <1>2, <1>3 DEF Accounted

(* An entry at the back of a queue, and one taken from its front. *)
LEMMA ListPut ==
  ASSUME ListsType, NEW q \in QueueNames, NEW t \in Tasks, ~Occurs(queues[q], t), C!Put(q, t)
  PROVE  /\ ListsType'
         /\ \A p \in QueueNames : \A u : Occurs(queues'[p], u) <=> Occurs(queues[p], u) \/ (p = q /\ u = t)
         /\ \A p \in QueueNames : p # q => queues'[p] = queues[p]
<1>1. queues[q] \in Seq(Tasks) /\ Distinct(queues[q]) /\ queues' = [queues EXCEPT ![q] = Append(queues[q], t)]
  BY DEF ListsType, QueueNames, C!Put
<1>2. PICK a : a = Append(queues[q], t)
  OBVIOUS
<1>3. a \in Seq(Tasks) /\ Distinct(a) /\ \A u : Occurs(a, u) <=> Occurs(queues[q], u) \/ u = t
  BY <1>1, <1>2, AppendFacts
<1>4. queues' = [queues EXCEPT ![q] = a]
  BY <1>1, <1>2
<1>5. queues'[q] = a /\ (\A p \in QueueNames : p # q => queues'[p] = queues[p])
      /\ queues' \in [local : Seq(Tasks), injection : Seq(Tasks), deferred : Seq(Tasks)]
  BY <1>3, <1>4 DEF ListsType, QueueNames
<1>6. ListsType'
  BY <1>3, <1>5 DEF ListsType
<1> QED BY <1>3, <1>5, <1>6

LEMMA ListTake ==
  ASSUME ListsType, NEW q \in QueueNames, queues[q] # <<>>,
         queues' = [queues EXCEPT ![q] = Tail(queues[q])], NEW h, h = Head(queues[q])
  PROVE  /\ ListsType' /\ h \in Tasks /\ Occurs(queues[q], h)
         /\ \A p \in QueueNames : \A u : Occurs(queues'[p], u) <=> Occurs(queues[p], u) /\ ~(p = q /\ u = h)
<1>1. queues[q] \in Seq(Tasks) /\ Distinct(queues[q])
  BY DEF ListsType, QueueNames
<1>2. PICK b : b = Tail(queues[q])
  OBVIOUS
<1>3. /\ b \in Seq(Tasks) /\ Distinct(b) /\ h \in Tasks /\ ~Occurs(b, h)
      /\ \A u : Occurs(queues[q], u) <=> Occurs(b, u) \/ u = h
  BY <1>1, <1>2, TailFacts
<1>4. queues' = [queues EXCEPT ![q] = b]
  BY <1>2
<1>5. queues'[q] = b /\ (\A p \in QueueNames : p # q => queues'[p] = queues[p])
      /\ queues' \in [local : Seq(Tasks), injection : Seq(Tasks), deferred : Seq(Tasks)]
  BY <1>3, <1>4 DEF ListsType, QueueNames
<1>6. ListsType'
  BY <1>3, <1>5 DEF ListsType
<1> QED BY <1>3, <1>5, <1>6

(* A step that moves no entry: the queues and the cells stay, and so do the hands. *)
EmptyPcs == {"idle", "unpark", "unparkroot"}
Still ==
  /\ UNCHANGED <<queues, cell>>
  /\ \A r \in Remotes : remote'[r] = remote[r] \/ (remote[r].pc \in EmptyPcs /\ remote'[r].pc \in EmptyPcs)

LEMMA StillStep ==
  ASSUME StandInv, Still, MainType', RemoteType', PollInv'
  PROVE  StandInv'
<1>1. ListsType' /\ CellType'
  BY DEF StandInv, Still, ListsType, CellType
<1>2. \A t \in Tasks : \A k, x : Stands(k, x, t)' <=> Stands(k, x, t)
  BY DEF Still, Stands, EmptyPcs, CarryPcs
<1>3. \A t \in Tasks : Accounted(t)
  BY <1>2 DEF Accounted, Stays, Still
<1>4. \A t \in Tasks : PlaceOf(t)'
  BY <1>3, AccountedStep DEF StandInv
<1> QED BY <1>1, <1>4 DEF StandInv

(* A step about one task: the others keep their cells and their places. *)
Elsewhere(t) ==
  \A u \in Tasks : u # t => cell'[u] = cell[u] /\ \A k, x : Stands(k, x, u)' <=> Stands(k, x, u)
TypesAfter == ListsType' /\ CellType' /\ MainType' /\ RemoteType' /\ PollInv'

LEMMA OneTaskStep ==
  ASSUME StandInv, NEW t \in Tasks, Elsewhere(t), Accounted(t), TypesAfter
  PROVE  StandInv'
<1>1. \A u \in Tasks : Accounted(u)
  BY DEF Elsewhere, Accounted, Stays
<1>2. \A u \in Tasks : PlaceOf(u)'
  BY <1>1, AccountedStep DEF StandInv
<1> QED BY <1>2 DEF StandInv, TypesAfter

LEMMA NoPlace ==
  ASSUME NEW t \in Tasks, PlaceOf(t), cell[t].state # "queued", cell[t].state # "done" \/ cell[t].handle
  PROVE  \A k, x : ~Stands(k, x, t)
<1>1. \A k, x : Stands(k, x, t) => k \in ToRun \/ k \in ToFree
  BY DEF Stands, ToRun, ToFree, QueueNames
<1> QED BY <1>1 DEF PlaceOf

(* The owner thread's enqueue of a task that has no entry. *)
LEMMA PutPlaces ==
  ASSUME StandInv, NEW t \in Tasks, \A k, x : ~Stands(k, x, t), C!Put("local", t), UNCHANGED remote
  PROVE  /\ ListsType' /\ \A k, x : Stands(k, x, t)' <=> k = "local" /\ x = 0
         /\ \A u \in Tasks : u # t => \A k, x : Stands(k, x, u)' <=> Stands(k, x, u)
<1>1. ~Occurs(queues["local"], t) /\ "local" \in QueueNames /\ ListsType
  BY DEF Stands, QueueNames, StandInv
<1>2. /\ ListsType'
      /\ \A p \in QueueNames : \A u : Occurs(queues'[p], u) <=> Occurs(queues[p], u) \/ (p = "local" /\ u = t)
  BY <1>1, ListPut
<1> QED BY <1>1, <1>2 DEF Stands

(* The front entry of a queue is run or given up. *)
LEMMA TakesStep ==
  ASSUME StandInv, NEW q \in QueueNames, NEW p \in {"run", "sweeprun"}, C!Takes(q, p), UNCHANGED remote
  PROVE  StandInv'
<1>0. ListsType /\ CellType /\ MainType /\ RemoteType /\ PollInv /\ \A t \in Tasks : PlaceOf(t)
  BY DEF StandInv
<1>1. PICK h : h = Head(queues[q])
  OBVIOUS
<1>2. queues[q] # <<>> /\ queues' = [queues EXCEPT ![q] = Tail(queues[q])]
  BY DEF C!Takes
<1>3. /\ ListsType' /\ h \in Tasks /\ Occurs(queues[q], h)
      /\ \A l \in QueueNames : \A u : Occurs(queues'[l], u) <=> Occurs(queues[l], u) /\ ~(l = q /\ u = h)
  BY <1>0, <1>1, <1>2, ListTake
<1>4. \A u \in Tasks : u # h => \A k, x : Stands(k, x, u)' <=> Stands(k, x, u)
  BY <1>3 DEF Stands
<1>5. Stands(q, 0, h)
  BY <1>3 DEF Stands
<1>6. \A k, x : ~Stands(k, x, h)'
  <2> SUFFICES ASSUME NEW k, NEW x, Stands(k, x, h)' PROVE FALSE
    OBVIOUS
  <2>1. Stands(k, x, h) /\ ~(k = q /\ x = 0)
    BY <1>3 DEF Stands, QueueNames
  <2> QED BY <1>0, <1>3, <1>5, <2>1 DEF PlaceOf
<1>7. RemoteType'
  BY <1>0 DEF RemoteType
<1>8. CASE cell[h].state = "queued" /\ ~cell[h].cancelled
  <2>1. cell' = [cell EXCEPT ![h].state = "running"] /\ main' = [main EXCEPT !.pc = p, !.task = h]
    BY <1>1, <1>8 DEF C!Takes
  <2>2. CellType' /\ cell'[h].state = "running" /\ \A u \in Tasks : u # h => cell'[u] = cell[u]
    BY <1>0, <1>3, <2>1 DEF CellType, CellRec
  <2>3. MainType' /\ main'.task = h
    BY <1>0, <1>3, <2>1 DEF MainType, MainRec, MainPcs, LoopPcs
  <2>4. TypesAfter
    BY <1>3, <1>7, <2>2, <2>3 DEF TypesAfter, PollInv
  <2>5. Accounted(h) /\ Elsewhere(h)
    BY <1>4, <1>6, <2>2 DEF Accounted, Nowhere, Elsewhere
  <2> QED BY <1>3, <2>4, <2>5, OneTaskStep
<1>9. CASE ~(cell[h].state = "queued" /\ ~cell[h].cancelled)
  <2>1. /\ cell' = [cell EXCEPT ![h].state = IF cell[h].state = "queued" THEN "done" ELSE "freed"]
        /\ C!GoMain(IF p = "run" THEN "drain" ELSE "sweep")
    BY <1>1, <1>9 DEF C!Takes
  <2>2. CellType' /\ cell'[h].state # "queued" /\ \A u \in Tasks : u # h => cell'[u] = cell[u]
    BY <1>0, <1>3, <2>1 DEF CellType, CellRec
  <2>3. MainType' /\ main'.pc \in {"drain", "sweep"}
    BY <1>0, <2>1 DEF MainType, MainRec, MainPcs, LoopPcs, C!GoMain
  <2>4. TypesAfter
    BY <1>3, <1>7, <2>2, <2>3 DEF TypesAfter, PollInv
  <2>5. Accounted(h) /\ Elsewhere(h)
    BY <1>4, <1>6, <2>2 DEF Accounted, Nowhere, Elsewhere
  <2> QED BY <1>3, <2>4, <2>5, OneTaskStep
<1> QED BY <1>8, <1>9

(* A remote thread with empty hands takes up a task that has no entry. *)
LEMMA RemoteTakes ==
  ASSUME StandInv, NEW r \in Remotes, NEW t \in Tasks, \A k, x : ~Stands(k, x, t),
         remote[r].pc = "idle", NEW p \in CarryPcs \cup {"defer"}, UNCHANGED queues,
         remote' = [remote EXCEPT ![r] = [pc |-> p, task |-> t]]
  PROVE  /\ RemoteType'
         /\ \A k, x : Stands(k, x, t)' <=> k = (IF p = "defer" THEN "returned" ELSE "carried") /\ x = r
         /\ \A u \in Tasks : u # t => \A k, x : Stands(k, x, u)' <=> Stands(k, x, u)
<1>0. remote \in [Remotes -> RemoteRec] /\ \A s \in Remotes : remote[s].pc \in CarryPcs \cup {"defer"} => remote[s].task \in Tasks
  BY DEF StandInv, RemoteType
<1>1. /\ remote'[r].pc = p /\ remote'[r].task = t /\ \A s \in Remotes : s # r => remote'[s] = remote[s]
  BY <1>0
<1>2. RemoteType'
  BY <1>0 DEF RemoteType, RemoteRec, RemotePcs, CarryPcs
<1>3. \A u \in Tasks : u # t => \A k, x : Stands(k, x, u)' <=> Stands(k, x, u)
  BY <1>1 DEF Stands, CarryPcs
<1>4. \A k, x : Stands(k, x, t)' <=> k = (IF p = "defer" THEN "returned" ELSE "carried") /\ x = r
  BY <1>1 DEF Stands, CarryPcs, QueueNames
<1> QED BY <1>2, <1>3, <1>4

(* A remote thread empties its hands, into a queue or by losing the entry: it was the *)
(* only one of the task.                                                              *)
LEMMA HandLeaves ==
  ASSUME StandInv, NEW r \in Remotes, remote[r].pc \in CarryPcs \cup {"defer"}, NEW t, t = remote[r].task,
         NEW p \in {"idle", "unpark"}, C!GoRemote(r, p)
  PROVE  /\ RemoteType' /\ t \in Tasks /\ cell[t].state = (IF remote[r].pc = "defer" THEN "done" ELSE "queued")
         /\ remote[r].pc = "defer" => ~cell[t].handle
         /\ \A s \in Remotes : remote'[s].task = t => remote'[s].pc \notin CarryPcs \cup {"defer"}
         /\ \A q \in QueueNames : ~Occurs(queues[q], t)
         /\ \A s \in Remotes : remote'[s] = remote[s] \/ (remote[s].task = t /\ s = r /\ remote'[s].pc = p)
<1>0. /\ remote \in [Remotes -> RemoteRec] /\ PlaceOf(t) /\ t \in Tasks
      /\ \A s \in Remotes : remote[s].pc \in CarryPcs \cup {"defer"} => remote[s].task \in Tasks
  BY DEF StandInv, RemoteType
<1>1. remote' = [remote EXCEPT ![r].pc = p]
  BY DEF C!GoRemote
<1>2. remote'[r].pc = p /\ remote'[r].task = t /\ \A s \in Remotes : s # r => remote'[s] = remote[s]
  BY <1>0, <1>1 DEF RemoteRec
<1>3. RemoteType'
  BY <1>0, <1>1 DEF RemoteType, RemoteRec, RemotePcs, CarryPcs
<1>4. PICK k0 : Stands(k0, r, t) /\ k0 = IF remote[r].pc = "defer" THEN "returned" ELSE "carried"
  BY DEF Stands
<1>5. \A k, x : Stands(k, x, t) => k = k0 /\ x = r
  BY <1>0, <1>4 DEF PlaceOf
<1>6. /\ cell[t].state = (IF remote[r].pc = "defer" THEN "done" ELSE "queued")
      /\ remote[r].pc = "defer" => ~cell[t].handle
  BY <1>0, <1>4 DEF PlaceOf, ToRun, ToFree
<1>7. \A q \in QueueNames : ~Occurs(queues[q], t)
  BY <1>4, <1>5 DEF Stands, QueueNames
<1>8. ASSUME NEW s \in Remotes, remote'[s].task = t, remote'[s].pc \in CarryPcs \cup {"defer"} PROVE FALSE
  <2>1. s # r
    BY <1>2, <1>8 DEF CarryPcs
  <2>2. Stands("carried", s, t) \/ Stands("returned", s, t)
    BY <1>2, <1>8, <2>1 DEF Stands
  <2> QED BY <1>5, <2>1, <2>2
<1> QED BY <1>0, <1>2, <1>3, <1>6, <1>7, <1>8

(* The thread that carried an entry puts it into a queue. *)
LEMMA HandPuts ==
  ASSUME StandInv, NEW r \in Remotes, remote[r].pc \in CarryPcs \cup {"defer"},
         NEW q \in QueueNames, q = (IF remote[r].pc = "defer" THEN "deferred" ELSE "injection"),
         C!Put(q, remote[r].task), C!Keep(r, "unpark"), UNCHANGED main
  PROVE  StandInv'
<1>1. PICK t : t = remote[r].task
  OBVIOUS
<1>2. /\ RemoteType' /\ t \in Tasks /\ cell[t].state = (IF remote[r].pc = "defer" THEN "done" ELSE "queued")
      /\ remote[r].pc = "defer" => ~cell[t].handle
      /\ \A s \in Remotes : remote'[s].task = t => remote'[s].pc \notin CarryPcs \cup {"defer"}
      /\ \A l \in QueueNames : ~Occurs(queues[l], t)
      /\ \A s \in Remotes : remote'[s] = remote[s] \/ (remote[s].task = t /\ s = r /\ remote'[s].pc = "unpark")
  BY <1>1, HandLeaves DEF C!Keep
<1>3. ListsType /\ CellType /\ MainType /\ PollInv /\ UNCHANGED <<cell, main>>
  BY DEF StandInv, C!Keep
<1>4. /\ ListsType'
      /\ \A l \in QueueNames : \A u : Occurs(queues'[l], u) <=> Occurs(queues[l], u) \/ (l = q /\ u = t)
  BY <1>1, <1>2, <1>3, ListPut
<1>5. TypesAfter
  BY <1>2, <1>3, <1>4 DEF TypesAfter, CellType, MainType, PollInv
<1>6. \A k, x : Stands(k, x, t)' <=> k = q /\ x = 0
  BY <1>2, <1>4 DEF Stands
<1>7. \A u \in Tasks : u # t => \A k, x : Stands(k, x, u)' <=> Stands(k, x, u)
  <2> SUFFICES ASSUME NEW u \in Tasks, u # t PROVE \A k, x : Stands(k, x, u)' <=> Stands(k, x, u)
    OBVIOUS
  <2>1. \A l \in QueueNames : Occurs(queues'[l], u) <=> Occurs(queues[l], u)
    BY <1>4
  <2>2. \A s \in Remotes : remote'[s] = remote[s] \/ (remote[s].task # u /\ remote'[s].pc = "unpark")
    BY <1>2
  <2> QED BY <2>1, <2>2 DEF Stands, CarryPcs
<1>8. Elsewhere(t)
  BY <1>3, <1>7 DEF Elsewhere
<1>9. Stood(t, q, 0)
  BY <1>2, <1>3, <1>6 DEF Stood, ToRun, ToFree
<1> QED BY <1>2, <1>5, <1>8, <1>9, OneTaskStep DEF Accounted

(* register_task's panic, and the pushes after shutdown: the entry is dropped. *)
LEMMA HandLoses ==
  ASSUME StandInv, NEW r \in Remotes, remote[r].pc \in CarryPcs \cup {"defer"}, C!Lose(r), UNCHANGED <<queues, main>>
  PROVE  StandInv'
<1>1. PICK t : t = remote[r].task
  OBVIOUS
<1>2. /\ RemoteType' /\ t \in Tasks /\ cell[t].state \in {"done", "queued"}
      /\ \A s \in Remotes : remote'[s].task = t => remote'[s].pc \notin CarryPcs \cup {"defer"}
      /\ \A l \in QueueNames : ~Occurs(queues[l], t)
      /\ \A s \in Remotes : remote'[s] = remote[s] \/ (remote[s].task = t /\ s = r /\ remote'[s].pc = "idle")
  BY <1>1, HandLeaves DEF C!Lose
<1>3. ListsType /\ CellType /\ MainType /\ PollInv
  BY DEF StandInv
<1>4. cell' = [cell EXCEPT ![t].state = "lost"]
  BY <1>1 DEF C!Lose
<1>5. CellType' /\ cell'[t].state = "lost" /\ \A u \in Tasks : u # t => cell'[u] = cell[u]
  BY <1>2, <1>3, <1>4 DEF CellType, CellRec
<1>6. TypesAfter
  BY <1>2, <1>3, <1>5 DEF TypesAfter, ListsType, MainType, PollInv
<1>7. \A k, x : ~Stands(k, x, t)'
  BY <1>2 DEF Stands
<1>8. \A u \in Tasks : u # t => \A k, x : Stands(k, x, u)' <=> Stands(k, x, u)
  BY <1>2 DEF Stands, CarryPcs
<1> QED BY <1>2, <1>5, <1>6, <1>7, <1>8, OneTaskStep DEF Accounted, Nowhere, Elsewhere

LEMMA StandStep ==
  ASSUME StandInv, armed \subseteq Tasks, [C!Next]_(C!vars)
  PROVE  StandInv'
<1>0. ListsType /\ CellType /\ MainType /\ RemoteType /\ PollInv /\ \A t \in Tasks : PlaceOf(t)
  BY DEF StandInv
<1>q. "local" \in QueueNames /\ "injection" \in QueueNames /\ "deferred" \in QueueNames
  BY DEF QueueNames
<1>1. CASE UNCHANGED C!vars
  BY <1>0, <1>1, StillStep DEF C!vars, C!parking, C!flags, Still, MainType, RemoteType, PollInv
<1>2. ASSUME NEW p \in MainPcs \ {"run", "sweeprun"}, C!GoMain(p), UNCHANGED <<queues, cell, remote>> PROVE StandInv'
  <2>1. MainType' /\ main'.pc = p
    BY <1>0, <1>2 DEF MainType, MainRec, C!GoMain
  <2> QED BY <1>0, <1>2, <2>1, StillStep DEF Still, RemoteType, PollInv
<1>3. CASE C!block_on \/ C!SetUnparker \/ C!PollRoot \/ C!Cleanup \/ C!shutdown \/ C!SetComplete
  <2>1. PICK p \in {"enter", "drain", "next", "cleanup", "release", "out", "cancel"} :
          C!GoMain(p) /\ UNCHANGED <<queues, cell, remote>>
    BY <1>3 DEF C!block_on, C!SetUnparker, C!PollRoot, C!Cleanup, C!shutdown, C!SetComplete
  <2> QED BY <1>2, <2>1 DEF MainPcs, LoopPcs
<1>4. CASE C!drain_deferred \/ C!next_task \/ C!Sweep
  <2>1. UNCHANGED remote
    BY <1>4 DEF C!drain_deferred, C!next_task, C!Sweep
  <2>2. \/ \E q \in QueueNames : C!Takes(q, "run") \/ C!Takes(q, "sweeprun")
        \/ (C!GoMain("root") \/ C!GoMain("advance") \/ C!GoMain("complete")) /\ UNCHANGED <<queues, cell>>
    <3>1. CASE C!drain_deferred
      BY <3>1, <1>q DEF C!drain_deferred
    <3>2. CASE C!next_task
      <4>1. \/ C!Takes("deferred", "run") \/ C!Takes("injection", "run") \/ C!Takes("local", "run")
            \/ C!GoMain("advance") /\ UNCHANGED <<queues, cell, tasks>>
        BY <3>2 DEF C!next_task
      <4> QED BY <4>1, <1>q
    <3>3. CASE C!Sweep
      <4>1. \/ C!Takes("deferred", "sweeprun") \/ C!Takes("injection", "sweeprun") \/ C!Takes("local", "sweeprun")
            \/ C!GoMain("complete") /\ UNCHANGED <<queues, cell, tasks>>
        BY <3>3 DEF C!Sweep
      <4> QED BY <4>1, <1>q
    <3> QED BY <1>4, <3>1, <3>2, <3>3
  <2>3. ASSUME NEW q \in QueueNames, C!Takes(q, "run") \/ C!Takes(q, "sweeprun") PROVE StandInv'
    <3>1. PICK p \in {"run", "sweeprun"} : C!Takes(q, p)
      BY <2>3
    <3> QED BY <2>1, <3>1, TakesStep
  <2> QED BY <1>2, <2>1, <2>2, <2>3 DEF MainPcs, LoopPcs
<1>5. CASE C!EndPoll
  <2>1. PICK t \in Tasks : t = main.task /\ cell[t].state = "running"
    BY <1>0, <1>5 DEF PollInv, C!EndPoll
  <2>2. \A k, x : ~Stands(k, x, t)
    BY <1>0, <2>1, NoPlace
  <2>3. MainType' /\ main'.pc \in {"drain", "sweep"}
    BY <1>0, <1>5 DEF MainType, MainRec, MainPcs, LoopPcs, C!GoMain, C!EndPoll
  <2>4. RemoteType' /\ UNCHANGED remote /\ PollInv'
    BY <1>0, <1>5, <2>3 DEF C!EndPoll, RemoteType, PollInv
  <2>5. ASSUME NEW next \in {"done", "idle", "queued"}, cell' = [cell EXCEPT ![t].state = next, ![t].again = FALSE]
        PROVE  CellType' /\ cell'[t].state = next /\ \A u \in Tasks : u # t => cell'[u] = cell[u]
    BY <1>0, <2>5 DEF CellType, CellRec
  <2>6. \/ \E next \in {"done", "idle"} : cell' = [cell EXCEPT ![t].state = next, ![t].again = FALSE] /\ UNCHANGED queues
        \/ cell' = [cell EXCEPT ![t].state = "queued", ![t].again = FALSE] /\ C!Put("local", t)
    BY <1>5, <2>1 DEF C!EndPoll, C!AfterPoll
  <2>7. ASSUME NEW next \in {"done", "idle"}, cell' = [cell EXCEPT ![t].state = next, ![t].again = FALSE], UNCHANGED queues
        PROVE  StandInv'
    <3>1. CellType' /\ cell'[t].state # "queued" /\ \A u \in Tasks : u # t => cell'[u] = cell[u]
      BY <2>5, <2>7
    <3>2. \A u : \A k, x : Stands(k, x, u)' <=> Stands(k, x, u)
      BY <2>4, <2>7 DEF Stands
    <3>3. TypesAfter
      BY <1>0, <2>3, <2>4, <2>7, <3>1 DEF TypesAfter, ListsType
    <3> QED BY <2>2, <3>1, <3>2, <3>3, OneTaskStep DEF Accounted, Nowhere, Elsewhere
  <2>8. CASE cell' = [cell EXCEPT ![t].state = "queued", ![t].again = FALSE] /\ C!Put("local", t)
    <3>1. CellType' /\ cell'[t].state = "queued" /\ \A u \in Tasks : u # t => cell'[u] = cell[u]
      BY <2>5, <2>8
    <3>2. /\ ListsType' /\ \A k, x : Stands(k, x, t)' <=> k = "local" /\ x = 0
          /\ \A u \in Tasks : u # t => \A k, x : Stands(k, x, u)' <=> Stands(k, x, u)
      BY <2>2, <2>4, <2>8, PutPlaces
    <3>3. Stood(t, "local", 0)
      BY <3>1, <3>2 DEF Stood, ToRun
    <3> QED BY <2>3, <2>4, <3>1, <3>2, <3>3, OneTaskStep DEF TypesAfter, Accounted, Elsewhere
  <2> QED BY <2>6, <2>7, <2>8
<1>6. ASSUME NEW t \in Tasks, cell[t].state \in {"idle", "unborn"}, MainType', PollInv', UNCHANGED remote, CellType',
             cell'[t].state = "queued", \A u \in Tasks : u # t => cell'[u] = cell[u], C!Put("local", t)
      PROVE  StandInv'
  <2>1. \A k, x : ~Stands(k, x, t)
    BY <1>0, <1>6, NoPlace
  <2>2. /\ ListsType' /\ \A k, x : Stands(k, x, t)' <=> k = "local" /\ x = 0
        /\ \A u \in Tasks : u # t => \A k, x : Stands(k, x, u)' <=> Stands(k, x, u)
    BY <1>6, <2>1, PutPlaces
  <2>3. Stood(t, "local", 0)
    BY <1>6, <2>2 DEF Stood, ToRun
  <2>4. RemoteType'
    BY <1>0, <1>6 DEF RemoteType
  <2> QED BY <1>6, <2>2, <2>3, <2>4, OneTaskStep DEF TypesAfter, Accounted, Elsewhere
<1>7. ASSUME NEW t \in Tasks, cell[t].state = "running", cell' = [cell EXCEPT ![t].again = TRUE],
             UNCHANGED <<queues, main, remote>>
      PROVE  StandInv'
  <2>1. /\ CellType' /\ cell'[t].state = "running" /\ cell'[t].handle = cell[t].handle
        /\ \A u \in Tasks : u # t => cell'[u] = cell[u]
    BY <1>0, <1>7 DEF CellType, CellRec
  <2>2. \A u : \A k, x : Stands(k, x, u)' <=> Stands(k, x, u)
    BY <1>7 DEF Stands
  <2>3. TypesAfter
    BY <1>0, <1>7, <2>1 DEF TypesAfter, ListsType, MainType, RemoteType, PollInv
  <2> QED BY <1>7, <2>1, <2>2, <2>3, OneTaskStep DEF Accounted, Stays, Elsewhere
<1>8. ASSUME NEW t \in Tasks, C!LocalWake(t) PROVE StandInv'
  <2>1. CASE cell[t].state = "idle"
    <3>1. cell' = [cell EXCEPT ![t].state = "queued"] /\ C!Put("local", t) /\ UNCHANGED <<main, remote>>
      BY <1>8, <2>1 DEF C!LocalWake
    <3>2. CellType' /\ cell'[t].state = "queued" /\ \A u \in Tasks : u # t => cell'[u] = cell[u]
      BY <1>0, <3>1 DEF CellType, CellRec
    <3>3. MainType' /\ PollInv'
      BY <1>0, <2>1, <3>1, <3>2 DEF MainType, PollInv
    <3> QED BY <1>6, <2>1, <3>1, <3>2, <3>3
  <2>2. CASE cell[t].state # "idle"
    BY <1>7, <1>8, <2>2 DEF C!LocalWake
  <2> QED BY <2>1, <2>2
<1>9. ASSUME NEW t \in Tasks, C!LocalSpawn(t) PROVE StandInv'
  <2>1. /\ cell' = [cell EXCEPT ![t].state = "queued", ![t].handle = TRUE] /\ C!Put("local", t)
        /\ UNCHANGED <<main, remote>> /\ cell[t].state = "unborn"
    BY <1>9 DEF C!LocalSpawn
  <2>2. CellType' /\ cell'[t].state = "queued" /\ \A u \in Tasks : u # t => cell'[u] = cell[u]
    BY <1>0, <2>1 DEF CellType, CellRec
  <2>3. MainType' /\ PollInv'
    BY <1>0, <2>1, <2>2 DEF MainType, PollInv
  <2> QED BY <1>6, <2>1, <2>2, <2>3
<1>10. CASE C!AdvanceTimers
  <2>1. PICK due \in {{}} \cup {{t} : t \in armed} :
          LET woke == {t \in due : cell[t].state = "idle"}
          IN  /\ cell' = [t \in Tasks |-> IF t \in woke THEN [cell[t] EXCEPT !.state = "queued"] ELSE cell[t]]
              /\ queues' = [queues EXCEPT !.local = IF woke = {} THEN queues.local ELSE Append(queues.local, CHOOSE t \in woke : TRUE)]
    BY <1>10 DEF C!AdvanceTimers
  <2>2. PICK woke : woke = {t \in due : cell[t].state = "idle"}
    OBVIOUS
  <2>3. /\ cell' = [t \in Tasks |-> IF t \in woke THEN [cell[t] EXCEPT !.state = "queued"] ELSE cell[t]]
        /\ queues' = [queues EXCEPT !.local = IF woke = {} THEN queues.local ELSE Append(queues.local, CHOOSE t \in woke : TRUE)]
    BY <2>1, <2>2
  <2>4. C!GoMain("recheck") /\ UNCHANGED remote
    BY <1>10 DEF C!AdvanceTimers
  <2>5. CASE woke = {}
    <3>1. cell' = cell /\ queues' = queues
      BY <1>0, <2>3, <2>5 DEF CellType, ListsType
    <3> QED BY <1>2, <2>4, <3>1 DEF MainPcs, LoopPcs
  <2>6. ASSUME NEW t, woke = {t}, t \in Tasks, cell[t].state = "idle" PROVE StandInv'
    <3>1. C!Put("local", t)
      BY <2>3, <2>6 DEF C!Put
    <3>2. CellType' /\ cell'[t].state = "queued" /\ \A u \in Tasks : u # t => cell'[u] = cell[u]
      BY <1>0, <2>3, <2>6 DEF CellType, CellRec
    <3>3. MainType' /\ PollInv'
      BY <1>0, <2>4 DEF MainType, PollInv, MainRec, MainPcs, LoopPcs, C!GoMain
    <3> QED BY <1>6, <2>4, <2>6, <3>1, <3>2, <3>3
  <2>7. woke = {} \/ \E t \in armed : woke = {t} /\ cell[t].state = "idle"
    BY <2>2
  <2> QED BY <2>5, <2>6, <2>7
<1>11. CASE C!Recheck
  <2>1. UNCHANGED <<queues, cell, remote>>
    BY <1>11 DEF C!Recheck
  <2>2. MainType' /\ main'.pc \in {"drain", "parked"}
    BY <1>0, <1>11 DEF C!Recheck, MainType, MainRec, MainPcs, LoopPcs, C!GoMain
  <2> QED BY <1>0, <2>1, <2>2, StillStep DEF Still, RemoteType, PollInv
<1>12. CASE C!Unpark
  <2>1. UNCHANGED <<queues, cell, remote>>
    BY <1>12 DEF C!Unpark
  <2>2. MainType' /\ main'.pc = "drain"
    BY <1>0, <1>12 DEF C!Unpark, MainType, MainRec, MainPcs, LoopPcs
  <2> QED BY <1>0, <2>1, <2>2, StillStep DEF Still, RemoteType, PollInv
<1>13. CASE C!CancelAll
  <2>1. /\ C!GoMain("sweep") /\ UNCHANGED <<queues, remote>>
        /\ cell' = [t \in Tasks |->
             IF t \notin tasks THEN cell[t]
             ELSE [cell[t] EXCEPT !.cancelled = TRUE, !.state = IF cell[t].state = "idle" THEN "done" ELSE cell[t].state]]
    BY <1>13 DEF C!CancelAll
  <2>2. /\ CellType'
        /\ \A t \in Tasks : /\ cell'[t].state = "queued" <=> cell[t].state = "queued"
                            /\ cell[t].state = "done" => cell'[t].state = "done"
                            /\ cell'[t].handle = cell[t].handle
    BY <1>0, <2>1 DEF CellType, CellRec
  <2>3. \A u : \A k, x : Stands(k, x, u)' <=> Stands(k, x, u)
    BY <2>1, ZenonT(60) DEF Stands
  <2>4. \A t \in Tasks : PlaceOf(t)'
    BY <1>0, <2>2, <2>3, AccountedStep DEF Accounted, Stays
  <2>5. MainType' /\ main'.pc = "sweep"
    BY <1>0, <2>1 DEF MainType, MainRec, MainPcs, C!GoMain
  <2> QED BY <1>0, <2>1, <2>2, <2>4, <2>5 DEF StandInv, ListsType, RemoteType, PollInv
<1>a. ASSUME NEW r \in Remotes, NEW t \in Tasks, cell[t].state \in {"idle", "unborn"}, remote[r].pc = "idle",
             NEW p \in CarryPcs, remote' = [remote EXCEPT ![r] = [pc |-> p, task |-> t]], UNCHANGED <<queues, main>>,
             CellType', cell'[t].state = "queued", \A u \in Tasks : u # t => cell'[u] = cell[u]
      PROVE  StandInv'
  <2>1. \A k, x : ~Stands(k, x, t)
    BY <1>0, <1>a, NoPlace
  <2>2. p # "defer"
    BY DEF CarryPcs
  <2>3. /\ RemoteType' /\ \A k, x : Stands(k, x, t)' <=> k = "carried" /\ x = r
        /\ \A u \in Tasks : u # t => \A k, x : Stands(k, x, u)' <=> Stands(k, x, u)
    BY <1>a, <2>1, <2>2, RemoteTakes, ZenonT(60)
  <2>4. TypesAfter
    BY <1>0, <1>a, <2>3 DEF TypesAfter, ListsType, MainType, PollInv
  <2>5. Stood(t, "carried", r)
    BY <1>a, <2>3 DEF Stood, ToRun
  <2> QED BY <1>a, <2>3, <2>4, <2>5, OneTaskStep DEF Accounted, Elsewhere
<1>14. ASSUME NEW r \in Remotes, NEW t \in Tasks, C!RemoteWake(r, t) PROVE StandInv'
  <2>1. CASE cell[t].state = "idle"
    <3>1. /\ cell' = [cell EXCEPT ![t].state = "queued"] /\ UNCHANGED <<queues, main>> /\ remote[r].pc = "idle"
          /\ remote' = [remote EXCEPT ![r] = [pc |-> "enqueue", task |-> t]]
      BY <1>14, <2>1 DEF C!RemoteWake
    <3> QED BY <1>0, <1>a, <2>1, <3>1 DEF CarryPcs, CellType, CellRec
  <2>2. CASE cell[t].state # "idle"
    BY <1>7, <1>14, <2>2 DEF C!RemoteWake
  <2> QED BY <2>1, <2>2
<1>15. ASSUME NEW r \in Remotes, NEW t \in Tasks, C!spawn(r, t) PROVE StandInv'
  <2>1. /\ cell' = [cell EXCEPT ![t].state = "queued", ![t].handle = TRUE] /\ UNCHANGED <<queues, main>>
        /\ remote[r].pc = "idle" /\ cell[t].state = "unborn"
        /\ remote' = [remote EXCEPT ![r] = [pc |-> "register", task |-> t]]
    BY <1>15 DEF C!spawn
  <2> QED BY <1>0, <1>a, <2>1 DEF CarryPcs, CellType, CellRec
<1>16. ASSUME NEW r \in Remotes, NEW t \in Tasks, C!DropHandle(r, t) PROVE StandInv'
  <2>1. cell[t].state = "done" /\ cell[t].handle /\ remote[r].pc = "idle" /\ UNCHANGED <<queues, main>>
    BY <1>16 DEF C!DropHandle
  <2>2. \A k, x : ~Stands(k, x, t)
    BY <1>0, <2>1, NoPlace
  <2>3. CASE shutdown_complete
    <3>1. cell' = [cell EXCEPT ![t].handle = FALSE, ![t].state = "freed"] /\ remote' = remote
      BY <1>16, <2>3 DEF C!DropHandle
    <3>2. CellType' /\ cell'[t].state = "freed" /\ \A u \in Tasks : u # t => cell'[u] = cell[u]
      BY <1>0, <3>1 DEF CellType, CellRec
    <3>3. \A u : \A k, x : Stands(k, x, u)' <=> Stands(k, x, u)
      BY <2>1, <3>1 DEF Stands
    <3>4. TypesAfter
      BY <1>0, <2>1, <3>1, <3>2 DEF TypesAfter, ListsType, MainType, RemoteType, PollInv
    <3> QED BY <2>2, <3>2, <3>3, <3>4, OneTaskStep DEF Accounted, Nowhere, Elsewhere
  <2>4. CASE ~shutdown_complete
    <3>1. /\ cell' = [cell EXCEPT ![t].handle = FALSE, ![t].state = cell[t].state]
          /\ remote' = [remote EXCEPT ![r] = [pc |-> "defer", task |-> t]]
      BY <1>16, <2>4 DEF C!DropHandle
    <3>2. CellType' /\ cell'[t].state = "done" /\ ~cell'[t].handle /\ \A u \in Tasks : u # t => cell'[u] = cell[u]
      BY <1>0, <2>1, <3>1 DEF CellType, CellRec
    <3>3. /\ RemoteType' /\ \A k, x : Stands(k, x, t)' <=> k = "returned" /\ x = r
          /\ \A u \in Tasks : u # t => \A k, x : Stands(k, x, u)' <=> Stands(k, x, u)
      <4>1. PICK p \in CarryPcs \cup {"defer"} : p = "defer"
        OBVIOUS
      <4>2. remote' = [remote EXCEPT ![r] = [pc |-> p, task |-> t]]
        BY <3>1, <4>1
      <4>3. /\ RemoteType'
            /\ \A k, x : Stands(k, x, t)' <=> k = (IF p = "defer" THEN "returned" ELSE "carried") /\ x = r
            /\ \A u \in Tasks : u # t => \A k, x : Stands(k, x, u)' <=> Stands(k, x, u)
        BY <2>1, <2>2, <4>2, RemoteTakes
      <4> QED BY <4>1, <4>3
    <3>4. TypesAfter
      BY <1>0, <2>1, <3>2, <3>3 DEF TypesAfter, ListsType, MainType, PollInv
    <3>5. Stood(t, "returned", r)
      BY <3>2, <3>3 DEF Stood, ToFree
    <3> QED BY <3>2, <3>3, <3>4, <3>5, OneTaskStep DEF Accounted, Elsewhere
  <2> QED BY <2>3, <2>4
<1>17. ASSUME NEW r \in Remotes, NEW p \in {"enqueue", "inject"}, remote[r].pc \in CarryPcs, C!Keep(r, p), UNCHANGED <<queues, main>>
       PROVE  StandInv'
  <2>1. remote' = [remote EXCEPT ![r].pc = p] /\ UNCHANGED <<cell, queues, main>>
    BY <1>17 DEF C!Keep, C!GoRemote
  <2>2. /\ RemoteType' /\ remote'[r].pc = p /\ remote'[r].task = remote[r].task
        /\ \A s \in Remotes : s # r => remote'[s] = remote[s]
    BY <1>0, <1>17, <2>1 DEF RemoteType, RemoteRec, RemotePcs, CarryPcs
  <2>3. \A u : \A k, x : Stands(k, x, u)' <=> Stands(k, x, u)
    BY <1>17, <2>1, <2>2 DEF Stands, CarryPcs
  <2>4. \A t \in Tasks : PlaceOf(t)'
    BY <1>0, <2>1, <2>3, AccountedStep DEF Accounted, Stays
  <2> QED BY <1>0, <2>1, <2>2, <2>4 DEF StandInv, ListsType, CellType, MainType, PollInv
<1>18. ASSUME NEW r \in Remotes, C!register_task(r) PROVE StandInv'
  <2>1. remote[r].pc \in CarryPcs /\ UNCHANGED <<queues, main>> /\ (C!Lose(r) \/ C!Keep(r, "enqueue"))
    BY <1>18 DEF C!register_task, CarryPcs
  <2> QED BY <1>17, <2>1, HandLoses
<1>19. ASSUME NEW r \in Remotes, C!enqueue(r) PROVE StandInv'
  <2>1. remote[r].pc \in CarryPcs /\ UNCHANGED <<queues, main>> /\ (C!Lose(r) \/ C!Keep(r, "inject"))
    BY <1>19 DEF C!enqueue, CarryPcs
  <2> QED BY <1>17, <2>1, HandLoses
<1>20. ASSUME NEW r \in Remotes, C!EnqueueInject(r) PROVE StandInv'
  <2>1. /\ remote[r].pc \in CarryPcs /\ remote[r].pc # "defer" /\ UNCHANGED main
        /\ (C!Lose(r) /\ UNCHANGED queues) \/ (C!Put("injection", remote[r].task) /\ C!Keep(r, "unpark"))
    BY <1>20 DEF C!EnqueueInject, CarryPcs
  <2> QED BY <1>q, <2>1, HandLoses, HandPuts
<1>21. ASSUME NEW r \in Remotes, C!defer_dealloc(r) PROVE StandInv'
  <2>1. /\ remote[r].pc = "defer" /\ UNCHANGED main
        /\ (C!Lose(r) /\ UNCHANGED queues) \/ (C!Put("deferred", remote[r].task) /\ C!Keep(r, "unpark"))
    BY <1>21 DEF C!defer_dealloc
  <2> QED BY <1>q, <2>1, HandLoses, HandPuts
<1>22. ASSUME NEW r \in Remotes, C!unpark_owner(r) \/ C!WakeRoot(r) \/ C!UnparkRoot(r) PROVE StandInv'
  <2>1. PICK p \in {"idle", "unparkroot"} : C!GoRemote(r, p) /\ remote[r].pc \in EmptyPcs /\ UNCHANGED <<queues, cell, main>>
    BY <1>22 DEF C!unpark_owner, C!WakeRoot, C!UnparkRoot, EmptyPcs
  <2>2. RemoteType' /\ remote'[r].pc = p /\ \A s \in Remotes : s # r => remote'[s] = remote[s]
    BY <1>0, <2>1 DEF C!GoRemote, RemoteType, RemoteRec, RemotePcs, CarryPcs
  <2>3. Still
    BY <2>1, <2>2 DEF Still, EmptyPcs
  <2> QED BY <1>0, <2>1, <2>2, <2>3, StillStep DEF MainType, PollInv
<1> QED BY <1>1, <1>3, <1>4, <1>5, <1>8, <1>9, <1>10, <1>11, <1>12, <1>13, <1>14, <1>15, <1>16, <1>18, <1>19, <1>20,
           <1>21, <1>22 DEF C!Next, C!OwnerStep, C!RemoteStep

(* The owner thread on its way to sleep.  A push by another thread is followed by its   *)
(* unpark, a wake of the root by the root's; both leave the token, which only the owner  *)
(* takes.  The local queue is filled by the owner alone, before it parks.                *)
Unparking(p) == \E r \in Remotes : remote[r].pc = p
SleepInv ==
  /\ armed \subseteq Tasks
  /\ main.pc \in LoopPcs => unparker
  /\ main.pc = "parked" => queues.local = <<>> /\ (armed # {} => main.timed)
  /\ main.pc = "parked" /\ ~token /\ (queues.injection # <<>> \/ queues.deferred # <<>>) => Unparking("unpark")
  /\ main.pc \in {"next", "advance", "recheck", "parked"} /\ ~token /\ woken => Unparking("unparkroot")

LEMMA SleepStep ==
  ASSUME StandInv, SleepInv, [C!Next]_(C!vars)
  PROVE  SleepInv'
<1>0. ListsType /\ MainType /\ remote \in [Remotes -> RemoteRec] /\ PollInv
  BY DEF StandInv, RemoteType
<1>m. \A p : C!GoMain(p) => main'.pc = p
  BY <1>0 DEF C!GoMain, MainType, MainRec
<1>r. ASSUME NEW r \in Remotes, NEW p, C!GoRemote(r, p)
      PROVE  remote'[r].pc = p /\ \A s \in Remotes : s # r => remote'[s] = remote[s]
  BY <1>0, <1>r DEF C!GoRemote, RemoteRec
<1> USE DEF LoopPcs
<1>1. CASE UNCHANGED C!vars
  BY <1>1 DEF C!vars, C!parking, C!flags, SleepInv, Unparking
<1>2. ASSUME main'.pc \notin LoopPcs, UNCHANGED armed PROVE SleepInv'
  BY <1>2 DEF SleepInv
<1>3. CASE C!block_on \/ C!Cleanup \/ C!shutdown \/ C!SetComplete \/ C!CancelAll
  BY <1>2, <1>3, <1>m DEF C!block_on, C!Cleanup, C!shutdown, C!SetComplete, C!CancelAll
<1>4. CASE C!SetUnparker
  BY <1>4, <1>m DEF C!SetUnparker, SleepInv
<1>5. ASSUME NEW q, NEW p \in {"run", "sweeprun"}, C!Takes(q, p)
      PROVE  main'.pc = p \/ main'.pc = (IF p = "run" THEN "drain" ELSE "sweep")
  <2>1. \/ \E h : main' = [main EXCEPT !.pc = p, !.task = h]
        \/ C!GoMain(IF p = "run" THEN "drain" ELSE "sweep")
    BY <1>5 DEF C!Takes
  <2> QED BY <1>0, <1>m, <2>1 DEF MainType, MainRec
<1>6. CASE C!drain_deferred
  <2>1. main'.pc \in {"run", "drain", "root"} /\ main.pc = "drain" /\ UNCHANGED <<armed, unparker>>
    BY <1>5, <1>6, <1>m DEF C!drain_deferred, C!parking
  <2> QED BY <2>1 DEF SleepInv
<1>7. CASE C!PollRoot
  <2>1. main'.pc \in {"next", "cleanup"} /\ main.pc = "root" /\ ~woken' /\ UNCHANGED <<armed, unparker>>
    BY <1>7, <1>m DEF C!PollRoot
  <2> QED BY <2>1 DEF SleepInv
<1>8. CASE C!next_task
  <2>1. \/ C!Takes("deferred", "run") \/ C!Takes("injection", "run") \/ C!Takes("local", "run")
        \/ C!GoMain("advance")
    BY <1>8 DEF C!next_task
  <2>2. main'.pc \in {"run", "drain", "advance"}
    BY <1>5, <1>m, <2>1
  <2>3. main.pc = "next" /\ UNCHANGED <<armed, unparker, token, woken, remote>>
    BY <1>8 DEF C!next_task, C!parking
  <2> QED BY <2>2, <2>3 DEF SleepInv, Unparking
<1>9. CASE C!EndPoll
  <2>1. /\ main'.pc = (IF main.pc = "run" THEN "drain" ELSE "sweep") /\ main.pc \in {"run", "sweeprun"}
        /\ armed' \subseteq armed \cup {main.task} /\ UNCHANGED unparker
    BY <1>9, <1>m DEF C!EndPoll, C!AfterPoll, C!parking
  <2> QED BY <1>0, <2>1 DEF SleepInv, PollInv
<1>10. ASSUME NEW t \in Tasks, C!LocalWake(t) \/ C!LocalSpawn(t) PROVE SleepInv'
  <2>1. main.pc \in {"next", "run"} /\ UNCHANGED <<armed, unparker, token, woken, main, remote>>
    BY <1>10 DEF C!LocalWake, C!LocalSpawn, C!parking
  <2> QED BY <2>1 DEF SleepInv, Unparking
<1>11. CASE C!AdvanceTimers
  <2>1. main'.pc = "recheck" /\ main.pc = "advance" /\ armed' \subseteq armed /\ UNCHANGED <<unparker, token, woken, remote>>
    BY <1>11, <1>m DEF C!AdvanceTimers, C!parking
  <2> QED BY <2>1 DEF SleepInv, Unparking
<1>12. CASE C!Recheck
  <2>1. main.pc = "recheck" /\ UNCHANGED <<armed, unparker, token, woken, remote, queues>>
    BY <1>12 DEF C!Recheck, C!parking
  <2>2. CASE C!SeesWork
    BY <1>12, <1>m, <2>1, <2>2 DEF C!Recheck, SleepInv
  <2>3. CASE ~C!SeesWork
    <3>1. main' = [main EXCEPT !.pc = "parked", !.timed = armed # {}]
      BY <1>12, <2>3 DEF C!Recheck
    <3>2. main'.pc = "parked" /\ (armed # {} => main'.timed)
      BY <1>0, <3>1 DEF MainType, MainRec
    <3>3. queues.deferred = <<>> /\ queues.local = <<>> /\ queues.injection = <<>>
      BY <2>3 DEF C!SeesWork
    <3> QED BY <2>1, <3>2, <3>3 DEF SleepInv, Unparking
  <2> QED BY <2>2, <2>3
<1>13. CASE C!Unpark
  <2>1. main'.pc = "drain" /\ main.pc = "parked" /\ UNCHANGED <<armed, unparker>>
    BY <1>0, <1>13 DEF C!Unpark, MainType, MainRec
  <2> QED BY <2>1 DEF SleepInv
<1>14. CASE C!Sweep
  <2>1. \/ C!Takes("deferred", "sweeprun") \/ C!Takes("injection", "sweeprun") \/ C!Takes("local", "sweeprun")
        \/ C!GoMain("complete")
    BY <1>14 DEF C!Sweep
  <2>2. main'.pc \in {"sweeprun", "sweep", "complete"} /\ UNCHANGED armed
    BY <1>5, <1>14, <1>m, <2>1 DEF C!Sweep
  <2> QED BY <1>2, <2>2
<1>15. ASSUME NEW r \in Remotes, remote[r].pc \notin {"unpark", "unparkroot"},
              \A s \in Remotes : s # r => remote'[s] = remote[s],
              UNCHANGED <<armed, unparker, token, main>>, woken' => woken \/ remote'[r].pc = "unparkroot",
              queues'.local = queues.local,
              (queues'.injection = queues.injection /\ queues'.deferred = queues.deferred) \/ remote'[r].pc = "unpark"
       PROVE  SleepInv'
  <2>1. \A p \in {"unpark", "unparkroot"} : Unparking(p) \/ remote'[r].pc = p => Unparking(p)'
    BY <1>15 DEF Unparking
  <2> QED BY <1>15, <2>1 DEF SleepInv
<1>16. ASSUME NEW r \in Remotes, NEW t \in Tasks, C!RemoteWake(r, t) \/ C!spawn(r, t) \/ C!DropHandle(r, t)
       PROVE  SleepInv'
  <2>1. /\ remote[r].pc = "idle" /\ \A s \in Remotes : s # r => remote'[s] = remote[s]
        /\ UNCHANGED <<armed, unparker, token, main, woken, queues>>
    BY <1>0, <1>16 DEF C!RemoteWake, C!spawn, C!DropHandle, C!parking
  <2> QED BY <1>15, <2>1
<1>17. ASSUME NEW r \in Remotes, C!register_task(r) \/ C!enqueue(r) PROVE SleepInv'
  <2>1. /\ remote[r].pc \in {"register", "enqueue"} /\ \E p : C!GoRemote(r, p)
        /\ UNCHANGED <<armed, unparker, token, main, woken, queues>>
    BY <1>17 DEF C!register_task, C!enqueue, C!Lose, C!Keep, C!parking
  <2>2. \A s \in Remotes : s # r => remote'[s] = remote[s]
    BY <1>r, <2>1
  <2> QED BY <1>15, <2>1, <2>2
<1>18. ASSUME NEW r \in Remotes, C!EnqueueInject(r) \/ C!defer_dealloc(r) PROVE SleepInv'
  <2>1. /\ remote[r].pc \in {"inject", "defer"} /\ UNCHANGED <<armed, unparker, token, main, woken>>
        /\ \/ C!GoRemote(r, "idle") /\ UNCHANGED queues
           \/ C!GoRemote(r, "unpark") /\ \E q \in {"injection", "deferred"} : C!Put(q, remote[r].task)
    BY <1>18 DEF C!EnqueueInject, C!defer_dealloc, C!Lose, C!Keep, C!parking
  <2>2. \A s \in Remotes : s # r => remote'[s] = remote[s]
    BY <1>r, <2>1
  <2>3. queues'.local = queues.local
    BY <1>0, <2>1 DEF C!Put, ListsType
  <2>4. queues' = queues \/ remote'[r].pc = "unpark"
    BY <1>r, <2>1
  <2> QED BY <1>15, <2>1, <2>2, <2>3, <2>4
<1>19. ASSUME NEW r \in Remotes, C!WakeRoot(r) PROVE SleepInv'
  <2>1. /\ remote[r].pc = "idle" /\ C!GoRemote(r, "unparkroot") /\ UNCHANGED <<armed, unparker, token, main, queues>>
    BY <1>19 DEF C!WakeRoot
  <2>2. remote'[r].pc = "unparkroot" /\ \A s \in Remotes : s # r => remote'[s] = remote[s]
    BY <1>r, <2>1
  <2> QED BY <1>15, <2>1, <2>2
<1>20. ASSUME NEW r \in Remotes, C!unpark_owner(r) PROVE SleepInv'
  <2>1. /\ remote[r].pc = "unpark" /\ C!GoRemote(r, "idle") /\ UNCHANGED <<armed, unparker, main, woken, queues>>
        /\ token' = (token \/ unparker)
    BY <1>20 DEF C!unpark_owner, C!Unparks
  <2>2. \A s \in Remotes : s # r => remote'[s] = remote[s]
    BY <1>r, <2>1
  <2>3. Unparking("unparkroot") => Unparking("unparkroot")'
    BY <2>1, <2>2 DEF Unparking
  <2> QED BY <2>1, <2>3 DEF SleepInv
<1>21. ASSUME NEW r \in Remotes, C!UnparkRoot(r) PROVE SleepInv'
  <2>1. token' /\ UNCHANGED <<armed, unparker, main, woken, queues>>
    BY <1>21 DEF C!UnparkRoot
  <2> QED BY <2>1 DEF SleepInv
<1> QED BY <1>1, <1>3, <1>4, <1>6, <1>7, <1>8, <1>9, <1>10, <1>11, <1>12, <1>13, <1>14, <1>16, <1>17, <1>18, <1>19,
           <1>20, <1>21 DEF C!Next, C!OwnerStep, C!RemoteStep

LEMMA CurrentNames == \A S : C!Cardinality(S) = Cardinality(S)
  BY DEF C!Cardinality, Cardinality

(* CurrentThreadIsSound: with any number of remote threads, a task of a current-thread     *)
(* runtime has the one entry its state says, from spawn, wake and reschedule to shutdown's  *)
(* drain and the return of a dropped handle; and the owner thread never sleeps in block_on  *)
(* beside work or a woken root unless the unpark that ends its sleep is on its way          *)
(* (enqueue, defer_dealloc, unpark_owner, RootSignal).                                      *)
THEOREM CurrentThreadIsSound == C!Spec => []CurrentThreadSound
<1> DEFINE Inv == StandInv /\ SleepInv
<1>1. C!Init => Inv
  <2> SUFFICES ASSUME C!Init PROVE Inv
    OBVIOUS
  <2>1. /\ queues = [local |-> <<>>, injection |-> <<>>, deferred |-> <<>>]
        /\ cell = [t \in Tasks |-> C!Unborn] /\ main = [pc |-> "out", task |-> C!Nobody, timed |-> FALSE]
        /\ remote = [r \in Remotes |-> [pc |-> "idle", task |-> C!Nobody]] /\ armed = {}
    BY DEF C!Init
  <2>2. /\ queues \in [local : Seq(Tasks), injection : Seq(Tasks), deferred : Seq(Tasks)]
        /\ \A q \in QueueNames : queues[q] = <<>>
    BY <2>1 DEF QueueNames
  <2>3. Distinct(<<>>) /\ \A u : ~Occurs(<<>>, u)
    BY DEF Distinct, Occurs
  <2>4. ListsType
    BY <2>2, <2>3 DEF ListsType
  <2>5. C!Unborn \in CellRec /\ C!Unborn.state = "unborn"
    BY DEF CellRec, C!Unborn
  <2>6. CellType /\ \A t \in Tasks : cell[t].state = "unborn"
    BY <2>1, <2>5 DEF CellType
  <2>7. MainType /\ main.pc = "out"
    BY <2>1 DEF MainType, MainRec, MainPcs
  <2>8. RemoteType /\ \A r \in Remotes : remote[r].pc = "idle"
    BY <2>1 DEF RemoteType, RemoteRec, RemotePcs, CarryPcs
  <2>9. \A t, k, x : ~Stands(k, x, t)
    BY <2>2, <2>3, <2>8 DEF Stands, CarryPcs
  <2>10. \A t \in Tasks : PlaceOf(t)
    BY <2>6, <2>9 DEF PlaceOf
  <2> QED BY <2>1, <2>4, <2>6, <2>7, <2>8, <2>10 DEF StandInv, PollInv, SleepInv, LoopPcs
<1>2. Inv /\ [C!Next]_(C!vars) => Inv'
  BY StandStep, SleepStep DEF SleepInv
<1>3. Inv => C!CurrentThreadSound
  <2> SUFFICES ASSUME Inv PROVE C!CurrentThreadSound
    OBVIOUS
  <2>1. C!OwnerNotAsleep
    BY DEF SleepInv, Unparking, LoopPcs, C!OwnerNotAsleep
  <2>2. ASSUME NEW t \in Tasks
        PROVE  C!Entries(t) = CASE cell[t].state = "queued" -> 1
                                [] cell[t].state \in {"unborn", "idle", "running", "lost", "freed"} -> 0
                                [] OTHER -> C!Entries(t)
    <3>0. PlaceOf(t) /\ ListsType /\ cell[t].state \in {"unborn", "idle", "queued", "running", "done", "freed", "lost"}
      BY DEF StandInv, CellType, CellRec
    <3> DEFINE inHand == {r \in Remotes : remote[r].task = t /\ remote[r].pc \in {"register", "enqueue", "inject", "defer"}}
    <3>1. \A q \in QueueNames : C!In(q, t) = IF Stands(q, 0, t) THEN 1 ELSE 0
      <4> SUFFICES ASSUME NEW q \in QueueNames
                   PROVE  C!In(q, t) = IF Stands(q, 0, t) THEN 1 ELSE 0
        OBVIOUS
      <4>1. Stands(q, 0, t) <=> Occurs(queues[q], t)
        BY DEF Stands, QueueNames
      <4>2. queues[q] \in Seq(Tasks) /\ Distinct(queues[q])
        BY <3>0 DEF ListsType, QueueNames
      <4> DEFINE places == {i \in DOMAIN queues[q] : queues[q][i] = t}
      <4>3. C!In(q, t) = Cardinality(places)
        BY CurrentNames DEF C!In
      <4>4. CASE Occurs(queues[q], t)
        <5>1. PICK i \in 1 .. Len(queues[q]) : queues[q][i] = t
          BY <4>4 DEF Occurs
        <5>2. places = {i}
          BY <4>2, <5>1 DEF Distinct
        <5> QED BY <4>1, <4>3, <4>4, <5>2, FS_Singleton
      <4>5. CASE ~Occurs(queues[q], t)
        <5>1. places = {}
          BY <4>2, <4>5 DEF Occurs
        <5> QED BY <4>1, <4>3, <4>5, <5>1, FS_EmptySet
      <4> QED BY <4>4, <4>5
    <3>2. \A r \in Remotes : r \in inHand <=> Stands("carried", r, t) \/ Stands("returned", r, t)
      BY DEF Stands, CarryPcs, QueueNames
    <3>3. CASE \E r : r \in inHand
      <4>1. PICK r : r \in inHand
        BY <3>3
      <4>2. inHand = {r} /\ \A q \in QueueNames : ~Stands(q, 0, t)
        BY <3>0, <3>2, <4>1 DEF PlaceOf, QueueNames
      <4>3. Cardinality(inHand) = 1
        BY <4>2, FS_Singleton
      <4>4. C!Entries(t) = 1
        <5>1. C!In("local", t) = 0 /\ C!In("injection", t) = 0 /\ C!In("deferred", t) = 0
          BY <3>1, <4>2 DEF QueueNames
        <5> QED BY <4>3, <5>1, CurrentNames DEF C!Entries
      <4>5. cell[t].state \in {"queued", "done"}
        BY <3>0, <3>2, <4>1 DEF PlaceOf, ToRun, ToFree
      <4> QED BY <4>4, <4>5
    <3>4. CASE ~\E r : r \in inHand
      <4>1. inHand = {} /\ \A r : ~Stands("carried", r, t)
        BY <3>2, <3>4 DEF Stands, QueueNames
      <4>2. Cardinality(inHand) = 0
        BY <4>1, FS_EmptySet
      <4>3. C!Entries(t) = C!In("local", t) + C!In("injection", t) + C!In("deferred", t) + 0
        BY <4>2, CurrentNames DEF C!Entries
      <4>4. \A k, x : k \in ToRun /\ Stands(k, x, t) => k \in {"local", "injection"} /\ x = 0
        BY <4>1 DEF Stands, ToRun
      <4>5. CASE cell[t].state = "queued"
        <5>1. PICK q \in {"local", "injection"} : Stands(q, 0, t)
          BY <3>0, <4>4, <4>5 DEF PlaceOf
        <5>2. \A p \in QueueNames : Stands(p, 0, t) => p = q
          BY <3>0, <5>1 DEF PlaceOf
        <5> QED BY <3>1, <4>3, <4>5, <5>1, <5>2 DEF QueueNames
      <4>6. CASE cell[t].state \notin {"queued", "done"}
        <5>1. \A k, x : ~Stands(k, x, t)
          BY <3>0, <4>6, NoPlace
        <5>2. C!In("local", t) = 0 /\ C!In("injection", t) = 0 /\ C!In("deferred", t) = 0
          BY <3>1, <5>1 DEF QueueNames
        <5> QED BY <3>0, <4>3, <4>6, <5>2
      <4> QED BY <4>5, <4>6
    <3> QED BY <3>3, <3>4
  <2> QED BY <2>1, <2>2 DEF C!CurrentThreadSound, C!EntriesExact
<1> QED BY <1>1, <1>2, <1>3, PTL DEF C!Spec, CurrentThreadSound
=============================================================================
