---------------------------- MODULE BlockingPool ----------------------------
(***************************************************************************)
(* The blocking pool (blocking.rs): a job queue with its idle count under    *)
(* one mutex, a condition variable, threads spawned on demand up to a cap    *)
(* that leave after an idle keep-alive, and a shutdown that cancels what is  *)
(* queued and joins the threads.  Each critical section on the queue lock,   *)
(* and each step outside it, is one action.                                  *)
(***************************************************************************)
EXTENDS Integers, Sequences, FiniteSets

CONSTANTS
  Jobs,       \* each submitted by a caller of its own, at most once
  MaxThreads, \* max_threads: the cap
  MaxSpawns,  \* bound: threads started in a behaviour
  Expires     \* keep_alive is short enough to run out

ASSUME CapPositive == MaxThreads \in Nat \ {0} /\ MaxSpawns \in Nat
ASSUME ExpiresBool == Expires \in BOOLEAN
ASSUME JobsFinite == IsFiniteSet(Jobs) /\ "nojob" \notin Jobs

Threads == 1 .. MaxSpawns

VARIABLES
  queue,    \* QueueState::jobs
  idle,     \* QueueState::idle
  closed,   \* Inner::closed
  num,      \* Inner::num_threads
  handles,  \* Inner::threads: handles shutdown has still to join
  job,      \* per job: where it stands
  submit,   \* per job: what its submitter has still to do
  started,  \* per job: the thread its submitter started, or 0
  thread,   \* per thread: where it stands in thread_loop
  current,  \* per thread: the job it is running
  spawned,  \* threads started so far
  shutter,  \* where the caller of shutdown stands
  joining   \* the threads that caller is joining

pool == <<queue, idle, closed, num>>
vars == <<pool, handles, job, submit, started, thread, current, spawned, shutter, joining>>

NoJob == "nojob"
Waiters == {t \in Threads : thread[t] = "waiting"}
Alive   == {t \in Threads : thread[t] \notin {"unborn", "ended"}}

Init ==
  /\ queue = <<>> /\ idle = 0 /\ closed = FALSE /\ num = 0 /\ handles = {}
  /\ job = [j \in Jobs |-> "new"] /\ submit = [j \in Jobs |-> "todo"]
  /\ started = [j \in Jobs |-> 0]
  /\ thread = [t \in Threads |-> "unborn"] /\ current = [t \in Threads |-> NoJob]
  /\ spawned = 0 /\ shutter = "todo" /\ joining = {}

-----------------------------------------------------------------------------
(* submit *)

Refuses_Never == FALSE
Refuses == closed

(* Whether the locked section decides to start a thread, and counts it. *)
SpawnWanted == idle = 0 /\ num < MaxThreads

(* The locked section.  A closed pool cancels the task on the spot (cancel_task). *)
Submit(j) ==
  /\ submit[j] = "todo"
  /\ ~Refuses /\ SpawnWanted =>
       spawned + Cardinality({k \in Jobs : submit[k] \in {"notifySpawn", "spawn"}}) < MaxSpawns
  /\ IF Refuses
     THEN /\ job' = [job EXCEPT ![j] = "cancelled"]
          /\ submit' = [submit EXCEPT ![j] = "done"]
          /\ UNCHANGED <<queue, num>>
     ELSE /\ job' = [job EXCEPT ![j] = "queued"]
          /\ queue' = Append(queue, j)
          /\ num' = IF SpawnWanted THEN num + 1 ELSE num
          /\ submit' = [submit EXCEPT ![j] = IF SpawnWanted THEN "notifySpawn" ELSE "notify"]
  /\ UNCHANGED <<idle, closed, handles, started, thread, current, spawned, shutter, joining>>

(* condvar.notify_one, after the lock is released: some waiting thread, if any. *)
Wakes == Waiters
NotifyOne(j) ==
  /\ submit[j] \in {"notify", "notifySpawn"}
  /\ submit' = [submit EXCEPT ![j] = IF @ = "notify" THEN "done" ELSE "spawn"]
  /\ \/ \E t \in Wakes : thread' = [thread EXCEPT ![t] = "notified"]
     \/ Wakes = {} /\ UNCHANGED thread
  /\ UNCHANGED <<pool, handles, job, started, current, spawned, shutter, joining>>

(* spawn_thread: the thread runs before its handle is stored. *)
SpawnThread(j) ==
  /\ submit[j] = "spawn"
  /\ spawned' = spawned + 1
  /\ thread' = [thread EXCEPT ![spawned + 1] = "loop"]
  /\ started' = [started EXCEPT ![j] = spawned + 1]
  /\ submit' = [submit EXCEPT ![j] = "store"]
  /\ UNCHANGED <<pool, handles, job, current, shutter, joining>>

StoreHandle(j) ==
  /\ submit[j] = "store"
  /\ handles' = handles \cup {started[j]}
  /\ submit' = [submit EXCEPT ![j] = "done"]
  /\ UNCHANGED <<pool, job, started, thread, current, spawned, shutter, joining>>

-----------------------------------------------------------------------------
(* thread_loop *)

TakeJob(t) ==
  /\ thread[t] = "loop" /\ queue # <<>>
  /\ queue' = Tail(queue)
  /\ job' = [job EXCEPT ![Head(queue)] = "running"]
  /\ current' = [current EXCEPT ![t] = Head(queue)]
  /\ thread' = [thread EXCEPT ![t] = "running"]
  /\ UNCHANGED <<idle, closed, num, handles, submit, started, spawned, shutter, joining>>

(* The closure returns. *)
FinishJob(t) ==
  /\ thread[t] = "running"
  /\ job' = [job EXCEPT ![current[t]] = "done"]
  /\ current' = [current EXCEPT ![t] = NoJob]
  /\ thread' = [thread EXCEPT ![t] = "loop"]
  /\ UNCHANGED <<pool, handles, submit, started, spawned, shutter, joining>>

(* An empty queue: leave when closed, else wait, counted as idle. *)
LeavesEmpty_Never == FALSE
LeavesEmpty == closed
FindEmpty(t) ==
  /\ thread[t] = "loop" /\ queue = <<>>
  /\ IF LeavesEmpty
     THEN thread' = [thread EXCEPT ![t] = "leaving"] /\ UNCHANGED idle
     ELSE thread' = [thread EXCEPT ![t] = "waiting"] /\ idle' = idle + 1
  /\ UNCHANGED <<queue, closed, num, handles, job, submit, started, current, spawned, shutter, joining>>

(* keep_alive runs out, or the wait ends spuriously. *)
EndWait(t, how) ==
  /\ thread[t] = "waiting"
  /\ how = "timedOut" => Expires
  /\ thread' = [thread EXCEPT ![t] = how]
  /\ UNCHANGED <<pool, handles, job, submit, started, current, spawned, shutter, joining>>

(* The waiter has the lock again: only a timeout that finds no job and an open *)
(* pool makes it leave.                                                        *)
GivesUp(t) == thread[t] = "timedOut" /\ queue = <<>> /\ ~closed
IdleLess == idle - 1
Resume(t) ==
  /\ thread[t] \in {"notified", "timedOut"}
  /\ idle' = IdleLess
  /\ thread' = [thread EXCEPT ![t] = IF GivesUp(t) THEN "leaving" ELSE "loop"]
  /\ UNCHANGED <<queue, closed, num, handles, job, submit, started, current, spawned, shutter, joining>>

(* num_threads is decremented outside the lock, after the loop was left. *)
Retire(t) ==
  /\ thread[t] = "leaving"
  /\ num' = num - 1
  /\ thread' = [thread EXCEPT ![t] = "ended"]
  /\ UNCHANGED <<queue, idle, closed, handles, job, submit, started, current, spawned, shutter, joining>>

-----------------------------------------------------------------------------
(* shutdown *)

CloseFlag ==
  /\ shutter = "todo"
  /\ closed' = TRUE /\ shutter' = "take"
  /\ UNCHANGED <<queue, idle, num, handles, job, submit, started, thread, current, spawned, joining>>

(* Under the lock the queue is emptied; every task in it is then cancelled. *)
Drains_Nothing == queue
Drains == <<>>
TakeQueued ==
  /\ shutter = "take"
  /\ queue' = Drains
  /\ job' = [j \in Jobs |-> IF job[j] = "queued" THEN "cancelled" ELSE job[j]]
  /\ shutter' = "notifyAll"
  /\ UNCHANGED <<idle, closed, num, handles, submit, started, thread, current, spawned, joining>>

NotifyAll ==
  /\ shutter = "notifyAll"
  /\ thread' = [t \in Threads |-> IF t \in Waiters THEN "notified" ELSE thread[t]]
  /\ shutter' = "takeHandles"
  /\ UNCHANGED <<pool, handles, job, submit, started, current, spawned, joining>>

TakeHandles ==
  /\ shutter = "takeHandles"
  /\ joining' = handles /\ handles' = {}
  /\ shutter' = "join"
  /\ UNCHANGED <<pool, job, submit, started, thread, current, spawned>>

JoinThreads ==
  /\ shutter = "join" /\ joining \cap Alive = {}
  /\ shutter' = "done"
  /\ UNCHANGED <<pool, handles, job, submit, started, thread, current, spawned, joining>>

-----------------------------------------------------------------------------
SubmitStep(j) == NotifyOne(j) \/ SpawnThread(j) \/ StoreHandle(j)
ThreadStep(t) == TakeJob(t) \/ FindEmpty(t) \/ Resume(t) \/ Retire(t)
Timeout(t)    == EndWait(t, "timedOut")
ShutdownStep  == TakeQueued \/ NotifyAll \/ TakeHandles \/ JoinThreads

Next ==
  \/ CloseFlag \/ ShutdownStep
  \/ \E j \in Jobs : Submit(j) \/ SubmitStep(j)
  \/ \E t \in Threads : ThreadStep(t) \/ FinishJob(t) \/ Timeout(t) \/ EndWait(t, "notified")

Spec == Init /\ [][Next]_vars

(* Running threads go on.  Nothing is assumed of how long a closure takes. *)
PoolFair ==
  /\ WF_vars(ShutdownStep)
  /\ \A j \in Jobs : WF_vars(SubmitStep(j))
  /\ \A t \in Threads : WF_vars(ThreadStep(t)) /\ WF_vars(Timeout(t))

LongJobsSpec == Spec /\ PoolFair
(* The same, and closures do return. *)
FairSpec == LongJobsSpec /\ \A t \in Threads : WF_vars(FinishJob(t))

-----------------------------------------------------------------------------
TypeOK ==
  /\ queue \in Seq(Jobs) /\ idle \in 0 .. MaxSpawns /\ closed \in BOOLEAN /\ num \in 0 .. MaxSpawns
  /\ handles \subseteq Threads /\ joining \subseteq Threads /\ spawned \in 0 .. MaxSpawns
  /\ job \in [Jobs -> {"new", "queued", "running", "done", "cancelled"}]
  /\ current \in [Threads -> Jobs \cup {NoJob}]

(* Threads that exist or are about to be started never exceed the cap, whatever *)
(* submits and idle exits overlap (the comment of submit).                      *)
CapRespected ==
  Cardinality(Alive) + Cardinality({j \in Jobs : submit[j] \in {"notifySpawn", "spawn"}})
    <= MaxThreads

(* The idle count that submit decides by is the number of threads inside the     *)
(* wait, even after timeouts, spurious wakes and a shutdown.                     *)
IdleExact == idle = Cardinality({t \in Threads : thread[t] \in {"waiting", "notified", "timedOut"}})

(* The queue holds exactly the queued jobs, each running job is on one thread,   *)
(* and once shutdown has emptied the queue nothing enters it again.              *)
QueueExact ==
  /\ \A j \in Jobs : job[j] = "queued" <=> \E i \in 1 .. Len(queue) : queue[i] = j
  /\ \A j \in Jobs : job[j] = "running" <=> \E t \in Threads : current[t] = j
  /\ shutter \notin {"todo", "take"} => queue = <<>>

(* A finished or cancelled job never changes: a cancelled closure is never run   *)
(* and no closure runs twice (cancel_task).                                      *)
JobEndsOnce ==
  [][ \A j \in Jobs : job[j] \in {"done", "cancelled"} => job'[j] = job[j] ]_vars

(* Nobody sleeps beside work: if a thread waits while a job is queued, another   *)
(* thread is on its way to the queue or a submitter has still to notify.         *)
NoSleepBesideWork ==
  queue # <<>> /\ Waiters # {} =>
    \/ \E t \in Threads : thread[t] \in {"loop", "notified", "timedOut"}
    \/ \E j \in Jobs : submit[j] \in {"notify", "notifySpawn"}
    \/ shutter = "notifyAll"

(* What submit and shutdown decide by agrees with the threads and the jobs, and *)
(* nobody sleeps beside work.                                                   *)
PoolSound == TypeOK /\ CapRespected /\ IdleExact /\ QueueExact /\ NoSleepBesideWork

(* Every thread that exists when shutdown returns has ended ("then join every    *)
(* thread").  It need not: a submitter stores its thread's handle too late.      *)
ShutdownJoinsAll == shutter = "done" => Alive = {}

(* shutdown returns, even when it races submits, waits and timeouts. *)
ShutdownEnds == shutter # "todo" ~> shutter = "done"

(* A queued job is run or cancelled once closures return. *)
JobsEnd == \A j \in Jobs : job[j] = "queued" ~> job[j] # "queued"

(* A queued job has a thread started for it while the cap allows one, however   *)
(* long the running closures take.                                              *)
ThreadForJob == \A j \in Jobs :
  (job[j] = "queued" /\ num < MaxThreads) ~> (job[j] # "queued" \/ num = MaxThreads)
=============================================================================
