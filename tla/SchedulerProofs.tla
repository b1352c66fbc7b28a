--------------------------- MODULE SchedulerProofs --------------------------
(***************************************************************************)
(* The multi-thread scheduler's parking protocol and its queues, for every   *)
(* number of workers, of other threads and of tasks.                         *)
(***************************************************************************)
EXTENDS Scheduler, WaitQueueProofs

-----------------------------------------------------------------------------
(* The parking protocol (IdleState::park, park_worker and notify_driver).  A worker    *)
(* that looked at the injector for the last time and a thread that pushes to it pass   *)
(* each other unseen; what decides is who reaches wake_pending and the waiters first.  *)

PcNames == {"lifo", "local", "inject", "injected", "search", "steal", "run", "poll", "exit", "exited",
            "park", "recheck", "unpark", "claim", "swap", "drain", "kernel", "release", "asleep", "woken"}
AtNames == {"none", "register", "schedule", "push", "pend", "decide", "notify", "poke"}
Passed == {"claim", "asleep", "swap", "kernel"}

Someone(S) == \E w \in Workers : pc[w] \in S
Calls(S) == \E p \in Threads : at[p] \in S

(* The worker in the kernel wait will be told. *)
Signalled ==
  \/ Calls({"decide", "poke"}) \/ kernelWake
  \/ Calls({"notify"}) /\ Someone({"asleep"})

(* No worker sleeps on the condvar without a holder of the kernel wait, or without one *)
(* on its way to become it; and injected work that every worker has missed has a pusher *)
(* before its announcement, or an announcement that no worker has consumed.             *)
HolderInv == Holders = {} => \E w \in Workers : pc[w] # "asleep"
MissedInv ==
  inject # <<>> /\ (\A w \in Workers : pc[w] \in Passed) =>
    Calls({"pend"}) \/ (wakePending /\ (Someone({"kernel"}) => Signalled))

SchedTypes == pc \in [Workers -> PcNames] /\ at \in [Threads -> AtNames] /\ Workers \subseteq Threads
ParkInv == SchedTypes /\ (~Shutdown => ~Someone({"exited"}) /\ HolderInv /\ MissedInv)

(* A step of one worker, of its loop alone, that does not pass the last look. *)
LEMMA LoopStep ==
  ASSUME ParkInv, NEW w \in Workers, NEW y \in PcNames \ Passed, Goto(w, y),
         at' \in [Threads -> AtNames], y = "exited" => Shutdown, stop' = stop
  PROVE  ParkInv'
<1> USE DEF ParkInv, SchedTypes, Goto, Passed, PcNames, Shutdown, Someone
<1>1. SchedTypes'
  OBVIOUS
<1>2. pc'[w] = y /\ \A v \in Workers : v # w => pc'[v] = pc[v]
  OBVIOUS
<1>3. ~Shutdown' => ~Someone({"exited"})'
  BY <1>2
<1>4. HolderInv'
  BY <1>2 DEF HolderInv, Holders
<1>5. MissedInv'
  BY <1>2 DEF MissedInv
<1> QED BY <1>1, <1>3, <1>4, <1>5

(* A call that leaves pc and the injector alone, or announces what it pushed. *)
LEMMA CallStep ==
  ASSUME ParkInv, NEW p \in Threads, NEW x \in AtNames, at' = [at EXCEPT ![p] = x],
         UNCHANGED <<pc, stop, wakePending, kernelWake>>,
         x = "pend" \/ (at[p] \in {"none", "register", "schedule"} /\ inject' = inject)
  PROVE  ParkInv'
<1> USE DEF ParkInv, SchedTypes, Shutdown, Someone, Calls
<1>1. SchedTypes' /\ (~Shutdown' => ~Someone({"exited"})')
  OBVIOUS
<1>2. at'[p] = x /\ \A q \in Threads : q # p => at'[q] = at[q]
  OBVIOUS
<1>3. ~Shutdown' => HolderInv'
  BY DEF HolderInv, Holders
<1>4. ~Shutdown' => MissedInv'
  BY <1>2 DEF MissedInv, Signalled
<1> QED BY <1>1, <1>3, <1>4

(* notify_driver: the announcement, the look at the waiters, the signal. *)
LEMMA NotifyStep ==
  ASSUME ParkInv, NEW p \in Threads, NotifyPend(p) \/ NotifyDecide(p) \/ NotifyCondvar(p) \/ NotifyPoke(p)
  PROVE  ParkInv'
<1> USE DEF ParkInv, SchedTypes, Enter, loop, closer, driver, Shutdown
<1>1. CASE NotifyPend(p)
  <2>1. at' = [at EXCEPT ![p] = "decide"] /\ at'[p] = "decide" /\ wakePending' /\ UNCHANGED <<pc, stop, inject>>
    BY <1>1 DEF NotifyPend, queues
  <2>2. SchedTypes' /\ (~Shutdown' => ~Someone({"exited"})' /\ HolderInv')
    BY <2>1 DEF AtNames, Someone, HolderInv, Holders
  <2>3. MissedInv'
    BY <2>1 DEF MissedInv, Signalled, Calls
  <2> QED BY <2>2, <2>3
<1>2. CASE NotifyDecide(p)
  <2> DEFINE x == IF Waiters # {} THEN "notify" ELSE "poke"
  <2>1. at' = [at EXCEPT ![p] = x] /\ at'[p] = x /\ at[p] = "decide" /\ UNCHANGED <<pc, stop, inject, wakePending, kernelWake>>
    BY <1>2 DEF NotifyDecide, queues
  <2>2. SchedTypes' /\ (~Shutdown' => ~Someone({"exited"})' /\ HolderInv')
    BY <2>1 DEF AtNames, Someone, HolderInv, Holders
  <2>3. ASSUME ~Shutdown, inject # <<>>, \A w \in Workers : pc[w] \in Passed PROVE MissedInv'
    <3>1. CASE Waiters = {}
      <4>1. at'[p] = "poke"
        BY <2>1, <3>1
      <4>2. Calls({"pend"})' \/ wakePending'
        BY <2>1, <2>3 DEF MissedInv, Calls
      <4> QED BY <4>1, <4>2 DEF MissedInv, Signalled, Calls
    <3>2. CASE Waiters # {}
      <4>1. at'[p] = "notify" /\ Someone({"asleep"})'
        BY <2>1, <2>3, <3>2 DEF Waiters, Someone, Passed
      <4>2. Calls({"pend"})' \/ wakePending'
        BY <2>1, <2>3 DEF MissedInv, Calls
      <4> QED BY <4>1, <4>2 DEF MissedInv, Signalled, Calls
    <3> QED BY <3>1, <3>2
  <2>4. ~Shutdown' => MissedInv'
    BY <2>1, <2>3 DEF MissedInv
  <2> QED BY <2>2, <2>4
<1>3. CASE NotifyCondvar(p)
  <2>1. at' = [at EXCEPT ![p] = "none"] /\ at[p] = "notify" /\ UNCHANGED <<stop, inject, wakePending, kernelWake>>
    BY <1>3 DEF NotifyCondvar, queues
  <2>2. at' \in [Threads -> AtNames] /\ \A q \in Threads : at[q] # "notify" => at'[q] = at[q]
    BY <2>1 DEF AtNames
  <2>3. CASE \E w \in Workers : pc[w] = "asleep"
    <3>1. PICK w \in Workers : Goto(w, "woken")
      BY <1>3, <2>3 DEF NotifyCondvar, NotifyOne
    <3> QED BY <2>1, <2>2, <3>1, LoopStep DEF PcNames, Passed
  <2>4. CASE ~\E w \in Workers : pc[w] = "asleep"
    <3>1. pc' = pc
      BY <1>3, <2>4 DEF NotifyCondvar, NotifyOne
    <3>2. SchedTypes' /\ (~Shutdown' => ~Someone({"exited"})' /\ HolderInv')
      BY <2>1, <2>2, <3>1 DEF Someone, HolderInv, Holders
    <3>3. ~Shutdown' => MissedInv'
      BY <2>1, <2>2, <2>4, <3>1 DEF MissedInv, Signalled, Calls, Someone
    <3> QED BY <3>2, <3>3
  <2> QED BY <2>3, <2>4
<1>4. CASE NotifyPoke(p)
  <2>1. /\ at' = [at EXCEPT ![p] = "none"] /\ at[p] = "poke" /\ kernelWake'
        /\ UNCHANGED <<pc, stop, inject, wakePending>>
    BY <1>4 DEF NotifyPoke, queues
  <2>2. at' \in [Threads -> AtNames] /\ \A q \in Threads : at[q] # "poke" => at'[q] = at[q]
    BY <2>1 DEF AtNames
  <2>3. SchedTypes' /\ (~Shutdown' => ~Someone({"exited"})' /\ HolderInv')
    BY <2>1, <2>2 DEF Someone, HolderInv, Holders
  <2>4. ~Shutdown' => MissedInv'
    BY <2>1, <2>2 DEF MissedInv, Signalled, Calls, Someone
  <2> QED BY <2>3, <2>4
<1> QED BY <1>1, <1>2, <1>3, <1>4

(* A worker passes its last look beside an empty injector only, and the one that *)
(* consumes an announcement does not wait.                                       *)
LEMMA ParkingStep ==
  ASSUME ParkInv, NEW w \in Workers,
         Recheck(w) \/ ClaimHolder(w) \/ SwapPending(w) \/ ReleaseHolder(w)
  PROVE  ParkInv'
<1> USE DEF ParkInv, SchedTypes, queues, call, closer, driver, Goto, InLoop, Shutdown
<1>1. CASE Recheck(w)
  <2>1. CASE HasWork(w)
    BY <1>1, <2>1, LoopStep DEF Recheck, PcNames, Passed
  <2>2. CASE ~HasWork(w)
    <3>1. pc' = [pc EXCEPT ![w] = "claim"] /\ pc[w] = "recheck" /\ inject' = <<>> /\ UNCHANGED <<at, stop>>
      BY <1>1, <2>2 DEF Recheck, HasWork
    <3> QED BY <3>1 DEF PcNames, Someone, HolderInv, Holders, MissedInv
  <2> QED BY <2>1, <2>2
<1>2. CASE ClaimHolder(w)
  <2>1. pc[w] = "claim" /\ UNCHANGED <<inject, at, stop, wakePending, kernelWake>>
        /\ pc' = [pc EXCEPT ![w] = IF Holders = {} THEN "swap" ELSE "asleep"]
    BY <1>2 DEF ClaimHolder
  <2>2. SchedTypes' /\ (~Shutdown' => ~Someone({"exited"})')
    BY <2>1 DEF PcNames, Someone
  <2>3. HolderInv'
    BY <2>1 DEF HolderInv, Holders, PcNames
  <2>4. ~Shutdown' => MissedInv'
    BY <2>1 DEF MissedInv, Signalled, Someone, Calls, Passed
  <2> QED BY <2>2, <2>3, <2>4
<1>3. CASE SwapPending(w)
  <2>1. CASE wakePending
    BY <1>3, <2>1, LoopStep DEF SwapPending, WaitMode, PcNames, Passed
  <2>2. CASE ~wakePending
    <3>1. pc[w] = "swap" /\ pc' = [pc EXCEPT ![w] = "kernel"] /\ UNCHANGED <<inject, at, stop>>
      BY <1>3, <2>2 DEF SwapPending, WaitMode
    <3>2. SchedTypes' /\ (~Shutdown' => ~Someone({"exited"})' /\ HolderInv')
      BY <3>1 DEF PcNames, Someone, HolderInv, Holders
    <3>3. ~Shutdown' => MissedInv'
      BY <2>2, <3>1 DEF MissedInv, Calls, Passed
    <3> QED BY <3>2, <3>3
  <2> QED BY <2>1, <2>2
<1>4. CASE ReleaseHolder(w)
  <2>1. pc' \in [Workers -> PcNames] /\ pc'[w] = "unpark" /\ UNCHANGED <<at, stop>>
        /\ \A v \in Workers : pc'[v] = "exited" => pc[v] = "exited"
    BY <1>4 DEF ReleaseHolder, PcNames
  <2> QED BY <2>1 DEF Someone, HolderInv, MissedInv, Passed
<1> QED BY <1>1, <1>2, <1>3, <1>4

(* Every other step of worker_loop. *)
LEMMA SearchingStep ==
  ASSUME ParkInv, NEW w \in Workers,
         \/ NextLifo(w) \/ PopLocal(w) \/ TakeInjected(w) \/ PopInjected(w) \/ Search(w)
         \/ Unsearch(w) \/ Run(w) \/ PollEnd(w) \/ ExitCheck(w) \/ SetParked(w)
         \/ WaitReturns(w) \/ WaitEvent(w) \/ SleepTimeout(w) \/ LeaveCondvar(w) \/ ClearParked(w)
  PROVE  ParkInv'
<1> DEFINE Turns(y) == y \in PcNames \ Passed /\ Goto(w, y) /\ (y = "exited" => Shutdown)
<1>1. stop' = stop
  BY DEF NextLifo, PopLocal, TakeInjected, PopInjected, Search, Unsearch, Run, PollEnd, ExitCheck,
     SetParked, WaitReturns, WaitEvent, SleepTimeout, LeaveCondvar, ClearParked, closer
<1>2. at' \in [Threads -> AtNames]
  <2>1. at \in [Threads -> AtNames]
    BY DEF ParkInv, SchedTypes
  <2>2. CASE Unsearch(w) \/ PollEnd(w)
    BY <2>1, <2>2 DEF Unsearch, PollEnd, call, Enter, AtNames
  <2>3. CASE ~(Unsearch(w) \/ PollEnd(w))
    BY <2>1, <2>3 DEF NextLifo, PopLocal, TakeInjected, PopInjected, Search, Run, ExitCheck,
       SetParked, WaitReturns, WaitEvent, SleepTimeout, LeaveCondvar, ClearParked, call
  <2> QED BY <2>2, <2>3
<1>3. \E y : Turns(y)
  <2> USE DEF PcNames, Passed
  <2>1. CASE NextLifo(w) \/ PopLocal(w)
    <3>1. Goto(w, "run") \/ Goto(w, "local") \/ Goto(w, "inject") \/ Goto(w, "search")
      BY <2>1 DEF NextLifo, PopLocal, Take
    <3> QED BY <3>1
  <2>2. CASE TakeInjected(w) \/ PopInjected(w)
    <3>1. Goto(w, "run") \/ Goto(w, "injected") \/ Goto(w, "exit") \/ Goto(w, "search")
      BY <2>2 DEF TakeInjected, PopInjected, Take, AfterInject
    <3> QED BY <3>1
  <2>3. CASE Search(w) \/ Unsearch(w)
    <3>1. Goto(w, "run") \/ Goto(w, "steal") \/ Goto(w, "exit") \/ Goto(w, "inject")
      BY <2>3 DEF Search, Unsearch, AfterSearch
    <3> QED BY <3>1
  <2>4. CASE Run(w) \/ PollEnd(w)
    <3>1. Goto(w, "lifo") \/ Goto(w, "poll")
      BY <2>4 DEF Run, PollEnd
    <3> QED BY <3>1
  <2>5. CASE ExitCheck(w)
    <3>1. (Goto(w, "exited") /\ Shutdown) \/ Goto(w, "park")
      BY <2>5 DEF ExitCheck
    <3> QED BY <3>1
  <2>6. CASE SetParked(w) \/ WaitReturns(w) \/ WaitEvent(w)
    <3>1. Goto(w, "recheck") \/ Goto(w, "release")
      BY <2>6 DEF SetParked, WaitReturns, WaitEvent
    <3> QED BY <3>1
  <2>7. CASE SleepTimeout(w) \/ LeaveCondvar(w) \/ ClearParked(w)
    <3>1. Goto(w, "woken") \/ Goto(w, "unpark") \/ Goto(w, "lifo")
      BY <2>7 DEF SleepTimeout, LeaveCondvar, ClearParked
    <3> QED BY <3>1
  <2> QED BY <2>1, <2>2, <2>3, <2>4, <2>5, <2>6, <2>7
<1>4. PICK y : Turns(y)
  BY <1>3
<1> QED BY <1>1, <1>2, <1>4, LoopStep

(* Wakes, spawns, the pushes of a call, and shutdown. *)
LEMMA ParkInvInductive == ParkInv /\ [Next]_vars => ParkInv'
<1> SUFFICES ASSUME ParkInv, [Next]_vars PROVE ParkInv'
  OBVIOUS
<1>0. at \in [Threads -> AtNames]
  BY DEF ParkInv, SchedTypes
<1>1. CASE UNCHANGED vars
  BY <1>1 DEF vars, loop, call, driver, closer, queues, ParkInv, SchedTypes, Shutdown, Someone,
     HolderInv, Holders, MissedInv, Calls, Signalled
<1>2. ASSUME NEW p \in Threads, NEW t \in Tasks, Wake(p, t) PROVE ParkInv'
  <2>1. UNCHANGED <<pc, stop, wakePending, kernelWake, inject>>
    BY <1>2 DEF Wake, queues, loop, driver, closer
  <2>2. at[p] = "none" /\ (at' = at \/ at' = [at EXCEPT ![p] = "schedule"])
    BY <1>2 DEF Wake, call, Enter
  <2>3. at' = [at EXCEPT ![p] = "none"] \/ at' = [at EXCEPT ![p] = "schedule"]
    BY <1>0, <2>2
  <2> QED BY <2>1, <2>2, <2>3, CallStep DEF AtNames
<1>3. ASSUME NEW p \in Threads, NEW t \in Tasks, NEW w \in Workers, Spawn(p, t, w) PROVE ParkInv'
  <2>1. UNCHANGED <<pc, stop, wakePending, kernelWake, inject>> /\ at[p] = "none"
        /\ at' = [at EXCEPT ![p] = "register"]
    BY <1>3 DEF Spawn, queues, loop, driver, closer, Enter
  <2> QED BY <2>1, CallStep DEF AtNames
<1>4. ASSUME NEW p \in Threads, Register(p) \/ Schedule(p) \/ Push(p) PROVE ParkInv'
  <2>1. UNCHANGED <<pc, stop, wakePending, kernelWake>>
    BY <1>4 DEF Register, Schedule, Push, loop, driver, closer
  <2>2. \/ at' = [at EXCEPT ![p] = "pend"]
        \/ /\ at[p] \in {"none", "register", "schedule"} /\ inject' = inject
           /\ \E x \in AtNames : at' = [at EXCEPT ![p] = x]
    BY <1>4 DEF Register, Schedule, Push, PushLocal, AfterPush, Enter, queues, AtNames
  <2> QED BY <2>1, <2>2, CallStep DEF AtNames
<1>5. ASSUME NEW p \in Threads, Call(p) PROVE ParkInv'
  BY <1>4, <1>5, NotifyStep DEF Call
<1>6. ASSUME NEW w \in Workers, NEW v \in Workers, StealFrom(w, v) PROVE ParkInv'
  BY <1>6 DEF StealFrom, call, driver, closer, ParkInv, SchedTypes, Shutdown, Someone,
     HolderInv, Holders, MissedInv, Calls, Signalled
<1>7. ASSUME NEW w \in Workers, WorkerStep(w) \/ WaitEvent(w) PROVE ParkInv'
  BY <1>6, <1>7, ParkingStep, SearchingStep DEF WorkerStep
<1>8. CASE SetShutdown \/ ShutdownStep
  <2>1. Shutdown' /\ at' = at
    BY <1>8 DEF SetShutdown, ShutdownStep, CloseInjector, TakeRegistry, CancelTask, PendAll, NotifyAll,
       PokeAll, JoinThreads, Shutdown, call
  <2>2. pc' \in [Workers -> PcNames]
    <3>1. pc \in [Workers -> PcNames]
      BY DEF ParkInv, SchedTypes
    <3>2. CASE NotifyAll
      BY <3>1, <3>2 DEF NotifyAll, PcNames
    <3>3. CASE ~NotifyAll
      BY <1>8, <3>1, <3>3 DEF SetShutdown, ShutdownStep, CloseInjector, TakeRegistry, CancelTask, PendAll,
         PokeAll, JoinThreads, loop
    <3> QED BY <3>2, <3>3
  <2> QED BY <2>1, <2>2 DEF ParkInv, SchedTypes
<1> QED BY <1>1, <1>2, <1>3, <1>5, <1>7, <1>8 DEF Next

LEMMA ParkInvInit == Init => ParkInv
<1> SUFFICES ASSUME Init PROVE ParkInv
  OBVIOUS
<1>1. 0 \in Workers /\ Workers \subseteq Threads
  BY SizesAssumption DEF Workers, Threads
<1>2. pc \in [Workers -> PcNames] /\ \A w \in Workers : pc[w] = "lifo"
  BY DEF Init, PcNames
<1>3. at \in [Threads -> AtNames]
  BY DEF Init, AtNames
<1>4. inject = <<>>
  BY DEF Init
<1> QED BY <1>1, <1>2, <1>3, <1>4 DEF ParkInv, SchedTypes, Someone, HolderInv, MissedInv

(* InjectedWorkIsAttended: work in the injector always meets a worker that is awake or a *)
(* wake that is on its way, for any number of workers and threads, without the condvar's *)
(* 1 ms timeout: the announcement in wake_pending closes the gap between a worker's last *)
(* look and its sleep (notify_driver, park_worker).                                      *)
THEOREM InjectedWorkIsAttended == Spec => []Attended
<1>1. Init => ParkInv
  BY ParkInvInit
<1>2. ParkInv /\ [Next]_vars => ParkInv'
  BY ParkInvInductive
<1>3. ParkInv => Attended
  <2> SUFFICES ASSUME ParkInv, inject # <<>>, ~Shutdown,
                      \A w \in Workers : ~Awake(w)
               PROVE  Calls({"pend", "decide", "notify", "poke"})
    BY DEF Attended, Calls
  <2>1. \A w \in Workers : pc[w] \in Passed
    BY DEF ParkInv, Someone, Awake, Passed
  <2>2. MissedInv /\ HolderInv
    BY DEF ParkInv
  <2>3. CASE Calls({"pend"})
    BY <2>3 DEF Calls
  <2>4. CASE wakePending /\ (Someone({"kernel"}) => Signalled)
    <3>1. \A w \in Workers : pc[w] \in {"asleep", "kernel"}
      BY <2>1, <2>4 DEF Awake, Passed
    <3>2. Someone({"kernel"})
      <4>1. CASE Holders = {}
        BY <2>2, <3>1, <4>1 DEF HolderInv, Someone
      <4>2. CASE Holders # {}
        BY <3>1, <4>2 DEF Holders, Someone
      <4> QED BY <4>1, <4>2
    <3>3. ~kernelWake
      BY <3>2 DEF Awake, Someone
    <3> QED BY <2>4, <3>2, <3>3 DEF Signalled, Calls
  <2> QED BY <2>1, <2>2, <2>3, <2>4 DEF MissedInv
<1> QED BY <1>1, <1>2, <1>3, PTL DEF Spec

-----------------------------------------------------------------------------
(* The operations on the run queues: what they hold, and that they hold it once. *)

LEMMA ReverseFacts ==
  ASSUME NEW S, NEW q \in Seq(S)
  PROVE  /\ Reverse(q) \in Seq(S) /\ \A x : Occurs(Reverse(q), x) <=> Occurs(q, x)
         /\ Distinct(q) => Distinct(Reverse(q))
<1> DEFINE n == Len(q)
           r == Reverse(q)
<1>1. n \in Nat /\ \A i \in 1 .. n : q[i] \in S
  OBVIOUS
<1>2. r = [i \in 1 .. n |-> q[(n - i) + 1]]
  BY DEF Reverse
<1>3. \A i \in 1 .. n : (n - i) + 1 \in 1 .. n
  BY <1>1
<1>4. r \in Seq(S) /\ Len(r) = n /\ \A i \in 1 .. n : r[i] = q[(n - i) + 1]
  <2>1. \A i \in 1 .. n : q[(n - i) + 1] \in S
    BY <1>1, <1>3
  <2> HIDE DEF n, r
  <2> QED BY <1>1, <1>2, <2>1
<1> HIDE DEF r
<1>5. \A x : Occurs(r, x) => Occurs(q, x)
  BY <1>1, <1>3, <1>4 DEF Occurs
<1>6. ASSUME NEW x, Occurs(q, x) PROVE Occurs(r, x)
  <2>1. PICK i \in 1 .. n : q[i] = x
    BY <1>6 DEF Occurs
  <2>2. (n - i) + 1 \in 1 .. n /\ (n - ((n - i) + 1)) + 1 = i
    BY <1>1
  <2>3. r[(n - i) + 1] = x
    BY <1>4, <2>1, <2>2
  <2> QED BY <1>4, <2>2, <2>3 DEF Occurs
<1>7. ASSUME Distinct(q) PROVE Distinct(r)
  <2> SUFFICES ASSUME NEW i \in 1 .. n, NEW j \in 1 .. n, r[i] = r[j] PROVE i = j
    BY <1>4 DEF Distinct
  <2>1. (n - i) + 1 = (n - j) + 1
    BY <1>3, <1>4, <1>7 DEF Distinct
  <2> QED BY <1>1, <2>1
<1> QED BY <1>4, <1>5, <1>6, <1>7 DEF r

LEMMA LastLeaves ==
  ASSUME NEW S, NEW q \in Seq(S), q # <<>>, Distinct(q)
  PROVE  /\ Front(q) \in Seq(S) /\ Distinct(Front(q)) /\ Last(q) \in S
         /\ \A x : Occurs(q, x) <=> Occurs(Front(q), x) \/ x = Last(q)
         /\ ~Occurs(Front(q), Last(q))
<1> DEFINE n == Len(q)
           f == Front(q)
<1>1. n \in Nat \ {0} /\ \A i \in 1 .. n : q[i] \in S
  OBVIOUS
<1>2. n - 1 \in 0 .. Len(q)
  BY <1>1
<1>3. f = SubSeq(q, 1, n - 1)
  BY DEF Front
<1>4. f \in Seq(S) /\ Len(f) = n - 1 /\ Distinct(f) /\ \A i \in 1 .. n - 1 : f[i] = q[i]
  BY <1>2, <1>3, PrefixFacts
<1> HIDE DEF f
<1>5. Last(q) = q[n] /\ Last(q) \in S
  BY <1>1 DEF Last
<1>6. \A x : Occurs(q, x) <=> Occurs(f, x) \/ x = Last(q)
  BY <1>1, <1>4, <1>5 DEF Occurs
<1>7. ~Occurs(f, Last(q))
  BY <1>1, <1>4, <1>5 DEF Occurs, Distinct
<1> QED BY <1>4, <1>5, <1>6, <1>7 DEF f

LEMMA SplitFacts ==
  ASSUME NEW S, NEW q \in Seq(S), q # <<>>, Distinct(q)
  PROVE  /\ Moved(q) \in Seq(S) /\ Moved(q) # <<>> /\ Distinct(Moved(q)) /\ Head(Moved(q)) = Head(q)
         /\ Kept(q) \in Seq(S) /\ Distinct(Kept(q)) /\ Head(q) \in S
         /\ \A x : Occurs(q, x) <=> Occurs(Moved(q), x) \/ Occurs(Kept(q), x)
         /\ \A x : ~(Occurs(Moved(q), x) /\ Occurs(Kept(q), x))
<1> DEFINE n == Len(q)
           h == IF n > 1 THEN n \div 2 ELSE 1
           m == Moved(q)
           k == Kept(q)
<1>1. n \in Nat \ {0}
  OBVIOUS
<1>2. h \in 1 .. n
  BY <1>1
<1>3. h \in 0 .. Len(q) /\ 1 \in 1 .. h
  BY <1>1, <1>2
<1>4. m = SubSeq(q, 1, h)
  BY DEF Moved
<1> HIDE DEF h
<1>5. /\ m \in Seq(S) /\ Len(m) = h /\ Distinct(m) /\ \A i \in 1 .. h : m[i] = q[i]
      /\ \A x : Occurs(m, x) <=> x \in FirstOnes(q, h)
  BY <1>3, <1>4, PrefixFacts
<1>6. k = Rest(q, h)
  BY <1>5 DEF Kept, Rest
<1>7. /\ Rest(q, h) \in Seq(S) /\ Distinct(Rest(q, h))
      /\ \A x : Occurs(Rest(q, h), x) <=> Occurs(q, x) /\ x \notin FirstOnes(q, h)
      /\ \A x \in FirstOnes(q, h) : Occurs(q, x) /\ x \in S
  BY <1>3, FrontLeaves
<1> HIDE DEF m, k
<1>8. m # <<>> /\ Head(m) = m[1] /\ Head(q) = q[1] /\ Head(q) \in S
  BY <1>1, <1>3, <1>5
<1>9. \A x : Occurs(q, x) <=> Occurs(m, x) \/ Occurs(k, x)
  BY <1>5, <1>6, <1>7
<1>10. \A x : ~(Occurs(m, x) /\ Occurs(k, x))
  BY <1>5, <1>6, <1>7
<1> QED BY <1>3, <1>5, <1>6, <1>7, <1>8, <1>9, <1>10 DEF m, k
-----------------------------------------------------------------------------
(* A task's entry: the box it is in, whatever its place in that box. *)

In(k, x, t) ==
  \/ k = "inject" /\ x = 0 /\ Occurs(inject, t)
  \/ k = "local" /\ x \in Workers /\ Occurs(local[x], t)
  \/ k = "lifo" /\ x \in Workers /\ lifo[x] = t
  \/ k = "cur" /\ x \in Workers /\ cur[x] = t
  \/ k = "carry" /\ x \in Threads /\ carry[x] = t

Lives == {"unborn", "idle", "notified", "running", "rerun", "done"}
MaybeTask == Tasks \cup {NoTask}
Carrying == {"register", "schedule", "push"}

EntryTypes ==
  /\ life \in [Tasks -> Lives] /\ owner \in [Tasks -> Workers]
  /\ inject \in Seq(Tasks) /\ local \in [Workers -> Seq(Tasks)] /\ left \in [Workers -> SUBSET Workers]
  /\ lifo \in [Workers -> MaybeTask] /\ cur \in [Workers -> MaybeTask] /\ carry \in [Threads -> MaybeTask]

QueuesDistinct == Distinct(inject) /\ \A w \in Workers : Distinct(local[w])

(* What a worker has in its hand follows from where its loop stands. *)
HandInv(w) ==
  /\ pc[w] \notin {"run", "poll", "steal"} => cur[w] = NoTask
  /\ pc[w] \in {"run", "poll"} => cur[w] # NoTask
  /\ pc[w] = "steal" /\ left[w] # {} => cur[w] = NoTask
  /\ cur[w] # NoTask /\ pc[w] = "poll" => life[cur[w]] \in {"running", "rerun"}
  /\ cur[w] # NoTask /\ pc[w] # "poll" => life[cur[w]] = "notified"
  /\ w \notin left[w]

CarryInv(p) == carry[p] # NoTask <=> at[p] \in Carrying

Lone(t) == \A k, x, l, y : In(k, x, t) /\ In(l, y, t) => k = l /\ x = y
Polled(t) == \E w \in Workers : cur[w] = t /\ pc[w] = "poll"

(* A task is in one box at most, is NOTIFIED in a queue or a call, is in some box while *)
(* it is NOTIFIED, and is in the hand of a worker that polls it while it runs.          *)
TaskInv(t) ==
  /\ Lone(t)
  /\ \A k, x : In(k, x, t) /\ k # "cur" => life[t] = "notified"
  /\ life[t] = "notified" /\ ~Shutdown => \E k, x : In(k, x, t)
  /\ life[t] \in {"running", "rerun"} => Polled(t)

EntryInv ==
  /\ EntryTypes /\ QueuesDistinct
  /\ \A w \in Workers : HandInv(w)
  /\ \A p \in Threads : CarryInv(p)
  /\ \A t \in Tasks : TaskInv(t)

(* A task that a step leaves in its box, or that a shutdown drops from it. *)
SameBoxes(t) == \A k, x : In(k, x, t)' <=> In(k, x, t)
LEMMA EntryStays ==
  ASSUME NEW t, TaskInv(t), SameBoxes(t), life'[t] = life[t], Shutdown => Shutdown', Polled(t) => Polled(t)'
  PROVE  TaskInv(t)'
<1>1. Lone(t)'
  BY DEF TaskInv, Lone, SameBoxes
<1>2. \A k, x : In(k, x, t)' /\ k # "cur" => life'[t] = "notified"
  BY DEF TaskInv, SameBoxes
<1>3. life'[t] = "notified" /\ ~Shutdown' => \E k, x : In(k, x, t)'
  BY DEF TaskInv, SameBoxes
<1>4. life'[t] \in {"running", "rerun"} => Polled(t)'
  BY DEF TaskInv
<1> QED BY <1>1, <1>2, <1>3, <1>4 DEF TaskInv

(* A task that a step takes out of one box and puts into another, or nowhere. *)
OnlyTo(t, k1, x1) == \A k, x : In(k, x, t)' => k = k1 /\ x = x1
LEMMA EntryMoves ==
  ASSUME NEW t, NEW k1, NEW x1, OnlyTo(t, k1, x1), life'[t] = "notified", In(k1, x1, t)' \/ Shutdown'
  PROVE  TaskInv(t)'
<1>1. Lone(t)'
  BY DEF Lone, OnlyTo
<1> QED BY <1>1 DEF TaskInv

(* Where the step moves one task only: the boxes that gain and lose it. *)
LEMMA OneBoxChanges ==
  ASSUME NEW t, TaskInv(t), NEW k0, NEW x0, NEW k1, NEW x1, In(k0, x0, t), ~In(k0, x0, t)',
         \A k, x : In(k, x, t)' => In(k, x, t) \/ (k = k1 /\ x = x1)
  PROVE  OnlyTo(t, k1, x1)
BY DEF TaskInv, Lone, OnlyTo

(* A step that moves no entry. *)
Quiet ==
  /\ UNCHANGED <<life, inject, local, lifo, cur, carry>>
  /\ owner' \in [Tasks -> Workers] /\ left' \in [Workers -> SUBSET Workers]
  /\ Shutdown => Shutdown'
  /\ \A p \in Threads : at'[p] \in Carrying <=> at[p] \in Carrying
  /\ \A w \in Workers :
       /\ w \notin left'[w]
       /\ \/ pc'[w] = pc[w] /\ left'[w] \subseteq left[w]
          \/ pc[w] \notin {"run", "poll"} /\ cur[w] = NoTask /\ pc'[w] \notin {"run", "poll"}
          \/ pc[w] = "steal" /\ cur[w] # NoTask /\ pc'[w] = "run"

LEMMA QuietStep ==
  ASSUME EntryInv, Quiet
  PROVE  EntryInv'
<1>1. EntryTypes' /\ QueuesDistinct'
  BY DEF EntryInv, EntryTypes, QueuesDistinct, Quiet
<1>2. ASSUME NEW w \in Workers PROVE HandInv(w)'
  BY DEF EntryInv, HandInv, Quiet
<1>3. ASSUME NEW p \in Threads PROVE CarryInv(p)'
  BY DEF EntryInv, CarryInv, Quiet
<1>4. ASSUME NEW t \in Tasks PROVE TaskInv(t)'
  <2>1. TaskInv(t) /\ t # NoTask
    BY SizesAssumption DEF EntryInv
  <2>2. SameBoxes(t)
    BY DEF SameBoxes, In, Quiet
  <2>3. Polled(t) => Polled(t)'
    BY <2>1 DEF Polled, Quiet
  <2> QED BY <2>1, <2>2, <2>3, EntryStays DEF Quiet
<1> QED BY <1>1, <1>2, <1>3, <1>4 DEF EntryInv
(* Spawn and the wake of an idle task: a task that is in no box enters a call. *)
LEMMA EntryBorn ==
  ASSUME EntryInv, NEW p \in Threads, NEW t \in Tasks, NEW x \in {"register", "schedule"},
         at \in [Threads -> AtNames], at[p] = "none", life[t] \in {"unborn", "idle"},
         life' = [life EXCEPT ![t] = "notified"], owner' \in [Tasks -> Workers], Enter(p, x, t),
         UNCHANGED <<inject, local, lifo, cur, pc, left, stop>>
  PROVE  EntryInv'
<1> USE DEF Enter
<1>1. EntryTypes' /\ QueuesDistinct'
  BY DEF EntryInv, EntryTypes, QueuesDistinct, Lives, MaybeTask
<1>2. ASSUME NEW k, NEW y PROVE ~In(k, y, t)
  <2>1. t # NoTask /\ life[t] # "notified"
    BY SizesAssumption
  <2>2. k = "cur" /\ y \in Workers => cur[y] # t
    BY <2>1 DEF EntryInv, HandInv
  <2>3. k # "cur" => ~In(k, y, t)
    BY <2>1 DEF EntryInv, TaskInv
  <2> QED BY <2>2, <2>3 DEF In
<1>3. ASSUME NEW w \in Workers PROVE HandInv(w)'
  <2>1. cur[w] # t
    BY <1>2 DEF In
  <2> QED BY <2>1 DEF EntryInv, EntryTypes, HandInv
<1>4. ASSUME NEW q \in Threads PROVE CarryInv(q)'
  BY SizesAssumption DEF EntryInv, EntryTypes, CarryInv, Carrying
<1>5. carry \in [Threads -> MaybeTask] /\ carry[p] = NoTask /\ carry'[p] = t
  BY DEF EntryInv, EntryTypes, CarryInv, Carrying
<1>6. TaskInv(t)'
  <2>1. OnlyTo(t, "carry", p)
    BY <1>2, <1>5 DEF OnlyTo, In
  <2>2. In("carry", p, t)' /\ life'[t] = "notified"
    BY <1>5 DEF In, EntryInv, EntryTypes
  <2> QED BY <2>1, <2>2, EntryMoves
<1>7. ASSUME NEW u \in Tasks, u # t PROVE TaskInv(u)'
  <2>1. TaskInv(u) /\ u # NoTask
    BY SizesAssumption DEF EntryInv
  <2>2. SameBoxes(u)
    BY <1>5, <1>7, <2>1 DEF SameBoxes, In
  <2>3. Polled(u) => Polled(u)'
    BY DEF Polled
  <2>4. life'[u] = life[u]
    BY <1>7 DEF EntryInv, EntryTypes
  <2> QED BY <2>1, <2>2, <2>3, <2>4, EntryStays DEF Shutdown
<1> QED BY <1>1, <1>3, <1>4, <1>6, <1>7 DEF EntryInv
(* A step that moves entries from box to box and changes no task's state: every task is *)
(* left alone, or taken from one box to another, or nowhere once the runtime shuts down. *)
Boxed(k, x, t) == OnlyTo(t, k, x) /\ (In(k, x, t)' \/ Shutdown')
Settled(t) == SameBoxes(t) \/ \E k, x : Boxed(k, x, t)

LEMMA EntriesMove ==
  ASSUME EntryInv, EntryTypes', QueuesDistinct', life' = life, Shutdown => Shutdown',
         \A w \in Workers : HandInv(w)', \A p \in Threads : CarryInv(p)',
         \A t \in Tasks : /\ Settled(t) /\ (Polled(t) => Polled(t)')
                          /\ ~SameBoxes(t) => life[t] = "notified"
  PROVE  EntryInv'
<1> SUFFICES ASSUME NEW t \in Tasks PROVE TaskInv(t)'
  BY DEF EntryInv
<1>1. CASE SameBoxes(t)
  BY <1>1, EntryStays DEF EntryInv
<1>2. CASE ~SameBoxes(t)
  <2>1. PICK k, x : Boxed(k, x, t)
    BY <1>2 DEF Settled
  <2> QED BY <1>2, <2>1, EntryMoves DEF Boxed
<1> QED BY <1>1, <1>2

(* A call gives up its task: to a queue, or to nobody after shutdown. *)
LEMMA CallDelivers ==
  ASSUME EntryInv, NEW p \in Threads, NEW t, t = carry[p], NEW x \in {"none", "pend"},
         at \in [Threads -> AtNames], at[p] \in {"schedule", "push"}, Enter(p, x, NoTask),
         UNCHANGED <<life, owner, cur, pc, left, stop>>,
         inject' \in Seq(Tasks), local' \in [Workers -> Seq(Tasks)], lifo' \in [Workers -> MaybeTask],
         QueuesDistinct', \A u \in Tasks : Settled(u) /\ (~SameBoxes(u) => life[u] = "notified")
  PROVE  EntryInv'
<1>1. EntryTypes'
  BY DEF EntryInv, EntryTypes, Enter, MaybeTask
<1>2. ASSUME NEW w \in Workers PROVE HandInv(w)'
  BY DEF EntryInv, HandInv
<1>3. ASSUME NEW q \in Threads PROVE CarryInv(q)'
  BY DEF EntryInv, EntryTypes, CarryInv, Carrying, Enter
<1>4. \A u \in Tasks : Polled(u) => Polled(u)'
  BY DEF Polled
<1> QED BY <1>1, <1>2, <1>3, <1>4, EntriesMove DEF Shutdown

(* The task a call holds, and the call without it. *)
LEMMA CallHolds ==
  ASSUME EntryInv, NEW p \in Threads, at[p] \in Carrying
  PROVE  /\ carry[p] \in Tasks /\ carry[p] # NoTask /\ In("carry", p, carry[p])
         /\ life[carry[p]] = "notified" /\ TaskInv(carry[p])
         /\ ~Occurs(inject, carry[p]) /\ \A w \in Workers : ~Occurs(local[w], carry[p])
<1>1. carry[p] \in Tasks /\ carry[p] # NoTask
  BY DEF EntryInv, EntryTypes, CarryInv, MaybeTask
<1>2. In("carry", p, carry[p]) /\ TaskInv(carry[p])
  BY <1>1 DEF In, EntryInv
<1>3. life[carry[p]] = "notified"
  BY <1>2 DEF TaskInv
<1>4. ~In("inject", 0, carry[p]) /\ \A w \in Workers : ~In("local", w, carry[p])
  BY <1>2 DEF TaskInv, Lone
<1> QED BY <1>1, <1>2, <1>3, <1>4 DEF In

LEMMA PushStep ==
  ASSUME EntryInv, at \in [Threads -> AtNames], NEW p \in Threads, Push(p)
  PROVE  EntryInv'
<1>0. PICK t : t = carry[p]
  OBVIOUS
<1>1. /\ at[p] = "push" /\ Enter(p, "pend", NoTask) /\ PushBatch(<<t>>)
      /\ UNCHANGED <<life, owner, cur, pc, left, stop, local, lifo>>
  BY <1>0 DEF Push, AfterPush, task, loop, closer
<1>2. /\ t \in Tasks /\ t # NoTask /\ In("carry", p, t) /\ life[t] = "notified" /\ TaskInv(t)
      /\ ~Occurs(inject, t)
  BY <1>0, <1>1, CallHolds DEF Carrying
<1>3. inject \in Seq(Tasks) /\ Distinct(inject) /\ carry \in [Threads -> MaybeTask]
  BY DEF EntryInv, EntryTypes, QueuesDistinct
<1>4. carry' = [carry EXCEPT ![p] = NoTask]
  BY <1>1 DEF Enter
<1>5. /\ inject' \in Seq(Tasks) /\ Distinct(inject')
      /\ \A x : Occurs(inject', x) <=> Occurs(inject, x) \/ (x = t /\ ~Closed)
  <2>1. CASE Closed
    BY <1>1, <1>3, <2>1 DEF PushBatch
  <2>2. CASE ~Closed
    <3>1. inject' = inject \o <<t>>
      BY <1>1, <2>2 DEF PushBatch
    <3>2. inject' = Append(inject, t)
      BY <1>2, <1>3, <3>1
    <3> QED BY <1>2, <1>3, <2>2, <3>2, AppendFacts
  <2> QED BY <2>1, <2>2
<1>6. ~In("carry", p, t)'
  BY <1>2, <1>3, <1>4 DEF In
<1>7. \A k, x : In(k, x, t)' => In(k, x, t) \/ (k = "inject" /\ x = 0)
  BY <1>1, <1>2, <1>3, <1>4, <1>5 DEF In
<1>8. OnlyTo(t, "inject", 0)
  BY <1>2, <1>6, <1>7, OneBoxChanges
<1>9. In("inject", 0, t)' \/ Shutdown'
  BY <1>1, <1>5 DEF In, Closed, Shutdown
<1>10. ASSUME NEW u \in Tasks, u # t PROVE SameBoxes(u)
  <2>1. u # NoTask
    BY SizesAssumption
  <2> QED BY <1>0, <1>1, <1>3, <1>4, <1>5, <1>10, <2>1 DEF SameBoxes, In
<1>11. \A u \in Tasks : Settled(u) /\ (~SameBoxes(u) => life[u] = "notified")
  BY <1>2, <1>8, <1>9, <1>10 DEF Settled, Boxed
<1>12. QueuesDistinct' /\ local' \in [Workers -> Seq(Tasks)] /\ lifo' \in [Workers -> MaybeTask]
  BY <1>1, <1>5 DEF QueuesDistinct, EntryInv, EntryTypes
<1> QED BY <1>0, <1>1, <1>5, <1>11, <1>12, CallDelivers
(* schedule: the LIFO slot, the local queue, and its older half into the injector. *)
LEMMA ScheduleStep ==
  ASSUME EntryInv, at \in [Threads -> AtNames], NEW p \in Threads, Schedule(p)
  PROVE  EntryInv'
<1>0. PICK t : t = carry[p]
  OBVIOUS
<1>1. /\ at[p] = "schedule" /\ UNCHANGED <<life, owner, cur, pc, left, stop>>
      /\ \/ Shutdown /\ Enter(p, "none", NoTask) /\ UNCHANGED <<inject, local, lifo>>
         \/ ~Shutdown /\ OnTarget(p, t) /\ PushLocal(p, t)
         \/ ~Shutdown /\ ~OnTarget(p, t) /\ Enter(p, "push", t) /\ UNCHANGED <<inject, local, lifo>>
  BY <1>0 DEF Schedule, task, loop, closer, queues
<1>2. /\ t \in Tasks /\ t # NoTask /\ In("carry", p, t) /\ life[t] = "notified" /\ TaskInv(t)
      /\ ~Occurs(inject, t) /\ \A w \in Workers : ~Occurs(local[w], t)
  BY <1>0, <1>1, CallHolds DEF Carrying
<1>3. /\ inject \in Seq(Tasks) /\ Distinct(inject) /\ carry \in [Threads -> MaybeTask]
      /\ local \in [Workers -> Seq(Tasks)] /\ lifo \in [Workers -> MaybeTask]
      /\ \A w \in Workers : Distinct(local[w])
      /\ owner \in [Tasks -> Workers] /\ left \in [Workers -> SUBSET Workers]
  BY DEF EntryInv, EntryTypes, QueuesDistinct
<1>4. \A u \in Tasks : u # NoTask /\ TaskInv(u)
  BY SizesAssumption DEF EntryInv
<1>5. CASE Shutdown /\ Enter(p, "none", NoTask) /\ UNCHANGED <<inject, local, lifo>>
  <2>1. carry' = [carry EXCEPT ![p] = NoTask]
    BY <1>5 DEF Enter
  <2>2. ~In("carry", p, t)' /\ \A k, x : In(k, x, t)' => In(k, x, t) \/ (k = "inject" /\ x = 0)
    BY <1>1, <1>2, <1>3, <1>5, <2>1 DEF In
  <2>3. Boxed("inject", 0, t)
    BY <1>1, <1>2, <1>5, <2>2, OneBoxChanges DEF Boxed, Shutdown
  <2>4. ASSUME NEW u \in Tasks, u # t PROVE SameBoxes(u)
    BY <1>0, <1>1, <1>3, <1>4, <1>5, <2>1, <2>4 DEF SameBoxes, In
  <2>5. \A u \in Tasks : Settled(u) /\ (~SameBoxes(u) => life[u] = "notified")
    BY <1>2, <2>3, <2>4 DEF Settled
  <2>6. QueuesDistinct'
    BY <1>3, <1>5 DEF QueuesDistinct
  <2> QED BY <1>0, <1>1, <1>3, <1>5, <2>5, <2>6, CallDelivers
<1>6. CASE ~Shutdown /\ OnTarget(p, t) /\ PushLocal(p, t)
  <2>0. p \in Workers /\ local[p] \in Seq(Tasks) /\ Distinct(local[p]) /\ lifo[p] \in MaybeTask
    BY <1>2, <1>3, <1>6 DEF OnTarget
  <2>1. CASE SlotFree(p) /\ PushLocal(p, t)
    <3>1. /\ Enter(p, "none", NoTask) /\ carry' = [carry EXCEPT ![p] = NoTask] /\ lifo[p] = NoTask
          /\ lifo' = [lifo EXCEPT ![p] = t] /\ UNCHANGED <<inject, local>>
      BY <2>1 DEF PushLocal, SlotFree, Enter
    <3>2. ~In("carry", p, t)' /\ \A k, x : In(k, x, t)' => In(k, x, t) \/ (k = "lifo" /\ x = p)
      BY <1>1, <1>2, <1>3, <3>1 DEF In
    <3>3. Boxed("lifo", p, t)
      <4>1. In("lifo", p, t)'
        BY <1>3, <2>0, <3>1 DEF In
      <4> QED BY <1>2, <3>2, <4>1, OneBoxChanges DEF Boxed
    <3>4. ASSUME NEW u \in Tasks, u # t PROVE SameBoxes(u)
      BY <1>0, <1>1, <1>3, <1>4, <3>1, <3>4 DEF SameBoxes, In
    <3>5. \A u \in Tasks : Settled(u) /\ (~SameBoxes(u) => life[u] = "notified")
      BY <1>2, <3>3, <3>4 DEF Settled
    <3>6. QueuesDistinct' /\ lifo' \in [Workers -> MaybeTask]
      BY <1>2, <1>3, <3>1 DEF QueuesDistinct, MaybeTask
    <3> QED BY <1>0, <1>1, <1>3, <3>1, <3>5, <3>6, CallDelivers
  <2>2. CASE Len(local[p]) < LocalCap /\ ~SlotFree(p) /\ PushLocal(p, t)
    <3>1. /\ Enter(p, "none", NoTask) /\ carry' = [carry EXCEPT ![p] = NoTask]
          /\ local' = [local EXCEPT ![p] = Append(local[p], t)] /\ UNCHANGED <<inject, lifo>>
      <4>1. Len(local[p]) \in Nat /\ LocalCap \in Nat
        BY <2>0, SizesAssumption
      <4> QED BY <2>2, <4>1 DEF PushLocal, Enter
    <3>2. /\ Append(local[p], t) \in Seq(Tasks) /\ Distinct(Append(local[p], t))
          /\ \A x : Occurs(Append(local[p], t), x) <=> Occurs(local[p], x) \/ x = t
      BY <1>2, <2>0, AppendFacts
    <3>3. /\ local' \in [Workers -> Seq(Tasks)] /\ QueuesDistinct'
          /\ \A w \in Workers : \A x : Occurs(local'[w], x) <=> Occurs(local[w], x) \/ (w = p /\ x = t)
      BY <1>3, <2>0, <3>1, <3>2 DEF QueuesDistinct
    <3>4. ~In("carry", p, t)' /\ \A k, x : In(k, x, t)' => In(k, x, t) \/ (k = "local" /\ x = p)
      BY <1>1, <1>2, <1>3, <3>1, <3>3 DEF In
    <3>5. Boxed("local", p, t)
      <4>1. In("local", p, t)'
        BY <2>0, <3>3 DEF In
      <4> QED BY <1>2, <3>4, <4>1, OneBoxChanges DEF Boxed
    <3>6. ASSUME NEW u \in Tasks, u # t PROVE SameBoxes(u)
      BY <1>0, <1>1, <1>3, <1>4, <3>1, <3>3, <3>6 DEF SameBoxes, In
    <3>7. \A u \in Tasks : Settled(u) /\ (~SameBoxes(u) => life[u] = "notified")
      BY <1>2, <3>5, <3>6 DEF Settled
    <3> QED BY <1>0, <1>1, <1>3, <3>1, <3>3, <3>7, CallDelivers
  <2>3. CASE Len(local[p]) >= LocalCap /\ ~SlotFree(p) /\ PushLocal(p, t)
    <3>0. PICK q : q = local[p]
      OBVIOUS
    <3>1. q \in Seq(Tasks) /\ q # <<>> /\ Distinct(q) /\ ~Occurs(q, t)
      <4>1. Len(local[p]) \in Nat /\ LocalCap \in Nat \ {0}
        BY <2>0, SizesAssumption
      <4>2. local[p] # <<>>
        BY <2>3, <4>1
      <4> QED BY <1>2, <2>0, <3>0, <4>2
    <3>2. PICK b : b = <<Head(q)>> \o Reverse(Tail(Moved(q)))
      OBVIOUS
    <3>3. /\ Enter(p, "pend", NoTask) /\ carry' = [carry EXCEPT ![p] = NoTask] /\ lifo' = lifo
          /\ local' = [local EXCEPT ![p] = Append(Kept(q), t)] /\ PushBatch(b)
      <4>1. Len(local[p]) \in Nat /\ LocalCap \in Nat
        BY <2>0, SizesAssumption
      <4> QED BY <2>3, <3>0, <3>2, <4>1 DEF PushLocal, Enter
    <3>4. /\ Moved(q) \in Seq(Tasks) /\ Moved(q) # <<>> /\ Distinct(Moved(q)) /\ Head(Moved(q)) = Head(q)
          /\ Kept(q) \in Seq(Tasks) /\ Distinct(Kept(q)) /\ Head(q) \in Tasks
          /\ \A x : Occurs(q, x) <=> Occurs(Moved(q), x) \/ Occurs(Kept(q), x)
          /\ \A x : ~(Occurs(Moved(q), x) /\ Occurs(Kept(q), x))
      BY <3>1, SplitFacts
    <3>5. /\ Append(Kept(q), t) \in Seq(Tasks) /\ Distinct(Append(Kept(q), t))
          /\ \A x : Occurs(Append(Kept(q), t), x) <=> Occurs(Kept(q), x) \/ x = t
      BY <1>2, <3>1, <3>4, AppendFacts
    <3>6. b \in Seq(Tasks) /\ Distinct(b) /\ \A x : Occurs(b, x) <=> Occurs(Moved(q), x)
      <4>0. PICK m : m = Moved(q)
        OBVIOUS
      <4>1. /\ Tail(m) \in Seq(Tasks) /\ Distinct(Tail(m)) /\ ~Occurs(Tail(m), Head(m))
            /\ \A x : Occurs(m, x) <=> Occurs(Tail(m), x) \/ x = Head(m)
        BY <3>4, <4>0, TailFacts
      <4>2. /\ Reverse(Tail(m)) \in Seq(Tasks) /\ Distinct(Reverse(Tail(m)))
            /\ \A x : Occurs(Reverse(Tail(m)), x) <=> Occurs(Tail(m), x)
        BY <4>1, ReverseFacts
      <4>3. /\ <<Head(q)>> \in Seq(Tasks) /\ Distinct(<<Head(q)>>)
            /\ \A x : Occurs(<<Head(q)>>, x) <=> x = Head(q)
        BY <3>4 DEF Occurs, Distinct
      <4>4. PICK h, r : h = <<Head(q)>> /\ r = Reverse(Tail(m))
        OBVIOUS
      <4>5. \A x : ~(Occurs(h, x) /\ Occurs(r, x))
        BY <3>4, <4>0, <4>1, <4>2, <4>3, <4>4
      <4>6. /\ h \o r \in Seq(Tasks) /\ Distinct(h \o r)
            /\ \A x : Occurs(h \o r, x) <=> Occurs(h, x) \/ Occurs(r, x)
        BY <4>2, <4>3, <4>4, <4>5, ConcatFacts
      <4>7. b = h \o r
        BY <3>2, <4>0, <4>4
      <4> QED BY <3>4, <4>0, <4>1, <4>2, <4>3, <4>4, <4>6, <4>7
    <3>7. \A x : ~(Occurs(inject, x) /\ Occurs(b, x))
      <4> SUFFICES ASSUME NEW x, Occurs(inject, x), Occurs(b, x) PROVE FALSE
        OBVIOUS
      <4>1. x \in Tasks
        BY <1>3 DEF Occurs
      <4>2. In("inject", 0, x) /\ In("local", p, x)
        BY <2>0, <3>0, <3>4, <3>6 DEF In
      <4> QED BY <1>4, <4>1, <4>2 DEF TaskInv, Lone
    <3>8. /\ inject' \in Seq(Tasks) /\ Distinct(inject')
          /\ \A x : Occurs(inject', x) <=> Occurs(inject, x) \/ (Occurs(b, x) /\ ~Closed)
      <4>1. CASE Closed
        BY <1>3, <3>3, <4>1 DEF PushBatch
      <4>2. CASE ~Closed
        <5>1. inject' = inject \o b
          BY <3>3, <4>2 DEF PushBatch
        <5> QED BY <1>3, <3>6, <3>7, <4>2, <5>1, ConcatFacts
      <4> QED BY <4>1, <4>2
    <3>9. /\ local' \in [Workers -> Seq(Tasks)] /\ QueuesDistinct'
          /\ \A w \in Workers : w # p => local'[w] = local[w]
          /\ \A x : Occurs(local'[p], x) <=> Occurs(Kept(q), x) \/ x = t
      BY <1>3, <2>0, <3>3, <3>5, <3>8 DEF QueuesDistinct
    <3>10. Settled(t)
      <4>1. ~In("carry", p, t)'
        BY <1>2, <1>3, <3>3 DEF In
      <4>2. ~Occurs(b, t)
        BY <3>1, <3>4, <3>6
      <4>3. \A k, x : In(k, x, t)' => In(k, x, t) \/ (k = "local" /\ x = p)
        BY <1>1, <1>2, <1>3, <3>3, <3>8, <3>9, <4>2 DEF In
      <4>4. In("local", p, t)'
        BY <2>0, <3>9 DEF In
      <4>5. OnlyTo(t, "local", p)
        BY <1>2, <4>1, <4>3, OneBoxChanges
      <4> QED BY <4>4, <4>5 DEF Boxed, Settled
    <3>11. ASSUME NEW u \in Tasks, u # t, ~Occurs(b, u) PROVE SameBoxes(u)
      <4>1. Occurs(inject', u) <=> Occurs(inject, u)
        BY <3>8, <3>11
      <4>2. \A w \in Workers : Occurs(local'[w], u) <=> Occurs(local[w], u)
        BY <3>0, <3>4, <3>6, <3>9, <3>11
      <4> QED BY <1>0, <1>1, <1>3, <1>4, <3>3, <3>11, <4>1, <4>2 DEF SameBoxes, In
    <3>12. ASSUME NEW u \in Tasks, u # t, Occurs(b, u) PROVE Settled(u) /\ life[u] = "notified"
      <4>1. TaskInv(u) /\ u # NoTask /\ In("local", p, u) /\ ~Occurs(Kept(q), u)
        BY <1>4, <2>0, <3>0, <3>4, <3>6, <3>12 DEF In
      <4>2. ~In("local", p, u)'
        BY <3>9, <3>12, <4>1 DEF In
      <4>3. \A w \in Workers : Occurs(local'[w], u) => Occurs(local[w], u)
        BY <3>0, <3>4, <3>9, <3>12
      <4>4. \A k, x : In(k, x, u)' => In(k, x, u) \/ (k = "inject" /\ x = 0)
        BY <1>0, <1>1, <1>3, <3>3, <3>12, <4>1, <4>3 DEF In
      <4>5. OnlyTo(u, "inject", 0)
        BY <4>1, <4>2, <4>4, OneBoxChanges
      <4>6. In("inject", 0, u)' \/ Shutdown'
        BY <1>1, <3>8, <3>12 DEF In, Closed, Shutdown
      <4>7. life[u] = "notified"
        BY <4>1 DEF TaskInv
      <4> QED BY <4>5, <4>6, <4>7 DEF Boxed, Settled
    <3>13. \A u \in Tasks : Settled(u) /\ (~SameBoxes(u) => life[u] = "notified")
      BY <1>2, <3>10, <3>11, <3>12 DEF Settled
    <3> QED BY <1>0, <1>1, <1>3, <3>3, <3>8, <3>9, <3>13, CallDelivers
  <2> QED BY <1>6, <2>1, <2>2, <2>3 DEF PushLocal
<1>7. CASE ~Shutdown /\ ~OnTarget(p, t) /\ Enter(p, "push", t) /\ UNCHANGED <<inject, local, lifo>>
  <2>1. carry' = carry /\ at' = [at EXCEPT ![p] = "push"]
    BY <1>0, <1>3, <1>7 DEF Enter
  <2>2. \A q \in Threads : at'[q] \in Carrying <=> at[q] \in Carrying
    BY <1>1, <2>1 DEF Carrying
  <2>3. \A w \in Workers : w \notin left[w]
    BY DEF EntryInv, HandInv
  <2>4. Quiet
    BY <1>1, <1>3, <1>7, <2>1, <2>2, <2>3 DEF Quiet, Shutdown
  <2> QED BY <2>4, QuietStep
<1> QED BY <1>1, <1>5, <1>6, <1>7
(* A worker takes a task from its slot or its queue into its hand. *)
Leaves(k0, w, h) ==
  /\ \A x \in Workers, u \in Tasks :
       Occurs(local'[x], u) <=> Occurs(local[x], u) /\ ~(k0 = "local" /\ x = w /\ u = h)
  /\ \A x \in Workers, u \in Tasks : lifo'[x] = u <=> lifo[x] = u /\ ~(k0 = "lifo" /\ x = w /\ u = h)

LEMMA HandTakes ==
  ASSUME EntryInv, pc \in [Workers -> PcNames], NEW w \in Workers, NEW h \in Tasks, NEW k0 \in {"lifo", "local"},
         In(k0, w, h), pc[w] \in {"lifo", "local", "injected"}, Take(w, h), Leaves(k0, w, h),
         UNCHANGED <<life, owner, inject, carry, at, left, stop>>,
         local' \in [Workers -> Seq(Tasks)], lifo' \in [Workers -> MaybeTask], QueuesDistinct'
  PROVE  EntryInv'
<1>1. cur \in [Workers -> MaybeTask] /\ cur[w] = NoTask /\ \A u \in Tasks : u # NoTask /\ TaskInv(u)
  BY SizesAssumption DEF EntryInv, EntryTypes, HandInv
<1>2. life[h] = "notified"
  BY <1>1 DEF TaskInv
<1>3. cur' = [cur EXCEPT ![w] = h] /\ pc' = [pc EXCEPT ![w] = "run"]
  BY DEF Take, Goto
<1>4. EntryTypes'
  BY <1>3 DEF EntryInv, EntryTypes, MaybeTask
<1>5. ASSUME NEW v \in Workers PROVE HandInv(v)'
  BY <1>1, <1>2, <1>3 DEF EntryInv, HandInv
<1>6. ASSUME NEW q \in Threads PROVE CarryInv(q)'
  BY DEF EntryInv, CarryInv
<1>7. \A u \in Tasks : Polled(u) => Polled(u)'
  BY <1>1, <1>3 DEF Polled
<1>8. Settled(h)
  <2>1. ~In(k0, w, h)'
    BY DEF In, Leaves
  <2>2. \A k, x : In(k, x, h)' => In(k, x, h) \/ (k = "cur" /\ x = w)
    BY <1>1, <1>3 DEF In, Leaves
  <2>3. In("cur", w, h)'
    BY <1>1, <1>3 DEF In
  <2>4. OnlyTo(h, "cur", w)
    BY <1>1, <2>1, <2>2, OneBoxChanges
  <2> QED BY <2>3, <2>4 DEF Boxed, Settled
<1>9. ASSUME NEW u \in Tasks, u # h PROVE SameBoxes(u)
  BY <1>1, <1>3, <1>9 DEF SameBoxes, In, Leaves
<1>10. \A u \in Tasks : /\ Settled(u) /\ (Polled(u) => Polled(u)')
                        /\ ~SameBoxes(u) => life[u] = "notified"
  BY <1>2, <1>7, <1>8, <1>9 DEF Settled
<1> QED BY <1>4, <1>5, <1>6, <1>10, EntriesMove DEF Shutdown

(* Front and Last of the worker's own queue. *)
LEMMA PopTakes ==
  ASSUME EntryInv, pc \in [Workers -> PcNames], NEW w \in Workers, pc[w] \in {"local", "injected"},
         local[w] # <<>>, local' = [local EXCEPT ![w] = Front(@)], Take(w, Last(local[w])),
         UNCHANGED <<life, owner, inject, lifo, carry, at, left, stop>>
  PROVE  EntryInv'
<1>1. /\ local \in [Workers -> Seq(Tasks)] /\ lifo \in [Workers -> MaybeTask]
      /\ Distinct(inject) /\ \A v \in Workers : Distinct(local[v])
  BY DEF EntryInv, EntryTypes, QueuesDistinct
<1>2. PICK q, h : q = local[w] /\ h = Last(local[w])
  OBVIOUS
<1>3. q \in Seq(Tasks) /\ q # <<>> /\ Distinct(q) /\ h = Last(q)
  BY <1>1, <1>2
<1>4. /\ Front(q) \in Seq(Tasks) /\ Distinct(Front(q)) /\ h \in Tasks
      /\ \A x : Occurs(q, x) <=> Occurs(Front(q), x) \/ x = h
      /\ ~Occurs(Front(q), h)
  BY <1>3, LastLeaves
<1>5. local' = [local EXCEPT ![w] = Front(q)]
  BY <1>1, <1>2
<1>6. local' \in [Workers -> Seq(Tasks)] /\ QueuesDistinct'
  BY <1>1, <1>4, <1>5 DEF QueuesDistinct
<1>7. Leaves("local", w, h)
  BY <1>1, <1>2, <1>4, <1>5 DEF Leaves
<1>8. In("local", w, h)
  BY <1>2, <1>4 DEF In
<1> QED BY <1>1, <1>2, <1>4, <1>6, <1>7, <1>8, HandTakes

LEMMA TakeInjectedStep ==
  ASSUME EntryInv, NEW w \in Workers, inject # <<>>, inject' = Tail(inject),
         local' = [local EXCEPT ![w] = Append(@, Head(inject))], Goto(w, "injected"), pc[w] = "inject",
         UNCHANGED <<life, owner, lifo, cur, carry, at, left, stop>>, pc \in [Workers -> PcNames]
  PROVE  EntryInv'
<1>1. /\ inject \in Seq(Tasks) /\ Distinct(inject) /\ local \in [Workers -> Seq(Tasks)]
      /\ \A v \in Workers : Distinct(local[v])
  BY DEF EntryInv, EntryTypes, QueuesDistinct
<1>2. PICK h : h = Head(inject)
  OBVIOUS
<1>3. /\ Tail(inject) \in Seq(Tasks) /\ Distinct(Tail(inject)) /\ h \in Tasks
      /\ \A x : Occurs(inject, x) <=> Occurs(Tail(inject), x) \/ x = h
      /\ ~Occurs(Tail(inject), h)
  BY <1>1, <1>2, TailFacts
<1>4. TaskInv(h) /\ In("inject", 0, h) /\ life[h] = "notified"
  <2>1. TaskInv(h) /\ In("inject", 0, h)
    BY <1>3 DEF EntryInv, In
  <2> QED BY <2>1 DEF TaskInv
<1>5. ~Occurs(local[w], h)
  <2>1. ~In("local", w, h)
    BY <1>4 DEF TaskInv, Lone
  <2> QED BY <2>1 DEF In
<1>6. /\ Append(local[w], h) \in Seq(Tasks) /\ Distinct(Append(local[w], h))
      /\ \A x : Occurs(Append(local[w], h), x) <=> Occurs(local[w], x) \/ x = h
  BY <1>1, <1>3, <1>5, AppendFacts
<1>7. /\ local' \in [Workers -> Seq(Tasks)] /\ QueuesDistinct'
      /\ \A v \in Workers : \A x : Occurs(local'[v], x) <=> Occurs(local[v], x) \/ (v = w /\ x = h)
  BY <1>1, <1>2, <1>3, <1>6 DEF QueuesDistinct
<1>8. EntryTypes'
  BY <1>3, <1>7 DEF EntryInv, EntryTypes
<1>9. \A v \in Workers : HandInv(v)'
  BY DEF EntryInv, HandInv, Goto
<1>10. \A q \in Threads : CarryInv(q)'
  BY DEF EntryInv, CarryInv
<1>11. \A u \in Tasks : Polled(u) => Polled(u)'
  BY DEF Polled, Goto
<1>12. Settled(h)
  <2>1. ~In("inject", 0, h)' /\ In("local", w, h)'
    BY <1>3, <1>7 DEF In
  <2>2. \A k, x : In(k, x, h)' => In(k, x, h) \/ (k = "local" /\ x = w)
    BY <1>3, <1>7 DEF In
  <2>3. OnlyTo(h, "local", w)
    BY <1>4, <2>1, <2>2, OneBoxChanges
  <2> QED BY <2>1, <2>3 DEF Boxed, Settled
<1>13. ASSUME NEW u \in Tasks, u # h PROVE SameBoxes(u)
  BY <1>3, <1>7, <1>13 DEF SameBoxes, In
<1>14. \A u \in Tasks : /\ Settled(u) /\ (Polled(u) => Polled(u)')
                        /\ ~SameBoxes(u) => life[u] = "notified"
  BY <1>4, <1>11, <1>12, <1>13 DEF Settled
<1> QED BY <1>7, <1>8, <1>9, <1>10, <1>14, EntriesMove DEF Shutdown

LEMMA NoBoxChanges ==
  ASSUME NEW u, UNCHANGED <<inject, lifo, carry>>, \A x \in Workers : cur'[x] = u <=> cur[x] = u,
         \A x \in Workers : Occurs(local'[x], u) <=> Occurs(local[x], u)
  PROVE  SameBoxes(u)
BY DEF SameBoxes, In

(* A steal: the victim's older half, one task for the hand and the others for the queue. *)
LEMMA StealStep ==
  ASSUME EntryInv, NEW w \in Workers, NEW v \in Workers, pc[w] = "steal", v \in left[w], local[v] # <<>>,
         local' = [local EXCEPT ![v] = Kept(@), ![w] = @ \o Tail(Moved(local[v]))],
         cur' = [cur EXCEPT ![w] = Head(local[v])], left' = [left EXCEPT ![w] = {}],
         UNCHANGED <<life, owner, inject, lifo, pc, carry, at, stop>>
  PROVE  EntryInv'
<1>1. /\ inject \in Seq(Tasks) /\ Distinct(inject) /\ local \in [Workers -> Seq(Tasks)]
      /\ cur \in [Workers -> MaybeTask] /\ left \in [Workers -> SUBSET Workers]
      /\ \A x \in Workers : Distinct(local[x])
  BY DEF EntryInv, EntryTypes, QueuesDistinct
<1>2. v # w /\ cur[w] = NoTask /\ \A u \in Tasks : u # NoTask /\ TaskInv(u)
  BY SizesAssumption DEF EntryInv, HandInv
<1>3. PICK q, m : q = local[v] /\ m = Moved(local[v])
  OBVIOUS
<1>4. q \in Seq(Tasks) /\ q # <<>> /\ Distinct(q)
  BY <1>1, <1>3
<1>5. /\ m \in Seq(Tasks) /\ m # <<>> /\ Distinct(m) /\ Head(m) = Head(q)
      /\ Kept(q) \in Seq(Tasks) /\ Distinct(Kept(q)) /\ Head(q) \in Tasks
      /\ \A x : Occurs(q, x) <=> Occurs(m, x) \/ Occurs(Kept(q), x)
      /\ \A x : ~(Occurs(m, x) /\ Occurs(Kept(q), x))
  BY <1>3, <1>4, SplitFacts
<1>6. PICK h, r : h = Head(q) /\ r = Tail(m)
  OBVIOUS
<1>7. /\ r \in Seq(Tasks) /\ Distinct(r) /\ ~Occurs(r, h) /\ h \in Tasks
      /\ \A x : Occurs(m, x) <=> Occurs(r, x) \/ x = h
  BY <1>5, <1>6, TailFacts
<1>8. \A x : ~(Occurs(local[w], x) /\ Occurs(r, x))
  <2> SUFFICES ASSUME NEW x, Occurs(local[w], x), Occurs(r, x) PROVE FALSE
    OBVIOUS
  <2>1. x \in Tasks
    BY <1>7 DEF Occurs
  <2>2. In("local", w, x) /\ In("local", v, x)
    BY <1>3, <1>5, <1>7 DEF In
  <2> QED BY <1>2, <2>1, <2>2 DEF TaskInv, Lone
<1>9. /\ local[w] \o r \in Seq(Tasks) /\ Distinct(local[w] \o r)
      /\ \A x : Occurs(local[w] \o r, x) <=> Occurs(local[w], x) \/ Occurs(r, x)
  BY <1>1, <1>7, <1>8, ConcatFacts
<1>10. /\ local' = [local EXCEPT ![v] = Kept(q), ![w] = local[w] \o r]
       /\ cur' = [cur EXCEPT ![w] = h]
  BY <1>1, <1>2, <1>3, <1>6
<1>11. /\ local'[v] = Kept(q) /\ local'[w] = local[w] \o r
       /\ \A x \in Workers : x # v /\ x # w => local'[x] = local[x]
  BY <1>1, <1>2, <1>10
<1>12. local' \in [Workers -> Seq(Tasks)] /\ QueuesDistinct'
  <2>1. local' \in [Workers -> Seq(Tasks)]
    BY <1>1, <1>5, <1>9, <1>10
  <2>2. \A x \in Workers : Distinct(local'[x])
    BY <1>1, <1>5, <1>9, <1>11
  <2> QED BY <1>1, <2>1, <2>2 DEF QueuesDistinct
<1>13. EntryTypes'
  <2>1. cur' \in [Workers -> MaybeTask]
    BY <1>1, <1>7, <1>10 DEF MaybeTask
  <2>2. left' \in [Workers -> SUBSET Workers]
    BY <1>1
  <2> QED BY <1>12, <2>1, <2>2 DEF EntryInv, EntryTypes
<1>14. \A u \in Tasks : Occurs(m, u) => In("local", v, u) /\ life[u] = "notified"
  <2> SUFFICES ASSUME NEW u \in Tasks, Occurs(m, u) PROVE In("local", v, u) /\ life[u] = "notified"
    OBVIOUS
  <2>1. In("local", v, u)
    BY <1>3, <1>5 DEF In
  <2> QED BY <1>2, <2>1 DEF TaskInv
<1>15. life[h] = "notified"
  BY <1>7, <1>14
<1>16. \A x \in Workers : HandInv(x)'
  <2>1. \A x \in Workers : x # w => cur'[x] = cur[x] /\ left'[x] = left[x]
    BY <1>1, <1>10
  <2>2. cur'[w] = h /\ left'[w] = {}
    BY <1>1, <1>10
  <2> QED BY <1>15, <2>1, <2>2 DEF EntryInv, HandInv
<1>17. \A p \in Threads : CarryInv(p)'
  BY DEF EntryInv, CarryInv
<1>18. \A u \in Tasks : Polled(u) => Polled(u)'
  BY <1>1, <1>10 DEF Polled
<1>19. ASSUME NEW u \in Tasks, ~Occurs(m, u) PROVE SameBoxes(u)
  <2>1. \A x \in Workers : Occurs(local'[x], u) <=> Occurs(local[x], u)
    BY <1>2, <1>3, <1>5, <1>7, <1>9, <1>11, <1>19
  <2>2. u # h
    BY <1>7, <1>19
  <2>3. \A x \in Workers : cur'[x] = u <=> cur[x] = u
    BY <1>1, <1>2, <1>10, <2>2
  <2> QED BY <2>1, <2>3, NoBoxChanges
<1>20. ASSUME NEW u \in Tasks, Occurs(m, u) PROVE Settled(u)
  <2>1. ~In("local", v, u)'
    BY <1>5, <1>11, <1>20 DEF In
  <2>2. CASE u = h
    <3>1. \A x \in Workers : Occurs(local'[x], u) => Occurs(local[x], u)
      BY <1>3, <1>5, <1>7, <1>9, <1>11, <2>2
    <3>2. In("cur", w, u)' /\ \A k, x : In(k, x, u)' => In(k, x, u) \/ (k = "cur" /\ x = w)
      BY <1>1, <1>10, <2>2, <3>1 DEF In
    <3>3. OnlyTo(u, "cur", w)
      BY <1>2, <1>14, <1>20, <2>1, <3>2, OneBoxChanges
    <3> QED BY <3>2, <3>3 DEF Boxed, Settled
  <2>3. CASE u # h
    <3>1. /\ Occurs(local'[w], u)
          /\ \A x \in Workers : Occurs(local'[x], u) => Occurs(local[x], u) \/ x = w
      BY <1>3, <1>5, <1>7, <1>9, <1>11, <1>20, <2>3
    <3>2. In("local", w, u)' /\ \A k, x : In(k, x, u)' => In(k, x, u) \/ (k = "local" /\ x = w)
      BY <1>1, <1>10, <2>3, <3>1 DEF In
    <3>3. OnlyTo(u, "local", w)
      BY <1>2, <1>14, <1>20, <2>1, <3>2, OneBoxChanges
    <3> QED BY <3>2, <3>3 DEF Boxed, Settled
  <2> QED BY <2>2, <2>3
<1>21. \A u \in Tasks : /\ Settled(u) /\ (Polled(u) => Polled(u)')
                        /\ ~SameBoxes(u) => life[u] = "notified"
  BY <1>14, <1>18, <1>19, <1>20 DEF Settled
<1> QED BY <1>12, <1>13, <1>16, <1>17, <1>21, EntriesMove DEF Shutdown
(* What is in a hand is in no other box. *)
LEMMA HandHolds ==
  ASSUME EntryInv, NEW w \in Workers, pc[w] \in {"run", "poll"}
  PROVE  /\ cur[w] \in Tasks /\ TaskInv(cur[w]) /\ In("cur", w, cur[w])
         /\ \A k, x : In(k, x, cur[w]) => k = "cur" /\ x = w
         /\ pc[w] = "poll" => life[cur[w]] \in {"running", "rerun"}
         /\ \A v \in Workers : cur[v] = cur[w] => v = w
<1>1. cur[w] \in Tasks /\ (pc[w] = "poll" => life[cur[w]] \in {"running", "rerun"})
  BY DEF EntryInv, EntryTypes, HandInv, MaybeTask
<1>2. TaskInv(cur[w]) /\ In("cur", w, cur[w])
  BY <1>1 DEF EntryInv, In
<1>3. \A k, x : In(k, x, cur[w]) => k = "cur" /\ x = w
  BY <1>2 DEF TaskInv, Lone
<1>4. ASSUME NEW v \in Workers, cur[v] = cur[w] PROVE v = w
  <2>1. In("cur", v, cur[w])
    BY <1>4 DEF In
  <2> QED BY <1>3, <2>1
<1> QED BY <1>1, <1>2, <1>3, <1>4

(* The other tasks, when the hand of w lets go of t. *)
LEMMA OthersStay ==
  ASSUME EntryInv, pc \in [Workers -> PcNames], NEW w \in Workers, NEW u \in Tasks, u # cur[w],
         cur' = [cur EXCEPT ![w] = NoTask], pc' = [pc EXCEPT ![w] = "lifo"],
         UNCHANGED <<inject, local, lifo, stop>>, life'[u] = life[u],
         \A p \in Threads : carry'[p] = u <=> carry[p] = u
  PROVE  TaskInv(u)'
<1>1. TaskInv(u) /\ u # NoTask /\ cur \in [Workers -> MaybeTask]
  BY SizesAssumption DEF EntryInv, EntryTypes
<1>2. \A x \in Workers : cur'[x] = u <=> cur[x] = u
  BY <1>1
<1>3. SameBoxes(u)
  BY <1>2 DEF SameBoxes, In
<1>4. Polled(u) => Polled(u)'
  BY <1>1 DEF Polled
<1> QED BY <1>1, <1>3, <1>4, EntryStays DEF Shutdown

LEMMA HandLetsGo ==
  ASSUME EntryInv, pc \in [Workers -> PcNames], NEW w \in Workers, NEW t, t = cur[w],
         pc[w] \in {"run", "poll"}, NEW x \in {"done", "idle"},
         life' = [life EXCEPT ![t] = x], cur' = [cur EXCEPT ![w] = NoTask], pc' = [pc EXCEPT ![w] = "lifo"],
         owner' \in [Tasks -> Workers], UNCHANGED <<inject, local, lifo, carry, at, left, stop>>
  PROVE  EntryInv'
<1>0. /\ t \in Tasks /\ TaskInv(t) /\ \A v \in Workers : cur[v] = t => v = w
      /\ \A k, y : In(k, y, t) => k = "cur" /\ y = w
  BY HandHolds
<1>1. /\ t \in Tasks /\ TaskInv(t) /\ t # NoTask /\ \A v \in Workers : cur[v] = t => v = w
      /\ \A k, y : In(k, y, t) => k = "cur" /\ y = w
  BY <1>0, SizesAssumption
<1>2. cur \in [Workers -> MaybeTask] /\ life \in [Tasks -> Lives]
  BY DEF EntryInv, EntryTypes
<1>3. EntryTypes' /\ QueuesDistinct'
  BY <1>1, <1>2 DEF EntryInv, EntryTypes, QueuesDistinct, MaybeTask, Lives
<1>4. \A v \in Workers : HandInv(v)'
  BY <1>1, <1>2 DEF EntryInv, HandInv
<1>5. \A p \in Threads : CarryInv(p)'
  BY DEF EntryInv, CarryInv
<1>6. ASSUME NEW k, NEW y PROVE ~In(k, y, t)'
  BY <1>1, <1>2 DEF In
<1>7. TaskInv(t)'
  <2>1. life'[t] = x
    BY <1>1, <1>2
  <2> QED BY <1>6, <2>1 DEF TaskInv, Lone
<1>8. ASSUME NEW u \in Tasks, u # t PROVE TaskInv(u)'
  BY <1>2, <1>8, OthersStay
<1> QED BY <1>3, <1>4, <1>5, <1>7, <1>8 DEF EntryInv

(* A poll ends with its task woken: from the hand into a call. *)
LEMMA HandReschedules ==
  ASSUME EntryInv, pc \in [Workers -> PcNames], at \in [Threads -> AtNames], Workers \subseteq Threads,
         NEW w \in Workers, NEW t, t = cur[w], pc[w] = "poll", at[w] = "none",
         life' = [life EXCEPT ![t] = "notified"], cur' = [cur EXCEPT ![w] = NoTask],
         pc' = [pc EXCEPT ![w] = "lifo"], Enter(w, "schedule", t),
         UNCHANGED <<owner, inject, local, lifo, left, stop>>
  PROVE  EntryInv'
<1>0. /\ t \in Tasks /\ TaskInv(t) /\ \A v \in Workers : cur[v] = t => v = w
      /\ \A k, y : In(k, y, t) => k = "cur" /\ y = w
  BY HandHolds
<1>1. /\ t \in Tasks /\ TaskInv(t) /\ t # NoTask /\ \A v \in Workers : cur[v] = t => v = w
      /\ \A k, y : In(k, y, t) => k = "cur" /\ y = w
  BY <1>0, SizesAssumption
<1>2. /\ cur \in [Workers -> MaybeTask] /\ life \in [Tasks -> Lives] /\ carry \in [Threads -> MaybeTask]
      /\ carry[w] = NoTask
  BY DEF EntryInv, EntryTypes, CarryInv, Carrying
<1>3. at' = [at EXCEPT ![w] = "schedule"] /\ carry' = [carry EXCEPT ![w] = t] /\ life'[t] = "notified"
  BY <1>1, <1>2 DEF Enter
<1>4. EntryTypes' /\ QueuesDistinct'
  BY <1>1, <1>2, <1>3 DEF EntryInv, EntryTypes, QueuesDistinct, MaybeTask, Lives
<1>5. \A v \in Workers : HandInv(v)'
  BY <1>1, <1>2 DEF EntryInv, HandInv
<1>6. \A p \in Threads : CarryInv(p)'
  BY <1>1, <1>2, <1>3 DEF EntryInv, CarryInv, Carrying
<1>7. OnlyTo(t, "carry", w) /\ In("carry", w, t)'
  BY <1>1, <1>2, <1>3 DEF OnlyTo, In
<1>8. TaskInv(t)'
  BY <1>3, <1>7, EntryMoves
<1>9. ASSUME NEW u \in Tasks, u # t PROVE TaskInv(u)'
  <2>1. \A p \in Threads : carry'[p] = u <=> carry[p] = u
    BY <1>2, <1>3, <1>9, SizesAssumption
  <2>2. life'[u] = life[u]
    BY <1>2, <1>9
  <2> QED BY <1>9, <2>1, <2>2, OthersStay
<1> QED BY <1>4, <1>5, <1>6, <1>8, <1>9 DEF EntryInv

(* A task in no box but a hand changes its state: run_task begins, a running task is     *)
(* woken, shutdown finishes an idle one.                                                *)
LEMMA StateChanges ==
  ASSUME EntryInv, pc \in [Workers -> PcNames], NEW t \in Tasks, NEW y \in Lives \ {"notified"},
         life' = [life EXCEPT ![t] = y], \A k, x : In(k, x, t) => k = "cur",
         owner' \in [Tasks -> Workers], \A v \in Workers : cur[v] # t => pc'[v] = pc[v],
         \A v \in Workers : cur[v] = t => pc'[v] = "poll" /\ pc[v] \in {"run", "poll"},
         y \in {"running", "rerun"} <=> \E v \in Workers : cur[v] = t, pc' \in [Workers -> PcNames],
         UNCHANGED <<inject, local, lifo, cur, carry, at, left>>, Shutdown => Shutdown'
  PROVE  EntryInv'
<1>1. cur \in [Workers -> MaybeTask] /\ life \in [Tasks -> Lives] /\ TaskInv(t) /\ t # NoTask
  BY SizesAssumption DEF EntryInv, EntryTypes
<1>2. EntryTypes' /\ QueuesDistinct'
  BY <1>1 DEF EntryInv, EntryTypes, QueuesDistinct
<1>3. ASSUME NEW v \in Workers PROVE HandInv(v)'
  <2>1. CASE cur[v] = t
    BY <1>1, <2>1 DEF EntryInv, HandInv
  <2>2. CASE cur[v] # t
    BY <1>1, <2>2 DEF EntryInv, HandInv, MaybeTask
  <2> QED BY <2>1, <2>2
<1>4. \A p \in Threads : CarryInv(p)'
  BY DEF EntryInv, CarryInv
<1>5. \A u : SameBoxes(u)
  BY DEF SameBoxes, In
<1>6. TaskInv(t)'
  <2>1. life'[t] = y
    BY <1>1
  <2>2. Lone(t)' /\ \A k, x : In(k, x, t)' => k = "cur"
    BY <1>1, <1>5 DEF SameBoxes, TaskInv, Lone
  <2>3. y \in {"running", "rerun"} => Polled(t)'
    BY DEF Polled
  <2> QED BY <2>1, <2>2, <2>3 DEF TaskInv
<1>7. ASSUME NEW u \in Tasks, u # t PROVE TaskInv(u)'
  <2>1. TaskInv(u) /\ life'[u] = life[u]
    BY <1>1, <1>7 DEF EntryInv
  <2>2. Polled(u) => Polled(u)'
    BY <1>7 DEF Polled
  <2> QED BY <1>5, <2>1, <2>2, EntryStays
<1> QED BY <1>2, <1>3, <1>4, <1>6, <1>7 DEF EntryInv
(* Workers on their way through the loop with empty hands. *)
EmptyHanded ==
  \A v \in Workers : pc'[v] = pc[v] \/ (pc[v] \notin {"run", "poll", "steal"} /\ pc'[v] \notin {"run", "poll"})

LEMMA LoopQuiet ==
  ASSUME EntryInv, UNCHANGED <<life, owner, inject, local, lifo, cur, carry>>, EmptyHanded,
         Shutdown => Shutdown', \A p \in Threads : at'[p] \in Carrying <=> at[p] \in Carrying,
         \/ left' = left
         \/ \E w \in Workers : /\ pc[w] = "search" /\ pc'[w] # "search"
                               /\ left' = [left EXCEPT ![w] = Workers \ {w}]
  PROVE  EntryInv'
<1>1. owner \in [Tasks -> Workers] /\ left \in [Workers -> SUBSET Workers]
  BY DEF EntryInv, EntryTypes
<1>2. \A v \in Workers : v \notin left[v] /\ (pc[v] \notin {"run", "poll", "steal"} => cur[v] = NoTask)
  BY DEF EntryInv, HandInv
<1>3. left' \in [Workers -> SUBSET Workers]
  BY <1>1
<1>4. \A v \in Workers : v \notin left'[v] /\ (pc'[v] = pc[v] => left'[v] = left[v])
  BY <1>1, <1>2
<1>5. Quiet
  BY <1>1, <1>2, <1>3, <1>4 DEF Quiet, EmptyHanded
<1> QED BY <1>5, QuietStep

(* One worker turns to a place where its hand is empty as well. *)
LEMMA WorkerQuiet ==
  ASSUME EntryInv, SchedTypes, NEW w \in Workers, NEW y, Goto(w, y), y \notin {"run", "poll"},
         pc[w] \notin {"run", "poll", "steal"},
         UNCHANGED <<life, owner, inject, local, lifo, cur, carry, at, stop>>,
         left' = left \/ (pc[w] = "search" /\ y # "search" /\ left' = [left EXCEPT ![w] = Workers \ {w}])
  PROVE  EntryInv'
<1>1. pc'[w] = y /\ \A v \in Workers : v # w => pc'[v] = pc[v]
  BY DEF SchedTypes, Goto
<1>2. EmptyHanded
  BY <1>1 DEF EmptyHanded
<1>3. \/ left' = left
      \/ \E v \in Workers : /\ pc[v] = "search" /\ pc'[v] # "search"
                            /\ left' = [left EXCEPT ![v] = Workers \ {v}]
  BY <1>1
<1> QED BY <1>2, <1>3, LoopQuiet DEF Shutdown

LEMMA NotifyQuiet ==
  ASSUME EntryInv, SchedTypes, NEW p \in Threads,
         NotifyPend(p) \/ NotifyDecide(p) \/ NotifyCondvar(p) \/ NotifyPoke(p) \/ Register(p)
  PROVE  EntryInv'
<1>1. carry \in [Threads -> MaybeTask] /\ (at[p] \notin Carrying => carry[p] = NoTask)
  BY DEF EntryInv, EntryTypes, CarryInv
<1>2. UNCHANGED <<life, owner, inject, local, lifo, cur, left, stop>>
  BY DEF NotifyPend, NotifyDecide, NotifyCondvar, NotifyPoke, Register, task, queues, loop, closer
<1>3. \E x : /\ at' = [at EXCEPT ![p] = x] /\ carry' = [carry EXCEPT ![p] = carry[p]]
             /\ x \in Carrying <=> at[p] \in Carrying
  BY <1>1 DEF NotifyPend, NotifyDecide, NotifyCondvar, NotifyPoke, Register, Enter, Carrying
<1>4. carry' = carry /\ \A q \in Threads : at'[q] \in Carrying <=> at[q] \in Carrying
  BY <1>1, <1>3 DEF SchedTypes
<1>5. EmptyHanded
  <2>1. CASE NotifyCondvar(p)
    BY <2>1 DEF NotifyCondvar, NotifyOne, Goto, EmptyHanded, SchedTypes
  <2>2. CASE ~NotifyCondvar(p)
    BY <2>2 DEF NotifyPend, NotifyDecide, NotifyPoke, Register, loop, EmptyHanded
  <2> QED BY <2>1, <2>2
<1> QED BY <1>2, <1>4, <1>5, LoopQuiet DEF Shutdown

LEMMA ShutdownQuiet ==
  ASSUME EntryInv, SchedTypes, SetShutdown \/ (ShutdownStep /\ ~\E t \in Tasks : CancelTask(t))
  PROVE  EntryInv'
<1>1. UNCHANGED <<life, owner, inject, local, lifo, cur, carry, at, left>> /\ Shutdown'
  BY DEF SetShutdown, ShutdownStep, CloseInjector, TakeRegistry, PendAll, NotifyAll, PokeAll, JoinThreads,
     task, queues, loop, call, Shutdown
<1>2. EmptyHanded
  <2>1. CASE NotifyAll
    BY <2>1 DEF NotifyAll, EmptyHanded
  <2>2. CASE ~NotifyAll
    BY <2>2 DEF SetShutdown, ShutdownStep, CloseInjector, TakeRegistry, PendAll, PokeAll, JoinThreads,
       loop, EmptyHanded
  <2> QED BY <2>1, <2>2
<1> QED BY <1>1, <1>2, LoopQuiet

LEMMA CancelStep ==
  ASSUME EntryInv, SchedTypes, NEW t \in Tasks, CancelTask(t)
  PROVE  EntryInv'
<1>1. UNCHANGED <<owner, inject, local, lifo, pc, cur, carry, at, left, stop>>
  BY DEF CancelTask, queues, loop, call
<1>2. life \in [Tasks -> Lives] /\ owner \in [Tasks -> Workers] /\ TaskInv(t) /\ t # NoTask
  BY SizesAssumption DEF EntryInv, EntryTypes
<1>3. CASE life[t] # "idle"
  <2>1. life' = life
    BY <1>2, <1>3 DEF CancelTask
  <2> QED BY <1>1, <2>1, LoopQuiet DEF EmptyHanded, Shutdown
<1>4. CASE life[t] = "idle"
  <2>1. life' = [life EXCEPT ![t] = "done"]
    BY <1>4 DEF CancelTask
  <2>2. \A v \in Workers : cur[v] # t
    BY <1>2, <1>4 DEF EntryInv, HandInv
  <2>3. \A k, x : In(k, x, t) => k = "cur"
    BY <1>2, <1>4 DEF TaskInv
  <2> QED BY <1>1, <1>2, <2>1, <2>2, <2>3, StateChanges DEF Lives, SchedTypes, Shutdown
<1> QED BY <1>3, <1>4

LEMMA WakeStep ==
  ASSUME EntryInv, SchedTypes, NEW p \in Threads, NEW t \in Tasks, Wake(p, t)
  PROVE  EntryInv'
<1>1. UNCHANGED <<owner, inject, local, lifo, pc, cur, left, stop>> /\ at[p] = "none"
  BY DEF Wake, queues, loop, closer
<1>2. life \in [Tasks -> Lives] /\ owner \in [Tasks -> Workers] /\ TaskInv(t) /\ t # NoTask
  BY SizesAssumption DEF EntryInv, EntryTypes
<1>3. CASE life[t] = "idle"
  <2>1. life' = [life EXCEPT ![t] = "notified"] /\ Enter(p, "schedule", t)
    BY <1>3 DEF Wake
  <2> QED BY <1>1, <1>2, <1>3, <2>1, EntryBorn DEF SchedTypes
<1>4. CASE life[t] = "running"
  <2>1. life' = [life EXCEPT ![t] = "rerun"] /\ UNCHANGED <<at, carry>>
    BY <1>4 DEF Wake, call
  <2>2. \A v \in Workers : cur[v] = t => pc[v] = "poll"
    BY <1>2, <1>4 DEF EntryInv, HandInv
  <2>3. \A k, x : In(k, x, t) => k = "cur"
    BY <1>2, <1>4 DEF TaskInv
  <2>4. \E v \in Workers : cur[v] = t
    BY <1>2, <1>4 DEF TaskInv, Polled
  <2> QED BY <1>1, <1>2, <2>1, <2>2, <2>3, <2>4, StateChanges DEF Lives, SchedTypes, Shutdown
<1> QED BY <1>3, <1>4 DEF Wake
(* The steps of worker_loop that find a task, or find none. *)
LEMMA FindStep ==
  ASSUME EntryInv, SchedTypes, NEW w \in Workers,
         NextLifo(w) \/ PopLocal(w) \/ TakeInjected(w) \/ PopInjected(w) \/ Search(w)
  PROVE  EntryInv'
<1> USE DEF InLoop, task, call, closer
<1>0. /\ pc \in [Workers -> PcNames] /\ lifo \in [Workers -> MaybeTask] /\ local \in [Workers -> Seq(Tasks)]
      /\ QueuesDistinct
  BY DEF SchedTypes, EntryInv, EntryTypes
<1>1. CASE NextLifo(w)
  <2>1. CASE LifoAllowed(w) /\ lifo[w] # NoTask
    <3>1. /\ Take(w, lifo[w]) /\ lifo' = [lifo EXCEPT ![w] = NoTask] /\ pc[w] = "lifo"
          /\ UNCHANGED <<life, owner, inject, local, carry, at, left, stop>>
      BY <1>1, <2>1 DEF NextLifo
    <3>2. PICK h : h = lifo[w]
      OBVIOUS
    <3>3. h \in Tasks /\ In("lifo", w, h)
      BY <1>0, <2>1, <3>2 DEF MaybeTask, In
    <3>4. Leaves("lifo", w, h)
      BY <1>0, <3>1, <3>2, SizesAssumption DEF Leaves
    <3>5. lifo' \in [Workers -> MaybeTask] /\ QueuesDistinct'
      BY <1>0, <3>1 DEF MaybeTask, QueuesDistinct
    <3> QED BY <1>0, <3>1, <3>2, <3>3, <3>4, <3>5, HandTakes
  <2>2. CASE ~LifoAllowed(w) \/ lifo[w] = NoTask
    <3>1. Goto(w, "local") /\ pc[w] = "lifo" /\ UNCHANGED <<life, owner, inject, local, lifo, cur, carry, at, left, stop>>
      BY <1>1, <2>2 DEF NextLifo
    <3> QED BY <3>1, WorkerQuiet
  <2> QED BY <2>1, <2>2
<1>2. CASE PopLocal(w)
  <2>1. pc[w] = "local" /\ UNCHANGED <<life, owner, inject, lifo, carry, at, left, stop>>
    BY <1>2 DEF PopLocal
  <2>2. CASE local[w] # <<>>
    <3>1. local' = [local EXCEPT ![w] = Front(@)] /\ Take(w, Last(local[w]))
      BY <1>2, <2>2 DEF PopLocal
    <3> QED BY <1>0, <2>1, <2>2, <3>1, PopTakes
  <2>3. CASE local[w] = <<>>
    <3>1. UNCHANGED <<local, cur>> /\ (Goto(w, "inject") \/ Goto(w, "search"))
      BY <1>2, <2>3 DEF PopLocal
    <3> QED BY <2>1, <3>1, WorkerQuiet
  <2> QED BY <2>2, <2>3
<1>3. CASE TakeInjected(w)
  <2>1. pc[w] = "inject" /\ UNCHANGED <<life, owner, cur, carry, at, left, stop>>
    BY <1>3 DEF TakeInjected
  <2>2. CASE inject = <<>>
    <3>1. UNCHANGED <<inject, local, lifo>> /\ (Goto(w, "exit") \/ Goto(w, "search"))
      BY <1>3, <2>2 DEF TakeInjected, AfterInject, queues
    <3> QED BY <2>1, <3>1, WorkerQuiet
  <2>3. CASE inject # <<>>
    <3>1. /\ inject' = Tail(inject) /\ local' = [local EXCEPT ![w] = Append(@, Head(inject))]
          /\ Goto(w, "injected") /\ lifo' = lifo
      BY <1>3, <2>3 DEF TakeInjected
    <3> QED BY <1>0, <2>1, <2>3, <3>1, TakeInjectedStep
  <2> QED BY <2>2, <2>3
<1>4. CASE PopInjected(w)
  <2>1. pc[w] = "injected" /\ UNCHANGED <<life, owner, inject, lifo, carry, at, left, stop>>
    BY <1>4 DEF PopInjected
  <2>2. CASE local[w] # <<>>
    <3>1. local' = [local EXCEPT ![w] = Front(@)] /\ Take(w, Last(local[w]))
      BY <1>4, <2>2 DEF PopInjected
    <3> QED BY <1>0, <2>1, <2>2, <3>1, PopTakes
  <2>3. CASE local[w] = <<>>
    <3>1. UNCHANGED <<local, cur>> /\ (Goto(w, "exit") \/ Goto(w, "search"))
      BY <1>4, <2>3 DEF PopInjected, AfterInject
    <3> QED BY <2>1, <3>1, WorkerQuiet
  <2> QED BY <2>2, <2>3
<1>5. CASE Search(w)
  <2>1. pc[w] = "search" /\ UNCHANGED <<life, owner, inject, local, lifo, cur, carry, at, stop>>
    BY <1>5 DEF Search, queues
  <2>2. \/ Goto(w, "steal") /\ left' = [left EXCEPT ![w] = Workers \ {w}]
        \/ (Goto(w, "exit") \/ Goto(w, "inject")) /\ left' = left
    BY <1>5 DEF Search, AfterSearch
  <2> QED BY <2>1, <2>2, WorkerQuiet
<1> QED BY <1>1, <1>2, <1>3, <1>4, <1>5

LEMMA StealingStep ==
  ASSUME EntryInv, SchedTypes, NEW w \in Workers, Unsearch(w) \/ \E v \in Workers : StealFrom(w, v)
  PROVE  EntryInv'
<1>0. /\ pc \in [Workers -> PcNames] /\ at \in [Threads -> AtNames] /\ w \in Threads
      /\ carry \in [Threads -> MaybeTask] /\ owner \in [Tasks -> Workers] /\ left \in [Workers -> SUBSET Workers]
      /\ (at[w] = "none" => carry[w] = NoTask) /\ (\A v \in Workers : v \notin left[v])
  BY DEF SchedTypes, EntryInv, EntryTypes, HandInv, CarryInv, Carrying
<1>1. CASE Unsearch(w)
  <2>1. /\ pc[w] = "steal" /\ at[w] = "none" /\ left[w] = {}
        /\ UNCHANGED <<life, owner, inject, local, lifo, cur, left, stop>>
    BY <1>1 DEF Unsearch, InLoop, task, queues, closer
  <2>2. carry' = carry /\ \A p \in Threads : at'[p] \in Carrying <=> at[p] \in Carrying
    BY <1>0, <1>1, <2>1 DEF Unsearch, call, Enter, Carrying
  <2>3. CASE cur[w] # NoTask
    <3>1. pc' = [pc EXCEPT ![w] = "run"]
      BY <1>1, <2>3 DEF Unsearch, Goto
    <3>2. Quiet
      BY <1>0, <2>1, <2>2, <2>3, <3>1 DEF Quiet, Shutdown
    <3> QED BY <3>2, QuietStep
  <2>4. CASE cur[w] = NoTask
    <3>1. pc' = [pc EXCEPT ![w] = AfterSearch(w)] /\ AfterSearch(w) \in {"exit", "inject"}
      BY <1>1, <2>4 DEF Unsearch, Goto, AfterSearch
    <3>2. Quiet
      BY <1>0, <2>1, <2>2, <2>4, <3>1 DEF Quiet, Shutdown
    <3> QED BY <3>2, QuietStep
  <2> QED BY <2>3, <2>4
<1>2. ASSUME NEW v \in Workers, StealFrom(w, v) PROVE EntryInv'
  <2>1. /\ pc[w] = "steal" /\ v \in left[w]
        /\ UNCHANGED <<life, owner, inject, lifo, pc, carry, at, stop>>
    BY <1>2 DEF StealFrom, InLoop, task, call, closer
  <2>2. CASE local[v] = <<>>
    <3>1. left' = [left EXCEPT ![w] = @ \ {v}] /\ UNCHANGED <<local, cur>>
      BY <1>2, <2>2 DEF StealFrom
    <3>2. left' \in [Workers -> SUBSET Workers] /\ \A x \in Workers : left'[x] \subseteq left[x]
      BY <1>0, <3>1
    <3>3. Quiet
      BY <1>0, <2>1, <3>1, <3>2 DEF Quiet, Shutdown
    <3> QED BY <3>3, QuietStep
  <2>3. CASE local[v] # <<>>
    <3>1. /\ local' = [local EXCEPT ![v] = Kept(@), ![w] = @ \o Tail(Moved(local[v]))]
          /\ cur' = [cur EXCEPT ![w] = Head(local[v])] /\ left' = [left EXCEPT ![w] = {}]
      BY <1>2, <2>3 DEF StealFrom
    <3> QED BY <2>1, <2>3, <3>1, StealStep
  <2> QED BY <2>2, <2>3
<1> QED BY <1>1, <1>2

LEMMA RunningStep ==
  ASSUME EntryInv, SchedTypes, NEW w \in Workers, Run(w) \/ PollEnd(w)
  PROVE  EntryInv'
<1>0. /\ pc \in [Workers -> PcNames] /\ at \in [Threads -> AtNames] /\ Workers \subseteq Threads
      /\ owner \in [Tasks -> Workers] /\ life \in [Tasks -> Lives]
  BY DEF SchedTypes, EntryInv, EntryTypes
<1>1. PICK t : t = cur[w]
  OBVIOUS
<1>2. pc[w] \in {"run", "poll"} /\ at[w] = "none"
  BY DEF Run, PollEnd, InLoop
<1>3. /\ t \in Tasks /\ TaskInv(t) /\ (\A k, x : In(k, x, t) => k = "cur" /\ x = w)
      /\ \A v \in Workers : cur[v] = t => v = w
  BY <1>1, <1>2, HandHolds
<1>4. CASE Run(w)
  <2>1. /\ pc[w] = "run" /\ owner' = [owner EXCEPT ![t] = w]
        /\ UNCHANGED <<inject, local, lifo, carry, at, left, stop>>
    BY <1>1, <1>4 DEF Run, InLoop, queues, call, closer
  <2>2. owner' \in [Tasks -> Workers]
    BY <1>0, <2>1
  <2>3. CASE t \in cancelled
    <3>1. /\ life' = [life EXCEPT ![t] = "done"] /\ cur' = [cur EXCEPT ![w] = NoTask]
          /\ pc' = [pc EXCEPT ![w] = "lifo"]
      BY <1>1, <1>4, <2>3 DEF Run, Goto
    <3> QED BY <1>0, <1>1, <1>2, <2>1, <2>2, <3>1, HandLetsGo
  <2>4. CASE t \notin cancelled
    <3>1. /\ life' = [life EXCEPT ![t] = "running"] /\ cur' = cur /\ pc' = [pc EXCEPT ![w] = "poll"]
      BY <1>1, <1>4, <2>4 DEF Run, Goto
    <3>2. \A v \in Workers : IF cur[v] = t THEN pc'[v] = "poll" /\ pc[v] \in {"run", "poll"}
                             ELSE pc'[v] = pc[v]
      BY <1>0, <1>1, <1>3, <2>1, <3>1
    <3>3. pc' \in [Workers -> PcNames] /\ \E v \in Workers : cur[v] = t
      BY <1>0, <1>1, <3>1 DEF PcNames
    <3> QED BY <1>0, <1>3, <2>1, <2>2, <3>1, <3>2, <3>3, StateChanges DEF Lives, Shutdown
  <2> QED BY <2>3, <2>4
<1>5. CASE PollEnd(w)
  <2>1. /\ pc[w] = "poll" /\ cur' = [cur EXCEPT ![w] = NoTask] /\ pc' = [pc EXCEPT ![w] = "lifo"]
        /\ UNCHANGED <<owner, inject, local, lifo, left, stop>>
        /\ \/ life' = [life EXCEPT ![t] = "done"] /\ UNCHANGED <<at, carry>>
           \/ life' = [life EXCEPT ![t] = "idle"] /\ UNCHANGED <<at, carry>>
           \/ life' = [life EXCEPT ![t] = "notified"] /\ Enter(w, "schedule", t)
    BY <1>1, <1>5 DEF PollEnd, InLoop, queues, call, closer, Goto
  <2>2. CASE life' = [life EXCEPT ![t] = "done"] /\ UNCHANGED <<at, carry>>
    BY <1>0, <1>1, <2>1, <2>2, HandLetsGo
  <2>3. CASE life' = [life EXCEPT ![t] = "idle"] /\ UNCHANGED <<at, carry>>
    BY <1>0, <1>1, <2>1, <2>3, HandLetsGo
  <2>4. CASE life' = [life EXCEPT ![t] = "notified"] /\ Enter(w, "schedule", t)
    BY <1>0, <1>1, <1>2, <2>1, <2>4, HandReschedules
  <2> QED BY <2>1, <2>2, <2>3, <2>4
<1> QED BY <1>4, <1>5

(* Parking, waiting and waking up move nothing. *)
LEMMA ParkingQuiet ==
  ASSUME EntryInv, SchedTypes, NEW w \in Workers,
         \/ ExitCheck(w) \/ SetParked(w) \/ Recheck(w) \/ ClaimHolder(w) \/ SwapPending(w) \/ WaitReturns(w)
         \/ WaitEvent(w) \/ ReleaseHolder(w) \/ SleepTimeout(w) \/ LeaveCondvar(w) \/ ClearParked(w)
  PROVE  EntryInv'
<1>1. UNCHANGED <<life, owner, inject, local, lifo, cur, carry, at, left, stop>>
  BY DEF ExitCheck, SetParked, Recheck, ClaimHolder, SwapPending, WaitReturns, WaitEvent, ReleaseHolder,
     SleepTimeout, LeaveCondvar, ClearParked, task, queues, call, closer
<1>2. CASE ReleaseHolder(w)
  <2>1. EmptyHanded
    BY <1>2 DEF ReleaseHolder, InLoop, EmptyHanded, Goto, SchedTypes
  <2> QED BY <1>1, <2>1, LoopQuiet DEF Shutdown
<1>3. CASE ~ReleaseHolder(w)
  <2>1. pc[w] \notin {"run", "poll", "steal"}
    BY <1>3 DEF ExitCheck, SetParked, Recheck, ClaimHolder, SwapPending, WaitReturns, WaitEvent,
       SleepTimeout, LeaveCondvar, ClearParked, InLoop
  <2>2. \E y : Goto(w, y) /\ y \notin {"run", "poll"}
    BY <1>3 DEF ExitCheck, SetParked, Recheck, ClaimHolder, SwapPending, WaitReturns, WaitEvent,
       SleepTimeout, LeaveCondvar, ClearParked, WaitMode
  <2> QED BY <1>1, <2>1, <2>2, WorkerQuiet
<1> QED BY <1>2, <1>3

LEMMA EntryInvInductive == SchedTypes /\ EntryInv /\ [Next]_vars => EntryInv'
<1> SUFFICES ASSUME SchedTypes, EntryInv, [Next]_vars PROVE EntryInv'
  OBVIOUS
<1>1. CASE UNCHANGED vars
  BY <1>1, LoopQuiet DEF vars, task, queues, loop, call, closer, EmptyHanded, Shutdown
<1>2. ASSUME NEW p \in Threads, Call(p) PROVE EntryInv'
  BY <1>2, NotifyQuiet, ScheduleStep, PushStep DEF Call, SchedTypes
<1>3. ASSUME NEW p \in Threads, NEW t \in Tasks, NEW w \in Workers, Spawn(p, t, w) PROVE EntryInv'
  <2>1. /\ at[p] = "none" /\ life[t] = "unborn" /\ life' = [life EXCEPT ![t] = "notified"]
        /\ owner' = [owner EXCEPT ![t] = w] /\ Enter(p, "register", t)
        /\ UNCHANGED <<inject, local, lifo, cur, pc, left, stop>>
    BY <1>3 DEF Spawn, queues, loop, closer
  <2>2. owner' \in [Tasks -> Workers]
    BY <2>1 DEF EntryInv, EntryTypes
  <2> QED BY <2>1, <2>2, EntryBorn DEF SchedTypes
<1>4. ASSUME NEW w \in Workers, WorkerStep(w) \/ WaitEvent(w) PROVE EntryInv'
  BY <1>4, FindStep, StealingStep, RunningStep, ParkingQuiet DEF WorkerStep
<1>5. CASE SetShutdown \/ ShutdownStep
  BY <1>5, ShutdownQuiet, CancelStep
<1> QED BY <1>1, <1>2, <1>3, <1>4, <1>5, WakeStep DEF Next

LEMMA EntryInvImplies == EntryInv => OneEntry
<1> SUFFICES ASSUME EntryInv, NEW t \in Tasks
             PROVE  /\ Cardinality(Places(t)) <= 1
                    /\ life[t] \in {"unborn", "idle", "done"} => Places(t) = {}
                    /\ life[t] \in {"running", "rerun"} => Polled(t)
                    /\ life[t] = "notified" /\ ~Shutdown => Places(t) # {}
  BY DEF OneEntry, Polled
<1>1. /\ TaskInv(t) /\ t # NoTask /\ inject \in Seq(Tasks) /\ local \in [Workers -> Seq(Tasks)]
      /\ Distinct(inject) /\ \A w \in Workers : Distinct(local[w])
  BY SizesAssumption DEF EntryInv, EntryTypes, QueuesDistinct
<1>2. \A z \in Places(t) :
        \/ In("inject", 0, t) /\ \E i \in 1 .. Len(inject) : inject[i] = t /\ z = <<"inject", i>>
        \/ \E p \in Threads : In("carry", p, t) /\ z = <<"carry", p>>
        \/ \E w \in Workers : In("lifo", w, t) /\ z = <<"lifo", w>>
        \/ \E w \in Workers : In("cur", w, t) /\ z = <<"cur", w>>
        \/ \E w \in Workers : In("local", w, t)
             /\ \E i \in 1 .. Len(local[w]) : local[w][i] = t /\ z = <<"local", w, i>>
  BY <1>1, SMTT(60) DEF Places, In, Occurs
<1>3. \A y, z \in Places(t) : y = z
  BY <1>1, <1>2 DEF TaskInv, Lone, Distinct
<1>4. Cardinality(Places(t)) <= 1
  <2>1. CASE Places(t) = {}
    BY <2>1, FS_EmptySet
  <2>2. CASE Places(t) # {}
    <3>1. PICK z : z \in Places(t)
      BY <2>2
    <3>2. Places(t) = {z}
      BY <1>3, <3>1
    <3>3. Cardinality({z}) = 1
      BY FS_Singleton
    <3> QED BY <3>2, <3>3
  <2> QED BY <2>1, <2>2
<1>5. ASSUME NEW k, NEW x, In(k, x, t) PROVE Places(t) # {}
  <2>1. CASE k = "inject"
    <3>1. PICK i \in DOMAIN inject : inject[i] = t
      BY <1>1, <1>5, <2>1 DEF In, Occurs
    <3>2. <<"inject", i>> \in Places(t)
      BY <3>1 DEF Places
    <3> QED BY <3>2
  <2>2. CASE k = "local"
    <3>1. PICK i \in DOMAIN local[x] : local[x][i] = t /\ x \in Workers
      BY <1>1, <1>5, <2>2 DEF In, Occurs
    <3>2. <<"local", x, i>> \in Places(t)
      BY <3>1 DEF Places
    <3> QED BY <3>2
  <2>3. CASE k \in {"lifo", "cur", "carry"}
    <3>1. <<k, x>> \in Places(t)
      BY <1>5, <2>3 DEF In, Places
    <3> QED BY <3>1
  <2> QED BY <1>5, <2>1, <2>2, <2>3 DEF In
<1>6. ASSUME life[t] \in {"unborn", "idle", "done"} PROVE Places(t) = {}
  <2>1. \A w \in Workers : cur[w] # t
    BY <1>1, <1>6 DEF EntryInv, HandInv
  <2>2. \A k, x : ~In(k, x, t)
    BY <1>1, <1>6, <2>1 DEF TaskInv, In
  <2> QED BY <1>2, <2>2
<1> QED BY <1>1, <1>4, <1>5, <1>6 DEF TaskInv

(* TasksHaveOneEntry: through wakes, spawns, steals, overflows, the LIFO slot, the         *)
(* injector and shutdown, a task has at most one entry in all queues, calls and hands, it  *)
(* has one while it is NOTIFIED and the runtime is up, and it is polled by one worker only. *)
THEOREM TasksHaveOneEntry == Spec => []OneEntry
<1>1. Init => SchedTypes /\ EntryInv
  <2> SUFFICES ASSUME Init PROVE SchedTypes /\ EntryInv
    OBVIOUS
  <2>1. 0 \in Workers /\ Workers \subseteq Threads
    BY SizesAssumption DEF Workers, Threads
  <2>2. SchedTypes
    BY <2>1 DEF Init, SchedTypes, PcNames, AtNames
  <2>3. EntryTypes
    BY <2>1 DEF Init, EntryTypes, Lives, MaybeTask
  <2>4. QueuesDistinct
    BY DEF Init, QueuesDistinct, Distinct
  <2>5. \A w \in Workers : HandInv(w)
    BY DEF Init, HandInv
  <2>6. \A p \in Threads : CarryInv(p)
    BY DEF Init, CarryInv, Carrying
  <2>7. ASSUME NEW t \in Tasks PROVE TaskInv(t)
    <3>1. \A k, x : ~In(k, x, t)
      BY SizesAssumption DEF Init, In, Occurs
    <3> QED BY <3>1 DEF Init, TaskInv, Lone
  <2> QED BY <2>2, <2>3, <2>4, <2>5, <2>6, <2>7 DEF EntryInv
<1>2. Init => ParkInv
  BY ParkInvInit
<1>3. (ParkInv /\ EntryInv) /\ [Next]_vars => (ParkInv /\ EntryInv)'
  BY ParkInvInductive, EntryInvInductive DEF ParkInv
<1>4. ParkInv /\ EntryInv => OneEntry
  BY EntryInvImplies
<1> QED BY <1>1, <1>2, <1>3, <1>4, PTL DEF Spec
=============================================================================
