------------------------------ MODULE Takeover ------------------------------
(***************************************************************************)
(* block_in_place on a worker (multi_thread/worker.rs): the worker hands its *)
(* local queue and LIFO slot to a takeover thread, polls its future in       *)
(* place, asks for the queue back and waits for it on a condition variable.  *)
(* The queue cell workers[id].queue is plain memory: whoever owns it must be *)
(* the only one to touch it.  The takeover thread parks in the I/O driver    *)
(* beside the other workers (io/driver.rs), where a notification is for      *)
(* nobody in particular.  What a task does and how workers search is left to *)
(* Scheduler, the timeout of the kernel wait to TimerWheel.                  *)
(***************************************************************************)
EXTENDS Integers, FiniteSets

CONSTANTS
  Jobs,  \* tasks
  Peers, \* the other workers of the runtime
  Taker  \* the takeover thread, as a thread that parks

VARIABLES
  place,     \* per task: the cell, the hand-over slot, a LIFO slot, the injector, or "done"
  some,      \* Takeover::queue is Some
  requested, returned, shut, \* Takeover::requested and returned, Shared::shutdown
  worker,    \* where the worker thread stands
  taker,     \* where the takeover thread stands
  root,      \* RootSignal of the blocked future: woken, token
  waking,    \* where a thread outside stands: waking the root future, in notify_driver or in unpark_all
  stage,     \* per parking thread: where it stands in park_worker, or "out"
  wakePending, kernelWake, \* DriverShared::wake_pending; the poller's eventfd is readable
  astray     \* history: another thread got the wake this request was to give the takeover thread

Parkers == Peers \cup {Taker}
handover == <<place, some, requested, returned, shut>>
driver == <<stage, wakePending, kernelWake, astray>>
vars == <<handover, worker, taker, root, waking, driver>>

Init ==
  /\ place \in [Jobs -> {"cell", "wlifo", "unborn"}]
  /\ Cardinality({j \in Jobs : place[j] = "wlifo"}) <= 1
  /\ some = FALSE /\ requested = FALSE /\ returned = FALSE /\ shut = FALSE
  /\ stage = [d \in Parkers |-> "out"] /\ astray = FALSE
  /\ wakePending \in BOOLEAN /\ kernelWake \in BOOLEAN  \* of earlier notifications
  /\ worker = "loop" /\ taker = "none" /\ waking = "idle"
  /\ root = [woken |-> FALSE, token |-> FALSE]

At(p) == {j \in Jobs : place[j] = p}

-----------------------------------------------------------------------------
(* park_worker and notify_driver (io/driver.rs) *)

Held == {"swap", "drain", "kernel", "release"}                           \* ParkState::holder
Waiters == {d \in Parkers : stage[d] \in {"asleep", "woken"}}            \* ParkState::waiters

(* Condvar::notify_one reaches one sleeper, or nobody; notify_all every one. *)
NotifySleeper(others) ==
  LET asleep == {d \in Parkers : stage[d] = "asleep"} IN
  IF asleep = {} THEN stage' = others
  ELSE \E d \in asleep : stage' = [others EXCEPT ![d] = "woken"]
NotifySleepers == stage' = [d \in Parkers |-> IF stage[d] = "asleep" THEN "woken" ELSE stage[d]]

(* The first thread to arrive holds the kernel wait, the others sleep on the condvar. *)
Claim(d) ==
  /\ stage[d] = "claim"
  /\ stage' = [stage EXCEPT ![d] = IF \E e \in Parkers : stage[e] \in Held THEN "asleep" ELSE "swap"]
  /\ UNCHANGED <<handover, worker, taker, root, waking, wakePending, kernelWake, astray>>

(* A wake that came before the wait makes its timeout zero.  Whoever swaps it has it. *)
Swap(d) ==
  /\ stage[d] = "swap"
  /\ stage' = [stage EXCEPT ![d] = IF wakePending THEN "drain" ELSE "kernel"]
  /\ wakePending' = FALSE
  /\ astray' = (astray \/ (d # Taker /\ wakePending /\ requested /\ worker # "pend"))
  /\ UNCHANGED <<handover, worker, taker, root, waking, kernelWake>>

(* The wait ends by its timeout, an event or the eventfd, which it drains. *)
WaitReturns(d) ==
  /\ stage[d] \in {"drain", "kernel"}
  /\ stage' = [stage EXCEPT ![d] = "release"] /\ kernelWake' = FALSE
  /\ UNCHANGED <<handover, worker, taker, root, waking, wakePending, astray>>

(* The holder leaves and wakes a sleeper; a sleeper leaves when woken or after CONDVAR_PARK_TIMEOUT. *)
LeavePark(d) ==
  /\ \/ stage[d] = "release" /\ NotifySleeper([stage EXCEPT ![d] = "out"])
     \/ stage[d] \in {"asleep", "woken"} /\ stage' = [stage EXCEPT ![d] = "out"]
  /\ taker' = IF d = Taker THEN "run" ELSE taker
  /\ UNCHANGED <<handover, worker, root, waking, wakePending, kernelWake, astray>>

(* A step of a thread inside notify_driver, from the place at to the place next. *)
NotifyDriver(at, next, done) ==
  \/ /\ at = "pend" /\ next = "decide"
     /\ wakePending' = TRUE /\ UNCHANGED <<stage, kernelWake>>
  \/ /\ at = "decide" /\ next = IF Waiters # {} THEN "notify" ELSE "poke"
     /\ UNCHANGED <<stage, wakePending, kernelWake>>
  \/ /\ at = "notify" /\ next = done
     /\ NotifySleeper(stage) /\ UNCHANGED <<wakePending, kernelWake>>
  \/ /\ at = "poke" /\ next = done
     /\ kernelWake' = TRUE /\ UNCHANGED <<stage, wakePending>>

(* Another worker found nothing and parks; between its parks it runs and steals. *)
PeerParks(p) ==
  /\ stage[p] = "out" /\ At("inject") = {} /\ stage' = [stage EXCEPT ![p] = "claim"]
  /\ UNCHANGED <<handover, worker, taker, root, waking, wakePending, kernelWake, astray>>

-----------------------------------------------------------------------------
(* The worker: hand over and start the thread. *)
HandOver ==
  /\ worker = "loop" /\ taker = "none"
  /\ place' = [j \in Jobs |-> CASE place[j] = "cell" -> "slot" [] place[j] = "wlifo" -> "hlifo" [] OTHER -> place[j]]
  /\ some' = TRUE /\ worker' = "poll" /\ taker' = "start"
  /\ root' = [root EXCEPT !.woken = TRUE]
  /\ UNCHANGED <<requested, returned, shut, waking, driver>>

(* block_on, nested on the worker thread: it gives up its identity and hands nothing *)
(* over; its queue is left to the thieves.                                           *)
block_on ==
  /\ worker = "loop" /\ taker = "none"
  /\ worker' = "onpoll" /\ root' = [root EXCEPT !.woken = TRUE]
  /\ UNCHANGED <<handover, taker, waking, driver>>

(* The loop both share: the future is polled when it was woken, then the thread   *)
(* parks; Ready, or a panic of block_in_place's future, leaves it.                *)
RootLoop(poll, park, ready) ==
  /\ \/ /\ worker = poll /\ root' = [root EXCEPT !.woken = FALSE]
        /\ worker' = park \/ (root.woken /\ worker' = ready)
     \/ /\ worker = park /\ root.token
        /\ root' = [root EXCEPT !.token = FALSE] /\ worker' = poll
  /\ UNCHANGED <<handover, taker, waking, driver>>

PollInPlace == RootLoop("poll", "park", "request")
PollBlockOn == RootLoop("onpoll", "onpark", "loop")

(* The queue is asked back, and the driver notified: unpark_worker ignores the id. *)
Request ==
  \/ /\ worker = "request" /\ requested' = TRUE /\ worker' = "pend"
     /\ UNCHANGED <<place, some, returned, shut, taker, root, waking, driver>>
  \/ /\ \E next \in {"decide", "notify", "poke", "lock"} : NotifyDriver(worker, next, "lock") /\ worker' = next
     /\ astray' = (astray \/ (worker = "decide" /\ Waiters # {} /\ stage[Taker] = "kernel"))
     /\ UNCHANGED <<handover, taker, root, waking>>

(* The wait: look at returned under the queue lock, which is given up only when the *)
(* condition variable is entered.                                                   *)
MayReclaim_NonEmpty == some
MayReclaim == returned
CheckReturned ==
  /\ worker \in {"lock", "woken"}
  /\ worker' = IF MayReclaim THEN "reclaim" ELSE "checked"
  /\ UNCHANGED <<handover, taker, root, waking, driver>>

EnterWait ==
  /\ worker = "checked" /\ worker' = "waiting"
  /\ UNCHANGED <<handover, taker, root, waking, driver>>

(* The queue and the LIFO entry go back, and the takeover thread is joined. *)
Reclaim ==
  /\ worker = "reclaim" /\ worker' = "join" /\ some' = FALSE
  /\ place' = [j \in Jobs |-> CASE place[j] = "slot" -> "cell" [] place[j] = "hlifo" -> "wlifo" [] OTHER -> place[j]]
  /\ UNCHANGED <<requested, returned, shut, taker, root, waking, driver>>

Join ==
  /\ worker = "join" /\ taker = "gone"
  /\ worker' = "loop" /\ taker' = "none" /\ requested' = FALSE /\ returned' = FALSE
  /\ astray' = FALSE
  /\ UNCHANGED <<place, some, shut, root, waking, stage, wakePending, kernelWake>>

-----------------------------------------------------------------------------
(* takeover_thread and its worker_loop *)
Start ==
  /\ taker = "start" /\ some
  /\ place' = [j \in Jobs |-> CASE place[j] = "slot" -> "cell" [] place[j] = "hlifo" -> "tlifo" [] OTHER -> place[j]]
  /\ some' = FALSE /\ taker' = "run"
  /\ UNCHANGED <<requested, returned, shut, worker, root, waking, driver>>

(* A task runs to its end, or is woken again by then and goes to the LIFO slot. *)
Work == IF At("tlifo") # {} THEN At("tlifo") ELSE IF At("cell") # {} THEN At("cell") ELSE At("inject")
RunTask ==
  /\ taker = "run"
  /\ \E j \in Work : \E to \in {"done"} \cup (IF At("tlifo") \subseteq {j} THEN {"tlifo"} ELSE {"cell"}) :
       place' = [place EXCEPT ![j] = to]
  /\ UNCHANGED <<some, requested, returned, shut, worker, taker, root, waking, driver>>

(* Out of work: hand back when asked to, or at shutdown; otherwise park. *)
Idle ==
  /\ taker = "run" /\ Work = {}
  /\ taker' = IF requested \/ shut THEN "put" ELSE "park"
  /\ UNCHANGED <<handover, worker, root, waking, driver>>

(* IdleState::park: a last look at the injector, then the driver. *)
ParkTaker ==
  /\ taker = "park" /\ stage[Taker] = "out"
  /\ \/ At("inject") # {} /\ taker' = "run" /\ UNCHANGED stage
     \/ At("inject") = {} /\ stage' = [stage EXCEPT ![Taker] = "claim"] /\ UNCHANGED taker
  /\ UNCHANGED <<handover, worker, root, waking, wakePending, kernelWake, astray>>

(* The LIFO entry and the queue go to the hand-over, then the flag, then the notify: *)
(* neither of the last two holds the lock.                                           *)
PutBack ==
  /\ taker = "put" /\ worker # "checked"
  /\ place' = [j \in Jobs |-> CASE place[j] = "cell" -> "slot" [] place[j] = "tlifo" -> "hlifo" [] OTHER -> place[j]]
  /\ some' = TRUE /\ taker' = "flag"
  /\ UNCHANGED <<requested, returned, shut, worker, root, waking, driver>>

SetReturned ==
  /\ taker = "flag" /\ returned' = TRUE /\ taker' = "notify"
  /\ UNCHANGED <<place, some, requested, shut, worker, root, waking, driver>>

NotifyOne ==
  /\ taker = "notify" /\ taker' = "gone"
  /\ worker' = IF worker = "waiting" THEN "woken" ELSE worker
  /\ UNCHANGED <<handover, root, waking, driver>>

-----------------------------------------------------------------------------
(* Other threads inject tasks, wake the future, steal from the cell and shut down. *)
Inject(j) ==
  /\ waking = "idle" /\ place[j] = "unborn" /\ ~shut
  /\ place' = [place EXCEPT ![j] = "inject"] /\ waking' = "pend"
  /\ UNCHANGED <<some, requested, returned, shut, worker, taker, root, driver>>

WakeRoot ==
  /\ waking = "idle" /\ root' = [root EXCEPT !.woken = TRUE] /\ waking' = "root"
  /\ UNCHANGED <<handover, worker, taker, driver>>

EndWaking ==
  \/ /\ \E next \in {"decide", "notify", "poke", "idle"} : NotifyDriver(waking, next, "idle") /\ waking' = next
     /\ UNCHANGED <<handover, worker, taker, root, astray>>
  \/ /\ waking = "root" /\ root' = [root EXCEPT !.token = TRUE] /\ waking' = "idle"
     /\ UNCHANGED <<handover, worker, taker, driver>>

Steal(j) ==
  /\ place[j] \in {"cell", "inject"} /\ place' = [place EXCEPT ![j] = "done"]
  /\ UNCHANGED <<some, requested, returned, shut, worker, taker, root, waking, driver>>

(* The flag, then unpark_all. *)
Shutdown ==
  /\ waking = "idle" /\ ~shut /\ shut' = TRUE /\ waking' = "allPend"
  /\ UNCHANGED <<place, some, requested, returned, worker, taker, root, driver>>

UnparkAll ==
  /\ \/ waking = "allPend" /\ waking' = "allNotify" /\ wakePending' = TRUE /\ UNCHANGED <<stage, kernelWake>>
     \/ waking = "allNotify" /\ waking' = "allPoke" /\ NotifySleepers /\ UNCHANGED <<wakePending, kernelWake>>
     \/ waking = "allPoke" /\ waking' = "idle" /\ kernelWake' = TRUE /\ UNCHANGED <<stage, wakePending>>
  /\ UNCHANGED <<handover, worker, taker, root, astray>>

Next ==
  \/ HandOver \/ block_on \/ PollInPlace \/ PollBlockOn \/ Request \/ CheckReturned \/ EnterWait \/ Reclaim \/ Join
  \/ Start \/ RunTask \/ Idle \/ ParkTaker \/ PutBack \/ SetReturned \/ NotifyOne
  \/ WakeRoot \/ EndWaking \/ Shutdown \/ UnparkAll
  \/ \E d \in Parkers : Claim(d) \/ Swap(d) \/ WaitReturns(d) \/ LeavePark(d)
  \/ \E p \in Peers : PeerParks(p)
  \/ \E j \in Jobs : Inject(j) \/ Steal(j)

Spec == Init /\ [][Next]_vars

-----------------------------------------------------------------------------
(* OneOwner: the cell and the LIFO entries belong to one thread at a time: while the *)
(* takeover thread has them the hand-over slot is empty and the worker is not past    *)
(* its wait, and the thread that is about to claim the slot finds it full.            *)
OneOwner ==
  /\ taker \in {"start", "flag", "notify"} /\ worker # "join" => some
  /\ taker \in {"run", "park", "put"} => ~some /\ worker \notin {"loop", "reclaim", "join"}
  /\ worker = "reclaim" => some /\ taker \in {"notify", "gone"}

(* HandOverKeeps: no task is left behind in a slot nobody will look at: once the worker *)
(* has its queue back, everything that was handed over is in its queue or was run.      *)
HandOverKeeps ==
  worker \in {"loop", "join"} => At("slot") = {} /\ At("hlifo") = {} /\ At("tlifo") = {}

(* The takeover thread sleeps in the kernel wait, asked for its queue, with no wake *)
(* made or on its way.                                                              *)
SleepsUnasked ==
  stage[Taker] = "kernel" /\ requested /\ ~kernelWake /\ worker \notin {"pend", "decide", "poke"}

(* ReturnAsked: a takeover thread in the kernel wait has a wake coming when its queue is *)
(* asked back, although it looked for the request before it parked, unless another       *)
(* worker of the runtime got that wake: one that slept on the driver's condvar, or one   *)
(* that held the kernel wait and swapped wake_pending.  With no other worker nobody can. *)
ReturnAsked == (SleepsUnasked => astray) /\ (Peers = {} => ~astray)

(* RootNotAsleep: the thread parks beside an unwoken future, or its unpark is ahead. *)
RootNotAsleep == worker \in {"park", "onpark"} /\ ~root.token => ~root.woken \/ waking = "root"

TakeoverSound == RootNotAsleep /\ OneOwner /\ HandOverKeeps /\ ReturnAsked

(* HandBackSeen: a worker that waits for a queue which is back has its notification     *)
(* ahead of it.  The code does not keep this: returned is stored and notified without    *)
(* the queue lock, between the worker's look and its wait.                               *)
HandBackSeen == worker \in {"checked", "waiting"} /\ returned => taker = "notify"

(* ReturnReaches: the request reaches a takeover thread that sleeps in the kernel wait   *)
(* (the comment above it: waking the takeover thread at the driver level).  The code     *)
(* does not keep this beside other workers: notify_driver wakes one of the condvar, and  *)
(* a wake_pending may be swapped by the holder before the takeover thread claims.        *)
ReturnReaches == ~SleepsUnasked
=============================================================================
