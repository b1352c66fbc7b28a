---------------------------- MODULE CurrentThread ---------------------------
(***************************************************************************)
(* scheduler/current_thread.rs: one thread runs the root future and the      *)
(* spawned tasks in block_on and sweeps them in shutdown; other threads wake *)
(* tasks and the root, spawn through a Handle and drop handles.              *)
(*                                                                         *)
(* A task is what the scheduler sees of it: whether an entry of it exists,   *)
(* whether it was woken while it ran, whether it was cancelled (the cell     *)
(* itself is TaskCell).  The clock is not paused.                            *)
(***************************************************************************)
EXTENDS Integers, Sequences, FiniteSets

CONSTANTS
  Tasks,    \* spawned tasks
  Remotes,  \* threads other than the owner
  Interval  \* GLOBAL_QUEUE_INTERVAL

VARIABLES
  queues,   \* local, injection, deferred
  cell,     \* per task: state, again (woken while running), cancelled, handle (a remote JoinHandle)
  tasks,    \* the registry
  armed,    \* tasks with a timer in the wheel
  owner,    \* Inner::owner is the owner thread
  unparker, \* Inner::unparker holds the owner thread
  token,    \* the owner thread's park token
  woken,    \* RootSignal::woken
  tick,     \* Inner::tick, modulo Interval
  closed, shutdown_complete,
  main,     \* the owner thread: pc, its task, whether it parked with a timeout
  remote    \* per remote thread: pc and its task

flags == <<closed, shutdown_complete>>
parking == <<owner, unparker, token, woken>>
vars == <<queues, cell, tasks, armed, parking, tick, flags, main, remote>>

Nobody == "nobody"
Unborn == [state |-> "unborn", again |-> FALSE, cancelled |-> FALSE, handle |-> FALSE]

Init ==
  /\ queues = [local |-> <<>>, injection |-> <<>>, deferred |-> <<>>]
  /\ cell = [t \in Tasks |-> Unborn]
  /\ tasks = {} /\ armed = {}
  /\ owner = FALSE /\ unparker = FALSE /\ token = FALSE /\ woken = FALSE /\ tick = 0
  /\ closed = FALSE /\ shutdown_complete = FALSE
  /\ main = [pc |-> "out", task |-> Nobody, timed |-> FALSE]
  /\ remote = [r \in Remotes |-> [pc |-> "idle", task |-> Nobody]]

Put(q, t) == queues' = [queues EXCEPT ![q] = Append(@, t)]
GoMain(pc) == main' = [main EXCEPT !.pc = pc, !.task = Nobody]
GoRemote(r, pc) == remote' = [remote EXCEPT ![r].pc = pc]
Over == closed /\ shutdown_complete

-----------------------------------------------------------------------------
(* block_on: owner and unparker are two locks. *)
block_on ==
  /\ main.pc = "out" /\ ~owner
  /\ owner' = TRUE /\ woken' = TRUE /\ GoMain("enter")
  /\ UNCHANGED <<queues, cell, tasks, armed, unparker, token, tick, flags, remote>>

SetUnparker ==
  /\ main.pc = "enter" /\ unparker' = TRUE /\ GoMain("drain")
  /\ UNCHANGED <<queues, cell, tasks, armed, owner, token, woken, tick, flags, remote>>

(* run_task: a cancelled entry is finished, a deferred one of a finished task is *)
(* freed, the others are polled.                                                 *)
Takes(q, pc) ==
  /\ queues[q] # <<>>
  /\ LET t == Head(queues[q])
     IN  /\ queues' = [queues EXCEPT ![q] = Tail(@)]
         /\ IF cell[t].state = "queued" /\ ~cell[t].cancelled
            THEN /\ cell' = [cell EXCEPT ![t].state = "running"]
                 /\ main' = [main EXCEPT !.pc = pc, !.task = t]
                 /\ UNCHANGED tasks
            ELSE /\ cell' = [cell EXCEPT ![t].state = IF @ = "queued" THEN "done" ELSE "freed"]
                 /\ tasks' = tasks \ {t}
                 /\ GoMain(IF pc = "run" THEN "drain" ELSE "sweep")

drain_deferred ==
  /\ main.pc = "drain"
  /\ IF queues.deferred # <<>> THEN Takes("deferred", "run")
     ELSE GoMain("root") /\ UNCHANGED <<queues, cell, tasks>>
  /\ UNCHANGED <<armed, parking, tick, flags, remote>>

(* The root is polled when its waker was called; Ready leaves the loop. *)
PollRoot ==
  /\ main.pc = "root" /\ woken' = FALSE
  /\ \/ GoMain("next")
     \/ woken /\ GoMain("cleanup")
  /\ UNCHANGED <<queues, cell, tasks, armed, owner, unparker, token, tick, flags, remote>>

(* next_task: the injection queue goes first every Interval-th time. *)
GlobalFirst_Never(n) == FALSE
GlobalFirst(n) == n = 0
next_task ==
  /\ main.pc = "next" /\ tick' = (tick + 1) % Interval
  /\ CASE queues.deferred # <<>> -> Takes("deferred", "run")
       [] queues.deferred = <<>> /\ GlobalFirst(tick') /\ queues.injection # <<>> -> Takes("injection", "run")
       [] queues.deferred = <<>> /\ ~(GlobalFirst(tick') /\ queues.injection # <<>>) ->
            IF queues.local # <<>> THEN Takes("local", "run")
            ELSE IF queues.injection # <<>> THEN Takes("injection", "run")
            ELSE GoMain("advance") /\ UNCHANGED <<queues, cell, tasks>>
  /\ UNCHANGED <<armed, parking, flags, remote>>

(* A poll ends.  enqueue on the owner thread goes to the local queue, without an *)
(* unpark; after close it takes the remote path.                                 *)
AfterPoll(t, next, arms) ==
  /\ cell' = [cell EXCEPT ![t].state = next, ![t].again = FALSE]
  /\ tasks' = IF next = "done" THEN tasks \ {t} ELSE tasks
  /\ armed' = IF arms THEN armed \cup {t} ELSE armed
EndPoll ==
  /\ main.pc \in {"run", "sweeprun"} /\ GoMain(IF main.pc = "run" THEN "drain" ELSE "sweep")
  /\ LET t == main.task
     IN  \/ AfterPoll(t, "done", FALSE) /\ UNCHANGED queues
         \/ /\ ~cell[t].cancelled /\ ~cell[t].again
            /\ \E arms \in BOOLEAN : AfterPoll(t, "idle", arms) /\ UNCHANGED queues
         \/ cell[t].again /\ ~cell[t].cancelled /\ AfterPoll(t, "queued", FALSE) /\ Put("local", t)
  /\ UNCHANGED <<parking, tick, flags, remote>>

(* A running task wakes itself or another task, on the owner thread. *)
LocalWake(t) ==
  /\ main.pc = "run" /\ ~closed
  /\ \/ /\ cell[t].state = "idle"
        /\ cell' = [cell EXCEPT ![t].state = "queued"] /\ Put("local", t)
     \/ /\ cell[t].state = "running" /\ ~cell[t].again
        /\ cell' = [cell EXCEPT ![t].again = TRUE] /\ UNCHANGED queues
  /\ UNCHANGED <<tasks, armed, parking, tick, flags, main, remote>>

(* The root or a task spawns. *)
LocalSpawn(t) ==
  /\ main.pc \in {"next", "run"} /\ ~closed /\ cell[t].state = "unborn"
  /\ cell' = [cell EXCEPT ![t].state = "queued", ![t].handle = TRUE]
  /\ tasks' = tasks \cup {t} /\ Put("local", t)
  /\ UNCHANGED <<armed, parking, tick, flags, main, remote>>

(* advance_to_now calls the wakers of the timers that are due. *)
AdvanceTimers ==
  /\ main.pc = "advance" /\ GoMain("recheck")
  /\ \E due \in {{}} \cup {{t} : t \in armed} :
       LET woke == {t \in due : cell[t].state = "idle"}
       IN  /\ armed' = armed \ due
           /\ cell' = [t \in Tasks |-> IF t \in woke THEN [cell[t] EXCEPT !.state = "queued"] ELSE cell[t]]
           /\ queues' = [queues EXCEPT !.local = IF woke = {} THEN @ ELSE Append(@, CHOOSE t \in woke : TRUE)]
  /\ UNCHANGED <<tasks, parking, tick, flags, remote>>

(* The queues once more, then park, bounded by the next timer. *)
SeesWork_Remote == queues.deferred # <<>> \/ queues.injection # <<>>
SeesWork == queues.deferred # <<>> \/ queues.local # <<>> \/ queues.injection # <<>>
Recheck ==
  /\ main.pc = "recheck"
  /\ IF SeesWork THEN GoMain("drain") ELSE main' = [main EXCEPT !.pc = "parked", !.timed = armed # {}]
  /\ UNCHANGED <<queues, cell, tasks, armed, parking, tick, flags, remote>>

Unpark ==
  /\ main.pc = "parked" /\ (token \/ main.timed)
  /\ token' = FALSE /\ main' = [main EXCEPT !.pc = "drain", !.timed = FALSE]
  /\ UNCHANGED <<queues, cell, tasks, armed, owner, unparker, woken, tick, flags, remote>>

(* BlockOnCleanup::drop: the unparker first, then the owner. *)
Cleanup ==
  \/ /\ main.pc = "cleanup" /\ unparker' = FALSE /\ GoMain("release")
     /\ UNCHANGED <<queues, cell, tasks, armed, owner, token, woken, tick, flags, remote>>
  \/ /\ main.pc = "release" /\ owner' = FALSE /\ GoMain("out")
     /\ UNCHANGED <<queues, cell, tasks, armed, unparker, token, woken, tick, flags, remote>>

-----------------------------------------------------------------------------
(* shutdown, on the owner thread: take the registry and cancel what is in it; idle *)
(* tasks are finished here, the others by their entry.                             *)
shutdown ==
  /\ main.pc = "out" /\ ~closed /\ closed' = TRUE /\ GoMain("cancel")
  /\ UNCHANGED <<queues, cell, tasks, armed, parking, tick, shutdown_complete, remote>>

CancelAll ==
  /\ main.pc = "cancel" /\ GoMain("sweep")
  /\ cell' = [t \in Tasks |->
       IF t \notin tasks THEN cell[t]
       ELSE [cell[t] EXCEPT !.cancelled = TRUE, !.state = IF @ = "idle" THEN "done" ELSE @]]
  /\ tasks' = {}
  /\ UNCHANGED <<queues, armed, parking, tick, flags, remote>>

(* The drain loop, then shutdown_complete. *)
Sweep ==
  /\ main.pc = "sweep"
  /\ CASE queues.deferred # <<>> -> Takes("deferred", "sweeprun")
       [] queues.deferred = <<>> /\ queues.local # <<>> -> Takes("local", "sweeprun")
       [] queues.deferred = <<>> /\ queues.local = <<>> /\ queues.injection # <<>> -> Takes("injection", "sweeprun")
       [] OTHER -> GoMain("complete") /\ UNCHANGED <<queues, cell, tasks>>
  /\ UNCHANGED <<armed, parking, tick, flags, remote>>

SetComplete ==
  /\ main.pc = "complete" /\ shutdown_complete' = TRUE /\ GoMain("out")
  /\ UNCHANGED <<queues, cell, tasks, armed, parking, tick, closed, remote>>

-----------------------------------------------------------------------------
(* Remote threads.  A wake of an idle task makes an entry and carries it through *)
(* enqueue: the owner lock, the injection lock, the unpark.                      *)
RemoteWake(r, t) ==
  /\ remote[r].pc = "idle" /\ ~cell[t].cancelled
  /\ \/ /\ cell[t].state = "idle"
        /\ cell' = [cell EXCEPT ![t].state = "queued"]
        /\ remote' = [remote EXCEPT ![r] = [pc |-> "enqueue", task |-> t]]
     \/ /\ cell[t].state = "running" /\ ~cell[t].again
        /\ cell' = [cell EXCEPT ![t].again = TRUE] /\ UNCHANGED remote
  /\ UNCHANGED <<queues, tasks, armed, parking, tick, flags, main>>

spawn(r, t) ==
  /\ remote[r].pc = "idle" /\ ~closed /\ cell[t].state = "unborn"
  /\ cell' = [cell EXCEPT ![t].state = "queued", ![t].handle = TRUE]
  /\ remote' = [remote EXCEPT ![r] = [pc |-> "register", task |-> t]]
  /\ UNCHANGED <<queues, tasks, armed, parking, tick, flags, main>>

(* register_task asserts that the runtime is open under the registry lock; the  *)
(* panic drops the entry.                                                       *)
Lose(r) == cell' = [cell EXCEPT ![remote[r].task].state = "lost"] /\ GoRemote(r, "idle")
Keep(r, pc) == GoRemote(r, pc) /\ UNCHANGED cell

register_task(r) ==
  /\ remote[r].pc = "register"
  /\ IF closed THEN Lose(r) /\ UNCHANGED tasks
     ELSE tasks' = tasks \cup {remote[r].task} /\ Keep(r, "enqueue")
  /\ UNCHANGED <<queues, armed, parking, tick, flags, main>>

enqueue(r) ==
  /\ remote[r].pc = "enqueue"
  /\ IF Over THEN Lose(r) ELSE Keep(r, "inject")
  /\ UNCHANGED <<queues, tasks, armed, parking, tick, flags, main>>

EnqueueInject(r) ==
  /\ remote[r].pc = "inject"
  /\ IF Over THEN Lose(r) /\ UNCHANGED queues
     ELSE Put("injection", remote[r].task) /\ Keep(r, "unpark")
  /\ UNCHANGED <<tasks, armed, parking, tick, flags, main>>

Unparks == unparker
unpark_owner(r) ==
  /\ remote[r].pc = "unpark" /\ GoRemote(r, "idle")
  /\ token' = (token \/ Unparks)
  /\ UNCHANGED <<queues, cell, tasks, armed, owner, unparker, woken, tick, flags, main>>

(* The root's waker: the flag, then the thread it was made on. *)
WakeRoot(r) ==
  /\ remote[r].pc = "idle" /\ owner /\ woken' = TRUE /\ GoRemote(r, "unparkroot")
  /\ UNCHANGED <<queues, cell, tasks, armed, owner, unparker, token, tick, flags, main>>

UnparkRoot(r) ==
  /\ remote[r].pc = "unparkroot" /\ token' = TRUE /\ GoRemote(r, "idle")
  /\ UNCHANGED <<queues, cell, tasks, armed, owner, unparker, woken, tick, flags, main>>

(* The last reference to a finished task is a remote JoinHandle: freed there once  *)
(* shutdown is complete (can_dealloc_remotely), handed to the owner before.        *)
DropHandle(r, t) ==
  /\ remote[r].pc = "idle" /\ cell[t].state = "done" /\ cell[t].handle
  /\ cell' = [cell EXCEPT ![t].handle = FALSE, ![t].state = IF shutdown_complete THEN "freed" ELSE @]
  /\ remote' = IF shutdown_complete THEN remote ELSE [remote EXCEPT ![r] = [pc |-> "defer", task |-> t]]
  /\ UNCHANGED <<queues, tasks, armed, parking, tick, flags, main>>

(* The look at the flags and the push share no lock: the look may be as old as the *)
(* call, when shutdown was not complete, and the push comes after it all the same. *)
defer_dealloc(r) ==
  /\ remote[r].pc = "defer"
  /\ \/ Over /\ Lose(r) /\ UNCHANGED queues
     \/ Put("deferred", remote[r].task) /\ Keep(r, "unpark")
  /\ UNCHANGED <<tasks, armed, parking, tick, flags, main>>

OwnerStep ==
  \/ SetUnparker \/ drain_deferred \/ PollRoot \/ next_task \/ EndPoll \/ AdvanceTimers
  \/ Recheck \/ Unpark \/ Cleanup \/ CancelAll \/ Sweep \/ SetComplete
RemoteStep(r) == register_task(r) \/ enqueue(r) \/ EnqueueInject(r) \/ unpark_owner(r) \/ UnparkRoot(r) \/ defer_dealloc(r)

Next ==
  \/ OwnerStep \/ block_on \/ shutdown
  \/ \E t \in Tasks : LocalWake(t) \/ LocalSpawn(t)
  \/ \E r \in Remotes : \/ RemoteStep(r) \/ WakeRoot(r)
                        \/ \E t \in Tasks : RemoteWake(r, t) \/ spawn(r, t) \/ DropHandle(r, t)

Spec == Init /\ [][Next]_vars

-----------------------------------------------------------------------------
In(q, t) == Cardinality({i \in DOMAIN queues[q] : queues[q][i] = t})
Entries(t) ==
  In("local", t) + In("injection", t) + In("deferred", t)
    + Cardinality({r \in Remotes : remote[r].task = t /\ remote[r].pc \in {"register", "enqueue", "inject", "defer"}})

(* OwnerNotAsleep: the owner thread sleeps in block_on only beside empty queues and *)
(* an unwoken root, or with the unpark that will end it in flight; and a timer       *)
(* bounds the sleep.  The local queue in particular has no unpark of its own.        *)
OwnerNotAsleep ==
  main.pc = "parked" /\ ~token =>
    /\ queues.local = <<>>
    /\ queues.injection # <<>> \/ queues.deferred # <<>> =>
         unparker /\ \E r \in Remotes : remote[r].pc = "unpark"
    /\ woken => \E r \in Remotes : remote[r].pc = "unparkroot"
    /\ armed # {} => main.timed

(* EntriesExact: a queued task has exactly one entry, in a queue or in the hands of  *)
(* the thread that woke it; a running or idle one has none.                          *)
EntriesExact ==
  \A t \in Tasks : Entries(t) = CASE cell[t].state = "queued" -> 1
                                  [] cell[t].state \in {"unborn", "idle", "running", "lost", "freed"} -> 0
                                  [] OTHER -> Entries(t)

CurrentThreadSound == OwnerNotAsleep /\ EntriesExact

(* QueuedRuns: while block_on goes on, an entry in a queue is taken, whichever queue   *)
(* it is in and however often the local queue refills: the injection queue goes first  *)
(* every Interval-th time.                                                             *)
QueuedRuns ==
  \A t \in Tasks : (cell[t].state = "queued" /\ owner /\ ~closed) ~> (cell[t].state # "queued" \/ ~owner \/ closed)

(* ShutdownCompletes: the comment on shutdown_complete says that every registered task *)
(* is complete by then.  The code does not keep this: an entry in the hands of a        *)
(* remote thread comes after the drain loop and is dropped or left in the queue.        *)
ShutdownCompletes ==
  shutdown_complete => \A t \in Tasks : cell[t].cancelled => cell[t].state \in {"done", "freed"}
=============================================================================
