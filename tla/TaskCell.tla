------------------------------ MODULE TaskCell ------------------------------
(***************************************************************************)
(* One spawned task of eddy: the packed state word (task/state.rs), the    *)
(* poll driver (task/harness.rs), and the four kinds of reference that keep *)
(* the allocation alive: the JoinHandle, queue entries, cloned Wakers and   *)
(* AbortHandles, plus the scheduler's own registry reference.  Every atomic *)
(* access to the word and every critical section on the stage lock or the   *)
(* trailer lock is one step; threads interleave between them.               *)
(*                                                                          *)
(* The scheduler is a bag of queue entries for this task: what a scheduler  *)
(* does with the entries is the subject of the scheduler modules.           *)
(***************************************************************************)
EXTENDS Integers, FiniteSets

CONSTANTS
  Threads,        \* every thread that can hold a reference to the task
  Workers,        \* the threads that take queue entries and poll them
  NoThread,       \* no thread: the stage lock is free
  Owner,          \* the thread a current-thread scheduler is pinned to
  RemoteDealloc,  \* Schedule::can_dealloc_remotely: TRUE on the multi-thread scheduler
  MaxWakers,      \* bound: Waker clones alive outside a running call
  MaxAborts       \* bound: AbortHandles alive outside a running call

ASSUME ThreadsFinite == IsFiniteSet(Threads)
ASSUME NoThreadIsNone == NoThread \notin Threads
ASSUME WorkersAreThreads == Workers \subseteq Threads /\ Workers # {}
ASSUME OwnerIsWorker == Owner \in Workers
ASSUME RemoteDeallocBool == RemoteDealloc \in BOOLEAN
ASSUME BoundsNat == MaxWakers \in Nat /\ MaxAborts \in Nat

Flags == {"RUNNING", "COMPLETE", "NOTIFIED", "CANCELLED",
          "JOIN_INTEREST", "JOIN_WAKER_SET"}

Outcomes == {"none", "ok", "panic", "cancelled"}

(* Where a thread stands in the call it is making on the task. *)
PollPcs     == {"toRunning", "lockStage", "polling", "toIdle"}
FinishPcs   == {"storeResult", "toComplete"}
CompletePcs == {"wakeJoin", "wakeJoinDetached", "discard", "taskComplete"}
JoinPcs     == {"storeWaker", "setJoinWaker", "selfWake"}
DetachPcs   == {"clearWaker", "clearWakerComplete", "discardDetached"}
Pcs == {"idle", "submit", "drop", "dealloc"}
         \cup PollPcs \cup FinishPcs \cup CompletePcs \cup JoinPcs \cup DetachPcs

(* What the call a thread is making holds its reference through. *)
Handles == {"none", "queue", "waker", "abort", "join"}

VARIABLES
  flags,      \* the flag bits of Header::state
  ref,        \* the reference count packed above them
  stage,      \* Core::stage without its payload
  result,     \* the payload of Stage::Finished
  stageLock,  \* the thread holding Header::stage_lock, or NoThread
  trailer,    \* Trailer::waker holds a waker
  queue,      \* queue entries of the task in the scheduler
  deferred,   \* NotifiedKind::Dealloc entries waiting for the owner
  registered, \* the scheduler's registry holds a reference
  freed,      \* the Cell has been deallocated
  wakers,     \* Waker clones not in use by a running call
  aborts,     \* AbortHandles not in use by a running call
  joinHandle, \* "held" by its user, "inuse" by a call, or "gone"
  joiner,     \* the user awaiting the JoinHandle: "ready" to poll it or "waiting"
  output,     \* what the JoinHandle resolved to
  pc,         \* per thread: position in the call it is making
  via,        \* per thread: the handle that call borrows or consumes
  due,        \* history: a wake arrived since the last poll began
  droppedOn   \* history: the thread that destroyed the future

word   == <<flags, ref>>
core   == <<stage, result, stageLock, droppedOn>>
sched  == <<queue, deferred, registered>>
user   == <<wakers, aborts, joinHandle>>
join   == <<trailer, joiner, output>>
vars   == <<word, core, sched, user, join, freed, pc, via, due>>

(* Keeping the action definitions short: a thread moves, or ends its call. *)
Goto(t, p) == pc' = [pc EXCEPT ![t] = p]
Enter(t, p, h) == Goto(t, p) /\ via' = [via EXCEPT ![t] = h]
Has(f) == f \in flags

(* State::new: the JoinHandle and the first queue entry hold a reference each,   *)
(* and spawn registers the task with the scheduler before it publishes the entry. *)
Init ==
  /\ flags = {"JOIN_INTEREST", "NOTIFIED"}
  /\ ref = 3
  /\ stage = "Running" /\ result = "none" /\ stageLock = NoThread
  /\ trailer = FALSE /\ joiner = "ready" /\ output = "none"
  /\ queue = 1 /\ deferred = 0 /\ registered = TRUE /\ freed = FALSE
  /\ wakers = 0 /\ aborts = 0 /\ joinHandle = "held"
  /\ pc = [t \in Threads |-> "idle"]
  /\ via = [t \in Threads |-> "none"]
  /\ due = TRUE /\ droppedOn = NoThread

-----------------------------------------------------------------------------
(* State::ref_inc and the test of State::ref_dec. *)
RefInc_Forgotten == ref
RefInc == ref + 1

LastRef_OffByOne == ref = 2
LastRef == ref = 1

(* RawTask::drop_reference: the thread gives up the reference its call owns. *)
(* ref_dec tells exactly one thread that it must deallocate.                 *)
ReleaseRef(t) ==
  /\ ref' = ref - 1
  /\ Enter(t, IF LastRef THEN "dealloc" ELSE "idle", "none")

DropReference(t) ==
  /\ pc[t] = "drop"
  /\ ReleaseRef(t)
  /\ UNCHANGED <<flags, core, sched, user, join, freed, due>>

(* harness::dealloc: destroy the Cell here, or restore one reference and hand *)
(* the Cell to the owner thread of a current-thread scheduler.                *)
Dealloc(t) ==
  /\ pc[t] = "dealloc"
  /\ IF RemoteDealloc \/ t = Owner
     THEN freed' = TRUE /\ UNCHANGED <<ref, deferred>>
     ELSE ref' = RefInc /\ deferred' = deferred + 1 /\ UNCHANGED freed
  /\ Goto(t, "idle")
  /\ UNCHANGED <<flags, core, queue, registered, user, join, via, due>>

(* NotifiedKind::Dealloc run by the owner: dealloc_now frees the Cell, count and all. *)
RunDeferred(t) ==
  /\ t = Owner /\ pc[t] = "idle" /\ deferred > 0
  /\ deferred' = deferred - 1 /\ freed' = TRUE
  /\ UNCHANGED <<word, core, queue, registered, user, join, pc, via, due>>

(* harness::schedule: the reference the thread owns becomes a queue entry. *)
Schedule(t) ==
  /\ pc[t] = "submit"
  /\ queue' = queue + 1
  /\ Enter(t, "idle", "none")
  /\ UNCHANGED <<word, core, deferred, registered, user, join, freed, due>>

-----------------------------------------------------------------------------
(* harness::poll *)

(* A worker takes a queue entry, and with it the entry's reference. *)
RunEntry(t) ==
  /\ t \in Workers /\ pc[t] = "idle" /\ queue > 0
  /\ queue' = queue - 1
  /\ Enter(t, "toRunning", "queue")
  /\ UNCHANGED <<word, core, deferred, registered, user, join, freed, due>>

EntryFinalizes_Never == FALSE
EntryFinalizes == Has("CANCELLED") /\ ~Has("COMPLETE")

(* State::transition_to_running, with the Failed arm of harness::poll: a task *)
(* cancelled before this entry ran is finalized by the entry, any other stale *)
(* entry only gives back its reference.                                       *)
TransitionToRunning(t) ==
  /\ pc[t] = "toRunning"
  /\ IF Has("COMPLETE") \/ Has("CANCELLED") \/ Has("RUNNING")
     THEN /\ Goto(t, IF EntryFinalizes THEN "storeResult" ELSE "drop")
          /\ result' = IF EntryFinalizes THEN "cancelled" ELSE result
          /\ UNCHANGED <<flags, due>>
     ELSE /\ flags' = (flags \ {"NOTIFIED"}) \cup {"RUNNING"}
          /\ due' = FALSE
          /\ Goto(t, "lockStage")
          /\ UNCHANGED result
  /\ UNCHANGED <<ref, stage, stageLock, droppedOn, sched, user, join, freed, via>>

(* The stage lock is held for the whole of the user's poll. *)
LockStage(t) ==
  /\ pc[t] = "lockStage" /\ stageLock = NoThread
  /\ stageLock' = t
  /\ Goto(t, "polling")
  /\ UNCHANGED <<word, stage, result, droppedOn, sched, user, join, freed, via, due>>

(* Inside its poll the future clones the Waker of its Context. *)
CloneContextWaker(t) ==
  /\ pc[t] = "polling" /\ wakers < MaxWakers
  /\ ref' = RefInc /\ wakers' = wakers + 1
  /\ UNCHANGED <<flags, core, sched, aborts, joinHandle, join, freed, pc, via, due>>

(* The future's poll returns: Pending, Ready or an unwound panic. *)
PollReturns(t, r) ==
  /\ pc[t] = "polling"
  /\ stageLock' = NoThread
  /\ Goto(t, IF r = "none" THEN "toIdle" ELSE "storeResult")
  /\ result' = r
  /\ UNCHANGED <<word, stage, droppedOn, sched, user, join, freed, via, due>>

(* State::transition_to_idle: cancelled, notified during the poll, or parked. *)
AfterIdle_IgnoresNotified == IF Has("CANCELLED") THEN "storeResult" ELSE "drop"
AfterIdle ==
  IF Has("CANCELLED") THEN "storeResult" ELSE IF Has("NOTIFIED") THEN "submit" ELSE "drop"

TransitionToIdle(t) ==
  /\ pc[t] = "toIdle"
  /\ flags' = flags \ {"RUNNING"}
  /\ Goto(t, AfterIdle)
  /\ result' = IF Has("CANCELLED") THEN "cancelled" ELSE result
  /\ UNCHANGED <<ref, stage, stageLock, droppedOn, sched, user, join, freed, via, due>>

-----------------------------------------------------------------------------
(* harness::finalize, entered by a poll that ends the task and by shutdown. *)

(* The Finished stage overwrites, and so destroys, the future. *)
StoreResult(t) ==
  /\ pc[t] = "storeResult" /\ stageLock = NoThread
  /\ stage' = "Finished" /\ droppedOn' = t
  /\ Goto(t, "toComplete")
  /\ UNCHANGED <<word, result, stageLock, sched, user, join, freed, via, due>>

(* finalize keeps the output only for a JoinHandle that was still interested when *)
(* COMPLETE was set.                                                              *)
JoinInterested_Assumed == TRUE
JoinInterested == Has("JOIN_INTEREST")

TransitionToComplete(t) ==
  /\ pc[t] = "toComplete"
  /\ flags' = (flags \ {"RUNNING", "NOTIFIED"}) \cup {"COMPLETE"}
  /\ Goto(t, IF JoinInterested THEN "wakeJoin" ELSE "wakeJoinDetached")
  /\ UNCHANGED <<ref, core, sched, user, join, freed, via, due>>

(* harness::wake_join_handle *)
WakeJoinHandle(t) ==
  /\ pc[t] \in {"wakeJoin", "wakeJoinDetached"}
  /\ trailer' = FALSE
  /\ joiner' = IF trailer THEN "ready" ELSE joiner
  /\ Goto(t, IF pc[t] = "wakeJoin" THEN "taskComplete" ELSE "discard")
  /\ UNCHANGED <<word, core, sched, user, output, freed, via, due>>

(* harness::discard_finished_output: nobody will read the output. *)
DiscardOutput(t) ==
  /\ pc[t] \in {"discard", "discardDetached"} /\ stageLock = NoThread
  /\ stage' = IF stage = "Finished" THEN "Consumed" ELSE stage
  /\ Goto(t, IF pc[t] = "discard" THEN "taskComplete" ELSE "drop")
  /\ UNCHANGED <<word, result, stageLock, droppedOn, sched, user, join, freed, via, due>>

(* The handle a borrowing call returns to its holder. *)
GiveBack(t) ==
  /\ UNCHANGED wakers
  /\ aborts' = IF via[t] = "abort" THEN aborts + 1 ELSE aborts
  /\ joinHandle' = IF via[t] = "join" THEN "held" ELSE joinHandle
  /\ Enter(t, "idle", "none")

RefWithoutRegistry_Leaks == ref
RefWithoutRegistry == IF registered THEN ref - 1 ELSE ref

(* Schedule::task_complete drops the registry's reference; the caller still holds *)
(* one, so this is never the last.  A poll then drops its queue reference         *)
(* (harness::complete), shutdown returns to the holder of the handle.             *)
TaskComplete(t) ==
  /\ pc[t] = "taskComplete"
  /\ registered' = FALSE
  /\ ref' = RefWithoutRegistry
  /\ IF via[t] = "queue" THEN Goto(t, "drop") /\ UNCHANGED <<via, user>> ELSE GiveBack(t)
  /\ UNCHANGED <<flags, core, queue, deferred, join, freed, due>>

-----------------------------------------------------------------------------
(* Wakers *)

(* The word after transition_to_notified_by_*: a running task is only marked. *)
WakeIsNoOp == Has("COMPLETE") \/ Has("NOTIFIED") \/ Has("CANCELLED")
Notified_SkipsRunning ==
  IF WakeIsNoOp \/ Has("RUNNING") THEN flags ELSE flags \cup {"NOTIFIED"}
Notified == IF WakeIsNoOp THEN flags ELSE flags \cup {"NOTIFIED"}

(* A wake of a live task makes a poll due (history). *)
WakeMeans  == ~Has("COMPLETE") /\ ~Has("CANCELLED")

(* wake_waker / RawTask::wake_by_val with transition_to_notified_by_val: the *)
(* waker's own reference becomes the queue entry's, or is dropped.           *)
WakeByVal(t) ==
  /\ pc[t] = "idle" /\ wakers > 0
  /\ wakers' = wakers - 1
  /\ flags' = Notified
  /\ Enter(t, IF WakeIsNoOp \/ Has("RUNNING") THEN "drop" ELSE "submit", "waker")
  /\ due' = (due \/ WakeMeans)
  /\ UNCHANGED <<ref, core, sched, aborts, joinHandle, join, freed>>

(* wake_by_ref_waker / RawTask::wake_by_ref: a fresh reference only on Submit. *)
(* The borrowed waker is one in the user's hands, or the poll's own.           *)
WakeByRef(t) ==
  /\ pc[t] = "idle" /\ wakers > 0
  /\ flags' = Notified
  /\ IF WakeIsNoOp \/ Has("RUNNING")
     THEN UNCHANGED <<ref, pc, via>>
     ELSE ref' = RefInc /\ Enter(t, "submit", "waker")
  /\ due' = (due \/ WakeMeans)
  /\ UNCHANGED <<core, sched, user, join, freed>>

(* The future wakes itself through the Context during its poll: RUNNING is set. *)
WakeSelf(t) ==
  /\ pc[t] = "polling"
  /\ flags' = Notified
  /\ due' = (due \/ WakeMeans)
  /\ UNCHANGED <<ref, core, sched, user, join, freed, pc, via>>

CloneWaker(t) ==
  /\ pc[t] = "idle" /\ wakers > 0 /\ wakers < MaxWakers
  /\ ref' = RefInc /\ wakers' = wakers + 1
  /\ UNCHANGED <<flags, core, sched, aborts, joinHandle, join, freed, pc, via, due>>

DropWaker(t) ==
  /\ pc[t] = "idle" /\ wakers > 0
  /\ wakers' = wakers - 1
  /\ ReleaseRef(t)
  /\ UNCHANGED <<flags, core, sched, aborts, joinHandle, join, freed, due>>

-----------------------------------------------------------------------------
(* JoinHandle and AbortHandle *)

(* JoinHandle::abort_handle, or AbortHandle::clone *)
NewAbortHandle(t) ==
  /\ pc[t] = "idle" /\ aborts < MaxAborts
  /\ joinHandle = "held" \/ aborts > 0
  /\ ref' = RefInc /\ aborts' = aborts + 1
  /\ UNCHANGED <<flags, core, sched, wakers, joinHandle, join, freed, pc, via, due>>

DropAbortHandle(t) ==
  /\ pc[t] = "idle" /\ aborts > 0
  /\ aborts' = aborts - 1
  /\ ReleaseRef(t)
  /\ UNCHANGED <<flags, core, sched, wakers, joinHandle, join, freed, due>>

(* The snapshots that leave the task to someone else: finished, already cancelled, *)
(* being polled (the poll will see CANCELLED) or queued (the entry will).           *)
AbortDefers_IgnoresEntry == Has("COMPLETE") \/ Has("CANCELLED") \/ Has("RUNNING")
AbortDefers_IgnoresDone == Has("CANCELLED") \/ Has("RUNNING") \/ Has("NOTIFIED")
AbortDefers == Has("COMPLETE") \/ Has("CANCELLED") \/ Has("RUNNING") \/ Has("NOTIFIED")

(* harness::shutdown through an AbortHandle or the JoinHandle: the snapshot taken *)
(* with CANCELLED decides who finalizes.  Only a task that is neither finished,   *)
(* cancelled, running nor queued is finalized here, on the aborting thread.       *)
Abort(t, h) ==
  /\ pc[t] = "idle"
  /\ IF h = "abort" THEN aborts > 0 ELSE joinHandle = "held"
  /\ flags' = flags \cup {"CANCELLED"}
  /\ IF AbortDefers
     THEN UNCHANGED <<user, pc, via, result>>
     ELSE /\ aborts' = IF h = "abort" THEN aborts - 1 ELSE aborts
          /\ joinHandle' = IF h = "join" THEN "inuse" ELSE joinHandle
          /\ result' = "cancelled"
          /\ Enter(t, "storeResult", h)
          /\ UNCHANGED wakers
  /\ UNCHANGED <<ref, stage, stageLock, droppedOn, sched, join, freed, due>>

(* harness::try_read_output: the stage is examined under its lock. *)
JoinPoll(t) ==
  /\ pc[t] = "idle" /\ joinHandle = "held" /\ joiner = "ready" /\ stageLock = NoThread
  /\ IF stage = "Finished"
     THEN /\ stage' = "Consumed" /\ output' = result
          /\ joinHandle' = "gone"
          /\ Enter(t, "drop", "join")
     ELSE /\ joinHandle' = "inuse"
          /\ Enter(t, "storeWaker", "join")
          /\ UNCHANGED <<stage, output>>
  /\ UNCHANGED <<word, result, stageLock, droppedOn, sched, wakers, aborts,
                 trailer, joiner, freed, due>>

StoreJoinWaker(t) ==
  /\ pc[t] = "storeWaker"
  /\ trailer' = TRUE /\ joiner' = "waiting"
  /\ Goto(t, "setJoinWaker")
  /\ UNCHANGED <<word, core, sched, user, output, freed, via, due>>

(* State::set_join_waker refuses once the task is complete. *)
JoinTooLate_Unchecked == FALSE
JoinTooLate == Has("COMPLETE")

SetJoinWaker(t) ==
  /\ pc[t] = "setJoinWaker"
  /\ IF JoinTooLate
     THEN Goto(t, "selfWake") /\ UNCHANGED <<flags, via, user>>
     ELSE flags' = flags \cup {"JOIN_WAKER_SET"} /\ GiveBack(t)
  /\ UNCHANGED <<ref, core, sched, join, freed, due>>

(* Completion won the race: the waiter wakes itself, unless it has been woken. *)
SelfWakeJoin(t) ==
  /\ pc[t] = "selfWake"
  /\ trailer' = FALSE
  /\ joiner' = IF trailer THEN "ready" ELSE joiner
  /\ GiveBack(t)
  /\ UNCHANGED <<word, core, sched, output, freed, due>>

(* The user's own executor polls the awaiting future again without a wake. *)
SpuriousJoinPoll ==
  /\ joiner = "waiting" /\ joinHandle = "held"
  /\ joiner' = "ready"
  /\ UNCHANGED <<word, core, sched, user, trailer, output, freed, pc, via, due>>

(* harness::drop_join_handle_slow: interest first, then the waker; the output is *)
(* discarded here only when the task was complete when interest was withdrawn.   *)
DropJoinHandle(t) ==
  /\ pc[t] = "idle" /\ joinHandle = "held"
  /\ joinHandle' = "gone"
  /\ flags' = flags \ {"JOIN_INTEREST"}
  /\ Enter(t, IF Has("COMPLETE") THEN "clearWakerComplete" ELSE "clearWaker", "join")
  /\ UNCHANGED <<ref, core, sched, wakers, aborts, join, freed, due>>

(* unset_join_waker, then the trailer's lock: no code reads JOIN_WAKER_SET, so the *)
(* two are one step.                                                              *)
ClearJoinWaker(t) ==
  /\ pc[t] \in {"clearWaker", "clearWakerComplete"}
  /\ flags' = flags \ {"JOIN_WAKER_SET"}
  /\ trailer' = FALSE
  /\ Goto(t, IF pc[t] = "clearWaker" THEN "drop" ELSE "discardDetached")
  /\ UNCHANGED <<ref, core, sched, user, joiner, output, freed, via, due>>

-----------------------------------------------------------------------------
(* The steps of a call already under way: its thread always takes them. *)
Progress(t) ==
  \/ DropReference(t) \/ Dealloc(t) \/ Schedule(t)
  \/ TransitionToRunning(t) \/ LockStage(t)
  \/ \E r \in Outcomes \ {"cancelled"} : PollReturns(t, r)
  \/ TransitionToIdle(t)
  \/ StoreResult(t) \/ TransitionToComplete(t) \/ WakeJoinHandle(t)
  \/ DiscardOutput(t) \/ TaskComplete(t)
  \/ StoreJoinWaker(t) \/ SetJoinWaker(t) \/ SelfWakeJoin(t)
  \/ ClearJoinWaker(t)

(* What the scheduler's run loop does when its thread is back in it. *)
RunLoop(t) == RunEntry(t) \/ RunDeferred(t)

(* What users of the task may do, and need not. *)
UserStep(t) ==
  \/ CloneContextWaker(t) \/ WakeSelf(t)
  \/ WakeByVal(t) \/ WakeByRef(t) \/ CloneWaker(t) \/ DropWaker(t)
  \/ NewAbortHandle(t) \/ DropAbortHandle(t)
  \/ \E h \in {"abort", "join"} : Abort(t, h)
  \/ JoinPoll(t) \/ DropJoinHandle(t)

Next == SpuriousJoinPoll \/ \E t \in Threads : Progress(t) \/ RunLoop(t) \/ UserStep(t)

Spec == Init /\ [][Next]_vars

(* A call under way continues, a user's poll returns.  Strong fairness where the *)
(* thread may be busy with other tasks in between: a worker comes back to its run  *)
(* loop again and again, and an awaiter whose waker fired is polled again.         *)
Fairness ==
  /\ \A t \in Threads : WF_vars(Progress(t)) /\ SF_vars(RunLoop(t))
  /\ SF_vars(\E t \in Threads : JoinPoll(t))

FairSpec == Spec /\ Fairness

-----------------------------------------------------------------------------
WordOK ==
  /\ flags \subseteq Flags /\ ref \in Nat
  /\ queue \in Nat /\ deferred \in Nat
  /\ wakers \in Nat /\ aborts \in Nat
CallsOK ==
  /\ stage \in {"Running", "Finished", "Consumed"} /\ result \in Outcomes
  /\ stageLock \in Threads \cup {NoThread} /\ droppedOn \in Threads \cup {NoThread}
  /\ joinHandle \in {"held", "inuse", "gone"}
  /\ joiner \in {"ready", "waiting"} /\ output \in Outcomes
  /\ pc \in [Threads -> Pcs] /\ via \in [Threads -> Handles]
SwitchesOK == {trailer, registered, freed, due} \subseteq BOOLEAN
TypeOK == WordOK /\ CallsOK /\ SwitchesOK

-----------------------------------------------------------------------------
(* The places that hold one counted reference each. *)
Callers == {t \in Threads : via[t] # "none"}
JoinRef == IF joinHandle = "held" THEN 1 ELSE 0
RegistryRef == IF registered THEN 1 ELSE 0
LiveRefs == wakers + aborts + queue + Cardinality(Callers) + JoinRef + RegistryRef
Refs == LiveRefs + deferred

(* The packed count equals the references that exist: a wake by value spends   *)
(* exactly its waker's reference, a wake by reference takes one exactly when    *)
(* it submits, a parked poll gives back the entry's (waker.rs, harness.rs).     *)
RefCountExact == ~freed => ref = Refs

(* The Cell is freed only when no handle, queue entry or running call is left  *)
(* that could touch it, and then it holds no future and no output.             *)
NoUseAfterFree ==
  freed => /\ Refs = 0
           /\ \A t \in Threads : pc[t] = "idle"
           /\ Has("COMPLETE") /\ stage = "Consumed"

(* The threads that may touch the stage without having been given it by a lock: *)
(* holders of the single claim that NOTIFIED, RUNNING or CANCELLED announces.   *)
ClaimPcs == {"submit"} \cup PollPcs \cup FinishPcs
Claimants == {t \in Threads : pc[t] \in ClaimPcs}

(* At most one claim exists: the task is in at most one queue, is polled by at  *)
(* most one thread, and is finalized by at most one, whatever wakes, aborts and *)
(* polls race; and there is one exactly when the word says so.                  *)
OneClaim ==
  /\ \A t, u \in Claimants : t = u
  /\ queue \in {0, 1}
  /\ queue = 1 => Claimants = {}
  /\ (queue = 1 \/ Claimants # {}) <=>
       (~Has("COMPLETE") /\ (Has("NOTIFIED") \/ Has("RUNNING") \/ Has("CANCELLED")))

(* The poll driver never meets a stage it calls unreachable: a thread about to  *)
(* poll or to store a result finds the future, and no task completes twice.     *)
StageAgrees ==
  /\ \A t \in Threads : pc[t] \in {"lockStage", "polling", "toIdle", "storeResult"}
                           => stage = "Running" /\ ~Has("COMPLETE")
  /\ \A t \in Threads : pc[t] = "toComplete" => stage # "Running" /\ ~Has("COMPLETE")
  /\ Has("COMPLETE") => stage # "Running"

(* A wake that arrived since the last poll began is carried by the queue entry, *)
(* by the thread submitting one, or by NOTIFIED seen by the poll under way.     *)
WakeNotLost ==
  due /\ WakeMeans =>
    \/ queue = 1
    \/ \E t \in Threads : \/ pc[t] \in {"submit", "toRunning"}
                          \/ /\ pc[t] \in {"lockStage", "polling", "toIdle"} /\ Has("NOTIFIED")
                          \/ pc[t] \in FinishPcs

(* A JoinHandle waiting on a finished task has its waker in the trailer and the *)
(* thread that will take it has not passed wake_join_handle yet.                *)
JoinNotStranded ==
  joiner = "waiting" /\ joinHandle = "held" /\ stage # "Running" =>
    trailer /\ \E t \in Threads : pc[t] \in {"toComplete", "wakeJoin", "wakeJoinDetached"}

(* Exactly one of completion and JoinHandle::drop discards an unread output.    *)
OutputReclaimed ==
  joinHandle = "gone" /\ Has("COMPLETE") /\ (\A t \in Threads : pc[t] = "idle")
    => stage = "Consumed"

(* Once the future is gone the outcome never changes, and COMPLETE never drops. *)
OutcomeKept ==
  /\ stage # "Running" => result' = result /\ stage' # "Running"
  /\ Has("COMPLETE") => "COMPLETE" \in flags'
OutcomeStable == [][OutcomeKept]_vars

(* A current-thread future is destroyed on the owner thread only               *)
(* (docs/ARCHITECTURE.md).  It is not: aborting an idle task destroys the      *)
(* future on the aborting thread.                                              *)
FutureDroppedByOwner == droppedOn \in {NoThread, Owner}

(* A wake leads to a poll, unless the task ends first. *)
WakePolled == due ~> (~due \/ Has("COMPLETE"))

(* An aborted task completes, even when the abort raced a poll or a queue entry. *)
AbortCompletes == Has("CANCELLED") ~> Has("COMPLETE")

(* A held JoinHandle of a finished task is resolved: its wake is never lost.    *)
JoinResolves == (stage = "Finished" /\ joinHandle # "gone") ~> joinHandle = "gone"

(* What a task owes its users, whatever races: polls for wakes, an end for aborts, *)
(* a result for joins.                                                             *)
TaskProgress == WakePolled /\ AbortCompletes /\ JoinResolves

(* A finished task with no user handle left is deallocated. *)
NoLeak ==
  (/\ Has("COMPLETE") /\ wakers = 0 /\ aborts = 0 /\ joinHandle = "gone"
   /\ \A t \in Threads : via[t] # "abort") ~> freed

(* The task keeps the abstract promise. *)
Promise == INSTANCE TaskPromise WITH
  phase <- IF stage # "Running" THEN "done"
           ELSE IF Has("RUNNING") THEN "polling" ELSE "waiting",
  due <- due /\ stage = "Running",
  cancel <- Has("CANCELLED"),
  outcome <- IF stage = "Running" THEN "none" ELSE result,
  slot <- CASE stage = "Running" -> "empty"
            [] stage = "Finished" -> "kept"
            [] OTHER -> IF output # "none" THEN "read" ELSE "discarded",
  detached <- ~Has("JOIN_INTEREST")

KeepsPromise == Promise!Spec

-----------------------------------------------------------------------------
(* What makes the invariants above inductive.                                   *)

(* A thread holds a handle exactly while it is inside a call, and the handle is  *)
(* the one its position says; the JoinHandle is lent to at most one call.        *)
BorrowsJoin(t) == via[t] = "join" /\ pc[t] \in JoinPcs \cup FinishPcs \cup CompletePcs
HandlesAgree ==
  /\ \A t \in Threads :
       /\ via[t] = "none" <=> pc[t] \in {"idle", "dealloc"}
       /\ pc[t] \in PollPcs => via[t] = "queue"
       /\ pc[t] = "submit" => via[t] \in {"queue", "waker"}
       /\ pc[t] \in FinishPcs \cup CompletePcs => via[t] \in {"queue", "abort", "join"}
       /\ pc[t] \in JoinPcs \cup DetachPcs => via[t] = "join"
       /\ pc[t] \in DetachPcs => joinHandle = "gone"
       /\ BorrowsJoin(t) => joinHandle = "inuse"
  /\ \A t, u \in Threads : BorrowsJoin(t) /\ BorrowsJoin(u) => t = u
  /\ joinHandle = "inuse" => \E t \in Threads : BorrowsJoin(t)

(* The word, the stage and the stage lock agree with where the claimant stands. *)
ClaimAgrees ==
  /\ \A t \in Threads : pc[t] \in {"lockStage", "polling", "toIdle"} => Has("RUNNING")
  /\ \A t \in Threads : pc[t] \in {"submit", "toRunning"} =>
        stage = "Running" /\ ~Has("RUNNING") /\ Has("NOTIFIED")
  /\ queue = 1 => ~Has("RUNNING") /\ Has("NOTIFIED")
  /\ Has("COMPLETE") => ~Has("RUNNING")
  /\ stage # "Running" /\ ~Has("COMPLETE") => \E t \in Threads : pc[t] = "toComplete"
  /\ \A t \in Threads : stageLock = t <=> pc[t] = "polling"
  /\ \A t \in Threads : pc[t] \in CompletePcs \cup {"selfWake", "clearWakerComplete", "discardDetached"}
                           => Has("COMPLETE")

(* The Cell dies once: a thread is deallocating it, an entry is deferred to the  *)
(* owner, or it is freed, and from then on nothing else refers to it.            *)
DeathOnce ==
  /\ deferred \in {0, 1}
  /\ freed => deferred = 0
  /\ \A t \in Threads : pc[t] = "dealloc" => ~freed /\ deferred = 0
  /\ \A t, u \in Threads : pc[t] = "dealloc" /\ pc[u] = "dealloc" => t = u
  /\ freed \/ deferred = 1 \/ (\E t \in Threads : pc[t] = "dealloc") => LiveRefs = 0

(* An output nobody can read any more has a thread on its way to discard it.     *)
OutputPending ==
  /\ ~registered => Has("COMPLETE")
  /\ ~Has("JOIN_INTEREST") => joinHandle = "gone"
  /\ stage # "Consumed" /\ joinHandle = "gone" => ~Has("JOIN_INTEREST")
  /\ stage = "Finished" /\ joinHandle = "gone" =>
       \E t \in Threads : pc[t] \in {"toComplete", "wakeJoinDetached", "discard",
                                     "clearWakerComplete", "discardDetached"}

(* A waiting JoinHandle has its waker in the trailer, and once the task is complete  *)
(* the completing thread, or the join call itself, has still to look there.          *)
JoinPending ==
  joiner = "waiting" /\ joinHandle # "gone" =>
    /\ trailer
    /\ Has("COMPLETE") => \E t \in Threads :
         pc[t] \in {"wakeJoin", "wakeJoinDetached", "setJoinWaker", "selfWake"}

(* What the refinement of TaskPromise needs to know of the data: NOTIFIED stands   *)
(* for a poll that is due, the result about to be stored was earned by a poll or    *)
(* by a request to cancel, an output was read by the one JoinHandle and only a      *)
(* withdrawn interest discards one.                                                 *)
PromiseAgrees ==
  /\ Has("NOTIFIED") => due
  /\ \A t \in Threads : pc[t] = "storeResult" =>
        IF result = "cancelled" THEN ~Has("RUNNING") /\ Has("CANCELLED")
                                ELSE Has("RUNNING") /\ result # "none"
  /\ stage # "Running" => result # "none"
  /\ output # "none" => stage = "Consumed" /\ joinHandle = "gone"
  /\ \A t \in Threads : pc[t] \in DetachPcs \cup {"wakeJoinDetached", "discard"}
                           => ~Has("JOIN_INTEREST")

IInv ==
  /\ TypeOK /\ HandlesAgree /\ OneClaim /\ StageAgrees /\ ClaimAgrees
  /\ RefCountExact /\ DeathOnce /\ OutputPending /\ JoinPending /\ WakeNotLost
=============================================================================
