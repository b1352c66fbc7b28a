--------------------------- MODULE TaskCellProofs ---------------------------
(***************************************************************************)
(* Proofs about TaskCell for every set of threads and every bound: the     *)
(* inductive invariant IInv and what follows from it.  One lemma per part  *)
(* of IInv, each with one step per action.                                 *)
(***************************************************************************)
EXTENDS TaskCell, FiniteSetTheorems, TLAPS

-----------------------------------------------------------------------------
(* Counting references *)

(* The calls holding a reference are finitely many, and none means none. *)
LEMMA CallersCount ==
  /\ IsFiniteSet(Callers) /\ Cardinality(Callers) \in Nat
  /\ IsFiniteSet(Callers') /\ Cardinality(Callers') \in Nat
  /\ Cardinality(Callers) = 0 => \A t \in Threads : via[t] = "none"
<1>1. IsFiniteSet(Callers) /\ IsFiniteSet(Callers')
  BY ThreadsFinite, FS_Subset DEF Callers
<1>2. Cardinality(Callers) = 0 => Callers = {}
  BY <1>1, FS_EmptySet
<1> QED BY <1>1, <1>2, FS_CardinalityType DEF Callers

(* A call that ends, or turns its reference into a queue entry, gives up one. *)
LEMMA CallerLeaves ==
  ASSUME CallsOK, NEW t \in Threads, via[t] # "none", via' = [via EXCEPT ![t] = "none"]
  PROVE  Cardinality(Callers') = Cardinality(Callers) - 1
<1>1. Callers' = Callers \ {t} /\ t \in Callers
  BY DEF Callers, CallsOK
<1> QED BY <1>1, CallersCount, FS_RemoveElement

(* A call that begins takes over one reference. *)
LEMMA CallerEnters ==
  ASSUME CallsOK, NEW t \in Threads, NEW h, h # "none",
         via[t] = "none", via' = [via EXCEPT ![t] = h]
  PROVE  Cardinality(Callers') = Cardinality(Callers) + 1
<1>1. Callers' = Callers \cup {t} /\ t \notin Callers
  BY DEF Callers, CallsOK
<1> QED BY <1>1, CallersCount, FS_AddElement, Zenon

(* LiveRefs is a count, and when it is zero nothing can reach the Cell. *)
LEMMA LiveRefsCount ==
  ASSUME WordOK
  PROVE  /\ LiveRefs \in Nat
         /\ LiveRefs = 0 => /\ wakers = 0 /\ aborts = 0 /\ queue = 0
                            /\ joinHandle # "held" /\ ~registered
                            /\ \A t \in Threads : via[t] = "none"
<1>1. /\ JoinRef \in Nat /\ RegistryRef \in Nat
      /\ joinHandle = "held" => JoinRef = 1
      /\ registered => RegistryRef = 1
  BY DEF JoinRef, RegistryRef
<1>2. Cardinality(Callers) \in Nat
  BY CallersCount
<1>3. LiveRefs \in Nat
  BY <1>1, <1>2 DEF LiveRefs, WordOK
<1> DEFINE calls == Cardinality(Callers)
<1> HIDE DEF calls
<1>4. calls \in Nat /\ LiveRefs = wakers + aborts + queue + calls + JoinRef + RegistryRef
  BY <1>2 DEF calls, LiveRefs
<1>5. LiveRefs = 0 => /\ wakers = 0 /\ aborts = 0 /\ queue = 0
                      /\ JoinRef = 0 /\ RegistryRef = 0 /\ calls = 0
  BY <1>1, <1>4 DEF WordOK
<1> QED BY <1>1, <1>3, <1>5, CallersCount DEF calls

(* Whoever holds a reference sees a positive count, so no decrement underflows *)
(* (the assertion of State::ref_dec).                                          *)
HeldRefsCount ==
  /\ wakers > 0 => ref > 0
  /\ aborts > 0 => ref > 0
  /\ \A t \in Threads : via[t] # "none" => ref > 0

LEMMA RefPositive ==
  ASSUME WordOK, DeathOnce, RefCountExact
  PROVE  HeldRefsCount
<1>1. PICK n \in Nat :
        /\ n = LiveRefs
        /\ n = 0 => wakers = 0 /\ aborts = 0 /\ \A t \in Threads : via[t] = "none"
  BY LiveRefsCount
<1>2. n # 0 => ~freed
  BY <1>1 DEF DeathOnce
<1>3. ~freed => ref = n + deferred
  BY <1>1 DEF RefCountExact, Refs
<1>4. n # 0 => ref > 0
  BY <1>2, <1>3 DEF WordOK
<1> QED BY <1>1, <1>4 DEF HeldRefsCount, WordOK

-----------------------------------------------------------------------------
(* One lemma per part of the invariant *)

(* The word and the counters keep their types: no count goes below zero. *)
LEMMA WordStep ==
  ASSUME WordOK, HandlesAgree, HeldRefsCount, [Next]_vars
  PROVE  WordOK'
<1> USE DEF WordOK, Flags, vars, word, core, sched, user, join, Goto, Enter, Has
<1>a. CASE UNCHANGED vars
  BY <1>a
<1>b. CASE SpuriousJoinPoll
  BY <1>b DEF SpuriousJoinPoll
<1>c. ASSUME NEW t \in Threads, Progress(t) \/ RunLoop(t) \/ UserStep(t)
      PROVE  WordOK'
  <2>1. CASE DropReference(t)
    <3>1. ref > 0
      BY <2>1 DEF DropReference, HandlesAgree, HeldRefsCount
    <3> QED BY <2>1, <3>1 DEF DropReference, ReleaseRef
  <2>2. CASE Dealloc(t)
    BY <2>2 DEF Dealloc, RefInc
  <2>3. CASE Schedule(t)
    BY <2>3 DEF Schedule
  <2>4. CASE TransitionToRunning(t)
    BY <2>4 DEF TransitionToRunning, EntryFinalizes
  <2>5. CASE LockStage(t)
    BY <2>5 DEF LockStage
  <2>6. CASE \E r \in Outcomes \ {"cancelled"} : PollReturns(t, r)
    BY <2>6 DEF PollReturns
  <2>7. CASE TransitionToIdle(t)
    BY <2>7 DEF TransitionToIdle, AfterIdle
  <2>8. CASE StoreResult(t)
    BY <2>8 DEF StoreResult
  <2>9. CASE TransitionToComplete(t)
    BY <2>9 DEF TransitionToComplete, JoinInterested
  <2>10. CASE WakeJoinHandle(t)
    BY <2>10 DEF WakeJoinHandle
  <2>11. CASE DiscardOutput(t)
    BY <2>11 DEF DiscardOutput
  <2>12. CASE TaskComplete(t)
    <3>1. ref > 0
      BY <2>12 DEF TaskComplete, HandlesAgree, HeldRefsCount
    <3>2. ref' \in Nat
      BY <2>12, <3>1 DEF TaskComplete, RefWithoutRegistry
    <3> QED BY <2>12, <3>2 DEF TaskComplete, GiveBack
  <2>13. CASE StoreJoinWaker(t)
    BY <2>13 DEF StoreJoinWaker
  <2>14. CASE SetJoinWaker(t)
    <3>1. CASE Has("COMPLETE")
      BY <2>14, <3>1 DEF SetJoinWaker, JoinTooLate, GiveBack
    <3>2. CASE ~Has("COMPLETE")
      <4>1. flags' \subseteq Flags
        BY <2>14, <3>2 DEF SetJoinWaker, JoinTooLate
      <4>2. aborts' \in Nat /\ wakers' \in Nat
        BY <2>14, <3>2 DEF SetJoinWaker, JoinTooLate, GiveBack
      <4> QED BY <2>14, <4>1, <4>2 DEF SetJoinWaker
    <3> QED BY <3>1, <3>2
  <2>15. CASE SelfWakeJoin(t)
    BY <2>15 DEF SelfWakeJoin, GiveBack
  <2>16. CASE ClearJoinWaker(t)
    BY <2>16 DEF ClearJoinWaker
  <2>17. CASE RunEntry(t)
    BY <2>17 DEF RunEntry
  <2>18. CASE RunDeferred(t)
    BY <2>18 DEF RunDeferred
  <2>19. CASE CloneContextWaker(t)
    BY <2>19 DEF CloneContextWaker, RefInc
  <2>20. CASE WakeSelf(t)
    BY <2>20 DEF WakeSelf, Notified, WakeIsNoOp, WakeMeans
  <2>21. CASE WakeByVal(t)
    BY <2>21 DEF WakeByVal, Notified, WakeIsNoOp, WakeMeans
  <2>22. CASE WakeByRef(t)
    BY <2>22 DEF WakeByRef, Notified, WakeIsNoOp, WakeMeans, RefInc
  <2>23. CASE CloneWaker(t)
    BY <2>23 DEF CloneWaker, RefInc
  <2>24. CASE DropWaker(t)
    <3>1. ref > 0
      BY <2>24 DEF DropWaker, HeldRefsCount
    <3> QED BY <2>24, <3>1 DEF DropWaker, ReleaseRef
  <2>25. CASE NewAbortHandle(t)
    BY <2>25 DEF NewAbortHandle, RefInc
  <2>26. CASE DropAbortHandle(t)
    <3>1. ref > 0
      BY <2>26 DEF DropAbortHandle, HeldRefsCount
    <3> QED BY <2>26, <3>1 DEF DropAbortHandle, ReleaseRef
  <2>27. CASE \E h \in {"abort", "join"} : Abort(t, h)
    BY <2>27 DEF Abort, AbortDefers
  <2>28. CASE JoinPoll(t)
    BY <2>28 DEF JoinPoll
  <2>29. CASE DropJoinHandle(t)
    BY <2>29 DEF DropJoinHandle
  <2> QED BY <1>c, <2>1, <2>2, <2>3, <2>4, <2>5, <2>6, <2>7, <2>8, <2>9, <2>10, <2>11,
     <2>12, <2>13, <2>14, <2>15, <2>16, <2>17, <2>18, <2>19, <2>20, <2>21, <2>22, <2>23,
     <2>24, <2>25, <2>26, <2>27, <2>28, <2>29 DEF Progress, RunLoop, UserStep
<1> QED BY <1>a, <1>b, <1>c DEF Next

(* Every call stands at a position of its own kind of handle. *)
LEMMA CallsStep ==
  ASSUME CallsOK, [Next]_vars
  PROVE  CallsOK'
<1> USE DEF CallsOK, Outcomes, Handles, Pcs, PollPcs, FinishPcs, CompletePcs, JoinPcs,
   DetachPcs, vars, word, core, sched, user, join, Goto, Enter, Has
<1>a. CASE UNCHANGED vars
  BY <1>a
<1>b. CASE SpuriousJoinPoll
  BY <1>b DEF SpuriousJoinPoll
<1>c. ASSUME NEW t \in Threads, Progress(t) \/ RunLoop(t) \/ UserStep(t)
      PROVE  CallsOK'
  <2>1. CASE DropReference(t)
    BY <2>1 DEF DropReference, ReleaseRef, LastRef
  <2>2. CASE Dealloc(t)
    BY <2>2 DEF Dealloc, RefInc
  <2>3. CASE Schedule(t)
    BY <2>3 DEF Schedule
  <2>4. CASE TransitionToRunning(t)
    BY <2>4 DEF TransitionToRunning, EntryFinalizes
  <2>5. CASE LockStage(t)
    BY <2>5 DEF LockStage
  <2>6. CASE \E r \in Outcomes \ {"cancelled"} : PollReturns(t, r)
    BY <2>6 DEF PollReturns
  <2>7. CASE TransitionToIdle(t)
    BY <2>7 DEF TransitionToIdle, AfterIdle
  <2>8. CASE StoreResult(t)
    BY <2>8 DEF StoreResult
  <2>9. CASE TransitionToComplete(t)
    BY <2>9 DEF TransitionToComplete, JoinInterested
  <2>10. CASE WakeJoinHandle(t)
    BY <2>10 DEF WakeJoinHandle
  <2>11. CASE DiscardOutput(t)
    BY <2>11 DEF DiscardOutput
  <2>12. CASE TaskComplete(t)
    BY <2>12 DEF TaskComplete, RefWithoutRegistry, GiveBack
  <2>13. CASE StoreJoinWaker(t)
    BY <2>13 DEF StoreJoinWaker
  <2>14. CASE SetJoinWaker(t)
    BY <2>14 DEF SetJoinWaker, JoinTooLate, GiveBack
  <2>15. CASE SelfWakeJoin(t)
    BY <2>15 DEF SelfWakeJoin, GiveBack
  <2>16. CASE ClearJoinWaker(t)
    BY <2>16 DEF ClearJoinWaker
  <2>17. CASE RunEntry(t)
    BY <2>17 DEF RunEntry
  <2>18. CASE RunDeferred(t)
    BY <2>18 DEF RunDeferred
  <2>19. CASE CloneContextWaker(t)
    BY <2>19 DEF CloneContextWaker, RefInc
  <2>20. CASE WakeSelf(t)
    BY <2>20 DEF WakeSelf, Notified, WakeIsNoOp, WakeMeans
  <2>21. CASE WakeByVal(t)
    BY <2>21 DEF WakeByVal, Notified, WakeIsNoOp, WakeMeans
  <2>22. CASE WakeByRef(t)
    BY <2>22 DEF WakeByRef, Notified, WakeIsNoOp, WakeMeans, RefInc
  <2>23. CASE CloneWaker(t)
    BY <2>23 DEF CloneWaker, RefInc
  <2>24. CASE DropWaker(t)
    BY <2>24 DEF DropWaker, ReleaseRef, LastRef
  <2>25. CASE NewAbortHandle(t)
    BY <2>25 DEF NewAbortHandle, RefInc
  <2>26. CASE DropAbortHandle(t)
    BY <2>26 DEF DropAbortHandle, ReleaseRef, LastRef
  <2>27. CASE \E h \in {"abort", "join"} : Abort(t, h)
    BY <2>27 DEF Abort, AbortDefers
  <2>28. CASE JoinPoll(t)
    BY <2>28 DEF JoinPoll
  <2>29. CASE DropJoinHandle(t)
    BY <2>29 DEF DropJoinHandle
  <2> QED BY <1>c, <2>1, <2>2, <2>3, <2>4, <2>5, <2>6, <2>7, <2>8, <2>9, <2>10, <2>11,
     <2>12, <2>13, <2>14, <2>15, <2>16, <2>17, <2>18, <2>19, <2>20, <2>21, <2>22, <2>23,
     <2>24, <2>25, <2>26, <2>27, <2>28, <2>29 DEF Progress, RunLoop, UserStep
<1> QED BY <1>a, <1>b, <1>c DEF Next

(* The boolean fields stay boolean. *)
LEMMA SwitchesStep ==
  ASSUME SwitchesOK, [Next]_vars
  PROVE  SwitchesOK'
<1> USE DEF SwitchesOK, vars, word, core, sched, user, join
<1>a. CASE UNCHANGED vars
  BY <1>a
<1>b. CASE SpuriousJoinPoll
  BY <1>b DEF SpuriousJoinPoll
<1>c. ASSUME NEW t \in Threads, Progress(t) \/ RunLoop(t) \/ UserStep(t)
      PROVE  SwitchesOK'
  <2>1. CASE DropReference(t)
    BY <2>1 DEF DropReference, ReleaseRef, LastRef
  <2>2. CASE Dealloc(t)
    BY <2>2 DEF Dealloc, RefInc
  <2>3. CASE Schedule(t)
    BY <2>3 DEF Schedule
  <2>4. CASE TransitionToRunning(t)
    BY <2>4 DEF TransitionToRunning, EntryFinalizes
  <2>5. CASE LockStage(t)
    BY <2>5 DEF LockStage
  <2>6. CASE \E r \in Outcomes \ {"cancelled"} : PollReturns(t, r)
    BY <2>6 DEF PollReturns
  <2>7. CASE TransitionToIdle(t)
    BY <2>7 DEF TransitionToIdle, AfterIdle
  <2>8. CASE StoreResult(t)
    BY <2>8 DEF StoreResult
  <2>9. CASE TransitionToComplete(t)
    BY <2>9 DEF TransitionToComplete, JoinInterested
  <2>10. CASE WakeJoinHandle(t)
    BY <2>10 DEF WakeJoinHandle
  <2>11. CASE DiscardOutput(t)
    BY <2>11 DEF DiscardOutput
  <2>12. CASE TaskComplete(t)
    BY <2>12 DEF TaskComplete, RefWithoutRegistry, GiveBack
  <2>13. CASE StoreJoinWaker(t)
    BY <2>13 DEF StoreJoinWaker
  <2>14. CASE SetJoinWaker(t)
    BY <2>14 DEF SetJoinWaker, JoinTooLate, GiveBack
  <2>15. CASE SelfWakeJoin(t)
    BY <2>15 DEF SelfWakeJoin, GiveBack
  <2>16. CASE ClearJoinWaker(t)
    BY <2>16 DEF ClearJoinWaker
  <2>17. CASE RunEntry(t)
    BY <2>17 DEF RunEntry
  <2>18. CASE RunDeferred(t)
    BY <2>18 DEF RunDeferred
  <2>19. CASE CloneContextWaker(t)
    BY <2>19 DEF CloneContextWaker, RefInc
  <2>20. CASE WakeSelf(t)
    BY <2>20 DEF WakeSelf, Notified, WakeIsNoOp, WakeMeans
  <2>21. CASE WakeByVal(t)
    BY <2>21 DEF WakeByVal, Notified, WakeIsNoOp, WakeMeans
  <2>22. CASE WakeByRef(t)
    BY <2>22 DEF WakeByRef, Notified, WakeIsNoOp, WakeMeans, RefInc
  <2>23. CASE CloneWaker(t)
    BY <2>23 DEF CloneWaker, RefInc
  <2>24. CASE DropWaker(t)
    BY <2>24 DEF DropWaker, ReleaseRef, LastRef
  <2>25. CASE NewAbortHandle(t)
    BY <2>25 DEF NewAbortHandle, RefInc
  <2>26. CASE DropAbortHandle(t)
    BY <2>26 DEF DropAbortHandle, ReleaseRef, LastRef
  <2>27. CASE \E h \in {"abort", "join"} : Abort(t, h)
    BY <2>27 DEF Abort, AbortDefers
  <2>28. CASE JoinPoll(t)
    BY <2>28 DEF JoinPoll
  <2>29. CASE DropJoinHandle(t)
    BY <2>29 DEF DropJoinHandle
  <2> QED BY <1>c, <2>1, <2>2, <2>3, <2>4, <2>5, <2>6, <2>7, <2>8, <2>9, <2>10, <2>11,
     <2>12, <2>13, <2>14, <2>15, <2>16, <2>17, <2>18, <2>19, <2>20, <2>21, <2>22, <2>23,
     <2>24, <2>25, <2>26, <2>27, <2>28, <2>29 DEF Progress, RunLoop, UserStep
<1> QED BY <1>a, <1>b, <1>c DEF Next

(* A thread holds a handle exactly while it is in a call, the one its position says. *)
LEMMA HandlesStep ==
  ASSUME CallsOK, HandlesAgree, [Next]_vars
  PROVE  HandlesAgree'
<1> USE DEF HandlesAgree, BorrowsJoin, CallsOK, Handles, Pcs, PollPcs, FinishPcs,
   CompletePcs, JoinPcs, DetachPcs, vars, word, core, sched, user, join, Goto, Enter,
   Has
<1>a. CASE UNCHANGED vars
  BY <1>a
<1>b. CASE SpuriousJoinPoll
  BY <1>b DEF SpuriousJoinPoll
<1>c. ASSUME NEW t \in Threads, Progress(t) \/ RunLoop(t) \/ UserStep(t)
      PROVE  HandlesAgree'
  <2>1. CASE DropReference(t)
    BY <2>1 DEF DropReference, ReleaseRef, LastRef
  <2>2. CASE Dealloc(t)
    BY <2>2 DEF Dealloc, RefInc
  <2>3. CASE Schedule(t)
    BY <2>3 DEF Schedule
  <2>4. CASE TransitionToRunning(t)
    BY <2>4 DEF TransitionToRunning, EntryFinalizes
  <2>5. CASE LockStage(t)
    BY <2>5 DEF LockStage
  <2>6. CASE \E r \in Outcomes \ {"cancelled"} : PollReturns(t, r)
    BY <2>6 DEF PollReturns
  <2>7. CASE TransitionToIdle(t)
    BY <2>7 DEF TransitionToIdle, AfterIdle
  <2>8. CASE StoreResult(t)
    BY <2>8 DEF StoreResult
  <2>9. CASE TransitionToComplete(t)
    BY <2>9 DEF TransitionToComplete, JoinInterested
  <2>10. CASE WakeJoinHandle(t)
    BY <2>10 DEF WakeJoinHandle
  <2>11. CASE DiscardOutput(t)
    BY <2>11 DEF DiscardOutput
  <2>12. CASE TaskComplete(t)
    BY <2>12 DEF TaskComplete, RefWithoutRegistry, GiveBack
  <2>13. CASE StoreJoinWaker(t)
    BY <2>13 DEF StoreJoinWaker
  <2>14. CASE SetJoinWaker(t)
    BY <2>14 DEF SetJoinWaker, JoinTooLate, GiveBack
  <2>15. CASE SelfWakeJoin(t)
    BY <2>15 DEF SelfWakeJoin, GiveBack
  <2>16. CASE ClearJoinWaker(t)
    BY <2>16 DEF ClearJoinWaker
  <2>17. CASE RunEntry(t)
    BY <2>17 DEF RunEntry
  <2>18. CASE RunDeferred(t)
    BY <2>18 DEF RunDeferred
  <2>19. CASE CloneContextWaker(t)
    BY <2>19 DEF CloneContextWaker, RefInc
  <2>20. CASE WakeSelf(t)
    BY <2>20 DEF WakeSelf, Notified, WakeIsNoOp, WakeMeans
  <2>21. CASE WakeByVal(t)
    BY <2>21 DEF WakeByVal, Notified, WakeIsNoOp, WakeMeans
  <2>22. CASE WakeByRef(t)
    BY <2>22 DEF WakeByRef, Notified, WakeIsNoOp, WakeMeans, RefInc
  <2>23. CASE CloneWaker(t)
    BY <2>23 DEF CloneWaker, RefInc
  <2>24. CASE DropWaker(t)
    BY <2>24 DEF DropWaker, ReleaseRef, LastRef
  <2>25. CASE NewAbortHandle(t)
    BY <2>25 DEF NewAbortHandle, RefInc
  <2>26. CASE DropAbortHandle(t)
    BY <2>26 DEF DropAbortHandle, ReleaseRef, LastRef
  <2>27. CASE \E h \in {"abort", "join"} : Abort(t, h)
    BY <2>27 DEF Abort, AbortDefers
  <2>28. CASE JoinPoll(t)
    BY <2>28 DEF JoinPoll
  <2>29. CASE DropJoinHandle(t)
    BY <2>29 DEF DropJoinHandle
  <2> QED BY <1>c, <2>1, <2>2, <2>3, <2>4, <2>5, <2>6, <2>7, <2>8, <2>9, <2>10, <2>11,
     <2>12, <2>13, <2>14, <2>15, <2>16, <2>17, <2>18, <2>19, <2>20, <2>21, <2>22, <2>23,
     <2>24, <2>25, <2>26, <2>27, <2>28, <2>29 DEF Progress, RunLoop, UserStep
<1> QED BY <1>a, <1>b, <1>c DEF Next

(* The claim on the task moves between queue, submitter, poller and finalizer and is
   never duplicated or lost: what transition_to_running, transition_to_idle and
   set_cancelled must decide alike. *)
LEMMA ClaimStep ==
  ASSUME WordOK, CallsOK, OneClaim, StageAgrees, ClaimAgrees, [Next]_vars
  PROVE  OneClaim' /\ StageAgrees' /\ ClaimAgrees'
<1> USE DEF OneClaim, Claimants, ClaimPcs, StageAgrees, ClaimAgrees, WordOK, CallsOK,
   Outcomes, Handles, Flags, Pcs, PollPcs, FinishPcs, CompletePcs, JoinPcs, DetachPcs,
   vars, word, core, sched, user, join, Goto, Enter, Has
<1> USE NoThreadIsNone
<1>a. CASE UNCHANGED vars
  BY <1>a
<1>b. CASE SpuriousJoinPoll
  BY <1>b DEF SpuriousJoinPoll
<1>c. ASSUME NEW t \in Threads, Progress(t) \/ RunLoop(t) \/ UserStep(t)
      PROVE  OneClaim' /\ StageAgrees' /\ ClaimAgrees'
  <2>1. CASE DropReference(t)
    BY <2>1 DEF DropReference, ReleaseRef, LastRef
  <2>2. CASE Dealloc(t)
    BY <2>2 DEF Dealloc, RefInc
  <2>3. CASE Schedule(t)
    BY <2>3 DEF Schedule
  <2>4. CASE TransitionToRunning(t)
    BY <2>4 DEF TransitionToRunning, EntryFinalizes
  <2>5. CASE LockStage(t)
    BY <2>5 DEF LockStage
  <2>6. CASE \E r \in Outcomes \ {"cancelled"} : PollReturns(t, r)
    BY <2>6 DEF PollReturns
  <2>7. CASE TransitionToIdle(t)
    BY <2>7 DEF TransitionToIdle, AfterIdle
  <2>8. CASE StoreResult(t)
    BY <2>8 DEF StoreResult
  <2>9. CASE TransitionToComplete(t)
    BY <2>9 DEF TransitionToComplete, JoinInterested
  <2>10. CASE WakeJoinHandle(t)
    BY <2>10 DEF WakeJoinHandle
  <2>11. CASE DiscardOutput(t)
    BY <2>11 DEF DiscardOutput
  <2>12. CASE TaskComplete(t)
    BY <2>12 DEF TaskComplete, RefWithoutRegistry, GiveBack
  <2>13. CASE StoreJoinWaker(t)
    BY <2>13 DEF StoreJoinWaker
  <2>14. CASE SetJoinWaker(t)
    BY <2>14 DEF SetJoinWaker, JoinTooLate, GiveBack
  <2>15. CASE SelfWakeJoin(t)
    BY <2>15 DEF SelfWakeJoin, GiveBack
  <2>16. CASE ClearJoinWaker(t)
    BY <2>16 DEF ClearJoinWaker
  <2>17. CASE RunEntry(t)
    BY <2>17 DEF RunEntry
  <2>18. CASE RunDeferred(t)
    BY <2>18 DEF RunDeferred
  <2>19. CASE CloneContextWaker(t)
    BY <2>19 DEF CloneContextWaker, RefInc
  <2>20. CASE WakeSelf(t)
    BY <2>20 DEF WakeSelf, Notified, WakeIsNoOp, WakeMeans
  <2>21. CASE WakeByVal(t)
    BY <2>21 DEF WakeByVal, Notified, WakeIsNoOp, WakeMeans
  <2>22. CASE WakeByRef(t)
    BY <2>22 DEF WakeByRef, Notified, WakeIsNoOp, WakeMeans, RefInc
  <2>23. CASE CloneWaker(t)
    BY <2>23 DEF CloneWaker, RefInc
  <2>24. CASE DropWaker(t)
    BY <2>24 DEF DropWaker, ReleaseRef, LastRef
  <2>25. CASE NewAbortHandle(t)
    BY <2>25 DEF NewAbortHandle, RefInc
  <2>26. CASE DropAbortHandle(t)
    BY <2>26 DEF DropAbortHandle, ReleaseRef, LastRef
  <2>27. CASE \E h \in {"abort", "join"} : Abort(t, h)
    BY <2>27 DEF Abort, AbortDefers
  <2>28. CASE JoinPoll(t)
    BY <2>28 DEF JoinPoll
  <2>29. CASE DropJoinHandle(t)
    BY <2>29 DEF DropJoinHandle
  <2> QED BY <1>c, <2>1, <2>2, <2>3, <2>4, <2>5, <2>6, <2>7, <2>8, <2>9, <2>10, <2>11,
     <2>12, <2>13, <2>14, <2>15, <2>16, <2>17, <2>18, <2>19, <2>20, <2>21, <2>22, <2>23,
     <2>24, <2>25, <2>26, <2>27, <2>28, <2>29 DEF Progress, RunLoop, UserStep
<1> QED BY <1>a, <1>b, <1>c DEF Next

(* Every step changes the packed count exactly as it changes the references in
   existence. *)
LEMMA RefStep ==
  ASSUME WordOK, WordOK', CallsOK, SwitchesOK, HandlesAgree, DeathOnce, RefCountExact, [Next]_vars
  PROVE  RefCountExact'
<1> USE DEF RefCountExact, Refs, LiveRefs, DeathOnce, WordOK, CallsOK, HandlesAgree,
   BorrowsJoin, Pcs, PollPcs, FinishPcs, CompletePcs, JoinPcs, DetachPcs, vars, word,
   core, sched, user, join, Goto, Enter, Has
<1>1. via' = via => Cardinality(Callers') = Cardinality(Callers)
  BY DEF Callers
<1>2. /\ Cardinality(Callers) \in Nat /\ Cardinality(Callers') \in Nat
      /\ JoinRef \in Nat /\ JoinRef' \in Nat
      /\ RegistryRef \in Nat /\ RegistryRef' \in Nat
  BY CallersCount DEF JoinRef, RegistryRef
<1>3. /\ joinHandle' = joinHandle => JoinRef' = JoinRef
      /\ joinHandle' = "held" /\ joinHandle # "held" => JoinRef' = 1 /\ JoinRef = 0
      /\ joinHandle' # "held" /\ joinHandle = "held" => JoinRef' = 0 /\ JoinRef = 1
      /\ registered' = registered => RegistryRef' = RegistryRef
  BY DEF JoinRef, RegistryRef
<1>a. CASE UNCHANGED vars
  BY <1>a, <1>1, <1>2, <1>3
<1>b. CASE SpuriousJoinPoll
  BY <1>b, <1>1, <1>2, <1>3 DEF SpuriousJoinPoll
<1>c. ASSUME NEW t \in Threads, Progress(t) \/ RunLoop(t) \/ UserStep(t)
      PROVE  RefCountExact'
  <2>1. CASE DropReference(t)
    <3>1. via[t] # "none" /\ via' = [via EXCEPT ![t] = "none"]
      BY <2>1 DEF DropReference, ReleaseRef
    <3>2. Cardinality(Callers') = Cardinality(Callers) - 1
      BY <3>1, CallerLeaves
    <3> QED BY <2>1, <3>1, <3>2, <1>2, <1>3 DEF DropReference, ReleaseRef, LastRef
  <2>2. CASE Dealloc(t)
    BY <2>2, <1>1, <1>2, <1>3 DEF Dealloc, RefInc
  <2>3. CASE Schedule(t)
    <3>1. via[t] # "none" /\ via' = [via EXCEPT ![t] = "none"]
      BY <2>3 DEF Schedule
    <3>2. Cardinality(Callers') = Cardinality(Callers) - 1
      BY <3>1, CallerLeaves
    <3> QED BY <2>3, <3>1, <3>2, <1>2, <1>3 DEF Schedule
  <2>4. CASE TransitionToRunning(t)
    BY <2>4, <1>1, <1>2, <1>3 DEF TransitionToRunning, EntryFinalizes
  <2>5. CASE LockStage(t)
    BY <2>5, <1>1, <1>2, <1>3 DEF LockStage
  <2>6. CASE \E r \in Outcomes \ {"cancelled"} : PollReturns(t, r)
    BY <2>6, <1>1, <1>2, <1>3 DEF PollReturns
  <2>7. CASE TransitionToIdle(t)
    BY <2>7, <1>1, <1>2, <1>3 DEF TransitionToIdle, AfterIdle
  <2>8. CASE StoreResult(t)
    BY <2>8, <1>1, <1>2, <1>3 DEF StoreResult
  <2>9. CASE TransitionToComplete(t)
    BY <2>9, <1>1, <1>2, <1>3 DEF TransitionToComplete, JoinInterested
  <2>10. CASE WakeJoinHandle(t)
    BY <2>10, <1>1, <1>2, <1>3 DEF WakeJoinHandle
  <2>11. CASE DiscardOutput(t)
    BY <2>11, <1>1, <1>2, <1>3 DEF DiscardOutput
  <2>12. CASE TaskComplete(t)
    <3>1. /\ registered => ref' = ref - 1 /\ RegistryRef = 1
          /\ ~registered => ref' = ref /\ RegistryRef = 0
          /\ RegistryRef' = 0
      BY <2>12 DEF TaskComplete, RefWithoutRegistry, RegistryRef
    <3>2. freed' = freed /\ queue' = queue /\ deferred' = deferred /\ wakers' = wakers
      BY <2>12 DEF TaskComplete, GiveBack
    <3>3. CASE via[t] = "queue"
      <4>1. aborts' = aborts /\ joinHandle' = joinHandle /\ via' = via
        BY <2>12, <3>3 DEF TaskComplete
      <4> QED BY <3>1, <3>2, <4>1, <1>1, <1>2, <1>3
    <3>4. CASE via[t] # "queue"
      <4>1. via[t] # "none" /\ via' = [via EXCEPT ![t] = "none"]
        BY <2>12, <3>4 DEF TaskComplete, GiveBack
      <4>2. Cardinality(Callers') = Cardinality(Callers) - 1
        BY <4>1, CallerLeaves
      <4>3. CASE via[t] = "abort"
        <5>1. aborts' = aborts + 1 /\ joinHandle' = joinHandle
          BY <2>12, <4>3 DEF TaskComplete, GiveBack
        <5> QED BY <3>1, <3>2, <4>2, <5>1, <1>2, <1>3
      <4>4. CASE via[t] = "join"
        <5>1. aborts' = aborts /\ joinHandle' = "held" /\ joinHandle # "held"
          BY <2>12, <4>4 DEF TaskComplete, GiveBack
        <5> QED BY <3>1, <3>2, <4>2, <5>1, <1>2, <1>3
      <4> QED BY <2>12, <3>4, <4>3, <4>4 DEF TaskComplete
    <3> QED BY <3>3, <3>4
  <2>13. CASE StoreJoinWaker(t)
    BY <2>13, <1>1, <1>2, <1>3 DEF StoreJoinWaker
  <2>14. CASE SetJoinWaker(t)
    <3>1. CASE JoinTooLate
      BY <2>14, <3>1, <1>1, <1>2, <1>3 DEF SetJoinWaker
    <3>2. CASE ~JoinTooLate
      <4>1. via[t] # "none" /\ via' = [via EXCEPT ![t] = "none"]
        BY <2>14, <3>2 DEF SetJoinWaker, GiveBack
      <4>2. Cardinality(Callers') = Cardinality(Callers) - 1
        BY <4>1, CallerLeaves
      <4> QED BY <2>14, <3>2, <4>1, <4>2, <1>2, <1>3 DEF SetJoinWaker, GiveBack
    <3> QED BY <3>1, <3>2
  <2>15. CASE SelfWakeJoin(t)
    <3>1. via[t] # "none" /\ via' = [via EXCEPT ![t] = "none"]
      BY <2>15 DEF SelfWakeJoin, GiveBack
    <3>2. Cardinality(Callers') = Cardinality(Callers) - 1
      BY <3>1, CallerLeaves
    <3> QED BY <2>15, <3>1, <3>2, <1>2, <1>3 DEF SelfWakeJoin, GiveBack
  <2>16. CASE ClearJoinWaker(t)
    BY <2>16, <1>1, <1>2, <1>3 DEF ClearJoinWaker
  <2>17. CASE RunEntry(t)
    <3>1. via[t] = "none" /\ via' = [via EXCEPT ![t] = "queue"]
      BY <2>17 DEF RunEntry
    <3>2. Cardinality(Callers') = Cardinality(Callers) + 1
      BY <3>1, CallerEnters, Zenon
    <3> QED BY <2>17, <3>1, <3>2, <1>2, <1>3 DEF RunEntry
  <2>18. CASE RunDeferred(t)
    BY <2>18, <1>1, <1>2, <1>3 DEF RunDeferred
  <2>19. CASE CloneContextWaker(t)
    BY <2>19, <1>1, <1>2, <1>3 DEF CloneContextWaker, RefInc
  <2>20. CASE WakeSelf(t)
    BY <2>20, <1>1, <1>2, <1>3 DEF WakeSelf, Notified, WakeIsNoOp, WakeMeans
  <2>21. CASE WakeByVal(t)
    <3>1. via[t] = "none" /\ via' = [via EXCEPT ![t] = "waker"]
      BY <2>21 DEF WakeByVal
    <3>2. Cardinality(Callers') = Cardinality(Callers) + 1
      BY <3>1, CallerEnters, Zenon
    <3> QED BY <2>21, <3>1, <3>2, <1>2, <1>3 DEF WakeByVal
  <2>22. CASE WakeByRef(t)
    <3>1. CASE WakeIsNoOp \/ Has("RUNNING")
      BY <2>22, <3>1, <1>1, <1>2, <1>3 DEF WakeByRef
    <3>2. CASE ~(WakeIsNoOp \/ Has("RUNNING"))
      <4>1. via[t] = "none" /\ via' = [via EXCEPT ![t] = "waker"]
        BY <2>22, <3>2 DEF WakeByRef
      <4>2. Cardinality(Callers') = Cardinality(Callers) + 1
        BY <4>1, CallerEnters, Zenon
      <4> QED BY <2>22, <3>2, <4>1, <4>2, <1>2, <1>3 DEF WakeByRef, RefInc
    <3> QED BY <3>1, <3>2
  <2>23. CASE CloneWaker(t)
    BY <2>23, <1>1, <1>2, <1>3 DEF CloneWaker, RefInc
  <2>24. CASE DropWaker(t)
    BY <2>24, <1>1, <1>2, <1>3 DEF DropWaker, ReleaseRef, LastRef
  <2>25. CASE NewAbortHandle(t)
    BY <2>25, <1>1, <1>2, <1>3 DEF NewAbortHandle, RefInc
  <2>26. CASE DropAbortHandle(t)
    BY <2>26, <1>1, <1>2, <1>3 DEF DropAbortHandle, ReleaseRef, LastRef
  <2>27. CASE \E h \in {"abort", "join"} : Abort(t, h)
    <3>1. CASE AbortDefers
      BY <2>27, <3>1, <1>1, <1>2, <1>3 DEF Abort
    <3>2. ASSUME ~AbortDefers, NEW h \in {"abort", "join"}, Abort(t, h)
          PROVE  RefCountExact'
      <4>1. h # "none" /\ via[t] = "none" /\ via' = [via EXCEPT ![t] = h]
        BY <3>2 DEF Abort
      <4>2. Cardinality(Callers') = Cardinality(Callers) + 1
        BY <4>1, CallerEnters, Zenon
      <4> QED BY <3>2, <4>1, <4>2, <1>2, <1>3 DEF Abort
    <3> QED BY <2>27, <3>1, <3>2
  <2>28. CASE JoinPoll(t)
    <3>1. via[t] = "none" /\ via' = [via EXCEPT ![t] = "join"]
      BY <2>28 DEF JoinPoll
    <3>2. Cardinality(Callers') = Cardinality(Callers) + 1
      BY <3>1, CallerEnters, Zenon
    <3> QED BY <2>28, <3>1, <3>2, <1>2, <1>3 DEF JoinPoll
  <2>29. CASE DropJoinHandle(t)
    <3>1. via[t] = "none" /\ via' = [via EXCEPT ![t] = "join"]
      BY <2>29 DEF DropJoinHandle
    <3>2. Cardinality(Callers') = Cardinality(Callers) + 1
      BY <3>1, CallerEnters, Zenon
    <3> QED BY <2>29, <3>1, <3>2, <1>2, <1>3 DEF DropJoinHandle
  <2> QED BY <1>c, <2>1, <2>2, <2>3, <2>4, <2>5, <2>6, <2>7, <2>8, <2>9, <2>10, <2>11,
     <2>12, <2>13, <2>14, <2>15, <2>16, <2>17, <2>18, <2>19, <2>20, <2>21, <2>22, <2>23,
     <2>24, <2>25, <2>26, <2>27, <2>28, <2>29 DEF Progress, RunLoop, UserStep
<1> QED BY <1>a, <1>b, <1>c DEF Next

(* One thread, once, is told to deallocate, and then nothing else is left. *)
LEMMA DeathStep ==
  ASSUME WordOK, CallsOK, SwitchesOK, WordOK', CallsOK', HandlesAgree, DeathOnce, RefCountExact, RefCountExact', [Next]_vars
  PROVE  DeathOnce'
<1> USE DEF RefCountExact, Refs, DeathOnce, WordOK, CallsOK, HandlesAgree, Pcs, PollPcs,
   FinishPcs, CompletePcs, JoinPcs, DetachPcs, vars, word, core, sched, user, join,
   Goto, Enter, Has
<1>1. LiveRefs \in Nat /\ LiveRefs' \in Nat
  <2>1. LiveRefs' \in Nat
    <3>1. JoinRef' \in Nat /\ RegistryRef' \in Nat
      BY DEF JoinRef, RegistryRef
    <3> QED BY <3>1, CallersCount DEF LiveRefs
  <2> QED BY <2>1, LiveRefsCount
<1>2. LiveRefs = 0 => /\ wakers = 0 /\ aborts = 0 /\ queue = 0 /\ joinHandle # "held"
                      /\ \A t \in Threads : via[t] = "none"
  BY LiveRefsCount
<1>3. wakers' = wakers /\ aborts' = aborts /\ queue' = queue /\ joinHandle' = joinHandle
        /\ registered' = registered /\ via' = via => LiveRefs' = LiveRefs
  BY DEF LiveRefs, JoinRef, RegistryRef, Callers
<1>a. CASE UNCHANGED vars
  BY <1>a, <1>1, <1>2, <1>3
<1>b. CASE SpuriousJoinPoll
  BY <1>b, <1>1, <1>2, <1>3 DEF SpuriousJoinPoll
<1>c. ASSUME NEW t \in Threads, Progress(t) \/ RunLoop(t) \/ UserStep(t)
      PROVE  DeathOnce'
  <2>1. CASE DropReference(t)
    <3>1. LiveRefs # 0
      BY <2>1, <1>2 DEF DropReference
    <3>2. ~freed /\ deferred = 0 /\ \A u \in Threads : pc[u] # "dealloc"
      BY <3>1
    <3>3. CASE ref = 1
      <4>1. pc' = [pc EXCEPT ![t] = "dealloc"] /\ ref' = 0 /\ freed' = freed /\ deferred' = deferred
        BY <2>1, <3>3 DEF DropReference, ReleaseRef, LastRef
      <4>2. LiveRefs' = 0
        <5> DEFINE live == LiveRefs'
        <5> HIDE DEF live
        <5>1. live \in Nat /\ ref' = live + deferred'
          BY <3>2, <4>1, <1>1 DEF live
        <5>2. live = 0
          BY <5>1, <3>2, <4>1
        <5> QED BY <5>2 DEF live
      <4> QED BY <3>2, <4>1, <4>2
    <3>4. CASE ref # 1
      <4>1. pc' = [pc EXCEPT ![t] = "idle"] /\ freed' = freed /\ deferred' = deferred
        BY <2>1, <3>4 DEF DropReference, ReleaseRef, LastRef
      <4> QED BY <3>2, <4>1
    <3> QED BY <3>3, <3>4
  <2>2. CASE Dealloc(t)
    BY <2>2, <1>1, <1>2, <1>3 DEF Dealloc, RefInc
  <2>3. CASE Schedule(t)
    BY <2>3, <1>1, <1>2, <1>3 DEF Schedule
  <2>4. CASE TransitionToRunning(t)
    BY <2>4, <1>1, <1>2, <1>3 DEF TransitionToRunning, EntryFinalizes
  <2>5. CASE LockStage(t)
    BY <2>5, <1>1, <1>2, <1>3 DEF LockStage
  <2>6. CASE \E r \in Outcomes \ {"cancelled"} : PollReturns(t, r)
    BY <2>6, <1>1, <1>2, <1>3 DEF PollReturns
  <2>7. CASE TransitionToIdle(t)
    BY <2>7, <1>1, <1>2, <1>3 DEF TransitionToIdle, AfterIdle
  <2>8. CASE StoreResult(t)
    BY <2>8, <1>1, <1>2, <1>3 DEF StoreResult
  <2>9. CASE TransitionToComplete(t)
    BY <2>9, <1>1, <1>2, <1>3 DEF TransitionToComplete, JoinInterested
  <2>10. CASE WakeJoinHandle(t)
    BY <2>10, <1>1, <1>2, <1>3 DEF WakeJoinHandle
  <2>11. CASE DiscardOutput(t)
    BY <2>11, <1>1, <1>2, <1>3 DEF DiscardOutput
  <2>12. CASE TaskComplete(t)
    BY <2>12, <1>1, <1>2, <1>3 DEF TaskComplete, RefWithoutRegistry, GiveBack
  <2>13. CASE StoreJoinWaker(t)
    BY <2>13, <1>1, <1>2, <1>3 DEF StoreJoinWaker
  <2>14. CASE SetJoinWaker(t)
    BY <2>14, <1>1, <1>2, <1>3 DEF SetJoinWaker, JoinTooLate, GiveBack
  <2>15. CASE SelfWakeJoin(t)
    BY <2>15, <1>1, <1>2, <1>3 DEF SelfWakeJoin, GiveBack
  <2>16. CASE ClearJoinWaker(t)
    BY <2>16, <1>1, <1>2, <1>3 DEF ClearJoinWaker
  <2>17. CASE RunEntry(t)
    BY <2>17, <1>1, <1>2, <1>3 DEF RunEntry
  <2>18. CASE RunDeferred(t)
    BY <2>18, <1>1, <1>2, <1>3 DEF RunDeferred
  <2>19. CASE CloneContextWaker(t)
    BY <2>19, <1>1, <1>2, <1>3 DEF CloneContextWaker, RefInc
  <2>20. CASE WakeSelf(t)
    BY <2>20, <1>1, <1>2, <1>3 DEF WakeSelf, Notified, WakeIsNoOp, WakeMeans
  <2>21. CASE WakeByVal(t)
    BY <2>21, <1>1, <1>2, <1>3 DEF WakeByVal, Notified, WakeIsNoOp, WakeMeans
  <2>22. CASE WakeByRef(t)
    BY <2>22, <1>1, <1>2, <1>3 DEF WakeByRef, Notified, WakeIsNoOp, WakeMeans, RefInc
  <2>23. CASE CloneWaker(t)
    BY <2>23, <1>1, <1>2, <1>3 DEF CloneWaker, RefInc
  <2>24. CASE DropWaker(t)
    <3>1. LiveRefs # 0
      BY <2>24, <1>2 DEF DropWaker
    <3>2. ~freed /\ deferred = 0 /\ \A u \in Threads : pc[u] # "dealloc"
      BY <3>1
    <3>3. CASE ref = 1
      <4>1. pc' = [pc EXCEPT ![t] = "dealloc"] /\ ref' = 0 /\ freed' = freed /\ deferred' = deferred
        BY <2>24, <3>3 DEF DropWaker, ReleaseRef, LastRef
      <4>2. LiveRefs' = 0
        <5> DEFINE live == LiveRefs'
        <5> HIDE DEF live
        <5>1. live \in Nat /\ ref' = live + deferred'
          BY <3>2, <4>1, <1>1 DEF live
        <5>2. live = 0
          BY <5>1, <3>2, <4>1
        <5> QED BY <5>2 DEF live
      <4> QED BY <3>2, <4>1, <4>2
    <3>4. CASE ref # 1
      <4>1. pc' = [pc EXCEPT ![t] = "idle"] /\ freed' = freed /\ deferred' = deferred
        BY <2>24, <3>4 DEF DropWaker, ReleaseRef, LastRef
      <4> QED BY <3>2, <4>1
    <3> QED BY <3>3, <3>4
  <2>25. CASE NewAbortHandle(t)
    BY <2>25, <1>1, <1>2, <1>3 DEF NewAbortHandle, RefInc
  <2>26. CASE DropAbortHandle(t)
    <3>1. LiveRefs # 0
      BY <2>26, <1>2 DEF DropAbortHandle
    <3>2. ~freed /\ deferred = 0 /\ \A u \in Threads : pc[u] # "dealloc"
      BY <3>1
    <3>3. CASE ref = 1
      <4>1. pc' = [pc EXCEPT ![t] = "dealloc"] /\ ref' = 0 /\ freed' = freed /\ deferred' = deferred
        BY <2>26, <3>3 DEF DropAbortHandle, ReleaseRef, LastRef
      <4>2. LiveRefs' = 0
        <5> DEFINE live == LiveRefs'
        <5> HIDE DEF live
        <5>1. live \in Nat /\ ref' = live + deferred'
          BY <3>2, <4>1, <1>1 DEF live
        <5>2. live = 0
          BY <5>1, <3>2, <4>1
        <5> QED BY <5>2 DEF live
      <4> QED BY <3>2, <4>1, <4>2
    <3>4. CASE ref # 1
      <4>1. pc' = [pc EXCEPT ![t] = "idle"] /\ freed' = freed /\ deferred' = deferred
        BY <2>26, <3>4 DEF DropAbortHandle, ReleaseRef, LastRef
      <4> QED BY <3>2, <4>1
    <3> QED BY <3>3, <3>4
  <2>27. CASE \E h \in {"abort", "join"} : Abort(t, h)
    BY <2>27, <1>1, <1>2, <1>3 DEF Abort, AbortDefers
  <2>28. CASE JoinPoll(t)
    BY <2>28, <1>1, <1>2, <1>3 DEF JoinPoll
  <2>29. CASE DropJoinHandle(t)
    BY <2>29, <1>1, <1>2, <1>3 DEF DropJoinHandle
  <2> QED BY <1>c, <2>1, <2>2, <2>3, <2>4, <2>5, <2>6, <2>7, <2>8, <2>9, <2>10, <2>11,
     <2>12, <2>13, <2>14, <2>15, <2>16, <2>17, <2>18, <2>19, <2>20, <2>21, <2>22, <2>23,
     <2>24, <2>25, <2>26, <2>27, <2>28, <2>29 DEF Progress, RunLoop, UserStep
<1> QED BY <1>a, <1>b, <1>c DEF Next

(* An unread output always has somebody on the way to discard it. *)
LEMMA OutputStep ==
  ASSUME WordOK, CallsOK, SwitchesOK, HandlesAgree, OneClaim, StageAgrees, ClaimAgrees, OutputPending, [Next]_vars
  PROVE  OutputPending'
<1> USE DEF OutputPending, OneClaim, Claimants, ClaimPcs, StageAgrees, ClaimAgrees,
   HandlesAgree, BorrowsJoin, WordOK, CallsOK, Handles, Flags, Pcs, PollPcs, FinishPcs,
   CompletePcs, JoinPcs, DetachPcs, vars, word, core, sched, user, join, Goto, Enter,
   Has
<1>a. CASE UNCHANGED vars
  BY <1>a
<1>b. CASE SpuriousJoinPoll
  BY <1>b DEF SpuriousJoinPoll
<1>c. ASSUME NEW t \in Threads, Progress(t) \/ RunLoop(t) \/ UserStep(t)
      PROVE  OutputPending'
  <2>1. CASE DropReference(t)
    BY <2>1 DEF DropReference, ReleaseRef, LastRef
  <2>2. CASE Dealloc(t)
    BY <2>2 DEF Dealloc, RefInc
  <2>3. CASE Schedule(t)
    BY <2>3 DEF Schedule
  <2>4. CASE TransitionToRunning(t)
    BY <2>4 DEF TransitionToRunning, EntryFinalizes
  <2>5. CASE LockStage(t)
    BY <2>5 DEF LockStage
  <2>6. CASE \E r \in Outcomes \ {"cancelled"} : PollReturns(t, r)
    BY <2>6 DEF PollReturns
  <2>7. CASE TransitionToIdle(t)
    BY <2>7 DEF TransitionToIdle, AfterIdle
  <2>8. CASE StoreResult(t)
    BY <2>8 DEF StoreResult
  <2>9. CASE TransitionToComplete(t)
    BY <2>9 DEF TransitionToComplete, JoinInterested
  <2>10. CASE WakeJoinHandle(t)
    BY <2>10 DEF WakeJoinHandle
  <2>11. CASE DiscardOutput(t)
    BY <2>11 DEF DiscardOutput
  <2>12. CASE TaskComplete(t)
    BY <2>12 DEF TaskComplete, RefWithoutRegistry, GiveBack
  <2>13. CASE StoreJoinWaker(t)
    BY <2>13 DEF StoreJoinWaker
  <2>14. CASE SetJoinWaker(t)
    BY <2>14 DEF SetJoinWaker, JoinTooLate, GiveBack
  <2>15. CASE SelfWakeJoin(t)
    BY <2>15 DEF SelfWakeJoin, GiveBack
  <2>16. CASE ClearJoinWaker(t)
    BY <2>16 DEF ClearJoinWaker
  <2>17. CASE RunEntry(t)
    BY <2>17 DEF RunEntry
  <2>18. CASE RunDeferred(t)
    BY <2>18 DEF RunDeferred
  <2>19. CASE CloneContextWaker(t)
    BY <2>19 DEF CloneContextWaker, RefInc
  <2>20. CASE WakeSelf(t)
    BY <2>20 DEF WakeSelf, Notified, WakeIsNoOp, WakeMeans
  <2>21. CASE WakeByVal(t)
    BY <2>21 DEF WakeByVal, Notified, WakeIsNoOp, WakeMeans
  <2>22. CASE WakeByRef(t)
    BY <2>22 DEF WakeByRef, Notified, WakeIsNoOp, WakeMeans, RefInc
  <2>23. CASE CloneWaker(t)
    BY <2>23 DEF CloneWaker, RefInc
  <2>24. CASE DropWaker(t)
    BY <2>24 DEF DropWaker, ReleaseRef, LastRef
  <2>25. CASE NewAbortHandle(t)
    BY <2>25 DEF NewAbortHandle, RefInc
  <2>26. CASE DropAbortHandle(t)
    BY <2>26 DEF DropAbortHandle, ReleaseRef, LastRef
  <2>27. CASE \E h \in {"abort", "join"} : Abort(t, h)
    BY <2>27 DEF Abort, AbortDefers
  <2>28. CASE JoinPoll(t)
    BY <2>28 DEF JoinPoll
  <2>29. CASE DropJoinHandle(t)
    BY <2>29 DEF DropJoinHandle
  <2> QED BY <1>c, <2>1, <2>2, <2>3, <2>4, <2>5, <2>6, <2>7, <2>8, <2>9, <2>10, <2>11,
     <2>12, <2>13, <2>14, <2>15, <2>16, <2>17, <2>18, <2>19, <2>20, <2>21, <2>22, <2>23,
     <2>24, <2>25, <2>26, <2>27, <2>28, <2>29 DEF Progress, RunLoop, UserStep
<1> QED BY <1>a, <1>b, <1>c DEF Next

(* The waker a JoinHandle leaves in the trailer is looked at after completion, by the
   completing thread or by the handle itself. *)
LEMMA JoinStep ==
  ASSUME WordOK, CallsOK, SwitchesOK, HandlesAgree, OneClaim, StageAgrees, ClaimAgrees, JoinPending, [Next]_vars
  PROVE  JoinPending'
<1> USE DEF JoinPending, OneClaim, Claimants, ClaimPcs, StageAgrees, ClaimAgrees,
   HandlesAgree, BorrowsJoin, WordOK, CallsOK, Outcomes, Handles, Flags, Pcs, PollPcs,
   FinishPcs, CompletePcs, JoinPcs, DetachPcs, vars, word, core, sched, user, join,
   Goto, Enter, Has
<1>a. CASE UNCHANGED vars
  BY <1>a
<1>b. CASE SpuriousJoinPoll
  BY <1>b DEF SpuriousJoinPoll
<1>c. ASSUME NEW t \in Threads, Progress(t) \/ RunLoop(t) \/ UserStep(t)
      PROVE  JoinPending'
  <2>1. CASE DropReference(t)
    BY <2>1 DEF DropReference, ReleaseRef, LastRef
  <2>2. CASE Dealloc(t)
    BY <2>2 DEF Dealloc, RefInc
  <2>3. CASE Schedule(t)
    BY <2>3 DEF Schedule
  <2>4. CASE TransitionToRunning(t)
    BY <2>4 DEF TransitionToRunning, EntryFinalizes
  <2>5. CASE LockStage(t)
    BY <2>5 DEF LockStage
  <2>6. CASE \E r \in Outcomes \ {"cancelled"} : PollReturns(t, r)
    BY <2>6 DEF PollReturns
  <2>7. CASE TransitionToIdle(t)
    BY <2>7 DEF TransitionToIdle, AfterIdle
  <2>8. CASE StoreResult(t)
    BY <2>8 DEF StoreResult
  <2>9. CASE TransitionToComplete(t)
    BY <2>9 DEF TransitionToComplete, JoinInterested
  <2>10. CASE WakeJoinHandle(t)
    BY <2>10 DEF WakeJoinHandle
  <2>11. CASE DiscardOutput(t)
    BY <2>11 DEF DiscardOutput
  <2>12. CASE TaskComplete(t)
    BY <2>12 DEF TaskComplete, RefWithoutRegistry, GiveBack
  <2>13. CASE StoreJoinWaker(t)
    BY <2>13 DEF StoreJoinWaker
  <2>14. CASE SetJoinWaker(t)
    BY <2>14 DEF SetJoinWaker, JoinTooLate, GiveBack
  <2>15. CASE SelfWakeJoin(t)
    BY <2>15 DEF SelfWakeJoin, GiveBack
  <2>16. CASE ClearJoinWaker(t)
    BY <2>16 DEF ClearJoinWaker
  <2>17. CASE RunEntry(t)
    BY <2>17 DEF RunEntry
  <2>18. CASE RunDeferred(t)
    BY <2>18 DEF RunDeferred
  <2>19. CASE CloneContextWaker(t)
    BY <2>19 DEF CloneContextWaker, RefInc
  <2>20. CASE WakeSelf(t)
    BY <2>20 DEF WakeSelf, Notified, WakeIsNoOp, WakeMeans
  <2>21. CASE WakeByVal(t)
    BY <2>21 DEF WakeByVal, Notified, WakeIsNoOp, WakeMeans
  <2>22. CASE WakeByRef(t)
    BY <2>22 DEF WakeByRef, Notified, WakeIsNoOp, WakeMeans, RefInc
  <2>23. CASE CloneWaker(t)
    BY <2>23 DEF CloneWaker, RefInc
  <2>24. CASE DropWaker(t)
    BY <2>24 DEF DropWaker, ReleaseRef, LastRef
  <2>25. CASE NewAbortHandle(t)
    BY <2>25 DEF NewAbortHandle, RefInc
  <2>26. CASE DropAbortHandle(t)
    BY <2>26 DEF DropAbortHandle, ReleaseRef, LastRef
  <2>27. CASE \E h \in {"abort", "join"} : Abort(t, h)
    BY <2>27 DEF Abort, AbortDefers
  <2>28. CASE JoinPoll(t)
    BY <2>28 DEF JoinPoll
  <2>29. CASE DropJoinHandle(t)
    BY <2>29 DEF DropJoinHandle
  <2> QED BY <1>c, <2>1, <2>2, <2>3, <2>4, <2>5, <2>6, <2>7, <2>8, <2>9, <2>10, <2>11,
     <2>12, <2>13, <2>14, <2>15, <2>16, <2>17, <2>18, <2>19, <2>20, <2>21, <2>22, <2>23,
     <2>24, <2>25, <2>26, <2>27, <2>28, <2>29 DEF Progress, RunLoop, UserStep
<1> QED BY <1>a, <1>b, <1>c DEF Next

(* A wake stays with the queue entry, its submitter or NOTIFIED until a poll begins. *)
LEMMA WakeStep ==
  ASSUME WordOK, CallsOK, SwitchesOK, HandlesAgree, OneClaim, StageAgrees, ClaimAgrees, WakeNotLost, [Next]_vars
  PROVE  WakeNotLost'
<1> USE DEF WakeNotLost, WakeMeans, OneClaim, Claimants, ClaimPcs, StageAgrees,
   ClaimAgrees, HandlesAgree, BorrowsJoin, WordOK, CallsOK, Outcomes, Handles, Flags,
   Pcs, PollPcs, FinishPcs, CompletePcs, JoinPcs, DetachPcs, vars, word, core, sched,
   user, join, Goto, Enter, Has
<1>a. CASE UNCHANGED vars
  BY <1>a
<1>b. CASE SpuriousJoinPoll
  BY <1>b DEF SpuriousJoinPoll
<1>c. ASSUME NEW t \in Threads, Progress(t) \/ RunLoop(t) \/ UserStep(t)
      PROVE  WakeNotLost'
  <2>1. CASE DropReference(t)
    BY <2>1 DEF DropReference, ReleaseRef, LastRef
  <2>2. CASE Dealloc(t)
    BY <2>2 DEF Dealloc, RefInc
  <2>3. CASE Schedule(t)
    BY <2>3 DEF Schedule
  <2>4. CASE TransitionToRunning(t)
    <3>1. CASE Has("COMPLETE") \/ Has("CANCELLED")
      <4>1. flags' = flags
        BY <2>4, <3>1 DEF TransitionToRunning
      <4> QED BY <3>1, <4>1
    <3>2. CASE ~Has("COMPLETE") /\ ~Has("CANCELLED")
      <4>1. ~Has("RUNNING")
        BY <2>4 DEF TransitionToRunning
      <4>2. due' = FALSE
        BY <2>4, <3>2, <4>1 DEF TransitionToRunning
      <4> QED BY <4>2
    <3> QED BY <3>1, <3>2
  <2>5. CASE LockStage(t)
    BY <2>5 DEF LockStage
  <2>6. CASE \E r \in Outcomes \ {"cancelled"} : PollReturns(t, r)
    BY <2>6 DEF PollReturns
  <2>7. CASE TransitionToIdle(t)
    BY <2>7 DEF TransitionToIdle, AfterIdle
  <2>8. CASE StoreResult(t)
    BY <2>8 DEF StoreResult
  <2>9. CASE TransitionToComplete(t)
    BY <2>9 DEF TransitionToComplete, JoinInterested
  <2>10. CASE WakeJoinHandle(t)
    BY <2>10 DEF WakeJoinHandle
  <2>11. CASE DiscardOutput(t)
    BY <2>11 DEF DiscardOutput
  <2>12. CASE TaskComplete(t)
    BY <2>12 DEF TaskComplete, RefWithoutRegistry, GiveBack
  <2>13. CASE StoreJoinWaker(t)
    BY <2>13 DEF StoreJoinWaker
  <2>14. CASE SetJoinWaker(t)
    BY <2>14 DEF SetJoinWaker, JoinTooLate, GiveBack
  <2>15. CASE SelfWakeJoin(t)
    BY <2>15 DEF SelfWakeJoin, GiveBack
  <2>16. CASE ClearJoinWaker(t)
    BY <2>16 DEF ClearJoinWaker
  <2>17. CASE RunEntry(t)
    BY <2>17 DEF RunEntry
  <2>18. CASE RunDeferred(t)
    BY <2>18 DEF RunDeferred
  <2>19. CASE CloneContextWaker(t)
    BY <2>19 DEF CloneContextWaker, RefInc
  <2>20. CASE WakeSelf(t)
    BY <2>20 DEF WakeSelf, Notified, WakeIsNoOp, WakeMeans
  <2>21. CASE WakeByVal(t)
    BY <2>21 DEF WakeByVal, Notified, WakeIsNoOp, WakeMeans
  <2>22. CASE WakeByRef(t)
    BY <2>22 DEF WakeByRef, Notified, WakeIsNoOp, WakeMeans, RefInc
  <2>23. CASE CloneWaker(t)
    BY <2>23 DEF CloneWaker, RefInc
  <2>24. CASE DropWaker(t)
    BY <2>24 DEF DropWaker, ReleaseRef, LastRef
  <2>25. CASE NewAbortHandle(t)
    BY <2>25 DEF NewAbortHandle, RefInc
  <2>26. CASE DropAbortHandle(t)
    BY <2>26 DEF DropAbortHandle, ReleaseRef, LastRef
  <2>27. CASE \E h \in {"abort", "join"} : Abort(t, h)
    BY <2>27 DEF Abort, AbortDefers
  <2>28. CASE JoinPoll(t)
    BY <2>28 DEF JoinPoll
  <2>29. CASE DropJoinHandle(t)
    BY <2>29 DEF DropJoinHandle
  <2> QED BY <1>c, <2>1, <2>2, <2>3, <2>4, <2>5, <2>6, <2>7, <2>8, <2>9, <2>10, <2>11,
     <2>12, <2>13, <2>14, <2>15, <2>16, <2>17, <2>18, <2>19, <2>20, <2>21, <2>22, <2>23,
     <2>24, <2>25, <2>26, <2>27, <2>28, <2>29 DEF Progress, RunLoop, UserStep
<1> QED BY <1>a, <1>b, <1>c DEF Next

(* A finished task keeps its outcome. *)
LEMMA OutcomeStep ==
  ASSUME WordOK, CallsOK, SwitchesOK, HandlesAgree, OneClaim, StageAgrees, ClaimAgrees, [Next]_vars
  PROVE  OutcomeKept
<1> USE DEF OutcomeKept, OneClaim, Claimants, ClaimPcs, StageAgrees, ClaimAgrees,
   HandlesAgree, BorrowsJoin, WordOK, CallsOK, Outcomes, Handles, Flags, Pcs, PollPcs,
   FinishPcs, CompletePcs, JoinPcs, DetachPcs, vars, word, core, sched, user, join,
   Goto, Enter, Has
<1>a. CASE UNCHANGED vars
  BY <1>a
<1>b. CASE SpuriousJoinPoll
  BY <1>b DEF SpuriousJoinPoll
<1>c. ASSUME NEW t \in Threads, Progress(t) \/ RunLoop(t) \/ UserStep(t)
      PROVE  OutcomeKept
  <2>1. CASE DropReference(t)
    BY <2>1 DEF DropReference, ReleaseRef, LastRef
  <2>2. CASE Dealloc(t)
    BY <2>2 DEF Dealloc, RefInc
  <2>3. CASE Schedule(t)
    BY <2>3 DEF Schedule
  <2>4. CASE TransitionToRunning(t)
    BY <2>4 DEF TransitionToRunning, EntryFinalizes
  <2>5. CASE LockStage(t)
    BY <2>5 DEF LockStage
  <2>6. CASE \E r \in Outcomes \ {"cancelled"} : PollReturns(t, r)
    BY <2>6 DEF PollReturns
  <2>7. CASE TransitionToIdle(t)
    BY <2>7 DEF TransitionToIdle, AfterIdle
  <2>8. CASE StoreResult(t)
    BY <2>8 DEF StoreResult
  <2>9. CASE TransitionToComplete(t)
    BY <2>9 DEF TransitionToComplete, JoinInterested
  <2>10. CASE WakeJoinHandle(t)
    BY <2>10 DEF WakeJoinHandle
  <2>11. CASE DiscardOutput(t)
    BY <2>11 DEF DiscardOutput
  <2>12. CASE TaskComplete(t)
    BY <2>12 DEF TaskComplete, RefWithoutRegistry, GiveBack
  <2>13. CASE StoreJoinWaker(t)
    BY <2>13 DEF StoreJoinWaker
  <2>14. CASE SetJoinWaker(t)
    BY <2>14 DEF SetJoinWaker, JoinTooLate, GiveBack
  <2>15. CASE SelfWakeJoin(t)
    BY <2>15 DEF SelfWakeJoin, GiveBack
  <2>16. CASE ClearJoinWaker(t)
    BY <2>16 DEF ClearJoinWaker
  <2>17. CASE RunEntry(t)
    BY <2>17 DEF RunEntry
  <2>18. CASE RunDeferred(t)
    BY <2>18 DEF RunDeferred
  <2>19. CASE CloneContextWaker(t)
    BY <2>19 DEF CloneContextWaker, RefInc
  <2>20. CASE WakeSelf(t)
    BY <2>20 DEF WakeSelf, Notified, WakeIsNoOp, WakeMeans
  <2>21. CASE WakeByVal(t)
    BY <2>21 DEF WakeByVal, Notified, WakeIsNoOp, WakeMeans
  <2>22. CASE WakeByRef(t)
    BY <2>22 DEF WakeByRef, Notified, WakeIsNoOp, WakeMeans, RefInc
  <2>23. CASE CloneWaker(t)
    BY <2>23 DEF CloneWaker, RefInc
  <2>24. CASE DropWaker(t)
    BY <2>24 DEF DropWaker, ReleaseRef, LastRef
  <2>25. CASE NewAbortHandle(t)
    BY <2>25 DEF NewAbortHandle, RefInc
  <2>26. CASE DropAbortHandle(t)
    BY <2>26 DEF DropAbortHandle, ReleaseRef, LastRef
  <2>27. CASE \E h \in {"abort", "join"} : Abort(t, h)
    BY <2>27 DEF Abort, AbortDefers
  <2>28. CASE JoinPoll(t)
    BY <2>28 DEF JoinPoll
  <2>29. CASE DropJoinHandle(t)
    BY <2>29 DEF DropJoinHandle
  <2> QED BY <1>c, <2>1, <2>2, <2>3, <2>4, <2>5, <2>6, <2>7, <2>8, <2>9, <2>10, <2>11,
     <2>12, <2>13, <2>14, <2>15, <2>16, <2>17, <2>18, <2>19, <2>20, <2>21, <2>22, <2>23,
     <2>24, <2>25, <2>26, <2>27, <2>28, <2>29 DEF Progress, RunLoop, UserStep
<1> QED BY <1>a, <1>b, <1>c DEF Next

-----------------------------------------------------------------------------
(* The inductive invariant *)

(* A freshly spawned task satisfies every part of IInv: three references for the *)
(* JoinHandle, the first queue entry and the registry.                            *)
LEMMA InitIInv == Init => IInv
<1> SUFFICES ASSUME Init PROVE IInv
  OBVIOUS
<1>1. WordOK
  BY DEF Init, WordOK, Flags
<1>2. CallsOK
  BY DEF Init, CallsOK, Outcomes, Pcs, Handles
<1>3. SwitchesOK
  BY DEF Init, SwitchesOK
<1>4. HandlesAgree
  BY DEF Init, HandlesAgree, BorrowsJoin, PollPcs, FinishPcs, CompletePcs, JoinPcs, DetachPcs
<1>5. OneClaim /\ StageAgrees /\ ClaimAgrees
  BY NoThreadIsNone DEF Init, OneClaim, Claimants, ClaimPcs, StageAgrees, ClaimAgrees,
     PollPcs, FinishPcs, CompletePcs, Has
<1>6. RefCountExact
  <2>1. Callers = {}
    BY DEF Init, Callers
  <2>2. Cardinality(Callers) = 0
    BY <2>1, FS_EmptySet
  <2> QED BY <2>2 DEF Init, RefCountExact, Refs, LiveRefs, JoinRef, RegistryRef
<1>7. DeathOnce /\ OutputPending /\ JoinPending /\ WakeNotLost
  BY DEF Init, DeathOnce, OutputPending, JoinPending, WakeNotLost, Has
<1> QED BY <1>1, <1>2, <1>3, <1>4, <1>5, <1>6, <1>7 DEF IInv, TypeOK

(* Every step of every thread preserves IInv. *)
LEMMA NextIInv == IInv /\ [Next]_vars => IInv'
<1> SUFFICES ASSUME IInv, [Next]_vars PROVE IInv'
  OBVIOUS
<1>0. /\ WordOK /\ CallsOK /\ SwitchesOK /\ HandlesAgree /\ OneClaim /\ StageAgrees
      /\ ClaimAgrees /\ RefCountExact /\ DeathOnce /\ OutputPending
      /\ JoinPending /\ WakeNotLost
  BY DEF IInv, TypeOK
<1>1. WordOK'
  BY <1>0, RefPositive, WordStep
<1>2. CallsOK' /\ SwitchesOK' /\ HandlesAgree'
  BY <1>0, CallsStep, SwitchesStep, HandlesStep
<1>3. OneClaim' /\ StageAgrees' /\ ClaimAgrees'
  BY <1>0, ClaimStep
<1>4. RefCountExact'
  BY <1>0, <1>1, RefStep
<1>5. DeathOnce'
  BY <1>0, <1>1, <1>2, <1>4, DeathStep
<1>6. OutputPending' /\ JoinPending' /\ WakeNotLost'
  BY <1>0, OutputStep, JoinStep, WakeStep
<1> QED BY <1>1, <1>2, <1>3, <1>4, <1>5, <1>6 DEF IInv, TypeOK

(* IInv holds in every state the task can be in. *)
THEOREM Invariance == Spec => []IInv
BY InitIInv, NextIInv, PTL DEF Spec

-----------------------------------------------------------------------------
(* What follows from it *)

(* Every field of the Cell, its handles and its queue entries stays in its type: *)
(* in particular no reference count and no handle count ever underflows.          *)
THEOREM TypeCorrect == Spec => []TypeOK
<1>1. IInv => TypeOK
  BY DEF IInv
<1> QED BY <1>1, Invariance, PTL

(* The reference count packed in the state word is exactly the number of handles, *)
(* queue entries, calls under way and registry entries that hold a reference.     *)
THEOREM RefCountIsExact == Spec => []RefCountExact
<1>1. IInv => RefCountExact
  BY DEF IInv
<1> QED BY <1>1, Invariance, PTL

(* A task is in at most one queue, polled by at most one thread and finalized by  *)
(* at most one, and the word says exactly when such a claim exists.               *)
THEOREM ClaimIsUnique == Spec => []OneClaim
<1>1. IInv => OneClaim
  BY DEF IInv
<1> QED BY <1>1, Invariance, PTL

(* harness::poll and harness::finalize never meet a stage they call unreachable.  *)
THEOREM StageIsExpected == Spec => []StageAgrees
<1>1. IInv => StageAgrees
  BY DEF IInv
<1> QED BY <1>1, Invariance, PTL

(* Exactly one of the completing thread and JoinHandle::drop discards the output. *)
THEOREM OutputIsReclaimed == Spec => []OutputReclaimed
<1>1. IInv => OutputReclaimed
  BY DEF IInv, TypeOK, CallsOK, StageAgrees, OutputPending, OutputReclaimed, Has
<1> QED BY <1>1, Invariance, PTL

(* The Cell is deallocated only when nothing can reach it, after the future and    *)
(* the output are gone.                                                            *)
THEOREM FreedUnreachable == Spec => []NoUseAfterFree
<1>1. IInv => NoUseAfterFree
  <2> SUFFICES ASSUME IInv, freed PROVE NoUseAfterFree
    BY DEF NoUseAfterFree
  <2>1. LiveRefs = 0 /\ deferred = 0
    BY DEF IInv, DeathOnce
  <2>2. joinHandle # "held" /\ ~registered /\ \A t \in Threads : via[t] = "none"
    BY <2>1, LiveRefsCount DEF IInv, TypeOK
  <2>3. \A t \in Threads : pc[t] = "idle"
    BY <2>2 DEF IInv, HandlesAgree, DeathOnce
  <2>4. joinHandle = "gone"
    BY <2>2 DEF IInv, TypeOK, CallsOK, HandlesAgree, BorrowsJoin
  <2>5. Has("COMPLETE")
    BY <2>2 DEF IInv, OutputPending
  <2>6. stage = "Consumed"
    BY <2>3, <2>4, <2>5 DEF IInv, TypeOK, CallsOK, StageAgrees, OutputPending
  <2> QED BY <2>1, <2>3, <2>5, <2>6 DEF NoUseAfterFree, Refs
<1> QED BY <1>1, Invariance, PTL

(* No lost wakeup: from the moment a wake arrives until the next poll begins, a    *)
(* queue entry, its submitter or the poll under way carries it.                    *)
THEOREM WakeIsCarried == Spec => []WakeNotLost
<1>1. IInv => WakeNotLost
  BY DEF IInv
<1> QED BY <1>1, Invariance, PTL

(* A JoinHandle waiting on a task whose future is gone will still be woken: its     *)
(* waker is in the trailer and the completing thread has not looked there yet.      *)
THEOREM JoinIsNotStranded == Spec => []JoinNotStranded
<1>1. IInv => JoinNotStranded
  BY DEF IInv, TypeOK, CallsOK, HandlesAgree, BorrowsJoin, ClaimAgrees, JoinPending,
     JoinNotStranded, JoinPcs, Has
<1> QED BY <1>1, Invariance, PTL

(* No step changes the outcome of a finished task or reopens a completed one.       *)
THEOREM OutcomeIsStable == Spec => OutcomeStable
<1>1. IInv /\ [Next]_vars => [OutcomeKept]_vars
  BY OutcomeStep DEF IInv, TypeOK
<1> QED BY <1>1, Invariance, PTL DEF Spec, OutcomeStable

-----------------------------------------------------------------------------
(* The task keeps the promise of TaskPromise: its safety part, step by step. *)

(* Every step keeps what the refinement needs to know of the data. *)
LEMMA PromiseDataStep ==
  ASSUME WordOK, CallsOK, SwitchesOK, HandlesAgree, OneClaim, StageAgrees, ClaimAgrees,
         PromiseAgrees, [Next]_vars
  PROVE  PromiseAgrees'
<1> USE DEF PromiseAgrees, OneClaim, Claimants, ClaimPcs, StageAgrees, ClaimAgrees,
   HandlesAgree, BorrowsJoin, WordOK, CallsOK, SwitchesOK, Outcomes, Handles, Flags, Pcs, PollPcs,
   FinishPcs, CompletePcs, JoinPcs, DetachPcs, vars, word, core, sched, user, join,
   Goto, Enter, Has
<1>a. CASE UNCHANGED vars
  BY <1>a
<1>b. CASE SpuriousJoinPoll
  BY <1>b DEF SpuriousJoinPoll
<1>c. ASSUME NEW t \in Threads, Progress(t) \/ RunLoop(t) \/ UserStep(t)
      PROVE  PromiseAgrees'
  <2>1. CASE DropReference(t)
    BY <2>1 DEF DropReference, ReleaseRef, LastRef
  <2>2. CASE Dealloc(t)
    BY <2>2 DEF Dealloc, RefInc
  <2>3. CASE Schedule(t)
    BY <2>3 DEF Schedule
  <2>4. CASE TransitionToRunning(t)
    BY <2>4 DEF TransitionToRunning, EntryFinalizes
  <2>5. CASE LockStage(t)
    BY <2>5 DEF LockStage
  <2>6. CASE \E r \in Outcomes \ {"cancelled"} : PollReturns(t, r)
    BY <2>6 DEF PollReturns
  <2>7. CASE TransitionToIdle(t)
    BY <2>7 DEF TransitionToIdle, AfterIdle
  <2>8. CASE StoreResult(t)
    BY <2>8 DEF StoreResult
  <2>9. CASE TransitionToComplete(t)
    BY <2>9 DEF TransitionToComplete, JoinInterested
  <2>10. CASE WakeJoinHandle(t)
    BY <2>10 DEF WakeJoinHandle
  <2>11. CASE DiscardOutput(t)
    BY <2>11 DEF DiscardOutput
  <2>12. CASE TaskComplete(t)
    BY <2>12 DEF TaskComplete, RefWithoutRegistry, GiveBack
  <2>13. CASE StoreJoinWaker(t)
    BY <2>13 DEF StoreJoinWaker
  <2>14. CASE SetJoinWaker(t)
    BY <2>14 DEF SetJoinWaker, JoinTooLate, GiveBack
  <2>15. CASE SelfWakeJoin(t)
    BY <2>15 DEF SelfWakeJoin, GiveBack
  <2>16. CASE ClearJoinWaker(t)
    BY <2>16 DEF ClearJoinWaker
  <2>17. CASE RunEntry(t)
    BY <2>17 DEF RunEntry
  <2>18. CASE RunDeferred(t)
    BY <2>18 DEF RunDeferred
  <2>19. CASE CloneContextWaker(t)
    BY <2>19 DEF CloneContextWaker, RefInc
  <2>20. CASE WakeSelf(t)
    BY <2>20 DEF WakeSelf, Notified, WakeIsNoOp, WakeMeans
  <2>21. CASE WakeByVal(t)
    <3>1. (Has("NOTIFIED") => due)'
      BY <2>21, Zenon DEF WakeByVal, Notified, WakeIsNoOp, WakeMeans
    <3>2. /\ flags \subseteq flags' /\ flags' \subseteq flags \cup {"NOTIFIED"}
          /\ UNCHANGED <<stage, result, output, joinHandle>>
          /\ \A u \in Threads : pc'[u] = pc[u] \/ pc'[u] \in {"drop", "submit"}
      BY <2>21 DEF WakeByVal, Notified, WakeIsNoOp
    <3> QED BY <3>1, <3>2
  <2>22. CASE WakeByRef(t)
    <3>1. (Has("NOTIFIED") => due)'
      BY <2>22, Zenon DEF WakeByRef, Notified, WakeIsNoOp, WakeMeans
    <3>2. /\ flags \subseteq flags' /\ flags' \subseteq flags \cup {"NOTIFIED"}
          /\ UNCHANGED <<stage, result, output, joinHandle>>
          /\ \A u \in Threads : pc'[u] = pc[u] \/ pc'[u] \in {"drop", "submit"}
      BY <2>22 DEF WakeByRef, Notified, WakeIsNoOp
    <3> QED BY <3>1, <3>2
  <2>23. CASE CloneWaker(t)
    BY <2>23 DEF CloneWaker, RefInc
  <2>24. CASE DropWaker(t)
    BY <2>24 DEF DropWaker, ReleaseRef, LastRef
  <2>25. CASE NewAbortHandle(t)
    BY <2>25 DEF NewAbortHandle, RefInc
  <2>26. CASE DropAbortHandle(t)
    BY <2>26 DEF DropAbortHandle, ReleaseRef, LastRef
  <2>27. CASE \E h \in {"abort", "join"} : Abort(t, h)
    BY <2>27 DEF Abort, AbortDefers
  <2>28. CASE JoinPoll(t)
    BY <2>28 DEF JoinPoll
  <2>29. CASE DropJoinHandle(t)
    BY <2>29 DEF DropJoinHandle
  <2> QED BY <1>c, <2>1, <2>2, <2>3, <2>4, <2>5, <2>6, <2>7, <2>8, <2>9, <2>10, <2>11,
     <2>12, <2>13, <2>14, <2>15, <2>16, <2>17, <2>18, <2>19, <2>20, <2>21, <2>22, <2>23,
     <2>24, <2>25, <2>26, <2>27, <2>28, <2>29 DEF Progress, RunLoop, UserStep
<1> QED BY <1>a, <1>b, <1>c DEF Next


(* A step that leaves the promise's data alone, whatever else it changes, is a *)
(* stutter of TaskPromise.                                                      *)
LEMMA PromiseSilent ==
  ASSUME UNCHANGED <<stage, output>>,
         stage = "Running" => due' = due /\ (Has("RUNNING") <=> Has("RUNNING")'),
         stage # "Running" => result' = result,
         Has("CANCELLED") <=> Has("CANCELLED")',
         Has("JOIN_INTEREST") <=> Has("JOIN_INTEREST")'
  PROVE  UNCHANGED Promise!vars
BY DEF Promise!vars, Has

(* The three ways to wake, through a clone, by reference and from inside the poll, *)
(* are the promise's Wake, or nothing once the task is finished or cancelled.      *)
LEMMA PromiseWake ==
  ASSUME SwitchesOK, StageAgrees, UNCHANGED <<stage, result, output>>,
         flags' = Notified, due' = (due \/ WakeMeans)
  PROVE  [Promise!Next]_(Promise!vars)
<1>1. \A f \in Flags \ {"NOTIFIED"} : Has(f) <=> Has(f)'
  BY DEF Notified, Has
<1>2. CASE stage = "Running" /\ WakeMeans
  <2>1. due' = TRUE
    BY <1>2
  <2>2. Promise!Wake
    BY <1>1, <1>2, <2>1 DEF Promise!Wake, WakeMeans, Has, Flags
  <2> QED BY <2>2 DEF Promise!Next
<1>3. CASE stage = "Running" /\ ~WakeMeans
  <2>1. due' = due
    BY <1>3, Zenon DEF SwitchesOK
  <2> QED BY <1>1, <1>3, <2>1, PromiseSilent DEF Flags
<1>4. CASE stage # "Running"
  BY <1>1, <1>4, PromiseSilent DEF Flags
<1> QED BY <1>2, <1>3, <1>4

(* Every step of the task is a step the promise allows, or none of its business. *)
LEMMA PromiseStep ==
  ASSUME CallsOK, SwitchesOK, HandlesAgree, OneClaim, StageAgrees, ClaimAgrees,
         OutputPending, PromiseAgrees, [Next]_vars
  PROVE  [Promise!Next]_(Promise!vars)
<1> USE DEF vars, word, core, sched, user, join, Goto, Enter
<1>a. CASE UNCHANGED vars \/ SpuriousJoinPoll
  BY <1>a, PromiseSilent DEF SpuriousJoinPoll, Has
<1>c. ASSUME NEW t \in Threads, Progress(t) \/ RunLoop(t) \/ UserStep(t)
      PROVE  [Promise!Next]_(Promise!vars)
  <2>1. CASE \/ DropReference(t) \/ Dealloc(t) \/ Schedule(t) \/ LockStage(t)
             \/ WakeJoinHandle(t) \/ TaskComplete(t) \/ StoreJoinWaker(t)
             \/ SelfWakeJoin(t) \/ RunLoop(t) \/ CloneContextWaker(t)
             \/ CloneWaker(t) \/ DropWaker(t) \/ NewAbortHandle(t) \/ DropAbortHandle(t)
    <3>1. UNCHANGED <<flags, stage, result, output, due>>
      BY <2>1 DEF DropReference, Dealloc, Schedule, LockStage, WakeJoinHandle, TaskComplete,
         StoreJoinWaker, SelfWakeJoin, RunLoop, RunEntry, RunDeferred, CloneContextWaker,
         CloneWaker, DropWaker, NewAbortHandle, DropAbortHandle
    <3> QED BY <3>1, PromiseSilent DEF Has
  <2>2. CASE TransitionToRunning(t)
    <3>1. stage = "Running" /\ ~Has("RUNNING") /\ due
      BY <2>2 DEF TransitionToRunning, ClaimAgrees, PromiseAgrees
    <3>2. CASE Has("COMPLETE") \/ Has("CANCELLED") \/ Has("RUNNING")
      BY <2>2, <3>1, <3>2, PromiseSilent DEF TransitionToRunning, Has
    <3>3. CASE ~(Has("COMPLETE") \/ Has("CANCELLED") \/ Has("RUNNING"))
      <4>1. /\ due' = FALSE /\ UNCHANGED <<stage, result, output>>
            /\ flags' = (flags \ {"NOTIFIED"}) \cup {"RUNNING"}
        BY <2>2, <3>3 DEF TransitionToRunning
      <4>2. Promise!Begin
        BY <3>1, <3>3, <4>1 DEF Promise!Begin, Has
      <4> QED BY <4>2 DEF Promise!Next
    <3> QED BY <3>2, <3>3
  <2>3. CASE \E r \in Outcomes \ {"cancelled"} : PollReturns(t, r)
    BY <2>3, PromiseSilent DEF PollReturns, StageAgrees, Has
  <2>4. CASE TransitionToIdle(t)
    <3>1. /\ stage = "Running" /\ Has("RUNNING") /\ UNCHANGED <<stage, output, due>>
          /\ flags' = flags \ {"RUNNING"}
      BY <2>4 DEF TransitionToIdle, StageAgrees, ClaimAgrees
    <3>2. Promise!Park
      BY <3>1 DEF Promise!Park, Has
    <3> QED BY <3>2 DEF Promise!Next, Promise!Settle
  <2>5. CASE StoreResult(t)
    <3>1. /\ stage = "Running" /\ stage' = "Finished" /\ UNCHANGED <<flags, result, output, due>>
          /\ IF result = "cancelled" THEN ~Has("RUNNING") /\ Has("CANCELLED") ELSE Has("RUNNING")
      BY <2>5 DEF StoreResult, StageAgrees, PromiseAgrees
    <3>2. result \in {"ok", "panic", "cancelled"}
      BY <2>5 DEF StoreResult, PromiseAgrees, CallsOK, Outcomes
    <3>3. Promise!Resolve(result)
      BY <3>1 DEF Promise!Resolve, Has
    <3> QED BY <3>2, <3>3 DEF Promise!Next, Promise!Settle
  <2>6. CASE TransitionToComplete(t)
    BY <2>6, PromiseSilent DEF TransitionToComplete, StageAgrees, Has
  <2>7. CASE DiscardOutput(t)
    <3>1. /\ stage' = IF stage = "Finished" THEN "Consumed" ELSE stage
          /\ UNCHANGED <<flags, result, output, due>>
          /\ ~Has("JOIN_INTEREST")
      BY <2>7 DEF DiscardOutput, PromiseAgrees, DetachPcs
    <3>2. CASE stage = "Finished"
      <4>1. output = "none"
        BY <3>2 DEF PromiseAgrees
      <4>2. Promise!Discard
        BY <3>1, <3>2, <4>1 DEF Promise!Discard, Has
      <4> QED BY <4>2 DEF Promise!Next
    <3>3. CASE stage # "Finished"
      BY <3>1, <3>3, PromiseSilent DEF Has
    <3> QED BY <3>2, <3>3
  <2>8. CASE SetJoinWaker(t) \/ ClearJoinWaker(t)
    <3>1. \A f \in {"RUNNING", "CANCELLED", "JOIN_INTEREST"} : Has(f) <=> Has(f)'
      BY <2>8 DEF SetJoinWaker, ClearJoinWaker, GiveBack, Has
    <3> QED BY <2>8, <3>1, PromiseSilent DEF SetJoinWaker, ClearJoinWaker
  <2>9. CASE WakeSelf(t) \/ WakeByVal(t) \/ WakeByRef(t)
    BY <2>9, PromiseWake DEF WakeSelf, WakeByVal, WakeByRef
  <2>10. CASE \E h \in {"abort", "join"} : Abort(t, h)
    <3>1. /\ UNCHANGED <<stage, output, due>> /\ flags' = flags \cup {"CANCELLED"}
          /\ AbortDefers => result' = result
      BY <2>10 DEF Abort
    <3>2. ~AbortDefers => stage = "Running"
      BY DEF AbortDefers, ClaimAgrees, OneClaim, Claimants, ClaimPcs, FinishPcs
    <3>3. Promise!Cancel
      BY <3>1, <3>2 DEF Promise!Cancel, Has
    <3> QED BY <3>3 DEF Promise!Next
  <2>11. CASE JoinPoll(t)
    <3>1. CASE stage = "Finished"
      <4>1. /\ stage' = "Consumed" /\ output' = result /\ UNCHANGED <<flags, result, due>>
            /\ result # "none" /\ output = "none" /\ Has("JOIN_INTEREST")
        BY <2>11, <3>1 DEF JoinPoll, PromiseAgrees, OutputPending
      <4>2. Promise!Read
        BY <3>1, <4>1 DEF Promise!Read, Has
      <4> QED BY <4>2 DEF Promise!Next
    <3>2. CASE stage # "Finished"
      BY <2>11, <3>2, PromiseSilent DEF JoinPoll, Has
    <3> QED BY <3>1, <3>2
  <2>12. CASE DropJoinHandle(t)
    <3>1. /\ UNCHANGED <<stage, result, output, due>> /\ flags' = flags \ {"JOIN_INTEREST"}
          /\ output = "none"
      BY <2>12 DEF DropJoinHandle, PromiseAgrees
    <3>2. Promise!Detach
      BY <3>1 DEF Promise!Detach, Has
    <3> QED BY <3>2 DEF Promise!Next
  <2> QED BY <1>c, <2>1, <2>2, <2>3, <2>4, <2>5, <2>6, <2>7, <2>8, <2>9, <2>10, <2>11,
     <2>12 DEF Progress, UserStep
<1> QED BY <1>a, <1>c DEF Next

(* The data part of the refinement's invariant holds throughout. *)
LEMMA PromiseData == Spec => []PromiseAgrees
<1>1. Init => PromiseAgrees
  BY DEF Init, PromiseAgrees, DetachPcs
<1>2. IInv /\ PromiseAgrees /\ [Next]_vars => PromiseAgrees'
  BY PromiseDataStep DEF IInv, TypeOK
<1> QED BY <1>1, <1>2, Invariance, PTL DEF Spec

(* The task of task/state.rs and task/harness.rs implements TaskPromise, fairness  *)
(* aside: a poll begins only when one is due, one poll runs at a time, a cancelled  *)
(* outcome needs a request to cancel, the outcome is stored once, and it is read by *)
(* an interested JoinHandle or discarded after that handle is gone.                 *)
THEOREM TaskImplementsPromise == Spec => Promise!Allowed
<1>1. Init => Promise!Init
  BY DEF Init, Promise!Init, Has
<1>2. IInv /\ PromiseAgrees /\ [Next]_vars => [Promise!Next]_(Promise!vars)
  BY PromiseStep DEF IInv, TypeOK
<1> QED BY <1>1, <1>2, Invariance, PromiseData, PTL DEF Spec, Promise!Allowed

=============================================================================
