-------------------------- MODULE FuturesUnordered --------------------------
(***************************************************************************)
(* future/unordered.rs and future/join_set.rs: a set of futures polled by    *)
(* one task.  Each member has its own waker, which queues the member and     *)
(* then wakes the task, under two locks; the owner polls only queued members. *)
(* The members' futures, and the threads that complete them, are external.   *)
(***************************************************************************)
EXTENDS Integers, Sequences, FiniteSets, SequencesExt

CONSTANTS
  Members,  \* futures, each pushed at most once
  Coop,     \* members that spend the cooperative budget (coop.rs)
  Budget    \* BUDGET: operations of one poll of the task

VARIABLES
  entries,  \* FuturesUnordered::entries
  ready,    \* Shared::ready
  outer,    \* Shared::outer holds the task's waker
  holder,   \* the owner: pc, the budget left in this poll, the task was woken
  member,   \* per member: its future ("unborn", "waiting", "done", "out", "dropped"), its
            \* registered waker, and the waker call under way ("no", "push", "take")
  arcs      \* history: members of which an EntryWake was leaked

vars == <<entries, ready, outer, holder, member, arcs>>

Init ==
  /\ entries = {} /\ ready = <<>> /\ outer = FALSE /\ arcs = {}
  /\ holder = [pc |-> "idle", budget |-> 0, woken |-> FALSE]
  /\ member = [m \in Members |-> [fut |-> "unborn", registered |-> FALSE, waking |-> "no"]]

-----------------------------------------------------------------------------
(* The owner, between polls (&mut self). *)
Free == holder.pc \in {"idle", "pending"}

push(m) ==
  /\ Free /\ member[m].fut = "unborn"
  /\ ready' = Append(ready, m) /\ entries' = entries \cup {m}
  /\ member' = [member EXCEPT ![m].fut = "waiting"] /\ holder' = [holder EXCEPT !.pc = "idle"]
  /\ UNCHANGED <<outer, arcs>>

JoinSet_spawn(m) == push(m)

(* The futures are dropped first, the queue is emptied after them. *)
clear ==
  /\ Free /\ entries # {} /\ entries' = {}
  /\ member' = [m \in Members |-> IF m \in entries THEN [member[m] EXCEPT !.fut = "dropped", !.registered = FALSE]
                                 ELSE member[m]]
  /\ holder' = [holder EXCEPT !.pc = "clearing"]
  /\ UNCHANGED <<ready, outer, arcs>>

ClearReady ==
  /\ holder.pc = "clearing" /\ ready' = <<>> /\ holder' = [holder EXCEPT !.pc = "idle"]
  /\ UNCHANGED <<entries, outer, member, arcs>>

(* Aborting a member lets its JoinHandle resolve, which is Event and may happen at any *)
(* time; then the handles are dropped with the set.                                    *)
JoinSet_abort_all == clear

-----------------------------------------------------------------------------
(* poll_next_inner: leave the task's waker, then poll queued members to the first *)
(* that is ready.  The task's poll is a new one, with a full budget, or the one that *)
(* called poll_next before.                                                          *)
PollBegin ==
  /\ Free /\ outer' = TRUE
  /\ \/ holder' = [pc |-> "poll", budget |-> Budget, woken |-> FALSE]
     \/ holder' = [holder EXCEPT !.pc = "poll"]
  /\ UNCHANGED <<entries, ready, member, arcs>>

PollEmpty ==
  /\ holder.pc = "poll" /\ ready = <<>>
  /\ holder' = [holder EXCEPT !.pc = IF entries = {} THEN "idle" ELSE "pending"]
  /\ UNCHANGED <<entries, ready, outer, member, arcs>>

PollStale ==
  /\ holder.pc = "poll" /\ ready # <<>> /\ Head(ready) \notin entries /\ ready' = Tail(ready)
  /\ UNCHANGED <<entries, outer, holder, member, arcs>>

(* A member that is out of budget wakes itself: it is queued again at once. *)
OutOfBudget(m) == m \in Coop /\ holder.budget = 0
Spent(m) == IF m \in Coop THEN holder.budget - 1 ELSE holder.budget

PollMember ==
  /\ holder.pc = "poll" /\ ready # <<>>
  /\ LET m == Head(ready) IN
     /\ m \in entries
     /\ \/ /\ OutOfBudget(m) /\ ready' = Append(Tail(ready), m)
           /\ outer' = FALSE /\ holder' = [holder EXCEPT !.woken = @ \/ outer]
           /\ UNCHANGED <<entries, member>>
        \/ /\ ~OutOfBudget(m) /\ member[m].fut = "done"
           /\ entries' = entries \ {m} /\ ready' = Tail(ready)
           /\ member' = [member EXCEPT ![m].fut = "out", ![m].registered = FALSE]
           /\ holder' = [holder EXCEPT !.pc = "idle"] /\ UNCHANGED outer
        \/ /\ ~OutOfBudget(m) /\ member[m].fut = "waiting"
           /\ member' = [member EXCEPT ![m].registered = TRUE] /\ ready' = Tail(ready)
           /\ holder' = [holder EXCEPT !.budget = Spent(m)] /\ UNCHANGED <<entries, outer>>
  /\ UNCHANGED arcs

-----------------------------------------------------------------------------
(* The thread a member waits for: it may complete it, and calls its waker. *)
Event(m) ==
  /\ member[m].fut = "waiting" /\ member[m].waking = "no"
  /\ \E fut \in {"waiting", "done"} :
       /\ fut = "done" \/ member[m].registered
       /\ member' = [member EXCEPT ![m] = [fut |-> fut, registered |-> FALSE,
                                           waking |-> IF member[m].registered THEN "push" ELSE "no"]]
  /\ UNCHANGED <<entries, ready, outer, holder, arcs>>

(* EntryWake::wake *)
WakePush(m) ==
  /\ member[m].waking = "push"
  /\ ready' = Append(ready, m) /\ member' = [member EXCEPT ![m].waking = "take"]
  /\ UNCHANGED <<entries, outer, holder, arcs>>

TakesOuter_Never == FALSE
TakesOuter == outer

(* entry_wake_wake (by value) forgets the reference it was given; by reference there *)
(* is none to drop.                                                                  *)
WakeTake(m) ==
  /\ member[m].waking = "take" /\ member' = [member EXCEPT ![m].waking = "no"]
  /\ outer' = FALSE /\ holder' = [holder EXCEPT !.woken = @ \/ TakesOuter]
  /\ arcs' \in {arcs, arcs \cup {m}}
  /\ UNCHANGED <<entries, ready>>

Next ==
  \/ \E m \in Members : push(m) \/ JoinSet_spawn(m) \/ Event(m) \/ WakePush(m) \/ WakeTake(m)
  \/ clear \/ JoinSet_abort_all \/ ClearReady \/ PollBegin \/ PollEmpty \/ PollStale \/ PollMember

Spec == Init /\ [][Next]_vars
FairSpec == Spec /\ WF_vars(PollEmpty \/ PollStale \/ PollMember)

-----------------------------------------------------------------------------
(* MemberReaches: the task does not stay asleep beside a queued member: the wake that *)
(* queued it has called the task's waker, or is about to and finds it there.          *)
MemberReaches ==
  holder.pc = "pending" /\ ToSet(ready) \cap entries # {} =>
    holder.woken \/ (outer /\ \E m \in Members : member[m].waking = "take")

(* NothingForgotten: a finished member that is still in the set is queued or about to *)
(* be, whatever clears, stale entries and spurious wakes went before.                 *)
NothingForgotten ==
  \A m \in entries : member[m].fut = "done" => m \in ToSet(ready) \/ member[m].waking = "push"

UnorderedSound == MemberReaches /\ NothingForgotten

(* The code does not keep the following ones. *)

(* PollReturns: a poll of the set ends when no other thread goes on waking.  Members *)
(* out of budget queue themselves again inside the loop, which never yields to the      *)
(* scheduler that would refill the budget.                                              *)
WakesStop == <>[][\A m \in Members : ~WakePush(m)]_vars
PollReturns == WakesStop => (holder.pc = "poll" ~> holder.pc # "poll")

(* WakersFreed: no EntryWake outlives its wakers. *)
WakersFreed == arcs = {}
=============================================================================
