----------------------------- MODULE StealQueue -----------------------------
(***************************************************************************)
(* The local run queue of a worker (scheduler/multi_thread/queue.rs): its   *)
(* owner pushes and pops at the tail, thieves reserve ranges at the head    *)
(* with one compare-exchange, copy them out and commit in order.  Every     *)
(* access to head, tail or a slot is one step, in sequentially consistent   *)
(* order.  Indices wrap at IndexMod as the code's wrap at 2^32.             *)
(***************************************************************************)
EXTENDS Integers, FiniteSets

CONSTANTS
  Owner,     \* the worker the queue belongs to
  Thieves,   \* the other workers
  Cap,       \* CAP: slots of the buffer, a power of two
  IndexMod,  \* the width of an index, a multiple of Cap
  Start,     \* the index an emptied queue stands at
  Rooms,     \* the free space a thief may have in its own queue
  MaxItems,  \* bound: pushes in a behaviour
  MaxQueued  \* bound: items queued when a push begins

ASSUME OwnerIsNoThief == Owner \notin Thieves
ASSUME CapDividesIndex == Cap \in Nat \ {0} /\ IndexMod \in Nat /\ IndexMod % Cap = 0
ASSUME CapFitsIndex == Cap + 1 < IndexMod
ASSUME StartIsIndex == Start \in 0 .. IndexMod - 1
ASSUME RoomsAndBounds == Rooms \subseteq Nat /\ MaxItems \in Nat /\ MaxQueued \in Nat

Workers == Thieves \cup {Owner}
Items   == 1 .. MaxItems
Index   == 0 .. IndexMod - 1
NoItem  == 0

VARIABLES
  head,     \* the packed word: [steal, real]
  tail,     \* index after the youngest item
  buffer,   \* slot -> what was last written there
  pc,       \* per worker: position in its call
  snap,     \* per worker: the head word its call last loaded
  count,    \* per worker: items of its claim
  copied,   \* per worker: items of its claim already copied
  pending,  \* the item the owner is pushing, or NoItem
  pushed,   \* items pushed so far; the next one is pushed + 1
  taken     \* history: how often each item was moved out of the queue

vars == <<head, tail, buffer, pc, snap, count, copied, pending, pushed, taken>>

Word(s, r) == [steal |-> s, real |-> r]
Sub(a, b)  == (a - b + IndexMod) % IndexMod
Add(a, n)  == (a + n) % IndexMod
Slot(i)    == i % Cap
Available(w) == Sub(tail, w.steal)

Init ==
  /\ head = Word(Start, Start) /\ tail = Start
  /\ buffer = [i \in 0 .. Cap - 1 |-> NoItem]
  /\ pc = [w \in Workers |-> "idle"]
  /\ snap = [w \in Workers |-> Word(Start, Start)]
  /\ count = [w \in Workers |-> 0] /\ copied = [w \in Workers |-> 0]
  /\ pending = NoItem /\ pushed = 0
  /\ taken = [i \in Items |-> 0]

Goto(w, p) == pc' = [pc EXCEPT ![w] = p]
Load(w)    == snap' = [snap EXCEPT ![w] = head]
Take(i)    == taken' = IF i \in Items THEN [taken EXCEPT ![i] = @ + 1] ELSE taken
claim == <<count, copied>>

-----------------------------------------------------------------------------
(* push_overflow, whose fast path is push_back *)

(* The queue is full up to the committed head: a claimed range still counts. *)
Full_IgnoresClaims == Available(head) >= Cap
Full == Sub(tail, head.real) >= Cap

Push ==
  /\ pc[Owner] = "idle" /\ pushed < MaxItems
  /\ Sub(tail, head.real) <= MaxQueued
  /\ pending' = pushed + 1 /\ pushed' = pushed + 1
  /\ Goto(Owner, "pushBack")
  /\ UNCHANGED <<head, tail, buffer, snap, claim, taken>>

(* A full queue makes the owner steal its own older half and try again. *)
PushBack ==
  /\ pc[Owner] = "pushBack"
  /\ Goto(Owner, IF Full THEN "stealHead" ELSE "writeSlot")
  /\ UNCHANGED <<head, tail, buffer, snap, claim, pending, pushed, taken>>

WriteSlot ==
  /\ pc[Owner] = "writeSlot"
  /\ buffer' = [buffer EXCEPT ![Slot(tail)] = pending]
  /\ pending' = NoItem
  /\ Goto(Owner, "publish")
  /\ UNCHANGED <<head, tail, snap, claim, pushed, taken>>

Publish ==
  /\ pc[Owner] = "publish"
  /\ tail' = Add(tail, 1)
  /\ Goto(Owner, "idle")
  /\ UNCHANGED <<head, buffer, snap, claim, pending, pushed, taken>>

-----------------------------------------------------------------------------
(* pop *)

Pop ==
  /\ pc[Owner] = "idle" /\ tail # head.steal
  /\ Goto(Owner, "withdraw")
  /\ UNCHANGED <<head, tail, buffer, snap, claim, pending, pushed, taken>>

Withdraw ==
  /\ pc[Owner] = "withdraw"
  /\ tail' = Sub(tail, 1)
  /\ Goto(Owner, "recheck")
  /\ UNCHANGED <<head, buffer, snap, claim, pending, pushed, taken>>

(* available, counted from the tail before the withdrawal *)
Remaining(w) == Sub(Add(tail, 1), w.steal)

(* An empty queue or a claim in flight makes the pop give up. *)
PopYields == Remaining(head) = 0 \/ head.real # head.steal

LastItem_Unguarded == FALSE
LastItem == Remaining(head) = 1

Recheck ==
  /\ pc[Owner] = "recheck"
  /\ Load(Owner)
  /\ Goto(Owner, IF PopYields THEN "restore" ELSE IF LastItem THEN "claimLast" ELSE "popSlot")
  /\ UNCHANGED <<head, tail, buffer, claim, pending, pushed, taken>>

(* The last item is claimed through the head word, against thieves. *)
ClaimLast ==
  /\ pc[Owner] = "claimLast"
  /\ IF head = snap[Owner]
     THEN head' = Word(Add(head.steal, 1), Add(head.real, 1)) /\ Goto(Owner, "keepTail")
     ELSE Goto(Owner, "restore") /\ UNCHANGED head
  /\ UNCHANGED <<tail, buffer, snap, claim, pending, pushed, taken>>

(* Both put the tail back: after a failed pop the item stays, after a final one *)
(* the emptied queue stands at tail = head.                                     *)
RestoreTail ==
  /\ pc[Owner] \in {"restore", "keepTail"}
  /\ tail' = Add(tail, 1)
  /\ Goto(Owner, IF pc[Owner] = "restore" THEN "idle" ELSE "popLast")
  /\ UNCHANGED <<head, buffer, snap, claim, pending, pushed, taken>>

PopSlot ==
  /\ pc[Owner] \in {"popSlot", "popLast"}
  /\ Take(buffer[Slot(IF pc[Owner] = "popSlot" THEN tail ELSE Sub(tail, 1))])
  /\ Goto(Owner, "idle")
  /\ UNCHANGED <<head, tail, buffer, snap, claim, pending, pushed>>

-----------------------------------------------------------------------------
(* steal_into, by a thief or by an owner making room *)

(* What a steal that found nothing returns to. *)
AfterSteal(w) == IF w = Owner THEN "pushBack" ELSE "idle"

Steal(w) ==
  /\ pc[w] = IF w = Owner THEN "stealHead" ELSE "idle"
  /\ Load(w)
  /\ Goto(w, "stealTail")
  /\ UNCHANGED <<head, tail, buffer, claim, pending, pushed, taken>>

Least(a, b) == IF a < b THEN a ELSE b
StealCount(available, room) ==
  LET half == Least(Least(available, room), available \div 2)
  IN  IF half > 1 THEN half ELSE 1

(* The tail is loaded after the head; the owner may move it before the claim. *)
StealTail(w, room) ==
  LET available == Available(snap[w]) IN
  /\ pc[w] = "stealTail"
  /\ IF available = 0 \/ available > Cap \/ room = 0
     THEN Goto(w, AfterSteal(w)) /\ UNCHANGED claim
     ELSE /\ count' = [count EXCEPT ![w] = StealCount(available, room)]
          /\ copied' = [copied EXCEPT ![w] = 0]
          /\ Goto(w, "claim")
  /\ UNCHANGED <<head, tail, buffer, snap, pending, pushed, taken>>

(* The compare-exchange that reserves the range, or a retry from the start. *)
Claim(w) ==
  /\ pc[w] = "claim"
  /\ IF head = snap[w]
     THEN head' = Word(Add(head.steal, count[w]), head.real) /\ Goto(w, "copy")
     ELSE UNCHANGED head /\ Goto(w, IF w = Owner THEN "stealHead" ELSE "idle")
  /\ UNCHANGED <<tail, buffer, snap, claim, pending, pushed, taken>>

Copy(w) ==
  /\ pc[w] = "copy"
  /\ Take(buffer[Slot(Add(snap[w].steal, copied[w]))])
  /\ copied' = [copied EXCEPT ![w] = @ + 1]
  /\ Goto(w, IF copied[w] + 1 = count[w] THEN "commit" ELSE "copy")
  /\ UNCHANGED <<head, tail, buffer, snap, count, pending, pushed>>

(* commit_real_head: only when every earlier claim has committed, or when the *)
(* committed head already stands at the end of this one.                       *)
MayCommit_StaleWord(w) == head = Word(Add(snap[w].steal, count[w]), snap[w].steal)
MayCommit(w) == head.real \in {snap[w].steal, Add(snap[w].steal, count[w])}

CommitRealHead(w) ==
  /\ pc[w] = "commit" /\ MayCommit(w)
  /\ head' = Word(head.steal, Add(snap[w].steal, count[w]))
  /\ Goto(w, AfterSteal(w))
  /\ UNCHANGED <<tail, buffer, snap, claim, pending, pushed, taken>>

-----------------------------------------------------------------------------
OwnerStep ==
  \/ PushBack \/ WriteSlot \/ Publish
  \/ Withdraw \/ Recheck \/ ClaimLast \/ RestoreTail \/ PopSlot

StealStep(w) ==
  \/ \E room \in Rooms : StealTail(w, IF w = Owner THEN Cap ELSE room)
  \/ Claim(w) \/ Copy(w) \/ CommitRealHead(w)

Next ==
  \/ Push \/ Pop \/ OwnerStep
  \/ \E w \in Workers : Steal(w) \/ StealStep(w)

Spec == Init /\ [][Next]_vars

(* Threads inside a call keep running, and the owner retries its own steal. *)
FairSpec ==
  /\ Spec /\ WF_vars(OwnerStep) /\ WF_vars(Steal(Owner))
  /\ \A w \in Workers : WF_vars(StealStep(w))

-----------------------------------------------------------------------------
TypeOK ==
  /\ head \in [steal : Index, real : Index] /\ tail \in Index
  /\ buffer \in [0 .. Cap - 1 -> Items \cup {NoItem}]
  /\ pending \in Items \cup {NoItem} /\ pushed \in 0 .. MaxItems
  /\ \A w \in Workers : count[w] \in 0 .. Cap /\ copied[w] \in 0 .. count[w]
  /\ \A w \in Workers : snap[w] \in [steal : Index, real : Index]

(* The items the word and the tail say are in the queue. *)
Held == {buffer[Slot(Add(head.real, n))] : n \in 0 .. Sub(tail, head.real) - 1}

(* A task handed to the queue is moved out of it at most once: the range a CAS  *)
(* reserves is the thief's alone, and a popped slot is the owner's alone        *)
(* (the SAFETY comments of pop and steal_into).                                 *)
TakenOnce == \A i \in Items : taken[i] <= 1

(* Between calls every task pushed is either in the queue or was moved out: no  *)
(* slot is overwritten before it is copied, and no item falls behind the head.  *)
Conserved ==
  (\A w \in Workers : pc[w] = "idle" \/ (w # Owner /\ pc[w] \in {"stealTail", "claim"})) =>
    /\ {i \in Items : i <= pushed /\ taken[i] = 0} = Held
    /\ Cardinality(Held) = Sub(tail, head.real)

(* What steal_into takes for granted when its compare-exchange succeeds: that the *)
(* items of its claim were still in the queue, the one a pop has withdrawn and    *)
(* must give back included (the SAFETY comment above the copy).                    *)
Claimable ==
  IF pc[Owner] \in {"recheck", "claimLast", "restore"} THEN Remaining(head) ELSE Available(head)
NoOverreach == \A w \in Workers : pc[w] = "claim" /\ pc'[w] = "copy" => count[w] <= Claimable

(* Every claim is committed and every push ends, even into a full queue whose  *)
(* slots are all claimed: the owner waits for commits that do come.             *)
ClaimsCommit == \A w \in Workers : pc[w] \in {"copy", "commit"} ~> pc[w] \notin {"copy", "commit"}
PushEnds == pending # NoItem ~> pending = NoItem
CallsEnd == ClaimsCommit /\ PushEnds
=============================================================================
