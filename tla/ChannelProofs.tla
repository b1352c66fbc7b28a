--------------------------- MODULE ChannelProofs ----------------------------
(***************************************************************************)
(* The channels of sync/, FuturesUnordered and DelayQueue, for any number of *)
(* handles, futures, members and values and any capacity: what each one      *)
(* promises its users, above all that nobody parked on one waits for a wake  *)
(* that will not come.                                                       *)
(***************************************************************************)
EXTENDS Channels, Integers, Sequences, FiniteSets, FiniteSetTheorems, WaitQueueProofs

-----------------------------------------------------------------------------
(* sync/oneshot.rs *)

OneshotType ==
  /\ st \in [value : BOOLEAN, sent : BOOLEAN, receiver_alive : BOOLEAN, sender_alive : BOOLEAN,
             receiver_waker : BOOLEAN, closed_waker : SUBSET Watchers]
  /\ tx \in {"held", "sent", "dropped"} /\ oClosed \in [Watchers -> {"none", "ready", "parked"}]
  /\ rcv \in {"idle", "ready", "parked", "ok", "err", "dropped"}
  /\ calling \in [rx : BOOLEAN, closed : SUBSET Watchers] /\ displaced \subseteq Watchers

(* The flags of the shared state follow the two halves. *)
FlagsFollow ==
  /\ st.sender_alive <=> tx # "dropped"
  /\ st.receiver_alive <=> rcv # "dropped"
  /\ st.sent => tx = "sent"
  /\ O!Borrowed => tx = "held"

OneshotInv == OneshotType /\ FlagsFollow /\ O!ValueSettled /\ O!NoOneStranded

LEMMA OneshotStep == OneshotInv /\ [O!Next]_(O!vars) => OneshotInv'
<1> SUFFICES ASSUME OneshotInv, [O!Next]_(O!vars) PROVE OneshotInv'
  OBVIOUS
<1> USE DEF OneshotInv, OneshotType, FlagsFollow, O!ValueSettled, O!NoOneStranded, O!Borrowed
<1>1. CASE UNCHANGED O!vars
  BY <1>1 DEF O!vars
<1>2. CASE O!send
  BY <1>2 DEF O!send, O!SendTakesWaker
<1>3. CASE O!DropSender
  BY <1>3 DEF O!DropSender
<1>4. CASE O!PollReceiver
  BY <1>4 DEF O!PollReceiver
<1>5. CASE O!DropReceiver
  BY <1>5 DEF O!DropReceiver
<1>6. ASSUME NEW c \in Watchers, O!NewClosed(c) PROVE OneshotInv'
  BY <1>6 DEF O!NewClosed
<1>7. ASSUME NEW c \in Watchers, O!PollClosed(c) PROVE OneshotInv'
  BY <1>7 DEF O!PollClosed, O!ClosedSees
<1>8. ASSUME NEW c \in Watchers, O!DropClosed(c) PROVE OneshotInv'
  BY <1>8 DEF O!DropClosed
<1>9. CASE O!CallWaker
  <2>1. CASE calling.rx /\ calling' = [calling EXCEPT !.rx = FALSE] /\ rcv' = O!Woken(rcv) /\ UNCHANGED <<st, tx, oClosed, displaced>>
    BY <2>1 DEF O!Woken
  <2>2. ASSUME NEW c \in calling.closed, calling' = [calling EXCEPT !.closed = @ \ {c}],
               oClosed' = [oClosed EXCEPT ![c] = O!Woken(@)], UNCHANGED <<st, tx, rcv, displaced>>
        PROVE  OneshotInv'
    BY <2>2 DEF O!Woken
  <2> QED BY <1>9, <2>1, <2>2 DEF O!CallWaker
<1>10. CASE O!SpuriousPoll
  BY <1>10 DEF O!SpuriousPoll
<1> QED BY <1>1, <1>2, <1>3, <1>4, <1>5, <1>6, <1>7, <1>8, <1>9, <1>10 DEF O!Next

(* An accepted value is in the cell, was received or died with the receiver, an     *)
(* error means the sender never sent, and neither the receiver nor the Closed future *)
(* that parked last is parked without a reason to wait or a wake in flight.          *)
THEOREM OneshotIsSound == O!Spec => []OneshotSound
<1>1. O!Init => OneshotInv
  BY DEF O!Init, OneshotInv, OneshotType, FlagsFollow, O!ValueSettled, O!NoOneStranded, O!Borrowed
<1>2. OneshotInv => O!OneshotSound
  BY DEF OneshotInv, O!OneshotSound
<1> QED BY <1>1, <1>2, OneshotStep, PTL DEF O!Spec, OneshotSound

-----------------------------------------------------------------------------
(* sync/watch.rs *)

WatchType ==
  reader \in [Receivers -> [held : BOOLEAN, seen : Int,
                            doing : {"idle", "ready", "parked", "changed", "closed"}]]

WatchInv == WatchType /\ version \in Int /\ W!ChangeReachesAll

LEMMA WatchStep == WatchInv /\ [W!Next]_(W!vars) => WatchInv'
<1> SUFFICES ASSUME WatchInv, [W!Next]_(W!vars) PROVE WatchInv'
  OBVIOUS
<1> USE DEF WatchInv, WatchType, W!ChangeReachesAll
<1>1. CASE UNCHANGED W!vars
  BY <1>1 DEF W!vars
<1>2. ASSUME NEW s \in Senders, W!send(s) PROVE WatchInv'
  BY <1>2 DEF W!send, W!TakesWakers
<1>3. ASSUME NEW s \in Senders, W!DropSender(s) PROVE WatchInv'
  BY <1>3 DEF W!DropSender
<1>4. ASSUME NEW s \in Senders, W!ReleaseArc(s) \/ \E t \in Senders : W!CloneSender(s, t)
      PROVE  WatchInv'
  BY <1>4 DEF W!ReleaseArc, W!CloneSender
<1>5. ASSUME NEW r \in Receivers, W!DropReceiver(r) PROVE WatchInv'
  BY <1>5 DEF W!DropReceiver, W!Absent
<1>6. ASSUME NEW r \in Receivers, W!borrow_and_update(r) PROVE WatchInv'
  BY <1>6 DEF W!borrow_and_update
<1>7. ASSUME NEW r \in Receivers, W!poll_changed(r) PROVE WatchInv'
  BY <1>7 DEF W!poll_changed, W!Sees
<1>8. ASSUME NEW r \in Receivers, W!CancelChanged(r) PROVE WatchInv'
  BY <1>8 DEF W!CancelChanged
<1>9. ASSUME NEW r \in Receivers, W!CallWaker(r) PROVE WatchInv'
  BY <1>9 DEF W!CallWaker
<1>10. ASSUME NEW r \in Receivers, NEW q \in Receivers, W!CloneReceiver(r, q) PROVE WatchInv'
  BY <1>10 DEF W!CloneReceiver
<1> QED BY <1>1, <1>2, <1>3, <1>4, <1>5, <1>6, <1>7, <1>8, <1>9, <1>10 DEF W!Next

(* A receiver parked in changed() has seen the newest value and is listed for the    *)
(* next one, or its wake is in flight: any number of senders, receivers and values.  *)
THEOREM ChangeIsTold == W!Spec => []ChangeReachesAll
<1>1. W!Init => WatchInv
  <2> SUFFICES ASSUME W!Init PROVE WatchInv
    OBVIOUS
  <2>1. PICK r \in Receivers :
          reader = [x \in Receivers |-> IF x = r THEN [W!Absent EXCEPT !.held = TRUE] ELSE W!Absent]
    BY DEF W!Init
  <2> DEFINE rec == [held : BOOLEAN, seen : Int,
                     doing : {"idle", "ready", "parked", "changed", "closed"}]
  <2>2. \A x \in Receivers : reader[x].doing = "idle"
    BY <2>1 DEF W!Absent
  <2>3. WatchType
    <3>1. W!Absent \in rec
      BY DEF W!Absent
    <3>2. [W!Absent EXCEPT !.held = TRUE] \in rec
      BY <3>1
    <3> HIDE DEF rec
    <3>3. reader \in [Receivers -> rec]
      BY <2>1, <3>1, <3>2
    <3> QED BY <3>3 DEF WatchType, rec
  <2> QED BY <2>2, <2>3 DEF W!Init, WatchInv, W!ChangeReachesAll
<1>2. WatchInv => W!ChangeReachesAll
  BY DEF WatchInv
<1> QED BY <1>1, <1>2, WatchStep, PTL DEF W!Spec, ChangeReachesAll

-----------------------------------------------------------------------------
(* sync/broadcast.rs *)

States == {"none", "cloning", "idle", "ready", "parked", "closed", "dropping"}

BroadcastType ==
  /\ buffer \in Seq(Int) /\ next_seq \in Int /\ txs \in Nat
  /\ listener \in [Receivers -> [state : States, cursor : Int, last : Int]]

(* The ring holds the last values that were sent, in order. *)
RingExact == \A i \in 1 .. Len(buffer) : buffer[i] = next_seq - Len(buffer) + i - 1

(* Only receivers that own a share of the Arc have a slot, so equal counts mean *)
(* that no Sender is left.                                                      *)
SlotsOwned == slots \subseteq {r \in Receivers : B!Live(r)}

BroadcastInv == BroadcastType /\ RingExact /\ SlotsOwned /\ B!CursorsExact /\ B!ValueReachesAll

(* The instance counts as this module does. *)
LEMMA CountIsCount == \A S : B!Cardinality(S) = Cardinality(S)
BY DEF B!Cardinality, Cardinality

(* PollReceiver reports Closed on a comparison of two counts; it is right. *)
LEMMA ClosedMeansNoSender ==
  ASSUME IsFiniteSet(Receivers), SlotsOwned, txs \in Nat, B!strong_count = Cardinality(slots)
  PROVE  txs = 0
<1> DEFINE owners == {r \in Receivers : B!Owns(r)}
<1>a. slots \subseteq owners
  BY DEF SlotsOwned, B!Live, B!Owns
<1>1. IsFiniteSet(owners)
  BY FS_Subset
<1>2. Cardinality(owners) \in Nat /\ Cardinality(slots) \in Nat
      /\ Cardinality(slots) <= Cardinality(owners)
  BY <1>a, <1>1, FS_Subset, FS_CardinalityType
<1>3. txs + Cardinality(owners) = Cardinality(slots)
  BY CountIsCount DEF B!strong_count
<1> HIDE DEF owners
<1> QED BY <1>2, <1>3

(* Receiving moves the cursor past the value received, or past the gap reported. *)
LEMMA AdvanceKeeps ==
  ASSUME BroadcastInv, NEW r \in Receivers, listener[r].state \in {"idle", "ready"},
         listener[r].cursor < next_seq, B!Advance(r),
         UNCHANGED <<buffer, next_seq, slot_waker, txs, rung>>
  PROVE  BroadcastInv'
<1> DEFINE first == next_seq - Len(buffer)
<1>1. /\ first \in Int /\ first <= next_seq /\ next_seq \in Int
      /\ listener[r].cursor \in Int
      /\ \A i \in 1 .. Len(buffer) : buffer[i] = first + i - 1
  BY DEF BroadcastInv, BroadcastType, RingExact
<1>2. PICK c \in Int : /\ c <= next_seq
                       /\ listener' = [listener EXCEPT ![r] = [state |-> "idle", cursor |-> c, last |-> c - 1]]
  <2>1. CASE B!Lagging(r)
    BY <1>1, <2>1 DEF B!Advance, B!first_seq
  <2>2. CASE ~B!Lagging(r)
    <3>1. B!At(r) \in 1 .. Len(buffer)
      BY <1>1, <2>2 DEF B!At, B!Lagging, B!first_seq, BroadcastInv, BroadcastType
    <3>2. buffer[B!At(r)] = listener[r].cursor
      <4>1. buffer[B!At(r)] = first + B!At(r) - 1
        BY <1>1, <3>1
      <4> QED BY <1>1, <4>1 DEF B!At, B!first_seq
    <3>3. listener' = [listener EXCEPT ![r] = [state |-> "idle", cursor |-> listener[r].cursor + 1,
                                               last |-> listener[r].cursor]]
      BY <2>2, <3>2 DEF B!Advance
    <3> DEFINE c == listener[r].cursor + 1
    <3>4. c \in Int /\ c <= next_seq /\ c - 1 = listener[r].cursor
      BY <1>1
    <3>5. listener' = [listener EXCEPT ![r] = [state |-> "idle", cursor |-> c, last |-> c - 1]]
      BY <3>3, <3>4
    <3> HIDE DEF c
    <3> QED BY <3>4, <3>5
  <2> QED BY <2>1, <2>2
<1>3. slots' = slots \cup {r}
  BY DEF B!Advance
<1> QED BY <1>2, <1>3 DEF BroadcastInv, BroadcastType, States, RingExact, SlotsOwned,
   B!CursorsExact, B!ValueReachesAll, B!Owns, B!Live

(* Every step keeps the cursors, the ring and the slots in agreement. *)
LEMMA BroadcastStep ==
  ASSUME IsFiniteSet(Receivers), Capacity \in Nat \ {0}, BroadcastInv, [B!Next]_(B!vars)
  PROVE  BroadcastInv'
<1> USE DEF BroadcastInv, BroadcastType, States, RingExact, SlotsOwned, B!CursorsExact,
   B!ValueReachesAll, B!Owns, B!Live
<1>1. CASE UNCHANGED B!vars
  BY <1>1 DEF B!vars
<1>2. CASE B!CloneSender \/ B!DropSender
  BY <1>2 DEF B!CloneSender, B!DropSender
<1>3. CASE B!send
  <2> DEFINE kept == IF Len(buffer) = Capacity THEN Tail(buffer) ELSE buffer
  <2>1. kept \in Seq(Int) /\ Len(kept) \in Nat
        /\ \A i \in 1 .. Len(kept) : kept[i] = next_seq - Len(kept) + i - 1
    <3>1. CASE Len(buffer) = Capacity
      <4>1. buffer # <<>> /\ kept = Tail(buffer)
        BY <3>1
      <4>2. kept \in Seq(Int) /\ Len(kept) = Len(buffer) - 1
            /\ \A i \in 1 .. Len(kept) : kept[i] = buffer[i + 1]
        BY <4>1
      <4> HIDE DEF kept
      <4>3. \A i \in 1 .. Len(kept) : i + 1 \in 1 .. Len(buffer)
        BY <4>2
      <4>4. \A i \in 1 .. Len(kept) : kept[i] = next_seq - Len(buffer) + (i + 1) - 1
        BY <4>2, <4>3
      <4> QED BY <4>2, <4>4
    <3>2. CASE Len(buffer) # Capacity
      <4>1. kept = buffer
        BY <3>2
      <4> HIDE DEF kept
      <4> QED BY <4>1
    <3> QED BY <3>1, <3>2
  <2>2. buffer' = Append(kept, next_seq) /\ next_seq' = next_seq + 1
    BY <1>3 DEF B!send
  <2> HIDE DEF kept
  <2>3. buffer' \in Seq(Int) /\ RingExact'
    BY <2>1, <2>2
  <2>4. /\ UNCHANGED <<slots, txs, listener>> /\ next_seq' = next_seq + 1
        /\ rung' = rung \cup slot_waker /\ slot_waker' = {}
    BY <1>3 DEF B!send, B!SendTakes
  <2>5. BroadcastType' /\ SlotsOwned'
    BY <2>3, <2>4
  <2>6. B!CursorsExact' /\ B!ValueReachesAll'
    BY <2>4
  <2> QED BY <2>3, <2>5, <2>6
<1>4. ASSUME NEW r \in Receivers, B!register_slot(r) PROVE BroadcastInv'
  BY <1>4 DEF B!register_slot
<1>5. ASSUME NEW r \in Receivers, B!try_recv(r) PROVE BroadcastInv'
  BY <1>5, AdvanceKeeps DEF B!try_recv
<1>6. ASSUME NEW r \in Receivers, B!PollReceiver(r) PROVE BroadcastInv'
  <2>1. CASE listener[r].cursor < next_seq
    BY <1>6, <2>1, AdvanceKeeps, SMTT(60) DEF B!PollReceiver
  <2>2. CASE listener[r].cursor >= next_seq /\ B!strong_count = Cardinality(slots)
    <3>1. txs = 0
      BY <2>2, ClosedMeansNoSender
    <3>2. listener' = [listener EXCEPT ![r].state = "closed"]
      BY <1>6, <2>2, CountIsCount DEF B!PollReceiver
    <3> QED BY <1>6, <2>2, <3>1, <3>2, CountIsCount DEF B!PollReceiver
  <2>3. CASE listener[r].cursor >= next_seq /\ B!strong_count # Cardinality(slots)
    <3>1. /\ listener[r].state \in {"idle", "ready"}
          /\ listener' = [listener EXCEPT ![r].state = "parked"]
          /\ slots' = slots \cup {r} /\ slot_waker' = slot_waker \cup {r}
          /\ UNCHANGED <<buffer, next_seq, txs, rung>>
      BY <1>6, <2>3, CountIsCount DEF B!PollReceiver
    <3>2. listener[r].cursor = next_seq
      BY <2>3, <3>1
    <3> QED BY <3>1, <3>2
  <2> QED BY <2>1, <2>2, <2>3
<1>7. ASSUME NEW r \in Receivers, B!CancelRecv(r) PROVE BroadcastInv'
  BY <1>7 DEF B!CancelRecv
<1>8. ASSUME NEW r \in Receivers, B!DropReceiver(r) PROVE BroadcastInv'
  BY <1>8 DEF B!DropReceiver
<1>9. ASSUME NEW r \in Receivers, B!ReleaseArc(r) PROVE BroadcastInv'
  BY <1>9 DEF B!ReleaseArc, B!None
<1>10. ASSUME NEW r \in Receivers, B!CallWaker(r) PROVE BroadcastInv'
  BY <1>10 DEF B!CallWaker
<1>11. ASSUME NEW r \in Receivers, NEW q \in Receivers, B!CloneReceiver(r, q) PROVE BroadcastInv'
  BY <1>11 DEF B!CloneReceiver
<1> QED BY <1>1, <1>2, <1>3, <1>4, <1>5, <1>6, <1>7, <1>8, <1>9, <1>10, <1>11 DEF B!Next

(* Every receiver gets exactly the values before its cursor or is told of the gap,   *)
(* a parked receiver has everything that was sent and is listed, or its wake is in    *)
(* flight, and Closed is reported only when no Sender is left: any finite number of   *)
(* receivers, any number of sends, any positive capacity (channel asserts it).        *)
THEOREM BroadcastIsSound ==
  ASSUME IsFiniteSet(Receivers), Capacity \in Nat \ {0}
  PROVE  B!Spec => []BroadcastSound
<1>1. B!Init => BroadcastInv
  <2> SUFFICES ASSUME B!Init PROVE BroadcastInv
    OBVIOUS
  <2>1. PICK r \in Receivers :
          /\ slots = {r}
          /\ listener = [q \in Receivers |-> IF q = r THEN [B!None EXCEPT !.state = "idle"] ELSE B!None]
    BY DEF B!Init
  <2>2. BroadcastType /\ \A q \in Receivers : /\ listener[q].state = IF q = r THEN "idle" ELSE "none"
                                            /\ listener[q].cursor = 0 /\ listener[q].last = -1
    BY <2>1 DEF B!Init, B!None, BroadcastType, States
  <2> QED BY <2>1, <2>2 DEF B!Init, BroadcastInv, RingExact, SlotsOwned, B!CursorsExact,
             B!ValueReachesAll, B!Owns, B!Live
<1>2. BroadcastInv /\ [B!Next]_(B!vars) => BroadcastInv'
  BY BroadcastStep
<1>3. BroadcastInv => B!BroadcastSound
  BY DEF BroadcastInv, B!BroadcastSound
<1> QED BY <1>1, <1>2, <1>3, PTL DEF B!Spec, BroadcastSound

-----------------------------------------------------------------------------
(* future/unordered.rs and future/join_set.rs *)

Futures == {"unborn", "waiting", "done", "out", "dropped"}

UnorderedType ==
  /\ entries \subseteq Members /\ ready \in Seq(Members) /\ outer \in BOOLEAN
  /\ holder \in [pc : {"idle", "clearing", "poll", "pending"}, budget : Int, woken : BOOLEAN]
  /\ member \in [Members -> [fut : Futures, registered : BOOLEAN, waking : {"no", "push", "take"}]]

(* While a poll is under way or has returned Pending, the task's waker is in place *)
(* or has been called; a set being cleared has no members left.                    *)
OwnerReachable ==
  /\ holder.pc \in {"poll", "pending"} => outer \/ holder.woken
  /\ holder.pc = "clearing" => entries = {}

Queued(m) == \E i \in 1 .. Len(ready) : ready[i] = m

(* A member that has no waker registered is in the queue, or its waker is about to *)
(* put it there.                                                                   *)
MemberTracked ==
  \A m \in entries :
    /\ member[m].fut \in {"waiting", "done"}
    /\ member[m].fut = "done" \/ ~member[m].registered => Queued(m) \/ member[m].waking = "push"

AskedFor ==
  holder.pc = "pending" /\ (\E m \in entries : Queued(m)) =>
    holder.woken \/ (outer /\ \E m \in Members : member[m].waking = "take")

UnorderedInv == UnorderedType /\ OwnerReachable /\ MemberTracked /\ AskedFor

(* What the two ways to change the queue do to who is in it. *)
LEMMA QueueFacts ==
  ASSUME ready \in Seq(Members)
  PROVE  /\ \A m \in Members : /\ Append(ready, m) \in Seq(Members)
                              /\ Len(Append(ready, m)) = Len(ready) + 1
                              /\ Append(ready, m)[Len(ready) + 1] = m
                              /\ \A i \in 1 .. Len(ready) : Append(ready, m)[i] = ready[i]
         /\ ready # <<>> => /\ Tail(ready) \in Seq(Members) /\ Len(Tail(ready)) = Len(ready) - 1
                            /\ Len(ready) \in Nat \ {0} /\ Head(ready) = ready[1]
                            /\ \A i \in 1 .. Len(Tail(ready)) : Tail(ready)[i] = ready[i + 1]
OBVIOUS

(* A member put at the end joins the others. *)
LEMMA QueuedAppend ==
  ASSUME ready \in Seq(Members), NEW m \in Members, ready' = Append(ready, m)
  PROVE  ready' \in Seq(Members) /\ \A n : Queued(n)' <=> Queued(n) \/ n = m
BY QueueFacts DEF Queued

(* Taking the front off loses nobody else. *)
LEMMA QueuedTail ==
  ASSUME ready \in Seq(Members), ready # <<>>, ready' = Tail(ready)
  PROVE  /\ ready' \in Seq(Members) /\ Head(ready) \in Members
         /\ \A n : n # Head(ready) => (Queued(n)' <=> Queued(n))
<1>1. /\ ready' \in Seq(Members) /\ Len(ready') = Len(ready) - 1 /\ Len(ready) \in Nat \ {0}
      /\ Head(ready) = ready[1] /\ \A i \in 1 .. Len(ready') : ready'[i] = ready[i + 1]
  BY QueueFacts
<1>2. ASSUME NEW n, n # Head(ready), Queued(n) PROVE Queued(n)'
  <2>1. PICK i \in 1 .. Len(ready) : ready[i] = n
    BY <1>2 DEF Queued
  <2>2. i - 1 \in 1 .. Len(ready') /\ ready'[i - 1] = n
    BY <1>1, <1>2, <2>1
  <2> QED BY <2>2 DEF Queued
<1>3. ASSUME NEW n, Queued(n)' PROVE Queued(n)
  <2>1. PICK i \in 1 .. Len(ready') : ready'[i] = n
    BY <1>3 DEF Queued
  <2>2. i + 1 \in 1 .. Len(ready) /\ ready[i + 1] = n
    BY <1>1, <2>1
  <2> QED BY <2>2 DEF Queued
<1> QED BY <1>1, <1>2, <1>3

(* Every step of the owner, of a member's completer and of a waker keeps it. *)
LEMMA UnorderedStep ==
  ASSUME Budget \in Int, UnorderedInv, [F!Next]_(F!vars)
  PROVE  UnorderedInv'
<1> USE DEF UnorderedInv, UnorderedType, Futures, OwnerReachable, MemberTracked, AskedFor
<1>1. CASE UNCHANGED F!vars
  BY <1>1 DEF F!vars, Queued
<1>2. ASSUME NEW m \in Members, F!push(m) \/ F!JoinSet_spawn(m) PROVE UnorderedInv'
  <2>1. F!push(m)
    BY <1>2 DEF F!JoinSet_spawn
  <2>2. ready' \in Seq(Members) /\ \A n : Queued(n)' <=> Queued(n) \/ n = m
    BY <2>1, QueuedAppend DEF F!push
  <2> QED BY <2>1, <2>2, SMTT(60) DEF F!push, F!Free
<1>3. ASSUME NEW m \in Members, F!Event(m) PROVE UnorderedInv'
  BY <1>3 DEF F!Event, Queued
<1>4. ASSUME NEW m \in Members, F!WakePush(m) PROVE UnorderedInv'
  <2>1. ready' \in Seq(Members) /\ \A n : Queued(n)' <=> Queued(n) \/ n = m
    BY <1>4, QueuedAppend DEF F!WakePush
  <2> QED BY <1>4, <2>1 DEF F!WakePush
<1>5. ASSUME NEW m \in Members, F!WakeTake(m) PROVE UnorderedInv'
  BY <1>5, ZenonT(60) DEF F!WakeTake, F!TakesOuter, Queued
<1>6. CASE F!clear \/ F!JoinSet_abort_all
  <2>1. F!clear
    BY <1>6 DEF F!JoinSet_abort_all
  <2> DEFINE rec == [fut : Futures, registered : BOOLEAN, waking : {"no", "push", "take"}]
  <2>2. \A m \in Members : member[m] \in rec /\ [member[m] EXCEPT !.fut = "dropped", !.registered = FALSE] \in rec
    BY ZenonT(60)
  <2> HIDE DEF rec
  <2>3. member' \in [Members -> rec]
    BY <2>1, <2>2 DEF F!clear
  <2>4. UnorderedType'
    BY <2>1, <2>3 DEF F!clear, rec
  <2> QED BY <2>1, <2>4 DEF F!clear
<1>7. CASE F!ClearReady
  BY <1>7 DEF F!ClearReady, Queued
<1>8. CASE F!PollBegin
  <2>1. /\ outer' /\ holder'.pc = "poll" /\ UNCHANGED <<entries, ready, member, arcs>>
        /\ holder' \in [pc : {"idle", "poll", "pending", "clearing"}, budget : Int, woken : BOOLEAN]
    <3>1. CASE holder' = [pc |-> "poll", budget |-> Budget, woken |-> FALSE]
      BY <1>8, <3>1 DEF F!PollBegin
    <3>2. CASE holder' = [holder EXCEPT !.pc = "poll"]
      <4>1. holder' \in [pc : {"idle", "poll", "pending", "clearing"}, budget : Int, woken : BOOLEAN]
        BY <3>2, ZenonT(60)
      <4>2. holder'.pc = "poll"
        BY <3>2, ZenonT(60)
      <4> QED BY <1>8, <4>1, <4>2 DEF F!PollBegin
    <3> QED BY <1>8, <3>1, <3>2 DEF F!PollBegin
  <2>2. UnorderedType' /\ OwnerReachable'
    BY <2>1
  <2>3. MemberTracked' /\ AskedFor'
    BY <2>1 DEF Queued
  <2> QED BY <2>2, <2>3
<1>9. CASE F!PollEmpty
  BY <1>9 DEF F!PollEmpty, Queued
<1>10. CASE F!PollStale
  <2>1. /\ ready' \in Seq(Members) /\ Head(ready) \in Members
        /\ \A n : n # Head(ready) => (Queued(n)' <=> Queued(n))
    BY <1>10, QueuedTail DEF F!PollStale
  <2> QED BY <1>10, <2>1 DEF F!PollStale
<1>11. CASE F!PollMember
  <2> DEFINE m == Head(ready)
  <2>0. m \in Members /\ m \in entries /\ ready # <<>> /\ holder.pc = "poll"
    BY <1>11 DEF F!PollMember
  <2>1. CASE /\ F!OutOfBudget(m) /\ ready' = Append(Tail(ready), m)
             /\ outer' = FALSE /\ holder' = [holder EXCEPT !.woken = @ \/ outer]
             /\ UNCHANGED <<entries, member>>
    <3>1. ready' \in Seq(Members) /\ \A n \in Members : Queued(n) => Queued(n)'
      <4>1. /\ Tail(ready) \in Seq(Members) /\ Len(ready) \in Nat \ {0}
            /\ Len(Tail(ready)) = Len(ready) - 1 /\ m = ready[1]
            /\ \A i \in 1 .. Len(Tail(ready)) : Tail(ready)[i] = ready[i + 1]
        BY <2>0, QueueFacts
      <4>2. /\ ready' \in Seq(Members) /\ Len(ready') = Len(ready) /\ ready'[Len(ready)] = m
            /\ \A i \in 1 .. Len(ready) - 1 : ready'[i] = ready[i + 1]
        BY <2>0, <2>1, <4>1
      <4>3. ASSUME NEW i \in 1 .. Len(ready) PROVE \E j \in 1 .. Len(ready') : ready'[j] = ready[i]
        <5>1. CASE i = 1
          BY <4>1, <4>2, <5>1
        <5>2. CASE i # 1
          <6>1. i - 1 \in 1 .. Len(ready) - 1 /\ (i - 1) + 1 = i
            BY <4>1, <5>2
          <6>2. ready'[i - 1] = ready[i] /\ i - 1 \in 1 .. Len(ready')
            BY <4>1, <4>2, <6>1
          <6> QED BY <6>2
        <5> QED BY <5>1, <5>2
      <4>4. ASSUME NEW n, Queued(n) PROVE Queued(n)'
        <5>1. PICK i \in 1 .. Len(ready) : ready[i] = n
          BY <4>4 DEF Queued
        <5>2. \E j \in 1 .. Len(ready') : ready'[j] = n
          BY <4>3, <5>1
        <5> QED BY <5>2 DEF Queued
      <4> QED BY <4>2, <4>4
    <3> HIDE DEF m
    <3> QED BY <2>0, <2>1, <3>1
  <2>2. CASE /\ member[m].fut = "done"
             /\ entries' = entries \ {m} /\ ready' = Tail(ready)
             /\ member' = [member EXCEPT ![m].fut = "out", ![m].registered = FALSE]
             /\ holder' = [holder EXCEPT !.pc = "idle"] /\ UNCHANGED outer
    <3>1. ready' \in Seq(Members) /\ \A n : n # m => (Queued(n)' <=> Queued(n))
      BY <2>0, <2>2, QueuedTail
    <3> HIDE DEF m
    <3> QED BY <2>0, <2>2, <3>1, ZenonT(60)
  <2>3. CASE /\ member[m].fut = "waiting"
             /\ member' = [member EXCEPT ![m].registered = TRUE] /\ ready' = Tail(ready)
             /\ holder' = [holder EXCEPT !.budget = F!Spent(m)] /\ UNCHANGED <<entries, outer>>
    <3>1. ready' \in Seq(Members) /\ \A n : n # m => (Queued(n)' <=> Queued(n))
      BY <2>0, <2>3, QueuedTail
    <3> HIDE DEF m
    <3>2. F!Spent(m) \in Int
      BY DEF F!Spent
    <3>3. UnorderedType'
      BY <2>0, <2>3, <3>1, <3>2
    <3> QED BY <2>0, <2>3, <3>1, <3>3
  <2> QED BY <1>11, <2>1, <2>2, <2>3 DEF F!PollMember
<1> QED BY <1>1, <1>2, <1>3, <1>4, <1>5, <1>6, <1>7, <1>8, <1>9, <1>10, <1>11 DEF F!Next

(* The task of a FuturesUnordered or JoinSet never sleeps beside a queued member     *)
(* without a wake behind it, and no finished member is forgotten, for any members,    *)
(* any budget and any clears, stale entries and spurious wakes.                       *)
THEOREM UnorderedIsSound ==
  ASSUME Budget \in Int
  PROVE  F!Spec => []UnorderedSound
<1>1. F!Init => UnorderedInv
  <2> SUFFICES ASSUME F!Init PROVE UnorderedInv
    OBVIOUS
  <2> DEFINE rec == [fut : Futures, registered : BOOLEAN, waking : {"no", "push", "take"}]
  <2>1. [fut |-> "unborn", registered |-> FALSE, waking |-> "no"] \in rec
    BY DEF Futures
  <2> HIDE DEF rec
  <2>2. member \in [Members -> rec]
    BY <2>1 DEF F!Init
  <2>a. holder \in [pc : {"idle", "clearing", "poll", "pending"}, budget : Int, woken : BOOLEAN]
    BY DEF F!Init
  <2>b. ready \in Seq(Members)
    BY DEF F!Init
  <2>c. entries \subseteq Members /\ outer \in BOOLEAN
    BY Zenon DEF F!Init
  <2>3. UnorderedType
    BY <2>2, <2>a, <2>b, <2>c DEF UnorderedType, rec
  <2> QED BY <2>3 DEF F!Init, UnorderedInv, OwnerReachable, MemberTracked, AskedFor
<1>2. UnorderedInv /\ [F!Next]_(F!vars) => UnorderedInv'
  BY UnorderedStep
<1>3. UnorderedInv => F!UnorderedSound
  <2> SUFFICES ASSUME UnorderedInv PROVE F!UnorderedSound
    OBVIOUS
  <2>1. \A m : m \in F!ToSet(ready) <=> Queued(m)
    BY DEF F!ToSet, Queued, UnorderedInv, UnorderedType
  <2> QED BY <2>1 DEF UnorderedInv, MemberTracked, AskedFor, F!UnorderedSound, F!MemberReaches,
             F!NothingForgotten
<1> QED BY <1>1, <1>2, <1>3, PTL DEF F!Spec, UnorderedSound

-----------------------------------------------------------------------------
(* sync/mpsc.rs.  A grant in the middle of a call works on a state that is not the *)
(* one before nor the one after, so the parts of the invariant take the channel c   *)
(* and the futures f as parameters.                                                 *)

OpRec == [reserves : BOOLEAN, status : {"none", "ready", "parked", "permit"},
          registered : BOOLEAN, granted : BOOLEAN, waker : BOOLEAN]
ChRec == [queue : Seq({"item"}), reserved : Nat, senders : Nat, receiver_alive : BOOLEAN,
          recv_waker : BOOLEAN, send_waiters : Seq(Ops),
          rx : {"idle", "ready", "parked", "ended", "dropped"}]

MpscType ==
  /\ ch \in ChRec /\ op \in [Ops -> OpRec]
  /\ late \subseteq Ops /\ lateRx \in BOOLEAN

(* What one future is worth: a slot counted in reserved, or a grant of a Send that is *)
(* not counted anywhere.                                                               *)
HoldsSlot(w) == w.status = "permit" \/ (w.reserves /\ w.granted)
SendGrant(w) == ~w.reserves /\ w.granted
SlotWorth(w) == IF HoldsSlot(w) THEN 1 ELSE 0
GrantWorth(w) == IF SendGrant(w) THEN 1 ELSE 0

SlotHolders(f) == {o \in Ops : HoldsSlot(f[o])}
SendGrants(f) == {o \in Ops : SendGrant(f[o])}

AwaitsGrant(w) == w.status \in {"ready", "parked"} /\ w.registered /\ ~w.granted

ListExact(c, f) ==
  /\ Distinct(c.send_waiters)
  /\ \A o \in Ops : Occurs(c.send_waiters, o) <=> c.receiver_alive /\ AwaitsGrant(f[o])

FutureExact(alive, w) ==
  /\ w.status \in {"none", "permit"} => ~w.granted /\ ~w.registered
  /\ w.status = "parked" => w.registered /\ w.waker /\ (alive => ~w.granted)
FuturesExact(c, f) == \A o \in Ops : FutureExact(c.receiver_alive, f[o])

CapacityKept(c, f) ==
  Len(c.queue) + c.reserved <= Cap /\ c.reserved = Cardinality(SlotHolders(f))

(* Free capacity beside waiters is covered by grants on their way, but for n slots. *)
CapacityOffered(c, f, n) ==
  c.receiver_alive /\ c.send_waiters # <<>> =>
    Cap - Len(c.queue) - c.reserved <= Cardinality(SendGrants(f)) + n

ChannelExact(c, f, n) ==
  ListExact(c, f) /\ FuturesExact(c, f) /\ CapacityKept(c, f) /\ CapacityOffered(c, f, n)

DeadAreTold == \A o \in Ops : ~ch.receiver_alive /\ op[o].status = "parked" => o \in late

(* The receiver drops once, and a parked one is never stranded. *)
RxExact == (ch.receiver_alive \/ ch.rx = "dropped") /\ M!ReceiverNotStranded

MpscInv == MpscType /\ ChannelExact(ch, op, 0) /\ DeadAreTold /\ RxExact

(* The instance counts and unlinks as this module does. *)
LEMMA MpscNames ==
  /\ \A S : M!Cardinality(S) = Cardinality(S)
  /\ \A q, w : M!Without(q, w) = Without(q, w)
<1>1. \A S : M!Cardinality(S) = Cardinality(S)
  BY DEF M!Cardinality, Cardinality
<1>2. \A q, w : M!Without(q, w) = Without(q, w)
  BY DEF M!Without, Without, M!Occurs, Occurs
<1> QED BY <1>1, <1>2

(* One future changing changes the two counts by what it was and is worth. *)
LEMMA WorthChanges ==
  ASSUME IsFiniteSet(Ops), NEW f \in [Ops -> OpRec], NEW o \in Ops, NEW v \in OpRec,
         NEW g, g = [f EXCEPT ![o] = v]
  PROVE  /\ g \in [Ops -> OpRec]
         /\ Cardinality(SlotHolders(f)) \in Nat /\ Cardinality(SendGrants(f)) \in Nat
         /\ Cardinality(SlotHolders(g)) =
              Cardinality(SlotHolders(f)) - SlotWorth(f[o]) + SlotWorth(v)
         /\ Cardinality(SendGrants(g)) =
              Cardinality(SendGrants(f)) - GrantWorth(f[o]) + GrantWorth(v)
<1>1. g \in [Ops -> OpRec] /\ g[o] = v /\ \A x \in Ops : x # o => g[x] = f[x]
  OBVIOUS
<1>2. \A S : S \subseteq Ops => IsFiniteSet(S) /\ Cardinality(S) \in Nat
  BY FS_Subset, FS_CardinalityType
<1>3. \A S, T : S \subseteq Ops /\ T \subseteq Ops =>
        /\ T = S \cup {o} /\ o \notin S => Cardinality(T) = Cardinality(S) + 1
        /\ T = S \ {o} /\ o \in S => Cardinality(T) = Cardinality(S) - 1
  BY <1>2, FS_AddElement, FS_RemoveElement
<1>4. ASSUME NEW S, NEW T, S \subseteq Ops, T \subseteq Ops, \A x \in Ops : x # o => (x \in S <=> x \in T)
      PROVE  Cardinality(T) = Cardinality(S) - (IF o \in S THEN 1 ELSE 0) + (IF o \in T THEN 1 ELSE 0)
  <2>1. CASE o \in S <=> o \in T
    <3>1. S = T
      BY <1>4, <2>1
    <3> QED BY <1>2, <1>4, <3>1
  <2>2. CASE o \in S /\ o \notin T
    <3>1. T = S \ {o}
      BY <1>4, <2>2
    <3> QED BY <1>2, <1>3, <1>4, <2>2, <3>1
  <2>3. CASE o \notin S /\ o \in T
    <3>1. T = S \cup {o}
      BY <1>4, <2>3
    <3> QED BY <1>2, <1>3, <1>4, <2>3, <3>1
  <2> QED BY <2>1, <2>2, <2>3
<1>5. Cardinality(SlotHolders(g)) = Cardinality(SlotHolders(f)) - SlotWorth(f[o]) + SlotWorth(v)
  <2>1. /\ SlotHolders(f) \subseteq Ops /\ SlotHolders(g) \subseteq Ops
        /\ \A x \in Ops : x # o => (x \in SlotHolders(f) <=> x \in SlotHolders(g))
        /\ o \in SlotHolders(f) <=> HoldsSlot(f[o])
        /\ o \in SlotHolders(g) <=> HoldsSlot(v)
    BY <1>1 DEF SlotHolders
  <2> QED BY <1>4, <2>1 DEF SlotWorth
<1>6. Cardinality(SendGrants(g)) = Cardinality(SendGrants(f)) - GrantWorth(f[o]) + GrantWorth(v)
  <2>1. /\ SendGrants(f) \subseteq Ops /\ SendGrants(g) \subseteq Ops
        /\ \A x \in Ops : x # o => (x \in SendGrants(f) <=> x \in SendGrants(g))
        /\ o \in SendGrants(f) <=> SendGrant(f[o])
        /\ o \in SendGrants(g) <=> SendGrant(v)
    BY <1>1 DEF SendGrants
  <2> QED BY <1>4, <2>1 DEF GrantWorth
<1>7. SlotHolders(f) \subseteq Ops /\ SendGrants(f) \subseteq Ops
  BY DEF SlotHolders, SendGrants
<1> QED BY <1>1, <1>2, <1>5, <1>6, <1>7

(* wake_one_sender uses up the one slot that was free beside the waiters, and wakes *)
(* the future it grants.                                                            *)
LEMMA GrantKeeps ==
  ASSUME IsFiniteSet(Ops), Cap \in Nat, NEW c \in ChRec, NEW f \in [Ops -> OpRec],
         ChannelExact(c, f, 1), M!WakeOneSender(c, f)
  PROVE  /\ ch' \in ChRec /\ op' \in [Ops -> OpRec] /\ ChannelExact(ch', op', 0)
         /\ ch'.receiver_alive = c.receiver_alive /\ ch'.rx = c.rx /\ ch'.recv_waker = c.recv_waker
         /\ ch'.queue = c.queue /\ ch'.senders = c.senders
         /\ \A o \in Ops : op'[o].status = "parked" => f[o].status = "parked"
<1> DEFINE sw == c.send_waiters
           h == Head(sw)
<1>0. /\ sw \in Seq(Ops) /\ Len(c.queue) \in Nat /\ c.reserved \in Nat
      /\ SendGrants(f) \subseteq Ops /\ Cardinality(SendGrants(f)) \in Nat
  BY FS_Subset, FS_CardinalityType DEF ChRec, SendGrants
<1>1. CASE ~M!Grants(c)
  <2>1. ch' = c /\ op' = f
    BY <1>1 DEF M!WakeOneSender
  <2>2. sw = <<>> \/ Cap - Len(c.queue) - c.reserved <= 0
    BY <1>0, <1>1 DEF M!Grants, M!capacity_available
  <2>3. CapacityOffered(c, f, 0)
    BY <1>0, <2>2 DEF CapacityOffered
  <2> QED BY <2>1, <2>3 DEF ChannelExact
<1>2. CASE M!Grants(c)
  <2> DEFINE v == M!WakeWaiter([f[h] EXCEPT !.granted = TRUE])
  <2>1. sw # <<>> /\ Len(c.queue) + c.reserved < Cap
    BY <1>2 DEF M!Grants, M!capacity_available
  <2>2. /\ Tail(sw) \in Seq(Ops) /\ h \in Ops /\ Distinct(Tail(sw))
        /\ ~Occurs(Tail(sw), h) /\ Occurs(sw, h)
        /\ \A x : Occurs(sw, x) <=> Occurs(Tail(sw), x) \/ x = h
    BY <1>0, <2>1, TailFacts DEF ChannelExact, ListExact
  <2> HIDE DEF h
  <2>3. c.receiver_alive /\ AwaitsGrant(f[h]) /\ FutureExact(TRUE, f[h]) /\ f[h] \in OpRec
    BY <2>2 DEF ChannelExact, ListExact, FuturesExact, ChRec
  <2>4. /\ v \in OpRec /\ v.granted /\ v.registered /\ v.status = "ready"
        /\ v.reserves = f[h].reserves
    BY <2>3 DEF OpRec, AwaitsGrant, FutureExact, M!WakeWaiter, M!Woken
  <2>5. op' = [f EXCEPT ![h] = v]
    BY <1>2 DEF M!WakeOneSender, h
  <2>6. ch' = [c EXCEPT !.reserved = @ + M!GrantCounts(f[h]), !.send_waiters = Tail(sw)]
    BY <1>2 DEF M!WakeOneSender, h
  <2> HIDE DEF v
  <2>7. M!GrantCounts(f[h]) = SlotWorth(v) /\ SlotWorth(v) + GrantWorth(v) = 1
        /\ SlotWorth(v) \in {0, 1}
    BY <2>3, <2>4 DEF M!GrantCounts, SlotWorth, GrantWorth, HoldsSlot, SendGrant, OpRec
  <2>8. /\ ch' \in ChRec /\ ch'.reserved = c.reserved + SlotWorth(v) /\ ch'.send_waiters = Tail(sw)
        /\ ch'.queue = c.queue /\ ch'.receiver_alive = c.receiver_alive /\ ch'.rx = c.rx
        /\ ch'.recv_waker = c.recv_waker /\ ch'.senders = c.senders
    <3> DEFINE n == SlotWorth(v)
    <3>1. n \in Nat /\ c.reserved + n \in Nat
      BY <1>0, <2>7
    <3>2. ch' = [c EXCEPT !.reserved = c.reserved + n, !.send_waiters = Tail(sw)]
      BY <2>6, <2>7
    <3> HIDE DEF n, sw
    <3>3. ch' \in ChRec
      BY <2>2, <3>1, <3>2 DEF ChRec
    <3> QED BY <3>2, <3>3 DEF ChRec, n
  <2>9. SlotWorth(f[h]) = 0 /\ GrantWorth(f[h]) = 0
    BY <2>3 DEF AwaitsGrant, HoldsSlot, SendGrant, SlotWorth, GrantWorth
  <2>10. /\ op' \in [Ops -> OpRec]
         /\ Cardinality(SlotHolders(op')) = Cardinality(SlotHolders(f)) + SlotWorth(v)
         /\ Cardinality(SendGrants(op')) = Cardinality(SendGrants(f)) + GrantWorth(v)
    <3>0. PICK g : g = [f EXCEPT ![h] = v]
      OBVIOUS
    <3>1. /\ g \in [Ops -> OpRec] /\ Cardinality(SlotHolders(f)) \in Nat
          /\ Cardinality(SlotHolders(g)) =
               Cardinality(SlotHolders(f)) - SlotWorth(f[h]) + SlotWorth(v)
          /\ Cardinality(SendGrants(g)) =
               Cardinality(SendGrants(f)) - GrantWorth(f[h]) + GrantWorth(v)
      <4>1. h \in Ops /\ v \in OpRec
        BY <2>2, <2>4
      <4> QED BY <4>1, <3>0, WorthChanges, ZenonT(60)
    <3>2. GrantWorth(v) \in {0, 1}
      BY DEF GrantWorth
    <3> QED BY <1>0, <2>5, <2>7, <2>9, <3>0, <3>1, <3>2
  <2>11. \A o \in Ops : op'[o] = IF o = h THEN v ELSE f[o]
    BY <2>2, <2>5
  <2>12. ListExact(ch', op')
    BY <2>2, <2>4, <2>8, <2>11 DEF ChannelExact, ListExact, AwaitsGrant
  <2>13. FuturesExact(ch', op')
    BY <2>4, <2>8, <2>11 DEF ChannelExact, FuturesExact, FutureExact
  <2>14. CapacityKept(ch', op')
    BY <1>0, <2>1, <2>7, <2>8, <2>10 DEF ChannelExact, CapacityKept
  <2>15. CapacityOffered(ch', op', 0)
    BY <1>0, <2>1, <2>3, <2>7, <2>8, <2>10, SMTT(60) DEF ChannelExact, CapacityOffered, GrantWorth
  <2> QED BY <2>4, <2>8, <2>10, <2>11, <2>12, <2>13, <2>14, <2>15 DEF ChannelExact
<1> QED BY <1>1, <1>2

(* A call that makes future o into v and channel c into d: it links or unlinks o as  *)
(* v says, counts its slot, and lets go of at most m slots beside waiters.            *)
FutureStep(c, f, o, v, d, m) ==
  /\ d.receiver_alive = c.receiver_alive /\ FutureExact(c.receiver_alive, v)
  /\ \/ d.send_waiters = c.send_waiters /\ (AwaitsGrant(v) <=> AwaitsGrant(f[o]))
     \/ /\ d.send_waiters = Append(c.send_waiters, o)
        /\ c.receiver_alive /\ ~AwaitsGrant(f[o]) /\ AwaitsGrant(v)
     \/ d.send_waiters = Without(c.send_waiters, o) /\ ~AwaitsGrant(v)
  /\ d.reserved = c.reserved - SlotWorth(f[o]) + SlotWorth(v)
  /\ Len(d.queue) + d.reserved <= Cap
  /\ c.receiver_alive /\ d.send_waiters # <<>> =>
       \/ Cap - Len(d.queue) - d.reserved <= m
       \/ /\ c.send_waiters # <<>>
          /\ Cap - Len(d.queue) - d.reserved - m
               <= Cap - Len(c.queue) - c.reserved - GrantWorth(f[o]) + GrantWorth(v)

(* Such a call keeps the channel exact, up to the m slots it lets go of. *)
LEMMA FutureChanges ==
  ASSUME IsFiniteSet(Ops), Cap \in Nat, NEW m \in {0, 1},
         NEW c \in ChRec, NEW f \in [Ops -> OpRec], ChannelExact(c, f, 0),
         NEW o \in Ops, NEW v \in OpRec, NEW d \in ChRec, NEW g, g = [f EXCEPT ![o] = v],
         FutureStep(c, f, o, v, d, m)
  PROVE  g \in [Ops -> OpRec] /\ ChannelExact(d, g, m)
<1>0. /\ c.send_waiters \in Seq(Ops) /\ Distinct(c.send_waiters)
      /\ Len(c.queue) \in Nat /\ c.reserved \in Nat /\ Len(d.queue) \in Nat /\ d.reserved \in Nat
      /\ \A x \in Ops : Occurs(c.send_waiters, x) <=> c.receiver_alive /\ AwaitsGrant(f[x])
  BY DEF ChRec, ChannelExact, ListExact
<1> USE DEF FutureStep
<1>1. /\ g \in [Ops -> OpRec]
      /\ Cardinality(SlotHolders(f)) \in Nat /\ Cardinality(SendGrants(f)) \in Nat
      /\ Cardinality(SlotHolders(g)) = Cardinality(SlotHolders(f)) - SlotWorth(f[o]) + SlotWorth(v)
      /\ Cardinality(SendGrants(g)) = Cardinality(SendGrants(f)) - GrantWorth(f[o]) + GrantWorth(v)
  BY WorthChanges, Zenon
<1>2. \A x \in Ops : g[x] = IF x = o THEN v ELSE f[x]
  OBVIOUS
<1>3. ListExact(d, g)
  <2>1. CASE d.send_waiters = c.send_waiters /\ (AwaitsGrant(v) <=> AwaitsGrant(f[o]))
    BY <1>0, <1>2, <2>1 DEF ListExact
  <2>2. CASE /\ d.send_waiters = Append(c.send_waiters, o)
             /\ c.receiver_alive /\ ~AwaitsGrant(f[o]) /\ AwaitsGrant(v)
    <3>1. /\ \A x : Occurs(d.send_waiters, x) <=> Occurs(c.send_waiters, x) \/ x = o
          /\ Distinct(c.send_waiters) /\ ~Occurs(c.send_waiters, o) => Distinct(d.send_waiters)
      BY <1>0, <2>2, AppendFacts
    <3> QED BY <1>0, <1>2, <2>2, <3>1 DEF ListExact
  <2>3. CASE d.send_waiters = Without(c.send_waiters, o) /\ ~AwaitsGrant(v)
    <3>1. /\ Distinct(d.send_waiters) /\ ~Occurs(d.send_waiters, o)
          /\ \A x : x # o => (Occurs(d.send_waiters, x) <=> Occurs(c.send_waiters, x))
      BY <1>0, <2>3, WithoutFacts
    <3> QED BY <1>0, <1>2, <2>3, <3>1 DEF ListExact
  <2> QED BY <2>1, <2>2, <2>3
<1>4. FuturesExact(d, g)
  BY <1>2 DEF ChannelExact, FuturesExact
<1>5. CapacityKept(d, g)
  BY <1>1 DEF ChannelExact, CapacityKept
<1>6. CapacityOffered(d, g, m)
  <2> SUFFICES ASSUME c.receiver_alive, d.send_waiters # <<>>
               PROVE  Cap - Len(d.queue) - d.reserved <= Cardinality(SendGrants(g)) + m
    BY DEF CapacityOffered
  <2>1. SendGrants(g) \subseteq Ops
    BY DEF SendGrants
  <2>2. Cardinality(SendGrants(g)) \in Nat
    BY <2>1, FS_Subset, FS_CardinalityType
  <2>3. CASE Cap - Len(d.queue) - d.reserved <= m
    BY <1>0, <2>2, <2>3
  <2>4. CASE /\ c.send_waiters # <<>>
             /\ Cap - Len(d.queue) - d.reserved - m
                  <= Cap - Len(c.queue) - c.reserved - GrantWorth(f[o]) + GrantWorth(v)
    <3>1. Cap - Len(c.queue) - c.reserved <= Cardinality(SendGrants(f))
      BY <1>0, <1>1, <2>4 DEF ChannelExact, CapacityOffered
    <3>2. GrantWorth(f[o]) \in {0, 1} /\ GrantWorth(v) \in {0, 1}
      BY DEF GrantWorth
    <3> DEFINE a == Cap - Len(d.queue) - d.reserved
               b == Cap - Len(c.queue) - c.reserved
               s == Cardinality(SendGrants(f))
               t == Cardinality(SendGrants(g))
               x == GrantWorth(f[o])
               y == GrantWorth(v)
    <3>3. a \in Int /\ b \in Int
      BY <1>0
    <3>4. s \in Int /\ t \in Int
      BY <1>1, <2>2
    <3>5. x \in Int /\ y \in Int /\ m \in Int
      BY <3>2
    <3>6. a - m <= b - x + y /\ b <= s /\ t = s - x + y
      BY <1>1, <2>4, <3>1
    <3> HIDE DEF a, b, s, t, x, y
    <3>7. a <= t + m
      BY <3>3, <3>4, <3>5, <3>6
    <3> QED BY <3>7 DEF a, t
  <2> QED BY <2>3, <2>4
<1> QED BY <1>1, <1>3, <1>4, <1>5, <1>6 DEF ChannelExact

(* A push wakes the receiver that registered a waker. *)
LEMMA PushFacts ==
  ASSUME NEW c \in ChRec, NEW d, d = M!Push(c, "item")
  PROVE  /\ d \in ChRec /\ Len(d.queue) = Len(c.queue) + 1 /\ d.reserved = c.reserved
         /\ d.senders = c.senders /\ d.receiver_alive = c.receiver_alive
         /\ d.send_waiters = c.send_waiters
         /\ d.rx = "parked" => c.rx = "parked" /\ ~c.recv_waker
         /\ c.rx = "dropped" => d.rx = "dropped"
<1> DEFINE q == Append(c.queue, "item")
           e == [c EXCEPT !.queue = q]
<1>1. q \in Seq({"item"}) /\ Len(q) = Len(c.queue) + 1
  BY DEF ChRec
<1> HIDE DEF q
<1>2. /\ e \in ChRec /\ e.queue = q /\ e.reserved = c.reserved /\ e.senders = c.senders
      /\ e.receiver_alive = c.receiver_alive /\ e.send_waiters = c.send_waiters
      /\ e.rx = c.rx /\ e.recv_waker = c.recv_waker
  BY <1>1 DEF ChRec
<1>3. d = M!wake_receiver(e)
  BY DEF M!Push, q
<1> HIDE DEF e
<1>4. d \in ChRec
  BY <1>2, <1>3 DEF M!wake_receiver, M!Woken, ChRec
<1>5. /\ d.queue = q /\ d.reserved = c.reserved /\ d.senders = c.senders
      /\ d.receiver_alive = c.receiver_alive /\ d.send_waiters = c.send_waiters
  BY <1>2, <1>3 DEF M!wake_receiver, ChRec
<1>6. /\ d.rx = "parked" => c.rx = "parked" /\ ~c.recv_waker
      /\ c.rx = "dropped" => d.rx = "dropped"
  BY <1>2, <1>3 DEF M!wake_receiver, M!Woken, ChRec
<1> QED BY <1>1, <1>4, <1>5, <1>6

(* Nothing but the receiver's side of the channel changed. *)
LEMMA ChannelFrame ==
  ASSUME NEW c \in ChRec, NEW f, NEW d \in ChRec, ChannelExact(c, f, 0), d.queue = c.queue,
         d.reserved = c.reserved, d.receiver_alive = c.receiver_alive,
         d.send_waiters = c.send_waiters
  PROVE  ChannelExact(d, f, 0)
BY DEF ChannelExact, ListExact, FuturesExact, CapacityKept, CapacityOffered

(* A slot that is held is counted. *)
LEMMA SlotCounted ==
  ASSUME IsFiniteSet(Ops), NEW c, NEW f, NEW n, ChannelExact(c, f, n), NEW o \in Ops, HoldsSlot(f[o])
  PROVE  c.reserved \in Nat /\ c.reserved >= 1
<1>1. SlotHolders(f) \subseteq Ops /\ o \in SlotHolders(f)
  BY DEF SlotHolders
<1>2. IsFiniteSet(SlotHolders(f)) /\ Cardinality(SlotHolders(f)) \in Nat
  BY <1>1, FS_Subset, FS_CardinalityType
<1>3. Cardinality(SlotHolders(f)) # 0
  BY <1>1, <1>2, FS_EmptySet
<1>4. c.reserved = Cardinality(SlotHolders(f))
  BY DEF ChannelExact, CapacityKept
<1> QED BY <1>2, <1>3, <1>4

(* The calls that change one future and grant nothing. *)
LEMMA FutureMoves ==
  ASSUME IsFiniteSet(Ops), Cap \in Nat, MpscInv, NEW o \in Ops, NEW v \in OpRec,
         op' = [op EXCEPT ![o] = v], ch' \in ChRec, FutureStep(ch, op, o, v, ch', 0),
         v.status = "parked" => ch.receiver_alive \/ (op[o].status = "parked" /\ UNCHANGED late),
         late \ {o} \subseteq late', late' \subseteq late, UNCHANGED lateRx, RxExact'
  PROVE  MpscInv'
<1>1. op' \in [Ops -> OpRec] /\ ChannelExact(ch', op', 0)
  <2>1. ch \in ChRec /\ op \in [Ops -> OpRec] /\ ChannelExact(ch, op, 0) /\ 0 \in {0, 1}
    BY DEF MpscInv, MpscType
  <2> QED BY <2>1, FutureChanges, Zenon
<1>2. late' \subseteq Ops /\ lateRx' \in BOOLEAN
  BY DEF MpscInv, MpscType
<1>3. DeadAreTold'
  <2>1. ch'.receiver_alive = ch.receiver_alive
    BY DEF FutureStep
  <2>2. op'[o] = v /\ \A x \in Ops : x # o => op'[x] = op[x]
    BY DEF MpscInv, MpscType
  <2> QED BY <2>1, <2>2 DEF DeadAreTold, MpscInv
<1> QED BY <1>1, <1>2, <1>3 DEF MpscInv, MpscType

(* The calls on the receiver's side, and the wakes, that leave the rest alone. *)
LEMMA ReceiverMoves ==
  ASSUME MpscInv, ch' \in ChRec, UNCHANGED <<op, late>>, lateRx' \in BOOLEAN,
         ch'.queue = ch.queue, ch'.reserved = ch.reserved,
         ch'.receiver_alive = ch.receiver_alive, ch'.send_waiters = ch.send_waiters,
         RxExact'
  PROVE  MpscInv'
<1>1. ChannelExact(ch', op', 0)
  BY ChannelFrame DEF MpscInv, MpscType
<1> QED BY <1>1 DEF MpscInv, MpscType, DeadAreTold

LEMMA MpscReceiverStep ==
  ASSUME IsFiniteSet(Ops), Cap \in Nat, MpscInv,
         \/ M!CloneSender \/ M!DropSender \/ M!WakeLateRx \/ M!recv \/ M!CancelRecv
         \/ M!SpuriousPoll /\ UNCHANGED op
         \/ M!PollRecv /\ ch.queue = <<>>
  PROVE  MpscInv'
<1>0. ch \in ChRec /\ lateRx \in BOOLEAN /\ RxExact
  BY DEF MpscInv, MpscType
<1> SUFFICES /\ ch' \in ChRec /\ UNCHANGED <<op, late>> /\ lateRx' \in BOOLEAN
             /\ ch'.queue = ch.queue /\ ch'.reserved = ch.reserved
             /\ ch'.receiver_alive = ch.receiver_alive /\ ch'.send_waiters = ch.send_waiters
             /\ RxExact'
  BY ReceiverMoves
<1>1. CASE M!CloneSender
  BY <1>0, <1>1 DEF M!CloneSender, ChRec, RxExact, M!ReceiverNotStranded
<1>2. CASE M!DropSender
  <2> DEFINE last == ch.senders = 1
             n == ch.senders - 1
             k == ch.recv_waker /\ ~last
  <2>1. n \in Nat /\ (~last => n > 0)
    BY <1>0, <1>2 DEF M!DropSender, ChRec
  <2>2. /\ ch' = [ch EXCEPT !.senders = n, !.recv_waker = k]
        /\ lateRx' = (lateRx \/ (last /\ ch.recv_waker)) /\ UNCHANGED <<op, late>>
    BY <1>2 DEF M!DropSender
  <2>3. k \in BOOLEAN
    OBVIOUS
  <2> HIDE DEF n, k
  <2>4. /\ ch' \in ChRec /\ ch'.queue = ch.queue /\ ch'.reserved = ch.reserved
        /\ ch'.receiver_alive = ch.receiver_alive /\ ch'.send_waiters = ch.send_waiters
        /\ ch'.senders = n /\ ch'.recv_waker = k /\ ch'.rx = ch.rx
    BY <1>0, <2>1, <2>2, <2>3 DEF ChRec
  <2>5. lateRx' \in BOOLEAN
    BY <2>2
  <2>6. RxExact'
    BY <1>0, <2>1, <2>2, <2>4 DEF RxExact, M!ReceiverNotStranded, k
  <2> QED BY <2>2, <2>4, <2>5, <2>6
<1>3. CASE M!WakeLateRx
  BY <1>0, <1>3 DEF M!WakeLateRx, M!Woken, ChRec, RxExact, M!ReceiverNotStranded
<1>4. CASE M!recv
  BY <1>0, <1>4 DEF M!recv, ChRec, RxExact, M!ReceiverNotStranded
<1>5. CASE M!CancelRecv
  BY <1>0, <1>5 DEF M!CancelRecv, ChRec, RxExact, M!ReceiverNotStranded
<1>6. CASE M!SpuriousPoll /\ UNCHANGED op
  BY <1>0, <1>6 DEF M!SpuriousPoll, ChRec, RxExact, M!ReceiverNotStranded
<1>7. CASE M!PollRecv /\ ch.queue = <<>>
  <2>1. ch.senders # 0 => ch.senders > 0
    BY <1>0 DEF ChRec
  <2>2. CASE ch.senders = 0 /\ ch' = [ch EXCEPT !.rx = "ended"] /\ UNCHANGED op
    BY <1>0, <1>7, <2>2 DEF M!PollRecv, ChRec, RxExact, M!ReceiverNotStranded
  <2>3. CASE ch.senders # 0 /\ ch' = [ch EXCEPT !.recv_waker = TRUE, !.rx = "parked"] /\ UNCHANGED op
    <3>1. /\ ch' \in ChRec /\ ch'.queue = ch.queue /\ ch'.reserved = ch.reserved
          /\ ch'.receiver_alive = ch.receiver_alive /\ ch'.send_waiters = ch.send_waiters
          /\ ch'.senders = ch.senders /\ ch'.recv_waker /\ ch'.rx = "parked"
      BY <1>0, <2>3 DEF ChRec
    <3> QED BY <1>0, <1>7, <2>1, <2>3, <3>1 DEF M!PollRecv, RxExact, M!ReceiverNotStranded
  <2> QED BY <1>7, <2>2, <2>3 DEF M!PollRecv
<1> QED BY <1>1, <1>2, <1>3, <1>4, <1>5, <1>6, <1>7

(* A poll that could not proceed: the future parks on its place in the list. *)
LEMMA ParkKeeps ==
  ASSUME IsFiniteSet(Ops), Cap \in Nat, MpscInv, NEW o \in Ops, ch.receiver_alive,
         op[o].status = "ready", UNCHANGED <<late, lateRx>>,
         M!Park(o, M!StillRegistered(o)), op[o].reserves => ~op[o].granted,
         \/ ~M!capacity_available(ch)
         \/ ~op[o].granted /\ (op[o].registered \/ ch.send_waiters # <<>>)
  PROVE  MpscInv'
<1> DEFINE v == [op[o] EXCEPT !.status = "parked", !.waker = TRUE, !.granted = FALSE, !.registered = TRUE]
<1>0. /\ ch \in ChRec /\ op \in [Ops -> OpRec] /\ op[o] \in OpRec /\ ch.send_waiters \in Seq(Ops)
      /\ Len(ch.queue) \in Nat /\ ch.reserved \in Nat
  BY DEF MpscInv, MpscType, ChRec
<1>1. op' = [op EXCEPT ![o] = v]
  BY <1>0 DEF M!Park
<1>2. /\ v \in OpRec /\ v.status = "parked" /\ v.waker /\ ~v.granted /\ v.registered
      /\ v.reserves = op[o].reserves
  BY <1>0 DEF OpRec
<1> HIDE DEF v
<1>3. /\ AwaitsGrant(v) /\ SlotWorth(v) = 0 /\ GrantWorth(v) = 0 /\ SlotWorth(op[o]) = 0
      /\ GrantWorth(op[o]) \in {0, 1} /\ (~op[o].granted => GrantWorth(op[o]) = 0)
      /\ FutureExact(ch.receiver_alive, v)
  BY <1>2 DEF AwaitsGrant, SlotWorth, GrantWorth, HoldsSlot, SendGrant, FutureExact
<1>4. Len(ch.queue) + ch.reserved <= Cap
  BY DEF MpscInv, ChannelExact, CapacityKept
<1>5. ~M!capacity_available(ch) => Cap - Len(ch.queue) - ch.reserved <= 0
  BY <1>0 DEF M!capacity_available
<1>6. CASE M!StillRegistered(o)
  <2>1. ch' = ch /\ AwaitsGrant(op[o])
    BY <1>6 DEF M!Park, M!StillRegistered, AwaitsGrant
  <2>2. FutureStep(ch, op, o, v, ch', 0)
    <3>1. ch'.reserved = ch.reserved - SlotWorth(op[o]) + SlotWorth(v)
      BY <1>0, <1>3, <2>1
    <3>2. Cap - Len(ch.queue) - ch.reserved - 0
             <= Cap - Len(ch.queue) - ch.reserved - GrantWorth(op[o]) + GrantWorth(v)
      BY <1>0, <1>3, <1>6, <2>1 DEF M!StillRegistered
    <3> QED BY <1>3, <1>4, <2>1, <3>1, <3>2 DEF FutureStep
  <2>3. /\ v.status = "parked" => ch.receiver_alive \/ (op[o].status = "parked" /\ UNCHANGED late)
        /\ late \ {o} \subseteq late' /\ late' \subseteq late /\ UNCHANGED lateRx
        /\ RxExact'
    BY <2>1 DEF MpscInv, RxExact, M!ReceiverNotStranded
  <2> QED BY <1>0, <1>1, <1>2, <2>1, <2>2, <2>3, FutureMoves
<1>7. CASE ~M!StillRegistered(o)
  <2> DEFINE w == Append(ch.send_waiters, o)
  <2>0. w \in Seq(Ops)
    BY <1>0
  <2>1. ch' = [ch EXCEPT !.send_waiters = w] /\ ~AwaitsGrant(op[o])
    BY <1>7 DEF M!Park, M!StillRegistered, AwaitsGrant
  <2>2. /\ ch' \in ChRec /\ ch'.queue = ch.queue /\ ch'.reserved = ch.reserved
        /\ ch'.receiver_alive = ch.receiver_alive /\ ch'.send_waiters = w
        /\ ch'.senders = ch.senders /\ ch'.recv_waker = ch.recv_waker /\ ch'.rx = ch.rx
    <3> HIDE DEF w
    <3> QED BY <1>0, <2>0, <2>1 DEF ChRec
  <2>3. FutureStep(ch, op, o, v, ch', 0)
    <3>1. \/ Cap - Len(ch.queue) - ch.reserved <= 0
          \/ ch.send_waiters # <<>> /\ GrantWorth(op[o]) = 0
      BY <1>3, <1>5, <1>7 DEF M!StillRegistered
    <3>2. ch'.reserved = ch.reserved - SlotWorth(op[o]) + SlotWorth(v)
      BY <1>0, <1>3, <2>2
    <3>3. GrantWorth(op[o]) = 0 =>
            Cap - Len(ch'.queue) - ch'.reserved - 0
               <= Cap - Len(ch.queue) - ch.reserved - GrantWorth(op[o]) + GrantWorth(v)
      BY <1>0, <1>3, <2>2
    <3> QED BY <1>3, <1>4, <2>1, <2>2, <3>1, <3>2, <3>3 DEF FutureStep
  <2>4. /\ v.status = "parked" => ch.receiver_alive \/ (op[o].status = "parked" /\ UNCHANGED late)
        /\ late \ {o} \subseteq late' /\ late' \subseteq late /\ UNCHANGED lateRx
        /\ RxExact'
    BY <2>2 DEF MpscInv, RxExact, M!ReceiverNotStranded
  <2> QED BY <1>0, <1>1, <1>2, <2>2, <2>3, <2>4, FutureMoves
<1> QED BY <1>6, <1>7

(* A fresh future holds nothing and waits for nothing. *)
LEMMA FreshFacts ==
  ASSUME NEW b \in BOOLEAN, NEW s \in {"none", "ready"}, NEW alive, NEW v, v = M!Fresh(b, s)
  PROVE  /\ v \in OpRec /\ v.status = s /\ SlotWorth(v) = 0 /\ GrantWorth(v) = 0
         /\ ~AwaitsGrant(v) /\ FutureExact(alive, v)
<1>1. v \in OpRec /\ v.status = s /\ ~v.granted /\ ~v.registered
  BY DEF M!Fresh, OpRec
<1> QED BY <1>1 DEF SlotWorth, GrantWorth, HoldsSlot, SendGrant, AwaitsGrant, FutureExact

(* A permit holds a slot. *)
LEMMA PermitFacts ==
  ASSUME NEW b \in BOOLEAN, NEW alive, NEW v, v = M!Fresh(b, "permit")
  PROVE  /\ v \in OpRec /\ v.status = "permit" /\ SlotWorth(v) = 1 /\ GrantWorth(v) = 0
         /\ ~AwaitsGrant(v) /\ FutureExact(alive, v)
<1>1. v \in OpRec /\ v.status = "permit" /\ ~v.granted /\ ~v.registered
  BY DEF M!Fresh, OpRec
<1> QED BY <1>1 DEF SlotWorth, GrantWorth, HoldsSlot, SendGrant, AwaitsGrant, FutureExact

(* The polls and calls of one future that grant nothing to another. *)
LEMMA MpscFutureStep ==
  ASSUME IsFiniteSet(Ops), Cap \in Nat, MpscInv, NEW o \in Ops,
         \/ M!send(o) \/ M!reserve(o) \/ M!PollSend(o) \/ M!PollReserve(o) \/ M!PermitSend(o)
         \/ M!DropOp(o) /\ ~op[o].granted
         \/ M!WakeLate(o)
         \/ op[o].status = "parked" /\ op' = [op EXCEPT ![o].status = "ready"] /\ UNCHANGED <<ch, late, lateRx>>
  PROVE  MpscInv'
<1>0. /\ ch \in ChRec /\ op \in [Ops -> OpRec] /\ op[o] \in OpRec /\ ch.send_waiters \in Seq(Ops)
      /\ Len(ch.queue) \in Nat /\ ch.reserved \in Nat /\ op[o].reserves \in BOOLEAN
      /\ FutureExact(ch.receiver_alive, op[o]) /\ Len(ch.queue) + ch.reserved <= Cap
      /\ ch.receiver_alive \in BOOLEAN
  BY DEF MpscInv, MpscType, ChRec, OpRec, ChannelExact, FuturesExact, CapacityKept
<1>1. /\ SlotWorth(op[o]) = (IF HoldsSlot(op[o]) THEN 1 ELSE 0)
      /\ GrantWorth(op[o]) = (IF SendGrant(op[o]) THEN 1 ELSE 0)
  BY DEF SlotWorth, GrantWorth
<1>2. ASSUME NEW v \in OpRec, op' = [op EXCEPT ![o] = v], UNCHANGED <<ch, late, lateRx>>,
             FutureExact(ch.receiver_alive, v), AwaitsGrant(v) <=> AwaitsGrant(op[o]),
             SlotWorth(v) = SlotWorth(op[o]), GrantWorth(v) = GrantWorth(op[o]),
             v.status # "parked"
      PROVE  MpscInv'
  <2>1. SlotWorth(v) \in Int /\ GrantWorth(v) \in Int
    BY DEF SlotWorth, GrantWorth
  <2>2. /\ ch.reserved = ch.reserved - SlotWorth(op[o]) + SlotWorth(v)
        /\ Cap - Len(ch.queue) - ch.reserved - 0
             <= Cap - Len(ch.queue) - ch.reserved - GrantWorth(op[o]) + GrantWorth(v)
    BY <1>0, <1>2, <2>1
  <2>3. FutureStep(ch, op, o, v, ch', 0)
    BY <1>0, <1>2, <2>2 DEF FutureStep
  <2>4. RxExact'
    BY <1>2 DEF MpscInv, RxExact, M!ReceiverNotStranded
  <2> QED BY <1>0, <1>2, <2>3, <2>4, FutureMoves
<1>3. ASSUME NEW b \in BOOLEAN, ch.senders > 0, op[o].status = "none",
             op' = [op EXCEPT ![o] = M!Fresh(b, "ready")], UNCHANGED <<ch, late, lateRx>>
      PROVE  MpscInv'
  <2> DEFINE v == M!Fresh(b, "ready")
  <2>1. /\ v \in OpRec /\ v.status = "ready" /\ SlotWorth(v) = 0 /\ GrantWorth(v) = 0
        /\ ~AwaitsGrant(v) /\ FutureExact(ch.receiver_alive, v)
    BY FreshFacts
  <2>2. ~AwaitsGrant(op[o]) /\ SlotWorth(op[o]) = 0 /\ GrantWorth(op[o]) = 0
    BY <1>0, <1>1, <1>3 DEF AwaitsGrant, HoldsSlot, SendGrant, FutureExact
  <2> HIDE DEF v
  <2>3. op' = [op EXCEPT ![o] = v]
    BY <1>3 DEF v
  <2> QED BY <1>2, <1>3, <2>1, <2>2, <2>3
<1>4. CASE M!send(o)
  BY <1>3, <1>4 DEF M!send
<1>5. CASE M!reserve(o)
  BY <1>3, <1>5 DEF M!reserve
<1>6. CASE M!PollSend(o)
  <2>1. CASE /\ M!capacity_available(ch)
             /\ op[o].granted \/ (~op[o].registered /\ ch.send_waiters = <<>>)
    <3> DEFINE v == M!Fresh(op[o].reserves, "none")
    <3>1. ch' = M!Push(ch, "item") /\ op' = [op EXCEPT ![o] = v] /\ UNCHANGED <<late, lateRx>>
          /\ op[o].status = "ready" /\ ~op[o].reserves
      BY <1>0, <1>6, <2>1 DEF M!PollSend, M!Resolved
    <3>2. /\ v \in OpRec /\ v.status = "none" /\ SlotWorth(v) = 0 /\ GrantWorth(v) = 0
          /\ ~AwaitsGrant(v) /\ FutureExact(ch.receiver_alive, v)
      BY <1>0, FreshFacts
    <3> HIDE DEF v
    <3>3. /\ ch' \in ChRec /\ Len(ch'.queue) = Len(ch.queue) + 1 /\ ch'.reserved = ch.reserved
          /\ ch'.senders = ch.senders /\ ch'.receiver_alive = ch.receiver_alive
          /\ ch'.send_waiters = ch.send_waiters
          /\ ch'.rx = "parked" => ch.rx = "parked" /\ ~ch.recv_waker
          /\ ch.rx = "dropped" => ch'.rx = "dropped"
      BY <1>0, <3>1, PushFacts
    <3>4. ~AwaitsGrant(op[o]) /\ SlotWorth(op[o]) = 0 /\ GrantWorth(op[o]) = (IF op[o].granted THEN 1 ELSE 0)
      BY <1>1, <2>1, <3>1 DEF AwaitsGrant, HoldsSlot, SendGrant
    <3>5. FutureStep(ch, op, o, v, ch', 0)
      <4>1. ch'.reserved = ch.reserved - SlotWorth(op[o]) + SlotWorth(v)
        BY <1>0, <3>2, <3>3, <3>4
      <4>2. Len(ch'.queue) + ch'.reserved <= Cap
        BY <1>0, <2>1, <3>3 DEF M!capacity_available
      <4>3. op[o].granted =>
              Cap - Len(ch'.queue) - ch'.reserved - 0
                <= Cap - Len(ch.queue) - ch.reserved - GrantWorth(op[o]) + GrantWorth(v)
        BY <1>0, <3>2, <3>3, <3>4
      <4> QED BY <2>1, <3>2, <3>3, <3>4, <4>1, <4>2, <4>3 DEF FutureStep
    <3>6. RxExact'
      BY <3>1, <3>3 DEF MpscInv, RxExact, M!ReceiverNotStranded
    <3> QED BY <3>1, <3>2, <3>3, <3>5, <3>6, FutureMoves
  <2>2. CASE ~(/\ M!capacity_available(ch)
               /\ op[o].granted \/ (~op[o].registered /\ ch.send_waiters = <<>>))
    BY <1>6, <2>2, ParkKeeps DEF M!PollSend
  <2> QED BY <2>1, <2>2
<1>7. CASE M!PollReserve(o)
  <2>0. op[o].status = "ready" /\ op[o].reserves /\ ch.receiver_alive /\ UNCHANGED <<late, lateRx>>
    BY <1>7 DEF M!PollReserve
  <2> DEFINE v == M!Fresh(op[o].reserves, "permit")
  <2>1. /\ v \in OpRec /\ v.status = "permit" /\ SlotWorth(v) = 1 /\ GrantWorth(v) = 0
        /\ ~AwaitsGrant(v) /\ FutureExact(ch.receiver_alive, v)
    BY <1>0, PermitFacts
  <2>2. M!Resolved(o, "permit") => op' = [op EXCEPT ![o] = v]
    BY <1>0 DEF M!Resolved
  <2> HIDE DEF v
  <2>3. CASE op[o].granted /\ M!Resolved(o, "permit") /\ UNCHANGED ch
    <3>1. ~AwaitsGrant(op[o]) /\ SlotWorth(op[o]) = 1 /\ GrantWorth(op[o]) = 0
      BY <1>1, <2>0, <2>3 DEF AwaitsGrant, HoldsSlot, SendGrant
    <3> QED BY <1>2, <2>0, <2>1, <2>2, <2>3, <3>1
  <2>4. CASE /\ ~op[o].granted /\ ~op[o].registered /\ ch.send_waiters = <<>>
             /\ M!capacity_available(ch) /\ ch' = [ch EXCEPT !.reserved = @ + 1]
             /\ M!Resolved(o, "permit")
    <3> DEFINE n == ch.reserved + 1
    <3>1. ~AwaitsGrant(op[o]) /\ SlotWorth(op[o]) = 0 /\ GrantWorth(op[o]) = 0
      BY <1>1, <2>0, <2>4 DEF AwaitsGrant, HoldsSlot, SendGrant
    <3>2. n \in Nat /\ Len(ch.queue) + n <= Cap
      BY <1>0, <2>4 DEF M!capacity_available
    <3>3. ch' = [ch EXCEPT !.reserved = n]
      BY <2>4
    <3>4. n = ch.reserved - SlotWorth(op[o]) + SlotWorth(v)
      BY <1>0, <2>1, <3>1
    <3> HIDE DEF n
    <3>5. /\ ch' \in ChRec /\ ch'.queue = ch.queue /\ ch'.reserved = n
          /\ ch'.receiver_alive = ch.receiver_alive /\ ch'.send_waiters = <<>>
          /\ ch'.senders = ch.senders /\ ch'.recv_waker = ch.recv_waker /\ ch'.rx = ch.rx
      BY <1>0, <2>4, <3>2, <3>3 DEF ChRec
    <3>6. FutureStep(ch, op, o, v, ch', 0)
      BY <2>1, <2>4, <3>1, <3>2, <3>4, <3>5 DEF FutureStep
    <3>7. RxExact'
      BY <2>0, <3>5 DEF MpscInv, RxExact, M!ReceiverNotStranded
    <3> QED BY <2>0, <2>1, <2>2, <2>4, <3>5, <3>6, <3>7, FutureMoves
  <2>5. CASE /\ ~op[o].granted
             /\ op[o].registered \/ ch.send_waiters # <<>> \/ ~M!capacity_available(ch)
             /\ M!Park(o, op[o].registered)
    <3>1. M!Park(o, M!StillRegistered(o))
      BY <1>0, <2>5 DEF M!Park, M!StillRegistered
    <3> QED BY <2>0, <2>5, <3>1, ParkKeeps
  <2> QED BY <1>7, <2>3, <2>4, <2>5 DEF M!PollReserve
<1>8. CASE M!PermitSend(o)
  <2> DEFINE v == M!Fresh(FALSE, "none")
             n == ch.reserved - 1
             c == [ch EXCEPT !.reserved = n]
  <2>1. /\ v \in OpRec /\ v.status = "none" /\ SlotWorth(v) = 0 /\ GrantWorth(v) = 0
        /\ ~AwaitsGrant(v) /\ FutureExact(ch.receiver_alive, v)
    BY FreshFacts
  <2>2. /\ op[o].status = "permit" /\ op' = [op EXCEPT ![o] = v] /\ UNCHANGED <<late, lateRx>>
        /\ ch' = IF ch.receiver_alive THEN M!Push(c, "item") ELSE c
    BY <1>8 DEF M!PermitSend
  <2>3. ~AwaitsGrant(op[o]) /\ SlotWorth(op[o]) = 1 /\ GrantWorth(op[o]) = 0 /\ HoldsSlot(op[o])
    BY <1>0, <1>1, <2>2 DEF AwaitsGrant, HoldsSlot, SendGrant, FutureExact
  <2>4. ch.reserved >= 1
    BY <2>3, SlotCounted DEF MpscInv
  <2> HIDE DEF v
  <2>5. n \in Nat /\ n = ch.reserved - SlotWorth(op[o]) + SlotWorth(v) /\ n + 1 = ch.reserved
    BY <1>0, <2>1, <2>3, <2>4
  <2> HIDE DEF n
  <2>6. /\ c \in ChRec /\ c.queue = ch.queue /\ c.reserved = n
        /\ c.receiver_alive = ch.receiver_alive /\ c.send_waiters = ch.send_waiters
        /\ c.senders = ch.senders /\ c.recv_waker = ch.recv_waker /\ c.rx = ch.rx
    BY <1>0, <2>5 DEF ChRec
  <2> HIDE DEF c
  <2>7. CASE ch.receiver_alive
    <3>1. /\ ch' \in ChRec /\ Len(ch'.queue) = Len(c.queue) + 1 /\ ch'.reserved = c.reserved
          /\ ch'.senders = c.senders /\ ch'.receiver_alive = c.receiver_alive
          /\ ch'.send_waiters = c.send_waiters
          /\ ch'.rx = "parked" => c.rx = "parked" /\ ~c.recv_waker
          /\ c.rx = "dropped" => ch'.rx = "dropped"
      <4>1. ch' = M!Push(c, "item")
        BY <2>2, <2>7
      <4> QED BY <2>6, <4>1, PushFacts
    <3>2. Len(ch'.queue) + ch'.reserved <= Cap
      BY <1>0, <2>5, <2>6, <3>1
    <3>3. Cap - Len(ch'.queue) - ch'.reserved - 0
            <= Cap - Len(ch.queue) - ch.reserved - GrantWorth(op[o]) + GrantWorth(v)
      <4>1. Len(ch'.queue) = Len(ch.queue) + 1 /\ ch'.reserved = ch.reserved - 1
        BY <1>0, <2>5, <2>6, <3>1
      <4> QED BY <1>0, <2>1, <2>3, <4>1
    <3>4. FutureStep(ch, op, o, v, ch', 0)
      BY <2>1, <2>3, <2>5, <2>6, <3>1, <3>2, <3>3 DEF FutureStep
    <3>5. RxExact'
      BY <2>2, <2>6, <3>1 DEF MpscInv, RxExact, M!ReceiverNotStranded
    <3> QED BY <2>1, <2>2, <3>1, <3>4, <3>5, FutureMoves
  <2>8. CASE ~ch.receiver_alive
    <3>1. ch' = c
      BY <2>2, <2>8
    <3>2. Len(ch'.queue) + ch'.reserved <= Cap
      BY <1>0, <2>5, <2>6, <3>1
    <3>3. FutureStep(ch, op, o, v, ch', 0)
      BY <2>1, <2>3, <2>5, <2>6, <2>8, <3>1, <3>2 DEF FutureStep
    <3>4. RxExact'
      BY <2>2, <2>6, <3>1 DEF MpscInv, RxExact, M!ReceiverNotStranded
    <3> QED BY <2>1, <2>2, <2>6, <3>1, <3>3, <3>4, FutureMoves
  <2> QED BY <2>7, <2>8
<1>9. CASE M!DropOp(o) /\ ~op[o].granted
  <2> DEFINE v == M!Fresh(FALSE, "none")
             w == Without(ch.send_waiters, o)
  <2>1. /\ v \in OpRec /\ v.status = "none" /\ SlotWorth(v) = 0 /\ GrantWorth(v) = 0
        /\ ~AwaitsGrant(v) /\ FutureExact(ch.receiver_alive, v)
    BY FreshFacts
  <2>2. /\ op[o].status \in {"ready", "parked"} /\ op' = [op EXCEPT ![o] = v]
        /\ ch' = IF op[o].registered THEN [ch EXCEPT !.send_waiters = w] ELSE ch
        /\ UNCHANGED <<late, lateRx>>
    BY <1>9, MpscNames DEF M!DropOp, M!PassesOn, M!Pending, M!Unlinked
  <2>3. /\ w \in Seq(Ops) /\ (~Occurs(ch.send_waiters, o) => w = ch.send_waiters)
    BY <1>0, WithoutFacts DEF MpscInv, ChannelExact, ListExact
  <2>4. ch.send_waiters = <<>> => w = <<>>
    BY <2>3 DEF Occurs
  <2>5. SlotWorth(op[o]) = 0 /\ GrantWorth(op[o]) = 0
    BY <1>1, <1>9, <2>2 DEF HoldsSlot, SendGrant
  <2> HIDE DEF v, w
  <2>6. /\ ch' \in ChRec /\ ch'.queue = ch.queue /\ ch'.reserved = ch.reserved
        /\ ch'.receiver_alive = ch.receiver_alive
        /\ ch'.send_waiters = (IF op[o].registered THEN w ELSE ch.send_waiters)
        /\ ch'.senders = ch.senders /\ ch'.recv_waker = ch.recv_waker /\ ch'.rx = ch.rx
    BY <1>0, <2>2, <2>3 DEF ChRec
  <2>7. FutureStep(ch, op, o, v, ch', 0)
    <3>1. ch'.reserved = ch.reserved - SlotWorth(op[o]) + SlotWorth(v)
      BY <1>0, <2>1, <2>5, <2>6
    <3>2. Cap - Len(ch'.queue) - ch'.reserved - 0
            <= Cap - Len(ch.queue) - ch.reserved - GrantWorth(op[o]) + GrantWorth(v)
      BY <1>0, <2>1, <2>5, <2>6
    <3>3. \/ ch'.send_waiters = w
          \/ ch'.send_waiters = ch.send_waiters /\ ~AwaitsGrant(op[o])
      BY <2>6 DEF AwaitsGrant
    <3>4. ch'.send_waiters # <<>> => ch.send_waiters # <<>>
      BY <2>4, <2>6
    <3> QED BY <1>0, <2>1, <2>6, <3>1, <3>2, <3>3, <3>4 DEF FutureStep, w
  <2>8. RxExact'
    BY <2>2, <2>6 DEF MpscInv, RxExact, M!ReceiverNotStranded
  <2> QED BY <2>1, <2>2, <2>6, <2>7, <2>8, FutureMoves
<1>10. CASE M!WakeLate(o)
  <2> DEFINE v == M!WakeWaiter(op[o])
  <2>1. ch' = ch /\ lateRx' = lateRx /\ late' = late \ {o} /\ op' = [op EXCEPT ![o] = v]
    BY <1>10 DEF M!WakeLate
  <2>2. /\ v \in OpRec /\ v.status # "parked" /\ v.granted = op[o].granted
        /\ v.registered = op[o].registered /\ v.reserves = op[o].reserves
        /\ op[o].status # "parked" => v.status = op[o].status
        /\ op[o].status = "parked" => v.status = "ready"
    BY <1>0 DEF OpRec, M!WakeWaiter, M!Woken, FutureExact
  <2> HIDE DEF v
  <2>3. /\ FutureExact(ch.receiver_alive, v) /\ (AwaitsGrant(v) <=> AwaitsGrant(op[o]))
        /\ SlotWorth(v) = SlotWorth(op[o]) /\ GrantWorth(v) = GrantWorth(op[o])
    BY <1>0, <2>2 DEF FutureExact, AwaitsGrant, SlotWorth, GrantWorth, HoldsSlot, SendGrant
  <2>4. SlotWorth(op[o]) \in Int /\ GrantWorth(op[o]) \in Int
    BY <1>1
  <2>5. /\ ch.reserved = ch.reserved - SlotWorth(op[o]) + SlotWorth(v)
        /\ Cap - Len(ch.queue) - ch.reserved - 0
             <= Cap - Len(ch.queue) - ch.reserved - GrantWorth(op[o]) + GrantWorth(v)
    BY <1>0, <2>3, <2>4
  <2>6. FutureStep(ch, op, o, v, ch', 0)
    BY <1>0, <2>1, <2>3, <2>5 DEF FutureStep
  <2>7. RxExact'
    BY <2>1 DEF MpscInv, RxExact, M!ReceiverNotStranded
  <2> QED BY <1>0, <2>1, <2>2, <2>6, <2>7, FutureMoves
<1>11. CASE /\ op[o].status = "parked" /\ op' = [op EXCEPT ![o].status = "ready"]
            /\ UNCHANGED <<ch, late, lateRx>>
  <2> DEFINE v == [op[o] EXCEPT !.status = "ready"]
  <2>1. /\ v \in OpRec /\ v.status = "ready" /\ v.granted = op[o].granted
        /\ v.registered = op[o].registered /\ v.reserves = op[o].reserves
    BY <1>0 DEF OpRec
  <2>2. op' = [op EXCEPT ![o] = v]
    BY <1>0, <1>11
  <2> HIDE DEF v
  <2>3. /\ FutureExact(ch.receiver_alive, v) /\ (AwaitsGrant(v) <=> AwaitsGrant(op[o]))
        /\ SlotWorth(v) = SlotWorth(op[o]) /\ GrantWorth(v) = GrantWorth(op[o])
    BY <1>0, <1>11, <2>1 DEF FutureExact, AwaitsGrant, SlotWorth, GrantWorth, HoldsSlot, SendGrant
  <2> QED BY <1>2, <1>11, <2>1, <2>2, <2>3
<1> QED BY <1>4, <1>5, <1>6, <1>7, <1>8, <1>9, <1>10, <1>11

(* The calls that free a slot and pass it on. *)
LEMMA GrantMoves ==
  ASSUME IsFiniteSet(Ops), Cap \in Nat, MpscInv, NEW c \in ChRec, NEW f \in [Ops -> OpRec],
         ChannelExact(c, f, 1), M!WakeOneSender(c, f), UNCHANGED <<late, lateRx>>,
         c.receiver_alive = ch.receiver_alive,
         \A o \in Ops : f[o].status = "parked" => op[o].status = "parked",
         c.rx = "parked" => /\ ch.rx = "parked" /\ c.recv_waker = ch.recv_waker
                            /\ c.queue = ch.queue /\ c.senders = ch.senders,
         ch.rx = "dropped" => c.rx = "dropped"
  PROVE  MpscInv'
<1>1. /\ ch' \in ChRec /\ op' \in [Ops -> OpRec] /\ ChannelExact(ch', op', 0)
      /\ ch'.receiver_alive = c.receiver_alive /\ ch'.rx = c.rx /\ ch'.recv_waker = c.recv_waker
      /\ ch'.queue = c.queue /\ ch'.senders = c.senders
      /\ \A o \in Ops : op'[o].status = "parked" => f[o].status = "parked"
  BY GrantKeeps, Zenon
<1>2. DeadAreTold'
  BY <1>1 DEF MpscInv, DeadAreTold
<1>3. RxExact'
  BY <1>1 DEF MpscInv, RxExact, M!ReceiverNotStranded
<1>4. late' \subseteq Ops /\ lateRx' \in BOOLEAN
  BY DEF MpscInv, MpscType
<1> QED BY <1>1, <1>2, <1>3, <1>4 DEF MpscInv, MpscType

LEMMA MpscGrantStep ==
  ASSUME IsFiniteSet(Ops), Cap \in Nat, MpscInv,
         \/ \E o \in Ops : M!PermitDrop(o) \/ (M!DropOp(o) /\ op[o].granted)
         \/ M!PollRecv /\ ch.queue # <<>>
  PROVE  MpscInv'
<1>0. /\ ch \in ChRec /\ op \in [Ops -> OpRec] /\ ch.send_waiters \in Seq(Ops)
      /\ Len(ch.queue) \in Nat /\ ch.reserved \in Nat /\ ch.queue \in Seq({"item"})
      /\ Len(ch.queue) + ch.reserved <= Cap /\ ChannelExact(ch, op, 0)
  BY DEF MpscInv, MpscType, ChRec, ChannelExact, CapacityKept
<1>1. ASSUME NEW o \in Ops, NEW c \in ChRec, NEW n \in {0, 1},
             M!WakeOneSender(c, [op EXCEPT ![o] = M!Fresh(FALSE, "none")]),
             UNCHANGED <<late, lateRx>>, ~AwaitsGrant(op[o]),
             c.reserved = ch.reserved - n, n = SlotWorth(op[o]),
             n = 1 => GrantWorth(op[o]) = 0,
             c.queue = ch.queue, c.receiver_alive = ch.receiver_alive, c.rx = ch.rx,
             c.send_waiters = ch.send_waiters, c.recv_waker = ch.recv_waker, c.senders = ch.senders
      PROVE  MpscInv'
  <2> DEFINE v == M!Fresh(FALSE, "none")
  <2>1. /\ v \in OpRec /\ v.status = "none" /\ SlotWorth(v) = 0 /\ GrantWorth(v) = 0
        /\ ~AwaitsGrant(v) /\ FutureExact(ch.receiver_alive, v)
    BY FreshFacts
  <2> HIDE DEF v
  <2>2. PICK g : g = [op EXCEPT ![o] = v]
    OBVIOUS
  <2>3. FutureStep(ch, op, o, v, c, 1)
    <3>1. c.reserved = ch.reserved - SlotWorth(op[o]) + SlotWorth(v)
      BY <1>0, <1>1, <2>1
    <3>2. Len(c.queue) + c.reserved <= Cap
      BY <1>0, <1>1
    <3>3. GrantWorth(op[o]) \in {0, 1}
      BY DEF GrantWorth
    <3>4. Cap - Len(c.queue) - c.reserved - 1
            <= Cap - Len(ch.queue) - ch.reserved - GrantWorth(op[o]) + GrantWorth(v)
      BY <1>0, <1>1, <2>1, <3>3
    <3> QED BY <1>1, <2>1, <3>1, <3>2, <3>4 DEF FutureStep
  <2>4. g \in [Ops -> OpRec] /\ ChannelExact(c, g, 1)
    <3>1. 1 \in {0, 1}
      OBVIOUS
    <3> QED BY <1>0, <2>1, <2>2, <2>3, <3>1, FutureChanges, Zenon
  <2>5. \A x \in Ops : g[x].status = "parked" => op[x].status = "parked"
    BY <1>0, <2>1, <2>2
  <2>6. M!WakeOneSender(c, g)
    BY <1>1, <2>2 DEF v
  <2> QED BY <1>1, <2>4, <2>5, <2>6, GrantMoves
<1>2. ASSUME NEW o \in Ops, M!PermitDrop(o)
      PROVE  MpscInv'
  <2> DEFINE n == ch.reserved - 1
             c == [ch EXCEPT !.reserved = n]
  <2>1. /\ op[o].status = "permit" /\ UNCHANGED <<late, lateRx>>
        /\ M!WakeOneSender(c, [op EXCEPT ![o] = M!Fresh(FALSE, "none")])
    BY <1>2 DEF M!PermitDrop
  <2>2. /\ ~AwaitsGrant(op[o]) /\ SlotWorth(op[o]) = 1 /\ GrantWorth(op[o]) = 0 /\ HoldsSlot(op[o])
    BY <1>0, <2>1 DEF ChannelExact, FuturesExact, FutureExact, AwaitsGrant, SlotWorth, GrantWorth,
         HoldsSlot, SendGrant
  <2>3. n \in Nat
    BY <1>0, <2>2, SlotCounted
  <2>4. n = ch.reserved - 1
    OBVIOUS
  <2> HIDE DEF n
  <2>5. /\ c \in ChRec /\ c.queue = ch.queue /\ c.reserved = n
        /\ c.receiver_alive = ch.receiver_alive /\ c.send_waiters = ch.send_waiters
        /\ c.senders = ch.senders /\ c.recv_waker = ch.recv_waker /\ c.rx = ch.rx
    BY <1>0, <2>3 DEF ChRec
  <2> HIDE DEF c
  <2> QED BY <1>1, <2>1, <2>2, <2>4, <2>5
<1>3. ASSUME NEW o \in Ops, M!DropOp(o), op[o].granted
      PROVE  MpscInv'
  <2> DEFINE freed == IF op[o].granted /\ op[o].reserves THEN 1 ELSE 0
             n == ch.reserved - freed
             w == IF op[o].registered THEN Without(ch.send_waiters, o) ELSE ch.send_waiters
             c == [ch EXCEPT !.reserved = n]
             e == IF op[o].registered THEN [ch EXCEPT !.send_waiters = Without(ch.send_waiters, o)] ELSE ch
  <2>1. /\ op[o].status \in {"ready", "parked"} /\ UNCHANGED <<late, lateRx>>
        /\ M!WakeOneSender([e EXCEPT !.reserved = @ - freed], [op EXCEPT ![o] = M!Fresh(FALSE, "none")])
    BY <1>3, MpscNames DEF M!DropOp, M!PassesOn, M!Pending, M!Unlinked
  <2>2. ~AwaitsGrant(op[o]) /\ ~Occurs(ch.send_waiters, o)
    BY <1>0, <1>3 DEF AwaitsGrant, ChannelExact, ListExact
  <2>3. Without(ch.send_waiters, o) = ch.send_waiters
    BY <1>0, <2>2, WithoutFacts DEF ChannelExact, ListExact
  <2>4. e = ch
    BY <1>0, <2>3 DEF ChRec
  <2>5. M!WakeOneSender(c, [op EXCEPT ![o] = M!Fresh(FALSE, "none")])
    BY <2>1, <2>4
  <2>6. /\ freed = SlotWorth(op[o]) /\ (freed = 1 => GrantWorth(op[o]) = 0) /\ freed \in {0, 1}
        /\ freed = 1 => HoldsSlot(op[o])
    BY <2>1 DEF SlotWorth, GrantWorth, HoldsSlot, SendGrant
  <2> HIDE DEF freed
  <2>7. n \in Nat /\ n = ch.reserved - freed
    BY <1>0, <2>6, SlotCounted
  <2> HIDE DEF n
  <2>8. /\ c \in ChRec /\ c.queue = ch.queue /\ c.reserved = n
        /\ c.receiver_alive = ch.receiver_alive /\ c.send_waiters = ch.send_waiters
        /\ c.senders = ch.senders /\ c.recv_waker = ch.recv_waker /\ c.rx = ch.rx
    BY <1>0, <2>7 DEF ChRec
  <2> HIDE DEF c
  <2> QED BY <1>1, <2>1, <2>2, <2>5, <2>6, <2>7, <2>8
<1>4. CASE M!PollRecv /\ ch.queue # <<>>
  <2> DEFINE q == Tail(ch.queue)
             c == [ch EXCEPT !.queue = q, !.rx = "idle"]
  <2>1. M!WakeOneSender(c, op) /\ UNCHANGED <<late, lateRx>> /\ ch.rx = "ready"
    BY <1>4 DEF M!PollRecv
  <2>2. q \in Seq({"item"}) /\ Len(q) = Len(ch.queue) - 1
    BY <1>0, <1>4
  <2> HIDE DEF q
  <2>3. /\ c \in ChRec /\ c.queue = q /\ c.reserved = ch.reserved
        /\ c.receiver_alive = ch.receiver_alive /\ c.send_waiters = ch.send_waiters /\ c.rx = "idle"
    BY <1>0, <2>2 DEF ChRec
  <2> HIDE DEF c
  <2>4. ListExact(c, op) /\ FuturesExact(c, op)
    BY <1>0, <2>3 DEF ChannelExact, ListExact, FuturesExact
  <2>5. CapacityKept(c, op)
    BY <1>0, <2>2, <2>3 DEF ChannelExact, CapacityKept
  <2>6. CapacityOffered(c, op, 1)
    <3>1. SendGrants(op) \subseteq Ops
      BY DEF SendGrants
    <3>2. Cardinality(SendGrants(op)) \in Nat
      BY <3>1, FS_Subset, FS_CardinalityType
    <3> QED BY <1>0, <2>2, <2>3, <3>2 DEF ChannelExact, CapacityOffered
  <2>7. ChannelExact(c, op, 1)
    BY <2>4, <2>5, <2>6 DEF ChannelExact
  <2> QED BY <1>0, <2>1, <2>3, <2>7, GrantMoves
<1> QED BY <1>2, <1>3, <1>4

LEMMA MpscStep ==
  ASSUME IsFiniteSet(Ops), Cap \in Nat, MpscInv, [M!Next]_(M!vars)
  PROVE  MpscInv'
<1>0. /\ ch \in ChRec /\ op \in [Ops -> OpRec] /\ late \subseteq Ops /\ lateRx \in BOOLEAN
      /\ ch.send_waiters \in Seq(Ops) /\ ChannelExact(ch, op, 0) /\ RxExact /\ DeadAreTold
      /\ Len(ch.queue) \in Nat /\ ch.reserved \in Nat
  BY DEF MpscInv, MpscType, ChRec
<1>1. CASE M!try_send
  <2>1. /\ ch' \in ChRec /\ Len(ch'.queue) = Len(ch.queue) + 1 /\ ch'.reserved = ch.reserved
        /\ ch'.senders = ch.senders /\ ch'.receiver_alive = ch.receiver_alive
        /\ ch'.send_waiters = ch.send_waiters
        /\ ch'.rx = "parked" => ch.rx = "parked" /\ ~ch.recv_waker
        /\ ch.rx = "dropped" => ch'.rx = "dropped"
    BY <1>0, <1>1, PushFacts DEF M!try_send
  <2>2. ch.send_waiters = <<>> /\ UNCHANGED <<op, late, lateRx>> /\ M!capacity_available(ch)
    BY <1>1 DEF M!try_send
  <2>3. ListExact(ch', op') /\ FuturesExact(ch', op')
    BY <1>0, <2>1, <2>2 DEF ChannelExact, ListExact, FuturesExact
  <2>4. CapacityKept(ch', op')
    BY <1>0, <2>1, <2>2 DEF ChannelExact, CapacityKept, M!capacity_available
  <2>5. CapacityOffered(ch', op', 0)
    BY <2>1, <2>2 DEF CapacityOffered
  <2>6. RxExact' /\ DeadAreTold'
    BY <1>0, <2>1, <2>2 DEF RxExact, M!ReceiverNotStranded, DeadAreTold
  <2> QED BY <1>0, <2>1, <2>2, <2>3, <2>4, <2>5, <2>6 DEF MpscInv, MpscType, ChannelExact
<1>2. CASE M!DropReceiver
  <2> DEFINE w == ch.send_waiters
             e == <<>>
  <2>1. /\ ch.rx = "idle" /\ ch.receiver_alive /\ UNCHANGED <<op, lateRx>>
        /\ ch' = [ch EXCEPT !.rx = "dropped", !.receiver_alive = FALSE, !.send_waiters = e]
        /\ late' = {w[i] : i \in DOMAIN w}
    BY <1>0, <1>2 DEF M!DropReceiver, RxExact
  <2>2. e \in Seq(Ops) /\ Distinct(e) /\ \A x : ~Occurs(e, x)
    BY DEF Distinct, Occurs
  <2> HIDE DEF e
  <2>3. /\ ch' \in ChRec /\ ch'.queue = ch.queue /\ ch'.reserved = ch.reserved
        /\ ~ch'.receiver_alive /\ ch'.send_waiters = e /\ ch'.rx = "dropped"
    BY <1>0, <2>1, <2>2 DEF ChRec
  <2>4. DOMAIN w = 1 .. Len(w) /\ \A i \in 1 .. Len(w) : w[i] \in Ops
    BY <1>0
  <2>5. late' \subseteq Ops
    BY <2>1, <2>4
  <2>6. ListExact(ch', op')
    BY <2>2, <2>3 DEF ListExact
  <2>7. FuturesExact(ch', op')
    BY <1>0, <2>1, <2>3 DEF ChannelExact, FuturesExact, FutureExact
  <2>8. CapacityKept(ch', op')
    BY <1>0, <2>1, <2>3 DEF ChannelExact, CapacityKept
  <2>9. CapacityOffered(ch', op', 0)
    BY <2>3 DEF CapacityOffered
  <2>10. DeadAreTold'
    <3> SUFFICES ASSUME NEW o \in Ops, op[o].status = "parked" PROVE o \in late'
      BY <2>1 DEF DeadAreTold
    <3>1. AwaitsGrant(op[o])
      BY <1>0, <2>1 DEF ChannelExact, FuturesExact, FutureExact, AwaitsGrant
    <3>2. Occurs(w, o)
      BY <1>0, <2>1, <3>1 DEF ChannelExact, ListExact
    <3> QED BY <2>1, <2>4, <3>2 DEF Occurs
  <2>11. RxExact'
    BY <2>3 DEF RxExact, M!ReceiverNotStranded
  <2> QED BY <1>0, <2>1, <2>3, <2>5, <2>6, <2>7, <2>8, <2>9, <2>10, <2>11
          DEF MpscInv, MpscType, ChannelExact
<1>3. CASE \/ M!CloneSender \/ M!DropSender \/ M!WakeLateRx \/ M!recv \/ M!CancelRecv
  BY <1>3, MpscReceiverStep
<1>4. CASE M!PollRecv
  BY <1>4, MpscReceiverStep, MpscGrantStep
<1>5. CASE M!SpuriousPoll
  <2>1. CASE UNCHANGED op
    BY <1>5, <2>1, MpscReceiverStep
  <2>2. CASE ~UNCHANGED op
    <3>1. PICK o \in Ops : op[o].status = "parked" /\ op' = [op EXCEPT ![o].status = "ready"] /\ UNCHANGED ch
      BY <1>5, <2>2 DEF M!SpuriousPoll
    <3>2. UNCHANGED <<ch, late, lateRx>>
      BY <1>5, <3>1 DEF M!SpuriousPoll
    <3> QED BY <3>1, <3>2, MpscFutureStep
  <2> QED BY <2>1, <2>2
<1>6. ASSUME NEW o \in Ops,
             \/ M!send(o) \/ M!reserve(o) \/ M!PollSend(o) \/ M!PollReserve(o) \/ M!PermitSend(o)
             \/ M!WakeLate(o)
      PROVE  MpscInv'
  BY <1>6, MpscFutureStep
<1>7. ASSUME NEW o \in Ops, M!DropOp(o)
      PROVE  MpscInv'
  BY <1>7, MpscFutureStep, MpscGrantStep
<1>8. ASSUME NEW o \in Ops, M!PermitDrop(o)
      PROVE  MpscInv'
  BY <1>8, MpscGrantStep
<1>9. CASE UNCHANGED M!vars
  BY <1>9 DEF M!vars, MpscInv, MpscType, DeadAreTold, RxExact, M!ReceiverNotStranded
<1> QED BY <1>1, <1>2, <1>3, <1>4, <1>5, <1>6, <1>7, <1>8, <1>9 DEF M!Next

(* MpscIsSound: for any capacity and any number of Send and Reserve futures, the slots *)
(* of the channel are counted exactly and nobody waits for a wake that will not come.  *)
(* capacity is the usize channel() is given, and the futures alive at once are finitely *)
(* many.                                                                                *)
THEOREM MpscIsSound ==
  ASSUME IsFiniteSet(Ops), Cap \in Nat
  PROVE  M!Spec => []MpscSound
<1>1. M!Init => MpscInv
  <2> SUFFICES ASSUME M!Init PROVE MpscInv
    OBVIOUS
  <2> DEFINE e == <<>>
             v == M!Fresh(FALSE, "none")
  <2>1. /\ v \in OpRec /\ v.status = "none" /\ ~AwaitsGrant(v) /\ FutureExact(TRUE, v)
        /\ ~HoldsSlot(v)
    BY DEF M!Fresh, OpRec, AwaitsGrant, FutureExact, HoldsSlot
  <2>2. e \in Seq(Ops) /\ e \in Seq({"item"}) /\ Distinct(e) /\ (\A x : ~Occurs(e, x)) /\ Len(e) = 0
    BY DEF Distinct, Occurs
  <2> HIDE DEF v, e
  <2>3. /\ ch = [queue |-> e, reserved |-> 0, senders |-> 1, receiver_alive |-> TRUE,
                 recv_waker |-> FALSE, send_waiters |-> e, rx |-> "idle"]
        /\ op = [o \in Ops |-> v] /\ late = {} /\ lateRx = FALSE
    BY DEF M!Init, e, v
  <2>4. MpscType
    BY <2>1, <2>2, <2>3 DEF MpscType, ChRec
  <2>5. ListExact(ch, op) /\ FuturesExact(ch, op)
    BY <2>1, <2>2, <2>3 DEF ListExact, FuturesExact
  <2>6. SlotHolders(op) = {}
    BY <2>1, <2>3 DEF SlotHolders
  <2>7. CapacityKept(ch, op)
    <3>1. ch.reserved = 0 /\ Len(ch.queue) = 0
      BY <2>2, <2>3
    <3> QED BY <2>6, <3>1, FS_EmptySet DEF CapacityKept
  <2>8. CapacityOffered(ch, op, 0)
    BY <2>3 DEF CapacityOffered, e
  <2>9. DeadAreTold /\ RxExact
    BY <2>3 DEF DeadAreTold, RxExact, M!ReceiverNotStranded
  <2> QED BY <2>4, <2>5, <2>7, <2>8, <2>9 DEF MpscInv, ChannelExact
<1>2. MpscInv /\ [M!Next]_(M!vars) => MpscInv'
  BY MpscStep
<1>3. MpscInv => M!MpscSound
  <2> SUFFICES ASSUME MpscInv PROVE M!MpscSound
    OBVIOUS
  <2>0. /\ ch \in ChRec /\ op \in [Ops -> OpRec] /\ ch.send_waiters \in Seq(Ops)
        /\ Len(ch.queue) \in Nat /\ ch.reserved \in Nat /\ ChannelExact(ch, op, 0)
    BY DEF MpscInv, MpscType, ChRec
  <2>1. M!SlotsExact
    <3>1. M!Holders = SlotHolders(op)
      BY DEF M!Holders, SlotHolders, HoldsSlot
    <3> QED BY <2>0, <3>1, MpscNames DEF M!SlotsExact, ChannelExact, CapacityKept
  <2>2. M!WaitersReachable
    <3> SUFFICES ASSUME NEW o \in Ops
                 PROVE  Cardinality({i \in DOMAIN ch.send_waiters : ch.send_waiters[i] = o}) =
                          IF ch.receiver_alive /\ AwaitsGrant(op[o]) THEN 1 ELSE 0
      BY MpscNames DEF M!WaitersReachable, AwaitsGrant, M!Pending
    <3> DEFINE w == ch.send_waiters
               at == {i \in DOMAIN w : w[i] = o}
    <3>1. DOMAIN w = 1 .. Len(w) /\ Distinct(w)
      BY <2>0 DEF ChannelExact, ListExact
    <3>2. Occurs(w, o) <=> ch.receiver_alive /\ AwaitsGrant(op[o])
      BY <2>0 DEF ChannelExact, ListExact
    <3>3. CASE Occurs(w, o)
      <4>1. PICK i \in 1 .. Len(w) : w[i] = o
        BY <3>3 DEF Occurs
      <4>2. at = {i}
        BY <3>1, <4>1 DEF Distinct
      <4> QED BY <3>2, <3>3, <4>2, FS_Singleton
    <3>4. CASE ~Occurs(w, o)
      <4>1. at = {}
        BY <3>1, <3>4 DEF Occurs
      <4> QED BY <3>2, <3>4, <4>1, FS_EmptySet
    <3> QED BY <3>3, <3>4
  <2>3. M!SenderNotStranded
    <3>1. ASSUME ch.receiver_alive, M!Grants(ch)
          PROVE  \E o \in Ops : M!Pending(o) /\ op[o].granted
      <4>1. SendGrants(op) \subseteq Ops
        BY DEF SendGrants
      <4>2. IsFiniteSet(SendGrants(op)) /\ Cardinality(SendGrants(op)) \in Nat
        BY <4>1, FS_Subset, FS_CardinalityType
      <4>3. Cardinality(SendGrants(op)) # 0
        <5>1. Len(ch.queue) + ch.reserved < Cap /\ ch.send_waiters # <<>>
          BY <3>1 DEF M!Grants, M!capacity_available
        <5>2. Cap - Len(ch.queue) - ch.reserved <= Cardinality(SendGrants(op)) + 0
          <6>1. CapacityOffered(ch, op, 0)
            BY <2>0 DEF ChannelExact
          <6> QED BY <3>1, <5>1, <6>1, Zenon DEF CapacityOffered
        <5> DEFINE k == Len(ch.queue)
                   n == Cardinality(SendGrants(op))
        <5>3. k \in Nat /\ n \in Nat /\ ch.reserved \in Nat /\ k + ch.reserved < Cap
              /\ Cap - k - ch.reserved <= n + 0
          BY <2>0, <4>2, <5>1, <5>2
        <5> HIDE DEF k, n
        <5>4. n # 0
          BY <5>3
        <5> QED BY <5>4 DEF n
      <4>4. PICK o \in SendGrants(op) : TRUE
        BY <4>2, <4>3, FS_EmptySet
      <4> QED BY <2>0, <4>4 DEF SendGrants, SendGrant, ChannelExact, FuturesExact, FutureExact,
                M!Pending, OpRec
    <3>2. ASSUME NEW o \in Ops, op[o].status = "parked"
          PROVE  IF ch.receiver_alive THEN ~op[o].granted ELSE o \in late
      BY <3>2, <2>0 DEF MpscInv, ChannelExact, FuturesExact, FutureExact, DeadAreTold
    <3> QED BY <3>1, <3>2 DEF M!SenderNotStranded
  <2> QED BY <2>1, <2>2, <2>3 DEF MpscInv, RxExact, M!MpscSound
<1> QED BY <1>1, <1>2, <1>3, PTL DEF M!Spec, MpscSound
-----------------------------------------------------------------------------
(* time/delay_queue.rs *)

Expired(k) == Occurs(expired, k)
SinkRec == [waker : {"none", "old", "now"}, notified : BOOLEAN]
OwnerPcs == {"idle", "pending", "store", "expire", "notify", "cancel", "again", "register", "swap", "gone"}
AtKey == {"store", "expire", "cancel"}

DelayType ==
  /\ qEntries \subseteq Keys /\ IsFiniteSet(qEntries) /\ expired \in Seq(Keys) /\ Distinct(expired)
  /\ timer \in [Keys -> {"none", "armed", "fired", "cancelled"}] /\ sink \in SinkRec
  /\ owner.pc \in OwnerPcs /\ (owner.pc \in AtKey => owner.key \in Keys)
  /\ woken \in BOOLEAN /\ moved \in BOOLEAN /\ out \in [Keys -> {"no", "expired", "removed", "dropped"}]

(* A value is in one place, the hands of an insert included, until it leaves. *)
InHand(k, pcs) == owner.pc \in pcs /\ owner.key = k
KeyInv(k) ==
  /\ k \in qEntries \/ Expired(k) => out[k] = "no"
  /\ ~(k \in qEntries /\ Expired(k))
  /\ timer[k] = "none" => k \notin qEntries /\ ~Expired(k) /\ out[k] = "no"
  /\ InHand(k, {"store", "expire"}) => k \notin qEntries /\ ~Expired(k) /\ out[k] = "no" /\ timer[k] # "none"
  /\ InHand(k, {"cancel"}) => k \in qEntries

(* A timer whose call of the sink came after the owner's look left a mark: the owner's *)
(* task was woken, or the flag that it looks at after leaving its waker is set.         *)
Called(k) == k \in qEntries /\ timer[k] = "fired" /\ k \notin qCalling
SinkInv ==
  /\ owner.pc \in {"register", "swap", "pending"} => expired = <<>>
  /\ ~moved => sink.waker # "old"
  /\ ~moved /\ owner.pc \in {"swap", "pending"} => woken \/ sink.waker = "now"
  /\ ~moved /\ owner.pc \in {"register", "swap"} /\ (\E k \in Keys : Called(k)) => woken \/ sink.notified
  /\ ~moved /\ owner.pc = "pending" /\ (\E k \in Keys : Called(k)) => woken

DelayInv == DelayType /\ (\A k \in Keys : KeyInv(k)) /\ SinkInv

LEMMA DelayNames ==
  ASSUME NEW S
  PROVE  Q!Cardinality(S) = Cardinality(S)
  BY DEF Q!Cardinality, Cardinality

(* The sequence that stands for a set drained in any order. *)
LEMMA SetToSeqFacts ==
  ASSUME NEW S, IsFiniteSet(S)
  PROVE  /\ Q!SetToSeq(S) \in Seq(S) /\ Distinct(Q!SetToSeq(S))
         /\ \A x : Occurs(Q!SetToSeq(S), x) <=> x \in S
<1> DEFINE n == Cardinality(S)
           f == Q!SetToSeq(S)
<1>1. n \in Nat /\ ExistsBijection(1 .. n, S)
  BY FS_CardinalityType
<1>2. PICK g \in [1 .. n -> S] : \A a, b \in 1 .. n : g[a] = g[b] => a = b
  BY <1>1 DEF ExistsBijection, Bijection, Injection, IsInjective
<1>3. \E h \in [1 .. n -> S] : Q!IsInjective(h)
  BY <1>2 DEF Q!IsInjective
<1>4. f \in [1 .. n -> S] /\ Q!IsInjective(f)
  <2>1. f = CHOOSE h \in [1 .. n -> S] : Q!IsInjective(h)
    BY DelayNames DEF Q!SetToSeq
  <2> HIDE DEF f, n
  <2> QED BY <1>3, <2>1, Zenon
<1> HIDE DEF f, n
<1>5. \A a, b \in 1 .. n : f[a] = f[b] => a = b
  BY <1>4 DEF Q!IsInjective
<1>6. f \in Seq(S) /\ Len(f) = n
  BY <1>1, <1>4
<1>7. f \in Injection(1 .. n, S)
  BY <1>4, <1>5 DEF Injection, IsInjective
<1>8. Cardinality(1 .. n) = n
  BY <1>1, FS_Interval
<1>9. f \in Surjection(1 .. n, S)
  BY <1>7, <1>8, FS_Injection DEF n
<1>10. \A x \in S : \E i \in 1 .. n : f[i] = x
  BY <1>9 DEF Surjection
<1> QED BY <1>4, <1>5, <1>6, <1>10 DEF f, Occurs, Distinct

(* FireSink::notify: whoever calls it leaves the owner woken, or the flag set while no *)
(* waker is there.                                                                      *)
LEMMA NotifyMarks ==
  ASSUME DelayType, Q!notify, ~moved => sink.waker # "old"
  PROVE  /\ sink' \in SinkRec /\ woken' \in BOOLEAN
         /\ woken => woken'
         /\ sink.notified => sink'.notified
         /\ ~moved => sink'.waker # "old" /\ (woken' \/ sink'.notified)
         /\ ~moved /\ sink.waker = "now" => woken'
<1>1. CASE sink.waker = "none"
  <2>1. sink' = [sink EXCEPT !.notified = TRUE] /\ woken' = woken
    BY <1>1 DEF Q!notify, Q!Remembers
  <2> QED BY <1>1, <2>1 DEF DelayType, SinkRec
<1>2. CASE sink.waker # "none"
  <2>1. sink' = [sink EXCEPT !.waker = "none"] /\ woken' = (woken \/ sink.waker = "now")
    BY <1>2 DEF Q!notify
  <2> QED BY <1>2, <2>1 DEF DelayType, SinkRec
<1> QED BY <1>1, <1>2

LEMMA DelayStep ==
  ASSUME DelayInv, [Q!Next]_(Q!vars)
  PROVE  DelayInv'
<1>0. DelayType /\ SinkInv /\ \A k \in Keys : KeyInv(k)
  BY DEF DelayInv
<1> USE <1>0 DEF AtKey, OwnerPcs
<1>1. CASE UNCHANGED Q!vars
  BY <1>1 DEF Q!vars, DelayInv, DelayType, KeyInv, SinkInv, Expired, InHand, Called
<1>2. ASSUME NEW k \in Keys, Q!Fire(k) PROVE DelayInv'
  <2>1. /\ timer[k] = "armed" /\ timer' = [timer EXCEPT ![k] = "fired"] /\ qCalling' = qCalling \cup {k}
        /\ UNCHANGED <<qEntries, expired, qClosed, sink, owner, woken, moved, out>>
    BY <1>2 DEF Q!Fire
  <2>2. DelayType'
    BY <2>1 DEF DelayType
  <2>3. \A j \in Keys : KeyInv(j)'
    BY <2>1 DEF DelayType, KeyInv, Expired, InHand
  <2>4. \A j \in Keys : Called(j)' => Called(j)
    BY <2>1 DEF DelayType, Called
  <2>5. SinkInv'
    BY <2>1, <2>4 DEF SinkInv
  <2> QED BY <2>2, <2>3, <2>5 DEF DelayInv
<1>3. ASSUME NEW k \in Keys, Q!CallSink(k) PROVE DelayInv'
  <2>1. Q!notify /\ UNCHANGED <<qEntries, expired, qClosed, timer, owner, moved, out>>
    BY <1>3 DEF Q!CallSink
  <2>2. /\ sink' \in SinkRec /\ woken' \in BOOLEAN /\ (woken => woken') /\ (sink.notified => sink'.notified)
        /\ ~moved => sink'.waker # "old" /\ (woken' \/ sink'.notified)
        /\ ~moved /\ sink.waker = "now" => woken'
    BY <2>1, NotifyMarks DEF SinkInv
  <2>3. DelayType' /\ \A j \in Keys : KeyInv(j)'
    BY <2>1, <2>2 DEF DelayType, KeyInv, Expired, InHand
  <2>4. SinkInv'
    BY <2>1, <2>2 DEF SinkInv
  <2> QED BY <2>3, <2>4 DEF DelayInv
<1>4. ASSUME NEW k \in Keys, Q!insert(k) PROVE DelayInv'
  <2>0. PICK due \in BOOLEAN :
          /\ timer' = [timer EXCEPT ![k] = IF due THEN "fired" ELSE "armed"]
          /\ owner' = [pc |-> IF due THEN "expire" ELSE "store", key |-> k]
    BY <1>4, Zenon DEF Q!insert, Q!Go
  <2>1. /\ timer[k] = "none" /\ timer' = [timer EXCEPT ![k] = IF due THEN "fired" ELSE "armed"]
        /\ owner'.pc = (IF due THEN "expire" ELSE "store") /\ owner'.key = k
        /\ UNCHANGED <<qEntries, expired, sink, woken, moved, out>>
    BY <1>4, <2>0 DEF Q!insert
  <2>2. DelayType'
    BY <2>1 DEF DelayType
  <2>3. \A j \in Keys : KeyInv(j)'
    BY <2>1 DEF DelayType, KeyInv, Expired, InHand
  <2>4. SinkInv'
    BY <2>1 DEF SinkInv
  <2> QED BY <2>2, <2>3, <2>4 DEF DelayInv
<1>5. CASE Q!InsertStore
  <2>0. PICK k \in Keys : k = owner.key
    BY <1>5 DEF Q!InsertStore, DelayType
  <2>1. k \notin qEntries /\ ~Expired(k) /\ out[k] = "no" /\ timer[k] # "none"
    BY <1>5, <2>0 DEF Q!InsertStore, KeyInv, InHand
  <2>2. UNCHANGED <<qClosed, timer, qCalling, sink, woken, moved, out>> /\ owner'.pc \in {"idle", "notify"}
    BY <1>5 DEF Q!InsertStore, Q!Go
  <2>3. CASE owner.pc = "store"
    <3>1. qEntries' = qEntries \cup {k} /\ expired' = expired
      BY <1>5, <2>0, <2>3 DEF Q!InsertStore
    <3>2. IsFiniteSet(qEntries \cup {k})
      BY FS_AddElement DEF DelayType
    <3>3. DelayType'
      BY <2>2, <3>1, <3>2 DEF DelayType
    <3>4. \A j \in Keys : KeyInv(j)'
      BY <2>1, <2>2, <3>1 DEF KeyInv, Expired, InHand
    <3>5. SinkInv'
      BY <2>2 DEF SinkInv
    <3> QED BY <3>3, <3>4, <3>5 DEF DelayInv
  <2>4. CASE owner.pc = "expire"
    <3>1. qEntries' = qEntries /\ expired' = Append(expired, k)
      BY <1>5, <2>0, <2>4 DEF Q!InsertStore
    <3>2. expired' \in Seq(Keys) /\ Distinct(expired') /\ \A x : Expired(x)' <=> Expired(x) \/ x = k
      BY <2>1, <3>1, AppendFacts DEF DelayType, Expired
    <3>3. DelayType'
      BY <2>2, <3>1, <3>2 DEF DelayType
    <3>4. \A j \in Keys : KeyInv(j)'
      BY <2>1, <2>2, <3>1, <3>2 DEF KeyInv, InHand
    <3>5. SinkInv'
      BY <2>2 DEF SinkInv
    <3> QED BY <3>3, <3>4, <3>5 DEF DelayInv
  <2> QED BY <1>5, <2>3, <2>4 DEF Q!InsertStore
<1>6. CASE Q!InsertNotify
  <2>1. Q!notify /\ owner'.pc = "idle" /\ UNCHANGED <<qEntries, expired, qClosed, timer, qCalling, moved, out>>
    BY <1>6 DEF Q!InsertNotify, Q!Go
  <2>2. /\ sink' \in SinkRec /\ woken' \in BOOLEAN /\ (~moved => sink'.waker # "old")
    BY <2>1, NotifyMarks DEF SinkInv
  <2>3. DelayType' /\ (\A j \in Keys : KeyInv(j)') /\ SinkInv'
    BY <2>1, <2>2 DEF DelayType, KeyInv, Expired, InHand, SinkInv
  <2> QED BY <2>3 DEF DelayInv
<1>7. ASSUME NEW k \in Keys, Q!remove(k) PROVE DelayInv'
  <2>1. /\ k \in qEntries /\ owner'.pc = "cancel" /\ owner'.key = k
        /\ UNCHANGED <<qEntries, expired, qClosed, timer, qCalling, sink, woken, moved, out>>
    BY <1>7 DEF Q!remove, Q!Go
  <2> QED BY <2>1 DEF DelayInv, DelayType, KeyInv, Expired, InHand, SinkInv
<1>8. CASE Q!RemoveCancel
  <2>0. PICK k \in Keys : k = owner.key
    BY <1>8 DEF Q!RemoveCancel, DelayType
  <2>1. k \in qEntries /\ ~Expired(k) /\ timer[k] # "none"
    BY <1>8, <2>0 DEF Q!RemoveCancel, KeyInv, InHand
  <2>2. /\ owner'.pc = "idle" /\ qEntries' = qEntries \ {k} /\ out' = [out EXCEPT ![k] = "removed"]
        /\ timer' = [timer EXCEPT ![k] = IF timer[k] = "armed" THEN "cancelled" ELSE timer[k]]
        /\ UNCHANGED <<expired, qClosed, qCalling, sink, woken, moved>>
    BY <1>8, <2>0 DEF Q!RemoveCancel, Q!Go
  <2>3. IsFiniteSet(qEntries \ {k})
    BY FS_RemoveElement DEF DelayType
  <2>4. DelayType'
    BY <2>2, <2>3 DEF DelayType
  <2>5. \A j \in Keys : KeyInv(j)'
    BY <2>1, <2>2 DEF DelayType, KeyInv, Expired, InHand
  <2>6. SinkInv'
    BY <2>2 DEF SinkInv
  <2> QED BY <2>4, <2>5, <2>6 DEF DelayInv
<1>9. CASE Q!Collect
  <2>0. PICK all, fired : all = expired \o Q!SetToSeq(fired) /\ fired = Q!Fired
    OBVIOUS
  <2>1. /\ owner.pc \in {"idle", "pending", "again"} /\ qEntries' = qEntries \ fired
        /\ woken' = (woken /\ owner.pc = "again") /\ UNCHANGED <<qClosed, timer, qCalling, sink, moved>>
    BY <1>9, <2>0 DEF Q!Collect
  <2>2. fired \subseteq qEntries /\ fired = {k \in qEntries : timer[k] = "fired"}
    BY <2>0 DEF Q!Fired
  <2>3. IsFiniteSet(fired) /\ IsFiniteSet(qEntries \ fired)
    BY <2>2, FS_Subset, FS_Difference DEF DelayType
  <2>4. PICK s : s = Q!SetToSeq(fired)
    OBVIOUS
  <2>5. s \in Seq(fired) /\ Distinct(s) /\ \A x : Occurs(s, x) <=> x \in fired
    BY <2>3, <2>4, SetToSeqFacts
  <2>6. s \in Seq(Keys)
    BY <2>2, <2>5 DEF DelayType
  <2>7. \A x : ~(Occurs(expired, x) /\ Occurs(s, x))
    <3> SUFFICES ASSUME NEW x, Occurs(expired, x), Occurs(s, x) PROVE FALSE
      OBVIOUS
    <3>1. x \in qEntries /\ x \in Keys
      BY <2>2, <2>5 DEF DelayType
    <3> QED BY <3>1 DEF KeyInv, Expired
  <2>8. /\ all \in Seq(Keys) /\ Distinct(all) /\ \A x : Occurs(all, x) <=> Expired(x) \/ x \in fired
    <3>1. expired \in Seq(Keys) /\ Distinct(expired) /\ all = expired \o s
      BY <2>0, <2>4 DEF DelayType
    <3> QED BY <2>5, <2>6, <2>7, <3>1, ConcatFacts DEF Expired
  <2>9. CASE all # <<>>
    <3>1. PICK h : h = Head(all)
      OBVIOUS
    <3>2. expired' = Tail(all) /\ out' = [out EXCEPT ![h] = "expired"] /\ owner'.pc = "idle"
      BY <1>9, <2>0, <2>9, <3>1 DEF Q!Collect, Q!Go
    <3>3. /\ Tail(all) \in Seq(Keys) /\ h \in Keys /\ Distinct(Tail(all))
          /\ \A x : Occurs(all, x) <=> Occurs(Tail(all), x) \/ x = h
          /\ ~Occurs(Tail(all), h)
      BY <2>8, <2>9, <3>1, TailFacts
    <3>4. DelayType'
      BY <2>1, <2>3, <3>2, <3>3 DEF DelayType
    <3>5. ASSUME NEW j \in Keys PROVE KeyInv(j)'
      <4>1. Expired(j)' <=> (Expired(j) \/ j \in fired) /\ j # h
        BY <2>8, <3>2, <3>3 DEF Expired
      <4>2. j = h => timer[j] # "none"
        BY <2>2, <2>8, <3>3 DEF KeyInv
      <4>3. j # h => out'[j] = out[j]
        BY <3>2 DEF DelayType
      <4>4. j = h => j \notin qEntries'
        BY <2>1, <2>8, <3>3 DEF KeyInv
      <4> QED BY <2>1, <2>2, <3>2, <4>1, <4>2, <4>3, <4>4 DEF KeyInv, InHand
    <3>6. SinkInv'
      BY <2>1, <3>2 DEF SinkInv
    <3> QED BY <3>4, <3>5, <3>6 DEF DelayInv
  <2>10. CASE all = <<>>
    <3>1. owner'.pc = "register" /\ UNCHANGED <<expired, out>>
      BY <1>9, <2>0, <2>10 DEF Q!Collect, Q!Go
    <3>2. fired = {} /\ expired = <<>>
      <4>1. \A x : ~Occurs(all, x)
        BY <2>10 DEF Occurs
      <4>2. fired = {} /\ \A x : ~Expired(x)
        BY <2>8, <4>1
      <4>3. PICK n \in Nat : n = Len(expired)
        BY DEF DelayType
      <4>4. 1 \notin 1 .. n
        BY <4>2, <4>3 DEF Expired, Occurs
      <4>5. n = 0
        BY <4>4
      <4>6. expired \in Seq(Keys) /\ Len(expired) = 0
        BY <4>3, <4>5 DEF DelayType
      <4>7. expired = <<>>
        BY <4>6
      <4> QED BY <4>2, <4>7
    <3>3. qEntries' = qEntries
      BY <2>1, <3>2
    <3>4. DelayType' /\ \A j \in Keys : KeyInv(j)'
      BY <2>1, <3>1, <3>3 DEF DelayType, KeyInv, Expired, InHand
    <3>5. \A j \in Keys : ~Called(j)'
      BY <2>1, <2>2, <3>2, <3>3 DEF Called
    <3>6. SinkInv'
      BY <2>1, <3>1, <3>2, <3>5 DEF SinkInv
    <3> QED BY <3>4, <3>6 DEF DelayInv
  <2> QED BY <2>9, <2>10
<1>10. CASE Q!Register
  <2>1. /\ UNCHANGED <<qEntries, expired, qClosed, timer, qCalling, woken, moved, out>>
        /\ \/ owner'.pc = "idle" /\ sink' = sink
           \/ owner'.pc = "swap" /\ sink' = [sink EXCEPT !.waker = "now"]
    BY <1>10 DEF Q!Register, Q!Go
  <2>2. /\ sink' \in SinkRec /\ sink'.notified = sink.notified
        /\ sink'.waker = "now" \/ (owner'.pc = "idle" /\ sink' = sink)
    BY <2>1 DEF DelayType, SinkRec
  <2>3. owner.pc = "register" /\ owner'.pc \in {"idle", "swap"}
    BY <1>10, <2>1 DEF Q!Register
  <2>4. DelayType' /\ \A j \in Keys : KeyInv(j)'
    BY <2>1, <2>2, <2>3 DEF DelayType, KeyInv, Expired, InHand
  <2>5. SinkInv'
    BY <2>1, <2>2, <2>3 DEF SinkInv, Called
  <2> QED BY <2>4, <2>5 DEF DelayInv
<1>11. CASE Q!SwapNotified
  <2>1. /\ owner.pc = "swap" /\ sink' = [sink EXCEPT !.notified = FALSE]
        /\ owner'.pc = (IF sink.notified THEN "again" ELSE "pending")
        /\ UNCHANGED <<qEntries, expired, qClosed, timer, qCalling, woken, moved, out>>
    BY <1>11 DEF Q!SwapNotified, Q!Go
  <2>2. sink' \in SinkRec /\ sink'.waker = sink.waker
    BY <2>1 DEF DelayType, SinkRec
  <2>3. DelayType' /\ \A j \in Keys : KeyInv(j)'
    BY <2>1, <2>2 DEF DelayType, KeyInv, Expired, InHand
  <2>4. SinkInv'
    BY <2>1, <2>2 DEF SinkInv, Called
  <2> QED BY <2>3, <2>4 DEF DelayInv
<1>12. CASE Q!close
  <2>1. owner'.pc = "idle" /\ UNCHANGED <<qEntries, expired, timer, qCalling, sink, woken, moved, out>>
    BY <1>12 DEF Q!close, Q!Go
  <2> QED BY <2>1 DEF DelayInv, DelayType, KeyInv, Expired, InHand, SinkInv
<1>13. CASE Q!MoveQueue
  <2>1. /\ owner'.pc = "idle" /\ moved' = TRUE /\ woken' = FALSE /\ UNCHANGED <<qEntries, expired, timer, out>>
        /\ sink' = [sink EXCEPT !.waker = IF sink.waker = "now" THEN "old" ELSE sink.waker]
    BY <1>13 DEF Q!MoveQueue, Q!Go
  <2>2. sink' \in SinkRec
    BY <2>1 DEF DelayType, SinkRec
  <2> QED BY <2>1, <2>2 DEF DelayInv, DelayType, KeyInv, Expired, InHand, SinkInv
<1>14. CASE Q!DropQueue
  <2>1. /\ owner'.pc = "gone" /\ qEntries' = {} /\ expired' = <<>>
        /\ out' = [k \in Keys |-> IF k \in qEntries \cup Q!ToSet(expired) THEN "dropped" ELSE out[k]]
        /\ timer' = [k \in Keys |-> IF k \in qEntries /\ timer[k] = "armed" THEN "cancelled" ELSE timer[k]]
        /\ UNCHANGED <<qClosed, qCalling, sink, woken, moved>>
    BY <1>14 DEF Q!DropQueue, Q!Go
  <2>2. \A k : k \in Q!ToSet(expired) <=> Expired(k)
    BY DEF Q!ToSet, Expired, Occurs, DelayType
  <2>3. expired' \in Seq(Keys) /\ Distinct(expired') /\ \A x : ~Expired(x)'
    BY <2>1 DEF Distinct, Expired, Occurs
  <2>4. DelayType'
    BY <2>1, <2>3, FS_EmptySet DEF DelayType
  <2>5. \A k \in Keys : KeyInv(k)'
    BY <2>1, <2>2, <2>3 DEF KeyInv, InHand
  <2>6. SinkInv'
    BY <2>1 DEF SinkInv
  <2> QED BY <2>4, <2>5, <2>6 DEF DelayInv
<1> QED BY <1>1, <1>2, <1>3, <1>4, <1>5, <1>6, <1>7, <1>8, <1>9, <1>10, <1>11, <1>12, <1>13, <1>14 DEF Q!Next

(* DelayQueueIsSound: a value leaves a DelayQueue once and is nowhere after that, and a  *)
(* task parked in next() beside an expired entry has been woken or will be by the call    *)
(* of the sink that is on its way, wherever the firing fell between the owner's look at   *)
(* the table, its waker and its look at notified (poll_expired, FireSink::notify).        *)
THEOREM DelayQueueIsSound == Q!Spec => []DelayQueueSound
<1>1. Q!Init => DelayInv
  <2> SUFFICES ASSUME Q!Init PROVE DelayInv
    OBVIOUS
  <2>1. DelayType
    <3>1. /\ qEntries = {} /\ expired = <<>> /\ woken = FALSE /\ moved = FALSE
          /\ timer = [k \in Keys |-> "none"] /\ out = [k \in Keys |-> "no"]
      BY DEF Q!Init
    <3>2. owner.pc = "idle" /\ sink \in SinkRec
      BY DEF Q!Init, SinkRec
    <3>3. expired \in Seq(Keys) /\ Distinct(expired)
      BY <3>1 DEF Distinct
    <3>4. IsFiniteSet(qEntries)
      BY <3>1, FS_EmptySet
    <3> QED BY <3>1, <3>2, <3>3, <3>4 DEF DelayType, OwnerPcs, AtKey
  <2>2. SinkInv /\ \A k \in Keys : KeyInv(k)
    BY DEF Q!Init, SinkInv, KeyInv, Expired, Occurs, InHand
  <2> QED BY <2>1, <2>2 DEF DelayInv
<1>2. DelayInv /\ [Q!Next]_(Q!vars) => DelayInv'
  BY DelayStep
<1>3. DelayInv => Q!DelayQueueSound
  <2> SUFFICES ASSUME DelayInv PROVE Q!DelayQueueSound
    OBVIOUS
  <2>1. expired \in Seq(Keys) /\ Distinct(expired) /\ qEntries \subseteq Keys
    BY DEF DelayInv, DelayType
  <2>2. \A k : k \in Q!ToSet(expired) <=> Expired(k) /\ k \in Keys
    BY <2>1 DEF Q!ToSet, Expired, Occurs
  <2>3. Cardinality(Q!ToSet(expired)) = Len(expired)
    <3>1. PICK n \in Nat : n = Len(expired)
      BY <2>1
    <3>2. Cardinality({expired[i] : i \in 1 .. n}) = Cardinality(1 .. n)
      <4>1. PICK I : I = 1 .. n
        OBVIOUS
      <4>2. I \subseteq 1 .. Len(expired) /\ IsFiniteSet(I)
        BY <3>1, <4>1, FS_Interval
      <4> QED BY <2>1, <4>1, <4>2, PlacesCount
    <3>3. Cardinality(1 .. n) = n
      BY FS_Interval
    <3>4. Q!ToSet(expired) = {expired[i] : i \in 1 .. n}
      BY <2>1, <3>1 DEF Q!ToSet
    <3> QED BY <3>1, <3>2, <3>3, <3>4
  <2>4. Q!ValueOnce
    <3>1. \A k \in Keys : k \in qEntries \cup Q!ToSet(expired) => out[k] = "no"
      BY <2>2 DEF DelayInv, KeyInv
    <3>2. qEntries \cap Q!ToSet(expired) = {}
      BY <2>2 DEF DelayInv, KeyInv
    <3> QED BY <2>3, <3>1, <3>2, DelayNames DEF Q!ValueOnce
  <2>5. Q!FireSeen
    BY <2>1 DEF DelayInv, SinkInv, Called, Q!FireSeen, Q!Fired
  <2> QED BY <2>4, <2>5 DEF Q!DelayQueueSound
<1> QED BY <1>1, <1>2, <1>3, PTL DEF Q!Spec, DelayQueueSound

=============================================================================
