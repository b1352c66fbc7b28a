-------------------------- MODULE StealQueueProofs --------------------------
(***************************************************************************)
(* As long as no claim reaches beyond the items still queued, the local run *)
(* queue moves every task out at most once and loses none, for claims of    *)
(* any size, any capacity, index width, starting index and number of        *)
(* thieves.  With at most three items queued no claim does, so the results  *)
(* hold there as they stand.  Indices are compared through their positions, *)
(* the distances from Start, which do not wrap in a        *)
(* behaviour that pushes fewer items than there are indices; the first      *)
(* lemmas are the arithmetic of remainders this rests on.                   *)
(***************************************************************************)
EXTENDS StealQueue, FiniteSetTheorems, TLAPS

(* A remainder is determined by its number and its modulus. *)

LEMMA ModUnique ==
  ASSUME NEW m \in Nat \ {0}, NEW q1 \in Int, NEW q2 \in Int, NEW r1 \in 0 .. m - 1, NEW r2 \in 0 .. m - 1,
         q1 * m + r1 = q2 * m + r2
  PROVE  r1 = r2
<1>1. q1 >= q2 + 1 => q1 * m >= q2 * m + m
  OBVIOUS
<1>2. q2 >= q1 + 1 => q2 * m >= q1 * m + m
  OBVIOUS
<1> QED BY <1>1, <1>2

LEMMA ModFacts ==
  ASSUME NEW m \in Nat \ {0}, NEW x \in Int
  PROVE  x % m \in 0 .. m - 1 /\ \E q \in Int : x = q * m + (x % m)
<1>1. x % m \in 0 .. m - 1
  OBVIOUS
<1>2. x = (x \div m) * m + (x % m) /\ x \div m \in Int
  OBVIOUS
<1> QED BY <1>1, <1>2

LEMMA ModIs ==
  ASSUME NEW m \in Nat \ {0}, NEW x \in Int, NEW q \in Int, NEW r \in 0 .. m - 1, x = q * m + r
  PROVE  x % m = r
<1>1. PICK p \in Int : x = p * m + (x % m)
  BY ModFacts
<1>2. x % m \in 0 .. m - 1
  BY ModFacts
<1> QED BY <1>1, <1>2, ModUnique

LEMMA SmallMod ==
  ASSUME NEW m \in Nat \ {0}, NEW x \in Nat
  PROVE  /\ x < m => x % m = x
         /\ m <= x /\ x < m + m => x % m = x - m
<1>1. ASSUME x < m PROVE x % m = x
  <2>1. x = 0 * m + x /\ x \in 0 .. m - 1
    BY <1>1
  <2> QED BY <2>1, ModIs
<1>2. ASSUME m <= x, x < m + m PROVE x % m = x - m
  <2>1. x = 1 * m + (x - m) /\ x - m \in 0 .. m - 1
    BY <1>2
  <2> QED BY <2>1, ModIs
<1> QED BY <1>1, <1>2

(* Two numbers less than m apart have different remainders. *)
LEMMA NearMod ==
  ASSUME NEW m \in Nat \ {0}, NEW x \in Int, NEW d \in 1 .. m - 1
  PROVE  (x + d) % m # x % m
<1>1. PICK p \in Int : x = p * m + (x % m)
  BY ModFacts
<1>2. PICK q \in Int : x + d = q * m + ((x + d) % m)
  <2>1. x + d \in Int
    OBVIOUS
  <2> QED BY <2>1, ModFacts
<1>3. x % m \in 0 .. m - 1 /\ (x + d) % m \in 0 .. m - 1
  <2>1. x + d \in Int
    OBVIOUS
  <2> QED BY <2>1, ModFacts
<1>4. SUFFICES ASSUME (x + d) % m = x % m PROVE FALSE
  OBVIOUS
<1>5. d = q * m - p * m
  BY <1>1, <1>2, <1>3, <1>4
<1>6. q >= p + 1 => q * m >= p * m + m
  OBVIOUS
<1>7. q <= p => q * m <= p * m
  OBVIOUS
<1>8. q * m \in Int /\ p * m \in Int
  OBVIOUS
<1> QED BY <1>5, <1>6, <1>7, <1>8

(* A multiple of m does not change the remainder. *)
LEMMA ShiftMod ==
  ASSUME NEW m \in Nat \ {0}, NEW x \in Int, NEW n \in Nat, n % m = 0
  PROVE  (x + n) % m = x % m
<1>0. n \in Int /\ x + n \in Int
  OBVIOUS
<1>1. PICK r : r = x % m
  OBVIOUS
<1>2. PICK p \in Int : x = p * m + r
  BY <1>1, ModFacts
<1>3. r \in 0 .. m - 1
  BY <1>1, ModFacts
<1>4. PICK q \in Int : n = q * m + (n % m)
  BY <1>0, ModFacts
<1>5. n = q * m + 0
  BY <1>4
<1>6. p + q \in Int /\ x + n = (p + q) * m + r
  BY <1>2, <1>3, <1>5
<1>7. (x + n) % m = r
  BY <1>0, <1>3, <1>6, ModIs
<1> QED BY <1>1, <1>7

-----------------------------------------------------------------------------
(* Positions: how far an index is from Start.  Within a behaviour that pushes fewer *)
(* items than there are indices, positions compare as the indices mean to.          *)
At(i) == Sub(i, Start)
SlotAt(k) == (Start + k) % Cap
ItemAt(k) == buffer[SlotAt(k)]

LEMMA Sizes ==
  /\ Cap \in Nat \ {0} /\ IndexMod \in Nat \ {0} /\ Cap + 1 < IndexMod /\ Start \in Index /\ IndexMod % Cap = 0
  /\ MaxItems \in Nat /\ MaxQueued \in Nat /\ Rooms \subseteq Nat /\ Start \in Nat /\ Start < IndexMod
  BY CapDividesIndex, CapFitsIndex, StartIsIndex, RoomsAndBounds DEF Index

LEMMA SubIs ==
  ASSUME NEW i \in Index, NEW j \in Index
  PROVE  Sub(i, j) = (IF j <= i THEN i - j ELSE i - j + IndexMod) /\ Sub(i, j) \in Index
<1>1. IndexMod \in Nat \ {0} /\ i \in Nat /\ j \in Nat /\ i < IndexMod /\ j < IndexMod
  BY Sizes DEF Index
<1>2. PICK x : x = i - j + IndexMod
  OBVIOUS
<1>3. x \in Nat /\ x < IndexMod + IndexMod
  BY <1>1, <1>2
<1>4. (x < IndexMod => x % IndexMod = x) /\ (IndexMod <= x => x % IndexMod = x - IndexMod)
  BY <1>1, <1>3, SmallMod
<1>5. Sub(i, j) = x % IndexMod
  BY <1>2 DEF Sub
<1>6. Sub(i, j) = IF j <= i THEN i - j ELSE i - j + IndexMod
  BY <1>1, <1>2, <1>4, <1>5
<1> QED BY <1>1, <1>6 DEF Index

LEMMA AddIs ==
  ASSUME NEW i \in Index, NEW n \in Nat, n < IndexMod
  PROVE  Add(i, n) = (IF i + n < IndexMod THEN i + n ELSE i + n - IndexMod) /\ Add(i, n) \in Index
<1>1. IndexMod \in Nat \ {0} /\ i \in Nat /\ i < IndexMod
  BY Sizes DEF Index
<1>2. PICK x : x = i + n
  OBVIOUS
<1>3. x \in Nat /\ x < IndexMod + IndexMod
  BY <1>1, <1>2
<1>4. (x < IndexMod => x % IndexMod = x) /\ (IndexMod <= x => x % IndexMod = x - IndexMod)
  BY <1>1, <1>3, SmallMod
<1>5. Add(i, n) = x % IndexMod
  BY <1>2 DEF Add
<1>6. Add(i, n) = IF i + n < IndexMod THEN i + n ELSE i + n - IndexMod
  BY <1>1, <1>2, <1>3, <1>4, <1>5
<1> QED BY <1>1, <1>6 DEF Index

LEMMA AtIs ==
  ASSUME NEW i \in Index
  PROVE  /\ At(i) = (IF Start <= i THEN i - Start ELSE i - Start + IndexMod)
         /\ At(i) \in Nat /\ At(i) < IndexMod
<1>1. At(i) = (IF Start <= i THEN i - Start ELSE i - Start + IndexMod) /\ At(i) \in Index
  BY Sizes, SubIs DEF At
<1> QED BY <1>1, Sizes DEF Index

(* Distances, steps forward and one step back. *)
LEMMA Distance ==
  ASSUME NEW i \in Index, NEW j \in Index
  PROVE  /\ Sub(i, j) = IF At(j) <= At(i) THEN At(i) - At(j) ELSE At(i) - At(j) + IndexMod
         /\ At(i) = At(j) => i = j
<1>1. i \in Nat /\ j \in Nat /\ Start \in Nat /\ i < IndexMod /\ j < IndexMod /\ Start < IndexMod /\ IndexMod \in Nat
  BY Sizes DEF Index
<1> QED BY <1>1, AtIs, SubIs

LEMMA Forward ==
  ASSUME NEW i \in Index, NEW n \in Nat, At(i) + n < IndexMod
  PROVE  Add(i, n) \in Index /\ At(Add(i, n)) = At(i) + n
<1>1. i \in Nat /\ Start \in Nat /\ i < IndexMod /\ Start < IndexMod /\ IndexMod \in Nat
  BY Sizes DEF Index
<1>2. n < IndexMod
  BY <1>1, AtIs
<1>3. Add(i, n) = (IF i + n < IndexMod THEN i + n ELSE i + n - IndexMod) /\ Add(i, n) \in Index
  BY <1>2, AddIs
<1>4. PICK a : a = Add(i, n)
  OBVIOUS
<1>5. At(a) = IF Start <= a THEN a - Start ELSE a - Start + IndexMod
  BY <1>3, <1>4, AtIs
<1>6. At(i) = IF Start <= i THEN i - Start ELSE i - Start + IndexMod
  BY AtIs
<1>7. At(a) = At(i) + n
  BY <1>1, <1>3, <1>4, <1>5, <1>6
<1> QED BY <1>3, <1>4, <1>7

LEMMA Back ==
  ASSUME NEW i \in Index, At(i) >= 1
  PROVE  Sub(i, 1) \in Index /\ At(Sub(i, 1)) = At(i) - 1
<1>1. i \in Nat /\ Start \in Nat /\ i < IndexMod /\ Start < IndexMod /\ IndexMod \in Nat /\ 1 \in Index
  BY Sizes DEF Index
<1>3. Sub(i, 1) = (IF 1 <= i THEN i - 1 ELSE i - 1 + IndexMod) /\ Sub(i, 1) \in Index
  BY <1>1, SubIs
<1>4. PICK a : a = Sub(i, 1)
  OBVIOUS
<1>5. At(a) = IF Start <= a THEN a - Start ELSE a - Start + IndexMod
  BY <1>3, <1>4, AtIs
<1>6. At(i) = IF Start <= i THEN i - Start ELSE i - Start + IndexMod
  BY AtIs
<1>7. At(a) = At(i) - 1
  BY <1>1, <1>3, <1>4, <1>5, <1>6
<1> QED BY <1>3, <1>4, <1>7

(* The slot of an index is that of its position; nearby positions do not share one. *)
LEMMA SlotOf ==
  ASSUME NEW i \in Index
  PROVE  Slot(i) = SlotAt(At(i)) /\ Slot(i) \in 0 .. Cap - 1
<1>1. /\ i \in Nat /\ i \in Int /\ Start \in Nat /\ i < IndexMod /\ Start < IndexMod /\ IndexMod \in Nat
      /\ Cap \in Nat \ {0} /\ IndexMod % Cap = 0
  BY Sizes DEF Index
<1>2. At(i) = IF Start <= i THEN i - Start ELSE i - Start + IndexMod
  BY AtIs
<1>3. Start + At(i) = i \/ Start + At(i) = i + IndexMod
  BY <1>1, <1>2
<1>4. (i + IndexMod) % Cap = i % Cap
  BY <1>1, ShiftMod
<1>5. i % Cap \in 0 .. Cap - 1
  BY <1>1, ModFacts
<1> QED BY <1>3, <1>4, <1>5 DEF Slot, SlotAt

LEMMA SlotsApart ==
  ASSUME NEW j \in Int, NEW k \in Int, j < k, k - j < Cap
  PROVE  SlotAt(j) # SlotAt(k)
<1>1. PICK d : d = k - j
  OBVIOUS
<1>2. PICK x : x = Start + j
  OBVIOUS
<1>3. d \in 1 .. Cap - 1 /\ x \in Int /\ Start + k = x + d /\ Cap \in Nat \ {0}
  BY <1>1, <1>2, Sizes
<1>4. (x + d) % Cap # x % Cap
  BY <1>3, NearMod
<1> QED BY <1>2, <1>3, <1>4 DEF SlotAt

LEMMA SlotAtType ==
  ASSUME NEW k \in Int
  PROVE  SlotAt(k) \in 0 .. Cap - 1
<1>1. Start + k \in Int /\ Cap \in Nat \ {0}
  BY Sizes
<1> QED BY <1>1, ModFacts DEF SlotAt
-----------------------------------------------------------------------------
(* The invariant.  The items of the queue are at the positions of Region: from the   *)
(* committed head, or from the last item while its pop has claimed it and not moved  *)
(* it out, up to the tail, or the withdrawn or written item just behind it.          *)
RealAt == At(head.real)
StealAt == At(head.steal)
TailAt == At(tail)

Withdrawn == pc[Owner] \in {"recheck", "claimLast", "restore"}
Behind    == Withdrawn \/ pc[Owner] \in {"publish", "popSlot", "keepTail"}
Final     == pc[Owner] \in {"keepTail", "popLast"}
Pushing   == pc[Owner] \in {"pushBack", "writeSlot", "stealHead", "stealTail", "claim", "copy", "commit"}
From   == IF Final THEN RealAt - 1 ELSE RealAt
Upto   == IF Behind THEN TailAt + 1 ELSE TailAt
Limit  == IF Withdrawn THEN TailAt + 1 ELSE TailAt   \* up to where thieves may claim
Region == From .. Upto - 1

ThiefPcs == {"idle", "stealTail", "claim", "copy", "commit"}
OwnerPcs ==
  ThiefPcs \cup {"pushBack", "writeSlot", "publish", "withdraw", "recheck", "claimLast", "restore", "keepTail",
                 "popSlot", "popLast", "stealHead"}
WordType == [steal : Index, real : Index]

QType ==
  /\ head \in WordType /\ tail \in Index
  /\ buffer \in [0 .. Cap - 1 -> Items \cup {NoItem}]
  /\ pc \in [Workers -> OwnerPcs] /\ \A w \in Thieves : pc[w] \in ThiefPcs
  /\ snap \in [Workers -> WordType]
  /\ count \in [Workers -> Nat] /\ copied \in [Workers -> Nat]
  /\ pushed \in 0 .. MaxItems /\ pending \in 0 .. pushed
  /\ taken \in [Items -> Nat]

(* The committed head, the claims and the tail, in this order. *)
Order ==
  /\ RealAt <= StealAt
  /\ StealAt <= IF pc[Owner] = "keepTail" THEN TailAt + 1 ELSE Limit
  /\ pc[Owner] = "withdraw" => TailAt >= 1
  /\ pc[Owner] = "keepTail" => RealAt = TailAt + 1
  /\ pc[Owner] = "popLast" => RealAt = TailAt /\ TailAt >= 1
  /\ pc[Owner] = "claimLast" /\ snap[Owner] = head => RealAt = StealAt /\ StealAt = TailAt

Bounds ==
  /\ Upto - From <= Cap /\ Upto - RealAt <= MaxQueued + 1 /\ Upto <= pushed
  /\ Pushing => TailAt - RealAt <= MaxQueued /\ TailAt < pushed
  /\ pc[Owner] = "writeSlot" => TailAt - RealAt < Cap
  /\ Pushing <=> pending # NoItem

(* A word that is still the head was loaded before a tail behind it; the claims in *)
(* flight are ranges between the committed head and the head, and none overlap.     *)
Claimed(w) == pc[w] \in {"copy", "commit"}
Loaded(w) == At(snap[w].steal) <= StealAt /\ At(snap[w].real) <= RealAt
Live(w) ==
  pc[w] = "claim" => /\ copied[w] = 0 /\ count[w] >= 1
                     /\ snap[w] = head => StealAt < Limit /\ (MaxQueued <= 2 => count[w] = 1)
ClaimFrom(w) == At(snap[w].steal)
ClaimEnd(w) == ClaimFrom(w) + count[w]
Claims(w) ==
  Claimed(w) => /\ count[w] >= 1 /\ IF pc[w] = "copy" THEN copied[w] < count[w] ELSE copied[w] = count[w]
                /\ RealAt <= ClaimFrom(w) /\ ClaimEnd(w) <= StealAt
Apart ==
  \A v, w \in Workers :
    Claimed(v) /\ Claimed(w) /\ v # w => ClaimEnd(v) <= ClaimFrom(w) \/ ClaimEnd(w) <= ClaimFrom(v)
ClaimsOk == Apart /\ \A w \in Workers : Loaded(w) /\ Live(w) /\ Claims(w)

(* Every item is in its place once, or has been moved out once. *)
CopiedAt(k) == \E w \in Workers : Claimed(w) /\ ClaimFrom(w) <= k /\ k < ClaimFrom(w) + copied[w]
OnePlace == \A j, k \in Region : ItemAt(j) = ItemAt(k) => j = k
Places == \A k \in Region : /\ ItemAt(k) \in 1 .. pushed /\ ItemAt(k) # pending
                            /\ taken[ItemAt(k)] = IF CopiedAt(k) THEN 1 ELSE 0
Gone == \A i \in 1 .. pushed : i # pending /\ (\A k \in Region : ItemAt(k) # i) => taken[i] = 1
Unseen == \A i \in Items : i > pushed \/ i = pending => taken[i] = 0
Contents == OnePlace /\ Places /\ Gone /\ Unseen

QueueInv == QType /\ Order /\ Bounds /\ ClaimsOk /\ Contents

(* Hypotheses of the results below.  Indices are not used twice in a behaviour; and, *)
(* where it is named, at most three items are queued.                                 *)
NoFullTurn == MaxItems < IndexMod
Few == MaxQueued <= 2

LEMMA Positions ==
  ASSUME QueueInv
  PROVE  /\ RealAt \in Nat /\ StealAt \in Nat /\ TailAt \in Nat /\ From \in Int /\ Upto \in Nat
         /\ RealAt < IndexMod /\ StealAt < IndexMod /\ TailAt < IndexMod
         /\ head.real \in Index /\ head.steal \in Index /\ tail \in Index
         /\ \A w \in Workers : /\ snap[w].steal \in Index /\ snap[w].real \in Index
                               /\ At(snap[w].steal) \in Nat /\ At(snap[w].real) \in Nat
         /\ Owner \in Workers /\ pc[Owner] \in OwnerPcs /\ pushed \in Nat /\ pushed <= MaxItems
<1>1. /\ head.real \in Index /\ head.steal \in Index /\ tail \in Index
      /\ \A w \in Workers : snap[w].steal \in Index /\ snap[w].real \in Index
      /\ Owner \in Workers /\ pc[Owner] \in OwnerPcs /\ pushed \in Nat /\ pushed <= MaxItems
  BY Sizes DEF QueueInv, QType, WordType, Workers
<1> QED BY <1>1, AtIs DEF RealAt, StealAt, TailAt, From, Upto

(* TakenOnce and Conserved follow. *)
LEMMA ContentsImplies ==
  ASSUME QueueInv
  PROVE  TakenOnce
<1> SUFFICES ASSUME NEW i \in Items PROVE taken[i] <= 1
  BY DEF TakenOnce
<1>1. i \in Nat /\ pushed \in Nat /\ i >= 1 /\ taken[i] \in Nat
  BY Sizes DEF QueueInv, QType, Items
<1>2. CASE i > pushed \/ i = pending
  BY <1>1, <1>2 DEF QueueInv, Contents, Unseen
<1>3. CASE ~(i > pushed \/ i = pending)
  <2>1. i \in 1 .. pushed
    BY <1>1, <1>3
  <2>2. CASE \E k \in Region : ItemAt(k) = i
    BY <2>2 DEF QueueInv, Contents, Places
  <2>3. CASE ~\E k \in Region : ItemAt(k) = i
    BY <1>3, <2>1, <2>3 DEF QueueInv, Contents, Gone
  <2> QED BY <2>2, <2>3
<1> QED BY <1>2, <1>3

LEMMA QuietImplies ==
  ASSUME QueueInv
  PROVE  Conserved
<1> SUFFICES ASSUME \A w \in Workers : pc[w] = "idle" \/ (w # Owner /\ pc[w] \in {"stealTail", "claim"})
             PROVE  /\ {i \in Items : i <= pushed /\ taken[i] = 0} = Held
                    /\ Cardinality(Held) = Sub(tail, head.real)
  BY DEF Conserved
<1>p. /\ RealAt \in Nat /\ TailAt \in Nat /\ StealAt \in Nat /\ TailAt < IndexMod /\ pushed \in Nat /\ pushed <= MaxItems
      /\ head.real \in Index /\ tail \in Index /\ Owner \in Workers /\ MaxItems \in Nat
  BY Positions, Sizes
<1>1. pc[Owner] = "idle" /\ (\A k : ~CopiedAt(k))
  BY <1>p DEF CopiedAt, Claimed
<1>2. From = RealAt /\ Upto = TailAt /\ Limit = TailAt /\ pending = 0
  BY <1>1 DEF From, Upto, Limit, Final, Behind, Withdrawn, QueueInv, Bounds, Pushing, NoItem
<1>3. RealAt <= TailAt /\ Region = RealAt .. TailAt - 1
  BY <1>p, <1>1, <1>2 DEF QueueInv, Order, Region
<1> DEFINE n == Sub(tail, head.real)
           item == [m \in 0 .. n - 1 |-> ItemAt(RealAt + m)]
<1>4. n = TailAt - RealAt /\ n \in Nat
  BY <1>p, <1>3, Distance DEF RealAt, TailAt
<1> HIDE DEF n
<1>5. \A m \in 0 .. n - 1 : buffer[Slot(Add(head.real, m))] = item[m] /\ RealAt + m \in Region
  <2> SUFFICES ASSUME NEW m \in 0 .. n - 1
               PROVE  buffer[Slot(Add(head.real, m))] = ItemAt(RealAt + m) /\ RealAt + m \in Region
    OBVIOUS
  <2>1. m \in Nat /\ RealAt + m < TailAt
    BY <1>p, <1>4
  <2>2. At(head.real) + m < IndexMod
    BY <1>p, <2>1, Sizes DEF RealAt
  <2>3. Add(head.real, m) \in Index /\ At(Add(head.real, m)) = RealAt + m
    BY <1>p, <2>1, <2>2, Forward DEF RealAt
  <2>4. Slot(Add(head.real, m)) = SlotAt(RealAt + m)
    BY <2>3, SlotOf
  <2> QED BY <1>p, <1>3, <2>1, <2>4 DEF ItemAt
<1>6. Held = {item[m] : m \in 0 .. n - 1}
  BY <1>5 DEF Held, n
<1>7. \A k \in Region : k - RealAt \in 0 .. n - 1 /\ RealAt + (k - RealAt) = k
  BY <1>p, <1>3, <1>4
<1>8. Held = {ItemAt(k) : k \in Region}
  <2>1. \A k \in Region : ItemAt(k) = item[k - RealAt]
    BY <1>7
  <2> QED BY <1>5, <1>6, <1>7, <2>1
<1>9. {i \in Items : i <= pushed /\ taken[i] = 0} = Held
  <2>1. ASSUME NEW i \in Items, i <= pushed, taken[i] = 0
        PROVE  i \in Held
    <3>1. i \in 1 .. pushed /\ i # pending
      BY <1>p, <1>2, <2>1 DEF Items
    <3> QED BY <1>8, <2>1, <3>1 DEF QueueInv, Contents, Gone
  <2>2. ASSUME NEW k \in Region
        PROVE  ItemAt(k) \in Items /\ ItemAt(k) <= pushed /\ taken[ItemAt(k)] = 0
    <3>1. ItemAt(k) \in 1 .. pushed /\ taken[ItemAt(k)] = 0
      BY <1>1, <2>2 DEF QueueInv, Contents, Places
    <3> QED BY <1>p, <3>1 DEF Items
  <2> QED BY <1>8, <2>1, <2>2
<1>10. Cardinality(Held) = n
  <2> DEFINE D == 0 .. n - 1
  <2>1. IsFiniteSet(D) /\ Cardinality(D) = n
    <3>1. n - 1 \in Int /\ 0 \in Int
      BY <1>4
    <3>2. IsFiniteSet(D) /\ Cardinality(D) = IF 0 > n - 1 THEN 0 ELSE n - 1 - 0 + 1
      BY <3>1, FS_Interval
    <3> QED BY <1>4, <3>2
  <2>2. item \in [D -> Held] /\ \A x \in Held : \E m \in D : item[m] = x
    BY <1>6
  <2>3. \A a, b \in D : item[a] = item[b] => a = b
    <3>1. \A a, b \in D : ItemAt(RealAt + a) = ItemAt(RealAt + b) => RealAt + a = RealAt + b
      BY <1>5 DEF QueueInv, Contents, OnePlace
    <3>2. \A a, b \in D : RealAt + a = RealAt + b => a = b
      BY <1>p, <1>4
    <3> QED BY <3>1, <3>2
  <2> HIDE DEF item, D
  <2>4. item \in Bijection(D, Held)
    BY <2>2, <2>3 DEF Bijection, Injection, Surjection, IsInjective
  <2>5. IsFiniteSet(Held) /\ Cardinality(Held) = Cardinality(D)
    BY <2>1, <2>4, FS_Bijection DEF ExistsBijection
  <2> QED BY <2>1, <2>5
<1> QED BY <1>9, <1>10 DEF n

-----------------------------------------------------------------------------
(* The range of a claim and the copied part of it. *)
LEMMA ClaimedRange ==
  ASSUME QueueInv, NEW w \in Workers, Claimed(w)
  PROVE  /\ ClaimFrom(w) \in Nat /\ count[w] \in Nat /\ copied[w] \in Nat /\ ClaimEnd(w) \in Nat
         /\ count[w] >= 1 /\ copied[w] <= count[w] /\ RealAt <= ClaimFrom(w) /\ ClaimEnd(w) <= StealAt
         /\ ClaimFrom(w) + copied[w] \in Nat /\ ClaimFrom(w) + copied[w] <= StealAt
         /\ pc[w] = "copy" => copied[w] < count[w]
         /\ pc[w] = "commit" => copied[w] = count[w]
<1>1. ClaimFrom(w) \in Nat /\ StealAt \in Nat /\ count[w] \in Nat /\ copied[w] \in Nat
  BY Positions DEF QueueInv, QType, ClaimFrom
<1>2. /\ count[w] >= 1 /\ (IF pc[w] = "copy" THEN copied[w] < count[w] ELSE copied[w] = count[w])
      /\ RealAt <= ClaimFrom(w) /\ ClaimFrom(w) + count[w] <= StealAt
  BY DEF QueueInv, ClaimsOk, Claims, ClaimEnd
<1> QED BY <1>1, <1>2 DEF ClaimEnd

(* What a step leaves alone. *)
LEMMA SameContents ==
  ASSUME Contents, From' = From, Upto' = Upto, UNCHANGED <<buffer, taken, pushed, pending>>,
         \A k \in Region : CopiedAt(k)' <=> CopiedAt(k)
  PROVE  Contents'
<1>1. Region' = Region /\ \A k : ItemAt(k)' = ItemAt(k)
  BY DEF Region, ItemAt, SlotAt
<1>2. OnePlace'
  BY <1>1 DEF Contents, OnePlace
<1>3. Places'
  BY <1>1 DEF Contents, Places
<1>4. Gone'
  BY <1>1 DEF Contents, Gone
<1>5. Unseen'
  BY DEF Contents, Unseen
<1> QED BY <1>2, <1>3, <1>4, <1>5 DEF Contents

(* A step of the owner outside its steals. *)
LEMMA OwnerFrame ==
  ASSUME QueueInv, NEW p \in OwnerPcs, pc' = [pc EXCEPT ![Owner] = p],
         pc[Owner] \notin {"claim", "copy", "commit"}, p \notin {"claim", "copy", "commit"},
         UNCHANGED <<head, count, copied>>, snap' = snap \/ snap' = [snap EXCEPT ![Owner] = head],
         StealAt < Limit => (StealAt < Limit)'
  PROVE  /\ ClaimsOk' /\ \A k : CopiedAt(k)' <=> CopiedAt(k)
         /\ pc' \in [Workers -> OwnerPcs] /\ (\A w \in Thieves : pc'[w] \in ThiefPcs) /\ pc'[Owner] = p
         /\ snap' \in [Workers -> WordType] /\ RealAt' = RealAt /\ StealAt' = StealAt
<1>t. /\ pc \in [Workers -> OwnerPcs] /\ (\A w \in Thieves : pc[w] \in ThiefPcs) /\ Owner \in Workers /\ Owner \notin Thieves
      /\ snap \in [Workers -> WordType] /\ head \in WordType /\ \A w \in Workers : w # Owner => w \in Thieves
  BY OwnerIsNoThief DEF QueueInv, QType, Workers
<1>1. /\ pc' \in [Workers -> OwnerPcs] /\ pc'[Owner] = p /\ snap' \in [Workers -> WordType]
      /\ \A w \in Thieves : w \in Workers /\ w # Owner /\ pc'[w] = pc[w] /\ snap'[w] = snap[w]
  BY <1>t DEF Workers
<1>2. RealAt' = RealAt /\ StealAt' = StealAt /\ StealAt \in Nat /\ RealAt \in Nat
  BY Positions DEF RealAt, StealAt
<1>3. \A k : CopiedAt(k)' <=> CopiedAt(k)
  BY <1>t, <1>1 DEF CopiedAt, Claimed, ClaimFrom
<1>4. ASSUME NEW w \in Workers
      PROVE  (Loaded(w) /\ Live(w) /\ Claims(w))'
  <2>1. CASE w = Owner
    <3>1. Loaded(w)
      BY DEF QueueInv, ClaimsOk
    <3>2. snap'[w] = snap[w] \/ snap'[w] = head
      BY <1>t
    <3> QED BY <1>1, <1>2, <2>1, <3>1, <3>2 DEF Loaded, Live, Claims, Claimed, RealAt, StealAt
  <2>2. CASE w # Owner
    <3>1. Loaded(w) /\ Live(w) /\ Claims(w) /\ pc'[w] = pc[w] /\ snap'[w] = snap[w]
      BY <1>t, <1>1, <2>2 DEF QueueInv, ClaimsOk
    <3> QED BY <1>2, <3>1 DEF Loaded, Live, Claims, Claimed, ClaimFrom, ClaimEnd
  <2> QED BY <2>1, <2>2
<1>5. Apart'
  BY <1>t, <1>1 DEF QueueInv, ClaimsOk, Apart, Claimed, ClaimFrom, ClaimEnd
<1> QED BY <1>t, <1>1, <1>2, <1>3, <1>4, <1>5 DEF ClaimsOk

LEMMA PushStep ==
  ASSUME QueueInv, Push
  PROVE  QueueInv'
<1>p. /\ RealAt \in Nat /\ TailAt \in Nat /\ StealAt \in Nat /\ pushed \in Nat /\ pushed <= MaxItems /\ tail \in Index
      /\ head.real \in Index /\ MaxItems \in Nat /\ MaxQueued \in Nat /\ Cap \in Nat
  BY Positions, Sizes
<1>0. /\ pc[Owner] = "idle" /\ pushed < MaxItems /\ Sub(tail, head.real) <= MaxQueued
      /\ pending' = pushed + 1 /\ pushed' = pushed + 1 /\ pc' = [pc EXCEPT ![Owner] = "pushBack"]
      /\ UNCHANGED <<head, tail, buffer, snap, count, copied, taken>>
  BY DEF Push, Goto, claim
<1>1. Limit = TailAt /\ From = RealAt /\ Upto = TailAt /\ pending = 0 /\ RealAt <= StealAt /\ StealAt <= TailAt
  BY <1>0 DEF Limit, From, Upto, Withdrawn, Behind, Final, QueueInv, Bounds, Order, Pushing, NoItem
<1>2. TailAt - RealAt <= MaxQueued
  BY <1>p, <1>0, <1>1, Distance DEF RealAt, TailAt
<1>3. "pushBack" \in OwnerPcs /\ TailAt' = TailAt
  BY <1>0 DEF OwnerPcs, TailAt
<1>4. pc \in [Workers -> OwnerPcs] /\ Owner \in Workers
  BY DEF QueueInv, QType, Workers
<1>5. pc'[Owner] = "pushBack"
  BY <1>0, <1>4
<1>6. Limit' = TailAt /\ Upto' = TailAt
  BY <1>3, <1>5 DEF Limit, Upto, Withdrawn, Behind
<1>7. StealAt' = StealAt /\ RealAt' = RealAt
  BY <1>0 DEF StealAt, RealAt
<1>8. /\ ClaimsOk' /\ (\A k : CopiedAt(k)' <=> CopiedAt(k))
      /\ pc' \in [Workers -> OwnerPcs] /\ (\A w \in Thieves : pc'[w] \in ThiefPcs)
  <2>1. StealAt < Limit => (StealAt < Limit)'
    BY <1>1, <1>6, <1>7
  <2> QED BY <1>0, <1>3, <2>1, OwnerFrame
<1>9. From' = RealAt /\ Region' = Region
  BY <1>1, <1>5, <1>6, <1>7 DEF From, Final, Region
<1>10. QType'
  BY <1>p, <1>0, <1>8 DEF QueueInv, QType
<1>11. Order'
  BY <1>1, <1>5, <1>6, <1>7 DEF Order
<1>12. Bounds'
  BY <1>p, <1>0, <1>1, <1>2, <1>3, <1>5, <1>6, <1>7, <1>9 DEF QueueInv, Bounds, Pushing, NoItem
<1>13. Contents'
  <2>1. \A k : ItemAt(k)' = ItemAt(k)
    BY <1>0 DEF ItemAt, SlotAt
  <2>2. OnePlace'
    BY <1>9, <2>1 DEF QueueInv, Contents, OnePlace
  <2>3. Places'
    <3> SUFFICES ASSUME NEW k \in Region
                 PROVE  /\ ItemAt(k) \in 1 .. pushed' /\ ItemAt(k) # pending'
                        /\ taken'[ItemAt(k)] = IF CopiedAt(k)' THEN 1 ELSE 0
      BY <1>9, <2>1 DEF Places
    <3>1. ItemAt(k) \in 1 .. pushed /\ taken[ItemAt(k)] = IF CopiedAt(k) THEN 1 ELSE 0
      BY DEF QueueInv, Contents, Places
    <3> QED BY <1>p, <1>0, <1>8, <3>1
  <2>4. Gone'
    <3>1. \A i \in 1 .. pushed' : i # pending' => i \in 1 .. pushed /\ i # pending
      BY <1>p, <1>0, <1>1
    <3> QED BY <1>0, <1>9, <2>1, <3>1 DEF QueueInv, Contents, Gone
  <2>5. Unseen'
    <3>1. \A i \in Items : i > pushed' \/ i = pending' => i > pushed
      BY <1>p, <1>0 DEF Items
    <3> QED BY <1>0, <3>1 DEF QueueInv, Contents, Unseen
  <2> QED BY <2>2, <2>3, <2>4, <2>5 DEF Contents
<1> QED BY <1>8, <1>10, <1>11, <1>12, <1>13 DEF QueueInv

(* A step of the owner that moves no item. *)
LEMMA OwnerKeeps ==
  ASSUME QueueInv, NEW p \in OwnerPcs, pc' = [pc EXCEPT ![Owner] = p],
         pc[Owner] \notin {"claim", "copy", "commit"}, p \notin {"claim", "copy", "commit"},
         UNCHANGED <<head, count, copied, buffer, taken, pushed, pending>>, tail' \in Index,
         snap' = snap \/ snap' = [snap EXCEPT ![Owner] = head],
         StealAt < Limit => (StealAt < Limit)', From' = From, Upto' = Upto, Order', Bounds'
  PROVE  QueueInv'
<1>1. /\ ClaimsOk' /\ (\A k : CopiedAt(k)' <=> CopiedAt(k))
      /\ pc' \in [Workers -> OwnerPcs] /\ (\A w \in Thieves : pc'[w] \in ThiefPcs)
      /\ snap' \in [Workers -> WordType]
  BY OwnerFrame
<1>2. QType'
  BY <1>1 DEF QueueInv, QType
<1>3. Contents'
  BY <1>1, SameContents DEF QueueInv
<1> QED BY <1>1, <1>2, <1>3 DEF QueueInv

LEMMA OwnerPlace ==
  ASSUME QueueInv, NEW p, pc' = [pc EXCEPT ![Owner] = p]
  PROVE  pc'[Owner] = p
  BY DEF QueueInv, QType, Workers

LEMMA PushBackStep ==
  ASSUME QueueInv, PushBack
  PROVE  QueueInv'
<1>p. /\ RealAt \in Nat /\ TailAt \in Nat /\ StealAt \in Nat /\ tail \in Index /\ head.real \in Index /\ Cap \in Nat
  BY Positions, Sizes
<1>a. PICK p : p = IF Full THEN "stealHead" ELSE "writeSlot"
  OBVIOUS
<1>0. /\ pc[Owner] = "pushBack" /\ pc' = [pc EXCEPT ![Owner] = p]
      /\ UNCHANGED <<head, tail, buffer, snap, count, copied, pending, pushed, taken>>
  BY <1>a DEF PushBack, Goto, claim
<1>1. pc'[Owner] = p /\ p \in {"stealHead", "writeSlot"} /\ p \in OwnerPcs
  BY <1>a, <1>0, OwnerPlace DEF OwnerPcs
<1>2. RealAt' = RealAt /\ StealAt' = StealAt /\ TailAt' = TailAt
  BY <1>0 DEF RealAt, StealAt, TailAt
<1>3. From' = From /\ Upto' = Upto /\ Limit' = Limit /\ From = RealAt /\ Upto = TailAt /\ Limit = TailAt
  BY <1>0, <1>1, <1>2 DEF From, Upto, Limit, Final, Behind, Withdrawn
<1>4. Order'
  BY <1>0, <1>1, <1>2, <1>3 DEF QueueInv, Order
<1>5. p = "writeSlot" => TailAt - RealAt < Cap
  <2>1. RealAt <= TailAt
    BY <1>p, <1>0, <1>3 DEF QueueInv, Order
  <2>2. Sub(tail, head.real) = TailAt - RealAt
    BY <1>p, <2>1, Distance DEF RealAt, TailAt
  <2> QED BY <1>p, <1>a, <2>2 DEF Full
<1>6. Bounds'
  BY <1>0, <1>1, <1>2, <1>3, <1>5 DEF QueueInv, Bounds, Pushing
<1> QED BY <1>p, <1>0, <1>1, <1>2, <1>3, <1>4, <1>6, OwnerKeeps

LEMMA PublishStep ==
  ASSUME QueueInv, Publish, NoFullTurn
  PROVE  QueueInv'
<1>p. /\ RealAt \in Nat /\ TailAt \in Nat /\ StealAt \in Nat /\ tail \in Index /\ pushed \in Nat /\ pushed <= MaxItems
      /\ MaxItems \in Nat /\ MaxItems < IndexMod /\ IndexMod \in Nat
  BY Positions, Sizes DEF NoFullTurn
<1>0. /\ pc[Owner] = "publish" /\ pc' = [pc EXCEPT ![Owner] = "idle"] /\ tail' = Add(tail, 1)
      /\ UNCHANGED <<head, buffer, snap, count, copied, pending, pushed, taken>>
  BY DEF Publish, Goto, claim
<1>1. pc'[Owner] = "idle" /\ "idle" \in OwnerPcs
  BY <1>0, OwnerPlace DEF OwnerPcs, ThiefPcs
<1>2. Upto = TailAt + 1 /\ From = RealAt /\ Limit = TailAt
  BY <1>0 DEF From, Upto, Limit, Final, Behind, Withdrawn
<1>3. tail' \in Index /\ TailAt' = TailAt + 1 /\ RealAt' = RealAt /\ StealAt' = StealAt
  <2>1. At(tail) + 1 < IndexMod
    BY <1>p, <1>2 DEF QueueInv, Bounds, TailAt
  <2>2. Add(tail, 1) \in Index /\ At(Add(tail, 1)) = At(tail) + 1
    BY <1>p, <2>1, Forward
  <2> QED BY <1>0, <2>2 DEF TailAt, RealAt, StealAt
<1>4. Upto' = TailAt + 1 /\ From' = RealAt /\ Limit' = TailAt + 1
  BY <1>1, <1>3 DEF From, Upto, Limit, Final, Behind, Withdrawn
<1>5. Order'
  BY <1>p, <1>0, <1>1, <1>2, <1>3, <1>4 DEF QueueInv, Order
<1>6. Bounds'
  BY <1>0, <1>1, <1>2, <1>3, <1>4 DEF QueueInv, Bounds, Pushing
<1>7. StealAt < Limit => (StealAt < Limit)'
  BY <1>p, <1>2, <1>3, <1>4
<1>8. From' = From /\ Upto' = Upto
  BY <1>2, <1>4
<1> QED BY <1>0, <1>1, <1>3, <1>5, <1>6, <1>7, <1>8, OwnerKeeps

LEMMA PopStep ==
  ASSUME QueueInv, Pop
  PROVE  QueueInv'
<1>p. /\ RealAt \in Nat /\ TailAt \in Nat /\ StealAt \in Nat /\ tail \in Index /\ head.steal \in Index
  BY Positions
<1>0. /\ pc[Owner] = "idle" /\ pc' = [pc EXCEPT ![Owner] = "withdraw"] /\ tail # head.steal
      /\ UNCHANGED <<head, tail, buffer, snap, count, copied, pending, pushed, taken>>
  BY DEF Pop, Goto, claim
<1>1. pc'[Owner] = "withdraw" /\ "withdraw" \in OwnerPcs
  BY <1>0, OwnerPlace DEF OwnerPcs
<1>2. RealAt' = RealAt /\ StealAt' = StealAt /\ TailAt' = TailAt
  BY <1>0 DEF RealAt, StealAt, TailAt
<1>3. From' = From /\ Upto' = Upto /\ Limit' = Limit /\ From = RealAt /\ Upto = TailAt /\ Limit = TailAt
  BY <1>0, <1>1, <1>2 DEF From, Upto, Limit, Final, Behind, Withdrawn
<1>4. TailAt >= 1
  <2>1. TailAt # StealAt
    BY <1>p, <1>0, Distance DEF TailAt, StealAt
  <2>2. StealAt <= TailAt
    BY <1>0, <1>3 DEF QueueInv, Order
  <2> QED BY <1>p, <2>1, <2>2
<1>5. Order'
  BY <1>0, <1>1, <1>2, <1>3, <1>4 DEF QueueInv, Order
<1>6. Bounds'
  BY <1>0, <1>1, <1>2, <1>3 DEF QueueInv, Bounds, Pushing
<1> QED BY <1>p, <1>0, <1>1, <1>2, <1>3, <1>5, <1>6, OwnerKeeps

LEMMA WithdrawStep ==
  ASSUME QueueInv, Withdraw
  PROVE  QueueInv'
<1>p. /\ RealAt \in Nat /\ TailAt \in Nat /\ StealAt \in Nat /\ tail \in Index
  BY Positions
<1>0. /\ pc[Owner] = "withdraw" /\ pc' = [pc EXCEPT ![Owner] = "recheck"] /\ tail' = Sub(tail, 1)
      /\ UNCHANGED <<head, buffer, snap, count, copied, pending, pushed, taken>>
  BY DEF Withdraw, Goto, claim
<1>1. pc'[Owner] = "recheck" /\ "recheck" \in OwnerPcs
  BY <1>0, OwnerPlace DEF OwnerPcs
<1>2. tail' \in Index /\ TailAt' = TailAt - 1 /\ RealAt' = RealAt /\ StealAt' = StealAt
  <2>1. At(tail) >= 1
    BY <1>0 DEF QueueInv, Order, TailAt
  <2> QED BY <1>p, <1>0, <2>1, Back DEF TailAt, RealAt, StealAt
<1>3. From' = From /\ Upto' = Upto /\ Limit' = Limit /\ From = RealAt /\ Upto = TailAt /\ Limit = TailAt
  BY <1>p, <1>0, <1>1, <1>2 DEF From, Upto, Limit, Final, Behind, Withdrawn
<1>4. Order'
  BY <1>p, <1>0, <1>1, <1>2, <1>3 DEF QueueInv, Order
<1>5. Bounds'
  BY <1>0, <1>1, <1>2, <1>3 DEF QueueInv, Bounds, Pushing
<1> QED BY <1>p, <1>0, <1>1, <1>2, <1>3, <1>4, <1>5, OwnerKeeps

LEMMA RecheckStep ==
  ASSUME QueueInv, Recheck, NoFullTurn
  PROVE  QueueInv'
<1>p. /\ RealAt \in Nat /\ TailAt \in Nat /\ StealAt \in Nat /\ tail \in Index /\ head.steal \in Index /\ head.real \in Index
      /\ pushed \in Nat /\ pushed <= MaxItems /\ MaxItems \in Nat /\ MaxItems < IndexMod /\ IndexMod \in Nat
  BY Positions, Sizes DEF NoFullTurn
<1>a. PICK p : p = IF PopYields THEN "restore" ELSE IF LastItem THEN "claimLast" ELSE "popSlot"
  OBVIOUS
<1>0. /\ pc[Owner] = "recheck" /\ pc' = [pc EXCEPT ![Owner] = p] /\ snap' = [snap EXCEPT ![Owner] = head]
      /\ UNCHANGED <<head, tail, buffer, count, copied, pending, pushed, taken>>
  BY <1>a DEF Recheck, Goto, Load, claim
<1>1. pc'[Owner] = p /\ p \in {"restore", "claimLast", "popSlot"} /\ p \in OwnerPcs
  BY <1>a, <1>0, OwnerPlace DEF OwnerPcs
<1>2. RealAt' = RealAt /\ StealAt' = StealAt /\ TailAt' = TailAt
  BY <1>0 DEF RealAt, StealAt, TailAt
<1>3. /\ From' = From /\ Upto' = Upto /\ From = RealAt /\ Upto = TailAt + 1 /\ Limit = TailAt + 1
      /\ Limit' = IF p = "popSlot" THEN TailAt ELSE TailAt + 1
  BY <1>p, <1>0, <1>1, <1>2 DEF From, Upto, Limit, Final, Behind, Withdrawn
<1>4. RealAt <= StealAt /\ StealAt <= TailAt + 1 /\ TailAt + 1 < IndexMod
  BY <1>p, <1>0, <1>3 DEF QueueInv, Order, Bounds
<1>5. Remaining(head) = TailAt + 1 - StealAt
  <2>1. At(tail) + 1 < IndexMod
    BY <1>4 DEF TailAt
  <2>2. Add(tail, 1) \in Index /\ At(Add(tail, 1)) = TailAt + 1
    BY <1>p, <2>1, Forward DEF TailAt
  <2>3. Sub(Add(tail, 1), head.steal) = TailAt + 1 - StealAt
    <3>1. At(head.steal) <= At(Add(tail, 1))
      BY <1>4, <2>2 DEF StealAt
    <3> QED BY <1>p, <2>2, <3>1, Distance DEF StealAt
  <2> QED BY <2>3 DEF Remaining
<1>6. /\ p = "popSlot" => StealAt < TailAt
      /\ p = "claimLast" => RealAt = StealAt /\ StealAt = TailAt
  BY <1>p, <1>a, <1>4, <1>5 DEF PopYields, LastItem, RealAt, StealAt
<1>7. Order'
  BY <1>p, <1>1, <1>2, <1>3, <1>4, <1>6 DEF Order
<1>8. Bounds'
  BY <1>0, <1>1, <1>2, <1>3 DEF QueueInv, Bounds, Pushing
<1>9. StealAt < Limit => (StealAt < Limit)'
  BY <1>p, <1>1, <1>2, <1>3, <1>6
<1>10. From' = From /\ Upto' = Upto
  BY <1>3
<1> QED BY <1>p, <1>0, <1>1, <1>7, <1>8, <1>9, <1>10, OwnerKeeps

LEMMA RestoreTailStep ==
  ASSUME QueueInv, RestoreTail, NoFullTurn
  PROVE  QueueInv'
<1>p. /\ RealAt \in Nat /\ TailAt \in Nat /\ StealAt \in Nat /\ tail \in Index /\ pushed \in Nat /\ pushed <= MaxItems
      /\ MaxItems \in Nat /\ MaxItems < IndexMod /\ IndexMod \in Nat
  BY Positions, Sizes DEF NoFullTurn
<1>a. PICK p : p = IF pc[Owner] = "restore" THEN "idle" ELSE "popLast"
  OBVIOUS
<1>0. /\ pc[Owner] \in {"restore", "keepTail"} /\ pc' = [pc EXCEPT ![Owner] = p] /\ tail' = Add(tail, 1)
      /\ UNCHANGED <<head, buffer, snap, count, copied, pending, pushed, taken>>
  BY <1>a DEF RestoreTail, Goto, claim
<1>1. pc'[Owner] = p /\ p \in OwnerPcs /\ p \in {"idle", "popLast"} /\ (p = "popLast" <=> pc[Owner] = "keepTail")
  BY <1>a, <1>0, OwnerPlace DEF OwnerPcs, ThiefPcs
<1>2. /\ Upto = TailAt + 1 /\ From = (IF p = "popLast" THEN RealAt - 1 ELSE RealAt)
      /\ Limit = (IF p = "popLast" THEN TailAt ELSE TailAt + 1)
  BY <1>0, <1>1 DEF From, Upto, Limit, Final, Behind, Withdrawn
<1>3. tail' \in Index /\ TailAt' = TailAt + 1 /\ RealAt' = RealAt /\ StealAt' = StealAt
  <2>1. At(tail) + 1 < IndexMod
    BY <1>p, <1>2 DEF QueueInv, Bounds, TailAt
  <2>2. Add(tail, 1) \in Index /\ At(Add(tail, 1)) = At(tail) + 1
    BY <1>p, <2>1, Forward
  <2> QED BY <1>0, <2>2 DEF TailAt, RealAt, StealAt
<1>4. Upto' = TailAt + 1 /\ From' = From /\ Limit' = TailAt + 1
  BY <1>1, <1>2, <1>3 DEF From, Upto, Limit, Final, Behind, Withdrawn
<1>5. Order'
  BY <1>p, <1>0, <1>1, <1>2, <1>3, <1>4 DEF QueueInv, Order
<1>6. Bounds'
  BY <1>0, <1>1, <1>2, <1>3, <1>4 DEF QueueInv, Bounds, Pushing
<1>7. StealAt < Limit => (StealAt < Limit)'
  BY <1>p, <1>2, <1>3, <1>4
<1>8. From' = From /\ Upto' = Upto
  BY <1>2, <1>4
<1> QED BY <1>0, <1>1, <1>3, <1>5, <1>6, <1>7, <1>8, OwnerKeeps

LEMMA WriteSlotStep ==
  ASSUME QueueInv, WriteSlot
  PROVE  QueueInv'
<1>p. /\ RealAt \in Nat /\ TailAt \in Nat /\ StealAt \in Nat /\ tail \in Index /\ pushed \in Nat /\ pushed <= MaxItems
      /\ MaxItems \in Nat /\ MaxQueued \in Nat /\ Cap \in Nat
      /\ \A w \in Workers : At(snap[w].steal) \in Nat
  BY Positions, Sizes
<1>0. /\ pc[Owner] = "writeSlot" /\ pc' = [pc EXCEPT ![Owner] = "publish"] /\ pending' = 0
      /\ buffer' = [buffer EXCEPT ![Slot(tail)] = pending]
      /\ UNCHANGED <<head, tail, snap, count, copied, pushed, taken>>
  BY DEF WriteSlot, Goto, claim, NoItem
<1>1. pc'[Owner] = "publish" /\ "publish" \in OwnerPcs
  BY <1>0, OwnerPlace DEF OwnerPcs
<1>2. RealAt' = RealAt /\ StealAt' = StealAt /\ TailAt' = TailAt
  BY <1>0 DEF RealAt, StealAt, TailAt
<1>3. /\ From = RealAt /\ Upto = TailAt /\ Limit = TailAt /\ From' = RealAt /\ Upto' = TailAt + 1 /\ Limit' = TailAt
      /\ RealAt <= StealAt /\ StealAt <= TailAt /\ TailAt - RealAt < Cap /\ TailAt - RealAt <= MaxQueued /\ TailAt < pushed
      /\ pending # 0
  <2>1. /\ From = RealAt /\ Upto = TailAt /\ Limit = TailAt /\ From' = RealAt /\ Upto' = TailAt + 1 /\ Limit' = TailAt
    BY <1>0, <1>1, <1>2 DEF From, Upto, Limit, Final, Behind, Withdrawn
  <2> QED BY <1>0, <2>1 DEF QueueInv, Order, Bounds, Pushing, NoItem
<1>4. /\ ClaimsOk' /\ (\A k : CopiedAt(k)' <=> CopiedAt(k))
      /\ pc' \in [Workers -> OwnerPcs] /\ (\A w \in Thieves : pc'[w] \in ThiefPcs)
  <2>1. StealAt < Limit => (StealAt < Limit)'
    BY <1>2, <1>3
  <2> QED BY <1>0, <1>1, <2>1, OwnerFrame
<1>5. pending \in 1 .. pushed /\ pending \in Items /\ buffer \in [0 .. Cap - 1 -> Items \cup {NoItem}]
  BY <1>p, <1>3 DEF QueueInv, QType, Items
<1>6. QType'
  <2>1. buffer' \in [0 .. Cap - 1 -> Items \cup {NoItem}]
    BY <1>0, <1>5
  <2> QED BY <1>p, <1>0, <1>4, <2>1 DEF QueueInv, QType
<1>7. Order'
  BY <1>1, <1>2, <1>3 DEF Order
<1>8. Bounds'
  BY <1>p, <1>0, <1>1, <1>2, <1>3 DEF Bounds, Pushing, NoItem
<1>9. Contents'
  <2>1. Region' = Region \cup {TailAt} /\ TailAt \notin Region /\ \A k \in Region : k \in Int /\ k < TailAt /\ TailAt - k < Cap
    BY <1>p, <1>3 DEF Region
  <2>2. Slot(tail) = SlotAt(TailAt) /\ SlotAt(TailAt) \in 0 .. Cap - 1
    BY <1>p, SlotOf DEF TailAt
  <2>3. \A k \in Region : SlotAt(k) \in 0 .. Cap - 1 /\ SlotAt(k) # SlotAt(TailAt)
    BY <1>p, <2>1, SlotsApart, SlotAtType
  <2>4. ItemAt(TailAt)' = pending /\ \A k \in Region : ItemAt(k)' = ItemAt(k)
    <3>1. buffer'[SlotAt(TailAt)] = pending /\ \A k \in Region : buffer'[SlotAt(k)] = buffer[SlotAt(k)]
      BY <1>0, <1>5, <2>2, <2>3
    <3> QED BY <1>2, <3>1 DEF ItemAt, SlotAt
  <2>5. ItemAt(TailAt') = ItemAt(TailAt)
    BY <1>2
  <2>6. \A k \in Region : /\ ItemAt(k) \in 1 .. pushed /\ ItemAt(k) # pending
                          /\ taken[ItemAt(k)] = IF CopiedAt(k) THEN 1 ELSE 0
    BY DEF QueueInv, Contents, Places
  <2>7. PICK T : T = TailAt
    OBVIOUS
  <2>8. /\ Region' = Region \cup {T} /\ T \notin Region /\ ItemAt(T)' = pending
        /\ \A k \in Region : ItemAt(k)' = ItemAt(k)
    BY <1>2, <2>1, <2>4, <2>7 DEF ItemAt
  <2>9. ~CopiedAt(T)
    <3>1. ASSUME NEW w \in Workers, Claimed(w) PROVE ~(T < ClaimFrom(w) + copied[w])
      <4>1. ClaimFrom(w) + copied[w] <= StealAt /\ ClaimFrom(w) + copied[w] \in Nat
        BY <3>1, ClaimedRange
      <4> QED BY <1>p, <1>3, <2>7, <4>1
    <3> QED BY <3>1 DEF CopiedAt
  <2>10. OnePlace'
    BY <2>6, <2>8 DEF QueueInv, Contents, OnePlace
  <2>11. Places'
    <3> SUFFICES ASSUME NEW k \in Region'
                 PROVE  /\ ItemAt(k)' \in 1 .. pushed /\ ItemAt(k)' # 0
                        /\ taken[ItemAt(k)'] = IF CopiedAt(k)' THEN 1 ELSE 0
      BY <1>0 DEF Places
    <3>1. CASE k = T
      <4>1. taken[pending] = 0
        BY <1>5 DEF QueueInv, Contents, Unseen
      <4> QED BY <1>4, <1>5, <2>8, <2>9, <3>1, <4>1
    <3>2. CASE k \in Region
      BY <1>p, <1>4, <2>6, <2>8, <3>2
    <3> QED BY <2>8, <3>1, <3>2
  <2>12. Gone'
    <3> SUFFICES ASSUME NEW i \in 1 .. pushed, \A k \in Region' : ItemAt(k)' # i
                 PROVE  taken[i] = 1
      BY <1>0 DEF Gone
    <3>1. i # pending /\ \A k \in Region : ItemAt(k) # i
      BY <2>8
    <3> QED BY <3>1 DEF QueueInv, Contents, Gone
  <2>13. Unseen'
    BY <1>p, <1>0 DEF QueueInv, Contents, Unseen, Items
  <2> QED BY <2>10, <2>11, <2>12, <2>13 DEF Contents
<1> QED BY <1>4, <1>6, <1>7, <1>8, <1>9 DEF QueueInv

(* The items at the positions of S leave the queue, each moved out once. *)
LEMMA LeaveContents ==
  ASSUME QueueInv, NEW S \in SUBSET Region, Region' = Region \ S, UNCHANGED <<buffer, pushed, pending>>,
         \A k \in S : taken'[ItemAt(k)] = 1,
         \A i \in Items : (\A k \in S : ItemAt(k) # i) => taken'[i] = taken[i],
         \A j \in Region \ S : CopiedAt(j)' <=> CopiedAt(j)
  PROVE  Contents'
<1>p. pushed \in Nat /\ pushed <= MaxItems /\ MaxItems \in Nat
  BY Positions, Sizes
<1>1. \A j : ItemAt(j)' = ItemAt(j)
  BY DEF ItemAt, SlotAt
<1>2. \A j \in Region : /\ ItemAt(j) \in 1 .. pushed /\ ItemAt(j) # pending /\ ItemAt(j) \in Items
                        /\ taken[ItemAt(j)] = IF CopiedAt(j) THEN 1 ELSE 0
  BY <1>p DEF QueueInv, Contents, Places, Items
<1>3. OnePlace'
  BY <1>1 DEF QueueInv, Contents, OnePlace
<1>4. Places'
  <2> SUFFICES ASSUME NEW j \in Region \ S
               PROVE  /\ ItemAt(j) \in 1 .. pushed /\ ItemAt(j) # pending
                      /\ taken'[ItemAt(j)] = IF CopiedAt(j)' THEN 1 ELSE 0
    BY <1>1 DEF Places
  <2>1. \A k \in S : ItemAt(k) # ItemAt(j)
    BY DEF QueueInv, Contents, OnePlace
  <2>2. taken'[ItemAt(j)] = taken[ItemAt(j)]
    BY <1>2, <2>1
  <2> QED BY <1>2, <2>2
<1>5. Gone'
  <2> SUFFICES ASSUME NEW i \in 1 .. pushed, i # pending, \A j \in Region \ S : ItemAt(j) # i
               PROVE  taken'[i] = 1
    BY <1>1 DEF Gone
  <2>1. i \in Items
    BY <1>p DEF Items
  <2>2. CASE \E k \in S : ItemAt(k) = i
    BY <2>2
  <2>3. CASE \A k \in S : ItemAt(k) # i
    <3>1. \A j \in Region : ItemAt(j) # i
      BY <2>3
    <3>2. taken[i] = 1
      BY <3>1 DEF QueueInv, Contents, Gone
    <3> QED BY <2>1, <2>3, <3>2
  <2> QED BY <2>2, <2>3
<1>6. Unseen'
  <2>1. \A k \in S : ~(ItemAt(k) > pushed) /\ ItemAt(k) # pending
    BY <1>p, <1>2
  <2>2. \A i \in Items : i > pushed \/ i = pending => taken'[i] = taken[i]
    BY <2>1
  <2> QED BY <2>2 DEF QueueInv, Contents, Unseen
<1> QED BY <1>3, <1>4, <1>5, <1>6 DEF Contents

(* The item at the position k is copied out by the thief that has claimed it. *)
LEMMA CopyContents ==
  ASSUME QueueInv, NEW k \in Region, From' = From, Upto' = Upto, UNCHANGED <<buffer, pushed, pending>>,
         \A i \in Items : taken'[i] = IF i = ItemAt(k) THEN 1 ELSE taken[i],
         \A j \in Region : CopiedAt(j)' <=> CopiedAt(j) \/ j = k
  PROVE  Contents'
<1>p. pushed \in Nat /\ pushed <= MaxItems /\ MaxItems \in Nat
  BY Positions, Sizes
<1>1. Region' = Region /\ \A j : ItemAt(j)' = ItemAt(j)
  BY DEF ItemAt, SlotAt, Region
<1>2. \A j \in Region : /\ ItemAt(j) \in 1 .. pushed /\ ItemAt(j) # pending /\ ItemAt(j) \in Items
                        /\ taken[ItemAt(j)] = IF CopiedAt(j) THEN 1 ELSE 0
  BY <1>p DEF QueueInv, Contents, Places, Items
<1>3. OnePlace'
  BY <1>1 DEF QueueInv, Contents, OnePlace
<1>4. Places'
  <2> SUFFICES ASSUME NEW j \in Region
               PROVE  /\ ItemAt(j) \in 1 .. pushed /\ ItemAt(j) # pending
                      /\ taken'[ItemAt(j)] = IF CopiedAt(j)' THEN 1 ELSE 0
    BY <1>1 DEF Places
  <2>1. ItemAt(j) = ItemAt(k) => j = k
    BY DEF QueueInv, Contents, OnePlace
  <2> QED BY <1>2, <2>1
<1>5. Gone'
  <2> SUFFICES ASSUME NEW i \in 1 .. pushed, i # pending, \A j \in Region : ItemAt(j) # i
               PROVE  taken'[i] = 1
    BY <1>1 DEF Gone
  <2>1. i \in Items
    BY <1>p DEF Items
  <2> QED BY <2>1 DEF QueueInv, Contents, Gone
<1>6. Unseen'
  <2>1. ~(ItemAt(k) > pushed) /\ ItemAt(k) # pending
    BY <1>p, <1>2
  <2> QED BY <2>1 DEF QueueInv, Contents, Unseen
<1> QED BY <1>3, <1>4, <1>5, <1>6 DEF Contents

(* What Take does to an item that has not been moved out. *)
LEMMA TakeFacts ==
  ASSUME QueueInv, NEW k \in Region, ~CopiedAt(k), Take(ItemAt(k))
  PROVE  /\ taken' \in [Items -> Nat]
         /\ \A i \in Items : taken'[i] = IF i = ItemAt(k) THEN 1 ELSE taken[i]
<1>1. pushed \in Nat /\ pushed <= MaxItems /\ MaxItems \in Nat /\ taken \in [Items -> Nat]
  BY Positions, Sizes DEF QueueInv, QType
<1>2. ItemAt(k) \in Items /\ taken[ItemAt(k)] = 0
  BY <1>1 DEF QueueInv, Contents, Places, Items
<1>3. taken' = [taken EXCEPT ![ItemAt(k)] = taken[ItemAt(k)] + 1]
  BY <1>2 DEF Take
<1> QED BY <1>1, <1>2, <1>3
LEMMA PopSlotStep ==
  ASSUME QueueInv, PopSlot
  PROVE  QueueInv'
<1>p. /\ RealAt \in Nat /\ TailAt \in Nat /\ StealAt \in Nat /\ tail \in Index
      /\ \A w \in Workers : At(snap[w].steal) \in Nat
  BY Positions
<1>0. /\ pc[Owner] \in {"popSlot", "popLast"} /\ pc' = [pc EXCEPT ![Owner] = "idle"]
      /\ Take(buffer[Slot(IF pc[Owner] = "popSlot" THEN tail ELSE Sub(tail, 1))])
      /\ UNCHANGED <<head, tail, buffer, snap, count, copied, pending, pushed>>
  BY DEF PopSlot, Goto, claim
<1>1. pc'[Owner] = "idle" /\ "idle" \in OwnerPcs
  BY <1>0, OwnerPlace DEF OwnerPcs, ThiefPcs
<1>2. RealAt' = RealAt /\ StealAt' = StealAt /\ TailAt' = TailAt
  BY <1>0 DEF RealAt, StealAt, TailAt
<1>3. /\ From = (IF pc[Owner] = "popSlot" THEN RealAt ELSE RealAt - 1)
      /\ Upto = (IF pc[Owner] = "popSlot" THEN TailAt + 1 ELSE TailAt)
      /\ Limit = TailAt /\ From' = RealAt /\ Upto' = TailAt /\ Limit' = TailAt
  BY <1>0, <1>1, <1>2 DEF From, Upto, Limit, Final, Behind, Withdrawn
<1>4. /\ RealAt <= StealAt /\ StealAt <= TailAt
      /\ pc[Owner] = "popLast" => RealAt = TailAt /\ TailAt >= 1
  BY <1>0, <1>3 DEF QueueInv, Order
<1>5. /\ ClaimsOk' /\ (\A k : CopiedAt(k)' <=> CopiedAt(k))
      /\ pc' \in [Workers -> OwnerPcs] /\ (\A w \in Thieves : pc'[w] \in ThiefPcs)
  <2>1. StealAt < Limit => (StealAt < Limit)'
    BY <1>2, <1>3
  <2> QED BY <1>0, <1>1, <2>1, OwnerFrame
<1>6. PICK k : k = IF pc[Owner] = "popSlot" THEN TailAt ELSE TailAt - 1
  OBVIOUS
<1>7. k \in Region /\ Region' = Region \ {k}
  <2>1. CASE pc[Owner] = "popSlot"
    <3>1. k = TailAt /\ From = RealAt /\ Upto - 1 = TailAt
      BY <1>p, <1>3, <1>6, <2>1
    <3>2. Region = RealAt .. TailAt /\ Region' = RealAt .. TailAt - 1
      BY <1>3, <3>1 DEF Region
    <3> QED BY <1>p, <1>4, <3>1, <3>2
  <2>2. CASE pc[Owner] = "popLast"
    <3>1. k = TailAt - 1 /\ Region = TailAt - 1 .. TailAt - 1 /\ Region' = TailAt .. TailAt - 1
      BY <1>3, <1>4, <1>6, <2>2 DEF Region
    <3> QED BY <1>p, <3>1
  <2> QED BY <1>0, <2>1, <2>2
<1>8. ~CopiedAt(k)
  <2>1. ASSUME NEW w \in Workers, Claimed(w) PROVE ~(ClaimFrom(w) <= k /\ k < ClaimFrom(w) + copied[w])
    <3>1. RealAt <= ClaimFrom(w) /\ ClaimFrom(w) + copied[w] <= StealAt
      BY <2>1, ClaimedRange
    <3>2. ClaimFrom(w) \in Nat /\ ClaimFrom(w) + copied[w] \in Nat
      BY <2>1, ClaimedRange
    <3> QED BY <1>p, <1>0, <1>4, <1>6, <3>1, <3>2
  <2> QED BY <2>1 DEF CopiedAt
<1>9. Take(ItemAt(k))
  <2>1. pc[Owner] = "popSlot" => Slot(tail) = SlotAt(k)
    BY <1>p, <1>6, SlotOf DEF TailAt
  <2>2. pc[Owner] = "popLast" => Slot(Sub(tail, 1)) = SlotAt(k)
    <3> HAVE pc[Owner] = "popLast"
    <3>1. At(tail) >= 1 /\ k = At(tail) - 1
      BY <1>4, <1>6 DEF TailAt
    <3>2. Sub(tail, 1) \in Index /\ At(Sub(tail, 1)) = k
      BY <1>p, <3>1, Back
    <3> QED BY <3>2, SlotOf
  <2>3. CASE pc[Owner] = "popSlot"
    BY <1>0, <2>1, <2>3 DEF ItemAt
  <2>4. CASE pc[Owner] = "popLast"
    BY <1>0, <2>2, <2>4 DEF ItemAt
  <2> QED BY <1>0, <2>3, <2>4
<1>10. /\ taken' \in [Items -> Nat]
       /\ \A i \in Items : taken'[i] = IF i = ItemAt(k) THEN 1 ELSE taken[i]
  BY <1>7, <1>8, <1>9, TakeFacts
<1>11. Contents'
  <2>1. PICK S : S = {k}
    OBVIOUS
  <2>2. S \in SUBSET Region /\ Region' = Region \ S
    BY <1>7, <2>1
  <2>3. ItemAt(k) \in Items
    <3>1. pushed \in Nat /\ pushed <= MaxItems /\ MaxItems \in Nat
      BY Positions, Sizes
    <3> QED BY <1>7, <3>1 DEF QueueInv, Contents, Places, Items
  <2>4. /\ \A j \in S : taken'[ItemAt(j)] = 1
        /\ \A i \in Items : (\A j \in S : ItemAt(j) # i) => taken'[i] = taken[i]
        /\ \A j \in Region \ S : CopiedAt(j)' <=> CopiedAt(j)
    BY <1>5, <1>10, <2>1, <2>3
  <2> QED BY <1>0, <2>2, <2>4, LeaveContents
<1>12. QType'
  BY <1>0, <1>5, <1>10 DEF QueueInv, QType
<1>13. Order'
  BY <1>1, <1>2, <1>3, <1>4 DEF Order
<1>14. Bounds'
  <2>1. Cap \in Int /\ MaxQueued \in Int /\ pushed \in Int
    BY Sizes, Positions
  <2>2. Upto - From <= Cap /\ Upto - RealAt <= MaxQueued + 1 /\ Upto <= pushed
    BY DEF QueueInv, Bounds
  <2>3. TailAt - RealAt <= Cap /\ TailAt - RealAt <= MaxQueued + 1 /\ TailAt <= pushed
    <3>1. CASE pc[Owner] = "popSlot"
      BY <1>p, <1>3, <2>1, <2>2, <3>1
    <3>2. CASE pc[Owner] = "popLast"
      BY <1>p, <1>3, <1>4, <2>1, <2>2, <3>2
    <3> QED BY <1>0, <3>1, <3>2
  <2>4. Upto' - From' <= Cap /\ Upto' - RealAt' <= MaxQueued + 1 /\ Upto' <= pushed'
    BY <1>0, <1>2, <1>3, <2>3
  <2>5. ~Pushing' /\ pending' = NoItem
    BY <1>0, <1>1 DEF QueueInv, Bounds, Pushing
  <2> QED BY <1>1, <2>4, <2>5 DEF Bounds
<1> QED BY <1>5, <1>11, <1>12, <1>13, <1>14 DEF QueueInv

LEMMA ClaimLastStep ==
  ASSUME QueueInv, ClaimLast, NoFullTurn
  PROVE  QueueInv'
<1>p. /\ RealAt \in Nat /\ TailAt \in Nat /\ StealAt \in Nat /\ tail \in Index /\ head.steal \in Index /\ head.real \in Index
      /\ pushed \in Nat /\ pushed <= MaxItems /\ MaxItems \in Nat /\ MaxItems < IndexMod /\ IndexMod \in Nat
      /\ Cap \in Nat /\ MaxQueued \in Nat
      /\ \A w \in Workers : At(snap[w].steal) \in Nat /\ At(snap[w].real) \in Nat
  BY Positions, Sizes DEF NoFullTurn
<1>0. pc[Owner] = "claimLast" /\ UNCHANGED <<tail, buffer, snap, count, copied, pending, pushed, taken>>
  BY DEF ClaimLast, claim
<1>1. /\ From = RealAt /\ Upto = TailAt + 1 /\ Limit = TailAt + 1 /\ TailAt' = TailAt
      /\ RealAt <= StealAt /\ StealAt <= TailAt + 1
      /\ Upto - From <= Cap /\ Upto - RealAt <= MaxQueued + 1 /\ Upto <= pushed /\ pending = NoItem
  BY <1>0 DEF From, Upto, Limit, Final, Behind, Withdrawn, TailAt, QueueInv, Order, Bounds, Pushing
<1>2. CASE head # snap[Owner]
  <2>1. pc' = [pc EXCEPT ![Owner] = "restore"] /\ UNCHANGED head
    BY <1>2 DEF ClaimLast, Goto
  <2>2. pc'[Owner] = "restore" /\ "restore" \in OwnerPcs
    BY <2>1, OwnerPlace DEF OwnerPcs
  <2>3. RealAt' = RealAt /\ StealAt' = StealAt
    BY <2>1 DEF RealAt, StealAt
  <2>4. From' = RealAt /\ Upto' = TailAt + 1 /\ Limit' = TailAt + 1
    BY <1>1, <2>2, <2>3 DEF From, Upto, Limit, Final, Behind, Withdrawn
  <2>5. Order'
    BY <1>1, <2>2, <2>3, <2>4 DEF Order
  <2>6. Bounds'
    BY <1>0, <1>1, <2>2, <2>3, <2>4 DEF Bounds, Pushing
  <2>7. (StealAt < Limit => (StealAt < Limit)') /\ From' = From /\ Upto' = Upto /\ tail' \in Index
    BY <1>p, <1>0, <1>1, <2>3, <2>4
  <2> QED BY <1>0, <2>1, <2>2, <2>5, <2>6, <2>7, OwnerKeeps
<1>3. CASE head = snap[Owner]
  <2>1. /\ pc' = [pc EXCEPT ![Owner] = "keepTail"]
        /\ head' = [steal |-> Add(head.steal, 1), real |-> Add(head.real, 1)]
    BY <1>3 DEF ClaimLast, Goto, Word
  <2>2. pc'[Owner] = "keepTail" /\ "keepTail" \in OwnerPcs
    BY <2>1, OwnerPlace DEF OwnerPcs
  <2>3. RealAt = StealAt /\ StealAt = TailAt
    BY <1>0, <1>3 DEF QueueInv, Order
  <2>4. /\ Add(head.steal, 1) \in Index /\ At(Add(head.steal, 1)) = TailAt + 1
        /\ Add(head.real, 1) \in Index /\ At(Add(head.real, 1)) = TailAt + 1
    <3>1. At(head.steal) + 1 < IndexMod /\ At(head.real) + 1 < IndexMod
      BY <1>p, <1>1, <2>3 DEF StealAt, RealAt
    <3> QED BY <1>p, <2>3, <3>1, Forward DEF StealAt, RealAt
  <2>5. head' \in WordType /\ RealAt' = TailAt + 1 /\ StealAt' = TailAt + 1
    BY <2>1, <2>4 DEF WordType, RealAt, StealAt
  <2>6. From' = TailAt /\ Upto' = TailAt + 1 /\ Limit' = TailAt
    BY <1>p, <1>1, <2>2, <2>5 DEF From, Upto, Limit, Final, Behind, Withdrawn
  <2>7. /\ pc \in [Workers -> OwnerPcs] /\ Owner \in Workers /\ Owner \notin Thieves
        /\ \A w \in Thieves : pc[w] \in ThiefPcs
    BY OwnerIsNoThief DEF QueueInv, QType, Workers
  <2>8. /\ pc' \in [Workers -> OwnerPcs] /\ \A w \in Thieves : pc'[w] \in ThiefPcs
        /\ \A w \in Workers : w # Owner => pc'[w] = pc[w]
    BY <2>1, <2>2, <2>7 DEF Workers
  <2>9. QType'
    BY <1>0, <2>5, <2>8 DEF QueueInv, QType
  <2>10. Order'
    BY <1>p, <1>1, <2>2, <2>5, <2>6 DEF Order
  <2>11. Bounds'
    BY <1>p, <1>0, <1>1, <2>2, <2>3, <2>5, <2>6 DEF Bounds, Pushing
  <2>12. \A w \in Workers : ~Claimed(w) /\ ~Claimed(w)'
    <3>1. ASSUME NEW w \in Workers, Claimed(w) PROVE FALSE
      <4>1. /\ ClaimFrom(w) \in Nat /\ count[w] \in Nat /\ count[w] >= 1 /\ RealAt <= ClaimFrom(w)
            /\ ClaimFrom(w) + count[w] <= StealAt
        BY <3>1, ClaimedRange DEF ClaimEnd
      <4> QED BY <1>p, <2>3, <4>1
    <3>2. \A w \in Workers : Claimed(w)' => Claimed(w)
      BY <2>2, <2>8 DEF Claimed
    <3> QED BY <3>1, <3>2
  <2>13. \A w \in Workers : snap[w] # head'
    <3> SUFFICES ASSUME NEW w \in Workers PROVE snap[w] # head'
      OBVIOUS
    <3>1. At(snap[w].steal) <= TailAt
      BY <2>3 DEF QueueInv, ClaimsOk, Loaded
    <3>2. At(head'.steal) = TailAt + 1
      BY <2>1, <2>4
    <3> QED BY <1>p, <3>1, <3>2
  <2>14. ClaimsOk'
    <3>1. ASSUME NEW w \in Workers
          PROVE  (Loaded(w) /\ Live(w) /\ Claims(w))'
      <4>1. Loaded(w)'
        <5>1. At(snap[w].steal) <= StealAt /\ At(snap[w].real) <= RealAt
          BY DEF QueueInv, ClaimsOk, Loaded
        <5>2. At(snap[w].steal) <= TailAt + 1 /\ At(snap[w].real) <= TailAt + 1
          BY <1>p, <2>3, <5>1
        <5> QED BY <1>0, <2>5, <5>2 DEF Loaded
      <4>2. Live(w)'
        <5>1. pc'[w] = "claim" => pc[w] = "claim"
          BY <2>2, <2>8
        <5> QED BY <1>0, <2>13, <5>1 DEF QueueInv, ClaimsOk, Live
      <4> QED BY <2>12, <4>1, <4>2 DEF Claims
    <3> QED BY <2>12, <3>1 DEF ClaimsOk, Apart
  <2>15. Contents'
    <3>1. \A k : CopiedAt(k)' <=> CopiedAt(k)
      BY <2>12 DEF CopiedAt
    <3>2. From' = From /\ Upto' = Upto
      BY <1>1, <2>3, <2>6
    <3> QED BY <1>0, <3>1, <3>2, SameContents DEF QueueInv
  <2> QED BY <2>9, <2>10, <2>11, <2>14, <2>15 DEF QueueInv
<1> QED BY <1>2, <1>3
(* A step of a steal changes no phase of the owner's other calls. *)
OwnSteal == {"pushBack", "stealHead", "stealTail", "claim", "copy", "commit"}

LEMMA StealFrame ==
  ASSUME QueueInv, NEW w \in Workers, NEW p, pc' = [pc EXCEPT ![w] = p], tail' = tail,
         w = Owner => pc[w] \in OwnSteal /\ p \in OwnSteal,
         w # Owner => p \in ThiefPcs
  PROVE  /\ pc' \in [Workers -> OwnerPcs] /\ (\A v \in Thieves : pc'[v] \in ThiefPcs)
         /\ pc'[w] = p /\ (\A v \in Workers : v # w => pc'[v] = pc[v])
         /\ (Withdrawn' <=> Withdrawn) /\ (Behind' <=> Behind) /\ (Final' <=> Final) /\ (Pushing' <=> Pushing)
         /\ TailAt' = TailAt /\ Upto' = Upto /\ Limit' = Limit
         /\ \A q \in {"withdraw", "keepTail", "popLast", "claimLast", "writeSlot"} :
              pc'[Owner] = q <=> pc[Owner] = q /\ w # Owner
<1>t. /\ pc \in [Workers -> OwnerPcs] /\ (\A v \in Thieves : pc[v] \in ThiefPcs) /\ Owner \in Workers /\ Owner \notin Thieves
      /\ (\A v \in Thieves : v \in Workers) /\ ThiefPcs \subseteq OwnerPcs /\ OwnSteal \subseteq OwnerPcs
  BY OwnerIsNoThief DEF QueueInv, QType, Workers, OwnerPcs, ThiefPcs, OwnSteal
<1>1. p \in OwnerPcs /\ pc'[w] = p /\ (\A v \in Workers : v # w => pc'[v] = pc[v]) /\ pc' \in [Workers -> OwnerPcs]
  BY <1>t
<1>2. \A v \in Thieves : pc'[v] \in ThiefPcs
  BY <1>t, <1>1
<1>3. pc'[Owner] = pc[Owner] \/ (w = Owner /\ pc[Owner] \in OwnSteal /\ pc'[Owner] \in OwnSteal)
  BY <1>t, <1>1
<1>4. (Withdrawn' <=> Withdrawn) /\ (Behind' <=> Behind) /\ (Final' <=> Final) /\ (Pushing' <=> Pushing)
  BY <1>3 DEF Withdrawn, Behind, Final, Pushing, OwnSteal
<1>5. TailAt' = TailAt
  BY DEF TailAt
<1>6. Upto' = Upto /\ Limit' = Limit
  BY <1>4, <1>5 DEF Upto, Limit
<1>7. \A q \in {"withdraw", "keepTail", "popLast", "claimLast", "writeSlot"} :
        pc'[Owner] = q <=> pc[Owner] = q /\ w # Owner
  <2>1. CASE w = Owner
    BY <1>1, <2>1 DEF OwnSteal
  <2>2. CASE w # Owner
    BY <1>t, <1>1, <2>2
  <2> QED BY <2>1, <2>2
<1> QED BY <1>1, <1>2, <1>4, <1>5, <1>6, <1>7

(* A step of a steal that moves neither the head nor an item. *)
LEMMA StealKeeps ==
  ASSUME QueueInv, NEW w \in Workers, NEW p, pc' = [pc EXCEPT ![w] = p],
         UNCHANGED <<head, tail, buffer, pending, pushed, taken>>,
         w = Owner => pc[w] \in OwnSteal /\ p \in OwnSteal, w # Owner => p \in ThiefPcs,
         pc[w] \notin {"copy", "commit"}, p \notin {"copy", "commit"},
         snap' = snap \/ snap' = [snap EXCEPT ![w] = head],
         count' \in [Workers -> Nat], copied' \in [Workers -> Nat],
         \A v \in Workers : v # w => count'[v] = count[v] /\ copied'[v] = copied[v],
         Live(w)'
  PROVE  QueueInv'
<1>1. /\ pc' \in [Workers -> OwnerPcs] /\ (\A v \in Thieves : pc'[v] \in ThiefPcs)
      /\ pc'[w] = p /\ (\A v \in Workers : v # w => pc'[v] = pc[v])
      /\ (Withdrawn' <=> Withdrawn) /\ (Behind' <=> Behind) /\ (Final' <=> Final) /\ (Pushing' <=> Pushing)
      /\ TailAt' = TailAt /\ Upto' = Upto /\ Limit' = Limit
      /\ \A q \in {"withdraw", "keepTail", "popLast", "claimLast", "writeSlot"} :
           pc'[Owner] = q <=> pc[Owner] = q /\ w # Owner
  BY StealFrame
<1>2. RealAt' = RealAt /\ StealAt' = StealAt
  BY DEF RealAt, StealAt
<1>3. From' = From
  BY <1>1, <1>2 DEF From
<1>4. snap \in [Workers -> WordType] /\ head \in WordType
  BY DEF QueueInv, QType
<1>5. snap' \in [Workers -> WordType] /\ (\A v \in Workers : v # w => snap'[v] = snap[v]) /\ snap'[w] \in {snap[w], head}
  BY <1>4
<1>6. QType'
  BY <1>1, <1>5 DEF QueueInv, QType
<1>7. Order'
  <2>1. w # Owner => snap'[Owner] = snap[Owner]
    BY <1>5 DEF Workers
  <2>2. /\ (pc'[Owner] = "claimLast" => pc[Owner] = "claimLast" /\ w # Owner)
        /\ (pc'[Owner] = "keepTail" => pc[Owner] = "keepTail") /\ (pc[Owner] = "keepTail" => w # Owner)
        /\ (pc'[Owner] = "popLast" => pc[Owner] = "popLast")
        /\ (pc'[Owner] = "withdraw" => pc[Owner] = "withdraw")
    BY <1>1 DEF OwnSteal
  <2>3. pc'[Owner] = "keepTail" <=> pc[Owner] = "keepTail"
    BY <1>1, <2>2
  <2> QED BY <1>1, <1>2, <2>1, <2>2, <2>3 DEF QueueInv, Order
<1>8. Bounds'
  BY <1>1, <1>2, <1>3 DEF QueueInv, Bounds
<1>9. \A v \in Workers : (Claimed(v)' <=> Claimed(v)) /\ (Claimed(v) => v # w)
  BY <1>1 DEF Claimed
<1>10. ASSUME NEW v \in Workers
       PROVE  (Loaded(v) /\ Live(v) /\ Claims(v))'
  <2>0. Loaded(v) /\ Live(v) /\ Claims(v) /\ Loaded(w)
    BY DEF QueueInv, ClaimsOk
  <2>1. CASE v = w
    <3>1. Loaded(w)'
      <4>1. StealAt \in Nat /\ RealAt \in Nat
        BY Positions
      <4>2. (At(snap[w].steal) <= StealAt)' /\ (At(snap[w].real) <= RealAt)'
        <5>1. CASE snap'[w] = snap[w]
          BY <1>2, <2>0, <2>1, <5>1 DEF Loaded
        <5>2. CASE snap'[w] = head
          BY <1>2, <4>1, <5>2 DEF StealAt, RealAt
        <5> QED BY <1>5, <5>1, <5>2
      <4> QED BY <4>2 DEF Loaded
    <3>2. Claims(w)'
      BY <1>9 DEF Claims
    <3> QED BY <2>1, <3>1, <3>2
  <2>2. CASE v # w
    <3>1. snap'[v] = snap[v] /\ pc'[v] = pc[v] /\ count'[v] = count[v] /\ copied'[v] = copied[v]
      BY <1>1, <1>5, <2>2
    <3> QED BY <1>1, <1>2, <2>0, <3>1 DEF Loaded, Live, Claims, Claimed, ClaimFrom, ClaimEnd
  <2> QED BY <2>1, <2>2
<1>s. \A v \in Workers : Claimed(v) => UNCHANGED <<ClaimFrom(v), count[v], copied[v]>>
  BY <1>5, <1>9 DEF ClaimFrom
<1>11. Apart'
  BY <1>9, <1>s DEF QueueInv, ClaimsOk, Apart, ClaimEnd
<1>12. Contents'
  <2>2. \A k : CopiedAt(k)' <=> CopiedAt(k)
    BY <1>9, <1>s DEF CopiedAt
  <2> QED BY <1>1, <1>3, <2>2, SameContents DEF QueueInv
<1> QED BY <1>6, <1>7, <1>8, <1>10, <1>11, <1>12 DEF QueueInv, ClaimsOk

LEMMA StealBegins ==
  ASSUME QueueInv, NEW w \in Workers, Steal(w)
  PROVE  QueueInv'
<1>1. /\ pc[w] = (IF w = Owner THEN "stealHead" ELSE "idle") /\ snap' = [snap EXCEPT ![w] = head]
      /\ pc' = [pc EXCEPT ![w] = "stealTail"]
      /\ UNCHANGED <<head, tail, buffer, count, copied, pending, pushed, taken>>
  BY DEF Steal, Load, Goto, claim
<1>2. pc'[w] = "stealTail"
  BY <1>1 DEF QueueInv, QType
<1>3. Live(w)'
  BY <1>2 DEF Live
<1>4. /\ w = Owner => pc[w] \in OwnSteal /\ "stealTail" \in OwnSteal
      /\ "stealTail" \in ThiefPcs /\ pc[w] \notin {"copy", "commit"}
  BY <1>1 DEF OwnSteal, ThiefPcs
<1>5. count' \in [Workers -> Nat] /\ copied' \in [Workers -> Nat]
  BY <1>1 DEF QueueInv, QType
<1>6. /\ \A v \in Workers : v # w => count'[v] = count[v] /\ copied'[v] = copied[v]
      /\ w # Owner => "stealTail" \in ThiefPcs
      /\ "stealTail" \notin {"copy", "commit"}
      /\ UNCHANGED <<head, tail, buffer, pending, pushed, taken>>
  BY <1>1, <1>4
<1>7. PICK p : p = "stealTail"
  OBVIOUS
<1> QED BY <1>1, <1>3, <1>4, <1>5, <1>6, <1>7, StealKeeps

(* A claim is of one item at least; of three in sight, half is one. *)
LEMMA OneAtATime ==
  ASSUME NEW a \in Nat, NEW r \in Nat
  PROVE  StealCount(a, r) \in Nat /\ StealCount(a, r) >= 1 /\ (a <= 3 => StealCount(a, r) = 1)
<1>1. PICK h : h = a \div 2
  OBVIOUS
<1>2. h \in Nat /\ (a <= 3 => h <= 1)
  BY <1>1
<1>3. PICK l : l = Least(a, r)
  OBVIOUS
<1>4. l \in Nat
  BY <1>3 DEF Least
<1>5. PICK m : m = Least(l, h)
  OBVIOUS
<1>6. m \in Nat /\ m <= h
  BY <1>2, <1>4, <1>5 DEF Least
<1>7. StealCount(a, r) = IF m > 1 THEN m ELSE 1
  BY <1>1, <1>3, <1>5 DEF StealCount
<1> QED BY <1>2, <1>6, <1>7

LEMMA StealTailStep ==
  ASSUME QueueInv, NEW w \in Workers, NEW r \in Nat, StealTail(w, r)
  PROVE  QueueInv'
<1>p. /\ RealAt \in Nat /\ TailAt \in Nat /\ StealAt \in Nat /\ tail \in Index /\ head.steal \in Index
      /\ StealAt < IndexMod /\ snap[w].steal \in Index /\ IndexMod \in Nat /\ Cap \in Nat /\ Cap + 1 < IndexMod /\ MaxQueued \in Nat
  BY Positions, Sizes
<1>0. pc[w] = "stealTail" /\ UNCHANGED <<head, tail, buffer, snap, pending, pushed, taken>>
  BY DEF StealTail
<1>t. pc \in [Workers -> OwnerPcs] /\ count \in [Workers -> Nat] /\ copied \in [Workers -> Nat]
  BY DEF QueueInv, QType
<1>a. PICK a : a = Sub(tail, snap[w].steal)
  OBVIOUS
<1>1. CASE a = 0 \/ a > Cap \/ r = 0
  <2>1. pc' = [pc EXCEPT ![w] = AfterSteal(w)] /\ UNCHANGED <<count, copied>>
    BY <1>a, <1>1 DEF StealTail, Available, Goto, claim
  <2>2. PICK p : p = AfterSteal(w)
    OBVIOUS
  <2>3. /\ w = Owner => pc[w] \in OwnSteal /\ p \in OwnSteal
        /\ w # Owner => p \in ThiefPcs
        /\ pc[w] \notin {"copy", "commit"} /\ p \notin {"copy", "commit"} /\ p # "claim"
    BY <1>0, <2>2 DEF AfterSteal, OwnSteal, ThiefPcs
  <2>4. Live(w)'
    <3>1. pc'[w] # "claim"
      BY <1>t, <2>1, <2>2, <2>3
    <3> QED BY <3>1 DEF Live
  <2>5. /\ \A v \in Workers : v # w => count'[v] = count[v] /\ copied'[v] = copied[v]
        /\ count' \in [Workers -> Nat] /\ copied' \in [Workers -> Nat]
        /\ pc' = [pc EXCEPT ![w] = p] /\ snap' = snap
        /\ UNCHANGED <<head, tail, buffer, pending, pushed, taken>>
    BY <1>0, <1>t, <2>1, <2>2
  <2> QED BY <2>3, <2>4, <2>5, StealKeeps
<1>2. CASE ~(a = 0 \/ a > Cap \/ r = 0)
  <2>1. /\ pc' = [pc EXCEPT ![w] = "claim"] /\ count' = [count EXCEPT ![w] = StealCount(a, r)]
        /\ copied' = [copied EXCEPT ![w] = 0]
    BY <1>a, <1>2 DEF StealTail, Available, Goto
  <2>2. a \in Nat
    <3>1. a \in Index
      BY <1>p, <1>a, SubIs
    <3> QED BY <1>p, <3>1 DEF Index
  <2>3. StealCount(a, r) \in Nat /\ StealCount(a, r) >= 1 /\ (a <= 3 => StealCount(a, r) = 1)
    BY <2>2, OneAtATime
  <2>4. /\ count' \in [Workers -> Nat] /\ copied' \in [Workers -> Nat]
        /\ \A v \in Workers : v # w => count'[v] = count[v] /\ copied'[v] = copied[v]
    BY <1>t, <2>1, <2>3
  <2>5. count'[w] = StealCount(a, r) /\ copied'[w] = 0 /\ pc'[w] = "claim"
    BY <1>t, <2>1
  <2>6. /\ w = Owner => pc[w] \in OwnSteal /\ "claim" \in OwnSteal
        /\ w # Owner => "claim" \in ThiefPcs
        /\ pc[w] \notin {"copy", "commit"} /\ "claim" \notin {"copy", "commit"}
    BY <1>0 DEF OwnSteal, ThiefPcs
  <2>7. (Limit' = Limit) /\ StealAt' = StealAt
    <3>1. Limit' = Limit
      BY <1>0, <2>1, <2>6, StealFrame
    <3> QED BY <1>0, <3>1 DEF StealAt
  <2>8. snap[w] = head => StealAt < Limit /\ (MaxQueued <= 2 => a <= 3)
    <3> HAVE snap[w] = head
    <3>1. /\ Limit \in {TailAt, TailAt + 1} /\ Upto \in {TailAt, TailAt + 1}
          /\ RealAt <= StealAt /\ StealAt <= TailAt + 1 /\ Upto - RealAt <= MaxQueued + 1
      <4>1. Limit \in {TailAt, TailAt + 1} /\ Upto \in {TailAt, TailAt + 1}
        BY DEF Limit, Upto
      <4>2. StealAt <= TailAt + 1
        BY <1>p, <4>1 DEF QueueInv, Order
      <4> QED BY <4>1, <4>2 DEF QueueInv, Order, Bounds
    <3>2. a = IF StealAt <= TailAt THEN TailAt - StealAt ELSE TailAt - StealAt + IndexMod
      BY <1>p, <1>a, Distance DEF StealAt, TailAt
    <3>3. StealAt <= TailAt
      BY <1>p, <1>2, <3>1, <3>2
    <3>4. a = TailAt - StealAt /\ a > 0
      BY <1>2, <2>2, <3>2, <3>3
    <3>5. StealAt < TailAt
      BY <1>p, <3>4
    <3> QED BY <1>p, <3>1, <3>4, <3>5
  <2>9. Live(w)'
    BY <1>0, <2>3, <2>5, <2>7, <2>8 DEF Live
  <2>10. PICK p : p = "claim"
    OBVIOUS
  <2>11. UNCHANGED <<head, tail, buffer, pending, pushed, taken>> /\ snap' = snap
    BY <1>0
  <2> QED BY <2>1, <2>4, <2>6, <2>9, <2>10, <2>11, StealKeeps
<1> QED BY <1>1, <1>2

(* What a claim may reach for are the positions from the head to Limit. *)
LEMMA ClaimableIs ==
  ASSUME QueueInv, NoFullTurn, StealAt < Limit
  PROVE  Claimable = Limit - StealAt /\ Limit \in Nat /\ Limit < IndexMod
<1>p. /\ TailAt \in Nat /\ StealAt \in Nat /\ tail \in Index /\ head.steal \in Index /\ TailAt < IndexMod
      /\ pushed \in Nat /\ pushed <= MaxItems /\ MaxItems \in Nat /\ MaxItems < IndexMod /\ IndexMod \in Nat
  BY Positions, Sizes DEF NoFullTurn
<1>1. CASE Withdrawn
  <2>1. Limit = TailAt + 1 /\ Upto = TailAt + 1
    BY <1>1 DEF Limit, Upto, Behind
  <2>2. TailAt + 1 < IndexMod
    BY <1>p, <2>1 DEF QueueInv, Bounds
  <2>3. Add(tail, 1) \in Index /\ At(Add(tail, 1)) = TailAt + 1
    BY <1>p, <2>2, Forward DEF TailAt
  <2>4. Sub(Add(tail, 1), head.steal) = TailAt + 1 - StealAt
    BY <1>p, <2>1, <2>3, Distance DEF StealAt
  <2>5. Claimable = Sub(Add(tail, 1), head.steal)
    BY <1>1 DEF Claimable, Remaining, Withdrawn
  <2> QED BY <1>p, <2>1, <2>2, <2>4, <2>5
<1>2. CASE ~Withdrawn
  <2>1. Limit = TailAt
    BY <1>2 DEF Limit
  <2>2. Sub(tail, head.steal) = TailAt - StealAt
    BY <1>p, <2>1, Distance DEF StealAt, TailAt
  <2>3. Claimable = Sub(tail, head.steal)
    BY <1>2 DEF Claimable, Available, Withdrawn
  <2> QED BY <1>p, <2>1, <2>2, <2>3
<1> QED BY <1>1, <1>2

LEMMA ClaimStep ==
  ASSUME QueueInv, NoFullTurn, NEW w \in Workers, Claim(w), NoOverreach
  PROVE  QueueInv'
<1>p. /\ RealAt \in Nat /\ TailAt \in Nat /\ StealAt \in Nat /\ head.steal \in Index /\ head.real \in Index
      /\ pushed \in Nat /\ pushed <= MaxItems /\ MaxItems \in Nat /\ MaxItems < IndexMod /\ IndexMod \in Nat
      /\ \A v \in Workers : At(snap[v].steal) \in Nat /\ At(snap[v].real) \in Nat
  BY Positions, Sizes DEF NoFullTurn
<1>0. pc[w] = "claim" /\ UNCHANGED <<tail, buffer, snap, count, copied, pending, pushed, taken>>
  BY DEF Claim, claim
<1>t. /\ pc \in [Workers -> OwnerPcs] /\ count \in [Workers -> Nat] /\ copied \in [Workers -> Nat]
  BY DEF QueueInv, QType
<1>1. CASE head # snap[w]
  <2>1. PICK p : p = IF w = Owner THEN "stealHead" ELSE "idle"
    OBVIOUS
  <2>2. pc' = [pc EXCEPT ![w] = p] /\ UNCHANGED head
    BY <1>1, <2>1 DEF Claim, Goto
  <2>3. /\ w = Owner => pc[w] \in OwnSteal /\ p \in OwnSteal
        /\ w # Owner => p \in ThiefPcs
        /\ pc[w] \notin {"copy", "commit"} /\ p \notin {"copy", "commit"} /\ p # "claim"
    BY <1>0, <2>1 DEF OwnSteal, ThiefPcs
  <2>4. Live(w)'
    <3>1. pc'[w] # "claim"
      BY <1>t, <2>2, <2>3
    <3> QED BY <3>1 DEF Live
  <2>5. /\ \A v \in Workers : v # w => count'[v] = count[v] /\ copied'[v] = copied[v]
        /\ count' \in [Workers -> Nat] /\ copied' \in [Workers -> Nat] /\ snap' = snap
        /\ UNCHANGED <<head, tail, buffer, pending, pushed, taken>>
    BY <1>0, <1>t, <2>2
  <2> QED BY <2>2, <2>3, <2>4, <2>5, StealKeeps
<1>2. CASE head = snap[w]
  <2>1. /\ pc' = [pc EXCEPT ![w] = "copy"]
        /\ head' = [steal |-> Add(head.steal, count[w]), real |-> head.real]
    BY <1>2 DEF Claim, Goto, Word
  <2>2. count[w] >= 1 /\ copied[w] = 0 /\ StealAt < Limit /\ count[w] \in Nat
    BY <1>0, <1>t, <1>2 DEF QueueInv, ClaimsOk, Live
  <2>3. /\ w = Owner => pc[w] \in OwnSteal /\ "copy" \in OwnSteal
        /\ w # Owner => "copy" \in ThiefPcs
    BY <1>0 DEF OwnSteal, ThiefPcs
  <2>4. /\ pc' \in [Workers -> OwnerPcs] /\ (\A v \in Thieves : pc'[v] \in ThiefPcs)
        /\ pc'[w] = "copy" /\ (\A v \in Workers : v # w => pc'[v] = pc[v])
        /\ (Withdrawn' <=> Withdrawn) /\ (Behind' <=> Behind) /\ (Final' <=> Final) /\ (Pushing' <=> Pushing)
        /\ TailAt' = TailAt /\ Upto' = Upto /\ Limit' = Limit
        /\ \A q \in {"withdraw", "keepTail", "popLast", "claimLast", "writeSlot"} :
             pc'[Owner] = q <=> pc[Owner] = q /\ w # Owner
    BY <1>0, <2>1, <2>3, StealFrame
  <2>5. /\ Limit \in {TailAt, TailAt + 1} /\ Limit <= Upto /\ Upto <= pushed /\ Upto \in Nat /\ Limit \in Nat
    BY <1>p DEF Limit, Upto, Behind, QueueInv, Bounds
  <2>s. StealAt + count[w] <= Limit /\ Limit < IndexMod
    <3>1. count[w] <= Claimable
      BY <1>0, <2>4 DEF NoOverreach
    <3>2. Claimable = Limit - StealAt /\ Limit < IndexMod
      BY <2>2, ClaimableIs
    <3> QED BY <1>p, <2>2, <2>5, <3>1, <3>2
  <2>6. /\ Add(head.steal, count[w]) \in Index /\ At(Add(head.steal, count[w])) = StealAt + count[w]
    <3>1. At(head.steal) + count[w] < IndexMod
      BY <1>p, <2>2, <2>5, <2>s DEF StealAt
    <3> QED BY <1>p, <2>2, <3>1, Forward DEF StealAt
  <2>7. /\ head' \in WordType /\ RealAt' = RealAt /\ StealAt' = StealAt + count[w]
        /\ At(head'.steal) = StealAt + count[w]
    BY <1>p, <2>1, <2>2, <2>6 DEF WordType, RealAt, StealAt
  <2>8. QType'
    BY <1>0, <2>4, <2>7 DEF QueueInv, QType
  <2>9. pc[Owner] \notin {"keepTail", "popLast"}
    <3>1. ASSUME pc[Owner] \in {"keepTail", "popLast"} PROVE FALSE
      <4>1. Limit = TailAt
        BY <3>1 DEF Limit, Withdrawn
      <4>2. RealAt >= TailAt /\ RealAt <= StealAt
        BY <1>p, <3>1 DEF QueueInv, Order
      <4> QED BY <1>p, <2>2, <4>1, <4>2
    <3> QED BY <3>1
  <2>10. \A v \in Workers : snap[v] # head'
    <3>1. \A v \in Workers : At(snap[v].steal) <= StealAt
      BY DEF QueueInv, ClaimsOk, Loaded
    <3> QED BY <1>p, <2>2, <2>7, <3>1
  <2>11. Order'
    <3>1. pc'[Owner] # "keepTail" /\ pc'[Owner] # "popLast" /\ (pc'[Owner] = "withdraw" => pc[Owner] = "withdraw")
      BY <2>4, <2>9
    <3>2. snap'[Owner] # head'
      BY <1>0, <2>10 DEF Workers
    <3> QED BY <1>p, <2>2, <2>4, <2>5, <2>s, <2>7, <3>1, <3>2 DEF QueueInv, Order
  <2>12. From' = From
    BY <2>4, <2>7 DEF From
  <2>13. Bounds'
    BY <1>0, <2>4, <2>7, <2>12 DEF QueueInv, Bounds
  <2>14. ClaimFrom(w) = StealAt /\ \A v \in Workers : UNCHANGED <<ClaimFrom(v), ClaimEnd(v), copied[v]>>
    BY <1>0, <1>2 DEF StealAt, ClaimFrom, ClaimEnd
  <2>15. ASSUME NEW v \in Workers
         PROVE  (Loaded(v) /\ Live(v) /\ Claims(v))'
    <3>0. Loaded(v) /\ Live(v) /\ Claims(v)
      BY DEF QueueInv, ClaimsOk
    <3>1. Loaded(v)'
      BY <1>p, <1>0, <2>2, <2>7, <3>0 DEF Loaded
    <3>2. Live(v)'
      <4>1. pc'[v] = "claim" => pc[v] = "claim"
        BY <2>4
      <4> QED BY <1>0, <2>10, <3>0, <4>1 DEF Live
    <3>3. Claims(v)'
      <4>1. CASE v = w
        <5>1. RealAt <= StealAt
          BY DEF QueueInv, Order
        <5>2. ClaimEnd(w) = StealAt + count[w]
          BY <2>14 DEF ClaimEnd
        <5> QED BY <1>p, <1>0, <2>2, <2>4, <2>7, <2>14, <4>1, <5>1, <5>2 DEF Claims
      <4>2. CASE v # w
        <5>1. pc'[v] = pc[v]
          BY <2>4, <4>2
        <5>2. Claimed(v) => ClaimEnd(v) <= StealAt + count[w]
          <6> HAVE Claimed(v)
          <6>1. ClaimEnd(v) \in Nat /\ ClaimEnd(v) <= StealAt
            BY ClaimedRange
          <6> QED BY <1>p, <2>2, <6>1
        <5> QED BY <1>0, <2>7, <2>14, <3>0, <5>1, <5>2 DEF Claims, Claimed
      <4> QED BY <4>1, <4>2
    <3> QED BY <3>1, <3>2, <3>3
  <2>16. Apart'
    <3>1. \A v \in Workers : Claimed(v) => ClaimEnd(v) <= ClaimFrom(w)
      BY <2>14, ClaimedRange
    <3>2. \A v \in Workers : v # w => (Claimed(v)' <=> Claimed(v))
      BY <2>4 DEF Claimed
    <3> QED BY <2>14, <3>1, <3>2 DEF QueueInv, ClaimsOk, Apart
  <2>17. Contents'
    <3>1. ~Claimed(w) /\ \A v \in Workers : v # w => (Claimed(v)' <=> Claimed(v))
      BY <1>0, <2>4 DEF Claimed
    <3>2. ASSUME NEW k \in Region PROVE CopiedAt(k)' <=> CopiedAt(k)
      <4>1. k \in Int
        BY DEF Region
      <4>2. ~(ClaimFrom(w) <= k /\ k < ClaimFrom(w) + copied[w])
        BY <1>p, <2>2, <2>14, <4>1
      <4> QED BY <2>14, <3>1, <4>2 DEF CopiedAt
    <3> QED BY <1>0, <2>4, <2>12, <3>2, SameContents DEF QueueInv
  <2> QED BY <2>8, <2>11, <2>13, <2>15, <2>16, <2>17 DEF QueueInv, ClaimsOk
<1> QED BY <1>1, <1>2

(* Where the items of a claim are. *)
LEMMA ClaimedItem ==
  ASSUME QueueInv, NEW w \in Workers, Claimed(w)
  PROVE  /\ pc[Owner] \notin {"keepTail", "popLast"}
         /\ ClaimFrom(w) .. ClaimEnd(w) - 1 \subseteq Region
         /\ \A k \in ClaimFrom(w) .. ClaimEnd(w) - 1 : \A v \in Workers :
              Claimed(v) /\ ClaimFrom(v) <= k /\ k < ClaimEnd(v) => v = w
<1>p. RealAt \in Nat /\ TailAt \in Nat /\ StealAt \in Nat
  BY Positions
<1>1. \A v \in Workers : Claimed(v) =>
        /\ ClaimFrom(v) \in Nat /\ count[v] \in Nat /\ count[v] >= 1 /\ ClaimEnd(v) = ClaimFrom(v) + count[v]
        /\ RealAt <= ClaimFrom(v) /\ ClaimEnd(v) <= StealAt
  BY ClaimedRange DEF ClaimEnd
<1>2. pc[Owner] \notin {"keepTail", "popLast"}
  <2>1. ASSUME pc[Owner] \in {"keepTail", "popLast"} PROVE FALSE
    <3>1. Limit = TailAt
      BY <2>1 DEF Limit, Withdrawn
    <3>2. RealAt >= StealAt
      BY <1>p, <2>1, <3>1 DEF QueueInv, Order
    <3> QED BY <1>p, <1>1, <3>2
  <2> QED BY <2>1
<1>3. ClaimFrom(w) .. ClaimEnd(w) - 1 \subseteq Region
  <2>1. From = RealAt /\ StealAt <= Limit /\ Limit <= Upto /\ Upto \in Nat /\ Limit \in Nat
    BY <1>p, <1>2 DEF From, Final, Limit, Upto, Behind, QueueInv, Order
  <2> QED BY <1>p, <1>1, <2>1 DEF Region
<1>4. ASSUME NEW k \in ClaimFrom(w) .. ClaimEnd(w) - 1, NEW v \in Workers, Claimed(v), ClaimFrom(v) <= k, k < ClaimEnd(v)
      PROVE  v = w
  <2>1. v # w => ClaimEnd(v) <= ClaimFrom(w) \/ ClaimEnd(w) <= ClaimFrom(v)
    BY <1>4 DEF QueueInv, ClaimsOk, Apart
  <2> QED BY <1>1, <1>4, <2>1
<1> QED BY <1>2, <1>3, <1>4

LEMMA CopyStep ==
  ASSUME QueueInv, NEW w \in Workers, Copy(w)
  PROVE  QueueInv'
<1>p. /\ RealAt \in Nat /\ StealAt \in Nat /\ snap[w].steal \in Index /\ At(snap[w].steal) \in Nat
      /\ At(snap[w].steal) < IndexMod /\ IndexMod \in Nat
  BY Positions, Sizes, AtIs
<1>t. /\ pc \in [Workers -> OwnerPcs] /\ copied \in [Workers -> Nat]
  BY DEF QueueInv, QType
<1>k. PICK k : k = ClaimFrom(w) + copied[w]
  OBVIOUS
<1>a. PICK p : p = IF copied[w] + 1 = count[w] THEN "commit" ELSE "copy"
  OBVIOUS
<1>1. /\ pc[w] = "copy" /\ Take(buffer[Slot(Add(snap[w].steal, copied[w]))])
      /\ copied' = [copied EXCEPT ![w] = copied[w] + 1]
      /\ pc' = [pc EXCEPT ![w] = p]
      /\ UNCHANGED <<head, tail, buffer, snap, count, pending, pushed>>
  BY <1>a DEF Copy, Goto
<1>2. Claimed(w)
  BY <1>1 DEF Claimed
<1>3. /\ ClaimFrom(w) \in Nat /\ count[w] \in Nat /\ copied[w] \in Nat /\ copied[w] < count[w]
      /\ ClaimEnd(w) = ClaimFrom(w) + count[w] /\ ClaimEnd(w) <= StealAt /\ RealAt <= ClaimFrom(w)
  BY <1>1, <1>2, ClaimedRange DEF ClaimEnd
<1>4. k \in Nat /\ k \in ClaimFrom(w) .. ClaimEnd(w) - 1 /\ k < StealAt
  BY <1>p, <1>k, <1>3
<1>r. /\ k \in Region
      /\ \A v \in Workers : Claimed(v) /\ ClaimFrom(v) <= k /\ k < ClaimEnd(v) => v = w
  BY <1>2, <1>4, ClaimedItem
<1>5. Take(ItemAt(k))
  <2>1. At(snap[w].steal) + copied[w] < IndexMod /\ At(snap[w].steal) + copied[w] = k
    BY <1>p, <1>k, <1>4, Positions DEF ClaimFrom
  <2>2. Add(snap[w].steal, copied[w]) \in Index /\ At(Add(snap[w].steal, copied[w])) = k
    BY <1>p, <1>3, <2>1, Forward
  <2>3. Slot(Add(snap[w].steal, copied[w])) = SlotAt(k)
    BY <2>2, SlotOf
  <2> QED BY <1>1, <2>3 DEF ItemAt
<1>6. ~CopiedAt(k)
  <2> SUFFICES ASSUME NEW v \in Workers, Claimed(v), ClaimFrom(v) <= k, k < ClaimFrom(v) + copied[v] PROVE FALSE
    BY DEF CopiedAt
  <2>1. ClaimFrom(v) \in Nat /\ copied[v] \in Nat /\ count[v] \in Nat /\ copied[v] <= count[v]
    BY ClaimedRange
  <2>2. k < ClaimEnd(v)
    BY <1>4, <2>1 DEF ClaimEnd
  <2>3. v = w
    BY <1>r, <2>2
  <2> QED BY <1>k, <1>3, <2>3
<1>7. /\ taken' \in [Items -> Nat]
      /\ \A i \in Items : taken'[i] = IF i = ItemAt(k) THEN 1 ELSE taken[i]
  BY <1>r, <1>5, <1>6, TakeFacts
<1>8. /\ pc' \in [Workers -> OwnerPcs] /\ (\A v \in Thieves : pc'[v] \in ThiefPcs)
      /\ pc'[w] = p /\ (\A v \in Workers : v # w => pc'[v] = pc[v])
      /\ (Withdrawn' <=> Withdrawn) /\ (Behind' <=> Behind) /\ (Final' <=> Final) /\ (Pushing' <=> Pushing)
      /\ TailAt' = TailAt /\ Upto' = Upto /\ Limit' = Limit
      /\ \A q \in {"withdraw", "keepTail", "popLast", "claimLast", "writeSlot"} :
           pc'[Owner] = q <=> pc[Owner] = q /\ w # Owner
  <2>1. /\ w = Owner => pc[w] \in OwnSteal /\ p \in OwnSteal
        /\ w # Owner => p \in ThiefPcs
    BY <1>a, <1>1 DEF OwnSteal, ThiefPcs
  <2> QED BY <1>1, <2>1, StealFrame
<1>9. RealAt' = RealAt /\ StealAt' = StealAt
  BY <1>1 DEF RealAt, StealAt
<1>10. From' = From
  BY <1>8, <1>9 DEF From
<1>11. /\ copied' \in [Workers -> Nat] /\ copied'[w] = copied[w] + 1
       /\ \A v \in Workers : v # w => copied'[v] = copied[v]
       /\ \A v \in Workers : UNCHANGED <<ClaimFrom(v), ClaimEnd(v), count[v]>>
  BY <1>t, <1>1 DEF ClaimFrom, ClaimEnd
<1>12. QType'
  BY <1>1, <1>7, <1>8, <1>11 DEF QueueInv, QType
<1>13. Order'
  <2>1. /\ (pc'[Owner] = "claimLast" => pc[Owner] = "claimLast")
        /\ (pc'[Owner] = "popLast" => pc[Owner] = "popLast")
        /\ (pc'[Owner] = "withdraw" => pc[Owner] = "withdraw")
    BY <1>8
  <2>2. pc[Owner] = "keepTail" => w # Owner
    BY <1>1
  <2>3. pc'[Owner] = "keepTail" <=> pc[Owner] = "keepTail"
    BY <1>8, <2>2
  <2> QED BY <1>1, <1>8, <1>9, <2>1, <2>3 DEF QueueInv, Order
<1>14. Bounds'
  BY <1>1, <1>8, <1>9, <1>10 DEF QueueInv, Bounds
<1>15. \A v \in Workers : Claimed(v)' <=> Claimed(v)
  BY <1>a, <1>1, <1>8 DEF Claimed
<1>16. ASSUME NEW v \in Workers
       PROVE  (Loaded(v) /\ Live(v) /\ Claims(v))'
  <2>0. Loaded(v) /\ Live(v) /\ Claims(v)
    BY DEF QueueInv, ClaimsOk
  <2>1. CASE v = w
    <3>1. pc'[w] # "claim" /\ IF pc'[w] = "copy" THEN copied'[w] < count[w] ELSE copied'[w] = count[w]
      BY <1>a, <1>3, <1>8, <1>11
    <3> QED BY <1>1, <1>2, <1>3, <1>9, <1>11, <2>0, <2>1, <3>1 DEF Loaded, Live, Claims
  <2>2. CASE v # w
    <3>1. pc'[v] = pc[v] /\ copied'[v] = copied[v]
      BY <1>8, <1>11, <2>2
    <3> QED BY <1>1, <1>8, <1>9, <1>11, <2>0, <3>1 DEF Loaded, Live, Claims, Claimed
  <2> QED BY <2>1, <2>2
<1>17. Apart'
  BY <1>11, <1>15 DEF QueueInv, ClaimsOk, Apart
<1>18. Contents'
  <2>1. ASSUME NEW j \in Region PROVE CopiedAt(j)' <=> CopiedAt(j) \/ j = k
    <3>1. j \in Int
      BY DEF Region
    <3>2. ClaimFrom(w) <= j /\ j < ClaimFrom(w) + copied'[w] <=> (ClaimFrom(w) <= j /\ j < ClaimFrom(w) + copied[w]) \/ j = k
      BY <1>k, <1>3, <1>11, <3>1
    <3> QED BY <1>2, <1>11, <1>15, <3>2 DEF CopiedAt
  <2> QED BY <1>1, <1>r, <1>7, <1>8, <1>10, <2>1, CopyContents
<1> QED BY <1>12, <1>13, <1>14, <1>16, <1>17, <1>18 DEF QueueInv, ClaimsOk

LEMMA CommitStep ==
  ASSUME QueueInv, NEW w \in Workers, CommitRealHead(w)
  PROVE  QueueInv'
<1>p. /\ RealAt \in Nat /\ StealAt \in Nat /\ TailAt \in Nat /\ snap[w].steal \in Index /\ At(snap[w].steal) \in Nat
      /\ head.real \in Index /\ head.steal \in Index /\ StealAt < IndexMod /\ IndexMod \in Nat
      /\ pushed \in Nat /\ Cap \in Nat /\ MaxQueued \in Nat /\ Upto \in Nat
      /\ \A v \in Workers : At(snap[v].steal) \in Nat /\ At(snap[v].real) \in Nat
  BY Positions, Sizes
<1>k. PICK k : k = ClaimFrom(w)
  OBVIOUS
<1>c. PICK e : e = ClaimEnd(w)
  OBVIOUS
<1>a. PICK p : p = AfterSteal(w)
  OBVIOUS
<1>1. /\ pc[w] = "commit" /\ head.real \in {snap[w].steal, Add(snap[w].steal, count[w])}
      /\ head' = [steal |-> head.steal, real |-> Add(snap[w].steal, count[w])]
      /\ pc' = [pc EXCEPT ![w] = p]
      /\ UNCHANGED <<tail, buffer, snap, count, copied, pending, pushed, taken>>
  BY <1>a DEF CommitRealHead, MayCommit, Goto, Word, claim
<1>2. Claimed(w)
  BY <1>1 DEF Claimed
<1>3. /\ k \in Nat /\ e \in Nat /\ count[w] \in Nat /\ e = k + count[w] /\ count[w] >= 1
      /\ copied[w] = count[w] /\ RealAt <= k /\ e <= StealAt /\ k < e
      /\ pc[Owner] \notin {"keepTail", "popLast"}
      /\ k .. e - 1 \subseteq Region
  <2>1. /\ k \in Nat /\ e \in Nat /\ count[w] \in Nat /\ e = k + count[w] /\ count[w] >= 1
        /\ copied[w] = count[w] /\ RealAt <= k /\ e <= StealAt
    BY <1>k, <1>c, <1>1, <1>2, ClaimedRange DEF ClaimEnd
  <2>2. pc[Owner] \notin {"keepTail", "popLast"} /\ k .. e - 1 \subseteq Region
    BY <1>k, <1>c, <1>2, ClaimedItem
  <2>3. k < e
    BY <2>1
  <2> QED BY <2>1, <2>2, <2>3
<1>4. Add(snap[w].steal, count[w]) \in Index /\ At(Add(snap[w].steal, count[w])) = e
  <2>1. At(snap[w].steal) + count[w] < IndexMod /\ At(snap[w].steal) + count[w] = e
    BY <1>p, <1>k, <1>3 DEF ClaimFrom
  <2> QED BY <1>p, <1>3, <2>1, Forward
<1>5. RealAt = k
  <2>1. CASE head.real = snap[w].steal
    BY <1>k, <2>1 DEF RealAt, ClaimFrom
  <2>2. CASE head.real = Add(snap[w].steal, count[w])
    <3>1. RealAt = e
      BY <1>4, <2>2 DEF RealAt
    <3> QED BY <1>p, <1>3, <3>1
  <2> QED BY <1>1, <2>1, <2>2
<1>6. head' \in WordType /\ RealAt' = e /\ StealAt' = StealAt /\ At(head'.real) = e
  BY <1>p, <1>1, <1>4 DEF WordType, RealAt, StealAt
<1>7. /\ p # "claim" /\ ~(p \in {"copy", "commit"})
      /\ w = Owner => pc[w] \in OwnSteal /\ p \in OwnSteal
      /\ w # Owner => p \in ThiefPcs
  BY <1>1, <1>a DEF AfterSteal, OwnSteal, ThiefPcs
<1>8. /\ pc' \in [Workers -> OwnerPcs] /\ (\A v \in Thieves : pc'[v] \in ThiefPcs)
      /\ pc'[w] = p /\ (\A v \in Workers : v # w => pc'[v] = pc[v])
      /\ (Withdrawn' <=> Withdrawn) /\ (Behind' <=> Behind) /\ (Final' <=> Final) /\ (Pushing' <=> Pushing)
      /\ TailAt' = TailAt /\ Upto' = Upto /\ Limit' = Limit
      /\ \A q \in {"withdraw", "keepTail", "popLast", "claimLast", "writeSlot"} :
           pc'[Owner] = q <=> pc[Owner] = q /\ w # Owner
  BY <1>1, <1>7, StealFrame
<1>9. From = k /\ From' = e
  BY <1>3, <1>5, <1>6, <1>8 DEF From, Final
<1>10. QType'
  BY <1>1, <1>6, <1>8 DEF QueueInv, QType
<1>11. \A v \in Workers : snap[v] # head'
  <2>1. \A v \in Workers : At(snap[v].real) <= k
    BY <1>5 DEF QueueInv, ClaimsOk, Loaded
  <2> QED BY <1>p, <1>3, <1>6, <2>1
<1>12. Order'
  <2>1. pc'[Owner] # "keepTail" /\ pc'[Owner] # "popLast" /\ (pc'[Owner] = "withdraw" => pc[Owner] = "withdraw")
    BY <1>3, <1>8
  <2>2. snap'[Owner] # head'
    BY <1>1, <1>11 DEF Workers
  <2> QED BY <1>3, <1>6, <1>8, <2>1, <2>2 DEF QueueInv, Order
<1>13. Bounds'
  <2>1. /\ Upto - k <= Cap /\ Upto - k <= MaxQueued + 1 /\ Upto <= pushed
        /\ Pushing => TailAt - k <= MaxQueued /\ TailAt < pushed
        /\ pc[Owner] = "writeSlot" => TailAt - k < Cap
        /\ Pushing <=> pending # NoItem
    BY <1>5, <1>9 DEF QueueInv, Bounds
  <2>2. /\ Upto - e <= Cap /\ Upto - e <= MaxQueued + 1
        /\ Pushing => TailAt - e <= MaxQueued
        /\ pc[Owner] = "writeSlot" => TailAt - e < Cap
    BY <1>p, <1>3, <2>1
  <2>3. pc'[Owner] = "writeSlot" => pc[Owner] = "writeSlot"
    BY <1>8
  <2> QED BY <1>1, <1>6, <1>8, <1>9, <2>1, <2>2, <2>3 DEF Bounds
<1>14. \A v \in Workers : (Claimed(v)' <=> Claimed(v) /\ v # w)
  BY <1>7, <1>8 DEF Claimed
<1>s. \A v \in Workers : UNCHANGED <<ClaimFrom(v), ClaimEnd(v), count[v], copied[v]>>
  BY <1>1 DEF ClaimFrom, ClaimEnd
<1>15. ASSUME NEW v \in Workers
       PROVE  (Loaded(v) /\ Live(v) /\ Claims(v))'
  <2>0. Loaded(v) /\ Live(v) /\ Claims(v)
    BY DEF QueueInv, ClaimsOk
  <2>1. Loaded(v)'
    <3>1. At(snap[v].real) <= k => At(snap[v].real) <= e
      BY <1>p, <1>3
    <3> QED BY <1>1, <1>5, <1>6, <2>0, <3>1 DEF Loaded
  <2>2. Live(v)'
    <3>1. pc'[v] = "claim" => pc[v] = "claim"
      BY <1>7, <1>8
    <3> QED BY <1>1, <1>11, <2>0, <3>1 DEF Live
  <2>3. Claims(v)'
    <3>1. CASE v = w
      BY <1>14, <3>1 DEF Claims
    <3>2. CASE v # w
      <4>1. Claimed(v) => e <= ClaimFrom(v)
        <5> HAVE Claimed(v)
        <5>1. ClaimEnd(v) <= k \/ e <= ClaimFrom(v)
          BY <1>k, <1>c, <1>2, <3>2 DEF QueueInv, ClaimsOk, Apart
        <5>2. ClaimFrom(v) \in Nat /\ count[v] \in Nat /\ count[v] >= 1 /\ k <= ClaimFrom(v) /\ ClaimEnd(v) = ClaimFrom(v) + count[v]
          BY <1>5, ClaimedRange DEF ClaimEnd
        <5> QED BY <1>3, <5>1, <5>2
      <4>2. pc'[v] = pc[v]
        BY <1>8, <3>2
      <4> QED BY <1>1, <1>6, <1>s, <2>0, <4>1, <4>2 DEF Claims, Claimed
    <3> QED BY <3>1, <3>2
  <2> QED BY <2>1, <2>2, <2>3
<1>16. Apart'
  BY <1>14, <1>s DEF QueueInv, ClaimsOk, Apart
<1>17. Contents'
  <2>a. PICK S : S = k .. e - 1
    OBVIOUS
  <2>1. S \in SUBSET Region /\ Region' = Region \ S
    <3>1. Region = k .. Upto - 1 /\ Region' = e .. Upto - 1
      BY <1>8, <1>9 DEF Region
    <3> QED BY <1>p, <1>3, <2>a, <3>1
  <2>2. ASSUME NEW j \in Region \ S PROVE CopiedAt(j)' <=> CopiedAt(j)
    <3>1. j \in Int
      BY DEF Region
    <3>2. ~(ClaimFrom(w) <= j /\ j < ClaimFrom(w) + copied[w])
      BY <1>k, <1>3, <2>a, <3>1
    <3> QED BY <1>14, <1>s, <3>2 DEF CopiedAt
  <2>3. ASSUME NEW j \in S PROVE taken'[ItemAt(j)] = 1
    <3>1. CopiedAt(j)
      BY <1>k, <1>2, <1>3, <2>a DEF CopiedAt
    <3>2. taken[ItemAt(j)] = 1
      BY <2>1, <3>1 DEF QueueInv, Contents, Places
    <3> QED BY <1>1, <3>2
  <2>4. \A i \in Items : (\A j \in S : ItemAt(j) # i) => taken'[i] = taken[i]
    BY <1>1
  <2> QED BY <1>1, <2>1, <2>2, <2>3, <2>4, LeaveContents
<1> QED BY <1>10, <1>12, <1>13, <1>15, <1>16, <1>17 DEF QueueInv, ClaimsOk

-----------------------------------------------------------------------------
LEMMA QueueStarts ==
  ASSUME Init
  PROVE  QueueInv
<1>1. /\ Start \in Index /\ Cap \in Nat \ {0} /\ MaxItems \in Nat /\ MaxQueued \in Nat /\ At(Start) = 0
  BY Sizes, AtIs
<1>2. /\ head = [steal |-> Start, real |-> Start] /\ tail = Start
      /\ buffer = [i \in 0 .. Cap - 1 |-> 0]
      /\ pc = [w \in Workers |-> "idle"]
      /\ snap = [w \in Workers |-> [steal |-> Start, real |-> Start]]
      /\ count = [w \in Workers |-> 0] /\ copied = [w \in Workers |-> 0]
      /\ pending = 0 /\ pushed = 0 /\ taken = [i \in Items |-> 0] /\ Owner \in Workers
  BY DEF Init, Word, NoItem, Workers
<1>3. RealAt = 0 /\ StealAt = 0 /\ TailAt = 0 /\ pc[Owner] = "idle"
  BY <1>1, <1>2 DEF RealAt, StealAt, TailAt
<1>4. From = 0 /\ Upto = 0 /\ Limit = 0 /\ Region = {}
  <2>1. From = 0 /\ Upto = 0 /\ Limit = 0
    BY <1>3 DEF From, Upto, Limit, Final, Behind, Withdrawn
  <2> QED BY <2>1 DEF Region
<1>5. QType
  BY <1>1, <1>2 DEF QType, WordType, OwnerPcs, ThiefPcs, Workers, Items, NoItem
<1>6. Order
  BY <1>3, <1>4 DEF Order
<1>7. Bounds
  BY <1>1, <1>2, <1>3, <1>4 DEF Bounds, Pushing, NoItem
<1>8. ClaimsOk
  BY <1>1, <1>2, <1>3 DEF ClaimsOk, Apart, Loaded, Live, Claims, Claimed
<1>9. Contents
  BY <1>2, <1>4 DEF Contents, OnePlace, Places, Gone, Unseen, Items
<1> QED BY <1>5, <1>6, <1>7, <1>8, <1>9 DEF QueueInv

LEMMA QueueInvInductive ==
  ASSUME NoFullTurn, QueueInv, [Next /\ NoOverreach]_vars
  PROVE  QueueInv'
<1>1. CASE UNCHANGED vars
  BY <1>1 DEF vars, QueueInv, QType, Order, Bounds, ClaimsOk, Contents, RealAt, StealAt, TailAt, Withdrawn, Behind, Final,
     Pushing, From, Upto, Limit, Region, Claimed, Loaded, Live, Claims, ClaimFrom, ClaimEnd, Apart, CopiedAt, OnePlace, Places,
     Gone, Unseen, ItemAt, SlotAt, At
<1>2. CASE Push
  BY <1>2, PushStep
<1>3. CASE Pop
  BY <1>3, PopStep
<1>4. CASE OwnerStep
  BY <1>4, PushBackStep, WriteSlotStep, PublishStep, WithdrawStep, RecheckStep, ClaimLastStep, RestoreTailStep, PopSlotStep
     DEF OwnerStep
<1>5. ASSUME NEW w \in Workers, Steal(w) PROVE QueueInv'
  BY <1>5, StealBegins
<1>6. ASSUME NEW w \in Workers, StealStep(w), NoOverreach PROVE QueueInv'
  <2>1. ASSUME NEW room \in Rooms, StealTail(w, IF w = Owner THEN Cap ELSE room) PROVE QueueInv'
    <3>1. PICK r : r = IF w = Owner THEN Cap ELSE room
      OBVIOUS
    <3>2. r \in Nat
      BY <3>1, Sizes
    <3>3. StealTail(w, r)
      BY <2>1, <3>1
    <3> QED BY <3>2, <3>3, StealTailStep
  <2>2. CASE Claim(w)
    BY <1>6, <2>2, ClaimStep
  <2>3. CASE Copy(w)
    BY <2>3, CopyStep
  <2>4. CASE CommitRealHead(w)
    BY <2>4, CommitStep
  <2> QED BY <1>6, <2>1, <2>2, <2>3, <2>4 DEF StealStep
<1> QED BY <1>1, <1>2, <1>3, <1>4, <1>5, <1>6 DEF Next

LEMMA QueueInvAlways ==
  ASSUME NoFullTurn
  PROVE  Spec /\ [][NoOverreach]_vars => []QueueInv
<1>1. Init => QueueInv
  BY QueueStarts
<1>2. QueueInv /\ [Next]_vars /\ [NoOverreach]_vars => QueueInv'
  BY QueueInvInductive
<1> QED BY <1>1, <1>2, PTL DEF Spec

(* A task handed to the local queue is moved out of it at most once, whatever the     *)
(* owner's pops and pushes and any number of thieves with claims of any size do in    *)
(* between, in every behaviour in which no compare-exchange of steal_into reserves    *)
(* more than the queue still holds: pop, steal_into and the order of the commits in   *)
(* commit_real_head are right but for that one step, which steal_into does not test   *)
(* and the run of StealQueueHalf.cfg shows to happen.  A behaviour pushes fewer items *)
(* than there are indices, 2^32 in the code: a call that sleeps through a full turn   *)
(* may take an old word for the current one.                                          *)
THEOREM QueueMovesOnce ==
  ASSUME NoFullTurn
  PROVE  Spec /\ [][NoOverreach]_vars => []TakenOnce
<1>1. QueueInv => TakenOnce
  BY ContentsImplies
<1> QED BY <1>1, QueueInvAlways, PTL

(* Under the same hypotheses no task is lost: between the calls of the owner and the *)
(* copies of the thieves the queue's slots hold exactly the tasks pushed and not     *)
(* moved out (push_back overwrites no claimed slot, pop leaves none behind the head).*)
THEOREM QueueKeepsAll ==
  ASSUME NoFullTurn
  PROVE  Spec /\ [][NoOverreach]_vars => []Conserved
<1>1. QueueInv => Conserved
  BY QuietImplies
<1> QED BY <1>1, QueueInvAlways, PTL

-----------------------------------------------------------------------------
(* A thief that finds three items or fewer claims one, and one is there. *)
LEMMA FewStayInReach ==
  ASSUME NoFullTurn, Few, QueueInv, [Next]_vars
  PROVE  [NoOverreach]_vars
<1>1. SUFFICES ASSUME NEW w \in Workers, pc[w] = "claim", pc'[w] = "copy" PROVE count[w] <= Claimable
  BY DEF NoOverreach
<1>t. pc \in [Workers -> OwnerPcs] /\ Owner \in Workers
  BY DEF QueueInv, QType, Workers
<1>2. ASSUME NEW v \in Workers, NEW p, pc' = [pc EXCEPT ![v] = p], pc[v] # "claim" \/ p # "copy" PROVE FALSE
  BY <1>t, <1>1, <1>2
<1>3. Claim(w) /\ head = snap[w]
  <2>1. ~UNCHANGED vars
    BY <1>1 DEF vars
  <2>2. ~Push /\ ~Pop /\ ~OwnerStep
    <3>1. \A p : pc' = [pc EXCEPT ![Owner] = p] => pc[Owner] = "claim" /\ p = "copy"
      BY <1>t, <1>2
    <3> QED BY <3>1 DEF Push, Pop, OwnerStep, PushBack, WriteSlot, Publish, Withdraw, Recheck, ClaimLast, RestoreTail, PopSlot, Goto
  <2>3. ASSUME NEW v \in Workers, NEW p, pc' = [pc EXCEPT ![v] = p] PROVE v = w /\ pc[v] = "claim" /\ p = "copy"
    BY <1>t, <1>1, <2>3
  <2>4. \A v \in Workers : ~Steal(v) /\ ~Copy(v) /\ ~CommitRealHead(v) /\ \A r : ~StealTail(v, r)
    BY <2>3 DEF Steal, Copy, CommitRealHead, StealTail, Goto
  <2>5. \A v \in Workers : Claim(v) => v = w /\ head = snap[w]
    BY <2>3 DEF Claim, Goto
  <2> QED BY <2>1, <2>2, <2>4, <2>5 DEF Next, StealStep
<1>4. count[w] = 1 /\ StealAt < Limit
  BY <1>1, <1>3 DEF QueueInv, ClaimsOk, Live, Few
<1>5. Claimable = Limit - StealAt /\ Limit \in Nat /\ StealAt \in Nat
  BY <1>4, ClaimableIs, Positions
<1> QED BY <1>4, <1>5

(* With at most three items queued the results need no hypothesis on the thieves.    *)
(* The bound is exact: with four queued a thief that loaded the tail before three    *)
(* pops claims a range of two from which the owner has already popped.               *)
THEOREM ShortQueueIsSound ==
  ASSUME NoFullTurn, Few
  PROVE  Spec => [](TakenOnce /\ Conserved)
<1>1. Init => QueueInv
  BY QueueStarts
<1>2. QueueInv /\ [Next]_vars => QueueInv'
  BY FewStayInReach, QueueInvInductive
<1>3. QueueInv => TakenOnce /\ Conserved
  BY ContentsImplies, QuietImplies
<1> QED BY <1>1, <1>2, <1>3, PTL DEF Spec

=============================================================================
