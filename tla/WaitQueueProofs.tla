-------------------------- MODULE WaitQueueProofs ---------------------------
(***************************************************************************)
(* What the operations on a queue do to who is in it and in which order,    *)
(* and what one move of one party does to a count: the facts the proofs     *)
(* about locks, channels, the pool and the schedulers share.                *)
(***************************************************************************)
EXTENDS WaitQueue, FiniteSetTheorems, WellFoundedInduction, TLAPS

(* A waiter linked at the back: the others keep their places. *)
LEMMA AppendFacts ==
  ASSUME NEW S, NEW q \in Seq(S), NEW w \in S
  PROVE  /\ Append(q, w) \in Seq(S) /\ Len(Append(q, w)) = Len(q) + 1
         /\ Append(q, w)[Len(q) + 1] = w
         /\ \A i \in 1 .. Len(q) : Append(q, w)[i] = q[i]
         /\ \A v : Occurs(Append(q, w), v) <=> Occurs(q, v) \/ v = w
         /\ Distinct(q) /\ ~Occurs(q, w) => Distinct(Append(q, w))
<1>1. /\ Append(q, w) \in Seq(S) /\ Len(Append(q, w)) = Len(q) + 1 /\ Len(q) \in Nat
      /\ Append(q, w)[Len(q) + 1] = w
      /\ \A i \in 1 .. Len(q) : Append(q, w)[i] = q[i]
  OBVIOUS
<1> DEFINE a == Append(q, w)
<1> HIDE DEF a
<1>2. \A v : Occurs(a, v) <=> Occurs(q, v) \/ v = w
  BY <1>1 DEF Occurs, a
<1>3. Distinct(q) /\ ~Occurs(q, w) => Distinct(a)
  BY <1>1 DEF Occurs, Distinct, a
<1> QED BY <1>1, <1>2, <1>3 DEF a

(* The front waiter taken off. *)
LEMMA TailFacts ==
  ASSUME NEW S, NEW q \in Seq(S), q # <<>>, Distinct(q)
  PROVE  /\ Tail(q) \in Seq(S) /\ Len(Tail(q)) = Len(q) - 1 /\ Head(q) \in S
         /\ Len(q) \in Nat \ {0} /\ Head(q) = q[1]
         /\ \A i \in 1 .. Len(Tail(q)) : Tail(q)[i] = q[i + 1]
         /\ \A v : Occurs(q, v) <=> Occurs(Tail(q), v) \/ v = Head(q)
         /\ ~Occurs(Tail(q), Head(q)) /\ Distinct(Tail(q))
<1>1. /\ Tail(q) \in Seq(S) /\ Len(Tail(q)) = Len(q) - 1 /\ Len(q) \in Nat \ {0}
      /\ Head(q) = q[1] /\ Head(q) \in S
      /\ \A i \in 1 .. Len(Tail(q)) : Tail(q)[i] = q[i + 1]
  OBVIOUS
<1> DEFINE b == Tail(q)
           h == Head(q)
<1> HIDE DEF b, h
<1>2. ASSUME NEW v, Occurs(q, v), v # h PROVE Occurs(b, v)
  <2>1. PICK i \in 1 .. Len(q) : q[i] = v
    BY <1>2 DEF Occurs
  <2>2. i # 1
    BY <1>1, <1>2, <2>1 DEF h
  <2>3. i - 1 \in 1 .. Len(b) /\ b[i - 1] = v
    BY <1>1, <2>1, <2>2 DEF b
  <2> QED BY <2>3 DEF Occurs
<1>3. ASSUME NEW v, Occurs(b, v) PROVE Occurs(q, v) /\ v # h
  <2>1. PICK i \in 1 .. Len(b) : b[i] = v
    BY <1>3 DEF Occurs
  <2>2. i + 1 \in 1 .. Len(q) /\ q[i + 1] = v
    BY <1>1, <2>1 DEF b
  <2>3. Occurs(q, v)
    BY <2>2 DEF Occurs
  <2>4. 1 \in 1 .. Len(q) /\ i + 1 # 1
    BY <1>1, <2>1
  <2>5. q[i + 1] # q[1]
    BY <2>2, <2>4 DEF Distinct
  <2> QED BY <1>1, <2>2, <2>3, <2>5 DEF h
<1>4. Occurs(q, h)
  <2>1. 1 \in 1 .. Len(q)
    BY <1>1
  <2> QED BY <1>1, <2>1 DEF Occurs, h
<1>5. Distinct(b)
  <2> SUFFICES ASSUME NEW i \in 1 .. Len(b), NEW j \in 1 .. Len(b), b[i] = b[j] PROVE i = j
    BY DEF Distinct
  <2>1. i + 1 \in 1 .. Len(q) /\ j + 1 \in 1 .. Len(q) /\ q[i + 1] = q[j + 1]
    BY <1>1 DEF b
  <2>2. i + 1 = j + 1
    BY <2>1 DEF Distinct
  <2> QED BY <2>2
<1> QED BY <1>1, <1>2, <1>3, <1>4, <1>5 DEF b, h

(* retain takes out exactly the waiter and keeps the order of the others. *)
LEMMA WithoutFacts ==
  ASSUME NEW S, NEW q \in Seq(S), NEW w, Distinct(q)
  PROVE  /\ Without(q, w) \in Seq(S) /\ Distinct(Without(q, w))
         /\ ~Occurs(Without(q, w), w)
         /\ \A v : v # w => (Occurs(Without(q, w), v) <=> Occurs(q, v))
         /\ ~Occurs(q, w) => Without(q, w) = q
<1>1. CASE ~Occurs(q, w)
  BY <1>1 DEF Without
<1>2. CASE Occurs(q, w)
  <2> DEFINE at == CHOOSE i \in 1 .. Len(q) : q[i] = w
             n == Len(q)
             r == [j \in 1 .. n - 1 |-> q[IF j < at THEN j ELSE j + 1]]
  <2>1. at \in 1 .. n /\ q[at] = w
    BY <1>2 DEF Occurs
  <2>2. n \in Nat /\ \A i \in 1 .. n : q[i] \in S
    OBVIOUS
  <2>3. Without(q, w) = r
    BY <1>2 DEF Without
  <2> HIDE DEF at
  <2>4. \A i \in 1 .. n - 1 : r[i] = q[IF i < at THEN i ELSE i + 1]
    OBVIOUS
  <2>5. n - 1 \in Nat /\ \A i \in 1 .. n - 1 : r[i] \in S
    BY <2>1, <2>2
  <2>6. r \in Seq(S) /\ Len(r) = n - 1
    BY <2>5
  <2> HIDE DEF r
  <2>7. \A i \in 1 .. n - 1 : r[i] # w
    BY <2>1, <2>2, <2>4 DEF Distinct
  <2>8. Distinct(r)
    BY <2>1, <2>2, <2>4, <2>6, SMTT(60) DEF Distinct
  <2>9. \A v : Occurs(r, v) => Occurs(q, v)
    BY <2>1, <2>2, <2>4, <2>6 DEF Occurs
  <2>10. ASSUME NEW v, v # w, Occurs(q, v) PROVE Occurs(r, v)
    <3>1. PICK i \in 1 .. n : q[i] = v
      BY <2>10 DEF Occurs
    <3>2. CASE i < at
      BY <2>1, <2>2, <2>4, <2>6, <3>1, <3>2 DEF Occurs
    <3>3. CASE i > at
      <4>1. i - 1 \in 1 .. n - 1 /\ ~(i - 1 < at) /\ (i - 1) + 1 = i
        BY <2>1, <2>2, <3>1, <3>3
      <4>2. r[i - 1] = v
        BY <2>4, <3>1, <4>1
      <4> QED BY <2>6, <4>1, <4>2 DEF Occurs
    <3>4. i # at
      BY <2>1, <2>10, <3>1
    <3> QED BY <2>1, <2>2, <3>1, <3>2, <3>3, <3>4
  <2> QED BY <1>2, <2>3, <2>6, <2>7, <2>8, <2>9, <2>10 DEF Occurs
<1> QED BY <1>1, <1>2

(* A set of naturals that is not empty has a least element. *)
LEMMA LeastNatural ==
  ASSUME NEW T, T \subseteq Nat, T # {}
  PROVE  \E x \in T : \A y \in T : x <= y
<1> DEFINE Less == OpToRel(<, Nat)
<1>1. IsWellFoundedOn(Less, Nat)
  BY NatLessThanWellFounded
<1> HIDE DEF Less
<1>2. PICK x \in T : \A y \in T : ~(<<y, x>> \in Less)
  BY <1>1, WFMin
<1>3. \A y \in Nat : y < x => <<y, x>> \in Less
  BY <1>2 DEF Less, OpToRel
<1>4. \A y \in T : ~(y < x)
  BY <1>2, <1>3
<1>5. \A y \in T : x <= y
  <2> SUFFICES ASSUME NEW y \in T PROVE x <= y
    OBVIOUS
  <2>1. x \in Nat /\ y \in Nat
    BY <1>2
  <2>2. ~(y < x)
    BY <1>4
  <2> QED BY <2>1, <2>2, SMT
<1> QED BY <1>2, <1>5

(* As many waiters stand at some places of a queue as there are places. *)
LEMMA PlacesCount ==
  ASSUME NEW S, NEW q \in Seq(S), Distinct(q), NEW I, I \subseteq 1 .. Len(q)
  PROVE  /\ IsFiniteSet(I) /\ IsFiniteSet({q[i] : i \in I})
         /\ Cardinality({q[i] : i \in I}) = Cardinality(I)
<1>1. Len(q) \in Nat /\ \A i \in 1 .. Len(q) : q[i] \in S
  OBVIOUS
<1>2. IsFiniteSet(1 .. Len(q))
  BY <1>1, FS_Interval
<1>3. IsFiniteSet(I)
  BY <1>2, FS_Subset
<1> DEFINE T == {q[i] : i \in I}
           f == [i \in I |-> q[i]]
<1>4. f \in Surjection(I, T)
  BY DEF Surjection
<1>5. f \in Injection(I, T)
  BY DEF Distinct, Injection, IsInjective
<1> HIDE DEF f, T
<1>6. IsFiniteSet(T) /\ Cardinality(T) = Cardinality(I)
  BY <1>3, <1>4, <1>5, FS_Surjection
<1> QED BY <1>3, <1>6 DEF T

(* The first n waiters leave the queue. *)
FirstOnes(q, n) == {q[i] : i \in 1 .. n}
Rest(q, n) == SubSeq(q, n + 1, Len(q))

LEMMA FrontLeaves ==
  ASSUME NEW S, NEW q \in Seq(S), Distinct(q), NEW n \in 0 .. Len(q)
  PROVE  /\ Rest(q, n) \in Seq(S) /\ Len(Rest(q, n)) = Len(q) - n /\ Distinct(Rest(q, n))
         /\ \A i \in 1 .. Len(q) - n : Rest(q, n)[i] = q[n + i]
         /\ \A x : Occurs(Rest(q, n), x) <=> Occurs(q, x) /\ x \notin FirstOnes(q, n)
         /\ \A x \in FirstOnes(q, n) : Occurs(q, x) /\ x \in S
         /\ IsFiniteSet(FirstOnes(q, n)) /\ Cardinality(FirstOnes(q, n)) = n
<1> DEFINE m == Len(q)
           r == Rest(q, n)
           front == FirstOnes(q, n)
<1> USE DEF FirstOnes, Rest
<1>1. m \in Nat /\ n \in Nat /\ n <= m /\ \A i \in 1 .. m : q[i] \in S
  OBVIOUS
<1>2. /\ r \in Seq(S) /\ Len(r) = m - n
      /\ \A i \in 1 .. m - n : r[i] = q[n + i]
  <2>1. n + 1 \in Int /\ m \in Int /\ \A i \in n + 1 .. m : q[i] \in S
    BY <1>1
  <2>2. /\ r \in Seq(S) /\ Len(r) = IF n + 1 <= m THEN m - (n + 1) + 1 ELSE 0
        /\ \A i \in 1 .. m - (n + 1) + 1 : r[i] = q[(n + 1) + i - 1]
    OBVIOUS
  <2> QED BY <1>1, <2>2
<1> HIDE DEF m, r
<1>3. Distinct(r)
  BY <1>1, <1>2 DEF Distinct, m
<1>4. \A x : Occurs(r, x) <=> Occurs(q, x) /\ x \notin front
  <2>1. ASSUME NEW x, Occurs(r, x) PROVE Occurs(q, x) /\ x \notin front
    <3>1. PICK i \in 1 .. m - n : r[i] = x
      BY <1>2, <2>1 DEF Occurs
    <3>2. n + i \in 1 .. m /\ q[n + i] = x /\ \A j \in 1 .. n : j \in 1 .. m /\ j # n + i
      BY <1>1, <1>2, <3>1
    <3> QED BY <3>2 DEF Occurs, Distinct, m
  <2>2. ASSUME NEW x, Occurs(q, x), x \notin front PROVE Occurs(r, x)
    <3>1. PICK i \in 1 .. m : q[i] = x
      BY <2>2 DEF Occurs, m
    <3>2. ~(i \in 1 .. n)
      BY <2>2, <3>1
    <3>3. i - n \in 1 .. m - n /\ n + (i - n) = i
      BY <1>1, <3>1, <3>2
    <3>4. r[i - n] = x
      BY <1>2, <3>1, <3>3
    <3> QED BY <1>2, <3>3, <3>4 DEF Occurs
  <2> QED BY <2>1, <2>2
<1>5. \A x \in front : Occurs(q, x) /\ x \in S
  BY <1>1 DEF Occurs, m
<1>6. IsFiniteSet(front) /\ Cardinality(front) = n
  <2>1. 1 .. n \subseteq 1 .. Len(q)
    BY <1>1 DEF m
  <2>2. front = {q[i] : i \in 1 .. n}
    OBVIOUS
  <2>3. Cardinality(front) = Cardinality(1 .. n) /\ IsFiniteSet(front)
    BY <2>1, <2>2, PlacesCount
  <2>4. Cardinality(1 .. n) = n
    BY <1>1, FS_Interval
  <2> QED BY <2>3, <2>4
<1> HIDE DEF FirstOnes, Rest
<1> QED BY <1>2, <1>3, <1>4, <1>5, <1>6 DEF m, r

(* Two sets that differ in one element at most differ by it in number. *)
AgreeBut(U, S, T, o) ==
  /\ S \subseteq U /\ T \subseteq U /\ o \in U
  /\ \A x \in U : x # o => (x \in S <=> x \in T)
Has(S, o) == IF o \in S THEN 1 ELSE 0

LEMMA OneMemberChanges ==
  ASSUME NEW U, IsFiniteSet(U), NEW S, NEW T, NEW o, AgreeBut(U, S, T, o)
  PROVE  Cardinality(T) = Cardinality(S) - Has(S, o) + Has(T, o)
<1> USE DEF AgreeBut, Has
<1>1. \A X : X \subseteq U => IsFiniteSet(X) /\ Cardinality(X) \in Nat
  BY FS_Subset, FS_CardinalityType
<1>2. IsFiniteSet(S) /\ Cardinality(S) \in Nat
  BY <1>1
<1>3. CASE o \in S <=> o \in T
  <2>1. S = T
    BY <1>3
  <2> QED BY <1>2, <2>1
<1>4. CASE o \in S /\ o \notin T
  <2>1. T = S \ {o}
    BY <1>4
  <2>2. Cardinality(T) = Cardinality(S) - 1
    BY <1>2, <1>4, <2>1, FS_RemoveElement
  <2> QED BY <1>2, <1>4, <2>2
<1>5. CASE o \notin S /\ o \in T
  <2>1. T = S \cup {o}
    BY <1>5
  <2>2. Cardinality(T) = Cardinality(S) + 1
    BY <1>2, <1>5, <2>1, FS_AddElement
  <2> QED BY <1>2, <1>5, <2>2
<1> QED BY <1>3, <1>4, <1>5

(* A waiter that leaves from behind the head leaves the head in place. *)
LEMMA HeadStays ==
  ASSUME NEW S, NEW q \in Seq(S), NEW w, Distinct(q), Without(q, w) # <<>>
  PROVE  q # <<>> /\ (Head(q) # w => Head(Without(q, w)) = Head(q))
<1>1. CASE ~Occurs(q, w)
  BY <1>1 DEF Without
<1>2. CASE Occurs(q, w)
  <2> DEFINE at == CHOOSE i \in 1 .. Len(q) : q[i] = w
             n == Len(q)
             r == [j \in 1 .. n - 1 |-> q[IF j < at THEN j ELSE j + 1]]
  <2>1. at \in 1 .. n /\ q[at] = w
    BY <1>2 DEF Occurs
  <2>2. Without(q, w) = r
    BY <1>2 DEF Without
  <2> HIDE DEF at
  <2>3. n \in Nat /\ q # <<>> /\ Head(q) = q[1]
    BY <2>1
  <2>4. n - 1 \in Nat /\ \A i \in 1 .. n - 1 : r[i] \in S
    BY <2>1, <2>3
  <2>5. r \in Seq(S) /\ Len(r) = n - 1 /\ r # <<>>
    BY <2>2, <2>4
  <2>6. 1 \in 1 .. n - 1 /\ Head(r) = r[1]
    BY <2>3, <2>5
  <2>7. Head(q) # w => 1 < at
    BY <2>1, <2>3
  <2>8. Head(q) # w => r[1] = q[1]
    BY <2>6, <2>7
  <2> HIDE DEF r
  <2> QED BY <2>2, <2>3, <2>6, <2>8
<1> QED BY <1>1, <1>2

(* The members of D whose state is one of P, and how their number follows one move. *)
StandAt(D, f, P) == {x \in D : f[x] \in P}
Is(p, P) == IF p \in P THEN 1 ELSE 0

LEMMA OneMoves ==
  ASSUME NEW D, IsFiniteSet(D), NEW f, f = [d \in D |-> f[d]], NEW x \in D, NEW p,
         NEW g, g = [f EXCEPT ![x] = p], NEW P
  PROVE  /\ Cardinality(StandAt(D, f, P)) \in Nat
         /\ Cardinality(StandAt(D, g, P)) = Cardinality(StandAt(D, f, P)) - Is(f[x], P) + Is(p, P)
<1>1. AgreeBut(D, StandAt(D, f, P), StandAt(D, g, P), x)
  BY DEF AgreeBut, StandAt
<1>2. Cardinality(StandAt(D, g, P)) =
        Cardinality(StandAt(D, f, P)) - Has(StandAt(D, f, P), x) + Has(StandAt(D, g, P), x)
  BY <1>1, OneMemberChanges
<1>3. Has(StandAt(D, f, P), x) = Is(f[x], P) /\ Has(StandAt(D, g, P), x) = Is(p, P)
  BY DEF Has, Is, StandAt
<1>4. StandAt(D, f, P) \subseteq D
  BY DEF StandAt
<1>5. Cardinality(StandAt(D, f, P)) \in Nat
  BY <1>4, FS_Subset, FS_CardinalityType
<1> QED BY <1>2, <1>3, <1>5

(* Somebody stands there exactly when they are not none. *)
LEMMA SomeStand ==
  ASSUME NEW D, IsFiniteSet(D), NEW f, NEW P
  PROVE  /\ Cardinality(StandAt(D, f, P)) \in Nat
         /\ Cardinality(StandAt(D, f, P)) > 0 <=> \E x \in D : f[x] \in P
<1>1. StandAt(D, f, P) \subseteq D
  BY DEF StandAt
<1>2. IsFiniteSet(StandAt(D, f, P)) /\ Cardinality(StandAt(D, f, P)) \in Nat
  BY <1>1, FS_Subset, FS_CardinalityType
<1>3. Cardinality(StandAt(D, f, P)) = 0 <=> StandAt(D, f, P) = {}
  BY <1>2, FS_EmptySet
<1>4. StandAt(D, f, P) = {} <=> ~\E x \in D : f[x] \in P
  BY DEF StandAt
<1> QED BY <1>2, <1>3, <1>4

(* The first n of a queue, and two queues one after the other. *)
LEMMA PrefixFacts ==
  ASSUME NEW S, NEW q \in Seq(S), Distinct(q), NEW n \in 0 .. Len(q)
  PROVE  /\ SubSeq(q, 1, n) \in Seq(S) /\ Len(SubSeq(q, 1, n)) = n /\ Distinct(SubSeq(q, 1, n))
         /\ \A i \in 1 .. n : SubSeq(q, 1, n)[i] = q[i]
         /\ \A x : Occurs(SubSeq(q, 1, n), x) <=> x \in FirstOnes(q, n)
<1> DEFINE r == SubSeq(q, 1, n)
           m == Len(q)
<1>1. m \in Nat /\ n \in Nat /\ n <= m
  OBVIOUS
<1>2. r \in Seq(S) /\ Len(r) = n /\ \A i \in 1 .. n : r[i] = q[i]
  BY <1>1
<1> HIDE DEF r
<1>3. Distinct(r)
  BY <1>1, <1>2 DEF Distinct
<1>4. \A x : Occurs(r, x) <=> x \in FirstOnes(q, n)
  BY <1>1, <1>2 DEF Occurs, FirstOnes
<1> QED BY <1>2, <1>3, <1>4 DEF r

LEMMA ConcatFacts ==
  ASSUME NEW S, NEW q \in Seq(S), NEW r \in Seq(S)
  PROVE  /\ q \o r \in Seq(S)
         /\ \A x : Occurs(q \o r, x) <=> Occurs(q, x) \/ Occurs(r, x)
         /\ Distinct(q) /\ Distinct(r) /\ (\A x : ~(Occurs(q, x) /\ Occurs(r, x))) => Distinct(q \o r)
<1> DEFINE c == q \o r
           m == Len(q)
           n == Len(r)
<1>1. m \in Nat /\ n \in Nat
  OBVIOUS
<1>2. /\ c \in Seq(S) /\ Len(c) = m + n /\ \A i \in 1 .. m : c[i] = q[i]
      /\ \A i \in 1 .. n : c[m + i] = r[i]
  OBVIOUS
<1> HIDE DEF c
<1>3. \A i \in 1 .. Len(c) : i \in 1 .. m \/ (i - m \in 1 .. n /\ c[i] = r[i - m])
  <2> SUFFICES ASSUME NEW i \in 1 .. Len(c), i \notin 1 .. m PROVE i - m \in 1 .. n /\ c[i] = r[i - m]
    OBVIOUS
  <2>1. i - m \in 1 .. n /\ m + (i - m) = i
    BY <1>1, <1>2
  <2>2. c[m + (i - m)] = r[i - m]
    BY <1>2, <2>1
  <2> QED BY <2>1, <2>2
<1>4. \A x : Occurs(c, x) <=> Occurs(q, x) \/ Occurs(r, x)
  <2> SUFFICES ASSUME NEW x PROVE Occurs(c, x) <=> Occurs(q, x) \/ Occurs(r, x)
    OBVIOUS
  <2>1. Occurs(c, x) => Occurs(q, x) \/ Occurs(r, x)
    BY <1>1, <1>2, <1>3 DEF Occurs
  <2>2. Occurs(q, x) => Occurs(c, x)
    BY <1>1, <1>2 DEF Occurs
  <2>3. ASSUME Occurs(r, x) PROVE Occurs(c, x)
    <3>1. PICK i \in 1 .. n : r[i] = x
      BY <2>3 DEF Occurs
    <3>2. m + i \in 1 .. Len(c) /\ c[m + i] = x
      BY <1>1, <1>2, <3>1
    <3> QED BY <3>2 DEF Occurs
  <2> QED BY <2>1, <2>2, <2>3
<1>5. ASSUME Distinct(q), Distinct(r), \A x : ~(Occurs(q, x) /\ Occurs(r, x)) PROVE Distinct(c)
  <2> SUFFICES ASSUME NEW i \in 1 .. Len(c), NEW j \in 1 .. Len(c), c[i] = c[j] PROVE i = j
    BY DEF Distinct
  <2>1. CASE i \in 1 .. m /\ j \in 1 .. m
    BY <1>2, <1>5, <2>1 DEF Distinct
  <2>2. CASE i \notin 1 .. m /\ j \notin 1 .. m
    <3>1. i - m \in 1 .. n /\ j - m \in 1 .. n /\ r[i - m] = r[j - m]
      BY <1>3, <2>2
    <3>2. i - m = j - m
      BY <1>5, <3>1 DEF Distinct
    <3> QED BY <1>1, <3>2
  <2>3. CASE i \in 1 .. m /\ j \notin 1 .. m
    <3>1. Occurs(q, c[i])
      BY <1>2, <2>3 DEF Occurs
    <3>2. Occurs(r, c[j])
      BY <1>3, <2>3 DEF Occurs
    <3> QED BY <1>5, <3>1, <3>2
  <2>4. CASE i \notin 1 .. m /\ j \in 1 .. m
    <3>1. Occurs(q, c[j])
      BY <1>2, <2>4 DEF Occurs
    <3>2. Occurs(r, c[i])
      BY <1>3, <2>4 DEF Occurs
    <3> QED BY <1>5, <3>1, <3>2
  <2> QED BY <2>1, <2>2, <2>3, <2>4
<1> QED BY <1>2, <1>4, <1>5 DEF c

=============================================================================
