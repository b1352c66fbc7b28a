----------------------------- MODULE LockProofs -----------------------------
(***************************************************************************)
(* The semaphore, the notifiers and the locks of sync/ and the cancellation   *)
(* tree, for any number of tasks, futures, guards, permits and tokens.        *)
(***************************************************************************)
EXTENDS Mutex, Locks, FiniteSetTheorems, WaitQueueProofs

-----------------------------------------------------------------------------
(* A queue without repetitions is no longer than the set it draws from. *)
LEMMA DistinctIsShort ==
  ASSUME NEW S, IsFiniteSet(S), NEW q \in Seq(S), Distinct(q)
  PROVE  Len(q) <= Cardinality(S)
<1>1. Len(q) \in Nat /\ q \in [1 .. Len(q) -> S] /\ Cardinality(S) \in Nat
  BY FS_CardinalityType
<1>2. IsFiniteSet(1 .. Len(q)) /\ Cardinality(1 .. Len(q)) = Len(q)
  <2> DEFINE n == Len(q)
  <2>1. n \in Nat /\ n \in Int /\ 1 \in Int
    BY <1>1
  <2> HIDE DEF n
  <2>2. IsFiniteSet(1 .. n) /\ Cardinality(1 .. n) = IF 1 > n THEN 0 ELSE n - 1 + 1
    BY <2>1, FS_Interval
  <2>3. Cardinality(1 .. n) = n
    BY <2>1, <2>2
  <2> QED BY <2>2, <2>3 DEF n
<1>3. CASE Cardinality(S) < Cardinality(1 .. Len(q))
  <2>1. \E x, y \in 1 .. Len(q) : x # y /\ q[x] = q[y]
    BY <1>1, <1>2, <1>3, FS_PigeonHole
  <2> QED BY <2>1 DEF Distinct
<1> QED BY <1>1, <1>2, <1>3

-----------------------------------------------------------------------------
(* sync/notify.rs *)

NotifyType ==
  /\ permit \in BOOLEAN /\ owed \in BOOLEAN /\ spilt \in BOOLEAN /\ calls \in 0 .. MaxNotifies
  /\ nWaiters \in Seq(Lockers) /\ nWaking \subseteq Lockers
  /\ nStatus \in [Lockers -> {"none", "ready", "parked"}]
  /\ registered \in [Lockers -> BOOLEAN] /\ notified \in [Lockers -> BOOLEAN]
  /\ waker \in [Lockers -> BOOLEAN]

NotifyInv ==
  /\ NotifyType /\ N!ListExact /\ N!PermitMeansNoWaiter
  /\ N!ParkedIsReachable /\ N!NotifyBeforeWait

(* The instance's queue operators are this module's. *)
LEMMA NotifyNames ==
  /\ \A q, w : N!Occurs(q, w) = Occurs(q, w)
  /\ \A q : N!Distinct(q) = Distinct(q)
  /\ \A q, w : N!Without(q, w) = Without(q, w)
<1>1. \A q, w : N!Occurs(q, w) = Occurs(q, w)
  BY DEF N!Occurs, Occurs
<1>2. \A q : N!Distinct(q) = Distinct(q)
  BY DEF N!Distinct, Distinct
<1>3. \A q, w : N!Without(q, w) = Without(q, w)
  BY DEF N!Without, Without, N!Occurs, Occurs
<1> QED BY <1>1, <1>2, <1>3

(* What registering, dropping and marking do to the list of waiters. *)
LEMMA NotifyQueue ==
  ASSUME NotifyType, N!ListExact
  PROVE  /\ \A t : N!Linked(t) <=> Occurs(nWaiters, t)
         /\ Distinct(nWaiters)
         /\ \A t : ~Occurs(<<>>, t) /\ Distinct(<<>>) /\ <<>> \in Seq(Lockers)
         /\ \A t \in Lockers :
              LET a == Append(nWaiters, t)
                  w == N!Without(nWaiters, t)
              IN  /\ a \in Seq(Lockers) /\ \A x : Occurs(a, x) <=> Occurs(nWaiters, x) \/ x = t
                  /\ ~N!Linked(t) => Distinct(a)
                  /\ w \in Seq(Lockers) /\ Distinct(w) /\ ~Occurs(w, t)
                  /\ \A x : x # t => (Occurs(w, x) <=> Occurs(nWaiters, x))
                  /\ nWaiters = <<>> => w = <<>>
         /\ nWaiters # <<>> =>
              /\ Tail(nWaiters) \in Seq(Lockers) /\ Distinct(Tail(nWaiters)) /\ Head(nWaiters) \in Lockers
              /\ \A x : Occurs(nWaiters, x) <=> Occurs(Tail(nWaiters), x) \/ x = Head(nWaiters)
              /\ ~Occurs(Tail(nWaiters), Head(nWaiters))
<1>1. (\A t : N!Linked(t) <=> Occurs(nWaiters, t)) /\ Distinct(nWaiters) /\ nWaiters \in Seq(Lockers)
  BY NotifyNames DEF N!Linked, N!ListExact, NotifyType
<1>2. \A t : ~Occurs(<<>>, t) /\ Distinct(<<>>) /\ <<>> \in Seq(Lockers)
  BY DEF Occurs, Distinct
<1>3. ASSUME NEW t \in Lockers
      PROVE  LET a == Append(nWaiters, t)
                 w == N!Without(nWaiters, t)
             IN  /\ a \in Seq(Lockers) /\ \A x : Occurs(a, x) <=> Occurs(nWaiters, x) \/ x = t
                 /\ ~N!Linked(t) => Distinct(a)
                 /\ w \in Seq(Lockers) /\ Distinct(w) /\ ~Occurs(w, t)
                 /\ \A x : x # t => (Occurs(w, x) <=> Occurs(nWaiters, x))
                 /\ nWaiters = <<>> => w = <<>>
  <2>1. N!Without(nWaiters, t) = Without(nWaiters, t)
    BY NotifyNames
  <2>2. /\ Append(nWaiters, t) \in Seq(Lockers)
        /\ \A x : Occurs(Append(nWaiters, t), x) <=> Occurs(nWaiters, x) \/ x = t
        /\ ~N!Linked(t) => Distinct(Append(nWaiters, t))
    BY <1>1, AppendFacts
  <2>3. /\ Without(nWaiters, t) \in Seq(Lockers) /\ Distinct(Without(nWaiters, t))
        /\ ~Occurs(Without(nWaiters, t), t)
        /\ \A x : x # t => (Occurs(Without(nWaiters, t), x) <=> Occurs(nWaiters, x))
        /\ nWaiters = <<>> => Without(nWaiters, t) = <<>>
    BY <1>1, <1>2, WithoutFacts
  <2> QED BY <2>1, <2>2, <2>3
<1>4. nWaiters # <<>> =>
        /\ Tail(nWaiters) \in Seq(Lockers) /\ Distinct(Tail(nWaiters)) /\ Head(nWaiters) \in Lockers
        /\ \A x : Occurs(nWaiters, x) <=> Occurs(Tail(nWaiters), x) \/ x = Head(nWaiters)
        /\ ~Occurs(Tail(nWaiters), Head(nWaiters))
  BY <1>1, TailFacts
<1> QED BY <1>1, <1>2, <1>3, <1>4

LEMMA NotifyStep ==
  ASSUME MaxNotifies \in Nat, NotifyInv, [N!Next]_(N!vars)
  PROVE  NotifyInv'
<1>0. /\ NotifyType /\ N!ListExact /\ N!PermitMeansNoWaiter
      /\ N!ParkedIsReachable /\ N!NotifyBeforeWait
  BY DEF NotifyInv
<1>1. /\ \A t \in Lockers : Occurs(nWaiters, t) <=> nStatus[t] # "none" /\ registered[t] /\ ~notified[t]
      /\ permit => nWaiters = <<>>
      /\ \A t \in Lockers : nStatus[t] = "parked" =>
           waker[t] /\ (Occurs(nWaiters, t) \/ (notified[t] /\ t \in nWaking))
      /\ owed /\ ~spilt => permit \/ \E t \in Lockers : nStatus[t] # "none" /\ notified[t]
  BY <1>0, NotifyNames DEF N!ListExact, N!PermitMeansNoWaiter, N!ParkedIsReachable,
       N!NotifyBeforeWait, N!StoredOrMarked, N!Live, N!Linked
<1> DEFINE Listed == /\ Distinct(nWaiters')
                     /\ \A t \in Lockers : Occurs(nWaiters', t)
                          <=> nStatus'[t] # "none" /\ registered'[t] /\ ~notified'[t]
           Free == permit' => nWaiters' = <<>>
           Reached == \A t \in Lockers : nStatus'[t] = "parked" =>
                        waker'[t] /\ (Occurs(nWaiters', t) \/ (notified'[t] /\ t \in nWaking'))
           Kept == owed' /\ ~spilt' =>
                     permit' \/ \E t \in Lockers : nStatus'[t] # "none" /\ notified'[t]
<1> SUFFICES NotifyType' /\ Listed /\ Free /\ Reached /\ Kept
  BY NotifyNames DEF NotifyInv, N!ListExact, N!PermitMeansNoWaiter, N!ParkedIsReachable,
       N!NotifyBeforeWait, N!StoredOrMarked, N!Live, N!Linked
<1>2. /\ \A t : N!Linked(t) <=> Occurs(nWaiters, t)
      /\ Distinct(nWaiters)
      /\ \A t : ~Occurs(<<>>, t) /\ Distinct(<<>>) /\ <<>> \in Seq(Lockers)
  BY <1>0, NotifyQueue
<1>3. ASSUME NEW t \in Lockers
      PROVE  /\ Append(nWaiters, t) \in Seq(Lockers)
             /\ \A x : Occurs(Append(nWaiters, t), x) <=> Occurs(nWaiters, x) \/ x = t
             /\ ~Occurs(nWaiters, t) => Distinct(Append(nWaiters, t))
             /\ N!Without(nWaiters, t) \in Seq(Lockers) /\ Distinct(N!Without(nWaiters, t))
             /\ ~Occurs(N!Without(nWaiters, t), t)
             /\ \A x : x # t => (Occurs(N!Without(nWaiters, t), x) <=> Occurs(nWaiters, x))
             /\ nWaiters = <<>> => N!Without(nWaiters, t) = <<>>
  BY <1>0, NotifyQueue
<1>4. nWaiters # <<>> =>
        /\ Tail(nWaiters) \in Seq(Lockers) /\ Distinct(Tail(nWaiters)) /\ Head(nWaiters) \in Lockers
        /\ \A x : Occurs(nWaiters, x) <=> Occurs(Tail(nWaiters), x) \/ x = Head(nWaiters)
        /\ ~Occurs(Tail(nWaiters), Head(nWaiters))
  BY <1>0, NotifyQueue
<1>5. ASSUME NEW t \in Lockers, N!NewNotified(t)
      PROVE  NotifyType' /\ Listed /\ Free /\ Reached /\ Kept
  <2>1. NotifyType'
    BY <1>0, <1>1, <1>2, <1>3, <1>5 DEF NotifyType, N!NewNotified, N!history, N!Live
  <2>2. Listed
    BY <1>0, <1>1, <1>2, <1>3, <1>5 DEF NotifyType, N!NewNotified, N!history, N!Live
  <2>3. Free
    BY <1>0, <1>1, <1>2, <1>3, <1>5 DEF NotifyType, N!NewNotified, N!history, N!Live
  <2>4. Reached
    BY <1>0, <1>1, <1>2, <1>3, <1>5 DEF NotifyType, N!NewNotified, N!history, N!Live
  <2>5. Kept
    BY <1>0, <1>1, <1>2, <1>3, <1>5 DEF NotifyType, N!NewNotified, N!history, N!Live
  <2> QED BY <2>1, <2>2, <2>3, <2>4, <2>5
<1>6. ASSUME NEW t \in Lockers, nStatus[t] # "none", ~registered[t], ~notified[t], ~permit,
             nWaiters' = Append(nWaiters, t), registered' = [registered EXCEPT ![t] = TRUE],
             nStatus' \in [Lockers -> {"none", "ready", "parked"}], waker' \in [Lockers -> BOOLEAN],
             nStatus'[t] # "none", nStatus'[t] = "parked" => waker'[t],
             \A x \in Lockers : x # t => nStatus'[x] = nStatus[x] /\ waker'[x] = waker[x],
             UNCHANGED <<permit, notified, nWaking, calls, owed, spilt>>
      PROVE  NotifyType' /\ Listed /\ Free /\ Reached /\ Kept
  <2> DEFINE a == Append(nWaiters, t)
  <2>1. /\ a \in Seq(Lockers) /\ Distinct(a)
        /\ \A x : Occurs(a, x) <=> Occurs(nWaiters, x) \/ x = t
    BY <1>1, <1>3, <1>6
  <2>2. nWaiters' = a
    BY <1>6
  <2> HIDE DEF a
  <2>3. registered' \in [Lockers -> BOOLEAN] /\ registered'[t]
        /\ \A x \in Lockers : x # t => registered'[x] = registered[x]
    BY <1>0, <1>6 DEF NotifyType
  <2>4. NotifyType'
    BY <1>0, <1>6, <2>1, <2>2, <2>3 DEF NotifyType
  <2>5. Listed
    BY <1>1, <1>6, <2>1, <2>2, <2>3
  <2>6. Free /\ Kept
    BY <1>1, <1>6
  <2>7. Reached
    BY <1>1, <1>6, <2>1, <2>2
  <2> QED BY <2>4, <2>5, <2>6, <2>7
<1>7. ASSUME NEW t \in Lockers, N!Enable(t) \/ N!Poll(t)
      PROVE  NotifyType' /\ Listed /\ Free /\ Reached /\ Kept
  <2>1. CASE N!Enable(t)
    <3>1. CASE permit
      BY <1>0, <1>1, <1>2, <2>1, <3>1 DEF N!Enable, N!TakesPermit, N!history, NotifyType
    <3>2. CASE ~permit
      <4>1. /\ nStatus[t] = "ready" /\ ~registered[t] /\ ~notified[t] /\ N!Register(t)
            /\ UNCHANGED <<permit, notified, nStatus, waker, nWaking, calls, owed, spilt>>
        BY <2>1, <3>2 DEF N!Enable, N!history
      <4> QED BY <1>0, <1>6, <3>2, <4>1 DEF N!Register, NotifyType
    <3> QED BY <3>1, <3>2
  <2>2. CASE N!Poll(t)
    <3>1. CASE notified[t]
      <4>1. /\ nStatus' = [nStatus EXCEPT ![t] = "none"] /\ owed' = FALSE /\ spilt' = FALSE
            /\ UNCHANGED <<nWaiters, registered, waker, permit, notified, nWaking, calls>>
        BY <2>2, <3>1 DEF N!Poll, N!Resolve, N!ChecksMark
      <4>2. NotifyType'
        BY <1>0, <4>1 DEF NotifyType
      <4>3. Listed
        BY <1>0, <1>1, <1>2, <3>1, <4>1 DEF NotifyType
      <4>4. Free /\ Reached /\ Kept
        BY <1>0, <1>1, <4>1 DEF NotifyType
      <4> QED BY <4>2, <4>3, <4>4
    <3>2. CASE ~notified[t] /\ ~registered[t] /\ permit
      <4>1. /\ nStatus' = [nStatus EXCEPT ![t] = "none"] /\ owed' = FALSE /\ spilt' = FALSE /\ permit' = FALSE
            /\ notified' = [notified EXCEPT ![t] = TRUE]
            /\ UNCHANGED <<nWaiters, registered, waker, nWaking, calls>>
        BY <2>2, <3>2 DEF N!Poll, N!Resolve, N!TakesPermit, N!ChecksMark
      <4>2. NotifyType'
        BY <1>0, <4>1 DEF NotifyType
      <4>3. /\ nStatus'[t] = "none" /\ notified'[t]
            /\ \A x \in Lockers : x # t => nStatus'[x] = nStatus[x] /\ notified'[x] = notified[x]
        BY <1>0, <4>1 DEF NotifyType
      <4>4. Listed
        BY <1>0, <1>1, <1>2, <3>2, <4>1, <4>3
      <4>5. Free /\ Reached /\ Kept
        BY <1>1, <4>1, <4>3
      <4> QED BY <4>2, <4>4, <4>5
    <3>3. CASE ~notified[t] /\ registered[t]
      <4>1. /\ nStatus' = [nStatus EXCEPT ![t] = "parked"] /\ waker' = [waker EXCEPT ![t] = TRUE]
            /\ nStatus[t] = "ready"
            /\ UNCHANGED <<nWaiters, registered, permit, notified, nWaking, calls, owed, spilt>>
        BY <2>2, <3>3 DEF N!Poll, N!ChecksMark, N!history
      <4>2. NotifyType'
        BY <1>0, <4>1 DEF NotifyType
      <4>3. Listed
        BY <1>0, <1>1, <1>2, <4>1 DEF NotifyType
      <4>4. Reached
        BY <1>0, <1>1, <3>3, <4>1 DEF NotifyType
      <4>5. Free /\ Kept
        BY <1>0, <1>1, <4>1 DEF NotifyType
      <4> QED BY <4>2, <4>3, <4>4, <4>5
    <3>4. CASE ~notified[t] /\ ~registered[t] /\ ~permit
      <4>1. /\ nStatus[t] = "ready" /\ N!Register(t)
            /\ waker' = [waker EXCEPT ![t] = TRUE] /\ nStatus' = [nStatus EXCEPT ![t] = "parked"]
            /\ UNCHANGED <<permit, notified, nWaking, calls, owed, spilt>>
        BY <2>2, <3>4 DEF N!Poll, N!ChecksMark, N!history
      <4>2. /\ nStatus' \in [Lockers -> {"none", "ready", "parked"}] /\ nStatus'[t] = "parked"
            /\ waker' \in [Lockers -> BOOLEAN] /\ waker'[t]
            /\ \A x \in Lockers : x # t => nStatus'[x] = nStatus[x] /\ waker'[x] = waker[x]
        BY <1>0, <4>1 DEF NotifyType
      <4> QED BY <1>6, <3>4, <4>1, <4>2 DEF N!Register
    <3> QED BY <1>0, <3>1, <3>2, <3>3, <3>4 DEF NotifyType
  <2> QED BY <1>7, <2>1, <2>2
<1>8. ASSUME NEW t \in Lockers, N!DropNotified(t)
      PROVE  NotifyType' /\ Listed /\ Free /\ Reached /\ Kept
  <2>1. NotifyType'
    BY <1>0, <1>1, <1>2, <1>3, <1>8 DEF NotifyType, N!DropNotified, N!Live
  <2>2. Listed
    BY <1>0, <1>1, <1>2, <1>3, <1>8 DEF NotifyType, N!DropNotified, N!Live
  <2>3. Free
    BY <1>0, <1>1, <1>2, <1>3, <1>8 DEF NotifyType, N!DropNotified, N!Live
  <2>4. Reached
    BY <1>0, <1>1, <1>2, <1>3, <1>8 DEF NotifyType, N!DropNotified, N!Live
  <2>5. Kept
    BY <1>0, <1>1, <1>2, <1>3, <1>8 DEF NotifyType, N!DropNotified, N!Live
  <2> QED BY <2>1, <2>2, <2>3, <2>4, <2>5
<1>9. ASSUME NEW t \in Lockers, N!TakeWaker(t)
      PROVE  NotifyType' /\ Listed /\ Free /\ Reached /\ Kept
  <2>1. NotifyType'
    BY <1>0, <1>1, <1>2, <1>3, <1>9 DEF NotifyType, N!TakeWaker, N!history
  <2>2. Listed
    BY <1>0, <1>1, <1>2, <1>3, <1>9 DEF NotifyType, N!TakeWaker, N!history
  <2>3. Free
    BY <1>0, <1>1, <1>2, <1>3, <1>9 DEF NotifyType, N!TakeWaker, N!history
  <2>4. Reached
    BY <1>0, <1>1, <1>2, <1>3, <1>9 DEF NotifyType, N!TakeWaker, N!history
  <2>5. Kept
    BY <1>0, <1>1, <1>2, <1>3, <1>9 DEF NotifyType, N!TakeWaker, N!history
  <2> QED BY <2>1, <2>2, <2>3, <2>4, <2>5
<1>10. ASSUME NEW t \in Lockers, N!SpuriousPoll(t)
      PROVE  NotifyType' /\ Listed /\ Free /\ Reached /\ Kept
  <2>1. NotifyType'
    BY <1>0, <1>1, <1>2, <1>3, <1>10 DEF NotifyType, N!SpuriousPoll, N!history
  <2>2. Listed
    BY <1>0, <1>1, <1>2, <1>3, <1>10 DEF NotifyType, N!SpuriousPoll, N!history
  <2>3. Free
    BY <1>0, <1>1, <1>2, <1>3, <1>10 DEF NotifyType, N!SpuriousPoll, N!history
  <2>4. Reached
    BY <1>0, <1>1, <1>2, <1>3, <1>10 DEF NotifyType, N!SpuriousPoll, N!history
  <2>5. Kept
    BY <1>0, <1>1, <1>2, <1>3, <1>10 DEF NotifyType, N!SpuriousPoll, N!history
  <2> QED BY <2>1, <2>2, <2>3, <2>4, <2>5
<1>11. ASSUME N!NotifyOne
      PROVE  NotifyType' /\ Listed /\ Free /\ Reached /\ Kept
  <2>1. NotifyType'
    <3>1. CASE nWaiters = <<>>
      BY <1>0, <1>11, <3>1 DEF NotifyType, N!NotifyOne, N!StoresPermit
    <3>2. CASE nWaiters # <<>>
      <4> DEFINE b == Tail(nWaiters)
                 h == Head(nWaiters)
      <4>1. b \in Seq(Lockers) /\ h \in Lockers
        BY <1>4, <3>2
      <4>2. /\ nWaiters' = b /\ notified' = [notified EXCEPT ![h] = TRUE] /\ nWaking' = nWaking \cup {h}
            /\ calls' = calls + 1 /\ calls < MaxNotifies /\ owed' = TRUE
            /\ permit' = (permit \/ N!StoresPermit) /\ UNCHANGED <<nStatus, registered, waker, spilt>>
        BY <1>11, <3>2 DEF N!NotifyOne
      <4> HIDE DEF b, h
      <4>3. calls' \in 0 .. MaxNotifies
        BY <1>0, <4>2 DEF NotifyType
      <4>4. permit' \in BOOLEAN
        BY <1>0, <4>2 DEF NotifyType, N!StoresPermit
      <4> QED BY <1>0, <4>1, <4>2, <4>3, <4>4 DEF NotifyType
    <3> QED BY <3>1, <3>2
  <2>2. Listed
    BY <1>0, <1>1, <1>2, <1>4, <1>11 DEF NotifyType, N!NotifyOne, N!StoresPermit
  <2>3. Free
    BY <1>0, <1>1, <1>2, <1>4, <1>11 DEF NotifyType, N!NotifyOne, N!StoresPermit
  <2>4. Reached
    BY <1>0, <1>1, <1>2, <1>4, <1>11 DEF NotifyType, N!NotifyOne, N!StoresPermit
  <2>5. Kept
    BY <1>0, <1>1, <1>2, <1>4, <1>11 DEF NotifyType, N!NotifyOne, N!StoresPermit
  <2> QED BY <2>1, <2>2, <2>3, <2>4, <2>5
<1>12. ASSUME N!NotifyWaiters
      PROVE  NotifyType' /\ Listed /\ Free /\ Reached /\ Kept
  <2>1. NotifyType'
    BY <1>0, <1>1, <1>2, <1>4, <1>12 DEF NotifyType, N!NotifyWaiters, N!history
  <2>2. Listed
    BY <1>0, <1>1, <1>2, <1>4, <1>12 DEF NotifyType, N!NotifyWaiters, N!history
  <2>3. Free
    BY <1>0, <1>1, <1>2, <1>4, <1>12 DEF NotifyType, N!NotifyWaiters, N!history
  <2>4. Reached
    BY <1>0, <1>1, <1>2, <1>4, <1>12 DEF NotifyType, N!NotifyWaiters, N!history
  <2>5. Kept
    BY <1>0, <1>1, <1>2, <1>4, <1>12 DEF NotifyType, N!NotifyWaiters, N!history
  <2> QED BY <2>1, <2>2, <2>3, <2>4, <2>5
<1>13. CASE UNCHANGED N!vars
  BY <1>0, <1>1, <1>2, <1>13 DEF N!vars, N!history, NotifyType
<1> QED BY <1>5, <1>7, <1>8, <1>9, <1>10, <1>11, <1>12, <1>13 DEF N!Next

(* NotifyIsKept: for any number of Notified futures the list of waiters, the permit     *)
(* and the marks agree whenever the mutex is free, a parked Notified is listed with its *)
(* waker or a wake is on its way to it, and a notify_one is kept until a Notified       *)
(* resolves, or one that was marked is dropped.                                         *)
THEOREM NotifyIsKept ==
  ASSUME IsFiniteSet(Lockers), MaxNotifies \in Nat
  PROVE  N!Spec => []NotifyKept
<1>1. N!Init => NotifyInv
  <2> SUFFICES ASSUME N!Init PROVE NotifyInv
    OBVIOUS
  <2>1. nWaiters = <<>> /\ <<>> \in Seq(Lockers) /\ Distinct(<<>>) /\ \A t : ~Occurs(<<>>, t)
    BY DEF N!Init, Distinct, Occurs
  <2>2. NotifyType
    <3>1. 0 \in 0 .. MaxNotifies
      OBVIOUS
    <3>2. nWaiters \in Seq(Lockers)
      BY <2>1
    <3>3. calls = 0 /\ nWaking = {} /\ permit = FALSE /\ owed = FALSE /\ spilt = FALSE
      BY DEF N!Init
    <3>4. /\ nStatus \in [Lockers -> {"none", "ready", "parked"}] /\ registered \in [Lockers -> BOOLEAN]
          /\ notified \in [Lockers -> BOOLEAN] /\ waker \in [Lockers -> BOOLEAN]
      BY DEF N!Init
    <3> QED BY <3>1, <3>2, <3>3, <3>4 DEF NotifyType
  <2>3. N!ListExact
    BY <2>1, NotifyNames DEF N!Init, N!ListExact, N!Linked, N!Live
  <2>4. N!PermitMeansNoWaiter /\ N!ParkedIsReachable /\ N!NotifyBeforeWait
    BY DEF N!Init, N!PermitMeansNoWaiter, N!ParkedIsReachable, N!NotifyBeforeWait
  <2> QED BY <2>2, <2>3, <2>4 DEF NotifyInv
<1>2. NotifyInv /\ [N!Next]_(N!vars) => NotifyInv'
  BY NotifyStep
<1>3. NotifyInv => N!NotifyKept
  <2> SUFFICES ASSUME NotifyInv PROVE N!NotifyKept
    OBVIOUS
  <2>1. Len(nWaiters) <= Cardinality(Lockers)
    BY DistinctIsShort, NotifyNames DEF NotifyInv, NotifyType, N!ListExact
  <2>2. \A S : N!Cardinality(S) = Cardinality(S)
    BY DEF N!Cardinality, Cardinality
  <2>3. N!TypeOK
    BY <2>1, <2>2 DEF NotifyInv, NotifyType, N!TypeOK
  <2> QED BY <2>3 DEF NotifyInv, N!NotifyKept, N!StateTrusted
<1> QED BY <1>1, <1>2, <1>3, PTL DEF N!Spec, NotifyKept

-----------------------------------------------------------------------------
(* cancellation.rs *)

TokRec == [life : {"unborn", "held", "dropped"}, cancelled : BOOLEAN,
           waiters : SUBSET Waits, children : SUBSET Tokens]
CallRec == [pc : {"none", "take", "call"}, wake : SUBSET Waits, sub : SUBSET Tokens]
BirthRec == [pc : {"none", "link", "recheck", "cancel"}, parent : Tokens]
WaitRec == [pc : {"none", "ready", "register", "parked", "done"}, token : Tokens, id : BOOLEAN]

CancelType ==
  /\ tok \in [Tokens -> TokRec] /\ cancels \in [Tokens -> CallRec]
  /\ birth \in [Tokens -> BirthRec] /\ wait \in [Waits -> WaitRec]

(* One call flips the flag and goes on to take the lists, once. *)
FlagAndCall ==
  \A t \in Tokens :
    /\ tok[t].cancelled <=> cancels[t].pc # "none"
    /\ cancels[t].pc # "call" => cancels[t].wake = {} /\ cancels[t].sub = {}

(* child_token holds the child it makes, has linked it before it looks at the flag *)
(* again, and the root is nobody's child.                                          *)
BirthHolds ==
  /\ tok[Root].life # "unborn"
  /\ \A c \in Tokens :
       /\ birth[c].pc # "none" => tok[c].life = "held"
       /\ birth[c].pc = "recheck" =>
            LET p == birth[c].parent IN c \in tok[p].children \/ tok[p].cancelled

(* A parked future is in the list that will be taken or in the one that was. *)
WaitersReached ==
  \A w \in Waits : wait[w].pc = "parked" =>
    LET t == wait[w].token
    IN  (w \in tok[t].waiters /\ cancels[t].pc # "call") \/ w \in cancels[t].wake

(* So is a child, unless its parent was dropped uncancelled. *)
ChildrenReached ==
  \A c \in Tokens \ {Root} :
    LET p == birth[c].parent
    IN  tok[c].life = "held" /\ birth[c].pc = "none" /\ ~tok[c].cancelled =>
          \/ c \in tok[p].children /\ cancels[p].pc # "call"
          \/ c \in cancels[p].sub
          \/ tok[p].life = "dropped" /\ ~tok[p].cancelled

CancelInv ==
  CancelType /\ FlagAndCall /\ BirthHolds /\ WaitersReached /\ ChildrenReached

(* The updates of one field keep the records' types. *)
LEMMA CancelUpdates ==
  /\ \A r \in TokRec : /\ [r EXCEPT !.cancelled = TRUE] \in TokRec
                       /\ [r EXCEPT !.life = "held"] \in TokRec
                       /\ [r EXCEPT !.waiters = {}, !.children = {}] \in TokRec
                       /\ [r EXCEPT !.life = "dropped", !.children = {}] \in TokRec
  /\ \A r \in TokRec, b \in BOOLEAN : [r EXCEPT !.cancelled = b] \in TokRec
  /\ \A r \in TokRec, X \in SUBSET Waits : [r EXCEPT !.waiters = X] \in TokRec
  /\ \A r \in TokRec, X \in SUBSET Tokens : [r EXCEPT !.children = X] \in TokRec
  /\ \A r \in CallRec : [r EXCEPT !.pc = "take"] \in CallRec
  /\ \A r \in CallRec, X \in SUBSET Waits : [r EXCEPT !.wake = X] \in CallRec
  /\ \A r \in CallRec, X \in SUBSET Tokens : [r EXCEPT !.sub = X] \in CallRec
<1>1. \A r \in TokRec : /\ [r EXCEPT !.cancelled = TRUE] \in TokRec
                        /\ [r EXCEPT !.life = "held"] \in TokRec
                        /\ [r EXCEPT !.waiters = {}, !.children = {}] \in TokRec
                        /\ [r EXCEPT !.life = "dropped", !.children = {}] \in TokRec
  BY DEF TokRec
<1>2. \A r \in TokRec, b \in BOOLEAN : [r EXCEPT !.cancelled = b] \in TokRec
  BY DEF TokRec
<1>3. \A r \in TokRec, X \in SUBSET Waits : [r EXCEPT !.waiters = X] \in TokRec
  BY DEF TokRec
<1>4. \A r \in TokRec, X \in SUBSET Tokens : [r EXCEPT !.children = X] \in TokRec
  BY DEF TokRec
<1>5. \A r \in CallRec : [r EXCEPT !.pc = "take"] \in CallRec
  BY DEF CallRec
<1>6. \A r \in CallRec, X \in SUBSET Waits : [r EXCEPT !.wake = X] \in CallRec
  BY DEF CallRec
<1>7. \A r \in CallRec, X \in SUBSET Tokens : [r EXCEPT !.sub = X] \in CallRec
  BY DEF CallRec
<1> QED BY <1>1, <1>2, <1>3, <1>4, <1>5, <1>6, <1>7

LEMMA CancelStep ==
  ASSUME Root \in Tokens, CancelInv, [C!Next]_(C!vars)
  PROVE  CancelInv'
<1>0. CancelType /\ FlagAndCall /\ BirthHolds /\ WaitersReached /\ ChildrenReached
  BY DEF CancelInv
<1>2. ASSUME NEW t \in Tokens,
             C!cancel(t)
      PROVE  CancelInv'
  <2>1. CancelType'
    <3>1. tok' \in [Tokens -> TokRec]
      <4>1. tok' = [tok EXCEPT ![t] = [tok[t] EXCEPT !.cancelled = TRUE]]
        BY <1>0, <1>2 DEF CancelType, C!cancel, C!Swap
      <4>2. t \in Tokens /\ [tok[t] EXCEPT !.cancelled = TRUE] \in TokRec
        BY <1>0, CancelUpdates DEF CancelType
      <4> QED BY <1>0, <4>1, <4>2 DEF CancelType
    <3>2. cancels' \in [Tokens -> CallRec]
      <4>1. cancels' = [cancels EXCEPT ![t] = [cancels[t] EXCEPT !.pc = "take"]]
        BY <1>0, <1>2 DEF CancelType, C!cancel, C!Swap
      <4>2. t \in Tokens /\ [cancels[t] EXCEPT !.pc = "take"] \in CallRec
        BY <1>0, CancelUpdates DEF CancelType
      <4> QED BY <1>0, <4>1, <4>2 DEF CancelType
    <3>3. birth' \in [Tokens -> BirthRec]
      BY <1>0, <1>2 DEF CancelType, TokRec, CallRec, BirthRec, WaitRec, C!cancel, C!Swap, C!Held
    <3>4. wait' \in [Waits -> WaitRec]
      BY <1>0, <1>2 DEF CancelType, TokRec, CallRec, BirthRec, WaitRec, C!cancel, C!Swap, C!Held
    <3> QED BY <3>1, <3>2, <3>3, <3>4 DEF CancelType
  <2>2. FlagAndCall'
    BY <1>0, <1>2 DEF CancelType, TokRec, CallRec, BirthRec, WaitRec, FlagAndCall, C!cancel, C!Swap, C!Held
  <2>3. BirthHolds'
    BY <1>0, <1>2 DEF CancelType, TokRec, CallRec, BirthRec, WaitRec, BirthHolds, C!cancel, C!Swap, C!Held
  <2>4. WaitersReached'
    BY <1>0, <1>2 DEF CancelType, TokRec, CallRec, BirthRec, WaitRec, WaitersReached, FlagAndCall,
         C!cancel, C!Swap, C!Held
  <2>5. ChildrenReached'
    BY <1>0, <1>2 DEF CancelType, TokRec, CallRec, BirthRec, WaitRec, ChildrenReached, FlagAndCall, BirthHolds,
         C!cancel, C!Swap, C!Held
  <2> QED BY <2>1, <2>2, <2>3, <2>4, <2>5 DEF CancelInv
<1>3. ASSUME NEW t \in Tokens,
             C!CancelTake(t)
      PROVE  CancelInv'
  <2>1. CancelType'
    <3>1. tok' \in [Tokens -> TokRec]
      <4>1. tok' = [tok EXCEPT ![t] = [tok[t] EXCEPT !.waiters = {}, !.children = {}]]
        BY <1>0, <1>3 DEF CancelType, C!CancelTake
      <4>2. t \in Tokens /\ [tok[t] EXCEPT !.waiters = {}, !.children = {}] \in TokRec
        BY <1>0, CancelUpdates DEF CancelType
      <4> QED BY <1>0, <4>1, <4>2 DEF CancelType
    <3>2. cancels' \in [Tokens -> CallRec]
      BY <1>0, <1>3 DEF CancelType, TokRec, CallRec, BirthRec, WaitRec, C!CancelTake, C!TakesChildren
    <3>3. birth' \in [Tokens -> BirthRec]
      BY <1>0, <1>3 DEF CancelType, TokRec, CallRec, BirthRec, WaitRec, C!CancelTake, C!TakesChildren
    <3>4. wait' \in [Waits -> WaitRec]
      BY <1>0, <1>3 DEF CancelType, TokRec, CallRec, BirthRec, WaitRec, C!CancelTake, C!TakesChildren
    <3> QED BY <3>1, <3>2, <3>3, <3>4 DEF CancelType
  <2>2. FlagAndCall'
    BY <1>0, <1>3 DEF CancelType, TokRec, CallRec, BirthRec, WaitRec, FlagAndCall, C!CancelTake, C!TakesChildren
  <2>3. BirthHolds'
    <3>1. /\ tok' = [tok EXCEPT ![t] = [tok[t] EXCEPT !.waiters = {}, !.children = {}]] /\ birth' = birth
          /\ tok[t].cancelled
      BY <1>0, <1>3 DEF CancelType, FlagAndCall, C!CancelTake
    <3>2. \A c \in Tokens : c # t => tok'[c] = tok[c]
      BY <1>0, <3>1 DEF CancelType
    <3>3. tok'[t].life = tok[t].life /\ tok'[t].cancelled
      BY <1>0, <3>1 DEF CancelType, TokRec
    <3>4. \A c \in Tokens : birth[c].parent \in Tokens
      BY <1>0 DEF CancelType, BirthRec
    <3> QED BY <1>0, <3>1, <3>2, <3>3, <3>4 DEF BirthHolds
  <2>4. WaitersReached'
    BY <1>0, <1>3 DEF CancelType, TokRec, CallRec, BirthRec, WaitRec, WaitersReached, FlagAndCall,
         C!CancelTake, C!TakesChildren
  <2>5. ChildrenReached'
    BY <1>0, <1>3 DEF CancelType, TokRec, CallRec, BirthRec, WaitRec, ChildrenReached, FlagAndCall, BirthHolds,
         C!CancelTake, C!TakesChildren
  <2> QED BY <2>1, <2>2, <2>3, <2>4, <2>5 DEF CancelInv
<1>4. ASSUME NEW t \in Tokens, NEW w \in Waits,
             C!CancelWake(t, w)
      PROVE  CancelInv'
  <2>1. CancelType'
    <3>1. tok' \in [Tokens -> TokRec]
      BY <1>0, <1>4 DEF CancelType, TokRec, CallRec, BirthRec, WaitRec, C!CancelWake
    <3>2. cancels' \in [Tokens -> CallRec]
      <4>1. cancels' = [cancels EXCEPT ![t] = [cancels[t] EXCEPT !.wake = cancels[t].wake \ {w}]]
        BY <1>0, <1>4 DEF CancelType, C!CancelWake
      <4>2. t \in Tokens /\ [cancels[t] EXCEPT !.wake = cancels[t].wake \ {w}] \in CallRec
        BY <1>0, CancelUpdates DEF CancelType, CallRec
      <4> QED BY <1>0, <4>1, <4>2 DEF CancelType
    <3>3. birth' \in [Tokens -> BirthRec]
      BY <1>0, <1>4 DEF CancelType, TokRec, CallRec, BirthRec, WaitRec, C!CancelWake
    <3>4. wait' \in [Waits -> WaitRec]
      BY <1>0, <1>4 DEF CancelType, TokRec, CallRec, BirthRec, WaitRec, C!CancelWake
    <3> QED BY <3>1, <3>2, <3>3, <3>4 DEF CancelType
  <2>2. FlagAndCall'
    BY <1>0, <1>4 DEF CancelType, TokRec, CallRec, BirthRec, WaitRec, FlagAndCall, C!CancelWake
  <2>3. BirthHolds'
    BY <1>0, <1>4 DEF CancelType, TokRec, CallRec, BirthRec, WaitRec, BirthHolds, C!CancelWake
  <2>4. WaitersReached'
    BY <1>0, <1>4 DEF CancelType, TokRec, CallRec, BirthRec, WaitRec, WaitersReached, FlagAndCall,
         C!CancelWake
  <2>5. ChildrenReached'
    BY <1>0, <1>4 DEF CancelType, TokRec, CallRec, BirthRec, WaitRec, ChildrenReached, FlagAndCall, BirthHolds,
         C!CancelWake
  <2> QED BY <2>1, <2>2, <2>3, <2>4, <2>5 DEF CancelInv
<1>5. ASSUME NEW t \in Tokens, NEW c \in Tokens,
             C!CancelChild(t, c)
      PROVE  CancelInv'
  <2>1. CancelType'
    <3>1. tok' \in [Tokens -> TokRec]
      <4>1. tok' = [tok EXCEPT ![c] = [tok[c] EXCEPT !.cancelled = (tok[c].cancelled \/ C!Held(c))]]
        BY <1>0, <1>5 DEF CancelType, C!CancelChild
      <4>2. c \in Tokens /\ [tok[c] EXCEPT !.cancelled = (tok[c].cancelled \/ C!Held(c))] \in TokRec
        BY <1>0, CancelUpdates DEF CancelType
      <4> QED BY <1>0, <4>1, <4>2 DEF CancelType
    <3>2. cancels' \in [Tokens -> CallRec]
      <4>1. \A x \in Tokens : cancels'[x] \in {cancels[x], [cancels[x] EXCEPT !.pc = "take"],
                                               [cancels[x] EXCEPT !.sub = cancels[x].sub \ {c}]}
        BY <1>5 DEF C!CancelChild
      <4>2. \A x \in Tokens : cancels[x].sub \ {c} \in SUBSET Tokens
        BY <1>0 DEF CancelType, CallRec
      <4>3. \A x \in Tokens : cancels'[x] \in CallRec
        <5> SUFFICES ASSUME NEW x \in Tokens PROVE cancels'[x] \in CallRec
          OBVIOUS
        <5>1. cancels[x] \in CallRec /\ [cancels[x] EXCEPT !.pc = "take"] \in CallRec
          BY <1>0, CancelUpdates DEF CancelType
        <5>2. [cancels[x] EXCEPT !.sub = cancels[x].sub \ {c}] \in CallRec
          BY <4>2, <5>1, CancelUpdates, Zenon
        <5> QED BY <4>1, <5>1, <5>2
      <4>4. cancels' = [x \in Tokens |-> cancels'[x]]
        BY <1>5 DEF C!CancelChild
      <4> QED BY <4>3, <4>4
    <3>3. birth' \in [Tokens -> BirthRec]
      BY <1>0, <1>5 DEF CancelType, TokRec, CallRec, BirthRec, WaitRec, C!CancelChild, C!Held
    <3>4. wait' \in [Waits -> WaitRec]
      BY <1>0, <1>5 DEF CancelType, TokRec, CallRec, BirthRec, WaitRec, C!CancelChild, C!Held
    <3> QED BY <3>1, <3>2, <3>3, <3>4 DEF CancelType
  <2>2. FlagAndCall'
    BY <1>0, <1>5 DEF CancelType, TokRec, CallRec, BirthRec, WaitRec, FlagAndCall, C!CancelChild, C!Held
  <2>3. BirthHolds'
    BY <1>0, <1>5 DEF CancelType, TokRec, CallRec, BirthRec, WaitRec, BirthHolds, C!CancelChild, C!Held
  <2>4. WaitersReached'
    BY <1>0, <1>5 DEF CancelType, TokRec, CallRec, BirthRec, WaitRec, WaitersReached, FlagAndCall,
         C!CancelChild, C!Held
  <2>5. ChildrenReached'
    BY <1>0, <1>5 DEF CancelType, TokRec, CallRec, BirthRec, WaitRec, ChildrenReached, FlagAndCall, BirthHolds,
         C!CancelChild, C!Held
  <2> QED BY <2>1, <2>2, <2>3, <2>4, <2>5 DEF CancelInv
<1>6. ASSUME NEW t \in Tokens, NEW c \in Tokens,
             C!child_token(t, c)
      PROVE  CancelInv'
  <2>1. CancelType'
    <3>1. tok' \in [Tokens -> TokRec]
      <4>1. tok' = [tok EXCEPT ![c] = [tok[c] EXCEPT !.life = "held"]]
        BY <1>0, <1>6 DEF CancelType, C!child_token
      <4>2. c \in Tokens /\ [tok[c] EXCEPT !.life = "held"] \in TokRec
        BY <1>0, CancelUpdates DEF CancelType
      <4> QED BY <1>0, <4>1, <4>2 DEF CancelType
    <3>2. cancels' \in [Tokens -> CallRec]
      BY <1>0, <1>6 DEF CancelType, TokRec, CallRec, BirthRec, WaitRec, C!child_token, C!Held
    <3>3. birth' \in [Tokens -> BirthRec]
      BY <1>0, <1>6 DEF CancelType, TokRec, CallRec, BirthRec, WaitRec, C!child_token, C!Held
    <3>4. wait' \in [Waits -> WaitRec]
      BY <1>0, <1>6 DEF CancelType, TokRec, CallRec, BirthRec, WaitRec, C!child_token, C!Held
    <3> QED BY <3>1, <3>2, <3>3, <3>4 DEF CancelType
  <2>2. FlagAndCall'
    BY <1>0, <1>6 DEF CancelType, TokRec, CallRec, BirthRec, WaitRec, FlagAndCall, C!child_token, C!Held
  <2>3. BirthHolds'
    BY <1>0, <1>6 DEF CancelType, TokRec, CallRec, BirthRec, WaitRec, BirthHolds, C!child_token, C!Held
  <2>4. WaitersReached'
    BY <1>0, <1>6 DEF CancelType, TokRec, CallRec, BirthRec, WaitRec, WaitersReached, FlagAndCall,
         C!child_token, C!Held
  <2>5. ChildrenReached'
    BY <1>0, <1>6 DEF CancelType, TokRec, CallRec, BirthRec, WaitRec, ChildrenReached, FlagAndCall, BirthHolds,
         C!child_token, C!Held
  <2> QED BY <2>1, <2>2, <2>3, <2>4, <2>5 DEF CancelInv
<1>7. ASSUME NEW t \in Tokens,
             C!ChildLink(t)
      PROVE  CancelInv'
  <2>1. CancelType'
    <3>1. tok' \in [Tokens -> TokRec]
      <4>1. tok' = [tok EXCEPT ![birth[t].parent] = [tok[birth[t].parent] EXCEPT !.children = tok[birth[t].parent].children \cup {t}]]
        BY <1>0, <1>7 DEF CancelType, C!ChildLink
      <4>2. birth[t].parent \in Tokens /\ [tok[birth[t].parent] EXCEPT !.children = tok[birth[t].parent].children \cup {t}] \in TokRec
        <5>1. birth[t].parent \in Tokens
          BY <1>0 DEF CancelType, BirthRec
        <5>2. tok[birth[t].parent] \in TokRec /\ tok[birth[t].parent].children \cup {t} \in SUBSET Tokens
          BY <1>0, <5>1 DEF CancelType, TokRec
        <5> QED BY <5>1, <5>2, CancelUpdates, Zenon
      <4> QED BY <1>0, <4>1, <4>2 DEF CancelType
    <3>2. cancels' \in [Tokens -> CallRec]
      BY <1>0, <1>7 DEF CancelType, TokRec, CallRec, BirthRec, WaitRec, C!ChildLink
    <3>3. birth' \in [Tokens -> BirthRec]
      <4>1. birth' = [birth EXCEPT ![t] = [birth[t] EXCEPT !.pc = "recheck"]]
        BY <1>0, <1>7 DEF CancelType, C!ChildLink
      <4>2. [birth[t] EXCEPT !.pc = "recheck"] \in BirthRec
        BY <1>0 DEF CancelType, BirthRec
      <4> QED BY <1>0, <4>1, <4>2 DEF CancelType
    <3>4. wait' \in [Waits -> WaitRec]
      BY <1>0, <1>7 DEF CancelType, TokRec, CallRec, BirthRec, WaitRec, C!ChildLink
    <3> QED BY <3>1, <3>2, <3>3, <3>4 DEF CancelType
  <2>2. FlagAndCall'
    BY <1>0, <1>7 DEF CancelType, TokRec, CallRec, BirthRec, WaitRec, FlagAndCall, C!ChildLink
  <2>3. BirthHolds'
    BY <1>0, <1>7 DEF CancelType, TokRec, CallRec, BirthRec, WaitRec, BirthHolds, C!ChildLink
  <2>4. WaitersReached'
    BY <1>0, <1>7 DEF CancelType, TokRec, CallRec, BirthRec, WaitRec, WaitersReached, FlagAndCall,
         C!ChildLink
  <2>5. ChildrenReached'
    BY <1>0, <1>7 DEF CancelType, TokRec, CallRec, BirthRec, WaitRec, ChildrenReached, FlagAndCall, BirthHolds,
         C!ChildLink
  <2> QED BY <2>1, <2>2, <2>3, <2>4, <2>5 DEF CancelInv
<1>8. ASSUME NEW t \in Tokens,
             C!ChildRecheck(t)
      PROVE  CancelInv'
  <2>1. CancelType'
    BY <1>0, <1>8 DEF CancelType, TokRec, CallRec, BirthRec, WaitRec, C!ChildRecheck, C!Recheck
  <2>2. FlagAndCall'
    BY <1>0, <1>8 DEF CancelType, TokRec, CallRec, BirthRec, WaitRec, FlagAndCall, C!ChildRecheck, C!Recheck
  <2>3. BirthHolds'
    BY <1>0, <1>8 DEF CancelType, TokRec, CallRec, BirthRec, WaitRec, BirthHolds, C!ChildRecheck, C!Recheck
  <2>4. WaitersReached'
    BY <1>0, <1>8 DEF CancelType, TokRec, CallRec, BirthRec, WaitRec, WaitersReached, FlagAndCall,
         C!ChildRecheck, C!Recheck
  <2>5. ChildrenReached'
    BY <1>0, <1>8 DEF CancelType, TokRec, CallRec, BirthRec, WaitRec, ChildrenReached, FlagAndCall, BirthHolds,
         C!ChildRecheck, C!Recheck
  <2> QED BY <2>1, <2>2, <2>3, <2>4, <2>5 DEF CancelInv
<1>9. ASSUME NEW t \in Tokens,
             C!ChildCancel(t)
      PROVE  CancelInv'
  <2>1. CancelType'
    <3>1. tok' \in [Tokens -> TokRec]
      <4>1. tok' = [tok EXCEPT ![t] = [tok[t] EXCEPT !.cancelled = TRUE]]
        BY <1>0, <1>9 DEF CancelType, C!ChildCancel, C!Swap
      <4>2. t \in Tokens /\ [tok[t] EXCEPT !.cancelled = TRUE] \in TokRec
        BY <1>0, CancelUpdates DEF CancelType
      <4> QED BY <1>0, <4>1, <4>2 DEF CancelType
    <3>2. cancels' \in [Tokens -> CallRec]
      <4>1. \/ cancels' = cancels
            \/ cancels' = [cancels EXCEPT ![t] = [cancels[t] EXCEPT !.pc = "take"]]
        BY <1>0, <1>9 DEF CancelType, C!ChildCancel, C!Swap
      <4>2. [cancels[t] EXCEPT !.pc = "take"] \in CallRec
        BY <1>0, CancelUpdates DEF CancelType
      <4> QED BY <1>0, <4>1, <4>2 DEF CancelType
    <3>3. birth' \in [Tokens -> BirthRec]
      <4>1. birth' = [birth EXCEPT ![t].pc = "none"]
        BY <1>9 DEF C!ChildCancel
      <4> QED BY <1>0, <4>1 DEF CancelType, BirthRec
    <3>4. wait' \in [Waits -> WaitRec]
      BY <1>0, <1>9 DEF CancelType, TokRec, CallRec, BirthRec, WaitRec, C!ChildCancel, C!Swap
    <3> QED BY <3>1, <3>2, <3>3, <3>4 DEF CancelType
  <2>2. FlagAndCall'
    BY <1>0, <1>9 DEF CancelType, TokRec, CallRec, BirthRec, WaitRec, FlagAndCall, C!ChildCancel, C!Swap
  <2>3. BirthHolds'
    BY <1>0, <1>9 DEF CancelType, TokRec, CallRec, BirthRec, WaitRec, BirthHolds, C!ChildCancel, C!Swap
  <2>4. WaitersReached'
    BY <1>0, <1>9 DEF CancelType, TokRec, CallRec, BirthRec, WaitRec, WaitersReached, FlagAndCall,
         C!ChildCancel, C!Swap
  <2>5. ChildrenReached'
    BY <1>0, <1>9 DEF CancelType, TokRec, CallRec, BirthRec, WaitRec, ChildrenReached, FlagAndCall, BirthHolds,
         C!ChildCancel, C!Swap
  <2> QED BY <2>1, <2>2, <2>3, <2>4, <2>5 DEF CancelInv
<1>10. ASSUME NEW w \in Waits, NEW t \in Tokens,
             C!cancelled(w, t)
      PROVE  CancelInv'
  <2>1. CancelType'
    BY <1>0, <1>10 DEF CancelType, TokRec, CallRec, BirthRec, WaitRec, C!cancelled, C!Held
  <2>2. FlagAndCall'
    BY <1>0, <1>10 DEF CancelType, TokRec, CallRec, BirthRec, WaitRec, FlagAndCall, C!cancelled, C!Held
  <2>3. BirthHolds'
    BY <1>0, <1>10 DEF CancelType, TokRec, CallRec, BirthRec, WaitRec, BirthHolds, C!cancelled, C!Held
  <2>4. WaitersReached'
    BY <1>0, <1>10 DEF CancelType, TokRec, CallRec, BirthRec, WaitRec, WaitersReached, FlagAndCall,
         C!cancelled, C!Held
  <2>5. ChildrenReached'
    BY <1>0, <1>10 DEF CancelType, TokRec, CallRec, BirthRec, WaitRec, ChildrenReached, FlagAndCall, BirthHolds,
         C!cancelled, C!Held
  <2> QED BY <2>1, <2>2, <2>3, <2>4, <2>5 DEF CancelInv
<1>11. ASSUME NEW w \in Waits,
             C!PollCheck(w)
      PROVE  CancelInv'
  <2>1. CancelType'
    BY <1>0, <1>11 DEF CancelType, TokRec, CallRec, BirthRec, WaitRec, C!PollCheck
  <2>2. FlagAndCall'
    BY <1>0, <1>11 DEF CancelType, TokRec, CallRec, BirthRec, WaitRec, FlagAndCall, C!PollCheck
  <2>3. BirthHolds'
    BY <1>0, <1>11 DEF CancelType, TokRec, CallRec, BirthRec, WaitRec, BirthHolds, C!PollCheck
  <2>4. WaitersReached'
    BY <1>0, <1>11 DEF CancelType, TokRec, CallRec, BirthRec, WaitRec, WaitersReached, FlagAndCall,
         C!PollCheck
  <2>5. ChildrenReached'
    BY <1>0, <1>11 DEF CancelType, TokRec, CallRec, BirthRec, WaitRec, ChildrenReached, FlagAndCall, BirthHolds,
         C!PollCheck
  <2> QED BY <2>1, <2>2, <2>3, <2>4, <2>5 DEF CancelInv
<1>12. ASSUME NEW w \in Waits,
             C!PollRegister(w)
      PROVE  CancelInv'
  <2>1. CancelType'
    <3>1. tok' \in [Tokens -> TokRec]
      <4>1. tok' = [tok EXCEPT ![wait[w].token] = [tok[wait[w].token] EXCEPT !.waiters = tok[wait[w].token].waiters \cup {w}]]
        BY <1>0, <1>12 DEF CancelType, C!PollRegister
      <4>2. wait[w].token \in Tokens /\ [tok[wait[w].token] EXCEPT !.waiters = tok[wait[w].token].waiters \cup {w}] \in TokRec
        <5>1. wait[w].token \in Tokens
          BY <1>0 DEF CancelType, WaitRec
        <5>2. tok[wait[w].token] \in TokRec /\ tok[wait[w].token].waiters \cup {w} \in SUBSET Waits
          BY <1>0, <5>1 DEF CancelType, TokRec
        <5> QED BY <5>1, <5>2, CancelUpdates, Zenon
      <4> QED BY <1>0, <4>1, <4>2 DEF CancelType
    <3>2. cancels' \in [Tokens -> CallRec]
      BY <1>0, <1>12 DEF CancelType, TokRec, CallRec, BirthRec, WaitRec, C!PollRegister, C!SelfWakes
    <3>3. birth' \in [Tokens -> BirthRec]
      BY <1>0, <1>12 DEF CancelType, TokRec, CallRec, BirthRec, WaitRec, C!PollRegister, C!SelfWakes
    <3>4. wait' \in [Waits -> WaitRec]
      <4> DEFINE v == IF C!SelfWakes(w) THEN "ready" ELSE "parked"
      <4>1. wait' = [wait EXCEPT ![w].pc = v, ![w].id = TRUE]
        BY <1>12 DEF C!PollRegister
      <4>2. v \in {"ready", "parked"}
        OBVIOUS
      <4> HIDE DEF v
      <4> QED BY <1>0, <4>1, <4>2 DEF CancelType, WaitRec
    <3> QED BY <3>1, <3>2, <3>3, <3>4 DEF CancelType
  <2>2. FlagAndCall'
    BY <1>0, <1>12 DEF CancelType, TokRec, CallRec, BirthRec, WaitRec, FlagAndCall, C!PollRegister, C!SelfWakes
  <2>3. BirthHolds'
    BY <1>0, <1>12 DEF CancelType, TokRec, CallRec, BirthRec, WaitRec, BirthHolds, C!PollRegister, C!SelfWakes
  <2>4. WaitersReached'
    <3>1. PICK k : k = wait[w].token
      OBVIOUS
    <3>2. k \in Tokens /\ \A u \in Waits : wait[u].token \in Tokens
      BY <1>0, <3>1 DEF CancelType, WaitRec
    <3>3. /\ tok' = [tok EXCEPT ![k] = [tok[k] EXCEPT !.waiters = tok[k].waiters \cup {w}]] /\ cancels' = cancels
          /\ wait' = [wait EXCEPT ![w] = [wait[w] EXCEPT !.pc = IF tok[k].cancelled THEN "ready" ELSE "parked", !.id = TRUE]]
      BY <1>0, <1>12, <3>1 DEF CancelType, C!PollRegister, C!SelfWakes
    <3>4. tok'[k].waiters = tok[k].waiters \cup {w} /\ \A u \in Tokens : u # k => tok'[u] = tok[u]
      BY <1>0, <3>2, <3>3 DEF CancelType, TokRec
    <3>5. wait'[w].token = k /\ (wait'[w].pc = "parked" => ~tok[k].cancelled)
      BY <1>0, <3>1, <3>3 DEF CancelType, WaitRec
    <3>6. \A u \in Waits : u # w => wait'[u] = wait[u]
      BY <1>0, <3>3 DEF CancelType
    <3>7. ~tok[k].cancelled => cancels[k].pc # "call"
      BY <1>0, <3>2 DEF FlagAndCall
    <3> QED BY <1>0, <3>2, <3>3, <3>4, <3>5, <3>6, <3>7 DEF WaitersReached
  <2>5. ChildrenReached'
    BY <1>0, <1>12 DEF CancelType, TokRec, CallRec, BirthRec, WaitRec, ChildrenReached, FlagAndCall, BirthHolds,
         C!PollRegister, C!SelfWakes
  <2> QED BY <2>1, <2>2, <2>3, <2>4, <2>5 DEF CancelInv
<1>13. ASSUME NEW w \in Waits,
             C!DropCancelled(w)
      PROVE  CancelInv'
  <2>1. CancelType'
    <3>1. tok' \in [Tokens -> TokRec]
      <4> DEFINE u == wait[w].token
                 v == [tok[u] EXCEPT !.waiters = tok[u].waiters \ {w}]
      <4>1. tok' = tok \/ tok' = [tok EXCEPT ![u] = v]
        BY <1>0, <1>13 DEF CancelType, C!DropCancelled
      <4>2. u \in Tokens
        BY <1>0 DEF CancelType, WaitRec
      <4>3. tok[u].waiters \ {w} \in SUBSET Waits
        BY <1>0, <4>2 DEF CancelType, TokRec
      <4>4. v \in TokRec
        BY <1>0, <4>2, <4>3, CancelUpdates DEF CancelType
      <4> QED BY <1>0, <4>1, <4>2, <4>4 DEF CancelType
    <3>2. cancels' \in [Tokens -> CallRec]
      BY <1>0, <1>13 DEF CancelType, TokRec, CallRec, BirthRec, WaitRec, C!DropCancelled
    <3>3. birth' \in [Tokens -> BirthRec]
      BY <1>0, <1>13 DEF CancelType, TokRec, CallRec, BirthRec, WaitRec, C!DropCancelled
    <3>4. wait' \in [Waits -> WaitRec]
      BY <1>0, <1>13 DEF CancelType, TokRec, CallRec, BirthRec, WaitRec, C!DropCancelled
    <3> QED BY <3>1, <3>2, <3>3, <3>4 DEF CancelType
  <2>2. FlagAndCall'
    BY <1>0, <1>13 DEF CancelType, TokRec, CallRec, BirthRec, WaitRec, FlagAndCall, C!DropCancelled
  <2>3. BirthHolds'
    BY <1>0, <1>13 DEF CancelType, TokRec, CallRec, BirthRec, WaitRec, BirthHolds, C!DropCancelled
  <2>4. WaitersReached'
    BY <1>0, <1>13 DEF CancelType, TokRec, CallRec, BirthRec, WaitRec, WaitersReached, FlagAndCall,
         C!DropCancelled
  <2>5. ChildrenReached'
    BY <1>0, <1>13 DEF CancelType, TokRec, CallRec, BirthRec, WaitRec, ChildrenReached, FlagAndCall, BirthHolds,
         C!DropCancelled
  <2> QED BY <2>1, <2>2, <2>3, <2>4, <2>5 DEF CancelInv
<1>14. ASSUME NEW w \in Waits,
             C!SpuriousPoll(w)
      PROVE  CancelInv'
  <2>1. CancelType'
    <3>1. wait' = [wait EXCEPT ![w] = [wait[w] EXCEPT !.pc = "ready"]] /\ UNCHANGED <<tok, cancels, birth>>
      BY <1>0, <1>14 DEF CancelType, C!SpuriousPoll
    <3>2. [wait[w] EXCEPT !.pc = "ready"] \in WaitRec
      BY <1>0 DEF CancelType, WaitRec
    <3> QED BY <1>0, <3>1, <3>2 DEF CancelType
  <2>2. FlagAndCall'
    BY <1>0, <1>14 DEF CancelType, TokRec, CallRec, BirthRec, WaitRec, FlagAndCall, C!SpuriousPoll
  <2>3. BirthHolds'
    BY <1>0, <1>14 DEF CancelType, TokRec, CallRec, BirthRec, WaitRec, BirthHolds, C!SpuriousPoll
  <2>4. WaitersReached'
    BY <1>0, <1>14 DEF CancelType, TokRec, CallRec, BirthRec, WaitRec, WaitersReached, FlagAndCall,
         C!SpuriousPoll
  <2>5. ChildrenReached'
    BY <1>0, <1>14 DEF CancelType, TokRec, CallRec, BirthRec, WaitRec, ChildrenReached, FlagAndCall, BirthHolds,
         C!SpuriousPoll
  <2> QED BY <2>1, <2>2, <2>3, <2>4, <2>5 DEF CancelInv
<1>15. ASSUME NEW t \in Tokens,
             C!DropToken(t)
      PROVE  CancelInv'
  <2>1. CancelType'
    <3>1. tok' \in [Tokens -> TokRec]
      <4>1. tok' = [tok EXCEPT ![t] = [tok[t] EXCEPT !.life = "dropped", !.children = {}]]
        BY <1>0, <1>15 DEF CancelType, C!DropToken
      <4>2. t \in Tokens /\ [tok[t] EXCEPT !.life = "dropped", !.children = {}] \in TokRec
        BY <1>0, CancelUpdates DEF CancelType
      <4> QED BY <1>0, <4>1, <4>2 DEF CancelType
    <3>2. cancels' \in [Tokens -> CallRec]
      BY <1>0, <1>15 DEF CancelType, TokRec, CallRec, BirthRec, WaitRec, C!DropToken, C!Held
    <3>3. birth' \in [Tokens -> BirthRec]
      BY <1>0, <1>15 DEF CancelType, TokRec, CallRec, BirthRec, WaitRec, C!DropToken, C!Held
    <3>4. wait' \in [Waits -> WaitRec]
      BY <1>0, <1>15 DEF CancelType, TokRec, CallRec, BirthRec, WaitRec, C!DropToken, C!Held
    <3> QED BY <3>1, <3>2, <3>3, <3>4 DEF CancelType
  <2>2. FlagAndCall'
    BY <1>0, <1>15 DEF CancelType, TokRec, CallRec, BirthRec, WaitRec, FlagAndCall, C!DropToken, C!Held
  <2>3. BirthHolds'
    BY <1>0, <1>15 DEF CancelType, TokRec, CallRec, BirthRec, WaitRec, BirthHolds, C!DropToken, C!Held
  <2>4. WaitersReached'
    BY <1>0, <1>15 DEF CancelType, TokRec, CallRec, BirthRec, WaitRec, WaitersReached, FlagAndCall,
         C!DropToken, C!Held
  <2>5. ChildrenReached'
    BY <1>0, <1>15 DEF CancelType, TokRec, CallRec, BirthRec, WaitRec, ChildrenReached, FlagAndCall, BirthHolds,
         C!DropToken, C!Held
  <2> QED BY <2>1, <2>2, <2>3, <2>4, <2>5 DEF CancelInv
<1>16. CASE UNCHANGED C!vars
  BY <1>0, <1>16 DEF C!vars, CancelInv, CancelType, FlagAndCall, BirthHolds, WaitersReached,
       ChildrenReached
<1> QED BY <1>2, <1>3, <1>4, <1>5, <1>6, <1>7, <1>8, <1>9, <1>10, <1>11, <1>12, <1>13, <1>14,
           <1>15, <1>16 DEF C!Next, C!CancelStep

(* CancelIsSound: in a tree of any number of tokens, under any interleaving of cancel, *)
(* child_token and the polls of Cancelled, a future parked on a cancelled token is      *)
(* about to be woken and a child of a cancelled token is cancelled or about to be.      *)
THEOREM CancelIsSound ==
  ASSUME Root \in Tokens
  PROVE  C!Spec => []CancellationSound
<1>1. C!Init => CancelInv
  <2> SUFFICES ASSUME C!Init PROVE CancelInv
    OBVIOUS
  <2>1. /\ \A t \in Tokens : /\ tok[t] \in TokRec /\ ~tok[t].cancelled
                             /\ t # Root => tok[t].life = "unborn"
                             /\ cancels[t] \in CallRec /\ cancels[t].pc = "none"
                             /\ cancels[t].wake = {} /\ cancels[t].sub = {}
                             /\ birth[t] \in BirthRec /\ birth[t].pc = "none"
        /\ \A w \in Waits : wait[w] \in WaitRec /\ wait[w].pc = "none"
        /\ tok[Root].life = "held"
    BY DEF C!Init, C!Unborn, C!Quiet, TokRec, CallRec, BirthRec, WaitRec
  <2>2. CancelType
    BY <2>1 DEF C!Init, CancelType
  <2>3. FlagAndCall /\ BirthHolds
    BY <2>1 DEF FlagAndCall, BirthHolds
  <2>4. WaitersReached /\ ChildrenReached
    BY <2>1 DEF WaitersReached, ChildrenReached
  <2> QED BY <2>2, <2>3, <2>4 DEF CancelInv
<1>2. CancelInv /\ [C!Next]_(C!vars) => CancelInv'
  BY CancelStep
<1>3. CancelInv => C!CancellationSound
  <2> SUFFICES ASSUME CancelInv PROVE C!CancellationSound
    OBVIOUS
  <2>1. C!CancelReachesWaiters
    BY DEF CancelInv, CancelType, WaitRec, CallRec, FlagAndCall, WaitersReached, C!CancelReachesWaiters
  <2>2. C!CancelReachesChildren
    BY DEF CancelInv, CancelType, BirthRec, CallRec, FlagAndCall, ChildrenReached,
         C!CancelReachesChildren, C!Held
  <2> QED BY <2>1, <2>2 DEF C!CancellationSound
<1> QED BY <1>1, <1>2, <1>3, PTL DEF C!Spec, CancellationSound

-----------------------------------------------------------------------------
(* sync/rwlock.rs.  As for the channel, wake_next_locked works on a state between the *)
(* one before and the one after a call, so the invariant's parts take it as s and f.   *)

LockRec == [readers : Nat, writer : BOOLEAN, waiting_writers : Nat, queue : Seq(Lockers)]
LockerRec == [kind : {"reader", "writer"}, phase : {"none", "ready", "parked", "guard"},
              registered : BOOLEAN, granted : BOOLEAN, waker : BOOLEAN]

RwType == lock \in LockRec /\ locker \in [Lockers -> LockerRec] /\ gap \in BOOLEAN

(* What one future or guard counts for. *)
Owns(w) == w.phase = "guard" \/ w.granted
Queues(w) == w.phase \in {"ready", "parked"} /\ w.registered /\ ~w.granted
Reads(w) == w.kind = "reader" /\ Owns(w)
Writes(w) == w.kind = "writer" /\ Owns(w)
WriterQueues(w) == w.kind = "writer" /\ Queues(w)
ReadWorth(w) == IF Reads(w) THEN 1 ELSE 0
WriteWorth(w) == IF Writes(w) THEN 1 ELSE 0
QueueWorth(w) == IF WriterQueues(w) THEN 1 ELSE 0

ReadOwners(f) == {l \in Lockers : Reads(f[l])}
WriteOwners(f) == {l \in Lockers : Writes(f[l])}
QueuedWriters(f) == {l \in Lockers : WriterQueues(f[l])}

QueueExact(s, f) ==
  Distinct(s.queue) /\ \A l \in Lockers : Occurs(s.queue, l) <=> Queues(f[l])

LockerExact(w) ==
  /\ w.phase \in {"none", "guard"} => ~w.registered /\ ~w.granted
  /\ w.phase = "parked" => w.registered /\ w.waker /\ ~w.granted
LockersExact(f) == \A l \in Lockers : LockerExact(f[l])

CountsExact(s, f) ==
  /\ s.readers = Cardinality(ReadOwners(f))
  /\ Cardinality(WriteOwners(f)) = IF s.writer THEN 1 ELSE 0
  /\ s.writer => s.readers = 0
  /\ s.waiting_writers = Cardinality(QueuedWriters(f))

RwExact(s, f) == QueueExact(s, f) /\ LockersExact(f) /\ CountsExact(s, f)

(* Somebody holds what the head of the queue waits for. *)
HeadWaits(s, f, g) ==
  s.queue # <<>> => s.writer \/ g \/ (f[Head(s.queue)].kind = "writer" /\ s.readers > 0)

RwInv == RwType /\ RwExact(lock, locker) /\ HeadWaits(lock, locker, gap)

LEMMA RwNames ==
  /\ \A S : R!Cardinality(S) = Cardinality(S)
  /\ \A q, w : R!Without(q, w) = Without(q, w)
<1>1. \A S : R!Cardinality(S) = Cardinality(S)
  BY DEF R!Cardinality, Cardinality
<1>2. \A q, w : R!Without(q, w) = Without(q, w)
  BY DEF R!Without, Without, R!Occurs, Occurs
<1> QED BY <1>1, <1>2

(* wake_next_locked takes one writer of a free lock, or the readers in front of the  *)
(* first writer.                                                                     *)
LEMMA AdmitsFacts ==
  ASSUME NEW s \in LockRec, ~s.writer, NEW n, n = R!Admits(s), NEW q, q = s.queue
  PROVE  /\ n \in 0 .. Len(q)
         /\ \/ n = 1 /\ s.readers = 0 /\ R!IsWriter(q[1])
            \/ /\ \A i \in 1 .. n : ~R!IsWriter(q[i])
               /\ n < Len(q) => R!IsWriter(q[n + 1])
               /\ n = 0 /\ q # <<>> => s.readers # 0
<1>1. q \in Seq(Lockers) /\ Len(q) \in Nat /\ (q # <<>> => Len(q) > 0 /\ Head(q) = q[1])
  BY DEF LockRec
<1>2. CASE s.readers = 0 /\ q # <<>> /\ R!IsWriter(Head(q))
  <2>1. n = 1
    BY <1>2 DEF R!Admits
  <2> QED BY <1>1, <1>2, <2>1
<1>3. CASE ~(s.readers = 0 /\ q # <<>> /\ R!IsWriter(Head(q)))
  <2>1. n = R!LeadingReaders(q)
    BY <1>3 DEF R!Admits
  <2> DEFINE W == {i \in 1 .. Len(q) : R!IsWriter(q[i])}
  <2>2. n = LET first == IF W # {} THEN R!Min(W) ELSE 0 IN IF first = 0 THEN Len(q) ELSE first - 1
    BY <2>1 DEF R!LeadingReaders, R!SelectInSeq
  <2>3. CASE W = {}
    <3>1. n = Len(q)
      BY <2>2, <2>3
    <3> QED BY <1>1, <2>3, <3>1
  <2>4. CASE W # {}
    <3>1. \E x \in W : \A y \in W : x <= y
      <4>1. W \subseteq Nat
        BY <1>1
      <4> HIDE DEF W
      <4> QED BY <2>4, <4>1, LeastNatural
    <3>2. R!Min(W) \in W /\ \A y \in W : R!Min(W) <= y
      BY <3>1 DEF R!Min
    <3> DEFINE m == R!Min(W)
    <3>3. m \in 1 .. Len(q) /\ R!IsWriter(q[m]) /\ \A i \in 1 .. Len(q) : R!IsWriter(q[i]) => m <= i
      BY <3>2
    <3>4. n = m - 1
      BY <2>2, <2>4, <3>3
    <3> HIDE DEF m
    <3>5. /\ n \in 0 .. Len(q) /\ n + 1 = m
          /\ \A i \in 1 .. n : i \in 1 .. Len(q) /\ ~(m <= i)
      BY <1>1, <3>3, <3>4
    <3>6. n = 0 /\ q # <<>> => s.readers # 0
      BY <1>1, <1>3, <3>3, <3>5
    <3> QED BY <3>3, <3>5, <3>6
  <2> QED BY <2>3, <2>4
<1> QED BY <1>2, <1>3

(* A release serves the front of the queue: the counts stay exact and the new head *)
(* waits for an owner.                                                              *)
LEMMA WakeKeeps ==
  ASSUME IsFiniteSet(Lockers), NEW s \in LockRec, NEW f \in [Lockers -> LockerRec],
         RwExact(s, f), ~s.writer,
         \A l \in Lockers : Queues(f[l]) => f[l].kind = locker[l].kind,
         R!wake_next_locked(s, f)
  PROVE  RwInv'
<1> DEFINE n == R!Admits(s)
           q == s.queue
           front == {q[i] : i \in 1 .. n}
           k == Cardinality({l \in front : R!IsWriter(l)})
           r == SubSeq(q, n + 1, Len(q))
<1>1. q \in Seq(Lockers) /\ Distinct(q) /\ Len(q) \in Nat
  BY DEF LockRec, RwExact, QueueExact
<1>2. /\ n \in 0 .. Len(q)
      /\ \/ n = 1 /\ s.readers = 0 /\ R!IsWriter(q[1])
         \/ /\ \A i \in 1 .. n : ~R!IsWriter(q[i])
            /\ n < Len(q) => R!IsWriter(q[n + 1])
            /\ n = 0 /\ q # <<>> => s.readers # 0
  BY AdmitsFacts
<1>3. /\ lock' = [s EXCEPT !.queue = r, !.readers = s.readers + n - k, !.writer = s.writer \/ k > 0,
                           !.waiting_writers = s.waiting_writers - k]
      /\ locker' = [l \in Lockers |-> IF l \in front
                                      THEN R!wake_waiter([f[l] EXCEPT !.granted = TRUE]) ELSE f[l]]
      /\ gap' = FALSE
  BY RwNames DEF R!wake_next_locked
<1> HIDE DEF n
<1>4. /\ r \in Seq(Lockers) /\ Len(r) = Len(q) - n /\ Distinct(r)
      /\ \A i \in 1 .. Len(q) - n : r[i] = q[n + i]
      /\ \A x : Occurs(r, x) <=> Occurs(q, x) /\ x \notin front
      /\ \A x \in front : Occurs(q, x) /\ x \in Lockers
      /\ IsFiniteSet(front) /\ Cardinality(front) = n
  <2> HIDE DEF q
  <2>1. q \in Seq(Lockers) /\ Distinct(q) /\ n \in 0 .. Len(q)
    BY <1>1, <1>2
  <2>2. r = Rest(q, n) /\ front = FirstOnes(q, n)
    BY DEF Rest, FirstOnes
  <2> HIDE DEF r, front
  <2>3. r \in Seq(Lockers) /\ Len(r) = Len(q) - n /\ Distinct(r)
    BY <2>1, <2>2, FrontLeaves
  <2>4. \A i \in 1 .. Len(q) - n : r[i] = q[n + i]
    <3>1. \A i \in 1 .. Len(q) - n : Rest(q, n)[i] = q[n + i]
      BY <2>1, FrontLeaves
    <3> QED BY <2>2, <3>1
  <2>5. \A x : Occurs(r, x) <=> Occurs(q, x) /\ x \notin front
    BY <2>1, <2>2, FrontLeaves
  <2>6. \A x \in front : Occurs(q, x) /\ x \in Lockers
    BY <2>1, <2>2, FrontLeaves
  <2>7. IsFiniteSet(front) /\ Cardinality(front) = n
    BY <2>1, <2>2, FrontLeaves
  <2> QED BY <2>3, <2>4, <2>5, <2>6, <2>7
<1> HIDE DEF r, q
<1>5. \A l \in front : Queues(f[l]) /\ f[l] \in LockerRec /\ LockerExact(f[l])
  BY <1>4 DEF RwExact, QueueExact, LockersExact, q
<1>6. ASSUME NEW l \in front
      PROVE  /\ locker'[l] \in LockerRec /\ locker'[l].kind = f[l].kind /\ locker'[l].granted
             /\ locker'[l].phase = "ready"
  <2> DEFINE w == f[l]
  <2>1. w \in LockerRec /\ Queues(w) /\ LockerExact(w) /\ l \in Lockers
    BY <1>4, <1>5
  <2>2. locker'[l] = R!wake_waiter([w EXCEPT !.granted = TRUE])
    BY <1>3, <2>1
  <2> HIDE DEF w
  <2>3. /\ locker'[l] \in LockerRec /\ locker'[l].kind = w.kind /\ locker'[l].granted
        /\ locker'[l].phase = "ready"
    BY <2>1, <2>2 DEF LockerRec, Queues, LockerExact, R!wake_waiter
  <2> QED BY <2>3 DEF w
<1>7. \A l \in Lockers : l \notin front => locker'[l] = f[l]
  BY <1>3
<1>8. locker' \in [Lockers -> LockerRec]
  BY <1>3, <1>4, <1>6, <1>7
<1> HIDE DEF front
<1>9. LockersExact(locker')
  BY <1>4, <1>6, <1>7 DEF LockersExact, LockerExact, RwExact
<1>10. \A l \in Lockers : Occurs(r, l) <=> Queues(locker'[l])
  BY <1>4, <1>6, <1>7 DEF Queues, RwExact, QueueExact, q
<1>11. \A S : S \subseteq Lockers => IsFiniteSet(S) /\ Cardinality(S) \in Nat
  BY FS_Subset, FS_CardinalityType
<1>12. /\ s.readers \in Nat /\ s.waiting_writers \in Nat
       /\ s.readers = Cardinality(ReadOwners(f)) /\ Cardinality(WriteOwners(f)) = 0
       /\ s.waiting_writers = Cardinality(QueuedWriters(f))
       /\ ReadOwners(f) \subseteq Lockers /\ WriteOwners(f) \subseteq Lockers
       /\ QueuedWriters(f) \subseteq Lockers
  BY DEF LockRec, RwExact, CountsExact, ReadOwners, WriteOwners, QueuedWriters
<1>13. ASSUME NEW m \in Nat, NEW v \in BOOLEAN, NEW p \in Nat,
              lock' = [s EXCEPT !.queue = r, !.readers = m, !.writer = v, !.waiting_writers = p],
              CountsExact([readers |-> m, writer |-> v, waiting_writers |-> p], locker'),
              r # <<>> => v \/ (locker'[r[1]].kind = "writer" /\ m > 0)
       PROVE  RwInv'
  <2>1. /\ lock' \in LockRec /\ lock'.queue = r /\ lock'.readers = m /\ lock'.writer = v
        /\ lock'.waiting_writers = p
    BY <1>4, <1>13 DEF LockRec
  <2>2. RwType'
    BY <1>3, <1>8, <2>1 DEF RwType
  <2>3. QueueExact(lock', locker') /\ CountsExact(lock', locker')
    BY <1>4, <1>10, <1>13, <2>1 DEF QueueExact, CountsExact
  <2>4. HeadWaits(lock', locker', gap')
    <3>1. r # <<>> => Head(r) = r[1]
      BY <1>4
    <3> QED BY <1>13, <2>1, <3>1 DEF HeadWaits
  <2> QED BY <1>9, <2>2, <2>3, <2>4 DEF RwInv, RwExact
<1>14. CASE n = 1 /\ s.readers = 0 /\ R!IsWriter(q[1])
  <2>1. front = {q[1]}
    BY <1>14 DEF front
  <2> DEFINE h == q[1]
  <2>2. h \in Lockers /\ f[h].kind = "writer" /\ Queues(f[h])
    BY <1>4, <1>5, <1>14, <2>1 DEF R!IsWriter
  <2>3. k = 1
    <3>1. {l \in front : R!IsWriter(l)} = {h}
      BY <1>14, <2>1
    <3> QED BY <3>1, FS_Singleton
  <2> HIDE DEF h, k
  <2>4. \A l \in Lockers : locker'[l].kind = f[l].kind /\ (l # h => locker'[l] = f[l])
    BY <1>6, <1>7, <2>1 DEF h
  <2>5. h \in front
    BY <2>1 DEF h
  <2>6. /\ locker'[h].kind = "writer" /\ locker'[h].granted
    BY <1>6, <2>2, <2>5
  <2>7. WriteOwners(locker') = WriteOwners(f) \cup {h} /\ ReadOwners(locker') = ReadOwners(f)
        /\ QueuedWriters(locker') = QueuedWriters(f) \ {h} /\ h \in QueuedWriters(f)
    <3>1. WriteOwners(locker') = WriteOwners(f) \cup {h}
      BY <2>2, <2>4, <2>6 DEF WriteOwners, Writes, Owns
    <3>2. ReadOwners(locker') = ReadOwners(f)
      BY <2>2, <2>4, <2>6 DEF ReadOwners, Reads, Owns
    <3>3. QueuedWriters(locker') = QueuedWriters(f) \ {h} /\ h \in QueuedWriters(f)
      BY <2>2, <2>4, <2>6 DEF QueuedWriters, WriterQueues, Queues
    <3> QED BY <3>1, <3>2, <3>3
  <2>8. WriteOwners(f) = {}
    BY <1>11, <1>12, FS_EmptySet
  <2>9. Cardinality(WriteOwners(locker')) = 1
    <3>1. WriteOwners(locker') = {h}
      BY <2>7, <2>8
    <3> QED BY <3>1, FS_Singleton
  <2>10. Cardinality(QueuedWriters(locker')) = s.waiting_writers - 1
         /\ Cardinality(QueuedWriters(locker')) \in Nat
    <3>1. QueuedWriters(locker') \subseteq Lockers
      BY DEF QueuedWriters
    <3> QED BY <1>11, <1>12, <2>7, <3>1, FS_RemoveElement
  <2>11. s.readers + n - k = 0 /\ (s.writer \/ k > 0) = TRUE
    BY <1>14, <2>3
  <2>12. lock' = [s EXCEPT !.queue = r, !.readers = 0, !.writer = TRUE,
                           !.waiting_writers = s.waiting_writers - 1]
    BY <1>3, <2>3, <2>11
  <2>13. CountsExact([readers |-> 0, writer |-> TRUE, waiting_writers |-> s.waiting_writers - 1], locker')
    BY <1>12, <1>14, <2>7, <2>9, <2>10 DEF CountsExact
  <2>14. 0 \in Nat /\ TRUE \in BOOLEAN /\ s.waiting_writers - 1 \in Nat
    BY <2>10
  <2> QED BY <1>13, <2>12, <2>13, <2>14
<1>15. CASE /\ \A i \in 1 .. n : ~R!IsWriter(q[i])
            /\ n < Len(q) => R!IsWriter(q[n + 1])
            /\ n = 0 /\ q # <<>> => s.readers # 0
  <2>1. \A l \in front : ~R!IsWriter(l)
    BY <1>15 DEF front
  <2>2. k = 0
    <3>1. {l \in front : R!IsWriter(l)} = {}
      BY <2>1
    <3> QED BY <3>1, FS_EmptySet
  <2> HIDE DEF k
  <2>3. \A l \in front : l \in Lockers /\ f[l].kind = "reader" /\ Queues(f[l])
    BY <1>4, <1>5, <2>1 DEF R!IsWriter, LockerRec
  <2>4. \A l \in Lockers : locker'[l].kind = f[l].kind /\ (l \notin front => locker'[l] = f[l])
    BY <1>6, <1>7
  <2>5. WriteOwners(locker') = WriteOwners(f)
    BY <1>6, <2>3, <2>4 DEF WriteOwners, Writes, Owns
  <2>6. ReadOwners(locker') = ReadOwners(f) \cup front /\ ReadOwners(f) \cap front = {}
    <3>1. ReadOwners(locker') = ReadOwners(f) \cup front
      BY <1>6, <2>3, <2>4 DEF ReadOwners, Reads, Owns
    <3>2. ReadOwners(f) \cap front = {}
      BY <2>3 DEF ReadOwners, Reads, Owns, Queues
    <3> QED BY <3>1, <3>2
  <2>7. QueuedWriters(locker') = QueuedWriters(f)
    BY <1>6, <2>3, <2>4 DEF QueuedWriters, WriterQueues
  <2>8. Cardinality(ReadOwners(locker')) = s.readers + n
    <3>1. Cardinality(ReadOwners(f) \cup front) =
            Cardinality(ReadOwners(f)) + Cardinality(front) - Cardinality(ReadOwners(f) \cap front)
      BY <1>4, <1>11, <1>12, FS_Union
    <3>2. Cardinality(ReadOwners(f) \cap front) = 0
      BY <2>6, FS_EmptySet
    <3> QED BY <1>2, <1>4, <1>12, <2>6, <3>1, <3>2
  <2>9. s.readers + n - k = s.readers + n /\ s.readers + n \in Nat /\ s.waiting_writers - k = s.waiting_writers
        /\ (s.writer \/ k > 0) = FALSE
    BY <1>1, <1>2, <1>12, <2>2
  <2>10. lock' = [s EXCEPT !.queue = r, !.readers = s.readers + n, !.writer = FALSE,
                           !.waiting_writers = s.waiting_writers]
    BY <1>3, <2>9
  <2>11. CountsExact([readers |-> s.readers + n, writer |-> FALSE,
                      waiting_writers |-> s.waiting_writers], locker')
    BY <1>12, <2>5, <2>7, <2>8 DEF CountsExact
  <2>12. r # <<>> => locker'[r[1]].kind = "writer" /\ s.readers + n > 0
    <3> SUFFICES ASSUME r # <<>> PROVE locker'[r[1]].kind = "writer" /\ s.readers + n > 0
      OBVIOUS
    <3>1. Len(r) > 0
      BY <1>4
    <3>2. n < Len(q) /\ r[1] = q[n + 1] /\ R!IsWriter(q[n + 1]) /\ q # <<>>
      BY <1>1, <1>2, <1>4, <1>15, <3>1
    <3>3. s.readers + n > 0
      BY <1>2, <1>12, <1>15, <3>2
    <3>4. Occurs(r, r[1]) /\ r[1] \in Lockers
      BY <1>4, <3>1 DEF Occurs
    <3>5. Queues(f[r[1]])
      BY <1>4, <3>4 DEF RwExact, QueueExact, q
    <3> QED BY <2>4, <3>2, <3>3, <3>4, <3>5 DEF R!IsWriter
  <2> QED BY <1>12, <1>13, <2>9, <2>10, <2>11, <2>12
<1> QED BY <1>2, <1>14, <1>15

(* One future or guard changing changes the counts by what it was and is worth. *)
LEMMA LockerWorth ==
  ASSUME IsFiniteSet(Lockers), NEW f \in [Lockers -> LockerRec], NEW l \in Lockers,
         NEW v \in LockerRec, NEW g, g = [f EXCEPT ![l] = v]
  PROVE  /\ g \in [Lockers -> LockerRec]
         /\ Cardinality(ReadOwners(f)) \in Nat /\ Cardinality(WriteOwners(f)) \in Nat
         /\ Cardinality(QueuedWriters(f)) \in Nat
         /\ Cardinality(ReadOwners(g)) =
              Cardinality(ReadOwners(f)) - ReadWorth(f[l]) + ReadWorth(v)
         /\ Cardinality(WriteOwners(g)) =
              Cardinality(WriteOwners(f)) - WriteWorth(f[l]) + WriteWorth(v)
         /\ Cardinality(QueuedWriters(g)) =
              Cardinality(QueuedWriters(f)) - QueueWorth(f[l]) + QueueWorth(v)
<1>1. g \in [Lockers -> LockerRec] /\ g[l] = v /\ \A x \in Lockers : x # l => g[x] = f[x]
  OBVIOUS
<1>2. \A S : S \subseteq Lockers => Cardinality(S) \in Nat
  BY FS_Subset, FS_CardinalityType
<1>3. ReadOwners(f) \subseteq Lockers /\ WriteOwners(f) \subseteq Lockers /\ QueuedWriters(f) \subseteq Lockers
  BY DEF ReadOwners, WriteOwners, QueuedWriters
<1>4. Cardinality(ReadOwners(g)) = Cardinality(ReadOwners(f)) - ReadWorth(f[l]) + ReadWorth(v)
  <2>1. AgreeBut(Lockers, ReadOwners(f), ReadOwners(g), l)
    BY <1>1 DEF ReadOwners, AgreeBut
  <2>2. (l \in ReadOwners(f) <=> Reads(f[l])) /\ (l \in ReadOwners(g) <=> Reads(v))
    BY <1>1 DEF ReadOwners
  <2>3. Cardinality(ReadOwners(g)) = Cardinality(ReadOwners(f)) - Has(ReadOwners(f), l) + Has(ReadOwners(g), l)
    BY <2>1, OneMemberChanges
  <2> QED BY <2>2, <2>3 DEF Has, ReadWorth
<1>5. Cardinality(WriteOwners(g)) = Cardinality(WriteOwners(f)) - WriteWorth(f[l]) + WriteWorth(v)
  <2>1. AgreeBut(Lockers, WriteOwners(f), WriteOwners(g), l)
    BY <1>1 DEF WriteOwners, AgreeBut
  <2>2. (l \in WriteOwners(f) <=> Writes(f[l])) /\ (l \in WriteOwners(g) <=> Writes(v))
    BY <1>1 DEF WriteOwners
  <2>3. Cardinality(WriteOwners(g)) = Cardinality(WriteOwners(f)) - Has(WriteOwners(f), l) + Has(WriteOwners(g), l)
    BY <2>1, OneMemberChanges
  <2> QED BY <2>2, <2>3 DEF Has, WriteWorth
<1>6. Cardinality(QueuedWriters(g)) = Cardinality(QueuedWriters(f)) - QueueWorth(f[l]) + QueueWorth(v)
  <2>1. AgreeBut(Lockers, QueuedWriters(f), QueuedWriters(g), l)
    BY <1>1 DEF QueuedWriters, AgreeBut
  <2>2. (l \in QueuedWriters(f) <=> WriterQueues(f[l])) /\ (l \in QueuedWriters(g) <=> WriterQueues(v))
    BY <1>1 DEF QueuedWriters
  <2>3. Cardinality(QueuedWriters(g)) = Cardinality(QueuedWriters(f)) - Has(QueuedWriters(f), l) + Has(QueuedWriters(g), l)
    BY <2>1, OneMemberChanges
  <2> QED BY <2>2, <2>3 DEF Has, QueueWorth
<1> QED BY <1>1, <1>2, <1>3, <1>4, <1>5, <1>6
(* One locker l becomes v while the lock becomes d: the counters move by what l was  *)
(* and is worth, and only l enters or leaves the queue.                              *)
Follows(d, l, v) ==
  /\ d \in LockRec /\ v \in LockerRec /\ LockerExact(v)
  /\ d.readers = lock.readers - ReadWorth(locker[l]) + ReadWorth(v)
  /\ (IF d.writer THEN 1 ELSE 0) =
       (IF lock.writer THEN 1 ELSE 0) - WriteWorth(locker[l]) + WriteWorth(v)
  /\ d.waiting_writers = lock.waiting_writers - QueueWorth(locker[l]) + QueueWorth(v)
  /\ d.writer => d.readers = 0
  /\ Distinct(d.queue) /\ (Occurs(d.queue, l) <=> Queues(v))
  /\ \A x \in Lockers : x # l => (Occurs(d.queue, x) <=> Occurs(lock.queue, x))

LEMMA LockerChanges ==
  ASSUME IsFiniteSet(Lockers), RwInv, NEW l \in Lockers, NEW d, NEW v, Follows(d, l, v),
         NEW g, g = [locker EXCEPT ![l] = v]
  PROVE  g \in [Lockers -> LockerRec] /\ RwExact(d, g)
<1>1. v \in LockerRec /\ locker \in [Lockers -> LockerRec] /\ lock \in LockRec /\ d \in LockRec
  BY DEF Follows, RwInv, RwType
<1>2. g \in [Lockers -> LockerRec] /\ g[l] = v /\ \A x \in Lockers : x # l => g[x] = locker[x]
  BY <1>1
<1>3. QueueExact(d, g) /\ LockersExact(g)
  <2>1. QueueExact(d, g)
    BY <1>2 DEF Follows, RwInv, RwExact, QueueExact
  <2>2. LockersExact(g)
    BY <1>2 DEF Follows, RwInv, RwExact, LockersExact
  <2> QED BY <2>1, <2>2
<1> DEFINE w == locker[l]
<1>4. /\ Cardinality(ReadOwners(locker)) \in Nat /\ Cardinality(WriteOwners(locker)) \in Nat
      /\ Cardinality(QueuedWriters(locker)) \in Nat
  BY <1>1, LockerWorth
<1>5. Cardinality(ReadOwners(g)) = Cardinality(ReadOwners(locker)) - ReadWorth(w) + ReadWorth(v)
  BY <1>1, LockerWorth
<1>6. Cardinality(WriteOwners(g)) = Cardinality(WriteOwners(locker)) - WriteWorth(w) + WriteWorth(v)
  BY <1>1, LockerWorth
<1>7. Cardinality(QueuedWriters(g)) = Cardinality(QueuedWriters(locker)) - QueueWorth(w) + QueueWorth(v)
  BY <1>1, LockerWorth
<1>8. /\ lock.readers = Cardinality(ReadOwners(locker))
      /\ Cardinality(WriteOwners(locker)) = IF lock.writer THEN 1 ELSE 0
      /\ lock.waiting_writers = Cardinality(QueuedWriters(locker))
  BY DEF RwInv, RwExact, CountsExact
<1>9. CountsExact(d, g)
  <2>1. d.readers = Cardinality(ReadOwners(g))
    BY <1>5, <1>8 DEF Follows
  <2>2. Cardinality(WriteOwners(g)) = IF d.writer THEN 1 ELSE 0
    BY <1>6, <1>8 DEF Follows
  <2>3. d.waiting_writers = Cardinality(QueuedWriters(g))
    BY <1>7, <1>8 DEF Follows
  <2> QED BY <2>1, <2>2, <2>3 DEF CountsExact, Follows
<1> QED BY <1>2, <1>3, <1>9 DEF RwExact

(* A future before its first poll counts for nothing, a guard for one owner. *)
LEMMA FreshLocker ==
  ASSUME NEW k \in {"reader", "writer"}, NEW p \in {"none", "ready", "guard"}
  PROVE  /\ R!Future(k, p) \in LockerRec /\ LockerExact(R!Future(k, p)) /\ ~Queues(R!Future(k, p))
         /\ R!Future(k, p).kind = k
         /\ ReadWorth(R!Future(k, p)) = IF p = "guard" /\ k = "reader" THEN 1 ELSE 0
         /\ WriteWorth(R!Future(k, p)) = IF p = "guard" /\ k = "writer" THEN 1 ELSE 0
         /\ QueueWorth(R!Future(k, p)) = 0
<1> DEFINE v == R!Future(k, p)
<1>1. v \in LockerRec /\ v.kind = k /\ v.phase = p /\ v.registered = FALSE /\ v.granted = FALSE
  BY DEF R!Future, LockerRec
<1> HIDE DEF v
<1>2. ~Queues(v) /\ LockerExact(v)
  BY <1>1 DEF Queues, LockerExact
<1>3. (Owns(v) <=> p = "guard")
  BY <1>1 DEF Owns
<1>4. /\ ReadWorth(v) = IF p = "guard" /\ k = "reader" THEN 1 ELSE 0
      /\ WriteWorth(v) = IF p = "guard" /\ k = "writer" THEN 1 ELSE 0
      /\ QueueWorth(v) = 0
  BY <1>1, <1>2, <1>3 DEF ReadWorth, WriteWorth, QueueWorth, Reads, Writes, WriterQueues
<1> QED BY <1>1, <1>2, <1>4 DEF v

(* What a locker is worth, by what the guards of the operations say of it. *)
LEMMA LockerIs ==
  ASSUME RwInv, NEW l \in Lockers
  PROVE  /\ locker[l] \in LockerRec /\ LockerExact(locker[l])
         /\ (Occurs(lock.queue, l) <=> Queues(locker[l]))
         /\ ReadWorth(locker[l]) = IF Reads(locker[l]) THEN 1 ELSE 0
         /\ WriteWorth(locker[l]) = IF Writes(locker[l]) THEN 1 ELSE 0
         /\ QueueWorth(locker[l]) = IF WriterQueues(locker[l]) THEN 1 ELSE 0
  BY DEF RwInv, RwType, RwExact, QueueExact, LockersExact, ReadWorth, WriteWorth, QueueWorth

(* An owner or a queued writer is counted. *)
LEMMA OwnerCounted ==
  ASSUME IsFiniteSet(Lockers), RwInv, NEW l \in Lockers
  PROVE  /\ Reads(locker[l]) => lock.readers > 0 /\ ~lock.writer
         /\ Writes(locker[l]) => lock.writer /\ lock.readers = 0
         /\ WriterQueues(locker[l]) => lock.waiting_writers > 0
<1>1. \A S : S \subseteq Lockers /\ l \in S => Cardinality(S) \in Nat /\ Cardinality(S) # 0
  BY FS_Subset, FS_CardinalityType, FS_EmptySet
<1>2. /\ Reads(locker[l]) => l \in ReadOwners(locker)
      /\ Writes(locker[l]) => l \in WriteOwners(locker)
      /\ WriterQueues(locker[l]) => l \in QueuedWriters(locker)
      /\ ReadOwners(locker) \subseteq Lockers /\ WriteOwners(locker) \subseteq Lockers
      /\ QueuedWriters(locker) \subseteq Lockers
  BY DEF ReadOwners, WriteOwners, QueuedWriters
<1>3. /\ Reads(locker[l]) => Cardinality(ReadOwners(locker)) \in Nat \ {0}
      /\ Writes(locker[l]) => Cardinality(WriteOwners(locker)) # 0
      /\ WriterQueues(locker[l]) => Cardinality(QueuedWriters(locker)) \in Nat \ {0}
  BY <1>1, <1>2
<1>4. lock \in LockRec /\ CountsExact(lock, locker)
  BY DEF RwInv, RwType, RwExact
<1> QED BY <1>3, <1>4 DEF CountsExact, LockRec
(* An operation that moves one locker, and one that also serves the queue. *)
LEMMA RwMoves ==
  ASSUME IsFiniteSet(Lockers), RwInv, NEW l \in Lockers, NEW v, Follows(lock', l, v),
         locker' = [locker EXCEPT ![l] = v], gap' \in BOOLEAN, HeadWaits(lock', locker', gap')
  PROVE  RwInv'
<1>1. locker' \in [Lockers -> LockerRec] /\ RwExact(lock', locker')
  BY LockerChanges
<1>2. lock' \in LockRec
  BY DEF Follows
<1> QED BY <1>1, <1>2 DEF RwInv, RwType

LEMMA RwReleases ==
  ASSUME IsFiniteSet(Lockers), RwInv, NEW l \in Lockers, NEW d, NEW v, Follows(d, l, v),
         ~d.writer, ~Queues(v), R!wake_next_locked(d, [locker EXCEPT ![l] = v])
  PROVE  RwInv'
<1> DEFINE g == [locker EXCEPT ![l] = v]
<1>1. g \in [Lockers -> LockerRec] /\ RwExact(d, g)
  BY LockerChanges
<1>2. d \in LockRec
  BY DEF Follows
<1>3. \A x \in Lockers : Queues(g[x]) => g[x].kind = locker[x].kind
  BY DEF RwInv, RwType
<1>4. R!wake_next_locked(d, g)
  OBVIOUS
<1> HIDE DEF g
<1> QED BY <1>1, <1>2, <1>3, <1>4, WakeKeeps

(* A change of the counters alone. *)
LEMMA CountersFollow ==
  ASSUME RwInv, NEW l \in Lockers, NEW k \in {"reader", "writer"}, NEW p \in {"none", "ready", "guard"},
         ~Queues(locker[l]), NEW n \in Nat, NEW b \in BOOLEAN,
         n = lock.readers - ReadWorth(locker[l]) + ReadWorth(R!Future(k, p)),
         (IF b THEN 1 ELSE 0) =
           (IF lock.writer THEN 1 ELSE 0) - WriteWorth(locker[l]) + WriteWorth(R!Future(k, p)),
         b => n = 0,
         NEW d, d = [lock EXCEPT !.readers = n, !.writer = b]
  PROVE  Follows(d, l, R!Future(k, p))
<1> DEFINE v == R!Future(k, p)
<1>1. v \in LockerRec /\ LockerExact(v) /\ ~Queues(v) /\ QueueWorth(v) = 0
  BY FreshLocker
<1>2. lock \in LockRec /\ lock.waiting_writers \in Nat
  BY DEF RwInv, RwType, LockRec
<1>3. /\ d \in LockRec /\ d.readers = n /\ d.writer = b /\ d.queue = lock.queue
      /\ d.waiting_writers = lock.waiting_writers
  BY <1>2 DEF LockRec
<1>4. QueueWorth(locker[l]) = 0
  BY DEF QueueWorth, WriterQueues
<1>5. Distinct(lock.queue) /\ ~Occurs(lock.queue, l)
  BY DEF RwInv, RwExact, QueueExact
<1>6. d.waiting_writers = lock.waiting_writers - QueueWorth(locker[l]) + QueueWorth(v)
  BY <1>1, <1>2, <1>3, <1>4
<1> HIDE DEF v
<1> QED BY <1>1, <1>3, <1>5, <1>6 DEF Follows, v

(* The head of an untouched queue goes on waiting while nothing is released. *)
LEMMA HeadGoesOn ==
  ASSUME RwInv, lock'.queue = lock.queue, lock.writer => lock'.writer, gap => gap',
         lock.readers > 0 => lock'.readers > 0,
         \A x \in Lockers : Queues(locker[x]) => locker'[x].kind = locker[x].kind
  PROVE  HeadWaits(lock', locker', gap')
<1>1. lock.queue \in Seq(Lockers)
  BY DEF RwInv, RwType, LockRec
<1>2. lock.queue # <<>> => Head(lock.queue) \in Lockers /\ Occurs(lock.queue, Head(lock.queue))
  <2> SUFFICES ASSUME lock.queue # <<>>
               PROVE  Head(lock.queue) \in Lockers /\ Occurs(lock.queue, Head(lock.queue))
    OBVIOUS
  <2>1. 1 \in 1 .. Len(lock.queue) /\ Head(lock.queue) = lock.queue[1] /\ Head(lock.queue) \in Lockers
    BY <1>1
  <2> QED BY <2>1 DEF Occurs
<1>3. lock.queue # <<>> => Queues(locker[Head(lock.queue)])
  BY <1>2 DEF RwInv, RwExact, QueueExact
<1> QED BY <1>2, <1>3 DEF RwInv, HeadWaits

(* read, write, try_read, try_write, and a poll that enters or sees its grant. *)
LEMMA RwEnterStep ==
  ASSUME IsFiniteSet(Lockers), RwInv, NEW l \in Lockers,
         NEW k \in {"reader", "writer"}, NEW p \in {"ready", "guard"},
         locker' = [locker EXCEPT ![l] = R!Future(k, p)], gap' = gap,
         \/ ~Owns(locker[l]) /\ ~Queues(locker[l]) /\ p = "ready" /\ lock' = lock
         \/ /\ ~Owns(locker[l]) /\ ~Queues(locker[l]) /\ p = "guard" /\ k = "reader" /\ R!ReaderEnters
            /\ lock' = [lock EXCEPT !.readers = lock.readers + 1]
         \/ /\ ~Owns(locker[l]) /\ ~Queues(locker[l]) /\ p = "guard" /\ k = "writer" /\ R!WriterEnters
            /\ lock' = [lock EXCEPT !.writer = TRUE]
         \/ Owns(locker[l]) /\ locker[l].kind = k /\ p = "guard" /\ lock' = lock
  PROVE  RwInv'
<1> DEFINE v == R!Future(k, p)
           w == locker[l]
<1>1. /\ lock \in LockRec /\ lock.readers \in Nat /\ lock.writer \in BOOLEAN /\ gap \in BOOLEAN
      /\ (lock.writer => lock.readers = 0) /\ w \in LockerRec /\ LockerExact(w)
      /\ locker \in [Lockers -> LockerRec]
  BY DEF RwInv, RwType, RwExact, CountsExact, LockRec, LockersExact
<1>2. ~Queues(w)
  BY <1>1 DEF Queues, Owns, LockerExact
<1>3. /\ ReadWorth(v) = IF p = "guard" /\ k = "reader" THEN 1 ELSE 0
      /\ WriteWorth(v) = IF p = "guard" /\ k = "writer" THEN 1 ELSE 0
  BY FreshLocker
<1>4. /\ ReadWorth(w) = IF w.kind = "reader" /\ Owns(w) THEN 1 ELSE 0
      /\ WriteWorth(w) = IF w.kind = "writer" /\ Owns(w) THEN 1 ELSE 0
  BY DEF ReadWorth, WriteWorth, Reads, Writes
<1> DEFINE Q(n, b) ==
      /\ n \in Nat /\ b \in BOOLEAN /\ lock' = [lock EXCEPT !.readers = n, !.writer = b]
      /\ n = lock.readers - ReadWorth(w) + ReadWorth(v)
      /\ (IF b THEN 1 ELSE 0) = (IF lock.writer THEN 1 ELSE 0) - WriteWorth(w) + WriteWorth(v)
      /\ (b => n = 0) /\ n >= lock.readers /\ (lock.writer => b)
<1>5. \E n, b : Q(n, b)
  <2>1. CASE lock' = lock /\ ((p = "ready" /\ ~Owns(w)) \/ (p = "guard" /\ Owns(w) /\ w.kind = k))
    <3>1. lock' = [lock EXCEPT !.readers = lock.readers, !.writer = lock.writer]
      BY <1>1, <2>1 DEF LockRec
    <3>2. ReadWorth(v) = ReadWorth(w) /\ WriteWorth(v) = WriteWorth(w)
      BY <1>1, <1>3, <1>4, <2>1 DEF LockerRec
    <3>3. ReadWorth(v) \in Nat /\ WriteWorth(v) \in Nat
      BY <1>3
    <3>4. Q(lock.readers, lock.writer)
      BY <1>1, <3>1, <3>2, <3>3
    <3> QED BY <3>4
  <2>2. CASE /\ ~Owns(w) /\ p = "guard" /\ k = "reader" /\ R!ReaderEnters
             /\ lock' = [lock EXCEPT !.readers = lock.readers + 1]
    <3>1. lock' = [lock EXCEPT !.readers = lock.readers + 1, !.writer = FALSE] /\ lock.writer = FALSE
      BY <1>1, <2>2 DEF LockRec, R!ReaderEnters
    <3>2. ReadWorth(v) = 1 /\ WriteWorth(v) = 0 /\ ReadWorth(w) = 0 /\ WriteWorth(w) = 0
      BY <1>3, <1>4, <2>2
    <3>4. Q(lock.readers + 1, FALSE)
      BY <1>1, <3>1, <3>2
    <3> QED BY <3>4
  <2>3. CASE /\ ~Owns(w) /\ p = "guard" /\ k = "writer" /\ R!WriterEnters
             /\ lock' = [lock EXCEPT !.writer = TRUE]
    <3>1. lock' = [lock EXCEPT !.readers = 0, !.writer = TRUE] /\ lock.writer = FALSE /\ lock.readers = 0
      BY <1>1, <2>3 DEF LockRec, R!WriterEnters
    <3>2. ReadWorth(v) = 0 /\ WriteWorth(v) = 1 /\ ReadWorth(w) = 0 /\ WriteWorth(w) = 0
      BY <1>3, <1>4, <2>3
    <3>4. Q(0, TRUE)
      BY <1>1, <3>1, <3>2
    <3> QED BY <3>4
  <2> HIDE DEF Q
  <2> QED BY <2>1, <2>2, <2>3
<1>5a. PICK n, b : Q(n, b)
  BY <1>5
<1>6. Follows(lock', l, v)
  BY <1>2, <1>5a, CountersFollow
<1>7. lock'.queue = lock.queue /\ lock'.readers = n /\ lock'.writer = b
  BY <1>1, <1>5a DEF LockRec
<1>8. \A x \in Lockers : Queues(locker[x]) => locker'[x].kind = locker[x].kind
  BY <1>1, <1>2
<1>9. HeadWaits(lock', locker', gap')
  <2>1. (lock.writer => lock'.writer) /\ (lock.readers > 0 => lock'.readers > 0) /\ (gap => gap')
    BY <1>1, <1>5a, <1>7
  <2> QED BY <1>7, <1>8, <2>1, HeadGoesOn
<1> QED BY <1>1, <1>6, <1>9, RwMoves
(* Read::drop or Write::drop of a granted future, the drop of a guard, downgrade. *)
LEMMA RwReleaseStep ==
  ASSUME IsFiniteSet(Lockers), RwInv, NEW l \in Lockers, Owns(locker[l]),
         \/ locker[l].kind = "reader"
            /\ R!wake_next_locked([lock EXCEPT !.readers = lock.readers - 1], R!Gone(l))
         \/ locker[l].kind = "writer"
            /\ R!wake_next_locked([lock EXCEPT !.writer = FALSE], R!Gone(l))
         \/ locker[l].kind = "writer"
            /\ R!wake_next_locked([lock EXCEPT !.writer = FALSE, !.readers = 1],
                                  [locker EXCEPT ![l] = R!Future("reader", "guard")])
  PROVE  RwInv'
<1> DEFINE w == locker[l]
<1>1. /\ lock \in LockRec /\ lock.readers \in Nat /\ lock.writer \in BOOLEAN
      /\ w \in LockerRec /\ LockerExact(w)
  BY DEF RwInv, RwType, RwExact, LockRec, LockersExact
<1>2. ~Queues(w)
  BY <1>1 DEF Queues, Owns, LockerExact
<1>3. /\ w.kind = "reader" => lock.readers > 0 /\ ~lock.writer
      /\ w.kind = "writer" => lock.writer /\ lock.readers = 0
  BY OwnerCounted DEF Reads, Writes
<1>4. /\ ReadWorth(w) = IF w.kind = "reader" THEN 1 ELSE 0
      /\ WriteWorth(w) = IF w.kind = "writer" THEN 1 ELSE 0
  BY DEF ReadWorth, WriteWorth, Reads, Writes
<1>5. /\ R!Gone(l) = [locker EXCEPT ![l] = R!Future("reader", "none")]
      /\ ReadWorth(R!Future("reader", "none")) = 0 /\ WriteWorth(R!Future("reader", "none")) = 0
      /\ ~Queues(R!Future("reader", "none"))
      /\ ReadWorth(R!Future("reader", "guard")) = 1 /\ WriteWorth(R!Future("reader", "guard")) = 0
      /\ ~Queues(R!Future("reader", "guard"))
  BY FreshLocker DEF R!Gone
<1>6. CASE /\ w.kind = "reader"
           /\ R!wake_next_locked([lock EXCEPT !.readers = lock.readers - 1], R!Gone(l))
  <2> DEFINE d == [lock EXCEPT !.readers = lock.readers - 1, !.writer = FALSE]
  <2>1. d = [lock EXCEPT !.readers = lock.readers - 1] /\ ~d.writer
    BY <1>1, <1>3, <1>6 DEF LockRec
  <2>2. lock.readers - 1 \in Nat /\ lock.writer = FALSE /\ FALSE \in BOOLEAN
    BY <1>1, <1>3, <1>6
  <2>3. /\ lock.readers - 1 = lock.readers - ReadWorth(w) + ReadWorth(R!Future("reader", "none"))
        /\ (IF FALSE THEN 1 ELSE 0) =
             (IF lock.writer THEN 1 ELSE 0) - WriteWorth(w) + WriteWorth(R!Future("reader", "none"))
    BY <1>1, <1>4, <1>5, <1>6, <2>2
  <2>4. Follows(d, l, R!Future("reader", "none"))
    BY <1>2, <2>2, <2>3, CountersFollow
  <2> HIDE DEF d
  <2> QED BY <1>5, <1>6, <2>1, <2>4, RwReleases
<1>7. CASE w.kind = "writer" /\ R!wake_next_locked([lock EXCEPT !.writer = FALSE], R!Gone(l))
  <2> DEFINE d == [lock EXCEPT !.readers = 0, !.writer = FALSE]
  <2>1. d = [lock EXCEPT !.writer = FALSE] /\ ~d.writer
    BY <1>1, <1>3, <1>7 DEF LockRec
  <2>2. 0 \in Nat /\ lock.writer = TRUE /\ lock.readers = 0 /\ FALSE \in BOOLEAN
    BY <1>1, <1>3, <1>7
  <2>3. /\ 0 = lock.readers - ReadWorth(w) + ReadWorth(R!Future("reader", "none"))
        /\ (IF FALSE THEN 1 ELSE 0) =
             (IF lock.writer THEN 1 ELSE 0) - WriteWorth(w) + WriteWorth(R!Future("reader", "none"))
    BY <1>1, <1>4, <1>5, <1>7, <2>2
  <2>4. Follows(d, l, R!Future("reader", "none"))
    BY <1>2, <2>2, <2>3, CountersFollow
  <2> HIDE DEF d
  <2> QED BY <1>5, <1>7, <2>1, <2>4, RwReleases
<1>8. CASE /\ w.kind = "writer"
           /\ R!wake_next_locked([lock EXCEPT !.writer = FALSE, !.readers = 1],
                                 [locker EXCEPT ![l] = R!Future("reader", "guard")])
  <2> DEFINE d == [lock EXCEPT !.readers = 1, !.writer = FALSE]
  <2>1. d = [lock EXCEPT !.writer = FALSE, !.readers = 1] /\ ~d.writer
    BY <1>1 DEF LockRec
  <2>2. 1 \in Nat /\ lock.writer = TRUE /\ lock.readers = 0 /\ FALSE \in BOOLEAN
    BY <1>1, <1>3, <1>8
  <2>3. /\ 1 = lock.readers - ReadWorth(w) + ReadWorth(R!Future("reader", "guard"))
        /\ (IF FALSE THEN 1 ELSE 0) =
             (IF lock.writer THEN 1 ELSE 0) - WriteWorth(w) + WriteWorth(R!Future("reader", "guard"))
    BY <1>1, <1>4, <1>5, <1>8, <2>2
  <2>4. Follows(d, l, R!Future("reader", "guard"))
    BY <1>2, <2>2, <2>3, CountersFollow
  <2> HIDE DEF d
  <2> QED BY <1>5, <1>8, <2>1, <2>4, RwReleases
<1> QED BY <1>6, <1>7, <1>8

(* A poll that parks: the first to wait waits for an owner. *)
LEMMA RwParkStep ==
  ASSUME IsFiniteSet(Lockers), RwInv, NEW l \in Lockers, locker[l].phase = "ready",
         ~locker[l].granted, R!Park(l), gap' = gap,
         ~locker[l].registered =>
           \/ locker[l].kind = "reader" /\ ~R!ReaderEnters
           \/ locker[l].kind = "writer" /\ ~R!WriterEnters
  PROVE  RwInv'
<1> DEFINE w == locker[l]
           v == [w EXCEPT !.phase = "parked", !.waker = TRUE, !.registered = TRUE]
           q == lock.queue
<1>1. /\ lock \in LockRec /\ lock.readers \in Nat /\ lock.waiting_writers \in Nat
      /\ q \in Seq(Lockers) /\ gap \in BOOLEAN /\ Distinct(q)
      /\ lock.writer \in BOOLEAN /\ (lock.writer => lock.readers = 0)
      /\ locker \in [Lockers -> LockerRec] /\ w \in LockerRec
      /\ (Occurs(q, l) <=> Queues(w))
  BY DEF RwInv, RwType, RwExact, CountsExact, LockRec, QueueExact
<1>2. locker' = [locker EXCEPT ![l] = v]
  BY <1>1 DEF R!Park
<1>3. /\ v \in LockerRec /\ v.phase = "parked" /\ v.waker = TRUE /\ v.registered = TRUE
      /\ v.granted = FALSE /\ v.kind = w.kind
  BY <1>1 DEF LockerRec
<1> HIDE DEF v
<1>4. LockerExact(v) /\ Queues(v) /\ ~Owns(v) /\ ~Owns(w)
  BY <1>3 DEF LockerExact, Queues, Owns
<1>5. /\ ReadWorth(w) = 0 /\ WriteWorth(w) = 0 /\ ReadWorth(v) = 0 /\ WriteWorth(v) = 0
  BY <1>4 DEF ReadWorth, WriteWorth, Reads, Writes
<1>6. Queues(w) <=> w.registered
  BY DEF Queues
<1>7. /\ QueueWorth(v) = IF w.kind = "writer" THEN 1 ELSE 0
      /\ QueueWorth(w) = IF w.kind = "writer" /\ w.registered THEN 1 ELSE 0
  BY <1>3, <1>4, <1>6 DEF QueueWorth, WriterQueues
<1>8. \A x \in Lockers : locker'[x].kind = locker[x].kind
  BY <1>1, <1>2, <1>3
<1>9. CASE w.registered
  <2>1. lock' = lock
    BY <1>9 DEF R!Park
  <2>2. QueueWorth(v) = QueueWorth(w) /\ QueueWorth(v) \in Nat
    BY <1>7, <1>9
  <2>3. Follows(lock', l, v)
    <3>1. /\ lock.readers = lock.readers - ReadWorth(w) + ReadWorth(v)
          /\ (IF lock.writer THEN 1 ELSE 0) = (IF lock.writer THEN 1 ELSE 0) - WriteWorth(w) + WriteWorth(v)
          /\ lock.waiting_writers = lock.waiting_writers - QueueWorth(w) + QueueWorth(v)
      BY <1>1, <1>5, <2>2
    <3> QED BY <1>1, <1>3, <1>4, <1>6, <1>9, <2>1, <3>1 DEF Follows
  <2>4. HeadWaits(lock', locker', gap')
    BY <1>8, <2>1, HeadGoesOn
  <2> QED BY <1>1, <1>2, <2>3, <2>4, RwMoves
<1>10. CASE ~w.registered
  <2> DEFINE c == IF w.kind = "writer" THEN 1 ELSE 0
             a == Append(q, l)
             m == lock.waiting_writers + c
  <2>1. lock' = [lock EXCEPT !.queue = a, !.waiting_writers = m]
    BY <1>10 DEF R!Park, R!IsWriter
  <2>2. /\ a \in Seq(Lockers) /\ (\A x : Occurs(a, x) <=> Occurs(q, x) \/ x = l) /\ Distinct(a)
        /\ Len(a) = Len(q) + 1 /\ a[Len(q) + 1] = l /\ \A i \in 1 .. Len(q) : a[i] = q[i]
    BY <1>1, <1>6, <1>10, AppendFacts
  <2>3. m \in Nat /\ m = lock.waiting_writers - QueueWorth(w) + QueueWorth(v)
    BY <1>1, <1>7, <1>10
  <2> HIDE DEF a, m, c
  <2>4. /\ lock' \in LockRec /\ lock'.queue = a /\ lock'.waiting_writers = m
        /\ lock'.readers = lock.readers /\ lock'.writer = lock.writer
    BY <1>1, <2>1, <2>2, <2>3 DEF LockRec
  <2>5. Follows(lock', l, v)
    <3>1. /\ lock.readers = lock.readers - ReadWorth(w) + ReadWorth(v)
          /\ (IF lock.writer THEN 1 ELSE 0) = (IF lock.writer THEN 1 ELSE 0) - WriteWorth(w) + WriteWorth(v)
      BY <1>1, <1>5
    <3> QED BY <1>1, <1>3, <1>4, <2>2, <2>3, <2>4, <3>1 DEF Follows
  <2>6. HeadWaits(lock', locker', gap')
    <3>1. CASE q = <<>>
      <4>1. Head(a) = l
        BY <2>2, <3>1
      <4>2. lock.waiting_writers = 0
        <5>1. \A x \in Lockers : ~WriterQueues(locker[x])
          <6>1. \A x \in Lockers : ~Occurs(q, x)
            BY <3>1 DEF Occurs
          <6> QED BY <6>1 DEF RwInv, RwExact, QueueExact, WriterQueues
        <5>2. QueuedWriters(locker) = {}
          BY <5>1 DEF QueuedWriters
        <5>3. lock.waiting_writers = Cardinality(QueuedWriters(locker))
          BY DEF RwInv, RwExact, CountsExact
        <5> QED BY <5>2, <5>3, FS_EmptySet
      <4>3. w.kind = "reader" => lock.writer
        BY <1>10, <3>1, <4>2 DEF R!ReaderEnters
      <4>4. w.kind = "writer" => lock.writer \/ lock.readers > 0
        BY <1>1, <1>10, <3>1 DEF R!WriterEnters
      <4>5. w.kind = "reader" \/ w.kind = "writer"
        BY <1>1 DEF LockerRec
      <4> QED BY <1>8, <2>4, <4>1, <4>3, <4>4, <4>5 DEF HeadWaits
    <3>2. CASE q # <<>>
      <4>1. Len(q) \in Nat /\ Len(q) > 0 /\ Head(q) = q[1] /\ Head(q) \in Lockers
        BY <1>1, <3>2
      <4>2. Head(a) = a[1]
        BY <2>2, <4>1
      <4>3. a[1] = q[1]
        BY <2>2, <4>1
      <4>4. locker'[Head(q)].kind = locker[Head(q)].kind
        BY <1>8, <4>1
      <4> QED BY <2>4, <3>2, <4>1, <4>2, <4>3, <4>4 DEF RwInv, HeadWaits
    <3> QED BY <3>1, <3>2
  <2> QED BY <1>1, <1>2, <2>5, <2>6, RwMoves
<1> QED BY <1>9, <1>10
(* A future that was not granted is dropped: its place in the queue goes with it, and  *)
(* if a writer leaves, gap records that nobody serves the readers behind it.            *)
LEMMA RwCancelStep ==
  ASSUME IsFiniteSet(Lockers), RwInv, NEW l \in Lockers, R!Pending(l), ~locker[l].granted,
         locker' = R!Gone(l),
         \/ locker[l].kind = "reader" /\ lock' = R!Leaves(l) /\ gap' = gap
         \/ /\ locker[l].kind = "writer" /\ gap' = (gap \/ locker[l].registered)
            /\ lock' = IF locker[l].registered
                       THEN [R!Leaves(l) EXCEPT !.waiting_writers = @ - 1] ELSE lock
  PROVE  RwInv'
<1> DEFINE w == locker[l]
           v == R!Future("reader", "none")
           q == lock.queue
           a == Without(q, l)
           c == IF w.kind = "writer" /\ w.registered THEN 1 ELSE 0
           m == lock.waiting_writers - c
<1>1. /\ lock \in LockRec /\ lock.readers \in Nat /\ lock.waiting_writers \in Nat
      /\ q \in Seq(Lockers) /\ gap \in BOOLEAN /\ Distinct(q)
      /\ lock.writer \in BOOLEAN /\ (lock.writer => lock.readers = 0)
      /\ locker \in [Lockers -> LockerRec] /\ w \in LockerRec
      /\ (Occurs(q, l) <=> Queues(w)) /\ (w.kind = "reader" \/ w.kind = "writer")
  BY DEF RwInv, RwType, RwExact, CountsExact, LockRec, LockerRec, QueueExact
<1>2. /\ a \in Seq(Lockers) /\ Distinct(a) /\ ~Occurs(a, l) /\ (~Occurs(q, l) => a = q)
      /\ \A x \in Lockers : x # l => (Occurs(a, x) <=> Occurs(q, x))
  BY <1>1, WithoutFacts
<1>3. (Queues(w) <=> w.registered) /\ ~Owns(w)
  BY DEF Queues, Owns, R!Pending
<1>4. /\ v \in LockerRec /\ LockerExact(v) /\ ~Queues(v) /\ QueueWorth(v) = 0
      /\ ReadWorth(v) = 0 /\ WriteWorth(v) = 0
  BY FreshLocker
<1>5. /\ ReadWorth(w) = 0 /\ WriteWorth(w) = 0 /\ QueueWorth(w) = c
  BY <1>3 DEF ReadWorth, WriteWorth, QueueWorth, Reads, Writes, WriterQueues
<1>6. c = 1 => lock.waiting_writers > 0
  BY <1>3, OwnerCounted DEF WriterQueues
<1>7. m \in Nat /\ m = lock.waiting_writers - QueueWorth(w) + QueueWorth(v)
  BY <1>1, <1>4, <1>5, <1>6
<1>8. R!Leaves(l) = [lock EXCEPT !.queue = a]
  BY RwNames DEF R!Leaves
<1> HIDE DEF a
<1>9. lock' = [lock EXCEPT !.queue = a, !.waiting_writers = m]
  <2>1. CASE w.kind = "writer" /\ w.registered
    BY <1>1, <1>2, <1>8, <2>1 DEF LockRec
  <2>2. CASE w.kind = "writer" /\ ~w.registered
    <3>1. lock' = lock /\ a = q /\ m = lock.waiting_writers
      BY <1>1, <1>2, <1>3, <2>2
    <3> QED BY <1>1, <3>1 DEF LockRec
  <2>3. CASE w.kind = "reader"
    <3>1. lock' = [lock EXCEPT !.queue = a] /\ m = lock.waiting_writers
      BY <1>1, <1>8, <2>3
    <3> QED BY <1>1, <3>1 DEF LockRec
  <2> QED BY <1>1, <2>1, <2>2, <2>3
<1> HIDE DEF m, c
<1>10. /\ lock' \in LockRec /\ lock'.queue = a /\ lock'.waiting_writers = m
       /\ lock'.readers = lock.readers /\ lock'.writer = lock.writer
  BY <1>1, <1>2, <1>7, <1>9 DEF LockRec
<1>11. locker' = [locker EXCEPT ![l] = v]
  BY DEF R!Gone
<1> HIDE DEF v
<1>12. Follows(lock', l, v)
  <2>1. /\ lock.readers = lock.readers - ReadWorth(w) + ReadWorth(v)
        /\ (IF lock.writer THEN 1 ELSE 0) = (IF lock.writer THEN 1 ELSE 0) - WriteWorth(w) + WriteWorth(v)
    BY <1>1, <1>4, <1>5
  <2> QED BY <1>1, <1>2, <1>4, <1>7, <1>10, <2>1 DEF Follows
<1>13. gap' \in BOOLEAN /\ (gap => gap') /\ (w.kind = "writer" /\ w.registered => gap')
  BY <1>1 DEF LockerRec
<1>14. HeadWaits(lock', locker', gap')
  <2> SUFFICES ASSUME a # <<>>
               PROVE  lock.writer \/ gap' \/ (locker'[Head(a)].kind = "writer" /\ lock.readers > 0)
    BY <1>10 DEF HeadWaits
  <2>1. q # <<>> /\ (Head(q) # l => Head(a) = Head(q))
    BY <1>1, HeadStays DEF a
  <2>2. Head(q) \in Lockers /\ 1 \in 1 .. Len(q) /\ Head(q) = q[1]
    BY <1>1, <2>1
  <2>3. Queues(locker[Head(q)])
    BY <2>2 DEF RwInv, RwExact, QueueExact, Occurs
  <2>4. lock.writer \/ gap \/ (locker[Head(q)].kind = "writer" /\ lock.readers > 0)
    BY <2>1 DEF RwInv, HeadWaits
  <2>5. CASE Head(q) = l
    BY <1>3, <1>13, <2>3, <2>4, <2>5
  <2>6. CASE Head(q) # l
    BY <1>1, <1>11, <1>13, <2>1, <2>2, <2>4, <2>6
  <2> QED BY <2>5, <2>6
<1> QED BY <1>11, <1>12, <1>13, <1>14, RwMoves

LEMMA RwSpuriousStep ==
  ASSUME IsFiniteSet(Lockers), RwInv, NEW l \in Lockers, R!SpuriousPoll(l)
  PROVE  RwInv'
<1> DEFINE w == locker[l]
           v == [w EXCEPT !.phase = "ready"]
<1>1. /\ lock \in LockRec /\ lock.readers \in Nat /\ lock.waiting_writers \in Nat
      /\ gap \in BOOLEAN /\ Distinct(lock.queue) /\ (lock.writer => lock.readers = 0)
      /\ locker \in [Lockers -> LockerRec] /\ w \in LockerRec /\ LockerExact(w)
      /\ (Occurs(lock.queue, l) <=> Queues(w))
  BY DEF RwInv, RwType, RwExact, CountsExact, LockRec, QueueExact, LockersExact
<1>2. locker' = [locker EXCEPT ![l] = v] /\ lock' = lock /\ gap' = gap /\ w.phase = "parked"
  BY <1>1 DEF R!SpuriousPoll
<1>3. /\ v \in LockerRec /\ v.phase = "ready" /\ v.registered = w.registered
      /\ v.granted = w.granted /\ v.kind = w.kind
  BY <1>1 DEF LockerRec
<1> HIDE DEF v
<1>4. LockerExact(v) /\ (Queues(v) <=> Queues(w)) /\ (Owns(v) <=> Owns(w))
  BY <1>2, <1>3 DEF LockerExact, Queues, Owns
<1>5. /\ ReadWorth(v) = ReadWorth(w) /\ WriteWorth(v) = WriteWorth(w) /\ QueueWorth(v) = QueueWorth(w)
      /\ ReadWorth(w) \in Int /\ WriteWorth(w) \in Int /\ QueueWorth(w) \in Int
  BY <1>3, <1>4 DEF ReadWorth, WriteWorth, QueueWorth, Reads, Writes, WriterQueues
<1>6. Follows(lock', l, v)
  <2>1. /\ lock.readers = lock.readers - ReadWorth(w) + ReadWorth(v)
        /\ (IF lock.writer THEN 1 ELSE 0) = (IF lock.writer THEN 1 ELSE 0) - WriteWorth(w) + WriteWorth(v)
        /\ lock.waiting_writers = lock.waiting_writers - QueueWorth(w) + QueueWorth(v)
    BY <1>1, <1>5
  <2> QED BY <1>1, <1>2, <1>3, <1>4, <2>1 DEF Follows
<1>7. \A x \in Lockers : locker'[x].kind = locker[x].kind
  BY <1>1, <1>2, <1>3
<1>8. HeadWaits(lock', locker', gap')
  BY <1>2, <1>7, HeadGoesOn
<1> QED BY <1>1, <1>2, <1>6, <1>8, RwMoves

LEMMA RwStep ==
  ASSUME IsFiniteSet(Lockers), RwInv, [R!Next]_(R!vars)
  PROVE  RwInv'
<1>1. CASE UNCHANGED R!vars
  BY <1>1 DEF R!vars, RwInv, RwType
<1>2. ASSUME NEW l \in Lockers,
             \/ R!read(l) \/ R!write(l) \/ R!try_read(l) \/ R!try_write(l) \/ R!PollRead(l)
             \/ R!PollWrite(l) \/ R!DropRead(l) \/ R!DropWrite(l) \/ R!DropReadGuard(l)
             \/ R!DropWriteGuard(l) \/ R!downgrade(l) \/ R!SpuriousPoll(l)
      PROVE  RwInv'
  <2> DEFINE w == locker[l]
  <2>1. /\ w \in LockerRec /\ LockerExact(w) /\ (w.kind = "reader" \/ w.kind = "writer")
        /\ (w.phase = "none" => ~Owns(w) /\ ~Queues(w))
        /\ (~w.granted /\ ~w.registered /\ w.phase = "ready" => ~Owns(w) /\ ~Queues(w))
        /\ (w.granted \/ w.phase = "guard" => Owns(w))
    BY DEF RwInv, RwType, RwExact, LockersExact, LockerRec, LockerExact, Owns, Queues
  <2>2. CASE R!read(l)
    BY <2>1, <2>2, RwEnterStep DEF R!read
  <2>3. CASE R!write(l)
    BY <2>1, <2>3, RwEnterStep DEF R!write
  <2>4. CASE R!try_read(l)
    BY <2>1, <2>4, RwEnterStep DEF R!try_read, R!Guard
  <2>5. CASE R!try_write(l)
    BY <2>1, <2>5, RwEnterStep DEF R!try_write, R!Guard
  <2>6. CASE R!PollRead(l)
    <3>1. CASE R!Guard(l, "reader")
      <4>1. /\ gap' = gap /\ w.phase = "ready" /\ w.kind = "reader"
            /\ \/ w.granted /\ lock' = lock
               \/ /\ ~w.granted /\ ~w.registered /\ R!ReaderEnters
                  /\ lock' = [lock EXCEPT !.readers = lock.readers + 1]
               \/ ~w.granted /\ R!Park(l)
        BY <2>1, <2>6 DEF R!PollRead, R!IsWriter
      <4>2. ~R!Park(l)
        <5>1. locker'[l] = R!Future("reader", "guard")
          BY <3>1 DEF R!Guard, RwInv, RwType
        <5>2. R!Park(l) => locker'[l].phase = "parked"
          BY <2>1 DEF R!Park, RwInv, RwType, LockerRec
        <5> QED BY <5>1, <5>2 DEF R!Future
      <4> QED BY <2>1, <3>1, <4>1, <4>2, RwEnterStep DEF R!Guard
    <3>2. CASE ~R!Guard(l, "reader")
      <4>1. /\ gap' = gap /\ w.phase = "ready" /\ w.kind = "reader" /\ ~w.granted /\ R!Park(l)
            /\ (~w.registered => ~R!ReaderEnters)
        BY <2>1, <2>6, <3>2 DEF R!PollRead, R!IsWriter
      <4> QED BY <4>1, RwParkStep
    <3> QED BY <3>1, <3>2
  <2>7. CASE R!PollWrite(l)
    <3>1. CASE R!Guard(l, "writer")
      <4>1. /\ gap' = gap /\ w.phase = "ready" /\ w.kind = "writer"
            /\ \/ w.granted /\ lock' = lock
               \/ /\ ~w.granted /\ ~w.registered /\ R!WriterEnters
                  /\ lock' = [lock EXCEPT !.writer = TRUE]
               \/ ~w.granted /\ R!Park(l)
        BY <2>1, <2>7 DEF R!PollWrite, R!IsWriter
      <4>2. ~R!Park(l)
        <5>1. locker'[l] = R!Future("writer", "guard")
          BY <3>1 DEF R!Guard, RwInv, RwType
        <5>2. R!Park(l) => locker'[l].phase = "parked"
          BY <2>1 DEF R!Park, RwInv, RwType, LockerRec
        <5> QED BY <5>1, <5>2 DEF R!Future
      <4> QED BY <2>1, <3>1, <4>1, <4>2, RwEnterStep DEF R!Guard
    <3>2. CASE ~R!Guard(l, "writer")
      <4>1. /\ gap' = gap /\ w.phase = "ready" /\ w.kind = "writer" /\ ~w.granted /\ R!Park(l)
            /\ (~w.registered => ~R!WriterEnters)
        BY <2>1, <2>7, <3>2 DEF R!PollWrite, R!IsWriter
      <4> QED BY <4>1, RwParkStep
    <3> QED BY <3>1, <3>2
  <2>8. CASE R!DropRead(l)
    <3>1. R!Pending(l) /\ w.kind = "reader"
      BY <2>1, <2>8 DEF R!DropRead, R!IsWriter
    <3>2. CASE w.granted
      BY <2>1, <2>8, <3>1, <3>2, RwReleaseStep DEF R!DropRead
    <3>3. CASE ~w.granted
      BY <2>8, <3>1, <3>3, RwCancelStep DEF R!DropRead
    <3> QED BY <3>2, <3>3
  <2>9. CASE R!DropWrite(l)
    <3>1. R!Pending(l) /\ w.kind = "writer"
      BY <2>1, <2>9 DEF R!DropWrite, R!IsWriter
    <3>2. CASE w.granted
      BY <2>1, <2>9, <3>1, <3>2, RwReleaseStep DEF R!DropWrite
    <3>3. CASE ~w.granted
      BY <2>9, <3>1, <3>3, RwCancelStep DEF R!DropWrite
    <3> QED BY <3>2, <3>3
  <2>10. CASE R!DropReadGuard(l)
    BY <2>1, <2>10, RwReleaseStep DEF R!DropReadGuard, R!IsWriter
  <2>11. CASE R!DropWriteGuard(l)
    BY <2>1, <2>11, RwReleaseStep DEF R!DropWriteGuard, R!IsWriter
  <2>12. CASE R!downgrade(l)
    BY <2>1, <2>12, RwReleaseStep DEF R!downgrade, R!IsWriter
  <2>13. CASE R!SpuriousPoll(l)
    BY <2>13, RwSpuriousStep
  <2> QED BY <1>2, <2>2, <2>3, <2>4, <2>5, <2>6, <2>7, <2>8, <2>9, <2>10, <2>11, <2>12, <2>13
<1> QED BY <1>1, <1>2 DEF R!Next

(* RwLockIsSound: whatever the number of futures and guards and however they are      *)
(* cancelled, a writer excludes everyone, the three counters are exact, and the head   *)
(* of the queue waits for an owner unless a queued writer was dropped in front of it.  *)
THEOREM RwLockIsSound ==
  ASSUME IsFiniteSet(Lockers)
  PROVE  R!Spec => []RwLockSound
<1>1. R!Init => RwInv
  <2> SUFFICES ASSUME R!Init PROVE RwInv
    OBVIOUS
  <2> DEFINE v == R!Future("reader", "none")
  <2>1. /\ lock = [readers |-> 0, writer |-> FALSE, waiting_writers |-> 0, queue |-> <<>>]
        /\ locker = [l \in Lockers |-> v] /\ gap = FALSE
    BY DEF R!Init
  <2>2. v \in LockerRec /\ LockerExact(v) /\ ~Queues(v) /\ ~Reads(v) /\ ~Writes(v) /\ ~WriterQueues(v)
    <3>1. v \in LockerRec /\ LockerExact(v) /\ ~Queues(v)
      BY FreshLocker
    <3>2. ~Owns(v)
      BY DEF Owns, R!Future
    <3> QED BY <3>1, <3>2 DEF Reads, Writes, WriterQueues
  <2> HIDE DEF v
  <2>3. <<>> \in Seq(Lockers) /\ Distinct(<<>>) /\ \A x : ~Occurs(<<>>, x)
    BY DEF Distinct, Occurs
  <2>4. RwType
    BY <2>1, <2>2, <2>3 DEF RwType, LockRec
  <2>5. ReadOwners(locker) = {} /\ WriteOwners(locker) = {} /\ QueuedWriters(locker) = {}
    BY <2>1, <2>2 DEF ReadOwners, WriteOwners, QueuedWriters
  <2>6. CountsExact(lock, locker)
    BY <2>1, <2>5, FS_EmptySet DEF CountsExact
  <2>7. QueueExact(lock, locker) /\ LockersExact(locker)
    BY <2>1, <2>2, <2>3 DEF QueueExact, LockersExact
  <2> QED BY <2>1, <2>4, <2>6, <2>7 DEF RwInv, RwExact, HeadWaits
<1>2. RwInv /\ [R!Next]_(R!vars) => RwInv'
  BY RwStep
<1>3. RwInv => R!RwLockSound
  <2> SUFFICES ASSUME RwInv PROVE R!RwLockSound
    OBVIOUS
  <2>1. /\ lock \in LockRec /\ lock.queue \in Seq(Lockers) /\ Distinct(lock.queue)
        /\ lock.readers \in Nat /\ lock.writer \in BOOLEAN /\ locker \in [Lockers -> LockerRec]
    BY DEF RwInv, RwType, LockRec, RwExact, QueueExact
  <2>2. R!Owners("reader") = ReadOwners(locker) /\ R!Owners("writer") = WriteOwners(locker)
    BY DEF R!Owners, ReadOwners, WriteOwners, Reads, Writes, Owns
  <2>3. CountsExact(lock, locker)
    BY DEF RwInv, RwExact
  <2>4. \A S : S \subseteq Lockers => IsFiniteSet(S) /\ (Cardinality(S) = 0 <=> S = {})
    BY FS_Subset, FS_EmptySet
  <2>5. ReadOwners(locker) \subseteq Lockers /\ WriteOwners(locker) \subseteq Lockers
    BY DEF ReadOwners, WriteOwners
  <2>6. lock.writer = (WriteOwners(locker) # {})
    BY <2>1, <2>3, <2>4, <2>5 DEF CountsExact
  <2>7. /\ WriteOwners(locker) # {} => Cardinality(WriteOwners(locker)) = 1 /\ ReadOwners(locker) = {}
    BY <2>3, <2>4, <2>5, <2>6 DEF CountsExact
  <2>8. lock.waiting_writers = Cardinality({i \in DOMAIN lock.queue : R!IsWriter(lock.queue[i])})
    <3> DEFINE q == lock.queue
               I == {i \in DOMAIN q : R!IsWriter(q[i])}
    <3>1. DOMAIN q = 1 .. Len(q) /\ I \subseteq 1 .. Len(q)
      BY <2>1
    <3>2. {q[i] : i \in I} = QueuedWriters(locker)
      <4>1. ASSUME NEW i \in I PROVE q[i] \in QueuedWriters(locker)
        <5>1. i \in 1 .. Len(q) /\ q[i] \in Lockers /\ R!IsWriter(q[i])
          BY <2>1, <3>1
        <5>2. Queues(locker[q[i]])
          BY <5>1 DEF RwInv, RwExact, QueueExact, Occurs
        <5> QED BY <5>1, <5>2 DEF QueuedWriters, WriterQueues, R!IsWriter
      <4>2. ASSUME NEW x \in QueuedWriters(locker) PROVE \E i \in I : q[i] = x
        <5>1. x \in Lockers /\ locker[x].kind = "writer" /\ Queues(locker[x])
          BY DEF QueuedWriters, WriterQueues
        <5>2. Occurs(q, x)
          BY <5>1 DEF RwInv, RwExact, QueueExact
        <5>3. PICK i \in 1 .. Len(q) : q[i] = x
          BY <5>2 DEF Occurs
        <5> QED BY <3>1, <5>1, <5>3 DEF R!IsWriter
      <4> QED BY <4>1, <4>2
    <3> HIDE DEF I
    <3>3. Cardinality({q[i] : i \in I}) = Cardinality(I)
      BY <2>1, <3>1, PlacesCount
    <3> QED BY <2>3, <3>2, <3>3 DEF CountsExact, I
  <2>9. R!LockExclusive
    BY <2>2, <2>3, <2>6, <2>7, <2>8, RwNames DEF CountsExact, R!LockExclusive
  <2>10. lock.queue # <<>> =>
           lock.writer \/ gap \/ (R!IsWriter(Head(lock.queue)) /\ lock.readers > 0)
    BY DEF RwInv, HeadWaits, R!IsWriter
  <2>11. ASSUME NEW l \in Lockers, locker[l].phase = "parked"
         PROVE  ~locker[l].granted /\ \E i \in DOMAIN lock.queue : lock.queue[i] = l
    <3>1. LockerExact(locker[l])
      BY DEF RwInv, RwExact, LockersExact
    <3>2. ~locker[l].granted /\ Queues(locker[l])
      BY <2>11, <3>1 DEF LockerExact, Queues
    <3>3. Occurs(lock.queue, l)
      BY <3>2 DEF RwInv, RwExact, QueueExact
    <3> QED BY <2>1, <3>2, <3>3 DEF Occurs
  <2>12. R!FrontBlocked
    BY <2>10, <2>11 DEF R!FrontBlocked
  <2> QED BY <2>9, <2>12 DEF R!RwLockSound
<1> QED BY <1>1, <1>2, <1>3, PTL DEF R!Spec, RwLockSound

-----------------------------------------------------------------------------
(* The semaphore of sync/semaphore.rs, for any tasks, requests and permits: who may  *)
(* be queued or granted, the order of the grants and the account of the permits.     *)
(* Where an acquisition may be: a grant has left the queue and its future is still  *)
(* there to give it back, a queued node is linked once and its future is live, and a *)
(* parked task is within reach of a wake.                                            *)
GrantLive(t) == granted[t] => Waiting(t) /\ ~Linked(t)
NodeLive(t) == Linked(t) => Waiting(t)
WakeReaches(t) == status[t] = "parked" => Linked(t) \/ t \in waking
Placed(t) == GrantLive(t) /\ NodeLive(t) /\ WakeReaches(t)

QueueInv == TypeOK /\ Distinct(waiters) /\ \A t \in Tasks : Placed(t)

-----------------------------------------------------------------------------
(* A step that leaves the queue alone, or takes one task out of it. *)
LEMMA UnlinkedFacts ==
  ASSUME QueueInv, NEW t \in Tasks, waiters' = Unlinked(t)
  PROVE  /\ waiters' \in Seq(Tasks) /\ Distinct(waiters') /\ ~Linked(t)'
         /\ \A u \in Tasks : u # t => (Linked(u)' <=> Linked(u))
<1>1. waiters \in Seq(Tasks) /\ Distinct(waiters) /\ waiters' = Without(waiters, t)
  BY DEF QueueInv, TypeOK, Unlinked
<1>2. /\ Without(waiters, t) \in Seq(Tasks) /\ Distinct(Without(waiters, t))
      /\ ~Occurs(Without(waiters, t), t)
      /\ \A v : v # t => (Occurs(Without(waiters, t), v) <=> Occurs(waiters, v))
  BY <1>1, WithoutFacts
<1>3. waiters' \in Seq(Tasks) /\ Distinct(waiters') /\ ~Occurs(waiters', t)
      /\ \A v : v # t => (Occurs(waiters', v) <=> Occurs(waiters, v))
  BY <1>1, <1>2
<1> QED BY <1>3 DEF Linked

(* Release brings permits back without passing the largest count. *)
LEMMA ReleaseType ==
  ASSUME TypeOK, NEW n \in Nat, Release(n)
  PROVE  permits' \in 0 .. UsizeMax /\ releasing' = TRUE
  BY CountsNat DEF TypeOK, Release, Saturated

(* acquire_many and try_acquire_many leave the queue alone, and so does add_permits. *)
LEMMA AddStep ==
  ASSUME QueueInv, NEW n \in Requests, AddPermits(n)
  PROVE  QueueInv'
<1>1. n \in Nat
  BY RequestsPositive
<1>2. permits' \in 0 .. UsizeMax /\ releasing' = TRUE
  BY <1>1, ReleaseType DEF QueueInv, AddPermits
<1>3. TypeOK'
  BY <1>1, <1>2 DEF QueueInv, TypeOK, AddPermits
<1> QED BY <1>3 DEF QueueInv, AddPermits, Placed, GrantLive, NodeLive, WakeReaches, Linked, Waiting

LEMMA RequestStep ==
  ASSUME QueueInv, NEW t \in Tasks, NEW n \in Requests, Acquire(t, n) \/ TryAcquire(t, n)
  PROVE  QueueInv'
<1>0. n \in Nat /\ UsizeMax \in Nat
  BY RequestsPositive, CountsNat
<1>1. TypeOK'
  <2>1. CASE Acquire(t, n)
    BY <1>0, <2>1 DEF QueueInv, TypeOK, Acquire, counters
  <2>2. CASE TryAcquire(t, n)
    BY <1>0, <2>2 DEF QueueInv, TypeOK, TryAcquire, counters
  <2> QED BY <2>1, <2>2
<1>2. Distinct(waiters')
  BY DEF QueueInv, Acquire, TryAcquire
<1>3. ASSUME NEW u \in Tasks PROVE Placed(u)'
  <2>1. Placed(u) /\ status[u] \in {"none", "ready", "parked", "holder"}
    BY DEF QueueInv, TypeOK
  <2>2. UNCHANGED <<waiters, granted, waking>>
    BY DEF Acquire, TryAcquire
  <2>3. status'[u] = status[u] \/ (status[u] = "none" /\ status'[u] \in {"ready", "holder"})
    BY <2>1 DEF QueueInv, TypeOK, Acquire, TryAcquire
  <2> QED BY <2>1, <2>2, <2>3 DEF Placed, GrantLive, NodeLive, WakeReaches, Linked, Waiting
<1> QED BY <1>1, <1>2, <1>3 DEF QueueInv

(* A poll turns a grant into a permit, takes free ones, or queues its task once. *)
LEMMA PollStep ==
  ASSUME QueueInv, NEW t \in Tasks, PollAcquire(t)
  PROVE  QueueInv'
<1> USE DEF PollAcquire
<1>0. /\ UNCHANGED <<closed, releasing, want, waking, added, forgotten>> /\ status[t] = "ready"
      /\ TypeOK /\ Distinct(waiters) /\ \A u \in Tasks : Placed(u)
  BY DEF counters, QueueInv
<1>1. CASE granted[t]
  <2>1. granted' = [granted EXCEPT ![t] = FALSE] /\ status' = [status EXCEPT ![t] = "holder"]
        /\ UNCHANGED <<permits, waiters>>
    BY <1>1
  <2>2. TypeOK'
    BY <1>0, <2>1 DEF TypeOK
  <2>3. \A u \in Tasks : Placed(u)'
    BY <1>0, <1>1, <2>1 DEF TypeOK, Placed, GrantLive, NodeLive, WakeReaches, Linked, Waiting
  <2> QED BY <1>0, <2>1, <2>2, <2>3 DEF QueueInv
<1>2. CASE ~granted[t] /\ closed
  <2>1. waiters' = Unlinked(t) /\ status' = [status EXCEPT ![t] = "none"]
        /\ UNCHANGED <<permits, granted>>
    BY <1>2
  <2>2. /\ waiters' \in Seq(Tasks) /\ Distinct(waiters') /\ ~Linked(t)'
        /\ \A u \in Tasks : u # t => (Linked(u)' <=> Linked(u))
    BY <2>1, UnlinkedFacts
  <2>3. TypeOK'
    BY <1>0, <2>1, <2>2 DEF TypeOK
  <2>4. \A u \in Tasks : Placed(u)'
    BY <1>0, <1>2, <2>1, <2>2 DEF TypeOK, Placed, GrantLive, NodeLive, WakeReaches, Waiting
  <2> QED BY <2>2, <2>3, <2>4 DEF QueueInv
<1>3. CASE ~granted[t] /\ ~closed /\ MayTake(t)
  <2>1. permits' = permits - want[t] /\ status' = [status EXCEPT ![t] = "holder"]
        /\ UNCHANGED <<waiters, granted>> /\ permits >= want[t] /\ ~Linked(t)
    BY <1>3 DEF MayTake
  <2>2. TypeOK'
    BY <1>0, <2>1, CountsNat DEF TypeOK
  <2>3. \A u \in Tasks : Placed(u)'
    BY <1>0, <1>3, <2>1 DEF TypeOK, Placed, GrantLive, NodeLive, WakeReaches, Linked, Waiting
  <2> QED BY <1>0, <2>1, <2>2, <2>3 DEF QueueInv
<1>4. CASE ~granted[t] /\ ~closed /\ ~MayTake(t)
  <2>1. /\ waiters' = IF Linked(t) THEN waiters ELSE Append(waiters, t)
        /\ status' = [status EXCEPT ![t] = "parked"] /\ UNCHANGED <<permits, granted>>
    BY <1>4
  <2>2. waiters \in Seq(Tasks)
    BY <1>0 DEF TypeOK
  <2>3. /\ waiters' \in Seq(Tasks) /\ Distinct(waiters') /\ Linked(t)'
        /\ \A u \in Tasks : u # t => (Linked(u)' <=> Linked(u))
    <3>1. CASE Linked(t)
      BY <1>0, <2>1, <2>2, <3>1 DEF Linked
    <3>2. CASE ~Linked(t)
      <4>1. /\ Append(waiters, t) \in Seq(Tasks) /\ Distinct(Append(waiters, t))
            /\ \A v : Occurs(Append(waiters, t), v) <=> Occurs(waiters, v) \/ v = t
        BY <1>0, <2>2, <3>2, AppendFacts DEF Linked
      <4>2. waiters' = Append(waiters, t)
        BY <2>1, <3>2
      <4> QED BY <4>1, <4>2 DEF Linked
    <3> QED BY <3>1, <3>2
  <2>4. TypeOK'
    BY <1>0, <2>1, <2>3 DEF TypeOK
  <2>5. \A u \in Tasks : Placed(u)'
    BY <1>0, <1>4, <2>1, <2>3 DEF TypeOK, Placed, GrantLive, NodeLive, WakeReaches, Waiting
  <2> QED BY <2>3, <2>4, <2>5 DEF QueueInv
<1> QED BY <1>1, <1>2, <1>3, <1>4

(* A dropped future is unlinked and has no grant any more. *)
LEMMA DropStep ==
  ASSUME QueueInv, NEW t \in Tasks, DropAcquire(t)
  PROVE  QueueInv'
<1>1. /\ waiters' \in Seq(Tasks) /\ Distinct(waiters') /\ ~Linked(t)'
      /\ \A u \in Tasks : u # t => (Linked(u)' <=> Linked(u))
  BY UnlinkedFacts DEF DropAcquire
<1>2. permits' \in 0 .. UsizeMax /\ releasing' \in BOOLEAN
  <2>1. TypeOK /\ want[t] \in Nat
    BY DEF QueueInv, TypeOK
  <2>2. CASE DropGivesBack(t)
    BY <2>1, <2>2, ReleaseType DEF DropAcquire
  <2>3. CASE ~DropGivesBack(t)
    BY <2>1, <2>3 DEF DropAcquire, TypeOK
  <2> QED BY <2>2, <2>3
<1>3. TypeOK'
  BY <1>1, <1>2 DEF QueueInv, TypeOK, DropAcquire, counters
<1>4. \A u \in Tasks : Placed(u)'
  BY <1>1 DEF QueueInv, TypeOK, DropAcquire, Placed, GrantLive, NodeLive, WakeReaches, Waiting
<1> QED BY <1>1, <1>3, <1>4 DEF QueueInv

(* Permits given back, forgotten, and a poll or a wake: nobody's place in the queue changes. *)
LEMMA StatusStep ==
  ASSUME QueueInv, NEW t \in Tasks, DropPermit(t) \/ Forget(t) \/ SpuriousPoll(t) \/ Wake(t)
  PROVE  QueueInv'
<1>0. TypeOK /\ want[t] \in Nat
  BY DEF QueueInv, TypeOK
<1>1. TypeOK'
  <2>1. CASE DropPermit(t)
    BY <1>0, <2>1, ReleaseType DEF TypeOK, DropPermit, counters
  <2>2. CASE Forget(t)
    BY <1>0, <2>2 DEF TypeOK, Forget
  <2>3. CASE SpuriousPoll(t)
    BY <1>0, <2>3 DEF TypeOK, SpuriousPoll, counters
  <2>4. CASE Wake(t)
    BY <1>0, <2>4 DEF TypeOK, Wake, counters
  <2> QED BY <2>1, <2>2, <2>3, <2>4
<1>2. UNCHANGED <<waiters, granted>>
  BY DEF DropPermit, Forget, SpuriousPoll, Wake
<1>3. ASSUME NEW u \in Tasks PROVE Placed(u)'
  <2>1. Placed(u)
    BY DEF QueueInv
  <2>2. \/ status'[u] = status[u] /\ (u \in waking => u \in waking' \/ status[u] # "parked")
        \/ status[u] = "parked" /\ status'[u] = "ready"
        \/ status[u] = "holder" /\ status'[u] = "none"
    BY <1>0 DEF TypeOK, DropPermit, Forget, SpuriousPoll, Wake
  <2> QED BY <1>2, <2>1, <2>2 DEF Placed, GrantLive, NodeLive, WakeReaches, Linked, Waiting
<1> QED BY <1>1, <1>2, <1>3 DEF QueueInv

(* The grant loop takes the head out of the queue and has its wake to make. *)
LEMMA GrantStep ==
  ASSUME QueueInv, GrantNext
  PROVE  QueueInv' /\ Head(waiters) \in Tasks /\ ~granted[Head(waiters)] /\ want[Head(waiters)] <= permits
<1> DEFINE t == Head(waiters)
<1>1. waiters \in Seq(Tasks) /\ waiters # <<>> /\ Distinct(waiters) /\ TypeOK
  BY DEF QueueInv, TypeOK, GrantNext, Grants
<1>2. /\ Tail(waiters) \in Seq(Tasks) /\ t \in Tasks
      /\ \A v : Occurs(waiters, v) <=> Occurs(Tail(waiters), v) \/ v = t
      /\ ~Occurs(Tail(waiters), t) /\ Distinct(Tail(waiters))
  BY <1>1, TailFacts
<1>3. /\ granted' = [granted EXCEPT ![t] = TRUE] /\ waking' = waking \cup {t} /\ waiters' = Tail(waiters)
      /\ permits' = permits - want[t] /\ want[t] <= permits
      /\ UNCHANGED <<closed, releasing, status, want, added, forgotten>>
  BY DEF GrantNext, Grants, counters
<1> HIDE DEF t
<1>4. TypeOK'
  BY <1>1, <1>2, <1>3, CountsNat DEF TypeOK
<1>5. \A u \in Tasks : Linked(u)' <=> Linked(u) /\ u # t
  BY <1>2, <1>3 DEF Linked
<1>6. \A u \in Tasks : Placed(u)'
  BY <1>1, <1>2, <1>3, <1>5 DEF QueueInv, TypeOK, Placed, GrantLive, NodeLive, WakeReaches, Linked, Waiting
<1>7. ~granted[t]
  BY <1>2 DEF QueueInv, Placed, GrantLive, Linked
<1> QED BY <1>2, <1>3, <1>4, <1>6, <1>7 DEF QueueInv, t

(* close wakes everyone it throws out. *)
LEMMA CloseStep ==
  ASSUME QueueInv, Close
  PROVE  QueueInv'
<1>1. waiters' = <<>> /\ <<>> \in Seq(Tasks) /\ \A u : ~Occurs(<<>>, u)
  BY DEF Close, Occurs
<1>2. Distinct(waiters')
  BY <1>1 DEF Distinct
<1>3. TypeOK'
  BY <1>1 DEF QueueInv, TypeOK, Close, counters
<1>4. \A u \in Tasks : ~Linked(u)'
  BY <1>1 DEF Linked
<1>5. \A u \in Tasks : Placed(u)'
  BY <1>4 DEF QueueInv, TypeOK, Close, Placed, GrantLive, NodeLive, WakeReaches, Waiting
<1> QED BY <1>2, <1>3, <1>5 DEF QueueInv

LEMMA QueueInvariance == QueueInv /\ [Next]_vars => QueueInv'
<1> SUFFICES ASSUME QueueInv, [Next]_vars PROVE QueueInv'
  OBVIOUS
<1>1. CASE UNCHANGED vars
  BY <1>1 DEF vars, QueueInv, TypeOK, Placed, GrantLive, NodeLive, WakeReaches, Linked, Waiting
<1>2. CASE EndRelease
  BY <1>2 DEF EndRelease, counters, QueueInv, TypeOK, Placed, GrantLive, NodeLive, WakeReaches, Linked, Waiting
<1>3. CASE GrantNext
  BY <1>3, GrantStep
<1>4. CASE Close
  BY <1>4, CloseStep
<1>5. ASSUME NEW t \in Tasks, Wake(t) \/ DropPermit(t) \/ Forget(t) \/ SpuriousPoll(t) PROVE QueueInv'
  BY <1>5, StatusStep
<1>6. ASSUME NEW t \in Tasks, PollAcquire(t) \/ DropAcquire(t) PROVE QueueInv'
  BY <1>6, PollStep, DropStep
<1>7. ASSUME NEW n \in Requests, NEW t \in Tasks, Acquire(t, n) \/ TryAcquire(t, n) PROVE QueueInv'
  BY <1>7, RequestStep
<1>8. ASSUME NEW n \in Requests, AddPermits(n) PROVE QueueInv'
  BY <1>8, AddStep
<1> QED BY <1>1, <1>2, <1>3, <1>4, <1>5, <1>6, <1>7, <1>8 DEF Next, ReleaseStep
LEMMA InitQueueInv == Init => QueueInv
<1> SUFFICES ASSUME Init PROVE QueueInv
  OBVIOUS
<1>1. permits \in 0 .. UsizeMax /\ added \in Nat /\ forgotten \in Nat
  BY CountsNat DEF Init
<1>2. waiters \in Seq(Tasks) /\ Distinct(waiters) /\ \A t : ~Occurs(waiters, t)
  BY DEF Init, Distinct, Occurs
<1>3. status \in [Tasks -> {"none", "ready", "parked", "holder"}] /\ \A t \in Tasks : status[t] = "none"
  BY DEF Init
<1>4. want \in [Tasks -> Nat] /\ granted \in [Tasks -> BOOLEAN] /\ \A t \in Tasks : ~granted[t]
  BY DEF Init
<1>5. TypeOK
  BY <1>1, <1>2, <1>3, <1>4 DEF Init, TypeOK
<1>6. \A t \in Tasks : Placed(t)
  BY <1>2, <1>3, <1>4 DEF Placed, GrantLive, NodeLive, WakeReaches, Linked
<1> QED BY <1>2, <1>5, <1>6 DEF QueueInv

(* A task linked once has at most one place in the queue. *)
LEMMA QueueInvImplies == QueueInv => WaitersAccounted
<1> SUFFICES ASSUME QueueInv, NEW t \in Tasks
             PROVE  /\ granted[t] => Waiting(t) /\ ~Linked(t)
                    /\ Linked(t) => Waiting(t)
                    /\ status[t] = "parked" => Linked(t) \/ t \in waking
                    /\ Cardinality({i \in 1 .. Len(waiters) : waiters[i] = t}) <= 1
  BY DEF WaitersAccounted
<1> DEFINE at == {i \in 1 .. Len(waiters) : waiters[i] = t}
<1>1. \A i, j \in at : i = j
  BY DEF QueueInv, Distinct
<1> HIDE DEF at
<1>2. Cardinality(at) <= 1
  <2>1. CASE at = {}
    <3>1. Cardinality(at) = 0
      BY <2>1, FS_EmptySet
    <3> QED BY <3>1
  <2>2. CASE at # {}
    <3>1. PICK i \in at : at = {i}
      BY <1>1, <2>2
    <3>2. Cardinality(at) = 1
      BY <3>1, FS_Singleton
    <3> QED BY <3>2
  <2> QED BY <2>1, <2>2
<1> QED BY <1>2 DEF QueueInv, Placed, GrantLive, NodeLive, WakeReaches, at

-----------------------------------------------------------------------------
(* GrantsInOrder: permits go to the waiters in the order of the queue, and nobody    *)
(* takes any past a queue that is not empty, whatever the sizes of the requests       *)
(* (release_locked, Acquire::poll, try_acquire_many).                                 *)
THEOREM GrantsInOrder == Spec => Fifo
<1>1. Init => QueueInv
  BY InitQueueInv
<1>2. QueueInv /\ [Next]_vars => QueueInv'
  BY QueueInvariance
<1>3. QueueInv /\ [Next]_vars => [FifoStep]_vars
  <2> SUFFICES ASSUME QueueInv, Next PROVE FifoStep
    OBVIOUS
  <2> DEFINE Served == \A u \in Tasks : granted'[u] => granted[u] \/ (waiters # <<>> /\ u = waiters[1])
             Taken == \A u \in Tasks : status'[u] = "holder" => waiters = <<>> \/ status[u] = "holder" \/ granted[u]
  <2>1. waiters \in Seq(Tasks) /\ granted \in [Tasks -> BOOLEAN] /\ Len(waiters) \in Nat
        /\ status \in [Tasks -> {"none", "ready", "parked", "holder"}]
    BY DEF QueueInv, TypeOK
  <2>2. Served /\ Taken
    <3>1. CASE GrantNext
      <4>1. Head(waiters) = waiters[1] /\ waiters # <<>>
        BY <2>1, <3>1 DEF GrantNext, Grants
      <4> QED BY <2>1, <3>1, <4>1 DEF GrantNext
    <3>2. CASE EndRelease \/ Close
      BY <3>2 DEF EndRelease, Close
    <3>3. ASSUME NEW t \in Tasks, PollAcquire(t) PROVE Served /\ Taken
      BY <2>1, <3>3 DEF PollAcquire, MayTake
    <3>4. ASSUME NEW t \in Tasks, DropAcquire(t) PROVE Served /\ Taken
      BY <2>1, <3>4 DEF DropAcquire
    <3>5. ASSUME NEW t \in Tasks, Wake(t) \/ DropPermit(t) \/ Forget(t) \/ SpuriousPoll(t) PROVE Served /\ Taken
      BY <2>1, <3>5 DEF Wake, DropPermit, Forget, SpuriousPoll
    <3>6. ASSUME NEW n \in Requests, NEW t \in Tasks, Acquire(t, n) \/ TryAcquire(t, n) PROVE Served /\ Taken
      BY <2>1, <3>6 DEF Acquire, TryAcquire
    <3>7. ASSUME NEW n \in Requests, AddPermits(n) PROVE Served /\ Taken
      BY <3>7 DEF AddPermits
    <3> HIDE DEF Served, Taken
    <3> QED BY <3>1, <3>2, <3>3, <3>4, <3>5, <3>6, <3>7 DEF Next, ReleaseStep
  <2>3. \A j \in 1 .. Len(waiters) : waiters[j] \in Tasks /\ ~granted[waiters[j]]
    BY <2>1 DEF QueueInv, Placed, GrantLive, Linked, Occurs
  <2>4. \A j \in 1 .. Len(waiters) : granted'[waiters[j]] => j = 1
    BY <2>1, <2>2, <2>3 DEF QueueInv, Distinct
  <2>5. waiters # <<>> => \A t \in Tasks : status'[t] = "holder" => status[t] = "holder" \/ granted[t]
    BY <2>2
  <2> QED BY <2>1, <2>4, <2>5 DEF FifoStep
<1> QED BY <1>1, <1>2, <1>3, PTL DEF Spec, Fifo

-----------------------------------------------------------------------------
(* The account of the permits, in the cardinalities of sets of permits. *)

(* One owner more with n permits. *)
LEMMA OwnerAdded ==
  ASSUME NEW S, IsFiniteSet(S), NEW t, NEW n \in Nat, \A k : <<t, k>> \notin S
  PROVE  /\ IsFiniteSet(S \cup ({t} \X (1 .. n)))
         /\ Cardinality(S \cup ({t} \X (1 .. n))) = Cardinality(S) + n
<1> DEFINE T == {t} \X (1 .. n)
           f == [k \in 1 .. n |-> <<t, k>>]
<1>1. IsFiniteSet(1 .. n) /\ Cardinality(1 .. n) = n
  BY FS_Interval
<1>2. f \in Bijection(1 .. n, T)
  <2>1. f \in [1 .. n -> T]
    OBVIOUS
  <2>2. \A j, k \in 1 .. n : f[j] = f[k] => j = k
    OBVIOUS
  <2>3. \A p \in T : \E k \in 1 .. n : f[k] = p
    OBVIOUS
  <2> HIDE DEF f, T
  <2> QED BY <2>1, <2>2, <2>3 DEF Bijection, Injection, Surjection, IsInjective
<1>3. ExistsBijection(1 .. n, T)
  BY <1>2 DEF ExistsBijection
<1>4. IsFiniteSet(T) /\ Cardinality(T) = n
  BY <1>1, <1>3, FS_Bijection
<1>5. S \cap T = {}
  OBVIOUS
<1> HIDE DEF T
<1>6. IsFiniteSet(S \cup T) /\ Cardinality(S \cup T) = Cardinality(S) + Cardinality(T) - Cardinality(S \cap T)
  BY <1>4, FS_Union
<1>7. Cardinality(S) \in Nat /\ Cardinality(S \cap T) = 0
  BY <1>5, FS_CardinalityType, FS_EmptySet
<1> QED BY <1>4, <1>6, <1>7 DEF T

OutOf(O, w) == UNION {{t} \X (1 .. w[t]) : t \in O}

LEMMA OwnerJoins ==
  ASSUME NEW O, NEW w, IsFiniteSet(OutOf(O, w)), NEW t, t \notin O,
         NEW v, \A u \in O : v[u] = w[u], v[t] \in Nat
  PROVE  /\ IsFiniteSet(OutOf(O \cup {t}, v))
         /\ Cardinality(OutOf(O \cup {t}, v)) = Cardinality(OutOf(O, w)) + v[t]
<1> DEFINE S == OutOf(O, w)
<1>1. OutOf(O \cup {t}, v) = S \cup ({t} \X (1 .. v[t]))
  BY DEF OutOf
<1>2. \A k : <<t, k>> \notin S
  BY DEF OutOf
<1> HIDE DEF S
<1>3. IsFiniteSet(S)
  BY DEF S
<1>4. /\ IsFiniteSet(S \cup ({t} \X (1 .. v[t])))
      /\ Cardinality(S \cup ({t} \X (1 .. v[t]))) = Cardinality(S) + v[t]
  BY <1>2, <1>3, OwnerAdded
<1> QED BY <1>1, <1>4 DEF S

LEMMA OwnerLeaves ==
  ASSUME NEW O, NEW w, IsFiniteSet(OutOf(O, w)), NEW t \in O, w[t] \in Nat
  PROVE  /\ IsFiniteSet(OutOf(O \ {t}, w)) /\ Cardinality(OutOf(O \ {t}, w)) \in Nat
         /\ Cardinality(OutOf(O, w)) = Cardinality(OutOf(O \ {t}, w)) + w[t]
<1> DEFINE Rem == O \ {t}
<1>1. OutOf(Rem, w) \subseteq OutOf(O, w)
  BY DEF OutOf
<1>2. IsFiniteSet(OutOf(Rem, w)) /\ Cardinality(OutOf(Rem, w)) \in Nat
  BY <1>1, FS_Subset, FS_CardinalityType
<1>3. O = Rem \cup {t} /\ t \notin Rem
  OBVIOUS
<1> HIDE DEF Rem
<1>4. Cardinality(OutOf(Rem \cup {t}, w)) = Cardinality(OutOf(Rem, w)) + w[t]
  BY <1>2, <1>3, OwnerJoins
<1> QED BY <1>2, <1>3, <1>4 DEF Rem

(* The three things a step does to the owners. *)
Same == Owned' = Owned /\ \A u \in Owned : want'[u] = want[u]
Joins(t) == t \notin Owned /\ Owned' = Owned \cup {t} /\ want'[t] \in Nat /\ \A u \in Owned : want'[u] = want[u]
Leaves(t) == t \in Owned /\ Owned' = Owned \ {t} /\ want' = want /\ want[t] \in Nat

Out == Cardinality(PermitsOut)

LEMMA OutSteps ==
  ASSUME IsFiniteSet(PermitsOut)
  PROVE  /\ Out \in Nat
         /\ Same => IsFiniteSet(PermitsOut') /\ Out' = Out
         /\ \A t : Joins(t) => IsFiniteSet(PermitsOut') /\ Out' = Out + want'[t]
         /\ \A t : Leaves(t) => IsFiniteSet(PermitsOut') /\ Out' \in Nat /\ Out = Out' + want[t]
<1>1. PermitsOut = OutOf(Owned, want) /\ PermitsOut' = OutOf(Owned', want')
  BY DEF PermitsOut, OutOf
<1>2. Out = Cardinality(OutOf(Owned, want)) /\ Out' = Cardinality(OutOf(Owned', want')) /\ IsFiniteSet(OutOf(Owned, want))
  BY <1>1 DEF Out
<1>3. Out \in Nat
  BY <1>2, FS_CardinalityType
<1>4. Same => OutOf(Owned', want') = OutOf(Owned, want)
  BY DEF Same, OutOf
<1>5. ASSUME NEW t, Joins(t) PROVE IsFiniteSet(PermitsOut') /\ Out' = Out + want'[t]
  BY <1>1, <1>2, <1>5, OwnerJoins DEF Joins
<1>6. ASSUME NEW t, Leaves(t) PROVE IsFiniteSet(PermitsOut') /\ Out' \in Nat /\ Out = Out' + want[t]
  BY <1>1, <1>2, <1>6, OwnerLeaves DEF Leaves
<1> QED BY <1>1, <1>2, <1>3, <1>4, <1>5, <1>6

Accounted == IsFiniteSet(PermitsOut) /\ permits + forgotten + Out = Initial + added /\ added <= MaxAdded
Fits == Initial + MaxAdded <= UsizeMax

(* A step on the permits of t: taken from the free ones, given back, or forgotten. *)
LEMMA AccountTaken ==
  ASSUME TypeOK, Accounted, NEW t, Joins(t), permits' = permits - want'[t], UNCHANGED counters
  PROVE  Accounted'
<1>1. permits \in Nat /\ forgotten \in Nat /\ added \in Nat /\ Initial \in Nat /\ want'[t] \in Nat
  BY CountsNat DEF TypeOK, Joins
<1>2. Out \in Nat /\ IsFiniteSet(PermitsOut') /\ Out' = Out + want'[t]
  BY OutSteps DEF Accounted
<1>3. permits + forgotten + Out = Initial + added /\ added <= MaxAdded
  BY DEF Accounted
<1>4. permits' = permits - want'[t] /\ forgotten' = forgotten /\ added' = added
  BY DEF counters
<1>5. permits' + forgotten' + Out' = Initial + added' /\ added' <= MaxAdded
  BY <1>1, <1>2, <1>3, <1>4
<1> QED BY <1>2, <1>5 DEF Accounted

LEMMA AccountGivenBack ==
  ASSUME TypeOK, Accounted, Fits, NEW t, Leaves(t), Release(want[t]), UNCHANGED counters
  PROVE  Accounted'
<1>1. permits \in Nat /\ forgotten \in Nat /\ added \in Nat /\ {Initial, MaxAdded, UsizeMax} \subseteq Nat /\ want[t] \in Nat
  BY CountsNat DEF TypeOK, Leaves
<1>2. Out \in Nat /\ Out' \in Nat /\ IsFiniteSet(PermitsOut') /\ Out = Out' + want[t]
  BY OutSteps DEF Accounted
<1>3. permits + forgotten + Out = Initial + added /\ added <= MaxAdded
  BY DEF Accounted
<1>4. permits + want[t] <= UsizeMax
  BY <1>1, <1>2, <1>3 DEF Fits
<1>5. permits' = permits + want[t] /\ forgotten' = forgotten /\ added' = added
  BY <1>1, <1>4 DEF counters, Release, Saturated
<1>6. permits' + forgotten' + Out' = Initial + added' /\ added' <= MaxAdded
  BY <1>1, <1>2, <1>3, <1>5
<1> QED BY <1>2, <1>6 DEF Accounted

LEMMA AccountSame ==
  ASSUME Accounted, Same, UNCHANGED <<permits, counters>>
  PROVE  Accounted'
<1>1. IsFiniteSet(PermitsOut') /\ Out' = Out
  BY OutSteps DEF Accounted
<1> QED BY <1>1 DEF Accounted, counters

LEMMA AccountStep ==
  ASSUME QueueInv, Accounted, Fits, [Next]_vars
  PROVE  Accounted'
<1>0. TypeOK /\ granted \in [Tasks -> BOOLEAN] /\ want \in [Tasks -> Nat]
      /\ status \in [Tasks -> {"none", "ready", "parked", "holder"}]
      /\ {Initial, MaxAdded, UsizeMax} \subseteq Nat
      /\ permits \in Nat /\ forgotten \in Nat /\ added \in Nat
  BY CountsNat DEF QueueInv, TypeOK
<1>1. \A t \in Tasks : (status[t] \in {"none", "holder"} => ~granted[t]) /\ (granted[t] => ~Linked(t))
  BY DEF QueueInv, Placed, GrantLive, Waiting
<1>2. CASE UNCHANGED vars \/ EndRelease \/ Close
  <2>1. Same /\ UNCHANGED <<permits, counters>>
    BY <1>2 DEF Same, Owned, vars, counters, EndRelease, Close
  <2> QED BY <2>1, AccountSame
<1>3. ASSUME NEW t \in Tasks, Wake(t) \/ SpuriousPoll(t) PROVE Accounted'
  <2>1. Same /\ UNCHANGED <<permits, counters>>
    BY <1>0, <1>3 DEF Same, Owned, Wake, SpuriousPoll
  <2> QED BY <2>1, AccountSame
<1>4. CASE GrantNext
  <2>1. Head(waiters) \in Tasks /\ ~granted[Head(waiters)]
    BY <1>4, GrantStep
  <2>2. Linked(Head(waiters))
    <3>1. Head(waiters) = waiters[1] /\ 1 \in 1 .. Len(waiters)
      BY <1>4 DEF QueueInv, TypeOK, GrantNext, Grants
    <3> QED BY <3>1 DEF Linked, Occurs
  <2>3. status[Head(waiters)] # "holder"
    BY <2>1, <2>2 DEF QueueInv, Placed, NodeLive, Waiting
  <2>4. Joins(Head(waiters)) /\ permits' = permits - want'[Head(waiters)] /\ UNCHANGED counters
    BY <1>0, <1>4, <2>1, <2>3 DEF GrantNext, Joins, Owned
  <2> QED BY <1>0, <2>4, AccountTaken
<1>5. ASSUME NEW t \in Tasks, PollAcquire(t) PROVE Accounted'
  <2> USE DEF PollAcquire
  <2>1. CASE granted[t]
    <3>1. Same /\ UNCHANGED <<permits, counters>>
      BY <1>0, <1>5, <2>1 DEF Same, Owned
    <3> QED BY <3>1, AccountSame
  <2>2. CASE ~granted[t] /\ (closed \/ ~MayTake(t))
    <3>1. Same /\ UNCHANGED <<permits, counters>>
      BY <1>0, <1>5, <2>2 DEF Same, Owned
    <3> QED BY <3>1, AccountSame
  <2>3. CASE ~granted[t] /\ ~closed /\ MayTake(t)
    <3>1. Joins(t) /\ permits' = permits - want'[t] /\ UNCHANGED counters
      BY <1>0, <1>5, <2>3 DEF Joins, Owned
    <3> QED BY <1>0, <3>1, AccountTaken
  <2> QED BY <2>1, <2>2, <2>3
<1>6. ASSUME NEW t \in Tasks, DropAcquire(t) PROVE Accounted'
  <2> USE DEF DropAcquire
  <2>1. CASE granted[t]
    <3>1. DropGivesBack(t)
      BY <1>1, <2>1 DEF DropGivesBack
    <3>2. Leaves(t)
      BY <1>0, <1>6, <2>1 DEF Leaves, Owned
    <3>3. Release(want[t]) /\ UNCHANGED counters
      BY <1>6, <3>1
    <3> QED BY <1>0, <3>2, <3>3, AccountGivenBack
  <2>2. CASE ~granted[t]
    <3>1. Same /\ UNCHANGED <<permits, counters>>
      BY <1>0, <1>6, <2>2 DEF Same, Owned, DropGivesBack, Waiting
    <3> QED BY <3>1, AccountSame
  <2> QED BY <2>1, <2>2
<1>7. ASSUME NEW t \in Tasks, DropPermit(t) PROVE Accounted'
  <2>1. Leaves(t) /\ Release(want[t]) /\ UNCHANGED counters
    BY <1>0, <1>1, <1>7 DEF DropPermit, Leaves, Owned
  <2> QED BY <1>0, <2>1, AccountGivenBack
<1>8. ASSUME NEW t \in Tasks, Forget(t) PROVE Accounted'
  <2>1. Leaves(t)
    BY <1>0, <1>1, <1>8 DEF Forget, Leaves, Owned
  <2>2. Out \in Nat /\ Out' \in Nat /\ IsFiniteSet(PermitsOut') /\ Out = Out' + want[t]
    BY <2>1, OutSteps DEF Accounted
  <2>3. permits' = permits /\ forgotten' = forgotten + want[t] /\ added' = added /\ want[t] \in Nat
    BY <1>0, <1>8 DEF Forget
  <2>4. permits + forgotten + Out = Initial + added /\ added <= MaxAdded
    BY DEF Accounted
  <2>5. permits' + forgotten' + Out' = Initial + added' /\ added' <= MaxAdded
    BY <1>0, <2>2, <2>3, <2>4
  <2> QED BY <2>2, <2>5 DEF Accounted
<1>9. ASSUME NEW n \in Requests, AddPermits(n) PROVE Accounted'
  <2>1. Same
    BY <1>9 DEF AddPermits, Same, Owned
  <2>2. Out \in Nat /\ IsFiniteSet(PermitsOut') /\ Out' = Out
    BY <2>1, OutSteps DEF Accounted
  <2>3. n \in Nat /\ added + n <= MaxAdded /\ added' = added + n /\ forgotten' = forgotten
    BY <1>9, RequestsPositive DEF AddPermits
  <2>4. permits + forgotten + Out = Initial + added
    BY DEF Accounted
  <2>5. permits + n <= UsizeMax
    BY <1>0, <2>2, <2>3, <2>4 DEF Fits
  <2>6. permits' = permits + n
    BY <1>0, <1>9, <2>3, <2>5 DEF AddPermits, Release, Saturated
  <2>7. permits' + forgotten' + Out' = Initial + added' /\ added' <= MaxAdded
    BY <1>0, <2>2, <2>3, <2>4, <2>6
  <2> QED BY <2>2, <2>7 DEF Accounted
<1>10. ASSUME NEW n \in Requests, NEW t \in Tasks, Acquire(t, n) PROVE Accounted'
  <2>1. Same /\ UNCHANGED <<permits, counters>>
    BY <1>0, <1>1, <1>10 DEF Acquire, Same, Owned
  <2> QED BY <2>1, AccountSame
<1>11. ASSUME NEW n \in Requests, NEW t \in Tasks, TryAcquire(t, n) PROVE Accounted'
  <2>1. n \in Nat
    BY RequestsPositive
  <2>2. Joins(t) /\ permits' = permits - want'[t] /\ UNCHANGED counters
    BY <1>0, <1>1, <1>11, <2>1 DEF TryAcquire, Joins, Owned
  <2> QED BY <1>0, <2>2, AccountTaken
<1> QED BY <1>2, <1>3, <1>4, <1>5, <1>6, <1>7, <1>8, <1>9, <1>10, <1>11 DEF Next, ReleaseStep

-----------------------------------------------------------------------------
(* PermitsAreAccounted: as long as the count cannot saturate, no permit is lost or     *)
(* made whatever is dropped, closed, forgotten or added in between, and no waiter is    *)
(* forgotten, for any tasks and sizes of requests (release_locked, Acquire::drop).     *)
THEOREM PermitsAreAccounted ==
  ASSUME Fits
  PROVE  Spec => []PermitsAccounted
<1>1. Init => QueueInv /\ Accounted
  <2> SUFFICES ASSUME Init PROVE Accounted
    BY InitQueueInv
  <2>1. PermitsOut = {}
    BY DEF Init, PermitsOut, Owned
  <2>2. IsFiniteSet(PermitsOut) /\ Out = 0
    BY <2>1, FS_EmptySet DEF Out
  <2> QED BY <2>2, CountsNat DEF Init, Accounted
<1>2. QueueInv /\ Accounted /\ [Next]_vars => (QueueInv /\ Accounted)'
  BY QueueInvariance, AccountStep
<1>3. QueueInv /\ Accounted => PermitsAccounted
  BY QueueInvImplies DEF PermitsAccounted, PermitsConserved, Accounted, Out
<1> QED BY <1>1, <1>2, <1>3, PTL DEF Spec

-----------------------------------------------------------------------------
(* The Mutex of sync/mutex.rs: a semaphore of one permit. *)

(* What a lock acquisition is worth and where it may be.  A queued task occurs   *)
(* once and is live, so the grant loop never grants a task twice and a dropped   *)
(* future never leaves its node behind; a grant leaves the queue, so dropping    *)
(* the future always gives the permit back.                                      *)
OneEach == \A t \in Tasks : status[t] # "none" => want[t] = 1
GrantsLive == \A t \in Tasks : granted[t] => Waiting(t) /\ ~Linked(t)
QueueLive == \A i \in 1 .. Len(waiters) : Waiting(waiters[i])
QueueDistinct == \A i, j \in 1 .. Len(waiters) : waiters[i] = waiters[j] => i = j

LockInv == TypeOK /\ OneEach /\ GrantsLive /\ QueueLive /\ QueueDistinct /\ Exclusive

-----------------------------------------------------------------------------
(* LinkedList::remove takes out exactly the node of t: the rest stays distinct   *)
(* and in the list, and t is no longer in it.                                    *)
LEMMA NodeRemoved ==
  ASSUME TypeOK, QueueDistinct, NEW t \in Tasks
  PROVE  /\ Unlinked(t) \in Seq(Tasks)
         /\ \A i \in 1 .. Len(Unlinked(t)) :
              Unlinked(t)[i] # t /\ \E j \in 1 .. Len(waiters) : waiters[j] = Unlinked(t)[i]
         /\ \A i, j \in 1 .. Len(Unlinked(t)) : Unlinked(t)[i] = Unlinked(t)[j] => i = j
<1>1. CASE ~Linked(t)
  BY <1>1 DEF Unlinked, Without, Linked, Occurs, TypeOK, QueueDistinct
<1>2. CASE Linked(t)
  <2> DEFINE at == CHOOSE i \in 1 .. Len(waiters) : waiters[i] = t
             n == Len(waiters)
             rest == [j \in 1 .. n - 1 |-> waiters[IF j < at THEN j ELSE j + 1]]
  <2>1. at \in 1 .. n /\ waiters[at] = t
    BY <1>2 DEF Linked, Occurs
  <2>2. n \in Nat /\ \A i \in 1 .. n : waiters[i] \in Tasks
    BY DEF TypeOK
  <2>3. Unlinked(t) = rest
    BY <1>2 DEF Unlinked, Without, Linked
  <2> HIDE DEF at
  <2>4. \A i \in 1 .. n - 1 : rest[i] = waiters[IF i < at THEN i ELSE i + 1]
    OBVIOUS
  <2>5. n - 1 \in Nat /\ \A i \in 1 .. n - 1 : rest[i] \in Tasks
    BY <2>1, <2>2
  <2>6. rest \in Seq(Tasks) /\ Len(rest) = n - 1
    BY <2>5
  <2> HIDE DEF rest
  <2>7. \A i \in 1 .. n - 1 : rest[i] # t /\ \E j \in 1 .. n : waiters[j] = rest[i]
    BY <2>1, <2>2, <2>4 DEF QueueDistinct
  <2>8. \A i, j \in 1 .. n - 1 : rest[i] = rest[j] => i = j
    BY <2>1, <2>2, <2>4 DEF QueueDistinct
  <2> QED BY <2>3, <2>6, <2>7, <2>8
<1> QED BY <1>1, <1>2

(* The same of the step that removes the node. *)
LEMMA UnlinkStep ==
  ASSUME TypeOK, QueueDistinct, NEW t \in Tasks, waiters' = Unlinked(t)
  PROVE  /\ waiters' \in Seq(Tasks)
         /\ \A i \in 1 .. Len(waiters') :
              waiters'[i] # t /\ \E j \in 1 .. Len(waiters) : waiters[j] = waiters'[i]
         /\ QueueDistinct'
<1> DEFINE rest == Unlinked(t)
<1>1. /\ rest \in Seq(Tasks)
      /\ \A i \in 1 .. Len(rest) :
           rest[i] # t /\ \E j \in 1 .. Len(waiters) : waiters[j] = rest[i]
      /\ \A i, j \in 1 .. Len(rest) : rest[i] = rest[j] => i = j
  BY NodeRemoved
<1>2. waiters' = rest
  OBVIOUS
<1> HIDE DEF rest
<1> QED BY <1>1, <1>2 DEF QueueDistinct

(* Exclusive, task by task. *)
Holds(t) == granted[t] \/ status[t] = "holder"
LEMMA ExclusiveIs ==
  Exclusive <=> /\ \A t, u \in Tasks : Holds(t) /\ Holds(u) => t = u
                /\ (\E t \in Tasks : Holds(t)) => permits = 0
                /\ (\A t \in Tasks : ~Holds(t)) => permits = 1
  BY DEF Exclusive, Owned, Holds

(* A new lock is free: one permit, nobody queued. *)
LEMMA InitLockInv ==
  ASSUME OnePermit
  PROVE  Init => LockInv
<1> SUFFICES ASSUME Init PROVE LockInv
  OBVIOUS
<1>1. TypeOK
  <2>1. permits \in 0 .. UsizeMax
    BY CountsNat DEF Init, OnePermit
  <2>2. waiters \in Seq(Tasks) /\ status \in [Tasks -> {"none", "ready", "parked", "holder"}]
    BY DEF Init
  <2>3. want \in [Tasks -> Nat] /\ granted \in [Tasks -> BOOLEAN]
    BY DEF Init
  <2> QED BY <2>1, <2>2, <2>3 DEF Init, TypeOK
<1>2. OneEach /\ GrantsLive /\ QueueLive /\ QueueDistinct
  BY DEF Init, OneEach, GrantsLive, QueueLive, QueueDistinct, Linked, Occurs, Waiting
<1>3. Exclusive
  BY DEF Init, Exclusive, Owned, OnePermit
<1> QED BY <1>1, <1>2, <1>3 DEF LockInv

-----------------------------------------------------------------------------
(* The steps that leave the queue, the grants and the permits alone. *)
LEMMA LockStep ==
  ASSUME LockInv, NEW t \in Tasks, Lock(t)
  PROVE  LockInv'
<1> USE DEF Lock, Acquire, LockInv
<1>1. TypeOK'
  BY DEF TypeOK, counters
<1>2. OneEach'
  BY DEF TypeOK, OneEach
<1>3. GrantsLive' /\ QueueLive' /\ QueueDistinct'
  BY DEF TypeOK, GrantsLive, QueueLive, QueueDistinct, Linked, Occurs, Waiting
<1>4. \A u \in Tasks : Holds(u)' <=> Holds(u)
  BY DEF TypeOK, Holds
<1>5. Exclusive'
  BY <1>4 DEF TypeOK, Exclusive, Owned, Holds
<1> QED BY <1>1, <1>2, <1>3, <1>5

(* A wake, a spurious poll and the end of a release touch nobody's permit. *)
LEMMA WakeStep ==
  ASSUME LockInv, NEW t \in Tasks, Wake(t) \/ SpuriousPoll(t)
  PROVE  LockInv'
<1> USE DEF Wake, SpuriousPoll, LockInv
<1>1. TypeOK'
  <2>1. CASE Wake(t)
    BY <2>1 DEF TypeOK, counters
  <2>2. CASE SpuriousPoll(t)
    BY <2>2 DEF TypeOK, counters
  <2> QED BY <2>1, <2>2
<1>2. OneEach'
  BY DEF TypeOK, OneEach
<1>3. \A u \in Tasks : Waiting(u) => Waiting(u)'
  BY DEF TypeOK, Waiting
<1>4. GrantsLive' /\ QueueLive' /\ QueueDistinct'
  BY <1>3 DEF TypeOK, GrantsLive, QueueLive, QueueDistinct, Linked, Occurs
<1>5. \A u \in Tasks : Holds(u)' <=> Holds(u)
  BY DEF TypeOK, Holds
<1>6. Exclusive'
  BY <1>5 DEF TypeOK, Exclusive, Owned, Holds
<1> QED BY <1>1, <1>2, <1>4, <1>6

(* The grant loop stops: only the state mutex is released. *)
LEMMA EndReleaseStep ==
  ASSUME LockInv, EndRelease
  PROVE  LockInv'
  BY DEF EndRelease, LockInv, TypeOK, counters, OneEach, GrantsLive, QueueLive, QueueDistinct,
     Exclusive, Owned, Linked, Occurs, Waiting

-----------------------------------------------------------------------------
(* try_lock takes the permit only when it is free, and then nobody holds it. *)
LEMMA TryLockStep ==
  ASSUME LockInv, NEW t \in Tasks, TryLock(t)
  PROVE  LockInv'
<1> USE DEF TryLock, TryAcquire, LockInv
<1>1. permits = 1 /\ \A u \in Tasks : ~Holds(u)
  BY ExclusiveIs DEF TypeOK
<1>2. TypeOK'
  BY <1>1, CountsNat DEF TypeOK, counters
<1>3. OneEach'
  BY DEF TypeOK, OneEach
<1>4. GrantsLive' /\ QueueLive' /\ QueueDistinct'
  BY DEF TypeOK, GrantsLive, QueueLive, QueueDistinct, Linked, Occurs, Waiting
<1>5. permits' = 0 /\ \A u \in Tasks : Holds(u)' <=> u = t
  BY <1>1 DEF TypeOK, Holds
<1>6. Exclusive'
  BY <1>5 DEF Exclusive, Owned, Holds
<1> QED BY <1>2, <1>3, <1>4, <1>6

(* Dropping the guard frees the permit: it was the only one out. *)
LEMMA UnlockStep ==
  ASSUME OnePermit, LockInv, NEW t \in Tasks, Unlock(t)
  PROVE  LockInv'
<1> USE DEF Unlock, DropPermit, LockInv
<1>1. permits = 0 /\ want[t] = 1 /\ \A u \in Tasks : Holds(u) <=> u = t
  BY ExclusiveIs DEF Holds, OneEach
<1>2. ~granted[t]
  BY DEF GrantsLive, Waiting
<1>3. permits' = 1
  BY <1>1, CountsNat DEF Release, Saturated, OnePermit
<1>4. TypeOK'
  BY <1>3, CountsNat DEF TypeOK, counters, Release, OnePermit
<1>5. OneEach'
  BY DEF TypeOK, OneEach
<1>6. GrantsLive' /\ QueueLive' /\ QueueDistinct'
  BY <1>2 DEF TypeOK, GrantsLive, QueueLive, QueueDistinct, Linked, Occurs, Waiting
<1>7. \A u \in Tasks : ~Holds(u)'
  BY <1>1, <1>2 DEF TypeOK, Holds
<1>8. Exclusive'
  BY <1>3, <1>7 DEF Exclusive, Owned, Holds
<1> QED BY <1>4, <1>5, <1>6, <1>8

(* The grant loop hands a free permit to the head of the queue, which leaves it  *)
(* for good: it occurs in it once.                                               *)
LEMMA LockGrantStep ==
  ASSUME LockInv, GrantNext
  PROVE  LockInv'
<1> USE DEF GrantNext, Grants, LockInv
<1> DEFINE t == Head(waiters)
<1>1. waiters \in Seq(Tasks) /\ waiters # <<>> /\ t = waiters[1] /\ t \in Tasks
  BY DEF TypeOK
<1>2. waiters' \in Seq(Tasks) /\ Len(waiters') = Len(waiters) - 1
      /\ \A i \in 1 .. Len(waiters') : waiters'[i] = waiters[i + 1]
  BY <1>1
<1>3. Waiting(t) /\ want[t] = 1
  BY <1>1 DEF QueueLive, OneEach, Waiting, TypeOK
<1> HIDE DEF t
<1>4. permits = 1 /\ \A u \in Tasks : ~Holds(u)
  <2>1. permits # 0
    BY <1>3 DEF TypeOK, t
  <2> QED BY <2>1, ExclusiveIs
<1>5. permits' = 0
  BY <1>3, <1>4 DEF t
<1>6. granted' = [granted EXCEPT ![t] = TRUE] /\ waking' = waking \cup {t}
  BY DEF t
<1>7. TypeOK'
  BY <1>1, <1>2, <1>5, <1>6, CountsNat DEF TypeOK, counters
<1>8. OneEach'
  BY DEF OneEach
<1>9. QueueDistinct' /\ \A i \in 1 .. Len(waiters') : waiters'[i] # t
  BY <1>1, <1>2 DEF QueueDistinct
<1>10. QueueLive'
  BY <1>1, <1>2 DEF QueueLive, Waiting
<1>11. \A u \in Tasks : granted'[u] => u = t
  BY <1>4, <1>6 DEF Holds, TypeOK
<1>12. GrantsLive'
  BY <1>3, <1>9, <1>11 DEF GrantsLive, Linked, Occurs, Waiting
<1>13. \A u \in Tasks : Holds(u)' <=> u = t
  BY <1>1, <1>4, <1>6 DEF Holds, TypeOK
<1>14. Exclusive'
  BY <1>1, <1>5, <1>13 DEF Exclusive, Owned, Holds
<1> QED BY <1>7, <1>8, <1>9, <1>10, <1>12, <1>14

-----------------------------------------------------------------------------
(* A poll turns a grant into a guard, takes a free permit, or queues its task at *)
(* the back once.                                                                *)
LEMMA PollLockStep ==
  ASSUME LockInv, NEW t \in Tasks, PollLock(t)
  PROVE  LockInv'
<1> USE DEF PollLock, PollAcquire, LockInv
<1>0. want[t] = 1 /\ UNCHANGED <<closed, releasing, want, waking, added, forgotten>>
  BY DEF OneEach, counters
<1>1. CASE granted[t]
  <2>1. granted' = [granted EXCEPT ![t] = FALSE] /\ status' = [status EXCEPT ![t] = "holder"]
        /\ UNCHANGED <<permits, waiters>>
    BY <1>1
  <2>2. TypeOK' /\ OneEach'
    BY <1>0, <2>1 DEF TypeOK, OneEach
  <2>3. ~Linked(t)
    BY <1>1 DEF GrantsLive
  <2>4. GrantsLive' /\ QueueLive' /\ QueueDistinct'
    BY <2>1, <2>3 DEF TypeOK, GrantsLive, QueueLive, QueueDistinct, Linked, Occurs, Waiting
  <2>5. \A u \in Tasks : Holds(u)' <=> Holds(u)
    BY <1>1, <2>1 DEF TypeOK, Holds
  <2>6. Exclusive'
    BY <2>1, <2>5 DEF Exclusive, Owned, Holds
  <2> QED BY <2>2, <2>4, <2>6
<1>2. CASE ~granted[t] /\ closed
  <2>1. waiters' = Unlinked(t) /\ status' = [status EXCEPT ![t] = "none"]
        /\ UNCHANGED <<permits, granted>>
    BY <1>2
  <2>2. /\ waiters' \in Seq(Tasks)
        /\ \A i \in 1 .. Len(waiters') :
             waiters'[i] # t /\ \E j \in 1 .. Len(waiters) : waiters[j] = waiters'[i]
        /\ QueueDistinct'
    BY <2>1, UnlinkStep
  <2>3. TypeOK' /\ OneEach'
    BY <1>0, <2>1, <2>2 DEF TypeOK, OneEach
  <2>4. QueueLive'
    <3>1. ASSUME NEW i \in 1 .. Len(waiters') PROVE Waiting(waiters[i])'
      <4>1. PICK j \in 1 .. Len(waiters) : waiters[j] = waiters'[i]
        BY <2>2
      <4>2. Waiting(waiters[j]) /\ waiters'[i] # t
        BY <2>2 DEF QueueLive
      <4> QED BY <2>1, <4>1, <4>2 DEF TypeOK, Waiting
    <3> QED BY <3>1 DEF QueueLive, Waiting
  <2>5. GrantsLive'
    BY <1>2, <2>1, <2>2 DEF TypeOK, GrantsLive, Linked, Occurs, Waiting
  <2>6. \A u \in Tasks : Holds(u)' <=> Holds(u)
    BY <2>1 DEF TypeOK, Holds
  <2>7. Exclusive'
    BY <2>1, <2>6 DEF Exclusive, Owned, Holds
  <2> QED BY <2>2, <2>3, <2>4, <2>5, <2>7
<1>3. CASE ~granted[t] /\ ~closed /\ MayTake(t)
  <2>1. permits' = permits - 1 /\ status' = [status EXCEPT ![t] = "holder"]
        /\ UNCHANGED <<waiters, granted>>
    BY <1>0, <1>3
  <2>2. permits = 1 /\ \A u \in Tasks : ~Holds(u)
    BY <1>0, <1>3, ExclusiveIs DEF MayTake, TypeOK
  <2>3. TypeOK' /\ OneEach'
    BY <1>0, <2>1, <2>2, CountsNat DEF TypeOK, OneEach
  <2>4. GrantsLive' /\ QueueLive' /\ QueueDistinct'
    BY <1>3, <2>1 DEF MayTake, TypeOK, GrantsLive, QueueLive, QueueDistinct, Linked, Occurs, Waiting
  <2>5. permits' = 0 /\ \A u \in Tasks : Holds(u)' <=> u = t
    BY <2>1, <2>2 DEF TypeOK, Holds
  <2>6. Exclusive'
    BY <2>5 DEF Exclusive, Owned, Holds
  <2> QED BY <2>3, <2>4, <2>6
<1>4. CASE ~granted[t] /\ ~closed /\ ~MayTake(t)
  <2>1. /\ waiters' = IF Linked(t) THEN waiters ELSE Append(waiters, t)
        /\ status' = [status EXCEPT ![t] = "parked"]
        /\ UNCHANGED <<permits, granted>>
    BY <1>4
  <2>2. waiters' \in Seq(Tasks) /\ QueueDistinct'
    BY <2>1 DEF TypeOK, QueueDistinct, Linked, Occurs
  <2>3. \A i \in 1 .. Len(waiters') :
          waiters'[i] = t \/ \E j \in 1 .. Len(waiters) : waiters[j] = waiters'[i]
    BY <2>1 DEF TypeOK
  <2>4. TypeOK' /\ OneEach'
    BY <1>0, <2>1, <2>2 DEF TypeOK, OneEach
  <2>5. QueueLive'
    BY <2>1, <2>2, <2>3 DEF TypeOK, QueueLive, Waiting
  <2>6. GrantsLive'
    BY <1>4, <2>1, <2>3 DEF TypeOK, GrantsLive, Linked, Occurs, Waiting
  <2>7. \A u \in Tasks : Holds(u)' <=> Holds(u)
    BY <2>1 DEF TypeOK, Holds
  <2>8. Exclusive'
    BY <2>1, <2>7 DEF Exclusive, Owned, Holds
  <2> QED BY <2>2, <2>4, <2>5, <2>6, <2>8
<1> QED BY <1>1, <1>2, <1>3, <1>4

(* Dropping a pending lock future unlinks its task and gives back a grant it had *)
(* not observed.                                                                 *)
LEMMA CancelLockStep ==
  ASSUME OnePermit, LockInv, NEW t \in Tasks, CancelLock(t)
  PROVE  LockInv'
<1> USE DEF CancelLock, DropAcquire, LockInv
<1>1. /\ waiters' \in Seq(Tasks)
      /\ \A i \in 1 .. Len(waiters') :
           waiters'[i] # t /\ \E j \in 1 .. Len(waiters) : waiters[j] = waiters'[i]
      /\ QueueDistinct'
  BY UnlinkStep
<1>2. QueueLive'
  BY <1>1 DEF TypeOK, QueueLive, Waiting
<1>3. GrantsLive'
  <2>1. ASSUME NEW u \in Tasks, granted'[u] PROVE Waiting(u)' /\ ~Linked(u)'
    <3>1. u # t /\ granted[u]
      BY <2>1 DEF TypeOK
    <3>2. Waiting(u) /\ ~Linked(u)
      BY <3>1 DEF GrantsLive
    <3>3. Waiting(u)'
      BY <3>1, <3>2 DEF TypeOK, Waiting
    <3>4. ~Linked(u)'
      BY <1>1, <3>2 DEF Linked, Occurs
    <3> QED BY <3>3, <3>4
  <2> QED BY <2>1 DEF GrantsLive
<1>4. OneEach'
  BY DEF TypeOK, OneEach
<1>5. DropGivesBack(t) <=> granted[t]
  BY DEF DropGivesBack, GrantsLive
<1>6. CASE granted[t]
  <2>1. permits = 0 /\ want[t] = 1 /\ \A u \in Tasks : Holds(u) => u = t
    BY <1>6, ExclusiveIs DEF Holds, OneEach, Waiting
  <2>2. permits' = 1 /\ releasing' = TRUE
    BY <1>5, <1>6, <2>1, CountsNat DEF Release, Saturated, OnePermit
  <2>3. TypeOK'
    BY <1>1, <2>2, CountsNat DEF TypeOK, counters, OnePermit
  <2>4. \A u \in Tasks : ~Holds(u)'
    BY <2>1 DEF TypeOK, Holds
  <2>5. Exclusive'
    BY <2>2, <2>4 DEF Exclusive, Owned, Holds
  <2> QED BY <1>1, <1>2, <1>3, <1>4, <2>3, <2>5
<1>7. CASE ~granted[t]
  <2>1. UNCHANGED <<permits, releasing>>
    BY <1>5, <1>7
  <2>2. TypeOK'
    BY <1>1, <2>1 DEF TypeOK, counters
  <2>3. \A u \in Tasks : Holds(u)' <=> Holds(u)
    BY <1>7 DEF TypeOK, Holds, Waiting
  <2>4. Exclusive'
    BY <2>1, <2>3 DEF Exclusive, Owned, Holds
  <2> QED BY <1>1, <1>2, <1>3, <1>4, <2>2, <2>4
<1> QED BY <1>6, <1>7

-----------------------------------------------------------------------------
(* Every step of a Mutex keeps the invariant. *)
LEMMA LockInvInductive ==
  ASSUME OnePermit, LockInv, [LockNext]_vars
  PROVE  LockInv'
<1>1. CASE ReleaseStep
  BY <1>1, LockGrantStep, EndReleaseStep, WakeStep DEF ReleaseStep
<1>2. CASE \E t \in Tasks : Lock(t) \/ TryLock(t) \/ PollLock(t)
  BY <1>2, LockStep, TryLockStep, PollLockStep
<1>3. CASE \E t \in Tasks : CancelLock(t) \/ Unlock(t) \/ SpuriousPoll(t)
  BY <1>3, CancelLockStep, UnlockStep, WakeStep
<1>4. CASE UNCHANGED vars
  BY <1>4 DEF vars, LockInv, TypeOK, OneEach, GrantsLive, QueueLive, QueueDistinct,
     Exclusive, Owned, Linked, Occurs, Waiting
<1> QED BY <1>1, <1>2, <1>3, <1>4 DEF LockNext

(* Mutual exclusion: whatever futures are dropped, woken or polled spuriously,   *)
(* at most one task has the lock or an unobserved grant of it, and the permit is *)
(* free exactly when none has (Mutex::lock, MutexGuard::drop).                   *)
THEOREM MutualExclusion ==
  ASSUME OnePermit
  PROVE  LockSpec => []Exclusive
<1>1. Init => LockInv
  BY InitLockInv
<1>2. LockInv /\ [LockNext]_vars => LockInv'
  BY LockInvInductive
<1>3. LockInv => Exclusive
  BY DEF LockInv
<1> QED BY <1>1, <1>2, <1>3, PTL DEF LockSpec
-----------------------------------------------------------------------------
(* Requests of one permit: a queue that nobody is serving waits for the permit. *)
HeadInv == ~releasing /\ waiters # <<>> => permits = 0

(* The grant loop ends only at an empty queue or without a permit, and a task queues *)
(* only when there is none: in between every step leaves the queue blocked.          *)
LEMMA HeadStep ==
  ASSUME LockInv, HeadInv, [LockNext]_vars
  PROVE  HeadInv'
<1> USE DEF LockInv, HeadInv
<1>1. permits \in Nat /\ waiters \in Seq(Tasks)
  BY CountsNat DEF TypeOK
<1>2. \A t \in Tasks : waiters' = Unlinked(t) /\ waiters' # <<>> => waiters # <<>>
  <2> SUFFICES ASSUME NEW t \in Tasks, waiters' = Unlinked(t), waiters' # <<>> PROVE waiters # <<>>
    OBVIOUS
  <2>1. waiters' \in Seq(Tasks) /\ \A i \in 1 .. Len(waiters') : \E j \in 1 .. Len(waiters) : waiters[j] = waiters'[i]
    BY UnlinkStep
  <2>2. 1 \in 1 .. Len(waiters')
    BY <2>1
  <2> QED BY <1>1, <2>1, <2>2
<1>3. CASE GrantNext
  BY <1>3 DEF GrantNext
<1>4. CASE EndRelease
  <2> SUFFICES ASSUME waiters # <<>> PROVE permits = 0
    BY <1>4 DEF EndRelease
  <2>1. Head(waiters) = waiters[1] /\ 1 \in 1 .. Len(waiters) /\ Head(waiters) \in Tasks
    BY <1>1
  <2>2. want[Head(waiters)] = 1
    BY <2>1 DEF QueueLive, OneEach, Waiting
  <2> QED BY <1>1, <1>4, <2>2 DEF EndRelease, Grants
<1>5. ASSUME NEW t \in Tasks, Wake(t) \/ Lock(t) \/ SpuriousPoll(t) PROVE HeadInv'
  BY <1>5 DEF Wake, Lock, Acquire, SpuriousPoll
<1>6. ASSUME NEW t \in Tasks, TryLock(t) PROVE HeadInv'
  BY <1>6 DEF TryLock, TryAcquire
<1>7. ASSUME NEW t \in Tasks, PollLock(t) PROVE HeadInv'
  <2> USE DEF PollLock, PollAcquire
  <2>1. want[t] = 1 /\ ~releasing /\ ~releasing'
    BY <1>7 DEF OneEach
  <2>2. CASE granted[t]
    BY <1>7, <2>2
  <2>3. CASE ~granted[t] /\ closed
    BY <1>2, <1>7, <2>1, <2>3
  <2>4. CASE ~granted[t] /\ ~closed /\ MayTake(t)
    BY <1>7, <2>4 DEF MayTake
  <2>5. CASE ~granted[t] /\ ~closed /\ ~MayTake(t)
    <3>1. permits' = permits
      BY <1>7, <2>5
    <3>2. CASE Linked(t)
      BY <1>1, <2>1, <3>1, <3>2 DEF Linked, Occurs
    <3>3. CASE ~Linked(t)
      BY <1>1, <2>1, <2>5, <3>1, <3>3 DEF MayTake
    <3> QED BY <3>2, <3>3
  <2> QED BY <2>2, <2>3, <2>4, <2>5
<1>8. ASSUME NEW t \in Tasks, CancelLock(t) PROVE HeadInv'
  BY <1>2, <1>8 DEF CancelLock, DropAcquire, Release
<1>9. ASSUME NEW t \in Tasks, Unlock(t) PROVE HeadInv'
  BY <1>9 DEF Unlock, DropPermit, Release
<1>10. CASE UNCHANGED vars
  BY <1>10 DEF vars
<1> HIDE DEF HeadInv
<1> QED BY <1>3, <1>4, <1>5, <1>6, <1>7, <1>8, <1>9, <1>10 DEF LockNext, ReleaseStep

(* NobodyWaitsForAFreeLock: when no release is running the oldest queued lock future *)
(* waits for a permit that is not there, however futures are dropped beside it: the   *)
(* queue of a Mutex is never stranded (release_locked, Acquire::poll, Acquire::drop). *)
THEOREM NobodyWaitsForAFreeLock ==
  ASSUME OnePermit
  PROVE  LockSpec => []HeadIsBlocked
<1>1. Init => LockInv /\ HeadInv
  BY InitLockInv DEF Init, HeadInv
<1>2. LockInv /\ HeadInv /\ [LockNext]_vars => (LockInv /\ HeadInv)'
  BY LockInvInductive, HeadStep
<1>3. LockInv /\ HeadInv => HeadIsBlocked
  <2> SUFFICES ASSUME LockInv, HeadInv, ~releasing, waiters # <<>> PROVE want[Head(waiters)] > permits
    BY DEF HeadIsBlocked
  <2>1. Head(waiters) = waiters[1] /\ 1 \in 1 .. Len(waiters) /\ Head(waiters) \in Tasks
    BY DEF LockInv, TypeOK
  <2>2. want[Head(waiters)] = 1
    BY <2>1 DEF LockInv, QueueLive, OneEach, Waiting
  <2> QED BY <2>2 DEF HeadInv
<1> QED BY <1>1, <1>2, <1>3, PTL DEF LockSpec

=============================================================================
