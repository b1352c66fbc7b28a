---------------------------- MODULE DriverProofs ----------------------------
(***************************************************************************)
(* The I/O driver, for any number of tasks and any operations on the         *)
(* descriptor, and the io_uring driver, for any number of requests of any    *)
(* class and any submission queue.                                           *)
(***************************************************************************)
EXTENDS Drivers, WaitQueueProofs

-----------------------------------------------------------------------------
(* The I/O driver. *)
DriverType ==
  [pc : {"idle", "lookup", "load", "store", "wake"}, gen : Nat, bits : SUBSET use.interests,
   object : Nat, seen : SUBSET use.interests, popped : SUBSET Users]
UserType ==
  [pc : {"idle", "look", "detach", "redetach", "add", "parked", "call", "rearm", "snap", "clear_again", "clear"},
   event : SUBSET use.interests, again : SUBSET use.interests, taken : Nat]

IoType ==
  /\ reg \in [open : BOOLEAN, gen : Nat, left : Int]
  /\ packed \in [gen : Nat, bits : SUBSET use.interests]
  /\ waiters \in [reader : Users \cup {None}, writer : Users \cup {None}, list : SUBSET Users]
  /\ driver \in DriverType
  /\ user \in [Users -> UserType]

(* Of a registration that is closed nobody waits; the dispatcher carries wakers only  *)
(* between unlock and wake; the ScheduledIo it found is not a later one; and what it  *)
(* has loaded under the lock satisfies nobody who is listed meanwhile.                *)
ClosedIsQuiet == ~reg.open => \A u \in Users : user[u].pc = "idle"
PoppedIsWoken == driver.pc # "wake" => driver.popped = {}
FoundIsPast == driver.object <= reg.gen
SeenBesideListed == ~Unlocked => \A u \in Listed \ {None} : ~interest_satisfied(u, driver.seen)

IoInv ==
  /\ IoType /\ ClosedIsQuiet /\ PoppedIsWoken /\ FoundIsPast /\ SeenBesideListed
  /\ ParkedIsHeard /\ NotBesideReady

(* Which registration an event belongs to. *)
GenInv ==
  /\ reg.gen <= MaxGen /\ packed.gen = Truncated(reg.gen)
  /\ driver.pc \in {"load", "store"} => driver.gen = driver.object
  /\ history \in [foreign : BOOLEAN, lost : Int] /\ OwnEvents
LEMMA TruncatedFacts ==
  ASSUME NEW n \in Nat
  PROVE  Truncated(n) \in Nat /\ (n < 2 ^ GenBits => Truncated(n) = n)
<1> DEFINE m == 2 ^ GenBits
<1>1. m \in Nat /\ m > 0
  BY GenBitsNat
<1> HIDE DEF m
<1>2. n % m \in Nat /\ (n < m => n % m = n)
  BY <1>1
<1> QED BY <1>2 DEF m, Truncated

LEMMA IoInitial == Init => IoInv
  BY NoneIsNoUser, ArrivalsNat DEF Init, IoInv, IoType, DriverType, UserType, ClosedIsQuiet, PoppedIsWoken, FoundIsPast, SeenBesideListed,
     ParkedIsHeard, NotBesideReady, Listed, Unlocked, interest_satisfied, Op, Idle, AtRest, Empty


LEMMA Io_register ==
  ASSUME IoInv, register
  PROVE  IoInv'
<1>1. IoType'
  <2>1. reg.gen + 1 \in Nat
    BY DEF IoInv, IoType, DriverType, UserType
  <2>2. Truncated(reg.gen + 1) \in Nat
    BY <2>1, TruncatedFacts
  <2> QED BY <2>1, <2>2, NoneIsNoUser DEF IoInv, IoType, DriverType, UserType, register, Empty
<1>2. ClosedIsQuiet' /\ PoppedIsWoken' /\ FoundIsPast'
  BY DEF IoInv, IoType, DriverType, UserType, ClosedIsQuiet, PoppedIsWoken, FoundIsPast, register, Empty
<1>3. SeenBesideListed'
  BY NoneIsNoUser DEF IoInv, IoType, DriverType, UserType, FoundIsPast, SeenBesideListed, NotBesideReady, Unlocked, Listed,
     interest_satisfied, Op, register, Empty
<1>4. ParkedIsHeard'
  BY NoneIsNoUser DEF IoInv, IoType, DriverType, UserType, ClosedIsQuiet, PoppedIsWoken, ParkedIsHeard, Listed, interest_satisfied, Op, register, Empty
<1>5. NotBesideReady'
  BY NoneIsNoUser DEF IoInv, IoType, DriverType, UserType, SeenBesideListed, NotBesideReady, Unlocked, Listed, interest_satisfied, Op, register, Empty
<1> QED BY <1>1, <1>2, <1>3, <1>4, <1>5 DEF IoInv


LEMMA Io_deregister ==
  ASSUME IoInv, deregister
  PROVE  IoInv'
<1>1. IoType'
  BY NoneIsNoUser DEF IoInv, IoType, DriverType, UserType, deregister
<1>2. ClosedIsQuiet' /\ PoppedIsWoken' /\ FoundIsPast'
  BY DEF IoInv, IoType, DriverType, UserType, ClosedIsQuiet, PoppedIsWoken, FoundIsPast, deregister
<1>3. SeenBesideListed'
  BY NoneIsNoUser DEF IoInv, IoType, DriverType, UserType, FoundIsPast, SeenBesideListed, NotBesideReady, Unlocked, Listed,
     interest_satisfied, Op, deregister
<1>4. ParkedIsHeard'
  BY NoneIsNoUser DEF IoInv, IoType, DriverType, UserType, ClosedIsQuiet, PoppedIsWoken, ParkedIsHeard, Listed, interest_satisfied, Op, deregister
<1>5. NotBesideReady'
  BY NoneIsNoUser DEF IoInv, IoType, DriverType, UserType, SeenBesideListed, NotBesideReady, Unlocked, Listed, interest_satisfied, Op, deregister
<1> QED BY <1>1, <1>2, <1>3, <1>4, <1>5 DEF IoInv


LEMMA Io_Arrive ==
  ASSUME IoInv, Arrive
  PROVE  IoInv'
<1>1. IoType'
  BY NoneIsNoUser DEF IoInv, IoType, DriverType, UserType, Arrive
<1>2. ClosedIsQuiet' /\ PoppedIsWoken' /\ FoundIsPast'
  BY DEF IoInv, IoType, DriverType, UserType, ClosedIsQuiet, PoppedIsWoken, FoundIsPast, Arrive
<1>3. SeenBesideListed'
  BY NoneIsNoUser DEF IoInv, IoType, DriverType, UserType, FoundIsPast, SeenBesideListed, NotBesideReady, Unlocked, Listed,
     interest_satisfied, Op, Arrive
<1>4. ParkedIsHeard'
  BY NoneIsNoUser DEF IoInv, IoType, DriverType, UserType, ClosedIsQuiet, PoppedIsWoken, ParkedIsHeard, Listed, interest_satisfied, Op, Arrive
<1>5. NotBesideReady'
  BY NoneIsNoUser DEF IoInv, IoType, DriverType, UserType, SeenBesideListed, NotBesideReady, Unlocked, Listed, interest_satisfied, Op, Arrive
<1> QED BY <1>1, <1>2, <1>3, <1>4, <1>5 DEF IoInv


LEMMA Io_wait ==
  ASSUME IoInv, wait
  PROVE  IoInv'
<1>1. IoType'
  BY NoneIsNoUser DEF IoInv, IoType, DriverType, UserType, wait, Idle, Reports
<1>2. ClosedIsQuiet' /\ PoppedIsWoken' /\ FoundIsPast'
  BY DEF IoInv, IoType, DriverType, UserType, ClosedIsQuiet, PoppedIsWoken, FoundIsPast, wait, Idle, Reports
<1>3. SeenBesideListed'
  BY NoneIsNoUser DEF IoInv, IoType, DriverType, UserType, FoundIsPast, SeenBesideListed, NotBesideReady, Unlocked, Listed,
     interest_satisfied, Op, wait, Idle, Reports
<1>4. ParkedIsHeard'
  BY NoneIsNoUser DEF IoInv, IoType, DriverType, UserType, ClosedIsQuiet, PoppedIsWoken, ParkedIsHeard, Listed, interest_satisfied, Op, wait, Idle, Reports
<1>5. NotBesideReady'
  BY NoneIsNoUser DEF IoInv, IoType, DriverType, UserType, SeenBesideListed, NotBesideReady, Unlocked, Listed, interest_satisfied, Op, wait, Idle, Reports
<1> QED BY <1>1, <1>2, <1>3, <1>4, <1>5 DEF IoInv


LEMMA Io_dispatch ==
  ASSUME IoInv, dispatch
  PROVE  IoInv'
<1>1. IoType'
  BY NoneIsNoUser DEF IoInv, IoType, DriverType, UserType, dispatch, Idle, Stale
<1>2. ClosedIsQuiet' /\ PoppedIsWoken' /\ FoundIsPast'
  BY DEF IoInv, IoType, DriverType, UserType, ClosedIsQuiet, PoppedIsWoken, FoundIsPast, dispatch, Idle, Stale
<1>3. SeenBesideListed'
  BY NoneIsNoUser DEF IoInv, IoType, DriverType, UserType, FoundIsPast, SeenBesideListed, NotBesideReady, Unlocked, Listed,
     interest_satisfied, Op, dispatch, Idle, Stale
<1>4. ParkedIsHeard'
  BY NoneIsNoUser DEF IoInv, IoType, DriverType, UserType, ClosedIsQuiet, PoppedIsWoken, ParkedIsHeard, Listed, interest_satisfied, Op, dispatch, Idle, Stale
<1>5. NotBesideReady'
  BY NoneIsNoUser DEF IoInv, IoType, DriverType, UserType, SeenBesideListed, NotBesideReady, Unlocked, Listed, interest_satisfied, Op, dispatch, Idle, Stale
<1> QED BY <1>1, <1>2, <1>3, <1>4, <1>5 DEF IoInv


LEMMA Io_DispatchGone ==
  ASSUME IoInv, DispatchGone
  PROVE  IoInv'
<1>1. IoType'
  BY NoneIsNoUser DEF IoInv, IoType, DriverType, UserType, DispatchGone, Idle, Live
<1>2. ClosedIsQuiet' /\ PoppedIsWoken' /\ FoundIsPast'
  BY DEF IoInv, IoType, DriverType, UserType, ClosedIsQuiet, PoppedIsWoken, FoundIsPast, DispatchGone, Idle, Live
<1>3. SeenBesideListed'
  BY NoneIsNoUser DEF IoInv, IoType, DriverType, UserType, FoundIsPast, SeenBesideListed, NotBesideReady, Unlocked, Listed,
     interest_satisfied, Op, DispatchGone, Idle, Live
<1>4. ParkedIsHeard'
  BY NoneIsNoUser DEF IoInv, IoType, DriverType, UserType, ClosedIsQuiet, PoppedIsWoken, ParkedIsHeard, Listed, interest_satisfied, Op, DispatchGone, Idle, Live
<1>5. NotBesideReady'
  BY NoneIsNoUser DEF IoInv, IoType, DriverType, UserType, SeenBesideListed, NotBesideReady, Unlocked, Listed, interest_satisfied, Op, DispatchGone, Idle, Live
<1> QED BY <1>1, <1>2, <1>3, <1>4, <1>5 DEF IoInv


LEMMA Io_LoadReady ==
  ASSUME IoInv, LoadReady
  PROVE  IoInv'
<1>1. IoType'
  BY NoneIsNoUser DEF IoInv, IoType, DriverType, UserType, LoadReady, Live
<1>2. ClosedIsQuiet' /\ PoppedIsWoken' /\ FoundIsPast'
  BY DEF IoInv, IoType, DriverType, UserType, ClosedIsQuiet, PoppedIsWoken, FoundIsPast, LoadReady, Live
<1>3. SeenBesideListed'
  BY NoneIsNoUser DEF IoInv, IoType, DriverType, UserType, FoundIsPast, SeenBesideListed, NotBesideReady, Unlocked, Listed,
     interest_satisfied, Op, LoadReady, Live
<1>4. ParkedIsHeard'
  BY NoneIsNoUser DEF IoInv, IoType, DriverType, UserType, ClosedIsQuiet, PoppedIsWoken, ParkedIsHeard, Listed, interest_satisfied, Op, LoadReady, Live
<1>5. NotBesideReady'
  BY NoneIsNoUser DEF IoInv, IoType, DriverType, UserType, SeenBesideListed, NotBesideReady, Unlocked, Listed, interest_satisfied, Op, LoadReady, Live
<1> QED BY <1>1, <1>2, <1>3, <1>4, <1>5 DEF IoInv


LEMMA Io_set_readiness_and_wake ==
  ASSUME IoInv, set_readiness_and_wake
  PROVE  IoInv'
<1>1. IoType'
  <2>1. driver' \in DriverType'
    BY NoneIsNoUser DEF IoInv, IoType, DriverType, UserType, set_readiness_and_wake, Listed
  <2>2. waiters' \in [reader : Users \cup {None}, writer : Users \cup {None}, list : SUBSET Users]
    BY NoneIsNoUser DEF IoInv, IoType, DriverType, UserType, set_readiness_and_wake, take_matching
  <2>3. packed' \in [gen : Nat, bits : SUBSET use.interests] /\ UNCHANGED <<reg, user, use>>
    BY DEF IoInv, IoType, DriverType, UserType, set_readiness_and_wake
  <2> QED BY <2>1, <2>2, <2>3 DEF IoInv, IoType, DriverType, UserType
<1>2. ClosedIsQuiet' /\ PoppedIsWoken' /\ FoundIsPast'
  BY DEF IoInv, IoType, DriverType, UserType, ClosedIsQuiet, PoppedIsWoken, FoundIsPast, set_readiness_and_wake, Live, take_matching
<1>3. SeenBesideListed'
  BY NoneIsNoUser DEF IoInv, IoType, DriverType, UserType, FoundIsPast, SeenBesideListed, NotBesideReady, Unlocked, Listed,
     interest_satisfied, Op, set_readiness_and_wake, Live, take_matching
<1>4. ParkedIsHeard'
  BY NoneIsNoUser DEF IoInv, IoType, DriverType, UserType, ClosedIsQuiet, PoppedIsWoken, ParkedIsHeard, Listed, interest_satisfied, Op, set_readiness_and_wake, Live, take_matching
<1>5. NotBesideReady'
  BY NoneIsNoUser DEF IoInv, IoType, DriverType, UserType, SeenBesideListed, NotBesideReady, Unlocked, Listed, interest_satisfied, Op, set_readiness_and_wake, Live, take_matching
<1> QED BY <1>1, <1>2, <1>3, <1>4, <1>5 DEF IoInv


LEMMA Io_WakePopped ==
  ASSUME IoInv, WakePopped
  PROVE  IoInv'
<1>1. IoType'
  BY NoneIsNoUser DEF IoInv, IoType, DriverType, UserType, WakePopped, Idle
<1>2. ClosedIsQuiet' /\ PoppedIsWoken' /\ FoundIsPast'
  BY DEF IoInv, IoType, DriverType, UserType, ClosedIsQuiet, PoppedIsWoken, FoundIsPast, WakePopped, Idle
<1>3. SeenBesideListed'
  BY NoneIsNoUser DEF IoInv, IoType, DriverType, UserType, FoundIsPast, SeenBesideListed, NotBesideReady, Unlocked, Listed,
     interest_satisfied, Op, WakePopped, Idle
<1>4. ParkedIsHeard'
  BY NoneIsNoUser DEF IoInv, IoType, DriverType, UserType, ClosedIsQuiet, PoppedIsWoken, ParkedIsHeard, Listed, interest_satisfied, Op, WakePopped, Idle
<1>5. NotBesideReady'
  BY NoneIsNoUser DEF IoInv, IoType, DriverType, UserType, SeenBesideListed, NotBesideReady, Unlocked, Listed, interest_satisfied, Op, WakePopped, Idle
<1> QED BY <1>1, <1>2, <1>3, <1>4, <1>5 DEF IoInv


LEMMA Io_Begin ==
  ASSUME IoInv, NEW u \in Users, Begin(u)
  PROVE  IoInv'
<1>1. IoType'
  BY NoneIsNoUser DEF IoInv, IoType, DriverType, UserType, Begin, AtRest
<1>2. ClosedIsQuiet' /\ PoppedIsWoken' /\ FoundIsPast'
  BY DEF IoInv, IoType, DriverType, UserType, ClosedIsQuiet, PoppedIsWoken, FoundIsPast, Begin, AtRest
<1>3. SeenBesideListed'
  BY NoneIsNoUser DEF IoInv, IoType, DriverType, UserType, FoundIsPast, SeenBesideListed, NotBesideReady, Unlocked, Listed,
     interest_satisfied, Op, Begin, AtRest
<1>4. ParkedIsHeard'
  BY NoneIsNoUser DEF IoInv, IoType, DriverType, UserType, ClosedIsQuiet, PoppedIsWoken, ParkedIsHeard, Listed, interest_satisfied, Op, Begin, AtRest
<1>5. NotBesideReady'
  BY NoneIsNoUser DEF IoInv, IoType, DriverType, UserType, SeenBesideListed, NotBesideReady, Unlocked, Listed, interest_satisfied, Op, Begin, AtRest
<1> QED BY <1>1, <1>2, <1>3, <1>4, <1>5 DEF IoInv


LEMMA Io_Repoll ==
  ASSUME IoInv, NEW u \in Users, Repoll(u)
  PROVE  IoInv'
<1>1. IoType'
  BY NoneIsNoUser DEF IoInv, IoType, DriverType, UserType, Repoll, AtRest
<1>2. ClosedIsQuiet' /\ PoppedIsWoken' /\ FoundIsPast'
  BY DEF IoInv, IoType, DriverType, UserType, ClosedIsQuiet, PoppedIsWoken, FoundIsPast, Repoll, AtRest
<1>3. SeenBesideListed'
  BY NoneIsNoUser DEF IoInv, IoType, DriverType, UserType, FoundIsPast, SeenBesideListed, NotBesideReady, Unlocked, Listed,
     interest_satisfied, Op, Repoll, AtRest
<1>4. ParkedIsHeard'
  BY NoneIsNoUser DEF IoInv, IoType, DriverType, UserType, ClosedIsQuiet, PoppedIsWoken, ParkedIsHeard, Listed, interest_satisfied, Op, Repoll, AtRest
<1>5. NotBesideReady'
  BY NoneIsNoUser DEF IoInv, IoType, DriverType, UserType, SeenBesideListed, NotBesideReady, Unlocked, Listed, interest_satisfied, Op, Repoll, AtRest
<1> QED BY <1>1, <1>2, <1>3, <1>4, <1>5 DEF IoInv


LEMMA Io_OutOfBudget ==
  ASSUME IoInv, NEW u \in Users, OutOfBudget(u)
  PROVE  IoInv'
<1>1. IoType'
  BY NoneIsNoUser DEF IoInv, IoType, DriverType, UserType, OutOfBudget, AtRest
<1>2. ClosedIsQuiet' /\ PoppedIsWoken' /\ FoundIsPast'
  BY DEF IoInv, IoType, DriverType, UserType, ClosedIsQuiet, PoppedIsWoken, FoundIsPast, OutOfBudget, AtRest
<1>3. SeenBesideListed'
  BY NoneIsNoUser DEF IoInv, IoType, DriverType, UserType, FoundIsPast, SeenBesideListed, NotBesideReady, Unlocked, Listed,
     interest_satisfied, Op, OutOfBudget, AtRest
<1>4. ParkedIsHeard'
  BY NoneIsNoUser DEF IoInv, IoType, DriverType, UserType, ClosedIsQuiet, PoppedIsWoken, ParkedIsHeard, Listed, interest_satisfied, Op, OutOfBudget, AtRest
<1>5. NotBesideReady'
  BY NoneIsNoUser DEF IoInv, IoType, DriverType, UserType, SeenBesideListed, NotBesideReady, Unlocked, Listed, interest_satisfied, Op, OutOfBudget, AtRest
<1> QED BY <1>1, <1>2, <1>3, <1>4, <1>5 DEF IoInv


LEMMA Io_readiness ==
  ASSUME IoInv, NEW u \in Users, readiness(u)
  PROVE  IoInv'
<1>1. IoType'
  <2>1. CASE interest_satisfied(u, packed.bits)
    <3>1. user \in [Users -> UserType] /\ packed.bits \in SUBSET use.interests
      BY DEF IoInv, IoType, DriverType, UserType
    <3>2. user' = [user EXCEPT ![u] = [user[u] EXCEPT !.pc = "detach", !.event = packed.bits]]
      BY <2>1, <3>1 DEF readiness
    <3> QED BY <3>1, <3>2 DEF IoInv, IoType, DriverType, UserType, readiness
  <2>2. CASE ~interest_satisfied(u, packed.bits)
    BY <2>2 DEF IoInv, IoType, DriverType, UserType, readiness
  <2> QED BY <2>1, <2>2
<1>2. ClosedIsQuiet' /\ PoppedIsWoken' /\ FoundIsPast'
  BY DEF IoInv, IoType, DriverType, UserType, ClosedIsQuiet, PoppedIsWoken, FoundIsPast, readiness, AfterReady
<1>3. SeenBesideListed'
  BY NoneIsNoUser DEF IoInv, IoType, DriverType, UserType, FoundIsPast, SeenBesideListed, NotBesideReady, Unlocked, Listed,
     interest_satisfied, Op, readiness, AfterReady
<1>4. ParkedIsHeard'
  BY NoneIsNoUser DEF IoInv, IoType, DriverType, UserType, ClosedIsQuiet, PoppedIsWoken, ParkedIsHeard, Listed, interest_satisfied, Op, readiness, AfterReady
<1>5. NotBesideReady'
  BY NoneIsNoUser DEF IoInv, IoType, DriverType, UserType, SeenBesideListed, NotBesideReady, Unlocked, Listed, interest_satisfied, Op, readiness, AfterReady
<1> QED BY <1>1, <1>2, <1>3, <1>4, <1>5 DEF IoInv


LEMMA Io_detach ==
  ASSUME IoInv, NEW u \in Users, detach(u)
  PROVE  IoInv'
<1>1. IoType'
  BY NoneIsNoUser DEF IoInv, IoType, DriverType, UserType, detach, Detached, Go, AfterReady
<1>2. ClosedIsQuiet' /\ PoppedIsWoken' /\ FoundIsPast'
  BY DEF IoInv, IoType, DriverType, UserType, ClosedIsQuiet, PoppedIsWoken, FoundIsPast, detach, Detached, Go, AfterReady
<1>3. SeenBesideListed'
  BY NoneIsNoUser DEF IoInv, IoType, DriverType, UserType, FoundIsPast, SeenBesideListed, NotBesideReady, Unlocked, Listed,
     interest_satisfied, Op, detach, Detached, Go, AfterReady
<1>4. ParkedIsHeard'
  BY NoneIsNoUser DEF IoInv, IoType, DriverType, UserType, ClosedIsQuiet, PoppedIsWoken, ParkedIsHeard, Listed, interest_satisfied, Op, detach, Detached, Go, AfterReady
<1>5. NotBesideReady'
  BY NoneIsNoUser DEF IoInv, IoType, DriverType, UserType, SeenBesideListed, NotBesideReady, Unlocked, Listed, interest_satisfied, Op, detach, Detached, Go, AfterReady
<1> QED BY <1>1, <1>2, <1>3, <1>4, <1>5 DEF IoInv


LEMMA Io_add_waiter ==
  ASSUME IoInv, NEW u \in Users, add_waiter(u)
  PROVE  IoInv'
<1>1. IoType'
  BY NoneIsNoUser DEF IoInv, IoType, DriverType, UserType, add_waiter, Rechecks, Go, AfterReady
<1>2. ClosedIsQuiet' /\ PoppedIsWoken' /\ FoundIsPast'
  BY DEF IoInv, IoType, DriverType, UserType, ClosedIsQuiet, PoppedIsWoken, FoundIsPast, add_waiter, Rechecks, Go, AfterReady
<1>3. SeenBesideListed'
  BY NoneIsNoUser DEF IoInv, IoType, DriverType, UserType, FoundIsPast, SeenBesideListed, NotBesideReady, Unlocked, Listed,
     interest_satisfied, Op, add_waiter, Rechecks, Go, AfterReady
<1>4. ParkedIsHeard'
  BY NoneIsNoUser DEF IoInv, IoType, DriverType, UserType, ClosedIsQuiet, PoppedIsWoken, ParkedIsHeard, Listed, interest_satisfied, Op, add_waiter, Rechecks, Go, AfterReady
<1>5. NotBesideReady'
  BY NoneIsNoUser DEF IoInv, IoType, DriverType, UserType, SeenBesideListed, NotBesideReady, Unlocked, Listed, interest_satisfied, Op, add_waiter, Rechecks, Go, AfterReady
<1> QED BY <1>1, <1>2, <1>3, <1>4, <1>5 DEF IoInv


LEMMA Io_DropWait ==
  ASSUME IoInv, NEW u \in Users, DropWait(u)
  PROVE  IoInv'
<1>1. IoType'
  BY NoneIsNoUser DEF IoInv, IoType, DriverType, UserType, DropWait, Detached, AtRest
<1>2. ClosedIsQuiet' /\ PoppedIsWoken' /\ FoundIsPast'
  BY DEF IoInv, IoType, DriverType, UserType, ClosedIsQuiet, PoppedIsWoken, FoundIsPast, DropWait, Detached, AtRest
<1>3. SeenBesideListed'
  BY NoneIsNoUser DEF IoInv, IoType, DriverType, UserType, FoundIsPast, SeenBesideListed, NotBesideReady, Unlocked, Listed,
     interest_satisfied, Op, DropWait, Detached, AtRest
<1>4. ParkedIsHeard'
  BY NoneIsNoUser DEF IoInv, IoType, DriverType, UserType, ClosedIsQuiet, PoppedIsWoken, ParkedIsHeard, Listed, interest_satisfied, Op, DropWait, Detached, AtRest
<1>5. NotBesideReady'
  BY NoneIsNoUser DEF IoInv, IoType, DriverType, UserType, SeenBesideListed, NotBesideReady, Unlocked, Listed, interest_satisfied, Op, DropWait, Detached, AtRest
<1> QED BY <1>1, <1>2, <1>3, <1>4, <1>5 DEF IoInv


LEMMA Io_CallOk ==
  ASSUME IoInv, NEW u \in Users, CallOk(u)
  PROVE  IoInv'
<1>1. IoType'
  BY NoneIsNoUser DEF IoInv, IoType, DriverType, UserType, CallOk, AtRest, Go
<1>2. ClosedIsQuiet' /\ PoppedIsWoken' /\ FoundIsPast'
  BY DEF IoInv, IoType, DriverType, UserType, ClosedIsQuiet, PoppedIsWoken, FoundIsPast, CallOk, AtRest, Go
<1>3. SeenBesideListed'
  BY NoneIsNoUser DEF IoInv, IoType, DriverType, UserType, FoundIsPast, SeenBesideListed, NotBesideReady, Unlocked, Listed,
     interest_satisfied, Op, CallOk, AtRest, Go
<1>4. ParkedIsHeard'
  BY NoneIsNoUser DEF IoInv, IoType, DriverType, UserType, ClosedIsQuiet, PoppedIsWoken, ParkedIsHeard, Listed, interest_satisfied, Op, CallOk, AtRest, Go
<1>5. NotBesideReady'
  BY NoneIsNoUser DEF IoInv, IoType, DriverType, UserType, SeenBesideListed, NotBesideReady, Unlocked, Listed, interest_satisfied, Op, CallOk, AtRest, Go
<1> QED BY <1>1, <1>2, <1>3, <1>4, <1>5 DEF IoInv


LEMMA Io_CallBlocks ==
  ASSUME IoInv, NEW u \in Users, CallBlocks(u)
  PROVE  IoInv'
<1>1. IoType'
  BY NoneIsNoUser DEF IoInv, IoType, DriverType, UserType, CallBlocks, Go
<1>2. ClosedIsQuiet' /\ PoppedIsWoken' /\ FoundIsPast'
  BY DEF IoInv, IoType, DriverType, UserType, ClosedIsQuiet, PoppedIsWoken, FoundIsPast, CallBlocks, Go
<1>3. SeenBesideListed'
  BY NoneIsNoUser DEF IoInv, IoType, DriverType, UserType, FoundIsPast, SeenBesideListed, NotBesideReady, Unlocked, Listed,
     interest_satisfied, Op, CallBlocks, Go
<1>4. ParkedIsHeard'
  BY NoneIsNoUser DEF IoInv, IoType, DriverType, UserType, ClosedIsQuiet, PoppedIsWoken, ParkedIsHeard, Listed, interest_satisfied, Op, CallBlocks, Go
<1>5. NotBesideReady'
  BY NoneIsNoUser DEF IoInv, IoType, DriverType, UserType, SeenBesideListed, NotBesideReady, Unlocked, Listed, interest_satisfied, Op, CallBlocks, Go
<1> QED BY <1>1, <1>2, <1>3, <1>4, <1>5 DEF IoInv


LEMMA Io_CallFails ==
  ASSUME IoInv, NEW u \in Users, CallFails(u)
  PROVE  IoInv'
<1>1. IoType'
  BY NoneIsNoUser DEF IoInv, IoType, DriverType, UserType, CallFails, AtRest, Rearms
<1>2. ClosedIsQuiet' /\ PoppedIsWoken' /\ FoundIsPast'
  BY DEF IoInv, IoType, DriverType, UserType, ClosedIsQuiet, PoppedIsWoken, FoundIsPast, CallFails, AtRest, Rearms
<1>3. SeenBesideListed'
  BY NoneIsNoUser DEF IoInv, IoType, DriverType, UserType, FoundIsPast, SeenBesideListed, NotBesideReady, Unlocked, Listed,
     interest_satisfied, Op, CallFails, AtRest, Rearms
<1>4. ParkedIsHeard'
  BY NoneIsNoUser DEF IoInv, IoType, DriverType, UserType, ClosedIsQuiet, PoppedIsWoken, ParkedIsHeard, Listed, interest_satisfied, Op, CallFails, AtRest, Rearms
<1>5. NotBesideReady'
  BY NoneIsNoUser DEF IoInv, IoType, DriverType, UserType, SeenBesideListed, NotBesideReady, Unlocked, Listed, interest_satisfied, Op, CallFails, AtRest, Rearms
<1> QED BY <1>1, <1>2, <1>3, <1>4, <1>5 DEF IoInv


LEMMA Io_Rearm ==
  ASSUME IoInv, NEW u \in Users, Rearm(u)
  PROVE  IoInv'
<1>1. IoType'
  BY NoneIsNoUser DEF IoInv, IoType, DriverType, UserType, Rearm, Go
<1>2. ClosedIsQuiet' /\ PoppedIsWoken' /\ FoundIsPast'
  BY DEF IoInv, IoType, DriverType, UserType, ClosedIsQuiet, PoppedIsWoken, FoundIsPast, Rearm, Go
<1>3. SeenBesideListed'
  BY NoneIsNoUser DEF IoInv, IoType, DriverType, UserType, FoundIsPast, SeenBesideListed, NotBesideReady, Unlocked, Listed,
     interest_satisfied, Op, Rearm, Go
<1>4. ParkedIsHeard'
  BY NoneIsNoUser DEF IoInv, IoType, DriverType, UserType, ClosedIsQuiet, PoppedIsWoken, ParkedIsHeard, Listed, interest_satisfied, Op, Rearm, Go
<1>5. NotBesideReady'
  BY NoneIsNoUser DEF IoInv, IoType, DriverType, UserType, SeenBesideListed, NotBesideReady, Unlocked, Listed, interest_satisfied, Op, Rearm, Go
<1> QED BY <1>1, <1>2, <1>3, <1>4, <1>5 DEF IoInv


LEMMA Io_Snap ==
  ASSUME IoInv, NEW u \in Users, Snap(u)
  PROVE  IoInv'
<1>1. IoType'
  <2>1. CASE interest_satisfied(u, packed.bits)
    <3>1. user \in [Users -> UserType] /\ packed.bits \in SUBSET use.interests
      BY DEF IoInv, IoType, DriverType, UserType
    <3>2. user' = [user EXCEPT ![u] = [user[u] EXCEPT !.pc = "clear_again", !.again = packed.bits]]
      BY <2>1, <3>1 DEF Snap
    <3> QED BY <3>1, <3>2 DEF IoInv, IoType, DriverType, UserType, Snap
  <2>2. CASE ~interest_satisfied(u, packed.bits)
    BY <2>2 DEF IoInv, IoType, DriverType, UserType, Snap
  <2> QED BY <2>1, <2>2
<1>2. ClosedIsQuiet' /\ PoppedIsWoken' /\ FoundIsPast'
  BY DEF IoInv, IoType, DriverType, UserType, ClosedIsQuiet, PoppedIsWoken, FoundIsPast, Snap
<1>3. SeenBesideListed'
  BY NoneIsNoUser DEF IoInv, IoType, DriverType, UserType, FoundIsPast, SeenBesideListed, NotBesideReady, Unlocked, Listed,
     interest_satisfied, Op, Snap
<1>4. ParkedIsHeard'
  BY NoneIsNoUser DEF IoInv, IoType, DriverType, UserType, ClosedIsQuiet, PoppedIsWoken, ParkedIsHeard, Listed, interest_satisfied, Op, Snap
<1>5. NotBesideReady'
  BY NoneIsNoUser DEF IoInv, IoType, DriverType, UserType, SeenBesideListed, NotBesideReady, Unlocked, Listed, interest_satisfied, Op, Snap
<1> QED BY <1>1, <1>2, <1>3, <1>4, <1>5 DEF IoInv


LEMMA Io_ClearAgain ==
  ASSUME IoInv, NEW u \in Users, ClearAgain(u)
  PROVE  IoInv'
<1>1. IoType'
  BY NoneIsNoUser DEF IoInv, IoType, DriverType, UserType, ClearAgain, Go, clear_ready
<1>2. ClosedIsQuiet' /\ PoppedIsWoken' /\ FoundIsPast'
  BY DEF IoInv, IoType, DriverType, UserType, ClosedIsQuiet, PoppedIsWoken, FoundIsPast, ClearAgain, Go, clear_ready
<1>3. SeenBesideListed'
  BY NoneIsNoUser DEF IoInv, IoType, DriverType, UserType, FoundIsPast, SeenBesideListed, NotBesideReady, Unlocked, Listed,
     interest_satisfied, Op, ClearAgain, Go, clear_ready
<1>4. ParkedIsHeard'
  BY NoneIsNoUser DEF IoInv, IoType, DriverType, UserType, ClosedIsQuiet, PoppedIsWoken, ParkedIsHeard, Listed, interest_satisfied, Op, ClearAgain, Go, clear_ready
<1>5. NotBesideReady'
  BY NoneIsNoUser DEF IoInv, IoType, DriverType, UserType, SeenBesideListed, NotBesideReady, Unlocked, Listed, interest_satisfied, Op, ClearAgain, Go, clear_ready
<1> QED BY <1>1, <1>2, <1>3, <1>4, <1>5 DEF IoInv


LEMMA Io_ClearEvent ==
  ASSUME IoInv, NEW u \in Users, ClearEvent(u)
  PROVE  IoInv'
<1>1. IoType'
  BY NoneIsNoUser DEF IoInv, IoType, DriverType, UserType, ClearEvent, clear_ready, AtRest
<1>2. ClosedIsQuiet' /\ PoppedIsWoken' /\ FoundIsPast'
  BY DEF IoInv, IoType, DriverType, UserType, ClosedIsQuiet, PoppedIsWoken, FoundIsPast, ClearEvent, clear_ready, AtRest
<1>3. SeenBesideListed'
  BY NoneIsNoUser DEF IoInv, IoType, DriverType, UserType, FoundIsPast, SeenBesideListed, NotBesideReady, Unlocked, Listed,
     interest_satisfied, Op, ClearEvent, clear_ready, AtRest
<1>4. ParkedIsHeard'
  BY NoneIsNoUser DEF IoInv, IoType, DriverType, UserType, ClosedIsQuiet, PoppedIsWoken, ParkedIsHeard, Listed, interest_satisfied, Op, ClearEvent, clear_ready, AtRest
<1>5. NotBesideReady'
  BY NoneIsNoUser DEF IoInv, IoType, DriverType, UserType, SeenBesideListed, NotBesideReady, Unlocked, Listed, interest_satisfied, Op, ClearEvent, clear_ready, AtRest
<1> QED BY <1>1, <1>2, <1>3, <1>4, <1>5 DEF IoInv

(* The generations an event and a registration carry. *)
LEMMA GenStep ==
  ASSUME IoInv, IoInv', GenInv, MaxGen < 2 ^ GenBits, [Next]_vars
  PROVE  GenInv'
<1> USE DEF GenInv, OwnEvents, IoInv, IoType
<1>0. reg.gen \in Nat /\ MaxGen \in Nat /\ Truncated(reg.gen) = reg.gen
  <2>1. reg.gen \in Nat /\ MaxGen \in Nat /\ 2 ^ GenBits \in Nat /\ reg.gen <= MaxGen
    BY GenBitsNat
  <2>2. reg.gen < 2 ^ GenBits
    BY <2>1
  <2> QED BY <2>1, <2>2, TruncatedFacts
<1>1. CASE register
  BY <1>0, <1>1 DEF register
<1>2. CASE wait
  <2>1. driver'.pc = "lookup"
    BY <1>2 DEF wait, Idle
  <2> QED BY <1>2, <2>1 DEF wait, Truncated
<1>3. CASE dispatch
  BY <1>0, <1>3 DEF dispatch, Idle, Stale
<1>4. CASE DispatchGone \/ WakePopped
  <2>1. driver'.pc = "idle" /\ UNCHANGED <<reg, packed, history>>
    BY <1>4 DEF DispatchGone, WakePopped, Idle
  <2> QED BY <2>1 DEF Truncated
<1>10. CASE LoadReady
  BY <1>10 DEF LoadReady, Truncated
<1>5. CASE set_readiness_and_wake
  BY <1>5 DEF set_readiness_and_wake, Live, Truncated
<1>6. CASE deregister \/ Arrive
  BY <1>6 DEF deregister, Arrive, Truncated
<1>7. ASSUME NEW u \in Users,
             \/ Begin(u) \/ Repoll(u) \/ OutOfBudget(u) \/ readiness(u) \/ detach(u) \/ add_waiter(u) \/ DropWait(u)
             \/ CallOk(u) \/ CallBlocks(u) \/ Rearm(u) \/ Snap(u)
      PROVE  GenInv'
  BY <1>7 DEF Begin, Repoll, OutOfBudget, readiness, detach, add_waiter, DropWait, CallOk, CallBlocks, Rearm, Snap, Truncated
<1>8. ASSUME NEW u \in Users, CallFails(u) \/ ClearAgain(u) \/ ClearEvent(u)
      PROVE  GenInv'
  BY <1>8 DEF CallFails, ClearAgain, ClearEvent, clear_ready, Truncated
<1>9. CASE UNCHANGED vars
  BY <1>9 DEF vars, Truncated
<1> QED BY <1>1, <1>2, <1>3, <1>4, <1>5, <1>6, <1>7, <1>8, <1>9, <1>10 DEF Next
LEMMA IoStep ==
  ASSUME IoInv, [Next]_vars
  PROVE  IoInv'
<1>1. ASSUME NEW u \in Users,
             \/ Begin(u) \/ Repoll(u) \/ OutOfBudget(u) \/ readiness(u) \/ detach(u) \/ add_waiter(u) \/ DropWait(u)
             \/ CallOk(u) \/ CallBlocks(u) \/ CallFails(u) \/ Rearm(u) \/ Snap(u) \/ ClearAgain(u) \/ ClearEvent(u)
      PROVE  IoInv'
  BY <1>1, Io_Begin, Io_Repoll, Io_OutOfBudget, Io_readiness, Io_detach, Io_add_waiter, Io_DropWait, Io_CallOk,
     Io_CallBlocks, Io_CallFails, Io_Rearm, Io_Snap, Io_ClearAgain, Io_ClearEvent
<1>2. CASE UNCHANGED vars
  BY <1>2 DEF vars, IoInv, IoType, DriverType, UserType, ClosedIsQuiet, PoppedIsWoken, FoundIsPast, SeenBesideListed,
     ParkedIsHeard, NotBesideReady, Unlocked, Listed, interest_satisfied, Op
<1> QED
  BY <1>1, <1>2, Io_register, Io_deregister, Io_Arrive, Io_wait, Io_dispatch, Io_DispatchGone, Io_LoadReady,
     Io_set_readiness_and_wake, Io_WakePopped DEF Next

(* ParkedTasksHeard: for any tasks, operations, registered interests and number of    *)
(* registrations, a task parked on readiness (Readiness::poll) stays on a slot or on   *)
(* the list of its ScheduledIo until it is taken to be woken, and nobody is listed     *)
(* beside the readiness it waits for, although poll first looks without the lock.      *)
THEOREM ParkedTasksHeard == Spec => [](ParkedIsHeard /\ NotBesideReady)
<1>1. Init => IoInv
  BY IoInitial
<1>2. IoInv /\ [Next]_vars => IoInv'
  BY IoStep
<1>3. IoInv => ParkedIsHeard /\ NotBesideReady
  BY DEF IoInv
<1> QED BY <1>1, <1>2, <1>3, PTL DEF Spec

(* ReadinessSafe: with fewer registrations of an index than generations that packed    *)
(* tells apart, an event is in addition only applied to the registration it was        *)
(* fetched for (DriverShared::dispatch), however late it is dispatched.                *)
THEOREM ReadinessSafe ==
  ASSUME MaxGen < 2 ^ GenBits
  PROVE  Spec => []ReadinessSound
<1>1. Init => IoInv /\ GenInv
  <2>1. Init => GenInv
    BY GenBitsNat, TruncatedFacts DEF Init, GenInv, OwnEvents, Idle
  <2> QED BY <2>1, IoInitial
<1>2. (IoInv /\ GenInv) /\ [Next]_vars => (IoInv /\ GenInv)'
  BY IoStep, GenStep
<1>3. IoInv /\ GenInv => ReadinessSound
  BY DEF IoInv, GenInv, ReadinessSound
<1> QED BY <1>1, <1>2, <1>3, PTL DEF Spec
-----------------------------------------------------------------------------
(* The io_uring driver.  Pipe is what the kernel has not started, in order. *)
Pipe == taken \o sq
OpSqe(f) == [what |-> "op", fut |-> f]

Pcs == {"new", "started", "pending", "looked", "ready", "dropping", "cancelling", "done"}
ClassNames == {"rw", "vec", "plain", "accept", "maccept", "mrecv"}
SqeType == [what : {"op", "provide", "cancel", "remove"}, fut : Futs]
CqeType == [what : {"op", "provide", "cancel", "remove"}, fut : Futs, ok : BOOLEAN, more : BOOLEAN]
FutType == [class : ClassNames, pc : Pcs, woken : BOOLEAN]
EntryType ==
  [slab : {"none", "ops", "orphaned"}, result : {"none", "ok", "err"}, waker : BOOLEAN, events : Seq(BOOLEAN),
   terminal : BOOLEAN, cleanup : {"done", "todo", "queued"}]
ReapType == [pc : {"idle", "loop", "submit", "wake"}, left : Nat, wake : SUBSET Futs, submit : BOOLEAN]

UringType ==
  /\ fut \in [Futs -> FutType] /\ home \in [Futs -> {"future", "ring", "caller", "freed"}]
  /\ entry \in [Futs -> EntryType] /\ kern \in [Futs -> {"none", "active", "over"}]
  /\ sq \in Seq(SqeType) /\ taken \in Seq(SqeType) /\ cq \in Seq(CqeType)
  /\ reap \in ReapType /\ ring \in {"open", "closing", "closed", "abandoned"}
  /\ spoilt \subseteq Futs

(* The submission queue is never overrun, a reap never reads past the posted CQEs, *)
(* wakers are carried by a running reap only, and a dropped ring has no futures.   *)
RingOk ==
  /\ Len(sq) <= Entries
  /\ reap.pc = "loop" => reap.left <= Len(cq)
  /\ reap.pc = "idle" => reap.wake = {}
  /\ ring # "open" => \A f \in Futs : fut[f].pc = "done"

(* What a queued SQE and a posted CQE say of the future they are for. *)
Leaving(f) == fut[f].pc \in {"cancelling", "done"}
SqeOk(s) ==
  /\ s.what = "op" => kern[s.fut] = "none" /\ fut[s.fut].pc # "new"
  /\ s.what = "cancel" => Leaving(s.fut)
  /\ s.what \in {"provide", "remove"} => fut[s.fut].class = "mrecv"
CqeOk(c) ==
  /\ c.what = "op" /\ ~c.more => kern[c.fut] = "over"
  /\ c.what = "cancel" => Leaving(c.fut) /\ (c.ok => kern[c.fut] = "over")
  /\ c.what \in {"provide", "remove"} => fut[c.fut].class = "mrecv"
  /\ c.more => c.what = "op" /\ fut[c.fut].class \in U!Multishot

(* A request is queued once, and of a request that is over the last CQE comes last. *)
Once(q, x) == \A i, j \in 1 .. Len(q) : q[i] = x /\ q[j] = x => i = j
Ends(c, f) == c.what = "op" /\ c.fut = f /\ ~c.more
Goes(c, f) == c.what = "op" /\ c.fut = f /\ c.more
HasEnd(q, f) == \E i \in 1 .. Len(q) : Ends(q[i], f)
Followed(q, f) == \A i \in 1 .. Len(q) : Goes(q[i], f) => \E j \in 1 .. Len(q) : j > i /\ Ends(q[j], f)

QueuesOk ==
  /\ \A s : Occurs(Pipe, s) => SqeOk(s)
  /\ \A f \in Futs : Once(Pipe, OpSqe(f))
  /\ \A c : Occurs(cq, c) => CqeOk(c)
  /\ \A f \in Futs : kern[f] # "active" => Followed(cq, f)

(* Where a future, its entry and its request in the kernel stand to each other.  *)
InFlight(f) == kern[f] = "active" \/ Occurs(Pipe, OpSqe(f))
PlaceOk(f) ==
  /\ fut[f].pc = "new" => kern[f] = "none" /\ entry[f].slab = "none"
  /\ fut[f].pc \in {"started", "pending", "looked", "ready"} => entry[f].slab = "ops"
  /\ entry[f].slab = "none" => entry[f] = U!NoEntry
  /\ entry[f].slab # "none" => home[f] = "ring"
  /\ entry[f].cleanup # "done" => fut[f].class = "mrecv"
LentOk(f) ==
  /\ entry[f].slab # "none" /\ kern[f] = "none" => Occurs(Pipe, OpSqe(f))
  /\ entry[f].slab # "none" /\ entry[f].result = "none" /\ ~entry[f].terminal => InFlight(f) \/ HasEnd(cq, f)
  /\ InFlight(f) /\ f \notin spoilt /\ ring # "abandoned" => entry[f].slab # "none"
EndOk(f) ==
  /\ entry[f].result # "none" => kern[f] = "over" /\ fut[f].class \notin U!Multishot
  /\ entry[f].terminal => kern[f] = "over" \/ f \in spoilt
  /\ entry[f].slab = "orphaned" =>
       entry[f].result = "none" /\ (entry[f].terminal => entry[f].cleanup # "done" \/ entry[f].events # <<>>)
WakeOk(f) ==
  /\ entry[f].slab = "ops" /\ entry[f].result = "none" /\ fut[f].class \notin U!Multishot => entry[f].waker
  /\ fut[f].pc \in {"started", "pending", "looked"} /\ entry[f].result # "none" => fut[f].woken \/ f \in reap.wake

FutOk(f) == PlaceOk(f) /\ LentOk(f) /\ EndOk(f) /\ WakeOk(f)

UringInv == UringType /\ RingOk /\ QueuesOk /\ \A f \in Futs : FutOk(f)
(* Queues, at their two ends. *)
LEMMA JoinFacts ==
  ASSUME NEW S, NEW q \in Seq(S), NEW r \in Seq(S), NEW x
  PROVE  /\ Once(q, x) /\ ~Occurs(r, x) => Once(q \o r, x)
         /\ ~Occurs(q, x) /\ Once(r, x) => Once(q \o r, x)
<1> DEFINE t == q \o r
           m == Len(q)
           n == Len(r)
<1>1. /\ m \in Nat /\ n \in Nat /\ t \in Seq(S) /\ Len(t) = m + n
      /\ \A i \in 1 .. m : t[i] = q[i]
      /\ \A i \in 1 .. m + n : i > m => t[i] = r[i - m] /\ i - m \in 1 .. n
  OBVIOUS
<1> HIDE DEF t, m, n
<1>2. CASE Once(q, x) /\ ~Occurs(r, x)
  <2>1. \A i \in 1 .. m + n : t[i] = x => i \in 1 .. m /\ q[i] = x
    <3>1. \A i \in 1 .. m + n : i \in 1 .. m \/ (t[i] = r[i - m] /\ i - m \in 1 .. n)
      BY <1>1
    <3>2. \A i \in 1 .. n : r[i] # x
      BY <1>2 DEF Occurs, n
    <3> QED BY <1>1, <3>1, <3>2
  <2> QED BY <1>1, <1>2, <2>1 DEF Once, m, t
<1>3. CASE ~Occurs(q, x) /\ Once(r, x)
  <2>1. \A i \in 1 .. m + n : t[i] = x => i - m \in 1 .. n /\ r[i - m] = x
    BY <1>1, <1>3 DEF Occurs, m
  <2>2. \A i, j \in 1 .. m + n : t[i] = x /\ t[j] = x => i - m = j - m
    BY <1>3, <2>1 DEF Once, n
  <2>3. \A i, j \in 1 .. m + n : i - m = j - m => i = j
    BY <1>1
  <2>4. Once(t, x)
    BY <1>1, <2>2, <2>3 DEF Once
  <2> QED BY <2>4 DEF t
<1> QED BY <1>2, <1>3 DEF t

LEMMA FrontFacts ==
  ASSUME NEW S, NEW q \in Seq(S), q # <<>>
  PROVE  /\ Tail(q) \in Seq(S) /\ Head(q) \in S /\ Len(q) > 0 /\ Len(Tail(q)) = Len(q) - 1 /\ Occurs(q, Head(q))
         /\ \A x : Occurs(q, x) <=> Occurs(Tail(q), x) \/ x = Head(q)
         /\ \A x : Once(q, x) => Once(Tail(q), x) /\ (x = Head(q) => ~Occurs(Tail(q), x))
         /\ \A f : HasEnd(q, f) <=> HasEnd(Tail(q), f) \/ Ends(Head(q), f)
         /\ \A f : Followed(q, f) => Followed(Tail(q), f) /\ (Goes(Head(q), f) => HasEnd(Tail(q), f))
<1> DEFINE t == Tail(q)
           n == Len(q)
<1>1. /\ n \in Nat /\ n > 0 /\ t \in Seq(S) /\ Len(t) = n - 1 /\ Head(q) = q[1] /\ q[1] \in S /\ 1 \in 1 .. n
      /\ \A i \in 1 .. n - 1 : t[i] = q[i + 1]
  OBVIOUS
<1>2. \A i \in 2 .. n : i - 1 \in 1 .. n - 1 /\ t[i - 1] = q[i]
  <2>1. \A i \in 2 .. n : i - 1 \in 1 .. n - 1 /\ i - 1 + 1 = i
    BY <1>1
  <2> QED BY <1>1, <2>1
<1> HIDE DEF t, n
<1>3. Occurs(q, Head(q)) /\ \A x : Occurs(q, x) <=> Occurs(t, x) \/ x = Head(q)
  <2>1. \A i \in 1 .. n : i = 1 \/ i \in 2 .. n
    BY <1>1
  <2>2. \A x : Occurs(q, x) => Occurs(t, x) \/ x = Head(q)
    BY <1>1, <1>2, <2>1 DEF Occurs, n
  <2>3. \A i \in 1 .. n - 1 : i + 1 \in 1 .. n
    BY <1>1
  <2>4. \A x : Occurs(t, x) \/ x = Head(q) => Occurs(q, x)
    BY <1>1, <2>3 DEF Occurs, n
  <2> QED BY <2>2, <2>4
<1>4. \A f : HasEnd(q, f) <=> HasEnd(t, f) \/ Ends(Head(q), f)
  <2>1. \A i \in 1 .. n : i = 1 \/ i \in 2 .. n
    BY <1>1
  <2>2. \A f : HasEnd(q, f) => HasEnd(t, f) \/ Ends(Head(q), f)
    BY <1>1, <1>2, <2>1 DEF HasEnd, n
  <2>3. \A i \in 1 .. n - 1 : i + 1 \in 1 .. n
    BY <1>1
  <2>4. \A f : HasEnd(t, f) \/ Ends(Head(q), f) => HasEnd(q, f)
    BY <1>1, <2>3 DEF HasEnd, n
  <2> QED BY <2>2, <2>4
<1>5. ASSUME NEW x, Once(q, x)
      PROVE  Once(t, x) /\ (x = Head(q) => ~Occurs(t, x))
  <2>1. \A i, j \in 1 .. n - 1 : t[i] = x /\ t[j] = x => i + 1 = j + 1
    BY <1>1, <1>5, SMTT(60) DEF Once, n
  <2>2. \A i \in 1 .. n - 1 : t[i] = x /\ x = Head(q) => FALSE
    BY <1>1, <1>5, SMTT(60) DEF Once, n
  <2> QED BY <1>1, <2>1, <2>2 DEF Once, Occurs
<1>6. ASSUME NEW f, Followed(q, f)
      PROVE  Followed(t, f) /\ (Goes(Head(q), f) => HasEnd(t, f))
  <2>1. ASSUME NEW i \in 1 .. n - 1, Goes(t[i], f)
        PROVE  \E j \in 1 .. n - 1 : j > i /\ Ends(t[j], f)
    <3>1. i + 1 \in 1 .. n /\ Goes(q[i + 1], f)
      BY <1>1, <2>1
    <3>2. PICK j \in 1 .. n : j > i + 1 /\ Ends(q[j], f)
      BY <1>6, <3>1 DEF Followed, n
    <3>3. j - 1 \in 1 .. n - 1 /\ j - 1 > i /\ j \in 2 .. n
      BY <1>1, <3>2
    <3> QED BY <1>2, <3>2, <3>3
  <2>2. ASSUME Goes(Head(q), f)
        PROVE  \E j \in 1 .. n - 1 : Ends(t[j], f)
    <3>1. PICK j \in 1 .. n : j > 1 /\ Ends(q[j], f)
      BY <1>1, <1>6, <2>2 DEF Followed, n
    <3>2. j - 1 \in 1 .. n - 1 /\ j \in 2 .. n
      BY <1>1, <3>1
    <3> QED BY <1>2, <3>1, <3>2
  <2> QED BY <1>1, <2>1, <2>2 DEF Followed, HasEnd
<1> QED BY <1>1, <1>3, <1>4, <1>5, <1>6 DEF t, n

LEMMA BackFacts ==
  ASSUME NEW S, NEW q \in Seq(S), NEW c \in S
  PROVE  /\ \A f : HasEnd(Append(q, c), f) <=> HasEnd(q, f) \/ Ends(c, f)
         /\ \A f : Followed(q, f) /\ ~Goes(c, f) => Followed(Append(q, c), f)
         /\ \A f : Ends(c, f) => Followed(Append(q, c), f)
<1> DEFINE t == Append(q, c)
           n == Len(q)
<1>1. /\ n \in Nat /\ t \in Seq(S) /\ Len(t) = n + 1 /\ t[n + 1] = c
      /\ \A i \in 1 .. n : t[i] = q[i]
  OBVIOUS
<1> HIDE DEF t, n
<1>2. \A i \in 1 .. n + 1 : i \in 1 .. n \/ i = n + 1
  BY <1>1
<1>3. n + 1 \in 1 .. n + 1 /\ \A i \in 1 .. n : i \in 1 .. n + 1 /\ n + 1 > i
  BY <1>1
<1>4. \A f : HasEnd(t, f) <=> HasEnd(q, f) \/ Ends(c, f)
  BY <1>1, <1>2, <1>3 DEF HasEnd, n
<1>5. ASSUME NEW f, Followed(q, f), ~Goes(c, f)
      PROVE  Followed(t, f)
  <2>1. ASSUME NEW i \in 1 .. n + 1, Goes(t[i], f)
        PROVE  \E j \in 1 .. n + 1 : j > i /\ Ends(t[j], f)
    <3>1. i \in 1 .. n /\ Goes(q[i], f)
      BY <1>1, <1>2, <1>5, <2>1
    <3>2. PICK j \in 1 .. n : j > i /\ Ends(q[j], f)
      BY <1>5, <3>1 DEF Followed, n
    <3> QED BY <1>1, <1>3, <3>2
  <2> QED BY <1>1, <2>1 DEF Followed
<1>6. ASSUME NEW f, Ends(c, f)
      PROVE  Followed(t, f)
  <2>1. ASSUME NEW i \in 1 .. n + 1, Goes(t[i], f)
        PROVE  \E j \in 1 .. n + 1 : j > i /\ Ends(t[j], f)
    <3>1. i \in 1 .. n
      BY <1>1, <1>2, <1>6, <2>1 DEF Ends, Goes
    <3> QED BY <1>1, <1>3, <1>6, <3>1
  <2> QED BY <1>1, <2>1 DEF Followed
<1> QED BY <1>4, <1>5, <1>6 DEF t
(* The submission queue and what the kernel has taken of it. *)
LEMMA PipeFacts ==
  ASSUME NEW S, NEW a \in Seq(S), NEW b \in Seq(S), NEW r \in Seq(S)
  PROVE  /\ (a \o b) \o <<>> = a \o b /\ a \o (b \o r) = (a \o b) \o r /\ a \o <<>> = a /\ <<>> \o a = a
         /\ a # <<>> => /\ a \o b # <<>> /\ Tail(a \o b) = Tail(a) \o b /\ Head(a \o b) = Head(a)
<1>1. (a \o b) \o <<>> = a \o b /\ a \o <<>> = a /\ <<>> \o a = a
  OBVIOUS
<1>2. a \o (b \o r) = (a \o b) \o r
  OBVIOUS
<1>3. ASSUME a # <<>>
      PROVE  a \o b # <<>> /\ Tail(a \o b) = Tail(a) \o b /\ Head(a \o b) = Head(a)
  BY <1>3
<1> QED BY <1>1, <1>2, <1>3

LEMMA LentNames ==
  ASSUME UringType, NEW f \in Futs
  PROVE  U!Lent(f) <=> InFlight(f)
<1>1. \A q \in Seq(SqeType) : Occurs(q, OpSqe(f)) <=> \E i \in DOMAIN q : q[i] = U!Sqe("op", f)
  BY DEF Occurs, OpSqe, U!Sqe
<1>2. Occurs(Pipe, OpSqe(f)) <=> Occurs(taken, OpSqe(f)) \/ Occurs(sq, OpSqe(f))
  BY ConcatFacts DEF UringType, Pipe
<1> QED BY <1>1, <1>2 DEF U!Lent, InFlight, UringType

LEMMA UringImplies == UringInv => UringSound
<1> SUFFICES ASSUME UringInv PROVE UringSound
  OBVIOUS
<1>1. UringType /\ \A f \in Futs : FutOk(f) /\ (U!Lent(f) <=> InFlight(f))
  BY LentNames DEF UringInv
<1>2. U!KernelBuffersAlive
  BY <1>1 DEF FutOk, PlaceOk, LentOk, U!KernelBuffersAlive
<1>3. U!CompletionReaches
  BY <1>1 DEF FutOk, WakeOk, U!CompletionReaches
<1>4. U!OrphansDrain
  <2> SUFFICES ASSUME NEW f \in Futs, entry[f].slab = "orphaned", ~U!Lent(f), ~entry[f].terminal
               PROVE  \E i \in DOMAIN cq : cq[i].fut = f /\ cq[i].what = "op"
    BY <1>1 DEF FutOk, EndOk, U!OrphansDrain
  <2>1. HasEnd(cq, f)
    BY <1>1 DEF FutOk, LentOk, EndOk
  <2> QED BY <1>1, <2>1 DEF HasEnd, Ends, UringType
<1> QED BY <1>2, <1>3, <1>4 DEF UringSound, U!UringSound

-----------------------------------------------------------------------------
(* What a step leaves alone.  Same(f): nothing that the invariant says of f is lost. *)
Same(f) ==
  /\ fut'[f] = fut[f] /\ home'[f] = home[f] /\ entry'[f] = entry[f] /\ kern'[f] = kern[f]
  /\ Occurs(Pipe', OpSqe(f)) <=> Occurs(Pipe, OpSqe(f))
  /\ HasEnd(cq, f) => HasEnd(cq', f)
  /\ f \in spoilt => f \in spoilt'
  /\ ring = "abandoned" => ring' = "abandoned"
  /\ f \in reap.wake => f \in reap'.wake

LEMMA SameOk ==
  ASSUME NEW f \in Futs, FutOk(f), Same(f)
  PROVE  FutOk(f)'
<1>1. PlaceOk(f)'
  BY DEF Same, FutOk, PlaceOk
<1>2. LentOk(f)'
  BY DEF Same, FutOk, LentOk, InFlight, OpSqe
<1>3. EndOk(f)'
  BY DEF Same, FutOk, EndOk
<1>4. WakeOk(f)'
  BY DEF Same, FutOk, WakeOk
<1> QED BY <1>1, <1>2, <1>3, <1>4 DEF FutOk

(* Futures only move on. *)
Onward(f) ==
  /\ fut'[f].class = fut[f].class
  /\ Leaving(f) => Leaving(f)'
  /\ fut[f].pc # "new" => fut'[f].pc # "new"

(* A step that queues the SQEs r and posts nothing. *)
LEMMA QueuesGrow ==
  ASSUME UringType, QueuesOk, \A f \in Futs : Onward(f), kern' = kern,
         \A c : Occurs(cq', c) => Occurs(cq, c), \A f \in Futs : Followed(cq, f) => Followed(cq', f),
         NEW r \in Seq(SqeType), Pipe' = Pipe \o r, \A s \in SqeType : Occurs(r, s) => SqeOk(s)',
         \A f \in Futs : Occurs(r, OpSqe(f)) => ~Occurs(Pipe, OpSqe(f)) /\ Once(r, OpSqe(f))
  PROVE  /\ QueuesOk'
         /\ \A f \in Futs : Occurs(Pipe', OpSqe(f)) <=> Occurs(Pipe, OpSqe(f)) \/ Occurs(r, OpSqe(f))
<1>1. Pipe \in Seq(SqeType)
  BY ConcatFacts DEF UringType, Pipe
<1>2. \A s : Occurs(Pipe', s) <=> Occurs(Pipe, s) \/ Occurs(r, s)
  BY <1>1, ConcatFacts
<1>3. \A f \in Futs : Once(Pipe', OpSqe(f))
  <2>1. \A f \in Futs : /\ Once(Pipe, OpSqe(f)) /\ ~Occurs(r, OpSqe(f)) => Once(Pipe \o r, OpSqe(f))
                        /\ ~Occurs(Pipe, OpSqe(f)) /\ Once(r, OpSqe(f)) => Once(Pipe \o r, OpSqe(f))
    BY <1>1, JoinFacts
  <2> QED BY <2>1 DEF QueuesOk
<1>4. \A s : Occurs(Pipe', s) => SqeOk(s)'
  <2> SUFFICES ASSUME NEW s, Occurs(Pipe', s) PROVE SqeOk(s)'
    OBVIOUS
  <2>1. CASE Occurs(Pipe, s)
    <3>1. SqeOk(s) /\ s \in SqeType
      BY <1>1, <2>1 DEF QueuesOk, Occurs
    <3>2. s.fut \in Futs
      BY <3>1 DEF SqeType
    <3> QED BY <3>1, <3>2 DEF SqeOk, Onward, Leaving
  <2>2. CASE Occurs(r, s)
    <3>1. s \in SqeType
      BY <2>2 DEF Occurs
    <3> QED BY <2>2, <3>1
  <2> QED BY <1>2, <2>1, <2>2
<1>5. \A c : Occurs(cq', c) => CqeOk(c)'
  <2> SUFFICES ASSUME NEW c, Occurs(cq, c) PROVE CqeOk(c)'
    OBVIOUS
  <2>1. CqeOk(c) /\ c \in CqeType
    BY DEF QueuesOk, Occurs, UringType
  <2>2. c.fut \in Futs
    BY <2>1 DEF CqeType
  <2> QED BY <2>1, <2>2 DEF CqeOk, Onward, Leaving, U!Multishot
<1> QED BY <1>2, <1>3, <1>4, <1>5 DEF QueuesOk, OpSqe

(* A step of one future that queues the SQEs r and leaves the kernel and the reaper alone. *)
Apart(g) == \A f \in Futs \ {g} : fut'[f] = fut[f] /\ home'[f] = home[f] /\ entry'[f] = entry[f]

LEMMA FutureStep ==
  ASSUME UringInv, UringType', NEW g \in Futs, fut[g].pc # "done", Apart(g), Onward(g),
         kern' = kern, cq' = cq, spoilt' = spoilt, reap' = reap, ring' = ring, Len(sq') <= Entries,
         NEW r \in Seq(SqeType), Pipe' = Pipe \o r,
         \A s \in SqeType : Occurs(r, s) => s.fut = g /\ SqeOk(s)',
         Occurs(r, OpSqe(g)) => fut[g].pc = "new" /\ Once(r, OpSqe(g)),
         FutOk(g)'
  PROVE  UringInv'
<1>1. \A f \in Futs : Onward(f)
  BY DEF Apart, Onward, Leaving
<1>2. \A f \in Futs : OpSqe(f) \in SqeType /\ OpSqe(f).fut = f /\ OpSqe(f).what = "op"
  BY DEF OpSqe, SqeType
<1>3. \A f \in Futs : Occurs(r, OpSqe(f)) => f = g /\ ~Occurs(Pipe, OpSqe(f)) /\ Once(r, OpSqe(f))
  <2>1. \A f \in Futs : Occurs(r, OpSqe(f)) => f = g
    BY <1>2
  <2>2. fut[g].pc = "new" => ~Occurs(Pipe, OpSqe(g))
    BY <1>2 DEF UringInv, QueuesOk, SqeOk
  <2> QED BY <2>1, <2>2
<1>4. /\ QueuesOk'
      /\ \A f \in Futs : Occurs(Pipe', OpSqe(f)) <=> Occurs(Pipe, OpSqe(f)) \/ Occurs(r, OpSqe(f))
  BY <1>1, <1>3, QueuesGrow DEF UringInv
<1>5. RingOk'
  BY DEF UringInv, RingOk
<1>6. ASSUME NEW f \in Futs, f # g
      PROVE  FutOk(f)'
  <2>1. Same(f)
    BY <1>3, <1>4, <1>6 DEF Same, Apart
  <2> QED BY <2>1, SameOk DEF UringInv
<1> QED BY <1>4, <1>5, <1>6 DEF UringInv
LEMMA NoEntryType ==
  /\ U!NoEntry \in EntryType /\ U!NoEntry.slab = "none" /\ U!NoEntry.result = "none" /\ ~U!NoEntry.terminal
  /\ ~U!NoEntry.waker /\ U!NoEntry.cleanup = "done" /\ U!NoEntry.events = <<>>
  BY DEF U!NoEntry, EntryType

LEMMA NothingQueued ==
  <<>> \in Seq(SqeType) /\ \A s : ~Occurs(<<>>, s)
  BY DEF Occurs

-----------------------------------------------------------------------------
(* The futures. *)
LEMMA RefusedStep ==
  ASSUME UringInv, NEW g \in Futs, fut[g].pc = "new", U!Refused(g) \/ U!DropUnpolled(g)
  PROVE  UringInv'
<1>1. UringType'
  <2>1. fut' \in [Futs -> FutType]
    <3>1. fut' = [fut EXCEPT ![g].pc = "done"] /\ fut \in [Futs -> FutType]
      BY DEF UringInv, UringType, U!Refused, U!DropUnpolled
    <3> QED BY <3>1 DEF FutType, Pcs
  <2>2. home' \in [Futs -> {"future", "ring", "caller", "freed"}]
    <3>1. U!HandsBack(g) \in {"caller", "freed"}
      BY DEF U!HandsBack
    <3> QED BY <3>1 DEF UringInv, UringType, U!Refused, U!DropUnpolled
  <2> QED BY <2>1, <2>2 DEF UringInv, UringType, U!Refused, U!DropUnpolled, U!kernel, U!history
<1>2. /\ Apart(g) /\ Onward(g) /\ Pipe' = Pipe \o <<>> /\ Len(sq') <= Entries
      /\ UNCHANGED <<kern, cq, spoilt, reap, ring, entry>> /\ fut'[g].pc = "done" /\ fut'[g].woken = fut[g].woken
  <2>1. Pipe' = Pipe
    BY DEF Pipe, U!Refused, U!DropUnpolled, U!kernel
  <2> QED
    BY <2>1, PipeFacts DEF UringInv, UringType, FutType, RingOk, Apart, Onward, Leaving, Pipe, U!Refused, U!DropUnpolled,
       U!kernel, U!history
<1>3. FutOk(g)'
  <2>1. ~Occurs(Pipe, OpSqe(g)) /\ kern[g] = "none" /\ entry[g] = U!NoEntry
    <3>1. SqeOk(OpSqe(g)) => fut[g].pc # "new"
      BY DEF SqeOk, OpSqe
    <3> QED BY <3>1 DEF UringInv, QueuesOk, FutOk, PlaceOk
  <2>2. Pipe' = Pipe
    BY DEF Pipe, U!Refused, U!DropUnpolled, U!kernel
  <2> QED BY <1>2, <2>1, <2>2 DEF FutOk, PlaceOk, LentOk, EndOk, WakeOk, InFlight, OpSqe, U!NoEntry
<1> QED BY <1>1, <1>2, <1>3, FutureStep, NothingQueued DEF UringInv

LEMMA StartedStep ==
  ASSUME UringInv, NEW g \in Futs, fut[g].pc = "new", NEW cleanup \in {"done", "todo"}, NEW r \in Seq(SqeType),
         U!Started(g, cleanup, r), Len(r) <= Entries - Len(sq), cleanup = "todo" => fut[g].class = "mrecv",
         Occurs(r, OpSqe(g)), Once(r, OpSqe(g)),
         \A s : Occurs(r, s) => s = OpSqe(g) \/ (s.fut = g /\ s.what = "provide" /\ fut[g].class = "mrecv")
  PROVE  UringInv'
<1> DEFINE e == [U!NoEntry EXCEPT !.slab = "ops", !.waker = TRUE, !.cleanup = cleanup]
<1>0. /\ entry' = [entry EXCEPT ![g] = e] /\ fut' = [fut EXCEPT ![g].pc = "started"]
      /\ home' = [home EXCEPT ![g] = "ring"] /\ sq' = sq \o r /\ UNCHANGED <<taken, kern, cq, reap, ring, spoilt>>
  BY DEF U!Started, U!kernel, U!history
<1>e. /\ e \in EntryType /\ e.slab = "ops" /\ e.waker /\ e.result = "none" /\ ~e.terminal /\ e.cleanup = cleanup
  BY NoEntryType DEF EntryType
<1> HIDE DEF e
<1>t. /\ fut \in [Futs -> FutType] /\ entry \in [Futs -> EntryType] /\ home \in [Futs -> {"future", "ring", "caller", "freed"}]
      /\ sq \in Seq(SqeType) /\ taken \in Seq(SqeType)
  BY DEF UringInv, UringType
<1>1. UringType'
  <2>1. fut' \in [Futs -> FutType]
    BY <1>0, <1>t DEF FutType, Pcs
  <2>2. entry' \in [Futs -> EntryType]
    BY <1>0, <1>t, <1>e
  <2>3. sq' \in Seq(SqeType) /\ home' \in [Futs -> {"future", "ring", "caller", "freed"}]
    BY <1>0, <1>t
  <2> QED BY <1>0, <2>1, <2>2, <2>3 DEF UringInv, UringType
<1>2. Apart(g) /\ Onward(g) /\ fut'[g].pc = "started" /\ fut'[g].class = fut[g].class
  BY <1>0, <1>t DEF Apart, Onward, Leaving, FutType
<1>3. Pipe' = Pipe \o r /\ Len(sq') <= Entries
  <2>1. taken \o (sq \o r) = (taken \o sq) \o r
    BY <1>t, PipeFacts
  <2>3. Pipe' = Pipe \o r
    BY <1>0, <2>1 DEF Pipe
  <2>2. Len(sq') = Len(sq) + Len(r) /\ Len(sq) \in Nat /\ Len(r) \in Nat
    BY <1>0, <1>t
  <2> QED BY <2>2, <2>3, EntriesNat
<1>4. kern[g] = "none" /\ fut[g].pc # "done"
  BY DEF UringInv, FutOk, PlaceOk
<1>5. \A s \in SqeType : Occurs(r, s) => s.fut = g /\ SqeOk(s)'
  BY <1>0, <1>2, <1>4 DEF SqeOk, OpSqe
<1>6. FutOk(g)'
  <2>1. Pipe \in Seq(SqeType)
    BY <1>t, ConcatFacts DEF Pipe
  <2>2. Occurs(Pipe', OpSqe(g))
    BY <1>3, <2>1, ConcatFacts
  <2>3. entry'[g] = e /\ home'[g] = "ring" /\ kern'[g] = "none"
    BY <1>0, <1>t, <1>4
  <2> QED BY <1>2, <1>e, <2>2, <2>3 DEF FutOk, PlaceOk, LentOk, EndOk, WakeOk, InFlight, OpSqe
<1> QED BY <1>0, <1>1, <1>2, <1>3, <1>4, <1>5, <1>6, FutureStep
LEMMA FirstPollStep ==
  ASSUME UringInv, NEW g \in Futs, U!FirstPoll(g)
  PROVE  UringInv'
<1> DEFINE op == U!Sqe("op", g)
           provide == U!Sqe("provide", g)
<1>1. fut[g].pc = "new"
  BY DEF U!FirstPoll
<1>2. CASE U!Refused(g)
  BY <1>1, <1>2, RefusedStep
<1>3. op = OpSqe(g) /\ op \in SqeType /\ provide \in SqeType /\ provide # op /\ provide.fut = g /\ provide.what = "provide"
  BY DEF OpSqe, SqeType, U!Sqe
<1> HIDE DEF op, provide
<1>4. /\ <<op>> \in Seq(SqeType) /\ Len(<<op>>) = 1 /\ Once(<<op>>, op) /\ Occurs(<<op>>, op)
      /\ \A s : Occurs(<<op>>, s) => s = op
  BY <1>3 DEF Once, Occurs
<1>5. /\ <<provide, op>> \in Seq(SqeType) /\ Len(<<provide, op>>) = 2
      /\ Once(<<provide, op>>, op) /\ Occurs(<<provide, op>>, op)
      /\ \A s : Occurs(<<provide, op>>, s) => s = op \/ s = provide
  BY <1>3 DEF Once, Occurs
<1>6. Len(sq) \in Nat /\ Entries \in Nat
  BY EntriesNat DEF UringInv, UringType
<1>7. CASE U!Started(g, "done", <<op>>) /\ ~(Entries - Len(sq) < 1)
  <2>1. Len(<<op>>) <= Entries - Len(sq)
    BY <1>4, <1>6, <1>7
  <2>2. \A s : Occurs(<<op>>, s) => s = OpSqe(g) \/ (s.fut = g /\ s.what = "provide" /\ fut[g].class = "mrecv")
    BY <1>3, <1>4, <1>7
  <2> QED BY <1>1, <1>3, <1>4, <1>7, <2>1, <2>2, StartedStep
<1>8. CASE U!Started(g, "todo", <<provide, op>>) /\ ~(Entries - Len(sq) < 2) /\ fut[g].class = "mrecv"
  <2>1. Len(<<provide, op>>) <= Entries - Len(sq)
    BY <1>5, <1>6, <1>8
  <2>2. \A s : Occurs(<<provide, op>>, s) => s = OpSqe(g) \/ (s.fut = g /\ s.what = "provide" /\ fut[g].class = "mrecv")
    BY <1>3, <1>5, <1>8
  <2> QED BY <1>1, <1>3, <1>5, <1>8, <2>1, <2>2, StartedStep
<1> QED
  BY <1>2, <1>7, <1>8 DEF U!FirstPoll, U!start_op, U!start_multishot_accept, U!start_multishot_recv, U!sq_space_locked,
     U!Class, op, provide

(* A sequence cut in two. *)
LEMMA CutFacts ==
  ASSUME NEW S, NEW s \in Seq(S), NEW n \in 0 .. Len(s)
  PROVE  /\ SubSeq(s, 1, n) \in Seq(S) /\ SubSeq(s, n + 1, Len(s)) \in Seq(S)
         /\ Len(SubSeq(s, n + 1, Len(s))) = Len(s) - n
         /\ s = SubSeq(s, 1, n) \o SubSeq(s, n + 1, Len(s))
<1>1. /\ SubSeq(s, 1, n) \in Seq(S) /\ Len(SubSeq(s, 1, n)) = n
      /\ SubSeq(s, n + 1, Len(s)) \in Seq(S) /\ Len(SubSeq(s, n + 1, Len(s))) = Len(s) - n
  OBVIOUS
<1>2. /\ \A i \in 1 .. n : SubSeq(s, 1, n)[i] = s[i]
      /\ \A i \in 1 .. Len(s) - n : SubSeq(s, n + 1, Len(s))[i] = s[n + i]
  OBVIOUS
<1> DEFINE a == SubSeq(s, 1, n)
           b == SubSeq(s, n + 1, Len(s))
<1> HIDE DEF a, b
<1>3. /\ a \in Seq(S) /\ Len(a) = n /\ b \in Seq(S) /\ Len(b) = Len(s) - n
      /\ (\A i \in 1 .. n : a[i] = s[i]) /\ (\A i \in 1 .. Len(s) - n : b[i] = s[n + i])
  BY <1>1, <1>2 DEF a, b
<1>4. a \o b \in Seq(S) /\ Len(a \o b) = Len(s)
  <2>1. a \in Seq(S) /\ b \in Seq(S) /\ Len(a) = n /\ Len(b) = Len(s) - n
    BY <1>3
  <2>2. a \o b \in Seq(S) /\ Len(a \o b) = Len(a) + Len(b)
    BY <2>1, SMTT(60)
  <2>3. n + (Len(s) - n) = Len(s)
    OBVIOUS
  <2> QED BY <2>1, <2>2, <2>3
<1>5. ASSUME NEW i \in 1 .. Len(s)
      PROVE  (a \o b)[i] = s[i]
  <2>1. CASE i <= n
    BY <1>3, <2>1
  <2>2. CASE i > n
    <3>1. /\ i - n \in 1 .. Len(s) - n /\ i \in 1 .. Len(a) + Len(b) /\ i > Len(a) /\ n + (i - n) = i
      BY <1>3, <2>2
    <3>2. (a \o b)[i] = b[i - Len(a)]
      BY <1>3, <3>1
    <3>3. b[i - n] = s[n + (i - n)]
      BY <1>3, <3>1
    <3> QED BY <1>3, <3>1, <3>2, <3>3
  <2>3. n \in Nat /\ i \in Nat
    OBVIOUS
  <2>4. i <= n \/ i > n
    BY <2>3
  <2> QED BY <2>1, <2>2, <2>4
<1> DEFINE c == a \o b
<1>6. c \in Seq(S) /\ Len(c) = Len(s) /\ \A i \in 1 .. Len(s) : c[i] = s[i]
  BY <1>4, <1>5
<1> HIDE DEF c
<1>7. c = s
  BY <1>6
<1> QED BY <1>1, <1>7 DEF a, b, c

(* A submit that succeeds moves queued SQEs to the kernel, in order. *)
LEMMA SubmitFacts ==
  ASSUME UringType, U!SubmitOk
  PROVE  /\ Pipe' = Pipe /\ Pipe = Pipe \o <<>>
         /\ sq' \in Seq(SqeType) /\ taken' \in Seq(SqeType) /\ Len(sq') \in Nat /\ Len(sq') <= Len(sq)
<1>1. sq \in Seq(SqeType) /\ taken \in Seq(SqeType)
  BY DEF UringType
<1>2. PICK n \in 0 .. Len(sq) : taken' = taken \o SubSeq(sq, 1, n) /\ sq' = SubSeq(sq, n + 1, Len(sq))
  BY DEF U!SubmitOk
<1> DEFINE a == SubSeq(sq, 1, n)
           b == SubSeq(sq, n + 1, Len(sq))
<1>3. a \in Seq(SqeType) /\ b \in Seq(SqeType) /\ Len(b) = Len(sq) - n /\ sq = a \o b
  BY <1>1, CutFacts
<1>4. taken' = taken \o a /\ sq' = b
  BY <1>2
<1> HIDE DEF a, b
<1>5. taken \o (a \o b) = (taken \o a) \o b
  <2>1. taken \in Seq(SqeType) /\ a \in Seq(SqeType) /\ b \in Seq(SqeType)
    BY <1>1, <1>3
  <2> QED BY ONLY <2>1, PipeFacts
<1>6. taken \o sq = (taken \o a) \o b
  BY <1>3, <1>5
<1>7. (taken \o sq) \o <<>> = taken \o sq
  BY <1>1, PipeFacts
<1>8. taken \o a \in Seq(SqeType)
  BY <1>1, <1>3
<1>9. Len(b) \in Nat /\ Len(b) <= Len(sq)
  BY <1>1, <1>3
<1> QED BY <1>3, <1>4, <1>6, <1>7, <1>8, <1>9 DEF Pipe

(* orphan, for whichever of its callers. *)
LEMMA OrphanOk ==
  ASSUME UringInv, NEW g \in Futs, fut[g].pc \in {"started", "pending", "ready"}, U!orphan(g),
         UNCHANGED <<kern, cq, spoilt, reap, ring>>, Pipe' = Pipe
  PROVE  /\ fut' \in [Futs -> FutType] /\ home' \in [Futs -> {"future", "ring", "caller", "freed"}]
         /\ entry' \in [Futs -> EntryType] /\ Apart(g) /\ Onward(g) /\ FutOk(g)'
<1>t. /\ fut \in [Futs -> FutType] /\ entry \in [Futs -> EntryType] /\ home \in [Futs -> {"future", "ring", "caller", "freed"}]
  BY DEF UringInv, UringType
<1>f. FutOk(g)
  BY DEF UringInv
<1>1. CASE U!Complete(g)
  <2>1. /\ fut' = [fut EXCEPT ![g].pc = "done"] /\ home' = [home EXCEPT ![g] = "freed"]
        /\ entry' = [entry EXCEPT ![g] = U!NoEntry] /\ U!NoEntry \in EntryType
    BY <1>1 DEF U!orphan, U!NoEntry, EntryType
  <2>2. /\ fut'[g].pc = "done" /\ fut'[g].class = fut[g].class /\ entry'[g] = U!NoEntry
        /\ fut' \in [Futs -> FutType] /\ home' \in [Futs -> {"future", "ring", "caller", "freed"}]
        /\ entry' \in [Futs -> EntryType]
    BY <1>t, <2>1 DEF FutType, Pcs
  <2>3. Apart(g) /\ Onward(g)
    BY <1>t, <2>1, <2>2 DEF Apart, Onward, Leaving
  <2>4. InFlight(g) => g \in spoilt
    BY <1>1, <1>f DEF U!Complete, FutOk, EndOk, InFlight, UringInv, QueuesOk, SqeOk, OpSqe
  <2>5. FutOk(g)'
    BY <2>2, <2>4 DEF FutOk, PlaceOk, LentOk, EndOk, WakeOk, InFlight, OpSqe, U!NoEntry
  <2> QED BY <2>2, <2>3, <2>5
<1>2. CASE ~U!Complete(g)
  <2>1. /\ fut' = [fut EXCEPT ![g].pc = "dropping"] /\ home' = home
        /\ entry' = [entry EXCEPT ![g].slab = "orphaned", ![g].waker = FALSE]
    BY <1>2 DEF U!orphan
  <2>2. /\ fut'[g].pc = "dropping" /\ fut'[g].class = fut[g].class /\ fut' \in [Futs -> FutType]
        /\ entry' = [entry EXCEPT ![g] = [entry[g] EXCEPT !.slab = "orphaned", !.waker = FALSE]]
    BY <1>t, <2>1 DEF FutType, Pcs
  <2>3. /\ entry' \in [Futs -> EntryType] /\ entry'[g].slab = "orphaned" /\ entry'[g].result = entry[g].result
        /\ entry'[g].terminal = entry[g].terminal /\ entry'[g].events = entry[g].events
        /\ entry'[g].cleanup = entry[g].cleanup
    BY <1>t, <2>2, ZenonT(60) DEF EntryType
  <2>4. Apart(g) /\ Onward(g)
    BY <1>t, <2>1, <2>2 DEF Apart, Onward, Leaving
  <2>5. FutOk(g)'
    BY <1>2, <1>f, <2>1, <2>2, <2>3 DEF FutOk, PlaceOk, LentOk, EndOk, WakeOk, InFlight, OpSqe, U!Complete
  <2> QED BY <1>t, <2>1, <2>2, <2>3, <2>4, <2>5
<1> QED BY <1>1, <1>2
LEMMA FirstSubmitStep ==
  ASSUME UringInv, NEW g \in Futs, U!FirstSubmit(g)
  PROVE  UringInv'
<1>t. /\ UringType /\ fut \in [Futs -> FutType] /\ FutOk(g) /\ Entries \in Nat
      /\ sq \in Seq(SqeType) /\ taken \in Seq(SqeType) /\ Len(sq) <= Entries
  BY EntriesNat DEF UringInv, UringType, RingOk
<1>0. fut[g].pc = "started" /\ UNCHANGED <<kern, cq, spoilt, reap, ring>>
  BY DEF U!FirstSubmit, U!history
<1>1. CASE U!SubmitOk /\ fut' = [fut EXCEPT ![g].pc = "pending"] /\ UNCHANGED <<home, entry>>
  <2>1. /\ Pipe' = Pipe \o <<>> /\ Pipe' = Pipe /\ Len(sq') <= Entries
        /\ sq' \in Seq(SqeType) /\ taken' \in Seq(SqeType)
    BY <1>t, <1>1, SubmitFacts
  <2>2. fut' \in [Futs -> FutType] /\ fut'[g].pc = "pending" /\ fut'[g].class = fut[g].class /\ fut'[g].woken = fut[g].woken
    BY <1>t, <1>1 DEF FutType, Pcs
  <2>3. UringType'
    BY <1>t, <1>0, <1>1, <2>1, <2>2 DEF UringType
  <2>4. Apart(g) /\ Onward(g)
    BY <1>t, <1>0, <1>1, <2>2 DEF Apart, Onward, Leaving
  <2>5. FutOk(g)'
    BY <1>t, <1>0, <1>1, <2>1, <2>2 DEF FutOk, PlaceOk, LentOk, EndOk, WakeOk, InFlight, OpSqe
  <2> QED BY <1>0, <2>1, <2>3, <2>4, <2>5, FutureStep, NothingQueued
<1>2. CASE U!orphan(g) /\ UNCHANGED <<sq, taken>>
  <2>1. Pipe' = Pipe /\ Pipe = Pipe \o <<>>
    BY <1>t, <1>2, PipeFacts, ConcatFacts DEF Pipe
  <2>2. /\ fut' \in [Futs -> FutType] /\ home' \in [Futs -> {"future", "ring", "caller", "freed"}]
        /\ entry' \in [Futs -> EntryType] /\ Apart(g) /\ Onward(g) /\ FutOk(g)'
    BY <1>0, <1>2, <2>1, OrphanOk
  <2>3. UringType'
    BY <1>t, <1>0, <1>2, <2>2 DEF UringType
  <2> QED BY <1>t, <1>0, <1>2, <2>1, <2>2, <2>3, FutureStep, NothingQueued
<1> QED BY <1>1, <1>2 DEF U!FirstSubmit

LEMMA DropFutureStep ==
  ASSUME UringInv, NEW g \in Futs, U!DropFuture(g)
  PROVE  UringInv'
<1>t. UringType /\ sq \in Seq(SqeType) /\ taken \in Seq(SqeType) /\ Len(sq) <= Entries
  BY DEF UringInv, UringType, RingOk
<1>0. fut[g].pc \in {"pending", "ready"} /\ U!orphan(g) /\ UNCHANGED <<sq, taken, kern, cq, spoilt, reap, ring>>
  BY DEF U!DropFuture, U!kernel, U!history
<1>1. Pipe' = Pipe /\ Pipe = Pipe \o <<>>
  BY <1>t, <1>0, PipeFacts, ConcatFacts DEF Pipe
<1>2. /\ fut' \in [Futs -> FutType] /\ home' \in [Futs -> {"future", "ring", "caller", "freed"}]
      /\ entry' \in [Futs -> EntryType] /\ Apart(g) /\ Onward(g) /\ FutOk(g)'
  BY <1>0, <1>1, OrphanOk
<1>3. UringType'
  BY <1>t, <1>0, <1>2 DEF UringType
<1> QED BY <1>t, <1>0, <1>1, <1>2, <1>3, FutureStep, NothingQueued

(* The polls that look: the result is taken, an event is, or there is none yet. *)
LEMMA LookStep ==
  ASSUME UringInv, NEW g \in Futs, U!TakeOwned(g) \/ U!PollNext(g) \/ U!StoreWaker(g)
  PROVE  UringInv'
<1>t. /\ UringType /\ fut \in [Futs -> FutType] /\ entry \in [Futs -> EntryType] /\ FutOk(g)
      /\ home \in [Futs -> {"future", "ring", "caller", "freed"}]
      /\ sq \in Seq(SqeType) /\ taken \in Seq(SqeType) /\ Len(sq) <= Entries
  BY DEF UringInv, UringType, RingOk
<1>0. /\ fut[g].pc \in {"pending", "looked", "ready"} /\ UNCHANGED <<sq, taken, kern, cq, spoilt, reap, ring>>
  BY DEF U!TakeOwned, U!PollNext, U!StoreWaker, U!kernel, U!history
<1>1. Pipe' = Pipe /\ Pipe = Pipe \o <<>>
  BY <1>t, <1>0, PipeFacts, ConcatFacts DEF Pipe
<1>2. SUFFICES /\ fut' \in [Futs -> FutType] /\ home' \in [Futs -> {"future", "ring", "caller", "freed"}]
               /\ entry' \in [Futs -> EntryType] /\ Apart(g) /\ Onward(g) /\ FutOk(g)'
  <2>1. UringType'
    BY <1>t, <1>0, <1>2 DEF UringType
  <2> QED BY <1>t, <1>0, <1>1, <1>2, <2>1, FutureStep, NothingQueued
<1>3. CASE U!take_result(g) /\ (entry[g].result # "none" \/ entry[g].terminal)
  <2>1. /\ fut' = [fut EXCEPT ![g].pc = "done"] /\ home' = [home EXCEPT ![g] = U!HandsBack(g)]
        /\ entry' = [entry EXCEPT ![g] = U!NoEntry] /\ U!HandsBack(g) \in {"caller", "freed"}
    BY <1>3 DEF U!take_result, U!HandsBack
  <2>2. /\ fut'[g].pc = "done" /\ fut'[g].class = fut[g].class /\ entry'[g] = U!NoEntry
        /\ fut' \in [Futs -> FutType] /\ home' \in [Futs -> {"future", "ring", "caller", "freed"}]
        /\ entry' \in [Futs -> EntryType]
    BY <1>t, <2>1, NoEntryType DEF FutType, Pcs
  <2>3. Apart(g) /\ Onward(g)
    BY <1>t, <2>1, <2>2 DEF Apart, Onward, Leaving
  <2>4. InFlight(g) => g \in spoilt
    BY <1>t, <1>3 DEF FutOk, EndOk, InFlight, UringInv, QueuesOk, SqeOk, OpSqe
  <2>5. FutOk(g)'
    BY <1>0, <1>1, <2>2, <2>4 DEF FutOk, PlaceOk, LentOk, EndOk, WakeOk, InFlight, OpSqe, U!NoEntry
  <2> QED BY <2>2, <2>3, <2>5
<1>4. CASE U!Looked(g) /\ entry[g].result = "none"
  <2>1. /\ fut' = [fut EXCEPT ![g].pc = "looked", ![g].woken = FALSE] /\ home' = home /\ entry' = entry
    BY <1>4 DEF U!Looked
  <2>2. /\ fut' \in [Futs -> FutType] /\ fut'[g].pc = "looked" /\ fut'[g].class = fut[g].class
        /\ fut' = [fut EXCEPT ![g] = [fut[g] EXCEPT !.pc = "looked", !.woken = FALSE]]
    BY <1>t, <2>1 DEF FutType, Pcs
  <2>3. Apart(g) /\ Onward(g)
    BY <1>t, <1>0, <2>1, <2>2 DEF Apart, Onward, Leaving
  <2>4. FutOk(g)'
    BY <1>t, <1>0, <1>1, <1>4, <2>1, <2>2 DEF FutOk, PlaceOk, LentOk, EndOk, WakeOk, InFlight, OpSqe
  <2> QED BY <1>t, <2>1, <2>2, <2>3, <2>4
<1>5. CASE /\ fut[g].class \in U!Multishot /\ entry[g].events # <<>> /\ entry' = [entry EXCEPT ![g].events = Tail(@)]
           /\ fut' = [fut EXCEPT ![g].pc = "ready", ![g].woken = FALSE] /\ home' = home
  <2>1. /\ fut' = [fut EXCEPT ![g] = [fut[g] EXCEPT !.pc = "ready", !.woken = FALSE]]
        /\ entry' = [entry EXCEPT ![g] = [entry[g] EXCEPT !.events = Tail(entry[g].events)]]
        /\ Tail(entry[g].events) \in Seq(BOOLEAN)
    <3>1. entry[g].events \in Seq(BOOLEAN) /\ fut[g] = [fut[g] EXCEPT !.pc = fut[g].pc]
      BY <1>t DEF EntryType, FutType
    <3>2. Tail(entry[g].events) \in Seq(BOOLEAN)
      BY <1>5, <3>1, FrontFacts
    <3> QED BY <1>t, <1>5, <3>2
  <2>2. /\ fut' \in [Futs -> FutType] /\ fut'[g].pc = "ready" /\ fut'[g].class = fut[g].class
    BY <1>t, <2>1 DEF FutType, Pcs
  <2>3. /\ entry' \in [Futs -> EntryType] /\ entry'[g].slab = entry[g].slab /\ entry'[g].result = entry[g].result
        /\ entry'[g].terminal = entry[g].terminal /\ entry'[g].waker = entry[g].waker
        /\ entry'[g].cleanup = entry[g].cleanup
    BY <1>t, <2>1 DEF EntryType
  <2>4. Apart(g) /\ Onward(g)
    BY <1>t, <1>0, <1>5, <2>1, <2>2 DEF Apart, Onward, Leaving
  <2>5. FutOk(g)'
    BY <1>t, <1>0, <1>1, <1>5, <2>2, <2>3 DEF FutOk, PlaceOk, LentOk, EndOk, WakeOk, InFlight, OpSqe
  <2> QED BY <1>t, <1>5, <2>2, <2>3, <2>4, <2>5
<1>6. CASE U!StoreWaker(g)
  <2>1. /\ fut[g].pc = "looked" /\ fut' = [fut EXCEPT ![g].pc = "pending"] /\ home' = home
        /\ entry' = [entry EXCEPT ![g].waker = TRUE]
    BY <1>6 DEF U!StoreWaker
  <2>2. /\ fut' \in [Futs -> FutType] /\ fut'[g].pc = "pending" /\ fut'[g].class = fut[g].class
        /\ fut'[g].woken = fut[g].woken
    BY <1>t, <2>1 DEF FutType, Pcs
  <2>3. /\ entry' \in [Futs -> EntryType] /\ entry'[g].slab = entry[g].slab /\ entry'[g].result = entry[g].result
        /\ entry'[g].terminal = entry[g].terminal /\ entry'[g].waker /\ entry'[g].events = entry[g].events
        /\ entry'[g].cleanup = entry[g].cleanup
    BY <1>t, <2>1 DEF EntryType
  <2>4. Apart(g) /\ Onward(g)
    BY <1>t, <2>1, <2>2 DEF Apart, Onward, Leaving
  <2>5. FutOk(g)'
    BY <1>t, <1>0, <1>1, <2>1, <2>2, <2>3 DEF FutOk, PlaceOk, LentOk, EndOk, WakeOk, InFlight, OpSqe
  <2> QED BY <1>t, <2>1, <2>2, <2>3, <2>4, <2>5
<1>7. fut[g].class \in U!Multishot => entry[g].result = "none"
  BY <1>t DEF FutOk, EndOk
<1> QED BY <1>3, <1>4, <1>5, <1>6, <1>7 DEF U!TakeOwned, U!PollNext, U!finished, U!Class
LEMMA CancelStep ==
  ASSUME UringInv, NEW g \in Futs, U!submit_cancel(g)
  PROVE  UringInv'
<1>t. /\ UringType /\ fut \in [Futs -> FutType] /\ FutOk(g) /\ Entries \in Nat
      /\ sq \in Seq(SqeType) /\ taken \in Seq(SqeType) /\ Len(sq) <= Entries /\ Len(sq) \in Nat
  BY EntriesNat DEF UringInv, UringType, RingOk
<1>0. UNCHANGED <<home, entry, kern, cq, reap, ring, spoilt>> /\ fut[g].pc \in {"dropping", "cancelling"}
  BY DEF U!submit_cancel, U!history
<1>1. ASSUME NEW pc \in {"cancelling", "done"}, fut' = [fut EXCEPT ![g].pc = pc], NEW r \in Seq(SqeType),
             Pipe' = Pipe \o r, sq' \in Seq(SqeType), taken' \in Seq(SqeType), Len(sq') <= Entries,
             \A s : Occurs(r, s) => s = U!Sqe("cancel", g)
      PROVE  UringInv'
  <2>1. fut' \in [Futs -> FutType] /\ fut'[g].pc = pc /\ fut'[g].class = fut[g].class /\ fut'[g].woken = fut[g].woken
    BY <1>t, <1>1 DEF FutType, Pcs
  <2>2. UringType'
    BY <1>t, <1>0, <1>1, <2>1 DEF UringType
  <2>3. Apart(g) /\ Onward(g)
    BY <1>t, <1>0, <1>1, <2>1 DEF Apart, Onward, Leaving
  <2>4. U!Sqe("cancel", g).what = "cancel" /\ U!Sqe("cancel", g).fut = g /\ U!Sqe("cancel", g) # OpSqe(g)
    BY DEF U!Sqe, OpSqe
  <2>5. \A s \in SqeType : Occurs(r, s) => s.fut = g /\ SqeOk(s)'
    BY <1>1, <2>1, <2>4 DEF SqeOk, Leaving
  <2>6. Pipe \in Seq(SqeType) /\ (Occurs(Pipe', OpSqe(g)) <=> Occurs(Pipe, OpSqe(g)))
    <3>1. Pipe \in Seq(SqeType)
      BY <1>t, ConcatFacts DEF Pipe
    <3> QED BY <1>1, <2>4, <3>1, ConcatFacts
  <2>7. FutOk(g)'
    BY <1>t, <1>0, <1>1, <2>1, <2>6 DEF FutOk, PlaceOk, LentOk, EndOk, WakeOk, InFlight, OpSqe
  <2> QED BY <1>0, <1>1, <2>2, <2>3, <2>4, <2>5, <2>7, FutureStep
<1>2. CASE UNCHANGED <<sq, taken>> /\ fut' = [fut EXCEPT ![g].pc = "done"]
  <2>1. Pipe' = Pipe \o <<>>
    BY <1>t, <1>2, PipeFacts DEF Pipe
  <2> QED BY <1>t, <1>1, <1>2, <2>1, NothingQueued
<1>3. CASE U!SubmitOk /\ fut' = [fut EXCEPT ![g].pc = "done"]
  <2>1. Pipe' = Pipe \o <<>> /\ sq' \in Seq(SqeType) /\ taken' \in Seq(SqeType) /\ Len(sq') <= Entries
    BY <1>t, <1>3, SubmitFacts
  <2> QED BY <1>1, <1>3, <2>1, NothingQueued
<1>4. CASE /\ Entries - Len(sq) > 0 /\ sq' = Append(sq, U!Sqe("cancel", g)) /\ taken' = taken
           /\ fut' = [fut EXCEPT ![g].pc = "cancelling"]
  <2> DEFINE c == U!Sqe("cancel", g)
  <2>1. c \in SqeType
    BY DEF U!Sqe, SqeType
  <2> HIDE DEF c
  <2>2. <<c>> \in Seq(SqeType) /\ Append(sq, c) = sq \o <<c>> /\ \A s : Occurs(<<c>>, s) => s = c
    BY <1>t, <2>1 DEF Occurs
  <2>3. taken \o (sq \o <<c>>) = (taken \o sq) \o <<c>>
    BY <1>t, <2>2, PipeFacts
  <2>4. Pipe' = Pipe \o <<c>>
    BY <1>4, <2>2, <2>3 DEF Pipe, c
  <2>5. sq' \in Seq(SqeType) /\ Len(sq') <= Entries
    BY <1>t, <1>4, <2>1 DEF c
  <2> QED BY <1>t, <1>1, <1>4, <2>2, <2>4, <2>5 DEF c
<1> QED BY <1>2, <1>3, <1>4 DEF U!submit_cancel, U!sq_space_locked

-----------------------------------------------------------------------------
(* The kernel posts CQEs at the end of cq; nothing else of the driver changes. *)
LEMMA CqGrows ==
  ASSUME UringType, QueuesOk, NEW c \in CqeType, NEW q, q = Append(cq, c)
  PROVE  /\ q \in Seq(CqeType) /\ Len(q) = Len(cq) + 1
         /\ \A x : Occurs(q, x) <=> Occurs(cq, x) \/ x = c
         /\ \A f : HasEnd(q, f) <=> HasEnd(cq, f) \/ Ends(c, f)
         /\ \A f : Followed(cq, f) /\ ~Goes(c, f) => Followed(q, f)
         /\ \A f : Ends(c, f) => Followed(q, f)
<1>1. cq \in Seq(CqeType)
  BY DEF UringType
<1> QED BY <1>1, AppendFacts, BackFacts

(* KernelPosts(f): a request that becomes active or over, or neither. *)
LEMMA KernelStep ==
  ASSUME UringInv, NEW g \in Futs, UNCHANGED <<fut, home, entry, reap, ring, spoilt>>,
         sq' = sq, taken' \in Seq(SqeType), cq' \in Seq(CqeType), Len(cq) <= Len(cq'),
         kern' \in [Futs -> {"none", "active", "over"}], \A f \in Futs \ {g} : kern'[f] = kern[f],
         \A s : Occurs(Pipe', s) => Occurs(Pipe, s) /\ SqeOk(s)',
         \A f \in Futs : Once(Pipe', OpSqe(f)),
         \A f \in Futs \ {g} : Occurs(Pipe', OpSqe(f)) <=> Occurs(Pipe, OpSqe(f)),
         \A c : Occurs(cq', c) => CqeOk(c)',
         \A f \in Futs : kern'[f] # "active" => Followed(cq', f),
         \A f \in Futs : HasEnd(cq, f) => HasEnd(cq', f),
         FutOk(g)'
  PROVE  UringInv'
<1>1. UringType' /\ RingOk'
  <2>1. Len(cq) \in Nat /\ Len(cq') \in Nat
    BY DEF UringInv, UringType
  <2> QED BY <2>1 DEF UringInv, UringType, RingOk, ReapType
<1>2. QueuesOk'
  BY DEF QueuesOk, OpSqe
<1>3. ASSUME NEW f \in Futs, f # g
      PROVE  FutOk(f)'
  <2>1. Same(f)
    BY <1>3 DEF Same
  <2> QED BY <2>1, SameOk DEF UringInv
<1> QED BY <1>1, <1>2, <1>3 DEF UringInv

LEMMA KernelCompleteStep ==
  ASSUME UringInv, NEW g \in Futs, U!KernelComplete(g)
  PROVE  UringInv'
<1>t. /\ UringType /\ QueuesOk /\ FutOk(g) /\ kern \in [Futs -> {"none", "active", "over"}] /\ taken \in Seq(SqeType)
      /\ \A s : Occurs(Pipe, s) => SqeOk(s) /\ s \in SqeType
      /\ \A c : Occurs(cq, c) => CqeOk(c) /\ c \in CqeType
  <2>1. Pipe \in Seq(SqeType)
    BY ConcatFacts DEF UringInv, UringType, Pipe
  <2> QED BY <2>1 DEF UringInv, UringType, QueuesOk, Occurs
<1>0. kern[g] = "active" /\ UNCHANGED <<fut, home, entry, sq, taken, reap, ring, spoilt>> /\ Pipe' = Pipe
  BY DEF U!KernelComplete, U!history, Pipe
<1>1. ~Occurs(Pipe, OpSqe(g))
  BY <1>t, <1>0 DEF SqeOk, OpSqe
<1>2. ASSUME NEW ok \in BOOLEAN, kern' = [kern EXCEPT ![g] = "over"], cq' = Append(cq, U!Cqe("op", g, ok, FALSE))
      PROVE  UringInv'
  <2> DEFINE c == U!Cqe("op", g, ok, FALSE)
  <2>1. c \in CqeType /\ c.what = "op" /\ c.fut = g /\ ~c.more
    BY DEF U!Cqe, CqeType
  <2> HIDE DEF c
  <2>2. /\ cq' \in Seq(CqeType) /\ Len(cq') = Len(cq) + 1
        /\ \A x : Occurs(cq', x) <=> Occurs(cq, x) \/ x = c
        /\ \A f : HasEnd(cq', f) <=> HasEnd(cq, f) \/ Ends(c, f)
        /\ \A f : Followed(cq, f) /\ ~Goes(c, f) => Followed(cq', f)
        /\ \A f : Ends(c, f) => Followed(cq', f)
    BY <1>t, <1>2, <2>1, CqGrows DEF c
  <2>3. kern' \in [Futs -> {"none", "active", "over"}] /\ kern'[g] = "over" /\ \A f \in Futs \ {g} : kern'[f] = kern[f]
    BY <1>t, <1>2
  <2>4. \A s : Occurs(Pipe', s) => Occurs(Pipe, s) /\ SqeOk(s)'
    <3> SUFFICES ASSUME NEW s, Occurs(Pipe, s) PROVE SqeOk(s)'
      BY <1>0
    <3>1. s \in SqeType /\ SqeOk(s) /\ s.fut \in Futs
      BY <1>t DEF SqeType
    <3> QED BY <1>0, <2>3, <3>1 DEF SqeOk, Leaving
  <2>5. \A x : Occurs(cq', x) => CqeOk(x)'
    <3> SUFFICES ASSUME NEW x, Occurs(cq', x) PROVE CqeOk(x)'
      OBVIOUS
    <3>1. x \in CqeType /\ x.fut \in Futs /\ (x = c \/ CqeOk(x))
      BY <1>t, <2>1, <2>2 DEF CqeType
    <3> QED BY <1>0, <2>1, <2>3, <3>1 DEF CqeOk, Leaving
  <2>6. \A f \in Futs : kern'[f] # "active" => Followed(cq', f)
    BY <1>t, <2>1, <2>2, <2>3 DEF QueuesOk, Ends, Goes
  <2>7. FutOk(g)'
    <3>1. HasEnd(cq', g)
      BY <2>1, <2>2 DEF Ends
    <3> QED BY <1>t, <1>0, <1>1, <2>3, <3>1 DEF FutOk, PlaceOk, LentOk, EndOk, WakeOk, InFlight, OpSqe
  <2>8. Len(cq) <= Len(cq')
    BY <1>t, <2>2 DEF UringType
  <2>9. \A f \in Futs : Once(Pipe', OpSqe(f)) /\ (Occurs(Pipe', OpSqe(f)) <=> Occurs(Pipe, OpSqe(f)))
    BY <1>t, <1>0 DEF QueuesOk
  <2> QED BY <1>t, <1>0, <2>2, <2>3, <2>4, <2>5, <2>6, <2>7, <2>8, <2>9, KernelStep
<1>3. CASE fut[g].class \in U!Multishot /\ kern' = kern /\ cq' = Append(cq, U!Cqe("op", g, TRUE, TRUE))
  <2> DEFINE c == U!Cqe("op", g, TRUE, TRUE)
  <2>1. c \in CqeType /\ c.what = "op" /\ c.fut = g /\ c.more
    BY DEF U!Cqe, CqeType
  <2> HIDE DEF c
  <2>2. /\ cq' \in Seq(CqeType) /\ Len(cq') = Len(cq) + 1
        /\ \A x : Occurs(cq', x) <=> Occurs(cq, x) \/ x = c
        /\ \A f : HasEnd(cq', f) <=> HasEnd(cq, f) \/ Ends(c, f)
        /\ \A f : Followed(cq, f) /\ ~Goes(c, f) => Followed(cq', f)
        /\ \A f : Ends(c, f) => Followed(cq', f)
    <3>1. cq' = Append(cq, c)
      BY <1>3 DEF c
    <3> QED BY <1>t, <2>1, <3>1, CqGrows
  <2>4. \A s : Occurs(Pipe', s) => Occurs(Pipe, s) /\ SqeOk(s)'
    BY <1>t, <1>0, <1>3 DEF SqeOk, Leaving
  <2>5. \A x : Occurs(cq', x) => CqeOk(x)'
    <3> SUFFICES ASSUME NEW x, Occurs(cq', x) PROVE CqeOk(x)'
      OBVIOUS
    <3>1. x = c \/ CqeOk(x)
      BY <1>t, <2>2
    <3> QED BY <1>0, <1>3, <2>1, <3>1 DEF CqeOk, Leaving
  <2>6. \A f \in Futs : kern'[f] # "active" => Followed(cq', f)
    BY <1>t, <1>0, <1>3, <2>1, <2>2 DEF QueuesOk, Goes
  <2>7. FutOk(g)'
    BY <1>t, <1>0, <1>1, <1>3, <2>2 DEF FutOk, PlaceOk, LentOk, EndOk, WakeOk, InFlight, OpSqe
  <2>8. Len(cq) <= Len(cq')
    BY <1>t, <2>2 DEF UringType
  <2>9. \A f \in Futs : Once(Pipe', OpSqe(f)) /\ (Occurs(Pipe', OpSqe(f)) <=> Occurs(Pipe, OpSqe(f)))
    BY <1>t, <1>0 DEF QueuesOk
  <2> QED BY <1>t, <1>0, <1>3, <2>2, <2>4, <2>5, <2>6, <2>7, <2>8, <2>9, KernelStep
<1> QED BY <1>2, <1>3 DEF U!KernelComplete, U!Class
(* The kernel starts the SQE at the front, which leaves the pipe. *)
LEMMA StartFacts ==
  ASSUME UringInv, taken # <<>>, taken' = Tail(taken), sq' = sq
  PROVE  /\ taken' \in Seq(SqeType) /\ Head(taken) \in SqeType /\ Occurs(Pipe, Head(taken)) /\ SqeOk(Head(taken))
         /\ \A s : Occurs(Pipe, s) <=> Occurs(Pipe', s) \/ s = Head(taken)
         /\ \A f \in Futs : Once(Pipe', OpSqe(f)) /\ (Head(taken) = OpSqe(f) => ~Occurs(Pipe', OpSqe(f)))
         /\ \A s : Occurs(Pipe, s) => SqeOk(s) /\ s \in SqeType
<1>1. taken \in Seq(SqeType) /\ sq \in Seq(SqeType) /\ Pipe \in Seq(SqeType)
  BY ConcatFacts DEF UringInv, UringType, Pipe
<1>2. taken \o sq # <<>> /\ Tail(taken \o sq) = Tail(taken) \o sq /\ Head(taken \o sq) = Head(taken)
  BY <1>1, PipeFacts
<1>3. Pipe # <<>> /\ Pipe' = Tail(Pipe) /\ Head(Pipe) = Head(taken)
  BY <1>2 DEF Pipe
<1>4. /\ Head(Pipe) \in SqeType /\ Occurs(Pipe, Head(Pipe))
      /\ \A x : Occurs(Pipe, x) <=> Occurs(Tail(Pipe), x) \/ x = Head(Pipe)
      /\ \A x : Once(Pipe, x) => Once(Tail(Pipe), x) /\ (x = Head(Pipe) => ~Occurs(Tail(Pipe), x))
  BY <1>1, <1>3, FrontFacts
<1>5. Tail(taken) \in Seq(SqeType)
  BY <1>1, FrontFacts
<1>6. \A s : Occurs(Pipe, s) => SqeOk(s) /\ s \in SqeType
  BY <1>1 DEF UringInv, QueuesOk, Occurs
<1> QED BY <1>3, <1>4, <1>5, <1>6 DEF UringInv, QueuesOk

LEMMA KernelStartStep ==
  ASSUME UringInv, U!KernelStart
  PROVE  UringInv'
<1>s. PICK s : s = Head(taken)
  OBVIOUS
<1>g. PICK g : g = s.fut
  OBVIOUS
<1>0. /\ taken # <<>> /\ taken' = Tail(taken) /\ sq' = sq /\ UNCHANGED <<fut, home, entry, reap, ring, spoilt>>
  BY DEF U!KernelStart, U!history
<1>1. /\ taken' \in Seq(SqeType) /\ s \in SqeType /\ Occurs(Pipe, s) /\ SqeOk(s)
      /\ \A x : Occurs(Pipe, x) <=> Occurs(Pipe', x) \/ x = s
      /\ \A f \in Futs : Once(Pipe', OpSqe(f)) /\ (s = OpSqe(f) => ~Occurs(Pipe', OpSqe(f)))
      /\ \A x : Occurs(Pipe, x) => SqeOk(x) /\ x \in SqeType
  BY <1>0, <1>s, StartFacts
<1>2. g \in Futs /\ \A f \in Futs : OpSqe(f).fut = f /\ OpSqe(f).what = "op"
  BY <1>1, <1>g DEF SqeType, OpSqe
<1>t. /\ UringType /\ QueuesOk /\ FutOk(g) /\ kern \in [Futs -> {"none", "active", "over"}] /\ cq \in Seq(CqeType)
      /\ Len(cq) \in Nat
      /\ \A c : Occurs(cq, c) => CqeOk(c) /\ c \in CqeType
  BY <1>2 DEF UringInv, UringType, QueuesOk, Occurs
<1>c. CASE \/ s.what = "op" /\ kern' = [kern EXCEPT ![g] = "active"] /\ cq' = cq
           \/ /\ s.what \in {"provide", "remove"} /\ kern' = kern
              /\ \E ok \in BOOLEAN : cq' = Append(cq, U!Cqe(s.what, g, ok, FALSE))
           \/ s.what = "cancel" /\ cq' = Append(cq, U!Cqe("cancel", g, FALSE, FALSE)) /\ kern' = kern
           \/ /\ s.what = "cancel" /\ kern[g] = "active" /\ kern' = [kern EXCEPT ![g] = "over"]
              /\ \/ cq' = cq \o <<U!Cqe("op", g, FALSE, FALSE), U!Cqe("cancel", g, TRUE, FALSE)>>
                 \/ cq' = cq \o <<U!Cqe("cancel", g, TRUE, FALSE), U!Cqe("op", g, FALSE, FALSE)>>
  <2>n. s.what # "op" => \A f \in Futs : Occurs(Pipe', OpSqe(f)) <=> Occurs(Pipe, OpSqe(f))
    BY <1>1, <1>2
  <2>1. CASE s.what = "op" /\ kern' = [kern EXCEPT ![g] = "active"] /\ cq' = cq
    <3>1. s = OpSqe(g)
      BY <1>g, <1>1, <2>1 DEF SqeType, OpSqe
    <3>2. kern' \in [Futs -> {"none", "active", "over"}] /\ kern'[g] = "active" /\ \A f \in Futs \ {g} : kern'[f] = kern[f]
      BY <1>t, <1>2, <2>1
    <3>3. \A f \in Futs \ {g} : Occurs(Pipe', OpSqe(f)) <=> Occurs(Pipe, OpSqe(f))
      BY <1>1, <1>2, <1>g
    <3>4. kern[g] = "none" /\ fut[g].pc # "new" /\ ~Occurs(Pipe', OpSqe(g))
      BY <1>g, <1>1, <1>2, <2>1, <3>1 DEF SqeOk
    <3>5. ASSUME NEW x, Occurs(Pipe', x)
          PROVE  SqeOk(x)'
      <4>1. SqeOk(x) /\ x \in SqeType /\ x # OpSqe(g) /\ x.fut \in Futs
        BY <1>1, <3>4, <3>5 DEF SqeType
      <4>2. x.what = "op" => x.fut # g
        BY <4>1 DEF SqeType, OpSqe
      <4> QED BY <1>0, <3>2, <4>1, <4>2 DEF SqeOk, Leaving
    <3>6. ASSUME NEW c, Occurs(cq', c)
          PROVE  CqeOk(c)'
      <4>1. CqeOk(c) /\ c.fut \in Futs
        BY <1>t, <2>1, <3>6 DEF CqeType
      <4> QED BY <1>0, <3>2, <3>4, <4>1 DEF CqeOk, Leaving
    <3>7. FutOk(g)'
      BY <1>t, <1>0, <1>1, <2>1, <3>1, <3>2, <3>4 DEF FutOk, PlaceOk, LentOk, EndOk, WakeOk, InFlight, OpSqe
    <3>8. \A f \in Futs : kern'[f] # "active" => Followed(cq', f)
      BY <1>t, <2>1, <3>2 DEF QueuesOk
    <3> QED BY <1>0, <1>1, <1>2, <1>t, <2>1, <3>2, <3>3, <3>5, <3>6, <3>7, <3>8, KernelStep
  <2>2. ASSUME NEW c \in CqeType, c.fut = g, s.what # "op", kern' = kern, cq' = Append(cq, c), ~c.more,
               \/ c.what = "cancel" /\ s.what = "cancel" /\ ~c.ok
               \/ c.what \in {"provide", "remove"} /\ s.what \in {"provide", "remove"}
        PROVE  UringInv'
    <3>1. /\ cq' \in Seq(CqeType) /\ Len(cq') = Len(cq) + 1
          /\ \A x : Occurs(cq', x) <=> Occurs(cq, x) \/ x = c
          /\ \A f : HasEnd(cq', f) <=> HasEnd(cq, f) \/ Ends(c, f)
          /\ \A f : Followed(cq, f) /\ ~Goes(c, f) => Followed(cq', f)
          /\ \A f : Ends(c, f) => Followed(cq', f)
      BY <1>t, <2>2, CqGrows
    <3>2. \A x : Occurs(Pipe', x) => SqeOk(x)'
      BY <1>0, <1>1, <2>2 DEF SqeOk, Leaving
    <3>3. ASSUME NEW x, Occurs(cq', x)
          PROVE  CqeOk(x)'
      <4>1. x = c \/ CqeOk(x)
        BY <1>t, <3>1, <3>3
      <4>2. CqeOk(c)
        BY <1>g, <1>1, <2>2 DEF CqeOk, SqeOk
      <4> QED BY <1>0, <2>2, <4>1, <4>2 DEF CqeOk, Leaving
    <3>4. \A f \in Futs : kern'[f] # "active" => Followed(cq', f)
      BY <1>t, <2>2, <3>1 DEF QueuesOk, Goes
    <3>5. FutOk(g)'
      <4>1. Occurs(Pipe', OpSqe(g)) <=> Occurs(Pipe, OpSqe(g))
        BY <1>2, <2>2, <2>n
      <4> QED BY <1>t, <1>0, <2>2, <3>1, <4>1 DEF FutOk, PlaceOk, LentOk, EndOk, WakeOk, InFlight, OpSqe
    <3>6. Len(cq) <= Len(cq')
      BY <1>t, <3>1
    <3> QED BY <1>0, <1>1, <1>2, <1>t, <2>2, <2>n, <3>1, <3>2, <3>3, <3>4, <3>5, <3>6, KernelStep
  <2>3. ASSUME NEW a \in CqeType, NEW b \in CqeType, cq' = cq \o <<a, b>>, a.fut = g, b.fut = g, ~a.more, ~b.more,
               a.what \in {"op", "cancel"}, b.what \in {"op", "cancel"}, a.what # b.what,
               s.what = "cancel", kern[g] = "active", kern' = [kern EXCEPT ![g] = "over"]
        PROVE  UringInv'
    <3> DEFINE q == Append(cq, a)
    <3>1. cq' = Append(q, b)
      BY <1>t, <2>3
    <3> HIDE DEF q
    <3>2. /\ q \in Seq(CqeType) /\ Len(q) = Len(cq) + 1
          /\ \A x : Occurs(q, x) <=> Occurs(cq, x) \/ x = a
          /\ \A f : HasEnd(q, f) <=> HasEnd(cq, f) \/ Ends(a, f)
          /\ \A f : Followed(cq, f) /\ ~Goes(a, f) => Followed(q, f)
          /\ \A f : Ends(a, f) => Followed(q, f)
      BY <1>t, CqGrows DEF q
    <3>3. /\ cq' \in Seq(CqeType) /\ Len(cq') = Len(q) + 1
          /\ \A x : Occurs(cq', x) <=> Occurs(q, x) \/ x = b
          /\ \A f : HasEnd(cq', f) <=> HasEnd(q, f) \/ Ends(b, f)
          /\ \A f : Followed(q, f) /\ ~Goes(b, f) => Followed(cq', f)
          /\ \A f : Ends(b, f) => Followed(cq', f)
      BY <3>1, <3>2, AppendFacts, BackFacts
    <3>4. kern' \in [Futs -> {"none", "active", "over"}] /\ kern'[g] = "over" /\ \A f \in Futs \ {g} : kern'[f] = kern[f]
      BY <1>t, <1>2, <2>3
    <3>5. ~Occurs(Pipe, OpSqe(g)) /\ \A f \in Futs : Occurs(Pipe', OpSqe(f)) <=> Occurs(Pipe, OpSqe(f))
      BY <1>g, <1>1, <1>2, <2>3, <2>n DEF SqeOk
    <3>6. ASSUME NEW x, Occurs(Pipe', x)
          PROVE  SqeOk(x)'
      <4>1. SqeOk(x) /\ x.fut \in Futs
        BY <1>1, <3>6 DEF SqeType
      <4> QED BY <1>0, <2>3, <3>4, <4>1 DEF SqeOk, Leaving
    <3>7. ASSUME NEW x, Occurs(cq', x)
          PROVE  CqeOk(x)'
      <4>1. x = a \/ x = b \/ (CqeOk(x) /\ x.fut \in Futs)
        BY <1>t, <3>2, <3>3, <3>7 DEF CqeType
      <4>2. Leaving(g)
        BY <1>g, <1>1, <2>3 DEF SqeOk
      <4> QED BY <1>0, <2>3, <3>4, <4>1, <4>2 DEF CqeOk, Leaving
    <3>8. \A f \in Futs : kern'[f] # "active" => Followed(cq', f)
      BY <1>t, <2>3, <3>2, <3>3, <3>4 DEF QueuesOk, Goes, Ends
    <3>9. FutOk(g)'
      <4>1. HasEnd(cq', g)
        BY <2>3, <3>2, <3>3 DEF Ends
      <4>2. ~Occurs(Pipe', OpSqe(g)) /\ kern'[g] = "over"
        BY <1>2, <3>4, <3>5
      <4> QED BY <1>t, <1>0, <2>3, <4>1, <4>2 DEF FutOk, PlaceOk, LentOk, EndOk, WakeOk, InFlight, OpSqe
    <3>10. Len(cq) <= Len(cq')
      BY <1>t, <3>2, <3>3
    <3> QED BY <1>0, <1>1, <1>2, <1>t, <2>3, <3>2, <3>3, <3>4, <3>5, <3>6, <3>7, <3>8, <3>9, <3>10, KernelStep
  <2>4. \A what \in {"op", "provide", "cancel", "remove"} : \A ok \in BOOLEAN :
          LET c == U!Cqe(what, g, ok, FALSE)
          IN  c \in CqeType /\ c.what = what /\ c.fut = g /\ c.ok = ok /\ ~c.more
    BY <1>2 DEF U!Cqe, CqeType
  <2>5. CASE s.what = "cancel" /\ cq' = Append(cq, U!Cqe("cancel", g, FALSE, FALSE)) /\ kern' = kern
    BY <2>2, <2>4, <2>5
  <2>6. ASSUME s.what \in {"provide", "remove"}, kern' = kern,
               NEW ok \in BOOLEAN, cq' = Append(cq, U!Cqe(s.what, g, ok, FALSE))
        PROVE  UringInv'
    BY <2>2, <2>4, <2>6
  <2>7. CASE /\ s.what = "cancel" /\ kern[g] = "active" /\ kern' = [kern EXCEPT ![g] = "over"]
             /\ cq' = cq \o <<U!Cqe("op", g, FALSE, FALSE), U!Cqe("cancel", g, TRUE, FALSE)>>
    BY <2>3, <2>4, <2>7
  <2>8. CASE /\ s.what = "cancel" /\ kern[g] = "active" /\ kern' = [kern EXCEPT ![g] = "over"]
             /\ cq' = cq \o <<U!Cqe("cancel", g, TRUE, FALSE), U!Cqe("op", g, FALSE, FALSE)>>
    BY <2>3, <2>4, <2>8
  <2> QED BY <1>c, <2>1, <2>5, <2>6, <2>7, <2>8
<1> QED BY <1>c, <1>s, <1>g DEF U!KernelStart
-----------------------------------------------------------------------------
(* The reaper.  Reaping(c, g): the CQE c of the future g leaves the queue. *)
Reaping(c, g) ==
  /\ UringInv /\ g \in Futs /\ c \in CqeType /\ c.fut = g /\ CqeOk(c)
  /\ fut' = fut /\ kern' = kern /\ ring' = ring
  /\ Occurs(Pipe', OpSqe(g)) <=> Occurs(Pipe, OpSqe(g))
  /\ HasEnd(cq, g) => HasEnd(cq', g) \/ Ends(c, g)
  /\ Goes(c, g) => kern[g] = "active" \/ HasEnd(cq', g)
  /\ g \in spoilt => g \in spoilt'
  /\ g \in reap.wake => g \in reap'.wake
  /\ entry[g].waker /\ ~entry'[g].waker => g \in reap'.wake

(* Its entry has moved rightly. *)
Moved(g) ==
  /\ entry' \in [Futs -> EntryType] /\ home' \in [Futs -> {"future", "ring", "caller", "freed"}]
  /\ \A f \in Futs \ {g} : entry'[f] = entry[f] /\ home'[f] = home[f]
  /\ FutOk(g)'

LEMMA ReapingTypes ==
  ASSUME NEW c, NEW g, Reaping(c, g)
  PROVE  /\ entry \in [Futs -> EntryType] /\ home \in [Futs -> {"future", "ring", "caller", "freed"}]
         /\ FutOk(g) /\ entry[g] \in EntryType /\ g \in Futs /\ c.fut = g
         /\ kern[g] = "over" => ~InFlight(g)
<1>1. kern[g] = "over" => ~Occurs(Pipe, OpSqe(g))
  BY DEF Reaping, UringInv, QueuesOk, SqeOk, OpSqe
<1> QED BY <1>1 DEF Reaping, UringInv, UringType, InFlight

LEMMA KeepsOk ==
  ASSUME NEW c, NEW g, Reaping(c, g), U!Keep(g, entry[g]), ~Ends(c, g) \/ entry[g].slab = "none"
  PROVE  Moved(g)
<1>t. /\ entry \in [Futs -> EntryType] /\ home \in [Futs -> {"future", "ring", "caller", "freed"}]
      /\ FutOk(g) /\ entry[g] \in EntryType /\ g \in Futs
  BY ReapingTypes
<1>1. entry' = entry /\ home' = home
  BY <1>t DEF U!Keep
<1>2. FutOk(g)'
  BY <1>t, <1>1 DEF Reaping, FutOk, PlaceOk, LentOk, EndOk, WakeOk, InFlight, OpSqe
<1> QED BY <1>t, <1>1, <1>2 DEF Moved

LEMMA FreesOk ==
  ASSUME NEW c, NEW g, Reaping(c, g), U!FreeOrphan(g), kern[g] = "over" \/ g \in spoilt,
         entry[g].slab = "orphaned" \/ Leaving(g)
  PROVE  Moved(g)
<1>t. /\ entry \in [Futs -> EntryType] /\ home \in [Futs -> {"future", "ring", "caller", "freed"}]
      /\ FutOk(g) /\ entry[g] \in EntryType /\ g \in Futs /\ (kern[g] = "over" => ~InFlight(g))
  BY ReapingTypes
<1>1. entry' = [entry EXCEPT ![g] = U!NoEntry] /\ home' = [home EXCEPT ![g] = "freed"]
  BY DEF U!FreeOrphan
<1>2. fut[g].pc \notin {"new", "started", "pending", "looked", "ready"}
  BY <1>t DEF FutOk, PlaceOk, Leaving
<1>3. InFlight(g) => g \in spoilt
  BY <1>t
<1>4. FutOk(g)'
  <2>1. entry'[g] = U!NoEntry
    BY <1>t, <1>1
  <2> QED BY <1>t, <1>2, <1>3, <2>1, NoEntryType DEF Reaping, FutOk, PlaceOk, LentOk, EndOk, WakeOk, InFlight, OpSqe, U!NoEntry
<1> QED BY <1>t, <1>1, <1>4, NoEntryType DEF Moved

(* An entry that stays with e in its place. *)
LEMMA TurnsOk ==
  ASSUME NEW c, NEW g, Reaping(c, g), NEW e \in EntryType, U!Keep(g, e), e.slab = entry[g].slab, e.slab # "none",
         e.cleanup # "done" => fut[g].class = "mrecv",
         e.result = "none" /\ ~e.terminal => InFlight(g) \/ HasEnd(cq', g),
         e.result # "none" => kern[g] = "over" /\ fut[g].class \notin U!Multishot,
         e.terminal => kern[g] = "over" \/ g \in spoilt',
         e.slab = "orphaned" => e.result = "none" /\ (e.terminal => e.cleanup # "done" \/ e.events # <<>>),
         e.slab = "ops" /\ e.result = "none" /\ fut[g].class \notin U!Multishot => e.waker,
         fut[g].pc \in {"started", "pending", "looked"} /\ e.result # "none" => fut[g].woken \/ g \in reap'.wake
  PROVE  Moved(g)
<1>t. /\ entry \in [Futs -> EntryType] /\ home \in [Futs -> {"future", "ring", "caller", "freed"}]
      /\ FutOk(g) /\ entry[g] \in EntryType /\ g \in Futs
  BY ReapingTypes
<1>1. entry' = [entry EXCEPT ![g] = e] /\ home' = home
  BY DEF U!Keep
<1>2. entry'[g] = e
  BY <1>t, <1>1
<1>3. PlaceOk(g)'
  BY <1>t, <1>1, <1>2 DEF Reaping, FutOk, PlaceOk
<1>4. LentOk(g)'
  BY <1>t, <1>1, <1>2 DEF Reaping, FutOk, LentOk, InFlight, OpSqe
<1>5. EndOk(g)' /\ WakeOk(g)'
  BY <1>t, <1>1, <1>2 DEF Reaping, EndOk, WakeOk
<1> QED BY <1>t, <1>1, <1>3, <1>4, <1>5 DEF Moved, FutOk

LEMMA ReapCancelOk ==
  ASSUME NEW c, NEW g, Reaping(c, g), U!ReapCancel(c)
  PROVE  Moved(g)
<1>t. c.fut = g
  BY ReapingTypes
<1>1. Leaving(g) /\ (c.ok => kern[g] = "over") /\ ~Ends(c, g)
  BY DEF U!ReapCancel, Reaping, CqeOk, Ends
<1>2. U!Keep(g, entry[g]) \/ (U!FreeOrphan(g) /\ c.ok)
  BY <1>t DEF U!ReapCancel
<1> QED BY <1>1, <1>2, KeepsOk, FreesOk

LEMMA ReapRemoveOk ==
  ASSUME NEW c, NEW g, Reaping(c, g), U!ReapRemove(c)
  PROVE  Moved(g)
<1>t. FutOk(g) /\ entry[g] \in EntryType /\ g \in Futs /\ c.fut = g
  BY ReapingTypes
<1> DEFINE d == [entry[g] EXCEPT !.cleanup = IF c.ok THEN "done" ELSE "todo"]
           w == [d EXCEPT !.waker = FALSE]
<1>0. fut[g].class = "mrecv" /\ fut[g].class \in U!Multishot /\ ~Ends(c, g)
  BY DEF U!ReapRemove, Reaping, CqeOk, Ends, U!Multishot
<1>1. /\ d \in EntryType /\ d.slab = entry[g].slab /\ d.result = entry[g].result /\ d.terminal = entry[g].terminal
      /\ d.events = entry[g].events /\ d.cleanup = (IF c.ok THEN "done" ELSE "todo")
  BY <1>t DEF EntryType
<1>2. /\ w \in EntryType /\ w.slab = d.slab /\ w.result = d.result /\ w.terminal = d.terminal
      /\ w.events = d.events /\ w.cleanup = d.cleanup
  <2> HIDE DEF d
  <2> QED BY <1>1 DEF EntryType
<1>3. /\ entry[g].slab # "none" /\ entry[g].result = "none" /\ ~entry[g].terminal => InFlight(g) \/ HasEnd(cq', g)
      /\ entry[g].result = "none"
      /\ entry[g].terminal => kern[g] = "over" \/ g \in spoilt'
  BY <1>t, <1>0 DEF FutOk, LentOk, EndOk, Reaping
<1>4. CASE entry[g].slab = "ops"
  <2>1. U!Keep(g, w)
    BY <1>4, <1>t DEF U!ReapRemove, U!Takes
  <2> HIDE DEF d, w
  <2> QED BY <1>0, <1>1, <1>2, <1>3, <1>4, <2>1, TurnsOk
<1>5. CASE entry[g].slab = "orphaned" /\ c.ok /\ entry[g].terminal /\ entry[g].events = <<>>
  <2>1. U!FreeOrphan(g)
    BY <1>5, <1>t DEF U!ReapRemove
  <2>2. kern[g] = "over" \/ g \in spoilt
    BY <1>5, <1>t DEF FutOk, EndOk
  <2> QED BY <1>5, <2>1, <2>2, FreesOk
<1>6. CASE entry[g].slab = "orphaned" /\ ~(c.ok /\ entry[g].terminal /\ entry[g].events = <<>>)
  <2>1. U!Keep(g, d)
    BY <1>6, <1>t DEF U!ReapRemove
  <2> HIDE DEF d, w
  <2> QED BY <1>0, <1>1, <1>3, <1>6, <2>1, TurnsOk
<1>7. CASE entry[g].slab = "none"
  <2>1. U!Keep(g, entry[g])
    BY <1>7, <1>t DEF U!ReapRemove
  <2> QED BY <1>7, <2>1, KeepsOk
<1> QED BY <1>t, <1>4, <1>5, <1>6, <1>7 DEF EntryType

LEMMA ReapProvideOk ==
  ASSUME NEW c, NEW g, Reaping(c, g), U!ReapProvide(c)
  PROVE  Moved(g)
<1>t. FutOk(g) /\ entry[g] \in EntryType /\ g \in Futs /\ c.fut = g /\ UringType
  BY ReapingTypes DEF Reaping, UringInv
<1>0. fut[g].class = "mrecv" /\ fut[g].class \in U!Multishot /\ ~Ends(c, g)
  BY DEF U!ReapProvide, Reaping, CqeOk, Ends, U!Multishot
<1>1. CASE ~c.ok /\ entry[g].slab = "ops"
  <2> DEFINE p == U!Pushed(entry[g], FALSE)
             d == [p EXCEPT !.terminal = TRUE]
             w == [d EXCEPT !.waker = FALSE]
  <2>1. entry[g].events \in Seq(BOOLEAN) /\ Append(entry[g].events, FALSE) \in Seq(BOOLEAN)
    BY <1>t DEF EntryType
  <2>2. /\ p \in EntryType /\ p.slab = entry[g].slab /\ p.result = entry[g].result /\ p.cleanup = entry[g].cleanup
    BY <1>t, <2>1 DEF U!Pushed, EntryType
  <2>3. /\ d \in EntryType /\ d.slab = p.slab /\ d.result = p.result /\ d.cleanup = p.cleanup /\ d.terminal
    <3> HIDE DEF p
    <3> QED BY <2>2 DEF EntryType
  <2>4. /\ w \in EntryType /\ w.slab = d.slab /\ w.result = d.result /\ w.cleanup = d.cleanup /\ w.terminal
    <3> HIDE DEF p, d
    <3> QED BY <2>3 DEF EntryType
  <2>5. U!Keep(g, w) /\ spoilt' = IF U!Lent(g) THEN spoilt \union {g} ELSE spoilt
    BY <1>1, <1>t DEF U!ReapProvide, U!Takes
  <2>6. kern[g] = "over" \/ g \in spoilt'
    <3>1. U!Lent(g) <=> InFlight(g)
      BY <1>t, LentNames
    <3>2. kern[g] = "over" \/ InFlight(g)
      BY <1>t, <1>1 DEF FutOk, LentOk, InFlight, UringType
    <3> QED BY <2>5, <3>1, <3>2
  <2>7. entry[g].result = "none" /\ (entry[g].cleanup # "done" => fut[g].class = "mrecv")
    BY <1>t, <1>0 DEF FutOk, EndOk, PlaceOk
  <2> HIDE DEF p, d, w
  <2> QED BY <1>0, <1>1, <2>2, <2>3, <2>4, <2>5, <2>6, <2>7, TurnsOk
<1>2. CASE ~(~c.ok /\ entry[g].slab = "ops")
  <2>1. U!Keep(g, entry[g])
    BY <1>2, <1>t DEF U!ReapProvide
  <2> QED BY <1>0, <2>1, KeepsOk
<1> QED BY <1>1, <1>2

LEMMA ReapOpsOk ==
  ASSUME NEW c, NEW g, Reaping(c, g), U!ReapOps(c)
  PROVE  Moved(g)
<1>t. /\ FutOk(g) /\ entry[g] \in EntryType /\ g \in Futs /\ c.fut = g /\ UringType /\ c.ok \in BOOLEAN /\ c.more \in BOOLEAN
      /\ entry \in [Futs -> EntryType]
  BY ReapingTypes DEF Reaping, UringInv, CqeType
<1>0. /\ c.what = "op" /\ entry[g].slab = "ops" /\ (~c.more => kern[g] = "over")
      /\ (c.more => fut[g].class \in U!Multishot) /\ (entry[g].cleanup # "done" => fut[g].class = "mrecv")
  BY <1>t DEF U!ReapOps, Reaping, CqeOk, FutOk, PlaceOk
<1>1. CASE fut[g].class \in U!Multishot
  <2> DEFINE p == U!Pushed(entry[g], c.ok)
             d == [p EXCEPT !.terminal = ~c.more]
             w == [d EXCEPT !.waker = FALSE]
  <2>1. entry[g].events \in Seq(BOOLEAN) /\ Append(entry[g].events, c.ok) \in Seq(BOOLEAN)
    BY <1>t DEF EntryType
  <2>2. /\ p \in EntryType /\ p.slab = entry[g].slab /\ p.result = entry[g].result /\ p.cleanup = entry[g].cleanup
    BY <1>t, <2>1 DEF U!Pushed, EntryType
  <2>3. /\ d \in EntryType /\ d.slab = p.slab /\ d.result = p.result /\ d.cleanup = p.cleanup /\ d.terminal = ~c.more
    <3> HIDE DEF p
    <3> QED BY <1>t, <2>2 DEF EntryType
  <2>4. /\ w \in EntryType /\ w.slab = d.slab /\ w.result = d.result /\ w.cleanup = d.cleanup /\ w.terminal = ~c.more
    <3> HIDE DEF p, d
    <3> QED BY <2>3 DEF EntryType
  <2>5. U!Keep(g, w)
    BY <1>1, <1>t DEF U!ReapOps, U!Takes, U!Class
  <2>6. c.more => InFlight(g) \/ HasEnd(cq', g)
    BY <1>t, <1>0 DEF Reaping, Goes, InFlight
  <2>7. entry[g].result = "none"
    BY <1>t, <1>1 DEF FutOk, EndOk
  <2> HIDE DEF p, d, w
  <2> QED BY <1>t, <1>0, <1>1, <2>2, <2>3, <2>4, <2>5, <2>6, <2>7, TurnsOk
<1>2. CASE fut[g].class \notin U!Multishot
  <2> DEFINE d == [entry[g] EXCEPT !.result = IF c.ok THEN "ok" ELSE "err"]
             w == [d EXCEPT !.waker = FALSE]
  <2>1. /\ d \in EntryType /\ d.slab = entry[g].slab /\ d.result \in {"ok", "err"} /\ d.cleanup = entry[g].cleanup
        /\ d.terminal = entry[g].terminal
    BY <1>t DEF EntryType
  <2>2. /\ w \in EntryType /\ w.slab = d.slab /\ w.result = d.result /\ w.cleanup = d.cleanup /\ w.terminal = d.terminal
        /\ ~w.waker
    <3> HIDE DEF d
    <3> QED BY <2>1 DEF EntryType
  <2>3. U!Keep(g, w)
    BY <1>2, <1>t DEF U!ReapOps, U!Takes, U!Class
  <2> HIDE DEF d, w
  <2>4. entry'[g] = w
    BY <1>t, <2>3 DEF U!Keep
  <2>5. kern[g] = "over"
    BY <1>t, <1>0, <1>2
  <2>6. fut[g].pc \in {"started", "pending", "looked"} => fut[g].woken \/ g \in reap'.wake
    BY <1>t, <1>0, <1>2, <2>2, <2>4 DEF FutOk, WakeOk, Reaping
  <2> QED BY <1>t, <1>0, <1>2, <2>1, <2>2, <2>3, <2>5, <2>6, TurnsOk
<1> QED BY <1>1, <1>2

LEMMA ReapOrphanOk ==
  ASSUME NEW c, NEW g, Reaping(c, g), U!ReapOrphan(c)
  PROVE  Moved(g)
<1>t. /\ FutOk(g) /\ entry[g] \in EntryType /\ g \in Futs /\ c.fut = g /\ c.more \in BOOLEAN
  BY ReapingTypes DEF Reaping, CqeType
<1>0. c.what = "op" /\ entry[g].slab # "ops" /\ (~c.more => kern[g] = "over")
  BY <1>t DEF U!ReapOrphan, Reaping, CqeOk
<1>1. CASE entry[g].slab = "none" \/ c.more
  <2>1. U!Keep(g, entry[g])
    BY <1>1, <1>t DEF U!ReapOrphan
  <2> QED BY <1>1, <2>1, KeepsOk DEF Ends
<1>2. CASE entry[g].slab = "orphaned" /\ ~c.more /\ entry[g].cleanup = "done"
  <2>1. U!FreeOrphan(g)
    BY <1>2, <1>t DEF U!ReapOrphan
  <2> QED BY <1>0, <1>2, <2>1, FreesOk
<1>3. CASE entry[g].slab = "orphaned" /\ ~c.more /\ entry[g].cleanup # "done"
  <2> DEFINE d == [entry[g] EXCEPT !.terminal = TRUE]
  <2>1. /\ d \in EntryType /\ d.slab = entry[g].slab /\ d.result = entry[g].result /\ d.cleanup = entry[g].cleanup
        /\ d.terminal
    BY <1>t DEF EntryType
  <2>2. U!Keep(g, d)
    BY <1>3, <1>t DEF U!ReapOrphan
  <2>3. entry[g].result = "none" /\ fut[g].class = "mrecv"
    BY <1>t, <1>3 DEF FutOk, EndOk, PlaceOk
  <2> HIDE DEF d
  <2> QED BY <1>0, <1>3, <2>1, <2>2, <2>3, TurnsOk
<1> QED BY <1>t, <1>0, <1>1, <1>2, <1>3 DEF EntryType

LEMMA ReapOneStep ==
  ASSUME UringInv, U!ReapOne
  PROVE  UringInv'
<1>t. /\ UringType /\ RingOk /\ QueuesOk /\ cq \in Seq(CqeType) /\ sq \in Seq(SqeType) /\ taken \in Seq(SqeType)
      /\ reap \in ReapType /\ Entries \in Nat /\ spoilt \subseteq Futs /\ Len(sq) \in Nat
  BY EntriesNat DEF UringInv, UringType
<1>a. PICK c : c = Head(cq)
  OBVIOUS
<1>b. PICK g : g = c.fut
  OBVIOUS
<1>0. /\ reap.pc = "loop" /\ reap.left > 0 /\ cq' = Tail(cq)
      /\ U!ReapCancel(c) \/ U!ReapRemove(c) \/ U!ReapProvide(c) \/ U!ReapOps(c) \/ U!ReapOrphan(c)
      /\ sq' = IF U!Refills(c) THEN Append(sq, U!Sqe("provide", g)) ELSE sq
      /\ reap' = [reap EXCEPT !.left = @ - 1, !.submit = @ \/ U!Refills(c),
                              !.wake = IF entry[g].waker /\ ~entry'[g].waker THEN @ \union {g} ELSE @]
      /\ fut' = fut /\ taken' = taken /\ kern' = kern /\ ring' = ring
  BY <1>a, <1>b DEF U!ReapOne, U!kernel
<1>1. reap.left \in Nat /\ reap.left <= Len(cq) /\ Len(cq) \in Nat /\ cq # <<>>
  BY <1>t, <1>0 DEF RingOk, ReapType
<1>2. /\ cq' \in Seq(CqeType) /\ c \in CqeType /\ Len(cq') = Len(cq) - 1 /\ Occurs(cq, c)
      /\ \A x : Occurs(cq', x) => Occurs(cq, x)
      /\ \A f : HasEnd(cq, f) <=> HasEnd(cq', f) \/ Ends(c, f)
      /\ \A f : Followed(cq, f) => Followed(cq', f) /\ (Goes(c, f) => HasEnd(cq', f))
  BY <1>t, <1>a, <1>0, <1>1, FrontFacts
<1>3. g \in Futs /\ CqeOk(c) /\ c.what \in {"op", "provide", "cancel", "remove"}
  BY <1>t, <1>b, <1>2 DEF CqeType, QueuesOk
<1>4. spoilt \subseteq spoilt' /\ spoilt' \subseteq Futs
  BY <1>t, <1>b, <1>0, <1>3 DEF U!ReapCancel, U!ReapRemove, U!ReapProvide, U!ReapOps, U!ReapOrphan
<1>5. /\ reap' \in ReapType /\ reap'.pc = "loop" /\ reap'.left = reap.left - 1
      /\ \A f \in reap.wake : f \in reap'.wake
      /\ entry[g].waker /\ ~entry'[g].waker => g \in reap'.wake
  <2> DEFINE w == IF entry[g].waker /\ ~entry'[g].waker THEN reap.wake \union {g} ELSE reap.wake
             s == reap.submit \/ U!Refills(c)
  <2>1. w \in SUBSET Futs /\ (\A f \in reap.wake : f \in w) /\ (entry[g].waker /\ ~entry'[g].waker => g \in w)
    BY <1>t, <1>3 DEF ReapType
  <2>2. s \in BOOLEAN
    BY <1>t, <1>3 DEF ReapType, U!Refills
  <2>3. reap.left - 1 \in Nat
    BY <1>0, <1>1
  <2>4. reap' = [reap EXCEPT !.left = reap.left - 1, !.submit = s, !.wake = w]
    BY <1>0
  <2> HIDE DEF w, s
  <2> QED BY <1>t, <1>0, <2>1, <2>2, <2>3, <2>4 DEF ReapType
<1>6. PICK r \in Seq(SqeType) : /\ sq' = sq \o r /\ sq' \in Seq(SqeType) /\ Len(sq') <= Entries
                                /\ \A s : Occurs(r, s) => s = U!Sqe("provide", g) /\ fut[g].class = "mrecv"
  <2>1. CASE U!Refills(c)
    <3> DEFINE p == U!Sqe("provide", g)
    <3>1. p \in SqeType
      BY <1>3 DEF U!Sqe, SqeType
    <3>2. fut[g].class = "mrecv" /\ Entries - Len(sq) > 0 /\ sq' = Append(sq, p)
      BY <1>b, <1>0, <2>1 DEF U!Refills, U!Class, U!sq_space_locked
    <3> HIDE DEF p
    <3>3. <<p>> \in Seq(SqeType) /\ Append(sq, p) = sq \o <<p>> /\ \A s : Occurs(<<p>>, s) => s = p
      BY <1>t, <3>1 DEF Occurs
    <3>4. Append(sq, p) \in Seq(SqeType) /\ Len(Append(sq, p)) = Len(sq) + 1
      BY <1>t, <3>1
    <3>5. sq' = sq \o <<p>> /\ sq' \in Seq(SqeType) /\ Len(sq') <= Entries
      BY <1>t, <3>2, <3>3, <3>4
    <3>6. \A s : Occurs(<<p>>, s) => s = U!Sqe("provide", g) /\ fut[g].class = "mrecv"
      BY <3>2, <3>3 DEF p
    <3> QED BY <3>3, <3>5, <3>6
  <2>2. CASE ~U!Refills(c)
    <3>1. sq = sq \o <<>>
      BY <1>t
    <3> QED BY <1>t, <1>0, <2>2, <3>1, NothingQueued DEF RingOk
  <2> QED BY <2>1, <2>2
<1>7. Pipe' = Pipe \o r
  <2>1. taken \o (sq \o r) = (taken \o sq) \o r
    BY <1>t, PipeFacts, SMTT(60)
  <2> QED BY <1>0, <1>6, <2>1 DEF Pipe
<1>8. U!Sqe("provide", g).what = "provide" /\ U!Sqe("provide", g).fut = g /\ \A f : U!Sqe("provide", g) # OpSqe(f)
  BY DEF U!Sqe, OpSqe
<1>9. /\ QueuesOk'
      /\ \A f \in Futs : Occurs(Pipe', OpSqe(f)) <=> Occurs(Pipe, OpSqe(f))
  <2>1. \A s \in SqeType : Occurs(r, s) => SqeOk(s)'
    BY <1>0, <1>6, <1>8 DEF SqeOk
  <2>2. \A f \in Futs : Onward(f) /\ ~Occurs(r, OpSqe(f))
    BY <1>0, <1>6, <1>8 DEF Onward, Leaving
  <2>3. /\ QueuesOk'
        /\ \A f \in Futs : Occurs(Pipe', OpSqe(f)) <=> Occurs(Pipe, OpSqe(f)) \/ Occurs(r, OpSqe(f))
    BY <1>t, <1>0, <1>2, <1>6, <1>7, <2>1, <2>2, QueuesGrow
  <2> QED BY <2>2, <2>3
<1>10. Reaping(c, g)
  <2>1. Goes(c, g) => kern[g] = "active" \/ HasEnd(cq', g)
    BY <1>t, <1>2, <1>3 DEF QueuesOk
  <2>2. HasEnd(cq, g) => HasEnd(cq', g) \/ Ends(c, g)
    BY <1>2
  <2> QED BY <1>b, <1>0, <1>2, <1>3, <1>4, <1>5, <1>9, <2>1, <2>2 DEF Reaping
<1>11. Moved(g)
  BY <1>0, <1>10, ReapCancelOk, ReapRemoveOk, ReapProvideOk, ReapOpsOk, ReapOrphanOk
<1>12. UringType'
  BY <1>t, <1>0, <1>2, <1>4, <1>5, <1>6, <1>11 DEF UringType, Moved
<1>13. RingOk'
  BY <1>t, <1>0, <1>1, <1>2, <1>5, <1>6 DEF RingOk
<1>14. ASSUME NEW f \in Futs, f # g
       PROVE  FutOk(f)'
  <2>1. HasEnd(cq, f) => HasEnd(cq', f)
    BY <1>b, <1>2, <1>14 DEF Ends
  <2>2. Same(f)
    BY <1>0, <1>4, <1>5, <1>9, <1>11, <1>14, <2>1 DEF Same, Moved
  <2> QED BY <2>2, SameOk DEF UringInv
<1> QED BY <1>9, <1>11, <1>12, <1>13, <1>14 DEF UringInv, Moved

(* A step that queues SQEs r, none of them an operation, and posts nothing. *)
LEMMA QuietQueues ==
  ASSUME UringInv, \A f \in Futs : Onward(f), kern' = kern, cq' = cq,
         NEW r \in Seq(SqeType), Pipe' = Pipe \o r, \A s : Occurs(r, s) => s.what # "op" /\ SqeOk(s)'
  PROVE  QueuesOk' /\ \A f \in Futs : Occurs(Pipe', OpSqe(f)) <=> Occurs(Pipe, OpSqe(f))
<1>1. \A f \in Futs : ~Occurs(r, OpSqe(f))
  BY DEF OpSqe
<1>2. UringType /\ QueuesOk
  BY DEF UringInv
<1>3. /\ QueuesOk'
      /\ \A f \in Futs : Occurs(Pipe', OpSqe(f)) <=> Occurs(Pipe, OpSqe(f)) \/ Occurs(r, OpSqe(f))
  BY <1>1, <1>2, QueuesGrow
<1> QED BY <1>1, <1>3

(* Nothing is queued. *)
LEMMA SilentQueues ==
  ASSUME UringInv, \A f \in Futs : Onward(f), kern' = kern, cq' = cq, Pipe' = Pipe
  PROVE  QueuesOk' /\ \A f \in Futs : Occurs(Pipe', OpSqe(f)) <=> Occurs(Pipe, OpSqe(f))
<1>1. taken \in Seq(SqeType) /\ sq \in Seq(SqeType)
  BY DEF UringInv, UringType
<1>2. Pipe \o <<>> = Pipe
  BY <1>1, PipeFacts DEF Pipe
<1> QED BY <1>2, NothingQueued, QuietQueues

LEMMA ReapBeginStep ==
  ASSUME UringInv, U!ReapBegin
  PROVE  UringInv'
<1>0. /\ reap.pc = "idle" /\ reap' = [pc |-> "loop", left |-> Len(cq), wake |-> {}, submit |-> FALSE]
      /\ UNCHANGED <<fut, home, entry, sq, taken, kern, cq, ring, spoilt>>
  BY DEF U!ReapBegin, U!kernel, U!history
<1>1. reap.wake = {} /\ UringType /\ Len(cq) \in Nat /\ RingOk
  BY <1>0 DEF UringInv, RingOk, UringType
<1>2. reap' \in ReapType /\ reap'.pc = "loop" /\ reap'.left = Len(cq)
  BY <1>0, <1>1 DEF ReapType
<1>3. UringType' /\ RingOk'
  BY <1>0, <1>1, <1>2 DEF UringType, RingOk
<1>4. Pipe' = Pipe /\ \A f \in Futs : Onward(f)
  BY <1>0 DEF Pipe, Onward, Leaving
<1>5. QueuesOk'
  BY <1>0, <1>4, SilentQueues
<1>6. ASSUME NEW f \in Futs
      PROVE  FutOk(f)'
  <2>1. Same(f)
    BY <1>0, <1>1, <1>4 DEF Same
  <2> QED BY <2>1, SameOk DEF UringInv
<1> QED BY <1>3, <1>5, <1>6 DEF UringInv

LEMMA ReapSubmitStep ==
  ASSUME UringInv, U!ReapSubmit
  PROVE  UringInv'
<1>0. /\ reap.pc = "submit" /\ reap' = [reap EXCEPT !.pc = "wake"] /\ (U!SubmitOk \/ UNCHANGED <<sq, taken>>)
      /\ UNCHANGED <<fut, home, entry, kern, cq, ring, spoilt>>
  BY DEF U!ReapSubmit, U!history
<1>1. UringType /\ RingOk /\ reap \in ReapType /\ Entries \in Nat
  BY EntriesNat DEF UringInv, UringType
<1>2. reap' \in ReapType /\ reap'.pc = "wake" /\ reap'.wake = reap.wake
  BY <1>0, <1>1 DEF ReapType
<1>3. Pipe' = Pipe /\ sq' \in Seq(SqeType) /\ taken' \in Seq(SqeType) /\ Len(sq') <= Entries
  <2>1. CASE U!SubmitOk
    BY <1>1, <2>1, SubmitFacts DEF UringType, RingOk
  <2>2. CASE UNCHANGED <<sq, taken>>
    BY <1>1, <2>2 DEF UringType, RingOk, Pipe
  <2> QED BY <1>0, <2>1, <2>2
<1>4. UringType' /\ RingOk'
  BY <1>0, <1>1, <1>2, <1>3 DEF UringType, RingOk
<1>5. \A f \in Futs : Onward(f)
  BY <1>0 DEF Onward, Leaving
<1>6. QueuesOk'
  BY <1>0, <1>3, <1>5, SilentQueues
<1>7. ASSUME NEW f \in Futs
      PROVE  FutOk(f)'
  <2>1. Same(f)
    BY <1>0, <1>2, <1>3 DEF Same
  <2> QED BY <2>1, SameOk DEF UringInv
<1> QED BY <1>4, <1>6, <1>7 DEF UringInv

LEMMA ReapWakeStep ==
  ASSUME UringInv, U!ReapWake
  PROVE  UringInv'
<1>0. /\ reap.pc = "wake" /\ UNCHANGED <<home, entry, sq, taken, kern, cq, ring, spoilt>> /\ Pipe' = Pipe
  BY DEF U!ReapWake, U!kernel, U!history, Pipe
<1>1. UringType /\ RingOk /\ reap \in ReapType /\ fut \in [Futs -> FutType] /\ reap.wake \subseteq Futs
  BY DEF UringInv, UringType, ReapType
<1>2. ASSUME NEW g \in reap.wake, U!Wake(g), reap' = [reap EXCEPT !.wake = @ \ {g}]
      PROVE  UringInv'
  <2>1. g \in Futs /\ fut' = [fut EXCEPT ![g] = [fut[g] EXCEPT !.woken = fut[g].woken \/ fut[g].pc # "done"]]
    BY <1>1, <1>2 DEF U!Wake
  <2>2. /\ reap' \in ReapType /\ reap'.pc = "wake" /\ reap'.wake = reap.wake \ {g}
    BY <1>0, <1>1, <1>2 DEF ReapType
  <2>3. /\ fut' \in [Futs -> FutType] /\ fut'[g].pc = fut[g].pc /\ fut'[g].class = fut[g].class
        /\ fut[g].pc # "done" => fut'[g].woken
        /\ \A f \in Futs \ {g} : fut'[f] = fut[f]
    BY <1>1, <2>1 DEF FutType
  <2>4. UringType' /\ RingOk'
    BY <1>0, <1>1, <2>2, <2>3 DEF UringType, RingOk
  <2>5. \A f \in Futs : Onward(f)
    BY <2>3 DEF Onward, Leaving
  <2>6. QueuesOk'
    BY <1>0, <2>5, SilentQueues
  <2>7. FutOk(g)'
    <3>1. FutOk(g)
      BY <2>1 DEF UringInv
    <3> QED BY <1>0, <2>1, <2>3, <3>1 DEF FutOk, PlaceOk, LentOk, EndOk, WakeOk, InFlight, OpSqe
  <2>8. ASSUME NEW f \in Futs, f # g
        PROVE  FutOk(f)'
    <3>1. Same(f)
      BY <1>0, <2>2, <2>3, <2>8 DEF Same
    <3> QED BY <3>1, SameOk DEF UringInv
  <2> QED BY <2>4, <2>6, <2>7, <2>8 DEF UringInv
<1>3. CASE reap.wake = {} /\ UNCHANGED fut /\ reap' = [reap EXCEPT !.pc = "idle", !.submit = FALSE]
  <2>1. reap' \in ReapType /\ reap'.pc = "idle" /\ reap'.wake = {}
    BY <1>1, <1>3 DEF ReapType
  <2>2. UringType' /\ RingOk'
    BY <1>0, <1>1, <1>3, <2>1 DEF UringType, RingOk
  <2>3. \A f \in Futs : Onward(f)
    BY <1>3 DEF Onward, Leaving
  <2>4. QueuesOk'
    BY <1>0, <2>3, SilentQueues
  <2>5. ASSUME NEW f \in Futs
        PROVE  FutOk(f)'
    <3>1. Same(f)
      BY <1>0, <1>3 DEF Same
    <3> QED BY <3>1, SameOk DEF UringInv
  <2> QED BY <2>2, <2>4, <2>5 DEF UringInv
<1> QED BY <1>2, <1>3 DEF U!ReapWake

LEMMA UringNames ==
  ASSUME NEW S
  PROVE  U!Cardinality(S) = Cardinality(S)
  BY DEF U!Cardinality, Cardinality

(* As many members of S as there is room for, in some order. *)
LEMMA RoomFacts ==
  ASSUME NEW S \in SUBSET Futs, NEW room \in Nat, NEW due, due = U!SetToSeq(S),
         NEW now, now = SubSeq(due, 1, IF Len(due) < room THEN Len(due) ELSE room)
  PROVE  now \in Seq(S) /\ Len(now) \in Nat /\ Len(now) <= room
<1>0. IsFiniteSet(S)
  BY FutsFinite, FS_Subset
<1> DEFINE n == Cardinality(S)
<1>1. n \in Nat /\ ExistsBijection(1 .. n, S)
  BY <1>0, FS_CardinalityType
<1>2. PICK g \in [1 .. n -> S] : \A a, b \in 1 .. n : g[a] = g[b] => a = b
  BY <1>1 DEF ExistsBijection, Bijection, Injection, IsInjective
<1>3. \E h \in [1 .. n -> S] : U!IsInjective(h)
  BY <1>2 DEF U!IsInjective
<1>4. due \in [1 .. n -> S]
  <2>1. due = CHOOSE h \in [1 .. n -> S] : U!IsInjective(h)
    BY UringNames DEF U!SetToSeq
  <2> HIDE DEF n
  <2> QED BY <1>3, <2>1, Zenon
<1> HIDE DEF n
<1>5. due \in Seq(S) /\ Len(due) = n
  BY <1>1, <1>4
<1>6. PICK k : k = IF Len(due) < room THEN Len(due) ELSE room
  OBVIOUS
<1>7. k \in Nat /\ k <= Len(due) /\ k <= room
  BY <1>1, <1>5, <1>6
<1>8. now = SubSeq(due, 1, k)
  BY <1>6
<1>9. now \in Seq(S) /\ Len(now) = k
  BY <1>5, <1>7, <1>8
<1> QED BY <1>7, <1>9

(* One SQE for each of them. *)
LEMMA SqesFacts ==
  ASSUME NEW S \in SUBSET Futs, NEW now \in Seq(S), NEW what \in {"cancel", "remove"},
         NEW r, r = [i \in DOMAIN now |-> U!Sqe(what, now[i])]
  PROVE  /\ r \in Seq(SqeType) /\ Len(r) = Len(now)
         /\ \A s : Occurs(r, s) => s.what = what /\ s.fut \in S
<1>1. Len(now) \in Nat /\ DOMAIN now = 1 .. Len(now) /\ \A i \in 1 .. Len(now) : now[i] \in S
  OBVIOUS
<1>2. \A i \in 1 .. Len(now) : r[i] = [what |-> what, fut |-> now[i]]
  BY <1>1 DEF U!Sqe
<1>3. \A i \in 1 .. Len(now) : r[i] \in SqeType /\ r[i].what = what /\ r[i].fut \in S
  BY <1>1, <1>2 DEF SqeType
<1>4. r \in Seq(SqeType) /\ Len(r) = Len(now)
  <2>1. DOMAIN r = 1 .. Len(now) /\ r = [i \in 1 .. Len(now) |-> r[i]]
    BY <1>1
  <2> QED BY <1>1, <1>3, <2>1
<1> QED BY <1>3, <1>4 DEF Occurs

LEMMA ReapEndStep ==
  ASSUME UringInv, U!ReapEnd
  PROVE  UringInv'
<1>t. /\ UringType /\ RingOk /\ sq \in Seq(SqeType) /\ taken \in Seq(SqeType) /\ entry \in [Futs -> EntryType]
      /\ reap \in ReapType /\ Entries \in Nat /\ Len(sq) \in Nat /\ Len(sq) <= Entries
  BY EntriesNat DEF UringInv, UringType, RingOk
<1>a. PICK S : S = {f \in Futs : U!NeedsCleanup(f)}
  OBVIOUS
<1>b. PICK due : due = U!SetToSeq(S)
  OBVIOUS
<1>c. PICK room : room = Entries - Len(sq)
  OBVIOUS
<1>d. PICK now : now = SubSeq(due, 1, IF Len(due) < room THEN Len(due) ELSE room)
  OBVIOUS
<1>e. PICK r : r = [i \in DOMAIN now |-> U!Sqe("remove", now[i])]
  OBVIOUS
<1>0. /\ reap.pc = "loop" /\ sq' = sq \o r
      /\ entry' = [f \in Futs |-> IF f \in U!ToSet(now) THEN [entry[f] EXCEPT !.cleanup = "queued"] ELSE entry[f]]
      /\ reap' = [reap EXCEPT !.pc = "submit", !.submit = @ \/ now # <<>>]
      /\ UNCHANGED <<fut, home, taken, kern, cq, ring, spoilt>>
  BY <1>a, <1>b, <1>c, <1>d, <1>e DEF U!ReapEnd, U!sq_space_locked, U!kernel, U!history
<1>1. S \in SUBSET Futs /\ room \in Nat
  BY <1>t, <1>a, <1>c
<1>2. now \in Seq(S) /\ Len(now) \in Nat /\ Len(now) <= room
  BY <1>b, <1>d, <1>1, RoomFacts
<1>3. /\ r \in Seq(SqeType) /\ Len(r) = Len(now)
      /\ \A s : Occurs(r, s) => s.what = "remove" /\ s.fut \in S
  BY <1>e, <1>1, <1>2, SqesFacts
<1>4. \A f \in U!ToSet(now) : f \in S
  BY <1>2 DEF U!ToSet
<1>5. \A f \in S : f \in Futs /\ entry[f].slab # "none" /\ entry[f].cleanup = "todo" /\ fut[f].class = "mrecv"
  BY <1>a DEF U!NeedsCleanup, UringInv, FutOk, PlaceOk
<1>6. ASSUME NEW f \in Futs
      PROVE  /\ entry'[f] \in EntryType /\ entry'[f].slab = entry[f].slab /\ entry'[f].result = entry[f].result
             /\ entry'[f].terminal = entry[f].terminal /\ entry'[f].waker = entry[f].waker
             /\ entry'[f].events = entry[f].events /\ (entry'[f].cleanup # "done" <=> entry[f].cleanup # "done")
             /\ entry[f].slab = "none" => entry'[f] = entry[f]
  <2>1. entry[f] \in EntryType
    BY <1>t
  <2>2. CASE f \in U!ToSet(now)
    <3>1. entry'[f] = [entry[f] EXCEPT !.cleanup = "queued"]
      BY <1>0, <2>2
    <3> QED BY <1>4, <1>5, <2>1, <2>2, <3>1 DEF EntryType
  <2>3. CASE f \notin U!ToSet(now)
    BY <1>0, <2>1, <2>3
  <2> QED BY <2>2, <2>3
<1>7. entry' \in [Futs -> EntryType]
  <2>1. DOMAIN entry' = Futs /\ entry' = [f \in Futs |-> entry'[f]]
    BY <1>0
  <2> QED BY <1>6, <2>1
<1>8. reap' \in ReapType /\ reap'.pc = "submit" /\ reap'.wake = reap.wake
  <2> DEFINE s == reap.submit \/ now # <<>>
  <2>1. s \in BOOLEAN
    BY <1>t DEF ReapType
  <2> HIDE DEF s
  <2>2. reap' = [reap EXCEPT !.pc = "submit", !.submit = s]
    BY <1>0 DEF s
  <2> QED BY <1>t, <2>1, <2>2 DEF ReapType
<1>9. sq' \in Seq(SqeType) /\ Len(sq') <= Entries /\ Pipe' = Pipe \o r
  <2>1. taken \o (sq \o r) = (taken \o sq) \o r /\ sq \o r \in Seq(SqeType)
    BY <1>t, <1>3, PipeFacts, ConcatFacts, SMTT(60)
  <2>2. Len(sq \o r) = Len(sq) + Len(r)
    BY <1>t, <1>3, SMTT(60)
  <2> QED BY <1>t, <1>c, <1>0, <1>2, <1>3, <2>1, <2>2 DEF Pipe
<1>10. UringType' /\ RingOk'
  BY <1>t, <1>0, <1>7, <1>8, <1>9 DEF UringType, RingOk
<1>11. QueuesOk' /\ \A f \in Futs : Occurs(Pipe', OpSqe(f)) <=> Occurs(Pipe, OpSqe(f))
  <2>1. \A f \in Futs : Onward(f)
    BY <1>0 DEF Onward, Leaving
  <2>2. \A s : Occurs(r, s) => s.what # "op" /\ SqeOk(s)'
    BY <1>0, <1>3, <1>5 DEF SqeOk
  <2> QED BY <1>0, <1>3, <1>9, <2>1, <2>2, QuietQueues
<1>12. ASSUME NEW f \in Futs
       PROVE  FutOk(f)'
  <2>1. FutOk(f)
    BY DEF UringInv
  <2>2. PlaceOk(f)'
    BY <1>0, <1>6, <2>1, NoEntryType DEF FutOk, PlaceOk
  <2>3. LentOk(f)'
    BY <1>0, <1>6, <1>11, <2>1 DEF FutOk, LentOk, InFlight, OpSqe
  <2>4. EndOk(f)' /\ WakeOk(f)'
    BY <1>0, <1>6, <1>8, <2>1 DEF FutOk, EndOk, WakeOk
  <2> QED BY <2>2, <2>3, <2>4 DEF FutOk
<1> QED BY <1>10, <1>11, <1>12 DEF UringInv

LEMMA DropRingStep ==
  ASSUME UringInv, U!DropRing
  PROVE  UringInv'
<1>t. /\ UringType /\ RingOk /\ sq \in Seq(SqeType) /\ taken \in Seq(SqeType)
      /\ Entries \in Nat /\ Len(sq) \in Nat /\ Len(sq) <= Entries
  BY EntriesNat DEF UringInv, UringType, RingOk
<1>a. PICK S : S = {f \in Futs : entry[f].slab # "none"}
  OBVIOUS
<1>b. PICK due : due = U!SetToSeq(S)
  OBVIOUS
<1>c. PICK rest \in {<<>>, sq} :
        LET room == Entries - Len(rest)
            now == SubSeq(due, 1, IF Len(due) < room THEN Len(due) ELSE room)
            all == rest \o [i \in DOMAIN now |-> U!Sqe("cancel", now[i])]
            got == IF rest = <<>> THEN taken \o sq ELSE taken IN
        /\ \/ taken' = got \o all /\ sq' = <<>>
           \/ all # <<>> /\ taken' = got /\ sq' = all
        /\ cancel_targets' = cancel_targets \union U!ToSet(now)
        /\ ring' = IF due = <<>> THEN "closed" ELSE "closing"
  BY <1>a, <1>b DEF U!DropRing
<1>d. PICK room : room = Entries - Len(rest)
  OBVIOUS
<1>e. PICK now : now = SubSeq(due, 1, IF Len(due) < room THEN Len(due) ELSE room)
  OBVIOUS
<1>f. PICK r : r = [i \in DOMAIN now |-> U!Sqe("cancel", now[i])]
  OBVIOUS
<1>g. PICK got : got = IF rest = <<>> THEN taken \o sq ELSE taken
  OBVIOUS
<1>0. /\ ring = "open" /\ (\A f \in Futs : fut[f].pc = "done") /\ ring' \in {"closed", "closing"}
      /\ UNCHANGED <<fut, home, entry, kern, cq, reap, spoilt>>
  BY <1>c DEF U!DropRing, U!history
<1>1. (taken' = got \o (rest \o r) /\ sq' = <<>>) \/ (taken' = got /\ sq' = rest \o r)
  BY <1>c, <1>d, <1>e, <1>f, <1>g
<1>2. /\ rest \in Seq(SqeType) /\ got \in Seq(SqeType) /\ got \o rest = Pipe /\ room \in Nat /\ Len(rest) \in Nat
      /\ Len(rest) + room = Entries
  <2>1. taken \o sq \in Seq(SqeType) /\ (taken \o sq) \o <<>> = taken \o sq
    BY <1>t, PipeFacts, ConcatFacts
  <2>2. rest \in Seq(SqeType) /\ Len(rest) \in Nat /\ Len(rest) <= Entries
    <3>1. <<>> \in Seq(SqeType) /\ Len(<<>>) = 0
      OBVIOUS
    <3>2. rest = <<>> \/ rest = sq
      OBVIOUS
    <3>3. CASE rest = <<>>
      <4>1. 0 <= Entries
        BY <1>t
      <4> QED BY <3>1, <3>3, <4>1
    <3>4. CASE rest = sq
      BY <1>t, <3>4
    <3> QED BY <3>2, <3>3, <3>4
  <2>3. got \in Seq(SqeType) /\ got \o rest = taken \o sq
    BY <1>t, <1>c, <1>g, <2>1
  <2> QED BY <1>t, <1>d, <2>2, <2>3 DEF Pipe
<1>3. S \in SUBSET Futs
  BY <1>a
<1>4. now \in Seq(S) /\ Len(now) \in Nat /\ Len(now) <= room
  BY <1>b, <1>e, <1>2, <1>3, RoomFacts
<1>5. /\ r \in Seq(SqeType) /\ Len(r) = Len(now)
      /\ \A s : Occurs(r, s) => s.what = "cancel" /\ s.fut \in S
  BY <1>f, <1>3, <1>4, SqesFacts
<1>6. /\ rest \o r \in Seq(SqeType) /\ Len(rest \o r) = Len(rest) + Len(r) /\ got \o (rest \o r) \in Seq(SqeType)
      /\ got \o (rest \o r) = (got \o rest) \o r
  <2>0. rest \in Seq(SqeType) /\ got \in Seq(SqeType) /\ r \in Seq(SqeType)
    BY <1>2, <1>5
  <2>1. rest \o r \in Seq(SqeType) /\ Len(rest \o r) = Len(rest) + Len(r)
    BY <2>0
  <2>2. got \o (rest \o r) \in Seq(SqeType)
    BY <2>0, <2>1, ConcatFacts
  <2>3. got \o (rest \o r) = (got \o rest) \o r
    BY <2>0, PipeFacts, SMTT(60)
  <2> QED BY <2>1, <2>2, <2>3
<1>7. sq' \in Seq(SqeType) /\ taken' \in Seq(SqeType) /\ Len(sq') <= Entries /\ taken' \o sq' = got \o (rest \o r)
  <2>1. CASE taken' = got \o (rest \o r) /\ sq' = <<>>
    <3>1. (got \o (rest \o r)) \o <<>> = got \o (rest \o r)
      BY <1>6, PipeFacts
    <3>2. <<>> \in Seq(SqeType) /\ Len(<<>>) = 0
      OBVIOUS
    <3> QED BY <1>t, <1>6, <2>1, <3>1, <3>2
  <2>2. CASE taken' = got /\ sq' = rest \o r
    <3>1. Len(rest) + Len(r) <= Entries
      <4>1. Len(r) \in Nat /\ Len(r) <= room
        BY <1>4, <1>5
      <4>2. Len(rest) \in Nat /\ room \in Nat /\ Len(rest) + room = Entries
        BY <1>2
      <4> QED BY <4>1, <4>2
    <3> QED BY <1>2, <1>6, <2>2, <3>1
  <2> QED BY <1>1, <2>1, <2>2
<1>8. Pipe' = Pipe \o r
  BY <1>2, <1>6, <1>7 DEF Pipe
<1>9. UringType' /\ RingOk'
  BY <1>t, <1>0, <1>7 DEF UringType, RingOk
<1>10. QueuesOk' /\ \A f \in Futs : Occurs(Pipe', OpSqe(f)) <=> Occurs(Pipe, OpSqe(f))
  <2>1. \A f \in Futs : Onward(f)
    BY <1>0 DEF Onward, Leaving
  <2>2. \A s : Occurs(r, s) => s.what # "op" /\ SqeOk(s)'
    BY <1>0, <1>3, <1>5 DEF SqeOk, Leaving
  <2> QED BY <1>0, <1>5, <1>8, <2>1, <2>2, QuietQueues
<1>11. ASSUME NEW f \in Futs
       PROVE  FutOk(f)'
  <2>1. Same(f)
    BY <1>0, <1>10 DEF Same
  <2> QED BY <2>1, SameOk DEF UringInv
<1> QED BY <1>9, <1>10, <1>11 DEF UringInv

LEMMA CloseRingStep ==
  ASSUME UringInv, U!CloseRing
  PROVE  UringInv'
<1>t. UringType /\ RingOk /\ home \in [Futs -> {"future", "ring", "caller", "freed"}]
  BY DEF UringInv, UringType
<1>0. /\ ring = "closing" /\ ring' \in {"closed", "abandoned"} /\ Pipe' = Pipe
      /\ UNCHANGED <<fut, sq, taken, kern, cq, reap, spoilt>> /\ \A f \in Futs : fut[f].pc = "done"
  BY <1>t DEF U!CloseRing, U!kernel, U!history, Pipe, RingOk
<1>1. RingOk'
  BY <1>t, <1>0 DEF RingOk
<1>2. \A f \in Futs : Onward(f)
  BY <1>0 DEF Onward, Leaving
<1>3. QueuesOk'
  BY <1>0, <1>2, SilentQueues
<1>4. CASE UNCHANGED <<home, entry>>
  <2>1. UringType'
    BY <1>t, <1>0, <1>4 DEF UringType
  <2>2. ASSUME NEW f \in Futs
        PROVE  FutOk(f)'
    <3>1. Same(f)
      BY <1>0, <1>4 DEF Same
    <3> QED BY <3>1, SameOk DEF UringInv
  <2> QED BY <1>1, <1>3, <2>1, <2>2 DEF UringInv
<1>5. CASE /\ ring' = "abandoned" /\ entry' = [f \in Futs |-> U!NoEntry]
           /\ home' = [f \in Futs |-> IF home[f] = "ring" THEN "freed" ELSE home[f]]
  <2>1. UringType'
    BY <1>t, <1>0, <1>5, NoEntryType DEF UringType
  <2>2. ASSUME NEW f \in Futs
        PROVE  FutOk(f)'
    <3>1. entry'[f] = U!NoEntry /\ fut'[f].pc = "done"
      BY <1>0, <1>5
    <3> QED BY <1>5, <3>1, NoEntryType DEF FutOk, PlaceOk, LentOk, EndOk, WakeOk, U!NoEntry
  <2> QED BY <1>1, <1>3, <2>1, <2>2 DEF UringInv
<1> QED BY <1>4, <1>5 DEF U!CloseRing

-----------------------------------------------------------------------------
LEMMA UringInitial == U!Init => UringInv
<1> SUFFICES ASSUME U!Init PROVE UringInv
  OBVIOUS
<1>0. /\ entry = [f \in Futs |-> U!NoEntry] /\ sq = <<>> /\ taken = <<>> /\ cq = <<>>
      /\ kern = [f \in Futs |-> "none"] /\ ring = "open" /\ spoilt = {}
      /\ reap = [pc |-> "idle", left |-> 0, wake |-> {}, submit |-> FALSE]
  BY DEF U!Init
<1>1. /\ fut \in [Futs -> FutType] /\ home \in [Futs -> {"future", "ring", "caller", "freed"}]
      /\ \A f \in Futs : fut[f].pc \in {"new", "done"}
  <2>1. PICK class \in Classes :
          /\ fut = [f \in Futs |-> IF f \in DOMAIN class THEN [class |-> class[f], pc |-> "new", woken |-> FALSE]
                                  ELSE [class |-> "plain", pc |-> "done", woken |-> FALSE]]
          /\ home = [f \in Futs |-> IF f \in DOMAIN class THEN "future" ELSE "freed"]
    BY DEF U!Init
  <2>2. \A f \in DOMAIN class : class[f] \in ClassNames
    BY ClassesKnown DEF ClassNames
  <2>3. ASSUME NEW f \in Futs
        PROVE  fut[f] \in FutType /\ fut[f].pc \in {"new", "done"}
    <3>1. CASE f \in DOMAIN class
      BY <2>1, <2>2, <3>1 DEF FutType, Pcs
    <3>2. CASE f \notin DOMAIN class
      BY <2>1, <3>2 DEF FutType, Pcs, ClassNames
    <3> QED BY <3>1, <3>2
  <2>4. DOMAIN fut = Futs /\ fut = [f \in Futs |-> fut[f]]
    BY <2>1
  <2>5. home \in [Futs -> {"future", "ring", "caller", "freed"}]
    BY <2>1
  <2> QED BY <2>3, <2>4, <2>5
<1>2. /\ <<>> \in Seq(SqeType) /\ <<>> \in Seq(CqeType) /\ Len(<<>>) = 0
      /\ \A x : ~Occurs(<<>>, x) /\ Once(<<>>, x) /\ Followed(<<>>, x)
  BY DEF Occurs, Once, Followed
<1>3. Pipe = <<>>
  BY <1>0 DEF Pipe
<1>4. UringType
  <2>1. reap \in ReapType
    BY <1>0 DEF ReapType
  <2>2. entry \in [Futs -> EntryType] /\ kern \in [Futs -> {"none", "active", "over"}]
    BY <1>0, NoEntryType
  <2> QED BY <1>0, <1>1, <1>2, <2>1, <2>2 DEF UringType
<1>5. RingOk
  BY <1>0, <1>2, EntriesNat DEF RingOk
<1>6. QueuesOk
  BY <1>0, <1>2, <1>3 DEF QueuesOk
<1>7. ASSUME NEW f \in Futs
      PROVE  FutOk(f)
  <2>1. entry[f] = U!NoEntry /\ kern[f] = "none" /\ ~InFlight(f)
    BY <1>0, <1>2, <1>3 DEF InFlight
  <2> QED BY <1>1, <2>1, NoEntryType DEF FutOk, PlaceOk, LentOk, EndOk, WakeOk
<1> QED BY <1>4, <1>5, <1>6, <1>7 DEF UringInv

LEMMA UringStep == UringInv /\ [U!Next]_U!vars => UringInv'
<1> SUFFICES ASSUME UringInv, [U!Next]_U!vars PROVE UringInv'
  OBVIOUS
<1>1. ASSUME NEW f \in Futs, NEW class, U!Future(f, class)
      PROVE  UringInv'
  <2>1. ASSUME U!DropUnpolled(f) PROVE UringInv'
    <3>1. fut[f].pc = "new"
      BY <2>1 DEF U!DropUnpolled
    <3> QED BY <2>1, <3>1, RefusedStep
  <2> QED BY <1>1, <2>1, FirstPollStep, FirstSubmitStep, LookStep, DropFutureStep DEF U!Future
<1>2. ASSUME NEW f \in Futs, U!Poll(f)
      PROVE  UringInv'
  BY <1>1, <1>2 DEF U!Poll, U!ReadOwned, U!WriteOwned, U!SendOwned, U!RecvOwned,
     U!ReadvOwned, U!WritevOwned, U!ConnectOwned, U!CloseOwned, U!TimeoutOwned, U!AcceptOwned, U!AcceptMultishot,
     U!RecvMultishot
<1>3. CASE UNCHANGED U!vars
  <2>0. UNCHANGED <<fut, home, entry, sq, taken, kern, cq, reap, ring, spoilt>>
    BY <1>3 DEF U!vars
  <2>1. UringType' /\ RingOk' /\ Pipe' = Pipe /\ \A f \in Futs : Onward(f)
    BY <2>0 DEF UringInv, UringType, RingOk, Pipe, Onward, Leaving
  <2>2. QueuesOk'
    BY <2>0, <2>1, SilentQueues
  <2>3. ASSUME NEW f \in Futs
        PROVE  FutOk(f)'
    <3>1. Same(f)
      BY <2>0, <2>1 DEF Same
    <3> QED BY <3>1, SameOk DEF UringInv
  <2> QED BY <2>1, <2>2, <2>3 DEF UringInv
<1> QED
  BY <1>2, <1>3, CancelStep, KernelCompleteStep, KernelStartStep, ReapBeginStep, ReapOneStep, ReapEndStep,
     ReapSubmitStep, ReapWakeStep, DropRingStep, CloseRingStep DEF U!Next

(* UringSafe: for any requests of any classes and any submission queue, a buffer the *)
(* kernel may write to stays with the ring (its futures may be dropped at any point,  *)
(* IoUring::orphan and submit_cancel, and submits may fail), a completion reaches the *)
(* pending future, and an orphan is still with the kernel, has its completion posted  *)
(* or its buffers being cleaned up (reap_completions_inner).                          *)
THEOREM UringSafe == U!Spec => []UringSound
<1>1. U!Init => UringInv
  BY UringInitial
<1>2. UringInv /\ [U!Next]_U!vars => UringInv'
  BY UringStep
<1>3. UringInv => UringSound
  BY UringImplies
<1> QED BY <1>1, <1>2, <1>3, PTL DEF U!Spec

=============================================================================
