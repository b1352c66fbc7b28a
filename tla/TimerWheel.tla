----------------------------- MODULE TimerWheel -----------------------------
(***************************************************************************)
(* time/wheel.rs and the futures on it (time/mod.rs): a hierarchical wheel   *)
(* under a mutex, the clock that can be paused, Sleep and Interval, and the  *)
(* one thread that waits until the wheel's next event and fires what is due. *)
(*                                                                         *)
(* The wheel counts milliseconds.  An Instant is counted in half             *)
(* milliseconds, so that the rounding of instant_to_ms is there to see.      *)
(* Lists are sets: the order in a slot only orders the wakes.                *)
(***************************************************************************)
EXTENDS Integers, FiniteSets, FiniteSetsExt

CONSTANTS
  Timers,   \* Sleep futures, each with its TimerEntry
  Scenarios, \* which timers are also reset, dropped and ticked, how often pause is called, and
            \* whether worker threads share the driver (a current-thread runtime has its owner)
  Slots,    \* SLOT_COUNT (64)
  Levels,   \* LEVEL_COUNT (6)
  MaxMs,    \* bound: the latest time
  Dues,     \* deadlines (Instants) that futures are made with or reset to
  Period    \* period of an Interval (Instants)

VARIABLES
  wheel,    \* Wheel: elapsed, at (per timer: level and slot), occupied
  entry,    \* per TimerEntry: deadline, fired, waker
  clock,    \* real elapsed ms, paused_elapsed, paused, a pause between its swap and its
            \* store, the latest reading (history), pauses left (bound)
  sleep,    \* per Sleep: where it stands, its deadline, the waker reset holds
  woken,    \* timers whose task was woken
  ringing,  \* wakers that advance_to_now has taken and not called
  driver,   \* the waiting thread: pc, until, token (an unpark, or a readable eventfd)
  peer,     \* the other workers: shared, asleep (on park_condvar), pending (wake_pending)
  moving,   \* the scenario's timers
  stale,    \* history: timers that fired inside a reset
  astray    \* history: timers whose notification went to a condvar sleeper

vars == <<wheel, entry, clock, sleep, woken, ringing, driver, peer, moving, stale, astray>>

Unlinked == [level |-> -1, slot |-> 0]      \* UNLINKED_LEVEL
Pending == [level |-> Levels, slot |-> 0]   \* PENDING_LEVEL
Forever == 4 * MaxMs + Slots ^ Levels

Init ==
  /\ wheel = [elapsed |-> 0, at |-> [t \in Timers |-> Unlinked], occupied |-> {}]
  /\ entry = [t \in Timers |-> [deadline |-> 0, fired |-> FALSE, waker |-> FALSE]]
  /\ \E s \in Scenarios :
       /\ moving = s.moving
       /\ peer = [shared |-> s.shared, asleep |-> FALSE, pending |-> FALSE]
       /\ clock = [real |-> 0, frozen |-> 0, paused |-> FALSE, storing |-> FALSE, latest |-> 0,
                   pauses |-> s.pauses]
  /\ \E d \in [Timers -> Dues] : sleep = [t \in Timers |-> [pc |-> "new", due |-> d[t], held |-> FALSE]]
  /\ woken = {} /\ ringing = {} /\ stale = {} /\ astray = {}
  /\ driver = [pc |-> "run", until |-> 0, token |-> FALSE]

-----------------------------------------------------------------------------
(* The wheel. *)
Digit(ms, level) == (ms \div Slots ^ level) % Slots
In(w, level, slot) == {t \in Timers : w.at[t] = [level |-> level, slot |-> slot]}

level_for(w, when) ==
  Max({0} \cup {l \in 0 .. Levels - 1 : when \div Slots ^ l # w.elapsed \div Slots ^ l})

insert(w, t, deadline) ==
  IF deadline <= w.elapsed THEN [w EXCEPT !.at[t] = Pending]
  ELSE LET level == level_for(w, deadline) slot == Digit(deadline, level)
       IN  [w EXCEPT !.at[t] = [level |-> level, slot |-> slot], !.occupied = @ \cup {<<level, slot>>}]

ClearsBit_Always(w, level, slot) == TRUE
ClearsBit(w, level, slot) == In(w, level, slot) = {}
remove(w, t) ==
  LET l == w.at[t]
      out == [w EXCEPT !.at[t] = Unlinked]
  IN  IF l \in {Unlinked, Pending} THEN out
      ELSE [out EXCEPT !.occupied = IF ClearsBit(out, l.level, l.slot) THEN @ \ {<<l.level, l.slot>>} ELSE @]

Unlink(w, from) == [w EXCEPT !.at = [t \in Timers |-> IF t \in from THEN Unlinked ELSE w.at[t]]]
take_slot(w, level, slot) == [Unlink(w, In(w, level, slot)) EXCEPT !.occupied = @ \ {<<level, slot>>}]
take_pending(w) == Unlink(w, In(w, Levels, 0))

(* Slots ahead of the current one come first, then those behind it, one turn later. *)
Delta(w, level) ==
  LET current == Digit(w.elapsed, level)
      occupied == {s \in 0 .. Slots - 1 : <<level, s>> \in w.occupied}
      after == {s \in occupied : s > current}
      lower == {s \in occupied : s < current}
  IN  IF after # {} THEN Min(after) - current
      ELSE IF lower # {} THEN Slots - current + Min(lower) ELSE Slots

(* None is the empty set here. *)
Events(w) ==
  IF In(w, Levels, 0) # {} THEN {w.elapsed}
  ELSE {(w.elapsed \div Slots ^ l + Delta(w, l)) * Slots ^ l : l \in {o[1] : o \in w.occupied}}
next_event_at(w) == Min(Events(w))

(* The entries of the slot that is reached move down, or to the pending list; *)
(* reached is the wheel at its next event, dl the deadlines.                  *)
Cascade(w, level, dl) ==
  LET slot == Digit(w.elapsed, level)
  IN  IF <<level, slot>> \notin w.occupied THEN w
      ELSE FoldSet(LAMBDA t, acc : insert(acc, t, dl[t]), take_slot(w, level, slot), In(w, level, slot))

RECURSIVE CascadeFrom(_, _, _)
CascadeFrom(w, level, dl) == IF level = 0 THEN w ELSE CascadeFrom(Cascade(w, level, dl), level - 1, dl)

DueNow(ms, now) == ms <= now
FireSlot(w, dl, now) ==
  LET slot == Digit(w.elapsed, 0)
      out == take_slot(w, 0, slot)
      due == {t \in In(w, 0, slot) : DueNow(dl[t], now)}
      later == In(w, 0, slot) \ due
  IN  IF <<0, slot>> \notin w.occupied THEN w
      ELSE FoldSet(LAMBDA t, acc : insert(acc, t, dl[t]),
                   [out EXCEPT !.at = [t \in Timers |-> IF t \in due THEN Pending ELSE out.at[t]]], later)

RECURSIVE advance_to(_, _, _)
advance_to(w, dl, now) ==
  IF now <= w.elapsed THEN w
  ELSE IF Events(w) = {} \/ (Events(w) # {} /\ next_event_at(w) > now) THEN [w EXCEPT !.elapsed = now]
  ELSE LET to == FireSlot(CascadeFrom([w EXCEPT !.elapsed = next_event_at(w)], Levels - 1, dl), dl, now)
       IN  IF In(to, Levels, 0) # {} THEN to ELSE advance_to(to, dl, now)

-----------------------------------------------------------------------------
(* TimerShared *)
now_ms == IF clock.paused THEN clock.frozen ELSE clock.real
now_instant == 2 * now_ms
instant_to_ms(instant) == (instant + 1) \div 2
deadlines == [t \in Timers |-> entry[t].deadline]

(* Fired entries give up their wakers, which are called after the wheel is unlocked. *)
advance_to_now(now) ==
  LET w == advance_to(wheel, deadlines, now)
      due == In(w, Levels, 0)
  IN  /\ wheel' = take_pending(w)
      /\ entry' = [t \in Timers |-> IF t \in due THEN [entry[t] EXCEPT !.fired = TRUE, !.waker = FALSE] ELSE entry[t]]
      /\ ringing' = ringing \cup {t \in due : entry[t].waker}
      /\ stale' = stale \cup {t \in due : sleep[t].pc \in {"reset", "recancel"}}

Ring(t) ==
  /\ t \in ringing /\ ringing' = ringing \ {t} /\ woken' = woken \cup {t}
  /\ UNCHANGED <<wheel, entry, clock, sleep, driver, peer, stale, astray>>

AlreadyDue(t) == sleep[t].due <= now_instant
arm(t, pcDue, pcArmed) ==
  LET ms == instant_to_ms(sleep[t].due)
      w == remove(wheel, t)
      due == AlreadyDue(t) \/ ms <= w.elapsed
  IN  /\ entry' = [entry EXCEPT ![t] = [deadline |-> ms, fired |-> due, waker |-> ~due]]
      /\ wheel' = IF due THEN w ELSE insert(w, t, ms)
      /\ sleep' = [sleep EXCEPT ![t].pc = IF due THEN pcDue ELSE pcArmed, ![t].held = FALSE]
      /\ stale' = stale \ {t}

cancel(t) == wheel' = remove(wheel, t) /\ entry' = [entry EXCEPT ![t].waker = FALSE]

(* arm calls notify once the wheel is unlocked: unpark for a current-thread runtime,    *)
(* else notify_driver, which wakes a condvar sleeper if there is one, and the kernel    *)
(* wait only if there is none.                                                          *)
WakesSleeper == peer.asleep
Notify(t) ==
  /\ sleep[t].pc = "notify" /\ sleep' = [sleep EXCEPT ![t].pc = "pending"]
  /\ peer' = [peer EXCEPT !.pending = peer.shared]
  /\ driver' = IF WakesSleeper THEN driver ELSE [driver EXCEPT !.token = TRUE]
  /\ astray' = IF WakesSleeper /\ driver.pc = "wait" THEN astray \cup {t} ELSE astray
  /\ UNCHANGED <<wheel, entry, clock, woken, ringing, stale>>

Shown(c, ms) == [c EXCEPT !.latest = Max({@, ms})]

(* Real time is not read while the clock is paused: what passes then passes after. *)
Tick ==
  /\ clock.real < MaxMs /\ (clock.paused => clock.storing)
  /\ clock' = Shown([clock EXCEPT !.real = @ + 1], clock.real + 1)
  /\ UNCHANGED <<wheel, entry, sleep, woken, ringing, driver, peer, stale, astray>>

(* pause swaps the flag first and stores the reading after: in between the paused clock *)
(* shows what it held before, and what advance adds is overwritten.                     *)
pause ==
  /\ \/ /\ ~clock.paused /\ clock.pauses > 0
        /\ clock' = [clock EXCEPT !.paused = TRUE, !.storing = TRUE, !.pauses = @ - 1]
     \/ clock.storing /\ clock' = [clock EXCEPT !.frozen = clock.real, !.storing = FALSE]
  /\ UNCHANGED <<wheel, entry, sleep, woken, ringing, driver, peer, stale, astray>>

(* Back to real time, which may be behind the paused clock. *)
resume ==
  /\ clock.paused /\ clock' = [clock EXCEPT !.paused = FALSE]
  /\ UNCHANGED <<wheel, entry, sleep, woken, ringing, driver, peer, stale, astray>>

AdvanceBy(ms) ==
  /\ clock.paused /\ clock.frozen + ms <= MaxMs
  /\ clock' = Shown([clock EXCEPT !.frozen = @ + ms], clock.frozen + ms)
  /\ advance_to_now(clock.frozen + ms)
  /\ UNCHANGED <<sleep, woken, peer, astray>>
advance(ms) == AdvanceBy(ms) /\ UNCHANGED driver

-----------------------------------------------------------------------------
(* The thread that waits: CurrentThread's owner, or the worker that holds the driver.  A *)
(* wake that is pending makes the wait of a holder return at once.                       *)
next_timeout == IF Events(wheel) = {} THEN Forever ELSE next_event_at(wheel)
Park ==
  /\ driver.pc = "run" /\ ~clock.paused
  /\ driver' = [driver EXCEPT !.pc = "wait", !.until = IF peer.pending THEN 0 ELSE next_timeout]
  /\ peer' = [peer EXCEPT !.pending = FALSE]
  /\ UNCHANGED <<wheel, entry, clock, sleep, woken, ringing, stale, astray>>

(* With the clock paused the thread looks how far the next event is, or takes the 1 ms of *)
(* auto_advance.  Without either the owner parks and a worker looks again.                *)
paused_advance ==
  /\ driver.pc = "run" /\ clock.paused
  /\ \/ Events(wheel) # {} /\ driver' = [driver EXCEPT !.pc = "step", !.until = Max({0, next_event_at(wheel) - now_ms})]
     \/ Events(wheel) = {} /\ driver' = [driver EXCEPT !.pc = "step", !.until = 1]
     \/ Events(wheel) = {} /\ ~peer.shared /\ driver' = [driver EXCEPT !.pc = "wait", !.until = Forever]
  /\ peer' = [peer EXCEPT !.pending = FALSE]
  /\ UNCHANGED <<wheel, entry, clock, sleep, woken, ringing, stale, astray>>

(* ... then calls advance, which asserts that the clock is paused still. *)
PausedStep ==
  /\ driver.pc = "step"
  /\ \/ AdvanceBy(driver.until) /\ driver' = [driver EXCEPT !.pc = "run", !.until = 0]
     \/ /\ ~clock.paused /\ driver' = [driver EXCEPT !.pc = "panicked", !.until = 0]
        /\ UNCHANGED <<wheel, entry, clock, sleep, woken, ringing, peer, stale, astray>>

Unpark ==
  /\ driver.pc = "wait" /\ (driver.token \/ clock.real >= driver.until \/ clock.paused)
  /\ driver' = [pc |-> "advance", until |-> 0, token |-> FALSE] /\ astray' = {}
  /\ UNCHANGED <<wheel, entry, clock, sleep, woken, ringing, peer, stale>>

AdvanceDriver ==
  /\ driver.pc = "advance" /\ advance_to_now(now_ms)
  /\ driver' = [driver EXCEPT !.pc = "run"]
  /\ UNCHANGED <<clock, sleep, woken, peer, astray>>

(* A second worker that finds the driver held waits on the condvar.  It leaves when it is *)
(* notified or after CONDVAR_PARK_TIMEOUT, and counts as a waiter until it has.           *)
ParkBeside ==
  /\ \/ peer.shared /\ ~peer.asleep /\ driver.pc # "run" /\ peer' = [peer EXCEPT !.asleep = TRUE]
     \/ peer.asleep /\ peer' = [peer EXCEPT !.asleep = FALSE]
  /\ UNCHANGED <<wheel, entry, clock, sleep, woken, ringing, driver, stale, astray>>

-----------------------------------------------------------------------------
(* Sleep: a poll looks at fired, then arms. *)
Poll(t) ==
  /\ sleep[t].pc \in {"new", "pending", "idle"}
  /\ sleep' = [sleep EXCEPT ![t].pc = IF entry[t].fired THEN "ready" ELSE "arming"]
  /\ woken' = woken \ {t}
  /\ UNCHANGED <<wheel, entry, clock, ringing, driver, peer, stale, astray>>

Arm(t) ==
  /\ sleep[t].pc = "arming" /\ arm(t, "ready", "notify")
  /\ UNCHANGED <<clock, woken, ringing, driver, peer, astray>>

(* reset clears fired, copies the waker, cancels, and arms again if there was one. *)
reset(t, due) ==
  /\ sleep' = [sleep EXCEPT ![t].due = due, ![t].pc = "reset"]
  /\ entry' = [entry EXCEPT ![t].fired = FALSE]
  /\ UNCHANGED <<wheel, clock, woken, ringing, driver, peer, stale, astray>>

(* Before the first poll there is no driver to tell. *)
Reset(t, due) ==
  \/ sleep[t].pc \in {"pending", "idle"} /\ reset(t, due)
  \/ /\ sleep[t].pc = "new" /\ sleep' = [sleep EXCEPT ![t].due = due]
     /\ UNCHANGED <<wheel, entry, clock, woken, ringing, driver, peer, stale, astray>>

ResetCopy(t) ==
  /\ sleep[t].pc = "reset" /\ sleep' = [sleep EXCEPT ![t].pc = "recancel", ![t].held = entry[t].waker]
  /\ UNCHANGED <<wheel, entry, clock, woken, ringing, driver, peer, stale, astray>>

ResetCancel(t) ==
  /\ sleep[t].pc = "recancel" /\ cancel(t)
  /\ sleep' = [sleep EXCEPT ![t].pc = IF sleep[t].held THEN "rearm" ELSE "idle"]
  /\ UNCHANGED <<clock, woken, ringing, driver, peer, stale, astray>>

ResetArm(t) ==
  /\ sleep[t].pc = "rearm" /\ arm(t, "pending", "notify")
  /\ woken' = IF sleep'[t].pc = "pending" THEN woken \cup {t} ELSE woken
  /\ UNCHANGED <<clock, ringing, driver, peer, astray>>

DropSleep(t) ==
  /\ sleep[t].pc \in {"pending", "idle"} /\ cancel(t)
  /\ sleep' = [sleep EXCEPT ![t].pc = "dropped"]
  /\ UNCHANGED <<clock, woken, ringing, driver, peer, stale, astray>>

(* Interval::tick once its sleep is ready. *)
NextTick(how, deadline) ==
  CASE how = "burst" -> deadline + Period
    [] how = "delay" -> now_instant + Period
    [] how = "skip" -> deadline + Period * Min({k \in 1 .. MaxMs + 1 : deadline + Period * k > now_instant})
IntervalTick(t) ==
  /\ sleep[t].pc = "ready"
  /\ \E how \in {"burst", "delay", "skip"} :
       NextTick(how, sleep[t].due) <= 2 * MaxMs /\ reset(t, NextTick(how, sleep[t].due))

Step ==
  \/ Tick \/ pause \/ resume \/ Park \/ paused_advance \/ PausedStep \/ Unpark \/ AdvanceDriver \/ ParkBeside
  \/ \E ms \in 1 .. 2 : advance(ms)
  \/ \E t \in Timers : \/ Ring(t) \/ Notify(t) \/ Poll(t) \/ Arm(t) \/ ResetCopy(t) \/ ResetCancel(t)
                       \/ ResetArm(t)
  \/ \E t \in moving : DropSleep(t) \/ IntervalTick(t) \/ \E d \in Dues : Reset(t, d)

Next == Step /\ UNCHANGED moving

Spec == Init /\ [][Next]_vars

-----------------------------------------------------------------------------
Linked == {t \in Timers : wheel.at[t] # Unlinked}

(* SlotsExact: every linked timer is ahead of the wheel and will be reached: the  *)
(* next event is never later than its deadline, through cascades, wrap-around of   *)
(* the top level, cancels and re-arms; and the bitmaps the next event is read from *)
(* are those of the slots.                                                        *)
SlotsExact ==
  /\ wheel.occupied = {<<wheel.at[t].level, wheel.at[t].slot>> : t \in Linked}
  /\ \A t \in Linked : wheel.elapsed < entry[t].deadline /\ next_event_at(wheel) <= entry[t].deadline

(* NotEarly: a sleep that is ready has reached its deadline on some clock, sub-     *)
(* millisecond rest included; a reset that a firing overlapped excepted, which      *)
(* leaves the old firing in force (reset clears fired before it cancels).           *)
NotEarly == \A t \in Timers : sleep[t].pc = "ready" /\ t \notin stale => sleep[t].due <= 2 * clock.latest

(* NoOversleep: the thread never waits beyond the deadline of an armed timer unless   *)
(* the notification that ends the wait is on its way, or found a second worker on the  *)
(* condvar and went to it (astray): that is the only way to be slept through, it takes *)
(* a shared driver, and it ends with this wait.                                       *)
Oversleeps(t) == driver.pc = "wait" /\ ~driver.token /\ driver.until > entry[t].deadline /\ sleep[t].pc # "notify"
NoOversleep == /\ \A t \in Linked : Oversleeps(t) => t \in astray
               /\ astray # {} => peer.shared /\ peer.pending /\ driver.pc = "wait"

(* PendingHasWake: a sleep that returned Pending is in the wheel with its waker, or its *)
(* wake is on the way, also after a reset that found it about to fire.                  *)
PendingHasWake ==
  \A t \in Timers : sleep[t].pc = "pending" =>
    (t \in Linked /\ entry[t].waker) \/ t \in ringing \/ t \in woken

TimerSound == SlotsExact /\ NotEarly /\ NoOversleep /\ PendingHasWake

(* ResetHonoured: after reset the sleep is ready only at the new deadline ("so the  *)
(* wheel cannot fire at the stale time").  The code does not keep this.             *)
ResetHonoured == \A t \in Timers : sleep[t].pc = "ready" => sleep[t].due <= 2 * clock.latest

(* TimerWakesDriver: an armed timer is never slept through.  Of the timers of a runtime  *)
(* with two workers the code does not keep this.                                        *)
TimerWakesDriver == \A t \in Linked : ~Oversleeps(t)

(* ClockNeverPanics: a resume does not meet a driver that is about to advance the paused *)
(* clock ("advance requires paused time").  The code does not keep this.                *)
ClockNeverPanics == driver.pc # "panicked"
=============================================================================
