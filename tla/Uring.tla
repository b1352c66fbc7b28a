-------------------------------- MODULE Uring -------------------------------
(***************************************************************************)
(* io/uring.rs: operations that lend their buffers to the kernel.  A future  *)
(* owns its resource until it is started; from then on the ring owns it, in  *)
(* ops while the future lives and in orphaned once it is dropped, until the  *)
(* kernel has posted the request's last completion (CQE).  Dropping a future *)
(* asks the kernel to cancel, as an optimisation only.                       *)
(*                                                                         *)
(* One state mutex guards slabs and rings; reap_completions_inner holds it   *)
(* through its loop and calls the wakers after it.  The user_data of a       *)
(* request is identified with its future; SQPOLL, which only changes who     *)
(* consumes the submission queue, is left out.                               *)
(***************************************************************************)
EXTENDS Integers, Sequences, FiniteSets, SequencesExt

CONSTANTS
  Futs,     \* futures and streams
  Classes,  \* assignments of a class of operation, see below, to the futures that are made
  Entries,  \* params.sq_entries
  MaxShots  \* bound: completions of a multishot request

(* "rw": a length or index is checked, the buffer comes back (read, write, send,   *)
(* recv, fixed buffer, fixed file); "vec": it comes back unchecked (readv, writev); *)
(* "plain": nothing comes back (connect, close, timeout); "accept": a descriptor    *)
(* does; "maccept" and "mrecv" are the multishot streams.                           *)
Multishot == {"maccept", "mrecv"}

VARIABLES
  fut,      \* per future: its class, where its poll stands, whether its task was woken
  home,     \* per future: who owns its resource: "future", "ring", "caller" or "freed"
  entry,    \* per future: its OpState or OrphanedOp
  sq,       \* published, unsubmitted SQEs
  taken,    \* SQEs the kernel has consumed and not started
  kern,     \* per future: its request in the kernel: "none", "active", "over"
  cq,       \* posted CQEs
  cancel_targets, \* futures whose cancel request is on record
  reap,     \* the running reap_completions_inner: pc, CQEs left, wakers to call
  ring,     \* "open", "closing" (Inner::drop), "closed", "abandoned"
  leaked,   \* history: accepted descriptors nobody will close
  spoilt,   \* history: live streams that a failed PROVIDE_BUFFERS has ended
  shots     \* per future: completions posted

vars == <<fut, home, entry, sq, taken, kern, cq, cancel_targets, reap, ring, leaked, spoilt, shots>>
kernel == <<taken, kern, shots>>
history == <<leaked, spoilt>>

NoEntry == [slab |-> "none", result |-> "none", waker |-> FALSE, events |-> <<>>,
            terminal |-> FALSE, cleanup |-> "done"]

Init ==
  /\ \E class \in Classes :
       /\ fut = [f \in Futs |-> IF f \in DOMAIN class THEN [class |-> class[f], pc |-> "new", woken |-> FALSE]
                               ELSE [class |-> "plain", pc |-> "done", woken |-> FALSE]]
       /\ home = [f \in Futs |-> IF f \in DOMAIN class THEN "future" ELSE "freed"]
  /\ entry = [f \in Futs |-> NoEntry]
  /\ sq = <<>> /\ taken = <<>> /\ cq = <<>> /\ cancel_targets = {}
  /\ kern = [f \in Futs |-> "none"] /\ shots = [f \in Futs |-> 0]
  /\ reap = [pc |-> "idle", left |-> 0, wake |-> {}, submit |-> FALSE]
  /\ ring = "open" /\ leaked = 0 /\ spoilt = {}

Class(f) == fut[f].class
Unlocked == reap.pc # "loop"
Sqe(what, f) == [what |-> what, fut |-> f]
Cqe(what, f, ok, more) == [what |-> what, fut |-> f, ok |-> ok, more |-> more]

sq_space_locked == Entries - Len(sq)

(* submit_inner: the kernel takes what is published or a first part of it; the rest *)
(* stays counted in sq_pending until the next submit.                               *)
SubmitOk ==
  \E n \in 0 .. Len(sq) :
    /\ sq # <<>> => n > 0
    /\ taken' = taken \o SubSeq(sq, 1, n) /\ sq' = SubSeq(sq, n + 1, Len(sq))

-----------------------------------------------------------------------------
(* The first poll.  A class that checks its arguments may be refused, and a full  *)
(* submission queue refuses every class; the resource goes back or is dropped.    *)
HandsBack(f) == IF Class(f) \in {"rw", "vec"} THEN "caller" ELSE "freed"
Refused(f) ==
  /\ fut' = [fut EXCEPT ![f].pc = "done"]
  /\ home' = [home EXCEPT ![f] = HandsBack(f)]
  /\ UNCHANGED <<entry, sq, kernel, cq, cancel_targets, reap, ring, history>>

Started(f, cleanup, sqes) ==
  /\ fut' = [fut EXCEPT ![f].pc = "started"]
  /\ home' = [home EXCEPT ![f] = "ring"]
  /\ entry' = [entry EXCEPT ![f] = [NoEntry EXCEPT !.slab = "ops", !.waker = TRUE, !.cleanup = cleanup]]
  /\ sq' = sq \o sqes
  /\ UNCHANGED <<kernel, cq, cancel_targets, reap, ring, history>>

start_op(f) ==
  /\ Class(f) \notin Multishot
  /\ IF sq_space_locked < 1 THEN Refused(f) ELSE Started(f, "done", <<Sqe("op", f)>>)

start_multishot_accept(f) ==
  /\ Class(f) = "maccept"
  /\ IF sq_space_locked < 1 THEN Refused(f) ELSE Started(f, "done", <<Sqe("op", f)>>)

start_multishot_recv(f) ==
  /\ Class(f) = "mrecv"
  /\ IF sq_space_locked < 2 THEN Refused(f)
     ELSE Started(f, "todo", <<Sqe("provide", f), Sqe("op", f)>>)

(* A class that checks its arguments may refuse them before anything is queued. *)
FirstPoll(f) ==
  /\ fut[f].pc = "new" /\ Unlocked
  /\ \/ start_op(f) \/ start_multishot_accept(f) \/ start_multishot_recv(f)
     \/ Class(f) = "rw" /\ Refused(f)

(* orphan: a request that has completed is freed, with the descriptors it accepted  *)
(* closed; any other keeps its resource in the ring until the kernel is done.       *)
Complete(f) == entry[f].result # "none" \/ entry[f].terminal
orphan_FreesAll(f) ==
  /\ fut' = [fut EXCEPT ![f].pc = "done"]
  /\ home' = [home EXCEPT ![f] = "freed"]
  /\ entry' = [entry EXCEPT ![f] = NoEntry]
orphan(f) ==
  IF Complete(f)
  THEN /\ fut' = [fut EXCEPT ![f].pc = "done"]
       /\ home' = [home EXCEPT ![f] = "freed"]
       /\ entry' = [entry EXCEPT ![f] = NoEntry]
  ELSE /\ fut' = [fut EXCEPT ![f].pc = "dropping"]
       /\ entry' = [entry EXCEPT ![f].slab = "orphaned", ![f].waker = FALSE]
       /\ UNCHANGED home

(* The submit that ends the first poll.  When it fails the request stays published. *)
FirstSubmit(f) ==
  /\ fut[f].pc = "started" /\ Unlocked
  /\ \/ SubmitOk /\ fut' = [fut EXCEPT ![f].pc = "pending"] /\ UNCHANGED <<home, entry>>
     \/ sq # <<>> /\ orphan(f) /\ UNCHANGED <<sq, taken>>
  /\ UNCHANGED <<kern, shots, cq, cancel_targets, reap, ring, history>>

(* Later polls look for the result under one lock and leave the waker under another. *)
take_result(f) ==
  /\ fut' = [fut EXCEPT ![f].pc = "done"]
  /\ home' = [home EXCEPT ![f] = HandsBack(f)]
  /\ entry' = [entry EXCEPT ![f] = NoEntry]

Looked(f) == fut' = [fut EXCEPT ![f].pc = "looked", ![f].woken = FALSE] /\ UNCHANGED <<home, entry>>

TakeOwned(f) ==
  /\ Class(f) \notin Multishot /\ fut[f].pc = "pending" /\ Unlocked
  /\ IF entry[f].result # "none" THEN take_result(f) ELSE Looked(f)
  /\ UNCHANGED <<sq, kernel, cq, cancel_targets, reap, ring, history>>

finished(f) == entry[f].terminal /\ entry[f].events = <<>> /\ entry[f].cleanup = "done"

PollNext(f) ==
  /\ Class(f) \in Multishot /\ fut[f].pc \in {"pending", "ready"} /\ Unlocked
  /\ IF entry[f].events # <<>>
     THEN /\ entry' = [entry EXCEPT ![f].events = Tail(@)]
          /\ fut' = [fut EXCEPT ![f].pc = "ready", ![f].woken = FALSE]
          /\ UNCHANGED home
     ELSE IF finished(f) THEN take_result(f) ELSE Looked(f)
  /\ UNCHANGED <<sq, kernel, cq, cancel_targets, reap, ring, history>>

StoreWaker(f) ==
  /\ fut[f].pc = "looked" /\ Unlocked
  /\ entry' = [entry EXCEPT ![f].waker = TRUE]
  /\ fut' = [fut EXCEPT ![f].pc = "pending"]
  /\ UNCHANGED <<home, sq, kernel, cq, cancel_targets, reap, ring, history>>

DropFuture(f) ==
  /\ fut[f].pc \in {"pending", "ready"} /\ Unlocked
  /\ orphan(f)
  /\ UNCHANGED <<sq, kernel, cq, cancel_targets, reap, ring, history>>

DropUnpolled(f) ==
  /\ fut[f].pc = "new"
  /\ fut' = [fut EXCEPT ![f].pc = "done"]
  /\ home' = [home EXCEPT ![f] = "freed"]
  /\ UNCHANGED <<entry, sq, kernel, cq, cancel_targets, reap, ring, history>>

(* submit_cancel: best effort; a failed submit only takes the cancel off the record. *)
submit_cancel(f) ==
  /\ Unlocked
  /\ \/ /\ fut[f].pc = "dropping" /\ sq_space_locked = 0
        /\ fut' = [fut EXCEPT ![f].pc = "done"]
        /\ UNCHANGED <<sq, taken, cancel_targets>>
     \/ /\ fut[f].pc = "dropping" /\ sq_space_locked > 0
        /\ fut' = [fut EXCEPT ![f].pc = "cancelling"]
        /\ sq' = Append(sq, Sqe("cancel", f)) /\ cancel_targets' = cancel_targets \union {f}
        /\ UNCHANGED taken
     \/ /\ fut[f].pc = "cancelling"
        /\ fut' = [fut EXCEPT ![f].pc = "done"]
        /\ \/ SubmitOk /\ UNCHANGED cancel_targets
           \/ sq # <<>> /\ cancel_targets' = cancel_targets \ {f} /\ UNCHANGED <<sq, taken>>
  /\ UNCHANGED <<home, entry, kern, shots, cq, reap, ring, history>>

-----------------------------------------------------------------------------
(* The kernel.  IOSQE_IO_DRAIN, on the receive and on REMOVE_BUFFERS, waits until   *)
(* every earlier request is over and holds the later ones back.  A cancel that      *)
(* finds its target posts the target's last CQE too, in either order.               *)
Drained(s) == s.what = "remove" \/ (s.what = "op" /\ Class(s.fut) = "mrecv")

KernelStart ==
  /\ taken # <<>> /\ taken' = Tail(taken)
  /\ LET s == Head(taken)  f == s.fut
         ends == Cqe("op", f, FALSE, FALSE)  found == Cqe("cancel", f, TRUE, FALSE) IN
     /\ Drained(s) => \A g \in Futs : kern[g] # "active"
     /\ \/ s.what = "op" /\ kern' = [kern EXCEPT ![f] = "active"] /\ UNCHANGED cq
        \/ /\ s.what \in {"provide", "remove"} /\ UNCHANGED kern
           /\ \E ok \in BOOLEAN : cq' = Append(cq, Cqe(s.what, f, ok, FALSE))
        \/ /\ s.what = "cancel" /\ cq' = Append(cq, Cqe("cancel", f, FALSE, FALSE)) /\ UNCHANGED kern
        \/ /\ s.what = "cancel" /\ kern[f] = "active"
           /\ kern' = [kern EXCEPT ![f] = "over"]
           /\ cq' \in {cq \o <<ends, found>>, cq \o <<found, ends>>}
  /\ UNCHANGED <<fut, home, entry, sq, shots, cancel_targets, reap, ring, history>>

KernelComplete(f) ==
  /\ kern[f] = "active"
  /\ \/ /\ kern' = [kern EXCEPT ![f] = "over"]
        /\ \E ok \in BOOLEAN : cq' = Append(cq, Cqe("op", f, ok, FALSE))
        /\ UNCHANGED shots
     \/ /\ Class(f) \in Multishot /\ shots[f] < MaxShots
        /\ shots' = [shots EXCEPT ![f] = @ + 1]
        /\ cq' = Append(cq, Cqe("op", f, TRUE, TRUE))
        /\ UNCHANGED kern
  /\ UNCHANGED <<fut, home, entry, sq, taken, cancel_targets, reap, ring, history>>

Lent(f) ==
  \/ kern[f] = "active"
  \/ \E i \in DOMAIN sq : sq[i] = Sqe("op", f)
  \/ \E i \in DOMAIN taken : taken[i] = Sqe("op", f)

-----------------------------------------------------------------------------
(* reap_completions_inner, by the one thread that drives the ring. *)
ReapBegin ==
  /\ reap.pc = "idle" /\ ring \in {"open", "closing"}
  /\ cq # <<>> \/ \E f \in Futs : entry[f].cleanup = "todo" /\ entry[f].terminal
  /\ reap' = [pc |-> "loop", left |-> Len(cq), wake |-> {}, submit |-> FALSE]
  /\ UNCHANGED <<fut, home, entry, sq, kernel, cq, cancel_targets, ring, history>>

(* What a CQE does to the entry of its future: the record e, or freed.  An orphan is  *)
(* freed with whatever events it still holds.                                         *)
FreeOrphan(f) ==
  /\ entry' = [entry EXCEPT ![f] = NoEntry]
  /\ home' = [home EXCEPT ![f] = "freed"]
  /\ leaked' = IF Class(f) = "maccept" THEN leaked + Len(SelectSeq(entry[f].events, LAMBDA ok : ok)) ELSE leaked

Keep(f, e) == entry' = [entry EXCEPT ![f] = e] /\ UNCHANGED <<home, leaked>>
Takes(f, e) == Keep(f, [e EXCEPT !.waker = FALSE])  \* and its waker is collected
Pushed(e, ok) == [e EXCEPT !.events = Append(@, ok)]

ReapCancel(c) ==
  /\ c.what = "cancel" /\ cancel_targets' = cancel_targets \ {c.fut}
  /\ IF c.fut \in cancel_targets /\ c.ok /\ entry[c.fut].slab # "none" /\ Class(c.fut) \notin Multishot
     THEN FreeOrphan(c.fut) ELSE Keep(c.fut, entry[c.fut])
  /\ UNCHANGED spoilt

ReapRemove(c) ==
  /\ c.what = "remove" /\ UNCHANGED <<cancel_targets, spoilt>>
  /\ LET e == entry[c.fut]  d == [e EXCEPT !.cleanup = IF c.ok THEN "done" ELSE "todo"] IN
     CASE e.slab = "ops" -> Takes(c.fut, d)
       [] e.slab = "orphaned" -> IF c.ok /\ e.terminal /\ e.events = <<>> THEN FreeOrphan(c.fut) ELSE Keep(c.fut, d)
       [] OTHER -> Keep(c.fut, e)

ReapProvide(c) ==
  /\ c.what = "provide" /\ UNCHANGED cancel_targets
  /\ IF ~c.ok /\ entry[c.fut].slab = "ops"
     THEN /\ Takes(c.fut, [Pushed(entry[c.fut], FALSE) EXCEPT !.terminal = TRUE])
          /\ spoilt' = IF Lent(c.fut) THEN spoilt \union {c.fut} ELSE spoilt
     ELSE Keep(c.fut, entry[c.fut]) /\ UNCHANGED spoilt

ReapOps(c) ==
  /\ c.what = "op" /\ entry[c.fut].slab = "ops" /\ UNCHANGED <<cancel_targets, spoilt>>
  /\ Takes(c.fut, IF Class(c.fut) \in Multishot THEN [Pushed(entry[c.fut], c.ok) EXCEPT !.terminal = ~c.more]
                  ELSE [entry[c.fut] EXCEPT !.result = IF c.ok THEN "ok" ELSE "err"])

ReapOrphan(c) ==
  /\ c.what = "op" /\ entry[c.fut].slab # "ops" /\ UNCHANGED <<cancel_targets, spoilt>>
  /\ LET e == entry[c.fut] IN
     CASE e.slab = "none" \/ c.more -> Keep(c.fut, e)
       [] e.slab = "orphaned" /\ ~c.more /\ e.cleanup = "done" -> FreeOrphan(c.fut)
       [] OTHER -> Keep(c.fut, [e EXCEPT !.terminal = TRUE])

(* A received buffer is provided to the kernel again while more completions follow. *)
Refills(c) ==
  /\ c.what = "op" /\ c.ok /\ c.more /\ Class(c.fut) = "mrecv"
  /\ entry[c.fut].slab = "ops" /\ sq_space_locked > 0

ReapOne ==
  /\ reap.pc = "loop" /\ reap.left > 0
  /\ LET c == Head(cq) IN
     /\ ReapCancel(c) \/ ReapRemove(c) \/ ReapProvide(c) \/ ReapOps(c) \/ ReapOrphan(c)
     /\ cq' = Tail(cq)
     /\ sq' = IF Refills(c) THEN Append(sq, Sqe("provide", c.fut)) ELSE sq
     /\ reap' = [reap EXCEPT !.left = @ - 1, !.submit = @ \/ Refills(c),
                             !.wake = IF entry[c.fut].waker /\ ~entry'[c.fut].waker THEN @ \union {c.fut} ELSE @]
  /\ UNCHANGED <<fut, kernel, ring>>

(* The buffer groups of ended receive streams are removed, as far as there is room. *)
NeedsCleanup(f) == entry[f].slab # "none" /\ entry[f].terminal /\ entry[f].cleanup = "todo"

ReapEnd ==
  /\ reap.pc = "loop" /\ reap.left = 0
  /\ LET due == SetToSeq({f \in Futs : NeedsCleanup(f)})
         now == SubSeq(due, 1, IF Len(due) < sq_space_locked THEN Len(due) ELSE sq_space_locked) IN
     /\ sq' = sq \o [i \in DOMAIN now |-> Sqe("remove", now[i])]
     /\ entry' = [f \in Futs |-> IF f \in ToSet(now) THEN [entry[f] EXCEPT !.cleanup = "queued"] ELSE entry[f]]
     /\ reap' = [reap EXCEPT !.pc = "submit", !.submit = @ \/ now # <<>>]
  /\ UNCHANGED <<fut, home, kernel, cq, cancel_targets, ring, history>>

ReapSubmit ==
  /\ reap.pc = "submit" /\ reap' = [reap EXCEPT !.pc = "wake"]
  /\ \/ reap.submit /\ SubmitOk
     \/ ~reap.submit /\ UNCHANGED <<sq, taken>>
     \/ reap.submit /\ sq # <<>> /\ UNCHANGED <<sq, taken>>
  /\ UNCHANGED <<fut, home, entry, kern, shots, cq, cancel_targets, ring, history>>

Wake(f) == fut' = [fut EXCEPT ![f].woken = @ \/ fut[f].pc # "done"]

ReapWake ==
  /\ reap.pc = "wake"
  /\ \/ \E f \in reap.wake : Wake(f) /\ reap' = [reap EXCEPT !.wake = @ \ {f}]
     \/ reap.wake = {} /\ UNCHANGED fut /\ reap' = [reap EXCEPT !.pc = "idle", !.submit = FALSE]
  /\ UNCHANGED <<home, entry, sq, kernel, cq, cancel_targets, ring, history>>

-----------------------------------------------------------------------------
(* Inner::drop: submit, cancel what is left as far as there is room, submit again, *)
(* and reap until nothing is left; io_uring_enter may fail at each of them.        *)
DropRing ==
  /\ ring = "open" /\ reap.pc = "idle" /\ \A f \in Futs : fut[f].pc = "done"
  /\ LET due == SetToSeq({f \in Futs : entry[f].slab # "none"}) IN
     \E rest \in {<<>>, sq} :
       LET room == Entries - Len(rest)
           now == SubSeq(due, 1, IF Len(due) < room THEN Len(due) ELSE room)
           all == rest \o [i \in DOMAIN now |-> Sqe("cancel", now[i])]
           got == IF rest = <<>> THEN taken \o sq ELSE taken IN
       /\ \/ taken' = got \o all /\ sq' = <<>>
          \/ all # <<>> /\ taken' = got /\ sq' = all
       /\ cancel_targets' = cancel_targets \union ToSet(now)
       /\ ring' = IF due = <<>> THEN "closed" ELSE "closing"
  /\ UNCHANGED <<fut, home, entry, kern, shots, cq, reap, history>>

CloseRing ==
  /\ ring = "closing" /\ reap.pc = "idle"
  /\ \/ /\ \A f \in Futs : entry[f].slab = "none"
        /\ ring' = "closed" /\ UNCHANGED <<home, entry>>
     \/ /\ \E f \in Futs : entry[f].slab # "none"
        /\ ring' = "abandoned"
        /\ home' = [f \in Futs |-> IF home[f] = "ring" THEN "freed" ELSE home[f]]
        /\ entry' = [f \in Futs |-> NoEntry]
  /\ UNCHANGED <<fut, sq, kernel, cq, cancel_targets, reap, history>>

-----------------------------------------------------------------------------
(* The futures and streams: first poll, submit, later polls, drop. *)
Future(f, class) ==
  /\ Class(f) = class
  /\ FirstPoll(f) \/ FirstSubmit(f) \/ TakeOwned(f) \/ PollNext(f) \/ StoreWaker(f) \/ DropFuture(f) \/ DropUnpolled(f)
ReadOwned(f) == Future(f, "rw")
WriteOwned(f) == Future(f, "rw")
SendOwned(f) == Future(f, "rw")
RecvOwned(f) == Future(f, "rw")
ReadvOwned(f) == Future(f, "vec")
WritevOwned(f) == Future(f, "vec")
ConnectOwned(f) == Future(f, "plain")
CloseOwned(f) == Future(f, "plain")
TimeoutOwned(f) == Future(f, "plain")
AcceptOwned(f) == Future(f, "accept")
AcceptMultishot(f) == Future(f, "maccept")
RecvMultishot(f) == Future(f, "mrecv")

Poll(f) ==
  \/ ReadOwned(f) \/ WriteOwned(f) \/ SendOwned(f) \/ RecvOwned(f)
  \/ ReadvOwned(f) \/ WritevOwned(f) \/ ConnectOwned(f) \/ CloseOwned(f) \/ TimeoutOwned(f) \/ AcceptOwned(f)
  \/ AcceptMultishot(f) \/ RecvMultishot(f)

Next ==
  \/ \E f \in Futs : \/ Poll(f) \/ submit_cancel(f)
                     \/ KernelComplete(f)
  \/ KernelStart \/ ReapBegin \/ ReapOne \/ ReapEnd \/ ReapSubmit \/ ReapWake
  \/ DropRing \/ CloseRing

Spec == Init /\ [][Next]_vars

-----------------------------------------------------------------------------
(* KernelBuffersAlive: as long as the kernel may write through a request, queued, *)
(* taken or active, its resource is owned by the ring: no drop, cancel, failed     *)
(* submit or reaped cancel frees it or hands it back.  The code has two exceptions: *)
(* the ring that gives up waiting (an io_uring_enter error in Inner::drop), and a  *)
(* stream that a failed PROVIDE_BUFFERS marks as ended while its receive still runs. *)
KernelBuffersAlive ==
  \A f \in Futs \ spoilt : Lent(f) /\ ring # "abandoned" => home[f] = "ring" /\ entry[f].slab # "none"

(* CompletionReaches: a pending single-shot future whose result is in is about to *)
(* be woken, although poll looks for the result and leaves its waker under two    *)
(* separate locks.                                                                *)
CompletionReaches ==
  \A f \in Futs : fut[f].pc = "pending" /\ entry[f].result # "none" => fut[f].woken \/ f \in reap.wake

(* OrphansDrain: an orphan is still lent to the kernel, or a completion that will *)
(* free it is posted, or its buffer group is being cleaned up; unread receive     *)
(* events excepted.                                                               *)
OrphansDrain ==
  \A f \in Futs : entry[f].slab = "orphaned" =>
    \/ Lent(f) \/ \E i \in DOMAIN cq : cq[i].fut = f /\ cq[i].what = "op"
    \/ entry[f].terminal /\ (entry[f].cleanup # "done" \/ entry[f].events # <<>>)

UringSound == KernelBuffersAlive /\ CompletionReaches /\ OrphansDrain

(* StreamNotStranded: a pending stream with an unread event is about to be woken.   *)
(* The code does not keep this: a completion between the look and the waker of      *)
(* poll_next finds no waker to call.                                                *)
StreamNotStranded ==
  \A f \in Futs : fut[f].pc = "pending" /\ entry[f].events # <<>> => fut[f].woken \/ f \in reap.wake

(* DescriptorsClosed: every accepted descriptor is delivered or closed.  The code   *)
(* does not keep this: a stream dropped with unread events leaves them in its       *)
(* orphan, which is freed without closing them.                                     *)
DescriptorsClosed == leaked = 0
=============================================================================
