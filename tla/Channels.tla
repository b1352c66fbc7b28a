------------------------------ MODULE Channels ------------------------------
(***************************************************************************)
(* The channels of sync/, the set of futures of future/ and the queue of     *)
(* delayed values of time/ side by side.  They share nothing; each has       *)
(* variables of its own.  MCChannels checks them, ChannelProofs proves the   *)
(* same statements for every value of the constants.                         *)
(***************************************************************************)

CONSTANTS
  Ops, Cap, MaxSenders,              \* Mpsc
  Watchers,                          \* Oneshot
  Receivers, Senders, MaxVersion,    \* Watch, with Broadcast's receivers
  Capacity, MaxSends, MaxTxs,        \* Broadcast
  Members, Coop, Budget,             \* FuturesUnordered
  Keys                               \* DelayQueue

VARIABLES
  ch, op, late, lateRx,                                 \* Mpsc
  st, tx, oClosed, rcv, calling, displaced,             \* Oneshot
  version, wakers, handle, reader, ringing,             \* Watch
  buffer, next_seq, slots, slot_waker, txs, listener, rung, \* Broadcast
  entries, ready, outer, holder, member, arcs,          \* FuturesUnordered
  qEntries, expired, qClosed, timer, qCalling, sink, owner, woken, moved, out \* DelayQueue

M == INSTANCE Mpsc
O == INSTANCE Oneshot WITH closed <- oClosed
W == INSTANCE Watch
B == INSTANCE Broadcast
F == INSTANCE FuturesUnordered
Q == INSTANCE DelayQueue WITH entries <- qEntries, closed <- qClosed, calling <- qCalling

(* mpsc: slots are exact and no sender or receiver waits for a wake that will not *)
(* come, whatever order of grants, cancellations and drops.                       *)
MpscSound == M!MpscSound

(* oneshot: the value ends in one place and neither half is left parked. *)
OneshotSound == O!OneshotSound

(* watch: a receiver parked in changed() has seen the newest value and is listed. *)
ChangeReachesAll == W!ChangeReachesAll

(* broadcast: every cursor is where its receiver's history says, and nobody is *)
(* parked beside a value.                                                      *)
BroadcastSound == B!BroadcastSound

(* FuturesUnordered: the owner is not left asleep beside a queued member, and a *)
(* finished member is never out of the queue.                                   *)
UnorderedSound == F!UnorderedSound

(* DelayQueue: no value is lost or delivered twice, and the owner is not left asleep *)
(* beside a fired entry.                                                             *)
DelayQueueSound == Q!DelayQueueSound

-----------------------------------------------------------------------------
(* What the code does not keep; the README describes each counterexample. *)

(* oneshot: every Closed future learns of the receiver's death. *)
EveryClosedIsTold == O!EveryClosedIsTold

(* watch: receivers learn that the last Sender is gone. *)
WatchClosedIsTold == W!ClosedIsTold

(* broadcast: receivers learn that the last Sender is gone. *)
BroadcastClosedIsTold == B!ClosedIsTold

(* FuturesUnordered: a waker called by value frees its EntryWake. *)
WakersFreed == F!WakersFreed

(* DelayQueue: the owner is woken after the queue moved to another task. *)
FireSeenAnywhere == Q!FireSeenAnywhere
=============================================================================
