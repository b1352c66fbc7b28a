------------------------------- MODULE Drivers ------------------------------
(***************************************************************************)
(* The I/O driver and the io_uring driver side by side.  They share nothing; *)
(* MCDrivers checks them beside the timer wheel, DriverProofs proves the     *)
(* same statements for every value of the constants.                         *)
(***************************************************************************)
EXTENDS ScheduledIo, FiniteSets

CONSTANTS Futs, Classes, Entries, MaxShots   \* Uring

VARIABLES
  fut, home, entry, sq, taken, kern, cq,     \* Uring
  cancel_targets, reap, ring, leaked, spoilt, shots

U == INSTANCE Uring

ASSUME FutsFinite == IsFiniteSet(Futs)
ASSUME EntriesNat == Entries \in Nat
ASSUME ClassesKnown ==
  \A c \in Classes : \A f \in DOMAIN c : c[f] \in {"rw", "vec", "plain", "accept", "maccept", "mrecv"}

(* io_uring: a buffer the kernel may write to is owned by the ring, a completion   *)
(* reaches its future, and a dropped request does not stay for ever.               *)
UringSound == U!UringSound

-----------------------------------------------------------------------------
(* What the code does not keep; the README describes each counterexample, with those *)
(* of ScheduledIo, which this module extends.                                        *)

(* io_uring: a stream with an unread event is woken. *)
StreamNotStranded == U!StreamNotStranded

(* io_uring: accepted descriptors are delivered or closed. *)
DescriptorsClosed == U!DescriptorsClosed
=============================================================================
