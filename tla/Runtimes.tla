------------------------------ MODULE Runtimes ------------------------------
(***************************************************************************)
(* The threads of a runtime beside the multi-thread scheduler: the blocking  *)
(* pool, the current-thread scheduler and block_in_place's takeover thread.  *)
(* They share nothing; each has variables of its own.  MCRuntimes checks     *)
(* them, RuntimeProofs proves the same statements for every value of the     *)
(* constants.                                                                *)
(***************************************************************************)
EXTENDS BlockingPool

CONSTANTS
  Tasks, Remotes, Interval, \* CurrentThread
  Handed, Peers, Taker      \* Takeover: tasks of the worker, the other workers, the thread

ASSUME TakerIsNoPeer == Taker \notin Peers

VARIABLES
  queues, cell, tasks, armed, owner, unparker, token, woken,  \* CurrentThread
  tick, cClosed, shutdown_complete, main, remote,
  place, some, requested, returned, shut, worker,             \* Takeover
  taker, root, waking, stage, wakePending, kernelWake, astray

C == INSTANCE CurrentThread WITH closed <- cClosed
K == INSTANCE Takeover WITH Jobs <- Handed

(* Current-thread scheduler: its thread never sleeps beside work, and a task has *)
(* exactly the entries its state says.                                           *)
CurrentThreadSound == C!CurrentThreadSound

(* Current-thread scheduler: while block_on goes on, an entry in any queue is taken. *)
QueuedRuns == C!QueuedRuns

(* block_in_place: one owner of the worker's queue at a time, no task left behind *)
(* in the hand-over, and no sleep beside a wake.                                  *)
TakeoverSound == K!TakeoverSound

-----------------------------------------------------------------------------
(* What the code does not keep; the README describes each counterexample. *)

(* Current-thread scheduler: cancelled tasks are complete when shutdown says so. *)
ShutdownCompletes == C!ShutdownCompletes

(* block_in_place: the worker sees that the takeover thread has returned. *)
HandBackSeen == K!HandBackSeen

(* block_in_place: the request for the queue reaches the takeover thread. *)
ReturnReaches == K!ReturnReaches
=============================================================================
