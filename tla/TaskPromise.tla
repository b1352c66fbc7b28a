---------------------------- MODULE TaskPromise -----------------------------
(***************************************************************************)
(* What a spawned task promises its user, without threads, references or    *)
(* queues: a wake makes a poll due, at most one poll runs at a time and only *)
(* when one is due, the task resolves once, with a cancelled outcome only if *)
(* it was asked to cancel, and the outcome is kept for the JoinHandle until  *)
(* it is read, or discarded once the JoinHandle is gone.                     *)
(***************************************************************************)
VARIABLES
  phase,     \* "waiting" | "polling" | "done"
  due,       \* a poll is owed
  cancel,    \* cancellation was requested
  outcome,   \* "none" until resolved
  slot,      \* the outcome is "empty" | "kept" | "read" | "discarded"
  detached   \* the JoinHandle was dropped unread

vars == <<phase, due, cancel, outcome, slot, detached>>

Init ==
  /\ phase = "waiting" /\ due = TRUE /\ cancel = FALSE
  /\ outcome = "none" /\ slot = "empty" /\ detached = FALSE

Wake ==
  /\ phase # "done" /\ ~cancel
  /\ due' = TRUE
  /\ UNCHANGED <<phase, cancel, outcome, slot, detached>>

Begin ==
  /\ phase = "waiting" /\ due /\ ~cancel
  /\ phase' = "polling" /\ due' = FALSE
  /\ UNCHANGED <<cancel, outcome, slot, detached>>

Park ==
  /\ phase = "polling"
  /\ phase' = "waiting"
  /\ UNCHANGED <<due, cancel, outcome, slot, detached>>

Cancel ==
  /\ cancel' = TRUE
  /\ UNCHANGED <<phase, due, outcome, slot, detached>>

Resolve(o) ==
  /\ IF o = "cancelled" THEN phase = "waiting" /\ cancel ELSE phase = "polling"
  /\ phase' = "done" /\ due' = FALSE
  /\ outcome' = o /\ slot' = "kept"
  /\ UNCHANGED <<cancel, detached>>

Read ==
  /\ slot = "kept" /\ ~detached
  /\ slot' = "read"
  /\ UNCHANGED <<phase, due, cancel, outcome, detached>>

Detach ==
  /\ slot # "read"
  /\ detached' = TRUE
  /\ UNCHANGED <<phase, due, cancel, outcome, slot>>

Discard ==
  /\ slot = "kept" /\ detached
  /\ slot' = "discarded"
  /\ UNCHANGED <<phase, due, cancel, outcome, detached>>

Settle == Park \/ \E o \in {"ok", "panic", "cancelled"} : Resolve(o)

Next == Wake \/ Begin \/ Settle \/ Cancel \/ Read \/ Detach \/ Discard

(* What the task may do: every promise but the promise to act. *)
Allowed == Init /\ [][Next]_vars

(* A due poll begins, a poll ends, a cancelled task resolves, and an outcome *)
(* nobody can read is discarded.                                             *)
Spec ==
  /\ Allowed
  /\ WF_vars(Begin) /\ WF_vars(Settle) /\ WF_vars(Discard)
=============================================================================
