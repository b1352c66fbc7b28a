----------------------------- MODULE WaitQueue ------------------------------
(***************************************************************************)
(* The queues of waiters of sync/ as sequences.  Each future of mpsc,       *)
(* notify and rwlock has one Arc<Waiter>, linked at most once; the          *)
(* semaphore's nodes are intrusive and leave by LinkedList::remove.         *)
(***************************************************************************)
EXTENDS Integers, Sequences

Occurs(q, w) == \E i \in 1 .. Len(q) : q[i] = w

Distinct(q) == \A i, j \in 1 .. Len(q) : q[i] = q[j] => i = j

(* retain(|waiter| !Arc::ptr_eq(waiter, w)) on a queue that holds w at most once. *)
Without(q, w) ==
  IF Occurs(q, w)
  THEN LET at == CHOOSE i \in 1 .. Len(q) : q[i] = w
       IN  [j \in 1 .. Len(q) - 1 |-> q[IF j < at THEN j ELSE j + 1]]
  ELSE q
=============================================================================
