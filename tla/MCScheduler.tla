----------------------------- MODULE MCScheduler -----------------------------
(* Instances of the scheduler: a chain of wakes, or two tasks that keep each    *)
(* other runnable.                                                              *)
EXTENDS Scheduler

CONSTANTS t1, t2, t3

Chain == {<<t1, t2>>}
NoWakes == {}
Self == {<<t1, t1>>}
Pair == {<<t1, t1>>, <<t1, t2>>, <<t2, t1>>, <<t2, t2>>}
=============================================================================
