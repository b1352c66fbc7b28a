---------------------------- MODULE MCStealQueue ----------------------------
(* Instances of StealQueue for TLC: an owner and two interchangeable thieves. *)
EXTENDS StealQueue, TLC
CONSTANTS w1, t1, t2
ThiefSymmetry == Permutations({t1, t2})
=============================================================================
