----------------------------- MODULE MCRuntimes -----------------------------
(* A behaviour picks the part of the runtime it is about and the others stay as they *)
(* began: the states of this instance are the sum of theirs, not the product.  Of     *)
(* block_in_place there are two: the tasks of a queue handed over in a runtime whose  *)
(* other workers are busy, and the request for the queue among workers that park.     *)
EXTENDS Runtimes

VARIABLE subject \* the component of this behaviour

cVars == <<queues, cell, tasks, armed, owner, unparker, token, woken, tick, cClosed, shutdown_complete, main, remote>>
kVars == <<place, some, requested, returned, shut, worker, taker, root, waking, stage, wakePending, kernelWake, astray>>
all == <<subject, vars, cVars, kVars>>

Only(x) == subject = x /\ UNCHANGED subject
OfPool(A) == Only("pool") /\ A /\ UNCHANGED <<cVars, kVars>>
OfCurrent(A) == Only("current") /\ A /\ UNCHANGED <<vars, kVars>>

SumInit ==
  /\ subject \in {"pool", "current", "takeover", "request"}
  /\ Init /\ C!Init /\ K!Init
  /\ subject # "takeover" => K!At("unborn") = Handed   \* one beginning where it does not matter
  /\ subject \notin {"takeover", "request"} => ~wakePending /\ ~kernelWake

SumNext ==
  \/ Only("pool") /\ Next /\ UNCHANGED <<cVars, kVars>>
  \/ Only("current") /\ C!Next /\ UNCHANGED <<vars, kVars>>
  \/ Only("takeover") /\ K!Next /\ (\A p \in Peers : stage'[p] = "out") /\ UNCHANGED <<vars, cVars>>
  \/ Only("request") /\ K!Next /\ UNCHANGED <<place, vars, cVars>>

(* Running threads go on and closures return; the owner thread of a current-thread *)
(* runtime and a remote thread inside enqueue go on.                               *)
SumSpec ==
  /\ SumInit /\ [][SumNext]_all
  /\ WF_all(OfPool(ShutdownStep))
  /\ \A j \in Jobs : WF_all(OfPool(SubmitStep(j)))
  /\ \A t \in Threads : WF_all(OfPool(ThreadStep(t))) /\ WF_all(OfPool(Timeout(t))) /\ WF_all(OfPool(FinishJob(t)))
  /\ WF_all(OfCurrent(C!OwnerStep))
  /\ \A r \in Remotes : WF_all(OfCurrent(C!RemoteStep(r)))
=============================================================================
