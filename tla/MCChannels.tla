----------------------------- MODULE MCChannels -----------------------------
(* The channels and the Semaphore.  A behaviour picks the one it is about and the   *)
(* others stay as they began: the states of this instance are the sum of theirs, not *)
(* the product.                                                                      *)
EXTENDS Channels, Semaphore

VARIABLE subject \* the component of this behaviour

mVars == <<ch, op, late, lateRx>>
oVars == <<st, tx, oClosed, rcv, calling, displaced>>
wVars == <<version, wakers, handle, reader, ringing>>
bVars == <<buffer, next_seq, slots, slot_waker, txs, listener, rung>>
fVars == <<entries, ready, outer, holder, member, arcs>>
qVars == <<qEntries, expired, qClosed, timer, qCalling, sink, owner, woken, moved, out>>
all == <<subject, vars, mVars, oVars, wVars, bVars, fVars, qVars>>

Only(x) == subject = x /\ UNCHANGED subject

SumInit ==
  /\ subject \in {"mpsc", "oneshot", "watch", "broadcast", "unordered", "delays", "semaphore"}
  /\ Init /\ M!Init /\ O!Init /\ W!Init /\ B!Init /\ F!Init /\ Q!Init
  /\ handle["a"] = "held" /\ reader["a"].held /\ listener["a"].state = "idle"  \* the first handles, up to symmetry

SumNext ==
  \/ Only("mpsc") /\ M!Next /\ UNCHANGED <<vars, oVars, wVars, bVars, fVars, qVars>>
  \/ Only("oneshot") /\ O!Next /\ UNCHANGED <<vars, mVars, wVars, bVars, fVars, qVars>>
  \/ Only("watch") /\ W!Next /\ UNCHANGED <<vars, mVars, oVars, bVars, fVars, qVars>>
  \/ Only("broadcast") /\ B!Next /\ UNCHANGED <<vars, mVars, oVars, wVars, fVars, qVars>>
  \/ Only("unordered") /\ F!Next /\ UNCHANGED <<vars, mVars, oVars, wVars, bVars, qVars>>
  \/ Only("semaphore") /\ Next /\ UNCHANGED <<mVars, oVars, wVars, bVars, fVars, qVars>>
  \/ Only("delays") /\ Q!Next /\ UNCHANGED <<vars, mVars, oVars, wVars, bVars, fVars>>

SumSpec == SumInit /\ [][SumNext]_all
=============================================================================
