------------------------- MODULE CancellationToken --------------------------
(***************************************************************************)
(* cancellation.rs: a tree of tokens.  The cancelled flag is an atomic read *)
(* outside the two mutexes, so cancel, child_token and the polls of         *)
(* Cancelled interleave at every load, swap and lock.                       *)
(***************************************************************************)
EXTENDS FiniteSets

CONSTANTS
  Tokens,  \* tokens; Root is the first
  Root,
  Waits    \* the Cancelled futures

VARIABLES
  tok,    \* per token: life, cancelled, its waiters and its children (Weak)
  cancels, \* per token: where the one cancel() that flipped its flag stands
  birth,   \* per token: the parent its child_token() call runs on, and where it stands
  wait     \* per Cancelled: its token, where its poll stands, whether it has an id

vars == <<tok, cancels, birth, wait>>

Unborn == [life |-> "unborn", cancelled |-> FALSE, waiters |-> {}, children |-> {}]
Held(t) == tok[t].life = "held"
Quiet == [pc |-> "none", wake |-> {}, sub |-> {}]

Init ==
  /\ tok = [t \in Tokens |-> IF t = Root THEN [Unborn EXCEPT !.life = "held"] ELSE Unborn]
  /\ cancels = [t \in Tokens |-> Quiet]
  /\ birth = [t \in Tokens |-> [pc |-> "none", parent |-> Root]]
  /\ wait = [w \in Waits |-> [pc |-> "none", token |-> Root, id |-> FALSE]]

(* cancel(): only the caller whose swap flips the flag goes on. *)
Swap(t) ==
  /\ tok' = [tok EXCEPT ![t].cancelled = TRUE]
  /\ cancels' = IF tok[t].cancelled THEN cancels ELSE [cancels EXCEPT ![t].pc = "take"]

cancel(t) ==
  /\ Held(t) /\ ~tok[t].cancelled
  /\ Swap(t) /\ UNCHANGED <<birth, wait>>

(* The waiters and, with that mutex still held, the children are taken. *)
TakesChildren(t) == tok[t].children
CancelTake(t) ==
  /\ cancels[t].pc = "take"
  /\ cancels' = [cancels EXCEPT ![t] = [pc |-> "call", wake |-> tok[t].waiters, sub |-> TakesChildren(t)]]
  /\ tok' = [tok EXCEPT ![t].waiters = {}, ![t].children = {}]
  /\ UNCHANGED <<birth, wait>>

CancelWake(t, w) ==
  /\ cancels[t].pc = "call" /\ w \in cancels[t].wake
  /\ cancels' = [cancels EXCEPT ![t].wake = @ \ {w}]
  /\ wait' = [wait EXCEPT ![w].pc = IF @ = "parked" THEN "ready" ELSE @]
  /\ UNCHANGED <<tok, birth>>

(* The recursive cancel of a child whose Weak still upgrades. *)
CancelChild(t, c) ==
  /\ cancels[t].pc = "call" /\ cancels[t].wake = {} /\ c \in cancels[t].sub
  /\ tok' = [tok EXCEPT ![c].cancelled = @ \/ Held(c)]
  /\ cancels' = [x \in Tokens |->
       CASE x = t -> [cancels[t] EXCEPT !.sub = @ \ {c}]
         [] x = c /\ Held(c) /\ ~tok[c].cancelled -> [cancels[c] EXCEPT !.pc = "take"]
         [] OTHER -> cancels[x]]
  /\ UNCHANGED <<birth, wait>>

(* child_token(): check, link into the parent, check again. *)
child_token(p, c) ==
  /\ Held(p) /\ tok[c].life = "unborn"
  /\ birth' = [birth EXCEPT ![c] = [pc |-> IF tok[p].cancelled THEN "cancel" ELSE "link", parent |-> p]]
  /\ tok' = [tok EXCEPT ![c].life = "held"]
  /\ UNCHANGED <<cancels, wait>>

ChildLink(c) ==
  /\ birth[c].pc = "link"
  /\ tok' = [tok EXCEPT ![birth[c].parent].children = @ \cup {c}]
  /\ birth' = [birth EXCEPT ![c].pc = "recheck"]
  /\ UNCHANGED <<cancels, wait>>

Recheck_Never(c) == FALSE
Recheck(c) == tok[birth[c].parent].cancelled
ChildRecheck(c) ==
  /\ birth[c].pc = "recheck"
  /\ birth' = [birth EXCEPT ![c].pc = IF Recheck(c) THEN "cancel" ELSE "none"]
  /\ UNCHANGED <<tok, cancels, wait>>

ChildCancel(c) ==
  /\ birth[c].pc = "cancel" /\ birth' = [birth EXCEPT ![c].pc = "none"]
  /\ Swap(c) /\ UNCHANGED wait

(* Cancelled::poll: an unlocked check; then, under the waiters mutex, register or *)
(* refresh, check again and wake itself.  The mutex is not held by CancelTake in  *)
(* between, so the second half is one step.                                       *)
cancelled(w, t) ==
  /\ wait[w].pc = "none" /\ Held(t) /\ birth[t].pc = "none"
  /\ \A x \in Tokens : w \notin cancels[x].wake
  /\ wait' = [wait EXCEPT ![w] = [pc |-> "ready", token |-> t, id |-> FALSE]]
  /\ UNCHANGED <<tok, cancels, birth>>

PollCheck(w) ==
  /\ wait[w].pc = "ready"
  /\ wait' = [wait EXCEPT ![w].pc = IF tok[wait[w].token].cancelled THEN "done" ELSE "register"]
  /\ UNCHANGED <<tok, cancels, birth>>

SelfWakes(w) == tok[wait[w].token].cancelled
PollRegister(w) ==
  /\ wait[w].pc = "register"
  /\ tok' = [tok EXCEPT ![wait[w].token].waiters = @ \cup {w}]
  /\ wait' = [wait EXCEPT ![w].pc = IF SelfWakes(w) THEN "ready" ELSE "parked", ![w].id = TRUE]
  /\ UNCHANGED <<cancels, birth>>

DropCancelled(w) ==
  /\ wait[w].pc \in {"ready", "parked", "done"}
  /\ tok' = IF wait[w].id THEN [tok EXCEPT ![wait[w].token].waiters = @ \ {w}] ELSE tok
  /\ wait' = [wait EXCEPT ![w] = [pc |-> "none", token |-> Root, id |-> FALSE]]
  /\ UNCHANGED <<cancels, birth>>

SpuriousPoll(w) ==
  /\ wait[w].pc = "parked" /\ wait' = [wait EXCEPT ![w].pc = "ready"]
  /\ UNCHANGED <<tok, cancels, birth>>

(* The last handle of a token is dropped, and its children list with it: no future  *)
(* borrows it and no call runs on it.  Its own children live on.                    *)
DropToken(t) ==
  /\ Held(t) /\ birth[t].pc = "none" /\ cancels[t].wake = {} /\ cancels[t].sub = {}
  /\ cancels[t].pc # "take"
  /\ \A w \in Waits : wait[w].pc = "none" \/ wait[w].token # t
  /\ \A c \in Tokens : birth[c].pc = "none" \/ birth[c].parent # t
  /\ tok' = [tok EXCEPT ![t] = [@ EXCEPT !.life = "dropped", !.children = {}]]
  /\ UNCHANGED <<cancels, birth, wait>>

CancelStep ==
  \E t \in Tokens : \/ CancelTake(t) \/ ChildLink(t) \/ ChildRecheck(t) \/ ChildCancel(t)
                    \/ \E w \in Waits : CancelWake(t, w)
                    \/ \E c \in Tokens : CancelChild(t, c)

Next ==
  \/ CancelStep
  \/ \E t \in Tokens : cancel(t) \/ DropToken(t) \/ \E c \in Tokens : child_token(t, c)
  \/ \E w \in Waits : \/ PollCheck(w) \/ PollRegister(w) \/ DropCancelled(w) \/ SpuriousPoll(w)
                      \/ \E t \in Tokens : cancelled(w, t)

Spec == Init /\ [][Next]_vars

-----------------------------------------------------------------------------
(* CancelReachesWaiters: a future parked on a cancelled token is about to be woken *)
(* by the cancel that flipped the flag, however the flag, the two locks and the    *)
(* poll interleave.                                                                *)
CancelReachesWaiters ==
  \A w \in Waits : wait[w].pc = "parked" /\ tok[wait[w].token].cancelled =>
    LET t == wait[w].token
    IN  (cancels[t].pc = "take" /\ w \in tok[t].waiters) \/ w \in cancels[t].wake

(* CancelReachesChildren: a token made by child_token of a cancelled one is         *)
(* cancelled, or a running cancel or the child_token call itself is about to do it: *)
(* no order of link, flag and take leaves a live child of a cancelled token behind. *)
CancelReachesChildren ==
  \A c \in Tokens \ {Root} :
    LET p == birth[c].parent
    IN  Held(c) /\ tok[p].cancelled =>
          \/ tok[c].cancelled \/ birth[c].pc # "none"
          \/ cancels[p].pc = "take" /\ c \in tok[p].children
          \/ c \in cancels[p].sub

(* CancelReachesDescendants: the same of every token further down.  The code does   *)
(* not keep this: a token in between that was dropped cuts its children off.        *)
CancelReachesDescendants ==
  \A c \in Tokens \ {Root} :
    Held(c) /\ tok[Root].cancelled /\ (\A t \in Tokens : cancels[t].pc # "take" /\ cancels[t].sub = {} /\ birth[t].pc = "none")
      => tok[c].cancelled

CancellationSound == CancelReachesWaiters /\ CancelReachesChildren
=============================================================================
