------------------------------ MODULE Service ------------------------------
(***************************************************************************)
(* What a node promises to the clients of its RPC server, without tasks,   *)
(* or locks: a transaction is unknown, pending or confirmed, blocks        *)
(* confirm transactions one at a time, a snapshot of the chain follows the *)
(* chain, and a client that asks for a transaction is told a status the    *)
(* transaction had at some moment while it was waiting.  Of the disk only  *)
(* this is left: a block may fail to reach it, and a restart goes back to  *)
(* the last block that did.                                                *)
(***************************************************************************)
EXTENDS Integers

CONSTANTS Clients, Txs

VARIABLES
  height,      \* blocks of the chain
  durable,     \* the height a restart returns to
  confirmed,   \* transactions in blocks that were saved
  pool,        \* transactions waiting for a block
  published,   \* height of the snapshot the RPC server shows
  calls,       \* per client, at most one open question: [tx, seen]
  told         \* per client, the last status it was told

vars == <<height, durable, confirmed, pool, published, calls, told>>

Statuses == {"unknown", "pending", "confirmed"}

(* A transaction that is in the pool again after a block had it is shown as *)
(* pending.                                                                 *)
StatusIn(t, inPool, inChain) ==
  IF t \in inPool THEN "pending" ELSE IF t \in inChain THEN "confirmed" ELSE "unknown"

(* Every open question sees the new status of its transaction. *)
Witness(inPool, inChain) ==
  calls' = [c \in Clients |->
              {[q EXCEPT !.seen = @ \cup {StatusIn(q.tx, inPool, inChain)}] : q \in calls[c]}]

Init ==
  /\ height = 0 /\ durable = 0 /\ confirmed = {} /\ pool = {} /\ published = 0
  /\ calls = [c \in Clients |-> {}]
  /\ told = [c \in Clients |-> "unknown"]

Submit(t) ==
  /\ t \notin pool
  /\ pool' = pool \cup {t}
  /\ Witness(pool', confirmed)
  /\ UNCHANGED <<height, durable, confirmed, published, told>>

Expire(S) ==
  /\ pool' = pool \ S
  /\ Witness(pool', confirmed)
  /\ UNCHANGED <<height, durable, confirmed, published, told>>

(* A block is saved, and with it the state of the chain. *)
Commit(S) ==
  /\ height' = height + 1
  /\ durable' = height'
  /\ confirmed' = confirmed \cup S
  /\ pool' = pool \ S
  /\ Witness(pool', confirmed')
  /\ UNCHANGED <<published, told>>

(* A block is applied and cannot be saved: its transactions are gone. *)
Lose(S) ==
  /\ height' = height + 1
  /\ pool' = pool \ S
  /\ Witness(pool', confirmed)
  /\ UNCHANGED <<durable, confirmed, published, told>>

Publish ==
  /\ published' \in published .. height
  /\ UNCHANGED <<height, durable, confirmed, pool, calls, told>>

Ask(c, t) ==
  /\ calls[c] = {}
  /\ calls' = [calls EXCEPT ![c] = {[tx |-> t, seen |-> {StatusIn(t, pool, confirmed)}]}]
  /\ UNCHANGED <<height, durable, confirmed, pool, published, told>>

Answer(c) ==
  \E q \in calls[c], s \in Statuses :
    /\ s \in q.seen
    /\ told' = [told EXCEPT ![c] = s]
    /\ calls' = [calls EXCEPT ![c] = {}]
    /\ UNCHANGED <<height, durable, confirmed, pool, published>>

(* A restart loses the pool, the open questions and what was not saved. *)
Restart ==
  /\ height' = durable
  /\ published' = durable
  /\ pool' = {}
  /\ calls' = [c \in Clients |-> {}]
  /\ UNCHANGED <<durable, confirmed, told>>

Next ==
  \/ \E t \in Txs : Submit(t)
  \/ \E S \in SUBSET Txs : Expire(S) \/ Commit(S) \/ Lose(S)
  \/ Publish
  \/ \E c \in Clients : Answer(c) \/ \E t \in Txs : Ask(c, t)
  \/ Restart

Spec == Init /\ [][Next]_vars
=============================================================================
