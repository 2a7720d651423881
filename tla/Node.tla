-------------------------------- MODULE Node --------------------------------
(***************************************************************************)
(* The tasks of one node (run_node), the locks they share, the disk behind *)
(* them and the clients of the RPC server in front of them.                *)
(*                                                                         *)
(* The state of the chain is behind four locks, chain, accounts, refiners  *)
(* and mempool; a fifth guards the snapshot `info` of which the RPC server *)
(* answers.  The tasks take several of them in various orders, wait for    *)
(* each in turn, and hold them together.  The three parts of the state are *)
(* represented by the height they belong to.  What a block does to them is *)
(* in module Chain, what attestations and foreign branches do in Replicas, *)
(* and which transactions the pool accepts in Mempool.                     *)
(***************************************************************************)
EXTENDS Integers, Sequences, FiniteSets

CONSTANTS
  Clients,      \* clients of the RPC server, one request each at a time
  Txs,          \* transactions
  MaxWork       \* bound: rounds of the miner, messages of peers, expiries, requests
                \* and faults together

ASSUME NodeAssumption ==
  /\ MaxWork \in Nat
  /\ IsFiniteSet(Clients)
  /\ Clients \cap {"miner", "network", "processor"} = {}

(* "miner" is the mining loop or the refining loop, whose locks differ in  *)
(* accounts only; "network" the network task; "processor" the task that    *)
(* applies the blocks of external miners.                                  *)
Producers == {"miner", "network", "processor"}
Tasks == Producers \cup Clients

VARIABLES
  asked,        \* asked[l][t]: how t has asked for lock l and holds it or waits for it
  after,        \* after[l][t]: the tasks that asked for l before t and have not released it
  op,           \* what each task is doing
  step,         \* how many of the locks it needs it has asked for
  work,         \* the block, transaction or ticket it works on
  mem,          \* the state in memory, part by part, as the height it belongs to
  pool,         \* the transactions in the mempool
  info,         \* the height of chain_info
  store,        \* the database; blocks[h] is the block stored at height h
  submissions,  \* the queue of block_sender
  running,      \* FALSE once the node has refused to start
  calls,        \* history: open opl_getTransaction with the statuses seen since
  told,         \* the last answer of opl_getTransaction
  lost,         \* history: [client, height] of the blocks whose write has failed
  accepted,     \* [client, height] of the submissions answered with "accepted"
  used          \* how much of MaxWork is used

lockVars == <<asked, after>>
taskVars == <<lockVars, op, step, work>>
stateVars == <<mem, pool, info, store>>
clientVars == <<calls, told, accepted, submissions>>
vars == <<taskVars, stateVars, running, clientVars, lost, used>>

(* What starts something is bounded together. *)
Used == used < MaxWork /\ used' = used + 1

NoWork == [height |-> 0, txs |-> {}, removed |-> {}, from |-> "none", ticket |-> 0]

---------------------------------------------------------------------------
(* The locks.  tokio's RwLock serves its waiters in order of arrival: a    *)
(* request is granted when nothing, or only readers before a reader, is in *)
(* front of it.                                                            *)

Locks == {"chain", "accounts", "refiners", "mempool", "info"}

Read(l) == [lock |-> l, mode |-> "read"]
Write(l) == [lock |-> l, mode |-> "write"]

Granted(t, l) ==
  /\ asked[l][t] # "no"
  /\ \/ after[l][t] = {}
     \/ asked[l][t] = "read" /\ \A u \in after[l][t] : asked[l][u] = "read"

(* Mutant of ApplyLocks: apply_block starts with the refiners. *)
ApplyLocksRefinersFirst ==
  <<Write("refiners"), Write("chain"), Write("accounts"), Write("mempool")>>

ApplyLocks == <<Write("chain"), Write("accounts"), Write("refiners"), Write("mempool")>>

(* The locks of each operation, in the order in which they are taken and   *)
(* held together.                                                          *)
Needs(o) ==
  CASE o \in {"apply", "persist"} -> ApplyLocks
    [] o = "build" -> <<Read("chain"), Read("accounts"), Read("refiners"), Read("mempool")>>
    [] o = "refresh" -> <<Read("chain"), Write("info")>>
    [] o \in {"insert", "expire"} -> <<Write("mempool")>>
    [] o = "chain_info" -> <<Read("info"), Read("refiners")>>
    [] o = "refiners" -> <<Read("refiners"), Read("info")>>
    [] o = "mining_job" -> <<Read("info"), Read("refiners"), Read("mempool")>>
    [] OTHER -> <<>>

(* A task that holds nothing and reads one value under one lock waits      *)
(* until no writer is in the queue; as a reader it delays nobody.          *)
Peek(l) == \A t \in Tasks : asked[l][t] # "write"

Peeks(t) ==
  CASE op[t] = "nonce" -> {"accounts"}
    [] op[t] = "fee" -> IF t = "network" THEN {"chain"} ELSE {"info"}
    [] op[t] = "pool_tx" -> {"mempool"}
    [] op[t] = "history" -> {"info"}
    [] OTHER -> {}

(* The last lock the task has asked for is granted. *)
Served(t) == step[t] > 0 => Granted(t, Needs(op[t])[step[t]].lock)

(* A task asks for its next lock once it holds those before. *)
Acquire(t) ==
  /\ running
  /\ step[t] < Len(Needs(op[t]))
  /\ Served(t)
  /\ LET n == Needs(op[t])[step[t] + 1] IN
     /\ asked' = [asked EXCEPT ![n.lock][t] = n.mode]
     /\ after' = [after EXCEPT ![n.lock][t] = {u \in Tasks : asked[n.lock][u] # "no"}]
  /\ step' = [step EXCEPT ![t] = @ + 1]
  /\ UNCHANGED <<op, work, stateVars, running, clientVars, lost, used>>

(* The task has all it needs for operation o. *)
Holds(t, o) ==
  /\ running
  /\ op[t] = o
  /\ step[t] = Len(Needs(o))
  /\ Served(t)
  /\ \A l \in Peeks(t) : Peek(l)

(* All locks are released and the task goes on with operation o. *)
GoOn(t, o, w) ==
  /\ asked' = [l \in Locks |-> [asked[l] EXCEPT ![t] = "no"]]
  /\ after' = [l \in Locks |-> [u \in Tasks |-> IF u = t THEN {} ELSE after[l][u] \ {t}]]
  /\ step' = [step EXCEPT ![t] = 0]
  /\ op' = [op EXCEPT ![t] = o]
  /\ work' = [work EXCEPT ![t] = w]

---------------------------------------------------------------------------
(* What a client can see of a transaction: a block counts from the attempt *)
(* to write it to the database on, and until then its transactions count   *)
(* as pending, since nobody can look at the pool meanwhile.                *)

PoolView == pool \cup UNION {work[t].removed : t \in Tasks}
Confirmed == {t \in Txs : store.txs[t] > 0}

Persisting == \E t \in Tasks : op[t] = "persist"
ChainView ==
  IF ~running THEN store.chain_state ELSE IF Persisting THEN mem.chain - 1 ELSE mem.chain

S == INSTANCE Service WITH
       height <- ChainView, durable <- store.chain_state, confirmed <- Confirmed,
       pool <- PoolView, published <- info

---------------------------------------------------------------------------
(* Blocks. *)

(* mine_block, produce_refiner_block: a candidate of the pool on the tip;  *)
(* the search for a nonce, without locks, may find nothing.                *)
Build ==
  /\ Holds("miner", "build")
  /\ \/ \E txs \in {pool, {}} :
          GoOn("miner", "apply", [NoWork EXCEPT !.height = mem.chain + 1, !.txs = txs,
                                                !.from = "miner"])
     \/ GoOn("miner", "idle", NoWork)
  /\ UNCHANGED <<stateVars, running, clientVars, lost, used>>

(* apply_block refuses a block that is not the next one; otherwise the     *)
(* state changes and the transactions leave the pool.  Mutant: the locks   *)
(* are released before the block is written.                               *)
ExecuteReleasing(t) ==
  /\ Holds(t, "apply")
  /\ IF work[t].height = mem.chain + 1
     THEN /\ mem' = [mem EXCEPT !.chain = work[t].height, !.accounts = work[t].height,
                                !.refiners = work[t].height]
          /\ pool' = pool \ work[t].txs
          /\ GoOn(t, "persist", [work[t] EXCEPT !.removed = pool \cap @])
          /\ UNCHANGED <<info, store>>
     ELSE /\ GoOn(t, IF t = "processor" THEN "reply" ELSE "idle",
                  [work[t] EXCEPT !.height = 0])
          /\ UNCHANGED stateVars
  /\ UNCHANGED <<running, clientVars, lost, used>>

Execute(t) ==
  /\ Holds(t, "apply")
  /\ IF work[t].height = mem.chain + 1
     THEN /\ mem' = [mem EXCEPT !.chain = work[t].height, !.accounts = work[t].height,
                                !.refiners = work[t].height]
          /\ pool' = pool \ work[t].txs
          /\ op' = [op EXCEPT ![t] = "persist"]
          /\ work' = [work EXCEPT ![t].removed = pool \cap work[t].txs]
          /\ UNCHANGED <<lockVars, step, info, store>>
     ELSE /\ GoOn(t, IF t = "processor" THEN "reply" ELSE "idle",
                  [work[t] EXCEPT !.height = 0])
          /\ UNCHANGED stateVars
  /\ UNCHANGED <<running, clientVars, lost, used>>

(* save_applied_block_atomic: one synced batch of the block, its indexes   *)
(* and the whole state.                                                    *)
Save(b) ==
  [blocks |-> [h \in DOMAIN store.blocks \cup {b.height} |->
                 IF h = b.height THEN [from |-> b.from, txs |-> b.txs] ELSE store.blocks[h]],
   chain_state |-> b.height, accounts |-> b.height, refiners |-> b.height,
   txs |-> [t \in Txs |-> IF t \in b.txs THEN b.height ELSE store.txs[t]]]

(* persist_state, then the locks are released.  A write that fails is only *)
(* logged: the block stays applied, and apply_block succeeds all the same. *)
Persist(t) ==
  /\ Holds(t, "persist")
  /\ \/ store' = Save(work[t]) /\ UNCHANGED lost
     \/ /\ lost' = lost \cup {[client |-> work[t].from, height |-> work[t].height]}
        /\ UNCHANGED store
  /\ GoOn(t, "refresh", [work[t] EXCEPT !.removed = {}])
  /\ UNCHANGED <<mem, pool, info, running, told, accepted, submissions, used>>
  /\ S!Witness(PoolView', Confirmed')

(* chain_state_to_info, with the chain held while the snapshot is written. *)
Refresh(t) ==
  /\ Holds(t, "refresh")
  /\ info' = mem.chain
  /\ IF t = "processor" THEN GoOn(t, "reply", work[t]) ELSE GoOn(t, "idle", NoWork)
  /\ UNCHANGED <<mem, pool, store, running, clientVars, lost, used>>

---------------------------------------------------------------------------
(* The network task. *)

Start(t, o, w) ==
  /\ running /\ op[t] = "idle"
  /\ op' = [op EXCEPT ![t] = o]
  /\ work' = [work EXCEPT ![t] = w]
  /\ UNCHANGED <<lockVars, step, stateVars, running, lost>>

MineBlock ==
  /\ Used
  /\ Start("miner", "build", NoWork)
  /\ UNCHANGED clientVars

(* Blocks come for the next height or for one already taken. *)
Offered == {mem.chain, mem.chain + 1} \ {0}

ReceiveBlock(h, txs) ==
  /\ Used
  /\ Start("network", "apply", [NoWork EXCEPT !.height = h, !.txs = txs, !.from = "network"])
  /\ UNCHANGED clientVars

ReceiveTransaction(t) ==
  /\ Used
  /\ Start("network", "nonce", [NoWork EXCEPT !.txs = {t}])
  /\ UNCHANGED clientVars

EvictTick ==
  /\ Used
  /\ Start("network", "expire", NoWork)
  /\ UNCHANGED clientVars

(* evict_expired: any of the transactions may have expired. *)
Expire ==
  /\ Holds("network", "expire")
  /\ \E old \in SUBSET pool : pool' = pool \ old
  /\ GoOn("network", "idle", NoWork)
  /\ UNCHANGED <<mem, info, store, running, told, accepted, submissions, lost, used>>
  /\ S!Witness(PoolView', Confirmed)

(* The account's nonce, then the suggested fee, then the pool: three locks *)
(* one after the other, for gossip and opl_sendTransaction alike.  The     *)
(* nonce read is only the base of an upper bound, so that the pool may     *)
(* take a transaction a block has had; it may refuse any for other reasons.*)
ReadNonce(t) ==
  /\ Holds(t, "nonce")
  /\ GoOn(t, "fee", work[t])
  /\ UNCHANGED <<stateVars, running, clientVars, lost, used>>

ReadFee(t) ==
  /\ Holds(t, "fee")
  /\ GoOn(t, "insert", work[t])
  /\ UNCHANGED <<stateVars, running, clientVars, lost, used>>

Insert(t) ==
  /\ Holds(t, "insert")
  /\ \/ pool' = pool \cup work[t].txs \/ UNCHANGED pool
  /\ GoOn(t, "idle", NoWork)
  /\ UNCHANGED <<mem, info, store, running, told, accepted, submissions, lost, used>>
  /\ S!Witness(PoolView', Confirmed)

---------------------------------------------------------------------------
(* The clients of the RPC server.  A request that is malformed, over the   *)
(* limit of its address or without the key it needs is refused before it   *)
(* reaches a handler and takes no lock.                                    *)

(* opl_getChainInfo and opl_getDifficulty, opl_getRefiners, opl_getMiningJob *)
(* and the scans of stored blocks.                                           *)
Query(c, o) ==
  /\ Used
  /\ Start(c, o, NoWork)
  /\ UNCHANGED clientVars

AnswerQuery(c) ==
  /\ \E o \in {"chain_info", "refiners", "mining_job"} : Holds(c, o)
  /\ GoOn(c, "idle", NoWork)
  /\ UNCHANGED <<stateVars, running, clientVars, lost, used>>

(* opl_getLatestBlocks, opl_getRefinerHallmark, opl_getBlockConfidence: the *)
(* height of the snapshot, then, without a lock, the stored blocks up to it *)
(* one by one.                                                              *)
ReadHeight(c) ==
  /\ Holds(c, "history")
  /\ GoOn(c, "scan", [NoWork EXCEPT !.height = info])
  /\ UNCHANGED <<stateVars, running, clientVars, lost, used>>

(* A missing block ends the list, or is skipped in the counts. *)
Scanned(c) == {h \in 1 .. work[c].height : h \in DOMAIN store.blocks}

AnswerScan(c) ==
  /\ Holds(c, "scan")
  /\ GoOn(c, "idle", NoWork)
  /\ UNCHANGED <<stateVars, running, clientVars, lost, used>>

SendTransaction(c, t) ==
  /\ Used
  /\ Start(c, "nonce", [NoWork EXCEPT !.txs = {t}])
  /\ UNCHANGED clientVars

(* opl_getTransaction looks into the pool, then into the database. *)
GetTransaction(c, t) ==
  /\ Used
  /\ Start(c, "pool_tx", [NoWork EXCEPT !.txs = {t}])
  /\ calls' = [calls EXCEPT ![c] =
                 {[tx |-> t, seen |-> {S!StatusIn(t, PoolView, Confirmed)}]}]
  /\ UNCHANGED <<told, accepted, submissions>>

Tell(c, status) ==
  /\ told' = [told EXCEPT ![c] = status]
  /\ calls' = [calls EXCEPT ![c] = {}]
  /\ GoOn(c, "idle", NoWork)
  /\ UNCHANGED <<stateVars, running, accepted, submissions, lost, used>>

LookInPool(c) ==
  /\ Holds(c, "pool_tx")
  /\ IF work[c].txs \subseteq pool
     THEN Tell(c, "pending")
     ELSE /\ GoOn(c, "load_tx", work[c])
          /\ UNCHANGED <<stateVars, running, clientVars, lost, used>>

(* load_transaction: the index leads to a block that must have it. *)
LoadTransaction(c) ==
  /\ Holds(c, "load_tx")
  /\ LET found == \A t \in work[c].txs :
                    /\ store.txs[t] \in DOMAIN store.blocks
                    /\ t \in store.blocks[store.txs[t]].txs
     IN Tell(c, IF found THEN "confirmed" ELSE "unknown")

(* opl_submitSolution hands the block over with a channel for the reply,   *)
(* named by a ticket, and waits.                                           *)
SubmitSolution(c, h) ==
  /\ Used
  /\ Start(c, "wait", [NoWork EXCEPT !.ticket = used'])
  /\ submissions' = Append(submissions, [client |-> c, height |-> h, ticket |-> used'])
  /\ UNCHANGED <<calls, told, accepted>>

(* BLOCK_SUBMISSION_TIMEOUT_SECS are over; the block is processed all the same. *)
Timeout(c) ==
  /\ Holds(c, "wait")
  /\ GoOn(c, "idle", NoWork)
  /\ UNCHANGED <<stateVars, running, clientVars, lost, used>>

Process ==
  /\ submissions # <<>>
  /\ LET s == Head(submissions) IN
     Start("processor", "apply",
           [NoWork EXCEPT !.height = s.height, !.from = s.client, !.ticket = s.ticket])
  /\ submissions' = Tail(submissions)
  /\ UNCHANGED <<calls, told, accepted, used>>

(* A client that no longer waits for this ticket does not get the reply.   *)
(* Mutant: the reply is taken from the height reached.                     *)
ReplyByHeight ==
  /\ Holds("processor", "reply")
  /\ LET w == work["processor"] IN
     IF op[w.from] = "wait" /\ work[w.from].ticket = w.ticket
     THEN /\ accepted' = accepted \cup {[client |-> w.from, height |-> mem.chain]}
          /\ op' = [op EXCEPT !["processor"] = "idle", ![w.from] = "idle"]
          /\ work' = [work EXCEPT !["processor"] = NoWork, ![w.from] = NoWork]
     ELSE /\ op' = [op EXCEPT !["processor"] = "idle"]
          /\ work' = [work EXCEPT !["processor"] = NoWork]
          /\ UNCHANGED accepted
  /\ UNCHANGED <<lockVars, step, stateVars, running, calls, told, submissions, lost, used>>

Reply ==
  /\ Holds("processor", "reply")
  /\ LET w == work["processor"] IN
     IF op[w.from] = "wait" /\ work[w.from].ticket = w.ticket
     THEN /\ accepted' = accepted \cup {[client |-> w.from, height |-> h] : h \in {w.height} \ {0}}
          /\ op' = [op EXCEPT !["processor"] = "idle", ![w.from] = "idle"]
          /\ work' = [work EXCEPT !["processor"] = NoWork, ![w.from] = NoWork]
     ELSE /\ op' = [op EXCEPT !["processor"] = "idle"]
          /\ work' = [work EXCEPT !["processor"] = NoWork]
          /\ UNCHANGED accepted
  /\ UNCHANGED <<lockVars, step, stateVars, running, calls, told, submissions, lost, used>>

---------------------------------------------------------------------------
(* Faults. *)

(* OpolysNode::new: chain state, accounts and refiners are loaded one after *)
(* the other; a value that does not match its checksum stops the node.      *)
(* Mutant: refiners that cannot be loaded are taken for none.               *)
LoadStateLenient(decayed) ==
  IF decayed \subseteq {"refiners"}
  THEN {[chain |-> store.chain_state, accounts |-> store.accounts,
         refiners |-> IF decayed = {} THEN store.refiners ELSE 0]}
  ELSE {}

LoadState(decayed) ==
  IF decayed = {}
  THEN {[chain |-> store.chain_state, accounts |-> store.accounts, refiners |-> store.refiners]}
  ELSE {}

(* The process stops at any point and starts again; some stored values may *)
(* have decayed.  A database without state means the genesis state.        *)
Restart(decayed) ==
  /\ running /\ Used
  /\ store.chain_state = 0 => decayed = {}
  /\ running' = (LoadState(decayed) # {})
  /\ mem' \in IF LoadState(decayed) = {} THEN {mem} ELSE LoadState(decayed)
  /\ pool' = {} /\ info' = store.chain_state
  /\ asked' = [l \in Locks |-> [t \in Tasks |-> "no"]]
  /\ after' = [l \in Locks |-> [t \in Tasks |-> {}]]
  /\ op' = [t \in Tasks |-> "idle"] /\ step' = [t \in Tasks |-> 0]
  /\ work' = [t \in Tasks |-> NoWork]
  /\ calls' = [c \in Clients |-> {}] /\ submissions' = <<>>
  /\ UNCHANGED <<store, told, accepted, lost>>

Init ==
  /\ asked = [l \in Locks |-> [t \in Tasks |-> "no"]]
  /\ after = [l \in Locks |-> [t \in Tasks |-> {}]]
  /\ op = [t \in Tasks |-> "idle"] /\ step = [t \in Tasks |-> 0]
  /\ work = [t \in Tasks |-> NoWork]
  /\ mem = [chain |-> 0, accounts |-> 0, refiners |-> 0]
  /\ pool = {} /\ info = 0
  /\ store = [blocks |-> <<>>, chain_state |-> 0, accounts |-> 0, refiners |-> 0,
              txs |-> [t \in Txs |-> 0]]
  /\ submissions = <<>> /\ running = TRUE
  /\ calls = [c \in Clients |-> {}] /\ told = [c \in Clients |-> "unknown"]
  /\ accepted = {} /\ lost = {}
  /\ used = 0

(* What a task does of its own accord once it has something to do. *)
Work(t) ==
  \/ Acquire(t)
  \/ t \in Producers /\ (Execute(t) \/ Persist(t) \/ Refresh(t))
  \/ ReadNonce(t) \/ ReadFee(t) \/ Insert(t)
  \/ t = "miner" /\ Build
  \/ t = "network" /\ Expire
  \/ t = "processor" /\ (Process \/ Reply)
  \/ t \in Clients /\ (\/ AnswerQuery(t) \/ ReadHeight(t) \/ AnswerScan(t)
                        \/ LookInPool(t) \/ LoadTransaction(t))

Request(c) ==
  \/ \E o \in {"chain_info", "refiners", "mining_job", "history"} : Query(c, o)
  \/ \E t \in Txs : SendTransaction(c, t) \/ GetTransaction(c, t)
  \/ \E h \in Offered : SubmitSolution(c, h)

Next ==
  \/ \E t \in Tasks : Work(t)
  \/ MineBlock
  \/ \E h \in Offered, txs \in SUBSET Txs : ReceiveBlock(h, txs)
  \/ \E t \in Txs : ReceiveTransaction(t)
  \/ EvictTick
  \/ \E c \in Clients : Request(c) \/ Timeout(c)
  \/ \E decayed \in SUBSET {"chain_state", "accounts", "refiners"} : Restart(decayed)

Spec == Init /\ [][Next]_vars

---------------------------------------------------------------------------
(* Properties. *)

(* Seen from the RPC server, the node is one copy of the chain: however    *)
(* the tasks interleave, whichever writes fail and whenever the node stops,*)
(* a client is told a status its transaction had while it waited, and a    *)
(* transaction that was confirmed is never unknown again (it is pending    *)
(* while the pool has it again).  The snapshot follows the chain and goes  *)
(* back only at a restart, to the last block that was saved.               *)
OneCopy == S!Spec

(* Whatever the node crashes into, it runs on chain state, accounts and    *)
(* refiners of one and the same height, or not at all.                     *)
StateWhole ==
  running => /\ mem.chain = mem.accounts /\ mem.chain = mem.refiners
             /\ info <= mem.chain

(* A client that was told "accepted" finds its block in the database at    *)
(* that height for ever, also after a restart, unless the write of a block *)
(* of its own for this height has failed: that is only logged, and the     *)
(* client is told "accepted" all the same.  No other failure and no later  *)
(* block takes it away.                                                    *)
AcceptedIsStored ==
  \A a \in accepted \ lost :
    a.height \in DOMAIN store.blocks /\ store.blocks[a.height].from = a.client

(* A client that is shown a height gets every block up to it, although the *)
(* blocks are read without a lock while others are written, except where a *)
(* write has failed: the snapshot and later blocks then go on past a hole. *)
HistoryComplete ==
  \A c \in Clients : op[c] = "scan" =>
    1 .. work[c].height \subseteq Scanned(c) \cup {b.height : b \in lost}

(* Waiting for a lock. *)
Waits(t) == ~Served(t) \/ \E l \in Peeks(t) : ~Peek(l)

(* The orders in which the handlers, the refreshes of the snapshot and     *)
(* apply_block take their locks never make them wait for each other: as    *)
(* long as a task has something to do, one of them can go on.  A client    *)
(* that waits for the reply to its submission waits for no lock, and the   *)
(* others do not wait for it.                                              *)
NoDeadlock ==
  (\A t \in Tasks : op[t] \in {"idle", "wait"} \/ Waits(t))
    => \A t \in Tasks : op[t] \in {"idle", "wait"}
=============================================================================
