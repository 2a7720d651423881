----------------------------- MODULE NodeProofs -----------------------------
(***************************************************************************)
(* Proofs about Node, for any number of clients, any transactions and any  *)
(* amount of work: the queue discipline of the locks, from which mutual    *)
(* exclusion and the absence of deadlock follow, the agreement of memory,  *)
(* snapshot and database, and that the node implements Service.            *)
(***************************************************************************)
EXTENDS Node, SumTheorems, SequenceTheorems

Modes == {"no", "read", "write"}

Ops == {"idle", "build", "apply", "persist", "refresh", "reply", "nonce", "fee", "insert",
        "expire", "chain_info", "refiners", "mining_job", "history", "scan", "pool_tx",
        "load_tx", "wait"}

LockType ==
  /\ asked \in [Locks -> [Tasks -> Modes]]
  /\ after \in [Locks -> [Tasks -> SUBSET Tasks]]
  /\ op \in [Tasks -> Ops]
  /\ step \in [Tasks -> Nat]
  /\ \A t \in Tasks : step[t] <= Len(Needs(op[t]))

(* A task has asked for the locks its operation has reached, and no others. *)
AskedInOrder ==
  \A t \in Tasks :
    /\ \A k \in 1 .. step[t] : asked[Needs(op[t])[k].lock][t] = Needs(op[t])[k].mode
    /\ \A l \in Locks : asked[l][t] # "no" => \E k \in 1 .. step[t] : Needs(op[t])[k].lock = l

(* Those who asked for a lock stand in line. *)
InLine ==
  \A l \in Locks : \A t \in Tasks :
    /\ \A u \in after[l][t] :
         /\ asked[l][u] # "no" /\ asked[l][t] # "no"
         /\ t # u
         /\ t \notin after[l][u]
         /\ after[l][u] \subseteq after[l][t]
    /\ \A u \in Tasks : t # u /\ asked[l][t] # "no" /\ asked[l][u] # "no"
                          => t \in after[l][u] \/ u \in after[l][t]

(* All locks but the last are granted, and all four of them to a task that *)
(* writes a block.                                                         *)
HeldBefore ==
  \A t \in Tasks :
    /\ \A k \in 1 .. step[t] :
         k < step[t] \/ op[t] = "persist" => Granted(t, Needs(op[t])[k].lock)
    /\ op[t] = "persist" => step[t] = 4

LockInv == LockType /\ AskedInOrder /\ InLine /\ HeldBefore

WorkRecord == [height : Nat, txs : SUBSET Txs, removed : SUBSET Txs,
               from : Tasks \cup {"none"}, ticket : Nat]

Submission == [client : Clients, height : Nat, ticket : Nat]

ClientOps == {"chain_info", "refiners", "mining_job", "history", "scan", "pool_tx",
              "load_tx", "wait"}

Block == [from : Tasks, txs : SUBSET Txs]
Blocks == UNION {[D -> Block] : D \in SUBSET Nat}

IsSaved(h, from) == h \in DOMAIN store.blocks /\ store.blocks[h].from = from

(* The block of `from` at height h is in the database, or its write failed. *)
Settled(h, from) == [client |-> from, height |-> h] \in lost \/ IsSaved(h, from)

LostHeights == {b.height : b \in lost}

(* Up to height n, nothing but failed writes leaves a hole in the blocks. *)
Covered(n) == \A h \in 1 .. n : h \in DOMAIN store.blocks \/ h \in LostHeights

(* What a task t that does o works on: the processor has a client's block, *)
(* and once it is about to answer that the block is accepted, the block is *)
(* in the database or was lost; a scan stays among the heights written or  *)
(* lost; the pool is offered one transaction at a time.                    *)
Fits(t, o, w) ==
  /\ w \in WorkRecord
  /\ o # "persist" => w.removed = {}
  /\ o \in {"apply", "persist"} => t \in Producers /\ w.from \in Tasks
  /\ o \in ClientOps => t \in Clients
  /\ t = "processor" /\ o # "idle" => w.from \in Clients
  /\ t = "processor" /\ o \in {"refresh", "reply"} /\ w.height # 0 =>
       Settled(w.height, w.from)
  /\ o = "scan" => Covered(w.height)
  /\ o \in {"nonce", "fee", "insert"} => \A x, y \in w.txs : x = y

WorkFits ==
  /\ work \in [Tasks -> WorkRecord]
  /\ \A t \in Tasks : Fits(t, op[t], work[t])
  /\ submissions \in Seq(Submission)

StateType ==
  /\ mem \in [chain : Nat, accounts : Nat, refiners : Nat]
  /\ pool \in SUBSET Txs
  /\ info \in Nat /\ used \in Nat
  /\ running \in BOOLEAN
  /\ store \in [blocks : Blocks, chain_state : Nat, accounts : Nat, refiners : Nat,
                txs : [Txs -> Nat]]
  /\ lost \subseteq [client : Tasks, height : Nat]
  /\ calls \in [Clients -> SUBSET [tx : Txs, seen : SUBSET S!Statuses]]
  /\ told \in [Clients -> S!Statuses]

(* The database holds one height, no block beyond it, and its index leads  *)
(* to the blocks.                                                          *)
StoreWhole ==
  /\ store.accounts = store.chain_state /\ store.refiners = store.chain_state
  /\ DOMAIN store.blocks \subseteq 1 .. store.chain_state
  /\ \A x \in Txs : store.txs[x] > 0 => /\ store.txs[x] \in DOMAIN store.blocks
                                        /\ x \in store.blocks[store.txs[x]].txs

(* A block that is being written is the last one in memory, and its        *)
(* transactions have left the pool.  Without it the chain is not behind    *)
(* the database or the snapshot, and every height of it is written or lost.*)
MemoryFollows ==
  /\ running => mem.accounts = mem.chain /\ mem.refiners = mem.chain
  /\ \A t \in Tasks : op[t] = "persist" =>
       /\ running
       /\ work[t].height = mem.chain
       /\ pool \cap work[t].txs = {}
       /\ work[t].removed \subseteq work[t].txs
  /\ store.chain_state <= ChainView
  /\ info <= ChainView
  /\ Covered(ChainView)

(* Whoever was told "accepted" finds the block, unless its write failed. *)
AcceptedStored ==
  /\ accepted \subseteq [client : Clients, height : Nat \ {0}]
  /\ \A a \in accepted : Settled(a.height, a.client)

(* An open opl_getTransaction has seen the present status, and once it is  *)
(* past the pool, the answer the database will give.                       *)
CallsSee ==
  \A c \in Clients :
    /\ calls[c] # {} <=> op[c] \in {"pool_tx", "load_tx"}
    /\ \A q \in calls[c] :
         /\ work[c].txs = {q.tx}
         /\ S!StatusIn(q.tx, PoolView, Confirmed) \in q.seen
         /\ op[c] = "load_tx" =>
              (IF q.tx \in Confirmed THEN "confirmed" ELSE "unknown") \in q.seen

StateInv ==
  /\ WorkFits /\ StateType /\ StoreWhole /\ MemoryFollows
  /\ AcceptedStored /\ CallsSee

IInv == LockInv /\ StateInv

---------------------------------------------------------------------------
(* The locks each operation needs. *)

LEMMA NeedsAt ==
  /\ Len(Needs("apply")) = 4 /\ Len(Needs("persist")) = 4 /\ Len(Needs("build")) = 4
  /\ \A o \in {"apply", "persist"} :
       Needs(o)[1] = Write("chain") /\ Needs(o)[2] = Write("accounts")
       /\ Needs(o)[3] = Write("refiners") /\ Needs(o)[4] = Write("mempool")
  /\ Needs("build")[1] = Read("chain") /\ Needs("build")[2] = Read("accounts")
  /\ Needs("build")[3] = Read("refiners") /\ Needs("build")[4] = Read("mempool")
  /\ Len(Needs("refresh")) = 2
  /\ Needs("refresh")[1] = Read("chain") /\ Needs("refresh")[2] = Write("info")
  /\ \A o \in {"insert", "expire"} : Len(Needs(o)) = 1 /\ Needs(o)[1] = Write("mempool")
  /\ Len(Needs("chain_info")) = 2
  /\ Needs("chain_info")[1] = Read("info") /\ Needs("chain_info")[2] = Read("refiners")
  /\ Len(Needs("refiners")) = 2
  /\ Needs("refiners")[1] = Read("refiners") /\ Needs("refiners")[2] = Read("info")
  /\ Len(Needs("mining_job")) = 3
  /\ Needs("mining_job")[1] = Read("info") /\ Needs("mining_job")[2] = Read("refiners")
  /\ Needs("mining_job")[3] = Read("mempool")
  /\ \A o \in {"idle", "reply", "nonce", "fee", "history", "scan", "pool_tx", "load_tx", "wait"} :
       Len(Needs(o)) = 0
BY DEF Needs, ApplyLocks

(* No operation asks for a lock twice. *)
LEMMA NeedsDistinct ==
  \A o \in Ops :
    /\ Len(Needs(o)) \in 0 .. 4
    /\ \A k \in 1 .. Len(Needs(o)) :
         /\ Needs(o)[k].lock \in Locks /\ Needs(o)[k].mode \in {"read", "write"}
         /\ \A j \in 1 .. Len(Needs(o)) : Needs(o)[j].lock = Needs(o)[k].lock => j = k
<1> SUFFICES ASSUME NEW o \in Ops
             PROVE  /\ Len(Needs(o)) \in 0 .. 4
                    /\ \A k \in 1 .. Len(Needs(o)) :
                         /\ Needs(o)[k].lock \in Locks /\ Needs(o)[k].mode \in {"read", "write"}
                         /\ \A j \in 1 .. Len(Needs(o)) :
                              Needs(o)[j].lock = Needs(o)[k].lock => j = k
  OBVIOUS
<1>1. CASE o \in {"apply", "persist", "build"}
  <2>1. \A k \in 1 .. 4 : k = 1 \/ k = 2 \/ k = 3 \/ k = 4
    OBVIOUS
  <2>2. /\ Len(Needs(o)) = 4 /\ Needs(o)[1].lock = "chain" /\ Needs(o)[2].lock = "accounts"
        /\ Needs(o)[3].lock = "refiners" /\ Needs(o)[4].lock = "mempool"
        /\ \A k \in {1, 2, 3, 4} : Needs(o)[k].mode \in {"read", "write"}
    BY <1>1, NeedsAt DEF Read, Write
  <2> QED  BY <2>1, <2>2 DEF Locks
<1>2. CASE o \in {"refresh", "chain_info", "refiners", "insert", "expire", "mining_job"}
  <2>1. /\ \A k \in 1 .. 3 : k = 1 \/ k = 2 \/ k = 3
        /\ \A k \in 1 .. 2 : k = 1 \/ k = 2
        /\ \A k \in 1 .. 1 : k = 1
    OBVIOUS
  <2> QED  BY <1>2, <2>1, NeedsAt DEF Locks, Read, Write
<1>3. CASE Len(Needs(o)) = 0
  BY <1>3
<1> QED  BY <1>1, <1>2, <1>3, NeedsAt DEF Ops

(* A writer that is granted a lock is alone with it. *)
LEMMA Exclusion ==
  ASSUME LockInv, NEW l \in Locks, NEW t \in Tasks, NEW u \in Tasks, t # u,
         Granted(t, l), asked[l][t] = "write"
  PROVE  ~Granted(u, l)
BY DEF LockInv, InLine, Granted, LockType

---------------------------------------------------------------------------
(* The steps of a task as the locks see them. *)

(* The task asks for its next lock. *)
LEMMA AcquireKeeps ==
  ASSUME LockInv, NEW t \in Tasks, Acquire(t)
  PROVE  LockInv'
<1> DEFINE k == step[t] + 1
           l == Needs(op[t])[k].lock
           m == Needs(op[t])[k].mode
<1>1. /\ k \in 1 .. Len(Needs(op[t])) /\ k \in Nat /\ Served(t)
      /\ asked' = [asked EXCEPT ![l][t] = m]
      /\ after' = [after EXCEPT ![l][t] = {u \in Tasks : asked[l][u] # "no"}]
      /\ step' = [step EXCEPT ![t] = k] /\ op' = op
  BY NeedsDistinct DEF Acquire, LockInv, LockType
<1>2. /\ op[t] \in Ops /\ l \in Locks /\ m \in {"read", "write"} /\ step[t] \in Nat
      /\ \A j \in 1 .. step[t] : j \in 1 .. Len(Needs(op[t])) /\ Needs(op[t])[j].lock # l
  BY <1>1, NeedsDistinct DEF LockInv, LockType
<1>3. asked[l][t] = "no"
  BY <1>2 DEF LockInv, AskedInOrder
<1> HIDE DEF k, l, m
<1>4. /\ \A x \in Locks : \A u \in Tasks : x # l \/ u # t =>
           asked'[x][u] = asked[x][u] /\ after'[x][u] = after[x][u]
      /\ asked'[l][t] = m /\ after'[l][t] = {v \in Tasks : asked[l][v] # "no"}
      /\ \A u \in Tasks : u # t => step'[u] = step[u]
      /\ step'[t] = k
  BY <1>1, <1>2 DEF LockInv, LockType
<1>5. \A u \in Tasks : t \notin after[l][u]
  BY <1>2, <1>3 DEF LockInv, InLine
<1>6. ASSUME NEW x \in Locks, NEW u \in Tasks, x # l \/ u # t
      PROVE  Granted(u, x)' <=> Granted(u, x)
  <2>1. asked'[x][u] = asked[x][u] /\ after'[x][u] = after[x][u]
    BY <1>4, <1>6
  <2>2. \A v \in after[x][u] : asked'[x][v] = asked[x][v]
    BY <1>4, <1>5 DEF LockInv, LockType
  <2> QED  BY <2>1, <2>2 DEF Granted
<1>7. LockType'
  <2>1. asked' \in [Locks -> [Tasks -> Modes]]
    BY <1>1, <1>2 DEF LockInv, LockType, Modes
  <2>2. after' \in [Locks -> [Tasks -> SUBSET Tasks]]
    BY <1>1, <1>2 DEF LockInv, LockType
  <2> QED  BY <1>1, <1>4, <2>1, <2>2 DEF LockInv, LockType
<1>8. AskedInOrder'
  <2> SUFFICES ASSUME NEW u \in Tasks
               PROVE  /\ \A j \in 1 .. step'[u] :
                           asked'[Needs(op[u])[j].lock][u] = Needs(op[u])[j].mode
                      /\ \A x \in Locks : asked'[x][u] # "no" =>
                           \E j \in 1 .. step'[u] : Needs(op[u])[j].lock = x
    BY <1>1 DEF AskedInOrder
  <2>1. CASE u # t
    <3>1. \A j \in 1 .. step[u] : Needs(op[u])[j].lock \in Locks
      BY NeedsDistinct DEF LockInv, LockType
    <3> QED  BY <2>1, <3>1, <1>4 DEF LockInv, AskedInOrder
  <2>2. CASE u = t
    <3>1. \A j \in 1 .. k : j = k \/ j \in 1 .. step[t]
      BY <1>1, <1>2 DEF k
    <3>2. \A j \in 1 .. step[t] : Needs(op[t])[j].lock \in Locks /\ j \in 1 .. k
      BY <1>1, <1>2, NeedsDistinct DEF k
    <3>3. k \in 1 .. k /\ Needs(op[t])[k].lock = l /\ Needs(op[t])[k].mode = m
      BY <1>1 DEF l, m
    <3> QED  BY <2>2, <3>1, <3>2, <3>3, <1>2, <1>4 DEF LockInv, AskedInOrder
  <2> QED  BY <2>1, <2>2
<1>9. InLine'
  <2> SUFFICES ASSUME NEW x \in Locks, NEW u \in Tasks
               PROVE  /\ \A v \in after'[x][u] :
                           /\ asked'[x][v] # "no" /\ asked'[x][u] # "no"
                           /\ u # v
                           /\ u \notin after'[x][v]
                           /\ after'[x][v] \subseteq after'[x][u]
                      /\ \A v \in Tasks :
                           u # v /\ asked'[x][u] # "no" /\ asked'[x][v] # "no"
                             => u \in after'[x][v] \/ v \in after'[x][u]
    BY DEF InLine
  <2>0. \A v \in after[x][u] : v \in Tasks
    BY DEF LockInv, LockType
  <2>l. /\ \A v \in after[x][u] :
             /\ asked[x][v] # "no" /\ asked[x][u] # "no"
             /\ u # v
             /\ u \notin after[x][v]
             /\ after[x][v] \subseteq after[x][u]
        /\ \A v \in Tasks : u # v /\ asked[x][u] # "no" /\ asked[x][v] # "no"
                              => u \in after[x][v] \/ v \in after[x][u]
    BY DEF LockInv, InLine
  <2>1. CASE x # l
    <3>1. \A v \in Tasks : asked'[x][v] = asked[x][v] /\ after'[x][v] = after[x][v]
      BY <2>1, <1>4
    <3> QED  BY <2>0, <2>l, <3>1
  <2>2. CASE x = l /\ u # t
    <3>1. after'[x][u] = after[x][u] /\ asked'[x][u] = asked[x][u]
      BY <2>2, <1>4
    <3>2. \A v \in Tasks : v # t => asked'[x][v] = asked[x][v] /\ after'[x][v] = after[x][v]
      BY <1>4
    <3>3. \A v \in after'[x][u] : v # t /\ v \in Tasks
      BY <2>0, <2>2, <3>1, <1>5
    <3>4. asked'[x][u] # "no" => u \in after'[x][t]
      BY <2>2, <3>1, <1>4
    <3> QED  BY <2>l, <2>2, <3>1, <3>2, <3>3, <3>4
  <2>3. CASE x = l /\ u = t
    <3>1. after'[x][u] = {v \in Tasks : asked[l][v] # "no"}
      BY <2>3, <1>4
    <3>2. \A v \in Tasks : \A w \in after[l][v] : w \in Tasks /\ asked[l][w] # "no"
      BY <1>2 DEF LockInv, InLine, LockType
    <3>3. \A v \in Tasks : v # t => asked'[l][v] = asked[l][v] /\ after'[l][v] = after[l][v]
      BY <1>2, <1>4
    <3>4. \A v \in after'[x][u] : v # t /\ v \in Tasks /\ asked[l][v] # "no"
      BY <3>1, <1>3
    <3>5. \A v \in after'[x][u] : after'[x][v] \subseteq after'[x][u]
      BY <2>3, <3>1, <3>2, <3>3, <3>4
    <3>6. asked'[x][u] # "no"
      BY <2>3, <1>2, <1>4
    <3> QED  BY <2>3, <3>1, <3>3, <3>4, <3>5, <3>6, <1>5
  <2> QED  BY <2>1, <2>2, <2>3
<1>10. HeldBefore'
  <2> SUFFICES ASSUME NEW u \in Tasks
               PROVE  /\ \A j \in 1 .. step'[u] : \A x \in Locks :
                           (j < step'[u] \/ op[u] = "persist") /\ x = Needs(op[u])[j].lock
                             => Granted(u, x)'
                      /\ op[u] = "persist" => step'[u] = 4
    <3>1. \A u \in Tasks : \A j \in 1 .. step'[u] : Needs(op'[u])[j].lock \in Locks
      BY <1>7, NeedsDistinct DEF LockType
    <3> QED  BY <1>1, <3>1 DEF HeldBefore
  <2>1. CASE u # t
    <3>1. \A j \in 1 .. step[u] : Needs(op[u])[j].lock \in Locks
      BY NeedsDistinct DEF LockInv, LockType
    <3> QED  BY <2>1, <3>1, <1>4, <1>6 DEF LockInv, HeldBefore
  <2>2. CASE u = t
    <3>1. op[t] # "persist"
      <4>1. step[t] < Len(Needs(op[t]))
        BY <1>1, <1>2, NeedsDistinct DEF k
      <4>2. op[t] = "persist" => step[t] = 4 /\ Len(Needs(op[t])) = 4
        BY NeedsAt DEF LockInv, HeldBefore
      <4> QED  BY <4>1, <4>2
    <3>2. \A j \in 1 .. k : j < k => j \in 1 .. step[t]
      BY <1>1, <1>2 DEF k
    <3>3. \A j \in 1 .. step[t] : Granted(t, Needs(op[t])[j].lock)
      BY <1>1, <1>2 DEF LockInv, HeldBefore, Served
    <3>4. \A j \in 1 .. step[t] : Needs(op[t])[j].lock \in Locks /\ Needs(op[t])[j].lock # l
      BY <1>2, NeedsDistinct
    <3> QED  BY <2>2, <3>1, <3>2, <3>3, <3>4, <1>4, <1>6
  <2> QED  BY <2>1, <2>2
<1> QED  BY <1>7, <1>8, <1>9, <1>10 DEF LockInv

(* The task gives up what it holds. *)
LEMMA ReleaseKeeps ==
  ASSUME LockInv, NEW t \in Tasks, NEW o \in Ops \ {"persist"}, NEW w, GoOn(t, o, w)
  PROVE  LockInv'
<1>1. /\ \A x \in Locks : \A u \in Tasks : u # t =>
           asked'[x][u] = asked[x][u] /\ after'[x][u] = after[x][u] \ {t}
      /\ \A x \in Locks : asked'[x][t] = "no" /\ after'[x][t] = {}
      /\ \A u \in Tasks : u # t => step'[u] = step[u] /\ op'[u] = op[u]
      /\ step'[t] = 0 /\ op'[t] = o
  BY DEF LockInv, LockType, GoOn
<1>2. ASSUME NEW x \in Locks, NEW u \in Tasks, u # t, Granted(u, x)
      PROVE  Granted(u, x)'
  <2>1. asked'[x][u] = asked[x][u] /\ after'[x][u] = after[x][u] \ {t}
    BY <1>1, <1>2
  <2>2. \A v \in after'[x][u] : asked'[x][v] = asked[x][v]
    BY <1>1, <2>1 DEF LockInv, LockType
  <2> QED  BY <2>1, <2>2, <1>2 DEF Granted
<1>3. LockType'
  <2>1. asked' \in [Locks -> [Tasks -> Modes]]
    BY DEF LockInv, LockType, Modes, GoOn
  <2>2. after' \in [Locks -> [Tasks -> SUBSET Tasks]]
    BY DEF LockInv, LockType, GoOn
  <2>3. op' \in [Tasks -> Ops] /\ step' \in [Tasks -> Nat]
    BY DEF LockInv, LockType, GoOn
  <2>4. \A u \in Tasks : step'[u] <= Len(Needs(op'[u]))
    <3>1. Len(Needs(o)) \in Nat
      BY NeedsDistinct
    <3> QED  BY <1>1, <3>1 DEF LockInv, LockType
  <2> QED  BY <2>1, <2>2, <2>3, <2>4 DEF LockType
<1>4. AskedInOrder'
  <2>1. \A u \in Tasks : \A j \in 1 .. step[u] : Needs(op[u])[j].lock \in Locks
    BY NeedsDistinct DEF LockInv, LockType
  <2> SUFFICES ASSUME NEW u \in Tasks
               PROVE  /\ \A j \in 1 .. step'[u] :
                           asked'[Needs(op'[u])[j].lock][u] = Needs(op'[u])[j].mode
                      /\ \A x \in Locks : asked'[x][u] # "no" =>
                           \E j \in 1 .. step'[u] : Needs(op'[u])[j].lock = x
    BY DEF AskedInOrder
  <2>2. CASE u = t
    BY <1>1, <2>2
  <2>3. CASE u # t
    <3>1. step'[u] = step[u] /\ op'[u] = op[u] /\ \A x \in Locks : asked'[x][u] = asked[x][u]
      BY <1>1, <2>3
    <3> QED  BY <2>1, <3>1 DEF LockInv, AskedInOrder
  <2> QED  BY <2>2, <2>3
<1>5. InLine'
  <2> SUFFICES ASSUME NEW x \in Locks, NEW u \in Tasks
               PROVE  /\ \A v \in after'[x][u] :
                           /\ asked'[x][v] # "no" /\ asked'[x][u] # "no"
                           /\ u # v
                           /\ u \notin after'[x][v]
                           /\ after'[x][v] \subseteq after'[x][u]
                      /\ \A v \in Tasks :
                           u # v /\ asked'[x][u] # "no" /\ asked'[x][v] # "no"
                             => u \in after'[x][v] \/ v \in after'[x][u]
    BY DEF InLine
  <2>1. CASE u = t
    BY <1>1, <2>1
  <2>2. CASE u # t
    <3>1. asked'[x][u] = asked[x][u] /\ after'[x][u] = after[x][u] \ {t}
      BY <1>1, <2>2
    <3>2. \A v \in Tasks : v # t => asked'[x][v] = asked[x][v] /\ after'[x][v] = after[x][v] \ {t}
      BY <1>1
    <3>3. asked'[x][t] = "no"
      BY <1>1
    <3>4. \A v \in after[x][u] : v \in Tasks
      BY DEF LockInv, LockType
    <3>5. /\ \A v \in after[x][u] :
               /\ asked[x][v] # "no" /\ asked[x][u] # "no"
               /\ u # v
               /\ u \notin after[x][v]
               /\ after[x][v] \subseteq after[x][u]
          /\ \A v \in Tasks : u # v /\ asked[x][u] # "no" /\ asked[x][v] # "no"
                                => u \in after[x][v] \/ v \in after[x][u]
      BY DEF LockInv, InLine
    <3> QED  BY <2>2, <3>1, <3>2, <3>3, <3>4, <3>5
  <2> QED  BY <2>1, <2>2
<1>6. HeldBefore'
  <2>1. \A u \in Tasks : \A j \in 1 .. step[u] : Needs(op[u])[j].lock \in Locks
    BY NeedsDistinct DEF LockInv, LockType
  <2> QED  BY <1>1, <1>2, <2>1 DEF LockInv, HeldBefore
<1> QED  BY <1>3, <1>4, <1>5, <1>6 DEF LockInv

(* Tasks that hold nothing turn to something else. *)
Turn ==
  /\ UNCHANGED <<lockVars, step>>
  /\ op' \in [Tasks -> Ops]
  /\ \A u \in Tasks : op'[u] # op[u] => step[u] = 0 /\ op'[u] # "persist"

LEMMA TurnKeeps ==
  ASSUME LockInv, Turn
  PROVE  LockInv'
<1>1. asked' = asked /\ after' = after /\ step' = step
  BY DEF Turn, lockVars
<1>2. \A x \in Locks, u \in Tasks : Granted(u, x)' <=> Granted(u, x)
  BY <1>1 DEF Granted
<1>3. LockType'
  <2>1. \A u \in Tasks : step[u] <= Len(Needs(op'[u]))
    <3> SUFFICES ASSUME NEW u \in Tasks PROVE step[u] <= Len(Needs(op'[u]))
      OBVIOUS
    <3>1. CASE op'[u] = op[u]
      BY <3>1 DEF LockInv, LockType
    <3>2. CASE op'[u] # op[u]
      <4>1. op'[u] \in Ops /\ step[u] = 0
        BY <3>2 DEF Turn
      <4> QED  BY <4>1, NeedsDistinct
    <3> QED  BY <3>1, <3>2
  <2> QED  BY <1>1, <2>1 DEF LockInv, LockType, Turn
<1>4. AskedInOrder'
  BY <1>1 DEF LockInv, AskedInOrder, Turn
<1>5. InLine'
  BY <1>1 DEF LockInv, InLine
<1>6. HeldBefore'
  <2>1. \A u \in Tasks : \A j \in 1 .. step[u] : Needs(op[u])[j].lock \in Locks
    BY NeedsDistinct DEF LockInv, LockType
  <2> QED  BY <1>1, <1>2, <2>1 DEF LockInv, HeldBefore, Turn
<1> QED  BY <1>3, <1>4, <1>5, <1>6 DEF LockInv

(* apply_block keeps its locks while it writes the block. *)
LEMMA ToPersistKeeps ==
  ASSUME LockInv, NEW t \in Tasks, Holds(t, "apply"), UNCHANGED <<lockVars, step>>,
         op' = [op EXCEPT ![t] = "persist"]
  PROVE  LockInv'
<1>1. asked' = asked /\ after' = after /\ step' = step /\ step[t] = 4 /\ op[t] = "apply"
  BY NeedsAt DEF lockVars, Holds
<1>2. \A x \in Locks, u \in Tasks : Granted(u, x)' <=> Granted(u, x)
  BY <1>1 DEF Granted
<1>3. Needs("persist") = Needs("apply")
  BY DEF Needs
<1>4. \A u \in Tasks : op'[u] = IF u = t THEN "persist" ELSE op[u]
  BY DEF LockInv, LockType
<1>5. \A u \in Tasks : Needs(op'[u]) = Needs(op[u])
  BY <1>1, <1>3, <1>4
<1>6. LockType'
  <2>1. op' \in [Tasks -> Ops]
    BY DEF LockInv, LockType, Ops
  <2> QED  BY <1>1, <1>5, <2>1 DEF LockInv, LockType
<1>7. AskedInOrder'
  BY <1>1, <1>5 DEF LockInv, AskedInOrder
<1>8. InLine'
  BY <1>1 DEF LockInv, InLine
<1>9. HeldBefore'
  <2> SUFFICES ASSUME NEW u \in Tasks
               PROVE  /\ \A j \in 1 .. step[u] : \A x \in Locks :
                           (j < step[u] \/ op'[u] = "persist") /\ x = Needs(op[u])[j].lock
                             => Granted(u, x)'
                      /\ op'[u] = "persist" => step[u] = 4
    <3>1. \A u \in Tasks : \A j \in 1 .. step'[u] : Needs(op'[u])[j].lock \in Locks
      BY <1>6, NeedsDistinct DEF LockType
    <3> QED  BY <1>1, <1>5, <3>1 DEF HeldBefore
  <2>1. \A j \in 1 .. step[u] : Needs(op[u])[j].lock \in Locks
    BY NeedsDistinct DEF LockInv, LockType
  <2>2. CASE u # t
    BY <2>1, <2>2, <1>2, <1>4 DEF LockInv, HeldBefore
  <2>3. CASE u = t
    <3>1. \A j \in 1 .. 4 : j < 4 \/ j = 4
      OBVIOUS
    <3>2. Granted(t, Needs("apply")[4].lock)
      BY <1>1 DEF Holds, Served
    <3>3. \A j \in 1 .. 4 : Granted(t, Needs("apply")[j].lock)
      BY <3>1, <3>2, <1>1 DEF LockInv, HeldBefore
    <3> QED  BY <2>1, <2>3, <3>3, <1>1, <1>2
  <2> QED  BY <2>2, <2>3
<1> QED  BY <1>6, <1>7, <1>8, <1>9 DEF LockInv

(* All tasks start with nothing. *)
Fresh ==
  /\ asked = [l \in Locks |-> [t \in Tasks |-> "no"]]
  /\ after = [l \in Locks |-> [t \in Tasks |-> {}]]
  /\ op = [t \in Tasks |-> "idle"] /\ step = [t \in Tasks |-> 0]

LEMMA FreshLocks == Fresh => LockInv
<1> Len(Needs("idle")) = 0 /\ "idle" \in Ops
  BY NeedsAt DEF Ops
<1> QED
  BY DEF Fresh, LockInv, LockType, AskedInOrder, InLine, HeldBefore, Modes

---------------------------------------------------------------------------
(* The steps of a task as the state sees them. *)

LEMMA PoolViewSame ==
  ASSUME pool' = pool, \A u \in Tasks : work'[u].removed = work[u].removed
  PROVE  PoolView' = PoolView
BY DEF PoolView

LEMMA ChainViewSame ==
  ASSUME mem' = mem, store' = store, running' = running,
         \A u \in Tasks : op[u] = "persist" <=> op'[u] = "persist"
  PROVE  ChainView' = ChainView
BY DEF ChainView, Persisting

(* Who is to be found in the database stays there. *)
LEMMA SettledStays ==
  ASSUME store' = store, lost' = lost
  PROVE  /\ \A h, f : Settled(h, f)' <=> Settled(h, f)
         /\ \A n : Covered(n)' <=> Covered(n)
         /\ \A t, o, w : Fits(t, o, w)' <=> Fits(t, o, w)
BY DEF Settled, IsSaved, Covered, LostHeights, Fits

(* The height of the chain as the database and the clients know it. *)
LEMMA ChainViewType ==
  ASSUME IInv
  PROVE  /\ ChainView \in Nat /\ mem.chain \in Nat
         /\ running /\ ~Persisting => ChainView = mem.chain
         /\ running /\ Persisting => ChainView = mem.chain - 1
<1>1. mem.chain \in Nat /\ store.chain_state \in Nat /\ store.chain_state <= ChainView
  BY DEF IInv, StateInv, StateType, MemoryFollows
<1> QED  BY <1>1 DEF ChainView

(* A task turns to something else and changes nothing but its own work and *)
(* perhaps the snapshot.                                                   *)
Quiet(t, o, w) ==
  /\ op' = [op EXCEPT ![t] = o] /\ work' = [work EXCEPT ![t] = w]
  /\ UNCHANGED <<mem, pool, store, running, calls, told, accepted, lost>>
  /\ info' \in Nat /\ info' <= ChainView
  /\ used' \in Nat /\ submissions' \in Seq(Submission)
  /\ op[t] \notin {"persist", "pool_tx", "load_tx"}
  /\ o \in Ops \ {"persist", "pool_tx", "load_tx"}
  /\ Fits(t, o, w)

LEMMA QuietKeeps ==
  ASSUME IInv, NEW t \in Tasks, NEW o, NEW w, Quiet(t, o, w)
  PROVE  StateInv'
<1>1. /\ mem' = mem /\ pool' = pool /\ store' = store /\ running' = running
      /\ info' \in Nat /\ info' <= ChainView
      /\ calls' = calls /\ told' = told /\ accepted' = accepted /\ lost' = lost
      /\ used' \in Nat /\ submissions' \in Seq(Submission)
      /\ op[t] \notin {"persist", "pool_tx", "load_tx"}
      /\ o \notin {"persist", "pool_tx", "load_tx"}
  BY DEF Quiet
<1>2. /\ op'[t] = o /\ work'[t] = w
      /\ \A u \in Tasks : u # t => op'[u] = op[u] /\ work'[u] = work[u]
  BY DEF Quiet, IInv, LockInv, LockType, StateInv, WorkFits
<1>3. /\ w \in WorkRecord /\ w.removed = {} /\ work[t].removed = {} /\ Fits(t, o, w)
  BY <1>1 DEF Quiet, Fits, IInv, StateInv, WorkFits
<1>4. PoolView' = PoolView /\ Confirmed' = Confirmed
  BY <1>1, <1>2, <1>3, PoolViewSame DEF Confirmed
<1>5. WorkFits'
  <2>1. \A u \in Tasks : Fits(u, op[u], work[u])'
    <3> SUFFICES ASSUME NEW u \in Tasks PROVE Fits(u, op[u], work[u])'
      OBVIOUS
    <3>1. CASE u = t
      BY <3>1, <1>1, <1>2, <1>3, SettledStays
    <3>2. CASE u # t
      BY <3>2, <1>1, <1>2, SettledStays DEF IInv, StateInv, WorkFits
    <3> QED  BY <3>1, <3>2
  <2>2. work' \in [Tasks -> WorkRecord]
    BY <1>3 DEF Quiet, IInv, StateInv, WorkFits
  <2> QED  BY <1>1, <2>1, <2>2 DEF WorkFits
<1>6. StateType' /\ StoreWhole'
  BY <1>1 DEF IInv, StateInv, StateType, StoreWhole
<1>a. AcceptedStored'
  BY <1>1, SettledStays DEF IInv, StateInv, AcceptedStored
<1>7. MemoryFollows'
  <2>1. \A u \in Tasks : op[u] = "persist" <=> op'[u] = "persist"
    BY <1>1, <1>2
  <2>2. ChainView' = ChainView
    BY <1>1, <2>1, ChainViewSame
  <2>3. Covered(ChainView)'
    BY <1>1, <2>2, SettledStays DEF IInv, StateInv, MemoryFollows
  <2> QED  BY <1>1, <1>2, <2>1, <2>2, <2>3 DEF IInv, StateInv, MemoryFollows
<1>8. CallsSee'
  <2>1. \A c \in Clients : c \in Tasks
    BY DEF Tasks
  <2> QED  BY <1>1, <1>2, <1>4, <2>1 DEF IInv, StateInv, CallsSee
<1> QED  BY <1>5, <1>6, <1>a, <1>7, <1>8 DEF StateInv

LEMMA QuietRelease ==
  ASSUME IInv, NEW t \in Tasks, NEW o \in Ops \ {"persist", "pool_tx", "load_tx"}, NEW w,
         GoOn(t, o, w), UNCHANGED <<stateVars, running, clientVars, lost, used>>,
         op[t] \notin {"persist", "pool_tx", "load_tx"}, Fits(t, o, w)
  PROVE  IInv'
<1>1. LockInv'
  BY ReleaseKeeps DEF IInv
<1>2. Quiet(t, o, w)
  BY DEF Quiet, GoOn, stateVars, clientVars, IInv, StateInv, StateType, WorkFits, MemoryFollows
<1> QED  BY <1>1, <1>2, QuietKeeps DEF IInv

LEMMA StartTurns ==
  ASSUME LockInv, NEW t \in Tasks, NEW o \in Ops \ {"persist"}, NEW w, Start(t, o, w)
  PROVE  LockInv'
<1>1. op[t] = "idle" /\ op' = [op EXCEPT ![t] = o] /\ UNCHANGED <<lockVars, step>>
  BY DEF Start
<1>2. step[t] = 0
  BY <1>1, NeedsAt DEF LockInv, LockType
<1>3. Turn
  BY <1>1, <1>2 DEF Turn, LockInv, LockType
<1> QED  BY <1>3, TurnKeeps

LEMMA QuietStart ==
  ASSUME IInv, NEW t \in Tasks, NEW o \in Ops \ {"persist", "pool_tx", "load_tx"}, NEW w,
         Start(t, o, w), UNCHANGED <<calls, told, accepted>>,
         used' \in Nat, submissions' \in Seq(Submission), Fits(t, o, w)
  PROVE  IInv'
<1>1. LockInv'
  BY StartTurns DEF IInv
<1>2. Quiet(t, o, w)
  BY DEF Quiet, Start, stateVars, IInv, StateInv, StateType, MemoryFollows
<1> QED  BY <1>1, <1>2, QuietKeeps DEF IInv

(* A task may always turn to something for which it needs no more than it has. *)
LEMMA NoWorkFits ==
  /\ NoWork \in WorkRecord
  /\ NoWork.removed = {} /\ NoWork.height = 0 /\ NoWork.ticket = 0
  /\ \A t \in Tasks : Fits(t, "idle", NoWork)
BY DEF NoWork, WorkRecord, Fits, ClientOps

---------------------------------------------------------------------------
(* Each action keeps the invariant. *)

LEMMA AcquireStep ==
  ASSUME IInv, NEW t \in Tasks, Acquire(t)
  PROVE  IInv'
<1>1. LockInv'
  BY AcquireKeeps DEF IInv
<1>2. /\ op' = op /\ work' = work /\ mem' = mem /\ pool' = pool /\ info' = info /\ store' = store
      /\ running' = running /\ calls' = calls /\ told' = told /\ accepted' = accepted
      /\ submissions' = submissions /\ used' = used /\ lost' = lost
  BY DEF Acquire, stateVars, clientVars
<1>3. PoolView' = PoolView /\ Confirmed' = Confirmed /\ ChainView' = ChainView
  BY <1>2 DEF PoolView, Confirmed, ChainView, Persisting
<1>4. WorkFits'
  BY <1>2, SettledStays DEF IInv, StateInv, WorkFits
<1>5. StateType' /\ StoreWhole' /\ AcceptedStored' /\ MemoryFollows'
  BY <1>2, <1>3, SettledStays
     DEF IInv, StateInv, StateType, StoreWhole, AcceptedStored, MemoryFollows
<1>6. CallsSee'
  BY <1>2, <1>3 DEF IInv, StateInv, CallsSee
<1> QED  BY <1>1, <1>4, <1>5, <1>6 DEF IInv, StateInv

(* Mining, refining and the messages of peers up to the locks. *)
LEMMA BuildStep ==
  ASSUME IInv, Build
  PROVE  IInv'
<1>1. op["miner"] = "build" /\ UNCHANGED <<stateVars, running, clientVars, lost, used>>
  BY DEF Build, Holds
<1>2. "miner" \in Tasks /\ "miner" \in Producers /\ "miner" \notin Clients
  BY NodeAssumption DEF Tasks, Producers
<1>3. CASE GoOn("miner", "idle", NoWork)
  BY <1>1, <1>2, <1>3, NoWorkFits, QuietRelease DEF Ops
<1>4. CASE \E txs \in {pool, {}} :
             GoOn("miner", "apply", [NoWork EXCEPT !.height = mem.chain + 1, !.txs = txs,
                                                   !.from = "miner"])
  <2>1. PICK txs \in {pool, {}} :
             GoOn("miner", "apply", [NoWork EXCEPT !.height = mem.chain + 1, !.txs = txs,
                                                   !.from = "miner"])
    BY <1>4
  <2>2. txs \in SUBSET Txs /\ mem.chain + 1 \in Nat
    BY DEF IInv, StateInv, StateType
  <2> DEFINE w == [NoWork EXCEPT !.height = mem.chain + 1, !.txs = txs, !.from = "miner"]
  <2>3. w \in WorkRecord /\ w.removed = {} /\ w.from = "miner"
    BY <2>2, <1>2 DEF NoWork, WorkRecord
  <2>4. Fits("miner", "apply", w)
    BY <2>3, <1>2 DEF Fits, ClientOps
  <2>5. "apply" \in Ops \ {"persist", "pool_tx", "load_tx"}
    BY DEF Ops
  <2> QED  BY <2>1, <2>4, <2>5, <1>1, <1>2, QuietRelease
<1> QED  BY <1>3, <1>4 DEF Build

LEMMA StartStep ==
  ASSUME IInv,
         \/ MineBlock \/ EvictTick
         \/ \E h \in Offered, txs \in SUBSET Txs : ReceiveBlock(h, txs)
         \/ \E x \in Txs : ReceiveTransaction(x)
  PROVE  IInv'
<1>1. /\ "miner" \in Tasks /\ "miner" \notin Clients
      /\ "network" \in Tasks /\ "network" \in Producers /\ "network" \notin Clients
  BY NodeAssumption DEF Tasks, Producers
<1>s. Used /\ UNCHANGED clientVars
  BY DEF MineBlock, EvictTick, ReceiveBlock, ReceiveTransaction
<1>2. used' \in Nat /\ UNCHANGED clientVars
  BY <1>s DEF Used, IInv, StateInv, StateType
<1>3. calls' = calls /\ told' = told /\ accepted' = accepted /\ submissions' \in Seq(Submission)
  BY <1>2 DEF clientVars, IInv, StateInv, WorkFits
<1>4. CASE MineBlock
  <2>1. Fits("miner", "build", NoWork)
    BY <1>1, NoWorkFits DEF Fits, ClientOps
  <2> QED  BY <1>1, <1>2, <1>3, <1>4, <2>1, QuietStart DEF MineBlock, Ops
<1>5. CASE EvictTick
  <2>1. Fits("network", "expire", NoWork)
    BY <1>1, NoWorkFits DEF Fits, ClientOps
  <2> QED  BY <1>1, <1>2, <1>3, <1>5, <2>1, QuietStart DEF EvictTick, Ops
<1>6. ASSUME NEW h \in Offered, NEW txs \in SUBSET Txs, ReceiveBlock(h, txs) PROVE IInv'
  <2>1. h \in Nat
    BY DEF Offered, IInv, StateInv, StateType
  <2> DEFINE w == [NoWork EXCEPT !.height = h, !.txs = txs, !.from = "network"]
  <2>2. w \in WorkRecord /\ w.removed = {} /\ w.from = "network"
    BY <2>1, <1>1 DEF NoWork, WorkRecord
  <2>3. Fits("network", "apply", w)
    BY <2>2, <1>1 DEF Fits, ClientOps
  <2>4. "apply" \in Ops \ {"persist", "pool_tx", "load_tx"}
    BY DEF Ops
  <2>5. Start("network", "apply", w)
    BY <1>6 DEF ReceiveBlock
  <2> HIDE DEF w
  <2> QED  BY <1>1, <1>2, <1>3, <2>3, <2>4, <2>5, QuietStart
<1>7. ASSUME NEW x \in Txs, ReceiveTransaction(x) PROVE IInv'
  <2> DEFINE w == [NoWork EXCEPT !.txs = {x}]
  <2>2. w \in WorkRecord /\ w.removed = {} /\ w.txs = {x}
    BY <1>1 DEF NoWork, WorkRecord
  <2>3. Fits("network", "nonce", w)
    BY <2>2, <1>1 DEF Fits, ClientOps
  <2>4. "nonce" \in Ops \ {"persist", "pool_tx", "load_tx"}
    BY DEF Ops
  <2>5. Start("network", "nonce", w)
    BY <1>7 DEF ReceiveTransaction
  <2> HIDE DEF w
  <2> QED  BY <1>1, <1>2, <1>3, <2>3, <2>4, <2>5, QuietStart
<1> QED  BY <1>4, <1>5, <1>6, <1>7

(* The requests of clients up to the locks. *)
LEMMA ClientFacts ==
  \A c \in Clients : c \in Tasks /\ c \notin Producers /\ c # "processor"
BY NodeAssumption DEF Tasks, Producers

LEMMA QueryStep ==
  ASSUME IInv, NEW c \in Clients,
         \/ \E o \in {"chain_info", "refiners", "mining_job", "history"} : Query(c, o)
         \/ \E x \in Txs : SendTransaction(c, x)
         \/ \E h \in Offered : SubmitSolution(c, h)
  PROVE  IInv'
<1>1. c \in Tasks /\ c # "processor" /\ c \notin Producers
  BY ClientFacts
<1>s. Used /\ calls' = calls /\ told' = told /\ accepted' = accepted
  BY DEF Query, SendTransaction, SubmitSolution, clientVars
<1>2. used' \in Nat
  BY <1>s DEF Used, IInv, StateInv, StateType
<1>3. ASSUME NEW o \in {"chain_info", "refiners", "mining_job", "history"}, Query(c, o)
      PROVE  IInv'
  <2>1. Fits(c, o, NoWork)
    BY <1>1, NoWorkFits DEF Fits, ClientOps
  <2>2. submissions' \in Seq(Submission)
    BY <1>3 DEF Query, clientVars, IInv, StateInv, WorkFits
  <2>3. o \in Ops \ {"persist", "pool_tx", "load_tx"} /\ Start(c, o, NoWork)
    BY <1>3 DEF Ops, Query
  <2> QED  BY <1>1, <1>s, <1>2, <2>1, <2>2, <2>3, QuietStart
<1>4. ASSUME NEW x \in Txs, SendTransaction(c, x) PROVE IInv'
  <2> DEFINE w == [NoWork EXCEPT !.txs = {x}]
  <2>1. w \in WorkRecord /\ w.removed = {} /\ w.txs = {x}
    BY DEF NoWork, WorkRecord
  <2>2. Fits(c, "nonce", w)
    BY <2>1, <1>1 DEF Fits, ClientOps
  <2>3. submissions' \in Seq(Submission)
    BY <1>4 DEF SendTransaction, clientVars, IInv, StateInv, WorkFits
  <2>4. "nonce" \in Ops \ {"persist", "pool_tx", "load_tx"} /\ Start(c, "nonce", w)
    BY <1>4 DEF Ops, SendTransaction
  <2> HIDE DEF w
  <2> QED  BY <1>1, <1>s, <1>2, <2>2, <2>3, <2>4, QuietStart
<1>5. ASSUME NEW h \in Offered, SubmitSolution(c, h) PROVE IInv'
  <2> DEFINE w == [NoWork EXCEPT !.ticket = used']
  <2>1. w \in WorkRecord /\ w.removed = {}
    BY <1>2 DEF NoWork, WorkRecord
  <2>2. Fits(c, "wait", w)
    BY <2>1, <1>1 DEF Fits, ClientOps
  <2>3. h \in Nat
    BY DEF Offered, IInv, StateInv, StateType
  <2>4. [client |-> c, height |-> h, ticket |-> used'] \in Submission
    BY <2>3, <1>2 DEF Submission
  <2>5. submissions' = Append(submissions, [client |-> c, height |-> h, ticket |-> used'])
    BY <1>5 DEF SubmitSolution
  <2>6. submissions' \in Seq(Submission)
    BY <2>4, <2>5, AppendProperties DEF IInv, StateInv, WorkFits
  <2>7. "wait" \in Ops \ {"persist", "pool_tx", "load_tx"} /\ Start(c, "wait", w)
    BY <1>5 DEF Ops, SubmitSolution
  <2> HIDE DEF w
  <2> QED  BY <1>1, <1>s, <1>2, <2>2, <2>6, <2>7, QuietStart
<1> QED  BY <1>3, <1>4, <1>5

(* Reads and answers that leave everything as it is. *)
LEMMA ReadStep ==
  ASSUME IInv, NEW t \in Tasks, ReadNonce(t) \/ ReadFee(t)
  PROVE  IInv'
<1>1. UNCHANGED <<stateVars, running, clientVars, lost, used>>
  BY DEF ReadNonce, ReadFee
<1>2. Fits(t, op[t], work[t]) /\ work[t] \in WorkRecord
  BY DEF IInv, StateInv, WorkFits
<1>3. CASE ReadNonce(t)
  <2>1. op[t] = "nonce" /\ GoOn(t, "fee", work[t])
    BY <1>3 DEF ReadNonce, Holds
  <2>2. Fits(t, "fee", work[t])
    BY <1>2, <2>1 DEF Fits, ClientOps
  <2> QED  BY <1>1, <2>1, <2>2, QuietRelease DEF Ops
<1>4. CASE ReadFee(t)
  <2>1. op[t] = "fee" /\ GoOn(t, "insert", work[t])
    BY <1>4 DEF ReadFee, Holds
  <2>2. Fits(t, "insert", work[t])
    BY <1>2, <2>1 DEF Fits, ClientOps
  <2> QED  BY <1>1, <2>1, <2>2, QuietRelease DEF Ops
<1> QED  BY <1>3, <1>4

LEMMA AnswerStep ==
  ASSUME IInv, NEW c \in Clients,
         AnswerQuery(c) \/ ReadHeight(c) \/ AnswerScan(c) \/ Timeout(c)
  PROVE  IInv'
<1>1. UNCHANGED <<stateVars, running, clientVars, lost, used>>
  BY DEF AnswerQuery, ReadHeight, AnswerScan, Timeout
<1>2. c \in Tasks /\ c # "processor" /\ c \notin Producers
  BY ClientFacts
<1>3. CASE ReadHeight(c)
  <2> DEFINE w == [NoWork EXCEPT !.height = info]
  <2>1. op[c] = "history" /\ GoOn(c, "scan", w)
    BY <1>3 DEF ReadHeight, Holds
  <2>2. w \in WorkRecord /\ w.removed = {} /\ w.height = info
    BY DEF NoWork, WorkRecord, IInv, StateInv, StateType
  <2>3. Covered(info)
    <3>1. /\ info \in Nat /\ info <= ChainView /\ Covered(ChainView)
      BY DEF IInv, StateInv, StateType, MemoryFollows
    <3> QED  BY <3>1, ChainViewType DEF Covered
  <2>4. Fits(c, "scan", w)
    BY <2>2, <2>3, <1>2 DEF Fits
  <2> HIDE DEF w
  <2> QED  BY <1>1, <1>2, <2>1, <2>4, QuietRelease DEF Ops
<1>4. CASE AnswerQuery(c) \/ AnswerScan(c) \/ Timeout(c)
  <2>1. op[c] \in {"chain_info", "refiners", "mining_job", "scan", "wait"}
    BY <1>4 DEF AnswerQuery, AnswerScan, Timeout, Holds
  <2>2. GoOn(c, "idle", NoWork)
    BY <1>4 DEF AnswerQuery, AnswerScan, Timeout
  <2>3. Fits(c, "idle", NoWork)
    BY <1>2, NoWorkFits
  <2> QED  BY <1>1, <1>2, <2>1, <2>2, <2>3, QuietRelease DEF Ops
<1> QED  BY <1>3, <1>4

LEMMA ProcessStep ==
  ASSUME IInv, Process
  PROVE  IInv'
<1>1. "processor" \in Tasks /\ "processor" \in Producers /\ "processor" \notin Clients
  BY NodeAssumption DEF Tasks, Producers
<1> DEFINE s == Head(submissions)
           w == [NoWork EXCEPT !.height = s.height, !.from = s.client, !.ticket = s.ticket]
<1>2. s \in Submission /\ Tail(submissions) \in Seq(Submission)
  BY DEF Process, IInv, StateInv, WorkFits
<1>3. w \in WorkRecord /\ w.removed = {} /\ w.from \in Clients
  BY <1>2, ClientFacts DEF Submission, NoWork, WorkRecord
<1>4. /\ Start("processor", "apply", w) /\ submissions' = Tail(submissions)
      /\ calls' = calls /\ told' = told /\ accepted' = accepted /\ used' = used
  BY DEF Process
<1>5. Fits("processor", "apply", w)
  BY <1>1, <1>3, ClientFacts DEF Fits, ClientOps
<1>6. used' \in Nat /\ submissions' \in Seq(Submission)
  BY <1>2, <1>4 DEF IInv, StateInv, StateType
<1> HIDE DEF w, s
<1>7. "apply" \in Ops \ {"persist", "pool_tx", "load_tx"}
  BY DEF Ops
<1> QED  BY <1>1, <1>4, <1>5, <1>6, <1>7, QuietStart

---------------------------------------------------------------------------
(* Who holds the chain or the pool sees no block half applied. *)

LEMMA PersistHolds ==
  ASSUME LockInv, NEW t \in Tasks, op[t] = "persist", NEW l \in {"chain", "mempool"}
  PROVE  Granted(t, l) /\ asked[l][t] = "write"
<1>1. step[t] = 4 /\ 1 \in 1 .. step[t] /\ 4 \in 1 .. step[t]
  BY DEF LockInv, HeldBefore
<1>2. Needs(op[t])[1] = Write("chain") /\ Needs(op[t])[4] = Write("mempool")
  BY NeedsAt
<1>3. Granted(t, "chain") /\ Granted(t, "mempool")
  BY <1>1, <1>2 DEF LockInv, HeldBefore, Write
<1>4. asked["chain"][t] = "write" /\ asked["mempool"][t] = "write"
  BY <1>1, <1>2 DEF LockInv, AskedInOrder, Write
<1> QED  BY <1>3, <1>4

LEMMA NobodyElsePersists ==
  ASSUME LockInv, NEW t \in Tasks, NEW l \in {"chain", "mempool"}, Granted(t, l)
  PROVE  \A u \in Tasks : u # t => op[u] # "persist"
BY PersistHolds, Exclusion DEF Locks

(* What a task holds once it has all its locks. *)
LEMMA HoldsAll ==
  ASSUME LockInv, NEW t \in Tasks, NEW o \in Ops, Holds(t, o), NEW k \in 1 .. Len(Needs(o))
  PROVE  Granted(t, Needs(o)[k].lock) /\ asked[Needs(o)[k].lock][t] = Needs(o)[k].mode
<1>1. step[t] = Len(Needs(o)) /\ op[t] = o /\ Served(t)
  BY DEF Holds
<1>2. Len(Needs(o)) \in Nat
  BY NeedsDistinct
<1>3. CASE k = step[t]
  BY <1>1, <1>2, <1>3 DEF Served, LockInv, AskedInOrder
<1>4. CASE k # step[t]
  BY <1>1, <1>2, <1>4 DEF LockInv, AskedInOrder, HeldBefore
<1> QED  BY <1>3, <1>4

LEMMA HoldsChainOrPool ==
  ASSUME LockInv, NEW t \in Tasks
  PROVE  /\ Holds(t, "apply") \/ Holds(t, "persist") \/ Holds(t, "refresh") => Granted(t, "chain")
         /\ Holds(t, "insert") \/ Holds(t, "expire") => Granted(t, "mempool")
<1>1. {"apply", "persist", "refresh", "insert", "expire"} \subseteq Ops
  BY DEF Ops
<1>2. \A o \in {"apply", "persist", "refresh"} : Holds(t, o) => Granted(t, "chain")
  <2> SUFFICES ASSUME NEW o \in {"apply", "persist", "refresh"}, Holds(t, o)
               PROVE  Granted(t, "chain")
    OBVIOUS
  <2>1. 1 \in 1 .. Len(Needs(o)) /\ Needs(o)[1].lock = "chain"
    BY NeedsAt DEF Read, Write
  <2> QED  BY <1>1, <2>1, HoldsAll
<1>3. \A o \in {"insert", "expire"} : Holds(t, o) => Granted(t, "mempool")
  <2> SUFFICES ASSUME NEW o \in {"insert", "expire"}, Holds(t, o)
               PROVE  Granted(t, "mempool")
    OBVIOUS
  <2>1. 1 \in 1 .. Len(Needs(o)) /\ Needs(o)[1].lock = "mempool"
    BY NeedsAt DEF Read, Write
  <2> QED  BY <1>1, <2>1, HoldsAll
<1> QED  BY <1>2, <1>3

---------------------------------------------------------------------------

LEMMA ExecuteStep ==
  ASSUME IInv, NEW t \in Producers, Execute(t)
  PROVE  IInv'
<1>1. /\ t \in Tasks /\ t \notin Clients /\ op[t] = "apply" /\ Holds(t, "apply") /\ running
      /\ running' = running /\ calls' = calls /\ told' = told /\ accepted' = accepted
      /\ submissions' = submissions /\ used' = used /\ lost' = lost
  BY ClientFacts DEF Execute, Holds, Tasks, clientVars
<1>2. Fits(t, op[t], work[t]) /\ work[t] \in WorkRecord /\ work[t].removed = {}
  BY <1>1 DEF IInv, StateInv, WorkFits, Fits
<1>3. CASE work[t].height # mem.chain + 1
  <2> DEFINE o == IF t = "processor" THEN "reply" ELSE "idle"
             w == [work[t] EXCEPT !.height = 0]
  <2>1. GoOn(t, o, w) /\ UNCHANGED <<stateVars, running, clientVars, lost, used>>
    BY <1>3 DEF Execute
  <2>2. /\ w \in WorkRecord /\ w.removed = {} /\ w.height = 0 /\ w.from = work[t].from
    BY <1>2 DEF WorkRecord
  <2>3. Fits(t, o, w) /\ o \in Ops \ {"persist", "pool_tx", "load_tx"}
    BY <1>1, <1>2, <2>2 DEF Fits, ClientOps, Ops
  <2> HIDE DEF o, w
  <2> QED  BY <1>1, <2>1, <2>3, QuietRelease
<1>4. CASE work[t].height = mem.chain + 1
  <2>1. /\ mem' = [mem EXCEPT !.chain = work[t].height, !.accounts = work[t].height,
                              !.refiners = work[t].height]
        /\ pool' = pool \ work[t].txs
        /\ op' = [op EXCEPT ![t] = "persist"]
        /\ work' = [work EXCEPT ![t].removed = pool \cap work[t].txs]
        /\ UNCHANGED <<lockVars, step>> /\ info' = info /\ store' = store
    BY <1>4 DEF Execute
  <2>2. LockInv'
    BY <1>1, <2>1, ToPersistKeeps DEF IInv
  <2>3. \A u \in Tasks : op[u] # "persist"
    <3>1. Granted(t, "chain")
      BY <1>1, HoldsChainOrPool DEF IInv
    <3> QED  BY <1>1, <3>1, NobodyElsePersists DEF IInv
  <2>4. /\ op'[t] = "persist" /\ \A u \in Tasks : u # t => op'[u] = op[u] /\ work'[u] = work[u]
        /\ work'[t] = [work[t] EXCEPT !.removed = pool \cap work[t].txs]
    BY <1>1, <2>1 DEF IInv, LockInv, LockType, StateInv, WorkFits
  <2>5. /\ work'[t] \in WorkRecord /\ work'[t].removed = pool \cap work[t].txs
        /\ work'[t].height = work[t].height /\ work'[t].txs = work[t].txs
        /\ work'[t].from = work[t].from
    BY <2>4, <1>2 DEF WorkRecord
  <2>6. PoolView' = PoolView /\ Confirmed' = Confirmed
    <3>1. \A u \in Tasks : u # t => work'[u].removed = work[u].removed
      BY <2>4
    <3>2. PoolView' = PoolView
      BY <1>1, <1>2, <2>1, <2>5, <3>1 DEF PoolView
    <3> QED  BY <2>1, <3>2 DEF Confirmed
  <2>7. WorkFits'
    <3>1. \A u \in Tasks : Fits(u, op[u], work[u])'
      <4> SUFFICES ASSUME NEW u \in Tasks PROVE Fits(u, op[u], work[u])'
        OBVIOUS
      <4>1. CASE u = t
        BY <4>1, <1>1, <1>2, <2>1, <2>4, <2>5 DEF Fits, ClientOps
      <4>2. CASE u # t
        BY <4>2, <1>1, <2>1, <2>4, SettledStays DEF IInv, StateInv, WorkFits
      <4> QED  BY <4>1, <4>2
    <3>2. work' \in [Tasks -> WorkRecord]
      BY <2>1, <2>4, <2>5, <1>1 DEF IInv, StateInv, WorkFits
    <3> QED  BY <1>1, <3>1, <3>2 DEF IInv, StateInv, WorkFits
  <2>8. /\ mem'.chain = work[t].height /\ mem'.accounts = work[t].height
        /\ mem'.refiners = work[t].height /\ work[t].height \in Nat
        /\ mem' \in [chain : Nat, accounts : Nat, refiners : Nat]
    BY <1>2, <2>1 DEF IInv, StateInv, StateType, WorkRecord
  <2>9. StateType' /\ StoreWhole' /\ AcceptedStored'
    <3>1. pool' \in SUBSET Txs
      BY <2>1 DEF IInv, StateInv, StateType
    <3>2. AcceptedStored'
      BY <1>1, <2>1, SettledStays DEF IInv, StateInv, AcceptedStored
    <3> QED  BY <1>1, <2>1, <2>8, <3>1, <3>2 DEF IInv, StateInv, StateType, StoreWhole
  <2>10. MemoryFollows'
    <3>1. ChainView = mem.chain /\ mem.chain \in Nat /\ ChainView' = mem.chain
      <4>1. ~Persisting /\ Persisting'
        BY <1>1, <2>3, <2>4 DEF Persisting
      <4>2. ChainView = mem.chain /\ mem.chain \in Nat
        BY <1>1, <4>1, ChainViewType
      <4>3. ChainView' = mem'.chain - 1
        BY <1>1, <4>1 DEF ChainView
      <4> QED  BY <1>4, <2>8, <4>2, <4>3
    <3>2. \A u \in Tasks : op'[u] = "persist" => u = t
      BY <2>3, <2>4
    <3>3. pool' \cap work[t].txs = {} /\ pool \cap work[t].txs \subseteq work[t].txs
      BY <2>1
    <3>4. /\ info' <= ChainView' /\ store'.chain_state <= ChainView' /\ Covered(ChainView)'
      BY <1>1, <2>1, <3>1, SettledStays DEF IInv, StateInv, MemoryFollows
    <3> QED  BY <1>1, <1>4, <2>1, <2>4, <2>5, <2>8, <3>2, <3>3, <3>4 DEF MemoryFollows
  <2>11. CallsSee'
    <3> SUFFICES ASSUME NEW c \in Clients
                 PROVE  /\ calls'[c] # {} <=> op'[c] \in {"pool_tx", "load_tx"}
                        /\ \A q \in calls'[c] :
                             /\ work'[c].txs = {q.tx}
                             /\ S!StatusIn(q.tx, PoolView', Confirmed') \in q.seen
                             /\ op'[c] = "load_tx" =>
                                  (IF q.tx \in Confirmed' THEN "confirmed" ELSE "unknown") \in q.seen
      BY DEF CallsSee
    <3>1. c \in Tasks /\ c # t
      BY <1>1, ClientFacts
    <3> QED  BY <1>1, <2>4, <2>6, <3>1 DEF IInv, StateInv, CallsSee
  <2> QED  BY <2>2, <2>7, <2>9, <2>10, <2>11 DEF IInv, StateInv
<1> QED  BY <1>3, <1>4

---------------------------------------------------------------------------
(* The open requests see the status of their transactions change. *)

LEMMA WitnessSees ==
  ASSUME StateType, NEW P, NEW C, S!Witness(P, C)
  PROVE  /\ calls' \in [Clients -> SUBSET [tx : Txs, seen : SUBSET S!Statuses]]
         /\ \A c \in Clients :
              /\ calls'[c] = {} <=> calls[c] = {}
              /\ \A q \in calls'[c] : \E r \in calls[c] :
                   q.tx = r.tx /\ q.seen = r.seen \cup {S!StatusIn(r.tx, P, C)}
<1> DEFINE Seen(r) == [r EXCEPT !.seen = @ \cup {S!StatusIn(r.tx, P, C)}]
           Call == [tx : Txs, seen : SUBSET S!Statuses]
<1>1. calls' = [c \in Clients |-> {Seen(r) : r \in calls[c]}]
  BY DEF S!Witness
<1>2. ASSUME NEW r \in Call
      PROVE  Seen(r) \in Call /\ Seen(r).tx = r.tx
             /\ Seen(r).seen = r.seen \cup {S!StatusIn(r.tx, P, C)}
  BY DEF S!StatusIn, S!Statuses
<1>3. \A c \in Clients : \A r \in calls[c] : r \in Call
  BY DEF StateType
<1> HIDE DEF Seen, Call
<1>4. calls' \in [Clients -> SUBSET Call]
  BY <1>1, <1>2, <1>3
<1>5. \A c \in Clients :
        /\ calls'[c] = {} <=> calls[c] = {}
        /\ \A q \in calls'[c] : \E r \in calls[c] :
             q.tx = r.tx /\ q.seen = r.seen \cup {S!StatusIn(r.tx, P, C)}
  BY <1>1, <1>2, <1>3
<1> QED  BY <1>4, <1>5 DEF Call

(* Every open request has seen its transaction's present status. *)
AllSee ==
  \A c \in Clients :
    /\ calls'[c] = {} <=> calls[c] = {}
    /\ \A q \in calls'[c] : \E r \in calls[c] :
         q.tx = r.tx /\ q.seen = r.seen \cup {S!StatusIn(r.tx, PoolView', Confirmed')}

(* Where a step tells the open requests and leaves their transactions'    *)
(* presence in the database consistent, they keep seeing it.              *)
LEMMA CallsKeepSeeing ==
  ASSUME IInv, AllSee,
         \A c \in Clients :
           \/ op[c] = op'[c] /\ work[c].txs = work'[c].txs
           \/ op[c] \notin {"pool_tx", "load_tx"} /\ op'[c] \notin {"pool_tx", "load_tx"},
         Confirmed \subseteq Confirmed',
         \A x \in Confirmed' \ Confirmed : x \notin PoolView'
  PROVE  CallsSee'
<1> SUFFICES ASSUME NEW c \in Clients
             PROVE  /\ calls'[c] # {} <=> op'[c] \in {"pool_tx", "load_tx"}
                    /\ \A q \in calls'[c] :
                         /\ work'[c].txs = {q.tx}
                         /\ S!StatusIn(q.tx, PoolView', Confirmed') \in q.seen
                         /\ op'[c] = "load_tx" =>
                              (IF q.tx \in Confirmed' THEN "confirmed" ELSE "unknown") \in q.seen
  BY DEF CallsSee
<1>1. /\ calls[c] # {} <=> op[c] \in {"pool_tx", "load_tx"}
      /\ calls'[c] = {} <=> calls[c] = {}
  BY DEF AllSee, IInv, StateInv, CallsSee
<1>2. ASSUME NEW q \in calls'[c]
      PROVE  /\ work'[c].txs = {q.tx}
             /\ S!StatusIn(q.tx, PoolView', Confirmed') \in q.seen
             /\ op'[c] = "load_tx" =>
                  (IF q.tx \in Confirmed' THEN "confirmed" ELSE "unknown") \in q.seen
  <2>1. PICK r \in calls[c] : q.tx = r.tx /\ q.seen = r.seen \cup {S!StatusIn(r.tx, PoolView', Confirmed')}
    BY <1>2 DEF AllSee
  <2>2. op[c] = op'[c] /\ work[c].txs = work'[c].txs
    BY <2>1, <1>1
  <2>3. work[c].txs = {r.tx} /\ (op[c] = "load_tx" =>
                  (IF r.tx \in Confirmed THEN "confirmed" ELSE "unknown") \in r.seen)
    BY DEF IInv, StateInv, CallsSee
  <2>4. op'[c] = "load_tx" => (IF q.tx \in Confirmed' THEN "confirmed" ELSE "unknown") \in q.seen
    <3>1. CASE r.tx \in Confirmed' /\ r.tx \notin Confirmed
      BY <2>1, <3>1 DEF S!StatusIn
    <3>2. CASE r.tx \in Confirmed' <=> r.tx \in Confirmed
      BY <2>1, <2>2, <2>3, <3>2
    <3> QED  BY <3>1, <3>2
  <2> QED  BY <2>1, <2>2, <2>3, <2>4
<1> QED  BY <1>1, <1>2

(* What a task that gives up its locks leaves alone. *)
LEMMA GoOnFacts ==
  ASSUME IInv, NEW t \in Tasks, NEW o \in Ops, NEW w \in WorkRecord, GoOn(t, o, w)
  PROVE  /\ op'[t] = o /\ work'[t] = w
         /\ \A u \in Tasks : u # t => op'[u] = op[u] /\ work'[u] = work[u]
         /\ work' \in [Tasks -> WorkRecord]
BY DEF GoOn, IInv, LockInv, LockType, StateInv, WorkFits

(* What the attempt to write a block leaves behind, whether it succeeds or *)
(* fails.                                                                  *)
Recorded(w) ==
  /\ store' \in [blocks : Blocks, chain_state : Nat, accounts : Nat, refiners : Nat,
                 txs : [Txs -> Nat]]
  /\ lost' \subseteq [client : Tasks, height : Nat]
  /\ StoreWhole'
  /\ store'.chain_state <= w.height
  /\ \A h, f : Settled(h, f) => Settled(h, f)'
  /\ Settled(w.height, w.from)'
  /\ \A n : Covered(n) => Covered(n)'
  /\ w.height \in DOMAIN store'.blocks \/ w.height \in LostHeights'
  /\ Confirmed \subseteq Confirmed' /\ Confirmed' \subseteq Confirmed \cup w.txs

LEMMA SaveFacts ==
  ASSUME IInv, NEW w \in WorkRecord, w.from \in Tasks, store' = Save(w), lost' = lost,
         w.height > store.chain_state
  PROVE  Recorded(w) /\ store'.chain_state = w.height /\ Confirmed' = Confirmed \cup w.txs
<1> DEFINE b == [from |-> w.from, txs |-> w.txs]
           D == DOMAIN store.blocks
<1>1. /\ store.blocks \in Blocks
      /\ store.chain_state \in Nat /\ store.txs \in [Txs -> Nat]
      /\ D \subseteq 1 .. store.chain_state
      /\ lost \subseteq [client : Tasks, height : Nat]
  BY DEF IInv, StateInv, StateType, StoreWhole
<1>2. b \in Block /\ w.txs \in SUBSET Txs /\ w.height \in Nat
  BY DEF WorkRecord, Block
<1>3. /\ store'.blocks = [h \in D \cup {w.height} |-> IF h = w.height THEN b ELSE store.blocks[h]]
      /\ store'.chain_state = w.height /\ store'.accounts = w.height
      /\ store'.refiners = w.height
      /\ store'.txs = [x \in Txs |-> IF x \in w.txs THEN w.height ELSE store.txs[x]]
  BY DEF Save
<1>d. D \in SUBSET Nat /\ store.blocks \in [D -> Block]
  BY <1>1 DEF Blocks
<1>4. w.height \notin D
  BY <1>1, <1>2
<1>5. /\ DOMAIN store'.blocks = D \cup {w.height}
      /\ store'.blocks[w.height] = b
      /\ \A h \in D : store'.blocks[h] = store.blocks[h]
  BY <1>3, <1>4
<1>6. store'.blocks \in Blocks
  <2>1. D \cup {w.height} \in SUBSET Nat
    BY <1>d, <1>2
  <2>2. store'.blocks \in [D \cup {w.height} -> Block]
    BY <1>2, <1>3, <1>d
  <2> HIDE DEF D
  <2> QED  BY <2>1, <2>2 DEF Blocks
<1>7. store'.txs \in [Txs -> Nat]
  BY <1>1, <1>2, <1>3
<1>8. store' \in [blocks : Blocks, chain_state : Nat, accounts : Nat, refiners : Nat,
                  txs : [Txs -> Nat]]
  <2>1. store' = [blocks |-> store'.blocks, chain_state |-> w.height, accounts |-> w.height,
                  refiners |-> w.height, txs |-> store'.txs]
    BY <1>3 DEF Save
  <2> QED  BY <2>1, <1>2, <1>6, <1>7
<1>9. StoreWhole'
  <2>1. ASSUME NEW x \in Txs, store'.txs[x] > 0
        PROVE  store'.txs[x] \in DOMAIN store'.blocks /\ x \in store'.blocks[store'.txs[x]].txs
    <3>1. CASE x \in w.txs
      BY <3>1, <1>3, <1>5
    <3>2. CASE x \notin w.txs
      <4>1. store'.txs[x] = store.txs[x]
        BY <3>2, <1>3
      <4>2. store.txs[x] \in D /\ x \in store.blocks[store.txs[x]].txs
        BY <2>1, <4>1 DEF IInv, StateInv, StoreWhole
      <4> QED  BY <4>1, <4>2, <1>5
    <3> QED  BY <3>1, <3>2
  <2>2. D \cup {w.height} \subseteq 1 .. w.height
    <3> SUFFICES ASSUME NEW h \in D \cup {w.height} PROVE h \in 1 .. w.height
      OBVIOUS
    <3>1. CASE h = w.height
      BY <3>1, <1>1, <1>2
    <3>2. CASE h \in D
      BY <3>2, <1>1, <1>2, <1>d
    <3> QED  BY <3>1, <3>2
  <2> QED  BY <2>1, <2>2, <1>3, <1>5 DEF StoreWhole
<1>10. Confirmed' = Confirmed \cup w.txs
  BY <1>1, <1>2, <1>3 DEF Confirmed
<1> HIDE DEF D
<1>11. ASSUME NEW h, NEW f, Settled(h, f) PROVE Settled(h, f)'
  BY <1>11, <1>5 DEF Settled, IsSaved, D
<1>12. Settled(w.height, w.from)'
  BY <1>5 DEF Settled, IsSaved
<1>13. ASSUME NEW n, Covered(n) PROVE Covered(n)'
  BY <1>13, <1>5 DEF Covered, LostHeights, D
<1>14. w.height \in DOMAIN store'.blocks /\ w.height <= w.height
  BY <1>2, <1>5
<1> HIDE DEF b
<1> QED  BY <1>1, <1>3, <1>8, <1>9, <1>10, <1>11, <1>12, <1>13, <1>14 DEF Recorded

LEMMA LoseFacts ==
  ASSUME IInv, NEW w \in WorkRecord, w.from \in Tasks, store' = store,
         lost' = lost \cup {[client |-> w.from, height |-> w.height]},
         w.height > store.chain_state
  PROVE  Recorded(w) /\ Confirmed' = Confirmed
<1>1. w.height \in Nat /\ store.chain_state \in Nat
  BY DEF WorkRecord, IInv, StateInv, StateType
<1>2. lost' \subseteq [client : Tasks, height : Nat]
  BY <1>1 DEF IInv, StateInv, StateType
<1>3. StoreWhole' /\ Confirmed' = Confirmed
  BY DEF IInv, StateInv, StoreWhole, Confirmed
<1>4. w.height \in LostHeights' /\ LostHeights \subseteq LostHeights'
  <2> DEFINE b == [client |-> w.from, height |-> w.height]
  <2>1. b \in lost' /\ b.height = w.height
    OBVIOUS
  <2>2. \A x \in lost : x \in lost'
    OBVIOUS
  <2> HIDE DEF b
  <2> QED  BY <2>1, <2>2 DEF LostHeights
<1>5. ASSUME NEW h, NEW f, Settled(h, f) PROVE Settled(h, f)'
  BY <1>5 DEF Settled, IsSaved
<1>6. Settled(w.height, w.from)'
  BY DEF Settled
<1>7. ASSUME NEW n, Covered(n) PROVE Covered(n)'
  BY <1>7, <1>4 DEF Covered
<1>8. store'.chain_state <= w.height
  BY <1>1
<1> QED  BY <1>2, <1>3, <1>4, <1>5, <1>6, <1>7, <1>8
         DEF Recorded, IInv, StateInv, StateType

(* The block that is being written is the next one of the chain the        *)
(* clients know.                                                           *)
LEMMA PersistFacts ==
  ASSUME IInv, NEW t \in Producers, Persist(t)
  PROVE  /\ t \in Tasks /\ work[t] \in WorkRecord /\ work[t].from \in Tasks
         /\ work[t].height = mem.chain /\ mem.chain = ChainView + 1 /\ ChainView \in Nat
         /\ pool \cap work[t].txs = {} /\ work[t].removed \subseteq work[t].txs
         /\ \A u \in Tasks : u # t => op[u] # "persist" /\ work[u].removed = {}
         /\ Recorded(work[t])
         /\ op' = [op EXCEPT ![t] = "refresh"]
         /\ ChainView' = mem.chain
         /\ \/ store'.chain_state = mem.chain /\ Confirmed' = Confirmed \cup work[t].txs
            \/ store' = store /\ Confirmed' = Confirmed
<1>1. /\ t \in Tasks /\ op[t] = "persist" /\ running /\ Holds(t, "persist")
      /\ GoOn(t, "refresh", [work[t] EXCEPT !.removed = {}])
      /\ mem' = mem /\ running' = running
      /\ \/ store' = Save(work[t]) /\ lost' = lost
         \/ /\ lost' = lost \cup {[client |-> work[t].from, height |-> work[t].height]}
            /\ store' = store
  BY DEF Persist, Holds, Tasks
<1>2. work[t] \in WorkRecord /\ Fits(t, "persist", work[t])
  BY <1>1 DEF IInv, StateInv, WorkFits
<1>3. work[t].from \in Tasks
  BY <1>2 DEF Fits
<1>4. /\ work[t].height = mem.chain
      /\ pool \cap work[t].txs = {} /\ work[t].removed \subseteq work[t].txs
      /\ store.chain_state <= ChainView
  BY <1>1 DEF IInv, StateInv, MemoryFollows
<1>5. mem.chain = ChainView + 1 /\ ChainView \in Nat
  <2>1. Persisting
    BY <1>1 DEF Persisting
  <2> QED  BY <1>1, <2>1, ChainViewType
<1>6. \A u \in Tasks : u # t => op[u] # "persist" /\ work[u].removed = {}
  <2>1. Granted(t, "chain")
    BY <1>1, HoldsChainOrPool DEF IInv
  <2> QED  BY <1>1, <2>1, NobodyElsePersists DEF IInv, StateInv, WorkFits, Fits
<1>7. work[t].height > store.chain_state
  <2>1. store.chain_state \in Nat
    BY DEF IInv, StateInv, StateType
  <2> QED  BY <2>1, <1>4, <1>5
<1>8. /\ Recorded(work[t])
      /\ \/ store'.chain_state = mem.chain /\ Confirmed' = Confirmed \cup work[t].txs
         \/ store' = store /\ Confirmed' = Confirmed
  BY <1>1, <1>2, <1>3, <1>4, <1>7, SaveFacts, LoseFacts
<1>9. op' = [op EXCEPT ![t] = "refresh"]
  BY <1>1 DEF GoOn
<1>10. ChainView' = mem.chain
  <2>1. \A u \in Tasks : op'[u] # "persist"
    BY <1>1, <1>6, <1>9 DEF IInv, LockInv, LockType
  <2> QED  BY <1>1, <2>1 DEF ChainView, Persisting
<1> QED  BY <1>1, <1>2, <1>3, <1>4, <1>5, <1>6, <1>8, <1>9, <1>10

LEMMA PersistStep ==
  ASSUME IInv, NEW t \in Producers, Persist(t)
  PROVE  IInv'
<1> DEFINE w == [work[t] EXCEPT !.removed = {}]
<1>1. /\ t \in Tasks /\ t \notin Clients /\ op[t] = "persist" /\ running /\ Holds(t, "persist")
      /\ GoOn(t, "refresh", w)
      /\ mem' = mem /\ pool' = pool /\ info' = info /\ running' = running /\ told' = told
      /\ accepted' = accepted /\ submissions' = submissions /\ used' = used
      /\ S!Witness(PoolView', Confirmed')
  BY ClientFacts DEF Persist, Holds, Tasks
<1>2. /\ work[t] \in WorkRecord /\ Fits(t, "persist", work[t])
      /\ w \in WorkRecord /\ w.removed = {} /\ w.height = work[t].height /\ w.from = work[t].from
      /\ w.txs = work[t].txs
  BY <1>1 DEF IInv, StateInv, WorkFits, WorkRecord
<1>3. /\ work[t].height = mem.chain /\ mem.chain = ChainView + 1 /\ ChainView \in Nat
      /\ pool \cap work[t].txs = {} /\ Recorded(work[t]) /\ ChainView' = mem.chain
      /\ \A u \in Tasks : u # t => op[u] # "persist" /\ work[u].removed = {}
  BY PersistFacts
<1>4. LockInv'
  BY <1>1, ReleaseKeeps DEF IInv, Ops
<1>5. /\ op'[t] = "refresh" /\ work'[t] = w
      /\ \A u \in Tasks : u # t => op'[u] = op[u] /\ work'[u] = work[u]
      /\ work' \in [Tasks -> WorkRecord]
  <2> HIDE DEF w
  <2> QED  BY <1>1, <1>2, GoOnFacts DEF Ops
<1>6. /\ store' \in [blocks : Blocks, chain_state : Nat, accounts : Nat, refiners : Nat,
                     txs : [Txs -> Nat]]
      /\ lost' \subseteq [client : Tasks, height : Nat]
      /\ StoreWhole'
      /\ store'.chain_state <= work[t].height
      /\ \A h, f : Settled(h, f) => Settled(h, f)'
      /\ Settled(work[t].height, work[t].from)'
      /\ \A n : Covered(n) => Covered(n)'
      /\ work[t].height \in DOMAIN store'.blocks \/ work[t].height \in LostHeights'
      /\ Confirmed \subseteq Confirmed' /\ Confirmed' \subseteq Confirmed \cup work[t].txs
  BY <1>3 DEF Recorded
<1>8. PoolView' = pool
  <2>1. pool' = pool /\ \A u \in Tasks : work'[u].removed = {}
    BY <1>1, <1>2, <1>3, <1>5
  <2> QED  BY <2>1 DEF PoolView
<1> HIDE DEF w
<1>10. WorkFits'
  <2>1. \A u \in Tasks : Fits(u, op[u], work[u])'
    <3> SUFFICES ASSUME NEW u \in Tasks PROVE Fits(u, op[u], work[u])'
      OBVIOUS
    <3>1. CASE u = t
      BY <3>1, <1>1, <1>2, <1>5, <1>6 DEF Fits, ClientOps
    <3>2. CASE u # t
      BY <3>2, <1>5, <1>6 DEF Fits, IInv, StateInv, WorkFits
    <3> QED  BY <3>1, <3>2
  <2> QED  BY <1>1, <1>5, <2>1 DEF IInv, StateInv, WorkFits
<1>11. StateType'
  BY <1>1, <1>6, WitnessSees DEF IInv, StateInv, StateType
<1>12. MemoryFollows'
  <2>1. \A u \in Tasks : op'[u] # "persist"
    BY <1>3, <1>5
  <2>2. Covered(ChainView)'
    <3>1. \A h \in 1 .. ChainView' : h \in 1 .. ChainView \/ h = work[t].height
      BY <1>3
    <3>2. PICK n : n = ChainView
      OBVIOUS
    <3>3. Covered(n)'
      BY <1>6, <3>2 DEF IInv, StateInv, MemoryFollows
    <3> QED  BY <1>6, <3>1, <3>2, <3>3 DEF Covered
  <2>3. info' <= ChainView' /\ store'.chain_state <= ChainView'
    <3>1. info \in Nat /\ info <= ChainView
      BY DEF IInv, StateInv, StateType, MemoryFollows
    <3> QED  BY <1>1, <1>3, <1>6, <3>1
  <2> QED  BY <1>1, <2>1, <2>2, <2>3 DEF IInv, StateInv, MemoryFollows
<1>13. AcceptedStored'
  BY <1>1, <1>6 DEF IInv, StateInv, AcceptedStored
<1>14. CallsSee'
  <2>1. \A c \in Clients : op[c] = op'[c] /\ work[c].txs = work'[c].txs
    BY <1>1, <1>5, ClientFacts
  <2>2. \A x \in Confirmed' \ Confirmed : x \notin PoolView'
    BY <1>3, <1>6, <1>8
  <2>4. AllSee
    BY <1>1, WitnessSees DEF AllSee, IInv, StateInv
  <2> QED  BY <1>6, <2>1, <2>2, <2>4, CallsKeepSeeing
<1> QED  BY <1>4, <1>6, <1>10, <1>11, <1>12, <1>13, <1>14 DEF IInv, StateInv

(* The snapshot is taken while nobody applies a block. *)
LEMMA RefreshStep ==
  ASSUME IInv, NEW t \in Producers, Refresh(t)
  PROVE  IInv'
<1>1. /\ t \in Tasks /\ t \notin Clients /\ op[t] = "refresh" /\ running /\ Holds(t, "refresh")
      /\ info' = mem.chain
      /\ mem' = mem /\ pool' = pool /\ store' = store /\ running' = running /\ calls' = calls
      /\ told' = told /\ accepted' = accepted /\ submissions' = submissions /\ used' = used
      /\ lost' = lost
  BY ClientFacts DEF Refresh, Holds, Tasks, clientVars
<1>2. mem.chain = ChainView /\ mem.chain \in Nat
  <2>1. Granted(t, "chain")
    BY <1>1, HoldsChainOrPool DEF IInv
  <2>2. \A u \in Tasks : op[u] # "persist"
    BY <1>1, <2>1, NobodyElsePersists DEF IInv
  <2> QED  BY <1>1, <2>2, ChainViewType DEF Persisting
<1>3. Fits(t, "refresh", work[t])
  BY <1>1 DEF IInv, StateInv, WorkFits
<1>4. PICK o \in {"idle", "reply"} : \E w \in {work[t], NoWork} :
           GoOn(t, o, w) /\ Fits(t, o, w)
  <2>1. CASE t = "processor"
    <3>1. GoOn(t, "reply", work[t]) /\ Fits(t, "reply", work[t])
      BY <1>3, <2>1 DEF Refresh, Fits, ClientOps
    <3> QED  BY <3>1
  <2>2. CASE t # "processor"
    BY <1>1, <2>2, NoWorkFits DEF Refresh
  <2> QED  BY <2>1, <2>2
<1>5. PICK w \in {work[t], NoWork} : GoOn(t, o, w) /\ Fits(t, o, w)
  BY <1>4
<1>6. LockInv'
  BY <1>1, <1>5, ReleaseKeeps DEF IInv, Ops
<1>7. Quiet(t, o, w)
  BY <1>1, <1>2, <1>5 DEF Quiet, GoOn, Ops, IInv, StateInv, StateType, WorkFits
<1> QED  BY <1>1, <1>6, <1>7, QuietKeeps DEF IInv

(* The pool changes under its lock. *)
LEMMA PoolStep ==
  ASSUME IInv, NEW t \in Tasks, (t = "network" /\ Expire) \/ Insert(t)
  PROVE  IInv'
<1>1. /\ op[t] \in {"insert", "expire"} /\ running /\ GoOn(t, "idle", NoWork)
      /\ mem' = mem /\ info' = info /\ store' = store /\ running' = running
      /\ told' = told /\ accepted' = accepted /\ submissions' = submissions /\ used' = used
      /\ lost' = lost
  BY DEF Expire, Insert, Holds
<1>2. S!Witness(PoolView', Confirmed)
  BY DEF Expire, Insert
<1>3. pool' \in SUBSET Txs
  BY DEF Expire, Insert, IInv, StateInv, StateType, WorkFits, WorkRecord
<1>4. Granted(t, "mempool")
  BY HoldsChainOrPool DEF Expire, Insert, IInv
<1>5. \A u \in Tasks : op[u] # "persist"
  BY <1>1, <1>4, NobodyElsePersists DEF IInv
<1>6. LockInv'
  BY <1>1, ReleaseKeeps DEF IInv, Ops
<1>7. /\ op'[t] = "idle" /\ work'[t] = NoWork
      /\ \A u \in Tasks : u # t => op'[u] = op[u] /\ work'[u] = work[u]
      /\ work' \in [Tasks -> WorkRecord]
  BY <1>1, NoWorkFits, GoOnFacts DEF Ops
<1>8. Confirmed' = Confirmed
  BY <1>1 DEF Confirmed
<1>9. AllSee
  BY <1>2, <1>8, WitnessSees DEF AllSee, IInv, StateInv
<1>10. WorkFits'
  <2>1. \A u \in Tasks : Fits(u, op[u], work[u])'
    <3> SUFFICES ASSUME NEW u \in Tasks PROVE Fits(u, op[u], work[u])'
      OBVIOUS
    <3>1. CASE u = t
      BY <3>1, <1>1, <1>7, NoWorkFits, SettledStays
    <3>2. CASE u # t
      BY <3>2, <1>1, <1>7, SettledStays DEF IInv, StateInv, WorkFits
    <3> QED  BY <3>1, <3>2
  <2> QED  BY <1>1, <1>7, <2>1 DEF IInv, StateInv, WorkFits
<1>11. StateType'
  BY <1>1, <1>2, <1>3, WitnessSees DEF IInv, StateInv, StateType
<1>12. StoreWhole' /\ AcceptedStored'
  BY <1>1, SettledStays DEF IInv, StateInv, StoreWhole, AcceptedStored
<1>13. MemoryFollows'
  <2>1. \A u \in Tasks : op'[u] # "persist"
    BY <1>5, <1>7
  <2>2. ChainView' = ChainView
    BY <1>1, <1>5, <2>1, ChainViewSame
  <2>3. Covered(ChainView)'
    BY <1>1, <2>2, SettledStays DEF IInv, StateInv, MemoryFollows
  <2> QED  BY <1>1, <1>5, <2>1, <2>2, <2>3 DEF IInv, StateInv, MemoryFollows
<1>14. CallsSee'
  <2>1. \A c \in Clients :
          \/ op[c] = op'[c] /\ work[c].txs = work'[c].txs
          \/ op[c] \notin {"pool_tx", "load_tx"} /\ op'[c] \notin {"pool_tx", "load_tx"}
    BY <1>1, <1>7, ClientFacts
  <2>2. Confirmed \subseteq Confirmed' /\ \A x \in Confirmed' \ Confirmed : x \notin PoolView'
    BY <1>8
  <2> QED  BY <1>9, <2>1, <2>2, CallsKeepSeeing
<1> QED  BY <1>6, <1>10, <1>11, <1>12, <1>13, <1>14 DEF IInv, StateInv

(* The answer to a submission. *)
LEMMA ReplyStep ==
  ASSUME IInv, Reply
  PROVE  IInv'
<1> DEFINE p == "processor"
           c == work[p].from
<1>1. /\ p \in Tasks /\ p \notin Clients /\ op[p] = "reply" /\ step[p] = 0
      /\ mem' = mem /\ pool' = pool /\ info' = info /\ store' = store /\ running' = running
      /\ calls' = calls /\ told' = told /\ submissions' = submissions /\ used' = used
      /\ lost' = lost /\ UNCHANGED <<lockVars, step>>
  <2>1. step[p] = Len(Needs("reply"))
    BY DEF Reply, Holds
  <2> QED  BY <2>1, NodeAssumption, NeedsAt DEF Reply, Holds, stateVars, Tasks, Producers
<1>2. /\ Fits(p, "reply", work[p]) /\ c \in Clients /\ c \in Tasks /\ c # p
      /\ work[p] \in WorkRecord /\ work[p].height \in Nat
      /\ (work[p].height # 0 => Settled(work[p].height, c))
  BY <1>1, ClientFacts DEF IInv, StateInv, WorkFits, Fits, WorkRecord
<1>3. /\ op' \in [Tasks -> Ops] /\ work' \in [Tasks -> WorkRecord]
      /\ \A u \in Tasks :
           \/ op'[u] = op[u] /\ work'[u] = work[u]
           \/ op'[u] = "idle" /\ work'[u] = NoWork /\ op[u] \in {"reply", "wait"} /\ step[u] = 0
  <2>1. op \in [Tasks -> Ops] /\ work \in [Tasks -> WorkRecord] /\ "idle" \in Ops
    BY DEF IInv, LockInv, LockType, StateInv, WorkFits, Ops
  <2>2. CASE op[c] = "wait" /\ work[c].ticket = work[p].ticket
    <3>1. /\ op' = [op EXCEPT ![p] = "idle", ![c] = "idle"]
          /\ work' = [work EXCEPT ![p] = NoWork, ![c] = NoWork]
      BY <2>2 DEF Reply
    <3>2. step[c] = 0
      BY <1>2, <2>2, NeedsAt DEF IInv, LockInv, LockType
    <3> QED  BY <1>1, <1>2, <2>1, <2>2, <3>1, <3>2, NoWorkFits
  <2>3. CASE ~(op[c] = "wait" /\ work[c].ticket = work[p].ticket)
    <3>1. /\ op' = [op EXCEPT ![p] = "idle"] /\ work' = [work EXCEPT ![p] = NoWork]
      BY <2>3 DEF Reply
    <3> QED  BY <1>1, <2>1, <3>1, NoWorkFits
  <2> QED  BY <2>2, <2>3
<1>4. \A a \in accepted' : a \in accepted \/ /\ work[p].height # 0
                                             /\ a = [client |-> c, height |-> work[p].height]
  BY DEF Reply
<1> HIDE DEF p, c
<1>5. LockInv'
  <2>1. Turn
    BY <1>1, <1>3 DEF Turn
  <2> QED  BY <2>1, TurnKeeps DEF IInv
<1>6. WorkFits'
  <2>1. \A u \in Tasks : Fits(u, op[u], work[u])'
    <3> SUFFICES ASSUME NEW u \in Tasks PROVE Fits(u, op[u], work[u])'
      OBVIOUS
    <3>1. CASE op'[u] = op[u] /\ work'[u] = work[u]
      BY <3>1, <1>1, SettledStays DEF IInv, StateInv, WorkFits
    <3>2. CASE op'[u] = "idle" /\ work'[u] = NoWork
      BY <3>2, <1>1, NoWorkFits, SettledStays
    <3> QED  BY <1>3, <3>1, <3>2
  <2> QED  BY <1>1, <1>3, <2>1 DEF IInv, StateInv, WorkFits
<1>7. StateType' /\ StoreWhole'
  BY <1>1 DEF IInv, StateInv, StateType, StoreWhole
<1>8. MemoryFollows'
  <2>1. \A u \in Tasks : (op'[u] = "persist" <=> op[u] = "persist")
                         /\ (op'[u] = "persist" => work'[u] = work[u])
    BY <1>3
  <2>2. ChainView' = ChainView
    BY <1>1, <2>1, ChainViewSame
  <2>3. Covered(ChainView)'
    BY <1>1, <2>2, SettledStays DEF IInv, StateInv, MemoryFollows
  <2> QED  BY <1>1, <2>1, <2>2, <2>3 DEF IInv, StateInv, MemoryFollows
<1>9. AcceptedStored'
  BY <1>1, <1>2, <1>4, SettledStays DEF IInv, StateInv, AcceptedStored
<1>10. CallsSee'
  <2>1. PoolView' = PoolView /\ Confirmed' = Confirmed
    <3>1. \A u \in Tasks : work'[u].removed = work[u].removed
      BY <1>3, NoWorkFits DEF IInv, StateInv, WorkFits, Fits
    <3> QED  BY <1>1, <3>1, PoolViewSame DEF Confirmed
  <2> QED  BY <1>1, <1>3, <2>1, ClientFacts DEF IInv, StateInv, CallsSee
<1> QED  BY <1>5, <1>6, <1>7, <1>8, <1>9, <1>10 DEF IInv, StateInv

---------------------------------------------------------------------------
(* opl_getTransaction. *)

(* A client turns to something else; the state of the node stays. *)
LEMMA ClientTurns ==
  ASSUME IInv, NEW c \in Clients, NEW o \in Ops \ {"persist"}, NEW w, Fits(c, o, w),
         op[c] # "persist",
         op' = [op EXCEPT ![c] = o], work' = [work EXCEPT ![c] = w],
         mem' = mem, pool' = pool, info' = info, store' = store, running' = running,
         accepted' = accepted, lost' = lost, submissions' = submissions, used' \in Nat,
         calls' \in [Clients -> SUBSET [tx : Txs, seen : SUBSET S!Statuses]],
         told' \in [Clients -> S!Statuses]
  PROVE  /\ WorkFits' /\ StateType' /\ StoreWhole' /\ MemoryFollows' /\ AcceptedStored'
         /\ PoolView' = PoolView /\ Confirmed' = Confirmed /\ ChainView' = ChainView
         /\ op'[c] = o /\ work'[c] = w
         /\ \A u \in Tasks : u # c => op'[u] = op[u] /\ work'[u] = work[u]
<1>1. c \in Tasks
  BY ClientFacts
<1>2. /\ op'[c] = o /\ work'[c] = w
      /\ \A u \in Tasks : u # c => op'[u] = op[u] /\ work'[u] = work[u]
  BY <1>1 DEF IInv, LockInv, LockType, StateInv, WorkFits
<1>3. w \in WorkRecord /\ w.removed = {} /\ work[c].removed = {}
  BY <1>1 DEF Fits, IInv, StateInv, WorkFits
<1>4. PoolView' = PoolView /\ Confirmed' = Confirmed
  BY <1>2, <1>3, PoolViewSame DEF Confirmed
<1>5. WorkFits'
  <2>1. \A u \in Tasks : Fits(u, op[u], work[u])'
    <3> SUFFICES ASSUME NEW u \in Tasks PROVE Fits(u, op[u], work[u])'
      OBVIOUS
    <3>1. CASE u = c
      BY <3>1, <1>2, SettledStays
    <3>2. CASE u # c
      BY <3>2, <1>2, SettledStays DEF IInv, StateInv, WorkFits
    <3> QED  BY <3>1, <3>2
  <2>2. work' \in [Tasks -> WorkRecord]
    BY <1>3 DEF IInv, StateInv, WorkFits
  <2> QED  BY <2>1, <2>2 DEF IInv, StateInv, WorkFits
<1>6. StateType' /\ StoreWhole' /\ AcceptedStored'
  BY SettledStays DEF IInv, StateInv, StateType, StoreWhole, AcceptedStored
<1>7. MemoryFollows' /\ ChainView' = ChainView
  <2>1. \A u \in Tasks : op[u] = "persist" <=> op'[u] = "persist"
    BY <1>1, <1>2
  <2>2. ChainView' = ChainView
    BY <2>1, ChainViewSame
  <2>3. Covered(ChainView)'
    BY <2>2, SettledStays DEF IInv, StateInv, MemoryFollows
  <2> QED  BY <1>1, <1>2, <2>1, <2>2, <2>3 DEF IInv, StateInv, MemoryFollows
<1> QED  BY <1>2, <1>4, <1>5, <1>6, <1>7

LEMMA GetTransactionStep ==
  ASSUME IInv, NEW c \in Clients, NEW x \in Txs, GetTransaction(c, x)
  PROVE  IInv'
<1> DEFINE w == [NoWork EXCEPT !.txs = {x}]
           q == [tx |-> x, seen |-> {S!StatusIn(x, PoolView, Confirmed)}]
<1>1. /\ Used /\ Start(c, "pool_tx", w) /\ op[c] = "idle" /\ c \in Tasks
      /\ op' = [op EXCEPT ![c] = "pool_tx"] /\ work' = [work EXCEPT ![c] = w]
      /\ mem' = mem /\ pool' = pool /\ info' = info /\ store' = store /\ running' = running
      /\ accepted' = accepted /\ lost' = lost /\ submissions' = submissions
      /\ calls' = [calls EXCEPT ![c] = {q}] /\ told' = told
  BY ClientFacts DEF GetTransaction, Start, stateVars
<1>2. w \in WorkRecord /\ w.removed = {} /\ w.txs = {x}
  BY DEF NoWork, WorkRecord
<1>3. Fits(c, "pool_tx", w) /\ "pool_tx" \in Ops \ {"persist"}
  BY <1>2, ClientFacts DEF Fits, ClientOps, Ops
<1>4. q \in [tx : Txs, seen : SUBSET S!Statuses] /\ q.tx = x
      /\ q.seen = {S!StatusIn(x, PoolView, Confirmed)}
  BY DEF S!StatusIn, S!Statuses
<1> HIDE DEF w, q
<1>5. /\ calls' \in [Clients -> SUBSET [tx : Txs, seen : SUBSET S!Statuses]]
      /\ told' \in [Clients -> S!Statuses] /\ used' \in Nat
      /\ calls'[c] = {q} /\ \A d \in Clients : d # c => calls'[d] = calls[d]
  <2>1. used' \in Nat
    BY <1>1 DEF Used, IInv, StateInv, StateType
  <2> QED  BY <1>1, <1>4, <2>1 DEF IInv, StateInv, StateType
<1>6. LockInv'
  BY <1>1, <1>3, StartTurns DEF IInv
<1>7. /\ WorkFits' /\ StateType' /\ StoreWhole' /\ MemoryFollows' /\ AcceptedStored'
      /\ PoolView' = PoolView /\ Confirmed' = Confirmed
      /\ op'[c] = "pool_tx" /\ work'[c] = w
      /\ \A u \in Tasks : u # c => op'[u] = op[u] /\ work'[u] = work[u]
  BY <1>1, <1>3, <1>5, ClientTurns
<1>8. CallsSee'
  <2> SUFFICES ASSUME NEW d \in Clients
               PROVE  /\ calls'[d] # {} <=> op'[d] \in {"pool_tx", "load_tx"}
                      /\ \A r \in calls'[d] :
                           /\ work'[d].txs = {r.tx}
                           /\ S!StatusIn(r.tx, PoolView', Confirmed') \in r.seen
                           /\ op'[d] = "load_tx" =>
                                (IF r.tx \in Confirmed' THEN "confirmed" ELSE "unknown") \in r.seen
    BY DEF CallsSee
  <2>1. CASE d = c
    BY <2>1, <1>2, <1>4, <1>5, <1>7
  <2>2. CASE d # c
    BY <2>2, <1>5, <1>7, ClientFacts DEF IInv, StateInv, CallsSee
  <2> QED  BY <2>1, <2>2
<1> QED  BY <1>6, <1>7, <1>8 DEF IInv, StateInv

LEMMA TellKeeps ==
  ASSUME IInv, NEW c \in Clients, NEW s \in S!Statuses, Tell(c, s),
         op[c] \in {"pool_tx", "load_tx"}
  PROVE  IInv'
<1>1. /\ GoOn(c, "idle", NoWork) /\ c \in Tasks
      /\ op' = [op EXCEPT ![c] = "idle"] /\ work' = [work EXCEPT ![c] = NoWork]
      /\ mem' = mem /\ pool' = pool /\ info' = info /\ store' = store /\ running' = running
      /\ accepted' = accepted /\ submissions' = submissions /\ used' = used /\ lost' = lost
      /\ calls' = [calls EXCEPT ![c] = {}] /\ told' = [told EXCEPT ![c] = s]
  BY ClientFacts DEF Tell, GoOn, stateVars
<1>2. Fits(c, "idle", NoWork) /\ "idle" \in Ops \ {"persist"}
  BY <1>1, NoWorkFits DEF Ops
<1>3. /\ calls' \in [Clients -> SUBSET [tx : Txs, seen : SUBSET S!Statuses]]
      /\ told' \in [Clients -> S!Statuses] /\ used' \in Nat
      /\ calls'[c] = {} /\ \A d \in Clients : d # c => calls'[d] = calls[d]
  BY <1>1 DEF IInv, StateInv, StateType
<1>4. LockInv'
  BY <1>1, <1>2, ReleaseKeeps DEF IInv
<1>5. /\ WorkFits' /\ StateType' /\ StoreWhole' /\ MemoryFollows' /\ AcceptedStored'
      /\ PoolView' = PoolView /\ Confirmed' = Confirmed
      /\ op'[c] = "idle"
      /\ \A u \in Tasks : u # c => op'[u] = op[u] /\ work'[u] = work[u]
  BY <1>1, <1>2, <1>3, ClientTurns
<1>6. CallsSee'
  <2> SUFFICES ASSUME NEW d \in Clients
               PROVE  /\ calls'[d] # {} <=> op'[d] \in {"pool_tx", "load_tx"}
                      /\ \A r \in calls'[d] :
                           /\ work'[d].txs = {r.tx}
                           /\ S!StatusIn(r.tx, PoolView', Confirmed') \in r.seen
                           /\ op'[d] = "load_tx" =>
                                (IF r.tx \in Confirmed' THEN "confirmed" ELSE "unknown") \in r.seen
    BY DEF CallsSee
  <2>1. CASE d = c
    BY <2>1, <1>3, <1>5
  <2>2. CASE d # c
    BY <2>2, <1>3, <1>5, ClientFacts DEF IInv, StateInv, CallsSee
  <2> QED  BY <2>1, <2>2
<1> QED  BY <1>4, <1>5, <1>6 DEF IInv, StateInv

(* A client that finds no writer in line for the pool finds in it all that *)
(* has not been written to the database.                                   *)
LEMMA PoolIsWhole ==
  ASSUME IInv, NEW c \in Clients, Holds(c, "pool_tx")
  PROVE  PoolView = pool
<1>1. Peek("mempool")
  BY DEF Holds, Peeks
<1>2. \A u \in Tasks : op[u] # "persist"
  BY <1>1, PersistHolds DEF Peek, IInv
<1>3. \A u \in Tasks : work[u].removed = {}
  BY <1>2 DEF IInv, StateInv, WorkFits, Fits
<1> QED  BY <1>3 DEF PoolView

LEMMA LookInPoolStep ==
  ASSUME IInv, NEW c \in Clients, LookInPool(c)
  PROVE  IInv'
<1>1. op[c] = "pool_tx" /\ c \in Tasks /\ Holds(c, "pool_tx") /\ PoolView = pool
  BY PoolIsWhole, ClientFacts DEF LookInPool, Holds
<1>2. CASE work[c].txs \subseteq pool
  BY <1>1, <1>2, TellKeeps DEF LookInPool, S!Statuses
<1>3. CASE ~(work[c].txs \subseteq pool)
  <2>1. /\ GoOn(c, "load_tx", work[c])
        /\ op' = [op EXCEPT ![c] = "load_tx"] /\ work' = [work EXCEPT ![c] = work[c]]
        /\ mem' = mem /\ pool' = pool /\ info' = info /\ store' = store /\ running' = running
        /\ accepted' = accepted /\ submissions' = submissions /\ used' = used
        /\ calls' = calls /\ told' = told /\ lost' = lost
    BY <1>3 DEF LookInPool, GoOn, stateVars, clientVars
  <2>2. Fits(c, "load_tx", work[c]) /\ "load_tx" \in Ops \ {"persist"}
    BY <1>1, ClientFacts DEF IInv, StateInv, WorkFits, Fits, ClientOps, Ops
  <2>3. /\ calls' \in [Clients -> SUBSET [tx : Txs, seen : SUBSET S!Statuses]]
        /\ told' \in [Clients -> S!Statuses] /\ used' \in Nat
    BY <2>1 DEF IInv, StateInv, StateType
  <2>4. LockInv'
    BY <1>1, <2>1, <2>2, ReleaseKeeps DEF IInv
  <2>5. /\ WorkFits' /\ StateType' /\ StoreWhole' /\ MemoryFollows' /\ AcceptedStored'
        /\ PoolView' = PoolView /\ Confirmed' = Confirmed
        /\ op'[c] = "load_tx" /\ work'[c] = work[c]
        /\ \A u \in Tasks : u # c => op'[u] = op[u] /\ work'[u] = work[u]
    BY <1>1, <2>1, <2>2, <2>3, ClientTurns
  <2>6. \A q \in calls[c] : /\ work[c].txs = {q.tx} /\ q.tx \notin pool
                            /\ S!StatusIn(q.tx, pool, Confirmed) \in q.seen
    BY <1>1, <1>3 DEF IInv, StateInv, CallsSee
  <2>7. \A q \in calls[c] :
          (IF q.tx \in Confirmed THEN "confirmed" ELSE "unknown") \in q.seen
    BY <2>6 DEF S!StatusIn
  <2>8. CallsSee'
    <3> SUFFICES ASSUME NEW d \in Clients
                 PROVE  /\ calls'[d] # {} <=> op'[d] \in {"pool_tx", "load_tx"}
                        /\ \A r \in calls'[d] :
                             /\ work'[d].txs = {r.tx}
                             /\ S!StatusIn(r.tx, PoolView', Confirmed') \in r.seen
                             /\ op'[d] = "load_tx" =>
                                  (IF r.tx \in Confirmed' THEN "confirmed" ELSE "unknown") \in r.seen
      BY DEF CallsSee
    <3>1. CASE d = c
      BY <3>1, <1>1, <2>1, <2>5, <2>7 DEF IInv, StateInv, CallsSee
    <3>2. CASE d # c
      BY <3>2, <2>1, <2>5, ClientFacts DEF IInv, StateInv, CallsSee
    <3> QED  BY <3>1, <3>2
  <2> QED  BY <2>4, <2>5, <2>8 DEF IInv, StateInv
<1> QED  BY <1>2, <1>3

(* What the database answers is a status the request has seen. *)
LEMMA LoadTransactionTells ==
  ASSUME IInv, NEW c \in Clients, LoadTransaction(c)
  PROVE  \E s \in S!Statuses : Tell(c, s) /\ \A q \in calls[c] : s \in q.seen
<1> DEFINE found == \A t \in work[c].txs :
                      /\ store.txs[t] \in DOMAIN store.blocks
                      /\ t \in store.blocks[store.txs[t]].txs
           s == IF found THEN "confirmed" ELSE "unknown"
<1>1. Tell(c, s) /\ op[c] = "load_tx"
  BY DEF LoadTransaction, Holds
<1>2. \A x \in Txs : x \in Confirmed <=>
        store.txs[x] \in DOMAIN store.blocks /\ x \in store.blocks[store.txs[x]].txs
  <2>1. /\ store.txs \in [Txs -> Nat] /\ store.blocks \in Blocks
        /\ \A x \in Txs : store.txs[x] > 0 => /\ store.txs[x] \in DOMAIN store.blocks
                                              /\ x \in store.blocks[store.txs[x]].txs
    BY DEF IInv, StateInv, StateType, StoreWhole
  <2>2. \A h \in DOMAIN store.blocks : h > 0
    BY DEF IInv, StateInv, StoreWhole
  <2> QED  BY <2>1, <2>2 DEF Confirmed
<1>3. ASSUME NEW q \in calls[c] PROVE s \in q.seen
  <2>1. q.tx \in Txs /\ work[c].txs = {q.tx}
    BY DEF IInv, StateInv, StateType, CallsSee
  <2>2. found <=> q.tx \in Confirmed
    BY <2>1, <1>2
  <2>3. (IF q.tx \in Confirmed THEN "confirmed" ELSE "unknown") \in q.seen
    BY <1>1 DEF IInv, StateInv, CallsSee
  <2> HIDE DEF found
  <2> QED  BY <2>2, <2>3
<1>4. s \in S!Statuses
  BY DEF S!Statuses
<1> QED  BY <1>1, <1>3, <1>4

LEMMA LoadTransactionStep ==
  ASSUME IInv, NEW c \in Clients, LoadTransaction(c)
  PROVE  IInv'
<1>1. PICK s \in S!Statuses : Tell(c, s)
  BY LoadTransactionTells
<1>2. op[c] = "load_tx"
  BY DEF LoadTransaction, Holds
<1> QED  BY <1>1, <1>2, TellKeeps

---------------------------------------------------------------------------
(* Start and restart. *)

LEMMA InitInv == Init => IInv
<1> SUFFICES ASSUME Init PROVE IInv
  OBVIOUS
<1>1. LockInv
  BY FreshLocks DEF Init, Fresh
<1>2. WorkFits
  BY NoWorkFits DEF Init, WorkFits
<1>3. StateType
  <2>1. store.blocks \in [{} -> Block]
    BY DEF Init
  <2>2. store.blocks \in Blocks
    BY <2>1 DEF Blocks
  <2>3. store \in [blocks : Blocks, chain_state : Nat, accounts : Nat, refiners : Nat,
                   txs : [Txs -> Nat]]
    BY <2>2 DEF Init
  <2> QED  BY <2>3 DEF Init, StateType, S!Statuses
<1>4. StoreWhole /\ AcceptedStored
  BY DEF Init, StoreWhole, AcceptedStored
<1>m. MemoryFollows
  <2>1. ChainView = 0
    BY DEF Init, ChainView, Persisting
  <2> QED  BY <2>1 DEF Init, MemoryFollows, Covered
<1>5. CallsSee
  BY ClientFacts DEF Init, CallsSee
<1> QED  BY <1>1, <1>2, <1>3, <1>4, <1>m, <1>5 DEF IInv, StateInv

LEMMA RestartStep ==
  ASSUME IInv, NEW d, Restart(d)
  PROVE  IInv'
<1>1. LockInv'
  <2>1. Fresh'
    BY DEF Restart, Fresh
  <2> QED  BY <2>1, FreshLocks, PTL
<1>2. /\ op' = [t \in Tasks |-> "idle"] /\ work' = [t \in Tasks |-> NoWork]
      /\ pool' = {} /\ info' = store.chain_state /\ store' = store
      /\ told' = told /\ accepted' = accepted /\ calls' = [c \in Clients |-> {}]
      /\ submissions' = <<>> /\ used' = used + 1 /\ lost' = lost /\ running
      /\ running' = (LoadState(d) # {})
      /\ mem' \in (IF LoadState(d) = {} THEN {mem} ELSE LoadState(d))
  BY DEF Restart, Used
<1>3. /\ store.chain_state \in Nat /\ store.accounts = store.chain_state
      /\ store.refiners = store.chain_state
  BY DEF IInv, StateInv, StateType, StoreWhole
<1>4. /\ mem' \in [chain : Nat, accounts : Nat, refiners : Nat] /\ running' \in BOOLEAN
      /\ running' => /\ mem'.chain = store.chain_state /\ mem'.accounts = store.chain_state
                     /\ mem'.refiners = store.chain_state
  <2>1. mem \in [chain : Nat, accounts : Nat, refiners : Nat]
    BY DEF IInv, StateInv, StateType
  <2>2. CASE d = {}
    <3>1. LoadState(d) = {[chain |-> store.chain_state, accounts |-> store.accounts,
                           refiners |-> store.refiners]}
      BY <2>2 DEF LoadState
    <3>2. mem' = [chain |-> store.chain_state, accounts |-> store.accounts,
                  refiners |-> store.refiners]
      BY <1>2, <3>1
    <3> QED  BY <1>2, <1>3, <3>1, <3>2
  <2>3. CASE d # {}
    <3>1. LoadState(d) = {}
      BY <2>3 DEF LoadState
    <3> QED  BY <1>2, <2>1, <3>1
  <2> QED  BY <2>2, <2>3
<1>5. WorkFits'
  <2>1. \A t \in Tasks : Fits(t, op[t], work[t])'
    <3>1. \A t \in Tasks : Fits(t, "idle", NoWork) /\ op'[t] = "idle" /\ work'[t] = NoWork
      BY <1>2, NoWorkFits
    <3> QED  BY <1>2, <3>1, SettledStays
  <2> QED  BY <1>2, <2>1, NoWorkFits DEF WorkFits
<1>6. StateType' /\ StoreWhole' /\ AcceptedStored'
  BY <1>2, <1>4, SettledStays DEF IInv, StateInv, StateType, StoreWhole, AcceptedStored
<1>7. MemoryFollows'
  <2>1. ChainView' = store.chain_state
    BY <1>2, <1>4 DEF ChainView, Persisting
  <2>2. /\ store.chain_state <= ChainView /\ ChainView \in Nat /\ Covered(ChainView)
    BY ChainViewType DEF IInv, StateInv, MemoryFollows
  <2>3. PICK n : n = store.chain_state
    OBVIOUS
  <2>4. Covered(n)
    BY <1>3, <2>2, <2>3 DEF Covered
  <2>5. Covered(ChainView)'
    BY <1>2, <2>1, <2>3, <2>4, SettledStays
  <2> QED  BY <1>2, <1>3, <1>4, <2>1, <2>5 DEF MemoryFollows
<1>8. CallsSee'
  BY <1>2, ClientFacts DEF CallsSee
<1> QED  BY <1>1, <1>5, <1>6, <1>7, <1>8 DEF IInv, StateInv

LEMMA NextInv == IInv /\ [Next]_vars => IInv'
<1> SUFFICES ASSUME IInv, [Next]_vars PROVE IInv'
  OBVIOUS
<1>1. ASSUME NEW t \in Tasks, Work(t) PROVE IInv'
  <2>1. CASE Acquire(t)
    BY <2>1, AcquireStep
  <2>2. CASE t \in Producers /\ (Execute(t) \/ Persist(t) \/ Refresh(t))
    BY <2>2, ExecuteStep, PersistStep, RefreshStep
  <2>3. CASE ReadNonce(t) \/ ReadFee(t)
    BY <2>3, ReadStep
  <2>4. CASE Insert(t) \/ (t = "network" /\ Expire)
    BY <2>4, PoolStep
  <2>5. CASE t = "miner" /\ Build
    BY <2>5, BuildStep
  <2>6. CASE t = "processor" /\ (Process \/ Reply)
    BY <2>6, ProcessStep, ReplyStep
  <2>7. CASE t \in Clients /\ (AnswerQuery(t) \/ ReadHeight(t) \/ AnswerScan(t))
    BY <2>7, AnswerStep
  <2>8. CASE t \in Clients /\ (LookInPool(t) \/ LoadTransaction(t))
    BY <2>8, LookInPoolStep, LoadTransactionStep
  <2>9. \/ Acquire(t)
        \/ t \in Producers /\ (Execute(t) \/ Persist(t) \/ Refresh(t))
        \/ ReadNonce(t) \/ ReadFee(t)
        \/ Insert(t) \/ (t = "network" /\ Expire)
        \/ t = "miner" /\ Build
        \/ t = "processor" /\ (Process \/ Reply)
        \/ t \in Clients /\ (AnswerQuery(t) \/ ReadHeight(t) \/ AnswerScan(t))
        \/ t \in Clients /\ (LookInPool(t) \/ LoadTransaction(t))
    BY <1>1 DEF Work
  <2> QED  BY <2>1, <2>2, <2>3, <2>4, <2>5, <2>6, <2>7, <2>8, <2>9
<1>2. ASSUME NEW c \in Clients, Request(c) \/ Timeout(c) PROVE IInv'
  <2>1. CASE \E x \in Txs : GetTransaction(c, x)
    BY <2>1, GetTransactionStep
  <2>2. CASE \/ \E o \in {"chain_info", "refiners", "mining_job", "history"} : Query(c, o)
             \/ \E x \in Txs : SendTransaction(c, x)
             \/ \E h \in Offered : SubmitSolution(c, h)
    BY <2>2, QueryStep
  <2>3. CASE Timeout(c)
    BY <2>3, AnswerStep
  <2> QED  BY <1>2, <2>1, <2>2, <2>3 DEF Request
<1>3. CASE \/ MineBlock \/ EvictTick
           \/ \E h \in Offered, txs \in SUBSET Txs : ReceiveBlock(h, txs)
           \/ \E x \in Txs : ReceiveTransaction(x)
  BY <1>3, StartStep
<1>4. CASE \E d \in SUBSET {"chain_state", "accounts", "refiners"} : Restart(d)
  BY <1>4, RestartStep
<1>5. CASE UNCHANGED vars
  <2>1. /\ asked' = asked /\ after' = after /\ op' = op /\ step' = step /\ work' = work
        /\ mem' = mem /\ pool' = pool
        /\ info' = info /\ store' = store /\ running' = running /\ calls' = calls
        /\ told' = told /\ accepted' = accepted /\ submissions' = submissions /\ used' = used
        /\ lost' = lost
    BY <1>5 DEF vars, taskVars, lockVars, stateVars, clientVars
  <2>2. LockInv'
    <3>1. Turn
      BY <2>1 DEF Turn, lockVars, IInv, LockInv, LockType
    <3> QED  BY <3>1, TurnKeeps DEF IInv
  <2>3. PoolView' = PoolView /\ Confirmed' = Confirmed /\ ChainView' = ChainView
    BY <2>1 DEF PoolView, Confirmed, ChainView, Persisting
  <2>4. WorkFits'
    BY <2>1, SettledStays DEF IInv, StateInv, WorkFits
  <2>5. StateType' /\ StoreWhole' /\ AcceptedStored' /\ MemoryFollows'
    BY <2>1, <2>3, SettledStays
       DEF IInv, StateInv, StateType, StoreWhole, AcceptedStored, MemoryFollows
  <2>6. CallsSee'
    BY <2>1, <2>3 DEF IInv, StateInv, CallsSee
  <2> QED  BY <2>2, <2>4, <2>5, <2>6 DEF IInv, StateInv
<1> QED  BY <1>1, <1>2, <1>3, <1>4, <1>5 DEF Next

(* The inductive invariant holds at all times. *)
THEOREM NodeInvariant == Spec => []IInv
<1>1. Init => IInv
  BY InitInv
<1>2. IInv /\ [Next]_vars => IInv'
  BY NextInv
<1> QED  BY <1>1, <1>2, PTL DEF Spec

(* Whatever the node crashes into, it runs on chain state, accounts and    *)
(* refiners of one height, with the snapshot not ahead of them.            *)
THEOREM StateIsWhole == Spec => []StateWhole
<1>1. IInv => StateWhole
  <2> SUFFICES ASSUME IInv, running
               PROVE  mem.chain = mem.accounts /\ mem.chain = mem.refiners /\ info <= mem.chain
    BY DEF StateWhole
  <2>1. mem.accounts = mem.chain /\ mem.refiners = mem.chain /\ info <= ChainView
    BY DEF IInv, StateInv, MemoryFollows
  <2>2. info \in Nat
    BY DEF IInv, StateInv, StateType
  <2> QED  BY <2>1, <2>2, ChainViewType
<1> QED  BY <1>1, NodeInvariant, PTL

(* A client that was told "accepted" finds its block in the database,     *)
(* whatever else fails, unless the write of that block did.               *)
THEOREM AcceptedStaysStored == Spec => []AcceptedIsStored
<1>1. IInv => AcceptedIsStored
  <2> SUFFICES ASSUME IInv, NEW a \in accepted \ lost PROVE IsSaved(a.height, a.client)
    BY DEF AcceptedIsStored, IsSaved
  <2>1. Settled(a.height, a.client) /\ a = [client |-> a.client, height |-> a.height]
    BY DEF IInv, StateInv, AcceptedStored
  <2> QED  BY <2>1 DEF Settled
<1> QED  BY <1>1, NodeInvariant, PTL

(* A client that is shown a height gets every block up to it whose write   *)
(* has not failed.                                                         *)
THEOREM HistoryIsComplete == Spec => []HistoryComplete
<1>1. IInv => HistoryComplete
  <2> SUFFICES ASSUME IInv, NEW c \in Clients, op[c] = "scan", NEW h \in 1 .. work[c].height
               PROVE  h \in Scanned(c) \cup LostHeights
    BY DEF HistoryComplete, LostHeights
  <2>1. Covered(work[c].height)
    BY ClientFacts DEF IInv, StateInv, WorkFits, Fits
  <2> QED  BY <2>1 DEF Scanned, Covered
<1> QED  BY <1>1, NodeInvariant, PTL

---------------------------------------------------------------------------
(* The orders in which the locks are taken exclude a deadlock. *)

LEMMA NeedsWhere ==
  \A o \in Ops : \A k \in 1 .. Len(Needs(o)) :
    /\ Needs(o)[k].lock = "mempool" => k = Len(Needs(o))
    /\ Needs(o)[k].lock = "refiners" =>
         \/ o \in {"apply", "persist", "build"} /\ k = 3
         \/ o \in {"chain_info", "mining_job"} /\ k = 2
         \/ o = "refiners" /\ k = 1
    /\ Needs(o)[k].lock = "info" =>
         \/ o \in {"chain_info", "mining_job"} /\ k = 1
         \/ o \in {"refresh", "refiners"} /\ k = 2
    /\ Needs(o)[k].lock = "accounts" => o \in {"apply", "persist", "build"} /\ k = 2
    /\ Needs(o)[k].lock = "chain" => o \in {"apply", "persist", "build", "refresh"} /\ k = 1
<1> DEFINE P(o, k) ==
      /\ Needs(o)[k].lock = "mempool" => k = Len(Needs(o))
      /\ Needs(o)[k].lock = "refiners" =>
           \/ o \in {"apply", "persist", "build"} /\ k = 3
           \/ o \in {"chain_info", "mining_job"} /\ k = 2
           \/ o = "refiners" /\ k = 1
      /\ Needs(o)[k].lock = "info" =>
           \/ o \in {"chain_info", "mining_job"} /\ k = 1
           \/ o \in {"refresh", "refiners"} /\ k = 2
      /\ Needs(o)[k].lock = "accounts" => o \in {"apply", "persist", "build"} /\ k = 2
      /\ Needs(o)[k].lock = "chain" => o \in {"apply", "persist", "build", "refresh"} /\ k = 1
<1> SUFFICES ASSUME NEW o \in Ops, NEW k \in 1 .. Len(Needs(o)) PROVE P(o, k)
  OBVIOUS
<1>1. CASE o \in {"apply", "persist", "build"}
  <2>0. Len(Needs(o)) = 4
    BY <1>1, NeedsAt
  <2>1. k = 1 \/ k = 2 \/ k = 3 \/ k = 4
    BY <2>0
  <2>2. /\ Len(Needs(o)) = 4 /\ Needs(o)[1].lock = "chain" /\ Needs(o)[2].lock = "accounts"
        /\ Needs(o)[3].lock = "refiners" /\ Needs(o)[4].lock = "mempool"
    BY <1>1, NeedsAt DEF Read, Write
  <2> QED  BY <1>1, <2>1, <2>2
<1>2. CASE o = "refresh"
  <2>0. Len(Needs(o)) = 2
    BY <1>2, NeedsAt
  <2>1. k = 1 \/ k = 2
    BY <2>0
  <2> QED  BY <1>2, <2>0, <2>1, NeedsAt DEF Read, Write
<1>3. CASE o \in {"insert", "expire"}
  <2>0. Len(Needs(o)) = 1
    BY <1>3, NeedsAt
  <2>1. k = 1
    BY <2>0
  <2> QED  BY <1>3, <2>0, <2>1, NeedsAt DEF Read, Write
<1>4. CASE o = "chain_info"
  <2>0. Len(Needs(o)) = 2
    BY <1>4, NeedsAt
  <2>1. k = 1 \/ k = 2
    BY <2>0
  <2> QED  BY <1>4, <2>0, <2>1, NeedsAt DEF Read, Write
<1>5. CASE o = "refiners"
  <2>0. Len(Needs(o)) = 2
    BY <1>5, NeedsAt
  <2>1. k = 1 \/ k = 2
    BY <2>0
  <2> QED  BY <1>5, <2>0, <2>1, NeedsAt DEF Read, Write
<1>6. CASE o = "mining_job"
  <2>0. Len(Needs(o)) = 3
    BY <1>6, NeedsAt
  <2>1. k = 1 \/ k = 2 \/ k = 3
    BY <2>0
  <2>2. Needs(o)[1].lock = "info" /\ Needs(o)[2].lock = "refiners" /\ Needs(o)[3].lock = "mempool"
    BY <1>6, NeedsAt DEF Read
  <2> QED  BY <1>6, <2>0, <2>1, <2>2
<1>7. CASE Len(Needs(o)) = 0
  BY <1>7
<1> QED  BY <1>1, <1>2, <1>3, <1>4, <1>5, <1>6, <1>7, NeedsAt DEF Ops

(* Somebody is first in every line. *)
LEMMA FirstInLine ==
  ASSUME LockInv, NEW l \in Locks, NEW t \in Tasks, asked[l][t] # "no"
  PROVE  \E u \in Tasks : asked[l][u] # "no" /\ Granted(u, l)
<1>1. IsFiniteSet(Tasks)
  <2>1. IsFiniteSet(Producers)
    <3>1. IsFiniteSet({"miner"}) /\ IsFiniteSet({"network"}) /\ IsFiniteSet({"processor"})
      BY FS_Singleton
    <3>2. IsFiniteSet({"miner"} \cup {"network"})
      BY <3>1, FS_Union
    <3>3. IsFiniteSet(({"miner"} \cup {"network"}) \cup {"processor"})
      BY <3>1, <3>2, FS_Union
    <3>4. Producers = ({"miner"} \cup {"network"}) \cup {"processor"}
      BY DEF Producers
    <3> QED  BY <3>3, <3>4
  <2> QED  BY <2>1, NodeAssumption, FS_Union DEF Tasks
<1>2. \A u \in Tasks : IsFiniteSet(after[l][u]) /\ Cardinality(after[l][u]) \in Nat
  BY <1>1, FS_Subset, FS_CardinalityType DEF LockInv, LockType
<1> DEFINE First == \E u \in Tasks : asked[l][u] # "no" /\ after[l][u] = {}
           N == {n \in Nat : \A u \in Tasks :
                   asked[l][u] # "no" /\ Cardinality(after[l][u]) <= n => First}
<1>3. 0 \in N
  <2>1. ASSUME NEW u \in Tasks, asked[l][u] # "no", Cardinality(after[l][u]) <= 0
        PROVE  after[l][u] = {}
    BY <1>2, <2>1, FS_EmptySet
  <2> QED  BY <2>1
<1>4. ASSUME NEW n \in N PROVE n + 1 \in N
  <2> SUFFICES ASSUME NEW u \in Tasks, asked[l][u] # "no", Cardinality(after[l][u]) <= n + 1
               PROVE  First
    OBVIOUS
  <2>1. CASE after[l][u] = {}
    BY <2>1
  <2>2. CASE after[l][u] # {}
    <3>1. PICK v \in after[l][u] : TRUE
      BY <2>2
    <3>2. v \in Tasks /\ asked[l][v] # "no" /\ after[l][v] \subseteq after[l][u]
          /\ v \notin after[l][v]
      BY <3>1 DEF LockInv, LockType, InLine
    <3>3. Cardinality(after[l][v]) <= Cardinality(after[l][u])
          /\ Cardinality(after[l][v]) # Cardinality(after[l][u])
      BY <1>2, <3>1, <3>2, FS_Subset
    <3>4. Cardinality(after[l][v]) <= n
      BY <1>2, <3>2, <3>3
    <3> QED  BY <3>2, <3>4
  <2> QED  BY <2>1, <2>2
<1>5. N = Nat
  <2> HIDE DEF N
  <2>1. N \subseteq Nat
    BY DEF N
  <2> QED  BY <1>3, <1>4, <2>1, NatSetInduction
<1>6. First
  BY <1>2, <1>5
<1> QED  BY <1>6 DEF Granted

LEMMA LocksNeverDeadlock == IInv => NoDeadlock
<1> SUFFICES ASSUME IInv, \A t \in Tasks : op[t] \in {"idle", "wait"} \/ Waits(t)
             PROVE  \A t \in Tasks : op[t] \in {"idle", "wait"}
  BY DEF NoDeadlock
<1> USE DEF IInv
<1>1. \A t \in Tasks : op[t] \in Ops /\ step[t] \in Nat /\ step[t] <= Len(Needs(op[t]))
                       /\ Len(Needs(op[t])) \in Nat
  BY NeedsDistinct DEF LockInv, LockType
<1>2. \A t \in Tasks : step[t] > 0 => ~Granted(t, Needs(op[t])[step[t]].lock)
  <2> SUFFICES ASSUME NEW t \in Tasks, step[t] > 0, Granted(t, Needs(op[t])[step[t]].lock)
               PROVE  FALSE
    OBVIOUS
  <2>1. op[t] \notin {"idle", "wait", "nonce", "fee", "pool_tx", "history"}
    BY <1>1, NeedsAt
  <2>2. Waits(t) /\ Served(t)
    BY <2>1 DEF Served
  <2> QED  BY <2>1, <2>2 DEF Waits, Peeks
(* Who is granted a lock has gone on to ask for another. *)
<1>3. ASSUME NEW l \in Locks, NEW t \in Tasks, Granted(t, l)
      PROVE  \E k \in 1 .. Len(Needs(op[t])) : k < step[t] /\ Needs(op[t])[k].lock = l
  <2>1. asked[l][t] # "no"
    BY <1>3 DEF Granted
  <2>2. PICK k \in 1 .. step[t] : Needs(op[t])[k].lock = l
    BY <2>1 DEF LockInv, AskedInOrder
  <2>3. k # step[t]
    BY <1>2, <1>3, <2>2
  <2>4. k \in 1 .. Len(Needs(op[t])) /\ k < step[t]
    BY <1>1, <2>2, <2>3
  <2> QED  BY <2>2, <2>4
<1>4. ASSUME NEW t \in Tasks, NEW k \in 1 .. step[t]
      PROVE  asked[Needs(op[t])[k].lock][t] # "no"
  <2>1. Needs(op[t])[k].mode \in {"read", "write"}
    BY <1>1, NeedsDistinct
  <2> QED  BY <2>1 DEF LockInv, AskedInOrder
(* Nobody has asked for the pool, the last lock of all that need it. *)
<1>5. \A t \in Tasks : asked["mempool"][t] = "no"
  <2> SUFFICES ASSUME NEW t \in Tasks, asked["mempool"][t] # "no" PROVE FALSE
    OBVIOUS
  <2>1. PICK u \in Tasks : Granted(u, "mempool")
    BY FirstInLine DEF Locks
  <2>2. PICK k \in 1 .. Len(Needs(op[u])) : k < step[u] /\ Needs(op[u])[k].lock = "mempool"
    BY <1>3, <2>1 DEF Locks
  <2>3. k = Len(Needs(op[u]))
    BY <1>1, <2>2, NeedsWhere
  <2> QED  BY <1>1, <2>2, <2>3
<1>6. \A t \in Tasks : /\ op[t] \in {"apply", "persist", "build"} => step[t] < 4
                       /\ op[t] = "mining_job" => step[t] < 3
  <2> SUFFICES ASSUME NEW t \in Tasks,
                      \/ op[t] \in {"apply", "persist", "build"} /\ step[t] >= 4
                      \/ op[t] = "mining_job" /\ step[t] >= 3
               PROVE  FALSE
    BY <1>1
  <2>1. CASE op[t] \in {"apply", "persist", "build"} /\ step[t] >= 4
    <3>1. 4 \in 1 .. step[t] /\ Needs(op[t])[4].lock = "mempool"
      BY <1>1, <2>1, NeedsAt DEF Read, Write
    <3> QED  BY <1>4, <1>5, <3>1
  <2>2. CASE op[t] = "mining_job" /\ step[t] >= 3
    <3>1. 3 \in 1 .. step[t] /\ Needs(op[t])[3].lock = "mempool"
      BY <1>1, <2>2, NeedsAt DEF Read, Write
    <3> QED  BY <1>4, <1>5, <3>1
  <2> QED  BY <2>1, <2>2
(* Only opl_getRefiners holds the refiners, and waits for the snapshot. *)
<1>7. ASSUME NEW t \in Tasks, Granted(t, "refiners")
      PROVE  op[t] = "refiners" /\ step[t] = 2
  <2>1. PICK k \in 1 .. Len(Needs(op[t])) : k < step[t] /\ Needs(op[t])[k].lock = "refiners"
    BY <1>3, <1>7 DEF Locks
  <2>2. \/ op[t] \in {"apply", "persist", "build"} /\ k = 3
        \/ op[t] \in {"chain_info", "mining_job"} /\ k = 2
        \/ op[t] = "refiners" /\ k = 1
    BY <1>1, <2>1, NeedsWhere
  <2>3. CASE op[t] \in {"apply", "persist", "build"} /\ k = 3
    BY <1>1, <1>6, <2>1, <2>3
  <2>4. CASE op[t] = "chain_info" /\ k = 2
    <3>1. Len(Needs(op[t])) = 2
      BY <2>4, NeedsAt
    <3>2. step[t] \in Nat /\ step[t] <= 2
      BY <1>1, <3>1
    <3> QED  BY <2>1, <2>4, <3>2
  <2>5. CASE op[t] = "mining_job" /\ k = 2
    BY <1>1, <1>6, <2>1, <2>5
  <2>6. CASE op[t] = "refiners" /\ k = 1
    <3>1. Len(Needs(op[t])) = 2
      BY <2>6, NeedsAt
    <3>2. step[t] \in Nat /\ step[t] <= 2
      BY <1>1, <3>1
    <3> QED  BY <2>1, <2>6, <3>2
  <2> QED  BY <2>2, <2>3, <2>4, <2>5, <2>6
(* Nobody has asked for the snapshot. *)
<1>8. \A t \in Tasks : asked["info"][t] = "no"
  <2> SUFFICES ASSUME NEW t \in Tasks, asked["info"][t] # "no" PROVE FALSE
    OBVIOUS
  <2>1. PICK v \in Tasks : Granted(v, "info")
    BY FirstInLine DEF Locks
  <2>2. PICK k \in 1 .. Len(Needs(op[v])) : k < step[v] /\ Needs(op[v])[k].lock = "info"
    BY <1>3, <2>1 DEF Locks
  <2>3. op[v] \in {"chain_info", "mining_job"} /\ step[v] = 2
    <3>1. \/ op[v] \in {"chain_info", "mining_job"} /\ k = 1
          \/ op[v] \in {"refresh", "refiners"} /\ k = 2
      BY <1>1, <2>2, NeedsWhere
    <3>2. CASE op[v] \in {"refresh", "refiners"} /\ k = 2
      <4>1. Len(Needs(op[v])) = 2
        BY <3>2, NeedsAt
      <4>2. step[v] \in Nat /\ step[v] <= 2
        BY <1>1, <4>1
      <4> QED  BY <2>2, <3>2, <4>2
    <3>3. CASE op[v] = "chain_info" /\ k = 1
      <4>1. Len(Needs(op[v])) = 2
        BY <3>3, NeedsAt
      <4>2. step[v] \in Nat /\ step[v] <= 2
        BY <1>1, <4>1
      <4> QED  BY <2>2, <3>3, <4>2
    <3>4. CASE op[v] = "mining_job" /\ k = 1
      BY <1>1, <1>6, <2>2, <3>4
    <3> QED  BY <3>1, <3>2, <3>3, <3>4
  (* The first of them waits for the refiners, behind a block. *)
  <2>4. Needs(op[v])[2] = Read("refiners") /\ 2 \in 1 .. step[v]
    BY <2>3, NeedsAt
  <2>5. asked["refiners"][v] = "read" /\ ~Granted(v, "refiners")
    BY <1>2, <2>3, <2>4 DEF Read, LockInv, AskedInOrder
  <2>6. PICK w \in after["refiners"][v] : asked["refiners"][w] # "read"
    BY <2>5 DEF Granted
  <2>7. w \in Tasks /\ asked["refiners"][w] = "write"
    BY <2>6 DEF LockInv, LockType, InLine, Locks, Modes
  <2>8. op[w] = "apply" /\ step[w] = 3
    <3>1. PICK j \in 1 .. step[w] : Needs(op[w])[j].lock = "refiners"
      BY <2>7 DEF LockInv, AskedInOrder, Locks
    <3>2. j \in 1 .. Len(Needs(op[w])) /\ Needs(op[w])[j].mode = "write"
      BY <1>1, <2>7, <3>1 DEF LockInv, AskedInOrder
    <3>3. \/ op[w] \in {"apply", "persist", "build"} /\ j = 3
          \/ op[w] \in {"chain_info", "mining_job"} /\ j = 2
          \/ op[w] = "refiners" /\ j = 1
      BY <1>1, <2>7, <3>1, <3>2, NeedsWhere
    <3>4. op[w] \in {"apply", "persist"} /\ j = 3
      BY <3>2, <3>3, NeedsAt DEF Read
    <3>5. op[w] # "persist"
      BY <1>6, <2>7 DEF LockInv, HeldBefore
    <3> QED  BY <1>1, <1>6, <2>7, <3>1, <3>4, <3>5
  <2>9. Granted(w, "chain") /\ asked["chain"][w] = "write"
    <3>1. Needs(op[w])[1] = Write("chain") /\ 1 \in 1 .. step[w] /\ 1 < step[w]
      BY <2>8, NeedsAt
    <3> QED  BY <2>7, <3>1 DEF Write, LockInv, AskedInOrder, HeldBefore
  (* So no refresh has come as far as the snapshot, and all readers have it. *)
  <2>10. \A u \in Tasks : asked["info"][u] # "write"
    <3> SUFFICES ASSUME NEW u \in Tasks, asked["info"][u] = "write" PROVE FALSE
      OBVIOUS
    <3>1. PICK j \in 1 .. step[u] : Needs(op[u])[j].lock = "info"
      BY DEF LockInv, AskedInOrder, Locks
    <3>2. j \in 1 .. Len(Needs(op[u])) /\ Needs(op[u])[j].mode = "write"
      BY <1>1, <3>1 DEF LockInv, AskedInOrder
    <3>3. \/ op[u] \in {"chain_info", "mining_job"} /\ j = 1
          \/ op[u] \in {"refresh", "refiners"} /\ j = 2
      BY <1>1, <3>1, <3>2, NeedsWhere
    <3>4. op[u] = "refresh" /\ j = 2
      BY <3>2, <3>3, NeedsAt DEF Read
    <3>5. Needs(op[u])[1] = Read("chain") /\ 1 \in 1 .. step[u] /\ 1 < step[u]
      BY <1>1, <3>1, <3>4, NeedsAt
    <3>6. Granted(u, "chain")
      BY <3>5 DEF Read, LockInv, HeldBefore
    <3> QED  BY <2>7, <2>8, <2>9, <3>4, <3>6, Exclusion DEF Locks
  <2>11. \A u \in Tasks : asked["info"][u] # "no" => Granted(u, "info")
    <3>1. \A u \in Tasks : asked["info"][u] # "no" => asked["info"][u] = "read"
      BY <2>10 DEF LockInv, LockType, Locks, Modes
    <3>2. \A u \in Tasks : \A x \in after["info"][u] : x \in Tasks /\ asked["info"][x] # "no"
      BY DEF LockInv, LockType, InLine, Locks
    <3> QED  BY <3>1, <3>2 DEF Granted
  <2>12. PICK z \in Tasks : Granted(z, "refiners")
    BY <2>5, FirstInLine DEF Locks
  <2>13. op[z] = "refiners" /\ step[z] = 2
    BY <1>7, <2>12
  <2>14. Needs(op[z])[2].lock = "info" /\ 2 \in 1 .. step[z]
    BY <2>13, NeedsAt DEF Read
  <2>15. asked["info"][z] # "no"
    BY <1>4, <2>14
  <2> QED  BY <1>2, <2>11, <2>13, <2>14, <2>15
<1>9. \A t \in Tasks : asked["refiners"][t] = "no"
  <2> SUFFICES ASSUME NEW t \in Tasks, asked["refiners"][t] # "no" PROVE FALSE
    OBVIOUS
  <2>1. PICK z \in Tasks : Granted(z, "refiners")
    BY FirstInLine DEF Locks
  <2>2. op[z] = "refiners" /\ step[z] = 2
    BY <1>7, <2>1
  <2>3. Needs(op[z])[2].lock = "info" /\ 2 \in 1 .. step[z]
    BY <2>2, NeedsAt DEF Read
  <2> QED  BY <1>4, <1>8, <2>3
<1>10. \A t \in Tasks : asked["accounts"][t] = "no"
  <2> SUFFICES ASSUME NEW t \in Tasks, asked["accounts"][t] # "no" PROVE FALSE
    OBVIOUS
  <2>1. PICK z \in Tasks : Granted(z, "accounts")
    BY FirstInLine DEF Locks
  <2>2. PICK k \in 1 .. Len(Needs(op[z])) : k < step[z] /\ Needs(op[z])[k].lock = "accounts"
    BY <1>3, <2>1 DEF Locks
  <2>3. op[z] \in {"apply", "persist", "build"} /\ k = 2
    BY <1>1, <2>2, NeedsWhere
  <2>4. 3 \in 1 .. step[z] /\ Needs(op[z])[3].lock = "refiners"
    BY <1>1, <2>2, <2>3, NeedsAt DEF Read, Write
  <2> QED  BY <1>4, <1>9, <2>4
<1>11. \A t \in Tasks : asked["chain"][t] = "no"
  <2> SUFFICES ASSUME NEW t \in Tasks, asked["chain"][t] # "no" PROVE FALSE
    OBVIOUS
  <2>1. PICK z \in Tasks : Granted(z, "chain")
    BY FirstInLine DEF Locks
  <2>2. PICK k \in 1 .. Len(Needs(op[z])) : k < step[z] /\ Needs(op[z])[k].lock = "chain"
    BY <1>3, <2>1 DEF Locks
  <2>3. op[z] \in {"apply", "persist", "build", "refresh"} /\ k = 1
    BY <1>1, <2>2, NeedsWhere
  <2>4. 2 \in 1 .. step[z] /\ Needs(op[z])[2].lock \in {"accounts", "info"}
    BY <1>1, <2>2, <2>3, NeedsAt DEF Read, Write
  <2> QED  BY <1>4, <1>8, <1>10, <2>4
(* Nobody has asked for any lock, so nobody waits. *)
<1>12. \A t \in Tasks : \A l \in Locks : asked[l][t] = "no"
  BY <1>5, <1>8, <1>9, <1>10, <1>11 DEF Locks
<1>13. \A t \in Tasks : step[t] = 0
  <2> SUFFICES ASSUME NEW t \in Tasks, step[t] # 0 PROVE FALSE
    OBVIOUS
  <2>1. 1 \in 1 .. step[t] /\ 1 \in 1 .. Len(Needs(op[t]))
    BY <1>1
  <2>2. Needs(op[t])[1].lock \in Locks
    BY <1>1, <2>1, NeedsDistinct
  <2> QED  BY <1>4, <1>12, <2>1, <2>2
<1>14. \A t \in Tasks : ~Waits(t)
  <2>1. \A t \in Tasks : Peeks(t) \subseteq Locks
    BY DEF Peeks, Locks
  <2>2. \A l \in Locks : Peek(l)
    BY <1>12 DEF Peek
  <2> QED  BY <1>13, <2>1, <2>2 DEF Waits, Served
<1> QED  BY <1>14

(* The orders in which the handlers, the refreshes of the snapshot and     *)
(* apply_block take their locks never make them wait for each other.       *)
THEOREM NeverDeadlocked == Spec => []NoDeadlock
BY LocksNeverDeadlock, NodeInvariant, PTL

---------------------------------------------------------------------------
(* The node implements Service. *)

(* What no client can see. *)
LEMMA Unseen ==
  ASSUME IInv, IInv', pool' = pool, store' = store, info' = info, calls' = calls, told' = told,
         mem' = mem, running' = running,
         \A u \in Tasks : \/ work'[u] = work[u] /\ op'[u] = op[u]
                          \/ op[u] # "persist" /\ op'[u] # "persist"
  PROVE  UNCHANGED S!vars
<1>1. \A u \in Tasks : work'[u].removed = work[u].removed
  BY DEF IInv, StateInv, WorkFits, Fits
<1>2. PoolView' = PoolView /\ Confirmed' = Confirmed
  BY <1>1, PoolViewSame DEF Confirmed
<1>3. ChainView' = ChainView
  BY ChainViewSame
<1> QED  BY <1>2, <1>3 DEF S!vars

LEMMA ReleaseUnseen ==
  ASSUME IInv, IInv', NEW t \in Tasks, NEW o \in Ops \ {"persist"}, NEW w, GoOn(t, o, w),
         op[t] # "persist", UNCHANGED <<stateVars, running, clientVars, lost, used>>
  PROVE  UNCHANGED S!vars
<1>1. \A u \in Tasks : \/ work'[u] = work[u] /\ op'[u] = op[u]
                       \/ op[u] # "persist" /\ op'[u] # "persist"
  BY DEF GoOn, IInv, LockInv, LockType, StateInv, WorkFits
<1>2. /\ pool' = pool /\ store' = store /\ info' = info /\ calls' = calls /\ told' = told
      /\ mem' = mem /\ running' = running
  BY DEF stateVars, clientVars
<1> QED  BY <1>1, <1>2, Unseen

LEMMA StartUnseen ==
  ASSUME IInv, IInv', NEW t \in Tasks, NEW o \in Ops \ {"persist"}, NEW w, Start(t, o, w),
         calls' = calls, told' = told
  PROVE  UNCHANGED S!vars
<1>1. \A u \in Tasks : \/ work'[u] = work[u] /\ op'[u] = op[u]
                       \/ op[u] # "persist" /\ op'[u] # "persist"
  BY DEF Start, IInv, LockInv, LockType, StateInv, WorkFits
<1>2. pool' = pool /\ store' = store /\ info' = info /\ mem' = mem /\ running' = running
  BY DEF Start, stateVars
<1> QED  BY <1>1, <1>2, Unseen

LEMMA InitService == Init => S!Init
<1> SUFFICES ASSUME Init PROVE S!Init
  OBVIOUS
<1>1. PoolView = {}
  BY NoWorkFits DEF Init, PoolView
<1>2. Confirmed = {}
  BY DEF Init, Confirmed
<1>3. ChainView = 0
  BY DEF Init, ChainView, Persisting
<1> QED  BY <1>1, <1>2, <1>3 DEF Init, S!Init

LEMMA PersistCommits ==
  ASSUME IInv, NEW t \in Producers, Persist(t)
  PROVE  S!Commit(work[t].txs) \/ S!Lose(work[t].txs)
<1>1. /\ GoOn(t, "refresh", [work[t] EXCEPT !.removed = {}])
      /\ pool' = pool /\ info' = info /\ told' = told
      /\ S!Witness(PoolView', Confirmed')
  BY DEF Persist
<1>2. /\ t \in Tasks /\ work[t] \in WorkRecord
      /\ pool \cap work[t].txs = {} /\ work[t].removed \subseteq work[t].txs
      /\ ChainView' = ChainView + 1
      /\ \A u \in Tasks : u # t => work[u].removed = {}
      /\ \/ store'.chain_state = ChainView' /\ Confirmed' = Confirmed \cup work[t].txs
         \/ store'.chain_state = store.chain_state /\ Confirmed' = Confirmed
  BY PersistFacts
<1>5. \A u \in Tasks : work'[u].removed = {}
  <2>1. \A u \in Tasks : u # t => work'[u] = work[u]
    BY <1>1 DEF GoOn, IInv, StateInv, WorkFits
  <2>2. work'[t] = [work[t] EXCEPT !.removed = {}]
    BY <1>1, <1>2 DEF GoOn, IInv, StateInv, WorkFits
  <2>3. work'[t].removed = {}
    BY <2>2, <1>2 DEF WorkRecord
  <2> QED  BY <1>2, <2>1, <2>3
<1>6. PoolView' = pool
  BY <1>1, <1>5 DEF PoolView
<1>7. PoolView = pool \cup work[t].removed
  BY <1>2 DEF PoolView
<1>8. PoolView' = PoolView \ work[t].txs
  BY <1>2, <1>6, <1>7
<1>9. CASE store'.chain_state = ChainView' /\ Confirmed' = Confirmed \cup work[t].txs
  BY <1>1, <1>2, <1>8, <1>9 DEF S!Commit
<1>10. CASE store'.chain_state = store.chain_state /\ Confirmed' = Confirmed
  BY <1>1, <1>2, <1>8, <1>10 DEF S!Lose
<1> QED  BY <1>2, <1>9, <1>10

LEMMA PoolServes ==
  ASSUME IInv, NEW t \in Tasks, (t = "network" /\ Expire) \/ Insert(t)
  PROVE  S!Next
<1>1. /\ op[t] \in {"insert", "expire"} /\ GoOn(t, "idle", NoWork)
      /\ info' = info /\ store' = store /\ told' = told /\ mem' = mem /\ running' = running
  BY DEF Expire, Insert, Holds
<1>2. Granted(t, "mempool")
  BY HoldsChainOrPool DEF Expire, Insert, IInv
<1>n. \A u \in Tasks : op[u] # "persist"
  BY <1>1, <1>2, NobodyElsePersists DEF IInv
<1>3. \A u \in Tasks : work[u].removed = {}
  BY <1>n DEF IInv, StateInv, WorkFits, Fits
<1>v. ChainView' = ChainView
  <2>1. \A u \in Tasks : op'[u] # "persist"
    BY <1>1, <1>n DEF GoOn, IInv, LockInv, LockType
  <2> QED  BY <1>1, <1>n, <2>1, ChainViewSame
<1>4. \A u \in Tasks : work'[u].removed = {}
  BY <1>1, <1>3, NoWorkFits DEF GoOn, IInv, StateInv, WorkFits
<1>5. PoolView = pool /\ PoolView' = pool' /\ Confirmed' = Confirmed
  BY <1>1, <1>3, <1>4 DEF PoolView, Confirmed
<1>6. S!Witness(PoolView', Confirmed)
  BY DEF Expire, Insert
<1>7. pool \in SUBSET Txs /\ work[t].txs \in SUBSET Txs
  BY DEF IInv, StateInv, StateType, WorkFits, WorkRecord
<1>8. CASE \E old \in SUBSET pool : pool' = pool \ old
  <2>1. PICK old \in SUBSET pool : pool' = pool \ old
    BY <1>8
  <2>2. S!Expire(old) /\ old \in SUBSET Txs
    BY <1>1, <1>v, <1>5, <1>6, <1>7, <2>1 DEF S!Expire
  <2> QED  BY <2>2 DEF S!Next
<1>9. CASE pool' = pool
  BY <1>8, <1>9
<1>10. CASE Insert(t) /\ pool' # pool
  <2>1. pool' = pool \cup work[t].txs /\ op[t] = "insert"
    BY <1>10 DEF Insert, Holds
  <2>2. PICK x \in work[t].txs : x \notin pool
    BY <1>10, <2>1
  <2>3. \A y \in work[t].txs : y = x
    BY <2>1, <2>2 DEF IInv, StateInv, WorkFits, Fits
  <2>4. pool' = pool \cup {x} /\ x \in Txs
    BY <1>7, <2>1, <2>2, <2>3
  <2>5. S!Submit(x)
    BY <1>1, <1>v, <1>5, <1>6, <2>2, <2>4 DEF S!Submit
  <2> QED  BY <2>4, <2>5 DEF S!Next
<1> QED  BY <1>8, <1>9, <1>10 DEF Expire

LEMMA RefreshPublishes ==
  ASSUME IInv, IInv', NEW t \in Producers, Refresh(t)
  PROVE  S!Publish
<1>1. /\ t \in Tasks /\ op[t] = "refresh" /\ running /\ Holds(t, "refresh")
      /\ info' = mem.chain /\ pool' = pool /\ store' = store /\ calls' = calls /\ told' = told
      /\ mem' = mem /\ running' = running
  BY DEF Refresh, Holds, Tasks, clientVars
<1>2. \A u \in Tasks : op[u] # "persist"
  <2>1. Granted(t, "chain")
    BY <1>1, HoldsChainOrPool DEF IInv
  <2> QED  BY <1>1, <2>1, NobodyElsePersists DEF IInv
<1>3. info' \in info .. ChainView
  <2>1. ChainView = mem.chain /\ mem.chain \in Nat
    BY <1>1, <1>2, ChainViewType DEF Persisting
  <2>2. info \in Nat /\ info <= ChainView
    BY DEF IInv, StateInv, StateType, MemoryFollows
  <2> QED  BY <1>1, <2>1, <2>2
<1>4. \A u \in Tasks : op'[u] # "persist"
  BY <1>1, <1>2 DEF Refresh, GoOn, IInv, LockInv, LockType
<1>5. \A u \in Tasks : work'[u].removed = work[u].removed
  BY <1>2, <1>4 DEF IInv, StateInv, WorkFits, Fits
<1>6. PoolView' = PoolView /\ Confirmed' = Confirmed /\ ChainView' = ChainView
  BY <1>1, <1>2, <1>4, <1>5, PoolViewSame, ChainViewSame DEF Confirmed
<1> QED  BY <1>1, <1>3, <1>6 DEF S!Publish

LEMMA ExecuteUnseen ==
  ASSUME IInv, IInv', NEW t \in Producers, Execute(t)
  PROVE  UNCHANGED S!vars
<1>1. /\ t \in Tasks /\ op[t] = "apply" /\ calls' = calls /\ told' = told
      /\ Holds(t, "apply") /\ running /\ running' = running
  BY DEF Execute, Holds, Tasks, clientVars
<1>2. CASE work[t].height # mem.chain + 1
  <2> DEFINE o == IF t = "processor" THEN "reply" ELSE "idle"
  <2>1. /\ GoOn(t, o, [work[t] EXCEPT !.height = 0])
        /\ UNCHANGED <<stateVars, running, clientVars, lost, used>> /\ o \in Ops \ {"persist"}
    BY <1>2 DEF Execute, Ops
  <2> QED  BY <1>1, <2>1, ReleaseUnseen
<1>3. CASE work[t].height = mem.chain + 1
  <2>1. /\ pool' = pool \ work[t].txs /\ info' = info /\ store' = store
        /\ work' = [work EXCEPT ![t].removed = pool \cap work[t].txs]
    BY <1>3 DEF Execute
  <2>2. work[t] \in WorkRecord /\ work[t].removed = {}
    BY <1>1 DEF IInv, StateInv, WorkFits, Fits
  <2>3. /\ \A u \in Tasks : u # t => work'[u].removed = work[u].removed
        /\ work'[t] = [work[t] EXCEPT !.removed = pool \cap work[t].txs]
    BY <1>1, <2>1 DEF IInv, StateInv, WorkFits
  <2>4. work'[t].removed = pool \cap work[t].txs
    BY <2>2, <2>3 DEF WorkRecord
  <2>5. PoolView' = PoolView /\ Confirmed' = Confirmed
    <3>1. PoolView' = PoolView
      BY <1>1, <2>1, <2>2, <2>3, <2>4 DEF PoolView
    <3> QED  BY <2>1, <3>1 DEF Confirmed
  <2>6. ChainView' = ChainView
    <3>1. /\ mem' = [mem EXCEPT !.chain = work[t].height, !.accounts = work[t].height,
                                !.refiners = work[t].height]
          /\ op' = [op EXCEPT ![t] = "persist"]
      BY <1>3 DEF Execute
    <3>2. Granted(t, "chain")
      BY <1>1, HoldsChainOrPool DEF IInv
    <3>3. \A u \in Tasks : op[u] # "persist"
      BY <1>1, <3>2, NobodyElsePersists DEF IInv
    <3>4. ~Persisting /\ Persisting'
      BY <1>1, <3>1, <3>3 DEF Persisting, IInv, LockInv, LockType
    <3>5. mem'.chain = mem.chain + 1 /\ mem.chain \in Nat
      BY <1>3, <3>1 DEF IInv, StateInv, StateType
    <3> QED  BY <1>1, <3>4, <3>5 DEF ChainView
  <2> QED  BY <1>1, <2>1, <2>5, <2>6 DEF S!vars
<1> QED  BY <1>2, <1>3

(* An answer is a status the transaction had since the question. *)
LEMMA TellAnswers ==
  ASSUME IInv, IInv', NEW c \in Clients, NEW s \in S!Statuses, Tell(c, s),
         op[c] \in {"pool_tx", "load_tx"}, \A q \in calls[c] : s \in q.seen
  PROVE  S!Answer(c)
<1>1. /\ c \in Tasks /\ GoOn(c, "idle", NoWork) /\ told' = [told EXCEPT ![c] = s]
      /\ calls' = [calls EXCEPT ![c] = {}] /\ pool' = pool /\ info' = info /\ store' = store
      /\ mem' = mem /\ running' = running
  BY ClientFacts DEF Tell, stateVars
<1>2. \A u \in Tasks : \/ work'[u] = work[u] /\ op'[u] = op[u]
                       \/ op[u] # "persist" /\ op'[u] # "persist"
  BY <1>1 DEF GoOn, IInv, LockInv, LockType, StateInv, WorkFits
<1>3. \A u \in Tasks : work'[u].removed = work[u].removed
  BY <1>2 DEF IInv, StateInv, WorkFits, Fits
<1>4. PoolView' = PoolView /\ Confirmed' = Confirmed /\ ChainView' = ChainView
  BY <1>1, <1>2, <1>3, PoolViewSame, ChainViewSame DEF Confirmed
<1>5. PICK q \in calls[c] : TRUE
  BY DEF IInv, StateInv, CallsSee
<1> QED  BY <1>1, <1>4, <1>5 DEF S!Answer

LEMMA LookServes ==
  ASSUME IInv, IInv', NEW c \in Clients, LookInPool(c)
  PROVE  S!Answer(c) \/ UNCHANGED S!vars
<1>1. op[c] = "pool_tx" /\ c \in Tasks /\ PoolView = pool
  BY PoolIsWhole, ClientFacts DEF LookInPool, Holds
<1>2. CASE work[c].txs \subseteq pool
  <2>1. \A q \in calls[c] : /\ q.tx \in pool
                            /\ S!StatusIn(q.tx, PoolView, Confirmed) \in q.seen
    BY <1>2 DEF IInv, StateInv, CallsSee
  <2>2. \A q \in calls[c] : "pending" \in q.seen
    BY <1>1, <2>1 DEF S!StatusIn
  <2>3. Tell(c, "pending") /\ "pending" \in S!Statuses
    BY <1>2 DEF LookInPool, S!Statuses
  <2> QED  BY <1>1, <2>2, <2>3, TellAnswers
<1>3. CASE ~(work[c].txs \subseteq pool)
  <2>1. /\ GoOn(c, "load_tx", work[c]) /\ UNCHANGED <<stateVars, running, clientVars, lost, used>>
        /\ "load_tx" \in Ops \ {"persist"}
    BY <1>3 DEF LookInPool, Ops
  <2> QED  BY <1>1, <2>1, ReleaseUnseen
<1> QED  BY <1>2, <1>3

LEMMA LoadServes ==
  ASSUME IInv, IInv', NEW c \in Clients, LoadTransaction(c)
  PROVE  S!Answer(c)
<1>1. PICK s \in S!Statuses : Tell(c, s) /\ \A q \in calls[c] : s \in q.seen
  BY LoadTransactionTells
<1>2. op[c] = "load_tx"
  BY DEF LoadTransaction, Holds
<1> QED  BY <1>1, <1>2, TellAnswers

LEMMA AskServes ==
  ASSUME IInv, IInv', NEW c \in Clients, NEW x \in Txs, GetTransaction(c, x)
  PROVE  S!Ask(c, x)
<1>1. /\ op[c] = "idle" /\ c \in Tasks /\ Start(c, "pool_tx", [NoWork EXCEPT !.txs = {x}])
      /\ pool' = pool /\ info' = info /\ store' = store /\ told' = told
      /\ mem' = mem /\ running' = running
      /\ calls' = [calls EXCEPT ![c] =
                     {[tx |-> x, seen |-> {S!StatusIn(x, PoolView, Confirmed)}]}]
  BY ClientFacts DEF GetTransaction, Start, stateVars
<1>2. calls[c] = {}
  BY <1>1 DEF IInv, StateInv, CallsSee
<1>3. \A u \in Tasks : \/ work'[u] = work[u] /\ op'[u] = op[u]
                       \/ op[u] # "persist" /\ op'[u] # "persist"
  BY <1>1 DEF Start, IInv, LockInv, LockType, StateInv, WorkFits
<1>4. \A u \in Tasks : work'[u].removed = work[u].removed
  BY <1>3 DEF IInv, StateInv, WorkFits, Fits
<1>5. PoolView' = PoolView /\ Confirmed' = Confirmed /\ ChainView' = ChainView
  BY <1>1, <1>3, <1>4, PoolViewSame, ChainViewSame DEF Confirmed
<1> QED  BY <1>1, <1>2, <1>5 DEF S!Ask

LEMMA RestartServes ==
  ASSUME IInv, NEW d, Restart(d)
  PROVE  S!Restart
<1>1. /\ pool' = {} /\ info' = store.chain_state /\ store' = store /\ told' = told
      /\ calls' = [c \in Clients |-> {}] /\ work' = [t \in Tasks |-> NoWork]
      /\ op' = [t \in Tasks |-> "idle"] /\ running' = (LoadState(d) # {})
      /\ mem' \in IF LoadState(d) = {} THEN {mem} ELSE LoadState(d)
  BY DEF Restart
<1>2. PoolView' = {} /\ Confirmed' = Confirmed
  BY <1>1, NoWorkFits DEF PoolView, Confirmed
<1>3. running' => mem'.chain = store.chain_state
  <2>1. d # {} => LoadState(d) = {}
    BY DEF LoadState
  <2>2. d = {} => LoadState(d) = {[chain |-> store.chain_state, accounts |-> store.accounts,
                                   refiners |-> store.refiners]}
    BY DEF LoadState
  <2>3. CASE d = {}
    <3>1. mem' = [chain |-> store.chain_state, accounts |-> store.accounts,
                  refiners |-> store.refiners]
      BY <1>1, <2>2, <2>3
    <3> QED  BY <3>1
  <2>4. CASE d # {}
    BY <1>1, <2>1, <2>4
  <2> QED  BY <2>3, <2>4
<1>4. ChainView' = store.chain_state
  BY <1>1, <1>3 DEF ChainView, Persisting
<1> QED  BY <1>1, <1>2, <1>4 DEF S!Restart

LEMMA TaskUnseen ==
  ASSUME IInv, IInv', NEW t \in Tasks,
         \/ Acquire(t) \/ ReadNonce(t) \/ ReadFee(t)
         \/ t = "miner" /\ Build
         \/ t = "processor" /\ (Process \/ Reply)
  PROVE  UNCHANGED S!vars
<1>1. CASE Acquire(t)
  BY <1>1, Unseen DEF Acquire, stateVars, clientVars
<1>2. CASE ReadNonce(t) \/ ReadFee(t)
  <2>1. op[t] \in {"nonce", "fee"} /\ UNCHANGED <<stateVars, running, clientVars, lost, used>>
    BY <1>2 DEF ReadNonce, ReadFee, Holds
  <2>2. \E o \in {"fee", "insert"} : GoOn(t, o, work[t])
    BY <1>2 DEF ReadNonce, ReadFee
  <2> QED  BY <2>1, <2>2, ReleaseUnseen DEF Ops
<1>3. CASE t = "miner" /\ Build
  <2>1. op[t] = "build" /\ UNCHANGED <<stateVars, running, clientVars, lost, used>>
    BY <1>3 DEF Build, Holds
  <2>2. CASE GoOn("miner", "idle", NoWork)
    BY <1>3, <2>1, <2>2, ReleaseUnseen DEF Ops
  <2>3. CASE \E txs \in {pool, {}} :
               GoOn("miner", "apply", [NoWork EXCEPT !.height = mem.chain + 1, !.txs = txs,
                                                     !.from = "miner"])
    BY <1>3, <2>1, <2>3, ReleaseUnseen DEF Ops
  <2> QED  BY <1>3, <2>2, <2>3 DEF Build
<1>4. CASE t = "processor" /\ Process
  <2> DEFINE s == Head(submissions)
             w == [NoWork EXCEPT !.height = s.height, !.from = s.client, !.ticket = s.ticket]
  <2>1. Start(t, "apply", w) /\ calls' = calls /\ told' = told /\ "apply" \in Ops \ {"persist"}
    BY <1>4 DEF Process, Ops
  <2> HIDE DEF w
  <2> QED  BY <2>1, StartUnseen
<1>5. CASE t = "processor" /\ Reply
  <2>1. /\ pool' = pool /\ store' = store /\ info' = info /\ calls' = calls /\ told' = told
        /\ op[t] = "reply" /\ mem' = mem /\ running' = running
    BY <1>5 DEF Reply, Holds, stateVars
  <2> DEFINE c == work[t].from
  <2>2. c \in Tasks
    BY <1>5, <2>1, ClientFacts DEF IInv, StateInv, WorkFits, Fits
  <2>3. \A u \in Tasks : \/ work'[u] = work[u] /\ op'[u] = op[u]
                         \/ op[u] # "persist" /\ op'[u] # "persist"
    <3>1. op \in [Tasks -> Ops] /\ work \in [Tasks -> WorkRecord]
      BY DEF IInv, LockInv, LockType, StateInv, WorkFits
    <3>2. CASE op[c] = "wait" /\ work[c].ticket = work[t].ticket
      <4>1. /\ op' = [op EXCEPT ![t] = "idle", ![c] = "idle"]
            /\ work' = [work EXCEPT ![t] = NoWork, ![c] = NoWork]
        BY <1>5, <3>2 DEF Reply
      <4> QED  BY <2>1, <2>2, <3>1, <3>2, <4>1
    <3>3. CASE ~(op[c] = "wait" /\ work[c].ticket = work[t].ticket)
      <4>1. /\ op' = [op EXCEPT ![t] = "idle"] /\ work' = [work EXCEPT ![t] = NoWork]
        BY <1>5, <3>3 DEF Reply
      <4> QED  BY <2>1, <3>1, <4>1
    <3> QED  BY <3>2, <3>3
  <2> QED  BY <2>1, <2>3, Unseen
<1> QED  BY <1>1, <1>2, <1>3, <1>4, <1>5

LEMMA RequestUnseen ==
  ASSUME IInv, IInv', NEW t \in Tasks, NEW o \in Ops \ {"persist"}, NEW w,
         Start(t, o, w), UNCHANGED clientVars
  PROVE  UNCHANGED S!vars
BY StartUnseen DEF clientVars

LEMMA ClientUnseen ==
  ASSUME IInv, IInv', NEW c \in Clients,
         \/ AnswerQuery(c) \/ ReadHeight(c) \/ AnswerScan(c) \/ Timeout(c)
         \/ \E o \in {"chain_info", "refiners", "mining_job", "history"} : Query(c, o)
         \/ \E x \in Txs : SendTransaction(c, x)
         \/ \E h \in Offered : SubmitSolution(c, h)
  PROVE  UNCHANGED S!vars
<1>1. c \in Tasks
  BY ClientFacts
<1>2. CASE AnswerQuery(c) \/ AnswerScan(c) \/ Timeout(c)
  <2>1. /\ op[c] \in {"chain_info", "refiners", "mining_job", "scan", "wait"}
        /\ GoOn(c, "idle", NoWork) /\ UNCHANGED <<stateVars, running, clientVars, lost, used>>
        /\ "idle" \in Ops \ {"persist"}
    BY <1>2 DEF AnswerQuery, AnswerScan, Timeout, Holds, Ops
  <2> QED  BY <1>1, <2>1, ReleaseUnseen
<1>3. CASE ReadHeight(c)
  <2> DEFINE w == [NoWork EXCEPT !.height = info]
  <2>1. /\ op[c] = "history" /\ GoOn(c, "scan", w) /\ "scan" \in Ops \ {"persist"}
        /\ UNCHANGED <<stateVars, running, clientVars, lost, used>>
    BY <1>3 DEF ReadHeight, Holds, Ops
  <2> HIDE DEF w
  <2> QED  BY <1>1, <2>1, ReleaseUnseen
<1>4. ASSUME NEW o \in {"chain_info", "refiners", "mining_job", "history"}, Query(c, o)
      PROVE  UNCHANGED S!vars
  <2>1. Start(c, o, NoWork) /\ UNCHANGED clientVars /\ o \in Ops \ {"persist"}
    BY <1>4 DEF Query, Ops
  <2> QED  BY <1>1, <2>1, RequestUnseen
<1>5. ASSUME NEW x \in Txs, SendTransaction(c, x) PROVE UNCHANGED S!vars
  <2> DEFINE w == [NoWork EXCEPT !.txs = {x}]
  <2>1. Start(c, "nonce", w) /\ UNCHANGED clientVars /\ "nonce" \in Ops \ {"persist"}
    BY <1>5 DEF SendTransaction, Ops
  <2> HIDE DEF w
  <2> QED  BY <1>1, <2>1, RequestUnseen
<1>6. ASSUME NEW h \in Offered, SubmitSolution(c, h) PROVE UNCHANGED S!vars
  <2> DEFINE w == [NoWork EXCEPT !.ticket = used']
  <2>1. Start(c, "wait", w) /\ calls' = calls /\ told' = told /\ "wait" \in Ops \ {"persist"}
    BY <1>6 DEF SubmitSolution, Ops
  <2> HIDE DEF w
  <2> QED  BY <1>1, <2>1, StartUnseen
<1> QED  BY <1>2, <1>3, <1>4, <1>5, <1>6

LEMMA NetworkUnseen ==
  ASSUME IInv, IInv',
         \/ MineBlock \/ EvictTick
         \/ \E h \in Offered, txs \in SUBSET Txs : ReceiveBlock(h, txs)
         \/ \E x \in Txs : ReceiveTransaction(x)
  PROVE  UNCHANGED S!vars
<1>1. "miner" \in Tasks /\ "network" \in Tasks
  BY DEF Tasks, Producers
<1>2. {"build", "expire", "apply", "nonce"} \subseteq Ops \ {"persist"}
  BY DEF Ops
<1>3. CASE MineBlock
  BY <1>1, <1>2, <1>3, RequestUnseen DEF MineBlock
<1>4. CASE EvictTick
  BY <1>1, <1>2, <1>4, RequestUnseen DEF EvictTick
<1>5. ASSUME NEW h \in Offered, NEW txs \in SUBSET Txs, ReceiveBlock(h, txs)
      PROVE  UNCHANGED S!vars
  <2> DEFINE w == [NoWork EXCEPT !.height = h, !.txs = txs, !.from = "network"]
  <2>1. Start("network", "apply", w) /\ UNCHANGED clientVars
    BY <1>5 DEF ReceiveBlock
  <2> HIDE DEF w
  <2> QED  BY <1>1, <1>2, <2>1, RequestUnseen
<1>6. ASSUME NEW x \in Txs, ReceiveTransaction(x) PROVE UNCHANGED S!vars
  <2> DEFINE w == [NoWork EXCEPT !.txs = {x}]
  <2>1. Start("network", "nonce", w) /\ UNCHANGED clientVars
    BY <1>6 DEF ReceiveTransaction
  <2> HIDE DEF w
  <2> QED  BY <1>1, <1>2, <2>1, RequestUnseen
<1> QED  BY <1>3, <1>4, <1>5, <1>6

LEMMA NextServes == IInv /\ IInv' /\ [Next]_vars => [S!Next]_(S!vars)
<1> SUFFICES ASSUME IInv, IInv', [Next]_vars PROVE S!Next \/ UNCHANGED S!vars
  OBVIOUS
<1>1. ASSUME NEW t \in Tasks, Work(t) PROVE S!Next \/ UNCHANGED S!vars
  <2>1. CASE \/ Acquire(t) \/ ReadNonce(t) \/ ReadFee(t)
             \/ t = "miner" /\ Build
             \/ t = "processor" /\ (Process \/ Reply)
    BY <2>1, TaskUnseen
  <2>2. CASE t \in Producers /\ Execute(t)
    BY <2>2, ExecuteUnseen
  <2>3. CASE t \in Producers /\ Persist(t)
    <3>1. work[t].txs \in SUBSET Txs
      BY <1>1 DEF IInv, StateInv, WorkFits, WorkRecord
    <3> QED  BY <2>3, <3>1, PersistCommits DEF S!Next
  <2>4. CASE t \in Producers /\ Refresh(t)
    BY <2>4, RefreshPublishes DEF S!Next
  <2>5. CASE Insert(t) \/ (t = "network" /\ Expire)
    BY <2>5, PoolServes
  <2>6. CASE t \in Clients /\ (AnswerQuery(t) \/ ReadHeight(t) \/ AnswerScan(t))
    BY <2>6, ClientUnseen
  <2>7. CASE t \in Clients /\ LookInPool(t)
    BY <2>7, LookServes DEF S!Next
  <2>8. CASE t \in Clients /\ LoadTransaction(t)
    BY <2>8, LoadServes DEF S!Next
  <2> QED  BY <1>1, <2>1, <2>2, <2>3, <2>4, <2>5, <2>6, <2>7, <2>8 DEF Work
<1>2. ASSUME NEW c \in Clients, Request(c) \/ Timeout(c) PROVE S!Next \/ UNCHANGED S!vars
  <2>1. CASE \E x \in Txs : GetTransaction(c, x)
    BY <2>1, AskServes DEF S!Next
  <2>2. CASE \/ \E o \in {"chain_info", "refiners", "mining_job", "history"} : Query(c, o)
             \/ \E x \in Txs : SendTransaction(c, x)
             \/ \E h \in Offered : SubmitSolution(c, h)
    BY <2>2, ClientUnseen
  <2>3. CASE Timeout(c)
    BY <2>3, ClientUnseen
  <2> QED  BY <1>2, <2>1, <2>2, <2>3 DEF Request
<1>3. CASE \/ MineBlock \/ EvictTick
           \/ \E h \in Offered, txs \in SUBSET Txs : ReceiveBlock(h, txs)
           \/ \E x \in Txs : ReceiveTransaction(x)
  BY <1>3, NetworkUnseen
<1>4. CASE \E d \in SUBSET {"chain_state", "accounts", "refiners"} : Restart(d)
  BY <1>4, RestartServes DEF S!Next
<1>5. CASE UNCHANGED vars
  BY <1>5 DEF vars, taskVars, lockVars, stateVars, clientVars, S!vars, PoolView, Confirmed,
             ChainView, Persisting
<1> QED  BY <1>1, <1>2, <1>3, <1>4, <1>5 DEF Next

(* Seen from the RPC server, the node is one copy of the chain: every step *)
(* of its tasks, crashes included, is a step of Service or unseen.         *)
THEOREM NodeImplementsService == Spec => OneCopy
<1>1. Init => S!Init
  BY InitService
<1>2. IInv /\ IInv' /\ [Next]_vars => [S!Next]_(S!vars)
  BY NextServes
<1> QED  BY <1>1, <1>2, NodeInvariant, PTL DEF Spec, OneCopy, S!Spec
=============================================================================
