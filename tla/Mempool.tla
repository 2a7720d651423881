------------------------------ MODULE Mempool -------------------------------
(***************************************************************************)
(* The transaction pool of one node, crates/consensus/src/mempool.rs, with *)
(* the tasks that share it: the gossip and RPC handlers that admit          *)
(* transactions, the loops that build candidate blocks from the pool,      *)
(* apply_block, and the timer that evicts expired transactions.            *)
(*                                                                         *)
(* A transaction is its sender, nonce, fee and size, which also stand for  *)
(* its id.  Signatures and the chain id are taken as checked.  Time is     *)
(* kept as the age of each entry, up to the first age that counts as       *)
(* expired.                                                                *)
(***************************************************************************)
EXTENDS Integers, SequencesExt

CONSTANTS
  Senders,
  Txs,              \* bound: the transactions, [sender, nonce, fee, size]
  BASE_SIZE,        \* the size of a transaction without data
  MIN_FEE, CAPACITY_RATIO, MAX_NONCE_GAP,
  TX_MAX_SIZE_BYTES, MAX_TX_DATA_SIZE_BYTES, MEMPOOL_MAX_SIZE_BYTES,
  MEMPOOL_MAX_TXS_PER_ACCOUNT, MEMPOOL_TX_EXPIRY_SECS,
  MAX_BLOCK_SIZE_BYTES, MAX_TRANSACTIONS_PER_BLOCK, EPOCH,
  PRIORITY_SCALE,   \* 1_000_000: priorities of RPC submissions are fees per size
  MaxHandlers,      \* bound: submissions handled at the same time
  MaxArrivals,      \* bound: transactions received
  MaxBlocks         \* bound: blocks applied

ASSUME PoolDomains ==
  /\ IsFiniteSet(Senders)
  /\ Txs \subseteq [sender : Senders, nonce : Nat, fee : Nat, size : Nat]
ASSUME PoolNaturals ==
  {BASE_SIZE, MIN_FEE, CAPACITY_RATIO, MAX_NONCE_GAP, TX_MAX_SIZE_BYTES,
   MAX_TX_DATA_SIZE_BYTES, MEMPOOL_MAX_SIZE_BYTES, MEMPOOL_MAX_TXS_PER_ACCOUNT,
   MEMPOOL_TX_EXPIRY_SECS, MAX_BLOCK_SIZE_BYTES, MAX_TRANSACTIONS_PER_BLOCK,
   EPOCH, PRIORITY_SCALE, MaxHandlers, MaxArrivals, MaxBlocks} \subseteq Nat
ASSUME PoolPositive ==
  /\ BASE_SIZE > 0
  /\ MIN_FEE > 0
  /\ MAX_BLOCK_SIZE_BYTES > 0
  /\ EPOCH > 0
  /\ CAPACITY_RATIO > 0
(* One transaction fits the empty pool. *)
ASSUME RoomForOne == TX_MAX_SIZE_BYTES <= MEMPOOL_MAX_SIZE_BYTES

VARIABLES
  entries,            \* Mempool.entries: transaction -> [priority, age]
  account_tx_counts,  \* Mempool.account_tx_counts, 0 where the map has no key
  total_size,         \* Mempool.total_size
  nonce,              \* the nonces of the accounts in the AccountStore
  suggested_fee,      \* ChainState.suggested_fee
  height,
  arriving,           \* submissions whose handlers have read nonce and fee
  candidate,          \* the body of the block being mined or signed: none or one
  arrivals

pool == <<entries, account_tx_counts, total_size>>
chain == <<nonce, suggested_fee, height>>
vars == <<pool, chain, arriving, candidate, arrivals>>

ExpiredAge == MEMPOOL_TX_EXPIRY_SECS + 1
SizeOf(S) == SumFunctionOnSet([tx \in S |-> tx.size], S)
SaturatingSub(a, b) == IF a >= b THEN a - b ELSE 0
DivCeil(a, b) == (a + b - 1) \div b
Pooled == DOMAIN entries

Init ==
  /\ entries = <<>>
  /\ account_tx_counts = [s \in Senders |-> 0]
  /\ total_size = 0
  /\ nonce = [s \in Senders |-> 0]
  /\ suggested_fee = MIN_FEE
  /\ height = 0
  /\ arriving = {}
  /\ candidate = {}
  /\ arrivals = 0

-----------------------------------------------------------------------------
(* The pool's own operations. *)

(* Mutant of CountsAfter: every sender's count drops. *)
CountsAfterAnySender(gone) ==
  [s \in Senders |-> account_tx_counts[s] - Cardinality(gone)]

CountsAfter(gone) ==
  [s \in Senders |->
     SaturatingSub(account_tx_counts[s], Cardinality({tx \in gone : tx.sender = s}))]

(* remove_transaction, for every transaction of gone. *)
RemoveEntries(gone) ==
  /\ entries' = Restrict(entries, Pooled \ gone)
  /\ account_tx_counts' = CountsAfter(gone)
  /\ total_size' = SaturatingSub(total_size, SizeOf(gone))

EffectiveMinFee(suggested) ==
  LET depth == Max({1, Min({DivCeil(total_size, MAX_BLOCK_SIZE_BYTES), CAPACITY_RATIO})})
  IN  Max({suggested * depth, MIN_FEE})

(* Mutant of Expired: the operands of the saturating subtraction swapped. *)
ExpiredSwapped ==
  {tx \in Pooled : SaturatingSub(0, entries[tx].age) > MEMPOOL_TX_EXPIRY_SECS}

Expired == {tx \in Pooled : entries[tx].age > MEMPOOL_TX_EXPIRY_SECS}

(* Eviction order: lower priority first, then earlier submission. *)
EvictedBefore(a, b) ==
  \/ entries[a].priority < entries[b].priority
  \/ entries[a].priority = entries[b].priority /\ entries[a].age > entries[b].age

(* The shortest prefixes of eviction orders of S that free the space, or   *)
(* all of S.                                                               *)
EvictionPrefixes(S, needed) ==
  {V \in SUBSET S :
     /\ \A v \in V, tx \in S \ V : ~EvictedBefore(tx, v)
     /\ SizeOf(V) >= needed \/ V = S
     /\ V # {} => \E last \in V : /\ \A v \in V : ~EvictedBefore(last, v)
                                  /\ SizeOf(V \ {last}) < needed}

(* Mutant of Evictions: one entry is evicted, whatever its size. *)
EvictionsOfOne(S, needed) == EvictionPrefixes(S, 1)

(* evict_lowest_priority: what it may remove, by the order of equal keys. *)
Evictions(S, needed) == EvictionPrefixes(S, needed)

MinReplacementFee(tx) == DivCeil(tx.fee * 11, 10)

(* Mutant of WithinNonceGap: off by one. *)
WithinNonceGapPlusOne(a) == a.tx.nonce <= a.account_nonce + MAX_NONCE_GAP + 1

WithinAccountLimit(a) == account_tx_counts[a.tx.sender] < MEMPOOL_MAX_TXS_PER_ACCOUNT
WithinNonceGap(a) == a.tx.nonce <= a.account_nonce + MAX_NONCE_GAP

(* The checks of add_transaction before the replacement. *)
Admissible(a) ==
  /\ a.tx.fee >= MIN_FEE
  /\ a.tx.fee >= EffectiveMinFee(a.suggested_fee)
  /\ a.tx.size <= TX_MAX_SIZE_BYTES
  /\ WithinAccountLimit(a)
  /\ WithinNonceGap(a)
  /\ a.tx \notin Pooled

(* Mutant of SameNonce: only the transaction itself is replaced. *)
SameId(a) == {tx \in Pooled : tx = a.tx}

SameNonce(a) == {tx \in Pooled : tx.sender = a.tx.sender /\ tx.nonce = a.tx.nonce}

(* What add_transaction removes to replace an entry and to make room: the   *)
(* first entry that find meets, then the evictions.                        *)
Removals(a) ==
  LET replaced == IF SameNonce(a) = {} THEN {{}} ELSE {{tx} : tx \in SameNonce(a)}
      evicted(r) == IF total_size - SizeOf(r) + a.tx.size > MEMPOOL_MAX_SIZE_BYTES
                    THEN Evictions(Pooled \ r, a.tx.size) ELSE {{}}
  IN  UNION {{r \cup v : v \in evicted(r)} : r \in replaced}

(* Mutant of Insert: the replaced and evicted bytes stay counted. *)
InsertKeepingSize(a, gone) ==
  LET counts == CountsAfter(gone)
  IN  /\ entries' = [tx \in (Pooled \ gone) \cup {a.tx} |->
                      IF tx = a.tx THEN [priority |-> a.priority, age |-> 0] ELSE entries[tx]]
      /\ account_tx_counts' = [counts EXCEPT ![a.tx.sender] = @ + 1]
      /\ total_size' = total_size + a.tx.size

Insert(a, gone) ==
  LET counts == CountsAfter(gone)
  IN  /\ entries' = [tx \in (Pooled \ gone) \cup {a.tx} |->
                      IF tx = a.tx THEN [priority |-> a.priority, age |-> 0] ELSE entries[tx]]
      /\ account_tx_counts' = [counts EXCEPT ![a.tx.sender] = @ + 1]
      /\ total_size' = SaturatingSub(total_size, SizeOf(gone)) + a.tx.size

-----------------------------------------------------------------------------
(* GossipTransaction in handle_network_event ranks by the fee,             *)
(* handle_send_transaction by the scaled fee density.                      *)
Priority(source, tx) ==
  IF source = "gossip" THEN tx.fee ELSE (tx.fee * PRIORITY_SCALE) \div Max({tx.size, 1})

(* A handler verifies a transaction and reads the sender's nonce and the   *)
(* suggested fee; the pool is locked only afterwards.                      *)
Receive(source) ==
  /\ Cardinality(arriving) < MaxHandlers
  /\ arrivals < MaxArrivals
  /\ arrivals' = arrivals + 1
  /\ \E tx \in Txs :
       /\ tx.size <= TX_MAX_SIZE_BYTES
       /\ arriving' = arriving \cup
            {[tx |-> tx, priority |-> Priority(source, tx),
              account_nonce |-> nonce[tx.sender], suggested_fee |-> suggested_fee]}
  /\ UNCHANGED <<pool, chain, candidate>>

(* The first entry with the same nonce, if any, is outbid. *)
Outbids(a) == \A tx \in SameNonce(a) : a.tx.fee >= MinReplacementFee(tx)

(* add_transaction accepts, or fails at the capacity check after it has    *)
(* removed what it replaces and evicts.                                    *)
Admit(a) ==
  /\ Admissible(a)
  /\ Outbids(a)
  /\ \E gone \in Removals(a) :
       IF total_size - SizeOf(gone) + a.tx.size <= MEMPOOL_MAX_SIZE_BYTES
       THEN Insert(a, gone)
       ELSE RemoveEntries(gone)
  /\ arriving' = arriving \ {a}
  /\ UNCHANGED <<chain, candidate, arrivals>>

Refuse(a) ==
  /\ ~(Admissible(a) /\ Outbids(a))
  /\ arriving' = arriving \ {a}
  /\ UNCHANGED <<pool, chain, candidate, arrivals>>

-----------------------------------------------------------------------------
(* get_ordered_transactions: every order by priority, then submission.     *)
Ordered ==
  LET ahead(a, b) ==
        \/ entries[a].priority > entries[b].priority
        \/ entries[a].priority = entries[b].priority /\ entries[a].age > entries[b].age
  IN  {s \in SetToSeqs(Pooled) :
         \A i, j \in DOMAIN s : i < j => ~ahead(s[j], s[i])}

(* mine_block and produce_refiner_block take the first transactions by     *)
(* count.                                                                  *)
BuildCandidate ==
  /\ candidate = {}
  /\ height < MaxBlocks
  /\ \E s \in Ordered :
       candidate' = {[i \in 1 .. Min({Len(s), MAX_TRANSACTIONS_PER_BLOCK}) |-> s[i]]}
  /\ UNCHANGED <<pool, chain, arriving, arrivals>>

(* validate_block, the checks of the body's transactions. *)
BodyValid(body) ==
  /\ Len(body) <= MAX_TRANSACTIONS_PER_BLOCK
  /\ SumFunction([i \in DOMAIN body |-> body[i].size]) <= MAX_BLOCK_SIZE_BYTES
  /\ \A i, j \in DOMAIN body : body[i] = body[j] => i = j
  /\ \A t \in ToSet(body) : /\ t.size - BASE_SIZE <= MAX_TX_DATA_SIZE_BYTES
                            /\ t.fee >= MIN_FEE

(* The transactions of a sender among the positions D of the body. *)
OfSender(body, D, s) == {i \in D : body[i].sender = s}

(* The transactions run in order; one whose nonce is not the account's, or *)
(* whose sender cannot pay, changes nothing.  D are the positions of those *)
(* that take effect: each has its sender's nonce after the ones before it. *)
Runs(body, D) ==
  \A i \in D : LET before == {j \in OfSender(body, D, body[i].sender) : j < i}
               IN  body[i].nonce = nonce[body[i].sender] + Cardinality(before)

ComputeSuggestedFee(fees, count) ==
  LET current == IF count = 0 THEN MIN_FEE ELSE fees \div count
      ema == (current + suggested_fee * (CAPACITY_RATIO - 1)) \div CAPACITY_RATIO
  IN  Max({ema, MIN_FEE})

(* apply_block: execution, removal of the block's transactions from the    *)
(* pool, eviction at an epoch boundary, the suggested fee.  A candidate in *)
(* the making no longer extends the tip and will be refused.               *)
ApplyBlock(body) ==
  \E D \in SUBSET DOMAIN body :
    LET included == Pooled \cap ToSet(body)
        atEpoch == (height + 1) % EPOCH = 0
    IN  /\ Runs(body, D)
        /\ nonce' = [s \in Senders |-> nonce[s] + Cardinality(OfSender(body, D, s))]
        /\ suggested_fee' =
             ComputeSuggestedFee(SumFunction([i \in D |-> body[i].fee]), Cardinality(D))
        /\ height' = height + 1
        /\ RemoveEntries(included \cup (IF atEpoch THEN Expired ELSE {}))
        /\ candidate' = {}

ApplyCandidate ==
  /\ \E body \in candidate : BodyValid(body) /\ ApplyBlock(body)
  /\ UNCHANGED <<arriving, arrivals>>

(* No nonce was found, or apply_block refused the block: the pool keeps    *)
(* its transactions.                                                       *)
DropCandidate ==
  /\ candidate # {}
  /\ candidate' = {}
  /\ UNCHANGED <<pool, chain, arriving, arrivals>>

(* A block of another producer, with a transaction this pool may not hold; *)
(* if the sender cannot pay, it does what an empty block does.             *)
ApplyForeign ==
  /\ height < MaxBlocks
  /\ \E body \in {<<tx>> : tx \in Txs} :
       BodyValid(body) /\ ApplyBlock(body)
  /\ UNCHANGED <<arriving, arrivals>>

(* The ten-minute timer of the network task. *)
EvictExpired ==
  /\ Expired # {}
  /\ RemoveEntries(Expired)
  /\ UNCHANGED <<chain, arriving, candidate, arrivals>>

Tick ==
  /\ \E tx \in Pooled : entries[tx].age < ExpiredAge
  /\ entries' = [tx \in Pooled |-> [entries[tx] EXCEPT !.age = Min({@ + 1, ExpiredAge})]]
  /\ UNCHANGED <<account_tx_counts, total_size, chain, arriving, candidate, arrivals>>

Next ==
  \/ \E source \in {"gossip", "rpc"} : Receive(source)
  \/ \E a \in arriving : Admit(a) \/ Refuse(a)
  \/ BuildCandidate
  \/ ApplyCandidate
  \/ DropCandidate
  \/ ApplyForeign
  \/ EvictExpired
  \/ Tick

Spec == Init /\ [][Next]_vars /\ WF_vars(Tick) /\ WF_vars(EvictExpired)

-----------------------------------------------------------------------------
EntryType == [priority : Nat, age : 0 .. ExpiredAge]

(* The types of the pool and of what handlers and candidates hold of it.   *)
TypeOK ==
  /\ Pooled \subseteq Txs
  /\ entries \in [Pooled -> EntryType]
  /\ account_tx_counts \in [Senders -> Nat]
  /\ total_size \in Nat
  /\ nonce \in [Senders -> Nat]
  /\ suggested_fee \in Nat
  /\ height \in Nat
  /\ arriving \subseteq
       [tx : Txs, priority : Nat, account_nonce : Nat, suggested_fee : Nat]
  /\ candidate \subseteq Seq(Txs)
  /\ arrivals \in Nat

(* The counters that admission relies on are those of the entries, through *)
(* replacement, eviction, expiry and removal by blocks whose transactions  *)
(* the pool holds, has replaced, or never had (saturating_sub would hide   *)
(* a drift), and the entries themselves stay within MEMPOOL_MAX_SIZE_BYTES *)
(* and each sender within MEMPOOL_MAX_TXS_PER_ACCOUNT.                     *)
PoolAccounted ==
  /\ total_size = SizeOf(Pooled)
  /\ \A s \in Senders :
       account_tx_counts[s] = Cardinality({tx \in Pooled : tx.sender = s})
  /\ SizeOf(Pooled) <= MEMPOOL_MAX_SIZE_BYTES
  /\ \A s \in Senders : account_tx_counts[s] <= MEMPOOL_MAX_TXS_PER_ACCOUNT

(* A sender's nonce has one entry: a second transaction with the same      *)
(* nonce replaces the first, so the find in add_transaction is             *)
(* deterministic although the map has no order.                            *)
OneEntryPerNonce ==
  \A tx, ty \in Pooled : tx.sender = ty.sender /\ tx.nonce = ty.nonce => tx = ty

(* No entry is more than MAX_NONCE_GAP ahead of its account, although the  *)
(* account's nonce is read before the pool is locked and blocks come       *)
(* between.                                                                *)
NonceGapHeld ==
  \A tx \in Pooled : tx.nonce <= nonce[tx.sender] + MAX_NONCE_GAP

(* An admission that inserts nothing removes nothing: no transaction is    *)
(* replaced or evicted for one that is then refused as MempoolFull.        *)
RefusalKeepsPool ==
  [][arriving' # arriving /\ Pooled' \subseteq Pooled => entries' = entries]_vars

(* Every transaction leaves the pool, if only by its age: those a block    *)
(* can never include (stale nonces, data above the block's limit) too.     *)
EntriesLeave == \A tx \in Txs : tx \in Pooled ~> tx \notin Pooled
=============================================================================
