# A TLA+ model of Opolys

Opolys is a proof-of-work chain with one asset, OPL, and a second kind of block
producer: *refiners*, who bond stake and produce a block when miners leave the
chain idle. This directory models the parts of the repository that decide who
owns what, who may produce and attest blocks, what several nodes agree on, how one
node's tasks share their state, whom it trusts, and where its genesis comes from.
TLC checks the model on small instances, and TLAPS proves the safety properties
of every module, and the refinement, for every value of the constants. Paths below
are relative to the repository root.

## 1. Inventory

| Part | State | Operations | Hard because |
|---|---|---|---|
| Refiner set, `crates/consensus/src/refiner.rs` | records (bond entries, status, counters), `active_set`, unbonding queue | `bond`, `unbond_amount`, `process_matured_unbonds`, `activate_matured_refiners`, `rerank_refiners`, `slash_refiner`, `record_correct_attestation`, `select_block_producer` | three copies of one fact (status, `active_set`, queue) over long sequences of legal calls; FIFO splitting |
| Accounts and dispatcher, `consensus/src/account.rs`, `execution/src/dispatcher.rs` | balance, nonce, public key | transfer, bond, unbond | debit before a call that may refuse; checks that a later subtraction relies on |
| Economic rules, `emission.rs`, `difficulty.rs`, parts of `node.rs` and `dispatcher.rs` | none | reward, assays, fee split, difficulty floor, integer roots | rounding, saturation, quotients without bound |
| Block application, `OpolysNode::apply_block` in `node/src/node.rs` | `ChainState`: counters, difficulty, tip, state root, mint ledger | one function of 560 lines under four write locks | an error half way leaves what was already changed; several counters for one amount |
| Attestations and finality, `node.rs`, `main.rs` | pending attestations, finality index, finalized height | create, accept, drain, count | checked at one time and used at another; lost, repeated and reordered messages |
| Production and propagation, `main.rs` | candidates in the mining and refining loops | build, apply, gossip, sync | candidates built under read locks and applied much later; no fork choice |
| Persistence, `storage/src/store.rs` | the RocksDB store | one atomic write per block, load at start | a failed write is only logged; restart |
| Mempool, `consensus/src/mempool.rs` | pooled transactions | add, replace, evict, expire | counters beside the entries; the account is read before the pool is locked; candidates chosen by other limits than blocks are checked by |
| Peer handling, `handle_network_event` in `main.rs`, `networking/src/network.rs`, `challenge.rs` | verified peers, challenges, strikes, bans, subnets; two bounded queues | events of the swarm task, the challenge timer, commands back to the swarm | several connections per peer in one entry per peer; late answers; an event queue that drops |
| Tasks of a node, `run_node` in `main.rs` | five read-write locks, the submission queue | mining, refining, network and submission tasks | the tasks take several locks in various orders and refresh copies of the state after releasing them |
| RPC server, `rpc/src/server.rs` | a snapshot of the chain (`chain_info`), shared locks, the store | queries, `opl_sendTransaction`, `opl_submitSolution` | answers put together from the pool, the snapshot and the store, one after the other; a timeout while the block is still processed |
| Genesis ceremony, `scripts/genesis_ceremony`, attestation loading in `node.rs` | key file, attestation file, the genesis a database belongs to | collect, derive, confirm, sign, write, verify, load | two programs check different things of one file, which may be cut, edited or replaced in between |
| Difficulty retarget, `difficulty.rs`, `ChainState::prune_block_timestamps` | a window of timestamps | retarget at every block | the window is pruned; ratios of small intervals |
| Wallet, cryptography, EVO-OMAP | | | formatting and hashing; not modelled |

The four stores of a node (chain, accounts, refiners, mempool) sit behind one
read-write lock each. `apply_block` takes all four for writing and keeps them to
its end, so block applications of one node do not interleave; everything else
(building a candidate, creating and accepting attestations, handling peers) takes
them for a moment and works with what it read. A fifth lock guards the snapshot the
RPC server answers from, which every task refreshes after it has applied a block.
Nodes interact only by gossiped blocks, transactions and attestations and by sync
responses served from the store. Within a node the swarm task, which owns the
connections, and the network task, which owns the peer tables, interact by a queue of
events, which drops what it has no room for, and one of commands, which waits.

What makes each part correct:

- *money*: nothing is created or lost by rewards, fees, assays, slashes or
  withdrawals, at any point inside a block, and the counters kept for auditors agree;
- *custody*: stake and queued withdrawals always belong to a record that can be
  slashed for them, leave custody only at their height or by a slash, and a slash
  is final;
- *active set*: the vector agrees with the records, respects limit and ranking, and
  is entered only at an epoch boundary;
- *agreement*: nodes at the same block have the same state root and accept each
  other's blocks;
- *finality*: an honest refiner supports one branch only, a finalized block is held
  by enough stake, finality moves forward only;
- *pool*: limits hold, the counters are those of the entries, one entry per nonce,
  and no entry is given up for nothing or kept for ever;
- *one copy*: to a client of the RPC server the node looks like a single copy of the
  chain, across interleavings and restarts; its tasks never wait for each other for
  ever; what was accepted is stored;
- *peers*: only peers that hold the dataset are listened to, limits hold, nothing
  outlives a connection, every challenge is settled, and honest peers are not banned
  for good;
- *genesis*: a node runs on figures an operator confirmed, wrong figures of a minority
  do not move the reward, what the tool writes every node can use, and a database
  keeps its genesis;
- *difficulty*: the pruned window gives what the whole history gives;
- *progress*: a block can always be produced.

`PROJECT.json` lists the hazards of the code behind these properties line by line.

## 2. Modules

| Module | Models | How |
|---|---|---|
| `IntegerMath` | integer roots, `max`, `saturating_sub` | what the loops compute |
| `RefinerSet` | `refiner.rs` | operators from old fields to new fields |
| `Economics` | reward, assays, fee split, difficulty floor | operators named as in the source |
| `Chain` | one node's ledger: `apply_block`, dispatcher, accounts | state machine over `RefinerSet` and `Economics` |
| `Replicas` | several nodes: production, gossip, sync, attestations, finality, store, restart | state machine |
| `Mempool` | the pool, its handlers, candidates' transactions, the suggested fee | state machine |
| `Peers` | the swarm task and the network task of one node, with its peers | state machine |
| `Node` | the tasks of one node, their locks, the database, the clients of the RPC server | state machine over heights instead of ledgers |
| `Service` | what a node promises its clients | abstract specification, implemented by `Node` |
| `Ceremony` | the ceremony tool, its files, and the nodes that load them | state machine |
| `Retarget` | window of timestamps and retarget | operators |
| `Loops` | the root loops, `unbond_fifo`, and the chain of timestamps | state machine, compared with the one-line definitions and the whole history |
| `MCChain`, `MCReplicas`, `MCMempool`, `MCPeers`, `MCNode`, `MCCeremony` | genesis allocation, stake weights, transactions, peers, clients, sources, symmetry | instances for TLC |
| `SumTheorems`, `ChainProofs`, `MempoolProofs`, `ReplicasProofs`, `NodeProofs`, `PeersProofs`, `CeremonyProofs`, `LoopsProofs` | | lemmas and theorems |

`Chain` says what a block does, `Node` when and under which locks it is done and
stored, `Replicas` what several nodes make of each other's blocks, `Mempool` and `Peers`
what gets as far as a block or a node. Each represents the others by what it needs of
them: `Node` by heights, `Replicas` by active sets and roots, `Peers` by a height.

**Chain.** The variables are the fields of `AccountStore` (`balance`, `nonce`,
`keyed`), `RefinerSet` (`entries`, `status`, `active_set`, `unbonding`),
`ChainState` (`total_issued`, `total_burned`, `current_height`,
`current_difficulty`, `mint_ledger`) and the locals of `apply_block` that live
across its phases (`block`, `fees`, `assays`). `apply_block` is cut into
`BeginMinedBlock` or `BeginRefinedBlock` (header checks, slash evidence, reward),
any number of `ApplyTransfer`, `ApplyBond`, `ApplyUnbond`, and `FinishBlock` (fee
split, counters, withdrawals, activation, rerank, receipt). The cut only lets TLC
choose the transactions one by one: no other step comes between. Bond entries are
indexed by height: every block is at least 45 seconds younger than its parent
(`validate_block`), so entries of one block have one timestamp and are merged, and
the order by timestamp is the order of heights. A transaction that fails changes
nothing and is no step.

Inputs are nondeterministic: the producer among the registered accounts, verified
evidence against any account, the vein yield a hash finds, the result of the
timestamp retarget after the first epoch, the ticket drawn from the parent hash,
and every transaction. Signatures, transaction ids and Merkle roots are taken as
checked. Amounts are unbounded naturals; the overflow branches of the code need a
sum above `total_issued`, which `FundsAccounted` excludes.

**Replicas.** `mem[n]` is what node `n` holds in memory (tip, attestation counters,
finality index, finalized height, state root), `disk[n]` what it wrote last,
`stored[n]` the blocks its store can load, `pending[n]` its queued attestations,
`candidates` the blocks built and not yet applied by their builder, `owed` the
attestations its tasks are about to make. A block's effect on the ledger is reduced
to what later steps of this module read: the active set after it and the producer
its hash selects, both fixed when it is built. A refused block leaves behind what
the code leaves behind at the check that failed (`AfterRejection`). The network may
lose, delay, repeat and reorder; nodes are honest.

**Mempool.** `entries`, `account_tx_counts` and `total_size` are the fields of the
pool; `nonce`, `suggested_fee` and `height` are what it depends on of the ledger.
`Receive` is a gossip or RPC handler up to the point where it has read the account,
`Admit` and `Refuse` are `add_transaction` under the lock, and blocks may be applied
in between. `BuildCandidate` takes the first transactions by count, `BodyValid` is
what `validate_block` asks of them, and a candidate that is refused or not mined
leaves the pool as it is (`DropCandidate`). Which transactions a sender can pay is
an input of `ApplyBlock`. Submission times are kept as ages, capped at the first
expired age; equal keys are ordered arbitrarily, as iteration over a hash map is.

**Peers.** `connections`, `closing`, `asked` and `channels` belong to the swarm task,
`events` and `commands` are the queues, the tables and `banned_peers` belong to the
network task and have the names of the code. Every libp2p event of `SwarmTask` is an
action that puts an event with `TrySend`; every arm of `handle_network_event` is an
action that takes the first one. `ChallengeTimeout` is the timer's arm, `Restart` keeps
the chain and, if the file can be read, the ban list. A peer in `Honest` runs this
program, one in `Dataset` can compute a challenge's hash, the others send anything. Of
a block only its height and whether it is of the common chain, invalid, or without
proof of work are kept. Times are left open: a temporary ban may or may not have run
out, a challenge may expire at any moment, and any gossip may exceed the rate limit.

**Node.** `asked` says how each task has asked for each lock (and holds it or waits for
it), `after` who asked for it earlier and has not released it: the order of arrival in
which tokio's fair `RwLock` serves its waiters. `Needs` lists which locks an operation
holds together and in which order it takes them, `Acquire` takes them one at a time, and
`Peeks` are the locks taken on their own and released at once. `mem` is the state in memory as the heights its parts belong to, `store` the
database with its blocks by height, `info` the snapshot. `Execute` and `Persist` are the
two halves of `apply_block`, with the locks held in between, `Refresh` is
`chain_state_to_info`. A `Persist` may fail at any block (`node.rs:2315`): the failure is
only logged, the block stays applied, the snapshot follows, the submitter is told
"accepted", and the next block that is written leaves a hole below it. The history `lost`
names the blocks this has happened to.
A nonce that was read is the base of an upper bound only (`mempool.rs:165`), so that a
transaction a block has had may come into the pool again.
`Restart` may come at any point and find decayed values. `SubmitSolution`, `Process`,
`Reply` and `Timeout` are the submission channel with its one-shot reply.
`calls` records, for an open `opl_getTransaction`, which statuses the transaction has
had since it was asked for.

**Service.** The refinement `OneCopy == S!Spec` maps `height` to the chain in memory
without a block whose write is still to be attempted (`ChainView`), `durable` to the
height in the database, and the pool to the pool plus the transactions a block has taken
out before that attempt (`PoolView`): nobody can look at the pool meanwhile, so that a
transaction goes from pending to confirmed in one step, that of the write. A write that
succeeds is `Commit`, one that fails is `Lose`: the height rises, the transactions are
gone, and a restart returns to `durable`. `opl_getTransaction` looks into the pool and
then, without any lock, into the database; a block moves transactions in that direction.
One that is in the pool again after its block is shown as pending, as `StatusIn` says.

**Ceremony.** `phase`, `mode`, `key`, `clock`, `production`, `draft` are the progress of
`run_ceremony`, `files` the output directory, `genesis` and `stored` the nodes. Figures
are small numbers, a hash is what was hashed. `Verify` is the tool's verification and
`Accepts` the node's, which differ in what they hash and check. `Crash` may cut the
file, `Edit` and `Replace` are what others do to it.

**Loops.** The operators `ISqrtFloor` and `UnbondFifo` state results in one line; the
code has loops. `Loops` runs those loops, the roots in words of `Bits` bits with
wrapping and saturating arithmetic, and compares. Its fourth loop adds block after
block and compares the retarget from the pruned window with that from all timestamps.

## 3. Runs

| Run | Result | What it shows |
|---|---|---|
| `MCChain` | pass | `TypeOK`, `FundsAccounted`, `SupplyConserved`, `MintLedgerAgrees`, `RefinerRecordsSound`, `ActiveSetMatchesStatus`, `UnbondDelay`, `CustodyReleased`, `SlashIsFinal` |
| `MCChainRerank` | pass | `ActiveAreBest`, `ActivationAtBoundary` with more refiners than slots |
| `MCChainStall` | violation of `ChainKeepsMoving` | the difficulty floor can exceed every hash while nobody is active |
| `MCReplicas` | pass | `RootsAgree`, `BroadcastBlocksApply`, `FinalityMonotone`, `VotesOnOneChain`, `FinalityHeld`, `RefinersSignOnce` with a constant active set and registered keys, a failed write and two restarts |
| `MCReplicasActive` | violation of `RootsAgree` | counters of a refused block stay |
| `MCMempool` | pass | `TypeOK`, `PoolAccounted`, `OneEntryPerNonce`, `NonceGapHeld`, `RefusalKeepsPool`, `EntriesLeave` |
| `MCPeers` | pass | `TypeOK`, `VerifiedHoldDataset`, `SubnetLimitHeld`, `GoneAreForgotten`, `ChallengesSettled` |
| `MCPeersHonest` | violation of `HonestNotBannedForGood` | a second connection overwrites the challenge the first one answers |
| `MCNode` | pass | `StateWhole`, `AcceptedIsStored`, `HistoryComplete`, `NoDeadlock`, and `OneCopy`: the node implements `Service` |
| `MCCeremony` | pass | `WrittenIsUsable`, `LoadedWasConfirmed`, `MedianRobust`, `GenesisPinned` |
| `MCLoops` | pass | `LoopsExact`, `RetargetSound`, `LoopsReturn` |
| `MCLoopsEpoch` | violation of `RetargetPerEpoch` | after the first epoch the difficulty is retargeted at every block, not every `EPOCH` blocks |

The four violations are disagreements between the code and what the repository's
documents say; `PROJECT.json` quotes the sentences. The passing runs of `Replicas`
show what holds once their causes are excluded by the constants, and `RetargetSound`
what holds of each retarget, however often there is one.

Other properties of the code that a reader of its documents may not expect, visible in
the model without a run of their own:

- records that are still Bonding hold ranks in `rerank_refiners`, so that an eligible
  refiner may wait although a slot is free (THE_PLAN.md:387, which also words activation
  as checked at every block; the code activates at boundaries only, as
  `refiner.rs:484` and ECONOMICS.md:431 say and `ActivationAtBoundary` shows);
- a failed write is only logged: a submission is answered with "accepted" and is not
  stored, the snapshot shows a height whose block cannot be read, a later write leaves a
  hole (`AcceptedIsStored` and `HistoryComplete` name exactly these blocks as their only
  exceptions), and with a restart before the next write finality goes back
  (README.md:921; `FinalityMonotone` excludes a restart after a failed write);
- a miner's account that exists only in its own ledger makes its block apply at home
  and nowhere else (`node.rs:986`; `BroadcastBlocksApply` assumes registered keys);
- the ceremony window acts only on fetches, so that a manual ceremony may take longer
  and write a file its own verification refuses (`WrittenIsUsable` assumes a duration
  within the window).

### Bounds

`MCChain` has two accounts, an epoch (and unbonding delay) of two blocks, five
blocks, three transactions per account and at most one slash per block. Five blocks
are two boundaries and a block after them: enough to bond, mature, be ranked,
produce a refined block, unbond in two parts, be paid, and bond again, and for a
slash at any of these points. Amounts 4 and 8 against a minimum bond of 4 (2 coins
of 2 units) make full, partial and splitting unbonds. `MCChainRerank` has three
accounts and an epoch of one block, so that every block is a boundary, and a supply
for which the limit is between one and the number of refiners. `MCChainStall` keeps
the code's ratios (332 coins of base reward, difficulty 7) with fewer decimals and
a shorter epoch.

`MCReplicas` has two nodes, weights 3 and 1, an active set of both, and up to three
blocks after the common one: enough for a refined block, its attestation, the block
that includes it, a competing block, and a second inclusion of the same attestation.
The weights make the heavy node's attestation alone sufficient for 667 thousandths
and the light node's not. One write may fail and nodes may restart twice; a run with
such a fault builds at most two blocks (`MaxFaultyBuilds`, `Explored`), which is still
a block, its attestation and the block that includes it, or two blocks of one height.
These runs end when the blocks are used up, so deadlock is not
checked for them; `MCChain` checks it, with `Stopped` allowing an end only at
`MaxHeight` or when no producer is left.

`MCMempool` has two senders, a pool of four units for transactions of one or three,
blocks of two units, three submissions and two blocks (an epoch of two). Three
submissions fill the pool and force an eviction, exceed a sender's two entries, or
bid twice for one nonce; fees 10 and 11 are exactly 10% apart. A sender's third nonce
is beyond the gap until a block has used its first. The larger size
exceeds both the data limit and the block, so candidates are refused as well as
applied. It ends when submissions and blocks are used up, so deadlock is not checked.

`MCPeers` has one peer with the dataset and one without, both of which send anything,
one prefix with one slot, and an event queue of two. Three events of the environment
(connections opened, messages, restarts) are enough for a second connection of one peer,
for its answer to an overwritten challenge, for an event that finds the queue full, and
for a peer that is banned twice, which is permanent there. `MCPeersHonest` has an honest
peer in place of the first. What the peers have to say ends, so deadlock is not checked.

`MCNode` has two clients and one transaction; three requests, blocks, messages, expiries
or restarts make every pair of tasks meet in every order of their locks, with a third one
in between (clients are symmetric). Every write of a block may fail; failures are bounded
by the blocks alone. Deadlock is the invariant `NoDeadlock`, since a state
in which nobody has anything to do is no error.

`MCCeremony` has four production sources (symmetric) of which three must give a figure,
so that medians of odd and even numbers and both trims occur, figures in and out of the
sanity bounds and the right range, one price source, delays within and beyond the window,
two ceremonies, one edit or replacement, and one node that may start, store and restart.

`MCLoops` runs chains of six blocks with an epoch of three and intervals from half the
target, the least `validate_block` accepts, to five times the target: the window is full
and pruned, and every block after it is retargeted. It also runs every argument of an
8-bit word for the Newton iteration and every product of two 4-bit amounts for the binary search. For the largest word itself the
binary search returns one too many, because its square saturates; its callers pass
at most products of two 64-bit values. `MCLoopsEpoch` looks at the same chains; with
blocks at twice the target rate the difficulty is 7, 14 and 28 at three successive
blocks.

### Fairness

`Peers` assumes that the network task goes on handling events, that the swarm task
goes on handling commands, and that for every peer with a challenge pending the
interval in which it expires comes (weak fairness of `Handle`, `HandleCommand` and
`ChallengeTimeout(p)`): `run_node` spawns both tasks for ever, and the challenge timer is
an arm of the network task's `select!`. Nothing is assumed of the peers. `Mempool` assumes
that time passes and that the ten-minute timer of the network task runs (weak
fairness of `Tick` and `EvictExpired`), and nothing of submissions and blocks.
`Loops` assumes that a function call that can go on goes on. Nothing is assumed of
the network or of operators: `Chain`, `Replicas`, `Node` and `Ceremony` are checked for
safety only.

## 4. Proofs

| Theorem | Module | Statement |
|---|---|---|
| `TypeCorrect` | `ChainProofs` | `Spec => []TypeOK` |
| `RecordsTheorem` | `ChainProofs` | `Spec => []RefinerRecordsSound` |
| `FundsTheorem` | `ChainProofs` | `Spec => []FundsAccounted` |
| `SupplyTheorem` | `ChainProofs` | `Spec => []SupplyConserved` |
| `DelayTheorem` | `ChainProofs` | `Spec => []UnbondDelay` |
| `ActiveSetTheorem` | `ChainProofs` | `Spec => []ActiveSetMatchesStatus` |
| `SlashTheorem` | `ChainProofs` | `Spec => SlashIsFinal` |
| `LedgerTheorem` | `ChainProofs` | `Spec => []MintLedgerAgrees` |
| `CustodyTheorem` | `ChainProofs` | `Spec => CustodyReleased` |
| `ActivationTheorem` | `ChainProofs` | `Spec => ActivationAtBoundary` |
| `BestTheorem` | `ChainProofs` | `Spec => []ActiveAreBest` |
| `MempoolTyped` | `MempoolProofs` | `Spec => []TypeOK` |
| `CountersAreExact` | `MempoolProofs` | `Spec => []PoolAccounted` |
| `NoncesAreUnique` | `MempoolProofs` | `Spec => []OneEntryPerNonce` |
| `NonceGapIsHeld` | `MempoolProofs` | `Spec => []NonceGapHeld` |
| `RefusalsKeepThePool` | `MempoolProofs` | `Spec => RefusalKeepsPool` |
| `RefinersVoteOnOneChain` | `ReplicasProofs` | `Spec => []VotesOnOneChain` |
| `RefinersSignBlocksOnce` | `ReplicasProofs` | `Spec => []RefinersSignOnce` |
| `FinalityIsHeld` | `ReplicasProofs` | `Spec /\ StillActive => []FinalityHeld` |
| `FinalizedBlocksAgree` | `ReplicasProofs` | `Spec /\ StillActive /\ FINALITY_CONFIDENCE_MILLI > 500 => []FinalizedOnOneChain` |
| `NodesAgreeOnRoots` | `ReplicasProofs` | `Spec /\ Steady => []RootsAgree` |
| `BroadcastBlocksAreApplied` | `ReplicasProofs` | `Spec /\ Steady => []BroadcastBlocksApply` |
| `FinalityNeverGoesBack` | `ReplicasProofs` | `(Spec => RisesBetweenRestarts) /\ (Spec /\ Steady => FinalityMonotone)` |
| `StateIsWhole` | `NodeProofs` | `Spec => []StateWhole` |
| `AcceptedStaysStored` | `NodeProofs` | `Spec => []AcceptedIsStored` |
| `HistoryIsComplete` | `NodeProofs` | `Spec => []HistoryComplete` |
| `NeverDeadlocked` | `NodeProofs` | `Spec => []NoDeadlock` |
| `NodeImplementsService` | `NodeProofs` | `Spec => OneCopy` |
| `PeersTypeCorrect` | `PeersProofs` | `Spec => []TypeOK` |
| `VerifiedTheorem` | `PeersProofs` | `Spec => []VerifiedHoldDataset` |
| `SubnetTheorem` | `PeersProofs` | `Spec => []SubnetLimitHeld` |
| `GoneTheorem` | `PeersProofs` | `Spec => []GoneAreForgotten` |
| `ConfirmedTheorem` | `CeremonyProofs` | `Spec => []LoadedWasConfirmed` |
| `PinnedTheorem` | `CeremonyProofs` | `Spec => GenesisPinned` |
| `WrittenTheorem` | `CeremonyProofs` | `Spec => []WrittenIsUsable` |
| `RobustTheorem` | `CeremonyProofs` | `Spec => []MedianRobust` |
| `RetargetTheorem` | `LoopsProofs` | `Spec => []RetargetSound` |
| `ExactTheorem` | `LoopsProofs` | `Spec => []LoopsExact` |

Each theorem holds for every value of the constants that satisfies the named
assumptions of its module, and so without the bounds of the runs. The invariants below
were checked with TLC on the instances of section 3 before they were proved.

### Chain

The theorems hold for every finite set of accounts, every genesis allocation, epoch,
reward and bound. The only assumption that is more than a type is
`MineAssayAssumption`: the rounded root of a minable difficulty is at most an epoch (16
against 960 in the code), so that the mine assay never exceeds the reward it is taken
from.

*Types.* `TypeOK` is inductive. That amounts stay natural rests on the guards of the
dispatcher, on `FifoTotal` (what `UnbondFifo` leaves is the total minus the amount)
and on bounds of the rules: the mine assay is at most the gross reward
(`RewardTypes`) and the burned part of the fees at most the fees (`FeeBurnBound`).

*Custody.* `RefinerRecordsSound` is inductive together with `TypeOK`. Each action's
effect on one refiner's totals is a lemma (`SlashEffect`, `BondEffect`,
`UnbondEffect`, `FinishEffect`), from which the case analysis over the statuses
follows. The delicate case is `FinishBlock`: a record is removed only with its last
withdrawal, and `MaturedSplit` says that what is paid and what stays queued make up
the queue. `CustodyReleased` then follows step by step: only `FinishBlock` and a slash
lower a queue entry.

*Money.* `SupplyConserved` speaks of the state between blocks and is not inductive.
`FundsAccounted` is its strengthening to every point inside a block: the fees and
assays collected so far, the mine assay still to be booked and the reward not yet
counted as issued close the equation. It needs `RefinerRecordsSound`, because a
slash burns the queue of every id the evidence names but the stake only of a record
that exists and is not slashed yet: the sum over all accounts is right only if no
other id has stake. `MintLedgerAgrees` is inductive on its own.

*Active set.* `ActiveAreBest` bounds the active set at every step, although the limit
moves: it follows `total_issued`, which never falls, and the limit is monotone in it.
Its second half holds after a rerank because ranks are distinct, so that those below
the limit are the best; the proof counts the records that rank above one.

*Sums.* The community module's `SumFunctionOnSet` is a fold, whose defining recursion
the provers cannot use. `SumTheorems` characterises it by a table of partial sums
over all subsets, proves that the table exists and is unique by induction on sizes
stated with sets instead of a predicate parameter, and derives the laws used later:
empty, insert, remove, add, split, change of one summand, nonnegativity, prefix.

### Mempool

The invariant adds to the four properties that handlers which have read an account are
behind it (`HandlersBehind`): nonces only grow, so that a gap checked against an old
nonce holds of the newer one. That counters stay exact under `saturating_sub` rests on
the sums of the entries that go. `RefusalKeepsPool` is proved from `RoomForOne`, one
transaction fits the empty pool (100 kB against 100 MB in the code): the capacity check
after an eviction can then not fail, which is why no eviction is for nothing.

### Replicas

The theorems hold for any number of nodes, weights, blocks, restarts and failed writes,
and for a network that loses, delays, repeats and reorders.

*One branch.* `VotesOnOneChain` is not inductive: whether a later vote is on the branch
of an earlier one depends on the disk. `SafeInv` says that blocks form a tree, that the
ancestors of a block are a line, that memory is never behind or beside the disk, and
that everything a node has voted for is an ancestor of the tip on its disk: since
`create_block_attestation` signs only what the store holds, and what is on the disk is
never abandoned, votes stay on one line. `RefinersSignOnce` adds that, while writes
succeed, a producer's own blocks are on its disk.

*Finality.* `FinalInv` says that the finalized height of every state, in memory and on
disk, is that of an ancestor which holders of the required weight have on their disks.
The hypothesis `StillActive` (the active set does not change) is needed: weights are
those of the current active set. `FinalizedBlocksAgree` concludes, for any threshold
above one half (667 thousandths in the code), that two nodes never finalize different
branches, because the two sets of holders share a refiner, whose disk holds both blocks.

*Agreement.* `SteadyInv` says that a node's counters and root are functions of its tip
(`RootAt`, a sum over the ancestors), and that every pending attestation can be counted
by every node at that tip. It holds until a write fails, which the three properties name
as their condition (`failures = 0`). `Steady` (constant active set, registered keys)
excludes what else makes agreement fail: `MCReplicasActive`, and the account a node adds
at its start. `RisesBetweenRestarts` needs neither.

### Node

*Locks.* `after` is a line of those who asked for a lock (`InLine`), and a task asks for
a lock only when those before it in its operation are granted (`HeldBefore`). Two
holders of one lock are therefore both readers (`Exclusion`), so that a block is applied
and written by one task at a time. For `NoDeadlock`, the first in every line holds its
lock; if all tasks waited, nobody would stand in line for the mempool, whose holders wait
for nothing, then nobody for the snapshot and the refiners, the accounts and the chain,
each because its holders would wait for one of the locks before. The step for snapshot
and refiners is the delicate one, since readers take the two in both orders: the only
writer of the refiners holds the chain for writing and the only writer of the snapshot
holds it for reading, so that at most one of the two locks has a writer in line, and the
readers of the other one can go on.

*State.* `StateInv` says how the parts in memory, the work of the task that holds the
locks, the database and the snapshot follow each other. Nothing is assumed of the disk.
Memory may be ahead of the database by the block between `Execute` and `Persist` and by
blocks whose write has failed, so that "the snapshot is not ahead of the database" is no
invariant; in its place `MemoryFollows` says that every height up to the chain clients
know of is written or lost (`Covered(ChainView)`) and that the snapshot is not beyond it.
A block about to be answered with "accepted", and one that was, is in the database or its
write failed (`Settled`). A saved block stays as it is: a new block is for a height above
memory, which is never behind the database.

*Refinement.* `NodeImplementsService` maps every action to an action of `Service` or a
stutter under the mapping of section 2. `Persist` is `Commit` or `Lose`, and only it,
`Refresh`, `Insert`, `Expire`, the steps of `opl_getTransaction` and `Restart` are visible.
The history `calls` is what makes the answer of `opl_getTransaction` provable: a
transaction not found in the pool, and later not in the database, was unknown at some
moment in between (`CallsSee`).

### Peers

The theorems hold for every finite set of peers, every assignment of prefixes, and every
capacity and limit. The inductive invariant adds to the tables what the queues may
contain. `VerifiedHoldDataset` is not inductive because an answer is judged long after it
was given: the invariant says that a queued answer of a peer without the dataset has a
hash no challenge asks for (`AnswerEvents`), and that pending challenges have nonces above
that hash. For `SubnetLimitHeld` it says that the counter of a prefix is at least the
number of its holders: a peer with two connections takes two slots and frees one, so the
two are not equal, and that a slot belongs to a dialled peer. `GoneAreForgotten` needs
`EndsReported`: as long as no event was lost, the last queued event about a peer without
connections is its disconnection, whatever else of it is still in the queue.

### Ceremony

The theorems hold for every set of sources, figures, bounds and nodes. The invariant says
that every signature in a file is over something confirmed, edits included, that no node
has started while no file was written, and that a node with a block in its database runs
on what is stored or not at all. `WrittenIsUsable` adds that a draft is, field by field,
what `run_ceremony` derives from the figures (`MadeInv`), with `BlocksPerYear` at most the
least production in ounces (350 640 against 32 million in the code), so that the reward is
never zero. `MedianRobust` is proved without induction over the figures: a median is a
value with at most half of the figures below and at most half above it
(`KthExists`, `KthUnique`, `MedianIsMiddle`), so that a majority of right ones bounds it
on both sides; the reward is monotone in it.

### Loops

`RetargetTheorem` needs of the window that it is the last `EPOCH + 1` timestamps of the
history (`WindowOf`), and of the history that block `j` is at least `j - i` half targets
after block `i` (`Spaced`). That the difficulty at most doubles assumes an even block
target (90 seconds in the code): half of an odd one is rounded down.

`ExactTheorem` holds for every even width of at least four bits, every list of entries and
every amount up to their stake. `RootInv` says of the search that the root is between
the best guess and the right end, which is at most half a word, so that sums do not wrap,
and that a square saturates only above the argument (`SaturatedAbove`); of the iteration
that its guess is never below the root (`NewtonAbove`, the mean of two numbers against
their product) and that its sum fits a word once the first guess is passed (`NewtonFits`).
`FifoInv` says of `unbond_fifo` that the sum of the consumed entries and what remains is
the amount until an entry is split; what the entries up to a height hold is a sum
(`Prefix`), and at the end it decides every height of `UnbondFifo` (`FifoResult`). `Pow2`
is a recursive function, because the provers have no laws of exponentiation; that it
satisfies its recursion is proved from finite tables (`Pow2Recursion`).

### Only model-checked

- `EntriesLeave`, `ChallengesSettled`, `LoopsReturn`: liveness under fairness.
- `ChainKeepsMoving`, `HonestNotBannedForGood`, `RetargetPerEpoch`, and `RootsAgree` without
  `Steady`: violated.

## 5. Plan

1. *Done*: ledger (`RefinerSet`, `Economics`, `Chain`), nodes (`Replicas`), pool
   (`Mempool`), peers (`Peers`), tasks and RPC server (`Node`, implementing `Service`),
   ceremony (`Ceremony`), retarget (`Retarget`), loops, the theorems above.
2. *Finality with a changing active set*: what must be assumed of the sets that follow
   each other for two finalized blocks to be on one branch.

## 6. Not modelled

- *Wallet*: a command-line client (key derivation, mnemonics, requests); it shares no
  state with a node.
- *Cryptography and EVO-OMAP*: hashes and signatures are ideal; a mined block is given by
  its difficulty and yield, and only a peer with the dataset can answer a challenge.
- *libp2p*: the gossip mesh, Kademlia, ping and the wire formats; of delivery only what
  the tasks see of it. The known-peers cache, which only proposes addresses to dial.
- *RPC server*: parsing, API keys, rate limits per address, response formats, which refuse
  or format a request and change nothing behind the locks.
- *Store*: schema versions, the migration check, and writers that no longer have a caller
  (`save_accounts`, `save_refiners`, `save_dirty_refiners`).
- *Block validation*: Merkle roots, version and the bound on future timestamps are taken
  as satisfied. The logarithm of the vein yield is an input (`Yields`).
- *Ceremony*: the number formatting of canonical JSON and the texts for human readers.
- `last_signed_height` is set when a bond matures and read by no rule.
