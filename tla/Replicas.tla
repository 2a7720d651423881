------------------------------ MODULE Replicas ------------------------------
(***************************************************************************)
(* Several nodes of crates/node: block production, gossip and sync, the    *)
(* refiner attestations that finalize refined blocks, the store, and       *)
(* restarts.  What a block does to the ledger is module Chain's business;  *)
(* here it is the part that finality and agreement depend on: the active   *)
(* set and the producer selected after the block, chosen when the block is *)
(* built and the same for everyone who applies it.                         *)
(*                                                                         *)
(* A block its producer has applied is named by its index in blocks, which *)
(* stands for its hash.                                                    *)
(* Node n runs with a key file, and its producer id is n.  Heights are     *)
(* counted from a block on which all nodes agree.  Nodes are honest; the   *)
(* network may delay, reorder, repeat and lose what they send.             *)
(***************************************************************************)
EXTENDS Integers, FiniteSets, SequencesExt

CONSTANTS
  Nodes,
  Miners,         \* nodes started with --mine
  Refiners,       \* nodes started with --refine
  Selections,     \* bound: the refiners that block hashes select, if active
  OnChainKeys,    \* ids whose account and public key the common state holds
  InitActive,     \* the active refiners of the common state
  ActiveChoices,  \* bound: the active sets a block's transactions may lead to
  Weight,         \* the stake of each refiner
  EPOCH,
  FINALITY_CONFIDENCE_MILLI,   \* 667
  MAX_ATTESTATIONS_PER_BLOCK,
  MaxBlocks,         \* bound: blocks applied by their producer, the common one included
  MaxBuilds,         \* bound: candidates built
  MaxWriteFailures,  \* bound: failed writes of a block to the store
  MaxRestarts        \* bound: restarts

ASSUME NodesAssumption ==
  /\ Nodes \subseteq Nat \ {0}
  /\ IsFiniteSet(Nodes)
  /\ Miners \subseteq Nodes
  /\ Refiners \subseteq Nodes
  /\ Selections \subseteq Nodes
  /\ Weight \in [Nodes -> Nat \ {0}]
  /\ OnChainKeys \subseteq Nodes
  /\ InitActive \subseteq OnChainKeys
  /\ ActiveChoices \subseteq SUBSET OnChainKeys
ASSUME BoundsAssumption ==
  /\ EPOCH \in Nat \ {0}
  /\ FINALITY_CONFIDENCE_MILLI \in 1 .. 1000
  /\ MAX_ATTESTATIONS_PER_BLOCK \in Nat
  /\ MaxBlocks \in Nat
  /\ MaxBuilds \in Nat
  /\ MaxWriteFailures \in Nat
  /\ MaxRestarts \in Nat

VARIABLES
  blocks,      \* the blocks their producers have applied and broadcast
  votes,       \* attestations broadcast: [refiner, block]
  candidates,  \* blocks built and not yet submitted to the builder's apply_block
  builds,
  mem,         \* mem[n]: ChainState and refiner counters in memory
  disk,        \* disk[n]: the same, as last written by save_applied_block_atomic
  stored,      \* stored[n][h]: the block in n's store at height h, 0 if none
  pending,     \* pending[n]: pending_attestations
  owed,        \* <<n, b>>: n has applied b and will try to attest it
  failures, restarts

vars == <<blocks, votes, candidates, builds, mem, disk, stored, pending, owed,
          failures, restarts>>

Common == 1
BlockIds == DOMAIN blocks
Height(b) == blocks[b].height
Tip(n) == mem[n].tip

IsRefined(b) == blocks[b].kind = "Refined"

(* Before the next block with a reachable height; u64 saturating_sub(EPOCH). *)
EpochBefore(h) == IF h >= EPOCH THEN h - EPOCH ELSE 0

(* ensure_local_producer_account: at every start a node adds an account    *)
(* with its own public key to its copy of the ledger.                      *)
KeyedAccounts(n) == OnChainKeys \cup {n}

StateRoot(n, correct) == [correct |-> correct, accounts |-> KeyedAccounts(n)]

-----------------------------------------------------------------------------
InitState ==
  LET zero == [r \in Nodes |-> 0]
  IN  [tip |-> Common, correct |-> zero, index |-> {}, finalized |-> 0,
       root |-> [correct |-> zero, accounts |-> OnChainKeys]]

(* Whom select_block_producer may pick: any active refiner, by the hash. *)
Selectable(active) ==
  IF active \cap Selections = {} THEN {0} ELSE active \cap Selections

Init ==
  /\ \E s \in Selectable(InitActive) :
       blocks = << [height |-> 0, parent |-> 0, kind |-> "Mined", producer |-> 0,
                    root |-> InitState.root, attestations |-> <<>>,
                    active |-> InitActive, selected |-> s] >>
  /\ votes = {}
  /\ candidates = {}
  /\ builds = 0
  /\ mem = [n \in Nodes |-> InitState]
  /\ disk = [n \in Nodes |-> InitState]
  /\ stored = [n \in Nodes |-> [h \in 0 .. MaxBlocks |-> IF h = 0 THEN Common ELSE 0]]
  /\ pending = [n \in Nodes |-> {}]
  /\ owed = {}
  /\ failures = 0
  /\ restarts = 0

-----------------------------------------------------------------------------
(* drain_pending_attestations_for_block: any order, since the map has none. *)
Live(n, h) == {v \in pending[n] : Height(v.block) >= EpochBefore(h) /\ Height(v.block) < h}

Drains(live) ==
  IF Cardinality(live) <= MAX_ATTESTATIONS_PER_BLOCK THEN SetToSeqs(live)
  ELSE UNION {SetToSeqs(s) : s \in kSubset(MAX_ATTESTATIONS_PER_BLOCK, live)}

Build(n, kind) ==
  LET h == Height(Tip(n)) + 1
  IN  /\ builds < MaxBuilds
      /\ builds' = builds + 1
      /\ ~\E c \in candidates : c.producer = n /\ c.kind = kind
      /\ \E drained \in Drains(Live(n, h)), active \in ActiveChoices :
           \E s \in Selectable(active) :
             /\ candidates' = candidates \cup
                  {[height |-> h, parent |-> Tip(n), kind |-> kind, producer |-> n,
                    root |-> mem[n].root, attestations |-> drained,
                    active |-> active, selected |-> s]}
             /\ pending' = [pending EXCEPT ![n] = Live(n, h) \ ToSet(drained)]
      /\ UNCHANGED <<blocks, votes, mem, disk, stored, owed, failures, restarts>>

BuildMined(n) == n \in Miners /\ Build(n, "Mined")

BuildRefined(n) ==
  n \in Refiners /\ blocks[Tip(n)].selected = n /\ Build(n, "Refined")

(* mine_parallel finds no nonce: the candidate is dropped with what it drained. *)
MiningFails(c) ==
  /\ c.kind = "Mined"
  /\ candidates' = candidates \ {c}
  /\ UNCHANGED <<blocks, votes, builds, mem, disk, stored, pending, owed, failures, restarts>>

-----------------------------------------------------------------------------
(* apply_block of a block record.  The header must extend the tip and      *)
(* carry its state root.                                                   *)
Extends(n, block) == block.parent = Tip(n) /\ block.root = mem[n].root

Active(n) == blocks[Tip(n)].active

(* The checks of the attestation loop on the i-th attestation. *)
AttestationValid(n, block, i) ==
  LET v == block.attestations[i]
      target == stored[n][Height(v.block)]
  IN  /\ Height(v.block) < block.height
      /\ \A j \in 1 .. (i - 1) :
           LET w == block.attestations[j]
           IN  ~(w.refiner = v.refiner /\ Height(w.block) = Height(v.block))
      /\ target # 0
      /\ IsRefined(target)
      /\ v.block = target
      /\ v.refiner \in Active(n)

(* The attestations before the first invalid one: the loop has recorded    *)
(* them when it returns an error, and nothing takes them back.             *)
Recorded(n, block) ==
  {i \in DOMAIN block.attestations : \A j \in 1 .. i : AttestationValid(n, block, j)}

AllRecorded(n, block) == Recorded(n, block) = DOMAIN block.attestations

AfterLoop(n, block) ==
  LET atts == block.attestations
      recorded == Recorded(n, block)
  IN  [mem[n] EXCEPT
         !.correct = [r \in Nodes |->
            mem[n].correct[r] + Cardinality({i \in recorded : atts[i].refiner = r})],
         !.index = mem[n].index \cup {atts[i] : i \in recorded}]

ActiveWeight(refiners) == SumFunctionOnSet(Weight, refiners)

(* active_refiner_weight_milli_threshold: rounded up. *)
Threshold(n) == (ActiveWeight(Active(n)) * FINALITY_CONFIDENCE_MILLI + 999) \div 1000

(* indexed_attestation_weight_for_refiners *)
IndexedWeight(n, index, target) ==
  ActiveWeight({v.refiner : v \in {w \in index : w.block = target}} \cap Active(n))

(* Mutant of FinalizedHeight: no newly finalized block resets the height. *)
FinalizedHeightReset(n, block, state) ==
  LET reached == {Height(t) : t \in {u \in {a.block : a \in ToSet(block.attestations)} :
                    IndexedWeight(n, state.index, u) >= Threshold(n)}}
  IN  IF reached = {} THEN 0 ELSE Max(reached)

FinalizedHeight(n, block, state) ==
  LET touched == {a.block : a \in ToSet(block.attestations)}
      reached == {Height(t) : t \in {u \in touched :
                    /\ Height(u) > state.finalized
                    /\ IndexedWeight(n, state.index, u) >= Threshold(n)}}
  IN  IF Threshold(n) = 0 \/ reached = {} THEN state.finalized ELSE Max(reached)

AfterFinality(n, block) ==
  LET state == AfterLoop(n, block)
      finalized == FinalizedHeight(n, block, state)
  IN  [state EXCEPT
         !.finalized = finalized,
         !.index = {v \in state.index : /\ Height(v.block) > finalized
                                        /\ Height(v.block) >= EpochBefore(Height(Tip(n)))}]

ProducerValid(n, block) ==
  /\ block.producer \in KeyedAccounts(n)
  /\ block.kind = "Refined" => block.producer = blocks[Tip(n)].selected

Accepts(n, block) == Extends(n, block) /\ AllRecorded(n, block) /\ ProducerValid(n, block)

(* What a rejected block leaves behind depends on the check that failed. *)
AfterRejection(n, block) ==
  IF ~Extends(n, block) THEN mem[n]
  ELSE IF ~AllRecorded(n, block) THEN AfterLoop(n, block)
  ELSE AfterFinality(n, block)

RejectBlock(n, block) ==
  /\ ~Accepts(n, block)
  /\ mem' = [mem EXCEPT ![n] = AfterRejection(n, block)]
  /\ UNCHANGED <<disk, stored, failures>>

(* Mutant of AcceptBlock: the batch is not synced, so a crash may lose it. *)
AcceptBlockUnsynced(n, block, b) ==
  LET final == AfterFinality(n, block)
      after == [final EXCEPT !.tip = b, !.root = StateRoot(n, final.correct)]
  IN  /\ Accepts(n, block)
      /\ mem' = [mem EXCEPT ![n] = after]
      /\ stored' = [stored EXCEPT ![n][block.height] = b]
      /\ disk' \in {disk, [disk EXCEPT ![n] = after]}
      /\ UNCHANGED failures

(* The state is written whole, in one synced batch.  A failed write is     *)
(* logged and the block stays applied.                                     *)
AcceptBlock(n, block, b) ==
  LET final == AfterFinality(n, block)
      after == [final EXCEPT !.tip = b, !.root = StateRoot(n, final.correct)]
  IN  /\ Accepts(n, block)
      /\ mem' = [mem EXCEPT ![n] = after]
      /\ \/ /\ disk' = [disk EXCEPT ![n] = after]
            /\ stored' = [stored EXCEPT ![n][block.height] = b]
            /\ UNCHANGED failures
         \/ /\ failures < MaxWriteFailures
            /\ failures' = failures + 1
            /\ UNCHANGED <<disk, stored>>

-----------------------------------------------------------------------------
(* The mining and the refining loop: apply the own block, then broadcast   *)
(* and attest it.                                                          *)
SubmitCandidate(c) ==
  LET n == c.producer
      b == Len(blocks) + 1
  IN  /\ Len(blocks) < MaxBlocks
      /\ AcceptBlock(n, c, b)
      /\ blocks' = Append(blocks, c)
      /\ candidates' = candidates \ {c}
      /\ owed' = owed \cup {<<n, b>>}
      /\ UNCHANGED <<votes, builds, pending, restarts>>

CandidateFails(c) ==
  /\ RejectBlock(c.producer, c)
  /\ candidates' = candidates \ {c}
  /\ UNCHANGED <<blocks, votes, builds, pending, owed, restarts>>

GossipBlock(n, b) ==
  /\ Height(b) > Height(Tip(n))
  /\ AcceptBlock(n, blocks[b], b)
  /\ owed' = owed \cup {<<n, b>>}
  /\ UNCHANGED <<blocks, votes, candidates, builds, pending, restarts>>

(* A block of a sync response, from a peer's store: nobody attests it. *)
SyncBlock(n, b) ==
  /\ \E m \in Nodes \ {n} : stored[m][Height(b)] = b
  /\ Height(b) = Height(Tip(n)) + 1
  /\ AcceptBlock(n, blocks[b], b)
  /\ UNCHANGED <<blocks, votes, candidates, builds, pending, owed, restarts>>

PeerBlockFails(n, b) ==
  /\ Height(b) > Height(Tip(n))
  /\ RejectBlock(n, blocks[b])
  /\ UNCHANGED <<blocks, votes, candidates, builds, pending, owed, restarts>>

-----------------------------------------------------------------------------
(* accept_block_attestation: the checks, and what is pending afterwards. *)
Acceptable(n, v) ==
  LET target == stored[n][Height(v.block)]
  IN  v.refiner \in Active(n) /\ target # 0 /\ IsRefined(target) /\ target = v.block

PendingWith(n, v) ==
  LET kept == {w \in pending[n] : Height(w.block) >= EpochBefore(Height(Tip(n)))}
      known == \E w \in kept : w.refiner = v.refiner /\ Height(w.block) = Height(v.block)
  IN  IF known THEN kept ELSE kept \cup {v}

(* Mutant of CanAttest: the block need not be in the store.               *)
CanAttestUnstored(n, b) == n \in Active(n) /\ b = Tip(n) /\ IsRefined(b)

(* create_block_attestation needs a loadable refined block, so a block     *)
(* whose write failed is never attested.                                   *)
CanAttest(n, b) == n \in Active(n) /\ stored[n][Height(b)] = b /\ IsRefined(b)

(* Mutant of AttestBlock: the refiner counts its own attestation at once.  *)
AttestBlockCounted(n, b) ==
  LET v == [refiner |-> n, block |-> b]
  IN  /\ <<n, b>> \in owed
      /\ owed' = owed \ {<<n, b>>}
      /\ CanAttest(n, b)
      /\ votes' = votes \cup {v}
      /\ pending' = [pending EXCEPT ![n] = PendingWith(n, v)]
      /\ mem' = [mem EXCEPT ![n].correct[n] = @ + 1]
      /\ UNCHANGED <<blocks, candidates, builds, disk, stored, failures, restarts>>

AttestBlock(n, b) ==
  LET v == [refiner |-> n, block |-> b]
  IN  /\ <<n, b>> \in owed
      /\ owed' = owed \ {<<n, b>>}
      /\ CanAttest(n, b)
      /\ votes' = votes \cup {v}
      /\ pending' = IF Acceptable(n, v) THEN [pending EXCEPT ![n] = PendingWith(n, v)]
                    ELSE pending
      /\ UNCHANGED <<blocks, candidates, builds, mem, disk, stored, failures, restarts>>

DeclineAttestation(n, b) ==
  /\ <<n, b>> \in owed
  /\ ~CanAttest(n, b)
  /\ owed' = owed \ {<<n, b>>}
  /\ UNCHANGED <<blocks, votes, candidates, builds, mem, disk, stored, pending,
                 failures, restarts>>

GossipAttestation(n, v) ==
  /\ v \in votes
  /\ Acceptable(n, v)
  /\ pending' = [pending EXCEPT ![n] = PendingWith(n, v)]
  /\ UNCHANGED <<blocks, votes, candidates, builds, mem, disk, stored, owed,
                 failures, restarts>>

(* A crash or a stop, and OpolysNode::new on the same data directory. *)
Restart(n) ==
  /\ restarts < MaxRestarts
  /\ restarts' = restarts + 1
  /\ mem' = [mem EXCEPT ![n] = disk[n]]
  /\ pending' = [pending EXCEPT ![n] = {}]
  /\ candidates' = {c \in candidates : c.producer # n}
  /\ owed' = {o \in owed : o[1] # n}
  /\ UNCHANGED <<blocks, votes, builds, disk, stored, failures>>

-----------------------------------------------------------------------------
Next ==
  \/ \E n \in Nodes :
       \/ BuildMined(n)
       \/ BuildRefined(n)
       \/ Restart(n)
       \/ \E b \in BlockIds :
            \/ GossipBlock(n, b)
            \/ SyncBlock(n, b)
            \/ PeerBlockFails(n, b)
            \/ AttestBlock(n, b)
            \/ DeclineAttestation(n, b)
       \/ \E v \in votes : GossipAttestation(n, v)
  \/ \E c \in candidates :
       \/ SubmitCandidate(c)
       \/ CandidateFails(c)
       \/ MiningFails(c)

Spec == Init /\ [][Next]_vars
-----------------------------------------------------------------------------
(* Sets of blocks that hold the parents of their blocks. *)
Closed(S) == \A b \in S \ {Common} : blocks[b].parent \in S

(* The blocks a block builds on, itself included: the least closed set     *)
(* that holds it.                                                          *)
Ancestors ==
  [b \in BlockIds |->
     {a \in BlockIds : \A S \in SUBSET BlockIds : b \in S /\ Closed(S) => a \in S}]

OnOneChain(a, b) == a \in Ancestors[b] \/ b \in Ancestors[a]

(* An honest refiner never attests two branches, across failed writes and  *)
(* restarts: create_block_attestation signs only what its own store holds, *)
(* and what a store holds is never abandoned.                              *)
VotesOnOneChain ==
  \A v, w \in votes :
    v.refiner = w.refiner /\ v.block < w.block => OnOneChain(v.block, w.block)

(* The block a node has finalized: the one of its chain at the finalized   *)
(* height.                                                                 *)
FinalBlock(state) == CHOOSE b \in Ancestors[state.tip] : Height(b) = state.finalized

(* While the active set stands still, a finalized block is on the disk of  *)
(* refiners with 66.7% of the weight: whatever writes fail and whichever   *)
(* nodes restart, they go on from it, so no other branch can be finalized. *)
FinalityHeld ==
  \A n \in Nodes : mem[n].finalized > 0 =>
    LET final == FinalBlock(mem[n])
        holders == {r \in Active(n) : final \in Ancestors[disk[r].tip]}
    IN  1000 * ActiveWeight(holders) >= FINALITY_CONFIDENCE_MILLI * ActiveWeight(Active(n))

(* As long as writes succeed, an honest refiner never publishes two       *)
(* refined blocks of one height, whatever is in flight when it restarts:   *)
(* the evidence would burn its whole stake.                                *)
RefinersSignOnce ==
  failures = 0 =>
    \A b, c \in BlockIds :
      IsRefined(b) /\ IsRefined(c) /\ Height(b) = Height(c)
        /\ blocks[b].producer = blocks[c].producer => b = c

(* README.md: "Finality is final."  The finalized height of a node never   *)
(* goes back, whatever blocks it refuses and whenever it restarts, unless  *)
(* a write has failed: only a restart after that takes it back.            *)
FinalityMonotone ==
  [][failures = 0 \/ restarts' = restarts =>
       \A n \in Nodes : mem'[n].finalized >= mem[n].finalized]_vars

(* THREAT_MODEL.md: honest nodes agree on the "block history" and the      *)
(* "state root": as long as writes succeed, nodes at the same block have   *)
(* the same root, also after restarts.                                     *)
RootsAgree ==
  failures = 0 => \A m, n \in Nodes : Tip(m) = Tip(n) => mem[m].root = mem[n].root

(* THREAT_MODEL.md: honest nodes agree on the "block history": as long as  *)
(* writes succeed, a block its honest producer has applied and broadcast   *)
(* is applied by every node that is at its parent.  (A node whose store    *)
(* misses a block refuses the attestations of it.)                         *)
BroadcastBlocksApply ==
  failures = 0 =>
    \A n \in Nodes, b \in BlockIds \ {Common} :
      blocks[b].parent = Tip(n) => Accepts(n, blocks[b])
=============================================================================
