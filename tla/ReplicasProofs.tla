--------------------------- MODULE ReplicasProofs ---------------------------
(***************************************************************************)
(* Proofs about Replicas, for any nodes, stakes, epochs and limits, any    *)
(* number of blocks, restarts and (where not excluded) failed writes: what *)
(* honest refiners sign stays on one chain, a finalized block stays on the *)
(* disks of 66.7% of the stake, and nodes at the same block agree.         *)
(***************************************************************************)
EXTENDS Replicas, SumTheorems

Attestation == [refiner : Nodes, block : Nat]

Root == [correct : [Nodes -> Nat], accounts : SUBSET Nodes]

Block == [height : Nat, parent : Nat, kind : {"Mined", "Refined"},
          producer : Nodes \cup {0}, root : Root, attestations : Seq(Attestation),
          active : SUBSET Nodes, selected : Nat]

NodeState == [tip : Nat, correct : [Nodes -> Nat], index : SUBSET Attestation,
              finalized : Nat, root : Root]

Types ==
  /\ blocks \in Seq(Block)
  /\ candidates \subseteq Block
  /\ votes \subseteq Attestation
  /\ IsFiniteSet(votes)
  /\ mem \in [Nodes -> NodeState]
  /\ disk \in [Nodes -> NodeState]
  /\ stored \in [Nodes -> [0 .. MaxBlocks -> Nat]]
  /\ pending \in [Nodes -> SUBSET Attestation]
  /\ failures \in Nat

(* The blocks are a tree whose root is the common block. *)
Grows(block) ==
  /\ block.parent \in BlockIds
  /\ block.height = Height(block.parent) + 1

Tree ==
  /\ Common \in BlockIds
  /\ Height(Common) = 0
  /\ blocks[Common].kind = "Mined"
  /\ blocks[Common].attestations = <<>>
  /\ \A b \in BlockIds : Height(b) < b /\ Height(b) <= MaxBlocks
  /\ \A b \in BlockIds \ {Common} : Grows(blocks[b]) /\ blocks[b].producer \in Nodes
  /\ \A c \in candidates : Grows(c) /\ c.producer \in Nodes

(* The ancestors of a block are on one chain, one at each height. *)
Lines ==
  \A b \in BlockIds : \A a \in Ancestors[b] :
    /\ a = b \/ Height(a) < Height(b)
    /\ \A c \in Ancestors[b] : OnOneChain(a, c)

(* A node's memory is never behind or beside its disk, and all that its    *)
(* store holds is below the tip on its disk.                               *)
Stores ==
  \A n \in Nodes :
    /\ mem[n].tip \in BlockIds
    /\ disk[n].tip \in Ancestors[mem[n].tip]
    /\ \A h \in 0 .. MaxBlocks : stored[n][h] # 0 =>
         stored[n][h] \in Ancestors[disk[n].tip] /\ Height(stored[n][h]) = h

(* A refiner keeps what it has attested. *)
VotesKept == \A v \in votes : v.block \in Ancestors[disk[v.refiner].tip]

(* Only attestations that were sent are pending, in blocks or counted. *)
Sent ==
  /\ \A c \in candidates : ToSet(c.attestations) \subseteq votes
  /\ \A b \in BlockIds : ToSet(blocks[b].attestations) \subseteq votes
  /\ \A n \in Nodes : /\ pending[n] \subseteq votes
                      /\ mem[n].index \subseteq votes
                      /\ disk[n].index \subseteq votes

(* While writes succeed, a producer's disk keeps the blocks it published. *)
OwnKept ==
  failures = 0 =>
    /\ \A n \in Nodes : mem[n].tip = disk[n].tip
    /\ \A b \in BlockIds \ {Common} : b \in Ancestors[disk[blocks[b].producer].tip]

SafeInv == Types /\ Tree /\ Lines /\ Stores /\ VotesKept /\ Sent /\ OwnKept

-----------------------------------------------------------------------------
(* The active set stands still. *)
StillActive == ActiveChoices \subseteq {InitActive}

ActiveSame ==
  /\ \A b \in BlockIds : blocks[b].active = InitActive
  /\ \A c \in candidates : c.active = InitActive

Holders(u) == {r \in InitActive : u \in Ancestors[disk[r].tip]}

Supported(u) ==
  /\ 1000 * ActiveWeight(Holders(u)) >= FINALITY_CONFIDENCE_MILLI * ActiveWeight(InitActive)
  /\ ActiveWeight(InitActive) > 0

(* The finalized height of a state is that of an ancestor of its tip that  *)
(* refiners with the required weight hold.                                 *)
FinalOK(state) ==
  state.finalized > 0 =>
    \E u \in Ancestors[state.tip] : Height(u) = state.finalized /\ Supported(u)

FinalInv ==
  /\ StillActive
  /\ ActiveSame
  /\ \A n \in Nodes : FinalOK(mem[n]) /\ FinalOK(disk[n])

-----------------------------------------------------------------------------
(* The active set stands still and every node's key is registered. *)
Steady == StillActive /\ OnChainKeys = Nodes

(* The attestations of refiner r in a block. *)
AttestedBy(block, r) ==
  {i \in DOMAIN block.attestations : block.attestations[i].refiner = r}

(* The counters after block b: what its ancestors attest. *)
CorrectAt(b) ==
  [r \in Nodes |->
     SumFunctionOnSet([a \in BlockIds |-> Cardinality(AttestedBy(blocks[a], r))],
                      Ancestors[b])]

RootAt(b) == [correct |-> CorrectAt(b), accounts |-> Nodes]

(* An attestation that any node whose tip is b can count. *)
Countable(v, b) ==
  v.block \in Ancestors[b] /\ IsRefined(v.block) /\ v.refiner \in InitActive

Alike(v, w) == v.refiner = w.refiner /\ Height(v.block) = Height(w.block)

(* A block that every node at its parent accepts. *)
Applies(block) ==
  /\ block.root = RootAt(block.parent)
  /\ block.kind = "Refined" => block.producer = blocks[block.parent].selected
  /\ \A i \in DOMAIN block.attestations :
       /\ Countable(block.attestations[i], block.parent)
       /\ \A j \in DOMAIN block.attestations :
            Alike(block.attestations[i], block.attestations[j]) => i = j

(* The state of node n is the one that the chain below its tip determines. *)
StateGood(n) ==
  /\ \A a \in Ancestors[Tip(n)] : stored[n][Height(a)] = a
  /\ mem[n].correct = CorrectAt(Tip(n))
  /\ mem[n].root = RootAt(Tip(n))

PendingGood(n) ==
  \A v \in pending[n] : /\ Countable(v, Tip(n))
                        /\ \A w \in pending[n] : Alike(v, w) => v = w

SteadyInv ==
  /\ Steady
  /\ failures = 0
  /\ mem = disk
  /\ \A n \in Nodes : StateGood(n) /\ PendingGood(n)
  /\ \A b \in BlockIds \ {Common} : Applies(blocks[b])
  /\ \A c \in candidates : Applies(c)

-----------------------------------------------------------------------------
(* Ancestors. *)

LEMMA BlockIdsNat ==
  ASSUME Types
  PROVE  BlockIds = 1 .. Len(blocks) /\ Len(blocks) \in Nat
BY DEF Types, BlockIds

LEMMA BlockType ==
  ASSUME Types, NEW b \in BlockIds
  PROVE  blocks[b] \in Block
BY DEF Types, BlockIds

(* The fields of a block. *)
LEMMA BlockFields ==
  ASSUME NEW block \in Block
  PROVE  /\ block.height \in Nat /\ block.parent \in Nat
         /\ block.kind \in {"Mined", "Refined"}
         /\ block.producer \in Nodes \cup {0}
         /\ block.root \in Root
         /\ block.attestations \in Seq(Attestation)
         /\ block.active \subseteq Nodes
         /\ block.selected \in Nat
BY DEF Block

LEMMA AncestorsClosed ==
  ASSUME Tree, NEW b \in BlockIds
  PROVE  /\ Ancestors[b] \in SUBSET BlockIds
         /\ b \in Ancestors[b]
         /\ Closed(Ancestors[b])
<1>1. Ancestors[b] =
        {a \in BlockIds : \A S \in SUBSET BlockIds : b \in S /\ Closed(S) => a \in S}
  BY DEF Ancestors
<1>2. Ancestors[b] \in SUBSET BlockIds /\ b \in Ancestors[b]
  BY <1>1
<1>3. Closed(Ancestors[b])
  <2> SUFFICES ASSUME NEW a \in Ancestors[b] \ {Common}
               PROVE  blocks[a].parent \in Ancestors[b]
    BY DEF Closed
  <2>1. blocks[a].parent \in BlockIds
    BY <1>2 DEF Tree, Grows
  <2>2. ASSUME NEW S \in SUBSET BlockIds, b \in S, Closed(S)
        PROVE  blocks[a].parent \in S
    <3>1. a \in S
      BY <1>1, <2>2
    <3> QED  BY <2>2, <3>1 DEF Closed
  <2> QED  BY <1>1, <2>1, <2>2
<1> QED  BY <1>2, <1>3

(* A closed set that holds a block holds its ancestors. *)
LEMMA AncestorsLeast ==
  ASSUME NEW b \in BlockIds, NEW S \in SUBSET BlockIds, b \in S, Closed(S)
  PROVE  Ancestors[b] \subseteq S
BY DEF Ancestors

LEMMA AncestorsTransitive ==
  ASSUME Tree, NEW b \in BlockIds, NEW a \in Ancestors[b]
  PROVE  a \in BlockIds /\ Ancestors[a] \subseteq Ancestors[b]
BY AncestorsClosed, AncestorsLeast

LEMMA AncestorsCommon ==
  ASSUME Tree
  PROVE  Ancestors[Common] = {Common}
<1>1. Common \in BlockIds /\ {Common} \in SUBSET BlockIds /\ Closed({Common})
  BY DEF Tree, Closed
<1> QED  BY <1>1, AncestorsClosed, AncestorsLeast

LEMMA AncestorsStep ==
  ASSUME Tree, NEW b \in BlockIds \ {Common}
  PROVE  Ancestors[b] = {b} \cup Ancestors[blocks[b].parent]
<1> DEFINE p == blocks[b].parent
<1>1. p \in BlockIds
  BY DEF Tree, Grows
<1>2. /\ Ancestors[p] \in SUBSET BlockIds /\ p \in Ancestors[p] /\ Closed(Ancestors[p])
      /\ Ancestors[b] \in SUBSET BlockIds /\ b \in Ancestors[b] /\ Closed(Ancestors[b])
  BY <1>1, AncestorsClosed
<1>3. p \in Ancestors[b]
  BY <1>2 DEF Closed
<1>4. Ancestors[p] \subseteq Ancestors[b]
  BY <1>3, AncestorsTransitive
<1>5. Closed({b} \cup Ancestors[p])
  BY <1>2 DEF Closed
<1>6. Ancestors[b] \subseteq {b} \cup Ancestors[p]
  <2> HIDE DEF p
  <2> QED  BY <1>2, <1>5, AncestorsLeast
<1> QED  BY <1>2, <1>4, <1>6

(* Two ancestors of a block at one height are the same. *)
LEMMA OneAtEachHeight ==
  ASSUME Types, Tree, Lines, NEW b \in BlockIds, NEW a \in Ancestors[b],
         NEW c \in Ancestors[b], Height(a) = Height(c)
  PROVE  a = c
<1>1. a \in BlockIds /\ c \in BlockIds
  BY AncestorsTransitive
<1>2. a \in Ancestors[c] \/ c \in Ancestors[a]
  BY DEF Lines, OnOneChain
<1>3. Height(a) \in Nat /\ Height(c) \in Nat
  BY <1>1, BlockType, BlockFields DEF Height
<1> QED  BY <1>1, <1>2, <1>3 DEF Lines

-----------------------------------------------------------------------------
(* The blocks only grow: the old ones and their ancestors stay. *)
Kept ==
  /\ BlockIds \subseteq BlockIds'
  /\ \A b \in BlockIds : blocks'[b] = blocks[b] /\ Ancestors'[b] = Ancestors[b]

LEMMA SameBlocksKept ==
  ASSUME blocks' = blocks
  PROVE  Kept /\ BlockIds' = BlockIds /\ Ancestors' = Ancestors
BY DEF Kept, BlockIds, Ancestors, Closed

(* A new block builds on the ancestors of its parent. *)
LEMMA AppendKept ==
  ASSUME Types, Tree, NEW c \in Block, Grows(c), blocks' = Append(blocks, c)
  PROVE  /\ Kept
         /\ BlockIds' = BlockIds \cup {Len(blocks) + 1}
         /\ Len(blocks) + 1 \notin BlockIds
         /\ blocks'[Len(blocks) + 1] = c
         /\ Ancestors'[Len(blocks) + 1] = {Len(blocks) + 1} \cup Ancestors[c.parent]
         /\ blocks' \in Seq(Block)
<1> DEFINE new == Len(blocks) + 1
<1>1. /\ BlockIds = 1 .. Len(blocks) /\ Len(blocks) \in Nat /\ blocks \in Seq(Block)
  BY BlockIdsNat DEF Types
<1>2. /\ blocks' \in Seq(Block) /\ Len(blocks') = new
      /\ DOMAIN blocks' = 1 .. new
      /\ blocks'[new] = c
      /\ \A b \in 1 .. Len(blocks) : blocks'[b] = blocks[b]
  BY <1>1
<1>3. BlockIds' = BlockIds \cup {new} /\ new \notin BlockIds
  BY <1>1, <1>2 DEF BlockIds
<1>4. /\ \A b \in BlockIds : blocks'[b] = blocks[b]
      /\ \A b \in BlockIds \ {Common} : blocks[b].parent \in BlockIds
      /\ Common \in BlockIds
      /\ c.parent \in BlockIds
  BY <1>1, <1>2 DEF Tree, Grows
<1> HIDE DEF new
<1>5. ASSUME NEW S \in SUBSET BlockIds PROVE Closed(S) => Closed(S)'
  BY <1>4 DEF Closed
<1>6. ASSUME NEW S \in SUBSET BlockIds', Closed(S)'
      PROVE  Closed(S \cap BlockIds)
  BY <1>4, <1>6 DEF Closed
<1>7. ASSUME NEW b \in BlockIds PROVE Ancestors'[b] = Ancestors[b]
  <2>1. Ancestors'[b] =
          {a \in BlockIds' : \A S \in SUBSET BlockIds' : b \in S /\ Closed(S)' => a \in S}
    BY <1>3 DEF Ancestors
  <2>2. Ancestors[b] =
          {a \in BlockIds : \A S \in SUBSET BlockIds : b \in S /\ Closed(S) => a \in S}
    BY DEF Ancestors
  <2>3. ASSUME NEW a \in Ancestors'[b] PROVE a \in Ancestors[b]
    <3>1. \A S \in SUBSET BlockIds : b \in S /\ Closed(S) => a \in S
      BY <1>3, <1>5, <2>1
    <3>2. Closed(BlockIds) /\ BlockIds \in SUBSET BlockIds
      BY <1>4 DEF Closed
    <3> QED  BY <2>2, <3>1, <3>2
  <2>4. ASSUME NEW a \in Ancestors[b] PROVE a \in Ancestors'[b]
    <3>1. ASSUME NEW S \in SUBSET BlockIds', b \in S, Closed(S)' PROVE a \in S
      <4>1. S \cap BlockIds \in SUBSET BlockIds /\ b \in S \cap BlockIds
            /\ Closed(S \cap BlockIds)
        BY <1>6, <3>1
      <4> QED  BY <2>2, <4>1
    <3> QED  BY <1>3, <2>1, <2>2, <3>1
  <2> QED  BY <2>3, <2>4
<1>8. Ancestors'[new] = {new} \cup Ancestors[c.parent]
  <2> DEFINE A == Ancestors[c.parent]
  <2>1. Ancestors'[new] =
          {a \in BlockIds' : \A S \in SUBSET BlockIds' : new \in S /\ Closed(S)' => a \in S}
    BY <1>3 DEF Ancestors
  <2>2. A \in SUBSET BlockIds /\ c.parent \in A /\ Closed(A)
    BY <1>4, AncestorsClosed
  <2>3. ASSUME NEW T, T = {new} \cup A PROVE Closed(T)'
    <3> SUFFICES ASSUME NEW b \in T \ {Common} PROVE blocks'[b].parent \in T
      BY DEF Closed
    <3> HIDE DEF A
    <3> QED  BY <1>2, <1>4, <2>2, <2>3 DEF Closed, new
  <2>4. ASSUME NEW a \in Ancestors'[new] PROVE a \in {new} \cup A
    <3>1. \A S \in SUBSET BlockIds' : new \in S /\ Closed(S)' => a \in S
      BY <2>1, <2>4
    <3>2. PICK T : T = {new} \cup A
      OBVIOUS
    <3>3. T \in SUBSET BlockIds' /\ new \in T /\ Closed(T)'
      BY <1>3, <2>2, <2>3, <3>2
    <3> QED  BY <3>1, <3>2, <3>3
  <2>5. ASSUME NEW S \in SUBSET BlockIds', new \in S, Closed(S)' PROVE A \subseteq S
    <3>1. new # Common
      BY <1>3, <1>4
    <3>2. c.parent \in S
      BY <1>2, <2>5, <3>1 DEF Closed, new
    <3>3. S \cap BlockIds \in SUBSET BlockIds /\ c.parent \in S \cap BlockIds
          /\ Closed(S \cap BlockIds)
      BY <1>4, <1>6, <2>5, <3>2
    <3> QED  BY <1>4, <3>3, AncestorsLeast
  <2>6. ASSUME NEW a \in {new} \cup A PROVE a \in Ancestors'[new]
    BY <1>3, <2>1, <2>2, <2>5
  <2> QED  BY <2>4, <2>6
<1>9. Kept
  BY <1>3, <1>4, <1>7 DEF Kept
<1> QED  BY <1>2, <1>3, <1>8, <1>9 DEF new

LEMMA GrowsKept ==
  ASSUME Kept, NEW block, Grows(block)
  PROVE  Grows(block)'
BY DEF Kept, Grows, Height

(* The tree after a step: the new blocks, if any, and the candidates grow  *)
(* from the old ones.                                                      *)
LEMMA TreeNext ==
  ASSUME Types, Tree, Kept,
         \A b \in BlockIds' \ BlockIds :
           /\ Grows(blocks'[b]) /\ blocks'[b].producer \in Nodes
           /\ blocks'[b].height < b /\ blocks'[b].height <= MaxBlocks,
         \A c \in candidates' : Grows(c) /\ c.producer \in Nodes
  PROVE  Tree'
<1>1. /\ Common \in BlockIds /\ Height(Common) = 0 /\ blocks[Common].kind = "Mined"
      /\ blocks[Common].attestations = <<>>
      /\ \A b \in BlockIds : Height(b) < b /\ Height(b) <= MaxBlocks
      /\ \A b \in BlockIds \ {Common} : Grows(blocks[b]) /\ blocks[b].producer \in Nodes
  BY DEF Tree
<1>2. BlockIds \subseteq BlockIds' /\ \A b \in BlockIds : blocks'[b] = blocks[b]
  BY DEF Kept
<1>3. /\ Common' \in BlockIds' /\ Height(Common)' = 0 /\ blocks'[Common'].kind = "Mined"
      /\ blocks'[Common'].attestations = <<>>
  BY <1>1, <1>2 DEF Height, Common
<1>4. ASSUME NEW b \in BlockIds' PROVE Height(b)' < b /\ Height(b)' <= MaxBlocks
  <2>1. CASE b \in BlockIds
    BY <1>1, <1>2, <2>1 DEF Height
  <2>2. CASE b \notin BlockIds
    BY <2>2 DEF Height
  <2> QED  BY <2>1, <2>2
<1>5. ASSUME NEW b \in BlockIds' \ {Common}, NEW block, block = blocks'[b]
      PROVE  Grows(block)' /\ block.producer \in Nodes
  <2>1. Grows(block) /\ block.producer \in Nodes
    BY <1>1, <1>2, <1>5
  <2> QED  BY <2>1, GrowsKept
<1>6. ASSUME NEW c \in candidates' PROVE Grows(c)' /\ c.producer \in Nodes
  BY GrowsKept
<1>7. \A b \in BlockIds' \ {Common'} : Grows(blocks[b])' /\ blocks'[b].producer \in Nodes
  <2> SUFFICES ASSUME NEW b \in BlockIds' \ {Common'}
               PROVE  Grows(blocks[b])' /\ blocks'[b].producer \in Nodes
    OBVIOUS
  <2>1. PICK block : block = blocks'[b]
    OBVIOUS
  <2>2. Grows(block)' /\ block.producer \in Nodes
    BY <1>5, <2>1 DEF Common
  <2>3. Grows(blocks[b])'
    BY <2>1, <2>2 DEF Grows
  <2> QED  BY <2>1, <2>2, <2>3
<1> QED  BY <1>3, <1>4, <1>6, <1>7 DEF Tree

LEMMA LinesSame ==
  ASSUME Lines, blocks' = blocks
  PROVE  Lines'
<1>1. BlockIds' = BlockIds /\ Ancestors' = Ancestors
  BY SameBlocksKept
<1> QED  BY <1>1 DEF Lines, OnOneChain, Height

LEMMA LinesAppend ==
  ASSUME Types, Tree, Lines, NEW c \in Block, Grows(c), blocks' = Append(blocks, c)
  PROVE  Lines'
<1> DEFINE new == Len(blocks) + 1
           p == c.parent
<1>1. /\ Kept /\ BlockIds' = BlockIds \cup {new} /\ new \notin BlockIds
      /\ blocks'[new] = c /\ Ancestors'[new] = {new} \cup Ancestors[p]
  BY AppendKept
<1>2. \A b \in BlockIds : Ancestors'[b] = Ancestors[b] /\ Height(b)' = Height(b)
  BY <1>1 DEF Kept, Height
<1>3. p \in BlockIds /\ blocks'[new].height = Height(p) + 1
  BY <1>1 DEF Grows
<1>4. \A b \in BlockIds : Height(b) \in Nat /\ Ancestors[b] \subseteq BlockIds
  BY BlockType, BlockFields, AncestorsClosed DEF Height
<1> HIDE DEF new, p
<1>5. ASSUME NEW b \in BlockIds', NEW a \in Ancestors'[b]
      PROVE  a = b \/ Height(a)' < Height(b)'
  <2>1. CASE b \in BlockIds
    BY <1>2, <1>4, <2>1, <1>5 DEF Lines
  <2>2. CASE b = new
    <3>1. CASE a = new
      BY <2>2, <3>1
    <3>2. CASE a \in Ancestors[p]
      <4>1. a \in BlockIds /\ (a = p \/ Height(a) < Height(p))
        BY <1>3, <1>4, <3>2 DEF Lines
      <4>2. Height(a)' < Height(p) + 1
        BY <1>2, <1>3, <1>4, <4>1
      <4>3. Height(b)' = Height(p) + 1
        BY <1>3, <2>2 DEF Height
      <4> QED  BY <4>2, <4>3
    <3> QED  BY <1>1, <1>5, <2>2, <3>1, <3>2
  <2> QED  BY <1>1, <2>1, <2>2
<1>6. ASSUME NEW b \in BlockIds', NEW a \in Ancestors'[b], NEW d \in Ancestors'[b]
      PROVE  a \in Ancestors'[d] \/ d \in Ancestors'[a]
  <2>1. ASSUME NEW q \in BlockIds, a \in Ancestors[q], d \in Ancestors[q]
        PROVE  a \in Ancestors'[d] \/ d \in Ancestors'[a]
    <3>1. a \in BlockIds /\ d \in BlockIds
      BY <1>4, <2>1
    <3>2. a \in Ancestors[d] \/ d \in Ancestors[a]
      BY <2>1 DEF Lines, OnOneChain
    <3> QED  BY <1>2, <3>1, <3>2
  <2>2. CASE b \in BlockIds
    BY <1>2, <1>6, <2>1, <2>2
  <2>3. CASE b = new
    BY <1>1, <1>3, <1>6, <2>1, <2>3
  <2> QED  BY <1>1, <2>2, <2>3
<1> QED  BY <1>5, <1>6 DEF Lines, OnOneChain

-----------------------------------------------------------------------------
(* The state a block leaves a node in. *)

LEMMA MaxFacts ==
  ASSUME NEW S \in SUBSET Nat, S # {}, NEW N \in Nat, \A x \in S : x <= N
  PROVE  Max(S) \in S /\ \A x \in S : Max(S) >= x
<1> DEFINE T == {y \in Nat : N - y \in S}
<1>1. \A x \in S : N - x \in Nat /\ N - (N - x) = x
  OBVIOUS
<1>2. T \in SUBSET Nat /\ T # {} /\ \A x \in S : N - x \in T
  BY <1>1
<1>3. PICK m \in T : \A y \in T : m <= y
  <2> HIDE DEF T
  <2> QED  BY <1>2, LeastExists
<1>4. N - m \in S /\ m \in Nat
  OBVIOUS
<1> HIDE DEF T
<1>5. \A x \in S : N - m >= x
  BY <1>1, <1>2, <1>3, <1>4
<1>6. \E y \in S : \A x \in S : y >= x
  BY <1>4, <1>5
<1> QED  BY <1>6 DEF Max

LEMMA StateFields ==
  ASSUME NEW state \in NodeState
  PROVE  /\ state.tip \in Nat /\ state.correct \in [Nodes -> Nat]
         /\ state.index \subseteq Attestation /\ state.finalized \in Nat
         /\ state.root \in Root
BY DEF NodeState

LEMMA LoopFacts ==
  ASSUME Types, NEW n \in Nodes, NEW block \in Block
  PROVE  LET state == AfterLoop(n, block)
             atts == block.attestations
         IN  /\ state \in NodeState
             /\ state.tip = mem[n].tip
             /\ state.root = mem[n].root
             /\ state.finalized = mem[n].finalized
             /\ state.index = mem[n].index \cup {atts[i] : i \in Recorded(n, block)}
             /\ state.correct = [r \in Nodes |-> mem[n].correct[r]
                  + Cardinality({i \in Recorded(n, block) : atts[i].refiner = r})]
<1> DEFINE atts == block.attestations
           index == mem[n].index \cup {atts[i] : i \in Recorded(n, block)}
           correct == [r \in Nodes |-> mem[n].correct[r]
                         + Cardinality({i \in Recorded(n, block) : atts[i].refiner = r})]
<1>1. mem[n] \in NodeState
  BY DEF Types
<1>2. atts \in Seq(Attestation) /\ Recorded(n, block) \in SUBSET DOMAIN atts
  BY BlockFields DEF Recorded
<1>3. index \subseteq Attestation
  BY <1>1, <1>2, StateFields
<1>4. correct \in [Nodes -> Nat]
  <2>1. DOMAIN atts = 1 .. Len(atts) /\ Len(atts) \in Nat
    BY <1>2
  <2>2. IsFiniteSet(DOMAIN atts)
    BY <2>1, FS_Interval
  <2>3. ASSUME NEW r \in Nodes
        PROVE  mem[n].correct[r]
                 + Cardinality({i \in Recorded(n, block) : atts[i].refiner = r}) \in Nat
    <3> DEFINE R == {i \in Recorded(n, block) : atts[i].refiner = r}
    <3>1. R \in SUBSET DOMAIN atts
      BY <1>2
    <3>2. Cardinality(R) \in Nat
      <4> HIDE DEF R, atts
      <4> QED  BY <2>2, <3>1, FS_Subset, FS_CardinalityType
    <3>3. mem[n].correct[r] \in Nat
      BY <1>1, StateFields
    <3> HIDE DEF R
    <3>4. mem[n].correct[r] + Cardinality(R) \in Nat
      BY <3>2, <3>3
    <3> QED  BY <3>4 DEF R
  <2> QED  BY <2>3
<1>5. AfterLoop(n, block) = [mem[n] EXCEPT !.correct = correct, !.index = index]
  BY DEF AfterLoop
<1> HIDE DEF index, correct
<1> DEFINE state == [mem[n] EXCEPT !.correct = correct, !.index = index]
<1>6. /\ state \in NodeState /\ state.tip = mem[n].tip /\ state.root = mem[n].root
      /\ state.finalized = mem[n].finalized
      /\ state.index = index /\ state.correct = correct
  BY <1>1, <1>3, <1>4 DEF NodeState
<1> QED  BY <1>5, <1>6 DEF index, correct

(* The attestations of a block that was built from sent ones. *)
LEMMA SentBlocks ==
  ASSUME Types, Tree, Stores, VotesKept, NEW v \in votes
  PROVE  /\ v.refiner \in Nodes
         /\ disk[v.refiner].tip \in BlockIds
         /\ v.block \in BlockIds
         /\ Height(v.block) \in Nat
         /\ Height(v.block) < Len(blocks)
<1>1. v.refiner \in Nodes
  BY DEF Types, Attestation
<1>2. disk[v.refiner].tip \in BlockIds
  BY <1>1, AncestorsClosed DEF Stores
<1>3. v.block \in BlockIds
  BY <1>2, AncestorsClosed DEF VotesKept
<1>4. v.block \in 1 .. Len(blocks) /\ Len(blocks) \in Nat
  BY <1>3, BlockIdsNat
<1>5. Height(v.block) \in Nat /\ Height(v.block) < v.block
  BY <1>3, BlockType, BlockFields DEF Height, Tree
<1> QED  BY <1>1, <1>2, <1>3, <1>4, <1>5

LEMMA FinalizedFacts ==
  ASSUME Types, Tree, Stores, VotesKept, NEW n, NEW block \in Block,
         ToSet(block.attestations) \subseteq votes, NEW state \in NodeState
  PROVE  \/ FinalizedHeight(n, block, state) = state.finalized
         \/ /\ Threshold(n) # 0
            /\ \E a \in ToSet(block.attestations) :
                 /\ FinalizedHeight(n, block, state) = Height(a.block)
                 /\ FinalizedHeight(n, block, state) \in Nat
                 /\ Height(a.block) > state.finalized
                 /\ IndexedWeight(n, state.index, a.block) >= Threshold(n)
<1> DEFINE atts == ToSet(block.attestations)
           touched == {a.block : a \in atts}
           passed == {u \in touched : /\ Height(u) > state.finalized
                                      /\ IndexedWeight(n, state.index, u) >= Threshold(n)}
           reached == {Height(t) : t \in passed}
<1>1. FinalizedHeight(n, block, state) =
        IF Threshold(n) = 0 \/ reached = {} THEN state.finalized ELSE Max(reached)
  BY DEF FinalizedHeight
<1>2. CASE Threshold(n) = 0 \/ reached = {}
  BY <1>1, <1>2
<1>3. CASE Threshold(n) # 0 /\ reached # {}
  <2>1. \A a \in atts : Height(a.block) \in Nat /\ Height(a.block) < Len(blocks)
    BY SentBlocks
  <2>2. reached \in SUBSET Nat /\ \A x \in reached : x <= Len(blocks)
    BY <2>1, BlockIdsNat
  <2>3. Max(reached) \in reached
    <3> HIDE DEF reached
    <3> QED  BY <1>3, <2>2, BlockIdsNat, MaxFacts
  <2>4. PICK u \in passed : Max(reached) = Height(u)
    BY <2>3
  <2>5. PICK a \in atts : u = a.block
    OBVIOUS
  <2>6. Height(u) > state.finalized /\ IndexedWeight(n, state.index, u) >= Threshold(n)
    BY <2>4
  <2>7. FinalizedHeight(n, block, state) = Max(reached)
    <3> HIDE DEF reached
    <3> QED  BY <1>1, <1>3
  <2> HIDE DEF reached, passed, touched
  <2> QED  BY <1>3, <2>1, <2>4, <2>5, <2>6, <2>7
<1> QED  BY <1>2, <1>3

LEMMA FinalityFacts ==
  ASSUME Types, Tree, Stores, VotesKept, NEW n \in Nodes, NEW block \in Block,
         ToSet(block.attestations) \subseteq votes
  PROVE  LET state == AfterFinality(n, block)
         IN  /\ state \in NodeState
             /\ state.tip = mem[n].tip
             /\ state.root = mem[n].root
             /\ state.correct = AfterLoop(n, block).correct
             /\ state.index \subseteq AfterLoop(n, block).index
             /\ state.finalized = FinalizedHeight(n, block, AfterLoop(n, block))
             /\ state.finalized >= mem[n].finalized
<1> DEFINE loop == AfterLoop(n, block)
           finalized == FinalizedHeight(n, block, loop)
           index == {v \in loop.index : /\ Height(v.block) > finalized
                                        /\ Height(v.block) >= EpochBefore(Height(Tip(n)))}
<1>1. /\ loop \in NodeState /\ loop.tip = mem[n].tip /\ loop.root = mem[n].root
      /\ loop.finalized = mem[n].finalized
  BY LoopFacts
<1> HIDE DEF loop
<1>2. loop.index \subseteq Attestation /\ loop.finalized \in Nat
  BY <1>1, StateFields
<1>3. finalized \in Nat /\ finalized >= loop.finalized
  BY <1>1, <1>2, FinalizedFacts
<1>4. index \subseteq Attestation /\ index \subseteq loop.index
  BY <1>2
<1>5. AfterFinality(n, block) = [loop EXCEPT !.finalized = finalized, !.index = index]
  BY DEF AfterFinality, loop
<1> HIDE DEF index, finalized
<1> DEFINE state == [loop EXCEPT !.finalized = finalized, !.index = index]
<1>6. /\ state \in NodeState /\ state.tip = loop.tip /\ state.root = loop.root
      /\ state.finalized = finalized
      /\ state.index = index /\ state.correct = loop.correct
  BY <1>1, <1>3, <1>4 DEF NodeState
<1> QED  BY <1>1, <1>3, <1>4, <1>5, <1>6 DEF finalized, loop

LEMMA RecordedSent ==
  ASSUME NEW n, NEW block, ToSet(block.attestations) \subseteq votes
  PROVE  {block.attestations[i] : i \in Recorded(n, block)} \subseteq votes
BY DEF Recorded, ToSet

LEMMA LoopIndex ==
  ASSUME Types, NEW n \in Nodes, NEW block \in Block,
         ToSet(block.attestations) \subseteq votes
  PROVE  AfterLoop(n, block).index \subseteq mem[n].index \cup votes
<1> DEFINE X == {block.attestations[i] : i \in Recorded(n, block)}
<1>1. AfterLoop(n, block).index = mem[n].index \cup X
  BY LoopFacts
<1>2. X \subseteq votes
  BY RecordedSent
<1> HIDE DEF X
<1> QED  BY <1>1, <1>2

LEMMA RejectionFacts ==
  ASSUME Types, Tree, Stores, VotesKept, NEW n \in Nodes, NEW block \in Block,
         ToSet(block.attestations) \subseteq votes
  PROVE  LET state == AfterRejection(n, block)
         IN  /\ state \in NodeState
             /\ state.tip = mem[n].tip
             /\ state.root = mem[n].root
             /\ state.index \subseteq mem[n].index \cup votes
             /\ \/ state.finalized = mem[n].finalized
                \/ /\ AllRecorded(n, block)
                   /\ state.finalized = AfterFinality(n, block).finalized
<1>1. mem[n] \in NodeState
  BY DEF Types
<1>2. CASE ~Extends(n, block)
  BY <1>1, <1>2 DEF AfterRejection
<1>3. CASE Extends(n, block) /\ ~AllRecorded(n, block)
  <2>1. AfterRejection(n, block) = AfterLoop(n, block)
    BY <1>3 DEF AfterRejection
  <2> QED  BY <2>1, LoopFacts, LoopIndex
<1>4. CASE Extends(n, block) /\ AllRecorded(n, block)
  <2>1. AfterRejection(n, block) = AfterFinality(n, block)
    BY <1>4 DEF AfterRejection
  <2>2. AfterLoop(n, block).index \subseteq mem[n].index \cup votes
    BY LoopIndex
  <2> QED  BY <1>4, <2>1, <2>2, FinalityFacts
<1> QED  BY <1>2, <1>3, <1>4

(* The state of a node that applies block as b. *)
After(n, block, b) ==
  [AfterFinality(n, block) EXCEPT
     !.tip = b, !.root = StateRoot(n, AfterFinality(n, block).correct)]

LEMMA AcceptedFacts ==
  ASSUME Types, Tree, Stores, VotesKept, NEW n \in Nodes, NEW block \in Block,
         ToSet(block.attestations) \subseteq votes, NEW b \in Nat
  PROVE  LET state == After(n, block, b)
         IN  /\ state \in NodeState
             /\ state.tip = b
             /\ state.root = StateRoot(n, state.correct)
             /\ state.correct = AfterFinality(n, block).correct
             /\ state.index \subseteq mem[n].index \cup votes
             /\ state.finalized = AfterFinality(n, block).finalized
<1> DEFINE final == AfterFinality(n, block)
           root == StateRoot(n, final.correct)
<1>1. final \in NodeState /\ final.index \subseteq mem[n].index \cup votes
  <2>1. AfterLoop(n, block).index \subseteq mem[n].index \cup votes
    BY LoopIndex
  <2> QED  BY <2>1, FinalityFacts
<1> HIDE DEF final
<1>2. root \in Root
  BY <1>1, StateFields, NodesAssumption DEF StateRoot, KeyedAccounts, Root
<1>3. After(n, block, b) = [final EXCEPT !.tip = b, !.root = root]
  BY DEF After, final
<1> HIDE DEF root
<1> DEFINE state == [final EXCEPT !.tip = b, !.root = root]
<1>4. /\ state \in NodeState /\ state.tip = b /\ state.root = root
      /\ state.correct = final.correct /\ state.index = final.index
      /\ state.finalized = final.finalized
  BY <1>1, <1>2 DEF NodeState
<1> QED  BY <1>1, <1>3, <1>4 DEF root, final

LEMMA AcceptSteps ==
  ASSUME NEW n, NEW block, NEW b, AcceptBlock(n, block, b)
  PROVE  /\ Accepts(n, block)
         /\ mem' = [mem EXCEPT ![n] = After(n, block, b)]
         /\ \/ /\ disk' = [disk EXCEPT ![n] = After(n, block, b)]
               /\ stored' = [stored EXCEPT ![n][block.height] = b]
               /\ failures' = failures
            \/ /\ failures < MaxWriteFailures
               /\ failures' = failures + 1
               /\ disk' = disk /\ stored' = stored
BY DEF AcceptBlock, After

LEMMA TipsKnown ==
  ASSUME Tree, Stores, NEW n \in Nodes
  PROVE  /\ mem[n].tip \in BlockIds /\ disk[n].tip \in BlockIds
         /\ disk[n].tip \in Ancestors[mem[n].tip]
         /\ Ancestors[disk[n].tip] \subseteq Ancestors[mem[n].tip]
         /\ Ancestors[mem[n].tip] \subseteq BlockIds
BY AncestorsClosed, AncestorsTransitive DEF Stores

(* What a refiner has on disk stays below the tip on its disk. *)
DiskGrows == \A r \in Nodes : Ancestors[disk[r].tip] \subseteq Ancestors'[disk'[r].tip]

LEMMA SameDiskGrows ==
  ASSUME Tree, Stores, Kept, disk' = disk
  PROVE  DiskGrows
BY TipsKnown DEF Kept, DiskGrows

LEMMA VotesKeptNext ==
  ASSUME Types, VotesKept, DiskGrows, votes' = votes
  PROVE  VotesKept'
BY DEF VotesKept, DiskGrows, Types, Attestation

LEMMA VotesOnBlocks ==
  ASSUME Types, Tree, Stores, VotesKept
  PROVE  \A v \in votes : v.refiner \in Nodes /\ v.block \in BlockIds
BY SentBlocks

(* The conjuncts of SafeInv after a node applies block as b. *)
LEMMA AcceptSafe ==
  ASSUME SafeInv, Kept, Tree', Lines',
         NEW n \in Nodes, NEW block \in Block, NEW b,
         ToSet(block.attestations) \subseteq votes,
         b \in BlockIds', blocks'[b] = block,
         Ancestors'[b] = {b} \cup Ancestors[block.parent],
         AcceptBlock(n, block, b),
         blocks' \in Seq(Block), candidates' \subseteq candidates,
         UNCHANGED <<votes, pending>>,
         \A d \in BlockIds' \ BlockIds : d = b /\ block.producer = n
  PROVE  SafeInv' /\ DiskGrows
<1> DEFINE state == After(n, block, b)
<1>0. Types /\ Tree /\ Lines /\ Stores /\ VotesKept /\ Sent /\ OwnKept
  BY DEF SafeInv
<1>b. b \in Nat
  <2>1. BlockIds' = 1 .. Len(blocks') /\ Len(blocks') \in Nat
    BY DEF BlockIds
  <2> QED  BY <2>1
<1>1. /\ state \in NodeState /\ state.tip = b /\ state.index \subseteq mem[n].index \cup votes
  BY <1>0, <1>b, AcceptedFacts
<1> HIDE DEF state
<1>2. /\ mem' = [mem EXCEPT ![n] = state]
      /\ \/ /\ disk' = [disk EXCEPT ![n] = state]
            /\ stored' = [stored EXCEPT ![n][block.height] = b]
            /\ failures' = failures
         \/ failures' = failures + 1 /\ disk' = disk /\ stored' = stored
  BY AcceptSteps DEF state
<1>3. block.parent = mem[n].tip
  BY AcceptSteps DEF Accepts, Extends, Tip
<1>4. /\ mem' \in [Nodes -> NodeState] /\ disk' \in [Nodes -> NodeState]
      /\ stored' \in [Nodes -> [0 .. MaxBlocks -> Nat]] /\ failures' \in Nat
  <2>1. /\ mem \in [Nodes -> NodeState] /\ disk \in [Nodes -> NodeState]
        /\ stored \in [Nodes -> [0 .. MaxBlocks -> Nat]] /\ failures \in Nat
    BY <1>0 DEF Types
  <2>2. mem' \in [Nodes -> NodeState] /\ disk' \in [Nodes -> NodeState]
    BY <1>1, <1>2, <2>1
  <2>3. failures' \in Nat
    BY <1>2, <2>1
  <2>4. stored' \in [Nodes -> [0 .. MaxBlocks -> Nat]]
    <3>1. [stored EXCEPT ![n][block.height] = b] \in [Nodes -> [0 .. MaxBlocks -> Nat]]
      <4>1. [stored[n] EXCEPT ![block.height] = b] \in [0 .. MaxBlocks -> Nat]
        BY <1>b, <2>1
      <4> QED  BY <2>1, <4>1
    <3> QED  BY <1>2, <2>1, <3>1
  <2> QED  BY <2>2, <2>3, <2>4
<1>5. Types'
  BY <1>0, <1>4 DEF Types
<1>6. \A r \in Nodes : /\ mem'[r] = IF r = n THEN state ELSE mem[r]
                       /\ disk'[r] \in {disk[r], mem'[r]}
                       /\ r # n => disk'[r] = disk[r]
  BY <1>0, <1>2 DEF Types
<1>7. \A r \in Nodes : /\ mem[r].tip \in BlockIds /\ disk[r].tip \in BlockIds
                       /\ disk[r].tip \in Ancestors[mem[r].tip]
                       /\ Ancestors[disk[r].tip] \subseteq Ancestors[mem[r].tip]
                       /\ Ancestors[mem[r].tip] \subseteq BlockIds
  BY <1>0, TipsKnown
<1>8. BlockIds \subseteq BlockIds' /\ \A d \in BlockIds : Ancestors'[d] = Ancestors[d]
  BY DEF Kept
<1>9. Ancestors[mem[n].tip] \subseteq Ancestors'[b] /\ b \in Ancestors'[b]
  BY <1>3
<1>10. DiskGrows
  <2> SUFFICES ASSUME NEW r \in Nodes
               PROVE  Ancestors[disk[r].tip] \subseteq Ancestors'[disk'[r].tip]
    BY DEF DiskGrows
  <2>1. CASE disk'[r] = disk[r]
    BY <1>7, <1>8, <2>1
  <2>2. CASE r = n /\ disk'[r] = mem'[r]
    <3>1. disk'[r].tip = b
      BY <1>1, <1>6, <2>2
    <3> QED  BY <1>7, <1>9, <2>2, <3>1
  <2> QED  BY <1>6, <2>1, <2>2
<1>11. Stores'
  <2> SUFFICES ASSUME NEW r \in Nodes
               PROVE  /\ mem'[r].tip \in BlockIds'
                      /\ disk'[r].tip \in Ancestors'[mem'[r].tip]
                      /\ \A h \in 0 .. MaxBlocks : stored'[r][h] # 0 =>
                           /\ stored'[r][h] \in Ancestors'[disk'[r].tip]
                           /\ Height(stored[r][h])' = h
    BY DEF Stores
  <2>1. mem'[r].tip \in BlockIds' /\ disk'[r].tip \in Ancestors'[mem'[r].tip]
    <3>1. CASE r = n
      BY <1>1, <1>6, <1>7, <1>9, <3>1
    <3>2. CASE r # n
      BY <1>6, <1>7, <1>8, <3>2
    <3> QED  BY <3>1, <3>2
  <2>2. ASSUME NEW h \in 0 .. MaxBlocks, stored[r][h] # 0
        PROVE  /\ stored[r][h] \in Ancestors'[disk'[r].tip]
               /\ stored[r][h] \in BlockIds
               /\ blocks'[stored[r][h]].height = h
    <3>1. stored[r][h] \in Ancestors[disk[r].tip] /\ blocks[stored[r][h]].height = h
      BY <1>0, <2>2 DEF Stores, Height
    <3>2. stored[r][h] \in BlockIds
      BY <1>7, <3>1
    <3> QED  BY <1>10, <3>1, <3>2 DEF DiskGrows, Kept
  <2>3. ASSUME NEW h \in 0 .. MaxBlocks, stored'[r][h] # stored[r][h]
        PROVE  stored'[r][h] = b /\ r = n /\ h = block.height /\ disk'[r] = mem'[r]
    <3>1. /\ disk' = [disk EXCEPT ![n] = state]
          /\ stored' = [stored EXCEPT ![n][block.height] = b]
      BY <1>2, <2>3
    <3>2. r = n /\ h = block.height /\ stored'[r][h] = b
      BY <1>0, <2>3, <3>1 DEF Types
    <3> QED  BY <1>0, <1>2, <3>1, <3>2 DEF Types
  <2>4. ASSUME NEW h \in 0 .. MaxBlocks, stored'[r][h] # 0
        PROVE  stored'[r][h] \in Ancestors'[disk'[r].tip] /\ blocks'[stored'[r][h]].height = h
    <3>1. CASE stored'[r][h] = stored[r][h]
      BY <2>2, <2>4, <3>1
    <3>2. CASE stored'[r][h] # stored[r][h]
      <4>1. stored'[r][h] = b /\ r = n /\ h = block.height /\ disk'[r] = mem'[r]
        BY <2>3, <3>2
      <4>2. disk'[r].tip = b
        BY <1>1, <1>6, <4>1
      <4> QED  BY <1>9, <4>1, <4>2
    <3> QED  BY <3>1, <3>2
  <2> QED  BY <2>1, <2>4 DEF Height
<1>12. VotesKept'
  BY <1>0, <1>10, VotesKeptNext
<1>13. Sent'
  <2>1. \A c \in candidates' : ToSet(c.attestations) \subseteq votes'
    BY <1>0 DEF Sent
  <2>2. \A d \in BlockIds' : ToSet(blocks'[d].attestations) \subseteq votes'
    BY <1>0 DEF Sent, Kept
  <2>3. \A r \in Nodes : mem'[r].index \subseteq votes' /\ disk'[r].index \subseteq votes'
    BY <1>0, <1>1, <1>6 DEF Sent
  <2> QED  BY <1>0, <2>1, <2>2, <2>3 DEF Sent
<1>14. OwnKept'
  <2> SUFFICES ASSUME failures' = 0
               PROVE  /\ \A r \in Nodes : mem'[r].tip = disk'[r].tip
                      /\ \A d \in BlockIds' \ {Common} :
                           d \in Ancestors'[disk'[blocks'[d].producer].tip]
    BY DEF OwnKept, Common
  <2>1. failures = 0 /\ disk' = [disk EXCEPT ![n] = state]
    BY <1>0, <1>2 DEF Types
  <2>2. \A r \in Nodes : disk'[r] = IF r = n THEN state ELSE disk[r]
    BY <1>0, <2>1 DEF Types
  <2>3. \A r \in Nodes : mem'[r].tip = disk'[r].tip
    BY <1>0, <1>6, <2>1, <2>2 DEF OwnKept
  <2>4. ASSUME NEW d \in BlockIds' \ {Common}
        PROVE  d \in Ancestors'[disk'[blocks'[d].producer].tip]
    <3>1. CASE d \in BlockIds
      <4>1. blocks'[d] = blocks[d] /\ blocks[d].producer \in Nodes
        BY <1>0, <3>1 DEF Kept, Tree
      <4>2. d \in Ancestors[disk[blocks[d].producer].tip]
        BY <1>0, <2>1, <3>1 DEF OwnKept
      <4> QED  BY <1>10, <4>1, <4>2 DEF DiskGrows
    <3>2. CASE d \notin BlockIds
      <4>1. d = b /\ blocks'[d].producer = n
        BY <3>2
      <4> QED  BY <1>1, <1>9, <2>2, <4>1
    <3> QED  BY <3>1, <3>2
  <2> QED  BY <2>3, <2>4
<1> QED  BY <1>5, <1>10, <1>11, <1>12, <1>13, <1>14 DEF SafeInv

(* The conjuncts of SafeInv after a step that leaves blocks, disks and     *)
(* stores alone.                                                           *)
LEMMA MemorySafe ==
  ASSUME SafeInv, UNCHANGED <<blocks, disk, stored, failures>>,
         mem' \in [Nodes -> NodeState],
         \A n \in Nodes : /\ mem'[n].tip \in {mem[n].tip, disk[n].tip}
                          /\ mem'[n].index \subseteq votes',
         votes \subseteq votes', votes' \subseteq Attestation, IsFiniteSet(votes'),
         \A v \in votes' \ votes : v.block \in Ancestors[disk[v.refiner].tip],
         pending' \in [Nodes -> SUBSET Attestation],
         \A n \in Nodes : pending'[n] \subseteq votes',
         \A c \in candidates' :
           /\ c \in Block /\ Grows(c) /\ c.producer \in Nodes
           /\ ToSet(c.attestations) \subseteq votes'
  PROVE  SafeInv'
<1>0. Types /\ Tree /\ Lines /\ Stores /\ VotesKept /\ Sent /\ OwnKept
  BY DEF SafeInv
<1>1. Kept /\ BlockIds' = BlockIds /\ Ancestors' = Ancestors
  BY SameBlocksKept
<1>2. Types'
  BY <1>0 DEF Types
<1>3. Tree'
  BY <1>0, <1>1, TreeNext
<1>4. Lines'
  BY <1>0, LinesSame
<1>5. \A n \in Nodes : /\ mem[n].tip \in BlockIds /\ disk[n].tip \in BlockIds
                       /\ disk[n].tip \in Ancestors[mem[n].tip]
                       /\ disk[n].tip \in Ancestors[disk[n].tip]
  BY <1>0, TipsKnown, AncestorsClosed
<1>6. Stores'
  BY <1>0, <1>1, <1>5 DEF Stores, Height
<1>7. VotesKept'
  BY <1>0, <1>1 DEF VotesKept
<1>8. Sent'
  BY <1>0, <1>1 DEF Sent
<1>9. OwnKept'
  BY <1>0, <1>1 DEF OwnKept, Common
<1> QED  BY <1>2, <1>3, <1>4, <1>6, <1>7, <1>8, <1>9 DEF SafeInv

(* What holds of memory, attestations and candidates before the step. *)
LEMMA SafeFrame ==
  ASSUME SafeInv
  PROVE  /\ mem \in [Nodes -> NodeState] /\ disk \in [Nodes -> NodeState]
         /\ \A n \in Nodes : /\ mem[n].index \subseteq votes /\ disk[n].index \subseteq votes
                             /\ pending[n] \subseteq votes
         /\ votes \subseteq Attestation /\ IsFiniteSet(votes)
         /\ pending \in [Nodes -> SUBSET Attestation]
         /\ \A c \in candidates :
              /\ c \in Block /\ Grows(c) /\ c.producer \in Nodes
              /\ ToSet(c.attestations) \subseteq votes
BY DEF SafeInv, Types, Sent, Tree

(* Submitted, gossiped and synced blocks. *)
LEMMA SubmitSafe ==
  ASSUME SafeInv, NEW c \in candidates, SubmitCandidate(c)
  PROVE  SafeInv' /\ DiskGrows
<1> DEFINE n == c.producer
           b == Len(blocks) + 1
<1>0. Types /\ Tree /\ Lines
  BY DEF SafeInv
<1>1. c \in Block /\ Grows(c) /\ n \in Nodes /\ ToSet(c.attestations) \subseteq votes
  BY SafeFrame
<1>2. /\ blocks' = Append(blocks, c) /\ candidates' = candidates \ {c}
      /\ AcceptBlock(n, c, b) /\ UNCHANGED <<votes, pending>>
  BY DEF SubmitCandidate
<1>3. /\ Kept /\ BlockIds' = BlockIds \cup {b} /\ b \notin BlockIds
      /\ blocks'[b] = c /\ Ancestors'[b] = {b} \cup Ancestors[c.parent]
      /\ blocks' \in Seq(Block)
  BY <1>0, <1>1, <1>2, AppendKept
<1>4. c.height < b /\ c.height <= MaxBlocks
  <2>1. c.parent \in BlockIds /\ c.height = Height(c.parent) + 1
    BY <1>1 DEF Grows
  <2>2. Height(c.parent) < c.parent /\ c.parent \in 1 .. Len(blocks) /\ Len(blocks) \in Nat
    BY <1>0, <2>1, BlockIdsNat DEF Tree
  <2>3. Height(c.parent) \in Nat
    BY <1>0, <2>1, BlockType, BlockFields DEF Height
  <2>4. Len(blocks) < MaxBlocks
    BY DEF SubmitCandidate
  <2> QED  BY <2>1, <2>2, <2>3, <2>4, BoundsAssumption
<1>5. \A d \in candidates' : Grows(d) /\ d.producer \in Nodes
  BY <1>2, SafeFrame
<1>6. Tree'
  <2> HIDE DEF b
  <2> QED  BY <1>0, <1>1, <1>3, <1>4, <1>5, TreeNext
<1>7. Lines'
  BY <1>0, <1>1, <1>2, LinesAppend
<1> HIDE DEF b, n
<1>8. b \in BlockIds' /\ candidates' \subseteq candidates
      /\ \A d \in BlockIds' \ BlockIds : d = b /\ c.producer = n
  BY <1>2, <1>3 DEF n
<1> QED  BY <1>1, <1>2, <1>3, <1>6, <1>7, <1>8, AcceptSafe

LEMMA PeerBlockSafe ==
  ASSUME SafeInv, NEW n \in Nodes, NEW b \in BlockIds, Height(b) > Height(Tip(n)),
         AcceptBlock(n, blocks[b], b), UNCHANGED <<blocks, votes, candidates, pending>>
  PROVE  SafeInv' /\ DiskGrows
<1>0. Types /\ Tree /\ Lines /\ Stores /\ Sent
  BY DEF SafeInv
<1>1. Kept /\ BlockIds' = BlockIds /\ Ancestors' = Ancestors
  BY SameBlocksKept
<1>2. Tree' /\ Lines'
  BY <1>0, <1>1, TreeNext, LinesSame DEF Tree
<1>3. b # Common
  <2>1. Tip(n) \in BlockIds
    BY <1>0 DEF Stores, Tip
  <2>2. Height(Tip(n)) \in Nat /\ Height(Common) = 0
    BY <1>0, <2>1, BlockType, BlockFields DEF Height, Tree
  <2> QED  BY <2>2
<1> DEFINE block == blocks[b]
<1>4. Ancestors'[b] = {b} \cup Ancestors[block.parent]
  BY <1>0, <1>1, <1>3, AncestorsStep
<1>5. block \in Block /\ ToSet(block.attestations) \subseteq votes
  BY <1>0, BlockType DEF Sent
<1>6. /\ AcceptBlock(n, block, b) /\ blocks'[b] = block /\ b \in BlockIds'
      /\ blocks' \in Seq(Block) /\ candidates' \subseteq candidates
      /\ UNCHANGED <<votes, pending>> /\ BlockIds' \ BlockIds = {}
  BY <1>0, <1>1 DEF Types
<1> HIDE DEF block
<1> QED  BY <1>1, <1>2, <1>4, <1>5, <1>6, AcceptSafe

LEMMA SyncHeight ==
  ASSUME SafeInv, NEW n \in Nodes, NEW b \in BlockIds, SyncBlock(n, b)
  PROVE  Height(b) > Height(Tip(n))
<1>1. Tip(n) \in BlockIds
  BY DEF SafeInv, Stores, Tip
<1>2. Height(Tip(n)) \in Nat
  BY <1>1, BlockType, BlockFields DEF Height, SafeInv
<1> QED  BY <1>2 DEF SyncBlock

LEMMA RejectSafe ==
  ASSUME SafeInv, NEW n \in Nodes, NEW block \in Block,
         ToSet(block.attestations) \subseteq votes, RejectBlock(n, block),
         UNCHANGED <<blocks, votes, pending>>, candidates' \subseteq candidates
  PROVE  SafeInv'
<1> DEFINE state == AfterRejection(n, block)
<1>1. /\ state \in NodeState /\ state.tip = mem[n].tip
      /\ state.index \subseteq mem[n].index \cup votes
  BY RejectionFacts DEF SafeInv
<1> HIDE DEF state
<1>2. mem' = [mem EXCEPT ![n] = state] /\ UNCHANGED <<disk, stored, failures>>
  BY DEF RejectBlock, state
<1>3. mem' \in [Nodes -> NodeState]
  BY <1>1, <1>2, SafeFrame
<1>4. \A r \in Nodes : /\ mem'[r].tip \in {mem[r].tip, disk[r].tip}
                       /\ mem'[r].index \subseteq votes'
  BY <1>1, <1>2, SafeFrame
<1> QED  BY <1>2, <1>3, <1>4, SafeFrame, MemorySafe

LEMMA RestartSafe ==
  ASSUME SafeInv, NEW n \in Nodes, Restart(n)
  PROVE  SafeInv'
<1>1. /\ mem' = [mem EXCEPT ![n] = disk[n]]
      /\ pending' = [pending EXCEPT ![n] = {}]
      /\ candidates' \subseteq candidates
      /\ UNCHANGED <<blocks, votes, disk, stored, failures>>
  BY DEF Restart
<1>2. mem' \in [Nodes -> NodeState] /\ pending' \in [Nodes -> SUBSET Attestation]
  BY <1>1, SafeFrame
<1>3. \A r \in Nodes : /\ mem'[r].tip \in {mem[r].tip, disk[r].tip}
                       /\ mem'[r].index \subseteq votes' /\ pending'[r] \subseteq votes'
  BY <1>1, SafeFrame
<1> QED  BY <1>1, <1>2, <1>3, SafeFrame, MemorySafe

(* A block carries some of the live attestations, each once. *)
LEMMA DrainFacts ==
  ASSUME NEW live, IsFiniteSet(live), NEW drained \in Drains(live)
  PROVE  /\ drained \in Seq(live)
         /\ \A i, j \in DOMAIN drained : drained[i] = drained[j] => i = j
<1>1. ASSUME NEW s \in SUBSET live, drained \in SetToSeqs(s)
      PROVE  /\ drained \in Seq(live)
             /\ \A i, j \in DOMAIN drained : drained[i] = drained[j] => i = j
  <2>1. Cardinality(s) \in Nat
    BY FS_Subset, FS_CardinalityType
  <2>2. /\ drained \in [1 .. Cardinality(s) -> s]
        /\ \A i, j \in 1 .. Cardinality(s) : i # j => drained[i] # drained[j]
    BY <1>1 DEF SetToSeqs
  <2>3. drained \in Seq(live)
    BY <2>1, <2>2
  <2> QED  BY <2>2, <2>3
<1>2. CASE Cardinality(live) <= MAX_ATTESTATIONS_PER_BLOCK
  BY <1>1, <1>2 DEF Drains
<1>3. CASE ~(Cardinality(live) <= MAX_ATTESTATIONS_PER_BLOCK)
  <2>1. PICK s \in kSubset(MAX_ATTESTATIONS_PER_BLOCK, live) : drained \in SetToSeqs(s)
    BY <1>3 DEF Drains
  <2> QED  BY <1>1, <2>1 DEF kSubset
<1> QED  BY <1>2, <1>3

(* The candidate that Build adds. *)
Built(n, kind, c) ==
  /\ candidates' = candidates \cup {c}
  /\ c.producer = n /\ c.kind = kind /\ c.parent = Tip(n)
  /\ c.root = mem[n].root /\ c.active \in ActiveChoices
  /\ Grows(c)
  /\ \A i, j \in DOMAIN c.attestations :
       c.attestations[i] = c.attestations[j] => i = j
  /\ ToSet(c.attestations) \subseteq pending[n]
  /\ pending' = [pending EXCEPT ![n] = Live(n, c.height) \ ToSet(c.attestations)]

LEMMA BuildFacts ==
  ASSUME SafeInv, NEW n \in Nodes, NEW kind \in {"Mined", "Refined"}, Build(n, kind)
  PROVE  \E c \in Block : Built(n, kind, c)
<1> DEFINE h == Height(Tip(n)) + 1
<1>1. PICK drained \in Drains(Live(n, h)), active \in ActiveChoices :
        \E s \in Selectable(active) :
             /\ candidates' = candidates \cup
                  {[height |-> h, parent |-> Tip(n), kind |-> kind, producer |-> n,
                    root |-> mem[n].root, attestations |-> drained,
                    active |-> active, selected |-> s]}
             /\ pending' = [pending EXCEPT ![n] = Live(n, h) \ ToSet(drained)]
  BY DEF Build
<1>2. PICK s \in Selectable(active) :
             /\ candidates' = candidates \cup
                  {[height |-> h, parent |-> Tip(n), kind |-> kind, producer |-> n,
                    root |-> mem[n].root, attestations |-> drained,
                    active |-> active, selected |-> s]}
             /\ pending' = [pending EXCEPT ![n] = Live(n, h) \ ToSet(drained)]
  BY <1>1
<1> DEFINE c == [height |-> h, parent |-> Tip(n), kind |-> kind, producer |-> n,
                 root |-> mem[n].root, attestations |-> drained,
                 active |-> active, selected |-> s]
<1>3. Tip(n) \in BlockIds
  BY DEF SafeInv, Stores, Tip
<1>4. h \in Nat /\ Tip(n) \in Nat
  <2>1. Height(Tip(n)) \in Nat
    BY <1>3, BlockType, BlockFields DEF Height, SafeInv
  <2>2. Tip(n) \in Nat
    BY <1>3, BlockIdsNat DEF SafeInv
  <2> QED  BY <2>1, <2>2
<1>5. Live(n, h) \in SUBSET pending[n] /\ IsFiniteSet(Live(n, h))
  <2>1. Live(n, h) \in SUBSET pending[n]
    BY DEF Live
  <2>2. Live(n, h) \in SUBSET votes
    BY <2>1, SafeFrame
  <2> QED  BY <2>1, <2>2, SafeFrame, FS_Subset
<1>6. /\ drained \in Seq(Live(n, h))
      /\ \A i, j \in DOMAIN drained : drained[i] = drained[j] => i = j
  BY <1>5, DrainFacts
<1>7. /\ drained \in Seq(Attestation) /\ ToSet(drained) \subseteq pending[n]
  <2>1. pending[n] \subseteq Attestation
    BY SafeFrame
  <2>2. \A i \in DOMAIN drained : drained[i] \in Live(n, h)
    BY <1>6
  <2>3. ToSet(drained) \subseteq pending[n]
    BY <1>5, <2>2 DEF ToSet
  <2>4. drained \in Seq(Attestation)
    BY <1>5, <1>6, <2>1
  <2> QED  BY <2>3, <2>4
<1>8. mem[n].root \in Root
  BY SafeFrame, StateFields
<1>9. active \subseteq Nodes /\ s \in Nat
  BY NodesAssumption DEF Selectable
<1> HIDE DEF h
<1>10. c \in Block
  BY <1>4, <1>7, <1>8, <1>9 DEF Block
<1>11. /\ c.height = h /\ c.parent = Tip(n) /\ c.kind = kind /\ c.producer = n
       /\ c.root = mem[n].root /\ c.attestations = drained /\ c.active = active
       /\ candidates' = candidates \cup {c}
  BY <1>2
<1> HIDE DEF c
<1>12. Grows(c)
  BY <1>3, <1>11 DEF Grows, h
<1> QED  BY <1>2, <1>6, <1>7, <1>10, <1>11, <1>12 DEF Built

LEMMA BuildSafe ==
  ASSUME SafeInv, NEW n \in Nodes, NEW kind \in {"Mined", "Refined"}, Build(n, kind)
  PROVE  SafeInv'
<1>1. PICK c \in Block :
        /\ candidates' = candidates \cup {c} /\ c.producer = n /\ Grows(c)
        /\ ToSet(c.attestations) \subseteq pending[n]
        /\ pending' = [pending EXCEPT ![n] = Live(n, c.height) \ ToSet(c.attestations)]
  BY BuildFacts DEF Built
<1>2. UNCHANGED <<blocks, votes, mem, disk, stored, failures>>
  BY DEF Build
<1>3. Live(n, c.height) \ ToSet(c.attestations) \subseteq pending[n]
  BY DEF Live
<1>4. /\ pending' \in [Nodes -> SUBSET Attestation]
      /\ \A r \in Nodes : pending'[r] \subseteq votes'
  BY <1>1, <1>2, <1>3, SafeFrame
<1>5. \A d \in candidates' : /\ d \in Block /\ Grows(d) /\ d.producer \in Nodes
                             /\ ToSet(d.attestations) \subseteq votes'
  BY <1>1, <1>2, SafeFrame
<1> QED  BY <1>2, <1>4, <1>5, SafeFrame, MemorySafe

(* The pending attestations of a node with one more. *)
LEMMA PendingSafe ==
  ASSUME SafeInv, NEW n \in Nodes, NEW v \in Attestation,
         NEW V, votes \subseteq V, v \in V
  PROVE  /\ PendingWith(n, v) \subseteq pending[n] \cup {v}
         /\ [pending EXCEPT ![n] = PendingWith(n, v)] \in [Nodes -> SUBSET Attestation]
         /\ \A r \in Nodes : [pending EXCEPT ![n] = PendingWith(n, v)][r] \subseteq V
<1>1. PendingWith(n, v) \subseteq pending[n] \cup {v}
  BY DEF PendingWith
<1> QED  BY <1>1, SafeFrame

LEMMA AttestSafe ==
  ASSUME SafeInv, NEW n \in Nodes, NEW b \in BlockIds, AttestBlock(n, b)
  PROVE  SafeInv'
<1> DEFINE v == [refiner |-> n, block |-> b]
<1>1. /\ votes' = votes \cup {v}
      /\ pending' = IF Acceptable(n, v) THEN [pending EXCEPT ![n] = PendingWith(n, v)]
                    ELSE pending
      /\ UNCHANGED <<blocks, candidates, mem, disk, stored, failures>>
      /\ stored[n][Height(b)] = b
  BY DEF AttestBlock, CanAttest
<1>2. b \in 1 .. Len(blocks) /\ Len(blocks) \in Nat
  BY BlockIdsNat DEF SafeInv
<1>3. v \in Attestation /\ v.refiner = n /\ v.block = b
  BY <1>2 DEF Attestation
<1>4. b \in Ancestors[disk[n].tip]
  <2>1. Height(b) \in Nat /\ Height(b) <= MaxBlocks
    BY BlockType, BlockFields DEF SafeInv, Tree, Height
  <2>2. Height(b) \in 0 .. MaxBlocks
    BY <2>1, BoundsAssumption
  <2> QED  BY <1>1, <1>2, <2>2 DEF SafeInv, Stores
<1> HIDE DEF v
<1>5. IsFiniteSet(votes') /\ votes' \subseteq Attestation
  BY <1>1, <1>3, SafeFrame, FS_AddElement
<1>6. /\ pending' \in [Nodes -> SUBSET Attestation]
      /\ \A r \in Nodes : pending'[r] \subseteq votes'
  <2>1. CASE Acceptable(n, v)
    <3>1. /\ [pending EXCEPT ![n] = PendingWith(n, v)] \in [Nodes -> SUBSET Attestation]
          /\ \A r \in Nodes : [pending EXCEPT ![n] = PendingWith(n, v)][r] \subseteq votes'
      <4>1. votes \subseteq votes' /\ v \in votes'
        BY <1>1
      <4> QED  BY <1>3, <4>1, PendingSafe
    <3> QED  BY <1>1, <2>1, <3>1
  <2>2. CASE ~Acceptable(n, v)
    BY <1>1, <2>2, SafeFrame
  <2> QED  BY <2>1, <2>2
<1>7. \A w \in votes' \ votes : w.block \in Ancestors[disk[w.refiner].tip]
  BY <1>1, <1>3, <1>4
<1> QED  BY <1>1, <1>5, <1>6, <1>7, SafeFrame, MemorySafe

LEMMA GossipAttestationSafe ==
  ASSUME SafeInv, NEW n \in Nodes, NEW v \in votes, GossipAttestation(n, v)
  PROVE  SafeInv'
<1>1. /\ pending' = [pending EXCEPT ![n] = PendingWith(n, v)]
      /\ UNCHANGED <<blocks, votes, candidates, mem, disk, stored, failures>>
  BY DEF GossipAttestation
<1>2. /\ [pending EXCEPT ![n] = PendingWith(n, v)] \in [Nodes -> SUBSET Attestation]
      /\ \A r \in Nodes : [pending EXCEPT ![n] = PendingWith(n, v)][r] \subseteq votes
  BY SafeFrame, PendingSafe
<1> QED  BY <1>1, <1>2, SafeFrame, MemorySafe

-----------------------------------------------------------------------------
(* Every step keeps SafeInv, and what was on disk stays below the tip. *)

LEMMA InitSafe == Init => SafeInv
<1> SUFFICES ASSUME Init PROVE SafeInv
  OBVIOUS
<1> DEFINE zero == [r \in Nodes |-> 0]
           root0 == [correct |-> zero, accounts |-> OnChainKeys]
           state0 == [tip |-> Common, correct |-> zero, index |-> {}, finalized |-> 0,
                      root |-> root0]
<1>1. PICK s \in Selectable(InitActive) :
        blocks = << [height |-> 0, parent |-> 0, kind |-> "Mined", producer |-> 0,
                     root |-> root0, attestations |-> <<>>,
                     active |-> InitActive, selected |-> s] >>
  BY DEF Init, InitState
<1>2. zero \in [Nodes -> Nat] /\ root0 \in Root
  BY NodesAssumption DEF Root
<1>3. InitState = state0 /\ state0 \in NodeState
  <2>1. state0 \in NodeState
    <3> HIDE DEF zero, root0
    <3> QED  BY <1>2 DEF NodeState, Common
  <2> QED  BY <2>1 DEF InitState
<1> HIDE DEF root0
<1> DEFINE block == [height |-> 0, parent |-> 0, kind |-> "Mined", producer |-> 0,
                     root |-> root0, attestations |-> <<>>,
                     active |-> InitActive, selected |-> s]
<1>4. s \in Nat /\ InitActive \subseteq Nodes
  BY NodesAssumption DEF Selectable
<1>5. block \in Block
  BY <1>2, <1>4 DEF Block
<1>6. /\ block.height = 0 /\ block.kind = "Mined" /\ block.attestations = <<>>
  OBVIOUS
<1>7. blocks = <<block>>
  BY <1>1
<1> HIDE DEF block
<1>8. BlockIds = {1} /\ blocks[1] = block /\ blocks \in Seq(Block)
  BY <1>5, <1>7 DEF BlockIds
<1>9. /\ mem = [n \in Nodes |-> state0] /\ disk = [n \in Nodes |-> state0]
      /\ votes = {} /\ candidates = {} /\ pending = [n \in Nodes |-> {}] /\ failures = 0
      /\ stored = [n \in Nodes |-> [h \in 0 .. MaxBlocks |-> IF h = 0 THEN Common ELSE 0]]
  BY <1>3 DEF Init
<1>10. state0.tip = Common /\ state0.index = {}
  OBVIOUS
<1> HIDE DEF state0
<1>11. Types
  BY <1>3, <1>8, <1>9, FS_EmptySet, BoundsAssumption DEF Types, Common
<1>12. Tree
  BY <1>6, <1>8, <1>9, BoundsAssumption DEF Tree, Common, Height
<1>13. Ancestors[Common] = {Common}
  BY <1>12, AncestorsCommon
<1>14. Lines
  BY <1>8, <1>13 DEF Lines, OnOneChain, Common
<1>15. Stores
  BY <1>6, <1>8, <1>9, <1>10, <1>13, BoundsAssumption DEF Stores, Common, Height
<1>16. VotesKept /\ OwnKept
  BY <1>8, <1>9, <1>10 DEF VotesKept, OwnKept, Common
<1>17. ToSet(block.attestations) = {}
  BY <1>6 DEF ToSet
<1>18. Sent
  BY <1>8, <1>9, <1>10, <1>17 DEF Sent
<1> QED  BY <1>11, <1>12, <1>14, <1>15, <1>16, <1>18 DEF SafeInv

LEMMA NextSafe == SafeInv /\ [Next]_vars => SafeInv' /\ DiskGrows
<1> SUFFICES ASSUME SafeInv, [Next]_vars PROVE SafeInv' /\ DiskGrows
  OBVIOUS
<1>0. Tree /\ Stores /\ Types /\ Sent
  BY DEF SafeInv
<1>d. UNCHANGED <<blocks, disk>> => DiskGrows
  BY <1>0, SameBlocksKept, SameDiskGrows
<1>1. ASSUME NEW n \in Nodes, BuildMined(n) \/ BuildRefined(n)
      PROVE  SafeInv' /\ DiskGrows
  <2>1. PICK kind \in {"Mined", "Refined"} : Build(n, kind)
    BY <1>1 DEF BuildMined, BuildRefined
  <2>2. UNCHANGED <<blocks, disk>>
    BY <2>1 DEF Build
  <2> QED  BY <1>d, <2>1, <2>2, BuildSafe
<1>2. ASSUME NEW n \in Nodes, Restart(n) PROVE SafeInv' /\ DiskGrows
  <2>1. UNCHANGED <<blocks, disk>>
    BY <1>2 DEF Restart
  <2> QED  BY <1>2, <1>d, <2>1, RestartSafe
<1>3. ASSUME NEW n \in Nodes, NEW b \in BlockIds, GossipBlock(n, b)
      PROVE  SafeInv' /\ DiskGrows
  BY <1>3, PeerBlockSafe DEF GossipBlock
<1>4. ASSUME NEW n \in Nodes, NEW b \in BlockIds, SyncBlock(n, b)
      PROVE  SafeInv' /\ DiskGrows
  BY <1>4, SyncHeight, PeerBlockSafe DEF SyncBlock
<1>5. ASSUME NEW n \in Nodes, NEW b \in BlockIds, PeerBlockFails(n, b)
      PROVE  SafeInv' /\ DiskGrows
  <2>1. blocks[b] \in Block /\ ToSet(blocks[b].attestations) \subseteq votes
    BY <1>0, BlockType DEF Sent
  <2>2. /\ RejectBlock(n, blocks[b])
        /\ UNCHANGED <<blocks, votes, candidates, pending>> /\ disk' = disk
    BY <1>5 DEF PeerBlockFails, RejectBlock
  <2>3. PICK block \in Block : block = blocks[b]
    BY <2>1
  <2> QED  BY <1>d, <2>1, <2>2, <2>3, RejectSafe
<1>6. ASSUME NEW n \in Nodes, NEW b \in BlockIds, AttestBlock(n, b)
      PROVE  SafeInv' /\ DiskGrows
  <2>1. UNCHANGED <<blocks, disk>>
    BY <1>6 DEF AttestBlock
  <2> QED  BY <1>6, <1>d, <2>1, AttestSafe
<1>7. ASSUME NEW n \in Nodes, NEW b \in BlockIds, DeclineAttestation(n, b)
      PROVE  SafeInv' /\ DiskGrows
  BY <1>7, <1>d, SafeFrame, MemorySafe DEF DeclineAttestation
<1>8. ASSUME NEW n \in Nodes, NEW v \in votes, GossipAttestation(n, v)
      PROVE  SafeInv' /\ DiskGrows
  <2>1. UNCHANGED <<blocks, disk>>
    BY <1>8 DEF GossipAttestation
  <2> QED  BY <1>8, <1>d, <2>1, GossipAttestationSafe
<1>9. ASSUME NEW c \in candidates, SubmitCandidate(c) PROVE SafeInv' /\ DiskGrows
  BY <1>9, SubmitSafe
<1>10. ASSUME NEW c \in candidates, CandidateFails(c) PROVE SafeInv' /\ DiskGrows
  <2>1. c \in Block /\ c.producer \in Nodes /\ ToSet(c.attestations) \subseteq votes
    BY SafeFrame
  <2>2. /\ RejectBlock(c.producer, c) /\ candidates' \subseteq candidates
        /\ UNCHANGED <<blocks, votes, pending>> /\ disk' = disk
    BY <1>10 DEF CandidateFails, RejectBlock
  <2> QED  BY <1>d, <2>1, <2>2, RejectSafe
<1>11. ASSUME NEW c \in candidates, MiningFails(c) PROVE SafeInv' /\ DiskGrows
  BY <1>11, <1>d, SafeFrame, MemorySafe DEF MiningFails
<1>12. CASE UNCHANGED vars
  BY <1>12, <1>d, SafeFrame, MemorySafe DEF vars
<1> QED
  BY <1>1, <1>2, <1>3, <1>4, <1>5, <1>6, <1>7, <1>8, <1>9, <1>10, <1>11, <1>12 DEF Next

(* The tree of blocks, the stores and the attestations fit together in     *)
(* every run, failed writes and restarts included.                         *)
THEOREM ReplicasInvariant == Spec => []SafeInv
BY InitSafe, NextSafe, PTL DEF Spec

(* An honest refiner never attests two branches: create_block_attestation  *)
(* signs what its store holds, and that stays below the tip on its disk.   *)
THEOREM RefinersVoteOnOneChain == Spec => []VotesOnOneChain
<1>1. SafeInv => VotesOnOneChain
  <2> SUFFICES ASSUME SafeInv, NEW v \in votes, NEW w \in votes, v.refiner = w.refiner
               PROVE  OnOneChain(v.block, w.block)
    BY DEF VotesOnOneChain
  <2>1. disk[v.refiner].tip \in BlockIds
    BY SentBlocks DEF SafeInv
  <2>2. /\ v.block \in Ancestors[disk[v.refiner].tip]
        /\ w.block \in Ancestors[disk[v.refiner].tip]
    BY DEF SafeInv, VotesKept
  <2> QED  BY <2>1, <2>2 DEF SafeInv, Lines
<1> QED  BY <1>1, ReplicasInvariant, PTL

(* While writes succeed, an honest refiner publishes at most one refined   *)
(* block of a height: all its blocks are below the tip on its disk.        *)
THEOREM RefinersSignBlocksOnce == Spec => []RefinersSignOnce
<1>1. SafeInv => RefinersSignOnce
  <2> SUFFICES ASSUME SafeInv, failures = 0, NEW b \in BlockIds, NEW c \in BlockIds,
                      IsRefined(b), IsRefined(c), Height(b) = Height(c),
                      blocks[b].producer = blocks[c].producer
               PROVE  b = c
    BY DEF RefinersSignOnce
  <2>1. b # Common /\ c # Common
    BY DEF SafeInv, Tree, IsRefined
  <2> DEFINE t == disk[blocks[b].producer].tip
  <2>2. b \in Ancestors[t] /\ c \in Ancestors[t]
    BY <2>1 DEF SafeInv, OwnKept
  <2>3. t \in BlockIds
    BY <2>1, TipsKnown DEF SafeInv, Tree
  <2> HIDE DEF t
  <2> QED  BY <2>2, <2>3, OneAtEachHeight DEF SafeInv
<1> QED  BY <1>1, ReplicasInvariant, PTL

-----------------------------------------------------------------------------
(* Finality. *)

(* What a step may do to the memory of node r: nothing, a restart, what a  *)
(* refused block leaves, or the state after a block.                       *)
Refused(r) ==
  \E block \in Block : /\ ToSet(block.attestations) \subseteq votes
                       /\ ~Accepts(r, block)
                       /\ mem'[r] = AfterRejection(r, block)

Applied(r) ==
  \E block \in Block, b \in Nat :
    /\ ToSet(block.attestations) \subseteq votes
    /\ Accepts(r, block)
    /\ mem'[r] = After(r, block, b)
    /\ Ancestors'[b] = {b} \cup Ancestors[block.parent]

MemoryStep(r) ==
  /\ \/ mem'[r] = mem[r]
     \/ mem'[r] = disk[r] /\ restarts' = restarts + 1
     \/ Refused(r)
     \/ Applied(r)
  /\ disk'[r] \in {disk[r], mem'[r]}

LEMMA RejectStep ==
  ASSUME SafeInv, NEW n \in Nodes, NEW block \in Block,
         ToSet(block.attestations) \subseteq votes, RejectBlock(n, block)
  PROVE  \A r \in Nodes : MemoryStep(r)
<1>1. mem' = [mem EXCEPT ![n] = AfterRejection(n, block)] /\ disk' = disk
      /\ ~Accepts(n, block)
  BY DEF RejectBlock
<1>2. \A r \in Nodes : r # n => mem'[r] = mem[r]
  BY <1>1, SafeFrame
<1>3. mem'[n] = AfterRejection(n, block)
  BY <1>1, SafeFrame
<1>4. Refused(n)
  BY <1>1, <1>3 DEF Refused
<1> QED  BY <1>1, <1>2, <1>4 DEF MemoryStep

LEMMA AcceptStep ==
  ASSUME SafeInv, NEW n \in Nodes, NEW block \in Block, NEW b \in Nat,
         ToSet(block.attestations) \subseteq votes, AcceptBlock(n, block, b),
         Ancestors'[b] = {b} \cup Ancestors[block.parent]
  PROVE  \A r \in Nodes : MemoryStep(r)
<1>1. /\ mem' = [mem EXCEPT ![n] = After(n, block, b)]
      /\ disk' \in {disk, [disk EXCEPT ![n] = After(n, block, b)]}
      /\ Accepts(n, block)
  BY AcceptSteps
<1>2. \A r \in Nodes : r # n => mem'[r] = mem[r] /\ disk'[r] = disk[r]
  BY <1>1, SafeFrame
<1>3. mem'[n] = After(n, block, b) /\ disk'[n] \in {disk[n], mem'[n]}
  BY <1>1, SafeFrame
<1>4. Applied(n)
  BY <1>1, <1>3 DEF Applied
<1> QED  BY <1>2, <1>3, <1>4 DEF MemoryStep

LEMMA PeerAcceptStep ==
  ASSUME SafeInv, NEW n \in Nodes, NEW b \in BlockIds, Height(b) > Height(Tip(n)),
         AcceptBlock(n, blocks[b], b), blocks' = blocks
  PROVE  \A r \in Nodes : MemoryStep(r)
<1>0. Types /\ Tree /\ Stores /\ Sent
  BY DEF SafeInv
<1>1. Ancestors' = Ancestors
  BY SameBlocksKept
<1>2. b # Common
  <2>1. Tip(n) \in BlockIds
    BY <1>0 DEF Stores, Tip
  <2>2. Height(Tip(n)) \in Nat /\ Height(Common) = 0
    BY <1>0, <2>1, BlockType, BlockFields DEF Height, Tree
  <2> QED  BY <2>2
<1>3. PICK block \in Block : block = blocks[b]
  BY <1>0, BlockType
<1>4. Ancestors'[b] = {b} \cup Ancestors[block.parent]
  BY <1>0, <1>1, <1>2, <1>3, AncestorsStep
<1>5. ToSet(block.attestations) \subseteq votes /\ AcceptBlock(n, block, b)
  BY <1>0, <1>3 DEF Sent
<1>6. b \in Nat
  BY <1>0, BlockIdsNat
<1> QED  BY <1>4, <1>5, <1>6, AcceptStep

LEMMA NextMemory == SafeInv /\ [Next]_vars => Kept /\ \A r \in Nodes : MemoryStep(r)
<1> SUFFICES ASSUME SafeInv, [Next]_vars PROVE Kept /\ \A r \in Nodes : MemoryStep(r)
  OBVIOUS
<1>0. Types /\ Tree /\ Sent
  BY DEF SafeInv
<1>k. blocks' = blocks => Kept
  BY SameBlocksKept
<1>m. UNCHANGED <<mem, disk>> => \A r \in Nodes : MemoryStep(r)
  BY DEF MemoryStep
<1>1. CASE \E n \in Nodes : BuildMined(n) \/ BuildRefined(n)
  BY <1>1, <1>k, <1>m DEF BuildMined, BuildRefined, Build
<1>2. CASE \E n \in Nodes : Restart(n)
  <2>1. PICK n \in Nodes : Restart(n)
    BY <1>2
  <2>2. /\ mem' = [mem EXCEPT ![n] = disk[n]] /\ UNCHANGED <<blocks, disk>>
        /\ restarts' = restarts + 1
    BY <2>1 DEF Restart
  <2>3. \A r \in Nodes : mem'[r] = mem[r] \/ mem'[r] = disk[r]
    BY <2>2, SafeFrame
  <2> QED  BY <1>k, <2>2, <2>3 DEF MemoryStep
<1>3. CASE \E n \in Nodes, b \in BlockIds : GossipBlock(n, b)
  BY <1>3, <1>k, PeerAcceptStep DEF GossipBlock
<1>4. CASE \E n \in Nodes, b \in BlockIds : SyncBlock(n, b)
  BY <1>4, <1>k, SyncHeight, PeerAcceptStep DEF SyncBlock
<1>5. CASE \E n \in Nodes, b \in BlockIds : PeerBlockFails(n, b)
  <2>1. PICK n \in Nodes, b \in BlockIds : PeerBlockFails(n, b)
    BY <1>5
  <2>2. PICK block \in Block : block = blocks[b]
    BY <1>0, BlockType
  <2>3. /\ ToSet(block.attestations) \subseteq votes /\ RejectBlock(n, block)
        /\ blocks' = blocks
    BY <1>0, <2>1, <2>2 DEF PeerBlockFails, Sent
  <2> QED  BY <1>k, <2>3, RejectStep
<1>6. CASE \E n \in Nodes, b \in BlockIds : AttestBlock(n, b) \/ DeclineAttestation(n, b)
  BY <1>6, <1>k, <1>m DEF AttestBlock, DeclineAttestation
<1>7. CASE \E n \in Nodes, v \in votes : GossipAttestation(n, v)
  BY <1>7, <1>k, <1>m DEF GossipAttestation
<1>8. CASE \E c \in candidates : SubmitCandidate(c)
  <2>1. PICK c \in candidates : SubmitCandidate(c)
    BY <1>8
  <2>2. c \in Block /\ Grows(c) /\ c.producer \in Nodes /\ ToSet(c.attestations) \subseteq votes
    BY SafeFrame
  <2> DEFINE b == Len(blocks) + 1
  <2>3. blocks' = Append(blocks, c) /\ AcceptBlock(c.producer, c, b)
    BY <2>1 DEF SubmitCandidate
  <2>4. Kept /\ Ancestors'[b] = {b} \cup Ancestors[c.parent]
    BY <1>0, <2>2, <2>3, AppendKept
  <2>5. b \in Nat
    BY <1>0, BlockIdsNat
  <2> HIDE DEF b
  <2> QED  BY <2>2, <2>3, <2>4, <2>5, AcceptStep
<1>9. CASE \E c \in candidates : CandidateFails(c)
  <2>1. PICK c \in candidates : CandidateFails(c)
    BY <1>9
  <2>2. c \in Block /\ c.producer \in Nodes /\ ToSet(c.attestations) \subseteq votes
    BY SafeFrame
  <2>3. RejectBlock(c.producer, c) /\ blocks' = blocks
    BY <2>1 DEF CandidateFails
  <2> QED  BY <1>k, <2>2, <2>3, RejectStep
<1>10. CASE \E c \in candidates : MiningFails(c)
  BY <1>10, <1>k, <1>m DEF MiningFails
<1>11. CASE UNCHANGED vars
  BY <1>11, <1>k, <1>m DEF vars
<1> QED  BY <1>1, <1>2, <1>3, <1>4, <1>5, <1>6, <1>7, <1>8, <1>9, <1>10, <1>11 DEF Next

-----------------------------------------------------------------------------
LEMMA WeightType ==
  ASSUME NEW S \in SUBSET Nodes
  PROVE  IsFiniteSet(S) /\ ActiveWeight(S) \in Nat
<1>1. IsFiniteSet(S) /\ \A r \in S : Weight[r] \in Nat
  BY NodesAssumption, FS_Subset
<1> QED  BY <1>1, SumNonnegative DEF ActiveWeight

LEMMA WeightMonotone ==
  ASSUME NEW T \in SUBSET Nodes, NEW S \in SUBSET T
  PROVE  ActiveWeight(S) <= ActiveWeight(T)
<1>1. IsFiniteSet(T) /\ \A r \in T : Weight[r] \in Int
  BY WeightType, NodesAssumption
<1>2. ActiveWeight(T) = ActiveWeight(S) + ActiveWeight(T \ S)
  BY <1>1, SumSplit DEF ActiveWeight
<1>3. ActiveWeight(S) \in Nat /\ ActiveWeight(T \ S) \in Nat
  BY WeightType
<1> QED  BY <1>2, <1>3

(* The finalized height f and the tip t of a state fit. *)
FinalAt(f, t) ==
  f > 0 => \E u \in Ancestors[t] : Height(u) = f /\ Supported(u)

LEMMA SupportedNext ==
  ASSUME DiskGrows, NEW u, Supported(u)
  PROVE  Supported(u)'
<1>1. Holders(u)' = {r \in InitActive : u \in Ancestors'[disk'[r].tip]}
  BY DEF Holders
<1>2. InitActive \in SUBSET Nodes
  BY NodesAssumption
<1>3. Holders(u) \subseteq Holders(u)' /\ Holders(u)' \in SUBSET Nodes
  BY <1>1, <1>2 DEF DiskGrows, Holders
<1> DEFINE H == Holders(u)'
<1>4. ActiveWeight(Holders(u)) <= ActiveWeight(H)
  <2>1. Holders(u) \in SUBSET H /\ H \in SUBSET Nodes
    BY <1>3
  <2> HIDE DEF H
  <2> QED  BY <2>1, WeightMonotone
<1>5. ActiveWeight(Holders(u)) \in Nat /\ ActiveWeight(H) \in Nat /\ ActiveWeight(InitActive) \in Nat
  <2>1. Holders(u) \in SUBSET Nodes /\ H \in SUBSET Nodes
    BY <1>3
  <2> HIDE DEF H
  <2> QED  BY <1>2, <2>1, WeightType
<1>6. 1000 * ActiveWeight(Holders(u)) >= FINALITY_CONFIDENCE_MILLI * ActiveWeight(InitActive)
  BY DEF Supported
<1>7. FINALITY_CONFIDENCE_MILLI \in Nat
  BY BoundsAssumption
<1>8. FINALITY_CONFIDENCE_MILLI * ActiveWeight(InitActive) \in Nat
  BY <1>5, <1>7
<1>9. 1000 * ActiveWeight(H) >= FINALITY_CONFIDENCE_MILLI * ActiveWeight(InitActive)
  <2> DEFINE need == FINALITY_CONFIDENCE_MILLI * ActiveWeight(InitActive)
             old == ActiveWeight(Holders(u))
             new == ActiveWeight(H)
  <2>1. 1000 * old >= need /\ old <= new /\ old \in Nat /\ new \in Nat /\ need \in Nat
    BY <1>4, <1>5, <1>6, <1>8
  <2>2. 1000 * new >= need
    <3> HIDE DEF need, old, new
    <3> QED  BY <2>1
  <2> QED  BY <2>2
<1> QED  BY <1>9 DEF Supported, ActiveWeight

LEMMA FinalAtNext ==
  ASSUME SafeInv, Kept, DiskGrows, NEW f, NEW t \in BlockIds, FinalAt(f, t),
         NEW s, Ancestors[t] \subseteq Ancestors'[s]
  PROVE  FinalAt(f, s)'
<1> SUFFICES ASSUME f > 0
             PROVE  \E u \in Ancestors'[s] : Height(u)' = f /\ Supported(u)'
  BY DEF FinalAt
<1>1. PICK u \in Ancestors[t] : Height(u) = f /\ Supported(u)
  BY DEF FinalAt
<1>2. u \in BlockIds
  BY AncestorsClosed DEF SafeInv
<1>3. Height(u)' = f
  BY <1>1, <1>2 DEF Kept, Height
<1>4. Supported(u)'
  BY <1>1, SupportedNext
<1> QED  BY <1>1, <1>3, <1>4

LEMMA ActiveIs ==
  ASSUME SafeInv, ActiveSame, NEW n \in Nodes
  PROVE  Active(n) = InitActive
BY DEF SafeInv, Stores, ActiveSame, Active, Tip

LEMMA RoundedUp ==
  ASSUME NEW x \in Nat
  PROVE  1000 * ((x + 999) \div 1000) >= x
OBVIOUS

(* A block a node counts as final is held by enough of the stake. *)
LEMMA ReachedSupported ==
  ASSUME SafeInv, ActiveSame, NEW n \in Nodes, NEW index \in SUBSET votes,
         NEW u, IndexedWeight(n, index, u) >= Threshold(n), Threshold(n) # 0
  PROVE  Supported(u)
<1> DEFINE V == {v.refiner : v \in {w \in index : w.block = u}} \cap InitActive
           total == ActiveWeight(InitActive)
<1>1. V \in SUBSET Holders(u)
  BY DEF SafeInv, VotesKept, Holders
<1>2. Holders(u) \in SUBSET Nodes /\ InitActive \in SUBSET Nodes /\ V \in SUBSET Nodes
  BY NodesAssumption DEF Holders
<1>3. ActiveWeight(V) >= (total * FINALITY_CONFIDENCE_MILLI + 999) \div 1000
  <2>1. Active(n) = InitActive
    BY ActiveIs
  <2>2. IndexedWeight(n, index, u) = ActiveWeight(V)
    BY <2>1 DEF IndexedWeight
  <2>3. Threshold(n) = (total * FINALITY_CONFIDENCE_MILLI + 999) \div 1000
    BY <2>1 DEF Threshold
  <2> HIDE DEF V, total
  <2> QED  BY <2>2, <2>3
<1> HIDE DEF V
<1>4. ActiveWeight(V) \in Nat /\ ActiveWeight(Holders(u)) \in Nat /\ total \in Nat
      /\ ActiveWeight(V) <= ActiveWeight(Holders(u))
  BY <1>1, <1>2, WeightType, WeightMonotone
<1>5. FINALITY_CONFIDENCE_MILLI \in Nat
  BY BoundsAssumption
<1> DEFINE x == total * FINALITY_CONFIDENCE_MILLI
<1>6. x \in Nat /\ x = FINALITY_CONFIDENCE_MILLI * total
  <2> HIDE DEF total
  <2> QED  BY <1>4, <1>5
<1>7. 1000 * ((x + 999) \div 1000) >= x /\ (x + 999) \div 1000 \in Nat
  <2> HIDE DEF x
  <2> QED  BY <1>6, RoundedUp
<1>8. 1000 * ActiveWeight(Holders(u)) >= x
  <2> DEFINE q == (x + 999) \div 1000
             got == ActiveWeight(V)
             held == ActiveWeight(Holders(u))
  <2>1. /\ got >= q /\ got <= held /\ got \in Nat /\ held \in Nat /\ q \in Nat
        /\ 1000 * q >= x /\ x \in Nat
    BY <1>3, <1>4, <1>6, <1>7
  <2>2. 1000 * held >= x
    <3> HIDE DEF q, got, held, x
    <3> QED  BY <2>1
  <2> QED  BY <2>2
<1>9. 1000 * ActiveWeight(Holders(u)) >= FINALITY_CONFIDENCE_MILLI * total
  <2> HIDE DEF x
  <2> QED  BY <1>6, <1>8
<1>10. total > 0
  <2> SUFFICES ASSUME total = 0 PROVE FALSE
    <3> HIDE DEF total
    <3> QED  BY <1>4
  <2>1. Threshold(n) = (0 * FINALITY_CONFIDENCE_MILLI + 999) \div 1000
    BY ActiveIs DEF Threshold
  <2>2. 0 * FINALITY_CONFIDENCE_MILLI = 0 /\ (0 + 999) \div 1000 = 0
    BY <1>5
  <2> QED  BY <2>1, <2>2
<1> QED  BY <1>9, <1>10 DEF Supported

LEMMA FinalityFits ==
  ASSUME SafeInv, ActiveSame, NEW n \in Nodes, NEW block \in Block,
         ToSet(block.attestations) \subseteq votes, AllRecorded(n, block),
         FinalAt(mem[n].finalized, mem[n].tip)
  PROVE  FinalAt(AfterFinality(n, block).finalized, mem[n].tip)
<1> DEFINE loop == AfterLoop(n, block)
           f == AfterFinality(n, block).finalized
<1>0. Types /\ Tree /\ Stores /\ VotesKept
  BY DEF SafeInv
<1>1. loop \in NodeState /\ loop.finalized = mem[n].finalized
  BY <1>0, LoopFacts
<1>2. loop.index \in SUBSET votes
  BY <1>0, LoopIndex, SafeFrame
<1>3. f = FinalizedHeight(n, block, loop)
  BY <1>0, FinalityFacts
<1> HIDE DEF loop, f
<1>4. CASE f = loop.finalized
  BY <1>1, <1>4 DEF f
<1>5. CASE /\ Threshold(n) # 0
           /\ \E a \in ToSet(block.attestations) :
             f = Height(a.block) /\ IndexedWeight(n, loop.index, a.block) >= Threshold(n)
  <2>1. PICK a \in ToSet(block.attestations) :
             f = Height(a.block) /\ IndexedWeight(n, loop.index, a.block) >= Threshold(n)
    BY <1>5
  <2>2. Supported(a.block)
    BY <1>2, <1>5, <2>1, ReachedSupported
  <2>3. PICK i \in DOMAIN block.attestations : a = block.attestations[i]
    BY DEF ToSet
  <2>4. i \in Nat \ {0}
    BY BlockFields
  <2>5. AttestationValid(n, block, i)
    BY <2>3, <2>4 DEF AllRecorded, Recorded
  <2>6. a.block = stored[n][Height(a.block)] /\ a.block # 0
    BY <2>3, <2>5 DEF AttestationValid
  <2>7. Height(a.block) \in 0 .. MaxBlocks
    <3>1. a.block \in BlockIds /\ Height(a.block) \in Nat
      BY <1>0, SentBlocks
    <3>2. Height(a.block) <= MaxBlocks
      BY <1>0, <3>1 DEF Tree
    <3> QED  BY <3>1, <3>2, BoundsAssumption
  <2>8. a.block \in Ancestors[disk[n].tip]
    BY <1>0, <2>6, <2>7 DEF Stores
  <2>9. a.block \in Ancestors[mem[n].tip]
    BY <1>0, <2>8, TipsKnown
  <2> QED  BY <2>1, <2>2, <2>9 DEF FinalAt, f
<1> QED  BY <1>0, <1>1, <1>3, <1>4, <1>5, FinalizedFacts

LEMMA MemoryFinal ==
  ASSUME SafeInv, Kept, DiskGrows, ActiveSame, NEW r \in Nodes, MemoryStep(r),
         FinalOK(mem[r]), FinalOK(disk[r])
  PROVE  FinalOK(mem[r])' /\ FinalOK(disk[r])'
<1>0. /\ Types /\ Tree /\ Stores /\ VotesKept
      /\ mem[r].tip \in BlockIds /\ disk[r].tip \in BlockIds
  BY TipsKnown DEF SafeInv
<1>1. FinalAt(mem[r].finalized, mem[r].tip) /\ FinalAt(disk[r].finalized, disk[r].tip)
  BY DEF FinalOK, FinalAt
<1>2. ASSUME NEW f, NEW t \in BlockIds, FinalAt(f, t), NEW state,
             state.finalized = f, Ancestors[t] \subseteq Ancestors'[state.tip]
      PROVE  FinalOK(state)'
  <2>1. PICK s : s = state.tip
    OBVIOUS
  <2>2. FinalAt(f, s)'
    BY <1>2, <2>1, FinalAtNext
  <2> QED  BY <1>2, <2>1, <2>2 DEF FinalAt, FinalOK
<1>3. /\ Ancestors[mem[r].tip] \subseteq Ancestors'[mem[r].tip]
      /\ Ancestors[disk[r].tip] \subseteq Ancestors'[disk[r].tip]
  BY <1>0 DEF Kept
<1>4. ASSUME NEW state, state = mem'[r] PROVE FinalOK(state)'
  <2>1. CASE mem'[r] = mem[r]
    BY <1>0, <1>1, <1>2, <1>3, <1>4, <2>1
  <2>2. CASE mem'[r] = disk[r]
    BY <1>0, <1>1, <1>2, <1>3, <1>4, <2>2
  <2>3. CASE Refused(r)
    <3>1. PICK block \in Block : /\ ToSet(block.attestations) \subseteq votes
                                 /\ mem'[r] = AfterRejection(r, block)
      BY <2>3 DEF Refused
    <3>2. /\ state.tip = mem[r].tip
          /\ \/ state.finalized = mem[r].finalized
             \/ /\ AllRecorded(r, block)
                /\ state.finalized = AfterFinality(r, block).finalized
      BY <1>0, <1>4, <3>1, RejectionFacts
    <3>3. FinalAt(state.finalized, mem[r].tip)
      BY <1>1, <3>1, <3>2, FinalityFits
    <3> QED  BY <1>0, <1>2, <1>3, <3>2, <3>3
  <2>4. CASE Applied(r)
    <3>1. PICK block \in Block, b \in Nat :
            /\ ToSet(block.attestations) \subseteq votes
            /\ Accepts(r, block)
            /\ mem'[r] = After(r, block, b)
            /\ Ancestors'[b] = {b} \cup Ancestors[block.parent]
      BY <2>4 DEF Applied
    <3>2. state.tip = b /\ state.finalized = AfterFinality(r, block).finalized
      BY <1>0, <1>4, <3>1, AcceptedFacts
    <3>3. AllRecorded(r, block) /\ block.parent = mem[r].tip
      BY <3>1 DEF Accepts, Extends, Tip
    <3>4. FinalAt(state.finalized, mem[r].tip)
      BY <1>1, <3>1, <3>2, <3>3, FinalityFits
    <3> QED  BY <1>0, <1>2, <3>1, <3>2, <3>3, <3>4
  <2> QED  BY <2>1, <2>2, <2>3, <2>4 DEF MemoryStep
<1>5. ASSUME NEW state, state = disk'[r] PROVE FinalOK(state)'
  <2>1. CASE disk'[r] = disk[r]
    BY <1>0, <1>1, <1>2, <1>3, <1>5, <2>1
  <2>2. CASE disk'[r] = mem'[r]
    BY <1>4, <1>5, <2>2
  <2> QED  BY <2>1, <2>2 DEF MemoryStep
<1> QED  BY <1>4, <1>5 DEF FinalOK

(* The active set stands still. *)
LEMMA ActiveNext ==
  ASSUME SafeInv, StillActive, ActiveSame, [Next]_vars
  PROVE  ActiveSame'
<1>1. ASSUME blocks' = blocks, \A c \in candidates' : c.active = InitActive PROVE ActiveSame'
  BY <1>1 DEF ActiveSame, BlockIds
<1>2. candidates' \subseteq candidates => \A c \in candidates' : c.active = InitActive
  BY DEF ActiveSame
<1>3. CASE \E n \in Nodes : BuildMined(n) \/ BuildRefined(n)
  <2>1. PICK n \in Nodes, kind \in {"Mined", "Refined"} : Build(n, kind)
    BY <1>3 DEF BuildMined, BuildRefined
  <2>2. PICK c \in Block : candidates' = candidates \cup {c} /\ c.active \in ActiveChoices
    BY <2>1, BuildFacts DEF Built
  <2>3. \A d \in candidates' : d.active = InitActive
    BY <2>2 DEF StillActive, ActiveSame
  <2>4. blocks' = blocks
    BY <2>1 DEF Build
  <2> QED  BY <1>1, <2>3, <2>4
<1>4. CASE \E c \in candidates : SubmitCandidate(c)
  <2>1. PICK c \in candidates : SubmitCandidate(c)
    BY <1>4
  <2>2. c \in Block /\ Grows(c) /\ c.active = InitActive
    BY SafeFrame DEF ActiveSame
  <2>3. blocks' = Append(blocks, c) /\ candidates' = candidates \ {c}
    BY <2>1 DEF SubmitCandidate
  <2>4. /\ Kept /\ BlockIds' = BlockIds \cup {Len(blocks) + 1}
        /\ blocks'[Len(blocks) + 1] = c
    BY <2>2, <2>3, AppendKept DEF SafeInv
  <2>5. \A b \in BlockIds' : blocks'[b].active = InitActive
    BY <2>2, <2>4 DEF Kept, ActiveSame
  <2> QED  BY <1>2, <2>3, <2>5 DEF ActiveSame
<1>5. CASE \/ \E n \in Nodes :
                \/ Restart(n)
                \/ \E b \in BlockIds :
                     \/ GossipBlock(n, b) \/ SyncBlock(n, b) \/ PeerBlockFails(n, b)
                     \/ AttestBlock(n, b) \/ DeclineAttestation(n, b)
                \/ \E v \in votes : GossipAttestation(n, v)
           \/ \E c \in candidates : CandidateFails(c) \/ MiningFails(c)
           \/ UNCHANGED vars
  <2>1. blocks' = blocks /\ candidates' \subseteq candidates
    BY <1>5 DEF Restart, GossipBlock, SyncBlock, PeerBlockFails, AttestBlock,
                DeclineAttestation, GossipAttestation, CandidateFails, MiningFails, vars
  <2> QED  BY <1>1, <1>2, <2>1
<1> QED  BY <1>3, <1>4, <1>5 DEF Next

LEMMA InitFinal == Init /\ StillActive => FinalInv
<1> SUFFICES ASSUME Init, StillActive PROVE FinalInv
  OBVIOUS
<1>1. \A n \in Nodes : mem[n].finalized = 0 /\ disk[n].finalized = 0
  BY DEF Init, InitState
<1>2. \A n \in Nodes : FinalOK(mem[n]) /\ FinalOK(disk[n])
  BY <1>1 DEF FinalOK
<1>3. PICK block : blocks = <<block>> /\ block.active = InitActive
  BY DEF Init
<1>4. BlockIds = {1} /\ blocks[1] = block
  BY <1>3 DEF BlockIds
<1>5. ActiveSame
  BY <1>3, <1>4 DEF Init, ActiveSame
<1> QED  BY <1>2, <1>5 DEF FinalInv

LEMMA NextFinal == SafeInv /\ FinalInv /\ [Next]_vars => FinalInv'
<1> SUFFICES ASSUME SafeInv, FinalInv, [Next]_vars PROVE FinalInv'
  OBVIOUS
<1>1. Kept /\ DiskGrows /\ \A r \in Nodes : MemoryStep(r)
  BY NextSafe, NextMemory
<1>2. StillActive' /\ ActiveSame'
  BY ActiveNext DEF FinalInv, StillActive
<1>3. \A r \in Nodes : FinalOK(mem[r])' /\ FinalOK(disk[r])'
  BY <1>1, MemoryFinal DEF FinalInv
<1> QED  BY <1>2, <1>3 DEF FinalInv

(* The block of a node's finalized height. *)
LEMMA FinalBlockSupported ==
  ASSUME SafeInv, FinalInv, NEW n \in Nodes, mem[n].finalized > 0
  PROVE  Supported(FinalBlock(mem[n]))
<1>1. PICK u \in Ancestors[mem[n].tip] : Height(u) = mem[n].finalized /\ Supported(u)
  BY DEF FinalInv, FinalOK
<1>2. mem[n].tip \in BlockIds
  BY DEF SafeInv, Stores
<1>3. /\ FinalBlock(mem[n]) \in Ancestors[mem[n].tip]
      /\ Height(FinalBlock(mem[n])) = mem[n].finalized
  BY <1>1 DEF FinalBlock
<1>4. FinalBlock(mem[n]) = u
  BY <1>1, <1>2, <1>3, OneAtEachHeight DEF SafeInv
<1> QED  BY <1>1, <1>4

LEMMA InvariantWhileStill == Spec /\ StillActive => [](SafeInv /\ FinalInv)
<1>1. Init /\ StillActive => SafeInv /\ FinalInv
  BY InitSafe, InitFinal
<1>2. SafeInv /\ FinalInv /\ [Next]_vars => SafeInv' /\ FinalInv'
  BY NextSafe, NextFinal
<1> QED  BY <1>1, <1>2, PTL DEF Spec

(* While the active set stands still, a finalized block is below the tip   *)
(* on the disks of refiners with FINALITY_CONFIDENCE_MILLI of the active   *)
(* weight, whatever writes fail and whichever nodes restart.               *)
THEOREM FinalityIsHeld == Spec /\ StillActive => []FinalityHeld
<1>1. SafeInv /\ FinalInv => FinalityHeld
  <2> SUFFICES ASSUME SafeInv, FinalInv, NEW n \in Nodes, mem[n].finalized > 0
               PROVE  1000 * ActiveWeight({r \in Active(n) :
                               FinalBlock(mem[n]) \in Ancestors[disk[r].tip]})
                        >= FINALITY_CONFIDENCE_MILLI * ActiveWeight(Active(n))
    BY DEF FinalityHeld
  <2>1. Active(n) = InitActive
    BY ActiveIs DEF FinalInv
  <2>2. Supported(FinalBlock(mem[n]))
    BY FinalBlockSupported
  <2> QED  BY <2>1, <2>2 DEF Supported, Holders
<1> QED  BY <1>1, InvariantWhileStill, PTL

(* Two sets of active refiners with more than half of the weight each have *)
(* a member in common.                                                     *)
LEMMA MajoritiesMeet ==
  ASSUME NEW A \in SUBSET InitActive, NEW B \in SUBSET InitActive,
         ActiveWeight(A) + ActiveWeight(B) > ActiveWeight(InitActive)
  PROVE  A \cap B # {}
<1> SUFFICES ASSUME A \cap B = {} PROVE FALSE
  OBVIOUS
<1>1. InitActive \in SUBSET Nodes /\ B \in SUBSET (InitActive \ A)
      /\ InitActive \ A \in SUBSET Nodes /\ A \in SUBSET Nodes /\ B \in SUBSET Nodes
  BY NodesAssumption
<1>2. IsFiniteSet(InitActive) /\ \A r \in InitActive : Weight[r] \in Int
  BY <1>1, WeightType, NodesAssumption
<1>3. ActiveWeight(InitActive) = ActiveWeight(A) + ActiveWeight(InitActive \ A)
  BY <1>2, SumSplit DEF ActiveWeight
<1> DEFINE R == InitActive \ A
<1>4. ActiveWeight(B) <= ActiveWeight(R) /\ ActiveWeight(R) \in Nat
      /\ ActiveWeight(A) \in Nat /\ ActiveWeight(B) \in Nat
  <2> HIDE DEF R
  <2> QED  BY <1>1, WeightMonotone, WeightType DEF R
<1> QED  BY <1>3, <1>4

(* The finalized blocks of two nodes are on one chain. *)
FinalizedOnOneChain ==
  \A m, n \in Nodes : mem[m].finalized > 0 /\ mem[n].finalized > 0 =>
    OnOneChain(FinalBlock(mem[m]), FinalBlock(mem[n]))

(* "Finality is final": while the active set stands still and finality     *)
(* takes more than half of its weight, no two nodes ever finalize blocks   *)
(* of different branches, whatever writes fail and whichever nodes restart *)
(* (finality_confidence_milli is 667).                                     *)
THEOREM FinalizedBlocksAgree ==
  Spec /\ StillActive /\ FINALITY_CONFIDENCE_MILLI > 500 => []FinalizedOnOneChain
<1>1. SafeInv /\ FinalInv /\ FINALITY_CONFIDENCE_MILLI > 500 => FinalizedOnOneChain
  <2> SUFFICES ASSUME SafeInv, FinalInv, FINALITY_CONFIDENCE_MILLI > 500,
                      NEW m \in Nodes, NEW n \in Nodes,
                      mem[m].finalized > 0, mem[n].finalized > 0
               PROVE  OnOneChain(FinalBlock(mem[m]), FinalBlock(mem[n]))
    BY DEF FinalizedOnOneChain
  <2> DEFINE u == FinalBlock(mem[m])
             w == FinalBlock(mem[n])
             A == Holders(u)
             B == Holders(w)
             total == ActiveWeight(InitActive)
             needed == FINALITY_CONFIDENCE_MILLI * total
  <2>1. Supported(u) /\ Supported(w)
    BY FinalBlockSupported
  <2> HIDE DEF u, w
  <2>2. /\ 1000 * ActiveWeight(A) >= needed /\ 1000 * ActiveWeight(B) >= needed
        /\ total > 0
    BY <2>1 DEF Supported
  <2>3. A \in SUBSET InitActive /\ B \in SUBSET InitActive
        /\ A \in SUBSET Nodes /\ B \in SUBSET Nodes /\ InitActive \in SUBSET Nodes
    BY NodesAssumption DEF Holders
  <2>4. ActiveWeight(A) \in Nat /\ ActiveWeight(B) \in Nat /\ total \in Nat
    <3> HIDE DEF A, B
    <3> QED  BY <2>3, WeightType
  <2>5. 2 * needed > 1000 * total
    <3> DEFINE F == FINALITY_CONFIDENCE_MILLI
    <3>1. F \in Nat /\ F >= 501
      BY BoundsAssumption
    <3> HIDE DEF total, F
    <3>2. F * total >= 501 * total
      BY <2>4, <3>1
    <3> QED  BY <2>2, <2>4, <3>1, <3>2 DEF F
  <2>6. ActiveWeight(A) + ActiveWeight(B) > total
    <3> DEFINE x == ActiveWeight(A)
               y == ActiveWeight(B)
    <3>1. /\ x \in Nat /\ y \in Nat /\ total \in Nat /\ needed \in Nat
          /\ 1000 * x >= needed /\ 1000 * y >= needed /\ 2 * needed > 1000 * total
      <4>1. needed \in Nat
        BY <2>4, BoundsAssumption
      <4> QED  BY <2>2, <2>4, <2>5, <4>1
    <3>2. x + y > total
      <4> HIDE DEF x, y, total, needed
      <4> QED  BY <3>1
    <3> QED  BY <3>2
  <2>7. A \cap B # {}
    <3> HIDE DEF A, B
    <3> QED  BY <2>3, <2>6, MajoritiesMeet
  <2>8. PICK r \in InitActive : u \in Ancestors[disk[r].tip] /\ w \in Ancestors[disk[r].tip]
    BY <2>7 DEF Holders
  <2>9. disk[r].tip \in BlockIds
    BY <2>3, TipsKnown DEF SafeInv
  <2>10. OnOneChain(u, w)
    BY <2>8, <2>9 DEF SafeInv, Lines
  <2> QED  BY <2>10 DEF u, w
<1> DEFINE Majority == FINALITY_CONFIDENCE_MILLI > 500
<1>2. Majority /\ [Next]_vars => Majority'
  OBVIOUS
<1>3. SafeInv /\ FinalInv /\ Majority => FinalizedOnOneChain
  BY <1>1
<1>4. Spec /\ StillActive /\ FINALITY_CONFIDENCE_MILLI > 500 => Spec /\ StillActive /\ Majority
  OBVIOUS
<1> HIDE DEF Majority
<1> QED  BY <1>2, <1>3, <1>4, InvariantWhileStill, PTL DEF Spec

-----------------------------------------------------------------------------
(* Agreement. *)

(* The number of a refiner's attestations in a block. *)
LEMMA CountType ==
  ASSUME NEW block \in Block, NEW r
  PROVE  Cardinality(AttestedBy(block, r)) \in Nat
<1>1. DOMAIN block.attestations = 1 .. Len(block.attestations)
      /\ Len(block.attestations) \in Nat
  BY BlockFields
<1>2. IsFiniteSet(DOMAIN block.attestations)
  BY <1>1, FS_Interval
<1>3. AttestedBy(block, r) \in SUBSET DOMAIN block.attestations
  BY DEF AttestedBy
<1> QED  BY <1>2, <1>3, FS_Subset, FS_CardinalityType

LEMMA AncestorsFinite ==
  ASSUME SafeInv, NEW b \in BlockIds
  PROVE  IsFiniteSet(BlockIds) /\ IsFiniteSet(Ancestors[b])
<1>1. IsFiniteSet(BlockIds)
  BY BlockIdsNat, FS_Interval DEF SafeInv
<1> QED  BY <1>1, AncestorsClosed, FS_Subset DEF SafeInv

(* The counters of old blocks stay. *)
LEMMA CorrectKept ==
  ASSUME SafeInv, Kept, NEW b \in BlockIds
  PROVE  CorrectAt(b)' = CorrectAt(b) /\ RootAt(b)' = RootAt(b)
<1>1. ASSUME NEW r \in Nodes
      PROVE  SumFunctionOnSet([a \in BlockIds' |-> Cardinality(AttestedBy(blocks'[a], r))],
                              Ancestors'[b])
             = SumFunctionOnSet([a \in BlockIds |-> Cardinality(AttestedBy(blocks[a], r))],
                                Ancestors[b])
  <2> DEFINE f == [a \in BlockIds |-> Cardinality(AttestedBy(blocks[a], r))]
             g == [a \in BlockIds' |-> Cardinality(AttestedBy(blocks'[a], r))]
             A == Ancestors[b]
  <2>1. IsFiniteSet(A) /\ A \subseteq BlockIds /\ Ancestors'[b] = A
    BY AncestorsFinite, AncestorsClosed DEF SafeInv, Kept
  <2>2. \A a \in A : f[a] \in Int /\ g[a] = f[a]
    <3> SUFFICES ASSUME NEW a \in A PROVE f[a] \in Int /\ g[a] = f[a]
      OBVIOUS
    <3>1. a \in BlockIds /\ a \in BlockIds' /\ blocks'[a] = blocks[a]
      BY <2>1 DEF Kept
    <3>2. blocks[a] \in Block
      BY <3>1, BlockType DEF SafeInv
    <3>3. Cardinality(AttestedBy(blocks[a], r)) \in Nat
      BY <3>2, CountType
    <3> QED  BY <3>1, <3>3
  <2>3. SumFunctionOnSet(g, A) = SumFunctionOnSet(f, A)
    <3> HIDE DEF f, g, A
    <3> QED  BY <2>1, <2>2, SumEqual
  <2> QED  BY <2>1, <2>3
<1>2. CorrectAt(b)' = CorrectAt(b)
  BY <1>1 DEF CorrectAt, AttestedBy
<1> QED  BY <1>2 DEF RootAt

(* A block adds its attestations to the counters of its parent. *)
CountsAdd ==
  \A b \in BlockIds \ {Common} :
    CorrectAt(b) = [r \in Nodes |-> CorrectAt(blocks[b].parent)[r]
                                       + Cardinality(AttestedBy(blocks[b], r))]

LEMMA CorrectStep == SafeInv => CountsAdd
<1> SUFFICES ASSUME SafeInv, NEW b \in BlockIds \ {Common}
             PROVE  CorrectAt(b) = [r \in Nodes |-> CorrectAt(blocks[b].parent)[r]
                                         + Cardinality(AttestedBy(blocks[b], r))]
  BY DEF CountsAdd
<1> DEFINE p == blocks[b].parent
<1>0. Types /\ Tree /\ Lines
  BY DEF SafeInv
<1>1. p \in BlockIds /\ Height(b) = Height(p) + 1
  BY <1>0 DEF Tree, Grows, Height
<1>2. Ancestors[b] = {b} \cup Ancestors[p] /\ Ancestors[p] \in SUBSET BlockIds
  BY <1>0, <1>1, AncestorsStep, AncestorsClosed
<1>3. b \notin Ancestors[p]
  <2>1. Height(p) \in Nat
    BY <1>0, <1>1, BlockType, BlockFields DEF Height
  <2> HIDE DEF p
  <2> QED  BY <1>0, <1>1, <2>1 DEF Lines
<1> HIDE DEF p
<1>4. ASSUME NEW r \in Nodes
      PROVE  CorrectAt(b)[r] = CorrectAt(p)[r] + Cardinality(AttestedBy(blocks[b], r))
  <2> DEFINE f == [a \in BlockIds |-> Cardinality(AttestedBy(blocks[a], r))]
  <2>1. \A a \in BlockIds : f[a] \in Int
    BY <1>0, BlockType, CountType
  <2>2. CorrectAt(b)[r] = SumFunctionOnSet(f, Ancestors[b])
        /\ CorrectAt(p)[r] = SumFunctionOnSet(f, Ancestors[p])
        /\ f[b] = Cardinality(AttestedBy(blocks[b], r))
    BY DEF CorrectAt
  <2> HIDE DEF f
  <2>3. IsFiniteSet(BlockIds)
    BY AncestorsFinite
  <2>4. /\ SumFunctionOnSet(f, Ancestors[p] \cup {b}) = f[b] + SumFunctionOnSet(f, Ancestors[p])
        /\ SumFunctionOnSet(f, Ancestors[p]) \in Int
    BY <1>2, <1>3, <2>1, <2>3, SumInsert
  <2>5. Ancestors[b] = Ancestors[p] \cup {b}
    BY <1>2
  <2> QED  BY <2>1, <2>2, <2>4, <2>5
<1>5. CorrectAt(b) = [r \in Nodes |-> CorrectAt(b)[r]]
  BY DEF CorrectAt
<1> QED  BY <1>4, <1>5 DEF p

LEMMA CorrectCommon ==
  ASSUME SafeInv
  PROVE  CorrectAt(Common) = [r \in Nodes |-> 0]
<1>0. Types /\ Tree
  BY DEF SafeInv
<1>1. ASSUME NEW r \in Nodes PROVE CorrectAt(Common)[r] = 0
  <2> DEFINE f == [a \in BlockIds |-> Cardinality(AttestedBy(blocks[a], r))]
  <2>1. AttestedBy(blocks[Common], r) = {}
    BY <1>0 DEF AttestedBy, Tree
  <2>2. f[Common] = 0
    BY <1>0, <2>1, FS_EmptySet DEF Tree
  <2>3. CorrectAt(Common)[r] = SumFunctionOnSet(f, {Common})
    BY <1>0, AncestorsCommon DEF CorrectAt
  <2> HIDE DEF f
  <2>4. \A a \in {Common} : f[a] = 0
    BY <2>2
  <2>5. IsFiniteSet({Common})
    BY FS_Singleton
  <2> QED  BY <2>3, <2>4, <2>5, SumZero
<1>2. CorrectAt(Common) = [r \in Nodes |-> CorrectAt(Common)[r]]
  BY DEF CorrectAt
<1> QED  BY <1>1, <1>2

LEMMA CountableKept ==
  ASSUME SafeInv, Kept, NEW v, NEW t \in BlockIds, Countable(v, t),
         NEW s, Ancestors[t] \subseteq Ancestors'[s]
  PROVE  Countable(v, s)' /\ v.block \in BlockIds /\ Height(v.block)' = Height(v.block)
<1>1. v.block \in Ancestors[t] /\ v.block \in BlockIds
  BY AncestorsClosed DEF SafeInv, Countable
<1>2. blocks'[v.block] = blocks[v.block]
  BY <1>1 DEF Kept
<1> QED  BY <1>1, <1>2 DEF Countable, IsRefined, Height

LEMMA AppliesKept ==
  ASSUME SafeInv, Kept, NEW block, block.parent \in BlockIds, Applies(block)
  PROVE  Applies(block)'
<1> DEFINE p == block.parent
<1>1. PICK q : q = p
  OBVIOUS
<1>2. q \in BlockIds /\ Ancestors[q] \subseteq Ancestors'[q] /\ blocks'[q] = blocks[q]
  BY <1>1 DEF Kept
<1>3. block.root = RootAt(q)'
  BY <1>1, <1>2, CorrectKept DEF Applies
<1>4. block.kind = "Refined" => block.producer = blocks'[q].selected
  BY <1>1, <1>2 DEF Applies
<1>5. ASSUME NEW i \in DOMAIN block.attestations, NEW v, v = block.attestations[i]
      PROVE  Countable(v, q)' /\ Height(v.block)' = Height(v.block)
  <2>1. Countable(v, q)
    BY <1>1, <1>5 DEF Applies
  <2> QED  BY <1>2, <2>1, CountableKept
<1>6. ASSUME NEW i \in DOMAIN block.attestations, NEW j \in DOMAIN block.attestations,
             NEW v, v = block.attestations[i], NEW w, w = block.attestations[j],
             Alike(v, w)'
      PROVE  i = j
  <2>1. Alike(v, w)
    BY <1>5, <1>6 DEF Alike
  <2> QED  BY <1>6, <2>1 DEF Applies
<1> QED  BY <1>1, <1>3, <1>4, <1>5, <1>6 DEF Applies, RootAt, CorrectAt, Countable, Alike

(* Every node at its parent accepts a block that applies. *)
LEMMA AppliesAccepts ==
  ASSUME SafeInv, ActiveSame, SteadyInv, NEW n \in Nodes, NEW block \in Block,
         Grows(block), Applies(block), block.parent = Tip(n), block.producer \in Nodes
  PROVE  Accepts(n, block)
<1>0. Types /\ Tree /\ Lines
  BY DEF SafeInv
<1>1. StateGood(n) /\ OnChainKeys = Nodes
  BY DEF SteadyInv, Steady
<1>2. Extends(n, block)
  BY <1>1 DEF Extends, Applies, StateGood
<1>3. ProducerValid(n, block)
  BY <1>1 DEF ProducerValid, KeyedAccounts, Applies
<1>4. Active(n) = InitActive
  BY ActiveIs
<1>5. Tip(n) \in BlockIds
  BY DEF Tip, SafeInv, Stores
<1>6. ASSUME NEW i \in DOMAIN block.attestations PROVE AttestationValid(n, block, i)
  <2> DEFINE v == block.attestations[i]
  <2>1. v.block \in Ancestors[Tip(n)] /\ IsRefined(v.block) /\ v.refiner \in InitActive
    BY DEF Applies, Countable
  <2>2. v.block \in BlockIds /\ v.block # 0
    <3>1. v.block \in BlockIds
      BY <1>0, <1>5, <2>1, AncestorsClosed
    <3> QED  BY <1>0, <3>1, BlockIdsNat
  <2>3. stored[n][Height(v.block)] = v.block
    BY <1>1, <2>1 DEF StateGood
  <2>4. Height(v.block) < block.height
    <3>1. block.height = Height(Tip(n)) + 1
      BY DEF Grows
    <3>2. Height(Tip(n)) \in Nat /\ Height(v.block) \in Nat
      BY <1>0, <1>5, <2>2, BlockType, BlockFields DEF Height
    <3>3. v.block = Tip(n) \/ Height(v.block) < Height(Tip(n))
      BY <1>0, <1>5, <2>1 DEF Lines
    <3> HIDE DEF v
    <3> QED  BY <3>1, <3>2, <3>3
  <2>5. DOMAIN block.attestations = 1 .. Len(block.attestations)
        /\ Len(block.attestations) \in Nat
    BY BlockFields
  <2>6. ASSUME NEW j \in 1 .. (i - 1)
        PROVE  ~(/\ block.attestations[j].refiner = v.refiner
                 /\ Height(block.attestations[j].block) = Height(v.block))
    <3>1. j \in DOMAIN block.attestations /\ j # i
      BY <2>5
    <3> QED  BY <3>1 DEF Applies, Alike
  <2> QED  BY <1>4, <2>1, <2>2, <2>3, <2>4, <2>6 DEF AttestationValid
<1>7. AllRecorded(n, block)
  <2>1. DOMAIN block.attestations = 1 .. Len(block.attestations)
        /\ Len(block.attestations) \in Nat
    BY BlockFields
  <2>2. \A i \in DOMAIN block.attestations : \A j \in 1 .. i :
          j \in DOMAIN block.attestations
    BY <2>1
  <2> QED  BY <1>6, <2>2 DEF AllRecorded, Recorded
<1> QED  BY <1>2, <1>3, <1>7 DEF Accepts

(* So a block of an honest producer that is refused does not extend the    *)
(* tip, and leaves no trace.                                               *)
LEMMA RefusedUntouched ==
  ASSUME SafeInv, ActiveSame, SteadyInv, NEW n \in Nodes, NEW block \in Block,
         Grows(block), Applies(block), block.producer \in Nodes, RejectBlock(n, block)
  PROVE  UNCHANGED <<mem, disk, stored, failures>>
<1>1. ~Extends(n, block)
  BY AppliesAccepts DEF RejectBlock, Extends
<1>2. mem' = [mem EXCEPT ![n] = mem[n]]
  BY <1>1 DEF RejectBlock, AfterRejection
<1> QED  BY <1>2, SafeFrame DEF RejectBlock

(* Steps that leave blocks, states and stores alone. *)
LEMMA SteadyFrame ==
  ASSUME SafeInv, SteadyInv, UNCHANGED <<blocks, mem, disk, stored, failures>>,
         \A c \in candidates' : Applies(c),
         \A n \in Nodes : \A v \in pending'[n] :
           /\ Countable(v, Tip(n))
           /\ \A w \in pending'[n] : Alike(v, w) => v = w
  PROVE  SteadyInv'
<1>1. Ancestors' = Ancestors /\ BlockIds' = BlockIds /\ Steady'
  BY SameBlocksKept DEF SteadyInv, Steady, StillActive
<1>2. \A b : CorrectAt(b)' = CorrectAt(b)
  BY <1>1 DEF CorrectAt, AttestedBy
<1>3. \A b : RootAt(b)' = RootAt(b)
  BY <1>2 DEF RootAt
<1>4. \A c : Applies(c)' <=> Applies(c)
  BY <1>1, <1>3 DEF Applies, Countable, IsRefined, Alike, Height
<1>5. \A b \in BlockIds \ {Common} : Applies(blocks[b])
  BY DEF SteadyInv
<1>6. \A n \in Nodes : PendingGood(n)'
  BY <1>1 DEF PendingGood, Countable, IsRefined, Alike, Height, Tip
<1>7. \A n \in Nodes : StateGood(n)'
  BY <1>1, <1>2, <1>3 DEF SteadyInv, StateGood, Height, Tip
<1> QED  BY <1>1, <1>4, <1>5, <1>6, <1>7 DEF SteadyInv

(* The state of the node that applies block as b. *)
LEMMA AfterGood ==
  ASSUME SafeInv, SafeInv', SteadyInv, Kept, NEW n \in Nodes, NEW block \in Block,
         NEW b \in BlockIds' \ {Common}, ToSet(block.attestations) \subseteq votes,
         blocks'[b] = block, Grows(block), Accepts(n, block)
  PROVE  /\ After(n, block, b).correct = CorrectAt(b)'
         /\ After(n, block, b).root = RootAt(b)'
<1> DEFINE final == AfterFinality(n, block)
           state == After(n, block, b)
<1>0. Types /\ Tree /\ Stores /\ VotesKept /\ OnChainKeys = Nodes /\ StateGood(n)
  BY DEF SafeInv, SteadyInv, Steady
<1>1. b \in Nat
  <2>1. Types'
    BY DEF SafeInv
  <2>2. BlockIds' = 1 .. Len(blocks') /\ Len(blocks') \in Nat
    BY <2>1 DEF Types, BlockIds
  <2> QED  BY <2>2
<1>2. /\ state.correct = AfterLoop(n, block).correct
      /\ state.root = StateRoot(n, state.correct)
  BY <1>0, <1>1, AcceptedFacts, FinalityFacts
<1>3. Recorded(n, block) = DOMAIN block.attestations /\ block.parent = Tip(n)
  BY DEF Accepts, AllRecorded, Extends
<1>4. AfterLoop(n, block).correct = [r \in Nodes |-> mem[n].correct[r]
                  + Cardinality({i \in Recorded(n, block) : block.attestations[i].refiner = r})]
  BY <1>0, LoopFacts
<1>5. AfterLoop(n, block).correct = [r \in Nodes |-> mem[n].correct[r]
                  + Cardinality(AttestedBy(block, r))]
  BY <1>3, <1>4 DEF AttestedBy
<1>6. PICK q : q = block.parent
  OBVIOUS
<1>7. q \in BlockIds /\ mem[n].correct = CorrectAt(q)
  BY <1>0, <1>3, <1>6 DEF StateGood, Grows
<1>8. CorrectAt(q)' = CorrectAt(q)
  BY <1>7, CorrectKept
<1>9. CorrectAt(b)' = [r \in Nodes |-> CorrectAt(q)'[r] + Cardinality(AttestedBy(block, r))]
  <2>1. CountsAdd'
    BY CorrectStep, PTL
  <2>2. CorrectAt(b)' = [r \in Nodes |-> CorrectAt(blocks[b].parent)'[r]
                                         + Cardinality(AttestedBy(blocks[b], r)')]
    BY <2>1 DEF CountsAdd
  <2> QED  BY <1>6, <2>2 DEF CorrectAt, AttestedBy
<1>10. state.correct = CorrectAt(b)'
  BY <1>2, <1>5, <1>7, <1>8, <1>9
<1>11. StateRoot(n, state.correct) = [correct |-> CorrectAt(b)', accounts |-> Nodes]
  BY <1>0, <1>10 DEF StateRoot, KeyedAccounts
<1> QED  BY <1>2, <1>10, <1>11 DEF RootAt

(* What is pending at a node whose tip stays or moves on stays good. *)
LEMMA PendingKept ==
  ASSUME SafeInv, Kept, NEW n \in Nodes, PendingGood(n), NEW t, t = mem'[n].tip,
         Ancestors[Tip(n)] \subseteq Ancestors'[t], pending'[n] \subseteq pending[n]
  PROVE  PendingGood(n)'
<1>1. Tip(n) \in BlockIds
  BY DEF SafeInv, Stores, Tip
<1>2. PICK s : s = Tip(n)
  OBVIOUS
<1>3. ASSUME NEW v \in pending'[n]
      PROVE  Countable(v, t)' /\ Height(v.block)' = Height(v.block)
  <2>1. Countable(v, s)
    BY <1>2 DEF PendingGood
  <2> QED  BY <1>1, <1>2, <2>1, CountableKept
<1>4. ASSUME NEW v \in pending'[n], NEW w \in pending'[n], Alike(v, w)'
      PROVE  v = w
  <2>1. Alike(v, w)
    BY <1>3, <1>4 DEF Alike
  <2> QED  BY <2>1 DEF PendingGood
<1> QED  BY <1>3, <1>4 DEF PendingGood, Countable, Tip

(* A step that applies block as b. *)
LEMMA SteadyAccept ==
  ASSUME SafeInv, SafeInv', SteadyInv, Kept, NEW n \in Nodes, NEW block \in Block,
         NEW b \in BlockIds' \ {Common}, ToSet(block.attestations) \subseteq votes,
         blocks'[b] = block, BlockIds' \subseteq BlockIds \cup {b},
         Ancestors'[b] = {b} \cup Ancestors[block.parent],
         Grows(block), Applies(block), AcceptBlock(n, block, b), failures' = 0,
         candidates' \subseteq candidates, pending' = pending
  PROVE  SteadyInv'
<1>0. /\ Types /\ Tree /\ Lines /\ Stores /\ VotesKept
      /\ Steady /\ failures = 0 /\ mem = disk
      /\ \A r \in Nodes : StateGood(r) /\ PendingGood(r)
  BY DEF SafeInv, SteadyInv
<1> DEFINE state == After(n, block, b)
<1>1. /\ Accepts(n, block) /\ mem' = [mem EXCEPT ![n] = state] /\ disk' = mem'
      /\ stored' = [stored EXCEPT ![n][block.height] = b] /\ failures' = 0
  BY <1>0, AcceptSteps DEF Steady
<1>2. state.correct = CorrectAt(b)' /\ state.root = RootAt(b)'
  BY <1>1, AfterGood
<1>3. state.tip = b
  <2>1. Types'
    BY DEF SafeInv
  <2>2. b \in Nat
    BY <2>1 DEF Types, BlockIds
  <2> QED  BY <1>0, <2>2, AcceptedFacts
<1> HIDE DEF state
<1>4. mem'[n] = state /\ \A r \in Nodes \ {n} : mem'[r] = mem[r] /\ stored'[r] = stored[r]
  BY <1>0, <1>1 DEF Types
<1>5. block.parent = Tip(n) /\ Tip(n) \in BlockIds
      /\ block.height = Height(Tip(n)) + 1
  BY <1>0, <1>1 DEF Accepts, Extends, Grows, Stores, Tip
<1>6. /\ block.height \in 0 .. MaxBlocks
      /\ \A a \in BlockIds : Height(a) \in Nat
  <2>1. Tree' /\ Types'
    BY DEF SafeInv
  <2>2. blocks'[b].height <= MaxBlocks
    BY <2>1 DEF Tree, Height
  <2>3. \A a \in BlockIds : Height(a) \in Nat
    BY <1>0, BlockType, BlockFields DEF Height
  <2> QED  BY <1>5, <2>2, <2>3, BoundsAssumption
<1>7. stored'[n] = [stored[n] EXCEPT ![block.height] = b]
  BY <1>0, <1>1 DEF Types
<1>8. ASSUME NEW r \in Nodes PROVE StateGood(r)' /\ PendingGood(r)'
  <2>1. PICK s : s = Tip(r)
    OBVIOUS
  <2>2. s \in BlockIds /\ StateGood(r) /\ Ancestors[s] \subseteq BlockIds
    BY <1>0, <2>1, AncestorsClosed DEF Stores, Tip
  <2>3. CASE r # n
    <3>1. mem'[r] = mem[r] /\ stored'[r] = stored[r] /\ mem'[r].tip = s
      BY <1>4, <2>1, <2>3 DEF Tip
    <3>2. CorrectAt(s)' = CorrectAt(s) /\ RootAt(s)' = RootAt(s)
          /\ Ancestors'[s] = Ancestors[s]
      BY <2>2, CorrectKept DEF Kept
    <3>3. \A a \in Ancestors'[s] : stored'[r][blocks'[a].height] = a
      BY <2>1, <2>2, <3>1, <3>2 DEF StateGood, Kept, Height
    <3>4. mem'[r].correct = CorrectAt(s)' /\ mem'[r].root = RootAt(s)'
      BY <2>1, <2>2, <3>1, <3>2 DEF StateGood
    <3>5. StateGood(r)'
      BY <3>1, <3>3, <3>4 DEF StateGood, Tip, Height, RootAt, CorrectAt
    <3>6. PendingGood(r)'
      <4>1. Ancestors[Tip(r)] \subseteq Ancestors'[s]
        BY <2>1, <3>2
      <4> QED  BY <1>0, <3>1, <4>1, PendingKept
    <3> QED  BY <3>5, <3>6
  <2>4. CASE r = n
    <3>1. mem'[r].tip = b
      BY <1>3, <1>4, <2>4
    <3>2. ASSUME NEW a \in Ancestors'[b] PROVE stored'[n][blocks'[a].height] = a
      <4>1. CASE a = b
        BY <1>0, <1>6, <1>7, <4>1 DEF Types
      <4>2. CASE a # b
        <5>1. a \in Ancestors[s] /\ a \in BlockIds
          BY <1>5, <2>1, <2>2, <2>4, <3>2, <4>2
        <5>2. Height(a) <= Height(s)
          BY <1>0, <1>6, <2>2, <5>1 DEF Lines
        <5>3. Height(a) # block.height
          BY <1>5, <1>6, <2>1, <2>2, <2>4, <5>1, <5>2
        <5>4. stored[n][Height(a)] = a
          BY <2>1, <2>2, <2>4, <5>1 DEF StateGood
        <5>5. blocks'[a].height = Height(a)
          BY <5>1 DEF Kept, Height
        <5>6. Height(a) \in 0 .. MaxBlocks
          BY <1>0, <1>6, <5>1, BoundsAssumption DEF Tree
        <5> QED  BY <1>0, <1>7, <5>3, <5>4, <5>5, <5>6 DEF Types
      <4> QED  BY <4>1, <4>2
    <3>3. StateGood(r)'
      <4>1. mem'[r].correct = CorrectAt(b)' /\ mem'[r].root = RootAt(b)'
        BY <1>2, <1>4, <2>4
      <4>2. \A a \in Ancestors'[b] : stored'[r][blocks'[a].height] = a
        BY <2>4, <3>2
      <4> QED  BY <3>1, <4>1, <4>2 DEF StateGood, Tip, Height, RootAt, CorrectAt
    <3>4. PendingGood(r)'
      <4>1. Ancestors[Tip(r)] \subseteq Ancestors'[b]
        BY <1>5, <2>4
      <4> QED  BY <1>0, <3>1, <4>1, PendingKept
    <3> QED  BY <3>3, <3>4
  <2> QED  BY <2>3, <2>4
<1>9. ASSUME NEW c \in candidates' PROVE Applies(c)'
  <2>1. c \in candidates
    OBVIOUS
  <2>2. c.parent \in BlockIds /\ Applies(c)
    BY <2>1, SafeFrame DEF Grows, SteadyInv
  <2> QED  BY <2>2, AppliesKept
<1>10. ASSUME NEW a \in BlockIds' \ {Common}, NEW d, d = blocks'[a] PROVE Applies(d)'
  <2>1. CASE a = b
    BY <1>10, <2>1, AppliesKept DEF Grows
  <2>2. CASE a # b
    <3>1. a \in BlockIds \ {Common} /\ d = blocks[a]
      BY <1>10, <2>2 DEF Kept
    <3>2. Applies(d) /\ d.parent \in BlockIds
      BY <1>0, <3>1 DEF SteadyInv, Tree, Grows
    <3> QED  BY <3>2, AppliesKept
  <2> QED  BY <2>1, <2>2
<1>11. \A a \in BlockIds' \ {Common} : Applies(blocks[a])'
  BY <1>10
<1>12. Steady'
  BY <1>0 DEF Steady, StillActive
<1> QED  BY <1>1, <1>8, <1>9, <1>11, <1>12 DEF SteadyInv

LEMMA SubmitSteady ==
  ASSUME SafeInv, SafeInv', SteadyInv, NEW c \in candidates, SubmitCandidate(c),
         failures' = 0
  PROVE  SteadyInv'
<1> DEFINE b == Len(blocks) + 1
<1>0. Types /\ Tree /\ Applies(c)
  BY DEF SafeInv, SteadyInv
<1>1. c \in Block /\ Grows(c) /\ c.producer \in Nodes /\ ToSet(c.attestations) \subseteq votes
  BY SafeFrame
<1>2. /\ blocks' = Append(blocks, c) /\ AcceptBlock(c.producer, c, b)
      /\ candidates' \subseteq candidates /\ pending' = pending
  BY DEF SubmitCandidate
<1>3. /\ Kept /\ BlockIds' = BlockIds \cup {b} /\ b \notin BlockIds /\ blocks'[b] = c
      /\ Ancestors'[b] = {b} \cup Ancestors[c.parent]
  BY <1>0, <1>1, <1>2, AppendKept
<1>4. b # Common
  BY <1>0, <1>3 DEF Tree
<1> HIDE DEF b
<1> QED  BY <1>0, <1>1, <1>2, <1>3, <1>4, SteadyAccept

(* A block that a node takes from a peer is not the common one. *)
LEMMA PeerBlockFacts ==
  ASSUME SafeInv, SteadyInv, NEW n \in Nodes, NEW b \in BlockIds,
         Height(b) > Height(Tip(n))
  PROVE  /\ b # Common /\ blocks[b] \in Block /\ Grows(blocks[b])
         /\ blocks[b].producer \in Nodes /\ Applies(blocks[b])
         /\ ToSet(blocks[b].attestations) \subseteq votes
         /\ Ancestors[b] = {b} \cup Ancestors[blocks[b].parent]
<1>0. Types /\ Tree /\ Stores /\ Sent
  BY DEF SafeInv
<1>1. b # Common
  <2>1. Tip(n) \in BlockIds
    BY <1>0 DEF Stores, Tip
  <2>2. Height(Tip(n)) \in Nat /\ Height(Common) = 0
    BY <1>0, <2>1, BlockType, BlockFields DEF Height, Tree
  <2> QED  BY <2>2
<1> QED  BY <1>0, <1>1, BlockType, AncestorsStep DEF Tree, Sent, SteadyInv

LEMMA PeerBlockSteady ==
  ASSUME SafeInv, SafeInv', SteadyInv, NEW n \in Nodes, NEW b \in BlockIds,
         Height(b) > Height(Tip(n)), AcceptBlock(n, blocks[b], b), failures' = 0,
         UNCHANGED <<blocks, candidates, pending>>
  PROVE  SteadyInv'
<1>1. PICK block \in Block : block = blocks[b]
  BY PeerBlockFacts
<1>2. /\ b # Common /\ Grows(block) /\ Applies(block)
      /\ ToSet(block.attestations) \subseteq votes
      /\ Ancestors[b] = {b} \cup Ancestors[block.parent]
  BY <1>1, PeerBlockFacts
<1>3. Kept /\ BlockIds' = BlockIds /\ Ancestors' = Ancestors
  BY SameBlocksKept
<1>4. blocks'[b] = block /\ AcceptBlock(n, block, b)
  BY <1>1
<1> QED  BY <1>2, <1>3, <1>4, SteadyAccept

(* The candidate of an honest producer applies. *)
LEMMA BuildSteady ==
  ASSUME SafeInv, SteadyInv, NEW n \in Nodes, NEW kind \in {"Mined", "Refined"},
         Build(n, kind), kind = "Refined" => blocks[Tip(n)].selected = n
  PROVE  SteadyInv'
<1>0. StateGood(n) /\ PendingGood(n)
  BY DEF SteadyInv
<1>1. PICK c \in Block : Built(n, kind, c)
  BY BuildFacts
<1>2. \A i \in DOMAIN c.attestations : c.attestations[i] \in pending[n]
  BY <1>1 DEF Built, ToSet
<1>3. \A i \in DOMAIN c.attestations :
        /\ Countable(c.attestations[i], c.parent)
        /\ \A j \in DOMAIN c.attestations :
             Alike(c.attestations[i], c.attestations[j]) => i = j
  BY <1>0, <1>1, <1>2 DEF Built, PendingGood
<1>4. Applies(c)
  BY <1>0, <1>1, <1>3 DEF Built, Applies, StateGood
<1>5. \A d \in candidates' : Applies(d)
  BY <1>1, <1>4 DEF Built, SteadyInv
<1>6. \A r \in Nodes : pending'[r] \subseteq pending[r]
  BY <1>1, SafeFrame DEF Built, Live
<1>7. \A r \in Nodes : \A v \in pending'[r] :
           /\ Countable(v, Tip(r))
           /\ \A w \in pending'[r] : Alike(v, w) => v = w
  BY <1>6 DEF SteadyInv, PendingGood
<1>8. UNCHANGED <<blocks, mem, disk, stored, failures>>
  BY DEF Build
<1> QED  BY <1>5, <1>7, <1>8, SteadyFrame

LEMMA RestartSteady ==
  ASSUME SafeInv, SteadyInv, NEW n \in Nodes, Restart(n)
  PROVE  SteadyInv'
<1>1. mem' = [mem EXCEPT ![n] = mem[n]] /\ pending' = [pending EXCEPT ![n] = {}]
      /\ candidates' \subseteq candidates /\ UNCHANGED <<blocks, disk, stored, failures>>
  BY DEF Restart, SteadyInv
<1>2. mem' = mem
  BY <1>1, SafeFrame
<1>3. \A r \in Nodes : pending'[r] \subseteq pending[r]
  BY <1>1, SafeFrame
<1>4. \A r \in Nodes : \A v \in pending'[r] :
           /\ Countable(v, Tip(r))
           /\ \A w \in pending'[r] : Alike(v, w) => v = w
  BY <1>3 DEF SteadyInv, PendingGood
<1>5. \A c \in candidates' : Applies(c)
  BY <1>1 DEF SteadyInv
<1> QED  BY <1>1, <1>2, <1>4, <1>5, SteadyFrame

(* What a node accepts it can count, and it keeps one attestation of a     *)
(* refiner at a height.                                                    *)
LEMMA PendingSteady ==
  ASSUME SafeInv, ActiveSame, SteadyInv, NEW n \in Nodes, NEW v \in Attestation,
         v.block \in BlockIds, Acceptable(n, v),
         pending' = [pending EXCEPT ![n] = PendingWith(n, v)],
         UNCHANGED <<blocks, mem, disk, stored, failures, candidates>>
  PROVE  SteadyInv'
<1>0. PendingGood(n) /\ mem = disk
  BY DEF SteadyInv
<1>1. Countable(v, Tip(n))
  <2>1. Height(v.block) \in 0 .. MaxBlocks
    BY BlockType, BlockFields, BoundsAssumption DEF SafeInv, Tree, Height
  <2>2. v.block \in Ancestors[disk[n].tip]
    BY <2>1 DEF Acceptable, SafeInv, Stores
  <2>3. v.refiner \in InitActive /\ IsRefined(v.block)
    BY ActiveIs DEF Acceptable
  <2> QED  BY <1>0, <2>2, <2>3 DEF Countable, Tip
<1> DEFINE K == {w \in pending[n] : Height(w.block) >= EpochBefore(Height(Tip(n)))}
<1>2. \/ PendingWith(n, v) = K
      \/ /\ PendingWith(n, v) = K \cup {v}
         /\ \A w \in K : ~(w.refiner = v.refiner /\ Height(w.block) = Height(v.block))
  BY DEF PendingWith
<1>3. K \subseteq pending[n]
  OBVIOUS
<1> HIDE DEF K
<1>4. \A u \in PendingWith(n, v) :
           /\ Countable(u, Tip(n))
           /\ \A w \in PendingWith(n, v) : Alike(u, w) => u = w
  <2>1. CASE PendingWith(n, v) = K
    BY <1>0, <1>3, <2>1 DEF PendingGood
  <2>2. CASE /\ PendingWith(n, v) = K \cup {v}
             /\ \A w \in K : ~(w.refiner = v.refiner /\ Height(w.block) = Height(v.block))
    BY <1>0, <1>1, <1>3, <2>2 DEF PendingGood, Alike
  <2> QED  BY <1>2, <2>1, <2>2
<1>5. \A r \in Nodes : \A u \in pending'[r] :
           /\ Countable(u, Tip(r))
           /\ \A w \in pending'[r] : Alike(u, w) => u = w
  <2>1. pending'[n] = PendingWith(n, v) /\ \A r \in Nodes \ {n} : pending'[r] = pending[r]
    BY SafeFrame
  <2> QED  BY <1>4, <2>1 DEF SteadyInv, PendingGood
<1>6. \A c \in candidates' : Applies(c)
  BY DEF SteadyInv
<1> QED  BY <1>5, <1>6, SteadyFrame

LEMMA AttestSteady ==
  ASSUME SafeInv, ActiveSame, SteadyInv, NEW n \in Nodes, NEW b \in BlockIds,
         AttestBlock(n, b)
  PROVE  SteadyInv'
<1> DEFINE v == [refiner |-> n, block |-> b]
<1>1. /\ pending' = IF Acceptable(n, v) THEN [pending EXCEPT ![n] = PendingWith(n, v)]
                    ELSE pending
      /\ UNCHANGED <<blocks, candidates, mem, disk, stored, failures>>
  BY DEF AttestBlock
<1>2. b \in Nat
  BY BlockIdsNat DEF SafeInv
<1>3. v \in Attestation /\ v.block = b
  BY <1>2 DEF Attestation
<1> HIDE DEF v
<1>4. CASE Acceptable(n, v)
  BY <1>1, <1>3, <1>4, PendingSteady
<1>5. CASE ~Acceptable(n, v)
  BY <1>1, <1>5, SteadyFrame DEF SteadyInv, PendingGood
<1> QED  BY <1>4, <1>5

LEMMA InitSteady == Init /\ Steady => SteadyInv
<1> SUFFICES ASSUME Init, Steady PROVE SteadyInv
  OBVIOUS
<1>0. SafeInv
  BY InitSafe
<1>1. BlockIds = {Common}
  BY DEF Init, BlockIds, Common
<1>2. Ancestors[Common] = {Common} /\ Height(Common) = 0
  BY <1>0, AncestorsCommon DEF SafeInv, Tree
<1>3. CorrectAt(Common) = [r \in Nodes |-> 0]
  BY <1>0, CorrectCommon
<1>4. /\ InitState.tip = Common /\ InitState.correct = [r \in Nodes |-> 0]
      /\ InitState.root = [correct |-> [r \in Nodes |-> 0], accounts |-> Nodes]
  BY DEF InitState, Steady
<1>5. \A n \in Nodes : mem[n] = InitState /\ stored[n][0] = Common /\ pending[n] = {}
  BY BoundsAssumption DEF Init
<1>6. \A n \in Nodes : StateGood(n) /\ PendingGood(n)
  BY <1>2, <1>3, <1>4, <1>5 DEF StateGood, PendingGood, Tip, RootAt
<1> QED  BY <1>1, <1>6 DEF Init, SteadyInv

LEMMA NextSteady ==
  ASSUME SafeInv, FinalInv, SteadyInv, [Next]_vars, failures' = 0
  PROVE  SteadyInv'
<1>0. SafeInv' /\ ActiveSame /\ Types
  BY NextSafe DEF FinalInv, SafeInv
<1>s. ASSUME UNCHANGED <<blocks, mem, disk, stored, failures, pending>>,
             candidates' \subseteq candidates
      PROVE  SteadyInv'
  BY <1>s, SteadyFrame DEF SteadyInv, PendingGood
<1>1. CASE \E n \in Nodes : BuildMined(n) \/ BuildRefined(n)
  <2>1. PICK n \in Nodes, kind \in {"Mined", "Refined"} :
          Build(n, kind) /\ (kind = "Refined" => blocks[Tip(n)].selected = n)
    BY <1>1 DEF BuildMined, BuildRefined
  <2> QED  BY <2>1, BuildSteady
<1>2. CASE \E n \in Nodes : Restart(n)
  BY <1>2, RestartSteady
<1>3. CASE \E n \in Nodes, b \in BlockIds : GossipBlock(n, b)
  BY <1>0, <1>3, PeerBlockSteady DEF GossipBlock
<1>4. CASE \E n \in Nodes, b \in BlockIds : SyncBlock(n, b)
  BY <1>0, <1>4, SyncHeight, PeerBlockSteady DEF SyncBlock
<1>5. CASE \E n \in Nodes, b \in BlockIds : PeerBlockFails(n, b)
  <2>1. PICK n \in Nodes, b \in BlockIds : PeerBlockFails(n, b)
    BY <1>5
  <2>2. /\ Height(b) > Height(Tip(n)) /\ RejectBlock(n, blocks[b])
        /\ UNCHANGED <<blocks, candidates, pending>>
    BY <2>1 DEF PeerBlockFails
  <2>3. PICK block \in Block : block = blocks[b]
    BY <2>2, PeerBlockFacts
  <2>4. /\ Grows(block) /\ Applies(block) /\ block.producer \in Nodes
        /\ RejectBlock(n, block)
    BY <2>2, <2>3, PeerBlockFacts
  <2>5. UNCHANGED <<mem, disk, stored, failures>>
    BY <1>0, <2>4, RefusedUntouched
  <2> QED  BY <1>s, <2>2, <2>5
<1>6. CASE \E n \in Nodes, b \in BlockIds : AttestBlock(n, b)
  BY <1>0, <1>6, AttestSteady
<1>7. CASE \E n \in Nodes, b \in BlockIds : DeclineAttestation(n, b)
  BY <1>7, <1>s DEF DeclineAttestation
<1>8. CASE \E n \in Nodes, v \in votes : GossipAttestation(n, v)
  <2>1. PICK n \in Nodes, v \in votes : GossipAttestation(n, v)
    BY <1>8
  <2>2. v \in Attestation /\ v.block \in BlockIds
    BY SafeFrame, SentBlocks DEF SafeInv
  <2>3. /\ Acceptable(n, v) /\ pending' = [pending EXCEPT ![n] = PendingWith(n, v)]
        /\ UNCHANGED <<blocks, mem, disk, stored, failures, candidates>>
    BY <2>1 DEF GossipAttestation
  <2> QED  BY <1>0, <2>2, <2>3, PendingSteady
<1>9. CASE \E c \in candidates : SubmitCandidate(c)
  BY <1>0, <1>9, SubmitSteady
<1>10. CASE \E c \in candidates : CandidateFails(c)
  <2>1. PICK c \in candidates : CandidateFails(c)
    BY <1>10
  <2>2. c \in Block /\ Grows(c) /\ c.producer \in Nodes /\ Applies(c)
    BY SafeFrame DEF SteadyInv
  <2>3. RejectBlock(c.producer, c) /\ candidates' \subseteq candidates
        /\ UNCHANGED <<blocks, pending>>
    BY <2>1 DEF CandidateFails
  <2>4. UNCHANGED <<mem, disk, stored, failures>>
    BY <1>0, <2>2, <2>3, RefusedUntouched
  <2> QED  BY <1>s, <2>3, <2>4
<1>11. CASE \E c \in candidates : MiningFails(c)
  BY <1>11, <1>s DEF MiningFails
<1>12. CASE UNCHANGED vars
  BY <1>12, <1>s DEF vars
<1> QED
  BY <1>1, <1>2, <1>3, <1>4, <1>5, <1>6, <1>7, <1>8, <1>9, <1>10, <1>11, <1>12 DEF Next

(* A write that has failed stays counted. *)
LEMMA FailuresStay ==
  ASSUME SafeInv, [Next]_vars, failures' = 0
  PROVE  failures = 0
<1>1. failures \in Nat
  BY DEF SafeInv, Types
<1>2. ASSUME NEW n, NEW block, NEW b, AcceptBlock(n, block, b)
      PROVE  failures' = failures \/ failures' = failures + 1
  BY <1>2 DEF AcceptBlock
<1>3. CASE \E n \in Nodes, b \in BlockIds : GossipBlock(n, b) \/ SyncBlock(n, b)
  BY <1>1, <1>2, <1>3 DEF GossipBlock, SyncBlock
<1>4. CASE \E c \in candidates : SubmitCandidate(c)
  BY <1>1, <1>2, <1>4 DEF SubmitCandidate
<1>5. CASE \E c \in candidates : CandidateFails(c) \/ MiningFails(c)
  BY <1>5 DEF CandidateFails, MiningFails, RejectBlock
<1>6. CASE \E n \in Nodes, b \in BlockIds :
             PeerBlockFails(n, b) \/ AttestBlock(n, b) \/ DeclineAttestation(n, b)
  BY <1>6 DEF PeerBlockFails, AttestBlock, DeclineAttestation, RejectBlock
<1>7. CASE \E n \in Nodes : \/ BuildMined(n) \/ BuildRefined(n) \/ Restart(n)
                            \/ \E v \in votes : GossipAttestation(n, v)
  BY <1>7 DEF BuildMined, BuildRefined, Build, Restart, GossipAttestation
<1>8. CASE UNCHANGED vars
  BY <1>8 DEF vars
<1> QED  BY <1>3, <1>4, <1>5, <1>6, <1>7, <1>8 DEF Next

(* The inductive invariant as long as no write has failed, while the       *)
(* active set stands still and every node's key is registered.             *)
SteadyUntilFailure == failures = 0 => SteadyInv

LEMMA InvariantWhileSteady ==
  Spec /\ Steady => [](SafeInv /\ FinalInv /\ SteadyUntilFailure)
<1>1. Init /\ Steady => SafeInv /\ FinalInv /\ SteadyUntilFailure
  BY InitSafe, InitFinal, InitSteady DEF Steady, SteadyUntilFailure
<1>2. SafeInv /\ FinalInv /\ SteadyUntilFailure /\ [Next]_vars
        => SafeInv' /\ FinalInv' /\ SteadyUntilFailure'
  BY NextSafe, NextFinal, NextSteady, FailuresStay DEF SteadyUntilFailure
<1> QED  BY <1>1, <1>2, PTL DEF Spec

(* Nodes at the same block have the same state root as long as writes      *)
(* succeed: the counters are the sums of what the block's ancestors        *)
(* attest, in whatever order, through whatever refusals and restarts, the  *)
(* node came to it.                                                        *)
THEOREM NodesAgreeOnRoots == Spec /\ Steady => []RootsAgree
<1>1. SteadyUntilFailure => RootsAgree
  BY DEF SteadyUntilFailure, SteadyInv, StateGood, RootsAgree
<1> QED  BY <1>1, InvariantWhileSteady, PTL

(* As long as writes succeed, a block that its honest producer has applied *)
(* and broadcast is applied by every node that is at its parent.           *)
THEOREM BroadcastBlocksAreApplied == Spec /\ Steady => []BroadcastBlocksApply
<1>1. SafeInv /\ FinalInv /\ SteadyUntilFailure => BroadcastBlocksApply
  <2> SUFFICES ASSUME SafeInv, FinalInv, SteadyInv, NEW n \in Nodes,
                      NEW b \in BlockIds \ {Common}, blocks[b].parent = Tip(n)
               PROVE  Accepts(n, blocks[b])
    BY DEF BroadcastBlocksApply, SteadyUntilFailure
  <2>1. PICK block \in Block : block = blocks[b]
    BY BlockType DEF SafeInv
  <2>2. /\ Grows(block) /\ Applies(block) /\ block.parent = Tip(n)
        /\ block.producer \in Nodes /\ ActiveSame
    BY <2>1 DEF SafeInv, Tree, SteadyInv, FinalInv
  <2>3. Accepts(n, block)
    BY <2>2, AppliesAccepts
  <2> QED  BY <2>1, <2>3
<1> QED  BY <1>1, InvariantWhileSteady, PTL

(* Only a restart can lower a finalized height. *)
LEMMA FinalizedGrows ==
  ASSUME SafeInv, [Next]_vars, mem = disk \/ restarts' = restarts, restarts \in Nat,
         NEW n \in Nodes
  PROVE  mem'[n].finalized >= mem[n].finalized
<1>0. Types /\ Tree /\ Stores /\ VotesKept
  BY DEF SafeInv
<1>1. mem[n].finalized \in Nat
  BY <1>0, StateFields DEF Types
<1>2. MemoryStep(n)
  BY NextMemory
<1>3. CASE mem'[n] = mem[n]
  BY <1>1, <1>3
<1>4. CASE mem'[n] = disk[n] /\ restarts' = restarts + 1
  BY <1>1, <1>4
<1>5. CASE Refused(n)
  <2>1. PICK block \in Block : /\ ToSet(block.attestations) \subseteq votes
                               /\ mem'[n] = AfterRejection(n, block)
    BY <1>5 DEF Refused
  <2>2. AfterFinality(n, block).finalized >= mem[n].finalized
    BY <1>0, <2>1, FinalityFacts
  <2>3. \/ AfterRejection(n, block).finalized = mem[n].finalized
        \/ AfterRejection(n, block).finalized = AfterFinality(n, block).finalized
    BY <1>0, <2>1, RejectionFacts
  <2> QED  BY <1>1, <2>1, <2>2, <2>3
<1>6. CASE Applied(n)
  <2>1. PICK block \in Block, b \in Nat : /\ ToSet(block.attestations) \subseteq votes
                                          /\ mem'[n] = After(n, block, b)
    BY <1>6 DEF Applied
  <2>2. AfterFinality(n, block).finalized >= mem[n].finalized
    BY <1>0, <2>1, FinalityFacts
  <2>3. After(n, block, b).finalized = AfterFinality(n, block).finalized
    BY <1>0, <2>1, AcceptedFacts
  <2> QED  BY <2>1, <2>2, <2>3
<1> QED  BY <1>2, <1>3, <1>4, <1>5, <1>6 DEF MemoryStep

(* Whatever the active set does and whichever writes fail, the finalized   *)
(* height of a node rises between two restarts.                            *)
RisesBetweenRestarts ==
  [][restarts' = restarts => \A n \in Nodes : mem'[n].finalized >= mem[n].finalized]_vars

(* No step lowers the finalized height of a node, whatever it refuses,     *)
(* except a restart, and with a steady active set only one that follows a  *)
(* failed write.                                                           *)
THEOREM FinalityNeverGoesBack ==
  /\ Spec => RisesBetweenRestarts
  /\ Spec /\ Steady => FinalityMonotone
<1> DEFINE Rise == \A n \in Nodes : mem'[n].finalized >= mem[n].finalized
           Counted == restarts \in Nat
           Same == restarts' = restarts
           Works == failures = 0
<1>1. Init => Counted
  BY DEF Init
<1>2. Counted /\ [Next]_vars => Counted'
  <2> SUFFICES ASSUME Counted, [Next]_vars PROVE restarts' \in Nat
    OBVIOUS
  <2>1. CASE \E n \in Nodes : Restart(n)
    BY <2>1 DEF Restart
  <2>2. CASE ~\E n \in Nodes : Restart(n)
    BY <2>2 DEF Next, vars, BuildMined, BuildRefined, Build, GossipBlock, SyncBlock,
                PeerBlockFails, AttestBlock, DeclineAttestation, GossipAttestation,
                SubmitCandidate, CandidateFails, MiningFails
  <2> QED  BY <2>1, <2>2
<1>3. SafeInv /\ Counted /\ [Next]_vars => [Same => Rise]_vars
  BY FinalizedGrows
<1>4. SafeInv /\ Counted /\ SteadyUntilFailure /\ [Next]_vars => [Works \/ Same => Rise]_vars
  BY FinalizedGrows DEF SteadyUntilFailure, SteadyInv
<1>5. FinalityMonotone <=> [][Works \/ Same => Rise]_vars
  BY DEF FinalityMonotone
<1>6. RisesBetweenRestarts <=> [][Same => Rise]_vars
  BY DEF RisesBetweenRestarts
<1> HIDE DEF Rise, Counted, Same, Works
<1>7. Spec => RisesBetweenRestarts
  BY <1>1, <1>2, <1>3, <1>6, ReplicasInvariant, PTL DEF Spec
<1>8. Spec /\ Steady => FinalityMonotone
  BY <1>1, <1>2, <1>4, <1>5, InvariantWhileSteady, PTL DEF Spec
<1> QED  BY <1>7, <1>8

=============================================================================
