------------------------------- MODULE Loops --------------------------------
(***************************************************************************)
(* The loops behind operators the other modules define in one line: the    *)
(* binary search of refiner.rs and emission.rs and the Newton iteration of *)
(* dispatcher.rs beside ISqrtFloor, and RefinerInfo::unbond_fifo beside    *)
(* UnbondFifo.  The roots are computed in words of Bits bits (128 in the   *)
(* code): additions wrap, saturating_mul saturates.  The fourth loop is    *)
(* the chain itself, block after block, with the pruned window of          *)
(* timestamps beside the whole history.                                    *)
(***************************************************************************)
EXTENDS RefinerSet, Sequences

CONSTANTS
  Bits,        \* bound: word width, even
  Stakes,      \* bound: the stakes of single entries
  MaxEntries,  \* bound: entries of one refiner
  BLOCK_TARGET_TIME,
  Deltas,      \* bound: seconds between two blocks
  Difficulty0, \* the difficulty of the genesis block
  MaxBlocks    \* bound: blocks after genesis

ASSUME BitsAssumption == Bits \in Nat /\ Bits >= 4 /\ Bits % 2 = 0
ASSUME FifoAssumption ==
  Stakes \subseteq Nat \ {0} /\ MaxEntries \in Nat /\ MaxEntries <= MaxHeight
ASSUME StampAssumption ==
  /\ Deltas \subseteq Nat /\ Difficulty0 \in Nat \ {0} /\ MaxBlocks \in Nat
  /\ BLOCK_TARGET_TIME \in Nat /\ BLOCK_TARGET_TIME % 2 = 0

VARIABLES
  loop,         \* the loop that runs, "done" once it has returned
  \* the roots
  n,            \* the argument
  x, y,         \* left and right of the search, x and y of the iteration
  result,
  \* unbond_fifo
  before,       \* the entries when it was called
  amount,
  list,         \* self.entries
  remaining, consumed,
  \* the chain
  stamps,       \* the timestamps of all blocks from genesis on
  window,       \* block_timestamps
  difficulty,   \* the difficulty the next block must have
  previous      \* the difficulty of the last block, current_difficulty

INSTANCE Retarget

rootVars == <<n, x, y, result>>
fifoVars == <<before, amount, list, remaining, consumed>>
chainVars == <<stamps, window, difficulty, previous>>
vars == <<loop, rootVars, fifoVars, chainVars>>

NoRoot == n = 0 /\ x = 0 /\ y = 0 /\ result = 0
NoFifo == before = <<>> /\ amount = 0 /\ list = <<>> /\ remaining = 0 /\ consumed = 0
NoChain == stamps = <<>> /\ window = <<>> /\ difficulty = 0 /\ previous = 0

-----------------------------------------------------------------------------
(* A shift to the left of 1. *)
Pow2[k \in Nat] == IF k = 0 THEN 1 ELSE 2 * Pow2[k - 1]

Word == Pow2[Bits]
HalfWord == Pow2[Bits \div 2]
SaturatingMul(a, b) == IF a * b < Word THEN a * b ELSE Word - 1

BitLen(k) == CHOOSE b \in 0 .. Bits : k < Pow2[b] /\ (b > 0 => Pow2[b - 1] <= k)

(* The search is called with amounts and products of two amounts, which    *)
(* are half a word wide; the iteration with saturated products as well.    *)
SearchInputs == 0 .. ((HalfWord - 1) * (HalfWord - 1))
NewtonInputs == 0 .. (Word - 1)

InitSearch ==
  /\ NoFifo /\ NoChain
  /\ n \in SearchInputs
  /\ loop = IF n < 2 THEN "done" ELSE "search"
  /\ x = 1
  /\ y = Pow2[(BitLen(n) + 1) \div 2]
  /\ result = IF n < 2 THEN n ELSE 1

InitNewton ==
  /\ NoFifo /\ NoChain
  /\ n \in NewtonInputs
  /\ loop = IF n < 2 THEN "done" ELSE "newton"
  /\ x = n
  /\ y = (n + 1) \div 2
  /\ result = n

Middle == ((x + y) % Word) \div 2

(* Mutants of SearchStep: the exact root is missed; the right end is not   *)
(* moved past the middle.                                                  *)
SearchStepStrict ==
  /\ loop = "search" /\ x <= y
  /\ IF SaturatingMul(Middle, Middle) < n
     THEN result' = Middle /\ x' = Middle + 1 /\ y' = y
     ELSE result' = result /\ x' = x /\ y' = Middle - 1
  /\ UNCHANGED <<loop, n, fifoVars, chainVars>>

SearchStepStuck ==
  /\ loop = "search" /\ x <= y
  /\ IF SaturatingMul(Middle, Middle) <= n
     THEN result' = Middle /\ x' = Middle + 1 /\ y' = y
     ELSE result' = result /\ x' = x /\ y' = Middle
  /\ UNCHANGED <<loop, n, fifoVars, chainVars>>

SearchStep ==
  /\ loop = "search" /\ x <= y
  /\ IF SaturatingMul(Middle, Middle) <= n
     THEN result' = Middle /\ x' = Middle + 1 /\ y' = y
     ELSE result' = result /\ x' = x /\ y' = Middle - 1
  /\ UNCHANGED <<loop, n, fifoVars, chainVars>>

NewtonStep ==
  /\ loop = "newton" /\ y < x
  /\ x' = y
  /\ y' = ((y + n \div y) % Word) \div 2
  /\ UNCHANGED <<loop, n, result, fifoVars, chainVars>>

ReturnRoot ==
  /\ \/ loop = "search" /\ x > y /\ UNCHANGED result
     \/ loop = "newton" /\ y >= x /\ result' = x
  /\ loop' = "done"
  /\ UNCHANGED <<n, x, y, fifoVars, chainVars>>

-----------------------------------------------------------------------------
EntryLists == UNION {[1 .. k -> Stakes] : k \in 1 .. MaxEntries}

(* The entries by height, the first at height 1, as module RefinerSet has them. *)
ByHeight(s) == [h \in Heights |-> IF h \in DOMAIN s THEN s[h] ELSE 0]

Stake(s) == TotalStake(ByHeight(s))

(* What unbond_amount lets through. *)
Requests(s) == 1 .. Stake(s)

InitFifo ==
  /\ NoRoot /\ NoChain
  /\ loop = "fifo"
  /\ before \in EntryLists
  /\ amount \in Requests(before)
  /\ list = before
  /\ remaining = amount
  /\ consumed = 0

InBounds == consumed < Len(list)

Consume ==
  /\ loop = "fifo" /\ remaining > 0 /\ InBounds
  /\ list[consumed + 1] <= remaining
  /\ remaining' = remaining - list[consumed + 1]
  /\ consumed' = consumed + 1
  /\ UNCHANGED <<loop, rootVars, before, amount, list, chainVars>>

Split ==
  /\ loop = "fifo" /\ remaining > 0 /\ InBounds
  /\ list[consumed + 1] > remaining
  /\ list' = [list EXCEPT ![consumed + 1] = @ - remaining]
  /\ remaining' = 0
  /\ UNCHANGED <<loop, rootVars, before, amount, consumed, chainVars>>

Drain ==
  /\ loop = "fifo" /\ remaining = 0
  /\ list' = SubSeq(list, consumed + 1, Len(list))
  /\ loop' = "done"
  /\ UNCHANGED <<rootVars, before, amount, remaining, consumed, chainVars>>

-----------------------------------------------------------------------------
(* The genesis block has the time of the ceremony. *)
InitChain ==
  /\ NoRoot /\ NoFifo
  /\ loop = "chain"
  /\ stamps = <<0>> /\ window = <<0>>
  /\ difficulty = Difficulty0 /\ previous = Difficulty0

(* The rule of validate_block for the timestamp, and what apply_block      *)
(* keeps of it.  No refiner is bonded, so that the floor is 0.             *)
AddBlock(delta) ==
  /\ loop = "chain" /\ Len(stamps) <= MaxBlocks
  /\ delta >= MinimumDelta
  /\ stamps' = Append(stamps, stamps[Len(stamps)] + delta)
  /\ window' = Prune(Append(window, window[Len(window)] + delta))
  /\ previous' = difficulty
  /\ difficulty' = ComputeRetarget(difficulty, Len(stamps), window')
  /\ UNCHANGED <<loop, rootVars, fifoVars>>

(* As a bound, the chain ends. *)
EndChain ==
  /\ loop = "chain" /\ Len(stamps) > MaxBlocks
  /\ loop' = "done"
  /\ UNCHANGED <<rootVars, fifoVars, chainVars>>

-----------------------------------------------------------------------------
Init == InitSearch \/ InitNewton \/ InitFifo \/ InitChain

Step ==
  \/ SearchStep \/ NewtonStep \/ ReturnRoot
  \/ Consume \/ Split \/ Drain
  \/ \E delta \in Deltas : AddBlock(delta)
  \/ EndChain

Done == loop = "done" /\ UNCHANGED vars

Next == Step \/ Done

(* A function call runs to its end. *)
Spec == Init /\ [][Next]_vars /\ WF_vars(Step)
-----------------------------------------------------------------------------
(* The loops compute what the other modules say they do.  Both root loops  *)
(* return the largest number whose square is at most n, also where sums    *)
(* wrap and squares saturate.  unbond_fifo never indexes past the last     *)
(* entry, which would be a panic under the write locks, and leaves exactly *)
(* UnbondFifo: the oldest entries go first and the others, the split one   *)
(* included, keep their heights.                                           *)
LoopsExact ==
  /\ loop = "done" => result = ISqrtFloor(n)
  /\ loop = "fifo" /\ remaining > 0 => InBounds
  /\ loop = "done" /\ before # <<>> =>
       /\ remaining = 0
       /\ \A h \in Heights :
            UnbondFifo(ByHeight(before), amount)[h] =
              IF h > consumed /\ h <= Len(before) THEN list[h - consumed] ELSE 0

(* The pruned window always holds the two timestamps that compute_retarget *)
(* needs: the difficulty is what the whole history gives, from the first   *)
(* full epoch on at every block (where the comments say every EPOCH        *)
(* blocks: RetargetPerEpoch).  Because validate_block keeps blocks half a  *)
(* target apart, no block more than doubles it, and the spike for a window *)
(* without any time in it cannot happen.                                   *)
RetargetSound ==
  stamps # <<>> =>
    LET last == Len(stamps) IN
    /\ difficulty = IF last <= EPOCH THEN previous
                     ELSE Scaled(previous, stamps[last] - stamps[last - EPOCH])
    /\ difficulty <= 2 * previous

(* difficulty.rs: "Retarget difficulty every `EPOCH` blocks": after a block *)
(* that does not complete an epoch the difficulty stays as it is.  (It does *)
(* not: compute_retarget runs after every block, on the last EPOCH of them, *)
(* and starts from the difficulty that it gave the block before.)           *)
RetargetPerEpoch ==
  stamps # <<>> /\ (Len(stamps) - 1) % EPOCH # 0 => difficulty = previous

(* Every call returns: no argument makes apply_block hang under its locks. *)
LoopsReturn == <>(loop = "done")
=============================================================================
