------------------------------- MODULE Chain --------------------------------
(***************************************************************************)
(* The economic state transition of one node: apply_block of               *)
(* crates/node/src/node.rs with the transaction dispatcher, the account    *)
(* store and the refiner set it drives.  apply_block holds the write locks *)
(* of all four stores from its first line to its last; it is split here    *)
(* into Begin..., one step per successful transaction, and FinishBlock, so *)
(* that a block may carry any transactions in any order.  A transaction    *)
(* that fails leaves no trace (a bond that is refused after the debit is   *)
(* refunded in full) and is no step.                                       *)
(*                                                                         *)
(* Amounts are unbounded: the overflow checks of the code never fire while *)
(* total_issued fits 64 bits, because SupplyConserved bounds every amount  *)
(* by total_issued.  A missing account is an account with balance 0.       *)
(***************************************************************************)
EXTENDS Economics

CONSTANTS
  GenesisBalance,  \* the allocation of the genesis configuration
  GenesisKeyed,    \* accounts whose public key the genesis configuration sets
  GENESIS_DIFFICULTY,
  Amounts,         \* bound: the amounts a transaction may name
  Fees,            \* bound: the fees a transaction may offer (at least MIN_FEE = 1)
  Yields,          \* bound: the vein yields a proof of work may find, in thousandths
  Retargets,       \* bound: the values the timestamp retarget may give after EPOCH
  MaxTxs,          \* bound: transactions per account
  MAX_SLASH_EVIDENCE_PER_BLOCK

ASSUME GenesisAssumption ==
  /\ GenesisBalance \in [Accounts -> Nat]
  /\ GenesisKeyed \subseteq Accounts
  /\ GENESIS_DIFFICULTY \in Nat \ {0}
ASSUME InputAssumption ==
  /\ Amounts \subseteq Nat
  /\ Fees \subseteq Nat \ {0}
  /\ Yields \subseteq Nat
  /\ Retargets \subseteq Nat \ {0}
  /\ MaxTxs \in Nat
  /\ MAX_SLASH_EVIDENCE_PER_BLOCK \in Nat

VARIABLES
  \* AccountStore
  balance,             \* Account.balance
  nonce,               \* Account.nonce
  keyed,               \* accounts whose public_key is on chain
  \* RefinerSet
  entries, status, active_set, unbonding,
  \* ChainState
  total_issued, total_burned, current_height, current_difficulty,
  mint_ledger,         \* MintLedgerTotals: gross mined reward, and all burn totals
  \* locals of apply_block
  block,               \* the block being applied, NoBlock between blocks
  fees,                \* total_transaction_fees
  assays               \* total_assay_burned

accountVars == <<balance, nonce, keyed>>
refinerVars == <<entries, status, active_set, unbonding>>
chainVars == <<total_issued, total_burned, current_height, current_difficulty, mint_ledger>>
blockVars == <<block, fees, assays>>
vars == <<accountVars, refinerVars, chainVars, blockVars>>

NoBlock == [kind |-> "None", producer |-> 0, difficulty |-> 0, gross |-> 0,
            mine_assay |-> 0, slashed |-> 0, active |-> 0, limit |-> 0]

Blocks == [kind : {"None", "Mined", "Refined"}, producer : Accounts \cup {0},
           difficulty : Nat, gross : Nat, mine_assay : Nat, slashed : Nat,
           active : Nat, limit : Nat]

BlockHeight == current_height + 1   \* block.header.height while one is applied

-----------------------------------------------------------------------------
Init ==
  /\ balance = GenesisBalance
  /\ nonce = [a \in Accounts |-> 0]
  /\ keyed = GenesisKeyed
  /\ entries = [r \in Accounts |-> [h \in Heights |-> 0]]
  /\ status = [r \in Accounts |-> "None"]
  /\ active_set = {}
  /\ unbonding = [r \in Accounts |-> [m \in Maturities |-> 0]]
  /\ total_issued = SumFunctionOnSet(GenesisBalance, Accounts)
  /\ total_burned = 0
  /\ current_height = 0
  /\ current_difficulty = GENESIS_DIFFICULTY
  /\ mint_ledger = [genesis |-> SumFunctionOnSet(GenesisBalance, Accounts),
                    gross |-> 0, burned |-> 0]
  /\ block = NoBlock
  /\ fees = 0
  /\ assays = 0

-----------------------------------------------------------------------------
BondedStake == total_bonded_stake(entries, status, active_set)

(* compute_retarget holds the difficulty during the first epoch. *)
RetargetValues == IF current_height < EPOCH THEN {current_difficulty} ELSE Retargets

NextDifficulty(retarget) == effective_difficulty(retarget, total_issued, BondedStake)

(* Mutant of SlashEvidence: the burn is not booked in total_burned.        *)
SlashEvidenceUnbooked(evidence) ==
  /\ entries' = SlashEntries(entries, status, evidence)
  /\ unbonding' = SlashQueue(unbonding, evidence)
  /\ status' = SlashStatus(status, evidence)
  /\ active_set' = active_set \ evidence
  /\ UNCHANGED total_burned

(* The slash evidence of the block: verified, deduplicated and burned      *)
(* before any reward or transaction.                                       *)
SlashEvidence(evidence) ==
  /\ entries' = SlashEntries(entries, status, evidence)
  /\ unbonding' = SlashQueue(unbonding, evidence)
  /\ status' = SlashStatus(status, evidence)
  /\ active_set' = active_set \ evidence
  /\ total_burned' = total_burned + SlashBurn(entries, status, unbonding, evidence)

(* A mined block: the proof of work bounds the difficulty, the producer's  *)
(* key is registered, and the reward net of the mine assay is credited     *)
(* before the transactions run.                                            *)
BeginMinedBlock(p, evidence, retarget, yield) ==
  LET difficulty == NextDifficulty(retarget)
      gross == compute_block_reward(difficulty, yield)
      mine_assay == compute_mine_assay(gross, difficulty)
  IN  /\ block = NoBlock
      /\ current_height < MaxHeight
      /\ difficulty <= MAX_POW_BITS
      /\ p \in keyed
      /\ SlashEvidence(evidence)
      /\ balance' = [balance EXCEPT ![p] = @ + SatSub(gross, mine_assay)]
      /\ block' = [kind |-> "Mined", producer |-> p, difficulty |-> difficulty,
                   gross |-> gross, mine_assay |-> mine_assay,
                   slashed |-> SlashBurn(entries, status, unbonding, evidence),
                   active |-> 0, limit |-> 0]
      /\ UNCHANGED <<nonce, keyed, total_issued, current_height, current_difficulty,
                     mint_ledger, fees, assays>>

(* A refined block: signed by the refiner the parent hash selects; the fee *)
(* market is read before the evidence is applied.                          *)
BeginRefinedBlock(p, evidence, retarget, ticket) ==
  /\ block = NoBlock
  /\ current_height < MaxHeight
  /\ p \in keyed
  /\ IsSelected(p, ticket, entries, status, active_set)
  /\ SlashEvidence(evidence)
  /\ block' = [kind |-> "Refined", producer |-> p,
               difficulty |-> NextDifficulty(retarget), gross |-> 0, mine_assay |-> 0,
               slashed |-> SlashBurn(entries, status, unbonding, evidence),
               active |-> Cardinality(active_set),
               limit |-> active_refiner_limit(total_issued)]
  /\ UNCHANGED <<balance, nonce, keyed, total_issued, current_height,
                 current_difficulty, mint_ledger, fees, assays>>

-----------------------------------------------------------------------------
(* What apply_transaction does around every handler: the fee floor, the    *)
(* nonce, the collected fee and the registered key.                        *)
Transact(s, fee, assay) ==
  /\ block # NoBlock
  /\ nonce[s] < MaxTxs
  /\ nonce' = [nonce EXCEPT ![s] = @ + 1]
  /\ keyed' = keyed \cup {s}
  /\ fees' = fees + fee
  /\ assays' = assays + assay
  /\ UNCHANGED <<chainVars, block>>

ApplyTransfer(s, to, amount, fee) ==
  /\ balance[s] >= amount + fee
  /\ Transact(s, fee, 0)
  /\ LET debited == [balance EXCEPT ![s] = @ - (amount + fee)]
     IN  balance' = [debited EXCEPT ![to] = @ + amount]
  /\ UNCHANGED refinerVars

ApplyBond(s, stake, fee) ==
  LET assay == bond_assay(stake, BondedStake, total_issued)
  IN  /\ stake >= minimum_bond_stake(total_issued)
      /\ balance[s] >= stake + fee + assay
      /\ status[s] # "Slashed"
      /\ Transact(s, fee, assay)
      /\ balance' = [balance EXCEPT ![s] = @ - (stake + fee + assay)]
      /\ entries' = BondEntries(entries, s, stake, BlockHeight)
      /\ status' = BondStatus(status, s)
      /\ UNCHANGED <<active_set, unbonding>>

ApplyUnbond(s, amount, fee) ==
  LET assay == unbond_assay(amount, BondedStake, total_issued)
      left  == UnbondFifo(entries[s], amount)
  IN  /\ status[s] # "None"
      /\ amount > 0
      /\ balance[s] >= fee + assay
      /\ amount <= TotalStake(entries[s])
      /\ Transact(s, fee, assay)
      /\ balance' = [balance EXCEPT ![s] = @ - (fee + assay)]
      /\ entries' = [entries EXCEPT ![s] = left]
      /\ unbonding' = UnbondQueue(unbonding, s, amount, BlockHeight)
      /\ status' = UnbondStatus(status, s, left)
      /\ active_set' = UnbondActive(active_set, s, left)

-----------------------------------------------------------------------------
FeesBurned == IF block.kind = "Refined" THEN por_fee_burn(fees, block.active, block.limit)
              ELSE fees

(* The rest of apply_block: route the fees, book issuance and burns, pay   *)
(* out matured withdrawals, activate and rerank refiners, and record the   *)
(* receipt in the mint ledger.                                             *)
FinishBlock ==
  LET h == BlockHeight
      income == [a \in Accounts |-> IF a = block.producer THEN fees - FeesBurned ELSE 0]
      issued == total_issued + block.gross
      burned == FeesBurned + assays + block.mine_assay
      gone == Withdrawn(entries, status, unbonding, h)
      waiting == ActivateMatured(RemoveWithdrawn(status, gone), entries, h)
      limit == active_refiner_limit(issued)
      isBoundary == h % EPOCH = 0
  IN  /\ block # NoBlock
      /\ balance' = [a \in Accounts |->
                       balance[a] + income[a] + MaturedAmount(unbonding[a], h)]
      /\ unbonding' = DrainMatured(unbonding, h)
      /\ status' = IF isBoundary THEN Rerank(waiting, entries, limit) ELSE waiting
      /\ active_set' = IF isBoundary
                       THEN RerankActive(active_set \ gone, waiting, entries, limit)
                       ELSE active_set \ gone
      /\ total_issued' = issued
      /\ total_burned' = total_burned + burned
      /\ current_height' = h
      /\ current_difficulty' = block.difficulty
      /\ mint_ledger' = [genesis |-> mint_ledger.genesis,
                         gross |-> mint_ledger.gross + block.gross,
                         burned |-> mint_ledger.burned + burned + block.slashed]
      /\ block' = NoBlock
      /\ fees' = 0
      /\ assays' = 0
      /\ UNCHANGED <<nonce, keyed, entries>>

-----------------------------------------------------------------------------
BeginBlock ==
  \E p \in Accounts, evidence \in SUBSET Accounts, retarget \in RetargetValues :
    /\ Cardinality(evidence) <= MAX_SLASH_EVIDENCE_PER_BLOCK
    /\ \/ \E yield \in Yields : BeginMinedBlock(p, evidence, retarget, yield)
       \/ \E ticket \in 0 .. (BondedStake - 1) :
            BeginRefinedBlock(p, evidence, retarget, ticket)

ApplyTransaction ==
  \E s \in Accounts, amount \in Amounts, fee \in Fees :
    \/ \E to \in Accounts : ApplyTransfer(s, to, amount, fee)
    \/ ApplyBond(s, amount, fee)
    \/ ApplyUnbond(s, amount, fee)

Next == BeginBlock \/ ApplyTransaction \/ FinishBlock

Spec == Init /\ [][Next]_vars
-----------------------------------------------------------------------------
(* The type invariant: the fields of AccountStore, RefinerSet, ChainState  *)
(* and the locals of apply_block hold values of their types; no amount is  *)
(* negative.                                                               *)
TypeOK ==
  /\ balance \in [Accounts -> Nat]
  /\ nonce \in [Accounts -> 0 .. MaxTxs]
  /\ keyed \subseteq Accounts
  /\ entries \in [Accounts -> [Heights -> Nat]]
  /\ status \in [Accounts -> Statuses]
  /\ active_set \subseteq Accounts
  /\ unbonding \in [Accounts -> [Maturities -> Nat]]
  /\ total_issued \in Nat
  /\ total_burned \in Nat
  /\ current_height \in Heights
  /\ current_difficulty \in Nat
  /\ mint_ledger \in [genesis : Nat, gross : Nat, burned : Nat]
  /\ block \in Blocks
  /\ block # NoBlock => current_height < MaxHeight /\ block.kind # "None"
  /\ fees \in Nat
  /\ assays \in Nat

(* What one account owns: its balance, its bonded stake and its queued     *)
(* withdrawals.                                                            *)
Wealth == [a \in Accounts |->
             balance[a] + TotalStake(entries[a]) + PendingTotal(unbonding[a])]

(* Supply conservation (the audit relation of docs/ECONOMIC_AUDIT.md):     *)
(* between blocks, balances, stake and queued withdrawals add up to what   *)
(* was issued and not burned; nothing is minted, lost or burned twice by   *)
(* rewards, fees, assays, slashing or withdrawals.                         *)
SupplyConserved ==
  block = NoBlock =>
    SumFunctionOnSet(Wealth, Accounts) = total_issued - total_burned

(* The same accounting while a block is being applied: collected fees, the *)
(* assays and the reward are in flight, and a block always has a producer  *)
(* to pay.  No step of apply_block may lose or duplicate them, whatever    *)
(* was slashed before.                                                     *)
FundsAccounted ==
  /\ SumFunctionOnSet(Wealth, Accounts) + fees + assays + block.mine_assay + total_burned
       = total_issued + block.gross
  /\ block # NoBlock => block.producer \in Accounts
  /\ block = NoBlock => fees = 0 /\ assays = 0

(* The mint ledger persisted for auditors agrees with the chain's counters *)
(* at every step: slashes, booked as they happen in one and at the end of  *)
(* the block in the other, and the burns booked at the end appear once.    *)
MintLedgerAgrees ==
  /\ total_issued = mint_ledger.genesis + mint_ledger.gross
  /\ total_burned = mint_ledger.burned + block.slashed

(* A refiner's record and the money in protocol custody agree: a record    *)
(* exists while stake or withdrawals do (so both stay slashable), a        *)
(* slashed one has neither, one that can be selected or ranked has stake,  *)
(* and an Unbonding one waits for a withdrawal that will remove it.        *)
CustodyHasRecord(r) ==
  /\ status[r] \in {"None", "Slashed"} =>
       TotalStake(entries[r]) = 0 /\ PendingTotal(unbonding[r]) = 0
  /\ status[r] \in {"Bonding", "Waiting", "Active"} => TotalStake(entries[r]) > 0
  /\ status[r] = "Unbonding" =>
       TotalStake(entries[r]) = 0 /\ PendingTotal(unbonding[r]) > 0

RefinerRecordsSound == \A r \in Accounts : CustodyHasRecord(r)

(* The active_set vector, kept beside the records for speed, names exactly *)
(* the records whose status is Active.                                     *)
ActiveSetMatchesStatus == active_set = {r \in Accounts : status[r] = "Active"}

AtBoundary == block = NoBlock /\ current_height > 0 /\ current_height % EPOCH = 0

(* The active set never outgrows the limit derived from issued supply,     *)
(* however bonds, slashes and reranks interleave, and after the rerank of  *)
(* an epoch boundary it holds the best: no Waiting refiner has more stake  *)
(* than an Active one, ties going to the smaller id.                       *)
ActiveAreBest ==
  /\ Cardinality(active_set) <= active_refiner_limit(total_issued)
  /\ AtBoundary =>
       \A a, w \in Accounts : status[a] = "Active" /\ status[w] = "Waiting" =>
         \/ TotalStake(entries[a]) > TotalStake(entries[w])
         \/ TotalStake(entries[a]) = TotalStake(entries[w]) /\ a < w

(* Queued withdrawals mature in the future, at most one unbonding delay    *)
(* ahead: none is overdue, none waits for ever.                            *)
UnbondDelay ==
  \A r \in Accounts, m \in Maturities :
    unbonding[r][m] > 0 =>
      /\ current_height < m
      /\ m <= current_height + EPOCH + (IF block = NoBlock THEN 0 ELSE 1)

(* Stake leaves protocol custody only at the height its withdrawal was     *)
(* queued for, or by being burned with the refiner slashed.                *)
CustodyReleased ==
  [][\A r \in Accounts, m \in Maturities :
       unbonding'[r][m] < unbonding[r][m] =>
         \/ status'[r] = "Slashed"
         \/ current_height' = m /\ balance'[r] >= balance[r] + unbonding[r][m]]_vars

(* A slash is final: the record stays Slashed, and the id never has stake, *)
(* queued withdrawals or a place in the active set again.                  *)
SlashIsFinal ==
  [][\A r \in Accounts :
       status[r] = "Slashed" =>
         /\ status'[r] = "Slashed"
         /\ TotalStake(entries'[r]) = 0
         /\ PendingTotal(unbonding'[r]) = 0
         /\ r \notin active_set']_vars

(* No refiner is activated before a full epoch has passed since some       *)
(* earlier bond of it: a refiner enters the active set at an epoch         *)
(* boundary and was ranked Waiting or matured in that very block.          *)
ActivationAtBoundary ==
  [][\A r \in Accounts :
       r \in active_set' /\ r \notin active_set =>
         /\ current_height' % EPOCH = 0
         /\ \/ status[r] = "Waiting"
            \/ \E h \in Heights : entries[r][h] > 0 /\ h + EPOCH <= current_height']_vars

(* The next block can be mined by someone, or refined by someone. *)
ProductionPossible ==
  \/ keyed # {} /\ \E retarget \in RetargetValues : NextDifficulty(retarget) <= MAX_POW_BITS
  \/ \E r \in active_set : TotalStake(entries[r]) > 0

(* ECONOMICS.md: refined blocks "keep the chain moving while miners are    *)
(* absent".  The floor total_issued / bonded_stake counts leading zero     *)
(* bits and has no upper bound, and stake that is not active yet raises it *)
(* without being able to produce.                                          *)
ChainKeepsMoving == block = NoBlock => ProductionPossible
=============================================================================
