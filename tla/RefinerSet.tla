----------------------------- MODULE RefinerSet -----------------------------
(***************************************************************************)
(* The refiner set of crates/consensus/src/refiner.rs as operators on its  *)
(* fields:                                                                 *)
(*                                                                         *)
(*   entries[r][h]    the stake r bonded in the block at height h.  A      *)
(*                    block's timestamp is at least 45 s above its         *)
(*                    parent's, so the code's order by bonded_at_timestamp *)
(*                    is the order of heights, and its merge of entries    *)
(*                    with equal timestamps is the sum within one block.   *)
(*   status[r]        RefinerStatus, or "None" when the map has no record. *)
(*   active_set       the ids kept in the active_set vector.               *)
(*   unbonding[r][m]  what the unbonding queue owes r at height m.         *)
(*                                                                         *)
(* Object ids are naturals, so that the code's order on ids is <.          *)
(***************************************************************************)
EXTENDS IntegerMath, FiniteSets, Functions

CONSTANTS
  Accounts,        \* the ids that may hold coins or bond
  EPOCH,           \* blocks per epoch; also the unbonding delay (960)
  FLAKES_PER_OPL,  \* the smallest units in one coin (10^6)
  MaxHeight        \* bound: no block above this height is explored

ASSUME AccountsAssumption == Accounts \subseteq Nat /\ IsFiniteSet(Accounts)
ASSUME EpochAssumption == EPOCH \in Nat \ {0}
ASSUME FlakesAssumption == FLAKES_PER_OPL \in Nat \ {0}
ASSUME MaxHeightAssumption == MaxHeight \in Nat

Heights == 0 .. MaxHeight
Maturities == 0 .. (MaxHeight + EPOCH)
Statuses == {"None", "Bonding", "Waiting", "Active", "Unbonding", "Slashed"}

(* RefinerInfo::total_stake, also RefinerInfo::weight: age adds nothing. *)
TotalStake(es) == SumFunctionOnSet(es, Heights)

(* What the unbonding queue owes one account. *)
PendingTotal(queue) == SumFunctionOnSet(queue, Maturities)

minimum_bond_stake(issued) ==
  MaxOf(ISqrtFloor(issued \div FLAKES_PER_OPL), 1) * FLAKES_PER_OPL

active_refiner_limit(issued) == EPOCH + ISqrtFloor(issued \div FLAKES_PER_OPL)

(* total_bonded_stake adds the active set's stake and the stake of the     *)
(* records in Bonding or Waiting: an id that were both is counted twice.   *)
total_bonded_stake(es, st, active) ==
  LET activeStake == [r \in Accounts |->
        IF r \in active /\ st[r] # "None" THEN TotalStake(es[r]) ELSE 0]
      otherStake == [r \in Accounts |->
        IF st[r] \in {"Bonding", "Waiting"} THEN TotalStake(es[r]) ELSE 0]
  IN  SumFunctionOnSet(activeStake, Accounts) + SumFunctionOnSet(otherStake, Accounts)

-----------------------------------------------------------------------------
(* bond, once its guards hold: a new record and one that was unbonding     *)
(* start in Bonding; a top-up leaves the status alone.                     *)
BondEntries(es, r, stake, h) == [es EXCEPT ![r][h] = @ + stake]

BondStatus(st, r) ==
  [st EXCEPT ![r] = IF @ \in {"None", "Unbonding"} THEN "Bonding" ELSE @]

(* Mutants of UnbondFifo: an exhausted entry is not clamped at zero; the   *)
(* rest of the split entry is dropped.                                     *)
UnbondFifoUnclamped(es, amount) ==
  [h \in Heights |->
     LET older == SumFunctionOnSet(es, 0 .. (h - 1))
     IN  IF older >= amount THEN es[h] ELSE older + es[h] - amount]

UnbondFifoNoSplit(es, amount) ==
  [h \in Heights |->
     IF SumFunctionOnSet(es, 0 .. (h - 1)) >= amount THEN es[h] ELSE 0]

(* unbond_fifo: amount is taken from the oldest entries first, the last    *)
(* one it reaches being split.  older is what stands before entry h.       *)
UnbondFifo(es, amount) ==
  [h \in Heights |->
     LET older == SumFunctionOnSet(es, 0 .. (h - 1))
     IN  IF older + es[h] <= amount THEN 0
         ELSE IF older >= amount THEN es[h]
         ELSE older + es[h] - amount]

(* unbond_amount after its guards: the withdrawal is queued for EPOCH      *)
(* blocks, and a record left without entries is Unbonding and inactive.    *)
UnbondQueue(queue, r, amount, h) == [queue EXCEPT ![r][h + EPOCH] = @ + amount]

UnbondStatus(st, r, es) ==
  [st EXCEPT ![r] = IF TotalStake(es) = 0 THEN "Unbonding" ELSE @]

(* Mutant of UnbondActive: a refiner that withdraws everything stays in.   *)
UnbondActiveKept(active, r, es) == active

UnbondActive(active, r, es) == IF TotalStake(es) = 0 THEN active \ {r} ELSE active

(* Mutants of SlashEntries and SlashBurn: the stake of a slashed refiner   *)
(* stays bonded; the queued withdrawals are not counted as burned.         *)
SlashEntriesKept(es, st, evidence) == es

SlashBurnNoQueue(es, st, queue, evidence) ==
  SumFunctionOnSet(
    [r \in Accounts |-> IF r \notin evidence \/ st[r] \in {"None", "Slashed"} THEN 0
                        ELSE TotalStake(es[r])],
    Accounts)

(* slash_refiner for every id in evidence: the queue entries and the stake *)
(* are burned, the record stays as Slashed.                                *)
SlashEntries(es, st, evidence) ==
  [r \in Accounts |-> IF r \in evidence /\ st[r] # "None"
                      THEN [h \in Heights |-> 0] ELSE es[r]]

SlashQueue(queue, evidence) ==
  [r \in Accounts |-> IF r \in evidence THEN [m \in Maturities |-> 0] ELSE queue[r]]

SlashStatus(st, evidence) ==
  [r \in Accounts |-> IF r \in evidence /\ st[r] # "None" THEN "Slashed" ELSE st[r]]

SlashBurn(es, st, queue, evidence) ==
  SumFunctionOnSet(
    [r \in Accounts |->
       IF r \notin evidence THEN 0
       ELSE PendingTotal(queue[r]) +
            (IF st[r] \in {"None", "Slashed"} THEN 0 ELSE TotalStake(es[r]))],
    Accounts)

-----------------------------------------------------------------------------
(* matured_unbonds and process_matured_unbonds at height h. *)
MaturedAmount(queue, h) ==
  SumFunctionOnSet([m \in Maturities |-> IF m <= h THEN queue[m] ELSE 0], Maturities)

(* Mutants of DrainMatured: one block late; one block early.               *)
DrainMaturedLate(queue, h) ==
  [r \in Accounts |-> [m \in Maturities |-> IF m < h THEN 0 ELSE queue[r][m]]]

DrainMaturedEarly(queue, h) ==
  [r \in Accounts |-> [m \in Maturities |-> IF m <= h + 1 THEN 0 ELSE queue[r][m]]]

DrainMatured(queue, h) ==
  [r \in Accounts |-> [m \in Maturities |-> IF m <= h THEN 0 ELSE queue[r][m]]]

(* Mutant of Withdrawn: later withdrawals of the same refiner are ignored. *)
WithdrawnTooSoon(es, st, queue, h) ==
  {r \in Accounts : /\ MaturedAmount(queue[r], h) > 0
                    /\ st[r] = "Unbonding"
                    /\ TotalStake(es[r]) = 0}

Withdrawn(es, st, queue, h) ==
  {r \in Accounts : /\ MaturedAmount(queue[r], h) > 0
                    /\ st[r] = "Unbonding"
                    /\ TotalStake(es[r]) = 0
                    /\ \A m \in Maturities : m > h => queue[r][m] = 0}

RemoveWithdrawn(st, gone) == [r \in Accounts |-> IF r \in gone THEN "None" ELSE st[r]]

(* Mutant of ActivateMatured: the age of the bond is not checked.          *)
ActivateAtOnce(st, es, h) ==
  [r \in Accounts |-> IF st[r] = "Bonding" THEN "Waiting" ELSE st[r]]

(* activate_matured_refiners: the oldest entry is at least EPOCH old. *)
ActivateMatured(st, es, h) ==
  [r \in Accounts |->
     IF st[r] = "Bonding" /\ \E b \in Heights : es[r][b] > 0 /\ h >= b + EPOCH
     THEN "Waiting" ELSE st[r]]

(* rerank_refiners: all staked, unslashed records by stake descending and  *)
(* id ascending; a Waiting one within the limit is promoted, an Active one *)
(* beyond it demoted.  Bonding records take ranks too.                     *)
Eligible(st, es) == {r \in Accounts : st[r] \notin {"None", "Slashed"} /\ TotalStake(es[r]) > 0}

(* Mutant of RankOf: the smallest stake comes first.                       *)
RankAscending(r, st, es) ==
  Cardinality({q \in Eligible(st, es) :
                 \/ TotalStake(es[q]) < TotalStake(es[r])
                 \/ TotalStake(es[q]) = TotalStake(es[r]) /\ q < r})

RankOf(r, st, es) ==
  Cardinality({q \in Eligible(st, es) :
                 \/ TotalStake(es[q]) > TotalStake(es[r])
                 \/ TotalStake(es[q]) = TotalStake(es[r]) /\ q < r})

(* Mutant of Rerank: the limit is off by one.                              *)
RerankOneMore(st, es, limit) ==
  [r \in Accounts |->
     IF r \notin Eligible(st, es) THEN st[r]
     ELSE IF st[r] = "Waiting" /\ RankOf(r, st, es) <= limit THEN "Active"
     ELSE IF st[r] = "Active" /\ RankOf(r, st, es) > limit THEN "Waiting"
     ELSE st[r]]

Rerank(st, es, limit) ==
  [r \in Accounts |->
     IF r \notin Eligible(st, es) THEN st[r]
     ELSE IF st[r] = "Waiting" /\ RankOf(r, st, es) < limit THEN "Active"
     ELSE IF st[r] = "Active" /\ RankOf(r, st, es) >= limit THEN "Waiting"
     ELSE st[r]]

RerankActive(active, st, es, limit) ==
  (active \ {r \in Accounts : st[r] = "Active" /\ Rerank(st, es, limit)[r] = "Waiting"})
    \cup {r \in Accounts : st[r] = "Waiting" /\ Rerank(st, es, limit)[r] = "Active"}

(* select_block_producer: the ticket falls into r's slice of the stake of  *)
(* the active refiners laid out by ascending id.                           *)
ActiveStake(es, st, active) ==
  [r \in Accounts |-> IF r \in active /\ st[r] # "None" THEN TotalStake(es[r]) ELSE 0]

IsSelected(r, ticket, es, st, active) ==
  LET below == SumFunctionOnSet(ActiveStake(es, st, active), {q \in Accounts : q < r})
  IN  below <= ticket /\ ticket < below + ActiveStake(es, st, active)[r]
=============================================================================
