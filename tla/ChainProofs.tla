----------------------------- MODULE ChainProofs ----------------------------
(***************************************************************************)
(* Theorems about Chain, for every set of accounts, every bound and every  *)
(* value of the economic constants that satisfies the assumptions.  First, *)
(* lemmas about the pure economic rules and the refiner set's operators.   *)
(***************************************************************************)
EXTENDS Chain, SumTheorems

(* Division of amounts: the quotient is an amount, and q * y <= x. *)
LEMMA DivNat ==
  ASSUME NEW x \in Nat, NEW y \in Nat, y > 0
  PROVE  /\ x \div y \in Nat
         /\ (x \div y) * y <= x
OBVIOUS

LEMMA ProductNat ==
  ASSUME NEW x \in Nat, NEW y \in Nat
  PROVE  x * y \in Nat
OBVIOUS

(* x * a / b is at most x when a <= b. *)
LEMMA ScaledDown ==
  ASSUME NEW x \in Nat, NEW a \in Nat, NEW b \in Nat, b > 0, a <= b
  PROVE  /\ (x * a) \div b \in Nat
         /\ (x * a) \div b <= x
<1> DEFINE q == (x * a) \div b
<1>1. x * a \in Nat
  BY ProductNat
<1>2. q \in Nat /\ q * b <= x * a
  <2> DEFINE p == x * a
  <2>1. p \in Nat
    BY <1>1
  <2> HIDE DEF p
  <2>2. p \div b \in Nat /\ (p \div b) * b <= p
    BY <2>1, DivNat
  <2> QED  BY <2>2 DEF p
<1>3. x * a <= x * b
  OBVIOUS
<1> HIDE DEF q
<1>4. q <= x
  <2>1. SUFFICES ASSUME q >= x + 1 PROVE FALSE
    BY <1>2
  <2>2. q * b >= (x + 1) * b
    BY <1>2, <2>1
  <2>3. (x + 1) * b = x * b + b
    OBVIOUS
  <2>4. x * a \in Int /\ x * b \in Int /\ q * b \in Int
    BY <1>2
  <2> QED  BY <1>2, <1>3, <2>2, <2>3, <2>4
<1> QED  BY <1>2, <1>4 DEF q

(* Every natural has an integer square root, so ISqrtFloor is one. *)
LEMMA SqrtType ==
  ASSUME NEW n \in Nat
  PROVE  /\ ISqrtFloor(n) \in 0 .. n
         /\ ISqrtFloor(n) * ISqrtFloor(n) <= n
         /\ n < (ISqrtFloor(n) + 1) * (ISqrtFloor(n) + 1)
<1> DEFINE P == {k \in Nat : \E r \in 0 .. k : r * r <= k /\ k < (r + 1) * (r + 1)}
<1>1. 0 \in P
  OBVIOUS
<1>2. ASSUME NEW k \in P PROVE k + 1 \in P
  <2>1. k \in Nat /\ k + 1 \in Nat
    OBVIOUS
  <2>2. PICK r \in 0 .. k : r * r <= k /\ k < (r + 1) * (r + 1)
    OBVIOUS
  <2>3. CASE k + 1 < (r + 1) * (r + 1)
    <3>1. r \in 0 .. (k + 1) /\ r * r <= k + 1
      BY <2>1, <2>2
    <3> QED  BY <2>1, <2>3, <3>1
  <2>4. CASE ~ (k + 1 < (r + 1) * (r + 1))
    <3>1. r + 1 \in 0 .. (k + 1)
      BY <2>1, <2>2
    <3>2. (r + 1) * (r + 1) <= k + 1
      BY <2>1, <2>2, <2>4
    <3>3. ((r + 1) + 1) * ((r + 1) + 1) = (r + 1) * (r + 1) + 2 * r + 3
      BY <2>2
    <3>4. k + 1 < ((r + 1) + 1) * ((r + 1) + 1)
      BY <2>1, <2>2, <3>3
    <3> QED  BY <2>1, <3>1, <3>2, <3>4
  <2> QED  BY <2>3, <2>4
<1>3. P = Nat
  <2>1. P \in SUBSET Nat
    OBVIOUS
  <2> HIDE DEF P
  <2> QED  BY <1>1, <1>2, <2>1, NatSetInduction
<1>4. \E r \in 0 .. n : r * r <= n /\ n < (r + 1) * (r + 1)
  BY <1>3
<1> QED  BY <1>4 DEF ISqrtFloor

LEMMA SqrtNat ==
  ASSUME NEW n \in Nat
  PROVE  ISqrtFloor(n) \in Nat
BY SqrtType

(* The limits derived from issued supply are amounts; the minimum bond is  *)
(* never zero.                                                             *)
LEMMA LimitTypes ==
  ASSUME NEW issued \in Nat
  PROVE  /\ minimum_bond_stake(issued) \in Nat
         /\ minimum_bond_stake(issued) > 0
         /\ active_refiner_limit(issued) \in Nat
<1> DEFINE root == ISqrtFloor(issued \div FLAKES_PER_OPL)
<1>1. FLAKES_PER_OPL \in Nat /\ FLAKES_PER_OPL > 0 /\ EPOCH \in Nat
  BY FlakesAssumption, EpochAssumption
<1>2. issued \div FLAKES_PER_OPL \in Nat
  BY <1>1, DivNat
<1>3. root \in Nat
  BY <1>2, SqrtNat
<1> HIDE DEF root
<1>4. MaxOf(root, 1) \in Nat /\ MaxOf(root, 1) >= 1
  BY <1>3 DEF MaxOf
<1>5. MaxOf(root, 1) * FLAKES_PER_OPL \in Nat /\ MaxOf(root, 1) * FLAKES_PER_OPL > 0
  BY <1>1, <1>4
<1> QED  BY <1>1, <1>3, <1>5 DEF minimum_bond_stake, active_refiner_limit, root

(* The assays are amounts. *)
LEMMA DynamicAssayNat ==
  ASSUME NEW amount \in Nat, NEW num \in Nat, NEW den \in Nat, NEW limit \in Nat
  PROVE  dynamic_assay(amount, num, den, limit) \in Nat
<1> DEFINE scale == FLAKES_PER_OPL * FLAKES_PER_OPL
           divisor == DECIMAL_PLACES * ISqrtFloor(limit * scale)
           root == ISqrtFloor((num * scale) \div den)
<1>1. scale \in Nat
  BY FlakesAssumption, ProductNat
<1> HIDE DEF scale
<1>2. limit * scale \in Nat /\ num * scale \in Nat
  BY <1>1, ProductNat
<1>3. divisor \in Nat
  <2>1. ISqrtFloor(limit * scale) \in Nat
    BY <1>2, SqrtNat
  <2> QED  BY <2>1, DecimalAssumption, ProductNat
<1> HIDE DEF divisor
<1>4. CASE den = 0 \/ divisor = 0
  BY <1>4 DEF dynamic_assay, scale, divisor
<1>5. CASE den # 0 /\ divisor # 0
  <2>1. (num * scale) \div den \in Nat
    <3> DEFINE p == num * scale
    <3>1. p \in Nat /\ den > 0
      BY <1>2, <1>5
    <3> HIDE DEF p
    <3>2. p \div den \in Nat
      BY <3>1, DivNat
    <3> QED  BY <3>2 DEF p
  <2>2. root \in Nat
    BY <2>1, SqrtNat
  <2> HIDE DEF root
  <2>3. amount * root \in Nat
    BY <2>2, ProductNat
  <2>4. (amount * root) \div divisor \in Nat
    <3> DEFINE p == amount * root
    <3>1. p \in Nat /\ divisor > 0
      BY <2>3, <1>3, <1>5
    <3> HIDE DEF p
    <3>2. p \div divisor \in Nat
      BY <1>3, <3>1, DivNat
    <3> QED  BY <3>2 DEF p
  <2>5. dynamic_assay(amount, num, den, limit) = (amount * root) \div divisor
    BY <1>5 DEF dynamic_assay, scale, divisor, root
  <2> QED  BY <2>4, <2>5
<1> QED  BY <1>4, <1>5

LEMMA AssayTypes ==
  ASSUME NEW amount \in Nat, NEW bonded \in Nat, NEW issued \in Nat
  PROVE  /\ bond_assay(amount, bonded, issued) \in Nat
         /\ unbond_assay(amount, bonded, issued) \in Nat
<1>1. assay_baseline(issued) \in Nat /\ active_refiner_limit(issued) \in Nat
  BY LimitTypes, ProductNat DEF assay_baseline
<1>2. bonded + amount \in Nat
  OBVIOUS
<1> QED  BY <1>1, <1>2, DynamicAssayNat DEF bond_assay, unbond_assay

(* The burned part of a refined block's fees is at most the fees. *)
LEMMA FeeBurnBound ==
  ASSUME NEW f \in Nat, NEW active \in Nat, NEW limit \in Nat
  PROVE  por_fee_burn(f, active, limit) \in Nat /\ por_fee_burn(f, active, limit) <= f
<1>1. CASE active = 0
  BY <1>1 DEF por_fee_burn
<1>2. CASE active # 0
  <2>1. limit + active \in Nat /\ limit + active > 0 /\ active <= limit + active
    BY <1>2
  <2>2. /\ (f * active) \div (limit + active) \in Nat
        /\ (f * active) \div (limit + active) <= f
    <3> DEFINE b == limit + active
    <3>1. b \in Nat /\ b > 0 /\ active <= b
      BY <2>1
    <3> HIDE DEF b
    <3>2. (f * active) \div b \in Nat /\ (f * active) \div b <= f
      BY <3>1, ScaledDown
    <3> QED  BY <3>2 DEF b
  <2> QED  BY <1>2, <2>2 DEF por_fee_burn
<1> QED  BY <1>1, <1>2

(* The difficulty of a block is at least MIN_DIFFICULTY = 1. *)
LEMMA DifficultyType ==
  ASSUME NEW retarget \in Nat, NEW issued \in Nat, NEW bonded \in Nat
  PROVE  /\ effective_difficulty(retarget, issued, bonded) \in Nat
         /\ effective_difficulty(retarget, issued, bonded) >= 1
<1>1. compute_consensus_floor(issued, bonded) \in Nat
  <2>1. CASE bonded = 0
    BY <2>1 DEF compute_consensus_floor
  <2>2. CASE bonded # 0
    <3>1. bonded > 0
      BY <2>2
    <3>2. issued \div bonded \in Nat
      BY <3>1, DivNat
    <3> QED  BY <2>2, <3>2 DEF compute_consensus_floor
  <2> QED  BY <2>1, <2>2
<1> DEFINE floor == compute_consensus_floor(issued, bonded)
<1> HIDE DEF floor
<1>2. floor \in Nat
  BY <1>1 DEF floor
<1>3. MaxOf(MaxOf(retarget, floor), 1) \in Nat /\ MaxOf(MaxOf(retarget, floor), 1) >= 1
  BY <1>2 DEF MaxOf
<1> QED  BY <1>3 DEF effective_difficulty, floor

(* The gross reward is an amount and the mine assay takes at most all of   *)
(* it, so that net = gross - assay never needs the saturating subtraction. *)
LEMMA RewardTypes ==
  ASSUME NEW d \in 1 .. MAX_POW_BITS, NEW yield \in Nat
  PROVE  LET gross == compute_block_reward(d, yield)
         IN  /\ gross \in Nat
             /\ compute_mine_assay(gross, d) \in Nat
             /\ compute_mine_assay(gross, d) <= gross
<1> DEFINE gross == compute_block_reward(d, yield)
           pressure == MaxOf(ISqrtRound(d), 1)
<1>1. d \in Nat /\ d > 0
  BY PowBitsAssumption
<1>2. BASE_REWARD \div d \in Nat
  BY <1>1, RewardAssumption, DivNat
<1>3. (BASE_REWARD \div d) * yield \in Nat
  BY <1>2, ProductNat
<1>4. gross \in Nat
  <2> DEFINE p == (BASE_REWARD \div d) * yield
  <2>1. p \in Nat
    BY <1>3
  <2> HIDE DEF p
  <2>2. p \div 1000 \in Nat
    BY <2>1, DivNat
  <2> QED  BY <2>2 DEF p, compute_block_reward
<1>5. pressure \in Nat /\ pressure <= EPOCH /\ EPOCH \in Nat /\ EPOCH > 0
  BY MineAssayAssumption, EpochAssumption DEF MaxOf
<1> HIDE DEF gross, pressure
<1>6. (gross * pressure) \div EPOCH \in Nat /\ (gross * pressure) \div EPOCH <= gross
  BY <1>4, <1>5, ScaledDown
<1>7. compute_mine_assay(gross, d) = (gross * pressure) \div EPOCH
  BY DEF compute_mine_assay, pressure
<1>8. /\ gross \in Nat
      /\ compute_mine_assay(gross, d) \in Nat
      /\ compute_mine_assay(gross, d) <= gross
  BY <1>4, <1>6, <1>7
<1> QED  BY <1>8 DEF gross

-----------------------------------------------------------------------------
LEMMA IndexSets ==
  /\ IsFiniteSet(Heights) /\ IsFiniteSet(Maturities)
  /\ Heights \subseteq Nat /\ Maturities \subseteq Nat
  /\ IsFiniteSet(Accounts)
<1>1. 0 \in Int /\ MaxHeight \in Int /\ MaxHeight + EPOCH \in Int
  BY MaxHeightAssumption, EpochAssumption
<1>2. IsFiniteSet(Heights) /\ IsFiniteSet(Maturities)
  BY <1>1, FS_Interval DEF Heights, Maturities
<1> QED  BY <1>2, AccountsAssumption DEF Heights, Maturities

LEMMA StakeNat ==
  ASSUME NEW es \in [Heights -> Nat]
  PROVE  /\ TotalStake(es) \in Nat
         /\ \A h \in Heights : es[h] <= TotalStake(es)
<1>1. \A h \in Heights : es[h] \in Nat
  OBVIOUS
<1>2. TotalStake(es) \in Nat
  BY <1>1, IndexSets, SumNonnegative DEF TotalStake
<1>3. ASSUME NEW h \in Heights PROVE es[h] <= TotalStake(es)
  BY <1>1, IndexSets, SumBound DEF TotalStake
<1> QED  BY <1>2, <1>3

LEMMA PendingNat ==
  ASSUME NEW q \in [Maturities -> Nat]
  PROVE  /\ PendingTotal(q) \in Nat
         /\ \A m \in Maturities : q[m] <= PendingTotal(q)
<1>1. \A m \in Maturities : q[m] \in Nat
  OBVIOUS
<1>2. PendingTotal(q) \in Nat
  BY <1>1, IndexSets, SumNonnegative DEF PendingTotal
<1>3. ASSUME NEW m \in Maturities PROVE q[m] <= PendingTotal(q)
  BY <1>1, IndexSets, SumBound DEF PendingTotal
<1> QED  BY <1>2, <1>3

(* Without entries there is no stake, without stake no entries. *)
LEMMA StakeZero ==
  ASSUME NEW es \in [Heights -> Nat]
  PROVE  TotalStake(es) = 0 <=> \A h \in Heights : es[h] = 0
<1>1. ASSUME TotalStake(es) = 0, NEW h \in Heights PROVE es[h] = 0
  BY <1>1, StakeNat
<1>2. ASSUME \A h \in Heights : es[h] = 0 PROVE TotalStake(es) = 0
  BY <1>2, IndexSets, SumZero DEF TotalStake
<1> QED  BY <1>1, <1>2

LEMMA PendingZero ==
  ASSUME NEW q \in [Maturities -> Nat]
  PROVE  PendingTotal(q) = 0 <=> \A m \in Maturities : q[m] = 0
<1>1. ASSUME PendingTotal(q) = 0, NEW m \in Maturities PROVE q[m] = 0
  BY <1>1, PendingNat
<1>2. ASSUME \A m \in Maturities : q[m] = 0 PROVE PendingTotal(q) = 0
  BY <1>2, IndexSets, SumZero DEF PendingTotal
<1> QED  BY <1>1, <1>2

(* Bonding adds exactly the stake. *)
LEMMA BondTotal ==
  ASSUME NEW es \in [Heights -> Nat], NEW h \in Heights, NEW stake \in Nat,
         NEW new \in [Heights -> Nat],
         \A x \in Heights : new[x] = IF x = h THEN es[x] + stake ELSE es[x]
  PROVE  TotalStake(new) = TotalStake(es) + stake
<1>2. \A x \in Heights : es[x] \in Int /\ new[x] \in Int /\ (x # h => new[x] = es[x])
  OBVIOUS
<1>3. TotalStake(new) = TotalStake(es) - es[h] + new[h]
  <2>1. IsFiniteSet(Heights)
    BY IndexSets
  <2>2. SumFunctionOnSet(new, Heights) = SumFunctionOnSet(es, Heights) - es[h] + new[h]
    BY <1>2, <2>1, SumChange
  <2> QED  BY <2>2 DEF TotalStake
<1>4. TotalStake(es) \in Nat /\ es[h] \in Nat /\ new[h] = es[h] + stake
  BY StakeNat
<1> QED  BY <1>3, <1>4

(* Queueing a withdrawal adds exactly its amount. *)
LEMMA QueueTotal ==
  ASSUME NEW q \in [Maturities -> Nat], NEW m \in Maturities, NEW amount \in Nat,
         NEW new \in [Maturities -> Nat],
         \A x \in Maturities : new[x] = IF x = m THEN q[x] + amount ELSE q[x]
  PROVE  PendingTotal(new) = PendingTotal(q) + amount
<1>2. \A x \in Maturities : q[x] \in Int /\ new[x] \in Int /\ (x # m => new[x] = q[x])
  OBVIOUS
<1>3. PendingTotal(new) = PendingTotal(q) - q[m] + new[m]
  <2>1. IsFiniteSet(Maturities)
    BY IndexSets
  <2>2. SumFunctionOnSet(new, Maturities) = SumFunctionOnSet(q, Maturities) - q[m] + new[m]
    BY <1>2, <2>1, SumChange
  <2> QED  BY <2>2 DEF PendingTotal
<1>4. PendingTotal(q) \in Nat /\ q[m] \in Nat /\ new[m] = q[m] + amount
  BY PendingNat
<1> QED  BY <1>3, <1>4

(* A matured withdrawal is either paid out or still queued, never both. *)
LEMMA MaturedSplit ==
  ASSUME NEW q \in [Maturities -> Nat], NEW h \in Nat,
         NEW rest \in [Maturities -> Nat],
         \A m \in Maturities : rest[m] = IF m <= h THEN 0 ELSE q[m]
  PROVE  /\ MaturedAmount(q, h) \in Nat
         /\ MaturedAmount(q, h) + PendingTotal(rest) = PendingTotal(q)
<1> DEFINE paid == [m \in Maturities |-> IF m <= h THEN q[m] ELSE 0]
<1>1. paid \in [Maturities -> Nat]
  OBVIOUS
<1>2. \A m \in Maturities : paid[m] \in Int /\ rest[m] \in Int /\ q[m] = paid[m] + rest[m]
  BY IndexSets
<1>3. MaturedAmount(q, h) = PendingTotal(paid)
  BY DEF MaturedAmount, PendingTotal
<1> HIDE DEF paid
<1>4. PendingTotal(q) = PendingTotal(paid) + PendingTotal(rest)
  <2>1. IsFiniteSet(Maturities)
    BY IndexSets
  <2>2. SumFunctionOnSet(q, Maturities) =
          SumFunctionOnSet(paid, Maturities) + SumFunctionOnSet(rest, Maturities)
    BY <1>2, <2>1, SumAdd
  <2> QED  BY <2>2 DEF PendingTotal
<1>5. PendingTotal(paid) \in Nat
  BY <1>1, PendingNat
<1> QED  BY <1>1, <1>3, <1>4, <1>5

(* unbond_fifo leaves stake - amount: after every prefix of the entries    *)
(* what is left is the prefix's stake less the amount, or nothing.         *)
LEMMA FifoTotal ==
  ASSUME NEW es \in [Heights -> Nat], NEW amount \in Nat, amount <= TotalStake(es)
  PROVE  /\ UnbondFifo(es, amount) \in [Heights -> Nat]
         /\ TotalStake(UnbondFifo(es, amount)) = TotalStake(es) - amount
<1> DEFINE new == UnbondFifo(es, amount)
           Old(n) == SumFunctionOnSet(es, 0 .. n)
           New(n) == SumFunctionOnSet(new, 0 .. n)
<1>0. MaxHeight \in Nat /\ Heights = 0 .. MaxHeight
  BY MaxHeightAssumption DEF Heights
<1>1. ASSUME NEW n \in Heights
      PROVE  /\ Old(n) = Old(n - 1) + es[n]
             /\ Old(n - 1) \in Nat
  <2>1. n \in Nat /\ \A k \in 0 .. n : es[k] \in Int
    BY <1>0
  <2>2. Old(n) = Old(n - 1) + es[n]
    BY <2>1, SumPrefix
  <2>3. IsFiniteSet(0 .. (n - 1)) /\ \A k \in 0 .. (n - 1) : es[k] \in Nat
    <3>1. 0 \in Int /\ n - 1 \in Int
      BY <2>1
    <3>2. IsFiniteSet(0 .. (n - 1))
      BY <3>1, FS_Interval
    <3>3. \A k \in 0 .. (n - 1) : k \in Heights
      BY <1>0
    <3> QED  BY <3>2, <3>3
  <2>4. Old(n - 1) \in Nat
    BY <2>3, SumNonnegative
  <2> QED  BY <2>2, <2>4
<1>2. ASSUME NEW n \in Heights
      PROVE  new[n] = IF Old(n - 1) + es[n] <= amount THEN 0
                      ELSE IF Old(n - 1) >= amount THEN es[n]
                      ELSE Old(n - 1) + es[n] - amount
  BY DEF UnbondFifo
<1>3. new \in [Heights -> Nat]
  <2>1. \A n \in Heights : new[n] \in Nat
    <3> TAKE n \in Heights
    <3>1. Old(n - 1) \in Nat /\ es[n] \in Nat
      BY <1>1
    <3> HIDE DEF Old, new
    <3> QED  BY <1>2, <3>1
  <2>2. new = [n \in Heights |-> new[n]]
    BY DEF UnbondFifo
  <2> HIDE DEF new
  <2> QED  BY <2>1, <2>2
<1> HIDE DEF new
<1>4. ASSUME NEW n \in Heights
      PROVE  /\ New(n) = New(n - 1) + new[n]
             /\ New(n - 1) \in Int
  <2>1. n \in Nat /\ \A k \in 0 .. n : new[k] \in Int
    BY <1>0, <1>3
  <2> QED  BY <2>1, SumPrefix
<1> DEFINE P == {n \in Nat : n \in Heights =>
                    New(n) = IF Old(n) <= amount THEN 0 ELSE Old(n) - amount}
<1>5. Old(-1) = 0 /\ New(-1) = 0
  <2>1. 0 .. (-1) = {}
    OBVIOUS
  <2> QED  BY <2>1, SumEmpty
<1>6. ASSUME NEW n \in Heights,
             New(n - 1) = IF Old(n - 1) <= amount THEN 0 ELSE Old(n - 1) - amount
      PROVE  New(n) = IF Old(n) <= amount THEN 0 ELSE Old(n) - amount
  <2>1. Old(n - 1) \in Nat /\ es[n] \in Nat /\ new[n] \in Nat /\ New(n - 1) \in Int
    BY <1>1, <1>3, <1>4
  <2>2. Old(n) = Old(n - 1) + es[n] /\ New(n) = New(n - 1) + new[n]
    BY <1>1, <1>4
  <2>3. new[n] = IF Old(n - 1) + es[n] <= amount THEN 0
                 ELSE IF Old(n - 1) >= amount THEN es[n]
                 ELSE Old(n - 1) + es[n] - amount
    BY <1>2
  <2> HIDE DEF Old, New
  <2> QED  BY <1>6, <2>1, <2>2, <2>3
<1>7. 0 \in P
  <2>1. 0 \in Heights /\ 0 - 1 = -1
    BY <1>0
  <2>2. New(0 - 1) = IF Old(0 - 1) <= amount THEN 0 ELSE Old(0 - 1) - amount
    BY <1>5, <2>1
  <2> HIDE DEF Old, New
  <2> QED  BY <1>6, <2>1, <2>2
<1>8. ASSUME NEW n \in P PROVE n + 1 \in P
  <2>1. n \in Nat /\ n + 1 \in Nat /\ (n + 1) - 1 = n
    OBVIOUS
  <2>2. ASSUME n + 1 \in Heights
        PROVE  New(n + 1) = IF Old(n + 1) <= amount THEN 0 ELSE Old(n + 1) - amount
    <3>1. n \in Heights
      BY <1>0, <2>1, <2>2
    <3>2. New(n) = IF Old(n) <= amount THEN 0 ELSE Old(n) - amount
      BY <3>1
    <3>3. New((n + 1) - 1) = IF Old((n + 1) - 1) <= amount THEN 0
                             ELSE Old((n + 1) - 1) - amount
      BY <2>1, <3>2
    <3> HIDE DEF Old, New
    <3> QED  BY <1>6, <2>2, <3>3
  <2> HIDE DEF Old, New
  <2> QED  BY <2>1, <2>2
<1>9. P = Nat
  <2>1. P \in SUBSET Nat
    OBVIOUS
  <2> HIDE DEF P
  <2> QED  BY <1>7, <1>8, <2>1, NatSetInduction
<1>10. New(MaxHeight) = IF Old(MaxHeight) <= amount THEN 0 ELSE Old(MaxHeight) - amount
  BY <1>0, <1>9
<1>11. Old(MaxHeight) = TotalStake(es) /\ New(MaxHeight) = TotalStake(new)
  BY <1>0 DEF TotalStake
<1>12. TotalStake(new) = TotalStake(es) - amount
  <2>1. TotalStake(es) \in Nat
    BY StakeNat
  <2> HIDE DEF Old, New
  <2> QED  BY <1>10, <1>11, <2>1
<1> QED  BY <1>3, <1>12 DEF new

(* Bonded stake is an amount. *)
LEMMA BondedNat ==
  ASSUME NEW es \in [Accounts -> [Heights -> Nat]], NEW st, NEW active
  PROVE  total_bonded_stake(es, st, active) \in Nat
<1> DEFINE f == [r \in Accounts |->
                   IF r \in active /\ st[r] # "None" THEN TotalStake(es[r]) ELSE 0]
           g == [r \in Accounts |->
                   IF st[r] \in {"Bonding", "Waiting"} THEN TotalStake(es[r]) ELSE 0]
<1>1. \A r \in Accounts : TotalStake(es[r]) \in Nat
  BY StakeNat
<1>2. \A r \in Accounts : f[r] \in Nat /\ g[r] \in Nat
  BY <1>1
<1>3. total_bonded_stake(es, st, active) =
        SumFunctionOnSet(f, Accounts) + SumFunctionOnSet(g, Accounts)
  BY DEF total_bonded_stake
<1> HIDE DEF f, g
<1>4. SumFunctionOnSet(f, Accounts) \in Nat /\ SumFunctionOnSet(g, Accounts) \in Nat
  BY <1>2, IndexSets, SumNonnegative
<1> QED  BY <1>3, <1>4

-----------------------------------------------------------------------------
(* The operators of the refiner set return fields of the right type. *)
LEMMA SlashTypes ==
  ASSUME NEW es \in [Accounts -> [Heights -> Nat]],
         NEW st \in [Accounts -> Statuses],
         NEW queue \in [Accounts -> [Maturities -> Nat]], NEW evidence
  PROVE  /\ SlashEntries(es, st, evidence) \in [Accounts -> [Heights -> Nat]]
         /\ SlashQueue(queue, evidence) \in [Accounts -> [Maturities -> Nat]]
         /\ SlashStatus(st, evidence) \in [Accounts -> Statuses]
         /\ SlashBurn(es, st, queue, evidence) \in Nat
<1>1. SlashEntries(es, st, evidence) \in [Accounts -> [Heights -> Nat]]
  BY DEF SlashEntries
<1>2. SlashQueue(queue, evidence) \in [Accounts -> [Maturities -> Nat]]
  BY DEF SlashQueue
<1>3. SlashStatus(st, evidence) \in [Accounts -> Statuses]
  BY DEF SlashStatus, Statuses
<1>4. SlashBurn(es, st, queue, evidence) \in Nat
  <2> DEFINE f == [r \in Accounts |->
                     IF r \notin evidence THEN 0
                     ELSE PendingTotal(queue[r]) +
                          (IF st[r] \in {"None", "Slashed"} THEN 0 ELSE TotalStake(es[r]))]
  <2>1. \A r \in Accounts : PendingTotal(queue[r]) \in Nat /\ TotalStake(es[r]) \in Nat
    BY StakeNat, PendingNat
  <2>2. \A r \in Accounts : f[r] \in Nat
    BY <2>1
  <2>3. SlashBurn(es, st, queue, evidence) = SumFunctionOnSet(f, Accounts)
    BY DEF SlashBurn
  <2> HIDE DEF f
  <2> QED  BY <2>2, <2>3, IndexSets, SumNonnegative
<1> QED  BY <1>1, <1>2, <1>3, <1>4

LEMMA RankTypes ==
  ASSUME NEW es, NEW st \in [Accounts -> Statuses],
         NEW h, NEW gone, NEW limit, NEW active, active \subseteq Accounts
  PROVE  /\ RemoveWithdrawn(st, gone) \in [Accounts -> Statuses]
         /\ ActivateMatured(st, es, h) \in [Accounts -> Statuses]
         /\ Rerank(st, es, limit) \in [Accounts -> Statuses]
         /\ RerankActive(active, st, es, limit) \subseteq Accounts
<1>1. RemoveWithdrawn(st, gone) \in [Accounts -> Statuses]
  BY DEF RemoveWithdrawn, Statuses
<1>2. ActivateMatured(st, es, h) \in [Accounts -> Statuses]
  BY DEF ActivateMatured, Statuses
<1>3. Rerank(st, es, limit) \in [Accounts -> Statuses]
  BY DEF Rerank, Statuses
<1>4. RerankActive(active, st, es, limit) \subseteq Accounts
  BY DEF RerankActive
<1> QED  BY <1>1, <1>2, <1>3, <1>4

-----------------------------------------------------------------------------

(* Facts about the inputs of a block that several steps need. *)
LEMMA BlockInputs ==
  ASSUME TypeOK, NEW retarget \in RetargetValues
  PROVE  /\ BondedStake \in Nat
         /\ NextDifficulty(retarget) \in Nat
         /\ NextDifficulty(retarget) >= 1
<1>1. BondedStake \in Nat
  BY BondedNat DEF TypeOK, BondedStake
<1>2. retarget \in Nat /\ total_issued \in Nat
  BY InputAssumption DEF TypeOK, RetargetValues
<1> QED  BY <1>1, <1>2, DifficultyType DEF NextDifficulty

(* The fees burned at the end of a block are at most the fees collected. *)
LEMMA FeesBurnedBound ==
  ASSUME TypeOK
  PROVE  FeesBurned \in Nat /\ FeesBurned <= fees
<1>1. fees \in Nat /\ block.active \in Nat /\ block.limit \in Nat
  BY DEF TypeOK, Blocks
<1>2. por_fee_burn(fees, block.active, block.limit) \in Nat
  BY <1>1, FeeBurnBound
<1>3. por_fee_burn(fees, block.active, block.limit) <= fees
  BY <1>1, FeeBurnBound
<1> QED  BY <1>1, <1>2, <1>3 DEF FeesBurned

LEMMA InitType == Init => TypeOK
<1> SUFFICES ASSUME Init PROVE TypeOK
  OBVIOUS
<1>1. SumFunctionOnSet(GenesisBalance, Accounts) \in Nat
  BY GenesisAssumption, IndexSets, SumNonnegative
<1>2. block \in Blocks
  BY DEF Init, NoBlock, Blocks
<1> QED  BY <1>1, <1>2, GenesisAssumption, InputAssumption, MaxHeightAssumption
         DEF Init, TypeOK, Heights, Statuses

(* Slashing keeps the fields it touches in their types. *)
LEMMA SlashEvidenceType ==
  ASSUME TypeOK, NEW evidence \in SUBSET Accounts, SlashEvidence(evidence)
  PROVE  /\ entries' \in [Accounts -> [Heights -> Nat]]
         /\ unbonding' \in [Accounts -> [Maturities -> Nat]]
         /\ status' \in [Accounts -> Statuses]
         /\ active_set' \subseteq Accounts
         /\ SlashBurn(entries, status, unbonding, evidence) \in Nat
         /\ total_burned' \in Nat
<1>1. /\ entries \in [Accounts -> [Heights -> Nat]]
      /\ status \in [Accounts -> Statuses]
      /\ unbonding \in [Accounts -> [Maturities -> Nat]]
      /\ active_set \subseteq Accounts
      /\ total_burned \in Nat
  BY DEF TypeOK
<1>2. /\ SlashEntries(entries, status, evidence) \in [Accounts -> [Heights -> Nat]]
      /\ SlashQueue(unbonding, evidence) \in [Accounts -> [Maturities -> Nat]]
      /\ SlashStatus(status, evidence) \in [Accounts -> Statuses]
      /\ SlashBurn(entries, status, unbonding, evidence) \in Nat
  BY <1>1, SlashTypes
<1> QED  BY <1>1, <1>2 DEF SlashEvidence

LEMMA MinedType ==
  ASSUME TypeOK, NEW p \in Accounts, NEW evidence \in SUBSET Accounts,
         NEW retarget \in RetargetValues, NEW yield \in Yields,
         BeginMinedBlock(p, evidence, retarget, yield)
  PROVE  TypeOK'
<1> DEFINE d == NextDifficulty(retarget)
           gross == compute_block_reward(d, yield)
           assay == compute_mine_assay(gross, d)
           burn == SlashBurn(entries, status, unbonding, evidence)
<1>1. d \in 1 .. MAX_POW_BITS
  BY BlockInputs, PowBitsAssumption DEF BeginMinedBlock
<1>2. gross \in Nat /\ assay \in Nat
  <2>1. yield \in Nat
    BY InputAssumption
  <2> HIDE DEF d
  <2> QED  BY <1>1, <2>1, RewardTypes
<1>3. /\ entries' \in [Accounts -> [Heights -> Nat]]
      /\ unbonding' \in [Accounts -> [Maturities -> Nat]]
      /\ status' \in [Accounts -> Statuses]
      /\ active_set' \subseteq Accounts
      /\ burn \in Nat
      /\ total_burned' \in Nat
  <2>1. SlashEvidence(evidence)
    BY DEF BeginMinedBlock
  <2> QED  BY <2>1, SlashEvidenceType
<1>4. balance' \in [Accounts -> Nat]
  <2>1. SatSub(gross, assay) \in Nat
    BY <1>2 DEF SatSub
  <2>2. balance' = [balance EXCEPT ![p] = @ + SatSub(gross, assay)]
    BY DEF BeginMinedBlock
  <2> HIDE DEF gross, assay
  <2> QED  BY <2>1, <2>2 DEF TypeOK
<1>5. /\ block' = [kind |-> "Mined", producer |-> p, difficulty |-> d,
                   gross |-> gross, mine_assay |-> assay, slashed |-> burn,
                   active |-> 0, limit |-> 0]
      /\ current_height < MaxHeight
  BY DEF BeginMinedBlock
<1>6. block' \in Blocks /\ block'.kind # "None"
  <2>1. d \in Nat
    BY <1>1
  <2> HIDE DEF d, gross, assay, burn
  <2> QED  BY <1>2, <1>3, <1>5, <2>1 DEF Blocks
<1>7. UNCHANGED <<nonce, keyed, total_issued, current_height, current_difficulty,
                  mint_ledger, fees, assays>>
  BY DEF BeginMinedBlock
<1> HIDE DEF d, gross, assay, burn
<1> QED  BY <1>3, <1>4, <1>5, <1>6, <1>7 DEF TypeOK

LEMMA RefinedType ==
  ASSUME TypeOK, NEW p \in Accounts, NEW evidence \in SUBSET Accounts,
         NEW retarget \in RetargetValues, NEW ticket,
         BeginRefinedBlock(p, evidence, retarget, ticket)
  PROVE  TypeOK'
<1> DEFINE burn == SlashBurn(entries, status, unbonding, evidence)
<1>1. /\ entries' \in [Accounts -> [Heights -> Nat]]
      /\ unbonding' \in [Accounts -> [Maturities -> Nat]]
      /\ status' \in [Accounts -> Statuses]
      /\ active_set' \subseteq Accounts
      /\ burn \in Nat
      /\ total_burned' \in Nat
  <2>1. SlashEvidence(evidence)
    BY DEF BeginRefinedBlock
  <2> QED  BY <2>1, SlashEvidenceType
<1>2. Cardinality(active_set) \in Nat
  <2>1. IsFiniteSet(active_set)
    BY IndexSets, FS_Subset DEF TypeOK
  <2> QED  BY <2>1, FS_CardinalityType
<1>3. active_refiner_limit(total_issued) \in Nat
  BY LimitTypes DEF TypeOK
<1>4. NextDifficulty(retarget) \in Nat
  BY BlockInputs
<1>5. /\ block' = [kind |-> "Refined", producer |-> p,
                   difficulty |-> NextDifficulty(retarget), gross |-> 0, mine_assay |-> 0,
                   slashed |-> burn, active |-> Cardinality(active_set),
                   limit |-> active_refiner_limit(total_issued)]
      /\ current_height < MaxHeight
  BY DEF BeginRefinedBlock
<1>6. UNCHANGED <<balance, nonce, keyed, total_issued, current_height,
                  current_difficulty, mint_ledger, fees, assays>>
  BY DEF BeginRefinedBlock
<1> HIDE DEF burn
<1>7. block' \in Blocks /\ block'.kind # "None"
  BY <1>1, <1>2, <1>3, <1>4, <1>5 DEF Blocks
<1> QED  BY <1>1, <1>5, <1>6, <1>7 DEF TypeOK

(* The part of a transaction's effect that all three handlers share. *)
LEMMA TransactType ==
  ASSUME TypeOK, NEW s \in Accounts, NEW fee \in Fees, NEW assay \in Nat,
         Transact(s, fee, assay)
  PROVE  /\ fee \in Nat
         /\ nonce' \in [Accounts -> 0 .. MaxTxs]
         /\ keyed' \subseteq Accounts
         /\ fees' \in Nat
         /\ assays' \in Nat
         /\ UNCHANGED <<chainVars, block>>
         /\ block # NoBlock
         /\ current_height < MaxHeight
<1>1. fee \in Nat
  BY InputAssumption
<1> QED  BY <1>1, InputAssumption DEF Transact, TypeOK

LEMMA TransferType ==
  ASSUME TypeOK, NEW s \in Accounts, NEW to \in Accounts,
         NEW amount \in Amounts, NEW fee \in Fees,
         ApplyTransfer(s, to, amount, fee)
  PROVE  TypeOK'
<1>1. Transact(s, fee, 0)
  BY DEF ApplyTransfer
<1>2. amount \in Nat /\ fee \in Nat
  BY InputAssumption
<1>3. balance' \in [Accounts -> Nat]
  BY <1>2 DEF ApplyTransfer, TypeOK
<1>4. UNCHANGED refinerVars
  BY DEF ApplyTransfer
<1> QED  BY <1>1, <1>3, <1>4, TransactType DEF TypeOK, refinerVars, chainVars

LEMMA BondType ==
  ASSUME TypeOK, NEW s \in Accounts, NEW stake \in Amounts, NEW fee \in Fees,
         ApplyBond(s, stake, fee)
  PROVE  TypeOK'
<1> DEFINE assay == bond_assay(stake, BondedStake, total_issued)
<1>1. stake \in Nat /\ fee \in Nat /\ assay \in Nat
  BY InputAssumption, BondedNat, AssayTypes DEF TypeOK, BondedStake
<1>2. /\ balance[s] >= stake + fee + assay
      /\ Transact(s, fee, assay)
      /\ balance' = [balance EXCEPT ![s] = @ - (stake + fee + assay)]
      /\ entries' = BondEntries(entries, s, stake, BlockHeight)
      /\ status' = BondStatus(status, s)
      /\ UNCHANGED <<active_set, unbonding>>
  BY DEF ApplyBond
<1> HIDE DEF assay
<1>3. balance' \in [Accounts -> Nat]
  BY <1>1, <1>2 DEF TypeOK
<1>4. entries' \in [Accounts -> [Heights -> Nat]]
  <2>1. current_height < MaxHeight
    BY <1>1, <1>2, TransactType
  <2>2. BlockHeight \in Heights
    BY <2>1, MaxHeightAssumption DEF TypeOK, BlockHeight, Heights
  <2> QED  BY <1>1, <1>2, <2>2 DEF TypeOK, BondEntries
<1>5. status' \in [Accounts -> Statuses]
  BY <1>2 DEF TypeOK, BondStatus, Statuses
<1> QED  BY <1>1, <1>2, <1>3, <1>4, <1>5, TransactType DEF TypeOK, chainVars

LEMMA UnbondType ==
  ASSUME TypeOK, NEW s \in Accounts, NEW amount \in Amounts, NEW fee \in Fees,
         ApplyUnbond(s, amount, fee)
  PROVE  TypeOK'
<1> DEFINE assay == unbond_assay(amount, BondedStake, total_issued)
           left == UnbondFifo(entries[s], amount)
<1>1. amount \in Nat /\ fee \in Nat /\ assay \in Nat
  BY InputAssumption, BondedNat, AssayTypes DEF TypeOK, BondedStake
<1>2. /\ balance[s] >= fee + assay
      /\ amount <= TotalStake(entries[s])
      /\ Transact(s, fee, assay)
      /\ balance' = [balance EXCEPT ![s] = @ - (fee + assay)]
      /\ entries' = [entries EXCEPT ![s] = left]
      /\ unbonding' = UnbondQueue(unbonding, s, amount, BlockHeight)
      /\ status' = UnbondStatus(status, s, left)
      /\ active_set' = UnbondActive(active_set, s, left)
  BY DEF ApplyUnbond
<1>3. left \in [Heights -> Nat]
  <2>1. entries[s] \in [Heights -> Nat]
    BY DEF TypeOK
  <2> QED  BY <1>1, <1>2, <2>1, FifoTotal
<1> HIDE DEF assay, left
<1>4. balance' \in [Accounts -> Nat]
  BY <1>1, <1>2 DEF TypeOK
<1>5. entries' \in [Accounts -> [Heights -> Nat]]
  BY <1>2, <1>3 DEF TypeOK
<1>6. unbonding' \in [Accounts -> [Maturities -> Nat]]
  <2>1. current_height < MaxHeight
    BY <1>1, <1>2, TransactType
  <2>2. BlockHeight + EPOCH \in Maturities
    BY <2>1, MaxHeightAssumption, EpochAssumption DEF TypeOK, BlockHeight, Heights, Maturities
  <2> QED  BY <1>1, <1>2, <2>2 DEF TypeOK, UnbondQueue
<1>7. status' \in [Accounts -> Statuses]
  BY <1>2 DEF TypeOK, UnbondStatus, Statuses
<1>8. active_set' \subseteq Accounts
  BY <1>2 DEF TypeOK, UnbondActive
<1> QED  BY <1>1, <1>2, <1>4, <1>5, <1>6, <1>7, <1>8, TransactType DEF TypeOK, chainVars

LEMMA FinishType ==
  ASSUME TypeOK, FinishBlock
  PROVE  TypeOK'
<1> DEFINE h == BlockHeight
           income == [a \in Accounts |-> IF a = block.producer THEN fees - FeesBurned ELSE 0]
           issued == total_issued + block.gross
           burned == FeesBurned + assays + block.mine_assay
           gone == Withdrawn(entries, status, unbonding, h)
           removed == RemoveWithdrawn(status, gone)
           waiting == ActivateMatured(removed, entries, h)
           limit == active_refiner_limit(issued)
<1>1. /\ balance' = [a \in Accounts |->
                        balance[a] + income[a] + MaturedAmount(unbonding[a], h)]
      /\ unbonding' = DrainMatured(unbonding, h)
      /\ \/ status' = Rerank(waiting, entries, limit)
         \/ status' = waiting
      /\ \/ active_set' = RerankActive(active_set \ gone, waiting, entries, limit)
         \/ active_set' = active_set \ gone
      /\ total_issued' = issued
      /\ total_burned' = total_burned + burned
      /\ current_height' = h
      /\ current_difficulty' = block.difficulty
      /\ mint_ledger' = [genesis |-> mint_ledger.genesis,
                          gross |-> mint_ledger.gross + block.gross,
                          burned |-> mint_ledger.burned + burned + block.slashed]
      /\ block' = NoBlock /\ fees' = 0 /\ assays' = 0
      /\ UNCHANGED <<nonce, keyed, entries>>
      /\ block # NoBlock
  BY DEF FinishBlock
<1>2. /\ block.gross \in Nat /\ block.mine_assay \in Nat /\ block.slashed \in Nat
      /\ block.difficulty \in Nat
  BY DEF TypeOK, Blocks
<1>3. FeesBurned \in Nat /\ FeesBurned <= fees
  BY FeesBurnedBound
<1>4. h \in Heights /\ h \in Nat
  BY <1>1, MaxHeightAssumption DEF TypeOK, BlockHeight, Heights
<1>5. issued \in Nat /\ burned \in Nat
  BY <1>2, <1>3 DEF TypeOK
<1>6. \A a \in Accounts : income[a] \in Nat
  BY <1>3 DEF TypeOK
<1>7. removed \in [Accounts -> Statuses] /\ waiting \in [Accounts -> Statuses]
  <2>1. status \in [Accounts -> Statuses] /\ {} \subseteq Accounts
    BY DEF TypeOK
  <2> HIDE DEF gone, h
  <2>2. removed \in [Accounts -> Statuses]
    BY <2>1, RankTypes
  <2> HIDE DEF removed
  <2>3. waiting \in [Accounts -> Statuses]
    BY <2>1, <2>2, RankTypes
  <2> QED  BY <2>2, <2>3
<1> HIDE DEF income, gone, removed, waiting, limit, h, issued, burned
<1>8. status' \in [Accounts -> Statuses] /\ active_set' \subseteq Accounts
  <2>1. active_set \ gone \subseteq Accounts
    BY DEF TypeOK
  <2>2. Rerank(waiting, entries, limit) \in [Accounts -> Statuses]
    BY <1>7, <2>1, RankTypes
  <2>3. RerankActive(active_set \ gone, waiting, entries, limit) \subseteq Accounts
    BY <1>7, <2>1, RankTypes
  <2> QED  BY <1>1, <1>7, <2>1, <2>2, <2>3
<1>9. unbonding' \in [Accounts -> [Maturities -> Nat]]
  BY <1>1 DEF TypeOK, DrainMatured
<1>10. \A a \in Accounts : MaturedAmount(unbonding[a], h) \in Nat
  <2> TAKE a \in Accounts
  <2>1. unbonding[a] \in [Maturities -> Nat] /\ unbonding'[a] \in [Maturities -> Nat]
    BY <1>9 DEF TypeOK
  <2>2. \A m \in Maturities : unbonding'[a][m] = IF m <= h THEN 0 ELSE unbonding[a][m]
    BY <1>1 DEF DrainMatured
  <2> QED  BY <1>4, <2>1, <2>2, MaturedSplit
<1>11. balance' \in [Accounts -> Nat]
  BY <1>1, <1>6, <1>10 DEF TypeOK
<1>12. mint_ledger' \in [genesis : Nat, gross : Nat, burned : Nat]
  BY <1>1, <1>2, <1>5 DEF TypeOK
<1>13. block' \in Blocks
  BY <1>1 DEF Blocks, NoBlock
<1>14. total_burned' \in Nat
  BY <1>1, <1>5 DEF TypeOK
<1>15. /\ nonce' \in [Accounts -> 0 .. MaxTxs] /\ keyed' \subseteq Accounts
       /\ entries' \in [Accounts -> [Heights -> Nat]]
  BY <1>1 DEF TypeOK
<1> QED  BY <1>1, <1>2, <1>4, <1>5, <1>8, <1>9, <1>11, <1>12, <1>13, <1>14, <1>15 DEF TypeOK

(* Every step keeps every variable in its type. *)
LEMMA NextType == TypeOK /\ [Next]_vars => TypeOK'
<1> SUFFICES ASSUME TypeOK, [Next]_vars PROVE TypeOK'
  OBVIOUS
<1>1. CASE BeginBlock
  BY <1>1, MinedType, RefinedType DEF BeginBlock
<1>2. CASE ApplyTransaction
  BY <1>2, TransferType, BondType, UnbondType DEF ApplyTransaction
<1>3. CASE FinishBlock
  BY <1>3, FinishType
<1>4. CASE UNCHANGED vars
  BY <1>4 DEF vars, accountVars, refinerVars, chainVars, blockVars, TypeOK
<1> QED  BY <1>1, <1>2, <1>3, <1>4 DEF Next

(* Type correctness of apply_block: in particular no balance, stake or     *)
(* burn ever becomes negative, whatever a block carries, so the checked    *)
(* subtractions of the code never fail behind its guards.                  *)
THEOREM TypeCorrect == Spec => []TypeOK
BY InitType, NextType, PTL DEF Spec

---------------------------------------------------------------------------
(* The safety invariants.  One lemma per action states what it does to     *)
(* each account's balance, stake and queue; the invariants follow from     *)
(* these.                                                                  *)

Stake(r) == TotalStake(entries[r])
Pending(r) == PendingTotal(unbonding[r])

LEMMA MoneyTypes ==
  ASSUME TypeOK, NEW r \in Accounts
  PROVE  balance[r] \in Nat /\ Stake(r) \in Nat /\ Pending(r) \in Nat
<1>1. balance[r] \in Nat /\ entries[r] \in [Heights -> Nat] /\ unbonding[r] \in [Maturities -> Nat]
  BY DEF TypeOK
<1> QED  BY <1>1, StakeNat, PendingNat DEF Stake, Pending

LEMMA MoneyTypesNext ==
  ASSUME TypeOK', NEW r \in Accounts
  PROVE  balance'[r] \in Nat /\ Stake(r)' \in Nat /\ Pending(r)' \in Nat
<1>1. balance'[r] \in Nat /\ entries'[r] \in [Heights -> Nat] /\ unbonding'[r] \in [Maturities -> Nat]
  BY DEF TypeOK
<1> QED  BY <1>1, StakeNat, PendingNat DEF Stake, Pending

(* Slashing burns the queue of every id in the evidence, and its stake     *)
(* when it has a record.                                                   *)
LEMMA SlashEffect ==
  ASSUME TypeOK, NEW evidence \in SUBSET Accounts, SlashEvidence(evidence),
         NEW r \in Accounts
  PROVE  /\ r \notin evidence => /\ Stake(r)' = Stake(r)
                                 /\ Pending(r)' = Pending(r)
                                 /\ status'[r] = status[r]
         /\ r \in evidence => Pending(r)' = 0
         /\ r \in evidence /\ status[r] # "None" =>
              Stake(r)' = 0 /\ status'[r] = "Slashed"
         /\ r \in evidence /\ status[r] = "None" =>
              Stake(r)' = Stake(r) /\ status'[r] = "None"
<1>1. /\ entries'[r] = IF r \in evidence /\ status[r] # "None"
                       THEN [h \in Heights |-> 0] ELSE entries[r]
      /\ unbonding'[r] = IF r \in evidence THEN [m \in Maturities |-> 0] ELSE unbonding[r]
      /\ status'[r] = IF r \in evidence /\ status[r] # "None" THEN "Slashed" ELSE status[r]
  BY DEF SlashEvidence, SlashEntries, SlashQueue, SlashStatus
<1>2. TotalStake([h \in Heights |-> 0]) = 0
  <2> DEFINE z == [h \in Heights |-> 0]
  <2>1. z \in [Heights -> Nat] /\ \A h \in Heights : z[h] = 0
    OBVIOUS
  <2> HIDE DEF z
  <2>2. TotalStake(z) = 0
    BY <2>1, StakeZero
  <2> QED  BY <2>2 DEF z
<1>3. PendingTotal([m \in Maturities |-> 0]) = 0
  <2> DEFINE z == [m \in Maturities |-> 0]
  <2>1. z \in [Maturities -> Nat] /\ \A m \in Maturities : z[m] = 0
    OBVIOUS
  <2> HIDE DEF z
  <2>2. PendingTotal(z) = 0
    BY <2>1, PendingZero
  <2> QED  BY <2>2 DEF z
<1> QED  BY <1>1, <1>2, <1>3 DEF Stake, Pending

(* A bond moves stake from the balance into an entry of this block. *)
LEMMA BondEffect ==
  ASSUME TypeOK, NEW s \in Accounts, NEW stake \in Amounts, NEW fee \in Fees,
         ApplyBond(s, stake, fee)
  PROVE  /\ stake \in Nat /\ stake > 0
         /\ Stake(s)' = Stake(s) + stake
         /\ status[s] # "Slashed"
         /\ status'[s] = IF status[s] \in {"None", "Unbonding"} THEN "Bonding" ELSE status[s]
         /\ \A r \in Accounts : /\ Pending(r)' = Pending(r)
                                /\ r # s => /\ Stake(r)' = Stake(r)
                                            /\ balance'[r] = balance[r]
                                            /\ status'[r] = status[r]
<1> DEFINE assay == bond_assay(stake, BondedStake, total_issued)
<1>1. stake \in Nat /\ fee \in Nat /\ assay \in Nat
  BY InputAssumption, BondedNat, AssayTypes DEF TypeOK, BondedStake
<1>2. /\ stake >= minimum_bond_stake(total_issued)
      /\ Transact(s, fee, assay)
      /\ status[s] # "Slashed"
      /\ balance' = [balance EXCEPT ![s] = @ - (stake + fee + assay)]
      /\ entries' = BondEntries(entries, s, stake, BlockHeight)
      /\ status' = BondStatus(status, s)
      /\ UNCHANGED <<active_set, unbonding>>
  BY DEF ApplyBond
<1> HIDE DEF assay
<1>3. stake > 0
  <2>1. minimum_bond_stake(total_issued) \in Nat /\ minimum_bond_stake(total_issued) > 0
    BY LimitTypes DEF TypeOK
  <2> QED  BY <1>1, <1>2, <2>1
<1>4. BlockHeight \in Heights
  <2>1. current_height < MaxHeight
    BY <1>1, <1>2, TransactType
  <2> QED  BY <2>1, MaxHeightAssumption DEF TypeOK, BlockHeight, Heights
<1>5. Stake(s)' = Stake(s) + stake
  <2>1. entries[s] \in [Heights -> Nat] /\ entries'[s] \in [Heights -> Nat]
    BY BondType DEF TypeOK
  <2>2. \A x \in Heights : entries'[s][x] = IF x = BlockHeight THEN entries[s][x] + stake
                                            ELSE entries[s][x]
    BY <1>2, <1>4 DEF TypeOK, BondEntries
  <2> DEFINE old == entries[s]
             new == entries'[s]
             h == BlockHeight
  <2>3. /\ old \in [Heights -> Nat] /\ new \in [Heights -> Nat] /\ h \in Heights
        /\ \A x \in Heights : new[x] = IF x = h THEN old[x] + stake ELSE old[x]
    BY <1>4, <2>1, <2>2
  <2> HIDE DEF old, new, h
  <2>4. TotalStake(new) = TotalStake(old) + stake
    BY <1>1, <2>3, BondTotal
  <2> QED  BY <2>4 DEF Stake, old, new
<1>6. \A r \in Accounts : r # s => entries'[r] = entries[r]
  BY <1>2 DEF TypeOK, BondEntries
<1>7. \A r \in Accounts : r # s => balance'[r] = balance[r] /\ status'[r] = status[r]
  BY <1>2 DEF TypeOK, BondStatus
<1>8. status'[s] = IF status[s] \in {"None", "Unbonding"} THEN "Bonding" ELSE status[s]
  BY <1>2 DEF TypeOK, BondStatus
<1> QED  BY <1>1, <1>2, <1>3, <1>5, <1>6, <1>7, <1>8 DEF Stake, Pending

(* An unbond moves stake from the oldest entries into the queue. *)
LEMMA UnbondEffect ==
  ASSUME TypeOK, NEW s \in Accounts, NEW amount \in Amounts, NEW fee \in Fees,
         ApplyUnbond(s, amount, fee)
  PROVE  /\ amount \in Nat /\ amount > 0 /\ amount <= Stake(s)
         /\ Stake(s)' = Stake(s) - amount
         /\ Pending(s)' = Pending(s) + amount
         /\ status'[s] = IF Stake(s)' = 0 THEN "Unbonding" ELSE status[s]
         /\ active_set' = IF Stake(s)' = 0 THEN active_set \ {s} ELSE active_set
         /\ \A r \in Accounts : r # s => /\ Pending(r)' = Pending(r)
                                         /\ Stake(r)' = Stake(r)
                                         /\ balance'[r] = balance[r]
                                         /\ status'[r] = status[r]
<1> DEFINE assay == unbond_assay(amount, BondedStake, total_issued)
           left == UnbondFifo(entries[s], amount)
<1>1. amount \in Nat /\ fee \in Nat /\ assay \in Nat
  BY InputAssumption, BondedNat, AssayTypes DEF TypeOK, BondedStake
<1>2. /\ amount > 0
      /\ amount <= TotalStake(entries[s])
      /\ Transact(s, fee, assay)
      /\ balance' = [balance EXCEPT ![s] = @ - (fee + assay)]
      /\ entries' = [entries EXCEPT ![s] = left]
      /\ unbonding' = UnbondQueue(unbonding, s, amount, BlockHeight)
      /\ status' = UnbondStatus(status, s, left)
      /\ active_set' = UnbondActive(active_set, s, left)
  BY DEF ApplyUnbond
<1>3. TotalStake(left) = TotalStake(entries[s]) - amount
  <2>1. entries[s] \in [Heights -> Nat]
    BY DEF TypeOK
  <2> QED  BY <1>1, <1>2, <2>1, FifoTotal
<1> HIDE DEF assay, left
<1>4. BlockHeight + EPOCH \in Maturities
  <2>1. current_height < MaxHeight
    BY <1>1, <1>2, TransactType
  <2> QED  BY <2>1, MaxHeightAssumption, EpochAssumption
           DEF TypeOK, BlockHeight, Heights, Maturities
<1>5. Pending(s)' = Pending(s) + amount
  <2>1. unbonding[s] \in [Maturities -> Nat] /\ unbonding'[s] \in [Maturities -> Nat]
    BY UnbondType DEF TypeOK
  <2> DEFINE due == BlockHeight + EPOCH
  <2>2. \A x \in Maturities : unbonding'[s][x] = IF x = due THEN unbonding[s][x] + amount
                                                 ELSE unbonding[s][x]
    BY <1>2, <1>4 DEF TypeOK, UnbondQueue
  <2> DEFINE old == unbonding[s]
             new == unbonding'[s]
  <2>3. /\ old \in [Maturities -> Nat] /\ new \in [Maturities -> Nat] /\ due \in Maturities
        /\ \A x \in Maturities : new[x] = IF x = due THEN old[x] + amount ELSE old[x]
    BY <1>4, <2>1, <2>2
  <2> HIDE DEF old, new, due
  <2>4. PendingTotal(new) = PendingTotal(old) + amount
    BY <1>1, <2>3, QueueTotal
  <2> QED  BY <2>4 DEF Pending, old, new
<1>6. entries'[s] = left /\ \A r \in Accounts : r # s => entries'[r] = entries[r]
  BY <1>2 DEF TypeOK
<1>7. \A r \in Accounts : r # s => unbonding'[r] = unbonding[r]
  BY <1>2 DEF TypeOK, UnbondQueue
<1>8. \A r \in Accounts : r # s => balance'[r] = balance[r] /\ status'[r] = status[r]
  BY <1>2 DEF TypeOK, UnbondStatus
<1>9. status'[s] = IF TotalStake(left) = 0 THEN "Unbonding" ELSE status[s]
  BY <1>2 DEF TypeOK, UnbondStatus
<1>10. active_set' = IF TotalStake(left) = 0 THEN active_set \ {s} ELSE active_set
  BY <1>2 DEF UnbondActive
<1> QED  BY <1>1, <1>2, <1>3, <1>5, <1>6, <1>7, <1>8, <1>9, <1>10 DEF Stake, Pending

(* The end of a block pays matured withdrawals out of the queue, removes   *)
(* the records that only waited for them, and moves records between        *)
(* Bonding, Waiting and Active.                                            *)
LEMMA FinishEffect ==
  ASSUME TypeOK, FinishBlock, NEW r \in Accounts
  PROVE  /\ entries' = entries
         /\ MaturedAmount(unbonding[r], BlockHeight) \in Nat
         /\ MaturedAmount(unbonding[r], BlockHeight) + Pending(r)' = Pending(r)
         /\ \A m \in Maturities :
              unbonding'[r][m] = IF m <= BlockHeight THEN 0 ELSE unbonding[r][m]
         /\ status[r] \in {"None", "Slashed"} => status'[r] = status[r]
         /\ status[r] \in {"Bonding", "Waiting", "Active"} =>
              status'[r] \in {"Bonding", "Waiting", "Active"}
         /\ status[r] = "Unbonding" => status'[r] \in {"Unbonding", "None"}
         /\ status[r] = "Unbonding" =>
              (status'[r] = "None" <=> r \in Withdrawn(entries, status, unbonding, BlockHeight))
<1> DEFINE h == BlockHeight
           gone == Withdrawn(entries, status, unbonding, h)
           removed == RemoveWithdrawn(status, gone)
           waiting == ActivateMatured(removed, entries, h)
           limit == active_refiner_limit(total_issued + block.gross)
<1>1. /\ unbonding' = DrainMatured(unbonding, h)
      /\ status' = Rerank(waiting, entries, limit) \/ status' = waiting
      /\ entries' = entries
      /\ block # NoBlock
  BY DEF FinishBlock
<1>2. h \in Nat
  BY DEF TypeOK, BlockHeight, Heights
<1>3. \A m \in Maturities : unbonding'[r][m] = IF m <= h THEN 0 ELSE unbonding[r][m]
  BY <1>1 DEF DrainMatured
<1>4. /\ MaturedAmount(unbonding[r], h) \in Nat
      /\ MaturedAmount(unbonding[r], h) + Pending(r)' = Pending(r)
  <2> DEFINE old == unbonding[r]
             new == unbonding'[r]
  <2>1. /\ old \in [Maturities -> Nat] /\ new \in [Maturities -> Nat]
        /\ \A m \in Maturities : new[m] = IF m <= h THEN 0 ELSE old[m]
    BY <1>3, FinishType DEF TypeOK
  <2> HIDE DEF old, new, h
  <2>2. MaturedAmount(old, h) \in Nat /\ MaturedAmount(old, h) + PendingTotal(new) = PendingTotal(old)
    BY <1>2, <2>1, MaturedSplit
  <2> QED  BY <2>2 DEF Pending, old, new
<1>5. r \in gone => status[r] = "Unbonding"
  BY DEF Withdrawn
<1> HIDE DEF gone, h, limit
<1>6. removed[r] = IF r \in gone THEN "None" ELSE status[r]
  BY DEF RemoveWithdrawn
<1> HIDE DEF removed
<1>7. waiting[r] = removed[r] \/ (removed[r] = "Bonding" /\ waiting[r] = "Waiting")
  BY DEF ActivateMatured
<1> HIDE DEF waiting
<1>8. \/ status'[r] = waiting[r]
      \/ waiting[r] \in {"Waiting", "Active"} /\ status'[r] \in {"Waiting", "Active"}
  <2>1. CASE status' = waiting
    BY <2>1
  <2>2. CASE status' = Rerank(waiting, entries, limit)
    BY <2>2 DEF Rerank
  <2> QED  BY <1>1, <2>1, <2>2
<1>9. status[r] = "Unbonding" => (status'[r] = "None" <=> r \in gone)
  BY <1>6, <1>7, <1>8
<1>10. /\ status[r] \in {"None", "Slashed"} => status'[r] = status[r]
       /\ status[r] \in {"Bonding", "Waiting", "Active"} =>
            status'[r] \in {"Bonding", "Waiting", "Active"}
       /\ status[r] = "Unbonding" => status'[r] \in {"Unbonding", "None"}
  BY <1>5, <1>6, <1>7, <1>8
<1> QED  BY <1>1, <1>3, <1>4, <1>9, <1>10 DEF h, gone

-----------------------------------------------------------------------------
(* Records and custody.  RefinerRecordsSound is inductive beside TypeOK.   *)
LEMMA RecordsInit == Init => RefinerRecordsSound
<1> SUFFICES ASSUME Init, NEW r \in Accounts PROVE CustodyHasRecord(r)
  BY DEF RefinerRecordsSound
<1>1. TypeOK
  BY InitType
<1>2. entries[r] \in [Heights -> Nat] /\ unbonding[r] \in [Maturities -> Nat]
  BY <1>1 DEF TypeOK
<1>3. /\ \A h \in Heights : entries[r][h] = 0
      /\ \A m \in Maturities : unbonding[r][m] = 0
      /\ status[r] = "None"
  BY DEF Init
<1>4. TotalStake(entries[r]) = 0
  <2> DEFINE es == entries[r]
  <2>1. es \in [Heights -> Nat] /\ \A h \in Heights : es[h] = 0
    BY <1>2, <1>3
  <2> HIDE DEF es
  <2>2. TotalStake(es) = 0
    BY <2>1, StakeZero
  <2> QED  BY <2>2 DEF es
<1>5. PendingTotal(unbonding[r]) = 0
  <2> DEFINE q == unbonding[r]
  <2>1. q \in [Maturities -> Nat] /\ \A m \in Maturities : q[m] = 0
    BY <1>2, <1>3
  <2> HIDE DEF q
  <2>2. PendingTotal(q) = 0
    BY <2>1, PendingZero
  <2> QED  BY <2>2 DEF q
<1> QED  BY <1>3, <1>4, <1>5 DEF CustodyHasRecord

LEMMA RecordsSlash ==
  ASSUME TypeOK, RefinerRecordsSound, NEW evidence \in SUBSET Accounts,
         SlashEvidence(evidence)
  PROVE  RefinerRecordsSound'
<1> SUFFICES ASSUME NEW r \in Accounts PROVE CustodyHasRecord(r)'
  BY DEF RefinerRecordsSound
<1>1. CustodyHasRecord(r)
  BY DEF RefinerRecordsSound
<1> QED  BY <1>1, SlashEffect DEF CustodyHasRecord, Stake, Pending

LEMMA RecordsTransaction ==
  ASSUME TypeOK, RefinerRecordsSound, ApplyTransaction
  PROVE  RefinerRecordsSound'
<1> SUFFICES ASSUME NEW r \in Accounts PROVE CustodyHasRecord(r)'
  BY DEF RefinerRecordsSound
<1>1. CustodyHasRecord(r)
  BY DEF RefinerRecordsSound
<1>2. PICK s \in Accounts, amount \in Amounts, fee \in Fees :
        \/ \E to \in Accounts : ApplyTransfer(s, to, amount, fee)
        \/ ApplyBond(s, amount, fee)
        \/ ApplyUnbond(s, amount, fee)
  BY DEF ApplyTransaction
<1>3. /\ Stake(r) \in Nat /\ Pending(r) \in Nat
      /\ status[r] \in Statuses
  BY MoneyTypes DEF TypeOK
<1>4. CASE \E to \in Accounts : ApplyTransfer(s, to, amount, fee)
  <2>1. UNCHANGED refinerVars
    BY <1>4 DEF ApplyTransfer
  <2> QED  BY <1>1, <2>1 DEF CustodyHasRecord, refinerVars
<1>5. CASE ApplyBond(s, amount, fee)
  <2>1. CASE r = s
    <3>1. /\ amount \in Nat /\ amount > 0
          /\ Stake(r)' = Stake(r) + amount
          /\ Pending(r)' = Pending(r)
          /\ status[r] # "Slashed"
          /\ status'[r] = IF status[r] \in {"None", "Unbonding"} THEN "Bonding" ELSE status[r]
      BY <1>5, <2>1, BondEffect
    <3> QED  BY <1>1, <1>3, <3>1 DEF CustodyHasRecord, Stake, Pending, Statuses
  <2>2. CASE r # s
    <3>1. Stake(r)' = Stake(r) /\ Pending(r)' = Pending(r) /\ status'[r] = status[r]
      BY <1>5, <2>2, BondEffect
    <3> QED  BY <1>1, <3>1 DEF CustodyHasRecord, Stake, Pending
  <2> QED  BY <2>1, <2>2
<1>6. CASE ApplyUnbond(s, amount, fee)
  <2>1. CASE r = s
    <3>1. /\ amount \in Nat /\ amount > 0 /\ amount <= Stake(r)
          /\ Stake(r)' = Stake(r) - amount
          /\ Pending(r)' = Pending(r) + amount
          /\ status'[r] = IF Stake(r)' = 0 THEN "Unbonding" ELSE status[r]
      BY <1>6, <2>1, UnbondEffect
    <3> QED  BY <1>1, <1>3, <3>1 DEF CustodyHasRecord, Stake, Pending, Statuses
  <2>2. CASE r # s
    <3>1. Stake(r)' = Stake(r) /\ Pending(r)' = Pending(r) /\ status'[r] = status[r]
      BY <1>6, <2>2, UnbondEffect
    <3> QED  BY <1>1, <3>1 DEF CustodyHasRecord, Stake, Pending
  <2> QED  BY <2>1, <2>2
<1> QED  BY <1>2, <1>4, <1>5, <1>6

(* A record is removed exactly when its last withdrawal is paid: Unbonding *)
(* with an empty queue does not survive the end of a block.                *)
LEMMA RecordsFinish ==
  ASSUME TypeOK, RefinerRecordsSound, FinishBlock
  PROVE  RefinerRecordsSound'
<1> SUFFICES ASSUME NEW r \in Accounts PROVE CustodyHasRecord(r)'
  BY DEF RefinerRecordsSound
<1> DEFINE paid == MaturedAmount(unbonding[r], BlockHeight)
           gone == Withdrawn(entries, status, unbonding, BlockHeight)
<1>1. CustodyHasRecord(r)
  BY DEF RefinerRecordsSound
<1>2. /\ entries' = entries
      /\ paid \in Nat /\ paid + Pending(r)' = Pending(r)
      /\ \A m \in Maturities :
           unbonding'[r][m] = IF m <= BlockHeight THEN 0 ELSE unbonding[r][m]
      /\ status[r] \in {"None", "Slashed"} => status'[r] = status[r]
      /\ status[r] \in {"Bonding", "Waiting", "Active"} =>
           status'[r] \in {"Bonding", "Waiting", "Active"}
      /\ status[r] = "Unbonding" => status'[r] \in {"Unbonding", "None"}
      /\ status[r] = "Unbonding" => (status'[r] = "None" <=> r \in gone)
  BY FinishEffect
<1>3. Stake(r) \in Nat /\ Pending(r) \in Nat /\ Stake(r)' \in Nat /\ Pending(r)' \in Nat
  BY FinishType, MoneyTypes, MoneyTypesNext
<1>4. status[r] \in Statuses
  BY DEF TypeOK
<1>5. Stake(r)' = Stake(r)
  BY <1>2 DEF Stake
<1>6. CASE status[r] \in {"None", "Slashed"}
  <2>1. Stake(r) = 0 /\ Pending(r) = 0
    BY <1>1, <1>6 DEF CustodyHasRecord, Stake, Pending
  <2>2. Pending(r)' = 0
    BY <1>2, <1>3, <2>1
  <2> QED  BY <1>2, <1>5, <1>6, <2>1, <2>2 DEF CustodyHasRecord, Stake, Pending
<1>7. CASE status[r] \in {"Bonding", "Waiting", "Active"}
  BY <1>1, <1>2, <1>5, <1>7 DEF CustodyHasRecord, Stake, Pending
<1>8. CASE status[r] = "Unbonding"
  <2>1. Stake(r) = 0 /\ Pending(r) > 0
    BY <1>1, <1>8 DEF CustodyHasRecord, Stake, Pending
  <2>2. Pending(r)' = 0 <=> \A m \in Maturities : m > BlockHeight => unbonding[r][m] = 0
    <3> DEFINE new == unbonding'[r]
               h == BlockHeight
    <3>1. new \in [Maturities -> Nat]
      BY FinishType DEF TypeOK
    <3>2. h \in Nat /\ \A m \in Maturities : m \in Nat
      BY IndexSets DEF TypeOK, BlockHeight, Heights
    <3>3. \A m \in Maturities : new[m] = IF m <= h THEN 0 ELSE unbonding[r][m]
      BY <1>2
    <3> HIDE DEF new, h
    <3>4. PendingTotal(new) = 0 <=> \A m \in Maturities : new[m] = 0
      BY <3>1, PendingZero
    <3>5. PendingTotal(new) = 0 <=> \A m \in Maturities : m > h => unbonding[r][m] = 0
      BY <3>2, <3>3, <3>4
    <3> QED  BY <3>5 DEF new, h, Pending
  <2>3. r \in gone <=> paid > 0 /\ \A m \in Maturities : m > BlockHeight => unbonding[r][m] = 0
    BY <1>8, <2>1 DEF Withdrawn, Stake
  <2> HIDE DEF paid, gone
  <2>4. r \in gone <=> Pending(r)' = 0
    BY <1>2, <1>3, <2>1, <2>2, <2>3
  <2> QED  BY <1>2, <1>3, <1>5, <1>8, <2>1, <2>4 DEF CustodyHasRecord, Stake, Pending
<1> QED  BY <1>4, <1>6, <1>7, <1>8 DEF Statuses

LEMMA RecordsNext ==
  TypeOK /\ RefinerRecordsSound /\ [Next]_vars => RefinerRecordsSound'
<1> SUFFICES ASSUME TypeOK, RefinerRecordsSound, [Next]_vars PROVE RefinerRecordsSound'
  OBVIOUS
<1>1. CASE BeginBlock
  <2>1. \E evidence \in SUBSET Accounts : SlashEvidence(evidence)
    BY <1>1 DEF BeginBlock, BeginMinedBlock, BeginRefinedBlock
  <2> QED  BY <2>1, RecordsSlash
<1>2. CASE ApplyTransaction
  BY <1>2, RecordsTransaction
<1>3. CASE FinishBlock
  BY <1>3, RecordsFinish
<1>4. CASE UNCHANGED vars
  BY <1>4 DEF vars, refinerVars, RefinerRecordsSound, CustodyHasRecord
<1> QED  BY <1>1, <1>2, <1>3, <1>4 DEF Next

(* However bonds, unbonds, slashes and block ends follow each other, a     *)
(* refiner's record and the money in protocol custody agree: no stake or   *)
(* withdrawal without a slashable record, no record that waits for a       *)
(* withdrawal that will never come.                                        *)
THEOREM RecordsTheorem == Spec => []RefinerRecordsSound
BY TypeCorrect, RecordsInit, RecordsNext, PTL DEF Spec

-----------------------------------------------------------------------------
(* Money.  WealthOf is what Wealth gives one account. *)
WealthOf(r) == balance[r] + Stake(r) + Pending(r)

LEMMA WealthIs ==
  ASSUME TypeOK, NEW r \in Accounts
  PROVE  Wealth[r] = WealthOf(r) /\ Wealth[r] \in Nat
BY MoneyTypes DEF Wealth, WealthOf, Stake, Pending

LEMMA WealthIsNext ==
  ASSUME TypeOK', NEW r \in Accounts
  PROVE  Wealth'[r] = WealthOf(r)' /\ Wealth'[r] \in Nat
BY MoneyTypesNext DEF Wealth, WealthOf, Stake, Pending

(* When only the wealth of s changes, the sum changes by as much. *)
LEMMA WealthChange ==
  ASSUME TypeOK, TypeOK', NEW s \in Accounts,
         \A r \in Accounts : r # s => WealthOf(r)' = WealthOf(r)
  PROVE  /\ SumFunctionOnSet(Wealth', Accounts) =
              SumFunctionOnSet(Wealth, Accounts) - WealthOf(s) + WealthOf(s)'
         /\ SumFunctionOnSet(Wealth, Accounts) \in Int
         /\ WealthOf(s) \in Int /\ WealthOf(s)' \in Int
<1> DEFINE old == Wealth
           new == Wealth'
<1>1. \A r \in Accounts : /\ old[r] = WealthOf(r) /\ old[r] \in Int
                          /\ new[r] = WealthOf(r)' /\ new[r] \in Int
  BY WealthIs, WealthIsNext
<1>2. \A r \in Accounts : old[r] \in Int /\ new[r] \in Int /\ (r # s => new[r] = old[r])
  BY <1>1
<1>3. IsFiniteSet(Accounts)
  BY IndexSets
<1> HIDE DEF old, new
<1>4. SumFunctionOnSet(new, Accounts) = SumFunctionOnSet(old, Accounts) - old[s] + new[s]
  BY <1>2, <1>3, SumChange
<1>5. SumFunctionOnSet(old, Accounts) \in Int
  BY <1>2, <1>3, SumType
<1> QED  BY <1>1, <1>4, <1>5 DEF old, new

LEMMA WealthInt ==
  ASSUME TypeOK
  PROVE  SumFunctionOnSet(Wealth, Accounts) \in Int
<1>1. \A r \in Accounts : Wealth[r] \in Int
  BY WealthIs
<1>2. IsFiniteSet(Accounts)
  BY IndexSets
<1> QED  BY <1>1, <1>2, SumType

LEMMA WealthIntNext ==
  ASSUME TypeOK'
  PROVE  SumFunctionOnSet(Wealth', Accounts) \in Int
<1> DEFINE new == Wealth'
<1>1. \A r \in Accounts : new[r] \in Int
  BY WealthIsNext
<1>2. IsFiniteSet(Accounts)
  BY IndexSets
<1> HIDE DEF new
<1>3. SumFunctionOnSet(new, Accounts) \in Int
  BY <1>1, <1>2, SumType
<1> QED  BY <1>3 DEF new

(* What slashing takes from the accounts is what it burns: the stake of a  *)
(* record that was slashed before is not burned a second time because it   *)
(* has none (RefinerRecordsSound).                                         *)
LEMMA SlashMoney ==
  ASSUME TypeOK, RefinerRecordsSound, NEW evidence \in SUBSET Accounts,
         SlashEvidence(evidence), NEW p \in Accounts, NEW reward \in Nat,
         balance' = [balance EXCEPT ![p] = @ + reward], TypeOK'
  PROVE  SumFunctionOnSet(Wealth', Accounts)
           + SlashBurn(entries, status, unbonding, evidence)
         = SumFunctionOnSet(Wealth, Accounts) + reward
<1> DEFINE f == [r \in Accounts |->
                   IF r \notin evidence THEN 0
                   ELSE PendingTotal(unbonding[r]) +
                        (IF status[r] \in {"None", "Slashed"} THEN 0
                         ELSE TotalStake(entries[r]))]
           mid == [r \in Accounts |-> balance[r] + Stake(r)' + Pending(r)']
           old == Wealth
           new == Wealth'
<1>0. IsFiniteSet(Accounts)
  BY IndexSets
<1>1. ASSUME NEW r \in Accounts
      PROVE  /\ f[r] \in Nat /\ mid[r] \in Nat
             /\ old[r] = mid[r] + f[r]
             /\ old[r] \in Nat /\ new[r] \in Nat
             /\ r # p => new[r] = mid[r]
             /\ r = p => new[r] = mid[r] + reward
  <2>1. /\ balance[r] \in Nat /\ Stake(r) \in Nat /\ Pending(r) \in Nat
        /\ Stake(r)' \in Nat /\ Pending(r)' \in Nat
        /\ balance'[r] = IF r = p THEN balance[r] + reward ELSE balance[r]
    BY MoneyTypes, MoneyTypesNext DEF TypeOK
  <2>2. CustodyHasRecord(r)
    BY DEF RefinerRecordsSound
  <2>3. status[r] = "Slashed" => Stake(r) = 0
    BY <2>2 DEF CustodyHasRecord, Stake
  <2>4. f[r] = IF r \notin evidence THEN 0
               ELSE Pending(r) + (IF status[r] \in {"None", "Slashed"} THEN 0 ELSE Stake(r))
    BY DEF Stake, Pending
  <2>5. mid[r] = balance[r] + Stake(r)' + Pending(r)'
    OBVIOUS
  <2>6. old[r] = balance[r] + Stake(r) + Pending(r)
    BY DEF Wealth, Stake, Pending
  <2>7. new[r] = balance'[r] + Stake(r)' + Pending(r)'
    BY DEF Wealth, Stake, Pending
  <2> HIDE DEF f, mid, old, new
  <2>8. /\ r \notin evidence => Stake(r)' = Stake(r) /\ Pending(r)' = Pending(r)
        /\ r \in evidence => Pending(r)' = 0
        /\ r \in evidence /\ status[r] # "None" => Stake(r)' = 0
        /\ r \in evidence /\ status[r] = "None" => Stake(r)' = Stake(r)
    BY SlashEffect
  <2>9. old[r] = mid[r] + f[r] /\ f[r] \in Nat
    <3>1. CASE r \notin evidence
      BY <3>1, <2>1, <2>4, <2>5, <2>6, <2>8
    <3>2. CASE r \in evidence /\ status[r] = "None"
      <4>1. status[r] \in {"None", "Slashed"}
        BY <3>2
      <4>2. Stake(r) = 0
        BY <2>2, <3>2 DEF CustodyHasRecord, Stake
      <4> QED  BY <3>2, <4>1, <4>2, <2>1, <2>4, <2>5, <2>6, <2>8
    <3>3. CASE r \in evidence /\ status[r] # "None"
      BY <3>3, <2>1, <2>3, <2>4, <2>5, <2>6, <2>8
    <3> QED  BY <3>1, <3>2, <3>3
  <2> QED  BY <2>1, <2>5, <2>6, <2>7, <2>9
<1>2. SlashBurn(entries, status, unbonding, evidence) = SumFunctionOnSet(f, Accounts)
  BY DEF SlashBurn
<1> HIDE DEF f, mid, old, new
<1>3. SumFunctionOnSet(old, Accounts) =
        SumFunctionOnSet(mid, Accounts) + SumFunctionOnSet(f, Accounts)
  <2>1. \A r \in Accounts : mid[r] \in Int /\ f[r] \in Int /\ old[r] = mid[r] + f[r]
    BY <1>1
  <2> QED  BY <1>0, <2>1, SumAdd
<1>4. SumFunctionOnSet(new, Accounts) = SumFunctionOnSet(mid, Accounts) - mid[p] + new[p]
  <2>1. \A r \in Accounts : mid[r] \in Int /\ new[r] \in Int /\ (r # p => new[r] = mid[r])
    BY <1>1
  <2> QED  BY <1>0, <2>1, SumChange
<1>5. SumFunctionOnSet(mid, Accounts) \in Int /\ SumFunctionOnSet(f, Accounts) \in Int
  <2>1. \A r \in Accounts : mid[r] \in Int /\ f[r] \in Int
    BY <1>1
  <2> QED  BY <1>0, <2>1, SumType
<1>6. mid[p] \in Nat /\ new[p] = mid[p] + reward
  BY <1>1
<1>7. SumFunctionOnSet(new, Accounts) + SumFunctionOnSet(f, Accounts)
        = SumFunctionOnSet(old, Accounts) + reward
  BY <1>3, <1>4, <1>5, <1>6
<1> QED  BY <1>2, <1>7 DEF old, new

LEMMA FundsInit == Init => FundsAccounted
<1> SUFFICES ASSUME Init PROVE FundsAccounted
  OBVIOUS
<1>1. TypeOK /\ RefinerRecordsSound
  BY InitType, RecordsInit
<1>2. ASSUME NEW r \in Accounts PROVE GenesisBalance[r] \in Int /\ Wealth[r] = GenesisBalance[r]
  <2>1. CustodyHasRecord(r) /\ status[r] = "None" /\ balance[r] = GenesisBalance[r]
    BY <1>1 DEF RefinerRecordsSound, Init
  <2>2. GenesisBalance[r] \in Nat
    BY GenesisAssumption
  <2> QED  BY <2>1, <2>2 DEF Wealth, CustodyHasRecord
<1> DEFINE w == Wealth
<1>3. \A r \in Accounts : GenesisBalance[r] \in Int /\ w[r] = GenesisBalance[r]
  BY <1>2
<1>4. IsFiniteSet(Accounts)
  BY IndexSets
<1> HIDE DEF w
<1>5. SumFunctionOnSet(w, Accounts) = SumFunctionOnSet(GenesisBalance, Accounts)
  BY <1>3, <1>4, SumEqual
<1>6. SumFunctionOnSet(Wealth, Accounts) = total_issued
  BY <1>5 DEF w, Init
<1>7. total_issued \in Nat
  BY <1>1 DEF TypeOK
<1> QED  BY <1>6, <1>7 DEF FundsAccounted, Init, NoBlock

LEMMA FundsMined ==
  ASSUME TypeOK, TypeOK', RefinerRecordsSound, FundsAccounted,
         NEW p \in Accounts, NEW evidence \in SUBSET Accounts,
         NEW retarget \in RetargetValues, NEW yield \in Yields,
         BeginMinedBlock(p, evidence, retarget, yield)
  PROVE  FundsAccounted'
<1> DEFINE d == NextDifficulty(retarget)
           gross == compute_block_reward(d, yield)
           assay == compute_mine_assay(gross, d)
           burn == SlashBurn(entries, status, unbonding, evidence)
<1>1. d \in 1 .. MAX_POW_BITS
  BY BlockInputs, PowBitsAssumption DEF BeginMinedBlock
<1>2. gross \in Nat /\ assay \in Nat /\ assay <= gross
  <2>1. yield \in Nat
    BY InputAssumption
  <2> HIDE DEF d
  <2> QED  BY <1>1, <2>1, RewardTypes
<1>3. /\ block = NoBlock
      /\ SlashEvidence(evidence)
      /\ balance' = [balance EXCEPT ![p] = @ + SatSub(gross, assay)]
      /\ block' = [kind |-> "Mined", producer |-> p, difficulty |-> d,
                   gross |-> gross, mine_assay |-> assay, slashed |-> burn,
                   active |-> 0, limit |-> 0]
      /\ UNCHANGED <<total_issued, fees, assays>>
  BY DEF BeginMinedBlock
<1> HIDE DEF d, gross, assay
<1>4. SatSub(gross, assay) = gross - assay /\ gross - assay \in Nat
  BY <1>2 DEF SatSub
<1>5. SumFunctionOnSet(Wealth', Accounts) + burn
        = SumFunctionOnSet(Wealth, Accounts) + (gross - assay)
  <2> DEFINE reward == gross - assay
  <2>1. reward \in Nat /\ balance' = [balance EXCEPT ![p] = @ + reward]
    BY <1>3, <1>4
  <2> HIDE DEF reward, burn
  <2>2. SumFunctionOnSet(Wealth', Accounts) + SlashBurn(entries, status, unbonding, evidence)
          = SumFunctionOnSet(Wealth, Accounts) + reward
    BY <1>3, <2>1, SlashMoney
  <2> QED  BY <2>2 DEF reward, burn
<1>6. burn \in Nat /\ total_burned' = total_burned + burn
  BY <1>3, SlashEvidenceType DEF SlashEvidence
<1>7. /\ SumFunctionOnSet(Wealth, Accounts) \in Int /\ SumFunctionOnSet(Wealth', Accounts) \in Int
      /\ total_burned \in Nat /\ total_issued \in Nat
  BY WealthInt, WealthIntNext DEF TypeOK
<1> HIDE DEF burn
<1>8. /\ block.gross = 0 /\ block.mine_assay = 0
      /\ block'.gross = gross /\ block'.mine_assay = assay /\ block'.producer = p
      /\ block'.kind = "Mined" /\ NoBlock.kind = "None"
  BY <1>3 DEF NoBlock
<1>9. fees = 0 /\ assays = 0 /\ fees' = 0 /\ assays' = 0 /\ total_issued' = total_issued
  BY <1>3 DEF FundsAccounted
<1>10. SumFunctionOnSet(Wealth, Accounts) + fees + assays + block.mine_assay + total_burned
        = total_issued + block.gross
  BY DEF FundsAccounted
<1>11. SumFunctionOnSet(Wealth', Accounts) + fees' + assays' + block'.mine_assay + total_burned'
        = total_issued' + block'.gross
  BY <1>2, <1>5, <1>6, <1>7, <1>8, <1>9, <1>10
<1>12. block' # NoBlock
  BY <1>8
<1> QED  BY <1>8, <1>11, <1>12 DEF FundsAccounted

LEMMA FundsRefined ==
  ASSUME TypeOK, TypeOK', RefinerRecordsSound, FundsAccounted,
         NEW p \in Accounts, NEW evidence \in SUBSET Accounts,
         NEW retarget \in RetargetValues, NEW ticket,
         BeginRefinedBlock(p, evidence, retarget, ticket)
  PROVE  FundsAccounted'
<1> DEFINE burn == SlashBurn(entries, status, unbonding, evidence)
<1>1. /\ block = NoBlock
      /\ SlashEvidence(evidence)
      /\ balance' = balance
      /\ block'.gross = 0 /\ block'.mine_assay = 0 /\ block'.producer = p
      /\ block'.kind = "Refined"
      /\ UNCHANGED <<total_issued, fees, assays>>
  BY DEF BeginRefinedBlock
<1>2. SumFunctionOnSet(Wealth', Accounts) + burn = SumFunctionOnSet(Wealth, Accounts) + 0
  <2>1. 0 \in Nat /\ balance' = [balance EXCEPT ![p] = @ + 0]
    BY <1>1 DEF TypeOK
  <2> HIDE DEF burn
  <2>2. SumFunctionOnSet(Wealth', Accounts) + SlashBurn(entries, status, unbonding, evidence)
          = SumFunctionOnSet(Wealth, Accounts) + 0
    BY <1>1, <2>1, SlashMoney
  <2> QED  BY <2>2 DEF burn
<1>3. burn \in Nat /\ total_burned' = total_burned + burn
  BY <1>1, SlashEvidenceType DEF SlashEvidence
<1>4. /\ SumFunctionOnSet(Wealth, Accounts) \in Int /\ SumFunctionOnSet(Wealth', Accounts) \in Int
      /\ total_burned \in Nat /\ total_issued \in Nat
  BY WealthInt, WealthIntNext DEF TypeOK
<1> HIDE DEF burn
<1>5. block.gross = 0 /\ block.mine_assay = 0 /\ NoBlock.kind = "None"
  BY <1>1 DEF NoBlock
<1>6. fees = 0 /\ assays = 0 /\ fees' = 0 /\ assays' = 0 /\ total_issued' = total_issued
  BY <1>1 DEF FundsAccounted
<1>7. SumFunctionOnSet(Wealth, Accounts) + fees + assays + block.mine_assay + total_burned
        = total_issued + block.gross
  BY DEF FundsAccounted
<1>8. SumFunctionOnSet(Wealth', Accounts) + fees' + assays' + block'.mine_assay + total_burned'
        = total_issued' + block'.gross
  BY <1>1, <1>2, <1>3, <1>4, <1>5, <1>6, <1>7
<1>9. block' # NoBlock
  BY <1>1, <1>5
<1> QED  BY <1>1, <1>8, <1>9 DEF FundsAccounted

(* The bookkeeping of a transaction that moves fee + assay out of the      *)
(* accounts and leaves everything else in them.                            *)
LEMMA FundsTransact ==
  ASSUME TypeOK, FundsAccounted, NEW s, NEW fee \in Nat, NEW assay \in Nat,
         Transact(s, fee, assay),
         SumFunctionOnSet(Wealth', Accounts) = SumFunctionOnSet(Wealth, Accounts) - (fee + assay)
  PROVE  FundsAccounted'
<1>1. /\ block # NoBlock
      /\ fees' = fees + fee /\ assays' = assays + assay
      /\ UNCHANGED <<block, total_issued, total_burned>>
  BY DEF Transact, chainVars
<1>2. /\ SumFunctionOnSet(Wealth, Accounts) \in Int
      /\ total_burned \in Nat /\ total_issued \in Nat /\ fees \in Nat /\ assays \in Nat
      /\ block.gross \in Nat /\ block.mine_assay \in Nat
  BY WealthInt DEF TypeOK, Blocks
<1>3. SumFunctionOnSet(Wealth, Accounts) + fees + assays + block.mine_assay + total_burned
        = total_issued + block.gross
  BY DEF FundsAccounted
<1>4. SumFunctionOnSet(Wealth', Accounts) + fees' + assays' + block.mine_assay + total_burned
        = total_issued + block.gross
  BY <1>1, <1>2, <1>3
<1> QED  BY <1>1, <1>4 DEF FundsAccounted

LEMMA FundsTransfer ==
  ASSUME TypeOK, TypeOK', FundsAccounted, NEW s \in Accounts, NEW to \in Accounts,
         NEW amount \in Amounts, NEW fee \in Fees,
         ApplyTransfer(s, to, amount, fee)
  PROVE  FundsAccounted'
<1> DEFINE old == Wealth
           new == Wealth'
           mid == [r \in Accounts |-> IF r = s THEN old[r] - (amount + fee) ELSE old[r]]
<1>1. amount \in Nat /\ fee \in Nat /\ 0 \in Nat
  BY InputAssumption
<1>2. /\ Transact(s, fee, 0)
      /\ balance' = [[balance EXCEPT ![s] = @ - (amount + fee)] EXCEPT ![to] = @ + amount]
      /\ UNCHANGED refinerVars
  BY DEF ApplyTransfer
<1>3. ASSUME NEW r \in Accounts
      PROVE  /\ old[r] \in Int /\ mid[r] \in Int /\ new[r] \in Int
             /\ mid[r] = IF r = s THEN old[r] - (amount + fee) ELSE old[r]
             /\ new[r] = IF r = to THEN mid[r] + amount ELSE mid[r]
  <2>1. old[r] = balance[r] + Stake(r) + Pending(r)
    BY DEF Wealth, Stake, Pending
  <2>2. new[r] = balance'[r] + Stake(r) + Pending(r)
    BY <1>2 DEF Wealth, Stake, Pending, refinerVars
  <2>3. balance[r] \in Nat /\ Stake(r) \in Nat /\ Pending(r) \in Nat /\ balance'[r] \in Nat
    BY MoneyTypes, MoneyTypesNext
  <2>4. mid[r] = IF r = s THEN old[r] - (amount + fee) ELSE old[r]
    OBVIOUS
  <2>5. balance'[r] = IF r = to
                      THEN (IF r = s THEN balance[r] - (amount + fee) ELSE balance[r]) + amount
                      ELSE (IF r = s THEN balance[r] - (amount + fee) ELSE balance[r])
    BY <1>1, <1>2 DEF TypeOK
  <2> HIDE DEF old, new, mid
  <2> QED  BY <1>1, <2>1, <2>2, <2>3, <2>4, <2>5
<1>4. IsFiniteSet(Accounts)
  BY IndexSets
<1> HIDE DEF old, new, mid
<1>5. SumFunctionOnSet(mid, Accounts) = SumFunctionOnSet(old, Accounts) - old[s] + mid[s]
  <2>1. \A r \in Accounts : old[r] \in Int /\ mid[r] \in Int /\ (r # s => mid[r] = old[r])
    BY <1>3
  <2> QED  BY <1>4, <2>1, SumChange
<1>6. SumFunctionOnSet(new, Accounts) = SumFunctionOnSet(mid, Accounts) - mid[to] + new[to]
  <2>1. \A r \in Accounts : mid[r] \in Int /\ new[r] \in Int /\ (r # to => new[r] = mid[r])
    BY <1>3
  <2> QED  BY <1>4, <2>1, SumChange
<1>7. SumFunctionOnSet(old, Accounts) \in Int
  BY WealthInt DEF old
<1>8. /\ old[s] \in Int /\ mid[s] = old[s] - (amount + fee)
      /\ mid[to] \in Int /\ new[to] = mid[to] + amount
  BY <1>3
<1>9. SumFunctionOnSet(new, Accounts) = SumFunctionOnSet(old, Accounts) - (fee + 0)
  BY <1>1, <1>5, <1>6, <1>7, <1>8
<1> QED  BY <1>1, <1>2, <1>9, FundsTransact DEF old, new

LEMMA FundsBond ==
  ASSUME TypeOK, TypeOK', FundsAccounted, NEW s \in Accounts,
         NEW stake \in Amounts, NEW fee \in Fees,
         ApplyBond(s, stake, fee)
  PROVE  FundsAccounted'
<1> DEFINE assay == bond_assay(stake, BondedStake, total_issued)
<1>1. stake \in Nat /\ fee \in Nat /\ assay \in Nat
  BY InputAssumption, BondedNat, AssayTypes DEF TypeOK, BondedStake
<1>2. /\ Transact(s, fee, assay)
      /\ balance' = [balance EXCEPT ![s] = @ - (stake + fee + assay)]
  BY DEF ApplyBond
<1> HIDE DEF assay
<1>3. balance'[s] = balance[s] - (stake + fee + assay)
  BY <1>2 DEF TypeOK
<1>4. Stake(s)' = Stake(s) + stake /\ Pending(s)' = Pending(s)
  BY BondEffect
<1>5. balance[s] \in Nat /\ Stake(s) \in Nat /\ Pending(s) \in Nat
  BY MoneyTypes
<1>6. WealthOf(s)' = WealthOf(s) - (fee + assay) /\ WealthOf(s) \in Nat
  BY <1>1, <1>3, <1>4, <1>5 DEF WealthOf
<1>7. \A r \in Accounts : r # s => WealthOf(r)' = WealthOf(r)
  BY BondEffect DEF WealthOf
<1>8. /\ SumFunctionOnSet(Wealth', Accounts) =
           SumFunctionOnSet(Wealth, Accounts) - WealthOf(s) + WealthOf(s)'
      /\ SumFunctionOnSet(Wealth, Accounts) \in Int
  BY <1>7, WealthChange
<1>9. SumFunctionOnSet(Wealth', Accounts) = SumFunctionOnSet(Wealth, Accounts) - (fee + assay)
  BY <1>1, <1>6, <1>8
<1> QED  BY <1>1, <1>2, <1>9, FundsTransact

LEMMA FundsUnbond ==
  ASSUME TypeOK, TypeOK', FundsAccounted, NEW s \in Accounts,
         NEW amount \in Amounts, NEW fee \in Fees,
         ApplyUnbond(s, amount, fee)
  PROVE  FundsAccounted'
<1> DEFINE assay == unbond_assay(amount, BondedStake, total_issued)
<1>1. amount \in Nat /\ fee \in Nat /\ assay \in Nat
  BY InputAssumption, BondedNat, AssayTypes DEF TypeOK, BondedStake
<1>2. /\ Transact(s, fee, assay)
      /\ balance' = [balance EXCEPT ![s] = @ - (fee + assay)]
  BY DEF ApplyUnbond
<1> HIDE DEF assay
<1>3. balance'[s] = balance[s] - (fee + assay)
  BY <1>2 DEF TypeOK
<1>4. Stake(s)' = Stake(s) - amount /\ Pending(s)' = Pending(s) + amount
  BY UnbondEffect
<1>5. balance[s] \in Nat /\ Stake(s) \in Nat /\ Pending(s) \in Nat
  BY MoneyTypes
<1>6. WealthOf(s)' = WealthOf(s) - (fee + assay) /\ WealthOf(s) \in Nat
  BY <1>1, <1>3, <1>4, <1>5 DEF WealthOf
<1>7. \A r \in Accounts : r # s => WealthOf(r)' = WealthOf(r)
  BY UnbondEffect DEF WealthOf
<1>8. /\ SumFunctionOnSet(Wealth', Accounts) =
           SumFunctionOnSet(Wealth, Accounts) - WealthOf(s) + WealthOf(s)'
      /\ SumFunctionOnSet(Wealth, Accounts) \in Int
  BY <1>7, WealthChange
<1>9. SumFunctionOnSet(Wealth', Accounts) = SumFunctionOnSet(Wealth, Accounts) - (fee + assay)
  BY <1>1, <1>6, <1>8
<1> QED  BY <1>1, <1>2, <1>9, FundsTransact

LEMMA FundsFinish ==
  ASSUME TypeOK, TypeOK', FundsAccounted, FinishBlock
  PROVE  FundsAccounted'
<1> DEFINE income == [a \in Accounts |-> IF a = block.producer THEN fees - FeesBurned ELSE 0]
           zero == [a \in Accounts |-> 0]
           burned == FeesBurned + assays + block.mine_assay
           old == Wealth
           new == Wealth'
<1>1. /\ block # NoBlock
      /\ balance' = [a \in Accounts |->
                       balance[a] + income[a] + MaturedAmount(unbonding[a], BlockHeight)]
      /\ total_issued' = total_issued + block.gross
      /\ total_burned' = total_burned + burned
      /\ block' = NoBlock /\ fees' = 0 /\ assays' = 0
  BY DEF FinishBlock
<1>2. FeesBurned \in Nat /\ FeesBurned <= fees
  BY FeesBurnedBound
<1>3. /\ fees \in Nat /\ assays \in Nat /\ total_issued \in Nat /\ total_burned \in Nat
      /\ block.gross \in Nat /\ block.mine_assay \in Nat
      /\ SumFunctionOnSet(Wealth, Accounts) \in Int
  BY WealthInt DEF TypeOK, Blocks
<1>4. IsFiniteSet(Accounts) /\ block.producer \in Accounts
  BY <1>1, IndexSets DEF FundsAccounted
<1>5. \A a \in Accounts : /\ income[a] \in Int
                          /\ income[a] = IF a = block.producer THEN fees - FeesBurned ELSE 0
  BY <1>2, <1>3
<1>6. SumFunctionOnSet(income, Accounts) = fees - FeesBurned
  <2>1. \A a \in Accounts : zero[a] = 0
    OBVIOUS
  <2> HIDE DEF income, zero
  <2>2. SumFunctionOnSet(zero, Accounts) = 0
    BY <1>4, <2>1, SumZero
  <2>3. \A a \in Accounts : zero[a] \in Int /\ income[a] \in Int
                            /\ (a # block.producer => income[a] = zero[a])
    BY <1>5, <2>1
  <2> DEFINE p == block.producer
  <2>4. SumFunctionOnSet(income, Accounts) =
          SumFunctionOnSet(zero, Accounts) - zero[p] + income[p]
    <3>1. /\ p \in Accounts
          /\ \A a \in Accounts : zero[a] \in Int /\ income[a] \in Int
                                /\ (a # p => income[a] = zero[a])
      BY <1>4, <2>3
    <3> HIDE DEF p
    <3> QED  BY <1>4, <3>1, SumChange
  <2> QED  BY <1>2, <1>3, <1>4, <1>5, <2>1, <2>2, <2>4
<1>7. ASSUME NEW r \in Accounts
      PROVE  old[r] \in Int /\ new[r] = old[r] + income[r]
  <2> DEFINE paid == MaturedAmount(unbonding[r], BlockHeight)
  <2>1. balance'[r] = balance[r] + income[r] + paid
    BY <1>1
  <2>2. entries' = entries /\ paid \in Nat /\ paid + Pending(r)' = Pending(r)
    BY FinishEffect
  <2>3. old[r] = balance[r] + Stake(r) + Pending(r)
    BY DEF Wealth, Stake, Pending
  <2>4. new[r] = balance'[r] + Stake(r) + Pending(r)'
    BY <2>2 DEF Wealth, Stake, Pending
  <2>5. /\ balance[r] \in Nat /\ Stake(r) \in Nat /\ Pending(r) \in Nat
        /\ Pending(r)' \in Nat
    BY MoneyTypes, MoneyTypesNext
  <2>6. income[r] \in Int
    BY <1>5
  <2> HIDE DEF paid, old, new, income
  <2> QED  BY <2>1, <2>2, <2>3, <2>4, <2>5, <2>6
<1> HIDE DEF income, zero, old, new
<1>8. SumFunctionOnSet(new, Accounts) =
        SumFunctionOnSet(old, Accounts) + SumFunctionOnSet(income, Accounts)
  <2>1. \A r \in Accounts : old[r] \in Int /\ income[r] \in Int /\ new[r] = old[r] + income[r]
    BY <1>5, <1>7
  <2> QED  BY <1>4, <2>1, SumAdd
<1>9. SumFunctionOnSet(Wealth', Accounts) = SumFunctionOnSet(Wealth, Accounts) + (fees - FeesBurned)
  BY <1>6, <1>8 DEF old, new
<1>10. SumFunctionOnSet(Wealth, Accounts) + fees + assays + block.mine_assay + total_burned
         = total_issued + block.gross
  BY DEF FundsAccounted
<1>11. block'.gross = 0 /\ block'.mine_assay = 0
  BY <1>1 DEF NoBlock
<1>12. SumFunctionOnSet(Wealth', Accounts) + fees' + assays' + block'.mine_assay + total_burned'
         = total_issued' + block'.gross
  BY <1>1, <1>2, <1>3, <1>9, <1>10, <1>11
<1> QED  BY <1>1, <1>12 DEF FundsAccounted

LEMMA FundsNext ==
  TypeOK /\ RefinerRecordsSound /\ FundsAccounted /\ [Next]_vars => FundsAccounted'
<1> SUFFICES ASSUME TypeOK, RefinerRecordsSound, FundsAccounted, [Next]_vars
             PROVE  FundsAccounted'
  OBVIOUS
<1>0. TypeOK'
  BY NextType
<1>1. CASE BeginBlock
  BY <1>0, <1>1, FundsMined, FundsRefined DEF BeginBlock
<1>2. CASE ApplyTransaction
  BY <1>0, <1>2, FundsTransfer, FundsBond, FundsUnbond DEF ApplyTransaction
<1>3. CASE FinishBlock
  BY <1>0, <1>3, FundsFinish
<1>4. CASE UNCHANGED vars
  <2>1. /\ balance' = balance /\ entries' = entries /\ unbonding' = unbonding
        /\ total_issued' = total_issued /\ total_burned' = total_burned
        /\ block' = block /\ fees' = fees /\ assays' = assays
    BY <1>4 DEF vars, accountVars, refinerVars, chainVars, blockVars
  <2>2. Wealth' = Wealth
    BY <2>1 DEF Wealth
  <2> QED  BY <2>1, <2>2 DEF FundsAccounted
<1> QED  BY <1>1, <1>2, <1>3, <1>4 DEF Next

(* Inside a block and between blocks, every flake is in an account, bonded, *)
(* queued, in flight or burned: rewards, fees, assays, slashes, transfers,  *)
(* bonds, unbonds and pay-outs neither lose nor create one.                 *)
THEOREM FundsTheorem == Spec => []FundsAccounted
BY TypeCorrect, RecordsTheorem, FundsInit, FundsNext, PTL DEF Spec

(* Supply conservation for every chain: the audit relation of apply_block. *)
THEOREM SupplyTheorem == Spec => []SupplyConserved
<1>1. ASSUME TypeOK, FundsAccounted PROVE SupplyConserved
  <2> SUFFICES ASSUME block = NoBlock
               PROVE  SumFunctionOnSet(Wealth, Accounts) = total_issued - total_burned
    BY DEF SupplyConserved
  <2>1. block.gross = 0 /\ block.mine_assay = 0 /\ fees = 0 /\ assays = 0
    BY <1>1 DEF FundsAccounted, NoBlock
  <2>2. /\ SumFunctionOnSet(Wealth, Accounts) \in Int
        /\ total_issued \in Nat /\ total_burned \in Nat
    BY <1>1, WealthInt DEF TypeOK
  <2>3. SumFunctionOnSet(Wealth, Accounts) + fees + assays + block.mine_assay + total_burned
          = total_issued + block.gross
    BY <1>1 DEF FundsAccounted
  <2> QED  BY <2>1, <2>2, <2>3
<1>2. TypeOK /\ FundsAccounted => SupplyConserved
  BY <1>1
<1> QED  BY <1>2, TypeCorrect, FundsTheorem, PTL

-----------------------------------------------------------------------------
(* The unbonding delay. *)
LEMMA DelayNext == TypeOK /\ UnbondDelay /\ [Next]_vars => UnbondDelay'
<1> SUFFICES ASSUME TypeOK, UnbondDelay, [Next]_vars,
                    NEW r \in Accounts, NEW m \in Maturities, unbonding'[r][m] > 0
             PROVE  /\ current_height' < m
                    /\ m <= current_height' + EPOCH + (IF block' = NoBlock THEN 0 ELSE 1)
  BY DEF UnbondDelay
<1>0. /\ m \in Nat /\ current_height \in Nat /\ EPOCH \in Nat /\ EPOCH > 0
      /\ unbonding[r][m] \in Nat
  BY EpochAssumption, IndexSets DEF TypeOK, Heights
<1>1. unbonding[r][m] > 0 =>
        /\ current_height < m
        /\ m <= current_height + EPOCH + (IF block = NoBlock THEN 0 ELSE 1)
  BY DEF UnbondDelay
<1>2. CASE BeginBlock
  <2>1. \E evidence \in SUBSET Accounts : SlashEvidence(evidence)
    BY <1>2 DEF BeginBlock, BeginMinedBlock, BeginRefinedBlock
  <2>2. block = NoBlock /\ current_height' = current_height
    BY <1>2 DEF BeginBlock, BeginMinedBlock, BeginRefinedBlock
  <2>3. unbonding[r][m] > 0
    BY <1>0, <2>1 DEF SlashEvidence, SlashQueue, TypeOK
  <2> QED  BY <1>0, <1>1, <2>2, <2>3
<1>3. CASE ApplyTransaction
  <2>1. PICK s \in Accounts, amount \in Amounts, fee \in Fees :
          \/ \E to \in Accounts : ApplyTransfer(s, to, amount, fee)
          \/ ApplyBond(s, amount, fee)
          \/ ApplyUnbond(s, amount, fee)
    BY <1>3 DEF ApplyTransaction
  <2>2. block # NoBlock /\ block' = block /\ current_height' = current_height
    BY <2>1 DEF ApplyTransfer, ApplyBond, ApplyUnbond, Transact, chainVars
  <2>3. unbonding[r][m] > 0 \/ m = BlockHeight + EPOCH
    <3>1. CASE unbonding' = unbonding
      BY <3>1
    <3>2. CASE unbonding' = UnbondQueue(unbonding, s, amount, BlockHeight)
      BY <3>2 DEF UnbondQueue, TypeOK
    <3> QED  BY <2>1, <3>1, <3>2 DEF ApplyTransfer, ApplyBond, ApplyUnbond, refinerVars
  <2> QED  BY <1>0, <1>1, <2>2, <2>3 DEF BlockHeight
<1>4. CASE FinishBlock
  <2>1. unbonding'[r][m] = IF m <= BlockHeight THEN 0 ELSE unbonding[r][m]
    BY <1>4, FinishEffect
  <2>2. block # NoBlock /\ block' = NoBlock /\ current_height' = BlockHeight
    BY <1>4 DEF FinishBlock
  <2> QED  BY <1>0, <1>1, <2>1, <2>2 DEF BlockHeight
<1>5. CASE UNCHANGED vars
  <2>1. unbonding' = unbonding /\ block' = block /\ current_height' = current_height
    BY <1>5 DEF vars, refinerVars, chainVars, blockVars
  <2> QED  BY <1>1, <2>1
<1> QED  BY <1>2, <1>3, <1>4, <1>5 DEF Next

(* No queued withdrawal is ever overdue or further away than one epoch. *)
THEOREM DelayTheorem == Spec => []UnbondDelay
<1>1. Init => UnbondDelay
  BY DEF Init, UnbondDelay
<1> QED  BY <1>1, TypeCorrect, DelayNext, PTL DEF Spec

-----------------------------------------------------------------------------
(* The cached active set. *)
LEMMA ActiveFinish ==
  ASSUME TypeOK, ActiveSetMatchesStatus, FinishBlock
  PROVE  ActiveSetMatchesStatus'
<1> DEFINE h == BlockHeight
           gone == Withdrawn(entries, status, unbonding, h)
           removed == RemoveWithdrawn(status, gone)
           waiting == ActivateMatured(removed, entries, h)
           limit == active_refiner_limit(total_issued + block.gross)
           kept == active_set \ gone
<1>1. \/ status' = waiting /\ active_set' = kept
      \/ /\ status' = Rerank(waiting, entries, limit)
         /\ active_set' = RerankActive(kept, waiting, entries, limit)
  BY DEF FinishBlock
<1>2. gone \subseteq {r \in Accounts : status[r] = "Unbonding"}
  BY DEF Withdrawn
<1> HIDE DEF gone, h, limit
<1>3. kept = {r \in Accounts : waiting[r] = "Active"}
  <2>1. kept \subseteq Accounts /\ \A r \in Accounts : r \in kept <=> status[r] = "Active"
    BY <1>2 DEF ActiveSetMatchesStatus
  <2>2. \A r \in Accounts : waiting[r] = "Active" <=> status[r] = "Active"
    <3> TAKE r \in Accounts
    <3>1. removed[r] = IF r \in gone THEN "None" ELSE status[r]
      BY DEF RemoveWithdrawn
    <3> HIDE DEF removed
    <3>2. waiting[r] = removed[r] \/ (removed[r] = "Bonding" /\ waiting[r] = "Waiting")
      BY DEF ActivateMatured
    <3> QED  BY <1>2, <3>1, <3>2
  <2> HIDE DEF kept, waiting
  <2> QED  BY <2>1, <2>2
<1> HIDE DEF waiting, kept
<1>4. CASE status' = waiting /\ active_set' = kept
  BY <1>3, <1>4 DEF ActiveSetMatchesStatus
<1>5. CASE /\ status' = Rerank(waiting, entries, limit)
           /\ active_set' = RerankActive(kept, waiting, entries, limit)
  <2> DEFINE new == Rerank(waiting, entries, limit)
  <2>1. \A r \in Accounts : \/ new[r] = waiting[r]
                            \/ waiting[r] = "Waiting" /\ new[r] = "Active"
                            \/ waiting[r] = "Active" /\ new[r] = "Waiting"
    BY DEF Rerank
  <2>2. RerankActive(kept, waiting, entries, limit) =
          (kept \ {r \in Accounts : waiting[r] = "Active" /\ new[r] = "Waiting"})
            \cup {r \in Accounts : waiting[r] = "Waiting" /\ new[r] = "Active"}
    BY DEF RerankActive
  <2> HIDE DEF new
  <2>3. RerankActive(kept, waiting, entries, limit) = {r \in Accounts : new[r] = "Active"}
    BY <1>3, <2>1, <2>2
  <2> QED  BY <1>5, <2>3 DEF ActiveSetMatchesStatus, new
<1> QED  BY <1>1, <1>4, <1>5

LEMMA ActiveNext ==
  TypeOK /\ ActiveSetMatchesStatus /\ [Next]_vars => ActiveSetMatchesStatus'
<1> SUFFICES ASSUME TypeOK, ActiveSetMatchesStatus, [Next]_vars
             PROVE  ActiveSetMatchesStatus'
  OBVIOUS
<1>1. CASE BeginBlock
  <2>1. PICK evidence \in SUBSET Accounts : SlashEvidence(evidence)
    BY <1>1 DEF BeginBlock, BeginMinedBlock, BeginRefinedBlock
  <2>2. /\ active_set' = active_set \ evidence
        /\ \A r \in Accounts :
             status'[r] = IF r \in evidence /\ status[r] # "None" THEN "Slashed" ELSE status[r]
    BY <2>1 DEF SlashEvidence, SlashStatus
  <2> QED  BY <2>2 DEF ActiveSetMatchesStatus
<1>2. CASE ApplyTransaction
  <2>1. PICK s \in Accounts, amount \in Amounts, fee \in Fees :
          \/ \E to \in Accounts : ApplyTransfer(s, to, amount, fee)
          \/ ApplyBond(s, amount, fee)
          \/ ApplyUnbond(s, amount, fee)
    BY <1>2 DEF ApplyTransaction
  <2>2. CASE \E to \in Accounts : ApplyTransfer(s, to, amount, fee)
    BY <2>2 DEF ApplyTransfer, refinerVars, ActiveSetMatchesStatus
  <2>3. CASE ApplyBond(s, amount, fee)
    <3>1. active_set' = active_set
      BY <2>3 DEF ApplyBond
    <3>2. \A r \in Accounts : status'[r] = "Active" <=> status[r] = "Active"
      BY <2>3, BondEffect
    <3> QED  BY <3>1, <3>2 DEF ActiveSetMatchesStatus
  <2>4. CASE ApplyUnbond(s, amount, fee)
    <3>1. /\ status'[s] = IF Stake(s)' = 0 THEN "Unbonding" ELSE status[s]
          /\ active_set' = IF Stake(s)' = 0 THEN active_set \ {s} ELSE active_set
          /\ \A r \in Accounts : r # s => status'[r] = status[r]
      BY <2>4, UnbondEffect
    <3> QED  BY <3>1 DEF ActiveSetMatchesStatus
  <2> QED  BY <2>1, <2>2, <2>3, <2>4
<1>3. CASE FinishBlock
  BY <1>3, ActiveFinish
<1>4. CASE UNCHANGED vars
  BY <1>4 DEF vars, refinerVars, ActiveSetMatchesStatus
<1> QED  BY <1>1, <1>2, <1>3, <1>4 DEF Next

(* The active_set vector that selects producers never disagrees with the   *)
(* statuses of the records, whichever of the five places that touch them   *)
(* ran last.                                                               *)
THEOREM ActiveSetTheorem == Spec => []ActiveSetMatchesStatus
<1>1. Init => ActiveSetMatchesStatus
  BY DEF Init, ActiveSetMatchesStatus
<1> QED  BY <1>1, TypeCorrect, ActiveNext, PTL DEF Spec

-----------------------------------------------------------------------------
(* A slashed id stays slashed and never has stake, withdrawals or a place  *)
(* in the active set again: not by a bond, an unbond, a second slash, a    *)
(* pay-out or a rerank.                                                    *)
THEOREM SlashTheorem == Spec => SlashIsFinal
<1> DEFINE Final == \A r \in Accounts :
                      status[r] = "Slashed" =>
                        /\ status'[r] = "Slashed"
                        /\ TotalStake(entries'[r]) = 0
                        /\ PendingTotal(unbonding'[r]) = 0
                        /\ r \notin active_set'
<1>1. ASSUME TypeOK, RefinerRecordsSound, RefinerRecordsSound', ActiveSetMatchesStatus',
             [Next]_vars
      PROVE  Final
  <2> SUFFICES ASSUME NEW r \in Accounts, status[r] = "Slashed"
               PROVE  /\ status'[r] = "Slashed"
                      /\ TotalStake(entries'[r]) = 0
                      /\ PendingTotal(unbonding'[r]) = 0
                      /\ r \notin active_set'
    OBVIOUS
  <2>1. status'[r] = "Slashed"
    <3>1. CASE BeginBlock
      <4>1. PICK evidence \in SUBSET Accounts : SlashEvidence(evidence)
        BY <3>1 DEF BeginBlock, BeginMinedBlock, BeginRefinedBlock
      <4> QED  BY <1>1, <4>1, SlashEffect
    <3>2. CASE ApplyTransaction
      <4>1. PICK s \in Accounts, amount \in Amounts, fee \in Fees :
              \/ \E to \in Accounts : ApplyTransfer(s, to, amount, fee)
              \/ ApplyBond(s, amount, fee)
              \/ ApplyUnbond(s, amount, fee)
        BY <3>2 DEF ApplyTransaction
      <4>2. CASE \E to \in Accounts : ApplyTransfer(s, to, amount, fee)
        BY <4>2 DEF ApplyTransfer, refinerVars
      <4>3. CASE ApplyBond(s, amount, fee)
        BY <1>1, <4>3, BondEffect
      <4>4. CASE ApplyUnbond(s, amount, fee)
        <5>1. Stake(r) = 0
          BY <1>1 DEF RefinerRecordsSound, CustodyHasRecord, Stake
        <5>2. amount \in Nat /\ amount > 0 /\ amount <= Stake(s)
          BY <1>1, <4>4, UnbondEffect
        <5>3. r # s
          BY <5>1, <5>2
        <5> QED  BY <1>1, <4>4, <5>3, UnbondEffect
      <4> QED  BY <4>1, <4>2, <4>3, <4>4
    <3>3. CASE FinishBlock
      BY <1>1, <3>3, FinishEffect
    <3>4. CASE UNCHANGED vars
      BY <3>4 DEF vars, refinerVars
    <3> QED  BY <1>1, <3>1, <3>2, <3>3, <3>4 DEF Next
  <2>2. TotalStake(entries'[r]) = 0 /\ PendingTotal(unbonding'[r]) = 0
    BY <1>1, <2>1 DEF RefinerRecordsSound, CustodyHasRecord
  <2>3. r \notin active_set'
    BY <1>1, <2>1 DEF ActiveSetMatchesStatus
  <2> QED  BY <2>1, <2>2, <2>3
<1>2. TypeOK /\ RefinerRecordsSound /\ RefinerRecordsSound' /\ ActiveSetMatchesStatus'
        /\ [Next]_vars => [Final]_vars
  BY <1>1
<1> QED  BY <1>2, TypeCorrect, RecordsTheorem, ActiveSetTheorem, PTL DEF Spec, SlashIsFinal

-----------------------------------------------------------------------------
(* The mint ledger. *)
LEMMA LedgerNext == TypeOK /\ MintLedgerAgrees /\ [Next]_vars => MintLedgerAgrees'
<1> SUFFICES ASSUME TypeOK, MintLedgerAgrees, [Next]_vars PROVE MintLedgerAgrees'
  OBVIOUS
<1>0. /\ total_issued \in Nat /\ total_burned \in Nat
      /\ mint_ledger.genesis \in Nat /\ mint_ledger.gross \in Nat /\ mint_ledger.burned \in Nat
      /\ block.slashed \in Nat /\ block.gross \in Nat /\ block.mine_assay \in Nat
      /\ assays \in Nat /\ FeesBurned \in Nat
  BY FeesBurnedBound DEF TypeOK, Blocks
<1>1. CASE BeginBlock
  <2>1. PICK evidence \in SUBSET Accounts :
          /\ SlashEvidence(evidence)
          /\ block'.slashed = SlashBurn(entries, status, unbonding, evidence)
          /\ block = NoBlock /\ UNCHANGED <<total_issued, mint_ledger>>
    BY <1>1 DEF BeginBlock, BeginMinedBlock, BeginRefinedBlock
  <2>2. SlashBurn(entries, status, unbonding, evidence) \in Nat
    BY <2>1, SlashEvidenceType
  <2>3. total_burned' = total_burned + SlashBurn(entries, status, unbonding, evidence)
    BY <2>1 DEF SlashEvidence
  <2>4. block.slashed = 0
    BY <2>1 DEF NoBlock
  <2> QED  BY <1>0, <2>1, <2>2, <2>3, <2>4 DEF MintLedgerAgrees
<1>2. CASE ApplyTransaction
  BY <1>2 DEF ApplyTransaction, ApplyTransfer, ApplyBond, ApplyUnbond, Transact, chainVars,
              MintLedgerAgrees
<1>3. CASE FinishBlock
  <2> DEFINE burned == FeesBurned + assays + block.mine_assay
  <2>1. /\ total_issued' = total_issued + block.gross
        /\ total_burned' = total_burned + burned
        /\ mint_ledger' = [genesis |-> mint_ledger.genesis,
                           gross |-> mint_ledger.gross + block.gross,
                           burned |-> mint_ledger.burned + burned + block.slashed]
        /\ block' = NoBlock
    BY <1>3 DEF FinishBlock
  <2>2. burned \in Nat
    BY <1>0
  <2> HIDE DEF burned
  <2>3. /\ mint_ledger'.genesis = mint_ledger.genesis
        /\ mint_ledger'.gross = mint_ledger.gross + block.gross
        /\ mint_ledger'.burned = mint_ledger.burned + burned + block.slashed
        /\ block'.slashed = 0
    BY <2>1 DEF NoBlock
  <2> QED  BY <1>0, <2>1, <2>2, <2>3 DEF MintLedgerAgrees
<1>4. CASE UNCHANGED vars
  BY <1>4 DEF vars, chainVars, blockVars, MintLedgerAgrees
<1> QED  BY <1>1, <1>2, <1>3, <1>4 DEF Next

(* The ledger kept for auditors and the counters of the chain state agree  *)
(* at every step of every block, although slashes enter one when they      *)
(* happen and the other at the end of the block.                           *)
THEOREM LedgerTheorem == Spec => []MintLedgerAgrees
<1>1. Init => MintLedgerAgrees
  <2> SUFFICES ASSUME Init PROVE MintLedgerAgrees
    OBVIOUS
  <2>1. TypeOK
    BY InitType
  <2>2. /\ mint_ledger.genesis = total_issued /\ mint_ledger.gross = 0
        /\ mint_ledger.burned = 0 /\ total_burned = 0 /\ block.slashed = 0
    BY DEF Init, NoBlock
  <2> QED  BY <2>1, <2>2 DEF MintLedgerAgrees, TypeOK
<1> QED  BY <1>1, TypeCorrect, LedgerNext, PTL DEF Spec

-----------------------------------------------------------------------------
(* Withdrawals leave custody when they are due, to their owner, or by a    *)
(* slash.                                                                  *)
LEMMA ReleaseStep ==
  ASSUME TypeOK, RefinerRecordsSound, UnbondDelay, [Next]_vars,
         NEW r \in Accounts, NEW m \in Maturities, unbonding'[r][m] < unbonding[r][m]
  PROVE  \/ status'[r] = "Slashed"
         \/ current_height' = m /\ balance'[r] >= balance[r] + unbonding[r][m]
<1>0. /\ m \in Nat /\ current_height \in Nat /\ unbonding[r] \in [Maturities -> Nat]
      /\ unbonding[r][m] \in Nat
  BY IndexSets DEF TypeOK, Heights
<1>1. CASE BeginBlock
  <2>1. PICK evidence \in SUBSET Accounts : SlashEvidence(evidence)
    BY <1>1 DEF BeginBlock, BeginMinedBlock, BeginRefinedBlock
  <2>2. r \in evidence
    BY <1>0, <2>1 DEF SlashEvidence, SlashQueue
  <2>3. unbonding'[r][m] = 0
    BY <2>1, <2>2 DEF SlashEvidence, SlashQueue
  <2>4. status[r] # "None"
    <3> SUFFICES ASSUME status[r] = "None" PROVE FALSE
      OBVIOUS
    <3>1. PendingTotal(unbonding[r]) = 0
      BY DEF RefinerRecordsSound, CustodyHasRecord
    <3> DEFINE q == unbonding[r]
    <3>2. q \in [Maturities -> Nat] /\ PendingTotal(q) = 0
      BY <1>0, <3>1
    <3> HIDE DEF q
    <3>3. q[m] = 0
      BY <3>2, PendingZero
    <3> QED  BY <1>0, <2>3, <3>3 DEF q
  <2> QED  BY <2>1, <2>2, <2>4, SlashEffect
<1>2. CASE ApplyTransaction
  <2>1. PICK s \in Accounts, amount \in Amounts, fee \in Fees :
          \/ \E to \in Accounts : ApplyTransfer(s, to, amount, fee)
          \/ ApplyBond(s, amount, fee)
          \/ ApplyUnbond(s, amount, fee)
    BY <1>2 DEF ApplyTransaction
  <2>2. amount \in Nat
    BY InputAssumption
  <2>3. \/ unbonding' = unbonding
        \/ unbonding' = UnbondQueue(unbonding, s, amount, BlockHeight)
    BY <2>1 DEF ApplyTransfer, ApplyBond, ApplyUnbond, refinerVars
  <2>4. CASE unbonding' = UnbondQueue(unbonding, s, amount, BlockHeight)
    <3>1. unbonding'[r][m] \in {unbonding[r][m], unbonding[r][m] + amount}
      BY <2>4 DEF UnbondQueue, TypeOK
    <3> QED  BY <1>0, <2>2, <3>1
  <2> QED  BY <1>0, <2>3, <2>4
<1>3. CASE FinishBlock
  <2> DEFINE h == BlockHeight
  <2>1. unbonding'[r][m] = IF m <= h THEN 0 ELSE unbonding[r][m]
    BY <1>3, FinishEffect
  <2>2. m <= h /\ unbonding[r][m] > 0
    BY <1>0, <2>1
  <2>3. current_height < m
    BY <2>2 DEF UnbondDelay
  <2>4. m = h /\ current_height' = h /\ h \in Nat
    BY <1>0, <1>3, <2>2, <2>3 DEF BlockHeight, FinishBlock
  <2> DEFINE paid == MaturedAmount(unbonding[r], h)
             income == IF r = block.producer THEN fees - FeesBurned ELSE 0
  <2>5. balance'[r] = balance[r] + income + paid
    BY <1>3 DEF FinishBlock
  <2>6. balance[r] \in Nat /\ income \in Nat
    <3>1. balance[r] \in Nat /\ fees \in Nat /\ FeesBurned \in Nat /\ FeesBurned <= fees
      BY FeesBurnedBound DEF TypeOK
    <3> QED  BY <3>1
  <2>7. paid \in Nat /\ paid >= unbonding[r][m]
    <3> DEFINE q == [x \in Maturities |-> IF x <= h THEN unbonding[r][x] ELSE 0]
    <3>1. \A x \in Maturities : q[x] \in Nat
      BY <1>0
    <3>2. q[m] = unbonding[r][m]
      BY <2>2
    <3>3. paid = SumFunctionOnSet(q, Maturities)
      BY DEF MaturedAmount
    <3> HIDE DEF q, paid, h
    <3>4. q[m] <= SumFunctionOnSet(q, Maturities)
      BY <3>1, IndexSets, SumBound
    <3>5. SumFunctionOnSet(q, Maturities) \in Nat
      BY <3>1, IndexSets, SumNonnegative
    <3> QED  BY <1>0, <3>2, <3>3, <3>4, <3>5
  <2> HIDE DEF paid, income, h
  <2> QED  BY <1>0, <2>4, <2>5, <2>6, <2>7
<1>4. CASE UNCHANGED vars
  BY <1>0, <1>4 DEF vars, refinerVars
<1> QED  BY <1>1, <1>2, <1>3, <1>4 DEF Next

(* A queued withdrawal is paid in full to its owner at the height it was   *)
(* queued for, or burned with its slashed owner; nothing else touches it.  *)
THEOREM CustodyTheorem == Spec => CustodyReleased
<1> DEFINE Released == \A r \in Accounts, m \in Maturities :
                         unbonding'[r][m] < unbonding[r][m] =>
                           \/ status'[r] = "Slashed"
                           \/ current_height' = m /\ balance'[r] >= balance[r] + unbonding[r][m]
<1>1. TypeOK /\ RefinerRecordsSound /\ UnbondDelay /\ [Next]_vars => [Released]_vars
  BY ReleaseStep
<1> QED  BY <1>1, TypeCorrect, RecordsTheorem, DelayTheorem, PTL DEF Spec, CustodyReleased

-----------------------------------------------------------------------------
(* Activation and ranking. *)

(* What the end of a block does to statuses and to the active set. *)
LEMMA ActivationStep ==
  ASSUME TypeOK, FinishBlock, NEW r \in Accounts, r \in active_set', r \notin active_set
  PROVE  /\ current_height' % EPOCH = 0
         /\ \/ status[r] = "Waiting"
            \/ \E h \in Heights : entries[r][h] > 0 /\ h + EPOCH <= current_height'
<1> DEFINE h == BlockHeight
           gone == Withdrawn(entries, status, unbonding, h)
           removed == RemoveWithdrawn(status, gone)
           waiting == ActivateMatured(removed, entries, h)
           limit == active_refiner_limit(total_issued + block.gross)
           kept == active_set \ gone
<1>1. /\ active_set' = IF h % EPOCH = 0 THEN RerankActive(kept, waiting, entries, limit)
                       ELSE kept
      /\ current_height' = h
  BY DEF FinishBlock
<1>2. h \in Nat /\ EPOCH \in Nat /\ Heights \subseteq Nat
  BY EpochAssumption, IndexSets DEF TypeOK, BlockHeight, Heights
<1>3. kept \subseteq active_set
  OBVIOUS
<1>4. \/ removed[r] = status[r]
      \/ removed[r] = "None"
  BY DEF RemoveWithdrawn
<1> HIDE DEF kept, limit, removed, h
<1>5. waiting[r] = "Waiting" =>
        \/ removed[r] = "Waiting"
        \/ \E b \in Heights : entries[r][b] > 0 /\ h >= b + EPOCH
  BY DEF ActivateMatured
<1> HIDE DEF waiting
<1>6. h % EPOCH = 0 /\ r \in RerankActive(kept, waiting, entries, limit)
  BY <1>1, <1>3
<1>7. waiting[r] = "Waiting"
  BY <1>3, <1>6 DEF RerankActive
<1>8. CASE removed[r] = "Waiting"
  BY <1>1, <1>4, <1>6, <1>8
<1>9. CASE \E b \in Heights : entries[r][b] > 0 /\ h >= b + EPOCH
  <2>1. PICK b \in Heights : entries[r][b] > 0 /\ h >= b + EPOCH
    BY <1>9
  <2>2. b \in Nat /\ b + EPOCH <= h
    BY <1>2, <2>1
  <2> QED  BY <1>1, <1>6, <2>1, <2>2
<1> QED  BY <1>5, <1>7, <1>8, <1>9

(* Refiners enter the active set only at an epoch boundary, after having   *)
(* been ranked Waiting or with a bond of at least one epoch.               *)
THEOREM ActivationTheorem == Spec => ActivationAtBoundary
<1> DEFINE Entered ==
      \A r \in Accounts :
       r \in active_set' /\ r \notin active_set =>
         /\ current_height' % EPOCH = 0
         /\ \/ status[r] = "Waiting"
            \/ \E h \in Heights : entries[r][h] > 0 /\ h + EPOCH <= current_height'
<1>1. ASSUME TypeOK, [Next]_vars PROVE Entered
  <2>1. CASE BeginBlock
    BY <2>1 DEF BeginBlock, BeginMinedBlock, BeginRefinedBlock, SlashEvidence
  <2>2. CASE ApplyTransaction
    BY <2>2 DEF ApplyTransaction, ApplyTransfer, ApplyBond, ApplyUnbond, UnbondActive,
                refinerVars
  <2>3. CASE FinishBlock
    BY <1>1, <2>3, ActivationStep
  <2>4. CASE UNCHANGED vars
    BY <2>4 DEF vars, refinerVars
  <2> QED  BY <1>1, <2>1, <2>2, <2>3, <2>4 DEF Next
<1>2. TypeOK /\ [Next]_vars => [Entered]_vars
  BY <1>1
<1> QED  BY <1>2, TypeCorrect, PTL DEF Spec, ActivationAtBoundary

(* The order of rerank_refiners: by stake descending and id ascending. *)
Before(es, q, r) ==
  \/ TotalStake(es[q]) > TotalStake(es[r])
  \/ TotalStake(es[q]) = TotalStake(es[r]) /\ q < r

(* Ranks follow the order, so no two refiners share one. *)
LEMMA RankOrder ==
  ASSUME NEW es \in [Accounts -> [Heights -> Nat]], NEW st,
         NEW q \in Eligible(st, es), NEW r \in Eligible(st, es)
  PROVE  /\ RankOf(r, st, es) \in Nat
         /\ Before(es, q, r) => RankOf(q, st, es) < RankOf(r, st, es)
         /\ q # r => Before(es, q, r) \/ Before(es, r, q)
<1> DEFINE E == Eligible(st, es)
           B(x) == {y \in E : Before(es, y, x)}
<1>1. E \subseteq Accounts /\ \A x \in E : x \in Nat /\ TotalStake(es[x]) \in Nat
  BY AccountsAssumption, StakeNat DEF Eligible
<1>2. IsFiniteSet(E)
  BY <1>1, AccountsAssumption, FS_Subset
<1>3. \A x : RankOf(x, st, es) = Cardinality(B(x))
  BY DEF RankOf, Before
<1> HIDE DEF E
<1>4. \A x : B(x) \in SUBSET E /\ IsFiniteSet(B(x)) /\ Cardinality(B(x)) \in Nat
  <2> TAKE x
  <2>1. B(x) \in SUBSET E
    OBVIOUS
  <2>2. IsFiniteSet(B(x))
    BY <1>2, <2>1, FS_Subset
  <2> QED  BY <2>1, <2>2, FS_CardinalityType
<1>5. q \in E /\ r \in E
  BY DEF E
<1>6. q # r => Before(es, q, r) \/ Before(es, r, q)
  <2> DEFINE x == TotalStake(es[q])
             y == TotalStake(es[r])
  <2>1. q \in Nat /\ r \in Nat /\ x \in Nat /\ y \in Nat
    BY <1>1, <1>5
  <2>2. /\ Before(es, q, r) <=> x > y \/ (x = y /\ q < r)
        /\ Before(es, r, q) <=> y > x \/ (y = x /\ r < q)
    BY DEF Before
  <2> HIDE DEF x, y
  <2> QED  BY <2>1, <2>2
<1>7. ASSUME Before(es, q, r) PROVE Cardinality(B(q)) < Cardinality(B(r))
  <2>1. \A y \in B(q) : y \in B(r)
    BY <1>1, <1>5, <1>7 DEF Before
  <2>2. q \in B(r) /\ q \notin B(q)
    BY <1>1, <1>5, <1>7 DEF Before
  <2>3. B(q) \in SUBSET B(r) /\ B(q) # B(r)
    BY <2>1, <2>2
  <2>4. /\ Cardinality(B(q)) <= Cardinality(B(r))
        /\ Cardinality(B(r)) = Cardinality(B(q)) => B(r) = B(q)
    BY <1>4, <2>3, FS_Subset
  <2>5. Cardinality(B(q)) \in Nat /\ Cardinality(B(r)) \in Nat
    BY <1>4
  <2> DEFINE c == Cardinality(B(q))
             d == Cardinality(B(r))
  <2>6. c \in Nat /\ d \in Nat /\ c <= d /\ d # c
    BY <2>3, <2>4, <2>5
  <2>7. c < d
    <3> HIDE DEF c, d
    <3> QED  BY <2>6
  <2> QED  BY <2>7
<1> HIDE DEF B
<1> QED  BY <1>3, <1>4, <1>6, <1>7

(* At most limit refiners have a rank below limit. *)
LEMMA FewRanked ==
  ASSUME NEW es \in [Accounts -> [Heights -> Nat]], NEW st, NEW limit \in Nat,
         NEW S \in SUBSET Eligible(st, es), \A r \in S : RankOf(r, st, es) < limit
  PROVE  Cardinality(S) <= limit
<1> DEFINE f == [r \in S |-> RankOf(r, st, es)]
           T == 0 .. (limit - 1)
<1>1. \A r \in S : RankOf(r, st, es) \in T
  <2> SUFFICES ASSUME NEW r \in S PROVE RankOf(r, st, es) \in T
    OBVIOUS
  <2>1. RankOf(r, st, es) \in Nat
    BY RankOrder
  <2> QED  BY <2>1
<1>2. \A q, r \in S : f[q] = f[r] => q = r
  <2> SUFFICES ASSUME NEW q \in S, NEW r \in S, RankOf(q, st, es) = RankOf(r, st, es), q # r
               PROVE  FALSE
    OBVIOUS
  <2>1. q \in Eligible(st, es) /\ r \in Eligible(st, es)
    OBVIOUS
  <2>2. /\ RankOf(r, st, es) \in Nat /\ RankOf(q, st, es) \in Nat
        /\ Before(es, q, r) => RankOf(q, st, es) < RankOf(r, st, es)
        /\ Before(es, r, q) => RankOf(r, st, es) < RankOf(q, st, es)
        /\ Before(es, q, r) \/ Before(es, r, q)
    BY <2>1, RankOrder
  <2> QED  BY <2>2
<1>3. f \in Injection(S, T)
  BY <1>1, <1>2 DEF Injection, IsInjective
<1>4. IsFiniteSet(T) /\ Cardinality(T) = limit
  <2>1. IsFiniteSet(T) /\ Cardinality(T) = IF 0 > limit - 1 THEN 0 ELSE limit - 1 - 0 + 1
    BY FS_Interval
  <2> QED  BY <2>1
<1> HIDE DEF f, T
<1> QED  BY <1>3, <1>4, FS_Injection

(* integer_sqrt_floor and the limit on active refiners grow with supply. *)
LEMMA SqrtMonotone ==
  ASSUME NEW m \in Nat, NEW n \in Nat, m <= n
  PROVE  ISqrtFloor(m) <= ISqrtFloor(n)
<1> DEFINE a == ISqrtFloor(m)
           b == ISqrtFloor(n)
<1>1. a \in Nat /\ b \in Nat /\ a * a <= m /\ n < (b + 1) * (b + 1)
  BY SqrtType
<1> HIDE DEF a, b
<1>2. SUFFICES ASSUME a >= b + 1 PROVE FALSE
  BY <1>1 DEF a, b
<1>3. a * a >= (b + 1) * a
  BY <1>1, <1>2
<1>4. (b + 1) * a >= (b + 1) * (b + 1)
  BY <1>1, <1>2
<1> DEFINE x == a * a
           y == (b + 1) * a
           z == (b + 1) * (b + 1)
<1>5. x \in Nat /\ y \in Nat /\ z \in Nat /\ x >= y /\ y >= z /\ x <= m /\ n < z
  BY <1>1, <1>3, <1>4
<1> HIDE DEF x, y, z
<1> QED  BY <1>5

LEMMA LimitMonotone ==
  ASSUME NEW issued \in Nat, NEW more \in Nat
  PROVE  active_refiner_limit(issued) <= active_refiner_limit(issued + more)
<1> DEFINE x == issued \div FLAKES_PER_OPL
           y == (issued + more) \div FLAKES_PER_OPL
<1>1. x \in Nat /\ y \in Nat
  BY FlakesAssumption, DivNat
<1>2. x <= y
  BY FlakesAssumption
<1>3. active_refiner_limit(issued) = EPOCH + ISqrtFloor(x)
      /\ active_refiner_limit(issued + more) = EPOCH + ISqrtFloor(y)
  BY DEF active_refiner_limit
<1> HIDE DEF x, y
<1>4. ISqrtFloor(x) <= ISqrtFloor(y) /\ ISqrtFloor(x) \in Nat /\ ISqrtFloor(y) \in Nat
  BY <1>1, <1>2, SqrtMonotone, SqrtNat
<1> QED  BY <1>3, <1>4, EpochAssumption

(* The end of a block: at a boundary the refiners that stay or become      *)
(* active are those of the lowest ranks.                                   *)
LEMMA BestFinish ==
  ASSUME TypeOK, TypeOK', RefinerRecordsSound, RefinerRecordsSound',
         ActiveSetMatchesStatus', ActiveAreBest, FinishBlock
  PROVE  ActiveAreBest'
<1> DEFINE h == BlockHeight
           gone == Withdrawn(entries, status, unbonding, h)
           waiting == ActivateMatured(RemoveWithdrawn(status, gone), entries, h)
           limit == active_refiner_limit(total_issued + block.gross)
<1>1. /\ status' = IF h % EPOCH = 0 THEN Rerank(waiting, entries, limit) ELSE waiting
      /\ h % EPOCH # 0 => active_set' = active_set \ gone
      /\ total_issued' = total_issued + block.gross
      /\ current_height' = h /\ entries' = entries
  BY DEF FinishBlock
<1>2. total_issued \in Nat /\ block.gross \in Nat /\ total_issued + block.gross \in Nat
  BY DEF TypeOK, Blocks
<1>3. limit \in Nat /\ active_refiner_limit(total_issued) \in Nat
      /\ active_refiner_limit(total_issued) <= limit
  BY <1>2, LimitMonotone, LimitTypes
<1>4. limit = active_refiner_limit(total_issued)'
  BY <1>1 DEF active_refiner_limit, ISqrtFloor
<1>5. entries \in [Accounts -> [Heights -> Nat]]
  BY DEF TypeOK
<1> HIDE DEF h, gone, waiting, limit
<1>6. CASE h % EPOCH # 0
  <2>1. active_set' \in SUBSET active_set
    BY <1>1, <1>6
  <2>2. IsFiniteSet(active_set)
    BY AccountsAssumption, FS_Subset DEF TypeOK
  <2>3. Cardinality(active_set') <= Cardinality(active_set)
        /\ Cardinality(active_set') \in Nat /\ Cardinality(active_set) \in Nat
    BY <2>1, <2>2, FS_Subset, FS_CardinalityType
  <2>4. Cardinality(active_set) <= active_refiner_limit(total_issued)
    BY DEF ActiveAreBest
  <2>5. Cardinality(active_set') <= limit
    BY <1>3, <2>3, <2>4
  <2>6. ~AtBoundary'
    BY <1>1, <1>6 DEF AtBoundary
  <2> QED  BY <1>4, <2>5, <2>6 DEF ActiveAreBest
<1>7. CASE h % EPOCH = 0
  <2> DEFINE new == Rerank(waiting, entries, limit)
             E == Eligible(waiting, entries)
             Rank(r) == RankOf(r, waiting, entries)
  <2>1. status' = new
    BY <1>1, <1>7
  <2>2. ASSUME NEW r \in Accounts, status'[r] \in {"Active", "Waiting"}
        PROVE  /\ r \in E
               /\ status'[r] = "Active" <=> Rank(r) < limit
    <3>1. TotalStake(entries[r]) > 0
      BY <1>1, <2>2 DEF RefinerRecordsSound, CustodyHasRecord
    <3>2. new[r] = IF r \notin E THEN waiting[r]
                   ELSE IF waiting[r] = "Waiting" /\ Rank(r) < limit THEN "Active"
                   ELSE IF waiting[r] = "Active" /\ Rank(r) >= limit THEN "Waiting"
                   ELSE waiting[r]
      BY DEF Rerank
    <3>3. waiting[r] \in {"Active", "Waiting"}
      BY <2>1, <2>2, <3>2
    <3>4. r \in E
      BY <3>1, <3>3 DEF Eligible
    <3>5. Rank(r) \in Nat
      BY <1>5, <3>4, RankOrder
    <3> HIDE DEF Rank, E
    <3>6. Rank(r) < limit \/ Rank(r) >= limit
      BY <1>3, <3>5
    <3>7. ~(Rank(r) < limit /\ Rank(r) >= limit)
      BY <1>3, <3>5
    <3> QED  BY <2>1, <3>2, <3>3, <3>4, <3>6, <3>7
  <2>3. Cardinality(active_set') <= limit
    <3>1. \A r \in active_set' : r \in Accounts /\ status'[r] = "Active"
      BY DEF ActiveSetMatchesStatus
    <3>2. active_set' \in SUBSET E /\ \A r \in active_set' : Rank(r) < limit
      BY <2>2, <3>1
    <3> QED  BY <1>3, <1>5, <3>2, FewRanked
  <2>4. ASSUME NEW a \in Accounts, NEW w \in Accounts,
               status'[a] = "Active", status'[w] = "Waiting"
        PROVE  Before(entries, a, w)
    <3>1. a \in E /\ w \in E /\ Rank(a) < limit /\ ~(Rank(w) < limit) /\ a # w
      BY <2>2, <2>4
    <3>2. /\ Rank(a) \in Nat /\ Rank(w) \in Nat
          /\ Before(entries, w, a) => Rank(w) < Rank(a)
          /\ Before(entries, a, w) \/ Before(entries, w, a)
      BY <1>5, <3>1, RankOrder
    <3> HIDE DEF Rank
    <3> QED  BY <1>3, <3>1, <3>2
  <2>5. \A a, w \in Accounts : status'[a] = "Active" /\ status'[w] = "Waiting" =>
           \/ TotalStake(entries'[a]) > TotalStake(entries'[w])
           \/ TotalStake(entries'[a]) = TotalStake(entries'[w]) /\ a < w
    BY <1>1, <2>4 DEF Before
  <2> QED  BY <1>4, <2>3, <2>5 DEF ActiveAreBest
<1> QED  BY <1>6, <1>7

LEMMA BestNext ==
  TypeOK /\ TypeOK' /\ RefinerRecordsSound /\ RefinerRecordsSound'
    /\ ActiveSetMatchesStatus' /\ ActiveAreBest /\ [Next]_vars => ActiveAreBest'
<1> SUFFICES ASSUME TypeOK, TypeOK', RefinerRecordsSound, RefinerRecordsSound',
                    ActiveSetMatchesStatus', ActiveAreBest, [Next]_vars
             PROVE  ActiveAreBest'
  OBVIOUS
<1>s. ASSUME active_set' \subseteq active_set, total_issued' = total_issued, block' # NoBlock
      PROVE  ActiveAreBest'
  <2>1. IsFiniteSet(active_set)
    BY AccountsAssumption, FS_Subset DEF TypeOK
  <2>2. Cardinality(active_set') <= Cardinality(active_set)
        /\ Cardinality(active_set') \in Nat /\ Cardinality(active_set) \in Nat
    BY <1>s, <2>1, FS_Subset, FS_CardinalityType
  <2>3. Cardinality(active_set) <= active_refiner_limit(total_issued)
        /\ active_refiner_limit(total_issued) \in Nat
    BY LimitTypes DEF ActiveAreBest, TypeOK
  <2>4. active_refiner_limit(total_issued)' = active_refiner_limit(total_issued)
    BY <1>s DEF active_refiner_limit, ISqrtFloor
  <2>5. Cardinality(active_set') <= active_refiner_limit(total_issued)'
    BY <2>2, <2>3, <2>4
  <2> QED  BY <1>s, <2>5 DEF ActiveAreBest, AtBoundary
<1>1. CASE BeginBlock
  <2>1. \/ block'.kind = "Mined"
        \/ block'.kind = "Refined"
    BY <1>1 DEF BeginBlock, BeginMinedBlock, BeginRefinedBlock
  <2>2. active_set' \subseteq active_set /\ total_issued' = total_issued
    BY <1>1 DEF BeginBlock, BeginMinedBlock, BeginRefinedBlock, SlashEvidence
  <2>3. block' # NoBlock
    BY <2>1 DEF NoBlock
  <2> QED  BY <1>s, <2>2, <2>3
<1>2. CASE ApplyTransaction
  <2>1. active_set' \subseteq active_set /\ total_issued' = total_issued /\ block' # NoBlock
    BY <1>2 DEF ApplyTransaction, ApplyTransfer, ApplyBond, ApplyUnbond, Transact, chainVars,
                refinerVars, UnbondActive
  <2> QED  BY <1>s, <2>1
<1>3. CASE FinishBlock
  BY <1>3, BestFinish
<1>4. CASE UNCHANGED vars
  <2>1. UNCHANGED <<active_set, status, entries, total_issued, current_height, block>>
    BY <1>4 DEF vars, refinerVars, chainVars, blockVars
  <2>2. active_refiner_limit(total_issued)' = active_refiner_limit(total_issued)
    BY <2>1 DEF active_refiner_limit, ISqrtFloor
  <2> QED  BY <2>1, <2>2 DEF ActiveAreBest, AtBoundary
<1> QED  BY <1>1, <1>2, <1>3, <1>4 DEF Next

(* The active set never outgrows the limit that issued supply allows, and  *)
(* after the rerank of an epoch boundary no Waiting refiner ranks before   *)
(* an Active one.                                                          *)
THEOREM BestTheorem == Spec => []ActiveAreBest
<1>1. Init => ActiveAreBest
  <2> SUFFICES ASSUME Init PROVE ActiveAreBest
    OBVIOUS
  <2>1. active_set = {} /\ total_issued \in Nat /\ ~AtBoundary
    BY InitType DEF Init, TypeOK, AtBoundary
  <2>2. Cardinality(active_set) = 0
    BY <2>1, FS_EmptySet
  <2> QED  BY <2>1, <2>2, LimitTypes DEF ActiveAreBest
<1> QED  BY <1>1, TypeCorrect, RecordsTheorem, ActiveSetTheorem, BestNext, PTL DEF Spec

=============================================================================
