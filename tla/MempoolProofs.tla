---------------------------- MODULE MempoolProofs ---------------------------
(***************************************************************************)
(* Proofs about Mempool, for any senders, transactions and limits: the     *)
(* pool's accounting, and that an admission which inserts nothing removes  *)
(* nothing.                                                                *)
(***************************************************************************)
EXTENDS Mempool, SumTheorems

(* What a handler read is not ahead of the accounts, and it has checked    *)
(* the size.                                                               *)
HandlersBehind ==
  \A a \in arriving : /\ a.account_nonce <= nonce[a.tx.sender]
                      /\ a.tx.size <= TX_MAX_SIZE_BYTES

(* The entries are counted; the counts mean something as the pool is       *)
(* finite.                                                                 *)
EntriesInv ==
  /\ Pooled \subseteq Txs
  /\ IsFiniteSet(Pooled)
  /\ entries \in [Pooled -> EntryType]
  /\ account_tx_counts \in [Senders -> Nat]
  /\ total_size \in Nat
  /\ PoolAccounted
  /\ OneEntryPerNonce

IInv == TypeOK /\ IsFiniteSet(Pooled) /\ PoolAccounted /\ OneEntryPerNonce
        /\ NonceGapHeld /\ HandlersBehind

-----------------------------------------------------------------------------
(* Arithmetic. *)

LEMMA DivNat ==
  ASSUME NEW x \in Nat, NEW y \in Nat, y > 0
  PROVE  x \div y \in Nat
OBVIOUS

LEMMA ProductNat ==
  ASSUME NEW x \in Nat, NEW y \in Nat
  PROVE  x * y \in Nat
OBVIOUS

LEMMA MaxOfTwo ==
  ASSUME NEW x \in Nat, NEW y \in Nat
  PROVE  Max({x, y}) \in Nat /\ Max({x, y}) >= x /\ Max({x, y}) >= y
<1>1. \E m \in {x, y} : \A z \in {x, y} : m >= z
  OBVIOUS
<1>2. Max({x, y}) \in {x, y} /\ \A z \in {x, y} : Max({x, y}) >= z
  BY <1>1 DEF Max
<1> QED  BY <1>2

LEMMA MinOfTwo ==
  ASSUME NEW x \in Nat, NEW y \in Nat
  PROVE  Min({x, y}) \in Nat /\ Min({x, y}) <= x /\ Min({x, y}) <= y
<1>1. \E m \in {x, y} : \A z \in {x, y} : m =< z
  OBVIOUS
<1>2. Min({x, y}) \in {x, y} /\ \A z \in {x, y} : Min({x, y}) =< z
  BY <1>1 DEF Min
<1> QED  BY <1>2

LEMMA TxFields ==
  ASSUME NEW tx \in Txs
  PROVE  tx.sender \in Senders /\ tx.nonce \in Nat /\ tx.fee \in Nat /\ tx.size \in Nat
BY PoolDomains

-----------------------------------------------------------------------------
(* The bytes and the number of a set of transactions. *)

LEMMA SizeType ==
  ASSUME NEW S \in SUBSET Txs, IsFiniteSet(S)
  PROVE  SizeOf(S) \in Nat
<1> DEFINE f == [tx \in S |-> tx.size]
<1>1. \A x \in S : f[x] \in Nat
  BY TxFields
<1> HIDE DEF f
<1>2. SumFunctionOnSet(f, S) \in Nat
  BY <1>1, SumNonnegative
<1> QED  BY <1>2 DEF SizeOf, f

LEMMA SizeSplit ==
  ASSUME NEW S \in SUBSET Txs, IsFiniteSet(S), NEW T \in SUBSET S
  PROVE  /\ SizeOf(S) = SizeOf(T) + SizeOf(S \ T)
         /\ SizeOf(S) \in Nat /\ SizeOf(T) \in Nat /\ SizeOf(S \ T) \in Nat
<1> DEFINE f == [tx \in S |-> tx.size]
           R == S \ T
           g == [tx \in T |-> tx.size]
           h == [tx \in R |-> tx.size]
<1>0. IsFiniteSet(T) /\ IsFiniteSet(R) /\ R \in SUBSET S
  BY FS_Subset
<1>1. /\ \A x \in S : f[x] \in Int
      /\ \A x \in T : f[x] \in Int /\ g[x] = f[x]
      /\ \A x \in R : f[x] \in Int /\ h[x] = f[x]
  BY TxFields
<1>2. SumFunctionOnSet(f, S) = SumFunctionOnSet(f, T) + SumFunctionOnSet(f, R)
  <2> HIDE DEF f
  <2> QED  BY <1>1, SumSplit
<1>3. SumFunctionOnSet(g, T) = SumFunctionOnSet(f, T)
  <2> HIDE DEF f, g
  <2> QED  BY <1>0, <1>1, SumEqual
<1>4. SumFunctionOnSet(h, R) = SumFunctionOnSet(f, R)
  <2> HIDE DEF f, h, R
  <2> QED  BY <1>0, <1>1, SumEqual
<1>5. SizeOf(S) = SizeOf(T) + SizeOf(S \ T)
  BY <1>2, <1>3, <1>4 DEF SizeOf
<1>6. SizeOf(S) \in Nat /\ SizeOf(T) \in Nat /\ SizeOf(R) \in Nat
  <2> HIDE DEF R
  <2> QED  BY <1>0, SizeType
<1> QED  BY <1>5, <1>6

LEMMA SizeSingle ==
  ASSUME NEW x \in Txs
  PROVE  SizeOf({x}) = x.size
<1> DEFINE f == [tx \in {x} |-> tx.size]
<1>1. IsFiniteSet({x}) /\ x \in {x} /\ {x} \ {x} = {}
  BY FS_Singleton
<1>2. (\A y \in {x} : f[y] \in Int) /\ f[x] = x.size /\ x.size \in Int
  BY TxFields
<1> HIDE DEF f
<1>3. SumFunctionOnSet(f, {x}) = f[x] + SumFunctionOnSet(f, {x} \ {x})
  BY <1>1, <1>2, SumRemove
<1>4. SumFunctionOnSet(f, {x} \ {x}) = 0
  BY <1>1, SumEmpty
<1>5. SumFunctionOnSet(f, {x}) = x.size
  BY <1>2, <1>3, <1>4
<1> QED  BY <1>5 DEF SizeOf, f

LEMMA SizeEmpty == SizeOf({}) = 0
BY SumEmpty DEF SizeOf

LEMMA SizeInsert ==
  ASSUME NEW S \in SUBSET Txs, IsFiniteSet(S), NEW x \in Txs \ S
  PROVE  /\ SizeOf(S \cup {x}) = SizeOf(S) + x.size
         /\ IsFiniteSet(S \cup {x})
<1> DEFINE R == S \cup {x}
<1>1. IsFiniteSet(R)
  BY FS_AddElement
<1>2. R \in SUBSET Txs /\ S \in SUBSET R /\ R \ S = {x}
  OBVIOUS
<1>3. SizeOf(R) = SizeOf(S) + SizeOf(R \ S)
  <2> HIDE DEF R
  <2> QED  BY <1>1, <1>2, SizeSplit
<1> QED  BY <1>1, <1>2, <1>3, SizeSingle

(* The transactions of sender s in S. *)
By(S, s) == {tx \in S : tx.sender = s}

LEMMA CountSplit ==
  ASSUME NEW S, IsFiniteSet(S), NEW T \in SUBSET S, NEW s
  PROVE  /\ Cardinality(By(S \ T, s)) = Cardinality(By(S, s)) - Cardinality(By(T, s))
         /\ Cardinality(By(S, s)) \in Nat
         /\ Cardinality(By(T, s)) \in Nat
         /\ Cardinality(By(S \ T, s)) \in Nat
<1> DEFINE U == By(S, s)
           V == By(T, s)
<1>1. U \in SUBSET S /\ V \in SUBSET U /\ By(S \ T, s) = U \ V /\ U \cap V = V
  BY DEF By
<1> HIDE DEF U, V
<1>2. IsFiniteSet(U) /\ IsFiniteSet(V)
  BY <1>1, FS_Subset
<1>3. IsFiniteSet(U \ V) /\ Cardinality(U \ V) = Cardinality(U) - Cardinality(U \cap V)
  BY <1>2, FS_Difference
<1>4. Cardinality(U) \in Nat /\ Cardinality(V) \in Nat /\ Cardinality(U \ V) \in Nat
  BY <1>2, <1>3, FS_CardinalityType
<1> QED  BY <1>1, <1>3, <1>4 DEF U, V

LEMMA CountInsert ==
  ASSUME NEW S, IsFiniteSet(S), NEW x, x \notin S, NEW s
  PROVE  /\ x.sender = s => Cardinality(By(S \cup {x}, s)) = Cardinality(By(S, s)) + 1
         /\ x.sender # s => Cardinality(By(S \cup {x}, s)) = Cardinality(By(S, s))
<1>1. IsFiniteSet(By(S, s)) /\ x \notin By(S, s)
  BY FS_Subset DEF By
<1>2. CASE x.sender = s
  <2>1. By(S \cup {x}, s) = By(S, s) \cup {x}
    BY <1>2 DEF By
  <2> QED  BY <1>1, <1>2, <2>1, FS_AddElement
<1>3. CASE x.sender # s
  <2>1. By(S \cup {x}, s) = By(S, s)
    BY <1>3 DEF By
  <2> QED  BY <1>3, <2>1
<1> QED  BY <1>2, <1>3

-----------------------------------------------------------------------------
(* The operations on the entries. *)

LEMMA Accounted ==
  ASSUME EntriesInv
  PROVE  /\ total_size = SizeOf(Pooled)
         /\ SizeOf(Pooled) <= MEMPOOL_MAX_SIZE_BYTES
         /\ \A s \in Senders : /\ account_tx_counts[s] = Cardinality(By(Pooled, s))
                               /\ account_tx_counts[s] <= MEMPOOL_MAX_TXS_PER_ACCOUNT
BY DEF EntriesInv, PoolAccounted, By

(* Without the entries of gone, the counters never saturate. *)
LEMMA CountersAfter ==
  ASSUME EntriesInv, NEW gone \in SUBSET Pooled
  PROVE  /\ SaturatingSub(total_size, SizeOf(gone)) = SizeOf(Pooled \ gone)
         /\ SizeOf(Pooled \ gone) \in Nat
         /\ SizeOf(Pooled \ gone) <= MEMPOOL_MAX_SIZE_BYTES
         /\ total_size - SizeOf(gone) = SizeOf(Pooled \ gone)
         /\ CountsAfter(gone) \in [Senders -> Nat]
         /\ \A s \in Senders : /\ CountsAfter(gone)[s] = Cardinality(By(Pooled \ gone, s))
                               /\ CountsAfter(gone)[s] <= account_tx_counts[s]
<1>1. Pooled \in SUBSET Txs /\ IsFiniteSet(Pooled)
  BY DEF EntriesInv
<1>2. /\ SizeOf(Pooled) = SizeOf(gone) + SizeOf(Pooled \ gone)
      /\ SizeOf(Pooled) \in Nat /\ SizeOf(gone) \in Nat /\ SizeOf(Pooled \ gone) \in Nat
  BY <1>1, SizeSplit
<1>3. MEMPOOL_MAX_SIZE_BYTES \in Nat
  BY PoolNaturals
<1>4. ASSUME NEW s \in Senders
      PROVE  /\ CountsAfter(gone)[s] = Cardinality(By(Pooled \ gone, s))
             /\ CountsAfter(gone)[s] \in Nat
             /\ CountsAfter(gone)[s] <= account_tx_counts[s]
  <2>1. CountsAfter(gone)[s] =
          SaturatingSub(account_tx_counts[s], Cardinality(By(gone, s)))
    BY DEF CountsAfter, By
  <2>2. /\ Cardinality(By(Pooled \ gone, s)) =
             Cardinality(By(Pooled, s)) - Cardinality(By(gone, s))
        /\ Cardinality(By(Pooled, s)) \in Nat
        /\ Cardinality(By(gone, s)) \in Nat
        /\ Cardinality(By(Pooled \ gone, s)) \in Nat
    BY <1>1, CountSplit
  <2>3. account_tx_counts[s] = Cardinality(By(Pooled, s))
    BY Accounted
  <2> QED  BY <2>1, <2>2, <2>3 DEF SaturatingSub
<1>5. CountsAfter(gone) \in [Senders -> Nat]
  <2>1. CountsAfter(gone) = [s \in Senders |-> CountsAfter(gone)[s]]
    BY DEF CountsAfter
  <2> QED  BY <1>4, <2>1
<1>6. SaturatingSub(total_size, SizeOf(gone)) = SizeOf(Pooled \ gone)
  BY <1>2, Accounted DEF SaturatingSub
<1>7. SizeOf(Pooled \ gone) <= MEMPOOL_MAX_SIZE_BYTES
  BY <1>2, <1>3, Accounted
<1>8. total_size - SizeOf(gone) = SizeOf(Pooled \ gone)
  BY <1>2, Accounted
<1> QED  BY <1>2, <1>4, <1>5, <1>6, <1>7, <1>8

(* Removing any entries leaves an accounted pool. *)
LEMMA RemoveKeepsEntries ==
  ASSUME EntriesInv, NEW gone \in SUBSET Pooled, RemoveEntries(gone)
  PROVE  EntriesInv' /\ Pooled' = Pooled \ gone
<1>1. entries' = [tx \in Pooled \ gone |-> entries[tx]]
  BY DEF RemoveEntries, Restrict
<1>2. Pooled' = Pooled \ gone
  BY <1>1 DEF Pooled
<1>3. Pooled' \subseteq Txs /\ IsFiniteSet(Pooled')
  BY <1>2, FS_Subset DEF EntriesInv
<1>4. entries' \in [Pooled' -> EntryType]
  BY <1>1, <1>2 DEF EntriesInv
<1>5. /\ account_tx_counts' = CountsAfter(gone)
      /\ total_size' = SizeOf(Pooled')
      /\ total_size' \in Nat
      /\ SizeOf(Pooled') <= MEMPOOL_MAX_SIZE_BYTES
  BY <1>2, CountersAfter DEF RemoveEntries
<1>6. account_tx_counts' \in [Senders -> Nat]
  BY <1>5, CountersAfter
<1>7. ASSUME NEW s \in Senders
      PROVE  /\ account_tx_counts'[s] = Cardinality(By(Pooled', s))
             /\ account_tx_counts'[s] <= MEMPOOL_MAX_TXS_PER_ACCOUNT
  <2>1. /\ account_tx_counts'[s] = Cardinality(By(Pooled', s))
        /\ account_tx_counts'[s] <= account_tx_counts[s]
    BY <1>2, <1>5, CountersAfter
  <2>2. /\ account_tx_counts[s] <= MEMPOOL_MAX_TXS_PER_ACCOUNT
        /\ account_tx_counts[s] \in Nat /\ account_tx_counts'[s] \in Nat
    BY <1>6, Accounted DEF EntriesInv
  <2> QED  BY <2>1, <2>2, PoolNaturals
<1>8. PoolAccounted'
  BY <1>5, <1>7 DEF PoolAccounted, By, SizeOf
<1>9. OneEntryPerNonce'
  BY <1>2 DEF EntriesInv, OneEntryPerNonce
<1> QED  BY <1>2, <1>3, <1>4, <1>5, <1>6, <1>8, <1>9 DEF EntriesInv

(* So does inserting a transaction in the place of those it replaces. *)
LEMMA InsertKeepsEntries ==
  ASSUME EntriesInv, NEW a, a.tx \in Txs \ Pooled, a.priority \in Nat,
         NEW gone \in SUBSET Pooled, SameNonce(a) \subseteq gone,
         WithinAccountLimit(a),
         total_size - SizeOf(gone) + a.tx.size <= MEMPOOL_MAX_SIZE_BYTES,
         Insert(a, gone)
  PROVE  EntriesInv' /\ Pooled' = (Pooled \ gone) \cup {a.tx}
<1> DEFINE x == a.tx
           R == Pooled \ gone
           counts == CountsAfter(gone)
<1>0. x \in Txs /\ x \notin R /\ R \in SUBSET Txs /\ IsFiniteSet(R)
  BY FS_Subset DEF EntriesInv
<1>x. x.sender \in Senders /\ x.nonce \in Nat /\ x.size \in Nat
  BY <1>0, TxFields
<1>1. /\ entries' = [tx \in R \cup {x} |->
                      IF tx = x THEN [priority |-> a.priority, age |-> 0] ELSE entries[tx]]
      /\ account_tx_counts' = [counts EXCEPT ![x.sender] = @ + 1]
      /\ total_size' = SaturatingSub(total_size, SizeOf(gone)) + x.size
  BY DEF Insert
<1>2. Pooled' = R \cup {x}
  BY <1>1 DEF Pooled
<1>3. Pooled' \subseteq Txs
  BY <1>0, <1>2
<1>4. /\ SizeOf(R \cup {x}) = SizeOf(R) + x.size
      /\ IsFiniteSet(R \cup {x})
  <2> HIDE DEF R, x
  <2> QED  BY <1>0, SizeInsert
<1>5. entries' \in [Pooled' -> EntryType]
  <2>1. [priority |-> a.priority, age |-> 0] \in EntryType
    BY PoolNaturals DEF EntryType, ExpiredAge
  <2>2. \A tx \in R : entries[tx] \in EntryType
    BY DEF EntriesInv
  <2> HIDE DEF R, x
  <2> QED  BY <1>1, <1>2, <2>1, <2>2
<1>6. total_size' = SizeOf(Pooled') /\ total_size' \in Nat
      /\ SizeOf(Pooled') <= MEMPOOL_MAX_SIZE_BYTES
  <2>1. /\ SaturatingSub(total_size, SizeOf(gone)) = SizeOf(R)
        /\ total_size - SizeOf(gone) = SizeOf(R)
        /\ SizeOf(R) \in Nat
    BY CountersAfter
  <2>2. SizeOf(R) + x.size <= MEMPOOL_MAX_SIZE_BYTES
    BY <2>1
  <2> HIDE DEF R, x
  <2> QED  BY <1>x, <1>1, <1>2, <1>4, <2>1, <2>2
<1>7. counts \in [Senders -> Nat]
  BY CountersAfter
<1>8. account_tx_counts' \in [Senders -> Nat]
  <2> HIDE DEF counts, x
  <2> QED  BY <1>x, <1>1, <1>7
<1>9. ASSUME NEW s \in Senders
      PROVE  /\ account_tx_counts'[s] = Cardinality(By(Pooled', s))
             /\ account_tx_counts'[s] <= MEMPOOL_MAX_TXS_PER_ACCOUNT
  <2>1. /\ counts[s] = Cardinality(By(R, s))
        /\ counts[s] <= account_tx_counts[s]
        /\ counts[s] \in Nat
    BY <1>7, CountersAfter
  <2>2. /\ account_tx_counts[s] <= MEMPOOL_MAX_TXS_PER_ACCOUNT
        /\ account_tx_counts[s] \in Nat
        /\ MEMPOOL_MAX_TXS_PER_ACCOUNT \in Nat
    BY Accounted, PoolNaturals DEF EntriesInv
  <2>3. CASE s = x.sender
    <3>1. account_tx_counts'[s] = counts[s] + 1
      <4> HIDE DEF counts, x
      <4> QED  BY <1>1, <1>7, <2>3
    <3>2. account_tx_counts[s] < MEMPOOL_MAX_TXS_PER_ACCOUNT
      BY <2>3 DEF WithinAccountLimit
    <3>3. Cardinality(By(R \cup {x}, s)) = Cardinality(By(R, s)) + 1
      <4> HIDE DEF R, x
      <4> QED  BY <1>0, <2>3, CountInsert
    <3> QED
      <4> HIDE DEF R, x, counts
      <4> QED  BY <1>2, <2>1, <2>2, <3>1, <3>2, <3>3
  <2>4. CASE s # x.sender
    <3>1. account_tx_counts'[s] = counts[s]
      <4> HIDE DEF counts, x
      <4> QED  BY <1>1, <1>7, <2>4
    <3>3. Cardinality(By(R \cup {x}, s)) = Cardinality(By(R, s))
      <4> HIDE DEF R, x
      <4> QED  BY <1>0, <2>4, CountInsert
    <3> QED
      <4> HIDE DEF R, x, counts
      <4> QED  BY <1>2, <2>1, <2>2, <3>1, <3>3
  <2> QED  BY <2>3, <2>4
<1>10. PoolAccounted'
  BY <1>6, <1>9 DEF PoolAccounted, By, SizeOf
<1>11. OneEntryPerNonce'
  <2> SUFFICES ASSUME NEW tx \in Pooled', NEW ty \in Pooled',
                      tx.sender = ty.sender, tx.nonce = ty.nonce
               PROVE  tx = ty
    BY DEF OneEntryPerNonce
  <2>1. \A t \in R : ~(t.sender = x.sender /\ t.nonce = x.nonce)
    BY DEF SameNonce
  <2>2. \A t, u \in R : t.sender = u.sender /\ t.nonce = u.nonce => t = u
    BY DEF EntriesInv, OneEntryPerNonce
  <2>3. tx \in R \cup {x} /\ ty \in R \cup {x}
    BY <1>2
  <2> HIDE DEF R, x
  <2> QED  BY <2>1, <2>2, <2>3
<1> QED  BY <1>2, <1>3, <1>4, <1>5, <1>6, <1>8, <1>10, <1>11 DEF EntriesInv

(* What an admission removes are entries, the one it replaces among them,  *)
(* and they make room: an eviction frees as much as the transaction needs  *)
(* or empties the pool.                                                    *)
LEMMA RemovalsMakeRoom ==
  ASSUME EntriesInv, NEW a, a.tx \in Txs, a.tx.size <= TX_MAX_SIZE_BYTES,
         NEW gone \in Removals(a)
  PROVE  /\ gone \in SUBSET Pooled
         /\ SameNonce(a) \subseteq gone
         /\ total_size - SizeOf(gone) + a.tx.size <= MEMPOOL_MAX_SIZE_BYTES
<1> DEFINE r == SameNonce(a)
           z == a.tx.size
           rest == Pooled \ r
<1>1. /\ r \in SUBSET Pooled /\ rest \in SUBSET Txs /\ IsFiniteSet(rest)
      /\ Pooled \in SUBSET Txs /\ IsFiniteSet(Pooled)
  BY FS_Subset DEF SameNonce, EntriesInv
<1>2. \A t, u \in r : t = u
  BY DEF SameNonce, EntriesInv, OneEntryPerNonce
<1>3. PICK q \in IF r = {} THEN {{}} ELSE {{tx} : tx \in r} :
        gone \in {q \cup u : u \in IF total_size - SizeOf(q) + z > MEMPOOL_MAX_SIZE_BYTES
                                  THEN Evictions(Pooled \ q, z) ELSE {{}}}
  BY DEF Removals
<1>4. q = r
  <2> HIDE DEF r
  <2> QED  BY <1>2, <1>3
<1>5. PICK v \in IF total_size - SizeOf(r) + z > MEMPOOL_MAX_SIZE_BYTES
                 THEN Evictions(rest, z) ELSE {{}} : gone = r \cup v
  <2> HIDE DEF r, z
  <2> QED  BY <1>3, <1>4
<1>6. z \in Nat /\ MEMPOOL_MAX_SIZE_BYTES \in Nat /\ TX_MAX_SIZE_BYTES \in Nat
      /\ z <= TX_MAX_SIZE_BYTES /\ TX_MAX_SIZE_BYTES <= MEMPOOL_MAX_SIZE_BYTES
  BY TxFields, PoolNaturals, RoomForOne
<1>7. CASE ~(total_size - SizeOf(r) + z > MEMPOOL_MAX_SIZE_BYTES)
  <2>1. gone = r
    BY <1>5, <1>7
  <2>2. total_size - SizeOf(r) \in Int
    <3> HIDE DEF r
    <3>1. total_size - SizeOf(r) = SizeOf(Pooled \ r) /\ SizeOf(Pooled \ r) \in Nat
      BY <1>1, CountersAfter
    <3> QED  BY <3>1
  <2> QED  BY <1>1, <1>6, <1>7, <2>1, <2>2
<1>8. CASE total_size - SizeOf(r) + z > MEMPOOL_MAX_SIZE_BYTES
  <2>1. v \in Evictions(rest, z)
    BY <1>5, <1>8
  <2>2. v \in SUBSET rest /\ (SizeOf(v) >= z \/ v = rest)
    BY <2>1 DEF Evictions, EvictionPrefixes
  <2>3. gone \in SUBSET Pooled /\ r \subseteq gone /\ Pooled \ gone = rest \ v
    BY <1>1, <1>5, <2>2
  <2>4. total_size - SizeOf(gone) = SizeOf(rest \ v)
    BY <2>3, CountersAfter
  <2>5. CASE v = rest
    <3>1. rest \ v = {}
      BY <2>5
    <3>2. total_size - SizeOf(gone) = 0
      BY <2>4, <3>1, SizeEmpty
    <3>3. total_size - SizeOf(gone) + z <= MEMPOOL_MAX_SIZE_BYTES
      <4> HIDE DEF z
      <4> QED  BY <1>6, <3>2
    <3> QED  BY <2>3, <3>3
  <2>6. CASE SizeOf(v) >= z
    <3>1. /\ SizeOf(rest) = SizeOf(v) + SizeOf(rest \ v)
          /\ SizeOf(v) \in Nat /\ SizeOf(rest \ v) \in Nat
      <4> HIDE DEF rest
      <4> QED  BY <1>1, <2>2, SizeSplit
    <3>2. SizeOf(rest) <= MEMPOOL_MAX_SIZE_BYTES
      BY <1>1, CountersAfter
    <3> HIDE DEF rest, z
    <3>3. SizeOf(rest \ v) + z <= MEMPOOL_MAX_SIZE_BYTES
      BY <1>6, <2>6, <3>1, <3>2
    <3> QED  BY <2>3, <2>4, <3>3 DEF z
  <2> QED  BY <2>2, <2>5, <2>6
<1> QED  BY <1>7, <1>8

-----------------------------------------------------------------------------
(* The rest of the state. *)
Handler == [tx : Txs, priority : Nat, account_nonce : Nat, suggested_fee : Nat]

ChainType == /\ nonce \in [Senders -> Nat]
             /\ suggested_fee \in Nat
             /\ height \in Nat

HandlerType == /\ arriving \subseteq Handler
               /\ arrivals \in Nat

CandidateType == candidate \subseteq Seq(Txs)

LEMMA IInvParts ==
  IInv <=> EntriesInv /\ ChainType /\ HandlerType /\ CandidateType
           /\ NonceGapHeld /\ HandlersBehind
BY DEF IInv, TypeOK, EntriesInv, ChainType, HandlerType, CandidateType, Handler

LEMMA IInvPartsNext ==
  ASSUME EntriesInv', ChainType', HandlerType', CandidateType',
         NonceGapHeld', HandlersBehind'
  PROVE  IInv'
BY DEF IInv, TypeOK, EntriesInv, ChainType, HandlerType, CandidateType, Handler

LEMMA SameEntries ==
  ASSUME EntriesInv, UNCHANGED pool
  PROVE  EntriesInv' /\ Pooled' = Pooled
<1>1. entries' = entries /\ account_tx_counts' = account_tx_counts
      /\ total_size' = total_size
  BY DEF pool
<1> QED
  BY <1>1 DEF EntriesInv, PoolAccounted, OneEntryPerNonce, Pooled

LEMMA InitHolds == Init => IInv
<1> SUFFICES ASSUME Init PROVE IInv
  OBVIOUS
<1>1. entries = <<>> /\ Pooled = {}
  BY DEF Init, Pooled
<1>2. entries \in [Pooled -> EntryType]
  BY <1>1
<1>3. IsFiniteSet(Pooled) /\ SizeOf(Pooled) = 0
  BY <1>1, FS_EmptySet, SizeEmpty
<1>4. \A s \in Senders : Cardinality({tx \in Pooled : tx.sender = s}) = 0
  BY <1>1, FS_EmptySet
<1>5. PoolAccounted
  <2>1. \A s \in Senders : account_tx_counts[s] = 0
    BY DEF Init
  <2>2. total_size = 0
    BY DEF Init
  <2> QED  BY <1>3, <1>4, <2>1, <2>2, PoolNaturals DEF PoolAccounted
<1>6. EntriesInv
  BY <1>1, <1>2, <1>3, <1>5 DEF EntriesInv, Init, OneEntryPerNonce
<1>7. ChainType /\ HandlerType /\ CandidateType /\ NonceGapHeld /\ HandlersBehind
  BY <1>1, PoolNaturals
     DEF Init, ChainType, HandlerType, CandidateType, NonceGapHeld, HandlersBehind
<1> QED  BY <1>6, <1>7, IInvParts

LEMMA PriorityType ==
  ASSUME NEW source, NEW tx \in Txs
  PROVE  Priority(source, tx) \in Nat
<1>1. tx.fee \in Nat /\ tx.size \in Nat /\ PRIORITY_SCALE \in Nat
  BY TxFields, PoolNaturals
<1>2. Max({tx.size, 1}) \in Nat /\ Max({tx.size, 1}) > 0
  BY <1>1, MaxOfTwo
<1>3. tx.fee * PRIORITY_SCALE \in Nat
  BY <1>1, ProductNat
<1>4. (tx.fee * PRIORITY_SCALE) \div Max({tx.size, 1}) \in Nat
  BY <1>2, <1>3, DivNat
<1> QED  BY <1>1, <1>4 DEF Priority

LEMMA ReceiveHolds ==
  ASSUME IInv, NEW source, Receive(source)
  PROVE  IInv'
<1>1. EntriesInv' /\ Pooled' = Pooled
  BY IInvParts, SameEntries DEF Receive
<1>2. UNCHANGED <<nonce, suggested_fee, height, candidate>> /\ arrivals' = arrivals + 1
  BY DEF Receive, chain
<1>3. ChainType' /\ CandidateType' /\ NonceGapHeld'
  BY <1>1, <1>2, IInvParts DEF ChainType, CandidateType, NonceGapHeld
<1>4. PICK tx \in Txs :
       /\ tx.size <= TX_MAX_SIZE_BYTES
       /\ arriving' = arriving \cup
            {[tx |-> tx, priority |-> Priority(source, tx),
              account_nonce |-> nonce[tx.sender], suggested_fee |-> suggested_fee]}
  BY DEF Receive
<1> DEFINE b == [tx |-> tx, priority |-> Priority(source, tx),
                 account_nonce |-> nonce[tx.sender], suggested_fee |-> suggested_fee]
<1>5. /\ nonce[tx.sender] \in Nat /\ suggested_fee \in Nat /\ Priority(source, tx) \in Nat
  BY IInvParts, TxFields, PriorityType DEF ChainType
<1>6. b \in Handler /\ b.tx = tx /\ b.account_nonce = nonce[tx.sender]
  BY <1>5 DEF Handler
<1>7. arriving' = arriving \cup {b}
  BY <1>4
<1> HIDE DEF b
<1>8. HandlerType'
  BY <1>2, <1>6, <1>7, IInvParts DEF HandlerType
<1>9. HandlersBehind'
  <2> SUFFICES ASSUME NEW a \in arriving'
               PROVE  a.account_nonce <= nonce[a.tx.sender] /\ a.tx.size <= TX_MAX_SIZE_BYTES
    BY <1>2 DEF HandlersBehind
  <2>1. CASE a = b
    BY <1>4, <1>5, <1>6, <2>1
  <2>2. CASE a \in arriving
    BY <2>2, IInvParts DEF HandlersBehind
  <2> QED  BY <1>7, <2>1, <2>2
<1> QED  BY <1>1, <1>3, <1>8, <1>9, IInvPartsNext

(* An admission inserts the transaction: it never fails after it has       *)
(* replaced or evicted entries.                                            *)
LEMMA AdmitInserts ==
  ASSUME IInv, NEW a \in arriving, Admit(a)
  PROVE  \E gone \in SUBSET Pooled :
           /\ Insert(a, gone)
           /\ EntriesInv'
           /\ Pooled' = (Pooled \ gone) \cup {a.tx}
           /\ a.tx \notin Pooled
<1>1. EntriesInv /\ a \in Handler /\ a.tx.size <= TX_MAX_SIZE_BYTES
  BY IInvParts DEF HandlerType, HandlersBehind
<1>2. a.tx \in Txs /\ a.priority \in Nat
  BY <1>1 DEF Handler
<1>3. PICK gone \in Removals(a) :
       IF total_size - SizeOf(gone) + a.tx.size <= MEMPOOL_MAX_SIZE_BYTES
       THEN Insert(a, gone)
       ELSE RemoveEntries(gone)
  BY DEF Admit
<1>4. /\ gone \in SUBSET Pooled
      /\ SameNonce(a) \subseteq gone
      /\ total_size - SizeOf(gone) + a.tx.size <= MEMPOOL_MAX_SIZE_BYTES
  BY <1>1, <1>2, RemovalsMakeRoom
<1>5. Insert(a, gone)
  BY <1>3, <1>4
<1>6. a.tx \notin Pooled /\ WithinAccountLimit(a)
  BY DEF Admit, Admissible
<1>7. EntriesInv' /\ Pooled' = (Pooled \ gone) \cup {a.tx}
  BY <1>1, <1>2, <1>4, <1>5, <1>6, InsertKeepsEntries
<1> QED  BY <1>4, <1>5, <1>6, <1>7

LEMMA AdmitHolds ==
  ASSUME IInv, NEW a \in arriving, Admit(a)
  PROVE  IInv'
<1>1. EntriesInv' /\ Pooled' \subseteq Pooled \cup {a.tx}
  BY AdmitInserts
<1>2. UNCHANGED <<nonce, suggested_fee, height, candidate, arrivals>>
      /\ arriving' = arriving \ {a}
  BY DEF Admit, chain
<1>3. ChainType' /\ CandidateType' /\ HandlerType' /\ HandlersBehind'
  BY <1>2, IInvParts DEF ChainType, CandidateType, HandlerType, HandlersBehind
<1>4. NonceGapHeld'
  <2> SUFFICES ASSUME NEW tx \in Pooled' PROVE tx.nonce <= nonce[tx.sender] + MAX_NONCE_GAP
    BY <1>2 DEF NonceGapHeld
  <2>1. CASE tx \in Pooled
    BY <2>1, IInvParts DEF NonceGapHeld
  <2>2. CASE tx = a.tx
    <3>1. a \in Handler /\ a.account_nonce <= nonce[a.tx.sender]
      BY IInvParts DEF HandlerType, HandlersBehind
    <3>2. a.tx \in Txs /\ a.account_nonce \in Nat /\ MAX_NONCE_GAP \in Nat
      BY <3>1, PoolNaturals DEF Handler
    <3>3. a.tx.nonce \in Nat /\ nonce[a.tx.sender] \in Nat
      BY <3>2, TxFields, IInvParts DEF ChainType
    <3>4. a.tx.nonce <= a.account_nonce + MAX_NONCE_GAP
      BY DEF Admit, Admissible, WithinNonceGap
    <3> QED  BY <2>2, <3>1, <3>2, <3>3, <3>4
  <2> QED  BY <1>1, <2>1, <2>2
<1> QED  BY <1>1, <1>3, <1>4, IInvPartsNext

LEMMA RefuseHolds ==
  ASSUME IInv, NEW a \in arriving, Refuse(a)
  PROVE  IInv'
<1>1. EntriesInv' /\ Pooled' = Pooled
  BY IInvParts, SameEntries DEF Refuse
<1>2. UNCHANGED <<nonce, suggested_fee, height, candidate, arrivals>>
      /\ arriving' = arriving \ {a}
  BY DEF Refuse, chain
<1>3. /\ ChainType' /\ CandidateType' /\ HandlerType' /\ HandlersBehind' /\ NonceGapHeld'
  BY <1>1, <1>2, IInvParts
     DEF ChainType, CandidateType, HandlerType, HandlersBehind, NonceGapHeld
<1> QED  BY <1>1, <1>3, IInvPartsNext

LEMMA BuildCandidateHolds ==
  ASSUME IInv, BuildCandidate
  PROVE  IInv'
<1>1. EntriesInv' /\ Pooled' = Pooled
  BY IInvParts, SameEntries DEF BuildCandidate
<1>2. UNCHANGED <<nonce, suggested_fee, height, arriving, arrivals>>
  BY DEF BuildCandidate, chain
<1>3. /\ ChainType' /\ HandlerType' /\ HandlersBehind' /\ NonceGapHeld'
  BY <1>1, <1>2, IInvParts DEF ChainType, HandlerType, HandlersBehind, NonceGapHeld
<1>4. PICK s \in Ordered :
       candidate' = {[i \in 1 .. Min({Len(s), MAX_TRANSACTIONS_PER_BLOCK}) |-> s[i]]}
  BY DEF BuildCandidate
<1>5. Cardinality(Pooled) \in Nat /\ Pooled \subseteq Txs
  BY IInvParts, FS_CardinalityType DEF EntriesInv
<1>6. s \in [1 .. Cardinality(Pooled) -> Pooled]
  BY <1>4 DEF Ordered, SetToSeqs
<1>7. s \in Seq(Txs) /\ Len(s) \in Nat
  BY <1>5, <1>6
<1> DEFINE n == Min({Len(s), MAX_TRANSACTIONS_PER_BLOCK})
<1>8. n \in Nat /\ n <= Len(s)
  BY <1>7, MinOfTwo, PoolNaturals
<1> HIDE DEF n
<1>9. [i \in 1 .. n |-> s[i]] \in Seq(Txs)
  BY <1>7, <1>8
<1>10. CandidateType'
  BY <1>4, <1>9 DEF CandidateType, n
<1> QED  BY <1>1, <1>3, <1>10, IInvPartsNext

(* The fees and the number of the transactions that took effect. *)
LEMMA FeesType ==
  ASSUME NEW body \in Seq(Txs), NEW D \in SUBSET DOMAIN body
  PROVE  /\ SumFunction([i \in D |-> body[i].fee]) \in Nat
         /\ IsFiniteSet(D)
         /\ Cardinality(D) \in Nat
<1> DEFINE f == [i \in D |-> body[i].fee]
<1>1. DOMAIN body = 1 .. Len(body) /\ Len(body) \in Nat
  OBVIOUS
<1>2. IsFiniteSet(D) /\ Cardinality(D) \in Nat
  <2>1. IsFiniteSet(DOMAIN body)
    BY <1>1, FS_Interval
  <2> QED  BY <2>1, FS_Subset, FS_CardinalityType
<1>3. \A i \in D : f[i] \in Nat
  BY TxFields
<1>4. DOMAIN f = D
  OBVIOUS
<1> HIDE DEF f
<1>5. SumFunctionOnSet(f, D) \in Nat
  BY <1>2, <1>3, SumNonnegative
<1> QED  BY <1>2, <1>4, <1>5 DEF SumFunction, f

LEMMA SuggestedFeeType ==
  ASSUME NEW fees \in Nat, NEW count \in Nat, suggested_fee \in Nat
  PROVE  ComputeSuggestedFee(fees, count) \in Nat
<1> DEFINE current == IF count = 0 THEN MIN_FEE ELSE fees \div count
           weighted == suggested_fee * (CAPACITY_RATIO - 1)
           ema == (current + weighted) \div CAPACITY_RATIO
<1>1. MIN_FEE \in Nat /\ CAPACITY_RATIO \in Nat /\ CAPACITY_RATIO > 0
      /\ CAPACITY_RATIO - 1 \in Nat
  BY PoolNaturals, PoolPositive
<1>2. current \in Nat
  BY <1>1, DivNat
<1>3. weighted \in Nat
  BY <1>1, ProductNat
<1>4. ema \in Nat
  <2> HIDE DEF current, weighted
  <2>1. current + weighted \in Nat
    BY <1>2, <1>3
  <2> QED  BY <1>1, <2>1, DivNat
<1>5. Max({ema, MIN_FEE}) \in Nat
  <2> HIDE DEF ema
  <2> QED  BY <1>1, <1>4, MaxOfTwo
<1> QED  BY <1>5 DEF ComputeSuggestedFee

LEMMA ApplyBlockHolds ==
  ASSUME IInv, NEW body \in Seq(Txs), ApplyBlock(body), UNCHANGED <<arriving, arrivals>>
  PROVE  IInv'
<1>1. PICK D \in SUBSET DOMAIN body :
        /\ nonce' = [s \in Senders |-> nonce[s] + Cardinality(OfSender(body, D, s))]
        /\ suggested_fee' =
             ComputeSuggestedFee(SumFunction([i \in D |-> body[i].fee]), Cardinality(D))
        /\ height' = height + 1
        /\ RemoveEntries((Pooled \cap ToSet(body))
                           \cup (IF (height + 1) % EPOCH = 0 THEN Expired ELSE {}))
        /\ candidate' = {}
  BY DEF ApplyBlock
<1> DEFINE gone == (Pooled \cap ToSet(body))
                     \cup (IF (height + 1) % EPOCH = 0 THEN Expired ELSE {})
<1>2. gone \in SUBSET Pooled
  BY DEF Expired
<1>3. EntriesInv' /\ Pooled' \subseteq Pooled
  <2>1. RemoveEntries(gone)
    BY <1>1
  <2> HIDE DEF gone
  <2> QED  BY <1>2, <2>1, IInvParts, RemoveKeepsEntries
<1>4. ASSUME NEW s \in Senders
      PROVE  nonce'[s] \in Nat /\ nonce[s] <= nonce'[s] /\ nonce[s] \in Nat
  <2>1. OfSender(body, D, s) \in SUBSET D /\ IsFiniteSet(D)
    BY FeesType DEF OfSender
  <2>2. Cardinality(OfSender(body, D, s)) \in Nat
    BY <2>1, FS_Subset, FS_CardinalityType
  <2>3. nonce[s] \in Nat /\ nonce'[s] = nonce[s] + Cardinality(OfSender(body, D, s))
    BY <1>1, IInvParts DEF ChainType
  <2> QED  BY <2>2, <2>3
<1>5. ChainType'
  <2>1. nonce' = [s \in Senders |-> nonce'[s]]
    BY <1>1
  <2>2. nonce' \in [Senders -> Nat]
    BY <1>4, <2>1
  <2>3. suggested_fee \in Nat /\ height \in Nat
    BY IInvParts DEF ChainType
  <2>4. SumFunction([i \in D |-> body[i].fee]) \in Nat /\ Cardinality(D) \in Nat
    BY FeesType
  <2>5. suggested_fee' \in Nat
    BY <1>1, <2>3, <2>4, SuggestedFeeType
  <2>6. height' \in Nat
    BY <1>1, <2>3
  <2> QED  BY <2>2, <2>5, <2>6 DEF ChainType
<1>6. HandlerType' /\ CandidateType'
  BY <1>1, IInvParts DEF HandlerType, CandidateType
<1>7. NonceGapHeld'
  <2> SUFFICES ASSUME NEW tx \in Pooled' PROVE tx.nonce <= nonce'[tx.sender] + MAX_NONCE_GAP
    BY DEF NonceGapHeld
  <2>1. tx \in Pooled /\ tx \in Txs
    BY <1>3, IInvParts DEF EntriesInv
  <2>2. tx.nonce \in Nat /\ tx.sender \in Senders /\ MAX_NONCE_GAP \in Nat
    BY <2>1, TxFields, PoolNaturals
  <2>3. tx.nonce <= nonce[tx.sender] + MAX_NONCE_GAP
    BY <2>1, IInvParts DEF NonceGapHeld
  <2>4. nonce'[tx.sender] \in Nat /\ nonce[tx.sender] <= nonce'[tx.sender]
        /\ nonce[tx.sender] \in Nat
    BY <1>4, <2>2
  <2> DEFINE before == nonce[tx.sender]
             now == nonce'[tx.sender]
  <2>5. /\ tx.nonce \in Nat /\ MAX_NONCE_GAP \in Nat /\ before \in Nat /\ now \in Nat
        /\ tx.nonce <= before + MAX_NONCE_GAP /\ before <= now
    BY <2>2, <2>3, <2>4
  <2> HIDE DEF before, now
  <2>6. tx.nonce <= now + MAX_NONCE_GAP
    BY <2>5
  <2> QED  BY <2>6 DEF now
<1>8. HandlersBehind'
  <2> SUFFICES ASSUME NEW a \in arriving
               PROVE  /\ a.account_nonce <= nonce'[a.tx.sender]
                      /\ a.tx.size <= TX_MAX_SIZE_BYTES
    BY DEF HandlersBehind
  <2>1. a \in Handler /\ a.account_nonce <= nonce[a.tx.sender]
        /\ a.tx.size <= TX_MAX_SIZE_BYTES
    BY IInvParts DEF HandlerType, HandlersBehind
  <2>2. a.tx \in Txs /\ a.account_nonce \in Nat
    BY <2>1 DEF Handler
  <2>3. a.tx.sender \in Senders
    BY <2>2, TxFields
  <2>4. nonce'[a.tx.sender] \in Nat /\ nonce[a.tx.sender] <= nonce'[a.tx.sender]
        /\ nonce[a.tx.sender] \in Nat
    BY <1>4, <2>3
  <2> QED  BY <2>1, <2>2, <2>4
<1> QED  BY <1>3, <1>5, <1>6, <1>7, <1>8, IInvPartsNext

LEMMA DropCandidateHolds ==
  ASSUME IInv, DropCandidate
  PROVE  IInv'
<1>1. EntriesInv' /\ Pooled' = Pooled
  BY IInvParts, SameEntries DEF DropCandidate
<1>2. UNCHANGED <<nonce, suggested_fee, height, arriving, arrivals>> /\ candidate' = {}
  BY DEF DropCandidate, chain
<1>3. /\ ChainType' /\ CandidateType' /\ HandlerType' /\ HandlersBehind' /\ NonceGapHeld'
  BY <1>1, <1>2, IInvParts
     DEF ChainType, CandidateType, HandlerType, HandlersBehind, NonceGapHeld
<1> QED  BY <1>1, <1>3, IInvPartsNext

LEMMA EvictExpiredHolds ==
  ASSUME IInv, EvictExpired
  PROVE  IInv'
<1>1. Expired \in SUBSET Pooled /\ RemoveEntries(Expired)
  BY DEF Expired, EvictExpired
<1>2. EntriesInv' /\ Pooled' \subseteq Pooled
  BY <1>1, IInvParts, RemoveKeepsEntries
<1>3. UNCHANGED <<nonce, suggested_fee, height, arriving, arrivals, candidate>>
  BY DEF EvictExpired, chain
<1>4. /\ ChainType' /\ CandidateType' /\ HandlerType' /\ HandlersBehind' /\ NonceGapHeld'
  BY <1>2, <1>3, IInvParts
     DEF ChainType, CandidateType, HandlerType, HandlersBehind, NonceGapHeld
<1> QED  BY <1>2, <1>4, IInvPartsNext

LEMMA TickHolds ==
  ASSUME IInv, Tick
  PROVE  IInv'
<1>1. entries' = [tx \in Pooled |-> [entries[tx] EXCEPT !.age = Min({@ + 1, ExpiredAge})]]
  BY DEF Tick
<1>2. UNCHANGED <<account_tx_counts, total_size, nonce, suggested_fee, height, arriving,
                  arrivals, candidate>>
  BY DEF Tick, chain
<1>3. Pooled' = Pooled
  BY <1>1 DEF Pooled
<1>4. ASSUME NEW tx \in Pooled
      PROVE  [entries[tx] EXCEPT !.age = Min({@ + 1, ExpiredAge})] \in EntryType
  <2>1. entries[tx] \in EntryType
    BY IInvParts DEF EntriesInv
  <2>2. ExpiredAge \in Nat
    BY PoolNaturals DEF ExpiredAge
  <2>3. entries[tx].age \in Nat
    BY <2>1, <2>2 DEF EntryType
  <2> DEFINE m == Min({entries[tx].age + 1, ExpiredAge})
  <2>4. m \in 0 .. ExpiredAge
    BY <2>2, <2>3, MinOfTwo
  <2> HIDE DEF m
  <2>5. [entries[tx] EXCEPT !.age = m] \in EntryType
    BY <2>1, <2>4 DEF EntryType
  <2> QED  BY <2>5 DEF m
<1>5. entries' \in [Pooled' -> EntryType]
  BY <1>1, <1>3, <1>4
<1>6. PoolAccounted' /\ OneEntryPerNonce'
  BY <1>2, <1>3, IInvParts DEF EntriesInv, PoolAccounted, OneEntryPerNonce
<1>7. EntriesInv'
  BY <1>2, <1>3, <1>5, <1>6, IInvParts DEF EntriesInv
<1>8. /\ ChainType' /\ CandidateType' /\ HandlerType' /\ HandlersBehind' /\ NonceGapHeld'
  BY <1>2, <1>3, IInvParts
     DEF ChainType, CandidateType, HandlerType, HandlersBehind, NonceGapHeld
<1> QED  BY <1>7, <1>8, IInvPartsNext

LEMMA StutterHolds ==
  ASSUME IInv, UNCHANGED vars
  PROVE  IInv'
<1>1. EntriesInv' /\ Pooled' = Pooled
  BY IInvParts, SameEntries DEF vars
<1>2. UNCHANGED <<nonce, suggested_fee, height, arriving, arrivals, candidate>>
  BY DEF vars, chain
<1>3. /\ ChainType' /\ CandidateType' /\ HandlerType' /\ HandlersBehind' /\ NonceGapHeld'
  BY <1>1, <1>2, IInvParts
     DEF ChainType, CandidateType, HandlerType, HandlersBehind, NonceGapHeld
<1> QED  BY <1>1, <1>3, IInvPartsNext

LEMMA NextHolds == IInv /\ [Next]_vars => IInv'
<1> SUFFICES ASSUME IInv, [Next]_vars PROVE IInv'
  OBVIOUS
<1>1. CASE \E source \in {"gossip", "rpc"} : Receive(source)
  BY <1>1, ReceiveHolds
<1>2. CASE \E a \in arriving : Admit(a) \/ Refuse(a)
  BY <1>2, AdmitHolds, RefuseHolds
<1>3. CASE BuildCandidate
  BY <1>3, BuildCandidateHolds
<1>4. CASE ApplyCandidate
  <2>1. PICK body \in candidate : ApplyBlock(body)
    BY <1>4 DEF ApplyCandidate
  <2>2. body \in Seq(Txs)
    BY IInvParts DEF CandidateType
  <2> QED  BY <1>4, <2>1, <2>2, ApplyBlockHolds DEF ApplyCandidate
<1>5. CASE DropCandidate
  BY <1>5, DropCandidateHolds
<1>6. CASE ApplyForeign
  <2>1. PICK tx \in Txs : ApplyBlock(<<tx>>)
    BY <1>6 DEF ApplyForeign
  <2>2. <<tx>> \in Seq(Txs)
    OBVIOUS
  <2> QED  BY <1>6, <2>1, <2>2, ApplyBlockHolds DEF ApplyForeign
<1>7. CASE EvictExpired
  BY <1>7, EvictExpiredHolds
<1>8. CASE Tick
  BY <1>8, TickHolds
<1>9. CASE UNCHANGED vars
  BY <1>9, StutterHolds
<1> QED  BY <1>1, <1>2, <1>3, <1>4, <1>5, <1>6, <1>7, <1>8, <1>9 DEF Next

-----------------------------------------------------------------------------
(* The inductive invariant: the types, the exact counters, one entry per   *)
(* nonce and the nonce gap, with what handlers in flight have read: an     *)
(* account nonce that is never ahead of the account's.                     *)
THEOREM MempoolInvariant == Spec => []IInv
BY InitHolds, NextHolds, PTL DEF Spec

(* The state of the pool, the handlers and the candidate keeps its types.  *)
THEOREM MempoolTyped == Spec => []TypeOK
<1>1. IInv => TypeOK
  BY DEF IInv
<1> QED  BY <1>1, MempoolInvariant, PTL

(* total_size and account_tx_counts are those of the entries, whatever is  *)
(* replaced, evicted, expired or removed by blocks, and stay within the    *)
(* pool's limits: no saturating_sub ever saturates.                        *)
THEOREM CountersAreExact == Spec => []PoolAccounted
<1>1. IInv => PoolAccounted
  BY DEF IInv
<1> QED  BY <1>1, MempoolInvariant, PTL

(* Two entries never share a sender and a nonce, so the first match of     *)
(* add_transaction's find is the only one.                                 *)
THEOREM NoncesAreUnique == Spec => []OneEntryPerNonce
<1>1. IInv => OneEntryPerNonce
  BY DEF IInv
<1> QED  BY <1>1, MempoolInvariant, PTL

(* The nonce gap of add_transaction holds of every entry although the      *)
(* nonce is read before the pool is locked: accounts' nonces only grow.    *)
THEOREM NonceGapIsHeld == Spec => []NonceGapHeld
<1>1. IInv => NonceGapHeld
  BY DEF IInv
<1> QED  BY <1>1, MempoolInvariant, PTL

(* add_transaction never removes entries and then fails: its capacity      *)
(* check after replacement and eviction cannot fail, as one transaction    *)
(* fits the empty pool.                                                    *)
THEOREM RefusalsKeepThePool == Spec => RefusalKeepsPool
<1> DEFINE Kept == arriving' # arriving /\ Pooled' \subseteq Pooled => entries' = entries
<1>1. IInv /\ [Next]_vars => [Kept]_vars
  <2> SUFFICES ASSUME IInv, Next, arriving' # arriving, Pooled' \subseteq Pooled
               PROVE  entries' = entries
    OBVIOUS
  <2>1. CASE \E source \in {"gossip", "rpc"} : Receive(source)
    BY <2>1 DEF Receive, pool
  <2>2. CASE \E a \in arriving : Admit(a)
    <3>1. PICK a \in arriving : Admit(a)
      BY <2>2
    <3>2. a.tx \in Pooled' /\ a.tx \notin Pooled
      BY <3>1, AdmitInserts
    <3> QED  BY <3>2
  <2>3. CASE \E a \in arriving : Refuse(a)
    BY <2>3 DEF Refuse, pool
  <2>4. CASE BuildCandidate \/ ApplyCandidate \/ DropCandidate \/ ApplyForeign
             \/ EvictExpired \/ Tick
    BY <2>4 DEF BuildCandidate, ApplyCandidate, DropCandidate, ApplyForeign, EvictExpired,
                Tick
  <2> QED  BY <2>1, <2>2, <2>3, <2>4 DEF Next
<1> QED  BY <1>1, MempoolInvariant, PTL DEF Spec, RefusalKeepsPool
=============================================================================
