---------------------------- MODULE SumTheorems ----------------------------
(***************************************************************************)
(* Facts about SumFunctionOnSet, the sum by which the ledger modules add   *)
(* up balances, bond entries and queued withdrawals (the iter().sum() and  *)
(* fold calls of the source).  The induction principles of the library     *)
(* take an operator as a parameter; the ones below take a set, so that     *)
(* they can be applied to P == {n \in Nat : ...}.                          *)
(***************************************************************************)
EXTENDS Integers, FiniteSets, Functions,
        FiniteSetTheorems, WellFoundedInduction, TLAPS

(* A set of naturals that holds 0 and is closed under successor is Nat. *)
LEMMA NatSetInduction ==
  ASSUME NEW P \in SUBSET Nat, 0 \in P, \A n \in P : n + 1 \in P
  PROVE  P = Nat
<1> DEFINE T == Nat \ P
<1>1. SUFFICES ASSUME T # {} PROVE FALSE
  OBVIOUS
<1>2. T \subseteq Nat
  OBVIOUS
<1>3. PICK x \in T : \A y \in T : ~ (<<y, x>> \in OpToRel(<, Nat))
  <2> HIDE DEF T
  <2> QED  BY <1>1, <1>2, NatLessThanWellFounded, WFMin
<1>4. \A y \in T : ~ (y < x)
  BY <1>3 DEF OpToRel
<1>5. x \in Nat /\ x # 0 /\ x \notin P
  OBVIOUS
<1>6. x - 1 \in Nat /\ x - 1 < x /\ x - 1 + 1 = x
  BY <1>5
<1>7. x - 1 \in P
  BY <1>4, <1>6
<1> QED  BY <1>5, <1>6, <1>7

(* A nonempty set of naturals has a least element. *)
LEMMA LeastExists ==
  ASSUME NEW T, T \subseteq Nat, T # {}
  PROVE  \E m \in T : \A y \in T : m <= y
<1>1. PICK m \in T : \A y \in T : ~ (<<y, m>> \in OpToRel(<, Nat))
  BY NatLessThanWellFounded, WFMin
<1>2. \A y \in T : ~ (y < m)
  BY <1>1 DEF OpToRel
<1> QED  BY <1>2

(* The element SumFunctionOnSet takes next from a set. *)
Pick(T) == CHOOSE x \in T : TRUE

(* g tabulates the sums of f over the subsets in D, a family closed under  *)
(* removing the picked element.                                            *)
IsSumOn(f, D, g) ==
  g = [T \in D |-> IF T = {} THEN 0 ELSE f[Pick(T)] + g[T \ {Pick(T)}]]

IsTable(f, S, g) == IsSumOn(f, SUBSET S, g)

UpTo(S, n) == {T \in SUBSET S : Cardinality(T) <= n}

LEMMA PickRemoved ==
  ASSUME NEW T, IsFiniteSet(T), T # {}
  PROVE  /\ Pick(T) \in T
         /\ IsFiniteSet(T \ {Pick(T)})
         /\ Cardinality(T \ {Pick(T)}) = Cardinality(T) - 1
         /\ Cardinality(T) \in Nat
BY FS_RemoveElement, FS_CardinalityType DEF Pick

(* The table of sums exists for every finite set. *)
LEMMA SumTableExists ==
  ASSUME NEW S, IsFiniteSet(S), NEW f, \A x \in S : f[x] \in Int
  PROVE  \E g \in [SUBSET S -> Int] : IsTable(f, S, g)
<1> DEFINE P == {n \in Nat : \E g \in [UpTo(S, n) -> Int] : IsSumOn(f, UpTo(S, n), g)}
<1>fin. \A T \in SUBSET S : IsFiniteSet(T) /\ Cardinality(T) \in Nat
  BY FS_Subset, FS_CardinalityType
<1>1. 0 \in P
  <2>1. UpTo(S, 0) = {{}}
    BY <1>fin, FS_EmptySet DEF UpTo
  <2>2. IsSumOn(f, UpTo(S, 0), [T \in UpTo(S, 0) |-> 0])
    BY <2>1 DEF IsTable, IsSumOn
  <2> QED  BY <2>2
<1>2. ASSUME NEW n \in P PROVE n + 1 \in P
  <2>1. PICK g \in [UpTo(S, n) -> Int] : IsSumOn(f, UpTo(S, n), g)
    OBVIOUS
  <2>2. n \in Nat
    OBVIOUS
  <2> DEFINE h == [T \in UpTo(S, n + 1) |->
                     IF T = {} THEN 0 ELSE f[Pick(T)] + g[T \ {Pick(T)}]]
  <2>3. ASSUME NEW T \in UpTo(S, n + 1), T # {}
        PROVE  /\ T \ {Pick(T)} \in UpTo(S, n)
               /\ T \ {Pick(T)} \in UpTo(S, n + 1)
               /\ f[Pick(T)] \in Int
    <3>1. T \in SUBSET S /\ Cardinality(T) <= n + 1 /\ IsFiniteSet(T)
      BY <1>fin DEF UpTo
    <3>2. /\ Pick(T) \in T
          /\ Cardinality(T \ {Pick(T)}) = Cardinality(T) - 1
          /\ Cardinality(T) \in Nat
      BY <3>1, <2>3, PickRemoved
    <3>3. Cardinality(T) - 1 <= n /\ Cardinality(T) - 1 <= n + 1
      BY <3>1, <3>2, <2>2
    <3> QED  BY <3>1, <3>2, <3>3 DEF UpTo
  <2>4. h \in [UpTo(S, n + 1) -> Int]
    BY <2>3, <2>1
  <2>5. \A T \in UpTo(S, n) : T \in UpTo(S, n + 1) /\ h[T] = g[T]
    <3>1. UpTo(S, n) \subseteq UpTo(S, n + 1)
      BY <1>fin, <2>2 DEF UpTo
    <3>2. \A T \in UpTo(S, n) :
             g[T] = IF T = {} THEN 0 ELSE f[Pick(T)] + g[T \ {Pick(T)}]
      BY <2>1 DEF IsTable, IsSumOn
    <3> QED  BY <3>1, <3>2
  <2>6. \A T \in UpTo(S, n + 1) :
           h[T] = IF T = {} THEN 0 ELSE f[Pick(T)] + h[T \ {Pick(T)}]
    BY <2>3, <2>5
  <2>7. IsSumOn(f, UpTo(S, n + 1), h)
    BY <2>6 DEF IsTable, IsSumOn
  <2>8. n + 1 \in Nat
    BY <2>2
  <2> HIDE DEF h
  <2> QED  BY <2>4, <2>7, <2>8
<1>3. P = Nat
  <2>1. P \in SUBSET Nat
    OBVIOUS
  <2> HIDE DEF P
  <2> QED  BY <1>1, <1>2, <2>1, NatSetInduction
<1>4. Cardinality(S) \in P
  BY <1>3, FS_CardinalityType
<1>5. UpTo(S, Cardinality(S)) = SUBSET S
  BY FS_Subset DEF UpTo
<1> QED  BY <1>4, <1>5 DEF IsTable

(* Two tables agree wherever both are defined. *)
LEMMA SumTableUnique ==
  ASSUME NEW S, NEW R, IsFiniteSet(S), NEW f, NEW g, NEW h,
         IsTable(f, S, g), IsTable(f, R, h)
  PROVE  \A T \in (SUBSET S) \cap (SUBSET R) : g[T] = h[T]
<1> DEFINE D == (SUBSET S) \cap (SUBSET R)
           P == {n \in Nat : \A T \in D : Cardinality(T) = n => g[T] = h[T]}
<1>fin. \A T \in D : IsFiniteSet(T) /\ Cardinality(T) \in Nat
  BY FS_Subset, FS_CardinalityType
<1>g. \A T \in D : g[T] = IF T = {} THEN 0 ELSE f[Pick(T)] + g[T \ {Pick(T)}]
  BY DEF IsTable, IsSumOn
<1>h. \A T \in D : h[T] = IF T = {} THEN 0 ELSE f[Pick(T)] + h[T \ {Pick(T)}]
  BY DEF IsTable, IsSumOn
<1>1. 0 \in P
  BY <1>fin, <1>g, <1>h, FS_EmptySet
<1>2. ASSUME NEW n \in P PROVE n + 1 \in P
  <2>1. n \in Nat /\ n + 1 \in Nat
    OBVIOUS
  <2>2. ASSUME NEW T \in D, Cardinality(T) = n + 1
        PROVE  g[T] = h[T]
    <3>0. Cardinality({}) = 0
      BY FS_EmptySet
    <3>1. T # {}
      <4>1. n + 1 # 0
        BY <2>1
      <4> QED  BY <2>2, <3>0, <4>1
    <3>2. /\ T \ {Pick(T)} \in D
          /\ Cardinality(T \ {Pick(T)}) = n
      BY <1>fin, <2>1, <2>2, <3>1, PickRemoved
    <3> QED  BY <1>g, <1>h, <3>1, <3>2
  <2> QED  BY <2>1, <2>2
<1>3. P = Nat
  <2>1. P \in SUBSET Nat
    OBVIOUS
  <2> HIDE DEF P
  <2> QED  BY <1>1, <1>2, <2>1, NatSetInduction
<1> QED  BY <1>3, <1>fin

(* SumFunctionOnSet reads its value off such a table. *)
LEMMA SumIsTabulated ==
  ASSUME NEW S, IsFiniteSet(S), NEW f, \A x \in S : f[x] \in Int
  PROVE  \E g \in [SUBSET S -> Int] :
            IsTable(f, S, g) /\ SumFunctionOnSet(f, S) = g[S]
<1>1. PICK g0 \in [SUBSET S -> Int] : IsTable(f, S, g0)
  BY SumTableExists
<1> DEFINE g == CHOOSE g : IsTable(f, S, g)
<1>2. IsTable(f, S, g)
  BY <1>1
<1>3. SumFunctionOnSet(f, S) = g[S]
  BY DEF SumFunctionOnSet, FoldFunctionOnSet, MapThenFoldSet, IsTable, IsSumOn, Pick
<1>4. \A T \in SUBSET S : g[T] = g0[T]
  <2> HIDE DEF g
  <2> QED  BY <1>1, <1>2, SumTableUnique
<1>5. g0[S] = SumFunctionOnSet(f, S)
  BY <1>3, <1>4
<1> QED  BY <1>1, <1>5

(* The sum over a finite set is an integer; over the empty set it is 0. *)
LEMMA SumType ==
  ASSUME NEW S, IsFiniteSet(S), NEW f, \A x \in S : f[x] \in Int
  PROVE  SumFunctionOnSet(f, S) \in Int
<1>1. PICK g \in [SUBSET S -> Int] :
         IsTable(f, S, g) /\ SumFunctionOnSet(f, S) = g[S]
  BY SumIsTabulated
<1> QED  BY <1>1

LEMMA SumEmpty ==
  ASSUME NEW f
  PROVE  SumFunctionOnSet(f, {}) = 0
<1>1. IsFiniteSet({}) /\ \A x \in {} : f[x] \in Int
  BY FS_EmptySet
<1>2. PICK g \in [SUBSET {} -> Int] :
         IsTable(f, {}, g) /\ SumFunctionOnSet(f, {}) = g[{}]
  BY <1>1, SumIsTabulated
<1> QED  BY <1>2 DEF IsTable, IsSumOn

(* A table over the subsets of S holds the sum over each of them. *)
LEMMA SumFromTable ==
  ASSUME NEW S, IsFiniteSet(S), NEW f, \A x \in S : f[x] \in Int,
         NEW g, IsTable(f, S, g), NEW R, R \subseteq S
  PROVE  SumFunctionOnSet(f, R) = g[R]
<1>1. IsFiniteSet(R) /\ \A x \in R : f[x] \in Int
  BY FS_Subset
<1>2. PICK h \in [SUBSET R -> Int] :
         IsTable(f, R, h) /\ SumFunctionOnSet(f, R) = h[R]
  BY <1>1, SumIsTabulated
<1>3. IsTable(f, R, h)
  BY <1>2
<1>4. \A T \in (SUBSET S) \cap (SUBSET R) : g[T] = h[T]
  BY <1>3, SumTableUnique
<1>5. g[R] = h[R]
  BY <1>4
<1> QED  BY <1>2, <1>5

LEMMA SumPick ==
  ASSUME NEW S, IsFiniteSet(S), S # {}, NEW f, \A x \in S : f[x] \in Int
  PROVE  SumFunctionOnSet(f, S) =
           f[Pick(S)] + SumFunctionOnSet(f, S \ {Pick(S)})
<1>1. PICK g \in [SUBSET S -> Int] :
         IsTable(f, S, g) /\ SumFunctionOnSet(f, S) = g[S]
  BY SumIsTabulated
<1>2. SumFunctionOnSet(f, S \ {Pick(S)}) = g[S \ {Pick(S)}]
  <2>1. IsTable(f, S, g)
    BY <1>1
  <2>2. S \ {Pick(S)} \subseteq S
    OBVIOUS
  <2> QED  BY <2>1, <2>2, SumFromTable
<1>3. g[S] = f[Pick(S)] + g[S \ {Pick(S)}]
  BY <1>1 DEF IsTable, IsSumOn
<1> QED  BY <1>1, <1>2, <1>3

(* The order in which the elements are taken does not matter. *)
LEMMA SumRemove ==
  ASSUME NEW S, IsFiniteSet(S), NEW f, \A x \in S : f[x] \in Int, NEW a \in S
  PROVE  SumFunctionOnSet(f, S) = f[a] + SumFunctionOnSet(f, S \ {a})
<1> DEFINE Sum(T) == SumFunctionOnSet(f, T)
           P == {n \in Nat : \A T \in SUBSET S : Cardinality(T) = n =>
                               \A x \in T : Sum(T) = f[x] + Sum(T \ {x})}
<1>fin. \A T \in SUBSET S : IsFiniteSet(T) /\ Cardinality(T) \in Nat
  BY FS_Subset, FS_CardinalityType
<1>int. \A T \in SUBSET S : Sum(T) \in Int
  BY <1>fin, SumType
<1>pick. \A T \in SUBSET S : T # {} => Sum(T) = f[Pick(T)] + Sum(T \ {Pick(T)})
  BY <1>fin, SumPick
<1>1. 0 \in P
  BY <1>fin, FS_EmptySet
<1>2. ASSUME NEW n \in P PROVE n + 1 \in P
  <2>1. n \in Nat /\ n + 1 \in Nat
    OBVIOUS
  <2>2. ASSUME NEW T \in SUBSET S, Cardinality(T) = n + 1, NEW x \in T
        PROVE  Sum(T) = f[x] + Sum(T \ {x})
    <3> DEFINE c == Pick(T)
    <3>1. /\ c \in T
          /\ Cardinality(T \ {c}) = n
          /\ Cardinality(T \ {x}) = n
      BY <1>fin, <2>1, <2>2, PickRemoved, FS_RemoveElement
    <3>2. CASE x = c
      BY <1>pick, <3>2
    <3>3. CASE x # c
      <4>1. Sum(T) = f[c] + Sum(T \ {c})
        BY <1>pick
      <4>2. Sum(T \ {c}) = f[x] + Sum((T \ {c}) \ {x})
        BY <3>1, <3>3
      <4>3. Sum(T \ {x}) = f[c] + Sum((T \ {x}) \ {c})
        BY <3>1, <3>3
      <4>4. Sum((T \ {c}) \ {x}) = Sum((T \ {x}) \ {c})
        <5>1. (T \ {c}) \ {x} = (T \ {x}) \ {c}
          OBVIOUS
        <5> QED  BY <5>1
      <4>5. f[c] \in Int /\ f[x] \in Int /\ Sum((T \ {c}) \ {x}) \in Int
        BY <3>1, <1>int
      <4> HIDE DEF Sum, c
      <4> QED  BY <4>1, <4>2, <4>3, <4>4, <4>5
    <3> QED  BY <3>2, <3>3
  <2> QED  BY <2>1, <2>2
<1>3. P = Nat
  <2>1. P \in SUBSET Nat
    OBVIOUS
  <2> HIDE DEF P
  <2> QED  BY <1>1, <1>2, <2>1, NatSetInduction
<1> QED  BY <1>3, <1>fin

(* Induction over the subsets of a finite set, one element at a time. *)
LEMMA SubsetInduction ==
  ASSUME NEW S, IsFiniteSet(S), NEW Q \in SUBSET (SUBSET S), {} \in Q,
         \A T \in Q : \A x \in S \ T : T \cup {x} \in Q
  PROVE  S \in Q
<1> DEFINE P == {n \in Nat : \A T \in SUBSET S : Cardinality(T) = n => T \in Q}
<1>fin. \A T \in SUBSET S : IsFiniteSet(T) /\ Cardinality(T) \in Nat
  BY FS_Subset, FS_CardinalityType
<1>1. 0 \in P
  BY <1>fin, FS_EmptySet
<1>2. ASSUME NEW n \in P PROVE n + 1 \in P
  <2>1. n \in Nat /\ n + 1 \in Nat /\ n + 1 # 0
    OBVIOUS
  <2>2. ASSUME NEW T \in SUBSET S, Cardinality(T) = n + 1
        PROVE  T \in Q
    <3>1. T # {}
      BY <2>1, <2>2, FS_EmptySet
    <3>2. PICK x : x \in T
      BY <3>1
    <3> DEFINE R == T \ {x}
    <3>3. R \in SUBSET S /\ Cardinality(R) = n
      BY <1>fin, <2>1, <2>2, <3>2, FS_RemoveElement
    <3>4. R \in Q
      BY <3>3
    <3>5. x \in S \ R /\ R \cup {x} = T
      BY <3>2
    <3> HIDE DEF R
    <3> QED  BY <3>4, <3>5
  <2> QED  BY <2>1, <2>2
<1>3. P = Nat
  <2>1. P \in SUBSET Nat
    OBVIOUS
  <2> HIDE DEF P
  <2> QED  BY <1>1, <1>2, <2>1, NatSetInduction
<1> QED  BY <1>3, <1>fin

LEMMA SumInsert ==
  ASSUME NEW S, IsFiniteSet(S), NEW f, \A x \in S : f[x] \in Int,
         NEW T \in SUBSET S, NEW a \in S \ T
  PROVE  /\ SumFunctionOnSet(f, T \cup {a}) = f[a] + SumFunctionOnSet(f, T)
         /\ SumFunctionOnSet(f, T) \in Int
<1> DEFINE R == T \cup {a}
<1>1. /\ IsFiniteSet(R) /\ IsFiniteSet(T)
      /\ \A x \in R : f[x] \in Int
      /\ a \in R /\ R \ {a} = T
  <2>1. R \in SUBSET S
    OBVIOUS
  <2> QED  BY <2>1, FS_Subset
<1>2. SumFunctionOnSet(f, R) = f[a] + SumFunctionOnSet(f, R \ {a})
  <2> HIDE DEF R
  <2> QED  BY <1>1, SumRemove
<1>3. SumFunctionOnSet(f, T) \in Int
  BY <1>1, SumType
<1> QED  BY <1>1, <1>2, <1>3

(* The sum of a pointwise sum is the sum of the sums. *)
LEMMA SumAdd ==
  ASSUME NEW S, IsFiniteSet(S), NEW f, NEW g, NEW h,
         \A x \in S : f[x] \in Int /\ g[x] \in Int /\ h[x] = f[x] + g[x]
  PROVE  SumFunctionOnSet(h, S) = SumFunctionOnSet(f, S) + SumFunctionOnSet(g, S)
<1> DEFINE Q == {T \in SUBSET S : SumFunctionOnSet(h, T) =
                       SumFunctionOnSet(f, T) + SumFunctionOnSet(g, T)}
<1>0. \A x \in S : f[x] \in Int /\ g[x] \in Int /\ h[x] \in Int
  OBVIOUS
<1>1. {} \in Q
  BY SumEmpty
<1>2. ASSUME NEW T \in Q, NEW a \in S \ T PROVE T \cup {a} \in Q
  <2>1. T \in SUBSET S /\ T \cup {a} \in SUBSET S
    OBVIOUS
  <2>2. /\ SumFunctionOnSet(f, T \cup {a}) = f[a] + SumFunctionOnSet(f, T)
        /\ SumFunctionOnSet(f, T) \in Int
    BY <1>0, <2>1, SumInsert
  <2>3. /\ SumFunctionOnSet(g, T \cup {a}) = g[a] + SumFunctionOnSet(g, T)
        /\ SumFunctionOnSet(g, T) \in Int
    BY <1>0, <2>1, SumInsert
  <2>4. /\ SumFunctionOnSet(h, T \cup {a}) = h[a] + SumFunctionOnSet(h, T)
        /\ SumFunctionOnSet(h, T) \in Int
    BY <1>0, <2>1, SumInsert
  <2>5. f[a] \in Int /\ g[a] \in Int /\ h[a] = f[a] + g[a]
    OBVIOUS
  <2>6. SumFunctionOnSet(h, T) = SumFunctionOnSet(f, T) + SumFunctionOnSet(g, T)
    OBVIOUS
  <2> QED  BY <2>1, <2>2, <2>3, <2>4, <2>5, <2>6
<1>3. Q \in SUBSET (SUBSET S)
  OBVIOUS
<1>4. S \in Q
  <2> HIDE DEF Q
  <2> QED  BY <1>1, <1>2, <1>3, SubsetInduction
<1> QED  BY <1>4

(* Functions that agree on S have the same sum over S. *)
LEMMA SumEqual ==
  ASSUME NEW S, IsFiniteSet(S), NEW f, NEW g,
         \A x \in S : f[x] \in Int /\ g[x] = f[x]
  PROVE  SumFunctionOnSet(g, S) = SumFunctionOnSet(f, S)
<1> DEFINE Q == {T \in SUBSET S : SumFunctionOnSet(g, T) = SumFunctionOnSet(f, T)}
<1>0. \A x \in S : f[x] \in Int /\ g[x] \in Int
  OBVIOUS
<1>1. {} \in Q
  BY SumEmpty
<1>2. ASSUME NEW T \in Q, NEW a \in S \ T PROVE T \cup {a} \in Q
  <2>1. T \in SUBSET S /\ T \cup {a} \in SUBSET S
    OBVIOUS
  <2>2. SumFunctionOnSet(f, T \cup {a}) = f[a] + SumFunctionOnSet(f, T)
    BY <1>0, <2>1, SumInsert
  <2>3. SumFunctionOnSet(g, T \cup {a}) = g[a] + SumFunctionOnSet(g, T)
    BY <1>0, <2>1, SumInsert
  <2> QED  BY <2>1, <2>2, <2>3
<1>3. Q \in SUBSET (SUBSET S)
  OBVIOUS
<1>4. S \in Q
  <2> HIDE DEF Q
  <2> QED  BY <1>1, <1>2, <1>3, SubsetInduction
<1> QED  BY <1>4

(* A sum of amounts is an amount. *)
LEMMA SumNonnegative ==
  ASSUME NEW S, IsFiniteSet(S), NEW f, \A x \in S : f[x] \in Nat
  PROVE  SumFunctionOnSet(f, S) \in Nat
<1> DEFINE Q == {T \in SUBSET S : SumFunctionOnSet(f, T) \in Nat}
<1>0. \A x \in S : f[x] \in Int
  OBVIOUS
<1>1. {} \in Q
  BY SumEmpty
<1>2. ASSUME NEW T \in Q, NEW a \in S \ T PROVE T \cup {a} \in Q
  <2>1. T \in SUBSET S /\ T \cup {a} \in SUBSET S
    OBVIOUS
  <2>2. SumFunctionOnSet(f, T \cup {a}) = f[a] + SumFunctionOnSet(f, T)
    BY <1>0, <2>1, SumInsert
  <2> QED  BY <2>1, <2>2
<1>3. Q \in SUBSET (SUBSET S)
  OBVIOUS
<1>4. S \in Q
  <2> HIDE DEF Q
  <2> QED  BY <1>1, <1>2, <1>3, SubsetInduction
<1> QED  BY <1>4

(* No amount exceeds a sum it is a term of. *)
LEMMA SumBound ==
  ASSUME NEW S, IsFiniteSet(S), NEW f, \A x \in S : f[x] \in Nat, NEW a \in S
  PROVE  f[a] <= SumFunctionOnSet(f, S)
<1> DEFINE R == S \ {a}
<1>1. SumFunctionOnSet(f, S) = f[a] + SumFunctionOnSet(f, R)
  BY SumRemove
<1>2. IsFiniteSet(R) /\ \A x \in R : f[x] \in Nat
  BY FS_Subset
<1>3. SumFunctionOnSet(f, R) \in Nat
  <2> HIDE DEF R
  <2> QED  BY <1>2, SumNonnegative
<1> QED  BY <1>1, <1>3

(* A sum of zeros is zero. *)
LEMMA SumZero ==
  ASSUME NEW S, IsFiniteSet(S), NEW f, \A x \in S : f[x] = 0
  PROVE  SumFunctionOnSet(f, S) = 0
<1> DEFINE Q == {T \in SUBSET S : SumFunctionOnSet(f, T) = 0}
<1>0. \A x \in S : f[x] \in Int
  OBVIOUS
<1>1. {} \in Q
  BY SumEmpty
<1>2. ASSUME NEW T \in Q, NEW a \in S \ T PROVE T \cup {a} \in Q
  <2>1. T \in SUBSET S /\ T \cup {a} \in SUBSET S
    OBVIOUS
  <2>2. SumFunctionOnSet(f, T \cup {a}) = f[a] + SumFunctionOnSet(f, T)
    BY <1>0, <2>1, SumInsert
  <2> QED  BY <2>1, <2>2
<1>3. Q \in SUBSET (SUBSET S)
  OBVIOUS
<1>4. S \in Q
  <2> HIDE DEF Q
  <2> QED  BY <1>1, <1>2, <1>3, SubsetInduction
<1> QED  BY <1>4

(* Changing one term changes the sum by as much. *)
LEMMA SumChange ==
  ASSUME NEW S, IsFiniteSet(S), NEW f, NEW g, NEW a \in S,
         \A x \in S : f[x] \in Int /\ g[x] \in Int /\ (x # a => g[x] = f[x])
  PROVE  SumFunctionOnSet(g, S) = SumFunctionOnSet(f, S) - f[a] + g[a]
<1> DEFINE R == S \ {a}
<1>0. IsFiniteSet(R) /\ \A x \in R : f[x] \in Int /\ g[x] = f[x]
  BY FS_Subset
<1>1. SumFunctionOnSet(f, S) = f[a] + SumFunctionOnSet(f, R)
  BY SumRemove
<1>2. SumFunctionOnSet(g, S) = g[a] + SumFunctionOnSet(g, R)
  BY SumRemove
<1>3. SumFunctionOnSet(g, R) = SumFunctionOnSet(f, R)
  <2> HIDE DEF R
  <2> QED  BY <1>0, SumEqual
<1>4. SumFunctionOnSet(f, R) \in Int
  <2> HIDE DEF R
  <2> QED  BY <1>0, SumType
<1> QED  BY <1>1, <1>2, <1>3, <1>4

(* The sum over a prefix of the naturals, one longer. *)
LEMMA SumPrefix ==
  ASSUME NEW n \in Nat, NEW f, \A k \in 0 .. n : f[k] \in Int
  PROVE  /\ SumFunctionOnSet(f, 0 .. n) = SumFunctionOnSet(f, 0 .. (n - 1)) + f[n]
         /\ SumFunctionOnSet(f, 0 .. (n - 1)) \in Int
<1>1. IsFiniteSet(0 .. n) /\ IsFiniteSet(0 .. (n - 1))
  BY FS_Interval
<1>2. n \in 0 .. n /\ (0 .. n) \ {n} = 0 .. (n - 1)
  OBVIOUS
<1>3. SumFunctionOnSet(f, 0 .. n) = f[n] + SumFunctionOnSet(f, (0 .. n) \ {n})
  BY <1>1, <1>2, SumRemove
<1>4. SumFunctionOnSet(f, 0 .. (n - 1)) \in Int
  BY <1>1, SumType
<1>5. SumFunctionOnSet(f, (0 .. n) \ {n}) = SumFunctionOnSet(f, 0 .. (n - 1))
  BY <1>2
<1>6. f[n] \in Int
  BY <1>2
<1> HIDE <1>2
<1> QED  BY <1>3, <1>4, <1>5, <1>6

(* A part of a set and the rest of it make up its sum. *)
LEMMA SumSplit ==
  ASSUME NEW S, IsFiniteSet(S), NEW f, \A x \in S : f[x] \in Int,
         NEW T \in SUBSET S
  PROVE  SumFunctionOnSet(f, S) = SumFunctionOnSet(f, T) + SumFunctionOnSet(f, S \ T)
<1> DEFINE Sum(U) == SumFunctionOnSet(f, U)
           Q == {U \in SUBSET T : Sum(S) = Sum(U) + Sum(S \ U)}
<1>0. IsFiniteSet(T) /\ Sum(S) \in Int
  BY FS_Subset, SumType
<1>1. {} \in Q
  <2>1. Sum({}) = 0 /\ S \ {} = S
    BY SumEmpty
  <2> HIDE DEF Sum
  <2> QED  BY <1>0, <2>1
<1>2. ASSUME NEW U \in Q, NEW x \in T \ U PROVE U \cup {x} \in Q
  <2> DEFINE R == S \ U
  <2>1. IsFiniteSet(R) /\ x \in R /\ \A y \in R : f[y] \in Int
    BY FS_Subset
  <2>2. Sum(R) = f[x] + Sum(R \ {x})
    <3> HIDE DEF R
    <3> QED  BY <2>1, SumRemove
  <2>3. Sum(U \cup {x}) = f[x] + Sum(U) /\ Sum(U) \in Int
    BY SumInsert
  <2>4. Sum(R \ {x}) \in Int /\ f[x] \in Int
    <3>1. IsFiniteSet(R \ {x}) /\ \A y \in R \ {x} : f[y] \in Int
      BY FS_Subset
    <3> HIDE DEF R
    <3> QED  BY <3>1, SumType
  <2>5. R \ {x} = S \ (U \cup {x}) /\ Sum(S) = Sum(U) + Sum(R)
    OBVIOUS
  <2>6. Sum(S) = Sum(U \cup {x}) + Sum(S \ (U \cup {x}))
    <3> DEFINE all == Sum(S)
               part == Sum(U)
               rest == Sum(R)
               more == Sum(U \cup {x})
               less == Sum(R \ {x})
               add == f[x]
    <3>1. /\ rest = add + less /\ less \in Int /\ add \in Int
          /\ more = add + part /\ part \in Int
          /\ all = part + rest
      BY <2>2, <2>3, <2>4, <2>5
    <3>2. all = more + less
      <4> HIDE DEF all, part, rest, more, less, add
      <4> QED  BY <3>1
    <3> QED  BY <2>5, <3>2
  <2> QED  BY <2>6
<1>3. T \in Q
  <2> HIDE DEF Q
  <2>1. Q \in SUBSET (SUBSET T)
    BY DEF Q
  <2> QED  BY <1>0, <1>1, <1>2, <2>1, SubsetInduction
<1> QED  BY <1>3
=============================================================================
