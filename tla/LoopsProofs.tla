---------------------------- MODULE LoopsProofs -----------------------------
(***************************************************************************)
(* The loops compute what the other modules say they do, for every word    *)
(* width, list of entries and chain.                                       *)
(***************************************************************************)
EXTENDS Loops, SumTheorems, SequenceTheorems

---------------------------------------------------------------------------
(* The chain and its window of timestamps. *)

LEMMA MinimumDeltaType ==
  /\ MinimumDelta \in Nat /\ MinimumDelta >= 1
  /\ BLOCK_TARGET_TIME \in Nat /\ BLOCK_TARGET_TIME <= 2 * MinimumDelta
  BY StampAssumption DEF MinimumDelta, AtLeastOne

(* Blocks half a target apart at most double the difficulty. *)
LEMMA ScaledBound ==
  ASSUME NEW d \in Nat \ {0}, NEW elapsed \in Nat, elapsed >= EPOCH * MinimumDelta
  PROVE  Scaled(d, elapsed) \in Nat \ {0} /\ Scaled(d, elapsed) <= 2 * d
  <1> DEFINE m == MinimumDelta
             p == d * EPOCH * BLOCK_TARGET_TIME
             q == (p + elapsed \div 2) \div elapsed
  <1>1. EPOCH \in Nat /\ EPOCH >= 1 /\ m \in Nat /\ m >= 1
    BY EpochAssumption, MinimumDeltaType
  <1>2. elapsed >= 1
    <2>1. EPOCH * m >= 1
      BY <1>1
    <2> QED
      BY <1>1, <2>1
  <1>3. p \in Nat /\ p <= (2 * d) * elapsed
    <2> DEFINE t == BLOCK_TARGET_TIME
               e == EPOCH
               a == d * e
    <2>1. t \in Nat /\ t <= 2 * m
      BY MinimumDeltaType
    <2>2. a \in Nat
      BY <1>1
    <2>3. p = a * t
      OBVIOUS
    <2> HIDE DEF m, t
    <2>4. a * t \in Nat /\ a * t <= a * (2 * m)
      <3> HIDE DEF a
      <3> QED
        BY <1>1, <2>1, <2>2
    <2>5. a * (2 * m) = (2 * d) * (e * m)
      BY <1>1
    <2>6. (2 * d) * (e * m) <= (2 * d) * elapsed
      <3> DEFINE f == e * m
                 g == 2 * d
      <3>1. f \in Nat /\ g \in Nat /\ f <= elapsed
        BY <1>1 DEF m
      <3> HIDE DEF f, g
      <3>2. g * f <= g * elapsed
        BY <3>1
      <3> QED
        BY <3>2 DEF f, g
    <2> DEFINE u == a * t
               v == a * (2 * m)
               w == (2 * d) * elapsed
    <2>7. u \in Nat /\ v \in Int /\ w \in Int /\ u <= v /\ v <= w
      BY <1>1, <2>4, <2>5, <2>6
    <2>8. u <= w
      <3> HIDE DEF u, v, w
      <3> QED
        BY <2>7
    <2> QED
      BY <2>3, <2>4, <2>8
  <1> HIDE DEF p, m
  <1>4. q \in Nat /\ q <= 2 * d
    <2> DEFINE h == elapsed \div 2
               s == p + h
               b == (2 * d) * elapsed
    <2>1. h \in Nat /\ h < elapsed
      BY <1>2
    <2> HIDE DEF h
    <2>2. s \in Nat /\ b \in Nat /\ s < b + elapsed
      BY <1>3, <2>1
    <2>3. b + elapsed = (2 * d + 1) * elapsed
      OBVIOUS
    <2> HIDE DEF s
    <2> DEFINE k == 2 * d
               z == s \div elapsed
    <2>4. z \in Nat /\ z * elapsed <= s
      BY <1>2, <2>2
    <2>5. k \in Nat /\ s < (k + 1) * elapsed
      <3> DEFINE c == (2 * d + 1) * elapsed
      <3>1. c \in Nat /\ c = b + elapsed
        BY <2>3
      <3> HIDE DEF b, c
      <3>2. s < c
        BY <2>2, <3>1
      <3> QED
        BY <3>2 DEF c
    <2> HIDE DEF z, k
    <2>6. z <= k
      <3>1. SUFFICES ASSUME z >= k + 1 PROVE FALSE
        BY <2>4, <2>5
      <3>2. z * elapsed >= (k + 1) * elapsed
        BY <2>4, <2>5, <3>1
      <3> DEFINE i == z * elapsed
                 j == (k + 1) * elapsed
      <3>3. i \in Int /\ j \in Int /\ i >= j /\ i <= s /\ s < j
        BY <2>4, <2>5, <3>2
      <3> HIDE DEF i, j
      <3> QED
        BY <2>2, <3>3
    <2>7. q = z
      BY DEF z, s, h
    <2> QED
      BY <2>4, <2>6, <2>7 DEF k
  <1>5. Scaled(d, elapsed) = AtLeastOne(q)
    BY <1>2 DEF Scaled, p
  <1> HIDE DEF q
  <1> QED
    BY <1>4, <1>5 DEF AtLeastOne

(* Timestamps i and j are at least j - i minimal steps apart. *)
Spaced(s) ==
  \A i, j \in 1 .. Len(s) : i <= j => s[j] - s[i] >= (j - i) * MinimumDelta

(* w holds the last EPOCH + 1 of the timestamps s, or all of them. *)
WindowOf(w, s) ==
  /\ w \in Seq(Nat)
  /\ Len(w) = IF Len(s) > EPOCH + 1 THEN EPOCH + 1 ELSE Len(s)
  /\ \A i \in 1 .. Len(w) : w[i] = s[Len(s) - Len(w) + i]

LEMMA AddSpaced ==
  ASSUME NEW s \in Seq(Nat), s # <<>>, Spaced(s), NEW delta \in Nat, delta >= MinimumDelta,
         NEW t, t = Append(s, s[Len(s)] + delta)
  PROVE  t \in Seq(Nat) /\ Len(t) = Len(s) + 1 /\ Spaced(t)
  <1> DEFINE len == Len(s)
             m == MinimumDelta
  <1>1. len \in Nat /\ len >= 1 /\ s[len] \in Nat
    OBVIOUS
  <1>2. /\ t \in Seq(Nat) /\ Len(t) = len + 1 /\ t[len + 1] = s[len] + delta
        /\ \A i \in 1 .. len : t[i] = s[i]
    BY <1>1
  <1>3. m \in Nat /\ m >= 1
    BY MinimumDeltaType
  <1>4. ASSUME NEW i \in 1 .. len + 1, NEW j \in 1 .. len + 1, i <= j
        PROVE  t[j] - t[i] >= (j - i) * m
    <2>1. CASE j \in 1 .. len
      <3>1. i \in 1 .. len
        BY <1>1, <1>4, <2>1
      <3> QED
        BY <1>2, <1>4, <2>1, <3>1 DEF Spaced
    <2>2. CASE j = len + 1 /\ i = len + 1
      <3>1. t[j] - t[i] = 0 /\ j - i = 0
        BY <1>1, <1>2, <2>2
      <3> QED
        BY <1>3, <3>1
    <2>3. CASE j = len + 1 /\ i \in 1 .. len
      <3> DEFINE a == s[len]
                 b == s[i]
                 c == (len - i) * m
      <3>1. a \in Nat /\ b \in Nat /\ c \in Int
        <4>1. len \in 1 .. Len(s) /\ i \in 1 .. Len(s)
          BY <1>1, <2>3
        <4>3. a \in Nat /\ b \in Nat
          BY <4>1, ElementOfSeq
        <4>2. len - i \in Int
          BY <1>1, <2>3
        <4> HIDE DEF len, m
        <4> QED
          BY <1>3, <4>2, <4>3
      <3>2. a - b >= c
        BY <1>1, <2>3 DEF Spaced
      <3>3. (j - i) * m = c + m
        BY <1>1, <1>3, <2>3
      <3>4. t[j] = a + delta /\ t[i] = b
        BY <1>2, <2>3
      <3> HIDE DEF a, b, c, m
      <3>5. (a + delta) - b >= c + m
        <4>1. delta >= m
          BY DEF m
        <4> QED
          BY <1>3, <3>1, <3>2, <4>1
      <3> QED
        BY <3>3, <3>4, <3>5
    <2> QED
      BY <1>1, <2>1, <2>2, <2>3
  <1> QED
    BY <1>2, <1>4 DEF Spaced

(* Where the part of a list of e timestamps starts that Prune keeps. *)
KeptFrom(e) == IF e > EPOCH + 1 THEN e - EPOCH ELSE 1

SuffixFrom(p, v, e, k) ==
  /\ k \in 1 .. e
  /\ p \in Seq(Nat) /\ Len(p) = e - k + 1
  /\ \A i \in 1 .. e - k + 1 : p[i] = v[k + i - 1]

LEMMA PruneProperties ==
  ASSUME NEW v \in Seq(Nat), NEW e \in Nat, Len(v) = e, e >= 1,
         NEW k, k = KeptFrom(e), NEW p, p = Prune(v)
  PROVE  SuffixFrom(p, v, e, k)
  <1>1. p = SubSeq(v, k, e)
    BY Zenon DEF Prune, KeptFrom
  <1>2. e \in Int /\ k \in Int /\ 1 <= k /\ k <= e
    BY EpochAssumption DEF KeptFrom
  <1>3. \A i \in k .. e : i \in 1 .. Len(v)
    BY <1>2
  <1>4. \A i \in k .. e : v[i] \in Nat
    BY <1>3, ElementOfSeq
  <1>5. SubSeq(v, k, e) \in Seq(Nat)
    BY <1>2, <1>4, SubSeqProperties, Zenon
  <1>6. Len(SubSeq(v, k, e)) = IF k <= e THEN e - k + 1 ELSE 0
    BY <1>2, <1>4, SubSeqProperties
  <1>7. \A i \in 1 .. e - k + 1 : SubSeq(v, k, e)[i] = v[k + i - 1]
    BY <1>2, <1>4, SubSeqProperties
  <1>8. Len(SubSeq(v, k, e)) = e - k + 1 /\ k \in 1 .. e
    BY <1>2, <1>6
  <1> QED
    BY <1>1, <1>5, <1>7, <1>8, Zenon DEF SuffixFrom

(* The pruned window, one timestamp longer, is that of the longer chain.   *)
LEMMA PruneWindow ==
  ASSUME NEW s \in Seq(Nat), s # <<>>, NEW w, WindowOf(w, s), NEW delta \in Nat,
         NEW t, t = Append(s, s[Len(s)] + delta)
  PROVE  WindowOf(Prune(Append(w, w[Len(w)] + delta)), t)
  <1> DEFINE len == Len(s)
             l == Len(w)
             e == l + 1
             new == s[len] + delta
             v == Append(w, new)
             k == KeptFrom(e)
             p == Prune(v)
  <1>1. EPOCH \in Nat /\ EPOCH >= 1
    BY EpochAssumption
  <1>2. len \in Nat /\ len >= 1
    OBVIOUS
  <1>3. s[len] \in Nat /\ new \in Nat
    BY <1>2
  <1>4. w \in Seq(Nat)
    BY DEF WindowOf
  <1>5. l \in Nat /\ e \in Nat /\ e = l + 1
    BY <1>4
  <1>6. l = IF len > EPOCH + 1 THEN EPOCH + 1 ELSE len
    BY DEF WindowOf
  <1>7. \A i \in 1 .. l : w[i] = s[len - l + i]
    BY DEF WindowOf
  <1>8. /\ t \in Seq(Nat) /\ Len(t) = len + 1 /\ t[len + 1] = new
        /\ \A i \in 1 .. len : t[i] = s[i]
    BY <1>3
  <1>9. v \in Seq(Nat) /\ Len(v) = e
    BY <1>3, <1>4
  <1>10. v[e] = new /\ \A i \in 1 .. l : v[i] = w[i]
    <2> HIDE DEF new
    <2> QED
      BY <1>3, <1>4
  <1> HIDE DEF len
  <1>11. l >= 1 /\ l <= len
    BY <1>1, <1>2, <1>5, <1>6
  <1>12. Append(w, w[l] + delta) = v
    <2>1. l \in 1 .. l /\ len - l + l = len
      BY <1>2, <1>5, <1>11
    <2>2. w[l] = s[len]
      BY <1>7, <2>1
    <2> QED
      BY <2>2
  <1> HIDE DEF l, e, v, new
  <1>13. /\ k \in 1 .. e
         /\ p \in Seq(Nat) /\ Len(p) = e - k + 1
         /\ \A i \in 1 .. e - k + 1 : p[i] = v[k + i - 1]
    <2>1. e >= 1
      BY <1>5
    <2>2. k = KeptFrom(e)
      OBVIOUS
    <2>3. p = Prune(v)
      OBVIOUS
    <2> HIDE DEF k, p
    <2>4. SuffixFrom(p, v, e, k)
      BY <1>5, <1>9, <2>1, <2>2, <2>3, PruneProperties, Zenon
    <2> QED
      BY <2>4 DEF SuffixFrom
  <1>14. Len(p) = IF len + 1 > EPOCH + 1 THEN EPOCH + 1 ELSE len + 1
    <2>1. Len(p) = e - k + 1
      BY <1>13
    <2> QED
      BY <1>1, <1>2, <1>5, <1>6, <2>1 DEF KeptFrom
  <1> HIDE DEF k, p
  <1>15. ASSUME NEW i \in 1 .. Len(p) PROVE p[i] = t[(len + 1) - Len(p) + i]
    <2> DEFINE j == k + i - 1
    <2>1. Len(p) = e - k + 1 /\ k \in 1 .. e
      BY <1>13
    <2>2. i \in 1 .. e - k + 1
      BY <2>1
    <2>3. p[i] = v[j]
      BY <1>13, <2>2
    <2>4. j \in 1 .. e /\ (len + 1) - Len(p) + i = len - l + j
      BY <1>2, <1>5, <2>1, <2>2
    <2> HIDE DEF j
    <2>5. CASE j = e
      <3>1. len - l + j = len + 1
        BY <1>2, <1>5, <2>5
      <3> QED
        BY <1>8, <1>10, <2>3, <2>4, <2>5, <3>1
    <2>6. CASE j \in 1 .. l
      <3>1. len - l + j \in 1 .. len
        BY <1>2, <1>5, <1>11, <2>6
      <3>2. v[j] = s[len - l + j]
        BY <1>7, <1>10, <2>6
      <3> QED
        BY <1>8, <2>3, <2>4, <3>1, <3>2
    <2>7. j = e \/ j \in 1 .. l
      BY <1>5, <2>4
    <2> QED
      BY <2>5, <2>6, <2>7
  <1>16. p \in Seq(Nat)
    BY <1>13
  <1>17. WindowOf(p, t)
    BY <1>8, <1>14, <1>15, <1>16 DEF WindowOf
  <1> QED
    BY <1>12, <1>17 DEF l, p

(* The difficulty after block h, from the timestamps of all blocks. *)
WholeRetarget(d, h, t) ==
  IF h < EPOCH THEN d ELSE Scaled(d, t[h + 1] - t[h + 1 - EPOCH])

(* The difficulty the window gives is the one the whole history gives. *)
LEMMA RetargetIsWhole ==
  ASSUME NEW t \in Seq(Nat), NEW w, WindowOf(w, t), NEW h \in Nat, Len(t) = h + 1,
         NEW d \in Nat \ {0}
  PROVE  ComputeRetarget(d, h, w) = WholeRetarget(d, h, t)
  <1> DEFINE l == Len(w)
             start == h + 1 - l
             from == h - EPOCH
             i == from - start + 1
  <1>1. EPOCH \in Nat /\ EPOCH >= 1
    BY EpochAssumption
  <1>2. w \in Seq(Nat)
    BY DEF WindowOf
  <1>3. l \in Nat /\ l = IF h + 1 > EPOCH + 1 THEN EPOCH + 1 ELSE h + 1
    BY <1>2 DEF WindowOf
  <1>4. \A j \in 1 .. l : w[j] = t[(h + 1) - l + j]
    BY DEF WindowOf
  <1>5. ComputeRetarget(d, h, w) =
          IF h < EPOCH \/ from < start \/ l <= i THEN AtLeastOne(d)
          ELSE Scaled(d, w[l] - w[i])
    BY DEF ComputeRetarget
  <1> HIDE DEF l
  <1>6. CASE h < EPOCH
    <2>1. AtLeastOne(d) = d
      BY DEF AtLeastOne
    <2> QED
      BY <1>5, <1>6, <2>1, Zenon DEF WholeRetarget
  <1>7. CASE ~(h < EPOCH)
    <2>1. l = EPOCH + 1 /\ start = h - EPOCH /\ i = 1 /\ ~(from < start) /\ ~(l <= i)
      BY <1>1, <1>3, <1>7
    <2>2. /\ l \in 1 .. l /\ 1 \in 1 .. l
          /\ (h + 1) - l + l = h + 1 /\ (h + 1) - l + 1 = h + 1 - EPOCH
      BY <1>1, <1>3, <2>1
    <2>3. w[l] = t[h + 1] /\ w[1] = t[h + 1 - EPOCH]
      BY <1>4, <2>2
    <2>4. ComputeRetarget(d, h, w) = Scaled(d, w[l] - w[1])
      <3> HIDE DEF start, from, i
      <3> QED
        BY <1>5, <1>7, <2>1, Zenon
    <2> QED
      BY <1>7, <2>3, <2>4, Zenon DEF WholeRetarget
  <1> QED
    BY <1>6, <1>7

(* What holds of the timestamps, the window and the difficulty together. *)
ChainOf(s, w, d) ==
  s \in Seq(Nat) /\ s # <<>> /\ Spaced(s) /\ WindowOf(w, s) /\ d \in Nat \ {0}

ChainInv ==
  /\ loop = "chain" => stamps # <<>>
  /\ stamps # <<>> => ChainOf(stamps, window, difficulty) /\ previous \in Nat \ {0}

LEMMA InitChainInv == Init => ChainInv /\ RetargetSound
  <1> SUFFICES ASSUME Init PROVE ChainInv /\ RetargetSound
    OBVIOUS
  <1>1. CASE InitSearch \/ InitNewton \/ InitFifo
    <2>1. loop # "chain" /\ stamps = <<>>
      BY <1>1 DEF InitSearch, InitNewton, InitFifo, NoChain
    <2> QED
      BY <2>1 DEF ChainInv, RetargetSound
  <1>2. CASE InitChain
    <2>1. /\ stamps = <<0>> /\ window = <<0>> /\ difficulty = Difficulty0 /\ previous = Difficulty0
      BY <1>2 DEF InitChain
    <2>2. /\ stamps \in Seq(Nat) /\ Len(stamps) = 1 /\ stamps # <<>>
          /\ window \in Seq(Nat) /\ Len(window) = 1 /\ stamps[1] = 0 /\ window[1] = 0
      BY <2>1
    <2>3. /\ EPOCH \in Nat /\ EPOCH >= 1 /\ Difficulty0 \in Nat \ {0}
          /\ difficulty \in Nat \ {0} /\ previous \in Nat \ {0} /\ difficulty = previous
      BY <2>1, EpochAssumption, StampAssumption
    <2>4. Spaced(stamps)
      <3> SUFFICES ASSUME NEW i \in 1 .. 1, NEW j \in 1 .. 1
                   PROVE  stamps[j] - stamps[i] >= (j - i) * MinimumDelta
        BY <2>2 DEF Spaced
      <3>1. i = 1 /\ j = 1
        OBVIOUS
      <3>2. j - i = 0 /\ stamps[j] - stamps[i] = 0
        BY <2>2, <3>1
      <3> QED
        BY <3>2, MinimumDeltaType
    <2>5. WindowOf(window, stamps)
      <3>1. ASSUME NEW i \in 1 .. 1 PROVE window[i] = stamps[1 - 1 + i]
        <4>1. i = 1 /\ 1 - 1 + i = 1
          OBVIOUS
        <4> QED
          BY <2>2, <4>1
      <3>2. 1 = IF 1 > EPOCH + 1 THEN EPOCH + 1 ELSE 1
        BY <2>3
      <3> QED
        BY <2>2, <3>1, <3>2 DEF WindowOf
    <2>6. RetargetSound
      <3>1. Len(stamps) <= EPOCH /\ difficulty <= 2 * previous
        BY <2>2, <2>3
      <3> QED
        BY <2>3, <3>1 DEF RetargetSound
    <2> QED
      BY <2>2, <2>3, <2>4, <2>5, <2>6 DEF ChainInv, ChainOf
  <1> QED
    BY <1>1, <1>2 DEF Init

(* What one block makes of them. *)
BlockOn(s, w, d, delta, t, u, c) ==
  /\ delta \in Nat /\ delta >= MinimumDelta
  /\ t = Append(s, s[Len(s)] + delta)
  /\ u = Prune(Append(w, w[Len(w)] + delta))
  /\ c = ComputeRetarget(d, Len(s), u)

RetargetedBy(s, d, t, c) ==
  c <= 2 * d /\ Len(t) = Len(s) + 1 /\ c = WholeRetarget(d, Len(s), t)

LEMMA NextBlock ==
  ASSUME NEW s, NEW w, NEW d, ChainOf(s, w, d), NEW delta, NEW t, NEW u, NEW c,
         BlockOn(s, w, d, delta, t, u, c)
  PROVE  ChainOf(t, u, c) /\ RetargetedBy(s, d, t, c)
  <1> SUFFICES ASSUME s \in Seq(Nat), s # <<>>, Spaced(s), WindowOf(w, s), d \in Nat \ {0},
                      delta \in Nat, delta >= MinimumDelta,
                      t = Append(s, s[Len(s)] + delta),
                      u = Prune(Append(w, w[Len(w)] + delta)),
                      c = ComputeRetarget(d, Len(s), u)
               PROVE  ChainOf(t, u, c) /\ RetargetedBy(s, d, t, c)
    BY Zenon DEF ChainOf, BlockOn
  <1> DEFINE len == Len(s)
  <1>1. len \in Nat
    OBVIOUS
  <1>2. t \in Seq(Nat) /\ Len(t) = len + 1 /\ Spaced(t)
    BY AddSpaced
  <1>3. WindowOf(u, t)
    BY PruneWindow
  <1>4. c = ComputeRetarget(d, len, u)
    OBVIOUS
  <1> HIDE DEF len
  <1>5. ComputeRetarget(d, len, u) = WholeRetarget(d, len, t)
    BY <1>1, <1>2, <1>3, RetargetIsWhole
  <1>6. EPOCH \in Nat /\ EPOCH >= 1
    BY EpochAssumption
  <1>7. c \in Nat \ {0} /\ c <= 2 * d
    <2>1. CASE len < EPOCH
      BY <1>4, <1>5, <2>1 DEF WholeRetarget
    <2>2. CASE ~(len < EPOCH)
      <3> DEFINE elapsed == t[len + 1] - t[len + 1 - EPOCH]
      <3>1. /\ len + 1 \in 1 .. len + 1 /\ len + 1 - EPOCH \in 1 .. len + 1
            /\ len + 1 - EPOCH <= len + 1 /\ (len + 1) - (len + 1 - EPOCH) = EPOCH
        BY <1>1, <1>6, <2>2
      <3>2. elapsed >= EPOCH * MinimumDelta
        BY <1>2, <3>1 DEF Spaced
      <3>3. t[len + 1] \in Nat /\ t[len + 1 - EPOCH] \in Nat
        BY <1>2, <3>1, ElementOfSeq
      <3>4. elapsed \in Int
        <4> DEFINE a == t[len + 1]
                   b == t[len + 1 - EPOCH]
        <4>1. a \in Nat /\ b \in Nat /\ elapsed = a - b
          BY <3>3
        <4> HIDE DEF a, b, elapsed
        <4> QED
          BY <4>1
      <3>7. c = Scaled(d, elapsed)
        BY <1>4, <1>5, <2>2, Zenon DEF WholeRetarget
      <3> HIDE DEF elapsed
      <3>5. elapsed \in Nat
        <4> DEFINE m == EPOCH * MinimumDelta
        <4>1. m \in Nat
          BY <1>6, MinimumDeltaType
        <4>2. elapsed >= m
          BY <3>2
        <4> HIDE DEF m
        <4> QED
          BY <3>4, <4>1, <4>2
      <3>6. Scaled(d, elapsed) \in Nat \ {0} /\ Scaled(d, elapsed) <= 2 * d
        BY <3>2, <3>5, ScaledBound
      <3> QED
        BY <3>6, <3>7
    <2> QED
      BY <2>1, <2>2
  <1>8. t # <<>>
    <2>1. Len(t) # 0
      <3>1. Len(t) = len + 1
        BY <1>2
      <3> QED
        BY <1>1, <3>1
    <2>2. Len(<<>>) = 0
      OBVIOUS
    <2> QED
      BY <2>1, <2>2, Zenon
  <1> QED
    BY <1>2, <1>3, <1>4, <1>5, <1>7, <1>8 DEF len, ChainOf, RetargetedBy

LEMMA BlockAdded ==
  ASSUME ChainInv, NEW delta \in Deltas, AddBlock(delta)
  PROVE  ChainInv' /\ RetargetSound'
  <1>1. /\ stamps # <<>> /\ ChainOf(stamps, window, difficulty)
        /\ delta \in Nat /\ delta >= MinimumDelta
    BY StampAssumption DEF ChainInv, ChainOf, AddBlock
  <1>2. PICK t, u, c : t = stamps' /\ u = window' /\ c = difficulty'
    OBVIOUS
  <1>3. BlockOn(stamps, window, difficulty, delta, t, u, c)
    BY <1>1, <1>2 DEF AddBlock, BlockOn
  <1>4. ChainOf(t, u, c) /\ RetargetedBy(stamps, difficulty, t, c)
    BY <1>1, <1>3, NextBlock, Zenon
  <1>5. previous' = difficulty
    BY DEF AddBlock
  <1>6. ChainInv'
    BY <1>1, <1>2, <1>4, <1>5 DEF ChainInv, ChainOf
  <1>7. RetargetSound'
    <2> DEFINE len == Len(stamps)
    <2>1. len \in Nat
      BY <1>1 DEF ChainOf
    <2>2. EPOCH \in Nat
      BY EpochAssumption
    <2>3. c = WholeRetarget(difficulty, len, t) /\ Len(t) = len + 1
      BY <1>4 DEF RetargetedBy
    <2> HIDE DEF len
    <2>4. (len + 1 <= EPOCH) <=> (len < EPOCH)
      BY <2>1, <2>2
    <2>5. c = IF len + 1 <= EPOCH THEN difficulty
              ELSE Scaled(difficulty, t[len + 1] - t[len + 1 - EPOCH])
      BY <2>3, <2>4, Zenon DEF WholeRetarget
    <2>6. c = IF Len(t) <= EPOCH THEN difficulty
              ELSE Scaled(difficulty, t[Len(t)] - t[Len(t) - EPOCH])
      <3>1. Len(t) = len + 1
        BY <2>3
      <3>2. t[Len(t)] = t[len + 1] /\ t[Len(t) - EPOCH] = t[len + 1 - EPOCH]
        BY <1>4, <2>1, <2>2, <3>1 DEF ChainOf
      <3> QED
        BY <2>5, <3>1, <3>2, Zenon
    <2>7. c <= 2 * difficulty
      BY <1>4 DEF RetargetedBy
    <2> QED
      BY <1>2, <1>5, <2>6, <2>7, Zenon DEF RetargetSound
  <1> QED
    BY <1>6, <1>7

(* The pruned window gives the difficulty that the whole history gives,    *)
(* and no block more than doubles it, for every chain that keeps           *)
(* validate_block's timestamp rule, every epoch and every even target.     *)
THEOREM RetargetTheorem == Spec => []RetargetSound
  <1> DEFINE Inv == ChainInv /\ RetargetSound
  <1>1. Init => Inv
    BY InitChainInv
  <1>2. Inv /\ [Next]_vars => Inv'
    <2> SUFFICES ASSUME Inv, [Next]_vars PROVE Inv'
      OBVIOUS
    <2>1. ASSUME NEW delta \in Deltas, AddBlock(delta) PROVE Inv'
      BY <2>1, BlockAdded
    <2>2. ASSUME UNCHANGED chainVars, loop' = loop \/ loop' # "chain" PROVE Inv'
      BY <2>2 DEF chainVars, ChainInv, ChainOf, RetargetSound, Spaced, WindowOf
    <2>3. CASE \/ SearchStep \/ NewtonStep \/ ReturnRoot \/ Consume \/ Split \/ Drain
               \/ EndChain \/ UNCHANGED vars
      BY <2>2, <2>3 DEF SearchStep, NewtonStep, ReturnRoot, Consume, Split, Drain, EndChain, vars
    <2> QED
      BY <2>1, <2>3 DEF Next, Step, Done
  <1>3. Inv => RetargetSound
    OBVIOUS
  <1> HIDE DEF Inv
  <1> QED
    BY <1>1, <1>2, <1>3, PTL DEF Spec

---------------------------------------------------------------------------
(* The square roots.  What a recursive function is equal to must be shown  *)
(* to exist first: the powers of two are the union of finite tables.       *)

(* The first powers of two, as a table. *)
Doubling(f, m) ==
  /\ f \in [0 .. m -> Nat]
  /\ f[0] = 1
  /\ \A k \in 1 .. m : f[k] = 2 * f[k - 1]

LEMMA DoublingExists ==
  ASSUME NEW m \in Nat
  PROVE  \E f : Doubling(f, m)
  <1> DEFINE P == {k \in Nat : \E f : Doubling(f, k)}
  <1>1. 0 \in P
    <2> DEFINE f == [k \in 0 .. 0 |-> 1]
    <2>1. Doubling(f, 0)
      BY DEF Doubling
    <2> QED
      BY <2>1
  <1>2. ASSUME NEW k \in P PROVE k + 1 \in P
    <2>1. PICK f : Doubling(f, k)
      OBVIOUS
    <2> DEFINE g == [i \in 0 .. k + 1 |-> IF i = k + 1 THEN 2 * f[k] ELSE f[i]]
    <2>2. k \in Nat /\ k + 1 \in Nat
      OBVIOUS
    <2>3. Doubling(g, k + 1)
      <3>1. \A i \in 0 .. k : f[i] \in Nat
        BY <2>1 DEF Doubling
      <3>2. g \in [0 .. k + 1 -> Nat]
        BY <2>2, <3>1
      <3>3. g[0] = 1
        BY <2>1, <2>2 DEF Doubling
      <3>4. ASSUME NEW i \in 1 .. k + 1 PROVE g[i] = 2 * g[i - 1]
        <4>1. CASE i = k + 1
          BY <2>2, <4>1
        <4>2. CASE i \in 1 .. k
          BY <2>1, <2>2, <4>2 DEF Doubling
        <4> QED
          BY <2>2, <4>1, <4>2
      <3> HIDE DEF g
      <3> QED
        BY <3>2, <3>3, <3>4 DEF Doubling
    <2> QED
      BY <2>2, <2>3
  <1> HIDE DEF P
  <1>3. P = Nat
    <2>1. P \in SUBSET Nat
      BY DEF P
    <2> QED
      BY <1>1, <1>2, <2>1, NatSetInduction
  <1> QED
    BY <1>3 DEF P

LEMMA DoublingUnique ==
  ASSUME NEW m \in Nat, NEW p \in Nat, NEW f, Doubling(f, m), NEW g, Doubling(g, p)
  PROVE  \A k \in Nat : k <= m /\ k <= p => f[k] = g[k]
  <1> DEFINE P == {k \in Nat : k <= m /\ k <= p => f[k] = g[k]}
  <1>1. 0 \in P
    BY DEF Doubling
  <1>2. ASSUME NEW k \in P PROVE k + 1 \in P
    <2>1. k \in Nat /\ k + 1 \in Nat
      OBVIOUS
    <2> SUFFICES ASSUME k + 1 <= m, k + 1 <= p PROVE f[k + 1] = g[k + 1]
      BY <2>1
    <2>2. f[k] = g[k]
      BY <2>1
    <2>3. k + 1 \in 1 .. m /\ k + 1 \in 1 .. p /\ (k + 1) - 1 = k
      BY <2>1
    <2>4. f[k + 1] = 2 * f[(k + 1) - 1] /\ g[k + 1] = 2 * g[(k + 1) - 1]
      BY <2>3 DEF Doubling
    <2> QED
      BY <2>2, <2>3, <2>4
  <1> HIDE DEF P
  <1>3. P = Nat
    <2>1. P \in SUBSET Nat
      BY DEF P
    <2> QED
      BY <1>1, <1>2, <2>1, NatSetInduction
  <1> QED
    BY <1>3 DEF P

(* The recursion of Pow2. *)
LEMMA Pow2Recursion ==
  /\ Pow2 \in [Nat -> Nat] /\ Pow2[0] = 1
  /\ \A k \in Nat : Pow2[k + 1] = 2 * Pow2[k]
  <1> DEFINE T(m) == CHOOSE f : Doubling(f, m)
             F == [k \in Nat |-> T(k)[k]]
             G(f) == [k \in Nat |-> IF k = 0 THEN 1 ELSE 2 * f[k - 1]]
  <1>1. \A m \in Nat : Doubling(T(m), m)
    BY DoublingExists
  <1> HIDE DEF T
  <1>2. F \in [Nat -> Nat]
    <2> SUFFICES ASSUME NEW k \in Nat PROVE T(k)[k] \in Nat
      OBVIOUS
    <2>1. T(k) \in [0 .. k -> Nat] /\ k \in 0 .. k
      BY <1>1 DEF Doubling
    <2> QED
      BY <2>1
  <1>3. F[0] = 1
    BY <1>1 DEF Doubling
  <1>4. ASSUME NEW k \in Nat PROVE F[k + 1] = 2 * F[k]
    <2>1. k + 1 \in Nat /\ k <= k /\ k <= k + 1
      OBVIOUS
    <2>2. Doubling(T(k), k) /\ Doubling(T(k + 1), k + 1)
      BY <1>1, <2>1
    <2>3. T(k)[k] = T(k + 1)[k]
      BY <2>1, <2>2, DoublingUnique
    <2>4. k + 1 \in 1 .. k + 1 /\ (k + 1) - 1 = k
      OBVIOUS
    <2>5. T(k + 1)[k + 1] = 2 * T(k + 1)[(k + 1) - 1]
      BY <2>2, <2>4 DEF Doubling
    <2>6. F[k + 1] = T(k + 1)[k + 1] /\ F[k] = T(k)[k]
      BY <2>1
    <2> HIDE DEF F
    <2> QED
      BY <2>3, <2>4, <2>5, <2>6
  <1>5. F = G(F)
    <2>1. ASSUME NEW k \in Nat PROVE F[k] = IF k = 0 THEN 1 ELSE 2 * F[k - 1]
      <3>1. CASE k = 0
        BY <1>3, <3>1
      <3>2. CASE k # 0
        <4>1. k - 1 \in Nat /\ (k - 1) + 1 = k
          BY <3>2
        <4>2. F[(k - 1) + 1] = 2 * F[k - 1]
          BY <1>4, <4>1
        <4> HIDE DEF F
        <4> QED
          BY <3>2, <4>1, <4>2
      <3> QED
        BY <3>1, <3>2
    <2>2. F = [k \in Nat |-> F[k]]
      OBVIOUS
    <2> HIDE DEF F
    <2> QED
      BY <2>1, <2>2, Zenon
  <1>6. Pow2 = G(Pow2)
    <2> HIDE DEF F
    <2> QED
      BY <1>5, Zenon DEF Pow2
  <1> HIDE DEF F
  <1>7. ASSUME NEW k \in Nat PROVE Pow2[k] = IF k = 0 THEN 1 ELSE 2 * Pow2[k - 1]
    BY <1>6
  <1>8. ASSUME NEW k \in Nat PROVE Pow2[k + 1] = 2 * Pow2[k]
    <2>1. k + 1 \in Nat /\ k + 1 # 0 /\ (k + 1) - 1 = k
      OBVIOUS
    <2>2. Pow2[k + 1] = IF k + 1 = 0 THEN 1 ELSE 2 * Pow2[(k + 1) - 1]
      BY <1>7, <2>1
    <2> QED
      BY <2>1, <2>2
  <1>9. Pow2[0] = 1
    BY <1>7
  <1>10. \A k \in Nat : Pow2[k] \in Nat
    <2> DEFINE P == {k \in Nat : Pow2[k] \in Nat}
    <2>1. 0 \in P
      BY <1>9
    <2>2. ASSUME NEW k \in P PROVE k + 1 \in P
      BY <1>8
    <2>3. P \in SUBSET Nat
      OBVIOUS
    <2> HIDE DEF P
    <2>4. P = Nat
      BY <2>1, <2>2, <2>3, NatSetInduction
    <2> QED
      BY <2>4 DEF P
  <1>11. Pow2 = [k \in Nat |-> Pow2[k]]
    BY <1>6, Zenon
  <1> QED
    BY <1>8, <1>9, <1>10, <1>11

LEMMA Pow2Positive ==
  \A k \in Nat : Pow2[k] \in Nat /\ Pow2[k] >= 1
  <1> DEFINE P == {k \in Nat : Pow2[k] \in Nat /\ Pow2[k] >= 1}
  <1>1. 0 \in P
    BY Pow2Recursion
  <1>2. ASSUME NEW k \in P PROVE k + 1 \in P
    BY Pow2Recursion
  <1>3. P \in SUBSET Nat
    OBVIOUS
  <1> HIDE DEF P
  <1>4. P = Nat
    BY <1>1, <1>2, <1>3, NatSetInduction
  <1> QED
    BY <1>4 DEF P

LEMMA Pow2Square ==
  \A k \in Nat : Pow2[k + k] = Pow2[k] * Pow2[k]
  <1> DEFINE P == {k \in Nat : Pow2[k + k] = Pow2[k] * Pow2[k]}
  <1>1. 0 \in P
    BY Pow2Recursion
  <1>2. ASSUME NEW k \in P PROVE k + 1 \in P
    <2>1. k \in Nat /\ k + 1 \in Nat /\ k + k \in Nat /\ (k + k) + 1 \in Nat
      OBVIOUS
    <2>2. Pow2[k + 1] = 2 * Pow2[k] /\ Pow2[(k + k) + 1] = 2 * Pow2[k + k]
          /\ Pow2[((k + k) + 1) + 1] = 2 * Pow2[(k + k) + 1]
      BY <2>1, Pow2Recursion
    <2>3. (k + 1) + (k + 1) = ((k + k) + 1) + 1
      BY <2>1
    <2>4. Pow2[k + k] = Pow2[k] * Pow2[k]
      OBVIOUS
    <2> DEFINE a == Pow2[k]
    <2>5. a \in Nat
      BY <2>1, Pow2Positive
    <2>6. Pow2[(k + 1) + (k + 1)] = 2 * (2 * (a * a)) /\ Pow2[k + 1] = 2 * a
      BY <2>2, <2>3, <2>4
    <2>7. 2 * (2 * (a * a)) = (2 * a) * (2 * a)
      <3> HIDE DEF a
      <3> QED
        BY <2>5
    <2> QED
      BY <2>1, <2>6, <2>7
  <1>3. P \in SUBSET Nat
    OBVIOUS
  <1> HIDE DEF P
  <1>4. P = Nat
    BY <1>1, <1>2, <1>3, NatSetInduction
  <1> QED
    BY <1>4 DEF P

LEMMA Pow2Monotone ==
  ASSUME NEW i \in Nat, NEW j \in Nat, i <= j
  PROVE  Pow2[i] <= Pow2[j]
  <1> DEFINE P == {k \in Nat : Pow2[i] <= Pow2[i + k]}
  <1>1. 0 \in P
    <2>1. i + 0 = i /\ Pow2[i] \in Nat
      BY Pow2Positive
    <2> QED
      BY <2>1
  <1>2. ASSUME NEW k \in P PROVE k + 1 \in P
    <2>1. k \in Nat /\ i + k \in Nat /\ i + (k + 1) = (i + k) + 1
      OBVIOUS
    <2>2. Pow2[(i + k) + 1] = 2 * Pow2[i + k]
      BY <2>1, Pow2Recursion
    <2>3. Pow2[i] <= Pow2[i + k] /\ Pow2[i] \in Nat /\ Pow2[i + k] \in Nat
      BY <2>1, Pow2Positive
    <2>4. Pow2[i] <= Pow2[(i + k) + 1]
      BY <2>2, <2>3
    <2> QED
      BY <2>1, <2>4
  <1>3. P \in SUBSET Nat
    OBVIOUS
  <1> HIDE DEF P
  <1>4. P = Nat
    BY <1>1, <1>2, <1>3, NatSetInduction
  <1>5. j - i \in P /\ i + (j - i) = j
    BY <1>4
  <1> QED
    BY <1>5 DEF P

(* A word is the square of half a word, which is at least four. *)
LEMMA Words ==
  /\ HalfWord \in Nat /\ HalfWord >= 4
  /\ Word = HalfWord * HalfWord
  <1> DEFINE k == Bits \div 2
  <1>1. k \in Nat /\ k >= 2 /\ k + k = Bits
    BY BitsAssumption
  <1>2. HalfWord = Pow2[k] /\ Word = Pow2[k + k]
    BY <1>1 DEF HalfWord, Word
  <1> HIDE DEF k
  <1>3. Pow2[0] = 1 /\ Pow2[0 + 1] = 2 * Pow2[0] /\ Pow2[1 + 1] = 2 * Pow2[1]
    BY Pow2Recursion
  <1>4. Pow2[2] = 4
    BY <1>3
  <1>5. Pow2[2] <= Pow2[k] /\ Pow2[k] \in Nat
    BY <1>1, Pow2Monotone, Pow2Positive
  <1>6. Pow2[k + k] = Pow2[k] * Pow2[k]
    BY <1>1, Pow2Square
  <1> QED
    BY <1>2, <1>4, <1>5, <1>6

(* The right end of the search: at most half a word, and above the root. *)
LEMMA RightEnd ==
  ASSUME NEW a \in 0 .. (Word - 1), NEW r, r = Pow2[(BitLen(a) + 1) \div 2]
  PROVE  r \in Nat /\ 1 <= r /\ r <= HalfWord /\ a < r * r
  <1>1. Word \in Nat
    <2>1. Bits \in Nat
      BY BitsAssumption
    <2> QED
      BY <2>1, Pow2Positive DEF Word
  <1>2. a \in Nat /\ a < Pow2[Bits] /\ Bits \in Nat
    BY <1>1, BitsAssumption DEF Word
  <1> DEFINE T == {b \in Nat : a < Pow2[b]}
             Fits(b) == a < Pow2[b] /\ (b > 0 => Pow2[b - 1] <= a)
             b == BitLen(a)
             c == (b + 1) \div 2
  <1>3. PICK m \in T : \A z \in T : m <= z
    <2>1. T \subseteq Nat /\ Bits \in T
      BY <1>2
    <2> HIDE DEF T
    <2> QED
      BY <2>1, LeastExists
  <1>4. m \in 0 .. Bits /\ Fits(m)
    <2>1. m \in Nat /\ a < Pow2[m] /\ m <= Bits
      BY <1>2, <1>3
    <2>2. ASSUME m > 0 PROVE Pow2[m - 1] <= a
      <3>1. m - 1 \in Nat /\ ~(m <= m - 1)
        BY <2>1, <2>2
      <3>2. m - 1 \notin T
        BY <1>3, <3>1
      <3>3. Pow2[m - 1] \in Nat
        BY <3>1, Pow2Positive
      <3> QED
        BY <1>2, <3>1, <3>2, <3>3
    <2> QED
      BY <1>2, <2>1, <2>2
  <1>5. b \in 0 .. Bits /\ Fits(b)
    <2> HIDE DEF Fits
    <2>1. \E z \in 0 .. Bits : Fits(z)
      BY <1>4
    <2>2. b = CHOOSE z \in 0 .. Bits : Fits(z)
      BY DEF BitLen, Fits
    <2> HIDE DEF b
    <2> QED
      BY <2>1, <2>2, Zenon
  <1>6. r = Pow2[c]
    OBVIOUS
  <1>7. a < Pow2[b]
    BY <1>5
  <1> HIDE DEF b, Fits
  <1>8. /\ b \in Nat /\ c \in Nat /\ c <= Bits \div 2 /\ Bits \div 2 \in Nat
        /\ b <= c + c /\ c + c \in Nat
    BY <1>5, BitsAssumption
  <1> HIDE DEF c
  <1>9. Pow2[c] \in Nat /\ Pow2[c] >= 1 /\ Pow2[c] <= HalfWord
    BY <1>8, Pow2Positive, Pow2Monotone DEF HalfWord
  <1>10. Pow2[b] <= Pow2[c + c] /\ Pow2[c + c] = Pow2[c] * Pow2[c]
         /\ Pow2[b] \in Nat /\ Pow2[c + c] \in Nat
    BY <1>8, Pow2Positive, Pow2Monotone, Pow2Square
  <1>11. a < Pow2[c] * Pow2[c]
    <2> DEFINE u == Pow2[b]
               v == Pow2[c + c]
    <2>1. a < u /\ u <= v /\ u \in Nat /\ v \in Nat
      BY <1>7, <1>10
    <2>2. v = Pow2[c] * Pow2[c]
      BY <1>10
    <2>3. a < v
      <3> HIDE DEF u, v
      <3> QED
        BY <1>2, <2>1
    <2> QED
      BY <2>2, <2>3
  <1> QED
    BY <1>6, <1>9, <1>11

(* What both loops promise, without CHOOSE. *)
IsRoot(r, a) == r \in Nat /\ r * r <= a /\ a < (r + 1) * (r + 1)

LEMMA RootIsFloor ==
  ASSUME NEW a \in Nat, NEW r, IsRoot(r, a)
  PROVE  r = ISqrtFloor(a)
  <1>1. r \in Nat /\ r * r <= a /\ a < (r + 1) * (r + 1)
    BY DEF IsRoot
  <1>2. ASSUME NEW p \in Nat, NEW q \in Nat, p < q, q * q <= a, a < (p + 1) * (p + 1)
        PROVE  FALSE
    <2>1. p + 1 <= q /\ p + 1 \in Nat
      BY <1>2
    <2> DEFINE s == p + 1
    <2>2. s * s <= q * q
      <3> HIDE DEF s
      <3>1. s * s <= s * q /\ s * q <= q * q
        BY <2>1 DEF s
      <3>2. s * s \in Int /\ s * q \in Int /\ q * q \in Int
        BY <2>1 DEF s
      <3> QED
        BY <3>1, <3>2
    <2> DEFINE u == s * s
               v == q * q
    <2>3. u \in Int /\ v \in Int /\ u <= v /\ v <= a /\ a < u
      BY <1>2, <2>1, <2>2
    <2> HIDE DEF u, v
    <2> QED
      BY <2>3
  <1>3. r \in 0 .. a
    <2>1. CASE r = 0
      BY <2>1
    <2>2. CASE r # 0
      <3>1. r <= r * r /\ r * r \in Nat
        BY <1>1, <2>2
      <3> DEFINE u == r * r
      <3>2. u \in Nat /\ r <= u /\ u <= a
        BY <1>1, <3>1
      <3> HIDE DEF u
      <3> QED
        BY <1>1, <3>2
    <2> QED
      BY <2>1, <2>2
  <1> DEFINE f == ISqrtFloor(a)
  <1>4. f \in 0 .. a /\ f * f <= a /\ a < (f + 1) * (f + 1)
    BY <1>1, <1>3 DEF ISqrtFloor
  <1> HIDE DEF f
  <1>5. f \in Nat
    BY <1>4
  <1>6. ~(r < f) /\ ~(f < r)
    BY <1>1, <1>2, <1>4, <1>5
  <1>7. r = f
    BY <1>1, <1>5, <1>6
  <1> QED
    BY <1>7 DEF f

(* The mean of a guess and the quotient is never below the root. *)
LEMMA NewtonAbove ==
  ASSUME NEW a \in Nat, NEW g \in Nat, g >= 1, NEW z, z = (g + a \div g) \div 2
  PROVE  z \in Nat /\ a < (z + 1) * (z + 1)
  <1> DEFINE q == a \div g
             v == q + 1
             w == z + 1
  <1>1. q \in Nat /\ a < g * v
    <2>1. q \in Nat /\ a = g * q + (a % g) /\ a % g \in Nat /\ a % g < g
      OBVIOUS
    <2>2. g * v = g * q + g
      BY <2>1
    <2> DEFINE m == g * q
               e == a % g
    <2>3. m \in Int /\ e \in Nat /\ e < g /\ a = m + e /\ g * v = m + g
      BY <2>1, <2>2
    <2> HIDE DEF m, e, v, q
    <2>4. a < g * v
      BY <2>3
    <2> QED
      BY <2>1, <2>4
  <1>2. z \in Nat /\ v \in Nat /\ w \in Nat /\ 2 * w >= g + v
    <2> HIDE DEF q
    <2>1. z \in Nat /\ 2 * z + 1 >= g + q
      BY <1>1 DEF q
    <2> QED
      BY <1>1, <2>1
  <1> HIDE DEF q, v, w
  <1>3. 4 * (w * w) >= (g + v) * (g + v)
    <2> DEFINE s == g + v
               d == 2 * w
    <2>1. s \in Nat /\ d \in Nat /\ s <= d
      BY <1>2
    <2>2. s * s <= d * d
      <3> HIDE DEF s, d
      <3>1. s * s <= s * d /\ s * d <= d * d
        BY <2>1
      <3>2. s * s \in Int /\ s * d \in Int /\ d * d \in Int
        BY <2>1
      <3> QED
        BY <3>1, <3>2
    <2>3. d * d = 4 * (w * w)
      BY <1>2
    <2> QED
      BY <2>2, <2>3
  <1>4. (g + v) * (g + v) >= 4 * (g * v)
    <2> DEFINE d == g - v
    <2>1. d \in Int
      BY <1>2
    <2>2. d * d >= 0
      <3> HIDE DEF d
      <3> QED
        BY <2>1
    <2>3. (g + v) * (g + v) = d * d + 4 * (g * v)
      BY <1>2
    <2> DEFINE p == d * d
               m == g * v
               s == (g + v) * (g + v)
    <2>4. p \in Int /\ m \in Int /\ s = p + 4 * m /\ p >= 0
      BY <1>2, <2>1, <2>2, <2>3
    <2> HIDE DEF p, m, s
    <2>5. s >= 4 * m
      BY <2>4
    <2> QED
      BY <2>5 DEF s, m
  <1>5. a < w * w
    <2> DEFINE p == w * w
               m == g * v
               s == (g + v) * (g + v)
    <2>1. p \in Int /\ m \in Int /\ s \in Int /\ 4 * p >= s /\ s >= 4 * m /\ a < m
      BY <1>1, <1>2, <1>3, <1>4
    <2> HIDE DEF p, m, s
    <2>2. a < p
      BY <2>1
    <2> QED
      BY <2>2 DEF p
  <1> QED
    BY <1>2, <1>5 DEF w

(* The sum of the iteration does not wrap. *)
LEMMA NewtonFits ==
  ASSUME NEW a \in Nat, a >= 2, a < Word, NEW g \in Nat, g >= 1, g < a,
         a < (g + 1) * (g + 1)
  PROVE  g + a \div g \in Nat /\ g + a \div g < Word
  <1> DEFINE q == a \div g
             m == g * q
  <1>0. Word \in Nat /\ Word >= 16
    <2> DEFINE h == HalfWord
    <2>1. h \in Nat /\ h >= 4 /\ Word = h * h
      BY Words
    <2> HIDE DEF h
    <2>2. h * h \in Nat /\ h * h >= 4 * h /\ 4 * h >= 16
      BY <2>1
    <2> DEFINE k == h * h
    <2>3. k \in Nat /\ k >= 4 * h /\ Word = k
      BY <2>1, <2>2
    <2> HIDE DEF k
    <2> QED
      BY <2>1, <2>3
  <1>1. q \in Nat /\ m \in Nat /\ m <= a /\ a < m + g
    <2>1. q \in Nat /\ a = g * q + (a % g) /\ a % g \in Nat /\ a % g < g
      OBVIOUS
    <2>2. m \in Nat
      BY <2>1
    <2> DEFINE e == a % g
    <2>3. e \in Nat /\ e < g /\ a = m + e
      BY <2>1
    <2> HIDE DEF m, e
    <2>4. m <= a /\ a < m + g
      BY <2>2, <2>3
    <2> QED
      BY <2>1, <2>2, <2>4 DEF m
  <1> HIDE DEF q
  <1>2. q >= 1
    <2> SUFFICES ASSUME q = 0 PROVE FALSE
      BY <1>1
    <2>1. m = 0
      OBVIOUS
    <2> HIDE DEF m
    <2> QED
      BY <1>1, <2>1
  <1>3. g + q <= m + 1
    <2> DEFINE b == g - 1
               c == q - 1
    <2>1. b \in Nat /\ c \in Nat
      BY <1>1, <1>2
    <2>2. m = b * c + b + c + 1
      BY <1>1
    <2>3. b * c \in Nat
      <3> HIDE DEF b, c
      <3> QED
        BY <2>1
    <2> DEFINE p == b * c
    <2>4. p \in Nat /\ m = p + b + c + 1
      BY <2>2, <2>3
    <2> HIDE DEF p, m
    <2> QED
      BY <1>1, <2>1, <2>4
  <1>4. CASE g >= 2 /\ q >= 2
    <2> DEFINE b == g - 2
               c == q - 2
    <2>1. b \in Nat /\ c \in Nat
      BY <1>1, <1>4
    <2>2. m = b * c + 2 * b + 2 * c + 4
      BY <1>1
    <2>3. b * c \in Nat
      <3> HIDE DEF b, c
      <3> QED
        BY <2>1
    <2> DEFINE p == b * c
    <2>4. p \in Nat /\ m = p + 2 * b + 2 * c + 4
      BY <2>2, <2>3
    <2> HIDE DEF p, m
    <2>5. g + q <= m
      BY <1>1, <2>1, <2>4
    <2> QED
      BY <1>0, <1>1, <2>5 DEF q
  <1>5. CASE q = 1
    BY <1>0, <1>5 DEF q
  <1>6. CASE g = 1 /\ q >= 2
    <2>1. q = a /\ a < 4
      BY <1>6 DEF q
    <2> QED
      BY <1>0, <1>6, <2>1 DEF q
  <1> QED
    BY <1>1, <1>2, <1>4, <1>5, <1>6

(* The squares of the search saturate above the argument only. *)
LEMMA SaturatedAbove ==
  ASSUME NEW a \in SearchInputs, NEW m \in Nat
  PROVE  /\ a \in Nat /\ a < Word - 1
         /\ SaturatingMul(m, m) <= a <=> m * m <= a
  <1> DEFINE h == HalfWord
             k == (h - 1) * (h - 1)
             s == m * m
  <1>1. h \in Nat /\ h >= 4 /\ Word = h * h
    BY Words
  <1>2. k \in Nat /\ k + 2 * h = Word + 1 /\ s \in Nat /\ Word \in Nat
    <2> HIDE DEF h
    <2> QED
      BY <1>1
  <1>3. a \in 0 .. k
    BY DEF SearchInputs
  <1>4. SaturatingMul(m, m) = IF s < Word THEN s ELSE Word - 1
    BY DEF SaturatingMul
  <1> HIDE DEF h, k, s
  <1>5. a \in Nat /\ a < Word - 1
    BY <1>1, <1>2, <1>3
  <1>6. SaturatingMul(m, m) <= a <=> s <= a
    BY <1>2, <1>4, <1>5
  <1> QED
    BY <1>5, <1>6 DEF s

(* While the two root loops run: the root is between the best guess of the *)
(* search and its right end, or at most the guess of the iteration.        *)
RootInv ==
  /\ loop = "done" => n \in Nat /\ IsRoot(result, n)
  /\ loop \in {"fifo", "chain"} => n = 0 /\ result = 0
  /\ loop = "search" =>
       /\ n \in SearchInputs /\ n >= 2
       /\ x \in Nat /\ y \in Nat /\ 1 <= x /\ x <= y + 1 /\ y <= HalfWord
       /\ result \in Nat /\ result * result <= n
       /\ n < (y + 1) * (y + 1)
       /\ result = x - 1 \/ (x = 1 /\ result = 1)
  /\ loop = "newton" =>
       /\ n \in Nat /\ n >= 2 /\ n < Word
       /\ x \in Nat /\ x >= 1 /\ x <= n
       /\ n < (x + 1) * (x + 1)
       /\ y = (x + n \div x) \div 2

LEMMA ZeroRoot == IsRoot(0, 0) /\ IsRoot(1, 1)
  BY DEF IsRoot

LEMMA InitRoot == Init => RootInv
  <1> SUFFICES ASSUME Init PROVE RootInv
    OBVIOUS
  <1>1. CASE InitSearch
    <2>1. n \in SearchInputs /\ n \in Nat /\ n < Word - 1
      BY <1>1, SaturatedAbove DEF InitSearch
    <2>2. CASE n < 2
      <3>1. n = 0 \/ n = 1
        BY <2>1, <2>2
      <3>2. loop = "done" /\ result = n
        BY <1>1, <2>2 DEF InitSearch
      <3> QED
        BY <2>1, <3>1, <3>2, ZeroRoot DEF RootInv
    <2>3. CASE ~(n < 2)
      <3>1. loop = "search" /\ x = 1 /\ result = 1 /\ y = Pow2[(BitLen(n) + 1) \div 2]
        BY <1>1, <2>3 DEF InitSearch
      <3>2. n \in 0 .. (Word - 1)
        <4>1. Word \in Int
          BY Words
        <4> QED
          BY <2>1, <4>1
      <3>3. y \in Nat /\ 1 <= y /\ y <= HalfWord /\ n < y * y
        BY <3>1, <3>2, RightEnd
      <3>4. n < (y + 1) * (y + 1)
        <4>1. (y + 1) * (y + 1) = y * y + 2 * y + 1 /\ y * y \in Nat
          BY <3>3
        <4> DEFINE s == y * y
        <4>2. s \in Nat /\ n < s
          BY <3>3, <4>1
        <4> HIDE DEF s
        <4>3. n < s + 2 * y + 1
          BY <2>1, <3>3, <4>2
        <4> QED
          BY <4>1, <4>3 DEF s
      <3>5. x \in Nat /\ x <= y + 1 /\ n >= 2 /\ result * result <= n
        BY <2>1, <2>3, <3>1, <3>3
      <3> QED
        BY <2>1, <3>1, <3>3, <3>4, <3>5 DEF RootInv
    <2> QED
      BY <2>2, <2>3
  <1>2. CASE InitNewton
    <2>0. Word \in Nat
      BY Words
    <2>1. n \in Nat /\ n < Word
      BY <1>2, <2>0 DEF InitNewton, NewtonInputs
    <2>2. CASE n < 2
      <3>1. n = 0 \/ n = 1
        BY <2>1, <2>2
      <3>2. loop = "done" /\ result = n
        BY <1>2, <2>2 DEF InitNewton
      <3> QED
        BY <2>1, <3>1, <3>2, ZeroRoot DEF RootInv
    <2>3. CASE ~(n < 2)
      <3>1. loop = "newton" /\ x = n /\ y = (n + 1) \div 2
        BY <1>2, <2>3 DEF InitNewton
      <3>2. n \div n = 1
        BY <2>1, <2>3
      <3>3. n < (n + 1) * (n + 1)
        <4>1. n * n \in Nat /\ (n + 1) * (n + 1) = n * n + 2 * n + 1
          BY <2>1
        <4> DEFINE s == n * n
        <4>2. s \in Nat
          BY <4>1
        <4> HIDE DEF s
        <4>3. n < s + 2 * n + 1
          BY <2>1, <4>2
        <4> QED
          BY <4>1, <4>3 DEF s
      <3> QED
        BY <2>1, <2>3, <3>1, <3>2, <3>3 DEF RootInv
    <2> QED
      BY <2>2, <2>3
  <1>3. CASE InitFifo \/ InitChain
    BY <1>3 DEF InitFifo, InitChain, NoRoot, RootInv
  <1> QED
    BY <1>1, <1>2, <1>3 DEF Init

LEMMA SearchStepRoot ==
  ASSUME RootInv, SearchStep
  PROVE  RootInv'
  <1>1. /\ loop = "search" /\ x <= y
        /\ n \in SearchInputs /\ n >= 2
        /\ x \in Nat /\ y \in Nat /\ 1 <= x /\ x <= y + 1 /\ y <= HalfWord
        /\ result \in Nat /\ result * result <= n
        /\ n < (y + 1) * (y + 1)
        /\ result = x - 1 \/ (x = 1 /\ result = 1)
    BY DEF RootInv, SearchStep
  <1>2. PICK m : m = Middle
    OBVIOUS
  <1>3. m \in Nat /\ x <= m /\ m <= y
    <2>1. x + y < Word /\ Word \in Nat
      <3> DEFINE h == HalfWord
      <3>1. h \in Nat /\ h >= 4 /\ Word = h * h
        BY Words
      <3>2. y <= h
        BY <1>1
      <3> HIDE DEF h
      <3>3. h * h >= 4 * h /\ h * h \in Nat
        BY <3>1
      <3> QED
        BY <1>1, <3>1, <3>2, <3>3
    <2>2. (x + y) % Word = x + y
      BY <1>1, <2>1
    <2>3. m = (x + y) \div 2
      BY <1>2, <2>2 DEF Middle
    <2> QED
      BY <1>1, <2>3
  <1>4. SaturatingMul(m, m) <= n <=> m * m <= n
    BY <1>1, <1>3, SaturatedAbove
  <1>5. loop' = loop /\ n' = n
    BY DEF SearchStep
  <1>6. CASE m * m <= n
    <2>1. result' = m /\ x' = m + 1 /\ y' = y
      BY <1>2, <1>4, <1>6 DEF SearchStep
    <2>2. m + 1 \in Nat /\ 1 <= m + 1 /\ m + 1 <= y + 1 /\ m = (m + 1) - 1
      BY <1>1, <1>3
    <2> QED
      BY <1>1, <1>3, <1>5, <1>6, <2>1, <2>2 DEF RootInv
  <1>7. CASE ~(m * m <= n)
    <2>1. result' = result /\ x' = x /\ y' = m - 1
      BY <1>2, <1>4, <1>7 DEF SearchStep
    <2>2. n \in Nat
      BY <1>1, <1>3, SaturatedAbove
    <2>3. /\ m - 1 \in Nat /\ x <= (m - 1) + 1 /\ (m - 1) + 1 = m
      BY <1>1, <1>3
    <2>4. HalfWord \in Nat
      BY Words
    <2>5. m - 1 <= HalfWord
      BY <1>1, <1>3, <2>4
    <2>6. n < ((m - 1) + 1) * ((m - 1) + 1)
      <3> DEFINE s == m * m
      <3>1. s \in Nat
        BY <1>3
      <3>2. ~(s <= n)
        BY <1>7
      <3> HIDE DEF s
      <3>3. n < s
        BY <2>2, <3>1, <3>2
      <3> QED
        BY <2>3, <3>3 DEF s
    <2> QED
      BY <1>1, <1>5, <2>1, <2>3, <2>5, <2>6 DEF RootInv
  <1> QED
    BY <1>6, <1>7

LEMMA NewtonFacts ==
  ASSUME RootInv, loop = "newton"
  PROVE  /\ n \in Nat /\ n >= 2 /\ n < Word
         /\ x \in Nat /\ x >= 1 /\ x <= n /\ n < (x + 1) * (x + 1)
         /\ y = (x + n \div x) \div 2
         /\ y \in Nat /\ y >= 1 /\ n < (y + 1) * (y + 1)
  <1>1. /\ n \in Nat /\ n >= 2 /\ n < Word
        /\ x \in Nat /\ x >= 1 /\ x <= n /\ n < (x + 1) * (x + 1)
        /\ y = (x + n \div x) \div 2
    BY DEF RootInv
  <1>2. y \in Nat /\ n < (y + 1) * (y + 1)
    BY <1>1, NewtonAbove
  <1>3. y >= 1
    BY <1>1, <1>2
  <1> QED
    BY <1>1, <1>2, <1>3

LEMMA NewtonStepRoot ==
  ASSUME RootInv, NewtonStep
  PROVE  RootInv'
  <1>1. loop = "newton" /\ y < x /\ x' = y /\ loop' = loop /\ n' = n
        /\ y' = ((y + n \div y) % Word) \div 2
    BY DEF NewtonStep
  <1>2. /\ n \in Nat /\ n >= 2 /\ n < Word
        /\ x \in Nat /\ x >= 1 /\ x <= n
        /\ y \in Nat /\ y >= 1 /\ n < (y + 1) * (y + 1)
    BY <1>1, NewtonFacts
  <1>3. y < n /\ y <= n
    BY <1>1, <1>2
  <1>4. y + n \div y \in Nat /\ y + n \div y < Word
    BY <1>2, <1>3, NewtonFits
  <1>5. (y + n \div y) % Word = y + n \div y
    <2>1. Word \in Nat
      BY Words
    <2> DEFINE s == y + n \div y
    <2>2. s \in Nat /\ s < Word
      BY <1>4
    <2> HIDE DEF s
    <2>3. s % Word = s
      BY <2>1, <2>2
    <2> QED
      BY <2>3 DEF s
  <1> QED
    BY <1>1, <1>2, <1>3, <1>5 DEF RootInv

LEMMA ReturnRootRoot ==
  ASSUME RootInv, ReturnRoot
  PROVE  RootInv'
  <1>1. CASE loop = "search" /\ x > y /\ UNCHANGED result
    <2>1. /\ n \in SearchInputs /\ n >= 2
          /\ x \in Nat /\ y \in Nat /\ 1 <= x /\ x <= y + 1
          /\ result \in Nat /\ result * result <= n
          /\ n < (y + 1) * (y + 1)
          /\ result = x - 1 \/ (x = 1 /\ result = 1)
      BY <1>1 DEF RootInv
    <2>2. n \in Nat
      BY <2>1, SaturatedAbove
    <2>3. x = y + 1
      BY <1>1, <2>1
    <2>4. y # 0
      BY <2>1, <2>2
    <2>5. result = y
      BY <2>1, <2>3, <2>4
    <2>6. IsRoot(result, n)
      BY <2>1, <2>5 DEF IsRoot
    <2>7. loop' = "done" /\ result' = result /\ n' = n
      BY <1>1 DEF ReturnRoot
    <2> QED
      BY <2>2, <2>6, <2>7 DEF RootInv
  <1>2. CASE loop = "newton" /\ y >= x /\ result' = x
    <2>1. /\ n \in Nat /\ x \in Nat /\ x >= 1 /\ n < (x + 1) * (x + 1)
          /\ y = (x + n \div x) \div 2
      BY <1>2, NewtonFacts
    <2> DEFINE q == n \div x
    <2>2. q \in Nat /\ x * q <= n
      <3>1. q \in Nat /\ n = x * q + (n % x) /\ n % x \in Nat
        BY <2>1
      <3> DEFINE m == x * q
                 e == n % x
      <3>2. m \in Int /\ e \in Nat /\ n = m + e
        BY <2>1, <3>1
      <3> HIDE DEF m, e
      <3>3. m <= n
        BY <3>2
      <3> QED
        BY <3>1, <3>3 DEF m
    <2>3. y = (x + q) \div 2
      BY <2>1
    <2> HIDE DEF q
    <2>4. q >= x
      BY <1>2, <2>1, <2>2, <2>3
    <2>5. x * x <= x * q
      BY <2>1, <2>2, <2>4
    <2>6. x * x <= n
      <3> DEFINE u == x * x
                 v == x * q
      <3>1. u \in Int /\ v \in Int /\ u <= v /\ v <= n
        BY <2>1, <2>2, <2>5
      <3> HIDE DEF u, v
      <3>2. u <= n
        BY <2>1, <3>1
      <3> QED
        BY <3>2 DEF u
    <2>7. IsRoot(x, n)
      BY <2>1, <2>6 DEF IsRoot
    <2>8. loop' = "done" /\ result' = x /\ n' = n
      BY <1>2 DEF ReturnRoot
    <2> QED
      BY <2>1, <2>7, <2>8 DEF RootInv
  <1> QED
    BY <1>1, <1>2 DEF ReturnRoot

LEMMA NextRoot == RootInv /\ [Next]_vars => RootInv'
  <1> SUFFICES ASSUME RootInv, [Next]_vars PROVE RootInv'
    OBVIOUS
  <1>1. ASSUME UNCHANGED rootVars, loop' = loop \/ (loop \in {"fifo", "chain"} /\ loop' = "done")
        PROVE  RootInv'
    <2>1. n' = n /\ x' = x /\ y' = y /\ result' = result
      BY <1>1 DEF rootVars
    <2>2. CASE loop' = loop
      BY <2>1, <2>2 DEF RootInv
    <2>3. CASE loop \in {"fifo", "chain"} /\ loop' = "done"
      <3>1. n = 0 /\ result = 0
        BY <2>3 DEF RootInv
      <3> QED
        BY <2>1, <2>3, <3>1, ZeroRoot DEF RootInv
    <2> QED
      BY <1>1, <2>2, <2>3
  <1>2. CASE Consume \/ Split \/ Drain \/ EndChain \/ UNCHANGED vars
    BY <1>1, <1>2 DEF Consume, Split, Drain, EndChain, vars
  <1>3. ASSUME NEW delta \in Deltas, AddBlock(delta) PROVE RootInv'
    BY <1>1, <1>3 DEF AddBlock
  <1> QED
    BY <1>2, <1>3, SearchStepRoot, NewtonStepRoot, ReturnRootRoot DEF Next, Step, Done

---------------------------------------------------------------------------
(* unbond_fifo. *)

(* At least one entry, each with a stake, one for each height from 1 on. *)
Listed(s) == s \in Seq(Nat \ {0}) /\ s # <<>> /\ Len(s) <= MaxHeight

(* What the first c entries hold. *)
Prefix(s, c) == SumFunctionOnSet(ByHeight(s), 0 .. c)

LEMMA ListedAre ==
  ASSUME NEW s \in EntryLists
  PROVE  Listed(s)
  <1>1. PICK k \in 1 .. MaxEntries : s \in [1 .. k -> Stakes]
    BY DEF EntryLists
  <1>2. k \in Nat /\ 1 <= k /\ k <= MaxHeight
    BY FifoAssumption, MaxHeightAssumption
  <1>3. s \in [1 .. k -> Nat \ {0}]
    BY <1>1, FifoAssumption
  <1>4. s \in Seq(Nat \ {0}) /\ Len(s) = k
    BY <1>2, <1>3
  <1>5. s # <<>>
    <2>1. Len(s) # 0
      BY <1>2, <1>4
    <2>2. Len(<<>>) = 0
      OBVIOUS
    <2> QED
      BY <2>1, <2>2, Zenon
  <1> QED
    BY <1>2, <1>4, <1>5 DEF Listed

LEMMA ByHeightValues ==
  ASSUME NEW s, Listed(s)
  PROVE  /\ Len(s) \in Heights /\ Len(s) \in Nat /\ Len(s) >= 1
         /\ \A h \in Heights : ByHeight(s)[h] \in Nat
         /\ \A h \in 1 .. Len(s) : h \in Heights /\ ByHeight(s)[h] = s[h] /\ s[h] \in Nat \ {0}
         /\ \A h \in Heights : h \notin 1 .. Len(s) => ByHeight(s)[h] = 0
  <1>1. s \in Seq(Nat \ {0}) /\ s # <<>> /\ Len(s) <= MaxHeight
    BY DEF Listed
  <1>2. Len(s) \in Nat /\ Len(s) >= 1 /\ DOMAIN s = 1 .. Len(s)
    BY <1>1
  <1>3. \A h \in 1 .. Len(s) : s[h] \in Nat \ {0}
    BY <1>1, ElementOfSeq
  <1>4. 1 .. Len(s) \subseteq Heights /\ Len(s) \in Heights
    BY <1>1, <1>2, MaxHeightAssumption DEF Heights
  <1>5. \A h \in Heights : ByHeight(s)[h] = IF h \in 1 .. Len(s) THEN s[h] ELSE 0
    BY <1>2 DEF ByHeight
  <1> QED
    BY <1>2, <1>3, <1>4, <1>5

LEMMA PrefixStep ==
  ASSUME NEW s, Listed(s), NEW h \in Heights
  PROVE  /\ Prefix(s, h - 1) \in Nat /\ Prefix(s, h) \in Nat
         /\ Prefix(s, h) = Prefix(s, h - 1) + ByHeight(s)[h]
  <1> DEFINE f == ByHeight(s)
  <1>1. \A k \in Heights : f[k] \in Nat
    BY ByHeightValues
  <1>2. h \in Nat /\ 0 .. h \subseteq Heights /\ 0 .. (h - 1) \subseteq Heights
    BY MaxHeightAssumption DEF Heights
  <1> HIDE DEF f
  <1>3. \A k \in 0 .. h : f[k] \in Int
    BY <1>1, <1>2
  <1>4. SumFunctionOnSet(f, 0 .. h) = SumFunctionOnSet(f, 0 .. (h - 1)) + f[h]
    BY <1>2, <1>3, SumPrefix
  <1>5. IsFiniteSet(0 .. h) /\ IsFiniteSet(0 .. (h - 1))
    BY <1>2, FS_Interval
  <1>6. (\A k \in 0 .. h : f[k] \in Nat) /\ (\A k \in 0 .. (h - 1) : f[k] \in Nat)
    BY <1>1, <1>2
  <1>7. SumFunctionOnSet(f, 0 .. h) \in Nat /\ SumFunctionOnSet(f, 0 .. (h - 1)) \in Nat
    BY <1>5, <1>6, SumNonnegative
  <1> QED
    BY <1>4, <1>7 DEF Prefix, f

LEMMA PrefixMonotone ==
  ASSUME NEW s, Listed(s), NEW i \in Heights, NEW j \in Heights, i <= j
  PROVE  Prefix(s, i) <= Prefix(s, j)
  <1> DEFINE f == ByHeight(s)
             S == 0 .. j
             R == 0 .. i
  <1>1. \A k \in Heights : f[k] \in Nat
    BY ByHeightValues
  <1>2. i \in Nat /\ j \in Nat /\ S \subseteq Heights /\ R \subseteq S
    BY MaxHeightAssumption DEF Heights
  <1>3. IsFiniteSet(S)
    BY <1>2, FS_Interval
  <1> HIDE DEF f, S, R
  <1>4. \A k \in S : f[k] \in Int
    BY <1>1, <1>2
  <1>5. SumFunctionOnSet(f, S) = SumFunctionOnSet(f, R) + SumFunctionOnSet(f, S \ R)
    BY <1>2, <1>3, <1>4, SumSplit
  <1>6. IsFiniteSet(S \ R) /\ IsFiniteSet(R) /\ (\A k \in S \ R : f[k] \in Nat) /\ (\A k \in R : f[k] \in Nat)
    BY <1>1, <1>2, <1>3, FS_Subset
  <1>7. SumFunctionOnSet(f, S \ R) \in Nat /\ SumFunctionOnSet(f, R) \in Nat
    BY <1>6, SumNonnegative
  <1> DEFINE u == SumFunctionOnSet(f, S)
             v == SumFunctionOnSet(f, R)
             w == SumFunctionOnSet(f, S \ R)
  <1>8. u = v + w /\ v \in Nat /\ w \in Nat
    BY <1>5, <1>7
  <1>9. u = Prefix(s, j) /\ v = Prefix(s, i)
    BY DEF Prefix, f, S, R
  <1> HIDE DEF u, v, w
  <1>10. v <= u
    BY <1>8
  <1> QED
    BY <1>9, <1>10

LEMMA PrefixTotal ==
  ASSUME NEW s, Listed(s)
  PROVE  Prefix(s, Len(s)) = Stake(s)
  <1> DEFINE f == ByHeight(s)
             R == 0 .. Len(s)
  <1>1. /\ \A k \in Heights : f[k] \in Nat
        /\ \A k \in Heights : k \notin 1 .. Len(s) => f[k] = 0
        /\ Len(s) \in Heights /\ Len(s) \in Nat
    BY ByHeightValues
  <1>2. R \subseteq Heights /\ \A k \in Heights \ R : k \notin 1 .. Len(s)
    BY <1>1, MaxHeightAssumption DEF Heights
  <1>3. IsFiniteSet(Heights)
    BY MaxHeightAssumption, FS_Interval DEF Heights
  <1> HIDE DEF f, R
  <1>4. \A k \in Heights : f[k] \in Int
    BY <1>1
  <1>5. SumFunctionOnSet(f, Heights) = SumFunctionOnSet(f, R) + SumFunctionOnSet(f, Heights \ R)
    BY <1>2, <1>3, <1>4, SumSplit
  <1>6. IsFiniteSet(Heights \ R) /\ (\A k \in Heights \ R : f[k] = 0)
    BY <1>1, <1>2, <1>3, FS_Subset
  <1>7. SumFunctionOnSet(f, Heights \ R) = 0
    BY <1>6, SumZero
  <1>8. IsFiniteSet(R) /\ \A k \in R : f[k] \in Int
    BY <1>2, <1>3, <1>4, FS_Subset
  <1>9. SumFunctionOnSet(f, R) \in Int
    BY <1>8, SumType
  <1>10. SumFunctionOnSet(f, Heights) = SumFunctionOnSet(f, R)
    BY <1>5, <1>7, <1>9
  <1> QED
    BY <1>10 DEF Prefix, Stake, TotalStake, f, R

(* UnbondFifo in terms of the prefixes. *)
FifoValue(s, a, h) ==
  IF Prefix(s, h) <= a THEN 0
  ELSE IF Prefix(s, h - 1) >= a THEN ByHeight(s)[h]
  ELSE Prefix(s, h) - a

LEMMA FifoByPrefix ==
  ASSUME NEW s, Listed(s), NEW a \in Nat, NEW h \in Heights
  PROVE  UnbondFifo(ByHeight(s), a)[h] = FifoValue(s, a, h)
  <1> DEFINE f == ByHeight(s)
             p == Prefix(s, h - 1)
  <1>1. UnbondFifo(f, a)[h] = IF p + f[h] <= a THEN 0
                              ELSE IF p >= a THEN f[h] ELSE p + f[h] - a
    BY DEF UnbondFifo, Prefix
  <1> DEFINE q == Prefix(s, h)
  <1>2. q = p + f[h] /\ q \in Nat /\ p \in Nat /\ f[h] \in Nat
    BY PrefixStep, ByHeightValues
  <1>3. FifoValue(s, a, h) = IF q <= a THEN 0 ELSE IF p >= a THEN f[h] ELSE q - a
    BY DEF FifoValue
  <1> HIDE DEF f, p, q
  <1>4. UnbondFifo(f, a)[h] = FifoValue(s, a, h)
    BY <1>1, <1>2, <1>3
  <1> QED
    BY <1>4 DEF f

(* The first c entries are withdrawn whole, the next one in part or not at *)
(* all, the others not.                                                    *)
Stopped(s, a, c, l) ==
  /\ Prefix(s, c) <= a
  /\ c < Len(s) => a < Prefix(s, c + 1) /\ l[c + 1] = Prefix(s, c + 1) - a
  /\ \A i \in (c + 2) .. Len(s) : l[i] = s[i]

Unbonded(s, a, c, k) ==
  \A h \in Heights :
    UnbondFifo(ByHeight(s), a)[h] = IF h > c /\ h <= Len(s) THEN k[h - c] ELSE 0

LEMMA FifoResult ==
  ASSUME NEW s, Listed(s), NEW a \in Nat, a <= Stake(s), NEW c \in 0 .. Len(s),
         NEW l \in Seq(Nat), Len(l) = Len(s), Stopped(s, a, c, l)
  PROVE  Unbonded(s, a, c, SubSeq(l, c + 1, Len(l)))
  <1> DEFINE e == Len(s)
             k == SubSeq(l, c + 1, Len(l))
  <1>1. /\ e \in Heights /\ e \in Nat /\ e >= 1 /\ c \in Nat /\ c <= e /\ Len(l) = e
        /\ c \in Heights
    BY ByHeightValues, MaxHeightAssumption DEF Heights
  <1>2. \A i \in 1 .. e - c : k[i] = l[c + i]
    <2>1. \A i \in c + 1 .. e : i \in 1 .. Len(l)
      BY <1>1
    <2>2. \A i \in c + 1 .. e : l[i] \in Nat
      BY <2>1, ElementOfSeq
    <2>3. k = SubSeq(l, c + 1, e) /\ c + 1 \in Int /\ e \in Int
      BY <1>1
    <2>4. \A i \in 1 .. e - (c + 1) + 1 : SubSeq(l, c + 1, e)[i] = l[(c + 1) + i - 1]
      BY <2>2, <2>3, SubSeqProperties
    <2> HIDE DEF k, e
    <2>5. ASSUME NEW i \in 1 .. e - c PROVE k[i] = l[c + i]
      <3>1. i \in 1 .. e - (c + 1) + 1 /\ (c + 1) + i - 1 = c + i
        BY <1>1
      <3> QED
        BY <2>3, <2>4, <3>1
    <2> QED
      BY <2>5
  <1>3. \A h \in Heights : h \in Nat /\ Prefix(s, h) \in Nat /\ Prefix(s, h - 1) \in Nat
                           /\ Prefix(s, h) = Prefix(s, h - 1) + ByHeight(s)[h]
    BY PrefixStep DEF Heights
  <1>4. Prefix(s, c) <= a /\ a <= Prefix(s, e)
    BY PrefixTotal DEF Stopped
  <1> HIDE DEF k, e
  <1> SUFFICES ASSUME NEW h \in Heights
               PROVE  FifoValue(s, a, h) = IF h > c /\ h <= e THEN k[h - c] ELSE 0
    BY FifoByPrefix DEF Unbonded, e, k
  <1>5. h \in Nat /\ Prefix(s, h) \in Nat /\ Prefix(s, h - 1) \in Nat
    BY <1>3
  <1>6. CASE h <= c
    <2>1. Prefix(s, h) <= Prefix(s, c) /\ Prefix(s, c) \in Nat
      BY <1>1, <1>3, <1>6, PrefixMonotone
    <2>2. Prefix(s, h) <= a
      BY <1>4, <1>5, <2>1
    <2>3. ~(h > c)
      BY <1>1, <1>5, <1>6
    <2> QED
      BY <2>2, <2>3, Zenon DEF FifoValue
  <1>7. CASE h = c + 1 /\ h <= e
    <2>1. c < e /\ h - 1 = c /\ h > c /\ h - c = 1 /\ 1 \in 1 .. e - c
      BY <1>1, <1>7
    <2>2. a < Prefix(s, h) /\ l[h] = Prefix(s, h) - a
      BY <1>7, <2>1 DEF Stopped, e
    <2>3. k[h - c] = l[h]
      BY <1>2, <1>7, <2>1
    <2>4. FifoValue(s, a, h) = Prefix(s, h) - a
      <3>1. CASE Prefix(s, c) >= a
        <4>1. Prefix(s, c) = a
          BY <1>1, <1>3, <1>4, <3>1
        <4>2. Prefix(s, h) = a + ByHeight(s)[h] /\ ByHeight(s)[h] \in Nat
          BY <1>3, <2>1, <4>1, ByHeightValues
        <4>3. ~(Prefix(s, h) <= a) /\ Prefix(s, h) - a = ByHeight(s)[h]
          BY <1>5, <2>2, <4>2
        <4> QED
          BY <2>1, <3>1, <4>3, Zenon DEF FifoValue
      <3>2. CASE ~(Prefix(s, c) >= a)
        <4>1. ~(Prefix(s, h) <= a)
          BY <1>5, <2>2
        <4> QED
          BY <2>1, <3>2, <4>1, Zenon DEF FifoValue
      <3> QED
        BY <3>1, <3>2
    <2> QED
      BY <1>7, <2>1, <2>2, <2>3, <2>4
  <1>8. CASE h >= c + 2 /\ h <= e
    <2>1. /\ c + 1 \in Heights /\ h - 1 \in Heights /\ c + 1 <= h - 1 /\ c < e
          /\ h > c /\ h - c \in 1 .. e - c /\ c + (h - c) = h /\ h \in 1 .. e
          /\ h \in (c + 2) .. e
      BY <1>1, <1>5, <1>8, MaxHeightAssumption DEF Heights
    <2>2. a < Prefix(s, c + 1) /\ l[h] = s[h]
      BY <2>1 DEF Stopped, e
    <2>3. k[h - c] = s[h]
      BY <1>2, <2>1, <2>2
    <2>4. ByHeight(s)[h] = s[h] /\ s[h] \in Nat \ {0}
      BY <2>1, ByHeightValues DEF e
    <2>5. Prefix(s, c + 1) <= Prefix(s, h - 1) /\ Prefix(s, c + 1) \in Nat
      BY <1>3, <2>1, PrefixMonotone
    <2>6. Prefix(s, h - 1) >= a /\ ~(Prefix(s, h) <= a)
      <3>1. Prefix(s, h) = Prefix(s, h - 1) + s[h]
        BY <1>3, <2>4
      <3> QED
        BY <1>5, <2>2, <2>4, <2>5, <3>1
    <2>7. FifoValue(s, a, h) = s[h]
      BY <2>4, <2>6, Zenon DEF FifoValue
    <2> QED
      BY <1>8, <2>1, <2>3, <2>7
  <1>9. CASE h > e
    <2>1. h \notin 1 .. e /\ h - 1 \in Heights /\ e <= h - 1 /\ ~(h <= e)
      BY <1>1, <1>5, <1>9, MaxHeightAssumption DEF Heights
    <2>2. ByHeight(s)[h] = 0
      BY <2>1, ByHeightValues DEF e
    <2>3. Prefix(s, e) <= Prefix(s, h - 1) /\ Prefix(s, e) \in Nat
      BY <1>1, <1>3, <2>1, PrefixMonotone
    <2>4. Prefix(s, h - 1) >= a
      BY <1>4, <1>5, <2>3
    <2>5. FifoValue(s, a, h) = 0
      BY <2>2, <2>4, Zenon DEF FifoValue
    <2> QED
      BY <2>1, <2>5, Zenon
  <1> QED
    BY <1>1, <1>5, <1>6, <1>7, <1>8, <1>9

(* unbond_fifo while it runs: the entries are as they were and the first c *)
(* of them and the rest r make up the amount, or one entry was split and   *)
(* nothing is left to withdraw.                                            *)
FifoState(s, a, l, r, c) ==
  /\ Listed(s) /\ a \in Nat /\ a <= Stake(s)
  /\ c \in 0 .. Len(s) /\ r \in Nat
  /\ l \in Seq(Nat) /\ Len(l) = Len(s)
  /\ (l = s /\ Prefix(s, c) + r = a) \/ (r = 0 /\ Stopped(s, a, c, l))

FifoInv ==
  /\ loop \notin {"fifo", "done"} => before = <<>>
  /\ loop = "fifo" => FifoState(before, amount, list, remaining, consumed)
  /\ loop = "done" /\ before # <<>> =>
       remaining = 0 /\ Unbonded(before, amount, consumed, list)

LEMMA FifoStart ==
  ASSUME NEW s \in EntryLists, NEW a \in Requests(s)
  PROVE  FifoState(s, a, s, a, 0)
  <1>1. Listed(s)
    BY ListedAre
  <1>2. s \in Seq(Nat) /\ Len(s) \in Nat /\ 0 \in 0 .. Len(s)
    <2>1. s \in Seq(Nat \ {0})
      BY <1>1 DEF Listed
    <2> QED
      BY <2>1
  <1>3. 0 \in Heights /\ 0 \notin 1 .. Len(s)
    BY MaxHeightAssumption DEF Heights
  <1>4. Prefix(s, 0) = 0
    <2>1. Prefix(s, 0) = Prefix(s, 0 - 1) + ByHeight(s)[0] /\ Prefix(s, 0 - 1) \in Nat
      BY <1>1, <1>3, PrefixStep
    <2>2. ByHeight(s)[0] = 0
      BY <1>1, <1>3, ByHeightValues
    <2>3. Prefix(s, 0 - 1) = 0
      <3>1. 0 .. (0 - 1) = {}
        OBVIOUS
      <3> QED
        BY <3>1, SumEmpty, Zenon DEF Prefix
    <2> QED
      BY <2>1, <2>2, <2>3
  <1>5. Stake(s) \in Nat
    <2>1. Len(s) \in Heights
      BY <1>1, ByHeightValues
    <2>2. Prefix(s, Len(s)) \in Nat
      BY <1>1, <2>1, PrefixStep
    <2> QED
      BY <1>1, <2>2, PrefixTotal
  <1>6. a \in Nat /\ a <= Stake(s)
    BY <1>5 DEF Requests
  <1>7. Prefix(s, 0) + a = a
    BY <1>4, <1>6
  <1> QED
    BY <1>1, <1>2, <1>6, <1>7 DEF FifoState

(* While something is left to withdraw there is an entry to take it from,  *)
(* and no entry has been split.                                            *)
LEMMA FifoInBounds ==
  ASSUME NEW s, NEW a, NEW l, NEW r, NEW c, FifoState(s, a, l, r, c), r > 0
  PROVE  /\ l = s /\ Prefix(s, c) + r = a
         /\ c \in Nat /\ r \in Nat /\ Len(s) \in Nat /\ c < Len(s)
         /\ c + 1 \in 1 .. Len(s) /\ s[c + 1] \in Nat /\ s[c + 1] # 0
         /\ Prefix(s, c) \in Nat /\ Prefix(s, c + 1) = Prefix(s, c) + s[c + 1]
         /\ Prefix(s, c + 1) \in Nat
  <1>1. /\ Listed(s) /\ a \in Nat /\ a <= Stake(s) /\ c \in 0 .. Len(s) /\ r \in Nat
        /\ l = s /\ Prefix(s, c) + r = a
    BY DEF FifoState
  <1>2. Len(s) \in Nat /\ Len(s) \in Heights /\ Stake(s) = Prefix(s, Len(s))
    BY <1>1, ByHeightValues, PrefixTotal
  <1>3. c \in Heights /\ c \in Nat /\ c <= Len(s)
    BY <1>1, <1>2, MaxHeightAssumption DEF Heights
  <1>4. Prefix(s, c) \in Nat
    BY <1>1, <1>3, PrefixStep
  <1>5. c # Len(s)
    <2> SUFFICES ASSUME c = Len(s) PROVE FALSE
      OBVIOUS
    <2>1. Prefix(s, c) + r <= Prefix(s, c)
      BY <1>1, <1>2
    <2> QED
      BY <1>1, <1>4, <2>1
  <1>6. c < Len(s) /\ c + 1 \in 1 .. Len(s) /\ (c + 1) - 1 = c
    BY <1>2, <1>3, <1>5
  <1>7. c + 1 \in Heights /\ ByHeight(s)[c + 1] = s[c + 1] /\ s[c + 1] \in Nat \ {0}
    BY <1>1, <1>6, ByHeightValues
  <1>8. Prefix(s, c + 1) = Prefix(s, (c + 1) - 1) + ByHeight(s)[c + 1] /\ Prefix(s, c + 1) \in Nat
    BY <1>1, <1>7, PrefixStep
  <1> QED
    BY <1>1, <1>2, <1>3, <1>4, <1>6, <1>7, <1>8

LEMMA FifoConsume ==
  ASSUME NEW s, NEW a, NEW l, NEW r, NEW c, FifoState(s, a, l, r, c), r > 0,
         l[c + 1] <= r
  PROVE  FifoState(s, a, l, r - l[c + 1], c + 1)
  <1> DEFINE v == s[c + 1]
  <1>1. /\ l = s /\ Prefix(s, c) + r = a
        /\ c \in Nat /\ r \in Nat /\ Len(s) \in Nat /\ c < Len(s)
        /\ v \in Nat
        /\ Prefix(s, c) \in Nat /\ Prefix(s, c + 1) = Prefix(s, c) + v
    BY FifoInBounds
  <1>2. v <= r /\ l[c + 1] = v
    BY <1>1
  <1> HIDE DEF v
  <1>3. r - v \in Nat /\ c + 1 \in 0 .. Len(s) /\ Prefix(s, c + 1) + (r - v) = a
    BY <1>1, <1>2
  <1>4. /\ Listed(s) /\ a \in Nat /\ a <= Stake(s)
        /\ l \in Seq(Nat) /\ Len(l) = Len(s)
    BY DEF FifoState
  <1>5. FifoState(s, a, l, r - v, c + 1)
    BY <1>1, <1>3, <1>4 DEF FifoState
  <1> QED
    BY <1>2, <1>5

LEMMA FifoSplit ==
  ASSUME NEW s, NEW a, NEW l, NEW r, NEW c, FifoState(s, a, l, r, c), r > 0,
         l[c + 1] > r
  PROVE  FifoState(s, a, [l EXCEPT ![c + 1] = @ - r], 0, c)
  <1> DEFINE v == s[c + 1]
             m == [l EXCEPT ![c + 1] = @ - r]
  <1>1. /\ l = s /\ Prefix(s, c) + r = a
        /\ c \in Nat /\ r \in Nat /\ Len(s) \in Nat /\ c < Len(s)
        /\ v \in Nat /\ c + 1 \in 1 .. Len(s)
        /\ Prefix(s, c) \in Nat /\ Prefix(s, c + 1) = Prefix(s, c) + v
        /\ Prefix(s, c + 1) \in Nat
    BY FifoInBounds
  <1>2. /\ Listed(s) /\ a \in Nat /\ a <= Stake(s) /\ c \in 0 .. Len(s)
        /\ l \in Seq(Nat) /\ Len(l) = Len(s)
    BY DEF FifoState
  <1>3. v > r /\ l[c + 1] = v
    BY <1>1
  <1>4. v - r \in Nat
    <2> HIDE DEF v
    <2> QED
      BY <1>1, <1>3
  <1>5. l \in [1 .. Len(s) -> Nat]
    BY <1>2
  <1>6. /\ m \in [1 .. Len(s) -> Nat] /\ m[c + 1] = v - r
        /\ \A i \in 1 .. Len(s) : i # c + 1 => m[i] = s[i]
    BY <1>1, <1>4, <1>5
  <1> HIDE DEF m, v
  <1>7. m \in Seq(Nat) /\ Len(m) = Len(s)
    <2> DEFINE e == Len(s)
    <2>1. e \in Nat /\ m \in [1 .. e -> Nat]
      BY <1>1, <1>6
    <2> HIDE DEF e
    <2>2. m \in Seq(Nat) /\ Len(m) = e
      BY <2>1
    <2> QED
      BY <2>2 DEF e
  <1>8. Stopped(s, a, c, m)
    <2>1. Prefix(s, c) <= a /\ a < Prefix(s, c + 1) /\ v - r = Prefix(s, c + 1) - a
      BY <1>1, <1>3
    <2>2. \A i \in (c + 2) .. Len(s) : i \in 1 .. Len(s) /\ i # c + 1
      BY <1>1
    <2> QED
      BY <1>6, <2>1, <2>2 DEF Stopped
  <1>9. FifoState(s, a, m, 0, c)
    BY <1>2, <1>7, <1>8 DEF FifoState
  <1> QED
    BY <1>9 DEF m

LEMMA FifoDrain ==
  ASSUME NEW s, NEW a, NEW l, NEW c, FifoState(s, a, l, 0, c)
  PROVE  Unbonded(s, a, c, SubSeq(l, c + 1, Len(l)))
  <1>1. /\ Listed(s) /\ a \in Nat /\ a <= Stake(s) /\ c \in 0 .. Len(s)
        /\ l \in Seq(Nat) /\ Len(l) = Len(s)
    BY DEF FifoState
  <1>2. CASE Stopped(s, a, c, l)
    BY <1>1, <1>2, FifoResult
  <1>3. CASE l = s /\ Prefix(s, c) + 0 = a
    <2>1. Len(s) \in Nat /\ Len(s) \in Heights
      BY <1>1, ByHeightValues
    <2>2. c \in Heights /\ c \in Nat
      BY <1>1, <2>1, MaxHeightAssumption DEF Heights
    <2>3. Prefix(s, c) \in Nat
      BY <1>1, <2>2, PrefixStep
    <2>4. Prefix(s, c) = a
      BY <1>3, <2>3
    <2>5. ASSUME c < Len(s) PROVE a < Prefix(s, c + 1) /\ l[c + 1] = Prefix(s, c + 1) - a
      <3>1. c + 1 \in 1 .. Len(s) /\ (c + 1) - 1 = c
        BY <2>1, <2>2, <2>5
      <3>2. c + 1 \in Heights /\ ByHeight(s)[c + 1] = s[c + 1] /\ s[c + 1] \in Nat \ {0}
        BY <1>1, <3>1, ByHeightValues
      <3>3. Prefix(s, c + 1) = Prefix(s, (c + 1) - 1) + ByHeight(s)[c + 1]
        BY <1>1, <3>2, PrefixStep
      <3> DEFINE v == s[c + 1]
      <3>4. Prefix(s, c + 1) = a + v /\ v \in Nat /\ v # 0 /\ l[c + 1] = v
        BY <1>3, <2>4, <3>1, <3>2, <3>3
      <3> HIDE DEF v
      <3> QED
        BY <1>1, <3>4
    <2>6. Prefix(s, c) <= a
      BY <1>1, <2>4
    <2>7. Stopped(s, a, c, l)
      BY <1>3, <2>5, <2>6 DEF Stopped
    <2> QED
      BY <1>1, <2>7, FifoResult
  <1> QED
    BY <1>2, <1>3 DEF FifoState

LEMMA InitFifoInv == Init => FifoInv
  <1> SUFFICES ASSUME Init PROVE FifoInv
    OBVIOUS
  <1>1. CASE InitFifo
    <2>1. /\ loop = "fifo" /\ before \in EntryLists /\ amount \in Requests(before)
          /\ list = before /\ remaining = amount /\ consumed = 0
      BY <1>1 DEF InitFifo
    <2>2. FifoState(before, amount, list, remaining, consumed)
      BY <2>1, FifoStart
    <2> QED
      BY <2>1, <2>2 DEF FifoInv
  <1>2. CASE InitSearch \/ InitNewton \/ InitChain
    BY <1>2 DEF InitSearch, InitNewton, InitChain, NoFifo, FifoInv
  <1> QED
    BY <1>1, <1>2 DEF Init

LEMMA NextFifo == FifoInv /\ [Next]_vars => FifoInv'
  <1> SUFFICES ASSUME FifoInv, [Next]_vars PROVE FifoInv'
    OBVIOUS
  <1>1. ASSUME UNCHANGED fifoVars, loop' = loop \/ (loop \notin {"fifo", "done"} /\ loop' = "done")
        PROVE  FifoInv'
    <2>1. /\ before' = before /\ amount' = amount /\ list' = list
          /\ remaining' = remaining /\ consumed' = consumed
      BY <1>1 DEF fifoVars
    <2>2. CASE loop' = loop
      BY <2>1, <2>2 DEF FifoInv, FifoState, Unbonded, Stopped
    <2>3. CASE loop \notin {"fifo", "done"} /\ loop' = "done"
      BY <2>1, <2>3 DEF FifoInv
    <2> QED
      BY <1>1, <2>2, <2>3
  <1>2. CASE SearchStep \/ NewtonStep \/ EndChain \/ UNCHANGED vars
    BY <1>1, <1>2 DEF SearchStep, NewtonStep, EndChain, vars
  <1>3. CASE ReturnRoot
    BY <1>1, <1>3 DEF ReturnRoot
  <1>4. ASSUME NEW delta \in Deltas, AddBlock(delta) PROVE FifoInv'
    BY <1>1, <1>4 DEF AddBlock
  <1>5. CASE Consume
    <2>1. /\ loop = "fifo" /\ loop' = "fifo" /\ remaining > 0 /\ list[consumed + 1] <= remaining
          /\ remaining' = remaining - list[consumed + 1] /\ consumed' = consumed + 1
          /\ before' = before /\ amount' = amount /\ list' = list
      BY <1>5 DEF Consume
    <2>2. FifoState(before, amount, list, remaining, consumed)
      BY <2>1 DEF FifoInv
    <2>3. FifoState(before, amount, list, remaining - list[consumed + 1], consumed + 1)
      BY <2>1, <2>2, FifoConsume, Zenon
    <2>4. FifoState(before', amount', list', remaining', consumed')
      BY <2>1, <2>3, Zenon
    <2> QED
      BY <2>1, <2>4 DEF FifoInv
  <1>6. CASE Split
    <2>1. /\ loop = "fifo" /\ loop' = "fifo" /\ remaining > 0 /\ list[consumed + 1] > remaining
          /\ list' = [list EXCEPT ![consumed + 1] = @ - remaining] /\ remaining' = 0
          /\ before' = before /\ amount' = amount /\ consumed' = consumed
      BY <1>6 DEF Split
    <2>2. FifoState(before, amount, list, remaining, consumed)
      BY <2>1 DEF FifoInv
    <2>3. FifoState(before, amount, [list EXCEPT ![consumed + 1] = @ - remaining], 0, consumed)
      BY <2>1, <2>2, FifoSplit, Zenon
    <2>4. FifoState(before', amount', list', remaining', consumed')
      BY <2>1, <2>3, Zenon
    <2> QED
      BY <2>1, <2>4 DEF FifoInv
  <1>7. CASE Drain
    <2>1. /\ loop = "fifo" /\ loop' = "done" /\ remaining = 0 /\ remaining' = 0
          /\ list' = SubSeq(list, consumed + 1, Len(list))
          /\ before' = before /\ amount' = amount /\ consumed' = consumed
      BY <1>7 DEF Drain
    <2>2. FifoState(before, amount, list, 0, consumed)
      BY <2>1 DEF FifoInv
    <2>3. Unbonded(before, amount, consumed, SubSeq(list, consumed + 1, Len(list)))
      BY <2>2, FifoDrain
    <2>4. Unbonded(before', amount', consumed', list')
      BY <2>1, <2>3, Zenon
    <2> QED
      BY <2>1, <2>4 DEF FifoInv
  <1> QED
    BY <1>2, <1>3, <1>4, <1>5, <1>6, <1>7 DEF Next, Step, Done

---------------------------------------------------------------------------
(* The binary search and the Newton iteration return the root rounded down *)
(* in words of every even width, though their sums wrap and their squares  *)
(* saturate; unbond_fifo never runs past its entries and leaves exactly    *)
(* what UnbondFifo says, for every list of entries and amount.             *)
THEOREM ExactTheorem == Spec => []LoopsExact
  <1> DEFINE Inv == RootInv /\ FifoInv
  <1>1. Init => Inv
    BY InitRoot, InitFifoInv
  <1>2. Inv /\ [Next]_vars => Inv'
    BY NextRoot, NextFifo
  <1>3. Inv => LoopsExact
    <2> SUFFICES ASSUME Inv PROVE LoopsExact
      OBVIOUS
    <2>1. loop = "done" => result = ISqrtFloor(n)
      BY RootIsFloor DEF RootInv
    <2>2. loop = "fifo" /\ remaining > 0 => InBounds
      <3> SUFFICES ASSUME loop = "fifo", remaining > 0 PROVE InBounds
        OBVIOUS
      <3>1. FifoState(before, amount, list, remaining, consumed)
        BY DEF FifoInv
      <3>2. list = before /\ consumed < Len(before)
        BY <3>1, FifoInBounds
      <3> QED
        BY <3>2 DEF InBounds
    <2>3. loop = "done" /\ before # <<>> =>
            remaining = 0 /\ Unbonded(before, amount, consumed, list)
      BY DEF FifoInv
    <2> QED
      BY <2>1, <2>2, <2>3, Zenon DEF LoopsExact, Unbonded
  <1> HIDE DEF Inv
  <1> QED
    BY <1>1, <1>2, <1>3, PTL DEF Spec
=============================================================================
