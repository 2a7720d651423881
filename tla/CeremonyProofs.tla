--------------------------- MODULE CeremonyProofs ---------------------------
(***************************************************************************)
(* What a node runs on was confirmed, and a database keeps its genesis,    *)
(* for every set of sources, figures and nodes and every number of         *)
(* ceremonies and edits.                                                   *)
(***************************************************************************)
EXTENDS Ceremony, SumTheorems

(* A file is a record of these four fields. *)
IsFile(f) == DOMAIN f = {"whole", "content", "hash", "sig"}

Shapes ==
  /\ DOMAIN files = {"keyFile", "attestation"}
  /\ \A f \in files.attestation : IsFile(f)
  /\ genesis = [n \in Nodes |-> genesis[n]]
  /\ stored = [n \in Nodes |-> stored[n]]

(* A signature can only be over something confirmed: edits leave it alone, *)
(* and a ceremony begins, and forgets what was confirmed, only where no    *)
(* file has been written and so no node has started.                       *)
SignedWasConfirmed ==
  /\ phase = "write" => draft \subseteq confirmed
  /\ \A f \in files.attestation : f.sig.hash \in confirmed
  /\ files.attestation = {} => \A n \in Nodes : genesis[n] = {}
  /\ Foreign \in confirmed

(* A node with a block in its database runs on that genesis or not at all. *)
RunsOnStored ==
  \A n \in Nodes : stored[n] # {} => {g.content : g \in genesis[n]} \subseteq stored[n]

IInv == Shapes /\ SignedWasConfirmed /\ LoadedWasConfirmed /\ RunsOnStored

---------------------------------------------------------------------------

LEMMA SignedIsFile ==
  ASSUME NEW a
  PROVE  IsFile(Signed(a)) /\ Signed(a).sig.hash = a
  BY DEF IsFile, Signed

LEMMA TornIsFile ==
  ASSUME NEW a
  PROVE  /\ IsFile([Signed(a) EXCEPT !.whole = FALSE])
         /\ [Signed(a) EXCEPT !.whole = FALSE].sig.hash = a
  <1>1. ASSUME NEW f, IsFile(f), NEW v
        PROVE  IsFile([f EXCEPT !.whole = v]) /\ [f EXCEPT !.whole = v].sig = f.sig
    BY <1>1 DEF IsFile
  <1> QED
    BY <1>1, SignedIsFile

(* What a node accepts was signed as it is. *)
LEMMA AcceptedIsSigned ==
  ASSUME NEW f, NEW allowDry \in BOOLEAN, Accepts(f, allowDry)
  PROVE  f.sig.hash = f.content /\ (f.content.key = "dry" => allowDry)
  BY DEF Accepts

(* The tool's steps leave nodes and signatures alone, save for a new file. *)
LEMMA FilesKept ==
  ASSUME IInv, UNCHANGED <<files, genesis, stored>>, confirmed \subseteq confirmed',
         phase' = "write" => draft' \subseteq confirmed'
  PROVE  IInv'
  BY DEF IInv, Shapes, IsFile, SignedWasConfirmed, LoadedWasConfirmed, RunsOnStored

LEMMA FileWritten ==
  ASSUME IInv, NEW f, IsFile(f), f.sig.hash \in confirmed,
         files' = [files EXCEPT !.attestation = {f}],
         UNCHANGED <<genesis, stored, confirmed>>,
         phase' = "write" => draft' \subseteq confirmed'
  PROVE  IInv'
  <1>1. files'.attestation = {f} /\ DOMAIN files' = {"keyFile", "attestation"}
    BY DEF IInv, Shapes
  <1>2. Shapes'
    BY <1>1 DEF IInv, Shapes, IsFile
  <1>3. SignedWasConfirmed'
    BY <1>1 DEF IInv, SignedWasConfirmed
  <1>4. LoadedWasConfirmed' /\ RunsOnStored'
    BY DEF IInv, LoadedWasConfirmed, RunsOnStored
  <1> QED
    BY <1>2, <1>3, <1>4 DEF IInv

LEMMA BeginKeeps ==
  ASSUME IInv, NEW m, NEW k, Begin(m, k)
  PROVE  IInv'
  <1>0. /\ files.attestation = {}
        /\ confirmed' = {Foreign}
        /\ UNCHANGED <<genesis, stored>>
    BY DEF Begin
  <1>1. phase' # "write"
    BY DEF Begin, Idle
  <1>2. files'.attestation = {} /\ DOMAIN files' = {"keyFile", "attestation"}
    <2>1. UNCHANGED files \/ files' = [files EXCEPT !.keyFile = @ \/ k = "generated"]
      BY DEF Begin
    <2> QED
      BY <1>0, <2>1 DEF IInv, Shapes
  <1>3. \A n \in Nodes : genesis'[n] = {}
    BY <1>0 DEF IInv, SignedWasConfirmed
  <1>4. Shapes'
    BY <1>0, <1>2 DEF IInv, Shapes
  <1>5. SignedWasConfirmed'
    BY <1>0, <1>1, <1>2, <1>3 DEF SignedWasConfirmed
  <1>6. LoadedWasConfirmed' /\ RunsOnStored'
    BY <1>3 DEF LoadedWasConfirmed, RunsOnStored
  <1> QED
    BY <1>4, <1>5, <1>6 DEF IInv

LEMMA StartKeeps ==
  ASSUME IInv, NEW n \in Nodes, NEW allowDry \in BOOLEAN, StartNode(n, allowDry)
  PROVE  IInv'
  <1>0. PICK f \in files.attestation :
          /\ Accepts(f, allowDry) /\ Opens(n, f.content)
          /\ genesis' = [genesis EXCEPT ![n] =
               {[content |-> f.content, dry |-> allowDry /\ f.content.key = "dry"]}]
    BY DEF StartNode
  <1>1. UNCHANGED <<toolVars, files, stored, confirmed>>
    BY DEF StartNode
  <1>2. f.content \in confirmed /\ (f.content.key = "dry" => allowDry)
    BY <1>0, AcceptedIsSigned DEF IInv, SignedWasConfirmed
  <1>3. Shapes'
    BY <1>0, <1>1 DEF IInv, Shapes, IsFile
  <1>4. SignedWasConfirmed'
    BY <1>0, <1>1 DEF IInv, SignedWasConfirmed, toolVars
  <1>5. LoadedWasConfirmed'
    BY <1>0, <1>1, <1>2 DEF IInv, Shapes, LoadedWasConfirmed
  <1>6. RunsOnStored'
    BY <1>0, <1>1 DEF IInv, Shapes, RunsOnStored, Opens
  <1> QED
    BY <1>3, <1>4, <1>5, <1>6 DEF IInv

LEMMA EditKeeps ==
  ASSUME IInv, NEW rehash \in BOOLEAN, Edit(rehash)
  PROVE  IInv'
  <1>f. PICK f \in files.attestation : \E b \in Edited(f.content) :
          files' = [files EXCEPT !.attestation =
                      {[f EXCEPT !.content = b, !.hash = IF rehash THEN b ELSE @]}]
    BY DEF Edit
  <1>0. PICK a \in Edited(f.content) :
          files' = [files EXCEPT !.attestation =
                      {[f EXCEPT !.content = a, !.hash = IF rehash THEN a ELSE @]}]
    BY <1>f
  <1> DEFINE e == [f EXCEPT !.content = a, !.hash = IF rehash THEN a ELSE @]
  <1>1. IsFile(f) /\ f.sig.hash \in confirmed
    BY DEF IInv, Shapes, SignedWasConfirmed
  <1>2. IsFile(e) /\ e.sig = f.sig
    BY <1>1 DEF IsFile
  <1>3. e.sig.hash \in confirmed
    BY <1>1, <1>2
  <1>4. /\ UNCHANGED <<genesis, stored, confirmed>>
        /\ phase' = "write" => draft' \subseteq confirmed'
    BY DEF Edit, toolVars, IInv, SignedWasConfirmed
  <1>5. files' = [files EXCEPT !.attestation = {e}]
    BY <1>0
  <1> HIDE DEF e
  <1> QED
    BY <1>2, <1>3, <1>4, <1>5, FileWritten

LEMMA InitInv == Init => IInv
  BY DEF Init, IInv, Shapes, SignedWasConfirmed, LoadedWasConfirmed, RunsOnStored

LEMMA StepInv == IInv /\ [Next]_vars => IInv'
  <1> SUFFICES ASSUME IInv, [Next]_vars PROVE IInv'
    OBVIOUS
  <1>1. ASSUME NEW m, NEW k, Begin(m, k) PROVE IInv'
    BY <1>1, BeginKeeps
  <1>2. ASSUME NEW r, NEW d, CollectProduction(r, d) \/ CollectPrices(r, d) PROVE IInv'
    <2>1. phase' # "write" /\ UNCHANGED <<files, genesis, stored, confirmed>>
      BY <1>2 DEF CollectProduction, CollectPrices, Idle
    <2> QED
      BY <2>1, FilesKept
  <1>3. CASE WindowExceeded \/ Decline \/ WriteRest
    <2>1. phase' # "write" /\ UNCHANGED <<files, genesis, stored, confirmed>>
      BY <1>3 DEF WindowExceeded, Decline, WriteRest, Idle
    <2> QED
      BY <2>1, FilesKept
  <1>4. CASE Confirm
    BY <1>4, FilesKept DEF Confirm
  <1>5. CASE WriteAttestation
    <2>1. PICK a \in draft : files' = [files EXCEPT !.attestation = {Signed(a)}]
      BY <1>5 DEF WriteAttestation
    <2>2. a \in confirmed
      BY <1>5 DEF WriteAttestation, IInv, SignedWasConfirmed
    <2>3. phase' # "write" /\ UNCHANGED <<genesis, stored, confirmed>>
      BY <1>5 DEF WriteAttestation
    <2>4. IsFile(Signed(a)) /\ Signed(a).sig.hash \in confirmed
      BY <2>2, SignedIsFile
    <2> QED
      BY <2>1, <2>3, <2>4, FileWritten
  <1>6. CASE Crash
    <2>1. phase' # "write" /\ UNCHANGED <<genesis, stored, confirmed>>
      BY <1>6 DEF Crash, Idle
    <2>2. CASE UNCHANGED files
      BY <2>1, <2>2, FilesKept
    <2>3. ASSUME phase = "write", NEW a \in draft,
                 files' = [files EXCEPT !.attestation = {[Signed(a) EXCEPT !.whole = FALSE]}]
          PROVE  IInv'
      <3>1. a \in confirmed
        BY <2>3 DEF IInv, SignedWasConfirmed
      <3>2. /\ IsFile([Signed(a) EXCEPT !.whole = FALSE])
            /\ [Signed(a) EXCEPT !.whole = FALSE].sig.hash \in confirmed
        BY <3>1, TornIsFile
      <3> QED
        BY <2>1, <2>3, <3>2, FileWritten
    <2> QED
      BY <1>6, <2>2, <2>3 DEF Crash
  <1>7. ASSUME NEW n \in Nodes, NEW allowDry \in BOOLEAN, StartNode(n, allowDry) PROVE IInv'
    BY <1>7, StartKeeps
  <1>8. ASSUME NEW n \in Nodes, StopNode(n) PROVE IInv'
    BY <1>8 DEF StopNode, toolVars, IInv, Shapes, IsFile, SignedWasConfirmed,
       LoadedWasConfirmed, RunsOnStored
  <1>9. ASSUME NEW n \in Nodes, FirstBlock(n) PROVE IInv'
    BY <1>9 DEF FirstBlock, toolVars, IInv, Shapes, IsFile, SignedWasConfirmed,
       LoadedWasConfirmed, RunsOnStored
  <1>10. ASSUME NEW rehash \in BOOLEAN, Edit(rehash) PROVE IInv'
    BY <1>10, EditKeeps
  <1>11. CASE Replace
    <2>1. Foreign \in confirmed
      BY DEF IInv, SignedWasConfirmed
    <2>2. IsFile(Signed(Foreign)) /\ Signed(Foreign).sig.hash \in confirmed
      BY <2>1, SignedIsFile
    <2>3. /\ files' = [files EXCEPT !.attestation = {Signed(Foreign)}]
          /\ UNCHANGED <<genesis, stored, confirmed>>
          /\ phase' # "write"
      BY <1>11 DEF Replace, toolVars
    <2> QED
      BY <2>2, <2>3, FileWritten
  <1>12. CASE UNCHANGED vars
    <2>1. /\ UNCHANGED <<files, genesis, stored, confirmed>>
          /\ phase' = "write" => draft' \subseteq confirmed'
      BY <1>12 DEF vars, toolVars, IInv, SignedWasConfirmed
    <2> QED
      BY <2>1, FilesKept
  <1> QED
    BY <1>1, <1>2, <1>3, <1>4, <1>5, <1>6, <1>7, <1>8, <1>9, <1>10, <1>11, <1>12 DEF Next

LEMMA IInvHolds == Spec => []IInv
  BY InitInv, StepInv, PTL DEF Spec

(* A node runs on what an operator confirmed, whatever is done to the file *)
(* between its signing and load_genesis_config_from_attestation.           *)
THEOREM ConfirmedTheorem == Spec => []LoadedWasConfirmed
  BY IInvHolds, PTL DEF IInv

(* A database with a block keeps its genesis, and its node never runs on   *)
(* another one.                                                            *)
THEOREM PinnedTheorem == Spec => GenesisPinned
  <1>1. ASSUME IInv, IInv', [Next]_vars, NEW n \in Nodes, stored[n] # {}
        PROVE  stored'[n] = stored[n] /\ {g.content : g \in genesis'[n]} \subseteq stored[n]
    <2>1. stored'[n] = stored[n]
      BY <1>1 DEF Next, Begin, CollectProduction, WindowExceeded, CollectPrices, Confirm,
         Decline, WriteAttestation, WriteRest, Crash, StartNode, StopNode, FirstBlock, Edit,
         Replace, vars, IInv, Shapes
    <2> QED
      BY <1>1, <2>1 DEF IInv, RunsOnStored
  <1>2. IInv /\ IInv' /\ [Next]_vars =>
          [\A n \in Nodes : stored[n] # {} =>
             /\ stored'[n] = stored[n]
             /\ {g.content : g \in genesis'[n]} \subseteq stored[n]]_vars
    BY <1>1
  <1> QED
    BY <1>2, IInvHolds, PTL DEF Spec, GenesisPinned

---------------------------------------------------------------------------
(* The median. *)

AtMost(r, v) == {s \in Used(r) : r[s].value <= v}

Below(r, v) == {s \in Used(r) : r[s].value < v}

(* The sources are finitely many and their figures are in lo .. hi. *)
Bounded(r, lo, hi) ==
  /\ IsFiniteSet(Used(r)) /\ lo \in Nat /\ hi \in Nat
  /\ \A s \in Used(r) : r[s].value \in lo .. hi

LEMMA CountTypes ==
  ASSUME NEW r, NEW lo, NEW hi, Bounded(r, lo, hi), NEW v
  PROVE  /\ IsFiniteSet(AtMost(r, v)) /\ Cardinality(AtMost(r, v)) \in Nat
         /\ IsFiniteSet(Below(r, v)) /\ Cardinality(Below(r, v)) \in Nat
         /\ Cardinality(Used(r)) \in Nat
  <1>1. AtMost(r, v) \in SUBSET Used(r) /\ Below(r, v) \in SUBSET Used(r) /\ IsFiniteSet(Used(r))
    BY DEF AtMost, Below, Bounded
  <1> QED
    BY <1>1, FS_Subset, FS_CardinalityType

(* Kth is the k-th smallest figure: there is one. *)
LEMMA KthExists ==
  ASSUME NEW r, NEW lo, NEW hi, Bounded(r, lo, hi), NEW k \in 1 .. Cardinality(Used(r))
  PROVE  /\ Kth(r, k) \in {r[s].value : s \in Used(r)}
         /\ Cardinality(AtMost(r, Kth(r, k))) >= k
         /\ Cardinality(Below(r, Kth(r, k))) < k
  <1> DEFINE T == {v \in Nat : Cardinality(AtMost(r, v)) >= k}
  <1>1. k \in Nat /\ k >= 1 /\ k <= Cardinality(Used(r)) /\ Cardinality(Used(r)) \in Nat
    BY CountTypes
  <1>2. hi \in T
    <2>1. AtMost(r, hi) = Used(r) /\ hi \in Nat
      BY DEF AtMost, Bounded
    <2> QED
      BY <1>1, <2>1
  <1>3. T \subseteq Nat /\ T # {}
    BY <1>2
  <1> HIDE DEF T
  <1>4. PICK m \in T : \A y \in T : m <= y
    BY <1>3, LeastExists
  <1> USE DEF T
  <1>5. m \in Nat /\ Cardinality(AtMost(r, m)) >= k
    BY <1>4
  <1>6. m # 0
    <2>1. SUFFICES ASSUME m = 0 PROVE FALSE
      OBVIOUS
    <2>2. AtMost(r, 0) = {}
      BY DEF AtMost, Used, Bounded
    <2>3. Cardinality(AtMost(r, 0)) = 0
      BY <2>2, FS_EmptySet
    <2> QED
      BY <1>1, <1>5, <2>1, <2>3
  <1>7. m - 1 \in Nat /\ m - 1 \notin T
    BY <1>4, <1>5, <1>6
  <1>8. Cardinality(AtMost(r, m - 1)) < k
    <2>1. Cardinality(AtMost(r, m - 1)) \in Nat
      BY CountTypes
    <2> QED
      BY <1>1, <1>7, <2>1
  <1>9. Below(r, m) = AtMost(r, m - 1)
    BY <1>5 DEF Below, AtMost, Bounded
  <1>10. m \in {r[s].value : s \in Used(r)}
    <2>1. SUFFICES ASSUME \A s \in Used(r) : r[s].value # m PROVE FALSE
      OBVIOUS
    <2>2. AtMost(r, m) = AtMost(r, m - 1)
      BY <1>5, <2>1 DEF AtMost, Bounded
    <2>3. Cardinality(AtMost(r, m)) \in Nat
      BY CountTypes
    <2> QED
      BY <1>1, <1>5, <1>8, <2>2, <2>3
  <1>11. \E v \in {r[s].value : s \in Used(r)} :
           /\ Cardinality({s \in Used(r) : r[s].value <= v}) >= k
           /\ Cardinality({s \in Used(r) : r[s].value < v}) < k
    BY <1>5, <1>8, <1>9, <1>10 DEF AtMost, Below
  <1> QED
    BY <1>11 DEF Kth, AtMost, Below

(* There is only one. *)
LEMMA KthUnique ==
  ASSUME NEW r, NEW lo, NEW hi, Bounded(r, lo, hi), NEW k \in Nat, NEW v \in Nat, NEW w \in Nat,
         Cardinality(AtMost(r, v)) >= k, Cardinality(Below(r, w)) < k
  PROVE  w <= v
  <1>1. SUFFICES ASSUME v < w PROVE FALSE
    OBVIOUS
  <1>2. AtMost(r, v) \in SUBSET Below(r, w)
    BY <1>1 DEF AtMost, Below, Bounded
  <1>3. Cardinality(AtMost(r, v)) <= Cardinality(Below(r, w))
    BY <1>2, CountTypes, FS_Subset
  <1>4. Cardinality(AtMost(r, v)) \in Nat /\ Cardinality(Below(r, w)) \in Nat
    BY CountTypes
  <1> QED
    BY <1>3, <1>4

(* The two middle figures, one and the same for an odd number of figures.  *)
(* Leaving out one figure at each end does not change which they are.      *)
MiddleLow(n) == (n + 1) \div 2
MiddleHigh(n) == n \div 2 + 1

LEMMA MedianIsMiddle ==
  ASSUME NEW r, NEW lo, NEW hi, Bounded(r, lo, hi), NEW n, n = Cardinality(Used(r)), n >= 1
  PROVE  /\ n \in Nat /\ MiddleLow(n) \in 1 .. n /\ MiddleHigh(n) \in 1 .. n
         /\ n <= 2 * MiddleLow(n) /\ 2 * MiddleLow(n) <= n + 2
         /\ n <= 2 * MiddleHigh(n) /\ 2 * MiddleHigh(n) <= n + 2
         /\ TrimmedMedian(r) = Kth(r, MiddleLow(n)) + Kth(r, MiddleHigh(n))
  <1>0. n \in Nat
    BY CountTypes
  <1>1. /\ MiddleLow(n) \in 1 .. n /\ n <= 2 * MiddleLow(n) /\ 2 * MiddleLow(n) <= n + 2
        /\ MiddleHigh(n) \in 1 .. n /\ n <= 2 * MiddleHigh(n) /\ 2 * MiddleHigh(n) <= n + 2
    BY <1>0 DEF MiddleLow, MiddleHigh
  <1> DEFINE cut == IF n >= 3 THEN 1 ELSE 0
             m == n - 2 * cut
  <1>2. TrimmedMedian(r) =
          IF m % 2 = 0 THEN Kth(r, cut + m \div 2) + Kth(r, cut + m \div 2 + 1)
          ELSE 2 * Kth(r, cut + m \div 2 + 1)
    BY DEF TrimmedMedian
  <1>3. m % 2 = 0 => cut + m \div 2 = MiddleLow(n) /\ cut + m \div 2 + 1 = MiddleHigh(n)
    <2>1. CASE n >= 3
      <3>1. cut = 1 /\ m = n - 2
        BY <1>0, <2>1
      <3> HIDE DEF cut, m
      <3> QED
        BY <1>0, <3>1 DEF MiddleLow, MiddleHigh
    <2>2. CASE ~(n >= 3)
      <3>1. cut = 0 /\ m = n
        BY <1>0, <2>2
      <3> HIDE DEF cut, m
      <3> QED
        BY <1>0, <3>1 DEF MiddleLow, MiddleHigh
    <2> QED
      BY <2>1, <2>2
  <1>4. m % 2 # 0 => cut + m \div 2 + 1 = MiddleLow(n) /\ MiddleLow(n) = MiddleHigh(n)
    BY <1>0 DEF MiddleLow, MiddleHigh
  <1>5. Kth(r, MiddleLow(n)) \in Nat
    <2>1. Kth(r, MiddleLow(n)) \in {r[s].value : s \in Used(r)}
      BY <1>1, KthExists
    <2> QED
      BY <2>1 DEF Bounded
  <1> HIDE DEF cut, m
  <1>6. TrimmedMedian(r) = Kth(r, MiddleLow(n)) + Kth(r, MiddleHigh(n))
    <2>1. CASE m % 2 = 0
      BY <1>2, <1>3, <2>1
    <2>2. CASE m % 2 # 0
      <3>1. TrimmedMedian(r) = 2 * Kth(r, MiddleLow(n)) /\ MiddleLow(n) = MiddleHigh(n)
        BY <1>2, <1>4, <2>2
      <3> QED
        BY <1>5, <3>1
    <2> QED
      BY <2>1, <2>2
  <1> QED
    BY <1>0, <1>1, <1>6

(* The median of figures within bounds is within them. *)
LEMMA MedianBounded ==
  ASSUME NEW r, NEW lo, NEW hi, Bounded(r, lo, hi), Used(r) # {}
  PROVE  TrimmedMedian(r) \in 2 * lo .. 2 * hi
  <1> DEFINE n == Cardinality(Used(r))
             a == Kth(r, MiddleLow(n))
             b == Kth(r, MiddleHigh(n))
  <1>1. n \in Nat /\ n >= 1
    BY CountTypes, FS_EmptySet DEF Bounded
  <1>2. /\ MiddleLow(n) \in 1 .. n /\ MiddleHigh(n) \in 1 .. n /\ TrimmedMedian(r) = a + b
    BY <1>1, MedianIsMiddle
  <1>3. a \in {r[s].value : s \in Used(r)} /\ b \in {r[s].value : s \in Used(r)}
    BY <1>2, KthExists
  <1>4. lo \in Nat /\ hi \in Nat /\ a \in lo .. hi /\ b \in lo .. hi
    BY <1>3 DEF Bounded
  <1> HIDE DEF n, a, b
  <1> QED
    BY <1>2, <1>4

(* Equal figures have equal medians: marking outliers changes none. *)
LEMMA MedianFlagged ==
  ASSUME NEW r, NEW m, NEW lo, NEW hi, Bounded(r, lo, hi), Used(r) # {}
  PROVE  TrimmedMedian(Flagged(r, m)) = TrimmedMedian(r)
  <1> DEFINE t == Flagged(r, m)
  <1>1. DOMAIN t = DOMAIN r /\ \A s \in DOMAIN r : t[s].value = r[s].value
    BY DEF Flagged
  <1> HIDE DEF t
  <1>2. Used(t) = Used(r)
    BY <1>1 DEF Used
  <1>3. \A s \in Used(r) : t[s].value = r[s].value
    BY <1>1 DEF Used
  <1>4. Bounded(t, lo, hi)
    BY <1>2, <1>3 DEF Bounded
  <1>5. \A v : AtMost(t, v) = AtMost(r, v) /\ Below(t, v) = Below(r, v)
    BY <1>2, <1>3 DEF AtMost, Below
  <1> DEFINE n == Cardinality(Used(r))
  <1>6. n \in Nat /\ n >= 1 /\ n = Cardinality(Used(t))
    <2>1. n \in Nat /\ n >= 1
      BY CountTypes, FS_EmptySet DEF Bounded
    <2> QED
      BY <1>2, <2>1
  <1>7. ASSUME NEW k \in 1 .. n PROVE Kth(t, k) = Kth(r, k)
    <2> DEFINE v == Kth(r, k)
               w == Kth(t, k)
    <2>1. /\ v \in {r[s].value : s \in Used(r)}
          /\ Cardinality(AtMost(r, v)) >= k /\ Cardinality(Below(r, v)) < k
      BY KthExists
    <2>2. /\ w \in {t[s].value : s \in Used(t)}
          /\ Cardinality(AtMost(t, w)) >= k /\ Cardinality(Below(t, w)) < k
      BY <1>4, <1>6, KthExists
    <2>3. v \in Nat /\ w \in Nat /\ k \in Nat
      BY <1>4, <2>1, <2>2 DEF Bounded
    <2> HIDE DEF v, w
    <2>4. Cardinality(AtMost(r, w)) >= k /\ Cardinality(Below(r, w)) < k
      BY <1>5, <2>2
    <2>5. w <= v /\ v <= w
      BY <2>1, <2>3, <2>4, KthUnique
    <2>6. v = w
      BY <2>3, <2>5
    <2> QED
      BY <2>6 DEF v, w
  <1>8. /\ MiddleLow(n) \in 1 .. n /\ MiddleHigh(n) \in 1 .. n
        /\ TrimmedMedian(r) = Kth(r, MiddleLow(n)) + Kth(r, MiddleHigh(n))
    BY <1>6, MedianIsMiddle
  <1>9. TrimmedMedian(t) = Kth(t, MiddleLow(n)) + Kth(t, MiddleHigh(n))
    BY <1>4, <1>6, MedianIsMiddle
  <1> HIDE DEF n
  <1>10. TrimmedMedian(t) = TrimmedMedian(r)
    BY <1>7, <1>8, <1>9
  <1> QED
    BY <1>10 DEF t

(* If fewer than half of the figures are outside low .. high, the median   *)
(* is within: no k-th smallest figure near the middle is wrong.            *)
LEMMA MedianOfMost ==
  ASSUME NEW r, NEW lo, NEW hi, Bounded(r, lo, hi), NEW low \in Nat, NEW high \in Nat,
         NEW wrong, wrong = {s \in Used(r) : r[s].value \notin low .. high},
         2 * Cardinality(wrong) < Cardinality(Used(r))
  PROVE  TrimmedMedian(r) \in 2 * low .. 2 * high
  <1> DEFINE n == Cardinality(Used(r))
             c == Cardinality(wrong)
  <1>1. IsFiniteSet(wrong) /\ c \in Nat /\ n \in Nat /\ 2 * c < n
    BY CountTypes, FS_Subset, FS_CardinalityType DEF Bounded
  <1>2. ASSUME NEW k \in 1 .. n, n <= 2 * k, 2 * k <= n + 2 PROVE Kth(r, k) \in low .. high
    <2> DEFINE v == Kth(r, k)
    <2>1. /\ v \in {r[s].value : s \in Used(r)}
          /\ Cardinality(AtMost(r, v)) >= k /\ Cardinality(Below(r, v)) < k
      BY KthExists
    <2>2. v \in Nat
      BY <2>1 DEF Bounded
    <2> HIDE DEF v
    <2>3. /\ Cardinality(AtMost(r, v)) \in Nat /\ Cardinality(Below(r, v)) \in Nat
          /\ IsFiniteSet(Below(r, v))
      BY CountTypes
    <2>4. v >= low
      <3>1. SUFFICES ASSUME v < low PROVE FALSE
        BY <2>2
      <3>2. AtMost(r, v) \in SUBSET wrong
        BY <2>2, <3>1 DEF AtMost, Bounded
      <3>3. Cardinality(AtMost(r, v)) <= c
        BY <1>1, <3>2, FS_Subset
      <3> HIDE DEF n, c
      <3> QED
        BY <1>1, <1>2, <2>1, <2>3, <3>3
    <2>5. v <= high
      <3>1. SUFFICES ASSUME v > high PROVE FALSE
        BY <2>2
      <3>2. Used(r) \subseteq wrong \cup Below(r, v)
        BY <2>2, <3>1 DEF Below, Bounded
      <3>3. /\ IsFiniteSet(wrong \cup Below(r, v))
            /\ Cardinality(wrong \cup Below(r, v)) <= c + Cardinality(Below(r, v))
            /\ Cardinality(wrong \cup Below(r, v)) \in Nat
        <4>1. /\ IsFiniteSet(wrong \cup Below(r, v)) /\ IsFiniteSet(wrong \cap Below(r, v))
              /\ Cardinality(wrong \cup Below(r, v)) =
                   Cardinality(wrong) + Cardinality(Below(r, v))
                   - Cardinality(wrong \cap Below(r, v))
          BY <1>1, <2>3, FS_Union, FS_Intersection
        <4>2. /\ Cardinality(wrong \cap Below(r, v)) \in Nat
              /\ Cardinality(wrong \cup Below(r, v)) \in Nat
          BY <4>1, FS_CardinalityType
        <4> QED
          BY <1>1, <2>3, <4>1, <4>2
      <3>4. n <= Cardinality(wrong \cup Below(r, v))
        BY <3>2, <3>3, FS_Subset
      <3> HIDE DEF n, c
      <3> QED
        BY <1>1, <1>2, <2>1, <2>3, <3>3, <3>4
    <2>6. v \in low .. high
      BY <2>2, <2>4, <2>5
    <2> QED
      BY <2>6 DEF v
  <1> DEFINE a == Kth(r, MiddleLow(n))
             b == Kth(r, MiddleHigh(n))
  <1>3. n >= 1
    BY <1>1
  <1>4. /\ MiddleLow(n) \in 1 .. n /\ MiddleHigh(n) \in 1 .. n
        /\ n <= 2 * MiddleLow(n) /\ 2 * MiddleLow(n) <= n + 2
        /\ n <= 2 * MiddleHigh(n) /\ 2 * MiddleHigh(n) <= n + 2
        /\ TrimmedMedian(r) = a + b
    BY <1>3, MedianIsMiddle
  <1>5. a \in low .. high /\ b \in low .. high
    BY <1>2, <1>4
  <1> HIDE DEF a, b, n
  <1> QED
    BY <1>4, <1>5

---------------------------------------------------------------------------
(* The reward. *)

LEMMA RewardMonotone ==
  ASSUME NEW a \in Nat, NEW b \in Nat, a <= b
  PROVE  /\ BaseReward(a) \in Nat /\ BaseReward(b) \in Nat
         /\ BaseReward(a) <= BaseReward(b)
  <1> DEFINE x == a * OzPerTonne
             y == b * OzPerTonne
             d == 2 * BlocksPerYear
  <1>1. x \in Nat /\ y \in Nat /\ x <= y /\ d \in Nat /\ d > 0
    BY CeremonyAssumption
  <1>2. BaseReward(a) = x \div d /\ BaseReward(b) = y \div d
    BY DEF BaseReward
  <1> HIDE DEF x, y, d
  <1>3. x \div d \in Nat /\ y \div d \in Nat /\ x \div d <= y \div d
    BY <1>1
  <1> QED
    BY <1>2, <1>3

(* The least production within the bounds still gives a reward. *)
LEMMA RewardPositive ==
  ASSUME NEW a \in Nat, a >= 2 * ProdMin
  PROVE  BaseReward(a) > 0
  <1> DEFINE x == a * OzPerTonne
             d == 2 * BlocksPerYear
  <1>1. x \in Nat /\ d \in Nat /\ d > 0
    BY CeremonyAssumption
  <1>2. x >= d
    <2> DEFINE p == ProdMin * OzPerTonne
    <2>1. a * OzPerTonne >= (2 * ProdMin) * OzPerTonne
      BY CeremonyAssumption
    <2>2. (2 * ProdMin) * OzPerTonne = 2 * p
      BY CeremonyAssumption
    <2>3. BlocksPerYear <= p /\ p \in Nat /\ BlocksPerYear \in Nat
      BY CeremonyAssumption
    <2> HIDE DEF p
    <2> QED
      BY <1>1, <2>1, <2>2, <2>3
  <1>3. BaseReward(a) = x \div d
    BY DEF BaseReward
  <1> HIDE DEF x, d
  <1>4. x \div d > 0
    BY <1>1, <1>2
  <1> QED
    BY <1>3, <1>4

---------------------------------------------------------------------------
(* What the tool makes. *)

(* A figure is none or within the bounds, and an entered one has evidence. *)
Figures(r, S, lo, hi) ==
  /\ DOMAIN r = S
  /\ \A s \in S :
       /\ r[s].value \in {0} \cup (lo .. hi)
       /\ r[s].origin = "manual" /\ r[s].value # 0 => r[s].evidence

Production(r) ==
  Figures(r, ProdSources, ProdMin, ProdMax) /\ Cardinality(Used(r)) >= MinProdSources

(* An attestation as the tool makes it, field by field. *)
Attested(a) ==
  /\ a = [key |-> a.key, duration |-> a.duration, production |-> a.production,
          price |-> a.price, median2 |-> a.median2, price2 |-> a.price2,
          reward |-> a.reward, extra |-> FALSE]
  /\ Production(a.production) /\ a.median2 = TrimmedMedian(a.production)
  /\ Figures(a.price, PriceSources, PriceMin, PriceMax)
  /\ a.price2 = IF Used(a.price) = {} THEN 0 ELSE TrimmedMedian(a.price)
  /\ a.reward = BaseReward(a.median2)

MadeInv ==
  /\ \A r \in production : Production(r)
  /\ \A a \in draft \cup confirmed : Attested(a)

LEMMA FiguresBounded ==
  ASSUME NEW r, NEW S, IsFiniteSet(S), NEW lo \in Nat, NEW hi \in Nat, Figures(r, S, lo, hi)
  PROVE  /\ Bounded(r, lo, hi) /\ Within(r, lo, hi) /\ Evidenced(r)
         /\ Used(r) \in SUBSET S
  <1>1. Used(r) \in SUBSET S
    BY DEF Used, Figures
  <1>2. IsFiniteSet(Used(r))
    BY <1>1, FS_Subset
  <1>3. \A s \in Used(r) : r[s].value \in lo .. hi
    BY DEF Used, Figures
  <1>4. Evidenced(r)
    BY Zenon DEF Used, Figures, Evidenced
  <1> QED
    BY <1>1, <1>2, <1>3, <1>4 DEF Bounded, Within

LEMMA FlaggedFigures ==
  ASSUME NEW r, NEW S, NEW lo, NEW hi, NEW m, Figures(r, S, lo, hi)
  PROVE  Figures(Flagged(r, m), S, lo, hi) /\ Used(Flagged(r, m)) = Used(r)
  <1> DEFINE t == Flagged(r, m)
  <1>1. /\ DOMAIN t = DOMAIN r
        /\ \A s \in DOMAIN r : /\ t[s].value = r[s].value /\ t[s].origin = r[s].origin
                               /\ t[s].evidence = r[s].evidence
    BY DEF Flagged
  <1> HIDE DEF t
  <1>2. Used(t) = Used(r)
    BY <1>1 DEF Used
  <1>3. Figures(t, S, lo, hi)
    BY <1>1, Zenon DEF Figures
  <1> QED
    BY <1>2, <1>3 DEF t

LEMMA UsedSome ==
  ASSUME NEW r, Production(r)
  PROVE  Used(r) # {}
  <1>1. MinProdSources \in Nat /\ MinProdSources >= 1
    <2>1. Cardinality(ProdSources) \in Nat
      BY CeremonyAssumption, FS_CardinalityType
    <2> QED
      BY <2>1, CeremonyAssumption
  <1>2. Used(r) = {} => Cardinality(Used(r)) = 0
    BY FS_EmptySet
  <1> QED
    BY <1>1, <1>2 DEF Production

LEMMA AttestationAttested ==
  ASSUME NEW k, NEW d, NEW prod, NEW price, Production(prod),
         Figures(price, PriceSources, PriceMin, PriceMax)
  PROVE  Attested(Attestation(k, d, prod, price))
  <1>0. /\ \A w : /\ Figures(Flagged(prod, w), ProdSources, ProdMin, ProdMax)
                  /\ Used(Flagged(prod, w)) = Used(prod)
        /\ \A w : /\ Figures(Flagged(price, w), PriceSources, PriceMin, PriceMax)
                  /\ Used(Flagged(price, w)) = Used(price)
    BY FlaggedFigures DEF Production
  <1> USE CeremonyAssumption
  <1> DEFINE m == TrimmedMedian(prod)
             p == IF Used(price) = {} THEN 0 ELSE TrimmedMedian(price)
             fp == Flagged(prod, m)
             fq == Flagged(price, p)
  <1>1. /\ Figures(fp, ProdSources, ProdMin, ProdMax) /\ Used(fp) = Used(prod)
        /\ Figures(fq, PriceSources, PriceMin, PriceMax) /\ Used(fq) = Used(price)
    BY <1>0
  <1>2. Production(fp)
    BY <1>1 DEF Production
  <1>3. TrimmedMedian(fp) = m
    BY UsedSome, FiguresBounded, MedianFlagged DEF Production
  <1>4. Used(price) # {} => TrimmedMedian(fq) = TrimmedMedian(price)
    BY FiguresBounded, MedianFlagged
  <1>5. p = IF Used(fq) = {} THEN 0 ELSE TrimmedMedian(fq)
    BY <1>1, <1>4
  <1>6. Attestation(k, d, prod, price) =
          [key |-> k, duration |-> d, production |-> fp, price |-> fq, median2 |-> m,
           price2 |-> p, reward |-> BaseReward(m), extra |-> FALSE]
    BY DEF Attestation
  <1> HIDE DEF m, p, fp, fq
  <1> QED
    BY <1>1, <1>2, <1>3, <1>5, <1>6 DEF Attested

(* The same figure from every source, as in a dry run. *)
LEMMA SameFigures ==
  ASSUME NEW S, NEW lo \in Nat, NEW hi \in Nat, NEW v \in lo .. hi, lo > 0
  PROVE  Figures(DryResults(S, v), S, lo, hi) /\ Used(DryResults(S, v)) = S
  <1>1. v # 0
    OBVIOUS
  <1>2. Used(DryResults(S, v)) = S
    BY <1>1 DEF Used, DryResults
  <1>3. Figures(DryResults(S, v), S, lo, hi)
    BY DEF Figures, DryResults
  <1> QED
    BY <1>2, <1>3

LEMMA SameProduction ==
  ASSUME NEW v \in ProdMin .. ProdMax
  PROVE  Production(DryResults(ProdSources, v))
  <1>1. /\ Figures(DryResults(ProdSources, v), ProdSources, ProdMin, ProdMax)
        /\ Used(DryResults(ProdSources, v)) = ProdSources
    BY CeremonyAssumption, SameFigures
  <1>2. Cardinality(ProdSources) >= MinProdSources
    <2>1. Cardinality(ProdSources) \in Nat
      BY CeremonyAssumption, FS_CardinalityType
    <2> QED
      BY <2>1, CeremonyAssumption
  <1> QED
    BY <1>1, <1>2 DEF Production

LEMMA DryAttested ==
  ASSUME NEW k
  PROVE  Attested(Attestation(k, 0, DryResults(ProdSources, DryProd),
                              DryResults(PriceSources, DryPrice)))
  <1>1. Production(DryResults(ProdSources, DryProd))
    BY CeremonyAssumption, SameProduction
  <1>2. Figures(DryResults(PriceSources, DryPrice), PriceSources, PriceMin, PriceMax)
    BY CeremonyAssumption, SameFigures
  <1> QED
    BY <1>1, <1>2, AttestationAttested

LEMMA ForeignAttested == Attested(Foreign)
  <1>1. HonestHigh \in ProdMin .. ProdMax /\ PriceMin \in PriceMin .. PriceMax
    BY CeremonyAssumption
  <1>2. Production(DryResults(ProdSources, HonestHigh))
    BY <1>1, SameProduction
  <1>3. Figures(DryResults(PriceSources, PriceMin), PriceSources, PriceMin, PriceMax)
    BY <1>1, CeremonyAssumption, SameFigures
  <1> QED
    BY <1>2, <1>3, AttestationAttested DEF Foreign

(* What is collected from pages and operators. *)
LEMMA CollectedFigures ==
  ASSUME NEW S, NEW m, NEW lo \in Nat, NEW hi \in Nat, NEW r \in [S -> Collected(m, lo, hi)]
  PROVE  Figures(r, S, lo, hi)
  <1> SUFFICES ASSUME NEW s \in S
               PROVE  /\ r[s].value \in {0} \cup (lo .. hi)
                      /\ r[s].origin = "manual" /\ r[s].value # 0 => r[s].evidence
    BY DEF Figures
  <1>0. r[s] \in Fetched(m, lo, hi) \/ r[s] \in Prompted(lo, hi)
    BY DEF Collected
  <1>1. CASE r[s] \in Fetched(m, lo, hi)
    <2>1. PICK v \in lo .. hi : r[s] = [value |-> v, origin |-> "auto", evidence |-> FALSE]
      BY <1>1 DEF Fetched
    <2> QED
      BY <2>1
  <1>2. CASE r[s] \in Prompted(lo, hi)
    <2>1. PICK v \in {Sanitized(w, lo, hi) : w \in Readings \cup {0}} :
            r[s] = [value |-> v, origin |-> "manual", evidence |-> v # 0]
      BY <1>2 DEF Prompted
    <2>2. v \in {0} \cup (lo .. hi)
      BY <2>1 DEF Sanitized
    <2>3. r[s].value = v /\ r[s].evidence = (v # 0)
      BY <2>1
    <2> QED
      BY <2>2, <2>3, Zenon
  <1> QED
    BY <1>0, <1>1, <1>2

LEMMA MadeStep == MadeInv /\ [Next]_vars => MadeInv'
  <1> SUFFICES ASSUME MadeInv, [Next]_vars PROVE MadeInv'
    OBVIOUS
  <1> USE CeremonyAssumption
  <1>1. ASSUME NEW m, NEW k, Begin(m, k) PROVE MadeInv'
    <2>1. confirmed' = {Foreign} /\ production' = {}
      BY <1>1 DEF Begin, Idle
    <2>2. \/ draft' = {}
          \/ draft' = {Attestation(k, 0, DryResults(ProdSources, DryProd),
                                   DryResults(PriceSources, DryPrice))}
      BY <1>1 DEF Begin, Idle
    <2>3. \A a \in draft' : Attested(a)
      BY <2>2, DryAttested
    <2>4. \A a \in confirmed' : Attested(a)
      BY <2>1, ForeignAttested
    <2> QED
      BY <2>1, <2>3, <2>4 DEF MadeInv
  <1>2. ASSUME NEW r \in [ProdSources -> Collected(mode, ProdMin, ProdMax)], NEW d,
               CollectProduction(r, d)
        PROVE  MadeInv'
    <2>1. \/ production' = {} /\ draft' = {}
          \/ /\ ~(Cardinality(Used(r)) < MinProdSources)
             /\ production' = {r} /\ UNCHANGED draft
      BY <1>2, Zenon DEF CollectProduction, Idle
    <2>2. UNCHANGED confirmed
      BY <1>2 DEF CollectProduction
    <2>3. ~(Cardinality(Used(r)) < MinProdSources) => Production(r)
      <3>1. Figures(r, ProdSources, ProdMin, ProdMax)
        BY CollectedFigures
      <3>2. Cardinality(Used(r)) \in Nat /\ MinProdSources \in Nat
        <4>1. Cardinality(ProdSources) \in Nat
          BY FS_CardinalityType
        <4>2. IsFiniteSet(Used(r))
          BY <3>1, FiguresBounded DEF Bounded
        <4> QED
          BY <4>1, <4>2, FS_CardinalityType
      <3> QED
        BY <3>1, <3>2 DEF Production
    <2> QED
      BY <2>1, <2>2, <2>3 DEF MadeInv
  <1>3. ASSUME NEW r \in [PriceSources -> Collected(mode, PriceMin, PriceMax)], NEW d,
               CollectPrices(r, d)
        PROVE  MadeInv'
    <2>1. PICK prod \in production : draft' = {Attestation(key, clock + d, prod, r)}
      BY <1>3 DEF CollectPrices
    <2>2. production' = {} /\ UNCHANGED confirmed
      BY <1>3 DEF CollectPrices
    <2>3. Attested(Attestation(key, clock + d, prod, r))
      <3>1. Production(prod)
        BY DEF MadeInv
      <3>2. Figures(r, PriceSources, PriceMin, PriceMax)
        BY CollectedFigures
      <3> QED
        BY <3>1, <3>2, AttestationAttested
    <2> QED
      BY <2>1, <2>2, <2>3 DEF MadeInv
  <1>4. CASE Confirm
    BY <1>4 DEF Confirm, MadeInv
  <1>5. CASE WindowExceeded \/ Decline \/ WriteRest \/ Crash
    <2>1. production' = {} /\ draft' = {} /\ UNCHANGED confirmed
      BY <1>5 DEF WindowExceeded, Decline, WriteRest, Crash, Idle
    <2> QED
      BY <2>1 DEF MadeInv
  <1>6. ASSUME UNCHANGED <<production, draft, confirmed>> PROVE MadeInv'
    BY <1>6 DEF MadeInv
  <1>7. CASE WriteAttestation \/ Replace \/ UNCHANGED vars
    BY <1>6, <1>7 DEF WriteAttestation, Replace, vars, toolVars
  <1>8. ASSUME NEW n \in Nodes,
               \/ \E allowDry \in BOOLEAN : StartNode(n, allowDry)
               \/ StopNode(n) \/ FirstBlock(n)
        PROVE  MadeInv'
    BY <1>6, <1>8 DEF StartNode, StopNode, FirstBlock, toolVars
  <1>9. ASSUME NEW rehash \in BOOLEAN, Edit(rehash) PROVE MadeInv'
    BY <1>6, <1>9 DEF Edit, toolVars
  <1> QED
    BY <1>1, <1>2, <1>3, <1>4, <1>5, <1>7, <1>8, <1>9 DEF Next

LEMMA MadeHolds == Spec => []MadeInv
  <1>1. Init => MadeInv
    BY ForeignAttested DEF Init, MadeInv
  <1> QED
    BY <1>1, MadeStep, PTL DEF Spec

(* What the tool makes passes its own verification and the nodes' checks.  *)
LEMMA AttestedUsable ==
  ASSUME NEW a, Attested(a), a.duration <= Window, a.price2 > 0
  PROVE  Verify(Signed(a)) /\ (Accepts(Signed(a), FALSE) \/ a.key = "dry")
  <1> USE CeremonyAssumption
  <1> DEFINE f == Signed(a)
  <1>0. /\ f.whole /\ f.content = a /\ f.hash = a /\ f.sig = [key |-> a.key, hash |-> a]
    BY DEF Signed
  <1> HIDE DEF f
  <1>1. Used(a.price) # {}
    BY DEF Attested
  <1>2. [a EXCEPT !.extra = FALSE] = a
    BY DEF Attested
  <1>3. /\ Bounded(a.production, ProdMin, ProdMax) /\ Within(a.production, ProdMin, ProdMax)
        /\ Evidenced(a.production)
    BY FiguresBounded DEF Attested, Production
  <1>4. /\ Bounded(a.price, PriceMin, PriceMax) /\ Within(a.price, PriceMin, PriceMax)
        /\ Evidenced(a.price)
    BY FiguresBounded DEF Attested
  <1>5. /\ Cardinality(Used(a.production)) >= MinProdSources
        /\ a.median2 = TrimmedMedian(a.production) /\ a.price2 = TrimmedMedian(a.price)
        /\ a.reward = BaseReward(a.median2)
    BY <1>1 DEF Attested, Production
  <1>6. a.median2 \in 2 * ProdMin .. 2 * ProdMax /\ a.price2 \in 2 * PriceMin .. 2 * PriceMax
    BY <1>1, <1>3, <1>4, <1>5, MedianBounded, UsedSome DEF Attested
  <1>7. a.reward > 0 /\ a.reward <= BaseReward(2 * ProdMax)
    <2>1. /\ a.median2 \in Nat /\ 2 * ProdMax \in Nat
          /\ a.median2 >= 2 * ProdMin /\ a.median2 <= 2 * ProdMax
      BY <1>6
    <2> QED
      BY <1>5, <2>1, RewardMonotone, RewardPositive
  <1>8. Verify(f)
    BY <1>0, <1>1, <1>2, <1>3, <1>4, <1>5, Zenon DEF Verify
  <1>9. ValidSources(a) /\ ValidDerivation(a)
    BY <1>1, <1>3, <1>4, <1>5, <1>6, <1>7 DEF ValidSources, ValidDerivation
  <1>10. Accepts(f, FALSE) \/ a.key = "dry"
    BY <1>0, <1>9, Zenon DEF Accepts
  <1> QED
    BY <1>8, <1>10 DEF f

(* An attestation that was written as confirmed, within the window and     *)
(* with a price, passes verify_attestation and, save for a dry run,        *)
(* load_genesis_config_from_attestation: for every number of sources and   *)
(* every figure, the medians the tool checks meet the bounds the node      *)
(* checks.                                                                 *)
THEOREM WrittenTheorem == Spec => []WrittenIsUsable
  <1>1. MadeInv => WrittenIsUsable
    <2> SUFFICES ASSUME MadeInv, NEW f \in files.attestation,
                        f = Signed(f.content), f.content \in confirmed,
                        f.content.duration <= Window, f.content.price2 > 0
                 PROVE  Verify(f) /\ (Accepts(f, FALSE) \/ f.content.key = "dry")
      BY DEF WrittenIsUsable
    <2> DEFINE a == f.content
    <2>1. Attested(a) /\ a.duration <= Window /\ a.price2 > 0 /\ f = Signed(a)
      BY DEF MadeInv
    <2> HIDE DEF a
    <2>2. Verify(f) /\ (Accepts(f, FALSE) \/ a.key = "dry")
      BY <2>1, AttestedUsable
    <2> QED
      BY <2>2 DEF a
  <1> QED
    BY <1>1, MadeHolds, PTL

(* As long as fewer than half of the production figures used are wrong,    *)
(* the reward of the draft is one that right figures alone can give, for   *)
(* every number of sources: trimming and marking outliers do not weaken    *)
(* the median.                                                             *)
THEOREM RobustTheorem == Spec => []MedianRobust
  <1>1. MadeInv => MedianRobust
    <2> SUFFICES ASSUME MadeInv, NEW a \in draft, NEW wrong,
                        wrong = {s \in Used(a.production) :
                                   a.production[s].value \notin HonestLow .. HonestHigh},
                        2 * Cardinality(wrong) < Cardinality(Used(a.production))
                 PROVE  a.reward \in BaseReward(2 * HonestLow) .. BaseReward(2 * HonestHigh)
      BY DEF MedianRobust
    <2> USE CeremonyAssumption
    <2>1. Attested(a)
      BY DEF MadeInv
    <2>2. Bounded(a.production, ProdMin, ProdMax)
      BY <2>1, FiguresBounded DEF Attested, Production
    <2>3. TrimmedMedian(a.production) \in 2 * HonestLow .. 2 * HonestHigh
      BY <2>2, MedianOfMost
    <2>4. a.median2 \in 2 * HonestLow .. 2 * HonestHigh /\ a.reward = BaseReward(a.median2)
      BY <2>1, <2>3 DEF Attested
    <2>5. /\ a.median2 \in Nat /\ 2 * HonestLow \in Nat /\ 2 * HonestHigh \in Nat
          /\ 2 * HonestLow <= a.median2 /\ a.median2 <= 2 * HonestHigh
      BY <2>4
    <2>6. /\ BaseReward(2 * HonestLow) <= a.reward /\ a.reward <= BaseReward(2 * HonestHigh)
          /\ a.reward \in Nat /\ BaseReward(2 * HonestLow) \in Nat
          /\ BaseReward(2 * HonestHigh) \in Nat
      BY <2>4, <2>5, RewardMonotone
    <2> QED
      BY <2>6
  <1> QED
    BY <1>1, MadeHolds, PTL
=============================================================================
