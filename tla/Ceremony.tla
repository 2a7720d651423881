------------------------------ MODULE Ceremony ------------------------------
(***************************************************************************)
(* The genesis ceremony and its use: the tool collects gold production and *)
(* price figures, derives the base reward, has the operator confirm it and *)
(* writes a signed attestation; the same tool verifies the file, and every *)
(* node derives its genesis from it with checks of its own.                *)
(*                                                                         *)
(* A figure is a number and 0 stands for none.  The mean of two middle     *)
(* figures is kept whole by doubling: median2 is twice the median.  Hashes *)
(* and signatures are ideal: a hash is what was hashed.  The spread of the *)
(* fetch times, which only warns, is left out.                             *)
(***************************************************************************)
EXTENDS Integers, FiniteSets

CONSTANTS
  ProdSources, PriceSources,   \* PROD_SOURCES, PRICE_SOURCES
  MinProdSources,              \* MIN_PROD_SOURCES
  Readings,                    \* figures that pages and operators come up with
  ProdMin, ProdMax,            \* sanity bounds of a production figure
  PriceMin, PriceMax,          \* and of a price
  HonestLow, HonestHigh,       \* the range of the figures that are right
  OutlierPct,                  \* OUTLIER_PCT in percent
  OzPerTonne, BlocksPerYear,
  DryProd, DryPrice,           \* the figures of --dry-run
  Window,                      \* CEREMONY_WINDOW_SECS
  FetchTime,                   \* FETCH_TIMEOUT_SECS
  Delays,                      \* how long fetching and prompting may take
  Nodes,
  MaxCeremonies,               \* bound on the ceremonies begun
  MaxEvents                    \* bound on edits and replacements of the file

ASSUME CeremonyAssumption ==
  /\ {ProdMin, ProdMax, PriceMin, PriceMax, HonestLow, HonestHigh, OzPerTonne} \subseteq Nat
  /\ BlocksPerYear \in Nat \ {0}
  /\ IsFiniteSet(ProdSources) /\ IsFiniteSet(PriceSources)
  /\ 0 < ProdMin /\ ProdMin <= HonestLow /\ HonestLow <= HonestHigh /\ HonestHigh <= ProdMax
  /\ 0 < PriceMin /\ PriceMin <= PriceMax
  /\ DryProd \in ProdMin .. ProdMax /\ DryPrice \in PriceMin .. PriceMax
  /\ BlocksPerYear <= ProdMin * OzPerTonne
  /\ MinProdSources \in 1 .. Cardinality(ProdSources)
  /\ Readings \subseteq Nat \ {0}

VARIABLES
  phase,       \* how far the tool is
  mode,        \* "auto", "manual" or "dry"
  key,         \* the signing key in use
  clock,       \* time since the start of the ceremony
  production,  \* what the production sources gave
  draft,       \* the attestation being made, if any
  files,       \* the output directory
  genesis,     \* per node: the attestation it runs on and whether that is a permitted dry run
  stored,      \* per node: the genesis its database belongs to
  confirmed,   \* history: the contents operators confirmed that a file may hold
  ceremonies, events

toolVars == <<phase, mode, key, clock, production, draft, ceremonies>>
vars == <<toolVars, files, genesis, stored, confirmed, events>>

---------------------------------------------------------------------------
(* Collecting figures. *)

(* A figure outside the sanity bounds counts as none.  Mutant: it counts. *)
SanitizedNot(v, lo, hi) == v

Sanitized(v, lo, hi) == IF v \in lo .. hi THEN v ELSE 0

(* run_fetch_phase for one source: the parsers find a number within the    *)
(* bounds, the right one or not, or nothing.                               *)
Fetched(m, lo, hi) ==
  {[value |-> v, origin |-> "auto", evidence |-> FALSE] :
     v \in IF m = "auto" THEN Readings \cap (lo .. hi) ELSE {}}

(* The operator, asked where nothing was found, may skip the source, and   *)
(* gives evidence for every figure entered (that of one out of bounds is   *)
(* of no use to anybody and left out).                                     *)
Prompted(lo, hi) ==
  {[value |-> v, origin |-> "manual", evidence |-> v # 0] :
     v \in {Sanitized(w, lo, hi) : w \in Readings \cup {0}}}

(* collect_source_results for one source. *)
Collected(m, lo, hi) == Fetched(m, lo, hi) \cup Prompted(lo, hi)

Used(r) == {s \in DOMAIN r : r[s].value # 0}

(* The k-th smallest figure. *)
Kth(r, k) ==
  CHOOSE v \in {r[s].value : s \in Used(r)} :
    /\ Cardinality({s \in Used(r) : r[s].value <= v}) >= k
    /\ Cardinality({s \in Used(r) : r[s].value < v}) < k

(* trimmed_median, doubled: from three figures on the lowest and the       *)
(* highest are left out.  Mutant: only the lowest is.                      *)
TrimmedMedianOneEnd(r) ==
  LET n == Cardinality(Used(r))
      cut == IF n >= 3 THEN 1 ELSE 0
      m == n - cut
  IN IF m % 2 = 0 THEN Kth(r, cut + m \div 2) + Kth(r, cut + m \div 2 + 1)
     ELSE 2 * Kth(r, cut + m \div 2 + 1)

TrimmedMedian(r) ==
  LET n == Cardinality(Used(r))
      cut == IF n >= 3 THEN 1 ELSE 0
      m == n - 2 * cut
  IN IF m % 2 = 0 THEN Kth(r, cut + m \div 2) + Kth(r, cut + m \div 2 + 1)
     ELSE 2 * Kth(r, cut + m \div 2 + 1)

(* apply_outlier_flags: a figure far from the median is marked and stays.  *)
Flagged(r, median2) ==
  [s \in DOMAIN r |->
     [value |-> r[s].value, origin |-> r[s].origin, evidence |-> r[s].evidence,
      outlier |-> /\ r[s].value # 0
                  /\ \/ 100 * (2 * r[s].value - median2) > OutlierPct * median2
                     \/ 100 * (median2 - 2 * r[s].value) > OutlierPct * median2]]

BaseReward(median2) == (median2 * OzPerTonne) \div (2 * BlocksPerYear)

(* The attested fields, frozen when the last figure is in.  A field the    *)
(* tool does not know, `extra`, can only come from outside.                *)
Attestation(k, duration, prod, price) ==
  LET m == TrimmedMedian(prod)
      p == IF Used(price) = {} THEN 0 ELSE TrimmedMedian(price)
  IN [key |-> k, duration |-> duration, production |-> Flagged(prod, m),
      price |-> Flagged(price, p), median2 |-> m, price2 |-> p,
      reward |-> BaseReward(m), extra |-> FALSE]

DryResults(S, v) == [s \in S |-> [value |-> v, origin |-> "dry", evidence |-> FALSE]]

(* What another operator's ceremony came to. *)
Foreign ==
  Attestation("other", 0, DryResults(ProdSources, HonestHigh), DryResults(PriceSources, PriceMin))

---------------------------------------------------------------------------
(* The tool. *)

Idle ==
  /\ phase' = "idle" /\ mode' = "none" /\ key' = "none" /\ clock' = 0
  /\ production' = {} /\ draft' = {}

(* load_or_generate_signing_key and the start of run_ceremony.  A new key  *)
(* is written to a file that must not exist; otherwise the tool gives up.  *)
(* As a bound, nobody begins again over an attestation; what was confirmed *)
(* and never written is forgotten.                                         *)
Begin(m, k) ==
  /\ phase = "idle" /\ ceremonies < MaxCeremonies
  /\ files.attestation = {}
  /\ (m = "dry") <=> (k = "dry")
  /\ ceremonies' = ceremonies + 1
  /\ confirmed' = {Foreign}
  /\ IF k = "generated" /\ files.keyFile
     THEN Idle /\ UNCHANGED files
     ELSE /\ files' = [files EXCEPT !.keyFile = @ \/ k = "generated"]
          /\ mode' = m /\ key' = k /\ clock' = 0 /\ production' = {}
          /\ IF m = "dry"
             THEN /\ phase' = "confirm"
                  /\ draft' = {Attestation(k, 0, DryResults(ProdSources, DryProd),
                                           DryResults(PriceSources, DryPrice))}
             ELSE phase' = "production" /\ draft' = {}
  /\ UNCHANGED <<genesis, stored, events>>

(* With too few figures the tool gives up. *)
CollectProduction(r, d) ==
  /\ phase = "production"
  /\ IF Cardinality(Used(r)) < MinProdSources
     THEN Idle
     ELSE /\ phase' = "price" /\ clock' = clock + d /\ production' = {r}
          /\ UNCHANGED <<mode, key, draft>>
  /\ UNCHANGED <<ceremonies, files, genesis, stored, confirmed, events>>

(* The timeout of main acts where run_ceremony awaits, and prompts block:  *)
(* after the production figures it can only stop the fetch of the prices,  *)
(* and nothing in manual mode.                                             *)
WindowExceeded ==
  /\ phase = "price" /\ mode = "auto" /\ clock + FetchTime > Window
  /\ Idle
  /\ UNCHANGED <<ceremonies, files, genesis, stored, confirmed, events>>

(* Without any price the tool warns and records 0. *)
CollectPrices(r, d) ==
  /\ phase = "price"
  /\ mode = "auto" => clock <= Window
  /\ \E prod \in production : draft' = {Attestation(key, clock + d, prod, r)}
  /\ phase' = "confirm" /\ clock' = 0 /\ production' = {}
  /\ UNCHANGED <<mode, key, ceremonies, files, genesis, stored, confirmed, events>>

(* operator_confirm and sign_master_hash; a dry run confirms itself. *)
Confirm ==
  /\ phase = "confirm"
  /\ confirmed' = confirmed \cup draft
  /\ phase' = "write"
  /\ UNCHANGED <<mode, key, clock, production, draft, ceremonies, files, genesis, stored, events>>

Decline ==
  /\ phase = "confirm" /\ mode # "dry"
  /\ Idle
  /\ UNCHANGED <<ceremonies, files, genesis, stored, confirmed, events>>

(* A file of attestation a; hash and signature are over what was signed. *)
Signed(a) ==
  [whole |-> TRUE, content |-> a, hash |-> a, sig |-> [key |-> a.key, hash |-> a]]

(* write_attestation_json, then the parameters and the guide, which are    *)
(* for human readers and not represented.                                  *)
WriteAttestation ==
  /\ phase = "write"
  /\ \E a \in draft : files' = [files EXCEPT !.attestation = {Signed(a)}]
  /\ phase' = "rest"
  /\ UNCHANGED <<mode, key, clock, production, draft, ceremonies, genesis, stored, confirmed,
                 events>>

WriteRest ==
  /\ phase = "rest"
  /\ Idle
  /\ UNCHANGED <<ceremonies, files, genesis, stored, confirmed, events>>

(* The tool dies; a file being written may stay incomplete. *)
Crash ==
  /\ phase # "idle"
  /\ Idle
  /\ \/ UNCHANGED files
     \/ /\ phase = "write"
        /\ \E a \in draft :
             files' = [files EXCEPT !.attestation = {[Signed(a) EXCEPT !.whole = FALSE]}]
  /\ UNCHANGED <<ceremonies, genesis, stored, confirmed, events>>

---------------------------------------------------------------------------
(* Verification. *)

Evidenced(r) == \A s \in Used(r) : r[s].origin = "manual" => r[s].evidence

Within(r, lo, hi) == \A s \in Used(r) : r[s].value \in lo .. hi

(* verify_attestation hashes the fields the tool knows. *)
Verify(f) ==
  LET a == f.content IN
  /\ f.whole
  /\ f.hash = [a EXCEPT !.extra = FALSE]
  /\ f.sig = [key |-> a.key, hash |-> f.hash]
  /\ a.duration <= Window
  /\ Evidenced(a.production) /\ Evidenced(a.price)
  /\ Cardinality(Used(a.production)) >= MinProdSources
  /\ a.median2 = TrimmedMedian(a.production)
  /\ Used(a.price) # {} /\ a.price2 = TrimmedMedian(a.price)
  /\ a.reward = BaseReward(a.median2)

(* validate_ceremony_sources and validate_ceremony_reward_derivation: the  *)
(* node checks bounds where the tool checks medians, and no duration.      *)
ValidSources(a) ==
  /\ Cardinality(Used(a.production)) >= MinProdSources
  /\ Within(a.production, ProdMin, ProdMax)
  /\ Used(a.price) # {} /\ Within(a.price, PriceMin, PriceMax)
  /\ Evidenced(a.production) /\ Evidenced(a.price)

ValidDerivation(a) ==
  /\ a.median2 \in 2 * ProdMin .. 2 * ProdMax
  /\ a.price2 \in 2 * PriceMin .. 2 * PriceMax
  /\ a.reward > 0 /\ a.reward <= BaseReward(2 * ProdMax)
  /\ a.reward = BaseReward(a.median2)

(* load_genesis_config_from_attestation: the node hashes every field of    *)
(* the file.  Mutant: the signature is not checked.                        *)
AcceptsUnsigned(f, allowDry) ==
  /\ f.whole
  /\ ValidSources(f.content) /\ ValidDerivation(f.content)
  /\ f.hash = f.content
  /\ f.content.key = "dry" => allowDry

Accepts(f, allowDry) ==
  /\ f.whole
  /\ ValidSources(f.content) /\ ValidDerivation(f.content)
  /\ f.hash = f.content
  /\ f.content.key = "dry" => allowDry
  /\ f.sig = [key |-> f.content.key, hash |-> f.hash]

---------------------------------------------------------------------------
(* Nodes. *)

(* The genesis hash, which covers the attestation, must be that of the     *)
(* database; an empty database takes any.  Mutant: it always does.         *)
OpensAny(n, a) == TRUE

Opens(n, a) == stored[n] \subseteq {a}

StartNode(n, allowDry) ==
  /\ genesis[n] = {}
  /\ \E f \in files.attestation :
       /\ Accepts(f, allowDry) /\ Opens(n, f.content)
       /\ genesis' = [genesis EXCEPT ![n] = {[content |-> f.content, dry |-> allowDry /\ f.content.key = "dry"]}]
  /\ UNCHANGED <<toolVars, files, stored, confirmed, events>>

StopNode(n) ==
  /\ genesis[n] # {}
  /\ genesis' = [genesis EXCEPT ![n] = {}]
  /\ UNCHANGED <<toolVars, files, stored, confirmed, events>>

(* The genesis reaches the database with the first block. *)
FirstBlock(n) ==
  /\ genesis[n] # {} /\ stored[n] = {}
  /\ stored' = [stored EXCEPT ![n] = {g.content : g \in genesis[n]}]
  /\ UNCHANGED <<toolVars, files, genesis, confirmed, events>>

---------------------------------------------------------------------------
(* What happens to the file outside the tool. *)

Event == events < MaxEvents /\ events' = events + 1

(* Someone changes it, and may recompute the hash. *)
Edited(a) ==
  {[a EXCEPT !.extra = TRUE], [a EXCEPT !.reward = @ + 1],
   [a EXCEPT !.median2 = 2 * ProdMax, !.reward = BaseReward(2 * ProdMax)]}

Edit(rehash) ==
  /\ Event
  /\ \E f \in files.attestation : \E a \in Edited(f.content) :
       files' = [files EXCEPT !.attestation =
                   {[f EXCEPT !.content = a, !.hash = IF rehash THEN a ELSE @]}]
  /\ UNCHANGED <<toolVars, genesis, stored, confirmed>>

(* The file of another operator takes its place. *)
Replace ==
  /\ Event
  /\ phase = "idle"
  /\ files' = [files EXCEPT !.attestation = {Signed(Foreign)}]
  /\ UNCHANGED <<toolVars, genesis, stored, confirmed>>

---------------------------------------------------------------------------

Init ==
  /\ phase = "idle" /\ mode = "none" /\ key = "none" /\ clock = 0
  /\ production = {} /\ draft = {} /\ ceremonies = 0 /\ events = 0
  /\ files = [keyFile |-> FALSE, attestation |-> {}]
  /\ genesis = [n \in Nodes |-> {}] /\ stored = [n \in Nodes |-> {}]
  /\ confirmed = {Foreign}

Next ==
  \/ \E m \in {"auto", "manual", "dry"}, k \in {"generated", "supplied", "dry"} : Begin(m, k)
  \/ \E r \in [ProdSources -> Collected(mode, ProdMin, ProdMax)], d \in Delays :
       CollectProduction(r, d)
  \/ WindowExceeded
  \/ \E r \in [PriceSources -> Collected(mode, PriceMin, PriceMax)], d \in Delays :
       CollectPrices(r, d)
  \/ Confirm \/ Decline \/ WriteAttestation \/ WriteRest \/ Crash
  \/ \E n \in Nodes :
       \/ \E allowDry \in BOOLEAN : StartNode(n, allowDry)
       \/ StopNode(n) \/ FirstBlock(n)
  \/ \E rehash \in BOOLEAN : Edit(rehash)
  \/ Replace

Spec == Init /\ [][Next]_vars

---------------------------------------------------------------------------
(* Properties. *)

(* What the tool writes is of use: if it was done within the window and at *)
(* least one price was found, the tool's own verification passes and, save *)
(* for a dry run, every node accepts it, although the two check different  *)
(* things and hash different fields.                                       *)
WrittenIsUsable ==
  \A f \in files.attestation :
    LET a == f.content IN
    (f = Signed(a) /\ a \in confirmed /\ a.duration <= Window /\ a.price2 > 0)
      => Verify(f) /\ (Accepts(f, FALSE) \/ a.key = "dry")

(* A node runs on what an operator confirmed, field by field, whatever     *)
(* happened to the file and wherever the tool was interrupted, and on a    *)
(* dry run only if told so.                                                *)
LoadedWasConfirmed ==
  \A n \in Nodes : \A g \in genesis[n] :
    g.content \in confirmed /\ (g.content.key = "dry" => g.dry)

(* A node that has a block in its database never runs on another genesis.  *)
GenesisPinned ==
  [][\A n \in Nodes : stored[n] # {} =>
       /\ stored'[n] = stored[n]
       /\ {g.content : g \in genesis'[n]} \subseteq stored[n]]_vars

(* As long as most of the figures used are right, so is the median, and    *)
(* the reward is one that right figures alone can give; outliers are only  *)
(* marked, it is the median that keeps them out.                           *)
MedianRobust ==
  \A a \in draft :
    LET wrong == {s \in Used(a.production) :
                    a.production[s].value \notin HonestLow .. HonestHigh}
    IN 2 * Cardinality(wrong) < Cardinality(Used(a.production)) =>
         a.reward \in BaseReward(2 * HonestLow) .. BaseReward(2 * HonestHigh)
=============================================================================
