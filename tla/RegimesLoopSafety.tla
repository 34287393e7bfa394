--------------------------- MODULE RegimesLoopSafety --------------------------
(***************************************************************************)
(* Proofs about the regimes improvement loop.                              *)
(*                                                                         *)
(* The labels of an evaluation are ranked by how often they occur.  Most   *)
(* of what follows is about that ranking: who comes first always acts, and *)
(* who always has two others in front of it never does.                    *)
(***************************************************************************)
EXTENDS RegimesLoop, FiniteSetTheorems, TLAPS

USE RegimesAssumption

-----------------------------------------------------------------------------
(* Labels and ranks.                                                       *)

(* There are finitely many labels.                                         *)
LEMMA RegimesFinite == IsFiniteSet(Regimes)
<1>. DEFINE label == [k \in 1 .. 12 |-> LabelOrder[k]]
<1>1. DOMAIN LabelOrder = 1 .. 12
  BY DEF LabelOrder
<1>2. Regimes = {label[k] : k \in 1 .. 12}
  BY <1>1 DEF Regimes
<1>3. \A n \in Nat : IsFiniteSet(1 .. n)
  BY FS_Interval
<1>4. IsFiniteSet(1 .. 12)
  BY <1>3
<1>5. label \in Surjection(1 .. 12, Regimes)
  <2>1. label \in [1 .. 12 -> Regimes]
    BY <1>1, <1>2
  <2>2. \A r \in Regimes : \E k \in 1 .. 12 : label[k] = r
    BY <1>2
  <2>. HIDE DEF label
  <2>. QED  BY <2>1, <2>2 DEF Surjection
<1>. HIDE DEF label
<1>. QED  BY <1>4, <1>5, FS_Surjection

LEMMA RankType == \A r, seen : Rank(r, seen) \in Nat
<1>. SUFFICES ASSUME NEW r, NEW seen PROVE Rank(r, seen) \in Nat
  OBVIOUS
<1>. DEFINE S == {s \in Regimes : Before(s, r, seen)}
<1>1. IsFiniteSet(S)
  BY RegimesFinite, FS_Subset
<1>. QED  BY <1>1, FS_CardinalityType DEF Rank

LEMMA RepairsType ==
    \A x \in Repairs : x.place \in Nat \ {0} /\ x.knob \in Knobs /\ x.delta \in Int
BY DEF Repairs, Repair, Knobs

LEMMA OffersType == \A seen : Offers(seen) \subseteq OfferType
<1>. SUFFICES ASSUME NEW seen, NEW x \in Repairs PROVE Offer(x, seen) \in OfferType
  BY DEF Offers, Asked
<1>1. Rank(x.regime, seen) \in Nat
  BY RankType
<1>. QED  BY <1>1, RepairsType DEF OfferType, Offer

LEMMA UpdateType == \A run : ProposedUpdate(run) \subseteq Offers(Seen(run))
BY DEF ProposedUpdate, Capped, Kept

-----------------------------------------------------------------------------
(* The bundle an update gives.                                             *)

LEMMA BoundsType ==
    ASSUME NEW knob
    PROVE  Low(knob) \in Int /\ High(knob) \in Int /\ Low(knob) <= High(knob)
BY DEF Low, High

LEMMA ClampBounds ==
    ASSUME NEW x \in Int, NEW lo \in Int, NEW hi \in Int, lo <= hi
    PROVE  Clamp(x, lo, hi) \in lo .. hi
BY DEF Clamp

LEMMA ApplyBounds ==
    ASSUME NEW b \in [Knobs -> Int], NEW changes, changes \subseteq OfferType,
           NEW knob \in Knobs
    PROVE  /\ (\E m \in changes : m.knob = knob) =>
                 Apply(b, changes)[knob] \in Low(knob) .. High(knob)
           /\ ~(\E m \in changes : m.knob = knob) => Apply(b, changes)[knob] = b[knob]
<1>1. CASE \E m \in changes : m.knob = knob
  <2>. DEFINE d == (CHOOSE m \in changes : m.knob = knob).delta
  <2>1. d \in Int
    BY <1>1 DEF OfferType
  <2>2. Apply(b, changes)[knob] = Clamp(b[knob] + d, Low(knob), High(knob))
    BY <1>1 DEF Apply
  <2>3. b[knob] + d \in Int
    BY <2>1
  <2>. HIDE DEF d
  <2>. QED  BY <1>1, <2>2, <2>3, BoundsType, ClampBounds
<1>2. CASE ~(\E m \in changes : m.knob = knob)
  BY <1>2 DEF Apply
<1>. QED  BY <1>1, <1>2

LEMMA ApplyType ==
    ASSUME NEW b \in [Knobs -> Int], NEW changes, changes \subseteq OfferType
    PROVE  Apply(b, changes) \in [Knobs -> Int]
<1>1. ASSUME NEW knob \in Knobs PROVE Apply(b, changes)[knob] \in Int
  BY ApplyBounds, BoundsType
<1>2. Apply(b, changes) = [knob \in Knobs |-> Apply(b, changes)[knob]]
  BY DEF Apply
<1>. QED  BY <1>1, <1>2

-----------------------------------------------------------------------------
(* Rates.                                                                  *)

LEMMA RateIsRate ==
    ASSUME NEW n \in Nat, NEW run, DOMAIN run = 1 .. n
    PROVE  Rate(run) \in RateType
<1>1. IsFiniteSet(1 .. n) /\ IsFiniteSet(1 .. Budget)
  BY FS_Interval
<1>2. Correct(run) \in Nat
  <2>. DEFINE S == {i \in DOMAIN run : run[i].correct}
  <2>1. IsFiniteSet(S)
    BY <1>1, FS_Subset
  <2>. QED  BY <2>1, FS_CardinalityType DEF Correct
<1>3. Calls(run) \in Nat
  <2>. DEFINE S == {p \in (DOMAIN run) \X (1 .. Budget) : p[2] <= run[p[1]].calls}
  <2>1. IsFiniteSet((DOMAIN run) \X (1 .. Budget))
    BY <1>1, FS_Product
  <2>2. IsFiniteSet(S)
    BY <2>1, FS_Subset
  <2>. QED  BY <2>2, FS_CardinalityType DEF Calls
<1>. QED  BY <1>2, <1>3 DEF Rate, RateType

(* No gain is a gain of MinDelta.                                          *)
LEMMA NoGain ==
    ASSUME NEW rate \in RateType
    PROVE  ~OptimizeGate(rate, rate)
<1>1. rate.num \in Nat /\ rate.den \in Nat \ {0}
  BY DEF RateType
<1>2. PICK n \in Nat, d \in Nat \ {0} : rate.num = n /\ rate.den = d
  BY <1>1
<1>3. n * d - n * d = 0
  OBVIOUS
<1>4. MinDelta * d \in Nat \ {0}
  <2>1. MinDelta \in Nat /\ MinDelta >= 1 /\ d >= 1
    OBVIOUS
  <2>. QED  BY <2>1
<1>5. (MinDelta * d) * d > 0
  BY <1>4
<1>6. ~ (100 * (n * d - n * d) >= MinDelta * d * d)
  BY <1>3, <1>5
<1>. QED  BY <1>2, <1>6 DEF OptimizeGate, Gains

-----------------------------------------------------------------------------
(* The inductive invariant.                                                *)

SameBundleSameRuns ==
    pc \in {"gate", "done"} /\ bundle = base => candidate = baseline

Proposed ==
    /\ pc \in {"baseline", "propose"} => update = {} /\ bundle = base
    /\ pc \in {"candidate", "gate", "done"} =>
          /\ update = ProposedUpdate(baseline.optimize)
          /\ bundle = Apply(base, update)

LoopInv ==
    /\ TypeOK
    /\ Proposed
    /\ SameBundleSameRuns
    /\ pc # "done" => ~decision.accepted
    /\ IneffectiveRejected

LEMMA RunRates ==
    ASSUME NEW runs \in Runs \cup {NoRun}
    PROVE  Rate(runs.optimize) \in RateType /\ Rate(runs.confirm) \in RateType
<1>1. CASE runs \in Runs
  <2>1. DOMAIN runs.optimize = 1 .. NOptimize /\ DOMAIN runs.confirm = 1 .. NConfirm
    BY <1>1 DEF Runs
  <2>. QED  BY <2>1, RateIsRate
<1>2. CASE runs = NoRun
  <2>1. DOMAIN runs.optimize = 1 .. 0 /\ DOMAIN runs.confirm = 1 .. 0
    BY <1>2 DEF NoRun
  <2>. QED  BY <2>1, RateIsRate
<1>. QED  BY <1>1, <1>2

LEMMA LoopInit == Init => LoopInv
<1>. SUFFICES ASSUME Init PROVE LoopInv
  OBVIOUS
<1>1. base \in [Knobs -> Int] /\ bundle \in [Knobs -> Int]
  BY DEF Init
<1>2. decision \in [accepted : BOOLEAN, before : RateType, after : RateType]
  BY DEF Init, NoDecision, RateType
<1>3. TypeOK
  BY <1>1, <1>2 DEF Init, TypeOK
<1>. QED  BY <1>3 DEF Init, LoopInv, Proposed, SameBundleSameRuns, IneffectiveRejected,
                      NoDecision

LEMMA BaselineKeeps == LoopInv /\ Baseline => LoopInv'
<1>. SUFFICES ASSUME LoopInv, Baseline PROVE LoopInv'
  OBVIOUS
<1>1. TypeOK'
  BY DEF LoopInv, TypeOK, Baseline
<1>. QED  BY <1>1 DEF LoopInv, Baseline, Proposed, SameBundleSameRuns, IneffectiveRejected

LEMMA ProposeKeeps == LoopInv /\ Propose => LoopInv'
<1>. SUFFICES ASSUME LoopInv, Propose PROVE LoopInv'
  OBVIOUS
<1>1. update' \subseteq OfferType
  BY OffersType, UpdateType DEF Propose
<1>2. bundle' \in [Knobs -> Int]
  BY <1>1, ApplyType DEF Propose, LoopInv, TypeOK
<1>3. TypeOK'
  BY <1>1, <1>2 DEF LoopInv, TypeOK, Propose
<1>. QED  BY <1>3 DEF LoopInv, Propose, Proposed, SameBundleSameRuns, IneffectiveRejected

LEMMA CandidateKeeps == LoopInv /\ Candidate => LoopInv'
<1>. SUFFICES ASSUME LoopInv, Candidate PROVE LoopInv'
  OBVIOUS
<1>1. candidate' \in Runs \cup {NoRun}
  BY DEF LoopInv, TypeOK, Candidate
<1>2. TypeOK'
  BY <1>1 DEF LoopInv, TypeOK, Candidate
<1>. QED  BY <1>2 DEF LoopInv, Candidate, Proposed, SameBundleSameRuns, IneffectiveRejected

LEMMA GateKeeps == LoopInv /\ Gate => LoopInv'
<1>. SUFFICES ASSUME LoopInv, Gate PROVE LoopInv'
  OBVIOUS
<1>1. /\ Rate(baseline.optimize) \in RateType /\ Rate(baseline.confirm) \in RateType
      /\ Rate(candidate.confirm) \in RateType
  BY RunRates DEF LoopInv, TypeOK
<1>2. decision'.accepted = (/\ OptimizeGate(Rate(baseline.optimize), Rate(candidate.optimize))
                            /\ ConfirmGate(Rate(baseline.confirm), Rate(candidate.confirm)))
  BY DEF Gate
<1>3. decision' \in [accepted : BOOLEAN, before : RateType, after : RateType]
  <2>1. (/\ OptimizeGate(Rate(baseline.optimize), Rate(candidate.optimize))
         /\ ConfirmGate(Rate(baseline.confirm), Rate(candidate.confirm))) \in BOOLEAN
    OBVIOUS
  <2>. QED  BY <1>1, <2>1 DEF Gate
<1>4. TypeOK'
  BY <1>3 DEF LoopInv, TypeOK, Gate
<1>5. SameBundleSameRuns' /\ Proposed'
  BY DEF LoopInv, Gate, SameBundleSameRuns, Proposed
<1>6. IneffectiveRejected'
  <2>. SUFFICES ASSUME bundle = base PROVE ~ decision'.accepted
    BY DEF Gate, IneffectiveRejected
  <2>1. candidate = baseline
    BY DEF LoopInv, SameBundleSameRuns, Gate
  <2>2. ~OptimizeGate(Rate(baseline.optimize), Rate(candidate.optimize))
    BY <2>1, <1>1, NoGain
  <2>. QED  BY <2>2, <1>2
<1>7. pc' = "done"
  BY DEF Gate
<1>. QED  BY <1>4, <1>5, <1>6, <1>7 DEF LoopInv

LEMMA LoopAlways == Spec => []LoopInv
<1>1. LoopInv /\ UNCHANGED vars => LoopInv'
  BY DEF LoopInv, vars, TypeOK, Proposed, SameBundleSameRuns, IneffectiveRejected
<1>2. LoopInv /\ [Next]_vars => LoopInv'
  BY <1>1, BaselineKeeps, ProposeKeeps, CandidateKeeps, GateKeeps DEF Next
<1>. QED  BY <1>2, LoopInit, PTL DEF Spec

-----------------------------------------------------------------------------
(* Every reachable state of the loop is well typed: an update is made of   *)
(* offers, a bundle of numbers, and every rate is a fraction.              *)
THEOREM RegimesTypes == Spec => []TypeOK
<1>1. LoopInv => TypeOK
  BY DEF LoopInv
<1>. QED  BY <1>1, LoopAlways, PTL

(* What an update names ends within its bounds, from any bundle, and the   *)
(* rest of the bundle is untouched.                                        *)
THEOREM UpdatesStayBounded == Spec => []UpdateBounded
<1>1. LoopInv => UpdateBounded
  <2>. SUFFICES ASSUME LoopInv PROVE UpdateBounded
    OBVIOUS
  <2>1. CASE pc \in {"baseline", "propose"}
    BY <2>1 DEF LoopInv, Proposed, UpdateBounded, Changed
  <2>2. CASE pc \in {"candidate", "gate", "done"}
    <3>1. bundle = Apply(base, update) /\ update \subseteq OfferType
          /\ base \in [Knobs -> Int]
      BY <2>2 DEF LoopInv, Proposed, TypeOK
    <3>. QED  BY <3>1, ApplyBounds DEF UpdateBounded, Changed
  <2>. QED  BY <2>1, <2>2 DEF LoopInv, TypeOK
<1>. QED  BY <1>1, LoopAlways, PTL

(* An update without effect is never promoted.                             *)
THEOREM NothingForNothing == Spec => []IneffectiveRejected
<1>1. LoopInv => IneffectiveRejected
  BY DEF LoopInv
<1>. QED  BY <1>1, LoopAlways, PTL

-----------------------------------------------------------------------------
(* The regime in front acts.                                               *)

LEMMA FirstIsKept ==
    ASSUME NEW seen, NEW x \in Asked(Dominant(seen)),
           Rank(x.regime, seen) = 0, x.place = 1
    PROVE  Offer(x, seen) \in Capped(Kept(Offers(seen)))
<1>1. Offer(x, seen) \in Offers(seen)
  BY DEF Offers
<1>2. ASSUME NEW y \in Offers(seen) PROVE ~Ahead(y, Offer(x, seen))
  <2>1. PICK z \in Repairs : y = Offer(z, seen)
    BY DEF Offers, Asked
  <2>2. y.rank \in Nat /\ y.place \in Nat \ {0}
    BY <2>1, RankType, RepairsType DEF Offer
  <2>3. Offer(x, seen).rank = 0 /\ Offer(x, seen).place = 1
    BY DEF Offer
  <2>. QED  BY <2>2, <2>3 DEF Ahead
<1>3. Offer(x, seen) \in Kept(Offers(seen))
  BY <1>1, <1>2 DEF Kept
<1>4. {y \in Kept(Offers(seen)) : Ahead(y, Offer(x, seen))} = {}
  BY <1>2 DEF Kept
<1>5. Cardinality({y \in Kept(Offers(seen)) : Ahead(y, Offer(x, seen))}) = 0
  BY <1>4, FS_EmptySet
<1>. QED  BY <1>3, <1>5 DEF Capped

(* The most frequent regime's first repair is in the update, for any       *)
(* number of items and any attempts.                                       *)
THEOREM StrongestActs == Spec => []StrongestRegimeActs
<1>1. LoopInv => StrongestRegimeActs
  <2>. SUFFICES ASSUME LoopInv, pc = "candidate",
                       NEW x \in Asked(Dominant(Seen(baseline.optimize))),
                       Rank(x.regime, Seen(baseline.optimize)) = 0, x.place = 1
                PROVE  \E m \in update : m.knob = x.knob /\ m.delta = x.delta
    BY DEF StrongestRegimeActs
  <2>1. update = ProposedUpdate(baseline.optimize)
    BY DEF LoopInv, Proposed
  <2>2. Offer(x, Seen(baseline.optimize)) \in update
    BY <2>1, FirstIsKept DEF ProposedUpdate
  <2>. QED  BY <2>2 DEF Offer
<1>. QED  BY <1>1, LoopAlways, PTL

-----------------------------------------------------------------------------
(* Sparse evidence has two regimes in front of it.                         *)

LEMMA SparseOnlyMisses ==
    ASSUME NEW a
    PROVE  "evidence_sparse" \in Labels(a) =>
              {"route_miss", "query_miss"} \subseteq Labels(a)
BY DEF Labels

LEMMA SparseIsBehind ==
    ASSUME NEW n \in Nat, NEW run, DOMAIN run = 1 .. n,
           NEW r \in {"route_miss", "query_miss"}
    PROVE  r \in Regimes /\ Before(r, "evidence_sparse", Seen(run))
<1>1. r \in Regimes
  <2>1. 6 \in DOMAIN LabelOrder /\ LabelOrder[6] = "route_miss"
    BY DEF LabelOrder
  <2>2. 7 \in DOMAIN LabelOrder /\ LabelOrder[7] = "query_miss"
    BY DEF LabelOrder
  <2>. QED  BY <2>1, <2>2 DEF Regimes
<1>2. Listed(r, "evidence_sparse")
  <2>1. /\ {6, 7, 8} \subseteq DOMAIN LabelOrder
        /\ LabelOrder[6] = "route_miss" /\ LabelOrder[7] = "query_miss"
        /\ LabelOrder[8] = "evidence_sparse"
    BY DEF LabelOrder
  <2>2. CASE r = "route_miss"
    BY <2>1, <2>2 DEF Listed
  <2>3. CASE r = "query_miss"
    BY <2>1, <2>3 DEF Listed
  <2>. QED  BY <2>2, <2>3
<1>3. With("evidence_sparse", Seen(run)) \subseteq With(r, Seen(run))
  BY SparseOnlyMisses DEF With, Seen
<1>4. IsFiniteSet(With(r, Seen(run))) /\ IsFiniteSet(With("evidence_sparse", Seen(run)))
  <2>1. IsFiniteSet(1 .. n)
    BY FS_Interval
  <2>2. With(r, Seen(run)) \subseteq 1 .. n /\ With("evidence_sparse", Seen(run)) \subseteq 1 .. n
    BY DEF With, Seen
  <2>. QED  BY <2>1, <2>2, FS_Subset
<1>5. Cardinality(With("evidence_sparse", Seen(run))) <= Cardinality(With(r, Seen(run)))
  BY <1>3, <1>4, FS_Subset
<1>6. /\ Cardinality(With("evidence_sparse", Seen(run))) \in Nat
      /\ Cardinality(With(r, Seen(run))) \in Nat
  BY <1>4, FS_CardinalityType
<1>7. AppearsFirst(r, "evidence_sparse", Seen(run))
  BY <1>2, <1>3 DEF AppearsFirst
<1>. QED  BY <1>1, <1>5, <1>6, <1>7 DEF Before

LEMMA SparseRank ==
    ASSUME NEW n \in Nat, NEW run, DOMAIN run = 1 .. n
    PROVE  Rank("evidence_sparse", Seen(run)) >= 2
<1>. DEFINE S == {s \in Regimes : Before(s, "evidence_sparse", Seen(run))}
<1>1. {"route_miss", "query_miss"} \subseteq S
  BY SparseIsBehind
<1>2. IsFiniteSet(S)
  BY RegimesFinite, FS_Subset
<1>3. Cardinality({"route_miss", "query_miss"}) = 2
  <2>1. IsFiniteSet({"route_miss"}) /\ Cardinality({"route_miss"}) = 1
    BY FS_Singleton
  <2>2. {"route_miss", "query_miss"} = {"route_miss"} \cup {"query_miss"}
        /\ "query_miss" \notin {"route_miss"}
    OBVIOUS
  <2>3. Cardinality({"route_miss"} \cup {"query_miss"}) = Cardinality({"route_miss"}) + 1
    BY <2>1, <2>2, FS_AddElement
  <2>. QED  BY <2>1, <2>2, <2>3
<1>4. Cardinality({"route_miss", "query_miss"}) <= Cardinality(S)
  BY <1>1, <1>2, FS_Subset
<1>5. Cardinality(S) \in Nat
  BY <1>2, FS_CardinalityType
<1>6. Rank("evidence_sparse", Seen(run)) = Cardinality(S)
  BY DEF Rank
<1>. QED  BY <1>3, <1>4, <1>5, <1>6

(* With two places in an update, the repair documented for sparse evidence *)
(* is never asked for, for any number of items and any attempts.           *)
THEOREM SparseIsSilent == Spec => []SparseRepairIsDead
<1>1. LoopInv => SparseRepairIsDead
  <2>. SUFFICES ASSUME LoopInv, TopK <= 2, NEW m \in update, m.delta = 400
                PROVE  FALSE
    BY DEF SparseRepairIsDead
  <2>1. pc \in {"candidate", "gate", "done"}
        /\ update = ProposedUpdate(baseline.optimize)
    BY DEF LoopInv, Proposed, TypeOK
  <2>2. PICK x \in Repairs : x.regime \in Dominant(Seen(baseline.optimize))
                            /\ m = Offer(x, Seen(baseline.optimize))
    BY <2>1, UpdateType DEF Offers, Asked
  <2>3. x.regime = "evidence_sparse"
    BY <2>2 DEF Repairs, Repair, Offer
  <2>4. PICK n \in Nat : DOMAIN baseline.optimize = 1 .. n
    <3>1. CASE baseline \in Runs
      BY <3>1 DEF Runs
    <3>2. CASE baseline = NoRun
      <4>1. DOMAIN baseline.optimize = 1 .. 0
        BY <3>2 DEF NoRun
      <4>. QED  BY <4>1
    <3>. QED  BY <3>1, <3>2 DEF LoopInv, TypeOK
  <2>5. Rank(x.regime, Seen(baseline.optimize)) >= 2
    BY <2>3, <2>4, SparseRank
  <2>6. Rank(x.regime, Seen(baseline.optimize)) < TopK
    BY <2>2 DEF Dominant
  <2>7. Rank(x.regime, Seen(baseline.optimize)) \in Nat
    BY RankType
  <2>. QED  BY <2>5, <2>6, <2>7
<1>. QED  BY <1>1, LoopAlways, PTL

=============================================================================
