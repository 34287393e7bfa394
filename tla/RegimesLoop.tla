----------------------------- MODULE RegimesLoop ------------------------------
(***************************************************************************)
(* One run of the regimes improvement loop: evaluate a bundle of policy    *)
(* parameters, label the failures of its OPTIMIZE attempts, propose a      *)
(* bounded update for the dominant labels, evaluate the updated bundle,    *)
(* and accept it or not by an OPTIMIZE gate and a CONFIRM gate.            *)
(*                                                                         *)
(* Parameters are in hundredths.  An attempt is abstracted to what its     *)
(* reward flags and its labels read.  An evaluation learns a memory of its *)
(* own and ends with a deterministic measurement (explore is off), so its  *)
(* result is any function of the bundle.                                   *)
(*                                                                         *)
(* An operator named ...Mutant is a defective form of the definition that  *)
(* follows it; only the sensitivity runs of the README use it.             *)
(***************************************************************************)
EXTENDS Integers, Sequences, FiniteSets

CONSTANTS
    NOptimize,      \* OPTIMIZE items, 1 .. NOptimize in order
    NConfirm,       \* CONFIRM items
    Budget,         \* gate_budget: the calls an attempt may make
    Attempts,       \* the attempts an item may end with
    Bundles,        \* the bundles the loop may be started with
    TopK,           \* regimes an update targets (2 in the code)
    MaxMutations,   \* mutations of an update (3 in the code)
    MinDelta,       \* hundredths the OPTIMIZE metric must gain
    MaxRegression   \* hundredths the CONFIRM metric may lose

Knobs == {"freshness", "extra_call_penalty", "cost_weight", "exploration_coeff",
          "recency_decay", "confidence_penalty", "stop_threshold",
          "authority_threshold", "nearest_k"}

AttemptType ==
    [calls : 0 .. Budget, hit : 0 .. Budget, stopped : BOOLEAN, correct : BOOLEAN,
     abstained : BOOLEAN, supported : BOOLEAN, authority : BOOLEAN,
     fresh : BOOLEAN, sensitive : BOOLEAN, contradiction : BOOLEAN,
     strong : BOOLEAN]

(* hit is the first call that surfaced the gold answer, 0 for none.  An    *)
(* abstention is never correct, and a stop decision follows a call.        *)
ASSUME RegimesAssumption ==
    /\ NOptimize \in Nat
    /\ NConfirm \in Nat
    /\ Budget \in Nat
    /\ Attempts \subseteq AttemptType
    /\ \A a \in Attempts :
          /\ a.hit <= a.calls
          /\ a.stopped => a.calls > 0
          /\ a.abstained => ~a.correct
    /\ Bundles \subseteq [Knobs -> Int]
    /\ TopK \in Nat \ {0}
    /\ MaxMutations \in Nat \ {0}
    /\ MinDelta \in Nat \ {0}
    /\ MaxRegression \in Nat

VARIABLES
    pc,         \* "baseline", "propose", "candidate", "gate" or "done"
    base,       \* the bundle the loop was started with
    baseline,   \* its attempts on both splits
    update,     \* the proposed mutations
    bundle,     \* the bundle they give
    candidate,  \* its attempts on both splits
    decision    \* the gates' verdict

vars == <<pc, base, baseline, update, bundle, candidate, decision>>

-----------------------------------------------------------------------------
(* The flags of an attempt's reward.                                       *)

Unfinished(a) == a.stopped /\ a.calls < Budget

FalseStop(a) == Unfinished(a) /\ ~a.correct
UnderSearch(a) == FalseStop(a) /\ a.hit = 0
OverSearch(a) == a.correct /\ a.hit > 0 /\ a.calls > a.hit
StaleError(a) == a.sensitive /\ a.supported /\ ~a.fresh

-----------------------------------------------------------------------------
(* The failure regimes of an attempt.                                      *)

(* In the order in which detect_regimes appends them.                      *)
LabelOrder ==
    <<"over_search", "stop_too_late", "stop_too_early", "under_search",
      "stale_evidence", "route_miss", "query_miss", "evidence_sparse",
      "answer_extraction_miss", "support_answer_mismatch", "verification_miss",
      "contradiction_unresolved">>

Regimes == {LabelOrder[k] : k \in DOMAIN LabelOrder}

Miss(a) == ~a.correct /\ a.hit = 0

Labels(a) ==
    UNION {
        IF OverSearch(a) THEN {"over_search", "stop_too_late"} ELSE {},
        IF FalseStop(a) THEN {"stop_too_early"} ELSE {},
        IF UnderSearch(a) THEN {"under_search"} ELSE {},
        IF StaleError(a) THEN {"stale_evidence"} ELSE {},
        IF Miss(a) THEN {"route_miss", "query_miss"} ELSE {},
        IF Miss(a) /\ a.calls <= 1 THEN {"evidence_sparse"} ELSE {},
        IF ~a.correct /\ a.hit > 0 THEN {"answer_extraction_miss"} ELSE {},
        IF a.correct /\ ~a.strong THEN {"support_answer_mismatch"} ELSE {},
        IF ~a.correct /\ ~a.abstained /\ ~a.authority
            THEN {"verification_miss"} ELSE {},
        IF a.contradiction /\ ~a.correct THEN {"contradiction_unresolved"} ELSE {}}

(* The labels of each item, the items with a label, and the order in which *)
(* the counter lists the labels: by count, then by first appearance.       *)
Seen(run) == [i \in DOMAIN run |-> Labels(run[i])]

With(r, seen) == {i \in DOMAIN seen : r \in seen[i]}

Listed(r, s) ==
    \E m, n \in DOMAIN LabelOrder :
        LabelOrder[m] = r /\ LabelOrder[n] = s /\ m < n

AppearsFirst(r, s, seen) ==
    \A k \in With(s, seen) : \E i \in With(r, seen) :
        i < k \/ (i = k /\ Listed(r, s))

Before(r, s, seen) ==
    \/ Cardinality(With(r, seen)) > Cardinality(With(s, seen))
    \/ /\ Cardinality(With(r, seen)) = Cardinality(With(s, seen))
       /\ AppearsFirst(r, s, seen)

Rank(r, seen) == Cardinality({s \in Regimes : Before(s, r, seen)})

Dominant(seen) == {r \in Regimes : With(r, seen) # {} /\ Rank(r, seen) < TopK}

-----------------------------------------------------------------------------
(* The update.                                                             *)

Repair(regime, place, knob, delta) ==
    [regime |-> regime, place |-> place, knob |-> knob, delta |-> delta]

Repairs ==
    {Repair("over_search", 1, "stop_threshold", -10),
     Repair("over_search", 2, "extra_call_penalty", 10),
     Repair("stop_too_late", 1, "stop_threshold", -10),
     Repair("stop_too_early", 1, "stop_threshold", 10),
     Repair("under_search", 1, "stop_threshold", 10),
     Repair("stale_evidence", 1, "freshness", 20),
     Repair("stale_evidence", 2, "authority_threshold", -5),
     Repair("route_miss", 1, "exploration_coeff", 20),
     Repair("route_miss", 2, "cost_weight", -20),
     Repair("query_miss", 1, "exploration_coeff", 20),
     Repair("evidence_sparse", 1, "nearest_k", 400),
     Repair("verification_miss", 1, "authority_threshold", 5),
     Repair("contradiction_unresolved", 1, "authority_threshold", 5),
     Repair("answer_extraction_miss", 1, "nearest_k", 200),
     Repair("support_answer_mismatch", 1, "authority_threshold", 5)}

(* What the dominant regimes ask for, in their order and in that of each   *)
(* regime's list.                                                          *)
Offer(x, seen) ==
    [rank |-> Rank(x.regime, seen), place |-> x.place, knob |-> x.knob,
     delta |-> x.delta]

Asked(regimes) == {x \in Repairs : x.regime \in regimes}

Offers(seen) == {Offer(x, seen) : x \in Asked(Dominant(seen))}

Ahead(x, y) == x.rank < y.rank \/ (x.rank = y.rank /\ x.place < y.place)

(* The first offer for a parameter is kept, and no more than MaxMutations. *)
KeptMutant(offers) ==
    {x \in offers : \A y \in offers : y.knob = x.knob => ~Ahead(x, y)}

Kept(offers) ==
    {x \in offers : \A y \in offers : y.knob = x.knob => ~Ahead(y, x)}

Capped(kept) ==
    {x \in kept : Cardinality({y \in kept : Ahead(y, x)}) < MaxMutations}

ProposedUpdate(run) == Capped(Kept(Offers(Seen(run))))

Low(knob) ==
    IF knob = "recency_decay" THEN 80
    ELSE IF knob = "stop_threshold" THEN 10
    ELSE IF knob = "authority_threshold" THEN 30
    ELSE IF knob = "nearest_k" THEN 100
    ELSE 0

High(knob) ==
    IF knob = "freshness" THEN 150
    ELSE IF knob = "cost_weight" THEN 300
    ELSE IF knob = "exploration_coeff" THEN 200
    ELSE IF knob \in {"stop_threshold", "authority_threshold"} THEN 95
    ELSE IF knob = "nearest_k" THEN 3200
    ELSE 100

Clamp(x, lo, hi) ==
    IF x < lo THEN lo
    ELSE IF x > hi THEN hi ELSE x

Apply(b, changes) ==
    [knob \in Knobs |->
        IF \E m \in changes : m.knob = knob
        THEN Clamp(b[knob] + (CHOOSE m \in changes : m.knob = knob).delta,
                   Low(knob), High(knob))
        ELSE b[knob]]

-----------------------------------------------------------------------------
(* The gates.                                                              *)

Correct(run) == Cardinality({i \in DOMAIN run : run[i].correct})

(* tool calls of an evaluation: the attempts that made a k-th call         *)
Calls(run) ==
    Cardinality({p \in (DOMAIN run) \X (1 .. Budget) : p[2] <= run[p[1]].calls})

RateMutant(run) == [num |-> Correct(run), den |-> Calls(run)]

(* correct_per_tool_call, which is 0 without a call.                       *)
Rate(run) ==
    IF Calls(run) = 0 THEN [num |-> 0, den |-> 1]
    ELSE [num |-> Correct(run), den |-> Calls(run)]

(* after - before >= least, in hundredths                                  *)
Gains(before, after, least) ==
    100 * (after.num * before.den - before.num * after.den)
        >= least * before.den * after.den

OptimizeGate(before, after) == Gains(before, after, MinDelta)

ConfirmGate(before, after) == Gains(before, after, -MaxRegression)

-----------------------------------------------------------------------------
Runs == [optimize : [1 .. NOptimize -> Attempts], confirm : [1 .. NConfirm -> Attempts]]

NoRun == [optimize |-> << >>, confirm |-> << >>]

NoDecision ==
    [accepted |-> FALSE, before |-> [num |-> 0, den |-> 1],
     after |-> [num |-> 0, den |-> 1]]

Init ==
    /\ pc = "baseline"
    /\ base \in Bundles
    /\ baseline = NoRun
    /\ update = {}
    /\ bundle = base
    /\ candidate = NoRun
    /\ decision = NoDecision

Baseline ==
    /\ pc = "baseline"
    /\ pc' = "propose"
    /\ baseline' \in Runs
    /\ UNCHANGED <<base, update, bundle, candidate, decision>>

Propose ==
    /\ pc = "propose"
    /\ pc' = "candidate"
    /\ update' = ProposedUpdate(baseline.optimize)
    /\ bundle' = Apply(base, update')
    /\ UNCHANGED <<base, baseline, candidate, decision>>

(* The same bundle gives the same attempts: fresh agent, fresh memory.     *)
Candidate ==
    /\ pc = "candidate"
    /\ pc' = "gate"
    /\ candidate' \in IF bundle = base THEN {baseline} ELSE Runs
    /\ UNCHANGED <<base, baseline, update, bundle, decision>>

Gate ==
    /\ pc = "gate"
    /\ pc' = "done"
    /\ decision' =
          [accepted |->
              /\ OptimizeGate(Rate(baseline.optimize), Rate(candidate.optimize))
              /\ ConfirmGate(Rate(baseline.confirm), Rate(candidate.confirm)),
           before |-> Rate(baseline.confirm),
           after |-> Rate(candidate.confirm)]
    /\ UNCHANGED <<base, baseline, update, bundle, candidate>>

Next == Baseline \/ Propose \/ Candidate \/ Gate

Spec == Init /\ [][Next]_vars

-----------------------------------------------------------------------------
(* Properties.                                                             *)

RateType == [num : Nat, den : Nat \ {0}]
OfferType == [rank : Nat, place : Nat, knob : Knobs, delta : Int]

(* Types; a rate is a fraction, also of an evaluation without a call       *)
(* (compute_metrics's _safe_div).                                          *)
TypeOK ==
    /\ pc \in {"baseline", "propose", "candidate", "gate", "done"}
    /\ base \in [Knobs -> Int]
    /\ baseline \in Runs \cup {NoRun}
    /\ update \subseteq OfferType
    /\ bundle \in [Knobs -> Int]
    /\ candidate \in Runs \cup {NoRun}
    /\ decision \in [accepted : BOOLEAN, before : RateType, after : RateType]

(* What the update names ends within its bounds, wherever it started, and  *)
(* what it does not name stays as it was (Mutation.apply, apply_update).   *)
Changed == {knob \in Knobs : \E m \in update : m.knob = knob}

UpdateBounded ==
    /\ \A knob \in Changed : bundle[knob] \in Low(knob) .. High(knob)
    /\ \A knob \in Knobs \ Changed : bundle[knob] = base[knob]

(* The most frequent regime always has its way: its first repair is never  *)
(* crowded out or undone by a regime below it that pulls the other way     *)
(* (over_search against stop_too_early; propose_update's seen_targets).    *)
StrongestRegimeActs ==
    pc = "candidate" =>
        \A x \in Asked(Dominant(Seen(baseline.optimize))) :
            Rank(x.regime, Seen(baseline.optimize)) = 0 /\ x.place = 1 =>
                \E m \in update : m.knob = x.knob /\ m.delta = x.delta

(* An update that leaves the bundle as it was, because every parameter it  *)
(* names is at its bound, is not promoted (evaluate_bundle, optimize_gate).*)
IneffectiveRejected == decision.accepted => bundle # base

(* A disagreement with the documents, not a wish.  The repair table gives  *)
(* sparse evidence a step of its own, "Raise `nearest_k` (borrow more      *)
(* priors)" (docs/REGIMES_IMPROVEMENT_LOOP.md:88, hypothesize.py:28).  It  *)
(* is dead: whatever is sparse is also a route miss and a query miss, and  *)
(* the two fill the update's two places (detect_regimes, propose_update    *)
(* with top_k = 2), so the step of 4 is never asked for.                   *)
SparseRepairIsDead == TopK <= 2 => \A m \in update : m.delta # 400

=============================================================================
