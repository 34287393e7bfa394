------------------------- MODULE LivePipelineSafety ---------------------------
(***************************************************************************)
(* What a condition's memory has learnt from, what a run may cost and when *)
(* a headline is earned: the proofs, for every dataset, split, set of      *)
(* runs, number of passes and budgets.                                     *)
(*                                                                         *)
(* MemoryInv follows the memory from stage to stage: what the snapshot and *)
(* an experienced memory hold comes from OPTIMIZE, a measured condition's  *)
(* memory may add, online, the CONFIRM items that the stage is done with,  *)
(* and a frozen memory is only ever given to a stage that does not learn.  *)
(*                                                                         *)
(* RunInv follows the queue of stages: the stages behind a run are the     *)
(* first ones of its order, each condition's turn comes as often as the    *)
(* plan says and with the budget it says, and what the condition has cost, *)
(* with what the items left in its stage may still cost, is at most its    *)
(* turns' budgets.                                                         *)
(***************************************************************************)
EXTENDS LivePipeline, ListFacts

(* The two assumptions on the constants of LivePipeline, as one fact to     *)
(* cite: the split, tiers and budgets a run is given (live/runner.py).      *)
LEMMA Assumptions == PipelineAssumption /\ JobsAssumption
BY PipelineAssumption, JobsAssumption

-----------------------------------------------------------------------------
(* The stages of a run are stages.                                         *)

(* A condition that is asked for is one of the conditions.                 *)
LEMMA AskedType ==
    ASSUME NEW j, NEW S, NEW c \in S
    PROVE  Asked(j, c) \in Seq(S)
<1>1. << c >> \in Seq(S) /\ << >> \in Seq(S)
  OBVIOUS
<1>. QED  BY <1>1 DEF Asked

(* At a budget, the search conditions and then the audit.                  *)
LEMMA AtBudgetType ==
    ASSUME NEW j \in JobType
    PROVE  /\ AtBudget(j) \in Seq(SearchConds \cup {"audit"})
           /\ Len(AtBudget(j)) \in Nat \ {0}
<1>. DEFINE S == SearchConds \cup {"audit"}
<1>0. {"no_memory_search", "policy_memory", "random_memory", "audit"} \subseteq S
  BY DEF SearchConds
<1>. HIDE DEF S
<1>1. /\ Asked(j, "no_memory_search") \in Seq(S)
      /\ Asked(j, "policy_memory") \in Seq(S)
      /\ Asked(j, "random_memory") \in Seq(S)
  BY <1>0, AskedType
<1>2. << "audit" >> \in Seq(S) /\ Len(<< "audit" >>) = 1
  BY <1>0
<1>. QED
  <2>1. AtBudget(j) \in Seq(S)
    BY <1>1, <1>2 DEF AtBudget
  <2>2. Len(AtBudget(j)) = Len(Asked(j, "no_memory_search"))
            + Len(Asked(j, "policy_memory")) + Len(Asked(j, "random_memory")) + 1
    BY <1>1, <1>2 DEF AtBudget
  <2>. QED  BY <2>1, <2>2, <1>1 DEF S

(* The position of a stage in its budget and the position of the budget.   *)
LEMMA Positions ==
    ASSUME NEW m \in Nat \ {0}, NEW b \in Nat, NEW n \in 1 .. m * b
    PROVE  /\ ((n - 1) % m) + 1 \in 1 .. m
           /\ ((n - 1) \div m) + 1 \in 1 .. b
<1>. DEFINE q == (n - 1) \div m
<1>1. n - 1 \in Nat /\ n - 1 < m * b
  <2>1. m * b \in Nat
    OBVIOUS
  <2>. QED  BY <2>1
<1>2. (n - 1) % m \in 0 .. m - 1 /\ q \in Nat /\ n - 1 = m * q + ((n - 1) % m)
  BY <1>1
<1>3. q < b
  <2>1. SUFFICES ASSUME q >= b PROVE FALSE
    BY <1>2
  <2>2. m * q >= m * b
    BY <2>1, <1>2
  <2>. QED  BY <2>2, <1>1, <1>2
<1>. QED  BY <1>2, <1>3

(* What a run does is a list of stages.                                    *)
LEMMA StagesType == ASSUME NEW j \in JobType PROVE Stages(j) \in Seq(StageType)
<1>1. ClosedBook(j) \in Seq(StageType)
  <2>1. Asked(j, "closed_book") \in Seq({"closed_book"})
    BY AskedType
  <2>2. DOMAIN Asked(j, "closed_book") = 1 .. Len(Asked(j, "closed_book"))
        /\ Len(Asked(j, "closed_book")) \in Nat
    BY <2>1
  <2>3. [cond |-> "closed_book", budget |-> 0] \in StageType
    BY DEF StageType, Required
  <2>. QED  BY <2>2, <2>3 DEF ClosedBook
<1>2. Learning(j) \in Seq(StageType)
  <2>1. Pass \in StageType /\ [cond |-> "freeze", budget |-> 0] \in StageType
    BY Assumptions DEF Pass, StageType, PipelineAssumption
  <2>2. [p \in 1 .. Passes |-> Pass] \in Seq(StageType)
    BY <2>1, Assumptions DEF PipelineAssumption
  <2>3. << [cond |-> "freeze", budget |-> 0] >> \in Seq(StageType)
    BY <2>1
  <2>. QED  BY <2>2, <2>3 DEF Learning
<1>3. Measuring(j) \in Seq(StageType)
  <2>. DEFINE per == AtBudget(j)
              rec(n) == [cond |-> per[((n - 1) % Len(per)) + 1],
                         budget |-> j.budgets[((n - 1) \div Len(per)) + 1]]
  <2>1. per \in Seq(SearchConds \cup {"audit"}) /\ Len(per) \in Nat \ {0}
    BY AtBudgetType
  <2>2. j.budgets \in Seq(Nat) /\ Len(j.budgets) \in Nat
    BY DEF JobType
  <2>3. ASSUME NEW n \in 1 .. Len(per) * Len(j.budgets)
        PROVE  rec(n) \in StageType
    <3>1. /\ ((n - 1) % Len(per)) + 1 \in 1 .. Len(per)
          /\ ((n - 1) \div Len(per)) + 1 \in 1 .. Len(j.budgets)
      BY <2>1, <2>2, Positions
    <3>2. per[((n - 1) % Len(per)) + 1] \in SearchConds \cup {"audit"}
      BY <3>1, <2>1
    <3>3. j.budgets[((n - 1) \div Len(per)) + 1] \in Nat
      BY <3>1, <2>2
    <3>. QED  BY <3>2, <3>3 DEF StageType, Required
  <2>4. Len(per) * Len(j.budgets) \in Nat
    BY <2>1, <2>2
  <2>5. PICK total \in Nat : total = Len(per) * Len(j.budgets)
    BY <2>4
  <2>6. Measuring(j) = [n \in 1 .. total |-> rec(n)]
    BY <2>5 DEF Measuring
  <2>7. \A n \in 1 .. total : rec(n) \in StageType
    BY <2>3, <2>5
  <2>. HIDE DEF per, rec
  <2>8. Measuring(j) \in [1 .. total -> StageType]
    BY <2>6, <2>7
  <2>. QED  BY <2>8
<1>. QED  BY <1>1, <1>2, <1>3 DEF Stages

-----------------------------------------------------------------------------
(* Memories and snapshots.                                                 *)

(* An item has a cluster.                                                  *)
LEMMA ClusterType == \A i \in Items : ClusterOf[i] \in Clusters
BY DEF Clusters

(* An empty memory is a memory.                                            *)
LEMMA NewMemoryType == NewMemory \in MemoryType /\ EmptySnapshot \in SnapshotType
<1>1. NoStats \in StatsType
  BY DEF NoStats, StatsType
<1>2. NoFragments \in FragmentsType
  BY DEF NoFragments, FragmentsType
<1>3. << >> \in Seq(Trace)
  OBVIOUS
<1>. QED  BY <1>1, <1>2, <1>3 DEF NewMemory, EmptySnapshot, MemoryType, SnapshotType

(* Observing adds one trace of the item.                                   *)
LEMMA ObserveType ==
    ASSUME NEW m \in MemoryType, NEW item \in Items, NEW arm \in Arms
    PROVE  /\ Observe(m, item, arm) \in MemoryType
           /\ Observe(m, item, arm).frozen = m.frozen
           /\ Observe(m, item, arm).fragments = m.fragments
           /\ Observe(m, item, arm).traces = Append(m.traces, [item |-> item, arm |-> arm])
           /\ Observe(m, item, arm).stats =
                 [c \in Clusters \cup {"all"} |->
                    [a \in Arms |->
                        IF a = arm /\ c \in {ClusterOf[item], "all"}
                        THEN m.stats[c][a] \cup {Len(m.traces) + 1}
                        ELSE m.stats[c][a]]]
<1>1. m.stats \in StatsType /\ m.traces \in Seq(Trace) /\ Len(m.traces) \in Nat
  BY DEF MemoryType
<1>2. DOMAIN m.stats = Clusters \cup {"all"}
  BY <1>1 DEF StatsType
<1>3. [item |-> item, arm |-> arm] \in Trace
  BY DEF Trace
<1>4. Append(m.traces, [item |-> item, arm |-> arm]) \in Seq(Trace)
  BY <1>1, <1>3
<1>5. [c \in DOMAIN m.stats |->
         [a \in Arms |->
            IF a = arm /\ c \in {ClusterOf[item], "all"}
            THEN m.stats[c][a] \cup {Len(m.traces) + 1}
            ELSE m.stats[c][a]]] \in StatsType
  BY <1>1, <1>2 DEF StatsType
<1>. QED  BY <1>1, <1>2, <1>4, <1>5 DEF Observe, MemoryType

(* Nothing was consolidated of no attempts.                                *)
LEMMA EmptyFolded == Folded(EmptySnapshot)
<1>1. \A c : OfCluster(<< >>, c) = {}
  BY DEF OfCluster
<1>2. Cardinality({}) = 0
  BY FS_EmptySet
<1>3. FragmentsOf(<< >>) = NoFragments
  BY <1>1, <1>2 DEF FragmentsOf, NoFragments
<1>. QED  BY <1>3 DEF Folded, EmptySnapshot

(* Consolidating keeps what was seen.                                      *)
LEMMA ConsolidateType ==
    ASSUME NEW m \in MemoryType
    PROVE  /\ Consolidate(m) \in MemoryType
           /\ Consolidate(m).traces = m.traces
           /\ Consolidate(m).stats = m.stats
           /\ Consolidate(m).frozen = m.frozen
           /\ Consolidate(m).fragments = FragmentsOf(m.traces)
<1>1. m.traces \in Seq(Trace) /\ Len(m.traces) \in Nat
      /\ DOMAIN m.traces = 1 .. Len(m.traces)
  BY DEF MemoryType
<1>2. ASSUME NEW c \in Clusters
      PROVE  /\ Cardinality(OfCluster(m.traces, c)) \in Nat
             /\ OfCluster(m.traces, c) \subseteq Nat
  <2>1. IsFiniteSet(1 .. Len(m.traces))
    BY <1>1, FS_Interval
  <2>2. OfCluster(m.traces, c) \subseteq 1 .. Len(m.traces)
    BY <1>1 DEF OfCluster
  <2>3. IsFiniteSet(OfCluster(m.traces, c))
    BY <2>1, <2>2, FS_Subset
  <2>. QED  BY <2>2, <2>3, FS_CardinalityType
<1>3. FragmentsOf(m.traces) \in FragmentsType
  BY <1>2 DEF FragmentsOf, FragmentsType
<1>. QED  BY <1>3 DEF Consolidate, MemoryType

(* A snapshot is a snapshot, and what is restored from it a memory.        *)
LEMMA SnapshotTypes ==
    ASSUME NEW m \in MemoryType, NEW s \in SnapshotType, NEW f \in BOOLEAN
    PROVE  Snapshot(m) \in SnapshotType /\ FromSnapshot(s, f) \in MemoryType
BY DEF Snapshot, FromSnapshot, SnapshotType, MemoryType

(* The random control has learnt from the given items and from no other.   *)
LEMMA RandomType ==
    ASSUME NEW S \in SUBSET Items, NEW choice \in [S -> Arms]
    PROVE  /\ RandomMemory(S, choice) \in MemoryType
           /\ Learnt(RandomMemory(S, choice)) \subseteq S
           /\ Explained(RandomMemory(S, choice))
<1>. DEFINE n == Cardinality(S)
            f == InOrder(S)
            tr == [k \in 1 .. n |-> [item |-> f[k], arm |-> choice[f[k]]]]
            st == [c \in Clusters \cup {"all"} |-> [a \in Arms |->
                     {k \in 1 .. n : choice[f[k]] = a /\ c \in {ClusterOf[f[k]], "all"}}]]
<1>1. IsFiniteSet(S)
  <2>1. IsFiniteSet(Items)
    BY FS_Interval, Assumptions DEF PipelineAssumption, Items
  <2>. QED  BY <2>1, FS_Subset
<1>2. n \in Nat /\ \E g \in [1 .. n -> S] : \A i \in S : \E k \in DOMAIN g : g[k] = i
  <2>1. n \in Nat /\ ExistsBijection(1 .. n, S)
    BY <1>1, FS_CardinalityType
  <2>. QED  BY <2>1 DEF ExistsBijection, Bijection, Injection, Surjection
<1>3. f \in [1 .. n -> S]
  BY <1>2 DEF InOrder
<1>. HIDE DEF n, f
<1>4. tr \in Seq(Trace) /\ DOMAIN tr = 1 .. n
  <2>1. \A k \in 1 .. n : [item |-> f[k], arm |-> choice[f[k]]] \in Trace
    BY <1>3 DEF Trace
  <2>2. tr \in [1 .. n -> Trace]
    BY <2>1
  <2>. QED  BY <2>2, <1>2
<1>5. st \in StatsType
  BY <1>2 DEF StatsType
<1>6. RandomMemory(S, choice) =
        [stats |-> st, traces |-> tr, fragments |-> NoFragments, frozen |-> FALSE]
  BY DEF RandomMemory, n, f
<1>7. NoFragments \in FragmentsType
  BY DEF NoFragments, FragmentsType
<1>8. RandomMemory(S, choice) \in MemoryType
  BY <1>4, <1>5, <1>6, <1>7 DEF MemoryType
<1>9. Learnt(RandomMemory(S, choice)) \subseteq S
  BY <1>3, <1>4, <1>6 DEF Learnt
<1>10. Explained(RandomMemory(S, choice))
  BY <1>3, <1>4, <1>6 DEF Explained
<1>. QED  BY <1>8, <1>9, <1>10

-----------------------------------------------------------------------------
(* The split.                                                              *)

(* The split parts the items.                                              *)
LEMMA SplitTypes ==
    ASSUME NEW j \in JobType
    PROVE  /\ SplitOf(j) \in [optimize : SUBSET Items, confirm : SUBSET Items]
           /\ SplitOf(j).optimize \cap SplitOf(j).confirm = {}
<1>1. Subset(j) \subseteq Items
  <2>1. j.optimize \in Nat /\ j.confirm \in Nat
    BY DEF JobType
  <2>2. Shortest(j.optimize + j.confirm, NItems) <= NItems
        /\ Shortest(j.optimize + j.confirm, NItems) \in Nat
    BY <2>1, Assumptions DEF Shortest, PipelineAssumption
  <2>. QED  BY <2>2, Assumptions DEF Subset, Items, PipelineAssumption
<1>2. Confirm(j) \subseteq Subset(j)
  BY DEF Confirm, TimeConfirm, HashConfirm
<1>. QED  BY <1>1, <1>2 DEF SplitOf

(* A fork is a run.                                                        *)
LEMMA ForkType == ASSUME TypeOK PROVE ForkJob(parent) \in JobType
<1>1. /\ parent.optimize \in Nat /\ parent.confirm \in Nat
      /\ parent.job \in JobType
  BY DEF TypeOK
<1>2. /\ parent.job.salt \in DOMAIN Bucket /\ parent.job.mode \in {"hash", "time"}
      /\ parent.job.real \in BOOLEAN
  BY <1>1 DEF JobType
<1>3. CfgBudgets \in Seq(Nat)
  BY Assumptions DEF PipelineAssumption
<1>4. {"no_memory_search", "policy_memory"} \subseteq Required
  BY DEF Required, SearchConds
<1>. QED  BY <1>1, <1>2, <1>3, <1>4 DEF ForkJob, JobType, Kinds

-----------------------------------------------------------------------------
(* The inductive invariant.                                                *)

SplitInv == split.optimize \cap split.confirm = {}

FrozenInv ==
    /\ pc # "raised"
    /\ stage.cond = "experience" => ~ mem.frozen
    /\ stage.cond = "policy_memory" => mem.frozen = ~ job.online

LearntInv ==
    ~ Resumed(job) =>
        /\ Learnt(snap) \subseteq split.optimize
        /\ stage.cond = "experience" => Learnt(mem) \subseteq split.optimize
        /\ stage.cond \in Required =>
              Learnt(mem) \subseteq
                  split.optimize \cup
                      (IF job.online THEN split.confirm \ left ELSE {})

MemoryInv == TypeOK /\ SplitInv /\ FrozenInv /\ LearntInv /\ MemoryExplained

(* Nothing has been learnt before the first run.                           *)
LEMMA EmptyExplained ==
    /\ Explained(NewMemory) /\ Explained(EmptySnapshot)
    /\ Learnt(NewMemory) = {} /\ Learnt(EmptySnapshot) = {}
    /\ NewMemory.frozen = FALSE
BY DEF Explained, Learnt, NewMemory, EmptySnapshot, NoStats

(* The invariant holds before the first run.                               *)
LEMMA MemoryInit == Init => MemoryInv
<1>. SUFFICES ASSUME Init PROVE MemoryInv
  OBVIOUS
<1>1. NoJob \in JobType
  <2>1. (CHOOSE s \in DOMAIN Bucket : TRUE) \in DOMAIN Bucket
    BY Assumptions DEF PipelineAssumption
  <2>2. <<0>> \in Seq(Nat)
    OBVIOUS
  <2>. QED  BY <2>1, <2>2 DEF NoJob, JobType, Kinds
<1>2. TypeOK
  <2>1. NoTally \in [Required \cup {"experience"} -> CostType]
    BY DEF NoTally, NoCost, CostType
  <2>2. NoParent \in [exists : BOOLEAN, forkable : BOOLEAN, job : JobType,
                      optimize : Nat, confirm : Nat, snap : SnapshotType]
    BY <1>1, NewMemoryType DEF NoParent
  <2>3. << >> \in Seq(StageType) /\ jobs \in Nat /\ left = {}
    BY DEF Init
  <2>4. mem \in MemoryType /\ snap \in SnapshotType
    BY NewMemoryType DEF Init
  <2>5. audited.cond \in SearchConds \cup {"none"}
    BY DEF Init, NoAudit, NoStage
  <2>. QED
    BY <1>1, <2>1, <2>2, <2>3, <2>4, <2>5 DEF Init, TypeOK, NoVerdict
<1>3. SplitInv /\ FrozenInv /\ LearntInv
  BY EmptyExplained DEF Init, SplitInv, FrozenInv, LearntInv, NoStage, Required, SearchConds
<1>4. MemoryExplained
  BY EmptyExplained, EmptyFolded DEF Init, MemoryExplained, NoParent
<1>. QED  BY <1>2, <1>3, <1>4 DEF MemoryInv

(* A run begins with a new memory and no snapshot.                         *)
LEMMA BeginKeeps ==
    ASSUME MemoryInv, NEW j \in JobType, Begin(j)
    PROVE  MemoryInv'
<1>1. TypeOK'
  <2>1. Stages(j) \in Seq(StageType)
    BY StagesType
  <2>2. SplitOf(j) \in [optimize : SUBSET Items, confirm : SUBSET Items]
    BY SplitTypes
  <2>3. NoTally \in [Required \cup {"experience"} -> CostType]
    BY DEF NoTally, NoCost, CostType
  <2>4. NoAudit.cond = "none" /\ NoVerdict \in [structural : BOOLEAN, headline : BOOLEAN]
    BY DEF NoAudit, NoStage, NoVerdict
  <2>5. jobs + 1 \in Nat
    BY DEF MemoryInv, TypeOK
  <2>. QED
    BY <2>1, <2>2, <2>3, <2>4, <2>5, NewMemoryType DEF Begin, MemoryInv, TypeOK
<1>2. SplitInv' /\ FrozenInv' /\ LearntInv'
  BY SplitTypes, EmptyExplained
     DEF Begin, SplitInv, FrozenInv, LearntInv, NoStage, Required, SearchConds
<1>3. MemoryExplained'
  BY EmptyExplained, EmptyFolded DEF Begin, MemoryInv, MemoryExplained
<1>. QED  BY <1>1, <1>2, <1>3 DEF MemoryInv

(* A stage that begins is a stage.                                         *)
LEMMA ReadyTypes ==
    ASSUME TypeOK, NEW c, Ready(c)
    PROVE  /\ Head(todo) \in StageType /\ Tail(todo) \in Seq(StageType)
           /\ Head(todo).cond = c
BY DEF TypeOK, Ready

(* A pass over OPTIMIZE begins.                                            *)
LEMMA ExperienceKeeps == ASSUME MemoryInv, Experience PROVE MemoryInv'
<1>. DEFINE from == IF stage.cond = "experience" THEN mem ELSE NewMemory
<1>1. Head(todo) \in StageType /\ Tail(todo) \in Seq(StageType)
      /\ Head(todo).cond = "experience"
  BY ReadyTypes DEF MemoryInv, Experience
<1>2. from \in MemoryType /\ Explained(from) /\ from.frozen = FALSE
      /\ (~ Resumed(job) => Learnt(from) \subseteq split.optimize)
  <2>1. CASE stage.cond = "experience"
    <3>1. mem.frozen \in BOOLEAN
      BY DEF MemoryInv, TypeOK, MemoryType
    <3>. QED
      BY <2>1, <3>1 DEF MemoryInv, TypeOK, FrozenInv, LearntInv, MemoryExplained
  <2>2. CASE stage.cond # "experience"
    BY <2>2, NewMemoryType, EmptyExplained
  <2>. QED  BY <2>1, <2>2
<1>3. /\ stage' = Head(todo) /\ todo' = Tail(todo) /\ left' = split.optimize
      /\ mem' = from
      /\ UNCHANGED <<pc, job, split, snap, tally, audited, verdict, parent, jobs>>
  BY DEF Experience, Enter
<1>. HIDE DEF from
<1>4. TypeOK'
  BY <1>1, <1>2, <1>3 DEF MemoryInv, TypeOK
<1>5. SplitInv' /\ FrozenInv' /\ LearntInv'
  BY <1>1, <1>2, <1>3
     DEF MemoryInv, SplitInv, FrozenInv, LearntInv, Required, SearchConds
<1>6. MemoryExplained'
  BY <1>2, <1>3 DEF MemoryInv, MemoryExplained
<1>. QED  BY <1>4, <1>5, <1>6 DEF MemoryInv

(* What was learnt is frozen.                                              *)
LEMMA FreezeKeeps == ASSUME MemoryInv, Freeze PROVE MemoryInv'
<1>. DEFINE learnt == IF stage.cond = "experience" THEN mem ELSE NewMemory
            frozen == IF Resumed(job) THEN parent.snap ELSE Snapshot(Consolidate(learnt))
<1>1. Head(todo) \in StageType /\ Tail(todo) \in Seq(StageType)
      /\ Head(todo).cond = "freeze"
  BY ReadyTypes DEF MemoryInv, Freeze
<1>2. learnt \in MemoryType /\ Explained(learnt)
      /\ (~ Resumed(job) => Learnt(learnt) \subseteq split.optimize)
  BY NewMemoryType, EmptyExplained DEF MemoryInv, TypeOK, LearntInv, MemoryExplained
<1>3. /\ Consolidate(learnt) \in MemoryType
      /\ Consolidate(learnt).traces = learnt.traces
      /\ Consolidate(learnt).stats = learnt.stats
      /\ Consolidate(learnt).fragments = FragmentsOf(learnt.traces)
  BY <1>2, ConsolidateType
<1>4. /\ stage' = Head(todo) /\ todo' = Tail(todo) /\ left' = {}
      /\ mem' = IF Resumed(job) THEN mem ELSE Consolidate(learnt)
      /\ snap' = frozen
      /\ UNCHANGED <<pc, job, split, tally, audited, verdict, parent, jobs>>
  BY DEF Freeze, Enter
<1>. HIDE DEF learnt
<1>5. Snapshot(Consolidate(learnt)) \in SnapshotType
  BY <1>3 DEF Snapshot, SnapshotType, MemoryType
<1>6. /\ Explained(Consolidate(learnt)) /\ Explained(Snapshot(Consolidate(learnt)))
      /\ Learnt(Snapshot(Consolidate(learnt))) = Learnt(learnt)
  BY <1>2, <1>3 DEF Explained, Learnt, Snapshot
<1>7. TypeOK'
  BY <1>1, <1>3, <1>4, <1>5 DEF MemoryInv, TypeOK
<1>8. SplitInv' /\ FrozenInv' /\ LearntInv'
  BY <1>1, <1>2, <1>4, <1>6
     DEF MemoryInv, SplitInv, FrozenInv, LearntInv, Required, SearchConds
<1>9. Folded(Snapshot(Consolidate(learnt)))
  BY <1>3 DEF Folded, Snapshot
<1>10. MemoryExplained'
  BY <1>4, <1>6, <1>9 DEF MemoryInv, MemoryExplained
<1>. QED  BY <1>7, <1>8, <1>10 DEF MemoryInv

(* A condition begins.                                                     *)
LEMMA MeasureKeeps ==
    ASSUME MemoryInv, NEW c \in Required, Measure(c)
    PROVE  MemoryInv'
<1>1. Head(todo) \in StageType /\ Tail(todo) \in Seq(StageType) /\ Head(todo).cond = c
  BY ReadyTypes DEF MemoryInv, Measure
<1>2. PICK memory :
         /\ Enter(split.confirm, memory)
         /\ memory \in MemoryType /\ Explained(memory)
         /\ c = "policy_memory" => memory.frozen = ~ job.online
         /\ ~ Resumed(job) => Learnt(memory) \subseteq split.optimize
  <2>1. CASE c = "random_memory"
    <3>1. PICK choice \in [split.optimize -> Arms] :
             Enter(split.confirm, RandomMemory(split.optimize, choice))
      BY <2>1 DEF Measure
    <3>2. split.optimize \in SUBSET Items
      BY DEF MemoryInv, TypeOK
    <3>. QED  BY <2>1, <3>1, <3>2, RandomType
  <2>2. CASE c = "policy_memory"
    <3>1. Enter(split.confirm, FromSnapshot(snap, ~ job.online))
      BY <2>2 DEF Measure
    <3>2. snap \in SnapshotType /\ job.online \in BOOLEAN
      BY DEF MemoryInv, TypeOK, JobType
    <3>3. FromSnapshot(snap, ~ job.online) \in MemoryType
      BY <3>2 DEF FromSnapshot, SnapshotType, MemoryType
    <3>4. /\ Explained(FromSnapshot(snap, ~ job.online))
          /\ Learnt(FromSnapshot(snap, ~ job.online)) = Learnt(snap)
          /\ FromSnapshot(snap, ~ job.online).frozen = ~ job.online
      BY DEF MemoryInv, MemoryExplained, FromSnapshot, Explained, Learnt
    <3>. QED  BY <3>1, <3>3, <3>4 DEF MemoryInv, LearntInv
  <2>3. CASE c # "random_memory" /\ c # "policy_memory"
    <3>1. Enter(split.confirm, NewMemory)
      BY <2>3 DEF Measure
    <3>. QED  BY <2>3, <3>1, NewMemoryType, EmptyExplained
  <2>. QED  BY <2>1, <2>2, <2>3
<1>3. /\ stage' = Head(todo) /\ todo' = Tail(todo) /\ left' = split.confirm
      /\ mem' = memory
      /\ UNCHANGED <<pc, job, split, snap, audited, verdict, parent, jobs>>
  BY <1>2 DEF Measure, Enter
<1>4. tally' \in [Required \cup {"experience"} -> CostType]
  <2>1. tally \in [Required \cup {"experience"} -> CostType]
    BY DEF MemoryInv, TypeOK
  <2>2. tally' = [tally EXCEPT ![c].runs = tally[c].runs + 1]
    BY DEF Measure
  <2>3. [tally[c] EXCEPT !.runs = tally[c].runs + 1] \in CostType
    BY <2>1 DEF CostType
  <2>. QED  BY <2>1, <2>2, <2>3
<1>5. c \notin {"experience", "freeze", "audit"}
  BY DEF Required, SearchConds
<1>6. TypeOK'
  BY <1>1, <1>2, <1>3, <1>4, <1>5 DEF MemoryInv, TypeOK
<1>7. SplitInv' /\ FrozenInv' /\ LearntInv'
  BY <1>1, <1>2, <1>3, <1>5 DEF MemoryInv, SplitInv, FrozenInv, LearntInv
<1>8. MemoryExplained'
  BY <1>2, <1>3 DEF MemoryInv, MemoryExplained
<1>. QED  BY <1>6, <1>7, <1>8 DEF MemoryInv

(* An attempt learns only in a stage that updates, and then only from an   *)
(* item that the stage is done with.                                       *)
LEMMA AttemptKeeps ==
    ASSUME MemoryInv, NEW calls \in Nat, NEW follow \in Nat, NEW failed \in Nat,
           NEW arm \in Arms, Attempt(calls, follow, failed, arm)
    PROVE  MemoryInv'
<1>. DEFINE learns == Updates /\ ~ mem.frozen
<1>a. NextItem \in left /\ left' = left \ {NextItem}
  BY DEF Attempt, NextItem
<1>b. pc' = IF Updates /\ mem.frozen THEN "raised" ELSE pc
  BY DEF Attempt
<1>c. mem' = IF learns THEN Observe(mem, NextItem, arm) ELSE mem
  BY DEF Attempt
<1>d. UNCHANGED <<job, split, todo, stage, snap, audited, verdict, parent, jobs>>
  BY DEF Attempt
<1>1. PICK item \in left :
      /\ left' = left \ {item}
      /\ pc' = IF Updates /\ mem.frozen THEN "raised" ELSE pc
      /\ mem' = IF learns THEN Observe(mem, item, arm) ELSE mem
      /\ UNCHANGED <<job, split, todo, stage, snap, audited, verdict, parent, jobs>>
  BY <1>a, <1>b, <1>c, <1>d
<1>2. stage.cond \in Required \cup {"experience"} /\ item \in Items
      /\ (stage.cond \in Required => item \in split.confirm)
      /\ (stage.cond = "experience" => item \in split.optimize)
  BY <1>1 DEF MemoryInv, TypeOK, Required, SearchConds
<1>3. tally' \in [Required \cup {"experience"} -> CostType]
  <2>1. /\ tally \in [Required \cup {"experience"} -> CostType]
        /\ tally[stage.cond] \in CostType
    BY <1>2 DEF MemoryInv, TypeOK
  <2>2. Charged(tally[stage.cond], calls, follow, failed) \in CostType
    BY <2>1 DEF CostType, Charged
  <2>3. tally' = [tally EXCEPT ![stage.cond] =
                     Charged(tally[stage.cond], calls, follow, failed)]
    BY DEF Attempt
  <2>. QED  BY <2>1, <2>2, <2>3, <1>2
<1>4. mem \in MemoryType
  BY DEF MemoryInv, TypeOK
<1>5. /\ Observe(mem, item, arm) \in MemoryType
      /\ Observe(mem, item, arm).frozen = mem.frozen
      /\ Observe(mem, item, arm).traces = Append(mem.traces, [item |-> item, arm |-> arm])
      /\ Observe(mem, item, arm).stats =
            [c \in Clusters \cup {"all"} |->
                [a \in Arms |->
                    IF a = arm /\ c \in {ClusterOf[item], "all"}
                    THEN mem.stats[c][a] \cup {Len(mem.traces) + 1}
                    ELSE mem.stats[c][a]]]
  BY <1>2, <1>4, ObserveType
<1>6. ~ (Updates /\ mem.frozen) /\ pc' # "raised"
  <2>1. ~ (Updates /\ mem.frozen)
    BY DEF Updates, MemoryInv, FrozenInv
  <2>. QED  BY <2>1, <1>1 DEF MemoryInv, FrozenInv
<1>7. mem' \in MemoryType /\ mem'.frozen = mem.frozen
  BY <1>1, <1>4, <1>5
<1>8. TypeOK'
  BY <1>1, <1>3, <1>6, <1>7 DEF MemoryInv, TypeOK
<1>9. SplitInv' /\ FrozenInv'
  BY <1>1, <1>6, <1>7 DEF MemoryInv, SplitInv, FrozenInv
<1>10. Learnt(mem') \subseteq Learnt(mem) \cup (IF Updates THEN {item} ELSE {})
  <2>1. mem.traces \in Seq(Trace)
    BY <1>4 DEF MemoryType
  <2>2. CASE learns
    <3>1. mem'.traces = Append(mem.traces, [item |-> item, arm |-> arm])
      BY <2>2, <1>1, <1>5
    <3>2. \A k \in DOMAIN mem'.traces :
             \/ k \in DOMAIN mem.traces /\ mem'.traces[k] = mem.traces[k]
             \/ mem'.traces[k].item = item
      BY <2>1, <3>1
    <3>. QED  BY <2>2, <3>2 DEF Learnt
  <2>3. CASE ~ learns
    BY <2>3, <1>1
  <2>. QED  BY <2>2, <2>3
<1>11. LearntInv'
  <2>. SUFFICES ASSUME ~ Resumed(job)
                PROVE  /\ Learnt(snap) \subseteq split.optimize
                       /\ stage.cond = "experience" => Learnt(mem') \subseteq split.optimize
                       /\ stage.cond \in Required =>
                             Learnt(mem') \subseteq split.optimize \cup
                                (IF job.online THEN split.confirm \ left' ELSE {})
    BY <1>1 DEF LearntInv, Resumed
  <2>1. CASE stage.cond = "experience"
    BY <2>1, <1>2, <1>10 DEF MemoryInv, LearntInv, Required, SearchConds
  <2>2. CASE stage.cond \in Required
    <3>1. stage.cond # "experience" /\ (Updates => job.online)
      BY <2>2 DEF Required, SearchConds, Updates
    <3>2. Learnt(mem) \subseteq split.optimize \cup
             (IF job.online THEN split.confirm \ left ELSE {})
      BY <2>2 DEF MemoryInv, LearntInv
    <3>3. item \in split.confirm /\ item \notin left' /\ left' \subseteq left
      BY <2>2, <1>1, <1>2
    <3>. QED  BY <3>1, <3>2, <3>3, <1>10 DEF MemoryInv, LearntInv
  <2>. QED  BY <2>1, <2>2, <1>2
<1>12. MemoryExplained'
  <2>1. Explained(mem')
    <3>1. mem.traces \in Seq(Trace) /\ Len(mem.traces) \in Nat /\ mem.stats \in StatsType
      BY <1>4 DEF MemoryType
    <3>2. CASE learns
      <4>. DEFINE L == Len(mem.traces)
      <4>1. /\ mem'.traces = Append(mem.traces, [item |-> item, arm |-> arm])
            /\ mem'.stats = Observe(mem, item, arm).stats
        BY <3>2, <1>1, <1>5
      <4>2. /\ DOMAIN mem'.traces = (1 .. L) \cup {L + 1}
            /\ DOMAIN mem.traces = 1 .. L
            /\ \A k \in 1 .. L : mem'.traces[k] = mem.traces[k]
            /\ mem'.traces[L + 1] = [item |-> item, arm |-> arm]
            /\ L + 1 \notin 1 .. L
        BY <3>1, <4>1
      <4>3. DOMAIN mem'.stats = Clusters \cup {"all"}
            /\ DOMAIN mem.stats = Clusters \cup {"all"}
        BY <4>1, <1>5, <3>1 DEF StatsType
      <4>4. ASSUME NEW c \in Clusters \cup {"all"}, NEW a \in Arms
            PROVE  mem'.stats[c][a] =
                      {k \in DOMAIN mem'.traces :
                          /\ mem'.traces[k].arm = a
                          /\ c \in {ClusterOf[mem'.traces[k].item], "all"}}
        <5>1. mem.stats[c][a] =
                 {k \in 1 .. L : /\ mem.traces[k].arm = a
                                 /\ c \in {ClusterOf[mem.traces[k].item], "all"}}
          BY <4>2, <4>3 DEF MemoryInv, MemoryExplained, Explained
        <5>2. mem'.stats[c][a] = IF a = arm /\ c \in {ClusterOf[item], "all"}
                                 THEN mem.stats[c][a] \cup {L + 1}
                                 ELSE mem.stats[c][a]
          BY <4>1, <1>5
        <5>. HIDE DEF L
        <5>. QED  BY <5>1, <5>2, <4>2
      <4>. QED  BY <4>3, <4>4 DEF Explained
    <3>3. CASE ~ learns
      BY <3>3, <1>1 DEF MemoryInv, MemoryExplained
    <3>. QED  BY <3>2, <3>3
  <2>. QED  BY <2>1, <1>1 DEF MemoryInv, MemoryExplained
<1>. QED  BY <1>8, <1>9, <1>11, <1>12 DEF MemoryInv

(* The audit and the verdict leave every memory as it is.                  *)
LEMMA AuditKeeps == ASSUME MemoryInv, Audit PROVE MemoryInv'
<1>1. Head(todo) \in StageType /\ Tail(todo) \in Seq(StageType)
      /\ Head(todo).cond = "audit"
  BY ReadyTypes DEF MemoryInv, Audit
<1>2. /\ stage' = Head(todo) /\ todo' = Tail(todo) /\ left' = {} /\ mem' = mem
      /\ UNCHANGED <<pc, job, split, snap, tally, verdict, parent, jobs>>
  BY DEF Audit, Enter
<1>3. audited'.cond \in SearchConds \cup {"none"}
  <2>1. /\ AtBudget(job) \in Seq(SearchConds \cup {"audit"})
        /\ Len(AtBudget(job)) \in Nat \ {0}
    BY AtBudgetType DEF MemoryInv, TypeOK
  <2>2. AtBudget(job)[1] \in SearchConds \cup {"audit"}
    BY <2>1
  <2>3. audited.cond \in SearchConds \cup {"none"} /\ "policy_memory" \in SearchConds
    BY DEF MemoryInv, TypeOK, SearchConds
  <2>4. \/ audited' = [cond |-> "policy_memory", budget |-> Head(todo).budget]
        \/ /\ AtBudget(job)[1] # "audit"
           /\ audited' = [cond |-> AtBudget(job)[1], budget |-> Head(todo).budget]
        \/ audited' = audited
    BY DEF Audit
  <2>. QED  BY <2>2, <2>3, <2>4
<1>4. TypeOK'
  BY <1>1, <1>2, <1>3 DEF MemoryInv, TypeOK
<1>5. SplitInv' /\ FrozenInv' /\ LearntInv'
  BY <1>1, <1>2 DEF MemoryInv, SplitInv, FrozenInv, LearntInv, Required, SearchConds
<1>6. MemoryExplained'
  BY <1>2 DEF MemoryInv, MemoryExplained
<1>. QED  BY <1>4, <1>5, <1>6 DEF MemoryInv

(* A run ends.                                                             *)
LEMMA VerdictKeeps == ASSUME MemoryInv, Verdict PROVE MemoryInv'
<1>1. /\ pc' = "done"
      /\ parent' = [exists |-> TRUE, forkable |-> job.kind # "bench", job |-> job,
                    optimize |-> Cardinality(split.optimize),
                    confirm |-> Cardinality(split.confirm), snap |-> snap]
      /\ UNCHANGED <<job, split, todo, stage, left, mem, snap, tally, audited, jobs>>
  BY DEF Verdict
<1>2. verdict' \in [structural : BOOLEAN, headline : BOOLEAN]
  <2>1. Structural \in BOOLEAN
    BY DEF Structural
  <2>2. \E h \in BOOLEAN : verdict' = [structural |-> Structural, headline |-> h]
    BY DEF Verdict
  <2>. QED  BY <2>1, <2>2
<1>3. Cardinality(split.optimize) \in Nat /\ Cardinality(split.confirm) \in Nat
  <2>1. split.optimize \in SUBSET Items /\ split.confirm \in SUBSET Items
    BY DEF MemoryInv, TypeOK
  <2>2. IsFiniteSet(Items)
    BY FS_Interval, Assumptions DEF PipelineAssumption, Items
  <2>3. IsFiniteSet(split.optimize) /\ IsFiniteSet(split.confirm)
    BY <2>1, <2>2, FS_Subset
  <2>. QED  BY <2>3, FS_CardinalityType
<1>4. TypeOK'
  BY <1>1, <1>2, <1>3 DEF MemoryInv, TypeOK
<1>5. SplitInv' /\ FrozenInv' /\ LearntInv'
  BY <1>1 DEF MemoryInv, SplitInv, FrozenInv, LearntInv
<1>6. MemoryExplained'
  BY <1>1 DEF MemoryInv, MemoryExplained
<1>. QED  BY <1>4, <1>5, <1>6 DEF MemoryInv

(* Every step keeps the invariant.                                         *)
LEMMA MemoryNext == MemoryInv /\ [Next]_vars => MemoryInv'
<1>. SUFFICES ASSUME MemoryInv, [Next]_vars PROVE MemoryInv'
  OBVIOUS
<1>1. ASSUME NEW j \in Jobs, Start(j) PROVE MemoryInv'
  <2>1. j \in JobType
    BY Assumptions DEF JobsAssumption
  <2>. QED  BY <1>1, <2>1, BeginKeeps DEF Start
<1>2. CASE Fork
  BY <1>2, ForkType, BeginKeeps DEF Fork, MemoryInv
<1>3. CASE Experience
  BY <1>3, ExperienceKeeps
<1>4. CASE Freeze
  BY <1>4, FreezeKeeps
<1>5. ASSUME NEW c \in Required, Measure(c) PROVE MemoryInv'
  BY <1>5, MeasureKeeps
<1>6. ASSUME NEW calls \in 0 .. stage.budget, NEW arm \in Arms,
             NEW follow \in 0 .. calls, NEW failed \in 0 .. calls,
             Attempt(calls, follow, failed, arm)
      PROVE  MemoryInv'
  <2>1. calls \in Nat /\ follow \in Nat /\ failed \in Nat
    OBVIOUS
  <2>. QED  BY <1>6, <2>1, AttemptKeeps
<1>7. CASE Audit
  BY <1>7, AuditKeeps
<1>8. CASE Verdict
  BY <1>8, VerdictKeeps
<1>9. CASE UNCHANGED vars
  BY <1>9 DEF vars, MemoryInv, TypeOK, SplitInv, FrozenInv, LearntInv, MemoryExplained
<1>. QED  BY <1>1, <1>2, <1>3, <1>4, <1>5, <1>6, <1>7, <1>8, <1>9 DEF Next

(* The invariant holds in every run.                                       *)
LEMMA MemoryAlways == Spec => []MemoryInv
BY MemoryInit, MemoryNext, PTL DEF Spec

(* Every variable keeps its type, in runs of any length and number.        *)
THEOREM PipelineTypes == Spec => []TypeOK
<1>1. MemoryInv => TypeOK
  BY DEF MemoryInv
<1>. QED  BY <1>1, MemoryAlways, PTL

(* No condition is measured with a memory that has learnt from the item it *)
(* is about to attempt, and no frozen memory has learnt from CONFIRM at    *)
(* all: run_condition updates after the attempt, and what it measures was  *)
(* restored from a snapshot of OPTIMIZE experience.                        *)
THEOREM PipelineHoldsOut == Spec => []HeldOut
<1>1. MemoryInv => HeldOut
  <2>. SUFFICES ASSUME MemoryInv, ~ Resumed(job), stage.cond \in Required
                PROVE  /\ Learnt(mem) \cap left = {}
                       /\ ~ job.online => Learnt(mem) \cap split.confirm = {}
    BY DEF HeldOut
  <2>1. left \subseteq split.confirm
    BY DEF MemoryInv, TypeOK, Required, SearchConds
  <2>. QED  BY <2>1 DEF MemoryInv, LearntInv, SplitInv
<1>. QED  BY <1>1, MemoryAlways, PTL

(* Nothing observes into a frozen memory: FrozenMemoryError is never       *)
(* raised by the pipeline.                                                 *)
THEOREM PipelineNeverRaises == Spec => []FrozenNeverObserved
<1>1. MemoryInv => FrozenNeverObserved
  BY DEF MemoryInv, FrozenInv, FrozenNeverObserved
<1>. QED  BY <1>1, MemoryAlways, PTL

(* Every statistic, local or global, live or frozen, is explained by the   *)
(* attempts recorded beside it, and every snapshot's fragments count them. *)
THEOREM PipelineExplained == Spec => []MemoryExplained
<1>1. MemoryInv => MemoryExplained
  BY DEF MemoryInv
<1>. QED  BY <1>1, MemoryAlways, PTL

-----------------------------------------------------------------------------
(* The memory of the condition under test is the snapshot and what this    *)
(* stage has attempted since.                                              *)

(* Nothing is measured before the first run.                               *)
LEMMA ConfirmInit == Init => ConfirmReadsSnapshot
BY DEF Init, ConfirmReadsSnapshot, NoStage

(* The stage starts from the snapshot.                                     *)
LEMMA ConfirmMeasure ==
    ASSUME MemoryInv, NEW c \in Required, Measure(c)
    PROVE  ConfirmReadsSnapshot'
<1>1. stage'.cond = c /\ left' = split.confirm
      /\ UNCHANGED <<job, split, snap>>
  BY DEF Measure, Enter, Ready
<1>2. CASE c = "policy_memory"
  <2>1. mem' = FromSnapshot(snap, ~ job.online)
    BY <1>2 DEF Measure, Enter
  <2>2. mem'.traces = snap.traces /\ mem'.fragments = snap.fragments
    BY <2>1 DEF FromSnapshot
  <2>3. snap.traces \in Seq(Trace)
    BY DEF MemoryInv, TypeOK, SnapshotType
  <2>4. split'.confirm \ left' = {} /\ Cardinality({}) = 0
    BY <1>1, FS_EmptySet
  <2>5. Len(snap.traces) \in Nat
    BY <2>3
  <2>6. Cardinality(split'.confirm \ left') = 0
    BY <2>4
  <2>7. Len(mem'.traces) = Len(snap'.traces)
                + IF job'.online THEN Cardinality(split'.confirm \ left') ELSE 0
    BY <2>2, <2>5, <2>6, <1>1
  <2>8. /\ \A k \in 1 .. Len(snap'.traces) : mem'.traces[k] = snap'.traces[k]
        /\ mem'.fragments = snap'.fragments
    BY <2>2, <1>1
  <2>. QED  BY <2>7, <2>8 DEF ConfirmReadsSnapshot
<1>3. CASE c # "policy_memory"
  BY <1>1, <1>3 DEF ConfirmReadsSnapshot
<1>. QED  BY <1>2, <1>3

(* An attempt adds its own trace, online, and nothing otherwise.           *)
LEMMA ConfirmAttempt ==
    ASSUME MemoryInv, ConfirmReadsSnapshot, NEW calls \in Nat, NEW follow \in Nat,
           NEW failed \in Nat, NEW arm \in Arms, Attempt(calls, follow, failed, arm)
    PROVE  ConfirmReadsSnapshot'
<1>a. PICK item \in left :
         /\ left' = left \ {item}
         /\ mem' = IF Updates /\ ~ mem.frozen THEN Observe(mem, item, arm) ELSE mem
  <2>1. NextItem \in left /\ left' = left \ {NextItem}
    BY DEF Attempt, NextItem
  <2>2. mem' = IF Updates /\ ~ mem.frozen THEN Observe(mem, NextItem, arm) ELSE mem
    BY DEF Attempt
  <2>. QED  BY <2>1, <2>2
<1>c. UNCHANGED <<job, split, todo, stage, snap, audited, verdict, parent, jobs>>
  BY DEF Attempt
<1>. SUFFICES ASSUME stage.cond = "policy_memory" PROVE ConfirmReadsSnapshot'
  BY <1>c DEF ConfirmReadsSnapshot
<1>1. left \subseteq split.confirm /\ split.confirm \subseteq Items
      /\ mem \in MemoryType /\ snap.traces \in Seq(Trace)
  BY DEF MemoryInv, TypeOK, SnapshotType, Required, SearchConds
<1>2. (Updates /\ ~ mem.frozen) <=> job.online
  BY DEF MemoryInv, FrozenInv, Updates
<1>3. CASE ~ job.online
  <2>1. mem' = mem
    BY <1>3, <1>2, <1>a
  <2>. QED  BY <2>1, <1>c, <1>3 DEF ConfirmReadsSnapshot
<1>4. CASE job.online
  <2>0. item \in Items /\ mem' = Observe(mem, item, arm)
    BY <1>4, <1>2, <1>a, <1>1
  <2>1. /\ mem'.traces = Append(mem.traces, [item |-> item, arm |-> arm])
        /\ mem'.fragments = mem.fragments
    BY <2>0, <1>1, ObserveType
  <2>2. mem.traces \in Seq(Trace)
    BY <1>1 DEF MemoryType
  <2>3. Cardinality(split.confirm \ left') = Cardinality(split.confirm \ left) + 1
    <3>1. IsFiniteSet(split.confirm \ left)
      <4>1. IsFiniteSet(Items)
        BY FS_Interval, Assumptions DEF PipelineAssumption, Items
      <4>. QED  BY <4>1, <1>1, FS_Subset
    <3>2. /\ split.confirm \ left' = (split.confirm \ left) \cup {item}
          /\ item \notin split.confirm \ left
      BY <1>a, <1>1
    <3>. QED  BY <3>1, <3>2, FS_AddElement
  <2>4. /\ Len(mem.traces) = Len(snap.traces) + Cardinality(split.confirm \ left)
        /\ \A k \in 1 .. Len(snap.traces) : mem.traces[k] = snap.traces[k]
        /\ mem.fragments = snap.fragments
    BY <1>4 DEF ConfirmReadsSnapshot
  <2>5. Len(snap.traces) \in Nat /\ Len(mem.traces) \in Nat
    BY <1>1, <2>2
  <2>6. Cardinality(split.confirm \ left) \in Nat
    <3>1. IsFiniteSet(split.confirm \ left)
      <4>1. IsFiniteSet(Items)
        BY FS_Interval, Assumptions DEF PipelineAssumption, Items
      <4>. QED  BY <4>1, <1>1, FS_Subset
    <3>. QED  BY <3>1, FS_CardinalityType
  <2>7. Len(mem'.traces) = Len(mem.traces) + 1
        /\ \A k \in 1 .. Len(mem.traces) : mem'.traces[k] = mem.traces[k]
    BY <2>1, <2>2
  <2>8. Len(mem'.traces) = Len(snap.traces) + Cardinality(split.confirm \ left')
    BY <2>3, <2>4, <2>5, <2>6, <2>7
  <2>9. ASSUME NEW k \in 1 .. Len(snap.traces) PROVE mem'.traces[k] = snap.traces[k]
    <3>1. k \in 1 .. Len(mem.traces)
      BY <2>4, <2>5, <2>6
    <3>. QED  BY <2>4, <2>7, <3>1
  <2>10. /\ snap' = snap /\ split' = split /\ job'.online
         /\ mem'.fragments = snap.fragments
    BY <2>1, <2>4, <1>4, <1>c
  <2>. QED  BY <2>8, <2>9, <2>10 DEF ConfirmReadsSnapshot
<1>. QED  BY <1>3, <1>4

(* Every step keeps it.                                                    *)
LEMMA ConfirmNext ==
    MemoryInv /\ ConfirmReadsSnapshot /\ [Next]_vars => ConfirmReadsSnapshot'
<1>. SUFFICES ASSUME MemoryInv, ConfirmReadsSnapshot, [Next]_vars
              PROVE  ConfirmReadsSnapshot'
  OBVIOUS
<1>1. ASSUME NEW j \in Jobs, Start(j) PROVE ConfirmReadsSnapshot'
  BY <1>1 DEF Start, Begin, NoStage, ConfirmReadsSnapshot
<1>2. CASE Fork
  BY <1>2 DEF Fork, Begin, NoStage, ConfirmReadsSnapshot
<1>3. CASE Experience
  BY <1>3 DEF Experience, Enter, Ready, ConfirmReadsSnapshot
<1>4. CASE Freeze
  BY <1>4 DEF Freeze, Enter, Ready, ConfirmReadsSnapshot
<1>5. ASSUME NEW c \in Required, Measure(c) PROVE ConfirmReadsSnapshot'
  BY <1>5, ConfirmMeasure
<1>6. ASSUME NEW calls \in 0 .. stage.budget, NEW arm \in Arms,
             NEW follow \in 0 .. calls, NEW failed \in 0 .. calls,
             Attempt(calls, follow, failed, arm)
      PROVE  ConfirmReadsSnapshot'
  <2>1. calls \in Nat /\ follow \in Nat /\ failed \in Nat
    OBVIOUS
  <2>. QED  BY <1>6, <2>1, ConfirmAttempt
<1>7. CASE Audit
  BY <1>7 DEF Audit, Enter, Ready, ConfirmReadsSnapshot
<1>8. CASE Verdict
  BY <1>8 DEF Verdict, ConfirmReadsSnapshot
<1>9. CASE UNCHANGED vars
  BY <1>9 DEF vars, ConfirmReadsSnapshot
<1>. QED  BY <1>1, <1>2, <1>3, <1>4, <1>5, <1>6, <1>7, <1>8, <1>9 DEF Next

(* At every budget the condition under test starts from the run's one      *)
(* snapshot: frozen, it ends with it, and online it has added exactly the  *)
(* items this stage is done with.                                          *)
THEOREM PipelineReadsSnapshot == Spec => []ConfirmReadsSnapshot
<1>. QED  BY ConfirmInit, ConfirmNext, MemoryAlways, PTL DEF Spec

-----------------------------------------------------------------------------
(* A list of increasing numbers has as many numbers as it is long.         *)
LEMMA IncreasingCount ==
    ASSUME NEW n \in Nat, NEW f \in [1 .. n -> Nat],
           \A i, k \in 1 .. n : i < k => f[i] < f[k], NEW k \in 0 .. n
    PROVE  /\ IsFiniteSet({f[i] : i \in 1 .. k})
           /\ Cardinality({f[i] : i \in 1 .. k}) = k
<1>. DEFINE S == {f[i] : i \in 1 .. k}
            g == [i \in 1 .. k |-> f[i]]
<1>1. g \in [1 .. k -> S]
  OBVIOUS
<1>2. ASSUME NEW i \in 1 .. k, NEW l \in 1 .. k, g[i] = g[l] PROVE i = l
  <2>1. i \in 1 .. n /\ l \in 1 .. n /\ f[i] = f[l] /\ f[i] \in Nat
    BY <1>2
  <2>2. ~ (f[i] < f[l]) /\ ~ (f[l] < f[i])
    BY <2>1
  <2>3. ~ (i < l) /\ ~ (l < i)
    BY <2>1, <2>2
  <2>. QED  BY <2>1, <2>3
<1>3. g \in Bijection(1 .. k, S)
  BY <1>1, <1>2 DEF Bijection, Injection, Surjection, IsInjective
<1>4. IsFiniteSet(1 .. k) /\ Cardinality(1 .. k) = k
  BY FS_Interval
<1>5. ExistsBijection(1 .. k, S)
  BY <1>3 DEF ExistsBijection
<1>. QED  BY <1>4, <1>5, FS_Bijection

-----------------------------------------------------------------------------
(* How often a condition's turn comes in a run, and with what budget.      *)
Costed == Required \cup {"experience"}

Turns(j, c) ==
    IF c \in SearchConds THEN IF c \in j.conds THEN Len(j.budgets) ELSE 0
    ELSE IF c = "closed_book" THEN IF c \in j.conds THEN 1 ELSE 0
    ELSE IF "policy_memory" \in j.conds /\ ~ Resumed(j) THEN Passes ELSE 0

Due(j, c, k) ==
    IF c \in SearchConds THEN j.budgets[k]
    ELSE IF c = "experience" THEN ExpBudget ELSE 0

(* A condition has a number of turns.                                      *)
LEMMA TurnsType == ASSUME NEW j \in JobType, NEW c PROVE Turns(j, c) \in Nat
BY Assumptions DEF Turns, JobType, PipelineAssumption

(* A search condition has one place in the order of a budget.              *)
LEMMA Place ==
    ASSUME NEW j \in JobType, NEW c \in SearchConds
    PROVE  /\ c \notin j.conds => \A k \in 1 .. Len(AtBudget(j)) : AtBudget(j)[k] # c
           /\ c \in j.conds => \E i \in 1 .. Len(AtBudget(j)) :
                 \A k \in 1 .. Len(AtBudget(j)) : AtBudget(j)[k] = c <=> k = i
<1>. DEFINE a == Asked(j, "no_memory_search")
            p == Asked(j, "policy_memory")
            r == Asked(j, "random_memory")
            S == SearchConds \cup {"audit"}
<1>1. {"no_memory_search", "policy_memory", "random_memory", "audit"} \subseteq S
  BY DEF SearchConds
<1>2. ASSUME NEW d \in SearchConds
      PROVE  /\ Asked(j, d) \in Seq(S)
             /\ Len(Asked(j, d)) = IF d \in j.conds THEN 1 ELSE 0
             /\ d \in j.conds => Asked(j, d)[1] = d
  <2>1. CASE d \in j.conds
    <3>1. Asked(j, d) = << d >>
      BY <2>1 DEF Asked
    <3>. QED  BY <2>1, <3>1
  <2>2. CASE d \notin j.conds
    <3>1. Asked(j, d) = << >>
      BY <2>2 DEF Asked
    <3>. QED  BY <2>2, <3>1
  <2>. QED  BY <2>1, <2>2
<1>3. /\ a \in Seq(S) /\ p \in Seq(S) /\ r \in Seq(S)
      /\ Len(a) = (IF "no_memory_search" \in j.conds THEN 1 ELSE 0)
      /\ Len(p) = (IF "policy_memory" \in j.conds THEN 1 ELSE 0)
      /\ Len(r) = (IF "random_memory" \in j.conds THEN 1 ELSE 0)
      /\ "no_memory_search" \in j.conds => a[1] = "no_memory_search"
      /\ "policy_memory" \in j.conds => p[1] = "policy_memory"
      /\ "random_memory" \in j.conds => r[1] = "random_memory"
  BY <1>2 DEF SearchConds
<1>4. << "audit" >> \in Seq(S) /\ Len(<< "audit" >>) = 1 /\ << "audit" >>[1] = "audit"
  BY <1>1
<1>5. AtBudget(j) = a \o p \o r \o << "audit" >>
  BY DEF AtBudget
<1>. HIDE DEF a, p, r, S
<1>6. PICK t : t = << "audit" >>
  OBVIOUS
<1>7. t \in Seq(S) /\ Len(t) = 1 /\ t[1] = "audit"
  BY <1>4, <1>6
<1>8. PICK u : u = a \o p \o r \o t
  OBVIOUS
<1>9. /\ Len(u) = Len(a) + Len(p) + Len(r) + 1
      /\ \A k \in 1 .. Len(u) :
            u[k] = IF k <= Len(a) THEN a[k]
                   ELSE IF k <= Len(a) + Len(p) THEN p[k - Len(a)]
                   ELSE IF k <= Len(a) + Len(p) + Len(r) THEN r[k - Len(a) - Len(p)]
                   ELSE t[k - Len(a) - Len(p) - Len(r)]
  <2>1. PICK v : v = a \o p
    OBVIOUS
  <2>2. /\ v \in Seq(S) /\ Len(v) = Len(a) + Len(p)
        /\ \A k \in 1 .. Len(v) : v[k] = IF k <= Len(a) THEN a[k] ELSE p[k - Len(a)]
    BY <1>3, <2>1
  <2>3. PICK w : w = v \o r
    OBVIOUS
  <2>4. /\ w \in Seq(S) /\ Len(w) = Len(v) + Len(r)
        /\ \A k \in 1 .. Len(w) : w[k] = IF k <= Len(v) THEN v[k] ELSE r[k - Len(v)]
    BY <1>3, <2>2, <2>3, SMTT(60)
  <2>5. u = w \o t
    BY <1>8, <2>1, <2>3
  <2>6. /\ Len(u) = Len(w) + Len(t)
        /\ \A k \in 1 .. Len(u) : u[k] = IF k <= Len(w) THEN w[k] ELSE t[k - Len(w)]
    <3>1. t \in Seq(S) /\ w \in Seq(S)
      BY <1>7, <2>4
    <3>. QED  BY <3>1, <2>5
  <2>7. /\ Len(a) \in Nat /\ Len(p) \in Nat /\ Len(r) \in Nat
        /\ Len(v) = Len(a) + Len(p) /\ Len(w) = Len(a) + Len(p) + Len(r)
        /\ Len(u) = Len(a) + Len(p) + Len(r) + 1
    BY <1>3, <1>7, <2>2, <2>4, <2>6
  <2>. HIDE <2>1, <2>3, <2>5
  <2>8. ASSUME NEW k \in 1 .. Len(u)
        PROVE  u[k] = IF k <= Len(a) THEN a[k]
                      ELSE IF k <= Len(a) + Len(p) THEN p[k - Len(a)]
                      ELSE IF k <= Len(a) + Len(p) + Len(r) THEN r[k - Len(a) - Len(p)]
                      ELSE t[k - Len(a) - Len(p) - Len(r)]
    <3>1. CASE k <= Len(v)
      <4>1. k \in 1 .. Len(w) /\ k \in 1 .. Len(v)
        BY <2>7, <3>1
      <4>2. u[k] = v[k]
        BY <2>4, <2>6, <2>7, <3>1, <4>1
      <4>. QED  BY <2>2, <2>7, <3>1, <4>1, <4>2
    <3>2. CASE ~ (k <= Len(v)) /\ k <= Len(w)
      <4>1. k \in 1 .. Len(w)
        BY <2>7, <3>2
      <4>2. u[k] = r[k - Len(v)]
        BY <2>4, <2>6, <3>2, <4>1
      <4>3. k - Len(v) = k - Len(a) - Len(p)
        BY <2>7
      <4>. QED  BY <2>7, <3>2, <4>2, <4>3
    <3>3. CASE ~ (k <= Len(v)) /\ ~ (k <= Len(w))
      <4>1. u[k] = t[k - Len(w)]
        BY <2>6, <3>3
      <4>2. k - Len(w) = k - Len(a) - Len(p) - Len(r)
        BY <2>7
      <4>. QED  BY <2>7, <3>3, <4>1, <4>2
    <3>. QED  BY <3>1, <3>2, <3>3
  <2>. QED  BY <2>7, <2>8
<1>10. u = AtBudget(j)
  BY <1>5, <1>6, <1>8
<1>. HIDE <1>8
<1>. DEFINE na == Len(a)
            np == Len(p)
            nr == Len(r)
<1>11. /\ na = (IF "no_memory_search" \in j.conds THEN 1 ELSE 0)
       /\ np = (IF "policy_memory" \in j.conds THEN 1 ELSE 0)
       /\ nr = (IF "random_memory" \in j.conds THEN 1 ELSE 0)
       /\ Len(u) = na + np + nr + 1
  BY <1>3, <1>9
<1>12. ASSUME NEW k \in 1 .. Len(u)
       PROVE  u[k] = IF k <= na THEN "no_memory_search"
                     ELSE IF k <= na + np THEN "policy_memory"
                     ELSE IF k <= na + np + nr THEN "random_memory" ELSE "audit"
  BY <1>3, <1>7, <1>9
<1>. HIDE DEF na, np, nr
<1>13. CASE c = "no_memory_search"
  <2>1. c \in j.conds => 1 \in 1 .. Len(u) /\ \A k \in 1 .. Len(u) : u[k] = c <=> k = 1
    BY <1>11, <1>12, <1>13
  <2>2. c \notin j.conds => \A k \in 1 .. Len(u) : u[k] # c
    BY <1>11, <1>12, <1>13
  <2>. QED  BY <1>10, <2>1, <2>2
<1>14. CASE c = "policy_memory"
  <2>1. c \in j.conds => /\ na + 1 \in 1 .. Len(u)
                         /\ \A k \in 1 .. Len(u) : u[k] = c <=> k = na + 1
    BY <1>11, <1>12, <1>14
  <2>2. c \notin j.conds => \A k \in 1 .. Len(u) : u[k] # c
    BY <1>11, <1>12, <1>14
  <2>. QED  BY <1>10, <2>1, <2>2
<1>15. CASE c = "random_memory"
  <2>1. c \in j.conds => /\ na + np + 1 \in 1 .. Len(u)
                         /\ \A k \in 1 .. Len(u) : u[k] = c <=> k = na + np + 1
    BY <1>11, <1>12, <1>15
  <2>2. c \notin j.conds => \A k \in 1 .. Len(u) : u[k] # c
    BY <1>11, <1>12, <1>15
  <2>. QED  BY <1>10, <2>1, <2>2
<1>. QED  BY <1>13, <1>14, <1>15 DEF SearchConds

(* The k-th turn, of those that come every m stages.                       *)
LEMMA Periodic ==
    ASSUME NEW m \in Nat \ {0}, NEW b \in Nat, NEW i \in 1 .. m, NEW k \in 1 .. b
    PROVE  /\ m * (k - 1) + i \in 1 .. m * b
           /\ ((m * (k - 1) + i - 1) % m) + 1 = i
           /\ ((m * (k - 1) + i - 1) \div m) + 1 = k
<1>. DEFINE n == m * (k - 1) + (i - 1)
<1>1. m * (k - 1) \in Nat /\ n \in Nat /\ m * b \in Nat
  BY Z3
<1>2. m * (k - 1) <= m * b - m
  BY Z3
<1>3. n % m \in 0 .. m - 1 /\ n \div m \in Nat /\ n = m * (n \div m) + (n % m)
  BY <1>1
<1>4. PICK q \in Nat, x \in 0 .. m - 1 : q = n \div m /\ x = n % m
  BY <1>3
<1>5. m * (k - 1) + (i - 1) = m * q + x
  BY <1>3, <1>4
<1>6. q = k - 1
  <2>1. CASE q < k - 1
    <3>1. m * q + m <= m * (k - 1)
      BY <2>1, Z3
    <3>2. m * q \in Int
      OBVIOUS
    <3>. QED  BY <3>1, <3>2, <1>1, <1>5
  <2>2. CASE q > k - 1
    <3>1. m * (k - 1) + m <= m * q
      BY <2>2, Z3
    <3>2. m * q \in Int
      OBVIOUS
    <3>. QED  BY <3>1, <3>2, <1>1, <1>5
  <2>. QED  BY <2>1, <2>2
<1>7. x = i - 1
  BY <1>1, <1>5, <1>6
<1>8. m * (k - 1) + i - 1 = n
  BY <1>1
<1>. QED  BY <1>1, <1>2, <1>4, <1>6, <1>7, <1>8

(* Three lists, one after the other.                                       *)
LEMMA ThreeLists ==
    ASSUME NEW S, NEW a \in Seq(S), NEW b \in Seq(S), NEW c \in Seq(S)
    PROVE  /\ Len(a \o b \o c) = Len(a) + Len(b) + Len(c)
           /\ Len(a) \in Nat /\ Len(b) \in Nat /\ Len(c) \in Nat
           /\ \A k \in 1 .. Len(a) : (a \o b \o c)[k] = a[k]
           /\ \A k \in 1 .. Len(b) : (a \o b \o c)[Len(a) + k] = b[k]
           /\ \A k \in 1 .. Len(c) : (a \o b \o c)[Len(a) + Len(b) + k] = c[k]
<1>1. PICK v : v = a \o b
  OBVIOUS
<1>2. /\ v \in Seq(S) /\ Len(v) = Len(a) + Len(b)
      /\ \A k \in 1 .. Len(v) : v[k] = IF k <= Len(a) THEN a[k] ELSE b[k - Len(a)]
  BY <1>1
<1>3. PICK w : w = v \o c
  OBVIOUS
<1>4. /\ Len(w) = Len(v) + Len(c)
      /\ \A k \in 1 .. Len(w) : w[k] = IF k <= Len(v) THEN v[k] ELSE c[k - Len(v)]
  <2>1. v \in Seq(S)
    BY <1>2
  <2>. QED  BY <1>3, <2>1
<1>5. Len(a) \in Nat /\ Len(b) \in Nat /\ Len(c) \in Nat
  OBVIOUS
<1>6. ASSUME NEW k \in 1 .. Len(a) PROVE w[k] = a[k]
  <2>1. k \in 1 .. Len(v) /\ k \in 1 .. Len(w)
    BY <1>2, <1>4, <1>5
  <2>. QED  BY <2>1, <1>2, <1>4
<1>7. ASSUME NEW k \in 1 .. Len(b) PROVE w[Len(a) + k] = b[k]
  <2>1. Len(a) + k \in 1 .. Len(v) /\ Len(a) + k \in 1 .. Len(w)
    BY <1>2, <1>4, <1>5
  <2>2. w[Len(a) + k] = v[Len(a) + k]
    BY <2>1, <1>4
  <2>3. v[Len(a) + k] = b[(Len(a) + k) - Len(a)] /\ (Len(a) + k) - Len(a) = k
    BY <2>1, <1>2, <1>5
  <2>. QED  BY <2>2, <2>3
<1>8. ASSUME NEW k \in 1 .. Len(c) PROVE w[Len(a) + Len(b) + k] = c[k]
  <2>1. Len(v) + k \in 1 .. Len(w) /\ ~ (Len(v) + k <= Len(v))
    BY <1>2, <1>4, <1>5
  <2>2. w[Len(v) + k] = c[(Len(v) + k) - Len(v)] /\ (Len(v) + k) - Len(v) = k
    BY <2>1, <1>2, <1>4, <1>5
  <2>3. Len(v) + k = Len(a) + Len(b) + k
    BY <1>2
  <2>. QED  BY <2>2, <2>3
<1>. QED  BY <1>1, <1>2, <1>3, <1>4, <1>5, <1>6, <1>7, <1>8

(* The closed-book stage, if any.                                          *)
LEMMA ClosedBookList ==
    ASSUME NEW j \in JobType
    PROVE  /\ ClosedBook(j) \in Seq(StageType)
           /\ Len(ClosedBook(j)) = Turns(j, "closed_book")
           /\ \A k \in 1 .. Turns(j, "closed_book") :
                 ClosedBook(j)[k] = [cond |-> "closed_book", budget |-> 0]
<1>1. [cond |-> "closed_book", budget |-> 0] \in StageType
  BY DEF StageType, Required
<1>2. Turns(j, "closed_book") = IF "closed_book" \in j.conds THEN 1 ELSE 0
  BY DEF Turns, SearchConds
<1>3. DOMAIN Asked(j, "closed_book") = 1 .. Turns(j, "closed_book")
  <2>1. DOMAIN << "closed_book" >> = 1 .. 1 /\ DOMAIN << >> = 1 .. 0
    OBVIOUS
  <2>. QED  BY <1>2, <2>1 DEF Asked
<1>4. ClosedBook(j) =
        [n \in 1 .. Turns(j, "closed_book") |-> [cond |-> "closed_book", budget |-> 0]]
  BY <1>3 DEF ClosedBook
<1>5. Turns(j, "closed_book") \in Nat
  BY TurnsType
<1>. QED  BY <1>1, <1>4, <1>5

(* The passes, then the freeze.                                            *)
LEMMA LearningList ==
    ASSUME NEW j \in JobType
    PROVE  LET passes == Turns(j, "experience") IN
           /\ Learning(j) \in Seq(StageType)
           /\ Len(Learning(j)) = IF "policy_memory" \in j.conds THEN passes + 1 ELSE 0
           /\ "policy_memory" \notin j.conds => passes = 0
           /\ "policy_memory" \in j.conds =>
                 /\ \A k \in 1 .. passes : Learning(j)[k] = Pass
                 /\ Learning(j)[passes + 1] = [cond |-> "freeze", budget |-> 0]
<1>. DEFINE passes == Turns(j, "experience")
            all == [p \in 1 .. passes |-> Pass]
            last == << [cond |-> "freeze", budget |-> 0] >>
<1>1. Pass \in StageType /\ [cond |-> "freeze", budget |-> 0] \in StageType
  BY Assumptions DEF Pass, StageType, PipelineAssumption
<1>2. passes \in Nat
  BY TurnsType
<1>3. passes = IF "policy_memory" \in j.conds /\ ~ Resumed(j) THEN Passes ELSE 0
  BY DEF Turns, SearchConds
<1>4. last \in Seq(StageType) /\ Len(last) = 1
      /\ last[1] = [cond |-> "freeze", budget |-> 0]
  BY <1>1
<1>5. CASE "policy_memory" \notin j.conds
  <2>1. Learning(j) = << >> /\ << >> \in Seq(StageType)
    BY <1>5 DEF Learning
  <2>. QED  BY <1>3, <1>5, <2>1
<1>6. CASE "policy_memory" \in j.conds
  <2>1. (IF Resumed(j) THEN << >> ELSE [p \in 1 .. Passes |-> Pass]) = all
    <3>1. [p \in 1 .. 0 |-> Pass] = << >>
      OBVIOUS
    <3>. QED  BY <1>3, <1>6, <3>1
  <2>2. Learning(j) = all \o last
    BY <1>6, <2>1 DEF Learning
  <2>. HIDE DEF passes, last
  <2>3. all \in Seq(StageType) /\ Len(all) = passes /\ \A k \in 1 .. passes : all[k] = Pass
    BY <1>1, <1>2
  <2>. HIDE DEF all
  <2>4. /\ all \o last \in Seq(StageType) /\ Len(all \o last) = passes + 1
        /\ \A k \in 1 .. passes : (all \o last)[k] = Pass
        /\ (all \o last)[passes + 1] = last[1]
    <3>1. PICK s, t : s = all /\ t = last
      OBVIOUS
    <3>2. s \in Seq(StageType) /\ t \in Seq(StageType)
      BY <1>4, <2>3, <3>1
    <3>3. /\ s \o t \in Seq(StageType) /\ Len(s \o t) = Len(s) + Len(t)
          /\ \A k \in 1 .. Len(s) + Len(t) :
                (s \o t)[k] = IF k <= Len(s) THEN s[k] ELSE t[k - Len(s)]
      BY <3>2
    <3>4. /\ (passes + 1) - passes = 1 /\ ~ (passes + 1 <= passes)
          /\ passes + 1 \in 1 .. passes + 1
          /\ \A k \in 1 .. passes : k \in 1 .. passes + 1 /\ k <= passes
      BY <1>2
    <3>5. Len(s) = passes /\ Len(t) = 1 /\ \A k \in 1 .. passes : s[k] = Pass
      BY <1>4, <2>3, <3>1
    <3>6. (s \o t)[passes + 1] = t[1] /\ \A k \in 1 .. passes : (s \o t)[k] = Pass
      BY <3>3, <3>4, <3>5
    <3>. QED  BY <3>1, <3>3, <3>5, <3>6
  <2>. QED  BY <1>4, <1>6, <2>2, <2>4 DEF passes
<1>. QED  BY <1>5, <1>6

(* The order of a budget, budget after budget.                             *)
LEMMA MeasuringList ==
    ASSUME NEW j \in JobType
    PROVE  LET m == Len(AtBudget(j)) IN
           /\ Measuring(j) \in Seq(StageType)
           /\ Len(Measuring(j)) = m * Len(j.budgets) /\ m * Len(j.budgets) \in Nat
           /\ \A n \in 1 .. m * Len(j.budgets) :
                 /\ ((n - 1) % m) + 1 \in 1 .. m
                 /\ ((n - 1) \div m) + 1 \in 1 .. Len(j.budgets)
                 /\ Measuring(j)[n] = [cond |-> AtBudget(j)[((n - 1) % m) + 1],
                                       budget |-> j.budgets[((n - 1) \div m) + 1]]
                 /\ Measuring(j)[n].cond \in SearchConds \cup {"audit"}
<1>. DEFINE per == AtBudget(j)
            m == Len(per)
            b == Len(j.budgets)
            rec(n) == [cond |-> per[((n - 1) % m) + 1],
                       budget |-> j.budgets[((n - 1) \div m) + 1]]
<1>1. per \in Seq(SearchConds \cup {"audit"}) /\ m \in Nat \ {0}
  BY AtBudgetType
<1>2. j.budgets \in Seq(Nat) /\ b \in Nat
  BY DEF JobType
<1>3. ASSUME NEW n \in 1 .. m * b
      PROVE  /\ ((n - 1) % m) + 1 \in 1 .. m /\ ((n - 1) \div m) + 1 \in 1 .. b
             /\ rec(n) \in StageType /\ rec(n).cond \in SearchConds \cup {"audit"}
  <2>1. ((n - 1) % m) + 1 \in 1 .. m /\ ((n - 1) \div m) + 1 \in 1 .. b
    BY <1>1, <1>2, Positions
  <2>2. per[((n - 1) % m) + 1] \in SearchConds \cup {"audit"}
    BY <1>1, <2>1
  <2>3. j.budgets[((n - 1) \div m) + 1] \in Nat
    BY <1>2, <2>1
  <2>. QED  BY <2>1, <2>2, <2>3 DEF StageType, Required
<1>4. PICK total \in Nat : total = m * b
  BY <1>1, <1>2
<1>5. Measuring(j) = [n \in 1 .. total |-> rec(n)]
  BY <1>4 DEF Measuring
<1>. HIDE DEF rec
<1>6. \A n \in 1 .. total : rec(n) \in StageType
  BY <1>3, <1>4
<1>7. Measuring(j) \in Seq(StageType) /\ Len(Measuring(j)) = total
      /\ \A n \in 1 .. total : Measuring(j)[n] = rec(n)
  BY <1>5, <1>6
<1>8. ASSUME NEW n \in 1 .. m * b
      PROVE  /\ Measuring(j)[n] = [cond |-> AtBudget(j)[((n - 1) % m) + 1],
                                   budget |-> j.budgets[((n - 1) \div m) + 1]]
             /\ Measuring(j)[n].cond \in SearchConds \cup {"audit"}
  <2>1. Measuring(j)[n] = rec(n)
    BY <1>4, <1>7
  <2>. QED  BY <2>1, <1>3 DEF rec
<1>. QED  BY <1>3, <1>4, <1>7, <1>8

(* The stages of a run are those of its three parts, the measuring last.   *)
LEMMA StagesList ==
    ASSUME NEW j \in JobType
    PROVE  \E l, c \in Nat :
              LET o == Len(ClosedBook(j)) + Len(Learning(j)) IN
              /\ o \in Nat /\ Stages(j) \in Seq(StageType)
              /\ Len(Stages(j)) = o + Len(Measuring(j)) /\ Len(Measuring(j)) \in Nat
              /\ \A k \in 1 .. Len(ClosedBook(j)) :
                    c + k \in 1 .. o /\ Stages(j)[c + k] = ClosedBook(j)[k]
              /\ \A k \in 1 .. Len(Learning(j)) :
                    l + k \in 1 .. o /\ Stages(j)[l + k] = Learning(j)[k]
              /\ \A k \in 1 .. Len(Measuring(j)) : Stages(j)[o + k] = Measuring(j)[k]
              /\ \A n \in 1 .. o : \/ n - c \in 1 .. Len(ClosedBook(j))
                                   \/ n - l \in 1 .. Len(Learning(j))
<1>. DEFINE B == ClosedBook(j)
            L == Learning(j)
            M == Measuring(j)
<1>1. B \in Seq(StageType) /\ L \in Seq(StageType) /\ M \in Seq(StageType)
  BY ClosedBookList, LearningList, MeasuringList
<1>2. Stages(j) \in Seq(StageType)
  BY StagesType
<1>3. Len(B) \in Nat /\ Len(L) \in Nat /\ Len(M) \in Nat
  BY <1>1
<1>4. CASE j.kind = "bench"
  <2>1. Stages(j) = L \o B \o M
    BY <1>4 DEF Stages
  <2>. HIDE DEF B, L, M
  <2>2. /\ Len(Stages(j)) = Len(L) + Len(B) + Len(M)
        /\ \A k \in 1 .. Len(L) : Stages(j)[k] = L[k]
        /\ \A k \in 1 .. Len(B) : Stages(j)[Len(L) + k] = B[k]
        /\ \A k \in 1 .. Len(M) : Stages(j)[Len(L) + Len(B) + k] = M[k]
    BY <1>1, <2>1, ThreeLists, SMTT(60)
  <2>3. Len(L) + Len(B) = Len(B) + Len(L)
    BY <1>3
  <2>4. \A n \in 1 .. Len(B) + Len(L) : n - Len(L) \in 1 .. Len(B) \/ n - 0 \in 1 .. Len(L)
    BY <1>3
  <2>5. /\ \A k \in 1 .. Len(L) : 0 + k \in 1 .. Len(B) + Len(L) /\ Stages(j)[0 + k] = L[k]
        /\ \A k \in 1 .. Len(B) : Len(L) + k \in 1 .. Len(B) + Len(L)
    BY <1>3, <2>2
  <2>6. Len(L) \in Nat /\ 0 \in Nat
    BY <1>3
  <2>. WITNESS 0 \in Nat, Len(L) \in Nat
  <2>. QED  BY <1>2, <1>3, <2>2, <2>3, <2>4, <2>5 DEF B, L, M
<1>5. CASE j.kind # "bench"
  <2>1. Stages(j) = B \o L \o M
    BY <1>5 DEF Stages
  <2>. HIDE DEF B, L, M
  <2>2. /\ Len(Stages(j)) = Len(B) + Len(L) + Len(M)
        /\ \A k \in 1 .. Len(B) : Stages(j)[k] = B[k]
        /\ \A k \in 1 .. Len(L) : Stages(j)[Len(B) + k] = L[k]
        /\ \A k \in 1 .. Len(M) : Stages(j)[Len(B) + Len(L) + k] = M[k]
    BY <1>1, <2>1, ThreeLists
  <2>4. \A n \in 1 .. Len(B) + Len(L) : n - 0 \in 1 .. Len(B) \/ n - Len(B) \in 1 .. Len(L)
    BY <1>3
  <2>5. /\ \A k \in 1 .. Len(B) : 0 + k \in 1 .. Len(B) + Len(L) /\ Stages(j)[0 + k] = B[k]
        /\ \A k \in 1 .. Len(L) : Len(B) + k \in 1 .. Len(B) + Len(L)
    BY <1>3, <2>2
  <2>6. Len(B) \in Nat /\ 0 \in Nat
    BY <1>3
  <2>. WITNESS Len(B) \in Nat, 0 \in Nat
  <2>. QED  BY <1>2, <1>3, <2>2, <2>4, <2>5 DEF B, L, M
<1>. QED  BY <1>4, <1>5

(* Where the stages of a run are: those up to o are the closed book's and  *)
(* the learning's, the rest measure.                                       *)
Laid(j, o, l, c) ==
    LET s == Stages(j)
        closed == Turns(j, "closed_book")
        passes == Turns(j, "experience")
    IN  /\ Len(s) = o + Len(AtBudget(j)) * Len(j.budgets)
        /\ \A k \in 1 .. closed :
              c + k \in 1 .. o /\ s[c + k] = [cond |-> "closed_book", budget |-> 0]
        /\ "policy_memory" \notin j.conds => passes = 0
        /\ "policy_memory" \in j.conds =>
              /\ \A k \in 1 .. passes : l + k \in 1 .. o /\ s[l + k] = Pass
              /\ l + passes + 1 \in 1 .. o
              /\ s[l + passes + 1] = [cond |-> "freeze", budget |-> 0]
        /\ \A n \in 1 .. o :
              \/ n - c \in 1 .. closed
              \/ "policy_memory" \in j.conds /\ n - l \in 1 .. passes + 1
        /\ \A k \in 1 .. Len(AtBudget(j)) * Len(j.budgets) : s[o + k] = Measuring(j)[k]

(* Where the parts of a run begin.                                         *)
LEMMA Layout ==
    ASSUME NEW j \in JobType
    PROVE  \E o, l, c \in Nat : Laid(j, o, l, c)
<1>. DEFINE B == ClosedBook(j)
            L == Learning(j)
            closed == Turns(j, "closed_book")
            passes == Turns(j, "experience")
            mb == Len(AtBudget(j)) * Len(j.budgets)
            o == Len(B) + Len(L)
<1>1. PICK l \in Nat, c \in Nat :
         /\ o \in Nat
         /\ Len(Stages(j)) = o + Len(Measuring(j))
         /\ \A k \in 1 .. Len(B) : c + k \in 1 .. o /\ Stages(j)[c + k] = B[k]
         /\ \A k \in 1 .. Len(L) : l + k \in 1 .. o /\ Stages(j)[l + k] = L[k]
         /\ \A k \in 1 .. Len(Measuring(j)) : Stages(j)[o + k] = Measuring(j)[k]
         /\ \A n \in 1 .. o : n - c \in 1 .. Len(B) \/ n - l \in 1 .. Len(L)
  BY StagesList
<1>2. Len(B) = closed /\ \A k \in 1 .. closed : B[k] = [cond |-> "closed_book", budget |-> 0]
  BY ClosedBookList
<1>3. /\ Len(L) = IF "policy_memory" \in j.conds THEN passes + 1 ELSE 0
      /\ "policy_memory" \notin j.conds => passes = 0
      /\ "policy_memory" \in j.conds =>
            /\ \A k \in 1 .. passes : L[k] = Pass
            /\ L[passes + 1] = [cond |-> "freeze", budget |-> 0]
  BY LearningList
<1>4. Len(Measuring(j)) = mb
  BY MeasuringList
<1>5. passes \in Nat
  BY TurnsType
<1>. HIDE DEF B, L, closed, passes, mb, o
<1>6. \A k \in 1 .. closed :
         c + k \in 1 .. o /\ Stages(j)[c + k] = [cond |-> "closed_book", budget |-> 0]
  BY <1>1, <1>2
<1>7. ASSUME "policy_memory" \in j.conds
      PROVE  /\ \A k \in 1 .. passes : l + k \in 1 .. o /\ Stages(j)[l + k] = Pass
             /\ l + passes + 1 \in 1 .. o
             /\ Stages(j)[l + passes + 1] = [cond |-> "freeze", budget |-> 0]
  <2>1. Len(L) = passes + 1 /\ passes + 1 \in 1 .. Len(L)
        /\ \A k \in 1 .. passes : k \in 1 .. Len(L)
    BY <1>3, <1>5, <1>7
  <2>2. l + (passes + 1) \in 1 .. o /\ Stages(j)[l + (passes + 1)] = L[passes + 1]
    BY <1>1, <2>1
  <2>3. l + (passes + 1) = l + passes + 1
    BY <1>5
  <2>. QED  BY <1>1, <1>3, <1>7, <2>1, <2>2, <2>3
<1>8. ASSUME NEW n \in 1 .. o
      PROVE  \/ n - c \in 1 .. closed
             \/ "policy_memory" \in j.conds /\ n - l \in 1 .. passes + 1
  BY <1>1, <1>2, <1>3
<1>9. Laid(j, o, l, c)
  BY <1>1, <1>3, <1>4, <1>6, <1>7, <1>8 DEF Laid, B, L, closed, passes, mb, o
<1>. QED  BY <1>1, <1>9

(* The turns of a condition, in order, are its stages.                     *)
InTurn(j, c, f) ==
    /\ f \in [1 .. Turns(j, c) -> 1 .. Len(Stages(j))]
    /\ \A i, k \in 1 .. Turns(j, c) : i < k => f[i] < f[k]
    /\ \A n \in 1 .. Len(Stages(j)) :
          Stages(j)[n].cond = c <=> \E k \in 1 .. Turns(j, c) : n = f[k]
    /\ \A k \in 1 .. Turns(j, c) : Stages(j)[f[k]].budget = Due(j, c, k)

(* A closed book or learning stage is what its place says.                 *)
LEMMA EarlyStage ==
    ASSUME NEW j \in JobType, NEW o \in Nat, NEW l \in Nat, NEW c \in Nat, Laid(j, o, l, c),
           NEW n \in 1 .. o
    PROVE  \/ /\ n - c \in 1 .. Turns(j, "closed_book")
              /\ Stages(j)[n] = [cond |-> "closed_book", budget |-> 0]
           \/ /\ "policy_memory" \in j.conds /\ n - l \in 1 .. Turns(j, "experience")
              /\ Stages(j)[n] = Pass
           \/ /\ "policy_memory" \in j.conds /\ n = l + Turns(j, "experience") + 1
              /\ Stages(j)[n] = [cond |-> "freeze", budget |-> 0]
<1>1. Turns(j, "closed_book") \in Nat /\ Turns(j, "experience") \in Nat
  BY TurnsType
<1>2. c + (n - c) = n /\ l + (n - l) = n
  OBVIOUS
<1>3. CASE n - c \in 1 .. Turns(j, "closed_book")
  <2>1. Stages(j)[c + (n - c)] = [cond |-> "closed_book", budget |-> 0]
    BY <1>3 DEF Laid
  <2>. QED  BY <1>2, <1>3, <2>1
<1>4. CASE "policy_memory" \in j.conds /\ n - l \in 1 .. Turns(j, "experience")
  <2>1. Stages(j)[l + (n - l)] = Pass
    BY <1>4 DEF Laid
  <2>. QED  BY <1>2, <1>4, <2>1
<1>5. CASE "policy_memory" \in j.conds /\ n - l = Turns(j, "experience") + 1
  <2>1. n = l + Turns(j, "experience") + 1
    BY <1>1, <1>5
  <2>. QED  BY <1>5, <2>1 DEF Laid
<1>6. \/ n - c \in 1 .. Turns(j, "closed_book")
      \/ "policy_memory" \in j.conds /\ n - l \in 1 .. Turns(j, "experience") + 1
  BY DEF Laid
<1>. QED  BY <1>1, <1>3, <1>4, <1>5, <1>6

(* A measuring stage is one of a search condition, or an audit.            *)
LEMMA LateStage ==
    ASSUME NEW j \in JobType, NEW o \in Nat, NEW l \in Nat, NEW c \in Nat, Laid(j, o, l, c),
           NEW n \in 1 .. Len(Stages(j)), n \notin 1 .. o
    PROVE  /\ \E i \in 1 .. Len(AtBudget(j)), k \in 1 .. Len(j.budgets) :
                 /\ n = o + (Len(AtBudget(j)) * (k - 1) + i)
                 /\ Stages(j)[n] = [cond |-> AtBudget(j)[i], budget |-> j.budgets[k]]
           /\ Stages(j)[n].cond \in SearchConds \cup {"audit"}
<1>. DEFINE m == Len(AtBudget(j))
            b == Len(j.budgets)
            n1 == n - o
<1>1. m \in Nat \ {0}
  BY AtBudgetType
<1>2. Len(Stages(j)) = o + m * b /\ m * b \in Nat /\ b \in Nat
  <2>1. b \in Nat
    BY DEF JobType
  <2>. QED  BY <1>1, <2>1, MeasuringList DEF Laid
<1>3. n1 \in 1 .. m * b /\ n = o + n1
  BY <1>2
<1>4. Stages(j)[o + n1] = Measuring(j)[n1]
  BY <1>3 DEF Laid
<1>. HIDE DEF n1
<1>5. /\ ((n1 - 1) % m) + 1 \in 1 .. m /\ ((n1 - 1) \div m) + 1 \in 1 .. b
      /\ Measuring(j)[n1] = [cond |-> AtBudget(j)[((n1 - 1) % m) + 1],
                            budget |-> j.budgets[((n1 - 1) \div m) + 1]]
      /\ Measuring(j)[n1].cond \in SearchConds \cup {"audit"}
  BY <1>3, MeasuringList
<1>6. n1 = m * ((((n1 - 1) \div m) + 1) - 1) + (((n1 - 1) % m) + 1)
  <2>0. n1 \in Nat /\ n1 - 1 \in Nat
    BY <1>2, <1>3
  <2>. HIDE DEF m
  <2>1. /\ (n1 - 1) \div m \in Nat /\ (n1 - 1) % m \in Nat
        /\ n1 - 1 = m * ((n1 - 1) \div m) + ((n1 - 1) % m)
    BY <1>1, <2>0
  <2>2. PICK q \in Nat : q = (n1 - 1) \div m
    BY <2>1
  <2>3. PICK x \in Nat : x = (n1 - 1) % m
    BY <2>1
  <2>4. n1 = m * q + (x + 1) /\ (q + 1) - 1 = q
    <3>1. m * q \in Nat
      BY <1>1
    <3>2. n1 - 1 = m * q + x
      BY <2>1, <2>2, <2>3
    <3>. QED  BY <2>0, <3>1, <3>2
  <2>. QED  BY <2>2, <2>3, <2>4
<1>. DEFINE i == ((n1 - 1) % m) + 1
            k == ((n1 - 1) \div m) + 1
<1>7. /\ i \in 1 .. m /\ k \in 1 .. b /\ n1 = m * (k - 1) + i
      /\ Stages(j)[n] = [cond |-> AtBudget(j)[i], budget |-> j.budgets[k]]
  BY <1>3, <1>4, <1>5, <1>6
<1>. HIDE DEF i, k, m, b
<1>8. \E x \in 1 .. m, y \in 1 .. b :
         /\ n1 = m * (y - 1) + x
         /\ Stages(j)[n] = [cond |-> AtBudget(j)[x], budget |-> j.budgets[y]]
  BY <1>7
<1>. QED  BY <1>3, <1>4, <1>5, <1>8 DEF m, b


(* A search condition's turn comes once at every budget, in the order of   *)
(* the budgets.                                                            *)
LEMMA SearchTurns ==
    ASSUME NEW j \in JobType, NEW c \in SearchConds
    PROVE  \E f : InTurn(j, c, f)
<1>. DEFINE m == Len(AtBudget(j))
            b == Len(j.budgets)
            N == Len(Stages(j))
<1>1. PICK o \in Nat, l \in Nat, c1 \in Nat : Laid(j, o, l, c1)
  BY Layout
<1>2. m \in Nat \ {0} /\ b \in Nat /\ N \in Nat /\ N = o + m * b /\ m * b \in Nat
  <2>1. m \in Nat \ {0}
    BY AtBudgetType
  <2>2. b \in Nat
    BY DEF JobType
  <2>3. N = o + m * b
    BY <1>1 DEF Laid
  <2>. QED  BY <2>1, <2>2, <2>3, MeasuringList
<1>3. ASSUME NEW n \in 1 .. o PROVE Stages(j)[n].cond # c
  BY <1>1, EarlyStage DEF SearchConds, Pass
<1>4. CASE c \notin j.conds
  <2>1. Turns(j, c) = 0
    BY <1>4 DEF Turns
  <2>2. ASSUME NEW n \in 1 .. N PROVE Stages(j)[n].cond # c
    <3>1. CASE n \in 1 .. o
      BY <1>3, <3>1
    <3>2. CASE n \notin 1 .. o
      <4>1. PICK i1 \in 1 .. m, k \in 1 .. b :
               Stages(j)[n] = [cond |-> AtBudget(j)[i1], budget |-> j.budgets[k]]
        BY <1>1, <3>2, LateStage
      <4>. QED  BY <1>4, <4>1, Place
    <3>. QED  BY <3>1, <3>2
  <2>3. InTurn(j, c, [k \in 1 .. 0 |-> 1])
    BY <2>1, <2>2 DEF InTurn
  <2>. QED  BY <2>3
<1>5. CASE c \in j.conds
  <2>1. PICK i \in 1 .. m : \A k \in 1 .. m : AtBudget(j)[k] = c <=> k = i
    BY <1>5, Place
  <2>. DEFINE f == [k \in 1 .. b |-> o + (m * (k - 1) + i)]
  <2>2. Turns(j, c) = b
    BY <1>5 DEF Turns
  <2>3. ASSUME NEW k \in 1 .. b
        PROVE  /\ m * (k - 1) + i \in 1 .. m * b
               /\ ((m * (k - 1) + i - 1) % m) + 1 = i
               /\ ((m * (k - 1) + i - 1) \div m) + 1 = k
    <3>. HIDE DEF m, b
    <3>. QED  BY <1>2, <2>1, Periodic
  <2>4. ASSUME NEW k \in 1 .. b
        PROVE  /\ f[k] \in 1 .. N /\ Stages(j)[f[k]].cond = c
               /\ Stages(j)[f[k]].budget = j.budgets[k]
    <3>1. f[k] = o + (m * (k - 1) + i)
      OBVIOUS
    <3>. DEFINE p == m * (k - 1) + i
    <3>2. p \in 1 .. m * b /\ ((p - 1) % m) + 1 = i /\ ((p - 1) \div m) + 1 = k
      BY <2>3
    <3>. HIDE DEF p
    <3>3. Stages(j)[o + p] = Measuring(j)[p]
      BY <1>1, <3>2 DEF Laid
    <3>4. Measuring(j)[p] = [cond |-> AtBudget(j)[i], budget |-> j.budgets[k]]
      BY <3>2, MeasuringList
    <3>5. o + p \in 1 .. N
      BY <1>2, <3>2
    <3>6. AtBudget(j)[i] = c
      BY <2>1
    <3>. QED  BY <3>1, <3>3, <3>4, <3>5, <3>6 DEF p
  <2>5. ASSUME NEW k \in 1 .. b, NEW q \in 1 .. b, k < q PROVE f[k] < f[q]
    <3>1. m * (k - 1) \in Int /\ m * (q - 1) \in Int
      BY <1>2
    <3>. HIDE DEF m
    <3>2. m * (k - 1) < m * (q - 1)
      BY <1>2, <2>5, Z3
    <3>3. f[k] = o + (m * (k - 1) + i) /\ f[q] = o + (m * (q - 1) + i)
      OBVIOUS
    <3>. HIDE DEF f
    <3>4. PICK x \in Int, y \in Int : x = m * (k - 1) /\ y = m * (q - 1)
      BY <3>1
    <3>5. o + (x + i) < o + (y + i)
      BY <3>2, <3>4
    <3>. QED  BY <3>3, <3>4, <3>5
  <2>6. ASSUME NEW n \in 1 .. N, Stages(j)[n].cond = c PROVE \E k \in 1 .. b : n = f[k]
    <3>1. n \notin 1 .. o
      BY <1>3, <2>6
    <3>2. PICK i1 \in 1 .. m, k \in 1 .. b :
             /\ n = o + (m * (k - 1) + i1)
             /\ Stages(j)[n] = [cond |-> AtBudget(j)[i1], budget |-> j.budgets[k]]
      BY <1>1, <3>1, LateStage
    <3>3. i1 = i
      BY <2>1, <2>6, <3>2
    <3>. QED  BY <3>2, <3>3
  <2>. HIDE DEF N
  <2>7. f \in [1 .. b -> 1 .. N]
    <3>1. f = [k \in 1 .. b |-> f[k]]
      OBVIOUS
    <3>. HIDE DEF f
    <3>. QED  BY <2>4, <3>1
  <2>. HIDE DEF f, b
  <2>8. \A k \in 1 .. b : Stages(j)[f[k]].budget = Due(j, c, k)
    BY <2>4 DEF Due
  <2>9. \A n \in 1 .. N : Stages(j)[n].cond = c <=> \E k \in 1 .. b : n = f[k]
    BY <2>4, <2>6
  <2>10. InTurn(j, c, f)
    BY <2>2, <2>5, <2>7, <2>8, <2>9 DEF InTurn, N
  <2>. QED  BY <2>10
<1>. QED  BY <1>4, <1>5

(* The passes of the learning follow each other, and then it freezes.      *)
LEMMA LearningTurns ==
    ASSUME NEW j \in JobType
    PROVE  \E l \in Nat :
              LET passes == Turns(j, "experience") IN
              /\ l + passes <= Len(Stages(j)) /\ passes \in Nat
              /\ \A n \in 1 .. Len(Stages(j)) :
                    /\ Stages(j)[n].cond = "experience" <=> n - l \in 1 .. passes
                    /\ Stages(j)[n].cond = "experience" => Stages(j)[n].budget = ExpBudget
                    /\ Stages(j)[n].cond = "freeze" =>
                          n = l + passes + 1 /\ "policy_memory" \in j.conds
              /\ "policy_memory" \in j.conds =>
                    \E n \in 1 .. Len(Stages(j)) : Stages(j)[n].cond = "freeze"
<1>. DEFINE passes == Turns(j, "experience")
            N == Len(Stages(j))
<1>1. PICK o \in Nat, l \in Nat, c \in Nat : Laid(j, o, l, c)
  BY Layout
<1>2. N \in Nat /\ o <= N /\ passes \in Nat
  <2>1. Len(AtBudget(j)) * Len(j.budgets) \in Nat
    BY MeasuringList
  <2>2. N = o + Len(AtBudget(j)) * Len(j.budgets)
    BY <1>1 DEF Laid
  <2>. QED  BY <2>1, <2>2, TurnsType
<1>3. ASSUME NEW n \in 1 .. N
      PROVE  \/ Stages(j)[n].cond \in SearchConds \cup {"audit", "closed_book"}
             \/ /\ n - l \in 1 .. passes /\ "policy_memory" \in j.conds
                /\ Stages(j)[n] = Pass
             \/ /\ n = l + passes + 1 /\ "policy_memory" \in j.conds
                /\ Stages(j)[n].cond = "freeze"
  <2>1. CASE n \in 1 .. o
    BY <1>1, <2>1, EarlyStage
  <2>2. CASE n \notin 1 .. o
    BY <1>1, <2>2, LateStage
  <2>. QED  BY <2>1, <2>2
<1>4. ASSUME NEW n \in 1 .. N, n - l \in 1 .. passes PROVE Stages(j)[n] = Pass
  <2>1. passes # 0
    BY <1>4
  <2>2. "policy_memory" \in j.conds
    BY <1>1, <2>1 DEF Laid
  <2>3. Stages(j)[l + (n - l)] = Pass /\ l + (n - l) = n
    BY <1>1, <1>4, <2>2 DEF Laid
  <2>. QED  BY <2>3
<1>5. ASSUME "policy_memory" \in j.conds
      PROVE  /\ l + passes + 1 \in 1 .. N
             /\ Stages(j)[l + passes + 1].cond = "freeze"
  <2>1. /\ l + passes + 1 \in 1 .. o
        /\ Stages(j)[l + passes + 1] = [cond |-> "freeze", budget |-> 0]
    BY <1>1, <1>5 DEF Laid
  <2>. QED  BY <1>2, <2>1
<1>6. \E l1 \in Nat : l1 + passes <= N /\ \A n \in 1 .. N :
            /\ Stages(j)[n].cond = "experience" <=> n - l1 \in 1 .. passes
            /\ Stages(j)[n].cond = "experience" => Stages(j)[n].budget = ExpBudget
            /\ Stages(j)[n].cond = "freeze" =>
                  n = l1 + passes + 1 /\ "policy_memory" \in j.conds
  <2>1. /\ Pass.cond = "experience" /\ Pass.budget = ExpBudget
        /\ "experience" \notin SearchConds \cup {"audit", "closed_book", "freeze"}
        /\ "freeze" \notin SearchConds \cup {"audit", "closed_book"}
    BY DEF Pass, SearchConds
  <2>2. \A n \in 1 .. N :
            /\ Stages(j)[n].cond = "experience" <=> n - l \in 1 .. passes
            /\ Stages(j)[n].cond = "experience" => Stages(j)[n].budget = ExpBudget
            /\ Stages(j)[n].cond = "freeze" =>
                  n = l + passes + 1 /\ "policy_memory" \in j.conds
    <3>. HIDE DEF passes, N
    <3>. QED  BY <1>3, <1>4, <2>1
  <2>3. CASE "policy_memory" \in j.conds
    <3>1. l + passes <= N
      BY <1>2, <1>5, <2>3
    <3>. QED  BY <2>2, <3>1
  <2>4. CASE "policy_memory" \notin j.conds
    <3>1. passes = 0
      BY <1>1, <2>4 DEF Laid
    <3>2. \A n \in 1 .. N : ~ (n - l \in 1 .. passes) /\ ~ (n - 0 \in 1 .. passes)
      BY <3>1
    <3>3. 0 + passes <= N /\ 0 \in Nat
      BY <1>2, <3>1
    <3>. HIDE DEF passes, N
    <3>. QED  BY <2>2, <2>4, <3>2, <3>3
  <2>. QED  BY <2>3, <2>4
<1>7. "policy_memory" \in j.conds => \E n \in 1 .. N : Stages(j)[n].cond = "freeze"
  BY <1>5
<1>. QED  BY <1>2, <1>6, <1>7


(* Every condition has its turns.                                          *)
LEMMA Schedule == ASSUME NEW j \in JobType, NEW c \in Costed PROVE \E f : InTurn(j, c, f)
<1>. DEFINE N == Len(Stages(j))
<1>1. CASE c \in SearchConds
  BY <1>1, SearchTurns
<1>2. CASE c = "experience"
  <2>. DEFINE passes == Turns(j, "experience")
  <2>1. PICK l \in Nat :
           /\ l + passes <= N /\ passes \in Nat
           /\ \A n \in 1 .. N :
                 /\ Stages(j)[n].cond = "experience" <=> n - l \in 1 .. passes
                 /\ Stages(j)[n].cond = "experience" => Stages(j)[n].budget = ExpBudget
    BY LearningTurns
  <2>. DEFINE f == [k \in 1 .. passes |-> l + k]
  <2>2. \A k \in 1 .. passes : Due(j, c, k) = ExpBudget
    BY <1>2 DEF Due, SearchConds
  <2>3. N \in Nat
    BY StagesType
  <2>4. passes = Turns(j, c)
    BY <1>2
  <2>. HIDE DEF passes, N
  <2>5. f \in [1 .. passes -> 1 .. N]
    BY <2>1, <2>3
  <2>6. \A i, k \in 1 .. passes : i < k => f[i] < f[k]
    BY <2>1
  <2>7. \A n \in 1 .. N : Stages(j)[n].cond = c <=> \E k \in 1 .. passes : n = f[k]
    <3>. SUFFICES ASSUME NEW n \in 1 .. N
                  PROVE  Stages(j)[n].cond = c <=> \E k \in 1 .. passes : n = f[k]
      OBVIOUS
    <3>1. n - l \in 1 .. passes => n = f[n - l]
      BY <2>1, <2>3
    <3>2. \A k \in 1 .. passes : n = f[k] => n - l \in 1 .. passes
      BY <2>1
    <3>. QED  BY <1>2, <2>1, <3>1, <3>2
  <2>8. \A k \in 1 .. passes : Stages(j)[f[k]].budget = Due(j, c, k)
    BY <1>2, <2>1, <2>2, <2>5, <2>7
  <2>9. InTurn(j, c, f)
    BY <2>4, <2>5, <2>6, <2>7, <2>8 DEF InTurn, N
  <2>. QED  BY <2>9
<1>3. CASE c = "closed_book"
  <2>. DEFINE closed == Turns(j, "closed_book")
  <2>1. PICK o \in Nat, l \in Nat, d \in Nat : Laid(j, o, l, d)
    BY Layout
  <2>2. closed \in Nat /\ N \in Nat /\ o <= N
    <3>1. Len(AtBudget(j)) * Len(j.budgets) \in Nat
      BY MeasuringList
    <3>2. N = o + Len(AtBudget(j)) * Len(j.budgets)
      BY <2>1 DEF Laid
    <3>. QED  BY <3>1, <3>2, TurnsType
  <2>. DEFINE f == [k \in 1 .. closed |-> d + k]
  <2>3. \A k \in 1 .. closed :
           d + k \in 1 .. o /\ Stages(j)[d + k] = [cond |-> "closed_book", budget |-> 0]
    BY <2>1 DEF Laid
  <2>4. ASSUME NEW n \in 1 .. N, Stages(j)[n].cond = "closed_book" PROVE n - d \in 1 .. closed
    <3>1. n \in 1 .. o
      BY <2>1, <2>4, LateStage DEF SearchConds
    <3>. QED  BY <2>1, <2>4, <3>1, EarlyStage DEF Pass
  <2>5. \A k \in 1 .. closed : Due(j, c, k) = 0
    BY <1>3 DEF Due, SearchConds
  <2>6. closed = Turns(j, c)
    BY <1>3
  <2>. HIDE DEF closed, N
  <2>7. f \in [1 .. closed -> 1 .. N]
    BY <2>2, <2>3
  <2>8. \A i, k \in 1 .. closed : i < k => f[i] < f[k]
    BY <2>2
  <2>9. \A n \in 1 .. N : Stages(j)[n].cond = c <=> \E k \in 1 .. closed : n = f[k]
    <3>. SUFFICES ASSUME NEW n \in 1 .. N
                  PROVE  Stages(j)[n].cond = c <=> \E k \in 1 .. closed : n = f[k]
      OBVIOUS
    <3>1. n - d \in 1 .. closed => n = f[n - d]
      BY <2>2
    <3>2. \A k \in 1 .. closed : n = f[k] => Stages(j)[n].cond = "closed_book"
      BY <2>3
    <3>. QED  BY <1>3, <2>4, <3>1, <3>2
  <2>10. \A k \in 1 .. closed : Stages(j)[f[k]].budget = Due(j, c, k)
    BY <2>3, <2>5
  <2>11. InTurn(j, c, f)
    BY <2>6, <2>7, <2>8, <2>9, <2>10 DEF InTurn, N
  <2>. QED  BY <2>11
<1>. QED  BY <1>1, <1>2, <1>3 DEF Costed, Required

(* The stages of a condition among the first n of a run.                   *)
Before(j, c, n) == {m \in 1 .. n : Stages(j)[m].cond = c}

(* The stage after the first n is the condition's next turn, or none.      *)
LEMMA NextTurn ==
    ASSUME NEW j \in JobType, NEW c \in Costed, NEW n \in 0 .. Len(Stages(j))
    PROVE  LET k == Cardinality(Before(j, c, n)) IN
           /\ k \in 0 .. Turns(j, c)
           /\ n = Len(Stages(j)) => k = Turns(j, c)
           /\ n < Len(Stages(j)) /\ Stages(j)[n + 1].cond = c =>
                 /\ Cardinality(Before(j, c, n + 1)) = k + 1
                 /\ k + 1 \in 1 .. Turns(j, c)
                 /\ Stages(j)[n + 1].budget = Due(j, c, k + 1)
           /\ n < Len(Stages(j)) /\ Stages(j)[n + 1].cond # c =>
                 Before(j, c, n + 1) = Before(j, c, n)
<1>. DEFINE N == Len(Stages(j))
            t == Turns(j, c)
<1>0. N \in Nat /\ t \in Nat
  BY StagesType, TurnsType
<1>1. PICK f : InTurn(j, c, f)
  BY Schedule
<1>2. /\ f \in [1 .. t -> 1 .. N]
      /\ \A i, k \in 1 .. t : i < k => f[i] < f[k]
      /\ \A m \in 1 .. N : Stages(j)[m].cond = c <=> \E k \in 1 .. t : m = f[k]
      /\ \A k \in 1 .. t : Stages(j)[f[k]].budget = Due(j, c, k)
  BY <1>1 DEF InTurn
<1>. HIDE DEF N, t
<1>3. f \in [1 .. t -> Nat]
  BY <1>0, <1>2
<1>4. ASSUME NEW k \in 0 .. t
      PROVE  IsFiniteSet({f[i] : i \in 1 .. k}) /\ Cardinality({f[i] : i \in 1 .. k}) = k
  BY <1>0, <1>2, <1>3, IncreasingCount
<1>5. ASSUME NEW k \in 1 .. t PROVE Before(j, c, f[k]) = {f[i] : i \in 1 .. k}
  <2>1. \A i \in 1 .. t : f[i] <= f[k] <=> i <= k
    BY <1>0, <1>2, <1>3
  <2>2. f[k] \in 1 .. N /\ \A m \in 1 .. f[k] : m \in 1 .. N
    BY <1>0, <1>2
  <2>3. ASSUME NEW m \in Before(j, c, f[k]) PROVE m \in {f[i] : i \in 1 .. k}
    <3>1. m \in 1 .. f[k] /\ Stages(j)[m].cond = c
      BY DEF Before
    <3>2. PICK i \in 1 .. t : m = f[i]
      BY <1>2, <2>2, <3>1
    <3>3. i \in 1 .. k
      BY <2>1, <3>1, <3>2
    <3>. QED  BY <3>2, <3>3
  <2>4. ASSUME NEW i \in 1 .. k PROVE f[i] \in Before(j, c, f[k])
    <3>1. i \in 1 .. t
      BY <1>0
    <3>2. f[i] \in 1 .. N /\ f[i] <= f[k] /\ Stages(j)[f[i]].cond = c
      BY <1>2, <2>1, <3>1
    <3>3. f[i] \in 1 .. f[k]
      BY <1>0, <1>3, <3>2
    <3>. QED  BY <3>2, <3>3 DEF Before
  <2>. QED  BY <2>3, <2>4
<1>6. Before(j, c, N) = {f[i] : i \in 1 .. t}
  BY <1>0, <1>2 DEF Before
<1>7. Cardinality(Before(j, c, N)) = t
  <2>1. t \in 0 .. t
    BY <1>0
  <2>2. Cardinality({f[i] : i \in 1 .. t}) = t
    BY <1>4, <2>1
  <2>. QED  BY <1>6, <2>2
<1>8. /\ IsFiniteSet(Before(j, c, n)) /\ Cardinality(Before(j, c, n)) \in Nat
      /\ Cardinality(Before(j, c, n)) <= t
  <2>1. Before(j, c, n) \in SUBSET Before(j, c, N)
    BY <1>0 DEF Before, N
  <2>2. IsFiniteSet(Before(j, c, N))
    BY <1>0, <1>4, <1>6
  <2>. QED  BY <1>7, <2>1, <2>2, FS_Subset, FS_CardinalityType
<1>9. ASSUME n < N, Stages(j)[n + 1].cond = c
      PROVE  /\ Cardinality(Before(j, c, n + 1)) = Cardinality(Before(j, c, n)) + 1
             /\ Cardinality(Before(j, c, n)) + 1 \in 1 .. t
             /\ Stages(j)[n + 1].budget = Due(j, c, Cardinality(Before(j, c, n)) + 1)
  <2>1. n + 1 \in 1 .. N /\ n \in Nat
    BY <1>0, <1>9 DEF N
  <2>2. PICK k \in 1 .. t : n + 1 = f[k]
    BY <1>2, <1>9, <2>1
  <2>3. Cardinality(Before(j, c, n + 1)) = k
    <3>1. k \in 0 .. t
      BY <1>0
    <3>2. Cardinality({f[i] : i \in 1 .. k}) = k
      BY <1>4, <3>1
    <3>3. Before(j, c, n + 1) = {f[i] : i \in 1 .. k}
      BY <1>5, <2>2
    <3>. QED  BY <3>2, <3>3
  <2>4. Before(j, c, n + 1) = Before(j, c, n) \cup {n + 1} /\ n + 1 \notin Before(j, c, n)
    BY <1>9, <2>1 DEF Before
  <2>5. Cardinality(Before(j, c, n + 1)) = Cardinality(Before(j, c, n)) + 1
    BY <1>8, <2>4, FS_AddElement
  <2>. QED  BY <1>2, <2>2, <2>3, <2>5
<1>10. ASSUME n < N, Stages(j)[n + 1].cond # c
       PROVE  Before(j, c, n + 1) = Before(j, c, n)
  <2>1. 1 .. n + 1 = (1 .. n) \cup {n + 1}
    BY <1>0 DEF N
  <2>. QED  BY <1>10, <2>1 DEF Before
<1>11. Cardinality(Before(j, c, n)) \in 0 .. t
  BY <1>0, <1>8
<1>. QED  BY <1>7, <1>9, <1>10, <1>11 DEF N, t

(* The passes come just before the freeze: a stage of either that does not *)
(* follow a pass is the first, and at the freeze every pass is done.       *)
LEMMA PassesTogether ==
    ASSUME NEW j \in JobType, NEW n \in 0 .. Len(Stages(j)), n < Len(Stages(j)),
           Stages(j)[n + 1].cond \in {"experience", "freeze"}
    PROVE  /\ n = 0 \/ Stages(j)[n].cond # "experience" => Before(j, "experience", n) = {}
           /\ Stages(j)[n + 1].cond = "freeze" =>
                 Cardinality(Before(j, "experience", n)) = Turns(j, "experience")
<1>. DEFINE N == Len(Stages(j))
            passes == Turns(j, "experience")
<1>0. N \in Nat
  BY StagesType
<1>1. PICK l \in Nat :
         /\ l + passes <= N /\ passes \in Nat
         /\ \A m \in 1 .. N :
               /\ Stages(j)[m].cond = "experience" <=> m - l \in 1 .. passes
               /\ Stages(j)[m].cond = "freeze" => m = l + passes + 1
  BY LearningTurns
<1>. HIDE DEF N, passes
<1>2. n + 1 \in 1 .. N /\ n \in Nat
  BY <1>0 DEF N
<1>3. n + 1 >= l + 1 /\ n + 1 <= l + passes + 1
  BY <1>1, <1>2
<1>4. ASSUME n = 0 \/ Stages(j)[n].cond # "experience"
      PROVE  Before(j, "experience", n) = {}
  <2>1. ~ (n - l \in 1 .. passes)
    <3>1. CASE n = 0
      BY <1>1, <3>1
    <3>2. CASE n # 0
      <4>1. n \in 1 .. N
        BY <1>0, <1>2, <3>2
      <4>. QED  BY <1>1, <1>4, <3>2, <4>1
    <3>. QED  BY <3>1, <3>2
  <2>2. n = l
    BY <1>1, <1>2, <1>3, <2>1
  <2>3. \A m \in 1 .. n : m \in 1 .. N /\ ~ (m - l \in 1 .. passes)
    BY <1>0, <1>1, <1>2, <2>2
  <2>. QED  BY <1>1, <2>3 DEF Before
<1>5. ASSUME Stages(j)[n + 1].cond = "freeze"
      PROVE  Cardinality(Before(j, "experience", n)) = passes
  <2>1. n = l + passes
    BY <1>1, <1>2, <1>5
  <2>2. Before(j, "experience", n) = Before(j, "experience", N)
    <3>1. ASSUME NEW m \in 1 .. N, Stages(j)[m].cond = "experience" PROVE m \in 1 .. n
      BY <1>0, <1>1, <2>1, <3>1
    <3>2. \A m \in 1 .. n : m \in 1 .. N
      BY <1>0, <1>2
    <3>. QED  BY <3>1, <3>2 DEF Before
  <2>3. Cardinality(Before(j, "experience", N)) = passes
    <3>1. N \in 0 .. Len(Stages(j)) /\ "experience" \in Costed
      BY <1>0 DEF N, Costed
    <3>. QED  BY <3>1, NextTurn DEF N, passes
  <2>. QED  BY <2>2, <2>3
<1>. QED  BY <1>4, <1>5 DEF passes


-----------------------------------------------------------------------------
(* Sums of budgets.                                                        *)

(* A sum of budgets, one budget at a time.                                 *)
LEMMA UpToSteps ==
    ASSUME NEW s \in Seq(Nat)
    PROVE  /\ UpTo(s) \in [0 .. Len(s) -> Nat] /\ UpTo(s)[0] = 0
           /\ \A n \in 1 .. Len(s) : UpTo(s)[n] = UpTo(s)[n - 1] + s[n]
<1>. DEFINE N == Len(s)
            Step1(f) == [n \in 0 .. N |-> IF n = 0 THEN 0 ELSE f[n - 1] + s[n]]
            Partly(f, m) == /\ f \in [0 .. m -> Nat] /\ f[0] = 0
                            /\ \A n \in 1 .. m : f[n] = f[n - 1] + s[n]
            T == {m \in Nat : m <= N => \E f : Partly(f, m)}
<1>0. N \in Nat /\ \A n \in 1 .. N : s[n] \in Nat
  OBVIOUS
<1>1. 0 \in T
  <2>1. Partly([n \in 0 .. 0 |-> 0], 0)
    OBVIOUS
  <2>. QED  BY <2>1
<1>. HIDE DEF N
<1>2. ASSUME NEW m \in Nat, m \in T PROVE m + 1 \in T
  <2>. SUFFICES ASSUME m + 1 <= N PROVE \E f : Partly(f, m + 1)
    <3>. HIDE DEF Partly
    <3>. QED  OBVIOUS
  <2>1. PICK f : Partly(f, m)
    <3>1. m <= N
      BY <1>0
    <3>. QED  BY <1>2, <3>1
  <2>. DEFINE g == [n \in 0 .. m + 1 |-> IF n = m + 1 THEN f[m] + s[m + 1] ELSE f[n]]
  <2>2. s[m + 1] \in Nat /\ f[m] \in Nat
    BY <1>0, <2>1
  <2>3. g \in [0 .. m + 1 -> Nat] /\ g[0] = 0
    BY <2>1, <2>2
  <2>4. ASSUME NEW n \in 1 .. m + 1 PROVE g[n] = g[n - 1] + s[n]
    <3>1. CASE n = m + 1
      <4>1. n - 1 = m /\ g[m] = f[m] /\ g[n] = f[m] + s[m + 1]
        BY <3>1
      <4>. QED  BY <3>1, <4>1
    <3>2. CASE n \in 1 .. m
      <4>1. g[n] = f[n] /\ g[n - 1] = f[n - 1]
        BY <3>2
      <4>. QED  BY <2>1, <3>2, <4>1
    <3>. QED  BY <3>1, <3>2
  <2>. HIDE DEF g
  <2>5. Partly(g, m + 1)
    BY <2>3, <2>4
  <2>. QED  BY <2>5
<1>. HIDE DEF T
<1>3. N \in T
  BY <1>0, <1>1, <1>2, Induct
<1>4. PICK f : Partly(f, N)
  BY <1>0, <1>3 DEF T
<1>5. f = Step1(f)
  <2>1. \A n \in 0 .. N : n # 0 => n \in 1 .. N
    BY <1>0
  <2>. QED  BY <1>4, <2>1
<1>. DEFINE up == CHOOSE g : g = Step1(g)
<1>6. up = Step1(up)
  BY <1>5
<1>7. UpTo(s) = up
  BY DEF UpTo, N
<1>. HIDE DEF up
<1>. DEFINE U == {m \in Nat : m <= N => up[m] = f[m]}
<1>8. 0 \in U
  <2>1. up[0] = 0
    BY <1>0, <1>6
  <2>. QED  BY <1>4, <2>1
<1>9. ASSUME NEW m \in Nat, m \in U PROVE m + 1 \in U
  <2>. SUFFICES ASSUME m + 1 <= N PROVE up[m + 1] = f[m + 1]
    OBVIOUS
  <2>1. up[m] = f[m] /\ m + 1 \in 1 .. N /\ m + 1 \in 0 .. N /\ m + 1 # 0 /\ (m + 1) - 1 = m
    BY <1>0, <1>9
  <2>2. up[m + 1] = up[(m + 1) - 1] + s[m + 1]
    BY <1>6, <2>1
  <2>. QED  BY <1>4, <2>1, <2>2
<1>. HIDE DEF U
<1>10. \A m \in Nat : m \in U
  BY <1>8, <1>9, Induct
<1>11. up = f
  <2>1. \A m \in 0 .. N : up[m] = f[m]
    BY <1>0, <1>10 DEF U
  <2>2. DOMAIN up = 0 .. N /\ up = [n \in 0 .. N |-> up[n]]
    BY <1>6
  <2>3. f = [n \in 0 .. N |-> f[n]]
    BY <1>4
  <2>. QED  BY <2>1, <2>2, <2>3
<1>. QED  BY <1>4, <1>7, <1>11 DEF N

(* More budgets sum to more, by at least one each if none is 0.            *)
LEMMA UpToGrows ==
    ASSUME NEW s \in Seq(Nat), NEW k \in 0 .. Len(s)
    PROVE  /\ UpTo(s)[k] \in Nat /\ Total(s) \in Nat
           /\ UpTo(s)[k] <= Total(s)
           /\ (\A n \in DOMAIN s : s[n] > 0) =>
                 k <= UpTo(s)[k] /\ UpTo(s)[k] - k <= Total(s) - Len(s)
<1>. DEFINE up == UpTo(s)
            N == Len(s)
<1>1. /\ up \in [0 .. N -> Nat] /\ up[0] = 0
      /\ \A n \in 1 .. N : up[n] = up[n - 1] + s[n]
  BY UpToSteps
<1>2. N \in Nat /\ DOMAIN s = 1 .. N /\ \A n \in 1 .. N : s[n] \in Nat
  OBVIOUS
<1>3. Total(s) = up[N]
  BY DEF Total
<1>. HIDE DEF up, N
<1>4. up[k] <= up[N]
  <2>. DEFINE T == {m \in Nat : k + m <= N => up[k] <= up[k + m]}
  <2>1. 0 \in T
    BY <1>1, <1>2, SMTT(60) DEF N
  <2>2. ASSUME NEW m \in Nat, m \in T PROVE m + 1 \in T
    <3>. SUFFICES ASSUME k + (m + 1) <= N PROVE up[k] <= up[k + (m + 1)]
      OBVIOUS
    <3>1. k \in Nat /\ k + m <= N /\ k + (m + 1) \in 1 .. N /\ (k + (m + 1)) - 1 = k + m
          /\ k \in 0 .. N /\ k + m \in 0 .. N
      BY <1>2
    <3>2. up[k + (m + 1)] = up[k + m] + s[k + (m + 1)]
      BY <1>1, <3>1
    <3>3. up[k] <= up[k + m]
      BY <2>2, <3>1
    <3>4. up[k] \in Nat /\ up[k + m] \in Nat /\ s[k + (m + 1)] \in Nat
      BY <1>1, <1>2, <3>1
    <3>. QED  BY <3>2, <3>3, <3>4, SMTT(60)
  <2>. HIDE DEF T
  <2>3. N - k \in T
    <3>1. N - k \in Nat
      BY <1>2 DEF N
    <3>. QED  BY <2>1, <2>2, <3>1, Induct
  <2>4. N - k \in Nat /\ k + (N - k) = N
    BY <1>2 DEF N
  <2>. QED  BY <1>2, <2>3, <2>4 DEF T
<1>5. ASSUME \A n \in DOMAIN s : s[n] > 0
      PROVE  k <= up[k] /\ up[k] - k <= up[N] - N
  <2>. DEFINE T == {m \in Nat : k + m <= N => up[k] - k <= up[k + m] - (k + m)}
              U == {m \in Nat : m <= N => m <= up[m]}
  <2>1. 0 \in T /\ 0 \in U
    BY <1>1, <1>2 DEF N
  <2>2. ASSUME NEW m \in Nat, m \in T PROVE m + 1 \in T
    <3>. SUFFICES ASSUME k + (m + 1) <= N
                  PROVE  up[k] - k <= up[k + (m + 1)] - (k + (m + 1))
      OBVIOUS
    <3>1. k \in Nat /\ k + m <= N /\ k + (m + 1) \in 1 .. N /\ (k + (m + 1)) - 1 = k + m
          /\ k \in 0 .. N /\ k + m \in 0 .. N
      BY <1>2
    <3>2. up[k + (m + 1)] = up[k + m] + s[k + (m + 1)] /\ s[k + (m + 1)] > 0
      BY <1>1, <1>2, <1>5, <3>1
    <3>3. up[k] - k <= up[k + m] - (k + m)
      BY <2>2, <3>1
    <3>4. s[k + (m + 1)] \in Nat /\ up[k] \in Nat /\ up[k + m] \in Nat
      BY <1>1, <1>2, <3>1
    <3>. QED  BY <3>1, <3>2, <3>3, <3>4, SMTT(60)
  <2>3. ASSUME NEW m \in Nat, m \in U PROVE m + 1 \in U
    <3>. SUFFICES ASSUME m + 1 <= N PROVE m + 1 <= up[m + 1]
      OBVIOUS
    <3>1. m + 1 \in 1 .. N /\ (m + 1) - 1 = m /\ m \in 0 .. N /\ m <= N
      BY <1>2
    <3>2. up[m + 1] = up[m] + s[m + 1] /\ s[m + 1] > 0 /\ m <= up[m]
      BY <1>1, <1>2, <1>5, <2>3, <3>1
    <3>3. up[m] \in Nat /\ s[m + 1] \in Nat
      BY <1>1, <1>2, <3>1
    <3>. QED  BY <3>2, <3>3, SMTT(60)
  <2>. HIDE DEF T, U
  <2>4. N - k \in Nat /\ k + (N - k) = N /\ k \in Nat /\ k <= N
    BY <1>2 DEF N
  <2>5. N - k \in T /\ k \in U
    BY <2>1, <2>2, <2>3, <2>4, Induct
  <2>6. k <= up[k]
    BY <2>4, <2>5 DEF U
  <2>7. up[k] - k <= up[N] - N
    BY <1>2, <2>4, <2>5 DEF T
  <2>. QED  BY <2>6, <2>7
<1>6. up[k] \in Nat /\ up[N] \in Nat
  BY <1>1, <1>2, SMTT(60) DEF N
<1>. QED  BY <1>3, <1>4, <1>5, <1>6 DEF up, N


-----------------------------------------------------------------------------
(* What a run has cost so far, by the stages that it has begun.            *)
At == Len(Stages(job)) - Len(todo)
Behind(c) == Before(job, c, At)
Entered(c) == Cardinality(Behind(c))

(* The items that the stage has left, and those of a condition.            *)
Waiting(c) == IF stage.cond = c THEN Cardinality(left) ELSE 0
Size(c) == Cardinality(IF c = "experience" THEN split.optimize ELSE split.confirm)

(* The calls and the follow-up calls of an item, in k turns.               *)
Upper(j, c, k) ==
    IF c \in SearchConds THEN UpTo(j.budgets)[k]
    ELSE IF c = "experience" THEN ExpBudget * k ELSE 0

NoZero(j) == \A n \in DOMAIN j.budgets : j.budgets[n] > 0

FollowUpper(j, c, k) ==
    IF c \in SearchConds THEN UpTo(j.budgets)[k] - k
    ELSE IF c = "experience" THEN Positive(ExpBudget - 1) * k ELSE 0

QueueInv ==
    /\ At \in 0 .. Len(Stages(job))
    /\ \A n \in DOMAIN todo : todo[n] = Stages(job)[At + n]
    /\ stage = IF At = 0 THEN NoStage ELSE Stages(job)[At]

CostOf(c) ==
    /\ tally[c].attempts + Waiting(c) = Size(c) * Entered(c)
    /\ tally[c].calls + Waiting(c) * stage.budget <= Size(c) * Upper(job, c, Entered(c))
    /\ NoZero(job) => tally[c].follow + Waiting(c) * Positive(stage.budget - 1)
                          <= Size(c) * FollowUpper(job, c, Entered(c))
    /\ tally[c].failed <= tally[c].calls
    /\ c \in Required => tally[c].runs = Entered(c)

CostInv == \A c \in Costed : CostOf(c)

(* What was learnt from an item: once in each pass that is over.           *)
Seen(traces, i) == {k \in DOMAIN traces : traces[k].item = i}

PassInv ==
    ~ Resumed(job) =>
        /\ stage.cond = "experience" =>
              \A i \in split.optimize :
                  Cardinality(Seen(mem.traces, i)) + (IF i \in left THEN 1 ELSE 0)
                      = Entered("experience")
        /\ Behind("freeze") # {} =>
              \A i \in split.optimize : Cardinality(Seen(snap.traces, i)) = Passes

(* A run that is over has nothing left, and what it claims was so.         *)
EndInv ==
    pc = "done" =>
        /\ todo = << >>
        /\ left = {}
        /\ verdict.headline =>
              /\ job.kind # "fork"
              /\ Headline(job, Structural, MemoryClaim, Present, Cardinality(split.confirm),
                          Spent("calls"), Spent("failed"), Dead)

RunInv == pc # "idle" => QueueInv /\ CostInv /\ PassInv /\ EndInv

(* Splits and stages are finite.                                           *)
LEMMA ItemsFinite ==
    ASSUME TypeOK
    PROVE  /\ IsFiniteSet(split.optimize) /\ IsFiniteSet(split.confirm) /\ IsFiniteSet(left)
           /\ Cardinality(left) \in Nat /\ \A c : Size(c) \in Nat /\ Waiting(c) \in Nat
<1>1. IsFiniteSet(Items)
  BY FS_Interval, Assumptions DEF PipelineAssumption, Items
<1>2. split.optimize \in SUBSET Items /\ split.confirm \in SUBSET Items
  BY DEF TypeOK
<1>3. left \in SUBSET Items
  BY <1>2 DEF TypeOK
<1>4. IsFiniteSet(split.optimize) /\ IsFiniteSet(split.confirm) /\ IsFiniteSet(left)
  BY <1>1, <1>2, <1>3, FS_Subset
<1>5. /\ Cardinality(split.optimize) \in Nat /\ Cardinality(split.confirm) \in Nat
      /\ Cardinality(left) \in Nat
  BY <1>4, FS_CardinalityType
<1>. QED  BY <1>4, <1>5 DEF Size, Waiting

(* A turn adds its budget to what the condition may cost.                  *)
LEMMA UpperStep ==
    ASSUME NEW j \in JobType, NEW c \in Costed, NEW k \in 0 .. Turns(j, c)
    PROVE  /\ Upper(j, c, k) \in Nat /\ FollowUpper(j, c, k) \in Int
           /\ Upper(j, c, 0) = 0 /\ FollowUpper(j, c, 0) = 0
           /\ k + 1 \in 1 .. Turns(j, c) =>
                 /\ Due(j, c, k + 1) \in Nat
                 /\ Upper(j, c, k + 1) = Upper(j, c, k) + Due(j, c, k + 1)
                 /\ NoZero(j) => FollowUpper(j, c, k + 1)
                        = FollowUpper(j, c, k) + Positive(Due(j, c, k + 1) - 1)
<1>1. CASE c \in SearchConds
  <2>. DEFINE s == j.budgets
              N == Len(s)
              up == UpTo(s)
  <2>1. s \in Seq(Nat) /\ N \in Nat
    BY DEF JobType
  <2>2. up \in [0 .. N -> Nat] /\ up[0] = 0 /\ \A n \in 1 .. N : up[n] = up[n - 1] + s[n]
    BY <2>1, UpToSteps
  <2>3. Turns(j, c) <= N /\ Turns(j, c) \in Nat /\ k \in 0 .. N
    BY <1>1, <2>1 DEF Turns
  <2>4. \A n \in 0 .. N : Upper(j, c, n) = up[n] /\ FollowUpper(j, c, n) = up[n] - n
    BY <1>1 DEF Upper, FollowUpper
  <2>5. \A n \in 1 .. N : Due(j, c, n) = s[n] /\ s[n] \in Nat /\ (NoZero(j) => s[n] > 0)
    BY <1>1, <2>1 DEF Due, NoZero
  <2>. HIDE DEF s, N, up
  <2>6. 0 \in 0 .. N
    BY <2>1
  <2>7. ASSUME k + 1 \in 1 .. Turns(j, c)
        PROVE  /\ Due(j, c, k + 1) \in Nat
               /\ Upper(j, c, k + 1) = Upper(j, c, k) + Due(j, c, k + 1)
               /\ NoZero(j) => FollowUpper(j, c, k + 1)
                      = FollowUpper(j, c, k) + Positive(Due(j, c, k + 1) - 1)
    <3>1. k + 1 \in 1 .. N /\ k + 1 \in 0 .. N /\ (k + 1) - 1 = k /\ k \in Nat
      BY <2>1, <2>3, <2>7
    <3>2. up[k + 1] = up[k] + s[k + 1] /\ up[k] \in Nat
      BY <2>2, <2>3, <3>1
    <3>3. NoZero(j) => Positive(s[k + 1] - 1) = s[k + 1] - 1
      BY <2>5, <3>1 DEF Positive
    <3>. QED  BY <2>3, <2>4, <2>5, <3>1, <3>2, <3>3
  <2>. QED  BY <2>2, <2>3, <2>4, <2>6, <2>7
<1>2. CASE c = "experience"
  <2>1. ExpBudget \in Nat /\ Positive(ExpBudget - 1) \in Nat
    BY Assumptions DEF PipelineAssumption, Positive
  <2>2. k \in Nat
    BY TurnsType
  <2>3. \A n : /\ Upper(j, c, n) = ExpBudget * n /\ Due(j, c, n) = ExpBudget
               /\ FollowUpper(j, c, n) = Positive(ExpBudget - 1) * n
    BY <1>2 DEF Upper, FollowUpper, Due, SearchConds
  <2>4. PICK e \in Nat, p \in Nat : e = ExpBudget /\ p = Positive(ExpBudget - 1)
    BY <2>1
  <2>5. /\ e * k \in Nat /\ e * 0 = 0 /\ e * (k + 1) = e * k + e
        /\ p * k \in Nat /\ p * 0 = 0 /\ p * (k + 1) = p * k + p
    BY <2>2
  <2>. QED  BY <2>3, <2>4, <2>5
<1>3. CASE c = "closed_book"
  <2>1. \A n : Upper(j, c, n) = 0 /\ Due(j, c, n) = 0 /\ FollowUpper(j, c, n) = 0
    BY <1>3 DEF Upper, FollowUpper, Due, SearchConds
  <2>. QED  BY <2>1 DEF Positive
<1>. QED  BY <1>1, <1>2, <1>3 DEF Costed, Required

(* A stage that begins is the run's next one.                              *)
LEMMA NextStage ==
    ASSUME MemoryInv, QueueInv, NEW c, Ready(c), stage' = Head(todo), todo' = Tail(todo),
           UNCHANGED <<job, split>>
    PROVE  /\ QueueInv' /\ At \in 0 .. Len(Stages(job)) /\ At < Len(Stages(job))
           /\ At' = At + 1 /\ stage' = Stages(job)[At + 1] /\ stage'.cond = c
<1>. DEFINE s == Stages(job)
            N == Len(s)
<1>1. job \in JobType /\ todo \in Seq(StageType) /\ todo # << >> /\ Head(todo).cond = c
  BY DEF MemoryInv, TypeOK, Ready
<1>2. s \in Seq(StageType) /\ N \in Nat
  BY <1>1, StagesType
<1>3. /\ Len(todo) \in Nat \ {0} /\ Len(todo') = Len(todo) - 1
      /\ DOMAIN todo' = 1 .. Len(todo) - 1 /\ DOMAIN todo = 1 .. Len(todo)
      /\ \A n \in 1 .. Len(todo) - 1 : todo'[n] = todo[n + 1]
      /\ stage' = todo[1]
  BY <1>1
<1>9. s' = s /\ N' = N
  OBVIOUS
<1>4. At = N - Len(todo) /\ At' = N - Len(todo') /\ At \in 0 .. N
  BY <1>9 DEF At, QueueInv
<1>. HIDE DEF N, s
<1>5. At' = At + 1 /\ At < N /\ At \in Nat /\ At' # 0 /\ At' \in 0 .. N
  <2>1. PICK t \in Nat \ {0}, m \in Nat, a \in Nat :
            t = Len(todo) /\ m = N /\ a = At /\ a = m - t
    <3>1. N \in Nat /\ Len(todo) \in Nat \ {0}
      BY <1>2, <1>3 DEF N
    <3>2. At \in Nat /\ At = N - Len(todo)
      BY <3>1, <1>4
    <3>. QED  BY <3>1, <3>2
  <2>2. At' = m - (t - 1) /\ m - (t - 1) = a + 1 /\ a < m
    BY <2>1, <1>3, <1>4
  <2>3. At' = a + 1
    BY <2>2
  <2>. QED  BY <2>1, <2>2, <2>3
<1>6. \A n \in 1 .. Len(todo) : todo[n] = s[At + n]
  BY <1>3 DEF QueueInv, s
<1>7. stage' = s[At + 1]
  BY <1>3, <1>6
<1>8. ASSUME NEW n \in DOMAIN todo' PROVE todo'[n] = s[At' + n]
  <2>1. n + 1 \in 1 .. Len(todo) /\ At + (n + 1) = At' + n /\ n \in 1 .. Len(todo) - 1
    BY <1>3, <1>5
  <2>. QED  BY <1>3, <1>6, <2>1
<1>10. QueueInv'
  BY <1>5, <1>7, <1>8, <1>9 DEF QueueInv, s, N
<1>. QED  BY <1>1, <1>4, <1>5, <1>7, <1>10 DEF s, N

(* Beginning a stage: its items are what its turn will cost.               *)
LEMMA CostEnter ==
    ASSUME MemoryInv, QueueInv, CostInv, NEW d, Ready(d), stage' = Head(todo),
           todo' = Tail(todo), UNCHANGED <<job, split>>,
           left' = IF d = "experience" THEN split.optimize
                   ELSE IF d \in Required THEN split.confirm ELSE {},
           \A c \in Costed :
              /\ \A f \in {"attempts", "calls", "follow", "failed"} : tally'[c][f] = tally[c][f]
              /\ tally'[c].runs = IF c = d /\ c \in Required THEN tally[c].runs + 1
                                  ELSE tally[c].runs
    PROVE  CostInv'
<1>. SUFFICES ASSUME NEW c \in Costed PROVE CostOf(c)'
  BY DEF CostInv
<1>1. /\ At \in 0 .. Len(Stages(job)) /\ At < Len(Stages(job)) /\ At' = At + 1
      /\ stage' = Stages(job)[At + 1] /\ stage'.cond = d
  BY NextStage
<1>2. /\ TypeOK /\ job \in JobType /\ stage.budget \in Nat /\ stage'.budget \in Nat
      /\ tally[c] \in CostType
  <2>1. /\ TypeOK /\ job \in JobType /\ stage \in StageType \cup {NoStage}
        /\ tally[c] \in CostType
    BY DEF MemoryInv, TypeOK, Costed
  <2>2. Stages(job) \in Seq(StageType) /\ At + 1 \in 1 .. Len(Stages(job))
    BY <2>1, <1>1, StagesType
  <2>3. stage' \in StageType
    BY <2>2, <1>1
  <2>. QED  BY <2>1, <2>3 DEF StageType, NoStage
<1>3. /\ tally[c].attempts \in Nat /\ tally[c].calls \in Nat /\ tally[c].follow \in Nat
      /\ tally[c].failed \in Nat /\ tally[c].runs \in Nat
  BY <1>2 DEF CostType
<1>4. left = {} /\ Cardinality(left) = 0 /\ Waiting(c) = 0
  BY FS_EmptySet DEF Ready, Waiting
<1>5. Size(c) \in Nat /\ Size(c)' = Size(c)
  BY <1>2, ItemsFinite DEF Size
<1>6. PICK e \in Nat : /\ e = Entered(c) /\ e \in 0 .. Turns(job, c)
                       /\ Entered(c)' = IF c = d THEN e + 1 ELSE e
                       /\ c = d => e + 1 \in 1 .. Turns(job, c)
                                   /\ stage'.budget = Due(job, c, e + 1)
  <2>1. Entered(c) = Cardinality(Before(job, c, At))
    BY DEF Entered, Behind
  <2>2. Entered(c)' = Cardinality(Before(job, c, At + 1))
    BY <1>1 DEF Entered, Behind, Before
  <2>. QED  BY <2>1, <2>2, <1>1, <1>2, NextTurn, TurnsType
<1>7. /\ Upper(job, c, e) \in Nat /\ FollowUpper(job, c, e) \in Int
      /\ e + 1 \in 1 .. Turns(job, c) =>
            /\ Upper(job, c, e + 1) = Upper(job, c, e) + Due(job, c, e + 1)
            /\ NoZero(job) => FollowUpper(job, c, e + 1)
                   = FollowUpper(job, c, e) + Positive(Due(job, c, e + 1) - 1)
  BY <1>2, <1>6, UpperStep
<1>8. Positive(stage.budget - 1) \in Nat /\ Positive(stage'.budget - 1) \in Nat
  BY <1>2 DEF Positive
<1>9. PICK z \in Nat, b \in Nat, p \in Nat, u \in Nat, v \in Int :
            /\ z = Size(c) /\ b = stage'.budget /\ p = Positive(b - 1)
            /\ u = Upper(job, c, e) /\ v = FollowUpper(job, c, e)
  BY <1>2, <1>5, <1>7, <1>8
<1>10. /\ z * (e + 1) = z * e + z /\ z * (u + b) = z * u + z * b
       /\ z * (v + p) = z * v + z * p /\ z * e \in Nat /\ z * u \in Nat /\ z * v \in Int
       /\ z * b \in Nat /\ z * p \in Nat
  OBVIOUS
<1>11. /\ tally[c].attempts = z * e /\ tally[c].calls <= z * u
       /\ NoZero(job) => tally[c].follow <= z * v
       /\ tally[c].failed <= tally[c].calls /\ (c \in Required => tally[c].runs = e)
  <2>1. CostOf(c)
    BY DEF CostInv
  <2>2. 0 * stage.budget = 0 /\ 0 * Positive(stage.budget - 1) = 0
    BY <1>2, <1>8
  <2>3. /\ tally[c].attempts + 0 = z * e /\ tally[c].calls + 0 * stage.budget <= z * u
        /\ NoZero(job) => tally[c].follow + 0 * Positive(stage.budget - 1) <= z * v
        /\ tally[c].failed <= tally[c].calls /\ (c \in Required => tally[c].runs = e)
    BY <1>4, <1>6, <1>9, <2>1 DEF CostOf
  <2>4. /\ tally[c].attempts + 0 = tally[c].attempts /\ tally[c].calls + 0 = tally[c].calls
        /\ tally[c].follow + 0 = tally[c].follow
    BY <1>3
  <2>. QED  BY <2>2, <2>3, <2>4
<1>12. /\ tally'[c].attempts = tally[c].attempts /\ tally'[c].calls = tally[c].calls
       /\ tally'[c].follow = tally[c].follow /\ tally'[c].failed = tally[c].failed
  OBVIOUS
<1>13. NoZero(job)' = NoZero(job)
  BY DEF NoZero
<1>14. CASE c = d
  <2>1. Waiting(c)' = z
    BY <1>1, <1>9, <1>14 DEF Waiting, Size, Costed, Required, SearchConds
  <2>2. Upper(job, c, Entered(c))' = u + b
    <3>1. Upper(job, c, Entered(c))' = Upper(job, c, e + 1)
      BY <1>6, <1>14 DEF Upper
    <3>. QED  BY <3>1, <1>6, <1>7, <1>9, <1>14
  <2>3. NoZero(job) => FollowUpper(job, c, Entered(c))' = v + p
    <3>1. FollowUpper(job, c, Entered(c))' = FollowUpper(job, c, e + 1)
      BY <1>6, <1>14 DEF FollowUpper
    <3>. QED  BY <3>1, <1>6, <1>7, <1>9, <1>14
  <2>4. /\ tally'[c].attempts + z = z * (e + 1)
        /\ tally'[c].calls + z * b <= z * (u + b)
        /\ NoZero(job) => tally'[c].follow + z * p <= z * (v + p)
    <3>1. PICK ze \in Nat, zu \in Nat, zb \in Nat, zp \in Nat, zv \in Int :
              ze = z * e /\ zu = z * u /\ zb = z * b /\ zp = z * p /\ zv = z * v
      BY <1>10
    <3>2. /\ tally[c].attempts + z = ze + z
          /\ tally[c].calls + zb <= zu + zb
          /\ NoZero(job) => tally[c].follow + zp <= zv + zp
      BY <1>3, <1>11, <3>1
    <3>. QED  BY <1>10, <1>12, <3>1, <3>2
  <2>5. c \in Required => tally'[c].runs = e + 1
    BY <1>11, <1>14
  <2>6. Size(c)' = z /\ Entered(c)' = e + 1 /\ (stage.budget)' = b
        /\ Positive(stage.budget - 1)' = p
    BY <1>5, <1>6, <1>9, <1>14 DEF Positive
  <2>. QED  BY <1>11, <1>12, <1>13, <2>1, <2>2, <2>3, <2>4, <2>5, <2>6 DEF CostOf
<1>15. CASE c # d
  <2>1. Waiting(c)' = 0
    BY <1>1, <1>15 DEF Waiting
  <2>2. Upper(job, c, Entered(c))' = u /\ FollowUpper(job, c, Entered(c))' = v
    BY <1>6, <1>9, <1>15 DEF Upper, FollowUpper
  <2>3. 0 * b = 0 /\ 0 * p = 0
    OBVIOUS
  <2>4. Size(c)' = z /\ Entered(c)' = e /\ (stage.budget)' = b
        /\ Positive(stage.budget - 1)' = p
    BY <1>5, <1>6, <1>9, <1>15 DEF Positive
  <2>5. c \in Required => tally'[c].runs = e
    BY <1>11, <1>15
  <2>. QED  BY <1>3, <1>10, <1>11, <1>12, <1>13, <2>1, <2>2, <2>3, <2>4, <2>5 DEF CostOf
<1>. QED  BY <1>14, <1>15

(* An attempt costs no more than one of its stage's items may.             *)
LEMMA CostAttempt ==
    ASSUME MemoryInv, QueueInv, CostInv, NEW calls \in 0 .. stage.budget, NEW arm \in Arms,
           NEW follow \in 0 .. calls, NEW failed \in 0 .. calls,
           Attempt(calls, follow, failed, arm)
    PROVE  CostInv'
<1>. SUFFICES ASSUME NEW c \in Costed PROVE CostOf(c)'
  BY DEF CostInv
<1>1. /\ TypeOK /\ job \in JobType /\ stage.budget \in Nat /\ tally[c] \in CostType
      /\ stage.cond \in Costed /\ NextItem \in left
  <2>1. /\ TypeOK /\ job \in JobType /\ stage \in StageType \cup {NoStage}
        /\ tally[c] \in CostType /\ left # {}
        /\ left \subseteq IF stage.cond = "experience" THEN split.optimize
                          ELSE IF stage.cond \in Required THEN split.confirm ELSE {}
    BY DEF MemoryInv, TypeOK, Costed, Attempt
  <2>. QED  BY <2>1 DEF StageType, NoStage, NextItem, Costed
<1>2. /\ tally[c].attempts \in Nat /\ tally[c].calls \in Nat /\ tally[c].follow \in Nat
      /\ tally[c].failed \in Nat /\ tally[c].runs \in Nat
      /\ calls \in Nat /\ follow \in Nat /\ failed \in Nat
      /\ calls <= stage.budget /\ follow <= Positive(calls - 1) /\ failed <= calls
  BY <1>1 DEF CostType, Attempt
<1>3. Cardinality(left) \in Nat \ {0} /\ Cardinality(left') = Cardinality(left) - 1
  <2>1. IsFiniteSet(left) /\ left' = left \ {NextItem} /\ Cardinality(left) \in Nat
    BY <1>1, ItemsFinite DEF Attempt
  <2>2. Cardinality(left') = Cardinality(left) - 1
    BY <1>1, <2>1, FS_RemoveElement
  <2>3. Cardinality(left) # 0
    BY <1>1, <2>1, FS_EmptySet
  <2>. QED  BY <2>1, <2>2, <2>3
<1>4. UNCHANGED <<job, split, stage, todo>>
  BY DEF Attempt
<1>5. /\ Size(c) \in Nat /\ Size(c)' = Size(c) /\ Entered(c)' = Entered(c)
      /\ Upper(job, c, Entered(c))' = Upper(job, c, Entered(c))
      /\ FollowUpper(job, c, Entered(c))' = FollowUpper(job, c, Entered(c))
      /\ NoZero(job)' = NoZero(job) /\ (stage.budget)' = stage.budget
      /\ Positive(stage.budget - 1)' = Positive(stage.budget - 1)
  BY <1>1, <1>4, ItemsFinite
  DEF Size, Entered, Behind, Before, At, Upper, FollowUpper, NoZero, Positive
<1>6. CostOf(c)
  BY DEF CostInv
<1>7. CASE c # stage.cond
  <2>1. tally'[c] = tally[c]
    BY <1>1, <1>7 DEF Attempt, TypeOK, Costed
  <2>2. Waiting(c) = 0 /\ Waiting(c)' = 0
    BY <1>4, <1>7 DEF Waiting
  <2>. QED  BY <1>5, <1>6, <2>1, <2>2 DEF CostOf
<1>8. CASE c = stage.cond
  <2>1. tally'[c] = Charged(tally[c], calls, follow, failed)
    BY <1>1, <1>8 DEF Attempt, TypeOK, Costed
  <2>2. /\ tally'[c].attempts = tally[c].attempts + 1
        /\ tally'[c].calls = tally[c].calls + calls
        /\ tally'[c].follow = tally[c].follow + follow
        /\ tally'[c].failed = tally[c].failed + failed
        /\ tally'[c].runs = tally[c].runs
    BY <2>1 DEF Charged
  <2>3. Positive(stage.budget - 1) \in Nat /\ follow <= Positive(stage.budget - 1)
    BY <1>1, <1>2 DEF Positive
  <2>4. PICK w \in Nat, b \in Nat, p \in Nat :
            /\ Waiting(c) = w + 1 /\ Waiting(c)' = w
            /\ b = stage.budget /\ p = Positive(stage.budget - 1)
    <3>1. PICK w \in Nat : Cardinality(left) = w + 1 /\ Cardinality(left') = w
      <4>1. Cardinality(left) - 1 \in Nat /\ Cardinality(left) = (Cardinality(left) - 1) + 1
        BY <1>3
      <4>. QED  BY <4>1, <1>3
    <3>. QED  BY <1>1, <1>4, <1>8, <2>3, <3>1 DEF Waiting
  <2>5. PICK wb \in Nat, wp \in Nat :
            /\ wb = w * b /\ wp = w * p /\ (w + 1) * b = wb + b /\ (w + 1) * p = wp + p
    <3>1. /\ w * b \in Nat /\ w * p \in Nat
          /\ (w + 1) * b = w * b + b /\ (w + 1) * p = w * p + p
      OBVIOUS
    <3>. QED  BY <3>1
  <2>6. /\ tally[c].attempts + (w + 1) = Size(c) * Entered(c)
        /\ tally[c].calls + (wb + b) <= Size(c) * Upper(job, c, Entered(c))
        /\ NoZero(job) => tally[c].follow + (wp + p)
                              <= Size(c) * FollowUpper(job, c, Entered(c))
        /\ tally[c].failed <= tally[c].calls
        /\ c \in Required => tally[c].runs = Entered(c)
    BY <1>6, <2>4, <2>5 DEF CostOf
  <2>7. /\ Size(c) * Upper(job, c, Entered(c)) \in Int
        /\ Size(c) * FollowUpper(job, c, Entered(c)) \in Int
    <3>1. Entered(c) \in 0 .. Turns(job, c)
      BY <1>1, NextTurn DEF Entered, Behind, QueueInv
    <3>2. Upper(job, c, Entered(c)) \in Nat /\ FollowUpper(job, c, Entered(c)) \in Int
      BY <1>1, <3>1, UpperStep
    <3>. QED  BY <1>5, <3>2
  <2>8. PICK x \in Int, y \in Int : /\ x = Size(c) * Upper(job, c, Entered(c))
                                    /\ y = Size(c) * FollowUpper(job, c, Entered(c))
    BY <2>7
  <2>9. /\ (tally[c].attempts + 1) + w = Size(c) * Entered(c)
        /\ (tally[c].calls + calls) + wb <= x
        /\ NoZero(job) => (tally[c].follow + follow) + wp <= y
        /\ tally[c].failed + failed <= tally[c].calls + calls
    BY <1>2, <2>3, <2>4, <2>6, <2>8
  <2>. QED  BY <1>5, <2>2, <2>4, <2>5, <2>6, <2>8, <2>9 DEF CostOf
<1>. QED  BY <1>7, <1>8

(* The freeze is behind a run once its stage has begun, and not before.    *)
LEMMA FreezeBehind ==
    ASSUME MemoryInv, QueueInv, NEW d, Ready(d), stage' = Head(todo), todo' = Tail(todo),
           UNCHANGED <<job, split>>, d # "freeze"
    PROVE  Behind("freeze")' = Behind("freeze")
<1>1. /\ At \in 0 .. Len(Stages(job)) /\ At' = At + 1
      /\ Stages(job)[At + 1].cond # "freeze"
  BY NextStage
<1>2. Behind("freeze")' = {m \in 1 .. At + 1 : Stages(job)[m].cond = "freeze"}
  BY <1>1 DEF Behind, Before
<1>3. PICK n \in Nat : n = At
  BY <1>1
<1>4. \A m : m \in 1 .. n + 1 <=> m \in 1 .. n \/ m = n + 1
  OBVIOUS
<1>. QED  BY <1>1, <1>2, <1>3, <1>4 DEF Behind, Before

(* An item is seen finitely often.                                         *)
LEMMA SeenFinite ==
    ASSUME NEW traces \in Seq(Trace), NEW i
    PROVE  IsFiniteSet(Seen(traces, i)) /\ Cardinality(Seen(traces, i)) \in Nat
<1>1. DOMAIN traces = 1 .. Len(traces) /\ Len(traces) \in Nat
  OBVIOUS
<1>2. IsFiniteSet(1 .. Len(traces)) /\ Seen(traces, i) \subseteq 1 .. Len(traces)
  BY <1>1, FS_Interval DEF Seen
<1>. QED  BY <1>2, FS_Subset, FS_CardinalityType

(* A pass begins: every item is in it, and saw the passes before.          *)
LEMMA PassExperience ==
    ASSUME MemoryInv, QueueInv, PassInv, Experience
    PROVE  PassInv'
<1>. SUFFICES ASSUME ~ Resumed(job)
              PROVE  /\ stage'.cond = "experience" =>
                          \A i \in split.optimize :
                              Cardinality(Seen(mem'.traces, i)) + (IF i \in left' THEN 1 ELSE 0)
                                  = Entered("experience")'
                     /\ Behind("freeze")' # {} =>
                          \A i \in split.optimize : Cardinality(Seen(snap.traces, i)) = Passes
  BY DEF PassInv, Experience
<1>1. /\ Ready("experience") /\ stage' = Head(todo) /\ todo' = Tail(todo)
      /\ UNCHANGED <<job, split, snap>> /\ left' = split.optimize /\ left = {}
      /\ mem' = IF stage.cond = "experience" THEN mem ELSE NewMemory
  BY DEF Experience, Enter, Ready
<1>2. /\ At \in 0 .. Len(Stages(job)) /\ At < Len(Stages(job)) /\ At' = At + 1
      /\ Stages(job)[At + 1].cond = "experience" /\ job \in JobType
      /\ stage = IF At = 0 THEN NoStage ELSE Stages(job)[At]
  BY <1>1, NextStage DEF MemoryInv, TypeOK, QueueInv
<1>3. Entered("experience")' = Entered("experience") + 1
  <2>1. /\ Entered("experience") = Cardinality(Before(job, "experience", At))
        /\ Entered("experience")' = Cardinality(Before(job, "experience", At + 1))
    BY <1>1, <1>2 DEF Entered, Behind, Before
  <2>. QED  BY <2>1, <1>2, NextTurn DEF Costed
<1>4. Behind("freeze")' = Behind("freeze")
  BY <1>1, FreezeBehind
<1>5. ASSUME NEW i \in split.optimize
      PROVE  Cardinality(Seen(mem'.traces, i)) = Entered("experience")
  <2>1. CASE stage.cond = "experience"
    <3>1. Cardinality(Seen(mem.traces, i)) + 0 = Entered("experience")
      BY <1>1, <2>1 DEF PassInv
    <3>2. Cardinality(Seen(mem.traces, i)) \in Nat
      BY SeenFinite DEF MemoryInv, TypeOK, MemoryType
    <3>. QED  BY <1>1, <2>1, <3>1, <3>2
  <2>2. CASE stage.cond # "experience"
    <3>1. Before(job, "experience", At) = {}
      BY <1>2, <2>2, PassesTogether
    <3>2. Seen(NewMemory.traces, i) = {}
      BY DEF Seen, NewMemory
    <3>. QED  BY <1>1, <2>2, <3>1, <3>2 DEF Entered, Behind
  <2>. QED  BY <2>1, <2>2
<1>6. \A i \in split.optimize :
          Cardinality(Seen(mem'.traces, i)) + (IF i \in left' THEN 1 ELSE 0)
              = Entered("experience")'
  BY <1>1, <1>3, <1>5
<1>. QED  BY <1>1, <1>4, <1>6 DEF PassInv

(* The freeze: every item saw every pass.                                  *)
LEMMA PassFreeze ==
    ASSUME MemoryInv, QueueInv, PassInv, Freeze
    PROVE  PassInv'
<1>. DEFINE learnt == IF stage.cond = "experience" THEN mem ELSE NewMemory
<1>. SUFFICES ASSUME ~ Resumed(job)
              PROVE  /\ stage'.cond # "experience"
                     /\ \A i \in split.optimize : Cardinality(Seen(snap'.traces, i)) = Passes
  BY DEF PassInv, Freeze
<1>1. /\ Ready("freeze") /\ stage' = Head(todo) /\ todo' = Tail(todo)
      /\ UNCHANGED <<job, split>> /\ left = {}
      /\ snap' = Snapshot(Consolidate(learnt))
  BY DEF Freeze, Enter, Ready
<1>2. /\ At \in 0 .. Len(Stages(job)) /\ At < Len(Stages(job)) /\ At' = At + 1
      /\ Stages(job)[At + 1].cond = "freeze" /\ stage'.cond = "freeze" /\ job \in JobType
      /\ stage = IF At = 0 THEN NoStage ELSE Stages(job)[At]
  BY <1>1, NextStage DEF MemoryInv, TypeOK, QueueInv
<1>3. Turns(job, "experience") = Passes
  <2>1. At + 1 \in 1 .. Len(Stages(job))
    <3>1. PICK n \in Nat, m \in Nat : n = At /\ m = Len(Stages(job)) /\ n < m
      BY <1>2
    <3>. QED  BY <3>1
  <2>2. "policy_memory" \in job.conds
    BY <1>2, <2>1, LearningTurns
  <2>. QED  BY <2>2 DEF Turns, SearchConds
<1>4. Entered("experience") = Passes
  BY <1>2, <1>3, PassesTogether DEF Entered, Behind
<1>5. snap'.traces = learnt.traces
  <2>1. learnt \in MemoryType
    BY NewMemoryType DEF MemoryInv, TypeOK
  <2>2. Consolidate(learnt).traces = learnt.traces
    BY <2>1, ConsolidateType
  <2>. HIDE DEF learnt
  <2>. QED  BY <1>1, <2>2 DEF Snapshot
<1>6. ASSUME NEW i \in split.optimize
      PROVE  Cardinality(Seen(learnt.traces, i)) = Passes
  <2>1. CASE stage.cond = "experience"
    <3>1. Cardinality(Seen(mem.traces, i)) + 0 = Entered("experience")
      BY <1>1, <2>1 DEF PassInv
    <3>2. Cardinality(Seen(mem.traces, i)) \in Nat
      BY SeenFinite DEF MemoryInv, TypeOK, MemoryType
    <3>. QED  BY <1>4, <2>1, <3>1, <3>2
  <2>2. CASE stage.cond # "experience"
    <3>1. Before(job, "experience", At) = {}
      BY <1>2, <2>2, PassesTogether
    <3>2. Seen(NewMemory.traces, i) = {}
      BY DEF Seen, NewMemory
    <3>. QED  BY <1>4, <2>2, <3>1, <3>2 DEF Entered, Behind
  <2>. QED  BY <2>1, <2>2
<1>. QED  BY <1>2, <1>5, <1>6

(* Another stage begins: what was learnt stays.                            *)
LEMMA PassEnter ==
    ASSUME MemoryInv, QueueInv, PassInv, NEW d, Ready(d), stage' = Head(todo),
           todo' = Tail(todo), UNCHANGED <<job, split, snap>>, d \notin {"experience", "freeze"}
    PROVE  PassInv'
<1>1. stage'.cond = d
  BY NextStage
<1>2. Behind("freeze")' = Behind("freeze")
  BY FreezeBehind
<1>. QED  BY <1>1, <1>2 DEF PassInv

(* An attempt of a pass records its item once.                             *)
LEMMA PassAttempt ==
    ASSUME MemoryInv, PassInv, NEW calls, NEW arm \in Arms, NEW follow, NEW failed,
           Attempt(calls, follow, failed, arm)
    PROVE  PassInv'
<1>1. /\ UNCHANGED <<job, split, stage, todo, snap>> /\ left' = left \ {NextItem} /\ left # {}
      /\ mem' = IF Updates /\ ~ mem.frozen THEN Observe(mem, NextItem, arm) ELSE mem
  BY DEF Attempt
<1>2. Entered("experience")' = Entered("experience") /\ Behind("freeze")' = Behind("freeze")
  BY <1>1 DEF Entered, Behind, Before, At
<1>3. ASSUME ~ Resumed(job), stage.cond = "experience", NEW i \in split.optimize
      PROVE  Cardinality(Seen(mem'.traces, i)) + (IF i \in left' THEN 1 ELSE 0)
                 = Entered("experience")
  <2>1. /\ NextItem \in left /\ NextItem \in Items /\ mem \in MemoryType
        /\ mem.traces \in Seq(Trace)
    BY <1>1, <1>3 DEF MemoryInv, TypeOK, MemoryType, NextItem
  <2>2. mem' = Observe(mem, NextItem, arm)
    BY <1>1, <1>3 DEF MemoryInv, FrozenInv, Updates
  <2>3. PICK t \in Seq(Trace), r \in Trace : /\ t = mem.traces /\ r.item = NextItem
                                             /\ mem'.traces = Append(t, r)
    <3>1. [item |-> NextItem, arm |-> arm] \in Trace
      BY <2>1 DEF Trace
    <3>2. mem'.traces = Append(mem.traces, [item |-> NextItem, arm |-> arm])
      BY <2>1, <2>2 DEF Observe, MemoryType
    <3>. QED  BY <2>1, <3>1, <3>2
  <2>4. /\ DOMAIN Append(t, r) = 1 .. Len(t) + 1 /\ DOMAIN t = 1 .. Len(t) /\ Len(t) \in Nat
        /\ \A k \in 1 .. Len(t) : Append(t, r)[k] = t[k]
        /\ Append(t, r)[Len(t) + 1] = r
    OBVIOUS
  <2>5. Cardinality(Seen(t, i)) + (IF i \in left THEN 1 ELSE 0) = Entered("experience")
    BY <1>3, <2>3 DEF PassInv
  <2>6. IsFiniteSet(Seen(t, i)) /\ Cardinality(Seen(t, i)) \in Nat
    BY SeenFinite
  <2>7. CASE i = NextItem
    <3>1. Seen(mem'.traces, i) = Seen(t, i) \cup {Len(t) + 1} /\ Len(t) + 1 \notin Seen(t, i)
      BY <2>3, <2>4, <2>7 DEF Seen
    <3>2. Cardinality(Seen(mem'.traces, i)) = Cardinality(Seen(t, i)) + 1
      BY <3>1, <2>6, FS_AddElement
    <3>. QED  BY <1>1, <2>1, <2>5, <2>6, <2>7, <3>2
  <2>8. CASE i # NextItem
    <3>1. Seen(mem'.traces, i) = Seen(t, i)
      BY <2>3, <2>4, <2>8 DEF Seen
    <3>. QED  BY <1>1, <2>5, <2>8, <3>1
  <2>. QED  BY <2>7, <2>8
<1>. QED  BY <1>1, <1>2, <1>3 DEF PassInv

-----------------------------------------------------------------------------
(* Every step of a run keeps RunInv.                                       *)

(* A run begins: nothing is behind it.                                     *)
LEMMA RunBegin ==
    ASSUME MemoryInv, NEW j \in JobType, Begin(j)
    PROVE  RunInv'
<1>1. /\ job' = j /\ split' = SplitOf(j) /\ todo' = Stages(j) /\ stage' = NoStage
      /\ left' = {} /\ snap' = EmptySnapshot /\ tally' = NoTally /\ pc' = "running"
  BY DEF Begin
<1>2. Stages(j) \in Seq(StageType) /\ Len(Stages(j)) \in Nat
      /\ DOMAIN Stages(j) = 1 .. Len(Stages(j))
  BY StagesType
<1>3. At' = 0
  <2>1. At' = Len(Stages(j)) - Len(Stages(j))
    BY <1>1 DEF At
  <2>. QED  BY <2>1, <1>2
<1>4. QueueInv'
  <2>1. \A n \in DOMAIN todo' : todo'[n] = Stages(j)[0 + n]
    BY <1>1, <1>2
  <2>. QED  BY <2>1, <1>1, <1>2, <1>3 DEF QueueInv
<1>5. \A c : Behind(c)' = {} /\ Entered(c)' = 0
  <2>1. \A c : Behind(c)' = {}
    BY <1>1, <1>3 DEF Behind, Before
  <2>. QED  BY <2>1, FS_EmptySet DEF Entered
<1>6. ASSUME NEW c \in Costed PROVE CostOf(c)'
  <2>1. /\ tally'[c].attempts = 0 /\ tally'[c].calls = 0 /\ tally'[c].follow = 0
        /\ tally'[c].failed = 0 /\ tally'[c].runs = 0
    BY <1>1 DEF NoTally, NoCost, Costed
  <2>2. Waiting(c)' = 0 /\ (stage.budget)' = 0 /\ Positive(stage.budget - 1)' = 0
    BY <1>1, FS_EmptySet DEF Waiting, NoStage, Positive
  <2>3. Size(c)' \in Nat
    <3>1. IsFiniteSet(Items) /\ SplitOf(j).optimize \subseteq Items
          /\ SplitOf(j).confirm \subseteq Items
      BY FS_Interval, Assumptions, SplitTypes DEF PipelineAssumption, Items
    <3>2. /\ Cardinality(SplitOf(j).optimize) \in Nat
          /\ Cardinality(SplitOf(j).confirm) \in Nat
      BY <3>1, FS_Subset, FS_CardinalityType
    <3>. QED  BY <3>2, <1>1 DEF Size
  <2>4. Upper(job, c, Entered(c))' = 0 /\ FollowUpper(job, c, Entered(c))' = 0
    <3>1. Upper(j, c, 0) = 0 /\ FollowUpper(j, c, 0) = 0
      <4>1. 0 \in 0 .. Turns(j, c)
        BY TurnsType
      <4>. QED  BY <4>1, UpperStep
    <3>. QED  BY <3>1, <1>1, <1>5 DEF Upper, FollowUpper
  <2>5. PICK z \in Nat : z = Size(c)'
    BY <2>3
  <2>6. z * 0 = 0 /\ 0 * 0 = 0 /\ 0 + 0 = 0
    OBVIOUS
  <2>. QED  BY <1>5, <2>1, <2>2, <2>4, <2>5, <2>6 DEF CostOf
<1>7. PassInv'
  BY <1>1, <1>5 DEF PassInv, NoStage
<1>8. EndInv'
  BY <1>1 DEF EndInv
<1>. QED  BY <1>4, <1>6, <1>7, <1>8 DEF RunInv, CostInv

(* A run ends with its queue empty.                                        *)
LEMMA RunVerdict ==
    ASSUME MemoryInv, RunInv, Verdict
    PROVE  RunInv'
<1>1. /\ QueueInv /\ CostInv /\ PassInv /\ todo = << >> /\ left = {}
      /\ UNCHANGED <<job, split, todo, stage, left, mem, snap, tally, audited>>
      /\ verdict' =
          [structural |-> Structural,
           headline |->
              /\ job.kind # "fork"
              /\ Headline(job, Structural, MemoryClaim, Present,
                          Cardinality(split.confirm), Spent("calls"),
                          Spent("failed"), Dead)]
  BY DEF RunInv, Verdict
<1>2. QueueInv'
  BY <1>1 DEF QueueInv, At
<1>3. CostInv'
  BY <1>1 DEF CostInv, CostOf, Waiting, Size, Upper, FollowUpper, NoZero, Entered, Behind,
              Before, At, Positive
<1>4. PassInv'
  BY <1>1 DEF PassInv, Entered, Behind, Before, At
<1>5. EndInv'
  <2>1. /\ Structural' = Structural /\ MemoryClaim' = MemoryClaim /\ Present' = Present
        /\ Spent("calls")' = Spent("calls") /\ Spent("failed")' = Spent("failed")
        /\ Dead' = Dead
    BY <1>1 DEF Structural, MemoryClaim, Present, Spent, Dead
  <2>2. verdict'.headline <=>
              /\ job.kind # "fork"
              /\ Headline(job, Structural, MemoryClaim, Present,
                          Cardinality(split.confirm), Spent("calls"),
                          Spent("failed"), Dead)
    BY <1>1
  <2>. QED  BY <1>1, <2>1, <2>2 DEF EndInv, Headline
<1>. QED  BY <1>2, <1>3, <1>4, <1>5 DEF RunInv

(* Every step keeps the two invariants.                                    *)
LEMMA RunNext == MemoryInv /\ RunInv /\ [Next]_vars => RunInv'
<1>. SUFFICES ASSUME MemoryInv, RunInv, [Next]_vars PROVE RunInv'
  OBVIOUS
<1>0. "experience" \notin Required /\ "freeze" \notin Costed /\ "audit" \notin Costed
      /\ "freeze" \notin Required /\ "audit" \notin Required
  BY DEF Required, SearchConds, Costed
<1>00. tally \in [Costed -> CostType]
  BY DEF MemoryInv, TypeOK, Costed
<1>1. ASSUME NEW j \in Jobs, Start(j) PROVE RunInv'
  <2>1. j \in JobType
    BY Assumptions DEF JobsAssumption
  <2>. QED  BY <1>1, <2>1, RunBegin DEF Start
<1>2. CASE Fork
  BY <1>2, ForkType, RunBegin DEF Fork, MemoryInv
<1>3. CASE Experience
  <2>1. /\ Ready("experience") /\ stage' = Head(todo) /\ todo' = Tail(todo)
        /\ UNCHANGED <<job, split, tally, pc>> /\ left' = split.optimize
        /\ pc = "running"
    BY <1>3 DEF Experience, Enter, Ready
  <2>2. QueueInv /\ CostInv /\ PassInv
    BY <2>1 DEF RunInv
  <2>3. QueueInv'
    BY <2>1, <2>2, NextStage
  <2>4. CostInv'
    BY <1>0, <2>1, <2>2, CostEnter
  <2>5. PassInv'
    BY <1>3, <2>2, PassExperience
  <2>. QED  BY <2>1, <2>3, <2>4, <2>5 DEF RunInv, EndInv
<1>4. CASE Freeze
  <2>1. /\ Ready("freeze") /\ stage' = Head(todo) /\ todo' = Tail(todo)
        /\ UNCHANGED <<job, split, tally, pc>> /\ left' = {}
        /\ pc = "running"
    BY <1>4 DEF Freeze, Enter, Ready
  <2>2. QueueInv /\ CostInv /\ PassInv
    BY <2>1 DEF RunInv
  <2>3. QueueInv'
    BY <2>1, <2>2, NextStage
  <2>4. CostInv'
    BY <1>0, <2>1, <2>2, CostEnter
  <2>5. PassInv'
    BY <1>4, <2>2, PassFreeze
  <2>. QED  BY <2>1, <2>3, <2>4, <2>5 DEF RunInv, EndInv
<1>5. ASSUME NEW d \in Required, Measure(d) PROVE RunInv'
  <2>1. /\ Ready(d) /\ stage' = Head(todo) /\ todo' = Tail(todo)
        /\ UNCHANGED <<job, split, snap, pc>> /\ left' = split.confirm
        /\ tally' = [tally EXCEPT ![d].runs = @ + 1]
        /\ pc = "running"
    BY <1>5 DEF Measure, Enter, Ready
  <2>2. QueueInv /\ CostInv /\ PassInv
    BY <2>1 DEF RunInv
  <2>3. QueueInv'
    BY <2>1, <2>2, NextStage
  <2>4. ASSUME NEW c \in Costed
        PROVE  /\ \A f \in {"attempts", "calls", "follow", "failed"} : tally'[c][f] = tally[c][f]
               /\ tally'[c].runs = IF c = d /\ c \in Required THEN tally[c].runs + 1
                                   ELSE tally[c].runs
    BY <1>00, <1>5, <2>1 DEF CostType
  <2>5. d # "experience" /\ d # "freeze"
    BY <1>0, <1>5
  <2>6. CostInv'
    BY <1>5, <2>1, <2>2, <2>4, <2>5, CostEnter
  <2>7. PassInv'
    BY <2>1, <2>2, <2>5, PassEnter
  <2>. QED  BY <2>1, <2>3, <2>6, <2>7 DEF RunInv, EndInv
<1>6. ASSUME NEW calls \in 0 .. stage.budget, NEW arm \in Arms,
             NEW follow \in 0 .. calls, NEW failed \in 0 .. calls,
             Attempt(calls, follow, failed, arm)
      PROVE  RunInv'
  <2>1. /\ UNCHANGED <<job, todo, stage>> /\ pc = "running" /\ pc' # "done"
    BY <1>6 DEF Attempt
  <2>2. QueueInv /\ CostInv /\ PassInv
    BY <2>1 DEF RunInv
  <2>3. QueueInv'
    BY <2>1, <2>2 DEF QueueInv, At
  <2>4. CostInv'
    BY <1>6, <2>2, CostAttempt
  <2>5. PassInv'
    BY <1>6, <2>2, PassAttempt
  <2>. QED  BY <2>1, <2>3, <2>4, <2>5 DEF RunInv, EndInv
<1>7. CASE Audit
  <2>1. /\ Ready("audit") /\ stage' = Head(todo) /\ todo' = Tail(todo)
        /\ UNCHANGED <<job, split, snap, tally, pc>> /\ left' = {}
        /\ pc = "running"
    BY <1>7 DEF Audit, Enter, Ready
  <2>2. QueueInv /\ CostInv /\ PassInv
    BY <2>1 DEF RunInv
  <2>3. QueueInv'
    BY <2>1, <2>2, NextStage
  <2>4. CostInv'
    BY <1>0, <2>1, <2>2, CostEnter
  <2>5. PassInv'
    BY <2>1, <2>2, PassEnter
  <2>. QED  BY <2>1, <2>3, <2>4, <2>5 DEF RunInv, EndInv
<1>8. CASE Verdict
  BY <1>8, RunVerdict
<1>9. CASE UNCHANGED vars
  <2>1. UNCHANGED <<pc, job, split, todo, stage, left, mem, snap, tally, audited, verdict>>
    BY <1>9 DEF vars
  <2>2. (pc # "idle" => QueueInv)' <=> (pc # "idle" => QueueInv)
    BY <2>1 DEF QueueInv, At
  <2>3. (pc # "idle" => CostInv)' <=> (pc # "idle" => CostInv)
    BY <2>1 DEF CostInv, CostOf, Waiting, Size, Upper, FollowUpper, NoZero, Entered, Behind,
                Before, At, Positive
  <2>4. (pc # "idle" => PassInv)' <=> (pc # "idle" => PassInv)
    BY <2>1 DEF PassInv, Entered, Behind, Before, At
  <2>5. EndInv' <=> EndInv
    BY <2>1 DEF EndInv, Headline, Structural, MemoryClaim, Present, Spent, Dead
  <2>. QED  BY <2>1, <2>2, <2>3, <2>4, <2>5 DEF RunInv
<1>. QED  BY <1>1, <1>2, <1>3, <1>4, <1>5, <1>6, <1>7, <1>8, <1>9 DEF Next

(* Both invariants hold in every run.                                      *)
LEMMA RunAlways == Spec => [](MemoryInv /\ RunInv)
<1>1. Init => RunInv
  BY DEF Init, RunInv
<1>. QED  BY <1>1, MemoryInit, MemoryNext, RunNext, PTL DEF Spec

-----------------------------------------------------------------------------
(* What a run may cost, and what a headline rests on.                      *)

(* Multiplying by a natural number keeps the order.                        *)
LEMMA Times ==
    ASSUME NEW z \in Nat, NEW a \in Int, NEW b \in Int, a <= b
    PROVE  z * a <= z * b /\ z * a \in Int /\ z * b \in Int
OBVIOUS

(* The turns that a condition has had, and all of them once it is over.    *)
LEMMA TurnsTaken ==
    ASSUME MemoryInv, RunInv, pc # "idle", NEW c \in Costed
    PROVE  /\ CostOf(c) /\ Entered(c) \in 0 .. Turns(job, c) /\ Entered(c) \in Nat
           /\ Turns(job, c) \in Nat
           /\ Waiting(c) \in Nat /\ Size(c) \in Nat /\ tally[c] \in CostType
           /\ stage.budget \in Nat
           /\ pc = "done" => Entered(c) = Turns(job, c) /\ Waiting(c) = 0
<1>1. /\ QueueInv /\ CostInv /\ EndInv /\ job \in JobType /\ tally[c] \in CostType
      /\ stage \in StageType \cup {NoStage} /\ Len(Stages(job)) \in Nat /\ TypeOK
      /\ Turns(job, c) \in Nat
  BY StagesType, TurnsType DEF RunInv, MemoryInv, TypeOK, Costed
<1>2. Entered(c) \in 0 .. Turns(job, c) /\ (At = Len(Stages(job)) => Entered(c) = Turns(job, c))
  BY <1>1, NextTurn DEF QueueInv, Entered, Behind
<1>3. Waiting(c) \in Nat /\ Size(c) \in Nat
  BY <1>1, ItemsFinite
<1>4. pc = "done" => At = Len(Stages(job)) /\ Waiting(c) = 0
  <2>1. SUFFICES ASSUME pc = "done" PROVE At = Len(Stages(job)) /\ Waiting(c) = 0
    OBVIOUS
  <2>2. Len(todo) = 0 /\ Cardinality(left) = 0
    BY <1>1, <2>1, FS_EmptySet DEF EndInv
  <2>3. PICK n \in Nat : n = Len(Stages(job))
    BY <1>1
  <2>4. At = n - 0
    BY <2>2, <2>3 DEF At
  <2>5. n - 0 = n
    OBVIOUS
  <2>. QED  BY <2>2, <2>3, <2>4, <2>5 DEF Waiting
<1>5. stage.budget \in Nat
  BY <1>1 DEF StageType, NoStage
<1>. QED  BY <1>1, <1>2, <1>3, <1>4, <1>5 DEF CostInv

(* What a condition has cost, by the turns that it has had.                *)
LEMMA Charges ==
    ASSUME MemoryInv, RunInv, pc # "idle", NEW c \in Costed
    PROVE  LET e == Entered(c) IN
           /\ e \in 0 .. Turns(job, c)
           /\ tally[c].attempts \in Nat /\ tally[c].attempts <= Size(c) * e
           /\ tally[c].calls \in Nat /\ tally[c].calls <= Size(c) * Upper(job, c, e)
           /\ tally[c].follow \in Nat
           /\ NoZero(job) => tally[c].follow <= Size(c) * FollowUpper(job, c, e)
           /\ pc = "done" => /\ e = Turns(job, c)
                             /\ tally[c].attempts = Size(c) * Turns(job, c)
           /\ Size(c) \in Nat /\ Turns(job, c) \in Nat
<1>. DEFINE e == Entered(c)
            u == Upper(job, c, e)
            v == FollowUpper(job, c, e)
<1>1. /\ CostOf(c) /\ e \in 0 .. Turns(job, c) /\ e \in Nat /\ Turns(job, c) \in Nat
      /\ Waiting(c) \in Nat /\ Size(c) \in Nat /\ tally[c] \in CostType /\ stage.budget \in Nat
      /\ pc = "done" => e = Turns(job, c) /\ Waiting(c) = 0
  BY TurnsTaken
<1>2. /\ tally[c].attempts \in Nat /\ tally[c].calls \in Nat /\ tally[c].follow \in Nat
  BY <1>1 DEF CostType
<1>3. u \in Nat /\ v \in Int
  <2>1. job \in JobType
    BY DEF MemoryInv, TypeOK
  <2>. QED  BY <1>1, <2>1, UpperStep
<1>4. /\ tally[c].attempts + Waiting(c) = Size(c) * e
      /\ tally[c].calls + Waiting(c) * stage.budget <= Size(c) * u
      /\ NoZero(job) => tally[c].follow + Waiting(c) * Positive(stage.budget - 1) <= Size(c) * v
  BY <1>1 DEF CostOf
<1>5. PICK w \in Nat, b \in Nat, p \in Nat :
          w = Waiting(c) /\ b = stage.budget /\ p = Positive(stage.budget - 1)
  BY <1>1 DEF Positive
<1>. HIDE DEF e, u, v
<1>6. w * b \in Nat /\ w * p \in Nat /\ Size(c) * u \in Int /\ Size(c) * v \in Int
      /\ Size(c) * e \in Int
  BY <1>1, <1>3, Times
<1>7. PICK wb \in Nat, wp \in Nat, zu \in Int, zv \in Int, ze \in Int :
          wb = w * b /\ wp = w * p /\ zu = Size(c) * u /\ zv = Size(c) * v /\ ze = Size(c) * e
  BY <1>6
<1>8. /\ tally[c].attempts + w = ze /\ tally[c].calls + wb <= zu
      /\ NoZero(job) => tally[c].follow + wp <= zv
  BY <1>4, <1>5, <1>7
<1>9. /\ tally[c].attempts <= ze /\ tally[c].calls <= zu
      /\ NoZero(job) => tally[c].follow <= zv
      /\ w = 0 => tally[c].attempts = ze
  <2>1. w \in Nat /\ wb \in Nat /\ wp \in Nat /\ zu \in Int /\ zv \in Int /\ ze \in Int
    OBVIOUS
  <2>. QED  BY <1>2, <1>8, <2>1
<1>10. /\ tally[c].attempts <= Size(c) * e /\ tally[c].calls <= Size(c) * u
       /\ NoZero(job) => tally[c].follow <= Size(c) * v
       /\ w = 0 => tally[c].attempts = Size(c) * e
  BY <1>7, <1>9
<1>. QED  BY <1>1, <1>2, <1>5, <1>10 DEF e, u, v

(* A search condition: every CONFIRM item at every budget, at worst.       *)
LEMMA SearchCharges ==
    ASSUME MemoryInv, RunInv, pc # "idle", NEW c \in SearchConds
    PROVE  LET z == Cardinality(split.confirm)
               b == Len(job.budgets)
               t == Total(job.budgets)
               i == IF c \in job.conds THEN 1 ELSE 0
           IN  /\ z \in Nat /\ b \in Nat /\ t \in Nat
               /\ tally[c].attempts \in Nat /\ tally[c].attempts <= z * b * i
               /\ tally[c].calls \in Nat /\ tally[c].calls <= z * t * i
               /\ tally[c].follow \in Nat
               /\ NoZero(job) => b <= t /\ tally[c].follow <= z * (t - b) * i
               /\ pc = "done" => tally[c].attempts = z * b * i
<1>. DEFINE z == Cardinality(split.confirm)
            b == Len(job.budgets)
            t == Total(job.budgets)
            e == Entered(c)
<1>1. c \in Costed /\ c # "experience" /\ c # "closed_book"
  BY DEF Costed, Required, SearchConds
<1>2. job \in JobType /\ job.budgets \in Seq(Nat) /\ b \in Nat
  BY DEF MemoryInv, TypeOK, JobType
<1>3. Turns(job, c) = IF c \in job.conds THEN b ELSE 0
  BY DEF Turns
<1>4. Size(c) = z
  BY <1>1 DEF Size
<1>5. /\ e \in 0 .. Turns(job, c)
      /\ tally[c].attempts \in Nat /\ tally[c].attempts <= z * e
      /\ tally[c].calls \in Nat /\ tally[c].calls <= z * UpTo(job.budgets)[e]
      /\ tally[c].follow \in Nat
      /\ NoZero(job) => tally[c].follow <= z * (UpTo(job.budgets)[e] - e)
      /\ pc = "done" => e = Turns(job, c) /\ tally[c].attempts = z * Turns(job, c)
      /\ z \in Nat
  BY <1>1, <1>4, Charges DEF Upper, FollowUpper
<1>6. e \in 0 .. b /\ e \in Nat
  BY <1>2, <1>3, <1>5
<1>7. /\ UpTo(job.budgets)[e] \in Nat /\ t \in Nat /\ UpTo(job.budgets)[e] <= t
      /\ NoZero(job) => UpTo(job.budgets)[e] - e <= t - b
      /\ UpTo(job.budgets)[0] = 0
  BY <1>2, <1>6, UpToGrows, UpToSteps DEF NoZero
<1>8. NoZero(job) => b <= t
  <2>1. 0 \in 0 .. b
    BY <1>2
  <2>2. NoZero(job) => UpTo(job.budgets)[0] - 0 <= t - b
    BY <1>2, <2>1, UpToGrows DEF NoZero
  <2>. QED  BY <1>2, <1>7, <2>2
<1>9. PICK u \in Nat : u = UpTo(job.budgets)[e]
  BY <1>7
<1>. HIDE DEF z, b, t, e
<1>10. CASE c \in job.conds
  <2>1. z * e <= z * b /\ z * u <= z * t /\ z * e \in Int /\ z * b \in Int
        /\ z * u \in Int /\ z * t \in Int
    <3>1. e <= b /\ e \in Int /\ b \in Int /\ u <= t /\ u \in Int /\ t \in Int /\ z \in Nat
      BY <1>2, <1>5, <1>6, <1>7, <1>9
    <3>. QED  BY <3>1, Times
  <2>2. NoZero(job) => z * (u - e) <= z * (t - b) /\ z * (u - e) \in Int
    <3>1. NoZero(job) => u - e <= t - b
      BY <1>7, <1>9
    <3>2. u - e \in Int /\ t - b \in Int /\ z \in Nat
      BY <1>2, <1>5, <1>6, <1>7, <1>9
    <3>. QED  BY <3>1, <3>2, Times
  <2>3. z * b * 1 = z * b /\ z * t * 1 = z * t /\ z * (t - b) * 1 = z * (t - b)
        /\ z * (t - b) \in Int
    <3>1. t - b \in Int /\ t \in Int /\ b \in Int
      BY <1>2, <1>7
    <3>2. z * (t - b) \in Int
      BY <1>5, <3>1, Times
    <3>. QED  BY <2>1, <3>2
  <2>4. tally[c].attempts <= z * b /\ tally[c].calls <= z * t
        /\ (NoZero(job) => tally[c].follow <= z * (t - b))
        /\ (pc = "done" => tally[c].attempts = z * b)
    <3>1. PICK ze \in Int, zb \in Int, zu \in Int, zt \in Int, zd \in Int :
              /\ ze = z * e /\ zb = z * b /\ zu = z * u /\ zt = z * t /\ zd = z * (t - b)
      BY <2>1, <2>3
    <3>2. tally[c].attempts <= zb /\ tally[c].calls <= zt
      BY <1>5, <1>9, <2>1, <3>1
    <3>3. NoZero(job) => tally[c].follow <= zd
      <4>1. ASSUME NoZero(job) PROVE tally[c].follow <= zd
        <5>1. PICK zf \in Int : zf = z * (u - e) /\ zf <= zd
          BY <2>2, <3>1, <4>1
        <5>2. tally[c].follow <= zf
          BY <1>5, <1>9, <4>1, <5>1
        <5>. QED  BY <1>5, <3>1, <5>1, <5>2
      <4>. QED  BY <4>1
    <3>4. pc = "done" => tally[c].attempts = zb
      BY <1>3, <1>5, <1>10, <3>1
    <3>. QED  BY <3>1, <3>2, <3>3, <3>4
  <2>. QED  BY <1>2, <1>5, <1>7, <1>8, <1>10, <2>3, <2>4 DEF z, b, t
<1>11. CASE c \notin job.conds
  <2>1. e = 0 /\ Turns(job, c) = 0 /\ u = 0
    BY <1>3, <1>5, <1>7, <1>9, <1>11
  <2>2. z * 0 = 0 /\ z * (0 - 0) = 0 /\ z * b * 0 = 0 /\ z * t * 0 = 0 /\ z * (t - b) * 0 = 0
    <3>1. z * b \in Int /\ z * t \in Int /\ z * (t - b) \in Int
      BY <1>2, <1>5, <1>7, Times
    <3>. QED  BY <1>5, <3>1
  <2>3. tally[c].attempts <= 0 /\ tally[c].calls <= 0 /\ (NoZero(job) => tally[c].follow <= 0)
        /\ (pc = "done" => tally[c].attempts = 0)
    BY <1>5, <1>9, <2>1, <2>2
  <2>. QED  BY <1>2, <1>5, <1>7, <1>8, <1>11, <2>2, <2>3 DEF z, b, t
<1>. QED  BY <1>10, <1>11

(* Learning: every OPTIMIZE item in every pass, at worst.                  *)
LEMMA ExperienceCharges ==
    ASSUME MemoryInv, RunInv, pc # "idle"
    PROVE  LET x == Planned(job, split).experience
               cost == tally["experience"]
           IN  /\ x \in Nat /\ ExpBudget \in Nat
               /\ cost.attempts \in Nat /\ cost.attempts <= x
               /\ cost.calls \in Nat /\ cost.calls <= x * ExpBudget
               /\ cost.follow \in Nat
               /\ NoZero(job) /\ ExpBudget > 0 => cost.follow <= x * (ExpBudget - 1)
               /\ pc = "done" /\ ~ Resumed(job) => cost.attempts = x
<1>. DEFINE o == Cardinality(split.optimize)
            cost == tally["experience"]
            e == Entered("experience")
            x == IF "policy_memory" \in job.conds THEN o * Passes ELSE 0
<1>1. Planned(job, split).experience = x
  BY DEF Planned
<1>2. /\ "experience" \in Costed /\ "experience" \notin SearchConds
      /\ Size("experience") = o
      /\ Turns(job, "experience") =
            IF "policy_memory" \in job.conds /\ ~ Resumed(job) THEN Passes ELSE 0
  BY DEF Costed, SearchConds, Size, Turns
<1>3. /\ e \in 0 .. Turns(job, "experience")
      /\ cost.attempts \in Nat /\ cost.attempts <= o * e
      /\ cost.calls \in Nat /\ cost.calls <= o * (ExpBudget * e)
      /\ cost.follow \in Nat
      /\ NoZero(job) => cost.follow <= o * (Positive(ExpBudget - 1) * e)
      /\ pc = "done" => cost.attempts = o * Turns(job, "experience")
      /\ o \in Nat
  BY <1>2, Charges DEF Upper, FollowUpper
<1>4. Passes \in Nat /\ ExpBudget \in Nat
  BY Assumptions DEF PipelineAssumption
<1>5. PICK b \in Nat, p \in Nat, m \in Nat :
          /\ b = ExpBudget /\ p = Positive(ExpBudget - 1) /\ m = Passes
          /\ b > 0 => p = b - 1
  BY <1>4 DEF Positive
<1>6. x \in Nat
  <2>1. o * m \in Nat
    BY <1>3
  <2>. QED  BY <2>1, <1>5
<1>7. x * b \in Nat /\ (b > 0 => x * (b - 1) \in Nat)
  <2>1. PICK y \in Nat : y = x
    BY <1>6
  <2>2. y * b \in Nat /\ (b > 0 => y * (b - 1) \in Nat)
    OBVIOUS
  <2>. QED  BY <2>1, <2>2
<1>8. CASE "policy_memory" \in job.conds /\ ~ Resumed(job)
  <2>1. e \in Nat /\ e <= m /\ x = o * m /\ Turns(job, "experience") = m
    BY <1>2, <1>3, <1>5, <1>8
  <2>. HIDE DEF e, o, x, cost
  <2>2. PICK g \in Nat, q \in Nat : g = e /\ q = o
    BY <1>3, <2>1
  <2>3. b * g \in Nat /\ p * g \in Nat /\ b * m \in Nat /\ p * m \in Nat
        /\ b * g <= b * m /\ p * g <= p * m
    BY <2>1, <2>2, Times
  <2>4. q * g <= q * m /\ q * (b * g) <= q * (b * m) /\ q * (p * g) <= q * (p * m)
        /\ q * g \in Int /\ q * m \in Int /\ q * (b * g) \in Int /\ q * (b * m) \in Int
        /\ q * (p * g) \in Int /\ q * (p * m) \in Int
    <3>1. q * g <= q * m /\ q * g \in Int /\ q * m \in Int
      BY <2>1, <2>2, Times
    <3>2. q * (b * g) <= q * (b * m) /\ q * (b * g) \in Int /\ q * (b * m) \in Int
      <4>1. PICK i \in Nat, k \in Nat : i = b * g /\ k = b * m /\ i <= k
        BY <2>3
      <4>2. q * i <= q * k /\ q * i \in Int /\ q * k \in Int
        BY <4>1, Times
      <4>. QED  BY <4>1, <4>2
    <3>3. q * (p * g) <= q * (p * m) /\ q * (p * g) \in Int /\ q * (p * m) \in Int
      <4>1. PICK i \in Nat, k \in Nat : i = p * g /\ k = p * m /\ i <= k
        BY <2>3
      <4>2. q * i <= q * k /\ q * i \in Int /\ q * k \in Int
        BY <4>1, Times
      <4>. QED  BY <4>1, <4>2
    <3>. QED  BY <3>1, <3>2, <3>3
  <2>5. q * (b * m) = (q * m) * b /\ q * (p * m) = (q * m) * p
    OBVIOUS
  <2>6. PICK qg \in Int, qm \in Int, qbg \in Int, qbm \in Int, qpg \in Int, qpm \in Int :
            /\ qg = q * g /\ qm = q * m /\ qbg = q * (b * g) /\ qbm = q * (b * m)
            /\ qpg = q * (p * g) /\ qpm = q * (p * m)
            /\ qg <= qm /\ qbg <= qbm /\ qpg <= qpm
    BY <2>4
  <2>7. /\ cost.attempts <= qg /\ cost.calls <= qbg /\ (NoZero(job) => cost.follow <= qpg)
        /\ (pc = "done" => cost.attempts = qm)
    BY <1>3, <1>5, <2>1, <2>2, <2>6
  <2>8. /\ cost.attempts <= qm /\ cost.calls <= qbm /\ (NoZero(job) => cost.follow <= qpm)
    <3>1. qg <= qm /\ qbg <= qbm /\ qpg <= qpm /\ qg \in Int /\ qm \in Int /\ qbg \in Int
          /\ qbm \in Int /\ qpg \in Int /\ qpm \in Int
      BY <2>6
    <3>. QED  BY <1>3, <2>7, <3>1
  <2>9. x = qm /\ x * b = qbm /\ x * p = qpm
    BY <2>1, <2>2, <2>5, <2>6
  <2>. QED  BY <1>1, <1>3, <1>5, <1>6, <2>7, <2>8, <2>9 DEF cost
<1>9. CASE ~ ("policy_memory" \in job.conds /\ ~ Resumed(job))
  <2>1. e = 0 /\ Turns(job, "experience") = 0
    BY <1>2, <1>3, <1>9
  <2>2. o * 0 = 0 /\ b * 0 = 0 /\ p * 0 = 0
    BY <1>3
  <2>3. cost.attempts <= 0 /\ cost.calls <= 0 /\ (NoZero(job) => cost.follow <= 0)
    BY <1>3, <1>5, <2>1, <2>2
  <2>4. ~ Resumed(job) => x = 0
    BY <1>9
  <2>. HIDE DEF e, o, x, cost
  <2>5. cost.attempts <= x /\ cost.calls <= x * b
        /\ (NoZero(job) /\ b > 0 => cost.follow <= x * (b - 1))
        /\ (~ Resumed(job) => cost.attempts = x)
    <3>1. PICK y \in Nat, yb \in Nat : y = x /\ yb = x * b
      BY <1>6, <1>7
    <3>2. cost.attempts <= y /\ cost.calls <= yb /\ (~ Resumed(job) => cost.attempts = y)
      BY <1>3, <2>3, <2>4, <3>1
    <3>3. ASSUME NoZero(job), b > 0 PROVE cost.follow <= x * (b - 1)
      <4>1. PICK i \in Nat : i = x * (b - 1)
        BY <1>7, <3>3
      <4>. QED  BY <1>3, <2>3, <3>3, <4>1
    <3>. QED  BY <3>1, <3>2, <3>3
  <2>. QED  BY <1>1, <1>3, <1>4, <1>5, <1>6, <2>5 DEF cost
<1>. QED  BY <1>8, <1>9

(* Answering without a search costs no call.                               *)
LEMMA ClosedCharges ==
    ASSUME MemoryInv, RunInv, pc # "idle"
    PROVE  LET q == Planned(job, split).closed_book
               cost == tally["closed_book"]
           IN  /\ q \in Nat
               /\ cost.attempts \in Nat /\ cost.attempts <= q
               /\ cost.calls = 0 /\ cost.follow \in Nat
               /\ NoZero(job) => cost.follow = 0
               /\ pc = "done" => cost.attempts = q
<1>. DEFINE z == Cardinality(split.confirm)
            cost == tally["closed_book"]
            e == Entered("closed_book")
            t == Turns(job, "closed_book")
            q == IF "closed_book" \in job.conds THEN z ELSE 0
<1>1. Planned(job, split).closed_book = q
  BY DEF Planned
<1>2. /\ "closed_book" \in Costed /\ "closed_book" \notin SearchConds
      /\ Size("closed_book") = z
      /\ t = IF "closed_book" \in job.conds THEN 1 ELSE 0
  BY DEF Costed, Required, SearchConds, Size, Turns
<1>3. /\ e \in 0 .. t
      /\ cost.attempts \in Nat /\ cost.attempts <= z * e
      /\ cost.calls \in Nat /\ cost.calls <= z * 0
      /\ cost.follow \in Nat
      /\ NoZero(job) => cost.follow <= z * 0
      /\ pc = "done" => cost.attempts = z * t
      /\ z \in Nat
  BY <1>2, Charges DEF Upper, FollowUpper
<1>. HIDE DEF z, cost, e
<1>4. z * 0 = 0 /\ z * 1 = z
  BY <1>3
<1>5. cost.calls = 0 /\ (NoZero(job) => cost.follow = 0)
  BY <1>3, <1>4
<1>6. CASE "closed_book" \in job.conds
  <2>1. (e = 0 \/ e = 1) /\ t = 1 /\ q = z
    BY <1>2, <1>3, <1>6
  <2>. HIDE DEF t, q
  <2>2. cost.attempts <= z /\ (pc = "done" => cost.attempts = z)
    BY <1>3, <1>4, <2>1
  <2>. QED  BY <1>1, <1>3, <1>5, <2>1, <2>2 DEF cost
<1>7. CASE "closed_book" \notin job.conds
  <2>1. e = 0 /\ t = 0 /\ q = 0
    BY <1>2, <1>3, <1>7
  <2>. HIDE DEF t, q
  <2>2. cost.attempts = 0
    BY <1>3, <1>4, <2>1
  <2>. QED  BY <1>1, <1>3, <1>5, <2>1, <2>2 DEF cost
<1>. QED  BY <1>6, <1>7

(* How many search conditions a run asks for.                              *)
LEMMA SearchCount ==
    ASSUME NEW S
    PROVE  Cardinality(S \cap SearchConds)
               = (IF "no_memory_search" \in S THEN 1 ELSE 0)
                     + (IF "policy_memory" \in S THEN 1 ELSE 0)
                     + (IF "random_memory" \in S THEN 1 ELSE 0)
<1>. DEFINE In(c) == IF c \in S THEN {c} ELSE {}
            One(c) == IF c \in S THEN 1 ELSE 0
            T1 == In("no_memory_search")
            T2 == T1 \cup In("policy_memory")
            T3 == T2 \cup In("random_memory")
<1>1. ASSUME NEW T, IsFiniteSet(T), NEW c, c \notin T
      PROVE  /\ IsFiniteSet(T \cup In(c))
             /\ Cardinality(T \cup In(c)) = Cardinality(T) + One(c)
             /\ Cardinality(T) \in Nat
  <2>1. Cardinality(T) \in Nat
    BY <1>1, FS_CardinalityType
  <2>2. CASE c \in S
    BY <1>1, <2>1, <2>2, FS_AddElement
  <2>3. CASE c \notin S
    <3>1. T \cup In(c) = T
      BY <2>3
    <3>. QED  BY <1>1, <2>1, <2>3, <3>1
  <2>. QED  BY <2>2, <2>3
<1>2. IsFiniteSet({}) /\ Cardinality({}) = 0
  BY FS_EmptySet
<1>3. T1 = {} \cup In("no_memory_search")
  OBVIOUS
<1>4. /\ "no_memory_search" \notin {} /\ "policy_memory" \notin T1
      /\ "random_memory" \notin T2
  OBVIOUS
<1>5. S \cap SearchConds = T3
  BY DEF SearchConds
<1>. HIDE DEF In, One
<1>6. IsFiniteSet(T1) /\ Cardinality(T1) = 0 + One("no_memory_search")
  BY <1>1, <1>2, <1>3, <1>4
<1>. HIDE DEF T1
<1>7. IsFiniteSet(T2) /\ Cardinality(T2) = Cardinality(T1) + One("policy_memory")
  BY <1>1, <1>4, <1>6
<1>. HIDE DEF T2
<1>8. Cardinality(T3) = Cardinality(T2) + One("random_memory")
  BY <1>1, <1>4, <1>7
<1>. QED  BY <1>5, <1>6, <1>7, <1>8 DEF One

(* What its stages cost keeps a run within its plan.                       *)
LEMMA PlanKept ==
    ASSUME MemoryInv, RunInv
    PROVE  PlanBoundsRun
<1>. DEFINE plan == Planned(job, split)
            n == tally["no_memory_search"]
            p == tally["policy_memory"]
            r == tally["random_memory"]
            q == tally["closed_book"]
            e == tally["experience"]
            One(c) == IF c \in job.conds THEN 1 ELSE 0
            i == One("no_memory_search")
            k == One("policy_memory")
            l == One("random_memory")
            zz == Cardinality(split.confirm)
            bb == Len(job.budgets)
            tt == Total(job.budgets)
<1>1. SUFFICES ASSUME pc # "idle"
      PROVE  /\ e.attempts <= plan.experience
             /\ q.attempts <= plan.closed_book
             /\ n.attempts + p.attempts + r.attempts <= plan.search
             /\ (q.calls + n.calls + p.calls + r.calls) + e.calls <= WorstTools(plan)
             /\ ExpBudget > 0 /\ NoZero(job) =>
                    (q.follow + n.follow + p.follow + r.follow) + e.follow
                        <= IF job.kind = "bench" THEN FollowBench(plan)
                           ELSE FollowLive(plan)
             /\ pc = "done" /\ ~ Resumed(job) =>
                    /\ e.attempts = plan.experience
                    /\ q.attempts = plan.closed_book
                    /\ n.attempts + p.attempts + r.attempts = plan.search
  BY DEF PlanBoundsRun, Spent, NoZero
<1>2. "no_memory_search" \in SearchConds /\ "policy_memory" \in SearchConds
      /\ "random_memory" \in SearchConds
  BY DEF SearchConds
<1>3. PICK z \in Nat, b \in Nat, t \in Nat : z = zz /\ b = bb /\ t = tt
  BY <1>1, <1>2, SearchCharges
<1>4. \A c \in SearchConds :
          /\ tally[c].attempts \in Nat /\ tally[c].attempts <= z * b * One(c)
          /\ tally[c].calls \in Nat /\ tally[c].calls <= z * t * One(c)
          /\ tally[c].follow \in Nat
          /\ NoZero(job) => b <= t /\ tally[c].follow <= z * (t - b) * One(c)
          /\ pc = "done" => tally[c].attempts = z * b * One(c)
  BY <1>1, <1>3, SearchCharges
<1>5. PICK x \in Nat, y \in Nat, g \in Nat :
          x = plan.experience /\ y = plan.closed_book /\ g = ExpBudget
  BY <1>1, ExperienceCharges, ClosedCharges
<1>6. /\ e.attempts \in Nat /\ e.attempts <= x
      /\ e.calls \in Nat /\ e.calls <= x * g
      /\ e.follow \in Nat
      /\ NoZero(job) /\ g > 0 => e.follow <= x * (g - 1)
      /\ pc = "done" /\ ~ Resumed(job) => e.attempts = x
  BY <1>1, <1>5, ExperienceCharges
<1>7. /\ q.attempts \in Nat /\ q.attempts <= y
      /\ q.calls = 0 /\ q.follow \in Nat /\ (NoZero(job) => q.follow = 0)
      /\ pc = "done" => q.attempts = y
  BY <1>1, <1>5, ClosedCharges
<1>8. /\ plan.search = z * (i + k + l) * b /\ plan.worst = z * (i + k + l) * t
      /\ WorstTools(plan) = x * g + plan.worst
  BY <1>3, <1>5, SearchCount DEF Planned, WorstTools
<1>9. i \in Nat /\ k \in Nat /\ l \in Nat
  OBVIOUS
<1>10. /\ n.attempts \in Nat /\ n.calls \in Nat /\ n.follow \in Nat
       /\ p.attempts \in Nat /\ p.calls \in Nat /\ p.follow \in Nat
       /\ r.attempts \in Nat /\ r.calls \in Nat /\ r.follow \in Nat
       /\ n.attempts <= z * b * i /\ p.attempts <= z * b * k /\ r.attempts <= z * b * l
       /\ n.calls <= z * t * i /\ p.calls <= z * t * k /\ r.calls <= z * t * l
       /\ NoZero(job) => /\ n.follow <= z * (t - b) * i /\ p.follow <= z * (t - b) * k
                         /\ r.follow <= z * (t - b) * l /\ b <= t
       /\ pc = "done" => /\ n.attempts = z * b * i /\ p.attempts = z * b * k
                         /\ r.attempts = z * b * l
  BY <1>2, <1>4
<1>11. PICK bi \in Int, bk \in Int, bl \in Int, ti \in Int, tk \in Int, tl \in Int,
            di \in Int, dk \in Int, dl \in Int :
          /\ bi = z * b * i /\ bk = z * b * k /\ bl = z * b * l
          /\ ti = z * t * i /\ tk = z * t * k /\ tl = z * t * l
          /\ di = z * (t - b) * i /\ dk = z * (t - b) * k /\ dl = z * (t - b) * l
  <2>. HIDE DEF i, k, l
  <2>. QED  BY <1>9
<1>12. /\ z * (i + k + l) * b = bi + bk + bl /\ z * (i + k + l) * t = ti + tk + tl
       /\ di = ti - bi /\ dk = tk - bk /\ dl = tl - bl
  <2>. HIDE DEF i, k, l
  <2>1. /\ z * (i + k + l) * b = z * b * i + z * b * k + z * b * l
        /\ z * (i + k + l) * t = z * t * i + z * t * k + z * t * l
    BY <1>9
  <2>2. /\ z * (t - b) * i = z * t * i - z * b * i /\ z * (t - b) * k = z * t * k - z * b * k
        /\ z * (t - b) * l = z * t * l - z * b * l
    BY <1>9
  <2>. QED  BY <2>1, <2>2, <1>11
<1>13. PICK xg \in Int : xg = x * g /\ x * (g - 1) = xg - x
  OBVIOUS
<1>. HIDE DEF n, p, r, q, e, i, k, l, plan
<1>14. n.attempts + p.attempts + r.attempts <= bi + bk + bl
  BY <1>10, <1>11
<1>15. q.calls + n.calls + p.calls + r.calls + e.calls <= xg + (ti + tk + tl)
  BY <1>6, <1>7, <1>10, <1>11, <1>13
<1>16. ASSUME NoZero(job), ExpBudget > 0
       PROVE  (q.follow + n.follow + p.follow + r.follow) + e.follow
                  <= IF job.kind = "bench" THEN FollowBench(plan) ELSE FollowLive(plan)
  <2>1. /\ q.follow = 0 /\ n.follow <= ti - bi /\ p.follow <= tk - bk /\ r.follow <= tl - bl
        /\ e.follow <= xg - x
    BY <1>5, <1>6, <1>7, <1>10, <1>11, <1>12, <1>13, <1>16
  <2>2. /\ q.follow \in Nat /\ n.follow \in Nat /\ p.follow \in Nat /\ r.follow \in Nat
        /\ e.follow \in Nat
    BY <1>6, <1>7, <1>10
  <2>3. /\ plan.search = bi + bk + bl /\ plan.worst = ti + tk + tl /\ plan.experience = x
        /\ WorstTools(plan) = xg + (ti + tk + tl) /\ plan.experience * ExpBudget = xg
    BY <1>5, <1>8, <1>12, <1>13
  <2>4. /\ FollowBench(plan) = Positive((xg + (ti + tk + tl)) - (x + (bi + bk + bl)))
        /\ FollowLive(plan) = Positive((ti + tk + tl) - (bi + bk + bl)) + Positive(xg - x)
    BY <2>3 DEF FollowBench, FollowLive
  <2>5. (q.follow + n.follow + p.follow + r.follow) + e.follow
            <= Positive((xg + (ti + tk + tl)) - (x + (bi + bk + bl)))
    BY <2>1, <2>2 DEF Positive
  <2>6. (q.follow + n.follow + p.follow + r.follow) + e.follow
            <= Positive((ti + tk + tl) - (bi + bk + bl)) + Positive(xg - x)
    BY <2>1, <2>2 DEF Positive
  <2>. QED  BY <2>4, <2>5, <2>6
<1>17. ASSUME pc = "done", ~ Resumed(job)
       PROVE  /\ e.attempts = plan.experience /\ q.attempts = plan.closed_book
              /\ n.attempts + p.attempts + r.attempts = plan.search
  BY <1>5, <1>6, <1>7, <1>8, <1>10, <1>11, <1>12, <1>17
<1>18. (q.calls + n.calls + p.calls + r.calls) + e.calls <= WorstTools(plan)
  BY <1>8, <1>12, <1>13, <1>15
<1>19. n.attempts + p.attempts + r.attempts <= plan.search
  BY <1>8, <1>12, <1>14
<1>. QED  BY <1>5, <1>6, <1>7, <1>16, <1>17, <1>18, <1>19

(* The plan bounds the run: at every moment of a run, whatever its kind,   *)
(* conditions, budgets and split, it has attempted and called no more than *)
(* estimate_calls said, and once it is over its attempts come to exactly   *)
(* that.                                                                   *)
THEOREM PipelineKeepsPlan == Spec => []PlanBoundsRun
<1>1. MemoryInv /\ RunInv => PlanBoundsRun
  BY PlanKept
<1>. QED  BY <1>1, RunAlways, PTL

(* The stages behind a run that is over have earned its headline.          *)
LEMMA HeadlineKept ==
    ASSUME MemoryInv, RunInv
    PROVE  HeadlineEarned
<1>1. SUFFICES ASSUME pc = "done", verdict.headline
      PROVE  /\ job.real /\ ~job.online /\ job.kind # "fork"
             /\ \A c \in SearchConds :
                    tally[c].attempts = Cardinality(split.confirm) * Len(job.budgets)
             /\ tally["closed_book"].attempts = Cardinality(split.confirm)
             /\ \A c \in Required : tally[c].calls = 0 \/ tally[c].failed < tally[c].calls
             /\ ~Resumed(job) =>
                    \A i \in split.optimize :
                        Cardinality({k \in DOMAIN snap.traces : snap.traces[k].item = i})
                            = Passes
             /\ Preflight(job, split)
  BY DEF HeadlineEarned
<1>2. /\ job.kind # "fork"
      /\ Headline(job, Structural, MemoryClaim, Present, Cardinality(split.confirm),
                  Spent("calls"), Spent("failed"), Dead)
      /\ todo = << >> /\ pc # "idle" /\ PassInv /\ QueueInv
  BY <1>1 DEF RunInv, EndInv
<1>3. /\ job.real /\ ~ job.online /\ Required \subseteq Present
      /\ Cardinality(split.confirm) >= MinConfirm /\ Dead \cap Required = {}
  BY <1>2 DEF Headline, MemoryClaim
<1>4. ASSUME NEW c \in Required PROVE c \in job.conds
  <2>1. c \in Costed
    BY DEF Costed
  <2>2. /\ CostOf(c) /\ tally[c].runs > 0 /\ Entered(c) \in 0 .. Turns(job, c)
        /\ Turns(job, c) \in Nat
    BY <1>2, <1>3, <2>1, TurnsTaken DEF Present
  <2>3. Turns(job, c) > 0
    BY <2>2 DEF CostOf
  <2>. QED  BY <2>3 DEF Turns, Required, SearchConds
<1>5. ASSUME NEW c \in SearchConds
      PROVE  tally[c].attempts = Cardinality(split.confirm) * Len(job.budgets)
  <2>1. c \in job.conds
    BY <1>4 DEF Required
  <2>2. /\ Cardinality(split.confirm) \in Nat /\ Len(job.budgets) \in Nat
        /\ tally[c].attempts = Cardinality(split.confirm) * Len(job.budgets) * 1
    BY <1>1, <1>2, <2>1, SearchCharges
  <2>. QED  BY <2>2
<1>6. tally["closed_book"].attempts = Cardinality(split.confirm)
  <2>1. "closed_book" \in job.conds
    BY <1>4 DEF Required
  <2>. QED  BY <1>1, <1>2, <2>1, ClosedCharges DEF Planned
<1>7. ASSUME NEW c \in Required
      PROVE  tally[c].calls = 0 \/ tally[c].failed < tally[c].calls
  <2>1. c \in Costed
    BY DEF Costed
  <2>2. /\ tally[c].failed <= tally[c].calls /\ tally[c].failed \in Nat
        /\ tally[c].calls \in Nat
    BY <1>2, <2>1, TurnsTaken DEF CostOf, CostType
  <2>3. ~ (tally[c].calls > 0 /\ tally[c].failed = tally[c].calls)
    BY <1>3 DEF Dead
  <2>. QED  BY <2>2, <2>3
<1>8. ASSUME ~ Resumed(job), NEW i \in split.optimize
      PROVE  Cardinality({k \in DOMAIN snap.traces : snap.traces[k].item = i}) = Passes
  <2>1. job \in JobType /\ "policy_memory" \in job.conds
    BY <1>4 DEF MemoryInv, TypeOK, Required, SearchConds
  <2>2. PICK m \in 1 .. Len(Stages(job)) : Stages(job)[m].cond = "freeze"
    BY <2>1, LearningTurns
  <2>3. At = Len(Stages(job))
    <3>1. PICK n \in Nat : n = Len(Stages(job))
      BY <2>1, StagesType
    <3>2. At = n - 0 /\ n - 0 = n
      BY <1>2, <3>1 DEF At
    <3>. QED  BY <3>1, <3>2
  <2>4. Behind("freeze") # {}
    BY <2>2, <2>3 DEF Behind, Before
  <2>. QED  BY <1>2, <1>8, <2>4 DEF PassInv, Seen
<1>9. Preflight(job, split)
  <2>1. Required \subseteq job.conds
    BY <1>4
  <2>2. {"no_memory_search", "policy_memory"} \subseteq Required
    BY DEF Required, SearchConds
  <2>3. 5 * 0 <= 0
    OBVIOUS
  <2>. QED  BY <1>3, <2>1, <2>2, <2>3 DEF Preflight, Headline
<1>. QED  BY <1>1, <1>2, <1>3, <1>5, <1>6, <1>7, <1>8, <1>9

(* A headline was earned: whatever was asked for, a run may only quote its *)
(* numbers if it measured every condition on every CONFIRM item at every   *)
(* budget, offline, on real data, with a memory that experienced every     *)
(* OPTIMIZE item on every pass, and its preflight had allowed it.          *)
THEOREM HeadlinesAreEarned == Spec => []HeadlineEarned
<1>1. MemoryInv /\ RunInv => HeadlineEarned
  BY HeadlineKept
<1>. QED  BY <1>1, RunAlways, PTL

=============================================================================
