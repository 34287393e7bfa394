---------------------------- MODULE LivePipeline -----------------------------
(***************************************************************************)
(* One run of the evaluation pipeline after another: an offline benchmark  *)
(* run, a live run, a live run resumed from a snapshot, and the offline    *)
(* fork of a finished live run.                                            *)
(*                                                                         *)
(* A run splits its items into OPTIMIZE and CONFIRM, learns a policy       *)
(* memory on OPTIMIZE, consolidates and freezes it, and then measures      *)
(* every condition on CONFIRM, at every budget.  It ends with a verdict:   *)
(* whether its numbers may be quoted as a memory-learning headline.        *)
(*                                                                         *)
(* An arm's statistics are abstracted to the set of attempts whose rewards *)
(* they summarise, and a family of arms stands for all of them.  What an   *)
(* attempt does inside is SearchLoop; here it costs calls, some of which   *)
(* follow up on a URL and some of which fail, and it credits one arm.      *)
(*                                                                         *)
(* An operator named ...Mutant is a defective form of the definition that  *)
(* follows it; only the sensitivity runs of the README use it.             *)
(***************************************************************************)
EXTENDS Integers, Sequences, FiniteSets

CONSTANTS
    NItems,      \* the items of the dataset, in id order: 1 .. NItems
    ClusterOf,   \* an item's signature cluster
    Arms,        \* the arms of a family
    Bucket,      \* the hash bucket of an item under a salt, in 0 .. Den - 1
    Den,         \* hash buckets
    Released,    \* an item's release date, 0 when it has none
    Jobs,        \* the runs that may be asked for
    Passes,      \* memory.experience_passes
    ExpBudget,   \* memory.experience_budget
    CfgBudgets,  \* the configuration's `budgets', whatever was asked for
    Gate,        \* the budget the audit prefers (3 in the code)
    MinConfirm,  \* headline.min_confirm_size
    MaxLineage,  \* _MAX_LINEAGE_IDS
    MaxFresh,    \* bound on the runs before which a run may start afresh
    MaxJobs      \* bound on the runs

Items == 1 .. NItems
Clusters == {ClusterOf[i] : i \in Items}
SearchConds == {"no_memory_search", "random_memory", "policy_memory"}
Required == SearchConds \cup {"closed_book"}
Kinds == {"bench", "live", "resume", "fork"}

JobType == [kind : Kinds, optimize : Nat, confirm : Nat, salt : DOMAIN Bucket,
            mode : {"hash", "time"}, conds : SUBSET Required, budgets : Seq(Nat),
            real : BOOLEAN, online : BOOLEAN]

ASSUME PipelineAssumption ==
    /\ NItems \in Nat
    /\ DOMAIN ClusterOf = Items
    /\ DOMAIN Bucket # {}
    /\ Den \in Nat \ {0}
    /\ \A s \in DOMAIN Bucket : Bucket[s] \in [Items -> 0 .. Den - 1]
    /\ Released \in [Items -> Nat]
    /\ "all" \notin Clusters
    /\ Passes \in Nat
    /\ ExpBudget \in Nat
    /\ Gate \in Nat
    /\ CfgBudgets \in Seq(Nat) \ {<< >>}
    /\ MinConfirm \in Nat
    /\ MaxLineage \in Nat
    /\ MaxFresh \in Nat
    /\ MaxJobs \in Nat

(* Only the offline benchmark can learn during CONFIRM, and it always runs *)
(* every condition.  Every run has a budget.                               *)
ASSUME JobsAssumption ==
    \A j \in Jobs :
        /\ j \in JobType
        /\ j.kind # "fork"
        /\ j.online => j.kind = "bench"
        /\ j.kind = "bench" => j.conds = Required
        /\ Len(j.budgets) > 0

VARIABLES
    pc,       \* "idle", "running", "done" or "raised"
    job,      \* the run's arguments
    split,    \* its OPTIMIZE and CONFIRM items
    todo,     \* the stages it has left
    stage,    \* the stage it is in
    left,     \* the items that stage has left
    mem,      \* the policy memory of the stage
    snap,     \* the frozen snapshot
    tally,    \* what each condition has cost
    audited,  \* the condition and budget whose log is checked by replay
    verdict,  \* what the run may claim
    parent,   \* the last finished live run, as its directory records it
    jobs      \* runs started

vars == <<pc, job, split, todo, stage, left, mem, snap, tally, audited,
          verdict, parent, jobs>>

-----------------------------------------------------------------------------
(* Policy memory.                                                          *)

Trace == [item : Items, arm : Arms]

NoStats == [c \in Clusters \cup {"all"} |-> [a \in Arms |-> {}]]
NoFragments == [c \in Clusters |-> [support |-> 0, lineage |-> {}]]

NewMemory ==
    [stats |-> NoStats, traces |-> << >>, fragments |-> NoFragments,
     frozen |-> FALSE]

(* observe: the arm's statistics, under the signature's cluster and under  *)
(* the global prior, and the trace.                                        *)
ObserveMutant(m, item, arm) ==
    [m EXCEPT !.traces = Append(@, [item |-> item, arm |-> arm]),
              !.stats = [c \in DOMAIN m.stats |->
                            [a \in Arms |->
                                IF a = arm /\ c = ClusterOf[item]
                                THEN m.stats[c][a] \cup {Len(m.traces) + 1}
                                ELSE m.stats[c][a]]]]

Observe(m, item, arm) ==
    [m EXCEPT !.traces = Append(@, [item |-> item, arm |-> arm]),
              !.stats = [c \in DOMAIN m.stats |->
                            [a \in Arms |->
                                IF a = arm /\ c \in {ClusterOf[item], "all"}
                                THEN m.stats[c][a] \cup {Len(m.traces) + 1}
                                ELSE m.stats[c][a]]]]

OfCluster(traces, c) == {k \in DOMAIN traces : ClusterOf[traces[k].item] = c}

Shortest(m, n) == IF m < n THEN m ELSE n

(* A fragment counts its cluster's attempts, and names the earliest.       *)
FragmentsOf(traces) ==
    [c \in Clusters |->
        LET of == OfCluster(traces, c)
        IN  [support |-> Cardinality(of),
             lineage |-> {k \in of : Cardinality({n \in of : n < k}) < MaxLineage}]]

Consolidate(m) == [m EXCEPT !.fragments = FragmentsOf(m.traces)]

EmptySnapshot ==
    [stats |-> NoStats, traces |-> << >>, fragments |-> NoFragments]

Snapshot(m) ==
    [stats |-> m.stats, traces |-> m.traces, fragments |-> m.fragments]

FromSnapshot(s, frozen) ==
    [stats |-> s.stats, traces |-> s.traces, fragments |-> s.fragments,
     frozen |-> frozen]

(* The random control observes every OPTIMIZE item once, with an arm that  *)
(* has nothing to do with it.                                              *)
InOrder(items) ==
    CHOOSE f \in [1 .. Cardinality(items) -> items] :
        \A i \in items : \E k \in DOMAIN f : f[k] = i

RandomMemory(items, choice) ==
    [stats |-> [c \in Clusters \cup {"all"} |->
        [a \in Arms |->
            {k \in 1 .. Cardinality(items) :
                /\ choice[InOrder(items)[k]] = a
                /\ c \in {ClusterOf[InOrder(items)[k]], "all"}}]],
     traces |-> [k \in 1 .. Cardinality(items) |->
                    [item |-> InOrder(items)[k], arm |-> choice[InOrder(items)[k]]]],
     fragments |-> NoFragments,
     frozen |-> FALSE]

-----------------------------------------------------------------------------
(* The split.                                                              *)

AtLeastOne(n) == IF n = 0 THEN 1 ELSE n

(* Python's round: to the nearest, and half to even.                       *)
RoundDiv(n, d) ==
    LET q == n \div d
        r == n % d
    IN  IF 2 * r > d \/ (2 * r = d /\ q % 2 = 1) THEN q + 1 ELSE q

(* A live run takes the first items by id, the benchmark takes them all.   *)
Subset(j) ==
    IF j.kind = "bench" THEN Items
    ELSE 1 .. Shortest(j.optimize + j.confirm, NItems)

HashConfirm(j) ==
    {i \in Subset(j) : Bucket[j.salt][i] * AtLeastOne(j.optimize + j.confirm)
                           < j.confirm * Den}

Newer(i, k) == Released[i] > Released[k] \/ (Released[i] = Released[k] /\ i > k)

TimeConfirm(j) ==
    LET want == RoundDiv(Cardinality(Subset(j)) * j.confirm,
                         AtLeastOne(j.optimize + j.confirm))
    IN  {i \in Subset(j) : Cardinality({k \in Subset(j) : Newer(k, i)}) < want}

(* A dataset without dates is split by hash whatever the mode.             *)
ByTime(j) == j.mode = "time" /\ \A i \in Subset(j) : Released[i] > 0

Confirm(j) == IF ByTime(j) THEN TimeConfirm(j) ELSE HashConfirm(j)

SplitOfMutant(j) == [optimize |-> Subset(j), confirm |-> Confirm(j)]

SplitOf(j) == [optimize |-> Subset(j) \ Confirm(j), confirm |-> Confirm(j)]

-----------------------------------------------------------------------------
(* The stages of a run, in order.                                          *)

Resumed(j) == j.kind \in {"resume", "fork"}

Pass == [cond |-> "experience", budget |-> ExpBudget]

Asked(j, c) == IF c \in j.conds THEN << c >> ELSE << >>

ClosedBook(j) ==
    [n \in DOMAIN Asked(j, "closed_book") |-> [cond |-> "closed_book", budget |-> 0]]

Learning(j) ==
    IF "policy_memory" \notin j.conds THEN << >>
    ELSE (IF Resumed(j) THEN << >> ELSE [p \in 1 .. Passes |-> Pass])
             \o << [cond |-> "freeze", budget |-> 0] >>

(* At each budget, the search conditions in this order, then what the      *)
(* audit will read.                                                        *)
AtBudget(j) ==
    Asked(j, "no_memory_search") \o Asked(j, "policy_memory")
        \o Asked(j, "random_memory") \o << "audit" >>

Measuring(j) ==
    LET per == AtBudget(j)
    IN  [n \in 1 .. Len(per) * Len(j.budgets) |->
            [cond |-> per[((n - 1) % Len(per)) + 1],
             budget |-> j.budgets[((n - 1) \div Len(per)) + 1]]]

Stages(j) ==
    IF j.kind = "bench" THEN Learning(j) \o ClosedBook(j) \o Measuring(j)
    ELSE ClosedBook(j) \o Learning(j) \o Measuring(j)

GateBudget(j) ==
    IF \E n \in DOMAIN j.budgets : j.budgets[n] = Gate THEN Gate ELSE j.budgets[1]

-----------------------------------------------------------------------------
(* What the plan promises before a run: calls and verdict.                 *)

UpTo(s) ==
    LET upTo[n \in 0 .. Len(s)] == IF n = 0 THEN 0 ELSE upTo[n - 1] + s[n]
    IN  upTo

Total(s) == UpTo(s)[Len(s)]

Positive(n) == IF n < 0 THEN 0 ELSE n

(* Attempts exactly, tool calls at worst.                                  *)
PlannedMutant(j, s) ==
    LET con == Cardinality(s.confirm)
        searches == Cardinality(j.conds \cap SearchConds)
    IN  [experience |-> IF "policy_memory" \in j.conds
                        THEN Cardinality(s.optimize) * Passes ELSE 0,
         closed_book |-> IF "closed_book" \in j.conds THEN con ELSE 0,
         search |-> con * searches * Len(j.budgets),
         worst |-> con * searches * j.budgets[1]]

Planned(j, s) ==
    LET con == Cardinality(s.confirm)
        searches == Cardinality(j.conds \cap SearchConds)
    IN  [experience |-> IF "policy_memory" \in j.conds
                        THEN Cardinality(s.optimize) * Passes ELSE 0,
         closed_book |-> IF "closed_book" \in j.conds THEN con ELSE 0,
         search |-> con * searches * Len(j.budgets),
         worst |-> con * searches * Total(j.budgets)]

WorstTools(p) == p.experience * ExpBudget + p.worst

(* A follow-up needs a first call that found its URL.                      *)
FollowLive(p) ==
    Positive(p.worst - p.search) + Positive(p.experience * ExpBudget - p.experience)
FollowBench(p) == Positive(WorstTools(p) - (p.experience + p.search))

(* compute_eligibility: at most a fifth of the calls may have failed, and  *)
(* no required condition may have failed entirely.                         *)
HeadlineMutant(j, structural, memory, present, size, calls, failed, dead) ==
    /\ structural
    /\ memory
    /\ j.real
    /\ size >= MinConfirm
    /\ 5 * failed <= calls
    /\ dead \cap Required = {}

Headline(j, structural, memory, present, size, calls, failed, dead) ==
    /\ structural
    /\ memory
    /\ j.real
    /\ Required \subseteq present
    /\ size >= MinConfirm
    /\ 5 * failed <= calls
    /\ dead \cap Required = {}

(* build_plan knows the conditions and the split, and assumes the rest.    *)
Preflight(j, s) ==
    Headline(j, TRUE, {"no_memory_search", "policy_memory"} \subseteq j.conds,
             j.conds, Cardinality(s.confirm), 0, 0, {})

-----------------------------------------------------------------------------
NoStage == [cond |-> "none", budget |-> 0]
NoAudit == NoStage
NoCost == [runs |-> 0, attempts |-> 0, calls |-> 0, follow |-> 0, failed |-> 0]
NoTally == [c \in Required \cup {"experience"} |-> NoCost]
NoVerdict == [structural |-> FALSE, headline |-> FALSE]
NoJob == [kind |-> "live", optimize |-> 0, confirm |-> 0,
          salt |-> CHOOSE s \in DOMAIN Bucket : TRUE, mode |-> "hash",
          conds |-> {}, budgets |-> <<0>>, real |-> FALSE, online |-> FALSE]
NoParent == [exists |-> FALSE, forkable |-> FALSE, job |-> NoJob,
             optimize |-> 0, confirm |-> 0, snap |-> EmptySnapshot]

Init ==
    /\ pc = "idle"
    /\ job = NoJob
    /\ split = [optimize |-> {}, confirm |-> {}]
    /\ todo = << >>
    /\ stage = NoStage
    /\ left = {}
    /\ mem = NewMemory
    /\ snap = EmptySnapshot
    /\ tally = NoTally
    /\ audited = NoAudit
    /\ verdict = NoVerdict
    /\ parent = NoParent
    /\ jobs = 0

(* Split the items and line up the stages.                                 *)
Begin(j) ==
    /\ pc \in {"idle", "done"}
    /\ jobs < MaxJobs
    /\ jobs' = jobs + 1
    /\ pc' = "running"
    /\ job' = j
    /\ split' = SplitOf(j)
    /\ todo' = Stages(j)
    /\ stage' = NoStage
    /\ left' = {}
    /\ mem' = NewMemory
    /\ snap' = EmptySnapshot
    /\ tally' = NoTally
    /\ audited' = NoAudit
    /\ verdict' = NoVerdict
    /\ UNCHANGED parent

Start(j) ==
    /\ IF j.kind = "resume" THEN parent.exists ELSE jobs < MaxFresh
    /\ Begin(j)

(* A fork takes its parent's seed and mode, the sizes its parent's split   *)
(* came out with, and the budgets of its configuration.                    *)
ForkJob(p) ==
    [kind |-> "fork", optimize |-> p.optimize, confirm |-> p.confirm,
     salt |-> p.job.salt, mode |-> p.job.mode,
     conds |-> {"no_memory_search", "policy_memory"}, budgets |-> CfgBudgets,
     real |-> p.job.real, online |-> FALSE]

Fork ==
    /\ parent.forkable
    /\ Begin(ForkJob(parent))

Ready(c) ==
    /\ pc = "running"
    /\ left = {}
    /\ todo # << >>
    /\ Head(todo).cond = c

Enter(items, memory) ==
    /\ stage' = Head(todo)
    /\ todo' = Tail(todo)
    /\ left' = items
    /\ mem' = memory

(* Every pass over OPTIMIZE learns into the same memory.                   *)
Experience ==
    /\ Ready("experience")
    /\ Enter(split.optimize, IF stage.cond = "experience" THEN mem ELSE NewMemory)
    /\ UNCHANGED <<pc, job, split, snap, tally, audited, verdict, parent, jobs>>

(* Consolidate and freeze what was learnt, or load a finished run's.       *)
Freeze ==
    /\ Ready("freeze")
    /\ LET learnt == IF stage.cond = "experience" THEN mem ELSE NewMemory
       IN  /\ Enter({}, IF Resumed(job) THEN mem ELSE Consolidate(learnt))
           /\ snap' = IF Resumed(job) THEN parent.snap
                      ELSE Snapshot(Consolidate(learnt))
    /\ UNCHANGED <<pc, job, split, tally, audited, verdict, parent, jobs>>

(* A condition runs over CONFIRM with a memory of its own.                 *)
MeasureMutant(c) ==
    /\ Ready(c)
    /\ \E choice \in [split.optimize -> Arms] :
          Enter(split.confirm,
                IF c = "policy_memory"
                THEN IF mem.frozen THEN mem ELSE FromSnapshot(Snapshot(mem), ~job.online)
                ELSE IF c = "random_memory" THEN RandomMemory(split.optimize, choice)
                ELSE mem)
    /\ tally' = [tally EXCEPT ![c].runs = @ + 1]
    /\ UNCHANGED <<pc, job, split, snap, audited, verdict, parent, jobs>>

MeasureOptimizeMutant(c) ==
    /\ Ready(c)
    /\ IF c = "random_memory"
       THEN \E choice \in [split.optimize -> Arms] :
                Enter(split.optimize, RandomMemory(split.optimize, choice))
       ELSE Enter(split.optimize,
                  IF c = "policy_memory" THEN FromSnapshot(snap, ~job.online)
                  ELSE NewMemory)
    /\ tally' = [tally EXCEPT ![c].runs = @ + 1]
    /\ UNCHANGED <<pc, job, split, snap, audited, verdict, parent, jobs>>

Measure(c) ==
    /\ Ready(c)
    /\ IF c = "random_memory"
       THEN \E choice \in [split.optimize -> Arms] :
                Enter(split.confirm, RandomMemory(split.optimize, choice))
       ELSE Enter(split.confirm,
                  IF c = "policy_memory" THEN FromSnapshot(snap, ~job.online)
                  ELSE NewMemory)
    /\ tally' = [tally EXCEPT ![c].runs = @ + 1]
    /\ UNCHANGED <<pc, job, split, snap, audited, verdict, parent, jobs>>

(* Which stages learn from their attempts.                                 *)
Updates == stage.cond = "experience" \/ (stage.cond = "policy_memory" /\ job.online)

(* The next item, in some fixed order (the code's is that of the ids).     *)
NextItem == CHOOSE i \in left : TRUE

Charged(cost, calls, follow, failed) ==
    [runs |-> cost.runs, attempts |-> cost.attempts + 1,
     calls |-> cost.calls + calls, follow |-> cost.follow + follow,
     failed |-> cost.failed + failed]

(* Only a memory that is not frozen learns.  What failed during experience *)
(* is not kept.                                                            *)
Attempt(calls, follow, failed, arm) ==
    /\ pc = "running"
    /\ left # {}
    /\ calls <= stage.budget
    /\ follow <= Positive(calls - 1)
    /\ failed <= IF stage.cond = "experience" THEN 0 ELSE calls
    /\ left' = left \ {NextItem}
    /\ tally' = [tally EXCEPT ![stage.cond] =
                    Charged(tally[stage.cond], calls, follow, failed)]
    /\ pc' = IF Updates /\ mem.frozen THEN "raised" ELSE pc
    /\ mem' = IF Updates /\ ~ mem.frozen THEN Observe(mem, NextItem, arm) ELSE mem
    /\ UNCHANGED <<job, split, todo, stage, snap, audited, verdict, parent, jobs>>

(* The log the replay check will read: the policy condition's at the gate  *)
(* budget, else the first there is.                                        *)
Audit ==
    /\ Ready("audit")
    /\ Enter({}, mem)
    /\ audited' =
          IF Head(todo).budget = GateBudget(job) /\ "policy_memory" \in job.conds
          THEN [cond |-> "policy_memory", budget |-> Head(todo).budget]
          ELSE IF job.kind # "bench" /\ audited = NoAudit /\ AtBudget(job)[1] # "audit"
          THEN [cond |-> AtBudget(job)[1], budget |-> Head(todo).budget]
          ELSE audited
    /\ UNCHANGED <<pc, job, split, snap, tally, verdict, parent, jobs>>

(* The checks, the verdict and the run's directory.  A fork never makes a  *)
(* headline.                                                               *)
Spent(field) ==
    LET of(c) == tally[c][field]
    IN  of("closed_book") + of("no_memory_search") + of("policy_memory")
            + of("random_memory")

Present == {c \in Required : tally[c].runs > 0}
Dead == {c \in Present : tally[c].calls > 0 /\ tally[c].failed = tally[c].calls}

Structural ==
    /\ split.optimize \cap split.confirm = {}
    /\ audited # NoAudit
    /\ IF job.kind = "bench" THEN split.confirm # {} ELSE Present # {}

MemoryClaim ==
    /\ {"no_memory_search", "policy_memory"} \subseteq Present
    /\ ~job.online

Verdict ==
    /\ pc = "running"
    /\ todo = << >>
    /\ left = {}
    /\ pc' = "done"
    /\ verdict' =
          [structural |-> Structural,
           headline |->
              /\ job.kind # "fork"
              /\ Headline(job, Structural, MemoryClaim, Present,
                          Cardinality(split.confirm), Spent("calls"),
                          Spent("failed"), Dead)]
    /\ parent' = [exists |-> TRUE, forkable |-> job.kind # "bench", job |-> job,
                  optimize |-> Cardinality(split.optimize),
                  confirm |-> Cardinality(split.confirm), snap |-> snap]
    /\ UNCHANGED <<job, split, todo, stage, left, mem, snap, tally, audited, jobs>>

Next ==
    \/ \E j \in Jobs : Start(j)
    \/ Fork
    \/ Experience
    \/ Freeze
    \/ \E c \in Required : Measure(c)
    \/ \E calls \in 0 .. stage.budget, arm \in Arms :
          \E follow, failed \in 0 .. calls :
              Attempt(calls, follow, failed, arm)
    \/ Audit
    \/ Verdict

Spec == Init /\ [][Next]_vars

-----------------------------------------------------------------------------
(* Properties.                                                             *)

(* Types, read with the code: a stage's items are items of its split, and  *)
(* a memory holds one entry per attempt that it learnt from.               *)
StatsType == [Clusters \cup {"all"} -> [Arms -> SUBSET Nat]]
FragmentsType == [Clusters -> [support : Nat, lineage : SUBSET Nat]]
SnapshotType ==
    [stats : StatsType, traces : Seq(Trace), fragments : FragmentsType]
MemoryType ==
    [stats : StatsType, traces : Seq(Trace), fragments : FragmentsType,
     frozen : BOOLEAN]
StageType ==
    [cond : Required \cup {"experience", "freeze", "audit"}, budget : Nat]
CostType == [runs : Nat, attempts : Nat, calls : Nat, follow : Nat, failed : Nat]

TypeOK ==
    /\ pc \in {"idle", "running", "done", "raised"}
    /\ job \in JobType
    /\ split \in [optimize : SUBSET Items, confirm : SUBSET Items]
    /\ todo \in Seq(StageType)
    /\ stage \in StageType \cup {NoStage}
    /\ left \subseteq IF stage.cond = "experience" THEN split.optimize
                      ELSE IF stage.cond \in Required THEN split.confirm ELSE {}
    /\ mem \in MemoryType
    /\ snap \in SnapshotType
    /\ tally \in [Required \cup {"experience"} -> CostType]
    /\ audited.cond \in SearchConds \cup {"none"}
    /\ verdict \in [structural : BOOLEAN, headline : BOOLEAN]
    /\ parent \in [exists : BOOLEAN, forkable : BOOLEAN, job : JobType,
                   optimize : Nat, confirm : Nat, snap : SnapshotType]
    /\ jobs \in Nat

(* In a run that learns its own memory, a condition is measured with a     *)
(* memory that has not learnt from the item it is about to attempt: what a *)
(* CONFIRM item taught, in the online variant, is only used for the items  *)
(* after it, and what a frozen memory knows comes from OPTIMIZE alone      *)
(* (experience_phase, run_condition, snapshot).                            *)
Learnt(m) == {m.traces[k].item : k \in DOMAIN m.traces}

HeldOut ==
    pc = "running" /\ ~Resumed(job) /\ stage.cond \in Required =>
        /\ Learnt(mem) \cap left = {}
        /\ ~job.online => Learnt(mem) \cap split.confirm = {}

(* The condition under test runs every CONFIRM item from the run's one     *)
(* snapshot: at each budget its memory is the snapshot, plus, in the       *)
(* online variant, what this stage has attempted so far and nothing of the *)
(* budgets before (from_snapshot, run_condition).                          *)
ConfirmReadsSnapshot ==
    stage.cond = "policy_memory" =>
        LET known == Len(snap.traces)
        IN  /\ Len(mem.traces) = known + IF job.online
                                         THEN Cardinality(split.confirm \ left)
                                         ELSE 0
            /\ \A k \in 1 .. known : mem.traces[k] = snap.traces[k]
            /\ mem.fragments = snap.fragments

(* The code's own guard is never needed: no stage observes into a frozen   *)
(* memory (observe's FrozenMemoryError).                                   *)
FrozenNeverObserved == pc # "raised"

(* What a memory believes follows from what it has seen: each arm's local  *)
(* and global statistics summarise exactly the attempts that credited it,  *)
(* in the memory being used and in every snapshot (observe, snapshot,      *)
(* from_snapshot); and a snapshot's fragments count the attempts it holds, *)
(* none made after they were consolidated (consolidate).                   *)
Explained(m) ==
    \A c \in DOMAIN m.stats, a \in Arms :
        m.stats[c][a] = {k \in DOMAIN m.traces :
                            /\ m.traces[k].arm = a
                            /\ c \in {ClusterOf[m.traces[k].item], "all"}}

Folded(s) == s.fragments = FragmentsOf(s.traces)

MemoryExplained ==
    /\ Explained(mem) /\ Explained(snap) /\ Explained(parent.snap)
    /\ Folded(snap) /\ Folded(parent.snap)

(* The plan a user approves is an upper bound at every moment of the run,  *)
(* for the follow-up calls if no budget is 0, and the attempts of a run    *)
(* that was not resumed come to exactly what it said (estimate_live,       *)
(* estimate_calls).                                                        *)
PlanBoundsRun ==
    LET plan == Planned(job, split)
        search == tally["no_memory_search"].attempts
                      + tally["policy_memory"].attempts
                      + tally["random_memory"].attempts
        calls == Spent("calls") + tally["experience"].calls
    IN  pc # "idle" =>
        /\ tally["experience"].attempts <= plan.experience
        /\ tally["closed_book"].attempts <= plan.closed_book
        /\ search <= plan.search
        /\ calls <= WorstTools(plan)
        /\ ExpBudget > 0 /\ (\A n \in DOMAIN job.budgets : job.budgets[n] > 0) =>
               Spent("follow") + tally["experience"].follow
                   <= IF job.kind = "bench" THEN FollowBench(plan) ELSE FollowLive(plan)
        /\ pc = "done" /\ ~Resumed(job) =>
               /\ tally["experience"].attempts = plan.experience
               /\ tally["closed_book"].attempts = plan.closed_book
               /\ search = plan.search

(* A headline is earned: real data, every condition measured on every      *)
(* CONFIRM item at every budget, nothing learnt while measuring, and, for  *)
(* a run that learnt its own memory, every OPTIMIZE item experienced on    *)
(* every pass.  The preflight promised no less (compute_eligibility,       *)
(* build_plan).                                                            *)
HeadlineEarned ==
    pc = "done" /\ verdict.headline =>
        /\ job.real /\ ~job.online /\ job.kind # "fork"
        /\ \A c \in SearchConds :
               tally[c].attempts = Cardinality(split.confirm) * Len(job.budgets)
        /\ tally["closed_book"].attempts = Cardinality(split.confirm)
        /\ \A c \in Required : tally[c].calls = 0 \/ tally[c].failed < tally[c].calls
        /\ ~Resumed(job) =>
               \A i \in split.optimize :
                   Cardinality({k \in DOMAIN snap.traces : snap.traces[k].item = i})
                       = Passes
        /\ Preflight(job, split)

(* docs/LEAKAGE_CONTROLS.md: "No `benchmark_item` may appear in both       *)
(* `OPTIMIZE` and `CONFIRM`", and a fork "reruns the CONFIRM phase" of its *)
(* parent: a fork attempts no item that the snapshot it resumes learnt     *)
(* from.  It splits the same items again, by the sizes the parent's split  *)
(* came out with.                                                          *)
ForkHeldOut ==
    job.kind = "fork" /\ stage.cond = "policy_memory" =>
        Learnt(mem) \cap split.confirm = {}

=============================================================================
