------------------------------ MODULE ClueLoop ------------------------------
(***************************************************************************)
(* Iterative clue resolution: the search loop outside task-frame mode      *)
(* where it chooses what to ask.  Once results have named candidates, a    *)
(* search carries the beam's best candidate forward with one more clue;    *)
(* before that, and without the iterative mode, it sends a query of the    *)
(* question itself.  What a call finds re-scores the candidates, and what  *)
(* it did for the evidence is charged to the candidate it was about.       *)
(*                                                                         *)
(* SearchLoop has the reads and the stop decision in full; here a page may *)
(* be pending or refused, and the loop may stop, whenever it likes.  What  *)
(* the results say for a candidate (its mentions, their hosts, authority   *)
(* and cleanliness) is any of Merits.  Scores are in tenths.               *)
(***************************************************************************)
EXTENDS QuestionShape

CONSTANTS
    Questions,      \* records of QuestionShape
    Flags,          \* the configurations of the mode
    QueryModes,
    Cands,          \* numbered in the order of their texts
    Spans,          \* the clue spans of a question, numbered in their order
    Within,         \* pairs of a candidate and a span, one naming the other
    RoleOf,         \* classify_entity_role
    Broad,          \* the broad places and organizations
    Worded,         \* candidates made of the question's own words
    Merits,
    MaxLevel,       \* how often the evidence can improve
    BeamSize, TopK, MaxFails,
    StickyPenalty, ProgressBonus,
    Budget

Roles == {"person", "organization", "location", "title_or_work", "publication_or_source",
          "event", "concept", "date_or_time", "unknown"}

ASSUME ClueAssumption ==
    /\ Cands \subseteq Nat \ {0} /\ Spans \subseteq Nat /\ IsFiniteSet(Cands)
    /\ Within \subseteq Cands \X Spans
    /\ RoleOf \in [Cands -> Roles] /\ Broad \cup Worded \subseteq Cands
    /\ Merits \subseteq Int /\ Merits # {}
    /\ MaxLevel \in Nat /\ Budget \in Nat
    /\ {BeamSize, TopK, MaxFails, StickyPenalty, ProgressBonus} \subseteq Nat \ {0}

VARIABLES
    pc,
    question, arms,  \* what is asked, and the arms of its own queries
    iterative,
    act,             \* the call of this step
    pending,         \* is a page left to read?
    level,           \* prev_vscore, as the number of improvements so far
    pool,            \* the candidates of the beam's pool
    score,           \* what the results were last worth, each of them with
    bias,            \* the stickiness and progress the beam last saw in it
    streak,          \* no_progress: fruitless follow-ups since the last progress
    progress,        \* candidates with a follow-up that helped
    failed,          \* candidates that failed
    used,            \* used_clue_spans
    asked,           \* used_query_hashes
    calls,
    run,             \* history: fruitless follow-ups of a candidate in a row
    worn,            \* history: candidates with MaxFails of them in a row
    repeats          \* history: the kinds of follow-up that were sent again

beam == <<streak, progress, failed>>
history == <<run, worn, repeats>>
vars == <<pc, question, arms, iterative, act, pending, level, pool, score, bias, beam, used, asked,
          calls, history>>

NoCand == 0
NoAct == [kind |-> "none", cand |-> NoCand, extra |-> "none"]

(* A follow-up adds a clue, the answer's shape or nothing to its candidate.*)
Extras == {"clue", "shape", "bare"}

Init ==
    /\ question \in Questions
    /\ \E flags \in Flags, queryMode \in QueryModes :
          LET on == Enabled(question, flags) IN
          /\ iterative = on.iterative
          /\ arms = QueryArms(question, queryMode, on.decompose)
          /\ pc = IF on.frame THEN "framed" ELSE IF Budget = 0 THEN "done" ELSE "choose"
    /\ act = NoAct /\ pending = FALSE /\ level = 0 /\ calls = 0
    /\ pool = {} /\ score = [c \in Cands |-> 0] /\ bias = [c \in Cands |-> 0]
    /\ streak = [c \in Cands |-> 0] /\ progress = {} /\ failed = {}
    /\ used = {} /\ asked = {}
    /\ run = [c \in Cands |-> 0] /\ worn = {} /\ repeats = {}

-----------------------------------------------------------------------------
(* What a role is worth to the question.                                   *)

(* infer_target_roles: a person or a work unless a cue names something     *)
(* else, and what may lead there; a date is a shape, not a candidate.      *)
Targets == IF question.wants = {} THEN {"person", "title_or_work"} ELSE question.wants
Intermediate ==
    (Targets \cup {"person", "organization", "title_or_work", "location", "event"})
        \ {"date_or_time"}

RoleMatch(c) ==
    IF RoleOf[c] \in Targets THEN 20 ELSE IF RoleOf[c] \in Intermediate THEN 5 ELSE -5

(* The penalty of a role that the question does not ask for, ...           *)
RolePenalty(c) ==
    IF RoleOf[c] \in Targets THEN 0
    ELSE IF RoleOf[c] \in {"publication_or_source", "concept"} THEN 20
    ELSE IF RoleOf[c] = "location" THEN IF c \in Broad THEN 20 ELSE 10
    ELSE IF RoleOf[c] = "organization" /\ c \in Broad THEN 15 ELSE 0

(* ... and _score_role's sum.                                              *)
Worth(c) == RoleMatch(c) - RolePenalty(c) - (IF c \in Worded THEN 8 ELSE 0)

-----------------------------------------------------------------------------
(* The beam.                                                               *)

Before(f, c, d) == f[c] > f[d] \/ (f[c] = f[d] /\ c < d)
Top(S, f, k) == {c \in S : Cardinality({d \in S : Before(f, d, c)}) < k}

(* The candidates select looks at, by their scores so far, ...             *)
Adjusted == [c \in Cands |-> score[c] + bias[c]]
Beam == Top(pool, Adjusted, BeamSize)

(* ... and what it makes of them.  A hypothesis of the last results has no *)
(* bias yet; one that they no longer name has kept its own.                *)
Bias(c) == (IF c \in progress THEN ProgressBonus ELSE 0)
               - (IF streak[c] > 0 THEN StickyPenalty ELSE 0)
Biased == [c \in Cands |-> score[c] + Bias(c)]

(* A failed candidate is passed over unless all of the beam have failed.   *)
ViableMutant == Beam
Viable == IF Beam \subseteq failed THEN Beam ELSE Beam \ failed

Selecting == iterative /\ calls > 0 /\ pool # {}

(* The best by its biased score; a tie goes to the first by text, or, when *)
(* all have failed, to the first in the beam's order.                      *)
Leading == {c \in Viable : \A d \in Viable : Biased[d] <= Biased[c]}
Selected ==
    IF Beam \subseteq failed THEN CHOOSE c \in Leading : \A d \in Leading \ {c} : Before(Adjusted, c, d)
    ELSE CHOOSE c \in Leading : \A d \in Leading : c <= d

-----------------------------------------------------------------------------
(* The query of a follow-up.                                               *)

(* The answer's shape and the clue spans that a question has.              *)
Clues(q) == IF Anchored(q) THEN Spans ELSE {}

Open(c) ==
    {s \in Clues(question) : s \notin used /\ <<c, s>> \notin Within /\ <<c, "clue", s>> \notin asked}
NextClue(c) == CHOOSE s \in Open(c) : \A r \in Open(c) : s <= r

ShapeOpenMutant(c) == question.shape
ShapeOpen(c) == question.shape /\ <<c, "shape", 0>> \notin asked

(* compose_followup_from_hypothesis: the first open clue, else the shape,  *)
(* else the candidate alone, whether or not that was sent before.          *)
Composed(c) ==
    IF Open(c) # {} THEN <<c, "clue", NextClue(c)>>
    ELSE IF ShapeOpen(c) THEN <<c, "shape", 0>> ELSE <<c, "bare", 0>>

-----------------------------------------------------------------------------
(* The top of a step.                                                      *)

Sends(kind, cand, extra) ==
    /\ act' = [kind |-> kind, cand |-> cand, extra |-> extra]
    /\ pc' = "call"
    /\ pending' = FALSE
    /\ UNCHANGED <<question, arms, iterative, level, pool, score, beam, calls, run, worn>>

(* The beam is consulted first, whatever the step then does.               *)
Weighs ==
    bias' = IF Selecting THEN [c \in Cands |-> IF c \in Beam THEN Bias(c) ELSE bias[c]] ELSE bias

Read ==
    /\ pc = "choose" /\ pending
    /\ Weighs
    /\ Sends("read", NoCand, "none")
    /\ UNCHANGED <<used, asked, repeats>>

(* No page is pending, or the reading policy refuses it.                   *)
FollowUp ==
    /\ pc = "choose" /\ Selecting
    /\ Weighs
    /\ LET query == Composed(Selected) IN
       /\ Sends("followup", query[1], query[2])
       /\ used' = IF query[2] = "clue" THEN used \cup {query[3]} ELSE used
       /\ asked' = asked \cup {query}
       /\ repeats' = IF query \in asked THEN repeats \cup {query[2]} ELSE repeats

BaseQuery ==
    /\ pc = "choose" /\ ~ Selecting
    /\ Weighs
    /\ \E arm \in arms : Sends("base", NoCand, arm)
    /\ UNCHANGED <<used, asked, repeats>>

-----------------------------------------------------------------------------
(* A call returns.                                                         *)

(* record_progress: progress clears the streak, and does not clear the     *)
(* failure.                                                                *)
ChargedToMutant == IF act.kind = "read" /\ pool # {} THEN {Selected} ELSE {act.cand} \cap Cands
ChargedTo == {act.cand} \cap Cands

Record(improved) ==
    /\ streak' = [c \in Cands |-> IF c \notin ChargedTo THEN streak[c]
                                  ELSE IF improved THEN 0 ELSE streak[c] + 1]
    /\ progress' = IF improved THEN progress \cup ChargedTo ELSE progress
    /\ failed' = failed \cup {c \in ChargedTo : streak'[c] >= MaxFails}

(* A candidate stays in the pool when the results no longer name it, with  *)
(* the score they last gave it.                                            *)
PoolWith(top) == pool \cup top

(* build_hypotheses scores all results anew and the first TopK are taken   *)
(* into the pool; as long as there are fewer, that is all of them.         *)
Observe ==
    \E top \in SUBSET Cands :
        /\ Cardinality(top) <= TopK
        /\ IF Cardinality(pool) >= TopK THEN Cardinality(top) = TopK
           ELSE Cardinality(top) < TopK => pool \subseteq top
        /\ pool' = PoolWith(top)
        /\ \E merit \in [top -> Merits] :
              score' = [c \in Cands |-> IF c \in top THEN merit[c] + Worth(c) ELSE score[c]]
        /\ bias' = [c \in Cands |-> IF c \in top THEN 0 ELSE bias[c]]

Remember(improved) ==
    /\ run' = [c \in Cands |-> IF act.cand # c THEN run[c] ELSE IF improved THEN 0 ELSE run[c] + 1]
    /\ worn' = worn \cup {c \in Cands : run'[c] >= MaxFails}
    /\ UNCHANGED repeats

Returns ==
    /\ pc = "call"
    /\ \E improved \in BOOLEAN :
          /\ improved => level < MaxLevel
          /\ level' = IF improved THEN level + 1 ELSE level
          /\ Remember(improved)
          /\ IF iterative THEN Record(improved) /\ Observe ELSE UNCHANGED <<beam, pool, score, bias>>
    /\ calls' = calls + 1
    /\ act' = NoAct
    /\ \/ pc' = "done" /\ UNCHANGED pending
       \/ calls' < Budget /\ pc' = "choose" /\ pending' \in BOOLEAN
    /\ UNCHANGED <<question, arms, iterative, used, asked>>

Terminated == pc \in {"done", "framed"} /\ UNCHANGED vars

Next == Read \/ FollowUp \/ BaseQuery \/ Returns \/ Terminated

Spec == Init /\ [][Next]_vars

-----------------------------------------------------------------------------
(* A candidate has failed exactly when MaxFails of its own follow-ups in a *)
(* row brought nothing: neither a read between them nor a query of the     *)
(* question, nor another candidate's follow-up is held against it.         *)
FailureIsEarned == failed = worn

(* HypothesisBeam's forced exploration: a candidate that has failed is     *)
(* followed only when no fewer candidates have failed than the beam, or    *)
(* the pool, has room for.                                                 *)
MovesOn ==
    act.kind = "followup" /\ act.cand \in failed =>
        \/ Cardinality(failed) >= BeamSize
        \/ pool = failed

(* No clue and no answer shape is sent twice with the same candidate,      *)
(* although clues are marked used by text and queries by hash: only the    *)
(* candidate alone is ever repeated.                                       *)
OnlyBareRepeats == repeats \subseteq {"bare"}

=============================================================================
