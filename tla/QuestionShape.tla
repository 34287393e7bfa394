--------------------------- MODULE QuestionShape ---------------------------
(***************************************************************************)
(* What the agent reads off a question before its first call: how much     *)
(* machinery it warrants, and the queries it decomposes into.              *)
(*                                                                         *)
(* A question is a record of the signals the code counts: clauses,         *)
(* entities and multi-hop cues; whether it is one short fact, or about     *)
(* something recent; the kinds of clues in it; and the arms whose query    *)
(* clears the quality score.  How text yields them is left out.            *)
(***************************************************************************)
EXTENDS Integers, FiniteSets

CONSTANT MaxQueries    \* of a decomposition, fallbacks included: 6 in the code

ASSUME ShapeAssumption == MaxQueries \in Nat /\ MaxQueries > 2

-----------------------------------------------------------------------------
(* The epistemic mode.                                                     *)

Modes == {"direct_answer_possible", "simple_lookup", "decomposed_search",
          "iterative_research", "task_frame_required"}

ClueDense(q) == q.clauses >= 3 \/ (q.clauses >= 2 /\ (q.cues >= 2 \/ q.entities >= 3))

(* decide_epistemic_mode: the cheapest mode that fits.                     *)
Mode(q, forceFrame, directAllowed) ==
    IF forceFrame \/ ClueDense(q) THEN "task_frame_required"
    ELSE IF q.clauses >= 2
         THEN IF q.cues >= 1 THEN "iterative_research" ELSE "decomposed_search"
    ELSE IF q.short /\ ~ q.recent /\ directAllowed THEN "direct_answer_possible"
    ELSE "simple_lookup"

(* What the run enables: the explicit flags, or the mode's own needs on    *)
(* top of them.  An enabled task frame counts only without auto mode.      *)
Enabled(q, flags) ==
    LET mode == Mode(q, flags.forceFrame, flags.directAllowed) IN
    [frame |-> flags.forceFrame \/ (IF flags.auto THEN mode = "task_frame_required" ELSE flags.frame),
     iterative |-> flags.iterative \/ (flags.auto /\ mode = "iterative_research"),
     decompose |-> flags.decompose
                   \/ (flags.auto /\ mode \in {"decomposed_search", "iterative_research"})]

-----------------------------------------------------------------------------
(* The clues of a question, and the queries made of them.                  *)

ClueKinds == {"quoted", "span", "entity", "clauses", "rare", "date", "location", "source",
              "content", "plain"}

(* A pair of years, a place or a kind of source needs something to go with.*)
Anchored(q) == q.clues \cap {"span", "entity"} # {}

(* decompose: which arms have a query.                                     *)
Offers(q) ==
    [exact_phrase_clue |-> q.clues \cap {"quoted", "span"} # {},
     entity_clue |-> Anchored(q),
     relation_clue |-> q.clues \cap {"clauses", "span"} # {},
     rare_terms_clue |-> "rare" \in q.clues,
     date_range_clue |-> "date" \in q.clues /\ Anchored(q),
     location_constraint_clue |-> "location" \in q.clues /\ Anchored(q),
     source_type_query |-> "source" \in q.clues /\ Anchored(q)]

Targeted == {"exact_phrase_clue", "entity_clue", "relation_clue", "rare_terms_clue",
             "date_range_clue", "location_constraint_clue", "source_type_query"}

(* _ARM_PRIORITY                                                           *)
Priority ==
    [exact_phrase_clue |-> 0, entity_clue |-> 1, date_range_clue |-> 2,
     location_constraint_clue |-> 3, relation_clue |-> 4, rare_terms_clue |-> 5,
     source_type_query |-> 6]

(* The whole question without its noise, or compressed: never dropped.     *)
Fallbacks(q) ==
    (IF "content" \in q.clues THEN {"negative_noise_removed"} ELSE {})
        \cup (IF "plain" \in q.clues THEN {"full_question_compressed"} ELSE {})

(* The targeted arms that pass the quality threshold, the first of them by *)
(* priority, and the fallbacks.                                            *)
Passing(q) == {arm \in Targeted : Offers(q)[arm] /\ arm \in q.strong}

Decomposed(q) ==
    {arm \in Passing(q) :
        Cardinality({other \in Passing(q) : Priority[other] < Priority[arm]})
            < MaxQueries - Cardinality(Fallbacks(q))}
    \cup Fallbacks(q)

-----------------------------------------------------------------------------
(* The query arms of a step, by the mode of the query policy.              *)

PlainArms == {"direct_question", "keyword_compressed", "quoted_entities", "source_constrained",
              "freshness_terms", "exact_answer_shape", "site_or_domain_constrained"}

QueryArms(q, queryMode, decompose) ==
    IF queryMode = "fixed" THEN {"direct_question"}
    ELSE IF queryMode = "llm" THEN {"exact_answer_shape"}
    ELSE IF ~ decompose THEN PlainArms
    ELSE IF Decomposed(q) = {} THEN {"keyword_compressed"} ELSE Decomposed(q)

=============================================================================
