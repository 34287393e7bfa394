----------------------------- MODULE TaskFrame ------------------------------
(***************************************************************************)
(* The task frame of one research question (agent/task_frame.py,           *)
(* agent/affordances.py): the slots to bind, the constraints that apply to *)
(* them, what the planner may do with each, and the pages the search tool  *)
(* knows, as the code reads them.                                          *)
(*                                                                         *)
(* A page is read twice over: as the snippet of a search result and as the *)
(* body a fetch returns.  Either reading is a CONTENT, the facts the code  *)
(* takes from the text by its lexical rules:                               *)
(*   texts         the entities named, in order                            *)
(*   terms         constraints most of whose terms appear                  *)
(*   anchored      constraints with a proper name or a year of theirs      *)
(*   corroborated  constraints a trusted source supports by one anchor     *)
(*   opposed       constraints whose year the text contradicts             *)
(*   shape         the page shows an answer-shape hint                     *)
(***************************************************************************)
EXTENDS Lists

CONSTANTS
    Target,        \* the slot to answer, target_answer_slots[0]
    Latent,        \* the intermediate slots, in order
    DependsOn,     \* [slot -> slots it depends on]
    AnswerShaped,  \* slots whose value is a year, a number, a name...
    Constraints,   \* the constraints of the frame
    AppliesTo,     \* [constraint -> slots it applies to]
    Disc2,         \* [constraint -> twice its discriminative score]
    Priority,      \* [constraint -> 0 low, 1 medium, 2 high]
    Shape,         \* constraints of type answer_shape
    Flagged,       \* constraints with required or blocks_answer_if_unresolved
    Emitted,       \* constraints the parser itself gave can_block_answer
    Comparative,   \* constraints with can_compare
    GivenStatuses, \* the statuses a parser may give the constraints of a frame
    Texts,         \* the entities pages name
    Known,         \* the ones the question itself names
    TableSlots,    \* [text -> slots of exactly its role]
    FrontierSlots, \* [text -> slots its role is compatible with]
    Catalogue,     \* the pages the tools know, in the order a search lists them
    HostOf,        \* [page -> its host]
    Snippet, Body, \* [page -> its content, as a result and when fetched]
    Dirty,         \* pages of a benchmark mirror
    Social,        \* pages the reading policy refuses
    HighValue      \* pages of a role whose body is worth more to read

Pages == ToSet(Catalogue)
Slots == {Target} \union ToSet(Latent)
SlotOrder == <<Target>> \o Latent
NSlots == Len(SlotOrder)

Contents ==
    [texts : Seq(Texts), terms : SUBSET Constraints,
     anchored : SUBSET Constraints, corroborated : SUBSET Constraints,
     opposed : SUBSET Constraints, shape : BOOLEAN]

\* The code tests for three texts; a reply may hold any other.
Statuses == {"unresolved", "resolved", "contradicted", "other"}

\* The deterministic parser starts every constraint unresolved; the model's
\* parser takes what the reply says of each (llm_task_frame.py).
ASSUME FrameAssumption ==
    /\ Latent \in Seq(Slots) /\ Target \notin ToSet(Latent)
    /\ DependsOn \in [Slots -> SUBSET Slots] /\ AnswerShaped \subseteq Slots
    /\ AppliesTo \in [Constraints -> SUBSET Slots]
    /\ Disc2 \in [Constraints -> 0..49] /\ Priority \in [Constraints -> 0..2]
    /\ {Shape, Flagged, Emitted, Comparative} \subseteq SUBSET Constraints
    /\ GivenStatuses \subseteq [Constraints -> Statuses]
    /\ Known \subseteq Texts
    /\ TableSlots \in [Texts -> SUBSET Slots]
    /\ FrontierSlots \in [Texts -> SUBSET Slots]
    /\ {Dirty, Social, HighValue} \subseteq SUBSET Pages
    /\ Snippet \in [Pages -> Contents] /\ Body \in [Pages -> Contents]

-----------------------------------------------------------------------------
(* What blocks an answer: the code says it three ways. *)

\* hypothesis_table.ingest_evidence, and the accounting of the finished attempt
Hard == Flagged \union {c \in Constraints : Priority[c] = 2}

\* derive_affordances: can_block_answer, derived or emitted by the parser
CanBlock == {c \in Hard : AppliesTo[c] # {}} \union Emitted

\* action_planner._blocks
Gating == Flagged \union CanBlock

\* candidate_frontier._slot_blocking_constraints, before the status test
Blocking == Hard \union CanBlock

ConstraintsOf(slot) == {c \in Constraints : slot \in AppliesTo[c]}

Discriminative(c) == c \notin Shape /\ Disc2[c] >= 2

\* The most discriminative of a set of constraints.
Sharpest(C) == CHOOSE c \in C : \A d \in C : Disc2[d] <= Disc2[c]

\* _constraint_priority_key, as one number
Urgency(c) ==
    1000 * (IF c \in Gating THEN 1 ELSE 0)
    + 500 * (IF Target \in AppliesTo[c] THEN 1 ELSE 0)
    + 100 * Priority[c] + Disc2[c]

-----------------------------------------------------------------------------
(* What a call observes. *)

\* The observations of one call, in order: a reading of a page each.
Reading(page, content) ==
    [page |-> page, host |-> HostOf[page], dirty |-> page \in Dirty,
     content |-> content]

FreshMutant(seq, S) == Picked(seq, {i \in DOMAIN seq : seq[i] \notin S})

\* The elements that are not in S, each where it comes first.
Fresh(seq, S) ==
    Picked(seq, {i \in DOMAIN seq : seq[i] \notin S /\ \A j \in 1..i - 1 : seq[j] # seq[i]})

TextsOf(readings) ==
    FlattenSeq([i \in DOMAIN readings |-> readings[i].content.texts])
=============================================================================
