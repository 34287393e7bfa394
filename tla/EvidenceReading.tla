--------------------------- MODULE EvidenceReading --------------------------
(***************************************************************************)
(* What one result says of one of the entities it names: the page's role,  *)
(* the entity's way through the gates, and constraint by constraint what   *)
(* the evidence judge, or the rules that stand in for it, make of it.  A   *)
(* live reading is followed by a replay of it, without a model.            *)
(*                                                                         *)
(* A page is a record of what the code looks for in its title, snippet and *)
(* url, an entity one of what it looks for in its text.  The frame is one  *)
(* of FrameParser's.                                                       *)
(***************************************************************************)
EXTENDS FrameParser

CONSTANTS
    Results,        \* the pages, each with an entity it names
    Directions,     \* the slot and the constraints the call was made for
    RoleReplies,    \* what the model may call a page
    JudgeReplies,   \* what it may say of a candidate and a constraint
    Caps            \* max_calls_per_candidate: 6 in the code

ASSUME ReadingAssumption == Caps \subseteq Nat /\ Caps # {}

VARIABLES
    stage,          \* "idle", "classify", "slot" or "read"
    pass,           \* "live" or "replay"
    reading,        \* frame, page, entity, direction and configuration
    sourceRole,     \* what the page is taken for
    todo,           \* the slots left, the first of them in progress
    untried,        \* and the constraints left of that one
    judgedHere,     \* calls of the judge for it
    stopCandidate,  \* a blocking contradiction was judged
    reason,         \* why the entity is no candidate, or ""
    bound,          \* proposed_slot_ids
    trail,          \* what was asserted, in order
    roleStore,      \* the model's replies, as kept: of the page ...
    judgeStore,     \* ... and by slot and constraint
    first           \* what the live reading came to

readingVars == <<stage, pass, reading, sourceRole, todo, untried, judgedHere, stopCandidate, reason,
                 bound, trail, roleStore, judgeStore, first>>

Unread == <<>>

ReadingInit ==
    /\ stage = "idle" /\ pass = "live" /\ reading = Unread /\ sourceRole = "unknown"
    /\ todo = <<>> /\ untried = <<>> /\ judgedHere = 0 /\ stopCandidate = FALSE
    /\ reason = "" /\ bound = {} /\ trail = <<>>
    /\ roleStore = {} /\ judgeStore = <<>> /\ first = Unread

frame == reading.frame
page == reading.page
entity == reading.entity

-----------------------------------------------------------------------------
(* The role of a source, in the order of the tests.                        *)

HardNoise == {"generic_definition_page", "ui_or_navigation_noise", "benchmark_contaminated"}
Corroborating == {"professional_profile", "official_page", "scholarly_paper", "database_record",
                  "primary_source", "directory_listing"}
SourceRoles == HardNoise \cup Corroborating
                   \cup {"article", "social_page", "forum_page", "unknown"}

(* The host, or the words of the page, decide.                             *)
ClassifiedRole ==
    IF page.dirty THEN "benchmark_contaminated"
    ELSE IF page.chrome THEN "ui_or_navigation_noise"
    ELSE IF page.defines THEN "generic_definition_page"
    ELSE page.kind

(* What a model says instead, when it is a role.                           *)
RoleOr(reply) == IF reply \in SourceRoles THEN reply ELSE ClassifiedRole

-----------------------------------------------------------------------------
(* The gates an entity passes before any constraint is tried.              *)

(* extract_source_subject: the page's title is all that it has of the      *)
(* entity, which is no proper name; unless the page is its own.            *)
TitleOnly(role) ==
    entity.inTitleOnly /\ entity.name # "named"
        /\ role \notin {"professional_profile", "official_page", "database_record", "primary_source"}

(* The closed roles; any other slot takes a person.                        *)
EntityRoles == FrameRoles \ {"number"}

SlotCompatible(role, slotRole) ==
    /\ role # "unknown"
    /\ IF role = "date_or_time" THEN slotRole \in {"date_or_time", "unknown"}
       ELSE slotRole \in {role, "unknown"} \/ (slotRole \notin EntityRoles /\ role = "person")

(* A slot has a slate when it is open.                                     *)
OpenSlots ==
    Ascending({s \in DOMAIN frame.slots :
                  /\ frame.slots[s].status # "known_constant"
                  /\ SlotCompatible(entity.role, frame.slots[s].role)})

(* The question names a place, and the page only another one.              *)
Elsewhere == page.place = "elsewhere" /\ entity.role \in {"organization", "location"}

Refusal(role) ==
    IF entity.noise THEN "noise"
    ELSE IF role \in HardNoise THEN "noise_source"
    ELSE IF entity.role = "unknown" THEN "weak_observation_not_candidate"
    ELSE IF ~ entity.known /\ TitleOnly(role) THEN "source_title_only"
    ELSE IF OpenSlots = <<>> THEN "role_incompatible"
    ELSE IF ~ entity.known /\ Elsewhere THEN "explicit_location_mismatch"
    ELSE ""

-----------------------------------------------------------------------------
(* What a constraint finds on the page.                                    *)

(* The constraints of a slot, and those that the call was made for.        *)
ConstraintsOn(slot) ==
    LET own == {i \in DOMAIN frame.constraints : slot \in frame.constraints[i].applies}
        directed == IF slot = reading.direction.slot THEN reading.direction.cons \ own ELSE {}
    IN Ascending(own) \o Ascending(directed)

Says(i) == IF i \in DOMAIN page.says THEN page.says[i] ELSE "nothing"

(* recognize_constraint_support: two terms, or its year with an event, are *)
(* support; one distinctive term is, from a source that can be relied on.  *)
Recognized(i) ==
    IF page.dirty THEN "irrelevant"
    ELSE IF Says(i) = "anchor"
         THEN IF sourceRole \in Corroborating THEN "supports" ELSE "insufficient"
    ELSE IF Says(i) \in {"supports", "contradicts"} THEN Says(i) ELSE "irrelevant"

Blocking(i) ==
    LET c == frame.constraints[i] IN c.required \/ c.high \/ c.blocks \/ c.canBlock

(* A constraint on other slots as well needs one of their candidates in    *)
(* the text.                                                               *)
Relational(i) == Cardinality(frame.constraints[i].applies) > 1
ObjectAnchored(i, slot) ==
    LET others == frame.constraints[i].applies \ {slot}
    IN others = {} \/ others \cap page.others # {}

-----------------------------------------------------------------------------
(* The judge.                                                              *)

Judgments == {"full_support", "partial_support", "contradiction", "irrelevant", "requires_read"}
SupportJudgments == {"full_support", "partial_support"}

(* A quote is none, or names the candidate, an alias of it, or neither.    *)
(* The recognizer's own judgment, when the model has none.                 *)
Fallen(i) ==
    LET status == Recognized(i) IN
    [judgment |->
        IF status = "supports" THEN "full_support"
        ELSE IF status = "contradicts" THEN "contradiction"
        ELSE IF status = "irrelevant" THEN "irrelevant"
        ELSE IF page.url /\ sourceRole \in Corroborating \cup {"article"} THEN "requires_read"
        ELSE "partial_support",
     quote |-> IF status = "irrelevant" THEN "none" ELSE IF page.near THEN "name" ELSE "neither",
     conflict |-> FALSE, alias |-> FALSE]

Parsed(reply, i) == IF reply.judgment \in Judgments THEN reply ELSE Fallen(i)

(* The aliases that earlier judgments of this candidate found.             *)
Aliased == \E j \in DOMAIN trail : trail[j].alias
Anchors(quote) == quote = "name" \/ (quote = "alias" /\ Aliased)

(* enforce_hard_rules, whoever judged.                                     *)
HardRulesMutant(j, i, slot) ==
    IF page.dirty /\ j.judgment \in SupportJudgments
    THEN IF j.conflict THEN "contradiction" ELSE "irrelevant"
    ELSE IF j.judgment # "full_support" THEN j.judgment
    ELSE IF entity.name = "descriptor" /\ j.quote # "none" THEN "irrelevant"
    ELSE IF entity.name = "named" /\ Anchors(j.quote) THEN "full_support"
    ELSE "partial_support"

HardRules(j, i, slot) ==
    IF page.dirty /\ j.judgment \in SupportJudgments
    THEN IF j.conflict THEN "contradiction" ELSE "irrelevant"
    ELSE IF j.judgment # "full_support" THEN j.judgment
    ELSE IF entity.name = "descriptor" /\ j.quote # "none" THEN "irrelevant"
    ELSE IF entity.name = "named" /\ Anchors(j.quote) /\ (Relational(i) => ObjectAnchored(i, slot))
         THEN "full_support"
    ELSE "partial_support"

-----------------------------------------------------------------------------
(* A reading.                                                              *)

Opens(f) ==
    /\ stage = "idle" /\ stage' = "classify"
    /\ \E r \in Results, d \in Directions, cap \in Caps, judging, classing \in BOOLEAN :
          /\ d.slot \in DOMAIN f.slots /\ d.cons \subseteq DOMAIN f.constraints
          /\ reading' = [frame |-> f, page |-> r.page, entity |-> r.entity, direction |-> d,
                         cap |-> cap, judging |-> judging, classing |-> classing]
    /\ UNCHANGED <<pass, sourceRole, todo, untried, judgedHere, stopCandidate, reason, bound, trail,
                   roleStore, judgeStore, first>>

Turns(slots) ==
    /\ todo' = slots
    /\ untried' = IF slots = <<>> THEN <<>> ELSE ConstraintsOn(Head(slots))
    /\ judgedHere' = 0 /\ stopCandidate' = FALSE
    /\ stage' = IF slots = <<>> THEN "read" ELSE "slot"

(* A failure of the model is not kept; what it replies is, a role or not.  *)
Classify ==
    /\ stage = "classify"
    /\ \/ /\ ~ reading.classing \/ (roleStore = {} /\ pass = "replay")
          /\ sourceRole' = ClassifiedRole /\ UNCHANGED roleStore
       \/ /\ reading.classing /\ roleStore # {}
          /\ sourceRole' = RoleOr(CHOOSE reply \in roleStore : TRUE) /\ UNCHANGED roleStore
       \/ /\ reading.classing /\ roleStore = {} /\ pass = "live"
          /\ \/ sourceRole' = ClassifiedRole /\ UNCHANGED roleStore
             \/ \E reply \in RoleReplies : sourceRole' = RoleOr(reply) /\ roleStore' = {reply}
    /\ reason' = Refusal(sourceRole')
    /\ Turns(IF reason' = "" THEN OpenSlots ELSE <<>>)
    /\ UNCHANGED <<pass, reading, bound, trail, judgeStore, first>>

(* Something said of the constraint that is next.                          *)
Constraint == Head(untried)
Trying == stage = "slot" /\ untried # <<>>

Asserts(verdict, by, j) ==
    /\ trail' = Append(trail, [slot |-> Head(todo), con |-> Constraint, verdict |-> verdict,
                               by |-> by, quote |-> j.quote, alias |-> j.alias])
    /\ untried' = Tail(untried)
    /\ UNCHANGED <<stage, pass, reading, sourceRole, todo, reason, bound, roleStore, first>>

(* Without a judge, or past its cap, the recognizer decides, and no hard   *)
(* rule is applied; after a blocking contradiction only a contradiction    *)
(* counts.                                                                 *)
Recognize ==
    /\ Trying
    /\ ~ reading.judging \/ stopCandidate \/ judgedHere >= reading.cap
    /\ LET found == Fallen(Constraint)
           counts == found.judgment = "contradiction"
                         \/ (found.judgment = "full_support" /\ ~ stopCandidate)
       IN Asserts(IF counts THEN found.judgment ELSE "irrelevant", "recognizer", found)
    /\ UNCHANGED <<judgedHere, stopCandidate, judgeStore>>

(* A kept reply counts like a call.                                        *)
CountedMutant(asked) == IF asked THEN judgedHere + 1 ELSE judgedHere

Counted(asked) == judgedHere + 1

Stops(verdict) == verdict = "contradiction" /\ Blocking(Constraint)

Rules(j, asked) ==
    LET verdict == HardRules(j, Constraint, Head(todo)) IN
    /\ Asserts(verdict, "judge", j)
    /\ judgedHere' = Counted(asked)
    /\ stopCandidate' = Stops(verdict)

(* The reply is kept by what is asked: the slot and the constraint, of the *)
(* same candidate and page.                                                *)
Key == <<Head(todo), Constraint>>

Judge ==
    /\ Trying
    /\ reading.judging /\ ~ stopCandidate /\ judgedHere < reading.cap
    /\ IF Key \in DOMAIN judgeStore
       THEN Rules(Parsed(judgeStore[Key], Constraint), FALSE) /\ UNCHANGED judgeStore
       ELSE \/ Rules(Fallen(Constraint), pass = "live") /\ UNCHANGED judgeStore
            \/ /\ pass = "live"
               /\ \E reply \in JudgeReplies :
                     /\ Rules(Parsed(reply, Constraint), TRUE)
                     /\ judgeStore' = [key \in DOMAIN judgeStore \cup {Key} |->
                                          IF key = Key THEN reply ELSE judgeStore[key]]

(* What the question names itself is bound only with support.              *)
Close ==
    /\ stage = "slot" /\ untried = <<>>
    /\ LET sup == \E j \in DOMAIN trail :
                      trail[j].slot = Head(todo) /\ trail[j].verdict = "full_support"
       IN bound' = IF entity.known /\ ~ sup THEN bound ELSE bound \cup {Head(todo)}
    /\ Turns(Tail(todo))
    /\ reason' = IF todo' = <<>> /\ bound' = {} THEN "unsupported_by_selected_constraint" ELSE reason
    /\ UNCHANGED <<pass, reading, sourceRole, trail, roleStore, judgeStore, first>>

Result == <<reason, bound, trail>>

ReplayReading ==
    /\ stage = "read" /\ pass = "live"
    /\ stage' = "classify" /\ pass' = "replay"
    /\ first' = Result
    /\ reason' = "" /\ bound' = {} /\ trail' = <<>>
    /\ UNCHANGED <<reading, sourceRole, todo, untried, judgedHere, stopCandidate, roleStore, judgeStore>>

ReadingDone == stage = "read" /\ pass = "replay"

ReadingStep == Classify \/ Recognize \/ Judge \/ Close \/ ReplayReading

-----------------------------------------------------------------------------
(* What an accepted candidate is said to support was not read off a        *)
(* contaminated page, whatever a model made of the page; and when the      *)
(* judge said so, the candidate is a named one, the quote names it or an   *)
(* alias found before, and the other end of a relation is in the text.     *)
SupportIsGrounded ==
    \A n \in DOMAIN trail :
        LET t == trail[n] IN
        t.verdict \in SupportJudgments /\ t.slot \in bound =>
            /\ ~ page.dirty
            /\ t.by = "judge" /\ t.verdict = "full_support" =>
                  /\ entity.name = "named"
                  /\ t.quote = "name"
                         \/ (t.quote = "alias" /\ \E m \in 1 .. n - 1 : trail[m].alias)
                  /\ Relational(t.con) => ObjectAnchored(t.con, t.slot)

(* Without a model, and with the replies that were kept, the entity is     *)
(* read again exactly as it was: the gate that stopped it, the slots it is *)
(* bound to, and every judgment.                                           *)
ReadingReplays == ReadingDone => Result = first

=============================================================================
