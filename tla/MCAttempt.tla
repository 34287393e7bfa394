----------------------------- MODULE MCAttempt ------------------------------
(* An instance of Attempt for TLC.                                         *)
EXTENDS Attempt

(* A question with two spans and an answer shape, one with clues of every  *)
(* kind and no shape, one of a single fact without anything to anchor a    *)
(* follow-up, and one so dense that the auto mode hands it to the task     *)
(* frame: a work is asked for, and a person named on the way.              *)
AQuestion(clauses, cues, entities, short, clues, strong, shape) ==
    [clauses |-> clauses, cues |-> cues, entities |-> entities, short |-> short,
     recent |-> FALSE, clues |-> clues, strong |-> strong, shape |-> shape,
     wants |-> IF shape THEN {} ELSE {"title_or_work"},
     head |-> "none", nouns |-> <<>>, says |-> <<[names |-> {}, sharp |-> FALSE]>>]

Dense ==
    [AQuestion(3, 2, 3, FALSE, ClueKinds, Targeted, FALSE) EXCEPT
        !.head = "title_or_work", !.nouns = <<"title_or_work", "person">>,
        !.says = <<[names |-> {"title_or_work"}, sharp |-> TRUE],
                   [names |-> {"person"}, sharp |-> TRUE],
                   [names |-> {"title_or_work", "person"}, sharp |-> FALSE],
                   [names |-> {}, sharp |-> FALSE]>>]

(* Framed too, and nothing in it says what it asks for.                    *)
Blunt == AQuestion(3, 0, 0, FALSE, {"rare"}, {}, TRUE)

SomeQuestions ==
    {AQuestion(2, 1, 1, FALSE, {"span", "entity", "content", "plain"}, {"entity_clue"}, TRUE),
     AQuestion(2, 0, 2, FALSE, ClueKinds, Targeted, FALSE),
     AQuestion(1, 1, 0, TRUE, {}, {}, TRUE),
     Dense}

AFlags(auto, staged, decompose) ==
    [auto |-> auto, iterative |-> staged, decompose |-> decompose,
     frame |-> FALSE, forceFrame |-> FALSE, directAllowed |-> TRUE]

SomeFlags == {AFlags(TRUE, FALSE, FALSE), AFlags(FALSE, TRUE, TRUE)}

OneNamesAnother == {<<1, 1>>}

(* A person, a broad place and a word of the question.                     *)
SomeRoles == <<"person", "location", "unknown">>

-----------------------------------------------------------------------------
(* A reply in order has a work to find and a person on the way, and a      *)
(* constraint on each and one on both.  Its flaws, one at a time or several *)
(* that lower its score.                                                   *)
Flaws ==
    {"answer", "noLists", "noTarget", "second", "targetGiven", "targetInvented", "targetVague",
     "bound", "constant", "derived", "otherRole", "newRole", "sameId", "incomplete", "latentGiven",
     "strayNeed", "noNeed", "noEdge", "strayEdge", "off", "loose", "stray", "noClaim", "noHow",
     "noConstraint", "resolved", "unhashable", "words", "knownPhrase", "blocks", "blocksLoose",
     "listedLoose"}

ASlot(id, role, name, status, bind, needs, complete) ==
    [id |-> id, role |-> role, name |-> name, status |-> status, bound |-> bind,
     needs |-> needs, complete |-> complete]

AConstraint(applies, required, claim, how, status) ==
    [applies |-> applies, required |-> required, high |-> FALSE, claim |-> claim,
     how |-> how, status |-> status, complete |-> TRUE, blocks |-> FALSE, listed |-> FALSE]

AReply(F) ==
    LET target == ASlot("T1",
            IF "otherRole" \in F THEN "event" ELSE IF "newRole" \in F THEN "designer"
            ELSE "title_or_work",
            IF "targetGiven" \in F THEN "given" ELSE IF "targetInvented" \in F THEN "invented"
            ELSE IF "targetVague" \in F THEN "vague" ELSE "phrase",
            IF "constant" \in F THEN "known_constant"
            ELSE IF "derived" \in F THEN "derived_value" ELSE "unstated",
            "bound" \in F,
            IF "strayNeed" \in F THEN {"X"} ELSE IF "noNeed" \in F THEN {} ELSE {"I1"}, TRUE)
        second == ASlot("T2", "number", "phrase", "unstated", FALSE, {}, TRUE)
        latent == ASlot(IF "sameId" \in F THEN "T1" ELSE "I1", "person",
            IF "latentGiven" \in F THEN "given" ELSE "phrase", "unstated", FALSE, {},
            "incomplete" \notin F)
    IN [said |-> TRUE, object |-> TRUE, answers |-> "answer" \in F, lists |-> "noLists" \notin F,
        targets |-> IF "noTarget" \in F THEN <<>>
                    ELSE IF "second" \in F THEN <<target, second>> ELSE <<target>>,
        latents |-> IF "noLatent" \in F THEN <<>> ELSE <<latent>>,
        constraints |-> IF "noConstraint" \in F THEN <<>> ELSE
            <<AConstraint(IF "off" \in F THEN {} ELSE {"T1"}, TRUE, "noClaim" \notin F,
                          "noHow" \notin F, "unresolved"),
              [AConstraint(IF F \cap {"loose", "blocksLoose", "listedLoose"} # {} THEN {}
                           ELSE IF "stray" \in F THEN {"X"} ELSE {"I1"},
                           FALSE, "blocksLoose" \notin F, TRUE,
                           IF "resolved" \in F THEN "resolved" ELSE "unresolved")
                  EXCEPT !.blocks = F \cap {"blocks", "blocksLoose"} # {},
                         !.listed = "listedLoose" \in F],
              AConstraint({"T1", "I1"} \ (IF "loose" \in F THEN {"I1"} ELSE {}), TRUE, TRUE, TRUE,
                          "unresolved")>>,
        edges |-> IF "noEdge" \in F THEN {}
                  ELSE IF "strayEdge" \in F THEN {<<"X", "T1">>} ELSE {<<"I1", "T1">>},
        known |-> IF "knownPhrase" \in F THEN {"given", "phrase"} ELSE {"given"},
        unhashable |-> "unhashable" \in F, words |-> "words" \in F]

NoJson == [said |-> TRUE, object |-> FALSE]

SomeReplies ==
    [q \in {Dense, Blunt} |->
        {NoJson} \cup
        IF q = Blunt THEN {AReply({"noLatent", "loose", "noNeed", "noEdge"})}
        ELSE {AReply({flaw}) : flaw \in Flaws}
             \cup {AReply({flaw} \cup others) : flaw \in {"second", "off", "knownPhrase"},
                      others \in {{"otherRole", "noConstraint", "noNeed", "noEdge"},
                                  {"newRole", "loose", "noNeed", "noEdge"}}}]

TheSchedule == <<Dense, Blunt, Dense>>

-----------------------------------------------------------------------------
(* Pages and an entity of each.                                            *)
APage(kind, says, others) ==
    [dirty |-> FALSE, chrome |-> FALSE, defines |-> FALSE, kind |-> kind, url |-> TRUE,
     says |-> says, others |-> others, place |-> "unasked", near |-> TRUE]

AnEntity(role, name) ==
    [role |-> role, name |-> name, noise |-> FALSE, known |-> FALSE, inTitleOnly |-> FALSE]

Of(aPage, anEntity) == [page |-> aPage, entity |-> anEntity]

Person == AnEntity("person", "named")
Work == AnEntity("title_or_work", "named")

Story == APage("article", <<"supports", "anchor", "supports", "anchor">>, {})
Profile == APage("professional_profile", <<"nothing", "anchor", "supports">>, {1})
Entry == APage("database_record", <<"contradicts", "nothing", "supports", "supports">>, {2})

SomeResults ==
    {Of(Story, Person), Of([Story EXCEPT !.near = FALSE], Work),
     Of(Profile, [Person EXCEPT !.known = TRUE]),
     Of(Entry, Work),
     Of([Story EXCEPT !.dirty = TRUE], Work),
     Of([Story EXCEPT !.url = FALSE], [Person EXCEPT !.name = "descriptor"]),
     Of(Story, [Work EXCEPT !.name = "plain", !.inTitleOnly = TRUE]),
     Of([Story EXCEPT !.place = "elsewhere"], AnEntity("organization", "named")),
     Of([Story EXCEPT !.chrome = TRUE], Person), Of([Story EXCEPT !.defines = TRUE], Person),
     Of(Story, [Person EXCEPT !.noise = TRUE]), Of(Story, AnEntity("unknown", "named"))}

SomeDirections == {[slot |-> 1, cons |-> {2}]}

AJudgment(judgment, quote, conflict, alias) ==
    [judgment |-> judgment, quote |-> quote, conflict |-> conflict, alias |-> alias]

SomeJudgments ==
    {AJudgment("full_support", "name", FALSE, FALSE), AJudgment("full_support", "alias", FALSE, FALSE),
     AJudgment("full_support", "none", TRUE, FALSE), AJudgment("partial_support", "neither", FALSE, TRUE),
     AJudgment("contradiction", "name", TRUE, FALSE), AJudgment("maybe", "none", FALSE, FALSE)}
=============================================================================
