---------------------------- MODULE FrameParser -----------------------------
(***************************************************************************)
(* How a question becomes a task frame: the model's reply, read from a     *)
(* cache or asked for, is accepted when it validates and scores well       *)
(* enough, and otherwise the deterministic parser's frame is used.  A live *)
(* run may be interrupted and resumed; a replay has only the cache file.   *)
(*                                                                         *)
(* A reply is a record of what the code tests in it, and the name of a     *)
(* slot one of a few kinds of text; a frame numbers its slots s0, s1, ...  *)
(***************************************************************************)
EXTENDS QuestionShape, Lists

CONSTANTS
    Schedule,       \* the questions in the order the run parses them
    Replies,        \* [question -> what the model may say to it]
    MaxResumes

Asked == ToSet(Schedule)

ASSUME ParserAssumption ==
    /\ IsList(Schedule) /\ Schedule # <<>> /\ DOMAIN Replies = Asked /\ MaxResumes \in Nat
    /\ \A q \in Asked :
          /\ IsFiniteSet(q.wants) /\ IsList(q.nouns) /\ IsList(q.says)
          /\ \A reply \in Replies[q] :
                /\ reply.said
                /\ reply.object =>
                      IsList(reply.targets) /\ IsList(reply.latents) /\ IsList(reply.constraints)

VARIABLES
    process,        \* "live", "raised", "replay" or "stopped"
    at,             \* the attempt in progress
    store,          \* the parser cache in memory
    file,           \* and on disk
    parsed,         \* the frames of the live run, by attempt
    replayed,       \* and those of the replay
    resumes,
    lost            \* history: a cache was loaded that memory had more of

parserVars == <<process, at, store, file, parsed, replayed, resumes, lost>>

NoReply == [said |-> FALSE]
Nothing == [q \in Asked |-> NoReply]

ParserInit ==
    /\ process = "live" /\ at = 1
    /\ store = Nothing /\ file = Nothing
    /\ parsed = <<>> /\ replayed = <<>>
    /\ resumes = 0 /\ lost = FALSE

-----------------------------------------------------------------------------
(* The deterministic frame: a slot for what is asked and one for every     *)
(* other kind of thing the question names, and a constraint of each        *)
(* clause, on the slots it names or else on the first target.              *)

FrameRoles == {"person", "organization", "location", "title_or_work", "publication_or_source",
               "event", "concept", "date_or_time", "number", "unknown"}

SlotStatuses == {"unbound_variable", "known_constant", "candidate_binding", "derived_value"}

(* The planner asks whether a constraint may block the answer, and not     *)
(* whether it is required: one that is required, or of high priority, or   *)
(* said to block may, if it is on a slot, and so may one for which the     *)
(* reply lists that affordance itself.                                     *)
CanBlock(required, high, blocks, applies, listed) ==
    listed \/ ((required \/ high \/ blocks) /\ applies # {})

(* The interrogative's head noun, or else what infer_target_roles infers.  *)
TargetRoles(q) ==
    IF q.head # "none" THEN <<q.head>>
    ELSE SetToSeq(IF q.wants = {} THEN {"person", "title_or_work"} ELSE q.wants)

(* Each role once, where it is first named.                                *)
LatentRoles(q) ==
    Picked(q.nouns, {i \in DOMAIN q.nouns : /\ q.nouns[i] \notin ToSet(TargetRoles(q))
                                            /\ \A j \in 1 .. i - 1 : q.nouns[j] # q.nouns[i]})

Slots(q) == TargetRoles(q) \o LatentRoles(q)

Clause(q, i) ==
    LET named == {s \in DOMAIN Slots(q) : Slots(q)[s] \in q.says[i].names}
        applies == IF named = {} THEN {1} ELSE named
        high == q.says[i].sharp /\ applies \cap DOMAIN TargetRoles(q) # {}
    IN [applies |-> applies, status |-> "unresolved", claim |-> TRUE,
        required |-> high, high |-> high, blocks |-> high,
        canBlock |-> CanBlock(high, high, high, applies, FALSE)]

(* parse_task_frame                                                        *)
Deterministic(q) ==
    LET targets == DOMAIN TargetRoles(q)
        latents == DOMAIN Slots(q) \ targets
    IN [slots |-> [s \in DOMAIN Slots(q) |->
                      [role |-> Slots(q)[s], name |-> "noun", status |-> "unbound_variable"]],
        targets |-> targets, edges |-> latents \X targets, known |-> {},
        constraints |-> [i \in DOMAIN q.says |-> Clause(q, i)]]

-----------------------------------------------------------------------------
(* Validation.  Any kind of constraint is welcome that can be tested; a    *)
(* target may not come with a value, or be one.                            *)

Ids(slots) == {slots[i].id : i \in DOMAIN slots}

(* A name may be a phrase that describes, a name the question gives, a     *)
(* name it does not, or neither of these.                                  *)
Names == {"phrase", "given", "invented", "vague", "blank"}
ProperName(name) == name \in {"given", "invented"}

OnSlot(reply, id) == {c \in ToSet(reply.constraints) : id \in c.applies}

(* infer_slot_status *)
Status(slot, reply) ==
    IF slot.status \in SlotStatuses THEN slot.status
    ELSE IF slot.bound THEN "candidate_binding"
    ELSE IF slot.name \in reply.known /\ ProperName(slot.name) /\ OnSlot(reply, slot.id) = {}
         THEN "known_constant"
    ELSE "unbound_variable"

(* classify_target_slot: without "fail".                                   *)
AskedFor(slot, reply, q) ==
    /\ ~ slot.bound
    /\ Status(slot, reply) \notin {"known_constant", "candidate_binding"}
    /\ \/ q.head \in {"none", slot.role}
       \/ OnSlot(reply, slot.id) # {}
       \/ slot.name = "phrase"
       \/ slot.name \notin reply.known /\ ~ ProperName(slot.name)

TestableMutant(c, ids) == (c.required \/ c.high) => c.claim /\ c.how
Testable(c, ids) == (c.required \/ c.high) => c.claim /\ c.how /\ c.applies \cap ids # {}

Valid(reply, q) ==
    LET slots == reply.targets \o reply.latents
        ids == Ids(slots)
    IN /\ ~ reply.answers /\ reply.lists
       /\ reply.targets # <<>>
       /\ \A i \in DOMAIN slots :
             /\ slots[i].complete /\ slots[i].name # "blank"
             /\ \A j \in DOMAIN slots : slots[i].id = slots[j].id => i = j
       /\ \A slot \in ToSet(reply.targets) :
             slot.name # "invented" /\ AskedFor(slot, reply, q)
       /\ \A c \in ToSet(reply.constraints) :
             c.complete /\ c.applies \subseteq ids /\ Testable(c, ids)
       /\ reply.edges \subseteq ids \X ids

-----------------------------------------------------------------------------
(* Building and scoring.                                                   *)

(* _derive_raw_edges: from what a slot depends on to the slot.             *)
OwnEdges(slots) == UNION {slots[i].needs \X {slots[i].id} : i \in DOMAIN slots}

(* Raw ids become slot numbers in target-then-latent order; references to  *)
(* anything else are dropped.  The slots' own dependencies go before the   *)
(* edges the reply lists, even when none of them survives.                 *)
Built(reply) ==
    LET slots == reply.targets \o reply.latents
        Number(id) == CHOOSE i \in DOMAIN slots : slots[i].id = id
        own == OwnEdges(slots)
        chosen == IF own # {} THEN own ELSE reply.edges
    IN [slots |-> [i \in DOMAIN slots |->
                      [role |-> IF slots[i].role \in FrameRoles THEN slots[i].role ELSE "unknown",
                       name |-> slots[i].name, status |-> Status(slots[i], reply)]],
        targets |-> DOMAIN reply.targets,
        edges |-> {<<Number(e[1]), Number(e[2])>> : e \in chosen \cap (Ids(slots) \X Ids(slots))},
        known |-> reply.known,
        constraints |-> [i \in DOMAIN reply.constraints |->
            LET c == reply.constraints[i]
                applies == {Number(id) : id \in c.applies}
            IN [applies |-> applies, status |-> c.status, claim |-> c.claim,
                required |-> c.required, high |-> c.high, blocks |-> c.blocks,
                canBlock |-> CanBlock(c.required, c.high, c.blocks, applies, c.listed)]]]

(* A number given in words, or an id that is a list, is not tested for:    *)
(* its conversion, or the test of another field, raises.                   *)
Raises(reply, q) == reply.object /\ (reply.unhashable \/ (Valid(reply, q) /\ reply.words))

(* In thousandths, as score_parse_quality rounds them.                     *)
Share(part, whole) == (2000 * part + whole) \div (2 * whole)

TargetScore(f, q) ==
    LET fits == q.head = "none" \/ \E t \in f.targets : f.slots[t].role = q.head IN
    (IF fits THEN 600 ELSE 200) + (IF Cardinality(f.targets) <= 2 THEN 400 ELSE 200)

AttachmentScore(f) ==
    IF f.constraints = <<>> THEN 0
    ELSE Share(Cardinality({i \in DOMAIN f.constraints : f.constraints[i].applies # {}}),
               Len(f.constraints))

DependencyScore(f) ==
    IF DOMAIN f.slots # f.targets THEN IF f.edges = {} THEN 0 ELSE 1000
    ELSE IF f.edges = {} THEN 1000 ELSE 500

ContextScore(f) ==
    IF f.known = {} THEN 1000
    ELSE 1000 - Share(Cardinality(f.known \cap {f.slots[t].name : t \in f.targets}),
                      Cardinality(f.known))

CoverageScore(f, q) ==
    LET named == ToSet(q.nouns)
        covered == {f.slots[s].role : s \in DOMAIN f.slots}
    IN IF named = {} THEN 1000 ELSE Share(Cardinality(named \cap covered), Cardinality(named))

AmbiguityScore(f) ==
    1000 - Share(Cardinality({s \in DOMAIN f.slots : f.slots[s].role = "unknown"}), Len(f.slots))

Quality(f, q) ==
    (30 * TargetScore(f, q) + 25 * AttachmentScore(f) + 10 * DependencyScore(f)
     + 15 * ContextScore(f) + 10 * CoverageScore(f, q) + 10 * AmbiguityScore(f) + 50) \div 100

Usable(reply, q) == Valid(reply, q) /\ Quality(Built(reply), q) >= 500

-----------------------------------------------------------------------------
(* One parse.                                                              *)

Fallback(q) == [by |-> "deterministic", frame |-> Deterministic(q)]

(* What a reply becomes, from the cache or from the model.                 *)
Frame(reply, q) ==
    IF reply.object /\ Usable(reply, q) THEN [by |-> "llm", frame |-> Built(reply)]
    ELSE Fallback(q)

Current == Schedule[at]
Here(runner) == process = runner /\ at <= Len(Schedule)

(* The attempt gets its frame, or an exception ends the run.               *)
Gives(reply) ==
    IF Raises(reply, Current)
    THEN /\ process' = IF process = "live" THEN "raised" ELSE "stopped"
         /\ UNCHANGED <<at, parsed, replayed>>
    ELSE /\ at' = at + 1
         /\ IF process = "live"
            THEN parsed' = Append(parsed, Frame(reply, Current)) /\ UNCHANGED replayed
            ELSE replayed' = Append(replayed, Frame(reply, Current)) /\ UNCHANGED parsed
         /\ UNCHANGED process

Hit ==
    /\ Here("live") \/ Here("replay")
    /\ store[Current].said
    /\ Gives(store[Current])
    /\ UNCHANGED <<store, file, resumes, lost>>

(* A replay does not ask.                                                  *)
Miss ==
    /\ Here("replay") /\ ~ store[Current].said
    /\ replayed' = Append(replayed, Fallback(Current))
    /\ at' = at + 1
    /\ UNCHANGED <<process, store, file, parsed, resumes, lost>>

(* A model's error is not stored.                                          *)
ModelFails ==
    /\ Here("live") /\ ~ store[Current].said
    /\ parsed' = Append(parsed, [by |-> "failure", frame |-> Deterministic(Current)])
    /\ at' = at + 1
    /\ UNCHANGED <<process, store, file, replayed, resumes, lost>>

Torn == Nothing

(* Any reply is, valid or not: ParserCache.put writes the whole store, and *)
(* an error of the file system leaves the old file or a torn one.          *)
KeptMutant(reply) == IF reply.object THEN [store EXCEPT ![Current] = reply] ELSE store
Kept(reply) == [store EXCEPT ![Current] = reply]

ModelReplies ==
    /\ Here("live") /\ ~ store[Current].said
    /\ \E reply \in Replies[Current] :
          /\ store' = Kept(reply)
          /\ file' \in {store', file, Torn}
          /\ Gives(reply)
    /\ UNCHANGED <<resumes, lost>>

(* A run that was interrupted, or ended by an exception, continues with    *)
(* the attempt it had not finished; a replay starts over.                  *)
Loads == store' = file /\ lost' = (lost \/ file # store)

Resume ==
    /\ process \in {"live", "raised"} /\ resumes < MaxResumes
    /\ Loads
    /\ resumes' = resumes + 1
    /\ process' = "live"
    /\ UNCHANGED <<at, file, parsed, replayed>>

Replay ==
    /\ process = "raised" \/ (process = "live" /\ at > Len(Schedule))
    /\ Loads
    /\ process' = "replay" /\ at' = 1
    /\ UNCHANGED <<file, parsed, replayed, resumes>>

ParserDone == process = "stopped" \/ (process = "replay" /\ at > Len(Schedule))

ParserNext == Hit \/ Miss \/ ModelFails \/ ModelReplies \/ Resume \/ Replay

ParserSpec == ParserInit /\ [][ParserNext \/ (ParserDone /\ UNCHANGED parserVars)]_parserVars

-----------------------------------------------------------------------------
(* A frame that is parsed has something to look for, and not its value;    *)
(* its constraints and dependencies are on slots it has; every constraint  *)
(* that is required or of high priority says what to test, is on a slot    *)
(* and may block the answer, for the planner asks only that; and if the    *)
(* frame is the deterministic one, so does every constraint that may.  A   *)
(* model's constraint of lower priority that the reply itself says blocks, *)
(* or lists as able to, is not validated (llm_task_frame.py:421): it may   *)
(* be on no slot, where action_planner.py:114-115 passes over it, or have  *)
(* nothing to test.                                                        *)
FrameIsWellFormed ==
    \A i \in DOMAIN parsed :
        LET f == parsed[i].frame IN
        /\ f.targets # {} /\ f.targets \subseteq DOMAIN f.slots
        /\ \A t \in f.targets : f.slots[t].status \notin {"known_constant", "candidate_binding"}
        /\ \A c \in ToSet(f.constraints) :
              /\ c.applies \subseteq DOMAIN f.slots
              /\ c.required \/ c.high => c.claim /\ c.applies # {} /\ c.canBlock
              /\ parsed[i].by # "llm" /\ (c.blocks \/ c.canBlock) => c.claim /\ c.applies # {}
        /\ f.edges \subseteq (DOMAIN f.slots) \X (DOMAIN f.slots)

(* A replay without a model parses every question as the run did, as long  *)
(* as the cache the run ended with was the one it had written: except      *)
(* where the model had failed and was asked again later, so that the       *)
(* replay finds the later reply.                                           *)
AnsweredLater(i) == \E j \in i + 1 .. Len(parsed) : Schedule[j] = Schedule[i] /\ parsed[j].by # "failure"

FrameReplays ==
    ~ lost =>
        \A i \in DOMAIN replayed \cap DOMAIN parsed :
            \/ replayed[i].frame = parsed[i].frame
            \/ parsed[i].by = "failure" /\ AnsweredLater(i)
=============================================================================
