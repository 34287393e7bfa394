-------------------------- MODULE FrontierProposer --------------------------
(***************************************************************************)
(* The frontier proposer (agent/llm_frontier.py): a model proposes what to *)
(* do next, and code decides whether to ask it, which of its proposals are *)
(* valid, and which of those becomes the step.                             *)
(*                                                                         *)
(* A query is the set of its content words.  A constraint's phrase is one  *)
(* word here, an entity's name another, and the head noun of a slot a      *)
(* generic one.  A proposal is a record of                                 *)
(*   type    "search" for any type that becomes a search, "read",          *)
(*           "answer", "abstain", or "other" for an unknown one            *)
(*   slot, cand, hyp, cons   what it refers to; cand is a text, and byId   *)
(*           says that it was given by its id                              *)
(*   words, long             its query, and whether that is over the cap   *)
(*   tool    what its tool is normalized to: "search", "fetch", or         *)
(*           "unknown" for one that is not enabled                         *)
(* The confidence and the risk flags a proposal states of itself are left  *)
(* out of its score, and noise terms out of the queries.                   *)
(***************************************************************************)
EXTENDS CandidateFrontier

CONSTANTS
    Replies,        \* what the model may say: sequences of proposals
    Distinctive     \* words with a name, a year or a quoted phrase

\* A proposal as it is parsed: what it names may not exist.
Proposals ==
    [type : {"search", "read", "answer", "abstain", "other"}, slot : STRING,
     cand : STRING, byId : BOOLEAN, hyp : Nat, cons : SUBSET STRING,
     words : SUBSET (Constraints \union Texts \union Slots), long : BOOLEAN,
     tool : {"search", "fetch", "unknown"}]

ASSUME ProposerAssumption ==
    /\ Replies \subseteq Seq(Proposals)
    /\ Distinctive \subseteq Constraints \union Texts

Terminal == {"answer", "abstain"}

WordsOf(q) == {q.con, q.text, q.slot} \ {Nothing}

\* _is_generic_query: a word or less, or only words for roles.
Generic(words) == Cardinality(words) <= 1 \/ words \subseteq Slots

\* _is_fuzzy_duplicate; the same words in any order are the case a = b.
Variant(a, b) ==
    a # {} /\ (a = b \/ (Cardinality(a \cap b) >= 2
                         /\ Cardinality((a \ b) \union (b \ a)) <= 1))

WornMutant(words, stale) == words \in stale

Worn(words, stale) == \E old \in stale : Variant(words, old)

-----------------------------------------------------------------------------
(* validate_proposal *)

\* resolve_candidate: an id of any candidate, or the text of a live one.
Resolvable(f, p) ==
    \E i \in DOMAIN f.cands : f.cands[i].text = p.cand /\ (p.byId \/ Live(f.cands[i]))

Refers(f, p) ==
    /\ p.type # "other"
    /\ p.slot \in Slots \union {Nothing} /\ p.cons \subseteq Constraints
    /\ p.cand = Nothing \/ Resolvable(f, p)
    /\ p.hyp \in {0} \union DOMAIN f.hyps

\* A tool that is enabled, and a query that says something new.
Sayable(p, stale) ==
    p.tool # "unknown" /\ ~Generic(p.words) /\ ~Worn(p.words, stale)

Anchors == Constraints \union Known
Anchored(p) == Anchors # {} => p.words \cap Anchors # {}

\* Tied to a slot with no confirmed candidate or to an open constraint.
Connected(f, p, status) ==
    \/ /\ p.slot # Nothing
       /\ \A i \in Slate(f, p.slot) : f.cands[i].status # "confirmed"
    \/ \E c \in p.cons : status[c] # "resolved"

Accepted(f, p, status, stale) ==
    /\ Refers(f, p)
    /\ p.type = "answer" => Answerable(f)
    /\ p.type \notin Terminal =>
          Sayable(p, stale) /\ Anchored(p) /\ Connected(f, p, status)

\* The relaxed gate: rejected for its anchor alone, with a name or a year in
\* it.  Whether it is connected was not looked at.
Relaxable(f, p, stale) ==
    /\ Refers(f, p) /\ p.type \notin Terminal
    /\ Sayable(p, stale) /\ ~Anchored(p) /\ p.words \cap Distinctive # {}

-----------------------------------------------------------------------------
(* The choice. *)

\* score_proposal, twenty times over
Merit(p) ==
    (IF p.words \cap p.cons # {} THEN 20 ELSE 0)
    + (IF p.words \cap Known # {} THEN 20 ELSE 0)
    + (IF p.cons = {} THEN 0 ELSE 10 * Disc2[Sharpest(p.cons)])
    + (IF p.cand # Nothing THEN 10 ELSE 0) + (IF p.hyp # 0 THEN 10 ELSE 0)
    + (IF p.tool = "fetch" THEN 4 ELSE 25)

\* The first of the best accepted ones, or else the first that the relaxed
\* gate lets through; one proposal or none.
Chosen(f, reply, status, stale) ==
    LET valid == {n \in DOMAIN reply : Accepted(f, reply[n], status, stale)}
        soft == {n \in DOMAIN reply : Relaxable(f, reply[n], stale)}
        best == {n \in valid : \A m \in valid : Merit(reply[m]) <= Merit(reply[n])}
    IN  FirstAt(reply, IF valid # {} THEN best ELSE soft)

\* check_proposal_action_integrity: a query that the cap would cut, or an
\* abstention with a slot, is not what would be executed.
Faithful(p) == (p.type = "search" => ~p.long) /\ (p.type = "abstain" => p.slot = Nothing)

-----------------------------------------------------------------------------
(* repair_trigger_reason: when the repair mode asks for proposals.  A plan *)
(* to read or to answer has no query, which counts as a poor one.          *)
Poor(f, act, words, status, stale, n) ==
    LET pressing == {c \in Hard : status[c] # "resolved"} IN
    \/ act.type \in {"read", "answer"}
    \/ (act.cons = {} /\ act.type # "bind") \/ Generic(words)
    \/ words \in stale
    \/ act.cand # 0 /\ f.cands[act.cand].idle > 0
    \/ Constraints # {} /\ words \cap Distinctive = {}
    \/ pressing # {} /\ words \cap pressing = {}
    \/ n >= 2 /\ \A i \in DOMAIN f.cands : f.cands[i].sup = {}
=============================================================================
