------------------------- MODULE CandidateFrontier --------------------------
(***************************************************************************)
(* The candidate frontier (agent/candidate_frontier.py) with the           *)
(* deterministic evidence interpreter that feeds it                        *)
(* (agent/evidence_interpreter.py): the slates of candidates per slot, the *)
(* hypotheses over them, and the scheduler that scores the next actions.   *)
(*                                                                         *)
(* A frontier is the record of                                             *)
(*   cands   every candidate, in the order of creation; the slate of a     *)
(*           slot is its candidates                                        *)
(*   hyps    one hypothesis per target candidate, with the score and the   *)
(*           support it had when it was last recomputed                    *)
(*   streak  [slot -> directed calls in a row that gained no support]      *)
(* An action's information gain is multiplied by 40 and is net of half its *)
(* cost; a confidence is multiplied by 4 * NSlots.                         *)
(*                                                                         *)
(* An observation is interpreted without a judge: a page that is noise     *)
(* (dirty, here) asserts nothing, and every other page asserts each text   *)
(* it names for each slot of a compatible role, with the constraints of    *)
(* the slot it supports and opposes.  A call made for a proposal directs   *)
(* the interpretation: the proposal's constraints are tried on its slot.   *)
(***************************************************************************)
EXTENDS HypothesisTable

REJECT_NO_PROGRESS == 2     \* _REJECT_NO_PROGRESS
FORCE_READ_AFTER == 2       \* force_read_after_n

Undirected == [slot |-> Nothing, cons |-> {}]

EmptyFrontier ==
    [cands |-> <<>>, hyps |-> <<>>, streak |-> [s \in Slots |-> 0]]

Live(c) == c.status # "rejected"

Place(slot) == CHOOSE n \in DOMAIN SlotOrder : SlotOrder[n] = slot
InSlateOrder(f, i, j) ==
    \/ Place(f.cands[i].slot) < Place(f.cands[j].slot)
    \/ f.cands[i].slot = f.cands[j].slot /\ i <= j

Slate(f, slot) == {i \in DOMAIN f.cands : f.cands[i].slot = slot}

-----------------------------------------------------------------------------
(* Interpreting one observation. *)

\* _cons_for
ConsFor(slot, d) == ConstraintsOf(slot) \union (IF slot = d.slot THEN d.cons ELSE {})

\* recognize_constraint_support
Opposes(slot, r, d) == ConsFor(slot, d) \cap r.content.opposed
SupportsMutant(slot, r, d) ==
    ConsFor(slot, d) \cap (r.content.terms \union r.content.anchored)
Supports(slot, r, d) ==
    (ConsFor(slot, d) \cap (r.content.terms \union r.content.corroborated))
        \ r.content.opposed

\* _assert_candidate: what the question names binds a slot only by support.
Asserted(text, slot, r, d) ==
    /\ ~r.dirty /\ text \in ToSet(r.content.texts)
    /\ slot \in FrontierSlots[text]
    /\ text \in Known => Supports(slot, r, d) # {}

-----------------------------------------------------------------------------
(* The status of a candidate. *)


\* Every open blocking constraint of the slot is supported, and something is.
Confirmable(c, status) ==
    /\ c.con = {} /\ c.sup # {}
    /\ \A b \in Blocking \cap ConstraintsOf(c.slot) :
          status[b] = "resolved" \/ b \in c.sup

\* _update_status: rejected is final, and support protects from idleness.
Judged(c, status) ==
    IF c.status = "rejected" THEN c
    ELSE IF c.con # {} \/ (c.idle >= REJECT_NO_PROGRESS /\ c.sup = {})
         THEN [c EXCEPT !.status = "rejected"]
    ELSE IF Confirmable(c, status) THEN [c EXCEPT !.status = "confirmed"]
    ELSE c

-----------------------------------------------------------------------------
(* ingest_evidence *)

NewCandidate(text, slot) ==
    [text |-> text, slot |-> slot, sup |-> {}, con |-> {}, unknown |-> {},
     hosts |-> {}, urls |-> <<>>, valued |-> FALSE, idle |-> 0,
     status |-> "active"]

\* _assign: what the observation adds to a candidate it asserts.
Assigned(c, r, d, status) ==
    LET sup == c.sup \union Supports(c.slot, r, d)
        con == c.con \union Opposes(c.slot, r, d)
    IN  Judged([c EXCEPT !.sup = sup, !.con = con,
                         !.unknown = ConsFor(c.slot, d) \ (sup \union con),
                         !.hosts = @ \union {r.host},
                         !.urls = IF Contains(@, r.page) THEN @
                                  ELSE Append(@, r.page),
                         !.valued = r.page \in HighValue], status)

\* attach_constraint_support_from_interpretation, for one observation
Attached(cands, r, d, status) ==
    LET new == Fresh(FlattenSeq([i \in DOMAIN r.content.texts |->
                        [j \in DOMAIN SlotOrder |->
                            NewCandidate(r.content.texts[i], SlotOrder[j])]]), {})
        born == Picked(new, {n \in DOMAIN new :
                    /\ Asserted(new[n].text, new[n].slot, r, d)
                    /\ \A i \in DOMAIN cands :
                          cands[i].text # new[n].text \/ cands[i].slot # new[n].slot})
    IN  [i \in DOMAIN cands |->
            IF Asserted(cands[i].text, cands[i].slot, r, d)
            THEN Assigned(cands[i], r, d, status) ELSE cands[i]]
        \o [i \in DOMAIN born |-> Assigned(born[i], r, d, status)]

\* evidence_score, four times over
Score(c) == 4 * Cardinality(c.sup) + Cardinality(c.hosts)

\* _best_candidate: the live candidate of the slot with the best score, the
\* latest of equals; one index or none.
BestCandidate(cands, slot) ==
    LET live == {i \in DOMAIN cands : cands[i].slot = slot /\ Live(cands[i])}
    IN  {i \in live : \A j \in live :
            \/ Score(cands[j]) < Score(cands[i])
            \/ Score(cands[j]) = Score(cands[i]) /\ j <= i}

\* _recompute_hypothesis
Recomputed(h, cands) ==
    LET assign == [s \in DOMAIN h.assign \union
                        {s \in Slots \ {Target} : BestCandidate(cands, s) # {}} |->
                     IF s # Target /\ BestCandidate(cands, s) # {}
                     THEN CHOOSE i \in BestCandidate(cands, s) : TRUE
                     ELSE h.assign[s]]
        bound == {assign[s] : s \in DOMAIN assign}
        sup == UNION {cands[i].sup : i \in bound}
        con == UNION {cands[i].con : i \in bound}
        hosts == UNION {cands[i].hosts : i \in bound}
        idle == FoldSet(LAMBDA s, n : n + cands[assign[s]].idle, 0, DOMAIN assign)
    IN  [assign |-> assign, sup |-> sup, con |-> con,
         score |-> 4 * NSlots * Cardinality(sup) - 6 * NSlots * Cardinality(con)
                   + 2 * Cardinality(DOMAIN assign)
                   + NSlots * Cardinality(hosts) - 2 * NSlots * idle,
         active |-> h.active /\ ~(con # {} /\ sup = {})]

AdvanceHypothesesMutant(hyps, cands) ==
    LET known == {hyps[k].assign[Target] : k \in DOMAIN hyps}
        born == Ascending({i \in DOMAIN cands : cands[i].slot = Target /\ Live(cands[i])
                                                 /\ i \notin known})
    IN  hyps \o [k \in DOMAIN born |->
                   Recomputed([assign |-> [s \in {Target} |-> born[k]],
                               active |-> TRUE], cands)]

\* _advance_hypotheses: one for every live target candidate, all recomputed;
\* the hypothesis of a rejected one is left as it was.
AdvanceHypotheses(hyps, cands) ==
    LET known == {hyps[k].assign[Target] : k \in DOMAIN hyps}
        born == Ascending({i \in DOMAIN cands : cands[i].slot = Target /\ Live(cands[i])
                                                 /\ i \notin known})
    IN  [k \in DOMAIN hyps |->
            IF Live(cands[hyps[k].assign[Target]])
            THEN Recomputed(hyps[k], cands) ELSE hyps[k]]
        \o [k \in DOMAIN born |->
              Recomputed([assign |-> [s \in {Target} |-> born[k]],
                          active |-> TRUE], cands)]

\* _slot_constraint_support
SupportOf(cands, d) ==
    d.cons \cap UNION {cands[i].sup : i \in {i \in DOMAIN cands :
                            cands[i].slot = d.slot /\ Live(cands[i])}}

Gained(f, g, d) ==
    Cardinality(SupportOf(g.cands, d)) > Cardinality(SupportOf(f.cands, d))

\* The whole call: slates, hypotheses, and the streak of a directed call.
FoldIn(f, readings, d, read, status) ==
    LET after[n \in 0..Len(readings)] ==
            IF n = 0 THEN f.cands ELSE Attached(after[n - 1], readings[n], d, status)
        cands == after[Len(readings)]
        g == [f EXCEPT !.cands = cands, !.hyps = AdvanceHypotheses(f.hyps, cands)]
    IN  [g EXCEPT !.streak = [s \in Slots |->
            IF s # d.slot THEN f.streak[s]
            ELSE IF read \/ Gained(f, g, d) THEN 0 ELSE f.streak[s] + 1]]

NoteIdleMutant(f, status) ==
    LET idler(c) == IF c.status = "active" /\ c.sup = {}
                    THEN Judged([c EXCEPT !.idle = c.idle + NSlots], status) ELSE c
    IN  [f EXCEPT !.cands = [i \in DOMAIN f.cands |-> idler(f.cands[i])]]

\* note_no_progress_for_slate, for every slate
NoteIdle(f, status) ==
    LET idler(c) == IF c.status = "active" /\ c.sup = {}
                    THEN Judged([c EXCEPT !.idle = c.idle + 1], status) ELSE c
    IN  [f EXCEPT !.cands = [i \in DOMAIN f.cands |-> idler(f.cands[i])]]

-----------------------------------------------------------------------------
(* The scheduler. *)

\* best_hypothesis: the first of the strongest active ones; one index or none.
Leading(f) ==
    LET live == {k \in DOMAIN f.hyps : f.hyps[k].active}
        rank(k) == <<f.hyps[k].score, Cardinality(f.hyps[k].sup),
                     Cardinality(DOMAIN f.hyps[k].assign)>>
        above(a, b) == \/ a[1] > b[1]
                       \/ a[1] = b[1] /\ a[2] > b[2]
                       \/ a[1] = b[1] /\ a[2] = b[2] /\ a[3] > b[3]
    IN  {k \in live : \A j \in live :
            /\ ~above(rank(j), rank(k))
            /\ rank(j) = rank(k) => k <= j}

\* _answerable, of the best hypothesis
Answerable(f) ==
    \E k \in Leading(f) :
        /\ f.cands[f.hyps[k].assign[Target]].status = "confirmed"
        /\ f.hyps[k].con = {}

\* _slot_supported; a confirmed candidate always has support
SlotSupported(f, slot) ==
    \E i \in Slate(f, slot) : Live(f.cands[i]) /\ f.cands[i].sup # {}

\* _supported_subject_candidate: the first of the best; one index or none.
Subject(f) ==
    LET able == {i \in DOMAIN f.cands : f.cands[i].slot # Target
                    /\ Live(f.cands[i]) /\ f.cands[i].sup # {}}
        top == {i \in able : \A j \in able : Score(f.cands[j]) <= Score(f.cands[i])}
    IN  {i \in top : \A j \in top : InSlateOrder(f, i, j)}

\* The subject pivots to the target when that is answer-shaped and unbound.
Pivots(f) == /\ Subject(f) # {} /\ Target \in AnswerShaped
             /\ ~SlotSupported(f, Target)

\* dep_blocked: deferred until what the slot depends on is supported, or in
\* favour of the pivot.
Deferred(f, slot) ==
    \/ \E s \in DependsOn[slot] : ~SlotSupported(f, s)
    \/ slot = Target /\ Pivots(f)

\* _slot_blocking_constraints
OpenBlocking(slot, status) ==
    {c \in Blocking \cap ConstraintsOf(slot) : status[c] # "resolved"}

When(test, action) == IF test THEN <<action>> ELSE <<>>
Act(type, slot, cand, cons, score) ==
    [type |-> type, slot |-> slot, cand |-> cand, cons |-> cons, score |-> score]

\* generate_frontier_actions, for one slate
SlateActions(f, slot, status) ==
    LET active == Ascending({i \in Slate(f, slot) : f.cands[i].status = "active"})
        confirmed == Ascending({i \in Slate(f, slot) : f.cands[i].status = "confirmed"})
        blocking == IF Deferred(f, slot) THEN {} ELSE OpenBlocking(slot, status)
        penalty == 32 * (IF f.streak[slot] < 3 THEN f.streak[slot] ELSE 3)
        gain == LET top == Sharpest(blocking) IN
                15 * Disc2[top] + (IF Discriminative(top) THEN 24 ELSE -24) - penalty
        demoted == IF Pivots(f) /\ \E i \in Subject(f) : f.cands[i].slot = slot
                   THEN 100 ELSE 0
        readable == Ascending({i \in ToSet(active) : f.cands[i].unknown # {}})
        read(i) == Act("read", slot, i, f.cands[i].unknown,
                       (IF f.streak[slot] >= FORCE_READ_AFTER THEN 100 ELSE 0)
                       + (IF f.cands[i].sup = {} THEN 40 ELSE 0)
                       + (IF f.cands[i].valued THEN 20 ELSE 0))
        dependent == Picked(SlotOrder, {n \in DOMAIN SlotOrder :
                        /\ slot \in DependsOn[SlotOrder[n]]
                        /\ BestCandidate(f.cands, SlotOrder[n]) = {}})
    IN  When(blocking # {} /\ active # <<>>,
             Act("verify", slot, Head(active), blocking, 100 + gain - demoted))
        \o When(blocking # {} /\ active = <<>> /\ confirmed = <<>>,
                Act("generate", slot, 0, blocking, 80 + gain))
        \o When(blocking = {} /\ Slate(f, slot) = {} /\ ~Deferred(f, slot),
                Act("generate", slot, 0, {}, 60))
        \o When(Len(active) >= 2, Act("compare", slot, 0, {}, 40))
        \o [n \in DOMAIN readable |-> read(readable[n])]
        \o FlattenSeq([n \in DOMAIN confirmed |->
              [m \in DOMAIN dependent |->
                  Act("expand", dependent[m], confirmed[n], {}, 60)]])

\* generate_frontier_actions
Actions(f, status) ==
    FlattenSeq([n \in DOMAIN SlotOrder |-> SlateActions(f, SlotOrder[n], status)])
    \o When(Pivots(f),
            Act("bind", Target, CHOOSE i \in Subject(f) : TRUE,
                {c \in ConstraintsOf(Target) : status[c] # "resolved"}, 148))
    \o When(Answerable(f), Act("answer", Nothing, 0, {}, 200))

\* select_frontier_action: the first of the best; empty when there is none.
Selected(acts) ==
    LET top == {n \in DOMAIN acts : \A m \in DOMAIN acts :
                   acts[m].score <= acts[n].score}
    IN  FirstAt(acts, top)

-----------------------------------------------------------------------------
(* What the loop reads for the frontier, and when it may abstain. *)

\* frontier_read_value: the live candidates the page names that have an open
\* constraint on their slot.
OpenOn(slot, status) == {c \in ConstraintsOf(slot) : status[c] # "resolved"}
Affected(f, r, status) ==
    {i \in DOMAIN f.cands :
        /\ ~r.dirty /\ Live(f.cands[i])
        /\ f.cands[i].text \in ToSet(r.content.texts)
        /\ OpenOn(f.cands[i].slot, status) # {}}

\* The constraints such a read tests: those of the first one, the ones the page
\* mentions or else all of them.
Tested(f, r, status) ==
    LET first == CHOOSE i \in Affected(f, r, status) :
                    \A j \in Affected(f, r, status) : InSlateOrder(f, i, j)
        open == OpenOn(f.cands[first].slot, status)
        told == open \cap (r.content.terms \union r.content.anchored)
    IN  IF told # {} THEN told ELSE open
=============================================================================
