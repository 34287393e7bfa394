-------------------------- MODULE HypothesisTable ---------------------------
(***************************************************************************)
(* The hypothesis table and the planner that reads it                      *)
(* (agent/hypothesis_table.py, agent/action_planner.py): what one call's   *)
(* observations do to the constraints, the candidates and the hypotheses,  *)
(* when an answer is supported, which page is worth a read, and which      *)
(* query comes next.                                                       *)
(*                                                                         *)
(* A candidate is its text; a table is the record of                       *)
(*   status    [constraint -> Statuses], which the whole attempt shares    *)
(*   cands     the candidates, in the order they were found                *)
(*   evidence  one record per call                                         *)
(*   hyps      one hypothesis per target candidate, in order               *)
(* A score is multiplied by 2 * NSlots to keep it an integer.              *)
(***************************************************************************)
EXTENDS TaskFrame

MAX_NO_PROGRESS == 2
MIN_SUPPORT == 2        \* _MIN_SUPPORT_TO_ANSWER

Partial(S, T) == UNION {[R -> T] : R \in SUBSET S}

Hypotheses ==
    [assign : Partial(Slots, Texts), con : Partial(Constraints,
         {"supported", "contradicted", "unknown"}),
     evidence : SUBSET Nat, idle : 0..MAX_NO_PROGRESS, active : BOOLEAN]

EmptyTable(status) ==
    [status |-> status, cands |-> <<>>, evidence |-> <<>>, hyps |-> <<>>]

-----------------------------------------------------------------------------
(* Scores and the best hypothesis. *)

CountOf(h, what) == Cardinality({c \in DOMAIN h.con : h.con[c] = what})

Confidence(h) ==
    2 * NSlots * CountOf(h, "supported") - 3 * NSlots * CountOf(h, "contradicted")
    + Cardinality(DOMAIN h.assign)

Stronger(g, h) ==
    \/ Confidence(g) > Confidence(h)
    \/ /\ Confidence(g) = Confidence(h)
       /\ \/ CountOf(g, "supported") > CountOf(h, "supported")
          \/ /\ CountOf(g, "supported") = CountOf(h, "supported")
             /\ Cardinality(DOMAIN g.assign) > Cardinality(DOMAIN h.assign)

\* The indices of the best active hypothesis: one, or none.
Best(t) ==
    LET live == {i \in DOMAIN t.hyps : t.hyps[i].active}
        top == {i \in live : \A j \in live : ~Stronger(t.hyps[j], t.hyps[i])}
    IN  {i \in top : \A j \in top : i <= j}

-----------------------------------------------------------------------------
(* ingest_evidence *)

ResolvesMutant(c, r) ==
    /\ c \in r.content.terms
    /\ c \in Hard => c \in r.content.anchored

\* A blocking constraint resolves from a clean page with an anchor of its own.
Resolves(c, r) ==
    /\ c \in r.content.terms
    /\ c \in Hard => ~r.dirty /\ c \in r.content.anchored

SlotsOf(text) == TableSlots[text] \ (IF text \in Known THEN {Target} ELSE {})

FirstFor(slot, cands) ==
    FirstAt(cands, {i \in DOMAIN cands : slot \in SlotsOf(cands[i])})

CachedStatus(s) ==
    IF s = "resolved" THEN "supported"
    ELSE IF s = "contradicted" THEN "contradicted" ELSE "unknown"

\* What one call's evidence does to a hypothesis whose target candidate it
\* names: slots once bound are never bound again.
Advanced(h, status, cands, n) ==
    LET open == {s \in Slots \ DOMAIN h.assign : FirstFor(s, cands) # {}}
        assign == [s \in DOMAIN h.assign \union (open \ {Target}) |->
                     IF s \in DOMAIN h.assign THEN h.assign[s]
                     ELSE CHOOSE t \in FirstFor(s, cands) : TRUE]
        touched == {c \in Constraints : AppliesTo[c] \cap DOMAIN assign # {}}
    IN  [h EXCEPT !.assign = assign,
                  !.con = [c \in DOMAIN h.con \union touched |->
                             IF c \in touched THEN CachedStatus(status[c])
                             ELSE h.con[c]],
                  !.evidence = @ \union {n}]

NewHypothesis(text) ==
    [assign |-> [s \in {Target} |-> text], con |-> [c \in {} |-> "unknown"],
     evidence |-> {}, idle |-> 0, active |-> TRUE]

Ingest(t, readings) ==
    LET n == Len(t.evidence) + 1
        status == [c \in Constraints |->
                     IF t.status[c] # "contradicted"
                        /\ \E i \in DOMAIN readings : Resolves(c, readings[i])
                     THEN "resolved" ELSE t.status[c]]
        cands == t.cands \o Fresh(TextsOf(readings), ToSet(t.cands))
        named == {x \in ToSet(TextsOf(readings)) : Target \in SlotsOf(x)}
        hypFor(x) == {i \in DOMAIN t.hyps : t.hyps[i].assign[Target] = x}
        texts == Fresh(TextsOf(readings), {})
        born == Picked(texts, {i \in DOMAIN texts :
                                  texts[i] \in named /\ hypFor(texts[i]) = {}})
        old == [i \in DOMAIN t.hyps |->
                  IF t.hyps[i].assign[Target] \in named
                  THEN Advanced(t.hyps[i], status, cands, n) ELSE t.hyps[i]]
        new == [i \in DOMAIN born |->
                  Advanced(NewHypothesis(born[i]), status, cands, n)]
    IN  [status |-> status, cands |-> cands,
         evidence |-> Append(t.evidence,
            [clean |-> \A i \in DOMAIN readings : ~readings[i].dirty,
             slots |-> UNION {SlotsOf(x) : x \in ToSet(TextsOf(readings))},
             shape |-> \E i \in DOMAIN readings : readings[i].content.shape]),
         hyps |-> old \o new]

\* A new candidate, or a constraint resolved.
Progressed(t, u) == u.cands # t.cands \/ u.status # t.status

RejectContradicted(t) ==
    LET refuted(h) == CountOf(h, "contradicted") > 0 /\ CountOf(h, "supported") = 0 IN
    [t EXCEPT !.hyps = [i \in DOMAIN t.hyps |->
        [t.hyps[i] EXCEPT !.active = t.hyps[i].active /\ ~refuted(t.hyps[i])]]]

\* note_no_progress, on the best hypothesis there is
NoteNoProgress(t) ==
    LET idle(h) == h.idle + 1 IN
    [t EXCEPT !.hyps = [i \in DOMAIN t.hyps |->
        IF i \notin Best(t) THEN t.hyps[i]
        ELSE [t.hyps[i] EXCEPT !.idle = idle(t.hyps[i]),
                               !.active = idle(t.hyps[i]) < MAX_NO_PROGRESS]]]

-----------------------------------------------------------------------------
(* evaluate_answer_support *)

Bound(h) == DOMAIN h.assign \union {Target}

\* The constraints that must be resolved before the hypothesis may answer.
Gate(h) ==
    LET declared == {c \in Gating : AppliesTo[c] \cap Bound(h) # {}}
        onTarget == ConstraintsOf(Target) \ Shape
    IN  IF declared # {} THEN declared
        ELSE {c \in onTarget : \A d \in onTarget : Disc2[d] <= Disc2[c]}

AnswerSupportedMutant(t) ==
    \E i \in Best(t) :
        LET h == t.hyps[i] IN
        /\ \E n \in h.evidence \cap DOMAIN t.evidence :
              /\ t.evidence[n].clean
              /\ Target \in t.evidence[n].slots \/ t.evidence[n].shape
        /\ \A c \in Gate(h) : t.status[c] # "unresolved"
        /\ \A c \in Constraints :
              t.status[c] = "contradicted" => AppliesTo[c] \cap Bound(h) = {}
        /\ CountOf(h, "supported") >= MIN_SUPPORT

AnswerSupported(t) ==
    \E i \in Best(t) :
        LET h == t.hyps[i] IN
        /\ \E n \in h.evidence \cap DOMAIN t.evidence :
              /\ t.evidence[n].clean
              /\ Target \in t.evidence[n].slots \/ t.evidence[n].shape
        /\ \A c \in Gate(h) : t.status[c] = "resolved"
        /\ \A c \in Constraints :
              t.status[c] = "contradicted" => AppliesTo[c] \cap Bound(h) = {}
        /\ CountOf(h, "supported") >= MIN_SUPPORT

-----------------------------------------------------------------------------
(* frame_read_value, and the planner's next query. *)

\* Some unresolved constraint, the best hypothesis, the answer's shape, or a
\* second provider that knows the host, speaks for reading the page.
WorthReading(t, r, crossed) ==
    /\ ~r.dirty /\ r.page \notin Social
    /\ \/ \E i \in Best(t), s \in Slots :
             /\ s \in DOMAIN t.hyps[i].assign
             /\ t.hyps[i].assign[s] \in ToSet(r.content.texts)
       \/ \E c \in r.content.terms : t.status[c] = "unresolved"
       \/ r.content.shape
       \/ r.host \in crossed

Query(arm, con, text, slot) ==
    [arm |-> arm, con |-> con, text |-> text, slot |-> slot]
Nothing == "none"

BoundSlots(t) == UNION {DOMAIN t.hyps[i].assign : i \in DOMAIN t.hyps}

Rivals(t, slot) == {i \in DOMAIN t.cands : slot \in SlotsOf(t.cands[i])}

BestText(t, slot) ==
    IF \E i \in Best(t) : slot \in DOMAIN t.hyps[i].assign
    THEN LET i == CHOOSE i \in Best(t) : TRUE IN t.hyps[i].assign[slot]
    ELSE Nothing

\* The queries the planner would try for a constraint, in order: compare,
\* verify the bound target, bind an open slot.
QueriesFor(t, c) ==
    LET free == {s \in AppliesTo[c] : s \notin BoundSlots(t)}
        slot == IF free # {} THEN CHOOSE s \in free : TRUE ELSE Target
        compared == IF AppliesTo[c] = {} THEN Nothing
                    ELSE CHOOSE s \in AppliesTo[c] : TRUE
    IN  (IF c \in Comparative /\ compared # Nothing /\ Rivals(t, compared) # {}
         THEN <<Query("compare", c, BestText(t, compared), compared)>> ELSE <<>>)
        \o (IF BestText(t, Target) # Nothing /\ Target \in AppliesTo[c]
            THEN <<Query("verify", c, BestText(t, Target), Target)>> ELSE <<>>)
        \o (IF AppliesTo[c] # {}
            THEN <<Query("bind", c, Nothing, slot)>> ELSE <<>>)

\* The planner's next query: the first one not asked before of the most
\* urgent constraint that has one.  Empty: nothing is left to try.
NextQuery(t, asked) ==
    LET fresh(c) == Fresh(QueriesFor(t, c), asked)
        open == {c \in Constraints \ Shape :
                    t.status[c] = "unresolved" /\ fresh(c) # <<>>}
        most == {c \in open : \A d \in open : Urgency(d) <= Urgency(c)}
    IN  IF open = {} THEN <<>> ELSE <<Head(fresh(CHOOSE c \in most : TRUE))>>
=============================================================================
