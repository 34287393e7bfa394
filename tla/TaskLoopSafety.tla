---------------------------- MODULE TaskLoopSafety ----------------------------
(***************************************************************************)
(* The loop of TaskLoop, proved.  One invariant (LoopInv) relates what     *)
(* both stores hold to what the calls observed: every candidate's support  *)
(* and contradictions to the clean pages that say so, its idle count to    *)
(* the calls that moved nothing, every hypothesis to the candidates it     *)
(* assigns, the pages and the words given up to the calls made.  Nothing   *)
(* is bounded: any frame, any pages, any replies of the model.             *)
(***************************************************************************)
EXTENDS TaskLoop, ListFacts

-----------------------------------------------------------------------------
(* The invariant. *)

\* A page as a call of its kind reads it.
Heard(kind, p) == IF kind = "search" THEN Snippet[p] ELSE Body[p]

\* What the clean pages of the calls say, and the pages searches showed.
Sources(log) ==
    UNION {{Heard(log[n].kind, p) : p \in ToSet(log[n].pages) \ Dirty} : n \in DOMAIN log}
Shown(log) ==
    UNION {ToSet(log[n].pages) : n \in {m \in DOMAIN log : log[m].kind = "search"}}

\* The calls that moved nothing.
Idles(log) == Cardinality({n \in DOMAIN log : ~log[n].moved})

\* A candidate, given what was heard and shown and how often nothing moved.
CandOK(c, heard, shown, status, idles) ==
    /\ c \in Candidates /\ c.idle <= idles
    /\ \A con \in c.sup : \E x \in heard :
          c.text \in ToSet(x.texts) /\ con \in (x.terms \union x.corroborated) \ x.opposed
    /\ \A con \in c.con : \E x \in heard : c.text \in ToSet(x.texts) /\ con \in x.opposed
    /\ ToSet(c.urls) \subseteq shown \ Dirty
    /\ c.status = "rejected" => c.con # {} \/ c.idle = REJECT_NO_PROGRESS
    /\ c.status = "active" /\ c.sup = {} => c.idle < REJECT_NO_PROGRESS
    /\ c.status = "confirmed" => OpenBlocking(c.slot, status) \subseteq c.sup

\* The candidates: one per text and slot.
CandsOK(cands, heard, shown, status, idles) ==
    /\ IsList(cands)
    /\ \A i \in DOMAIN cands : CandOK(cands[i], heard, shown, status, idles)
    /\ \A i, j \in DOMAIN cands :
          cands[i].text = cands[j].text /\ cands[i].slot = cands[j].slot => i = j

\* A hypothesis assigns candidates, one for the target among them, and knows
\* their contradictions while that one is live.
HypOK(h, cands) ==
    /\ Target \in DOMAIN h.assign
    /\ \A s \in DOMAIN h.assign : h.assign[s] \in DOMAIN cands
    /\ cands[h.assign[Target]].slot = Target
    /\ Live(cands[h.assign[Target]]) =>
          h.con = UNION {cands[h.assign[s]].con : s \in DOMAIN h.assign}

HypsOK(hyps, cands) == IsList(hyps) /\ \A k \in DOMAIN hyps : HypOK(hyps[k], cands)

\* A hypothesis of the table, after n calls.
TableHypOK(h, n) ==
    /\ h.assign \in Partial(Slots, Texts) /\ Target \in DOMAIN h.assign
    /\ h.evidence \subseteq 1..n /\ h.active \in BOOLEAN
    /\ DOMAIN h = {"assign", "con", "evidence", "idle", "active"}

TableOK(t, n) ==
    /\ DOMAIN t = {"status", "cands", "evidence", "hyps"}
    /\ t.status \in [Constraints -> Statuses]
    /\ t.cands \in Seq(Texts) /\ Unrepeated(t.cands)
    /\ IsList(t.evidence) /\ Len(t.evidence) = n
    /\ IsList(t.hyps)
    /\ \A i \in DOMAIN t.hyps : TableHypOK(t.hyps[i], n)
    /\ \A i, j \in DOMAIN t.hyps :
          t.hyps[i].assign[Target] = t.hyps[j].assign[Target] => i = j

\* What the calls leave behind.
LogOK ==
    /\ calls \in Seq(Calls) /\ Len(calls) <= Budget
    /\ \A n \in DOMAIN calls : /\ calls[n].kind = "search" => calls[n].page = Nothing
                               /\ calls[n].kind = "read" => calls[n].page \in scraped
    /\ \A n \in DOMAIN calls : calls[n].kind = "search" /\ ~calls[n].moved =>
                                  calls[n].words \in stale
    /\ scraped \subseteq Pages /\ dead \subseteq {HostOf[p] : p \in Pages}
    /\ seen \in Seq(Pages) /\ Unrepeated(seen) /\ ToSet(seen) \subseteq Shown(calls)
    /\ Shown(calls) \subseteq Pages

LoopInv ==
    /\ driver \in Drivers /\ given \in GivenStatuses
    /\ LogOK
    /\ TableOK(table, Len(calls))
    /\ DOMAIN frontier = {"cands", "hyps", "streak"}
    /\ CandsOK(frontier.cands, Sources(calls), Shown(calls), table.status, Idles(calls))
    /\ HypsOK(frontier.hyps, frontier.cands)
    /\ frontier.streak \in [Slots -> 0..Len(calls)]
    /\ \A c \in Hard : table.status[c] = "resolved" /\ given[c] # "resolved" =>
          \E x \in Sources(calls) : c \in x.terms /\ c \in x.anchored
    /\ outcome.kind \in {"running", "answer", "abstain", "spent"}

-----------------------------------------------------------------------------
(* Lists of the frame. *)

(* What is new in a list is in it, is not in what is known, and comes once. *)
LEMMA FreshLists ==
    ASSUME NEW s, IsList(s), NEW S
    PROVE  /\ Unrepeated(Fresh(s, S)) /\ IsList(Fresh(s, S))
           /\ ToSet(Fresh(s, S)) = ToSet(s) \ S
<1>. DEFINE I == {i \in DOMAIN s : s[i] \notin S /\ \A j \in 1..i - 1 : s[j] # s[i]}
<1>1. DOMAIN s = 1..Len(s) /\ Len(s) \in Nat
  BY DEF IsList
<1>2. I \in SUBSET (DOMAIN s)
  OBVIOUS
<1>3. \A i, j \in I : s[i] = s[j] => i = j
  <2>. SUFFICES ASSUME NEW i \in I, NEW j \in I, s[i] = s[j], i < j PROVE FALSE
    BY <1>1
  <2>1. i \in 1..j - 1
    BY <1>1
  <2>. QED  BY <2>1
<1>4. ToSet(s) \ S = {s[i] : i \in I}
  <2>1. ASSUME NEW x \in ToSet(s) \ S PROVE \E i \in I : x = s[i]
    <3>. DEFINE J == {i \in DOMAIN s : s[i] = x}
    <3>1. J \in SUBSET Nat /\ J # {}
      BY <1>1, <2>1 DEF ToSet
    <3>2. PICK i \in J : \A j \in J : i <= j
      BY <3>1, Smallest
    <3>3. \A j \in 1..i - 1 : s[j] # s[i]
      BY <1>1, <3>2
    <3>. QED  BY <2>1, <3>2, <3>3
  <2>. QED  BY <2>1 DEF ToSet
<1>5. Fresh(s, S) = Picked(s, I)
  BY DEF Fresh
<1>. HIDE DEF I
<1>6. IsList(Picked(s, I)) /\ ToSet(Picked(s, I)) = {s[i] : i \in I} /\ Unrepeated(Picked(s, I))
  BY <1>2, <1>3, PickedLists
<1>. QED  BY <1>4, <1>5, <1>6

(* A list without repetitions, followed by what is new in another.         *)
LEMMA FreshAppended ==
    ASSUME NEW s, Unrepeated(s), NEW t, IsList(t)
    PROVE  /\ Unrepeated(s \o Fresh(t, ToSet(s)))
           /\ ToSet(s \o Fresh(t, ToSet(s))) = ToSet(s) \union ToSet(t)
<1>. DEFINE u == Fresh(t, ToSet(s))
            w == s \o u
<1>1. IsList(s) /\ IsList(u) /\ Unrepeated(u) /\ ToSet(u) = ToSet(t) \ ToSet(s)
  BY FreshLists DEF Unrepeated
<1>. HIDE DEF u
<1>2. /\ \A k \in DOMAIN w : \/ k \in DOMAIN s /\ w[k] = s[k]
                             \/ \E i \in DOMAIN u : k = Len(s) + i /\ w[k] = u[i]
      /\ Len(s) \in Nat /\ DOMAIN u = 1 .. Len(u)
  BY <1>1, ConcatParts
<1>4. IsList(w) /\ ToSet(w) = ToSet(s) \union ToSet(t)
  BY <1>1, ConcatSets
<1>5. \A i \in DOMAIN u : u[i] \notin ToSet(s)
  BY <1>1 DEF ToSet
<1>. HIDE DEF w
<1>6. \A k \in DOMAIN w : \/ k \in DOMAIN s /\ w[k] = s[k] /\ w[k] \in ToSet(s)
                         \/ \E i \in DOMAIN u :
                               k = Len(s) + i /\ w[k] = u[i] /\ w[k] \notin ToSet(s)
  BY <1>2, <1>5 DEF ToSet
<1>7. ASSUME NEW i \in DOMAIN w, NEW j \in DOMAIN w, w[i] = w[j] PROVE i = j
  <2>1. CASE w[i] \in ToSet(s)
    BY <1>6, <1>7, <2>1 DEF Unrepeated
  <2>2. CASE w[i] \notin ToSet(s)
    BY <1>1, <1>6, <1>7, <2>2 DEF Unrepeated
  <2>. QED  BY <2>1, <2>2
<1>. QED  BY <1>4, <1>7 DEF w, u, Unrepeated

\* The readings of a call: of pages, as they show up or as they are fetched.
Readings(seq) ==
    /\ IsList(seq)
    /\ \A i \in DOMAIN seq : \E p \in Pages, x \in Contents : seq[i] = Reading(p, x)

(* The texts of the readings are those the pages name.                     *)
LEMMA TextLists ==
    ASSUME NEW seq, Readings(seq)
    PROVE  /\ IsList(TextsOf(seq)) /\ ToSet(TextsOf(seq)) \subseteq Texts
           /\ TextsOf(seq) \in Seq(Texts)
<1>. DEFINE lists == [i \in DOMAIN seq |-> seq[i].content.texts]
<1>1. \A i \in DOMAIN seq : seq[i].content.texts \in Seq(Texts)
  BY DEF Readings, Reading, Contents
<1>2. IsList(lists) /\ DOMAIN lists = DOMAIN seq
  BY FunctionIsList DEF Readings
<1>3. \A i \in DOMAIN lists : IsList(lists[i]) /\ ToSet(lists[i]) \subseteq Texts
  <2>. SUFFICES ASSUME NEW s \in Seq(Texts) PROVE IsList(s) /\ ToSet(s) \subseteq Texts
    BY <1>1
  <2>1. IsList(s)
    BY SeqIsList
  <2>2. ToSet(s) \subseteq Texts
    BY DEF ToSet
  <2>. QED  BY <2>1, <2>2
<1>4. TextsOf(seq) = FlattenSeq(lists)
  BY DEF TextsOf
<1>. HIDE DEF lists
<1>5. /\ IsList(FlattenSeq(lists))
      /\ ToSet(FlattenSeq(lists)) = UNION {ToSet(lists[i]) : i \in DOMAIN lists}
  BY <1>2, <1>3, FlattenLists
<1>6. ToSet(TextsOf(seq)) \subseteq Texts
  BY <1>3, <1>4, <1>5
<1>. QED  BY <1>4, <1>5, <1>6 DEF IsList

-----------------------------------------------------------------------------
(* The hypothesis table. *)

(* The assignment of a hypothesis grows, and what was bound stays bound.   *)
LEMMA AdvancedOK ==
    ASSUME NEW n \in Nat, NEW h, TableHypOK(h, n), NEW status, NEW cands \in Seq(Texts)
    PROVE  /\ TableHypOK(Advanced(h, status, cands, n + 1), n + 1)
           /\ Advanced(h, status, cands, n + 1).assign[Target] = h.assign[Target]
<1>. DEFINE open == {s \in Slots \ DOMAIN h.assign : FirstFor(s, cands) # {}}
            assign == [s \in DOMAIN h.assign \union (open \ {Target}) |->
                         IF s \in DOMAIN h.assign THEN h.assign[s]
                         ELSE CHOOSE t \in FirstFor(s, cands) : TRUE]
            g == Advanced(h, status, cands, n + 1)
<1>1. \A s \in Slots : FirstFor(s, cands) \subseteq Texts
  <2>. SUFFICES ASSUME NEW s \in Slots, NEW x \in FirstFor(s, cands) PROVE x \in Texts
    OBVIOUS
  <2>. DEFINE I == {i \in DOMAIN cands : s \in SlotsOf(cands[i])}
  <2>1. I \in SUBSET Nat /\ I \in SUBSET (DOMAIN cands)
    OBVIOUS
  <2>2. FirstFor(s, cands) = FirstAt(cands, I)
    BY DEF FirstFor
  <2>. HIDE DEF I
  <2>3. PICK i \in I : x = cands[i]
    BY <2>1, <2>2, FirstAtOne
  <2>. QED  BY <2>1, <2>3
<1>2. PICK R \in SUBSET Slots : h.assign \in [R -> Texts]
  BY DEF TableHypOK, Partial
<1>3. /\ assign \in [R \union (open \ {Target}) -> Texts]
      /\ R \union (open \ {Target}) \in SUBSET Slots
  <2>1. ASSUME NEW s \in open PROVE (CHOOSE t \in FirstFor(s, cands) : TRUE) \in Texts
    <3>1. \E t : t \in FirstFor(s, cands)
      OBVIOUS
    <3>2. (CHOOSE t \in FirstFor(s, cands) : TRUE) \in FirstFor(s, cands)
      BY <3>1
    <3>. QED  BY <1>1, <3>2
  <2>. QED  BY <1>2, <2>1
<1>4. Target \in DOMAIN assign /\ assign[Target] = h.assign[Target]
  BY <1>2 DEF TableHypOK
<1>5. /\ DOMAIN g = {"assign", "con", "evidence", "idle", "active"}
      /\ g.assign = assign /\ g.evidence = h.evidence \union {n + 1} /\ g.active = h.active
  BY DEF Advanced, TableHypOK
<1>. HIDE DEF assign, open, g
<1>6. g.assign \in Partial(Slots, Texts)
  BY <1>3, <1>5, ZenonT(60) DEF Partial
<1>. QED  BY <1>4, <1>5, <1>6 DEF TableHypOK, g

(* A new hypothesis binds the target, and nothing else yet.                *)
LEMMA NewHypothesisOK ==
    ASSUME NEW n \in Nat, NEW x \in Texts
    PROVE  TableHypOK(NewHypothesis(x), n) /\ NewHypothesis(x).assign[Target] = x
<1>1. [s \in {Target} |-> x] \in [{Target} -> Texts] /\ {Target} \in SUBSET Slots
  BY DEF Slots
<1>. QED  BY <1>1 DEF NewHypothesis, TableHypOK, Partial

(* One call's evidence: the table stays in shape, and a constraint that    *)
(* becomes resolved is resolved by one of the readings.                    *)
LEMMA IngestOK ==
    ASSUME NEW n \in Nat, NEW t, TableOK(t, n), NEW seq, Readings(seq)
    PROVE  /\ TableOK(Ingest(t, seq), n + 1)
           /\ \A c \in Constraints :
                 \/ Ingest(t, seq).status[c] = t.status[c]
                 \/ /\ Ingest(t, seq).status[c] = "resolved"
                    /\ \E i \in DOMAIN seq : Resolves(c, seq[i])
<1>. DEFINE status == [c \in Constraints |->
                         IF t.status[c] # "contradicted"
                            /\ \E i \in DOMAIN seq : Resolves(c, seq[i])
                         THEN "resolved" ELSE t.status[c]]
            cands == t.cands \o Fresh(TextsOf(seq), ToSet(t.cands))
            named == {x \in ToSet(TextsOf(seq)) : Target \in SlotsOf(x)}
            hypFor(x) == {i \in DOMAIN t.hyps : t.hyps[i].assign[Target] = x}
            texts == Fresh(TextsOf(seq), {})
            free == {i \in DOMAIN texts : texts[i] \in named /\ hypFor(texts[i]) = {}}
            born == Picked(texts, free)
            old == [i \in DOMAIN t.hyps |->
                      IF t.hyps[i].assign[Target] \in named
                      THEN Advanced(t.hyps[i], status, cands, Len(t.evidence) + 1)
                      ELSE t.hyps[i]]
            new == [i \in DOMAIN born |->
                      Advanced(NewHypothesis(born[i]), status, cands, Len(t.evidence) + 1)]
            u == Ingest(t, seq)
<1>1. /\ DOMAIN u = {"status", "cands", "evidence", "hyps"}
      /\ u.status = status /\ u.cands = cands /\ u.hyps = old \o new
      /\ \E e : u.evidence = Append(t.evidence, e)
  BY DEF Ingest
<1>2. /\ IsList(TextsOf(seq)) /\ ToSet(TextsOf(seq)) \subseteq Texts /\ TextsOf(seq) \in Seq(Texts)
  BY TextLists
<1>3. cands \in Seq(Texts) /\ Unrepeated(cands)
  <2>1. Unrepeated(cands) /\ ToSet(cands) = ToSet(t.cands) \union ToSet(TextsOf(seq))
    BY <1>2, FreshAppended DEF TableOK
  <2>2. ToSet(t.cands) \subseteq Texts
    BY DEF TableOK, ToSet
  <2>3. ToSet(cands) \subseteq Texts
    BY <1>2, <2>1, <2>2
  <2>. HIDE DEF cands
  <2>4. cands \in Seq(ToSet(cands))
    BY <2>1 DEF Unrepeated, IsList
  <2>. QED  BY <2>1, <2>3, <2>4
<1>4. Unrepeated(texts) /\ ToSet(texts) \subseteq Texts
  BY <1>2, FreshLists
<1>5. status \in [Constraints -> Statuses]
  BY DEF TableOK, Statuses
<1>6. \A c \in Constraints :
         \/ status[c] = t.status[c]
         \/ status[c] = "resolved" /\ \E i \in DOMAIN seq : Resolves(c, seq[i])
  OBVIOUS
<1>7. free \in SUBSET (DOMAIN texts)
  OBVIOUS
<1>8. \A i \in free : texts[i] \in Texts /\ hypFor(texts[i]) = {}
  BY <1>4 DEF ToSet
<1>9. \A i, j \in free : texts[i] = texts[j] => i = j
  BY <1>4 DEF Unrepeated
<1>. HIDE DEF status, cands, texts, free, hypFor, named
<1>10. Unrepeated(born) /\ \A i \in DOMAIN born : born[i] \in Texts /\ hypFor(born[i]) = {}
  <2>1. IsList(texts)
    BY <1>4 DEF Unrepeated
  <2>2. Unrepeated(born) /\ \A k \in DOMAIN born : \E i \in free : born[k] = texts[i]
    BY <1>7, <1>9, <2>1, PickedLists
  <2>. HIDE DEF born
  <2>. QED  BY <1>8, <2>2
<1>. HIDE DEF born, u
<1>11. Len(t.evidence) = n /\ IsList(t.evidence) /\ IsList(t.hyps)
  BY DEF TableOK
<1>12. \A i \in DOMAIN old :
          TableHypOK(old[i], n + 1) /\ old[i].assign[Target] = t.hyps[i].assign[Target]
  <2>. SUFFICES ASSUME NEW i \in DOMAIN t.hyps
                PROVE  TableHypOK(old[i], n + 1) /\ old[i].assign[Target] = t.hyps[i].assign[Target]
    OBVIOUS
  <2>1. TableHypOK(t.hyps[i], n)
    BY DEF TableOK
  <2>2. TableHypOK(t.hyps[i], n + 1)
    BY <2>1 DEF TableHypOK
  <2>3. /\ TableHypOK(Advanced(t.hyps[i], status, cands, n + 1), n + 1)
        /\ Advanced(t.hyps[i], status, cands, n + 1).assign[Target] = t.hyps[i].assign[Target]
    BY <1>3, <2>1, AdvancedOK
  <2>. QED  BY <1>11, <2>2, <2>3
<1>13. \A i \in DOMAIN new : TableHypOK(new[i], n + 1) /\ new[i].assign[Target] = born[i]
  <2>. SUFFICES ASSUME NEW i \in DOMAIN born
                PROVE  TableHypOK(new[i], n + 1) /\ new[i].assign[Target] = born[i]
    OBVIOUS
  <2>1. TableHypOK(NewHypothesis(born[i]), n) /\ NewHypothesis(born[i]).assign[Target] = born[i]
    BY <1>10, NewHypothesisOK
  <2>2. /\ TableHypOK(Advanced(NewHypothesis(born[i]), status, cands, n + 1), n + 1)
        /\ Advanced(NewHypothesis(born[i]), status, cands, n + 1).assign[Target] = born[i]
    BY <1>3, <2>1, AdvancedOK
  <2>. QED  BY <1>11, <2>2
<1>14. IsList(old) /\ IsList(new) /\ DOMAIN old = DOMAIN t.hyps /\ DOMAIN new = DOMAIN born
  BY <1>10, <1>11, FunctionIsList DEF Unrepeated
<1>15. ASSUME NEW i \in DOMAIN old, NEW j \in DOMAIN new
       PROVE  old[i].assign[Target] # new[j].assign[Target]
  <2>1. i \notin hypFor(born[j]) /\ i \in DOMAIN t.hyps
    BY <1>10, <1>14
  <2>. QED  BY <1>12, <1>13, <2>1 DEF hypFor
<1>16. \A i, j \in DOMAIN old : old[i].assign[Target] = old[j].assign[Target] => i = j
  <2>. SUFFICES ASSUME NEW i \in DOMAIN old, NEW j \in DOMAIN old,
                       old[i].assign[Target] = old[j].assign[Target]
                PROVE  i = j
    OBVIOUS
  <2>1. /\ t.hyps[i].assign[Target] = t.hyps[j].assign[Target]
        /\ i \in DOMAIN t.hyps /\ j \in DOMAIN t.hyps
    BY <1>12, <1>14
  <2>. QED  BY <2>1 DEF TableOK
<1>17. \A i, j \in DOMAIN new : new[i].assign[Target] = new[j].assign[Target] => i = j
  BY <1>10, <1>13, <1>14 DEF Unrepeated
<1>. HIDE DEF old, new
<1>18. PICK hyps : hyps = old \o new
  OBVIOUS
<1>19. IsList(hyps)
  BY <1>14, <1>18, ConcatLists
<1>22. \A k \in DOMAIN hyps : \/ k \in DOMAIN old /\ hyps[k] = old[k]
                             \/ \E i \in DOMAIN new : k = Len(old) + i /\ hyps[k] = new[i]
  BY <1>14, <1>18, ConcatParts
<1>23. \A k \in DOMAIN hyps : TableHypOK(hyps[k], n + 1)
  BY <1>12, <1>13, <1>22
<1>24. ASSUME NEW i \in DOMAIN hyps, NEW j \in DOMAIN hyps,
              hyps[i].assign[Target] = hyps[j].assign[Target]
       PROVE  i = j
  BY <1>15, <1>16, <1>17, <1>22, <1>24
<1>25. IsList(u.evidence) /\ Len(u.evidence) = n + 1
  BY <1>1, <1>11, AppendLists
<1>26. TableOK(u, n + 1)
  BY <1>1, <1>3, <1>5, <1>18, <1>19, <1>23, <1>24, <1>25 DEF TableOK
<1>. QED  BY <1>1, <1>6, <1>26 DEF u

(* What rejects and what ages hypotheses leaves the rest of the table.     *)
LEMMA HypsTouchedOK ==
    ASSUME NEW n \in Nat, NEW t, TableOK(t, n), NEW hyps, DOMAIN hyps = DOMAIN t.hyps,
           hyps = [i \in DOMAIN hyps |-> hyps[i]],
           \A i \in DOMAIN t.hyps : /\ DOMAIN hyps[i] = DOMAIN t.hyps[i]
                                    /\ hyps[i].assign = t.hyps[i].assign
                                    /\ hyps[i].evidence = t.hyps[i].evidence
                                    /\ hyps[i].active \in BOOLEAN
    PROVE  TableOK([t EXCEPT !.hyps = hyps], n)
<1>. DEFINE u == [t EXCEPT !.hyps = hyps]
<1>1. /\ DOMAIN u = DOMAIN t /\ u.status = t.status /\ u.cands = t.cands
      /\ u.evidence = t.evidence /\ u.hyps = hyps
  BY DEF TableOK
<1>. HIDE DEF u
<1>2. IsList(hyps)
  BY FunctionIsList DEF TableOK
<1>3. \A i \in DOMAIN hyps : TableHypOK(hyps[i], n)
  BY DEF TableOK, TableHypOK
<1>4. \A i, j \in DOMAIN hyps : hyps[i].assign[Target] = hyps[j].assign[Target] => i = j
  BY DEF TableOK
<1>5. TableOK(u, n)
  BY <1>1, <1>2, <1>3, <1>4 DEF TableOK
<1>. QED  BY <1>5 DEF u

(* Setting contradicted hypotheses aside touches nothing else.             *)
LEMMA RejectContradictedOK ==
    ASSUME NEW n \in Nat, NEW t, TableOK(t, n)
    PROVE  /\ TableOK(RejectContradicted(t), n)
           /\ RejectContradicted(t).status = t.status /\ RejectContradicted(t).cands = t.cands
<1>. DEFINE refuted(h) == CountOf(h, "contradicted") > 0 /\ CountOf(h, "supported") = 0
            hyps == [i \in DOMAIN t.hyps |->
                       [t.hyps[i] EXCEPT !.active = t.hyps[i].active /\ ~refuted(t.hyps[i])]]
<1>1. RejectContradicted(t) = [t EXCEPT !.hyps = hyps]
  BY DEF RejectContradicted
<1>. HIDE DEF refuted
<1>2. \A i \in DOMAIN t.hyps : /\ DOMAIN hyps[i] = DOMAIN t.hyps[i]
                               /\ hyps[i].assign = t.hyps[i].assign
                               /\ hyps[i].evidence = t.hyps[i].evidence
                               /\ hyps[i].active \in BOOLEAN
  BY DEF TableOK, TableHypOK
<1>3. TableOK([t EXCEPT !.hyps = hyps], n)
  BY <1>2, HypsTouchedOK
<1>. QED  BY <1>1, <1>3 DEF TableOK

(* Counting a call that moved nothing touches the hypotheses alone.        *)
LEMMA NoteNoProgressOK ==
    ASSUME NEW n \in Nat, NEW t, TableOK(t, n)
    PROVE  /\ TableOK(NoteNoProgress(t), n)
           /\ NoteNoProgress(t).status = t.status /\ NoteNoProgress(t).cands = t.cands
<1>. DEFINE idle(h) == h.idle + 1
            hyps == [i \in DOMAIN t.hyps |->
                       IF i \notin Best(t) THEN t.hyps[i]
                       ELSE [t.hyps[i] EXCEPT !.idle = idle(t.hyps[i]),
                                              !.active = idle(t.hyps[i]) < MAX_NO_PROGRESS]]
<1>1. NoteNoProgress(t) = [t EXCEPT !.hyps = hyps]
  BY DEF NoteNoProgress
<1>. HIDE DEF idle
<1>2. \A i \in DOMAIN t.hyps : /\ DOMAIN hyps[i] = DOMAIN t.hyps[i]
                               /\ hyps[i].assign = t.hyps[i].assign
                               /\ hyps[i].evidence = t.hyps[i].evidence
                               /\ hyps[i].active \in BOOLEAN
  <2>. SUFFICES ASSUME NEW h, DOMAIN h = {"assign", "con", "evidence", "idle", "active"},
                       h.active \in BOOLEAN, NEW m, NEW test \in BOOLEAN
                PROVE  LET g == [h EXCEPT !.idle = m, !.active = test] IN
                       /\ DOMAIN g = DOMAIN h /\ g.assign = h.assign
                       /\ g.evidence = h.evidence /\ g.active \in BOOLEAN
    <3>1. \A i \in DOMAIN t.hyps :
             /\ DOMAIN t.hyps[i] = {"assign", "con", "evidence", "idle", "active"}
             /\ t.hyps[i].active \in BOOLEAN
      BY DEF TableOK, TableHypOK
    <3>2. \A i \in DOMAIN t.hyps : (idle(t.hyps[i]) < MAX_NO_PROGRESS) \in BOOLEAN
      OBVIOUS
    <3>. QED  BY <3>1, <3>2
  <2>. QED  OBVIOUS
<1>3. TableOK([t EXCEPT !.hyps = hyps], n)
  BY <1>2, HypsTouchedOK
<1>. QED  BY <1>1, <1>3 DEF TableOK

-----------------------------------------------------------------------------
(* The candidates. *)

\* What a candidate is before its status is judged.
Drafted(c, heard, shown, status, idles) ==
    /\ c \in Candidates /\ c.idle <= idles
    /\ \A con \in c.sup : \E x \in heard :
          c.text \in ToSet(x.texts) /\ con \in (x.terms \union x.corroborated) \ x.opposed
    /\ \A con \in c.con : \E x \in heard : c.text \in ToSet(x.texts) /\ con \in x.opposed
    /\ ToSet(c.urls) \subseteq shown \ Dirty
    /\ c.status = "rejected" => c.con # {} \/ c.idle = REJECT_NO_PROGRESS
    /\ c.status = "confirmed" => OpenBlocking(c.slot, status) \subseteq c.sup

\* All but the status of a candidate stays, and a rejected one stays rejected.
SameBut(c, b) ==
    /\ b.text = c.text /\ b.slot = c.slot /\ b.idle = c.idle /\ b.con = c.con
    /\ c.status = "rejected" => b.status = "rejected"

(* Judging a candidate: it is confirmed or rejected only for its reasons.  *)
LEMMA JudgedOK ==
    ASSUME NEW c, NEW heard, NEW shown, NEW status, NEW idles,
           Drafted(c, heard, shown, status, idles)
    PROVE  CandOK(Judged(c, status), heard, shown, status, idles) /\ SameBut(c, Judged(c, status))
<1>1. c \in Candidates
  BY DEF Drafted
<1>2. \A s \in {"active", "confirmed", "rejected"} :
         LET b == [c EXCEPT !.status = s] IN
         /\ b \in Candidates /\ b.text = c.text /\ b.slot = c.slot /\ b.idle = c.idle
         /\ b.sup = c.sup /\ b.con = c.con /\ b.urls = c.urls /\ b.status = s
  BY <1>1 DEF Candidates
<1>3. CASE c.status = "rejected"
  <2>1. Judged(c, status) = c
    BY <1>3 DEF Judged
  <2>. QED  BY <1>3, <2>1 DEF Drafted, CandOK, SameBut
<1>4. CASE c.status # "rejected" /\ (c.con # {} \/ (c.idle >= REJECT_NO_PROGRESS /\ c.sup = {}))
  <2>. DEFINE b == [c EXCEPT !.status = "rejected"]
  <2>1. Judged(c, status) = b
    BY <1>4 DEF Judged
  <2>2. /\ b \in Candidates /\ b.text = c.text /\ b.slot = c.slot /\ b.idle = c.idle
        /\ b.sup = c.sup /\ b.con = c.con /\ b.urls = c.urls /\ b.status = "rejected"
    BY <1>2
  <2>3. c.con # {} \/ c.idle = REJECT_NO_PROGRESS
    BY <1>1, <1>4 DEF Candidates, REJECT_NO_PROGRESS
  <2>. HIDE DEF b
  <2>4. CandOK(b, heard, shown, status, idles)
    BY <2>2, <2>3 DEF Drafted, CandOK
  <2>. QED  BY <2>1, <2>2, <2>4 DEF SameBut
<1>5. CASE /\ c.status # "rejected"
           /\ ~(c.con # {} \/ (c.idle >= REJECT_NO_PROGRESS /\ c.sup = {}))
           /\ Confirmable(c, status)
  <2>. DEFINE b == [c EXCEPT !.status = "confirmed"]
  <2>1. Judged(c, status) = b
    BY <1>5 DEF Judged
  <2>2. /\ b \in Candidates /\ b.text = c.text /\ b.slot = c.slot /\ b.idle = c.idle
        /\ b.sup = c.sup /\ b.con = c.con /\ b.urls = c.urls /\ b.status = "confirmed"
    BY <1>2
  <2>3. OpenBlocking(c.slot, status) \subseteq c.sup
    BY <1>5 DEF Confirmable, OpenBlocking
  <2>. HIDE DEF b
  <2>4. CandOK(b, heard, shown, status, idles)
    BY <2>2, <2>3 DEF Drafted, CandOK
  <2>. QED  BY <1>5, <2>1, <2>2, <2>4 DEF SameBut
<1>6. CASE /\ c.status # "rejected"
           /\ ~(c.con # {} \/ (c.idle >= REJECT_NO_PROGRESS /\ c.sup = {}))
           /\ ~Confirmable(c, status)
  <2>1. Judged(c, status) = c
    BY <1>6 DEF Judged
  <2>2. c.sup = {} => c.idle < REJECT_NO_PROGRESS
    BY <1>1, <1>6 DEF Candidates, REJECT_NO_PROGRESS
  <2>. QED  BY <2>1, <2>2 DEF Drafted, CandOK, SameBut
<1>. QED  BY <1>3, <1>4, <1>5, <1>6

(* A clean page that names the candidate adds what it supports of it.      *)
LEMMA AssignedOK ==
    ASSUME NEW c, NEW heard, NEW shown, NEW status, NEW idles,
           CandOK(c, heard, shown, status, idles),
           NEW p \in Pages, NEW x \in Contents, x \in heard, p \in shown, p \notin Dirty,
           c.text \in ToSet(x.texts), NEW d, d.cons \subseteq Constraints
    PROVE  LET b == Assigned(c, Reading(p, x), d, status) IN
           /\ CandOK(b, heard, shown, status, idles)
           /\ b.text = c.text /\ b.slot = c.slot /\ b.idle = c.idle
<1>. DEFINE r == Reading(p, x)
            sup == c.sup \union Supports(c.slot, r, d)
            con == c.con \union Opposes(c.slot, r, d)
            unknown == ConsFor(c.slot, d) \ (sup \union con)
            hosts == c.hosts \union {r.host}
            urls == IF Contains(c.urls, r.page) THEN c.urls ELSE Append(c.urls, r.page)
            valued == r.page \in HighValue
            e == [c EXCEPT !.sup = sup, !.con = con, !.unknown = unknown, !.hosts = hosts,
                           !.urls = urls, !.valued = valued]
<1>1. Assigned(c, r, d, status) = Judged(e, status)
  BY DEF Assigned
<1>2. r.page = p /\ r.host = HostOf[p] /\ r.content = x
  BY DEF Reading
<1>3. c \in Candidates
  BY DEF CandOK
<1>4. ConsFor(c.slot, d) \subseteq Constraints
  BY DEF ConsFor, ConstraintsOf
<1>5. /\ Supports(c.slot, r, d) \subseteq Constraints
      /\ Supports(c.slot, r, d) \subseteq (x.terms \union x.corroborated) \ x.opposed
      /\ Opposes(c.slot, r, d) \subseteq Constraints /\ Opposes(c.slot, r, d) \subseteq x.opposed
  BY <1>2, <1>4 DEF Supports, Opposes
<1>6. sup \in SUBSET Constraints /\ con \in SUBSET Constraints /\ unknown \in SUBSET Constraints
  BY <1>3, <1>4, <1>5 DEF Candidates
<1>7. hosts \in SUBSET {HostOf[q] : q \in Pages}
  BY <1>2, <1>3 DEF Candidates
<1>8. urls \in Seq(Pages) /\ ToSet(urls) \subseteq shown \ Dirty
  <2>1. c.urls \in Seq(Pages) /\ ToSet(c.urls) \subseteq shown \ Dirty
    BY <1>3 DEF Candidates, CandOK
  <2>2. IsList(c.urls)
    BY <2>1, SeqIsList
  <2>. PICK w : w = Append(c.urls, p)
    OBVIOUS
  <2>3. w \in Seq(Pages) /\ DOMAIN c.urls = 1..Len(c.urls) /\ DOMAIN w = 1..Len(c.urls) + 1
        /\ Len(c.urls) \in Nat /\ (\A i \in DOMAIN c.urls : w[i] = c.urls[i])
        /\ w[Len(c.urls) + 1] = p
    BY <2>1, <2>2, AppendLists
  <2>4. ToSet(w) \subseteq shown \ Dirty
    <3>. SUFFICES ASSUME NEW i \in DOMAIN w PROVE w[i] \in shown \ Dirty
      BY DEF ToSet
    <3>1. i \in DOMAIN c.urls \/ i = Len(c.urls) + 1
      BY <2>3
    <3>. QED  BY <2>1, <2>3, <3>1 DEF ToSet
  <2>. QED  BY <1>2, <2>1, <2>3, <2>4
<1>9. valued \in BOOLEAN
  OBVIOUS
<1>. HIDE DEF sup, con, unknown, hosts, urls, valued
<1>10. /\ e \in Candidates /\ e.text = c.text /\ e.slot = c.slot /\ e.idle = c.idle
       /\ e.status = c.status /\ e.sup = sup /\ e.con = con /\ e.urls = urls
  BY <1>3, <1>6, <1>7, <1>8, <1>9 DEF Candidates
<1>. HIDE DEF e
<1>11. \A k \in sup : \E y \in heard :
          c.text \in ToSet(y.texts) /\ k \in (y.terms \union y.corroborated) \ y.opposed
  BY <1>5 DEF CandOK, sup
<1>12. \A k \in con : \E y \in heard : c.text \in ToSet(y.texts) /\ k \in y.opposed
  BY <1>5 DEF CandOK, con
<1>13. c.sup \subseteq sup /\ (c.con # {} => con # {})
  BY DEF sup, con
<1>14. Drafted(e, heard, shown, status, idles)
  BY <1>8, <1>10, <1>11, <1>12, <1>13 DEF CandOK, Drafted
<1>15. CandOK(Judged(e, status), heard, shown, status, idles) /\ SameBut(e, Judged(e, status))
  BY <1>14, JudgedOK
<1>. QED  BY <1>1, <1>10, <1>15 DEF SameBut, r

(* A candidate as it is created.                                           *)
LEMMA NewCandidateOK ==
    ASSUME NEW text \in Texts, NEW slot \in Slots, NEW heard, NEW shown, NEW status,
           NEW idles \in Nat
    PROVE  CandOK(NewCandidate(text, slot), heard, shown, status, idles)
<1>. DEFINE c == NewCandidate(text, slot)
<1>1. <<>> \in Seq(Pages) /\ ToSet(<<>>) = {}
  BY DEF ToSet
<1>2. /\ c \in Candidates /\ c.sup = {} /\ c.con = {} /\ c.idle = 0 /\ c.urls = <<>>
      /\ c.status = "active"
  BY <1>1 DEF NewCandidate, Candidates, REJECT_NO_PROGRESS
<1>. HIDE DEF c
<1>3. CandOK(c, heard, shown, status, idles)
  BY <1>1, <1>2 DEF CandOK, REJECT_NO_PROGRESS
<1>. QED  BY <1>3 DEF c

(* The slots of the frame, in order.                                       *)
LEMMA SlotLists == IsList(SlotOrder) /\ ToSet(SlotOrder) = Slots
<1>1. IsList(Latent)
  BY FrameAssumption, SeqIsList
<1>2. IsList(<<Target>>) /\ ToSet(<<Target>>) = {Target}
  BY DEF IsList, ToSet
<1>3. IsList(SlotOrder) /\ ToSet(SlotOrder) = ToSet(<<Target>>) \union ToSet(Latent)
  BY <1>1, <1>2, ConcatSets DEF SlotOrder
<1>. QED  BY <1>2, <1>3 DEF Slots

\* The candidates of a list are found again in another, maybe with more said of them.
Kept(cands, later) ==
    \A i \in DOMAIN cands : /\ i \in DOMAIN later
                            /\ later[i].text = cands[i].text /\ later[i].slot = cands[i].slot

(* One reading: the candidates it asserts are served, the new ones added.  *)
LEMMA AttachedOK ==
    ASSUME NEW cands, NEW heard, NEW shown, NEW status, NEW idles \in Nat,
           CandsOK(cands, heard, shown, status, idles),
           NEW p \in Pages, NEW x \in Contents, p \notin Dirty => x \in heard /\ p \in shown,
           NEW d, d.cons \subseteq Constraints
    PROVE  LET later == Attached(cands, Reading(p, x), d, status) IN
           CandsOK(later, heard, shown, status, idles) /\ Kept(cands, later)
<1>. DEFINE r == Reading(p, x)
            all == [i \in DOMAIN x.texts |->
                      [j \in DOMAIN SlotOrder |-> NewCandidate(x.texts[i], SlotOrder[j])]]
            new == Fresh(FlattenSeq(all), {})
            free == {n \in DOMAIN new :
                       /\ Asserted(new[n].text, new[n].slot, r, d)
                       /\ \A i \in DOMAIN cands :
                             cands[i].text # new[n].text \/ cands[i].slot # new[n].slot}
            born == Picked(new, free)
            old == [i \in DOMAIN cands |->
                      IF Asserted(cands[i].text, cands[i].slot, r, d)
                      THEN Assigned(cands[i], r, d, status) ELSE cands[i]]
            added == [i \in DOMAIN born |-> Assigned(born[i], r, d, status)]
            later == Attached(cands, r, d, status)
<1>1. r.content = x /\ r.page = p /\ r.dirty = (p \in Dirty)
  BY DEF Reading
<1>2. later = old \o added
  BY <1>1 DEF Attached
<1>3. IsList(x.texts) /\ ToSet(x.texts) \subseteq Texts
  <2>1. x.texts \in Seq(Texts)
    BY DEF Contents
  <2>2. IsList(x.texts)
    BY <2>1, SeqIsList
  <2>. QED  BY <2>1, <2>2 DEF ToSet
<1>4. /\ IsList(all) /\ DOMAIN all = DOMAIN x.texts
      /\ \A i \in DOMAIN all : IsList(all[i]) /\ DOMAIN all[i] = DOMAIN SlotOrder
  <2>1. IsList(all) /\ DOMAIN all = DOMAIN x.texts
    BY <1>3, FunctionIsList
  <2>2. ASSUME NEW i \in DOMAIN all PROVE IsList(all[i]) /\ DOMAIN all[i] = DOMAIN SlotOrder
    BY SlotLists, FunctionIsList
  <2>. QED  BY <2>1, <2>2
<1>5. \A i \in DOMAIN all : \A j \in DOMAIN all[i] : \E text \in ToSet(x.texts), slot \in Slots :
          all[i][j] = NewCandidate(text, slot)
  <2>. SUFFICES ASSUME NEW i \in DOMAIN x.texts, NEW j \in DOMAIN SlotOrder
                PROVE  x.texts[i] \in ToSet(x.texts) /\ SlotOrder[j] \in Slots
    OBVIOUS
  <2>1. SlotOrder[j] \in ToSet(SlotOrder)
    BY DEF ToSet
  <2>. QED  BY <2>1, SlotLists DEF ToSet
<1>. HIDE DEF all
<1>6. /\ IsList(FlattenSeq(all))
      /\ ToSet(FlattenSeq(all)) = UNION {ToSet(all[i]) : i \in DOMAIN all}
  BY <1>4, FlattenLists
<1>7. \A c \in ToSet(FlattenSeq(all)) : \E text \in ToSet(x.texts), slot \in Slots :
         c = NewCandidate(text, slot)
  BY <1>5, <1>6 DEF ToSet
<1>8. Unrepeated(new) /\ IsList(new) /\ ToSet(new) = ToSet(FlattenSeq(all))
  BY <1>6, FreshLists
<1>9. free \in SUBSET (DOMAIN new)
  OBVIOUS
<1>. HIDE DEF new
<1>10. \A n \in DOMAIN new : \E text \in ToSet(x.texts), slot \in Slots :
         new[n] = NewCandidate(text, slot)
  BY <1>7, <1>8 DEF ToSet
<1>11. /\ IsList(born) /\ Unrepeated(born)
       /\ \A k \in DOMAIN born : \E n \in free : born[k] = new[n]
  BY <1>8, <1>9, PickedLists DEF Unrepeated
<1>12. \A k \in DOMAIN born :
          /\ \E text \in ToSet(x.texts), slot \in Slots : born[k] = NewCandidate(text, slot)
          /\ Asserted(born[k].text, born[k].slot, r, d)
          /\ \A i \in DOMAIN cands :
                cands[i].text # born[k].text \/ cands[i].slot # born[k].slot
  BY <1>10, <1>11
<1>. HIDE DEF born, free
<1>13. ASSUME NEW c, CandOK(c, heard, shown, status, idles), Asserted(c.text, c.slot, r, d)
       PROVE  /\ CandOK(Assigned(c, r, d, status), heard, shown, status, idles)
              /\ Assigned(c, r, d, status).text = c.text
              /\ Assigned(c, r, d, status).slot = c.slot
  <2>1. p \notin Dirty /\ c.text \in ToSet(x.texts)
    BY <1>1, <1>13 DEF Asserted
  <2>2. x \in heard /\ p \in shown
    BY <2>1
  <2>. HIDE DEF r
  <2>. PICK b : b = Assigned(c, r, d, status)
    OBVIOUS
  <2>3. CandOK(b, heard, shown, status, idles) /\ b.text = c.text /\ b.slot = c.slot
    BY <1>13, <2>1, <2>2, AssignedOK DEF r
  <2>. QED  BY <2>3
<1>14. \A i \in DOMAIN old : /\ CandOK(old[i], heard, shown, status, idles)
                             /\ old[i].text = cands[i].text /\ old[i].slot = cands[i].slot
  <2>. SUFFICES ASSUME NEW i \in DOMAIN cands
                PROVE  /\ CandOK(old[i], heard, shown, status, idles)
                       /\ old[i].text = cands[i].text /\ old[i].slot = cands[i].slot
    OBVIOUS
  <2>1. CandOK(cands[i], heard, shown, status, idles)
    BY DEF CandsOK
  <2>2. CASE Asserted(cands[i].text, cands[i].slot, r, d)
    <3>1. old[i] = Assigned(cands[i], r, d, status)
      BY <2>2
    <3>. QED  BY <1>13, <2>1, <2>2, <3>1
  <2>3. CASE ~Asserted(cands[i].text, cands[i].slot, r, d)
    <3>1. old[i] = cands[i]
      BY <2>3
    <3>. QED  BY <2>1, <3>1
  <2>. QED  BY <2>2, <2>3
<1>15. \A i \in DOMAIN added : /\ CandOK(added[i], heard, shown, status, idles)
                               /\ added[i].text = born[i].text /\ added[i].slot = born[i].slot
  <2>. SUFFICES ASSUME NEW i \in DOMAIN born
                PROVE  /\ CandOK(added[i], heard, shown, status, idles)
                       /\ added[i].text = born[i].text /\ added[i].slot = born[i].slot
    OBVIOUS
  <2>1. CandOK(born[i], heard, shown, status, idles)
    BY <1>3, <1>12, NewCandidateOK
  <2>2. added[i] = Assigned(born[i], r, d, status)
    OBVIOUS
  <2>. QED  BY <1>12, <1>13, <2>1, <2>2
<1>16. IsList(old) /\ IsList(added) /\ DOMAIN old = DOMAIN cands /\ DOMAIN added = DOMAIN born
  BY <1>11, FunctionIsList DEF CandsOK
<1>. HIDE DEF old, added, later
<1>17. \A i, j \in DOMAIN old : old[i].text = old[j].text /\ old[i].slot = old[j].slot => i = j
  BY <1>14, <1>16 DEF CandsOK
<1>18. \A i, j \in DOMAIN added :
          added[i].text = added[j].text /\ added[i].slot = added[j].slot => i = j
  <2>. SUFFICES ASSUME NEW i \in DOMAIN born, NEW j \in DOMAIN born,
                       born[i].text = born[j].text /\ born[i].slot = born[j].slot
                PROVE  i = j
    BY <1>15, <1>16
  <2>1. PICK a, s : born[i] = NewCandidate(a, s)
    BY <1>12
  <2>2. PICK b, t : born[j] = NewCandidate(b, t)
    BY <1>12
  <2>3. a = b /\ s = t
    BY <2>1, <2>2 DEF NewCandidate
  <2>. QED  BY <1>11, <2>1, <2>2, <2>3 DEF Unrepeated
<1>19. \A i \in DOMAIN old, j \in DOMAIN added :
          old[i].text # added[j].text \/ old[i].slot # added[j].slot
  BY <1>12, <1>14, <1>15, <1>16
<1>20. IsList(later) /\ \A i \in DOMAIN old : i \in DOMAIN later /\ later[i] = old[i]
  BY <1>2, <1>16, ConcatLists, ConcatParts
<1>23. \A k \in DOMAIN later :
          \/ k \in DOMAIN old /\ later[k] = old[k]
          \/ \E i \in DOMAIN added : k = Len(old) + i /\ later[k] = added[i]
  BY <1>2, <1>16, ConcatParts
<1>24. \A k \in DOMAIN later : CandOK(later[k], heard, shown, status, idles)
  BY <1>14, <1>15, <1>23
<1>25. \A i, j \in DOMAIN later :
          later[i].text = later[j].text /\ later[i].slot = later[j].slot => i = j
  BY <1>17, <1>18, <1>19, <1>23
<1>26. CandsOK(later, heard, shown, status, idles)
  BY <1>20, <1>24, <1>25 DEF CandsOK
<1>27. Kept(cands, later)
  BY <1>14, <1>16, <1>20 DEF Kept
<1>. QED  BY <1>26, <1>27 DEF later, r

\* The readings of a call, given what is heard and shown once it is made.
Given(seq, heard, shown) ==
    /\ IsList(seq)
    /\ \A i \in DOMAIN seq : \E p \in Pages, x \in Contents :
          /\ seq[i] = Reading(p, x)
                  /\ (p \notin Dirty => x \in heard /\ p \in shown)

(* All the readings of a call, one after the other.                        *)
LEMMA AttachedAllOK ==
    ASSUME NEW first, NEW heard, NEW shown, NEW status, NEW idles \in Nat,
           CandsOK(first, heard, shown, status, idles),
           NEW seq, Given(seq, heard, shown), NEW d, d.cons \subseteq Constraints,
           NEW after, after = CHOOSE g : g = [n \in 0..Len(seq) |->
               IF n = 0 THEN first ELSE Attached(g[n - 1], seq[n], d, status)]
    PROVE  /\ CandsOK(after[Len(seq)], heard, shown, status, idles)
           /\ Kept(first, after[Len(seq)])
<1>. DEFINE L == Len(seq)
            Folding(g) == [n \in 0..L |->
               IF n = 0 THEN first ELSE Attached(g[n - 1], seq[n], d, status)]
            Upto(g, m) == /\ DOMAIN g = 0..m /\ g = [n \in DOMAIN g |-> g[n]] /\ g[0] = first
                          /\ \A n \in 1..m : g[n] = Attached(g[n - 1], seq[n], d, status)
            Fine(cands) == CandsOK(cands, heard, shown, status, idles) /\ Kept(first, cands)
            T == {m \in Nat : m <= L => \E g : Upto(g, m)}
<1>1. DOMAIN seq = 1..L /\ L \in Nat
  BY DEF Given, IsList
<1>. HIDE DEF L, Upto, Fine
<1>2. 0 \in T
  <2>1. Upto([n \in 0..0 |-> first], 0)
    BY DEF Upto
  <2>. QED  BY <2>1
<1>3. ASSUME NEW m \in Nat, m \in T PROVE m + 1 \in T
  <2>. SUFFICES ASSUME m + 1 <= L PROVE \E g : Upto(g, m + 1)
    OBVIOUS
  <2>0. m <= L
    BY <1>1
  <2>1. PICK g : Upto(g, m)
    BY <1>3, <2>0
  <2>. DEFINE h == [n \in 0..m + 1 |->
                      IF n = m + 1 THEN Attached(g[m], seq[m + 1], d, status) ELSE g[n]]
  <2>2. DOMAIN h = 0..m + 1 /\ h = [n \in DOMAIN h |-> h[n]] /\ h[0] = first
    BY <2>1 DEF Upto
  <2>3. ASSUME NEW n \in 1..m + 1 PROVE h[n] = Attached(h[n - 1], seq[n], d, status)
    <3>1. CASE n = m + 1
      <4>1. n - 1 = m /\ h[m] = g[m]
        BY <3>1
      <4>2. h[n] = Attached(g[m], seq[m + 1], d, status)
        BY <3>1
      <4>. HIDE DEF h
      <4>. QED  BY <3>1, <4>1, <4>2
    <3>2. CASE n \in 1..m
      <4>1. n - 1 \in 0..m /\ h[n - 1] = g[n - 1] /\ h[n] = g[n]
        BY <3>2
      <4>2. g[n] = Attached(g[n - 1], seq[n], d, status)
        BY <2>1, <3>2 DEF Upto
      <4>. HIDE DEF h
      <4>. QED  BY <4>1, <4>2
    <3>. QED  BY <3>1, <3>2
  <2>. HIDE DEF h
  <2>4. Upto(h, m + 1)
    BY <2>2, <2>3 DEF Upto
  <2>. QED  BY <2>4
<1>. HIDE DEF T
<1>4. PICK g : Upto(g, L)
  <2>1. L \in T
    BY <1>1, <1>2, <1>3, Induct
  <2>. QED  BY <1>1, <2>1 DEF T
<1>5. g = Folding(g)
  <2>1. ASSUME NEW n \in 0..L
        PROVE  g[n] = IF n = 0 THEN first ELSE Attached(g[n - 1], seq[n], d, status)
    <3>1. CASE n = 0
      BY <1>4, <3>1 DEF Upto
    <3>2. CASE n \in 1..L
      BY <1>4, <3>2 DEF Upto
    <3>. QED  BY <1>1, <3>1, <3>2
  <2>2. DOMAIN g = 0..L /\ g = [n \in DOMAIN g |-> g[n]]
    BY <1>4 DEF Upto
  <2>. QED  BY <2>1, <2>2
<1>6. after = CHOOSE f : f = Folding(f)
  BY DEF L
<1>7. after = Folding(after)
  <2>1. \E f : f = Folding(f)
    BY <1>5
  <2>. HIDE DEF Folding
  <2>. QED  BY <1>6, <2>1
<1>8. after[0] = first
  <2>1. 0 \in 0..L
    BY <1>1
  <2>2. PICK g1 : g1 = after
    OBVIOUS
  <2>3. g1 = Folding(g1)
    BY <1>7, <2>2
  <2>4. g1[0] = first
    BY <2>1, <2>3
  <2>. QED  BY <2>2, <2>4
<1>9. \A n \in 1..L : after[n] = Attached(after[n - 1], seq[n], d, status)
  <2>. SUFFICES ASSUME NEW n \in 1..L PROVE after[n] = Attached(after[n - 1], seq[n], d, status)
    OBVIOUS
  <2>1. n \in 0..L /\ n # 0
    BY <1>1
  <2>. QED  BY <1>7, <2>1
<1>. HIDE DEF Folding
<1>. DEFINE U == {m \in Nat : m <= L => Fine(after[m])}
<1>10. 0 \in U
  <2>1. Fine(first)
    BY DEF Fine, Kept
  <2>. QED  BY <1>8, <2>1
<1>11. ASSUME NEW m \in Nat, m \in U PROVE m + 1 \in U
  <2>. SUFFICES ASSUME m + 1 <= L PROVE Fine(after[m + 1])
    OBVIOUS
  <2>1. Fine(after[m]) /\ m + 1 \in 1..L
    BY <1>1, <1>11
  <2>2. after[m + 1] = Attached(after[m], seq[m + 1], d, status)
    <3>1. (m + 1) - 1 = m
      OBVIOUS
    <3>2. after[m + 1] = Attached(after[(m + 1) - 1], seq[m + 1], d, status)
      BY <1>9, <2>1
    <3>. QED  BY <3>1, <3>2
  <2>3. PICK p \in Pages, x \in Contents :
            seq[m + 1] = Reading(p, x) /\ (p \notin Dirty => x \in heard /\ p \in shown)
    BY <1>1, <2>1 DEF Given
  <2>. PICK now, next : now = after[m] /\ next = after[m + 1]
    OBVIOUS
  <2>4. next = Attached(now, Reading(p, x), d, status)
    BY <2>2, <2>3
  <2>5. CandsOK(now, heard, shown, status, idles) /\ Kept(first, now)
    BY <2>1 DEF Fine
  <2>6. CandsOK(next, heard, shown, status, idles) /\ Kept(now, next)
    BY <2>3, <2>4, <2>5, AttachedOK
  <2>7. Kept(first, next)
    BY <2>5, <2>6 DEF Kept
  <2>. QED  BY <2>6, <2>7 DEF Fine
<1>. HIDE DEF U
<1>12. L \in U
  BY <1>1, <1>10, <1>11, Induct
<1>. QED  BY <1>1, <1>12 DEF U, L, Fine

(* What was observed, shown, resolved and counted only grows.              *)
LEMMA CandsGrow ==
    ASSUME NEW cands, NEW heard, NEW shown, NEW status, NEW idles \in Nat,
           CandsOK(cands, heard, shown, status, idles),
           NEW heard2, heard \subseteq heard2, NEW shown2, shown \subseteq shown2,
           NEW status2, \A c \in Constraints : status[c] = "resolved" => status2[c] = "resolved",
           NEW idles2 \in Nat, idles <= idles2
    PROVE  CandsOK(cands, heard2, shown2, status2, idles2)
<1>. SUFFICES ASSUME NEW c, CandOK(c, heard, shown, status, idles)
              PROVE  CandOK(c, heard2, shown2, status2, idles2)
  BY DEF CandsOK
<1>1. c \in Candidates /\ c.idle <= idles2
  <2>1. c \in Candidates /\ c.idle \in Nat /\ c.idle <= idles
    BY DEF CandOK, Candidates
  <2>. QED  BY <2>1
<1>2. OpenBlocking(c.slot, status2) \subseteq OpenBlocking(c.slot, status)
  BY DEF OpenBlocking, ConstraintsOf
<1>3. /\ \A con \in c.sup : \E x \in heard2 :
            c.text \in ToSet(x.texts) /\ con \in (x.terms \union x.corroborated) \ x.opposed
      /\ \A con \in c.con : \E x \in heard2 : c.text \in ToSet(x.texts) /\ con \in x.opposed
  BY DEF CandOK
<1>4. ToSet(c.urls) \subseteq shown2 \ Dirty
  BY DEF CandOK
<1>. QED  BY <1>1, <1>2, <1>3, <1>4 DEF CandOK

(* Recomputing a hypothesis: it keeps its target, and takes the contra-    *)
(* dictions of what it assigns now.                                        *)
LEMMA RecomputedOK ==
    ASSUME NEW h, NEW cands, Target \in DOMAIN h.assign,
           \A s \in DOMAIN h.assign : h.assign[s] \in DOMAIN cands,
           cands[h.assign[Target]].slot = Target
    PROVE  /\ HypOK(Recomputed(h, cands), cands)
           /\ Recomputed(h, cands).assign[Target] = h.assign[Target]
<1>. DEFINE assign == [s \in DOMAIN h.assign \union
                               {s \in Slots \ {Target} : BestCandidate(cands, s) # {}} |->
                         IF s # Target /\ BestCandidate(cands, s) # {}
                         THEN CHOOSE i \in BestCandidate(cands, s) : TRUE
                         ELSE h.assign[s]]
            g == Recomputed(h, cands)
<1>1. /\ g.assign = assign
      /\ g.con = UNION {cands[i].con : i \in {assign[s] : s \in DOMAIN assign}}
  BY DEF Recomputed
<1>. HIDE DEF g
<1>2. Target \in DOMAIN assign /\ assign[Target] = h.assign[Target]
  OBVIOUS
<1>3. ASSUME NEW s \in DOMAIN assign PROVE assign[s] \in DOMAIN cands
  <2>1. CASE s # Target /\ BestCandidate(cands, s) # {}
    <3>1. \E i : i \in BestCandidate(cands, s)
      BY <2>1
    <3>2. (CHOOSE i \in BestCandidate(cands, s) : TRUE) \in BestCandidate(cands, s)
      BY <3>1
    <3>3. BestCandidate(cands, s) \subseteq DOMAIN cands
      BY DEF BestCandidate
    <3>4. assign[s] = CHOOSE i \in BestCandidate(cands, s) : TRUE
      BY <2>1
    <3>. HIDE DEF assign
    <3>. QED  BY <3>2, <3>3, <3>4
  <2>2. CASE ~(s # Target /\ BestCandidate(cands, s) # {})
    <3>1. s \in DOMAIN h.assign /\ assign[s] = h.assign[s]
      BY <2>2
    <3>. QED  BY <3>1
  <2>. QED  BY <2>1, <2>2
<1>. HIDE DEF assign
<1>4. g.con = UNION {cands[g.assign[s]].con : s \in DOMAIN g.assign}
  BY <1>1
<1>. QED  BY <1>1, <1>2, <1>3, <1>4 DEF HypOK, g

(* Every live target candidate has its hypothesis, recomputed; that of a   *)
(* rejected one is left as it was.                                         *)
LEMMA AdvanceHypothesesOK ==
    ASSUME NEW hyps, NEW first, HypsOK(hyps, first), NEW cands, IsList(cands), Kept(first, cands)
    PROVE  HypsOK(AdvanceHypotheses(hyps, cands), cands)
<1>. DEFINE known == {hyps[k].assign[Target] : k \in DOMAIN hyps}
            free == {i \in DOMAIN cands : cands[i].slot = Target /\ Live(cands[i])
                                          /\ i \notin known}
            born == Ascending(free)
            old == [k \in DOMAIN hyps |->
                      IF Live(cands[hyps[k].assign[Target]])
                      THEN Recomputed(hyps[k], cands) ELSE hyps[k]]
            new == [k \in DOMAIN born |->
                      Recomputed([assign |-> [s \in {Target} |-> born[k]], active |-> TRUE], cands)]
<1>1. AdvanceHypotheses(hyps, cands) = old \o new
  BY DEF AdvanceHypotheses
<1>2. DOMAIN cands = 1..Len(cands) /\ Len(cands) \in Nat
  BY DEF IsList
<1>3. born \in Seq(free)
  <2>1. free \in SUBSET (1..Len(cands))
    BY <1>2
  <2>2. free \in SUBSET Nat /\ IsFiniteSet(free)
    BY <1>2, <2>1, NumbersFinite
  <2>. HIDE DEF free
  <2>. QED  BY <2>2, AscendingLists
<1>4. \A i \in free : i \in DOMAIN cands /\ cands[i].slot = Target
  OBVIOUS
<1>. HIDE DEF free, born
<1>5. ASSUME NEW k \in DOMAIN hyps PROVE HypOK(old[k], cands)
  <2>1. HypOK(hyps[k], first)
    BY DEF HypsOK
  <2>2. /\ Target \in DOMAIN hyps[k].assign
        /\ \A s \in DOMAIN hyps[k].assign : hyps[k].assign[s] \in DOMAIN cands
        /\ cands[hyps[k].assign[Target]].slot = Target
    BY <2>1 DEF HypOK, Kept
  <2>3. CASE Live(cands[hyps[k].assign[Target]])
    <3>1. old[k] = Recomputed(hyps[k], cands)
      BY <2>3
    <3>. HIDE DEF old
    <3>. QED  BY <2>2, <3>1, RecomputedOK
  <2>4. CASE ~Live(cands[hyps[k].assign[Target]])
    <3>1. old[k] = hyps[k]
      BY <2>4
    <3>. HIDE DEF old
    <3>. QED  BY <2>2, <2>4, <3>1 DEF HypOK
  <2>. QED  BY <2>3, <2>4
<1>6. ASSUME NEW k \in DOMAIN born PROVE HypOK(new[k], cands)
  <2>. DEFINE h == [assign |-> [s \in {Target} |-> born[k]], active |-> TRUE]
  <2>1. born[k] \in DOMAIN cands /\ cands[born[k]].slot = Target
    BY <1>3, <1>4
  <2>2. /\ Target \in DOMAIN h.assign /\ h.assign[Target] = born[k]
        /\ \A s \in DOMAIN h.assign : h.assign[s] \in DOMAIN cands
    BY <2>1
  <2>3. new[k] = Recomputed(h, cands)
    OBVIOUS
  <2>. HIDE DEF h, new
  <2>. QED  BY <2>1, <2>2, <2>3, RecomputedOK
<1>7. IsList(born) /\ IsList(hyps)
  BY <1>3, SeqIsList DEF HypsOK
<1>8. IsList(old) /\ IsList(new) /\ DOMAIN old = DOMAIN hyps /\ DOMAIN new = DOMAIN born
  BY <1>7, FunctionIsList
<1>. HIDE DEF old, new
<1>9. PICK all : all = old \o new
  OBVIOUS
<1>10. IsList(all)
  BY <1>8, <1>9, ConcatLists
<1>11. \A k \in DOMAIN all : \/ k \in DOMAIN old /\ all[k] = old[k]
                            \/ \E i \in DOMAIN new : k = Len(old) + i /\ all[k] = new[i]
  BY <1>8, <1>9, ConcatParts
<1>12. \A k \in DOMAIN all : HypOK(all[k], cands)
  BY <1>5, <1>6, <1>8, <1>11
<1>. QED  BY <1>1, <1>9, <1>10, <1>12 DEF HypsOK

\* A frontier after n calls.
FrontierOK(f, heard, shown, status, idles, n) ==
    /\ DOMAIN f = {"cands", "hyps", "streak"}
    /\ CandsOK(f.cands, heard, shown, status, idles)
    /\ HypsOK(f.hyps, f.cands)
    /\ f.streak \in [Slots -> 0..n]

(* The whole call.                                                         *)
LEMMA FoldInOK ==
    ASSUME NEW f, NEW heard, NEW shown, NEW status, NEW idles \in Nat, NEW n \in Nat,
           FrontierOK(f, heard, shown, status, idles, n),
           NEW seq, Given(seq, heard, shown), NEW d, d.cons \subseteq Constraints, NEW read
    PROVE  FrontierOK(FoldIn(f, seq, d, read, status), heard, shown, status, idles, n + 1)
<1>. DEFINE after == CHOOSE g : g = [m \in 0..Len(seq) |->
                       IF m = 0 THEN f.cands ELSE Attached(g[m - 1], seq[m], d, status)]
            cands == after[Len(seq)]
            hyps == AdvanceHypotheses(f.hyps, cands)
            g == [f EXCEPT !.cands = cands, !.hyps = hyps]
            streak == [s \in Slots |->
                         IF s # d.slot THEN f.streak[s]
                         ELSE IF read \/ Gained(f, g, d) THEN 0 ELSE f.streak[s] + 1]
            e == FoldIn(f, seq, d, read, status)
<1>1. e = [g EXCEPT !.streak = streak]
  BY DEF FoldIn
<1>2. CandsOK(f.cands, heard, shown, status, idles) /\ HypsOK(f.hyps, f.cands)
  BY DEF FrontierOK
<1>3. CandsOK(cands, heard, shown, status, idles) /\ Kept(f.cands, cands)
  <2>. PICK b, first : b = after /\ first = f.cands
    OBVIOUS
  <2>1. CandsOK(b[Len(seq)], heard, shown, status, idles) /\ Kept(first, b[Len(seq)])
    BY <1>2, AttachedAllOK
  <2>. QED  BY <2>1
<1>. HIDE DEF cands
<1>4. HypsOK(hyps, cands)
  BY <1>2, <1>3, AdvanceHypothesesOK DEF CandsOK
<1>. HIDE DEF hyps
<1>5. streak \in [Slots -> 0..n + 1]
  BY DEF FrontierOK
<1>. HIDE DEF streak
<1>6. /\ DOMAIN e = {"cands", "hyps", "streak"}
      /\ e.cands = cands /\ e.hyps = hyps /\ e.streak = streak
  BY <1>1 DEF FrontierOK
<1>. HIDE DEF e
<1>7. FrontierOK(e, heard, shown, status, idles, n + 1)
  BY <1>3, <1>4, <1>5, <1>6 DEF FrontierOK
<1>. QED  BY <1>7 DEF e

(* A call that moved nothing ages the candidates it finds idle.            *)
LEMMA NoteIdleOK ==
    ASSUME NEW f, NEW heard, NEW shown, NEW status, NEW idles \in Nat, NEW n \in Nat,
           FrontierOK(f, heard, shown, status, idles, n)
    PROVE  FrontierOK(NoteIdle(f, status), heard, shown, status, idles + 1, n)
<1>. DEFINE idler(c) == IF c.status = "active" /\ c.sup = {}
                        THEN Judged([c EXCEPT !.idle = c.idle + 1], status) ELSE c
            cands == [i \in DOMAIN f.cands |-> idler(f.cands[i])]
            e == NoteIdle(f, status)
<1>1. e = [f EXCEPT !.cands = cands]
  BY DEF NoteIdle
<1>2. CandsOK(f.cands, heard, shown, status, idles) /\ HypsOK(f.hyps, f.cands)
  BY DEF FrontierOK
<1>3. ASSUME NEW c, CandOK(c, heard, shown, status, idles)
      PROVE  /\ CandOK(idler(c), heard, shown, status, idles + 1)
             /\ idler(c).text = c.text /\ idler(c).slot = c.slot /\ idler(c).con = c.con
             /\ c.status = "rejected" => idler(c).status = "rejected"
  <2>1. CASE c.status = "active" /\ c.sup = {}
    <3>. DEFINE b == [c EXCEPT !.idle = c.idle + 1]
    <3>1. c \in Candidates /\ c.idle <= idles /\ c.idle < REJECT_NO_PROGRESS
      BY <1>3, <2>1 DEF CandOK
    <3>2. c.idle + 1 \in 0..REJECT_NO_PROGRESS /\ c.idle + 1 <= idles + 1
      BY <3>1 DEF Candidates, REJECT_NO_PROGRESS
    <3>3. /\ b \in Candidates /\ b.text = c.text /\ b.slot = c.slot /\ b.idle = c.idle + 1
          /\ b.sup = c.sup /\ b.con = c.con /\ b.urls = c.urls /\ b.status = c.status
      BY <3>1, <3>2 DEF Candidates
    <3>. HIDE DEF b
    <3>4. Drafted(b, heard, shown, status, idles + 1)
      BY <1>3, <2>1, <3>2, <3>3 DEF CandOK, Drafted
    <3>5. /\ CandOK(Judged(b, status), heard, shown, status, idles + 1)
          /\ SameBut(b, Judged(b, status))
      BY <3>4, JudgedOK
    <3>6. idler(c) = Judged(b, status)
      BY <2>1 DEF b
    <3>. HIDE DEF idler
    <3>. QED  BY <2>1, <3>3, <3>5, <3>6 DEF SameBut
  <2>2. CASE ~(c.status = "active" /\ c.sup = {})
    <3>1. idler(c) = c
      BY <2>2
    <3>2. c.idle <= idles + 1
      BY <1>3 DEF CandOK, Candidates
    <3>. HIDE DEF idler
    <3>. QED  BY <1>3, <3>1, <3>2 DEF CandOK
  <2>. QED  BY <2>1, <2>2
<1>4. ASSUME NEW i \in DOMAIN f.cands
      PROVE  /\ CandOK(cands[i], heard, shown, status, idles + 1)
             /\ cands[i].text = f.cands[i].text /\ cands[i].slot = f.cands[i].slot
             /\ cands[i].con = f.cands[i].con
             /\ f.cands[i].status = "rejected" => cands[i].status = "rejected"
  <2>1. cands[i] = idler(f.cands[i])
    OBVIOUS
  <2>2. CandOK(f.cands[i], heard, shown, status, idles)
    BY <1>2 DEF CandsOK
  <2>. HIDE DEF cands, idler
  <2>. QED  BY <1>3, <2>1, <2>2
<1>5. IsList(cands) /\ DOMAIN cands = DOMAIN f.cands
  BY <1>2, FunctionIsList DEF CandsOK
<1>6. /\ DOMAIN e = {"cands", "hyps", "streak"}
      /\ e.cands = cands /\ e.hyps = f.hyps
      /\ e.streak = f.streak
  BY <1>1 DEF FrontierOK
<1>. HIDE DEF cands, e, idler
<1>7. CandsOK(cands, heard, shown, status, idles + 1)
  BY <1>2, <1>4, <1>5 DEF CandsOK
<1>8. ASSUME NEW k \in DOMAIN f.hyps PROVE HypOK(f.hyps[k], cands)
  <2>1. HypOK(f.hyps[k], f.cands)
    BY <1>2 DEF HypsOK
  <2>. PICK h : h = f.hyps[k]
    OBVIOUS
  <2>2. HypOK(h, f.cands)
    BY <2>1
  <2>3. /\ Target \in DOMAIN h.assign /\ \A s \in DOMAIN h.assign : h.assign[s] \in DOMAIN cands
        /\ cands[h.assign[Target]].slot = Target
    BY <1>4, <1>5, <2>2 DEF HypOK
  <2>4. Live(cands[h.assign[Target]]) => Live(f.cands[h.assign[Target]])
    BY <1>4, <1>5, <2>3 DEF Live
  <2>5. UNION {cands[h.assign[s]].con : s \in DOMAIN h.assign}
           = UNION {f.cands[h.assign[s]].con : s \in DOMAIN h.assign}
    BY <1>4, <1>5, <2>3
  <2>6. HypOK(h, cands)
    BY <2>2, <2>3, <2>4, <2>5 DEF HypOK
  <2>. QED  BY <2>6
<1>9. FrontierOK(e, heard, shown, status, idles + 1, n)
  BY <1>2, <1>6, <1>7, <1>8 DEF FrontierOK, HypsOK
<1>. QED  BY <1>9 DEF e

-----------------------------------------------------------------------------
(* One call. *)

(* What one more call adds to what was heard, shown and counted.           *)
LEMMA LogGrows ==
    ASSUME NEW log, IsList(log), NEW call, call.moved \in BOOLEAN
    PROVE  LET later == Append(log, call) IN
           /\ Sources(later) = Sources(log)
                 \union {Heard(call.kind, p) : p \in ToSet(call.pages) \ Dirty}
           /\ Shown(log) \subseteq Shown(later)
           /\ call.kind = "search" => Shown(later) = Shown(log) \union ToSet(call.pages)
           /\ call.kind # "search" => Shown(later) = Shown(log)
           /\ Idles(log) \in Nat
           /\ Idles(later) = IF call.moved THEN Idles(log) ELSE Idles(log) + 1
<1>. PICK later : later = Append(log, call)
  OBVIOUS
<1>1. /\ Len(log) \in Nat /\ DOMAIN log = 1..Len(log) /\ DOMAIN later = 1..Len(log) + 1
      /\ \A i \in DOMAIN log : later[i] = log[i]
      /\ later[Len(log) + 1] = call
  BY AppendLists
<1>2. DOMAIN later = DOMAIN log \union {Len(log) + 1} /\ Len(log) + 1 \notin DOMAIN log
  BY <1>1
<1>3. Sources(later) = Sources(log) \union {Heard(call.kind, p) : p \in ToSet(call.pages) \ Dirty}
  BY <1>1, <1>2 DEF Sources
<1>4. ASSUME NEW p, p \in Shown(later)
      PROVE  p \in Shown(log) \/ (call.kind = "search" /\ p \in ToSet(call.pages))
  BY <1>1, <1>2, <1>4 DEF Shown
<1>5. ASSUME NEW p, p \in Shown(log) PROVE p \in Shown(later)
  BY <1>1, <1>2, <1>5 DEF Shown
<1>6. ASSUME NEW p \in ToSet(call.pages), call.kind = "search" PROVE p \in Shown(later)
  BY <1>1, <1>2, <1>6 DEF Shown
<1>. DEFINE I == {n \in DOMAIN log : ~log[n].moved}
            J == {n \in DOMAIN later : ~later[n].moved}
<1>7. I \in SUBSET (1..Len(log))
  BY <1>1
<1>8. IsFiniteSet(I) /\ Cardinality(I) \in Nat
  BY <1>1, <1>7, NumbersFinite
<1>9. /\ call.moved => J = I
      /\ ~call.moved => J = I \union {Len(log) + 1}
  BY <1>1, <1>2
<1>10. Len(log) + 1 \notin I
  BY <1>2
<1>11. Idles(log) = Cardinality(I) /\ Idles(later) = Cardinality(J)
  BY DEF Idles
<1>. HIDE DEF I, J
<1>12. Cardinality(I \union {Len(log) + 1}) = Cardinality(I) + 1
  BY <1>8, <1>10, FS_AddElement
<1>13. Idles(later) = IF call.moved THEN Idles(log) ELSE Idles(log) + 1
  BY <1>9, <1>11, <1>12
<1>. QED  BY <1>3, <1>4, <1>5, <1>6, <1>8, <1>11, <1>13

(* The observations of a call, folded into the table and the frontier.     *)
LEMMA FoldedOK ==
    ASSUME NEW heard, NEW shown, NEW idles \in Nat, NEW n \in Nat,
           TableOK(table, n), FrontierOK(frontier, heard, shown, table.status, idles, n),
           NEW heard2, heard \subseteq heard2, NEW shown2, shown \subseteq shown2,
           NEW seq, Given(seq, heard2, shown2), NEW d, d.cons \subseteq Constraints,
           NEW read, Folded(seq, d, read)
    PROVE  /\ TableOK(table', n + 1)
           /\ FrontierOK(frontier', heard2, shown2, table'.status,
                         IF Progressed(table, table') THEN idles ELSE idles + 1, n + 1)
           /\ \A c \in Constraints :
                 \/ table'.status[c] = table.status[c]
                 \/ /\ table'.status[c] = "resolved"
                    /\ \E i \in DOMAIN seq : Resolves(c, seq[i])
<1>. PICK told : told = Ingest(table, seq)
  OBVIOUS
<1>. PICK news : news = RejectContradicted(told)
  OBVIOUS
<1>. PICK linked : linked = FoldIn(frontier, seq, d, read, news.status)
  OBVIOUS
<1>. PICK t2, f2 : t2 = table' /\ f2 = frontier'
  OBVIOUS
<1>1. Readings(seq)
  BY DEF Given, Readings
<1>2. /\ TableOK(told, n + 1)
      /\ \A c \in Constraints :
            \/ told.status[c] = table.status[c]
            \/ told.status[c] = "resolved" /\ \E i \in DOMAIN seq : Resolves(c, seq[i])
  BY <1>1, IngestOK
<1>3. TableOK(news, n + 1) /\ news.status = told.status /\ news.cands = told.cands
  BY <1>2, RejectContradictedOK
<1>4. \A c \in Constraints : table.status[c] = "resolved" => news.status[c] = "resolved"
  BY <1>2, <1>3
<1>5. FrontierOK(frontier, heard2, shown2, news.status, idles, n)
  <2>1. CandsOK(frontier.cands, heard, shown, table.status, idles)
    BY DEF FrontierOK
  <2>2. CandsOK(frontier.cands, heard2, shown2, news.status, idles)
    BY <1>4, <2>1, CandsGrow
  <2>. QED  BY <2>2 DEF FrontierOK
<1>6. FrontierOK(linked, heard2, shown2, news.status, idles, n + 1)
  BY <1>5, FoldInOK
<1>7. /\ t2 = IF Progressed(table, news) THEN news ELSE NoteNoProgress(news)
      /\ f2 = IF Progressed(table, news) THEN linked ELSE NoteIdle(linked, news.status)
  BY DEF Folded
<1>8. CASE Progressed(table, news)
  <2>1. t2 = news /\ f2 = linked
    BY <1>7, <1>8
  <2>2. Progressed(table, t2)
    BY <1>8, <2>1
  <2>3. FrontierOK(f2, heard2, shown2, t2.status,
                   IF Progressed(table, t2) THEN idles ELSE idles + 1, n + 1)
    BY <1>6, <2>1, <2>2
  <2>. QED  BY <1>2, <1>3, <2>1, <2>3
<1>9. CASE ~Progressed(table, news)
  <2>1. t2 = NoteNoProgress(news) /\ f2 = NoteIdle(linked, news.status)
    BY <1>7, <1>9
  <2>2. TableOK(t2, n + 1) /\ t2.status = news.status /\ t2.cands = news.cands
    BY <1>3, <2>1, NoteNoProgressOK
  <2>3. ~Progressed(table, t2)
    BY <1>9, <2>2 DEF Progressed
  <2>4. FrontierOK(f2, heard2, shown2, t2.status, idles + 1, n + 1)
    BY <1>6, <2>1, <2>2, NoteIdleOK
  <2>5. FrontierOK(f2, heard2, shown2, t2.status,
                   IF Progressed(table, t2) THEN idles ELSE idles + 1, n + 1)
    BY <2>3, <2>4
  <2>. QED  BY <1>2, <1>3, <2>2, <2>5
<1>. QED  BY <1>8, <1>9

-----------------------------------------------------------------------------
(* What the scheduler's actions refer to. *)

\* An action is about a slot and its constraints, a read and whatever else names
\* a candidate name one there is, and answering needs an answerable frontier.
ActOK(f, act) ==
    /\ act.slot \in Slots \union {Nothing} /\ act.cons \subseteq Constraints
    /\ act.cand \in {0} \union DOMAIN f.cands
    /\ act.type = "read" => act.cand \in DOMAIN f.cands
    /\ act.type = "answer" => Answerable(f)

ActsOK(f, acts) == IsList(acts) /\ \A a \in ToSet(acts) : ActOK(f, a)

(* An action that is there, or none.                                       *)
LEMMA WhenOK ==
    ASSUME NEW f, NEW test, NEW act, test => ActOK(f, act)
    PROVE  ActsOK(f, When(test, act))
<1>1. CASE test
  <2>1. When(test, act) = <<act>>
    BY <1>1 DEF When
  <2>2. IsList(<<act>>) /\ ToSet(<<act>>) = {act}
    BY DEF IsList, ToSet
  <2>. QED  BY <1>1, <2>1, <2>2 DEF ActsOK
<1>2. CASE ~test
  <2>1. When(test, act) = <<>>
    BY <1>2 DEF When
  <2>2. IsList(<<>>) /\ ToSet(<<>>) = {}
    BY DEF IsList, ToSet
  <2>. QED  BY <2>1, <2>2 DEF ActsOK
<1>. QED  BY <1>1, <1>2

(* Lists of sound actions, one after the other.                            *)
LEMMA ConcatActsOK ==
    ASSUME NEW f, NEW a, ActsOK(f, a), NEW b, ActsOK(f, b)
    PROVE  ActsOK(f, a \o b)
<1>1. IsList(a \o b) /\ ToSet(a \o b) = ToSet(a) \union ToSet(b)
  BY ConcatSets DEF ActsOK
<1>. QED  BY <1>1 DEF ActsOK

\* One action for each of some positions.
LEMMA EachActOK ==
    ASSUME NEW f, NEW s, IsList(s), NEW acts, DOMAIN acts = DOMAIN s,
           acts = [n \in DOMAIN acts |-> acts[n]], \A n \in DOMAIN acts : ActOK(f, acts[n])
    PROVE  ActsOK(f, acts)
<1>1. IsList(acts)
  BY FunctionIsList
<1>. QED  BY <1>1 DEF ActsOK, ToSet

(* The same for a list of lists.                                           *)
LEMMA FlattenActsOK ==
    ASSUME NEW f, NEW lists, IsList(lists), \A n \in DOMAIN lists : ActsOK(f, lists[n])
    PROVE  ActsOK(f, FlattenSeq(lists))
<1>1. /\ IsList(FlattenSeq(lists))
      /\ ToSet(FlattenSeq(lists)) = UNION {ToSet(lists[n]) : n \in DOMAIN lists}
  BY FlattenLists DEF ActsOK
<1>. QED  BY <1>1 DEF ActsOK

(* The numbers of candidates, in order.                                    *)
LEMMA AscendingCands ==
    ASSUME NEW cands, IsList(cands), NEW I \in SUBSET (DOMAIN cands)
    PROVE  /\ Ascending(I) \in Seq(I) /\ IsList(Ascending(I))
           /\ \A n \in DOMAIN Ascending(I) : Ascending(I)[n] \in I
           /\ Ascending(I) # <<>> => Head(Ascending(I)) \in I
           /\ ToSet(Ascending(I)) \subseteq I
<1>1. DOMAIN cands = 1..Len(cands) /\ Len(cands) \in Nat
  BY DEF IsList
<1>2. I \in SUBSET Nat /\ IsFiniteSet(I)
  BY <1>1, NumbersFinite
<1>3. PICK at : at = Ascending(I)
  OBVIOUS
<1>4. at \in Seq(I)
  BY <1>2, <1>3, AscendingLists
<1>5. IsList(at)
  BY <1>4, SeqIsList
<1>6. ToSet(at) \subseteq I
  BY <1>4 DEF ToSet
<1>7. at # <<>> => Head(at) \in I
  BY <1>4
<1>. QED  BY <1>3, <1>4, <1>5, <1>6, <1>7

(* The actions a slate calls for refer to what is there.                   *)
LEMMA SlateActionsOK ==
    ASSUME NEW f, IsList(f.cands),
           \A i \in DOMAIN f.cands : f.cands[i].unknown \subseteq Constraints,
           NEW slot \in Slots, NEW status
    PROVE  ActsOK(f, SlateActions(f, slot, status))
<1>. DEFINE
       actives == {i \in Slate(f, slot) : f.cands[i].status = "active"}
       confirms == {i \in Slate(f, slot) : f.cands[i].status = "confirmed"}
       active == Ascending(actives)
       confirmed == Ascending(confirms)
       blocking == IF Deferred(f, slot) THEN {} ELSE OpenBlocking(slot, status)
       penalty == 32 * (IF f.streak[slot] < 3 THEN f.streak[slot] ELSE 3)
       gain == LET top == Sharpest(blocking) IN
               15 * Disc2[top] + (IF Discriminative(top) THEN 24 ELSE -24) - penalty
       demoted == IF Pivots(f) /\ \E i \in Subject(f) : f.cands[i].slot = slot
                  THEN 100 ELSE 0
       readables == {i \in ToSet(active) : f.cands[i].unknown # {}}
       readable == Ascending(readables)
       value(i) == (IF f.streak[slot] >= FORCE_READ_AFTER THEN 100 ELSE 0)
                   + (IF f.cands[i].sup = {} THEN 40 ELSE 0)
                   + (IF f.cands[i].valued THEN 20 ELSE 0)
       read(i) == Act("read", slot, i, f.cands[i].unknown, value(i))
       needy == {n \in DOMAIN SlotOrder :
                   /\ slot \in DependsOn[SlotOrder[n]]
                   /\ BestCandidate(f.cands, SlotOrder[n]) = {}}
       dependent == Picked(SlotOrder, needy)
       a1 == When(blocking # {} /\ active # <<>>,
                  Act("verify", slot, Head(active), blocking, 100 + gain - demoted))
       a2 == When(blocking # {} /\ active = <<>> /\ confirmed = <<>>,
                  Act("generate", slot, 0, blocking, 80 + gain))
       a3 == When(blocking = {} /\ Slate(f, slot) = {} /\ ~Deferred(f, slot),
                  Act("generate", slot, 0, {}, 60))
       a4 == When(Len(active) >= 2, Act("compare", slot, 0, {}, 40))
       a5 == [n \in DOMAIN readable |-> read(readable[n])]
       lists == [n \in DOMAIN confirmed |->
                   [m \in DOMAIN dependent |->
                      Act("expand", dependent[m], confirmed[n], {}, 60)]]
<1>1. SlateActions(f, slot, status) = a1 \o a2 \o a3 \o a4 \o a5 \o FlattenSeq(lists)
  BY DEF SlateActions
<1>2. actives \in SUBSET (DOMAIN f.cands) /\ confirms \in SUBSET (DOMAIN f.cands)
  BY DEF Slate
<1>3. blocking \subseteq Constraints
  BY DEF OpenBlocking, ConstraintsOf
<1>. HIDE DEF actives, confirms, blocking, gain, demoted, value
<1>4. /\ IsList(active) /\ ToSet(active) \subseteq DOMAIN f.cands
      /\ active # <<>> => Head(active) \in DOMAIN f.cands
  BY <1>2, AscendingCands
<1>5. IsList(confirmed) /\ \A n \in DOMAIN confirmed : confirmed[n] \in DOMAIN f.cands
  BY <1>2, AscendingCands
<1>6. readables \in SUBSET (DOMAIN f.cands)
  BY <1>4
<1>. HIDE DEF active, confirmed, readables
<1>7. IsList(readable) /\ \A n \in DOMAIN readable : readable[n] \in DOMAIN f.cands
  BY <1>6, AscendingCands
<1>8. IsList(dependent) /\ \A m \in DOMAIN dependent : dependent[m] \in Slots
  <2>1. needy \in SUBSET (DOMAIN SlotOrder)
    OBVIOUS
  <2>. HIDE DEF needy
  <2>2. /\ IsList(dependent)
        /\ \A m \in DOMAIN dependent : \E n \in needy : dependent[m] = SlotOrder[n]
    BY <2>1, SlotLists, PickedLists
  <2>3. \A n \in needy : SlotOrder[n] \in Slots
    BY <2>1, SlotLists DEF ToSet
  <2>. HIDE DEF dependent
  <2>. QED  BY <2>2, <2>3
<1>. HIDE DEF readable, dependent
<1>9. ActsOK(f, a1)
  <2>1. active # <<>> => ActOK(f, Act("verify", slot, Head(active), blocking, 100 + gain - demoted))
    BY <1>3, <1>4 DEF ActOK, Act
  <2>. QED  BY <2>1, WhenOK
<1>10. ActsOK(f, a2)
  <2>1. ActOK(f, Act("generate", slot, 0, blocking, 80 + gain))
    BY <1>3 DEF ActOK, Act
  <2>. QED  BY <2>1, WhenOK
<1>11. ActsOK(f, a3)
  <2>1. ActOK(f, Act("generate", slot, 0, {}, 60))
    BY DEF ActOK, Act
  <2>. QED  BY <2>1, WhenOK
<1>12. ActsOK(f, a4)
  <2>1. ActOK(f, Act("compare", slot, 0, {}, 40))
    BY DEF ActOK, Act
  <2>. QED  BY <2>1, WhenOK
<1>13. ActsOK(f, a5)
  <2>1. \A n \in DOMAIN readable : ActOK(f, read(readable[n]))
    BY <1>7 DEF ActOK, Act
  <2>. HIDE DEF read
  <2>2. \A n \in DOMAIN a5 : ActOK(f, a5[n])
    BY <2>1
  <2>. QED  BY <1>7, <2>2, EachActOK
<1>14. IsList(lists) /\ \A n \in DOMAIN lists : ActsOK(f, lists[n])
  <2>1. ASSUME NEW n \in DOMAIN lists PROVE ActsOK(f, lists[n])
    <3>1. \A m \in DOMAIN dependent : ActOK(f, Act("expand", dependent[m], confirmed[n], {}, 60))
      BY <1>5, <1>8 DEF ActOK, Act
    <3>2. lists[n] = [m \in DOMAIN dependent |-> Act("expand", dependent[m], confirmed[n], {}, 60)]
      OBVIOUS
    <3>. PICK g : g = lists[n]
      OBVIOUS
    <3>3. /\ DOMAIN g = DOMAIN dependent /\ g = [m \in DOMAIN g |-> g[m]]
          /\ \A m \in DOMAIN g : ActOK(f, g[m])
      BY <3>1, <3>2
    <3>4. ActsOK(f, g)
      BY <1>8, <3>3, EachActOK
    <3>. QED  BY <3>4
  <2>. QED  BY <1>5, <2>1, FunctionIsList
<1>. HIDE DEF a1, a2, a3, a4, a5, lists
<1>15. ActsOK(f, FlattenSeq(lists))
  BY <1>14, FlattenActsOK
<1>16. ActsOK(f, a1 \o a2)
  BY <1>9, <1>10, ConcatActsOK
<1>17. ActsOK(f, a1 \o a2 \o a3)
  BY <1>11, <1>16, ConcatActsOK
<1>18. ActsOK(f, a1 \o a2 \o a3 \o a4)
  BY <1>12, <1>17, ConcatActsOK
<1>19. ActsOK(f, a1 \o a2 \o a3 \o a4 \o a5)
  BY <1>13, <1>18, ConcatActsOK
<1>20. ActsOK(f, a1 \o a2 \o a3 \o a4 \o a5 \o FlattenSeq(lists))
  BY <1>15, <1>19, ConcatActsOK
<1>. QED  BY <1>1, <1>20

(* Whatever is selected refers to what there is.                           *)
LEMMA SelectedOK ==
    ASSUME NEW f, IsList(f.cands),
           \A i \in DOMAIN f.cands : f.cands[i].unknown \subseteq Constraints,
           NEW status, NEW act \in Selected(Actions(f, status))
    PROVE  ActOK(f, act)
<1>. DEFINE lists == [n \in DOMAIN SlotOrder |-> SlateActions(f, SlotOrder[n], status)]
            b1 == When(Pivots(f),
                       Act("bind", Target, CHOOSE i \in Subject(f) : TRUE,
                           {c \in ConstraintsOf(Target) : status[c] # "resolved"}, 148))
            b2 == When(Answerable(f), Act("answer", Nothing, 0, {}, 200))
            acts == Actions(f, status)
<1>1. acts = FlattenSeq(lists) \o b1 \o b2
  BY DEF Actions
<1>2. ActsOK(f, FlattenSeq(lists))
  <2>1. ASSUME NEW n \in DOMAIN SlotOrder PROVE ActsOK(f, SlateActions(f, SlotOrder[n], status))
    <3>1. SlotOrder[n] \in Slots
      BY SlotLists DEF ToSet
    <3>. QED  BY <3>1, SlateActionsOK
  <2>2. IsList(lists)
    BY SlotLists, FunctionIsList
  <2>. QED  BY <2>1, <2>2, FlattenActsOK
<1>3. ActsOK(f, b1)
  <2>1. ASSUME Pivots(f)
        PROVE  ActOK(f, Act("bind", Target, CHOOSE i \in Subject(f) : TRUE,
                            {c \in ConstraintsOf(Target) : status[c] # "resolved"}, 148))
    <3>1. \E i : i \in Subject(f)
      BY <2>1 DEF Pivots
    <3>2. (CHOOSE i \in Subject(f) : TRUE) \in Subject(f)
      BY <3>1
    <3>3. Subject(f) \subseteq DOMAIN f.cands
      BY DEF Subject
    <3>. QED  BY <3>2, <3>3 DEF ActOK, Act, Slots, ConstraintsOf
  <2>. QED  BY <2>1, WhenOK
<1>4. ActsOK(f, b2)
  <2>1. Answerable(f) => ActOK(f, Act("answer", Nothing, 0, {}, 200))
    BY DEF ActOK, Act
  <2>. QED  BY <2>1, WhenOK
<1>. HIDE DEF lists, b1, b2, acts
<1>5. ActsOK(f, FlattenSeq(lists) \o b1)
  BY <1>2, <1>3, ConcatActsOK
<1>6. ActsOK(f, acts)
  <2>1. ActsOK(f, (FlattenSeq(lists) \o b1) \o b2)
    BY <1>4, <1>5, ConcatActsOK
  <2>. QED  BY <1>1, <2>1
<1>7. PICK n \in DOMAIN acts : act = acts[n]
  <2>. DEFINE top == {n \in DOMAIN acts : \A m \in DOMAIN acts : acts[m].score <= acts[n].score}
  <2>1. Selected(acts) = FirstAt(acts, top)
    BY DEF Selected
  <2>2. top \in SUBSET Nat /\ top \subseteq DOMAIN acts
    BY <1>6 DEF ActsOK, IsList
  <2>. HIDE DEF top
  <2>3. \A x \in FirstAt(acts, top) : \E n \in top : x = acts[n]
    BY <2>2, FirstAtOne
  <2>. QED  BY <2>1, <2>2, <2>3 DEF acts
<1>. QED  BY <1>6, <1>7 DEF ActsOK, ToSet

-----------------------------------------------------------------------------
(* What a step is. *)

(* Of bounded numbers, one is the largest.                                 *)
LEMMA Largest ==
    ASSUME NEW S, S # {}, NEW K \in Nat, NEW f, \A c \in S : f[c] \in 0..K
    PROVE  \E c \in S : \A d \in S : f[d] <= f[c]
<1>. DEFINE I == {K - f[c] : c \in S}
<1>1. I \in SUBSET Nat /\ I # {}
  OBVIOUS
<1>. PICK i \in I : \A j \in I : i <= j
  <2>. HIDE DEF I
  <2>. QED  BY <1>1, Smallest
<1>2. PICK c \in S : i = K - f[c]
  OBVIOUS
<1>3. \A d \in S : K - f[c] <= K - f[d]
  BY <1>2
<1>. QED  BY <1>3

(* The sharpest of some constraints is one of them.                        *)
LEMMA SharpestOne ==
    ASSUME NEW C \in SUBSET Constraints, C # {}
    PROVE  Sharpest(C) \in C
<1>1. \A c \in C : Disc2[c] \in 0..49
  BY FrameAssumption
<1>2. \E c \in C : \A d \in C : Disc2[d] <= Disc2[c]
  BY <1>1, Largest
<1>. QED  BY <1>2 DEF Sharpest

(* The planner's next query is about a constraint and a slot of the frame. *)
LEMMA NextQueryOK ==
    ASSUME NEW n \in Nat, NEW t, TableOK(t, n), NEW said, NEW k \in DOMAIN NextQuery(t, said)
    PROVE  LET q == NextQuery(t, said)[k] IN
           q.con \in Constraints /\ q.text \in Texts \union {Nothing} /\ q.slot \in Slots
<1>. DEFINE fresh(c) == Fresh(QueriesFor(t, c), said)
            open == {c \in Constraints \ Shape : t.status[c] = "unresolved" /\ fresh(c) # <<>>}
            most == {c \in open : \A d \in open : Urgency(d) <= Urgency(c)}
            QueryOK(q) == /\ q.con \in Constraints /\ q.text \in Texts \union {Nothing}
                          /\ q.slot \in Slots
<1>1. NextQuery(t, said) = IF open = {} THEN <<>> ELSE <<Head(fresh(CHOOSE c \in most : TRUE))>>
  BY DEF NextQuery
<1>2. open # {} /\ k = 1 /\ NextQuery(t, said)[k] = Head(fresh(CHOOSE c \in most : TRUE))
  <2>. HIDE DEF open, most, fresh
  <2>. QED  BY <1>1
<1>3. most # {}
  <2>. DEFINE f == [c \in open |-> Urgency(c)]
  <2>1. PICK K \in Nat : \A c \in Constraints : Urgency(c) \in 0..K
    <3>. DEFINE top == 1749
    <3>1. ASSUME NEW c \in Constraints PROVE Urgency(c) \in 0..top
      <4>1. Disc2[c] \in 0..49 /\ Priority[c] \in 0..2
        BY FrameAssumption
      <4>. QED  BY <4>1, SMTT(30) DEF Urgency
    <3>2. top \in Nat
      OBVIOUS
    <3>. HIDE DEF top
    <3>. QED  BY <3>1, <3>2
  <2>2. open \subseteq Constraints /\ \A c \in open : f[c] = Urgency(c)
    OBVIOUS
  <2>. HIDE DEF open, f
  <2>3. open # {} /\ \A c \in open : f[c] \in 0..K
    BY <1>2, <2>1, <2>2
  <2>4. \E c \in open : \A d \in open : f[d] <= f[c]
    BY <2>3, Largest
  <2>. QED  BY <2>2, <2>4
<1>4. PICK c : c = CHOOSE e \in most : TRUE
  OBVIOUS
<1>5. c \in most
  <2>. HIDE DEF most
  <2>. QED  BY <1>3, <1>4
<1>6. c \in Constraints /\ fresh(c) # <<>>
  BY <1>5
<1>. HIDE DEF most, open
<1>. DEFINE free == {s \in AppliesTo[c] : s \notin BoundSlots(t)}
            slot == IF free # {} THEN CHOOSE s \in free : TRUE ELSE Target
            compared == IF AppliesTo[c] = {} THEN Nothing ELSE CHOOSE s \in AppliesTo[c] : TRUE
            q1 == Query("compare", c, BestText(t, compared), compared)
            q2 == Query("verify", c, BestText(t, Target), Target)
            q3 == Query("bind", c, Nothing, slot)
            l1 == IF c \in Comparative /\ compared # Nothing /\ Rivals(t, compared) # {}
                  THEN <<q1>> ELSE <<>>
            l2 == IF BestText(t, Target) # Nothing /\ Target \in AppliesTo[c] THEN <<q2>> ELSE <<>>
            l3 == IF AppliesTo[c] # {} THEN <<q3>> ELSE <<>>
<1>7. QueriesFor(t, c) = l1 \o l2 \o l3
  BY DEF QueriesFor
<1>8. AppliesTo[c] \subseteq Slots
  BY <1>6, FrameAssumption
<1>9. slot \in Slots
  <2>1. free # {} => (CHOOSE s \in free : TRUE) \in free
    <3>. HIDE DEF free
    <3>. QED  OBVIOUS
  <2>2. free \subseteq Slots /\ Target \in Slots
    BY <1>8 DEF Slots
  <2>. HIDE DEF free
  <2>. QED  BY <2>1, <2>2
<1>10. AppliesTo[c] # {} => compared \in Slots
  <2>1. AppliesTo[c] # {} => (CHOOSE s \in AppliesTo[c] : TRUE) \in AppliesTo[c]
    OBVIOUS
  <2>. QED  BY <1>8, <2>1
<1>. HIDE DEF slot, compared
<1>11. \A s : BestText(t, s) \in Texts \union {Nothing}
  <2>. SUFFICES ASSUME NEW s, \E i \in Best(t) : s \in DOMAIN t.hyps[i].assign
                PROVE  BestText(t, s) \in Texts
    BY DEF BestText
  <2>1. PICK j : j = CHOOSE i \in Best(t) : TRUE
    OBVIOUS
  <2>2. j \in Best(t)
    BY <2>1
  <2>3. BestText(t, s) = t.hyps[j].assign[s]
    BY <2>1 DEF BestText
  <2>4. \A a, b \in Best(t) : a = b
    <3>1. Best(t) \subseteq DOMAIN t.hyps /\ DOMAIN t.hyps \subseteq Nat
      BY DEF Best, TableOK, IsList
    <3>2. \A a, b \in Best(t) : a <= b
      BY DEF Best
    <3>. QED  BY <3>1, <3>2
  <2>5. j \in DOMAIN t.hyps /\ s \in DOMAIN t.hyps[j].assign
    BY <2>2, <2>4 DEF Best
  <2>6. t.hyps[j].assign \in Partial(Slots, Texts)
    BY <2>5 DEF TableOK, TableHypOK
  <2>. QED  BY <2>3, <2>5, <2>6 DEF Partial
<1>12. QueryOK(q2) /\ QueryOK(q3)
  BY <1>6, <1>9, <1>11 DEF Query, Slots
<1>13. AppliesTo[c] # {} => QueryOK(q1)
  BY <1>6, <1>10, <1>11 DEF Query
<1>14. compared # Nothing => AppliesTo[c] # {}
  BY DEF compared
<1>. HIDE DEF q1, q2, q3, QueryOK
<1>15. /\ IsList(l1) /\ IsList(l2) /\ IsList(l3)
       /\ \A q \in ToSet(l1) \union ToSet(l2) \union ToSet(l3) : QueryOK(q)
  <2>1. \A q : IsList(<<q>>) /\ ToSet(<<q>>) = {q}
    BY DEF IsList, ToSet
  <2>2. IsList(<<>>) /\ ToSet(<<>>) = {}
    BY DEF IsList, ToSet
  <2>. QED  BY <1>12, <1>13, <1>14, <2>1, <2>2
<1>. HIDE DEF l1, l2, l3
<1>16. IsList(l1 \o l2) /\ ToSet(l1 \o l2) = ToSet(l1) \union ToSet(l2)
  BY <1>15, ConcatSets
<1>17. IsList((l1 \o l2) \o l3) /\ ToSet((l1 \o l2) \o l3) = ToSet(l1 \o l2) \union ToSet(l3)
  BY <1>15, <1>16, ConcatSets
<1>18. IsList(QueriesFor(t, c)) /\ \A q \in ToSet(QueriesFor(t, c)) : QueryOK(q)
  BY <1>7, <1>15, <1>16, <1>17
<1>19. IsList(fresh(c)) /\ ToSet(fresh(c)) = ToSet(QueriesFor(t, c)) \ said
  BY <1>18, FreshLists
<1>20. Head(fresh(c)) \in ToSet(fresh(c))
  <2>. PICK s : s = fresh(c)
    OBVIOUS
  <2>1. IsList(s) /\ s # <<>>
    BY <1>6, <1>19
  <2>2. Head(s) = s[1] /\ 1 \in DOMAIN s
    BY <2>1, TailLists
  <2>. QED  BY <2>2 DEF ToSet
<1>21. QueryOK(Head(fresh(c)))
  BY <1>18, <1>19, <1>20
<1>. QED  BY <1>2, <1>4, <1>21 DEF QueryOK

\* Who picks, and what a query is made of.
Pickers == {"planner", "controller", "llm"}
Words == Constraints \union Texts \union Slots \union Distinctive
Places == Slots \union {Nothing}

\* A search: about a slot, of words that a proposal may not have worn out.
SearchStep ==
    \E by \in Pickers, slot \in Places, words \in SUBSET Words,
       found \in SUBSET Seq(Pages) : \E d :
        /\ d.cons \subseteq Constraints
        /\ by = "llm" => ~Worn(words, stale)
        /\ Search(by, slot, words, found, d)

\* A page that may be read: open, shown by a search, and neither dirty nor social.
Readable(page) == page \in Shown(calls) \ Dirty /\ page \in Pages /\ Open(page)

ReadStep ==
    \E by \in Pickers : \E page, d :
        /\ Readable(page) /\ d.slot \in Places /\ d.cons \subseteq Constraints
        /\ Read(by, page, d)

EndStep ==
    \E by : \E kind \in {"answer", "abstain", "spent"} :
        /\ kind = "answer" /\ by # "planner" => Answerable(frontier)
        /\ kind = "answer" /\ by = "planner" => AnswerSupported(table)
        /\ Ends(kind, by)

(* What the loop may find worth a read is readable.                        *)
LEMMA ReadableOK ==
    ASSUME LoopInv
    PROVE  /\ \A page \in Resolved : Readable(page)
           /\ \A page \in WorthSeen : Readable(page)
           /\ \A i \in DOMAIN frontier.cands : \A page \in OwnSource(i) : Readable(page)
<1>1. seen \in Seq(Pages) /\ ToSet(seen) \subseteq Shown(calls) /\ Shown(calls) \subseteq Pages
  BY DEF LoopInv, LogOK
<1>2. \A page \in Resolved : page \in ToSet(seen) /\ Open(page) /\ page \notin Dirty
  <2>. DEFINE I == {i \in DOMAIN seen : Open(seen[i])
                       /\ Affected(frontier, Reading(seen[i], Snippet[seen[i]]), table.status) # {}}
  <2>1. Resolved = FirstAt(seen, I)
    BY DEF Resolved, FirstSeen
  <2>2. I \in SUBSET Nat /\ I \subseteq DOMAIN seen
    BY <1>1
  <2>3. \A i \in I : Open(seen[i]) /\ seen[i] \notin Dirty
    BY DEF Affected, Reading
  <2>. HIDE DEF I
  <2>4. \A x \in FirstAt(seen, I) : \E i \in I : x = seen[i]
    BY <2>2, FirstAtOne
  <2>. QED  BY <2>1, <2>2, <2>3, <2>4 DEF ToSet
<1>3. \A page \in WorthSeen : page \in ToSet(seen) /\ Open(page) /\ page \notin Dirty
  <2>. DEFINE I == {i \in DOMAIN seen : Open(seen[i])
                       /\ WorthReading(table, Reading(seen[i], Snippet[seen[i]]), Crossed)}
  <2>1. WorthSeen = FirstAt(seen, I)
    BY DEF WorthSeen, FirstSeen
  <2>2. I \in SUBSET Nat /\ I \subseteq DOMAIN seen
    BY <1>1
  <2>3. \A i \in I : Open(seen[i]) /\ seen[i] \notin Dirty
    BY DEF WorthReading, Reading
  <2>. HIDE DEF I
  <2>4. \A x \in FirstAt(seen, I) : \E i \in I : x = seen[i]
    BY <2>2, FirstAtOne
  <2>. QED  BY <2>1, <2>2, <2>3, <2>4 DEF ToSet
<1>4. ASSUME NEW i \in DOMAIN frontier.cands, NEW page \in OwnSource(i)
      PROVE  page \in Shown(calls) \ Dirty /\ Open(page)
  <2>. PICK urls : urls = frontier.cands[i].urls
    OBVIOUS
  <2>. DEFINE I == {n \in DOMAIN urls : Open(urls[n])}
  <2>1. page \in FirstAt(urls, I)
    BY DEF OwnSource
  <2>2. CandOK(frontier.cands[i], Sources(calls), Shown(calls), table.status, Idles(calls))
    BY DEF LoopInv, CandsOK
  <2>3. urls \in Seq(Pages) /\ ToSet(urls) \subseteq Shown(calls) \ Dirty
    BY <2>2 DEF CandOK, Candidates
  <2>4. I \in SUBSET Nat /\ \A n \in I : n \in DOMAIN urls /\ Open(urls[n])
    BY <2>3
  <2>. HIDE DEF I
  <2>5. PICK n \in I : page = urls[n]
    BY <2>1, <2>4, FirstAtOne
  <2>. QED  BY <2>3, <2>4, <2>5 DEF ToSet
<1>. QED  BY <1>1, <1>2, <1>3, <1>4 DEF Readable

(* What is chosen among a model's proposals refers to what there is, and   *)
(* says something new.                                                     *)
LEMMA ChosenOK ==
    ASSUME NEW reply \in Replies, NEW f, NEW status, NEW old,
           NEW p \in Chosen(f, reply, status, old)
    PROVE  /\ p \in Proposals /\ p.slot \in Places /\ p.cons \subseteq Constraints
           /\ p.words \in SUBSET Words
           /\ p.type \notin Terminal => ~Worn(p.words, old)
           /\ p.type = "answer" => Answerable(f)
<1>. DEFINE valid == {n \in DOMAIN reply : Accepted(f, reply[n], status, old)}
            soft == {n \in DOMAIN reply : Relaxable(f, reply[n], old)}
            best == {n \in valid : \A m \in valid : Merit(reply[m]) <= Merit(reply[n])}
            among == IF valid # {} THEN best ELSE soft
<1>1. Chosen(f, reply, status, old) = FirstAt(reply, among)
  BY DEF Chosen
<1>2. reply \in Seq(Proposals)
  BY ProposerAssumption
<1>3. DOMAIN reply \subseteq Nat
  BY <1>2
<1>4. among \subseteq valid \union soft
  <2>. HIDE DEF valid, soft
  <2>. QED  OBVIOUS
<1>5. \A n \in valid \union soft :
         n \in DOMAIN reply /\ (Accepted(f, reply[n], status, old) \/ Relaxable(f, reply[n], old))
  OBVIOUS
<1>. HIDE DEF among, valid, soft
<1>6. among \in SUBSET Nat
  BY <1>3, <1>4, <1>5
<1>7. PICK n \in among : p = reply[n]
  BY <1>1, <1>6, FirstAtOne
<1>8. n \in DOMAIN reply /\ (Accepted(f, p, status, old) \/ Relaxable(f, p, old))
  BY <1>4, <1>5, <1>7
<1>9. p \in Proposals
  BY <1>2, <1>7, <1>8
<1>10. Refers(f, p)
  BY <1>8 DEF Accepted, Relaxable
<1>11. p.type \notin Terminal => ~Worn(p.words, old)
  BY <1>8 DEF Accepted, Relaxable, Sayable
<1>12. p.type = "answer" => Answerable(f)
  BY <1>8 DEF Accepted, Relaxable, Terminal
<1>13. p.words \in SUBSET Words
  BY <1>9 DEF Proposals, Words
<1>. QED  BY <1>9, <1>10, <1>11, <1>12, <1>13 DEF Refers, Places

(* The words of a query are of the frame.                                  *)
LEMMA WordsOfOK ==
    ASSUME NEW q, q.con \in Constraints \union {Nothing}, q.text \in Texts \union {Nothing},
           q.slot \in Places
    PROVE  WordsOf(q) \in SUBSET Words
BY DEF WordsOf, Words, Places

(* A step is a search, a read, the end of the attempt, or nothing at all.  *)
LEMMA StepCases ==
    ASSUME LoopInv, Next
    PROVE  \/ InLoop /\ UNCHANGED <<driver, given>> /\ SearchStep
           \/ InLoop /\ UNCHANGED <<driver, given>> /\ ReadStep
           \/ outcome = Running /\ UNCHANGED <<driver, given>> /\ EndStep
           \/ UNCHANGED vars
<1>. DEFINE acts == Actions(frontier, table.status)
<1>1. CASE BudgetSpent
  <2>1. outcome = Running /\ UNCHANGED <<driver, given>> /\ Ends("spent", driver)
    BY <1>1 DEF BudgetSpent
  <2>2. EndStep
    BY <2>1 DEF EndStep
  <2>. QED  BY <2>1, <2>2
<1>2. CASE Over
  BY <1>2 DEF Over
<1>3. CASE Step
  <2>1. InLoop /\ UNCHANGED <<driver, given>> /\ (ByPlanner \/ ByController(acts) \/ ByProposal)
    BY <1>3 DEF Step
  <2>. HIDE DEF acts
  <2>2. outcome = Running
    BY <2>1 DEF InLoop
  <2>3. Results \in SUBSET Seq(Pages) /\ {<<>>} \in SUBSET Seq(Pages)
    BY LoopAssumption
  <2>4. Undirected.cons \subseteq Constraints /\ Undirected.slot \in Places
    BY DEF Undirected, Places
  <2>5. CASE ByPlanner
    <3>1. CASE PlannerRead
      <4>1. PICK page \in WorthSeen : Read("planner", page, Undirected)
        BY <3>1 DEF PlannerRead
      <4>2. Readable(page)
        BY ReadableOK
      <4>3. ReadStep
        BY <2>4, <4>1, <4>2 DEF ReadStep, Pickers
      <4>. QED  BY <2>1, <4>3
    <3>2. CASE PlannerAnswer
      <4>1. EndStep
        BY <3>2 DEF PlannerAnswer, EndStep
      <4>. QED  BY <2>1, <2>2, <4>1
    <3>3. CASE PlannerSearch
      <4>1. PICK n \in DOMAIN NextQuery(table, asked) :
                Search("planner", NextQuery(table, asked)[n].slot,
                       WordsOf(NextQuery(table, asked)[n]), Results, Undirected)
        BY <3>3 DEF PlannerSearch
      <4>. PICK q : q = NextQuery(table, asked)[n]
        OBVIOUS
      <4>2. Len(calls) \in Nat /\ TableOK(table, Len(calls))
        BY DEF LoopInv, LogOK
      <4>3. q.con \in Constraints /\ q.text \in Texts \union {Nothing} /\ q.slot \in Slots
        BY <4>2, NextQueryOK
      <4>4. WordsOf(q) \in SUBSET Words /\ q.slot \in Places
        BY <4>3, WordsOfOK DEF Places
      <4>5. Search("planner", q.slot, WordsOf(q), Results, Undirected)
        BY <4>1
      <4>6. SearchStep
        BY <2>3, <2>4, <4>4, <4>5 DEF SearchStep, Pickers
      <4>. QED  BY <2>1, <4>6
    <3>4. CASE PlannerAbstain
      <4>1. EndStep
        BY <3>4 DEF PlannerAbstain, EndStep
      <4>. QED  BY <2>1, <2>2, <4>1
    <3>. QED  BY <2>5, <3>1, <3>2, <3>3, <3>4 DEF ByPlanner
  <2>6. CASE ByController(acts)
    <3>0. IsList(frontier.cands) /\ \A i \in DOMAIN frontier.cands :
             frontier.cands[i] \in Candidates
      BY DEF LoopInv, CandsOK, CandOK
    <3>1. \A act \in Selected(acts) : ActOK(frontier, act)
      <4>1. \A i \in DOMAIN frontier.cands : frontier.cands[i].unknown \subseteq Constraints
        BY <3>0 DEF Candidates
      <4>. QED  BY <3>0, <4>1, SelectedOK DEF acts
    <3>2. CASE ControllerSearch(acts)
      <4>1. PICK act \in Selected(acts) :
                Search("controller", act.slot, WordsOf(QueryOf(act)), Results, Undirected)
        BY <3>2 DEF ControllerSearch
      <4>2. ActOK(frontier, act)
        BY <3>1
      <4>3. act.cons # {} => Sharpest(act.cons) \in Constraints
        BY <4>2, SharpestOne DEF ActOK
      <4>4. act.cand # 0 => frontier.cands[act.cand].text \in Texts
        BY <3>0, <4>2 DEF ActOK, Candidates
      <4>. PICK q : q = QueryOf(act)
        OBVIOUS
      <4>5. /\ q.con \in Constraints \union {Nothing} /\ q.text \in Texts \union {Nothing}
            /\ q.slot = act.slot
        BY <4>3, <4>4 DEF QueryOf, Query
      <4>6. act.slot \in Places
        BY <4>2 DEF ActOK, Places
      <4>7. WordsOf(q) \in SUBSET Words
        BY <4>5, <4>6, WordsOfOK
      <4>8. Search("controller", act.slot, WordsOf(q), Results, Undirected)
        BY <4>1
      <4>9. SearchStep
        BY <2>3, <2>4, <4>6, <4>7, <4>8 DEF SearchStep, Pickers
      <4>. QED  BY <2>1, <4>9
    <3>3. CASE ControllerRead(acts)
      <4>1. PICK act \in Selected(acts) :
                /\ act.type = "read"
                /\ \E page \in ReadOf(act) : Read("controller", page, Undirected)
        BY <3>3 DEF ControllerRead
      <4>2. PICK page \in ReadOf(act) : Read("controller", page, Undirected)
        BY <4>1
      <4>3. act.cand \in DOMAIN frontier.cands
        BY <3>1, <4>1 DEF ActOK
      <4>4. page \in Resolved \/ page \in OwnSource(act.cand)
        BY DEF ReadOf
      <4>5. Readable(page)
        BY <4>3, <4>4, ReadableOK
      <4>6. ReadStep
        BY <2>4, <4>2, <4>5 DEF ReadStep, Pickers
      <4>. QED  BY <2>1, <4>6
    <3>4. CASE ControllerAnswer(acts)
      <4>1. PICK act \in Selected(acts) : act.type = "answer" /\ Ends("answer", "controller")
        BY <3>4 DEF ControllerAnswer
      <4>2. Answerable(frontier)
        BY <3>1, <4>1 DEF ActOK
      <4>3. EndStep
        BY <4>1, <4>2 DEF EndStep
      <4>. QED  BY <2>1, <2>2, <4>3
    <3>. QED  BY <2>6, <3>2, <3>3, <3>4 DEF ByController
  <2>7. CASE ByProposal
    <3>0. PICK reply \in Replies :
              \E p \in Chosen(frontier, reply, table.status, stale) :
                 ProposedSearch(p) \/ ProposedRead(p) \/ ProposedAnswer(p) \/ ProposedAbstain(p)
      BY <2>7 DEF ByProposal
    <3>1. PICK p \in Chosen(frontier, reply, table.status, stale) :
              ProposedSearch(p) \/ ProposedRead(p) \/ ProposedAnswer(p) \/ ProposedAbstain(p)
      BY <3>0
    <3>2. /\ p \in Proposals /\ p.slot \in Places /\ p.cons \subseteq Constraints
          /\ p.words \in SUBSET Words
          /\ p.type \notin Terminal => ~Worn(p.words, stale)
          /\ p.type = "answer" => Answerable(frontier)
      BY ChosenOK
    <3>3. CASE ProposedSearch(p)
      <4>1. p.type = "search" /\ \E found \in {{<<>>}, Results} :
                Search("llm", p.slot, p.words, found, p)
        BY <3>3 DEF ProposedSearch
      <4>2. ~Worn(p.words, stale)
        BY <3>2, <4>1 DEF Terminal
      <4>3. SearchStep
        BY <2>3, <3>2, <4>1, <4>2 DEF SearchStep, Pickers
      <4>. QED  BY <2>1, <4>3
    <3>4. CASE ProposedRead(p)
      <4>1. PICK page \in Resolved :
                Read("llm", page, [slot |-> p.slot, cons |-> Tested(frontier,
                        Reading(page, Snippet[page]), table.status)])
        BY <3>4 DEF ProposedRead
      <4>. DEFINE d == [slot |-> p.slot, cons |-> Tested(frontier,
                        Reading(page, Snippet[page]), table.status)]
      <4>2. d.slot \in Places /\ d.cons \subseteq Constraints
        BY <3>2 DEF Tested, OpenOn, ConstraintsOf
      <4>3. Readable(page)
        BY ReadableOK
      <4>4. Read("llm", page, d)
        BY <4>1
      <4>. HIDE DEF d
      <4>5. ReadStep
        BY <4>2, <4>3, <4>4 DEF ReadStep, Pickers
      <4>. QED  BY <2>1, <4>5
    <3>5. CASE ProposedAnswer(p)
      <4>1. EndStep
        BY <3>2, <3>5 DEF ProposedAnswer, EndStep
      <4>. QED  BY <2>1, <2>2, <4>1
    <3>6. CASE ProposedAbstain(p)
      <4>1. EndStep
        BY <3>6 DEF ProposedAbstain, EndStep
      <4>. QED  BY <2>1, <2>2, <4>1
    <3>. QED  BY <3>1, <3>3, <3>4, <3>5, <3>6
  <2>. QED  BY <2>1, <2>5, <2>6, <2>7
<1>. QED  BY <1>1, <1>2, <1>3 DEF Next

-----------------------------------------------------------------------------
(* The invariant holds. *)

\* The readings of a call are of its pages, as a call of its kind reads them.
ReadsOf(seq, kind, pages) ==
    /\ IsList(seq)
    /\ \A i \in DOMAIN seq : \E p \in ToSet(pages) : seq[i] = Reading(p, Heard(kind, p))

(* A call that is made and logged: both stores stay in order with the log, *)
(* and a hard constraint is resolved by a clean page of the call.          *)
LEMMA CallOK ==
    ASSUME LoopInv, InLoop, NEW kind \in {"search", "read"}, NEW by \in Pickers,
           NEW slot \in Places, NEW page \in Pages \union {Nothing}, NEW words \in SUBSET Words,
           NEW pages \in Seq(Pages), kind = "read" => ToSet(pages) \subseteq Shown(calls),
           NEW seq, ReadsOf(seq, kind, pages), NEW d, d.cons \subseteq Constraints, NEW read,
           Folded(seq, d, read), Logged(kind, by, slot, page, words, pages)
    PROVE  /\ calls' \in Seq(Calls) /\ Len(calls') = Len(calls) + 1 /\ Len(calls') <= Budget
           /\ DOMAIN calls' = 1..Len(calls) + 1 /\ DOMAIN calls = 1..Len(calls)
           /\ Len(calls) \in Nat
           /\ \A n \in DOMAIN calls : calls'[n] = calls[n]
           /\ calls'[Len(calls) + 1].kind = kind /\ calls'[Len(calls) + 1].page = page
           /\ calls'[Len(calls) + 1].words = words /\ calls'[Len(calls) + 1].by = by
           /\ calls'[Len(calls) + 1].pages = pages
           /\ calls'[Len(calls) + 1].moved = Progressed(table, table')
           /\ TableOK(table', Len(calls'))
           /\ FrontierOK(frontier', Sources(calls'), Shown(calls'), table'.status,
                         Idles(calls'), Len(calls'))
           /\ Shown(calls') = Shown(calls) \union (IF kind = "search" THEN ToSet(pages) ELSE {})
           /\ Sources(calls) \subseteq Sources(calls')
           /\ Given(seq, Sources(calls'), Shown(calls'))
           /\ \A c \in Hard : table'.status[c] = "resolved" /\ given[c] # "resolved" =>
                 \E x \in Sources(calls') : c \in x.terms /\ c \in x.anchored
<1>. PICK call : call = [kind |-> kind, by |-> by, slot |-> slot, page |-> page,
                         words |-> words, pages |-> pages, moved |-> Progressed(table, table'),
                         gained |-> Gained(frontier, frontier', OnSlot(slot))]
  OBVIOUS
<1>. PICK later : later = Append(calls, call)
  OBVIOUS
<1>. PICK t2, f2, log : t2 = table' /\ f2 = frontier' /\ log = calls
  OBVIOUS
<1>1. calls' = later
  BY DEF Logged
<1>2. /\ call.kind = kind /\ call.page = page /\ call.words = words /\ call.pages = pages
      /\ call.by = by /\ call.moved = Progressed(table, table') /\ call.moved \in BOOLEAN
  BY DEF Progressed
<1>3. call \in Calls
  <2>1. Gained(frontier, frontier', OnSlot(slot)) \in BOOLEAN
    BY DEF Gained
  <2>2. Progressed(table, table') \in BOOLEAN
    BY DEF Progressed
  <2>. PICK moved, gained : /\ moved = Progressed(table, table')
                            /\ gained = Gained(frontier, frontier', OnSlot(slot))
    OBVIOUS
  <2>3. moved \in BOOLEAN /\ gained \in BOOLEAN
    BY <2>1, <2>2
  <2>4. call = [kind |-> kind, by |-> by, slot |-> slot, page |-> page,
                words |-> words, pages |-> pages, moved |-> moved, gained |-> gained]
    OBVIOUS
  <2>. QED  BY <2>3, <2>4 DEF Calls, Pickers, Places, Words
<1>4. log \in Seq(Calls) /\ Len(log) <= Budget /\ IsList(log)
  <2>1. calls \in Seq(Calls) /\ Len(calls) <= Budget
    BY DEF LoopInv, LogOK
  <2>. QED  BY <2>1, SeqIsList
<1>5. /\ IsList(later) /\ Len(log) \in Nat
      /\ DOMAIN log = 1..Len(log) /\ DOMAIN later = 1..Len(log) + 1
      /\ Len(later) = Len(log) + 1
      /\ \A i \in DOMAIN log : later[i] = log[i]
      /\ later[Len(log) + 1] = call
  BY <1>4, AppendLists
<1>6. later \in Seq(Calls) /\ Len(later) <= Budget
  <2>1. later \in Seq(Calls)
    BY <1>3, <1>4
  <2>2. Len(log) < Budget /\ Budget \in Nat
    BY LoopAssumption DEF InLoop
  <2>. QED  BY <1>5, <2>1, <2>2
<1>7. /\ Sources(later) = Sources(log) \union {Heard(kind, p) : p \in ToSet(pages) \ Dirty}
      /\ Shown(later) = Shown(log) \union (IF kind = "search" THEN ToSet(pages) ELSE {})
      /\ Idles(log) \in Nat
      /\ Idles(later) = IF call.moved THEN Idles(log) ELSE Idles(log) + 1
  <2>1. /\ Sources(later) = Sources(log)
              \union {Heard(call.kind, p) : p \in ToSet(call.pages) \ Dirty}
        /\ call.kind = "search" => Shown(later) = Shown(log) \union ToSet(call.pages)
        /\ call.kind # "search" => Shown(later) = Shown(log)
        /\ Idles(log) \in Nat
        /\ Idles(later) = IF call.moved THEN Idles(log) ELSE Idles(log) + 1
    BY <1>2, <1>4, LogGrows
  <2>. QED  BY <1>2, <2>1
<1>8. ToSet(pages) \subseteq Pages /\ ToSet(pages) \subseteq Shown(later)
  BY <1>7 DEF ToSet
<1>9. \A p \in Pages : Heard(kind, p) \in Contents
  BY FrameAssumption DEF Heard
<1>10. Given(seq, Sources(later), Shown(later))
  <2>1. ASSUME NEW i \in DOMAIN seq
        PROVE  \E p \in Pages, x \in Contents :
                  /\ seq[i] = Reading(p, x)
                  /\ (p \notin Dirty => x \in Sources(later) /\ p \in Shown(later))
    <3>1. PICK p \in ToSet(pages) : seq[i] = Reading(p, Heard(kind, p))
      BY DEF ReadsOf
    <3>. PICK x : x = Heard(kind, p)
      OBVIOUS
    <3>2. p \in Pages /\ x \in Contents /\ p \in Shown(later)
      BY <1>8, <1>9
    <3>3. p \notin Dirty => x \in Sources(later)
      BY <1>7
    <3>. QED  BY <3>1, <3>2, <3>3
  <2>. QED  BY <2>1 DEF Given, ReadsOf
<1>11. TableOK(table, Len(log)) /\ FrontierOK(frontier, Sources(log), Shown(log), table.status,
                                              Idles(log), Len(log))
  BY DEF LoopInv, FrontierOK
<1>12. /\ TableOK(table', Len(log) + 1)
       /\ FrontierOK(frontier', Sources(later), Shown(later), table'.status,
                     IF Progressed(table, table') THEN Idles(log) ELSE Idles(log) + 1, Len(log) + 1)
       /\ \A c \in Constraints :
             \/ table'.status[c] = table.status[c]
             \/ /\ table'.status[c] = "resolved"
                /\ \E i \in DOMAIN seq : Resolves(c, seq[i])
  <2>1. Sources(log) \subseteq Sources(later) /\ Shown(log) \subseteq Shown(later)
    BY <1>7
  <2>. PICK heard, shown, idles, n, heard2, shown2 :
             /\ heard = Sources(log) /\ shown = Shown(log) /\ idles = Idles(log) /\ n = Len(log)
             /\ heard2 = Sources(later) /\ shown2 = Shown(later)
    OBVIOUS
  <2>2. /\ heard \subseteq heard2 /\ shown \subseteq shown2 /\ idles \in Nat /\ n \in Nat
        /\ TableOK(table, n) /\ FrontierOK(frontier, heard, shown, table.status, idles, n)
        /\ Given(seq, heard2, shown2)
    BY <1>5, <1>7, <1>10, <1>11, <2>1
  <2>3. /\ TableOK(table', n + 1)
        /\ FrontierOK(frontier', heard2, shown2, table'.status,
                      IF Progressed(table, table') THEN idles ELSE idles + 1, n + 1)
        /\ \A c \in Constraints :
              \/ table'.status[c] = table.status[c]
              \/ /\ table'.status[c] = "resolved"
                 /\ \E i \in DOMAIN seq : Resolves(c, seq[i])
    <3>1. TableOK(table', n + 1)
      BY <2>2, FoldedOK
    <3>2. FrontierOK(frontier', heard2, shown2, table'.status,
                      IF Progressed(table, table') THEN idles ELSE idles + 1, n + 1)
      BY <2>2, FoldedOK, ZenonT(60)
    <3>3. \A c \in Constraints :
              \/ table'.status[c] = table.status[c]
              \/ /\ table'.status[c] = "resolved"
                 /\ \E i \in DOMAIN seq : Resolves(c, seq[i])
      BY <2>2, FoldedOK, SMTT(60)
    <3>. QED  BY <3>1, <3>2, <3>3
  <2>. QED  BY <2>3
<1>13. FrontierOK(frontier', Sources(later), Shown(later), table'.status, Idles(later), Len(later))
  BY <1>2, <1>5, <1>7, <1>12
<1>14. ASSUME NEW c \in Hard, table'.status[c] = "resolved", given[c] # "resolved"
       PROVE  \E x \in Sources(later) : c \in x.terms /\ c \in x.anchored
  <2>0. c \in Constraints
    BY FrameAssumption DEF Hard
  <2>1. CASE table.status[c] = "resolved"
    <3>1. \E x \in Sources(log) : c \in x.terms /\ c \in x.anchored
      BY <1>14, <2>1 DEF LoopInv
    <3>. QED  BY <1>7, <3>1
  <2>2. CASE table.status[c] # "resolved"
    <3>1. PICK i \in DOMAIN seq : Resolves(c, seq[i])
      BY <1>12, <1>14, <2>0, <2>2
    <3>2. PICK p \in ToSet(pages) : seq[i] = Reading(p, Heard(kind, p))
      BY DEF ReadsOf
    <3>3. p \notin Dirty /\ c \in Heard(kind, p).terms /\ c \in Heard(kind, p).anchored
      <4>. PICK x : x = Heard(kind, p)
        OBVIOUS
      <4>1. seq[i].dirty = (p \in Dirty) /\ seq[i].content = x
        BY <3>2 DEF Reading
      <4>. QED  BY <1>14, <3>1, <4>1 DEF Resolves
    <3>. QED  BY <1>7, <3>3
  <2>. QED  BY <2>1, <2>2
<1>15. TableOK(table', Len(later))
  BY <1>5, <1>12
<1>. QED  BY <1>1, <1>2, <1>5, <1>6, <1>7, <1>10, <1>13, <1>14, <1>15

\* The log has one more call.
OneMore ==
    /\ Len(calls) \in Nat /\ DOMAIN calls = 1..Len(calls) /\ DOMAIN calls' = 1..Len(calls) + 1
    /\ \A n \in DOMAIN calls : calls'[n] = calls[n]

\* What the call observed was folded in, and the log has it.
FoldedCall ==
    /\ Sources(calls) \subseteq Sources(calls')
    /\ \E seq, d, read : Folded(seq, d, read) /\ Given(seq, Sources(calls'), Shown(calls'))

(* The attempt starts in order.                                            *)
LEMMA InitOK == ASSUME Init PROVE LoopInv
<1>1. /\ IsList(<<>>) /\ Len(<<>>) = 0 /\ DOMAIN <<>> = {} /\ ToSet(<<>>) = {}
      /\ <<>> \in Seq(Texts) /\ <<>> \in Seq(Pages) /\ <<>> \in Seq(Calls) /\ Unrepeated(<<>>)
  BY DEF IsList, ToSet, Unrepeated
<1>2. /\ driver \in Drivers /\ given \in GivenStatuses /\ frontier = EmptyFrontier /\ outcome = Running
      /\ seen = <<>> /\ scraped = {} /\ dead = {} /\ calls = <<>>
  BY DEF Init
<1>3. table = EmptyTable(given) /\ given \in [Constraints -> Statuses]
  BY FrameAssumption DEF Init
<1>4. TableOK(table, 0) /\ table.status = given
  BY <1>1, <1>3 DEF EmptyTable, TableOK
<1>5. Sources(calls) = {} /\ Shown(calls) = {}
  BY <1>1, <1>2 DEF Sources, Shown
<1>6. LogOK
  BY <1>1, <1>2, <1>5, LoopAssumption DEF LogOK
<1>7. /\ DOMAIN frontier = {"cands", "hyps", "streak"} /\ frontier.cands = <<>>
      /\ frontier.hyps = <<>> /\ frontier.streak \in [Slots -> 0..0]
  BY <1>2 DEF EmptyFrontier
<1>8. CandsOK(frontier.cands, Sources(calls), Shown(calls), table.status, Idles(calls))
  BY <1>1, <1>7 DEF CandsOK
<1>9. HypsOK(frontier.hyps, frontier.cands)
  BY <1>1, <1>7 DEF HypsOK
<1>10. \A c \in Hard : ~(table.status[c] = "resolved" /\ given[c] # "resolved")
  BY <1>4
<1>11. Len(calls) = 0 /\ outcome.kind = "running"
  BY <1>1, <1>2 DEF Running
<1>. QED  BY <1>2, <1>4, <1>6, <1>7, <1>8, <1>9, <1>10, <1>11 DEF LoopInv

(* A search keeps the invariant; a proposal's has words not worn out.      *)
LEMMA SearchKeeps ==
    ASSUME LoopInv, InLoop, UNCHANGED <<driver, given>>, SearchStep
    PROVE  /\ LoopInv' /\ OneMore /\ FoldedCall /\ UNCHANGED outcome
           /\ calls'[Len(calls) + 1].kind = "search"
           /\ calls'[Len(calls) + 1].by = "llm" => ~Worn(calls'[Len(calls) + 1].words, stale)
<1>0. PICK by \in Pickers, slot \in Places, words \in SUBSET Words,
           found \in SUBSET Seq(Pages) :
        \E d :
              /\ d.cons \subseteq Constraints
              /\ by = "llm" => ~Worn(words, stale)
              /\ Search(by, slot, words, found, d)
  BY DEF SearchStep
<1>1. PICK d :
          /\ d.cons \subseteq Constraints
          /\ by = "llm" => ~Worn(words, stale)
          /\ Search(by, slot, words, found, d)
  BY <1>0
<1>2. PICK pages \in found :
          /\ Folded(Snippets(pages), d, FALSE)
          /\ seen' = seen \o Fresh(pages, ToSet(seen))
          /\ stale' = IF Progressed(table, table') THEN stale ELSE stale \union {words}
          /\ Logged("search", by, slot, Nothing, words, pages)
          /\ UNCHANGED <<scraped, dead, outcome>>
  BY <1>1 DEF Search
<1>3. pages \in Seq(Pages) /\ IsList(pages) /\ ToSet(pages) \subseteq Pages
  <2>1. pages \in Seq(Pages)
    BY <1>1, <1>2
  <2>2. IsList(pages)
    BY <2>1, SeqIsList
  <2>. QED  BY <2>1, <2>2 DEF ToSet
<1>4. ReadsOf(Snippets(pages), "search", pages)
  <2>1. IsList(Snippets(pages)) /\ DOMAIN Snippets(pages) = DOMAIN pages
    BY <1>3, FunctionIsList DEF Snippets
  <2>2. \A i \in DOMAIN pages : pages[i] \in ToSet(pages)
             /\ Snippets(pages)[i] = Reading(pages[i], Heard("search", pages[i]))
    BY DEF Snippets, Heard, ToSet
  <2>. QED  BY <2>1, <2>2 DEF ReadsOf
<1>. DEFINE m == Len(calls) + 1
<1>5. /\ calls' \in Seq(Calls) /\ Len(calls') = m /\ Len(calls') <= Budget
      /\ OneMore
      /\ calls'[m].kind = "search" /\ calls'[m].page = Nothing
      /\ calls'[m].words = words /\ calls'[m].by = by
      /\ calls'[m].moved = Progressed(table, table')
      /\ TableOK(table', Len(calls'))
      /\ FrontierOK(frontier', Sources(calls'), Shown(calls'), table'.status,
                    Idles(calls'), Len(calls'))
      /\ Shown(calls') = Shown(calls) \union ToSet(pages)
      /\ FoldedCall
      /\ \A c \in Hard : table'.status[c] = "resolved" /\ given[c] # "resolved" =>
            \E x \in Sources(calls') : c \in x.terms /\ c \in x.anchored
  BY <1>1, <1>2, <1>3, <1>4, CallOK DEF OneMore, FoldedCall
<1>6. LogOK
  BY DEF LoopInv
<1>. PICK seen2, stale2, calls2 : seen2 = seen' /\ stale2 = stale' /\ calls2 = calls'
  OBVIOUS
<1>7. /\ seen2 \in Seq(Pages) /\ Unrepeated(seen2)
      /\ ToSet(seen2) \subseteq Shown(calls2)
  <2>1. seen \in Seq(Pages) /\ Unrepeated(seen) /\ ToSet(seen) \subseteq Shown(calls)
    BY <1>6 DEF LogOK
  <2>2. Unrepeated(seen2) /\ ToSet(seen2) = ToSet(seen) \union ToSet(pages)
    BY <1>2, <1>3, <2>1, FreshAppended
  <2>3. ToSet(seen) \subseteq Pages
    BY <2>1 DEF ToSet
  <2>4. seen2 \in Seq(ToSet(seen2))
    BY <2>2 DEF Unrepeated, IsList
  <2>. QED  BY <1>3, <1>5, <2>1, <2>2, <2>3, <2>4
<1>8. /\ DOMAIN calls2 = DOMAIN calls \union {m} /\ m \notin DOMAIN calls
      /\ \A n \in DOMAIN calls : calls2[n] = calls[n]
  BY <1>5 DEF OneMore
<1>9. \A n \in DOMAIN calls2 : /\ calls2[n].kind = "search" => calls2[n].page = Nothing
                               /\ calls2[n].kind = "read" => calls2[n].page \in scraped'
  BY <1>2, <1>5, <1>6, <1>8 DEF LogOK
<1>10. \A n \in DOMAIN calls2 : calls2[n].kind = "search" /\ ~calls2[n].moved =>
                                   calls2[n].words \in stale2
  BY <1>2, <1>5, <1>6, <1>8 DEF LogOK
<1>11. Shown(calls2) \subseteq Pages
  BY <1>3, <1>5, <1>6 DEF LogOK
<1>12. scraped' \subseteq Pages /\ dead' \subseteq {HostOf[p] : p \in Pages}
  BY <1>2, <1>6 DEF LogOK
<1>13. LogOK'
  BY <1>5, <1>7, <1>9, <1>10, <1>11, <1>12 DEF LogOK
<1>14. driver' \in Drivers /\ given' \in GivenStatuses /\ outcome'.kind \in {"running", "answer", "abstain", "spent"}
  BY <1>2 DEF LoopInv
<1>15. LoopInv'
  BY <1>5, <1>13, <1>14 DEF LoopInv, FrontierOK
<1>. QED  BY <1>1, <1>2, <1>5, <1>15

(* A read keeps the invariant, and is of a page that was readable.         *)
LEMMA ReadKeeps ==
    ASSUME LoopInv, InLoop, UNCHANGED <<driver, given>>, ReadStep
    PROVE  /\ LoopInv' /\ OneMore /\ FoldedCall /\ UNCHANGED outcome
           /\ calls'[Len(calls) + 1].kind = "read"
           /\ Readable(calls'[Len(calls) + 1].page)
<1>0. PICK by \in Pickers :
        \E page, d :
                    /\ Readable(page) /\ d.slot \in Places /\ d.cons \subseteq Constraints
                    /\ Read(by, page, d)
  BY DEF ReadStep
<1>1. PICK page, d :
          /\ Readable(page) /\ d.slot \in Places /\ d.cons \subseteq Constraints
          /\ Read(by, page, d)
  BY <1>0
<1>2. PICK ok \in BOOLEAN, improved \in BOOLEAN :
        LET readings == IF ok THEN <<Reading(page, Body[page])>> ELSE <<>> IN
        /\ Folded(readings, d, TRUE)
        /\ scraped' = scraped \union {page}
        /\ dead' = IF ok /\ improved /\ Progressed(table, table')
                   THEN dead ELSE dead \union {HostOf[page]}
        /\ Logged("read", by, d.slot, page, {}, IF ok THEN <<page>> ELSE <<>>)
        /\ UNCHANGED <<seen, asked, stale, outcome>>
  BY <1>1 DEF Read
<1>. PICK seq, pages : /\ seq = IF ok THEN <<Reading(page, Body[page])>> ELSE <<>>
                       /\ pages = IF ok THEN <<page>> ELSE <<>>
  OBVIOUS
<1>3. page \in Pages /\ page \in Shown(calls)
  BY <1>1 DEF Readable
<1>4. pages \in Seq(Pages) /\ ToSet(pages) \subseteq {page} /\ (ok => page \in ToSet(pages))
  <2>1. ToSet(<<page>>) = {page} /\ ToSet(<<>>) = {}
    BY DEF ToSet
  <2>2. <<page>> \in Seq(Pages) /\ <<>> \in Seq(Pages)
    BY <1>3
  <2>. QED  BY <2>1, <2>2
<1>5. ReadsOf(seq, "read", pages)
  <2>. PICK r : r = Reading(page, Body[page])
    OBVIOUS
  <2>1. r = Reading(page, Heard("read", page))
    BY DEF Heard
  <2>2. IsList(<<r>>) /\ IsList(<<>>)
    BY DEF IsList, ToSet
  <2>3. seq = IF ok THEN <<r>> ELSE <<>>
    OBVIOUS
  <2>4. CASE ok
    <3>1. seq = <<r>>
      BY <2>3, <2>4
    <3>2. \A i \in DOMAIN seq : seq[i] = r
      BY <3>1
    <3>. QED  BY <1>4, <2>1, <2>2, <2>4, <3>1, <3>2 DEF ReadsOf
  <2>5. CASE ~ok
    <3>1. seq = <<>> /\ DOMAIN seq = {}
      BY <2>3, <2>5
    <3>. QED  BY <2>2, <3>1 DEF ReadsOf
  <2>. QED  BY <2>4, <2>5
<1>6. Folded(seq, d, TRUE) /\ Logged("read", by, d.slot, page, {}, pages)
  BY <1>2
<1>. DEFINE m == Len(calls) + 1
<1>7. /\ calls' \in Seq(Calls) /\ Len(calls') = m /\ Len(calls') <= Budget
      /\ OneMore
      /\ calls'[m].kind = "read" /\ calls'[m].page = page
      /\ TableOK(table', Len(calls'))
      /\ FrontierOK(frontier', Sources(calls'), Shown(calls'), table'.status,
                    Idles(calls'), Len(calls'))
      /\ Shown(calls') = Shown(calls)
      /\ FoldedCall
      /\ \A c \in Hard : table'.status[c] = "resolved" /\ given[c] # "resolved" =>
            \E x \in Sources(calls') : c \in x.terms /\ c \in x.anchored
  <2>1. ToSet(pages) \subseteq Shown(calls) /\ {} \in SUBSET Words
    BY <1>3, <1>4
  <2>2. d.slot \in Places /\ d.cons \subseteq Constraints /\ page \in Pages \union {Nothing}
    BY <1>1, <1>3
  <2>. QED  BY <1>4, <1>5, <1>6, <2>1, <2>2, CallOK, ZenonT(60) DEF OneMore, FoldedCall
<1>8. LogOK
  BY DEF LoopInv
<1>. PICK calls2 : calls2 = calls'
  OBVIOUS
<1>9. /\ DOMAIN calls2 = DOMAIN calls \union {m} /\ m \notin DOMAIN calls
      /\ \A n \in DOMAIN calls : calls2[n] = calls[n]
  BY <1>7 DEF OneMore
<1>10. /\ scraped' = scraped \union {page} /\ UNCHANGED <<seen, stale, outcome>>
       /\ dead' \subseteq dead \union {HostOf[page]}
  BY <1>2
<1>11. \A n \in DOMAIN calls2 : /\ calls2[n].kind = "search" => calls2[n].page = Nothing
                                /\ calls2[n].kind = "read" => calls2[n].page \in scraped'
  BY <1>7, <1>8, <1>9, <1>10 DEF LogOK
<1>12. \A n \in DOMAIN calls2 : calls2[n].kind = "search" /\ ~calls2[n].moved =>
                                   calls2[n].words \in stale'
  BY <1>7, <1>8, <1>9, <1>10 DEF LogOK
<1>13. scraped' \subseteq Pages /\ dead' \subseteq {HostOf[p] : p \in Pages}
  BY <1>3, <1>8, <1>10 DEF LogOK
<1>14. /\ seen' \in Seq(Pages) /\ Unrepeated(seen)' /\ ToSet(seen') \subseteq Shown(calls2)
       /\ Shown(calls2) \subseteq Pages
  BY <1>7, <1>8, <1>10 DEF LogOK, Unrepeated, IsList
<1>15. LogOK'
  BY <1>7, <1>11, <1>12, <1>13, <1>14 DEF LogOK
<1>16. driver' \in Drivers /\ given' \in GivenStatuses /\ outcome'.kind \in {"running", "answer", "abstain", "spent"}
  BY <1>10 DEF LoopInv
<1>17. LoopInv'
  BY <1>7, <1>15, <1>16 DEF LoopInv, FrontierOK
<1>. QED  BY <1>1, <1>7, <1>10, <1>17

\* Ending the attempt leaves all but the outcome.
LEMMA EndKeeps ==
    ASSUME LoopInv, UNCHANGED <<driver, given>>, EndStep
    PROVE  /\ LoopInv' /\ UNCHANGED <<table, frontier, calls>>
           /\ outcome'.kind = "answer" /\ outcome'.by # "planner" => Answerable(frontier)
           /\ outcome'.kind = "answer" /\ outcome'.by = "planner" => AnswerSupported(table)
<1>1. PICK by : \E kind \in {"answer", "abstain", "spent"} :
        /\ kind = "answer" /\ by # "planner" => Answerable(frontier)
        /\ kind = "answer" /\ by = "planner" => AnswerSupported(table)
        /\ Ends(kind, by)
  BY DEF EndStep
<1>0. PICK kind \in {"answer", "abstain", "spent"} :
        /\ kind = "answer" /\ by # "planner" => Answerable(frontier)
        /\ kind = "answer" /\ by = "planner" => AnswerSupported(table)
        /\ Ends(kind, by)
  BY <1>1
<1>2. /\ UNCHANGED <<table, frontier, seen, scraped, dead, asked, stale, calls>>
      /\ outcome'.kind = kind /\ outcome'.by = by
  BY <1>0 DEF Ends
<1>3. LogOK'
  BY <1>2 DEF LoopInv, LogOK
<1>4. LoopInv'
  BY <1>0, <1>2, <1>3 DEF LoopInv
<1>. QED  BY <1>0, <1>2, <1>4

(* Every step keeps the invariant.                                         *)
LEMMA NextKeeps == ASSUME LoopInv, [Next]_vars PROVE LoopInv'
<1>1. CASE UNCHANGED vars
  <2>1. UNCHANGED <<driver, given, table, frontier, seen, scraped, dead, asked, stale, calls, outcome>>
    BY <1>1 DEF vars
  <2>2. LogOK'
    BY <2>1 DEF LoopInv, LogOK
  <2>. QED  BY <2>1, <2>2 DEF LoopInv
<1>2. CASE Next
  BY <1>1, <1>2, StepCases, SearchKeeps, ReadKeeps, EndKeeps
<1>. QED  BY <1>1, <1>2

(* The stores of an attempt agree with the calls it made, at every step.   *)
THEOREM LoopInvHolds == Spec => []LoopInv
<1>1. Init => LoopInv
  BY InitOK
<1>2. LoopInv /\ [Next]_vars => LoopInv'
  BY NextKeeps
<1>. QED  BY <1>1, <1>2, PTL DEF Spec

-----------------------------------------------------------------------------
(* The properties. *)

(* A content heard on a clean page was observed, as the properties say it. *)
LEMMA HeardOf ==
    ASSUME NEW x \in Sources(calls)
    PROVE  \E n \in DOMAIN calls : \E p \in ToSet(calls[n].pages) \ Dirty : x = ContentOf(n, p)
BY DEF Sources, Heard, ContentOf

(* One candidate per text and slot, one hypothesis per target candidate,   *)
(* one evidence record per call: the stores keep their shapes.             *)
THEOREM ShapesKept == Spec => []TypeOK
<1>1. ASSUME LoopInv PROVE TypeOK
  <2>1. /\ LogOK /\ TableOK(table, Len(calls))
        /\ CandsOK(frontier.cands, Sources(calls), Shown(calls), table.status, Idles(calls))
        /\ HypsOK(frontier.hyps, frontier.cands)
    BY <1>1 DEF LoopInv
  <2>2. /\ calls \in Seq(Calls) /\ Len(calls) <= Budget /\ Len(calls) \in Nat
        /\ DOMAIN calls = 1..Len(calls)
    BY <2>1 DEF LogOK
  <2>3. /\ table.status \in [Constraints -> Statuses]
        /\ IsInjective(table.cands) /\ ToSet(table.cands) \subseteq Texts
        /\ Len(table.evidence) = Len(calls)
    <3>1. table.cands \in Seq(Texts) /\ Unrepeated(table.cands)
      BY <2>1 DEF TableOK
    <3>2. ToSet(table.cands) \subseteq Texts
      BY <3>1 DEF ToSet
    <3>. QED  BY <2>1, <3>1, <3>2 DEF TableOK, Unrepeated, IsInjective
  <2>4. \A i \in DOMAIN table.hyps :
           /\ table.hyps[i].evidence \subseteq DOMAIN calls
           /\ table.hyps[i].active \in BOOLEAN
           /\ \A j \in DOMAIN table.hyps : i # j =>
                 table.hyps[i].assign[Target] # table.hyps[j].assign[Target]
    <3>1. \A i \in DOMAIN table.hyps : TableHypOK(table.hyps[i], Len(calls))
      BY <2>1 DEF TableOK
    <3>2. \A i, j \in DOMAIN table.hyps :
             table.hyps[i].assign[Target] = table.hyps[j].assign[Target] => i = j
      BY <2>1 DEF TableOK
    <3>. QED  BY <2>2, <3>1, <3>2 DEF TableHypOK
  <2>5. IsList(frontier.cands)
    BY <2>1 DEF CandsOK
  <2>6. \A i \in DOMAIN frontier.cands : frontier.cands[i] \in Candidates
    BY <2>1 DEF CandsOK, CandOK
  <2>7. frontier.cands \in Seq(Candidates)
    <3>1. frontier.cands \in Seq(ToSet(frontier.cands))
      BY <2>5 DEF IsList
    <3>2. ToSet(frontier.cands) \subseteq Candidates
      BY <2>6 DEF ToSet
    <3>. QED  BY <3>1, <3>2
  <2>8. \A i, j \in DOMAIN frontier.cands : i # j =>
           \/ frontier.cands[i].text # frontier.cands[j].text
           \/ frontier.cands[i].slot # frontier.cands[j].slot
    BY <2>1 DEF CandsOK
  <2>9. \A k \in DOMAIN frontier.hyps :
           frontier.hyps[k].assign[Target] \in Slate(frontier, Target)
    BY <2>1 DEF HypsOK, HypOK, Slate
  <2>10. frontier.streak \in [Slots -> 0..Budget]
    <3>1. frontier.streak \in [Slots -> 0..Len(calls)]
      BY <1>1 DEF LoopInv
    <3>2. 0..Len(calls) \subseteq 0..Budget
      BY <2>2, LoopAssumption
    <3>. QED  BY <3>1, <3>2
  <2>11. seen \in Seq(Pages) /\ IsInjective(seen) /\ scraped \subseteq Pages
         /\ dead \subseteq {HostOf[p] : p \in Pages}
    BY <2>1 DEF LogOK, Unrepeated, IsInjective
  <2>12. driver \in Drivers /\ given \in GivenStatuses /\ outcome.kind \in {"running", "answer", "abstain", "spent"}
    BY <1>1 DEF LoopInv
  <2>. QED  BY <2>2, <2>3, <2>4, <2>7, <2>8, <2>9, <2>10, <2>11, <2>12 DEF TypeOK
<1>. QED  BY <1>1, LoopInvHolds, PTL

(* A candidate's support always rests on a clean page of the attempt that  *)
(* names it, supports the constraint and does not contradict it.           *)
THEOREM SupportHasSource == Spec => []SupportIsSourced
<1>1. ASSUME LoopInv PROVE SupportIsSourced
  <2>1. ASSUME NEW i \in DOMAIN frontier.cands, NEW con \in frontier.cands[i].sup
        PROVE  \E n \in DOMAIN calls : \E p \in ToSet(calls[n].pages) \ Dirty :
                  /\ frontier.cands[i].text \in ToSet(ContentOf(n, p).texts)
                  /\ con \in (ContentOf(n, p).terms \union ContentOf(n, p).corroborated)
                             \ ContentOf(n, p).opposed
    <3>1. CandOK(frontier.cands[i], Sources(calls), Shown(calls), table.status, Idles(calls))
      BY <1>1 DEF LoopInv, CandsOK
    <3>2. PICK x \in Sources(calls) :
             /\ frontier.cands[i].text \in ToSet(x.texts)
             /\ con \in (x.terms \union x.corroborated) \ x.opposed
      BY <3>1 DEF CandOK
    <3>. QED  BY <3>2, HeardOf
  <2>. QED  BY <2>1 DEF SupportIsSourced, Observed
<1>. QED  BY <1>1, LoopInvHolds, PTL

(* A blocking constraint that the parser's reply left open counts as       *)
(* resolved only by a clean page with its terms and a name or a year of    *)
(* its own.                                                                *)
THEOREM ResolvedHasSource == Spec => []ResolvedByEvidence
<1>1. ASSUME LoopInv PROVE ResolvedByEvidence
  <2>1. ASSUME NEW c \in Hard, table.status[c] = "resolved", given[c] # "resolved"
        PROVE  \E n \in DOMAIN calls : \E p \in ToSet(calls[n].pages) \ Dirty :
                  c \in ContentOf(n, p).terms /\ c \in ContentOf(n, p).anchored
    <3>1. PICK x \in Sources(calls) : c \in x.terms /\ c \in x.anchored
      BY <1>1, <2>1 DEF LoopInv
    <3>. QED  BY <3>1, HeardOf
  <2>. QED  BY <2>1 DEF ResolvedByEvidence, Observed
<1>. QED  BY <1>1, LoopInvHolds, PTL

(* A candidate is rejected for a contradiction on a clean page that names  *)
(* it or after calls that moved nothing, each counted once.                *)
THEOREM RejectionHasReason == Spec => []RejectionIsEarned
<1>1. ASSUME LoopInv PROVE RejectionIsEarned
  <2>1. ASSUME NEW i \in DOMAIN frontier.cands
        PROVE  CandOK(frontier.cands[i], Sources(calls), Shown(calls), table.status, Idles(calls))
    BY <1>1 DEF LoopInv, CandsOK
  <2>2. ASSUME NEW i \in DOMAIN frontier.cands, frontier.cands[i].status = "rejected",
               frontier.cands[i].idle # REJECT_NO_PROGRESS
        PROVE  \E con \in frontier.cands[i].con : \E n \in DOMAIN calls :
                 \E p \in ToSet(calls[n].pages) \ Dirty :
                    /\ frontier.cands[i].text \in ToSet(ContentOf(n, p).texts)
                    /\ con \in ContentOf(n, p).opposed
    <3>1. PICK con \in frontier.cands[i].con : TRUE
      BY <2>1, <2>2 DEF CandOK
    <3>2. PICK x \in Sources(calls) : /\ frontier.cands[i].text \in ToSet(x.texts)
                                      /\ con \in x.opposed
      BY <2>1 DEF CandOK
    <3>. QED  BY <3>1, <3>2, HeardOf
  <2>3. \A i \in DOMAIN frontier.cands :
           frontier.cands[i].idle <= Cardinality({n \in DOMAIN calls : ~calls[n].moved})
    BY <2>1 DEF CandOK, Idles
  <2>. QED  BY <2>2, <2>3 DEF RejectionIsEarned, Observed
<1>. QED  BY <1>1, LoopInvHolds, PTL

(* What every later call keeps of the log.                                 *)
LEMMA LaterCalls ==
    ASSUME LoopInv, [Next]_vars
    PROVE  \/ UNCHANGED calls
           \/ OneMore /\ LoopInv' /\ outcome' = Running
              /\ \/ /\ calls'[Len(calls) + 1].kind = "search"
                    /\ calls'[Len(calls) + 1].by = "llm" =>
                          ~Worn(calls'[Len(calls) + 1].words, stale)
                 \/ /\ calls'[Len(calls) + 1].kind = "read"
                    /\ Readable(calls'[Len(calls) + 1].page)
<1>1. CASE InLoop /\ UNCHANGED <<driver, given>> /\ SearchStep
  BY <1>1, SearchKeeps DEF InLoop
<1>2. CASE InLoop /\ UNCHANGED <<driver, given>> /\ ReadStep
  BY <1>2, ReadKeeps DEF InLoop
<1>3. CASE outcome = Running /\ UNCHANGED <<driver, given>> /\ EndStep
  BY <1>3, EndKeeps
<1>4. CASE UNCHANGED vars
  BY <1>4 DEF vars
<1>. QED  BY <1>1, <1>2, <1>3, <1>4, StepCases

(* No proposal searches again for what led nowhere, with a word more or    *)
(* less, whoever had tried it.                                             *)
THEOREM NoWornSearch == Spec => []NoWornQuery
<1>1. Init => NoWornQuery
  BY DEF Init, NoWornQuery
<1>2. ASSUME LoopInv, NoWornQuery, [Next]_vars PROVE NoWornQuery'
  <2>1. CASE UNCHANGED calls
    BY <1>2, <2>1 DEF NoWornQuery
  <2>2. CASE ~UNCHANGED calls
    <3>. PICK log : log = calls'
      OBVIOUS
    <3>. DEFINE m == Len(calls) + 1
    <3>1. OneMore
      BY <1>2, <2>2, LaterCalls
    <3>2. log[m].kind = "search" /\ log[m].by = "llm" => ~Worn(log[m].words, stale)
      BY <1>2, <2>2, LaterCalls
    <3>3. /\ Len(calls) \in Nat /\ DOMAIN calls = 1..Len(calls) /\ DOMAIN log = 1..m
          /\ \A n \in DOMAIN calls : log[n] = calls[n]
      BY <3>1 DEF OneMore
    <3>4. \A n \in DOMAIN calls : calls[n].kind = "search" /\ ~calls[n].moved =>
             calls[n].words \in stale
      BY <1>2 DEF LoopInv, LogOK
    <3>5. ASSUME NEW n \in DOMAIN log, log[n].kind = "search", log[n].by = "llm",
                 NEW k \in 1..(n - 1), log[k].kind = "search", ~log[k].moved
          PROVE  ~Variant(log[n].words, log[k].words)
      <4>1. n \in Int /\ k \in DOMAIN calls /\ log[k] = calls[k]
        BY <3>3
      <4>2. CASE n = m
        <5>1. calls[k].words \in stale
          BY <3>4, <3>5, <4>1
        <5>. QED  BY <3>2, <3>5, <4>1, <4>2, <5>1 DEF Worn
      <4>3. CASE n # m
        <5>1. n \in DOMAIN calls /\ log[n] = calls[n]
          BY <3>3, <4>3
        <5>. QED  BY <1>2, <3>5, <4>1, <5>1 DEF NoWornQuery
      <4>. QED  BY <4>2, <4>3
    <3>. QED  BY <3>5 DEF NoWornQuery
  <2>. QED  BY <2>1, <2>2
<1>. QED  BY <1>1, <1>2, LoopInvHolds, PTL DEF Spec

(* Whoever picks the reads, a page is read once, was shown by a search     *)
(* before, and is neither dirty nor social.                                *)
THEOREM EachPageOnce == Spec => []ReadOnce
<1>1. Init => ReadOnce
  BY DEF Init, ReadOnce
<1>2. ASSUME LoopInv, ReadOnce, [Next]_vars PROVE ReadOnce'
  <2>1. CASE UNCHANGED calls
    BY <1>2, <2>1 DEF ReadOnce
  <2>2. CASE ~UNCHANGED calls
    <3>. PICK log : log = calls'
      OBVIOUS
    <3>. DEFINE m == Len(calls) + 1
    <3>1. OneMore
      BY <1>2, <2>2, LaterCalls
    <3>2. log[m].kind = "read" => Readable(log[m].page)
      BY <1>2, <2>2, LaterCalls
    <3>3. /\ Len(calls) \in Nat /\ DOMAIN calls = 1..Len(calls) /\ DOMAIN log = 1..m
          /\ \A n \in DOMAIN calls : log[n] = calls[n]
      BY <3>1 DEF OneMore
    <3>4. \A k \in DOMAIN calls : /\ calls[k].kind = "search" => calls[k].page = Nothing
                                  /\ calls[k].kind = "read" => calls[k].page \in scraped
                                  /\ calls[k].kind \in {"search", "read"}
      <4>1. LogOK /\ calls \in Seq(Calls)
        BY <1>2 DEF LoopInv, LogOK
      <4>2. \A k \in DOMAIN calls : calls[k] \in Calls
        BY <4>1
      <4>3. \A call \in Calls : call.kind \in {"search", "read"}
        BY DEF Calls
      <4>. QED  BY <4>1, <4>2, <4>3 DEF LogOK
    <3>5. ASSUME NEW n \in DOMAIN log, log[n].kind = "read"
          PROVE  /\ log[n].page \notin Dirty \union Social
                 /\ \A k \in 1..(n - 1) : log[k].page # log[n].page
                 /\ \E k \in 1..(n - 1) : log[k].kind = "search"
                                          /\ log[n].page \in ToSet(log[k].pages)
      <4>1. CASE n = m
        <5>. PICK page : page = log[n].page
          OBVIOUS
        <5>1. page \in Shown(calls) \ Dirty /\ page \in Pages /\ page \notin scraped
              /\ page \notin Social
          BY <3>2, <3>5, <4>1 DEF Readable, Open
        <5>2. \A k \in DOMAIN calls : calls[k].page # page
          BY <3>4, <5>1, LoopAssumption
        <5>3. \E k \in DOMAIN calls : calls[k].kind = "search" /\ page \in ToSet(calls[k].pages)
          BY <5>1 DEF Shown
        <5>4. 1..(n - 1) = DOMAIN calls
          BY <3>3, <4>1
        <5>. QED  BY <3>3, <5>1, <5>2, <5>3, <5>4
      <4>2. CASE n # m
        <5>1. n \in DOMAIN calls /\ log[n] = calls[n] /\ 1..(n - 1) \subseteq DOMAIN calls
          BY <3>3, <4>2
        <5>2. \A k \in 1..(n - 1) : log[k] = calls[k]
          BY <3>3, <5>1
        <5>3. /\ calls[n].page \notin Dirty \union Social
              /\ \A k \in 1..(n - 1) : calls[k].page # calls[n].page
              /\ \E k \in 1..(n - 1) : calls[k].kind = "search"
                                       /\ calls[n].page \in ToSet(calls[k].pages)
          BY <1>2, <3>5, <5>1 DEF ReadOnce
        <5>. QED  BY <5>1, <5>2, <5>3
      <4>. QED  BY <4>1, <4>2
    <3>. QED  BY <3>5 DEF ReadOnce
  <2>. QED  BY <2>1, <2>2
<1>. QED  BY <1>1, <1>2, LoopInvHolds, PTL DEF Spec

(* When the frontier answers, nothing the answer rests on is stale.        *)
LEMMA AnswerableIsFresh ==
    ASSUME LoopInv, Answerable(frontier)
    PROVE  \E k \in Leading(frontier) :
              LET h == frontier.hyps[k]
                  c == frontier.cands[h.assign[Target]]
              IN  /\ c.status = "confirmed"
                  /\ OpenBlocking(Target, table.status) \subseteq c.sup
                  /\ \A s \in DOMAIN h.assign : frontier.cands[h.assign[s]].con = {}
<1>1. PICK k \in Leading(frontier) :
        /\ frontier.cands[frontier.hyps[k].assign[Target]].status = "confirmed"
        /\ frontier.hyps[k].con = {}
  BY DEF Answerable
<1>2. k \in DOMAIN frontier.hyps
  BY <1>1 DEF Leading
<1>. PICK h, c : h = frontier.hyps[k] /\ c = frontier.cands[h.assign[Target]]
  OBVIOUS
<1>3. HypOK(h, frontier.cands)
  BY <1>2 DEF LoopInv, HypsOK
<1>4. /\ h.assign[Target] \in DOMAIN frontier.cands /\ c.slot = Target
      /\ c.status = "confirmed" /\ h.con = {}
  BY <1>1, <1>3 DEF HypOK
<1>5. OpenBlocking(Target, table.status) \subseteq c.sup
  <2>1. CandOK(c, Sources(calls), Shown(calls), table.status, Idles(calls))
    BY <1>4 DEF LoopInv, CandsOK
  <2>. QED  BY <1>4, <2>1 DEF CandOK
<1>6. \A s \in DOMAIN h.assign : frontier.cands[h.assign[s]].con = {}
  <2>1. UNION {frontier.cands[h.assign[s]].con : s \in DOMAIN h.assign} = {}
    BY <1>3, <1>4 DEF HypOK, Live
  <2>. QED  BY <2>1
<1>. QED  BY <1>1, <1>4, <1>5, <1>6

(* When the frontier answers, the leading hypothesis is not stale: its     *)
(* target is confirmed now, and nothing it assigns has been contradicted.  *)
THEOREM AnswersAreFresh == Spec => []AnswerIsFresh
<1>1. Init => AnswerIsFresh
  BY DEF Init, AnswerIsFresh, Running
<1>2. ASSUME LoopInv, AnswerIsFresh, [Next]_vars PROVE AnswerIsFresh'
  <2>1. CASE UNCHANGED vars
    BY <1>2, <2>1, SMTT(30) DEF vars, AnswerIsFresh, Leading, OpenBlocking
  <2>2. CASE InLoop /\ UNCHANGED <<driver, given>> /\ SearchStep
    <3>1. outcome' = Running
      BY <1>2, <2>2, SearchKeeps DEF InLoop
    <3>. QED  BY <3>1 DEF AnswerIsFresh, Running
  <2>3. CASE InLoop /\ UNCHANGED <<driver, given>> /\ ReadStep
    <3>1. outcome' = Running
      BY <1>2, <2>3, ReadKeeps DEF InLoop
    <3>. QED  BY <3>1 DEF AnswerIsFresh, Running
  <2>4. CASE outcome = Running /\ UNCHANGED <<driver, given>> /\ EndStep
    <3>1. UNCHANGED <<table, frontier>>
          /\ (outcome'.kind = "answer" /\ outcome'.by # "planner" => Answerable(frontier))
      BY <1>2, <2>4, EndKeeps
    <3>2. ASSUME outcome'.kind = "answer", outcome'.by # "planner"
          PROVE  \E k \in Leading(frontier) :
                    LET h == frontier.hyps[k]
                        c == frontier.cands[h.assign[Target]]
                    IN  /\ c.status = "confirmed"
                        /\ OpenBlocking(Target, table.status) \subseteq c.sup
                        /\ \A s \in DOMAIN h.assign : frontier.cands[h.assign[s]].con = {}
      BY <1>2, <3>1, <3>2, AnswerableIsFresh
    <3>. QED  BY <3>1, <3>2, SMTT(30) DEF AnswerIsFresh, Leading, OpenBlocking
  <2>. QED  BY <1>2, <2>1, <2>2, <2>3, <2>4, StepCases
<1>. QED  BY <1>1, <1>2, LoopInvHolds, PTL DEF Spec

-----------------------------------------------------------------------------
(* The planner's answer and the evidence records. *)

\* A target candidate with a clean record of evidence is named on a clean page.
EvidenceNamed(t, heard) ==
    \A i \in DOMAIN t.hyps : \A n \in t.hyps[i].evidence : t.evidence[n].clean =>
        \E x \in heard : t.hyps[i].assign[Target] \in ToSet(x.texts)

\* The same hypotheses, but for how active and how idle they are.
SameEvidence(u, t) ==
    /\ DOMAIN u.hyps = DOMAIN t.hyps /\ u.evidence = t.evidence
    /\ \A i \in DOMAIN t.hyps : /\ u.hyps[i].assign = t.hyps[i].assign
                                /\ u.hyps[i].evidence = t.hyps[i].evidence

(* Rejecting and ageing leave the evidence alone.                          *)
LEMMA EvidenceLeft ==
    ASSUME NEW n \in Nat, NEW t, TableOK(t, n)
    PROVE  SameEvidence(RejectContradicted(t), t) /\ SameEvidence(NoteNoProgress(t), t)
<1>1. \A i \in DOMAIN t.hyps :
         DOMAIN t.hyps[i] = {"assign", "con", "evidence", "idle", "active"}
  BY DEF TableOK, TableHypOK
<1>2. DOMAIN t = {"status", "cands", "evidence", "hyps"}
  BY DEF TableOK
<1>3. SameEvidence(RejectContradicted(t), t)
  BY <1>1, <1>2 DEF RejectContradicted, SameEvidence
<1>4. SameEvidence(NoteNoProgress(t), t)
  BY <1>1, <1>2 DEF NoteNoProgress, SameEvidence
<1>. QED  BY <1>3, <1>4

\* A hypothesis after one more call that names its target candidate.
Gains(g, h, n) ==
    /\ g.evidence = h.evidence \union {n} /\ g.assign[Target] = h.assign[Target]

(* What a hypothesis gains from a call is the call's own record.           *)
LEMMA AdvancedGains ==
    ASSUME NEW n \in Nat, NEW h, TableHypOK(h, n), NEW status, NEW cands \in Seq(Texts)
    PROVE  Gains(Advanced(h, status, cands, n + 1), h, n + 1)
<1>. DEFINE g == Advanced(h, status, cands, n + 1)
<1>1. g.evidence = h.evidence \union {n + 1}
  BY DEF Advanced, TableHypOK
<1>2. g.assign[Target] = h.assign[Target]
  BY AdvancedOK
<1>. HIDE DEF g
<1>3. Gains(g, h, n + 1)
  BY <1>1, <1>2 DEF Gains
<1>. QED  BY <1>3 DEF g

(* One call's evidence names the candidates it is recorded for.            *)
LEMMA IngestNamed ==
    ASSUME NEW n \in Nat, NEW t, TableOK(t, n), NEW seq, Readings(seq),
           NEW heard, EvidenceNamed(t, heard),
           \A i \in DOMAIN seq : ~seq[i].dirty => seq[i].content \in heard
    PROVE  EvidenceNamed(Ingest(t, seq), heard)
<1>. DEFINE status == [c \in Constraints |->
                         IF t.status[c] # "contradicted"
                            /\ \E i \in DOMAIN seq : Resolves(c, seq[i])
                         THEN "resolved" ELSE t.status[c]]
            cands == t.cands \o Fresh(TextsOf(seq), ToSet(t.cands))
            named == {x \in ToSet(TextsOf(seq)) : Target \in SlotsOf(x)}
            hypFor(x) == {i \in DOMAIN t.hyps : t.hyps[i].assign[Target] = x}
            texts == Fresh(TextsOf(seq), {})
            free == {i \in DOMAIN texts : texts[i] \in named /\ hypFor(texts[i]) = {}}
            born == Picked(texts, free)
            old == [i \in DOMAIN t.hyps |->
                      IF t.hyps[i].assign[Target] \in named
                      THEN Advanced(t.hyps[i], status, cands, Len(t.evidence) + 1)
                      ELSE t.hyps[i]]
            new == [i \in DOMAIN born |->
                      Advanced(NewHypothesis(born[i]), status, cands, Len(t.evidence) + 1)]
            clean == \A i \in DOMAIN seq : ~seq[i].dirty
            record == [clean |-> clean,
                       slots |-> UNION {SlotsOf(x) : x \in ToSet(TextsOf(seq))},
                       shape |-> \E i \in DOMAIN seq : seq[i].content.shape]
            u == Ingest(t, seq)
<1>1. u.hyps = old \o new /\ u.evidence = Append(t.evidence, record)
  BY DEF Ingest
<1>2. Len(t.evidence) = n /\ IsList(t.evidence) /\ IsList(t.hyps)
  BY DEF TableOK
<1>3. /\ \A m \in 1..n : u.evidence[m] = t.evidence[m]
      /\ u.evidence[n + 1].clean = clean
  <2>1. record.clean = clean
    OBVIOUS
  <2>. HIDE DEF record, clean, u
  <2>2. /\ \A m \in 1..n : Append(t.evidence, record)[m] = t.evidence[m]
        /\ Append(t.evidence, record)[n + 1] = record
    BY <1>2, AppendLists
  <2>. QED  BY <1>1, <2>1, <2>2
<1>4. cands \in Seq(Texts)
  <2>1. IsList(TextsOf(seq)) /\ ToSet(TextsOf(seq)) \subseteq Texts
    BY TextLists
  <2>2. Unrepeated(cands) /\ ToSet(cands) = ToSet(t.cands) \union ToSet(TextsOf(seq))
    BY <2>1, FreshAppended DEF TableOK
  <2>3. ToSet(t.cands) \subseteq Texts
    BY DEF TableOK, ToSet
  <2>. HIDE DEF cands
  <2>4. cands \in Seq(ToSet(cands)) /\ ToSet(cands) \subseteq Texts
    BY <2>1, <2>2, <2>3 DEF Unrepeated, IsList
  <2>. QED  BY <2>4
<1>5. \A x \in named : x \in Texts /\ (clean => \E y \in heard : x \in ToSet(y.texts))
  <2>. SUFFICES ASSUME NEW x \in ToSet(TextsOf(seq))
                PROVE  x \in Texts /\ (clean => \E y \in heard : x \in ToSet(y.texts))
    OBVIOUS
  <2>. DEFINE lists == [i \in DOMAIN seq |-> seq[i].content.texts]
  <2>1. IsList(lists) /\ DOMAIN lists = DOMAIN seq
    BY FunctionIsList DEF Readings
  <2>2. ASSUME NEW i \in DOMAIN seq PROVE IsList(lists[i])
    <3>1. seq[i].content.texts \in Seq(Texts)
      BY DEF Readings, Reading, Contents
    <3>. QED  BY <3>1, SeqIsList
  <2>3. ToSet(FlattenSeq(lists)) = UNION {ToSet(lists[i]) : i \in DOMAIN lists}
    BY <2>1, <2>2, FlattenLists
  <2>4. TextsOf(seq) = FlattenSeq(lists)
    BY DEF TextsOf
  <2>5. PICK i \in DOMAIN seq : x \in ToSet(lists[i])
    BY <2>1, <2>3, <2>4
  <2>6. x \in Texts
    BY TextLists
  <2>. QED  BY <2>5, <2>6
<1>6. \A i \in DOMAIN born : born[i] \in named
  <2>1. IsList(texts) /\ free \in SUBSET (DOMAIN texts)
    <3>1. IsList(TextsOf(seq))
      BY TextLists
    <3>. QED  BY <3>1, FreshLists
  <2>2. \A i, j \in free : texts[i] = texts[j] => i = j
    <3>1. IsList(TextsOf(seq))
      BY TextLists
    <3>2. Unrepeated(texts)
      BY <3>1, FreshLists
    <3>. QED  BY <3>2 DEF Unrepeated
  <2>3. \A i \in free : texts[i] \in named
    OBVIOUS
  <2>. HIDE DEF texts, free, named
  <2>4. \A k \in DOMAIN born : \E i \in free : born[k] = texts[i]
    BY <2>1, <2>2, PickedLists
  <2>. QED  BY <2>3, <2>4
<1>. HIDE DEF status, cands, named, texts, free, born, clean, u
<1>7. ASSUME NEW i \in DOMAIN old, NEW m \in old[i].evidence, u.evidence[m].clean
      PROVE  \E x \in heard : old[i].assign[Target] \in ToSet(x.texts)
  <2>. PICK h : h = t.hyps[i]
    OBVIOUS
  <2>1. TableHypOK(h, n) /\ DOMAIN h = {"assign", "con", "evidence", "idle", "active"}
        /\ h.evidence \subseteq 1..n
    BY DEF TableOK, TableHypOK
  <2>2. CASE h.assign[Target] \in named
    <3>1. old[i] = Advanced(h, status, cands, n + 1)
      BY <1>2, <2>2
    <3>. PICK g : g = old[i]
      OBVIOUS
    <3>2. Gains(g, h, n + 1)
      BY <1>4, <2>1, <3>1, AdvancedGains
    <3>3. g.evidence = h.evidence \union {n + 1} /\ g.assign[Target] = h.assign[Target]
      BY <3>2 DEF Gains
    <3>4. CASE m = n + 1
      BY <1>3, <1>5, <1>7, <2>2, <3>3, <3>4
    <3>5. CASE m \in h.evidence
      <4>1. t.evidence[m].clean
        BY <1>3, <1>7, <2>1, <3>5
      <4>. QED  BY <3>3, <3>5, <4>1 DEF EvidenceNamed
    <3>. QED  BY <3>3, <3>4, <3>5
  <2>3. CASE h.assign[Target] \notin named
    <3>1. old[i] = h
      BY <2>3
    <3>2. t.evidence[m].clean
      BY <1>3, <1>7, <2>1, <3>1
    <3>. QED  BY <3>1, <3>2 DEF EvidenceNamed
  <2>. QED  BY <2>2, <2>3
<1>8. ASSUME NEW i \in DOMAIN new, NEW m \in new[i].evidence, u.evidence[m].clean
      PROVE  \E x \in heard : new[i].assign[Target] \in ToSet(x.texts)
  <2>. PICK h : h = NewHypothesis(born[i])
    OBVIOUS
  <2>1. born[i] \in named /\ born[i] \in Texts
    BY <1>5, <1>6
  <2>2. TableHypOK(h, n) /\ h.assign[Target] = born[i] /\ h.evidence = {}
        /\ DOMAIN h = {"assign", "con", "evidence", "idle", "active"}
    <3>1. TableHypOK(h, n) /\ h.assign[Target] = born[i]
      BY <2>1, NewHypothesisOK
    <3>. QED  BY <3>1 DEF NewHypothesis, TableHypOK
  <2>3. new[i] = Advanced(h, status, cands, n + 1)
    BY <1>2
  <2>. PICK g : g = new[i]
    OBVIOUS
  <2>4. Gains(g, h, n + 1)
    BY <1>4, <2>2, <2>3, AdvancedGains
  <2>5. g.evidence = {n + 1} /\ g.assign[Target] = born[i]
    BY <2>2, <2>4 DEF Gains
  <2>. QED  BY <1>3, <1>5, <1>8, <2>1, <2>5
<1>9. IsList(old) /\ IsList(new)
  <2>1. IsList(born)
    <3>1. IsList(TextsOf(seq))
      BY TextLists
    <3>2. IsList(texts) /\ free \in SUBSET (DOMAIN texts)
      BY <3>1, FreshLists DEF texts, free
    <3>3. \A i, j \in free : texts[i] = texts[j] => i = j
      BY <3>1, FreshLists DEF texts, free, Unrepeated
    <3>. QED  BY <3>2, <3>3, PickedLists DEF born, Unrepeated
  <2>. QED  BY <1>2, <2>1, FunctionIsList
<1>. HIDE DEF old, new
<1>. PICK hyps : hyps = old \o new
  OBVIOUS
<1>10. \A k \in DOMAIN hyps : \/ k \in DOMAIN old /\ hyps[k] = old[k]
                              \/ \E i \in DOMAIN new : hyps[k] = new[i]
  BY <1>9, ConcatParts
<1>11. \A k \in DOMAIN hyps : \A m \in hyps[k].evidence : u.evidence[m].clean =>
          \E x \in heard : hyps[k].assign[Target] \in ToSet(x.texts)
  BY <1>7, <1>8, <1>10
<1>. QED  BY <1>1, <1>11 DEF EvidenceNamed, u

(* So does the whole call, folded in.                                      *)
LEMMA FoldedNamed ==
    ASSUME NEW heard, NEW shown, NEW n \in Nat, NEW old, old \subseteq heard,
           TableOK(table, n), EvidenceNamed(table, old),
           NEW seq, Given(seq, heard, shown), NEW d, NEW read, Folded(seq, d, read)
    PROVE  EvidenceNamed(table', heard)
<1>. PICK told : told = Ingest(table, seq)
  OBVIOUS
<1>. PICK news : news = RejectContradicted(told)
  OBVIOUS
<1>. PICK t2 : t2 = table'
  OBVIOUS
<1>1. Readings(seq) /\ \A i \in DOMAIN seq : ~seq[i].dirty => seq[i].content \in heard
  <2>1. Readings(seq)
    BY DEF Given, Readings
  <2>2. ASSUME NEW i \in DOMAIN seq, ~seq[i].dirty PROVE seq[i].content \in heard
    <3>1. PICK p, x : seq[i] = Reading(p, x) /\ (p \notin Dirty => x \in heard)
      BY DEF Given
    <3>2. Reading(p, x).dirty = (p \in Dirty) /\ Reading(p, x).content = x
      BY DEF Reading
    <3>. QED  BY <2>2, <3>1, <3>2
  <2>. QED  BY <2>1, <2>2
<1>2. EvidenceNamed(table, heard)
  BY DEF EvidenceNamed
<1>3. TableOK(told, n + 1) /\ EvidenceNamed(told, heard)
  BY <1>1, <1>2, IngestOK, IngestNamed
<1>4. TableOK(news, n + 1) /\ SameEvidence(news, told)
  BY <1>3, RejectContradictedOK, EvidenceLeft
<1>5. EvidenceNamed(news, heard)
  BY <1>3, <1>4 DEF EvidenceNamed, SameEvidence
<1>6. t2 = news \/ t2 = NoteNoProgress(news)
  BY DEF Folded
<1>7. t2 = news \/ SameEvidence(t2, news)
  BY <1>4, <1>6, EvidenceLeft
<1>8. EvidenceNamed(t2, heard)
  BY <1>5, <1>7 DEF EvidenceNamed, SameEvidence
<1>. QED  BY <1>8

EvidenceInv ==
    /\ EvidenceNamed(table, Sources(calls))
    /\ outcome.kind = "answer" /\ outcome.by = "planner" => AnswerSupported(table)

(* The planner answers only with a candidate a clean page names, and with  *)
(* each gating constraint that blocks resolved by a clean page or by the   *)
(* parser's reply.                                                         *)
THEOREM AnswersHaveEvidence == Spec => []AnswerIsEvidenced
<1>1. Init => EvidenceInv
  BY DEF Init, EvidenceInv, EvidenceNamed, EmptyTable, Running
<1>2. ASSUME LoopInv, EvidenceInv, [Next]_vars PROVE EvidenceInv'
  <2>1. CASE UNCHANGED vars
    <3>1. UNCHANGED <<table, calls, outcome>>
      BY <2>1 DEF vars
    <3>. QED  BY <1>2, <3>1 DEF EvidenceInv, EvidenceNamed, Sources
  <2>2. CASE InLoop /\ UNCHANGED <<driver, given>> /\ (SearchStep \/ ReadStep)
    <3>1. outcome' = Running /\ FoldedCall
      BY <1>2, <2>2, SearchKeeps, ReadKeeps DEF InLoop
    <3>. PICK heard, shown : heard = Sources(calls') /\ shown = Shown(calls')
      OBVIOUS
    <3>2. /\ Sources(calls) \subseteq heard
          /\ \E seq, d, read : Folded(seq, d, read) /\ Given(seq, heard, shown)
      BY <3>1 DEF FoldedCall
    <3>3. PICK seq, d, read : Folded(seq, d, read) /\ Given(seq, heard, shown)
      BY <3>2
    <3>4. Len(calls) \in Nat /\ TableOK(table, Len(calls))
      BY <1>2 DEF LoopInv, LogOK
    <3>5. EvidenceNamed(table', heard)
      BY <1>2, <3>2, <3>3, <3>4, FoldedNamed DEF EvidenceInv
    <3>6. EvidenceNamed(table, Sources(calls))'
      BY <3>5 DEF EvidenceNamed
    <3>. QED  BY <3>1, <3>6 DEF EvidenceInv, Running
  <2>3. CASE outcome = Running /\ UNCHANGED <<driver, given>> /\ EndStep
    <3>1. UNCHANGED <<table, calls>>
          /\ (outcome'.kind = "answer" /\ outcome'.by = "planner" => AnswerSupported(table))
      BY <1>2, <2>3, EndKeeps
    <3>2. AnswerSupported(table) => AnswerSupported(table)'
      BY <3>1 DEF AnswerSupported, Best, Gate, Bound
    <3>3. EvidenceNamed(table, Sources(calls))'
      BY <1>2, <3>1 DEF EvidenceInv, EvidenceNamed, Sources
    <3>. QED  BY <3>1, <3>2, <3>3 DEF EvidenceInv
  <2>. QED  BY <1>2, <2>1, <2>2, <2>3, StepCases
<1>3. ASSUME LoopInv, EvidenceInv PROVE AnswerIsEvidenced
  <2>. SUFFICES ASSUME outcome.kind = "answer", outcome.by = "planner"
                PROVE  \E i \in Best(table) :
                          LET h == table.hyps[i] IN
                          /\ Observed(LAMBDA x : h.assign[Target] \in ToSet(x.texts))
                          /\ \A c \in Gate(h) \cap Hard : given[c] # "resolved" =>
                                Observed(LAMBDA x : c \in x.terms /\ c \in x.anchored)
    BY DEF AnswerIsEvidenced
  <2>1. AnswerSupported(table)
    BY <1>3 DEF EvidenceInv
  <2>2. PICK i \in Best(table) :
           /\ \E n \in table.hyps[i].evidence : table.evidence[n].clean
           /\ \A c \in Gate(table.hyps[i]) : table.status[c] = "resolved"
    BY <2>1 DEF AnswerSupported
  <2>. PICK h : h = table.hyps[i]
    OBVIOUS
  <2>3. i \in DOMAIN table.hyps
    BY DEF Best
  <2>4. \E x \in Sources(calls) : h.assign[Target] \in ToSet(x.texts)
    BY <1>3, <2>2, <2>3 DEF EvidenceInv, EvidenceNamed
  <2>5. \E n \in DOMAIN calls : \E p \in ToSet(calls[n].pages) \ Dirty :
           h.assign[Target] \in ToSet(ContentOf(n, p).texts)
    BY <2>4, HeardOf
  <2>6. ASSUME NEW c \in Gate(h) \cap Hard, given[c] # "resolved"
        PROVE  \E n \in DOMAIN calls : \E p \in ToSet(calls[n].pages) \ Dirty :
                  c \in ContentOf(n, p).terms /\ c \in ContentOf(n, p).anchored
    <3>1. PICK x \in Sources(calls) : c \in x.terms /\ c \in x.anchored
      BY <1>3, <2>2, <2>6 DEF LoopInv
    <3>. QED  BY <3>1, HeardOf
  <2>. QED  BY <2>2, <2>5, <2>6 DEF Observed
<1>. QED  BY <1>1, <1>2, <1>3, LoopInvHolds, PTL DEF Spec
=============================================================================
