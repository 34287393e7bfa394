------------------------------ MODULE TaskLoop ------------------------------
(***************************************************************************)
(* One attempt in task-frame mode (agent/search_loop.py): each iteration   *)
(* picks a step, spends one call on it, and folds what the call observed   *)
(* into the hypothesis table and the candidate frontier.                   *)
(*                                                                         *)
(* Four things may pick the step:                                          *)
(*   planner     the ActionPlanner over the hypothesis table; the frontier *)
(*               only watches                                              *)
(*   controller  the frontier's scheduler; a step it cannot execute goes   *)
(*               to the planner                                            *)
(*   llm         the frontier proposer (FrontierProposer) when one of its  *)
(*               proposals stands, or else the controller                  *)
(*   repair      the same, and the proposer is asked only when the         *)
(*               controller's plan looks poor                              *)
(* The tools are external: a search finds some pages of the catalogue, or  *)
(* none, or fails; a read returns the page's body or fails; and whether    *)
(* the verification score rose is left open.  A frame here has one target  *)
(* slot, page_fetch is the only reading tool, one tool searches, there is  *)
(* no judge (so there are no obligations: PendingService has those), and   *)
(* no page is a dictionary page.                                           *)
(***************************************************************************)
EXTENDS FrontierProposer, Functions

CONSTANTS
    Drivers,       \* which of the four are configured
    Budget,        \* calls of one attempt
    Results        \* the result lists a search may return

ASSUME LoopAssumption ==
    /\ Drivers \subseteq {"planner", "controller", "llm", "repair"} /\ Drivers # {}
    /\ Budget \in Nat /\ Results \subseteq Seq(Pages)
    /\ Nothing \notin Pages

VARIABLES
    driver,     \* who picks the steps of this attempt
    given,      \* the statuses the frame was parsed with
    table,      \* htable
    frontier,   \* frontier
    seen,       \* the pages search results showed, in order
    scraped,    \* scraped_urls
    dead,       \* no_progress_domains
    asked,      \* the planner's _query_hashes
    stale,      \* the words of lf_no_progress_queries and the failed queries
    calls,      \* the calls made
    outcome     \* how the attempt ended, and by whom

vars == <<driver, given, table, frontier, seen, scraped, dead, asked, stale,
          calls, outcome>>

Running == [kind |-> "running", by |-> Nothing]

Init ==
    /\ driver \in Drivers
    /\ given \in GivenStatuses
    /\ table = EmptyTable(given)
    /\ frontier = EmptyFrontier
    /\ seen = <<>> /\ scraped = {} /\ dead = {} /\ asked = {} /\ stale = {}
    /\ calls = <<>> /\ outcome = Running

-----------------------------------------------------------------------------
(* Executing a call. *)

Snippets(pages) == [i \in DOMAIN pages |-> Reading(pages[i], Snippet[pages[i]])]

\* The observations of one call, folded into the table and the frontier.
Folded(readings, d, read) ==
    LET heard == RejectContradicted(Ingest(table, readings))
        moved == Progressed(table, heard)
        linked == FoldIn(frontier, readings, d, read, heard.status)
    IN  /\ table' = IF moved THEN heard ELSE NoteNoProgress(heard)
        /\ frontier' = IF moved THEN linked ELSE NoteIdle(linked, heard.status)

\* What the slot's live candidates support of its own constraints.
OnSlot(slot) == [slot |-> slot, cons |-> ConstraintsOf(slot)]

\* The call, its observations and what they did.
Logged(kind, by, slot, page, words, pages) ==
    calls' = Append(calls,
        [kind |-> kind, by |-> by, slot |-> slot, page |-> page, words |-> words,
         pages |-> pages, moved |-> Progressed(table, table'),
         gained |-> Gained(frontier, frontier', OnSlot(slot))])

\* A search failed, or one that found nothing new, makes its query stale.
Search(by, slot, words, found, d) ==
    \E pages \in found :
        /\ Folded(Snippets(pages), d, FALSE)
        /\ seen' = seen \o Fresh(pages, ToSet(seen))
        /\ stale' = IF Progressed(table, table') THEN stale ELSE stale \union {words}
        /\ Logged("search", by, slot, Nothing, words, pages)
        /\ UNCHANGED <<scraped, dead, outcome>>

ReadMutant(by, page, d) ==
    \E ok, improved \in BOOLEAN :
        LET readings == IF ok THEN <<Reading(page, Body[page])>> ELSE <<>> IN
        /\ Folded(readings, d, TRUE)
        /\ dead' = IF ok /\ improved /\ Progressed(table, table')
                   THEN dead ELSE dead \union {HostOf[page]}
        /\ Logged("read", by, d.slot, page, {}, IF ok THEN <<page>> ELSE <<>>)
        /\ UNCHANGED <<seen, scraped, asked, stale, outcome>>

\* A read that fails, or improves nothing, gives its host up.
Read(by, page, d) ==
    \E ok, improved \in BOOLEAN :
        LET readings == IF ok THEN <<Reading(page, Body[page])>> ELSE <<>> IN
        /\ Folded(readings, d, TRUE)
        /\ scraped' = scraped \union {page}
        /\ dead' = IF ok /\ improved /\ Progressed(table, table')
                   THEN dead ELSE dead \union {HostOf[page]}
        /\ Logged("read", by, d.slot, page, {}, IF ok THEN <<page>> ELSE <<>>)
        /\ UNCHANGED <<seen, asked, stale, outcome>>

Ends(kind, by) ==
    /\ outcome' = [kind |-> kind, by |-> by]
    /\ UNCHANGED <<table, frontier, seen, scraped, dead, asked, stale, calls>>

-----------------------------------------------------------------------------
(* What may be read. *)

\* The guards every read passes, select_reading_tool's among them.
Open(page) == page \notin scraped /\ HostOf[page] \notin dead
              /\ page \notin Social

FirstSeen(P(_)) == FirstAt(seen, {i \in DOMAIN seen : P(seen[i])})

\* _resolve_read: the first page seen that affects any candidate, one page or
\* none.
Resolved ==
    FirstSeen(LAMBDA p : Open(p) /\ Affected(frontier,
                        Reading(p, Snippet[p]), table.status) # {})

\* _read_candidate_url: the first open page that named the candidate.
OwnSource(i) ==
    LET urls == frontier.cands[i].urls IN
    FirstAt(urls, {n \in DOMAIN urls : Open(urls[n])})

ReadOf(act) == IF Resolved # {} THEN Resolved ELSE OwnSource(act.cand)

\* domain_providers with two tools: a search showed the host, and a read of
\* it succeeded (a read counts as a first hop here).
PagesOf(kind) == UNION {ToSet(calls[n].pages) : n \in {n \in DOMAIN calls :
                                                   calls[n].kind = kind}}
Crossed == {HostOf[p] : p \in PagesOf("search")}
           \cap {HostOf[p] : p \in PagesOf("read")}

WorthSeen ==
    FirstSeen(LAMBDA p : Open(p) /\ WorthReading(table, Reading(p, Snippet[p]),
                                                 Crossed))

-----------------------------------------------------------------------------
(* The steps. *)

InLoop == outcome = Running /\ Len(calls) < Budget

\* The query _build_query makes of an action.
QueryOf(act) ==
    Query("frontier", IF act.cons = {} THEN Nothing ELSE Sharpest(act.cons),
          IF act.cand = 0 THEN Nothing ELSE frontier.cands[act.cand].text,
          act.slot)

ControllerSearch(acts) ==
    \E act \in Selected(acts) :
        /\ act.type \notin {"answer", "read"}
        /\ Search("controller", act.slot, WordsOf(QueryOf(act)), Results, Undirected)
        /\ UNCHANGED asked

ControllerRead(acts) ==
    \E act \in Selected(acts) :
        /\ act.type = "read"
        /\ \E page \in ReadOf(act) : Read("controller", page, Undirected)

ControllerAnswer(acts) ==
    \E act \in Selected(acts) : act.type = "answer" /\ Ends("answer", "controller")

\* record_unexecutable: there is no action, or a read with nothing to read.
Unexecutable(acts) ==
    \A act \in Selected(acts) : act.type = "read" /\ ReadOf(act) = {}

PlannerRead == \E page \in WorthSeen : Read("planner", page, Undirected)

PlannerAnswer ==
    /\ WorthSeen = {} /\ AnswerSupported(table)
    /\ Ends("answer", "planner")

PlannerSearch ==
    /\ WorthSeen = {} /\ ~AnswerSupported(table)
    /\ \E n \in DOMAIN NextQuery(table, asked) :
          LET q == NextQuery(table, asked)[n] IN
          Search("planner", q.slot, WordsOf(q), Results, Undirected)
          /\ asked' = asked \union {q}

PlannerAbstain ==
    /\ WorthSeen = {} /\ ~AnswerSupported(table)
    /\ NextQuery(table, asked) = <<>>
    /\ Ends("abstain", "planner")

\* _to_step_plan: a search of any tool carries the proposal's query, and the
\* fetch tool fails on it, for it is no url.
ProposedSearch(p) ==
    /\ p.type = "search"
    /\ Search("llm", p.slot, p.words, IF p.tool = "fetch" THEN {<<>>} ELSE Results, p)
    /\ UNCHANGED asked

\* A proposed read is of the page the frontier resolves, or it is dropped.
ProposedRead(p) ==
    /\ p.type = "read"
    /\ \E page \in Resolved :
          Read("llm", page, [slot |-> p.slot, cons |-> Tested(frontier,
                  Reading(page, Snippet[page]), table.status)])

ProposedAnswer(p) == p.type = "answer" /\ Ends("answer", "llm")
ProposedAbstain(p) == p.type = "abstain" /\ Ends("abstain", "llm")

ByPlanner == PlannerRead \/ PlannerAnswer \/ PlannerSearch \/ PlannerAbstain

ByController(acts) ==
    ControllerSearch(acts) \/ ControllerRead(acts) \/ ControllerAnswer(acts)

ByProposal ==
    \E reply \in Replies : \E p \in Chosen(frontier, reply, table.status, stale) :
        /\ Faithful(p)
        /\ ProposedSearch(p) \/ ProposedRead(p) \/ ProposedAnswer(p) \/ ProposedAbstain(p)

Consulted(acts) ==
    \/ driver = "llm"
    \/ driver = "repair" /\ \/ Unexecutable(acts)
                            \/ \E act \in Selected(acts) :
                                  Poor(frontier, act, WordsOf(QueryOf(act)), table.status,
                                       stale, Len(calls))

\* The model may fail, or none of its proposals stand: then the controller
\* steps in, and the planner for it.
Step ==
    /\ InLoop /\ UNCHANGED <<driver, given>>
    /\ LET acts == Actions(frontier, table.status) IN
       \/ (driver = "planner" \/ Unexecutable(acts)) /\ ByPlanner
       \/ driver # "planner" /\ ByController(acts)
       \/ Consulted(acts) /\ ByProposal

\* The budget is spent: the loop ends without a terminal action.
BudgetSpent ==
    /\ outcome = Running /\ Len(calls) = Budget
    /\ Ends("spent", driver) /\ UNCHANGED <<driver, given>>

\* The attempt is over.  Anywhere else a missing step is a deadlock: the
\* controller "can never get stuck".
Over == outcome # Running /\ UNCHANGED vars

Next == Step \/ BudgetSpent \/ Over

Spec == Init /\ [][Next]_vars

-----------------------------------------------------------------------------
(* Properties. *)

Calls ==
    [kind : {"search", "read"}, by : {"planner", "controller", "llm"},
     slot : Slots \union {Nothing}, page : Pages \union {Nothing},
     words : SUBSET (Constraints \union Texts \union Slots \union Distinctive),
     pages : Seq(Pages), moved : BOOLEAN, gained : BOOLEAN]

Candidates ==
    [text : Texts, slot : Slots, sup : SUBSET Constraints,
     con : SUBSET Constraints, unknown : SUBSET Constraints,
     hosts : SUBSET {HostOf[p] : p \in Pages}, urls : Seq(Pages),
     valued : BOOLEAN, idle : 0..REJECT_NO_PROGRESS,
     status : {"active", "confirmed", "rejected"}]

\* The state has the shapes the two stores of the loop keep: one candidate per
\* text and slot, one hypothesis per target candidate, one evidence record per
\* call.
TypeOK ==
    /\ driver \in Drivers /\ given \in GivenStatuses
    /\ table.status \in [Constraints -> Statuses]
    /\ IsInjective(table.cands) /\ ToSet(table.cands) \subseteq Texts
    /\ Len(table.evidence) = Len(calls)
    /\ \A i \in DOMAIN table.hyps :
          /\ table.hyps[i].evidence \subseteq DOMAIN calls
          /\ table.hyps[i].active \in BOOLEAN
          /\ \A j \in DOMAIN table.hyps : i # j =>
                table.hyps[i].assign[Target] # table.hyps[j].assign[Target]
    /\ frontier.cands \in Seq(Candidates)
    /\ \A i, j \in DOMAIN frontier.cands : i # j =>
          \/ frontier.cands[i].text # frontier.cands[j].text
          \/ frontier.cands[i].slot # frontier.cands[j].slot
    /\ \A k \in DOMAIN frontier.hyps :
          frontier.hyps[k].assign[Target] \in Slate(frontier, Target)
    /\ frontier.streak \in [Slots -> 0..Budget]
    /\ seen \in Seq(Pages) /\ IsInjective(seen) /\ scraped \subseteq Pages
    /\ dead \subseteq {HostOf[p] : p \in Pages}
    /\ calls \in Seq(Calls) /\ Len(calls) <= Budget
    /\ outcome.kind \in {"running", "answer", "abstain", "spent"}

ContentOf(n, p) == IF calls[n].kind = "search" THEN Snippet[p] ELSE Body[p]

\* Some call observed, on a clean page, a content that P holds of.
Observed(P(_)) ==
    \E n \in DOMAIN calls : \E p \in ToSet(calls[n].pages) \ Dirty :
        P(ContentOf(n, p))

\* A constraint counts as supported by a candidate only if some clean page the
\* attempt observed names the candidate, supports the constraint, and does not
\* contradict it: support never drifts from one candidate or page to another.
SupportIsSourced ==
    \A i \in DOMAIN frontier.cands : LET c == frontier.cands[i] IN
        \A con \in c.sup : Observed(LAMBDA x :
            /\ c.text \in ToSet(x.texts)
            /\ con \in (x.terms \union x.corroborated) \ x.opposed)

\* After the parser, a blocking constraint is resolved only by evidence of this
\* attempt: a clean page with the constraint's terms and a name or a year of its
\* own.  The frame's status is one object both stores read, so nothing else may
\* set it.  What the parser's reply resolved by itself is the exception the code
\* leaves open, against the "never from prompt text" of search_loop.py:1103.
ResolvedByEvidence ==
    \A c \in Hard : table.status[c] = "resolved" /\ given[c] # "resolved" =>
        Observed(LAMBDA x : c \in x.terms /\ c \in x.anchored)

\* The planner answers with a candidate some call named among clean pages only,
\* and only if a clean page supported each gating constraint that blocks, by a
\* name or a year of the constraint's own, unless the parser's reply had
\* resolved it: no mix of mirrors, snippets and unrelated pages opens the gate.
AnswerIsEvidenced ==
    outcome.kind = "answer" /\ outcome.by = "planner" =>
        \E i \in Best(table) :
            LET h == table.hyps[i] IN
            /\ Observed(LAMBDA x : h.assign[Target] \in ToSet(x.texts))
            /\ \A c \in Gate(h) \cap Hard : given[c] # "resolved" =>
                  Observed(LAMBDA x : c \in x.terms /\ c \in x.anchored)

\* A candidate is rejected for a contradiction on a page that names it, or
\* after as many calls without progress as the rule asks: one bad call never
\* decays a candidate twice.
RejectionIsEarned ==
    \A i \in DOMAIN frontier.cands : LET c == frontier.cands[i] IN
        /\ c.idle <= Cardinality({n \in DOMAIN calls : ~calls[n].moved})
        /\ c.status = "rejected" =>
              \/ c.idle = REJECT_NO_PROGRESS
              \/ \E con \in c.con : Observed(LAMBDA x :
                    c.text \in ToSet(x.texts) /\ con \in x.opposed)

\* When the frontier answers, the leading hypothesis is not stale: its target
\* candidate is confirmed now, every open blocking constraint of the target is
\* supported by it, and no candidate it assigns has been contradicted since
\* the hypothesis was scored.
AnswerIsFresh ==
    outcome.kind = "answer" /\ outcome.by # "planner" =>
        \E k \in Leading(frontier) :
            LET h == frontier.hyps[k]
                c == frontier.cands[h.assign[Target]]
            IN  /\ c.status = "confirmed"
                /\ OpenBlocking(Target, table.status) \subseteq c.sup
                /\ \A s \in DOMAIN h.assign : frontier.cands[h.assign[s]].con = {}

\* A query that led nowhere, the planner's and the controller's included, is
\* not tried again by a proposal, nor with a word more, a word less or in
\* another order, by whatever tool.
NoWornQuery ==
    \A n \in DOMAIN calls : calls[n].kind = "search" /\ calls[n].by = "llm" =>
        \A m \in 1..(n - 1) : calls[m].kind = "search" /\ ~calls[m].moved =>
            ~Variant(calls[n].words, calls[m].words)

\* Whoever picks the reads, a page is read once, was shown by a search before,
\* and is neither dirty nor social.
ReadOnce ==
    \A n \in DOMAIN calls : calls[n].kind = "read" =>
        /\ calls[n].page \notin Dirty \union Social
        /\ \A m \in 1..(n - 1) : calls[m].page # calls[n].page
        /\ \E m \in 1..(n - 1) : calls[m].kind = "search"
                                 /\ calls[n].page \in ToSet(calls[m].pages)
=============================================================================
