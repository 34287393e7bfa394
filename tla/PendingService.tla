--------------------------- MODULE PendingService ---------------------------
(***************************************************************************)
(* The pending-read service of the candidate frontier, inside the budgeted *)
(* search loop with the frontier controller on.                            *)
(*                                                                         *)
(* When the evidence judge answers "requires_read" for a (candidate, slot, *)
(* constraint) triple, the frontier records an obligation that pins the    *)
(* URL of the evidence.  Obligations that share a URL share one service    *)
(* record.  Every loop step first serves the obligations: a due same-URL   *)
(* fallback, then a fresh URL, then a bounded re-read; only when nothing   *)
(* is serviceable does the frontier (or the older planner) search, read    *)
(* something else, or stop.  A fetched body is routed back into the        *)
(* obligations it can settle, and the end of the item gives each           *)
(* obligation one terminal status.                                         *)
(*                                                                         *)
(* Pages, hosts, judge verdicts and the frontier's ranking are data: the   *)
(* judge and the scheduler choose nondeterministically.  An operator named *)
(* ...Mutant is a defective form of the definition that follows it; only   *)
(* the sensitivity runs of the README use it.                              *)
(***************************************************************************)
EXTENDS Integers, FiniteSets, Sequences

CONSTANTS
    Urls,             \* clean http(s) URLs, up to normalize_service_url
    NoUrl,            \* a source_url that _is_clean_url refuses
    Hosts, HostOf,    \* _host(url)
    Pages, PageOf,    \* normalize_url(url): host and path, no scheme or query
    SocialHosts,      \* hosts the reading policy refuses
    Cands, NoCand,
    Triples, CandOf,  \* (candidate, slot, constraint) and its candidate
    Enabled,          \* the reading tools present in the provider map
    Budget,           \* config.budget: tool calls of one item
    MaxObligations    \* bound on the obligations of one item

Tools == {"page_fetch", "firecrawl_scrape"}

ASSUME ServiceAssumption ==
    /\ NoUrl \notin Urls
    /\ NoCand \notin Cands
    /\ HostOf \in [Urls -> Hosts]
    /\ PageOf \in [Urls -> Pages]
    /\ SocialHosts \subseteq Hosts
    /\ CandOf \in [Triples -> Cands]
    /\ Enabled \subseteq Tools
    /\ Budget \in Nat
    /\ MaxObligations \in Nat

(* The judge's verdicts by what they do to the obligation: full_support    *)
(* and contradiction resolve the constraint (REJUDGE_CONSTRAINT_RESOLVING),*)
(* partial_support and irrelevant end it for this source.  An obligation   *)
(* that is neither may be re-read once (plan_predicate_reread).            *)
Settled == {"constraint_resolved", "source_terminal"}
Retriable == {"open", "still_unresolved", "no_relevant_passage"}
Resolutions == Settled \cup Retriable \cup {"suppressed"}

UrlStatuses == {"", "attempted_success", "attempted_failed", "blocked",
                "already_satisfied", "budget_exhausted", "invariant_violation"}
ObligationStatuses == UrlStatuses \cup {"no_clean_url", "suppressed"}

(* PendingReadJudgment.  `due' is the step at which a re-read plan was     *)
(* queued, NotDue when none is in the queue.                               *)
NotDue == -1
Obligation ==
    [triple : Triples, url : Urls \cup {NoUrl}, suppressed : BOOLEAN,
     resolution : Resolutions, predicate : BOOLEAN, selected : BOOLEAN,
     body : BOOLEAN, reread : BOOLEAN, rereadDone : BOOLEAN,
     due : {NotDue} \cup (0 .. Budget), status : ObligationStatuses]

ServiceRecord ==
    [attempted : BOOLEAN, tried : SUBSET Tools, success : BOOLEAN,
     scheduled : BOOLEAN, fallback : BOOLEAN, blocked : BOOLEAN,
     recorded : BOOLEAN, status : UrlStatuses]

NewRecord ==
    [attempted |-> FALSE, tried |-> {}, success |-> FALSE, scheduled |-> FALSE,
     fallback |-> FALSE, blocked |-> FALSE, recorded |-> FALSE, status |-> ""]

ServiceKinds == {"service", "fallback"}
Kinds == {"none", "search", "read", "reread"} \cup ServiceKinds
Step == [kind : Kinds, url : Urls \cup {NoUrl}, tool : Tools \cup {""},
         cand : Cands \cup {NoCand}]
NoStep == [kind |-> "none", url |-> NoUrl, tool |-> "", cand |-> NoCand]

(* What a call returns: an error, nothing at all, a result whose title is  *)
(* not empty but whose text is, or a result with a text.                   *)
Outcomes == {"failed", "zero", "title_only", "body"}

VARIABLES
    obl,         \* pending_read_judgments, in creation order
    svc,         \* pending_service_urls
    step,        \* the step plan being executed
    got,         \* outcome of the last call
    evUrl,       \* ev.url: the URL of the first result of the last call
    asked,       \* history: the result the judge last wanted read
    scraped,     \* scraped_urls
    noProgress,  \* no_progress_domains
    calls,       \* len(calls)
    pc,          \* where the loop is
    tally,       \* predicate_reread_{scheduled,resolved,still_open}_count
    served,      \* history: service reads executed on each URL
    rereads      \* history: re-reads executed on each URL

vars == <<obl, svc, step, got, evUrl, asked, scraped, noProgress, calls, pc,
          tally, served, rereads>>

Ids == 1 .. Len(obl)

Init ==
    /\ obl = << >>
    /\ svc = [u \in Urls |-> NewRecord]
    /\ step = NoStep
    /\ got = "zero"
    /\ evUrl = NoUrl
    /\ asked = NoUrl
    /\ scraped = {}
    /\ noProgress = {}
    /\ calls = 0
    /\ pc = "propose"
    /\ tally = [scheduled |-> 0, resolved |-> 0, stillOpen |-> 0]
    /\ served = [u \in Urls |-> 0]
    /\ rereads = [u \in Urls |-> 0]

-----------------------------------------------------------------------------
(* The service registry.                                                   *)

Open(i) == obl[i].resolution = "open"

RoutableMutant(i) == ~ obl[i].suppressed
Routable(i) == Open(i) \/ obl[i].reread

(* _sync_service_registry: the clean, unsuppressed obligations of a URL.   *)
Members(u) == {i \in Ids : obl[i].url = u /\ ~ obl[i].suppressed}

(* _pendings_for_url: the URL itself, or any URL of its host.              *)
PendingsFor(u) ==
    {i \in Ids : /\ obl[i].url # NoUrl
                 /\ obl[i].url = u \/ HostOf[obl[i].url] = HostOf[u]}

(* select_pending_read_obligation_url.                                     *)
Queue == {i \in Ids : Open(i) /\ obl[i].url # NoUrl /\ ~ obl[i].selected}

(* The enabled tools the service has not used on a URL.                    *)
Untried(u) == Enabled \ svc[u].tried

FallbackDue(u) ==
    /\ svc[u].scheduled
    /\ ~ svc[u].fallback
    /\ Untried(u) # {}

Undecided(u) ==
    /\ Enabled # {}
    /\ \E i \in Queue : obl[i].url = u
    /\ ~ svc[u].attempted
    /\ ~ svc[u].blocked

Unread(u) == PageOf[u] \notin scraped
Readable(u) == HostOf[u] \notin SocialHosts
Fresh(u) == Undecided(u) /\ Unread(u) /\ Readable(u)
PassedOver == {u \in Urls : Undecided(u) /\ ~ Fresh(u)}

(* A queued URL the service does not read: its page was read elsewhere, or *)
(* the reading policy refuses its host.                                    *)
PassOverUnblockedMutant(u) ==
    IF Unread(u) THEN svc[u] ELSE [svc[u] EXCEPT !.status = "already_satisfied"]
PassOver(u) ==
    IF Unread(u) THEN [svc[u] EXCEPT !.blocked = TRUE]
                 ELSE [svc[u] EXCEPT !.status = "already_satisfied"]

AfterPassing(S) == [u \in Urls |-> IF u \in S THEN PassOver(u) ELSE svc[u]]

(* The queued re-read plans, first in first out.                           *)
DuePlans == {i \in Ids : obl[i].due # NotDue}
NextDue == {i \in DuePlans : \A j \in DuePlans :
                \/ obl[i].due < obl[j].due
                \/ obl[i].due = obl[j].due /\ i <= j}

Serviceable ==
    \/ \E u \in Urls : FallbackDue(u) \/ Fresh(u)
    \/ DuePlans # {}

(* _build_service_read_plan: the obligation that leads the read.           *)
Lead(u) ==
    LET live == {i \in Members(u) : Routable(i)}
        from == IF live = {} THEN Members(u) ELSE live
    IN  CHOOSE i \in from : \A j \in from : i <= j

PlanServiceRead(kind, u, tool) ==
    /\ step' = [kind |-> kind, url |-> u, tool |-> tool,
                cand |-> CandOf[obl[Lead(u)].triple]]
    /\ pc' = "call"
    /\ UNCHANGED <<got, evUrl, asked, scraped, noProgress, calls, tally, served,
                   rereads>>

(* The obligations of a URL that a service read is going to serve.         *)
Select(u) ==
    [i \in Ids |-> IF i \in Members(u) /\ Routable(i)
                   THEN [obl[i] EXCEPT !.selected = TRUE] ELSE obl[i]]

-----------------------------------------------------------------------------
(* propose_pending_service_read: one step of the loop starts here.         *)

ProposingMutant == pc = "propose" /\ calls <= Budget
Proposing == pc = "propose" /\ calls < Budget

ServiceFallback(u) ==
    /\ Proposing
    /\ FallbackDue(u)
    /\ \E tool \in Untried(u) :
          /\ svc' = [svc EXCEPT ![u] = [svc[u] EXCEPT
                        !.fallback = TRUE, !.recorded = FALSE,
                        !.tried = svc[u].tried \cup {tool}]]
          /\ PlanServiceRead("fallback", u, tool)
    /\ obl' = Select(u)

ServiceFresh(u) ==
    /\ Proposing
    /\ ~ \E v \in Urls : FallbackDue(v)
    /\ Fresh(u)
    /\ \E tool \in Enabled, before \in SUBSET PassedOver :
          /\ svc' = [AfterPassing(before) EXCEPT ![u] = [svc[u] EXCEPT
                        !.attempted = TRUE, !.recorded = FALSE,
                        !.tried = svc[u].tried \cup {tool}]]
          /\ PlanServiceRead("service", u, tool)
    /\ obl' = Select(u)

ServiceReread(i) ==
    /\ Proposing
    /\ ~ \E u \in Urls : FallbackDue(u) \/ Fresh(u)
    /\ i \in NextDue
    /\ svc' = AfterPassing(PassedOver)
    /\ obl' = [Select(obl[i].url) EXCEPT ![i].due = NotDue]
    /\ \E tool \in Enabled : PlanServiceRead("reread", obl[i].url, tool)

(* Nothing is serviceable: the frontier's own action, or the planner's.    *)
NotService(s) ==
    /\ Proposing
    /\ ~ Serviceable
    /\ svc' = AfterPassing(PassedOver)
    /\ step' = s
    /\ pc' = "call"
    /\ UNCHANGED <<got, evUrl, asked, scraped, noProgress, calls, tally, served,
                   rereads>>

Search ==
    /\ NotService([NoStep EXCEPT !.kind = "search"])
    /\ UNCHANGED obl

LoopMayRead(u) ==
    /\ Enabled # {}
    /\ Unread(u)
    /\ Readable(u)
    /\ HostOf[u] \notin noProgress

(* The obligations _read_pending_obligation_url may pin the read to.       *)
Pinnable == {i \in Queue : LoopMayRead(obl[i].url)}

(* read_candidate_source: a pinned obligation's own URL when there is one, *)
(* else a URL of the evidence, which is refused while clean obligations    *)
(* are open on other URLs only.                                            *)
FrontierRead(u, c) ==
    /\ LoopMayRead(u)
    /\ \E tool \in Enabled :
          NotService([kind |-> "read", url |-> u, tool |-> tool, cand |-> c])
    /\ IF Pinnable = {}
       THEN /\ \/ ~ \E i \in Ids : Open(i) /\ obl[i].url # NoUrl
               \/ \E i \in Ids : Open(i) /\ obl[i].url = u
            /\ UNCHANGED obl
       ELSE \E i \in Pinnable :
               /\ obl[i].url = u
               /\ obl' = [obl EXCEPT ![i].selected = TRUE]

(* The task-frame planner reads any evidence URL; it names no candidate.   *)
PlannerRead(u) ==
    /\ LoopMayRead(u)
    /\ \E tool \in Enabled :
          NotService([kind |-> "read", url |-> u, tool |-> tool, cand |-> NoCand])
    /\ UNCHANGED obl

(* An answer or an abstain ends the loop.                                  *)
Stop ==
    /\ Proposing
    /\ ~ Serviceable
    /\ svc' = AfterPassing(PassedOver)
    /\ pc' = "finalize"
    /\ UNCHANGED <<obl, step, got, evUrl, asked, scraped, noProgress, calls, tally,
                   served, rereads>>

-----------------------------------------------------------------------------
(* The call and its outcome.                                               *)

Succeeds(out) == out \in {"title_only", "body"}
SawResults == step.kind = "search" \/ Succeeds(got)

(* record_pending_service_outcome.                                         *)
IsFallback(u) == svc[u].fallback /\ svc[u].scheduled
ServiceRecordAfterMutant(u, out) ==
    IF Succeeds(out)
    THEN [svc[u] EXCEPT !.recorded = TRUE, !.success = TRUE, !.scheduled = FALSE,
                        !.status = "attempted_success"]
    ELSE [svc[u] EXCEPT !.recorded = TRUE, !.status = "attempted_failed",
                        !.scheduled = ~ IsFallback(u) /\ Untried(u) # {}]
ServiceRecordAfter(u, out) ==
    IF Succeeds(out)
    THEN [svc[u] EXCEPT !.recorded = TRUE, !.success = TRUE, !.scheduled = FALSE,
                        !.status = "attempted_success"]
    ELSE IF ~ IsFallback(u) /\ Untried(u) # {}
    THEN [svc[u] EXCEPT !.recorded = TRUE, !.scheduled = TRUE]
    ELSE [svc[u] EXCEPT !.recorded = TRUE, !.scheduled = FALSE,
                        !.status = "attempted_failed"]

BodyAvailable(u) ==
    [i \in Ids |-> IF i \in PendingsFor(u) /\ ~ obl[i].suppressed
                   THEN [obl[i] EXCEPT !.body = TRUE] ELSE obl[i]]

(* The evidence of a read that returned something may fail to progress,    *)
(* which bars the host from later frontier reads.                          *)
HostMayStall(u, out) ==
    \/ noProgress' = noProgress
    \/ Succeeds(out) /\ noProgress' = noProgress \cup {HostOf[u]}

ExecuteService(out) ==
    /\ pc = "call"
    /\ step.kind \in ServiceKinds
    /\ svc' = [svc EXCEPT ![step.url] = ServiceRecordAfter(step.url, out)]
    /\ obl' = IF Succeeds(out) THEN BodyAvailable(step.url) ELSE obl
    /\ scraped' = IF Succeeds(out) THEN scraped \cup {PageOf[step.url]} ELSE scraped
    /\ HostMayStall(step.url, out)
    /\ served' = [served EXCEPT ![step.url] = @ + 1]
    /\ got' = out
    /\ evUrl' = step.url
    /\ asked' = NoUrl
    /\ pc' = "ingest"
    /\ UNCHANGED <<step, calls, tally, rereads>>

(* record_predicate_reread_outcome: a failed re-read gives up on every     *)
(* re-read pending on the URL or its host.                                 *)
GivenUp(u) == {i \in PendingsFor(u) : obl[i].reread}

ExecuteReread(out) ==
    /\ pc = "call"
    /\ step.kind = "reread"
    /\ IF Succeeds(out)
       THEN UNCHANGED <<obl, tally>>
       ELSE /\ obl' = [i \in Ids |-> IF i \in GivenUp(step.url)
                                     THEN [obl[i] EXCEPT !.reread = FALSE] ELSE obl[i]]
            /\ tally' = [tally EXCEPT !.stillOpen = @ + Cardinality(GivenUp(step.url))]
    /\ scraped' = IF Succeeds(out) THEN scraped \cup {PageOf[step.url]} ELSE scraped
    /\ HostMayStall(step.url, out)
    /\ rereads' = [rereads EXCEPT ![step.url] = @ + 1]
    /\ got' = out
    /\ evUrl' = step.url
    /\ asked' = NoUrl
    /\ pc' = "ingest"
    /\ UNCHANGED <<svc, step, calls, served>>

(* A failed scrape or an empty page_fetch arms a fallback that task-frame  *)
(* mode never takes, so it only leaves the page unread.                    *)
LeftUnread(out) ==
    \/ out = "failed" /\ step.tool = "firecrawl_scrape" /\ "page_fetch" \in Enabled
    \/ ~ Succeeds(out) /\ step.tool = "page_fetch" /\ "firecrawl_scrape" \in Enabled

ExecuteRead(out) ==
    /\ pc = "call"
    /\ step.kind = "read"
    /\ IF LeftUnread(out)
       THEN UNCHANGED <<scraped, noProgress>>
       ELSE /\ scraped' = scraped \cup {PageOf[step.url]}
            /\ \/ noProgress' = noProgress \cup {HostOf[step.url]}
               \/ Succeeds(out) /\ noProgress' = noProgress
    /\ got' = out
    /\ evUrl' = step.url
    /\ asked' = NoUrl
    /\ pc' = "ingest"
    /\ UNCHANGED <<obl, svc, step, calls, tally, served, rereads>>

(* A search returns results from several URLs; ev.url is the first one's.  *)
ExecuteSearch(first) ==
    /\ pc = "call"
    /\ step.kind = "search"
    /\ evUrl' = first
    /\ asked' = NoUrl
    /\ got' = "zero"
    /\ pc' = "ingest"
    /\ UNCHANGED <<obl, svc, step, scraped, noProgress, calls, tally, served,
                   rereads>>

-----------------------------------------------------------------------------
(* Folding the evidence in.                                                *)

NewObligation(t, suppressed) ==
    [triple |-> t, url |-> evUrl, suppressed |-> suppressed,
     resolution |-> IF suppressed THEN "suppressed" ELSE "open",
     predicate |-> FALSE, selected |-> FALSE, body |-> FALSE, reread |-> FALSE,
     rereadDone |-> FALSE, due |-> NotDue, status |-> ""]

(* _register_pending_read_judgment, for one requires_read judgment on the  *)
(* result at `from'.  A contaminated or noisy source is only recorded.     *)
Register(t, from, suppressed) ==
    /\ pc = "ingest"
    /\ SawResults
    /\ step.kind # "search" => from = evUrl
    /\ Len(obl) < MaxObligations
    /\ ~ \E i \in Ids : obl[i].triple = t /\ Open(i)
    /\ obl' = Append(obl, NewObligation(t, suppressed))
    /\ asked' = from
    /\ UNCHANGED <<svc, step, got, evUrl, scraped, noProgress, calls, pc, tally,
                   served, rereads>>

(* _open_pending_for: same candidate, or same host.                        *)
Routed ==
    {i \in Ids : /\ Routable(i)
                 /\ \/ CandOf[obl[i].triple] = step.cand
                    \/ /\ obl[i].url # NoUrl
                       /\ HostOf[obl[i].url] = HostOf[step.url]}

HasText == step.kind \notin {"none", "search"} /\ got = "body"

(* The judge's verdict, and whether the passage held a predicate anchor,   *)
(* which matters to an unresolved obligation only.  A judge error and an   *)
(* unknown verdict both leave the obligation unresolved.                   *)
Verdicts == {v \in [resolution : Resolutions \ {"open", "suppressed"},
                    predicate : BOOLEAN] :
                v.predicate => v.resolution = "still_unresolved"}

Judged(i, v) ==
    [obl[i] EXCEPT !.resolution = v.resolution, !.predicate = v.predicate,
                   !.reread = FALSE, !.selected = TRUE, !.body = TRUE]

(* route_read_into_pending_judgments.                                      *)
Route ==
    /\ pc = "ingest"
    /\ HasText
    /\ \E verdict \in [Routed -> Verdicts] :
          /\ obl' = [i \in Ids |-> IF i \in Routed THEN Judged(i, verdict[i])
                                                   ELSE obl[i]]
          /\ LET again == {i \in Routed : obl[i].reread}
                 done == {i \in again :
                             verdict[i].resolution = "constraint_resolved"}
             IN  tally' = [tally EXCEPT
                             !.resolved = @ + Cardinality(done),
                             !.stillOpen = @ + Cardinality(again \ done)]
    /\ pc' = "close"
    /\ UNCHANGED <<svc, step, got, evUrl, asked, scraped, noProgress, calls, served,
                   rereads>>

(* plan_predicate_reread's conditions, for the obligations of the host.    *)
RereadWorthy(u) ==
    {i \in PendingsFor(u) : /\ obl[i].resolution \in Retriable
                            /\ ~ obl[i].predicate
                            /\ ~ obl[i].rereadDone}

(* schedule_predicate_rereads_after_read, after a service read whose text  *)
(* was cut (or whose raw text is not kept).                                *)
ScheduleRereads(cut) ==
    LET S == IF cut /\ step.kind \in ServiceKinds /\ Succeeds(got)
             THEN RereadWorthy(step.url) ELSE {}
    IN  /\ obl' = [i \in Ids |-> IF i \in S
                      THEN [obl[i] EXCEPT !.reread = TRUE, !.rereadDone = TRUE,
                                          !.due = calls]
                      ELSE obl[i]]
        /\ tally' = [tally EXCEPT !.scheduled = @ + Cardinality(S)]

(* The step ends: the call is counted, whatever it returned.               *)
CountedMutant == IF Succeeds(got) THEN calls + 1 ELSE calls
Counted == calls + 1

CloseStep(cut) ==
    /\ pc = "close" \/ (pc = "ingest" /\ ~ HasText)
    /\ ScheduleRereads(cut)
    /\ calls' = Counted
    /\ step' = NoStep
    /\ got' = "zero"
    /\ evUrl' = NoUrl
    /\ asked' = NoUrl
    /\ pc' = "propose"
    /\ UNCHANGED <<svc, scraped, noProgress, served, rereads>>

-----------------------------------------------------------------------------
(* finalize_pending_service.                                               *)

FinalUrlStatusMutant(u) ==
    LET s == svc[u] IN
    IF Members(u) = {} \/ s.status # "" THEN s.status
    ELSE IF s.blocked \/ Enabled = {} THEN "blocked"
    ELSE IF calls = Budget THEN "budget_exhausted"
    ELSE IF s.success THEN "attempted_success"
    ELSE IF s.attempted THEN "attempted_failed"
    ELSE "invariant_violation"
FinalUrlStatus(u) ==
    LET s == svc[u] IN
    IF Members(u) = {} \/ s.status # "" THEN s.status
    ELSE IF s.success THEN "attempted_success"
    ELSE IF s.attempted /\ s.recorded THEN "attempted_failed"
    ELSE IF s.attempted THEN "budget_exhausted"
    ELSE IF s.blocked \/ Enabled = {} THEN "blocked"
    ELSE IF calls = Budget THEN "budget_exhausted"
    ELSE "invariant_violation"

FinalStatus(i) ==
    LET o == obl[i]
        s == FinalUrlStatus(o.url)
    IN  IF o.suppressed THEN "suppressed"
        ELSE IF o.url = NoUrl THEN "no_clean_url"
        ELSE IF o.body /\ s # "attempted_success" THEN "already_satisfied"
        ELSE IF ~ o.body /\ s = "attempted_success" THEN "attempted_failed"
        ELSE s

Finalize ==
    /\ pc = "finalize" \/ (pc = "propose" /\ calls = Budget)
    /\ svc' = [u \in Urls |-> [svc[u] EXCEPT !.status = FinalUrlStatus(u)]]
    /\ obl' = [i \in Ids |-> [obl[i] EXCEPT !.status = FinalStatus(i)]]
    /\ pc' = "done"
    /\ UNCHANGED <<step, got, evUrl, asked, scraped, noProgress, calls, tally, served,
                   rereads>>

Terminated == pc = "done" /\ UNCHANGED vars

Propose ==
    \/ \E u \in Urls : ServiceFallback(u) \/ ServiceFresh(u) \/ PlannerRead(u)
    \/ \E i \in Ids : ServiceReread(i)
    \/ \E u \in Urls, c \in Cands : FrontierRead(u, c)
    \/ Search
    \/ Stop

Execute ==
    \/ \E out \in Outcomes : ExecuteService(out) \/ ExecuteReread(out) \/ ExecuteRead(out)
    \/ \E first \in Urls \cup {NoUrl} : ExecuteSearch(first)

Ingest ==
    \/ \E t \in Triples, from \in Urls \cup {NoUrl}, suppressed \in BOOLEAN :
          Register(t, from, suppressed)
    \/ Route
    \/ \E cut \in BOOLEAN : CloseStep(cut)

Next == Propose \/ Execute \/ Ingest \/ Finalize \/ Terminated

Spec == Init /\ [][Next]_vars

(* The loop is one thread and takes its next step whenever it has one; it  *)
(* registers finitely many judgments per call.                             *)
FairSpec == Spec /\ WF_vars(Next)

-----------------------------------------------------------------------------
(* The state of the service is what the code's fields can hold.            *)
TypeOK ==
    /\ obl \in Seq(Obligation)
    /\ Len(obl) <= MaxObligations
    /\ svc \in [Urls -> ServiceRecord]
    /\ step \in Step
    /\ got \in Outcomes
    /\ evUrl \in Urls \cup {NoUrl}
    /\ asked \in Urls \cup {NoUrl}
    /\ scraped \subseteq Pages
    /\ noProgress \subseteq Hosts
    /\ calls \in 0 .. Budget
    /\ pc \in {"propose", "call", "ingest", "close", "finalize", "done"}
    /\ tally \in [scheduled : Nat, resolved : Nat, stillOpen : Nat]
    /\ served \in [Urls -> Nat]
    /\ rereads \in [Urls -> Nat]

(* The service spends at most one call per enabled reading tool on a URL,  *)
(* however many obligations share it and however they are interleaved with *)
(* searches: once, plus one fallback with the other tool.                  *)
ServiceReadBound ==
    \A u \in Urls : served[u] <= Cardinality(svc[u].tried) /\ served[u] <= 2

(* A scheduled fallback always has an untried tool to run with, so         *)
(* propose_pending_service_read never has to drop one.                     *)
FallbackServable ==
    \A u \in Urls : svc[u].scheduled /\ ~ svc[u].fallback
                        => Enabled \ svc[u].tried # {}

(* At the end of the item no obligation was left open, clean and unserved  *)
(* while budget remained: finalize_pending_service gives every one a       *)
(* terminal status other than the one reserved for bugs.                   *)
NoUnservedObligation ==
    pc = "done" => \A i \in Ids : obl[i].status \notin {"", "invariant_violation"}

(* A requires_read judgment on a contaminated or noisy source stays a      *)
(* record: it is never selected, linked to a body, judged or re-read.      *)
SuppressedIsInert ==
    \A i \in Ids : obl[i].suppressed =>
        /\ obl[i].resolution = "suppressed"
        /\ ~ (obl[i].selected \/ obl[i].body \/ obl[i].reread \/ obl[i].rereadDone)
        /\ obl[i].status \in {"", "suppressed"}

(* Every scheduled re-read is accounted for once: resolved, still open, or *)
(* still pending on its obligation.                                        *)
RereadAccounting ==
    tally.scheduled = tally.resolved + tally.stillOpen
                      + Cardinality({i \in Ids : obl[i].reread})

(* A verdict that resolves the constraint or exhausts the source is never  *)
(* overwritten by a later read, a re-read queued earlier included.         *)
SettledIsFinal ==
    [][\A i \in Ids : obl[i].resolution \in Settled
                          => obl'[i].resolution = obl[i].resolution]_vars

(* A URL group's terminal service status is assigned once: a later step or *)
(* the end of the item never replaces it.                                  *)
TerminalStatusIsFinal ==
    [][\A u \in Urls : svc[u].status # "" => svc'[u].status = svc[u].status]_vars

(* The item ends, whatever the tools return.                               *)
Termination == <>(pc = "done")

-----------------------------------------------------------------------------
(* The service keeps the promise of ServicePromise: its obligations are    *)
(* the judge's asks, a page is used from the moment a read of it is        *)
(* planned, and the end of the item closes every ask.                      *)
Fate(o) == IF o.suppressed THEN "refused"
           ELSE IF o.resolution \in Settled THEN "settled" ELSE "waiting"
Asks == [i \in Ids |-> [url |-> obl[i].url, fate |-> Fate(obl[i]),
                        ending |-> obl[i].status]]
Used == [u \in Urls |-> svc[u].tried]

Promise == INSTANCE ServicePromise WITH asks <- Asks, used <- Used, over <- (pc = "done")

(* Every behaviour of the loop is one the judge was promised: a page is    *)
(* first opened for an obligation that still waits, reopened with another  *)
(* tool only, settled obligations stay settled, and every final status     *)
(* agrees with the reads that were made.                                   *)
Promised == Promise!Spec

-----------------------------------------------------------------------------
(* What the code's comments say and the code does not do.                  *)

(* "the judge asked for THAT page": an obligation pins the page whose      *)
(* evidence the judge wanted read.                                         *)
PinnedToAskedPage ==
    [][Len(obl') > Len(obl) => obl'[Len(obl')].url = asked']_vars

=============================================================================
