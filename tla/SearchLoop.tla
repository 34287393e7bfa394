----------------------------- MODULE SearchLoop -----------------------------
(***************************************************************************)
(* The search loop outside task-frame mode: one item, one budget of calls. *)
(*                                                                         *)
(* A step reads the pending page if the reading policy admits it and       *)
(* searches otherwise; then the stopping policy looks at the evidence and  *)
(* may make another page pending, and a read that failed is retried with   *)
(* the other reading tool.  What one step leaves pending, forced, read or  *)
(* barred is what the next one finds.                                      *)
(*                                                                         *)
(* An operator named ...Mutant is a defective form of the definition that  *)
(* follows it; only the sensitivity runs of the README use it.             *)
(***************************************************************************)
EXTENDS Integers

CONSTANTS
    Urls, NoUrl,
    Pages, PageOf,  \* normalize_url: URLs that differ in query or fragment
    Hosts, HostOf,
    Fetchable,      \* multihop targets: the answer is on the page itself
    Signal,         \* a clue, an answer shape or an authoritative source
    Structured,     \* PDF, structured, or authoritative with a short snippet
    Short,          \* a snippet too short to judge by
    Refused,        \* contaminated or social
    StopModes,      \* the modes of the stopping policy
    StopThreshold,  \* in twentieths
    Budget

ASSUME LoopAssumption ==
    /\ NoUrl \notin Urls
    /\ PageOf \in [Urls -> Pages]
    /\ HostOf \in [Urls -> Hosts]
    /\ \A u, v \in Urls : PageOf[u] = PageOf[v] => HostOf[u] = HostOf[v]
    /\ Fetchable \subseteq Urls
    /\ StopModes \subseteq {"always_full", "first_candidate", "learned"}
    /\ StopThreshold \in Int
    /\ Budget \in Nat \ {0}

Tools == {"page_fetch", "firecrawl_scrape"}

(* The flags of VerificationState.  The extractor has a candidate exactly  *)
(* when a source supports one.                                             *)
Evidence ==
    {e \in [support : BOOLEAN, authority : BOOLEAN, fresh : BOOLEAN, contradiction : BOOLEAN] :
        e.authority \/ e.contradiction => e.support}

VARIABLES
    pc,
    act,       \* the call of this step
    pending,   \* pending_read
    forced,    \* force_page_fetch
    fallback,  \* read_fallback_pending
    scraped,   \* scraped_urls
    barred,    \* no_progress_domains
    cross,     \* hosts that two search tools returned
    seen,      \* the URLs of the observations
    target,    \* the first fetchable observation
    evidence,  \* the flags of the verification state
    best,      \* prev_vscore
    enabled,   \* the reading tools present
    iterative, \* iterative clue resolution
    stopMode,
    calls,
    tally,     \* read_acct
    due,       \* history: the retry the last step scheduled
    texts      \* history: reads of a page that returned a text

config == <<enabled, iterative, stopMode>>
vars == <<pc, act, pending, forced, fallback, scraped, barred, cross, seen, target,
          evidence, best, config, calls, tally, due, texts>>

NoAct == [kind |-> "none", url |-> NoUrl, tool |-> "none"]
NoRetry == [url |-> NoUrl, after |-> "none"]

Init ==
    /\ pc = "choose"
    /\ act = NoAct
    /\ pending = NoUrl
    /\ forced = FALSE
    /\ fallback = FALSE
    /\ scraped = {} /\ barred = {} /\ cross = {} /\ seen = {}
    /\ target = NoUrl
    /\ evidence \in {e \in Evidence : ~ e.support}
    /\ best = 0
    /\ enabled \in SUBSET Tools /\ iterative \in BOOLEAN /\ stopMode \in StopModes
    /\ calls = 0
    /\ tally = [attempted |-> 0, success |-> 0, failed |-> 0]
    /\ due = NoRetry
    /\ texts = [p \in Pages |-> 0]

-----------------------------------------------------------------------------
(* The reading policy.                                                     *)

(* Without a scrape tool and outside iterative mode a pending page is      *)
(* fetched unconditionally.                                                *)
Gated == "firecrawl_scrape" \in enabled \/ iterative

(* select_reading_tool: whether to read u ...                              *)
AdmittedMutant(u) ==
    u \notin Refused /\ HostOf[u] \notin barred /\ (u \in Fetchable \cup Signal \/ HostOf[u] \in cross)
Admitted(u) ==
    /\ PageOf[u] \notin scraped
    /\ u \notin Refused
    /\ HostOf[u] \notin barred
    /\ u \in Fetchable \cup Signal \/ HostOf[u] \in cross

(* ... and with which tool.                                                *)
Rich(u) == u \in Structured \/ (HostOf[u] \in cross /\ u \in Short)

Selected(u) ==
    IF "page_fetch" \in enabled
    THEN IF ~ forced /\ "firecrawl_scrape" \in enabled /\ Rich(u)
         THEN "firecrawl_scrape" ELSE "page_fetch"
    ELSE "firecrawl_scrape"

-----------------------------------------------------------------------------
(* The top of a step.                                                      *)

Begins(kind, u, tool) ==
    /\ act' = [kind |-> kind, url |-> u, tool |-> tool]
    /\ pending' = NoUrl
    /\ pc' = "call"
    /\ UNCHANGED <<fallback, scraped, barred, cross, seen, target, evidence, best,
                   config, calls, tally, due, texts>>

Read ==
    /\ pc = "choose" /\ pending # NoUrl
    /\ Gated /\ Admitted(pending)
    /\ Begins("read", pending, Selected(pending))
    /\ forced' = FALSE

LegacyRead ==
    /\ pc = "choose" /\ pending # NoUrl
    /\ ~ Gated
    /\ Begins("legacy", pending, "page_fetch")
    /\ UNCHANGED forced

(* No page is pending, or the policy refuses it and it is dropped.         *)
Search ==
    /\ pc = "choose"
    /\ pending # NoUrl => Gated /\ ~ Admitted(pending)
    /\ Begins("search", NoUrl, "none")
    /\ UNCHANGED forced

-----------------------------------------------------------------------------
(* The evidence and the stop decision.                                     *)

Points(flag, n) == IF flag THEN n ELSE 0

(* verify's score, in twentieths: a supported candidate is 0.4 + 0.3.      *)
ScoreMutant(e) == Points(e.support, 14) + Points(e.authority, 3) + Points(e.fresh, 3)
Score(e) ==
    Points(e.support, 14) + Points(e.authority, 3) + Points(e.fresh, 3)
        - Points(e.contradiction, 6)

(* Observations are kept, so the flags only rise.                          *)
Grown ==
    {e \in Evidence : /\ \A f \in DOMAIN evidence : evidence[f] => e[f]
                      /\ e.fresh /\ ~ evidence.fresh => e.support}

EvidenceAfter(results) == IF results THEN Grown ELSE {evidence}

Improved(e) == Score(e) > best \/ (e.support /\ ~ evidence.support)

(* StoppingPolicy.decide.  The arms corroborate and contradiction_check    *)
(* act as search_more; always_full fetches for a candidate that has no     *)
(* support, which the extractor never has.                                 *)
Arms == {"stop_now", "search_more", "fetch_page"}

LastCallMutant == calls + 1 > Budget
LastCall == calls + 1 >= Budget

Decisions(e, readable) ==
    IF LastCall THEN {"stop_now"}
    ELSE IF stopMode = "learned"
         THEN {arm \in Arms : /\ arm = "stop_now" => Score(e) >= StopThreshold
                              /\ arm = "fetch_page" => enabled # {} /\ readable}
         ELSE IF stopMode = "first_candidate" /\ e.support
              THEN {"stop_now"} ELSE {"search_more"}

(* _best_read_target: the most authoritative page that is left.            *)
Unread(u) == u \notin Refused /\ HostOf[u] \notin barred' /\ PageOf[u] \notin scraped'

(* The end of a step, in which `retry' is what the read left pending.      *)
NextPending(arm, retry) ==
    IF arm = "fetch_page" /\ target' # NoUrl THEN {target'}
    ELSE IF arm = "fetch_page" /\ iterative /\ \E u \in seen' : Unread(u)
         THEN {u \in seen' : Unread(u)}
         ELSE {retry.url}

Ends(e, retry) ==
    \E arm \in Decisions(e, target' # NoUrl \/ (iterative /\ seen' # {})) :
        /\ evidence' = e
        /\ best' = IF Score(e) > best THEN Score(e) ELSE best
        /\ calls' = calls + 1
        /\ IF arm = "stop_now" THEN pc' = "done" /\ pending' = retry.url
           ELSE pc' = "choose" /\ pending' \in NextPending(arm, retry)
        /\ due' = IF pending' = retry.url THEN retry ELSE NoRetry
        /\ act' = NoAct
        /\ UNCHANGED config

-----------------------------------------------------------------------------
(* A call returns.                                                         *)

HostsOf(urls) == {HostOf[u] : u \in urls}

SearchReturns ==
    /\ pc = "call" /\ act.kind = "search"
    /\ UNCHANGED <<forced, fallback, scraped, barred, tally, texts>>
    /\ \E found \in SUBSET Urls :
          /\ seen' = seen \cup found
          /\ IF target # NoUrl \/ found \cap Fetchable = {} THEN UNCHANGED target
             ELSE target' \in found \cap Fetchable
          /\ \E both \in SUBSET (HostsOf(found) \cap HostsOf(seen)) : cross' = cross \cup both
          /\ \E e \in EvidenceAfter(found # {}) : Ends(e, NoRetry)

(* A page without text has its URL for a title when it was fetched, and    *)
(* may have nothing when it was scraped.                                   *)
Results(tool) ==
    IF tool = "page_fetch" THEN {"error", "text"} ELSE {"error", "empty", "text"}

TextsAfter(out) ==
    IF out = "text" THEN [texts EXCEPT ![PageOf[act.url]] = @ + 1] ELSE texts

(* The ungated fetch counts as a tool that returned the host.              *)
LegacyReturns ==
    /\ pc = "call" /\ act.kind = "legacy"
    /\ UNCHANGED <<forced, fallback, scraped, barred, seen, target, tally>>
    /\ \E out \in Results(act.tool) :
          /\ cross' = IF out = "text" THEN cross \cup {HostOf[act.url]} ELSE cross
          /\ texts' = TextsAfter(out)
          /\ \E e \in EvidenceAfter(out = "text") : Ends(e, NoRetry)

(* A failed scrape is retried with page_fetch, an empty fetch (one that    *)
(* failed) is left pending for the policy to choose again.                 *)
FallsBack(out) ==
    \/ out = "error" /\ act.tool = "firecrawl_scrape" /\ "page_fetch" \in enabled
    \/ out # "text" /\ act.tool = "page_fetch" /\ "firecrawl_scrape" \in enabled

(* A retry that was scheduled is resolved by the next read of any page.    *)
Tallied(out) ==
    [attempted |-> tally.attempted + (IF FallsBack(out) THEN 1 ELSE 0),
     success |-> tally.success + (IF fallback /\ out = "text" THEN 1 ELSE 0),
     failed |-> tally.failed + (IF fallback /\ out # "text" THEN 1 ELSE 0)]

(* The pages read, and the hosts that did not help, after a read.          *)
ScrapedMutant(out) == scraped \cup {PageOf[act.url]}
Scraped(out) == IF FallsBack(out) THEN scraped ELSE scraped \cup {PageOf[act.url]}

ReadReturns(out) ==
    LET again == FallsBack(out) IN
    /\ pc = "call" /\ act.kind = "read"
    /\ out \in Results(act.tool)
    /\ tally' = Tallied(out)
    /\ fallback' = again
    /\ forced' = (again /\ act.tool = "firecrawl_scrape")
    /\ scraped' = Scraped(out)
    /\ texts' = TextsAfter(out)
    /\ UNCHANGED <<cross, seen, target>>
    /\ \E e \in EvidenceAfter(out = "text") :
          /\ barred' = IF ~ again /\ (out = "error" \/ ~ Improved(e))
                       THEN barred \cup {HostOf[act.url]} ELSE barred
          /\ Ends(e, IF again THEN [url |-> act.url, after |-> act.tool] ELSE NoRetry)

Terminated == pc = "done" /\ UNCHANGED vars

Next ==
    \/ Read \/ LegacyRead \/ Search
    \/ SearchReturns \/ LegacyReturns
    \/ \E out \in {"error", "empty", "text"} : ReadReturns(out)
    \/ Terminated

Spec == Init /\ [][Next]_vars

-----------------------------------------------------------------------------
(* The state of the loop is what the code's variables can hold.            *)
TypeOK ==
    /\ pc \in {"choose", "call", "done"}
    /\ act \in [kind : {"none", "search", "read", "legacy"}, url : Urls \cup {NoUrl},
                tool : Tools \cup {"none"}]
    /\ pending \in Urls \cup {NoUrl} /\ target \in Fetchable \cup {NoUrl}
    /\ forced \in BOOLEAN /\ fallback \in BOOLEAN
    /\ scraped \subseteq Pages /\ barred \subseteq Hosts /\ cross \subseteq Hosts
    /\ seen \subseteq Urls
    /\ evidence \in Evidence /\ best \in 0 .. 20
    /\ enabled \subseteq Tools /\ iterative \in BOOLEAN /\ stopMode \in StopModes
    /\ calls \in 0 .. Budget /\ (pc # "done" => calls < Budget)
    /\ tally \in [attempted : Nat, success : Nat, failed : Nat]
    /\ due \in [url : Urls \cup {NoUrl}, after : Tools \cup {"none"}]
    /\ texts \in [Pages -> Nat]

(* The report's counts of retries add up: each was resolved once, as a     *)
(* success or a failure, or is the one outstanding.                        *)
FallbackAccounting ==
    tally.attempted = tally.success + tally.failed + (IF fallback THEN 1 ELSE 0)

(* When the policy gates reads, no page's text is read twice, under any of *)
(* its URLs, by any tool, through a retry or a new target.                 *)
TextReadOnce == Gated => \A p \in Pages : texts[p] <= 1

(* A retry that no stop decision replaced is the very next call, is not    *)
(* refused by the policy, and after a failed scrape is a basic fetch.      *)
RetryIsNext ==
    pc = "call" /\ due.url # NoUrl =>
        /\ act.kind = "read" /\ act.url = due.url
        /\ due.after = "firecrawl_scrape" => act.tool = "page_fetch"

(* An item that stops before its budget has a supported answer, and where  *)
(* sources contradict each other the learned policy stops only with an     *)
(* authoritative and fresh source.                                         *)
StopIsEarned ==
    pc = "done" /\ calls < Budget =>
        /\ evidence.support
        /\ stopMode = "learned" /\ evidence.contradiction
               => evidence.authority /\ evidence.fresh

=============================================================================
