-------------------------- MODULE SearchLoopSafety --------------------------
(***************************************************************************)
(* Proofs about SearchLoop, for any pages, hosts, URL attributes and       *)
(* budget: the report's retry counts add up, a gated page's text is read   *)
(* once, a scheduled retry is the next call, and an early stop is earned.  *)
(***************************************************************************)
EXTENDS SearchLoop, TLAPS

(* What the step at hand may rely on: a read was admitted and nothing has  *)
(* changed since, and the legacy path runs only when reads are not gated.  *)
ActInv ==
    /\ pc = "call" /\ act.kind = "read" =>
          Gated /\ act.url \in Urls /\ Admitted(act.url) /\ act.tool \in Tools
    /\ pc = "call" /\ act.kind = "legacy" => ~ Gated /\ act.url \in Urls

(* A page whose text was read is barred from the next read.                *)
TextInv == Gated => \A p \in Pages : texts[p] <= 1 /\ (texts[p] = 1 => p \in scraped)

(* Between two steps a scheduled retry is pending, still admitted, and     *)
(* after a failed scrape forced onto the other tool.                       *)
DueInv ==
    pc = "choose" /\ due.url # NoUrl =>
        /\ pending = due.url /\ Gated /\ Admitted(due.url)
        /\ due.after = "firecrawl_scrape" => forced /\ "page_fetch" \in enabled

Inv == TypeOK /\ ActInv /\ TextInv /\ DueInv /\ RetryIsNext /\ FallbackAccounting

-----------------------------------------------------------------------------
(* The score of any evidence is between 0 and 20 twentieths.               *)
LEMMA ScoreRange ==
    ASSUME NEW e \in Evidence
    PROVE  Score(e) \in 0 .. 20
<1>1. e.support \in BOOLEAN /\ e.authority \in BOOLEAN /\ e.fresh \in BOOLEAN
          /\ e.contradiction \in BOOLEAN /\ (e.contradiction => e.support)
    BY DEF Evidence
<1>. QED BY <1>1 DEF Score, Points

(* What the end of a step does to the state, whatever it was a step of.    *)
LEMMA EndsFacts ==
    ASSUME LoopAssumption, TypeOK, pc = "call",
           NEW e \in Evidence,
           NEW retry \in [url : Urls \cup {NoUrl}, after : Tools \cup {"none"}],
           target' \in Fetchable \cup {NoUrl}, seen' \subseteq Urls,
           Ends(e, retry)
    PROVE  /\ pc' \in {"choose", "done"}
           /\ act' = NoAct
           /\ pending' \in Urls \cup {NoUrl}
           /\ evidence' = e /\ best' \in 0 .. 20
           /\ calls' \in 0 .. Budget /\ (pc' # "done" => calls' < Budget)
           /\ due' \in {retry, NoRetry}
           /\ due'.url # NoUrl => due' = retry /\ pending' = retry.url
           /\ UNCHANGED config
<1>1. PICK arm \in Decisions(e, target' # NoUrl \/ (iterative /\ seen' # {})) :
        /\ evidence' = e
        /\ best' = IF Score(e) > best THEN Score(e) ELSE best
        /\ calls' = calls + 1
        /\ IF arm = "stop_now" THEN pc' = "done" /\ pending' = retry.url
           ELSE pc' = "choose" /\ pending' \in NextPending(arm, retry)
        /\ due' = IF pending' = retry.url THEN retry ELSE NoRetry
        /\ act' = NoAct
        /\ UNCHANGED config
    BY DEF Ends
<1>2. pc' \in {"choose", "done"} /\ act' = NoAct /\ evidence' = e /\ UNCHANGED config
    BY <1>1
<1>3. pending' \in Urls \cup {NoUrl}
    <2>1. NextPending(arm, retry) \subseteq Urls \cup {NoUrl}
        BY DEF NextPending, LoopAssumption
    <2>. QED BY <1>1, <2>1
<1>4. best' \in 0 .. 20
    BY <1>1, ScoreRange DEF TypeOK
<1>5. calls' \in 0 .. Budget /\ (pc' # "done" => calls' < Budget)
    <2>1. calls \in Nat /\ Budget \in Nat /\ calls < Budget
        BY DEF TypeOK, LoopAssumption
    <2>2. LastCall => arm = "stop_now"
        BY <1>1 DEF Decisions
    <2>. QED BY <1>1, <2>1, <2>2 DEF LastCall
<1>6. due' \in {retry, NoRetry} /\ (due'.url # NoUrl => due' = retry /\ pending' = retry.url)
    BY <1>1 DEF NoRetry
<1>. QED BY <1>2, <1>3, <1>4, <1>5, <1>6

(* What the evidence grows to is evidence.                                 *)
LEMMA EvidenceGrows ==
    ASSUME TypeOK, NEW got \in BOOLEAN
    PROVE  EvidenceAfter(got) \subseteq Evidence
BY DEF EvidenceAfter, Grown, TypeOK

-----------------------------------------------------------------------------
(* The top of a step keeps the invariant.                                  *)
LEMMA TopKeepsInv ==
    ASSUME LoopAssumption, Inv, Read \/ LegacyRead \/ Search
    PROVE  Inv'
<1>. USE DEF Inv
<1>1. PICK kind \in {"read", "legacy", "search"}, u \in Urls \cup {NoUrl},
            tool \in Tools \cup {"none"} : Begins(kind, u, tool)
    BY DEF Read, LegacyRead, Search, Tools, Selected, TypeOK
<1>2. pc = "choose" /\ pc' = "call" /\ pending' = NoUrl /\ forced' \in BOOLEAN
        /\ UNCHANGED <<fallback, scraped, barred, cross, seen, target, evidence, best,
                       config, calls, tally, due, texts>>
    BY DEF Read, LegacyRead, Search, Begins, TypeOK
<1>3. UNCHANGED <<enabled, iterative, stopMode>>
    BY <1>2 DEF config
<1>4. Gated' = Gated /\ \A v : Admitted(v)' <=> Admitted(v)
    BY <1>2, <1>3 DEF Gated, Admitted
<1>5. TypeOK'
    <2>1. act' \in [kind : {"none", "search", "read", "legacy"}, url : Urls \cup {NoUrl},
                    tool : Tools \cup {"none"}]
        BY <1>1 DEF Begins
    <2>. QED BY <1>2, <1>3, <2>1 DEF TypeOK
<1>6. ActInv' /\ RetryIsNext'
    <2>1. CASE Read
        <3>1. act' = [kind |-> "read", url |-> pending, tool |-> Selected(pending)]
                /\ pending \in Urls /\ Gated /\ Admitted(pending)
            BY <2>1 DEF Read, Begins, TypeOK
        <3>2. act'.kind = "read" /\ act'.url = pending /\ act'.tool = Selected(pending)
                /\ Selected(pending) \in Tools
            BY <3>1 DEF Selected, Tools
        <3>3. due.url # NoUrl /\ due.after = "firecrawl_scrape" => Selected(pending) = "page_fetch"
            BY <1>2 DEF DueInv, Selected
        <3>. QED BY <1>2, <1>4, <3>1, <3>2, <3>3 DEF ActInv, RetryIsNext, DueInv
    <2>2. CASE LegacyRead
        <3>1. act'.kind = "legacy" /\ act'.url = pending /\ pending \in Urls /\ ~ Gated
            BY <2>2 DEF LegacyRead, Begins, TypeOK
        <3>. QED BY <1>2, <1>4, <3>1 DEF ActInv, RetryIsNext, DueInv
    <2>3. CASE Search
        <3>1. act'.kind = "search" /\ (pending # NoUrl => ~ Admitted(pending))
            BY <2>3 DEF Search, Begins
        <3>. QED BY <1>2, <3>1 DEF ActInv, RetryIsNext, DueInv
    <2>. QED BY <2>1, <2>2, <2>3
<1>7. TextInv' /\ DueInv' /\ FallbackAccounting'
    BY <1>2, <1>4 DEF TextInv, DueInv, FallbackAccounting
<1>. QED BY <1>5, <1>6, <1>7

-----------------------------------------------------------------------------
(* The return of a search or of an ungated read schedules no retry.        *)
LEMMA PlainReturnKeepsInv ==
    ASSUME LoopAssumption, Inv, SearchReturns \/ LegacyReturns
    PROVE  Inv'
<1>. USE DEF Inv
<1>1. pc = "call" /\ act.kind \in {"search", "legacy"}
        /\ UNCHANGED <<forced, fallback, scraped, barred, tally>>
    BY DEF SearchReturns, LegacyReturns
<1>2. cross' \subseteq Hosts /\ seen' \subseteq Urls /\ target' \in Fetchable \cup {NoUrl}
    <2>1. CASE SearchReturns
        <3>1. PICK found \in SUBSET Urls :
                /\ seen' = seen \cup found
                /\ IF target # NoUrl \/ found \cap Fetchable = {} THEN UNCHANGED target
                   ELSE target' \in found \cap Fetchable
                /\ \E both \in SUBSET (HostsOf(found) \cap HostsOf(seen)) : cross' = cross \cup both
            BY <2>1 DEF SearchReturns
        <3>2. HostsOf(found) \subseteq Hosts
            BY DEF HostsOf, LoopAssumption
        <3>. QED BY <3>1, <3>2 DEF TypeOK
    <2>2. CASE LegacyReturns
        <3>1. act.url \in Urls /\ HostOf[act.url] \in Hosts
            BY <2>2 DEF LegacyReturns, ActInv, LoopAssumption
        <3>. QED BY <2>2, <3>1 DEF LegacyReturns, TypeOK
    <2>. QED BY <2>1, <2>2
<1>3. texts' \in [Pages -> Nat] /\ (Gated => texts' = texts)
    <2>1. CASE SearchReturns
        BY <2>1 DEF SearchReturns, TypeOK
    <2>2. CASE LegacyReturns
        <3>1. PICK out : texts' = TextsAfter(out)
            BY <2>2 DEF LegacyReturns
        <3>2. act.url \in Urls /\ ~ Gated
            BY <2>2 DEF LegacyReturns, ActInv
        <3>3. PageOf[act.url] \in Pages
            BY <3>2 DEF LoopAssumption
        <3>. QED BY <3>1, <3>2, <3>3 DEF TextsAfter, TypeOK
    <2>. QED BY <2>1, <2>2
<1>4. PICK e \in Evidence : Ends(e, NoRetry)
    <2>1. \A got \in BOOLEAN : EvidenceAfter(got) \subseteq Evidence
        BY EvidenceGrows
    <2>2. CASE SearchReturns
        BY <2>1, <2>2 DEF SearchReturns
    <2>3. CASE LegacyReturns
        BY <2>1, <2>3 DEF LegacyReturns
    <2>. QED BY <2>2, <2>3
<1>5. NoRetry \in [url : Urls \cup {NoUrl}, after : Tools \cup {"none"}]
    BY DEF NoRetry
<1>6. /\ pc' \in {"choose", "done"}
      /\ act' = NoAct
      /\ pending' \in Urls \cup {NoUrl}
      /\ evidence' = e /\ best' \in 0 .. 20
      /\ calls' \in 0 .. Budget /\ (pc' # "done" => calls' < Budget)
      /\ due' = NoRetry
      /\ UNCHANGED config
    BY <1>1, <1>2, <1>4, <1>5, EndsFacts
<1>7. UNCHANGED <<enabled, iterative, stopMode>> /\ Gated' = Gated
    BY <1>6 DEF config, Gated
<1>8. TypeOK'
    BY <1>1, <1>2, <1>3, <1>5, <1>6, <1>7 DEF TypeOK, NoAct
<1>9. ActInv' /\ RetryIsNext' /\ DueInv'
    BY <1>6 DEF ActInv, RetryIsNext, DueInv, NoRetry
<1>10. TextInv' /\ FallbackAccounting'
    BY <1>1, <1>3, <1>7 DEF TextInv, FallbackAccounting
<1>. QED BY <1>8, <1>9, <1>10

-----------------------------------------------------------------------------
(* The return of a gated read keeps the invariant.                         *)
LEMMA ReadReturnKeepsInv ==
    ASSUME LoopAssumption, Inv, NEW out \in {"error", "empty", "text"}, ReadReturns(out)
    PROVE  Inv'
<1>. USE DEF Inv
<1>. DEFINE again == FallsBack(out)
            retry == IF FallsBack(out) THEN [url |-> act.url, after |-> act.tool] ELSE NoRetry
<1>1. /\ pc = "call" /\ act.kind = "read"
      /\ act.url \in Urls /\ act.tool \in Tools /\ Gated /\ Admitted(act.url)
      /\ PageOf[act.url] \in Pages /\ HostOf[act.url] \in Hosts
    BY DEF ReadReturns, ActInv, LoopAssumption
<1>2. /\ tally' = Tallied(out)
      /\ fallback' = FallsBack(out)
      /\ forced' = (FallsBack(out) /\ act.tool = "firecrawl_scrape")
      /\ scraped' = Scraped(out)
      /\ texts' = TextsAfter(out)
      /\ UNCHANGED <<cross, seen, target>>
    BY DEF ReadReturns
<1>3. PICK e \in Evidence :
          /\ barred' = IF ~ FallsBack(out) /\ (out = "error" \/ ~ Improved(e))
                       THEN barred \cup {HostOf[act.url]} ELSE barred
          /\ Ends(e, retry)
    <2>1. EvidenceAfter(out = "text") \subseteq Evidence
        BY EvidenceGrows
    <2>. QED BY <2>1 DEF ReadReturns
<1>4. retry \in [url : Urls \cup {NoUrl}, after : Tools \cup {"none"}]
    BY <1>1 DEF NoRetry
<1>5. FallsBack(out) \in BOOLEAN /\ fallback' \in BOOLEAN /\ forced' \in BOOLEAN
    BY <1>2 DEF FallsBack
<1>6. PICK r \in [url : Urls \cup {NoUrl}, after : Tools \cup {"none"}] :
          r = retry /\ Ends(e, r)
    BY <1>3, <1>4
<1>7. /\ pc' \in {"choose", "done"}
      /\ act' = NoAct
      /\ pending' \in Urls \cup {NoUrl}
      /\ evidence' = e /\ best' \in 0 .. 20
      /\ calls' \in 0 .. Budget /\ (pc' # "done" => calls' < Budget)
      /\ due' \in {r, NoRetry}
      /\ due'.url # NoUrl => due' = r /\ pending' = r.url
      /\ UNCHANGED config
    <2>1. target' \in Fetchable \cup {NoUrl} /\ seen' \subseteq Urls
        BY <1>2 DEF TypeOK
    <2>. QED BY <1>1, <1>6, <2>1, EndsFacts
<1>8. UNCHANGED <<enabled, iterative, stopMode>> /\ Gated'
    BY <1>1, <1>7 DEF config, Gated
<1>9. TypeOK'
    <2>1. scraped' \subseteq Pages /\ barred' \subseteq Hosts
        BY <1>1, <1>2, <1>3 DEF Scraped, TypeOK
    <2>2. tally' \in [attempted : Nat, success : Nat, failed : Nat]
        <3>1. tally.attempted \in Nat /\ tally.success \in Nat /\ tally.failed \in Nat
            BY DEF TypeOK
        <3>. QED BY <1>2, <3>1 DEF Tallied
    <2>3. texts' \in [Pages -> Nat]
        BY <1>1, <1>2 DEF TextsAfter, TypeOK
    <2>4. due' \in [url : Urls \cup {NoUrl}, after : Tools \cup {"none"}]
        BY <1>7 DEF NoRetry
    <2>5. act' \in [kind : {"none", "search", "read", "legacy"}, url : Urls \cup {NoUrl},
                    tool : Tools \cup {"none"}]
        BY <1>7 DEF NoAct
    <2>. QED BY <1>2, <1>5, <1>7, <1>8, <2>1, <2>2, <2>3, <2>4, <2>5 DEF TypeOK
<1>10. ActInv' /\ RetryIsNext'
    BY <1>7 DEF ActInv, RetryIsNext
<1>11. TextInv'
    <2>1. CASE out = "text"
        <3>1. ~ FallsBack(out)
            BY <2>1 DEF FallsBack
        <3>2. scraped' = scraped \cup {PageOf[act.url]} /\ PageOf[act.url] \notin scraped
            BY <1>1, <1>2, <3>1 DEF Scraped, Admitted
        <3>3. texts' = [texts EXCEPT ![PageOf[act.url]] = texts[PageOf[act.url]] + 1]
            BY <1>2, <2>1 DEF TextsAfter
        <3>4. texts \in [Pages -> Nat]
            BY DEF TypeOK
        <3>. QED BY <1>1, <3>2, <3>3, <3>4 DEF TextInv
    <2>2. CASE out # "text"
        BY <1>1, <1>2, <2>2 DEF TextsAfter, Scraped, TextInv
    <2>. QED BY <2>1, <2>2
<1>12. DueInv'
    <2>. SUFFICES ASSUME due'.url # NoUrl
                  PROVE  /\ pending' = due'.url /\ Admitted(due.url)'
                         /\ due'.after = "firecrawl_scrape" => forced' /\ "page_fetch" \in enabled'
        BY <1>8 DEF DueInv
    <2>1. due' = r /\ pending' = r.url /\ r.url # NoUrl
        BY <1>7
    <2>2. FallsBack(out) /\ r = [url |-> act.url, after |-> act.tool]
        BY <1>6, <2>1 DEF NoRetry
    <2>3. scraped' = scraped /\ barred' = barred /\ cross' = cross
        BY <1>2, <1>3, <2>2 DEF Scraped
    <2>4. due'.url = act.url /\ due'.after = act.tool /\ pending' = act.url
        BY <2>1, <2>2
    <2>5. Admitted(due.url)'
        BY <1>1, <2>3, <2>4 DEF Admitted
    <2>6. act.tool = "firecrawl_scrape" => "page_fetch" \in enabled
        BY <2>2 DEF FallsBack
    <2>. QED BY <1>2, <1>8, <2>2, <2>4, <2>5, <2>6
<1>13. FallbackAccounting'
    <2>1. tally.attempted \in Nat /\ tally.success \in Nat /\ tally.failed \in Nat
            /\ fallback \in BOOLEAN
        BY DEF TypeOK
    <2>2. /\ tally'.attempted = tally.attempted + (IF FallsBack(out) THEN 1 ELSE 0)
          /\ tally'.success = tally.success + (IF fallback /\ out = "text" THEN 1 ELSE 0)
          /\ tally'.failed = tally.failed + (IF fallback /\ out # "text" THEN 1 ELSE 0)
        BY <1>2 DEF Tallied
    <2>. QED BY <1>2, <1>5, <2>1, <2>2 DEF FallbackAccounting
<1>. QED BY <1>9, <1>10, <1>11, <1>12, <1>13

-----------------------------------------------------------------------------
(* The invariant holds in every reachable state.                           *)
THEOREM Invariance == LoopAssumption => (Spec => []Inv)
<1>. SUFFICES ASSUME LoopAssumption PROVE Spec => []Inv
    OBVIOUS
<1>1. Init => Inv
    <2>. SUFFICES ASSUME Init PROVE Inv
        OBVIOUS
    <2>1. tally \in [attempted : Nat, success : Nat, failed : Nat] /\ FallbackAccounting
        <3>1. tally = [attempted |-> 0, success |-> 0, failed |-> 0] /\ fallback = FALSE
            BY DEF Init
        <3>. QED BY <3>1 DEF FallbackAccounting
    <2>2. act \in [kind : {"none", "search", "read", "legacy"}, url : Urls \cup {NoUrl},
                   tool : Tools \cup {"none"}]
        BY DEF Init, NoAct
    <2>3. due \in [url : Urls \cup {NoUrl}, after : Tools \cup {"none"}]
        BY DEF Init, NoRetry
    <2>4. calls \in 0 .. Budget /\ calls < Budget
        BY DEF Init, LoopAssumption
    <2>5. TypeOK
        <3>1. texts \in [Pages -> Nat]
            BY DEF Init
        <3>2. pc = "choose" /\ pending = NoUrl /\ target = NoUrl
                /\ forced = FALSE /\ fallback = FALSE
                /\ scraped = {} /\ barred = {} /\ cross = {} /\ seen = {}
            BY DEF Init
        <3>3. evidence \in Evidence /\ best \in 0 .. 20
            BY DEF Init
        <3>4. enabled \subseteq Tools /\ iterative \in BOOLEAN /\ stopMode \in StopModes
            BY DEF Init
        <3>. QED BY <2>1, <2>2, <2>3, <2>4, <3>1, <3>2, <3>3, <3>4 DEF TypeOK
    <2>6. ActInv /\ TextInv /\ DueInv /\ RetryIsNext
        BY DEF Init, ActInv, TextInv, DueInv, RetryIsNext, NoRetry
    <2>. QED BY <2>1, <2>5, <2>6 DEF Inv
<1>2. Inv /\ [Next]_vars => Inv'
    <2>. SUFFICES ASSUME Inv, [Next]_vars PROVE Inv'
        OBVIOUS
    <2>1. CASE Read \/ LegacyRead \/ Search
        BY <2>1, TopKeepsInv
    <2>2. CASE SearchReturns \/ LegacyReturns
        BY <2>2, PlainReturnKeepsInv
    <2>3. ASSUME NEW out \in {"error", "empty", "text"}, ReadReturns(out) PROVE Inv'
        BY <2>3, ReadReturnKeepsInv
    <2>4. CASE UNCHANGED vars
        BY <2>4 DEF vars, config, Inv, TypeOK, ActInv, TextInv, DueInv, RetryIsNext,
                    FallbackAccounting, Gated, Admitted
    <2>. QED BY <2>1, <2>2, <2>3, <2>4 DEF Next, Terminated
<1>. QED BY <1>1, <1>2, PTL DEF Spec

(* The state of the loop is always what the code's variables can hold, and *)
(* no item makes a call beyond its budget.                                 *)
THEOREM TypeCorrect == LoopAssumption => (Spec => []TypeOK)
BY Invariance, PTL DEF Inv

(* The report's counts of retries always add up.                           *)
THEOREM RetriesAddUp == LoopAssumption => (Spec => []FallbackAccounting)
BY Invariance, PTL DEF Inv

(* A scheduled retry that no decision replaced is always the next call.    *)
THEOREM RetriesComeNext == LoopAssumption => (Spec => []RetryIsNext)
BY Invariance, PTL DEF Inv

(* The text of a gated page is never read twice in an item.                *)
THEOREM TextsAreReadOnce == LoopAssumption => (Spec => []TextReadOnce)
<1>1. Inv => TextReadOnce
    BY DEF Inv, TextInv, TextReadOnce
<1>. QED BY <1>1, Invariance, PTL

-----------------------------------------------------------------------------
(* With a threshold of at least 0.6, an early stop is always earned: below *)
(* it, or with the penalty for contradictions left out, it is not.         *)
THEOREM StopsAreEarned ==
    LoopAssumption /\ StopThreshold >= 12 => (Spec => []StopIsEarned)
<1>. SUFFICES ASSUME LoopAssumption, StopThreshold >= 12 PROVE Spec => []StopIsEarned
    OBVIOUS
<1>1. Init => StopIsEarned
    BY DEF Init, StopIsEarned
<1>2. ASSUME TypeOK, NEW e \in Evidence, NEW retry, Ends(e, retry)
      PROVE  StopIsEarned'
    <2>1. PICK arm \in Decisions(e, target' # NoUrl \/ (iterative /\ seen' # {})) :
            /\ evidence' = e /\ calls' = calls + 1 /\ stopMode' = stopMode
            /\ arm = "stop_now" <=> pc' = "done"
        BY <1>2 DEF Ends, config
    <2>. SUFFICES ASSUME arm = "stop_now", ~ LastCall
                  PROVE  e.support /\ (stopMode = "learned" /\ e.contradiction
                                          => e.authority /\ e.fresh)
        <3>1. calls \in Nat /\ Budget \in Nat
            BY <1>2 DEF TypeOK, LoopAssumption
        <3>. QED BY <2>1, <3>1 DEF StopIsEarned, LastCall
    <2>2. stopMode \in {"always_full", "first_candidate", "learned"}
        BY <1>2 DEF TypeOK, LoopAssumption
    <2>3. e.support \in BOOLEAN /\ e.authority \in BOOLEAN /\ e.fresh \in BOOLEAN
            /\ e.contradiction \in BOOLEAN /\ (e.authority => e.support)
            /\ (e.contradiction => e.support)
        BY DEF Evidence
    <2>4. CASE stopMode = "always_full"
        BY <2>1, <2>4 DEF Decisions
    <2>5. CASE stopMode = "first_candidate"
        BY <2>1, <2>5 DEF Decisions
    <2>6. CASE stopMode = "learned"
        <3>1. Score(e) >= 12
            <4>1. Score(e) >= StopThreshold
                BY <2>1, <2>6 DEF Decisions
            <4>2. Score(e) \in Int /\ StopThreshold \in Int
                BY ScoreRange DEF LoopAssumption
            <4>. QED BY <4>1, <4>2
        <3>. QED BY <2>3, <3>1 DEF Score, Points
    <2>. QED BY <2>2, <2>4, <2>5, <2>6
<1>3. TypeOK /\ StopIsEarned /\ [Next]_vars => StopIsEarned'
    <2>. SUFFICES ASSUME TypeOK, StopIsEarned, [Next]_vars PROVE StopIsEarned'
        OBVIOUS
    <2>1. \A got \in BOOLEAN : EvidenceAfter(got) \subseteq Evidence
        BY EvidenceGrows
    <2>2. CASE Read \/ LegacyRead \/ Search
        BY <2>2 DEF Read, LegacyRead, Search, Begins, StopIsEarned
    <2>3. CASE SearchReturns
        BY <1>2, <2>1, <2>3 DEF SearchReturns
    <2>4. CASE LegacyReturns
        BY <1>2, <2>1, <2>4 DEF LegacyReturns
    <2>5. ASSUME NEW out \in {"error", "empty", "text"}, ReadReturns(out)
          PROVE  StopIsEarned'
        BY <1>2, <2>1, <2>5 DEF ReadReturns
    <2>6. CASE UNCHANGED vars
        BY <2>6 DEF vars, config, StopIsEarned
    <2>. QED BY <2>2, <2>3, <2>4, <2>5, <2>6 DEF Next, Terminated
<1>4. Spec => []TypeOK
    BY TypeCorrect
<1>. QED BY <1>1, <1>3, <1>4, PTL DEF Spec
=============================================================================
