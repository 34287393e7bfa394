-------------------------- MODULE ReplayValidation --------------------------
(***************************************************************************)
(* Offline validation of a run's re-judgments (eval/replay_validation.py): *)
(* each obligation of the debug records is followed from the record to a   *)
(* located body, a judgeable passage and a verdict, and the report counts  *)
(* how far each got.  The verdict is the strict entry the run left (see    *)
(* JudgmentLog), if the body it names can be verified; otherwise, when the *)
(* live tier is allowed, a new call of the judge, up to a cap, whose       *)
(* verdict is written back for the next validation.                        *)
(*                                                                         *)
(* Debug records are native (pending_read_judgments).  A body comes from   *)
(* the recording cache, which may lack either kind of provider; a debug    *)
(* preview is always there.  URLs match exactly or by host.  Passage       *)
(* windows, truncation and the service registry only add counts.           *)
(***************************************************************************)
EXTENDS JudgmentLog

CONSTANTS
    Caps,       \* the max_judge_calls a validation may be given
    MaxPasses   \* validations of the run directory

ASSUME ValidationAssumption == Caps \subseteq Nat /\ MaxPasses \in Nat

VARIABLES
    providers,  \* the provider classes whose entries the cache kept
    tier,       \* [live: allow_live_judge, cap: max_judge_calls]
    snapshot,   \* the entries present when the validation began
    place,      \* <<record, obligation>> to examine next
    found,      \* the outcomes so far, in order
    spent,      \* live_calls
    previous,   \* the last report and its tier
    passes      \* validations begun

checkVars == <<providers, tier, snapshot, place, found, spent, previous, passes>>
validationVars == <<phase, logVars, file, faults, checkVars>>

NoTier == [live |-> FALSE, cap |-> 0]

CheckInit ==
    /\ LogInit
    /\ providers = {} /\ tier = NoTier /\ snapshot = {} /\ place = <<1, 1>> /\ found = <<>>
    /\ spent = 0 /\ previous = Nothing /\ passes = 0

-----------------------------------------------------------------------------
(* Locating a body.                                                        *)

\* Every obligation's own page was a search result of the run.
CacheUrls ==
    {u \in Urls : \/ "search" \in providers
                  \/ "read" \in providers /\ cached[u] # Nothing}

\* _match_url: the page itself, or another page of its host.
MatchUrl(u) ==
    IF u \in CacheUrls THEN u
    ELSE IF \E w \in CacheUrls : HostOf[w] = HostOf[u]
         THEN CHOOSE w \in CacheUrls : HostOf[w] = HostOf[u]
    ELSE Nothing

\* Only the body a reading tool returned is one; a snippet is a diagnostic.
Located(u) ==
    IF MatchUrl(u) = Nothing THEN "debug_snippet_only"
    ELSE IF "read" \in providers /\ cached[MatchUrl(u)] # Nothing
         THEN "cache_read_body"
    ELSE "cache_search_snippet_only"

BodyAt(u) == cached[MatchUrl(u)]

-----------------------------------------------------------------------------
(* Verifying a recorded verdict.                                           *)

Refused(reason, class) ==
    [verdict |-> Nothing, method |-> "none", reason |-> reason, class |-> class]
Accepted(entry, method) ==
    [verdict |-> entry.verdict, method |-> method, reason |-> "", class |-> ""]

\* The read-body manifest holds the bodies of the records read so far.
Manifest == UNION {records[r].bodies : r \in 1..place[1]}

\* _recorded_rejudgment: by the id of the judged body, which fixes its hash,
\* or, for an entry of a validation, by the hash of the located text.
RecordedMutant(entry, con, text) ==
    IF entry = Nothing THEN Refused("judge_cache_missing", "")
    ELSE IF entry.con # con THEN Refused("body_hash_mismatch", "strict_version_mismatch")
    ELSE Accepted(entry, IF entry.kind = "live" THEN "body_id" ELSE "url_fallback")
Recorded(entry, con, text) ==
    IF entry = Nothing THEN Refused("judge_cache_missing", "")
    ELSE IF entry.con # con THEN Refused("body_hash_mismatch", "strict_version_mismatch")
    ELSE IF entry.kind = "live"
    THEN IF entry.body \notin Manifest
         THEN Refused("body_not_found", "read_body_id_not_found_in_manifest")
         ELSE IF entry.body.text \in Dirty
         THEN Refused("body_hash_mismatch", "read_body_id_not_found_in_manifest")
         ELSE Accepted(entry, "body_id")
    ELSE IF entry.body.text = text THEN Accepted(entry, "url_fallback")
    ELSE Refused("body_hash_mismatch", "cache_body_hash_differs_from_manifest")

Verification(n, con, text) ==
    IF file.state # "ok" THEN Refused("judge_cache_missing", "strict_version_mismatch")
    ELSE Recorded(file.entries[n], con, text)

-----------------------------------------------------------------------------
(* One obligation.                                                         *)

Blank(o, source) ==
    [source |-> source, stage |-> "reconstructed", closure |-> "unvalidated_cache_miss",
     outcome |-> "", from |-> "", verified |-> FALSE, method |-> "none",
     reason |-> "", class |-> "", status |-> o.status, gap |-> o.gap,
     attempted |-> o.attempted, text |-> Nothing, of |-> Nothing]

\* An obligation without a judgeable passage is not judged; a verdict the run
\* recorded for it is still verified, for the account of its status.
Unjudged(o, n) ==
    LET v == Verification(n, o.con, BodyAt(o.url))
        b == Blank(o, Located(o.url))
    IN  IF b.source # "cache_read_body" THEN b
        ELSE [b EXCEPT !.stage = "actual_body_located",
                       !.class = IF o.status = "" THEN "" ELSE v.class,
                       !.verified = o.status # "" /\ v.verdict # Nothing,
                       !.method = IF o.status # "" THEN v.method ELSE "none"]

StageOf(closure) ==
    IF closure \in Resolving THEN "closed"
    ELSE IF closure \in SourceTerminal THEN "source_terminal"
    ELSE "judged_unclosed"

\* A verdict is used: the recorded one, or the live judge's.
WithVerdict(b, verdict, from, text, of) ==
    LET closure == ClosureOf(verdict)
    IN  [b EXCEPT !.closure = closure, !.stage = StageOf(closure),
                  !.outcome = OutcomeOf(closure), !.from = from,
                  !.gap = IF @ = "" THEN GapOf(closure, "") ELSE @,
                  !.text = text, !.of = of]

Judgeable(o) ==
    Located(o.url) = "cache_read_body" /\ BodyAt(o.url) \notin Thin

Present(n) == n \in snapshot

-----------------------------------------------------------------------------
(* Validating.                                                             *)

Current == records[place[1]].obls[place[2]]

NextPlace ==
    IF place[2] < Len(records[place[1]].obls) THEN <<place[1], place[2] + 1>>
    ELSE <<place[1] + 1, 1>>

\* load_legacy_run reads the strict store once for presence.  The cache may
\* have been pruned before the run directory was kept.
Begin(live, cap) ==
    /\ phase = "idle" /\ passes < MaxPasses
    /\ phase' = "validate" /\ passes' = passes + 1
    /\ providers' \in IF passes = 0 THEN SUBSET {"read", "search"} ELSE {providers}
    /\ tier' = [live |-> live, cap |-> cap]
    /\ snapshot' = IF file.state = "ok"
                   THEN {n \in Numbers : file.entries[n] # Nothing} ELSE {}
    /\ place' = <<1, 1>> /\ found' = <<>> /\ spent' = 0
    /\ UNCHANGED <<logVars, file, faults, previous>>

Examining == phase = "validate" /\ place[1] <= Len(records)

\* A record without obligations is passed over.
SkipRecord ==
    /\ Examining /\ records[place[1]].obls = <<>>
    /\ place' = <<place[1] + 1, 1>>
    /\ UNCHANGED <<phase, logVars, file, faults, providers, tier, snapshot, found,
                   spent, previous, passes>>

Keep(outcome) ==
    /\ found' = Append(found, outcome) /\ place' = NextPlace
    /\ UNCHANGED <<phase, logVars, providers, tier, snapshot, previous, passes>>

AtObligation == Examining /\ records[place[1]].obls # <<>>

NotJudgeable ==
    /\ AtObligation /\ ~ Judgeable(Current)
    /\ Keep(Unjudged(Current, place[2]))
    /\ UNCHANGED <<file, faults, spent>>

Verdict == Verification(place[2], Current.con, BodyAt(Current.url))
Scanned == [Blank(Current, "cache_read_body") EXCEPT !.stage = "passages_scanned",
                                                     !.method = Verdict.method,
                                                     !.class = Verdict.class]

UseRecorded ==
    /\ AtObligation /\ Judgeable(Current) /\ Verdict.verdict # Nothing
    /\ LET entry == file.entries[place[2]]
       IN  Keep([WithVerdict(Scanned, Verdict.verdict, "recorded", entry.body.text,
                             entry.of) EXCEPT !.verified = TRUE])
    /\ UNCHANGED <<file, faults, spent>>

\* An entry exists, or the run claims one, but its body cannot be verified.
Unverifiable ==
    /\ Verdict.reason \in {"body_hash_mismatch", "body_not_found"}
    /\ Current.status # "" \/ Present(place[2])

Unverified ==
    /\ AtObligation /\ Judgeable(Current) /\ Verdict.verdict = Nothing
    /\ Unverifiable
    /\ Keep([Scanned EXCEPT !.stage = "rejudgment_unverifiable",
                            !.outcome = "unverifiable", !.reason = Verdict.reason])
    /\ UNCHANGED <<file, faults, spent>>

Pending ==
    /\ AtObligation /\ Judgeable(Current) /\ Verdict.verdict = Nothing
    /\ ~ Unverifiable
    /\ ~ tier.live \/ spent >= tier.cap
    /\ Keep([Scanned EXCEPT !.stage = "rejudgment_pending"])
    /\ UNCHANGED <<file, faults, spent>>

\* _live_rejudge: only a verdict that cost a call is written back, into the
\* file as it is now; a file that does not parse is left as it is.
WriteBackMutant(n, verdict, text) ==
    LET entry == [kind |-> "validator", verdict |-> verdict, con |-> Current.con,
                  body |-> [text |-> Nothing, url |-> MatchUrl(Current.url)],
                  of |-> <<records[place[1]].attempt, n>>]
    IN  IF file.state = "torn" THEN UNCHANGED <<file, faults>>
        ELSE \/ /\ file' = [state |-> "ok", entries |-> [file.entries EXCEPT ![n] = entry]]
                /\ UNCHANGED faults
             \/ /\ faults < MaxFaults /\ faults' = faults + 1
                /\ file' \in {file, Torn}
WriteBack(n, verdict, text) ==
    LET entry == [kind |-> "validator", verdict |-> verdict, con |-> Current.con,
                  body |-> [text |-> text, url |-> MatchUrl(Current.url)],
                  of |-> <<records[place[1]].attempt, n>>]
    IN  IF file.state = "torn" THEN UNCHANGED <<file, faults>>
        ELSE \/ /\ file' = [state |-> "ok", entries |-> [file.entries EXCEPT ![n] = entry]]
                /\ UNCHANGED faults
             \/ /\ faults < MaxFaults /\ faults' = faults + 1
                /\ file' \in {file, Torn}

JudgeLive(verdict, called) ==
    /\ Keep(WithVerdict(Scanned, verdict, IF called THEN "live" ELSE "ruled",
                        BodyAt(Current.url), <<records[place[1]].attempt, place[2]>>))
    /\ spent' = spent + (IF called THEN 1 ELSE 0)
    /\ IF called THEN WriteBack(place[2], verdict, BodyAt(Current.url))
                 ELSE UNCHANGED <<file, faults>>

RejudgeLive ==
    /\ AtObligation /\ Judgeable(Current) /\ Verdict.verdict = Nothing
    /\ ~ Unverifiable /\ tier.live /\ spent < tier.cap
    /\ \E verdict \in Verdicts, called \in BOOLEAN : JudgeLive(verdict, called)

-----------------------------------------------------------------------------
(* The report.                                                             *)

ClaimsRecord(status) ==
    status \in {"rejudgment_attempted_recorded",
                "rejudgment_attempted_invalid_response_recorded_fail_closed"}

\* The final lifecycle pass over what the run claimed.
FinalStatusMutant(o, n) ==
    IF o.verified THEN "rejudgment_attempted_recorded"
    ELSE IF ~ ClaimsRecord(o.status) THEN o.status
    ELSE IF o.reason = "body_not_found" THEN "rejudgment_skipped_body_not_found"
    ELSE IF o.reason = "" THEN "rejudgment_missing_invariant_violation"
    ELSE "rejudgment_skipped_body_hash_mismatch"
FinalStatus(o, n) ==
    IF o.verified
    THEN IF o.status = "rejudgment_attempted_invalid_response_recorded_fail_closed"
         THEN o.status ELSE "rejudgment_attempted_recorded"
    ELSE IF ~ ClaimsRecord(o.status) THEN o.status
    ELSE IF o.reason = "body_not_found" THEN "rejudgment_skipped_body_not_found"
    ELSE IF o.reason = "" /\ ~ Present(n) THEN "rejudgment_missing_invariant_violation"
    ELSE "rejudgment_skipped_body_hash_mismatch"

\* The obligations in the order they are examined.
Places == {p \in (1..Len(records)) \X Numbers : p[2] <= Len(records[p[1]].obls)}
Index(p) == Cardinality({q \in Places : \/ q[1] < p[1]
                                        \/ q[1] = p[1] /\ q[2] <= p[2]})

Report ==
    /\ phase = "validate" /\ place[1] > Len(records)
    /\ phase' = "idle"
    /\ previous' = [tier |-> tier, spent |-> spent, faults |-> faults,
                    outcome |-> [p \in Places |->
                                   [found[Index(p)] EXCEPT
                                       !.status = FinalStatus(found[Index(p)], p[2])]]]
    /\ tier' = NoTier /\ snapshot' = {} /\ place' = <<1, 1>> /\ found' = <<>>
    /\ spent' = 0
    /\ UNCHANGED <<logVars, file, faults, providers, passes>>

Done == phase = "idle" /\ passes = MaxPasses /\ UNCHANGED validationVars

CheckNext ==
    \/ LiveStep /\ UNCHANGED checkVars
    \/ Begin(FALSE, 0)
    \/ \E cap \in Caps : Begin(TRUE, cap)
    \/ SkipRecord \/ NotJudgeable \/ UseRecorded \/ Unverified \/ Pending
    \/ RejudgeLive \/ Report
    \/ Done

CheckSpec == CheckInit /\ [][CheckNext]_validationVars
-----------------------------------------------------------------------------
(* What the report counts, and the rules it must satisfy                   *)
(* (consistency_violations).                                               *)

Results == previous.outcome
With(field, values) == {p \in DOMAIN Results : Results[p][field] \in values}

BodyStages == {"actual_body_located", "passages_scanned", "rejudgment_pending",
               "rejudgment_unverifiable", "source_terminal", "judged_unclosed",
               "closed"}
JudgedStages == {"closed", "source_terminal", "judged_unclosed"}

\* Every status but the empty one stands for an attempt.
AttemptsReconcile ==
    Cardinality(With("attempted", {TRUE})) = Cardinality(DOMAIN Results \ With("status", {""}))

OutcomesPartition ==
    LET recorded == With("from", {"recorded"})
    IN  recorded = {} \/ Cardinality(recorded) = Cardinality(With("stage", JudgedStages))

DiagnosticsStayDiagnostic ==
    /\ With("source", {"debug_snippet_only"}) \cap With("stage", JudgedStages) = {}
    /\ With("source", {"cache_search_snippet_only"}) \cap With("stage", BodyStages) = {}

ClosureMatchesStage ==
    /\ With("closure", {"requires_read_still_open"})
          \cap With("stage", {"closed", "source_terminal"}) = {}
    /\ With("outcome", {"source_terminal_non_support"}) \cap With("stage", {"closed"}) = {}

UnverifiableHasClass ==
    With("stage", {"rejudgment_unverifiable"}) \cap With("class", {""}) = {}

Consistent ==
    /\ AttemptsReconcile /\ OutcomesPartition /\ DiagnosticsStayDiagnostic
    /\ ClosureMatchesStage /\ UnverifiableHasClass

-----------------------------------------------------------------------------
(* Properties.                                                             *)

Reported == previous # Nothing

\* Only one attempt was made, so no obligation's number was used again.
OneAttempt == attempt = 1

(* When the run made one attempt and no write of the file failed, a        *)
(* recorded verdict the report uses is the one the run gave this very      *)
(* obligation, whichever of its reads was the last to be judged            *)
(* (_recorded_rejudgment).                                                 *)
AgreesWithRun ==
    Reported /\ OneAttempt /\ faults = 0 =>
        \A p \in With("method", {"body_id"}) \cap With("from", {"recorded"}) :
            LET o == records[p[1]].obls[p[2]]
            IN  /\ Results[p].of = <<records[p[1]].attempt, p[2]>>
                /\ Results[p].closure =
                      IF o.resolution = "still_unresolved" THEN "requires_read_still_open"
                      ELSE ClosureOf(o.resolution)

(* A verdict is reported missing only if a write of the judge's cache      *)
(* failed, and never because of how the attempts interleave their numbers  *)
(* or of what a validation wrote (the final lifecycle pass,                *)
(* replay_validation.py:1699).                                             *)
MissingOnlyIfLost ==
    Reported /\ With("status", {"rejudgment_missing_invariant_violation"}) # {}
        => faults > 0

(* A verdict verified by body id was given on an uncontaminated text that  *)
(* a kept attempt registered, even when another attempt's obligation wrote *)
(* it (the strict gate, replay_validation.py:1842).                        *)
VerifiedTextIsClean ==
    Reported => \A p \in With("method", {"body_id"}) \cap With("from", {"recorded"}) :
                    /\ Results[p].text \notin Dirty
                    /\ \E r \in DOMAIN records :
                          \E b \in records[r].bodies : b.text = Results[p].text

(* The report of an offline validation satisfies the five consistency      *)
(* rules modelled, when the run made one attempt and the report uses no    *)
(* verdict that an earlier validation wrote.                               *)
ConsistentOffline ==
    /\ Reported /\ OneAttempt /\ ~ previous.tier.live
    /\ With("method", {"url_fallback"}) = {}
    => Consistent

(* A later validation of a one-attempt run gives every obligation that was *)
(* closed by a recorded verdict or by a call of the live judge the same    *)
(* closure, so long as the file could be written (_live_rejudge records    *)
(* its verdict "so the next replay is offline").                           *)
SecondPassAgrees ==
    [][Reported /\ previous' # previous /\ OneAttempt /\ faults = 0
          => \A p \in With("from", {"recorded", "live"}) :
                previous'.outcome[p].closure = Results[p].closure]_validationVars

(* Refuted: a verdict verified for an obligation was given for it          *)
(* ("Per-obligation strict-cache lookup", replay_validation.py:1805).      *)
VerdictIsOwn ==
    Reported => \A p \in With("from", {"recorded"}) :
                    Results[p].of = <<records[p[1]].attempt, p[2]>>

=============================================================================
