----------------------------- MODULE JudgmentLog -----------------------------
(***************************************************************************)
(* What a live run leaves behind for its re-judgments: each attempt's      *)
(* obligations and read bodies (agent/candidate_frontier.py) and the       *)
(* strict verdicts, kept in the judge's cache (agent/llm_task_frame.py,    *)
(* ParserCache), which every attempt of the run shares.                    *)
(*                                                                         *)
(* PendingService models which obligation is read when.  Here a read of    *)
(* any page may arrive, and what matters is what is written down.  A       *)
(* verdict's file entry is keyed by the obligation's number, and each      *)
(* attempt numbers its own obligations from one.  Obligations are matched  *)
(* by host, one tool reads and no body is blank.                           *)
(***************************************************************************)
EXTENDS Integers, Sequences, FiniteSets

CONSTANTS
    Urls,          \* the pages obligations are pinned to
    HostOf,        \* url -> host
    Cons,          \* constraint and slot ids: every frame numbers its own
    Texts,         \* what a read of a page may return
    Length,        \* text -> its length
    Thin,          \* texts whose passages name only the subject
    Dirty,         \* texts flagged as benchmark contamination
    Verdicts,      \* what the judge may answer
    MaxAttempts, MaxObligations, MaxReads, MaxFaults,
    Nothing

\* What the strict store keeps of a verdict (see Entry and WriteBack).
Judgments ==
    [kind : {"live", "validator"}, verdict : Verdicts \cup {"requires_read"},
     con : Cons, body : [text : Texts, url : Urls], of : Nat \X Nat]

ASSUME LogAssumption ==
    /\ HostOf \in [Urls -> Urls] /\ Length \in [Texts -> Nat \ {0}]
    /\ Thin \subseteq Texts /\ Dirty \subseteq Texts
    /\ Nothing \notin Urls \cup Texts \cup Verdicts \cup {"requires_read"} \cup Judgments
    /\ {MaxAttempts, MaxObligations, MaxReads, MaxFaults} \subseteq Nat

VARIABLES
    phase,      \* "run", then "idle" and "validate" (ReplayValidation)
    attempt,    \* the number of the current attempt
    obls,       \* its pending_read_judgments, in the order of their numbers
    bodies,     \* its read_bodies
    reads,      \* the reads it made
    memory,     \* the strict entries of the judge's cache, by number
    file,       \* llm_evidence_judge_cache.json
    cached,     \* the recording cache's longest body of a page
    records,    \* debug_questions.jsonl
    faults      \* the writes of the file that failed

logVars == <<attempt, obls, bodies, reads, memory, cached, records>>

Numbers == 1..MaxObligations
NoEntries == [n \in Numbers |-> Nothing]

LogInit ==
    /\ phase = "run" /\ attempt = 1 /\ reads = 0 /\ faults = 0
    /\ obls = <<>> /\ bodies = {} /\ records = <<>>
    /\ memory = NoEntries /\ file = [state |-> "absent", entries |-> NoEntries]
    /\ cached = [u \in Urls |-> Nothing]

-----------------------------------------------------------------------------
(* Obligations.                                                            *)

\* _register_pending_read_judgment, for a source that may be read.
Register(u, con) ==
    /\ phase = "run" /\ Len(obls) < MaxObligations
    /\ ~ \E i \in DOMAIN obls : /\ obls[i].url = u /\ obls[i].con = con
                                 /\ obls[i].resolution = "open"
    /\ obls' = Append(obls, [con |-> con, url |-> u, resolution |-> "open",
                             status |-> "", attempted |-> FALSE, gap |-> "",
                             body |-> Nothing, reread |-> "no"])
    /\ UNCHANGED <<phase, attempt, bodies, reads, memory, file, cached, records,
                   faults>>

\* A truncated body without a predicate passage may be read once more.
ScheduleReread(i) ==
    /\ phase = "run" /\ i \in DOMAIN obls
    /\ obls[i].resolution = "still_unresolved" /\ obls[i].reread = "no"
    /\ obls[i].body # Nothing /\ obls[i].body.text \in Thin
    /\ obls' = [obls EXCEPT ![i].reread = "due"]
    /\ UNCHANGED <<phase, attempt, bodies, reads, memory, file, cached, records,
                   faults>>

\* _open_pending_for
OpenFor(u) ==
    {i \in DOMAIN obls :
        /\ obls[i].resolution = "open" \/ obls[i].reread = "due"
        /\ HostOf[obls[i].url] = HostOf[u]}

-----------------------------------------------------------------------------
(* Verdicts.                                                               *)

ClosureOf(verdict) ==
    IF verdict = "full_support" THEN "resolved_full_support"
    ELSE IF verdict = "contradiction" THEN "resolved_contradiction"
    ELSE IF verdict = "partial_support" THEN "resolved_partial_support"
    ELSE IF verdict = "irrelevant" THEN "resolved_irrelevant"
    ELSE "requires_read_still_open"

Resolving == {"resolved_full_support", "resolved_contradiction"}
SourceTerminal == {"resolved_irrelevant", "resolved_partial_support"}

OutcomeOf(closure) ==
    IF closure \in Resolving THEN "constraint_resolving"
    ELSE IF closure \in SourceTerminal THEN "source_terminal_non_support"
    ELSE "requires_read_still_open"

GapOf(closure, gap) ==
    IF closure = "resolved_partial_support" THEN "partial_only"
    ELSE IF closure = "resolved_irrelevant" THEN "source_irrelevant"
    ELSE IF closure \in Resolving THEN gap
    ELSE "requires_more_evidence"

\* An answer outside the vocabulary is taken for requires_read.
VerdictOf(answer) == IF answer = "invalid" THEN "requires_read" ELSE answer

StatusOf(answer) ==
    IF answer = "error" THEN "rejudgment_attempted_model_error"
    ELSE IF answer = "invalid"
         THEN "rejudgment_attempted_invalid_response_recorded_fail_closed"
    ELSE "rejudgment_attempted_recorded"

\* The re-judgment of one routed obligation on a passage of the body.
RejudgedMutant(o, body, answer) ==
    LET closure == ClosureOf(VerdictOf(answer))
    IN  [o EXCEPT !.body = body, !.attempted = answer # "error",
                  !.status = StatusOf(answer),
                  !.reread = IF @ = "due" THEN "done" ELSE @,
                  !.gap = GapOf(closure, @),
                  !.resolution = IF closure = "requires_read_still_open"
                                 THEN "still_unresolved" ELSE VerdictOf(answer)]
Rejudged(o, body, answer) ==
    LET closure == ClosureOf(VerdictOf(answer))
    IN  [o EXCEPT !.body = body, !.attempted = TRUE,
                  !.status = StatusOf(answer),
                  !.reread = IF @ = "due" THEN "done" ELSE @,
                  !.gap = GapOf(closure, @),
                  !.resolution = IF closure = "requires_read_still_open"
                                 THEN "still_unresolved" ELSE VerdictOf(answer)]

\* _persist_strict_rejudgment: an entry names the body that was judged.  `of'
\* is a history variable: the attempt and obligation it was judged for.
EntryMutant(i, body, answer) ==
    IF memory[i] # Nothing THEN memory[i]
    ELSE [kind |-> "live", verdict |-> VerdictOf(answer), con |-> obls[i].con,
          body |-> body, of |-> <<attempt, i>>]
Entry(i, body, answer) ==
    [kind |-> "live", verdict |-> VerdictOf(answer), con |-> obls[i].con,
     body |-> body, of |-> <<attempt, i>>]

\* ParserCache.put dumps the whole store each time.  Of the writes of one
\* read, the last to reach the file may be any of them or none, and a write
\* that fails halfway leaves a file that does not parse.  No failure is seen.
Written(written, upTo, entries) ==
    [state |-> "ok",
     entries |-> [n \in Numbers |-> IF n \in written /\ n <= upTo THEN entries[n]
                                    ELSE memory[n]]]

Torn == [state |-> "torn", entries |-> NoEntries]

Dump(written, entries) ==
    IF written = {} THEN UNCHANGED <<file, faults>>
    ELSE \/ /\ file' = Written(written, MaxObligations, entries)
            /\ UNCHANGED faults
         \/ /\ faults < MaxFaults
            /\ faults' = faults + 1
            /\ \/ file' \in {file, Torn}
               \/ \E upTo \in written :
                     /\ \E n \in written : upTo < n
                     /\ file' = Written(written, upTo, entries)

-----------------------------------------------------------------------------
(* The live run.                                                           *)

Longer(u, t) ==
    IF cached[u] # Nothing /\ Length[t] <= Length[cached[u]] THEN cached[u] ELSE t

\* _register_read_body: one record per text and url, and none for a read that
\* answers no obligation.
Registered(routed, body) == IF routed = {} THEN bodies ELSE bodies \cup {body}

\* route_read_into_pending_judgments, for a read of u that returned t.
Route(u, t) ==
    /\ phase = "run" /\ reads < MaxReads
    /\ reads' = reads + 1
    /\ cached' = [cached EXCEPT ![u] = Longer(u, t)]
    /\ LET routed == OpenFor(u)
           body == [text |-> t, url |-> u]
       IN  /\ bodies' = Registered(routed, body)
           /\ \E answer \in [routed -> Verdicts \cup {"invalid", "error"}] :
                 LET written == {i \in routed : answer[i] # "error"}
                     entries == [n \in Numbers |->
                                    IF n \in written
                                    THEN Entry(n, body, answer[n]) ELSE memory[n]]
                 IN  /\ obls' = [i \in DOMAIN obls |->
                                    IF i \in routed
                                    THEN Rejudged(obls[i], body, answer[i])
                                    ELSE obls[i]]
                     /\ memory' = entries
                     /\ Dump(written, entries)
    /\ UNCHANGED <<phase, attempt, records>>

\* The attempt ends and the next one starts a new frontier, or the run ends.
\* Experience attempts come first and leave no debug record.
EndAttempt(kept, last) ==
    /\ phase = "run"
    /\ records # <<>> => kept
    /\ last => kept
    /\ attempt = MaxAttempts => last
    /\ records' = IF kept THEN Append(records, [attempt |-> attempt, obls |-> obls,
                                                bodies |-> bodies])
                  ELSE records
    /\ obls' = <<>> /\ bodies' = {} /\ reads' = 0
    /\ attempt' = IF last THEN attempt ELSE attempt + 1
    /\ phase' = IF last THEN "idle" ELSE "run"
    /\ UNCHANGED <<memory, file, cached, faults>>

LiveStep ==
    \/ \E u \in Urls, con \in Cons : Register(u, con)
    \/ \E i \in Numbers : ScheduleReread(i)
    \/ \E u \in Urls, t \in Texts : Route(u, t)
    \/ \E kept, last \in BOOLEAN : EndAttempt(kept, last)
=============================================================================
