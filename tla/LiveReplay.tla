------------------------------ MODULE LiveReplay -----------------------------
(***************************************************************************)
(* The recording cache of the live runs, over a sequence of runs.          *)
(*                                                                         *)
(* Every provider and model call goes through one RecordingCache, keyed by *)
(* its request.  The cache is loaded from its file when a run starts and   *)
(* the whole file is rewritten, in place, after every call.  A run has a   *)
(* mode and is armed or not; between runs only the file survives, and a    *)
(* run may crash at any point.                                             *)
(*                                                                         *)
(* One item is asked for by one deterministic agent: what it asks next is  *)
(* a function of what it has seen, but any function.  `memo' is the part   *)
(* of that function the runs have used so far.                             *)
(*                                                                         *)
(* An operator named ...Mutant is a defective form of the definition that  *)
(* follows it; only the sensitivity runs of the README use it.             *)
(***************************************************************************)
EXTENDS Integers, Sequences

CONSTANTS
    Requests, KindOf, \* request hashes: a search tool's, a model helper's
                      \* (parser, proposer, interpreter, judge), the answerer's
    ToolOutcomes,     \* what a tool may return
    Faults,           \* which of "crash", "write" may happen
    MaxAsked,         \* bound on the requests of a run
    MaxRuns           \* bound on the runs

ASSUME ReplayAssumption ==
    /\ KindOf \in [Requests -> {"tool", "helper", "answer"}]
    /\ ToolOutcomes \subseteq {"text", "truncated", "error"}
    /\ "end" \notin Requests
    /\ MaxAsked \in Nat
    /\ MaxRuns \in Nat

Modes == {"off", "auto", "replay", "record"}

(* An entry holds the outcome it was stored with.                          *)
Outcomes == {"text", "truncated", "error"}
Entries == [Requests -> Outcomes \cup {"absent"}]
Empty == [r \in Requests |-> "absent"]

(* What the agent sees: a helper whose model is unavailable falls back to  *)
(* its deterministic answer.                                               *)
Views == Outcomes \cup {"fallback"}
Log == Seq(Requests \X Views)

VARIABLES
    entries,  \* RecordingCache.entries
    disk,     \* what the cache's file holds
    intact,   \* whether the file parses
    mode,     \* RecordingCache.mode
    armed,    \* CachedProvider.armed
    pc,       \* where the run is
    call,     \* the call being made and what it returned
    log,      \* what the agent has asked and seen in this run
    memo,     \* the agent: what it asks after a log
    clean,    \* history: the file can rebuild all this run has seen
    ref,      \* history: the run whose record the file is
    paid,     \* history: calls that runs in auto mode paid for
    lost,     \* history: responses that were paid for and not kept
    runs      \* runs started

cache == <<entries, disk, intact>>
vars == <<entries, disk, intact, mode, armed, pc, call, log, memo, clean, ref,
          paid, lost, runs>>

NoCall == [request |-> "end", outcome |-> "absent"]
NoRef == [valid |-> FALSE, clean |-> FALSE, log |-> << >>]

Init ==
    /\ entries = Empty
    /\ disk = Empty
    /\ intact = TRUE
    /\ mode = "off"
    /\ armed = FALSE
    /\ pc = "idle"
    /\ call = NoCall
    /\ log = << >>
    /\ memo = << >>
    /\ clean = TRUE
    /\ ref = NoRef
    /\ paid = [r \in Requests |-> 0]
    /\ lost = [r \in Requests |-> 0]
    /\ runs = 0

-----------------------------------------------------------------------------
(* The cache.                                                              *)

(* RecordingCache.__init__ and load: a file that does not parse raises.    *)
LoadedMutant == Empty
Loaded == disk

(* An answer from the cache, or from the response it was stored for.       *)
(* payload_to_response leaves fetch_meta out, and with it the truncation.  *)
Rebuilt(outcome) == IF outcome = "truncated" THEN "text" ELSE outcome
Served(r) == mode \in {"auto", "replay"} /\ entries[r] # "absent"

(* safe_search turns a tool's error into a failed response; a helper       *)
(* catches its model's error.  A refusal passes through safe_search.       *)
Seen(r, outcome) ==
    IF KindOf[r] = "helper" /\ outcome = "error" THEN "fallback" ELSE outcome

Possible(r) == IF KindOf[r] = "tool" THEN ToolOutcomes ELSE {"text", "error"}

(* A failed tool call is a response and stored; a model's error is raised  *)
(* before anything is counted or stored.                                   *)
RespondedMutant(r, outcome) == outcome # "error"
Responded(r, outcome) == outcome # "error" \/ KindOf[r] = "tool"

-----------------------------------------------------------------------------
(* The runs.                                                               *)

Start(m, a) ==
    /\ pc = "idle" /\ runs < MaxRuns /\ intact
    /\ entries' = Loaded
    /\ mode' = m
    /\ armed' = a
    /\ pc' = "ask"
    /\ log' = << >>
    /\ clean' = TRUE
    /\ runs' = runs + 1
    /\ UNCHANGED <<disk, intact, call, memo, ref, paid, lost>>

(* The agent decides to ask for r, or to end.                              *)
WithinBudget(r) == Len(log) < MaxAsked \/ r = "end"

Decide(r) ==
    /\ pc = "ask"
    /\ WithinBudget(r)
    /\ log \in DOMAIN memo => memo[log] = r
    /\ memo' = [h \in DOMAIN memo \cup {log} |-> IF h = log THEN r ELSE memo[h]]

(* The agent has its answer: it has seen v for r.                          *)
Sees(r, v) ==
    /\ log' = Append(log, <<r, v>>)
    /\ pc' = "ask"

(* CachedProvider.search and _cached_or_call: a hit.                       *)
Hit(r) ==
    /\ Decide(r) /\ Served(r)
    /\ Sees(r, Rebuilt(entries[r]))
    /\ UNCHANGED <<entries, disk, intact, mode, armed, call, clean, ref, paid, lost, runs>>

(* ReplayMiss or NotArmed: a helper falls back, the rest ends the run.     *)
Refuse(r) ==
    /\ Decide(r) /\ ~ Served(r)
    /\ mode = "replay" \/ ~ armed
    /\ IF KindOf[r] = "helper" THEN Sees(r, "fallback")
       ELSE pc' = "raised" /\ UNCHANGED log
    /\ UNCHANGED <<entries, disk, intact, mode, armed, call, clean, ref, paid, lost, runs>>

(* The call is made and the provider or the model answers.                 *)
Call(r, outcome) ==
    /\ Decide(r) /\ ~ Served(r)
    /\ mode # "replay" /\ armed
    /\ pc' = "answered"
    /\ call' = [request |-> r, outcome |-> outcome]
    /\ paid' = IF mode = "auto" /\ Responded(r, outcome)
               THEN [paid EXCEPT ![r] = @ + 1] ELSE paid
    /\ clean' = (clean /\ outcome # "truncated")
    /\ UNCHANGED <<entries, disk, intact, mode, armed, log, ref, lost, runs>>

(* A model's error: a helper falls back, the answerer's ends the run.  In  *)
(* mode off nothing is stored.                                             *)
Unrecorded ==
    LET r == call.request IN
    /\ pc = "answered"
    /\ mode = "off" \/ ~ Responded(r, call.outcome)
    /\ IF KindOf[r] = "answer" /\ call.outcome = "error"
       THEN pc' = "raised" /\ UNCHANGED log
       ELSE Sees(r, Seen(r, call.outcome))
    /\ call' = NoCall
    /\ UNCHANGED <<entries, disk, intact, mode, armed, memo, clean, ref, paid, lost, runs>>

(* store: the entry is in memory, before save.                             *)
Stores ==
    /\ pc = "answered"
    /\ mode # "off" /\ Responded(call.request, call.outcome)
    /\ entries' = [entries EXCEPT ![call.request] = call.outcome]

(* save opens the file, which empties it.  A helper whose model failed     *)
(* before now has an entry the run has not always seen.                    *)
Store ==
    /\ Stores
    /\ disk' = Empty
    /\ intact' = FALSE
    /\ ref' = NoRef
    /\ clean' = (clean /\ \A i \in DOMAIN log : log[i] # <<call.request, "fallback">>)
    /\ pc' = "writing"
    /\ UNCHANGED <<mode, armed, call, log, memo, paid, lost, runs>>

Save ==
    /\ pc = "writing"
    /\ disk' = entries
    /\ intact' = TRUE
    /\ Sees(call.request, call.outcome)
    /\ call' = NoCall
    /\ UNCHANGED <<entries, mode, armed, memo, clean, ref, paid, lost, runs>>

(* The file cannot be opened, or the write raises.  For a tool the         *)
(* invoker's safe_search makes it a failed response, a helper falls back,  *)
(* the answerer's run ends.                                                *)
SaveFails ==
    LET r == call.request IN
    /\ "write" \in Faults
    /\ Stores \/ (pc = "writing" /\ UNCHANGED entries)
    /\ IF KindOf[r] = "answer" THEN pc' = "raised" /\ UNCHANGED log
       ELSE Sees(r, Seen(r, "error"))
    /\ call' = NoCall
    /\ clean' = FALSE
    /\ UNCHANGED <<disk, intact, mode, armed, memo, ref, paid, lost, runs>>

(* What a run that ends now leaves unkept.                                 *)
Unkept(r) ==
    \/ entries[r] # "absent" /\ disk[r] = "absent"
    \/ pc = "answered" /\ call.request = r

Lost == [r \in Requests |-> IF Unkept(r) THEN lost[r] + 1 ELSE lost[r]]

(* A completed auto run is the record of the file it leaves.               *)
Finish ==
    /\ Decide("end")
    /\ pc' = "idle"
    /\ ref' = IF mode = "auto" /\ intact /\ entries = disk
              THEN [valid |-> TRUE, clean |-> clean, log |-> log] ELSE ref
    /\ lost' = Lost
    /\ UNCHANGED <<cache, mode, armed, call, log, clean, paid, runs>>

Abort ==
    /\ pc = "raised"
    /\ pc' = "idle"
    /\ lost' = Lost
    /\ UNCHANGED <<cache, mode, armed, call, log, memo, clean, ref, paid, runs>>

Crash ==
    /\ pc \notin {"idle", "raised"} /\ "crash" \in Faults
    /\ pc' = "idle"
    /\ call' = NoCall
    /\ lost' = Lost
    /\ UNCHANGED <<cache, mode, armed, log, memo, clean, ref, paid, runs>>

(* Load raises on a torn file until somebody removes it.                   *)
Discard ==
    /\ pc = "idle" /\ ~ intact
    /\ intact' = TRUE
    /\ UNCHANGED <<entries, disk, mode, armed, pc, call, log, memo, clean, ref,
                   paid, lost, runs>>

Terminated == pc = "idle" /\ runs = MaxRuns /\ intact /\ UNCHANGED vars

Next ==
    \/ \E m \in Modes, a \in BOOLEAN : Start(m, a)
    \/ \E r \in Requests : Hit(r) \/ Refuse(r) \/ (\E o \in Possible(r) : Call(r, o))
    \/ Unrecorded \/ Store \/ Save \/ SaveFails
    \/ Finish \/ Abort \/ Crash \/ Discard \/ Terminated

Spec == Init /\ [][Next]_vars

-----------------------------------------------------------------------------
(* The state of the cache and of its runs is what the code can hold.       *)
TypeOK ==
    /\ entries \in Entries /\ disk \in Entries /\ intact \in BOOLEAN
    /\ mode \in Modes /\ armed \in BOOLEAN /\ clean \in BOOLEAN
    /\ pc \in {"idle", "ask", "answered", "writing", "raised"}
    /\ pc \in {"answered", "writing"}
           => call \in [request : Requests, outcome : Outcomes]
    /\ log \in Log /\ Len(log) <= MaxAsked
    /\ ref.log \in Log
    /\ paid \in [Requests -> Nat] /\ lost \in [Requests -> Nat]
    /\ runs \in 0 .. MaxRuns

(* Over any sequence of runs, auto mode pays for a request once, and once  *)
(* more for each time a crash or a failed write lost its response.         *)
PaidOnce ==
    \A r \in Requests : paid[r] <= 1 + lost[r] /\ (lost[r] > 0 => Faults # {})

IsPrefixOf(s, t) == Len(s) <= Len(t) /\ s = SubSeq(t, 1, Len(s))

(* A run that replays the file of a completed auto run repeats that run,   *)
(* failures included, and never misses, unless a page was cut, a write     *)
(* failed, or a model failed and later answered the same prompt.           *)
ReplayExact ==
    mode = "replay" /\ pc # "idle" /\ ref.valid /\ ref.clean
        => IsPrefixOf(log, ref.log) /\ pc # "raised"

=============================================================================
