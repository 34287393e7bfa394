# regimes-probe: a verification development

`regimes-probe` runs a budgeted search agent over question items, learns a policy from the
attempts, and gates policy updates on a held-out split. This directory holds TLA+ modules
that model its control logic, TLC configurations that check them on small instances, and
TLAPS proofs of what matters for every instance. Paths below are relative to the package
`src/regimes_probe/` of the repository.

Contents: [the system](#the-system) · [plan](#plan) · the modules:
[PendingService](#pendingservice), [LiveReplay](#livereplay), [SearchLoop](#searchloop),
[the task frame](#the-task-frame), [ClueLoop](#clueloop),
[Attempt](#attempt-parsing-and-reading), [LivePipeline](#livepipeline),
[RegimesLoop](#regimesloop), [ReplayValidation](#replayvalidation) · [runs](#runs) ·
[where the code and its documents disagree](#where-the-code-and-its-documents-disagree) ·
[proofs](#proofs) · [bounds and fairness](#bounds-and-fairness) ·
[what is not modelled](#what-is-not-modelled)

## The system

One process, one thread. An *item* (a question) is answered by one run of
`agent/search_loop.py:SearchLoop.run`, a loop that makes at most `config.budget` tool calls.

| component | state it keeps | hard behaviour | what makes it correct | modules |
|---|---|---|---|---|
| pending-read service (`agent/candidate_frontier.py` 1489-2540, `agent/read_judgment.py`) | obligations, one record per URL, queue of re-read plans, counters | obligations share URLs and hosts; reads by others; outcomes that arrive on a record already closed; the budget ends anywhere | each URL is served at most once per tool, no clean obligation ends unserved with budget left, verdicts and statuses are final | `PendingService`, `ServicePromise` |
| search loop (`agent/search_loop.py`) | `calls`, `observations`, `pending_read`, `scraped_urls`, `no_progress_domains` | a retry scheduled at the end of one step is used (or lost) at the start of the next | no page is read twice, a failed read is retried, an early stop is earned | `SearchLoop`, `PendingService`, `ClueLoop`, `TaskLoop` |
| reading policy (`agent/reading_policy.py`) | none | stale sets of read pages and barred hosts | refused pages are never read | `SearchLoop`, `PendingService` |
| candidate frontier (`agent/candidate_frontier.py`) | slates, candidates, hypotheses, support per constraint | an answer confirmed on evidence that is later contradicted | an answer is fresh, support comes from a page that gives it | `CandidateFrontier` |
| task frame, hypothesis table, action planner (`agent/task_frame.py`, `hypothesis_table.py`, `action_planner.py`) | constraint statuses, hypotheses with support and no-progress counts | two stores share one constraint's status | a rejected candidate earned it, a resolved constraint has evidence | `TaskFrame`, `HypothesisTable` |
| frontier proposer (`agent/llm_frontier.py`) | stale queries, counters | a model may propose anything, in any step | a query that led nowhere is not proposed again in other words | `FrontierProposer` |
| task-frame parser (`agent/llm_task_frame.py`, `prompts.py`) | cache and its file | a reply that is half right; a torn cache; a run resumed | every frame is well formed, a replay has the run's frames | `FrameParser` |
| evidence interpreter and judge (`agent/evidence_interpreter.py`, `evidence_judge.py`) | caches, counters | a model's word against hard rules; a cap reached in the middle | support is grounded in the text, a replay reads the same | `EvidenceReading` |
| query policy, clue beam (`policy/query_policy.py`, `agent/epistemic_mode.py`, `clue_resolution.py`) | pool, sticky penalties, used clues, sent queries | a failed hypothesis re-enters the beam | a candidate fails for its own calls only; the loop moves on | `QuestionShape`, `ClueLoop` |
| answerer (`agent/answerer.py`) | none | ties | the vote is deterministic | - |
| verification and stopping (`policy/verification_policy.py`, `policy/stopping_policy.py`) | none | threshold boundaries | the guardrails hold | `SearchLoop` |
| policy memory, bandit (`policy/memory.py`, `policy/contextual_bandit.py`) | traces, arm statistics, fragments, `frozen` | one memory is used by the experience and the CONFIRM phase | a frozen memory never changes; a snapshot restores what was saved | `LivePipeline` |
| regimes loop (`regimes/`) | bundle, update, gate results | repairs of two regimes that pull in opposite directions | the strongest regime acts, parameters keep their bounds, nothing is promoted for nothing | `RegimesLoop` |
| recording cache (`live/cache.py`, `live/providers.py`) | entries, file, counters | crash between a call and its save; a miss in replay | replay never calls a provider; a request is paid once | `LiveReplay` |
| runner, fork, harness (`live/runner.py`, `live/fork.py`, `eval/`) | phase results, verdict | a fork or a resumed run over another split | measured items were held out; the plan bounds the run; a headline is earned | `LivePipeline`, `LiveReplay` |
| replay validation (`eval/replay_validation.py`) | outcomes per obligation, counts | attempts that number obligations alike; a lost write | the report says what the run decided | `JudgmentLog`, `ReplayValidation` |
| event log (`activegraph_pack/`) | events, objects, relations | contents against identities | replay reproduces the projection | `LiveReplay` (its invoker) |
| adapters, datasets, scripts | none | pure I/O | - | - |

How they interact: the loop calls the frontier (`propose_pending_service_read`, then
`propose_step_action`), then the planner, then a provider through an *invoker*
(`activegraph_pack/tools.py`), which in a live run is a recording cache around the network.
The result goes to the answerer, the verifier, the stopping policy, the hypothesis table and
back to the frontier, which asks the evidence judge and may register, serve or settle
obligations. After the item the reward updates policy memory (experience phase only), the
regimes loop compares two bundles by the outcomes, and the validator reads what the run left
on disk. There is no concurrency: what is hard is the *sequencing* - state written in one
step and used in a later one, retries, stale identities (host for URL, page for URL, id for
content, number for obligation), budgets, and what survives on disk.

`PROJECT.json` lists each hazard at its line, with the properties that would catch it.

## Plan

| step | modules | state |
|---|---|---|
| 1 | `PendingService`, with the abstract `ServicePromise` and the refinement | done, proved |
| 2 | `LiveReplay`, `SearchLoop` | done, proved |
| 3 | `LivePipeline`, `RegimesLoop`: the phases around the loop | done, proved |
| 4 | `TaskFrame`, `HypothesisTable`, `CandidateFrontier`, `FrontierProposer`, composed by `TaskLoop` | done, proved |
| 5 | `JudgmentLog`, `ReplayValidation` | done, proved |
| 6 | `QuestionShape`, `ClueLoop`, `FrameParser`, `EvidenceReading`, composed by `Attempt` | done, proved |
| 7 | the search loop as one module: `SearchLoop`, `PendingService` and `TaskLoop` see it from three sides, and the state they share (`pending_read`, `scraped_urls`) is modelled in each | open |
| 8 | event log and projection; the answerer's vote | open |

`FrameParser`, `EvidenceReading` and `ClueLoop` share the questions of `QuestionShape`.
`Attempt` composes them. `TaskFrame`, `HypothesisTable`, `CandidateFrontier` and
`FrontierProposer` are a chain of EXTENDS, each a pure description of one store or policy
(tables and frontiers are records, operations are operators), and `TaskLoop` holds the state.
`ReplayValidation` extends `JudgmentLog`, as a validation follows the run that wrote the log.
`Lists` has the few operators on ordered lists that the agent's modules share (the code's
`sorted`, list comprehensions and "first that"), and `ListFacts` what is true of them.

Operators named `...Mutant` are sensitivity forms: each is a plausible defect of the
definition next to it (a dropped guard, a missing update), used to confirm that the property
listed beside it in `PROJECT.json` fails when the code is wrong. No specification uses them.

## PendingService

`PendingService.tla` is the loop with the frontier controller on
(`enable_frontier_controller` in task-frame mode) and the pending-read service of the
frontier. One item, one behaviour. Its constants are the clean URLs with their hosts and
normalized pages, the triples the judge may ask about, the tools present and the budget.

A step of the loop is four kinds of TLA+ steps, in the code's order:

| `pc` | code | actions |
|---|---|---|
| `propose` | top of the `while`, `search_loop.py` 486-670 | `ServiceFallback`, `ServiceFresh`, `ServiceReread` (`propose_pending_service_read`, parts a, b, c), else `FrontierRead`, `PlannerRead`, `Search`, `Stop` |
| `call` | `invoker.call` and the read-outcome block, 758-908 | `ExecuteService`, `ExecuteReread`, `ExecuteRead`, `ExecuteSearch` |
| `ingest` | `frontier.ingest_evidence`, 936-1000 | `Register` (any number of judgments), `Route` |
| `close` | re-read scheduling and `calls.append` | `CloseStep` |
| `finalize` | `finalize_pending_service` | `Finalize` |

State: `obl` is `pending_read_judgments` in creation order, `svc` is
`pending_service_urls`, `step` the `StepPlan` in execution, `scraped`, `noProgress` and
`calls` are the loop's variables of (nearly) the same names, and `tally` the three
re-read counters. The queue of re-read plans is the field `due` of each obligation (the
step at which the plan was queued). `got` and `evUrl` hold what the last call returned
until the step ends. Three variables are history for the properties: `asked`, `served`,
`rereads`.

Abstracted: the judge answers anything (`Verdicts`), the reading policy refuses by host
class, page and progress (`Readable`) and not by its quality signals, the frontier's
ranking is nondeterministic, and a tool returns one of four outcomes - an error, nothing,
a title without a text, or a text. Whether a text was truncated is chosen when the step
closes.

`ServicePromise.tla` says what the service owes the judge, without its queue, records, hosts
or budget: a page is opened only when somebody waits for it (`Ask`, `Read`), returned to only
with another tool, an ask that is settled (`Settle`) stays settled, and the item is closed
once (`Close`), with an ending for every ask that agrees with the reads that were made. The
refinement mapping (`Asks`, `Used` and `Promise` in `PendingService`) reads the asks off
`obl` and the tools used off the URL records and the step in flight; `Promised` is checked by
TLC and proved.

## LiveReplay

`LiveReplay.tla` is the recording cache of the live runs, over a sequence of runs of one
item. A run starts by loading the cache's file (`Start`, `RecordingCache.__init__`), in one
of the four modes and armed or not, and then asks for one request after another:

| `pc` | code | actions |
|---|---|---|
| `idle` | between runs: only the file survives | `Start`, `Discard` |
| `ask` | `CachedProvider.search`, `_cached_or_call`, the model functions | `Hit`, `Refuse` (a replay miss or a provider that is not armed), `Call`, `Finish` |
| `answered` | after the provider or the model, before anything is kept | `Unrecorded`, `Store` (the entry in memory, the file emptied), `SaveFails` |
| `writing` | inside `write_text` | `Save`, `SaveFails` |
| `raised` | an exception that leaves the loop | `Abort` |

`Crash` is possible in every state of a run. A request is a tool's, a model helper's (task
frame parser, frontier proposer, evidence interpreter, judge) or the answerer's, because the
three treat a failure differently: a tool's becomes a failed response and is stored, a
helper catches it and falls back, the answerer's ends the run. A refusal passes through
`safe_search` and ends the run, except a helper's.

The agent is any deterministic function of what it has seen. It is not fixed in advance:
`memo` records what the runs have used of it so far, and `Decide` extends it freely, so
every function is covered and a later run of the same agent repeats its choices. The cut of
a page (`fetch_meta`) is the outcome `"truncated"`, which `Rebuilt` loses like
`payload_to_response`. `clean`, `ref`, `paid` and `lost` are history: the run the file is the
record of, whether the file can rebuild what that run saw, the calls paid for in auto mode,
and the responses that a crash or a failed write lost.

Not modelled: a cache without a file (it is one run), a tool that lacks its key or is
disabled (refused before a run starts, or the same in every run), the helpers' own caches
(a deterministic helper that does not ask twice), and two processes on one file.

## SearchLoop

`SearchLoop.tla` is the same loop with the task frame off: one item, with the reading
policy, the verification score and the stopping policy it calls. The reading tools present,
the iterative mode and the mode of the stopping policy are chosen in `Init`, as a
configuration chooses them.

| `pc` | code | actions |
|---|---|---|
| `choose` | top of the `while`, `search_loop.py` 503-530 and 677-740 | `Read` (admitted by `select_reading_tool`), `LegacyRead` (no scrape tool and not iterative: no gate), `Search` (nothing pending, or the pending page is refused and dropped) |
| `call` | 760-904, and 1064-1074 for the end of the step | `SearchReturns`, `LegacyReturns`, `ReadReturns`, each of which ends with `Ends` (stop decision, next pending page) |
| `done` | after the loop | - |

`pending`, `forced`, `fallback`, `scraped`, `barred`, `cross` are `pending_read`,
`force_page_fetch`, `read_fallback_pending`, `scraped_urls`, `no_progress_domains` and the
hosts of `domain_providers` with two tools; `best` is `prev_vscore`. `due` (the retry the
last step scheduled and no stop decision replaced) and `texts` are history.

Abstracted: a URL has fixed attributes (`Fetchable`, `Signal`, `Structured`, `Short`,
`Refused`), so that two results for one URL do not differ in title or snippet; the evidence
is the flags of `VerificationState`, which only rise because observations are kept, and a
candidate is found exactly when a source supports one (the deterministic answerer); the
bandit may prefer any arm, and the arms `corroborate` and `contradiction_check` act as
`search_more`, as in the code; `_best_read_target` returns any unread page, not the most
authoritative. The score is exact, in twentieths. `min_calls_before_stop` and the options
`allow_social_scrape` and `scrape_fallback_to_page_fetch` have their defaults. In the mode
`always_full` no page is ever fetched under these assumptions: the arm asks for a candidate
without support.

## The task frame

One attempt in task-frame mode, without a judge (so without obligations: `PendingService`
has those).

* `TaskFrame.tla`: the slots, the constraints with what the planner may do with each
  (`agent/task_frame.py`, `agent/affordances.py`), and the pages a search tool knows. A page
  is read as a snippet or as a body; either is a *content*, the facts the lexical rules take
  from the text (entities named, constraint terms, anchors, corroboration, opposition).
* `HypothesisTable.tla`: `Ingest`, `RejectContradicted`, `NoteNoProgress`, `Gate`
  (`evaluate_answer_support`), `WorthReading`, `NextQuery` of `hypothesis_table.py` and
  `action_planner.py`, as operators on a table.
* `CandidateFrontier.tla`: `FoldIn` (`ingest_evidence` with the deterministic interpreter),
  `Recomputed`, `AdvanceHypotheses`, `NoteIdle`, `Actions` (`generate_frontier_actions` and its
  scores), `Selected`, `Answerable`, as operators on a frontier.
* `FrontierProposer.tla`: when the model is asked (`Poor`), every gate a proposal passes
  (`Accepted`, and `Relaxable`), which one is chosen (`Chosen`), and whether the step keeps
  its meaning (`Faithful`).
* `TaskLoop.tla`: the state. `table` and `frontier` are the two stores, which share the
  constraints' `status` as the code shares the objects; `given` is the statuses the frame was
  parsed with, which a model's reply may set (`llm_task_frame.py:590`) and the deterministic
  parser leaves unresolved; `calls` is the log; `stale` holds the queries that led nowhere.

`Step` is one iteration of the `while` of `SearchLoop.run` (503-1060 in task-frame mode):

| driver | code | actions |
|---|---|---|
| `planner` | `ActionPlanner.plan`, the frontier only watches | `ByPlanner`: `PlannerRead`, `PlannerAnswer`, `PlannerSearch`, `PlannerAbstain` |
| `controller` | `propose_step_action`; a step it cannot execute goes to the planner | `ByController`: `ControllerSearch`, `ControllerRead`, `ControllerAnswer` |
| `llm` | the proposer always, and the controller when no proposal stands | `ByProposal`: `ProposedSearch`, `ProposedRead`, `ProposedAnswer`, `ProposedAbstain` |
| `repair` | the proposer when the controller's plan looks poor | the same |

`BudgetSpent` ends the attempt without an answer, `Over` is the stutter of a finished one.
Deadlock is checked: `docs/QUERY_POLICY.md` says "the controller can never get stuck".

Abstracted: one target slot, one tool that searches, `page_fetch` as the only reader, no
dictionary pages; a failed search finds nothing, like an empty one; `required` constraints
are among the ones that can block; candidates are ordered by creation, as their ids are; a
query is a set of content words, in which a constraint's phrase is one word and an entity's
name another; a proposal's stated confidence, its risk flags and noise terms are left out. The
proposer's reply cache is left out because it is keyed by a card that holds the remaining
budget, so no step of an attempt finds the reply of another. Scores are exact integers.

## ClueLoop

`QuestionShape.tla` holds what the agent reads off a question before its first call: the mode
(`Mode`, `agent/epistemic_mode.py`), what that mode enables (`Enabled`), the decomposition
with its fallbacks (`Decomposed`) and the query arms it offers (`QueryArms`).

`ClueLoop.tla` is the loop outside task-frame mode where it chooses what to ask: `Read` (a
page is pending), `FollowUp` (the beam's best candidate with one more clue,
`compose_followup_from_hypothesis`), `BaseQuery` (a query of the question itself), and
`Returns` (`record_progress`, `build_hypotheses`, `observe`, and the end of the step). `pool`,
`beam`, `score`, `bias`, `streak`, `failed`, `progress`, `used` and `asked` are the state of
the loop and of `HypothesisBeam`; `run`, `worn` and `repeats` are history. A candidate
the results stop naming stays in the pool with its last score and keeps its bias, one they
name again loses it, and no later progress clears a failure, as in the code.

Abstracted: which pages are read and when the loop stops (`SearchLoop` has both); what the
results say for a candidate is any of `Merits`; the evidence can improve `MaxLevel` times; how
text is classified is given by constants. Counters for reports are left out.

## Attempt: parsing and reading

`FrameParser.tla` (`agent/llm_task_frame.py`, `task_frame.py`): a run parses a schedule of
questions. `Hit` and `Miss` are the cache's answer, `ModelReplies` and `ModelFails` the
model's; a reply is used when it validates (`Valid`), is rebuilt with numbered slots, checked
edges and constraints (`Built`; `CanBlock` is the affordance the answer gate asks for, derived
or listed by the reply) and scores well enough (`Quality`), and otherwise the
deterministic frame is (`Fallback`). A write of the cache may tear the file (`Torn`); `Resume`
is a new process on that file, and `Replay` a process without a model. Names are kinds of
text, and an element of the wrong JSON type is an incomplete one; warnings and advisory
fields are left out.

`EvidenceReading.tla` (`agent/evidence_interpreter.py`, `evidence_judge.py`): one page and one
entity it names. `Classify` gives the page's role (by rule, by the model when the rule is
unsure, or as kept) and takes the entity through the gates; then, slot by slot and constraint
by constraint, `Judge` (the model, its kept reply, or the fallback when it fails) or
`Recognize` (no judge, the cap reached, or the judge told to stop), each under its own rules
(`HardRules`, `Fallen`); `Close` binds the slot. `ReplayReading` reads the same again without
a model. A quote is the name, an alias, something else or missing; "dated" stands for term
overlap, and the noise text for all of page hygiene. `judge_batch`, which nothing but tests
enables, is left out.

`Attempt.tla` runs them in sequence: the mode of the question decides between `ClueLoop` and a
parse followed by readings with the parsed frame. Once an attempt reads, the rest of the run's
parsing is forgotten; what the reading's candidates then do is `TaskLoop`.

## LivePipeline

`LivePipeline.tla` is a sequence of runs of the evaluation: an offline benchmark
(`eval/harness.py`), a live run and a live run resumed from a snapshot (`live/runner.py`), and
the offline fork of a finished live run (`live/fork.py`). A run splits its items (by hash or
by release time, `eval/split.py`), learns on OPTIMIZE, consolidates, freezes, and measures
every condition on CONFIRM at every budget.

| action | code |
|---|---|
| `Start`, `Fork` (`ForkJob`) | the split and the stages to come; `fork_offline` with the settings it takes from its parent |
| `Experience`, `Freeze` | `experience_phase`, `consolidate`, `snapshot` |
| `Measure` | `run_condition` for one condition at one budget, with the memory it may access (`from_snapshot`, a random one, none) |
| `Attempt` | one item: what it costs, which arm it credits, whether memory learns (`observe` raises on a frozen memory: `pc = "raised"`) |
| `Audit` | the choice of the log that the replay check reads |
| `Verdict` | `compute_eligibility` and the run directory that a fork may use; `Preflight` is what `build_plan` foretold of it |

A memory (`mem`, `snap`) is its traces, the set of attempts each arm's statistics summarise,
per cluster and overall, and its fragments (`FragmentsOf`). `tally` is what the conditions cost, `Planned` what
`estimate_live` and `estimate_calls` promised. Abstracted: what an attempt does inside
(`SearchLoop`), the bandit's arithmetic, the details of the leakage scan, and the agent's warm
state between attempts. A benchmark whose condition learns during CONFIRM is a job that is
`online`; the flag `confirm_updates_memory` of the configuration is left out.

## RegimesLoop

`RegimesLoop.tla` is one run of `run_regimes_loop` (`regimes/runner.py`): `Baseline` (evaluate the bundle), `Propose`
(label the failures and rank the labels, `regimes/detectors.py`; `propose_update`),
`Candidate` (evaluate the updated bundle), `Gate` (`optimize_gate`, `confirm_gate`). A label
ranks by how many attempts show it, ties in order of appearance; an update has at most
`MaxMutations` mutations for at most `TopK` labels, one per parameter, clamped to the action
space. Parameters are in hundredths. An evaluation learns a memory of its own and measures
with exploration off, so it is any function of the bundle: the same bundle gives the same
results.

What the model makes plain: an accepted update may lower accuracy, because both gates compare
correct answers per tool call; the repair documented for `evidence_sparse` is dead
(`SparseRepairIsDead`, below); nothing in the repository applies an accepted bundle.

## ReplayValidation

`JudgmentLog.tla` is what a live run leaves for its re-judgments: `Register`,
`ScheduleReread`, `Route` (a read of any page arrives, is judged and written down) and
`EndAttempt` (a record is kept in the debug log or not). The strict verdicts live in the
judge's cache (`ParserCache`), which all attempts share and which is keyed by the obligation's
number; each attempt numbers from one.

`ReplayValidation.tla` is `eval/replay_validation.py` over that directory. `Begin` loads it,
with or without the live tier; then each obligation is examined in turn: `SkipRecord`,
`NotJudgeable` (no body, no passage), `UseRecorded` (a verdict whose constraint, slot and body
can be verified), `Unverified`, `Pending`, or `RejudgeLive` (a call of the judge up to the
cap, whose verdict is written back); `Report` makes the final lifecycle pass and the counts,
whose rules, five of some twenty, are `AttemptsReconcile`, `OutcomesPartition`, `DiagnosticsStayDiagnostic`,
`ClosureMatchesStage` and `UnverifiableHasClass`. `of` in an entry is history: the obligation
it was given for. The cache may have been pruned before validation (`providers`).

Abstracted: native records only; one reading tool; no blank bodies; bodies come from the
recording cache; URLs match exactly or by host; passage windows, truncation and the counts of
the service registry are left out.

## Runs

| run | question | instance | result |
|---|---|---|---|
| `PendingServiceSites` | Does the service keep its promise, is nothing left unserved, are statuses and verdicts final, does every item end? `TypeOK`, `NoUnservedObligation`, `TerminalStatusIsFinal`, `Promised`, `SettledIsFinal`, and `Termination` under `FairSpec` | both tools; two URLs of one page and one host, a third on a refused host; two obligations; four calls | holds, 271,466 states |
| `LiveReplayRuns` | What do crashes and failed writes cost, and does a replay repeat its run? `PaidOnce`, `ReplayExact` | a tool, a helper and the answerer, three runs of two requests, every outcome, crashes and failed writes | holds, 3,562,861 states |
| `SearchLoopReads` | Do retries come next? Is a page read twice? Is an early stop earned? `TypeOK`, `TextReadOnce`, `RetryIsNext`, `StopIsEarned` | four URLs, two of them one page, three on one host, five calls, every tool set and mode | holds, 299,420 states |
| `LivePipelineJobs` | What does a memory hold, on which items was it measured, what did the plan promise, what makes a headline? `TypeOK`, `HeldOut`, `ConfirmReadsSnapshot`, `MemoryExplained`, `PlanBoundsRun`, `HeadlineEarned` | three items, jobs of all four kinds, one run and then a fork or a resumed run | holds, 148,233 states |
| `RegimesLoopUpdates` | Whose repair is an update? `TypeOK`, `StrongestRegimeActs` | two OPTIMIZE items and one CONFIRM item, seven ways an attempt can end, three bundles (two of them at their bounds) | holds, 650,499 states |
| `TaskLoopSteps` | Where does support come from, who is rejected, when may the attempt answer, what is read, is a worn query proposed again? `TypeOK`, `SupportIsSourced`, `ResolvedByEvidence`, `RejectionIsEarned`, `AnswerIsFresh`, `AnswerIsEvidenced`, `ReadOnce`, `NoWornQuery`, and no deadlock | two frames of two slots and three constraints (nothing resolved, or one constraint called resolved by the reply), five pages, four drivers, nine replies of the proposer, four calls | holds, 182,531 states |
| `ReplayValidationPasses` | Does the report repeat the run, keep its own rules, and repeat itself? `AgreesWithRun`, `ConsistentOffline`, `SecondPassAgrees` | one attempt, two obligations on one host, two texts, one failed write, two validations | holds, 3,075,190 states |
| `ReplayValidationAttempts` | What does a verdict shared by attempts still guarantee? `MissingOnlyIfLost`, `VerifiedTextIsClean` | two attempts of one obligation, three texts, one validation | holds, 3,540,426 states |
| `AttemptModes` | Who fails and who is followed? Are frames well formed, support grounded, replays exact? `FailureIsEarned`, `MovesOn`, `OnlyBareRepeats`, `FrameIsWellFormed`, `FrameReplays`, `SupportIsGrounded`, `ReadingReplays` | four questions; three candidates, five calls; a run of three parses with some forty replies, resumed once and replayed; twelve pages with an entity | holds, 599,548 states |
| `PendingServicePinned` | `PinnedToAskedPage` | as the first run | violated |
| `LivePipelineFork` | `ForkHeldOut` | a live run and its fork | violated |
| `ReplayValidationOwn` | `VerdictIsOwn` | two attempts of one obligation | violated |

The action properties are `TerminalStatusIsFinal` and `SettledIsFinal`; `Promised` is the
refinement, `Termination` is liveness; all others are invariants. `CHECK_DEADLOCK FALSE` is
set where the system may stop: `LivePipeline` (a sequence of runs ends) and `RegimesLoop` (a
run ends). The other modules have a stutter for their end, so that a deadlock anywhere else
is reported.

## Where the code and its documents disagree

Shown by a run:

* `PendingServicePinned`: the judge's obligation "pins the EXACT source_url to read", and a
  judgment on a search's second result pins the first result's URL
  (`agent/candidate_frontier.py:910`).
* `LivePipelineFork`: "No `benchmark_item` may appear in both `OPTIMIZE` and `CONFIRM`", and a
  fork turns the sizes its parent's split came out with into the threshold of its own, so an
  item the snapshot learnt from may be measured (`live/fork.py:151`). `HeldOut` (proved) says
  what does hold: a run that learns its own memory measures only held-out items.
* `ReplayValidationOwn`: the strict cache is a "Per-obligation" one, and is keyed by a number
  that every attempt uses (`agent/candidate_frontier.py:1861`, `agent/read_judgment.py:49`), so
  an obligation whose re-judgment failed can be reported as closed by another attempt's
  verdict. `AgreesWithRun` says what does hold, for a run of one attempt.

Met while modelling; the modules do what the code does, and no run is about them:

* *Pending-read service.* `body_available` is set by any page of the same host
  (`candidate_frontier.py:1951`). Two obligations on one URL re-read it twice (2165), where a
  comment says at most once. The status "reserved for true bugs" is given to the *URL* record
  of a read whose evidence raised (2245); `NoUnservedObligation` says the *obligation* never
  gets it.
* *Reads.* An empty fetch with a title counts as a success (`search_loop.py:842`). An empty
  `page_fetch` should fall back once to a scrape, and is fetched again (895). A stop decision
  of `fetch_page` replaces the page whose retry was just scheduled (1066), and the order to
  fetch stays set for the page that takes its place (886). `RetryIsNext` is about the retries
  that are not replaced; no property rules the other two out, because they happen. In
  task-frame mode nothing uses `pending_read` (884).
* *Recording cache.* `payload_to_response` (`activegraph_pack/tools.py:31`) drops `fetch_meta`,
  so a replayed page is not seen as cut. A failed write inside `store` is a failed response
  for the agent and a success in the record. `ReplayExact` therefore speaks of runs whose
  pages were whole and whose writes succeeded.
* *Frontier and controller.* The controller answers when the frontier calls the leader
  answerable, without `evaluate_answer_support`, which `candidate_frontier.py:1031` calls the
  only authority. It may repeat a query although `docs/QUERY_POLICY.md` says it does not.
  Constraints that may not block resolve from dirty pages. A proposal's action is never found
  again by `record_execution` (2884), because `ingest_evidence` has rebuilt the actions.
* *Proposer.* Repair mode fires on every read or answer of the controller, whose query is
  empty. A proposed abstention is accepted without `abstain_admissible`
  (`llm_frontier.py:467`, `docs/QUERY_POLICY.md:1050`). The relaxed gate skips the
  connectedness check. A search proposed with a fetch tool fetches the query's text.
* *Clue resolution.* "Force exploration of the next-best after a candidate fails twice": the
  beam is cut before failed candidates are dropped, so with its best three failed, a failed
  one is followed although the pool has others (`MovesOn` says when). A candidate's own query
  is repeated (`OnlyBareRepeats`). The auto mode ignores `enable_task_frame`.
* *Frame parser and answer gate.* "A blocking constraint may be marked resolved ONLY when a
  provider/cached evidence event supports it - never from prompt text" (`search_loop.py:1100`),
  and `docs/QUERY_POLICY.md:1000` pins the count of the others at 0. The status comes from the
  reply (`llm_task_frame.py:590`), and `evaluate_answer_support` takes a constraint that starts
  resolved for one that was (`action_planner.py:122`). `ResolvedByEvidence` and
  `AnswerIsEvidenced` hold of what the reply left open, and make what it resolved the only
  exception.
* *Frame parser and blocking constraints.* `build_task_frame` "always returns a usable
  `TaskFrame`" (`llm_task_frame.py:799`). The tests of the reply are for constraints that are
  required or of high priority (421); one of lower priority blocks too if the reply sets
  `blocks_answer_if_unresolved` or lists the affordance (589-614, `action_planner.py:111-113`),
  with nothing to test, or on no slot, where the gate passes over it.
  `FrameIsWellFormed` says what is so of the first kind, which includes that they may block,
  and of all kinds in a deterministic frame. A number that does not parse, or an unhashable id,
  raises; the reply is already in the file, so every later run raises too, and the property is
  about the frames returned. Cycles of dependencies and repeated constraint ids pass. A write
  error is swallowed (141), and a torn file loses every earlier parse.
* *Regimes loop.* For `evidence_sparse` the documents have "Raise `nearest_k` (borrow more
  priors)" (`docs/REGIMES_IMPROVEMENT_LOOP.md:88`; the table at `regimes/hypothesize.py:28` has
  the step), and no update ever makes it: a sparse attempt is also a route miss and a query
  miss (`regimes/detectors.py:44`), which are as frequent, listed first, and take both places
  of `top_k = 2`. A counterexample would show one run without the repair; that there is none
  with it is theorem `SparseIsSilent`, of any number of items and any attempts.
* *Judge.* The cap "per candidate" counts per slot. After the cap, the recognizer's support is
  not put through the hard rules. An alias the judge itself proposed can anchor the
  next quote. A model may call a contaminated page acceptable; `SupportIsGrounded` says that no
  support comes of it. `judge_batch` never reads the cache in a replay.
* *Validation.* The rules "tests pin to []" do not hold after a live validation
  (`replay_validation.py` 2699-2706), after an offline one that used what a live one wrote, or
  when attempts share numbers: `ConsistentOffline` says when they do. Read bodies that are contaminated reach the live judge, though `_live_rejudge`
  says they are excluded upstream.
* *Runner.* A resumed run may use another split than the run that made its snapshot
  (`live/runner.py:289`). A fork takes its budgets from the config, and drops overrides of
  `reward:`. The cap on follow-up calls is
  under-estimated when a budget, or that of the experience phase, is 0 (`eval/cost.py:112`).
  `docs/REGIMES_IMPROVEMENT_LOOP.md` says CONFIRM is only attempted after the OPTIMIZE gate,
  and the loop evaluates both before either.

## Proofs

All theorems are for every value of the constants that satisfies the named assumptions of the
modules:

| assumption | says |
|---|---|
| `ServiceAssumption` | URLs have pages and hosts, triples have candidates, `NoUrl` and `NoCand` are none, the budget is a number |
| `ReplayAssumption` | a request is a tool's, a helper's or the answerer's; a tool has three outcomes; the end of a run is no request |
| `LoopAssumption` of `SearchLoop` | URLs of one normalized page share its host; the budget is positive |
| `PipelineAssumption`, `JobsAssumption` | buckets, dates and budgets are numbers; only a benchmark learns online, and it runs every condition; a run has a budget |
| `RegimesAssumption` | an attempt hits no more often than it calls, stops early only after a call, and is not correct when it abstains; the update's limits are positive |
| `FrameAssumption`, `ProposerAssumption`, `LoopAssumption` of `TaskLoop` | contents are facts about the frame's slots and constraints, the target is no latent slot, `Nothing` is no page |
| `LogAssumption`, `ValidationAssumption` | pages have hosts, texts a length; `Nothing` is no page, text, verdict or entry; the limits are numbers |
| `ClueAssumption`, `ShapeAssumption`, `ParserAssumption`, `ReadingAssumption` | candidates are finitely many, in text order (positive numbers; 0 is no candidate); sizes and weights are positive; a reply lists what it says |

None bounds a budget, a number of items, pages, requests, validations or runs: those bounds
belong to the runs.

* `PendingServiceSafety`, in five parts.
  - `TypeCorrect`, `SuppressedStaysInert`. The inductive invariant `ShapeInv` adds to the type
    invariant that a planned step has the URL and tool its kind needs, that a queued re-read
    belongs to a clean obligation, that an attempted record has members, and that a call fits
    the budget. Without the last two, `Finalize` could leave the set of statuses and
    `CloseStep` the range of `calls`.
  - `ServiceReadsBounded`, `FallbacksServable`, `TerminalStatusKept` from `RecordInv`, which
    relates a record to the reads made of its URL: each read, made or in flight, used a tool of
    its own, and a record has a status only when no service read will touch it again.
  - `EveryObligationServed` from `ServedInv`: a selected live obligation has a decided URL, so
    when nothing is serviceable every live obligation's URL is decided, and the final status is
    never the one reserved for bugs.
  - `RereadsAccounted` from `RereadInv` (a pending re-read is of an unsettled obligation that
    has used its only re-read), with the counting lemmas for the sets each action adds and
    removes; `SettledStays` because only open or re-read obligations are routable.
  - `ServiceKeepsPromise`, that `PendingService` implements `ServicePromise`. The simulation
    has one lemma per kind of abstract step: planning a service read is `Read`, `Register` is
    `Ask` or a stutter, `Route` is `Settle`, `Finalize` is `Close`, the rest stutters.
    `AttemptInv` is what `Close` needs: a service attempt without an outcome is still in
    flight, and the only statuses given before the end are the three the loop assigns, so
    every ending agrees with the reads.
* `ReplaySafety`, for what reads a run back. Of `LiveReplay`: `AutoPaysOnce` from `PaidInv`, and `ReplaysExactly` from `ExactInv`.
  `PaidOnce` alone says nothing of where a response is; `PaidInv` adds that each paid response
  is in memory or in flight during a run and on disk between runs, or is counted in `lost`,
  and that without faults the file is what is in memory, so that nothing is ever lost.
  `ReplayExact` compares two logs of which one is still being written. `ExactInv` is what makes
  them grow alike: every run asked what the agent says after each part of its log
  (`Followed`), a clean run's log can be rebuilt from its memory (`RunRebuilds`) and the log
  of the run the file records from the file (`RefRebuilds`), while a replay has nothing but
  the file (`ReplaysFile`). A replay that has repeated the run so far asks what the run asked
  next and is told what the run was told.
  Of `ReplayValidation`: `AgreesWithRunHolds`, `MissingOnlyIfLostHolds`,
  `VerifiedTextIsCleanHolds`, `ConsistentOfflineHolds` and `SecondPassAgreesHolds`, from one
  invariant, `CheckInv`. Its first part, `LogInv`, is about what the run leaves: a status that
  claims a verdict has one in memory (`ObligationsBacked`), the file has what is in memory until
  a write fails (`FileFollowsLog`), and an entry of a one-attempt run is of the obligation with
  its number and agrees with it (`EntriesAreOwn`). Its second is about the validation: what it
  found so far (`FoundOK`) and what the last one reported (`ReportedOK`) is true of the log and
  of the file as they are now, and each claim that was not lost was there when it began
  (`ClaimsSeen`). The key is `Stable`, which says of a verdict all that `Recorded` asks of its
  entry: a validation overwrites only an entry it could not verify, hence no stable one, so the
  next validation finds the same verdict. The proof of `ConsistentOffline` failed at first: it
  was conditional on a file without verdicts of a validation when the report is *read*, and
  TLC found the three validations that refute this (a live one writes, an offline one uses what
  it wrote, and a failed write of a third empties the file). It now speaks of the verdicts the
  report itself uses.
* `SearchLoopSafety`: `Invariance`, from which `TypeCorrect`, `RetriesAddUp`,
  `RetriesComeNext` and `TextsAreReadOnce` follow, and `StopsAreEarned`. None of the last
  three is inductive. `ActInv` carries what the choice established into the call (the page
  in flight was admitted, so it is not in `scraped`), `TextInv` ties the history to the
  code's set (a page whose text was read is in `scraped`), and `DueInv` holds between two
  steps: a scheduled retry is pending, still admitted, and forced after a failed scrape,
  because a read that will be retried changes neither `scraped` nor `barred`.
  `StopsAreEarned` assumes a threshold of at least 0.6, the default; the
  regimes loop may lower it to 0.1 (`regimes/action_space.py` 102), and below 0.6 a
  contradicted answer may stop without authority or freshness.
* `TaskLoopSafety`: `SupportHasSource`, `ResolvedHasSource`, `RejectionHasReason`,
  `AnswersAreFresh`, `AnswersHaveEvidence`, `EachPageOnce`, `NoWornSearch` and `ShapesKept`, for
  any frame, any statuses it was given, any pages and any replies. One invariant, `LoopInv`, relates what both stores hold to what the calls
  observed: `CandsOK` a candidate's support and contradictions to clean pages that say so, and
  its idle count to the calls that moved nothing; `HypsOK` a hypothesis to the candidates it
  assigns, whose contradictions it knows while its target is live; `TableOK` the table's
  evidence and hypotheses to the calls; `LogOK` the pages and words given up to the calls
  made. `AnswerIsFresh` needs all of it: the answer leads, so its hypothesis is live, so what
  the frontier holds against it is what the calls held against it.
* `AttemptSafety`, for `Attempt`, whose steps are one component's each, so that every
  invariant is proved of its component's steps and framed by the others'.
  - `FailuresAreEarned`, `BeamMovesOn`, `RepeatsAreBare` from `ClueInv` (a call about a
    candidate is about one of the pool, and the code's streaks are the history's) and a fact
    of the ranking: sorting by score and text is a strict order, so the beam is the pool or
    has `BeamSize` of it, and if a failed candidate is followed then all of the beam failed.
  - `FramesAreWellFormed`, `FramesReplay` from `ParserInv`: every parsed frame is the frame of the
    reply that the cache has for its question, or the deterministic one, until a write is lost.
  - `ReadSupportIsGrounded`, `ReadingsReplay` from `ReadingInv`: each entry of the trail is
    grounded, and the live pass and the replay both lie on the one path of moments that frame,
    page, entity and caches determine (`Leads`), so they end alike.
* `LivePipelineSafety`: `PipelineTypes`, `PipelineHoldsOut`, `PipelineNeverRaises` (a frozen
  memory is never asked to learn), `PipelineExplained`, `PipelineReadsSnapshot`, all from
  `MemoryInv`. `HeldOut` is not inductive: it speaks of the memory in use, and the next stage
  takes its memory from the snapshot. `LearntInv` adds what the snapshot and the memory of the
  experience phase learnt from, `SplitInv` that the two halves are disjoint, `FrozenInv` that
  a measured memory is frozen unless the run is online.
  `PipelineKeepsPlan` and `HeadlinesAreEarned` rest on `RunInv`. The plan multiplies, the run
  goes through a queue, so the first part is about the queue: `Schedule` shows that each
  condition's turns are an increasing list of stages, once per budget in the order of the
  budgets, `NextTurn` that the stage after the first n is the condition's next turn or none,
  and `PassesTogether` that the passes come just before the freeze. `RunInv` then says that a
  condition's attempts and what is left of its stage are its items times the turns begun
  (`CostInv`), with calls bounded by the sum of those turns' budgets; that in the n-th pass
  each item was learnt from n times, or n - 1 if it is still to come (`PassInv`); and that what
  a finished run claims was so (`EndInv`). The bound on follow-up calls needs every budget to
  be positive, the experience budget included: the proof failed where `estimate_calls`
  subtracts one call per attempt from attempts that have none (`eval/cost.py:112`), and
  `PlanBoundsRun` says so.
* `RegimesLoopSafety`: `RegimesTypes`, `UpdatesStayBounded`, `NothingForNothing` (an update that
  leaves the bundle as it was is not promoted: the two evaluations are then equal, and the
  OPTIMIZE gate asks for a gain), `StrongestActs` and `SparseIsSilent`. The last two rest on the
  ranking: `Before` is a strict order of the labels that are seen, `Rank` counts what is
  before a label, so the label in front has rank 0 and its first repair precedes every other
  offer for that parameter; and a sparse attempt is also a route miss and a query miss, which
  are listed before it, so that it never has one of the two places
  (`SparseRepairIsDead` speaks of `TopK` at most 2, the code's number; it is no wish of the
  authors, see above, and so no run checks it). `LoopInv` carries the
  update from `Propose` to the gates.
* `ListFacts` has what these proofs share: that the ranks of a strict order on a finite set
  count it (`RankBounds`, `RankBijection`), so that something is first (`FirstOf`) and the n
  best are n (`TopCount`); what `Ascending`, `Picked` and `FirstAt` of `Lists` return; how
  lists grow by appending, joining and flattening; and induction over the numbers, `Induct`, from
  the pigeonhole principle: if a number were missing from a set that has 0 and every
  successor, the successor would map the members below it, finitely many, one to one into
  fewer.

Induction takes that form because the library's induction theorems have an operator as
parameter, which the installed provers cannot instantiate; `Induct` has a set. Sums of budgets
(`UpToSteps`) and the flattening of lists are by it. The library's own filters and folds
stay closed to the provers for the same reason, which is why the agent's modules select from
lists with `Picked` and `FirstAt`, defined by ranks.

The preservation proofs have one lemma per action, or one per group of actions that change
the same variables.

Proved and not listed by a run, because a run would only repeat them on a small instance:
`SuppressedStaysInert`, `ServiceReadsBounded`, `FallbacksServable`, `RereadsAccounted`,
`RetriesAddUp`, `PipelineNeverRaises`, `UpdatesStayBounded`, `NothingForNothing`, and the
invariants `ClueInv`, `ParserInv`, `ReadingInv`, `LoopInv`, `CheckInv`.

Only model-checked: `Termination` (liveness and ENABLED are out of the prover's reach). Every
other property of a passing run is proved; the violated properties have no proof.

## Bounds and fairness

* `PendingService`: `Budget` and `MaxObligations`; `Budget` is the program's own limit.
  Two obligations and three URLs allow every pairwise interaction the code has: two
  obligations on one URL, one page behind two URLs of one host, and a host whose reads are
  refused. Four calls are a search that registers, a read, its fallback and a re-read. The
  proofs hold for all other instances.
* `LiveReplay`: `MaxAsked` and `MaxRuns`. A defect of the cache needs a request and its
  repetition in one run, or a run that records, one that is cut short and one that replays:
  two requests and three runs. There is no liveness property: a run may crash each time.
* `SearchLoop`: `Budget`, as in the program. A search, a failed read, its retry, a second
  target and one more step are five calls; the four URLs are a multihop target, a page under
  two URLs, and a neighbour on its host, so that a barred host, a read page and a
  corroborated host can each decide the same choice.
* `LivePipeline`: `NItems`, `MaxFresh`, `MaxJobs`, budgets. Three items are enough for an item
  in each half and one that changes sides between a parent and its fork; two runs are a parent
  and what follows it.
* `RegimesLoop`: two OPTIMIZE items are the fewest with a majority label against a minority
  one; a bundle at each bound makes a repair that is clamped to nothing.
* `TaskLoop`: `Budget` 4 over a two-hop frame: find the latent entity, contradict it, find the
  target, read. The five pages support, contradict, repeat and mislead; the nine
  replies each pass or miss a different gate. Two frames (`GivenStatuses`) are the one with
  nothing resolved and one whose reply calls a blocking constraint resolved and gives another
  a status of its own invention.
* `ReplayValidation`: `MaxPasses`, `MaxFaults`, `MaxReads`, `Caps`. A shared number needs two
  attempts of one obligation; a host match, a gap and its re-read need two obligations and two
  reads of one attempt; hence two instances.
* `Attempt`: the beam and pool sizes 3 and 8 are scaled to 2 and 2, and the judge's cap of 6 to
  2, so that three candidates overflow the beam and two constraints the cap; two failures
  (`MaxFails`) is the code's number. The replies have each flaw alone and in combinations that
  lower the score; one resumption suffices to find a file torn.

`FairSpec` is weak fairness of `Next` in `PendingService`: the program is one thread that
always takes its next step, and registers finitely many judgments per call
(`MaxObligations`). No fairness is assumed of any outcome: a tool may fail at every call. The
other modules state no liveness: each loop is bounded by a counter that every step raises.

## What is not modelled

* Text: how queries are worded, entities extracted, years found, prompts rendered, reports
  formatted. What the control flow reads off a text is a constant, a field or a choice.
* `agent/answerer.py`: an authority-weighted vote, one expression over floats.
* The bandit's arithmetic, the metrics and the significance test: floats. Where a score
  decides control (`SearchLoop`, `TaskLoop`, `ClueLoop`, `RegimesLoop`) it is an exact number.
* The event log's contents: the sequence of events is bookkeeping, `replay_check` compares
  ids only (`activegraph_pack/behaviors.py:199`), and the graph library is external.
* Batch judging, legacy reconstruction of debug records, passage windows, projections and
  manifests.
* Datasets, scripts, HTTP adapters, third-party libraries.

Five hazards have no property. Three happen, and the section on disagreements has them: the
retry that a stop decision replaces (`agent/search_loop.py:1066`), the order to fetch that
outlives its page (886), and the repair without a place (`regimes/detectors.py:44`). What a
fork leaves of its parent's configuration (`live/fork.py:131`) is about the agent, which
`LiveReplay` fixes over its runs. A resumed run's split (`live/runner.py:289`) is about a flag
of which no document says what the split should be, and `HeldOut` excludes resumed runs for
that reason.
