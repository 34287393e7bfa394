---------------------------- MODULE ReplaySafety -----------------------------
(***************************************************************************)
(* Reading a run back: the proofs about the recording cache (LiveReplay)   *)
(* and about the validation of a run's judgments (ReplayValidation).       *)
(*                                                                         *)
(* Auto mode pays once, for every number of requests, of runs and of       *)
(* requests per run.  PaidInv says where the response of a paid call is:   *)
(* in memory, in flight, on disk between runs, or lost.                    *)
(* A replay repeats its run: ExactInv says what the file can rebuild, and  *)
(* that the agent asks what its memo says.                                 *)
(* A validation reports what the run recorded: CheckInv says what the run  *)
(* left behind, and what is true of the outcome of every obligation        *)
(* examined so far and of every one in the last report.                    *)
(***************************************************************************)
EXTENDS LiveReplay, ReplayValidation, SequenceTheorems, FiniteSetTheorems, TLAPS

(* Where the response of a paid call is kept.                              *)
InFlight(r) ==
    /\ pc = "answered" /\ mode = "auto" /\ call.request = r
    /\ Responded(r, call.outcome)

Kept(r) ==
    IF pc = "idle" THEN disk[r] # "absent" ELSE entries[r] # "absent" \/ InFlight(r)

Accounted(r) == paid[r] <= lost[r] + (IF Kept(r) THEN 1 ELSE 0)

(* A call in progress fits the run's bound.                                *)
CallFits == pc \in {"answered", "writing"} => Len(log) < MaxAsked

(* Without faults the file is what is in memory, except during a write.    *)
FileFollows ==
    Faults = {} => /\ pc \in {"ask", "answered", "raised"} => entries = disk
                   /\ \A r \in Requests : lost[r] = 0

(* The inductive invariant.                                                *)
PaidInv == TypeOK /\ CallFits /\ FileFollows /\ \A r \in Requests : Accounted(r)

(* The invariant holds before the first run.                               *)
LEMMA PaidInit == ASSUME ReplayAssumption PROVE Init => PaidInv
<1>. SUFFICES ASSUME Init PROVE PaidInv
  OBVIOUS
<1>1. TypeOK
  <2>1. << >> \in Log /\ NoRef.log = << >> /\ Len(<< >>) = 0
    BY DEF Log, NoRef
  <2>2. Empty \in Entries
    BY DEF Empty, Entries
  <2>3. paid \in [Requests -> Nat] /\ lost \in [Requests -> Nat]
    BY DEF Init
  <2>4. runs \in 0 .. MaxRuns
    BY DEF Init, ReplayAssumption
  <2>5. log \in Log /\ Len(log) <= MaxAsked /\ ref.log \in Log
    BY <2>1 DEF Init, ReplayAssumption
  <2>6. pc = "idle" /\ entries \in Entries /\ disk \in Entries /\ intact \in BOOLEAN
    BY <2>2 DEF Init
  <2>7. mode \in Modes /\ armed \in BOOLEAN /\ clean \in BOOLEAN
    BY DEF Init, Modes
  <2>. QED  BY <2>3, <2>4, <2>5, <2>6, <2>7 DEF TypeOK
<1>2. CallFits /\ FileFollows
  BY DEF Init, CallFits, FileFollows
<1>3. ASSUME NEW r \in Requests PROVE Accounted(r)
  <2>1. ~ Kept(r)
    BY DEF Init, Kept, Empty
  <2>2. paid[r] = 0 /\ lost[r] = 0
    BY DEF Init
  <2>. QED  BY <2>1, <2>2 DEF Accounted
<1>. QED  BY <1>1, <1>2, <1>3 DEF PaidInv

(* A run that sees an answer stays within its bound.                       *)
LEMMA SeesType ==
    ASSUME TypeOK, MaxAsked \in Nat, Len(log) < MaxAsked,
           NEW r \in Requests, NEW v \in Views, Sees(r, v)
    PROVE  log' \in Log /\ Len(log') <= MaxAsked /\ pc' = "ask"
<1>1. log \in Seq(Requests \X Views) /\ <<r, v>> \in Requests \X Views
  BY DEF TypeOK, Log
<1>2. log' = Append(log, <<r, v>>)
  BY DEF Sees
<1>3. log' \in Seq(Requests \X Views) /\ Len(log') = Len(log) + 1
  BY <1>1, <1>2
<1>4. Len(log) \in Nat
  BY <1>1
<1>. QED  BY <1>3, <1>4 DEF Sees, Log

(* The agent decides on a request only within its run's bound.             *)
LEMMA DecideFits ==
    ASSUME ReplayAssumption, NEW r \in Requests, Decide(r)
    PROVE  pc = "ask" /\ Len(log) < MaxAsked
BY DEF ReplayAssumption, Decide, WithinBudget

(* A run loads what the file kept.                                         *)
LEMMA StartKeeps ==
    ASSUME PaidInv, ReplayAssumption, NEW m \in Modes, NEW a \in BOOLEAN, Start(m, a)
    PROVE  PaidInv'
<1>1. TypeOK'
  <2>1. << >> \in Log /\ Len(<< >>) = 0
    BY DEF Log
  <2>. QED  BY <2>1 DEF PaidInv, TypeOK, Start, Loaded, ReplayAssumption
<1>2. CallFits' /\ FileFollows'
  BY DEF PaidInv, FileFollows, CallFits, Start, Loaded
<1>3. ASSUME NEW r \in Requests PROVE Accounted(r)'
  <2>1. Kept(r) <=> disk[r] # "absent"
    BY DEF Start, Kept
  <2>2. Kept(r)' <=> disk[r] # "absent"
    BY DEF Start, Kept, InFlight, Loaded
  <2>. QED  BY <2>1, <2>2 DEF Start, PaidInv, Accounted
<1>. QED  BY <1>1, <1>2, <1>3 DEF PaidInv

(* What is kept does not change when the cache and the counters do not and *)
(* the run goes on.                                                        *)
LEMMA KeptRunning ==
    ASSUME PaidInv, pc \in {"ask", "writing"}, pc' \in {"ask", "raised"},
           entries' = entries, paid' = paid, lost' = lost
    PROVE  \A r \in Requests : Accounted(r)'
<1>. SUFFICES ASSUME NEW r \in Requests PROVE Accounted(r)'
  OBVIOUS
<1>1. (Kept(r) <=> entries[r] # "absent") /\ (Kept(r)' <=> entries[r] # "absent")
  BY DEF Kept, InFlight
<1>. QED  BY <1>1 DEF PaidInv, Accounted

(* A hit costs nothing and changes nothing in the cache.                   *)
LEMMA HitKeeps ==
    ASSUME PaidInv, ReplayAssumption, NEW r \in Requests, Hit(r) PROVE PaidInv'
<1>1. pc = "ask" /\ Len(log) < MaxAsked
  BY DecideFits DEF Hit
<1>2. entries[r] \in Outcomes
  BY DEF Hit, Served, PaidInv, TypeOK, Entries
<1>3. Rebuilt(entries[r]) \in Views
  BY <1>2 DEF Rebuilt, Views, Outcomes
<1>4. log' \in Log /\ Len(log') <= MaxAsked /\ pc' = "ask"
  BY <1>1, <1>3, SeesType DEF Hit, PaidInv, ReplayAssumption
<1>5. TypeOK'
  BY <1>4 DEF PaidInv, TypeOK, Hit
<1>6. CallFits' /\ FileFollows'
  BY <1>1, <1>4 DEF CallFits, FileFollows, PaidInv, Hit
<1>7. \A q \in Requests : Accounted(q)'
  BY <1>1, <1>4, KeptRunning DEF Hit
<1>. QED  BY <1>5, <1>6, <1>7 DEF PaidInv

(* A refusal costs nothing and changes nothing in the cache.               *)
LEMMA RefuseKeeps ==
    ASSUME PaidInv, ReplayAssumption, NEW r \in Requests, Refuse(r) PROVE PaidInv'
<1>1. pc = "ask" /\ Len(log) < MaxAsked
  BY DecideFits DEF Refuse
<1>2. log' \in Log /\ Len(log') <= MaxAsked /\ pc' \in {"ask", "raised"}
  <2>1. CASE KindOf[r] = "helper"
    <3>1. Sees(r, "fallback") /\ "fallback" \in Views
      BY <2>1 DEF Refuse, Views
    <3>. QED  BY <3>1, <1>1, SeesType DEF PaidInv, ReplayAssumption
  <2>2. CASE KindOf[r] # "helper"
    BY <2>2, <1>1 DEF Refuse, PaidInv, TypeOK
  <2>. QED  BY <2>1, <2>2
<1>3. TypeOK'
  BY <1>2 DEF PaidInv, TypeOK, Refuse
<1>4. CallFits' /\ FileFollows'
  BY <1>1, <1>2 DEF CallFits, FileFollows, PaidInv, Refuse
<1>5. \A q \in Requests : Accounted(q)'
  BY <1>1, <1>2, KeptRunning DEF Refuse
<1>. QED  BY <1>3, <1>4, <1>5 DEF PaidInv

(* A call in auto mode is of a request without an entry, so it is paid for *)
(* only if every earlier payment was lost.                                 *)
LEMMA CallKeeps ==
    ASSUME PaidInv, ReplayAssumption, NEW r \in Requests, NEW o \in Possible(r), Call(r, o)
    PROVE  PaidInv'
<1>1. pc = "ask" /\ Len(log) < MaxAsked
  BY DecideFits DEF Call
<1>2. o \in Outcomes
  BY DEF Possible, Outcomes, ReplayAssumption
<1>3. /\ call' = [request |-> r, outcome |-> o]
      /\ call'.request = r /\ call'.outcome = o /\ pc' = "answered"
  BY DEF Call
<1>4. paid' \in [Requests -> Nat]
  BY DEF Call, PaidInv, TypeOK
<1>5. TypeOK'
  <2>1. clean' \in BOOLEAN
    BY DEF Call, PaidInv, TypeOK
  <2>. QED  BY <1>2, <1>3, <1>4, <2>1 DEF PaidInv, TypeOK, Call
<1>6. CallFits' /\ FileFollows'
  BY <1>1, <1>3 DEF CallFits, FileFollows, PaidInv, Call
<1>7. ASSUME NEW q \in Requests PROVE Accounted(q)'
  <2>1. Kept(q) <=> entries[q] # "absent"
    BY <1>1 DEF Kept, InFlight
  <2>2. Kept(q)' <=> entries[q] # "absent" \/ (mode = "auto" /\ r = q /\ Responded(q, o))
    BY <1>3 DEF Kept, InFlight, Call, Responded
  <2>3. paid[q] \in Nat /\ lost[q] \in Nat /\ lost' = lost
    BY DEF PaidInv, TypeOK, Call
  <2>4. CASE mode = "auto" /\ r = q /\ Responded(q, o)
    <3>1. entries[q] = "absent"
      BY <2>4 DEF Call, Served
    <3>2. paid'[q] = paid[q] + 1
      BY <2>4 DEF Call, PaidInv, TypeOK
    <3>. QED  BY <2>1, <2>2, <2>3, <2>4, <3>1, <3>2 DEF PaidInv, Accounted
  <2>5. CASE ~ (mode = "auto" /\ r = q /\ Responded(q, o))
    <3>1. paid'[q] = paid[q]
      BY <2>5 DEF Call, PaidInv, TypeOK
    <3>. QED  BY <2>1, <2>2, <2>3, <2>5, <3>1 DEF PaidInv, Accounted
  <2>. QED  BY <2>4, <2>5
<1>. QED  BY <1>5, <1>6, <1>7 DEF PaidInv

(* The call an answer is for, and what the agent makes of it.              *)
LEMMA Answered ==
    ASSUME PaidInv, pc \in {"answered", "writing"}
    PROVE  /\ call.request \in Requests /\ call.outcome \in Views /\ Len(log) < MaxAsked
           /\ Seen(call.request, call.outcome) \in Views
           /\ Seen(call.request, "error") \in Views
BY DEF PaidInv, TypeOK, CallFits, Views, Outcomes, Seen

(* An unrecorded answer was not paid for in auto mode.                     *)
LEMMA UnrecordedKeeps == ASSUME PaidInv, ReplayAssumption, Unrecorded PROVE PaidInv'
<1>1. pc = "answered"
  BY DEF Unrecorded
<1>2. log' \in Log /\ Len(log') <= MaxAsked /\ pc' \in {"ask", "raised"}
  <2>1. CASE KindOf[call.request] = "answer" /\ call.outcome = "error"
    BY <2>1 DEF Unrecorded, PaidInv, TypeOK
  <2>2. CASE ~ (KindOf[call.request] = "answer" /\ call.outcome = "error")
    <3>1. Sees(call.request, Seen(call.request, call.outcome))
      BY <2>2 DEF Unrecorded
    <3>. QED  BY <1>1, <3>1, Answered, SeesType DEF PaidInv, ReplayAssumption
  <2>. QED  BY <2>1, <2>2
<1>3. TypeOK'
  BY <1>2 DEF PaidInv, TypeOK, Unrecorded
<1>4. CallFits' /\ FileFollows'
  BY <1>1, <1>2 DEF CallFits, FileFollows, PaidInv, Unrecorded
<1>5. ASSUME NEW r \in Requests PROVE Accounted(r)'
  <2>1. ~ InFlight(r)
    BY DEF Unrecorded, InFlight
  <2>2. (Kept(r) <=> entries[r] # "absent") /\ (Kept(r)' <=> entries[r] # "absent")
    BY <1>1, <1>2, <2>1 DEF Kept, InFlight, Unrecorded
  <2>. QED  BY <2>2 DEF PaidInv, Accounted, Unrecorded
<1>. QED  BY <1>3, <1>4, <1>5 DEF PaidInv

(* Storing keeps in memory what was in flight.                             *)
LEMMA StoresKeeps ==
    ASSUME PaidInv, Stores, paid' = paid, lost' = lost, pc' # "idle"
    PROVE  entries' \in Entries /\ \A r \in Requests : Accounted(r)'
<1>1. call.request \in Requests /\ call.outcome \in Outcomes
  BY DEF Stores, PaidInv, TypeOK
<1>2. entries' \in Entries
  BY <1>1 DEF Stores, PaidInv, TypeOK, Entries
<1>3. ASSUME NEW r \in Requests PROVE Accounted(r)'
  <2>1. Kept(r) => entries'[r] # "absent"
    BY <1>1 DEF Stores, Kept, InFlight, Outcomes, PaidInv, TypeOK, Entries
  <2>2. Kept(r) => Kept(r)'
    BY <2>1 DEF Kept
  <2>3. paid[r] \in Nat /\ lost[r] \in Nat
    BY DEF PaidInv, TypeOK
  <2>. QED  BY <2>2, <2>3 DEF PaidInv, Accounted
<1>. QED  BY <1>2, <1>3

(* The file is emptied and about to be written.                            *)
LEMMA StoreKeeps == ASSUME PaidInv, ReplayAssumption, Store PROVE PaidInv'
<1>1. entries' \in Entries /\ \A r \in Requests : Accounted(r)'
  BY StoresKeeps DEF Store
<1>2. TypeOK'
  <2>1. Empty \in Entries /\ NoRef.log \in Log
    BY DEF Empty, Entries, NoRef, Log
  <2>2. clean' \in BOOLEAN
    BY DEF Store, PaidInv, TypeOK
  <2>. QED  BY <1>1, <2>1, <2>2 DEF Store, Stores, PaidInv, TypeOK
<1>3. CallFits' /\ FileFollows'
  BY DEF Store, Stores, CallFits, FileFollows, PaidInv
<1>. QED  BY <1>1, <1>2, <1>3 DEF PaidInv

(* The file is written.                                                    *)
LEMMA SaveKeeps == ASSUME PaidInv, ReplayAssumption, Save PROVE PaidInv'
<1>1. log' \in Log /\ Len(log') <= MaxAsked /\ pc' = "ask"
  BY Answered, SeesType DEF Save, PaidInv, ReplayAssumption
<1>2. TypeOK'
  BY <1>1 DEF Save, PaidInv, TypeOK
<1>3. CallFits' /\ FileFollows'
  BY <1>1 DEF Save, CallFits, FileFollows, PaidInv
<1>4. \A r \in Requests : Accounted(r)'
  BY <1>1, KeptRunning DEF Save
<1>. QED  BY <1>2, <1>3, <1>4 DEF PaidInv

(* A write that fails leaves the entry in memory.                          *)
LEMMA SaveFailsKeeps == ASSUME PaidInv, ReplayAssumption, SaveFails PROVE PaidInv'
<1>1. pc \in {"answered", "writing"} /\ Faults # {}
  BY DEF SaveFails, Stores
<1>2. log' \in Log /\ Len(log') <= MaxAsked /\ pc' \in {"ask", "raised"}
  <2>1. CASE KindOf[call.request] = "answer"
    BY <2>1 DEF SaveFails, PaidInv, TypeOK
  <2>2. CASE KindOf[call.request] # "answer"
    <3>1. Sees(call.request, Seen(call.request, "error"))
      BY <2>2 DEF SaveFails
    <3>. QED  BY <1>1, <3>1, Answered, SeesType DEF PaidInv, ReplayAssumption
  <2>. QED  BY <2>1, <2>2
<1>3. entries' \in Entries /\ \A r \in Requests : Accounted(r)'
  <2>1. CASE Stores
    BY <1>2, <2>1, StoresKeeps DEF SaveFails
  <2>2. CASE pc = "writing" /\ UNCHANGED entries
    <3>1. entries' \in Entries
      BY <2>2 DEF PaidInv, TypeOK
    <3>. QED  BY <1>2, <2>2, <3>1, KeptRunning DEF SaveFails
  <2>. QED  BY <2>1, <2>2 DEF SaveFails
<1>4. TypeOK'
  BY <1>2, <1>3 DEF SaveFails, PaidInv, TypeOK
<1>5. CallFits' /\ FileFollows'
  BY <1>1, <1>2 DEF CallFits, FileFollows
<1>. QED  BY <1>3, <1>4, <1>5 DEF PaidInv

(* A run that ends loses what it has not saved, and only that.             *)
LEMMA EndKeeps ==
    ASSUME PaidInv, pc # "idle", pc' = "idle", lost' = Lost, paid' = paid, disk' = disk
    PROVE  lost' \in [Requests -> Nat] /\ \A r \in Requests : Accounted(r)'
<1>1. lost' \in [Requests -> Nat]
  BY DEF Lost, PaidInv, TypeOK
<1>2. ASSUME NEW r \in Requests PROVE Accounted(r)'
  <2>1. paid[r] \in Nat /\ lost[r] \in Nat /\ Accounted(r)
    BY DEF PaidInv, TypeOK
  <2>2. lost'[r] = IF Unkept(r) THEN lost[r] + 1 ELSE lost[r]
    BY DEF Lost
  <2>3. CASE Unkept(r)
    BY <2>1, <2>2, <2>3 DEF Accounted
  <2>4. CASE ~ Unkept(r)
    <3>1. Kept(r) => Kept(r)'
      BY <2>4 DEF Unkept, Kept, InFlight
    <3>. QED  BY <2>1, <2>2, <2>4, <3>1 DEF Accounted
  <2>. QED  BY <2>3, <2>4
<1>. QED  BY <1>1, <1>2

(* Without faults a run that ends has saved everything.                    *)
LEMMA NothingLost ==
    ASSUME PaidInv, pc \in {"ask", "raised"}, Faults = {}
    PROVE  \A r \in Requests : Lost[r] = 0
BY DEF PaidInv, FileFollows, Lost, Unkept

(* A completed run.                                                        *)
LEMMA FinishKeeps == ASSUME PaidInv, ReplayAssumption, Finish PROVE PaidInv'
<1>1. pc = "ask" /\ pc' = "idle" /\ lost' = Lost
  BY DEF Finish, Decide
<1>2. lost' \in [Requests -> Nat] /\ \A r \in Requests : Accounted(r)'
  BY <1>1, EndKeeps DEF Finish, cache
<1>3. TypeOK'
  <2>1. ref'.log \in Log
    BY DEF Finish, PaidInv, TypeOK
  <2>. QED  BY <1>1, <1>2, <2>1 DEF Finish, cache, PaidInv, TypeOK
<1>4. CallFits' /\ FileFollows'
  BY <1>1, NothingLost DEF CallFits, FileFollows
<1>. QED  BY <1>2, <1>3, <1>4 DEF PaidInv

(* A run that an exception ended.                                          *)
LEMMA AbortKeeps == ASSUME PaidInv, ReplayAssumption, Abort PROVE PaidInv'
<1>1. pc = "raised" /\ pc' = "idle" /\ lost' = Lost
  BY DEF Abort
<1>2. lost' \in [Requests -> Nat] /\ \A r \in Requests : Accounted(r)'
  BY <1>1, EndKeeps DEF Abort, cache
<1>3. TypeOK'
  BY <1>1, <1>2 DEF Abort, cache, PaidInv, TypeOK
<1>4. CallFits' /\ FileFollows'
  BY <1>1, NothingLost DEF CallFits, FileFollows
<1>. QED  BY <1>2, <1>3, <1>4 DEF PaidInv

(* A crash.                                                                *)
LEMMA CrashKeeps == ASSUME PaidInv, ReplayAssumption, Crash PROVE PaidInv'
<1>1. pc # "idle" /\ pc' = "idle" /\ lost' = Lost /\ Faults # {}
  BY DEF Crash
<1>2. lost' \in [Requests -> Nat] /\ \A r \in Requests : Accounted(r)'
  BY <1>1, EndKeeps DEF Crash, cache
<1>3. TypeOK'
  BY <1>1, <1>2 DEF Crash, cache, PaidInv, TypeOK
<1>4. CallFits' /\ FileFollows'
  BY <1>1 DEF CallFits, FileFollows
<1>. QED  BY <1>2, <1>3, <1>4 DEF PaidInv

(* The steps that leave the entries, the file's contents and the counters. *)
LEMMA QuietKeeps == ASSUME PaidInv, Discard \/ Terminated \/ UNCHANGED vars PROVE PaidInv'
<1>1. /\ entries' = entries /\ disk' = disk /\ mode' = mode /\ armed' = armed /\ pc' = pc
      /\ call' = call /\ log' = log /\ clean' = clean /\ ref' = ref /\ paid' = paid
      /\ lost' = lost /\ runs' = runs /\ intact' \in BOOLEAN
  BY DEF Discard, Terminated, vars, PaidInv, TypeOK
<1>2. TypeOK' /\ CallFits' /\ FileFollows'
  BY <1>1 DEF PaidInv, TypeOK, CallFits, FileFollows
<1>3. \A r \in Requests : Accounted(r)'
  BY <1>1 DEF PaidInv, Accounted, Kept, InFlight
<1>. QED  BY <1>2, <1>3 DEF PaidInv

(* Every step keeps the invariant.                                         *)
THEOREM PaidStep == ASSUME ReplayAssumption PROVE PaidInv /\ [Next]_vars => PaidInv'
<1>. SUFFICES ASSUME PaidInv, [Next]_vars PROVE PaidInv'
  OBVIOUS
<1>1. CASE \E m \in Modes, a \in BOOLEAN : Start(m, a)
  BY <1>1, StartKeeps
<1>2. CASE \E r \in Requests : Hit(r) \/ Refuse(r) \/ (\E o \in Possible(r) : Call(r, o))
  BY <1>2, HitKeeps, RefuseKeeps, CallKeeps
<1>3. CASE Unrecorded \/ Store \/ Save \/ SaveFails
  BY <1>3, UnrecordedKeeps, StoreKeeps, SaveKeeps, SaveFailsKeeps
<1>4. CASE Finish \/ Abort \/ Crash
  BY <1>4, FinishKeeps, AbortKeeps, CrashKeeps
<1>5. CASE Discard \/ Terminated \/ UNCHANGED vars
  BY <1>5, QuietKeeps
<1>. QED  BY <1>1, <1>2, <1>3, <1>4, <1>5 DEF Next

(* Auto mode pays for a request once, and once more for each response that *)
(* a crash or a failed write lost.                                         *)
THEOREM AutoPaysOnce == Spec => []PaidOnce
<1>1. Init => PaidInv
  BY ReplayAssumption, PaidInit
<1>2. PaidInv /\ [Next]_vars => PaidInv'
  BY ReplayAssumption, PaidStep
<1>3. PaidInv => PaidOnce
  <2>. SUFFICES ASSUME PaidInv, NEW r \in Requests
                PROVE  paid[r] <= 1 + lost[r] /\ (lost[r] > 0 => Faults # {})
    BY DEF PaidOnce
  <2>1. paid[r] \in Nat /\ lost[r] \in Nat
    BY DEF PaidInv, TypeOK
  <2>2. paid[r] <= 1 + lost[r]
    BY <2>1 DEF PaidInv, Accounted
  <2>3. lost[r] > 0 => Faults # {}
    BY DEF PaidInv, FileFollows
  <2>. QED  BY <2>2, <2>3
<1>. QED  BY <1>1, <1>2, <1>3, PTL DEF Spec

-----------------------------------------------------------------------------
(* Replay repeats the run the file is the record of. *)

(* The agent asked what its memo says, after each part of its log.         *)
Followed(past) ==
    \A i \in DOMAIN past : /\ SubSeq(past, 1, i - 1) \in DOMAIN memo
                           /\ memo[SubSeq(past, 1, i - 1)] = past[i][1]

(* A file with the entries e answers a request as a run has seen it.       *)
Answers(e, seen) ==
    IF seen[2] = "fallback" THEN KindOf[seen[1]] = "helper" /\ e[seen[1]] = "absent"
    ELSE e[seen[1]] # "absent" /\ Rebuilt(e[seen[1]]) = seen[2]

Rebuilds(e, past) == \A i \in DOMAIN past : Answers(e, past[i])

(* The call being made is the one the agent decided on, and a clean auto   *)
(* run makes it only for a request without an entry.                       *)
CallDecided ==
    pc \in {"answered", "writing"} =>
        /\ log \in DOMAIN memo /\ memo[log] = call.request
        /\ mode # "replay"
        /\ clean => call.outcome # "truncated"
        /\ pc = "answered" /\ mode = "auto" => entries[call.request] = "absent"
        /\ pc = "writing" => entries[call.request] = call.outcome /\ ~ ref.valid

(* A clean auto run can be rebuilt from what is in memory; the run whose   *)
(* record the file is, from the file; and a replay has only the file.      *)
RunRebuilds == mode = "auto" /\ pc # "idle" /\ clean => Rebuilds(entries, log)

RefRebuilds ==
    ref.valid /\ ref.clean =>
        /\ Followed(ref.log) /\ Rebuilds(disk, ref.log)
        /\ ref.log \in DOMAIN memo /\ memo[ref.log] = "end"

ReplaysFile == mode = "replay" /\ pc # "idle" => entries = disk

(* The inductive invariant.                                                *)
ExactInv ==
    Followed(log) /\ CallDecided /\ RunRebuilds /\ RefRebuilds /\ ReplaysFile /\ ReplayExact

(* A prefix, element by element.                                           *)
LEMMA PrefixGrows ==
    ASSUME NEW S, NEW s \in Seq(S), NEW t \in Seq(S), IsPrefixOf(s, t), Len(s) < Len(t),
           NEW x, x = t[Len(s) + 1]
    PROVE  IsPrefixOf(Append(s, x), t)
<1>. PICK n : n = Len(s) + 1
  OBVIOUS
<1>1. n \in 1 .. Len(t) /\ 1 \in 1 .. Len(t) /\ Len(t) \in Nat /\ Len(s) \in Nat
  OBVIOUS
<1>2. SubSeq(t, 1, n) = SubSeq(t, 1, n - 1) \o <<t[n]>>
  BY <1>1, SubSeqRecursiveSecond
<1>3. SubSeq(t, 1, n - 1) = s /\ x \in S
  BY <1>1 DEF IsPrefixOf
<1>4. Append(s, x) = s \o <<x>> /\ Len(Append(s, x)) = n
  BY <1>3, AppendIsConcat, AppendProperties
<1>. QED  BY <1>1, <1>2, <1>3, <1>4 DEF IsPrefixOf

(* The parts of a log that grew.                                           *)
LEMMA PartsOfAppend ==
    ASSUME NEW S, NEW s \in Seq(S), NEW x \in S
    PROVE  /\ \A i \in 1 .. Len(s) : SubSeq(Append(s, x), 1, i - 1) = SubSeq(s, 1, i - 1)
           /\ SubSeq(Append(s, x), 1, Len(s)) = s
<1>1. Append(s, x) = s \o <<x>> /\ <<x>> \in Seq(S) /\ Len(s) \in Nat
  BY AppendIsConcat
<1>2. ASSUME NEW n \in 0 .. Len(s) PROVE SubSeq(Append(s, x), 1, n) = SubSeq(s, 1, n)
  <2>1. CASE n = 0
    BY <2>1, SubSeqEmpty
  <2>2. CASE n # 0
    <3>1. n \in 1 .. Len(s) /\ 1 \in 1 .. Len(s)
      BY <1>1, <2>2
    <3>. QED  BY <1>1, <3>1, SubSeqOfConcat1
  <2>. QED  BY <2>1, <2>2
<1>3. SubSeq(s, 1, Len(s)) = s
  BY SubSeqFull
<1>4. \A i \in 1 .. Len(s) : i - 1 \in 0 .. Len(s)
  BY <1>1
<1>5. Len(s) \in 0 .. Len(s)
  BY <1>1
<1>. QED  BY <1>2, <1>3, <1>4, <1>5

(* What the agent has once decided stays.                                  *)
Remembers == \A h \in DOMAIN memo : h \in DOMAIN memo' /\ memo'[h] = memo[h]

(* The agent that decides remembers it, and what it decided before.        *)
LEMMA DecideRemembers ==
    ASSUME NEW r, Decide(r)
    PROVE  Remembers /\ log \in DOMAIN memo' /\ memo'[log] = r
BY DEF Decide, Remembers

(* What was followed stays followed while the memo only grows.             *)
LEMMA FollowedStays ==
    ASSUME NEW past, Followed(past), Remembers
    PROVE  Followed(past)'
BY DEF Followed, Remembers

(* A log stays what the memo says when the next request is what it says.   *)
LEMMA FollowedGrows ==
    ASSUME NEW past \in Log, Followed(past), Remembers,
           NEW r \in Requests, NEW v \in Views, past \in DOMAIN memo', memo'[past] = r
    PROVE  Followed(Append(past, <<r, v>>))'
<1>. PICK more, S : more = Append(past, <<r, v>>) /\ S = Requests \X Views
  OBVIOUS
<1>1. past \in Seq(S) /\ <<r, v>> \in S
  BY DEF Log
<1>2. /\ Len(past) \in Nat /\ DOMAIN past = 1 .. Len(past) /\ DOMAIN more = 1 .. Len(past) + 1
      /\ \A i \in 1 .. Len(past) : more[i] = past[i]
      /\ more[Len(past) + 1] = <<r, v>>
  BY <1>1
<1>3. /\ \A i \in 1 .. Len(past) : SubSeq(more, 1, i - 1) = SubSeq(past, 1, i - 1)
      /\ SubSeq(more, 1, Len(past)) = past
  BY <1>1, PartsOfAppend
<1>4. ASSUME NEW i \in DOMAIN more
      PROVE  SubSeq(more, 1, i - 1) \in DOMAIN memo' /\ memo'[SubSeq(more, 1, i - 1)] = more[i][1]
  <2>1. CASE i \in 1 .. Len(past)
    <3>. PICK h : h = SubSeq(past, 1, i - 1)
      OBVIOUS
    <3>1. h \in DOMAIN memo /\ memo[h] = past[i][1]
      BY <1>2, <2>1 DEF Followed
    <3>2. SubSeq(more, 1, i - 1) = h /\ more[i] = past[i]
      BY <1>2, <1>3, <2>1
    <3>3. h \in DOMAIN memo' /\ memo'[h] = memo[h]
      BY <3>1 DEF Remembers
    <3>. QED  BY <3>1, <3>2, <3>3
  <2>2. CASE i = Len(past) + 1
    <3>1. i - 1 = Len(past) /\ more[i][1] = r
      BY <1>2, <2>2
    <3>. QED  BY <1>3, <3>1
  <2>. QED  BY <1>2, <2>1, <2>2
<1>. QED  BY <1>4 DEF Followed

(* A log stays rebuildable when the answer seen is what is stored.         *)
LEMMA RebuildsGrows ==
    ASSUME NEW past \in Log, NEW e, Rebuilds(e, past), NEW r, NEW v, Answers(e, <<r, v>>)
    PROVE  Rebuilds(e, Append(past, <<r, v>>))
<1>. PICK more : more = Append(past, <<r, v>>)
  OBVIOUS
<1>1. past \in Seq(Requests \X Views)
  BY DEF Log
<1>2. /\ Len(past) \in Nat /\ DOMAIN past = 1 .. Len(past) /\ DOMAIN more = 1 .. Len(past) + 1
      /\ \A i \in 1 .. Len(past) : more[i] = past[i]
      /\ more[Len(past) + 1] = <<r, v>>
  BY <1>1
<1>3. ASSUME NEW i \in DOMAIN more PROVE Answers(e, more[i])
  <2>1. CASE i \in 1 .. Len(past)
    BY <1>2, <2>1 DEF Rebuilds
  <2>2. CASE i = Len(past) + 1
    BY <1>2, <2>2
  <2>. QED  BY <1>2, <2>1, <2>2
<1>. QED  BY <1>3 DEF Rebuilds

(* The record of the file is kept by every step that leaves it.            *)
LEMMA RefKept ==
    ASSUME RefRebuilds, Remembers, ref' = ref, disk' = disk PROVE RefRebuilds'
<1>. PICK r, d : r = ref /\ d = disk
  OBVIOUS
<1>. SUFFICES ASSUME r.valid, r.clean
              PROVE  /\ Followed(r.log)' /\ Rebuilds(d, r.log)
                     /\ r.log \in DOMAIN memo' /\ memo'[r.log] = "end"
  BY DEF RefRebuilds
<1>1. /\ Followed(r.log) /\ Rebuilds(d, r.log)
      /\ r.log \in DOMAIN memo /\ memo[r.log] = "end"
  BY DEF RefRebuilds
<1>2. Followed(r.log)'
  BY <1>1, FollowedStays
<1>. QED  BY <1>1, <1>2 DEF Remembers

(* A replay that is asked for something asks what the run asked next.      *)
LEMMA NextAsked ==
    ASSUME PaidInv, ExactInv, ReplayAssumption, NEW r \in Requests, Decide(r),
           mode = "replay", ref.valid, ref.clean
    PROVE  /\ Len(log) < Len(ref.log) /\ ref.log[Len(log) + 1][1] = r
           /\ Answers(entries, ref.log[Len(log) + 1])
           /\ ref.log[Len(log) + 1] \in Requests \X Views
<1>. PICK s, t : s = log /\ t = ref.log
  OBVIOUS
<1>1. s \in Seq(Requests \X Views) /\ t \in Seq(Requests \X Views)
  BY DEF PaidInv, TypeOK, Log
<1>2. pc = "ask" /\ (log \in DOMAIN memo => memo[log] = r)
  BY DEF Decide
<1>3. IsPrefixOf(s, t) /\ entries = disk
  BY <1>2 DEF ExactInv, ReplayExact, ReplaysFile
<1>4. Followed(t) /\ Rebuilds(disk, t) /\ t \in DOMAIN memo /\ memo[t] = "end"
  BY DEF ExactInv, RefRebuilds
<1>5. Len(s) \in Nat /\ Len(t) \in Nat /\ Len(s) <= Len(t) /\ s = SubSeq(t, 1, Len(s))
  BY <1>1, <1>3 DEF IsPrefixOf
<1>6. Len(s) # Len(t)
  <2>1. SubSeq(t, 1, Len(t)) = t
    BY <1>1, SubSeqFull
  <2>. QED  BY <1>2, <1>4, <1>5, <2>1 DEF ReplayAssumption
<1>. PICK n : n = Len(s) + 1
  OBVIOUS
<1>7. n \in DOMAIN t /\ n - 1 = Len(s)
  BY <1>1, <1>5, <1>6
<1>8. t[n][1] = r
  <2>1. SubSeq(t, 1, n - 1) \in DOMAIN memo /\ memo[SubSeq(t, 1, n - 1)] = t[n][1]
    BY <1>4, <1>7 DEF Followed
  <2>2. SubSeq(t, 1, n - 1) = s
    BY <1>5, <1>7
  <2>. QED  BY <1>2, <2>1, <2>2
<1>9. Answers(disk, t[n]) /\ t[n] \in Requests \X Views
  BY <1>1, <1>4, <1>7 DEF Rebuilds
<1>. QED  BY <1>3, <1>5, <1>6, <1>8, <1>9

(* A run that sees an answer, live or from the file.                       *)
LEMMA SeesKeeps ==
    ASSUME PaidInv, ExactInv, ReplayAssumption, NEW r \in Requests, NEW v \in Views, Sees(r, v),
           Remembers, log \in DOMAIN memo', memo'[log] = r, mode' = mode, ref' = ref, RefRebuilds',
           mode = "auto" /\ clean' =>
               pc # "idle" /\ clean /\ entries' = entries /\ Answers(entries, <<r, v>>),
           mode = "replay" =>
               Decide(r) /\ entries' = entries /\ disk' = disk /\ Answers(entries, <<r, v>>)
    PROVE  ExactInv'
<1>. PICK past, more : past = log /\ more = Append(log, <<r, v>>)
  OBVIOUS
<1>1. log' = more /\ pc' = "ask"
  BY DEF Sees
<1>2. past \in Log /\ ref.log \in Log
  BY DEF PaidInv, TypeOK
<1>3. Followed(log)'
  <2>1. Followed(past)
    BY DEF ExactInv
  <2>2. Followed(more)'
    BY <1>2, <2>1, FollowedGrows
  <2>. QED  BY <1>1, <2>2 DEF Followed
<1>4. CallDecided'
  BY <1>1 DEF CallDecided
<1>5. RunRebuilds'
  <2>. SUFFICES ASSUME mode' = "auto", clean' PROVE Rebuilds(entries', more)
    BY <1>1 DEF RunRebuilds
  <2>1. Rebuilds(entries, past) /\ Answers(entries, <<r, v>>) /\ entries' = entries
    BY DEF ExactInv, RunRebuilds
  <2>. QED  BY <1>2, <2>1, RebuildsGrows
<1>6. ReplaysFile'
  BY <1>1 DEF ExactInv, ReplaysFile, Decide
<1>7. ReplayExact'
  <2>. SUFFICES ASSUME mode = "replay", ref.valid, ref.clean PROVE IsPrefixOf(more, ref.log)
    BY <1>1 DEF ReplayExact
  <2>. PICK t, n : t = ref.log /\ n = Len(past) + 1
    OBVIOUS
  <2>1. /\ Len(past) < Len(t) /\ t[n][1] = r /\ Answers(entries, t[n])
        /\ t[n] \in Requests \X Views
    BY NextAsked
  <2>2. t[n] = <<t[n][1], t[n][2]>>
    BY <2>1
  <2>3. t[n][2] = v
    BY <2>1 DEF Answers
  <2>4. IsPrefixOf(past, t)
    BY DEF ExactInv, ReplayExact, Decide
  <2>5. past \in Seq(Requests \X Views) /\ t \in Seq(Requests \X Views)
    BY <1>2 DEF Log
  <2>6. t[n] = <<r, v>>
    BY <2>1, <2>2, <2>3
  <2>. QED  BY <2>1, <2>4, <2>5, <2>6, PrefixGrows
<1>. QED  BY <1>3, <1>4, <1>5, <1>6, <1>7 DEF ExactInv

(* A run that an exception ends; a replay of a clean record never is one.  *)
LEMMA RaiseKeeps ==
    ASSUME ExactInv, Remembers, pc # "idle", pc' = "raised", log' = log, mode' = mode,
           ref' = ref, disk' = disk, clean' => clean /\ entries' = entries,
           mode = "replay" => entries' = entries /\ ~ (ref.valid /\ ref.clean)
    PROVE  ExactInv'
<1>1. Followed(log)'
  <2>. PICK past : past = log
    OBVIOUS
  <2>1. Followed(past)'
    BY FollowedStays DEF ExactInv
  <2>. QED  BY <2>1 DEF Followed
<1>2. CallDecided' /\ RunRebuilds' /\ ReplaysFile' /\ ReplayExact'
  BY DEF ExactInv, CallDecided, RunRebuilds, Rebuilds, Answers, ReplaysFile, ReplayExact
<1>3. RefRebuilds'
  BY RefKept DEF ExactInv
<1>. QED  BY <1>1, <1>2, <1>3 DEF ExactInv

(* A run that is over leaves the record of the file.                       *)
LEMMA IdleKeeps ==
    ASSUME ExactInv, Remembers, pc' = "idle", log' = log, RefRebuilds'
    PROVE  ExactInv'
<1>1. Followed(log)'
  <2>. PICK past : past = log
    OBVIOUS
  <2>1. Followed(past)'
    BY FollowedStays DEF ExactInv
  <2>. QED  BY <2>1 DEF Followed
<1>. QED  BY <1>1 DEF ExactInv, CallDecided, RunRebuilds, ReplaysFile, ReplayExact

(* A run starts with nothing seen.                                         *)
LEMMA StartExact ==
    ASSUME PaidInv, ExactInv, NEW m \in Modes, NEW a \in BOOLEAN, Start(m, a)
    PROVE  ExactInv'
<1>1. log' = << >> /\ pc' = "ask" /\ DOMAIN log' = {} /\ entries' = disk' /\ ref' = ref
  BY DEF Start, Loaded
<1>2. Followed(log)' /\ CallDecided' /\ RunRebuilds' /\ ReplaysFile'
  BY <1>1 DEF Followed, CallDecided, RunRebuilds, Rebuilds, ReplaysFile
<1>3. RefRebuilds'
  <2>1. Remembers
    BY DEF Start, Remembers
  <2>. QED  BY <2>1, RefKept DEF Start, ExactInv
<1>4. ReplayExact'
  <2>1. Len(ref.log) \in Nat /\ Len(<< >>) = 0
    BY DEF PaidInv, TypeOK, Log
  <2>2. SubSeq(ref.log, 1, 0) = << >>
    BY SubSeqEmpty
  <2>3. IsPrefixOf(<< >>, ref.log)
    BY <2>1, <2>2 DEF IsPrefixOf
  <2>. QED  BY <1>1, <2>3 DEF ReplayExact
<1>. QED  BY <1>2, <1>3, <1>4 DEF ExactInv

(* A hit sees what the file would answer again.                            *)
LEMMA HitExact ==
    ASSUME PaidInv, ExactInv, ReplayAssumption, NEW r \in Requests, Hit(r) PROVE ExactInv'
<1>1. Decide(r) /\ pc = "ask" /\ Sees(r, Rebuilt(entries[r]))
      /\ UNCHANGED <<entries, disk, mode, clean, ref>>
  BY DEF Hit, Decide
<1>2. Remembers /\ log \in DOMAIN memo' /\ memo'[log] = r
  BY <1>1, DecideRemembers
<1>3. entries[r] \in Outcomes
  BY DEF Hit, Served, PaidInv, TypeOK, Entries
<1>4. Rebuilt(entries[r]) \in Views /\ Answers(entries, <<r, Rebuilt(entries[r])>>)
  BY <1>3 DEF Rebuilt, Views, Outcomes, Answers
<1>5. RefRebuilds'
  BY <1>1, <1>2, RefKept DEF ExactInv
<1>. QED  BY <1>1, <1>2, <1>4, <1>5, SeesKeeps

(* A replay is refused only where the run was too: a helper's.             *)
LEMMA RefuseExact ==
    ASSUME PaidInv, ExactInv, ReplayAssumption, NEW r \in Requests, Refuse(r) PROVE ExactInv'
<1>1. Decide(r) /\ pc = "ask" /\ UNCHANGED <<entries, disk, mode, clean, ref>>
  BY DEF Refuse, Decide
<1>2. Remembers /\ log \in DOMAIN memo' /\ memo'[log] = r
  BY <1>1, DecideRemembers
<1>3. mode \in {"auto", "replay"} => entries[r] = "absent"
  BY DEF Refuse, Served
<1>4. CASE KindOf[r] = "helper"
  <2>1. Sees(r, "fallback") /\ "fallback" \in Views
    BY <1>4 DEF Refuse, Views
  <2>2. mode \in {"auto", "replay"} => Answers(entries, <<r, "fallback">>)
    BY <1>3, <1>4 DEF Answers
  <2>3. RefRebuilds'
    BY <1>1, <1>2, RefKept DEF ExactInv
  <2>. QED  BY <1>1, <1>2, <2>1, <2>2, <2>3, SeesKeeps
<1>5. CASE KindOf[r] # "helper"
  <2>1. pc' = "raised" /\ log' = log
    BY <1>5 DEF Refuse
  <2>2. mode = "replay" => ~ (ref.valid /\ ref.clean)
    <3>. SUFFICES ASSUME mode = "replay", ref.valid, ref.clean PROVE FALSE
      OBVIOUS
    <3>. PICK seen : seen = ref.log[Len(log) + 1]
      OBVIOUS
    <3>1. seen[1] = r /\ Answers(entries, seen)
      BY <1>1, NextAsked
    <3>. QED  BY <1>3, <1>5, <3>1 DEF Answers
  <2>. QED  BY <1>1, <1>2, <2>1, <2>2, RaiseKeeps
<1>. QED  BY <1>4, <1>5

(* A call is of a request without an entry.                                *)
LEMMA CallExact ==
    ASSUME PaidInv, ExactInv, ReplayAssumption, NEW r \in Requests, NEW o \in Possible(r),
           Call(r, o)
    PROVE  ExactInv'
<1>1. /\ Decide(r) /\ pc = "ask" /\ pc' = "answered" /\ mode # "replay"
      /\ UNCHANGED <<entries, disk, mode, log, ref>> /\ clean' = (clean /\ o # "truncated")
      /\ call'.request = r /\ call'.outcome = o
  BY DEF Call, Decide
<1>2. Remembers /\ log \in DOMAIN memo' /\ memo'[log] = r
  BY <1>1, DecideRemembers
<1>3. mode = "auto" => entries[r] = "absent"
  BY DEF Call, Served
<1>4. Followed(log)'
  <2>. PICK past : past = log
    OBVIOUS
  <2>1. Followed(past)'
    BY <1>2, FollowedStays DEF ExactInv
  <2>. QED  BY <1>1, <2>1 DEF Followed
<1>5. CallDecided'
  BY <1>1, <1>2, <1>3 DEF CallDecided
<1>6. RunRebuilds'
  BY <1>1 DEF ExactInv, RunRebuilds, Rebuilds, Answers
<1>7. RefRebuilds'
  BY <1>1, <1>2, RefKept DEF ExactInv
<1>8. ReplaysFile' /\ ReplayExact'
  BY <1>1 DEF ReplaysFile, ReplayExact
<1>. QED  BY <1>4, <1>5, <1>6, <1>7, <1>8 DEF ExactInv

(* In a clean auto run only a helper's failed model leaves no entry.       *)
LEMMA UnrecordedExact ==
    ASSUME PaidInv, ExactInv, ReplayAssumption, Unrecorded PROVE ExactInv'
<1>. PICK r, v : r = call.request /\ v = Seen(call.request, call.outcome)
  OBVIOUS
<1>1. pc = "answered" /\ UNCHANGED <<entries, disk, mode, memo, clean, ref>>
  BY DEF Unrecorded
<1>2. /\ log \in DOMAIN memo /\ memo[log] = r /\ mode # "replay"
      /\ mode = "auto" => entries[r] = "absent"
  BY <1>1 DEF ExactInv, CallDecided
<1>3. Remembers
  BY <1>1 DEF Remembers
<1>4. CASE KindOf[r] = "answer" /\ call.outcome = "error"
  <2>1. pc' = "raised" /\ log' = log
    BY <1>4 DEF Unrecorded
  <2>. QED  BY <1>1, <1>2, <1>3, <2>1, RaiseKeeps
<1>5. CASE ~ (KindOf[r] = "answer" /\ call.outcome = "error")
  <2>1. Sees(r, v)
    BY <1>5 DEF Unrecorded
  <2>2. r \in Requests /\ v \in Views
    BY <1>1, Answered
  <2>3. mode = "auto" => Answers(entries, <<r, v>>)
    <3>. SUFFICES ASSUME mode = "auto" PROVE Answers(entries, <<r, v>>)
      OBVIOUS
    <3>1. call.outcome = "error" /\ KindOf[r] # "tool"
      BY DEF Unrecorded, Responded
    <3>2. KindOf[r] = "helper"
      BY <1>5, <2>2, <3>1 DEF ReplayAssumption
    <3>3. v = "fallback"
      BY <3>1, <3>2 DEF Seen
    <3>. QED  BY <1>2, <3>2, <3>3 DEF Answers
  <2>4. RefRebuilds'
    BY <1>1, <1>3, RefKept DEF ExactInv
  <2>. QED  BY <1>1, <1>2, <1>3, <2>1, <2>2, <2>3, <2>4, SeesKeeps
<1>. QED  BY <1>4, <1>5

(* A new entry contradicts nothing a run that stays clean has seen.        *)
LEMMA StoreExact ==
    ASSUME PaidInv, ExactInv, ReplayAssumption, Store PROVE ExactInv'
<1>. PICK r, o, past : r = call.request /\ o = call.outcome /\ past = log
  OBVIOUS
<1>1. /\ pc = "answered" /\ pc' = "writing" /\ entries' = [entries EXCEPT ![r] = o]
      /\ UNCHANGED <<mode, call, log, memo>> /\ ref' = NoRef
      /\ clean' = (clean /\ \A i \in DOMAIN past : past[i] # <<r, "fallback">>)
  BY DEF Store, Stores
<1>2. /\ past \in DOMAIN memo /\ memo[past] = r /\ mode # "replay"
      /\ clean => o # "truncated"
      /\ mode = "auto" => entries[r] = "absent"
  BY <1>1 DEF ExactInv, CallDecided
<1>3. r \in Requests /\ entries \in Entries /\ past \in Seq(Requests \X Views)
  BY <1>1 DEF PaidInv, TypeOK, Log
<1>4. entries'[r] = o /\ \A q \in Requests \ {r} : entries'[q] = entries[q]
  BY <1>1, <1>3 DEF Entries
<1>5. Followed(log)'
  BY <1>1 DEF ExactInv, Followed
<1>6. CallDecided'
  BY <1>1, <1>2, <1>4 DEF CallDecided, NoRef
<1>7. RunRebuilds'
  <2>. SUFFICES ASSUME mode = "auto", clean', NEW i \in DOMAIN past
                PROVE  Answers(entries', past[i])
    BY <1>1 DEF RunRebuilds, Rebuilds
  <2>1. Answers(entries, past[i]) /\ entries[r] = "absent"
    BY <1>1, <1>2 DEF ExactInv, RunRebuilds, Rebuilds
  <2>2. past[i] \in Requests \X Views
    BY <1>3
  <2>3. past[i][1] # r
    <3>. SUFFICES ASSUME past[i][1] = r PROVE FALSE
      OBVIOUS
    <3>1. past[i][2] = "fallback"
      BY <2>1 DEF Answers
    <3>2. past[i] = <<r, "fallback">>
      BY <2>2, <3>1
    <3>. QED  BY <1>1, <3>2
  <2>4. entries'[past[i][1]] = entries[past[i][1]]
    BY <1>4, <2>2, <2>3
  <2>. QED  BY <2>1, <2>4 DEF Answers
<1>8. RefRebuilds' /\ ReplaysFile' /\ ReplayExact'
  BY <1>1, <1>2 DEF RefRebuilds, ReplaysFile, ReplayExact, NoRef
<1>. QED  BY <1>5, <1>6, <1>7, <1>8 DEF ExactInv

(* The response is seen as it was stored, unless the page was cut.         *)
LEMMA SaveExact ==
    ASSUME PaidInv, ExactInv, ReplayAssumption, Save PROVE ExactInv'
<1>. PICK r, o : r = call.request /\ o = call.outcome
  OBVIOUS
<1>1. pc = "writing" /\ Sees(r, o) /\ UNCHANGED <<entries, mode, memo, clean, ref>>
  BY DEF Save
<1>2. /\ log \in DOMAIN memo /\ memo[log] = r /\ mode # "replay"
      /\ clean => o # "truncated"
      /\ entries[r] = o /\ ~ ref.valid
  BY <1>1 DEF ExactInv, CallDecided
<1>3. r \in Requests /\ o \in Views /\ o \in Outcomes
  BY <1>1, Answered DEF PaidInv, TypeOK
<1>4. clean => Answers(entries, <<r, o>>)
  BY <1>2, <1>3 DEF Answers, Rebuilt, Outcomes
<1>5. Remembers /\ RefRebuilds'
  BY <1>1, <1>2 DEF Remembers, RefRebuilds
<1>. QED  BY <1>1, <1>2, <1>3, <1>4, <1>5, SeesKeeps

(* A run whose write failed is no clean one.                               *)
LEMMA SaveFailsExact ==
    ASSUME PaidInv, ExactInv, ReplayAssumption, SaveFails PROVE ExactInv'
<1>. PICK r, v : r = call.request /\ v = Seen(call.request, "error")
  OBVIOUS
<1>1. /\ pc \in {"answered", "writing"} /\ clean' = FALSE
      /\ UNCHANGED <<disk, mode, memo, ref>>
  BY DEF SaveFails, Stores
<1>2. log \in DOMAIN memo /\ memo[log] = r /\ mode # "replay" /\ Remembers
  BY <1>1 DEF ExactInv, CallDecided, Remembers
<1>3. RefRebuilds'
  BY <1>1, <1>2, RefKept DEF ExactInv
<1>4. CASE KindOf[r] = "answer"
  <2>1. pc' = "raised" /\ log' = log
    BY <1>4 DEF SaveFails
  <2>. QED  BY <1>1, <1>2, <2>1, RaiseKeeps
<1>5. CASE KindOf[r] # "answer"
  <2>1. Sees(r, v)
    BY <1>5 DEF SaveFails
  <2>2. r \in Requests /\ v \in Views
    BY <1>1, Answered
  <2>. QED  BY <1>1, <1>2, <1>3, <2>1, <2>2, SeesKeeps
<1>. QED  BY <1>4, <1>5

(* A completed auto run becomes the record of the file.                    *)
LEMMA FinishExact ==
    ASSUME ExactInv, Finish PROVE ExactInv'
<1>. PICK past : past = log
  OBVIOUS
<1>1. Decide("end") /\ pc = "ask" /\ pc' = "idle" /\ log' = log /\ disk' = disk
  BY DEF Finish, Decide, cache
<1>2. Remembers /\ log \in DOMAIN memo' /\ memo'[log] = "end"
  BY <1>1, DecideRemembers
<1>3. RefRebuilds'
  <2>1. CASE mode = "auto" /\ intact /\ entries = disk
    <3>. SUFFICES ASSUME clean
                  PROVE  /\ Followed(past)' /\ Rebuilds(disk', past)
                         /\ past \in DOMAIN memo' /\ memo'[past] = "end"
      <4>1. ref'.log = past /\ ref'.clean = clean
        BY <2>1 DEF Finish
      <4>. QED  BY <4>1 DEF RefRebuilds, Followed
    <3>1. Followed(past)'
      BY <1>2, FollowedStays DEF ExactInv
    <3>. QED  BY <1>1, <1>2, <2>1, <3>1 DEF ExactInv, RunRebuilds
  <2>2. CASE ~ (mode = "auto" /\ intact /\ entries = disk)
    <3>1. ref' = ref
      BY <2>2 DEF Finish
    <3>. QED  BY <1>1, <1>2, <3>1, RefKept DEF ExactInv
  <2>. QED  BY <2>1, <2>2
<1>. QED  BY <1>1, <1>2, <1>3, IdleKeeps

(* The steps between runs, and those that end one early.                   *)
LEMMA RestExact ==
    ASSUME ExactInv, Abort \/ Crash \/ Discard \/ Terminated \/ UNCHANGED vars
    PROVE  ExactInv'
<1>1. Remembers /\ RefRebuilds'
  <2>1. UNCHANGED <<memo, ref, disk>>
    BY DEF Abort, Crash, Discard, Terminated, vars, cache
  <2>2. Remembers
    BY <2>1 DEF Remembers
  <2>. QED  BY <2>1, <2>2, RefKept DEF ExactInv
<1>2. CASE Abort \/ Crash \/ Discard
  BY <1>1, <1>2, IdleKeeps DEF Abort, Crash, Discard
<1>3. CASE Terminated \/ UNCHANGED vars
  <2>1. UNCHANGED <<entries, disk, mode, pc, call, log, memo, clean, ref>>
    BY <1>3 DEF Terminated, vars, cache
  <2>2. Followed(log)' /\ CallDecided' /\ RunRebuilds' /\ ReplaysFile' /\ ReplayExact'
    BY <2>1 DEF ExactInv, Followed, CallDecided, RunRebuilds, Rebuilds, Answers, ReplaysFile,
                ReplayExact
  <2>. QED  BY <1>1, <2>2 DEF ExactInv
<1>. QED  BY <1>2, <1>3

(* A run that replays the file of a completed auto run repeats that run    *)
(* and never misses, for any agent, any requests and any outcomes: what    *)
(* CachedProvider and _cached_or_call serve is what the run had seen,      *)
(* unless a page was cut, a write failed, or a model failed and later      *)
(* answered the same prompt.                                               *)
THEOREM ReplaysExactly == Spec => []ReplayExact
<1>1. Init => PaidInv /\ ExactInv
  <2>. SUFFICES ASSUME Init PROVE PaidInv /\ ExactInv
    OBVIOUS
  <2>1. PaidInv
    BY ReplayAssumption, PaidInit
  <2>2. log = << >> /\ DOMAIN log = {} /\ pc = "idle" /\ ~ ref.valid
    BY DEF Init, NoRef
  <2>3. ExactInv
    BY <2>2 DEF ExactInv, Followed, CallDecided, RunRebuilds, RefRebuilds, ReplaysFile, ReplayExact
  <2>. QED  BY <2>1, <2>3
<1>2. PaidInv /\ ExactInv /\ [Next]_vars => PaidInv' /\ ExactInv'
  <2>. SUFFICES ASSUME PaidInv, ExactInv, [Next]_vars PROVE ExactInv'
    BY ReplayAssumption, PaidStep
  <2>1. CASE \E m \in Modes, a \in BOOLEAN : Start(m, a)
    BY <2>1, StartExact
  <2>2. CASE \E r \in Requests : Hit(r) \/ Refuse(r) \/ (\E o \in Possible(r) : Call(r, o))
    BY <2>2, ReplayAssumption, HitExact, RefuseExact, CallExact
  <2>3. CASE Unrecorded \/ Store \/ Save \/ SaveFails
    BY <2>3, ReplayAssumption, UnrecordedExact, StoreExact, SaveExact, SaveFailsExact
  <2>4. CASE Finish
    BY <2>4, FinishExact
  <2>5. CASE Abort \/ Crash \/ Discard \/ Terminated \/ UNCHANGED vars
    BY <2>5, RestExact
  <2>. QED  BY <2>1, <2>2, <2>3, <2>4, <2>5 DEF Next
<1>3. ExactInv => ReplayExact
  BY DEF ExactInv
<1>. QED  BY <1>1, <1>2, <1>3, PTL DEF Spec

-----------------------------------------------------------------------------
(* ReplayValidation: what the run leaves behind.                           *)

Statuses == {"", "rejudgment_attempted_model_error", "rejudgment_attempted_recorded",
             "rejudgment_attempted_invalid_response_recorded_fail_closed"}
Resolutions == {"open", "still_unresolved", "requires_read", "error"} \cup Verdicts
Gaps == {"", "partial_only", "source_irrelevant", "requires_more_evidence"}
Bodies == [text : Texts, url : Urls]
ObligationType ==
    [con : Cons, url : Urls, resolution : Resolutions, status : Statuses,
     attempted : BOOLEAN, gap : Gaps, body : Bodies \cup {Nothing},
     reread : {"no", "due", "done"}]
RecordType ==
    [attempt : Nat, obls : Seq(ObligationType), bodies : SUBSET Bodies]
StrictStore == [Numbers -> Judgments \cup {Nothing}]

(* The variables of the run and its files.                                 *)
LogShape ==
    /\ phase \in {"run", "idle", "validate"}
    /\ attempt \in Nat \ {0}
    /\ obls \in Seq(ObligationType) /\ Len(obls) <= MaxObligations
    /\ bodies \in SUBSET Bodies
    /\ memory \in StrictStore
    /\ \A n \in Numbers : memory[n] # Nothing => memory[n].kind = "live"
    /\ file \in [state : {"absent", "ok", "torn"}, entries : StrictStore]
    /\ cached \in [Urls -> Texts \cup {Nothing}]
    /\ records \in Seq(RecordType)
    /\ \A r \in DOMAIN records : Len(records[r].obls) <= MaxObligations
    /\ faults \in Nat

(* An obligation has a status once it was judged, and one that is to be    *)
(* read again was judged unresolved.                                       *)
Sound(o) ==
    /\ (o.attempted = TRUE) <=> (o.status # "")
    /\ o.reread = "due" => o.resolution = "still_unresolved"

(* A verdict the run claims to have recorded is in memory.                 *)
Backed(o, n) == Sound(o) /\ (ClaimsRecord(o.status) => memory[n] # Nothing)

ObligationsBacked ==
    /\ \A i \in DOMAIN obls : Backed(obls[i], i)
    /\ \A r \in DOMAIN records : \A i \in DOMAIN records[r].obls :
          Backed(records[r].obls[i], i)

(* As long as no write fails, the file has what is in memory, but for what *)
(* a validation wrote over it.                                             *)
FileFollowsLog ==
    faults = 0 =>
        /\ file.state # "torn"
        /\ \A n \in Numbers :
              /\ memory[n] # Nothing => file.state = "ok" /\ file.entries[n] # Nothing
              /\ file.entries[n] # Nothing /\ file.entries[n].kind = "live"
                    => file.entries[n] = memory[n]

(* The obligations of a run of one attempt.                                *)
OnlyObls == IF phase = "run" THEN obls ELSE records[1].obls

OneRecord ==
    OneAttempt => IF phase = "run" THEN records = <<>>
                  ELSE Len(records) = 1 /\ records[1].attempt = 1

(* An entry of such a run is of the obligation with its number.            *)
OwnEntry(e, n) ==
    e # Nothing /\ e.kind = "live" =>
        /\ e.of = <<1, n>>
        /\ n \in DOMAIN OnlyObls /\ OnlyObls[n].status # ""

ClosureIn(resolution) ==
    IF resolution = "still_unresolved" THEN "requires_read_still_open"
    ELSE ClosureOf(resolution)

(* An obligation is as the answer left it.                                 *)
Judged(o, answer) ==
    /\ o.status # "" /\ (ClaimsRecord(o.status) => answer # "error")
    /\ ClosureIn(o.resolution) = ClosureOf(VerdictOf(answer))
    /\ answer = "error" => o.resolution = "still_unresolved"

EntriesAreOwn ==
    OneAttempt =>
        \A n \in Numbers :
            /\ OwnEntry(memory[n], n) /\ OwnEntry(file.entries[n], n)
            /\ memory[n] # Nothing =>
                  ClosureOf(memory[n].verdict) = ClosureIn(OnlyObls[n].resolution)

LogInv ==
    LogShape /\ ObligationsBacked /\ FileFollowsLog /\ OneRecord /\ EntriesAreOwn

-----------------------------------------------------------------------------
(* ReplayValidation: what a validation finds.                              *)

Sources == {"cache_read_body", "cache_search_snippet_only", "debug_snippet_only"}
Stages == BodyStages \cup {"reconstructed"}
Closures == Resolving \cup SourceTerminal
               \cup {"requires_read_still_open", "unvalidated_cache_miss"}
Ends == {"", "constraint_resolving", "source_terminal_non_support",
         "requires_read_still_open", "unverifiable"}
Origins == {"", "recorded", "live", "ruled"}
Methods == {"none", "body_id", "url_fallback"}
Reasons == {"", "judge_cache_missing", "body_not_found", "body_hash_mismatch"}
Classes == {"", "strict_version_mismatch", "read_body_id_not_found_in_manifest",
            "cache_body_hash_differs_from_manifest"}
FinalStatuses == Statuses \cup {"rejudgment_skipped_body_not_found",
                                "rejudgment_skipped_body_hash_mismatch",
                                "rejudgment_missing_invariant_violation"}
TextsOrNone == Texts \cup {Nothing}
OwnersOrNone == (Nat \X Nat) \cup {Nothing}
OutcomeType ==
    [source : Sources, stage : Stages, closure : Closures, outcome : Ends,
     from : Origins, verified : BOOLEAN, method : Methods, reason : Reasons,
     class : Classes, status : FinalStatuses, gap : Gaps, attempted : BOOLEAN,
     text : TextsOrNone, of : OwnersOrNone]

(* The places examined so far.                                             *)
Before(c) == {q \in Places : q[1] < c[1] \/ (q[1] = c[1] /\ q[2] < c[2])}

ObligationAt(p) == records[p[1]].obls[p[2]]

(* A verdict that a validation finds again in the file.                    *)
Stable(p, closure) ==
    LET o == ObligationAt(p)
        e == file.entries[p[2]]
    IN  /\ Judgeable(o)
        /\ file.state = "ok" /\ e # Nothing /\ e.con = o.con
        /\ IF e.kind = "live"
           THEN e.body \in records[1].bodies /\ e.body.text \notin Dirty
           ELSE e.body.text = BodyAt(o.url)
        /\ closure = ClosureOf(e.verdict)

(* What is true of an outcome, whatever its final status.                  *)
CleanOutcome(x) ==
    x.from = "recorded" /\ x.method = "body_id" =>
        /\ x.text \notin Dirty
        /\ \E r \in DOMAIN records : \E b \in records[r].bodies : b.text = x.text

TrueOutcome(p, x) ==
    OneAttempt /\ faults = 0 =>
        /\ x.from = "recorded" /\ x.method = "body_id" =>
              x.of = <<1, p[2]>> /\ x.closure = ClosureIn(ObligationAt(p).resolution)
        /\ x.from \in {"recorded", "live"} => Stable(p, x.closure)

OrderlyOutcome(x, live) ==
    /\ ~ live => (x.stage \in JudgedStages <=> x.from = "recorded")
    /\ x.source # "cache_read_body" => x.stage = "reconstructed"
    /\ x.closure = "requires_read_still_open" => x.stage \notin {"closed", "source_terminal"}
    /\ x.outcome = "source_terminal_non_support" => x.stage # "closed"
    /\ x.stage = "rejudgment_unverifiable" => x.class # ""
    /\ OneAttempt /\ x.verified = TRUE /\ x.method # "url_fallback"
          => x.attempted = TRUE

OutcomeOK(p, x, live) ==
    /\ x \in OutcomeType /\ x.attempted = ObligationAt(p).attempted
    /\ CleanOutcome(x) /\ TrueOutcome(p, x) /\ OrderlyOutcome(x, live)

CheckShape ==
    /\ place \in Nat \X Nat /\ place[1] > 0 /\ place[2] > 0
    /\ phase = "validate" =>
          /\ place[1] <= Len(records) + 1
          /\ place[1] <= Len(records) =>
                place[2] = 1 \/ place[2] <= Len(records[place[1]].obls)
    /\ passes \in Nat
    /\ Reported \/ phase = "validate" => passes > 0
    /\ phase = "run" => ~ Reported

(* A claim of the run that was not lost was seen when a validation began.  *)
ClaimsSeen ==
    phase = "validate" /\ faults = 0 =>
        \A p \in Places : ClaimsRecord(ObligationAt(p).status) => Present(p[2])

FoundOK ==
    phase = "validate" =>
        /\ found \in Seq(OutcomeType)
        /\ Len(found) = Cardinality(Before(place))
        /\ \A p \in Before(place) :
              /\ Index(p) \in DOMAIN found
              /\ OutcomeOK(p, found[Index(p)], tier.live)
              /\ found[Index(p)].status = ObligationAt(p).status
              /\ Reported /\ OneAttempt /\ faults = 0
                    /\ Results[p].from \in {"recorded", "live"}
                    => found[Index(p)].closure = Results[p].closure

(* The report's outcomes, with the status the final pass gave them.        *)
ReportedOK ==
    Reported =>
        /\ DOMAIN Results = Places
        /\ \A p \in Places :
              /\ OutcomeOK(p, Results[p], previous.tier.live)
              /\ faults = 0 => Results[p].status # "rejudgment_missing_invariant_violation"
              /\ OneAttempt /\ Results[p].method # "url_fallback"
                    => (Results[p].status # "" <=> Results[p].attempted = TRUE)

CheckInv == LogInv /\ CheckShape /\ ClaimsSeen /\ FoundOK /\ ReportedOK

(* Everything that is written down of the run.                             *)
LogVars == <<attempt, obls, bodies, memory, cached, records>>

(* The invariant of the log holds before the first call.                   *)
LEMMA LogInvInit == ASSUME LogAssumption PROVE LogInit => LogInv
<1>. SUFFICES ASSUME LogInit PROVE LogInv
  OBVIOUS
<1>1. NoEntries \in StrictStore /\ \A n \in Numbers : NoEntries[n] = Nothing
  BY DEF NoEntries, StrictStore
<1>2. MaxObligations \in Nat
  BY DEF LogAssumption
<1>3. LogShape
  <2>1. obls = <<>> /\ records = <<>> /\ obls \in Seq(ObligationType) /\ Len(obls) = 0
    BY DEF LogInit
  <2>2. memory = NoEntries /\ file = [state |-> "absent", entries |-> NoEntries]
    BY DEF LogInit
  <2>3. cached \in [Urls -> Texts \cup {Nothing}] /\ faults = 0
        /\ phase = "run" /\ attempt = 1 /\ bodies = {}
    BY DEF LogInit
  <2>. QED  BY <1>1, <1>2, <2>1, <2>2, <2>3 DEF LogShape
<1>4. ObligationsBacked /\ OneRecord
  BY DEF LogInit, ObligationsBacked, OneRecord
<1>5. FileFollowsLog /\ EntriesAreOwn
  BY <1>1 DEF LogInit, FileFollowsLog, EntriesAreOwn, OwnEntry
<1>. QED  BY <1>3, <1>4, <1>5 DEF LogInv

(* A re-judged obligation has a status, and its resolution is the verdict. *)
LEMMA RejudgedFacts ==
    ASSUME NEW o \in ObligationType, NEW body \in Bodies,
           NEW answer \in Verdicts \cup {"invalid", "error"},
           Sound(o), NEW x, x = Rejudged(o, body, answer)
    PROVE  /\ x \in ObligationType /\ Sound(x)
           /\ Judged(x, answer)
<1>. DEFINE closure == ClosureOf(VerdictOf(answer))
           r == IF closure = "requires_read_still_open"
                THEN "still_unresolved" ELSE VerdictOf(answer)
           g == GapOf(closure, o.gap)
           d == IF o.reread = "due" THEN "done" ELSE o.reread
<1>1. r \in Resolutions /\ d \in {"no", "done"} /\ d # "due"
  BY DEF Resolutions, VerdictOf, ObligationType
<1>2. g \in Gaps
  BY DEF GapOf, ObligationType, Gaps
<1>3. StatusOf(answer) \in Statuses /\ StatusOf(answer) # ""
  BY DEF StatusOf, Statuses
<1>4. /\ x \in ObligationType /\ x.resolution = r
      /\ x.status = StatusOf(answer) /\ x.attempted = TRUE /\ x.reread = d
  <2>. HIDE DEF r, g, d, closure
  <2>1. x = [o EXCEPT !.body = body, !.attempted = TRUE,
                  !.status = StatusOf(answer),
                  !.reread = d, !.gap = g, !.resolution = r]
    BY DEF Rejudged, r, g, d, closure
  <2>. QED  BY <1>1, <1>2, <1>3, <2>1, ZenonT(60) DEF ObligationType
<1>5. ClaimsRecord(StatusOf(answer)) => answer # "error"
  BY DEF StatusOf, ClaimsRecord
<1>6. ClosureIn(r) = closure
  BY DEF ClosureIn, ClosureOf
<1>7. answer = "error" => r = "still_unresolved"
  BY DEF ClosureOf, VerdictOf
<1>. HIDE DEF r, g, d
<1>. QED  BY <1>1, <1>3, <1>4, <1>5, <1>6, <1>7 DEF Sound, Judged

(* A new obligation.                                                       *)
LEMMA RegisterLog ==
    ASSUME LogAssumption, LogInv, NEW u \in Urls, NEW con \in Cons, Register(u, con)
    PROVE  LogInv'
<1>. DEFINE o == [con |-> con, url |-> u, resolution |-> "open",
                  status |-> "", attempted |-> FALSE, gap |-> "",
                  body |-> Nothing, reread |-> "no"]
<1>1. /\ phase = "run" /\ Len(obls) < MaxObligations /\ obls' = Append(obls, o)
      /\ UNCHANGED <<phase, attempt, bodies, memory, file, cached, records, faults>>
  BY DEF Register
<1>2. o \in ObligationType /\ Backed(o, Len(obls) + 1)
  BY DEF ObligationType, Resolutions, Statuses, Gaps, Backed, Sound, ClaimsRecord
<1>3. obls \in Seq(ObligationType) /\ Len(obls) \in Nat
  BY DEF LogInv, LogShape
<1>. HIDE DEF o
<1>4. /\ obls' \in Seq(ObligationType) /\ Len(obls') = Len(obls) + 1
      /\ DOMAIN obls = 1 .. Len(obls) /\ DOMAIN obls' = 1 .. Len(obls) + 1
      /\ \A i \in DOMAIN obls : obls'[i] = obls[i]
      /\ obls'[Len(obls) + 1] = o
  BY <1>1, <1>2, <1>3
<1>5. LogShape'
  <2>1. Len(obls') <= MaxObligations
    BY <1>1, <1>3, <1>4 DEF LogAssumption
  <2>. QED  BY <1>1, <1>4, <2>1 DEF LogInv, LogShape, Numbers, StrictStore
<1>6. ObligationsBacked'
  BY <1>1, <1>2, <1>3, <1>4 DEF LogInv, ObligationsBacked, Backed
<1>7. FileFollowsLog' /\ OneRecord'
  BY <1>1 DEF LogInv, FileFollowsLog, OneRecord, OneAttempt, Numbers
<1>8. EntriesAreOwn'
  <2>. SUFFICES ASSUME OneAttempt, NEW n \in Numbers
                PROVE  /\ OwnEntry(memory[n], n)' /\ OwnEntry(file.entries[n], n)'
                       /\ memory[n] # Nothing =>
                            ClosureOf(memory[n].verdict) = ClosureIn(OnlyObls'[n].resolution)
    BY <1>1 DEF EntriesAreOwn, OneAttempt, Numbers
  <2>1. OnlyObls = obls /\ OnlyObls' = obls'
    BY <1>1 DEF OnlyObls
  <2>2. /\ OwnEntry(memory[n], n) /\ OwnEntry(file.entries[n], n)
        /\ memory[n] # Nothing =>
              ClosureOf(memory[n].verdict) = ClosureIn(OnlyObls[n].resolution)
        /\ memory[n] # Nothing => memory[n].kind = "live"
    BY DEF LogInv, EntriesAreOwn, LogShape
  <2>3. \A i \in DOMAIN OnlyObls : i \in DOMAIN OnlyObls' /\ OnlyObls'[i] = OnlyObls[i]
    BY <1>3, <1>4, <2>1
  <2>4. OwnEntry(memory[n], n)' /\ OwnEntry(file.entries[n], n)'
    BY <1>1, <2>2, <2>3 DEF OwnEntry
  <2>. QED  BY <2>2, <2>3, <2>4 DEF OwnEntry
<1>. QED  BY <1>5, <1>6, <1>7, <1>8 DEF LogInv

(* A re-read that is due.                                                  *)
LEMMA ScheduleLog ==
    ASSUME LogAssumption, LogInv, NEW j \in Numbers, ScheduleReread(j)
    PROVE  LogInv'
<1>. DEFINE o == [obls[j] EXCEPT !.reread = "due"]
<1>1. /\ phase = "run" /\ j \in DOMAIN obls
      /\ obls[j].resolution = "still_unresolved"
      /\ obls' = [obls EXCEPT ![j] = o]
      /\ UNCHANGED <<phase, attempt, bodies, memory, file, cached, records, faults>>
  BY DEF ScheduleReread
<1>2. obls \in Seq(ObligationType) /\ Len(obls) \in Nat /\ DOMAIN obls = 1 .. Len(obls)
      /\ obls[j] \in ObligationType
  BY <1>1 DEF LogInv, LogShape
<1>3. Backed(obls[j], j)
  BY <1>1 DEF LogInv, ObligationsBacked
<1>4. /\ o \in ObligationType /\ Backed(o, j)
      /\ o.status = obls[j].status /\ o.resolution = obls[j].resolution
  <2>1. o \in ObligationType /\ o.status = obls[j].status
        /\ o.resolution = obls[j].resolution /\ o.attempted = obls[j].attempted
    BY <1>2 DEF ObligationType
  <2>. HIDE DEF o
  <2>. QED  BY <1>1, <1>3, <2>1 DEF Backed, Sound
<1>. HIDE DEF o
<1>5. /\ obls' \in Seq(ObligationType) /\ Len(obls') = Len(obls)
      /\ DOMAIN obls' = DOMAIN obls
      /\ \A i \in DOMAIN obls : obls'[i] = IF i = j THEN o ELSE obls[i]
  BY <1>1, <1>2, <1>4
<1>6. LogShape'
  BY <1>1, <1>5 DEF LogInv, LogShape, Numbers, StrictStore
<1>7. ObligationsBacked'
  BY <1>1, <1>4, <1>5 DEF LogInv, ObligationsBacked, Backed
<1>8. FileFollowsLog' /\ OneRecord'
  BY <1>1 DEF LogInv, FileFollowsLog, OneRecord, OneAttempt, Numbers
<1>9. EntriesAreOwn'
  <2>. SUFFICES ASSUME OneAttempt, NEW n \in Numbers
                PROVE  /\ OwnEntry(memory[n], n)' /\ OwnEntry(file.entries[n], n)'
                       /\ memory[n] # Nothing =>
                            ClosureOf(memory[n].verdict) = ClosureIn(OnlyObls'[n].resolution)
    BY <1>1 DEF EntriesAreOwn, OneAttempt, Numbers
  <2>1. OnlyObls = obls /\ OnlyObls' = obls'
    BY <1>1 DEF OnlyObls
  <2>2. /\ OwnEntry(memory[n], n) /\ OwnEntry(file.entries[n], n)
        /\ memory[n] # Nothing =>
              ClosureOf(memory[n].verdict) = ClosureIn(OnlyObls[n].resolution)
        /\ memory[n] # Nothing => memory[n].kind = "live"
    BY DEF LogInv, EntriesAreOwn, LogShape
  <2>. QED  BY <1>1, <1>4, <1>5, <2>1, <2>2 DEF OwnEntry
<1>. QED  BY <1>6, <1>7, <1>8, <1>9 DEF LogInv

(* What a write leaves in the file: every entry is an old one or a new one *)
(* of the file or of memory, and without a failure the file has them all.  *)
LEMMA DumpFacts ==
    ASSUME NEW written \in SUBSET Numbers, NEW stored \in StrictStore,
           memory \in StrictStore, MaxObligations \in Nat, faults \in Nat,
           file \in [state : {"absent", "ok", "torn"}, entries : StrictStore],
           \A n \in Numbers \ written : stored[n] = memory[n],
           Dump(written, stored)
    PROVE  /\ file' \in [state : {"absent", "ok", "torn"}, entries : StrictStore]
           /\ faults' \in Nat
           /\ \A n \in Numbers : file'.entries[n] \in
                 {file.entries[n], Nothing, memory[n], stored[n]}
           /\ faults' = 0 => /\ faults = 0
                             /\ IF written = {} THEN file' = file
                                ELSE file'.state = "ok" /\ file'.entries = stored
<1>1. CASE written = {}
  BY <1>1 DEF Dump
<1>2. ASSUME NEW upTo PROVE
          LET f == Written(written, upTo, stored)
          IN  /\ f \in [state : {"absent", "ok", "torn"}, entries : StrictStore]
              /\ f.state = "ok"
              /\ \A n \in Numbers : f.entries[n] = IF n \in written /\ n <= upTo
                                                   THEN stored[n] ELSE memory[n]
  BY DEF Written, StrictStore
<1>3. CASE written # {} /\ file' = Written(written, MaxObligations, stored)
           /\ UNCHANGED faults
  <2>1. \A n \in Numbers : file'.entries[n] = stored[n]
    BY <1>2, <1>3 DEF Numbers
  <2>2. file'.entries = stored
    BY <1>2, <1>3, <2>1 DEF StrictStore
  <2>. QED  BY <1>2, <1>3, <2>1, <2>2
<1>4. CASE faults' = faults + 1 /\ file' \in {file, Torn}
  <2>1. Torn.entries \in StrictStore /\ \A n \in Numbers : Torn.entries[n] = Nothing
    BY DEF Torn, NoEntries, StrictStore
  <2>2. Torn \in [state : {"absent", "ok", "torn"}, entries : StrictStore]
    BY <2>1 DEF Torn
  <2>. QED  BY <1>4, <2>1, <2>2
<1>5. CASE /\ faults' = faults + 1
           /\ \E upTo \in written : file' = Written(written, upTo, stored)
  <2>1. PICK upTo \in written : file' = Written(written, upTo, stored)
    BY <1>5
  <2>. QED  BY <1>2, <1>5, <2>1
<1>. QED  BY <1>1, <1>3, <1>4, <1>5 DEF Dump

(* A read arrives and is judged.                                           *)
LEMMA RouteLog ==
    ASSUME LogAssumption, LogInv, NEW u \in Urls, NEW t \in Texts, Route(u, t)
    PROVE  LogInv'
<1>. DEFINE routed == OpenFor(u)
           body == [text |-> t, url |-> u]
<1>1. /\ phase = "run" /\ UNCHANGED <<phase, attempt, records>>
      /\ cached' = [cached EXCEPT ![u] = Longer(u, t)]
      /\ bodies' = Registered(routed, body)
  BY DEF Route
<1>2. PICK answer \in [routed -> Verdicts \cup {"invalid", "error"}] :
         LET written == {i \in routed : answer[i] # "error"}
             stored == [n \in Numbers |-> IF n \in written
                                           THEN Entry(n, body, answer[n]) ELSE memory[n]]
         IN  /\ obls' = [i \in DOMAIN obls |-> IF i \in routed
                                               THEN Rejudged(obls[i], body, answer[i])
                                               ELSE obls[i]]
             /\ memory' = stored
             /\ Dump(written, stored)
  BY DEF Route
<1>. DEFINE written == {i \in routed : answer[i] # "error"}
           stored == [n \in Numbers |-> IF n \in written
                                         THEN Entry(n, body, answer[n]) ELSE memory[n]]
<1>3. /\ MaxObligations \in Nat /\ LogShape
      /\ obls \in Seq(ObligationType) /\ Len(obls) \in Nat /\ DOMAIN obls = 1 .. Len(obls)
      /\ Len(obls) <= MaxObligations
  BY DEF LogAssumption, LogInv, LogShape
<1>4. routed \subseteq DOMAIN obls /\ routed \subseteq Numbers /\ written \in SUBSET Numbers
  BY <1>3 DEF OpenFor, Numbers
<1>5. body \in Bodies
  BY DEF Bodies
<1>6. \A i \in DOMAIN obls : obls[i] \in ObligationType /\ Backed(obls[i], i)
  BY <1>3 DEF LogInv, ObligationsBacked
<1>7. \A i \in routed : obls[i].resolution \in {"open", "still_unresolved"}
  BY <1>4, <1>6 DEF OpenFor, Backed, Sound
<1>. HIDE DEF body, routed
<1>8. ASSUME NEW i \in routed
      PROVE  /\ obls'[i] \in ObligationType /\ Sound(obls'[i])
             /\ obls'[i].status # ""
             /\ ClaimsRecord(obls'[i].status) => answer[i] # "error"
             /\ ClosureIn(obls'[i].resolution) = ClosureOf(VerdictOf(answer[i]))
             /\ answer[i] = "error" => obls'[i].resolution = "still_unresolved"
  <2>1. obls'[i] = Rejudged(obls[i], body, answer[i])
    BY <1>2, <1>4
  <2>2. Sound(obls[i]) /\ obls[i] \in ObligationType
        /\ answer[i] \in Verdicts \cup {"invalid", "error"}
    BY <1>4, <1>6 DEF Backed
  <2>. DEFINE o == obls[i]  a == answer[i]  x == obls'[i]
  <2>3. o \in ObligationType /\ a \in Verdicts \cup {"invalid", "error"}
        /\ Sound(o) /\ x = Rejudged(o, body, a)
    BY <2>1, <2>2
  <2>. HIDE DEF o, a, x
  <2>4. x \in ObligationType /\ Sound(x) /\ Judged(x, a)
    BY <1>5, <2>3, RejudgedFacts
  <2>. QED  BY <2>4 DEF o, a, x, Judged
<1>9. /\ DOMAIN obls' = DOMAIN obls
      /\ \A i \in DOMAIN obls \ routed : obls'[i] = obls[i]
  BY <1>2
<1>10. obls' \in Seq(ObligationType) /\ Len(obls') = Len(obls)
  <2>1. \A i \in 1 .. Len(obls) : obls'[i] \in ObligationType
    BY <1>3, <1>6, <1>8, <1>9
  <2>2. obls' \in [1 .. Len(obls) -> ObligationType]
    BY <1>2, <1>3, <2>1
  <2>3. Len(obls) \in Nat /\ DOMAIN obls' = 1 .. Len(obls)
    BY <1>3, <1>9
  <2>4. obls' \in Seq(ObligationType)
    BY <2>2, <2>3
  <2>. QED  BY <2>3, <2>4
<1>11. ASSUME NEW i \in written
       PROVE  /\ Entry(i, body, answer[i]) \in Judgments
              /\ Entry(i, body, answer[i]) # Nothing
              /\ Entry(i, body, answer[i]).kind = "live"
              /\ Entry(i, body, answer[i]).of = <<attempt, i>>
              /\ Entry(i, body, answer[i]).verdict = VerdictOf(answer[i])
  <2>1. i \in routed /\ answer[i] \in Verdicts \cup {"invalid"}
    BY <1>2
  <2>2. VerdictOf(answer[i]) \in Verdicts \cup {"requires_read"}
    BY <2>1 DEF VerdictOf
  <2>3. obls[i].con \in Cons /\ attempt \in Nat /\ i \in Nat
    BY <1>3, <1>4, <1>6, <2>1 DEF ObligationType, LogShape, Numbers
  <2>4. Entry(i, body, answer[i]) \in Judgments
    BY <1>5, <2>2, <2>3 DEF Entry, Judgments, Bodies
  <2>. QED  BY <2>4 DEF Entry, LogAssumption
<1>12. /\ memory' = stored /\ Dump(written, stored)
       /\ \A n \in written : memory'[n] = Entry(n, body, answer[n])
       /\ \A n \in Numbers \ written : memory'[n] = memory[n]
  BY <1>2, <1>4
<1>13. /\ memory' \in StrictStore
       /\ \A n \in Numbers : memory'[n] # Nothing => memory'[n].kind = "live"
       /\ \A n \in Numbers : memory[n] # Nothing => memory'[n] # Nothing
  <2>1. \A n \in Numbers : memory[n] \in Judgments \cup {Nothing}
    BY <1>3 DEF LogShape, StrictStore
  <2>2. \A n \in Numbers : memory'[n] \in Judgments \cup {Nothing}
    BY <1>11, <1>12, <2>1
  <2>3. memory' \in StrictStore
    BY <1>12, <2>2 DEF StrictStore
  <2>. QED  BY <1>3, <1>11, <1>12, <2>3 DEF LogShape
<1>14. /\ file' \in [state : {"absent", "ok", "torn"}, entries : StrictStore]
       /\ faults' \in Nat
       /\ \A n \in Numbers : file'.entries[n] \in
             {file.entries[n], Nothing, memory[n], memory'[n]}
       /\ faults' = 0 => /\ faults = 0
                         /\ IF written = {} THEN file' = file
                            ELSE file'.state = "ok" /\ file'.entries = memory'
  <2>. HIDE DEF written, stored
  <2>1. stored \in StrictStore /\ \A n \in Numbers \ written : stored[n] = memory[n]
    BY <1>12, <1>13
  <2>2. memory \in StrictStore /\ faults \in Nat
        /\ file \in [state : {"absent", "ok", "torn"}, entries : StrictStore]
    BY <1>3 DEF LogShape
  <2>. QED  BY <1>3, <1>4, <1>12, <2>1, <2>2, DumpFacts
<1>. HIDE DEF written, stored
<1>15. LogShape'
  <2>1. cached' \in [Urls -> Texts \cup {Nothing}]
    BY <1>1, <1>3 DEF LogShape, Longer
  <2>2. bodies' \in SUBSET Bodies
    BY <1>1, <1>3, <1>5 DEF LogShape, Registered
  <2>3. attempt' = attempt /\ records' = records /\ phase' = phase
    BY <1>1
  <2>. QED  BY <1>3, <1>10, <1>13, <1>14, <2>1, <2>2, <2>3 DEF LogShape, Numbers
<1>16. ObligationsBacked'
  <2>1. ASSUME NEW i \in DOMAIN obls PROVE Sound(obls'[i])
            /\ (ClaimsRecord(obls'[i].status) => memory'[i] # Nothing)
    <3>1. CASE i \in routed
      BY <1>8, <1>11, <1>12, <3>1 DEF written
    <3>2. CASE i \notin routed
      <4>1. i \in Numbers
        BY <1>3 DEF Numbers
      <4>. QED  BY <1>6, <1>9, <1>13, <3>2, <4>1 DEF Backed
    <3>. QED  BY <3>1, <3>2
  <2>2. ASSUME NEW r \in DOMAIN records, NEW i \in DOMAIN records[r].obls
        PROVE  Sound(records[r].obls[i])
               /\ (ClaimsRecord(records[r].obls[i].status) => memory'[i] # Nothing)
    <3>. DEFINE list == records[r].obls
    <3>3. list \in Seq(ObligationType) /\ Len(list) <= MaxObligations
      <4>1. records \in Seq(RecordType) /\ Len(list) <= MaxObligations
        BY <1>3 DEF LogShape
      <4>2. records[r] \in RecordType
        BY <4>1
      <4>. QED  BY <4>1, <4>2 DEF RecordType
    <3>1. i \in 1 .. Len(list) /\ Len(list) \in Nat /\ Len(list) <= MaxObligations
      BY <3>3
    <3>2. i \in Numbers
      BY <1>3, <3>1 DEF Numbers
    <3>. QED  BY <1>13, <3>2 DEF LogInv, ObligationsBacked, Backed
  <2>. QED  BY <1>1, <1>9, <2>1, <2>2 DEF ObligationsBacked, Backed
<1>17. FileFollowsLog'
  <2>. SUFFICES ASSUME faults' = 0 PROVE FileFollowsLog'
    BY DEF FileFollowsLog
  <2>1. CASE written = {}
    <3>1. \A n \in Numbers : memory'[n] = memory[n]
      BY <1>12, <2>1
    <3>. QED  BY <1>14, <2>1, <3>1 DEF LogInv, FileFollowsLog, Numbers
  <2>2. CASE written # {}
    BY <1>13, <1>14, <2>2 DEF FileFollowsLog, Numbers
  <2>. QED  BY <2>1, <2>2
<1>18. OneRecord'
  BY <1>1 DEF LogInv, OneRecord, OneAttempt
<1>19. EntriesAreOwn'
  <2>. SUFFICES ASSUME OneAttempt, NEW n \in Numbers
                PROVE  /\ OwnEntry(memory[n], n)' /\ OwnEntry(file.entries[n], n)'
                       /\ memory'[n] # Nothing =>
                            ClosureOf(memory'[n].verdict) = ClosureIn(OnlyObls'[n].resolution)
    BY <1>1 DEF EntriesAreOwn, OneAttempt, Numbers
  <2>1. OnlyObls = obls /\ OnlyObls' = obls'
    BY <1>1 DEF OnlyObls
  <2>2. /\ OwnEntry(memory[n], n) /\ OwnEntry(file.entries[n], n)
        /\ memory[n] # Nothing =>
              ClosureOf(memory[n].verdict) = ClosureIn(obls[n].resolution)
        /\ memory[n] # Nothing => memory[n].kind = "live"
    BY <2>1 DEF LogInv, EntriesAreOwn, LogShape
  <2>3. \A i \in DOMAIN obls : obls[i].status # "" => obls'[i].status # ""
    BY <1>8, <1>9
  <2>4. OwnEntry(memory[n], n)'
    <3>1. CASE n \in written
      <4>1. n \in routed /\ memory'[n].of = <<1, n>>
        BY <1>11, <1>12, <3>1 DEF written, OneAttempt
      <4>. QED  BY <1>4, <1>8, <1>9, <2>1, <4>1 DEF OwnEntry
    <3>2. CASE n \notin written
      BY <1>9, <1>12, <2>1, <2>2, <2>3, <3>2 DEF OwnEntry
    <3>. QED  BY <3>1, <3>2
  <2>5. OwnEntry(file.entries[n], n)'
    <3>1. ASSUME NEW e, OwnEntry(e, n), e # Nothing, e.kind = "live"
          PROVE  e.of = <<1, n>> /\ n \in DOMAIN OnlyObls' /\ OnlyObls'[n].status # ""
      BY <1>9, <2>1, <2>3, <3>1 DEF OwnEntry
    <3>2. file'.entries[n] \in {file.entries[n], Nothing, memory[n], memory'[n]}
      BY <1>14
    <3>3. CASE file'.entries[n] = memory'[n]
      BY <2>4, <3>3 DEF OwnEntry
    <3>4. CASE file'.entries[n] \in {file.entries[n], Nothing, memory[n]}
      BY <2>2, <3>1, <3>4 DEF OwnEntry
    <3>. QED  BY <3>2, <3>3, <3>4
  <2>6. ASSUME memory'[n] # Nothing
        PROVE  ClosureOf(memory'[n].verdict) = ClosureIn(obls'[n].resolution)
    <3>1. CASE n \in written
      <4>1. n \in routed /\ memory'[n].verdict = VerdictOf(answer[n])
        BY <1>11, <1>12, <3>1 DEF written
      <4>. QED  BY <1>8, <4>1
    <3>2. CASE n \notin written /\ n \in routed
      <4>1. answer[n] = "error" /\ obls'[n].resolution = "still_unresolved"
        BY <1>8, <3>2 DEF written
      <4>2. obls[n].resolution \in {"open", "still_unresolved"}
        BY <1>7, <3>2
      <4>3. ClosureIn(obls[n].resolution) = ClosureIn(obls'[n].resolution)
        BY <4>1, <4>2 DEF ClosureIn, ClosureOf
      <4>. QED  BY <1>12, <2>2, <2>6, <3>2, <4>3
    <3>3. CASE n \notin written /\ n \notin routed
      <4>1. n \in DOMAIN obls
        BY <1>12, <2>1, <2>2, <2>6, <3>3 DEF OwnEntry
      <4>. QED  BY <1>9, <1>12, <2>2, <2>6, <3>3, <4>1
    <3>. QED  BY <3>1, <3>2, <3>3 DEF written
  <2>. QED  BY <2>1, <2>4, <2>5, <2>6
<1>. QED  BY <1>15, <1>16, <1>17, <1>18, <1>19 DEF LogInv

(* An attempt ends, and its record is kept or not.                         *)
LEMMA EndLog ==
    ASSUME LogAssumption, LogInv, NEW kept \in BOOLEAN, NEW last \in BOOLEAN,
           EndAttempt(kept, last)
    PROVE  LogInv'
<1>. DEFINE rec == [attempt |-> attempt, obls |-> obls, bodies |-> bodies]
<1>1. /\ phase = "run" /\ (last => kept)
      /\ records' = IF kept THEN Append(records, rec) ELSE records
      /\ obls' = <<>> /\ bodies' = {}
      /\ attempt' = IF last THEN attempt ELSE attempt + 1
      /\ phase' = IF last THEN "idle" ELSE "run"
      /\ UNCHANGED <<memory, file, cached, faults>>
  BY DEF EndAttempt
<1>2. /\ LogShape /\ MaxObligations \in Nat /\ records \in Seq(RecordType)
      /\ Len(records) \in Nat /\ DOMAIN records = 1 .. Len(records)
      /\ attempt \in Nat \ {0} /\ rec \in RecordType
  BY DEF LogInv, LogShape, RecordType, LogAssumption
<1>3. /\ records' \in Seq(RecordType)
      /\ \A r \in DOMAIN records' : \/ r \in DOMAIN records /\ records'[r] = records[r]
                                    \/ records'[r] = rec
  <2>. HIDE DEF rec
  <2>1. CASE kept
    BY <1>1, <1>2, <2>1
  <2>2. CASE ~ kept
    BY <1>1, <1>2, <2>2
  <2>. QED  BY <2>1, <2>2
<1>4. LogShape'
  <2>1. /\ obls' \in Seq(ObligationType) /\ Len(obls') <= MaxObligations
        /\ bodies' \in SUBSET Bodies
    BY <1>1, <1>2
  <2>2. attempt' \in Nat \ {0} /\ phase' \in {"run", "idle", "validate"}
    BY <1>1, <1>2
  <2>3. \A r \in DOMAIN records' : Len(records'[r].obls) <= MaxObligations
    BY <1>2, <1>3, SMTT(40) DEF LogShape
  <2>. QED  BY <1>1, <1>2, <1>3, <2>1, <2>2, <2>3 DEF LogShape, Numbers, StrictStore
<1>5. ObligationsBacked'
  <2>1. ASSUME NEW r \in DOMAIN records', NEW i \in DOMAIN records'[r].obls
        PROVE  Backed(records[r].obls[i], i)'
    <3>1. \A j \in DOMAIN obls : Backed(obls[j], j)
      BY DEF LogInv, ObligationsBacked
    <3>2. \A q \in DOMAIN records : \A j \in DOMAIN records[q].obls :
              Backed(records[q].obls[j], j)
      BY DEF LogInv, ObligationsBacked
    <3>3. Backed(records'[r].obls[i], i)
      BY <1>3, <3>1, <3>2
    <3>. QED  BY <1>1, <3>3 DEF Backed
  <2>2. DOMAIN obls' = {}
    BY <1>1
  <2>. QED  BY <2>1, <2>2 DEF ObligationsBacked
<1>6. FileFollowsLog'
  BY <1>1 DEF LogInv, FileFollowsLog, Numbers
<1>7. OneAttempt' => OneAttempt /\ last /\ records' = <<rec>>
  <2>. HIDE DEF rec
  <2>1. OneAttempt' => OneAttempt /\ last /\ records = <<>>
    BY <1>1, <1>2 DEF OneAttempt, LogInv, OneRecord
  <2>. QED  BY <1>1, <2>1
<1>8. OneRecord'
  BY <1>1, <1>7, SMTT(40) DEF OneRecord, OneAttempt
<1>9. OneAttempt' => OnlyObls = obls /\ OnlyObls' = obls /\ OneAttempt
  BY <1>1, <1>7 DEF OnlyObls
<1>10. EntriesAreOwn'
  BY <1>1, <1>9 DEF LogInv, EntriesAreOwn, OwnEntry, Numbers
<1>. QED  BY <1>4, <1>5, <1>6, <1>8, <1>10 DEF LogInv

-----------------------------------------------------------------------------
(* ReplayValidation: the steps of a validation and the log.                *)

(* Between validations and during one the log stays as it is.              *)
LEMMA LogKept ==
    ASSUME LogInv, phase # "run", phase' \in {"idle", "validate"},
           UNCHANGED <<attempt, obls, bodies, memory, file, cached, records, faults>>
    PROVE  LogInv'
<1>1. LogShape' /\ ObligationsBacked' /\ FileFollowsLog'
  BY DEF LogInv, LogShape, ObligationsBacked, Backed, FileFollowsLog, Numbers, StrictStore
<1>2. OneRecord' /\ OnlyObls' = OnlyObls
  BY DEF LogInv, OneRecord, OneAttempt, OnlyObls
<1>3. EntriesAreOwn'
  BY <1>2 DEF LogInv, EntriesAreOwn, OneAttempt, OwnEntry, Numbers
<1>. QED  BY <1>1, <1>2, <1>3 DEF LogInv

(* The place is an obligation of a record.                                 *)
LEMMA AtPlace ==
    ASSUME LogAssumption, LogInv, CheckShape, AtObligation
    PROVE  /\ place \in Places /\ place[1] \in DOMAIN records
           /\ place[2] \in DOMAIN records[place[1]].obls
           /\ place[2] \in Numbers
           /\ Current = ObligationAt(place) /\ Current \in ObligationType
           /\ Backed(Current, place[2])
           /\ records[place[1]] \in RecordType
           /\ OneAttempt => /\ place[1] = 1 /\ Len(records) = 1
                            /\ records[1].attempt = 1 /\ OnlyObls = records[1].obls
<1>. DEFINE list == records[place[1]].obls
<1>1. /\ phase = "validate" /\ place[1] <= Len(records) /\ list # <<>>
      /\ place \in Nat \X Nat /\ place[1] > 0 /\ place[2] > 0
      /\ place[2] = 1 \/ place[2] <= Len(list)
  BY DEF AtObligation, Examining, CheckShape
<1>2. records \in Seq(RecordType) /\ MaxObligations \in Nat
      /\ \A r \in DOMAIN records : Len(records[r].obls) <= MaxObligations
  BY DEF LogInv, LogShape, LogAssumption
<1>3. place[1] \in DOMAIN records /\ records[place[1]] \in RecordType
  BY <1>1, <1>2
<1>4. list \in Seq(ObligationType) /\ Len(list) <= MaxObligations
  BY <1>2, <1>3 DEF RecordType
<1>5. place[2] \in DOMAIN list /\ place[2] \in Numbers /\ place[2] <= Len(list)
  BY <1>1, <1>2, <1>4 DEF Numbers
<1>6. place \in Places
  BY <1>1, <1>2, <1>3, <1>5 DEF Places
<1>7. Current \in ObligationType
  BY <1>4, <1>5 DEF Current
<1>8. Backed(Current, place[2])
  BY <1>3, <1>5 DEF LogInv, ObligationsBacked, Current
<1>9. OneAttempt => /\ place[1] = 1 /\ Len(records) = 1
                    /\ records[1].attempt = 1 /\ OnlyObls = records[1].obls
  BY <1>1, <1>2, <1>3 DEF LogInv, OneRecord, OnlyObls
<1>. QED  BY <1>3, <1>5, <1>6, <1>7, <1>8, <1>9 DEF Current, ObligationAt

(* A judgeable obligation has a body.                                      *)
LEMMA BodyIsText ==
    ASSUME LogAssumption, LogInv, NEW o \in ObligationType, Judgeable(o)
    PROVE  MatchUrl(o.url) \in Urls /\ BodyAt(o.url) \in Texts
           /\ Located(o.url) = "cache_read_body"
<1>1. Located(o.url) = "cache_read_body"
  BY DEF Judgeable
<1>2. MatchUrl(o.url) # Nothing /\ cached[MatchUrl(o.url)] # Nothing
  BY <1>1 DEF Located
<1>3. CacheUrls \subseteq Urls
  BY DEF CacheUrls
<1>4. MatchUrl(o.url) \in Urls
  BY <1>2, <1>3 DEF MatchUrl
<1>5. cached \in [Urls -> Texts \cup {Nothing}]
  BY DEF LogInv, LogShape
<1>. QED  BY <1>1, <1>2, <1>4, <1>5 DEF BodyAt

(* What a verdict written back leaves in the file.                         *)
LEMMA WriteBackFacts ==
    ASSUME LogAssumption, LogInv, CheckShape, AtObligation, Judgeable(Current),
           NEW verdict \in Verdicts,
           WriteBack(place[2], verdict, BodyAt(Current.url))
    PROVE  /\ file' \in [state : {"absent", "ok", "torn"}, entries : StrictStore]
           /\ faults' \in Nat
           /\ \A m \in Numbers :
                 \/ file'.entries[m] \in {file.entries[m], Nothing}
                 \/ m = place[2] /\ file'.entries[m].kind # "live"
           /\ faults' = 0 =>
                 /\ faults = 0
                 /\ file.state # "torn" =>
                    /\ file'.state = "ok"
                    /\ \A m \in Numbers \ {place[2]} : file'.entries[m] = file.entries[m]
                    /\ LET e == file'.entries[place[2]]
                       IN  /\ e # Nothing /\ e.kind # "live" /\ e.con = Current.con
                           /\ e.verdict = verdict /\ e.body.text = BodyAt(Current.url)
<1>. DEFINE n == place[2]
           text == BodyAt(Current.url)
           e == [kind |-> "validator", verdict |-> verdict, con |-> Current.con,
                 body |-> [text |-> text, url |-> MatchUrl(Current.url)],
                 of |-> <<records[place[1]].attempt, n>>]
<1>1. n \in Numbers /\ Current \in ObligationType /\ records[place[1]] \in RecordType
      /\ n \in Nat
  BY AtPlace DEF Numbers
<1>2. text \in Texts /\ MatchUrl(Current.url) \in Urls
  BY <1>1, BodyIsText
<1>3. Current.con \in Cons /\ records[place[1]].attempt \in Nat
  BY <1>1 DEF ObligationType, RecordType
<1>4. e \in Judgments
  BY <1>1, <1>2, <1>3 DEF Judgments
<1>5. e # Nothing
  BY <1>4 DEF LogAssumption
<1>6. e.kind # "live" /\ e.con = Current.con /\ e.verdict = verdict /\ e.body.text = text
  OBVIOUS
<1>7. /\ file \in [state : {"absent", "ok", "torn"}, entries : StrictStore]
      /\ faults \in Nat
  BY DEF LogInv, LogShape
<1>8. \/ file.state = "torn" /\ file' = file /\ faults' = faults
      \/ file' = [state |-> "ok", entries |-> [file.entries EXCEPT ![n] = e]]
         /\ faults' = faults
      \/ faults' = faults + 1 /\ file' \in {file, Torn}
  BY DEF WriteBack
<1>. HIDE DEF e, n, text
<1>9. CASE file.state = "torn" /\ file' = file /\ faults' = faults
  BY <1>7, <1>9
<1>10. CASE file' = [state |-> "ok", entries |-> [file.entries EXCEPT ![n] = e]]
            /\ faults' = faults
  <2>1. file.entries \in StrictStore
    BY <1>7
  <2>2. file'.entries \in StrictStore /\ file'.entries[n] = e
        /\ \A m \in Numbers \ {n} : file'.entries[m] = file.entries[m]
    BY <1>1, <1>4, <1>10, <2>1 DEF StrictStore
  <2>. QED  BY <1>5, <1>6, <1>7, <1>10, <2>2 DEF n, text
<1>11. CASE faults' = faults + 1 /\ file' \in {file, Torn}
  <2>1. Torn.entries \in StrictStore /\ \A m \in Numbers : Torn.entries[m] = Nothing
    BY DEF Torn, NoEntries, StrictStore
  <2>2. Torn \in [state : {"absent", "ok", "torn"}, entries : StrictStore]
    BY <2>1 DEF Torn
  <2>. QED  BY <1>7, <1>11, <2>1, <2>2
<1>. QED  BY <1>8, <1>9, <1>10, <1>11

(* The log's invariant survives it.                                        *)
LEMMA WriteBackLog ==
    ASSUME LogAssumption, LogInv, CheckShape, AtObligation, Judgeable(Current),
           NEW verdict \in Verdicts,
           WriteBack(place[2], verdict, BodyAt(Current.url)),
           UNCHANGED <<phase, attempt, obls, bodies, memory, cached, records>>
    PROVE  LogInv'
<1>1. /\ file' \in [state : {"absent", "ok", "torn"}, entries : StrictStore]
      /\ faults' \in Nat
      /\ \A m \in Numbers :
            \/ file'.entries[m] \in {file.entries[m], Nothing}
            \/ m = place[2] /\ file'.entries[m].kind # "live"
      /\ faults' = 0 =>
            /\ faults = 0
            /\ file.state # "torn" =>
               /\ file'.state = "ok"
               /\ \A m \in Numbers \ {place[2]} : file'.entries[m] = file.entries[m]
               /\ file'.entries[place[2]] # Nothing
               /\ file'.entries[place[2]].kind # "live"
  BY WriteBackFacts
<1>2. LogShape' /\ ObligationsBacked' /\ OneRecord'
  BY <1>1 DEF LogInv, LogShape, ObligationsBacked, Backed, OneRecord, OneAttempt,
              Numbers, StrictStore
<1>3. FileFollowsLog'
  BY <1>1 DEF LogInv, FileFollowsLog, Numbers
<1>4. OnlyObls' = OnlyObls
  BY DEF OnlyObls
<1>5. EntriesAreOwn'
  <2>. SUFFICES ASSUME OneAttempt, NEW n \in Numbers
                PROVE  /\ OwnEntry(memory[n], n)' /\ OwnEntry(file.entries[n], n)'
                       /\ memory[n] # Nothing =>
                            ClosureOf(memory[n].verdict) = ClosureIn(OnlyObls'[n].resolution)
    BY DEF EntriesAreOwn, OneAttempt, Numbers
  <2>1. OwnEntry(file.entries[n], n)'
    BY <1>1, <1>4 DEF LogInv, EntriesAreOwn, OwnEntry
  <2>. QED  BY <1>4, <2>1 DEF LogInv, EntriesAreOwn, OwnEntry
<1>. QED  BY <1>2, <1>3, <1>5 DEF LogInv

-----------------------------------------------------------------------------
(* Places.                                                                 *)

(* There are finitely many obligations.                                    *)
LEMMA PlacesFinite ==
    ASSUME LogAssumption, LogInv
    PROVE  IsFiniteSet(Places) /\ Places \subseteq Nat \X Nat
<1>1. Len(records) \in Nat /\ MaxObligations \in Nat
  BY DEF LogInv, LogShape, LogAssumption
<1>2. IsFiniteSet(1 .. Len(records)) /\ IsFiniteSet(Numbers)
  BY <1>1, FS_Interval DEF Numbers
<1>3. IsFiniteSet((1 .. Len(records)) \X Numbers)
  BY <1>2, FS_Product
<1>. QED  BY <1>1, <1>3, FS_Subset DEF Places, Numbers

(* The obligation at the place is counted next.                            *)
LEMMA NextIsCounted ==
    ASSUME LogAssumption, LogInv, CheckShape, AtObligation
    PROVE  /\ place \notin Before(place)
           /\ Before(NextPlace) = Before(place) \cup {place}
           /\ Cardinality(Before(place)) \in Nat
           /\ Cardinality(Before(NextPlace)) = Cardinality(Before(place)) + 1
           /\ Index(place) = Cardinality(Before(place)) + 1
<1>1. place \in Places /\ IsFiniteSet(Places) /\ Places \subseteq Nat \X Nat
      /\ place \in Nat \X Nat
  BY AtPlace, PlacesFinite
<1>2. place \notin Before(place)
  BY <1>1 DEF Before
<1>3. \A q \in Places : q = place <=> q[1] = place[1] /\ q[2] = place[2]
  BY <1>1
<1>4. Before(NextPlace) = Before(place) \cup {place}
  <2>1. CASE place[2] < Len(records[place[1]].obls)
    <3>1. NextPlace[1] = place[1] /\ NextPlace[2] = place[2] + 1
      BY <2>1 DEF NextPlace
    <3>. QED  BY <1>1, <1>3, <3>1 DEF Before
  <2>2. CASE ~ (place[2] < Len(records[place[1]].obls))
    <3>1. NextPlace[1] = place[1] + 1 /\ NextPlace[2] = 1
      BY <2>2 DEF NextPlace
    <3>2. \A q \in Places : q[1] = place[1] => q[2] <= place[2]
      <4>1. Len(records[place[1]].obls) \in Nat
        BY AtPlace DEF RecordType
      <4>. QED  BY <1>1, <2>2, <4>1 DEF Places
    <3>3. \A q \in Places : q[1] > 0 /\ q[2] > 0
      BY DEF Places, Numbers
    <3>. QED  BY <1>1, <1>3, <3>1, <3>2, <3>3 DEF Before
  <2>. QED  BY <2>1, <2>2
<1>5. IsFiniteSet(Before(place))
  BY <1>1, FS_Subset DEF Before
<1>6. Cardinality(Before(place)) \in Nat
      /\ Cardinality(Before(place) \cup {place}) = Cardinality(Before(place)) + 1
  BY <1>2, <1>5, FS_CardinalityType, FS_AddElement
<1>7. {q \in Places : \/ q[1] < place[1]
                      \/ q[1] = place[1] /\ q[2] <= place[2]} = Before(place) \cup {place}
  BY <1>1, <1>3 DEF Before
<1>. QED  BY <1>2, <1>4, <1>6, <1>7 DEF Index

-----------------------------------------------------------------------------
(* ReplayValidation: one obligation's outcome.                             *)

(* A recorded verdict that is not verified, and one that is.               *)
NotFound(v) ==
    /\ v.verdict = Nothing /\ v.method = "none" /\ v.reason # ""
    /\ v.reason \in {"body_not_found", "body_hash_mismatch"} => v.class # ""

FoundAs(v, e, con, text) ==
    /\ file.state = "ok" /\ e \in Judgments /\ e # Nothing /\ e.con = con
    /\ v.verdict = e.verdict /\ v.verdict # Nothing /\ v.reason = "" /\ v.class = ""
    /\ IF e.kind = "live"
       THEN /\ v.method = "body_id"
            /\ e.body \in Manifest /\ e.body.text \notin Dirty
       ELSE v.method = "url_fallback" /\ e.body.text = text

(* What it means that a recorded verdict is verified, or is not.           *)
LEMMA VerificationFacts ==
    ASSUME LogAssumption, LogInv, NEW n \in Numbers, NEW con, NEW text
    PROVE  /\ Verification(n, con, text).method \in Methods
           /\ Verification(n, con, text).class \in Classes
           /\ \/ NotFound(Verification(n, con, text))
              \/ FoundAs(Verification(n, con, text), file.entries[n], con, text)
<1>. DEFINE e == file.entries[n]
           v == Verification(n, con, text)
<1>1. e \in Judgments \cup {Nothing}
  BY DEF LogInv, LogShape, StrictStore
<1>2. e # Nothing => e.verdict # Nothing
  BY <1>1 DEF Judgments, LogAssumption
<1>0. v = Verification(n, con, text)
  OBVIOUS
<1>. HIDE DEF e, v
<1>. SUFFICES v.method \in Methods /\ v.class \in Classes
              /\ (NotFound(v) \/ FoundAs(v, e, con, text))
  BY DEF e, v
<1>3. ASSUME NEW reason \in Reasons, NEW class \in Classes, reason # "",
             reason \in {"body_not_found", "body_hash_mismatch"} => class # "",
             v = Refused(reason, class)
      PROVE  v.method \in Methods /\ v.class \in Classes /\ NotFound(v)
  BY <1>3 DEF Refused, Methods, NotFound
<1>4. CASE file.state # "ok"
  <2>1. v = Refused("judge_cache_missing", "strict_version_mismatch")
    BY <1>0, <1>4 DEF Verification
  <2>. QED  BY <2>1, <1>3 DEF Reasons, Classes
<1>5. CASE file.state = "ok"
  <2>1. v = Recorded(e, con, text)
    BY <1>0, <1>5 DEF Verification, e
  <2>2. CASE e = Nothing
    <3>1. v = Refused("judge_cache_missing", "")
      BY <2>1, <2>2 DEF Recorded
    <3>. QED  BY <3>1, <1>3 DEF Reasons, Classes
  <2>3. CASE e # Nothing /\ e.con # con
    <3>1. v = Refused("body_hash_mismatch", "strict_version_mismatch")
      BY <2>1, <2>3 DEF Recorded
    <3>. QED  BY <3>1, <1>3 DEF Reasons, Classes
  <2>4. CASE e # Nothing /\ e.con = con /\ e.kind = "live"
    <3>1. CASE e.body \notin Manifest
      <4>1. v = Refused("body_not_found", "read_body_id_not_found_in_manifest")
        BY <2>1, <2>4, <3>1 DEF Recorded
      <4>. QED  BY <4>1, <1>3 DEF Reasons, Classes
    <3>2. CASE e.body \in Manifest /\ e.body.text \in Dirty
      <4>1. v = Refused("body_hash_mismatch", "read_body_id_not_found_in_manifest")
        BY <2>1, <2>4, <3>2 DEF Recorded
      <4>. QED  BY <4>1, <1>3 DEF Reasons, Classes
    <3>3. CASE e.body \in Manifest /\ e.body.text \notin Dirty
      <4>1. v = Accepted(e, "body_id")
        BY <2>1, <2>4, <3>3 DEF Recorded
      <4>2. v.method = "body_id" /\ v.class = "" /\ v.reason = "" /\ v.verdict = e.verdict
        BY <4>1 DEF Accepted
      <4>3. FoundAs(v, e, con, text)
        BY <1>1, <1>2, <1>5, <2>4, <3>3, <4>2 DEF FoundAs
      <4>. QED  BY <4>2, <4>3 DEF Methods, Classes
    <3>. QED  BY <3>1, <3>2, <3>3
  <2>5. CASE e # Nothing /\ e.con = con /\ e.kind # "live"
    <3>1. CASE e.body.text = text
      <4>1. v = Accepted(e, "url_fallback")
        BY <2>1, <2>5, <3>1 DEF Recorded
      <4>2. v.method = "url_fallback" /\ v.class = "" /\ v.reason = "" /\ v.verdict = e.verdict
        BY <4>1 DEF Accepted
      <4>3. FoundAs(v, e, con, text)
        BY <1>1, <1>2, <1>5, <2>5, <3>1, <4>2 DEF FoundAs
      <4>. QED  BY <4>2, <4>3 DEF Methods, Classes
    <3>2. CASE e.body.text # text
      <4>1. v = Refused("body_hash_mismatch", "cache_body_hash_differs_from_manifest")
        BY <2>1, <2>5, <3>2 DEF Recorded
      <4>. QED  BY <4>1, <1>3 DEF Reasons, Classes
    <3>. QED  BY <3>1, <3>2
  <2>. QED  BY <2>2, <2>3, <2>4, <2>5
<1>. QED  BY <1>4, <1>5

(* A verdict that was found once is found again.                           *)
LEMMA StableIsFound ==
    ASSUME LogAssumption, LogInv, CheckShape, AtObligation, OneAttempt,
           NEW closure, Stable(place, closure)
    PROVE  /\ Judgeable(Current) /\ Verdict.verdict # Nothing
           /\ closure = ClosureOf(Verdict.verdict)
<1>. DEFINE e == file.entries[place[2]]
<1>1. /\ Judgeable(Current) /\ file.state = "ok" /\ e # Nothing /\ e.con = Current.con
      /\ IF e.kind = "live"
         THEN e.body \in records[1].bodies /\ e.body.text \notin Dirty
         ELSE e.body.text = BodyAt(Current.url)
      /\ closure = ClosureOf(e.verdict)
  BY AtPlace DEF Stable
<1>2. place[2] \in Numbers /\ place[1] = 1
  BY AtPlace
<1>3. e \in Judgments /\ e.verdict # Nothing
  BY <1>1, <1>2 DEF LogInv, LogShape, StrictStore, Judgments, LogAssumption
<1>4. records[1].bodies \subseteq Manifest
  BY <1>2 DEF Manifest
<1>. HIDE DEF e
<1>5. Verdict = Recorded(e, Current.con, BodyAt(Current.url))
  BY <1>1 DEF Verdict, Verification, e
<1>6. Verdict = Accepted(e, IF e.kind = "live" THEN "body_id" ELSE "url_fallback")
  BY <1>1, <1>4, <1>5 DEF Recorded
<1>. QED  BY <1>1, <1>3, <1>6 DEF Accepted

(* An outcome as it is found at the place.                                 *)
Examined(x) ==
    /\ x \in OutcomeType
    /\ x.status = Current.status /\ x.attempted = Current.attempted

(* Before anything is found.                                               *)
Fresh(b, source) ==
    /\ Examined(b) /\ b.source = source
    /\ b.stage = "reconstructed" /\ b.closure = "unvalidated_cache_miss"
    /\ b.outcome = "" /\ b.from = "" /\ b.verified = FALSE /\ b.method = "none"
    /\ b.class = "" /\ b.reason = ""

(* That is the blank outcome.                                              *)
LEMMA BlankFacts ==
    ASSUME LogAssumption, LogInv, CheckShape, AtObligation,
           NEW source \in Sources
    PROVE  Fresh(Blank(Current, source), source)
<1>1. Current.status \in Statuses /\ Current.gap \in Gaps /\ Current.attempted \in BOOLEAN
  BY AtPlace DEF ObligationType
<1>. QED  BY <1>1 DEF Fresh, Blank, Examined, OutcomeType, Stages, Closures, Ends,
                      Origins, Methods, Reasons, Classes, FinalStatuses,
                      TextsOrNone, OwnersOrNone

(* The outcome of an obligation without a judgeable passage.               *)
UnjudgedOutcome(x) ==
    /\ Examined(x) /\ x.from = "" /\ x.outcome = "" /\ x.reason = ""
    /\ x.closure = "unvalidated_cache_miss"
    /\ x.stage \in {"reconstructed", "actual_body_located"}
    /\ x.source # "cache_read_body" => x.stage = "reconstructed"
    /\ x.verified = TRUE => Current.status # ""

(* That is what an obligation without a judgeable passage gets.            *)
LEMMA UnjudgedFacts ==
    ASSUME LogAssumption, LogInv, CheckShape, AtObligation
    PROVE  UnjudgedOutcome(Unjudged(Current, place[2]))
<1>. DEFINE v == Verification(place[2], Current.con, BodyAt(Current.url))
           b == Blank(Current, Located(Current.url))
           x == Unjudged(Current, place[2])
           class == IF Current.status = "" THEN "" ELSE v.class
           sure == Current.status # "" /\ v.verdict # Nothing
           method == IF Current.status # "" THEN v.method ELSE "none"
<1>1. place[2] \in Numbers
  BY AtPlace
<1>2. v.method \in Methods /\ v.class \in Classes
  BY <1>1, VerificationFacts
<1>3. Located(Current.url) \in Sources
  BY DEF Located, Sources
<1>4. Fresh(b, Located(Current.url))
  BY <1>3, BlankFacts
<1>5. x = IF b.source # "cache_read_body" THEN b
          ELSE [b EXCEPT !.stage = "actual_body_located", !.class = class,
                         !.verified = sure, !.method = method]
  BY DEF Unjudged
<1>6. class \in Classes /\ sure \in BOOLEAN /\ (sure = TRUE => Current.status # "")
      /\ method \in Methods
  BY <1>2 DEF Classes, Methods
<1>. HIDE DEF v, b, x, class, sure, method
<1>7. b \in OutcomeType
  BY <1>4 DEF Fresh, Examined
<1>8. CASE b.source # "cache_read_body"
  <2>1. x = b
    BY <1>5, <1>8
  <2>2. UnjudgedOutcome(b)
    BY <1>4 DEF Fresh, UnjudgedOutcome
  <2>. QED  BY <2>1, <2>2 DEF x
<1>9. CASE b.source = "cache_read_body"
  <2>1. x = [b EXCEPT !.stage = "actual_body_located", !.class = class,
                      !.verified = sure, !.method = method]
    BY <1>5, <1>9
  <2>2. /\ x.stage = "actual_body_located" /\ x.verified = sure
        /\ x.status = b.status /\ x.attempted = b.attempted /\ x.from = b.from
        /\ x.outcome = b.outcome /\ x.closure = b.closure /\ x.source = b.source
        /\ x.reason = b.reason
    BY <1>7, <2>1 DEF OutcomeType
  <2>3. "actual_body_located" \in Stages
    BY DEF Stages, BodyStages
  <2>4. x \in OutcomeType
    BY <1>6, <1>7, <2>1, <2>3 DEF OutcomeType
  <2>5. UnjudgedOutcome(x)
    BY <1>4, <1>6, <1>9, <2>2, <2>4 DEF Fresh, Examined, UnjudgedOutcome
  <2>. QED  BY <2>5 DEF x
<1>. QED  BY <1>8, <1>9

(* An obligation whose passages were scanned.                              *)
LEMMA ScannedFacts ==
    ASSUME LogAssumption, LogInv, CheckShape, AtObligation
    PROVE  /\ Examined(Scanned) /\ Scanned.source = "cache_read_body"
           /\ Scanned.stage = "passages_scanned"
           /\ Scanned.closure = "unvalidated_cache_miss" /\ Scanned.outcome = ""
           /\ Scanned.from = "" /\ Scanned.verified = FALSE
           /\ Scanned.method = Verdict.method /\ Scanned.class = Verdict.class
           /\ Scanned.reason = ""
<1>. DEFINE b == Blank(Current, "cache_read_body")
<1>1. Verdict.method \in Methods /\ Verdict.class \in Classes
  <2>1. place[2] \in Numbers
    BY AtPlace
  <2>. QED  BY <2>1, VerificationFacts DEF Verdict
<1>2. Fresh(b, "cache_read_body")
  <2>1. "cache_read_body" \in Sources
    BY DEF Sources
  <2>. QED  BY <2>1, BlankFacts
<1>3. Scanned = [b EXCEPT !.stage = "passages_scanned", !.method = Verdict.method,
                          !.class = Verdict.class]
  BY DEF Scanned
<1>. HIDE DEF b
<1>4. b \in OutcomeType
  BY <1>2 DEF Fresh, Examined
<1>5. Scanned \in OutcomeType
  <2>1. "passages_scanned" \in Stages
    BY DEF Stages, BodyStages
  <2>. QED  BY <1>1, <1>3, <1>4, <2>1 DEF OutcomeType
<1>6. /\ Scanned.stage = "passages_scanned" /\ Scanned.method = Verdict.method
      /\ Scanned.class = Verdict.class /\ Scanned.status = b.status
      /\ Scanned.attempted = b.attempted /\ Scanned.source = b.source
      /\ Scanned.closure = b.closure /\ Scanned.outcome = b.outcome
      /\ Scanned.from = b.from /\ Scanned.verified = b.verified
      /\ Scanned.reason = b.reason
  BY <1>3, <1>4 DEF OutcomeType
<1>. QED  BY <1>2, <1>5, <1>6 DEF Fresh, Examined

(* An obligation with a verdict: its stage, kind and closure agree.        *)
JudgedOutcome(x, b, verdict, from, text, of) ==
    /\ x \in OutcomeType /\ x.closure = ClosureOf(verdict) /\ x.from = from
    /\ x.text = text /\ x.of = of
    /\ x.stage \in JudgedStages
    /\ x.closure = "requires_read_still_open" => x.stage = "judged_unclosed"
    /\ x.outcome = "source_terminal_non_support" => x.stage = "source_terminal"
    /\ x.source = b.source /\ x.status = b.status /\ x.attempted = b.attempted
    /\ x.verified = b.verified /\ x.method = b.method /\ x.class = b.class
    /\ x.reason = b.reason

(* That is what a verdict makes of an outcome.                              *)
LEMMA JudgedFacts ==
    ASSUME NEW b \in OutcomeType, NEW verdict, NEW from \in {"recorded", "live", "ruled"},
           NEW text \in Texts, NEW of \in Nat \X Nat
    PROVE  JudgedOutcome(WithVerdict(b, verdict, from, text, of), b, verdict, from, text, of)
<1>. DEFINE closure == ClosureOf(verdict)
           gap == IF b.gap = "" THEN GapOf(closure, "") ELSE b.gap
           x == WithVerdict(b, verdict, from, text, of)
<1>1. closure \in Closures
  BY DEF ClosureOf, Closures, Resolving, SourceTerminal
<1>2. /\ StageOf(closure) \in JudgedStages /\ StageOf(closure) \in Stages
      /\ closure = "requires_read_still_open" => StageOf(closure) = "judged_unclosed"
  BY DEF StageOf, JudgedStages, Stages, BodyStages, Resolving, SourceTerminal
<1>3. /\ OutcomeOf(closure) \in Ends
      /\ OutcomeOf(closure) = "source_terminal_non_support"
            => StageOf(closure) = "source_terminal"
  BY DEF OutcomeOf, StageOf, Ends
<1>4. gap \in Gaps
  BY DEF OutcomeType, GapOf, Gaps
<1>5. x = [b EXCEPT !.closure = closure, !.stage = StageOf(closure),
                    !.outcome = OutcomeOf(closure), !.from = from,
                    !.gap = gap, !.text = text, !.of = of]
  BY DEF WithVerdict
<1>. HIDE DEF closure, gap, x
<1>6. x \in OutcomeType
  <2>1. from \in Origins /\ text \in TextsOrNone /\ of \in OwnersOrNone
    BY DEF Origins, TextsOrNone, OwnersOrNone
  <2>. QED  BY <1>1, <1>2, <1>3, <1>4, <1>5, <2>1 DEF OutcomeType
<1>7. /\ x.closure = closure /\ x.from = from /\ x.text = text /\ x.of = of
      /\ x.stage = StageOf(closure) /\ x.outcome = OutcomeOf(closure)
      /\ x.source = b.source /\ x.status = b.status /\ x.attempted = b.attempted
      /\ x.verified = b.verified /\ x.method = b.method /\ x.class = b.class
      /\ x.reason = b.reason
  BY <1>5 DEF OutcomeType
<1>8. JudgedOutcome(x, b, verdict, from, text, of)
  BY <1>2, <1>3, <1>6, <1>7 DEF JudgedOutcome, closure
<1>. QED  BY <1>8 DEF x

-----------------------------------------------------------------------------
(* ReplayValidation: outcomes stay true.                                   *)

(* A step of a validation leaves what was judged and where it is found.    *)
SameBodies == UNCHANGED <<attempt, cached, providers, records>>

(* What can be judged, and on which body, is left as well.                 *)
LEMMA SamePages ==
    ASSUME SameBodies
    PROVE  /\ \A o : Judgeable(o)' = Judgeable(o)
           /\ \A u : BodyAt(u)' = BodyAt(u)
<1>1. cached' = cached /\ providers' = providers
  BY DEF SameBodies
<1>2. CacheUrls' = CacheUrls
  BY <1>1 DEF CacheUrls
<1>3. \A u : MatchUrl(u)' = MatchUrl(u)
  BY <1>2 DEF MatchUrl
<1>4. \A u : Located(u)' = Located(u) /\ BodyAt(u)' = BodyAt(u)
  BY <1>1, <1>3 DEF Located, BodyAt
<1>. QED  BY <1>4 DEF Judgeable

(* A verdict stays where it was found if its entry does.                   *)
LEMMA StableEntry ==
    ASSUME SameBodies, NEW p \in Places, NEW closure, Stable(p, closure),
           file'.state = "ok", file'.entries[p[2]] = file.entries[p[2]]
    PROVE  Stable(p, closure)'
<1>1. records' = records /\ ObligationAt(p)' = ObligationAt(p)
  BY DEF SameBodies, ObligationAt
<1>2. Judgeable(ObligationAt(p))' /\ BodyAt(ObligationAt(p).url)' = BodyAt(ObligationAt(p).url)
  BY <1>1, SamePages DEF Stable
<1>. QED  BY <1>1, <1>2 DEF Stable

(* A validation writes over no verdict that was found.                     *)
LEMMA StableWritten ==
    ASSUME LogAssumption, LogInv, CheckShape, AtObligation, Judgeable(Current),
           Verdict.verdict = Nothing, NEW verdict \in Verdicts,
           WriteBack(place[2], verdict, BodyAt(Current.url)), SameBodies,
           OneAttempt, faults' = 0,
           NEW p \in Places, NEW closure, Stable(p, closure)
    PROVE  Stable(p, closure)'
<1>1. place[1] = 1 /\ Len(records) = 1 /\ place \in Places
  BY AtPlace
<1>2. p \in Nat \X Nat /\ place \in Nat \X Nat
  BY PlacesFinite, <1>1
<1>3. p[1] = 1
  BY <1>1 DEF Places
<1>4. p[2] # place[2]
  <2>. SUFFICES ASSUME p[2] = place[2] PROVE FALSE
    OBVIOUS
  <2>1. p = place
    BY <1>1, <1>2, <1>3
  <2>. QED  BY <2>1, StableIsFound
<1>5. p[2] \in Numbers
  BY DEF Places
<1>6. file.state = "ok"
  BY DEF Stable
<1>7. file'.state = "ok" /\ file'.entries[p[2]] = file.entries[p[2]]
  BY <1>4, <1>5, <1>6, WriteBackFacts
<1>. QED  BY <1>7, StableEntry

(* What was true of an outcome stays true.                                 *)
LEMMA OutcomeKept ==
    ASSUME SameBodies, faults' = 0 => faults = 0,
           NEW p \in Places, NEW x, NEW live, OutcomeOK(p, x, live),
           \A closure : OneAttempt /\ faults' = 0 /\ Stable(p, closure)
                           => Stable(p, closure)'
    PROVE  OutcomeOK(p, x, live)'
<1>1. ObligationAt(p)' = ObligationAt(p) /\ OneAttempt' = OneAttempt
  BY DEF SameBodies, ObligationAt, OneAttempt
<1>2. CleanOutcome(x)'
  BY DEF SameBodies, OutcomeOK, CleanOutcome
<1>3. TrueOutcome(p, x)'
  BY <1>1 DEF OutcomeOK, TrueOutcome
<1>4. OrderlyOutcome(x, live)'
  BY <1>1 DEF OutcomeOK, OrderlyOutcome
<1>. QED  BY <1>1, <1>2, <1>3, <1>4 DEF OutcomeOK

(* An outcome is kept: the ones before it stand, and it takes its place.   *)
LEMMA KeepFound ==
    ASSUME LogAssumption, CheckInv, AtObligation, NEW x, Keep(x),
           faults' = 0 => faults = 0,
           \A p \in Places : \A closure :
              OneAttempt /\ faults' = 0 /\ Stable(p, closure) => Stable(p, closure)',
           Examined(x),
           \A c \in Places : c = place => OutcomeOK(c, x, tier.live)',
           Reported /\ OneAttempt /\ faults' = 0
              /\ Results[place].from \in {"recorded", "live"}
              => x.closure = Results[place].closure
    PROVE  (CheckShape /\ ClaimsSeen /\ FoundOK /\ ReportedOK)'
<1>1. /\ found' = Append(found, x) /\ place' = NextPlace
      /\ UNCHANGED <<phase, records, attempt, cached, providers, tier, snapshot,
                     previous, passes>>
  BY DEF Keep, logVars
<1>2. SameBodies
  BY <1>1 DEF SameBodies
<1>3. LogInv /\ CheckShape /\ ClaimsSeen /\ FoundOK /\ ReportedOK /\ phase = "validate"
  BY DEF CheckInv, AtObligation, Examining
<1>4. Places' = Places /\ (\A p : ObligationAt(p)' = ObligationAt(p))
      /\ OneAttempt' = OneAttempt /\ Reported' = Reported /\ Results' = Results
  BY <1>1 DEF Places, ObligationAt, OneAttempt, Reported, Results
<1>5. CheckShape'
  <2>1. /\ records \in Seq(RecordType) /\ place[1] <= Len(records)
        /\ place \in Nat \X Nat /\ place[1] > 0 /\ place[2] > 0
    BY <1>3 DEF LogInv, LogShape, CheckShape, AtObligation, Examining
  <2>2. CASE place[2] < Len(records[place[1]].obls)
    <3>1. NextPlace = <<place[1], place[2] + 1>>
      BY <2>2 DEF NextPlace
    <3>2. Len(records[place[1]].obls) \in Nat
      BY <1>3, AtPlace DEF RecordType
    <3>. QED  BY <1>1, <1>3, <2>1, <2>2, <3>1, <3>2, SMTT(40) DEF CheckShape, Reported
  <2>3. CASE ~ (place[2] < Len(records[place[1]].obls))
    <3>1. NextPlace = <<place[1] + 1, 1>>
      BY <2>3 DEF NextPlace
    <3>. QED  BY <1>1, <1>3, <2>1, <3>1, SMTT(40) DEF CheckShape, Reported
  <2>. QED  BY <2>2, <2>3
<1>6. ClaimsSeen'
  BY <1>1, <1>3, <1>4 DEF ClaimsSeen, Present
<1>7. FoundOK'
  <2>1. found \in Seq(OutcomeType) /\ Len(found) = Cardinality(Before(place))
        /\ Len(found) \in Nat
    BY <1>3 DEF FoundOK
  <2>2. /\ Before(NextPlace) = Before(place) \cup {place}
        /\ Cardinality(Before(NextPlace)) = Len(found) + 1
        /\ Index(place) = Len(found) + 1
    BY <1>3, <2>1, NextIsCounted
  <2>3. Before(place)' = Before(NextPlace) /\ (\A p : Index(p)' = Index(p))
    BY <1>1, <1>4 DEF Before, Index
  <2>4. x \in OutcomeType
    BY DEF Examined
  <2>5. /\ found' \in Seq(OutcomeType) /\ Len(found') = Len(found) + 1
        /\ \A i \in DOMAIN found : i \in DOMAIN found' /\ found'[i] = found[i]
        /\ Len(found) + 1 \in DOMAIN found' /\ found'[Len(found) + 1] = x
    BY <1>1, <2>1, <2>4
  <2>6. ASSUME NEW p \in Before(NextPlace)
        PROVE  /\ Index(p) \in DOMAIN found'
               /\ OutcomeOK(p, found[Index(p)], tier.live)'
               /\ found'[Index(p)].status = ObligationAt(p).status
               /\ Reported /\ OneAttempt /\ faults' = 0
                     /\ Results[p].from \in {"recorded", "live"}
                     => found'[Index(p)].closure = Results[p].closure
    <3>1. CASE p = place
      <4>1. found'[Index(p)] = x /\ Index(p) \in DOMAIN found'
        BY <2>2, <2>5, <3>1
      <4>2. p \in Places /\ ObligationAt(p) = Current
        BY <1>3, <3>1, AtPlace
      <4>3. OutcomeOK(p, x, tier.live)'
        BY <3>1, <4>2
      <4>4. OutcomeOK(p, found[Index(p)], tier.live)'
        BY <2>3, <4>1, <4>3
      <4>. QED  BY <3>1, <4>1, <4>2, <4>4 DEF Examined
    <3>2. CASE p \in Before(place)
      <4>1. /\ p \in Places /\ Index(p) \in DOMAIN found
            /\ OutcomeOK(p, found[Index(p)], tier.live)
            /\ found[Index(p)].status = ObligationAt(p).status
            /\ Reported /\ OneAttempt /\ faults = 0
                  /\ Results[p].from \in {"recorded", "live"}
                  => found[Index(p)].closure = Results[p].closure
        BY <1>3, <3>2 DEF FoundOK, Before
      <4>2. found'[Index(p)] = found[Index(p)] /\ Index(p) \in DOMAIN found'
        BY <2>5, <4>1
      <4>3. \A y, l : OutcomeOK(p, y, l) => OutcomeOK(p, y, l)'
        BY <1>2, <4>1, OutcomeKept
      <4>4. OutcomeOK(p, found[Index(p)], tier.live)'
        BY <1>1, <2>3, <4>1, <4>2, <4>3
      <4>. QED  BY <4>1, <4>2, <4>4
    <3>. QED  BY <2>2, <3>1, <3>2
  <2>. QED  BY <1>1, <1>4, <2>2, <2>3, <2>5, <2>6 DEF FoundOK
<1>8. ReportedOK'
  <2>. SUFFICES ASSUME Reported
                PROVE  /\ DOMAIN Results = Places
                       /\ \A p \in Places :
                             /\ OutcomeOK(p, Results[p], previous.tier.live)'
                             /\ faults' = 0 => Results[p].status
                                                  # "rejudgment_missing_invariant_violation"
                             /\ OneAttempt /\ Results[p].method # "url_fallback"
                                   => (Results[p].status # "" <=> Results[p].attempted = TRUE)
    BY <1>1, <1>4 DEF ReportedOK
  <2>1. /\ DOMAIN Results = Places
        /\ \A p \in Places :
              /\ OutcomeOK(p, Results[p], previous.tier.live)
              /\ faults = 0 => Results[p].status # "rejudgment_missing_invariant_violation"
              /\ OneAttempt /\ Results[p].method # "url_fallback"
                    => (Results[p].status # "" <=> Results[p].attempted = TRUE)
    BY <1>3 DEF ReportedOK
  <2>2. \A p \in Places : \A y, l : OutcomeOK(p, y, l) => OutcomeOK(p, y, l)'
    BY <1>2, OutcomeKept
  <2>3. \A p \in Places : OutcomeOK(p, Results[p], previous.tier.live)'
    BY <1>1, <1>4, <2>1, <2>2
  <2>. QED  BY <2>1, <2>3
<1>. QED  BY <1>5, <1>6, <1>7, <1>8

-----------------------------------------------------------------------------
(* ReplayValidation: one obligation is examined.                           *)

(* An obligation that the last report closed by a verdict has it again.    *)
LEMMA FoundAgain ==
    ASSUME LogAssumption, CheckInv, AtObligation, Reported, OneAttempt, faults = 0,
           Results[place].from \in {"recorded", "live"}
    PROVE  /\ Judgeable(Current) /\ Verdict.verdict # Nothing
           /\ Results[place].closure = ClosureOf(Verdict.verdict)
<1>1. LogInv /\ CheckShape /\ ReportedOK
  BY DEF CheckInv
<1>2. place \in Places
  BY <1>1, AtPlace
<1>3. OutcomeOK(place, Results[place], previous.tier.live)
  BY <1>1, <1>2 DEF ReportedOK
<1>4. Stable(place, Results[place].closure)
  BY <1>3 DEF OutcomeOK, TrueOutcome
<1>. QED  BY <1>1, <1>4, StableIsFound

(* A step that only keeps an outcome, and writes nothing.                  *)
LEMMA QuietKeep ==
    ASSUME LogAssumption, CheckInv, AtObligation, NEW x, Keep(x),
           UNCHANGED <<file, faults>>, Examined(x), OutcomeOK(place, x, tier.live),
           Reported /\ OneAttempt /\ faults = 0
              /\ Results[place].from \in {"recorded", "live"}
              => x.closure = Results[place].closure
    PROVE  CheckInv'
<1>1. /\ phase' = phase /\ phase = "validate" /\ tier' = tier
      /\ UNCHANGED <<attempt, obls, bodies, memory, cached, records, providers>>
  BY DEF Keep, logVars, AtObligation, Examining
<1>2. LogInv'
  BY <1>1, LogKept DEF CheckInv
<1>3. SameBodies
  BY <1>1 DEF SameBodies
<1>4. \A p \in Places : \A closure : Stable(p, closure) => Stable(p, closure)'
  <2>. SUFFICES ASSUME NEW p \in Places, NEW closure, Stable(p, closure)
                PROVE  Stable(p, closure)'
    OBVIOUS
  <2>1. file'.state = "ok" /\ file'.entries[p[2]] = file.entries[p[2]]
    BY DEF Stable
  <2>. QED  BY <1>3, <2>1, StableEntry
<1>5. \A c \in Places : c = place => OutcomeOK(c, x, tier.live)'
  <2>. SUFFICES ASSUME NEW c \in Places, c = place
                PROVE  OutcomeOK(c, x, tier.live)'
    OBVIOUS
  <2>1. \A l : OutcomeOK(c, x, l) => OutcomeOK(c, x, l)'
    BY <1>3, <1>4, OutcomeKept
  <2>2. OutcomeOK(c, x, tier.live)
    OBVIOUS
  <2>. QED  BY <1>1, <2>1, <2>2
<1>6. (CheckShape /\ ClaimsSeen /\ FoundOK /\ ReportedOK)'
  BY <1>4, <1>5, KeepFound
<1>. QED  BY <1>2, <1>6 DEF CheckInv

(* Sound obligations have a status once they were attempted.               *)
LEMMA CurrentSound ==
    ASSUME LogAssumption, CheckInv, AtObligation
    PROVE  (Current.attempted = TRUE) <=> (Current.status # "")
BY AtPlace DEF CheckInv, Backed, Sound

(* An outcome without a verdict.                                           *)
LEMMA WithoutVerdict ==
    ASSUME LogAssumption, CheckInv, AtObligation, NEW x, Examined(x),
           x.from = "", x.stage \notin JudgedStages,
           x.source # "cache_read_body" => x.stage = "reconstructed",
           x.outcome # "source_terminal_non_support",
           x.stage = "rejudgment_unverifiable" => x.class # "",
           x.verified = TRUE => Current.status # ""
    PROVE  OutcomeOK(place, x, tier.live)
<1>1. Current = ObligationAt(place)
  BY AtPlace DEF CheckInv
<1>2. x.verified = TRUE => x.attempted = TRUE
  BY CurrentSound DEF Examined
<1>3. CleanOutcome(x) /\ TrueOutcome(place, x)
  BY DEF CleanOutcome, TrueOutcome
<1>4. OrderlyOutcome(x, tier.live)
  BY <1>2 DEF OrderlyOutcome, JudgedStages
<1>. QED  BY <1>1, <1>3, <1>4 DEF OutcomeOK, Examined

(* An obligation without a judgeable passage is reported as such.          *)
LEMMA NotJudgeableKept ==
    ASSUME LogAssumption, CheckInv, NotJudgeable
    PROVE  CheckInv'
<1>1. /\ AtObligation /\ ~ Judgeable(Current)
      /\ Keep(Unjudged(Current, place[2]))
      /\ UNCHANGED <<file, faults, spent>>
  BY DEF NotJudgeable
<1>2. UnjudgedOutcome(Unjudged(Current, place[2]))
  BY <1>1, UnjudgedFacts DEF CheckInv
<1>3. Examined(Unjudged(Current, place[2]))
  BY <1>2 DEF UnjudgedOutcome
<1>4. OutcomeOK(place, Unjudged(Current, place[2]), tier.live)
  BY <1>1, <1>2, <1>3, WithoutVerdict DEF UnjudgedOutcome, JudgedStages
<1>5. ~ (Reported /\ OneAttempt /\ faults = 0
            /\ Results[place].from \in {"recorded", "live"})
  BY <1>1, FoundAgain
<1>. QED  BY <1>1, <1>3, <1>4, <1>5, QuietKeep

(* A verdict that is not verified.                                         *)
LEMMA VerdictNotFound ==
    ASSUME LogAssumption, CheckInv, AtObligation, Verdict.verdict = Nothing
    PROVE  NotFound(Verdict)
<1>1. place[2] \in Numbers
  BY AtPlace DEF CheckInv
<1>. QED  BY <1>1, VerificationFacts DEF CheckInv, Verdict, FoundAs

(* A verdict whose body cannot be verified is named as such.               *)
LEMMA UnverifiedKept ==
    ASSUME LogAssumption, CheckInv, Unverified
    PROVE  CheckInv'
<1>. DEFINE x == [Scanned EXCEPT !.stage = "rejudgment_unverifiable",
                             !.outcome = "unverifiable", !.reason = Verdict.reason]
<1>1. /\ AtObligation /\ Judgeable(Current) /\ Verdict.verdict = Nothing
      /\ Verdict.reason \in {"body_hash_mismatch", "body_not_found"}
      /\ Keep(x) /\ UNCHANGED <<file, faults, spent>>
  BY DEF Unverified, Unverifiable
<1>2. /\ Examined(Scanned) /\ Scanned.source = "cache_read_body"
      /\ Scanned.from = "" /\ Scanned.verified = FALSE /\ Scanned.class = Verdict.class
  BY <1>1, ScannedFacts DEF CheckInv
<1>3. Verdict.class # ""
  BY <1>1, VerdictNotFound DEF NotFound
<1>4. Scanned \in OutcomeType /\ Verdict.reason \in Reasons
      /\ "rejudgment_unverifiable" \in Stages /\ "unverifiable" \in Ends
  BY <1>1, <1>2 DEF Examined, Reasons, Stages, BodyStages, Ends
<1>5. x \in OutcomeType
  BY <1>4 DEF OutcomeType
<1>6. /\ x.stage = "rejudgment_unverifiable" /\ x.outcome = "unverifiable"
      /\ x.source = Scanned.source /\ x.from = Scanned.from
      /\ x.verified = Scanned.verified /\ x.class = Scanned.class
      /\ x.status = Scanned.status /\ x.attempted = Scanned.attempted
  BY <1>4 DEF OutcomeType
<1>. HIDE DEF x
<1>7. Examined(x)
  BY <1>2, <1>5, <1>6 DEF Examined
<1>8. OutcomeOK(place, x, tier.live)
  BY <1>1, <1>2, <1>3, <1>6, <1>7, WithoutVerdict DEF JudgedStages
<1>9. ~ (Reported /\ OneAttempt /\ faults = 0
            /\ Results[place].from \in {"recorded", "live"})
  BY <1>1, FoundAgain
<1>. QED  BY <1>1, <1>7, <1>8, <1>9, QuietKeep

(* An obligation is left pending when the live tier may not judge it.      *)
LEMMA PendingKept ==
    ASSUME LogAssumption, CheckInv, Pending
    PROVE  CheckInv'
<1>. DEFINE x == [Scanned EXCEPT !.stage = "rejudgment_pending"]
<1>1. /\ AtObligation /\ Judgeable(Current) /\ Verdict.verdict = Nothing
      /\ Keep(x) /\ UNCHANGED <<file, faults, spent>>
  BY DEF Pending
<1>2. /\ Examined(Scanned) /\ Scanned.source = "cache_read_body"
      /\ Scanned.from = "" /\ Scanned.verified = FALSE /\ Scanned.outcome = ""
  BY <1>1, ScannedFacts DEF CheckInv
<1>4. Scanned \in OutcomeType /\ "rejudgment_pending" \in Stages
  BY <1>2 DEF Examined, Stages, BodyStages
<1>5. x \in OutcomeType
  BY <1>4 DEF OutcomeType
<1>6. /\ x.stage = "rejudgment_pending" /\ x.outcome = Scanned.outcome
      /\ x.source = Scanned.source /\ x.from = Scanned.from
      /\ x.verified = Scanned.verified
      /\ x.status = Scanned.status /\ x.attempted = Scanned.attempted
  BY <1>4 DEF OutcomeType
<1>. HIDE DEF x
<1>7. Examined(x)
  BY <1>2, <1>5, <1>6 DEF Examined
<1>8. OutcomeOK(place, x, tier.live)
  BY <1>1, <1>2, <1>6, <1>7, WithoutVerdict DEF JudgedStages
<1>9. ~ (Reported /\ OneAttempt /\ faults = 0
            /\ Results[place].from \in {"recorded", "live"})
  BY <1>1, FoundAgain
<1>. QED  BY <1>1, <1>7, <1>8, <1>9, QuietKeep

(* A verdict that is verified.                                             *)
LEMMA VerdictFound ==
    ASSUME LogAssumption, CheckInv, AtObligation, Verdict.verdict # Nothing
    PROVE  /\ FoundAs(Verdict, file.entries[place[2]], Current.con, BodyAt(Current.url))
           /\ place[2] \in Numbers
<1>1. place[2] \in Numbers
  BY AtPlace DEF CheckInv
<1>. QED  BY <1>1, VerificationFacts DEF CheckInv, Verdict, NotFound

(* A recorded verdict of the run is verified in the manifest, is of this   *)
(* obligation when there was one attempt, and is found again.              *)
LEMMA RecordedIsTrue ==
    ASSUME LogAssumption, CheckInv, AtObligation, Judgeable(Current),
           Verdict.verdict # Nothing, NEW e, e = file.entries[place[2]]
    PROVE  /\ Verdict.method = "body_id" =>
                /\ e.kind = "live" /\ e.body.text \notin Dirty
                /\ \E r \in DOMAIN records : \E b \in records[r].bodies :
                      b.text = e.body.text
           /\ OneAttempt => Stable(place, ClosureOf(Verdict.verdict))
           /\ OneAttempt /\ Verdict.method = "body_id" =>
                 e.of = <<1, place[2]>> /\ Current.attempted = TRUE
           /\ OneAttempt /\ Verdict.method = "body_id" /\ faults = 0 =>
                 ClosureOf(Verdict.verdict) = ClosureIn(Current.resolution)
<1>. DEFINE n == place[2]
<1>1. /\ n \in Numbers /\ file.state = "ok" /\ e \in Judgments /\ e # Nothing
      /\ e.con = Current.con /\ Verdict.verdict = e.verdict
      /\ IF e.kind = "live"
         THEN /\ Verdict.method = "body_id"
              /\ e.body \in Manifest /\ e.body.text \notin Dirty
         ELSE Verdict.method = "url_fallback" /\ e.body.text = BodyAt(Current.url)
  BY VerdictFound DEF FoundAs
<1>2. /\ place[1] \in DOMAIN records /\ Current = ObligationAt(place)
      /\ OneAttempt => /\ place[1] = 1 /\ Len(records) = 1
                       /\ OnlyObls = records[1].obls
  BY AtPlace DEF CheckInv
<1>3. /\ records \in Seq(RecordType) /\ place \in Nat \X Nat /\ place[1] > 0
  BY DEF CheckInv, LogInv, LogShape, CheckShape
<1>4. e.body \in Manifest => \E r \in 1 .. place[1] : e.body \in records[r].bodies
  BY DEF Manifest
<1>5. Verdict.method = "body_id" =>
         /\ e.kind = "live" /\ e.body.text \notin Dirty
         /\ \E r \in DOMAIN records : \E b \in records[r].bodies : b.text = e.body.text
  BY <1>1, <1>2, <1>3, <1>4
<1>6. ASSUME OneAttempt PROVE Stable(place, ClosureOf(Verdict.verdict))
  <2>1. e.kind = "live" => e.body \in records[1].bodies
    BY <1>1, <1>2, <1>4, <1>6
  <2>. QED  BY <1>1, <1>2, <2>1 DEF Stable
<1>7. ASSUME OneAttempt, Verdict.method = "body_id"
      PROVE  e.of = <<1, n>> /\ Current.attempted = TRUE
  <2>1. OwnEntry(e, n)
    BY <1>1, <1>7 DEF CheckInv, LogInv, EntriesAreOwn
  <2>2. e.of = <<1, n>> /\ OnlyObls[n].status # ""
    BY <1>1, <1>5, <1>7, <2>1 DEF OwnEntry
  <2>3. OnlyObls[n] = Current
    BY <1>2, <1>7 DEF ObligationAt
  <2>. QED  BY <2>2, <2>3, CurrentSound
<1>8. ASSUME OneAttempt, Verdict.method = "body_id", faults = 0
      PROVE  ClosureOf(Verdict.verdict) = ClosureIn(Current.resolution)
  <2>1. e = memory[n]
    BY <1>1, <1>5, <1>8 DEF CheckInv, LogInv, FileFollowsLog
  <2>2. ClosureOf(memory[n].verdict) = ClosureIn(OnlyObls[n].resolution)
    BY <1>1, <1>8, <2>1 DEF CheckInv, LogInv, EntriesAreOwn
  <2>3. OnlyObls[n] = Current
    BY <1>2, <1>8 DEF ObligationAt
  <2>. QED  BY <1>1, <2>1, <2>2, <2>3
<1>. QED  BY <1>5, <1>6, <1>7, <1>8

(* A verified verdict is used.                                             *)
LEMMA UseRecordedKept ==
    ASSUME LogAssumption, CheckInv, UseRecorded
    PROVE  CheckInv'
<1>. DEFINE e == file.entries[place[2]]
           w == WithVerdict(Scanned, Verdict.verdict, "recorded", e.body.text, e.of)
           x == [w EXCEPT !.verified = TRUE]
<1>1. /\ AtObligation /\ Judgeable(Current) /\ Verdict.verdict # Nothing
      /\ Keep(x) /\ UNCHANGED <<file, faults, spent>>
  BY DEF UseRecorded
<1>2. /\ Examined(Scanned) /\ Scanned.source = "cache_read_body"
      /\ Scanned.method = Verdict.method /\ Scanned.class = Verdict.class
  BY <1>1, ScannedFacts DEF CheckInv
<1>3. e \in Judgments /\ e.body.text \in Texts /\ e.of \in Nat \X Nat
  BY <1>1, VerdictFound DEF FoundAs, Judgments
<1>4. JudgedOutcome(w, Scanned, Verdict.verdict, "recorded", e.body.text, e.of)
  BY <1>2, <1>3, JudgedFacts DEF Examined
<1>5. /\ Verdict.method = "body_id" =>
            /\ e.kind = "live" /\ e.body.text \notin Dirty
            /\ \E r \in DOMAIN records : \E b \in records[r].bodies : b.text = e.body.text
      /\ OneAttempt => Stable(place, ClosureOf(Verdict.verdict))
      /\ OneAttempt /\ Verdict.method = "body_id" =>
            e.of = <<1, place[2]>> /\ Current.attempted = TRUE
      /\ OneAttempt /\ Verdict.method = "body_id" /\ faults = 0 =>
            ClosureOf(Verdict.verdict) = ClosureIn(Current.resolution)
  BY <1>1, RecordedIsTrue
<1>6. Verdict.method \in {"body_id", "url_fallback"}
  BY <1>1, VerdictFound DEF FoundAs
<1>. HIDE DEF e, w
<1>7. w \in OutcomeType /\ x \in OutcomeType /\ x.verified = TRUE
      /\ x.closure = w.closure /\ x.from = w.from /\ x.text = w.text /\ x.of = w.of
      /\ x.stage = w.stage /\ x.outcome = w.outcome /\ x.source = w.source
      /\ x.status = w.status /\ x.attempted = w.attempted /\ x.method = w.method
      /\ x.class = w.class
  <2>1. w \in OutcomeType
    BY <1>4 DEF JudgedOutcome
  <2>. QED  BY <2>1 DEF OutcomeType
<1>. HIDE DEF x
<1>8. Examined(x)
  BY <1>2, <1>4, <1>7 DEF Examined, JudgedOutcome
<1>9. /\ x.closure = ClosureOf(Verdict.verdict) /\ x.from = "recorded"
      /\ x.text = e.body.text /\ x.of = e.of /\ x.stage \in JudgedStages
      /\ x.closure = "requires_read_still_open" => x.stage = "judged_unclosed"
      /\ x.outcome = "source_terminal_non_support" => x.stage = "source_terminal"
      /\ x.source = "cache_read_body" /\ x.method = Verdict.method
      /\ x.attempted = Current.attempted
  BY <1>2, <1>4, <1>7, <1>8 DEF JudgedOutcome, Examined
<1>10. OutcomeOK(place, x, tier.live)
  <2>1. CleanOutcome(x)
    BY <1>5, <1>9 DEF CleanOutcome
  <2>2. Current = ObligationAt(place)
    BY <1>1, AtPlace DEF CheckInv
  <2>3. TrueOutcome(place, x)
    BY <1>5, <1>9, <2>2 DEF TrueOutcome
  <2>4. OrderlyOutcome(x, tier.live)
    BY <1>5, <1>6, <1>9 DEF OrderlyOutcome, JudgedStages
  <2>. QED  BY <1>8, <2>1, <2>2, <2>3, <2>4 DEF OutcomeOK, Examined
<1>11. Reported /\ OneAttempt /\ faults = 0
          /\ Results[place].from \in {"recorded", "live"}
          => x.closure = Results[place].closure
  BY <1>1, <1>9, FoundAgain
<1>. QED  BY <1>1, <1>8, <1>10, <1>11, QuietKeep

(* An outcome of the live tier: the judge's answer, or a rule's.           *)
LiveOutcome(x, verdict, from) ==
    /\ Examined(x) /\ x.closure = ClosureOf(verdict) /\ x.from = from
    /\ x.stage \in JudgedStages
    /\ x.closure = "requires_read_still_open" => x.stage = "judged_unclosed"
    /\ x.outcome = "source_terminal_non_support" => x.stage = "source_terminal"
    /\ x.source = "cache_read_body" /\ x.verified = FALSE

(* A verdict written back is found again.                                  *)
LEMMA LiveKeep ==
    ASSUME LogAssumption, CheckInv, AtObligation, Judgeable(Current),
           Verdict.verdict = Nothing, tier.live,
           NEW x, Keep(x), NEW verdict \in Verdicts, LiveOutcome(x, verdict, "live"),
           WriteBack(place[2], verdict, BodyAt(Current.url))
    PROVE  CheckInv'
<1>1. LogInv /\ CheckShape /\ phase = "validate" /\ phase' = phase /\ tier' = tier
      /\ UNCHANGED <<attempt, obls, bodies, memory, cached, records, providers>>
  BY DEF Keep, logVars, AtObligation, Examining, CheckInv
<1>2. LogInv'
  BY <1>1, WriteBackLog
<1>3. SameBodies
  BY <1>1 DEF SameBodies
<1>4. faults' = 0 =>
         /\ faults = 0
         /\ file.state # "torn" =>
            /\ file'.state = "ok"
            /\ LET e == file'.entries[place[2]]
               IN  /\ e # Nothing /\ e.kind # "live" /\ e.con = Current.con
                   /\ e.verdict = verdict /\ e.body.text = BodyAt(Current.url)
  BY <1>1, WriteBackFacts
<1>5. \A p \in Places : \A closure :
         OneAttempt /\ faults' = 0 /\ Stable(p, closure) => Stable(p, closure)'
  BY <1>1, <1>3, StableWritten
<1>6. Current = ObligationAt(place) /\ Examined(x)
  BY <1>1, AtPlace DEF LiveOutcome
<1>7. ~ (Reported /\ OneAttempt /\ faults = 0
            /\ Results[place].from \in {"recorded", "live"})
  BY FoundAgain
<1>8. ASSUME NEW c \in Places, c = place
      PROVE  OutcomeOK(c, x, tier.live)'
  <2>1. ObligationAt(c)' = ObligationAt(c) /\ ObligationAt(c) = Current
    BY <1>1, <1>6, <1>8 DEF ObligationAt
  <2>2. CleanOutcome(x)'
    BY DEF CleanOutcome, LiveOutcome
  <2>3. OrderlyOutcome(x, tier.live)'
    BY <1>1 DEF OrderlyOutcome, JudgedStages, LiveOutcome
  <2>4. ASSUME OneAttempt, faults' = 0
        PROVE  Stable(c, ClosureOf(verdict))'
    <3>1. file.state # "torn"
      BY <1>1, <1>4, <2>4 DEF LogInv, FileFollowsLog
    <3>2. /\ file'.state = "ok" /\ file'.entries[c[2]] # Nothing
          /\ file'.entries[c[2]].kind # "live"
          /\ file'.entries[c[2]].con = ObligationAt(c).con
          /\ file'.entries[c[2]].verdict = verdict
          /\ file'.entries[c[2]].body.text = BodyAt(ObligationAt(c).url)
      BY <1>4, <1>8, <2>1, <2>4, <3>1
    <3>3. Judgeable(ObligationAt(c))'
          /\ BodyAt(ObligationAt(c).url)' = BodyAt(ObligationAt(c).url)
      BY <1>3, <2>1, SamePages
    <3>. QED  BY <2>1, <3>2, <3>3 DEF Stable
  <2>5. OneAttempt' = OneAttempt
    BY <1>1 DEF OneAttempt
  <2>6. TrueOutcome(c, x)'
    BY <2>4, <2>5 DEF TrueOutcome, LiveOutcome
  <2>. QED  BY <1>6, <2>1, <2>2, <2>3, <2>6 DEF OutcomeOK, Examined
<1>9. (CheckShape /\ ClaimsSeen /\ FoundOK /\ ReportedOK)'
  BY <1>4, <1>5, <1>6, <1>7, <1>8, KeepFound
<1>. QED  BY <1>2, <1>9 DEF CheckInv

(* The live tier judges, by a call or by a rule.                           *)
LEMMA RejudgeLiveKept ==
    ASSUME LogAssumption, CheckInv, RejudgeLive
    PROVE  CheckInv'
<1>1. PICK verdict \in Verdicts, called \in BOOLEAN :
         /\ AtObligation /\ Judgeable(Current) /\ Verdict.verdict = Nothing
         /\ tier.live /\ JudgeLive(verdict, called)
  BY DEF RejudgeLive
<1>. DEFINE from == IF called THEN "live" ELSE "ruled"
           text == BodyAt(Current.url)
           of == <<records[place[1]].attempt, place[2]>>
           x == WithVerdict(Scanned, verdict, from, text, of)
<1>2. /\ Keep(x)
      /\ IF called THEN WriteBack(place[2], verdict, BodyAt(Current.url))
                   ELSE UNCHANGED <<file, faults>>
  BY <1>1 DEF JudgeLive
<1>3. /\ Examined(Scanned) /\ Scanned.source = "cache_read_body"
      /\ Scanned.verified = FALSE /\ Scanned.method = Verdict.method
  BY <1>1, ScannedFacts DEF CheckInv
<1>4. text \in Texts /\ of \in Nat \X Nat
  <2>1. /\ Current \in ObligationType /\ records[place[1]] \in RecordType
        /\ place[2] \in Numbers
    BY <1>1, AtPlace DEF CheckInv
  <2>2. text \in Texts
    BY <1>1, <2>1, BodyIsText DEF CheckInv
  <2>. QED  BY <2>1, <2>2 DEF RecordType, Numbers
<1>5. JudgedOutcome(x, Scanned, verdict, from, text, of)
  BY <1>3, <1>4, JudgedFacts DEF Examined
<1>. HIDE DEF x
<1>6. LiveOutcome(x, verdict, from)
  BY <1>3, <1>5 DEF JudgedOutcome, Examined, LiveOutcome
<1>7. CASE ~ called
  <2>1. from = "ruled"
    BY <1>7
  <2>2. Current = ObligationAt(place)
    BY <1>1, AtPlace DEF CheckInv
  <2>3. CleanOutcome(x) /\ TrueOutcome(place, x)
    BY <1>6, <2>1 DEF CleanOutcome, TrueOutcome, LiveOutcome
  <2>4. OrderlyOutcome(x, tier.live)
    BY <1>1, <1>6 DEF OrderlyOutcome, JudgedStages, LiveOutcome
  <2>5. Examined(x) /\ OutcomeOK(place, x, tier.live)
    BY <1>6, <2>2, <2>3, <2>4 DEF LiveOutcome, OutcomeOK, Examined
  <2>6. ~ (Reported /\ OneAttempt /\ faults = 0
              /\ Results[place].from \in {"recorded", "live"})
    BY <1>1, FoundAgain
  <2>. QED  BY <1>1, <1>2, <1>7, <2>5, <2>6, QuietKeep
<1>8. CASE called
  <2>1. from = "live" /\ WriteBack(place[2], verdict, BodyAt(Current.url))
    BY <1>2, <1>8
  <2>2. LiveOutcome(x, verdict, "live")
    BY <1>6, <2>1
  <2>. QED  BY <1>1, <1>2, <2>1, <2>2, LiveKeep
<1>. QED  BY <1>7, <1>8

-----------------------------------------------------------------------------
(* ReplayValidation: the other steps.                                      *)

(* Outcomes stay true in a step that writes nothing.                       *)
LEMMA QuietOutcomes ==
    ASSUME SameBodies, UNCHANGED <<file, faults>>, NEW p \in Places, NEW x, NEW live,
           OutcomeOK(p, x, live)
    PROVE  OutcomeOK(p, x, live)'
<1>1. \A closure : Stable(p, closure) => Stable(p, closure)'
  <2>. SUFFICES ASSUME NEW closure, Stable(p, closure)
                PROVE  Stable(p, closure)'
    OBVIOUS
  <2>1. file'.state = "ok" /\ file'.entries[p[2]] = file.entries[p[2]]
    BY DEF Stable
  <2>. QED  BY <2>1, StableEntry
<1>. QED  BY <1>1, OutcomeKept

(* The last report stays true in such a step.                              *)
LEMMA QuietReport ==
    ASSUME SameBodies, UNCHANGED <<file, faults, previous>>, ReportedOK
    PROVE  ReportedOK'
<1>1. Places' = Places /\ OneAttempt' = OneAttempt /\ Reported' = Reported
      /\ Results' = Results /\ previous'.tier.live = previous.tier.live
  BY DEF SameBodies, Places, OneAttempt, Reported, Results
<1>. SUFFICES ASSUME Reported, NEW p \in Places
              PROVE  OutcomeOK(p, Results[p], previous.tier.live)'
  BY <1>1 DEF ReportedOK
<1>2. OutcomeOK(p, Results[p], previous.tier.live)
  BY DEF ReportedOK
<1>3. \A x, live : OutcomeOK(p, x, live) => OutcomeOK(p, x, live)'
  BY QuietOutcomes
<1>. QED  BY <1>1, <1>2, <1>3

(* The invariant holds before the first call.                              *)
LEMMA CheckInvInit == ASSUME LogAssumption PROVE CheckInit => CheckInv
<1>. SUFFICES ASSUME CheckInit PROVE CheckInv
  OBVIOUS
<1>1. LogInv /\ phase = "run"
  BY LogInvInit DEF CheckInit, LogInit
<1>2. place = <<1, 1>> /\ passes = 0 /\ ~ Reported
  BY DEF CheckInit, Reported
<1>3. CheckShape
  BY <1>1, <1>2 DEF CheckShape
<1>. QED  BY <1>1, <1>2, <1>3 DEF CheckInv, ClaimsSeen, FoundOK, ReportedOK

(* The run's own steps: nothing was validated yet.                         *)
LEMMA LiveStepKept ==
    ASSUME LogAssumption, CheckInv, LiveStep, UNCHANGED checkVars
    PROVE  CheckInv'
<1>1. LogInv /\ CheckShape
  BY DEF CheckInv
<1>2. LogInv'
  BY <1>1, RegisterLog, ScheduleLog, RouteLog, EndLog DEF LiveStep
<1>3. phase = "run" /\ phase' \in {"run", "idle"}
  BY DEF LiveStep, Register, ScheduleReread, Route, EndAttempt
<1>4. ~ Reported /\ Reported' = Reported /\ place' = place /\ passes' = passes
  BY <1>1, <1>3 DEF checkVars, Reported, CheckShape
<1>5. CheckShape'
  BY <1>1, <1>3, <1>4 DEF CheckShape
<1>. QED  BY <1>2, <1>3, <1>4, <1>5 DEF CheckInv, ClaimsSeen, FoundOK, ReportedOK

(* Nothing was examined before the first place.                            *)
LEMMA BeginKept ==
    ASSUME LogAssumption, CheckInv, NEW live, NEW cap, Begin(live, cap)
    PROVE  CheckInv'
<1>1. /\ phase = "idle" /\ phase' = "validate" /\ passes' = passes + 1
      /\ passes # 0 => providers' = providers
      /\ snapshot' = IF file.state = "ok"
                     THEN {n \in Numbers : file.entries[n] # Nothing} ELSE {}
      /\ place' = <<1, 1>> /\ found' = <<>>
      /\ UNCHANGED <<logVars, file, faults, previous>>
  BY DEF Begin
<1>2. LogInv /\ CheckShape /\ ReportedOK
  BY DEF CheckInv
<1>3. UNCHANGED <<attempt, obls, bodies, memory, file, cached, records, faults>>
  BY <1>1 DEF logVars
<1>4. LogInv'
  BY <1>1, <1>2, <1>3, LogKept
<1>5. records \in Seq(RecordType) /\ Len(records) \in Nat /\ passes \in Nat
      /\ DOMAIN records = 1 .. Len(records)
  BY <1>2 DEF LogInv, LogShape, CheckShape
<1>6. CheckShape'
  BY <1>1, <1>3, <1>5 DEF CheckShape
<1>7. Places' = Places /\ (\A p : ObligationAt(p)' = ObligationAt(p))
  BY <1>3 DEF Places, ObligationAt
<1>8. ClaimsSeen'
  <2>. SUFFICES ASSUME faults = 0, NEW p \in Places, ClaimsRecord(ObligationAt(p).status)
                PROVE  p[2] \in snapshot'
    BY <1>3, <1>7 DEF ClaimsSeen, Present, ClaimsRecord
  <2>1. p[1] \in DOMAIN records /\ p[2] \in Numbers /\ p[2] <= Len(records[p[1]].obls)
    BY <1>5 DEF Places
  <2>2. records[p[1]].obls \in Seq(ObligationType)
    <3>1. records[p[1]] \in RecordType
      BY <1>5, <2>1
    <3>. QED  BY <3>1 DEF RecordType
  <2>3. p[2] \in DOMAIN records[p[1]].obls
    BY <2>1, <2>2 DEF Numbers
  <2>4. Backed(ObligationAt(p), p[2])
    BY <1>2, <2>1, <2>3 DEF LogInv, ObligationsBacked, ObligationAt
  <2>5. memory[p[2]] # Nothing
    BY <2>4 DEF Backed
  <2>6. file.state = "ok" /\ file.entries[p[2]] # Nothing
    BY <1>2, <2>1, <2>5 DEF LogInv, FileFollowsLog
  <2>. QED  BY <1>1, <2>1, <2>6
<1>9. FoundOK'
  <2>1. Before(place)' = {}
    BY <1>1, <1>5, <1>7 DEF Before, Places, Numbers
  <2>2. Cardinality({}) = 0
    BY FS_EmptySet
  <2>3. found' \in Seq(OutcomeType) /\ Len(found') = 0
    BY <1>1
  <2>. QED  BY <2>1, <2>2, <2>3 DEF FoundOK
<1>10. ReportedOK'
  <2>1. CASE passes = 0
    <3>1. ~ Reported /\ previous' = previous
      BY <1>1, <1>2, <2>1 DEF CheckShape
    <3>. QED  BY <3>1 DEF ReportedOK, Reported
  <2>2. CASE passes # 0
    <3>1. SameBodies
      BY <1>1, <1>3, <2>2 DEF SameBodies
    <3>. QED  BY <1>1, <1>2, <3>1, QuietReport
  <2>. QED  BY <2>1, <2>2
<1>. QED  BY <1>4, <1>6, <1>8, <1>9, <1>10 DEF CheckInv

(* A record without obligations adds no place.                             *)
LEMMA SkipRecordKept ==
    ASSUME LogAssumption, CheckInv, SkipRecord
    PROVE  CheckInv'
<1>1. /\ phase = "validate" /\ phase' = phase /\ place[1] <= Len(records)
      /\ records[place[1]].obls = <<>> /\ place' = <<place[1] + 1, 1>>
      /\ UNCHANGED <<logVars, file, faults, providers, tier, snapshot, found,
                     previous, passes>>
  BY DEF SkipRecord, Examining
<1>2. LogInv /\ CheckShape /\ ClaimsSeen /\ FoundOK /\ ReportedOK
  BY DEF CheckInv
<1>3. UNCHANGED <<attempt, obls, bodies, memory, file, cached, records, faults>>
  BY <1>1 DEF logVars
<1>4. LogInv'
  BY <1>1, <1>2, <1>3, LogKept
<1>5. records \in Seq(RecordType) /\ Len(records) \in Nat
      /\ place \in Nat \X Nat /\ place[1] > 0 /\ place[2] > 0
  BY <1>2 DEF LogInv, LogShape, CheckShape
<1>6. CheckShape'
  BY <1>1, <1>2, <1>3, <1>5 DEF CheckShape, Reported
<1>7. SameBodies
  BY <1>1, <1>3 DEF SameBodies
<1>8. Places' = Places /\ (\A p : ObligationAt(p)' = ObligationAt(p))
      /\ (\A p : Index(p)' = Index(p))
      /\ OneAttempt' = OneAttempt /\ Reported' = Reported /\ Results' = Results
  BY <1>1, <1>3 DEF Places, ObligationAt, OneAttempt, Reported, Results, Index
<1>9. Before(place)' = Before(place)
  <2>1. \A q \in Places : q[1] \in Nat /\ q[2] \in Nat /\ q[2] > 0 /\ q[1] # place[1]
    BY <1>1, <1>5, SMTT(40) DEF Places, Numbers
  <2>2. place'[1] = place[1] + 1 /\ place'[2] = 1 /\ place[1] \in Nat
    BY <1>1, <1>5
  <2>3. \A q \in Places : (q[1] < place'[1] \/ (q[1] = place'[1] /\ q[2] < place'[2]))
                             <=> (q[1] < place[1] \/ (q[1] = place[1] /\ q[2] < place[2]))
    BY <2>1, <2>2
  <2>. QED  BY <1>8, <2>3 DEF Before
<1>10. FoundOK'
  <2>1. \A p \in Before(place) : OutcomeOK(p, found[Index(p)], tier.live)'
    <3>. SUFFICES ASSUME NEW p \in Before(place)
                  PROVE  OutcomeOK(p, found[Index(p)], tier.live)'
      OBVIOUS
    <3>1. p \in Places /\ OutcomeOK(p, found[Index(p)], tier.live)
      BY <1>1, <1>2 DEF FoundOK, Before
    <3>2. \A x, live : OutcomeOK(p, x, live) => OutcomeOK(p, x, live)'
      BY <1>3, <1>7, <3>1, QuietOutcomes
    <3>. QED  BY <1>1, <1>8, <3>1, <3>2
  <2>2. \A p \in Before(place) :
          /\ Index(p) \in DOMAIN found
          /\ found[Index(p)].status = ObligationAt(p).status
          /\ Reported /\ OneAttempt /\ faults = 0
                /\ Results[p].from \in {"recorded", "live"}
                => found[Index(p)].closure = Results[p].closure
    BY <1>1, <1>2 DEF FoundOK
  <2>3. found' = found /\ faults' = faults /\ found \in Seq(OutcomeType)
        /\ Len(found) = Cardinality(Before(place))
    BY <1>1, <1>2 DEF FoundOK
  <2>. QED  BY <1>8, <1>9, <2>1, <2>2, <2>3 DEF FoundOK
<1>11. ClaimsSeen' /\ ReportedOK'
  BY <1>1, <1>2, <1>3, <1>7, <1>8, QuietReport DEF ClaimsSeen, Present
<1>. QED  BY <1>4, <1>6, <1>10, <1>11 DEF CheckInv

(* The outcome with the status the final pass gives it.                    *)
Finished(x, status) == [x EXCEPT !.status = status]

(* An outcome stays true under its final status.                           *)
LEMMA StatusChanged ==
    ASSUME NEW p, NEW x, NEW live, OutcomeOK(p, x, live), NEW s \in FinalStatuses
    PROVE  /\ OutcomeOK(p, Finished(x, s), live)
           /\ Finished(x, s).status = s
           /\ Finished(x, s).attempted = x.attempted
           /\ Finished(x, s).method = x.method
           /\ Finished(x, s).closure = x.closure
<1>. DEFINE y == Finished(x, s)
<1>1. x \in OutcomeType
  BY DEF OutcomeOK
<1>2. /\ y \in OutcomeType /\ y.status = s /\ y.source = x.source /\ y.stage = x.stage
      /\ y.closure = x.closure /\ y.outcome = x.outcome /\ y.from = x.from
      /\ y.verified = x.verified /\ y.method = x.method /\ y.class = x.class
      /\ y.attempted = x.attempted /\ y.text = x.text /\ y.of = x.of
  BY <1>1 DEF OutcomeType, Finished
<1>. HIDE DEF y
<1>3. CleanOutcome(y)
  BY <1>2 DEF OutcomeOK, CleanOutcome
<1>4. TrueOutcome(p, y)
  BY <1>2 DEF OutcomeOK, TrueOutcome
<1>5. OrderlyOutcome(y, live)
  BY <1>2 DEF OutcomeOK, OrderlyOutcome
<1>6. OutcomeOK(p, y, live)
  BY <1>2, <1>3, <1>4, <1>5 DEF OutcomeOK
<1>. QED  BY <1>2, <1>6 DEF y

(* What the final pass makes of a status.                                  *)
LEMMA FinalFacts ==
    ASSUME LogAssumption, NEW p, NEW x, NEW live, OutcomeOK(p, x, live),
           x.status = ObligationAt(p).status, Sound(ObligationAt(p)),
           ObligationAt(p).status \in Statuses
    PROVE  /\ FinalStatus(x, p[2]) \in FinalStatuses
           /\ (ClaimsRecord(x.status) => Present(p[2]))
                 => FinalStatus(x, p[2]) # "rejudgment_missing_invariant_violation"
           /\ OneAttempt /\ x.method # "url_fallback"
                 => (FinalStatus(x, p[2]) # "" <=> x.attempted = TRUE)
<1>1. /\ x.attempted = TRUE <=> x.status # ""
      /\ OneAttempt /\ x.verified = TRUE /\ x.method # "url_fallback" => x.attempted = TRUE
      /\ x.verified \in BOOLEAN /\ x.status \in Statuses
  BY DEF OutcomeOK, OutcomeType, OrderlyOutcome, Sound
<1>2. CASE x.verified = TRUE
  BY <1>1, <1>2 DEF FinalStatus, FinalStatuses, Statuses
<1>3. CASE x.verified = FALSE
  BY <1>1, <1>3 DEF FinalStatus, FinalStatuses, Statuses, ClaimsRecord
<1>. QED  BY <1>1, <1>2, <1>3

(* Every place was examined when the report is written, and the final pass *)
(* changes no closure.                                                     *)
LEMMA ReportKept ==
    ASSUME LogAssumption, CheckInv, Report
    PROVE  /\ CheckInv'
           /\ OneAttempt /\ faults = 0 /\ Reported =>
                 \A p \in Places : Results[p].from \in {"recorded", "live"}
                    => previous'.outcome[p].closure = Results[p].closure
<1>1. /\ phase = "validate" /\ phase' = "idle" /\ place[1] > Len(records)
      /\ previous'.tier = tier
      /\ previous'.outcome = [p \in Places |->
                                 [found[Index(p)] EXCEPT
                                     !.status = FinalStatus(found[Index(p)], p[2])]]
      /\ place' = <<1, 1>>
      /\ UNCHANGED <<logVars, file, faults, providers, passes>>
  BY DEF Report
<1>2. LogInv /\ CheckShape /\ ClaimsSeen /\ FoundOK
  BY DEF CheckInv
<1>3. UNCHANGED <<attempt, obls, bodies, memory, file, cached, records, faults>>
  BY <1>1 DEF logVars
<1>4. LogInv'
  BY <1>1, <1>2, <1>3, LogKept
<1>5. records \in Seq(RecordType) /\ Len(records) \in Nat /\ place \in Nat \X Nat
      /\ DOMAIN records = 1 .. Len(records)
  BY <1>2 DEF LogInv, LogShape, CheckShape
<1>6. CheckShape'
  BY <1>1, <1>2 DEF CheckShape
<1>7. SameBodies
  BY <1>1, <1>3 DEF SameBodies
<1>8. Places' = Places /\ (\A p : ObligationAt(p)' = ObligationAt(p))
      /\ OneAttempt' = OneAttempt /\ Results' = previous'.outcome
  BY <1>3 DEF Places, ObligationAt, OneAttempt, Results
<1>9. Before(place) = Places
  <2>1. \A q \in Places : q[1] \in Nat /\ q[1] <= Len(records)
    BY <1>5 DEF Places
  <2>. QED  BY <1>1, <1>5, <2>1 DEF Before
<1>10. ASSUME NEW p \in Places
       PROVE  /\ OutcomeOK(p, previous'.outcome[p], tier.live)
              /\ faults = 0 => previous'.outcome[p].status
                                  # "rejudgment_missing_invariant_violation"
              /\ OneAttempt /\ previous'.outcome[p].method # "url_fallback"
                    => (previous'.outcome[p].status # ""
                          <=> previous'.outcome[p].attempted = TRUE)
              /\ previous'.outcome[p].closure = found[Index(p)].closure
  <2>. DEFINE x == found[Index(p)]
              s == FinalStatus(x, p[2])
  <2>1. OutcomeOK(p, x, tier.live) /\ x.status = ObligationAt(p).status
    BY <1>1, <1>2, <1>9 DEF FoundOK
  <2>2. Sound(ObligationAt(p)) /\ ObligationAt(p).status \in Statuses
    <3>1. /\ p[1] \in DOMAIN records /\ p[2] \in Numbers
          /\ p[2] <= Len(records[p[1]].obls)
      BY <1>5 DEF Places
    <3>2. records[p[1]] \in RecordType
      BY <1>5, <3>1
    <3>3. records[p[1]].obls \in Seq(ObligationType)
      BY <3>2 DEF RecordType
    <3>4. p[2] \in DOMAIN records[p[1]].obls
      BY <3>1, <3>3 DEF Numbers
    <3>5. ObligationAt(p) \in ObligationType
      BY <3>3, <3>4 DEF ObligationAt
    <3>6. Backed(ObligationAt(p), p[2])
      BY <1>2, <3>1, <3>4 DEF LogInv, ObligationsBacked, ObligationAt
    <3>. QED  BY <3>5, <3>6 DEF Backed, ObligationType
  <2>. HIDE DEF x
  <2>3. /\ s \in FinalStatuses
        /\ (ClaimsRecord(x.status) => Present(p[2]))
              => s # "rejudgment_missing_invariant_violation"
        /\ OneAttempt /\ x.method # "url_fallback" => (s # "" <=> x.attempted = TRUE)
    BY <2>1, <2>2, FinalFacts
  <2>4. faults = 0 => (ClaimsRecord(x.status) => Present(p[2]))
    BY <1>1, <1>2, <2>1 DEF ClaimsSeen
  <2>. HIDE DEF s
  <2>5. /\ OutcomeOK(p, Finished(x, s), tier.live) /\ Finished(x, s).status = s
        /\ Finished(x, s).attempted = x.attempted
        /\ Finished(x, s).method = x.method /\ Finished(x, s).closure = x.closure
    <3>1. OutcomeOK(p, x, tier.live) /\ s \in FinalStatuses
      BY <2>1, <2>3
    <3>. QED  BY ONLY <3>1, StatusChanged
  <2>6. previous'.outcome[p] = Finished(x, s)
    BY <1>1 DEF x, s, Finished
  <2>. QED  BY <2>3, <2>4, <2>5, <2>6 DEF x
<1>11. ReportedOK'
  <2>1. DOMAIN Results' = Places'
    BY <1>1, <1>8
  <2>2. \A p \in Places : OutcomeOK(p, Results[p], previous.tier.live)'
    <3>. SUFFICES ASSUME NEW p \in Places
                  PROVE  OutcomeOK(p, Results[p], previous.tier.live)'
      OBVIOUS
    <3>1. \A x, live : OutcomeOK(p, x, live) => OutcomeOK(p, x, live)'
      BY <1>3, <1>7, QuietOutcomes
    <3>. QED  BY <1>1, <1>8, <1>10, <3>1
  <2>. QED  BY <1>3, <1>8, <1>10, <2>1, <2>2 DEF ReportedOK
<1>12. OneAttempt /\ faults = 0 /\ Reported =>
          \A p \in Places : Results[p].from \in {"recorded", "live"}
             => previous'.outcome[p].closure = Results[p].closure
  BY <1>1, <1>2, <1>9, <1>10 DEF FoundOK
<1>13. ClaimsSeen' /\ FoundOK'
  BY <1>1 DEF ClaimsSeen, FoundOK
<1>. QED  BY <1>4, <1>6, <1>11, <1>12, <1>13 DEF CheckInv

(* The invariant holds after every step.                                   *)
LEMMA CheckInvStep ==
    ASSUME LogAssumption, CheckInv, [CheckNext]_validationVars
    PROVE  CheckInv'
<1>1. CASE UNCHANGED validationVars
  <2>1. LogInv /\ CheckShape /\ ClaimsSeen /\ FoundOK /\ ReportedOK
    BY DEF CheckInv
  <2>2. UNCHANGED <<phase, attempt, obls, bodies, memory, file, cached, records,
                    faults, providers, tier, snapshot, place, found, previous, passes>>
    BY <1>1 DEF validationVars, logVars, checkVars
  <2>3. LogInv'
    BY <2>1, <2>2 DEF LogInv, LogShape, ObligationsBacked, Backed, FileFollowsLog,
                      OneRecord, EntriesAreOwn, OwnEntry, OnlyObls, OneAttempt
  <2>4. CheckShape' /\ ClaimsSeen'
    BY <2>1, <2>2 DEF CheckShape, ClaimsSeen, Reported, Places, ObligationAt, Present
  <2>5. SameBodies
    BY <2>2 DEF SameBodies
  <2>6. ReportedOK'
    BY <2>1, <2>2, <2>5, QuietReport
  <2>7. FoundOK'
    <3>1. Before(place)' = Before(place) /\ (\A p : ObligationAt(p)' = ObligationAt(p))
          /\ (\A p : Index(p)' = Index(p))
          /\ OneAttempt' = OneAttempt /\ Reported' = Reported /\ Results' = Results
      BY <2>2 DEF Before, Places, ObligationAt, OneAttempt, Reported, Results, Index
    <3>. SUFFICES ASSUME phase = "validate"
                  PROVE  \A p \in Before(place) : OutcomeOK(p, found[Index(p)], tier.live)'
      BY <2>1, <2>2, <3>1 DEF FoundOK
    <3>. SUFFICES ASSUME NEW p \in Before(place)
                  PROVE  OutcomeOK(p, found[Index(p)], tier.live)'
      OBVIOUS
    <3>2. p \in Places /\ OutcomeOK(p, found[Index(p)], tier.live)
      BY <2>1 DEF FoundOK, Before
    <3>3. \A x, live : OutcomeOK(p, x, live) => OutcomeOK(p, x, live)'
      BY <2>2, <2>5, <3>2, QuietOutcomes
    <3>. QED  BY <2>2, <3>1, <3>2, <3>3
  <2>. QED  BY <2>3, <2>4, <2>6, <2>7 DEF CheckInv
<1>2. CASE CheckNext
  <2>1. CASE LiveStep /\ UNCHANGED checkVars
    BY <2>1, LiveStepKept
  <2>2. CASE Begin(FALSE, 0)
    BY <2>2, BeginKept
  <2>3. CASE \E cap \in Caps : Begin(TRUE, cap)
    BY <2>3, BeginKept
  <2>4. CASE SkipRecord
    BY <2>4, SkipRecordKept
  <2>5. CASE NotJudgeable \/ UseRecorded \/ Unverified \/ Pending \/ RejudgeLive
    BY <2>5, NotJudgeableKept, UseRecordedKept, UnverifiedKept, PendingKept,
       RejudgeLiveKept
  <2>6. CASE Report
    BY <2>6, ReportKept
  <2>7. CASE Done
    BY <1>1, <2>7 DEF Done
  <2>. QED  BY <1>2, <2>1, <2>2, <2>3, <2>4, <2>5, <2>6, <2>7 DEF CheckNext
<1>. QED  BY <1>1, <1>2

(* Every obligation is as its attempt left it, the file follows memory     *)
(* until a write fails, and each outcome of a validation is true.          *)
THEOREM CheckInvariant == CheckSpec => []CheckInv
<1>1. CheckInit => CheckInv
  BY CheckInvInit, LogAssumption
<1>2. CheckInv /\ [CheckNext]_validationVars => CheckInv'
  BY CheckInvStep, LogAssumption
<1>. QED  BY <1>1, <1>2, PTL DEF CheckSpec

-----------------------------------------------------------------------------
(* ReplayValidation: the properties.                                       *)

(* A recorded verdict is the one the run gave this obligation.             *)
THEOREM AgreesWithRunHolds == CheckSpec => []AgreesWithRun
<1>1. CheckInv => AgreesWithRun
  <2>. SUFFICES ASSUME CheckInv, Reported, OneAttempt, faults = 0,
                       NEW p \in With("method", {"body_id"}) \cap With("from", {"recorded"})
                PROVE  /\ Results[p].of = <<records[p[1]].attempt, p[2]>>
                       /\ Results[p].closure = ClosureIn(ObligationAt(p).resolution)
    BY DEF AgreesWithRun, ClosureIn, ObligationAt
  <2>1. p \in Places /\ Results[p].method = "body_id" /\ Results[p].from = "recorded"
    BY DEF With, CheckInv, ReportedOK
  <2>2. /\ Results[p].of = <<1, p[2]>>
        /\ Results[p].closure = ClosureIn(ObligationAt(p).resolution)
    BY <2>1 DEF CheckInv, ReportedOK, OutcomeOK, TrueOutcome
  <2>3. records[p[1]].attempt = 1
    <3>1. phase # "run" /\ Len(records) = 1 /\ records[1].attempt = 1
      BY DEF CheckInv, CheckShape, LogInv, OneRecord
    <3>2. p[1] = 1
      BY <2>1, <3>1 DEF Places
    <3>. QED  BY <3>1, <3>2
  <2>. QED  BY <2>2, <2>3
<1>. QED  BY <1>1, CheckInvariant, PTL

(* A verdict is missing only if a write failed.                            *)
THEOREM MissingOnlyIfLostHolds == CheckSpec => []MissingOnlyIfLost
<1>1. CheckInv => MissingOnlyIfLost
  <2>. SUFFICES ASSUME CheckInv, Reported,
                       NEW p \in With("status", {"rejudgment_missing_invariant_violation"})
                PROVE  faults > 0
    BY DEF MissingOnlyIfLost
  <2>1. /\ p \in Places
        /\ Results[p].status = "rejudgment_missing_invariant_violation"
    BY DEF With, CheckInv, ReportedOK
  <2>2. faults # 0
    BY <2>1 DEF CheckInv, ReportedOK
  <2>. QED  BY <2>2 DEF CheckInv, LogInv, LogShape
<1>. QED  BY <1>1, CheckInvariant, PTL

(* A verified text is uncontaminated and was registered.                   *)
THEOREM VerifiedTextIsCleanHolds == CheckSpec => []VerifiedTextIsClean
<1>1. CheckInv => VerifiedTextIsClean
  <2>. SUFFICES ASSUME CheckInv, Reported,
                       NEW p \in With("method", {"body_id"}) \cap With("from", {"recorded"})
                PROVE  /\ Results[p].text \notin Dirty
                       /\ \E r \in DOMAIN records :
                             \E b \in records[r].bodies : b.text = Results[p].text
    BY DEF VerifiedTextIsClean
  <2>1. p \in Places /\ Results[p].method = "body_id" /\ Results[p].from = "recorded"
    BY DEF With, CheckInv, ReportedOK
  <2>2. CleanOutcome(Results[p])
    BY <2>1 DEF CheckInv, ReportedOK, OutcomeOK
  <2>. QED  BY <2>1, <2>2 DEF CleanOutcome
<1>. QED  BY <1>1, CheckInvariant, PTL

(* The report of an offline validation is consistent.                      *)
THEOREM ConsistentOfflineHolds == CheckSpec => []ConsistentOffline
<1>1. CheckInv => ConsistentOffline
  <2>. SUFFICES ASSUME CheckInv, Reported, OneAttempt, ~ previous.tier.live,
                       With("method", {"url_fallback"}) = {}
                PROVE  Consistent
    BY DEF ConsistentOffline
  <2>1. DOMAIN Results = Places
    BY DEF CheckInv, ReportedOK
  <2>2. ASSUME NEW p \in Places
        PROVE  /\ OrderlyOutcome(Results[p], FALSE)
               /\ Results[p] \in OutcomeType
               /\ Results[p].method # "url_fallback"
               /\ Results[p].status # "" <=> Results[p].attempted = TRUE
    <3>1. Results[p].method # "url_fallback"
      BY <2>1 DEF With
    <3>. QED  BY <3>1 DEF CheckInv, ReportedOK, OutcomeOK, OrderlyOutcome
  <2>3. AttemptsReconcile
    <3>1. With("attempted", {TRUE}) = DOMAIN Results \ With("status", {""})
      BY <2>1, <2>2 DEF With
    <3>. QED  BY <3>1 DEF AttemptsReconcile
  <2>4. OutcomesPartition
    <3>1. With("from", {"recorded"}) = With("stage", JudgedStages)
      BY <2>1, <2>2 DEF With, OrderlyOutcome
    <3>. QED  BY <3>1 DEF OutcomesPartition
  <2>5. DiagnosticsStayDiagnostic
    BY <2>1, <2>2 DEF DiagnosticsStayDiagnostic, With, OrderlyOutcome, JudgedStages,
                      BodyStages
  <2>6. ClosureMatchesStage
    BY <2>1, <2>2 DEF ClosureMatchesStage, With, OrderlyOutcome
  <2>7. UnverifiableHasClass
    BY <2>1, <2>2 DEF UnverifiableHasClass, With, OrderlyOutcome
  <2>. QED  BY <2>3, <2>4, <2>5, <2>6, <2>7 DEF Consistent
<1>. QED  BY <1>1, CheckInvariant, PTL

(* A later validation agrees with the one before.                          *)
THEOREM SecondPassAgreesHolds == CheckSpec => SecondPassAgrees
<1>1. CheckInv /\ [CheckNext]_validationVars =>
         [Reported /\ previous' # previous /\ OneAttempt /\ faults = 0
             => \A p \in With("from", {"recorded", "live"}) :
                   previous'.outcome[p].closure = Results[p].closure]_validationVars
  <2>. SUFFICES ASSUME CheckInv, [CheckNext]_validationVars,
                       Reported, previous' # previous, OneAttempt, faults = 0,
                       NEW p \in With("from", {"recorded", "live"})
                PROVE  previous'.outcome[p].closure = Results[p].closure
    OBVIOUS
  <2>1. Report
    BY DEF CheckNext, validationVars, checkVars, Begin, SkipRecord, NotJudgeable,
           UseRecorded, Unverified, Pending, RejudgeLive, JudgeLive, Keep, Done
  <2>2. p \in Places /\ Results[p].from \in {"recorded", "live"}
    BY DEF With, CheckInv, ReportedOK
  <2>. QED  BY <2>1, <2>2, ReportKept, LogAssumption
<1>. QED  BY <1>1, CheckInvariant, PTL DEF CheckSpec, SecondPassAgrees

===============================================================================
