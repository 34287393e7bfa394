------------------------ MODULE PendingServiceSafety ------------------------
(***************************************************************************)
(* The pending-read service, proved: its shape (ShapeInv), its calls and   *)
(* statuses (RecordInv, ServedInv), its re-reads (RereadInv), and that it  *)
(* implements ServicePromise (AttemptInv).                                 *)
(***************************************************************************)
EXTENDS PendingService, ListFacts, SequenceTheorems

-----------------------------------------------------------------------------
(* Type correctness of PendingService, by an inductive strengthening of    *)
(* TypeOK: a read on its way has a clean URL, a URL the service attempted  *)
(* has unsuppressed obligations, a queued re-read belongs to a live        *)
(* obligation, and a call in progress fits the budget.  Every step is      *)
(* either a change of single entries of the obligations (Reshaped,         *)
(* SparesSuppressed) or the arrival of a new one.                          *)

(* A queued re-read plan belongs to a live obligation with a clean URL.    *)
DueIsServable ==
    \A i \in Ids : obl[i].due # NotDue => ~ obl[i].suppressed /\ obl[i].url # NoUrl

(* A read names a clean URL.                                               *)
StepIsAddressed == step.kind \notin {"none", "search"} => step.url \in Urls

(* A scheduled fallback was preceded by an attempt, and an attempt by an   *)
(* unsuppressed obligation.                                                *)
AttemptedHasMembers ==
    \A u \in Urls : /\ svc[u].scheduled => svc[u].attempted
                    /\ svc[u].attempted => Members(u) # {}

(* The URL of a service read counts as attempted.                          *)
ServiceIsAttempted == step.kind \in ServiceKinds => svc[step.url].attempted

(* A call is only under way while the budget allows it.                    *)
CallFitsBudget == pc \in {"call", "ingest", "close"} => calls < Budget

(* The inductive invariant behind type correctness.                        *)
ShapeInv ==
    /\ TypeOK
    /\ SuppressedIsInert
    /\ DueIsServable
    /\ StepIsAddressed
    /\ ServiceIsAttempted
    /\ AttemptedHasMembers
    /\ CallFitsBudget

(* The URL and the suppression of an obligation never change.              *)
Reshaped(s) ==
    /\ s \in Seq(Obligation)
    /\ Len(s) = Len(obl)
    /\ \A i \in Ids : s[i].url = obl[i].url /\ s[i].suppressed = obl[i].suppressed

(* A step that keeps URLs and suppressions keeps every URL group.          *)
LEMMA MembersKept ==
    ASSUME TypeOK, Reshaped(obl'), NEW u
    PROVE  Ids' = Ids /\ Members(u)' = Members(u)
  BY DEF Members, Ids, Reshaped, TypeOK, Obligation

(* _build_service_read_plan's lead obligation is one of the group.         *)
LEMMA LeadIsMember ==
    ASSUME TypeOK, NEW u, Members(u) # {}
    PROVE  Lead(u) \in Members(u)
<1>. DEFINE live == {i \in Members(u) : Routable(i)}
            from == IF live = {} THEN Members(u) ELSE live
<1>1. from # {} /\ from \subseteq Members(u) /\ from \in SUBSET Nat
  BY DEF Members, Ids
<1>2. \E i \in from : \A j \in from : i <= j
  <2>. HIDE DEF from
  <2>. QED  BY <1>1, Smallest
<1>. QED  BY <1>1, <1>2 DEF Lead

(* Marking an obligation as selected keeps its type.                       *)
LEMMA SelectedIsObligation ==
    ASSUME NEW o \in Obligation
    PROVE  [o EXCEPT !.selected = TRUE] \in Obligation
  BY DEF Obligation

(* What TypeOK says of the obligations, as a function on their indices.    *)
LEMMA IdsType ==
    ASSUME TypeOK
    PROVE  /\ Len(obl) \in Nat
           /\ Ids = 1 .. Len(obl)
           /\ obl \in [Ids -> Obligation]
           /\ \A i \in Ids : obl[i] \in Obligation
  BY DEF TypeOK, Ids

(* Selecting a group for a read keeps every URL and touches live members   *)
(* only.                                                                   *)
LEMMA SelectReshapes ==
    ASSUME TypeOK, NEW u
    PROVE  /\ Reshaped(Select(u))
           /\ \A i \in Ids : Select(u)[i] \in {obl[i], [obl[i] EXCEPT !.selected = TRUE]}
           /\ \A i \in Ids : Select(u)[i] # obl[i] =>
                 ~ obl[i].suppressed /\ Routable(i) /\ obl[i].url = u
<1>0. \A i \in Ids : Select(u)[i] = IF i \in Members(u) /\ Routable(i)
                                    THEN [obl[i] EXCEPT !.selected = TRUE] ELSE obl[i]
  BY DEF Select
<1>1. Select(u) \in [1 .. Len(obl) -> Obligation]
  BY SelectedIsObligation, IdsType DEF Select
<1>2. Select(u) \in Seq(Obligation) /\ Len(Select(u)) = Len(obl)
  BY <1>1, IsASeq, IdsType
<1>3. ASSUME NEW i \in Ids
      PROVE  Select(u)[i].url = obl[i].url /\ Select(u)[i].suppressed = obl[i].suppressed
  BY <1>0, IdsType DEF Obligation
<1>4. \A i \in Ids : i \in Members(u) => ~ obl[i].suppressed /\ obl[i].url = u
  BY DEF Members
<1>. QED  BY <1>0, <1>2, <1>3, <1>4 DEF Reshaped

(* The shape invariant holds of a new item.                                *)
THEOREM ShapeInit == ASSUME ServiceAssumption PROVE Init => ShapeInv
<1>. SUFFICES ASSUME Init PROVE ShapeInv
  OBVIOUS
<1>1. obl \in Seq(Obligation) /\ Len(obl) = 0 /\ Ids = {}
  BY DEF Init, Ids
<1>2. svc \in [Urls -> ServiceRecord]
  BY DEF Init, NewRecord, ServiceRecord, UrlStatuses
<1>3. step \in Step
  BY DEF Init, NoStep, Step, Kinds
<1>4. TypeOK
  BY <1>1, <1>2, <1>3 DEF Init, TypeOK, Outcomes, ServiceAssumption
<1>5. AttemptedHasMembers
  BY DEF Init, AttemptedHasMembers, NewRecord
<1>6. StepIsAddressed /\ ServiceIsAttempted /\ CallFitsBudget
  BY DEF Init, StepIsAddressed, ServiceIsAttempted, CallFitsBudget, NoStep, ServiceKinds
<1>. QED  BY <1>1, <1>4, <1>5, <1>6 DEF ShapeInv, SuppressedIsInert, DueIsServable

(* Groups stay nonempty as long as they keep their members.                *)
LEMMA GroupsKept ==
    ASSUME ShapeInv, Reshaped(obl'),
           \A u \in Urls : /\ svc'[u].scheduled => svc'[u].attempted
                           /\ svc'[u].attempted => svc[u].attempted \/ Members(u) # {}
    PROVE  AttemptedHasMembers'
  BY MembersKept DEF ShapeInv, AttemptedHasMembers

(* The plan of a service read names a candidate.                           *)
LEMMA LeadCand ==
    ASSUME TypeOK, NEW u \in Urls, Members(u) # {}
    PROVE  CandOf[obl[Lead(u)].triple] \in Cands
<1>1. Lead(u) \in Ids
  BY LeadIsMember DEF Members
<1>. QED  BY <1>1, IdsType, ServiceAssumption DEF Obligation

(* Selecting a group leaves suppressed obligations and queued plans alone. *)
LEMMA SelectKeepsInert ==
    ASSUME ShapeInv, NEW u, obl' = Select(u)
    PROVE  /\ Reshaped(obl') /\ SuppressedIsInert' /\ DueIsServable'
           /\ obl' \in Seq(Obligation) /\ Len(obl') <= MaxObligations
<1>1. Reshaped(obl') /\ Ids' = Ids
  BY SelectReshapes, MembersKept DEF ShapeInv
<1>2. ASSUME NEW i \in Ids
      PROVE /\ obl[i].suppressed => obl'[i] = obl[i]
            /\ obl'[i].due = obl[i].due
  BY SelectReshapes, IdsType DEF ShapeInv, Obligation
<1>3. SuppressedIsInert'
  BY <1>1, <1>2 DEF ShapeInv, SuppressedIsInert, Reshaped
<1>4. DueIsServable'
  BY <1>1, <1>2 DEF ShapeInv, DueIsServable, Reshaped
<1>. QED  BY <1>1, <1>3, <1>4 DEF Reshaped, ShapeInv, TypeOK

(* Planning a service read or a re-read keeps the types and addresses the  *)
(* step.                                                                   *)
LEMMA PlanShape ==
    ASSUME ShapeInv, NEW kind \in ServiceKinds \cup {"reread"}, NEW u \in Urls, NEW tool \in Tools,
           Members(u) # {}, PlanServiceRead(kind, u, tool), Proposing,
           svc' \in [Urls -> ServiceRecord], obl' \in Seq(Obligation), Len(obl') <= MaxObligations,
           kind \in ServiceKinds => svc'[u].attempted
    PROVE  TypeOK' /\ StepIsAddressed' /\ ServiceIsAttempted' /\ CallFitsBudget'
<1>1. step' \in Step
  BY LeadCand DEF ShapeInv, PlanServiceRead, Step, Kinds, ServiceKinds
<1>. QED  BY <1>1 DEF ShapeInv, TypeOK, StepIsAddressed, ServiceIsAttempted, CallFitsBudget,
                       PlanServiceRead, Proposing, ServiceKinds

(* Recording an attempt or a fallback keeps a service record's type.       *)
LEMMA RecordUpdates ==
    ASSUME NEW r \in ServiceRecord, NEW tool \in Tools
    PROVE  /\ [r EXCEPT !.fallback = TRUE, !.recorded = FALSE,
                        !.tried = r.tried \cup {tool}] \in ServiceRecord
           /\ [r EXCEPT !.attempted = TRUE, !.recorded = FALSE,
                        !.tried = r.tried \cup {tool}] \in ServiceRecord
  BY DEF ServiceRecord

(* A fallback step keeps the shape invariant.                              *)
LEMMA FallbackShape ==
    ASSUME ShapeInv, NEW u \in Urls, ServiceFallback(u)
    PROVE  ShapeInv'
<1>1. PICK tool \in Untried(u) :
        /\ svc' = [svc EXCEPT ![u] = [svc[u] EXCEPT
                      !.fallback = TRUE, !.recorded = FALSE,
                      !.tried = svc[u].tried \cup {tool}]]
        /\ PlanServiceRead("fallback", u, tool)
  BY DEF ServiceFallback
<1>2. tool \in Tools
  BY <1>1, ServiceAssumption DEF Untried
<1>3. svc' \in [Urls -> ServiceRecord]
  BY <1>1, <1>2, RecordUpdates DEF ShapeInv, TypeOK
<1>4. Members(u) # {}
  BY DEF ShapeInv, AttemptedHasMembers, ServiceFallback, FallbackDue
<1>5. /\ Reshaped(obl') /\ SuppressedIsInert' /\ DueIsServable'
      /\ obl' \in Seq(Obligation) /\ Len(obl') <= MaxObligations
  BY SelectKeepsInert DEF ServiceFallback
<1>7. \A v \in Urls : svc'[v].scheduled = svc[v].scheduled /\ svc'[v].attempted = svc[v].attempted
  BY <1>1 DEF ShapeInv, TypeOK, ServiceRecord
<1>a. svc[u].attempted
  BY DEF ServiceFallback, FallbackDue, ShapeInv, AttemptedHasMembers
<1>6. TypeOK' /\ StepIsAddressed' /\ ServiceIsAttempted' /\ CallFitsBudget'
  BY <1>1, <1>2, <1>3, <1>4, <1>5, <1>7, <1>a, PlanShape DEF ServiceFallback, ServiceKinds
<1>8. AttemptedHasMembers'
  BY <1>5, <1>7, GroupsKept DEF ShapeInv, AttemptedHasMembers
<1>. QED  BY <1>5, <1>6, <1>8 DEF ShapeInv

(* Passing URLs over keeps the registry's type and every attempt.          *)
LEMMA PassingKeeps ==
    ASSUME TypeOK, NEW S
    PROVE  /\ AfterPassing(S) \in [Urls -> ServiceRecord]
           /\ \A u \in Urls : /\ AfterPassing(S)[u].attempted = svc[u].attempted
                              /\ AfterPassing(S)[u].scheduled = svc[u].scheduled
<1>1. \A u \in Urls : svc[u] \in ServiceRecord
  BY DEF TypeOK
<1>2. \A u \in Urls : /\ PassOver(u) \in ServiceRecord
                      /\ PassOver(u).attempted = svc[u].attempted
                      /\ PassOver(u).scheduled = svc[u].scheduled
  BY <1>1 DEF PassOver, ServiceRecord, UrlStatuses
<1>. QED  BY <1>1, <1>2 DEF AfterPassing

(* A URL the service may read belongs to an unsuppressed obligation.       *)
LEMMA UndecidedHasMembers ==
    ASSUME ShapeInv, NEW u \in Urls, Undecided(u)
    PROVE  Members(u) # {}
<1>1. PICK i \in Queue : obl[i].url = u
  BY DEF Undecided
<1>2. i \in Members(u)
  BY <1>1 DEF Queue, Open, Members, ShapeInv, SuppressedIsInert
<1>. QED  BY <1>2

(* A first service read keeps the shape invariant.                         *)
LEMMA FreshShape ==
    ASSUME ShapeInv, NEW u \in Urls, ServiceFresh(u)
    PROVE  ShapeInv'
<1>1. PICK tool \in Enabled, before \in SUBSET PassedOver :
        /\ svc' = [AfterPassing(before) EXCEPT ![u] = [svc[u] EXCEPT
                      !.attempted = TRUE, !.recorded = FALSE,
                      !.tried = svc[u].tried \cup {tool}]]
        /\ PlanServiceRead("service", u, tool)
  BY DEF ServiceFresh
<1>2. tool \in Tools
  BY ServiceAssumption
<1>p. AfterPassing(before) \in [Urls -> ServiceRecord]
  BY PassingKeeps DEF ShapeInv
<1>3. svc' \in [Urls -> ServiceRecord]
  BY <1>1, <1>2, <1>p, RecordUpdates DEF ShapeInv, TypeOK
<1>4. Members(u) # {}
  BY UndecidedHasMembers DEF ServiceFresh, Fresh
<1>5. /\ Reshaped(obl') /\ SuppressedIsInert' /\ DueIsServable'
      /\ obl' \in Seq(Obligation) /\ Len(obl') <= MaxObligations
  BY SelectKeepsInert DEF ServiceFresh
<1>s. svc[u] \in ServiceRecord
  BY DEF ShapeInv, TypeOK
<1>7. \A v \in Urls : IF v = u THEN svc'[v].scheduled = svc[v].scheduled /\ svc'[v].attempted
                      ELSE svc'[v] = AfterPassing(before)[v]
  BY <1>1, <1>p, <1>s DEF ServiceRecord
<1>6. TypeOK' /\ StepIsAddressed' /\ ServiceIsAttempted' /\ CallFitsBudget'
  BY <1>1, <1>2, <1>3, <1>4, <1>5, <1>7, PlanShape DEF ServiceFresh, ServiceKinds
<1>8. AttemptedHasMembers'
  BY <1>4, <1>5, <1>7, GroupsKept, PassingKeeps DEF ShapeInv, AttemptedHasMembers
<1>. QED  BY <1>5, <1>6, <1>8 DEF ShapeInv

(* A change that leaves suppressed obligations alone, and arms a re-read   *)
(* only for an unsuppressed obligation with a clean URL.                   *)
SparesSuppressed(s) ==
    /\ Reshaped(s)
    /\ \A i \in Ids : /\ obl[i].suppressed => s[i] = obl[i]
                      /\ \/ s[i].due = NotDue
                         \/ s[i].due = obl[i].due
                         \/ ~ obl[i].suppressed /\ obl[i].url # NoUrl

(* A change that spares suppressed obligations keeps them inert.           *)
LEMMA SparingKeepsInert ==
    ASSUME ShapeInv, SparesSuppressed(obl')
    PROVE  /\ Reshaped(obl') /\ SuppressedIsInert' /\ DueIsServable'
           /\ obl' \in Seq(Obligation) /\ Len(obl') <= MaxObligations
<1>1. Reshaped(obl') /\ Ids' = Ids
  BY MembersKept DEF ShapeInv, SparesSuppressed
<1>2. SuppressedIsInert'
  BY <1>1 DEF ShapeInv, SuppressedIsInert, Reshaped, SparesSuppressed
<1>3. DueIsServable'
  BY <1>1 DEF ShapeInv, DueIsServable, Reshaped, SparesSuppressed
<1>. QED  BY <1>1, <1>2, <1>3 DEF Reshaped, ShapeInv, TypeOK

(* A vector on the same indices, with the same URLs, keeps the shape.      *)
LEMMA EntryUpdates ==
    ASSUME TypeOK, NEW s, s \in [Ids -> Obligation],
           \A i \in Ids : /\ s[i].url = obl[i].url
                          /\ s[i].suppressed = obl[i].suppressed
    PROVE  Reshaped(s)
<1>1. s \in Seq(Obligation) /\ Len(s) = Len(obl)
  BY IdsType, IsASeq
<1>. QED  BY <1>1 DEF Reshaped

(* Taking a re-read plan off the queue changes nothing else.               *)
LEMMA DueUpdate ==
    ASSUME NEW o \in Obligation
    PROVE  /\ [o EXCEPT !.due = NotDue] \in Obligation
           /\ [o EXCEPT !.due = NotDue].url = o.url
           /\ [o EXCEPT !.due = NotDue].suppressed = o.suppressed
           /\ [o EXCEPT !.due = NotDue].due = NotDue
  BY DEF Obligation, NotDue

(* A re-read step keeps the shape invariant.                               *)
LEMMA RereadShape ==
    ASSUME ShapeInv, NEW i \in Ids, ServiceReread(i)
    PROVE  ShapeInv'
<1>. DEFINE u == obl[i].url
            m == Select(u)
<1>1. ~ obl[i].suppressed /\ u \in Urls /\ i \in Members(u) /\ i \in Ids
  BY IdsType DEF ServiceReread, NextDue, DuePlans, ShapeInv, DueIsServable, Members, Obligation
<1>2. m \in [Ids -> Obligation]
  BY SelectReshapes, IdsType, SelectedIsObligation DEF ShapeInv, Select
<1>3. obl' = [m EXCEPT ![i] = [m[i] EXCEPT !.due = NotDue]]
  BY DEF ServiceReread
<1>4. obl' \in [Ids -> Obligation]
  BY <1>1, <1>2, <1>3, DueUpdate
<1>5. \A j \in Ids : m[j].url = obl[j].url /\ m[j].suppressed = obl[j].suppressed
  BY SelectReshapes DEF ShapeInv, Reshaped
<1>6. \A j \in Ids : /\ obl'[j].url = obl[j].url /\ obl'[j].suppressed = obl[j].suppressed
                     /\ IF j = i THEN obl'[j].due = NotDue ELSE obl'[j] = m[j]
  <2>. HIDE DEF m
  <2>. QED  BY <1>1, <1>2, <1>3, <1>5, DueUpdate
<1>7. \A j \in Ids : /\ obl[j].suppressed => m[j] = obl[j]
                     /\ m[j].due = obl[j].due
  BY SelectReshapes, IdsType DEF ShapeInv, Obligation
<1>r. Reshaped(obl')
  BY <1>4, <1>6, EntryUpdates DEF ShapeInv
<1>8. SparesSuppressed(obl')
  BY <1>1, <1>6, <1>7, <1>r DEF SparesSuppressed
<1>9. /\ Reshaped(obl') /\ SuppressedIsInert' /\ DueIsServable'
      /\ obl' \in Seq(Obligation) /\ Len(obl') <= MaxObligations
  BY <1>8, SparingKeepsInert
<1>10. svc' = AfterPassing(PassedOver)
  BY DEF ServiceReread
<1>11. PICK tool \in Enabled : PlanServiceRead("reread", u, tool)
  BY DEF ServiceReread
<1>12. TypeOK' /\ StepIsAddressed' /\ ServiceIsAttempted' /\ CallFitsBudget'
  BY <1>1, <1>9, <1>10, <1>11, PassingKeeps, PlanShape, ServiceAssumption
  DEF ShapeInv, ServiceReread, ServiceKinds
<1>13. AttemptedHasMembers'
  BY <1>9, <1>10, GroupsKept, PassingKeeps DEF ShapeInv, AttemptedHasMembers
<1>. QED  BY <1>9, <1>12, <1>13 DEF ShapeInv

(* A step that starts a call outside the service keeps the shape           *)
(* invariant.                                                              *)
LEMMA NotServiceShape ==
    ASSUME ShapeInv, NEW s \in Step, NotService(s), SparesSuppressed(obl'),
           s.kind \notin ServiceKinds, s.kind \notin {"none", "search"} => s.url \in Urls
    PROVE  ShapeInv'
<1>1. /\ Reshaped(obl') /\ SuppressedIsInert' /\ DueIsServable'
      /\ obl' \in Seq(Obligation) /\ Len(obl') <= MaxObligations
  BY SparingKeepsInert
<1>2. svc' = AfterPassing(PassedOver)
  BY DEF NotService
<1>3. TypeOK' /\ StepIsAddressed' /\ ServiceIsAttempted' /\ CallFitsBudget'
  BY <1>1, <1>2, PassingKeeps
  DEF ShapeInv, TypeOK, NotService, Proposing, StepIsAddressed, ServiceIsAttempted, CallFitsBudget
<1>4. AttemptedHasMembers'
  BY <1>1, <1>2, GroupsKept, PassingKeeps DEF ShapeInv, AttemptedHasMembers
<1>. QED  BY <1>1, <1>3, <1>4 DEF ShapeInv

(* Leaving the obligations unchanged spares the suppressed ones.           *)
LEMMA SameSpares ==
    ASSUME TypeOK, obl' = obl
    PROVE  SparesSuppressed(obl')
<1>1. Reshaped(obl')
  BY DEF TypeOK, Reshaped
<1>. QED  BY <1>1 DEF SparesSuppressed

(* A search step keeps the shape invariant.                                *)
LEMMA SearchShape ==
    ASSUME ShapeInv, Search
    PROVE  ShapeInv'
<1>1. [NoStep EXCEPT !.kind = "search"] \in Step
  BY DEF NoStep, Step, Kinds
<1>2. [NoStep EXCEPT !.kind = "search"].kind = "search"
  BY DEF NoStep
<1>. QED  BY <1>1, <1>2, SameSpares, NotServiceShape DEF Search, ShapeInv, ServiceKinds

(* A read chosen by the frontier keeps the shape invariant.                *)
LEMMA FrontierReadShape ==
    ASSUME ShapeInv, NEW u \in Urls, NEW c \in Cands, FrontierRead(u, c)
    PROVE  ShapeInv'
<1>1. PICK tool \in Enabled :
        NotService([kind |-> "read", url |-> u, tool |-> tool, cand |-> c])
  BY DEF FrontierRead
<1>2. SparesSuppressed(obl')
  <2>1. CASE obl' = obl
    BY <2>1, SameSpares DEF ShapeInv
  <2>2. ASSUME NEW i \in Pinnable, obl' = [obl EXCEPT ![i].selected = TRUE]
        PROVE  SparesSuppressed(obl')
    <3>1. i \in Ids /\ ~ obl[i].suppressed
      BY DEF Pinnable, Queue, Open, ShapeInv, SuppressedIsInert
    <3>2. obl' = [obl EXCEPT ![i] = [obl[i] EXCEPT !.selected = TRUE]]
      BY <2>2
    <3>3. obl' \in [Ids -> Obligation]
      BY <3>1, <3>2, IdsType, SelectedIsObligation DEF ShapeInv
    <3>4. \A j \in Ids : /\ obl'[j].url = obl[j].url /\ obl'[j].due = obl[j].due
                         /\ obl'[j].suppressed = obl[j].suppressed
                         /\ j # i => obl'[j] = obl[j]
      BY <3>1, <3>2, IdsType DEF ShapeInv, Obligation
    <3>5. Reshaped(obl')
      BY <3>3, <3>4, EntryUpdates DEF ShapeInv
    <3>. QED  BY <3>1, <3>4, <3>5 DEF SparesSuppressed
  <2>. QED  BY <2>1, <2>2 DEF FrontierRead
<1>3. [kind |-> "read", url |-> u, tool |-> tool, cand |-> c] \in Step
  BY ServiceAssumption DEF Step, Kinds
<1>. QED  BY <1>1, <1>2, <1>3, NotServiceShape DEF ServiceKinds

(* A read chosen by the task-frame planner keeps the shape invariant.      *)
LEMMA PlannerReadShape ==
    ASSUME ShapeInv, NEW u \in Urls, PlannerRead(u)
    PROVE  ShapeInv'
<1>1. PICK tool \in Enabled :
        NotService([kind |-> "read", url |-> u, tool |-> tool, cand |-> NoCand])
  BY DEF PlannerRead
<1>2. [kind |-> "read", url |-> u, tool |-> tool, cand |-> NoCand] \in Step
  BY ServiceAssumption DEF Step, Kinds
<1>3. SparesSuppressed(obl')
  BY SameSpares DEF ShapeInv, PlannerRead
<1>. QED  BY <1>1, <1>2, <1>3, NotServiceShape DEF ServiceKinds

(* Ending the loop keeps the shape invariant.                              *)
LEMMA StopShape ==
    ASSUME ShapeInv, Stop
    PROVE  ShapeInv'
<1>1. /\ Reshaped(obl') /\ SuppressedIsInert' /\ DueIsServable'
      /\ obl' \in Seq(Obligation) /\ Len(obl') <= MaxObligations
  BY SameSpares, SparingKeepsInert DEF Stop, ShapeInv
<1>2. svc' = AfterPassing(PassedOver)
  BY DEF Stop
<1>3. TypeOK' /\ StepIsAddressed' /\ ServiceIsAttempted' /\ CallFitsBudget'
  BY <1>1, <1>2, PassingKeeps DEF ShapeInv, TypeOK, Stop, Proposing, StepIsAddressed,
      ServiceIsAttempted, CallFitsBudget, ServiceKinds
<1>4. AttemptedHasMembers'
  BY <1>1, <1>2, GroupsKept, PassingKeeps DEF ShapeInv, AttemptedHasMembers
<1>. QED  BY <1>1, <1>3, <1>4 DEF ShapeInv

(* A read on its way has a clean URL.                                      *)
LEMMA StepUrl ==
    ASSUME ShapeInv, step.kind \in ServiceKinds \cup {"reread", "read"}
    PROVE  step.url \in Urls /\ HostOf[step.url] \in Hosts /\ PageOf[step.url] \in Pages
  BY ServiceAssumption DEF ShapeInv, StepIsAddressed, ServiceKinds

(* Linking a body or giving up a re-read keeps an obligation's type, URL   *)
(* and suppression.                                                        *)
LEMMA EntryShape ==
    ASSUME NEW o \in Obligation
    PROVE  /\ [o EXCEPT !.body = TRUE] \in Obligation
           /\ [o EXCEPT !.body = TRUE].url = o.url
           /\ [o EXCEPT !.body = TRUE].suppressed = o.suppressed
           /\ [o EXCEPT !.body = TRUE].due = o.due
           /\ [o EXCEPT !.reread = FALSE] \in Obligation
           /\ [o EXCEPT !.reread = FALSE].url = o.url
           /\ [o EXCEPT !.reread = FALSE].suppressed = o.suppressed
           /\ [o EXCEPT !.reread = FALSE].due = o.due
           /\ ~ o.reread => [o EXCEPT !.reread = FALSE] = o
  BY DEF Obligation

(* Linking a body to the obligations of a host spares the suppressed ones. *)
LEMMA BodyAvailableSpares ==
    ASSUME TypeOK, NEW u
    PROVE  SparesSuppressed(BodyAvailable(u))
<1>. DEFINE s == BodyAvailable(u)
<1>1. s \in [Ids -> Obligation]
  BY IdsType, EntryShape DEF BodyAvailable
<1>2. \A i \in Ids : /\ s[i].url = obl[i].url /\ s[i].suppressed = obl[i].suppressed
                     /\ s[i].due = obl[i].due
                     /\ obl[i].suppressed => s[i] = obl[i]
  BY IdsType, EntryShape DEF BodyAvailable
<1>3. Reshaped(s)
  <2>. HIDE DEF s
  <2>. QED  BY <1>1, <1>2, EntryUpdates
<1>. QED  BY <1>2, <1>3 DEF SparesSuppressed

(* record_pending_service_outcome keeps the record's type and its attempt. *)
LEMMA RecordAfterType ==
    ASSUME TypeOK, NEW u \in Urls, NEW out \in Outcomes
    PROVE  /\ ServiceRecordAfter(u, out) \in ServiceRecord
           /\ ServiceRecordAfter(u, out).attempted = svc[u].attempted
           /\ ServiceRecordAfter(u, out).scheduled => svc[u].scheduled \/ Untried(u) # {}
<1>1. svc[u] \in ServiceRecord
  BY DEF TypeOK
<1>. QED  BY <1>1 DEF ServiceRecordAfter, ServiceRecord, UrlStatuses

(* The outcome of a service read keeps the shape invariant.                *)
LEMMA ExecuteServiceShape ==
    ASSUME ShapeInv, NEW out \in Outcomes, ExecuteService(out)
    PROVE  ShapeInv'
<1>0. step.url \in Urls /\ HostOf[step.url] \in Hosts /\ PageOf[step.url] \in Pages
  BY StepUrl DEF ExecuteService
<1>1. SparesSuppressed(obl')
  BY SameSpares, BodyAvailableSpares DEF ExecuteService, ShapeInv
<1>2. /\ Reshaped(obl') /\ SuppressedIsInert' /\ DueIsServable'
      /\ obl' \in Seq(Obligation) /\ Len(obl') <= MaxObligations
  BY <1>1, SparingKeepsInert
<1>3. svc' = [svc EXCEPT ![step.url] = ServiceRecordAfter(step.url, out)]
  BY DEF ExecuteService
<1>4. svc' \in [Urls -> ServiceRecord]
  BY <1>0, <1>3, RecordAfterType DEF ShapeInv, TypeOK
<1>5. \A u \in Urls : /\ svc'[u].attempted = svc[u].attempted
                      /\ svc'[u].scheduled => svc'[u].attempted
  BY <1>0, <1>3, RecordAfterType
  DEF ShapeInv, TypeOK, AttemptedHasMembers, ServiceIsAttempted, ExecuteService
<1>6. AttemptedHasMembers'
  BY <1>2, <1>5, GroupsKept DEF ShapeInv, AttemptedHasMembers
<1>7. served' \in [Urls -> Nat] /\ scraped' \subseteq Pages /\ noProgress' \subseteq Hosts
  BY <1>0 DEF ShapeInv, TypeOK, ExecuteService, HostMayStall
<1>8. TypeOK' /\ StepIsAddressed' /\ ServiceIsAttempted' /\ CallFitsBudget'
  BY <1>0, <1>2, <1>4, <1>5, <1>7
  DEF ShapeInv, TypeOK, ExecuteService, StepIsAddressed, ServiceIsAttempted, CallFitsBudget
<1>. QED  BY <1>2, <1>6, <1>8 DEF ShapeInv

(* Any set of obligations can be counted.                                  *)
LEMMA SubsetCount ==
    ASSUME TypeOK, NEW S \in SUBSET Ids
    PROVE  IsFiniteSet(S) /\ Cardinality(S) \in Nat
  BY NumbersFinite, IdsType

(* The outcome of a re-read keeps the shape invariant.                     *)
LEMMA ExecuteRereadShape ==
    ASSUME ShapeInv, NEW out \in Outcomes, ExecuteReread(out)
    PROVE  ShapeInv'
<1>0. step.url \in Urls /\ HostOf[step.url] \in Hosts /\ PageOf[step.url] \in Pages
  BY StepUrl DEF ExecuteReread
<1>. DEFINE s == [i \in Ids |-> IF i \in GivenUp(step.url)
                                THEN [obl[i] EXCEPT !.reread = FALSE] ELSE obl[i]]
<1>1. SparesSuppressed(s)
  <2>1. s \in [Ids -> Obligation]
    BY IdsType, EntryShape DEF ShapeInv
  <2>2. \A i \in Ids : /\ s[i].url = obl[i].url /\ s[i].suppressed = obl[i].suppressed
                       /\ s[i].due = obl[i].due
                       /\ obl[i].suppressed => s[i] = obl[i]
    BY IdsType, EntryShape DEF ShapeInv, SuppressedIsInert
  <2>3. Reshaped(s)
    <3>. HIDE DEF s
    <3>. QED  BY <2>1, <2>2, EntryUpdates DEF ShapeInv
  <2>. QED  BY <2>2, <2>3 DEF SparesSuppressed
<1>2. obl' = obl \/ obl' = s
  BY DEF ExecuteReread
<1>3. /\ Reshaped(obl') /\ SuppressedIsInert' /\ DueIsServable'
      /\ obl' \in Seq(Obligation) /\ Len(obl') <= MaxObligations
  BY <1>1, <1>2, SameSpares, SparingKeepsInert DEF ShapeInv
<1>4. AttemptedHasMembers'
  BY <1>3, GroupsKept DEF ShapeInv, AttemptedHasMembers, ExecuteReread
<1>5. Cardinality(GivenUp(step.url)) \in Nat
  BY SubsetCount DEF ShapeInv, GivenUp, PendingsFor
<1>6. tally' \in [scheduled : Nat, resolved : Nat, stillOpen : Nat]
  <2>1. tally \in [scheduled : Nat, resolved : Nat, stillOpen : Nat]
    BY DEF ShapeInv, TypeOK
  <2>2. \/ tally' = tally
        \/ tally' = [tally EXCEPT !.stillOpen = @ + Cardinality(GivenUp(step.url))]
    BY DEF ExecuteReread
  <2>. QED  BY <1>5, <2>1, <2>2
<1>7. rereads' \in [Urls -> Nat] /\ scraped' \subseteq Pages /\ noProgress' \subseteq Hosts
  <2>. HIDE DEF s
  <2>1. rereads \in [Urls -> Nat] /\ scraped \subseteq Pages /\ noProgress \subseteq Hosts
    BY DEF ShapeInv, TypeOK
  <2>2. rereads' = [rereads EXCEPT ![step.url] = @ + 1]
    BY DEF ExecuteReread
  <2>3. scraped' \in {scraped, scraped \cup {PageOf[step.url]}}
    BY DEF ExecuteReread
  <2>4. noProgress' \in {noProgress, noProgress \cup {HostOf[step.url]}}
    BY DEF ExecuteReread, HostMayStall
  <2>. QED  BY <1>0, <2>1, <2>2, <2>3, <2>4
<1>8. TypeOK' /\ StepIsAddressed' /\ ServiceIsAttempted' /\ CallFitsBudget'
  BY <1>0, <1>3, <1>6, <1>7 DEF ShapeInv, TypeOK, ExecuteReread, StepIsAddressed,
      ServiceIsAttempted, CallFitsBudget
<1>. QED  BY <1>3, <1>4, <1>8 DEF ShapeInv

(* The outcome of an ordinary read keeps the shape invariant.              *)
LEMMA ExecuteReadShape ==
    ASSUME ShapeInv, NEW out \in Outcomes, ExecuteRead(out)
    PROVE  ShapeInv'
<1>0. step.url \in Urls /\ HostOf[step.url] \in Hosts /\ PageOf[step.url] \in Pages
  BY StepUrl DEF ExecuteRead
<1>1. /\ Reshaped(obl') /\ SuppressedIsInert' /\ DueIsServable'
      /\ obl' \in Seq(Obligation) /\ Len(obl') <= MaxObligations
  BY SameSpares, SparingKeepsInert DEF ShapeInv, ExecuteRead
<1>2. AttemptedHasMembers'
  BY <1>1, GroupsKept DEF ShapeInv, AttemptedHasMembers, ExecuteRead
<1>3. scraped' \subseteq Pages /\ noProgress' \subseteq Hosts
  BY <1>0 DEF ShapeInv, TypeOK, ExecuteRead
<1>4. TypeOK' /\ StepIsAddressed' /\ ServiceIsAttempted' /\ CallFitsBudget'
  BY <1>0, <1>1, <1>3 DEF ShapeInv, TypeOK, ExecuteRead, StepIsAddressed,
      ServiceIsAttempted, CallFitsBudget
<1>. QED  BY <1>1, <1>2, <1>4 DEF ShapeInv

(* The outcome of a search keeps the shape invariant.                      *)
LEMMA ExecuteSearchShape ==
    ASSUME ShapeInv, NEW first \in Urls \cup {NoUrl}, ExecuteSearch(first)
    PROVE  ShapeInv'
<1>1. /\ Reshaped(obl') /\ SuppressedIsInert' /\ DueIsServable'
      /\ obl' \in Seq(Obligation) /\ Len(obl') <= MaxObligations
  BY SameSpares, SparingKeepsInert DEF ShapeInv, ExecuteSearch
<1>2. AttemptedHasMembers'
  BY <1>1, GroupsKept DEF ShapeInv, AttemptedHasMembers, ExecuteSearch
<1>3. TypeOK' /\ StepIsAddressed' /\ ServiceIsAttempted' /\ CallFitsBudget'
  BY <1>1 DEF ShapeInv, TypeOK, ExecuteSearch, StepIsAddressed,
      ServiceIsAttempted, CallFitsBudget, Outcomes
<1>. QED  BY <1>1, <1>2, <1>3 DEF ShapeInv

(* A new obligation joins the end and disturbs none of the others.         *)
LEMMA RegisterShape ==
    ASSUME ShapeInv, NEW t \in Triples, NEW from \in Urls \cup {NoUrl},
           NEW sup \in BOOLEAN, Register(t, from, sup)
    PROVE  ShapeInv'
<1>. DEFINE o == NewObligation(t, sup)
<1>1. o \in Obligation /\ o.due = NotDue
  BY DEF NewObligation, Obligation, Resolutions, Settled, Retriable, ObligationStatuses,
         UrlStatuses, NotDue, ShapeInv, TypeOK
<1>2. obl' = Append(obl, o)
  BY DEF Register
<1>3. /\ obl' \in Seq(Obligation) /\ Len(obl') = Len(obl) + 1
      /\ obl'[Len(obl) + 1] = o
      /\ \A i \in Ids : obl'[i] = obl[i]
  BY <1>1, <1>2, AppendProperties DEF ShapeInv, TypeOK, Ids
<1>4. Ids' = Ids \cup {Len(obl) + 1} /\ Ids \subseteq Ids'
  BY <1>3, IdsType DEF Ids, ShapeInv
<1>5. SuppressedIsInert'
  <2>1. SuppressedIsInert
    BY DEF ShapeInv
  <2>2. o.suppressed => /\ o.resolution = "suppressed" /\ o.status = ""
                        /\ ~ (o.selected \/ o.body \/ o.reread \/ o.rereadDone)
    BY DEF NewObligation
  <2>. HIDE DEF o
  <2>. QED  BY <1>3, <1>4, <2>1, <2>2 DEF SuppressedIsInert
<1>6. DueIsServable'
  BY <1>1, <1>3, <1>4 DEF ShapeInv, DueIsServable
<1>7. \A u \in Urls : Members(u) \subseteq Members(u)'
  BY <1>3, <1>4 DEF Members
<1>8. AttemptedHasMembers'
  BY <1>7 DEF ShapeInv, AttemptedHasMembers, Register
<1>9. Len(obl') <= MaxObligations
  BY <1>3, IdsType, ServiceAssumption DEF Register, ShapeInv
<1>10. TypeOK' /\ StepIsAddressed' /\ ServiceIsAttempted' /\ CallFitsBudget'
  BY <1>3, <1>9 DEF ShapeInv, TypeOK, Register, StepIsAddressed,
      ServiceIsAttempted, CallFitsBudget
<1>. QED  BY <1>5, <1>6, <1>8, <1>10 DEF ShapeInv

(* Only live obligations are judged again on a body.                       *)
LEMMA RoutedIsLive ==
    ASSUME ShapeInv
    PROVE  /\ Routed \in SUBSET Ids
           /\ \A i \in Routed : Routable(i) /\ ~ obl[i].suppressed
  BY DEF Routed, Routable, Open, ShapeInv, SuppressedIsInert

(* A verdict keeps an obligation's type, URL and suppression.              *)
LEMMA JudgedType ==
    ASSUME TypeOK, NEW i \in Ids, NEW v \in Verdicts
    PROVE  /\ Judged(i, v) \in Obligation
           /\ Judged(i, v).url = obl[i].url
           /\ Judged(i, v).suppressed = obl[i].suppressed
           /\ Judged(i, v).due = obl[i].due
<1>1. obl[i] \in Obligation /\ v.resolution \in Resolutions /\ v.predicate \in BOOLEAN
  BY IdsType DEF Verdicts
<1>. QED  BY <1>1 DEF Judged, Obligation

(* Adding to the re-read counters keeps them natural numbers.              *)
LEMMA TallyType ==
    ASSUME NEW t \in [scheduled : Nat, resolved : Nat, stillOpen : Nat],
           NEW m \in Nat, NEW n \in Nat
    PROVE  /\ [t EXCEPT !.scheduled = @ + m] \in [scheduled : Nat, resolved : Nat, stillOpen : Nat]
           /\ [t EXCEPT !.resolved = @ + m, !.stillOpen = @ + n]
                 \in [scheduled : Nat, resolved : Nat, stillOpen : Nat]
<1>1. t.scheduled + m \in Nat /\ t.resolved + m \in Nat /\ t.stillOpen + n \in Nat
  OBVIOUS
<1>. QED  BY <1>1

(* Routing a body into the obligations keeps the shape invariant.          *)
LEMMA RouteShape ==
    ASSUME ShapeInv, Route
    PROVE  ShapeInv'
<1>1. PICK verdict \in [Routed -> Verdicts] :
        /\ obl' = [i \in Ids |-> IF i \in Routed THEN Judged(i, verdict[i]) ELSE obl[i]]
        /\ LET again == {i \in Routed : obl[i].reread}
               done == {i \in again : verdict[i].resolution = "constraint_resolved"}
           IN  tally' = [tally EXCEPT !.resolved = @ + Cardinality(done),
                                      !.stillOpen = @ + Cardinality(again \ done)]
  BY DEF Route
<1>2. obl' \in [Ids -> Obligation]
  BY <1>1, IdsType, JudgedType, RoutedIsLive DEF ShapeInv
<1>3. \A i \in Ids : /\ obl'[i].url = obl[i].url /\ obl'[i].suppressed = obl[i].suppressed
                     /\ obl'[i].due = obl[i].due
                     /\ obl[i].suppressed => obl'[i] = obl[i]
  BY <1>1, JudgedType, RoutedIsLive DEF ShapeInv
<1>4. Reshaped(obl')
  BY <1>2, <1>3, EntryUpdates DEF ShapeInv
<1>5. SparesSuppressed(obl')
  BY <1>3, <1>4 DEF SparesSuppressed
<1>6. /\ Reshaped(obl') /\ SuppressedIsInert' /\ DueIsServable'
      /\ obl' \in Seq(Obligation) /\ Len(obl') <= MaxObligations
  BY <1>5, SparingKeepsInert
<1>7. AttemptedHasMembers'
  BY <1>6, GroupsKept DEF ShapeInv, AttemptedHasMembers, Route
<1>8. tally' \in [scheduled : Nat, resolved : Nat, stillOpen : Nat]
  <2>. DEFINE again == {i \in Routed : obl[i].reread}
              done == {i \in again : verdict[i].resolution = "constraint_resolved"}
  <2>1. Cardinality(done) \in Nat /\ Cardinality(again \ done) \in Nat
    BY SubsetCount, RoutedIsLive DEF ShapeInv
  <2>2. tally' = [tally EXCEPT !.resolved = @ + Cardinality(done),
                               !.stillOpen = @ + Cardinality(again \ done)]
    BY <1>1
  <2>3. tally \in [scheduled : Nat, resolved : Nat, stillOpen : Nat]
    BY DEF ShapeInv, TypeOK
  <2>. HIDE DEF again, done
  <2>. QED  BY <2>1, <2>2, <2>3, TallyType
<1>9. TypeOK' /\ StepIsAddressed' /\ ServiceIsAttempted' /\ CallFitsBudget'
  BY <1>6, <1>8 DEF ShapeInv, TypeOK, Route, StepIsAddressed, ServiceIsAttempted, CallFitsBudget
<1>. QED  BY <1>6, <1>7, <1>9 DEF ShapeInv

(* Arming a re-read keeps an obligation's type, URL and suppression.       *)
LEMMA ArmedType ==
    ASSUME NEW o \in Obligation, NEW n \in 0 .. Budget
    PROVE  LET a == [o EXCEPT !.reread = TRUE, !.rereadDone = TRUE, !.due = n]
           IN  a \in Obligation /\ a.url = o.url /\ a.suppressed = o.suppressed
  BY DEF Obligation

(* Only live obligations with a clean URL are queued for a re-read.        *)
LEMMA WorthyIsClean ==
    ASSUME ShapeInv, NEW u
    PROVE  /\ RereadWorthy(u) \in SUBSET Ids
           /\ \A i \in RereadWorthy(u) : ~ obl[i].suppressed /\ obl[i].url # NoUrl
  BY DEF RereadWorthy, PendingsFor, Retriable, ShapeInv, SuppressedIsInert

(* Counting a call stays within the budget.                                *)
LEMMA ClosedCall ==
    ASSUME ShapeInv, NEW cut \in BOOLEAN, CloseStep(cut)
    PROVE  calls \in 0 .. Budget /\ calls' \in 0 .. Budget
  BY ServiceAssumption DEF CloseStep, Counted, ShapeInv, CallFitsBudget, TypeOK

(* The end of a loop step keeps the shape invariant.                       *)
LEMMA CloseStepShape ==
    ASSUME ShapeInv, NEW cut \in BOOLEAN, CloseStep(cut)
    PROVE  ShapeInv'
<1>. DEFINE S == IF cut /\ step.kind \in ServiceKinds /\ Succeeds(got)
                 THEN RereadWorthy(step.url) ELSE {}
<1>1. /\ obl' = [i \in Ids |-> IF i \in S
                    THEN [obl[i] EXCEPT !.reread = TRUE, !.rereadDone = TRUE, !.due = calls]
                    ELSE obl[i]]
      /\ tally' = [tally EXCEPT !.scheduled = @ + Cardinality(S)]
  BY DEF CloseStep, ScheduleRereads
<1>2. S \in SUBSET Ids /\ \A i \in S : ~ obl[i].suppressed /\ obl[i].url # NoUrl
  BY WorthyIsClean
<1>3. Cardinality(S) \in Nat
  BY <1>2, SubsetCount DEF ShapeInv
<1>. HIDE DEF S
<1>4. obl' \in [Ids -> Obligation]
  BY <1>1, IdsType, ArmedType, ClosedCall DEF ShapeInv
<1>5. \A i \in Ids : /\ obl'[i].url = obl[i].url /\ obl'[i].suppressed = obl[i].suppressed
                     /\ i \notin S => obl'[i] = obl[i]
  BY <1>1, IdsType, ArmedType, ClosedCall DEF ShapeInv
<1>6. Reshaped(obl')
  BY <1>4, <1>5, EntryUpdates DEF ShapeInv
<1>7. SparesSuppressed(obl')
  BY <1>2, <1>5, <1>6 DEF SparesSuppressed
<1>8. /\ Reshaped(obl') /\ SuppressedIsInert' /\ DueIsServable'
      /\ obl' \in Seq(Obligation) /\ Len(obl') <= MaxObligations
  BY <1>7, SparingKeepsInert
<1>9. AttemptedHasMembers'
  BY <1>8, GroupsKept DEF ShapeInv, AttemptedHasMembers, CloseStep
<1>10. tally' \in [scheduled : Nat, resolved : Nat, stillOpen : Nat]
  <2>1. tally \in [scheduled : Nat, resolved : Nat, stillOpen : Nat]
    BY DEF ShapeInv, TypeOK
  <2>. QED  BY <1>1, <1>3, <2>1, TallyType
<1>11. step' \in Step /\ step'.kind = "none"
  BY DEF CloseStep, NoStep, Step, Kinds
<1>12. TypeOK'
  BY <1>8, <1>10, <1>11, ClosedCall DEF ShapeInv, TypeOK, CloseStep, Outcomes
<1>13. StepIsAddressed' /\ ServiceIsAttempted' /\ CallFitsBudget'
  BY <1>11 DEF StepIsAddressed, ServiceIsAttempted, CallFitsBudget, CloseStep, ServiceKinds
<1>. QED  BY <1>8, <1>9, <1>12, <1>13 DEF ShapeInv

(* A URL's final status is one of the terminal statuses.                   *)
LEMMA FinalUrlStatusType ==
    ASSUME TypeOK, NEW u \in Urls
    PROVE  FinalUrlStatus(u) \in UrlStatuses
<1>1. svc[u].status \in UrlStatuses
  BY DEF TypeOK, ServiceRecord
<1>. QED  BY <1>1 DEF FinalUrlStatus, UrlStatuses

(* An obligation's final status is one of the terminal statuses.           *)
LEMMA FinalStatusType ==
    ASSUME TypeOK, NEW i \in Ids
    PROVE  FinalStatus(i) \in ObligationStatuses
<1>1. obl[i].url \in Urls \cup {NoUrl}
  BY IdsType DEF Obligation
<1>. QED  BY <1>1, FinalUrlStatusType DEF FinalStatus, ObligationStatuses, UrlStatuses

(* finalize_pending_service keeps the shape invariant.                     *)
LEMMA FinalizeShape ==
    ASSUME ShapeInv, Finalize
    PROVE  ShapeInv'
<1>1. /\ svc' = [u \in Urls |-> [svc[u] EXCEPT !.status = FinalUrlStatus(u)]]
      /\ obl' = [i \in Ids |-> [obl[i] EXCEPT !.status = FinalStatus(i)]]
  BY DEF Finalize
<1>2. svc' \in [Urls -> ServiceRecord]
      /\ \A u \in Urls : /\ svc'[u].attempted = svc[u].attempted
                         /\ svc'[u].scheduled = svc[u].scheduled
  BY <1>1, FinalUrlStatusType DEF ShapeInv, TypeOK, ServiceRecord
<1>3. obl' \in [Ids -> Obligation]
  BY <1>1, IdsType, FinalStatusType DEF ShapeInv, Obligation
<1>4. \A i \in Ids :
        /\ obl'[i].url = obl[i].url /\ obl'[i].suppressed = obl[i].suppressed
        /\ obl'[i].resolution = obl[i].resolution /\ obl'[i].selected = obl[i].selected
        /\ obl'[i].body = obl[i].body /\ obl'[i].reread = obl[i].reread
        /\ obl'[i].rereadDone = obl[i].rereadDone /\ obl'[i].due = obl[i].due
        /\ obl'[i].status = FinalStatus(i)
  BY <1>1, IdsType DEF ShapeInv, Obligation
<1>5. Reshaped(obl') /\ Ids' = Ids
  BY <1>3, <1>4, EntryUpdates, MembersKept DEF ShapeInv
<1>6. SuppressedIsInert'
  <2>1. \A i \in Ids : obl[i].suppressed => FinalStatus(i) = "suppressed"
    BY DEF FinalStatus
  <2>2. SuppressedIsInert
    BY DEF ShapeInv
  <2>3. ASSUME NEW i \in Ids, obl[i].suppressed
        PROVE  /\ obl'[i].resolution = "suppressed" /\ obl'[i].status = "suppressed"
               /\ ~ (obl'[i].selected \/ obl'[i].body \/ obl'[i].reread \/ obl'[i].rereadDone)
    BY <1>4, <2>1, <2>2, <2>3, ZenonT(60) DEF SuppressedIsInert
  <2>. QED  BY <1>4, <1>5, <2>3 DEF SuppressedIsInert
<1>7. DueIsServable'
  BY <1>4, <1>5 DEF ShapeInv, DueIsServable
<1>8. AttemptedHasMembers'
  BY <1>2, <1>5, GroupsKept DEF ShapeInv, AttemptedHasMembers
<1>9. TypeOK'
  BY <1>2, <1>5 DEF ShapeInv, TypeOK, Finalize, Reshaped
<1>10. StepIsAddressed' /\ ServiceIsAttempted' /\ CallFitsBudget'
  BY <1>2 DEF ShapeInv, StepIsAddressed, ServiceIsAttempted, CallFitsBudget, Finalize, ServiceKinds
<1>. QED  BY <1>6, <1>7, <1>8, <1>9, <1>10 DEF ShapeInv

(* A step that changes nothing keeps the shape invariant.                  *)
LEMMA StutterShape ==
    ASSUME ShapeInv, UNCHANGED vars
    PROVE  ShapeInv'
  BY DEF vars, ShapeInv, TypeOK, SuppressedIsInert, DueIsServable, StepIsAddressed,
         ServiceIsAttempted, AttemptedHasMembers, CallFitsBudget, Members, Ids

(* Every step of the loop keeps the shape invariant.                       *)
THEOREM ShapeStep ==
    ASSUME ShapeInv, [Next]_vars
    PROVE  ShapeInv'
<1>1. CASE Propose
  BY <1>1, FallbackShape, FreshShape, RereadShape, SearchShape, FrontierReadShape,
     PlannerReadShape, StopShape DEF Propose
<1>2. CASE Execute
  BY <1>2, ExecuteServiceShape, ExecuteRereadShape, ExecuteReadShape, ExecuteSearchShape
  DEF Execute
<1>3. CASE Ingest
  BY <1>3, RegisterShape, RouteShape, CloseStepShape DEF Ingest
<1>4. CASE Finalize
  BY <1>4, FinalizeShape
<1>5. CASE UNCHANGED vars
  BY <1>5, StutterShape
<1>. QED  BY <1>1, <1>2, <1>3, <1>4, <1>5 DEF Next, Terminated

(* The shape invariant holds throughout every item.                        *)
THEOREM ShapeCorrect == Spec => []ShapeInv
<1>1. Init => ShapeInv
  BY ShapeInit, ServiceAssumption
<1>2. ShapeInv /\ [Next]_vars => ShapeInv'
  BY ShapeStep
<1>. QED  BY <1>1, <1>2, PTL DEF Spec

(* The fields of the frontier and of the loop always have their types,     *)
(* whatever the URLs, hosts, tools, budget and judgments.                  *)
THEOREM TypeCorrect == Spec => []TypeOK
<1>1. ShapeInv => TypeOK
  BY DEF ShapeInv
<1>. QED  BY <1>1, ShapeCorrect, PTL

(* A judgment on a contaminated or noisy source is never selected, linked  *)
(* to a body, judged again or re-read (_register_pending_read_judgment's   *)
(* suppressed records).                                                    *)
THEOREM SuppressedStaysInert == Spec => []SuppressedIsInert
<1>1. ShapeInv => SuppressedIsInert
  BY DEF ShapeInv
<1>. QED  BY <1>1, ShapeCorrect, PTL

-----------------------------------------------------------------------------
(* What the pending-read service promises about its calls and its          *)
(* statuses: the bound on reads of a URL, the availability of a fallback,  *)
(* terminal statuses that are final, and that no obligation ends unserved. *)
(* RecordInv relates a URL's record to the reads made of it; ServedInv     *)
(* relates the obligations to the records.                                 *)

(* The service read of a URL that is planned and not yet made.             *)
InFlight(u) ==
    IF pc = "call" /\ step.kind \in ServiceKinds /\ step.url = u THEN 1 ELSE 0

(* A URL is tried with enabled tools, from its first attempt on, and a     *)
(* scheduled fallback has a tool left.                                     *)
ToolsSound(u) ==
    /\ svc[u].tried \subseteq Enabled
    /\ ~ svc[u].attempted => svc[u].tried = {} /\ ~ svc[u].scheduled /\ ~ svc[u].success
    /\ svc[u].scheduled /\ ~ svc[u].fallback => Untried(u) # {}

(* Each service read, made or on its way, used a tool of its own.          *)
ReadsSound(u) == served[u] + InFlight(u) <= Cardinality(svc[u].tried)

(* Before the end of the item, a status is assigned only to URLs that no   *)
(* service read will touch again.                                          *)
StatusSound(u) ==
    /\ ~ svc[u].attempted /\ svc[u].status # ""
           => svc[u].status = "already_satisfied" /\ ~ Unread(u)
    /\ svc[u].scheduled /\ ~ svc[u].fallback => svc[u].status = ""
    /\ InFlight(u) = 1 => svc[u].status = ""

(* The inductive invariant of the service records.                         *)
RecordInv ==
    /\ \A u \in Urls : ToolsSound(u) /\ ReadsSound(u)
    /\ pc # "done" => \A u \in Urls : StatusSound(u)

(* The record invariant holds of a new item.                               *)
LEMMA RecordInit == Init => RecordInv
<1>. SUFFICES ASSUME Init, NEW u \in Urls PROVE ToolsSound(u) /\ ReadsSound(u) /\ StatusSound(u)
  BY DEF RecordInv
<1>1. svc[u] = NewRecord /\ served[u] = 0 /\ pc = "propose"
  BY DEF Init
<1>2. InFlight(u) = 0
  BY <1>1 DEF InFlight
<1>f. /\ svc[u].tried = {} /\ ~ svc[u].attempted /\ ~ svc[u].scheduled
      /\ ~ svc[u].success /\ svc[u].status = ""
  <2>1. NewRecord.tried = {} /\ NewRecord.status = ""
    BY DEF NewRecord
  <2>2. ~ NewRecord.attempted /\ ~ NewRecord.scheduled /\ ~ NewRecord.success
    BY DEF NewRecord
  <2>. QED  BY <1>1, <2>1, <2>2
<1>3. ToolsSound(u)
  BY <1>f DEF ToolsSound
<1>4. ReadsSound(u)
  <2>1. Cardinality(svc[u].tried) = 0
    BY <1>f, FS_EmptySet
  <2>. QED  BY <1>1, <1>2, <2>1 DEF ReadsSound
<1>5. StatusSound(u)
  BY <1>2, <1>f DEF StatusSound
<1>. QED  BY <1>3, <1>4, <1>5

(* The record of a URL and its reads did not change, and no service read   *)
(* of it is on its way after the step.                                     *)
LEMMA RecordKept ==
    ASSUME ShapeInv, RecordInv, pc # "done", NEW u \in Urls, svc'[u] = svc[u],
           served'[u] = served[u], scraped \subseteq scraped', InFlight(u)' = 0
    PROVE  ToolsSound(u)' /\ ReadsSound(u)' /\ StatusSound(u)'
<1>1. ToolsSound(u) /\ ReadsSound(u) /\ StatusSound(u)
  BY DEF RecordInv
<1>2. ToolsSound(u)'
  BY <1>1 DEF ToolsSound, Untried
<1>3. svc[u] \in ServiceRecord /\ served[u] \in Nat
  BY DEF ShapeInv, TypeOK
<1>4. Cardinality(svc[u].tried) \in Nat
  <2>1. IsFiniteSet(Tools)
    <3>1. IsFiniteSet({"page_fetch"})
      BY FS_Singleton
    <3>2. Tools = {"page_fetch"} \cup {"firecrawl_scrape"}
      BY DEF Tools
    <3>. QED  BY <3>1, <3>2, FS_AddElement
  <2>. QED  BY <2>1, <1>3, FS_Subset, FS_CardinalityType DEF ServiceRecord
<1>5. ReadsSound(u)'
  BY <1>1, <1>3, <1>4 DEF ReadsSound, InFlight
<1>6. StatusSound(u)'
  <2>1. Unread(u)' => Unread(u)
    BY DEF Unread
  <2>2. ~ (InFlight(u)' = 1)
    OBVIOUS
  <2>3. ~ svc'[u].attempted /\ svc'[u].status # ""
           => svc'[u].status = "already_satisfied" /\ ~ Unread(u)'
    BY <1>1, <2>1 DEF StatusSound
  <2>4. svc'[u].scheduled /\ ~ svc'[u].fallback => svc'[u].status = ""
    BY <1>1 DEF StatusSound
  <2>. QED  BY <2>2, <2>3, <2>4 DEF StatusSound
<1>. QED  BY <1>2, <1>5, <1>6

(* A URL passed over keeps its record sound: it was never attempted.       *)
LEMMA PassedKept ==
    ASSUME ShapeInv, RecordInv, pc = "propose", NEW S \in SUBSET PassedOver, NEW u \in Urls,
           svc'[u] = AfterPassing(S)[u],
           served'[u] = served[u], scraped \subseteq scraped', InFlight(u)' = 0
    PROVE  ToolsSound(u)' /\ ReadsSound(u)' /\ StatusSound(u)'
<1>1. CASE u \notin S
  BY <1>1, RecordKept DEF AfterPassing
<1>2. CASE u \in S
  <2>1. svc'[u] = PassOver(u) /\ ~ svc[u].attempted /\ svc[u] \in ServiceRecord /\ served[u] \in Nat
    BY <1>2 DEF AfterPassing, PassedOver, Undecided, ShapeInv, TypeOK
  <2>2. ToolsSound(u) /\ ReadsSound(u) /\ StatusSound(u)
    BY DEF RecordInv
  <2>3. /\ svc'[u].attempted = svc[u].attempted /\ svc'[u].tried = svc[u].tried
        /\ svc'[u].scheduled = svc[u].scheduled /\ svc'[u].success = svc[u].success
        /\ svc'[u].fallback = svc[u].fallback
        /\ IF Unread(u) THEN svc'[u].status = svc[u].status
           ELSE svc'[u].status = "already_satisfied"
    BY <2>1 DEF PassOver, ServiceRecord
  <2>4. svc[u].tried = {} /\ ~ svc[u].scheduled /\ ~ svc[u].success
    BY <2>1, <2>2 DEF ToolsSound
  <2>5. ToolsSound(u)'
    BY <2>1, <2>3, <2>4 DEF ToolsSound
  <2>6. ReadsSound(u)'
    BY <2>1, <2>2, <2>3, <2>4, FS_EmptySet DEF ReadsSound, InFlight
  <2>7. Unread(u)' => Unread(u)
    BY DEF Unread
  <2>8. StatusSound(u)'
    <3>1. ~ (InFlight(u)' = 1)
      OBVIOUS
    <3>2. ~ (svc'[u].scheduled /\ ~ svc'[u].fallback)
      BY <2>3, <2>4
    <3>3. ~ svc'[u].attempted /\ svc'[u].status # ""
             => svc'[u].status = "already_satisfied" /\ ~ Unread(u)'
      BY <2>1, <2>2, <2>3, <2>7 DEF StatusSound
    <3>. QED  BY <3>1, <3>2, <3>3 DEF StatusSound
  <2>. QED  BY <2>5, <2>6, <2>8
<1>. QED  BY <1>1, <1>2

(* A URL can be tried with two tools at most, each counted once.           *)
LEMMA TriedCount ==
    ASSUME NEW S \in SUBSET Tools
    PROVE  /\ IsFiniteSet(S) /\ Cardinality(S) \in Nat /\ Cardinality(S) <= 2
           /\ \A t \in Tools : t \notin S => Cardinality(S \cup {t}) = Cardinality(S) + 1
<1>1. IsFiniteSet({"page_fetch"}) /\ Cardinality({"page_fetch"}) = 1
  BY FS_Singleton
<1>2. Tools = {"page_fetch"} \cup {"firecrawl_scrape"}
  BY DEF Tools
<1>3. IsFiniteSet(Tools) /\ Cardinality(Tools) = 2
  BY <1>1, <1>2, FS_AddElement
<1>4. IsFiniteSet(S) /\ Cardinality(S) <= 2
  BY <1>3, FS_Subset
<1>. QED  BY <1>4, FS_CardinalityType, FS_AddElement

(* A fallback step keeps the record invariant.                             *)
LEMMA FallbackRecords ==
    ASSUME ShapeInv, RecordInv, NEW u \in Urls, ServiceFallback(u)
    PROVE  RecordInv'
<1>1. PICK tool \in Untried(u) :
        /\ svc' = [svc EXCEPT ![u] = [svc[u] EXCEPT
                      !.fallback = TRUE, !.recorded = FALSE,
                      !.tried = svc[u].tried \cup {tool}]]
        /\ PlanServiceRead("fallback", u, tool)
  BY DEF ServiceFallback
<1>2. /\ tool \in Enabled /\ tool \in Tools /\ tool \notin svc[u].tried
      /\ svc[u] \in ServiceRecord /\ svc[u].tried \in SUBSET Tools /\ served[u] \in Nat
      /\ pc = "propose" /\ pc' = "call" /\ served' = served /\ scraped' = scraped
      /\ step'.kind = "fallback" /\ step'.url = u
      /\ svc[u].scheduled /\ ~ svc[u].fallback
  BY <1>1, ServiceAssumption
  DEF Untried, ShapeInv, TypeOK, ServiceRecord, ServiceFallback, Proposing, PlanServiceRead,
      FallbackDue
<1>3. ToolsSound(u) /\ ReadsSound(u) /\ StatusSound(u) /\ svc[u].attempted
  BY <1>2 DEF RecordInv, ShapeInv, AttemptedHasMembers
<1>e. svc'[u] = [svc[u] EXCEPT !.fallback = TRUE, !.recorded = FALSE,
                               !.tried = svc[u].tried \cup {tool}]
  BY <1>1 DEF ShapeInv, TypeOK
<1>s. svc[u].status = ""
  BY <1>2, <1>3 DEF StatusSound
<1>4. /\ svc'[u].tried = svc[u].tried \cup {tool} /\ svc'[u].fallback
      /\ svc'[u].attempted /\ svc'[u].status = ""
  BY <1>2, <1>3, <1>e, <1>s DEF ServiceRecord
<1>c. /\ Cardinality(svc[u].tried) \in Nat
      /\ Cardinality(svc'[u].tried) = Cardinality(svc[u].tried) + 1
  BY <1>2, <1>4, TriedCount
<1>5. InFlight(u) = 0 /\ InFlight(u)' = 1
  BY <1>2 DEF InFlight, ServiceKinds
<1>6. ToolsSound(u)'
  BY <1>2, <1>3, <1>4 DEF ToolsSound
<1>7. ReadsSound(u)'
  BY <1>2, <1>3, <1>5, <1>c DEF ReadsSound
<1>8. StatusSound(u)'
  BY <1>4 DEF StatusSound
<1>9. ASSUME NEW v \in Urls, v # u PROVE ToolsSound(v)' /\ ReadsSound(v)' /\ StatusSound(v)'
  <2>1. InFlight(v)' = 0
    BY <1>2, <1>9 DEF InFlight
  <2>2. svc'[v] = svc[v]
    BY <1>1, <1>9 DEF ShapeInv, TypeOK
  <2>. QED  BY <1>2, <1>9, <2>1, <2>2, RecordKept
<1>. QED  BY <1>6, <1>7, <1>8, <1>9 DEF RecordInv

(* A first service read keeps the record invariant.                        *)
LEMMA FreshRecords ==
    ASSUME ShapeInv, RecordInv, NEW u \in Urls, ServiceFresh(u)
    PROVE  RecordInv'
<1>1. PICK tool \in Enabled, before \in SUBSET PassedOver :
        /\ svc' = [AfterPassing(before) EXCEPT ![u] = [svc[u] EXCEPT
                      !.attempted = TRUE, !.recorded = FALSE,
                      !.tried = svc[u].tried \cup {tool}]]
        /\ PlanServiceRead("service", u, tool)
  BY DEF ServiceFresh
<1>2. /\ tool \in Enabled /\ tool \in Tools
      /\ svc[u] \in ServiceRecord /\ svc[u].tried \in SUBSET Tools /\ served[u] \in Nat
      /\ pc = "propose" /\ pc' = "call" /\ served' = served /\ scraped' = scraped
      /\ step'.kind = "service" /\ step'.url = u
      /\ ~ svc[u].attempted /\ Unread(u)
  BY <1>1, ServiceAssumption
  DEF ShapeInv, TypeOK, ServiceRecord, ServiceFresh, Proposing, PlanServiceRead, Fresh, Undecided
<1>3. ToolsSound(u) /\ ReadsSound(u) /\ StatusSound(u)
  BY <1>2 DEF RecordInv
<1>p. AfterPassing(before) \in [Urls -> ServiceRecord]
  BY PassingKeeps DEF ShapeInv
<1>s. svc[u].tried = {} /\ ~ svc[u].scheduled /\ svc[u].status = ""
  BY <1>2, <1>3 DEF ToolsSound, StatusSound
<1>4. /\ svc'[u].tried = svc[u].tried \cup {tool}
      /\ svc'[u].attempted /\ ~ svc'[u].scheduled /\ svc'[u].status = ""
  <2>1. svc'[u] = [svc[u] EXCEPT !.attempted = TRUE, !.recorded = FALSE,
                                 !.tried = svc[u].tried \cup {tool}]
    BY <1>1, <1>p
  <2>. QED  BY <1>2, <1>s, <2>1 DEF ServiceRecord
<1>c. /\ Cardinality(svc[u].tried) \in Nat
      /\ Cardinality(svc'[u].tried) = Cardinality(svc[u].tried) + 1
  BY <1>2, <1>4, <1>s, TriedCount
<1>5. InFlight(u) = 0 /\ InFlight(u)' = 1
  BY <1>2 DEF InFlight, ServiceKinds
<1>6. ToolsSound(u)'
  BY <1>2, <1>3, <1>4 DEF ToolsSound
<1>7. ReadsSound(u)'
  BY <1>2, <1>3, <1>5, <1>c DEF ReadsSound
<1>8. StatusSound(u)'
  BY <1>4 DEF StatusSound
<1>9. ASSUME NEW v \in Urls, v # u PROVE ToolsSound(v)' /\ ReadsSound(v)' /\ StatusSound(v)'
  <2>1. InFlight(v)' = 0
    BY <1>2, <1>9 DEF InFlight
  <2>2. svc'[v] = AfterPassing(before)[v]
    BY <1>1, <1>9, <1>p
  <2>. QED  BY <1>2, <1>9, <2>1, <2>2, PassedKept
<1>. QED  BY <1>6, <1>7, <1>8, <1>9 DEF RecordInv

(* The other steps that start a call only pass URLs over.                  *)
LEMMA PassingRecords ==
    ASSUME ShapeInv, RecordInv, pc = "propose", svc' = AfterPassing(PassedOver),
           served' = served, scraped' = scraped,
           pc' = "call" => step'.kind \notin ServiceKinds
    PROVE  RecordInv'
<1>1. ASSUME NEW u \in Urls PROVE ToolsSound(u)' /\ ReadsSound(u)' /\ StatusSound(u)'
  <2>1. InFlight(u)' = 0
    BY DEF InFlight
  <2>. QED  BY <2>1, PassedKept
<1>. QED  BY <1>1 DEF RecordInv

(* A step that starts no call and changes no record keeps the record       *)
(* invariant.                                                              *)
LEMMA QuietRecords ==
    ASSUME ShapeInv, RecordInv, pc # "done", svc' = svc, served' = served,
           scraped \subseteq scraped', pc' # "call"
    PROVE  RecordInv'
<1>1. ASSUME NEW u \in Urls PROVE ToolsSound(u)' /\ ReadsSound(u)' /\ StatusSound(u)'
  <2>1. InFlight(u)' = 0
    BY DEF InFlight
  <2>. QED  BY <2>1, RecordKept
<1>. QED  BY <1>1 DEF RecordInv

(* The outcome of a service read keeps the record invariant.               *)
LEMMA ExecuteServiceRecords ==
    ASSUME ShapeInv, RecordInv, NEW out \in Outcomes, ExecuteService(out)
    PROVE  RecordInv'
<1>0. PICK u \in Urls : u = step.url
  BY StepUrl DEF ExecuteService
<1>1. /\ u \in Urls /\ svc[u] \in ServiceRecord /\ served[u] \in Nat
      /\ svc[u].attempted /\ pc = "call" /\ pc' = "ingest"
      /\ step.kind \in ServiceKinds
  BY <1>0 DEF ExecuteService, ShapeInv, TypeOK, ServiceIsAttempted
<1>2. ToolsSound(u) /\ ReadsSound(u) /\ StatusSound(u) /\ InFlight(u) = 1
  BY <1>0, <1>1 DEF RecordInv, InFlight
<1>3. svc'[u] = ServiceRecordAfter(u, out) /\ served'[u] = served[u] + 1
  BY <1>0, <1>1 DEF ExecuteService, ShapeInv, TypeOK
<1>4. svc[u].status = ""
  BY <1>2 DEF StatusSound
<1>5. /\ svc'[u].tried = svc[u].tried /\ svc'[u].attempted
      /\ svc'[u].fallback = svc[u].fallback
      /\ svc'[u].scheduled => ~ svc'[u].fallback \/ ~ svc[u].scheduled
      /\ svc'[u].scheduled => Untried(u) # {} /\ svc'[u].status = ""
  BY <1>1, <1>3, <1>4 DEF ServiceRecordAfter, IsFallback, ServiceRecord
<1>6. \A v \in Urls : InFlight(v)' = 0
  BY <1>1 DEF InFlight
<1>7. ToolsSound(u)'
  BY <1>2, <1>5 DEF ToolsSound, Untried
<1>8. Cardinality(svc[u].tried) \in Nat
  BY <1>1, TriedCount DEF ServiceRecord
<1>9. ReadsSound(u)'
  <2>1. InFlight(u)' = 0 /\ svc'[u].tried = svc[u].tried
    BY <1>5, <1>6
  <2>2. served[u] + 1 <= Cardinality(svc[u].tried)
    BY <1>2 DEF ReadsSound
  <2>. QED  BY <1>1, <1>3, <1>8, <2>1, <2>2 DEF ReadsSound
<1>10. StatusSound(u)'
  <2>1. ~ (InFlight(u)' = 1)
    BY <1>1, <1>6
  <2>. QED  BY <1>5, <2>1 DEF StatusSound
<1>11. ASSUME NEW v \in Urls, v # u PROVE ToolsSound(v)' /\ ReadsSound(v)' /\ StatusSound(v)'
  <2>1. svc'[v] = svc[v] /\ served'[v] = served[v] /\ scraped \subseteq scraped'
    BY <1>0, <1>11 DEF ExecuteService, ShapeInv, TypeOK
  <2>. QED  BY <1>1, <1>6, <2>1, RecordKept
<1>. QED  BY <1>7, <1>9, <1>10, <1>11 DEF RecordInv

(* finalize_pending_service keeps what the record invariant says of tools  *)
(* and reads.                                                              *)
LEMMA FinalizeRecords ==
    ASSUME ShapeInv, RecordInv, Finalize
    PROVE  RecordInv'
<1>1. pc # "call" /\ pc' = "done" /\ served' = served
  BY DEF Finalize
<1>2. ASSUME NEW u \in Urls PROVE ToolsSound(u)' /\ ReadsSound(u)'
  <2>1. /\ svc'[u].tried = svc[u].tried /\ svc'[u].attempted = svc[u].attempted
        /\ svc'[u].scheduled = svc[u].scheduled /\ svc'[u].success = svc[u].success
        /\ svc'[u].fallback = svc[u].fallback
    BY DEF Finalize, ShapeInv, TypeOK, ServiceRecord
  <2>2. ToolsSound(u) /\ ReadsSound(u) /\ InFlight(u) = 0 /\ InFlight(u)' = 0
    BY <1>1 DEF RecordInv, InFlight
  <2>3. ToolsSound(u)'
    BY <2>1, <2>2 DEF ToolsSound, Untried
  <2>4. ReadsSound(u)'
    BY <1>1, <2>1, <2>2 DEF ReadsSound
  <2>. QED  BY <2>3, <2>4
<1>. QED  BY <1>1, <1>2 DEF RecordInv

(* Every step of the loop keeps the record invariant.                      *)
THEOREM RecordStep ==
    ASSUME ShapeInv, RecordInv, [Next]_vars
    PROVE  RecordInv'
<1>1. ASSUME Propose PROVE RecordInv'
  <2>1. ASSUME NEW u \in Urls, ServiceFallback(u) \/ ServiceFresh(u) PROVE RecordInv'
    BY <2>1, FallbackRecords, FreshRecords
  <2>2. ASSUME NEW i \in Ids, ServiceReread(i) PROVE RecordInv'
    <3>1. /\ pc = "propose" /\ svc' = AfterPassing(PassedOver)
          /\ served' = served /\ scraped' = scraped /\ step'.kind = "reread"
      BY <2>2 DEF ServiceReread, Proposing, PlanServiceRead
    <3>. QED  BY <3>1, PassingRecords DEF ServiceKinds
  <2>3. ASSUME NEW s, NotService(s), s.kind \notin ServiceKinds PROVE RecordInv'
    <3>1. /\ pc = "propose" /\ svc' = AfterPassing(PassedOver)
          /\ served' = served /\ scraped' = scraped /\ step' = s
      BY <2>3 DEF NotService, Proposing
    <3>. QED  BY <2>3, <3>1, PassingRecords
  <2>4. ASSUME Search PROVE RecordInv'
    BY <2>3, <2>4 DEF Search, NoStep, ServiceKinds
  <2>5. ASSUME NEW u \in Urls, NEW c \in Cands, FrontierRead(u, c) PROVE RecordInv'
    BY <2>3, <2>5 DEF FrontierRead, ServiceKinds
  <2>6. ASSUME NEW u \in Urls, PlannerRead(u) PROVE RecordInv'
    BY <2>3, <2>6 DEF PlannerRead, ServiceKinds
  <2>7. ASSUME Stop PROVE RecordInv'
    BY <2>7, PassingRecords DEF Stop, Proposing
  <2>. QED  BY <1>1, <2>1, <2>2, <2>4, <2>5, <2>6, <2>7 DEF Propose
<1>2. ASSUME Execute PROVE RecordInv'
  <2>1. ASSUME NEW out \in Outcomes, ExecuteReread(out) \/ ExecuteRead(out) PROVE RecordInv'
    BY <2>1, QuietRecords DEF ExecuteReread, ExecuteRead
  <2>2. ASSUME NEW first, ExecuteSearch(first) PROVE RecordInv'
    BY <2>2, QuietRecords DEF ExecuteSearch
  <2>. QED  BY <1>2, <2>1, <2>2, ExecuteServiceRecords DEF Execute
<1>3. ASSUME Ingest PROVE RecordInv'
  BY <1>3, QuietRecords DEF Ingest, Register, Route, CloseStep
<1>4. ASSUME UNCHANGED vars PROVE RecordInv'
  BY <1>4 DEF vars, RecordInv, ToolsSound, ReadsSound, StatusSound, InFlight, Untried, Unread
<1>. QED  BY <1>1, <1>2, <1>3, <1>4, FinalizeRecords DEF Next, Terminated

(* The service spends at most one call per enabled tool on a URL, two in   *)
(* all, whatever the budget and however many obligations share the URL.    *)
THEOREM ServiceReadsBounded == Spec => []ServiceReadBound
<1>1. Init => RecordInv
  BY RecordInit
<1>2. ShapeInv /\ RecordInv /\ [Next]_vars => RecordInv'
  BY RecordStep
<1>3. ShapeInv /\ RecordInv => ServiceReadBound
  <2>1. ASSUME ShapeInv, RecordInv, NEW u \in Urls
        PROVE  served[u] <= Cardinality(svc[u].tried) /\ served[u] <= 2
    <3>1. ReadsSound(u) /\ served[u] \in Nat /\ svc[u].tried \in SUBSET Tools
      BY <2>1 DEF RecordInv, ShapeInv, TypeOK, ServiceRecord
    <3>2. InFlight(u) \in {0, 1}
      BY DEF InFlight
    <3>3. Cardinality(svc[u].tried) \in Nat /\ Cardinality(svc[u].tried) <= 2
      BY <3>1, TriedCount
    <3>. QED  BY <3>1, <3>2, <3>3 DEF ReadsSound
  <2>. QED  BY <2>1 DEF ServiceReadBound
<1>. QED  BY <1>1, <1>2, <1>3, ShapeCorrect, PTL DEF Spec

(* Whenever record_pending_service_outcome leaves a fallback scheduled, a  *)
(* tool that was not tried on the URL is enabled.                          *)
THEOREM FallbacksServable == Spec => []FallbackServable
<1>1. Init => RecordInv
  BY RecordInit
<1>2. ShapeInv /\ RecordInv /\ [Next]_vars => RecordInv'
  BY RecordStep
<1>3. RecordInv => FallbackServable
  BY DEF RecordInv, ToolsSound, FallbackServable, Untried
<1>. QED  BY <1>1, <1>2, <1>3, ShapeCorrect, PTL DEF Spec

(* No step replaces a URL's terminal status.                               *)
LEMMA FinalKept ==
    ASSUME ShapeInv, RecordInv, [Next]_vars, NEW u \in Urls, svc[u].status # ""
    PROVE  svc'[u].status = svc[u].status
<1>1. svc[u] \in ServiceRecord
  BY DEF ShapeInv, TypeOK
<1>2. ASSUME NEW S \in SUBSET PassedOver, pc = "propose"
      PROVE  AfterPassing(S)[u].status = svc[u].status
  <2>1. CASE u \notin S
    BY <2>1 DEF AfterPassing
  <2>2. CASE u \in S
    <3>1. StatusSound(u) /\ ~ svc[u].attempted
      BY <1>2, <2>2 DEF RecordInv, PassedOver, Undecided
    <3>2. svc[u].status = "already_satisfied" /\ ~ Unread(u)
      BY <3>1 DEF StatusSound
    <3>. QED  BY <1>1, <2>2, <3>2 DEF AfterPassing, PassOver, ServiceRecord
  <2>. QED  BY <2>1, <2>2
<1>3. ASSUME NEW v \in Urls, ServiceFallback(v) PROVE svc'[u].status = svc[u].status
  <2>1. \E tool : svc' = [svc EXCEPT ![v] = [svc[v] EXCEPT
                      !.fallback = TRUE, !.recorded = FALSE,
                      !.tried = svc[v].tried \cup {tool}]]
    BY <1>3 DEF ServiceFallback
  <2>2. CASE u = v
    <3>1. PICK tool : svc'[u] = [svc[u] EXCEPT !.fallback = TRUE, !.recorded = FALSE,
                                               !.tried = svc[u].tried \cup {tool}]
      BY <2>1, <2>2 DEF ShapeInv, TypeOK
    <3>. QED  BY <1>1, <3>1 DEF ServiceRecord
  <2>3. CASE u # v
    BY <2>1, <2>3 DEF ShapeInv, TypeOK
  <2>. QED  BY <2>2, <2>3
<1>4. ASSUME NEW v \in Urls, ServiceFresh(v) PROVE svc'[u].status = svc[u].status
  <2>1. PICK tool \in Enabled, before \in SUBSET PassedOver :
           svc' = [AfterPassing(before) EXCEPT ![v] = [svc[v] EXCEPT
                      !.attempted = TRUE, !.recorded = FALSE,
                      !.tried = svc[v].tried \cup {tool}]]
    BY <1>4 DEF ServiceFresh
  <2>2. AfterPassing(before) \in [Urls -> ServiceRecord] /\ pc = "propose"
    BY <1>4, PassingKeeps DEF ShapeInv, ServiceFresh, Proposing
  <2>3. CASE u = v
    BY <1>1, <2>1, <2>2, <2>3 DEF ServiceRecord
  <2>4. CASE u # v
    BY <1>2, <2>1, <2>2, <2>4
  <2>. QED  BY <2>3, <2>4
<1>5. ASSUME pc = "propose", svc' = AfterPassing(PassedOver)
      PROVE  svc'[u].status = svc[u].status
  BY <1>2, <1>5
<1>6. ASSUME NEW out \in Outcomes, ExecuteService(out) PROVE svc'[u].status = svc[u].status
  <2>1. CASE u = step.url
    <3>1. InFlight(u) = 1 /\ pc # "done"
      BY <1>6, <2>1 DEF InFlight, ExecuteService
    <3>. QED  BY <3>1 DEF RecordInv, StatusSound
  <2>2. CASE u # step.url
    BY <1>6, <2>2 DEF ExecuteService, ShapeInv, TypeOK
  <2>. QED  BY <2>1, <2>2
<1>7. ASSUME Finalize PROVE svc'[u].status = svc[u].status
  <2>1. FinalUrlStatus(u) = svc[u].status
    BY DEF FinalUrlStatus
  <2>. QED  BY <1>1, <1>7, <2>1 DEF Finalize, ServiceRecord
<1>8. ASSUME svc' = svc PROVE svc'[u].status = svc[u].status
  BY <1>8
<1>9. ASSUME Propose PROVE svc'[u].status = svc[u].status
  BY <1>3, <1>4, <1>5, <1>9
  DEF Propose, ServiceReread, Search, FrontierRead, PlannerRead, Stop, NotService, Proposing
<1>10. ASSUME Execute PROVE svc'[u].status = svc[u].status
  BY <1>6, <1>8, <1>10 DEF Execute, ExecuteReread, ExecuteRead, ExecuteSearch
<1>11. ASSUME Ingest PROVE svc'[u].status = svc[u].status
  BY <1>8, <1>11 DEF Ingest, Register, Route, CloseStep
<1>. QED  BY <1>7, <1>8, <1>9, <1>10, <1>11 DEF Next, Terminated, vars

(* A URL group's terminal service status is assigned once.                 *)
THEOREM TerminalStatusKept == Spec => TerminalStatusIsFinal
<1>1. Init => RecordInv
  BY RecordInit
<1>2. ShapeInv /\ RecordInv /\ [Next]_vars => RecordInv'
  BY RecordStep
<1>3. ShapeInv /\ RecordInv /\ [Next]_vars
        => [\A u \in Urls : svc[u].status # "" => svc'[u].status = svc[u].status]_vars
  BY FinalKept
<1>. QED  BY <1>1, <1>2, <1>3, ShapeCorrect, PTL DEF Spec, TerminalStatusIsFinal

(* A URL the service has read, passed over, or closed.                     *)
Decided(u) == svc[u].attempted \/ svc[u].blocked \/ svc[u].status # ""

(* The obligations that finalize_pending_service looks up in the registry. *)
Live(i) == ~ obl[i].suppressed /\ obl[i].url # NoUrl /\ ~ obl[i].body

(* A live obligation is open, and once it is selected, or once the loop    *)
(* has stopped, its URL is decided.                                        *)
ServedInv ==
    /\ \A i \in Ids : Live(i) => Open(i) /\ (obl[i].selected => Decided(obl[i].url))
    /\ pc # "done" => \A u \in Urls : svc[u].status # "invariant_violation"
    /\ pc = "finalize" => \A i \in Ids : Live(i) => Enabled = {} \/ Decided(obl[i].url)
    /\ NoUnservedObligation

(* The service invariant holds of a new item.                              *)
LEMMA ServedInit == Init => ServedInv
<1>. SUFFICES ASSUME Init PROVE ServedInv
  OBVIOUS
<1>1. Ids = {} /\ pc = "propose"
  BY DEF Init, Ids
<1>2. \A u \in Urls : svc[u].status = ""
  BY DEF Init, NewRecord
<1>. QED  BY <1>1, <1>2 DEF ServedInv, NoUnservedObligation

(* What a step may do to obligations and records when it neither ends the  *)
(* item nor settles anything.                                              *)
LEMMA ServedKept ==
    ASSUME ShapeInv, ShapeInv', ServedInv, pc # "done", pc' \notin {"finalize", "done"},
           Reshaped(obl'),
           \A u \in Urls : /\ Decided(u) => Decided(u)'
                           /\ svc'[u].status # "invariant_violation",
           \A i \in Ids : /\ obl[i].body => obl'[i].body
                          /\ obl'[i].resolution = obl[i].resolution \/ obl'[i].body
                          /\ obl'[i].selected =>
                                \/ obl[i].selected \/ obl'[i].body \/ obl[i].url = NoUrl
                                \/ Decided(obl[i].url)'
    PROVE  ServedInv'
<1>1. Ids' = Ids
  BY MembersKept DEF ShapeInv
<1>2. ASSUME NEW i \in Ids, Live(i)'
      PROVE  (Open(i) /\ (obl[i].selected => Decided(obl[i].url)))'
  <2>1. /\ obl'[i].url = obl[i].url /\ Live(i) /\ obl[i].url \in Urls
        /\ obl'[i].resolution = obl[i].resolution
    BY <1>2, IdsType DEF Live, Reshaped, ShapeInv, Obligation
  <2>2. Open(i) /\ (obl[i].selected => Decided(obl[i].url))
    BY <2>1 DEF ServedInv
  <2>3. Open(i)'
    BY <2>1, <2>2 DEF Open
  <2>4. (obl[i].selected => Decided(obl[i].url))'
    BY <1>2, <2>1, <2>2 DEF Live, Decided
  <2>. QED  BY <2>1, <2>3, <2>4
<1>. QED  BY <1>1, <1>2 DEF ServedInv, NoUnservedObligation

(* Passing a URL over decides it, and undoes no decision.                  *)
LEMMA PassingDecides ==
    ASSUME ShapeInv, NEW S, NEW u \in Urls, svc[u].status # "invariant_violation"
    PROVE  LET r == AfterPassing(S)[u]
           IN  /\ Decided(u) => r.attempted \/ r.blocked \/ r.status # ""
               /\ u \in S => r.blocked \/ r.status # ""
               /\ r.status # "invariant_violation"
<1>1. svc[u] \in ServiceRecord
  BY DEF ShapeInv, TypeOK
<1>2. CASE u \notin S
  BY <1>1, <1>2 DEF AfterPassing, Decided
<1>3. CASE u \in S /\ Unread(u)
  BY <1>1, <1>3 DEF AfterPassing, Decided, PassOver, ServiceRecord
<1>4. CASE u \in S /\ ~ Unread(u)
  BY <1>1, <1>4 DEF AfterPassing, Decided, PassOver, ServiceRecord
<1>. QED  BY <1>2, <1>3, <1>4

(* A queued obligation's URL is decided once a step found nothing fresh.   *)
LEMMA QueueDecided ==
    ASSUME ShapeInv, ServedInv, pc # "done", svc' = AfterPassing(PassedOver),
           NEW i \in Queue, ~ Fresh(obl[i].url), Enabled # {}
    PROVE  LET u == obl[i].url
           IN  svc'[u].attempted \/ svc'[u].blocked \/ svc'[u].status # ""
<1>1. PICK u \in Urls : u = obl[i].url
  BY IdsType DEF Queue, ShapeInv, Obligation
<1>2. svc[u].status # "invariant_violation"
  BY DEF ServedInv
<1>3. CASE Undecided(u)
  BY <1>1, <1>2, <1>3, PassingDecides DEF PassedOver
<1>4. CASE ~ Undecided(u)
  BY <1>1, <1>2, <1>4, PassingDecides DEF Undecided, Decided
<1>. QED  BY <1>1, <1>3, <1>4

(* Selecting a group changes only which of its live obligations are        *)
(* selected.                                                               *)
LEMMA SelectEffect ==
    ASSUME ShapeInv, NEW u, NEW i \in Ids
    PROVE  LET o == Select(u)[i]
           IN  /\ o.body = obl[i].body /\ o.resolution = obl[i].resolution
               /\ o.selected => \/ obl[i].selected
                                \/ obl[i].url = u /\ Routable(i)
<1>1. obl[i] \in Obligation
  BY IdsType DEF ShapeInv
<1>2. CASE i \in Members(u) /\ Routable(i)
  BY <1>1, <1>2 DEF Select, Obligation, Members
<1>3. CASE ~ (i \in Members(u) /\ Routable(i))
  BY <1>3 DEF Select
<1>. QED  BY <1>2, <1>3

(* A fallback step keeps the service invariant.                            *)
LEMMA FallbackServed ==
    ASSUME ShapeInv, ShapeInv', ServedInv, NEW u \in Urls, ServiceFallback(u)
    PROVE  ServedInv'
<1>1. pc = "propose" /\ pc' = "call" /\ Reshaped(obl') /\ obl' = Select(u)
  BY SelectReshapes DEF ServiceFallback, Proposing, PlanServiceRead, ShapeInv
<1>2. ASSUME NEW v \in Urls
      PROVE  /\ svc'[v].attempted = svc[v].attempted /\ svc'[v].blocked = svc[v].blocked
             /\ svc'[v].status = svc[v].status
  <2>1. PICK tool : svc' = [svc EXCEPT ![u] = [svc[u] EXCEPT
                      !.fallback = TRUE, !.recorded = FALSE,
                      !.tried = svc[u].tried \cup {tool}]]
    BY DEF ServiceFallback
  <2>2. svc[u] \in ServiceRecord
    BY DEF ShapeInv, TypeOK
  <2>3. CASE v = u
    <3>1. svc'[u] = [svc[u] EXCEPT !.fallback = TRUE, !.recorded = FALSE,
                                   !.tried = svc[u].tried \cup {tool}]
      BY <2>1 DEF ShapeInv, TypeOK
    <3>. QED  BY <2>2, <2>3, <3>1 DEF ServiceRecord
  <2>4. CASE v # u
    BY <2>1, <2>4 DEF ShapeInv, TypeOK
  <2>. QED  BY <2>3, <2>4
<1>3. svc[u].attempted
  BY DEF ServiceFallback, FallbackDue, ShapeInv, AttemptedHasMembers
<1>4. ASSUME NEW v \in Urls
      PROVE  (Decided(v) => Decided(v)') /\ svc'[v].status # "invariant_violation"
  BY <1>1, <1>2 DEF Decided, ServedInv
<1>5. ASSUME NEW i \in Ids
      PROVE  /\ obl[i].body => obl'[i].body
             /\ obl'[i].resolution = obl[i].resolution
             /\ obl'[i].selected => \/ obl[i].selected \/ Decided(obl[i].url)'
  <2>1. obl'[i].url = obl[i].url
    BY <1>1 DEF Reshaped
  <2>. QED  BY <1>1, <1>2, <1>3, <2>1, SelectEffect DEF Decided
<1>. QED  BY <1>1, <1>4, <1>5, ServedKept

(* A first service read keeps the service invariant.                       *)
LEMMA FreshServed ==
    ASSUME ShapeInv, ShapeInv', ServedInv, NEW u \in Urls, ServiceFresh(u)
    PROVE  ServedInv'
<1>1. pc = "propose" /\ pc' = "call" /\ Reshaped(obl') /\ obl' = Select(u)
  BY SelectReshapes DEF ServiceFresh, Proposing, PlanServiceRead, ShapeInv
<1>2. PICK tool \in Enabled, before \in SUBSET PassedOver :
        svc' = [AfterPassing(before) EXCEPT ![u] = [svc[u] EXCEPT
                  !.attempted = TRUE, !.recorded = FALSE,
                  !.tried = svc[u].tried \cup {tool}]]
  BY DEF ServiceFresh
<1>3. AfterPassing(before) \in [Urls -> ServiceRecord] /\ svc[u] \in ServiceRecord
  BY PassingKeeps DEF ShapeInv, TypeOK
<1>4. svc'[u].attempted /\ svc'[u].status = svc[u].status
  <2>1. svc'[u] = [svc[u] EXCEPT !.attempted = TRUE, !.recorded = FALSE,
                                 !.tried = svc[u].tried \cup {tool}]
    BY <1>2, <1>3
  <2>. QED  BY <1>3, <2>1 DEF ServiceRecord
<1>5. \A v \in Urls : v # u => svc'[v] = AfterPassing(before)[v]
  BY <1>2, <1>3
<1>6. ASSUME NEW v \in Urls
      PROVE  (Decided(v) => Decided(v)') /\ svc'[v].status # "invariant_violation"
  <2>1. svc[v].status # "invariant_violation"
    BY <1>1 DEF ServedInv
  <2>2. CASE v = u
    BY <1>4, <2>1, <2>2 DEF Decided
  <2>3. CASE v # u
    BY <1>5, <2>1, <2>3, PassingDecides DEF Decided
  <2>. QED  BY <2>2, <2>3
<1>7. ASSUME NEW i \in Ids
      PROVE  /\ obl[i].body => obl'[i].body
             /\ obl'[i].resolution = obl[i].resolution
             /\ obl'[i].selected => \/ obl[i].selected \/ Decided(obl[i].url)'
  <2>1. obl'[i].url = obl[i].url
    BY <1>1 DEF Reshaped
  <2>. QED  BY <1>1, <1>4, <2>1, SelectEffect DEF Decided
<1>. QED  BY <1>1, <1>6, <1>7, ServedKept

(* A re-read step keeps the service invariant: what it selects was already *)
(* decided.                                                                *)
LEMMA RereadServed ==
    ASSUME ShapeInv, ShapeInv', ServedInv, NEW i \in Ids, ServiceReread(i)
    PROVE  ServedInv'
<1>. DEFINE m == Select(obl[i].url)
<1>1. /\ pc = "propose" /\ pc' = "call" /\ svc' = AfterPassing(PassedOver)
      /\ Enabled # {} /\ \A v \in Urls : ~ Fresh(v)
  BY DEF ServiceReread, Proposing, PlanServiceRead
<1>2. obl' = [m EXCEPT ![i] = [m[i] EXCEPT !.due = NotDue]] /\ m \in [Ids -> Obligation]
  BY SelectReshapes, IdsType, SelectedIsObligation DEF ServiceReread, ShapeInv, Select
<1>3. ASSUME NEW j \in Ids
      PROVE  /\ obl'[j].url = m[j].url /\ obl'[j].suppressed = m[j].suppressed
             /\ obl'[j].body = m[j].body /\ obl'[j].resolution = m[j].resolution
             /\ obl'[j].selected = m[j].selected /\ obl'[j] \in Obligation
  <2>. HIDE DEF m
  <2>1. CASE j = i
    <3>1. obl'[i] = [m[i] EXCEPT !.due = NotDue] /\ m[i] \in Obligation
      BY <1>2
    <3>. QED  BY <2>1, <3>1 DEF Obligation, NotDue
  <2>2. CASE j # i
    BY <1>2, <2>2
  <2>. QED  BY <2>1, <2>2
<1>4. \A j \in Ids : m[j].url = obl[j].url /\ m[j].suppressed = obl[j].suppressed
  BY SelectReshapes DEF ShapeInv, Reshaped
<1>5. obl' \in [Ids -> Obligation]
  <2>. HIDE DEF m
  <2>. QED  BY <1>2, <1>3
<1>6. Reshaped(obl')
  <2>. HIDE DEF m
  <2>. QED  BY <1>3, <1>4, <1>5, EntryUpdates DEF ShapeInv
<1>7. ASSUME NEW v \in Urls
      PROVE  (Decided(v) => Decided(v)') /\ svc'[v].status # "invariant_violation"
  <2>1. svc[v].status # "invariant_violation"
    BY <1>1 DEF ServedInv
  <2>. QED  BY <1>1, <2>1, PassingDecides DEF Decided
<1>8. ASSUME NEW j \in Ids
      PROVE  /\ obl[j].body => obl'[j].body
             /\ obl'[j].resolution = obl[j].resolution
             /\ obl'[j].selected => \/ obl[j].selected \/ obl'[j].body
                                    \/ obl[j].url = NoUrl \/ Decided(obl[j].url)'
  <2>1. /\ m[j].body = obl[j].body /\ m[j].resolution = obl[j].resolution
        /\ m[j].selected => obl[j].selected \/ Routable(j)
    BY SelectEffect
  <2>2. ASSUME ~ obl[j].selected, m[j].selected, obl[j].url # NoUrl, ~ obl[j].body
        PROVE  Decided(obl[j].url)'
    <3>1. obl[j].url \in Urls
      BY <2>2, IdsType DEF ShapeInv, Obligation
    <3>2. ~ obl[j].suppressed
      BY <2>1, <2>2 DEF Routable, Open, ShapeInv, SuppressedIsInert
    <3>3. j \in Queue
      BY <2>2, <3>2 DEF Queue, ServedInv, Live
    <3>4. obl'[j].url = obl[j].url
      BY <1>6 DEF Reshaped
    <3>. QED  BY <1>1, <3>1, <3>3, <3>4, QueueDecided DEF Decided
  <2>. QED  BY <1>3, <2>1, <2>2
<1>. QED  BY <1>1, <1>6, <1>7, <1>8, ServedKept

(* Passing over keeps decisions and assigns no violation.                  *)
LEMMA PassingServed ==
    ASSUME ShapeInv, ServedInv, pc # "done", svc' = AfterPassing(PassedOver)
    PROVE  \A v \in Urls : (Decided(v) => Decided(v)') /\ svc'[v].status # "invariant_violation"
<1>1. ASSUME NEW v \in Urls
      PROVE  (Decided(v) => Decided(v)') /\ svc'[v].status # "invariant_violation"
  <2>1. svc[v].status # "invariant_violation"
    BY DEF ServedInv
  <2>. QED  BY <2>1, PassingDecides DEF Decided
<1>. QED  BY <1>1

(* A step that leaves the obligations alone keeps the service invariant.   *)
LEMMA SameServed ==
    ASSUME ShapeInv, ShapeInv', ServedInv, obl' = obl, pc # "done",
           pc' \notin {"finalize", "done"},
           \A u \in Urls : /\ Decided(u) => Decided(u)'
                           /\ svc'[u].status # "invariant_violation"
    PROVE  ServedInv'
  BY SameSpares, ServedKept DEF SparesSuppressed, ShapeInv

(* A read chosen by the frontier keeps the service invariant.              *)
LEMMA FrontierReadServed ==
    ASSUME ShapeInv, ShapeInv', ServedInv, NEW u \in Urls, NEW c \in Cands, FrontierRead(u, c)
    PROVE  ServedInv'
<1>1. /\ pc = "propose" /\ pc' = "call" /\ svc' = AfterPassing(PassedOver)
      /\ Enabled # {} /\ \A v \in Urls : ~ Fresh(v)
  BY DEF FrontierRead, NotService, Proposing, Serviceable
<1>2. \A v \in Urls : (Decided(v) => Decided(v)') /\ svc'[v].status # "invariant_violation"
  BY <1>1, PassingServed
<1>3. CASE obl' = obl
  BY <1>1, <1>2, <1>3, SameServed
<1>4. ASSUME NEW i \in Pinnable, obl' = [obl EXCEPT ![i].selected = TRUE]
      PROVE  ServedInv'
  <2>1. i \in Ids /\ i \in Queue
    BY DEF Pinnable, Queue
  <2>2. obl' = [obl EXCEPT ![i] = [obl[i] EXCEPT !.selected = TRUE]]
    BY <1>4
  <2>3. obl' \in [Ids -> Obligation]
    BY <2>1, <2>2, IdsType, SelectedIsObligation DEF ShapeInv
  <2>4. \A j \in Ids : /\ obl'[j].url = obl[j].url /\ obl'[j].suppressed = obl[j].suppressed
                       /\ obl'[j].body = obl[j].body /\ obl'[j].resolution = obl[j].resolution
                       /\ j # i => obl'[j] = obl[j]
    BY <2>1, <2>2, IdsType DEF ShapeInv, Obligation
  <2>5. Reshaped(obl')
    BY <2>3, <2>4, EntryUpdates DEF ShapeInv
  <2>6. Decided(obl[i].url)'
    BY <1>1, <2>1, <2>4, QueueDecided, IdsType DEF Queue, Decided, ShapeInv, Obligation
  <2>. QED  BY <1>1, <1>2, <2>4, <2>5, <2>6, ServedKept
<1>. QED  BY <1>3, <1>4 DEF FrontierRead

(* Stopping with nothing serviceable leaves no live obligation undecided.  *)
LEMMA StopServed ==
    ASSUME ShapeInv, ServedInv, Stop
    PROVE  ServedInv'
<1>1. /\ pc = "propose" /\ pc' = "finalize" /\ svc' = AfterPassing(PassedOver)
      /\ obl' = obl /\ Ids' = Ids /\ \A v \in Urls : ~ Fresh(v)
  BY DEF Stop, Proposing, Serviceable, Ids
<1>2. \A v \in Urls : (Decided(v) => Decided(v)') /\ svc'[v].status # "invariant_violation"
  BY <1>1, PassingServed
<1>3. ASSUME NEW i \in Ids, Live(i)
      PROVE  /\ Open(i) /\ (obl[i].selected => Decided(obl[i].url))
             /\ obl[i].url \in Urls
  BY <1>3, IdsType DEF ServedInv, Live, ShapeInv, Obligation
<1>4. ASSUME NEW i \in Ids, Live(i), Enabled # {}
      PROVE  Decided(obl[i].url)'
  <2>1. CASE obl[i].selected
    <3>1. PICK u \in Urls : u = obl[i].url
      BY <1>3, <1>4
    <3>. QED  BY <1>1, <1>2, <1>3, <1>4, <2>1, <3>1 DEF Decided
  <2>2. CASE ~ obl[i].selected
    <3>1. i \in Queue
      BY <1>3, <1>4, <2>2 DEF Queue, Live
    <3>. QED  BY <1>1, <1>3, <1>4, <3>1, QueueDecided DEF Decided
  <2>. QED  BY <2>1, <2>2
<1>5. ASSUME NEW i \in Ids, Live(i)
      PROVE  (Open(i) /\ (obl[i].selected => Decided(obl[i].url)))'
  <2>1. PICK u \in Urls : u = obl[i].url
    BY <1>3, <1>5
  <2>. QED  BY <1>1, <1>2, <1>3, <1>5, <2>1 DEF Open, Decided
<1>6. \A i \in Ids : Live(i)' = Live(i)
  BY <1>1 DEF Live
<1>. QED  BY <1>1, <1>2, <1>4, <1>5, <1>6 DEF ServedInv, NoUnservedObligation

(* The outcome of a service read keeps the service invariant.              *)
LEMMA ExecuteServiceServed ==
    ASSUME ShapeInv, ShapeInv', ServedInv, NEW out \in Outcomes, ExecuteService(out)
    PROVE  ServedInv'
<1>0. PICK u \in Urls : u = step.url
  BY StepUrl DEF ExecuteService
<1>1. pc = "call" /\ pc' = "ingest" /\ svc[u] \in ServiceRecord
  BY DEF ExecuteService, ShapeInv, TypeOK
<1>2. ASSUME NEW v \in Urls
      PROVE  (Decided(v) => Decided(v)') /\ svc'[v].status # "invariant_violation"
  <2>1. svc[v].status # "invariant_violation"
    BY <1>1 DEF ServedInv
  <2>2. CASE v = u
    <3>1. svc'[u] = ServiceRecordAfter(u, out)
      BY <1>0 DEF ExecuteService, ShapeInv, TypeOK
    <3>. QED  BY <1>1, <2>1, <2>2, <3>1 DEF ServiceRecordAfter, ServiceRecord, Decided
  <2>3. CASE v # u
    BY <1>0, <2>1, <2>3 DEF ExecuteService, ShapeInv, TypeOK, Decided
  <2>. QED  BY <2>2, <2>3
<1>3. CASE obl' = obl
  BY <1>1, <1>2, <1>3, SameServed
<1>4. CASE obl' = BodyAvailable(u)
  <2>1. Reshaped(obl')
    BY <1>4, BodyAvailableSpares DEF SparesSuppressed, ShapeInv
  <2>2. ASSUME NEW i \in Ids
        PROVE  /\ obl[i].body => obl'[i].body
               /\ obl'[i].resolution = obl[i].resolution
               /\ obl'[i].selected = obl[i].selected
    <3>1. obl'[i] \in {obl[i], [obl[i] EXCEPT !.body = TRUE]} /\ obl[i] \in Obligation
      BY <1>4, IdsType DEF BodyAvailable, ShapeInv
    <3>. QED  BY <3>1 DEF Obligation
  <2>. QED  BY <1>1, <1>2, <2>1, <2>2, ServedKept
<1>. QED  BY <1>0, <1>3, <1>4 DEF ExecuteService

(* A step that changes no record keeps the service invariant.              *)
LEMMA QuietServed ==
    ASSUME ShapeInv, ShapeInv', ServedInv, svc' = svc, pc # "done",
           pc' \notin {"finalize", "done"}, Reshaped(obl'),
           \A i \in Ids : /\ obl[i].body => obl'[i].body
                          /\ obl'[i].resolution = obl[i].resolution \/ obl'[i].body
                          /\ obl'[i].selected => obl[i].selected \/ obl'[i].body
    PROVE  ServedInv'
<1>1. ASSUME NEW v \in Urls
      PROVE  (Decided(v) => Decided(v)') /\ svc'[v].status # "invariant_violation"
  BY DEF Decided, ServedInv
<1>. QED  BY <1>1, ServedKept

(* The outcome of a re-read keeps the service invariant.                   *)
LEMMA ExecuteRereadServed ==
    ASSUME ShapeInv, ShapeInv', ServedInv, NEW out \in Outcomes, ExecuteReread(out)
    PROVE  ServedInv'
<1>1. svc' = svc /\ pc # "done" /\ pc' \notin {"finalize", "done"}
  BY DEF ExecuteReread
<1>2. CASE obl' = obl
  BY <1>1, <1>2, SameSpares, QuietServed DEF SparesSuppressed, ShapeInv
<1>3. CASE obl' = [i \in Ids |-> IF i \in GivenUp(step.url)
                                 THEN [obl[i] EXCEPT !.reread = FALSE] ELSE obl[i]]
  <2>1. ASSUME NEW i \in Ids
        PROVE  /\ obl'[i].body = obl[i].body /\ obl'[i].resolution = obl[i].resolution
               /\ obl'[i].selected = obl[i].selected /\ obl'[i] \in Obligation
               /\ obl'[i].url = obl[i].url /\ obl'[i].suppressed = obl[i].suppressed
    <3>1. obl'[i] \in {obl[i], [obl[i] EXCEPT !.reread = FALSE]} /\ obl[i] \in Obligation
      BY <1>3, IdsType DEF ShapeInv
    <3>. QED  BY <3>1 DEF Obligation
  <2>2. obl' \in [Ids -> Obligation]
    BY <1>3, <2>1
  <2>3. Reshaped(obl')
    BY <2>1, <2>2, EntryUpdates DEF ShapeInv
  <2>. QED  BY <1>1, <2>1, <2>3, QuietServed
<1>. QED  BY <1>2, <1>3 DEF ExecuteReread

(* A new obligation is open and unselected.                                *)
LEMMA RegisterServed ==
    ASSUME ShapeInv, ServedInv, NEW t \in Triples, NEW from \in Urls \cup {NoUrl},
           NEW sup \in BOOLEAN, Register(t, from, sup)
    PROVE  ServedInv'
<1>1. /\ obl' = Append(obl, NewObligation(t, sup)) /\ svc' = svc /\ pc' = pc /\ pc = "ingest"
  BY DEF Register
<1>2. /\ Len(obl') = Len(obl) + 1 /\ obl'[Len(obl) + 1] = NewObligation(t, sup)
      /\ \A i \in Ids : obl'[i] = obl[i]
  BY <1>1, AppendProperties DEF ShapeInv, TypeOK, Ids
<1>3. Ids' = Ids \cup {Len(obl) + 1}
  BY <1>2, IdsType DEF Ids, ShapeInv
<1>4. ASSUME NEW i \in Ids', Live(i)'
      PROVE  (Open(i) /\ (obl[i].selected => Decided(obl[i].url)))'
  <2>1. CASE i \in Ids
    <3>1. obl'[i] = obl[i]
      BY <1>2, <2>1
    <3>2. Live(i)
      BY <1>4, <3>1 DEF Live
    <3>. QED  BY <1>1, <2>1, <3>1, <3>2 DEF ServedInv, Open, Decided
  <2>2. CASE i = Len(obl) + 1
    <3>1. /\ obl'[i].suppressed = sup /\ ~ obl'[i].selected
          /\ obl'[i].resolution = IF sup THEN "suppressed" ELSE "open"
      <4>1. obl'[i] = NewObligation(t, sup)
        BY <1>2, <2>2
      <4>2. /\ NewObligation(t, sup).suppressed = sup
            /\ ~ NewObligation(t, sup).selected
        BY DEF NewObligation
      <4>3. NewObligation(t, sup).resolution = IF sup THEN "suppressed" ELSE "open"
        BY DEF NewObligation
      <4>. QED  BY <4>1, <4>2, <4>3
    <3>2. ~ sup
      BY <1>4, <3>1 DEF Live
    <3>. QED  BY <3>1, <3>2 DEF Open
  <2>. QED  BY <1>3, <1>4, <2>1, <2>2
<1>. QED  BY <1>1, <1>4 DEF ServedInv, NoUnservedObligation

(* A judged obligation is linked to the body it was judged on.             *)
LEMMA RouteServed ==
    ASSUME ShapeInv, ShapeInv', ServedInv, Route
    PROVE  ServedInv'
<1>1. svc' = svc /\ pc # "done" /\ pc' \notin {"finalize", "done"}
  BY DEF Route
<1>2. PICK verdict \in [Routed -> Verdicts] :
        obl' = [i \in Ids |-> IF i \in Routed THEN Judged(i, verdict[i]) ELSE obl[i]]
  BY DEF Route
<1>3. ASSUME NEW i \in Ids
      PROVE  /\ obl'[i] \in Obligation
             /\ obl'[i].url = obl[i].url /\ obl'[i].suppressed = obl[i].suppressed
             /\ obl'[i] = obl[i] \/ obl'[i].body
  <2>1. obl[i] \in Obligation
    BY IdsType DEF ShapeInv
  <2>2. CASE i \in Routed
    <3>1. obl'[i] = Judged(i, verdict[i]) /\ verdict[i] \in Verdicts
      BY <1>2, <2>2
    <3>2. Judged(i, verdict[i]).body
      BY <2>1 DEF Judged, Obligation
    <3>. QED  BY <3>1, <3>2, JudgedType DEF ShapeInv
  <2>3. CASE i \notin Routed
    BY <1>2, <2>1, <2>3
  <2>. QED  BY <2>2, <2>3
<1>4. obl' \in [Ids -> Obligation]
  BY <1>2, <1>3
<1>5. Reshaped(obl')
  BY <1>3, <1>4, EntryUpdates DEF ShapeInv
<1>6. \A i \in Ids : /\ obl[i].body => obl'[i].body
                     /\ obl'[i].resolution = obl[i].resolution \/ obl'[i].body
                     /\ obl'[i].selected => obl[i].selected \/ obl'[i].body
  BY <1>3
<1>. QED  BY <1>1, <1>5, <1>6, QuietServed

(* The end of a loop step keeps the service invariant.                     *)
LEMMA CloseStepServed ==
    ASSUME ShapeInv, ShapeInv', ServedInv, NEW cut \in BOOLEAN, CloseStep(cut)
    PROVE  ServedInv'
<1>1. svc' = svc /\ pc # "done" /\ pc' \notin {"finalize", "done"}
  BY DEF CloseStep
<1>2. PICK S \in SUBSET Ids :
        obl' = [i \in Ids |-> IF i \in S
                  THEN [obl[i] EXCEPT !.reread = TRUE, !.rereadDone = TRUE, !.due = calls]
                  ELSE obl[i]]
  <2>. DEFINE S == IF cut /\ step.kind \in ServiceKinds /\ Succeeds(got)
                   THEN RereadWorthy(step.url) ELSE {}
  <2>1. S \in SUBSET Ids
    BY WorthyIsClean
  <2>2. obl' = [i \in Ids |-> IF i \in S
                  THEN [obl[i] EXCEPT !.reread = TRUE, !.rereadDone = TRUE, !.due = calls]
                  ELSE obl[i]]
    BY DEF CloseStep, ScheduleRereads
  <2>. HIDE DEF S
  <2>. QED  BY <2>1, <2>2
<1>3. ASSUME NEW i \in Ids
      PROVE  /\ obl'[i].body = obl[i].body /\ obl'[i].resolution = obl[i].resolution
             /\ obl'[i].selected = obl[i].selected /\ obl'[i] \in Obligation
             /\ obl'[i].url = obl[i].url /\ obl'[i].suppressed = obl[i].suppressed
  <2>1. /\ obl'[i] \in {obl[i], [obl[i] EXCEPT !.reread = TRUE, !.rereadDone = TRUE, !.due = calls]}
        /\ obl[i] \in Obligation /\ calls \in 0 .. Budget
    BY <1>2, IdsType, ClosedCall DEF ShapeInv
  <2>. QED  BY <2>1 DEF Obligation
<1>4. obl' \in [Ids -> Obligation]
  BY <1>2, <1>3
<1>5. Reshaped(obl')
  BY <1>3, <1>4, EntryUpdates DEF ShapeInv
<1>. QED  BY <1>1, <1>3, <1>5, QuietServed

(* finalize_pending_service gives every obligation a status other than the *)
(* violation.                                                              *)
LEMMA FinalizeServed ==
    ASSUME ShapeInv, ServedInv, Finalize
    PROVE  ServedInv'
<1>1. /\ svc' = [u \in Urls |-> [svc[u] EXCEPT !.status = FinalUrlStatus(u)]]
      /\ obl' = [i \in Ids |-> [obl[i] EXCEPT !.status = FinalStatus(i)]]
      /\ pc # "done" /\ pc' = "done" /\ (pc = "finalize" \/ calls = Budget)
  BY DEF Finalize
<1>2. ASSUME NEW i \in Ids
      PROVE  /\ obl'[i].url = obl[i].url /\ obl'[i].suppressed = obl[i].suppressed
             /\ obl'[i].resolution = obl[i].resolution /\ obl'[i].selected = obl[i].selected
             /\ obl'[i].body = obl[i].body /\ obl'[i].status = FinalStatus(i)
  BY <1>1, IdsType DEF ShapeInv, Obligation
<1>3. Ids' = Ids
  BY <1>1, IdsType, IsASeq DEF Ids, ShapeInv
<1>4. ASSUME NEW u \in Urls, Decided(u) PROVE Decided(u)'
  <2>1. svc[u] \in ServiceRecord
    BY DEF ShapeInv, TypeOK
  <2>2. svc'[u].attempted = svc[u].attempted /\ svc'[u].blocked = svc[u].blocked
        /\ svc'[u].status = FinalUrlStatus(u)
    BY <1>1, <2>1 DEF ServiceRecord
  <2>3. svc[u].status # "" => FinalUrlStatus(u) # ""
    BY DEF FinalUrlStatus
  <2>. QED  BY <1>4, <2>2, <2>3 DEF Decided
<1>5. ASSUME NEW i \in Ids, Live(i)'
      PROVE  (Open(i) /\ (obl[i].selected => Decided(obl[i].url)))'
  <2>1. Live(i) /\ obl[i].url \in Urls
    BY <1>2, <1>5, IdsType DEF Live, ShapeInv, Obligation
  <2>. QED  BY <1>2, <1>4, <2>1 DEF ServedInv, Open, Decided
<1>6. ASSUME NEW i \in Ids PROVE FinalStatus(i) \notin {"", "invariant_violation"}
  <2>1. CASE ~ Live(i)
    <3>1. CASE obl[i].suppressed \/ obl[i].url = NoUrl
      BY <3>1 DEF FinalStatus
    <3>2. CASE ~ obl[i].suppressed /\ obl[i].url # NoUrl /\ obl[i].body
      BY <3>2 DEF FinalStatus
    <3>. QED  BY <2>1, <3>1, <3>2 DEF Live
  <2>2. CASE Live(i)
    <3>1. PICK u \in Urls : u = obl[i].url
      BY <2>2, IdsType DEF Live, ShapeInv, Obligation
    <3>2. i \in Members(u)
      BY <2>2, <3>1 DEF Live, Members
    <3>3. Enabled = {} \/ Decided(u) \/ calls = Budget
      BY <1>1, <2>2, <3>1 DEF ServedInv
    <3>4. svc[u].status # "invariant_violation"
      BY <1>1 DEF ServedInv
    <3>5. FinalUrlStatus(u) \notin {"", "invariant_violation"}
      BY <3>2, <3>3, <3>4 DEF FinalUrlStatus, Decided
    <3>. QED  BY <2>2, <3>1, <3>5 DEF FinalStatus, Live
  <2>. QED  BY <2>1, <2>2
<1>. QED  BY <1>1, <1>2, <1>3, <1>5, <1>6 DEF ServedInv, NoUnservedObligation

(* Every step of the loop keeps the service invariant.                     *)
THEOREM ServedStep ==
    ASSUME ShapeInv, ShapeInv', ServedInv, [Next]_vars
    PROVE  ServedInv'
<1>1. ASSUME NEW s, NotService(s), obl' = obl PROVE ServedInv'
  <2>1. pc = "propose" /\ pc' = "call" /\ svc' = AfterPassing(PassedOver)
    BY <1>1 DEF NotService, Proposing
  <2>. QED  BY <1>1, <2>1, PassingServed, SameServed
<1>2. ASSUME Propose PROVE ServedInv'
  <2>1. ASSUME Search PROVE ServedInv'
    BY <1>1, <2>1 DEF Search
  <2>2. ASSUME NEW u \in Urls, PlannerRead(u) PROVE ServedInv'
    BY <1>1, <2>2 DEF PlannerRead
  <2>. QED  BY <1>2, <2>1, <2>2, FallbackServed, FreshServed, RereadServed,
               FrontierReadServed, StopServed DEF Propose
<1>3. ASSUME obl' = obl, svc' = svc, pc # "done", pc' \notin {"finalize", "done"}
      PROVE  ServedInv'
  <2>1. Reshaped(obl')
    BY <1>3, SameSpares DEF ShapeInv, SparesSuppressed
  <2>. QED  BY <1>3, <2>1, QuietServed
<1>4. ASSUME Execute PROVE ServedInv'
  BY <1>3, <1>4, ExecuteServiceServed, ExecuteRereadServed
  DEF Execute, ExecuteRead, ExecuteSearch
<1>5. ASSUME Ingest PROVE ServedInv'
  BY <1>5, RegisterServed, RouteServed, CloseStepServed DEF Ingest
<1>6. ASSUME UNCHANGED vars PROVE ServedInv'
  BY <1>6 DEF vars, ServedInv, NoUnservedObligation, Live, Open, Decided, Ids
<1>. QED  BY <1>2, <1>4, <1>5, <1>6, FinalizeServed DEF Next, Terminated

(* No obligation ends the item open, clean and unserved while budget       *)
(* remained, for any budget, number of obligations and tools               *)
(* (finalize_pending_service).                                             *)
THEOREM EveryObligationServed == Spec => []NoUnservedObligation
<1>1. Init => ServedInv
  BY ServedInit
<1>2. ShapeInv /\ ShapeInv' /\ ServedInv /\ [Next]_vars => ServedInv'
  BY ServedStep
<1>3. ServedInv => NoUnservedObligation
  BY DEF ServedInv
<1>. QED  BY <1>1, <1>2, <1>3, ShapeCorrect, PTL DEF Spec

-----------------------------------------------------------------------------
(* Re-reads: the counters of the predicate re-reads account for every      *)
(* re-read that was scheduled, and a settled verdict is final because only *)
(* an unsettled obligation is ever re-read.                                *)

(* The obligations whose re-read is pending.                               *)
Rereading == {i \in Ids : obl[i].reread}

(* The inductive invariant of the re-reads.                                *)
RereadInv ==
    /\ \A i \in Ids : obl[i].reread => obl[i].resolution \in Retriable /\ obl[i].rereadDone
    /\ RereadAccounting

(* The re-read invariant holds of a new item.                              *)
LEMMA RereadInit == Init => RereadInv
<1>. SUFFICES ASSUME Init PROVE RereadInv
  OBVIOUS
<1>1. Ids = {} /\ tally.scheduled = 0 /\ tally.resolved = 0 /\ tally.stillOpen = 0
  BY DEF Init, Ids
<1>2. Cardinality({i \in Ids : obl[i].reread}) = 0
  BY <1>1, FS_EmptySet
<1>. QED  BY <1>1, <1>2 DEF RereadInv, RereadAccounting

(* Taking a part out of a finite set takes its count off.                  *)
LEMMA CountRemaining ==
    ASSUME NEW S, IsFiniteSet(S), NEW D \in SUBSET S
    PROVE  IsFiniteSet(S \ D) /\ Cardinality(S \ D) = Cardinality(S) - Cardinality(D)
<1>1. IsFiniteSet(S \ D) /\ Cardinality(S \ D) = Cardinality(S) - Cardinality(S \cap D)
  BY FS_Difference
<1>2. S \cap D = D
  OBVIOUS
<1>. QED  BY <1>1, <1>2

(* The counts of disjoint finite sets add up.                              *)
LEMMA CountDisjoint ==
    ASSUME NEW S, NEW N, IsFiniteSet(S), IsFiniteSet(N), S \cap N = {}
    PROVE  Cardinality(S \cup N) = Cardinality(S) + Cardinality(N)
<1>1. Cardinality(S \cup N) = Cardinality(S) + Cardinality(N) - Cardinality(S \cap N)
  BY FS_Union
<1>2. Cardinality(S \cap N) = 0
  BY FS_EmptySet
<1>3. Cardinality(S) \in Nat /\ Cardinality(N) \in Nat
  BY FS_CardinalityType
<1>. QED  BY <1>1, <1>2, <1>3

(* The counters and the re-reads that are pending add up.                  *)
LEMMA CountsKept ==
    ASSUME ShapeInv, ShapeInv', RereadAccounting,
           NEW S \in SUBSET Ids, NEW D \in SUBSET S, NEW N,
           IsFiniteSet(N), N \cap Rereading = {}, S \subseteq Rereading,
           Rereading' = (Rereading \ S) \cup N,
           tally'.scheduled = tally.scheduled + Cardinality(N),
           tally'.resolved = tally.resolved + Cardinality(D),
           tally'.stillOpen = tally.stillOpen + Cardinality(S \ D)
    PROVE  RereadAccounting'
<1>1. /\ IsFiniteSet(Rereading) /\ Cardinality(Rereading) \in Nat
      /\ IsFiniteSet(S) /\ Cardinality(S) \in Nat
      /\ Cardinality(D) \in Nat /\ Cardinality(S \ D) \in Nat
  BY SubsetCount DEF ShapeInv, Rereading
<1>2. Cardinality(N) \in Nat
  BY FS_CardinalityType
<1>3. Cardinality(S \ D) = Cardinality(S) - Cardinality(D)
  BY <1>1, CountRemaining
<1>4. /\ IsFiniteSet(Rereading \ S)
      /\ Cardinality(Rereading \ S) = Cardinality(Rereading) - Cardinality(S)
  BY <1>1, CountRemaining
<1>5. Cardinality(Rereading') = Cardinality(Rereading \ S) + Cardinality(N)
  <2>1. (Rereading \ S) \cap N = {}
    OBVIOUS
  <2>. QED  BY <1>4, <2>1, CountDisjoint
<1>6. tally.scheduled = tally.resolved + tally.stillOpen + Cardinality(Rereading)
  BY DEF RereadAccounting, Rereading
<1>7. tally.scheduled \in Nat /\ tally.resolved \in Nat /\ tally.stillOpen \in Nat
  BY DEF ShapeInv, TypeOK
<1>8. tally'.scheduled = tally'.resolved + tally'.stillOpen + Cardinality(Rereading')
  BY <1>1, <1>2, <1>3, <1>4, <1>5, <1>6, <1>7
<1>. QED  BY <1>8 DEF RereadAccounting, Rereading

(* Steps that leave the counters and every obligation's re-read alone.     *)
LEMMA RereadKept ==
    ASSUME ShapeInv, RereadInv, tally' = tally, Reshaped(obl'),
           \A i \in Ids : /\ obl'[i].reread = obl[i].reread
                          /\ obl'[i].rereadDone = obl[i].rereadDone
                          /\ obl'[i].resolution = obl[i].resolution
    PROVE  RereadInv'
<1>1. Ids' = Ids
  BY MembersKept DEF ShapeInv
<1>2. {i \in Ids : obl[i].reread}' = {i \in Ids : obl[i].reread}
  BY <1>1
<1>3. RereadAccounting'
  BY <1>2 DEF RereadInv, RereadAccounting
<1>. QED  BY <1>1, <1>3 DEF RereadInv

(* Selecting a group leaves re-reads and resolutions alone.                *)
LEMMA SelectRereads ==
    ASSUME TypeOK, NEW u, NEW i \in Ids
    PROVE  /\ Select(u)[i].reread = obl[i].reread
           /\ Select(u)[i].rereadDone = obl[i].rereadDone
           /\ Select(u)[i].resolution = obl[i].resolution
           /\ Select(u)[i] \in Obligation
<1>1. Select(u)[i] \in {obl[i], [obl[i] EXCEPT !.selected = TRUE]} /\ obl[i] \in Obligation
  BY SelectReshapes, IdsType
<1>. QED  BY <1>1 DEF Obligation

(* Starting a call keeps the re-read invariant.                            *)
LEMMA ProposeRereads ==
    ASSUME ShapeInv, RereadInv, Propose
    PROVE  RereadInv'
<1>1. ASSUME obl' = obl, tally' = tally PROVE RereadInv'
  BY <1>1, SameSpares, RereadKept DEF SparesSuppressed, ShapeInv
<1>2. ASSUME NEW u, obl' = Select(u), tally' = tally PROVE RereadInv'
  BY <1>2, SelectRereads, SelectReshapes, RereadKept DEF ShapeInv
<1>3. ASSUME NEW u \in Urls, ServiceFallback(u) \/ ServiceFresh(u) PROVE RereadInv'
  BY <1>2, <1>3 DEF ServiceFallback, ServiceFresh, PlanServiceRead
<1>4. ASSUME NEW i \in Ids, ServiceReread(i) PROVE RereadInv'
  <2>. DEFINE m == Select(obl[i].url)
  <2>1. tally' = tally
    BY <1>4 DEF ServiceReread, PlanServiceRead
  <2>2. obl' = [m EXCEPT ![i] = [m[i] EXCEPT !.due = NotDue]] /\ m \in [Ids -> Obligation]
    BY <1>4, SelectReshapes, IdsType, SelectedIsObligation DEF ServiceReread, ShapeInv, Select
  <2>3. ASSUME NEW j \in Ids
        PROVE  /\ obl'[j].url = m[j].url /\ obl'[j].suppressed = m[j].suppressed
               /\ obl'[j].reread = m[j].reread /\ obl'[j].rereadDone = m[j].rereadDone
               /\ obl'[j].resolution = m[j].resolution /\ obl'[j] \in Obligation
    <3>. HIDE DEF m
    <3>1. CASE j = i
      <4>1. obl'[i] = [m[i] EXCEPT !.due = NotDue] /\ m[i] \in Obligation
        BY <2>2
      <4>. QED  BY <3>1, <4>1 DEF Obligation, NotDue
    <3>2. CASE j # i
      BY <2>2, <3>2
    <3>. QED  BY <3>1, <3>2
  <2>4. \A j \in Ids : m[j].url = obl[j].url /\ m[j].suppressed = obl[j].suppressed
    BY SelectReshapes DEF ShapeInv, Reshaped
  <2>5. \A j \in Ids : /\ m[j].reread = obl[j].reread /\ m[j].rereadDone = obl[j].rereadDone
                       /\ m[j].resolution = obl[j].resolution
    BY SelectRereads DEF ShapeInv
  <2>. HIDE DEF m
  <2>6. obl' \in [Ids -> Obligation]
    BY <2>2, <2>3
  <2>7. Reshaped(obl')
    BY <2>3, <2>4, <2>6, EntryUpdates DEF ShapeInv
  <2>. QED  BY <2>1, <2>3, <2>5, <2>7, RereadKept
<1>5. ASSUME NEW u \in Urls, NEW c \in Cands, FrontierRead(u, c) PROVE RereadInv'
  <2>1. tally' = tally
    BY <1>5 DEF FrontierRead, NotService
  <2>2. ASSUME NEW i \in Pinnable, obl' = [obl EXCEPT ![i].selected = TRUE] PROVE RereadInv'
    <3>1. i \in Ids /\ obl' = [obl EXCEPT ![i] = [obl[i] EXCEPT !.selected = TRUE]]
      BY <2>2 DEF Pinnable, Queue
    <3>2. ASSUME NEW j \in Ids
          PROVE  /\ obl'[j].url = obl[j].url /\ obl'[j].suppressed = obl[j].suppressed
                 /\ obl'[j].reread = obl[j].reread /\ obl'[j].rereadDone = obl[j].rereadDone
                 /\ obl'[j].resolution = obl[j].resolution /\ obl'[j] \in Obligation
      <4>1. obl'[j] \in {obl[j], [obl[j] EXCEPT !.selected = TRUE]} /\ obl[j] \in Obligation
        BY <3>1, IdsType DEF ShapeInv
      <4>. QED  BY <4>1 DEF Obligation
    <3>3. obl' \in [Ids -> Obligation]
      BY <3>1, <3>2, IdsType DEF ShapeInv
    <3>4. Reshaped(obl')
      BY <3>2, <3>3, EntryUpdates DEF ShapeInv
    <3>. QED  BY <2>1, <3>2, <3>4, RereadKept
  <2>. QED  BY <1>1, <1>5, <2>1, <2>2 DEF FrontierRead
<1>6. ASSUME Search \/ Stop \/ \E u \in Urls : PlannerRead(u) PROVE RereadInv'
  BY <1>1, <1>6 DEF Search, Stop, PlannerRead, NotService
<1>. QED  BY <1>3, <1>4, <1>5, <1>6 DEF Propose

(* The outcome of a call keeps the re-read invariant.                      *)
LEMMA ExecuteRereads ==
    ASSUME ShapeInv, ShapeInv', RereadInv, Execute
    PROVE  RereadInv'
<1>1. ASSUME obl' = obl, tally' = tally PROVE RereadInv'
  BY <1>1, SameSpares, RereadKept DEF SparesSuppressed, ShapeInv
<1>2. ASSUME NEW out \in Outcomes, ExecuteService(out) PROVE RereadInv'
  <2>1. tally' = tally
    BY <1>2 DEF ExecuteService
  <2>2. CASE obl' = BodyAvailable(step.url)
    <3>1. ASSUME NEW i \in Ids
          PROVE  /\ obl'[i].reread = obl[i].reread /\ obl'[i].rereadDone = obl[i].rereadDone
                 /\ obl'[i].resolution = obl[i].resolution
      <4>1. obl'[i] \in {obl[i], [obl[i] EXCEPT !.body = TRUE]} /\ obl[i] \in Obligation
        BY <2>2, IdsType DEF BodyAvailable, ShapeInv
      <4>. QED  BY <4>1 DEF Obligation
    <3>2. Reshaped(obl')
      BY <2>2, BodyAvailableSpares DEF SparesSuppressed, ShapeInv
    <3>. QED  BY <2>1, <3>1, <3>2, RereadKept
  <2>. QED  BY <1>1, <1>2, <2>1, <2>2 DEF ExecuteService
<1>3. ASSUME NEW out \in Outcomes, ExecuteReread(out), ~ Succeeds(out) PROVE RereadInv'
  <2>. DEFINE G == GivenUp(step.url)
  <2>1. /\ obl' = [i \in Ids |-> IF i \in G THEN [obl[i] EXCEPT !.reread = FALSE] ELSE obl[i]]
        /\ tally' = [tally EXCEPT !.stillOpen = @ + Cardinality(G)]
    BY <1>3 DEF ExecuteReread
  <2>2. G \in SUBSET Ids /\ G \subseteq Rereading
    BY DEF GivenUp, PendingsFor, Rereading
  <2>. HIDE DEF G
  <2>3. ASSUME NEW i \in Ids
        PROVE  /\ obl'[i].reread = (obl[i].reread /\ i \notin G)
               /\ obl'[i].rereadDone = obl[i].rereadDone
               /\ obl'[i].resolution = obl[i].resolution
    <3>1. obl[i] \in Obligation
      BY IdsType DEF ShapeInv
    <3>2. CASE i \in G
      BY <2>1, <3>1, <3>2 DEF Obligation
    <3>3. CASE i \notin G
      BY <2>1, <3>1, <3>3 DEF Obligation
    <3>. QED  BY <3>2, <3>3
  <2>4. Ids' = Ids
    BY <2>1, IdsType, IsASeq DEF ShapeInv, Ids
  <2>5. Rereading' = (Rereading \ G) \cup {}
    BY <2>3, <2>4 DEF Rereading
  <2>6. /\ tally'.scheduled = tally.scheduled + 0 /\ tally'.resolved = tally.resolved + 0
        /\ tally'.stillOpen = tally.stillOpen + Cardinality(G)
    <3>1. tally \in [scheduled : Nat, resolved : Nat, stillOpen : Nat]
      BY DEF ShapeInv, TypeOK
    <3>. QED  BY <2>1, <3>1
  <2>7. /\ {} \in SUBSET G /\ IsFiniteSet({}) /\ Cardinality({}) = 0 /\ G \ {} = G
        /\ {} \cap Rereading = {}
    BY FS_EmptySet
  <2>8. RereadAccounting'
    BY <2>2, <2>5, <2>6, <2>7, CountsKept DEF RereadInv
  <2>. QED  BY <2>3, <2>4, <2>8 DEF RereadInv
<1>. QED  BY <1>1, <1>2, <1>3 DEF Execute, ExecuteReread, ExecuteRead, ExecuteSearch

(* Routing a body closes the re-reads it judges, each counted once.        *)
LEMMA RouteRereads ==
    ASSUME ShapeInv, ShapeInv', RereadInv, Route
    PROVE  RereadInv'
<1>1. PICK verdict \in [Routed -> Verdicts] :
        /\ obl' = [i \in Ids |-> IF i \in Routed THEN Judged(i, verdict[i]) ELSE obl[i]]
        /\ LET again == {i \in Routed : obl[i].reread}
               done == {i \in again : verdict[i].resolution = "constraint_resolved"}
           IN  tally' = [tally EXCEPT !.resolved = @ + Cardinality(done),
                                      !.stillOpen = @ + Cardinality(again \ done)]
  BY DEF Route
<1>. DEFINE again == {i \in Routed : obl[i].reread}
            done == {i \in again : verdict[i].resolution = "constraint_resolved"}
<1>2. tally' = [tally EXCEPT !.resolved = @ + Cardinality(done),
                             !.stillOpen = @ + Cardinality(again \ done)]
  BY <1>1
<1>3. again \in SUBSET Ids /\ again \subseteq Rereading /\ done \in SUBSET again
      /\ \A i \in Ids : i \in again <=> i \in Routed /\ obl[i].reread
  BY RoutedIsLive DEF Rereading
<1>. HIDE DEF again, done
<1>4. ASSUME NEW i \in Ids
      PROVE  /\ i \in Routed => obl'[i].reread = FALSE
             /\ i \notin Routed => obl'[i] = obl[i]
  <2>1. obl[i] \in Obligation
    BY IdsType DEF ShapeInv
  <2>. QED  BY <1>1, <2>1 DEF Judged, Obligation
<1>5. Ids' = Ids
  BY <1>1, IdsType, IsASeq DEF ShapeInv, Ids
<1>6. Rereading' = (Rereading \ again) \cup {}
  BY <1>3, <1>4, <1>5 DEF Rereading
<1>7. /\ tally'.scheduled = tally.scheduled + 0
      /\ tally'.resolved = tally.resolved + Cardinality(done)
      /\ tally'.stillOpen = tally.stillOpen + Cardinality(again \ done)
  BY <1>2 DEF ShapeInv, TypeOK
<1>8. IsFiniteSet({}) /\ Cardinality({}) = 0 /\ {} \cap Rereading = {}
  BY FS_EmptySet
<1>9. RereadAccounting'
  BY <1>3, <1>6, <1>7, <1>8, CountsKept DEF RereadInv
<1>. QED  BY <1>4, <1>5, <1>9 DEF RereadInv

(* Queuing re-reads counts each of them once.                              *)
LEMMA CloseStepRereads ==
    ASSUME ShapeInv, ShapeInv', RereadInv, NEW cut \in BOOLEAN, CloseStep(cut)
    PROVE  RereadInv'
<1>. DEFINE S == IF cut /\ step.kind \in ServiceKinds /\ Succeeds(got)
                 THEN RereadWorthy(step.url) ELSE {}
<1>1. /\ obl' = [i \in Ids |-> IF i \in S
                    THEN [obl[i] EXCEPT !.reread = TRUE, !.rereadDone = TRUE, !.due = calls]
                    ELSE obl[i]]
      /\ tally' = [tally EXCEPT !.scheduled = @ + Cardinality(S)]
  BY DEF CloseStep, ScheduleRereads
<1>2. S \in SUBSET Ids /\ \A i \in S : obl[i].resolution \in Retriable /\ ~ obl[i].rereadDone
  BY WorthyIsClean DEF RereadWorthy
<1>3. IsFiniteSet(S)
  BY <1>2, SubsetCount DEF ShapeInv
<1>4. S \cap Rereading = {}
  BY <1>2 DEF RereadInv, Rereading
<1>. HIDE DEF S
<1>5. ASSUME NEW i \in Ids
      PROVE  /\ i \in S => obl'[i].reread /\ obl'[i].rereadDone
             /\ i \notin S => obl'[i] = obl[i]
             /\ obl'[i].resolution = obl[i].resolution
  <2>1. obl[i] \in Obligation
    BY IdsType DEF ShapeInv
  <2>2. CASE i \in S
    <3>1. obl'[i] = [obl[i] EXCEPT !.reread = TRUE, !.rereadDone = TRUE, !.due = calls]
      BY <1>1, <2>2
    <3>. QED  BY <2>1, <2>2, <3>1 DEF Obligation
  <2>3. CASE i \notin S
    BY <1>1, <2>3
  <2>. QED  BY <2>2, <2>3
<1>6. Ids' = Ids
  <2>1. DOMAIN obl' = Ids
    BY <1>1
  <2>2. DOMAIN obl' = 1 .. Len(obl')
    BY DEF ShapeInv, TypeOK
  <2>. QED  BY <2>1, <2>2 DEF Ids
<1>7. Rereading' = (Rereading \ {}) \cup S
  BY <1>2, <1>5, <1>6 DEF Rereading
<1>8. /\ tally'.scheduled = tally.scheduled + Cardinality(S)
      /\ tally'.resolved = tally.resolved + 0 /\ tally'.stillOpen = tally.stillOpen + 0
  <2>1. tally \in [scheduled : Nat, resolved : Nat, stillOpen : Nat]
    BY DEF ShapeInv, TypeOK
  <2>2. /\ tally'.scheduled = tally.scheduled + Cardinality(S)
        /\ tally'.resolved = tally.resolved /\ tally'.stillOpen = tally.stillOpen
    BY <1>1, <2>1
  <2>3. tally.resolved \in Nat /\ tally.stillOpen \in Nat
    BY <2>1
  <2>. QED  BY <2>2, <2>3
<1>9. Cardinality({}) = 0 /\ {} \ {} = {} /\ {} \in SUBSET Ids /\ {} \in SUBSET {}
      /\ {} \subseteq Rereading
  BY FS_EmptySet
<1>10. RereadAccounting'
  BY <1>3, <1>4, <1>7, <1>8, <1>9, CountsKept DEF RereadInv
<1>. QED  BY <1>2, <1>5, <1>6, <1>10 DEF RereadInv

(* A new obligation has no re-read.                                        *)
LEMMA RegisterRereads ==
    ASSUME ShapeInv, RereadInv, NEW t \in Triples, NEW from \in Urls \cup {NoUrl},
           NEW sup \in BOOLEAN, Register(t, from, sup)
    PROVE  RereadInv'
<1>1. obl' = Append(obl, NewObligation(t, sup)) /\ tally' = tally
  BY DEF Register
<1>2. /\ Len(obl') = Len(obl) + 1 /\ obl'[Len(obl) + 1] = NewObligation(t, sup)
      /\ \A i \in Ids : obl'[i] = obl[i]
  BY <1>1, AppendProperties DEF ShapeInv, TypeOK, Ids
<1>3. Ids' = Ids \cup {Len(obl) + 1}
  BY <1>2, IdsType DEF Ids, ShapeInv
<1>4. ~ NewObligation(t, sup).reread
  BY DEF NewObligation
<1>5. {i \in Ids : obl[i].reread}' = {i \in Ids : obl[i].reread}
  BY <1>2, <1>3, <1>4
<1>6. RereadAccounting'
  BY <1>1, <1>5 DEF RereadInv, RereadAccounting
<1>. QED  BY <1>2, <1>3, <1>4, <1>6 DEF RereadInv

(* finalize_pending_service leaves re-reads alone.                         *)
LEMMA FinalizeRereads ==
    ASSUME ShapeInv, ShapeInv', RereadInv, Finalize
    PROVE  RereadInv'
<1>1. obl' = [i \in Ids |-> [obl[i] EXCEPT !.status = FinalStatus(i)]] /\ tally' = tally
  BY DEF Finalize
<1>2. Ids' = Ids
  BY <1>1, IdsType, IsASeq DEF ShapeInv, Ids
<1>3. ASSUME NEW i \in Ids
      PROVE  /\ obl'[i].reread = obl[i].reread /\ obl'[i].rereadDone = obl[i].rereadDone
             /\ obl'[i].resolution = obl[i].resolution
             /\ obl'[i].url = obl[i].url /\ obl'[i].suppressed = obl[i].suppressed
  BY <1>1, IdsType DEF ShapeInv, Obligation
<1>4. {i \in Ids : obl[i].reread}' = {i \in Ids : obl[i].reread}
  BY <1>2, <1>3
<1>5. RereadAccounting'
  BY <1>1, <1>4 DEF RereadInv, RereadAccounting
<1>. QED  BY <1>2, <1>3, <1>5 DEF RereadInv

(* Every step of the loop keeps the re-read invariant.                     *)
THEOREM RereadStep ==
    ASSUME ShapeInv, ShapeInv', RereadInv, [Next]_vars
    PROVE  RereadInv'
<1>1. ASSUME Ingest PROVE RereadInv'
  BY <1>1, RegisterRereads, RouteRereads, CloseStepRereads DEF Ingest
<1>2. ASSUME UNCHANGED vars PROVE RereadInv'
  BY <1>2 DEF vars, RereadInv, RereadAccounting, Ids
<1>. QED  BY <1>1, <1>2, ProposeRereads, ExecuteRereads, FinalizeRereads DEF Next, Terminated

(* Every scheduled re-read is resolved, still open or still pending, and   *)
(* counted once.                                                           *)
THEOREM RereadsAccounted == Spec => []RereadAccounting
<1>1. Init => RereadInv
  BY RereadInit
<1>2. ShapeInv /\ ShapeInv' /\ RereadInv /\ [Next]_vars => RereadInv'
  BY RereadStep
<1>3. RereadInv => RereadAccounting
  BY DEF RereadInv
<1>. QED  BY <1>1, <1>2, <1>3, ShapeCorrect, PTL DEF Spec

(* No step changes the resolution of a settled obligation.                 *)
LEMMA SettledKept ==
    ASSUME ShapeInv, ShapeInv', RereadInv, [Next]_vars,
           NEW i \in Ids, obl[i].resolution \in Settled
    PROVE  obl'[i].resolution = obl[i].resolution
<1>0. obl[i] \in Obligation
  BY IdsType DEF ShapeInv
<1>1. ASSUME Propose PROVE obl'[i].resolution = obl[i].resolution
  <2>1. ASSUME NEW u, obl' = Select(u) PROVE obl'[i].resolution = obl[i].resolution
    BY <2>1, SelectRereads DEF ShapeInv
  <2>2. ASSUME NEW j \in Ids, ServiceReread(j) PROVE obl'[i].resolution = obl[i].resolution
    <3>. DEFINE m == Select(obl[j].url)
    <3>1. obl' = [m EXCEPT ![j] = [m[j] EXCEPT !.due = NotDue]] /\ m \in [Ids -> Obligation]
      BY <2>2, SelectReshapes, IdsType, SelectedIsObligation DEF ServiceReread, ShapeInv, Select
    <3>2. m[i].resolution = obl[i].resolution /\ m[j] \in Obligation
      BY SelectRereads DEF ShapeInv
    <3>. HIDE DEF m
    <3>3. obl'[i] \in {m[i], [m[i] EXCEPT !.due = NotDue]} /\ m[i] \in Obligation
      BY <3>1
    <3>. QED  BY <3>2, <3>3 DEF Obligation, NotDue
  <2>3. ASSUME NEW j \in Pinnable, obl' = [obl EXCEPT ![j].selected = TRUE]
        PROVE  obl'[i].resolution = obl[i].resolution
    <3>1. obl'[i] \in {obl[i], [obl[i] EXCEPT !.selected = TRUE]}
      BY <2>3, IdsType DEF ShapeInv
    <3>. QED  BY <1>0, <3>1 DEF Obligation
  <2>. QED  BY <1>1, <2>1, <2>2, <2>3
            DEF Propose, ServiceFallback, ServiceFresh, Search, FrontierRead, PlannerRead, Stop
<1>2. ASSUME Execute PROVE obl'[i].resolution = obl[i].resolution
  <2>1. CASE obl' = obl
    BY <2>1
  <2>2. ASSUME NEW u, obl' = BodyAvailable(u) PROVE obl'[i].resolution = obl[i].resolution
    BY <1>0, <2>2 DEF BodyAvailable, Obligation
  <2>3. ASSUME NEW G, obl' = [k \in Ids |-> IF k \in G THEN [obl[k] EXCEPT !.reread = FALSE]
                                            ELSE obl[k]]
        PROVE  obl'[i].resolution = obl[i].resolution
    BY <1>0, <2>3 DEF Obligation
  <2>. QED  BY <1>2, <2>1, <2>2, <2>3
            DEF Execute, ExecuteService, ExecuteReread, ExecuteRead, ExecuteSearch
<1>3. ASSUME NEW t \in Triples, NEW from \in Urls \cup {NoUrl}, NEW sup \in BOOLEAN,
             Register(t, from, sup)
      PROVE  obl'[i].resolution = obl[i].resolution
  <2>1. obl'[i] = obl[i]
    BY <1>3, AppendProperties DEF Register, ShapeInv, TypeOK, Ids
  <2>. QED  BY <2>1
<1>4. ASSUME Route PROVE obl'[i].resolution = obl[i].resolution
  <2>1. i \notin Routed
    BY DEF Routed, Routable, Open, RereadInv, Settled, Retriable
  <2>. QED  BY <1>4, <2>1 DEF Route
<1>5. ASSUME NEW cut \in BOOLEAN, CloseStep(cut) PROVE obl'[i].resolution = obl[i].resolution
  <2>1. obl'[i] \in {obl[i], [obl[i] EXCEPT !.reread = TRUE, !.rereadDone = TRUE, !.due = calls]}
    BY <1>5 DEF CloseStep, ScheduleRereads
  <2>. QED  BY <1>0, <2>1 DEF Obligation
<1>6. ASSUME Finalize PROVE obl'[i].resolution = obl[i].resolution
  BY <1>0, <1>6 DEF Finalize, Obligation
<1>7. ASSUME UNCHANGED vars PROVE obl'[i].resolution = obl[i].resolution
  BY <1>7 DEF vars
<1>. QED  BY <1>1, <1>2, <1>3, <1>4, <1>5, <1>6, <1>7 DEF Next, Ingest, Terminated

(* A resolution that settles an obligation is never overwritten.           *)
THEOREM SettledStays == Spec => SettledIsFinal
<1>1. Init => RereadInv
  BY RereadInit
<1>2. ShapeInv /\ ShapeInv' /\ RereadInv /\ [Next]_vars => RereadInv'
  BY RereadStep
<1>3. ShapeInv /\ ShapeInv' /\ RereadInv /\ [Next]_vars
        => [\A i \in Ids : obl[i].resolution \in Settled
                               => obl'[i].resolution = obl[i].resolution]_vars
  BY SettledKept
<1>. QED  BY <1>1, <1>2, <1>3, ShapeCorrect, PTL DEF Spec, SettledIsFinal

-----------------------------------------------------------------------------
(* The pending-read service implements ServicePromise.  AttemptInv says    *)
(* that a page is used exactly when its record says so, and that a service *)
(* read whose outcome is not recorded is still on its way, so that the     *)
(* final statuses agree with the reads.                                    *)

(* Before the end of the item a URL is attempted with some tool, an        *)
(* attempt without an outcome is in flight, and a status that is already   *)
(* assigned is one of the three the loop itself assigns.                   *)
AttemptSound(u) ==
    /\ svc[u].attempted => svc[u].tried # {}
    /\ svc[u].attempted /\ ~ svc[u].recorded => InFlight(u) = 1
    /\ svc[u].status \in {"", "attempted_success", "attempted_failed", "already_satisfied"}

(* The inductive invariant of the attempts.                                *)
AttemptInv == pc # "done" => \A u \in Urls : AttemptSound(u)

(* The attempt invariant holds of a new item.                              *)
LEMMA AttemptInit == Init => AttemptInv
<1>. SUFFICES ASSUME Init, NEW u \in Urls PROVE AttemptSound(u)
  BY DEF AttemptInv
<1>1. svc[u] = NewRecord
  BY DEF Init
<1>2. ~ NewRecord.attempted /\ NewRecord.status = ""
  BY DEF NewRecord
<1>. QED  BY <1>1, <1>2 DEF AttemptSound

(* A record that only a pass over may have touched keeps its attempts.     *)
LEMMA AttemptKept ==
    ASSUME ShapeInv, AttemptInv, pc # "done", NEW u \in Urls, NEW S,
           svc'[u] \in {svc[u], AfterPassing(S)[u]}, InFlight(u) = 0
    PROVE  AttemptSound(u)'
<1>1. svc[u] \in ServiceRecord
  BY DEF ShapeInv, TypeOK
<1>2. /\ svc[u].attempted => svc[u].tried # {} /\ svc[u].recorded
      /\ svc[u].status \in {"", "attempted_success", "attempted_failed", "already_satisfied"}
  <2>1. AttemptSound(u) /\ ~ (InFlight(u) = 1)
    BY DEF AttemptInv
  <2>. QED  BY <2>1 DEF AttemptSound
<1>3. CASE svc'[u] = svc[u]
  BY <1>2, <1>3 DEF AttemptSound
<1>4. CASE svc'[u] = AfterPassing(S)[u] /\ u \notin S
  <2>1. svc'[u] = svc[u]
    BY <1>4 DEF AfterPassing
  <2>. QED  BY <1>2, <2>1 DEF AttemptSound
<1>5. CASE svc'[u] = AfterPassing(S)[u] /\ u \in S
  <2>1. svc'[u] = PassOver(u)
    BY <1>5 DEF AfterPassing
  <2>2. /\ svc'[u].attempted = svc[u].attempted /\ svc'[u].tried = svc[u].tried
        /\ svc'[u].recorded = svc[u].recorded
        /\ svc'[u].status \in {svc[u].status, "already_satisfied"}
    BY <1>1, <2>1 DEF PassOver, ServiceRecord
  <2>. QED  BY <1>2, <2>2 DEF AttemptSound
<1>. QED  BY <1>3, <1>4, <1>5

(* Planning a first read or a fallback puts the URL in flight.             *)
LEMMA AttemptPlanned ==
    ASSUME ShapeInv, AttemptInv, NEW u \in Urls, ServiceFallback(u) \/ ServiceFresh(u)
    PROVE  AttemptInv'
<1>1. pc = "propose"
  BY DEF ServiceFallback, ServiceFresh, Proposing
<1>2. \A v \in Urls : InFlight(v) = 0 /\ svc[v] \in ServiceRecord
  BY <1>1 DEF InFlight, ShapeInv, TypeOK
<1>3. ASSUME NEW v \in Urls PROVE AttemptSound(v)'
  <2>1. AttemptSound(v)
    BY <1>1 DEF AttemptInv
  <2>2. CASE ServiceFallback(u)
    <3>1. PICK tool \in Untried(u) :
             /\ svc' = [svc EXCEPT ![u] = [svc[u] EXCEPT
                           !.fallback = TRUE, !.recorded = FALSE,
                           !.tried = svc[u].tried \cup {tool}]]
             /\ PlanServiceRead("fallback", u, tool)
      BY <2>2 DEF ServiceFallback
    <3>2. CASE v # u
      <4>1. svc'[v] = svc[v]
        BY <3>1, <3>2
      <4>. QED  BY <1>1, <1>2, <4>1, AttemptKept
    <3>3. CASE v = u
      <4>1. step'.kind = "fallback" /\ step'.url = u /\ pc' = "call"
        BY <3>1 DEF PlanServiceRead
      <4>2. InFlight(v)' = 1
        BY <3>3, <4>1 DEF InFlight, ServiceKinds
      <4>3. svc'[v] = [svc[v] EXCEPT !.fallback = TRUE, !.recorded = FALSE,
                                     !.tried = svc[v].tried \cup {tool}]
        BY <3>1, <3>3 DEF ShapeInv, TypeOK
      <4>4. tool \in svc'[v].tried /\ svc'[v].status = svc[v].status
        BY <1>2, <4>3 DEF ServiceRecord
      <4>. QED  BY <2>1, <4>2, <4>4 DEF AttemptSound
    <3>. QED  BY <3>2, <3>3
  <2>3. CASE ServiceFresh(u)
    <3>1. PICK tool \in Enabled, before \in SUBSET PassedOver :
             /\ svc' = [AfterPassing(before) EXCEPT ![u] = [svc[u] EXCEPT
                           !.attempted = TRUE, !.recorded = FALSE,
                           !.tried = svc[u].tried \cup {tool}]]
             /\ PlanServiceRead("service", u, tool)
      BY <2>3 DEF ServiceFresh
    <3>a. AfterPassing(before) \in [Urls -> ServiceRecord]
      BY PassingKeeps DEF ShapeInv
    <3>2. CASE v # u
      <4>1. svc'[v] = AfterPassing(before)[v]
        BY <3>1, <3>2
      <4>. QED  BY <1>1, <1>2, <4>1, AttemptKept
    <3>3. CASE v = u
      <4>1. step'.kind = "service" /\ step'.url = u /\ pc' = "call"
        BY <3>1 DEF PlanServiceRead
      <4>2. InFlight(v)' = 1
        BY <3>3, <4>1 DEF InFlight, ServiceKinds
      <4>3. svc'[v] = [svc[v] EXCEPT !.attempted = TRUE, !.recorded = FALSE,
                                     !.tried = svc[v].tried \cup {tool}]
        BY <3>1, <3>a, <3>3
      <4>4. tool \in svc'[v].tried /\ svc'[v].status = svc[v].status
        BY <1>2, <4>3 DEF ServiceRecord
      <4>. QED  BY <2>1, <4>2, <4>4 DEF AttemptSound
    <3>. QED  BY <3>2, <3>3
  <2>. QED  BY <2>2, <2>3
<1>. QED  BY <1>3 DEF AttemptInv

(* The outcome of a service read is recorded.                              *)
LEMMA AttemptRecorded ==
    ASSUME ShapeInv, AttemptInv, NEW out \in Outcomes, ExecuteService(out)
    PROVE  AttemptInv'
<1>1. PICK u \in Urls : u = step.url
  BY StepUrl DEF ExecuteService
<1>2. pc = "call" /\ step.kind \in ServiceKinds
  BY DEF ExecuteService
<1>3. ASSUME NEW v \in Urls PROVE AttemptSound(v)'
  <2>1. AttemptSound(v) /\ svc[v] \in ServiceRecord
    BY <1>2 DEF AttemptInv, ShapeInv, TypeOK
  <2>2. CASE v # u
    <3>1. svc'[v] = svc[v]
      BY <1>1, <2>2 DEF ExecuteService
    <3>2. InFlight(v) = 0
      BY <1>1, <2>2 DEF InFlight
    <3>. QED  BY <1>2, <3>1, <3>2, AttemptKept
  <2>3. CASE v = u
    <3>1. svc'[v] = ServiceRecordAfter(v, out)
      BY <1>1, <2>3 DEF ExecuteService, ShapeInv, TypeOK
    <3>2. /\ svc'[v].attempted = svc[v].attempted /\ svc'[v].tried = svc[v].tried
          /\ svc'[v].recorded
          /\ svc'[v].status \in {svc[v].status, "attempted_success", "attempted_failed"}
      BY <2>1, <3>1 DEF ServiceRecordAfter, ServiceRecord
    <3>. QED  BY <2>1, <3>2 DEF AttemptSound
  <2>. QED  BY <2>2, <2>3
<1>. QED  BY <1>3 DEF AttemptInv

(* Every step keeps the attempt invariant.                                 *)
THEOREM AttemptStep ==
    ASSUME ShapeInv, AttemptInv, [Next]_vars
    PROVE  AttemptInv'
<1>1. ASSUME pc # "done", \A u \in Urls : InFlight(u) = 0, NEW S,
             svc' \in {svc, AfterPassing(S)}
      PROVE  AttemptInv'
  BY <1>1, AttemptKept DEF AttemptInv
<1>2. ASSUME pc = "propose" \/ step.kind \notin ServiceKinds \/ pc \in {"ingest", "close"}
      PROVE  \A u \in Urls : InFlight(u) = 0
  BY <1>2 DEF InFlight
<1>3. ASSUME Propose PROVE AttemptInv'
  <2>1. CASE \E u \in Urls : ServiceFallback(u) \/ ServiceFresh(u)
    BY <2>1, AttemptPlanned
  <2>2. CASE pc = "propose" /\ svc' = AfterPassing(PassedOver)
    BY <1>1, <1>2, <2>2
  <2>. QED  BY <1>3, <2>1, <2>2 DEF Propose, ServiceReread, Search, FrontierRead, PlannerRead,
                                    Stop, NotService, Proposing
<1>4. ASSUME Execute PROVE AttemptInv'
  <2>1. CASE \E out \in Outcomes : ExecuteService(out)
    BY <2>1, AttemptRecorded
  <2>2. CASE pc = "call" /\ step.kind \notin ServiceKinds /\ svc' = svc
    BY <1>1, <1>2, <2>2
  <2>. QED  BY <1>4, <2>1, <2>2
            DEF Execute, ExecuteReread, ExecuteRead, ExecuteSearch, ServiceKinds
<1>5. ASSUME Ingest PROVE AttemptInv'
  BY <1>1, <1>2, <1>5 DEF Ingest, Register, Route, CloseStep
<1>6. ASSUME Finalize PROVE AttemptInv'
  BY <1>6 DEF Finalize, AttemptInv
<1>7. ASSUME UNCHANGED vars PROVE AttemptInv'
  BY <1>7 DEF vars, AttemptInv, AttemptSound, InFlight
<1>. QED  BY <1>3, <1>4, <1>5, <1>6, <1>7 DEF Next, Terminated
-----------------------------------------------------------------------------
(* What the promise can see of an obligation.                              *)
SameAsk(i) ==
    /\ obl'[i].url = obl[i].url
    /\ obl'[i].suppressed = obl[i].suppressed
    /\ obl'[i].resolution \in Settled <=> obl[i].resolution \in Settled
    /\ obl'[i].status = obl[i].status

(* Obligations that look the same are the same asks.                       *)
LEMMA AsksKept ==
    ASSUME Ids' = Ids, \A i \in Ids : SameAsk(i)
    PROVE  Asks' = Asks
<1>1. \A i \in Ids : Fate(obl'[i]) = Fate(obl[i])
  BY DEF SameAsk, Fate
<1>2. \A i \in Ids : obl'[i].url = obl[i].url /\ obl'[i].status = obl[i].status
  BY DEF SameAsk
<1>. QED  BY <1>1, <1>2 DEF Asks

(* Selecting, linking a body, giving up and scheduling a re-read do not    *)
(* show.                                                                   *)
LEMMA EntryHidden ==
    ASSUME NEW o \in Obligation, NEW d, NEW p \in
             {o, [o EXCEPT !.selected = TRUE], [o EXCEPT !.due = NotDue], [o EXCEPT !.body = TRUE],
              [o EXCEPT !.reread = FALSE],
              [o EXCEPT !.reread = TRUE, !.rereadDone = TRUE, !.due = d]}
    PROVE  /\ p.url = o.url /\ p.suppressed = o.suppressed
           /\ p.resolution = o.resolution /\ p.status = o.status
  BY DEF Obligation

(* The steps that neither ask, settle nor close leave the asks alone.      *)
LEMMA QuietAsks ==
    ASSUME ShapeInv, Propose \/ Execute \/ \E cut \in BOOLEAN : CloseStep(cut)
    PROVE  Asks' = Asks
<1>0. /\ \A i \in Ids : obl[i] \in Obligation
      /\ obl \in [Ids -> Obligation] /\ Ids = 1 .. Len(obl) /\ Len(obl) \in Nat /\ TypeOK
  BY IdsType DEF ShapeInv
<1>1. ASSUME NEW d, obl' \in [Ids -> Obligation] \/ Len(obl') = Len(obl),
             \A i \in Ids : obl'[i] \in
                {obl[i], [obl[i] EXCEPT !.selected = TRUE], [obl[i] EXCEPT !.due = NotDue],
                 [obl[i] EXCEPT !.body = TRUE], [obl[i] EXCEPT !.reread = FALSE],
                 [obl[i] EXCEPT !.reread = TRUE, !.rereadDone = TRUE, !.due = d]}
      PROVE  Asks' = Asks
  <2>1. Ids' = Ids
    <3>1. CASE Len(obl') = Len(obl)
      BY <3>1 DEF Ids
    <3>2. CASE obl' \in [Ids -> Obligation]
      <4>1. Len(obl') = Len(obl)
        BY <1>0, <3>2, IsASeq
      <4>. QED  BY <4>1 DEF Ids
    <3>. QED  BY <1>1, <3>1, <3>2
  <2>2. ASSUME NEW i \in Ids PROVE SameAsk(i)
    <3>1. obl[i] \in Obligation
      BY <1>0
    <3>2. obl'[i] \in
            {obl[i], [obl[i] EXCEPT !.selected = TRUE], [obl[i] EXCEPT !.due = NotDue],
             [obl[i] EXCEPT !.body = TRUE], [obl[i] EXCEPT !.reread = FALSE],
             [obl[i] EXCEPT !.reread = TRUE, !.rereadDone = TRUE, !.due = d]}
      BY <1>1
    <3>3. /\ obl'[i].url = obl[i].url /\ obl'[i].suppressed = obl[i].suppressed
          /\ obl'[i].resolution = obl[i].resolution /\ obl'[i].status = obl[i].status
      BY <3>1, <3>2 DEF Obligation
    <3>. QED  BY <3>3 DEF SameAsk
  <2>. QED  BY <2>1, <2>2, AsksKept
<1>2. ASSUME NEW u, obl' = Select(u) PROVE Asks' = Asks
  <2>1. Len(obl') = Len(obl)
    BY <1>0, <1>2, SelectReshapes DEF Reshaped
  <2>2. \A i \in Ids : obl'[i] \in {obl[i], [obl[i] EXCEPT !.selected = TRUE]}
    BY <1>0, <1>2, SelectReshapes
  <2>. QED  BY <1>1, <2>1, <2>2
<1>3. ASSUME obl' = obl PROVE Asks' = Asks
  BY <1>1, <1>3
<1>4. ASSUME NEW j \in Ids, ServiceReread(j) PROVE Asks' = Asks
  <2>. DEFINE m == Select(obl[j].url)
  <2>1. obl' = [m EXCEPT ![j] = [m[j] EXCEPT !.due = NotDue]]
    BY <1>4 DEF ServiceReread
  <2>2. m \in [Ids -> Obligation] /\ Len(m) = Len(obl)
    BY <1>0, SelectReshapes DEF Reshaped
  <2>3. \A i \in Ids : m[i] \in {obl[i], [obl[i] EXCEPT !.selected = TRUE]}
    BY <1>0, SelectReshapes
  <2>. HIDE DEF m
  <2>4. obl' \in [Ids -> Obligation]
    <3>1. [m[j] EXCEPT !.due = NotDue] \in Obligation
      BY <2>2, DueUpdate
    <3>. QED  BY <2>1, <2>2, <3>1
  <2>5. Ids' = Ids
    <3>1. Len(obl') = Len(obl)
      BY <1>0, <2>4, IsASeq
    <3>. QED  BY <3>1 DEF Ids
  <2>6. ASSUME NEW i \in Ids PROVE SameAsk(i)
    <3>1. obl'[i] \in {m[i], [m[i] EXCEPT !.due = NotDue]} /\ m[i] \in Obligation
      BY <2>1, <2>2
    <3>2. /\ obl'[i].url = m[i].url /\ obl'[i].suppressed = m[i].suppressed
          /\ obl'[i].resolution = m[i].resolution /\ obl'[i].status = m[i].status
      BY <3>1, EntryHidden
    <3>3. /\ m[i].url = obl[i].url /\ m[i].suppressed = obl[i].suppressed
          /\ m[i].resolution = obl[i].resolution /\ m[i].status = obl[i].status
      BY <1>0, <2>3, EntryHidden, ZenonT(60)
    <3>. QED  BY <3>2, <3>3 DEF SameAsk
  <2>. QED  BY <2>5, <2>6, AsksKept
<1>5. ASSUME NEW j \in Ids, obl' = [obl EXCEPT ![j].selected = TRUE] PROVE Asks' = Asks
  <2>1. \A i \in Ids : obl'[i] \in {obl[i], [obl[i] EXCEPT !.selected = TRUE]}
    BY <1>0, <1>5
  <2>2. obl' \in [Ids -> Obligation]
    BY <1>0, <1>5, SelectedIsObligation
  <2>. QED  BY <1>1, <2>1, <2>2
<1>6. ASSUME NEW u, obl' = BodyAvailable(u) PROVE Asks' = Asks
  <2>1. \A i \in Ids : obl'[i] \in {obl[i], [obl[i] EXCEPT !.body = TRUE]}
    BY <1>6 DEF BodyAvailable
  <2>2. obl' \in [Ids -> Obligation]
    BY <1>0, <1>6, EntryShape DEF BodyAvailable
  <2>. QED  BY <1>1, <2>1, <2>2
<1>7. ASSUME NEW G, obl' = [i \in Ids |-> IF i \in G THEN [obl[i] EXCEPT !.reread = FALSE]
                                          ELSE obl[i]]
      PROVE  Asks' = Asks
  <2>1. \A i \in Ids : obl'[i] \in {obl[i], [obl[i] EXCEPT !.reread = FALSE]}
    BY <1>7
  <2>2. obl' \in [Ids -> Obligation]
    BY <1>0, <1>7, EntryShape
  <2>. QED  BY <1>1, <2>1, <2>2
<1>8. ASSUME Propose PROVE Asks' = Asks
  <2>1. ASSUME NEW u \in Urls, NEW c \in Cands, FrontierRead(u, c) PROVE Asks' = Asks
    <3>1. obl' = obl \/ \E j \in Ids : obl' = [obl EXCEPT ![j].selected = TRUE]
      BY <2>1 DEF FrontierRead, Pinnable, Queue
    <3>. QED  BY <1>3, <1>5, <3>1
  <2>. QED  BY <1>2, <1>3, <1>4, <1>8, <2>1
            DEF Propose, ServiceFallback, ServiceFresh, Search, PlannerRead, Stop
<1>9. ASSUME Execute PROVE Asks' = Asks
  <2>1. ASSUME NEW out \in Outcomes, ExecuteService(out) PROVE Asks' = Asks
    BY <1>3, <1>6, <2>1 DEF ExecuteService
  <2>2. ASSUME NEW out \in Outcomes, ExecuteReread(out) PROVE Asks' = Asks
    BY <1>3, <1>7, <2>2 DEF ExecuteReread
  <2>. QED  BY <1>3, <1>9, <2>1, <2>2 DEF Execute, ExecuteRead, ExecuteSearch
<1>10. ASSUME NEW cut \in BOOLEAN, CloseStep(cut) PROVE Asks' = Asks
  <2>0. ScheduleRereads(cut)
    BY <1>10 DEF CloseStep
  <2>. DEFINE S == IF cut /\ step.kind \in ServiceKinds /\ Succeeds(got)
                   THEN RereadWorthy(step.url) ELSE {}
  <2>1. obl' = [i \in Ids |-> IF i \in S
                THEN [obl[i] EXCEPT !.reread = TRUE, !.rereadDone = TRUE, !.due = calls]
                ELSE obl[i]]
    BY <2>0 DEF ScheduleRereads
  <2>. HIDE DEF S
  <2>2. \A i \in Ids : obl'[i] \in
           {obl[i], [obl[i] EXCEPT !.reread = TRUE, !.rereadDone = TRUE, !.due = calls]}
    BY <2>1
  <2>3. calls \in 0 .. Budget
    BY <1>0 DEF TypeOK
  <2>4. \A i \in Ids : [obl[i] EXCEPT !.reread = TRUE, !.rereadDone = TRUE, !.due = calls]
                           \in Obligation
    BY <1>0, <2>3, ZenonT(60) DEF Obligation
  <2>5. obl' \in [Ids -> Obligation]
    BY <1>0, <2>1, <2>4
  <2>. QED  BY <1>1, <2>2, <2>5
<1>. QED  BY <1>8, <1>9, <1>10
-----------------------------------------------------------------------------
(* The asks are a sequence, because the obligations are.                   *)
AskRecord == [url : Urls \cup {NoUrl}, fate : {"refused", "settled", "waiting"},
              ending : ObligationStatuses]

(* The ask an obligation stands for.                                       *)
AskOf(o) == [url |-> o.url, fate |-> Fate(o), ending |-> o.status]

(* An obligation's ask has the type of an ask.                             *)
LEMMA AskOfType ==
    ASSUME NEW o \in Obligation
    PROVE  AskOf(o) \in AskRecord
<1>1. o.url \in Urls \cup {NoUrl} /\ o.status \in ObligationStatuses
  BY DEF Obligation
<1>2. Fate(o) \in {"refused", "settled", "waiting"}
  BY DEF Fate
<1>. QED  BY <1>1, <1>2 DEF AskOf, AskRecord

(* A sequence of obligations gives a sequence of asks.                     *)
LEMMA AsksOfSequence ==
    ASSUME NEW s \in Seq(Obligation)
    PROVE  /\ [i \in 1 .. Len(s) |-> AskOf(s[i])] \in Seq(AskRecord)
           /\ Len([i \in 1 .. Len(s) |-> AskOf(s[i])]) = Len(s)
<1>1. \A i \in 1 .. Len(s) : AskOf(s[i]) \in AskRecord
  BY AskOfType
<1>2. [i \in 1 .. Len(s) |-> AskOf(s[i])] \in [1 .. Len(s) -> AskRecord] /\ Len(s) \in Nat
  BY <1>1
<1>. DEFINE f == [i \in 1 .. Len(s) |-> AskOf(s[i])]
<1>3. f \in [1 .. Len(s) -> AskRecord]
  BY <1>2
<1>. HIDE DEF f
<1>4. f \in Seq(AskRecord) /\ Len(f) = Len(s)
  BY <1>2, <1>3
<1>. QED  BY <1>4 DEF f

(* A planned first read or fallback is a read of a page that is waited     *)
(* for, or one with a tool of its own.                                     *)
LEMMA PlannedIsRead ==
    ASSUME ShapeInv, RecordInv, AttemptInv, NEW u \in Urls,
           ServiceFallback(u) \/ ServiceFresh(u)
    PROVE  \E tool \in Tools : Promise!Read(u, tool)
<1>1. pc = "propose" /\ pc' = "call"
  BY DEF ServiceFallback, ServiceFresh, Proposing, PlanServiceRead
<1>2. Asks' = Asks
  BY QuietAsks DEF Propose
<1>3. svc \in [Urls -> ServiceRecord] /\ ToolsSound(u) /\ AttemptSound(u)
  BY <1>1 DEF ShapeInv, TypeOK, RecordInv, AttemptInv
<1>4. CASE ServiceFallback(u)
  <2>1. PICK tool \in Untried(u) :
           svc' = [svc EXCEPT ![u] = [svc[u] EXCEPT
                      !.fallback = TRUE, !.recorded = FALSE,
                      !.tried = svc[u].tried \cup {tool}]]
    BY <1>4 DEF ServiceFallback
  <2>2. tool \in Tools /\ tool \notin svc[u].tried
    BY <2>1, ServiceAssumption DEF Untried
  <2>3. svc[u].attempted /\ svc[u].tried # {}
    BY <1>3, <1>4 DEF ServiceFallback, FallbackDue, ShapeInv, AttemptedHasMembers, AttemptSound
  <2>4. \A v \in Urls : svc'[v].tried = IF v = u THEN svc[v].tried \cup {tool} ELSE svc[v].tried
    BY <1>3, <2>1 DEF ServiceRecord
  <2>5. Used' = [Used EXCEPT ![u] = @ \cup {tool}]
    BY <2>4 DEF Used
  <2>6. tool \notin Used[u] /\ Used[u] # {}
    BY <2>2, <2>3 DEF Used
  <2>. QED  BY <1>1, <1>2, <2>2, <2>5, <2>6 DEF Promise!Read
<1>5. CASE ServiceFresh(u)
  <2>1. PICK tool \in Enabled, before \in SUBSET PassedOver :
           svc' = [AfterPassing(before) EXCEPT ![u] = [svc[u] EXCEPT
                      !.attempted = TRUE, !.recorded = FALSE,
                      !.tried = svc[u].tried \cup {tool}]]
    BY <1>5 DEF ServiceFresh
  <2>2. tool \in Tools
    BY ServiceAssumption
  <2>3. svc[u].tried = {}
    BY <1>3, <1>5 DEF ServiceFresh, Fresh, Undecided, ToolsSound
  <2>4. ASSUME NEW v \in Urls PROVE AfterPassing(before)[v].tried = svc[v].tried
    BY <1>3 DEF AfterPassing, PassOver, ServiceRecord
  <2>5. AfterPassing(before) \in [Urls -> ServiceRecord]
    BY PassingKeeps DEF ShapeInv
  <2>6. \A v \in Urls : svc'[v].tried = IF v = u THEN svc[v].tried \cup {tool} ELSE svc[v].tried
    BY <1>3, <2>1, <2>4, <2>5, ZenonT(60) DEF ServiceRecord
  <2>7. Used' = [Used EXCEPT ![u] = @ \cup {tool}]
    BY <2>6 DEF Used
  <2>8. tool \notin Used[u]
    BY <2>3 DEF Used
  <2>9. PICK i \in Ids : i \in Queue /\ obl[i].url = u
    BY <1>5 DEF ServiceFresh, Fresh, Undecided, Queue
  <2>10. i \in DOMAIN Asks /\ Asks[i].url = u /\ Asks[i].fate = Fate(obl[i])
    BY <2>9 DEF Asks
  <2>11. ~ obl[i].suppressed /\ obl[i].resolution \notin Settled
    BY <2>9 DEF Queue, Open, ShapeInv, SuppressedIsInert, Settled
  <2>12. Promise!Waits(u)
    BY <2>10, <2>11 DEF Promise!Waits, Fate
  <2>. QED  BY <1>1, <1>2, <2>2, <2>7, <2>8, <2>12 DEF Promise!Read
<1>. QED  BY <1>4, <1>5

(* A new obligation is an obligation.                                      *)
LEMMA NewIsObligation ==
    ASSUME TypeOK, NEW t \in Triples, NEW suppressed \in BOOLEAN
    PROVE  NewObligation(t, suppressed) \in Obligation
<1>1. evUrl \in Urls \cup {NoUrl}
  BY DEF TypeOK
<1>. QED  BY <1>1 DEF NewObligation, Obligation, Resolutions, Settled, Retriable,
                      ObligationStatuses, UrlStatuses, NotDue

(* A registered judgment is an ask.                                        *)
LEMMA RegisterIsAsk ==
    ASSUME ShapeInv, NEW t \in Triples, NEW from \in Urls \cup {NoUrl},
           NEW suppressed \in BOOLEAN, Register(t, from, suppressed)
    PROVE  \E fate \in {"waiting", "refused"} : Promise!Ask(evUrl, fate)
<1>. DEFINE fate == IF suppressed THEN "refused" ELSE "waiting"
            a == [url |-> evUrl, fate |-> fate, ending |-> ""]
            o == NewObligation(t, suppressed)
<1>1. /\ pc = "ingest" /\ pc' = pc /\ svc' = svc
      /\ obl' = Append(obl, o)
  BY DEF Register
<1>2. obl \in Seq(Obligation) /\ o \in Obligation
  BY NewIsObligation DEF ShapeInv, TypeOK
<1>3. a = AskOf(o)
  <2>1. /\ o.url = evUrl /\ o.suppressed = suppressed
        /\ o.resolution \notin Settled /\ o.status = ""
    BY DEF NewObligation, Settled
  <2>. HIDE DEF o
  <2>2. Fate(o) = fate
    BY <2>1 DEF Fate
  <2>. QED  BY <2>1, <2>2 DEF AskOf
<1>4. Used' = Used
  BY <1>1 DEF Used
<1>f. fate \in {"waiting", "refused"}
  OBVIOUS
<1>. HIDE DEF a, o, fate
<1>5. /\ obl' \in Seq(Obligation) /\ Len(obl') = Len(obl) + 1 /\ Len(obl) \in Nat
      /\ obl'[Len(obl) + 1] = o /\ \A i \in 1 .. Len(obl) : obl'[i] = obl[i]
  BY <1>1, <1>2, AppendProperties
<1>6. /\ Asks = [i \in 1 .. Len(obl) |-> AskOf(obl[i])]
      /\ Asks' = [i \in 1 .. Len(obl') |-> AskOf(obl'[i])]
  BY DEF Asks, Ids, AskOf
<1>7. Asks \in Seq(AskRecord) /\ Len(Asks) = Len(obl)
  BY <1>2, <1>6, AsksOfSequence
<1>8. Asks' \in Seq(AskRecord) /\ Len(Asks') = Len(obl')
  BY <1>5, <1>6, AsksOfSequence
<1>9. a \in AskRecord
  BY <1>2, <1>3, AskOfType
<1>10. /\ Append(Asks, a) \in Seq(AskRecord) /\ Len(Append(Asks, a)) = Len(obl) + 1
       /\ \A i \in 1 .. Len(obl) : Append(Asks, a)[i] = Asks[i]
       /\ Append(Asks, a)[Len(obl) + 1] = a
  BY <1>7, <1>9, AppendProperties
<1>11. ASSUME NEW i \in 1 .. Len(Asks') PROVE Asks'[i] = Append(Asks, a)[i]
  <2>1. i \in 1 .. Len(obl) + 1 /\ Asks'[i] = AskOf(obl'[i])
    BY <1>5, <1>6, <1>8
  <2>2. CASE i = Len(obl) + 1
    BY <1>3, <1>5, <1>10, <2>1, <2>2
  <2>3. CASE i \in 1 .. Len(obl)
    BY <1>5, <1>6, <1>10, <2>1, <2>3
  <2>4. i = Len(obl) + 1 \/ i \in 1 .. Len(obl)
    BY <1>5, <2>1
  <2>. QED  BY <2>2, <2>3, <2>4
<1>12. Asks' = Append(Asks, a)
  BY <1>5, <1>8, <1>10, <1>11, SeqEqual
<1>13. Promise!Ask(evUrl, fate)
  BY <1>1, <1>4, <1>12 DEF Promise!Ask, a
<1>. QED  BY <1>f, <1>13
(* A text that is routed settles the obligations its verdicts settle.      *)
LEMMA RouteIsSettle ==
    ASSUME ShapeInv, RereadInv, Route
    PROVE  \E S \in SUBSET DOMAIN Asks : Promise!Settle(S)
<1>1. PICK verdict \in [Routed -> Verdicts] :
         obl' = [i \in Ids |-> IF i \in Routed THEN Judged(i, verdict[i]) ELSE obl[i]]
  BY DEF Route
<1>2. pc = "ingest" /\ pc' = "close" /\ svc' = svc
  BY DEF Route
<1>3. /\ \A i \in Ids : obl[i] \in Obligation
      /\ Ids = 1 .. Len(obl) /\ Len(obl) \in Nat /\ Routed \subseteq Ids
  BY IdsType DEF ShapeInv, Routed
<1>. DEFINE S == {i \in Routed : verdict[i].resolution \in Settled}
<1>4. DOMAIN Asks = Ids /\ S \in SUBSET DOMAIN Asks
  BY <1>3 DEF Asks
<1>5. Ids' = Ids
  <2>1. DOMAIN obl' = Ids
    BY <1>1
  <2>2. Len(obl') = Len(obl)
    BY <1>1, <1>3
  <2>. QED  BY <2>2 DEF Ids
<1>6. ASSUME NEW i \in Routed
      PROVE  /\ ~ obl[i].suppressed /\ obl[i].resolution \notin Settled
             /\ obl'[i].url = obl[i].url /\ obl'[i].suppressed = obl[i].suppressed
             /\ obl'[i].status = obl[i].status
             /\ obl'[i].resolution = verdict[i].resolution
  <2>1. obl'[i] = Judged(i, verdict[i]) /\ i \in Ids /\ obl[i] \in Obligation
    BY <1>1, <1>3
  <2>2. Open(i) \/ obl[i].reread
    BY DEF Routed, Routable
  <2>3. ~ obl[i].suppressed
    BY <2>1, <2>2 DEF ShapeInv, SuppressedIsInert, Open
  <2>4. obl[i].resolution \notin Settled
    BY <2>1, <2>2 DEF RereadInv, Open, Settled, Retriable
  <2>5. /\ obl'[i].url = obl[i].url /\ obl'[i].suppressed = obl[i].suppressed
        /\ obl'[i].status = obl[i].status
        /\ obl'[i].resolution = verdict[i].resolution
    BY <2>1 DEF Judged, Obligation
  <2>. QED  BY <2>3, <2>4, <2>5
<1>7. \A i \in Ids \ Routed : obl'[i] = obl[i]
  BY <1>1
<1>8. \A i \in Ids : Asks[i] = AskOf(obl[i])
  BY DEF Asks, AskOf
<1>9. Asks' = [i \in Ids |-> AskOf(obl'[i])]
  BY <1>5 DEF Asks, AskOf
<1>10. ASSUME NEW i \in Ids
       PROVE  AskOf(obl'[i]) = IF i \in S THEN [Asks[i] EXCEPT !.fate = "settled"] ELSE Asks[i]
  <2>1. CASE i \in S
    <3>1. i \in Routed /\ verdict[i].resolution \in Settled
      BY <2>1
    <3>2. /\ obl'[i].url = obl[i].url /\ obl'[i].status = obl[i].status
          /\ Fate(obl'[i]) = "settled"
      BY <1>6, <3>1 DEF Fate
    <3>3. Asks[i] = [url |-> obl[i].url, fate |-> Fate(obl[i]), ending |-> obl[i].status]
      BY <1>8 DEF AskOf
    <3>4. AskOf(obl'[i]) = [url |-> obl[i].url, fate |-> "settled", ending |-> obl[i].status]
      BY <3>2 DEF AskOf
    <3>5. AskOf(obl'[i]) = [Asks[i] EXCEPT !.fate = "settled"]
      BY <3>3, <3>4
    <3>. QED  BY <2>1, <3>5
  <2>2. CASE i \in Routed /\ i \notin S
    <3>1. verdict[i].resolution \notin Settled
      BY <2>2
    <3>2. /\ obl'[i].url = obl[i].url /\ obl'[i].status = obl[i].status
          /\ Fate(obl'[i]) = Fate(obl[i])
      BY <1>6, <2>2, <3>1 DEF Fate
    <3>. QED  BY <1>8, <2>2, <3>2 DEF AskOf
  <2>3. CASE i \notin Routed
    BY <1>7, <1>8, <2>3
  <2>. QED  BY <2>1, <2>2, <2>3
<1>11. ASSUME NEW i \in S PROVE Asks[i].fate = "waiting"
  <2>1. i \in Ids /\ ~ obl[i].suppressed /\ obl[i].resolution \notin Settled
    BY <1>3, <1>6
  <2>2. Asks[i] = AskOf(obl[i]) /\ Fate(obl[i]) = "waiting"
    BY <1>8, <2>1 DEF Fate
  <2>. HIDE DEF S
  <2>. QED  BY <2>2 DEF AskOf
<1>12. Used' = Used
  BY <1>2 DEF Used
<1>. HIDE DEF S
<1>13. Promise!Settle(S)
  BY <1>2, <1>4, <1>9, <1>10, <1>11, <1>12 DEF Promise!Settle
<1>. QED  BY <1>4, <1>13

(* What finalize_pending_service writes agrees with the reads of the page. *)
LEMMA FinalIsTruthful ==
    ASSUME ShapeInv, RecordInv, AttemptInv, ServedInv, ServedInv', Finalize,
           NEW i \in Ids
    PROVE  /\ FinalStatus(i) \in Promise!Endings
           /\ Promise!Truthful(Asks[i], FinalStatus(i))
<1>. DEFINE u == obl[i].url
            e == FinalStatus(i)
<1>1. pc # "done" /\ pc # "call" /\ pc' = "done"
      /\ obl' = [j \in Ids |-> [obl[j] EXCEPT !.status = FinalStatus(j)]]
  BY DEF Finalize
<1>2. obl[i] \in Obligation /\ Len(obl) \in Nat /\ Ids = 1 .. Len(obl)
  BY IdsType DEF ShapeInv
<1>3. e \notin {"", "invariant_violation"}
  <2>1. Len(obl') = Len(obl)
    BY <1>1, <1>2
  <2>2. i \in Ids'
    BY <1>2, <2>1 DEF Ids
  <2>3. obl'[i].status = e
    BY <1>1, <1>2 DEF Obligation
  <2>. QED  BY <1>1, <2>2, <2>3 DEF ServedInv, NoUnservedObligation
<1>4. Asks[i] = AskOf(obl[i])
  BY DEF Asks, AskOf
<1>5. (Asks[i].fate = "refused" <=> obl[i].suppressed) /\ Asks[i].url = u
  BY <1>4 DEF AskOf, Fate
<1>6. CASE obl[i].suppressed
  <2>1. e = "suppressed"
    BY <1>6 DEF FinalStatus
  <2>. QED  BY <1>5, <1>6, <2>1
            DEF Promise!Truthful, Promise!Endings, Promise!Reached, Promise!Unreached
<1>7. CASE ~ obl[i].suppressed /\ u = NoUrl
  <2>1. e = "no_clean_url"
    BY <1>7 DEF FinalStatus
  <2>. QED  BY <1>5, <1>7, <2>1
            DEF Promise!Truthful, Promise!Endings, Promise!Reached, Promise!Unreached
<1>8. CASE ~ obl[i].suppressed /\ u # NoUrl
  <2>1. u \in Urls
    BY <1>2, <1>8 DEF Obligation
  <2>2. /\ svc[u] \in ServiceRecord /\ ToolsSound(u) /\ AttemptSound(u)
        /\ StatusSound(u) /\ InFlight(u) = 0
    BY <1>1, <2>1 DEF ShapeInv, TypeOK, RecordInv, AttemptInv, InFlight
  <2>3. Members(u) # {}
    BY <1>8 DEF Members
  <2>. DEFINE f == FinalUrlStatus(u)
  <2>4. Used[u] = svc[u].tried
    BY <2>1 DEF Used
  <2>5. svc[u].attempted <=> Used[u] # {}
    BY <2>2, <2>4 DEF ToolsSound, AttemptSound
  <2>6. svc[u].attempted => svc[u].recorded
    <3>1. ~ (InFlight(u) = 1)
      BY <2>2
    <3>. QED  BY <2>2, <3>1 DEF AttemptSound
  <2>7. /\ svc[u].success => svc[u].attempted
        /\ ~ svc[u].attempted => svc[u].status \in {"", "already_satisfied"}
        /\ svc[u].status \in {"", "attempted_success", "attempted_failed", "already_satisfied"}
    BY <2>2 DEF ToolsSound, StatusSound, AttemptSound
  <2>8. CASE svc[u].attempted
    <3>1. f \in {"attempted_success", "attempted_failed", "already_satisfied"}
      BY <2>3, <2>6, <2>7, <2>8 DEF FinalUrlStatus
    <3>2. e \in {"attempted_success", "attempted_failed", "already_satisfied"}
      BY <1>8, <3>1 DEF FinalStatus
    <3>. QED  BY <1>5, <1>8, <2>5, <2>8, <3>2
              DEF Promise!Truthful, Promise!Endings, Promise!Reached, Promise!Unreached
  <2>9. CASE ~ svc[u].attempted
    <3>1. f \in {"blocked", "budget_exhausted", "invariant_violation", "already_satisfied"}
      BY <2>3, <2>7, <2>9 DEF FinalUrlStatus
    <3>2. e \in {"blocked", "budget_exhausted", "already_satisfied"}
      BY <1>3, <1>8, <3>1 DEF FinalStatus
    <3>. QED  BY <1>5, <1>8, <2>5, <2>9, <3>2
              DEF Promise!Truthful, Promise!Endings, Promise!Reached, Promise!Unreached
  <2>. QED  BY <2>8, <2>9
<1>. QED  BY <1>6, <1>7, <1>8

(* The end of the item closes the promise.                                 *)
LEMMA FinalizeIsClose ==
    ASSUME ShapeInv, RecordInv, AttemptInv, ServedInv, ServedInv', Finalize
    PROVE  Promise!Close
<1>1. /\ pc # "done" /\ pc' = "done"
      /\ obl' = [i \in Ids |-> [obl[i] EXCEPT !.status = FinalStatus(i)]]
      /\ svc' = [u \in Urls |-> [svc[u] EXCEPT !.status = FinalUrlStatus(u)]]
  BY DEF Finalize
<1>2. (\A i \in Ids : obl[i] \in Obligation) /\ Len(obl) \in Nat /\ Ids = 1 .. Len(obl)
  BY IdsType DEF ShapeInv
<1>. DEFINE end == [i \in Ids |-> FinalStatus(i)]
<1>3. DOMAIN Asks = Ids
  BY DEF Asks
<1>4. end \in [DOMAIN Asks -> Promise!Endings]
      /\ \A i \in DOMAIN Asks : Promise!Truthful(Asks[i], end[i])
  BY <1>3, FinalIsTruthful
<1>5. Used' = Used
  <2>1. \A u \in Urls : svc'[u].tried = svc[u].tried
    BY <1>1 DEF ShapeInv, TypeOK, ServiceRecord
  <2>. QED  BY <2>1 DEF Used
<1>6. Ids' = Ids
  <2>1. Len(obl') = Len(obl)
    BY <1>1, <1>2
  <2>. QED  BY <2>1 DEF Ids
<1>7. ASSUME NEW i \in Ids PROVE AskOf(obl'[i]) = [Asks[i] EXCEPT !.ending = end[i]]
  <2>1. /\ obl'[i].url = obl[i].url /\ obl'[i].suppressed = obl[i].suppressed
        /\ obl'[i].resolution = obl[i].resolution /\ obl'[i].status = end[i]
    BY <1>1, <1>2 DEF Obligation
  <2>2. Asks[i] = AskOf(obl[i])
    BY DEF Asks, AskOf
  <2>3. Fate(obl'[i]) = Fate(obl[i])
    BY <2>1 DEF Fate
  <2>. HIDE DEF end
  <2>. QED  BY <2>1, <2>2, <2>3 DEF AskOf
<1>8. Asks' = [i \in Ids |-> AskOf(obl'[i])]
  BY <1>6 DEF Asks, AskOf
<1>9. Asks' = [i \in DOMAIN Asks |-> [Asks[i] EXCEPT !.ending = end[i]]]
  BY <1>3, <1>7, <1>8
<1>. HIDE DEF end
<1>. QED  BY <1>1, <1>4, <1>5, <1>9 DEF Promise!Close

(* Every step of the loop is a step of the promise or hidden from it.      *)
LEMMA PromiseStep ==
    ASSUME ShapeInv, RecordInv, AttemptInv, RereadInv, ServedInv, ServedInv', [Next]_vars
    PROVE  [Promise!Next]_(Promise!vars)
<1>1. ASSUME NEW u \in Urls, ServiceFallback(u) \/ ServiceFresh(u)
      PROVE  Promise!Next
  BY <1>1, PlannedIsRead DEF Promise!Next
<1>0. svc \in [Urls -> ServiceRecord]
  BY DEF ShapeInv, TypeOK
<1>2. ASSUME svc' = svc \/ svc' = AfterPassing(PassedOver) PROVE Used' = Used
  <2>1. CASE svc' = svc
    BY <2>1 DEF Used
  <2>2. CASE svc' = AfterPassing(PassedOver)
    <3>1. \A u \in Urls : svc'[u].tried = svc[u].tried
      BY <1>0, <2>2 DEF AfterPassing, PassOver, ServiceRecord
    <3>. QED  BY <3>1 DEF Used
  <2>. QED  BY <1>2, <2>1, <2>2
<1>e. ASSUME NEW out \in Outcomes, ExecuteService(out) PROVE Used' = Used
  <2>1. svc' = [svc EXCEPT ![step.url] = ServiceRecordAfter(step.url, out)]
    BY <1>e DEF ExecuteService
  <2>2. ASSUME NEW u \in Urls PROVE svc'[u].tried = svc[u].tried
    <3>1. ServiceRecordAfter(u, out).tried = svc[u].tried
      BY <1>0 DEF ServiceRecordAfter, ServiceRecord
    <3>2. svc'[u] = IF u = step.url THEN ServiceRecordAfter(u, out) ELSE svc[u]
      BY <1>0, <2>1
    <3>. QED  BY <3>1, <3>2
  <2>. QED  BY <2>2 DEF Used
<1>3. ASSUME Asks' = Asks, Used' = Used, pc # "done", pc' # "done"
      PROVE  UNCHANGED Promise!vars
  <2>1. (pc = "done")' = (pc = "done")
    BY <1>3
  <2>. QED  BY <1>3, <2>1 DEF Promise!vars
<1>4. ASSUME Propose PROVE [Promise!Next]_(Promise!vars)
  <2>1. CASE pc = "propose" /\ pc' # "done" /\ svc' = AfterPassing(PassedOver)
    BY <1>2, <1>3, <1>4, <2>1, QuietAsks
  <2>. QED  BY <1>1, <1>4, <2>1 DEF Propose, ServiceReread, Search, FrontierRead, PlannerRead,
                                    Stop, NotService, Proposing, PlanServiceRead
<1>5. ASSUME Execute PROVE [Promise!Next]_(Promise!vars)
  <2>1. pc = "call" /\ pc' = "ingest"
    BY <1>5 DEF Execute, ExecuteService, ExecuteReread, ExecuteRead, ExecuteSearch
  <2>2. svc' = svc \/ \E out \in Outcomes : ExecuteService(out)
    BY <1>5 DEF Execute, ExecuteReread, ExecuteRead, ExecuteSearch
  <2>3. Used' = Used
    BY <1>2, <1>e, <2>2
  <2>4. Asks' = Asks
    BY <1>5, QuietAsks
  <2>. QED  BY <1>3, <2>1, <2>3, <2>4
<1>6. ASSUME NEW t \in Triples, NEW from \in Urls \cup {NoUrl}, NEW suppressed \in BOOLEAN,
             Register(t, from, suppressed)
      PROVE  Promise!Next
  <2>1. evUrl \in Urls \cup {NoUrl}
    BY DEF ShapeInv, TypeOK
  <2>. QED  BY <1>6, <2>1, RegisterIsAsk DEF Promise!Next
<1>7. ASSUME Route PROVE Promise!Next
  BY <1>7, RouteIsSettle DEF Promise!Next
<1>8. ASSUME NEW cut \in BOOLEAN, CloseStep(cut) PROVE [Promise!Next]_(Promise!vars)
  <2>1. pc # "done" /\ pc' # "done" /\ svc' = svc
    BY <1>8 DEF CloseStep
  <2>2. Asks' = Asks
    BY <1>8, QuietAsks
  <2>3. Used' = Used
    BY <1>2, <2>1
  <2>. QED  BY <1>3, <2>1, <2>2, <2>3
<1>9. ASSUME Finalize PROVE Promise!Next
  BY <1>9, FinalizeIsClose DEF Promise!Next
<1>10. ASSUME UNCHANGED vars PROVE UNCHANGED Promise!vars
  BY <1>10 DEF vars, Promise!vars, Asks, Fate, Used, Ids
<1>. QED  BY <1>4, <1>5, <1>6, <1>7, <1>8, <1>9, <1>10 DEF Next, Ingest, Terminated

(* The pending-read service implements what it promises to the judge, for  *)
(* every set of URLs, hosts and tools, every budget and every number of    *)
(* obligations.                                                            *)
THEOREM ServiceKeepsPromise == Spec => Promised
<1>1. Init => Promise!Init
  <2>. SUFFICES ASSUME Init PROVE Promise!Init
    OBVIOUS
  <2>1. obl = << >> /\ pc = "propose" /\ \A u \in Urls : svc[u] = NewRecord
    BY DEF Init
  <2>2. Ids = {}
    BY <2>1 DEF Ids
  <2>3. Asks = << >>
    BY <2>2 DEF Asks
  <2>4. NewRecord.tried = {}
    BY DEF NewRecord
  <2>5. Used = [u \in Urls |-> {}]
    BY <2>1, <2>4 DEF Used
  <2>. QED  BY <2>1, <2>3, <2>5 DEF Promise!Init
<1>2. Init => RecordInv /\ AttemptInv /\ RereadInv /\ ServedInv
  BY RecordInit, AttemptInit, RereadInit, ServedInit
<1>3. ShapeInv /\ RecordInv /\ [Next]_vars => RecordInv'
  BY RecordStep
<1>4. ShapeInv /\ AttemptInv /\ [Next]_vars => AttemptInv'
  BY AttemptStep
<1>5. ShapeInv /\ ShapeInv' /\ RereadInv /\ [Next]_vars => RereadInv'
  BY RereadStep
<1>6. ShapeInv /\ ShapeInv' /\ RecordInv /\ ServedInv /\ [Next]_vars => ServedInv'
  BY ServedStep
<1>7. ShapeInv /\ RecordInv /\ AttemptInv /\ RereadInv /\ ServedInv /\ ServedInv'
        /\ [Next]_vars => [Promise!Next]_(Promise!vars)
  BY PromiseStep
<1>. QED  BY <1>1, <1>2, <1>3, <1>4, <1>5, <1>6, <1>7, ShapeCorrect, PTL
          DEF Spec, Promised, Promise!Spec
=============================================================================
