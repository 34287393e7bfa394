---------------------------- MODULE AttemptSafety ---------------------------
(***************************************************************************)
(* Safety of an attempt: of the iterative mode's beam (ClueInv), of the    *)
(* parser (ParserInv) and of the reading of a result (ReadingInv).  An     *)
(* attempt's steps are one component's, so each invariant is proved of its *)
(* component's steps and framed by the others'.                            *)
(***************************************************************************)
EXTENDS Attempt, ListFacts

-----------------------------------------------------------------------------
(* The iterative mode.                                                     *)

(* A call about a candidate is a follow-up of the iterative mode, and the  *)
(* candidate is in the pool; what is recorded of the candidates is what    *)
(* happened to them.                                                       *)
ClueInv ==
    /\ calls \in Nat
    /\ pool \subseteq Cands /\ failed \subseteq pool
    /\ score \in [Cands -> Int] /\ bias \in [Cands -> Int]
    /\ streak \in [Cands -> Nat]
    /\ act.cand \in pool \cup {NoCand}
    /\ act.cand \in Cands => iterative
    /\ run = streak /\ worn = failed
    /\ \A c \in Cands : streak[c] >= MaxFails => c \in failed

(* What the results, and the question, make a candidate worth is a number. *)
LEMMA ScoresAreNumbers ==
    ASSUME NEW c \in Cands PROVE Worth(c) \in Int /\ Bias(c) \in Int
<1>1. StickyPenalty \in Int /\ ProgressBonus \in Int
  BY ClueAssumption
<1>2. RoleMatch(c) \in Int /\ RolePenalty(c) \in Int
  BY DEF RoleMatch, RolePenalty
<1>. QED  BY <1>1, <1>2 DEF Worth, Bias

(* Sorting by a score and then by text is a strict order.                  *)
LEMMA BeforeIsStrict ==
    ASSUME NEW S \in SUBSET Cands, NEW f \in [Cands -> Int]
    PROVE  StrictOrder(S, {p \in S \X S : Before(f, p[1], p[2])})
<1>1. \A c \in S : c \in Nat /\ f[c] \in Int
  BY ClueAssumption
<1>. QED  BY <1>1 DEF StrictOrder, Before

(* The beam is the whole pool, or has BeamSize candidates of it.           *)
LEMMA BeamHolds ==
    ASSUME ClueInv
    PROVE  /\ Beam \subseteq pool /\ IsFiniteSet(Beam)
           /\ Beam = pool \/ Cardinality(Beam) = BeamSize
<1>. DEFINE R == {p \in pool \X pool : Before(Adjusted, p[1], p[2])}
<1>1. pool \in SUBSET Cands /\ IsFiniteSet(pool) /\ BeamSize \in Nat
  BY FS_Subset, ClueAssumption DEF ClueInv
<1>2. Adjusted \in [Cands -> Int]
  BY DEF Adjusted, ClueInv
<1>3. StrictOrder(pool, R)
  BY <1>1, <1>2, BeforeIsStrict
<1>4. ASSUME NEW c \in pool
      PROVE  {d \in pool : Before(Adjusted, d, c)} = Below(pool, R, c)
  BY DEF Below
<1>5. Beam = {c \in pool : Cardinality(Below(pool, R, c)) < BeamSize}
  BY <1>4 DEF Beam, Top
<1>. HIDE DEF R
<1>6. /\ IsFiniteSet(Beam)
      /\ Cardinality(Beam) = IF BeamSize <= Cardinality(pool) THEN BeamSize ELSE Cardinality(pool)
  BY <1>1, <1>3, <1>5, TopCount
<1>7. CASE Cardinality(Beam) = Cardinality(pool)
  BY <1>1, <1>5, <1>7, FS_Subset
<1>. QED  BY <1>5, <1>6, <1>7

(* Something is selected from a pool that is not empty, and it is viable.  *)
LEMMA SelectedIsViable ==
    ASSUME ClueInv, pool # {}
    PROVE  Selected \in Viable
<1>1. /\ Beam \subseteq Cands /\ IsFiniteSet(Beam)
      /\ Beam # {}
  <2>1. Cardinality({}) = 0 /\ BeamSize # 0
    BY FS_EmptySet, ClueAssumption
  <2>. QED  BY <2>1, BeamHolds DEF ClueInv
<1>2. Viable \in SUBSET Cands /\ Viable \subseteq Beam /\ IsFiniteSet(Viable) /\ Viable # {}
  BY <1>1, FS_Subset DEF Viable
<1>3. Biased \in [Cands -> Int] /\ Adjusted \in [Cands -> Int]
  BY ScoresAreNumbers DEF Biased, Adjusted, ClueInv
<1>4. PICK c \in Viable : \A d \in Viable : d = c \/ Before(Biased, c, d)
  <2>. DEFINE R == {p \in Viable \X Viable : Before(Biased, p[1], p[2])}
  <2>1. StrictOrder(Viable, R)
    BY <1>2, <1>3, BeforeIsStrict
  <2>. HIDE DEF R
  <2>2. PICK c \in Viable : \A d \in Viable : d = c \/ <<c, d>> \in R
    BY <1>2, <2>1, FirstOf
  <2>. QED  BY <2>2 DEF R
<1>5. c \in Leading /\ Leading \subseteq Viable
  <2>1. \A d \in Viable : Biased[d] \in Int
    BY <1>2, <1>3
  <2>. QED  BY <1>4, <2>1 DEF Leading, Before
<1>6. Leading \in SUBSET Cands /\ Leading # {} /\ IsFiniteSet(Leading)
  BY <1>2, <1>5, FS_Subset
<1>7. \E b \in Leading : \A d \in Leading \ {b} : Before(Adjusted, b, d)
  <2>. DEFINE R == {p \in Leading \X Leading : Before(Adjusted, p[1], p[2])}
  <2>1. StrictOrder(Leading, R)
    BY <1>3, <1>6, BeforeIsStrict
  <2>. HIDE DEF R
  <2>2. PICK b \in Leading : \A d \in Leading : d = b \/ <<b, d>> \in R
    BY <1>6, <2>1, FirstOf
  <2>. QED  BY <2>2 DEF R
<1>8. \E b \in Leading : \A d \in Leading : b <= d
  BY <1>6, Smallest, ClueAssumption
<1>9. Selected \in Leading
  BY <1>7, <1>8 DEF Selected
<1>. QED  BY <1>5, <1>9

(* A fruitless candidate is followed only when all of the beam has failed. *)
LEMMA FollowedFailure ==
    ASSUME ClueInv, pool # {}, Selected \in failed
    PROVE  Cardinality(failed) >= BeamSize \/ pool = failed
<1>1. Beam \subseteq failed
  BY SelectedIsViable DEF Viable
<1>2. IsFiniteSet(failed)
  BY FS_Subset, ClueAssumption DEF ClueInv
<1>3. Cardinality(Beam) <= Cardinality(failed)
  BY <1>1, <1>2, FS_Subset
<1>4. failed \subseteq pool
  BY DEF ClueInv
<1>. QED  BY <1>1, <1>3, <1>4, BeamHolds

(* Nothing has happened to the candidates of a new attempt.                *)
LEMMA ClueInvInit == Init => ClueInv
<1>. SUFFICES ASSUME Init PROVE ClueInv
  OBVIOUS
<1>2. MaxFails \in Nat \ {0}
  BY ClueAssumption
<1>3. act.cand = NoCand /\ NoCand \notin Cands
  BY ClueAssumption DEF Init, NoAct, NoCand
<1>. QED  BY <1>2, <1>3 DEF Init, ClueInv

(* A step sends one call: of a candidate of the pool, or of none.          *)
LEMMA ClueInvSends ==
    ASSUME ClueInv, NEW kind, NEW cand \in pool \cup {NoCand}, cand \in Cands => iterative,
           NEW extra, Weighs, Sends(kind, cand, extra)
    PROVE  ClueInv'
<1>1. act'.cand = cand
  BY DEF Sends
<1>2. bias' \in [Cands -> Int]
  BY ScoresAreNumbers DEF Weighs, ClueInv
<1>. QED  BY <1>1, <1>2 DEF Sends, ClueInv, beam

(* The results add candidates to the pool and score them anew.             *)
LEMMA ObservedScores ==
    ASSUME ClueInv, Observe
    PROVE  /\ pool \subseteq pool' /\ pool' \subseteq Cands
           /\ score' \in [Cands -> Int] /\ bias' \in [Cands -> Int]
<1>1. PICK top \in SUBSET Cands :
        /\ pool' = PoolWith(top)
        /\ \E merit \in [top -> Merits] :
              score' = [c \in Cands |-> IF c \in top THEN merit[c] + Worth(c) ELSE score[c]]
        /\ bias' = [c \in Cands |-> IF c \in top THEN 0 ELSE bias[c]]
  BY DEF Observe
<1>2. PICK merit \in [top -> Merits] :
        score' = [c \in Cands |-> IF c \in top THEN merit[c] + Worth(c) ELSE score[c]]
  BY <1>1
<1>3. ASSUME NEW c \in top PROVE merit[c] + Worth(c) \in Int
  <2>1. merit[c] \in Merits /\ c \in Cands
    OBVIOUS
  <2>2. merit[c] \in Int /\ Worth(c) \in Int
    BY <2>1, ScoresAreNumbers, ClueAssumption
  <2>. QED  BY <2>2
<1>. QED  BY <1>1, <1>2, <1>3 DEF PoolWith, ClueInv

(* A call that returns charges what it did to the candidate it was about,  *)
(* in the record that the code keeps and in the history alike.             *)
LEMMA ClueInvReturns == ASSUME ClueInv, Returns PROVE ClueInv'
<1>1. PICK improved \in BOOLEAN :
        /\ Remember(improved)
        /\ IF iterative THEN Record(improved) /\ Observe ELSE UNCHANGED <<beam, pool, score, bias>>
  BY DEF Returns
<1>2. /\ UNCHANGED iterative /\ calls' = calls + 1
      /\ act'.cand = NoCand /\ NoCand \notin Cands
  BY ClueAssumption DEF Returns, NoAct, NoCand
<1>3. CASE iterative
  <2>1. /\ Record(improved) /\ Remember(improved)
        /\ pool \subseteq pool' /\ pool' \subseteq Cands
        /\ score' \in [Cands -> Int] /\ bias' \in [Cands -> Int]
    BY <1>1, <1>3, ObservedScores
  <2>2. streak' \in [Cands -> Nat] /\ run' = streak'
    BY <2>1 DEF Record, Remember, ChargedTo, ClueInv
  <2>3. ASSUME NEW c \in Cands
        PROVE  /\ streak'[c] >= MaxFails => c \in failed'
               /\ c \in failed' /\ c \notin failed => c \in ChargedTo /\ streak'[c] >= MaxFails
    BY <2>1 DEF Record, ChargedTo, ClueInv
  <2>4. failed' \subseteq Cands /\ failed \subseteq failed' /\ failed' \subseteq pool'
    <3>1. ChargedTo \subseteq pool /\ ChargedTo \subseteq Cands
      BY <1>2 DEF ChargedTo, ClueInv
    <3>2. failed' = failed \cup {c \in ChargedTo : streak'[c] >= MaxFails}
      BY <2>1 DEF Record
    <3>. QED  BY <2>1, <3>1, <3>2 DEF ClueInv
  <2>5. worn' = failed'
    <3>1. worn' = failed \cup {c \in Cands : streak'[c] >= MaxFails}
      BY <2>1, <2>2 DEF Remember, ClueInv
    <3>. QED  BY <2>3, <2>4, <3>1
  <2>. QED  BY <1>2, <2>1, <2>2, <2>3, <2>4, <2>5 DEF ClueInv
<1>4. CASE ~ iterative
  <2>1. UNCHANGED <<streak, failed, pool, score, bias>> /\ Remember(improved)
    BY <1>1, <1>4 DEF beam
  <2>2. run' = run
    BY <1>4, <2>1 DEF Remember, ClueInv
  <2>3. worn' = worn
    BY <2>1, <2>2 DEF Remember, ClueInv
  <2>. QED  BY <1>2, <2>1, <2>2, <2>3 DEF ClueInv
<1>. QED  BY <1>3, <1>4

(* What is asked about is selected from the pool.                          *)
LEMMA ClueInvNext == ASSUME ClueInv, Next PROVE ClueInv'
<1>0. NoCand \notin Cands
  BY ClueAssumption DEF NoCand
<1>1. CASE Read
  BY <1>0, <1>1, ClueInvSends DEF Read
<1>2. CASE FollowUp
  <2>1. Selected \in pool /\ iterative
    BY <1>2, SelectedIsViable, BeamHolds DEF FollowUp, Selecting, Viable
  <2>2. Sends("followup", Composed(Selected)[1], Composed(Selected)[2]) /\ Weighs
    BY <1>2 DEF FollowUp
  <2>3. Composed(Selected)[1] = Selected
    BY DEF Composed
  <2>. QED  BY <2>1, <2>2, <2>3, ClueInvSends
<1>3. CASE BaseQuery
  <2>1. PICK arm \in arms : Sends("base", NoCand, arm) /\ Weighs
    BY <1>3 DEF BaseQuery
  <2>. QED  BY <1>0, <2>1, ClueInvSends
<1>4. CASE Returns
  BY <1>4, ClueInvReturns
<1>5. CASE Terminated
  BY <1>5 DEF Terminated, vars, beam, history, ClueInv
<1>. QED  BY <1>1, <1>2, <1>3, <1>4, <1>5 DEF Next

(* ClueInv holds throughout an attempt.                                    *)
THEOREM ClueInvHolds == AttemptSpec => []ClueInv
<1>1. AttemptInit => ClueInv
  BY ClueInvInit DEF AttemptInit
<1>2. ClueInv /\ [AttemptNext]_attemptVars => ClueInv'
  <2>. SUFFICES ASSUME ClueInv, [AttemptNext]_attemptVars PROVE ClueInv'
    OBVIOUS
  <2>1. CASE Next
    BY <2>1, ClueInvNext
  <2>2. CASE UNCHANGED vars
    BY <2>2 DEF vars, beam, history, ClueInv
  <2>. QED  BY <2>1, <2>2 DEF AttemptNext, attemptVars, Reads
<1>. QED  BY <1>1, <1>2, PTL DEF AttemptSpec

(* A candidate of the beam has failed exactly when MaxFails of its own     *)
(* follow-ups in a row brought nothing: record_progress charges no other   *)
(* candidate for a call, and the failure outlives later progress.          *)
THEOREM FailuresAreEarned == AttemptSpec => []FailureIsEarned
<1>1. ClueInv => FailureIsEarned
  BY DEF ClueInv, FailureIsEarned
<1>. QED  BY <1>1, ClueInvHolds, PTL

(* The beam is forced on: a follow-up of a failed candidate is sent only   *)
(* when as many candidates have failed as the beam, or the pool, holds.    *)
THEOREM BeamMovesOn == AttemptSpec => []MovesOn
<1>1. AttemptInit => MovesOn
  BY DEF AttemptInit, Init, NoAct, MovesOn
<1>2. ClueInv /\ MovesOn /\ [AttemptNext]_attemptVars => MovesOn'
  <2>. SUFFICES ASSUME ClueInv, MovesOn, [AttemptNext]_attemptVars PROVE MovesOn'
    OBVIOUS
  <2>1. CASE FollowUp
    <3>1. act'.cand = Selected /\ UNCHANGED <<pool, failed>> /\ pool # {}
      BY <2>1 DEF FollowUp, Sends, Composed, Selecting, beam
    <3>. QED  BY <3>1, FollowedFailure DEF MovesOn
  <2>2. CASE Read \/ BaseQuery \/ Returns
    BY <2>2 DEF Read, BaseQuery, Returns, Sends, NoAct, MovesOn
  <2>3. CASE UNCHANGED vars
    BY <2>3 DEF vars, beam, MovesOn
  <2>. QED  BY <2>1, <2>2, <2>3 DEF AttemptNext, Next, Terminated, attemptVars, Reads
<1>. QED  BY <1>1, <1>2, ClueInvHolds, PTL DEF AttemptSpec

(* No clue, and no answer shape, is sent twice with the same candidate:    *)
(* compose_followup_from_hypothesis repeats only the candidate alone.      *)
THEOREM RepeatsAreBare == AttemptSpec => []OnlyBareRepeats
<1>1. AttemptInit => OnlyBareRepeats
  BY DEF AttemptInit, Init, OnlyBareRepeats
<1>2. OnlyBareRepeats /\ [AttemptNext]_attemptVars => OnlyBareRepeats'
  <2>. SUFFICES ASSUME OnlyBareRepeats, [AttemptNext]_attemptVars PROVE OnlyBareRepeats'
    OBVIOUS
  <2>1. CASE FollowUp
    <3>. DEFINE query == Composed(Selected)
    <3>1. repeats' = IF query \in asked THEN repeats \cup {query[2]} ELSE repeats
      BY <2>1 DEF FollowUp
    <3>2. query \in asked => query[2] = "bare"
      <4>1. CASE Open(Selected) # {}
        <5>1. Open(Selected) \in SUBSET Nat
          BY ClueAssumption DEF Open, Clues
        <5>2. NextClue(Selected) \in Open(Selected)
          BY <4>1, <5>1, Smallest DEF NextClue
        <5>. QED  BY <4>1, <5>2 DEF Composed, Open
      <4>2. CASE Open(Selected) = {}
        BY <4>2 DEF Composed, ShapeOpen
      <4>. QED  BY <4>1, <4>2
    <3>. QED  BY <3>1, <3>2 DEF OnlyBareRepeats
  <2>2. CASE UNCHANGED repeats
    BY <2>2 DEF OnlyBareRepeats
  <2>. QED
    BY <2>1, <2>2 DEF AttemptNext, Next, Read, BaseQuery, Returns, Remember, Terminated,
       attemptVars, Reads, vars, history
<1>. QED  BY <1>1, <1>2, PTL DEF AttemptSpec

-----------------------------------------------------------------------------
(* The parser.                                                             *)

(* What FrameIsWellFormed says of one frame.                               *)
WellFormed(f, by) ==
    /\ f.targets # {} /\ f.targets \subseteq DOMAIN f.slots
    /\ \A t \in f.targets : f.slots[t].status \notin {"known_constant", "candidate_binding"}
    /\ \A c \in ToSet(f.constraints) :
          /\ c.applies \subseteq DOMAIN f.slots
          /\ c.required \/ c.high => c.claim /\ c.applies # {} /\ c.canBlock
          /\ by # "llm" /\ (c.blocks \/ c.canBlock) => c.claim /\ c.applies # {}
    /\ f.edges \subseteq (DOMAIN f.slots) \X (DOMAIN f.slots)

(* Slots and constraints are numbered from one.                            *)
NumberedFrame(f) == IsList(f.slots) /\ IsList(f.constraints)

(* Listing a finite set gives a list of as many elements.                  *)
LEMMA SetToSeqLists ==
    ASSUME NEW S, IsFiniteSet(S)
    PROVE  SetToSeq(S) \in [1 .. Cardinality(S) -> S]
<1>1. PICK f : f \in Bijection(1 .. Cardinality(S), S)
  BY FS_CardinalityType DEF ExistsBijection
<1>2. f \in [1 .. Cardinality(S) -> S] /\ IsInjective(f)
  BY <1>1 DEF Bijection, Injection, IsInjective
<1>. QED  BY <1>2 DEF SetToSeq

(* The deterministic parser asks for something.                            *)
LEMMA TargetsOfQuestion ==
    ASSUME NEW q \in Asked
    PROVE  \E n \in Nat \ {0} :
              IsFiniteSet(1 .. n) /\ DOMAIN TargetRoles(q) = 1 .. n /\ Len(TargetRoles(q)) = n
                /\ IsList(TargetRoles(q))
<1>. DEFINE S == IF q.wants = {} THEN {"person", "title_or_work"} ELSE q.wants
<1>1. IsFiniteSet(S) /\ S # {}
  <2>1. {"person", "title_or_work"} = {"person"} \cup {"title_or_work"}
    OBVIOUS
  <2>2. IsFiniteSet({"person"} \cup {"title_or_work"})
    BY FS_Singleton, FS_AddElement
  <2>. QED  BY <2>1, <2>2, ParserAssumption
<1>2. Cardinality(S) \in Nat \ {0}
  BY <1>1, FS_CardinalityType, FS_EmptySet
<1>. HIDE DEF S
<1>3. SetToSeq(S) \in [1 .. Cardinality(S) -> S]
  BY <1>1, SetToSeqLists
<1>4. SetToSeq(S) \in Seq(ToSet(SetToSeq(S))) /\ Len(SetToSeq(S)) = Cardinality(S)
  BY <1>2, <1>3 DEF ToSet
<1>5. CASE q.head = "none"
  <2>1. TargetRoles(q) = SetToSeq(S)
    BY <1>5 DEF TargetRoles, S
  <2>. QED  BY <1>2, <1>3, <1>4, <2>1, FS_Interval DEF IsList
<1>6. CASE q.head # "none"
  <2>1. TargetRoles(q) = <<q.head>>
    BY <1>6 DEF TargetRoles
  <2>2. DOMAIN TargetRoles(q) = 1 .. 1 /\ Len(TargetRoles(q)) = 1 /\ IsList(TargetRoles(q))
    BY <2>1 DEF IsList, ToSet
  <2>. QED  BY <2>2, FS_Interval
<1>. QED  BY <1>5, <1>6

(* The latent roles are listed.                                            *)
LEMMA LatentRolesList ==
    ASSUME NEW q \in Asked
    PROVE  Len(LatentRoles(q)) \in Nat /\ LatentRoles(q) \in Seq(ToSet(LatentRoles(q)))
<1>1. q.nouns \in Seq(ToSet(q.nouns)) /\ IsList(q.nouns)
  BY ParserAssumption DEF IsList
<1>2. IsList(LatentRoles(q))
  BY <1>1, PickedLists DEF LatentRoles
<1>. QED  BY <1>2 DEF IsList

(* The deterministic frame is well formed, and all that may block in it.   *)
LEMMA DeterministicIsWellFormed ==
    ASSUME NEW q \in Asked, NEW by
    PROVE  WellFormed(Deterministic(q), by) /\ NumberedFrame(Deterministic(q))
<1>. DEFINE f == Deterministic(q)
            T == TargetRoles(q)
            L == LatentRoles(q)
<1>1. /\ Len(T) \in Nat \ {0} /\ DOMAIN T = 1 .. Len(T) /\ IsList(T)
      /\ Len(L) \in Nat /\ IsList(L)
  BY TargetsOfQuestion, LatentRolesList DEF IsList
<1>2. DOMAIN Slots(q) = 1 .. Len(T) + Len(L)
  BY <1>1, ConcatLists DEF Slots
<1>. HIDE DEF T, L
<1>3. 1 \in DOMAIN T /\ DOMAIN T \subseteq DOMAIN Slots(q)
  BY <1>1, <1>2
<1>4. f.targets = DOMAIN T /\ DOMAIN f.slots = DOMAIN Slots(q)
  BY DEF Deterministic, T
<1>5. f.targets # {} /\ f.targets \subseteq DOMAIN f.slots
  BY <1>3, <1>4
<1>6. \A t \in f.targets : f.slots[t].status = "unbound_variable"
  BY <1>3, <1>4 DEF Deterministic
<1>7. ASSUME NEW c \in ToSet(f.constraints)
      PROVE  /\ c.claim /\ c.applies # {} /\ c.applies \subseteq DOMAIN f.slots
             /\ c.required \/ c.high => c.canBlock
  <2>1. f.constraints = [i \in DOMAIN q.says |-> Clause(q, i)]
    BY DEF Deterministic
  <2>2. PICK i \in DOMAIN q.says : c = Clause(q, i)
    BY <2>1 DEF ToSet
  <2>. DEFINE named == {s \in DOMAIN Slots(q) : Slots(q)[s] \in q.says[i].names}
  <2>3. c.claim /\ c.applies = IF named = {} THEN {1} ELSE named
    BY <2>2 DEF Clause
  <2>4. c.applies # {} /\ c.applies \subseteq DOMAIN f.slots
    BY <1>3, <1>4, <2>3
  <2>5. c.canBlock = CanBlock(c.required, c.high, c.blocks, c.applies, FALSE)
    BY <2>2 DEF Clause
  <2>. QED  BY <2>3, <2>4, <2>5 DEF CanBlock
<1>8. f.edges \subseteq (DOMAIN f.slots) \X (DOMAIN f.slots)
  BY <1>3, <1>4 DEF Deterministic
<1>9. IsList(f.slots) /\ IsList(f.constraints)
  <2>1. f.slots = [s \in DOMAIN Slots(q) |-> f.slots[s]] /\ IsList(Slots(q))
    BY <1>1, ConcatLists DEF Deterministic, Slots, T, L
  <2>2. f.constraints = [i \in DOMAIN q.says |-> f.constraints[i]] /\ IsList(q.says)
    BY ParserAssumption DEF Deterministic
  <2>3. DOMAIN f.slots = DOMAIN Slots(q) /\ DOMAIN f.constraints = DOMAIN q.says
    BY DEF Deterministic
  <2>. HIDE DEF f
  <2>4. IsList(f.slots)
    BY <2>1, <2>3, FunctionIsList
  <2>5. IsList(f.constraints)
    BY <2>2, <2>3, FunctionIsList
  <2>. QED  BY <2>4, <2>5
<1>. QED  BY <1>5, <1>6, <1>7, <1>8, <1>9 DEF WellFormed, NumberedFrame

(* A reply that validates builds a well-formed frame.                      *)
LEMMA BuiltIsWellFormed ==
    ASSUME NEW q \in Asked, NEW reply \in Replies[q], reply.object, Valid(reply, q)
    PROVE  WellFormed(Built(reply), "llm") /\ NumberedFrame(Built(reply))
<1>. DEFINE slots == reply.targets \o reply.latents
            ids == Ids(slots)
            Number(id) == CHOOSE i \in DOMAIN slots : slots[i].id = id
            f == Built(reply)
            T == reply.targets
<1>1. IsList(T) /\ IsList(reply.latents) /\ T # <<>>
  BY ParserAssumption DEF Valid
<1>. DEFINE L == reply.latents
<1>2. /\ DOMAIN T = 1 .. Len(T) /\ Len(T) \in Nat /\ Len(T) # 0
      /\ DOMAIN slots = 1 .. Len(T) + Len(L) /\ Len(L) \in Nat
      /\ \A t \in DOMAIN T : slots[t] = T[t]
  <2>1. IsList(T) /\ IsList(L) /\ T # <<>> /\ slots = T \o L
    BY <1>1
  <2>. HIDE DEF T, L, slots
  <2>2. DOMAIN T = 1 .. Len(T) /\ Len(T) \in Nat /\ Len(L) \in Nat
    BY <2>1, ConcatLists
  <2>3. DOMAIN (T \o L) = 1 .. Len(T) + Len(L)
    BY <2>1, ConcatLists
  <2>4. \A t \in DOMAIN T : (T \o L)[t] = T[t]
    BY <2>1, <2>2, ConcatLists
  <2>5. Len(T) # 0
    BY <2>1, ConcatLists
  <2>. QED  BY <2>1, <2>2, <2>3, <2>4, <2>5
<1>3. /\ DOMAIN f.slots = DOMAIN slots /\ f.targets = DOMAIN T
      /\ \A s \in DOMAIN slots : f.slots[s].status = Status(slots[s], reply)
  BY DEF Built
<1>4. f.targets # {} /\ f.targets \subseteq DOMAIN f.slots
  <2>1. 1 \in DOMAIN T /\ DOMAIN T \subseteq DOMAIN slots
    <3>. HIDE DEF T, slots
    <3>. QED  BY <1>2
  <2>. HIDE DEF f, T, slots
  <2>. QED  BY <1>3, <2>1
<1>5. ASSUME NEW t \in f.targets
      PROVE  f.slots[t].status \notin {"known_constant", "candidate_binding"}
  <2>1. t \in DOMAIN T /\ f.slots[t].status = Status(T[t], reply)
    BY <1>2, <1>3, <1>4
  <2>2. T[t] \in ToSet(T)
    BY <2>1 DEF ToSet
  <2>3. AskedFor(T[t], reply, q)
    BY <2>2 DEF Valid
  <2>. QED  BY <2>1, <2>3 DEF AskedFor
<1>6. \A id \in ids : Number(id) \in DOMAIN slots
  BY DEF Ids
<1>7. ASSUME NEW c \in ToSet(f.constraints)
      PROVE  /\ c.applies \subseteq DOMAIN f.slots
             /\ c.required \/ c.high => c.claim /\ c.applies # {} /\ c.canBlock
  <2>1. PICK i \in DOMAIN reply.constraints : c = f.constraints[i]
    BY DEF Built, ToSet
  <2>. DEFINE d == reply.constraints[i]
              applies == {Number(id) : id \in d.applies}
  <2>2. /\ c.applies = applies /\ c.claim = d.claim
        /\ c.required = d.required /\ c.high = d.high
        /\ c.canBlock = CanBlock(d.required, d.high, d.blocks, applies, d.listed)
    BY <2>1 DEF Built
  <2>3. d \in ToSet(reply.constraints)
    BY <2>1 DEF ToSet
  <2>4. d.applies \subseteq ids /\ Testable(d, ids)
    BY <2>3 DEF Valid
  <2>. HIDE DEF ids, Number, f, slots, d
  <2>5. applies \subseteq DOMAIN f.slots
    BY <1>3, <1>6, <2>4
  <2>6. d.required \/ d.high => d.claim /\ applies # {}
    BY <2>4 DEF Testable
  <2>. HIDE DEF applies
  <2>. QED  BY <2>2, <2>5, <2>6 DEF CanBlock
<1>8. f.edges \subseteq (DOMAIN f.slots) \X (DOMAIN f.slots)
  <2>. DEFINE chosen == IF OwnEdges(slots) # {} THEN OwnEdges(slots) ELSE reply.edges
  <2>1. f.edges = {<<Number(e[1]), Number(e[2])>> : e \in chosen \cap (ids \X ids)}
    BY DEF Built
  <2>. HIDE DEF chosen, ids, Number, f, slots
  <2>. QED  BY <1>3, <1>6, <2>1
<1>9. IsList(f.slots) /\ IsList(f.constraints)
  <2>1. f.slots = [s \in DOMAIN slots |-> f.slots[s]] /\ DOMAIN f.slots = DOMAIN slots
    BY DEF Built
  <2>2. /\ f.constraints = [i \in DOMAIN reply.constraints |-> f.constraints[i]]
        /\ DOMAIN f.constraints = DOMAIN reply.constraints
    BY DEF Built
  <2>3. IsList(slots) /\ IsList(reply.constraints)
    BY <1>1, ConcatLists, ParserAssumption
  <2>. HIDE DEF f, slots
  <2>4. IsList(f.slots)
    BY <2>1, <2>3, FunctionIsList
  <2>5. IsList(f.constraints)
    BY <2>2, <2>3, FunctionIsList
  <2>. QED  BY <2>4, <2>5
<1>. QED  BY <1>4, <1>5, <1>7, <1>8, <1>9 DEF WellFormed, NumberedFrame

(* Whatever a reply says, build_task_frame gives a well-formed frame.      *)
LEMMA FrameOfReplyIsWellFormed ==
    ASSUME NEW q \in Asked, NEW reply \in Replies[q]
    PROVE  /\ WellFormed(Frame(reply, q).frame, Frame(reply, q).by)
           /\ NumberedFrame(Frame(reply, q).frame)
<1>1. CASE reply.object /\ Usable(reply, q)
  BY <1>1, BuiltIsWellFormed DEF Frame, Usable
<1>2. CASE ~ (reply.object /\ Usable(reply, q))
  BY <1>2, DeterministicIsWellFormed DEF Frame, Fallback
<1>. QED  BY <1>1, <1>2

(* What a cache holds is what the model said.                              *)
Keeps(cache) == DOMAIN cache = Asked /\ \A q \in Asked : cache[q].said => cache[q] \in Replies[q]

(* A question that the cache has an answer to, which does not raise.       *)
Answers(q) == store[q].said /\ ~ Raises(store[q], q)

(* The frame of attempt i came from what the cache still holds, unless the *)
(* model had failed; and then an answer came with a later attempt.         *)
Sourced(i) ==
    LET q == Schedule[i] IN
    IF parsed[i].by = "failure"
    THEN parsed[i].frame = Deterministic(q) /\ (Answers(q) => AnsweredLater(i))
    ELSE store[q].said /\ parsed[i] = Frame(store[q], q)

(* A replay takes what the cache holds, or else the deterministic frame.   *)
Resourced(i) ==
    LET q == Schedule[i] IN
    IF store[q].said THEN Answers(q) /\ replayed[i] = Frame(store[q], q)
    ELSE replayed[i] = Fallback(q)

(* The inductive invariant of the parser.                                  *)
ParserInv ==
    /\ IsList(parsed) /\ IsList(replayed)
    /\ Len(parsed) <= Len(Schedule) /\ Len(replayed) <= Len(Schedule)
    /\ Keeps(store) /\ Keeps(file)
    /\ process \in {"live", "raised", "replay", "stopped"}
    /\ process \in {"live", "raised"} => at = Len(parsed) + 1 /\ replayed = <<>>
    /\ process \in {"replay", "stopped"} => at = Len(replayed) + 1
    /\ \A i \in DOMAIN parsed : /\ WellFormed(parsed[i].frame, parsed[i].by)
                               /\ NumberedFrame(parsed[i].frame)
    /\ ~ lost => /\ \A i \in DOMAIN parsed : Sourced(i)
                 /\ \A i \in DOMAIN replayed : Resourced(i)

(* The schedule is a list of the questions.                                *)
LEMMA ScheduleLists ==
    /\ DOMAIN Schedule = 1 .. Len(Schedule) /\ Len(Schedule) \in Nat
    /\ \A i \in 1 .. Len(Schedule) : Schedule[i] \in Asked
<1>1. Schedule \in Seq(ToSet(Schedule))
  BY ParserAssumption DEF IsList
<1>. QED  BY <1>1, SeqIsList DEF Asked, ToSet

(* An empty cache and an empty list of frames.                             *)
LEMMA NothingKept == Keeps(Nothing) /\ IsList(<<>>) /\ Len(<<>>) = 0 /\ DOMAIN <<>> = {}
BY DEF Keeps, Nothing, NoReply, IsList, ToSet

(* A run that has not parsed anything.                                     *)
LEMMA ParserInvFresh ==
    ASSUME parsed = <<>>, replayed = <<>>, process = "live", at = 1,
           store = Nothing, file = Nothing
    PROVE  ParserInv
BY NothingKept, ScheduleLists DEF ParserInv

(* A cache that is loaded is the one in memory, as long as none was lost.  *)
LEMMA ParserInvLoads ==
    ASSUME ParserInv, Loads, UNCHANGED <<file, parsed, replayed>>,
           \/ process \in {"live", "raised"} /\ process' = "live" /\ at' = at
           \/ process \in {"live", "raised"} /\ process' = "replay" /\ at' = 1
    PROVE  ParserInv'
<1>1. Keeps(store)' /\ Keeps(file)'
  BY DEF Loads, ParserInv, Keeps
<1>2. ~ lost' => ~ lost /\ store' = store
  BY DEF Loads
<1>3. replayed = <<>> /\ at = Len(parsed) + 1
  BY DEF ParserInv
<1>4. ~ lost' => \A i \in DOMAIN parsed' : Sourced(i)'
  BY <1>2 DEF ParserInv, Sourced, Answers, AnsweredLater
<1>. QED  BY <1>1, <1>2, <1>3, <1>4, NothingKept DEF ParserInv

(* A cache that keeps one more reply still has all that it had.            *)
Extends(reply) ==
    /\ store'[Current] = reply /\ reply.said
    /\ store[Current].said => reply = store[Current]
    /\ \A q \in Asked \ {Current} : store'[q] = store[q]

(* A live attempt that was given a reply gets a well-formed frame, and     *)
(* keeps the frames of the attempts before it.                             *)
LEMMA ParserInvGives ==
    ASSUME ParserInv, Here("live"), NEW reply \in Replies[Current], Gives(reply), Extends(reply),
           Keeps(store)', Keeps(file)', UNCHANGED lost
    PROVE  ParserInv'
<1>1. /\ at = Len(parsed) + 1 /\ replayed = <<>> /\ process = "live"
      /\ Len(parsed) \in Nat /\ DOMAIN parsed = 1 .. Len(parsed) /\ IsList(parsed)
      /\ at \in 1 .. Len(Schedule) /\ Current \in Asked
  <2>1. /\ at = Len(parsed) + 1 /\ replayed = <<>> /\ process = "live" /\ at <= Len(Schedule)
    BY DEF Here, ParserInv
  <2>2. IsList(parsed)
    BY DEF ParserInv
  <2>3. Len(parsed) \in Nat /\ DOMAIN parsed = 1 .. Len(parsed)
    BY <2>2, AppendLists
  <2>. QED  BY <2>1, <2>2, <2>3, ScheduleLists DEF Current
<1>2. /\ UNCHANGED replayed /\ process' \in {"live", "raised"}
  BY <1>1 DEF Gives
<1>3. ASSUME NEW i \in DOMAIN parsed
      PROVE  Schedule[i] \in Asked /\ i \in 1 .. Len(parsed)
  BY <1>1, ScheduleLists
<1>4. CASE Raises(reply, Current)
  <2>1. UNCHANGED <<at, parsed, replayed>>
    BY <1>4 DEF Gives
  <2>2. ASSUME ~ lost, NEW i \in DOMAIN parsed PROVE Sourced(i)'
    <3>1. Sourced(i)
      BY <2>2 DEF ParserInv
    <3>2. CASE Schedule[i] = Current
      BY <1>1, <1>4, <2>1, <3>1, <3>2 DEF Sourced, Extends, Answers
    <3>3. CASE Schedule[i] # Current
      <4>1. store'[Schedule[i]] = store[Schedule[i]]
        BY <1>3, <3>3 DEF Extends
      <4>. QED  BY <2>1, <3>1, <4>1 DEF Sourced, Answers, AnsweredLater
    <3>. QED  BY <3>2, <3>3
  <2>. QED  BY <1>1, <1>2, <2>1, <2>2 DEF ParserInv
<1>5. CASE ~ Raises(reply, Current)
  <2>. DEFINE new == Frame(reply, Current)
  <2>1. at' = at + 1 /\ parsed' = Append(parsed, new) /\ UNCHANGED process
    BY <1>1, <1>5 DEF Gives
  <2>2. new.by # "failure" /\ WellFormed(new.frame, new.by) /\ NumberedFrame(new.frame)
    BY <1>1, FrameOfReplyIsWellFormed DEF Frame, Fallback
  <2>. HIDE DEF new
  <2>3. /\ IsList(parsed') /\ Len(parsed') = Len(parsed) + 1
        /\ DOMAIN parsed' = 1 .. Len(parsed) + 1
        /\ \A i \in DOMAIN parsed : parsed'[i] = parsed[i]
        /\ parsed'[at] = new
    BY <1>1, <2>1, AppendLists
  <2>4. ASSUME NEW i \in DOMAIN parsed'
        PROVE  WellFormed(parsed'[i].frame, parsed'[i].by) /\ NumberedFrame(parsed'[i].frame)
    BY <1>1, <2>2, <2>3 DEF ParserInv
  <2>5. ASSUME ~ lost, NEW i \in DOMAIN parsed' PROVE Sourced(i)'
    <3>1. CASE i = at
      BY <2>2, <2>3, <3>1 DEF Sourced, Extends, Current, new
    <3>2. CASE i \in DOMAIN parsed
      <4>1. Sourced(i) /\ parsed'[i] = parsed[i] /\ i \in 1 .. Len(parsed) /\ Schedule[i] \in Asked
        BY <1>3, <2>3, <2>5, <3>2 DEF ParserInv
      <4>2. CASE Schedule[i] = Current
        <5>1. AnsweredLater(i)'
          BY <1>1, <2>2, <2>3, <4>1, <4>2 DEF AnsweredLater, Current
        <5>. QED  BY <4>1, <4>2, <5>1 DEF Sourced, Extends
      <4>3. CASE Schedule[i] # Current
        <5>1. store'[Schedule[i]] = store[Schedule[i]]
          BY <4>1, <4>3 DEF Extends
        <5>2. AnsweredLater(i) => AnsweredLater(i)'
          BY <1>1, <2>3, <4>1 DEF AnsweredLater
        <5>. QED  BY <4>1, <5>1, <5>2 DEF Sourced, Answers
      <4>. QED  BY <4>2, <4>3
    <3>. QED  BY <1>1, <2>3, <3>1, <3>2
  <2>. QED  BY <1>1, <1>2, <2>1, <2>3, <2>4, <2>5, ScheduleLists DEF ParserInv
<1>. QED  BY <1>4, <1>5

(* An attempt whose model fails gets the deterministic frame.              *)
LEMMA ParserInvFails == ASSUME ParserInv, ModelFails PROVE ParserInv'
<1>. DEFINE new == [by |-> "failure", frame |-> Deterministic(Current)]
<1>1. /\ at = Len(parsed) + 1 /\ replayed = <<>> /\ process = "live" /\ ~ store[Current].said
      /\ Len(parsed) \in Nat /\ DOMAIN parsed = 1 .. Len(parsed) /\ IsList(parsed)
      /\ at \in 1 .. Len(Schedule) /\ Current \in Asked
  <2>1. /\ at = Len(parsed) + 1 /\ replayed = <<>> /\ process = "live" /\ at <= Len(Schedule)
        /\ ~ store[Current].said
    BY DEF ModelFails, Here, ParserInv
  <2>2. IsList(parsed)
    BY DEF ParserInv
  <2>3. Len(parsed) \in Nat /\ DOMAIN parsed = 1 .. Len(parsed)
    BY <2>2, AppendLists
  <2>. QED  BY <2>1, <2>2, <2>3, ScheduleLists DEF Current
<1>2. /\ parsed' = Append(parsed, new) /\ at' = at + 1
      /\ UNCHANGED <<process, store, file, replayed, lost>>
  BY DEF ModelFails
<1>3. /\ new.by = "failure" /\ new.frame = Deterministic(Current)
      /\ WellFormed(new.frame, new.by) /\ NumberedFrame(new.frame)
  BY <1>1, DeterministicIsWellFormed
<1>. HIDE DEF new
<1>4. /\ IsList(parsed') /\ Len(parsed') = Len(parsed) + 1 /\ DOMAIN parsed' = 1 .. Len(parsed) + 1
      /\ \A i \in DOMAIN parsed : parsed'[i] = parsed[i]
      /\ parsed'[at] = new
  BY <1>1, <1>2, AppendLists
<1>5. ASSUME NEW i \in DOMAIN parsed'
      PROVE  WellFormed(parsed'[i].frame, parsed'[i].by) /\ NumberedFrame(parsed'[i].frame)
  BY <1>1, <1>3, <1>4 DEF ParserInv
<1>6. ASSUME ~ lost, NEW i \in DOMAIN parsed' PROVE Sourced(i)'
  <2>1. CASE i = at
    BY <1>1, <1>2, <1>3, <1>4, <2>1 DEF Sourced, Answers, Current
  <2>2. CASE i \in DOMAIN parsed
    <3>1. Sourced(i) /\ parsed'[i] = parsed[i] /\ i \in 1 .. Len(parsed)
      BY <1>1, <1>4, <1>6, <2>2 DEF ParserInv
    <3>2. AnsweredLater(i) => AnsweredLater(i)'
      BY <1>1, <1>4, <3>1 DEF AnsweredLater
    <3>. QED  BY <1>2, <3>1, <3>2 DEF Sourced, Answers
  <2>. QED  BY <1>1, <1>4, <2>1, <2>2
<1>. QED  BY <1>1, <1>2, <1>4, <1>5, <1>6, ScheduleLists DEF ParserInv

(* An attempt of the replay gets what the cache holds.                     *)
LEMMA ParserInvReplays ==
    ASSUME ParserInv, Here("replay"), UNCHANGED <<process, store, file, parsed, lost>>,
           at' = at + 1,
           replayed' = Append(replayed, IF store[Current].said THEN Frame(store[Current], Current)
                                        ELSE Fallback(Current)),
           store[Current].said => Answers(Current)
    PROVE  ParserInv'
<1>. DEFINE new == IF store[Current].said THEN Frame(store[Current], Current) ELSE Fallback(Current)
<1>1. /\ at = Len(replayed) + 1 /\ process = "replay" /\ IsList(replayed)
      /\ at \in 1 .. Len(Schedule)
      /\ Len(replayed) \in Nat /\ DOMAIN replayed = 1 .. Len(replayed)
  <2>1. at = Len(replayed) + 1 /\ process = "replay" /\ IsList(replayed) /\ at <= Len(Schedule)
    BY DEF Here, ParserInv
  <2>2. Len(replayed) \in Nat /\ DOMAIN replayed = 1 .. Len(replayed)
    BY <2>1, AppendLists
  <2>. QED  BY <2>1, <2>2, ScheduleLists
<1>2. replayed' = Append(replayed, new)
  OBVIOUS
<1>. HIDE DEF new
<1>3. /\ IsList(replayed') /\ Len(replayed') = Len(replayed) + 1
      /\ DOMAIN replayed' = 1 .. Len(replayed) + 1
      /\ \A i \in DOMAIN replayed : replayed'[i] = replayed[i]
      /\ replayed'[at] = new
  BY <1>1, <1>2, AppendLists
<1>4. ASSUME ~ lost, NEW i \in DOMAIN replayed' PROVE Resourced(i)'
  <2>1. CASE i = at
    BY <1>3, <2>1 DEF Resourced, Answers, Current, new
  <2>2. CASE i \in DOMAIN replayed
    BY <1>3, <1>4, <2>2 DEF ParserInv, Resourced, Answers
  <2>. QED  BY <1>1, <1>3, <2>1, <2>2
<1>5. ~ lost' => \A i \in DOMAIN parsed' : Sourced(i)'
  BY DEF ParserInv, Sourced, Answers, AnsweredLater
<1>. QED  BY <1>1, <1>3, <1>4, <1>5, ScheduleLists DEF ParserInv, Keeps

(* Every step of the parser keeps its invariant.                           *)
LEMMA ParserInvNext == ASSUME ParserInv, ParserNext PROVE ParserInv'
<1>0. ASSUME Here("live") \/ Here("replay") PROVE Current \in Asked
  <2>1. at \in 1 .. Len(Schedule)
    <3>1. IsList(parsed) /\ IsList(replayed)
      BY DEF ParserInv
    <3>2. Len(parsed) \in Nat /\ Len(replayed) \in Nat
      BY <3>1, AppendLists
    <3>. QED  BY <1>0, <3>2, ScheduleLists DEF ParserInv, Here
  <2>. QED  BY <2>1, ScheduleLists DEF Current
<1>1. CASE Hit /\ Here("live")
  <2>1. store[Current] \in Replies[Current] /\ Extends(store[Current])
    BY <1>0, <1>1 DEF Hit, ParserInv, Keeps, Extends
  <2>2. Keeps(store)' /\ Keeps(file)' /\ Gives(store[Current]) /\ UNCHANGED lost
    BY <1>1 DEF Hit, ParserInv, Keeps
  <2>. QED  BY <1>1, <2>1, <2>2, ParserInvGives
<1>2. CASE Hit /\ Here("replay")
  <2>0. Gives(store[Current]) /\ store[Current].said /\ process = "replay"
        /\ UNCHANGED <<store, file, lost>>
    BY <1>2 DEF Hit, Here
  <2>1. CASE Raises(store[Current], Current)
    <3>1. process' = "stopped" /\ UNCHANGED <<at, parsed, replayed>>
      BY <2>0, <2>1 DEF Gives
    <3>. QED
      BY <2>0, <3>1 DEF ParserInv, Keeps, Sourced, Resourced, Answers, AnsweredLater
  <2>2. CASE ~ Raises(store[Current], Current)
    BY <1>2, <2>0, <2>2, ParserInvReplays DEF Gives, Answers
  <2>. QED  BY <2>1, <2>2
<1>3. CASE Miss
  BY <1>3, ParserInvReplays DEF Miss
<1>4. CASE ModelFails
  BY <1>4, ParserInvFails
<1>5. CASE ModelReplies
  <2>1. PICK reply \in Replies[Current] :
            store' = Kept(reply) /\ file' \in {store', file, Torn} /\ Gives(reply)
    BY <1>5 DEF ModelReplies
  <2>2. Current \in Asked /\ Here("live") /\ ~ store[Current].said /\ UNCHANGED lost
    BY <1>0, <1>5 DEF ModelReplies
  <2>3. reply.said
    BY <2>2, ParserAssumption
  <2>4. Keeps(store)' /\ Extends(reply)
    BY <2>1, <2>2, <2>3 DEF Kept, Keeps, Extends, ParserInv
  <2>5. Keeps(file)'
    BY <2>1, <2>4, NothingKept DEF Keeps, ParserInv, Torn
  <2>. QED  BY <2>1, <2>2, <2>4, <2>5, ParserInvGives
<1>6. CASE Resume
  BY <1>6, ParserInvLoads DEF Resume
<1>7. CASE Replay
  BY <1>7, ParserInvLoads DEF Replay
<1>. QED  BY <1>1, <1>2, <1>3, <1>4, <1>5, <1>6, <1>7 DEF ParserNext, Hit

(* ParserInv holds throughout an attempt.                                  *)
THEOREM ParserInvHolds == AttemptSpec => []ParserInv
<1>1. AttemptInit => ParserInv
  BY ParserInvFresh DEF AttemptInit, ParserInit
<1>2. ParserInv /\ [AttemptNext]_attemptVars => ParserInv'
  <2>. SUFFICES ASSUME ParserInv, [AttemptNext]_attemptVars PROVE ParserInv'
    OBVIOUS
  <2>1. CASE ParserNext
    BY <2>1, ParserInvNext
  <2>2. CASE UNCHANGED parserVars
    BY <2>2 DEF parserVars, ParserInv, Keeps, Sourced, Resourced, Answers, AnsweredLater
  <2>3. CASE Reads
    <3>1. /\ parsed' = <<>> /\ replayed' = <<>> /\ process' = "live" /\ at' = 1
          /\ store' = Nothing /\ file' = Nothing
      BY <2>3 DEF Reads
    <3>. QED  BY <3>1, NothingKept, ScheduleLists DEF ParserInv, Keeps
  <2>. QED  BY <2>1, <2>2, <2>3 DEF AttemptNext, attemptVars
<1>. QED  BY <1>1, <1>2, PTL DEF AttemptSpec

(* build_task_frame returns a well-formed frame, whatever the model        *)
(* replied, for every schedule of questions and every set of replies:      *)
(* what is required, or of high priority, can be tested on a slot and may  *)
(* block the answer.  A constraint that blocks by the reply's own flag or  *)
(* affordance alone is not validated, and nothing is said of it.           *)
THEOREM FramesAreWellFormed == AttemptSpec => []FrameIsWellFormed
<1>1. ParserInv => FrameIsWellFormed
  BY DEF ParserInv, FrameIsWellFormed, WellFormed
<1>. QED  BY <1>1, ParserInvHolds, PTL

(* A replay without a model parses every question as the run did, unless   *)
(* the model had failed and answered a later attempt, as long as no cache  *)
(* was loaded that memory had more of.                                     *)
THEOREM FramesReplay == AttemptSpec => []FrameReplays
<1>1. ParserInv => FrameReplays
  <2>. SUFFICES ASSUME ParserInv, ~ lost, NEW i \in DOMAIN replayed \cap DOMAIN parsed
                PROVE  \/ replayed[i].frame = parsed[i].frame
                       \/ parsed[i].by = "failure" /\ AnsweredLater(i)
    BY DEF FrameReplays
  <2>1. Sourced(i) /\ Resourced(i)
    BY DEF ParserInv
  <2>2. Fallback(Schedule[i]).frame = Deterministic(Schedule[i])
    BY DEF Fallback
  <2>. QED  BY <2>1, <2>2 DEF Sourced, Resourced
<1>. QED  BY <1>1, ParserInvHolds, PTL

-----------------------------------------------------------------------------
(* The reading of a result.                                                *)

(* The slots an entity is tried on come once each.                         *)
LEMMA OpenSlotsUnrepeated ==
    ASSUME NumberedFrame(frame)
    PROVE  Unrepeated(OpenSlots)
<1>. DEFINE S == {s \in DOMAIN frame.slots :
                     /\ frame.slots[s].status # "known_constant"
                     /\ SlotCompatible(entity.role, frame.slots[s].role)}
            n == Len(frame.slots)
<1>1. DOMAIN frame.slots = 1 .. n /\ n \in Nat
  BY SeqIsList DEF NumberedFrame, IsList
<1>2. S \in SUBSET (1 .. n) /\ n \in Nat
  BY <1>1
<1>3. OpenSlots = Ascending(S)
  BY DEF OpenSlots
<1>. HIDE DEF S, n
<1>4. S \in SUBSET Nat /\ IsFiniteSet(S)
  BY <1>2, NumbersFinite
<1>. QED  BY <1>3, <1>4, AscendingLists, SeqIsList DEF Unrepeated

(* And so do the constraints that are tried there.                         *)
LEMMA ConstraintsUnrepeated ==
    ASSUME NumberedFrame(frame), reading.direction.cons \subseteq DOMAIN frame.constraints, NEW slot
    PROVE  Unrepeated(ConstraintsOn(slot))
<1>. DEFINE own == {i \in DOMAIN frame.constraints : slot \in frame.constraints[i].applies}
            directed == IF slot = reading.direction.slot THEN reading.direction.cons \ own ELSE {}
            n == Len(frame.constraints)
            A == Ascending(own)
            B == Ascending(directed)
<1>1. DOMAIN frame.constraints = 1 .. n /\ n \in Nat
  BY SeqIsList DEF NumberedFrame, IsList
<1>2. own \in SUBSET (1 .. n) /\ directed \in SUBSET (1 .. n) /\ own \cap directed = {}
  BY <1>1
<1>3. ConstraintsOn(slot) = A \o B
  BY DEF ConstraintsOn
<1>. HIDE DEF own, directed, n
<1>4. own \in SUBSET Nat /\ directed \in SUBSET Nat /\ IsFiniteSet(own) /\ IsFiniteSet(directed)
  BY <1>1, <1>2, NumbersFinite
<1>5. /\ A \in Seq(own) /\ B \in Seq(directed)
      /\ \A k, l \in DOMAIN A : A[k] = A[l] => k = l
      /\ \A k, l \in DOMAIN B : B[k] = B[l] => k = l
  BY <1>4, AscendingLists
<1>6. IsList(A) /\ IsList(B)
  BY <1>5, SeqIsList
<1>7. /\ DOMAIN A = 1 .. Len(A) /\ Len(A) \in Nat /\ DOMAIN B = 1 .. Len(B) /\ Len(B) \in Nat
      /\ \A k \in DOMAIN A : A[k] \in own
      /\ \A k \in DOMAIN B : B[k] \in directed
  BY <1>5
<1>. HIDE DEF A, B
<1>8. IsList(A \o B) /\ DOMAIN (A \o B) = 1 .. Len(A) + Len(B)
  BY <1>6, ConcatLists
<1>9. ASSUME NEW k \in DOMAIN (A \o B)
      PROVE  \/ k \in DOMAIN A /\ (A \o B)[k] = A[k]
             \/ k - Len(A) \in DOMAIN B /\ (A \o B)[k] = B[k - Len(A)]
  <2>1. CASE k <= Len(A)
    <3>1. k \in DOMAIN A
      BY <1>7, <1>8, <2>1
    <3>. QED  BY <1>6, <1>7, <3>1, ConcatLists
  <2>2. CASE ~ (k <= Len(A))
    <3>1. k - Len(A) \in DOMAIN B /\ Len(A) + (k - Len(A)) = k
      BY <1>7, <1>8, <2>2
    <3>. DEFINE m == k - Len(A)
    <3>. HIDE DEF m
    <3>2. m \in DOMAIN B /\ m \in 1 .. Len(B) /\ Len(A) + m = k
      BY <1>7, <3>1 DEF m
    <3>3. (A \o B)[Len(A) + m] = B[m]
      <4>1. \A i \in 1 .. Len(B) : (A \o B)[Len(A) + i] = B[i]
        BY <1>6, ConcatLists
      <4>. QED  BY <3>2, <4>1
    <3>. QED  BY <3>2, <3>3 DEF m
  <2>. QED  BY <2>1, <2>2
<1>10. ASSUME NEW k \in DOMAIN (A \o B), NEW l \in DOMAIN (A \o B), (A \o B)[k] = (A \o B)[l]
       PROVE  k = l
  <2>1. k \in Int /\ l \in Int /\ Len(A) \in Int
    BY <1>7, <1>8
  <2>2. CASE k \in DOMAIN A /\ (A \o B)[k] = A[k]
    BY <1>2, <1>5, <1>7, <1>9, <1>10, <2>2
  <2>3. CASE k - Len(A) \in DOMAIN B /\ (A \o B)[k] = B[k - Len(A)]
    <3>1. l - Len(A) \in DOMAIN B /\ (A \o B)[l] = B[l - Len(A)]
      BY <1>2, <1>7, <1>9, <1>10, <2>3
    <3>2. k - Len(A) = l - Len(A)
      BY <1>5, <1>10, <2>3, <3>1
    <3>. QED  BY <2>1, <3>2
  <2>. QED  BY <1>9, <2>2, <2>3
<1>. QED  BY <1>3, <1>8, <1>10 DEF Unrepeated

(* The role that a page is taken for, once it is: what the kept reply says.*)
RoleKept ==
    IF reading.classing /\ roleStore # {} THEN RoleOr(CHOOSE reply \in roleStore : TRUE)
    ELSE ClassifiedRole

(* A moment of the reading: what the next judgment depends on besides the  *)
(* kept replies, and what the result is made of.                           *)
Moment ==
    [todo |-> todo, untried |-> untried, judged |-> judgedHere, stop |-> stopCandidate,
     reason |-> reason, bound |-> bound, trail |-> trail]

(* The moment at which a list of slots is taken up.                        *)
TurnedTo(slots, why, sofar, said) ==
    [todo |-> slots, untried |-> IF slots = <<>> THEN <<>> ELSE ConstraintsOn(Head(slots)),
     judged |-> 0, stop |-> FALSE, reason |-> why, bound |-> sofar, trail |-> said]

(* The first moment after the gates.                                       *)
Start ==
    TurnedTo(IF Refusal(RoleKept) = "" THEN OpenSlots ELSE <<>>, Refusal(RoleKept), {}, <<>>)

(* HardRules, with the judgments made so far as an argument.               *)
Ruled(said, j, i, slot) ==
    IF page.dirty /\ j.judgment \in SupportJudgments
    THEN IF j.conflict THEN "contradiction" ELSE "irrelevant"
    ELSE IF j.judgment # "full_support" THEN j.judgment
    ELSE IF entity.name = "descriptor" /\ j.quote # "none" THEN "irrelevant"
    ELSE IF /\ entity.name = "named"
            /\ j.quote = "name" \/ (j.quote = "alias" /\ \E n \in DOMAIN said : said[n].alias)
            /\ Relational(i) => ObjectAnchored(i, slot)
         THEN "full_support"
    ELSE "partial_support"

(* What a moment is followed by, given the replies that are kept: the next *)
(* slot, or what is asserted of the next constraint.                       *)
KeyOf(s) == <<Head(s.todo), Head(s.untried)>>
Judging(s) == reading.judging /\ ~ s.stop /\ s.judged < reading.cap

Judged(s) ==
    IF Judging(s) /\ KeyOf(s) \in DOMAIN judgeStore
    THEN Parsed(judgeStore[KeyOf(s)], Head(s.untried))
    ELSE Fallen(Head(s.untried))

VerdictOf(s, j) ==
    IF Judging(s) THEN Ruled(s.trail, j, Head(s.untried), Head(s.todo))
    ELSE IF j.judgment = "contradiction" \/ (j.judgment = "full_support" /\ ~ s.stop)
         THEN j.judgment
    ELSE "irrelevant"

AssertedFrom(s, j) ==
    LET verdict == VerdictOf(s, j) IN
    [todo |-> s.todo, untried |-> Tail(s.untried),
     judged |-> IF Judging(s) THEN s.judged + 1 ELSE s.judged,
     stop |-> IF Judging(s) THEN verdict = "contradiction" /\ Blocking(Head(s.untried)) ELSE s.stop,
     reason |-> s.reason, bound |-> s.bound,
     trail |-> Append(s.trail, [slot |-> Head(s.todo), con |-> Head(s.untried), verdict |-> verdict,
                                by |-> IF Judging(s) THEN "judge" ELSE "recognizer",
                                quote |-> j.quote, alias |-> j.alias])]

ClosedFrom(s) ==
    LET sup == \E j \in DOMAIN s.trail :
                   s.trail[j].slot = Head(s.todo) /\ s.trail[j].verdict = "full_support"
        sofar == IF entity.known /\ ~ sup THEN s.bound ELSE s.bound \cup {Head(s.todo)}
        rest == Tail(s.todo)
    IN TurnedTo(rest, IF rest = <<>> /\ sofar = {} THEN "unsupported_by_selected_constraint"
                      ELSE s.reason, sofar, s.trail)

After(s) == IF s.untried = <<>> THEN ClosedFrom(s) ELSE AssertedFrom(s, Judged(s))

(* One moment leads to another when a list of moments joins them, each     *)
(* following from the one before it; what was asked on the way was said.   *)
Joins(path, s, t) ==
    /\ IsList(path) /\ path # <<>> /\ path[1] = s /\ path[Len(path)] = t
    /\ \A i \in 1 .. Len(path) - 1 :
          /\ path[i].todo # <<>> /\ path[i + 1] = After(path[i])
          /\ path[i].untried # <<>> =>
                \E n \in DOMAIN t.trail : KeyOf(path[i]) = <<t.trail[n].slot, t.trail[n].con>>

Leads(s, t) == \E path : Joins(path, s, t)

(* A judgment of the trail supports only what the page can support.        *)
Grounded(n) ==
    LET t == trail[n] IN
    t.verdict \in SupportJudgments =>
        /\ ~ page.dirty
        /\ t.by = "judge" /\ t.verdict = "full_support" =>
              /\ entity.name = "named"
              /\ t.quote = "name"
                     \/ (t.quote = "alias" /\ \E m \in 1 .. n - 1 : trail[m].alias)
              /\ Relational(t.con) => ObjectAnchored(t.con, t.slot)

(* What is left to try has not been tried, and every reply that is kept    *)
(* is about something that was.                                            *)
Untold ==
    /\ Unrepeated(todo) /\ Unrepeated(untried)
    /\ \A n \in DOMAIN trail :
          todo # <<>> =>
             /\ trail[n].slot \notin ToSet(Tail(todo))
             /\ trail[n].slot = Head(todo) => trail[n].con \notin ToSet(untried)
    /\ \A key \in DOMAIN judgeStore : \E n \in DOMAIN trail : key = <<trail[n].slot, trail[n].con>>

(* The inductive invariant of a reading.                                   *)
ReadingInv ==
    /\ stage \in {"idle", "classify", "slot", "read"} /\ pass \in {"live", "replay"}
    /\ IsList(trail) /\ \A n \in DOMAIN trail : Grounded(n)
    /\ judgedHere \in Nat
    /\ stage # "idle" => /\ NumberedFrame(frame) /\ reading.cap \in Nat
                         /\ reading.direction.cons \subseteq DOMAIN frame.constraints
    /\ stage \in {"idle", "classify"} => trail = <<>> /\ bound = {} /\ reason = ""
    /\ stage \in {"idle", "classify"} /\ pass = "live" => roleStore = {} /\ DOMAIN judgeStore = {}
    /\ stage = "idle" => pass = "live"
    /\ stage = "slot" => todo # <<>>
    /\ stage = "read" => todo = <<>>
    /\ stage \in {"slot", "read"} \/ pass = "replay" => sourceRole = RoleKept
    /\ stage \in {"slot", "read"} /\ pass = "live" => Leads(Start, Moment) /\ Untold
    /\ pass = "replay" =>
          \E last : /\ <<last.reason, last.bound, last.trail>> = first /\ last.todo = <<>>
                    /\ Leads(IF stage = "classify" THEN Start ELSE Moment, last)

(* The frame, the page, the entity and the direction decide the gates and  *)
(* what the page says of a constraint; they do not change in a reading.    *)
LEMMA PageDecides ==
    ASSUME UNCHANGED reading
    PROVE  /\ frame' = frame /\ page' = page /\ entity' = entity
           /\ ClassifiedRole' = ClassifiedRole /\ OpenSlots' = OpenSlots
           /\ \A role : Refusal(role)' = Refusal(role) /\ RoleOr(role)' = RoleOr(role)
           /\ \A slot : ConstraintsOn(slot)' = ConstraintsOn(slot)
           /\ \A i : Blocking(i)' = Blocking(i) /\ Relational(i)' = Relational(i)
           /\ \A i, slot : ObjectAnchored(i, slot)' = ObjectAnchored(i, slot)
<1>1. frame' = frame /\ page' = page /\ entity' = entity
  BY DEF frame, page, entity
<1>2. ClassifiedRole' = ClassifiedRole
  BY <1>1 DEF ClassifiedRole
<1>3. OpenSlots' = OpenSlots
  BY <1>1 DEF OpenSlots
<1>4. ASSUME NEW role PROVE Refusal(role)' = Refusal(role) /\ RoleOr(role)' = RoleOr(role)
  BY <1>1, <1>2, <1>3 DEF Refusal, RoleOr, TitleOnly, Elsewhere
<1>5. ASSUME NEW slot PROVE ConstraintsOn(slot)' = ConstraintsOn(slot)
  BY <1>1 DEF ConstraintsOn
<1>6. ASSUME NEW i PROVE Blocking(i)' = Blocking(i) /\ Relational(i)' = Relational(i)
  BY <1>1 DEF Blocking, Relational
<1>7. ASSUME NEW i, NEW slot PROVE ObjectAnchored(i, slot)' = ObjectAnchored(i, slot)
  BY <1>1 DEF ObjectAnchored
<1>. QED  BY <1>1, <1>2, <1>3, <1>4, <1>5, <1>6, <1>7

(* So the start of a reading is the same while the kept role is.           *)
LEMMA StartKept ==
    ASSUME UNCHANGED <<reading, roleStore>>
    PROVE  RoleKept' = RoleKept /\ Start' = Start
<1>1. RoleKept' = RoleKept
  BY PageDecides DEF RoleKept
<1>2. ASSUME NEW slots, NEW why
      PROVE  TurnedTo(slots, why, {}, <<>>)' = TurnedTo(slots, why, {}, <<>>)
  BY PageDecides DEF TurnedTo
<1>3. PICK role : role = RoleKept
  OBVIOUS
<1>4. PICK why : why = Refusal(role) /\ why = Refusal(role)'
  BY PageDecides
<1>5. PICK slots : slots = (IF why = "" THEN OpenSlots ELSE <<>>)
                   /\ slots = (IF why = "" THEN OpenSlots' ELSE <<>>)
  BY PageDecides
<1>6. Start = TurnedTo(slots, why, {}, <<>>)
  BY <1>3, <1>4, <1>5 DEF Start
<1>7. Start' = TurnedTo(slots, why, {}, <<>>)'
  BY <1>1, <1>3, <1>4, <1>5 DEF Start
<1>. QED  BY <1>1, <1>2, <1>6, <1>7

(* A moment is followed by the same one as long as no reply is kept of     *)
(* what is asked in it.                                                    *)
SameReply(key) ==
    /\ key \in DOMAIN judgeStore' <=> key \in DOMAIN judgeStore
    /\ key \in DOMAIN judgeStore => judgeStore'[key] = judgeStore[key]

(* It is then followed by the same moment after the step.                  *)
LEMMA AfterKept ==
    ASSUME UNCHANGED <<reading, sourceRole>>, NEW s, s.untried = <<>> \/ SameReply(KeyOf(s))
    PROVE  After(s)' = After(s)
<1>1. ASSUME NEW i PROVE Fallen(i)' = Fallen(i)
  BY PageDecides DEF Fallen, Recognized, Says
<1>2. Judging(s)' = Judging(s) /\ KeyOf(s)' = KeyOf(s)
  BY DEF Judging, KeyOf
<1>3. CASE s.untried = <<>>
  <2>1. ASSUME NEW slots, NEW why, NEW sofar, NEW said
        PROVE  TurnedTo(slots, why, sofar, said)' = TurnedTo(slots, why, sofar, said)
    BY PageDecides DEF TurnedTo
  <2>2. ClosedFrom(s)' = ClosedFrom(s)
    BY <2>1, PageDecides DEF ClosedFrom
  <2>. QED  BY <1>3, <2>2 DEF After
<1>4. CASE s.untried # <<>>
  <2>1. ASSUME NEW reply, NEW i PROVE Parsed(reply, i)' = Parsed(reply, i)
    BY <1>1 DEF Parsed
  <2>2. Judged(s)' = Judged(s)
    BY <1>1, <1>2, <1>4, <2>1 DEF Judged, SameReply
  <2>3. ASSUME NEW j PROVE VerdictOf(s, j)' = VerdictOf(s, j)
    <3>1. ASSUME NEW said, NEW i, NEW slot PROVE Ruled(said, j, i, slot)' = Ruled(said, j, i, slot)
      BY PageDecides DEF Ruled
    <3>. QED  BY <1>2, <3>1 DEF VerdictOf
  <2>4. ASSUME NEW j PROVE AssertedFrom(s, j)' = AssertedFrom(s, j)
    <3>1. Blocking(Head(s.untried))' = Blocking(Head(s.untried))
      BY PageDecides
    <3>2. VerdictOf(s, j)' = VerdictOf(s, j)
      BY <2>3
    <3>. QED  BY <1>2, <3>1, <3>2 DEF AssertedFrom
  <2>. QED  BY <1>4, <2>2, <2>4 DEF After
<1>. QED  BY <1>3, <1>4

(* A path of no step.                                                      *)
LEMMA LeadsToItself == ASSUME NEW s PROVE Leads(s, s) /\ Leads(s, s)'
<1>1. <<s>> \in Seq({s})
  OBVIOUS
<1>2. IsList(<<s>>) /\ Len(<<s>>) = 1 /\ <<s>>[1] = s /\ <<s>> # <<>>
  BY <1>1, SeqIsList
<1>3. Joins(<<s>>, s, s) /\ Joins(<<s>>, s, s)'
  BY <1>2 DEF Joins
<1>. QED  BY <1>3 DEF Leads

(* A path goes on with the next moment, also when a reply was kept of what *)
(* was asked last.                                                         *)
LEMMA LeadsOn ==
    ASSUME NEW s, NEW t, Leads(s, t), t.todo # <<>>,
           UNCHANGED <<reading, sourceRole>>,
           \A key : (\E n \in DOMAIN t.trail : key = <<t.trail[n].slot, t.trail[n].con>>)
                      => SameReply(key),
           NEW u, u = After(t)',
           \A n \in DOMAIN t.trail : n \in DOMAIN u.trail /\ u.trail[n] = t.trail[n],
           t.untried # <<>> =>
               \E n \in DOMAIN u.trail : KeyOf(t) = <<u.trail[n].slot, u.trail[n].con>>
    PROVE  Leads(s, u)'
<1>1. PICK path : Joins(path, s, t)
  BY DEF Leads
<1>. DEFINE further == Append(path, u)
            n == Len(path)
<1>2. /\ IsList(path) /\ path # <<>> /\ path[1] = s /\ path[n] = t
      /\ \A i \in 1 .. n - 1 :
            /\ path[i].todo # <<>> /\ path[i + 1] = After(path[i])
            /\ path[i].untried # <<>> =>
                  \E k \in DOMAIN t.trail : KeyOf(path[i]) = <<t.trail[k].slot, t.trail[k].con>>
  BY <1>1 DEF Joins
<1>3. n \in Nat \ {0} /\ DOMAIN path = 1 .. n
  BY <1>2, TailLists
<1>4. /\ IsList(further) /\ Len(further) = n + 1 /\ further[n + 1] = u
      /\ \A i \in 1 .. n : further[i] = path[i]
  BY <1>2, <1>3, AppendLists
<1>. HIDE DEF further, n
<1>5. further # <<>> /\ further[1] = s /\ further[Len(further)] = u
  BY <1>2, <1>3, <1>4
<1>6. ASSUME NEW i \in 1 .. n
      PROVE  /\ further[i].todo # <<>> /\ further[i + 1] = After(further[i])'
             /\ further[i].untried # <<>> =>
                   \E k \in DOMAIN u.trail :
                      KeyOf(further[i])' = <<u.trail[k].slot, u.trail[k].con>>
  <2>0. KeyOf(path[i])' = KeyOf(path[i])
    BY DEF KeyOf
  <2>1. CASE i = n
    BY <1>2, <1>3, <1>4, <2>0, <2>1
  <2>2. CASE i \in 1 .. n - 1
    <3>1. i + 1 \in 1 .. n
      BY <1>3, <2>2
    <3>2. /\ further[i] = path[i] /\ further[i + 1] = path[i + 1]
          /\ path[i].todo # <<>> /\ path[i + 1] = After(path[i])
          /\ path[i].untried # <<>> =>
                \E k \in DOMAIN t.trail : KeyOf(path[i]) = <<t.trail[k].slot, t.trail[k].con>>
      BY <1>2, <1>4, <2>2, <3>1
    <3>3. After(path[i])' = After(path[i])
      BY <3>2, AfterKept
    <3>. QED  BY <2>0, <3>2, <3>3
  <2>. QED  BY <1>3, <2>1, <2>2
<1>7. Joins(further, s, u)'
  <2>1. Len(further) - 1 = n
    BY <1>3, <1>4
  <2>. QED  BY <1>4, <1>5, <1>6, <2>1 DEF Joins
<1>. QED  BY <1>7 DEF Leads

(* A path to a last moment goes through the next one, ...                  *)
LEMMA LeadsFromNext ==
    ASSUME NEW s, NEW t, Leads(s, t), s.todo # <<>>, t.todo = <<>>
    PROVE  Leads(After(s), t)
<1>1. PICK path : Joins(path, s, t)
  BY DEF Leads
<1>. DEFINE rest == Tail(path)
            n == Len(path)
<1>2. /\ IsList(path) /\ path # <<>> /\ path[1] = s /\ path[n] = t
      /\ \A i \in 1 .. n - 1 :
            /\ path[i].todo # <<>> /\ path[i + 1] = After(path[i])
            /\ path[i].untried # <<>> =>
                  \E k \in DOMAIN t.trail : KeyOf(path[i]) = <<t.trail[k].slot, t.trail[k].con>>
  BY <1>1 DEF Joins
<1>3. /\ IsList(rest) /\ n \in Nat \ {0} /\ Len(rest) = n - 1 /\ DOMAIN rest = 1 .. n - 1
      /\ \A i \in DOMAIN rest : rest[i] = path[i + 1]
  BY <1>2, TailLists
<1>. HIDE DEF rest, n
<1>4. n # 1
  BY <1>2
<1>5. /\ 1 \in 1 .. n - 1 /\ rest[1] = path[2] /\ rest[n - 1] = path[n] /\ rest # <<>>
  <2>1. 1 \in 1 .. n - 1 /\ n - 1 \in 1 .. n - 1 /\ (n - 1) + 1 = n
    BY <1>3, <1>4
  <2>. QED  BY <1>3, <2>1
<1>6. path[2] = After(s)
  BY <1>2, <1>5
<1>7. ASSUME NEW i \in 1 .. Len(rest) - 1
      PROVE  i \in DOMAIN rest /\ i + 1 \in DOMAIN rest /\ i + 1 \in 1 .. n - 1
  BY <1>3
<1>8. ASSUME NEW i \in 1 .. Len(rest) - 1
      PROVE  /\ rest[i].todo # <<>> /\ rest[i + 1] = After(rest[i])
             /\ rest[i].untried # <<>> =>
                   \E k \in DOMAIN t.trail : KeyOf(rest[i]) = <<t.trail[k].slot, t.trail[k].con>>
  <2>1. rest[i] = path[i + 1] /\ rest[i + 1] = path[(i + 1) + 1] /\ i + 1 \in 1 .. n - 1
    BY <1>3, <1>7
  <2>. QED  BY <1>2, <2>1
<1>9. Joins(rest, After(s), t)
  <2>1. rest[Len(rest)] = t /\ rest[1] = After(s)
    BY <1>2, <1>3, <1>5, <1>6
  <2>. QED  BY <1>3, <1>5, <1>8, <2>1 DEF Joins
<1>. QED  BY <1>9 DEF Leads

(* ... and from a last moment there is none.                               *)
LEMMA LeadsNowhere ==
    ASSUME NEW s, NEW t, Leads(s, t), s.todo = <<>>
    PROVE  s = t
<1>1. PICK path : Joins(path, s, t)
  BY DEF Leads
<1>2. /\ IsList(path) /\ path # <<>> /\ path[1] = s /\ path[Len(path)] = t
      /\ \A i \in 1 .. Len(path) - 1 : path[i].todo # <<>>
  BY <1>1 DEF Joins
<1>3. Len(path) \in Nat \ {0}
  BY <1>2, TailLists
<1>4. ASSUME Len(path) # 1 PROVE FALSE
  <2>1. PICK n \in Nat \ {0} : n = Len(path) /\ n # 1
    BY <1>3, <1>4
  <2>2. 1 \in 1 .. n - 1
    BY <2>1
  <2>. QED  BY <1>2, <2>1, <2>2
<1>. QED  BY <1>2, <1>4

(* A path stays one while what the moments depend on is the same.          *)
LEMMA LeadsKept ==
    ASSUME UNCHANGED <<reading, sourceRole, judgeStore>>, NEW s, NEW t
    PROVE  Leads(s, t)' <=> Leads(s, t)
<1>1. ASSUME NEW m PROVE After(m)' = After(m) /\ KeyOf(m)' = KeyOf(m)
  BY AfterKept DEF SameReply, KeyOf
<1>2. ASSUME NEW path PROVE Joins(path, s, t)' <=> Joins(path, s, t)
  BY <1>1 DEF Joins
<1>. QED  BY <1>2 DEF Leads

(* A step of the reading makes the moment that follows.                    *)
LEMMA MomentFollows ==
    ASSUME Recognize \/ Judge \/ Close, stage = "slot" => todo # <<>>,
           judgedHere \in Nat /\ reading.cap \in Nat, NEW now, now = Moment
    PROVE  /\ UNCHANGED <<reading, sourceRole, pass, roleStore, first>>
           /\ Moment' = After(now)' /\ todo # <<>>
           /\ \A key : key # KeyOf(now) => SameReply(key)
           /\ pass = "replay" \/ untried = <<>> => UNCHANGED judgeStore
           /\ stage = "slot"
           /\ untried = <<>> => /\ Moment' = ClosedFrom(now)
                                 /\ stage' = IF todo' = <<>> THEN "read" ELSE "slot"
           /\ untried # <<>> => /\ UNCHANGED stage
                                 /\ \E j : /\ Moment' = AssertedFrom(now, j)
                                           /\ Judging(now) \/ j = Fallen(Head(now.untried))
<1>0. /\ now.todo = todo /\ now.untried = untried /\ now.judged = judgedHere
      /\ now.stop = stopCandidate /\ now.reason = reason /\ now.bound = bound
      /\ now.trail = trail
  BY DEF Moment
<1>1. CASE Close
  <2>1. /\ stage = "slot" /\ untried = <<>> /\ Turns(Tail(todo))
        /\ UNCHANGED <<pass, reading, sourceRole, trail, roleStore, judgeStore, first>>
        /\ bound' = (IF /\ entity.known
                        /\ ~ \E j \in DOMAIN trail :
                              trail[j].slot = Head(todo) /\ trail[j].verdict = "full_support"
                     THEN bound ELSE bound \cup {Head(todo)})
        /\ reason' = IF todo' = <<>> /\ bound' = {} THEN "unsupported_by_selected_constraint"
                     ELSE reason
    BY <1>1 DEF Close
  <2>2. Moment' = ClosedFrom(now)
    BY <1>0, <2>1 DEF Moment, ClosedFrom, TurnedTo, Turns
  <2>3. After(now)' = ClosedFrom(now)
    BY <1>0, <2>1, <2>2, AfterKept DEF After
  <2>4. stage' = IF todo' = <<>> THEN "read" ELSE "slot"
    BY <2>1 DEF Turns
  <2>. QED  BY <1>1, <2>1, <2>2, <2>3, <2>4 DEF SameReply, Close
<1>2. CASE Recognize
  <2>. DEFINE j == Fallen(Constraint)
  <2>1. /\ stage = "slot" /\ untried # <<>> /\ ~ Judging(now)
        /\ UNCHANGED <<judgedHere, stopCandidate, judgeStore>>
        /\ Asserts(IF \/ j.judgment = "contradiction"
                      \/ j.judgment = "full_support" /\ ~ stopCandidate
                   THEN j.judgment ELSE "irrelevant", "recognizer", j)
    BY <1>0, <1>2 DEF Recognize, Trying, Judging
  <2>2. After(now) = AssertedFrom(now, j)
    BY <1>0, <2>1 DEF After, Judged, Constraint
  <2>3. After(now)' = After(now) /\ UNCHANGED <<reading, sourceRole, pass, roleStore, first>>
    <3>1. UNCHANGED <<reading, sourceRole, pass, roleStore, first>>
      BY <2>1 DEF Asserts
    <3>. QED  BY <2>1, <3>1, AfterKept DEF SameReply
  <2>. HIDE DEF j
  <2>4. Moment' = AssertedFrom(now, j)
    BY <1>0, <2>1 DEF Moment, AssertedFrom, VerdictOf, Asserts, Constraint
  <2>5. j = Fallen(Head(now.untried)) /\ UNCHANGED stage
    BY <1>0, <2>1 DEF j, Constraint, Asserts
  <2>. QED  BY <1>2, <2>1, <2>2, <2>3, <2>4, <2>5 DEF SameReply, Recognize, Trying
<1>3. CASE Judge
  <2>. DEFINE RuledBy(j) ==
                  /\ Asserts(HardRules(j, Constraint, Head(todo)), "judge", j)
                  /\ judgedHere' = judgedHere + 1
                  /\ stopCandidate' = Stops(HardRules(j, Constraint, Head(todo)))
  <2>0. /\ Trying
        /\ \/ Key \in DOMAIN judgeStore /\ RuledBy(Parsed(judgeStore[Key], Constraint))
                 /\ UNCHANGED judgeStore
           \/ Key \notin DOMAIN judgeStore /\ RuledBy(Fallen(Constraint)) /\ UNCHANGED judgeStore
           \/ /\ Key \notin DOMAIN judgeStore /\ pass = "live"
              /\ \E reply \in JudgeReplies :
                    /\ RuledBy(Parsed(reply, Constraint))
                    /\ judgeStore' = [key \in DOMAIN judgeStore \cup {Key} |->
                                         IF key = Key THEN reply ELSE judgeStore[key]]
    BY <1>3 DEF Judge, Rules, Counted
  <2>. HIDE DEF RuledBy
  <2>1. /\ stage = "slot" /\ untried # <<>> /\ Judging(now) /\ KeyOf(now) = Key
        /\ Constraint = Head(now.untried)
    BY <1>0, <1>3 DEF Judge, Trying, Judging, KeyOf, Key, Constraint
  <2>2. PICK j :
            /\ RuledBy(j)
            /\ \A key : key # Key => SameReply(key)
            /\ pass = "replay" => UNCHANGED judgeStore
            /\ j = IF Key \in DOMAIN judgeStore' THEN Parsed(judgeStore'[Key], Constraint)
                   ELSE Fallen(Constraint)
    <3>1. CASE Key \in DOMAIN judgeStore
      BY <2>0, <3>1 DEF SameReply
    <3>2. CASE Key \notin DOMAIN judgeStore /\ RuledBy(Fallen(Constraint)) /\ UNCHANGED judgeStore
      BY <3>2 DEF SameReply
    <3>3. ASSUME pass = "live", NEW reply \in JudgeReplies, RuledBy(Parsed(reply, Constraint)),
                 judgeStore' = [key \in DOMAIN judgeStore \cup {Key} |->
                                   IF key = Key THEN reply ELSE judgeStore[key]]
          PROVE  \E j : /\ RuledBy(j)
                        /\ \A key : key # Key => SameReply(key)
                        /\ pass = "replay" => UNCHANGED judgeStore
                        /\ j = IF Key \in DOMAIN judgeStore'
                               THEN Parsed(judgeStore'[Key], Constraint)
                               ELSE Fallen(Constraint)
      <4>1. Key \in DOMAIN judgeStore' /\ judgeStore'[Key] = reply
        BY <3>3
      <4>2. ASSUME NEW key, key # Key PROVE SameReply(key)
        BY <3>3, <4>2 DEF SameReply
      <4>. QED  BY <3>3, <4>1, <4>2
    <3>. QED  BY <2>0, <3>1, <3>2, <3>3
  <2>3. /\ Asserts(HardRules(j, Constraint, Head(todo)), "judge", j)
        /\ judgedHere' = judgedHere + 1
        /\ stopCandidate' = Stops(HardRules(j, Constraint, Head(todo)))
    BY <2>2 DEF RuledBy
  <2>4. UNCHANGED <<reading, sourceRole, pass, roleStore, first>>
    BY <2>3 DEF Asserts
  <2>5. Judged(now)' = j
    <3>1. Judging(now)' /\ KeyOf(now)' = Key
      BY <2>1, <2>4 DEF Judging, KeyOf
    <3>2. Fallen(Constraint) = Fallen(Head(now.untried))'
      BY <2>1, <2>4, PageDecides DEF Fallen, Recognized, Says
    <3>3. ASSUME NEW reply PROVE Parsed(reply, Constraint) = Parsed(reply, Head(now.untried))'
      BY <2>1, <3>2 DEF Parsed
    <3>. QED  BY <2>2, <3>1, <3>2, <3>3 DEF Judged
  <2>6. Ruled(trail, j, Constraint, Head(todo)) = HardRules(j, Constraint, Head(todo))
    BY DEF Ruled, HardRules, Anchors, Aliased
  <2>7. Moment' = AssertedFrom(now, j)
    BY <1>0, <2>1, <2>3, <2>6
       DEF Moment, AssertedFrom, VerdictOf, Asserts, Constraint, Stops
  <2>8. AssertedFrom(now, j)' = AssertedFrom(now, j)
    <3>1. Judging(now)' = Judging(now)
      BY <2>4 DEF Judging
    <3>2. ASSUME NEW said, NEW i, NEW slot PROVE Ruled(said, j, i, slot)' = Ruled(said, j, i, slot)
      BY <2>4, PageDecides DEF Ruled
    <3>3. VerdictOf(now, j)' = VerdictOf(now, j)
      BY <3>1, <3>2 DEF VerdictOf
    <3>4. Blocking(Head(now.untried))' = Blocking(Head(now.untried))
      BY <2>4, PageDecides
    <3>. QED  BY <3>1, <3>3, <3>4 DEF AssertedFrom
  <2>9. After(now)' = AssertedFrom(now, j)'
    BY <1>0, <2>1, <2>5 DEF After
  <2>10. UNCHANGED stage
    BY <2>3 DEF Asserts
  <2>. QED  BY <1>3, <2>1, <2>2, <2>4, <2>7, <2>8, <2>9, <2>10 DEF Judge, Trying
<1>4. todo # <<>>
  BY <1>1, <1>2, <1>3 DEF Recognize, Judge, Close, Trying
<1>. QED  BY <1>1, <1>2, <1>3, <1>4

(* A verdict of support is one the page can give.                          *)
LEMMA VerdictIsGrounded ==
    ASSUME NEW s, NEW j, Judging(s) \/ j = Fallen(Head(s.untried)),
           VerdictOf(s, j) \in SupportJudgments
    PROVE  /\ ~ page.dirty
           /\ Judging(s) /\ VerdictOf(s, j) = "full_support" =>
                 /\ entity.name = "named"
                 /\ j.quote = "name"
                        \/ (j.quote = "alias" /\ \E n \in DOMAIN s.trail : s.trail[n].alias)
                 /\ Relational(Head(s.untried)) => ObjectAnchored(Head(s.untried), Head(s.todo))
<1>1. CASE Judging(s)
  <2>. DEFINE v == Ruled(s.trail, j, Head(s.untried), Head(s.todo))
  <2>1. VerdictOf(s, j) = v /\ v \in {"full_support", "partial_support"}
    BY <1>1 DEF VerdictOf, SupportJudgments
  <2>2. ~ page.dirty
    BY <2>1 DEF Ruled, SupportJudgments
  <2>3. v = "full_support" =>
                 /\ entity.name = "named"
                 /\ j.quote = "name"
                        \/ (j.quote = "alias" /\ \E n \in DOMAIN s.trail : s.trail[n].alias)
                 /\ Relational(Head(s.untried)) => ObjectAnchored(Head(s.untried), Head(s.todo))
    BY DEF Ruled
  <2>. QED  BY <2>1, <2>2, <2>3
<1>2. CASE ~ Judging(s)
  <2>1. j = Fallen(Head(s.untried)) /\ j.judgment = "full_support"
    BY <1>2 DEF VerdictOf, SupportJudgments
  <2>2. Recognized(Head(s.untried)) = "supports"
    BY <2>1 DEF Fallen
  <2>. QED  BY <1>2, <2>2 DEF Recognized
<1>. QED  BY <1>1, <1>2

(* A step keeps what is asserted grounded, and what is left untold.        *)
LEMMA TrailKept ==
    ASSUME ReadingInv, Recognize \/ Judge \/ Close
    PROVE  /\ IsList(trail') /\ \A n \in DOMAIN trail' : Grounded(n)'
           /\ \A n \in DOMAIN trail : n \in DOMAIN trail' /\ trail'[n] = trail[n]
           /\ untried # <<>> =>
                 \E n \in DOMAIN trail' : KeyOf(Moment) = <<trail'[n].slot, trail'[n].con>>
           /\ Untold => Untold'
           /\ judgedHere' \in Nat
           /\ stage' = (IF todo' = <<>> THEN "read" ELSE "slot")
<1>. PICK now : now = Moment
  OBVIOUS
<1>0. /\ now.todo = todo /\ now.untried = untried /\ now.judged = judgedHere
      /\ now.stop = stopCandidate /\ now.reason = reason /\ now.bound = bound
      /\ now.trail = trail
  BY DEF Moment
<1>1. /\ UNCHANGED <<reading, sourceRole, pass, roleStore, first>>
      /\ todo # <<>> /\ stage = "slot"
      /\ \A key : key # KeyOf(now) => SameReply(key)
      /\ untried = <<>> => UNCHANGED judgeStore
      /\ untried = <<>> => /\ Moment' = ClosedFrom(now)
                            /\ stage' = IF todo' = <<>> THEN "read" ELSE "slot"
      /\ untried # <<>> => /\ UNCHANGED stage
                            /\ \E j : /\ Moment' = AssertedFrom(now, j)
                                      /\ Judging(now) \/ j = Fallen(Head(now.untried))
  <2>1. stage = "slot"
    BY DEF Recognize, Judge, Close, Trying
  <2>2. todo # <<>> /\ judgedHere \in Nat /\ reading.cap \in Nat
    BY <2>1 DEF ReadingInv
  <2>. QED  BY <2>1, <2>2, MomentFollows
<1>2. IsList(trail) /\ \A n \in DOMAIN trail : Grounded(n)
  BY DEF ReadingInv
<1>3. /\ NumberedFrame(frame) /\ reading.direction.cons \subseteq DOMAIN frame.constraints
  BY <1>1 DEF ReadingInv
<1>4. Moment'.trail = trail' /\ Moment'.todo = todo' /\ Moment'.untried = untried'
      /\ Moment'.judged = judgedHere'
  BY DEF Moment
<1>5. CASE untried = <<>>
  <2>1. /\ trail' = trail /\ todo' = Tail(todo) /\ judgedHere' = 0 /\ UNCHANGED judgeStore
        /\ untried' = IF todo' = <<>> THEN <<>> ELSE ConstraintsOn(Head(todo'))
        /\ stage' = (IF todo' = <<>> THEN "read" ELSE "slot")
    BY <1>0, <1>1, <1>4, <1>5 DEF ClosedFrom, TurnedTo
  <2>2. ASSUME NEW n \in DOMAIN trail PROVE Grounded(n)'
    BY <1>1, <1>2, <2>1, PageDecides DEF Grounded
  <2>3. ASSUME Untold PROVE Untold'
    <3>1. Unrepeated(todo') /\ ToSet(Tail(todo)) = ToSet(todo')
      BY <1>1, <2>1, <2>3, UnrepeatedTail DEF Untold
    <3>2. Unrepeated(untried')
      BY <1>3, <2>1, ConstraintsUnrepeated, NothingKept DEF Unrepeated
    <3>3. ASSUME NEW n \in DOMAIN trail, todo' # <<>>
          PROVE  trail[n].slot \notin ToSet(Tail(todo')) /\ trail[n].slot # Head(todo')
      <4>1. trail[n].slot \notin ToSet(todo')
        BY <1>1, <2>3, <3>1 DEF Untold
      <4>. QED  BY <3>1, <3>3, <4>1, UnrepeatedTail
    <3>. QED  BY <2>1, <2>3, <3>1, <3>2, <3>3 DEF Untold
  <2>. QED  BY <1>2, <1>5, <2>1, <2>2, <2>3
<1>6. CASE untried # <<>>
  <2>1. PICK j : /\ Moment' = AssertedFrom(now, j)
                 /\ Judging(now) \/ j = Fallen(Head(now.untried))
    BY <1>1, <1>6
  <2>. DEFINE e == [slot |-> Head(todo), con |-> Head(untried), verdict |-> VerdictOf(now, j),
                    by |-> IF Judging(now) THEN "judge" ELSE "recognizer",
                    quote |-> j.quote, alias |-> j.alias]
  <2>2. /\ trail' = Append(trail, e) /\ todo' = todo /\ untried' = Tail(untried)
        /\ judgedHere' = IF Judging(now) THEN judgedHere + 1 ELSE judgedHere
    BY <1>0, <1>4, <2>1 DEF AssertedFrom
  <2>3. /\ e.slot = Head(todo) /\ e.con = Head(untried) /\ e.verdict = VerdictOf(now, j)
        /\ e.by = "judge" <=> Judging(now)
        /\ e.quote = j.quote
    OBVIOUS
  <2>. HIDE DEF e
  <2>4. /\ IsList(trail') /\ Len(trail) \in Nat /\ DOMAIN trail = 1 .. Len(trail)
        /\ DOMAIN trail' = 1 .. Len(trail) + 1
        /\ \A n \in DOMAIN trail : trail'[n] = trail[n]
        /\ trail'[Len(trail) + 1] = e
    BY <1>2, <2>2, AppendLists
  <2>5. ASSUME NEW n \in DOMAIN trail PROVE Grounded(n)'
    <3>1. \A m \in 1 .. n - 1 : trail'[m] = trail[m]
      BY <2>4
    <3>2. Grounded(n) /\ trail'[n] = trail[n]
      BY <1>2, <2>4
    <3>. QED  BY <1>1, <3>1, <3>2, PageDecides DEF Grounded
  <2>6. /\ e.verdict \in SupportJudgments =>
              /\ ~ page.dirty
              /\ e.by = "judge" /\ e.verdict = "full_support" =>
                    /\ entity.name = "named"
                    /\ e.quote = "name"
                           \/ (e.quote = "alias" /\ \E m \in DOMAIN trail : trail[m].alias)
                    /\ Relational(e.con) => ObjectAnchored(e.con, e.slot)
    BY <1>0, <2>1, <2>3, VerdictIsGrounded
  <2>7. KeyOf(now) = <<trail'[Len(trail) + 1].slot, trail'[Len(trail) + 1].con>>
    BY <1>0, <2>3, <2>4 DEF KeyOf
  <2>8. ASSUME Untold PROVE Untold'
    <3>1. /\ Unrepeated(todo') /\ Unrepeated(untried')
          /\ Head(untried) \notin ToSet(untried') /\ ToSet(untried') \subseteq ToSet(untried)
          /\ Head(todo) \notin ToSet(Tail(todo))
      BY <1>1, <1>6, <2>2, <2>8, UnrepeatedTail DEF Untold
    <3>2. ASSUME NEW n \in DOMAIN trail'
          PROVE  /\ trail'[n].slot \notin ToSet(Tail(todo))
                 /\ trail'[n].slot = Head(todo) => trail'[n].con \notin ToSet(untried')
      <4>1. CASE n = Len(trail) + 1
        BY <2>3, <2>4, <3>1, <4>1
      <4>2. CASE n \in DOMAIN trail
        BY <1>1, <2>4, <2>8, <3>1, <4>2 DEF Untold
      <4>. QED  BY <2>4, <4>1, <4>2
    <3>3. ASSUME NEW key \in DOMAIN judgeStore'
          PROVE  \E n \in DOMAIN trail' : key = <<trail'[n].slot, trail'[n].con>>
      <4>1. CASE key = KeyOf(now)
        BY <2>4, <2>7, <4>1
      <4>2. CASE key # KeyOf(now)
        <5>1. key \in DOMAIN judgeStore
          BY <1>1, <4>2 DEF SameReply
        <5>2. PICK n \in DOMAIN trail : key = <<trail[n].slot, trail[n].con>>
          BY <2>8, <5>1 DEF Untold
        <5>. QED  BY <2>4, <5>2
      <4>. QED  BY <4>1, <4>2
    <3>. QED  BY <2>2, <3>1, <3>2, <3>3 DEF Untold
  <2>9. ASSUME NEW n \in DOMAIN trail' PROVE Grounded(n)'
    <3>1. CASE n \in DOMAIN trail
      BY <2>5, <3>1
    <3>2. CASE n = Len(trail) + 1
      <4>1. /\ trail'[n] = e /\ n - 1 = Len(trail)
            /\ \A m \in 1 .. n - 1 : m \in DOMAIN trail /\ trail'[m] = trail[m]
            /\ \A m \in DOMAIN trail : m \in 1 .. n - 1
        BY <2>4, <3>2
      <4>. HIDE <3>2
      <4>2. /\ page' = page /\ entity' = entity
        BY <1>1, PageDecides
      <4>3. PICK t : t = e /\ t = trail'[n]
        BY <4>1
      <4>4. ASSUME t.verdict \in SupportJudgments
            PROVE  /\ ~ page.dirty
                   /\ t.by = "judge" /\ t.verdict = "full_support" =>
                         /\ entity.name = "named"
                         /\ t.quote = "name"
                                \/ (t.quote = "alias" /\ \E m \in 1 .. n - 1 : trail'[m].alias)
                         /\ Relational(t.con) => ObjectAnchored(t.con, t.slot)
        BY <2>6, <4>1, <4>3, <4>4
      <4>5. /\ Relational(t.con)' = Relational(t.con)
            /\ ObjectAnchored(t.con, t.slot)' = ObjectAnchored(t.con, t.slot)
        BY <1>1, PageDecides
      <4>. HIDE <4>1
      <4>6. ASSUME t.verdict \in SupportJudgments
            PROVE  /\ ~ page'.dirty
                   /\ t.by = "judge" /\ t.verdict = "full_support" =>
                         /\ entity'.name = "named"
                         /\ t.quote = "name"
                                \/ (t.quote = "alias" /\ \E m \in 1 .. n - 1 : trail'[m].alias)
                         /\ Relational(t.con)' => ObjectAnchored(t.con, t.slot)'
        BY <4>2, <4>4, <4>5, <4>6
      <4>7. t = trail'[n]
        BY <4>3
      <4>. QED  BY <4>6, <4>7 DEF Grounded, SupportJudgments
    <3>. QED  BY <2>4, <3>1, <3>2
  <2>10. judgedHere' \in Nat /\ stage' = (IF todo' = <<>> THEN "read" ELSE "slot")
    BY <1>1, <1>6, <2>2 DEF ReadingInv
  <2>. QED  BY <1>6, <2>4, <2>7, <2>8, <2>9, <2>10
<1>. QED  BY <1>5, <1>6

(* Nothing is said or kept before a reading.                               *)
LEMMA ReadingInvInit == ReadingInit => ReadingInv
<1>. SUFFICES ASSUME ReadingInit PROVE ReadingInv
  OBVIOUS
<1>1. /\ stage = "idle" /\ pass = "live" /\ trail = <<>> /\ bound = {} /\ reason = ""
      /\ roleStore = {} /\ judgeStore = <<>> /\ judgedHere = 0
  BY DEF ReadingInit
<1>2. IsList(trail) /\ DOMAIN trail = {} /\ DOMAIN judgeStore = {}
  BY <1>1, NothingKept
<1>. QED  BY <1>1, <1>2 DEF ReadingInv

(* A reading begins with the frame of the question that was parsed last.   *)
LEMMA ReadingInvReads == ASSUME ParserInv, ReadingInv, Reads PROVE ReadingInv'
<1>1. /\ stage = "idle" /\ pass = "live" /\ stage' = "classify" /\ parsed # <<>>
      /\ UNCHANGED <<pass, sourceRole, todo, untried, judgedHere, stopCandidate, reason, bound,
                     trail, roleStore, judgeStore, first>>
  BY DEF Reads, Opens, ReadingInv
<1>2. PICK f : f = Last(parsed).frame
  OBVIOUS
<1>3. NumberedFrame(f)
  <2>1. IsList(parsed) /\ \A i \in DOMAIN parsed : NumberedFrame(parsed[i].frame)
    BY DEF ParserInv
  <2>2. Len(parsed) \in DOMAIN parsed
    BY <1>1, <2>1, TailLists
  <2>. QED  BY <1>2, <2>1, <2>2 DEF Last
<1>4. /\ reading'.frame = f /\ reading'.cap \in Nat
      /\ reading'.direction.cons \subseteq DOMAIN f.constraints
  <2>1. PICK r \in Results, d \in Directions, cap \in Caps, judging \in BOOLEAN,
              classing \in BOOLEAN :
            /\ d.cons \subseteq DOMAIN f.constraints
            /\ reading' = [frame |-> f, page |-> r.page, entity |-> r.entity, direction |-> d,
                           cap |-> cap, judging |-> judging, classing |-> classing]
    BY <1>2 DEF Reads, Opens
  <2>. QED  BY <2>1, ReadingAssumption
<1>5. NumberedFrame(frame)' /\ (reading.direction.cons \subseteq DOMAIN frame.constraints)'
  BY <1>3, <1>4 DEF frame, NumberedFrame
<1>6. trail = <<>> /\ bound = {} /\ reason = "" /\ roleStore = {} /\ DOMAIN judgeStore = {}
      /\ judgedHere \in Nat
  BY <1>1 DEF ReadingInv
<1>. QED  BY <1>1, <1>4, <1>5, <1>6, NothingKept DEF ReadingInv

(* The page is taken for what the kept reply says, and the gates decide    *)
(* where the reading starts.                                               *)
LEMMA ClassifyStarts ==
    ASSUME Classify, bound = {}, trail = <<>>
    PROVE  /\ UNCHANGED <<pass, reading, bound, trail, judgeStore, first>>
           /\ sourceRole' = RoleKept' /\ Moment' = Start' /\ judgedHere' = 0
           /\ stage' = (IF todo' = <<>> THEN "read" ELSE "slot")
           /\ todo' = OpenSlots \/ todo' = <<>>
           /\ untried' = IF todo' = <<>> THEN <<>> ELSE ConstraintsOn(Head(todo'))
           /\ pass = "replay" => UNCHANGED roleStore
<1>1. /\ UNCHANGED <<pass, reading, bound, trail, judgeStore, first>>
      /\ reason' = Refusal(sourceRole')
      /\ Turns(IF reason' = "" THEN OpenSlots ELSE <<>>)
  BY DEF Classify
<1>2. sourceRole' = RoleKept' /\ (pass = "replay" => UNCHANGED roleStore)
  <2>1. CASE /\ ~ reading.classing \/ (roleStore = {} /\ pass = "replay")
             /\ sourceRole' = ClassifiedRole /\ UNCHANGED roleStore
    BY <1>1, <2>1, PageDecides DEF RoleKept
  <2>2. CASE /\ reading.classing /\ roleStore # {}
             /\ sourceRole' = RoleOr(CHOOSE reply \in roleStore : TRUE) /\ UNCHANGED roleStore
    <3>1. RoleKept' = RoleKept
      BY <1>1, <2>2, PageDecides DEF RoleKept
    <3>. QED  BY <2>2, <3>1 DEF RoleKept
  <2>3. CASE /\ reading.classing /\ roleStore = {} /\ pass = "live"
             /\ sourceRole' = ClassifiedRole /\ UNCHANGED roleStore
    BY <1>1, <2>3, PageDecides DEF RoleKept
  <2>4. ASSUME reading.classing, pass = "live", NEW reply \in RoleReplies,
               sourceRole' = RoleOr(reply), roleStore' = {reply}
        PROVE  sourceRole' = RoleKept' /\ pass # "replay"
    <3>1. RoleOr(reply)' = RoleOr(reply)
      BY <1>1, PageDecides
    <3>2. (CHOOSE r \in {reply} : TRUE) = reply
      OBVIOUS
    <3>3. RoleKept' = RoleOr(reply)'
      BY <1>1, <2>4, <3>2 DEF RoleKept
    <3>. QED  BY <2>4, <3>1, <3>3
  <2>. QED  BY <2>1, <2>2, <2>3, <2>4 DEF Classify
<1>3. PICK role : role = sourceRole' /\ role = RoleKept'
  BY <1>2
<1>4. PICK why : why = Refusal(role) /\ why = Refusal(role)' /\ why = reason'
  BY <1>1, <1>3, PageDecides
<1>5. PICK slots : /\ slots = (IF why = "" THEN OpenSlots ELSE <<>>)
                   /\ slots = (IF why = "" THEN OpenSlots' ELSE <<>>)
  BY <1>1, PageDecides
<1>6. /\ todo' = slots /\ untried' = (IF slots = <<>> THEN <<>> ELSE ConstraintsOn(Head(slots)))
      /\ judgedHere' = 0 /\ stopCandidate' = FALSE
      /\ stage' = (IF slots = <<>> THEN "read" ELSE "slot")
  BY <1>1, <1>4, <1>5 DEF Turns
<1>7. Start' = TurnedTo(slots, why, {}, <<>>)'
  BY <1>3, <1>4, <1>5 DEF Start
<1>8. TurnedTo(slots, why, {}, <<>>)' = TurnedTo(slots, why, {}, <<>>)
  BY <1>1, PageDecides DEF TurnedTo
<1>9. Moment' = TurnedTo(slots, why, {}, <<>>)
  BY <1>1, <1>4, <1>6 DEF Moment, TurnedTo
<1>. QED  BY <1>1, <1>2, <1>5, <1>6, <1>7, <1>8, <1>9

(* The role of the page, and where the reading starts, keep the invariant. *)
LEMMA ReadingInvClassify == ASSUME ReadingInv, Classify PROVE ReadingInv'
<1>0. stage = "classify" /\ bound = {} /\ trail = <<>> /\ pass \in {"live", "replay"}
  BY DEF ReadingInv, Classify
<1>1. /\ UNCHANGED <<pass, reading, bound, trail, judgeStore, first>>
      /\ sourceRole' = RoleKept' /\ Moment' = Start' /\ judgedHere' = 0
      /\ stage' = (IF todo' = <<>> THEN "read" ELSE "slot")
      /\ todo' = OpenSlots \/ todo' = <<>>
      /\ untried' = IF todo' = <<>> THEN <<>> ELSE ConstraintsOn(Head(todo'))
      /\ pass = "replay" => UNCHANGED roleStore
  BY <1>0, ClassifyStarts
<1>2. /\ NumberedFrame(frame) /\ reading.cap \in Nat
      /\ reading.direction.cons \subseteq DOMAIN frame.constraints
  BY <1>0 DEF ReadingInv
<1>3. (/\ NumberedFrame(frame) /\ reading.cap \in Nat
       /\ reading.direction.cons \subseteq DOMAIN frame.constraints)'
  BY <1>1, <1>2 DEF frame, NumberedFrame
<1>4. IsList(trail') /\ DOMAIN trail' = {}
  BY <1>0, <1>1, NothingKept
<1>5. ASSUME pass = "live" PROVE Leads(Start, Moment)' /\ Untold'
  <2>1. PICK m : m = Start' /\ m = Moment'
    BY <1>1
  <2>2. Leads(Start, Moment)'
    BY <2>1, LeadsToItself
  <2>3. Unrepeated(<<>>)
    BY NothingKept DEF Unrepeated
  <2>4. Unrepeated(todo') /\ Unrepeated(untried')
    BY <1>1, <1>2, <2>3, OpenSlotsUnrepeated, ConstraintsUnrepeated
  <2>5. DOMAIN judgeStore' = {}
    BY <1>0, <1>1, <1>5 DEF ReadingInv
  <2>. QED  BY <1>4, <2>2, <2>4, <2>5 DEF Untold
<1>6. ASSUME pass = "replay"
      PROVE  (\E last : /\ <<last.reason, last.bound, last.trail>> = first /\ last.todo = <<>>
                        /\ Leads(IF stage = "classify" THEN Start ELSE Moment, last))'
  <2>1. PICK last : /\ <<last.reason, last.bound, last.trail>> = first /\ last.todo = <<>>
                    /\ Leads(Start, last)
    BY <1>0, <1>6 DEF ReadingInv
  <2>2. RoleKept' = RoleKept /\ Start' = Start
    BY <1>1, <1>6, StartKept
  <2>3. UNCHANGED sourceRole
    BY <1>1, <1>6, <2>2 DEF ReadingInv
  <2>4. PICK m : m = Start /\ m = Moment'
    BY <1>1, <2>2
  <2>5. Leads(m, last)'
    BY <1>1, <2>1, <2>3, <2>4, LeadsKept
  <2>6. stage' # "classify"
    BY <1>1
  <2>. QED  BY <1>1, <2>1, <2>4, <2>5, <2>6
<1>. QED  BY <1>0, <1>1, <1>3, <1>4, <1>5, <1>6 DEF ReadingInv

(* So does what is said of a constraint, by the judge or without it, and   *)
(* the end of a slot: live, the path from the start grows by the moment    *)
(* that follows; in a replay, the path to the live result loses its first. *)
LEMMA ReadingInvSays == ASSUME ReadingInv, Recognize \/ Judge \/ Close PROVE ReadingInv'
<1>1. PICK now : now = Moment
  OBVIOUS
<1>2. PICK next : next = Moment'
  OBVIOUS
<1>0. /\ now.todo = todo /\ now.untried = untried /\ now.trail = trail /\ next.trail = trail'
  BY <1>1, <1>2 DEF Moment
<1>3. stage = "slot" /\ pass \in {"live", "replay"}
  BY DEF Recognize, Judge, Close, Trying, ReadingInv
<1>4. /\ NumberedFrame(frame) /\ reading.cap \in Nat /\ judgedHere \in Nat /\ todo # <<>>
      /\ reading.direction.cons \subseteq DOMAIN frame.constraints
      /\ sourceRole = RoleKept
  BY <1>3 DEF ReadingInv
<1>5. /\ UNCHANGED <<reading, sourceRole, pass, roleStore, first>>
      /\ Moment' = After(now)'
      /\ \A key : key # KeyOf(now) => SameReply(key)
      /\ pass = "replay" \/ untried = <<>> => UNCHANGED judgeStore
  BY <1>1, <1>3, <1>4, MomentFollows
<1>6. /\ IsList(trail') /\ \A n \in DOMAIN trail' : Grounded(n)'
      /\ \A n \in DOMAIN trail : n \in DOMAIN trail' /\ trail'[n] = trail[n]
      /\ untried # <<>> =>
            \E n \in DOMAIN trail' : KeyOf(Moment) = <<trail'[n].slot, trail'[n].con>>
      /\ Untold => Untold'
      /\ judgedHere' \in Nat
      /\ stage' = (IF todo' = <<>> THEN "read" ELSE "slot")
  BY TrailKept
<1>7. RoleKept' = RoleKept /\ Start' = Start
  BY <1>5, StartKept
<1>8. (/\ NumberedFrame(frame) /\ reading.cap \in Nat
       /\ reading.direction.cons \subseteq DOMAIN frame.constraints)'
  BY <1>4, <1>5 DEF frame, NumberedFrame
<1>9. ASSUME pass = "live" PROVE Leads(Start, Moment)' /\ Untold'
  <2>1. Leads(Start, Moment) /\ Untold
    BY <1>3, <1>9 DEF ReadingInv
  <2>2. PICK begin : begin = Start /\ begin = Start'
    BY <1>7
  <2>3. ASSUME NEW key, NEW n \in DOMAIN trail, key = <<trail[n].slot, trail[n].con>>
        PROVE  SameReply(key)
    <3>1. CASE untried = <<>>
      BY <1>5, <3>1 DEF SameReply
    <3>2. CASE untried # <<>>
      <4>1. trail[n].slot = Head(todo) => trail[n].con # Head(untried)
        BY <1>4, <2>1, <3>2, UnrepeatedTail DEF Untold
      <4>2. key # KeyOf(now)
        BY <1>0, <2>3, <4>1 DEF KeyOf
      <4>. QED  BY <1>5, <4>2
    <3>. QED  BY <3>1, <3>2
  <2>4. Leads(begin, now)
    BY <1>1, <2>1, <2>2
  <2>5. now.untried # <<>> =>
            \E n \in DOMAIN next.trail : KeyOf(now) = <<next.trail[n].slot, next.trail[n].con>>
    BY <1>0, <1>1, <1>6
  <2>6. next = After(now)'
    BY <1>2, <1>5
  <2>7. Leads(begin, next)'
    <3>1. \A key : (\E n \in DOMAIN now.trail : key = <<now.trail[n].slot, now.trail[n].con>>)
                      => SameReply(key)
      BY <1>0, <2>3
    <3>2. \A n \in DOMAIN now.trail : n \in DOMAIN next.trail /\ next.trail[n] = now.trail[n]
      BY <1>0, <1>6
    <3>. QED  BY <1>0, <1>4, <1>5, <2>4, <2>5, <2>6, <3>1, <3>2, LeadsOn
  <2>. QED  BY <1>2, <1>6, <2>1, <2>2, <2>7
<1>10. ASSUME pass = "replay"
       PROVE  (\E last : /\ <<last.reason, last.bound, last.trail>> = first /\ last.todo = <<>>
                         /\ Leads(IF stage = "classify" THEN Start ELSE Moment, last))'
  <2>1. PICK last : /\ <<last.reason, last.bound, last.trail>> = first /\ last.todo = <<>>
                    /\ Leads(now, last)
    BY <1>1, <1>3, <1>10 DEF ReadingInv
  <2>2. PICK then : then = After(now)
    OBVIOUS
  <2>3. Leads(then, last)
    BY <1>0, <1>4, <2>1, <2>2, LeadsFromNext
  <2>4. After(now)' = After(now)
    BY <1>5, <1>10, AfterKept DEF SameReply
  <2>5. Leads(then, last)'
    BY <1>5, <1>10, <2>3, LeadsKept
  <2>6. then = Moment' /\ stage' # "classify"
    BY <1>5, <1>6, <2>2, <2>4
  <2>. QED  BY <1>5, <2>1, <2>5, <2>6
<1>. QED  BY <1>3, <1>4, <1>5, <1>6, <1>7, <1>8, <1>9, <1>10 DEF ReadingInv

(* A replay starts where the live reading did, and the path to its result  *)
(* is the one that the live reading took.                                  *)
LEMMA ReadingInvReplays == ASSUME ReadingInv, ReplayReading PROVE ReadingInv'
<1>1. /\ stage = "read" /\ pass = "live" /\ stage' = "classify" /\ pass' = "replay"
      /\ first' = <<reason, bound, trail>> /\ reason' = "" /\ bound' = {} /\ trail' = <<>>
      /\ UNCHANGED <<reading, sourceRole, todo, untried, judgedHere, stopCandidate, roleStore,
                     judgeStore>>
  BY DEF ReplayReading, Result
<1>2. /\ NumberedFrame(frame) /\ reading.cap \in Nat /\ judgedHere \in Nat /\ todo = <<>>
      /\ reading.direction.cons \subseteq DOMAIN frame.constraints
      /\ sourceRole = RoleKept /\ Leads(Start, Moment)
  BY <1>1 DEF ReadingInv
<1>3. (/\ NumberedFrame(frame) /\ reading.cap \in Nat
       /\ reading.direction.cons \subseteq DOMAIN frame.constraints)'
  BY <1>1, <1>2 DEF frame, NumberedFrame
<1>4. RoleKept' = RoleKept /\ Start' = Start
  BY <1>1, StartKept
<1>5. PICK last : last = Moment
  OBVIOUS
<1>6. PICK begin : begin = Start /\ begin = Start'
  BY <1>4
<1>7. Leads(begin, last)'
  BY <1>1, <1>2, <1>5, <1>6, LeadsKept
<1>8. <<last.reason, last.bound, last.trail>> = first' /\ last.todo = <<>>
  BY <1>1, <1>2, <1>5 DEF Moment
<1>. QED  BY <1>1, <1>2, <1>3, <1>4, <1>6, <1>7, <1>8, NothingKept DEF ReadingInv

(* Nothing else touches it.                                                *)
LEMMA ReadingInvKept == ASSUME ReadingInv, UNCHANGED readingVars PROVE ReadingInv'
<1>1. UNCHANGED <<stage, pass, reading, sourceRole, todo, untried, judgedHere, stopCandidate,
                  reason, bound, trail, roleStore, judgeStore, first>>
  BY DEF readingVars
<1>2. RoleKept' = RoleKept /\ Start' = Start
  BY <1>1, StartKept
<1>3. Moment' = Moment /\ NumberedFrame(frame)' = NumberedFrame(frame) /\ frame' = frame
  BY <1>1 DEF Moment, NumberedFrame, frame
<1>4. \A n : Grounded(n)' <=> Grounded(n)
  BY <1>1, PageDecides DEF Grounded
<1>5. Untold' <=> Untold
  BY <1>1 DEF Untold
<1>6. PICK begin, now : begin = Start /\ now = Moment /\ begin = Start' /\ now = Moment'
  BY <1>2, <1>3
<1>7. Leads(Start, Moment)' <=> Leads(Start, Moment)
  BY <1>1, <1>6, LeadsKept
<1>8. PICK m : m = (IF stage = "classify" THEN Start ELSE Moment)
               /\ m = (IF stage = "classify" THEN Start ELSE Moment)'
  BY <1>1, <1>2, <1>3
<1>9. \A last : Leads(m, last)' <=> Leads(m, last)
  BY <1>1, LeadsKept
<1>10. (\E last : /\ <<last.reason, last.bound, last.trail>> = first /\ last.todo = <<>>
                  /\ Leads(IF stage = "classify" THEN Start ELSE Moment, last))
       => (\E last : /\ <<last.reason, last.bound, last.trail>> = first /\ last.todo = <<>>
                     /\ Leads(IF stage = "classify" THEN Start ELSE Moment, last))'
  BY <1>1, <1>8, <1>9
<1>. QED  BY <1>1, <1>2, <1>3, <1>4, <1>5, <1>7, <1>10 DEF ReadingInv

(* ReadingInv holds throughout an attempt.                                 *)
THEOREM ReadingInvHolds == AttemptSpec => []ReadingInv
<1>1. AttemptInit => ReadingInv
  BY ReadingInvInit DEF AttemptInit
<1>2. ParserInv /\ ReadingInv /\ [AttemptNext]_attemptVars => ReadingInv'
  <2>. SUFFICES ASSUME ParserInv, ReadingInv, [AttemptNext]_attemptVars PROVE ReadingInv'
    OBVIOUS
  <2>1. CASE UNCHANGED readingVars
    BY <2>1, ReadingInvKept
  <2>2. CASE Reads
    BY <2>2, ReadingInvReads
  <2>3. CASE ReadingStep
    BY <2>3, ReadingInvClassify, ReadingInvSays, ReadingInvReplays DEF ReadingStep
  <2>. QED  BY <2>1, <2>2, <2>3 DEF AttemptNext, attemptVars
<1>. QED  BY <1>1, <1>2, ParserInvHolds, PTL DEF AttemptSpec

(* What an accepted candidate is said to support, the page can support,    *)
(* for every page, every entity and every reply of the model.              *)
THEOREM ReadSupportIsGrounded == AttemptSpec => []SupportIsGrounded
<1>1. ReadingInv => SupportIsGrounded
  BY DEF ReadingInv, Grounded, SupportIsGrounded
<1>. QED  BY <1>1, ReadingInvHolds, PTL

(* A replay without a model reads a result as the live reading did.        *)
THEOREM ReadingsReplay == AttemptSpec => []ReadingReplays
<1>1. ReadingInv => ReadingReplays
  <2>. SUFFICES ASSUME ReadingInv, stage = "read", pass = "replay" PROVE Result = first
    BY DEF ReadingReplays, ReadingDone
  <2>1. todo = <<>>
    BY DEF ReadingInv
  <2>2. PICK now : now = Moment
    OBVIOUS
  <2>3. PICK last : /\ <<last.reason, last.bound, last.trail>> = first /\ Leads(now, last)
    BY <2>2 DEF ReadingInv
  <2>4. now = last
    BY <2>1, <2>2, <2>3, LeadsNowhere DEF Moment
  <2>. QED  BY <2>2, <2>3, <2>4 DEF Moment, Result
<1>. QED  BY <1>1, ReadingInvHolds, PTL
=============================================================================
