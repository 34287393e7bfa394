----------------------------- MODULE MCTaskLoop -----------------------------
(* A question of two hops: who founded ("founder") the hotel ("hotel") that  *)
(* opened in a given year and city.                                          *)
EXTENDS TaskLoop

Latent_ == <<"hotel">>
DependsOn_ == [s \in {"founder", "hotel"} |-> IF s = "founder" THEN {"hotel"} ELSE {}]

Constraints_ == {"opened", "founded", "style"}
AppliesTo_ == [c \in Constraints_ |->
    IF c = "opened" THEN {"hotel"} ELSE IF c = "founded" THEN {"founder"}
    ELSE {"founder", "hotel"}]
Disc2_ == [c \in Constraints_ |->
    IF c = "opened" THEN 5 ELSE IF c = "founded" THEN 3 ELSE 1]
Priority_ == [c \in Constraints_ |-> IF c = "opened" THEN 2 ELSE 1]

\* No status but the default, and a reply that claims one blocking constraint is
\* resolved and gives the other a status the code does not know.
Unresolved == [c \in Constraints_ |-> "unresolved"]
GivenStatuses_ ==
    {Unresolved,
     [Unresolved EXCEPT !["founded"] = "resolved", !["opened"] = "other"]}

Texts_ == {"ritz", "plaza", "alice", "bob", "paris"}
TableSlots_ == [t \in Texts_ |->
    IF t \in {"ritz", "plaza"} THEN {"hotel"}
    ELSE IF t = "paris" THEN {} ELSE {"founder"}]
FrontierSlots_ == [t \in Texts_ |->
    IF t \in {"ritz", "plaza", "paris"} THEN {"hotel"} ELSE {"founder"}]

Catalogue_ == <<"p1", "p2", "p3", "p4", "p5">>
HostOf_ == [p \in ToSet(Catalogue_) |-> IF p \in {"p1", "p3"} THEN "a" ELSE p]

Content(texts, terms, anchored, corroborated, opposed, shape) ==
    [texts |-> texts, terms |-> terms, anchored |-> anchored,
     corroborated |-> corroborated, opposed |-> opposed, shape |-> shape]

Snippet_ == [p \in ToSet(Catalogue_) |->
    IF p = "p1" THEN Content(<<"ritz", "paris">>, {"opened"}, {"opened"}, {}, {}, FALSE)
    ELSE IF p = "p2" THEN Content(<<"plaza", "bob">>, {}, {"opened"}, {}, {}, TRUE)
    ELSE IF p = "p3" THEN Content(<<"plaza", "alice">>, {"founded"},
                                  {"founded"}, {"founded"}, {}, FALSE)
    ELSE IF p = "p4" THEN Content(<<"bob">>, Constraints_, Constraints_, {}, {}, TRUE)
    ELSE Content(<<"plaza">>, {}, {}, {}, {}, FALSE)]

Body_ == [p \in ToSet(Catalogue_) |->
    IF p = "p1" THEN Content(<<"ritz", "alice">>, Constraints_,
                             {"opened", "founded"}, {}, {}, TRUE)
    ELSE IF p = "p2" THEN Content(<<"plaza", "bob">>, {"founded"},
                                  {"founded"}, {}, {}, FALSE)
    ELSE IF p = "p3" THEN Content(<<"plaza">>, {}, {}, {}, {"opened"}, FALSE)
    ELSE Content(<<"alice">>, Constraints_, Constraints_, {}, {}, TRUE)]

\* p4 is a benchmark mirror, p5 a social page.
Results_ == {<<>>, <<"p1">>, <<"p2">>, <<"p3">>, <<"p3", "p4", "p5">>}

-----------------------------------------------------------------------------
(* What a model proposes: to search for the hotel or for its founder, alone *)
(* and among proposals that no gate lets through, with a word more, with a *)
(* fetch for a tool, and without an anchor but with a name; to read; to    *)
(* answer; and to give up.                                                 *)
Distinctive_ == Texts_ \union {"opened"}

Proposed(type, slot, cons, words) ==
    [type |-> type, slot |-> slot, cand |-> "none", byId |-> FALSE, hyp |-> 0,
     cons |-> cons, words |-> words, long |-> FALSE, tool |-> "search"]

Hotel == Proposed("search", "hotel", {"opened"}, {"opened", "hotel"})
Founder == [Proposed("search", "founder", {"founded"}, {"founded", "founder", "ritz"})
               EXCEPT !.cand = "ritz"]
Giving == Proposed("abstain", "none", {}, {})

Hopeless ==
    <<[Hotel EXCEPT !.type = "other"], [Hotel EXCEPT !.slot = "city"],
      [Hotel EXCEPT !.cons = {"size"}], [Hotel EXCEPT !.hyp = 9],
      [Hotel EXCEPT !.tool = "unknown"], [Hotel EXCEPT !.words = {"hotel", "founder"}],
      [Hotel EXCEPT !.cand = "bob"], Proposed("search", "none", {}, {"paris", "ritz"})>>

Replies_ ==
    {Hopeless \o <<Hotel, [Founder EXCEPT !.byId = TRUE]>>,
     <<Giving, [Hotel EXCEPT !.words = @ \union {"plaza"}]>>,
     <<[Founder EXCEPT !.cand = "none", !.tool = "fetch"]>>,
     <<Proposed("search", "founder", {}, {"alice", "founder"})>>,
     <<[Hotel EXCEPT !.long = TRUE]>>,
     <<Proposed("read", "hotel", {"opened"}, {"opened", "plaza"})>>,
     <<Proposed("answer", "founder", {"founded"}, {})>>,
     <<Giving>>, <<[Giving EXCEPT !.slot = "founder"]>>}
=============================================================================
