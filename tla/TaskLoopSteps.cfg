SPECIFICATION Spec
CONSTANTS
    Target = "founder"
    Latent <- Latent_
    DependsOn <- DependsOn_
    AnswerShaped = {"founder"}
    Constraints <- Constraints_
    AppliesTo <- AppliesTo_
    Disc2 <- Disc2_
    Priority <- Priority_
    Shape = {}
    Flagged = {"founded"}
    Emitted = {}
    Comparative = {"style"}
    GivenStatuses <- GivenStatuses_
    Texts <- Texts_
    Known = {"paris"}
    TableSlots <- TableSlots_
    FrontierSlots <- FrontierSlots_
    Catalogue <- Catalogue_
    HostOf <- HostOf_
    Snippet <- Snippet_
    Body <- Body_
    Dirty = {"p4"}
    Social = {"p5"}
    HighValue = {"p1"}
    Drivers = {"planner", "controller", "llm", "repair"}
    Budget = 4
    Results <- Results_
    Replies <- Replies_
    Distinctive <- Distinctive_
INVARIANTS
    TypeOK
    SupportIsSourced
    ResolvedByEvidence
    AnswerIsEvidenced
    RejectionIsEarned
    AnswerIsFresh
    ReadOnce
    NoWornQuery
