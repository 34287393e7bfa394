SPECIFICATION AttemptSpec
CONSTANTS
  MaxQueries = 6
  Questions <- SomeQuestions
  Flags <- SomeFlags
  QueryModes = {"learned"}
  Cands = {1, 2, 3}
  Spans = {1}
  Within <- OneNamesAnother
  RoleOf <- SomeRoles
  Broad = {2}
  Worded = {3}
  Merits = {10, 40}
  MaxLevel = 1
  BeamSize = 2
  TopK = 2
  MaxFails = 2
  StickyPenalty = 20
  ProgressBonus = 10
  Budget = 5
  Schedule <- TheSchedule
  Replies <- SomeReplies
  MaxResumes = 1
  Results <- SomeResults
  Directions <- SomeDirections
  RoleReplies = {"article", "benchmark_contaminated", "nonsense"}
  JudgeReplies <- SomeJudgments
  Caps = {2}
INVARIANTS
  FailureIsEarned
  MovesOn
  OnlyBareRepeats
  FrameIsWellFormed
  FrameReplays
  SupportIsGrounded
  ReadingReplays
