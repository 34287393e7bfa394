SPECIFICATION CheckSpec
CONSTANTS
  Nothing = Nothing
  Urls = {u1, u2}
  HostOf <- OneHost
  Cons = {c1}
  Texts = {thin, full, dirty}
  Length <- Lengths
  Thin = {thin}
  Dirty = {dirty}
  Verdicts = {"full_support", "irrelevant"}
  MaxAttempts = 2
  MaxObligations = 1
  MaxReads = 2
  MaxFaults = 0
  Caps = {1}
  MaxPasses = 1
INVARIANTS
  MissingOnlyIfLost
  VerifiedTextIsClean
