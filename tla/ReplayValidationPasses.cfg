SPECIFICATION CheckSpec
CONSTANTS
  Nothing = Nothing
  Urls = {u1, u2}
  HostOf <- OneHost
  Cons = {c1}
  Texts = {thin, full}
  Length <- Lengths
  Thin = {thin}
  Dirty = {}
  Verdicts = {"full_support", "irrelevant"}
  MaxAttempts = 1
  MaxObligations = 2
  MaxReads = 2
  MaxFaults = 1
  Caps = {1}
  MaxPasses = 2
INVARIANTS
  AgreesWithRun
  ConsistentOffline
PROPERTIES
  SecondPassAgrees
