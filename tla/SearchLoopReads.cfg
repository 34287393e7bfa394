SPECIFICATION Spec
CONSTANTS
  t = t
  s = s
  d = d
  o = o
  NoUrl = NoUrl
  Urls = {t, s, d, o}
  Pages = {t, s, o}
  PageOf <- SamePage
  Hosts = {t, s}
  HostOf <- SharedHost
  Fetchable = {t}
  Signal = {s}
  Structured = {s}
  Short = {d, o}
  Refused = {}
  StopModes = {"always_full", "first_candidate", "learned"}
  StopThreshold = 12
  Budget = 5
INVARIANTS TypeOK TextReadOnce RetryIsNext StopIsEarned
