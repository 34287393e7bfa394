SPECIFICATION FairSpec
CONSTANTS
  NoUrl = NoUrl
  NoCand = NoCand
  Urls = {u1, u2, u3}
  Hosts = {"site", u3}
  HostOf <- TwoSites
  Pages = {"site", u3}
  PageOf <- TwoSites
  SocialHosts = {u3}
  Cands = {a, b}
  Triples = {a, b}
  CandOf <- OwnCand
  Enabled = {"page_fetch", "firecrawl_scrape"}
  Budget = 4
  MaxObligations = 2
INVARIANTS TypeOK NoUnservedObligation
PROPERTIES TerminalStatusIsFinal Promised SettledIsFinal Termination
