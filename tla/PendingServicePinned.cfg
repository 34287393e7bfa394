SPECIFICATION Spec
CONSTANTS
  NoUrl = NoUrl
  NoCand = NoCand
  Urls = {u1, u2}
  Hosts = {u1, u2}
  HostOf <- OwnSite
  Pages = {u1, u2}
  PageOf <- OwnSite
  SocialHosts = {}
  Cands = {a}
  Triples = {a}
  CandOf <- OwnCand
  Enabled = {"page_fetch", "firecrawl_scrape"}
  Budget = 3
  MaxObligations = 2
PROPERTIES PinnedToAskedPage
