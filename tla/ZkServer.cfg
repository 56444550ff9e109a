\* The process stays off when its starts are used up.
CONSTANTS
  c1 = c1
  c2 = c2
  p1 = p1
  Calls = {c1, c2}
  Probes = {p1}
  Requests <- Kinds
  Workers = 2
  Faults = {"setup", "bind", "accept"}
  Scraped = {"verified", "failed"}
  MaxBoots = 2
SPECIFICATION FairSpec
CHECK_DEADLOCK FALSE
INVARIANTS
  IInv
  AnswersAreCounted
  ScrapeCoherent
PROPERTIES
  HalfServiceExits
  EveryCallEnds
  ImplementsPromise
