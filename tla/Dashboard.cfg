CONSTANTS
  c1 = c1
  c2 = c2
  c3 = c3
  p1 = p1
  Calls = {c1, c2, c3}
  Clicks = {c1, c2}
  Pages = {p1}
  MaxSessions = 2
  MaxMisses = 1
  ListLimit = 2
  Faults = {"refused", "lost", "insert", "connection", "crash", "worker"}
  MaxFaults = 1
  MaxKeys = 1
SPECIFICATION FairSpec
CHECK_DEADLOCK FALSE
INVARIANTS
  RowsTellTheChain
  AnswersAreTrue
  ScreenShowsSubmitted
PROPERTIES
  SessionIsKept
  MinedIsResolved
