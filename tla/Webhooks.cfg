CONSTANTS
  e1 = e1
  e2 = e2
  e3 = e3
  Events = {e1, e2}
  Types = {"wallet.created", "transfer.detected"}
  TypeOf <- TypesOf
  Override <- Overrides
  Undecryptable = {e2}
  Faults = {"refuse", "timeout", "db"}
  BatchLimit = 1
  MaxAttempts = 3
  MaxDelay = 2
  MaxChanges = 1
  MaxAborts = 1
SPECIFICATION FairSpec
INVARIANTS
  PostsAreCounted
PROPERTIES
  BackoffIsKept
  KeepsPromise
  EveryEventEnds
