CONSTANTS
  a1 = a1
  a2 = a2
  a3 = a3
  o1 = o1
  o2 = o2
  Addresses = {a1, a2, a3}
  Callers = {o1, o2}
  MaxCalls = 4
  MaxAborts = 1
SPECIFICATION FairSpec
CHECK_DEADLOCK FALSE
INVARIANTS
  TypeOK
  DefaultIsChosen
PROPERTIES
  EveryCallEnds
