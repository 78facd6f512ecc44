SPECIFICATION FairSpec
CONSTANTS
  p1 = p1
  p2 = p2
  j1 = j1
  j2 = j2
  t = t
  NoOne = NoOne
  Calls <- MCCalls
  Kind <- MCKind
  Parent <- MCParent
  Conns = {c1, c2}
  MaxFaults = 3
INVARIANTS PoolIsSound AppliedAsAnswered
PROPERTY EveryoneAnswered
\* Every call is made once: the process rests when all are answered.
CHECK_DEADLOCK FALSE
