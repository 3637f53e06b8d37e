SPECIFICATION FairSpec
CONSTANTS
  Readers = {r1}
  Writers = {w1, w2, w3}
  Objects = {o1}
  NULL = NULL
  NumWriters = 1
  IdMod = 2
  MaxDepth = 2
INVARIANT ReadersNotWaitedOn
PROPERTY NoneLeftAsleep
