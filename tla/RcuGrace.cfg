SPECIFICATION FairSpec
CONSTANTS
  Readers = {r1}
  Writers = {w1, w2}
  Objects = {o1, o2}
  NULL = NULL
  NumWriters = 3
  IdMod = 3
  MaxDepth = 2
INVARIANTS IInv NoUseAfterFree FreedOnce NothingLeaked
PROPERTIES GracePeriodSpec GraceEnds
