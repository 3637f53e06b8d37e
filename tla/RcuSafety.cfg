SPECIFICATION Spec
CONSTANTS
  Readers = {r1, r2}
  Writers = {w1, w2}
  Objects = {o1, o2, o3}
  NULL = NULL
  NumWriters = 3
  IdMod = 3
  MaxDepth = 1
SYMMETRY Symmetry
INVARIANTS IInv NoUseAfterFree FreedOnce NothingLeaked
PROPERTY GracePeriodSpec
