CONSTANTS
  Readers = {r1}
  Writers = {w1, w2}
  Keys = {k1, k2, k3}
  k1 = k1
  k2 = k2
  k3 = k3
  Hash <- Hashes
  KeySize <- Sizes
  Cells = {c1, c2, c3}
  Tables = {m1, m2, m3}
  NULL = NULL
  NeighLen = 2
  DefaultLen = 1
  Configs <- Checked
  MaxCalls = 4
SPECIFICATION Spec
INVARIANT NothingLeaks
