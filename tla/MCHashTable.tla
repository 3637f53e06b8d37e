---------------------------- MODULE MCHashTable ----------------------------
EXTENDS HashTable, TLC
CONSTANTS k1, k2, k3
\* k1 and k2 collide; k3 shares their neighborhood until there are four.
Hashes == k1 :> 1 @@ k2 :> 1 @@ k3 :> 3
Sizes == k1 :> 1 @@ k2 :> 1 @@ k3 :> 1
TwoSizes == k1 :> 1 @@ k2 :> 2 @@ k3 :> 1
Config(l, c, n) == [lockless_reads |-> l, collision_check |-> c,
                    init_neighborhoods |-> n]
\* The hash table tests' and the namemap's, and one that fills up.
Checked == {Config(FALSE, TRUE, 2), Config(TRUE, TRUE, 2), Config(TRUE, TRUE, 1)}
\* A table whose users rule collisions out; not that of any run.
Unchecked == {Config(FALSE, FALSE, 2)}
Symmetry == Permutations(Writers) \cup Permutations({k1, k2})
=============================================================================
