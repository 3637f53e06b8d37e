-------------------------------- MODULE MCRcu --------------------------------
(* Instances of the RCU lock for TLC.                                      *)
EXTENDS RcuInv, TLC

\* Threads and memory cells are interchangeable (safety runs only).
Symmetry == Permutations(Readers) \cup Permutations(Writers)
              \cup Permutations(Objects)
=============================================================================
