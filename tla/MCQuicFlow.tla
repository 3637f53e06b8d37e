------------------------------ MODULE MCQuicFlow ------------------------------
(* Instances of QUIC flow control for TLC.                                 *)
EXTENDS QuicFlow, TLC

\* Streams are interchangeable (safety runs only).
Symmetry == Permutations(Streams)
=============================================================================
