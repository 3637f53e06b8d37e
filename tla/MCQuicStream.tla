---------------------------- MODULE MCQuicStream ----------------------------
(* Instances of QuicStream for TLC; see the configurations. *)
EXTENDS QuicStream, TLC
=============================================================================
