----------------------------- MODULE MCQuicReactor -----------------------------
(* Instances of the QUIC reactor for TLC.                                  *)
EXTENDS QuicReactor, TLC

CONSTANTS o1, o2, r1

\* One domain.
OneDomain == o1 :> r1 @@ o2 :> r1
Lists == {<<o1, o2>>}
=============================================================================
