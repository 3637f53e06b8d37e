----------------------------- MODULE MCQuicAckm -----------------------------
EXTENDS QuicAckm, TLC

Per(i, h, a) == (INITIAL :> i) @@ (HANDSHAKE :> h) @@ (APP :> a)
Case(sent, got, time, is_server, wnd, batch) ==
  [tx |-> sent, rx |-> got, time |-> time, is_server |-> is_server, init_wnd |-> wnd, batch |-> batch]
Delays == {1, 2}

\* A client and a server in their handshake, with and without congestion
\* window to spare, then 1-RTT packets: sent and lost, received with gaps.
AllCases ==
  {Case(Per(2, 1, 0), Per({0}, {0}, {}), 3, FALSE, 1, 1),
   Case(Per(2, 1, 0), Per({0, 1}, {0}, {}), 2, FALSE, 4, 1),
   Case(Per(1, 1, 0), Per({0}, {0}, {}), 2, FALSE, 1, 2),
   Case(Per(1, 1, 1), Per({0}, {0}, {0}), 2, FALSE, 4, 1),
   Case(Per(1, 1, 1), Per({0}, {0, 1}, {0}), 2, TRUE, 2, 1),
   Case(Per(1, 1, 0), Per({0, 1}, {0}, {}), 2, TRUE, 1, 2),
   Case(Per(0, 0, 3), Per({}, {0}, {0, 1}), 3, TRUE, 2, 1),
   Case(Per(0, 0, 3), Per({}, {0}, {0}), 4, TRUE, 4, 1),
   Case(Per(0, 0, 4), Per({}, {0}, {0}), 3, TRUE, 4, 1),
   Case(Per(0, 0, 1), Per({}, {0}, {0, 2, 4}), 2, TRUE, 4, 2),
   Case(Per(0, 0, 2), Per({}, {0}, {0, 2, 4}), 2, TRUE, 4, 1)}
=============================================================================
