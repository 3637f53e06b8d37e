------------------------------- MODULE QuicFlow -------------------------------
(***************************************************************************)
(* QUIC flow control (ssl/quic/quic_fc.c) between two endpoints of one     *)
(* connection: a sender with a TXFC per stream and one for the connection, *)
(* a receiver with the RXFCs, and the packets between them.  The receiver  *)
(* grants credit with MAX_DATA and MAX_STREAM_DATA frames, which its       *)
(* packetiser builds from the RXFCs (quic_txp.c) and its frame-in-flight   *)
(* dispatcher asks for again when a packet is lost (quic_fifd.c).          *)
(*                                                                         *)
(* Data frames may be received in any order, repeatedly or never; a packet *)
(* with credit is processed at most once, in any order, and may be lost or *)
(* arrive after it was declared lost.  Each endpoint handles a frame, an   *)
(* API call or a packet to send as one step (under the QUIC mutex).        *)
(***************************************************************************)
EXTENDS Integers, FiniteSets, Functions

CONSTANTS
  Streams,        \* streams the sender sends on, open from the start
  Conn,           \* names the connection-level controllers
  BackStreams,    \* those on which the receiver has a send buffer as well
  Size,           \* bound: how many bytes the application sends on a stream
  StreamWnd,      \* DEFAULT_INIT_STREAM_RXFC_WND
  ConnWnd,        \* DEFAULT_INIT_CONN_RXFC_WND
  WndMul,         \* the DEFAULT_*_RXFC_MAX_WND_MUL factors
  MayReset,       \* whether the sending application may reset its streams
  MaxPkts         \* bound: packets with credit under way at a time

ASSUME FlowAssumption ==
  /\ IsFiniteSet(Streams) /\ Conn \notin Streams /\ BackStreams \subseteq Streams
  /\ {Size, StreamWnd, ConnWnd, WndMul, MaxPkts} \subseteq Nat \ {0}
  /\ MayReset \in BOOLEAN

FCs == Streams \cup {Conn}
InitWnd == [f \in FCs |-> IF f = Conn THEN ConnWnd ELSE StreamWnd]
max_window_size == [f \in FCs |-> WndMul * InitWnd[f]]

VARIABLES         \* the sender
  txswm, txcwm,   \* TXFC: spent and credit watermarks
  send_state      \* the stream's send part: "SEND", "DATA_SENT", "RESET_SENT"
txVars == <<txswm, txcwm, send_state>>

VARIABLES         \* the receiver
  swm, cwm, rwm,  \* RXFC: spent, credit and retired watermarks
  hwm, is_fin,    \* RXFC: highest stream length seen, and whether it is final
  cur_window_size,
  has_cwm_changed,
  error_code,
  recv_state,     \* the stream's receive part
  rstream,        \* the bytes of the stream that have been received
  want_max        \* want_max_data and want_max_stream_data
rxVars == <<swm, cwm, rwm, hwm, is_fin, cur_window_size, has_cwm_changed,
            error_code, recv_state, rstream, want_max>>

VARIABLES
  frames,         \* STREAM and RESET_STREAM frames sent so far
  pkts,           \* packets with credit that are under way
  abandoned       \* history: streams for which a MAX_STREAM_DATA frame was
                  \*   lost and no other one asked for
vars == <<txVars, rxVars, frames, pkts, abandoned>>

\* A packet carries credit[f] as MAX_DATA or MAX_STREAM_DATA (0: no frame),
\* and TXPIM chunks for some streams the receiver sends on itself.
Packets == [credit : [FCs -> Nat], chunks : SUBSET BackStreams, lost : BOOLEAN]

RecvStates == {"RECV", "SIZE_KNOWN", "DATA_RECVD", "DATA_READ", "RESET_RECVD"}
Lesser(m, n) == IF m < n THEN m ELSE n
Greater(m, n) == IF m < n THEN n ELSE m

\* ossl_quic_rxfc_init, ossl_quic_txfc_init; the sender has the receiver's
\* transport parameters (bump_cwm with the initial windows).
Init ==
  /\ txswm = [f \in FCs |-> 0] /\ txcwm = InitWnd
  /\ send_state = [s \in Streams |-> "SEND"]
  /\ swm = [f \in FCs |-> 0] /\ cwm = InitWnd /\ rwm = [f \in FCs |-> 0]
  /\ hwm = [s \in Streams |-> 0] /\ is_fin = [f \in FCs |-> FALSE]
  /\ cur_window_size = InitWnd
  /\ has_cwm_changed = [f \in FCs |-> FALSE]
  /\ error_code = [f \in FCs |-> "NO_ERROR"]
  /\ recv_state = [s \in Streams |-> "RECV"]
  /\ rstream = [s \in Streams |-> {}]
  /\ want_max = [f \in FCs |-> FALSE]
  /\ frames = {} /\ pkts = {} /\ abandoned = {}

\* A flow control error of a stream makes the channel close the connection.
Open == \A s \in Streams : error_code[s] = "NO_ERROR"

-----------------------------------------------------------------------------
(* The sender.                                                             *)

\* ossl_quic_txfc_get_credit_local
credit_local(f) == txcwm[f] - txswm[f]

\* ossl_quic_txfc_consume_credit: new data is taken from the stream's credit
\* and from its parent's.
consume_credit(len) ==
  [f \in FCs |-> txswm[f] + IF f = Conn THEN SumFunctionOnSet(len, Streams) ELSE len[f]]

\* txp_generate_stream_frames: one frame per stream that has data to send; the
\* frame that ends a stream's data may carry the FIN.
stream_frames(len, fin) ==
  {[s |-> s, off |-> txswm[s], end |-> txswm[s] + len[s], fin |-> s \in fin, reset |-> FALSE] :
     s \in {t \in Streams : len[t] > 0}}

\* ossl_quic_stream_map_notify_all_data_sent
all_data_sent(done) == [s \in Streams |-> IF s \in done THEN "DATA_SENT" ELSE send_state[s]]

\* Fault: each stream is clamped by the connection's whole credit
\* (conn_consumed is not passed on).
SendDataEachAlone(len) ==
  /\ \E s \in Streams : len[s] > 0
  /\ \A s \in Streams : len[s] > 0 =>
       /\ send_state[s] = "SEND"
       /\ len[s] <= Lesser(Size - txswm[s], Lesser(credit_local(s), credit_local(Conn)))
  /\ txswm' = consume_credit(len)
  /\ frames' = frames \cup stream_frames(len, {})
  /\ UNCHANGED <<txcwm, send_state, rxVars, pkts, abandoned>>

\* The packetiser fills a packet with new data of one or more streams, each
\* clamped by its own credit and by what the streams before it in the packet
\* leave of the connection's (txp_plan_stream_chunk).
SendData(len) ==
  /\ \E s \in Streams : len[s] > 0
  /\ \A s \in Streams : len[s] > 0 =>
       /\ send_state[s] = "SEND"
       /\ len[s] <= Lesser(Size - txswm[s], credit_local(s))
  /\ SumFunctionOnSet(len, Streams) <= credit_local(Conn)
  /\ txswm' = consume_credit(len)
  /\ \E fin \in SUBSET {s \in Streams : len[s] > 0 /\ txswm'[s] = Size} :
       /\ frames' = frames \cup stream_frames(len, fin)
       /\ send_state' = all_data_sent(fin)
  /\ UNCHANGED <<txcwm, rxVars, pkts, abandoned>>

\* The application concludes a stream whose data has all been sent: the FIN
\* goes out in an empty frame, which needs no credit.
SendFin(s) ==
  /\ send_state[s] = "SEND"
  /\ txswm[s] = Size
  /\ frames' = frames \cup
       {[s |-> s, off |-> Size, end |-> Size, fin |-> TRUE, reset |-> FALSE]}
  /\ send_state' = all_data_sent({s})
  /\ UNCHANGED <<txswm, txcwm, rxVars, pkts, abandoned>>

\* txp_generate_stream_related: the RESET_STREAM frame, with what has been sent
\* as the final size.
reset_frame(s) == [s |-> s, off |-> 0, end |-> txswm[s], fin |-> TRUE, reset |-> TRUE]

\* ossl_quic_stream_map_reset_stream_send_part
ResetStream(s) ==
  /\ MayReset
  /\ send_state[s] \in {"SEND", "DATA_SENT"}
  /\ frames' = frames \cup {reset_frame(s)}
  /\ send_state' = [send_state EXCEPT ![s] = "RESET_SENT"]
  /\ UNCHANGED <<txswm, txcwm, rxVars, pkts, abandoned>>

\* ossl_quic_txfc_bump_cwm
bump_cwm(f, c) == Greater(txcwm[f], c)

\* The sender processes a packet's MAX_DATA and MAX_STREAM_DATA frames.
RecvMax(p) ==
  /\ txcwm' = [f \in FCs |-> bump_cwm(f, p.credit[f])]
  /\ pkts' = pkts \ {p}
  /\ UNCHANGED <<txswm, send_state, rxVars, frames, abandoned>>

-----------------------------------------------------------------------------
(* The receiver: incoming data.                                            *)

\* Fault: once the size is known every other frame end is an error.
FinalSizeErrorStrict(s, end, fin) == (is_fin[s] /\ hwm[s] # end) \/ (fin /\ end < hwm[s])

\* ossl_quic_rxfc_on_rx_stream_frame, its first test and its last.
FinalSizeError(s, end, fin) ==
  \/ is_fin[s] /\ ((fin /\ hwm[s] # end) \/ end > hwm[s])
  \/ fin /\ end < hwm[s]

\* Fault: the parent is not charged.
ChargeStreamOnly(s, delta) ==
  /\ swm' = [swm EXCEPT ![s] = @ + Lesser(delta, cwm[s] - @)]
  /\ error_code' = [error_code EXCEPT ![s] =
       IF delta > cwm[s] - swm[s] THEN "FLOW_CONTROL_ERROR" ELSE @]

\* on_rx_controlled_bytes, for the stream and then for its parent; data past
\* the credit is counted only up to it.
Charge(s, delta) ==
  LET charged == {s, Conn}
      credit(f) == cwm[f] - swm[f]
  IN  /\ swm' = [f \in FCs |-> IF f \in charged THEN swm[f] + Lesser(delta, credit(f))
                               ELSE swm[f]]
      /\ error_code' = [f \in FCs |-> IF f \in charged /\ delta > credit(f)
                                      THEN "FLOW_CONTROL_ERROR" ELSE error_code[f]]

OnRxStreamFrame(s, end, fin) ==
  /\ is_fin' = [is_fin EXCEPT ![s] = @ \/ fin]
  /\ IF FinalSizeError(s, end, fin)
     THEN /\ error_code' = [error_code EXCEPT ![s] = "FINAL_SIZE_ERROR"]
          /\ UNCHANGED <<hwm, swm>>
     ELSE /\ hwm' = [hwm EXCEPT ![s] = Greater(@, end)]
          /\ Charge(s, Greater(end - hwm[s], 0))

\* The receive part once bytes are there: notify_size_known_recv_part on a FIN,
\* notify_totally_received when nothing up to the final size is missing.
received(s, fin, bytes, size) ==
  LET known == fin \/ recv_state[s] = "SIZE_KNOWN"
  IN  IF known /\ bytes = 0 .. size - 1 THEN "DATA_RECVD"
      ELSE IF known THEN "SIZE_KNOWN" ELSE "RECV"

\* depack_do_frame_stream: the flow controllers first, then the state of the
\* receive part and the receive buffer.
RecvStream(f) ==
  /\ ~f.reset
  /\ OnRxStreamFrame(f.s, f.end, f.fin)
  /\ IF error_code'[f.s] # "NO_ERROR" \/ recv_state[f.s] \notin {"RECV", "SIZE_KNOWN"}
     THEN UNCHANGED <<rstream, recv_state>>
     ELSE LET bytes == rstream[f.s] \cup (f.off .. f.end - 1)
          IN  /\ rstream' = [rstream EXCEPT ![f.s] = bytes]
              /\ recv_state' = [recv_state EXCEPT ![f.s] =
                   received(f.s, f.fin, bytes, hwm'[f.s])]
  /\ UNCHANGED <<txVars, frames, pkts, abandoned, cwm, rwm, cur_window_size,
                 has_cwm_changed, want_max>>

\* ossl_quic_stream_map_notify_reset_recv_part: the receive buffer is thrown
\* away, unless it was read to its end or reset before.
reset_recv_part(s) ==
  IF recv_state[s] \in {"DATA_READ", "RESET_RECVD"} THEN UNCHANGED <<rstream, recv_state>>
  ELSE /\ rstream' = [rstream EXCEPT ![s] = {}]
       /\ recv_state' = [recv_state EXCEPT ![s] = "RESET_RECVD"]

\* depack_do_frame_reset_stream: the final size is charged like data.
RecvReset(f) ==
  /\ f.reset
  /\ OnRxStreamFrame(f.s, f.end, TRUE)
  /\ IF error_code'[f.s] # "NO_ERROR" THEN UNCHANGED <<rstream, recv_state>>
     ELSE reset_recv_part(f.s)
  /\ UNCHANGED <<txVars, frames, pkts, abandoned, cwm, rwm, cur_window_size,
                 has_cwm_changed, want_max>>

-----------------------------------------------------------------------------
(* The receiver: reading, and granting credit.                             *)

\* Fault: less than three quarters must be left.
BumpDesiredLess(f, r) == ~is_fin[f] /\ cwm[f] - r < (cur_window_size[f] * 3) \div 4

\* rxfc_cwm_bump_desired, with r bytes retired: three quarters of the window
\* or less are left.
bump_desired(f, r) == ~is_fin[f] /\ cwm[f] - r <= (cur_window_size[f] * 3) \div 4

\* Fault: the maximum window is not applied.
AdjustedUncapped(f, min_size, dbl) ==
  Greater(IF dbl THEN 2 * cur_window_size[f] ELSE cur_window_size[f], min_size)

\* rxfc_adjust_window_size; dbl is rxfc_should_bump_window_size, which depends
\* on the clock and the round-trip time and may come out either way.
adjusted(f, min_size, dbl) ==
  Lesser(Greater(IF dbl THEN 2 * cur_window_size[f] ELSE cur_window_size[f], min_size),
         max_window_size[f])

\* quic_validate_for_read
readable(s) == recv_state[s] \in {"RECV", "SIZE_KNOWN", "DATA_RECVD"}

\* ossl_quic_rstream_read: the next n bytes of the stream have been received.
available(s, n) == rwm[s] .. rwm[s] + n - 1 \subseteq rstream[s]

\* ossl_quic_stream_map_notify_totally_read, when the read gets to the FIN.
totally_read(s, r) == IF recv_state[s] = "DATA_RECVD" /\ r = hwm[s] THEN "DATA_READ"
                      ELSE recv_state[s]

\* quic_read_actual retires n bytes of stream s: rxfc_on_retire for the stream
\* and then for its parent, whose window is to be no smaller than the stream's.
\* (Its test that no more is retired than was received never fails, as
\* BufferBounded shows.)
Read(s, n, dbl) ==
  LET r == [f \in FCs |-> IF f \in {s, Conn} THEN rwm[f] + n ELSE rwm[f]]
      bump == {f \in {s, Conn} : bump_desired(f, r[f])}
      stream_wnd == IF s \in bump THEN adjusted(s, 0, s \in dbl) ELSE cur_window_size[s]
      wnd == [f \in FCs |->
                IF f \notin bump THEN cur_window_size[f]
                ELSE IF f = s THEN stream_wnd ELSE adjusted(Conn, stream_wnd, Conn \in dbl)]
      raised == {f \in bump : r[f] + wnd[f] > cwm[f]}
  IN  /\ readable(s) /\ available(s, n)
      /\ rwm' = r
      /\ cur_window_size' = wnd
      /\ cwm' = [f \in FCs |-> IF f \in raised THEN r[f] + wnd[f] ELSE cwm[f]]
      /\ has_cwm_changed' = [f \in FCs |-> has_cwm_changed[f] \/ f \in raised]
      /\ recv_state' = [recv_state EXCEPT ![s] = totally_read(s, r[s])]
      /\ UNCHANGED <<txVars, frames, pkts, abandoned, swm, hwm, is_fin, error_code,
                     rstream, want_max>>

\* quic_read_actual finds the end of the stream and no more data.
ReadFin(s) ==
  /\ recv_state[s] = "DATA_RECVD"
  /\ rwm[s] = hwm[s]
  /\ recv_state' = [recv_state EXCEPT ![s] = "DATA_READ"]
  /\ UNCHANGED <<txVars, frames, pkts, abandoned, swm, cwm, rwm, hwm, is_fin,
                 cur_window_size, has_cwm_changed, error_code, rstream, want_max>>

\* The streams for which the packetiser generates MAX_STREAM_DATA, and the
\* connection if it generates MAX_DATA.
want_max_stream_data ==
  {s \in Streams : recv_state[s] = "RECV" /\ (want_max[s] \/ has_cwm_changed[s])}
want_max_data == {f \in {Conn} : want_max[f] \/ has_cwm_changed[f]}
Wanted == want_max_stream_data \cup want_max_data

\* The receiver sends a packet with the present credit of every controller
\* that wants to send it, and perhaps data on streams of its own.
SendMax(chunks) ==
  /\ Wanted # {}
  /\ Cardinality(pkts) < MaxPkts
  /\ pkts' = pkts \cup
       {[credit |-> [f \in FCs |-> IF f \in Wanted THEN cwm[f] ELSE 0],
         chunks |-> chunks, lost |-> FALSE]}
  /\ want_max' = [f \in FCs |-> want_max[f] /\ f \notin Wanted]
  /\ has_cwm_changed' = [f \in FCs |-> has_cwm_changed[f] /\ f \notin Wanted]
  /\ UNCHANGED <<txVars, frames, abandoned, swm, cwm, rwm, hwm, is_fin,
                 cur_window_size, error_code, recv_state, rstream>>

\* on_regen_notify: the packetiser is to send these controllers' credit again.
regen_frame(regen) == want_max' = [f \in FCs |-> want_max[f] \/ f \in regen]

\* on_lost of quic_fifd.c: MAX_DATA is asked for again if the packet had one,
\* MAX_STREAM_DATA for the streams the packet has chunks of.  The packet may
\* still arrive.
PacketLost(p) ==
  LET regen == p.chunks \cup {f \in {Conn} : p.credit[f] # 0}
  IN  /\ ~p.lost
      /\ regen_frame(regen)
      /\ abandoned' = abandoned \cup {s \in Streams \ regen : p.credit[s] # 0}
      /\ \E late \in {{}, {[p EXCEPT !.lost = TRUE]}} : pkts' = (pkts \ {p}) \cup late
      /\ UNCHANGED <<txVars, frames, swm, cwm, rwm, hwm, is_fin, cur_window_size,
                     has_cwm_changed, error_code, recv_state, rstream>>

-----------------------------------------------------------------------------
Next ==
  /\ Open
  /\ \/ \E len \in [Streams -> 0 .. Size] : SendData(len)
     \/ \E s \in Streams : SendFin(s) \/ ResetStream(s)
     \/ \E p \in pkts : RecvMax(p) \/ PacketLost(p)
     \/ \E f \in frames : RecvStream(f) \/ RecvReset(f)
     \/ \E s \in Streams :
          \/ \E n \in 1 .. Size, dbl \in SUBSET {s, Conn} : Read(s, n, dbl)
          \/ ReadFin(s)
     \/ \E chunks \in SUBSET BackStreams : SendMax(chunks)

Spec == Init /\ [][Next]_vars

\* The sender sends what it may, its data arrives in the end (it is sent again
\* until acknowledged), the receiving application reads and the receiver sends
\* credit; every packet with credit arrives or is declared lost, and credit
\* that is sent again and again arrives.
FairSpec ==
  /\ Spec
  /\ WF_vars(Open /\ \E len \in [Streams -> 0 .. Size] : SendData(len))
  /\ \A s \in Streams :
       /\ WF_vars(Open /\ \E f \in frames : /\ f.s = s
                                            /\ ~(f.off .. f.end - 1 \subseteq rstream[s])
                                            /\ RecvStream(f))
       /\ WF_vars(Open /\ \E n \in 1 .. Size, dbl \in SUBSET {s, Conn} : Read(s, n, dbl))
  /\ WF_vars(Open /\ \E chunks \in SUBSET BackStreams : SendMax(chunks))
  /\ WF_vars(Open /\ \E p \in pkts : RecvMax(p) \/ PacketLost(p))
  /\ \A f \in FCs : SF_vars(Open /\ \E p \in pkts : p.credit[f] # 0 /\ RecvMax(p))

-----------------------------------------------------------------------------
(* Properties.                                                             *)

\* The values the variables range over.
TypeOK ==
  /\ {txswm, txcwm, swm, cwm, rwm, cur_window_size} \subseteq [FCs -> Nat]
  /\ send_state \in [Streams -> {"SEND", "DATA_SENT", "RESET_SENT"}]
  /\ hwm \in [Streams -> 0 .. Size]
  /\ {is_fin, has_cwm_changed, want_max} \subseteq [FCs -> BOOLEAN]
  /\ error_code \in [FCs -> {"NO_ERROR", "FLOW_CONTROL_ERROR", "FINAL_SIZE_ERROR"}]
  /\ recv_state \in [Streams -> RecvStates]
  /\ rstream \in [Streams -> SUBSET (0 .. Size - 1)]
  /\ pkts \subseteq Packets /\ abandoned \subseteq Streams

\* A receiver never closes the connection of a sender that obeys its own flow
\* controllers, whatever the network does to the order of data, FINs, resets
\* and credit: no error is found in any of them, and the final size it takes
\* down is the length the sender's stream really has.
NoFlowError ==
  /\ \A f \in FCs : error_code[f] = "NO_ERROR"
  /\ \A s \in Streams : is_fin[s] => hwm[s] = txswm[s]

\* The sender spends no more than it was granted (the assertion in
\* ossl_quic_txfc_get_credit_local) and knows of no more than was granted, and
\* the receiver counts no more than was sent.
WithinCredit ==
  \A f \in FCs : swm[f] <= txswm[f] /\ txswm[f] <= txcwm[f] /\ txcwm[f] <= cwm[f]

\* The connection's controllers count each byte of each stream once, however
\* often its data arrives and whichever streams share a packet.
ConnIsSum ==
  \A wm \in {txswm, swm, rwm} : wm[Conn] = SumFunctionOnSet(wm, Streams)

\* The receiver never lets the sender run further ahead of what the application
\* has read than the largest window, which bounds what it has to buffer.
BufferBounded == \A f \in FCs : rwm[f] <= swm[f] /\ cwm[f] - rwm[f] <= max_window_size[f]

Ended(f) == f # Conn /\ recv_state[f] # "RECV"
CreditArrives(f) ==
  \A c \in 1 .. Size + WndMul * InitWnd[f] : cwm[f] >= c ~> (txcwm[f] >= c \/ Ended(f))

\* All data is read in the end: neither window closes for good while the
\* application reads, whatever is lost, except for a stream whose credit frame
\* is lost and not sent again.
AllRead == \A s \in Streams : <>(rwm[s] = Size \/ s \in abandoned)

\* "MAX_STREAM_DATA REGEN" (quic-fifm.md): like MAX_DATA it is generated again
\* when a packet containing it is lost, so that the credit reaches the sender
\* unless the stream is ended first.
StreamCreditArrives == \A s \in Streams : CreditArrives(s)
=============================================================================
