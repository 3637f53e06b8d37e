------------------------------ MODULE QuicStream ------------------------------
(***************************************************************************)
(* The streams of one QUIC endpoint: the stream map with the states of the *)
(* streams' send and receive parts, its list of active streams and its     *)
(* garbage collection (quic_stream_map.c), the send buffers                *)
(* (quic_sstream.c), the frames the packetiser takes from active streams   *)
(* (quic_txp.c), what becomes of them when a packet is acknowledged or     *)
(* lost (quic_fifd.c), the peer's frames (quic_rx_depack.c) and the calls  *)
(* of the application (quic_impl.c).                                       *)
(*                                                                         *)
(* Each call, frame, packet and acknowledgement is one step, under the     *)
(* QUIC mutex.  The operators on the map are named for the C functions;    *)
(* they take the map m and return it changed.  The peer obeys the protocol *)
(* and streams have been created within their limits (QuicFlow deals with  *)
(* flow control errors).  What is received is not modelled byte by byte:   *)
(* a frame may or may not bring bytes that can be read, or complete the    *)
(* data; a read may or may not use enough up for the window to open.       *)
(***************************************************************************)
EXTENDS Integers, FiniteSets, FiniteSetsExt, Functions, SequencesExt

CONSTANTS
  Senders,        \* streams with a send part
  Receivers,      \* streams with a receive part
  NoStream,       \* a null pointer
  Size,           \* bound: how many bytes the application writes to a stream
  StreamCredit,   \* the initial credit of a stream
  ConnCredit,     \* the initial credit of the connection
  MayReset,       \* streams that the application and the peer abort
  MaxPkts         \* bound: packets with chunks in flight at a time

Streams == Senders \cup Receivers

ASSUME StreamAssumption ==
  /\ IsFiniteSet(Streams) /\ NoStream \notin Streams
  /\ {Size, MaxPkts} \subseteq Nat \ {0} /\ {StreamCredit, ConnCredit} \subseteq Nat
  /\ MayReset \subseteq Streams

VARIABLES
  qsm,            \* the stream map
  shutting_down,  \* the application has called SSL_shutdown
  pkts            \* the TXPIM chunks of the packets in flight
vars == <<qsm, shutting_down, pkts>>

NoFinalSize == -1 \* UINT64_MAX

SendStates == {"NONE", "READY", "SEND", "DATA_SENT", "DATA_RECVD", "RESET_SENT", "RESET_RECVD"}
RecvStates == {"NONE", "RECV", "SIZE_KNOWN", "DATA_RECVD", "DATA_READ", "RESET_RECVD", "RESET_READ"}
Flags == {"want_max_stream_data", "cwm_changed", "stop_sending", "want_stop_sending",
          "acked_stop_sending", "peer_stop_sending", "want_reset_stream", "deleted",
          "ready_for_gc", "shutdown_flush"}

\* A send buffer: its size, the bytes to be sent, the bytes acknowledged, and
\* have_final_size, sent_final_size and acked_final_size.  The rest is in flight.
sstream_new == [head |-> 0, new |-> {}, acked |-> {}, fin |-> {}]

\* ossl_quic_stream_map_alloc and ch_init_new_stream
stream_alloc(s) ==
  [send_state |-> IF s \in Senders THEN "READY" ELSE "NONE",
   recv_state |-> IF s \in Receivers THEN "RECV" ELSE "NONE",
   sstream |-> sstream_new, send_final_size |-> NoFinalSize,
   swm |-> 0, cwm |-> IF s \in Senders THEN StreamCredit ELSE 0,
   avail |-> FALSE, flags |-> {}, \* avail: there are bytes to read
   missed |-> FALSE] \* history: see FinMissed

Init ==
  /\ qsm = [map |-> [s \in Streams |-> stream_alloc(s)], conn_swm |-> 0, conn_cwm |-> ConnCredit,
            active_list |-> <<>>, rr_cur |-> NoStream,
            ready_for_gc_list |-> <<>>, num_shutdown_flush |-> 0]
  /\ shutting_down = FALSE
  /\ pkts = {}

-----------------------------------------------------------------------------
(* The send buffer.                                                        *)

has_send_buffer(q) == q.send_state \in {"READY", "SEND", "DATA_SENT"}
has_final_size(q) == "have" \in q.sstream.fin

\* ossl_quic_sstream_has_pending
has_pending(q) == q.sstream.new # {} \/ q.sstream.fin = {"have"}

\* ossl_quic_sstream_is_totally_acked
is_totally_acked(q) ==
  /\ has_final_size(q) => "acked" \in q.sstream.fin
  /\ q.sstream.acked = 0 .. q.sstream.head - 1

\* ossl_quic_sstream_mark_transmitted and mark_transmitted_fin
mark_transmitted(q, data, fin) ==
  [q EXCEPT !.sstream.new = @ \ data,
            !.sstream.fin = IF fin THEN @ \cup {"sent"} ELSE @]

\* ossl_quic_sstream_mark_acked and mark_acked_fin
mark_acked(q, data, fin) ==
  [q EXCEPT !.sstream.acked = @ \cup data,
            !.sstream.fin = IF fin THEN @ \cup {"acked"} ELSE @]

\* Fault: the bytes are not marked as new again.
MarkLostFinOnly(q, data, fin) ==
  [q EXCEPT !.sstream.fin = IF fin /\ "acked" \notin @ THEN @ \ {"sent"} ELSE @]

\* Fault: the FIN is not marked as unsent again.
MarkLostDataOnly(q, data, fin) == [q EXCEPT !.sstream.new = @ \cup data]

\* ossl_quic_sstream_mark_lost and mark_lost_fin
mark_lost(q, data, fin) ==
  [q EXCEPT !.sstream.new = @ \cup data,
            !.sstream.fin = IF fin /\ "acked" \notin @ THEN @ \ {"sent"} ELSE @]

-----------------------------------------------------------------------------
(* The stream map.                                                         *)

Set(m, s, q) == [m EXCEPT !.map[s] = q]
Has(m, s, flag) == flag \in m.map[s].flags
Raise(m, s, flag) == [m EXCEPT !.map[s].flags = @ \cup {flag}]
Clear(m, s, cleared) == [m EXCEPT !.map[s].flags = @ \ cleared]

\* The list from stream s on, once round (list_next, ossl_quic_stream_iter_next).
from(list, s) ==
  LET i == SelectInSeq(list, LAMBDA t : t = s)
  IN  SubSeq(list, i, Len(list)) \o SubSeq(list, 1, i - 1)

\* The stream after s; s itself if it is the only one.
active_next(m, s) == LET rest == from(m.active_list, s) IN rest[IF Len(rest) = 1 THEN 1 ELSE 2]

\* Fault: the stream becomes the current one.
MarkActiveCurrent(m, s) ==
  IF Contains(m.active_list, s) THEN m
  ELSE [m EXCEPT !.active_list = Append(@, s), !.rr_cur = s]

\* stream_map_mark_active
mark_active(m, s) ==
  IF Contains(m.active_list, s) THEN m
  ELSE [m EXCEPT !.active_list = Append(@, s),
                 !.rr_cur = IF @ = NoStream THEN s ELSE @]

\* stream_map_mark_inactive
mark_inactive(m, s) ==
  IF ~Contains(m.active_list, s) THEN m
  ELSE [m EXCEPT !.active_list = RemoveFirst(@, s),
                 !.rr_cur = IF @ # s THEN @
                            ELSE IF active_next(m, s) = s THEN NoStream ELSE active_next(m, s)]

\* The end of what the flow controllers allow stream s to send, when streams
\* before it in the packet have consumed some of the connection's credit
\* (ossl_quic_txfc_get_credit).
fc_limit(m, s, consumed) ==
  LET q == m.map[s] IN q.swm + Min({q.cwm - q.swm, m.conn_cwm - m.conn_swm - consumed})

\* stream_has_data_to_send
stream_has_data_to_send(m, s) ==
  LET q == m.map[s]
  IN  /\ has_send_buffer(q) /\ has_pending(q)
      /\ q.sstream.new # {} => Min(q.sstream.new) < fc_limit(m, s, 0)

\* shutdown_flush_done
shutdown_flush_done(m, s) ==
  IF Has(m, s, "shutdown_flush")
  THEN [Clear(m, s, {"shutdown_flush"}) EXCEPT !.num_shutdown_flush = @ - 1]
  ELSE m

\* ossl_quic_stream_map_notify_totally_acked, called in DATA_SENT; the send
\* buffer is freed.
notify_totally_acked(m, s) ==
  shutdown_flush_done([m EXCEPT !.map[s].send_state = "DATA_RECVD",
                                !.map[s].sstream = sstream_new], s)

\* qsm_ready_for_gc
qsm_ready_for_gc(q) ==
  /\ "deleted" \in q.flags
  /\ q.recv_state = "NONE" \/ "acked_stop_sending" \in q.flags
  /\ q.send_state \in {"NONE", "DATA_RECVD", "RESET_RECVD"}

\* What should_be_active of ossl_quic_stream_map_update_state comes to.
wants_control_frame(q) ==
  \/ q.recv_state = "RECV" /\ {"want_max_stream_data", "cwm_changed"} \cap q.flags # {}
  \/ {"want_stop_sending", "want_reset_stream"} \cap q.flags # {}
should_be_active(m, s) ==
  LET q == m.map[s]
  IN  /\ "ready_for_gc" \notin q.flags
      /\ \/ wants_control_frame(q)
         \/ "peer_stop_sending" \notin q.flags /\ stream_has_data_to_send(m, s)

\* ossl_quic_stream_map_update_state
update_state(m, s) ==
  LET q == m.map[s]
      acked == IF q.send_state \in {"SEND", "DATA_SENT"} /\ is_totally_acked(q)
               THEN IF q.send_state = "SEND" THEN shutdown_flush_done(m, s)
                    ELSE notify_totally_acked(m, s)
               ELSE m
      n == IF ~Has(acked, s, "ready_for_gc") /\ qsm_ready_for_gc(acked.map[s])
           THEN [Raise(acked, s, "ready_for_gc") EXCEPT !.ready_for_gc_list = Append(@, s)]
           ELSE acked
  IN  IF should_be_active(n, s) THEN mark_active(n, s) ELSE mark_inactive(n, s)

\* ossl_quic_stream_map_ensure_send_part_id
ensure_send_part_id(q) == IF q.send_state = "READY" THEN [q EXCEPT !.send_state = "SEND"] ELSE q

\* ossl_quic_stream_map_notify_all_data_sent
notify_all_data_sent(m, s) ==
  IF m.map[s].send_state # "SEND" THEN m
  ELSE [m EXCEPT !.map[s].send_state = "DATA_SENT",
                 !.map[s].send_final_size = m.map[s].sstream.head]

\* Fault: the final size is what has been written so far.
ResetSendPartWritten(m, s) ==
  LET q == m.map[s]
      r == [q EXCEPT !.send_state = "RESET_SENT", !.send_final_size = q.sstream.head,
                     !.sstream = sstream_new, !.flags = @ \cup {"want_reset_stream"}]
  IN  IF has_send_buffer(q) THEN update_state(shutdown_flush_done(Set(m, s, r), s), s) ELSE m

\* ossl_quic_stream_map_reset_stream_send_part: the final size is what has been
\* sent so far, unless it is fixed already.
reset_stream_send_part(m, s) ==
  LET q == m.map[s]
      size == IF q.send_state = "DATA_SENT" THEN q.send_final_size ELSE q.swm
      r == [q EXCEPT !.send_state = "RESET_SENT", !.send_final_size = size,
                     !.sstream = sstream_new, !.flags = @ \cup {"want_reset_stream"}]
  IN  IF has_send_buffer(q) THEN update_state(shutdown_flush_done(Set(m, s, r), s), s) ELSE m

\* ossl_quic_stream_map_notify_reset_stream_acked
notify_reset_stream_acked(m, s) ==
  IF m.map[s].send_state = "RESET_SENT"
  THEN [m EXCEPT !.map[s].send_state = "RESET_RECVD"] ELSE m

\* ossl_quic_stream_map_schedule_stop_sending
schedule_stop_sending(m, s) ==
  IF /\ Has(m, s, "stop_sending") /\ ~Has(m, s, "want_stop_sending")
     /\ m.map[s].recv_state \in {"RECV", "SIZE_KNOWN"}
  THEN update_state(Raise(m, s, "want_stop_sending"), s) ELSE m

\* ossl_quic_stream_map_stop_sending_recv_part
stop_sending_recv_part(m, s) ==
  IF ~Has(m, s, "stop_sending") /\ m.map[s].recv_state \in {"RECV", "SIZE_KNOWN"}
  THEN schedule_stop_sending(Raise(m, s, "stop_sending"), s) ELSE m

\* ossl_quic_stream_map_visit with update_streams, in the order of the hash table
update_all(m, order) == FoldLeft(update_state, m, order)

-----------------------------------------------------------------------------
(* The application.                                                        *)

\* Streams that exist, and those the application still has a handle of.
Mapped == DOMAIN qsm.map
Held == {s \in Mapped : ~Has(qsm, s, "deleted")}

\* quic_validate_for_write: passing it, with or without success, gets the send
\* part out of READY.
CanWrite(s) == s \in Held /\ has_send_buffer(qsm.map[s])
validated(s) == Set(qsm, s, ensure_send_part_id(qsm.map[s]))

conclude_sstream(m, s) == [m EXCEPT !.map[s].sstream.fin = @ \cup {"have"}]

\* SSL_write_ex2 of n bytes: they are appended, the stream is perhaps activated
\* and then, if the flag says so, concluded (quic_post_write).
Write(s, n, conclude) ==
  LET q == validated(s).map[s]
      to == q.sstream.head + n
      written == [q EXCEPT !.sstream.head = to,
                           !.sstream.new = @ \cup (q.sstream.head .. to - 1)]
      m == update_state(Set(qsm, s, written), s)
  IN  /\ CanWrite(s) /\ ~shutting_down
      /\ IF has_final_size(q) THEN qsm' = validated(s)
         ELSE to <= Size /\ qsm' = IF conclude THEN conclude_sstream(m, s) ELSE m
      /\ UNCHANGED <<shutting_down, pkts>>

\* Whether nobody looks for the FIN when stream s is concluded behind the stream
\* map's back: its send part stays in READY, or it has nothing else to send and
\* is not on the active list.
FinMissed(s) ==
  \/ qsm.map[s].send_state = "READY"
  \/ qsm.map[s].sstream.new = {} /\ ~Contains(qsm.active_list, s)

\* SSL_write_ex2 of no bytes with SSL_WRITE_FLAG_CONCLUDE: neither quic_validate_
\* for_write nor, nothing being appended, update_state is called.
WriteNone(s) ==
  /\ s \in Held /\ has_send_buffer(qsm.map[s]) /\ ~has_final_size(qsm.map[s])
  /\ ~shutting_down
  /\ qsm' = [conclude_sstream(qsm, s) EXCEPT !.map[s].missed = FinMissed(s)]
  /\ UNCHANGED <<shutting_down, pkts>>

\* SSL_stream_conclude
Conclude(s) ==
  /\ CanWrite(s) /\ ~shutting_down
  /\ qsm' = IF has_final_size(qsm.map[s]) THEN validated(s)
            ELSE update_state(conclude_sstream(validated(s), s), s)
  /\ UNCHANGED <<shutting_down, pkts>>

\* SSL_stream_reset
StreamReset(s) ==
  /\ s \in MayReset /\ CanWrite(s)
  /\ qsm' = IF has_final_size(qsm.map[s]) THEN validated(s)
            ELSE reset_stream_send_part(validated(s), s)
  /\ UNCHANGED <<shutting_down, pkts>>

\* SSL_read of at least one byte: perhaps enough for the window to be opened
\* (open), perhaps not all there is (rest).
Read(s, open, rest) ==
  LET q == qsm.map[s]
      r == [q EXCEPT !.flags = IF open THEN @ \cup {"cwm_changed"} ELSE @, !.avail = rest,
                     !.recv_state = IF @ = "DATA_RECVD" /\ ~rest THEN "DATA_READ" ELSE @]
  IN  /\ s \in Held /\ q.recv_state \in {"RECV", "SIZE_KNOWN", "DATA_RECVD"}
      /\ q.avail
      /\ open => q.recv_state = "RECV"
      /\ qsm' = update_state(Set(qsm, s, r), s)
      /\ UNCHANGED <<shutting_down, pkts>>

\* SSL_read that finds only the end of the stream, or that it was reset.
ReadEnd(s) ==
  /\ s \in Held
  /\ \/ /\ qsm.map[s].recv_state = "DATA_RECVD" /\ ~qsm.map[s].avail
        /\ qsm' = [qsm EXCEPT !.map[s].recv_state = "DATA_READ"]
     \/ /\ qsm.map[s].recv_state = "RESET_RECVD"
        /\ qsm' = [qsm EXCEPT !.map[s].recv_state = "RESET_READ"]
  /\ UNCHANGED <<shutting_down, pkts>>

\* Fault: the send part is left as it is.
FreeUnreset(s) ==
  /\ s \in MayReset /\ s \in Held
  /\ qsm' = update_state(Raise(stop_sending_recv_part(qsm, s), s, "deleted"), s)
  /\ UNCHANGED <<shutting_down, pkts>>

\* SSL_free of the stream (ossl_quic_free): an unfinished send part is reset, the
\* peer is asked to stop sending.
Free(s) ==
  LET unfinished == qsm.map[s].send_state \in {"READY", "SEND"} /\ ~has_final_size(qsm.map[s])
      m == IF unfinished THEN reset_stream_send_part(qsm, s) ELSE qsm
  IN  /\ s \in MayReset /\ s \in Held
      /\ qsm' = update_state(Raise(stop_sending_recv_part(m, s), s, "deleted"), s)
      /\ UNCHANGED <<shutting_down, pkts>>

\* SSL_shutdown: qc_shutdown_flush_init, ossl_quic_stream_map_begin_shutdown_flush
\* and eligible_for_shutdown_flush.
Shutdown ==
  LET flushed == {s \in Mapped : /\ qsm.map[s].send_state \in {"SEND", "DATA_SENT"}
                                 /\ ~is_totally_acked(qsm.map[s])}
  IN  /\ ~shutting_down
      /\ shutting_down' = TRUE
      /\ qsm' = [qsm EXCEPT !.num_shutdown_flush = Cardinality(flushed),
                            !.map = [s \in Mapped |->
                               IF s \in flushed THEN Raise(qsm, s, "shutdown_flush").map[s]
                               ELSE @[s]]]
      /\ UNCHANGED pkts

-----------------------------------------------------------------------------
(* The peer's frames (quic_rx_depack.c).                                   *)

\* depack_do_frame_stream; more: it brings bytes that can be read; all: nothing
\* up to the final size is missing now.
RecvStream(s, fin, more, all) ==
  LET q == qsm.map[s]
      known == fin \/ q.recv_state = "SIZE_KNOWN"
      kept == ~Has(qsm, s, "stop_sending")
      received == [q EXCEPT !.recv_state = "DATA_RECVD", !.flags = @ \ {"want_stop_sending"}]
      r == IF all /\ kept THEN received
           ELSE [q EXCEPT !.recv_state = IF known THEN "SIZE_KNOWN" ELSE @]
  IN  /\ q.recv_state \in {"RECV", "SIZE_KNOWN"}
      /\ all => known
      /\ qsm' = Set(qsm, s, [r EXCEPT !.avail = @ \/ (more /\ kept)])
      /\ UNCHANGED <<shutting_down, pkts>>

\* depack_do_frame_reset_stream, ossl_quic_stream_map_notify_reset_recv_part
RecvResetStream(s) ==
  LET q == qsm.map[s]
      r == IF q.recv_state \in {"RECV", "SIZE_KNOWN", "DATA_RECVD"}
           THEN [q EXCEPT !.recv_state = "RESET_RECVD", !.avail = FALSE,
                          !.flags = @ \ {"want_stop_sending"}]
           ELSE q
  IN  /\ s \in MayReset /\ q.recv_state # "NONE"
      /\ qsm' = update_state(Set(qsm, s, r), s)
      /\ UNCHANGED <<shutting_down, pkts>>

\* depack_do_frame_stop_sending: answered by resetting the send part.
RecvStopSending(s) ==
  /\ s \in MayReset /\ qsm.map[s].send_state # "NONE"
  /\ qsm' = reset_stream_send_part(Raise(qsm, s, "peer_stop_sending"), s)
  /\ UNCHANGED <<shutting_down, pkts>>

\* depack_do_frame_max_stream_data
RecvMaxStreamData(s, c) ==
  /\ qsm.map[s].send_state # "NONE"
  /\ qsm' = update_state([qsm EXCEPT !.map[s].cwm = Max({@, c})], s)
  /\ UNCHANGED <<shutting_down, pkts>>

\* Fault: the streams are not looked at again.
RecvMaxDataAlone(c) ==
  /\ qsm' = [qsm EXCEPT !.conn_cwm = Max({@, c})]
  /\ UNCHANGED <<shutting_down, pkts>>

\* depack_do_frame_max_data: every stream may now be able to send.
RecvMaxData(c) ==
  /\ \E order \in SetToSeqs(Mapped) :
       qsm' = update_all([qsm EXCEPT !.conn_cwm = Max({@, c})], order)
  /\ UNCHANGED <<shutting_down, pkts>>

-----------------------------------------------------------------------------
(* Packets: generation, acknowledgement and loss.                          *)

\* No frame at all.
NoFrames == [data |-> {}, fin |-> FALSE, stop |-> FALSE, reset |-> FALSE, fc |-> FALSE]

\* Whether a frame with these bytes of stream q carries its FIN: it ends with
\* the last byte, or nothing but the FIN is left to send.
takes_fin(q, data) ==
  /\ has_final_size(q)
  /\ \/ q.sstream.head - 1 \in data
     \/ data = q.sstream.new /\ "sent" \notin q.sstream.fin

\* All the frames that the packetiser generates for stream s, given room for
\* them (txp_generate_stream_related, txp_generate_stream_frames).
whole(m, s, consumed) ==
  LET q == m.map[s]
      data == IF has_send_buffer(q)
              THEN {b \in q.sstream.new : b < fc_limit(m, s, consumed)} ELSE {}
  IN  [data |-> data, fin |-> has_send_buffer(q) /\ takes_fin(q, data),
       stop |-> "want_stop_sending" \in q.flags, reset |-> "want_reset_stream" \in q.flags,
       fc |-> /\ q.recv_state = "RECV"
              /\ {"want_max_stream_data", "cwm_changed"} \cap q.flags # {}]

\* The ways to leave frames out when the packet is full: the first bytes are
\* sent first, and the frames are generated in the order stop, reset, fc, data.
cuts(m, s, w) ==
  LET q == m.map[s]
      first(n) == {b \in w.data : Cardinality({d \in w.data : d < b}) < n}
      cut(n) == [w EXCEPT !.data = first(n),
                          !.fin = w.fin /\ q.sstream.head - 1 \in first(n)]
      bare == cut(0)
  IN  {cut(n) : n \in 0 .. Cardinality(w.data)}
        \cup {[bare EXCEPT !.fc = FALSE], [bare EXCEPT !.fc = FALSE, !.reset = FALSE]}

\* txp_pkt_commit for one of the packet's streams: its frames are in flight, and
\* it is deactivated if nothing is left to send.
record_sent(m, s, c) ==
  LET q == mark_transmitted(m.map[s], c.data, c.fin)
      swm == Max({q.swm} \cup {b + 1 : b \in c.data})
      done == (IF c.fc THEN {"want_max_stream_data", "cwm_changed"} ELSE {})
                \cup (IF c.stop THEN {"want_stop_sending"} ELSE {})
                \cup (IF c.reset THEN {"want_reset_stream"} ELSE {})
  IN  update_state([Set(m, s, [q EXCEPT !.swm = swm, !.flags = @ \ done])
                      EXCEPT !.conn_swm = @ + swm - q.swm], s)

\* Fault: that all has been sent is not noted.
CommitStreamOpen(m, s, c) == record_sent(m, s, c)

\* Then it is in DATA_SENT once all of it has been sent.
commit_stream(m, s, c) ==
  LET n == record_sent(m, s, c)
  IN  IF has_send_buffer(n.map[s]) /\ ~has_pending(n.map[s]) /\ has_final_size(n.map[s])
      THEN notify_all_data_sent(n, s) ELSE n

\* ossl_quic_stream_iter_init: the next packet begins with the next stream.
advance_rr(m) == [m EXCEPT !.rr_cur = active_next(m, @)]

HasChunk(c) == c.data # {} \/ c.fin \/ c.stop \/ c.reset
\* What the TXPIM records of the frames of a stream (a MAX_STREAM_DATA frame is
\* not recorded).
chunk(c) == [data |-> c.data, fin |-> c.fin, stop |-> c.stop, reset |-> c.reset]

\* Credit that the frames of stream s consume.
new_credit(m, s, c) == Max({0} \cup {b + 1 - m.map[s].swm : b \in c.data})

\* The credit that the first i streams of a packet consume, all their frames
\* being in it (conn_consumed).
conn_consumed(m, order) ==
  LET consumed[i \in 0 .. Len(order)] ==
        IF i = 0 THEN 0
        ELSE consumed[i - 1] + new_credit(m, order[i], whole(m, order[i], consumed[i - 1]))
  IN  consumed

\* What the TXPIM records of a packet with the frames c[i] of streams order[i].
chunks_of(order, c) ==
  [s \in {order[i] : i \in {j \in DOMAIN c : HasChunk(c[j])}} |->
     chunk(c[CHOOSE i \in DOMAIN c : order[i] = s])]

\* txp_pkt_commit for all of them, from the last one on.
commit_all(m, order, c) ==
  LET commit(i, n) == commit_stream(n, order[i], c[i]) IN FoldRightDomain(commit, c, m)

\* The streams are visited once round from the current one, until the packet is
\* full: all of them but the last get in all their frames, the first at least
\* one if it has any.  A packet in which no stream has a frame is sent only if
\* there are other frames.
SendPacket ==
  LET order == from(qsm.active_list, qsm.rr_cur)
      all(i) == whole(qsm, order[i], conn_consumed(qsm, order)[i - 1])
  IN  /\ qsm.active_list # <<>>
      /\ Cardinality(pkts) < MaxPkts
      /\ \E k \in 1 .. Len(order) : \E last \in {all(k)} \cup cuts(qsm, order[k], all(k)) :
           LET c == [i \in 1 .. k |-> IF i = k THEN last ELSE all(i)]
               chunks == chunks_of(order, c)
           IN  /\ last = NoFrames => k = Len(order) /\ all(k) = NoFrames
               /\ \/ qsm' = commit_all(advance_rr(qsm), order, c)
                  \/ (\A i \in 1 .. k : c[i] = NoFrames) /\ qsm' = advance_rr(qsm)
               /\ pkts' = IF DOMAIN chunks = {} THEN pkts ELSE pkts \cup {chunks}
      /\ UNCHANGED shutting_down

\* The send buffer of stream s is there (get_sstream_by_id).
HasBuffer(m, s) == s \in DOMAIN m.map /\ has_send_buffer(m.map[s])

\* on_acked of quic_fifd.c, for the chunks of stream s: those of its data come
\* before that of its STOP_SENDING and RESET_STREAM frames (on_confirm_notify).
ack_data(m, s, c) ==
  LET n == Set(m, s, mark_acked(m.map[s], c.data, c.fin))
  IN  IF ~HasBuffer(m, s) \/ (c.data = {} /\ ~c.fin) THEN m
      ELSE IF is_totally_acked(n.map[s]) THEN update_state(n, s) ELSE n
ack_abort(m, s, c) ==
  LET stopped == IF c.stop THEN update_state(Raise(m, s, "acked_stop_sending"), s) ELSE m
  IN  IF ~HasBuffer(m, s) THEN m
      ELSE IF c.reset THEN update_state(notify_reset_stream_acked(stopped, s), s) ELSE stopped

\* on_lost, likewise; every chunk asks for MAX_STREAM_DATA as well
\* (on_regen_notify).
regen_max_stream_data(m, s) == update_state(Raise(m, s, "want_max_stream_data"), s)
lose_data(m, s, c) ==
  IF ~HasBuffer(m, s) \/ (c.data = {} /\ ~c.fin) THEN m
  ELSE regen_max_stream_data(Set(m, s, mark_lost(m.map[s], c.data, c.fin)), s)
lose_abort(m, s, c) ==
  LET stopped == IF c.stop THEN schedule_stop_sending(m, s) ELSE m
      reset == IF c.reset THEN update_state(Raise(stopped, s, "want_reset_stream"), s) ELSE stopped
  IN  IF ~HasBuffer(m, s) \/ (~c.stop /\ ~c.reset) THEN m ELSE regen_max_stream_data(reset, s)

\* The chunks of packet p, stream by stream.
acked_all(m, p, order) ==
  LET acked(n, s) == ack_abort(ack_data(n, s, p[s]), s, p[s]) IN FoldLeft(acked, m, order)
lost_all(m, p, order) ==
  LET lost(n, s) == lose_abort(lose_data(n, s, p[s]), s, p[s]) IN FoldLeft(lost, m, order)

Acked(p) ==
  /\ \E order \in SetToSeqs(DOMAIN p) : qsm' = acked_all(qsm, p, order)
  /\ pkts' = pkts \ {p}
  /\ UNCHANGED shutting_down

Lost(p) ==
  /\ \E order \in SetToSeqs(DOMAIN p) : qsm' = lost_all(qsm, p, order)
  /\ pkts' = pkts \ {p}
  /\ UNCHANGED shutting_down

\* ossl_quic_stream_map_gc releases the first n streams of the list, those its
\* loop visits: it starts at the head and goes on while it is not at the head.
Gc ==
  LET list == qsm.ready_for_gc_list
      n == Cardinality({i \in 1 .. Len(list) : \A h \in 1 .. i : list[h] # list[1]})
  IN  /\ list # <<>>
      /\ qsm' = [qsm EXCEPT !.map = Restrict(@, Mapped \ {list[i] : i \in 1 .. n}),
                            !.ready_for_gc_list = SubSeq(@, n + 1, Len(@))]
      /\ UNCHANGED <<shutting_down, pkts>>

-----------------------------------------------------------------------------
AppNext ==
  \/ \E s \in Mapped :
       \/ \E n \in 1 .. Size, conclude \in BOOLEAN : Write(s, n, conclude)
       \/ WriteNone(s) \/ Conclude(s) \/ StreamReset(s) \/ Free(s)
       \/ \E open, rest \in BOOLEAN : Read(s, open, rest)
       \/ ReadEnd(s)
  \/ Shutdown
PeerNext ==
  \/ \E s \in Mapped :
       \/ \E fin, more, all \in BOOLEAN : RecvStream(s, fin, more, all)
       \/ RecvResetStream(s) \/ RecvStopSending(s)
       \/ \E c \in 1 .. Size : RecvMaxStreamData(s, c)
  \/ \E c \in 1 .. Size * Cardinality(Senders) : RecvMaxData(c)
Next == AppNext \/ PeerNext \/ SendPacket \/ (\E p \in pkts : Acked(p) \/ Lost(p)) \/ Gc

Spec == Init /\ [][Next]_vars

\* Fairness is stated with the enabling conditions written out, which it takes
\* TLC too long to find out from these actions: []<>(~enabled) \/ []<><<A>>_vars
\* is weak, <>[](~enabled) \/ []<><<A>>_vars strong fairness of A.

\* The reactor sends packets while streams are active and collects garbage, and
\* the acknowledgement manager decides about every packet in the end.
CanSend == qsm.active_list # <<>> /\ Cardinality(pkts) < MaxPkts
Resolve == \E p \in pkts : Acked(p) \/ Lost(p)
FairSpec ==
  /\ Spec
  /\ []<>(~CanSend) \/ []<><<SendPacket>>_vars
  /\ []<>(pkts = {}) \/ []<><<Resolve>>_vars
  /\ WF_vars(Gc)

\* What some properties assume of the other side: not all of the packets that go
\* on being sent are lost (each one that is acknowledged leaves less to send),
\* and the peer gives credit in the end.
Deliver == \E p \in pkts : Acked(p)
StreamCreditDue(s) == s \in Mapped /\ qsm.map[s].cwm < Size
GiveStreamCredit(s) == s \in Mapped /\ RecvMaxStreamData(s, Size)
AllCredit == Size * Cardinality(Senders)
PeerFair ==
  /\ <>[](pkts = {}) \/ []<><<Deliver>>_vars
  /\ \A s \in Senders : []<>(~StreamCreditDue(s)) \/ []<><<GiveStreamCredit(s)>>_vars
  /\ []<>(qsm.conn_cwm >= AllCredit) \/ []<><<RecvMaxData(AllCredit)>>_vars

-----------------------------------------------------------------------------
(* Properties.                                                             *)

\* The values the variables range over.
TypeOK ==
  /\ Mapped \subseteq Streams /\ shutting_down \in BOOLEAN
  /\ \A s \in Mapped :
       LET q == qsm.map[s]
       IN  /\ q.send_state \in SendStates /\ q.recv_state \in RecvStates
           /\ q.flags \subseteq Flags /\ {q.avail, q.missed} \subseteq BOOLEAN
           /\ {q.swm, q.cwm, q.sstream.head} \subseteq Nat
           /\ q.sstream.new \cup q.sstream.acked \subseteq 0 .. q.sstream.head - 1
           /\ q.sstream.fin \subseteq {"have", "sent", "acked"}
  /\ ToSet(qsm.active_list) \cup ToSet(qsm.ready_for_gc_list) \subseteq Mapped
  /\ qsm.rr_cur \in ToSet(qsm.active_list) \cup {NoStream}
  /\ qsm.num_shutdown_flush \in Nat

\* A stream that has a frame to send is on the active list, and so comes into a
\* packet: whatever makes one necessary, a call, a frame of the peer, a loss or
\* credit given to another stream's connection, is followed by a new look at
\* the stream.  The one exception is the FIN of a concluding write of no bytes,
\* and only as long as the stream has nothing else to send.
FinAlone(q) == q.missed /\ ~wants_control_frame(q) /\ q.sstream.new = {}
DueIsActive ==
  \A s \in Mapped : should_be_active(qsm, s) =>
                     Contains(qsm.active_list, s) \/ FinAlone(qsm.map[s])

\* Every byte written is waiting, in flight in exactly one packet, or
\* acknowledged ("No logical byte is ever in both new_set and acked_set"), so
\* nothing is forgotten or sent without need; nothing past the credit is sent.
BytesAccounted ==
  \A s \in {t \in Mapped : has_send_buffer(qsm.map[t])} :
    LET q == qsm.map[s]
        carriers(b) == {p \in pkts : s \in DOMAIN p /\ b \in p[s].data}
    IN  /\ q.swm <= q.cwm
        /\ \A b \in 0 .. q.sstream.head - 1 :
             Cardinality(carriers(b)) = IF b \in q.sstream.new \cup q.sstream.acked THEN 0 ELSE 1
        /\ q.sstream.new \cap q.sstream.acked = {}

\* The final size announced by a FIN or a RESET_STREAM frame is what the peer
\* has counted against its credit: all that was ever sent, and no more.
FinalSizeIsSent ==
  \A s \in Mapped :
    qsm.map[s].send_state \in {"DATA_SENT", "DATA_RECVD", "RESET_SENT", "RESET_RECVD"}
      => qsm.map[s].send_final_size = qsm.map[s].swm

\* The assertion of qsm_ready_for_gc: a stream without a handle has a send part
\* that ends by itself.
DeletedAsserted ==
  \A s \in Mapped : Has(qsm, s, "deleted") =>
    \/ qsm.map[s].send_state \notin {"READY", "SEND"}
    \/ qsm.map[s].send_state = "SEND" /\ has_final_size(qsm.map[s])

\* It holds but for READY, where a concluding write of no bytes leaves the stream:
\* a stream without a handle has a final size.
DeletedEnds ==
  \A s \in Mapped : Has(qsm, s, "deleted") =>
    qsm.map[s].send_state \notin {"READY", "SEND"} \/ has_final_size(qsm.map[s])

\* Round robin: a stream that goes on having a frame to send gets one into a
\* packet again and again, however much the others have to send and however often
\* it is lost.
Served ==
  \A s \in Senders :
    \/ []<>~(s \in Mapped /\ should_be_active(qsm, s) /\ Contains(qsm.active_list, s))
    \/ []<><<\E p \in pkts' \ pkts : s \in DOMAIN p>>_vars

\* SSL_shutdown is not kept waiting: every stream to be flushed is flushed, FIN
\* included, however often it is lost or blocked in the meantime.  A FIN that is
\* missed keeps it waiting, and nothing else does.
Unflushed == {s \in Mapped : Has(qsm, s, "shutdown_flush") /\ qsm.map[s].missed}
Flushed ==
  PeerFair => (shutting_down ~> (qsm.num_shutdown_flush = Cardinality(Unflushed)))

\* A stream that has been concluded is acknowledged to its end, its FIN
\* included, unless it is reset ("causing transmission of a FIN for the stream").
AllConcludedEnd ==
  PeerFair => \A s \in Senders :
    (s \in Mapped /\ has_final_size(qsm.map[s])) ~>
      (s \in Mapped => qsm.map[s].send_state \in {"DATA_RECVD", "RESET_SENT", "RESET_RECVD"})

\* So it is unless its FIN is missed.
ConcludedEnds ==
  PeerFair => \A s \in Senders :
    (s \in Mapped /\ has_final_size(qsm.map[s])) ~>
      (s \in Mapped => \/ qsm.map[s].send_state \in {"DATA_RECVD", "RESET_SENT", "RESET_RECVD"}
                        \/ qsm.map[s].missed)

\* A RESET_STREAM frame is sent until it is acknowledged, and the
\* acknowledgement ends the send part ("RESET_STREAM REGEN", quic-fifm.md).
ResetAcked ==
  PeerFair => \A s \in Senders :
    (s \in Mapped /\ qsm.map[s].send_state = "RESET_SENT") ~>
      (s \in Mapped => qsm.map[s].send_state = "RESET_RECVD")
=============================================================================
