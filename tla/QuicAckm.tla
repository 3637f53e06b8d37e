------------------------------ MODULE QuicAckm ------------------------------
(***************************************************************************)
(* The ACK manager of one end of a QUIC connection (ssl/quic/quic_ackm.c)  *)
(* with the NewReno congestion controller it drives (cc_newreno.c) and the *)
(* parts of packetiser and channel that use it: packets sent are kept      *)
(* until they are acknowledged, declared lost or discarded with their      *)
(* packet number space, a timer drives loss detection and probes, and the  *)
(* packet numbers received are kept until the peer is known to know.       *)
(*                                                                         *)
(* The peer and the network are what they can do to this end: an ACK frame *)
(* may arrive at any time that names any packets sent so far, late, again  *)
(* or never, and so may the peer's packets.  Every packet counts one byte, *)
(* which is also the size of the largest datagram.  The statistics manager *)
(* is a choice: each loss detection uses one of LossDelays.  The handlers  *)
(* run under the channel's lock, so each is one step.                      *)
(***************************************************************************)
EXTENDS Integers, FiniteSets, FiniteSetsExt

INITIAL == 0
HANDSHAKE == 1
APP == 2
Spaces == {INITIAL, HANDSHAKE, APP}

CONSTANTS
  K_PKT_THRESHOLD,
  LossDelays,        \* loss_delay: 9/8 of the round-trip time, at least 1
  PtoDuration,       \* smoothed_rtt + 4 * rtt_variance
  rx_max_ack_delay, tx_max_ack_delay,
  MAX_RX_ACK_RANGES,
  NELEM_ack_ranges,  \* OSSL_NELEM(ackm->ack_ranges): QUIC_PN_SPACE_NUM
  MinWnd,            \* k_min_wnd, in datagrams
  Never,             \* ossl_time_infinite(); 0 is ossl_time_zero()
  Cases              \* who this end is, its k_init_wnd and the bounds: how
                     \*   many packets it sends, which of the peer's arrive
                     \*   and how many at a time (1 or 2), for how long

ASSUME ConstantsAssumption ==
  /\ {K_PKT_THRESHOLD, PtoDuration, MAX_RX_ACK_RANGES, NELEM_ack_ranges, MinWnd} \cup LossDelays \subseteq Nat \ {0}
  /\ {rx_max_ack_delay, tx_max_ack_delay} \subseteq Nat
ASSUME CasesAssumption ==
  Cases \subseteq [tx : [Spaces -> Nat], rx : [Spaces -> SUBSET Nat], time : Nat \ {0},
                   is_server : BOOLEAN, init_wnd : Nat, batch : {1, 2}]
ASSUME WindowAssumption == \A c \in Cases : c.init_wnd >= MinWnd
\* No time that is computed reaches the infinite one.
ASSUME NeverAssumption ==
  /\ Never \in Nat
  /\ \A c \in Cases :
       /\ \A d \in LossDelays : c.time + d < Never
       /\ \A e \in 0 .. 16 : c.time + (PtoDuration + rx_max_ack_delay) * 2^e < Never

NONE == -1           \* QUIC_PN_INVALID

VARIABLES
  case,              \* the bounds of this behaviour
  now,
  ackm,              \* the sending side of OSSL_ACKM
  cc,                \* OSSL_CC_NEWRENO
  rx,                \* rx[s]: the receiving side of OSSL_ACKM
  txp,               \* next_pn and want_ack of the packetiser
  queue,             \* rx_pending of the QRX: packets decrypted, not processed
  ch                 \* have_processed_any_pkt, have_received_enc_pkt and
                     \*   doing_retry of the channel

VARIABLES
  told,              \* history: told[s][pn]: the callbacks made for packet pn
  undone,            \* history: bytes of packets that were pseudo-lost
  times,             \* history: times[s][pn]: how often pn was processed
  together,          \* history: the packets of which two copies were decrypted
                     \*   before either was processed
  owed,              \* history: owed[s]: when the ack-eliciting packets came
                     \*   that no ACK frame has been generated for
  unsent             \* history: unsent[s]: those whose ACK frame was generated
                     \*   and given up with its datagram
vars == <<case, now, ackm, cc, rx, txp, queue, ch,
          told, undone, times, together, owed, unsent>>

Zero == [s \in Spaces |-> 0]
No == [s \in Spaces |-> FALSE]

\* ossl_ackm_new and newreno_reset.
Init ==
  /\ case \in Cases
  /\ now = 1
  /\ ackm = [tx |-> [s \in Spaces |-> {}], largest_acked |-> [s \in Spaces |-> NONE],
             last_eliciting |-> Zero, loss_time |-> Zero, deadline |-> 0,
             in_flight |-> 0, eliciting |-> Zero, pto_count |-> 0,
             probe |-> Zero, anti_deadlock |-> Zero,
             confirmed |-> FALSE, validated |-> FALSE, discarded |-> No]
  /\ cc = [in_flight |-> 0, cwnd |-> case.init_wnd, acked |-> 0, ssthresh |-> Never,
           recovery |-> 0, last_loss |-> 0]
  /\ rx = [s \in Spaces |-> [set |-> {}, watermark |-> 0, desired |-> FALSE,
                             generated |-> FALSE, ack |-> {}, since |-> 0,
                             flush |-> Never]]
  /\ txp = [next_pn |-> Zero, want_ack |-> No]
  /\ queue = {}
  /\ ch = [processed |-> FALSE, received |-> FALSE, retry |-> FALSE]
  /\ told = [s \in Spaces |-> [pn \in 0 .. case.tx[s] - 1 |-> {}]]
  /\ undone = 0
  /\ times = [s \in Spaces |-> [pn \in case.rx[s] |-> 0]]
  /\ together = {}
  /\ owed = [s \in Spaces |-> {}]
  /\ unsent = [s \in Spaces |-> {}]

(***************************************************************************)
(* The loss detection timer.  a is the state of the sending side.          *)
(***************************************************************************)
Total(f) == f[INITIAL] + f[HANDSHAKE] + f[APP]

\* ackm_get_loss_time_and_space: a space without a loss time (0) after one
\* that has one takes its place.
LossSpace(a) ==
  LET later(s, t) == IF a.loss_time[s] = 0 \/ a.loss_time[t] < a.loss_time[s]
                     THEN t ELSE s
  IN  later(later(INITIAL, HANDSHAKE), APP)

\* ackm_get_pto_time_and_space: the spaces the timeout is computed from, and
\* what it is for each.
Factor(a) == 2^(IF a.pto_count < 16 THEN a.pto_count ELSE 16)
PtoSpaces(a) ==
  {s \in Spaces : /\ a.eliciting[s] # 0 \/ ~(a.confirmed \/ case.is_server)
                  /\ s = APP => a.confirmed
                  /\ a.last_eliciting[s] # 0}
PtoTime(a, s) ==
  a.last_eliciting[s] + PtoDuration * Factor(a)
    + (IF s = APP THEN rx_max_ack_delay * Factor(a) ELSE 0)
PtoSpace(a) ==
  LET least(s) == \A u \in PtoSpaces(a) :
                    IF u < s THEN PtoTime(a, s) < PtoTime(a, u)
                    ELSE PtoTime(a, s) <= PtoTime(a, u)
  IN  IF PtoSpaces(a) = {} THEN INITIAL
      ELSE CHOOSE s \in PtoSpaces(a) : least(s)

\* ackm_set_loss_detection_timer.
Deadline(a) ==
  CASE a.loss_time[LossSpace(a)] # 0 -> a.loss_time[LossSpace(a)]
    [] a.loss_time[LossSpace(a)] = 0 /\ Total(a.eliciting) = 0 ->
         IF a.validated THEN 0 ELSE now + PtoDuration * Factor(a)
    [] OTHER -> IF PtoSpaces(a) = {} THEN Never ELSE PtoTime(a, PtoSpace(a))
SetTimer(a) == [a EXCEPT !.deadline = Deadline(a)]

(***************************************************************************)
(* The congestion controller.                                              *)
(***************************************************************************)
Allowance == IF cc.in_flight >= cc.cwnd THEN 0 ELSE cc.cwnd - cc.in_flight

\* newreno_is_cong_limited, newreno_on_data_acked.
CongLimited(c) ==
  \/ c.in_flight >= c.cwnd
  \/ c.cwnd < c.ssthresh /\ c.cwnd - c.in_flight <= c.cwnd \div 2
  \/ c.cwnd - c.in_flight <= 3
OnAcked(c0, p) ==
  LET c == [c0 EXCEPT !.in_flight = @ - 1]
  IN  CASE ~CongLimited(c) \/ p.time <= c.recovery -> c
        [] CongLimited(c) /\ p.time > c.recovery /\ c.cwnd < c.ssthresh ->
             [c EXCEPT !.cwnd = @ + 1]
        [] OTHER ->
             IF c.acked + 1 >= c.cwnd
             THEN [c EXCEPT !.acked = @ + 1 - c.cwnd, !.cwnd = @ + 1]
             ELSE [c EXCEPT !.acked = @ + 1]

\* The packets that are acknowledged are processed from the largest down.
AllAcked(c, pkts) ==
  LET top == Max({p.pn : p \in pkts})
      down[n \in 0 .. top] ==
        LET before == IF n = top THEN c ELSE down[n + 1]
            here == {p \in pkts : p.pn = n}
        IN  IF here = {} THEN before
            ELSE OnAcked(before, CHOOSE p \in here : TRUE)
  IN  IF pkts = {} THEN c ELSE down[0]

\* Fault: every new loss shrinks the window, whenever the packet was sent.
CongAgain(c, tx_time) ==
  [c EXCEPT !.recovery = now, !.ssthresh = c.cwnd \div 2,
            !.cwnd = Max({c.cwnd \div 2, MinWnd})]

\* newreno_cong: no reaction to a loss that was sent before recovery began.
Cong(c, tx_time) ==
  IF tx_time <= c.recovery THEN c
  ELSE [c EXCEPT !.recovery = now, !.ssthresh = c.cwnd \div 2,
                 !.cwnd = Max({c.cwnd \div 2, MinWnd})]

\* newreno_on_data_lost for each packet, then newreno_on_data_lost_finished.
AllLost(c0, pkts) ==
  LET fresh == {p.time : p \in pkts} \cap {t \in 1 .. now : t > c0.last_loss}
      c == [c0 EXCEPT !.in_flight = @ - Cardinality(pkts)]
  IN  IF fresh = {} THEN c
      ELSE Cong([c EXCEPT !.acked = 0, !.last_loss = Max(fresh)], Max(fresh))

(***************************************************************************)
(* Packets received.                                                       *)
(***************************************************************************)
\* The set of packet numbers is kept as ranges: the n highest of them.
Starts(S) == {p \in S : p - 1 \notin S}
TopRanges(S, n) == {p \in S : Cardinality({q \in Starts(S) : q > p}) < n}

\* rx_pkt_history_bump_watermark.
Bump(h, w) ==
  IF w <= h.watermark THEN h
  ELSE [h EXCEPT !.set = {p \in @ : p >= w}, !.watermark = w]

\* Fault: the ranges trimmed off are forgotten, and the watermark stays.
AddPnNoBump(h, pn) ==
  [h EXCEPT !.set = TopRanges(@ \cup {pn}, MAX_RX_ACK_RANGES)]

\* rx_pkt_history_add_pn with rx_pkt_history_trim_range_count.
AddPn(h, pn) ==
  LET all == h.set \cup {pn}
      kept == TopRanges(all, MAX_RX_ACK_RANGES)
  IN  IF kept = all THEN [h EXCEPT !.set = all]
      ELSE Bump([h EXCEPT !.set = kept], Max(all \ kept) + 1)

\* ossl_ackm_is_rx_pn_processable.
Processable(h, pn) == pn >= h.watermark /\ pn \notin h.set

WasMissing(h, pn) == h.ack # {} /\ pn <= Max(h.ack) /\ pn \notin h.ack
NewlyMissing(h) ==
  /\ h.set # {} /\ h.ack # {}
  /\ Max(h.set) \in Starts(h.set)
  /\ Max(h.set) > Max(h.ack) + 1

\* Fault: the delay is granted in every space.
OnElicitingDelayed(h, s, was_missing) ==
  CASE h.desired -> h
    [] ~h.desired /\ (~h.generated \/ was_missing \/ h.since + 1 >= 2 \/ NewlyMissing(h)) ->
         [h EXCEPT !.since = @ + 1, !.desired = TRUE, !.flush = Never]
    [] OTHER -> [h EXCEPT !.since = @ + 1, !.flush = Min({@, now + tx_max_ack_delay})]

\* ackm_on_rx_ack_eliciting: an ACK at once, or by the flush deadline.
OnEliciting(h, s, was_missing) ==
  LET delay == IF s = APP THEN tx_max_ack_delay ELSE 0
  IN  CASE h.desired -> h
        [] ~h.desired /\ (~h.generated \/ was_missing \/ h.since + 1 >= 2 \/ NewlyMissing(h)) ->
             [h EXCEPT !.since = @ + 1, !.desired = TRUE, !.flush = Never]
        [] OTHER -> [h EXCEPT !.since = @ + 1, !.flush = Min({@, now + delay})]

\* on_rx_packet for a packet whose frames have been processed: h is what they
\* left of the history.
OnRxPacket(h, s, pn, eliciting) ==
  LET g == AddPn(h, pn)
  IN  CASE ~Processable(h, pn) -> h
        [] Processable(h, pn) /\ eliciting -> OnEliciting(g, s, WasMissing(h, pn))
        [] OTHER -> g

(***************************************************************************)
(* What becomes of the packets sent.                                       *)
(***************************************************************************)
InFlight(pkts) == {p \in pkts : p.inflight}
Eliciting(pkts) == {p \in pkts : p.eliciting}
Remove(a, s, pkts) ==
  [a EXCEPT !.tx[s] = @ \ pkts, !.in_flight = @ - Cardinality(InFlight(pkts)),
            !.eliciting[s] = @ - Cardinality(Eliciting(pkts))]

\* The callback made for each packet, and what the packetiser does when it is
\* on_lost: an ACK frame is repeated (on_regen_notify).
Tell(t, s, pkts, what) ==
  [t EXCEPT ![s] = [pn \in DOMAIN @ |->
                      @[pn] \cup {what : p \in {q \in pkts : q.pn = pn}}]]
Regen(s, pkts) ==
  [txp EXCEPT !.want_ack[s] = @ \/ \E p \in pkts : p.largest # NONE]

\* ackm_detect_and_remove_lost_pkts: what is lost among pkts, and when the
\* next of the others will be.
LostOf(pkts, largest, delay) ==
  {p \in pkts : /\ p.pn <= largest
                /\ p.time <= now - delay \/ largest >= p.pn + K_PKT_THRESHOLD}
LossTime(pkts, largest, delay) ==
  LET due == {p.time + delay : p \in {q \in pkts : q.pn <= largest}}
  IN  IF due = {} THEN 0 ELSE Min(due)

\* ossl_ackm_on_pkt_space_discarded, which ch_discard_el calls.  The probes
\* still pending for the space stay pending.
Discarded(a, s) ==
  SetTimer([Remove(a, s, a.tx[s]) EXCEPT
    !.last_eliciting[s] = 0, !.loss_time[s] = 0, !.pto_count = 0,
    !.eliciting[s] = 0, !.discarded[s] = TRUE,
    !.validated = @ \/ s = HANDSHAKE])

\* Fault: the controller is not told that the packets are gone.
InvalidatedNot(c, pkts) == c

Invalidated(c, pkts) == [c EXCEPT !.in_flight = @ - Cardinality(InFlight(pkts))]

\* The Initial space goes with the first Handshake packet that is sent (by a
\* client) or received (by a server): the packets it takes along.
Outdated(s, is_server) ==
  IF s = HANDSHAKE /\ case.is_server = is_server THEN ackm.tx[INITIAL] ELSE {}
WithoutInitial(a, s, is_server) ==
  IF s = HANDSHAKE /\ case.is_server = is_server /\ ~a.discarded[INITIAL]
  THEN Discarded(a, INITIAL) ELSE a

(***************************************************************************)
(* Sending.                                                                *)
(***************************************************************************)
\* ossl_ackm_is_ack_desired, or the packetiser has to repeat an ACK.
WantsAck(s) == txp.want_ack[s] \/ rx[s].desired \/ now >= rx[s].flush

\* ossl_ackm_get_ack_frame: what the frame acknowledges.  The frame is not
\* sent if that is nothing.
AckFrame(s) == TopRanges(rx[s].set, NELEM_ack_ranges)
Generated(s) ==
  [rx EXCEPT ![s] = [@ EXCEPT !.ack = AckFrame(s), !.since = 0,
                              !.generated = TRUE, !.desired = FALSE, !.flush = Never]]

\* txp_pkt_commit with ossl_ackm_on_tx_packet.
OnTxPacket(a, p, s) ==
  LET less(x) == IF x > 0 THEN x - 1 ELSE 0
      b == [a EXCEPT !.tx[s] = @ \cup {p}]
      f == [b EXCEPT !.in_flight = @ + 1]
      e == [f EXCEPT !.last_eliciting[s] = p.time, !.eliciting[s] = @ + 1]
  IN  CASE ~p.inflight -> b
        [] p.inflight /\ ~p.eliciting -> SetTimer(f)
        [] OTHER -> [SetTimer(e) EXCEPT !.probe[s] = less(@),
                                        !.anti_deadlock[s] = less(@)]

Owes(s) == ackm.probe[s] + ackm.anti_deadlock[s] > 0 /\ ~ackm.discarded[s]

Budget == Allowance > 0 \/ Total(ackm.probe) + Total(ackm.anti_deadlock) > 0

\* The ACK frames that the next datagram would carry.
Acking == {s \in Spaces : ~ackm.discarded[s] /\ WantsAck(s)}
InitialAck == INITIAL \in Acking /\ AckFrame(INITIAL) # {}

\* One packet of ossl_quic_tx_packetiser_generate.  With no congestion window
\* left only a probe or a packet with nothing but an ACK frame can be sent
\* (txp_determine_archetype); a space that owes a probe sends one, before the
\* spaces above it, which follow in the datagram, send anything.  An ACK
\* frame is generated whenever one is wanted.  A datagram with an Initial packet
\* is padded if it is too small, and the first packet of it that can be padded
\* counts as in flight from then on; without a budget none can be.
Send(s, eliciting, padded) ==
  LET acks == WantsAck(s) /\ AckFrame(s) # {}
      p == [pn |-> txp.next_pn[s], time |-> now, eliciting |-> eliciting,
            inflight |-> eliciting \/ padded,
            largest |-> IF acks THEN Max(AckFrame(s)) ELSE NONE]
  IN
  /\ queue = {}
  /\ ~ackm.discarded[s]
  /\ txp.next_pn[s] < case.tx[s]
  /\ eliciting \/ WantsAck(s)
  /\ Budget \/ ~(eliciting \/ padded \/ InitialAck)
  /\ padded => s # APP /\ ~eliciting
  /\ \A u \in Spaces : Owes(u) => u > s \/ (u = s /\ eliciting)
  /\ rx' = IF WantsAck(s) THEN Generated(s) ELSE rx
  /\ IF eliciting \/ acks
     THEN /\ ackm' = WithoutInitial(OnTxPacket(ackm, p, s), s, FALSE)
          /\ cc' = LET c == IF p.inflight THEN [cc EXCEPT !.in_flight = @ + 1] ELSE cc
                   IN  Invalidated(c, Outdated(s, FALSE))
          /\ told' = Tell(told, INITIAL, Outdated(s, FALSE), "discarded")
          /\ txp' = [txp EXCEPT !.next_pn[s] = @ + 1, !.want_ack[s] = @ /\ ~acks]
          /\ owed' = IF acks THEN [owed EXCEPT ![s] = {}] ELSE owed
          /\ unsent' = IF acks THEN [unsent EXCEPT ![s] = {}] ELSE unsent
     ELSE UNCHANGED <<ackm, cc, told, txp, owed, unsent>>
  /\ UNCHANGED <<case, now, queue, ch, undone, times, together>>

\* A datagram that is given up after its ACK frames were generated: one with an
\* Initial packet that cannot be padded, or one of a server whose credit is too
\* small before a Handshake packet of the client has validated its address.
GiveUp ==
  /\ queue = {}
  /\ InitialAck
  /\ ~Budget \/ case.is_server
  /\ rx' = [s \in Spaces |-> IF s \in Acking THEN Generated(s)[s] ELSE rx[s]]
  /\ unsent' = [s \in Spaces |-> IF s \in Acking THEN unsent[s] \cup owed[s] ELSE unsent[s]]
  /\ owed' = [s \in Spaces |-> IF s \in Acking THEN {} ELSE owed[s]]
  /\ UNCHANGED <<case, now, ackm, cc, txp, queue, ch, told, undone, times, together>>

(***************************************************************************)
(* Receiving.                                                              *)
(***************************************************************************)
\* ossl_ackm_on_rx_ack_frame for a frame that acknowledges the packets pns, of
\* which newly are in the history.
AckSeen(a, s, pns) ==
  [a EXCEPT !.largest_acked[s] = Max(pns \cup {@}),
            !.validated = @ \/ s = HANDSHAKE]

\* Fault: a lost packet that was not in flight stays in the history.
AckedLostKept(a, s, newly, lost, delay) ==
  SetTimer([Remove(Remove(a, s, newly), s, InFlight(lost)) EXCEPT
    !.loss_time[s] = LossTime(a.tx[s] \ (newly \cup lost), a.largest_acked[s], delay),
    !.pto_count = IF a.validated THEN 0 ELSE @])

AckedLost(a, s, newly, lost, delay) ==
  SetTimer([Remove(Remove(a, s, newly), s, lost) EXCEPT
    !.loss_time[s] = LossTime(a.tx[s] \ (newly \cup lost), a.largest_acked[s], delay),
    !.pto_count = IF a.validated THEN 0 ELSE @])

Confirmed(newly) == Max({p.largest : p \in InFlight(newly)} \cup {NONE}) + 1

\* A packet of the peer with an ACK frame or (pns = {}) without one
\* (ossl_quic_handle_frames).  The peer sent it after it got the packets it
\* acknowledges, so its number is above those they acknowledge.  Losses are
\* dealt with before acknowledgements, and the number is recorded last.
HandleFrames(s, pn, eliciting, pns) ==
  LET a0 == WithoutInitial(ackm, s, TRUE)
      c0 == Invalidated(cc, Outdated(s, TRUE))
      t0 == Tell(told, INITIAL, Outdated(s, TRUE), "discarded")
      a == AckSeen(a0, s, pns)
      newly == {p \in a.tx[s] : p.pn \in pns}
  IN
  /\ \A p \in newly : p.largest < pn
  /\ IF newly = {}
     THEN /\ ackm' = CASE pns = {} -> a0
                       [] pns # {} /\ a.validated = a0.validated -> a
                       [] OTHER -> SetTimer(a)
          /\ cc' = c0
          /\ told' = t0
          /\ UNCHANGED txp
     ELSE \E delay \in LossDelays :
       LET lost == LostOf(a.tx[s] \ newly, a.largest_acked[s], delay)
       IN  /\ ackm' = AckedLost(a, s, newly, lost, delay)
           /\ cc' = AllAcked(AllLost(c0, InFlight(lost)), InFlight(newly))
           /\ told' = Tell(Tell(t0, s, lost, "lost"), s, newly, "acked")
           /\ txp' = Regen(s, lost)
  /\ rx' = [rx EXCEPT ![s] = OnRxPacket(Bump(@, Confirmed(newly)), s, pn, eliciting)]
  /\ ch' = [ch EXCEPT !.processed = TRUE, !.received = TRUE]
  /\ times' = [times EXCEPT ![s][pn] = @ + 1]
  /\ owed' = IF eliciting THEN [owed EXCEPT ![s] = @ \cup {<<pn, now>>}] ELSE owed
  /\ UNCHANGED <<case, now, undone, unsent>>

\* Packets are decrypted unless their number was processed or written off.
Decryptable(s, pn) == ~ackm.discarded[s] /\ Processable(rx[s], pn)

\* What may be decrypted along with packet pn of space s: another packet, or a
\* second copy of that one.
Along(s, pn, eliciting) ==
  {q \in [space : Spaces, pn : UNION {DOMAIN times[u] : u \in Spaces},
          eliciting : BOOLEAN, copy : BOOLEAN] :
     /\ q.pn \in DOMAIN times[q.space]
     /\ Decryptable(q.space, q.pn)
     /\ q.copy = (q.space = s /\ q.pn = pn)
     /\ q.copy => q.eliciting = eliciting}

\* ch_rx reads packets when none is left that was decrypted: all that have
\* arrived are decrypted (qrx_process_pending_urxl), at most case.batch here, and
\* then processed one by one.  This is the first.
Receive(s, pn, eliciting, pns) ==
  /\ queue = {}
  /\ Decryptable(s, pn)
  /\ HandleFrames(s, pn, eliciting, pns)
  /\ \/ UNCHANGED <<queue, together>>
     \/ /\ case.batch = 2
        /\ \E q \in Along(s, pn, eliciting) :
             /\ queue' = {q}
             /\ together' = together \cup {<<s, pn>> : c \in {TRUE} \cap {q.copy}}

\* The next one is not checked again: it is dropped only if its space is gone by
\* now.  (What a copy acknowledges was acknowledged by the packet.)
ReceiveNext ==
  \E q \in queue : \E pns \in SUBSET (0 .. txp.next_pn[q.space] - 1) :
    /\ queue' = queue \ {q}
    /\ q.copy => pns = {}
    /\ IF ackm.discarded[q.space]
       THEN UNCHANGED <<case, now, ackm, cc, rx, txp, ch, told, undone, times, owed, unsent>>
       ELSE HandleFrames(q.space, q.pn, q.eliciting, pns)
    /\ UNCHANGED together

(***************************************************************************)
(* The rest of the channel.                                                *)
(***************************************************************************)
\* ossl_ackm_on_timeout, which the tick calls at or after the deadline: the
\* loss timer, or the probe timer.
TimeoutLoses ==
  LET s == LossSpace(ackm)
  IN  \E delay \in LossDelays :
        LET lost == LostOf(ackm.tx[s], ackm.largest_acked[s], delay)
        IN  /\ ackm' = SetTimer([Remove(ackm, s, lost) EXCEPT !.loss_time[s] =
                 LossTime(ackm.tx[s] \ lost, ackm.largest_acked[s], delay)])
            /\ cc' = AllLost(cc, InFlight(lost))
            /\ told' = Tell(told, s, lost, "lost")
            /\ txp' = Regen(s, lost)
TimeoutProbes ==
  LET i == IF ackm.discarded[INITIAL] THEN HANDSHAKE ELSE INITIAL
      a == IF Total(ackm.eliciting) = 0
           THEN [ackm EXCEPT !.anti_deadlock[i] = @ + 1]
           ELSE [ackm EXCEPT !.probe[PtoSpace(ackm)] = @ + 1]
  IN  /\ ackm' = SetTimer([a EXCEPT !.pto_count = @ + 1])
      /\ UNCHANGED <<cc, told, txp>>
OnTimeout ==
  /\ queue = {}
  /\ ackm.deadline # 0 /\ now >= ackm.deadline
  /\ IF ackm.loss_time[LossSpace(ackm)] # 0 THEN TimeoutLoses ELSE TimeoutProbes
  /\ UNCHANGED <<case, now, rx, queue, ch, undone, times, together, owed, unsent>>

\* Fault: the timer is set before the handshake counts as confirmed, not after.
HandshakeConfirmedLate ==
  /\ ~ackm.confirmed
  /\ ackm.discarded[INITIAL]
  /\ ackm' = [Discarded(ackm, HANDSHAKE) EXCEPT !.confirmed = TRUE, !.validated = TRUE]
  /\ cc' = Invalidated(cc, ackm.tx[HANDSHAKE])
  /\ told' = Tell(told, HANDSHAKE, ackm.tx[HANDSHAKE], "discarded")
  /\ UNCHANGED <<case, now, rx, txp, queue, ch, undone, times, together, owed, unsent>>

\* ossl_quic_channel_on_handshake_confirmed.
HandshakeConfirmed ==
  /\ ~ackm.confirmed
  /\ ackm.discarded[INITIAL]
  /\ ackm' = SetTimer([Discarded(ackm, HANDSHAKE) EXCEPT
                         !.confirmed = TRUE, !.validated = TRUE])
  /\ cc' = Invalidated(cc, ackm.tx[HANDSHAKE])
  /\ told' = Tell(told, HANDSHAKE, ackm.tx[HANDSHAKE], "discarded")
  /\ UNCHANGED <<case, now, rx, txp, queue, ch, undone, times, together, owed, unsent>>

\* ch_restart and ch_retry, before the server has answered with a packet of its
\* own: an Initial packet is declared lost without a word to the controller, and
\* the timer is left as it is.  Version negotiation comes first if at all and
\* drops packet 0; a Retry, taken once, drops packet 0 if it is the first answer
\* and packet 1 otherwise (an answer that was ignored counts as one).
PseudoLost ==
  /\ ~case.is_server /\ ~ch.received
  /\ \E p \in ackm.tx[INITIAL] :
       /\ \/ /\ ~ch.processed /\ p.pn = 0
             /\ ch' = [ch EXCEPT !.processed = TRUE]
          \/ /\ ~ch.retry /\ p.pn \in {0, 1} /\ (ch.processed => p.pn = 1)
             /\ ch' = [ch EXCEPT !.processed = TRUE, !.retry = TRUE]
       /\ ackm' = Remove(ackm, INITIAL, {p})
       /\ txp' = Regen(INITIAL, {p})
       /\ told' = Tell(told, INITIAL, {p}, "lost")
       /\ undone' = undone + Cardinality(InFlight({p}))
  /\ UNCHANGED <<case, now, cc, rx, queue, times, together, owed, unsent>>

Tick ==
  /\ queue = {}
  /\ now < case.time
  /\ now' = now + 1
  /\ UNCHANGED <<case, ackm, cc, rx, txp, queue, ch, told, undone, times, together, owed, unsent>>

Next ==
  \/ \E s \in Spaces, eliciting \in BOOLEAN :
       \/ \E padded \in BOOLEAN : Send(s, eliciting, padded)
       \/ \E pn \in DOMAIN times[s], pns \in SUBSET (0 .. txp.next_pn[s] - 1) :
            Receive(s, pn, eliciting, pns)
  \/ GiveUp
  \/ ReceiveNext
  \/ OnTimeout
  \/ HandshakeConfirmed
  \/ PseudoLost
  \/ Tick

Spec == Init /\ [][Next]_vars

(***************************************************************************)
(* Properties                                                              *)
(***************************************************************************)
PacketType ==
  [pn : Nat, time : Nat, eliciting : BOOLEAN, inflight : BOOLEAN, largest : Nat \cup {NONE}]

\* The state is well formed: counters never go below zero (they are unsigned),
\* only numbers that were sent are acknowledged, and the ranges of a history
\* stay within MAX_RX_ACK_RANGES and above its watermark.
TypeOK ==
  /\ \A s \in Spaces :
       /\ ackm.tx[s] \subseteq PacketType
       /\ \A p \in ackm.tx[s] : p.pn < txp.next_pn[s]
       /\ ackm.largest_acked[s] \in NONE .. txp.next_pn[s] - 1
       /\ {ackm.last_eliciting[s], ackm.loss_time[s], ackm.eliciting[s], ackm.probe[s],
           ackm.anti_deadlock[s], rx[s].since, rx[s].flush} \subseteq Nat
       /\ Cardinality(Starts(rx[s].set)) <= MAX_RX_ACK_RANGES
       /\ \A pn \in rx[s].set : pn >= rx[s].watermark
  /\ {ackm.deadline, ackm.in_flight, ackm.pto_count, cc.in_flight, cc.acked,
      cc.recovery, cc.last_loss} \subseteq Nat
  /\ cc.cwnd >= MinWnd /\ cc.ssthresh \in Nat

\* The bytes in flight are counted three times over, by the ACK manager, per
\* space and by the congestion controller, and each handler adjusts every
\* count on its own: they always add up to the packets in the histories.
\* (What the controller is not told of a pseudo-loss is in undone.)
InFlightExact ==
  /\ \A s \in Spaces : ackm.eliciting[s] = Cardinality(Eliciting(ackm.tx[s]))
  /\ ackm.in_flight = Total([s \in Spaces |-> Cardinality(InFlight(ackm.tx[s]))])
  /\ cc.in_flight = ackm.in_flight + undone

\* Whatever order acknowledgements, losses, timeouts, retries and discarded
\* spaces come in, every packet sent is either still in the history or exactly
\* one of its callbacks was made: a second one would be a use after free (the
\* callbacks release the packet), none would lose its frames for good.
ResolvedOnce ==
  \A s \in Spaces : \A pn \in DOMAIN told[s] :
    Cardinality(told[s][pn]) =
      IF pn < txp.next_pn[s] /\ \A p \in ackm.tx[s] : p.pn # pn THEN 1 ELSE 0

\* While a packet that must be acknowledged is in flight the loss detection
\* timer runs, except for 1-RTT packets sent before the handshake is confirmed:
\* otherwise both ends could wait for ever.  With nothing in flight it runs only
\* while the peer may be blocked by its anti-amplification limit, as assertions
\* of ossl_ackm_on_timeout and ackm_get_pto_time_and_space take for granted.
TimerArmed ==
  /\ \A s \in Spaces :
       ackm.eliciting[s] > 0 /\ (s = APP => ackm.confirmed)
         => ackm.deadline \notin {0, Never}
  /\ /\ ackm.deadline # 0 /\ ackm.loss_time[LossSpace(ackm)] = 0
     /\ Total(ackm.eliciting) = 0
     => ~ackm.validated

\* The congestion window shrinks at most once for the losses of one flight: a
\* step that shrinks it loses a packet that was sent after the last reduction.
OneReduction ==
  [][cc'.cwnd < cc.cwnd =>
       \E s \in Spaces : \E p \in ackm.tx[s] :
         /\ told'[s][p.pn] = {"lost"}
         /\ p.inflight /\ p.time > cc.recovery]_vars

\* A packet is processed once, although the history is trimmed to
\* MAX_RX_ACK_RANGES ranges and cut at the watermark: a copy that comes later has
\* its frames applied again only if it was decrypted together with the first.
NoDuplicate ==
  \A s \in Spaces : \A pn \in DOMAIN times[s] :
    times[s][pn] <= IF <<s, pn>> \in together THEN 2 ELSE 1

\* An ack-eliciting packet is acknowledged in time: until an ACK frame has been
\* generated after it, one is desired, or will be no later than the delay this
\* end has promised after the packet came.
Due(s, o) ==
  o[1] \in rx[s].set =>
    \/ rx[s].desired
    \/ rx[s].flush <= o[2] + (IF s = APP THEN tx_max_ack_delay ELSE 0)
AckDue == \A s \in Spaces : ~ackm.discarded[s] => \A o \in owed[s] : Due(s, o)

\* "Potential duplicates should not be processed" (rx_late_validate).
NeverTwice == \A s \in Spaces : \A pn \in DOMAIN times[s] : times[s][pn] <= 1

\* What AckDue says, of the packets whose ACK frame was given up too: RFC 9000
\* s. 13.2.1, quoted at ackm_on_rx_ack_eliciting.
AckSent ==
  \A s \in Spaces : ~ackm.discarded[s] => \A o \in owed[s] \cup unsent[s] : Due(s, o)

\* What txp_determine_archetype says of probes: a packet is sent past the
\* congestion window only because some space wants a probe, and then can send
\* it, so a probe is never pending for a space that is gone.
ProbesLive ==
  \A s \in Spaces :
    ackm.probe[s] + ackm.anti_deadlock[s] > 0 => ~ackm.discarded[s]

\* The controller knows what is in flight (quic_cc.h: a packet that is undone
\* without being a loss is reported by on_data_invalidated).
CcExact == cc.in_flight = ackm.in_flight

\* Rule (B) of the received packet numbers: a number above the watermark is in
\* every ACK frame that is generated.
ReportsAll == \A s \in Spaces : AckFrame(s) = rx[s].set
=============================================================================
