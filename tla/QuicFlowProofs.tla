---------------------------- MODULE QuicFlowProofs ----------------------------
(***************************************************************************)
(* Proofs about QUIC flow control, for any number of streams, any windows  *)
(* and any amount of data: a sender that obeys its flow controllers is     *)
(* never found in error, both ends count alike, and the receiver's buffer  *)
(* is bounded.                                                             *)
(***************************************************************************)
EXTENDS QuicFlow, SumTheorems

\* TypeOK, with the variables one by one and with the frames, of which a
\* RESET_STREAM always gives the final size.
Frames == {g \in [s : Streams, off : Nat, end : Nat, fin : BOOLEAN, reset : BOOLEAN] :
             g.reset => g.fin}
Types ==
  /\ txswm \in [FCs -> Nat] /\ txcwm \in [FCs -> Nat]
  /\ swm \in [FCs -> Nat] /\ cwm \in [FCs -> Nat] /\ rwm \in [FCs -> Nat]
  /\ cur_window_size \in [FCs -> Nat]
  /\ send_state \in [Streams -> {"SEND", "DATA_SENT", "RESET_SENT"}]
  /\ hwm \in [Streams -> 0 .. Size]
  /\ is_fin \in [FCs -> BOOLEAN] /\ has_cwm_changed \in [FCs -> BOOLEAN]
  /\ want_max \in [FCs -> BOOLEAN]
  /\ error_code \in [FCs -> {"NO_ERROR", "FLOW_CONTROL_ERROR", "FINAL_SIZE_ERROR"}]
  /\ recv_state \in [Streams -> RecvStates]
  /\ rstream \in [Streams -> SUBSET (0 .. Size - 1)]
  /\ frames \subseteq Frames /\ pkts \subseteq Packets /\ abandoned \subseteq Streams

\* No frame goes past what its stream has spent; one with a FIN ends there, and
\* its stream spends no more.
SenderInv ==
  /\ \A s \in Streams : txswm[s] <= Size
  /\ \A f \in frames :
       /\ f.end <= txswm[f.s]
       /\ f.fin => f.end = txswm[f.s] /\ send_state[f.s] # "SEND"

\* The receiver's view of a stream: what its controller has counted is the
\* highest length it has seen, which was sent; a final size is that of a stream
\* that spends no more; what is buffered and what is read lies below.
ReceiverInv ==
  \A s \in Streams :
    /\ swm[s] = hwm[s] /\ hwm[s] <= txswm[s]
    /\ is_fin[s] => hwm[s] = txswm[s] /\ send_state[s] # "SEND"
    /\ rstream[s] \subseteq 0 .. hwm[s] - 1
    /\ rwm[s] <= hwm[s]

\* Credit: spent, known, under way and granted, and the windows.
CreditInv ==
  \A f \in FCs :
    /\ txswm[f] <= txcwm[f] /\ txcwm[f] <= cwm[f]
    /\ \A p \in pkts : p.credit[f] <= cwm[f]
    /\ cwm[f] - rwm[f] <= max_window_size[f]
    /\ cur_window_size[f] <= max_window_size[f]

NoErrors == \A f \in FCs : error_code[f] = "NO_ERROR"

\* The connection's controllers, one by one.
Sums ==
  /\ txswm[Conn] = SumFunctionOnSet(txswm, Streams)
  /\ swm[Conn] = SumFunctionOnSet(swm, Streams)
  /\ rwm[Conn] = SumFunctionOnSet(rwm, Streams)

IInv == Types /\ SenderInv /\ ReceiverInv /\ CreditInv /\ NoErrors /\ Sums

-----------------------------------------------------------------------------
\* Facts about the constants.
LEMMA Consts ==
  /\ IsFiniteSet(Streams) /\ Conn \notin Streams
  /\ Size \in Nat /\ StreamWnd \in Nat /\ ConnWnd \in Nat /\ WndMul \in Nat
  /\ Size > 0 /\ StreamWnd > 0 /\ ConnWnd > 0 /\ WndMul > 0
  /\ FCs = Streams \cup {Conn}
BY FlowAssumption DEF FCs

LEMMA Windows ==
  /\ InitWnd \in [FCs -> Nat] /\ max_window_size \in [FCs -> Nat]
  /\ \A f \in FCs : InitWnd[f] <= max_window_size[f]
<1>1. InitWnd \in [FCs -> Nat]
  BY Consts DEF InitWnd
<1>2. \A m, n \in Nat : m > 0 => m * n \in Nat /\ n <= m * n
  OBVIOUS
<1>3. \A f \in FCs : InitWnd[f] \in Nat /\ WndMul * InitWnd[f] \in Nat
                     /\ InitWnd[f] <= WndMul * InitWnd[f]
  BY <1>1, <1>2, Consts
<1> QED BY <1>1, <1>3 DEF max_window_size

LEMMA InitInv == Init => IInv
<1> SUFFICES ASSUME Init PROVE IInv
  OBVIOUS
<1> USE Consts, Windows
<1>1. Types
  BY DEF Init, Types, RecvStates
<1>2. SenderInv /\ ReceiverInv
  BY DEF Init, SenderInv, ReceiverInv
<1>3. CreditInv /\ NoErrors
  BY DEF Init, CreditInv, NoErrors
<1>4. Sums
  <2>1. \A s \in Streams : txswm[s] = 0 /\ swm[s] = 0 /\ rwm[s] = 0
    BY DEF Init
  <2>2. txswm[Conn] = 0 /\ swm[Conn] = 0 /\ rwm[Conn] = 0
    BY DEF Init
  <2> QED BY <2>1, <2>2, SumZero DEF Sums
<1> QED BY <1>1, <1>2, <1>3, <1>4 DEF IInv

-----------------------------------------------------------------------------
(* The sender's steps.                                                     *)

LEMMA SendDataInv ==
  ASSUME IInv, NEW len \in [Streams -> 0 .. Size], SendData(len)
  PROVE  IInv'
<1> USE Consts, Windows
<1> DEFINE total == SumFunctionOnSet(len, Streams)
<1>0. Types /\ SenderInv /\ ReceiverInv /\ CreditInv /\ NoErrors /\ Sums
  BY DEF IInv
<1>1. total \in Nat /\ \A s \in Streams : len[s] \in Nat
  BY SumType
<1> HIDE DEF total
<1>2. PICK fin \in SUBSET {s \in Streams : len[s] > 0 /\ txswm'[s] = Size} :
        frames' = frames \cup stream_frames(len, fin) /\ send_state' = all_data_sent(fin)
  BY DEF SendData
<1>3. \A s \in Streams : len[s] > 0 => /\ send_state[s] = "SEND"
                                       /\ txswm[s] + len[s] <= Size
                                       /\ txswm[s] + len[s] <= txcwm[s]
  BY <1>0, <1>1 DEF SendData, Lesser, credit_local, Types
<1>4. txswm[Conn] + total <= txcwm[Conn]
  BY <1>0, <1>1 DEF SendData, credit_local, Types, total
<1>5. /\ txswm' \in [FCs -> Nat] /\ txswm'[Conn] = txswm[Conn] + total
      /\ \A s \in Streams : txswm'[s] = txswm[s] + len[s]
  BY <1>0, <1>1 DEF SendData, consume_credit, Types, total
<1>6. UNCHANGED <<txcwm, rxVars, pkts, abandoned>>
  BY DEF SendData
<1>7. \A s \in Streams : /\ send_state[s] # "SEND" => send_state'[s] # "SEND" /\ len[s] = 0
                         /\ s \in fin => send_state'[s] = "DATA_SENT"
  BY <1>0, <1>1, <1>2, <1>3 DEF all_data_sent, Types
<1>8. \A g \in stream_frames(len, fin) :
        g \in Frames /\ g.end = txswm'[g.s] /\ (g.fin => g.s \in fin)
  <2> SUFFICES ASSUME NEW g \in stream_frames(len, fin)
               PROVE  g \in Frames /\ g.end = txswm'[g.s] /\ (g.fin => g.s \in fin)
    OBVIOUS
  <2>1. PICK s \in Streams :
          g = [s |-> s, off |-> txswm[s], end |-> txswm[s] + len[s], fin |-> s \in fin,
               reset |-> FALSE]
    BY DEF stream_frames
  <2>2. txswm[s] \in Nat /\ txswm[s] + len[s] \in Nat /\ txswm'[s] = txswm[s] + len[s]
    BY <1>0, <1>1, <1>5 DEF Types
  <2>3. (s \in fin) \in BOOLEAN
    OBVIOUS
  <2>4. g \in [s : Streams, off : Nat, end : Nat, fin : BOOLEAN, reset : BOOLEAN]
    BY <2>1, <2>2, <2>3, Zenon
  <2>5. g.s = s /\ g.end = txswm[s] + len[s] /\ (g.fin => s \in fin) /\ ~g.reset
    BY <2>1
  <2> QED BY <2>2, <2>4, <2>5 DEF Frames
<1>9. Types'
  <2>1. send_state' \in [Streams -> {"SEND", "DATA_SENT", "RESET_SENT"}]
    BY <1>0, <1>2 DEF all_data_sent, Types
  <2>2. frames' \subseteq Frames
    BY <1>0, <1>2, <1>8 DEF Types
  <2> QED BY <1>0, <1>5, <1>6, <2>1, <2>2 DEF Types, rxVars
<1>10. SenderInv'
  <2>1. \A s \in Streams : txswm'[s] <= Size
    BY <1>0, <1>1, <1>3, <1>5 DEF SenderInv, Types
  <2>2. ASSUME NEW g \in frames
        PROVE  g.end <= txswm'[g.s] /\ (g.fin => g.end = txswm'[g.s] /\ send_state'[g.s] # "SEND")
    <3>1. g.s \in Streams /\ g.end \in Nat
      BY <1>0, <2>2 DEF Types, Frames
    <3>2. g.end <= txswm[g.s] /\ (g.fin => g.end = txswm[g.s] /\ send_state[g.s] # "SEND")
      BY <1>0, <2>2 DEF SenderInv
    <3> QED BY <1>0, <1>1, <1>5, <1>7, <3>1, <3>2 DEF Types
  <2>3. ASSUME NEW g \in stream_frames(len, fin)
        PROVE  g.end <= txswm'[g.s] /\ (g.fin => g.end = txswm'[g.s] /\ send_state'[g.s] # "SEND")
    <3>1. g.s \in Streams /\ g.end \in Nat
      BY <1>8, <2>3 DEF Frames
    <3> QED BY <1>2, <1>5, <1>7, <1>8, <2>3, <3>1
  <2> QED BY <1>2, <2>1, <2>2, <2>3 DEF SenderInv
<1>11. ReceiverInv'
  BY <1>0, <1>1, <1>5, <1>6, <1>7 DEF ReceiverInv, Types, rxVars
<1>12. CreditInv'
  <2>1. \A f \in FCs : txswm'[f] <= txcwm'[f]
    BY <1>0, <1>1, <1>3, <1>4, <1>5, <1>6 DEF CreditInv, Types
  <2> QED BY <1>0, <1>6, <2>1 DEF CreditInv, rxVars
<1>13. NoErrors'
  BY <1>0, <1>6 DEF NoErrors, rxVars
<1>14. Sums'
  <2>1. SumFunctionOnSet(txswm', Streams) = SumFunctionOnSet(txswm, Streams) + total
    <3>1. \A s \in Streams : txswm[s] \in Nat /\ len[s] \in Nat /\ txswm'[s] = txswm[s] + len[s]
      BY <1>0, <1>1, <1>5 DEF Types
    <3> QED BY <3>1, SumAdd DEF total
  <2> QED BY <1>0, <1>5, <1>6, <2>1 DEF Sums, rxVars
<1> QED BY <1>9, <1>10, <1>11, <1>12, <1>13, <1>14 DEF IInv

\* A frame with the FIN, or a reset, of a stream that spends no more: SendFin
\* and ResetStream add one and leave the credit alone.
LEMMA FinSentInv ==
  ASSUME IInv, NEW s \in Streams, NEW g \in Frames, g.s = s, g.end = txswm[s],
         frames' = frames \cup {g}, NEW v \in {"DATA_SENT", "RESET_SENT"},
         \A t \in Streams : send_state'[t] = IF t = s THEN v ELSE send_state[t],
         send_state' \in [Streams -> {"SEND", "DATA_SENT", "RESET_SENT"}],
         UNCHANGED <<txswm, txcwm, rxVars, pkts, abandoned>>
  PROVE  IInv'
<1> USE Consts
<1>0. Types /\ SenderInv /\ ReceiverInv /\ CreditInv /\ NoErrors /\ Sums
  BY DEF IInv
<1>1. Types'
  BY <1>0 DEF Types, rxVars
<1>2. SenderInv'
  <2>1. ASSUME NEW h \in frames
        PROVE  h.end <= txswm'[h.s] /\ (h.fin => h.end = txswm'[h.s] /\ send_state'[h.s] # "SEND")
    <3>1. h.s \in Streams
      BY <1>0, <2>1 DEF Types, Frames
    <3>2. h.end <= txswm[h.s] /\ (h.fin => h.end = txswm[h.s] /\ send_state[h.s] # "SEND")
      BY <1>0, <2>1 DEF SenderInv
    <3> QED BY <3>1, <3>2
  <2>2. g.end <= txswm'[g.s] /\ g.end = txswm'[g.s] /\ send_state'[g.s] # "SEND"
    BY <1>0 DEF Types
  <2> QED BY <1>0, <2>1, <2>2 DEF SenderInv
<1>3. ReceiverInv'
  BY <1>0 DEF ReceiverInv, rxVars
<1>4. CreditInv' /\ NoErrors' /\ Sums'
  BY <1>0 DEF CreditInv, NoErrors, Sums, rxVars
<1> QED BY <1>1, <1>2, <1>3, <1>4 DEF IInv

LEMMA SendFinInv ==
  ASSUME IInv, NEW s \in Streams, SendFin(s)
  PROVE  IInv'
<1> USE Consts
<1> DEFINE g == [s |-> s, off |-> Size, end |-> Size, fin |-> TRUE, reset |-> FALSE]
<1>0. Types
  BY DEF IInv
<1>1. g \in Frames /\ g.s = s /\ g.end = txswm[s]
  BY DEF SendFin, Frames
<1>2. \A t \in Streams : send_state'[t] = IF t = s THEN "DATA_SENT" ELSE send_state[t]
  BY <1>0 DEF SendFin, all_data_sent, Types
<1>3. send_state' \in [Streams -> {"SEND", "DATA_SENT", "RESET_SENT"}]
  BY <1>0 DEF SendFin, all_data_sent, Types
<1>4. frames' = frames \cup {g} /\ UNCHANGED <<txswm, txcwm, rxVars, pkts, abandoned>>
  BY DEF SendFin
<1> HIDE DEF g
<1> QED BY <1>1, <1>2, <1>3, <1>4, FinSentInv

LEMMA ResetStreamInv ==
  ASSUME IInv, NEW s \in Streams, ResetStream(s)
  PROVE  IInv'
<1> USE Consts
<1> DEFINE g == reset_frame(s)
<1>0. Types
  BY DEF IInv
<1>1. g \in Frames /\ g.s = s /\ g.end = txswm[s]
  BY <1>0 DEF reset_frame, Frames, Types
<1>2. \A t \in Streams : send_state'[t] = IF t = s THEN "RESET_SENT" ELSE send_state[t]
  BY <1>0 DEF ResetStream, Types
<1>3. send_state' \in [Streams -> {"SEND", "DATA_SENT", "RESET_SENT"}]
  BY <1>0 DEF ResetStream, Types
<1>4. frames' = frames \cup {g} /\ UNCHANGED <<txswm, txcwm, rxVars, pkts, abandoned>>
  BY DEF ResetStream
<1> HIDE DEF g
<1> QED BY <1>1, <1>2, <1>3, <1>4, FinSentInv

LEMMA RecvMaxInv ==
  ASSUME IInv, NEW p \in pkts, RecvMax(p)
  PROVE  IInv'
<1> USE Consts
<1>0. Types /\ SenderInv /\ ReceiverInv /\ CreditInv /\ NoErrors /\ Sums
  BY DEF IInv
<1>1. p.credit \in [FCs -> Nat] /\ \A f \in FCs : p.credit[f] <= cwm[f]
  BY <1>0 DEF Types, Packets, CreditInv
<1>2. /\ txcwm' \in [FCs -> Nat]
      /\ \A f \in FCs : txcwm[f] <= txcwm'[f] /\ txcwm'[f] <= cwm[f]
  BY <1>0, <1>1 DEF RecvMax, bump_cwm, Greater, Types, CreditInv
<1>3. pkts' \subseteq pkts /\ UNCHANGED <<txswm, send_state, rxVars, frames, abandoned>>
  BY DEF RecvMax
<1>4. Types'
  BY <1>0, <1>2, <1>3 DEF Types, rxVars
<1>5. SenderInv' /\ ReceiverInv'
  BY <1>0, <1>3 DEF SenderInv, ReceiverInv, rxVars
<1>6. CreditInv'
  <2>1. \A f \in FCs : txswm'[f] <= txcwm'[f]
    BY <1>0, <1>2, <1>3 DEF Types, CreditInv
  <2> QED BY <1>0, <1>2, <1>3, <2>1 DEF CreditInv, rxVars
<1>7. NoErrors' /\ Sums'
  BY <1>0, <1>3 DEF NoErrors, Sums, rxVars
<1> QED BY <1>4, <1>5, <1>6, <1>7 DEF IInv

-----------------------------------------------------------------------------
(* The receiver's steps.                                                   *)

\* What the receiver's controllers make of a frame that the sender may send:
\* no error, and its end is counted for the stream and for the connection.
LEMMA FrameCharged ==
  ASSUME IInv, NEW s \in Streams, NEW end \in Nat, NEW fin \in BOOLEAN,
         end <= txswm[s], fin => end = txswm[s],
         OnRxStreamFrame(s, end, fin)
  PROVE  /\ error_code' = error_code
         /\ swm' \in [FCs -> Nat] /\ hwm' \in [Streams -> 0 .. Size]
         /\ swm'[s] = hwm'[s] /\ end <= hwm'[s] /\ hwm[s] <= hwm'[s] /\ hwm'[s] <= txswm[s]
         /\ fin => hwm'[s] = txswm[s]
         /\ \A t \in Streams \ {s} : swm'[t] = swm[t] /\ hwm'[t] = hwm[t]
         /\ swm[Conn] <= swm'[Conn]
         /\ swm'[Conn] = SumFunctionOnSet(swm', Streams)
<1> USE Consts
<1> DEFINE top == Greater(hwm[s], end)
           delta == Greater(end - hwm[s], 0)
           charged == [f \in FCs |-> IF f \in {s, Conn} THEN swm[f] + delta ELSE swm[f]]
<1>0. Types /\ SenderInv /\ ReceiverInv /\ CreditInv /\ NoErrors /\ Sums
  BY DEF IInv
<1>1. /\ hwm[s] \in Nat /\ txswm[s] \in Nat /\ hwm[s] <= txswm[s] /\ swm[s] = hwm[s]
      /\ txswm[s] <= Size /\ txswm[s] <= cwm[s] /\ cwm[s] \in Nat
      /\ is_fin[s] => hwm[s] = txswm[s]
  BY <1>0 DEF Types, SenderInv, ReceiverInv, CreditInv
<1>2. /\ delta \in Nat /\ top \in Nat /\ top = hwm[s] + delta /\ end <= top
      /\ hwm[s] <= top /\ top <= txswm[s] /\ (fin => top = txswm[s])
  BY <1>1 DEF Greater
<1>3. ~FinalSizeError(s, end, fin)
  BY <1>1 DEF FinalSizeError
<1>4. hwm' = [hwm EXCEPT ![s] = top] /\ Charge(s, delta)
  BY <1>3 DEF OnRxStreamFrame
<1> HIDE DEF top, delta
<1>5. /\ charged \in [FCs -> Nat] /\ charged[Conn] = swm[Conn] + delta /\ charged[s] = top
      /\ \A t \in Streams \ {s} : charged[t] = swm[t]
  BY <1>0, <1>1, <1>2 DEF Types
<1> HIDE DEF charged
<1>6. charged[Conn] = SumFunctionOnSet(charged, Streams)
  <2>1. /\ \A t \in Streams : swm[t] \in Nat
        /\ charged[s] = swm[s] + delta
    BY <1>0, <1>1, <1>2, <1>5 DEF Types
  <2>2. SumFunctionOnSet(charged, Streams) = SumFunctionOnSet(swm, Streams) + delta
    <3>1. delta \in Nat /\ \A t \in Streams \ {s} : charged[t] = swm[t]
      BY <1>2, <1>5
    <3> QED BY <2>1, <3>1, SumBump, Zenon
  <2> QED BY <1>0, <1>5, <2>2 DEF Sums
<1>7. charged[Conn] <= txswm[Conn]
  <2>1. \A t \in Streams : charged[t] \in Nat /\ txswm[t] \in Nat /\ charged[t] <= txswm[t]
    BY <1>0, <1>1, <1>2, <1>5 DEF Types, ReceiverInv
  <2>2. SumFunctionOnSet(charged, Streams) <= SumFunctionOnSet(txswm, Streams)
    BY <2>1, SumMonotone
  <2> QED BY <1>0, <1>6, <2>2 DEF Sums
<1>8. \A f \in {s, Conn} : delta <= cwm[f] - swm[f]
  <2>1. delta <= cwm[s] - swm[s]
    BY <1>1, <1>2
  <2>2. delta <= cwm[Conn] - swm[Conn]
    <3>1. cwm[Conn] \in Nat /\ swm[Conn] \in Nat /\ txswm[Conn] \in Nat /\ txcwm[Conn] \in Nat
      BY <1>0 DEF Types
    <3>2. txswm[Conn] <= txcwm[Conn] /\ txcwm[Conn] <= cwm[Conn]
      BY <1>0 DEF CreditInv
    <3>3. swm[Conn] + delta <= txswm[Conn]
      BY <1>5, <1>7
    <3> QED BY <1>2, <3>1, <3>2, <3>3
  <2> QED BY <2>1, <2>2
<1>9. swm' = charged
  BY <1>0, <1>2, <1>4, <1>8 DEF Charge, Lesser, charged, Types
<1>10. error_code' = error_code
  BY <1>0, <1>2, <1>4, <1>8 DEF Charge, Types
<1>11. /\ hwm' \in [Streams -> 0 .. Size] /\ hwm'[s] = top
       /\ \A t \in Streams \ {s} : hwm'[t] = hwm[t]
  BY <1>0, <1>1, <1>2, <1>4 DEF Types
<1> QED BY <1>0, <1>2, <1>5, <1>6, <1>9, <1>10, <1>11 DEF Types

\* A frame the sender has sent is charged, and buffered or thrown away.
LEMMA FrameInv ==
  ASSUME IInv, NEW g \in frames, NEW fin \in BOOLEAN, fin => g.fin,
         OnRxStreamFrame(g.s, g.end, fin),
         rstream' \in [Streams -> SUBSET Nat], recv_state' \in [Streams -> RecvStates],
         \A t \in Streams \ {g.s} : rstream'[t] = rstream[t],
         \A n \in rstream'[g.s] : n \in rstream[g.s] \/ n < g.end,
         UNCHANGED <<txVars, frames, pkts, abandoned, cwm, rwm, cur_window_size,
                     has_cwm_changed, want_max>>
  PROVE  IInv'
<1> USE Consts
<1>0. Types /\ SenderInv /\ ReceiverInv /\ CreditInv /\ NoErrors /\ Sums
  BY DEF IInv
<1> DEFINE s == g.s
<1>1. s \in Streams /\ g.end \in Nat /\ g.fin \in BOOLEAN
  BY <1>0 DEF Types, Frames
<1>2. g.end <= txswm[s] /\ (g.fin => g.end = txswm[s] /\ send_state[s] # "SEND")
  BY <1>0 DEF SenderInv
<1>3. /\ error_code' = error_code
      /\ swm' \in [FCs -> Nat] /\ hwm' \in [Streams -> 0 .. Size]
      /\ swm'[s] = hwm'[s] /\ g.end <= hwm'[s] /\ hwm[s] <= hwm'[s] /\ hwm'[s] <= txswm[s]
      /\ fin => hwm'[s] = txswm[s]
      /\ \A t \in Streams \ {s} : swm'[t] = swm[t] /\ hwm'[t] = hwm[t]
      /\ swm[Conn] <= swm'[Conn]
      /\ swm'[Conn] = SumFunctionOnSet(swm', Streams)
  BY <1>1, <1>2, FrameCharged
<1>4. /\ is_fin' \in [FCs -> BOOLEAN] /\ (is_fin'[s] => is_fin[s] \/ fin)
      /\ \A t \in Streams \ {s} : is_fin'[t] = is_fin[t]
  <2>1. is_fin' = [is_fin EXCEPT ![s] = @ \/ fin] /\ is_fin \in [FCs -> BOOLEAN]
    BY <1>0 DEF OnRxStreamFrame, Types
  <2> QED BY <1>1, <2>1
<1> HIDE DEF s
<1>5. \A n \in rstream'[s] : n \in Nat /\ n < hwm'[s]
  <2>1. \A n \in rstream[s] : n \in Nat /\ n < hwm[s]
    BY <1>0, <1>1 DEF Types, ReceiverInv
  <2>2. rstream'[s] \subseteq Nat
    BY <1>1
  <2>3. hwm[s] \in Nat /\ hwm'[s] \in Nat
    BY <1>0, <1>1, <1>3 DEF Types
  <2> QED BY <1>1, <1>3, <2>1, <2>2, <2>3 DEF s
<1>6. ReceiverInv'
  <2>1. ASSUME NEW t \in Streams
        PROVE  /\ swm'[t] = hwm'[t] /\ hwm'[t] <= txswm[t]
               /\ is_fin'[t] => hwm'[t] = txswm[t] /\ send_state[t] # "SEND"
               /\ rstream'[t] \subseteq 0 .. hwm'[t] - 1
               /\ rwm[t] <= hwm'[t]
    <3>0. /\ swm[t] = hwm[t] /\ hwm[t] <= txswm[t]
          /\ is_fin[t] => hwm[t] = txswm[t] /\ send_state[t] # "SEND"
          /\ rstream[t] \subseteq 0 .. hwm[t] - 1
          /\ rwm[t] <= hwm[t] /\ hwm[t] \in Nat /\ rwm[t] \in Nat /\ txswm[t] \in Nat
      BY <1>0 DEF ReceiverInv, Types
    <3>1. CASE t = s
      <4>1. hwm'[s] \in Nat
        BY <1>1, <1>3
      <4>2. rstream'[s] \subseteq 0 .. hwm'[s] - 1
        <5>1. \A h, n \in Nat : n < h => n \in 0 .. h - 1
          OBVIOUS
        <5> QED BY <1>5, <4>1, <5>1, Zenon
      <4>3. is_fin'[s] => hwm'[s] = txswm[s] /\ send_state[s] # "SEND"
        BY <1>1, <1>2, <1>3, <1>4, <3>0, <3>1, <4>1
      <4> QED BY <1>3, <3>0, <3>1, <4>1, <4>2, <4>3
    <3>2. CASE t # s
      <4>1. swm'[t] = swm[t] /\ hwm'[t] = hwm[t] /\ is_fin'[t] = is_fin[t]
        BY <1>3, <1>4, <3>2
      <4>2. rstream'[t] = rstream[t]
        BY <3>2 DEF s
      <4> QED BY <3>0, <4>1, <4>2
    <3> QED BY <3>1, <3>2
  <2> QED BY <2>1 DEF ReceiverInv, txVars
<1>7. Types'
  <2>1. rstream' \in [Streams -> SUBSET (0 .. Size - 1)]
    <3>1. \A t \in Streams : rstream'[t] \subseteq 0 .. hwm'[t] - 1 /\ hwm'[t] \in 0 .. Size
      BY <1>3, <1>6 DEF ReceiverInv
    <3>2. \A t \in Streams : rstream'[t] \subseteq 0 .. Size - 1
      BY <3>1
    <3> QED BY <3>2
  <2> QED BY <1>0, <1>3, <1>4, <2>1 DEF Types, txVars
<1>8. SenderInv' /\ CreditInv'
  BY <1>0 DEF SenderInv, CreditInv, txVars
<1>9. NoErrors' /\ Sums'
  BY <1>0, <1>3 DEF NoErrors, Sums, txVars
<1> QED BY <1>6, <1>7, <1>8, <1>9 DEF IInv

LEMMA RecvStreamInv ==
  ASSUME IInv, NEW g \in frames, RecvStream(g)
  PROVE  IInv'
<1> USE Consts
<1>0. Types
  BY DEF IInv
<1>1. g.s \in Streams /\ g.off \in Nat /\ g.end \in Nat /\ g.fin \in BOOLEAN
  BY <1>0 DEF Types, Frames
<1>2. /\ OnRxStreamFrame(g.s, g.end, g.fin)
      /\ UNCHANGED <<txVars, frames, pkts, abandoned, cwm, rwm, cur_window_size,
                     has_cwm_changed, want_max>>
  BY DEF RecvStream
<1> DEFINE bytes == rstream[g.s] \cup (g.off .. g.end - 1)
<1>3. \/ UNCHANGED <<rstream, recv_state>>
      \/ /\ rstream' = [rstream EXCEPT ![g.s] = bytes]
         /\ recv_state' = [recv_state EXCEPT ![g.s] = received(g.s, g.fin, bytes, hwm'[g.s])]
  BY DEF RecvStream
<1>4. /\ rstream' \in [Streams -> SUBSET Nat] /\ recv_state' \in [Streams -> RecvStates]
      /\ \A t \in Streams \ {g.s} : rstream'[t] = rstream[t]
      /\ \A n \in rstream'[g.s] : n \in rstream[g.s] \/ n < g.end
  <2>1. rstream \in [Streams -> SUBSET Nat] /\ recv_state \in [Streams -> RecvStates]
    BY <1>0 DEF Types
  <2>2. bytes \in SUBSET Nat /\ \A n \in bytes : n \in rstream[g.s] \/ n < g.end
    BY <1>1, <2>1
  <2>3. received(g.s, g.fin, bytes, hwm'[g.s]) \in RecvStates
    BY DEF received, RecvStates
  <2> HIDE DEF bytes
  <2> QED BY <1>1, <1>3, <2>1, <2>2, <2>3
<1> QED BY <1>1, <1>2, <1>4, FrameInv

LEMMA RecvResetInv ==
  ASSUME IInv, NEW g \in frames, RecvReset(g)
  PROVE  IInv'
<1> USE Consts
<1>0. Types
  BY DEF IInv
<1>1. g.s \in Streams /\ g.fin
  BY <1>0 DEF Types, Frames, RecvReset
<1>2. /\ OnRxStreamFrame(g.s, g.end, TRUE)
      /\ UNCHANGED <<txVars, frames, pkts, abandoned, cwm, rwm, cur_window_size,
                     has_cwm_changed, want_max>>
  BY DEF RecvReset
<1>3. \/ UNCHANGED <<rstream, recv_state>>
      \/ /\ rstream' = [rstream EXCEPT ![g.s] = {}]
         /\ recv_state' = [recv_state EXCEPT ![g.s] = "RESET_RECVD"]
  BY DEF RecvReset, reset_recv_part
<1>4. /\ rstream' \in [Streams -> SUBSET Nat] /\ recv_state' \in [Streams -> RecvStates]
      /\ \A t \in Streams \ {g.s} : rstream'[t] = rstream[t]
      /\ \A n \in rstream'[g.s] : n \in rstream[g.s] \/ n < g.end
  <2>1. rstream \in [Streams -> SUBSET Nat] /\ recv_state \in [Streams -> RecvStates]
    BY <1>0 DEF Types
  <2> QED BY <1>1, <1>3, <2>1 DEF RecvStates
<1> QED BY <1>1, <1>2, <1>4, FrameInv

\* Reading: what is retired was received, and the windows keep their bounds.
LEMMA ReadInv ==
  ASSUME IInv, NEW s \in Streams, NEW n \in 1 .. Size, NEW dbl \in SUBSET {s, Conn},
         Read(s, n, dbl)
  PROVE  IInv'
<1> USE Consts
<1>0. Types /\ SenderInv /\ ReceiverInv /\ CreditInv /\ NoErrors /\ Sums
  BY DEF IInv
<1> DEFINE r == [f \in FCs |-> IF f \in {s, Conn} THEN rwm[f] + n ELSE rwm[f]]
           bump == {f \in {s, Conn} : bump_desired(f, r[f])}
           stream_wnd == IF s \in bump THEN adjusted(s, 0, s \in dbl) ELSE cur_window_size[s]
           wnd == [f \in FCs |->
                     IF f \notin bump THEN cur_window_size[f]
                     ELSE IF f = s THEN stream_wnd ELSE adjusted(Conn, stream_wnd, Conn \in dbl)]
           raised == {f \in bump : r[f] + wnd[f] > cwm[f]}
<1>1. /\ available(s, n)
      /\ rwm' = r /\ cur_window_size' = wnd
      /\ cwm' = [f \in FCs |-> IF f \in raised THEN r[f] + wnd[f] ELSE cwm[f]]
      /\ has_cwm_changed' = [f \in FCs |-> has_cwm_changed[f] \/ f \in raised]
      /\ recv_state' = [recv_state EXCEPT ![s] = totally_read(s, r[s])]
      /\ UNCHANGED <<txVars, frames, pkts, abandoned, swm, hwm, is_fin, error_code,
                     rstream, want_max>>
  BY DEF Read
<1>2. /\ r \in [FCs -> Nat] /\ r[Conn] = rwm[Conn] + n /\ r[s] = rwm[s] + n
      /\ \A t \in Streams \ {s} : r[t] = rwm[t]
      /\ \A f \in FCs : rwm[f] <= r[f]
  BY <1>0 DEF Types
<1> HIDE DEF r
<1> HIDE DEF bump
<1>3. \A f \in FCs : /\ cur_window_size[f] \in Nat /\ max_window_size[f] \in Nat
                     /\ cur_window_size[f] <= max_window_size[f]
  BY <1>0, Windows DEF Types, CreditInv
<1>4. stream_wnd \in Nat /\ stream_wnd <= max_window_size[s]
  <2>1. adjusted(s, 0, s \in dbl) \in Nat /\ adjusted(s, 0, s \in dbl) <= max_window_size[s]
    BY <1>3 DEF adjusted, Lesser, Greater
  <2> QED BY <1>3, <2>1
<1>5. wnd \in [FCs -> Nat] /\ \A f \in FCs : wnd[f] <= max_window_size[f]
  <2> HIDE DEF stream_wnd
  <2>1. adjusted(Conn, stream_wnd, Conn \in dbl) \in Nat
        /\ adjusted(Conn, stream_wnd, Conn \in dbl) <= max_window_size[Conn]
    BY <1>3, <1>4 DEF adjusted, Lesser, Greater
  <2>2. \A f \in bump : f = s \/ f = Conn
    BY DEF bump
  <2>3. \A f \in FCs : wnd[f] \in Nat /\ wnd[f] <= max_window_size[f]
    BY <1>3, <1>4, <2>1, <2>2
  <2> QED BY <2>3
<1> HIDE DEF bump, stream_wnd, wnd
<1>6. /\ cwm' \in [FCs -> Nat]
      /\ \A f \in FCs : cwm[f] <= cwm'[f] /\ cwm'[f] - r[f] <= max_window_size[f]
  <2> HIDE DEF raised
  <2>1. \A f \in raised : r[f] + wnd[f] > cwm[f]
    BY DEF raised
  <2>2. ASSUME NEW f \in FCs
        PROVE  cwm'[f] \in Nat /\ cwm[f] <= cwm'[f] /\ cwm'[f] - r[f] <= max_window_size[f]
    <3>1. /\ cwm[f] \in Nat /\ rwm[f] \in Nat /\ r[f] \in Nat /\ rwm[f] <= r[f]
          /\ max_window_size[f] \in Nat /\ cwm[f] - rwm[f] <= max_window_size[f]
          /\ wnd[f] \in Nat /\ wnd[f] <= max_window_size[f]
      BY <1>0, <1>2, <1>5, Windows DEF Types, CreditInv
    <3>2. CASE f \in raised
      BY <1>1, <2>1, <3>1, <3>2
    <3>3. CASE f \notin raised
      BY <1>1, <3>1, <3>3
    <3> QED BY <3>2, <3>3
  <2> QED BY <1>1, <2>2
<1>7. rwm[s] + n <= hwm[s]
  <2>1. rwm[s] + n - 1 \in rstream[s]
    BY <1>0, <1>1 DEF available, Types
  <2> QED BY <1>0, <2>1 DEF ReceiverInv, Types
<1>8. ReceiverInv'
  BY <1>0, <1>1, <1>2, <1>7 DEF ReceiverInv, txVars
<1>9. Types'
  <2>1. totally_read(s, r[s]) \in RecvStates
    BY <1>0 DEF totally_read, RecvStates, Types
  <2>2. recv_state' \in [Streams -> RecvStates]
    BY <1>0, <1>1, <2>1 DEF Types
  <2>3. has_cwm_changed' \in [FCs -> BOOLEAN]
    <3> HIDE DEF raised
    <3>1. \A f \in FCs : (has_cwm_changed[f] \/ f \in raised) \in BOOLEAN
      BY Zenon
    <3> QED BY <1>1, <3>1, Zenon
  <2> QED BY <1>0, <1>1, <1>2, <1>5, <1>6, <2>2, <2>3 DEF Types, txVars
<1>10. SenderInv'
  BY <1>0, <1>1 DEF SenderInv, txVars
<1>11. CreditInv'
  <2> SUFFICES ASSUME NEW f \in FCs
               PROVE  /\ txswm[f] <= txcwm[f] /\ txcwm[f] <= cwm'[f]
                      /\ \A p \in pkts : p.credit[f] <= cwm'[f]
                      /\ cwm'[f] - r[f] <= max_window_size[f]
                      /\ wnd[f] <= max_window_size[f]
    BY <1>1 DEF CreditInv, txVars
  <2>1. /\ cwm[f] \in Nat /\ cwm'[f] \in Nat /\ cwm[f] <= cwm'[f] /\ txcwm[f] \in Nat
        /\ \A p \in pkts : p.credit[f] \in Nat /\ p.credit[f] <= cwm[f]
        /\ txswm[f] <= txcwm[f] /\ txcwm[f] <= cwm[f]
    BY <1>0, <1>6 DEF CreditInv, Types, Packets
  <2> QED BY <1>5, <1>6, <2>1
<1>12. NoErrors'
  BY <1>0, <1>1 DEF NoErrors
<1>13. Sums'
  <2>1. SumFunctionOnSet(r, Streams) = SumFunctionOnSet(rwm, Streams) + n
    <3>1. /\ n \in Nat /\ \A t \in Streams : rwm[t] \in Nat
          /\ r[s] = rwm[s] + n /\ \A t \in Streams \ {s} : r[t] = rwm[t]
      BY <1>0, <1>2 DEF Types
    <3> QED BY <3>1, SumBump, Zenon
  <2> QED BY <1>0, <1>1, <1>2, <2>1 DEF Sums, txVars
<1> QED BY <1>8, <1>9, <1>10, <1>11, <1>12, <1>13 DEF IInv

LEMMA ReadFinInv ==
  ASSUME IInv, NEW s \in Streams, ReadFin(s)
  PROVE  IInv'
<1>0. Types /\ SenderInv /\ ReceiverInv /\ CreditInv /\ NoErrors /\ Sums
  BY DEF IInv
<1>1. /\ recv_state' = [recv_state EXCEPT ![s] = "DATA_READ"]
      /\ UNCHANGED <<txVars, frames, pkts, abandoned, swm, cwm, rwm, hwm, is_fin,
                     cur_window_size, has_cwm_changed, error_code, rstream, want_max>>
  BY DEF ReadFin
<1>2. recv_state' \in [Streams -> RecvStates]
  BY <1>0, <1>1 DEF Types, RecvStates
<1>3. Types'
  BY <1>0, <1>1, <1>2 DEF Types, txVars
<1>4. SenderInv' /\ ReceiverInv' /\ CreditInv' /\ NoErrors' /\ Sums'
  BY <1>0, <1>1 DEF SenderInv, ReceiverInv, CreditInv, NoErrors, Sums, txVars
<1> QED BY <1>3, <1>4 DEF IInv

LEMMA SendMaxInv ==
  ASSUME IInv, NEW chunks \in SUBSET BackStreams, SendMax(chunks)
  PROVE  IInv'
<1> USE Consts
<1>0. Types /\ SenderInv /\ ReceiverInv /\ CreditInv /\ NoErrors /\ Sums
  BY DEF IInv
<1> DEFINE q == [credit |-> [f \in FCs |-> IF f \in Wanted THEN cwm[f] ELSE 0],
                 chunks |-> chunks, lost |-> FALSE]
<1>1. /\ pkts' = pkts \cup {q}
      /\ want_max' = [f \in FCs |-> want_max[f] /\ f \notin Wanted]
      /\ has_cwm_changed' = [f \in FCs |-> has_cwm_changed[f] /\ f \notin Wanted]
      /\ UNCHANGED <<txVars, frames, abandoned, swm, cwm, rwm, hwm, is_fin,
                     cur_window_size, error_code, recv_state, rstream>>
  BY DEF SendMax
<1>2. q \in Packets /\ \A f \in FCs : q.credit[f] <= cwm[f]
  BY <1>0 DEF Types, Packets
<1> HIDE DEF q
<1>3. want_max' \in [FCs -> BOOLEAN] /\ has_cwm_changed' \in [FCs -> BOOLEAN]
  BY <1>1, Zenon
<1>4. Types'
  BY <1>0, <1>1, <1>2, <1>3 DEF Types, txVars
<1>5. CreditInv'
  BY <1>0, <1>1, <1>2 DEF CreditInv, txVars
<1>6. SenderInv' /\ ReceiverInv' /\ NoErrors' /\ Sums'
  BY <1>0, <1>1 DEF SenderInv, ReceiverInv, NoErrors, Sums, txVars
<1> QED BY <1>4, <1>5, <1>6 DEF IInv

LEMMA PacketLostInv ==
  ASSUME IInv, NEW p \in pkts, PacketLost(p)
  PROVE  IInv'
<1> USE Consts
<1>0. Types /\ SenderInv /\ ReceiverInv /\ CreditInv /\ NoErrors /\ Sums
  BY DEF IInv
<1> DEFINE q == [p EXCEPT !.lost = TRUE]
<1>1. /\ pkts' \subseteq pkts \cup {q}
      /\ want_max' \in [FCs -> BOOLEAN] /\ abandoned' \subseteq Streams
      /\ UNCHANGED <<txVars, frames, swm, cwm, rwm, hwm, is_fin, cur_window_size,
                     has_cwm_changed, error_code, recv_state, rstream>>
  <2>1. want_max' \in [FCs -> BOOLEAN]
    BY Zenon DEF PacketLost, regen_frame
  <2> QED BY <1>0, <2>1 DEF PacketLost, Types
<1>2. q \in Packets /\ q.credit = p.credit
  <2>1. p \in Packets
    BY <1>0 DEF Types
  <2> QED BY <2>1 DEF Packets
<1> HIDE DEF q
<1>3. Types'
  BY <1>0, <1>1, <1>2 DEF Types, txVars
<1>4. CreditInv'
  BY <1>0, <1>1, <1>2 DEF CreditInv, txVars
<1>5. SenderInv' /\ ReceiverInv' /\ NoErrors' /\ Sums'
  BY <1>0, <1>1 DEF SenderInv, ReceiverInv, NoErrors, Sums, txVars
<1> QED BY <1>3, <1>4, <1>5 DEF IInv

-----------------------------------------------------------------------------
LEMMA StepInv == IInv /\ [Next]_vars => IInv'
<1> SUFFICES ASSUME IInv, [Next]_vars PROVE IInv'
  OBVIOUS
<1>1. CASE UNCHANGED vars
  BY <1>1 DEF IInv, Types, SenderInv, ReceiverInv, CreditInv, NoErrors, Sums, vars, txVars, rxVars
<1>2. CASE Next
  BY <1>2, SendDataInv, SendFinInv, ResetStreamInv, RecvMaxInv, PacketLostInv, RecvStreamInv,
     RecvResetInv, ReadInv, ReadFinInv, SendMaxInv DEF Next
<1> QED BY <1>1, <1>2

LEMMA Invariant == Spec => []IInv
BY InitInv, StepInv, PTL DEF Spec

\* Every variable of the two endpoints keeps to its type; in particular no
\* byte past the sender's data is ever buffered.
THEOREM FlowTypes == Spec => []TypeOK
<1>1. IInv => TypeOK
  BY DEF IInv, Types, TypeOK
<1> QED BY <1>1, Invariant, PTL

\* The receiver never finds a flow control or final size error in what a sender
\* that obeys its flow controllers sends, in whatever order, how often or how
\* late data, FINs, resets and credit arrive (ossl_quic_rxfc_on_rx_stream_frame);
\* the final size it takes down is the length of the sender's stream.
THEOREM ObedientSenderNeverInError == Spec => []NoFlowError
<1>1. IInv => NoFlowError
  BY DEF IInv, NoErrors, ReceiverInv, NoFlowError
<1> QED BY <1>1, Invariant, PTL

\* The sender never spends more than it was granted, nor knows of more, and the
\* receiver counts no more than was sent, for every stream and the connection
\* (the assertion in ossl_quic_txfc_get_credit_local).
THEOREM CreditRespected == Spec => []WithinCredit
<1>1. IInv => WithinCredit
  <2> SUFFICES ASSUME IInv PROVE WithinCredit
    OBVIOUS
  <2>0. Types /\ ReceiverInv /\ CreditInv /\ Sums
    BY DEF IInv
  <2>1. \A s \in Streams : swm[s] \in Nat /\ txswm[s] \in Nat /\ swm[s] <= txswm[s]
    BY <2>0, Consts DEF Types, ReceiverInv
  <2>2. SumFunctionOnSet(swm, Streams) <= SumFunctionOnSet(txswm, Streams)
    BY <2>1, Consts, SumMonotone
  <2>3. \A f \in FCs : swm[f] <= txswm[f]
    BY <2>0, <2>1, <2>2, Consts DEF Sums
  <2> QED BY <2>0, <2>3 DEF CreditInv, WithinCredit
<1> QED BY <1>1, Invariant, PTL

\* The connection's controllers, at both ends, count each byte of each stream
\* exactly once (on_rx_controlled_bytes, ossl_quic_txfc_consume_credit,
\* rxfc_on_retire), however often it arrives.
THEOREM ConnectionCountsEachByteOnce == Spec => []ConnIsSum
<1>1. IInv => ConnIsSum
  BY DEF IInv, Sums, ConnIsSum
<1> QED BY <1>1, Invariant, PTL

\* The credit the receiver grants never goes further than the largest window
\* beyond what the application has read, which is no more than was received.
THEOREM ReceiverBufferBounded == Spec => []BufferBounded
<1>1. IInv => BufferBounded
  <2> SUFFICES ASSUME IInv PROVE BufferBounded
    OBVIOUS
  <2>0. Types /\ ReceiverInv /\ CreditInv /\ Sums
    BY DEF IInv
  <2>1. \A s \in Streams : swm[s] \in Nat /\ rwm[s] \in Nat /\ rwm[s] <= swm[s]
    BY <2>0, Consts DEF Types, ReceiverInv
  <2>2. SumFunctionOnSet(rwm, Streams) <= SumFunctionOnSet(swm, Streams)
    BY <2>1, Consts, SumMonotone
  <2>3. \A f \in FCs : rwm[f] <= swm[f]
    BY <2>0, <2>1, <2>2, Consts DEF Sums
  <2> QED BY <2>0, <2>3 DEF CreditInv, BufferBounded
<1> QED BY <1>1, Invariant, PTL
=============================================================================
