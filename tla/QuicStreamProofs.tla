--------------------------- MODULE QuicStreamProofs ---------------------------
(***************************************************************************)
(* Proofs about the streams of a QUIC endpoint, for any number of streams, *)
(* any amount of data and of credit, and any number of packets in flight:  *)
(* a stream with a frame to send is on the active list, every byte written *)
(* is accounted for, the final size is what was sent, and a stream without *)
(* a handle ends.                                                          *)
(*                                                                         *)
(* The inductive invariant says of each stream that the parts of its state *)
(* agree (StreamOK) and that its bytes and the chunks in flight agree      *)
(* (Flight), of the active list that it has every stream at most once and  *)
(* the place of the round robin (ListOK), and of each stream that has      *)
(* frames to send that it is in the list (Due).  Every operation changes   *)
(* one stream, which may leave Due broken for it, and most then call       *)
(* update_state, which mends it (UpdateIs); an operation on many streams   *)
(* is a fold of operations on one, and its invariant holds at each of its  *)
(* steps.                                                                  *)
(***************************************************************************)
EXTENDS QuicStream, SumTheorems, SequenceTheorems

-----------------------------------------------------------------------------
(* The inductive invariant.                                                *)

BufferType ==
  [head : Nat, new : SUBSET Nat, acked : SUBSET Nat, fin : SUBSET {"have", "sent", "acked"}]
StreamType ==
  [send_state : SendStates, recv_state : RecvStates, sstream : BufferType,
   send_final_size : Nat \cup {NoFinalSize}, swm : Nat, cwm : Nat,
   avail : BOOLEAN, flags : SUBSET Flags, missed : BOOLEAN]
MapType ==
  [map : [Streams -> StreamType], conn_swm : Nat, conn_cwm : Nat,
   active_list : Seq(Streams), rr_cur : Streams \cup {NoStream},
   ready_for_gc_list : Seq(Streams), num_shutdown_flush : Int]

SizeFixed == {"DATA_SENT", "DATA_RECVD", "RESET_SENT", "RESET_RECVD"}

\* The bytes of a send buffer: those to be sent and those acknowledged are apart,
\* and what has been sent before lies below swm, within what has been written.
BytesOK(q) ==
  /\ q.sstream.new \subseteq 0 .. q.sstream.head - 1
  /\ q.sstream.acked \subseteq 0 .. q.sstream.head - 1
  /\ q.sstream.new \cap q.sstream.acked = {}
  /\ has_send_buffer(q) =>
       /\ q.swm <= q.cwm /\ q.swm <= q.sstream.head
       /\ \A b \in 0 .. q.sstream.head - 1 : b \in q.sstream.new \/ b < q.swm

\* The states of the send part: all data has been sent in DATA_SENT, the final
\* size is what has been sent, and a stream without a handle has one.
StateOK(q) ==
  /\ q.send_state = "DATA_SENT" => has_final_size(q) /\ q.sstream.head = q.swm
  /\ q.send_state \in SizeFixed => q.send_final_size = q.swm
  /\ "deleted" \in q.flags =>
       q.send_state \notin {"READY", "SEND"} \/ has_final_size(q)

StreamOK(q) == BytesOK(q) /\ StateOK(q)

\* The active list has no stream twice and the place of the round robin in it.
ListOK(m) ==
  /\ \A i, j \in 1 .. Len(m.active_list) : m.active_list[i] = m.active_list[j] => i = j
  /\ IF m.active_list = <<>> THEN m.rr_cur = NoStream ELSE Contains(m.active_list, m.rr_cur)

Due(m, s) ==
  should_be_active(m, s) => Contains(m.active_list, s) \/ FinAlone(m.map[s])

\* The counter of streams to be flushed is exact.
Flushing(m) == {s \in Streams : "shutdown_flush" \in m.map[s].flags}
FlushOK(m) == m.num_shutdown_flush = Cardinality(Flushing(m))

\* All is well but that the streams of S may be missing in the active list.
MapBut(m, S) ==
  /\ m \in MapType /\ ListOK(m) /\ FlushOK(m)
  /\ \A t \in Streams : StreamOK(m.map[t])
  /\ \A t \in Streams \ S : Due(m, t)
MapButDue(m, s) == MapBut(m, {s})
MapOK(m) == MapBut(m, {})

ChunkType == [data : SUBSET Nat, fin : BOOLEAN, stop : BOOLEAN, reset : BOOLEAN]
PacketOK(p) == DOMAIN p \subseteq Streams /\ p \in [DOMAIN p -> ChunkType]

\* Packet p carries byte b of stream s.
Carries(p, s, b) == s \in DOMAIN p /\ b \in p[s].data
InFlight(q) == (0 .. q.sstream.head - 1) \ (q.sstream.new \cup q.sstream.acked)

\* The packets P carry the bytes of stream s that are in flight, each of them
\* once, and no others.
Flight(q, s, P) ==
  has_send_buffer(q) =>
    /\ \A p \in P : \A b \in Nat : Carries(p, s, b) => b \in InFlight(q)
    /\ \A b \in InFlight(q) : \E p \in P : Carries(p, s, b)
    /\ \A p1, p2 \in P : \A b \in Nat : Carries(p1, s, b) /\ Carries(p2, s, b) => p1 = p2

IInv ==
  /\ MapOK(qsm)
  /\ \A p \in pkts : PacketOK(p)
  /\ \A s \in Streams : Flight(qsm.map[s], s, pkts)
  /\ shutting_down \in BOOLEAN
  /\ ~shutting_down => Flushing(qsm) = {}

-----------------------------------------------------------------------------
(* Lists.                                                                  *)

\* The first place of e in a list.
LEMMA FirstAt ==
  ASSUME NEW S, NEW list \in Seq(S), NEW e, Contains(list, e)
  PROVE  LET i == SelectInSeq(list, LAMBDA t : t = e)
         IN  i \in 1 .. Len(list) /\ list[i] = e
<1> DEFINE I == {i \in 1 .. Len(list) : list[i] = e}
<1>1. I \subseteq Nat /\ I # {}
  BY DEF Contains
<1>2. SelectInSeq(list, LAMBDA t : t = e) = Min(I)
  BY <1>1 DEF SelectInSeq
<1>3. Min(I) \in I
  <2> HIDE DEF I
  <2> QED BY <1>1, MinIn
<1> QED BY <1>2, <1>3

\* What is left of a list without its first e.
LEMMA RemoveFirstIs ==
  ASSUME NEW S, NEW list \in Seq(S), NEW e, Contains(list, e)
  PROVE  \E i \in 1 .. Len(list) :
           /\ list[i] = e
           /\ RemoveFirst(list, e) \in Seq(S)
           /\ Len(RemoveFirst(list, e)) = Len(list) - 1
           /\ \A k \in 1 .. Len(list) - 1 :
                RemoveFirst(list, e)[k] = list[IF k < i THEN k ELSE k + 1]
<1> DEFINE i == SelectInSeq(list, LAMBDA t : t = e)
           a == SubSeq(list, 1, i - 1)
           b == SubSeq(list, i + 1, Len(list))
<1>1. i \in 1 .. Len(list) /\ list[i] = e
  BY FirstAt
<1>2. RemoveFirst(list, e) = a \o b
  BY DEF RemoveFirst, RemoveAt, Contains
<1> HIDE DEF i
<1>3. Len(list) \in Nat
  OBVIOUS
<1>4. /\ a \in Seq(S) /\ Len(a) = i - 1
      /\ \A k \in 1 .. i - 1 : a[k] = list[k]
  BY <1>1, <1>3, SubSeqProperties
<1>5. /\ b \in Seq(S) /\ Len(b) = Len(list) - i
      /\ \A k \in 1 .. Len(list) - i : b[k] = list[i + k]
  BY <1>1, <1>3, SubSeqProperties
<1> HIDE DEF a, b
<1>6. /\ a \o b \in Seq(S) /\ Len(a \o b) = Len(list) - 1
      /\ \A k \in 1 .. Len(list) - 1 : (a \o b)[k] = IF k <= Len(a) THEN a[k] ELSE b[k - Len(a)]
  <2>1. /\ a \o b \in Seq(S) /\ Len(a \o b) = Len(a) + Len(b)
        /\ \A k \in 1 .. Len(a) + Len(b) :
             (a \o b)[k] = IF k <= Len(a) THEN a[k] ELSE b[k - Len(a)]
    BY <1>4, <1>5, ConcatProperties
  <2>2. Len(a) + Len(b) = Len(list) - 1
    BY <1>1, <1>3, <1>4, <1>5
  <2> QED BY <2>1, <2>2
<1>7. \A k \in 1 .. Len(list) - 1 : (a \o b)[k] = list[IF k < i THEN k ELSE k + 1]
  BY <1>1, <1>3, <1>4, <1>5, <1>6
<1> QED BY <1>1, <1>2, <1>6, <1>7

\* The list from s on, once round.
LEMMA FromIs ==
  ASSUME NEW S, NEW list \in Seq(S), NEW s, Contains(list, s)
  PROVE  \E i \in 1 .. Len(list) :
           /\ list[i] = s
           /\ from(list, s) \in Seq(S)
           /\ Len(from(list, s)) = Len(list)
           /\ \A k \in 1 .. Len(list) :
                from(list, s)[k] = list[IF k <= Len(list) - i + 1 THEN i + k - 1
                                        ELSE k - (Len(list) - i + 1)]
<1> DEFINE i == SelectInSeq(list, LAMBDA t : t = s)
           a == SubSeq(list, i, Len(list))
           b == SubSeq(list, 1, i - 1)
<1>1. i \in 1 .. Len(list) /\ list[i] = s
  BY FirstAt
<1>2. from(list, s) = a \o b
  BY DEF from
<1> HIDE DEF i
<1>3. Len(list) \in Nat
  OBVIOUS
<1>4. /\ a \in Seq(S) /\ Len(a) = Len(list) - i + 1
      /\ \A k \in 1 .. Len(list) - i + 1 : a[k] = list[i + k - 1]
  BY <1>1, <1>3, SubSeqProperties
<1>5. /\ b \in Seq(S) /\ Len(b) = i - 1
      /\ \A k \in 1 .. i - 1 : b[k] = list[k]
  BY <1>1, <1>3, SubSeqProperties
<1> HIDE DEF a, b
<1>6. /\ a \o b \in Seq(S) /\ Len(a \o b) = Len(list)
      /\ \A k \in 1 .. Len(list) : (a \o b)[k] = IF k <= Len(a) THEN a[k] ELSE b[k - Len(a)]
  BY <1>1, <1>3, <1>4, <1>5, ConcatProperties, SMTT(30)
<1>7. \A k \in 1 .. Len(list) :
        (a \o b)[k] = list[IF k <= Len(list) - i + 1 THEN i + k - 1 ELSE k - (Len(list) - i + 1)]
  BY <1>1, <1>3, <1>4, <1>5, <1>6, SMTT(30)
<1> QED BY <1>1, <1>2, <1>6, <1>7

\* A list without repetitions remains one when it is rotated, and has the same
\* elements.
NoRepeat(list) == \A i, j \in 1 .. Len(list) : list[i] = list[j] => i = j

LEMMA FromKeeps ==
  ASSUME NEW S, NEW list \in Seq(S), NEW s, Contains(list, s), NoRepeat(list)
  PROVE  /\ from(list, s) \in Seq(S) /\ Len(from(list, s)) = Len(list)
         /\ NoRepeat(from(list, s)) /\ Len(list) \in Nat \ {0}
         /\ from(list, s)[1] = s
         /\ \A k \in 1 .. Len(list) : from(list, s)[k] \in S /\ Contains(list, from(list, s)[k])
<1>1. PICK i \in 1 .. Len(list) :
           /\ list[i] = s
           /\ from(list, s) \in Seq(S)
           /\ Len(from(list, s)) = Len(list)
           /\ \A k \in 1 .. Len(list) :
                from(list, s)[k] = list[IF k <= Len(list) - i + 1 THEN i + k - 1
                                        ELSE k - (Len(list) - i + 1)]
  BY FromIs
<1>2. PICK n \in Nat : n = Len(list)
  OBVIOUS
<1> DEFINE at(k) == IF k <= n - i + 1 THEN i + k - 1 ELSE k - (n - i + 1)
           r == from(list, s)
<1>3. \A k \in 1 .. n : at(k) \in 1 .. n /\ r[k] = list[at(k)]
  BY <1>1, <1>2
<1>4. \A k, l \in 1 .. n : at(k) = at(l) => k = l
  BY <1>1, <1>2
<1>5. at(1) = i
  BY <1>1, <1>2
<1>9. r \in Seq(S) /\ Len(r) = n
  BY <1>1, <1>2
<1> HIDE DEF at, r
<1>6. NoRepeat(r)
  <2> SUFFICES ASSUME NEW k \in 1 .. n, NEW l \in 1 .. n, r[k] = r[l] PROVE k = l
    BY <1>9 DEF NoRepeat
  <2>1. at(k) = at(l)
    BY <1>2, <1>3, SMTT(30) DEF NoRepeat
  <2> QED BY <1>4, <2>1
<1>7. ASSUME NEW k \in 1 .. n PROVE r[k] \in S /\ Contains(list, r[k])
  <2>1. at(k) \in 1 .. Len(list) /\ r[k] = list[at(k)]
    BY <1>2, <1>3
  <2> QED BY <2>1 DEF Contains
<1>8. n > 0 /\ r[1] = s
  <2>1. n > 0 /\ 1 \in 1 .. n
    BY <1>2
  <2>2. r[1] = list[i]
    BY <1>3, <1>5, <2>1
  <2> QED BY <1>1, <2>1, <2>2
<1> QED BY <1>2, <1>6, <1>7, <1>8, <1>9 DEF r

\* Sequences of all elements of a finite set.
LEMMA OrderIs ==
  ASSUME NEW S, IsFiniteSet(S), NEW order \in SetToSeqs(S)
  PROVE  \E n \in Nat : /\ order \in [1 .. n -> S] /\ DOMAIN order = 1 .. n
                        /\ \A i, j \in 1 .. n : order[i] = order[j] => i = j
                        /\ \A s \in S : \E i \in 1 .. n : order[i] = s
<1>1. PICK n \in Nat : n = Cardinality(S)
  BY FS_CardinalityType
<1>2. /\ order \in [1 .. n -> S]
      /\ \A i, j \in 1 .. n : i # j => order[i] # order[j]
  BY <1>1 DEF SetToSeqs
<1>3. order \in Injection(1 .. n, S)
  BY <1>2 DEF Injection, IsInjective
<1>4. IsFiniteSet(1 .. n) /\ Cardinality(1 .. n) = n
  BY FS_Interval
<1>5. order \in Surjection(1 .. n, S)
  BY <1>1, <1>3, <1>4, FS_Injection
<1>6. \A s \in S : \E i \in 1 .. n : order[i] = s
  BY <1>5 DEF Surjection
<1> QED BY <1>2, <1>6

-----------------------------------------------------------------------------
(* One stream of the map.                                                  *)

\* n is m with the state r of stream s, and perhaps another number of streams
\* to be flushed and another list for the garbage collection.
Alters(n, m, s, r) ==
  /\ n \in MapType /\ n.map = [m.map EXCEPT ![s] = r]
  /\ n.conn_swm = m.conn_swm /\ n.conn_cwm = m.conn_cwm
  /\ n.active_list = m.active_list /\ n.rr_cur = m.rr_cur

LEMMA SetIs ==
  ASSUME NEW m \in MapType, NEW s \in Streams, NEW r \in StreamType
  PROVE  /\ Alters(Set(m, s, r), m, s, r)
         /\ Set(m, s, r).num_shutdown_flush = m.num_shutdown_flush
         /\ Set(m, s, r).map[s] = r
BY DEF Set, Alters, MapType

LEMMA AltersIs ==
  ASSUME NEW m \in MapType, NEW s \in Streams, NEW r \in StreamType, NEW n, Alters(n, m, s, r)
  PROVE  n.map[s] = r /\ \A t \in Streams \ {s} : n.map[t] = m.map[t]
BY DEF Alters, MapType

\* Flags do not matter to the types of the other fields.
WithFlags(q, flags) == [q EXCEPT !.flags = flags]

LEMMA WithFlagsIs ==
  ASSUME NEW q \in StreamType, NEW flags \in SUBSET Flags
  PROVE  LET r == WithFlags(q, flags)
         IN  /\ r \in StreamType /\ r.flags = flags
             /\ r.send_state = q.send_state /\ r.recv_state = q.recv_state
             /\ r.sstream = q.sstream /\ r.send_final_size = q.send_final_size
             /\ r.swm = q.swm /\ r.cwm = q.cwm /\ r.missed = q.missed
BY DEF WithFlags, StreamType

LEMMA RaiseIs ==
  ASSUME NEW m \in MapType, NEW s \in Streams, NEW flag \in Flags
  PROVE  /\ Raise(m, s, flag) = Set(m, s, WithFlags(m.map[s], m.map[s].flags \cup {flag}))
         /\ m.map[s] \in StreamType /\ m.map[s].flags \cup {flag} \in SUBSET Flags
BY DEF Raise, Set, WithFlags, MapType, StreamType

LEMMA FlushDoneIs ==
  ASSUME NEW m \in MapType, NEW s \in Streams
  PROVE  LET n == shutdown_flush_done(m, s)
             r == WithFlags(m.map[s], m.map[s].flags \ {"shutdown_flush"})
         IN  /\ Alters(n, m, s, r) /\ r \in StreamType
             /\ n.num_shutdown_flush = IF "shutdown_flush" \in m.map[s].flags
                                       THEN m.num_shutdown_flush - 1 ELSE m.num_shutdown_flush
<1> DEFINE n == shutdown_flush_done(m, s)
           r == WithFlags(m.map[s], m.map[s].flags \ {"shutdown_flush"})
<1>1. m.map[s] \in StreamType /\ m.map[s].flags \ {"shutdown_flush"} \in SUBSET Flags
  BY DEF MapType, StreamType
<1>2. r \in StreamType
  BY <1>1, WithFlagsIs
<1>3. CASE "shutdown_flush" \in m.map[s].flags
  <2>1. n = [m EXCEPT !.map = [m.map EXCEPT ![s] = r], !.num_shutdown_flush = @ - 1]
    BY <1>3 DEF shutdown_flush_done, Has, Clear, WithFlags
  <2> HIDE DEF n, r
  <2>2. Alters(n, m, s, r) /\ n.num_shutdown_flush = m.num_shutdown_flush - 1
    <3>1. [m.map EXCEPT ![s] = r] \in [Streams -> StreamType] /\ m.num_shutdown_flush - 1 \in Int
      BY <1>2 DEF MapType
    <3> HIDE DEF StreamType
    <3> QED BY <2>1, <3>1 DEF Alters, MapType
  <2> QED BY <1>2, <1>3, <2>2 DEF n, r
<1>4. CASE "shutdown_flush" \notin m.map[s].flags
  <2>1. n = m
    BY <1>4 DEF shutdown_flush_done, Has
  <2>2. r = m.map[s]
    BY <1>1, <1>4 DEF WithFlags, StreamType
  <2> HIDE DEF n, r
  <2>3. Alters(n, m, s, r)
    BY <1>2, <2>1, <2>2 DEF Alters, MapType
  <2> QED BY <1>2, <1>4, <2>1, <2>3 DEF n, r
<1> QED BY <1>3, <1>4

LEMMA NotifyAckedIs ==
  ASSUME NEW m \in MapType, NEW s \in Streams
  PROVE  LET n == notify_totally_acked(m, s)
             q == m.map[s]
         IN  \E r \in StreamType :
               /\ Alters(n, m, s, r)
               /\ r.send_state = "DATA_RECVD" /\ r.sstream = sstream_new
               /\ r.recv_state = q.recv_state /\ r.send_final_size = q.send_final_size
               /\ r.swm = q.swm /\ r.cwm = q.cwm /\ r.flags = q.flags \ {"shutdown_flush"}
               /\ n.num_shutdown_flush = IF "shutdown_flush" \in q.flags
                                         THEN m.num_shutdown_flush - 1 ELSE m.num_shutdown_flush
<1> DEFINE q == m.map[s]
           d == [q EXCEPT !.send_state = "DATA_RECVD", !.sstream = sstream_new]
           k == Set(m, s, d)
           n == shutdown_flush_done(k, s)
           r == WithFlags(d, d.flags \ {"shutdown_flush"})
<1>1. q \in StreamType
  BY DEF MapType
<1>2. sstream_new \in BufferType
  BY DEF sstream_new, BufferType
<1>3. /\ d \in StreamType /\ d.send_state = "DATA_RECVD" /\ d.sstream = sstream_new
      /\ d.recv_state = q.recv_state /\ d.send_final_size = q.send_final_size
      /\ d.swm = q.swm /\ d.cwm = q.cwm /\ d.flags = q.flags
  <2> HIDE DEF q
  <2> QED BY <1>1, <1>2 DEF StreamType, SendStates
<1>4. notify_totally_acked(m, s) = n
  BY DEF notify_totally_acked, Set
<1>5. Alters(k, m, s, d) /\ k.map[s] = d /\ k.num_shutdown_flush = m.num_shutdown_flush
  BY <1>3, SetIs
<1>6. k \in MapType
  BY <1>5 DEF Alters
<1> HIDE DEF d, k
<1>7. /\ Alters(n, k, s, r) /\ r \in StreamType
      /\ n.num_shutdown_flush = IF "shutdown_flush" \in k.map[s].flags
                                THEN k.num_shutdown_flush - 1 ELSE k.num_shutdown_flush
  BY <1>5, <1>6, FlushDoneIs
<1>8. Alters(n, m, s, r)
  <2> HIDE DEF n, r
  <2> QED BY <1>5, <1>7 DEF Alters, MapType
<1>9. d.flags \ {"shutdown_flush"} \in SUBSET Flags
  BY <1>3 DEF StreamType
<1>10. /\ r.send_state = "DATA_RECVD" /\ r.sstream = sstream_new
       /\ r.recv_state = q.recv_state /\ r.send_final_size = q.send_final_size
       /\ r.swm = q.swm /\ r.cwm = q.cwm /\ r.flags = q.flags \ {"shutdown_flush"}
  BY <1>3, <1>9, WithFlagsIs
<1> HIDE DEF n, r, q
<1>11. n.num_shutdown_flush = IF "shutdown_flush" \in q.flags
                              THEN m.num_shutdown_flush - 1 ELSE m.num_shutdown_flush
  BY <1>3, <1>5, <1>7
<1> QED BY <1>4, <1>7, <1>8, <1>10, <1>11 DEF q

-----------------------------------------------------------------------------
(* The active list.                                                        *)

\* n is m with another active list.
Marks(n, m) ==
  /\ n \in MapType /\ n.map = m.map
  /\ n.conn_swm = m.conn_swm /\ n.conn_cwm = m.conn_cwm
  /\ n.num_shutdown_flush = m.num_shutdown_flush

\* The lists of n and m have the same streams, but perhaps for s.
SameBut(n, m, s) ==
  \A t \in Streams \ {s} : Contains(n.active_list, t) <=> Contains(m.active_list, t)

LEMMA ActiveNextIs ==
  ASSUME NEW m \in MapType, NEW s, Contains(m.active_list, s)
  PROVE  /\ active_next(m, s) \in Streams
         /\ ListOK(m) => /\ Contains(m.active_list, active_next(m, s))
                         /\ Len(m.active_list) = 1 <=> active_next(m, s) = s
<1> DEFINE list == m.active_list
           rest == from(list, s)
<1>1. list \in Seq(Streams)
  BY DEF MapType
<1>2. PICK n \in Nat : n = Len(list)
  BY <1>1
<1>3. rest \in Seq(Streams) /\ Len(rest) = n /\ n > 0
  BY <1>1, <1>2, FromIs
<1>4. active_next(m, s) = rest[IF n = 1 THEN 1 ELSE 2]
  BY <1>2, <1>3 DEF active_next
<1>5. active_next(m, s) \in Streams
  BY <1>3, <1>4
<1>6. ASSUME ListOK(m)
      PROVE  Contains(list, active_next(m, s)) /\ (n = 1 <=> active_next(m, s) = s)
  <2>1. NoRepeat(list)
    BY <1>6 DEF ListOK, NoRepeat
  <2>2. /\ NoRepeat(rest) /\ rest[1] = s
        /\ \A k \in 1 .. n : Contains(list, rest[k])
    BY <1>1, <1>2, <2>1, FromKeeps
  <2> HIDE DEF rest, list
  <2>3. CASE n = 1
    BY <1>4, <2>2, <2>3
  <2>4. CASE n # 1
    <3>1. 1 \in 1 .. n /\ 2 \in 1 .. n
      BY <1>3, <2>4
    <3>2. rest[2] # rest[1]
      BY <1>3, <2>2, <3>1 DEF NoRepeat
    <3> QED BY <1>4, <2>2, <2>4, <3>1, <3>2
  <2> QED BY <2>3, <2>4
<1> QED BY <1>2, <1>5, <1>6

LEMMA MarkActiveIs ==
  ASSUME NEW m \in MapType, NEW s \in Streams
  PROVE  LET n == mark_active(m, s)
         IN  /\ Marks(n, m) /\ SameBut(n, m, s) /\ Contains(n.active_list, s)
             /\ ListOK(m) => ListOK(n)
<1> DEFINE n == mark_active(m, s)
           list == m.active_list
<1>1. CASE Contains(list, s)
  <2>1. n = m
    BY <1>1 DEF mark_active
  <2> QED BY <1>1, <2>1 DEF Marks, SameBut
<1>2. CASE ~Contains(list, s)
  <2> DEFINE a == Append(list, s)
             cur == IF m.rr_cur = NoStream THEN s ELSE m.rr_cur
  <2>1. n = [m EXCEPT !.active_list = a, !.rr_cur = cur]
    BY <1>2 DEF mark_active
  <2>2. list \in Seq(Streams) /\ m.rr_cur \in Streams \cup {NoStream}
    BY DEF MapType
  <2>3. PICK k \in Nat : k = Len(list)
    BY <2>2
  <2>4. /\ a \in Seq(Streams) /\ Len(a) = k + 1
        /\ \A i \in 1 .. k : a[i] = list[i]
        /\ a[k + 1] = s
    BY <2>2, <2>3, AppendProperties
  <2>5. cur \in Streams
    BY <2>2
  <2> HIDE DEF a, cur
  <2>6. Marks(n, m) /\ n.active_list = a /\ n.rr_cur = cur
    <3> HIDE DEF StreamType, n
    <3> QED BY <2>1, <2>4, <2>5 DEF Marks, MapType
  <2>7. \A t : Contains(a, t) <=> t = s \/ Contains(list, t)
    BY <2>3, <2>4 DEF Contains
  <2>8. ASSUME ListOK(m) PROVE ListOK(n)
    <3>1. \A i, j \in 1 .. k : list[i] = list[j] => i = j
      BY <2>3, <2>8 DEF ListOK
    <3>2. \A i \in 1 .. k : list[i] # s
      BY <1>2, <2>3 DEF Contains
    <3>3. \A i, j \in 1 .. k + 1 : a[i] = a[j] => i = j
      BY <2>4, <3>1, <3>2
    <3>4. Contains(a, cur) /\ a # <<>>
      <4>1. cur = s \/ Contains(list, cur)
        <5>1. CASE list = <<>>
          BY <2>8, <5>1 DEF ListOK, cur
        <5>2. CASE list # <<>>
          BY <2>8, <5>2 DEF ListOK, cur
        <5> QED BY <5>1, <5>2
      <4> QED BY <2>4, <2>7, <4>1
    <3> QED BY <2>4, <2>6, <3>3, <3>4 DEF ListOK
  <2> QED BY <2>6, <2>7, <2>8 DEF SameBut
<1> QED BY <1>1, <1>2

LEMMA MarkInactiveIs ==
  ASSUME NEW m \in MapType, NEW s \in Streams
  PROVE  LET n == mark_inactive(m, s)
         IN  /\ Marks(n, m) /\ SameBut(n, m, s)
             /\ ListOK(m) => ListOK(n)
<1> DEFINE n == mark_inactive(m, s)
           list == m.active_list
<1>1. CASE ~Contains(list, s)
  <2>1. n = m
    BY <1>1 DEF mark_inactive
  <2> QED BY <2>1 DEF Marks, SameBut
<1>2. CASE Contains(list, s)
  <2> DEFINE a == RemoveFirst(list, s)
             next == active_next(m, s)
             cur == IF m.rr_cur # s THEN m.rr_cur ELSE IF next = s THEN NoStream ELSE next
  <2>1. n = [m EXCEPT !.active_list = a, !.rr_cur = cur]
    BY <1>2 DEF mark_inactive
  <2>2. list \in Seq(Streams) /\ m.rr_cur \in Streams \cup {NoStream}
    BY DEF MapType
  <2>3. PICK k \in Nat : k = Len(list)
    BY <2>2
  <2>4. PICK i \in 1 .. k : /\ list[i] = s
                            /\ a \in Seq(Streams) /\ Len(a) = k - 1
                            /\ \A j \in 1 .. k - 1 : a[j] = list[IF j < i THEN j ELSE j + 1]
    BY <1>2, <2>2, <2>3, RemoveFirstIs, SMTT(30)
  <2>5. /\ next \in Streams
        /\ ListOK(m) => Contains(list, next) /\ (k = 1 <=> next = s)
    BY <1>2, <2>3, ActiveNextIs
  <2>6. cur \in Streams \cup {NoStream}
    BY <2>2, <2>5
  <2> HIDE DEF a, next
  <2>7. Marks(n, m) /\ n.active_list = a /\ n.rr_cur = cur
    <3> HIDE DEF StreamType, n, cur
    <3> QED BY <2>1, <2>4, <2>6 DEF Marks, MapType
  <2>8. \A t : t # s => (Contains(a, t) <=> Contains(list, t))
    <3>1. ASSUME NEW t, Contains(a, t) PROVE Contains(list, t)
      BY <2>3, <2>4, <3>1 DEF Contains
    <3>2. ASSUME NEW t, t # s, Contains(list, t) PROVE Contains(a, t)
      <4>1. PICK j \in 1 .. k : list[j] = t
        BY <2>3, <3>2 DEF Contains
      <4>2. j # i
        BY <2>4, <3>2, <4>1
      <4>3. CASE j < i
        <5>1. j \in 1 .. k - 1 /\ a[j] = t
          BY <2>4, <4>1, <4>3
        <5> QED BY <2>4, <5>1 DEF Contains
      <4>4. CASE j > i
        <5>1. j - 1 \in 1 .. k - 1 /\ a[j - 1] = t
          BY <2>4, <4>1, <4>4
        <5> QED BY <2>4, <5>1 DEF Contains
      <4> QED BY <4>2, <4>3, <4>4
    <3> QED BY <3>1, <3>2
  <2>9. ASSUME ListOK(m) PROVE ListOK(n)
    <3>1. \A h, j \in 1 .. k : list[h] = list[j] => h = j
      BY <2>3, <2>9 DEF ListOK
    <3> DEFINE at(j) == IF j < i THEN j ELSE j + 1
    <3>2. \A j \in 1 .. k - 1 : at(j) \in 1 .. k /\ a[j] = list[at(j)]
      BY <2>4
    <3>3. \A h, j \in 1 .. k - 1 : at(h) = at(j) => h = j
      OBVIOUS
    <3> HIDE DEF at
    <3>4. \A h, j \in 1 .. k - 1 : a[h] = a[j] => h = j
      BY <3>1, <3>2, <3>3
    <3>5. list # <<>> /\ Contains(list, m.rr_cur)
      BY <2>3, <2>4, <2>9 DEF ListOK
    <3>6. CASE a = <<>>
      <4>1. k = 1
        BY <2>3, <2>4, <3>6
      <4>2. m.rr_cur = s
        BY <2>3, <2>4, <3>1, <3>5, <4>1 DEF Contains
      <4>3. cur = NoStream
        BY <2>5, <2>9, <4>1, <4>2
      <4> QED BY <2>4, <2>7, <3>4, <3>6, <4>3 DEF ListOK
    <3>7. CASE a # <<>>
      <4>1. k # 1
        BY <2>4, <3>7
      <4>2. cur # s /\ Contains(list, cur)
        BY <2>5, <2>9, <3>5, <4>1
      <4>3. Contains(a, cur)
        BY <2>8, <4>2
      <4> QED BY <2>4, <2>7, <3>4, <3>7, <4>3 DEF ListOK
    <3> QED BY <3>6, <3>7
  <2> QED BY <2>7, <2>8, <2>9 DEF SameBut
<1> QED BY <1>1, <1>2

-----------------------------------------------------------------------------
(* When a stream has frames to send.                                       *)

\* should_be_active, of the stream's state and the credit of the connection.
Wants(q, credit) ==
  /\ "ready_for_gc" \notin q.flags
  /\ \/ wants_control_frame(q)
     \/ /\ "peer_stop_sending" \notin q.flags /\ has_send_buffer(q) /\ has_pending(q)
        /\ q.sstream.new # {} =>
             Min(q.sstream.new) < q.swm + Min({q.cwm - q.swm, credit})

Credit(m) == m.conn_cwm - m.conn_swm

LEMMA ActiveIs ==
  ASSUME NEW m \in MapType, NEW s \in Streams
  PROVE  should_be_active(m, s) <=> Wants(m.map[s], Credit(m))
<1>1. m.conn_cwm - m.conn_swm - 0 = Credit(m)
  BY DEF Credit, MapType
<1> QED BY <1>1 DEF should_be_active, stream_has_data_to_send, fc_limit, Wants

\* More credit only makes more streams active.
LEMMA LimitMonotone ==
  ASSUME NEW a \in Int, NEW c1 \in Int, NEW c2 \in Int, c1 <= c2
  PROVE  Min({a, c1}) \in Int /\ Min({a, c1}) <= Min({a, c2})
<1>1. Min({a, c1}) \in {a, c1} /\ Min({a, c1}) <= a /\ Min({a, c1}) <= c1
  BY TwoMin
<1>2. Min({a, c2}) \in {a, c2} /\ Min({a, c2}) <= a /\ Min({a, c2}) <= c2
  BY TwoMin
<1> QED BY <1>1, <1>2

LEMMA WantsMonotone ==
  ASSUME NEW q \in StreamType, NEW c1 \in Int, NEW c2 \in Int, c1 <= c2, Wants(q, c1)
  PROVE  Wants(q, c2)
<1>1. CASE q.sstream.new = {}
  BY <1>1 DEF Wants
<1>2. CASE q.sstream.new # {}
  <2>1. q.swm \in Nat /\ q.cwm \in Nat /\ q.sstream.new \subseteq Nat
    BY DEF StreamType, BufferType
  <2>2. Min(q.sstream.new) \in Nat
    BY <1>2, <2>1, MinIn
  <2>3. /\ Min({q.cwm - q.swm, c1}) \in Int /\ Min({q.cwm - q.swm, c2}) \in Int
        /\ Min({q.cwm - q.swm, c1}) <= Min({q.cwm - q.swm, c2})
    BY <2>1, LimitMonotone
  <2>4. ASSUME Min(q.sstream.new) < q.swm + Min({q.cwm - q.swm, c1})
        PROVE  Min(q.sstream.new) < q.swm + Min({q.cwm - q.swm, c2})
    BY <2>1, <2>2, <2>3, <2>4
  <2> QED BY <2>4 DEF Wants
<1> QED BY <1>1, <1>2

\* A stream that is active in n is so in m, if there it has the same state and no
\* less credit.
LEMMA ActiveBefore ==
  ASSUME NEW m \in MapType, NEW n \in MapType, NEW t \in Streams,
         n.map[t] = m.map[t], Credit(n) <= Credit(m), should_be_active(n, t)
  PROVE  should_be_active(m, t)
<1>1. m.map[t] \in StreamType /\ Credit(m) \in Int /\ Credit(n) \in Int
  BY DEF MapType, Credit
<1>2. Wants(n.map[t], Credit(n))
  BY ActiveIs
<1>3. Wants(m.map[t], Credit(m))
  BY <1>1, <1>2, WantsMonotone
<1> QED BY <1>3, ActiveIs

LEMMA DueKept ==
  ASSUME NEW m \in MapType, NEW n \in MapType, NEW t \in Streams,
         n.map[t] = m.map[t], Credit(n) <= Credit(m), Due(m, t),
         Contains(n.active_list, t) <=> Contains(m.active_list, t)
  PROVE  Due(n, t)
BY ActiveBefore DEF Due

-----------------------------------------------------------------------------
(* Changing one stream keeps all of the invariant but Due for that stream.  *)

LEMMA StreamOKFlags ==
  ASSUME NEW q \in StreamType, StreamOK(q), NEW flags \in SUBSET Flags,
         "deleted" \in flags =>
           \/ "deleted" \in q.flags
           \/ q.send_state \notin {"READY", "SEND"} \/ has_final_size(q)
  PROVE  StreamOK(WithFlags(q, flags))
<1> DEFINE r == WithFlags(q, flags)
<1>1. /\ r \in StreamType /\ r.flags = flags
      /\ r.send_state = q.send_state /\ r.recv_state = q.recv_state
      /\ r.sstream = q.sstream /\ r.send_final_size = q.send_final_size
      /\ r.swm = q.swm /\ r.cwm = q.cwm
  BY WithFlagsIs
<1> HIDE DEF r
<1>2. BytesOK(r)
  BY <1>1 DEF StreamOK, BytesOK, has_send_buffer
<1>3. StateOK(r)
  BY <1>1 DEF StreamOK, StateOK, has_final_size
<1> QED BY <1>2, <1>3 DEF StreamOK, r

\* The number of streams to be flushed goes down when the flag is cleared.
FlushCounted(n, m, s, r) ==
  \/ /\ n.num_shutdown_flush = m.num_shutdown_flush
     /\ "shutdown_flush" \in r.flags <=> "shutdown_flush" \in m.map[s].flags
  \/ /\ n.num_shutdown_flush = m.num_shutdown_flush - 1
     /\ "shutdown_flush" \notin r.flags /\ "shutdown_flush" \in m.map[s].flags

LEMMA FlushKept ==
  ASSUME NEW m \in MapType, NEW n, NEW s \in Streams, NEW r \in StreamType,
         Alters(n, m, s, r), FlushCounted(n, m, s, r), FlushOK(m)
  PROVE  FlushOK(n)
<1>1. n.map[s] = r /\ \A t \in Streams \ {s} : n.map[t] = m.map[t]
  BY AltersIs
<1>2. IsFiniteSet(Flushing(m)) /\ IsFiniteSet(Streams)
  BY StreamAssumption, FS_Subset DEF Flushing
<1>3. CASE /\ n.num_shutdown_flush = m.num_shutdown_flush
           /\ "shutdown_flush" \in r.flags <=> "shutdown_flush" \in m.map[s].flags
  <2>1. Flushing(n) = Flushing(m)
    BY <1>1, <1>3 DEF Flushing
  <2> QED BY <1>3, <2>1 DEF FlushOK
<1>4. CASE /\ n.num_shutdown_flush = m.num_shutdown_flush - 1
           /\ "shutdown_flush" \notin r.flags /\ "shutdown_flush" \in m.map[s].flags
  <2>1. Flushing(n) = Flushing(m) \ {s} /\ s \in Flushing(m)
    BY <1>1, <1>4 DEF Flushing
  <2>2. Cardinality(Flushing(m) \ {s}) = Cardinality(Flushing(m)) - 1
    BY <1>2, <2>1, FS_RemoveElement
  <2> QED BY <1>4, <2>1, <2>2 DEF FlushOK
<1> QED BY <1>3, <1>4 DEF FlushCounted

LEMMA AltersKeeps ==
  ASSUME NEW m, NEW n, NEW s \in Streams, NEW S, s \in S, NEW r \in StreamType,
         MapBut(m, S), Alters(n, m, s, r), FlushCounted(n, m, s, r), StreamOK(r)
  PROVE  MapBut(n, S)
<1>1. m \in MapType /\ n \in MapType
  BY DEF MapBut, Alters
<1>2. n.map[s] = r /\ \A t \in Streams \ {s} : n.map[t] = m.map[t]
  BY <1>1, AltersIs
<1>3. FlushOK(n)
  BY <1>1, FlushKept DEF MapBut
<1>4. ListOK(n)
  BY DEF MapBut, Alters, ListOK
<1>5. \A t \in Streams : StreamOK(n.map[t])
  BY <1>2 DEF MapBut
<1>6. ASSUME NEW t \in Streams \ S PROVE Due(n, t)
  <2>1. Credit(n) = Credit(m) /\ Credit(m) \in Int
    BY <1>1 DEF Alters, Credit, MapType
  <2>2. Credit(n) <= Credit(m)
    BY <2>1
  <2> QED BY <1>1, <1>2, <2>2, DueKept DEF MapBut, Alters
<1> QED BY <1>1, <1>3, <1>4, <1>5, <1>6 DEF MapBut

LEMMA MapOKIs ==
  ASSUME NEW m, NEW s \in Streams
  PROVE  MapOK(m) <=> MapButDue(m, s) /\ Due(m, s)
BY DEF MapOK, MapBut, MapButDue

-----------------------------------------------------------------------------
(* update_state puts stream s on the active list if it has frames to send, *)
(* and ends its send part if all of it has been acknowledged.              *)

\* What it may do to the stream.
Evolves(r, q) ==
  /\ r.swm = q.swm /\ r.cwm = q.cwm /\ r.recv_state = q.recv_state
  /\ \/ r.send_state = q.send_state /\ r.sstream = q.sstream
     \/ q.send_state = "DATA_SENT" /\ r.send_state = "DATA_RECVD"
  /\ "shutdown_flush" \in r.flags => "shutdown_flush" \in q.flags

\* Nothing but stream s and the active list changes.
Only(n, m, s) ==
  /\ n \in MapType /\ \A t \in Streams \ {s} : n.map[t] = m.map[t]
  /\ n.conn_swm = m.conn_swm /\ n.conn_cwm = m.conn_cwm

\* The end of the send part.
LEMMA EndSending ==
  ASSUME NEW m \in MapType, NEW s \in Streams
  PROVE  LET q == m.map[s]
             a == IF q.send_state \in {"SEND", "DATA_SENT"} /\ is_totally_acked(q)
                  THEN IF q.send_state = "SEND" THEN shutdown_flush_done(m, s)
                       ELSE notify_totally_acked(m, s)
                  ELSE m
         IN  \E r \in StreamType :
               /\ Alters(a, m, s, r) /\ Evolves(r, q) /\ FlushCounted(a, m, s, r)
               /\ StreamOK(q) => StreamOK(r)
<1> DEFINE q == m.map[s]
<1>1. q \in StreamType
  BY DEF MapType
<1>2. \E r \in StreamType :
        /\ Alters(m, m, s, r) /\ Evolves(r, q) /\ FlushCounted(m, m, s, r)
        /\ StreamOK(q) => StreamOK(r)
  <2>1. Alters(m, m, s, q)
    BY DEF Alters, MapType
  <2> QED BY <1>1, <2>1 DEF Evolves, FlushCounted
<1>3. LET a == shutdown_flush_done(m, s)
      IN  \E r \in StreamType :
            /\ Alters(a, m, s, r) /\ Evolves(r, q) /\ FlushCounted(a, m, s, r)
            /\ StreamOK(q) => StreamOK(r)
  <2> DEFINE a == shutdown_flush_done(m, s)
             flags == q.flags \ {"shutdown_flush"}
             r == WithFlags(q, flags)
  <2>1. /\ Alters(a, m, s, r) /\ r \in StreamType
        /\ a.num_shutdown_flush = IF "shutdown_flush" \in q.flags
                                  THEN m.num_shutdown_flush - 1 ELSE m.num_shutdown_flush
    BY FlushDoneIs
  <2>2. flags \in SUBSET Flags
    BY <1>1 DEF StreamType
  <2>3. /\ r.flags = flags
        /\ r.send_state = q.send_state /\ r.recv_state = q.recv_state
        /\ r.sstream = q.sstream /\ r.swm = q.swm /\ r.cwm = q.cwm
    BY <1>1, <2>2, WithFlagsIs
  <2>4. StreamOK(q) => StreamOK(r)
    BY <1>1, <2>2, StreamOKFlags
  <2> HIDE DEF r, a, q
  <2>5. Evolves(r, q)
    BY <2>3 DEF Evolves
  <2>6. FlushCounted(a, m, s, r)
    BY <2>1, <2>3 DEF FlushCounted, q
  <2> QED BY <2>1, <2>4, <2>5, <2>6 DEF a
<1>4. ASSUME q.send_state = "DATA_SENT"
      PROVE  LET a == notify_totally_acked(m, s)
             IN  \E r \in StreamType :
                   /\ Alters(a, m, s, r) /\ Evolves(r, q) /\ FlushCounted(a, m, s, r)
                   /\ StreamOK(q) => StreamOK(r)
  <2> DEFINE a == notify_totally_acked(m, s)
  <2>1. PICK r \in StreamType :
          /\ Alters(a, m, s, r)
          /\ r.send_state = "DATA_RECVD" /\ r.sstream = sstream_new
          /\ r.recv_state = q.recv_state /\ r.send_final_size = q.send_final_size
          /\ r.swm = q.swm /\ r.cwm = q.cwm /\ r.flags = q.flags \ {"shutdown_flush"}
          /\ a.num_shutdown_flush = IF "shutdown_flush" \in q.flags
                                    THEN m.num_shutdown_flush - 1 ELSE m.num_shutdown_flush
    BY NotifyAckedIs
  <2> HIDE DEF a, q
  <2>2. Evolves(r, q)
    BY <1>4, <2>1 DEF Evolves
  <2>3. FlushCounted(a, m, s, r)
    BY <2>1 DEF FlushCounted, q
  <2>4. ASSUME StreamOK(q) PROVE StreamOK(r)
    <3>1. BytesOK(r)
      BY <2>1 DEF BytesOK, sstream_new, has_send_buffer
    <3>2. StateOK(r)
      BY <1>4, <2>1, <2>4 DEF StreamOK, StateOK, SizeFixed
    <3> QED BY <3>1, <3>2 DEF StreamOK
  <2> QED BY <2>1, <2>2, <2>3, <2>4 DEF a
<1> QED BY <1>2, <1>3, <1>4

LEMMA UpdateIs ==
  ASSUME NEW m \in MapType, NEW s \in Streams
  PROVE  LET n == update_state(m, s)
         IN  /\ Only(n, m, s) /\ Evolves(n.map[s], m.map[s])
             /\ \A S : MapBut(m, S) => MapBut(n, S \ {s})
             /\ MapButDue(m, s) => MapOK(n)
<1> DEFINE q == m.map[s]
           a == IF q.send_state \in {"SEND", "DATA_SENT"} /\ is_totally_acked(q)
                THEN IF q.send_state = "SEND" THEN shutdown_flush_done(m, s)
                     ELSE notify_totally_acked(m, s)
                ELSE m
           b == IF ~Has(a, s, "ready_for_gc") /\ qsm_ready_for_gc(a.map[s])
                THEN [Raise(a, s, "ready_for_gc") EXCEPT !.ready_for_gc_list = Append(@, s)]
                ELSE a
           n == IF should_be_active(b, s) THEN mark_active(b, s) ELSE mark_inactive(b, s)
<1>1. update_state(m, s) = n
  BY DEF update_state
<1>2. PICK r \in StreamType :
        /\ Alters(a, m, s, r) /\ Evolves(r, q) /\ FlushCounted(a, m, s, r)
        /\ StreamOK(q) => StreamOK(r)
  BY EndSending
<1> HIDE DEF a
<1>3. a \in MapType /\ a.map[s] = r
  <2>1. a \in MapType
    BY <1>2 DEF Alters
  <2>2. Alters(a, m, s, r)
    BY <1>2
  <2>3. a.map[s] = r
    BY <2>2, AltersIs
  <2> QED BY <2>1, <2>3
<1>4. PICK u \in StreamType :
        /\ Alters(b, a, s, u) /\ FlushCounted(b, a, s, u) /\ Evolves(u, r)
        /\ u.send_state = r.send_state /\ u.sstream = r.sstream
        /\ StreamOK(r) => StreamOK(u)
  <2>1. CASE b = a
    <3>1. Alters(b, a, s, r)
      BY <1>3, <2>1 DEF Alters, MapType
    <3>2. FlushCounted(b, a, s, r)
      BY <1>3, <2>1 DEF FlushCounted
    <3>3. Evolves(r, r)
      BY DEF Evolves
    <3> QED BY <3>1, <3>2, <3>3
  <2>2. CASE b = [Raise(a, s, "ready_for_gc") EXCEPT !.ready_for_gc_list = Append(@, s)]
    <3> DEFINE flags == r.flags \cup {"ready_for_gc"}
               u == WithFlags(r, flags)
               k == Raise(a, s, "ready_for_gc")
    <3>1. k = Set(a, s, u) /\ flags \in SUBSET Flags
      BY <1>3, RaiseIs DEF Flags
    <3>2. /\ u \in StreamType /\ u.flags = flags
          /\ u.send_state = r.send_state /\ u.recv_state = r.recv_state
          /\ u.sstream = r.sstream /\ u.send_final_size = r.send_final_size
          /\ u.swm = r.swm /\ u.cwm = r.cwm
      BY <3>1, WithFlagsIs
    <3>3. Alters(k, a, s, u) /\ k.num_shutdown_flush = a.num_shutdown_flush
      BY <1>3, <3>1, <3>2, SetIs
    <3>4. StreamOK(r) => StreamOK(u)
      BY <3>1, StreamOKFlags
    <3> HIDE DEF k, u, b
    <3>5. Alters(b, a, s, u) /\ b.num_shutdown_flush = a.num_shutdown_flush
      <4>1. b = [k EXCEPT !.ready_for_gc_list = Append(@, s)]
        BY <2>2 DEF k
      <4>2. k \in MapType /\ Append(k.ready_for_gc_list, s) \in Seq(Streams)
        BY <3>3 DEF Alters, MapType
      <4> HIDE DEF StreamType
      <4> QED BY <3>3, <4>1, <4>2 DEF Alters, MapType
    <3>6. FlushCounted(b, a, s, u) /\ Evolves(u, r)
      BY <1>3, <3>2, <3>5 DEF FlushCounted, Evolves
    <3> QED BY <3>2, <3>4, <3>5, <3>6
  <2> QED BY <2>1, <2>2
<1> HIDE DEF b
<1>5. b \in MapType /\ b.map[s] = u
  BY <1>3, <1>4, AltersIs DEF Alters
<1>6. Marks(n, b) /\ SameBut(n, b, s) /\ (ListOK(b) => ListOK(n)) /\ Due(n, s)
  <2>1. CASE should_be_active(b, s)
    BY <1>5, <2>1, MarkActiveIs DEF Due
  <2>2. CASE ~should_be_active(b, s)
    <3>1. Marks(n, b) /\ SameBut(n, b, s) /\ (ListOK(b) => ListOK(n))
      BY <1>5, <2>2, MarkInactiveIs
    <3>2. n \in MapType /\ b.map[s] = n.map[s] /\ Credit(n) <= Credit(b)
      BY <1>5, <3>1 DEF Marks, Credit, MapType
    <3> HIDE DEF n
    <3>3. ~should_be_active(n, s)
      BY <1>5, <2>2, <3>2, ActiveBefore
    <3> QED BY <3>1, <3>3 DEF Due
  <2> QED BY <2>1, <2>2
<1> HIDE DEF n
<1>7. /\ \A t \in Streams \ {s} : a.map[t] = m.map[t]
      /\ \A t \in Streams \ {s} : b.map[t] = a.map[t]
  BY <1>2, <1>3, <1>4, AltersIs
<1>8. Only(n, m, s)
  BY <1>2, <1>4, <1>6, <1>7 DEF Only, Alters, Marks
<1>9. Evolves(n.map[s], q)
  BY <1>2, <1>4, <1>5, <1>6 DEF Evolves, Marks
<1>10. ASSUME NEW S, MapBut(m, S) PROVE MapBut(n, S \ {s})
  <2> DEFINE T == S \cup {s}
  <2>1. MapBut(m, T) /\ StreamOK(q) /\ s \in T
    BY <1>10 DEF MapBut
  <2> HIDE DEF T
  <2>2. MapBut(a, T)
    BY <1>2, <2>1, AltersKeeps
  <2>3. MapBut(b, T)
    BY <1>2, <1>3, <1>4, <2>1, <2>2, AltersKeeps
  <2>4. ASSUME NEW t \in Streams \ T PROVE Due(n, t)
    <3>1. Credit(n) <= Credit(b)
      BY <1>5, <1>6 DEF Marks, Credit, MapType
    <3> QED BY <1>5, <1>6, <2>1, <2>3, <3>1, DueKept DEF MapBut, Marks, SameBut
  <2>5. FlushOK(n) /\ ListOK(n) /\ \A t \in Streams : StreamOK(n.map[t])
    BY <1>6, <2>3 DEF MapBut, FlushOK, Flushing, Marks
  <2>6. \A t \in Streams \ (S \ {s}) : Due(n, t)
    BY <1>6, <2>4 DEF T
  <2> QED BY <1>6, <2>5, <2>6 DEF MapBut, Marks
<1>11. MapButDue(m, s) => MapOK(n)
  <2>1. {s} \ {s} = {}
    OBVIOUS
  <2> QED BY <1>10, <2>1 DEF MapButDue, MapOK
<1> QED BY <1>1, <1>8, <1>9, <1>10, <1>11

-----------------------------------------------------------------------------
(* Operations on one stream that end with update_state, or need not.       *)

LEMMA EvolvesChain ==
  ASSUME NEW a, NEW b, NEW c, Evolves(b, a), Evolves(c, b)
  PROVE  Evolves(c, a)
BY DEF Evolves

LEMMA OnlyChain ==
  ASSUME NEW a, NEW b, NEW c, NEW s \in Streams, Only(b, a, s), Only(c, b, s)
  PROVE  Only(c, a, s)
BY DEF Only

LEMMA OnlySelf ==
  ASSUME NEW m \in MapType, NEW s \in Streams
  PROVE  Only(m, m, s) /\ Evolves(m.map[s], m.map[s])
BY DEF Only, Evolves

\* Stream s gets the state r, with the same flag for the shutdown.
SameFlush(r, q) == "shutdown_flush" \in r.flags <=> "shutdown_flush" \in q.flags

LEMMA SetStream ==
  ASSUME NEW m \in MapType, NEW s \in Streams, NEW r \in StreamType
  PROVE  LET k == Set(m, s, r)
         IN  /\ Only(k, m, s) /\ k.map[s] = r /\ k \in MapType
             /\ MapButDue(m, s) /\ StreamOK(r) /\ SameFlush(r, m.map[s]) => MapButDue(k, s)
<1> DEFINE k == Set(m, s, r)
<1>1. Alters(k, m, s, r) /\ k.num_shutdown_flush = m.num_shutdown_flush /\ k.map[s] = r
  BY SetIs
<1> HIDE DEF k
<1>2. Only(k, m, s) /\ k \in MapType
  <2>1. \A t \in Streams \ {s} : k.map[t] = m.map[t]
    BY <1>1, AltersIs
  <2> QED BY <1>1, <2>1 DEF Only, Alters
<1>3. ASSUME MapButDue(m, s), StreamOK(r), SameFlush(r, m.map[s]) PROVE MapButDue(k, s)
  <2>1. FlushCounted(k, m, s, r)
    BY <1>1, <1>3 DEF FlushCounted, SameFlush
  <2> QED BY <1>1, <1>3, <2>1, AltersKeeps DEF MapButDue
<1> QED BY <1>1, <1>2, <1>3 DEF k

LEMMA SetUpdate ==
  ASSUME NEW m \in MapType, NEW s \in Streams, NEW r \in StreamType
  PROVE  LET n == update_state(Set(m, s, r), s)
         IN  /\ Only(n, m, s) /\ Evolves(n.map[s], r) /\ n \in MapType
             /\ MapButDue(m, s) /\ StreamOK(r) /\ SameFlush(r, m.map[s]) => MapOK(n)
<1> DEFINE k == Set(m, s, r)
           n == update_state(k, s)
<1>1. /\ Only(k, m, s) /\ k.map[s] = r /\ k \in MapType
      /\ MapButDue(m, s) /\ StreamOK(r) /\ SameFlush(r, m.map[s]) => MapButDue(k, s)
  BY SetStream
<1> HIDE DEF k
<1>2. Only(n, k, s) /\ Evolves(n.map[s], k.map[s]) /\ (MapButDue(k, s) => MapOK(n))
  BY <1>1, UpdateIs
<1> HIDE DEF n
<1>3. Only(n, m, s) /\ n \in MapType
  BY <1>1, <1>2, OnlyChain DEF Only
<1> QED BY <1>1, <1>2, <1>3 DEF n, k

\* In state r a stream asks for no more than in state q.
Quieter(r, q, credit) ==
  Wants(r, credit) => Wants(q, credit) /\ (FinAlone(q) => FinAlone(r))

\* update_state may be left out if the stream has no more to send than before.
LEMMA SetQuiet ==
  ASSUME NEW m, NEW s \in Streams, NEW r \in StreamType, MapOK(m), StreamOK(r),
         SameFlush(r, m.map[s]), Quieter(r, m.map[s], Credit(m))
  PROVE  MapOK(Set(m, s, r))
<1> DEFINE k == Set(m, s, r)
<1>1. m \in MapType /\ MapButDue(m, s) /\ Due(m, s)
  BY MapOKIs DEF MapOK, MapBut
<1>2. k.map[s] = r /\ k \in MapType /\ MapButDue(k, s)
  BY <1>1, SetStream
<1>3. Credit(k) = Credit(m) /\ k.active_list = m.active_list
  <2>1. Alters(k, m, s, r)
    BY <1>1, SetIs
  <2> QED BY <2>1 DEF Alters, Credit
<1> HIDE DEF k
<1>4. Due(k, s)
  BY <1>1, <1>2, <1>3, ActiveIs DEF Due, Quieter
<1> QED BY <1>2, <1>4, MapOKIs DEF k

\* Raising a flag that is neither "deleted" nor "shutdown_flush".
PlainFlags == Flags \ {"deleted", "shutdown_flush"}

LEMMA RaiseStream ==
  ASSUME NEW m \in MapType, NEW s \in Streams, NEW flag \in PlainFlags
  PROVE  LET k == Raise(m, s, flag)
         IN  /\ Only(k, m, s) /\ Evolves(k.map[s], m.map[s]) /\ k \in MapType
             /\ k.map[s] = WithFlags(m.map[s], m.map[s].flags \cup {flag})
             /\ MapButDue(m, s) => MapButDue(k, s)
<1> DEFINE q == m.map[s]
           flags == q.flags \cup {flag}
           r == WithFlags(q, flags)
           k == Raise(m, s, flag)
<1>1. k = Set(m, s, r) /\ q \in StreamType /\ flags \in SUBSET Flags
  BY RaiseIs DEF PlainFlags
<1>2. /\ r \in StreamType /\ r.flags = flags
      /\ r.send_state = q.send_state /\ r.recv_state = q.recv_state
      /\ r.sstream = q.sstream /\ r.swm = q.swm /\ r.cwm = q.cwm
  BY <1>1, WithFlagsIs
<1>3. flag \notin {"deleted", "shutdown_flush"}
  BY DEF PlainFlags
<1>4. StreamOK(q) => StreamOK(r)
  BY <1>1, <1>3, StreamOKFlags
<1>5. Evolves(r, q) /\ SameFlush(r, q)
  <2> HIDE DEF r, q
  <2> QED BY <1>2, <1>3 DEF Evolves, SameFlush
<1>6. /\ Only(k, m, s) /\ k.map[s] = r /\ k \in MapType
      /\ MapButDue(m, s) /\ StreamOK(r) /\ SameFlush(r, q) => MapButDue(k, s)
  BY <1>1, <1>2, SetStream
<1> HIDE DEF k, r
<1>7. MapButDue(m, s) => MapButDue(k, s)
  BY <1>4, <1>5, <1>6 DEF MapButDue, MapBut
<1> QED BY <1>5, <1>6, <1>7 DEF k, r

LEMMA RaiseUpdate ==
  ASSUME NEW m \in MapType, NEW s \in Streams, NEW flag \in PlainFlags
  PROVE  LET n == update_state(Raise(m, s, flag), s)
         IN  /\ Only(n, m, s) /\ Evolves(n.map[s], m.map[s]) /\ n \in MapType
             /\ MapButDue(m, s) => MapOK(n)
<1> DEFINE k == Raise(m, s, flag)
           n == update_state(k, s)
<1>1. /\ Only(k, m, s) /\ Evolves(k.map[s], m.map[s]) /\ k \in MapType
      /\ MapButDue(m, s) => MapButDue(k, s)
  BY RaiseStream
<1> HIDE DEF k
<1>2. Only(n, k, s) /\ Evolves(n.map[s], k.map[s]) /\ (MapButDue(k, s) => MapOK(n))
  BY <1>1, UpdateIs
<1> HIDE DEF n
<1>3. Only(n, m, s) /\ n \in MapType /\ Evolves(n.map[s], m.map[s])
  BY <1>1, <1>2, OnlyChain, EvolvesChain DEF Only
<1> QED BY <1>1, <1>2, <1>3 DEF n, k

\* These flags ask for no frame, and PEER_STOP_SENDING for fewer.
LEMMA RaiseQuiet ==
  ASSUME NEW m, NEW s \in Streams, MapOK(m),
         NEW flag \in {"stop_sending", "acked_stop_sending", "peer_stop_sending"}
  PROVE  LET k == Raise(m, s, flag)
         IN  Only(k, m, s) /\ Evolves(k.map[s], m.map[s]) /\ k \in MapType /\ MapOK(k)
<1> DEFINE q == m.map[s]
           r == WithFlags(q, q.flags \cup {flag})
           k == Raise(m, s, flag)
<1>1. m \in MapType /\ MapButDue(m, s) /\ Due(m, s)
  BY MapOKIs DEF MapOK, MapBut
<1>2. flag \in PlainFlags
  BY DEF PlainFlags, Flags
<1>3. /\ Only(k, m, s) /\ Evolves(k.map[s], q) /\ k \in MapType
      /\ k.map[s] = r /\ MapButDue(k, s)
  BY <1>1, <1>2, RaiseStream
<1>4. k = Set(m, s, r) /\ q \in StreamType /\ q.flags \cup {flag} \in SUBSET Flags
  BY <1>1, <1>2, RaiseIs DEF PlainFlags
<1>5. /\ r \in StreamType /\ r.flags = q.flags \cup {flag}
      /\ r.send_state = q.send_state /\ r.recv_state = q.recv_state
      /\ r.sstream = q.sstream /\ r.swm = q.swm /\ r.cwm = q.cwm /\ r.missed = q.missed
  BY <1>4, WithFlagsIs
<1>6. StreamOK(r) /\ SameFlush(r, q)
  <2> HIDE DEF r, q, k
  <2>1. StreamOK(r)
    BY <1>3 DEF MapButDue, MapBut
  <2> QED BY <1>5, <2>1 DEF SameFlush
<1>7. Quieter(r, q, Credit(m))
  <2> HIDE DEF r, q, k
  <2> QED BY <1>5 DEF Quieter, Wants, FinAlone, wants_control_frame, has_send_buffer, has_pending
<1>8. MapOK(Set(m, s, r))
  BY <1>5, <1>6, <1>7, SetQuiet
<1> QED BY <1>3, <1>4, <1>8

\* reset_stream_send_part
LEMMA ResetIs ==
  ASSUME NEW m \in MapType, NEW s \in Streams
  PROVE  LET n == reset_stream_send_part(m, s)
         IN  /\ Only(n, m, s) /\ n \in MapType
             /\ MapOK(m) => MapOK(n)
             /\ IF has_send_buffer(m.map[s]) THEN n.map[s].send_state = "RESET_SENT" ELSE n = m
             /\ "shutdown_flush" \in n.map[s].flags => "shutdown_flush" \in m.map[s].flags
<1> DEFINE q == m.map[s]
           size == IF q.send_state = "DATA_SENT" THEN q.send_final_size ELSE q.swm
           r == [q EXCEPT !.send_state = "RESET_SENT", !.send_final_size = size,
                          !.sstream = sstream_new, !.flags = @ \cup {"want_reset_stream"}]
           k == Set(m, s, r)
           d == shutdown_flush_done(k, s)
           u == WithFlags(r, r.flags \ {"shutdown_flush"})
           n == update_state(d, s)
<1>1. CASE ~has_send_buffer(q)
  <2>1. reset_stream_send_part(m, s) = m
    BY <1>1 DEF reset_stream_send_part
  <2> QED BY <1>1, <2>1, OnlySelf
<1>2. CASE has_send_buffer(q)
  <2>1. reset_stream_send_part(m, s) = n
    BY <1>2 DEF reset_stream_send_part
  <2>2. q \in StreamType
    BY DEF MapType
  <2>3. /\ r \in StreamType /\ r.send_state = "RESET_SENT" /\ r.send_final_size = size
        /\ r.sstream = sstream_new /\ r.flags = q.flags \cup {"want_reset_stream"}
        /\ r.swm = q.swm
    <3>1. sstream_new \in BufferType /\ size \in Nat \cup {NoFinalSize}
      BY <2>2 DEF sstream_new, BufferType, StreamType
    <3> HIDE DEF q, size
    <3> QED BY <2>2, <3>1 DEF StreamType, SendStates, Flags
  <2>4. StreamOK(q) => StreamOK(r)
    <3> HIDE DEF q, r
    <3>1. BytesOK(r)
      BY <2>3 DEF BytesOK, sstream_new, has_send_buffer
    <3>2. StreamOK(q) => StateOK(r)
      BY <2>3 DEF StreamOK, StateOK, SizeFixed
    <3> QED BY <3>1, <3>2 DEF StreamOK
  <2>5. /\ Only(k, m, s) /\ k.map[s] = r /\ k \in MapType
        /\ MapButDue(m, s) /\ StreamOK(r) /\ SameFlush(r, q) => MapButDue(k, s)
    BY <2>3, SetStream
  <2>6. SameFlush(r, q)
    <3> HIDE DEF q, r
    <3> QED BY <2>3 DEF SameFlush
  <2> HIDE DEF k
  <2>7. /\ Alters(d, k, s, u) /\ u \in StreamType
        /\ d.num_shutdown_flush = IF "shutdown_flush" \in r.flags
                                  THEN k.num_shutdown_flush - 1 ELSE k.num_shutdown_flush
    BY <2>5, FlushDoneIs
  <2>8. r.flags \ {"shutdown_flush"} \in SUBSET Flags
    <3> HIDE DEF r
    <3> QED BY <2>3 DEF StreamType
  <2>9. /\ u.flags = r.flags \ {"shutdown_flush"} /\ u.send_state = "RESET_SENT"
        /\ StreamOK(r) => StreamOK(u)
    <3> HIDE DEF r
    <3>1. u.flags = r.flags \ {"shutdown_flush"} /\ u.send_state = "RESET_SENT"
      BY <2>3, <2>8, WithFlagsIs
    <3>2. r.send_state \notin {"READY", "SEND"}
      BY <2>3
    <3>3. StreamOK(r) => StreamOK(u)
      BY <2>3, <2>8, <3>2, StreamOKFlags
    <3> QED BY <3>1, <3>3
  <2> HIDE DEF d, u, r
  <2>10. FlushCounted(d, k, s, u)
    BY <2>5, <2>7, <2>9 DEF FlushCounted
  <2>11. d \in MapType /\ d.map[s] = u /\ Only(d, k, s)
    <3>1. d \in MapType
      BY <2>7 DEF Alters
    <3>2. d.map[s] = u /\ \A t \in Streams \ {s} : d.map[t] = k.map[t]
      BY <2>5, <2>7, AltersIs
    <3> QED BY <2>7, <3>1, <3>2 DEF Only, Alters
  <2>12. Only(n, d, s) /\ Evolves(n.map[s], u) /\ (MapButDue(d, s) => MapOK(n))
    BY <2>11, UpdateIs
  <2> HIDE DEF n
  <2>13. Only(n, m, s) /\ n \in MapType
    BY <2>5, <2>11, <2>12, OnlyChain DEF Only
  <2>14. n.map[s].send_state = "RESET_SENT" /\ "shutdown_flush" \notin n.map[s].flags
    BY <2>9, <2>12 DEF Evolves
  <2>15. ASSUME MapOK(m) PROVE MapOK(n)
    <3>1. MapButDue(m, s) /\ StreamOK(q)
      BY <2>15, MapOKIs DEF MapOK, MapBut
    <3>2. MapButDue(k, s)
      BY <2>4, <2>5, <2>6, <3>1
    <3>3. MapButDue(d, s)
      BY <2>4, <2>7, <2>9, <2>10, <3>1, <3>2, AltersKeeps DEF MapButDue
    <3> QED BY <2>12, <3>3
  <2> QED BY <1>2, <2>1, <2>13, <2>14, <2>15
<1> QED BY <1>1, <1>2

\* schedule_stop_sending and stop_sending_recv_part
LEMMA ScheduleIs ==
  ASSUME NEW m \in MapType, NEW s \in Streams
  PROVE  LET n == schedule_stop_sending(m, s)
         IN  /\ Only(n, m, s) /\ Evolves(n.map[s], m.map[s]) /\ n \in MapType
             /\ MapOK(m) => MapOK(n)
<1>1. "want_stop_sending" \in PlainFlags
  BY DEF PlainFlags, Flags
<1>2. CASE schedule_stop_sending(m, s) = m
  BY <1>2, OnlySelf
<1>3. CASE schedule_stop_sending(m, s) = update_state(Raise(m, s, "want_stop_sending"), s)
  BY <1>1, <1>3, RaiseUpdate, MapOKIs
<1> QED BY <1>2, <1>3 DEF schedule_stop_sending

LEMMA StopSendingIs ==
  ASSUME NEW m, NEW s \in Streams, MapOK(m)
  PROVE  LET n == stop_sending_recv_part(m, s)
         IN  Only(n, m, s) /\ Evolves(n.map[s], m.map[s]) /\ MapOK(n)
<1>0. m \in MapType
  BY DEF MapOK, MapBut
<1>1. CASE stop_sending_recv_part(m, s) = m
  BY <1>0, <1>1, OnlySelf
<1>2. CASE stop_sending_recv_part(m, s) = schedule_stop_sending(Raise(m, s, "stop_sending"), s)
  <2> DEFINE k == Raise(m, s, "stop_sending")
             n == schedule_stop_sending(k, s)
  <2>1. Only(k, m, s) /\ Evolves(k.map[s], m.map[s]) /\ k \in MapType /\ MapOK(k)
    BY RaiseQuiet
  <2> HIDE DEF k
  <2>2. Only(n, k, s) /\ Evolves(n.map[s], k.map[s]) /\ MapOK(n)
    BY <2>1, ScheduleIs
  <2> HIDE DEF n
  <2>3. Only(n, m, s) /\ Evolves(n.map[s], m.map[s])
    BY <2>1, <2>2, OnlyChain, EvolvesChain
  <2> QED BY <1>2, <2>2, <2>3 DEF n, k
<1> QED BY <1>1, <1>2 DEF stop_sending_recv_part

-----------------------------------------------------------------------------
(* Bytes in flight.                                                        *)

\* A stream that still has a send buffer has the same bytes in flight.
Lives(r, q) ==
  /\ has_send_buffer(r) => has_send_buffer(q) /\ InFlight(r) = InFlight(q)
  /\ "shutdown_flush" \in r.flags => "shutdown_flush" \in q.flags

LEMMA LivesChain ==
  ASSUME NEW a, NEW b, NEW c, Lives(b, a), Lives(c, b)
  PROVE  Lives(c, a)
BY DEF Lives

LEMMA EvolvesLives ==
  ASSUME NEW r, NEW q, Evolves(r, q)
  PROVE  Lives(r, q)
BY DEF Evolves, Lives, has_send_buffer, InFlight

LEMMA FlightLives ==
  ASSUME NEW r, NEW q, NEW s, NEW P, Flight(q, s, P), Lives(r, q)
  PROVE  Flight(r, s, P)
BY DEF Flight, Lives

\* Packet p is dropped, and its bytes are no longer in flight.
LEMMA FlightDrop ==
  ASSUME NEW r, NEW q, NEW s, NEW P, NEW p \in P, Flight(q, s, P),
         has_send_buffer(r) => has_send_buffer(q),
         InFlight(r) = InFlight(q) \ (IF s \in DOMAIN p THEN p[s].data ELSE {})
  PROVE  Flight(r, s, P \ {p})
<1> SUFFICES ASSUME has_send_buffer(r) PROVE Flight(r, s, P \ {p})
  BY DEF Flight
<1>1. /\ \A x \in P : \A b \in Nat : Carries(x, s, b) => b \in InFlight(q)
      /\ \A b \in InFlight(q) : \E x \in P : Carries(x, s, b)
      /\ \A p1, p2 \in P : \A b \in Nat : Carries(p1, s, b) /\ Carries(p2, s, b) => p1 = p2
  BY DEF Flight
<1>2. \A b : b \in InFlight(r) <=> b \in InFlight(q) /\ ~Carries(p, s, b)
  BY DEF Carries
<1>3. \A x \in P \ {p} : \A b \in Nat : Carries(x, s, b) => b \in InFlight(r)
  BY <1>1, <1>2
<1>4. \A b \in InFlight(r) : \E x \in P \ {p} : Carries(x, s, b)
  BY <1>1, <1>2
<1> QED BY <1>1, <1>3, <1>4 DEF Flight

\* The bytes of packet p that are in flight.
LEMMA ChunkInFlight ==
  ASSUME NEW q \in StreamType, NEW s \in Streams, NEW P, NEW p \in P, PacketOK(p),
         Flight(q, s, P), has_send_buffer(q), s \in DOMAIN p
  PROVE  p[s].data \subseteq InFlight(q) /\ p[s] \in ChunkType
<1>1. p[s] \in ChunkType
  BY DEF PacketOK
<1>2. p[s].data \subseteq Nat
  BY <1>1 DEF ChunkType
<1>3. \A b \in Nat : Carries(p, s, b) => b \in InFlight(q)
  BY DEF Flight
<1> QED BY <1>1, <1>2, <1>3 DEF Carries

-----------------------------------------------------------------------------
(* Acknowledgement of the chunks of one stream.                            *)

LEMMA MarkAckedIs ==
  ASSUME NEW q \in StreamType, NEW c \in ChunkType
  PROVE  LET r == mark_acked(q, c.data, c.fin)
         IN  /\ r \in StreamType /\ r.flags = q.flags
             /\ r.send_state = q.send_state /\ r.recv_state = q.recv_state
             /\ r.send_final_size = q.send_final_size /\ r.swm = q.swm /\ r.cwm = q.cwm
             /\ r.missed = q.missed
             /\ r.sstream.head = q.sstream.head /\ r.sstream.new = q.sstream.new
             /\ r.sstream.acked = q.sstream.acked \cup c.data
             /\ r.sstream.fin = IF c.fin THEN q.sstream.fin \cup {"acked"} ELSE q.sstream.fin
<1>1. c.data \in SUBSET Nat
  BY DEF ChunkType
<1> QED BY <1>1 DEF mark_acked, StreamType, BufferType

LEMMA AckDataIs ==
  ASSUME NEW m \in MapType, NEW s \in Streams, NEW c \in ChunkType
  PROVE  LET n == ack_data(m, s, c)
         IN  /\ Only(n, m, s) /\ n \in MapType
             /\ \A P : \A p \in P :
                  /\ MapOK(m) /\ PacketOK(p) /\ Flight(m.map[s], s, P)
                  /\ s \in DOMAIN p /\ c = p[s]
                  => /\ MapOK(n) /\ Flight(n.map[s], s, P \ {p})
                     /\ "shutdown_flush" \in n.map[s].flags
                          => "shutdown_flush" \in m.map[s].flags
<1> DEFINE q == m.map[s]
           r == mark_acked(q, c.data, c.fin)
           n == ack_data(m, s, c)
<1>1. q \in StreamType /\ DOMAIN m.map = Streams
  BY DEF MapType
<1>2. CASE ~HasBuffer(m, s) \/ (c.data = {} /\ ~c.fin)
  <2>1. n = m
    BY <1>2 DEF ack_data
  <2>2. Only(n, m, s)
    BY <2>1, OnlySelf
  <2>3. ASSUME NEW P, NEW p \in P, MapOK(m), PacketOK(p), Flight(q, s, P), s \in DOMAIN p, c = p[s]
        PROVE  Flight(q, s, P \ {p})
    <3>1. CASE ~has_send_buffer(q)
      BY <3>1 DEF Flight
    <3>2. CASE c.data = {}
      <4>1. InFlight(q) = InFlight(q) \ (IF s \in DOMAIN p THEN p[s].data ELSE {})
        BY <2>3, <3>2
      <4> HIDE DEF q
      <4> QED BY <2>3, <4>1, FlightDrop
    <3> QED BY <1>1, <1>2, <3>1, <3>2 DEF HasBuffer
  <2> QED BY <2>1, <2>2, <2>3
<1>3. CASE ~(~HasBuffer(m, s) \/ (c.data = {} /\ ~c.fin))
  <2>1. n = IF is_totally_acked(Set(m, s, r).map[s]) THEN update_state(Set(m, s, r), s)
            ELSE Set(m, s, r)
    BY <1>3 DEF ack_data
  <2>2. has_send_buffer(q)
    BY <1>3 DEF HasBuffer
  <2> HIDE DEF n, q
  <2>3. /\ r \in StreamType /\ r.flags = q.flags
        /\ r.send_state = q.send_state /\ r.recv_state = q.recv_state
        /\ r.send_final_size = q.send_final_size /\ r.swm = q.swm /\ r.cwm = q.cwm
        /\ r.missed = q.missed
        /\ r.sstream.head = q.sstream.head /\ r.sstream.new = q.sstream.new
        /\ r.sstream.acked = q.sstream.acked \cup c.data
        /\ r.sstream.fin = IF c.fin THEN q.sstream.fin \cup {"acked"} ELSE q.sstream.fin
    BY <1>1, MarkAckedIs
  <2> HIDE DEF r
  <2>4. Only(n, m, s) /\ Evolves(n.map[s], r)
    <3>1. CASE n = Set(m, s, r)
      <4>1. Only(n, m, s) /\ n.map[s] = r
        BY <2>3, <3>1, SetStream
      <4> QED BY <4>1 DEF Evolves
    <3>2. CASE n = update_state(Set(m, s, r), s)
      BY <2>3, <3>2, SetUpdate
    <3> QED BY <2>1, <3>1, <3>2
  <2>5. SameFlush(r, q) /\ Quieter(r, q, Credit(m))
    BY <2>3 DEF SameFlush, Quieter, Wants, FinAlone, wants_control_frame, has_send_buffer, has_pending
  <2>6. has_send_buffer(r) /\ (has_final_size(r) <=> has_final_size(q))
    BY <2>2, <2>3 DEF has_send_buffer, has_final_size
  <2>7. ASSUME NEW P, NEW p \in P, MapOK(m), PacketOK(p), Flight(q, s, P), s \in DOMAIN p, c = p[s]
        PROVE  /\ MapOK(n) /\ Flight(n.map[s], s, P \ {p})
               /\ "shutdown_flush" \in n.map[s].flags => "shutdown_flush" \in q.flags
    <3>1. c.data \subseteq InFlight(q)
      BY <1>1, <2>2, <2>7, ChunkInFlight
    <3>2. StreamOK(q)
      BY <2>7 DEF MapOK, MapBut, q
    <3>3. BytesOK(r)
      BY <2>2, <2>3, <3>1, <3>2 DEF StreamOK, BytesOK, InFlight
    <3>4. StateOK(r)
      BY <2>3, <2>6, <3>2 DEF StreamOK, StateOK
    <3>5. StreamOK(r)
      BY <3>3, <3>4 DEF StreamOK
    <3>6. MapOK(n)
      <4>1. CASE n = Set(m, s, r)
        BY <2>3, <2>5, <2>7, <3>5, <4>1, SetQuiet DEF q
      <4>2. CASE n = update_state(Set(m, s, r), s)
        BY <2>3, <2>5, <2>7, <3>5, <4>2, SetUpdate, MapOKIs DEF q
      <4> QED BY <2>1, <4>1, <4>2
    <3>7. Flight(r, s, P \ {p})
      <4>1. InFlight(r) = InFlight(q) \ (IF s \in DOMAIN p THEN p[s].data ELSE {})
        BY <2>3, <2>7 DEF InFlight
      <4> QED BY <2>2, <2>7, <4>1, FlightDrop
    <3>8. Lives(n.map[s], r)
      BY <2>4, EvolvesLives
    <3>9. Flight(n.map[s], s, P \ {p})
      BY <3>7, <3>8, FlightLives
    <3> QED BY <2>3, <3>6, <3>8, <3>9 DEF Lives
  <2> QED BY <2>4, <2>7 DEF Only, q, n
<1> QED BY <1>2, <1>3

LEMMA AckAbortIs ==
  ASSUME NEW m \in MapType, NEW s \in Streams, NEW c
  PROVE  LET n == ack_abort(m, s, c)
         IN  /\ Only(n, m, s) /\ n \in MapType /\ Lives(n.map[s], m.map[s])
             /\ MapOK(m) => MapOK(n)
<1> DEFINE stopped == IF c.stop THEN update_state(Raise(m, s, "acked_stop_sending"), s) ELSE m
           k == notify_reset_stream_acked(stopped, s)
           n == update_state(k, s)
<1>1. /\ Only(stopped, m, s) /\ Evolves(stopped.map[s], m.map[s]) /\ stopped \in MapType
      /\ MapOK(m) => MapOK(stopped)
  <2>1. CASE c.stop
    <3>1. "acked_stop_sending" \in PlainFlags
      BY DEF PlainFlags, Flags
    <3> QED BY <2>1, <3>1, RaiseUpdate, MapOKIs
  <2>2. CASE ~c.stop
    BY <2>2, OnlySelf
  <2> QED BY <2>1, <2>2
<1>2. Lives(stopped.map[s], m.map[s])
  BY <1>1, EvolvesLives
<1> HIDE DEF stopped
<1>3. /\ Only(n, stopped, s) /\ n \in MapType /\ Lives(n.map[s], stopped.map[s])
      /\ MapOK(stopped) => MapOK(n)
  <2> DEFINE q == stopped.map[s]
             r == [q EXCEPT !.send_state = "RESET_RECVD"]
  <2>1. q \in StreamType
    BY <1>1 DEF MapType
  <2>2. CASE q.send_state = "RESET_SENT"
    <3>1. k = Set(stopped, s, r)
      BY <2>2 DEF notify_reset_stream_acked, Set
    <3>2. /\ r \in StreamType /\ r.flags = q.flags /\ r.send_state = "RESET_RECVD"
          /\ r.send_final_size = q.send_final_size /\ r.swm = q.swm /\ r.cwm = q.cwm
          /\ r.sstream = q.sstream
      <4> HIDE DEF q
      <4> QED BY <2>1 DEF StreamType, SendStates
    <3> HIDE DEF r, q, k
    <3>3. StreamOK(q) => StreamOK(r)
      BY <2>2, <3>2 DEF StreamOK, BytesOK, StateOK, SizeFixed, has_send_buffer
    <3>4. /\ Only(n, stopped, s) /\ Evolves(n.map[s], r)
          /\ MapButDue(stopped, s) /\ StreamOK(r) /\ SameFlush(r, q) => MapOK(n)
      BY <1>1, <3>1, <3>2, SetUpdate DEF q
    <3> HIDE DEF n
    <3>5. Lives(n.map[s], q)
      <4>1. ~has_send_buffer(n.map[s])
        BY <3>2, <3>4 DEF Evolves, has_send_buffer
      <4> QED BY <3>2, <3>4, <4>1 DEF Lives, Evolves
    <3>6. MapOK(stopped) => MapOK(n)
      BY <3>2, <3>3, <3>4, MapOKIs DEF MapOK, MapBut, SameFlush, q
    <3> QED BY <3>4, <3>5, <3>6 DEF Only, q
  <2>3. CASE q.send_state # "RESET_SENT"
    <3>1. k = stopped
      BY <2>3 DEF notify_reset_stream_acked
    <3> HIDE DEF k
    <3>2. Only(n, stopped, s) /\ Evolves(n.map[s], q) /\ (MapButDue(stopped, s) => MapOK(n))
      BY <1>1, <3>1, UpdateIs
    <3> HIDE DEF n
    <3> QED BY <3>2, EvolvesLives, MapOKIs DEF Only
  <2> QED BY <2>2, <2>3
<1>4. ack_abort(m, s, c) \in {m, stopped, n}
  BY DEF ack_abort, stopped
<1> HIDE DEF n
<1>5. CASE ack_abort(m, s, c) = m
  BY <1>5, OnlySelf, EvolvesLives
<1>6. CASE ack_abort(m, s, c) = stopped
  BY <1>1, <1>2, <1>6
<1>7. CASE ack_abort(m, s, c) = n
  <2>1. Only(n, m, s) /\ Lives(n.map[s], m.map[s])
    BY <1>1, <1>2, <1>3, OnlyChain, LivesChain
  <2> QED BY <1>1, <1>3, <1>7, <2>1
<1> QED BY <1>4, <1>5, <1>6, <1>7

\* The two together.
LEMMA AckIs ==
  ASSUME NEW m \in MapType, NEW s \in Streams, NEW c \in ChunkType
  PROVE  LET n == ack_abort(ack_data(m, s, c), s, c)
         IN  /\ Only(n, m, s) /\ n \in MapType
             /\ \A P : \A p \in P :
                  /\ MapOK(m) /\ PacketOK(p) /\ Flight(m.map[s], s, P)
                  /\ s \in DOMAIN p /\ c = p[s]
                  => /\ MapOK(n) /\ Flight(n.map[s], s, P \ {p})
                     /\ "shutdown_flush" \in n.map[s].flags
                          => "shutdown_flush" \in m.map[s].flags
<1> DEFINE d == ack_data(m, s, c)
           n == ack_abort(d, s, c)
<1>1. /\ Only(d, m, s) /\ d \in MapType
      /\ \A P : \A p \in P :
           /\ MapOK(m) /\ PacketOK(p) /\ Flight(m.map[s], s, P)
           /\ s \in DOMAIN p /\ c = p[s]
           => /\ MapOK(d) /\ Flight(d.map[s], s, P \ {p})
              /\ "shutdown_flush" \in d.map[s].flags
                   => "shutdown_flush" \in m.map[s].flags
  BY AckDataIs
<1> HIDE DEF d
<1>2. /\ Only(n, d, s) /\ n \in MapType /\ Lives(n.map[s], d.map[s])
      /\ MapOK(d) => MapOK(n)
  BY <1>1, AckAbortIs
<1> HIDE DEF n
<1>3. Only(n, m, s)
  BY <1>1, <1>2, OnlyChain
<1>4. ASSUME NEW P, NEW p \in P, MapOK(m), PacketOK(p), Flight(m.map[s], s, P),
             s \in DOMAIN p, c = p[s]
      PROVE  /\ MapOK(n) /\ Flight(n.map[s], s, P \ {p})
             /\ "shutdown_flush" \in n.map[s].flags => "shutdown_flush" \in m.map[s].flags
  <2>1. /\ MapOK(d) /\ Flight(d.map[s], s, P \ {p})
        /\ "shutdown_flush" \in d.map[s].flags => "shutdown_flush" \in m.map[s].flags
    BY <1>1, <1>4
  <2>2. Flight(n.map[s], s, P \ {p})
    BY <1>2, <2>1, FlightLives
  <2> QED BY <1>2, <2>1, <2>2 DEF Lives
<1> QED BY <1>2, <1>3, <1>4 DEF n, d

-----------------------------------------------------------------------------
(* Loss of the chunks of one stream.                                       *)

LEMMA MarkLostIs ==
  ASSUME NEW q \in StreamType, NEW c \in ChunkType
  PROVE  LET r == mark_lost(q, c.data, c.fin)
         IN  /\ r \in StreamType /\ r.flags = q.flags
             /\ r.send_state = q.send_state /\ r.recv_state = q.recv_state
             /\ r.send_final_size = q.send_final_size /\ r.swm = q.swm /\ r.cwm = q.cwm
             /\ r.sstream.head = q.sstream.head /\ r.sstream.acked = q.sstream.acked
             /\ r.sstream.new = q.sstream.new \cup c.data
             /\ "have" \in r.sstream.fin <=> "have" \in q.sstream.fin
<1>1. c.data \in SUBSET Nat
  BY DEF ChunkType
<1> QED BY <1>1 DEF mark_lost, StreamType, BufferType

\* Marking the stream to send MAX_STREAM_DATA, and update_state.
LEMMA RegenIs ==
  ASSUME NEW m \in MapType, NEW s \in Streams
  PROVE  LET n == regen_max_stream_data(m, s)
         IN  /\ Only(n, m, s) /\ Evolves(n.map[s], m.map[s]) /\ n \in MapType
             /\ MapButDue(m, s) => MapOK(n)
<1>1. "want_max_stream_data" \in PlainFlags
  BY DEF PlainFlags, Flags
<1> QED BY <1>1, RaiseUpdate DEF regen_max_stream_data

LEMMA LoseDataIs ==
  ASSUME NEW m \in MapType, NEW s \in Streams, NEW c \in ChunkType
  PROVE  LET n == lose_data(m, s, c)
         IN  /\ Only(n, m, s) /\ n \in MapType
             /\ \A P : \A p \in P :
                  /\ MapOK(m) /\ PacketOK(p) /\ Flight(m.map[s], s, P)
                  /\ s \in DOMAIN p /\ c = p[s]
                  => /\ MapOK(n) /\ Flight(n.map[s], s, P \ {p})
                     /\ "shutdown_flush" \in n.map[s].flags
                          => "shutdown_flush" \in m.map[s].flags
<1> DEFINE q == m.map[s]
           r == mark_lost(q, c.data, c.fin)
           k == Set(m, s, r)
           n == lose_data(m, s, c)
<1>1. q \in StreamType /\ DOMAIN m.map = Streams
  BY DEF MapType
<1>2. CASE ~HasBuffer(m, s) \/ (c.data = {} /\ ~c.fin)
  <2>1. n = m
    BY <1>2 DEF lose_data
  <2>2. Only(n, m, s)
    BY <2>1, OnlySelf
  <2>3. ASSUME NEW P, NEW p \in P, MapOK(m), PacketOK(p), Flight(q, s, P), s \in DOMAIN p, c = p[s]
        PROVE  Flight(q, s, P \ {p})
    <3>1. CASE ~has_send_buffer(q)
      BY <3>1 DEF Flight
    <3>2. CASE c.data = {}
      <4>1. InFlight(q) = InFlight(q) \ (IF s \in DOMAIN p THEN p[s].data ELSE {})
        BY <2>3, <3>2
      <4> HIDE DEF q
      <4> QED BY <2>3, <4>1, FlightDrop
    <3> QED BY <1>1, <1>2, <3>1, <3>2 DEF HasBuffer
  <2> QED BY <2>1, <2>2, <2>3
<1>3. CASE ~(~HasBuffer(m, s) \/ (c.data = {} /\ ~c.fin))
  <2>1. n = regen_max_stream_data(k, s)
    BY <1>3 DEF lose_data
  <2>2. has_send_buffer(q)
    BY <1>3 DEF HasBuffer
  <2> HIDE DEF n, q
  <2>3. /\ r \in StreamType /\ r.flags = q.flags
        /\ r.send_state = q.send_state /\ r.recv_state = q.recv_state
        /\ r.send_final_size = q.send_final_size /\ r.swm = q.swm /\ r.cwm = q.cwm
        /\ r.sstream.head = q.sstream.head /\ r.sstream.acked = q.sstream.acked
        /\ r.sstream.new = q.sstream.new \cup c.data
        /\ "have" \in r.sstream.fin <=> "have" \in q.sstream.fin
    BY <1>1, MarkLostIs
  <2> HIDE DEF r
  <2>4. /\ Only(k, m, s) /\ k.map[s] = r /\ k \in MapType
        /\ MapButDue(m, s) /\ StreamOK(r) /\ SameFlush(r, q) => MapButDue(k, s)
    BY <2>3, SetStream DEF q
  <2> HIDE DEF k
  <2>5. Only(n, k, s) /\ Evolves(n.map[s], r) /\ n \in MapType /\ (MapButDue(k, s) => MapOK(n))
    BY <2>1, <2>4, RegenIs
  <2>6. Only(n, m, s)
    BY <2>4, <2>5, OnlyChain
  <2>7. has_send_buffer(r) /\ (has_final_size(r) <=> has_final_size(q)) /\ SameFlush(r, q)
    BY <2>2, <2>3 DEF has_send_buffer, has_final_size, SameFlush
  <2>8. ASSUME NEW P, NEW p \in P, MapOK(m), PacketOK(p), Flight(q, s, P), s \in DOMAIN p, c = p[s]
        PROVE  /\ MapOK(n) /\ Flight(n.map[s], s, P \ {p})
               /\ "shutdown_flush" \in n.map[s].flags => "shutdown_flush" \in q.flags
    <3>1. c.data \subseteq InFlight(q)
      BY <1>1, <2>2, <2>8, ChunkInFlight
    <3>2. StreamOK(q)
      BY <2>8 DEF MapOK, MapBut, q
    <3>3. BytesOK(r)
      BY <2>2, <2>3, <3>1, <3>2 DEF StreamOK, BytesOK, InFlight
    <3>4. StateOK(r)
      BY <2>3, <2>7, <3>2 DEF StreamOK, StateOK
    <3>5. MapOK(n)
      BY <2>4, <2>5, <2>7, <2>8, <3>3, <3>4, MapOKIs DEF StreamOK
    <3>6. Flight(r, s, P \ {p})
      <4>1. InFlight(r) = InFlight(q) \ (IF s \in DOMAIN p THEN p[s].data ELSE {})
        BY <2>3, <2>8 DEF InFlight
      <4> QED BY <2>2, <2>8, <4>1, FlightDrop
    <3>7. Lives(n.map[s], r)
      BY <2>5, EvolvesLives
    <3>8. Flight(n.map[s], s, P \ {p})
      BY <3>6, <3>7, FlightLives
    <3> QED BY <2>3, <3>5, <3>7, <3>8 DEF Lives
  <2> QED BY <2>5, <2>6, <2>8 DEF q, n
<1> QED BY <1>2, <1>3

LEMMA LoseAbortIs ==
  ASSUME NEW m \in MapType, NEW s \in Streams, NEW c
  PROVE  LET n == lose_abort(m, s, c)
         IN  /\ Only(n, m, s) /\ n \in MapType /\ Lives(n.map[s], m.map[s])
             /\ MapOK(m) => MapOK(n)
<1> DEFINE stopped == IF c.stop THEN schedule_stop_sending(m, s) ELSE m
           reset == IF c.reset THEN update_state(Raise(stopped, s, "want_reset_stream"), s)
                    ELSE stopped
           n == regen_max_stream_data(reset, s)
<1>1. /\ Only(stopped, m, s) /\ Evolves(stopped.map[s], m.map[s]) /\ stopped \in MapType
      /\ MapOK(m) => MapOK(stopped)
  BY ScheduleIs, OnlySelf
<1> HIDE DEF stopped
<1>2. /\ Only(reset, stopped, s) /\ Evolves(reset.map[s], stopped.map[s]) /\ reset \in MapType
      /\ MapOK(stopped) => MapOK(reset)
  <2>1. "want_reset_stream" \in PlainFlags
    BY DEF PlainFlags, Flags
  <2>2. CASE c.reset
    BY <1>1, <2>1, <2>2, RaiseUpdate, MapOKIs
  <2>3. CASE ~c.reset
    BY <1>1, <2>3, OnlySelf
  <2> QED BY <2>2, <2>3
<1> HIDE DEF reset
<1>3. /\ Only(n, reset, s) /\ Evolves(n.map[s], reset.map[s]) /\ n \in MapType
      /\ MapOK(reset) => MapOK(n)
  BY <1>2, RegenIs, MapOKIs
<1>4. lose_abort(m, s, c) \in {m, n}
  BY DEF lose_abort, stopped, reset
<1> HIDE DEF n
<1>5. Only(reset, m, s) /\ Evolves(reset.map[s], m.map[s])
  BY <1>1, <1>2, OnlyChain, EvolvesChain
<1>6. Only(n, m, s) /\ Evolves(n.map[s], m.map[s])
  BY <1>3, <1>5, OnlyChain, EvolvesChain
<1>7. CASE lose_abort(m, s, c) = m
  BY <1>7, OnlySelf, EvolvesLives
<1>8. CASE lose_abort(m, s, c) = n
  BY <1>1, <1>2, <1>3, <1>6, <1>8, EvolvesLives
<1> QED BY <1>4, <1>7, <1>8

\* The two together.
LEMMA LoseIs ==
  ASSUME NEW m \in MapType, NEW s \in Streams, NEW c \in ChunkType
  PROVE  LET n == lose_abort(lose_data(m, s, c), s, c)
         IN  /\ Only(n, m, s) /\ n \in MapType
             /\ \A P : \A p \in P :
                  /\ MapOK(m) /\ PacketOK(p) /\ Flight(m.map[s], s, P)
                  /\ s \in DOMAIN p /\ c = p[s]
                  => /\ MapOK(n) /\ Flight(n.map[s], s, P \ {p})
                     /\ "shutdown_flush" \in n.map[s].flags
                          => "shutdown_flush" \in m.map[s].flags
<1> DEFINE d == lose_data(m, s, c)
           n == lose_abort(d, s, c)
<1>1. /\ Only(d, m, s) /\ d \in MapType
      /\ \A P : \A p \in P :
           /\ MapOK(m) /\ PacketOK(p) /\ Flight(m.map[s], s, P)
           /\ s \in DOMAIN p /\ c = p[s]
           => /\ MapOK(d) /\ Flight(d.map[s], s, P \ {p})
              /\ "shutdown_flush" \in d.map[s].flags
                   => "shutdown_flush" \in m.map[s].flags
  BY LoseDataIs
<1> HIDE DEF d
<1>2. /\ Only(n, d, s) /\ n \in MapType /\ Lives(n.map[s], d.map[s])
      /\ MapOK(d) => MapOK(n)
  BY <1>1, LoseAbortIs
<1> HIDE DEF n
<1>3. Only(n, m, s)
  BY <1>1, <1>2, OnlyChain
<1>4. ASSUME NEW P, NEW p \in P, MapOK(m), PacketOK(p), Flight(m.map[s], s, P),
             s \in DOMAIN p, c = p[s]
      PROVE  /\ MapOK(n) /\ Flight(n.map[s], s, P \ {p})
             /\ "shutdown_flush" \in n.map[s].flags => "shutdown_flush" \in m.map[s].flags
  <2>1. /\ MapOK(d) /\ Flight(d.map[s], s, P \ {p})
        /\ "shutdown_flush" \in d.map[s].flags => "shutdown_flush" \in m.map[s].flags
    BY <1>1, <1>4
  <2>2. Flight(n.map[s], s, P \ {p})
    BY <1>2, <2>1, FlightLives
  <2> QED BY <1>2, <2>1, <2>2 DEF Lives
<1> QED BY <1>2, <1>3, <1>4 DEF n, d

-----------------------------------------------------------------------------
(* Operations on many streams: folds, and the states t[i] after i streams. *)

LEMMA UptoIs ==
  ASSUME NEW n \in Nat
  PROVE  /\ IsFiniteSet(1 .. n) /\ 1 .. 0 = {} /\ 1 .. n \in SUBSET (1 .. n)
         /\ \A s \in SUBSET (1 .. n) : s # {} => Max(s) \in s
         /\ \A i \in 1 .. n : /\ Max(1 .. i) = i /\ (1 .. i) \ {i} = 1 .. i - 1
                              /\ 1 .. i # {} /\ 1 .. i \in SUBSET (1 .. n)
<1>1. IsFiniteSet(1 .. n)
  BY FS_Interval
<1>2. ASSUME NEW s \in SUBSET (1 .. n), s # {} PROVE Max(s) \in s /\ \A y \in s : y <= Max(s)
  <2>1. s \subseteq 1 .. n /\ s \subseteq Int
    OBVIOUS
  <2>2. IsFiniteSet(s)
    BY <1>1, <2>1, FS_Subset
  <2> QED BY <1>2, <2>1, <2>2, MaxIn
<1>3. ASSUME NEW i \in 1 .. n
      PROVE  /\ Max(1 .. i) = i /\ (1 .. i) \ {i} = 1 .. i - 1
             /\ 1 .. i # {} /\ 1 .. i \in SUBSET (1 .. n)
  <2>1. i \in 1 .. i /\ 1 .. i \in SUBSET (1 .. n)
    OBVIOUS
  <2>2. Max(1 .. i) \in 1 .. i /\ i <= Max(1 .. i)
    BY <1>2, <2>1
  <2> QED BY <2>1, <2>2
<1> QED BY <1>1, <1>2, <1>3

LEMMA UpdateAllIs ==
  ASSUME NEW m \in MapType, NEW n \in Nat, NEW order \in [1 .. n -> Streams]
  PROVE  \E t : /\ t[0] = m /\ update_all(m, order) = t[n]
                /\ \A i \in 1 .. n : t[i] = update_state(t[i - 1], order[i])
<1> DEFINE F == [i \in 1 .. n |-> [v \in MapType |-> update_state(v, order[i])]]
           pick == [s \in SUBSET (1 .. n) |-> Max(s)]
           Step(g, s) == IF s = {} THEN m ELSE update_state(g[s \ {Max(s)}], order[Max(s)])
           iter == CHOOSE g : g = [s \in SUBSET (DOMAIN order) |-> Step(g, s)]
           t == [i \in 0 .. n |-> iter[1 .. i]]
<1>1. DOMAIN order = 1 .. n
  OBVIOUS
<1>2. update_all(m, order) = iter[1 .. n]
  <2>1. update_all(m, order) = iter[DOMAIN order]
    BY Zenon DEF update_all, FoldLeft, MapThenFoldSet
  <2> QED BY <1>1, <2>1
<1>3. \A s \in SUBSET (1 .. n) : s # {} => pick[s] \in s /\ pick[s] = Max(s)
  BY UptoIs
<1>4. \A i \in 1 .. n : \A v \in MapType :
        F[i][v] = update_state(v, order[i]) /\ F[i][v] \in MapType
  BY UpdateIs DEF Only
<1> HIDE DEF F, pick
<1>5. PICK g : FoldsOver(F, m, pick, 1 .. n, g)
  BY <1>3, FoldsExist, UptoIs
<1>6. \A s \in SUBSET (1 .. n) : g[s] \in MapType
  BY <1>3, <1>4, <1>5, FoldsStay, UptoIs
<1>7. g = [s \in SUBSET (DOMAIN order) |-> Step(g, s)]
  <2>1. ASSUME NEW s \in SUBSET (1 .. n) PROVE FoldStep(F, m, pick, g, s) = Step(g, s)
    <3>1. CASE s = {}
      BY <3>1 DEF FoldStep
    <3>2. CASE s # {}
      <4>1. pick[s] = Max(s) /\ Max(s) \in 1 .. n /\ g[s \ {Max(s)}] \in MapType
        BY <1>3, <1>6, <3>2
      <4> QED BY <1>4, <3>2, <4>1 DEF FoldStep
    <3> QED BY <3>1, <3>2
  <2>2. g = [s \in SUBSET (1 .. n) |-> FoldStep(F, m, pick, g, s)]
    BY <1>5 DEF FoldsOver
  <2> HIDE DEF Step
  <2> QED BY <1>1, <2>1, <2>2
<1>8. iter = [s \in SUBSET (1 .. n) |-> Step(iter, s)]
  <2> HIDE DEF Step
  <2> QED BY <1>1, <1>7
<1> HIDE DEF iter
<1>9. t[0] = m
  <2>1. 1 .. 0 = {} /\ iter[{}] = Step(iter, {}) /\ 0 \in 0 .. n
    BY <1>8, UptoIs
  <2> QED BY <2>1
<1>10. ASSUME NEW i \in 1 .. n PROVE t[i] = update_state(t[i - 1], order[i])
  <2>1. iter[1 .. i] = Step(iter, 1 .. i)
    BY <1>8, UptoIs
  <2>2. iter[1 .. i] = update_state(iter[1 .. i - 1], order[i])
    BY <2>1, UptoIs
  <2>3. i \in 0 .. n /\ i - 1 \in 0 .. n
    OBVIOUS
  <2> QED BY <2>2, <2>3
<1>11. t[n] = iter[1 .. n]
  OBVIOUS
<1> HIDE DEF t
<1> QED BY <1>2, <1>9, <1>10, <1>11


AckedOver(t, m, p, n, order) ==
  /\ t[0] = m
  /\ \A i \in 1 .. n : t[i] = ack_abort(ack_data(t[i - 1], order[i], p[order[i]]), order[i], p[order[i]])

LEMMA AckedAllIs ==
  ASSUME NEW m \in MapType, NEW p, PacketOK(p), NEW n \in Nat, NEW order \in [1 .. n -> DOMAIN p]
  PROVE  \E t : AckedOver(t, m, p, n, order) /\ acked_all(m, p, order) = t[n]
<1> DEFINE Do(v, s) == ack_abort(ack_data(v, s, p[s]), s, p[s])
           F == [i \in 1 .. n |-> [v \in MapType |-> Do(v, order[i])]]
           pick == [s \in SUBSET (1 .. n) |-> Max(s)]
           Step(g, s) == IF s = {} THEN m ELSE Do(g[s \ {Max(s)}], order[Max(s)])
           iter == CHOOSE g : g = [s \in SUBSET (DOMAIN order) |-> Step(g, s)]
           t == [i \in 0 .. n |-> iter[1 .. i]]
<1>1. DOMAIN order = 1 .. n
  OBVIOUS
<1>2. acked_all(m, p, order) = iter[1 .. n]
  <2>1. acked_all(m, p, order) = iter[DOMAIN order]
    BY Zenon DEF acked_all, FoldLeft, MapThenFoldSet
  <2> QED BY <1>1, <2>1
<1>3. \A s \in SUBSET (1 .. n) : s # {} => pick[s] \in s /\ pick[s] = Max(s)
  BY UptoIs
<1>4. ASSUME NEW i \in 1 .. n, NEW v \in MapType
      PROVE  F[i][v] = Do(v, order[i]) /\ F[i][v] \in MapType
  <2>1. order[i] \in Streams /\ p[order[i]] \in ChunkType
    BY DEF PacketOK
  <2>2. Do(v, order[i]) \in MapType
    BY <2>1, AckIs
  <2>3. F[i][v] = Do(v, order[i])
    <3> HIDE DEF Do
    <3> QED OBVIOUS
  <2> HIDE DEF Do, F
  <2> QED BY <2>2, <2>3
<1> HIDE DEF F, pick
<1>5. PICK g : FoldsOver(F, m, pick, 1 .. n, g)
  BY <1>3, FoldsExist, UptoIs
<1>6. \A s \in SUBSET (1 .. n) : g[s] \in MapType
  BY <1>3, <1>4, <1>5, FoldsStay, UptoIs
<1>7. g = [s \in SUBSET (DOMAIN order) |-> Step(g, s)]
  <2>1. ASSUME NEW s \in SUBSET (1 .. n) PROVE FoldStep(F, m, pick, g, s) = Step(g, s)
    <3> HIDE DEF Do
    <3>1. CASE s = {}
      BY <3>1 DEF FoldStep
    <3>2. CASE s # {}
      <4>1. pick[s] = Max(s) /\ Max(s) \in 1 .. n /\ g[s \ {Max(s)}] \in MapType
        BY <1>3, <1>6, <3>2
      <4> QED BY <1>4, <3>2, <4>1 DEF FoldStep
    <3> QED BY <3>1, <3>2
  <2>2. g = [s \in SUBSET (1 .. n) |-> FoldStep(F, m, pick, g, s)]
    BY <1>5 DEF FoldsOver
  <2> HIDE DEF Step
  <2> QED BY <1>1, <2>1, <2>2
<1>8. iter = [s \in SUBSET (1 .. n) |-> Step(iter, s)]
  <2> HIDE DEF Step
  <2> QED BY <1>1, <1>7
<1> HIDE DEF iter, Do
<1>9. t[0] = m
  <2>1. 1 .. 0 = {} /\ iter[{}] = Step(iter, {}) /\ 0 \in 0 .. n
    BY <1>8, UptoIs
  <2> QED BY <2>1
<1>10. ASSUME NEW i \in 1 .. n PROVE t[i] = Do(t[i - 1], order[i])
  <2>1. iter[1 .. i] = Step(iter, 1 .. i)
    BY <1>8, UptoIs
  <2>2. iter[1 .. i] = Do(iter[1 .. i - 1], order[i])
    BY <2>1, UptoIs
  <2>3. i \in 0 .. n /\ i - 1 \in 0 .. n
    OBVIOUS
  <2> QED BY <2>2, <2>3
<1>11. t[n] = iter[1 .. n]
  OBVIOUS
<1> HIDE DEF t
<1> QED BY <1>2, <1>9, <1>10, <1>11 DEF Do, AckedOver

LostOver(t, m, p, n, order) ==
  /\ t[0] = m
  /\ \A i \in 1 .. n : t[i] = lose_abort(lose_data(t[i - 1], order[i], p[order[i]]), order[i], p[order[i]])

LEMMA LostAllIs ==
  ASSUME NEW m \in MapType, NEW p, PacketOK(p), NEW n \in Nat, NEW order \in [1 .. n -> DOMAIN p]
  PROVE  \E t : LostOver(t, m, p, n, order) /\ lost_all(m, p, order) = t[n]
<1> DEFINE Do(v, s) == lose_abort(lose_data(v, s, p[s]), s, p[s])
           F == [i \in 1 .. n |-> [v \in MapType |-> Do(v, order[i])]]
           pick == [s \in SUBSET (1 .. n) |-> Max(s)]
           Step(g, s) == IF s = {} THEN m ELSE Do(g[s \ {Max(s)}], order[Max(s)])
           iter == CHOOSE g : g = [s \in SUBSET (DOMAIN order) |-> Step(g, s)]
           t == [i \in 0 .. n |-> iter[1 .. i]]
<1>1. DOMAIN order = 1 .. n
  OBVIOUS
<1>2. lost_all(m, p, order) = iter[1 .. n]
  <2>1. lost_all(m, p, order) = iter[DOMAIN order]
    BY Zenon DEF lost_all, FoldLeft, MapThenFoldSet
  <2> QED BY <1>1, <2>1
<1>3. \A s \in SUBSET (1 .. n) : s # {} => pick[s] \in s /\ pick[s] = Max(s)
  BY UptoIs
<1>4. ASSUME NEW i \in 1 .. n, NEW v \in MapType
      PROVE  F[i][v] = Do(v, order[i]) /\ F[i][v] \in MapType
  <2>1. order[i] \in Streams /\ p[order[i]] \in ChunkType
    BY DEF PacketOK
  <2>2. Do(v, order[i]) \in MapType
    BY <2>1, LoseIs
  <2>3. F[i][v] = Do(v, order[i])
    <3> HIDE DEF Do
    <3> QED OBVIOUS
  <2> HIDE DEF Do, F
  <2> QED BY <2>2, <2>3
<1> HIDE DEF F, pick
<1>5. PICK g : FoldsOver(F, m, pick, 1 .. n, g)
  BY <1>3, FoldsExist, UptoIs
<1>6. \A s \in SUBSET (1 .. n) : g[s] \in MapType
  BY <1>3, <1>4, <1>5, FoldsStay, UptoIs
<1>7. g = [s \in SUBSET (DOMAIN order) |-> Step(g, s)]
  <2>1. ASSUME NEW s \in SUBSET (1 .. n) PROVE FoldStep(F, m, pick, g, s) = Step(g, s)
    <3> HIDE DEF Do
    <3>1. CASE s = {}
      BY <3>1 DEF FoldStep
    <3>2. CASE s # {}
      <4>1. pick[s] = Max(s) /\ Max(s) \in 1 .. n /\ g[s \ {Max(s)}] \in MapType
        BY <1>3, <1>6, <3>2
      <4> QED BY <1>4, <3>2, <4>1 DEF FoldStep
    <3> QED BY <3>1, <3>2
  <2>2. g = [s \in SUBSET (1 .. n) |-> FoldStep(F, m, pick, g, s)]
    BY <1>5 DEF FoldsOver
  <2> HIDE DEF Step
  <2> QED BY <1>1, <2>1, <2>2
<1>8. iter = [s \in SUBSET (1 .. n) |-> Step(iter, s)]
  <2> HIDE DEF Step
  <2> QED BY <1>1, <1>7
<1> HIDE DEF iter, Do
<1>9. t[0] = m
  <2>1. 1 .. 0 = {} /\ iter[{}] = Step(iter, {}) /\ 0 \in 0 .. n
    BY <1>8, UptoIs
  <2> QED BY <2>1
<1>10. ASSUME NEW i \in 1 .. n PROVE t[i] = Do(t[i - 1], order[i])
  <2>1. iter[1 .. i] = Step(iter, 1 .. i)
    BY <1>8, UptoIs
  <2>2. iter[1 .. i] = Do(iter[1 .. i - 1], order[i])
    BY <2>1, UptoIs
  <2>3. i \in 0 .. n /\ i - 1 \in 0 .. n
    OBVIOUS
  <2> QED BY <2>2, <2>3
<1>11. t[n] = iter[1 .. n]
  OBVIOUS
<1> HIDE DEF t
<1> QED BY <1>2, <1>9, <1>10, <1>11 DEF Do, LostOver

-----------------------------------------------------------------------------
(* Sending the frames of one stream.                                       *)

\* The frames of a stream in a packet, with bytes up to some point.
FramesType ==
  {c \in [data : SUBSET Nat, fin : BOOLEAN, stop : BOOLEAN, reset : BOOLEAN, fc : BOOLEAN] :
     \E h \in Nat : c.data \subseteq 0 .. h}

\* They are frames that stream q can send: bytes to be sent, within its credit.
CanCarry(q, c) ==
  /\ c \in FramesType /\ c.data \subseteq q.sstream.new
  /\ c.data # {} => has_send_buffer(q)
  /\ \A b \in c.data : b < q.cwm

\* A stream that still has a send buffer has the bytes D more in flight.
Sends(r, q, D) ==
  /\ has_send_buffer(r) => has_send_buffer(q) /\ InFlight(r) = InFlight(q) \cup D
  /\ "shutdown_flush" \in r.flags => "shutdown_flush" \in q.flags

\* Max of a set of integers in an interval.
LEMMA MaxWithin ==
  ASSUME NEW a \in Int, NEW h \in Int, NEW S \in SUBSET (a .. h), S # {}
  PROVE  Max(S) \in S /\ \A y \in S : y <= Max(S)
<1>1. S \subseteq a .. h /\ S \subseteq Int
  OBVIOUS
<1>2. IsFiniteSet(S)
  BY <1>1, FS_Interval, FS_Subset
<1> QED BY <1>1, <1>2, MaxIn

\* The end of what has been sent.
LEMMA SentIs ==
  ASSUME NEW w \in Nat, NEW D, NEW h \in Nat, D \subseteq 0 .. h
  PROVE  LET max == Max({w} \cup {b + 1 : b \in D})
         IN  /\ max \in Nat /\ w <= max /\ \A b \in D : b < max
             /\ max = w \/ \E b \in D : max = b + 1
<1> DEFINE S == {w} \cup {b + 1 : b \in D}
           max == Max(S)
<1>1. S \in SUBSET (0 .. (w + h + 1)) /\ S # {} /\ w + h + 1 \in Int /\ 0 \in Int
  OBVIOUS
<1>2. max \in S /\ \A y \in S : y <= max
  <2> HIDE DEF S
  <2> QED BY <1>1, MaxWithin
<1>3. max \in Nat
  BY <1>1, <1>2
<1> HIDE DEF max
<1>4. w <= max /\ \A b \in D : b + 1 <= max
  BY <1>2
<1>5. \A b \in D : b < max
  BY <1>3, <1>4
<1>6. max = w \/ \E b \in D : max = b + 1
  BY <1>2
<1> QED BY <1>3, <1>4, <1>5, <1>6 DEF max

\* What becomes of the stream before update_state.
sent_stream(q, c) ==
  [mark_transmitted(q, c.data, c.fin) EXCEPT
     !.swm = Max({q.swm} \cup {b + 1 : b \in c.data}),
     !.flags = @ \ ((IF c.fc THEN {"want_max_stream_data", "cwm_changed"} ELSE {})
                      \cup (IF c.stop THEN {"want_stop_sending"} ELSE {})
                      \cup (IF c.reset THEN {"want_reset_stream"} ELSE {}))]

LEMMA SentStreamIs ==
  ASSUME NEW q \in StreamType, NEW c \in FramesType
  PROVE  LET r == sent_stream(q, c)
         IN  /\ r \in StreamType
             /\ r.send_state = q.send_state /\ r.recv_state = q.recv_state
             /\ r.send_final_size = q.send_final_size /\ r.cwm = q.cwm
             /\ r.sstream.head = q.sstream.head /\ r.sstream.acked = q.sstream.acked
             /\ r.sstream.new = q.sstream.new \ c.data
             /\ "have" \in r.sstream.fin <=> "have" \in q.sstream.fin
             /\ r.swm = Max({q.swm} \cup {b + 1 : b \in c.data})
             /\ r.swm \in Nat /\ q.swm <= r.swm /\ \A b \in c.data : b < r.swm
             /\ r.swm = q.swm \/ \E b \in c.data : r.swm = b + 1
             /\ r.flags \subseteq q.flags
             /\ "deleted" \in r.flags <=> "deleted" \in q.flags
             /\ "shutdown_flush" \in r.flags <=> "shutdown_flush" \in q.flags
<1> DEFINE max == Max({q.swm} \cup {b + 1 : b \in c.data})
           done == (IF c.fc THEN {"want_max_stream_data", "cwm_changed"} ELSE {})
                     \cup (IF c.stop THEN {"want_stop_sending"} ELSE {})
                     \cup (IF c.reset THEN {"want_reset_stream"} ELSE {})
           k == mark_transmitted(q, c.data, c.fin)
           r == sent_stream(q, c)
<1>1. /\ max \in Nat /\ q.swm <= max /\ \A b \in c.data : b < max
      /\ max = q.swm \/ \E b \in c.data : max = b + 1
  <2>1. PICK h \in Nat : c.data \subseteq 0 .. h
    BY DEF FramesType
  <2>2. q.swm \in Nat
    BY DEF StreamType
  <2> QED BY <2>1, <2>2, SentIs
<1>2. "deleted" \notin done /\ "shutdown_flush" \notin done
  OBVIOUS
<1>3. r = [k EXCEPT !.swm = max, !.flags = @ \ done]
  BY DEF sent_stream
<1>4. /\ k \in StreamType /\ k.flags = q.flags
      /\ k.send_state = q.send_state /\ k.recv_state = q.recv_state
      /\ k.send_final_size = q.send_final_size /\ k.cwm = q.cwm
      /\ k.sstream.head = q.sstream.head /\ k.sstream.acked = q.sstream.acked
      /\ k.sstream.new = q.sstream.new \ c.data
      /\ "have" \in k.sstream.fin <=> "have" \in q.sstream.fin
  BY DEF mark_transmitted, StreamType, BufferType
<1> HIDE DEF k, max, done, r
<1>5. /\ r \in StreamType /\ r.flags = k.flags \ done /\ r.swm = max
      /\ r.send_state = k.send_state /\ r.recv_state = k.recv_state
      /\ r.send_final_size = k.send_final_size /\ r.cwm = k.cwm /\ r.sstream = k.sstream
  <2> HIDE DEF BufferType
  <2> QED BY <1>1, <1>3, <1>4 DEF StreamType
<1> QED BY <1>1, <1>2, <1>4, <1>5 DEF r, max

\* It remains well, with more bytes in flight.
LEMMA SentStreamOK ==
  ASSUME NEW q \in StreamType, NEW c, CanCarry(q, c), StreamOK(q)
  PROVE  StreamOK(sent_stream(q, c)) /\ Sends(sent_stream(q, c), q, c.data)
<1> DEFINE r == sent_stream(q, c)
<1>1. c \in FramesType
  BY DEF CanCarry
<1>2. /\ r \in StreamType
      /\ r.send_state = q.send_state /\ r.recv_state = q.recv_state
      /\ r.send_final_size = q.send_final_size /\ r.cwm = q.cwm
      /\ r.sstream.head = q.sstream.head /\ r.sstream.acked = q.sstream.acked
      /\ r.sstream.new = q.sstream.new \ c.data
      /\ "have" \in r.sstream.fin <=> "have" \in q.sstream.fin
      /\ r.swm \in Nat /\ q.swm <= r.swm /\ \A b \in c.data : b < r.swm
      /\ r.swm = q.swm \/ \E b \in c.data : r.swm = b + 1
      /\ "deleted" \in r.flags <=> "deleted" \in q.flags
      /\ "shutdown_flush" \in r.flags <=> "shutdown_flush" \in q.flags
  BY <1>1, SentStreamIs
<1> HIDE DEF r
<1>3. has_send_buffer(r) <=> has_send_buffer(q)
  BY <1>2 DEF has_send_buffer
<1>4. BytesOK(q) /\ StateOK(q) /\ q.sstream.head \in Nat /\ q.swm \in Nat /\ q.cwm \in Nat
  BY DEF StreamOK, StreamType, BufferType
<1>5. \A b \in c.data : b \in 0 .. q.sstream.head - 1 /\ b < q.cwm
  BY <1>4 DEF CanCarry, BytesOK
<1>6. BytesOK(r)
  <2>1. r.sstream.new \subseteq 0 .. r.sstream.head - 1 /\ r.sstream.acked \subseteq 0 .. r.sstream.head - 1
    BY <1>2, <1>4 DEF BytesOK
  <2>2. r.sstream.new \cap r.sstream.acked = {}
    BY <1>2, <1>4 DEF BytesOK
  <2>3. ASSUME has_send_buffer(q)
        PROVE  /\ r.swm <= r.cwm /\ r.swm <= r.sstream.head
               /\ \A b \in 0 .. r.sstream.head - 1 : b \in r.sstream.new \/ b < r.swm
    <3>1. /\ q.swm <= q.cwm /\ q.swm <= q.sstream.head
          /\ \A b \in 0 .. q.sstream.head - 1 : b \in q.sstream.new \/ b < q.swm
      BY <1>4, <2>3 DEF BytesOK
    <3> QED BY <1>2, <1>4, <1>5, <3>1
  <2> QED BY <1>3, <2>1, <2>2, <2>3 DEF BytesOK
<1>7. StateOK(r)
  <2>1. ASSUME q.send_state \in SizeFixed PROVE r.swm = q.swm
    <3>1. CASE c.data = {}
      BY <1>2, <3>1
    <3>2. CASE c.data # {}
      <4>1. q.send_state = "DATA_SENT" /\ q.sstream.head = q.swm
        BY <1>4, <2>1, <3>2 DEF CanCarry, has_send_buffer, SizeFixed, StateOK
      <4> QED BY <1>2, <1>4, <1>5, <4>1
    <3> QED BY <3>1, <3>2
  <2>2. q.send_state = "DATA_SENT" => q.send_state \in SizeFixed
    BY DEF SizeFixed
  <2> QED BY <1>2, <1>4, <2>1, <2>2 DEF StateOK, has_final_size
<1>8. Sends(r, q, c.data)
  <2>1. c.data \subseteq q.sstream.new /\ q.sstream.new \cap q.sstream.acked = {}
    BY <1>4 DEF CanCarry, BytesOK
  <2>2. InFlight(r) = InFlight(q) \cup c.data
    BY <1>2, <1>5, <2>1 DEF InFlight
  <2> QED BY <1>2, <1>3, <2>2 DEF Sends
<1> QED BY <1>6, <1>7, <1>8 DEF StreamOK, r

\* record_sent
LEMMA RecordSentIs ==
  ASSUME NEW m \in MapType, NEW s \in Streams, NEW c \in FramesType
  PROVE  LET n == record_sent(m, s, c)
         IN  /\ n \in MapType /\ \A t \in Streams \ {s} : n.map[t] = m.map[t]
             /\ MapOK(m) /\ CanCarry(m.map[s], c)
                  => MapOK(n) /\ Sends(n.map[s], m.map[s], c.data)
<1> DEFINE q == m.map[s]
           r == sent_stream(q, c)
           e == Set(m, s, r)
           k == [e EXCEPT !.conn_swm = m.conn_swm + r.swm - q.swm]
           n == record_sent(m, s, c)
<1>1. q \in StreamType
  BY DEF MapType
<1>2. /\ r \in StreamType /\ r.swm = Max({q.swm} \cup {b + 1 : b \in c.data})
      /\ r.swm \in Nat /\ q.swm <= r.swm /\ q.swm \in Nat
      /\ "shutdown_flush" \in r.flags <=> "shutdown_flush" \in q.flags
  BY <1>1, SentStreamIs DEF StreamType
<1>3. /\ Only(e, m, s) /\ e.map[s] = r /\ e \in MapType
      /\ MapButDue(m, s) /\ StreamOK(r) /\ SameFlush(r, q) => MapButDue(e, s)
  BY <1>2, SetStream
<1>4. n = update_state(k, s)
  <2>1. mark_transmitted(q, c.data, c.fin).swm = q.swm
    BY <1>1 DEF mark_transmitted, StreamType
  <2>2. n = update_state([e EXCEPT !.conn_swm = @ + r.swm - q.swm], s)
    BY <1>2, <2>1 DEF record_sent, sent_stream
  <2>3. e.conn_swm = m.conn_swm
    BY <1>3 DEF Only
  <2> HIDE DEF e, r, n
  <2> QED BY <1>3, <2>2, <2>3 DEF MapType
<1> HIDE DEF e, r, n
<1>5. /\ k \in MapType /\ k.map = e.map /\ k.active_list = e.active_list /\ k.rr_cur = e.rr_cur
      /\ k.num_shutdown_flush = e.num_shutdown_flush
      /\ Credit(k) <= Credit(e)
  <2>1. m.conn_swm \in Nat /\ e.conn_swm = m.conn_swm
    BY <1>3 DEF Only, MapType
  <2>2. m.conn_swm + r.swm - q.swm \in Nat /\ m.conn_swm + r.swm - q.swm >= e.conn_swm
    BY <1>2, <2>1
  <2> HIDE DEF q, StreamType
  <2>3. /\ k \in MapType /\ k.map = e.map /\ k.active_list = e.active_list /\ k.rr_cur = e.rr_cur
        /\ k.num_shutdown_flush = e.num_shutdown_flush /\ k.conn_cwm = e.conn_cwm
        /\ k.conn_swm = m.conn_swm + r.swm - q.swm
    BY <1>3, <2>2 DEF MapType
  <2>4. e.conn_cwm \in Nat /\ e.conn_swm \in Nat
    BY <1>3 DEF MapType
  <2> HIDE DEF k
  <2> QED BY <2>2, <2>3, <2>4 DEF Credit
<1> HIDE DEF k
<1>6. Only(n, k, s) /\ Evolves(n.map[s], r) /\ (MapButDue(k, s) => MapOK(n))
  BY <1>3, <1>4, <1>5, UpdateIs
<1>7. n \in MapType /\ \A t \in Streams \ {s} : n.map[t] = m.map[t]
  BY <1>3, <1>5, <1>6 DEF Only
<1>8. ASSUME MapOK(m), CanCarry(q, c) PROVE MapOK(n) /\ Sends(n.map[s], q, c.data)
  <2>1. StreamOK(q) /\ MapButDue(m, s)
    BY <1>8, MapOKIs DEF MapOK, MapBut
  <2>2. StreamOK(r) /\ Sends(r, q, c.data)
    BY <1>1, <1>8, <2>1, SentStreamOK DEF r
  <2>3. MapButDue(e, s)
    BY <1>2, <1>3, <2>1, <2>2 DEF SameFlush
  <2>4. ListOK(k) /\ FlushOK(k) /\ \A t \in Streams : StreamOK(k.map[t])
    BY <1>5, <2>3 DEF MapButDue, MapBut, ListOK, FlushOK, Flushing
  <2>5. ASSUME NEW t \in Streams \ {s} PROVE Due(k, t)
    <3>1. Due(e, t)
      BY <2>3 DEF MapButDue, MapBut
    <3> QED BY <1>3, <1>5, <3>1, DueKept
  <2>6. MapButDue(k, s)
    BY <1>5, <2>4, <2>5 DEF MapButDue, MapBut
  <2>7. Lives(n.map[s], r)
    BY <1>6, EvolvesLives
  <2> QED BY <1>6, <2>2, <2>6, <2>7 DEF Sends, Lives
<1> QED BY <1>7, <1>8 DEF n

\* notify_all_data_sent, when all data has been sent.
LEMMA AllDataSentIs ==
  ASSUME NEW m \in MapType, NEW s \in Streams
  PROVE  LET n == notify_all_data_sent(m, s)
         IN  /\ n \in MapType /\ \A t \in Streams \ {s} : n.map[t] = m.map[t]
             /\ /\ MapOK(m) /\ has_send_buffer(m.map[s]) /\ ~has_pending(m.map[s])
                /\ has_final_size(m.map[s])
                => MapOK(n) /\ Lives(n.map[s], m.map[s])
<1> DEFINE q == m.map[s]
           r == [q EXCEPT !.send_state = "DATA_SENT", !.send_final_size = q.sstream.head]
           n == notify_all_data_sent(m, s)
<1>1. CASE q.send_state # "SEND"
  <2>1. n = m
    BY <1>1 DEF notify_all_data_sent
  <2> QED BY <2>1, OnlySelf, EvolvesLives
<1>2. CASE q.send_state = "SEND"
  <2>1. n = Set(m, s, r)
    BY <1>2 DEF notify_all_data_sent, Set
  <2>2. q \in StreamType /\ q.sstream.head \in Nat /\ q.swm \in Nat
    BY DEF MapType, StreamType, BufferType
  <2>3. /\ r \in StreamType /\ r.send_state = "DATA_SENT" /\ r.send_final_size = q.sstream.head
        /\ r.recv_state = q.recv_state /\ r.sstream = q.sstream
        /\ r.swm = q.swm /\ r.cwm = q.cwm /\ r.flags = q.flags /\ r.missed = q.missed
    <3> HIDE DEF q
    <3> QED BY <2>2 DEF StreamType, SendStates
  <2> HIDE DEF r
  <2>4. Only(n, m, s) /\ n.map[s] = r /\ n \in MapType
    BY <2>1, <2>3, SetStream
  <2>5. ASSUME MapOK(m), has_send_buffer(q), ~has_pending(q), has_final_size(q)
        PROVE  MapOK(n) /\ Lives(n.map[s], q)
    <3>1. StreamOK(q)
      BY <2>5 DEF MapOK, MapBut
    <3> HIDE DEF q, n
    <3>2. q.sstream.new = {}
      BY <2>5 DEF has_pending
    <3>3. q.sstream.head = q.swm
      <4>1. /\ q.swm <= q.sstream.head
            /\ \A b \in 0 .. q.sstream.head - 1 : b < q.swm
        BY <2>5, <3>1, <3>2 DEF StreamOK, BytesOK
      <4>2. CASE q.sstream.head = 0
        BY <2>2, <4>1, <4>2
      <4>3. CASE q.sstream.head # 0
        <5>1. q.sstream.head - 1 < q.swm
          BY <2>2, <4>1, <4>3
        <5> QED BY <2>2, <4>1, <5>1
      <4> QED BY <4>2, <4>3
    <3>4. has_send_buffer(r)
      BY <2>3 DEF has_send_buffer
    <3>5. BytesOK(r)
      BY <2>3, <2>5, <3>1 DEF StreamOK, BytesOK
    <3>6. StateOK(r)
      BY <2>3, <2>5, <3>1, <3>3 DEF StreamOK, StateOK, has_final_size
    <3>7. SameFlush(r, q) /\ Quieter(r, q, Credit(m))
      BY <2>3, <2>5 DEF SameFlush, Quieter, Wants, FinAlone, wants_control_frame, has_pending
    <3>8. MapOK(n)
      BY <2>1, <2>3, <2>5, <3>5, <3>6, <3>7, SetQuiet DEF StreamOK, q
    <3> QED BY <2>3, <2>4, <2>5, <3>8 DEF Lives, InFlight
  <2> QED BY <2>4, <2>5 DEF Only
<1> QED BY <1>1, <1>2

\* The two together.
LEMMA CommitIs ==
  ASSUME NEW m \in MapType, NEW s \in Streams, NEW c \in FramesType
  PROVE  LET n == commit_stream(m, s, c)
         IN  /\ n \in MapType /\ \A t \in Streams \ {s} : n.map[t] = m.map[t]
             /\ MapOK(m) /\ CanCarry(m.map[s], c)
                  => MapOK(n) /\ Sends(n.map[s], m.map[s], c.data)
<1> DEFINE k == record_sent(m, s, c)
           n == commit_stream(m, s, c)
<1>1. /\ k \in MapType /\ \A t \in Streams \ {s} : k.map[t] = m.map[t]
      /\ MapOK(m) /\ CanCarry(m.map[s], c)
           => MapOK(k) /\ Sends(k.map[s], m.map[s], c.data)
  BY RecordSentIs
<1>2. n = IF has_send_buffer(k.map[s]) /\ ~has_pending(k.map[s]) /\ has_final_size(k.map[s])
          THEN notify_all_data_sent(k, s) ELSE k
  BY DEF commit_stream
<1> HIDE DEF k, n
<1>3. /\ n \in MapType /\ \A t \in Streams \ {s} : n.map[t] = m.map[t]
      /\ MapOK(k) => MapOK(n) /\ Lives(n.map[s], k.map[s])
  <2>1. CASE n = k
    BY <1>1, <2>1, OnlySelf, EvolvesLives
  <2>2. CASE n # k
    BY <1>1, <1>2, <2>2, AllDataSentIs
  <2> QED BY <2>1, <2>2
<1> QED BY <1>1, <1>3 DEF Sends, Lives, n

-----------------------------------------------------------------------------
(* What a packet carries.                                                  *)

\* The credit bounds the frames of a stream.
LEMMA WholeIs ==
  ASSUME NEW m, MapOK(m), NEW s \in Streams, NEW consumed \in Int
  PROVE  CanCarry(m.map[s], whole(m, s, consumed))
<1> DEFINE q == m.map[s]
           c == whole(m, s, consumed)
           limit == fc_limit(m, s, consumed)
<1>1. /\ q \in StreamType /\ StreamOK(q)
      /\ m.conn_cwm \in Int /\ m.conn_swm \in Int
  BY DEF MapOK, MapBut, MapType
<1>2. q.swm \in Nat /\ q.cwm \in Nat /\ q.sstream.head \in Nat /\ q.sstream.new \subseteq Nat
  BY <1>1 DEF StreamType, BufferType
<1>3. limit \in Int /\ limit <= q.cwm
  <2> DEFINE x == m.conn_cwm - m.conn_swm - consumed
  <2>1. limit = q.swm + Min({q.cwm - q.swm, x})
    BY DEF fc_limit
  <2>2. q.cwm - q.swm \in Int /\ x \in Int
    BY <1>1, <1>2
  <2> HIDE DEF x, q, limit
  <2>3. /\ Min({q.cwm - q.swm, x}) \in {q.cwm - q.swm, x}
        /\ Min({q.cwm - q.swm, x}) <= q.cwm - q.swm
    BY <2>2, TwoMin
  <2>4. Min({q.cwm - q.swm, x}) \in Int
    BY <2>2, <2>3
  <2> QED BY <1>2, <2>1, <2>3, <2>4
<1>4. c.data = IF has_send_buffer(q) THEN {b \in q.sstream.new : b < limit} ELSE {}
  BY DEF whole
<1>5. c \in [data : SUBSET Nat, fin : BOOLEAN, stop : BOOLEAN, reset : BOOLEAN, fc : BOOLEAN]
  <2> DEFINE data == IF has_send_buffer(q) THEN {b \in q.sstream.new : b < limit} ELSE {}
             fin == has_send_buffer(q) /\ takes_fin(q, data)
             stop == "want_stop_sending" \in q.flags
             reset == "want_reset_stream" \in q.flags
             fc == /\ q.recv_state = "RECV"
                   /\ {"want_max_stream_data", "cwm_changed"} \cap q.flags # {}
  <2>1. c = [data |-> data, fin |-> fin, stop |-> stop, reset |-> reset, fc |-> fc]
    BY DEF whole
  <2>2. data \in SUBSET Nat
    BY <1>2
  <2>3. fin \in BOOLEAN
    <3> HIDE DEF q, data
    <3> QED BY Zenon
  <2>4. stop \in BOOLEAN /\ reset \in BOOLEAN /\ fc \in BOOLEAN
    <3> HIDE DEF q
    <3> QED OBVIOUS
  <2> HIDE DEF data, fin, stop, reset, fc, c
  <2> QED BY <2>1, <2>2, <2>3, <2>4
<1> HIDE DEF c, limit, q
<1>6. c.data \subseteq q.sstream.new /\ (c.data # {} => has_send_buffer(q))
  BY <1>4
<1>7. \A b \in c.data : b < q.cwm
  BY <1>2, <1>3, <1>4
<1>8. c.data \subseteq 0 .. q.sstream.head
  BY <1>1, <1>2, <1>6 DEF StreamOK, BytesOK
<1>9. c \in FramesType
  BY <1>2, <1>5, <1>8 DEF FramesType
<1> QED BY <1>6, <1>7, <1>9 DEF CanCarry, c, q

LEMMA CutsAre ==
  ASSUME NEW m, NEW s, NEW w, CanCarry(m.map[s], w), NEW v \in cuts(m, s, w)
  PROVE  CanCarry(m.map[s], v)
<1> DEFINE q == m.map[s]
<1>1. w \in [data : SUBSET Nat, fin : BOOLEAN, stop : BOOLEAN, reset : BOOLEAN, fc : BOOLEAN]
  BY DEF CanCarry, FramesType
<1>2. /\ v \in [data : SUBSET Nat, fin : BOOLEAN, stop : BOOLEAN, reset : BOOLEAN, fc : BOOLEAN]
      /\ v.data \subseteq w.data
  <2> DEFINE first(n) == {b \in w.data : Cardinality({d \in w.data : d < b}) < n}
             cut(n) == [w EXCEPT !.data = first(n),
                                 !.fin = w.fin /\ q.sstream.head - 1 \in first(n)]
             bare == cut(0)
  <2>1. ASSUME NEW n
        PROVE  /\ cut(n) \in [data : SUBSET Nat, fin : BOOLEAN, stop : BOOLEAN, reset : BOOLEAN,
                              fc : BOOLEAN]
               /\ cut(n).data \subseteq w.data
    <3>1. first(n) \subseteq w.data /\ first(n) \in SUBSET Nat
      BY <1>1
    <3> HIDE DEF first, q
    <3> QED BY <1>1, <3>1
  <2>2. \/ \E n : v = cut(n)
        \/ v = [bare EXCEPT !.fc = FALSE] \/ v = [bare EXCEPT !.fc = FALSE, !.reset = FALSE]
    BY DEF cuts
  <2>3. bare = cut(0)
    OBVIOUS
  <2> HIDE DEF cut, bare
  <2> QED BY <2>1, <2>2, <2>3
<1>3. v \in FramesType
  BY <1>2 DEF CanCarry, FramesType
<1> QED BY <1>2, <1>3 DEF CanCarry

\* conn_consumed
LEMMA ConsumedIs ==
  ASSUME NEW m, MapOK(m), NEW order \in Seq(Streams)
  PROVE  \A i \in 0 .. Len(order) : conn_consumed(m, order)[i] \in Nat
<1> DEFINE Do(v, s) == v + new_credit(m, s, whole(m, s, v))
<1>1. PICK n \in Nat : n = Len(order)
  OBVIOUS
<1>2. ASSUME NEW i \in 1 .. n, NEW v \in Nat PROVE Do(v, order[i]) \in Nat
  <2> DEFINE s == order[i]
             c == whole(m, s, v)
             w == m.map[s].swm
             S == {0} \cup {b + 1 - w : b \in c.data}
  <2>1. s \in Streams /\ v \in Int
    BY <1>1
  <2>2. CanCarry(m.map[s], c)
    BY <2>1, WholeIs
  <2> HIDE DEF s, c
  <2>3. PICK h \in Nat : c.data \subseteq 0 .. h
    BY <2>2 DEF CanCarry, FramesType
  <2>4. w \in Nat
    BY <2>1 DEF MapOK, MapBut, MapType, StreamType
  <2> HIDE DEF w
  <2>5. S \in SUBSET ((0 - w) .. (h + 1)) /\ S # {} /\ 0 - w \in Int /\ h + 1 \in Int
        /\ 0 \in S /\ S \subseteq Int
    BY <2>3, <2>4
  <2> HIDE DEF S
  <2>6. Max(S) \in S /\ \A y \in S : y <= Max(S)
    BY <2>5, MaxWithin
  <2>7. Max(S) \in Int
    BY <2>5, <2>6
  <2>8. Max(S) \in Nat
    BY <2>5, <2>6, <2>7
  <2> QED BY <2>8 DEF new_credit, S, w, c, s
<1> DEFINE F == [i \in 1 .. n |-> [v \in Nat |-> Do(v, order[i])]]
           pick == [s \in SUBSET (1 .. n) |-> Max(s)]
           Step(f, i) == IF i = 0 THEN 0 ELSE Do(f[i - 1], order[i])
<1>3. \A s \in SUBSET (1 .. n) : s # {} => pick[s] \in s /\ pick[s] = Max(s)
  BY UptoIs
<1>4. ASSUME NEW i \in 1 .. n, NEW v \in Nat PROVE F[i][v] = Do(v, order[i]) /\ F[i][v] \in Nat
  <2>1. F[i][v] = Do(v, order[i])
    <3> HIDE DEF Do
    <3> QED OBVIOUS
  <2> HIDE DEF Do, F
  <2> QED BY <1>2, <2>1
<1> HIDE DEF Do, F, pick
<1>5. PICK g : FoldsOver(F, 0, pick, 1 .. n, g)
  BY <1>3, FoldsExist, UptoIs
<1>6. \A s \in SUBSET (1 .. n) : g[s] \in Nat
  BY <1>3, <1>4, <1>5, FoldsStay, UptoIs
<1> DEFINE f == [i \in 0 .. n |-> g[1 .. i]]
<1>7. f = [i \in 0 .. n |-> Step(f, i)]
  <2>1. g[{}] = 0 /\ 1 .. 0 = {}
    BY <1>5 DEF FoldsOver, FoldStep
  <2>2. ASSUME NEW i \in 1 .. n PROVE g[1 .. i] = Do(g[1 .. i - 1], order[i])
    <3>1. /\ 1 .. i \in SUBSET (1 .. n) /\ 1 .. i # {} /\ Max(1 .. i) = i
          /\ (1 .. i) \ {i} = 1 .. i - 1 /\ 1 .. i - 1 \in SUBSET (1 .. n)
      BY UptoIs
    <3>2. g[1 .. i] = FoldStep(F, 0, pick, g, 1 .. i)
      BY <1>5, <3>1 DEF FoldsOver
    <3>3. g[1 .. i] = F[i][g[1 .. i - 1]] /\ g[1 .. i - 1] \in Nat
      BY <1>3, <1>6, <3>1, <3>2 DEF FoldStep
    <3> QED BY <1>4, <3>3
  <2>3. ASSUME NEW i \in 0 .. n PROVE f[i] = Step(f, i)
    <3>1. CASE i = 0
      BY <2>1, <3>1
    <3>2. CASE i # 0
      BY <2>2, <3>2
    <3> QED BY <3>1, <3>2
  <2> HIDE DEF Step
  <2> QED BY <2>3
<1>8. conn_consumed(m, order) = CHOOSE h : h = [i \in 0 .. Len(order) |-> Step(h, i)]
  BY Zenon DEF conn_consumed, Do
<1> DEFINE e == conn_consumed(m, order)
<1>9. e = [i \in 0 .. n |-> Step(e, i)]
  <2> HIDE DEF Step, f
  <2> QED BY <1>1, <1>7, <1>8
<1> HIDE DEF e
<1>10. e[0] = 0 /\ \A i \in 1 .. n : e[i] = Do(e[i - 1], order[i])
  BY <1>9
<1> DEFINE G == {i \in 0 .. n : e[i] \in Nat}
<1>11. 0 .. n \subseteq G
  <2>1. 0 \in G /\ \A i \in 1 .. n : i - 1 \in G => i \in G
    <3>1. ASSUME NEW i \in 1 .. n, e[i - 1] \in Nat PROVE e[i] \in Nat
      BY <1>2, <1>10, <3>1 DEF Do
    <3> QED BY <1>10, <3>1
  <2> HIDE DEF G
  <2> QED BY <2>1, CountUp
<1> QED BY <1>1, <1>11 DEF e

\* What the TXPIM records carries the bytes of the frames.
LEMMA ChunksAre ==
  ASSUME NEW k \in Nat, NEW c, DOMAIN c = 1 .. k, NEW order,
         \A i \in 1 .. k : c[i] \in FramesType /\ order[i] \in Streams,
         \A i, j \in 1 .. k : order[i] = order[j] => i = j
  PROVE  LET p == chunks_of(order, c)
         IN  /\ PacketOK(p)
             /\ \A i \in 1 .. k : \A b : Carries(p, order[i], b) <=> b \in c[i].data
             /\ \A s, b : Carries(p, s, b) => \E i \in 1 .. k : order[i] = s
<1> DEFINE at(s) == CHOOSE i \in DOMAIN c : order[i] = s
           S == {order[i] : i \in {j \in DOMAIN c : HasChunk(c[j])}}
           p == chunks_of(order, c)
<1>1. p = [s \in S |-> chunk(c[at(s)])]
  BY DEF chunks_of
<1>2. \A i \in 1 .. k : at(order[i]) = i
  OBVIOUS
<1> HIDE DEF at
<1>3. \A s \in S : \E i \in 1 .. k : s = order[i] /\ at(s) = i
  BY <1>2
<1>4. \A i \in 1 .. k : chunk(c[i]) \in ChunkType /\ chunk(c[i]).data = c[i].data
  <2> SUFFICES ASSUME NEW i \in 1 .. k
               PROVE  chunk(c[i]) \in ChunkType /\ chunk(c[i]).data = c[i].data
    OBVIOUS
  <2>1. c[i] \in [data : SUBSET Nat, fin : BOOLEAN, stop : BOOLEAN, reset : BOOLEAN, fc : BOOLEAN]
    BY DEF FramesType
  <2> QED BY <2>1 DEF chunk, ChunkType
<1>5. \A i \in 1 .. k : order[i] \notin S => c[i].data = {}
  BY DEF HasChunk
<1> HIDE DEF S, p
<1>6. DOMAIN p = S /\ \A s \in S : p[s] = chunk(c[at(s)])
  BY <1>1
<1>7. PacketOK(p)
  <2>1. S \subseteq Streams
    BY <1>3
  <2>2. \A s \in S : p[s] \in ChunkType
    BY <1>3, <1>4, <1>6
  <2>3. p \in [S -> ChunkType]
    BY <1>1, <1>6, <2>2
  <2> QED BY <1>6, <2>1, <2>3 DEF PacketOK
<1>8. ASSUME NEW i \in 1 .. k, NEW b PROVE Carries(p, order[i], b) <=> b \in c[i].data
  <2>1. CASE order[i] \in S
    BY <1>2, <1>4, <1>6, <2>1 DEF Carries
  <2>2. CASE order[i] \notin S
    BY <1>5, <1>6, <2>2 DEF Carries
  <2> QED BY <2>1, <2>2
<1>9. \A s, b : Carries(p, s, b) => \E i \in 1 .. k : order[i] = s
  BY <1>3, <1>6 DEF Carries
<1> QED BY <1>7, <1>8, <1>9 DEF p

\* The packet joins those in flight.
LEMMA FlightSends ==
  ASSUME NEW q, NEW r, NEW s, NEW P, NEW p, NEW D, Flight(q, s, P), Sends(r, q, D),
         D \subseteq q.sstream.new, \A b : Carries(p, s, b) <=> b \in D
  PROVE  Flight(r, s, P \cup {p}) /\ (D = {} => Flight(r, s, P))
<1> SUFFICES ASSUME has_send_buffer(r)
             PROVE  Flight(r, s, P \cup {p}) /\ (D = {} => Flight(r, s, P))
  BY DEF Flight
<1>1. InFlight(r) = InFlight(q) \cup D /\ InFlight(q) \cap D = {}
  BY DEF Sends, InFlight
<1>2. /\ \A x \in P : \A b \in Nat : Carries(x, s, b) => b \in InFlight(q)
      /\ \A b \in InFlight(q) : \E x \in P : Carries(x, s, b)
      /\ \A p1, p2 \in P : \A b \in Nat : Carries(p1, s, b) /\ Carries(p2, s, b) => p1 = p2
  BY DEF Flight, Sends
<1>3. \A x \in P \cup {p} : \A b \in Nat : Carries(x, s, b) => b \in InFlight(r)
  BY <1>1, <1>2
<1>4. \A b \in InFlight(r) : \E x \in P \cup {p} : Carries(x, s, b)
  BY <1>1, <1>2
<1>5. \A p1, p2 \in P \cup {p} : \A b \in Nat : Carries(p1, s, b) /\ Carries(p2, s, b) => p1 = p2
  BY <1>1, <1>2
<1>6. D = {} => Flight(r, s, P)
  BY <1>1, <1>2 DEF Flight
<1> QED BY <1>3, <1>4, <1>5, <1>6 DEF Flight

\* advance_rr
LEMMA AdvanceIs ==
  ASSUME NEW m, MapOK(m), m.active_list # <<>>
  PROVE  MapOK(advance_rr(m)) /\ advance_rr(m).map = m.map
<1> DEFINE n == advance_rr(m)
           next == active_next(m, m.rr_cur)
<1>1. m \in MapType /\ ListOK(m)
  BY DEF MapOK, MapBut
<1>2. Contains(m.active_list, m.rr_cur)
  BY <1>1 DEF ListOK
<1>3. next \in Streams /\ Contains(m.active_list, next)
  BY <1>1, <1>2, ActiveNextIs
<1> HIDE DEF next
<1>4. n = [m EXCEPT !.rr_cur = next]
  BY DEF advance_rr, next
<1>5. /\ n \in MapType /\ n.map = m.map /\ n.active_list = m.active_list /\ n.rr_cur = next
      /\ n.conn_swm = m.conn_swm /\ n.conn_cwm = m.conn_cwm
      /\ n.num_shutdown_flush = m.num_shutdown_flush
  <2> HIDE DEF StreamType
  <2> QED BY <1>1, <1>3, <1>4 DEF MapType
<1> HIDE DEF n
<1>6. ListOK(n)
  BY <1>1, <1>3, <1>5 DEF ListOK
<1>7. ASSUME NEW t \in Streams PROVE Due(n, t)
  <2>1. Credit(n) = Credit(m) /\ Credit(m) \in Int
    BY <1>1, <1>5 DEF Credit, MapType
  <2>2. Credit(n) <= Credit(m)
    BY <2>1
  <2>3. Due(m, t)
    BY DEF MapOK, MapBut
  <2> QED BY <1>1, <1>5, <2>2, <2>3, DueKept
<1> QED BY <1>5, <1>6, <1>7 DEF MapOK, MapBut, FlushOK, Flushing, n

\* commit_all: the states t[i] from the last stream down.
CommitsOver(t, m, k, order, c) ==
  /\ t[0] = m
  /\ \A i \in 1 .. k : t[i] = commit_stream(t[i - 1], order[k - i + 1], c[k - i + 1])

LEMMA CommitAllIs ==
  ASSUME NEW m \in MapType, NEW k \in Nat, NEW c, NEW order, DOMAIN c = 1 .. k,
         \A i \in 1 .. k : c[i] \in FramesType /\ order[i] \in Streams
  PROVE  \E t : CommitsOver(t, m, k, order, c) /\ commit_all(m, order, c) = t[k]
<1> DEFINE Do(v, i) == commit_stream(v, order[i], c[i])
           F == [i \in 1 .. k |-> [v \in MapType |-> Do(v, i)]]
           pick == [s \in SUBSET (1 .. k) |-> Min(s)]
           id == [i \in DOMAIN c |-> i]
           Fold(g, s) == IF s = {} THEN m ELSE Do(g[s \ {Min(s)}], id[Min(s)])
           Step(g, s) == IF s = {} THEN m ELSE Do(g[s \ {Min(s)}], Min(s))
           iter == CHOOSE g : g = [s \in SUBSET (DOMAIN id) |-> Fold(g, s)]
           t == [i \in 0 .. k |-> iter[k - i + 1 .. k]]
<1>1. DOMAIN id = 1 .. k
  OBVIOUS
<1>2. commit_all(m, order, c) = iter[1 .. k]
  <2>1. commit_all(m, order, c) = iter[DOMAIN id]
    BY Zenon DEF commit_all, FoldRightDomain, FoldRight, MapThenFoldSet
  <2> QED BY <1>1, <2>1
<1>3. ASSUME NEW s \in SUBSET (1 .. k), s # {}
      PROVE  pick[s] \in s /\ pick[s] = Min(s) /\ Min(s) \in 1 .. k /\ id[Min(s)] = Min(s)
  <2>1. s \subseteq Nat
    OBVIOUS
  <2>2. Min(s) \in s
    BY <1>3, <2>1, MinIn
  <2> QED BY <2>2
<1>4. ASSUME NEW i \in 1 .. k, NEW v \in MapType
      PROVE  F[i][v] = Do(v, i) /\ F[i][v] \in MapType
  <2>1. Do(v, i) \in MapType
    BY CommitIs
  <2>2. F[i][v] = Do(v, i)
    <3> HIDE DEF Do
    <3> QED OBVIOUS
  <2> HIDE DEF Do, F
  <2> QED BY <2>1, <2>2
<1> HIDE DEF F, pick, Do, id
<1>5. PICK g : FoldsOver(F, m, pick, 1 .. k, g)
  BY <1>3, FoldsExist, UptoIs
<1>6. \A s \in SUBSET (1 .. k) : g[s] \in MapType
  BY <1>3, <1>4, <1>5, FoldsStay, UptoIs
<1>7. g = [s \in SUBSET (DOMAIN id) |-> Fold(g, s)]
  <2>1. ASSUME NEW s \in SUBSET (1 .. k) PROVE FoldStep(F, m, pick, g, s) = Fold(g, s)
    <3>1. CASE s = {}
      BY <3>1 DEF FoldStep
    <3>2. CASE s # {}
      <4>1. /\ pick[s] = Min(s) /\ Min(s) \in 1 .. k /\ id[Min(s)] = Min(s)
            /\ g[s \ {Min(s)}] \in MapType
        BY <1>3, <1>6, <3>2
      <4> QED BY <1>4, <3>2, <4>1 DEF FoldStep
    <3> QED BY <3>1, <3>2
  <2>2. g = [s \in SUBSET (1 .. k) |-> FoldStep(F, m, pick, g, s)]
    BY <1>5 DEF FoldsOver
  <2> HIDE DEF Fold
  <2> QED BY <1>1, <2>1, <2>2
<1>8. iter = [s \in SUBSET (1 .. k) |-> Fold(iter, s)]
  <2> HIDE DEF Fold
  <2> QED BY <1>1, <1>7
<1> HIDE DEF iter
<1>9. t[0] = m
  <2>1. k - 0 + 1 .. k = {} /\ iter[{}] = Fold(iter, {}) /\ 0 \in 0 .. k
    BY <1>8
  <2> QED BY <2>1
<1>10. ASSUME NEW i \in 1 .. k PROVE t[i] = Do(t[i - 1], k - i + 1)
  <2> DEFINE j == k - i + 1
             s == j .. k
  <2>1. j \in 1 .. k /\ j \in s /\ s \in SUBSET (1 .. k) /\ \A x \in s : x \in Nat /\ j <= x
    OBVIOUS
  <2>2. Min(s) = j
    <3>1. s # {} /\ s \subseteq Nat
      BY <2>1
    <3>2. Min(s) \in s /\ \A x \in s : Min(s) <= x
      BY <3>1, MinIn
    <3>3. Min(s) <= j /\ j <= Min(s) /\ Min(s) \in Nat /\ j \in Nat
      BY <2>1, <3>2
    <3> HIDE DEF s, j
    <3> QED BY <3>3
  <2>3. id[j] = j
    BY <2>1 DEF id
  <2>4. s \ {j} = k - (i - 1) + 1 .. k
    OBVIOUS
  <2>5. iter[s] = Fold(iter, s)
    BY <1>8, <2>1
  <2>6. iter[s] = Do(iter[k - (i - 1) + 1 .. k], j)
    <3> HIDE DEF j, s
    <3> QED BY <2>1, <2>2, <2>3, <2>4, <2>5
  <2>7. t[i] = iter[s] /\ t[i - 1] = iter[k - (i - 1) + 1 .. k]
    OBVIOUS
  <2> QED BY <2>6, <2>7
<1>11. t[k] = iter[1 .. k]
  <2>1. k - k + 1 = 1 /\ k \in 0 .. k
    OBVIOUS
  <2> QED BY <2>1
<1> HIDE DEF t
<1> QED BY <1>2, <1>9, <1>10, <1>11 DEF Do, CommitsOver

LEMMA CommitsAre ==
  ASSUME NEW m, MapOK(m), NEW k \in Nat, NEW c, DOMAIN c = 1 .. k, NEW order,
         \A i \in 1 .. k : order[i] \in Streams /\ CanCarry(m.map[order[i]], c[i]),
         \A i, j \in 1 .. k : order[i] = order[j] => i = j
  PROVE  LET n == commit_all(m, order, c)
         IN  /\ MapOK(n)
             /\ \A i \in 1 .. k : Sends(n.map[order[i]], m.map[order[i]], c[i].data)
             /\ \A s \in Streams : (\A i \in 1 .. k : order[i] # s) => n.map[s] = m.map[s]
<1>1. m \in MapType /\ \A i \in 1 .. k : c[i] \in FramesType /\ order[i] \in Streams
  BY DEF MapOK, MapBut, CanCarry
<1>2. PICK t : /\ t[0] = m /\ commit_all(m, order, c) = t[k]
               /\ \A i \in 1 .. k : t[i] = commit_stream(t[i - 1], order[k - i + 1], c[k - i + 1])
  <2>1. \E t : CommitsOver(t, m, k, order, c) /\ commit_all(m, order, c) = t[k]
    BY <1>1, CommitAllIs
  <2> QED BY <2>1 DEF CommitsOver
<1> DEFINE Sent(n, j) == Sends(n.map[order[j]], m.map[order[j]], c[j].data)
           Done(n, i) ==
             /\ MapOK(n)
             /\ \A j \in 1 .. k : IF j > k - i THEN Sent(n, j)
                                  ELSE n.map[order[j]] = m.map[order[j]]
             /\ \A s \in Streams : (\A j \in 1 .. k : order[j] # s) => n.map[s] = m.map[s]
           G == {i \in 0 .. k : Done(t[i], i)}
<1>3. Done(t[0], 0)
  BY <1>2
<1>4. ASSUME NEW i \in 1 .. k, Done(t[i - 1], i - 1) PROVE Done(t[i], i)
  <2> DEFINE j == k - i + 1
             v == t[i - 1]
             n == t[i]
             s == order[j]
  <2>1. j \in 1 .. k /\ ~(j > k - (i - 1)) /\ j > k - i
    OBVIOUS
  <2>2. MapOK(v) /\ v.map[s] = m.map[s]
    BY <1>4, <2>1
  <2>3. v \in MapType /\ s \in Streams /\ c[j] \in FramesType /\ CanCarry(v.map[s], c[j])
    BY <1>1, <2>1, <2>2 DEF MapOK, MapBut
  <2>4. n = commit_stream(v, s, c[j])
    BY <1>2
  <2> HIDE DEF v, n
  <2>5. /\ \A x \in Streams \ {s} : n.map[x] = v.map[x]
        /\ MapOK(n) /\ Sends(n.map[s], v.map[s], c[j].data)
    <3> HIDE DEF s, j
    <3> QED BY <2>2, <2>3, <2>4, CommitIs
  <2>6. Sent(n, j)
    BY <2>2, <2>5
  <2>7. ASSUME NEW h \in 1 .. k, h # j
        PROVE  IF h > k - i THEN Sent(n, h) ELSE n.map[order[h]] = m.map[order[h]]
    <3>1. order[h] \in Streams \ {s}
      BY <2>1, <2>7
    <3>2. n.map[order[h]] = v.map[order[h]]
      BY <2>5, <3>1
    <3>3. h > k - i <=> h > k - (i - 1)
      BY <2>1, <2>7
    <3>4. IF h > k - (i - 1) THEN Sent(v, h) ELSE v.map[order[h]] = m.map[order[h]]
      BY <1>4 DEF v
    <3> HIDE DEF s, j
    <3> QED BY <3>2, <3>3, <3>4
  <2>8. ASSUME NEW x \in Streams, \A h \in 1 .. k : order[h] # x PROVE n.map[x] = m.map[x]
    <3>1. x # s
      BY <2>1, <2>8
    <3>2. v.map[x] = m.map[x]
      BY <1>4, <2>8 DEF v
    <3> QED BY <2>5, <2>8, <3>1, <3>2
  <2>9. \A h \in 1 .. k : IF h > k - i THEN Sent(n, h) ELSE n.map[order[h]] = m.map[order[h]]
    <3> HIDE DEF s, Sent
    <3> QED BY <2>1, <2>6, <2>7
  <2> HIDE DEF s, j, Sent
  <2> QED BY <2>5, <2>8, <2>9 DEF n
<1>5. 0 .. k \subseteq G
  <2> HIDE DEF Done
  <2>1. 0 \in G /\ \A i \in 1 .. k : i - 1 \in G => i \in G
    BY <1>3, <1>4
  <2> HIDE DEF G
  <2> QED BY <2>1, CountUp
<1>6. Done(t[k], k)
  <2> HIDE DEF Done
  <2> QED BY <1>5
<1>7. \A j \in 1 .. k : j > k - k
  OBVIOUS
<1> QED BY <1>2, <1>6, <1>7

-----------------------------------------------------------------------------
(* The steps.                                                              *)

\* A packet: its streams are committed, its chunks are in flight.
LEMMA SendStep ==
  ASSUME IInv, SendPacket
  PROVE  IInv'
<1> DEFINE list == qsm.active_list
           order == from(list, qsm.rr_cur)
           all(i) == whole(qsm, order[i], conn_consumed(qsm, order)[i - 1])
           m == advance_rr(qsm)
<1>1. MapOK(qsm) /\ list # <<>> /\ UNCHANGED shutting_down
  BY DEF IInv, SendPacket
<1>2. PICK k \in 1 .. Len(order) : \E last \in {all(k)} \cup cuts(qsm, order[k], all(k)) :
        LET c == [i \in 1 .. k |-> IF i = k THEN last ELSE all(i)]
            chunks == chunks_of(order, c)
        IN  /\ \/ qsm' = commit_all(advance_rr(qsm), order, c)
               \/ (\A i \in 1 .. k : c[i] = NoFrames) /\ qsm' = advance_rr(qsm)
            /\ pkts' = IF DOMAIN chunks = {} THEN pkts ELSE pkts \cup {chunks}
  BY DEF SendPacket
<1>3. PICK last \in {all(k)} \cup cuts(qsm, order[k], all(k)) :
        LET c == [i \in 1 .. k |-> IF i = k THEN last ELSE all(i)]
            chunks == chunks_of(order, c)
        IN  /\ \/ qsm' = commit_all(advance_rr(qsm), order, c)
               \/ (\A i \in 1 .. k : c[i] = NoFrames) /\ qsm' = advance_rr(qsm)
            /\ pkts' = IF DOMAIN chunks = {} THEN pkts ELSE pkts \cup {chunks}
  BY <1>2
<1> DEFINE c == [i \in 1 .. k |-> IF i = k THEN last ELSE all(i)]
           p == chunks_of(order, c)
<1>4. /\ qsm' = commit_all(m, order, c) \/ ((\A i \in 1 .. k : c[i] = NoFrames) /\ qsm' = m)
      /\ pkts' = IF DOMAIN p = {} THEN pkts ELSE pkts \cup {p}
  BY <1>3
<1>5. /\ order \in Seq(Streams) /\ NoRepeat(order)
  <2>1. list \in Seq(Streams) /\ Contains(list, qsm.rr_cur) /\ NoRepeat(list)
    BY <1>1 DEF MapOK, MapBut, MapType, ListOK, NoRepeat
  <2> HIDE DEF list
  <2> QED BY <2>1, FromKeeps
<1>6. MapOK(m) /\ m.map = qsm.map
  BY <1>1, AdvanceIs
<1>7. \A i \in 1 .. k : order[i] \in Streams
  <2> HIDE DEF order
  <2> QED BY <1>2, <1>5
<1>8. \A i, j \in 1 .. k : order[i] = order[j] => i = j
  <2>1. k \in 1 .. Len(order) /\ Len(order) \in Nat
    BY <1>5
  <2> HIDE DEF order
  <2> QED BY <1>5, <2>1 DEF NoRepeat
<1>9. ASSUME NEW i \in 1 .. k PROVE CanCarry(qsm.map[order[i]], all(i))
  <2>1. i - 1 \in 0 .. Len(order)
    BY <1>5
  <2>2. conn_consumed(qsm, order)[i - 1] \in Nat
    <3> HIDE DEF order
    <3> QED BY <1>1, <1>5, <2>1, ConsumedIs
  <2> HIDE DEF order
  <2> QED BY <1>1, <1>7, <2>2, WholeIs
<1> HIDE DEF order, all, m
<1>10. \A i \in 1 .. k : CanCarry(m.map[order[i]], c[i])
  <2>1. CanCarry(qsm.map[order[k]], last)
    BY <1>9, CutsAre
  <2> QED BY <1>6, <1>9, <2>1
<1>11. k \in Nat /\ DOMAIN c = 1 .. k
  BY <1>2
<1> HIDE DEF c, p
<1>12. /\ PacketOK(p)
       /\ \A i \in 1 .. k : \A b : Carries(p, order[i], b) <=> b \in c[i].data
       /\ \A s, b : Carries(p, s, b) => \E i \in 1 .. k : order[i] = s
  BY <1>7, <1>8, <1>10, <1>11, ChunksAre DEF CanCarry, p
<1>13. /\ MapOK(qsm')
       /\ \A i \in 1 .. k : Sends(qsm'.map[order[i]], qsm.map[order[i]], c[i].data)
       /\ \A s \in Streams : (\A i \in 1 .. k : order[i] # s) => qsm'.map[s] = qsm.map[s]
  <2>1. CASE qsm' = commit_all(m, order, c)
    BY <1>6, <1>7, <1>8, <1>10, <1>11, <2>1, CommitsAre, SMTT(30)
  <2>2. CASE (\A i \in 1 .. k : c[i] = NoFrames) /\ qsm' = m
    <3>1. \A i \in 1 .. k : c[i].data = {}
      BY <2>2 DEF NoFrames
    <3> QED BY <1>6, <2>2, <3>1 DEF Sends
  <2> QED BY <1>4, <2>1, <2>2
<1>14. ASSUME NEW s \in Streams
       PROVE  /\ Flight(qsm'.map[s], s, pkts')
              /\ "shutdown_flush" \in qsm'.map[s].flags => "shutdown_flush" \in qsm.map[s].flags
  <2>1. PICK D : /\ Sends(qsm'.map[s], qsm.map[s], D) /\ D \subseteq qsm.map[s].sstream.new
                 /\ \A b : Carries(p, s, b) <=> b \in D
    <3>1. CASE \E i \in 1 .. k : order[i] = s
      <4>1. PICK i \in 1 .. k : order[i] = s
        BY <3>1
      <4> QED BY <1>6, <1>10, <1>12, <1>13, <4>1 DEF CanCarry
    <3>2. CASE ~(\E i \in 1 .. k : order[i] = s)
      <4>1. qsm'.map[s] = qsm.map[s] /\ \A b : ~Carries(p, s, b)
        BY <1>12, <1>13, <3>2
      <4>2. Sends(qsm'.map[s], qsm.map[s], {})
        BY <4>1 DEF Sends
      <4> QED BY <4>1, <4>2
    <3> QED BY <3>1, <3>2
  <2>2. Flight(qsm.map[s], s, pkts)
    BY DEF IInv
  <2>3. Flight(qsm'.map[s], s, pkts \cup {p}) /\ (D = {} => Flight(qsm'.map[s], s, pkts))
    BY <2>1, <2>2, FlightSends
  <2>4. DOMAIN p = {} => D = {}
    BY <2>1 DEF Carries
  <2> QED BY <1>4, <2>1, <2>3, <2>4 DEF Sends
<1>15. \A x \in pkts' : PacketOK(x)
  BY <1>4, <1>12 DEF IInv
<1>16. ~shutting_down' => Flushing(qsm') = {}
  BY <1>1, <1>14 DEF IInv, Flushing
<1> QED BY <1>1, <1>13, <1>14, <1>15, <1>16 DEF IInv, MapOK, MapBut

\* A step of one stream that leaves its bytes in flight alone.
LEMMA StreamStep ==
  ASSUME IInv, NEW s \in Streams, MapOK(qsm'), Lives(qsm'.map[s], qsm.map[s]),
         \A t \in Streams \ {s} : qsm'.map[t] = qsm.map[t], UNCHANGED <<shutting_down, pkts>>
  PROVE  IInv'
<1>1. ASSUME NEW t \in Streams
      PROVE  /\ Flight(qsm'.map[t], t, pkts)
             /\ "shutdown_flush" \in qsm'.map[t].flags => "shutdown_flush" \in qsm.map[t].flags
  <2>1. Lives(qsm'.map[t], qsm.map[t])
    <3>1. CASE t = s
      BY <3>1
    <3>2. CASE t # s
      BY <3>2 DEF Lives
    <3> QED BY <3>1, <3>2
  <2>2. Flight(qsm.map[t], t, pkts)
    BY DEF IInv
  <2> QED BY <2>1, <2>2, FlightLives DEF Lives
<1>2. ~shutting_down' => Flushing(qsm') = {}
  BY <1>1 DEF IInv, Flushing
<1> QED BY <1>1, <1>2 DEF IInv, MapOK, MapBut

\* What IInv says of a stream.
LEMMA InvStream ==
  ASSUME IInv
  PROVE  /\ qsm \in MapType /\ MapOK(qsm) /\ Mapped = Streams
         /\ \A s \in Streams : qsm.map[s] \in StreamType /\ StreamOK(qsm.map[s]) /\ MapButDue(qsm, s)
<1>1. qsm \in MapType /\ MapOK(qsm) /\ \A s \in Streams : StreamOK(qsm.map[s])
  BY DEF IInv, MapOK, MapBut
<1>2. Mapped = Streams /\ \A s \in Streams : qsm.map[s] \in StreamType
  BY <1>1 DEF MapType, Mapped
<1> QED BY <1>1, <1>2, MapOKIs

\* validated
LEMMA ValidatedIs ==
  ASSUME IInv, NEW s \in Streams
  PROVE  LET n == validated(s)
             q == qsm.map[s]
             r == n.map[s]
         IN  /\ n \in MapType /\ MapOK(n) /\ Only(n, qsm, s) /\ Lives(r, q)
             /\ r \in StreamType /\ r = ensure_send_part_id(q) /\ r.sstream = q.sstream
             /\ has_send_buffer(r) <=> has_send_buffer(q)
             /\ r.send_state # "READY" /\ StreamOK(r) /\ SameFlush(r, q)
<1> DEFINE q == qsm.map[s]
           r == ensure_send_part_id(q)
           n == validated(s)
<1>1. qsm \in MapType /\ MapOK(qsm) /\ q \in StreamType /\ StreamOK(q)
  BY InvStream
<1> HIDE DEF q
<1>2. /\ r \in StreamType /\ r.sstream = q.sstream /\ r.send_state # "READY"
      /\ r.send_state = q.send_state \/ (q.send_state = "READY" /\ r.send_state = "SEND")
      /\ r.recv_state = q.recv_state /\ r.send_final_size = q.send_final_size
      /\ r.swm = q.swm /\ r.cwm = q.cwm /\ r.flags = q.flags /\ r.missed = q.missed
  <2>1. CASE q.send_state = "READY"
    BY <1>1, <2>1 DEF ensure_send_part_id, StreamType, SendStates
  <2>2. CASE q.send_state # "READY"
    BY <1>1, <2>2 DEF ensure_send_part_id
  <2> QED BY <2>1, <2>2
<1>3. n = Set(qsm, s, r)
  BY DEF validated, q
<1> HIDE DEF r, n
<1>4. has_send_buffer(r) <=> has_send_buffer(q)
  BY <1>2 DEF has_send_buffer
<1>5. StreamOK(r)
  <2>1. BytesOK(r)
    BY <1>1, <1>2, <1>4 DEF StreamOK, BytesOK
  <2>2. StateOK(r)
    BY <1>1, <1>2 DEF StreamOK, StateOK, has_final_size, SizeFixed
  <2> QED BY <2>1, <2>2 DEF StreamOK
<1>6. SameFlush(r, q) /\ Lives(r, q) /\ Quieter(r, q, Credit(qsm))
  BY <1>2, <1>4 DEF SameFlush, Lives, InFlight, Quieter, Wants, FinAlone, wants_control_frame, has_pending
<1>7. MapOK(n)
  BY <1>1, <1>2, <1>3, <1>5, <1>6, SetQuiet DEF q
<1>8. Only(n, qsm, s) /\ n.map[s] = r /\ n \in MapType
  BY <1>1, <1>2, <1>3, SetStream
<1> QED BY <1>2, <1>4, <1>5, <1>6, <1>7, <1>8 DEF n, r, q

\* conclude_sstream
LEMMA ConcludeIs ==
  ASSUME NEW m \in MapType, NEW s \in Streams
  PROVE  \E r \in StreamType :
           /\ conclude_sstream(m, s) = Set(m, s, r)
           /\ r.send_state = m.map[s].send_state /\ r.recv_state = m.map[s].recv_state
           /\ r.send_final_size = m.map[s].send_final_size
           /\ r.swm = m.map[s].swm /\ r.cwm = m.map[s].cwm /\ r.flags = m.map[s].flags
           /\ r.sstream.head = m.map[s].sstream.head
           /\ r.sstream.new = m.map[s].sstream.new
           /\ r.sstream.acked = m.map[s].sstream.acked
           /\ r.sstream.fin = m.map[s].sstream.fin \cup {"have"}
           /\ SameFlush(r, m.map[s]) /\ Lives(r, m.map[s])
           /\ StreamOK(m.map[s]) => StreamOK(r)
<1> DEFINE q == m.map[s]
           r == [q EXCEPT !.sstream.fin = @ \cup {"have"}]
<1>1. conclude_sstream(m, s) = Set(m, s, r)
  BY DEF conclude_sstream, Set
<1>2. q \in StreamType
  BY DEF MapType
<1> HIDE DEF q
<1>3. /\ r \in StreamType
      /\ r.send_state = q.send_state /\ r.recv_state = q.recv_state
      /\ r.send_final_size = q.send_final_size
      /\ r.swm = q.swm /\ r.cwm = q.cwm /\ r.flags = q.flags
      /\ r.sstream.head = q.sstream.head /\ r.sstream.new = q.sstream.new
      /\ r.sstream.acked = q.sstream.acked /\ r.sstream.fin = q.sstream.fin \cup {"have"}
  BY <1>2 DEF StreamType, BufferType
<1> HIDE DEF r
<1>4. has_send_buffer(r) <=> has_send_buffer(q)
  BY <1>3 DEF has_send_buffer
<1>5. SameFlush(r, q) /\ Lives(r, q)
  BY <1>3, <1>4 DEF SameFlush, Lives, InFlight
<1>6. ASSUME StreamOK(q) PROVE StreamOK(r)
  <2>1. BytesOK(r)
    BY <1>3, <1>4, <1>6 DEF StreamOK, BytesOK
  <2>2. StateOK(r)
    BY <1>3, <1>6 DEF StreamOK, StateOK, has_final_size, SizeFixed
  <2> QED BY <2>1, <2>2 DEF StreamOK
<1> QED BY <1>1, <1>3, <1>5, <1>6 DEF q

LEMMA ResetLives ==
  ASSUME NEW m \in MapType, NEW s \in Streams
  PROVE  LET n == reset_stream_send_part(m, s)
         IN  /\ Only(n, m, s) /\ n \in MapType /\ Lives(n.map[s], m.map[s])
             /\ MapOK(m) => MapOK(n)
             /\ IF has_send_buffer(m.map[s]) THEN n.map[s].send_state = "RESET_SENT" ELSE n = m
<1> DEFINE n == reset_stream_send_part(m, s)
<1>1. /\ Only(n, m, s) /\ n \in MapType
      /\ MapOK(m) => MapOK(n)
      /\ IF has_send_buffer(m.map[s]) THEN n.map[s].send_state = "RESET_SENT" ELSE n = m
      /\ "shutdown_flush" \in n.map[s].flags => "shutdown_flush" \in m.map[s].flags
  BY ResetIs
<1> HIDE DEF n
<1>2. Lives(n.map[s], m.map[s])
  BY <1>1 DEF Lives, has_send_buffer
<1> QED BY <1>1, <1>2 DEF n

LEMMA WriteStep ==
  ASSUME IInv, NEW s \in Streams, NEW n \in 1 .. Size, NEW conclude \in BOOLEAN,
         Write(s, n, conclude)
  PROVE  IInv'
<1> DEFINE q == qsm.map[s]
           v == validated(s).map[s]
           to == v.sstream.head + n
           r == [v EXCEPT !.sstream.head = to,
                          !.sstream.new = @ \cup (v.sstream.head .. to - 1)]
           m == update_state(Set(qsm, s, r), s)
<1>1. /\ MapOK(validated(s)) /\ Only(validated(s), qsm, s) /\ Lives(v, q)
      /\ v \in StreamType
      /\ has_send_buffer(v) <=> has_send_buffer(q)
      /\ v.sstream = q.sstream /\ v.send_state # "READY" /\ StreamOK(v) /\ SameFlush(v, q)
  BY ValidatedIs
<1>2. UNCHANGED <<shutting_down, pkts>> /\ has_send_buffer(q)
  BY DEF Write, CanWrite
<1>3. CASE qsm' = validated(s)
  <2>1. \A t \in Streams \ {s} : qsm'.map[t] = qsm.map[t]
    BY <1>1, <1>3 DEF Only
  <2> QED BY <1>1, <1>2, <1>3, <2>1, StreamStep
<1>4. CASE ~has_final_size(q) /\ qsm' = IF conclude THEN conclude_sstream(m, s) ELSE m
  <2> HIDE DEF q
  <2>1. v.send_state = "SEND" /\ v.sstream.head \in Nat /\ n \in Nat /\ n > 0
    BY <1>1, <1>2, <1>4, StreamAssumption
       DEF StreamOK, StateOK, has_send_buffer, has_final_size, StreamType, BufferType
  <2> HIDE DEF v
  <2>2. /\ r \in StreamType /\ r.flags = v.flags
        /\ r.send_state = v.send_state /\ r.recv_state = v.recv_state
        /\ r.send_final_size = v.send_final_size /\ r.swm = v.swm /\ r.cwm = v.cwm
        /\ r.sstream.head = v.sstream.head + n /\ r.sstream.acked = v.sstream.acked
        /\ r.sstream.new = v.sstream.new \cup (v.sstream.head .. v.sstream.head + n - 1)
        /\ r.sstream.fin = v.sstream.fin
    <3> DEFINE new == v.sstream.new \cup (v.sstream.head .. to - 1)
    <3>1. to \in Nat /\ new \in SUBSET Nat /\ to = v.sstream.head + n
      BY <1>1, <2>1 DEF StreamType, BufferType
    <3>2. r = [v EXCEPT !.sstream.head = to, !.sstream.new = new]
      BY <1>1 DEF StreamType, BufferType
    <3>3. new = v.sstream.new \cup (v.sstream.head .. v.sstream.head + n - 1)
      <4>1. to - 1 = v.sstream.head + n - 1
        BY <2>1
      <4> HIDE DEF to
      <4> QED BY <4>1, Zenon
    <3> HIDE DEF to, new, r
    <3> QED BY <1>1, <3>1, <3>2, <3>3 DEF StreamType, BufferType
  <2> HIDE DEF r
  <2>3. has_send_buffer(r) /\ has_send_buffer(v) /\ (has_final_size(r) <=> has_final_size(v))
    BY <2>1, <2>2 DEF has_send_buffer, has_final_size
  <2>4. BytesOK(v) /\ StateOK(v) /\ v.swm \in Nat
    BY <1>1 DEF StreamOK, StreamType
  <2>5. BytesOK(r)
    <3>1. /\ r.sstream.new \subseteq 0 .. r.sstream.head - 1
          /\ r.sstream.acked \subseteq 0 .. r.sstream.head - 1
      BY <2>1, <2>2, <2>4 DEF BytesOK
    <3>2. r.sstream.new \cap r.sstream.acked = {}
      BY <2>1, <2>2, <2>4 DEF BytesOK
    <3>3. /\ r.swm <= r.cwm /\ r.swm <= r.sstream.head
          /\ \A b \in 0 .. r.sstream.head - 1 : b \in r.sstream.new \/ b < r.swm
      BY <2>1, <2>2, <2>3, <2>4 DEF BytesOK
    <3> QED BY <3>1, <3>2, <3>3 DEF BytesOK
  <2>6. StateOK(r)
    BY <2>1, <2>2, <2>3, <2>4 DEF StateOK, SizeFixed
  <2>7. InFlight(r) = InFlight(v)
    BY <2>1, <2>2, <2>4 DEF InFlight, BytesOK
  <2>8. Lives(r, q) /\ SameFlush(r, q)
    BY <1>1, <2>2, <2>3, <2>7 DEF Lives, SameFlush
  <2>9. Only(m, qsm, s) /\ Evolves(m.map[s], r) /\ m \in MapType /\ MapOK(m)
    BY <2>2, <2>5, <2>6, <2>8, SetUpdate, InvStream DEF StreamOK, q
  <2> HIDE DEF m
  <2>10. Lives(m.map[s], q)
    BY <2>8, <2>9, EvolvesLives, LivesChain
  <2>11. CASE ~conclude
    <3>1. \A t \in Streams \ {s} : qsm'.map[t] = qsm.map[t]
      BY <1>4, <2>9, <2>11 DEF Only
    <3> QED BY <1>2, <1>4, <2>9, <2>10, <2>11, <3>1, StreamStep DEF q
  <2>12. CASE conclude
    <3>1. PICK f \in StreamType :
            /\ conclude_sstream(m, s) = Set(m, s, f)
            /\ f.send_state = m.map[s].send_state /\ f.recv_state = m.map[s].recv_state
            /\ f.send_final_size = m.map[s].send_final_size
            /\ f.swm = m.map[s].swm /\ f.cwm = m.map[s].cwm /\ f.flags = m.map[s].flags
            /\ f.sstream.head = m.map[s].sstream.head
            /\ f.sstream.new = m.map[s].sstream.new
            /\ f.sstream.acked = m.map[s].sstream.acked
            /\ f.sstream.fin = m.map[s].sstream.fin \cup {"have"}
            /\ SameFlush(f, m.map[s]) /\ Lives(f, m.map[s])
            /\ StreamOK(m.map[s]) => StreamOK(f)
      BY <2>9, ConcludeIs
    <3>2. m.map[s].send_state = "SEND" /\ m.map[s].sstream = r.sstream
      BY <2>1, <2>2, <2>9 DEF Evolves
    <3>3. m.map[s].sstream.new # {}
      <4>1. v.sstream.head \in r.sstream.new
        BY <2>1, <2>2
      <4> QED BY <3>2, <4>1
    <3>4. StreamOK(f)
      BY <2>9, <3>1, <3>2 DEF MapOK, MapBut
    <3>5. Quieter(f, m.map[s], Credit(m))
      BY <3>1, <3>3 DEF Quieter, Wants, FinAlone, wants_control_frame, has_send_buffer, has_pending
    <3>6. MapOK(qsm')
      BY <1>4, <2>9, <2>12, <3>1, <3>4, <3>5, SetQuiet
    <3>7. Only(qsm', m, s) /\ qsm'.map[s] = f
      BY <1>4, <2>9, <2>12, <3>1, SetStream
    <3>8. \A t \in Streams \ {s} : qsm'.map[t] = qsm.map[t]
      BY <2>9, <3>7 DEF Only
    <3>9. Lives(qsm'.map[s], q)
      BY <2>10, <3>1, <3>7, LivesChain
    <3> QED BY <1>2, <3>6, <3>8, <3>9, StreamStep DEF q
  <2> QED BY <2>11, <2>12
<1>5. v.sstream = q.sstream
  BY <1>1
<1>6. has_final_size(v) <=> has_final_size(q)
  BY <1>5 DEF has_final_size
<1>7. IF has_final_size(v) THEN qsm' = validated(s)
      ELSE to <= Size /\ qsm' = IF conclude THEN conclude_sstream(m, s) ELSE m
  BY DEF Write
<1> QED BY <1>3, <1>4, <1>6, <1>7

\* A write of no bytes concludes the stream and does no more.  If it asks for a
\* frame after that and did not before, then for its FIN alone.
LEMMA WriteNoneStep ==
  ASSUME IInv, NEW s \in Streams, WriteNone(s)
  PROVE  IInv'
<1> DEFINE q == qsm.map[s]
           r == [q EXCEPT !.sstream.fin = @ \cup {"have"}, !.missed = FinMissed(s)]
<1>1. /\ has_send_buffer(q) /\ ~has_final_size(q) /\ UNCHANGED <<shutting_down, pkts>>
      /\ qsm' = [conclude_sstream(qsm, s) EXCEPT !.map[s].missed = FinMissed(s)]
  BY DEF WriteNone
<1>2. /\ qsm \in MapType /\ MapOK(qsm) /\ MapButDue(qsm, s) /\ Due(qsm, s)
      /\ q \in StreamType /\ StreamOK(q)
  BY InvStream, MapOKIs
<1>3. qsm' = Set(qsm, s, r)
  BY <1>1, <1>2 DEF conclude_sstream, Set, MapType, StreamType
<1>4. FinMissed(s) <=> \/ q.send_state = "READY"
                       \/ q.sstream.new = {} /\ ~Contains(qsm.active_list, s)
  BY DEF FinMissed
<1>5. FinMissed(s) \in BOOLEAN
  BY DEF FinMissed
<1> HIDE DEF q
<1>6. /\ r \in StreamType /\ r.missed = FinMissed(s)
      /\ r.send_state = q.send_state /\ r.recv_state = q.recv_state
      /\ r.send_final_size = q.send_final_size
      /\ r.swm = q.swm /\ r.cwm = q.cwm /\ r.flags = q.flags
      /\ r.sstream.head = q.sstream.head /\ r.sstream.new = q.sstream.new
      /\ r.sstream.acked = q.sstream.acked /\ r.sstream.fin = q.sstream.fin \cup {"have"}
  BY <1>2, <1>5 DEF StreamType, BufferType
<1> HIDE DEF r
<1>7. StreamOK(r)
  <2>1. BytesOK(r)
    BY <1>2, <1>6 DEF StreamOK, BytesOK, has_send_buffer
  <2>2. StateOK(r)
    BY <1>2, <1>6 DEF StreamOK, StateOK, has_final_size, SizeFixed
  <2> QED BY <2>1, <2>2 DEF StreamOK
<1>8. SameFlush(r, q) /\ Lives(r, q)
  BY <1>6 DEF SameFlush, Lives, InFlight, has_send_buffer
<1>9. /\ Only(qsm', qsm, s) /\ qsm'.map[s] = r /\ qsm' \in MapType /\ MapButDue(qsm', s)
      /\ Credit(qsm') = Credit(qsm) /\ qsm'.active_list = qsm.active_list
  <2>1. Alters(qsm', qsm, s, r)
    BY <1>2, <1>3, <1>6, SetIs
  <2> QED BY <1>2, <1>3, <1>6, <1>7, <1>8, <2>1, SetStream DEF q, Alters, Credit
<1>10. ASSUME Wants(r, Credit(qsm)), ~Contains(qsm.active_list, s) PROVE FinAlone(r)
  <2>1. ~Wants(q, Credit(qsm))
    <3>1. Wants(q, Credit(qsm)) => FinAlone(q)
      BY <1>2, <1>10, ActiveIs DEF Due, q
    <3>2. ~(Wants(q, Credit(qsm)) /\ FinAlone(q))
      BY <1>1 DEF Wants, FinAlone, has_pending, has_final_size
    <3> QED BY <3>1, <3>2
  <2>2. wants_control_frame(r) <=> wants_control_frame(q)
    BY <1>6 DEF wants_control_frame
  <2>3. ~wants_control_frame(r)
    BY <1>6, <1>10, <2>1, <2>2 DEF Wants
  <2>4. r.sstream.new = {}
    BY <1>6, <1>10, <2>1, <2>3 DEF Wants, has_pending, has_send_buffer
  <2> QED BY <1>4, <1>6, <1>10, <2>3, <2>4 DEF FinAlone
<1>11. MapOK(qsm')
  <2>1. Due(qsm', s)
    BY <1>9, <1>10, ActiveIs DEF Due
  <2> QED BY <1>9, <2>1, MapOKIs
<1> QED BY <1>1, <1>8, <1>9, <1>11, StreamStep DEF q, Only

LEMMA ConcludeStep ==
  ASSUME IInv, NEW s \in Streams, Conclude(s)
  PROVE  IInv'
<1> DEFINE q == qsm.map[s]
           k == validated(s)
           v == k.map[s]
           n == update_state(conclude_sstream(k, s), s)
<1>1. /\ k \in MapType /\ MapOK(k) /\ Only(k, qsm, s) /\ Lives(v, q)
      /\ StreamOK(v)
  BY ValidatedIs
<1>2. UNCHANGED <<shutting_down, pkts>> /\ (qsm' = k \/ qsm' = n)
  BY DEF Conclude
<1> HIDE DEF k
<1>3. PICK r \in StreamType :
        /\ conclude_sstream(k, s) = Set(k, s, r)
        /\ SameFlush(r, v) /\ Lives(r, v)
        /\ StreamOK(v) => StreamOK(r)
  BY <1>1, ConcludeIs
<1>4. Only(n, k, s) /\ Evolves(n.map[s], r) /\ MapOK(n)
  BY <1>1, <1>3, SetUpdate, MapOKIs
<1> HIDE DEF n
<1>5. Lives(n.map[s], q) /\ \A t \in Streams \ {s} : n.map[t] = qsm.map[t]
  BY <1>1, <1>3, <1>4, EvolvesLives, LivesChain DEF Only
<1>6. CASE qsm' = k
  BY <1>1, <1>2, <1>6, StreamStep DEF Only
<1>7. CASE qsm' = n
  BY <1>2, <1>4, <1>5, <1>7, StreamStep
<1> QED BY <1>2, <1>6, <1>7

LEMMA ResetStep ==
  ASSUME IInv, NEW s \in Streams, StreamReset(s)
  PROVE  IInv'
<1> DEFINE q == qsm.map[s]
           k == validated(s)
           v == k.map[s]
           n == reset_stream_send_part(k, s)
<1>1. k \in MapType /\ MapOK(k) /\ Only(k, qsm, s) /\ Lives(v, q)
  BY ValidatedIs
<1>2. UNCHANGED <<shutting_down, pkts>> /\ (qsm' = k \/ qsm' = n)
  BY DEF StreamReset
<1> HIDE DEF k
<1>3. Only(n, k, s) /\ Lives(n.map[s], v) /\ MapOK(n)
  BY <1>1, ResetLives
<1> HIDE DEF n
<1>4. Lives(n.map[s], q) /\ \A t \in Streams \ {s} : n.map[t] = qsm.map[t]
  BY <1>1, <1>3, LivesChain DEF Only
<1>5. CASE qsm' = k
  BY <1>1, <1>2, <1>5, StreamStep DEF Only
<1>6. CASE qsm' = n
  BY <1>2, <1>3, <1>4, <1>6, StreamStep
<1> QED BY <1>2, <1>5, <1>6

\* A stream whose send part and whose flags for the shutdown and for the release
\* remain, set and looked at again, or set only if it has no more to send.
SameSend(r, q) ==
  /\ r.send_state = q.send_state /\ r.sstream = q.sstream
  /\ r.send_final_size = q.send_final_size /\ r.swm = q.swm /\ r.cwm = q.cwm
  /\ "shutdown_flush" \in r.flags <=> "shutdown_flush" \in q.flags
  /\ "deleted" \in r.flags <=> "deleted" \in q.flags

LEMMA SameSendIs ==
  ASSUME NEW q, NEW r, SameSend(r, q), StreamOK(q)
  PROVE  StreamOK(r) /\ SameFlush(r, q) /\ Lives(r, q)
<1>1. BytesOK(r)
  BY DEF SameSend, StreamOK, BytesOK, has_send_buffer
<1>2. StateOK(r)
  BY DEF SameSend, StreamOK, StateOK, has_final_size
<1>3. SameFlush(r, q) /\ Lives(r, q)
  BY DEF SameSend, SameFlush, Lives, has_send_buffer, InFlight
<1> QED BY <1>1, <1>2, <1>3 DEF StreamOK

LEMMA UpdateStep ==
  ASSUME IInv, NEW s \in Streams, NEW r \in StreamType, StreamOK(r),
         SameFlush(r, qsm.map[s]), Lives(r, qsm.map[s]),
         qsm' = update_state(Set(qsm, s, r), s), UNCHANGED <<shutting_down, pkts>>
  PROVE  IInv'
<1>1. Only(qsm', qsm, s) /\ Evolves(qsm'.map[s], r) /\ MapOK(qsm')
  BY InvStream, SetUpdate
<1>2. Lives(qsm'.map[s], qsm.map[s])
  BY <1>1, EvolvesLives, LivesChain
<1> QED BY <1>1, <1>2, StreamStep DEF Only

LEMMA QuietStep ==
  ASSUME IInv, NEW s \in Streams, NEW r \in StreamType, SameSend(r, qsm.map[s]),
         Quieter(r, qsm.map[s], Credit(qsm)),
         qsm' = Set(qsm, s, r), UNCHANGED <<shutting_down, pkts>>
  PROVE  IInv'
<1>1. StreamOK(r) /\ SameFlush(r, qsm.map[s]) /\ Lives(r, qsm.map[s])
  BY InvStream, SameSendIs
<1>2. MapOK(qsm')
  BY <1>1, InvStream, SetQuiet
<1>3. Only(qsm', qsm, s) /\ qsm'.map[s] = r
  BY InvStream, SetStream
<1> QED BY <1>1, <1>2, <1>3, StreamStep DEF Only

LEMMA ReadStep ==
  ASSUME IInv, NEW s \in Streams, NEW open \in BOOLEAN, NEW rest \in BOOLEAN, Read(s, open, rest)
  PROVE  IInv'
<1> DEFINE q == qsm.map[s]
           flags == IF open THEN q.flags \cup {"cwm_changed"} ELSE q.flags
           state == IF q.recv_state = "DATA_RECVD" /\ ~rest THEN "DATA_READ" ELSE q.recv_state
           r == [q EXCEPT !.flags = flags, !.avail = rest, !.recv_state = state]
<1>1. qsm' = update_state(Set(qsm, s, r), s) /\ UNCHANGED <<shutting_down, pkts>>
  BY DEF Read
<1>2. q \in StreamType /\ StreamOK(q)
  BY InvStream
<1> HIDE DEF q
<1>3. flags \in SUBSET Flags /\ state \in RecvStates
  BY <1>2 DEF StreamType, Flags, RecvStates
<1>4. /\ "shutdown_flush" \in flags <=> "shutdown_flush" \in q.flags
      /\ "deleted" \in flags <=> "deleted" \in q.flags
  OBVIOUS
<1> HIDE DEF flags, state
<1>5. /\ r \in StreamType /\ r.flags = flags
      /\ r.send_state = q.send_state /\ r.sstream = q.sstream
      /\ r.send_final_size = q.send_final_size /\ r.swm = q.swm /\ r.cwm = q.cwm
  BY <1>2, <1>3 DEF StreamType
<1> HIDE DEF r
<1>6. SameSend(r, q)
  BY <1>4, <1>5 DEF SameSend
<1>7. StreamOK(r) /\ SameFlush(r, q) /\ Lives(r, q)
  BY <1>2, <1>6, SameSendIs
<1> QED BY <1>1, <1>5, <1>7, UpdateStep DEF q

\* The receive part of a stream goes on from state to state.
LEMMA ReceiveStep ==
  ASSUME IInv, NEW s \in Streams, NEW state \in RecvStates, NEW avail \in BOOLEAN,
         NEW flags \in SUBSET Flags,
         flags \in {qsm.map[s].flags, qsm.map[s].flags \ {"want_stop_sending"}},
         state = "RECV" => qsm.map[s].recv_state = "RECV",
         UNCHANGED <<shutting_down, pkts>>
  PROVE  LET r == [qsm.map[s] EXCEPT !.recv_state = state, !.avail = avail, !.flags = flags]
         IN  qsm' = Set(qsm, s, r) \/ qsm' = update_state(Set(qsm, s, r), s) => IInv'
<1> DEFINE q == qsm.map[s]
           r == [q EXCEPT !.recv_state = state, !.avail = avail, !.flags = flags]
<1>1. q \in StreamType /\ StreamOK(q)
  BY InvStream
<1> HIDE DEF q
<1>2. /\ flags \subseteq q.flags
      /\ "shutdown_flush" \in flags <=> "shutdown_flush" \in q.flags
      /\ "deleted" \in flags <=> "deleted" \in q.flags
      /\ \A f \in Flags \ {"want_stop_sending"} : f \in flags <=> f \in q.flags
  BY DEF q
<1>3. /\ r \in StreamType /\ r.flags = flags /\ r.recv_state = state
      /\ r.send_state = q.send_state /\ r.sstream = q.sstream
      /\ r.send_final_size = q.send_final_size /\ r.swm = q.swm /\ r.cwm = q.cwm
      /\ r.missed = q.missed
  BY <1>1 DEF StreamType
<1>4. state = "RECV" => q.recv_state = "RECV"
  BY DEF q
<1> HIDE DEF r
<1>5. SameSend(r, q)
  BY <1>2, <1>3 DEF SameSend
<1>6. StreamOK(r) /\ SameFlush(r, q) /\ Lives(r, q)
  BY <1>1, <1>5, SameSendIs
<1>7. Quieter(r, q, Credit(qsm))
  BY <1>2, <1>3, <1>4 DEF Quieter, Wants, FinAlone, wants_control_frame, has_send_buffer, has_pending, Flags
<1>8. CASE qsm' = Set(qsm, s, r)
  BY <1>3, <1>5, <1>7, <1>8, QuietStep DEF q
<1>9. CASE qsm' = update_state(Set(qsm, s, r), s)
  BY <1>3, <1>6, <1>9, UpdateStep DEF q
<1> QED BY <1>8, <1>9 DEF r, q

LEMMA ReadEndStep ==
  ASSUME IInv, NEW s \in Streams, ReadEnd(s)
  PROVE  IInv'
<1>1. UNCHANGED <<shutting_down, pkts>>
  BY DEF ReadEnd
<1>2. PICK state \in {"DATA_READ", "RESET_READ"} : qsm' = [qsm EXCEPT !.map[s].recv_state = state]
  BY DEF ReadEnd
<1>3. qsm.map[s] \in StreamType /\ qsm.map[s].avail \in BOOLEAN /\ qsm.map[s].flags \in SUBSET Flags
  BY InvStream DEF StreamType
<1> DEFINE r == [qsm.map[s] EXCEPT !.recv_state = state]
<1>4. qsm' = Set(qsm, s, r)
  BY <1>2 DEF Set
<1>5. r = [qsm.map[s] EXCEPT !.recv_state = state, !.avail = qsm.map[s].avail,
                            !.flags = qsm.map[s].flags]
  <2> DEFINE q == qsm.map[s]
  <2>1. q \in StreamType
    BY <1>3
  <2> HIDE DEF q
  <2>2. [q EXCEPT !.recv_state = state]
          = [q EXCEPT !.recv_state = state, !.avail = q.avail, !.flags = q.flags]
    BY <2>1 DEF StreamType
  <2> QED BY <2>2 DEF q
<1> HIDE DEF r
<1>6. state \in RecvStates /\ state # "RECV"
  BY DEF RecvStates
<1> QED BY <1>1, <1>3, <1>4, <1>5, <1>6, ReceiveStep

LEMMA RecvStreamStep ==
  ASSUME IInv, NEW s \in Streams, NEW fin \in BOOLEAN, NEW more \in BOOLEAN, NEW all \in BOOLEAN,
         RecvStream(s, fin, more, all)
  PROVE  IInv'
<1> DEFINE q == qsm.map[s]
           known == fin \/ q.recv_state = "SIZE_KNOWN"
           kept == ~Has(qsm, s, "stop_sending")
           received == [q EXCEPT !.recv_state = "DATA_RECVD", !.flags = @ \ {"want_stop_sending"}]
           k == IF all /\ kept THEN received
                ELSE [q EXCEPT !.recv_state = IF known THEN "SIZE_KNOWN" ELSE @]
           avail == q.avail \/ (more /\ kept)
           state == IF all /\ kept THEN "DATA_RECVD"
                    ELSE IF known THEN "SIZE_KNOWN" ELSE q.recv_state
           flags == IF all /\ kept THEN q.flags \ {"want_stop_sending"} ELSE q.flags
           r == [q EXCEPT !.recv_state = state, !.avail = avail, !.flags = flags]
<1>1. q \in StreamType
  BY InvStream
<1>2. /\ qsm' = Set(qsm, s, [k EXCEPT !.avail = k.avail \/ (more /\ kept)])
      /\ UNCHANGED <<shutting_down, pkts>>
  BY DEF RecvStream
<1> HIDE DEF q, known, kept
<1>3. k.avail = q.avail
  BY <1>1 DEF StreamType
<1>4. avail \in BOOLEAN /\ state \in RecvStates /\ flags \in SUBSET Flags
  <2>1. avail \in BOOLEAN
    BY Zenon
  <2>2. state \in RecvStates /\ flags \in SUBSET Flags
    BY <1>1 DEF StreamType, RecvStates
  <2> QED BY <2>1, <2>2
<1>5. flags \in {q.flags, q.flags \ {"want_stop_sending"}} /\ (state = "RECV" => q.recv_state = "RECV")
  OBVIOUS
<1>6. [k EXCEPT !.avail = k.avail \/ (more /\ kept)] = r
  <2>1. k = [q EXCEPT !.recv_state = state, !.flags = flags]
    BY <1>1 DEF StreamType
  <2>2. [k EXCEPT !.avail = k.avail \/ (more /\ kept)] = [k EXCEPT !.avail = avail]
    <3> HIDE DEF k
    <3> QED BY <1>3, Zenon
  <2> HIDE DEF state, flags, avail, k
  <2>3. [k EXCEPT !.avail = avail] = r
    BY <1>1, <2>1 DEF StreamType
  <2> QED BY <2>2, <2>3
<1> HIDE DEF state, flags, avail, k
<1> QED BY <1>2, <1>4, <1>5, <1>6, ReceiveStep DEF q

LEMMA RecvResetStep ==
  ASSUME IInv, NEW s \in Streams, RecvResetStream(s)
  PROVE  IInv'
<1> DEFINE q == qsm.map[s]
           k == IF q.recv_state \in {"RECV", "SIZE_KNOWN", "DATA_RECVD"}
                THEN [q EXCEPT !.recv_state = "RESET_RECVD", !.avail = FALSE,
                               !.flags = @ \ {"want_stop_sending"}]
                ELSE q
<1>1. q \in StreamType
  BY InvStream
<1>2. qsm' = update_state(Set(qsm, s, k), s) /\ UNCHANGED <<shutting_down, pkts>>
  BY DEF RecvResetStream
<1> HIDE DEF q
<1>3. q.recv_state \in RecvStates /\ q.avail \in BOOLEAN /\ q.flags \in SUBSET Flags
      /\ q.flags \ {"want_stop_sending"} \in SUBSET Flags
  BY <1>1 DEF StreamType
<1>4. CASE q.recv_state \in {"RECV", "SIZE_KNOWN", "DATA_RECVD"}
  <2>1. k = [q EXCEPT !.recv_state = "RESET_RECVD", !.avail = FALSE,
                      !.flags = q.flags \ {"want_stop_sending"}]
    BY <1>4
  <2>2. "RESET_RECVD" \in RecvStates /\ FALSE \in BOOLEAN
    BY DEF RecvStates
  <2> HIDE DEF k
  <2> QED BY <1>2, <1>3, <2>1, <2>2, ReceiveStep DEF q
<1>5. CASE q.recv_state \notin {"RECV", "SIZE_KNOWN", "DATA_RECVD"}
  <2>1. k = [q EXCEPT !.recv_state = q.recv_state, !.avail = q.avail, !.flags = q.flags]
    BY <1>1, <1>5 DEF StreamType
  <2> HIDE DEF k
  <2> QED BY <1>2, <1>3, <2>1, ReceiveStep, ZenonT(60) DEF q
<1> QED BY <1>4, <1>5

LEMMA RecvStopStep ==
  ASSUME IInv, NEW s \in Streams, RecvStopSending(s)
  PROVE  IInv'
<1> DEFINE k == Raise(qsm, s, "peer_stop_sending")
           n == reset_stream_send_part(k, s)
<1>1. qsm' = n /\ UNCHANGED <<shutting_down, pkts>>
  BY DEF RecvStopSending
<1>2. Only(k, qsm, s) /\ Evolves(k.map[s], qsm.map[s]) /\ k \in MapType /\ MapOK(k)
  BY InvStream, RaiseQuiet
<1> HIDE DEF k
<1>3. Only(n, k, s) /\ Lives(n.map[s], k.map[s]) /\ MapOK(n)
  BY <1>2, ResetLives
<1> HIDE DEF n
<1>4. Lives(n.map[s], qsm.map[s]) /\ \A t \in Streams \ {s} : n.map[t] = qsm.map[t]
  BY <1>2, <1>3, EvolvesLives, LivesChain DEF Only
<1> QED BY <1>1, <1>3, <1>4, StreamStep

LEMMA FreeStep ==
  ASSUME IInv, NEW s \in Streams, Free(s)
  PROVE  IInv'
<1> DEFINE q == qsm.map[s]
           unfinished == q.send_state \in {"READY", "SEND"} /\ ~has_final_size(q)
           k == IF unfinished THEN reset_stream_send_part(qsm, s) ELSE qsm
           d == stop_sending_recv_part(k, s)
           u == d.map[s]
           r == WithFlags(u, u.flags \cup {"deleted"})
           n == update_state(Raise(d, s, "deleted"), s)
<1>1. qsm' = n /\ UNCHANGED <<shutting_down, pkts>>
  BY DEF Free
<1>2. qsm \in MapType /\ MapOK(qsm) /\ StreamOK(q)
  BY InvStream
<1>3. Only(k, qsm, s) /\ k \in MapType /\ MapOK(k) /\ Lives(k.map[s], q)
  BY <1>2, ResetLives, OnlySelf, EvolvesLives
<1>4. k.map[s].send_state \notin {"READY", "SEND"} \/ has_final_size(k.map[s])
  <2>1. CASE unfinished
    <3>1. has_send_buffer(q)
      BY <2>1 DEF has_send_buffer
    <3>2. k.map[s].send_state = "RESET_SENT"
      BY <1>2, <2>1, <3>1, ResetLives
    <3> QED BY <3>2
  <2>2. CASE ~unfinished
    BY <1>2, <2>2 DEF StreamOK, StateOK
  <2> QED BY <2>1, <2>2
<1> HIDE DEF k
<1>5. Only(d, k, s) /\ Evolves(u, k.map[s]) /\ MapOK(d)
  BY <1>3, StopSendingIs
<1> HIDE DEF d
<1>6. u.send_state \notin {"READY", "SEND"} \/ has_final_size(u)
  BY <1>4, <1>5 DEF Evolves, has_final_size
<1>7. d \in MapType /\ u \in StreamType /\ StreamOK(u) /\ MapButDue(d, s)
  BY <1>5, MapOKIs DEF MapOK, MapBut, MapType
<1>8. Raise(d, s, "deleted") = Set(d, s, r) /\ u.flags \cup {"deleted"} \in SUBSET Flags
  BY <1>7, RaiseIs DEF Flags
<1> HIDE DEF u
<1>9. /\ r \in StreamType /\ r.flags = u.flags \cup {"deleted"}
      /\ r.send_state = u.send_state /\ r.sstream = u.sstream
  BY <1>7, <1>8, WithFlagsIs
<1>10. StreamOK(r)
  BY <1>6, <1>7, <1>8, StreamOKFlags
<1> HIDE DEF r
<1>11. SameFlush(r, u) /\ Lives(r, u)
  BY <1>9 DEF SameFlush, Lives, has_send_buffer, InFlight
<1>12. Only(n, d, s) /\ Evolves(n.map[s], r) /\ MapOK(n)
  BY <1>7, <1>8, <1>9, <1>10, <1>11, SetUpdate DEF u
<1> HIDE DEF n
<1>13. Lives(n.map[s], q)
  BY <1>3, <1>5, <1>11, <1>12, EvolvesLives, LivesChain
<1>14. \A t \in Streams \ {s} : n.map[t] = qsm.map[t]
  BY <1>3, <1>5, <1>12 DEF Only
<1> QED BY <1>1, <1>12, <1>13, <1>14, StreamStep DEF q

LEMMA RecvCreditStep ==
  ASSUME IInv, NEW s \in Streams, NEW c \in Nat, RecvMaxStreamData(s, c)
  PROVE  IInv'
<1> DEFINE q == qsm.map[s]
           cwm == Max({q.cwm, c})
           r == [q EXCEPT !.cwm = cwm]
<1>1. qsm' = update_state(Set(qsm, s, r), s) /\ UNCHANGED <<shutting_down, pkts>>
  BY DEF RecvMaxStreamData, Set
<1>2. q \in StreamType /\ StreamOK(q)
  BY InvStream
<1> HIDE DEF q
<1>3. q.cwm \in Nat /\ q.swm \in Nat
  BY <1>2 DEF StreamType
<1>4. cwm \in Nat /\ q.cwm <= cwm
  <2>0. q.cwm \in Int /\ c \in Int
    BY <1>3
  <2>1. cwm \in {q.cwm, c} /\ cwm >= q.cwm
    BY <2>0, TwoMax
  <2> HIDE DEF cwm
  <2> QED BY <1>3, <2>1
<1> HIDE DEF cwm
<1>5. /\ r \in StreamType /\ r.flags = q.flags
      /\ r.send_state = q.send_state /\ r.sstream = q.sstream
      /\ r.send_final_size = q.send_final_size /\ r.swm = q.swm /\ r.cwm = cwm
  BY <1>2, <1>4 DEF StreamType
<1> HIDE DEF r
<1>6. BytesOK(r)
  BY <1>2, <1>3, <1>4, <1>5 DEF StreamOK, BytesOK, has_send_buffer
<1>7. StateOK(r)
  BY <1>2, <1>5 DEF StreamOK, StateOK, has_final_size
<1>8. SameFlush(r, q) /\ Lives(r, q)
  BY <1>5 DEF SameFlush, Lives, has_send_buffer, InFlight
<1> QED BY <1>1, <1>5, <1>6, <1>7, <1>8, UpdateStep DEF StreamOK, q

\* RecvMaxData: one stream after the other is looked at with the new credit.
LEMMA RecvMaxDataStep ==
  ASSUME IInv, NEW c \in Nat, RecvMaxData(c)
  PROVE  IInv'
<1> DEFINE cwm == Max({qsm.conn_cwm, c})
           m == [qsm EXCEPT !.conn_cwm = cwm]
<1>1. qsm \in MapType /\ MapOK(qsm) /\ Mapped = Streams
  BY InvStream
<1>2. UNCHANGED <<shutting_down, pkts>> /\ \E order \in SetToSeqs(Streams) : qsm' = update_all(m, order)
  BY <1>1 DEF RecvMaxData
<1>3. PICK order \in SetToSeqs(Streams) : qsm' = update_all(m, order)
  BY <1>2
<1>4. PICK k \in Nat : /\ order \in [1 .. k -> Streams]
                       /\ \A s \in Streams : \E i \in 1 .. k : order[i] = s
  BY StreamAssumption, OrderIs, SMTT(30)
<1>5. cwm \in Nat
  <2>1. qsm.conn_cwm \in Int /\ c \in Int /\ qsm.conn_cwm \in Nat
    BY <1>1 DEF MapType
  <2>2. cwm \in {qsm.conn_cwm, c}
    BY <2>1, TwoMax
  <2> HIDE DEF cwm
  <2> QED BY <2>1, <2>2
<1> HIDE DEF cwm
<1>6. /\ m \in MapType /\ m.map = qsm.map /\ m.active_list = qsm.active_list
      /\ m.rr_cur = qsm.rr_cur /\ m.num_shutdown_flush = qsm.num_shutdown_flush
  <2> HIDE DEF StreamType
  <2> QED BY <1>1, <1>5 DEF MapType
<1> HIDE DEF m
<1>7. PICK t : /\ t[0] = m /\ update_all(m, order) = t[k]
               /\ \A i \in 1 .. k : t[i] = update_state(t[i - 1], order[i])
  BY <1>4, <1>6, UpdateAllIs
<1> DEFINE Left(i) == {s \in Streams : \A j \in 1 .. i : order[j] # s}
           Done(v, i) == MapBut(v, Left(i)) /\ \A s \in Streams : Lives(v.map[s], qsm.map[s])
           G == {i \in 0 .. k : Done(t[i], i)}
<1>8. Done(t[0], 0)
  <2>1. Left(0) = Streams
    OBVIOUS
  <2>2. MapBut(m, Streams)
    BY <1>1, <1>6 DEF MapOK, MapBut, ListOK, FlushOK, Flushing
  <2>3. \A s \in Streams : Lives(m.map[s], qsm.map[s])
    BY <1>6 DEF Lives
  <2> HIDE DEF Left
  <2> QED BY <1>7, <2>1, <2>2, <2>3
<1>9. ASSUME NEW i \in 1 .. k, Done(t[i - 1], i - 1) PROVE Done(t[i], i)
  <2> DEFINE v == t[i - 1]
             n == t[i]
             s == order[i]
  <2>1. v \in MapType /\ MapBut(v, Left(i - 1)) /\ \A x \in Streams : Lives(v.map[x], qsm.map[x])
    BY <1>9 DEF MapBut
  <2>2. n = update_state(v, s) /\ s \in Streams
    BY <1>4, <1>7
  <2>3. Left(i) = Left(i - 1) \ {s}
    OBVIOUS
  <2> HIDE DEF v, n, s, Left
  <2>4. Only(n, v, s) /\ Evolves(n.map[s], v.map[s]) /\ MapBut(n, Left(i - 1) \ {s})
    BY <2>1, <2>2, UpdateIs
  <2>5. ASSUME NEW x \in Streams PROVE Lives(n.map[x], qsm.map[x])
    <3>1. CASE x = s
      BY <2>1, <2>2, <2>4, <3>1, EvolvesLives, LivesChain
    <3>2. CASE x # s
      BY <2>1, <2>4, <3>2 DEF Only
    <3> QED BY <3>1, <3>2
  <2> QED BY <2>3, <2>4, <2>5 DEF n
<1>10. 0 .. k \subseteq G
  <2> HIDE DEF Done
  <2>1. 0 \in G /\ \A i \in 1 .. k : i - 1 \in G => i \in G
    BY <1>8, <1>9
  <2> HIDE DEF G
  <2> QED BY <2>1, CountUp
<1>11. Done(qsm', k)
  <2> HIDE DEF Done
  <2> QED BY <1>3, <1>7, <1>10
<1>12. Left(k) = {}
  BY <1>4
<1> HIDE DEF Left
<1>13. MapOK(qsm') /\ \A s \in Streams : Lives(qsm'.map[s], qsm.map[s])
  BY <1>11, <1>12 DEF MapOK
<1>14. \A s \in Streams : Flight(qsm'.map[s], s, pkts)
  BY <1>13, FlightLives DEF IInv
<1>15. ~shutting_down' => Flushing(qsm') = {}
  BY <1>2, <1>13 DEF IInv, Flushing, Lives
<1> QED BY <1>2, <1>13, <1>14, <1>15 DEF IInv

\* A packet leaves, acknowledged or lost: one stream after the other is told.
Handled(n, m, s, P, p) ==
  /\ Only(n, m, s) /\ MapOK(n) /\ Flight(n.map[s], s, P \ {p})
  /\ "shutdown_flush" \in n.map[s].flags => "shutdown_flush" \in m.map[s].flags

LEMMA PacketStep ==
  ASSUME IInv, NEW p \in pkts, NEW k \in Nat, NEW order \in [1 .. k -> DOMAIN p],
         \A i, j \in 1 .. k : order[i] = order[j] => i = j,
         \A s \in DOMAIN p : \E i \in 1 .. k : order[i] = s,
         NEW t, t[0] = qsm, qsm' = t[k],
         \A i \in 1 .. k :
           MapOK(t[i - 1]) /\ Flight(t[i - 1].map[order[i]], order[i], pkts)
             => Handled(t[i], t[i - 1], order[i], pkts, p),
         pkts' = pkts \ {p}, UNCHANGED shutting_down
  PROVE  IInv'
<1> DEFINE Told(v, s) ==
             /\ Flight(v.map[s], s, pkts \ {p})
             /\ "shutdown_flush" \in v.map[s].flags => "shutdown_flush" \in qsm.map[s].flags
           Done(v, i) ==
             /\ MapOK(v)
             /\ \A j \in 1 .. k : IF j <= i THEN Told(v, order[j])
                                  ELSE v.map[order[j]] = qsm.map[order[j]]
             /\ \A s \in Streams \ DOMAIN p : v.map[s] = qsm.map[s]
           G == {i \in 0 .. k : Done(t[i], i)}
<1>1. MapOK(qsm) /\ PacketOK(p) /\ DOMAIN p \subseteq Streams
  BY DEF IInv, PacketOK
<1>2. Done(t[0], 0)
  BY <1>1
<1>3. ASSUME NEW i \in 1 .. k, Done(t[i - 1], i - 1) PROVE Done(t[i], i)
  <2> DEFINE v == t[i - 1]
             n == t[i]
             s == order[i]
  <2>1. MapOK(v) /\ v.map[s] = qsm.map[s] /\ s \in DOMAIN p /\ s \in Streams
    BY <1>1, <1>3
  <2>2. Flight(v.map[s], s, pkts)
    BY <2>1 DEF IInv
  <2>3. Handled(n, v, s, pkts, p)
    BY <2>1, <2>2
  <2> HIDE DEF v, n
  <2>4. /\ \A x \in Streams \ {s} : n.map[x] = v.map[x]
        /\ MapOK(n) /\ Told(n, s)
    BY <2>1, <2>3 DEF Handled, Only
  <2>5. ASSUME NEW h \in 1 .. k, h # i
        PROVE  IF h <= i THEN Told(n, order[h]) ELSE n.map[order[h]] = qsm.map[order[h]]
    <3>1. order[h] \in Streams \ {s}
      BY <1>1, <2>5
    <3>2. n.map[order[h]] = v.map[order[h]]
      BY <2>4, <3>1
    <3>3. h <= i <=> h <= i - 1
      BY <2>5
    <3>4. IF h <= i - 1 THEN Told(v, order[h]) ELSE v.map[order[h]] = qsm.map[order[h]]
      BY <1>3 DEF v
    <3> HIDE DEF s
    <3> QED BY <3>2, <3>3, <3>4
  <2>6. ASSUME NEW x \in Streams \ DOMAIN p PROVE n.map[x] = qsm.map[x]
    <3>1. v.map[x] = qsm.map[x] /\ x # s
      BY <1>3, <2>1, <2>6 DEF v
    <3> QED BY <2>4, <3>1
  <2>7. \A h \in 1 .. k : IF h <= i THEN Told(n, order[h]) ELSE n.map[order[h]] = qsm.map[order[h]]
    <3> HIDE DEF Told
    <3> QED BY <2>4, <2>5
  <2> HIDE DEF s, Told
  <2> QED BY <2>4, <2>6, <2>7 DEF n
<1>4. 0 .. k \subseteq G
  <2> HIDE DEF Done
  <2>1. 0 \in G /\ \A i \in 1 .. k : i - 1 \in G => i \in G
    BY <1>2, <1>3
  <2> HIDE DEF G
  <2> QED BY <2>1, CountUp
<1>5. Done(qsm', k)
  <2> HIDE DEF Done
  <2> QED BY <1>4
<1>6. ASSUME NEW s \in Streams PROVE Told(qsm', s)
  <2>1. CASE s \in DOMAIN p
    <3>1. PICK j \in 1 .. k : order[j] = s
      BY <2>1
    <3> HIDE DEF Told
    <3> QED BY <1>5, <3>1
  <2>2. CASE s \notin DOMAIN p
    <3>1. qsm'.map[s] = qsm.map[s] /\ Flight(qsm.map[s], s, pkts)
      BY <1>5, <2>2 DEF IInv
    <3>2. InFlight(qsm.map[s])
            = InFlight(qsm.map[s]) \ (IF s \in DOMAIN p THEN p[s].data ELSE {})
      BY <2>2
    <3> QED BY <3>1, <3>2, FlightDrop
  <2> QED BY <2>1, <2>2
<1>7. ~shutting_down' => Flushing(qsm') = {}
  BY <1>6 DEF IInv, Flushing
<1> QED BY <1>5, <1>6, <1>7 DEF IInv

LEMMA AckedStep ==
  ASSUME IInv, NEW p \in pkts, Acked(p)
  PROVE  IInv'
<1>1. qsm \in MapType /\ PacketOK(p) /\ IsFiniteSet(DOMAIN p)
  BY InvStream, StreamAssumption, FS_Subset DEF IInv, PacketOK
<1>2. PICK order \in SetToSeqs(DOMAIN p) : qsm' = acked_all(qsm, p, order)
  BY DEF Acked
<1>3. PICK k \in Nat : /\ order \in [1 .. k -> DOMAIN p]
                       /\ \A i, j \in 1 .. k : order[i] = order[j] => i = j
                       /\ \A s \in DOMAIN p : \E i \in 1 .. k : order[i] = s
  BY <1>1, OrderIs
<1>4. PICK t : AckedOver(t, qsm, p, k, order) /\ acked_all(qsm, p, order) = t[k]
  BY <1>1, <1>3, AckedAllIs
<1>5. ASSUME NEW i \in 1 .. k, MapOK(t[i - 1]),
             Flight(t[i - 1].map[order[i]], order[i], pkts)
      PROVE  Handled(t[i], t[i - 1], order[i], pkts, p)
  <2>1. order[i] \in DOMAIN p /\ order[i] \in Streams /\ p[order[i]] \in ChunkType
    BY <1>1, <1>3 DEF PacketOK
  <2>2. t[i - 1] \in MapType
    BY <1>5 DEF MapOK, MapBut
  <2>3. t[i] = ack_abort(ack_data(t[i - 1], order[i], p[order[i]]), order[i], p[order[i]])
    BY <1>4 DEF AckedOver
  <2> QED BY <1>1, <1>5, <2>1, <2>2, <2>3, AckIs DEF Handled
<1>6. pkts' = pkts \ {p} /\ UNCHANGED shutting_down
  BY DEF Acked
<1> QED BY <1>2, <1>3, <1>4, <1>5, <1>6, PacketStep DEF AckedOver

LEMMA LostStep ==
  ASSUME IInv, NEW p \in pkts, Lost(p)
  PROVE  IInv'
<1>1. qsm \in MapType /\ PacketOK(p) /\ IsFiniteSet(DOMAIN p)
  BY InvStream, StreamAssumption, FS_Subset DEF IInv, PacketOK
<1>2. PICK order \in SetToSeqs(DOMAIN p) : qsm' = lost_all(qsm, p, order)
  BY DEF Lost
<1>3. PICK k \in Nat : /\ order \in [1 .. k -> DOMAIN p]
                       /\ \A i, j \in 1 .. k : order[i] = order[j] => i = j
                       /\ \A s \in DOMAIN p : \E i \in 1 .. k : order[i] = s
  BY <1>1, OrderIs
<1>4. PICK t : LostOver(t, qsm, p, k, order) /\ lost_all(qsm, p, order) = t[k]
  BY <1>1, <1>3, LostAllIs
<1>5. ASSUME NEW i \in 1 .. k, MapOK(t[i - 1]),
             Flight(t[i - 1].map[order[i]], order[i], pkts)
      PROVE  Handled(t[i], t[i - 1], order[i], pkts, p)
  <2>1. order[i] \in DOMAIN p /\ order[i] \in Streams /\ p[order[i]] \in ChunkType
    BY <1>1, <1>3 DEF PacketOK
  <2>2. t[i - 1] \in MapType
    BY <1>5 DEF MapOK, MapBut
  <2>3. t[i] = lose_abort(lose_data(t[i - 1], order[i], p[order[i]]), order[i], p[order[i]])
    BY <1>4 DEF LostOver
  <2> QED BY <1>1, <1>5, <2>1, <2>2, <2>3, LoseIs DEF Handled
<1>6. pkts' = pkts \ {p} /\ UNCHANGED shutting_down
  BY DEF Lost
<1> QED BY <1>2, <1>3, <1>4, <1>5, <1>6, PacketStep DEF LostOver

\* The map with other streams and another count of streams to be flushed.
FlushedMap(q, m, c) == [q EXCEPT !.num_shutdown_flush = c, !.map = m]

LEMMA FlushedMapIs ==
  ASSUME NEW q \in MapType, NEW m \in [Streams -> StreamType], NEW c \in Nat
  PROVE  LET n == FlushedMap(q, m, c)
         IN  /\ n \in MapType /\ n.map = m /\ n.active_list = q.active_list
             /\ n.rr_cur = q.rr_cur /\ n.conn_swm = q.conn_swm
             /\ n.conn_cwm = q.conn_cwm /\ n.num_shutdown_flush = c
<1> DEFINE a == [q EXCEPT !.num_shutdown_flush = c]
           n == [a EXCEPT !.map = m]
<1> HIDE DEF StreamType
<1>1. /\ a \in MapType /\ a.active_list = q.active_list /\ a.rr_cur = q.rr_cur
      /\ a.conn_swm = q.conn_swm /\ a.conn_cwm = q.conn_cwm /\ a.num_shutdown_flush = c
  BY DEF MapType
<1> HIDE DEF a
<1>2. /\ n \in MapType /\ n.map = m /\ n.active_list = a.active_list
      /\ n.rr_cur = a.rr_cur /\ n.conn_swm = a.conn_swm
      /\ n.conn_cwm = a.conn_cwm /\ n.num_shutdown_flush = a.num_shutdown_flush
  BY <1>1 DEF MapType
<1> HIDE DEF n
<1>3. /\ n \in MapType /\ n.map = m /\ n.active_list = q.active_list
      /\ n.rr_cur = q.rr_cur /\ n.conn_swm = q.conn_swm
      /\ n.conn_cwm = q.conn_cwm /\ n.num_shutdown_flush = c
  BY <1>1, <1>2
<1> QED BY <1>3 DEF n, a, FlushedMap

\* The streams to be flushed are marked and counted.
LEMMA ShutdownStep ==
  ASSUME IInv, Shutdown
  PROVE  IInv'
<1> DEFINE flushed == {s \in Mapped : /\ qsm.map[s].send_state \in {"SEND", "DATA_SENT"}
                                      /\ ~is_totally_acked(qsm.map[s])}
           flags(s) == IF s \in flushed THEN qsm.map[s].flags \cup {"shutdown_flush"}
                       ELSE qsm.map[s].flags
           map == [s \in Mapped |-> IF s \in flushed THEN Raise(qsm, s, "shutdown_flush").map[s]
                                    ELSE qsm.map[s]]
           n == [qsm EXCEPT !.num_shutdown_flush = Cardinality(flushed), !.map = map]
<1>1. qsm \in MapType /\ MapOK(qsm) /\ Mapped = Streams
  BY InvStream
<1>2. qsm' = n /\ UNCHANGED pkts /\ ~shutting_down /\ shutting_down' = TRUE
  BY DEF Shutdown
<1>3. Flushing(qsm) = {}
  BY <1>2 DEF IInv
<1>4. IsFiniteSet(flushed) /\ flushed \subseteq Streams /\ Cardinality(flushed) \in Nat
  <2>1. flushed \subseteq Streams
    BY <1>1
  <2> HIDE DEF flushed
  <2> QED BY <2>1, StreamAssumption, FS_Subset, FS_CardinalityType
<1> HIDE DEF flushed
<1>5. ASSUME NEW s \in Streams
      PROVE  /\ map[s] \in StreamType /\ map[s] = WithFlags(qsm.map[s], flags(s))
             /\ flags(s) \in SUBSET Flags
  <2>1. qsm.map[s] \in StreamType /\ qsm.map[s].flags \in SUBSET Flags
    BY <1>1 DEF MapType, StreamType
  <2>2. CASE s \in flushed
    <3> DEFINE r == WithFlags(qsm.map[s], qsm.map[s].flags \cup {"shutdown_flush"})
    <3>1. "shutdown_flush" \in Flags
      BY DEF Flags
    <3>2. /\ Raise(qsm, s, "shutdown_flush") = Set(qsm, s, r)
          /\ qsm.map[s].flags \cup {"shutdown_flush"} \in SUBSET Flags
      BY <1>1, <3>1, RaiseIs
    <3>3. r \in StreamType
      BY <2>1, <3>2, WithFlagsIs
    <3>4. Set(qsm, s, r).map[s] = r
      BY <1>1, <3>3, SetIs
    <3> HIDE DEF r
    <3>5. map[s] = r
      BY <1>1, <2>2, <3>2, <3>4
    <3> QED BY <2>2, <3>2, <3>3, <3>5 DEF r
  <2>3. CASE s \notin flushed
    <3>1. map[s] = qsm.map[s]
      BY <1>1, <2>3
    <3>2. WithFlags(qsm.map[s], qsm.map[s].flags) = qsm.map[s]
      BY <2>1 DEF WithFlags, StreamType
    <3> QED BY <2>1, <2>3, <3>1, <3>2
  <2> QED BY <2>2, <2>3
<1>6. ASSUME NEW s \in Streams
      PROVE  LET q == qsm.map[s]
             IN  /\ map[s].flags = flags(s)
                 /\ map[s].send_state = q.send_state /\ map[s].recv_state = q.recv_state
                 /\ map[s].sstream = q.sstream /\ map[s].swm = q.swm /\ map[s].cwm = q.cwm
                 /\ map[s].missed = q.missed
                 /\ StreamOK(map[s])
  <2>1. qsm.map[s] \in StreamType /\ StreamOK(qsm.map[s])
    BY InvStream
  <2>2. map[s] = WithFlags(qsm.map[s], flags(s)) /\ flags(s) \in SUBSET Flags
    BY <1>5
  <2>3. "deleted" \in flags(s) => "deleted" \in qsm.map[s].flags
    OBVIOUS
  <2> HIDE DEF map, flags
  <2>4. StreamOK(WithFlags(qsm.map[s], flags(s)))
    BY <2>1, <2>2, <2>3, StreamOKFlags
  <2> QED BY <2>1, <2>2, <2>4, WithFlagsIs
<1>7. map \in [Streams -> StreamType]
  <2> HIDE DEF StreamType, flags
  <2> QED BY <1>1, <1>5
<1> HIDE DEF map
<1>8. /\ n \in MapType /\ n.map = map /\ n.active_list = qsm.active_list /\ n.rr_cur = qsm.rr_cur
      /\ n.conn_swm = qsm.conn_swm /\ n.conn_cwm = qsm.conn_cwm
      /\ n.num_shutdown_flush = Cardinality(flushed)
  <2> DEFINE c == Cardinality(flushed)
  <2>1. c \in Nat
    BY <1>4
  <2> HIDE DEF c
  <2>2. LET w == FlushedMap(qsm, map, c)
        IN  /\ w \in MapType /\ w.map = map /\ w.active_list = qsm.active_list
            /\ w.rr_cur = qsm.rr_cur /\ w.conn_swm = qsm.conn_swm
            /\ w.conn_cwm = qsm.conn_cwm /\ w.num_shutdown_flush = c
    <3> HIDE DEF n
    <3> QED BY <1>1, <1>7, <2>1, FlushedMapIs
  <2>3. n = FlushedMap(qsm, map, c)
    BY DEF c, FlushedMap
  <2> QED BY <2>2, <2>3 DEF c
<1> HIDE DEF n
<1>9. FlushOK(n)
  <2>1. \A s \in Streams : "shutdown_flush" \notin qsm.map[s].flags
    BY <1>3 DEF Flushing
  <2>2. \A s \in Streams : "shutdown_flush" \in map[s].flags <=> s \in flushed
    BY <1>6, <2>1
  <2>3. Flushing(n) = flushed
    BY <1>4, <1>8, <2>2 DEF Flushing
  <2> QED BY <1>8, <2>3 DEF FlushOK
<1>10. ListOK(n)
  BY <1>1, <1>8 DEF MapOK, MapBut, ListOK
<1>11. ASSUME NEW s \in Streams PROVE Due(n, s)
  <2>1. \A f \in {"ready_for_gc", "want_max_stream_data", "cwm_changed", "want_stop_sending",
                  "want_reset_stream", "peer_stop_sending"} :
          f \in map[s].flags <=> f \in qsm.map[s].flags
    BY <1>6
  <2>2. Credit(n) = Credit(qsm)
    BY <1>8 DEF Credit
  <2> HIDE DEF flags
  <2>3. Quieter(map[s], qsm.map[s], Credit(qsm)) /\ Credit(n) = Credit(qsm)
    BY <1>6, <2>1, <2>2 DEF Quieter, Wants, FinAlone, wants_control_frame, has_send_buffer, has_pending
  <2>4. Due(qsm, s)
    BY <1>1 DEF MapOK, MapBut
  <2> QED BY <1>1, <1>8, <2>3, <2>4, ActiveIs DEF Due, Quieter
<1>12. MapOK(n)
  BY <1>6, <1>8, <1>9, <1>10, <1>11 DEF MapOK, MapBut
<1>13. ASSUME NEW s \in Streams PROVE Flight(n.map[s], s, pkts)
  <2>1. Flight(qsm.map[s], s, pkts)
    BY DEF IInv
  <2> HIDE DEF flags
  <2> QED BY <1>6, <1>8, <2>1 DEF Flight, has_send_buffer, InFlight
<1> QED BY <1>2, <1>12, <1>13 DEF IInv

\* The loop of ossl_quic_stream_map_gc visits no stream.
LEMMA GcStep ==
  ASSUME IInv, Gc
  PROVE  IInv'
<1> DEFINE list == qsm.ready_for_gc_list
           visited == {i \in 1 .. Len(list) : \A h \in 1 .. i : list[h] # list[1]}
           k == Cardinality(visited)
           map == Restrict(qsm.map, Mapped \ {list[i] : i \in 1 .. k})
           rest == SubSeq(list, k + 1, Len(list))
<1>1. /\ qsm' = [qsm EXCEPT !.map = map, !.ready_for_gc_list = rest]
      /\ UNCHANGED <<shutting_down, pkts>>
  BY DEF Gc
<1>2. qsm \in MapType /\ MapOK(qsm) /\ Mapped = Streams
  BY InvStream
<1>3. list \in Seq(Streams) /\ qsm.map \in [Streams -> StreamType]
  BY <1>2 DEF MapType
<1>4. k = 0
  <2>1. visited = {}
    <3>1. \A i \in 1 .. Len(list) : 1 \in 1 .. i
      BY <1>3
    <3> QED BY <3>1
  <2> HIDE DEF visited
  <2> QED BY <2>1, FS_EmptySet
<1> HIDE DEF k
<1>5. map = qsm.map
  <2>1. {list[i] : i \in 1 .. k} = {}
    BY <1>4
  <2>2. map = [s \in Streams |-> qsm.map[s]]
    BY <1>2, <2>1 DEF Restrict
  <2> QED BY <1>3, <2>2
<1>6. rest \in Seq(Streams)
  <2>1. Len(list) \in Nat /\ k + 1 = 1
    BY <1>3, <1>4
  <2>2. SubSeq(list, 1, Len(list)) \in Seq(Streams)
    <3> HIDE DEF list
    <3> QED BY <1>3, <2>1, SubSeqProperties
  <2> QED BY <2>1, <2>2
<1> HIDE DEF map, rest
<1>7. /\ qsm' \in MapType /\ qsm'.map = qsm.map /\ qsm'.active_list = qsm.active_list
      /\ qsm'.rr_cur = qsm.rr_cur /\ qsm'.conn_swm = qsm.conn_swm
      /\ qsm'.conn_cwm = qsm.conn_cwm /\ qsm'.num_shutdown_flush = qsm.num_shutdown_flush
  <2> HIDE DEF StreamType
  <2> QED BY <1>1, <1>2, <1>3, <1>5, <1>6 DEF MapType
<1>8. ASSUME NEW s \in Streams PROVE Due(qsm', s)
  <2>1. Credit(qsm') = Credit(qsm) /\ Credit(qsm) \in Int
    BY <1>2, <1>7 DEF Credit, MapType
  <2>2. Credit(qsm') <= Credit(qsm)
    BY <2>1
  <2>3. Due(qsm, s)
    BY <1>2 DEF MapOK, MapBut
  <2> QED BY <1>2, <1>7, <2>2, <2>3, DueKept
<1>9. MapOK(qsm')
  BY <1>2, <1>7, <1>8 DEF MapOK, MapBut, ListOK, FlushOK, Flushing
<1> QED BY <1>1, <1>7, <1>9 DEF IInv, Flushing

-----------------------------------------------------------------------------
(* The theorems.                                                           *)

LEMMA InitInv == Init => IInv
<1> SUFFICES ASSUME Init PROVE IInv
  OBVIOUS
<1>1. /\ qsm = [map |-> [s \in Streams |-> stream_alloc(s)], conn_swm |-> 0, conn_cwm |-> ConnCredit,
                active_list |-> <<>>, rr_cur |-> NoStream,
                ready_for_gc_list |-> <<>>, num_shutdown_flush |-> 0]
      /\ shutting_down = FALSE /\ pkts = {}
  BY DEF Init
<1>2. ASSUME NEW s \in Streams
      PROVE  LET q == stream_alloc(s)
             IN  /\ q \in StreamType /\ q.flags = {} /\ q.swm = 0 /\ q.cwm \in Nat
                 /\ q.sstream = sstream_new /\ q.send_state \in {"NONE", "READY"}
  <2>1. StreamCredit \in Nat /\ sstream_new \in BufferType
    BY StreamAssumption DEF BufferType, sstream_new
  <2> QED BY <2>1 DEF stream_alloc, StreamType, SendStates, RecvStates
<1>3. qsm \in MapType
  <2>1. [s \in Streams |-> stream_alloc(s)] \in [Streams -> StreamType] /\ ConnCredit \in Nat
    BY <1>2, StreamAssumption
  <2> HIDE DEF StreamType
  <2> QED BY <1>1, <2>1 DEF MapType
<1>4. \A s \in Streams : qsm.map[s] = stream_alloc(s)
  BY <1>1
<1>5. /\ sstream_new.head = 0 /\ sstream_new.new = {} /\ sstream_new.acked = {}
      /\ sstream_new.fin = {} /\ 0 .. 0 - 1 = {}
  BY DEF sstream_new
<1>6. ASSUME NEW s \in Streams PROVE StreamOK(qsm.map[s]) /\ Due(qsm, s)
  <2>1. /\ qsm.map[s].flags = {} /\ qsm.map[s].swm = 0 /\ qsm.map[s].cwm \in Nat
        /\ qsm.map[s].sstream = sstream_new /\ qsm.map[s].send_state \in {"NONE", "READY"}
    BY <1>2, <1>4
  <2>2. BytesOK(qsm.map[s])
    BY <1>5, <2>1 DEF BytesOK
  <2>3. StateOK(qsm.map[s])
    BY <1>5, <2>1 DEF StateOK, SizeFixed, has_final_size
  <2>4. ~Wants(qsm.map[s], Credit(qsm))
    BY <1>5, <2>1 DEF Wants, wants_control_frame, has_pending
  <2> QED BY <1>3, <2>2, <2>3, <2>4, ActiveIs DEF StreamOK, Due
<1>7. ListOK(qsm)
  BY <1>1 DEF ListOK
<1>8. Flushing(qsm) = {}
  BY <1>2, <1>4 DEF Flushing
<1>9. FlushOK(qsm)
  <2>1. qsm.num_shutdown_flush = 0
    BY <1>1
  <2> QED BY <1>8, <2>1, FS_EmptySet DEF FlushOK
<1>10. ASSUME NEW s \in Streams PROVE Flight(qsm.map[s], s, pkts)
  <2>1. InFlight(qsm.map[s]) = {}
    BY <1>2, <1>4, <1>5 DEF InFlight
  <2> QED BY <1>1, <2>1 DEF Flight
<1> QED BY <1>1, <1>3, <1>6, <1>7, <1>8, <1>9, <1>10 DEF IInv, MapOK, MapBut

LEMMA StepInv == IInv /\ [Next]_vars => IInv'
<1> SUFFICES ASSUME IInv, [Next]_vars PROVE IInv'
  OBVIOUS
<1>1. Mapped = Streams
  BY InvStream
<1>2. CASE AppNext
  <2>1. ASSUME NEW s \in Streams, NEW n \in 1 .. Size, NEW conclude \in BOOLEAN,
               Write(s, n, conclude)
        PROVE  IInv'
    BY <2>1, WriteStep
  <2>2. ASSUME NEW s \in Streams, Conclude(s) PROVE IInv'
    BY <2>2, ConcludeStep
  <2>3. ASSUME NEW s \in Streams, StreamReset(s) PROVE IInv'
    BY <2>3, ResetStep
  <2>4. ASSUME NEW s \in Streams, Free(s) PROVE IInv'
    BY <2>4, FreeStep
  <2>5. ASSUME NEW s \in Streams, NEW open \in BOOLEAN, NEW rest \in BOOLEAN, Read(s, open, rest)
        PROVE  IInv'
    BY <2>5, ReadStep
  <2>6. ASSUME NEW s \in Streams, ReadEnd(s) PROVE IInv'
    BY <2>6, ReadEndStep
  <2>7. CASE Shutdown
    BY <2>7, ShutdownStep
  <2>8. ASSUME NEW s \in Streams, WriteNone(s) PROVE IInv'
    BY <2>8, WriteNoneStep
  <2> QED BY <1>1, <1>2, <2>1, <2>2, <2>3, <2>4, <2>5, <2>6, <2>7, <2>8 DEF AppNext
<1>3. CASE PeerNext
  <2>1. ASSUME NEW s \in Streams, NEW fin \in BOOLEAN, NEW more \in BOOLEAN, NEW all \in BOOLEAN,
               RecvStream(s, fin, more, all)
        PROVE  IInv'
    BY <2>1, RecvStreamStep
  <2>2. ASSUME NEW s \in Streams, RecvResetStream(s) PROVE IInv'
    BY <2>2, RecvResetStep
  <2>3. ASSUME NEW s \in Streams, RecvStopSending(s) PROVE IInv'
    BY <2>3, RecvStopStep
  <2>4. ASSUME NEW s \in Streams, NEW c \in 1 .. Size, RecvMaxStreamData(s, c) PROVE IInv'
    <3>1. c \in Nat
      OBVIOUS
    <3> QED BY <2>4, <3>1, RecvCreditStep
  <2>5. ASSUME NEW c \in 1 .. Size * Cardinality(Senders), RecvMaxData(c) PROVE IInv'
    <3>1. c \in Nat
      OBVIOUS
    <3> QED BY <2>5, <3>1, RecvMaxDataStep
  <2> QED BY <1>1, <1>3, <2>1, <2>2, <2>3, <2>4, <2>5 DEF PeerNext
<1>4. CASE SendPacket
  BY <1>4, SendStep
<1>5. ASSUME NEW p \in pkts, Acked(p) \/ Lost(p) PROVE IInv'
  BY <1>5, AckedStep, LostStep
<1>6. CASE Gc
  BY <1>6, GcStep
<1>7. CASE UNCHANGED vars
  BY <1>7 DEF IInv, vars, MapOK, MapBut, Flushing
<1> QED BY <1>2, <1>3, <1>4, <1>5, <1>6, <1>7 DEF Next

\* The inductive invariant: whatever the application, the peer and the network
\* do, every stream's states, bytes and flags agree with each other, with the
\* packets in flight and with the list of active streams.
THEOREM StreamInvariant == Spec => []IInv
BY InitInv, StepInv, PTL DEF Spec

LEMMA InvTypes == IInv => TypeOK
<1> SUFFICES ASSUME IInv PROVE TypeOK
  OBVIOUS
<1>1. qsm \in MapType /\ MapOK(qsm) /\ Mapped = Streams /\ shutting_down \in BOOLEAN
  BY InvStream DEF IInv
<1>2. ASSUME NEW s \in Streams
      PROVE  LET q == qsm.map[s]
             IN  /\ q.send_state \in SendStates /\ q.recv_state \in RecvStates
                 /\ q.flags \subseteq Flags /\ {q.avail, q.missed} \subseteq BOOLEAN
                 /\ {q.swm, q.cwm, q.sstream.head} \subseteq Nat
                 /\ q.sstream.new \cup q.sstream.acked \subseteq 0 .. q.sstream.head - 1
                 /\ q.sstream.fin \subseteq {"have", "sent", "acked"}
  <2> DEFINE q == qsm.map[s]
  <2>1. q \in StreamType /\ StreamOK(q)
    BY InvStream
  <2> HIDE DEF q
  <2>2. q.sstream.new \cup q.sstream.acked \subseteq 0 .. q.sstream.head - 1
    BY <2>1 DEF StreamOK, BytesOK
  <2>3. /\ q.send_state \in SendStates /\ q.recv_state \in RecvStates
        /\ q.flags \subseteq Flags /\ {q.avail, q.missed} \subseteq BOOLEAN
        /\ q.swm \in Nat /\ q.cwm \in Nat /\ q.sstream.head \in Nat
        /\ q.sstream.fin \subseteq {"have", "sent", "acked"}
    BY <2>1 DEF StreamType, BufferType
  <2> QED BY <2>2, <2>3 DEF q
<1>3. /\ qsm.active_list \in Seq(Streams) /\ qsm.ready_for_gc_list \in Seq(Streams)
  BY <1>1 DEF MapType
<1>4. ToSet(qsm.active_list) \cup ToSet(qsm.ready_for_gc_list) \subseteq Mapped
  BY <1>1, <1>3 DEF ToSet
<1>5. qsm.rr_cur \in ToSet(qsm.active_list) \cup {NoStream}
  <2>1. CASE qsm.active_list = <<>>
    BY <1>1, <2>1 DEF MapOK, MapBut, ListOK
  <2>2. CASE qsm.active_list # <<>>
    BY <1>1, <1>3, <2>2 DEF MapOK, MapBut, ListOK, Contains, ToSet
  <2> QED BY <2>1, <2>2
<1>6. qsm.num_shutdown_flush \in Nat
  <2>1. IsFiniteSet(Flushing(qsm))
    BY StreamAssumption, FS_Subset DEF Flushing
  <2>2. Cardinality(Flushing(qsm)) \in Nat
    BY <2>1, FS_CardinalityType
  <2> QED BY <1>1, <2>2 DEF MapOK, MapBut, FlushOK
<1> QED BY <1>1, <1>2, <1>4, <1>5, <1>6 DEF TypeOK

\* The variables keep their types; in particular the lists hold streams that
\* exist, and the counter of streams to be flushed does not wrap below zero
\* (shutdown_flush_done).
THEOREM StreamTypes == Spec => []TypeOK
BY StreamInvariant, InvTypes, PTL

LEMMA InvDue == IInv => DueIsActive
BY InvStream DEF MapOK, MapBut, Due, DueIsActive

\* No call, frame, acknowledgement or loss leaves a stream with frames to send
\* off the active list, but for the FIN of a concluding write of no bytes: each of
\* the others calls ossl_quic_stream_map_update_state in time (MAX_DATA for all
\* streams), or gives the stream nothing to send.
THEOREM StreamsDue == Spec => []DueIsActive
BY StreamInvariant, InvDue, PTL

LEMMA InvBytes == IInv => BytesAccounted
<1> SUFFICES ASSUME IInv PROVE BytesAccounted
  OBVIOUS
<1>1. Mapped = Streams
  BY InvStream
<1> SUFFICES ASSUME NEW s \in Streams, has_send_buffer(qsm.map[s])
             PROVE  LET q == qsm.map[s]
                        carriers(b) == {p \in pkts : s \in DOMAIN p /\ b \in p[s].data}
                    IN  /\ q.swm <= q.cwm
                        /\ \A b \in 0 .. q.sstream.head - 1 :
                             Cardinality(carriers(b))
                               = IF b \in q.sstream.new \cup q.sstream.acked THEN 0 ELSE 1
                        /\ q.sstream.new \cap q.sstream.acked = {}
  BY <1>1 DEF BytesAccounted
<1> DEFINE q == qsm.map[s]
           carriers(b) == {p \in pkts : s \in DOMAIN p /\ b \in p[s].data}
<1>2. BytesOK(q) /\ q.sstream.head \in Nat
  BY InvStream DEF StreamOK, StreamType, BufferType
<1>3. /\ \A p \in pkts : \A b \in Nat : Carries(p, s, b) => b \in InFlight(q)
      /\ \A b \in InFlight(q) : \E p \in pkts : Carries(p, s, b)
      /\ \A p1, p2 \in pkts : \A b \in Nat : Carries(p1, s, b) /\ Carries(p2, s, b) => p1 = p2
  BY DEF IInv, Flight
<1> HIDE DEF q
<1>4. ASSUME NEW b \in 0 .. q.sstream.head - 1
      PROVE  Cardinality(carriers(b)) = IF b \in q.sstream.new \cup q.sstream.acked THEN 0 ELSE 1
  <2>1. b \in Nat /\ (b \in InFlight(q) <=> b \notin q.sstream.new \cup q.sstream.acked)
    BY <1>2 DEF InFlight
  <2>2. CASE b \in InFlight(q)
    <3>1. PICK p \in pkts : Carries(p, s, b)
      BY <1>3, <2>2
    <3>2. carriers(b) = {p}
      BY <1>3, <2>1, <3>1 DEF Carries
    <3>3. Cardinality({p}) = 1
      BY FS_Singleton
    <3> QED BY <2>1, <2>2, <3>2, <3>3
  <2>3. CASE b \notin InFlight(q)
    <3>1. carriers(b) = {}
      BY <1>3, <2>1, <2>3 DEF Carries
    <3> QED BY <2>1, <2>3, <3>1, FS_EmptySet
  <2> QED BY <2>2, <2>3
<1>5. q.swm <= q.cwm /\ q.sstream.new \cap q.sstream.acked = {}
  BY <1>2 DEF BytesOK, q
<1> QED BY <1>4, <1>5 DEF q

\* No byte is lost or sent twice: each one written is to be sent, in flight in
\* exactly one packet, or acknowledged, whatever is acknowledged or lost in which
\* order (quic_fifd.c), and none is sent past the peer's credit (quic_txp.c).
THEOREM StreamBytes == Spec => []BytesAccounted
BY StreamInvariant, InvBytes, PTL

LEMMA InvFinal == IInv => FinalSizeIsSent /\ DeletedEnds
<1> SUFFICES ASSUME IInv PROVE FinalSizeIsSent /\ DeletedEnds
  OBVIOUS
<1>1. Mapped = Streams /\ \A s \in Streams : StateOK(qsm.map[s])
  BY InvStream DEF StreamOK
<1>2. FinalSizeIsSent
  BY <1>1 DEF FinalSizeIsSent, StateOK, SizeFixed
<1>3. DeletedEnds
  BY <1>1 DEF DeletedEnds, StateOK, Has
<1> QED BY <1>2, <1>3

\* The final size that a FIN or a RESET_STREAM frame announces is what the peer
\* has counted: the end of all that was ever sent
\* (ossl_quic_stream_map_reset_stream_send_part, notify_all_data_sent).
THEOREM StreamFinalSize == Spec => []FinalSizeIsSent
BY StreamInvariant, InvFinal, PTL

\* ossl_quic_free leaves no stream without a handle whose send part would wait
\* for the application: it has been reset or has a final size.  (qsm_ready_for_gc
\* asserts more, see DeletedAsserted.)
THEOREM StreamDeleted == Spec => []DeletedEnds
BY StreamInvariant, InvFinal, PTL

=============================================================================
