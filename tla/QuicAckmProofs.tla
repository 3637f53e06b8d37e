--------------------------- MODULE QuicAckmProofs ---------------------------
(***************************************************************************)
(* Proofs about QuicAckm, for every threshold, delay, window and case.     *)
(*                                                                         *)
(* The inductive invariant has two halves.  The sending side: the books    *)
(* (every packet number sent is either in the history of its space or was  *)
(* told exactly one fate, and every count of what is in flight is the      *)
(* count of the histories), the times (nothing that the timer is computed  *)
(* from is infinite, and a space with packets to be acknowledged knows     *)
(* when it last sent one) and the timer itself.  The receiving side: a     *)
(* history remembers every number that was processed, above its watermark  *)
(* or below it, and owes an ACK no later than promised.                    *)
(*                                                                         *)
(* One fact ties the halves of a client's handshake together: it has       *)
(* Handshake packets, and a validated peer, only once the Initial space is *)
(* gone.  Without it the pseudo-loss, which leaves the timer alone, could  *)
(* leave one running for nothing.                                          *)
(***************************************************************************)
EXTENDS QuicAckm, SumTheorems

-----------------------------------------------------------------------------
(* Types, and the timer.                                                   *)

AckmType ==
  [tx : [Spaces -> SUBSET PacketType], largest_acked : [Spaces -> Nat \cup {NONE}],
   last_eliciting : [Spaces -> Nat], loss_time : [Spaces -> Nat], deadline : Nat,
   in_flight : Int, eliciting : [Spaces -> Int], pto_count : Nat,
   probe : [Spaces -> Nat], anti_deadlock : [Spaces -> Nat],
   confirmed : BOOLEAN, validated : BOOLEAN, discarded : [Spaces -> BOOLEAN]]

\* Congestion windows: none is below k_min_wnd.
Windows == {n \in Nat : n >= MinWnd}

\* The case is one of the cases, and the clock within it.
Clock == case \in Cases /\ now \in 1 .. case.time

\* b is a but for the timer.
Retimed(b, a) ==
  /\ b \in AckmType
  /\ b.tx = a.tx /\ b.largest_acked = a.largest_acked
  /\ b.last_eliciting = a.last_eliciting /\ b.loss_time = a.loss_time
  /\ b.in_flight = a.in_flight /\ b.eliciting = a.eliciting
  /\ b.pto_count = a.pto_count
  /\ b.probe = a.probe /\ b.anti_deadlock = a.anti_deadlock
  /\ b.confirmed = a.confirmed /\ b.validated = a.validated
  /\ b.discarded = a.discarded

\* What CasesAssumption says of the case.
LEMMA CaseType ==
  ASSUME Clock
  PROVE  /\ case.tx \in [Spaces -> Nat] /\ case.rx \in [Spaces -> SUBSET Nat]
         /\ case.time \in Nat \ {0} /\ case.is_server \in BOOLEAN /\ case.init_wnd \in Windows
         /\ now \in Nat \ {0} /\ now <= case.time
BY CasesAssumption, WindowAssumption DEF Clock, Windows

\* The back-off factors are positive.
LEMMA PowerOfTwo == ASSUME NEW k \in Nat PROVE 2^k \in Nat \ {0}
<1> DEFINE S == 1 .. k
<1>1. IsFiniteSet(S) /\ Cardinality(S) = k
  BY FS_Interval
<1>2. IsFiniteSet(SUBSET S) /\ Cardinality(SUBSET S) = 2^k
  BY <1>1, FS_SUBSET
<1>3. Cardinality(SUBSET S) \in Nat
  BY <1>2, FS_CardinalityType
<1>4. Cardinality(SUBSET S) # 0
  BY <1>2, FS_EmptySet
<1> QED
  BY <1>2, <1>3, <1>4

\* Factor is one of the powers NeverAssumption speaks of.
LEMMA FactorType ==
  ASSUME NEW a \in AckmType
  PROVE  \E e \in 0 .. 16 : Factor(a) = 2^e /\ 2^e \in Nat \ {0}
<1>1. a.pto_count \in Nat
  BY DEF AckmType
<1>2. PICK e \in 0 .. 16 : e = IF a.pto_count < 16 THEN a.pto_count ELSE 16
  BY <1>1
<1>3. Factor(a) = 2^e
  BY <1>2 DEF Factor
<1>4. e \in Nat
  BY <1>2
<1>5. 2^e \in Nat \ {0}
  BY <1>4, PowerOfTwo
<1> QED BY <1>3, <1>5

\* LossSpace is a space.
LEMMA LossSpaceIn == ASSUME NEW a PROVE LossSpace(a) \in Spaces
BY DEF LossSpace, Spaces

\* A probe timeout is a time.
LEMMA PtoTimeType ==
  ASSUME NEW a \in AckmType, NEW s \in Spaces
  PROVE  PtoTime(a, s) \in Nat /\ PtoTime(a, s) > 0
<1>1. PICK e \in 0 .. 16 : Factor(a) = 2^e /\ 2^e \in Nat \ {0}
  BY FactorType
<1>2. PICK f \in Nat \ {0} : f = Factor(a)
  BY <1>1
<1>3. a.last_eliciting[s] \in Nat
  BY DEF AckmType
<1>4. PtoDuration \in Nat \ {0} /\ rx_max_ack_delay \in Nat
  BY ConstantsAssumption
<1>5. PtoDuration * f \in Nat \ {0} /\ rx_max_ack_delay * f \in Nat
  BY <1>2, <1>4
<1> QED BY <1>2, <1>3, <1>5 DEF PtoTime

\* One of the spaces that have a timeout has the earliest.
LEMMA PtoSpaceIn ==
  ASSUME NEW a \in AckmType
  PROVE  /\ PtoSpace(a) \in Spaces
         /\ PtoSpaces(a) # {} => PtoSpace(a) \in PtoSpaces(a)
<1> DEFINE least(s) == \A u \in PtoSpaces(a) :
                         IF u < s THEN PtoTime(a, s) < PtoTime(a, u)
                         ELSE PtoTime(a, s) <= PtoTime(a, u)
<1>1. PICK x \in Nat, y \in Nat, z \in Nat :
        x = PtoTime(a, 0) /\ y = PtoTime(a, 1) /\ z = PtoTime(a, 2)
  BY PtoTimeType DEF Spaces, INITIAL, HANDSHAKE, APP
<1>2. PtoSpaces(a) \subseteq {0, 1, 2}
  BY DEF PtoSpaces, Spaces, INITIAL, HANDSHAKE, APP
<1>3. CASE PtoSpaces(a) # {}
  <2>1. \E s \in PtoSpaces(a) : least(s)
    BY <1>1, <1>2, <1>3
  <2>2. PtoSpace(a) \in PtoSpaces(a)
    BY <1>3, <2>1 DEF PtoSpace
  <2> QED BY <2>2 DEF PtoSpaces
<1>4. CASE PtoSpaces(a) = {}
  BY <1>4 DEF PtoSpace, Spaces
<1> QED BY <1>3, <1>4

\* Products of naturals.
LEMMA ProductType == ASSUME NEW m \in Nat, NEW n \in Nat PROVE m * n \in Nat
OBVIOUS

\* The timer is set to a time.
LEMMA DeadlineType ==
  ASSUME NEW a \in AckmType, Clock
  PROVE  Deadline(a) \in Nat
<1>1. a.loss_time[LossSpace(a)] \in Nat
  BY LossSpaceIn DEF AckmType
<1>2. PtoTime(a, PtoSpace(a)) \in Nat
  BY PtoTimeType, PtoSpaceIn
<1>3. now + PtoDuration * Factor(a) \in Nat
  <2>1. PICK e \in 0 .. 16 : Factor(a) = 2^e /\ 2^e \in Nat \ {0}
    BY FactorType
  <2>2. PICK f \in Nat \ {0} : f = Factor(a)
    BY <2>1
  <2>3. PICK p \in Nat : p = PtoDuration
    BY ConstantsAssumption
  <2>4. p * f \in Nat
    BY ProductType
  <2>5. PICK q \in Nat : q = PtoDuration * Factor(a)
    BY <2>2, <2>3, <2>4
  <2>6. now \in Nat
    BY CaseType
  <2> QED BY <2>5, <2>6
<1> HIDE DEF LossSpace, PtoTime, PtoSpace, Factor
<1> QED BY <1>1, <1>2, <1>3, NeverAssumption DEF Deadline

\* SetTimer changes the deadline and nothing else.
LEMMA SetTimerIs ==
  ASSUME NEW a \in AckmType, Clock
  PROVE  Retimed(SetTimer(a), a) /\ SetTimer(a).deadline = Deadline(a)
<1>1. PICK d \in Nat : d = Deadline(a)
  BY DeadlineType
<1>2. SetTimer(a) = [a EXCEPT !.deadline = d]
  BY <1>1 DEF SetTimer
<1> QED BY <1>1, <1>2 DEF Retimed, AckmType

-----------------------------------------------------------------------------
(* The packets of one space: tx is the history, t what was told of each    *)
(* packet number, n the next one, e the count of those that elicit an      *)
(* acknowledgement, and lim the number of packets that may be sent.        *)

Fates == {"acked", "lost", "discarded"}

SpaceOK(tx, t, n, e, lim) ==
  /\ tx \subseteq PacketType /\ IsFiniteSet(tx)
  /\ lim \in Nat /\ n \in 0 .. lim
  /\ t \in [0 .. lim - 1 -> SUBSET Fates]
  /\ \A p \in tx : p.pn < n
  /\ \A p, q \in tx : p.pn = q.pn => p = q
  /\ e = Cardinality(Eliciting(tx))
  /\ \A pn \in 0 .. lim - 1 :
       IF pn < n /\ \A p \in tx : p.pn # pn
       THEN \E w \in Fates : t[pn] = {w}
       ELSE t[pn] = {}

\* Tell for one space.
TellOne(t, pkts, what) ==
  [pn \in DOMAIN t |-> t[pn] \cup {what : p \in {q \in pkts : q.pn = pn}}]

\* The counts of a history when some of its packets go.
LEMMA Counts ==
  ASSUME NEW tx, IsFiniteSet(tx), NEW pkts, pkts \subseteq tx
  PROVE  /\ IsFiniteSet(pkts) /\ IsFiniteSet(tx \ pkts)
         /\ Cardinality(Eliciting(tx)) \in Nat /\ Cardinality(Eliciting(pkts)) \in Nat
         /\ Cardinality(InFlight(tx)) \in Nat /\ Cardinality(InFlight(pkts)) \in Nat
         /\ Cardinality(Eliciting(tx \ pkts)) = Cardinality(Eliciting(tx)) - Cardinality(Eliciting(pkts))
         /\ Cardinality(InFlight(tx \ pkts)) = Cardinality(InFlight(tx)) - Cardinality(InFlight(pkts))
<1>1. IsFiniteSet(pkts) /\ IsFiniteSet(tx \ pkts)
  BY FS_Subset
<1>2. /\ Eliciting(tx) \subseteq tx /\ Eliciting(pkts) \subseteq pkts
      /\ InFlight(tx) \subseteq tx /\ InFlight(pkts) \subseteq pkts
      /\ Eliciting(tx) \cap Eliciting(pkts) = Eliciting(pkts)
      /\ InFlight(tx) \cap InFlight(pkts) = InFlight(pkts)
      /\ Eliciting(tx \ pkts) = Eliciting(tx) \ Eliciting(pkts)
      /\ InFlight(tx \ pkts) = InFlight(tx) \ InFlight(pkts)
  BY DEF Eliciting, InFlight
<1>3. /\ IsFiniteSet(Eliciting(tx)) /\ IsFiniteSet(InFlight(tx))
      /\ IsFiniteSet(Eliciting(pkts)) /\ IsFiniteSet(InFlight(pkts))
  <2>1. IsFiniteSet(Eliciting(tx)) /\ IsFiniteSet(InFlight(tx))
    BY <1>2, FS_Subset
  <2>2. IsFiniteSet(Eliciting(pkts)) /\ IsFiniteSet(InFlight(pkts))
    BY <1>1, <1>2, FS_Subset
  <2> QED BY <2>1, <2>2
<1>4. /\ Cardinality(Eliciting(tx)) \in Nat /\ Cardinality(Eliciting(pkts)) \in Nat
      /\ Cardinality(InFlight(tx)) \in Nat /\ Cardinality(InFlight(pkts)) \in Nat
  BY <1>3, FS_CardinalityType
<1>5. Cardinality(Eliciting(tx) \ Eliciting(pkts)) = Cardinality(Eliciting(tx)) - Cardinality(Eliciting(pkts))
  <2>1. Cardinality(Eliciting(tx) \ Eliciting(pkts))
          = Cardinality(Eliciting(tx)) - Cardinality(Eliciting(tx) \cap Eliciting(pkts))
    BY <1>3, FS_Difference
  <2> QED BY <1>2, <2>1
<1>6. Cardinality(InFlight(tx) \ InFlight(pkts)) = Cardinality(InFlight(tx)) - Cardinality(InFlight(pkts))
  <2>1. Cardinality(InFlight(tx) \ InFlight(pkts))
          = Cardinality(InFlight(tx)) - Cardinality(InFlight(tx) \cap InFlight(pkts))
    BY <1>3, FS_Difference
  <2> QED BY <1>2, <2>1
<1> QED BY <1>1, <1>2, <1>4, <1>5, <1>6

\* The counts of a history when a packet is added.
LEMMA CountsAdd ==
  ASSUME NEW tx, IsFiniteSet(tx), NEW p, p \notin tx
  PROVE  /\ IsFiniteSet(tx \cup {p})
         /\ Cardinality(Eliciting(tx \cup {p})) = Cardinality(Eliciting(tx)) + (IF p.eliciting THEN 1 ELSE 0)
         /\ Cardinality(InFlight(tx \cup {p})) = Cardinality(InFlight(tx)) + (IF p.inflight THEN 1 ELSE 0)
<1>1. Eliciting(tx) \subseteq tx /\ InFlight(tx) \subseteq tx
  BY DEF Eliciting, InFlight
<1>2. IsFiniteSet(Eliciting(tx)) /\ IsFiniteSet(InFlight(tx))
  BY <1>1, FS_Subset
<1>3. Cardinality(Eliciting(tx)) \in Nat /\ Cardinality(InFlight(tx)) \in Nat
  BY <1>2, FS_CardinalityType
<1>4. Cardinality(Eliciting(tx \cup {p})) = Cardinality(Eliciting(tx)) + (IF p.eliciting THEN 1 ELSE 0)
  <2>1. CASE p.eliciting
    <3>1. Eliciting(tx \cup {p}) = Eliciting(tx) \cup {p} /\ p \notin Eliciting(tx)
      BY <1>1, <2>1 DEF Eliciting
    <3> QED BY <1>2, <1>3, <2>1, <3>1, FS_AddElement
  <2>2. CASE ~p.eliciting
    <3>1. Eliciting(tx \cup {p}) = Eliciting(tx)
      BY <2>2 DEF Eliciting
    <3> QED BY <1>3, <2>2, <3>1
  <2> QED BY <2>1, <2>2
<1>5. Cardinality(InFlight(tx \cup {p})) = Cardinality(InFlight(tx)) + (IF p.inflight THEN 1 ELSE 0)
  <2>1. CASE p.inflight
    <3>1. InFlight(tx \cup {p}) = InFlight(tx) \cup {p} /\ p \notin InFlight(tx)
      BY <1>1, <2>1 DEF InFlight
    <3> QED BY <1>2, <1>3, <2>1, <3>1, FS_AddElement
  <2>2. CASE ~p.inflight
    <3>1. InFlight(tx \cup {p}) = InFlight(tx)
      BY <2>2 DEF InFlight
    <3> QED BY <1>3, <2>2, <3>1
  <2> QED BY <2>1, <2>2
<1>6. IsFiniteSet(tx \cup {p})
  BY FS_AddElement
<1> QED BY <1>4, <1>5, <1>6

\* Packets that leave the history are told of once.
LEMMA SpaceRemove ==
  ASSUME NEW tx, NEW t, NEW n, NEW e, NEW lim, SpaceOK(tx, t, n, e, lim),
         NEW pkts, pkts \subseteq tx, NEW what \in Fates
  PROVE  SpaceOK(tx \ pkts, TellOne(t, pkts, what), n, e - Cardinality(Eliciting(pkts)), lim)
<1> DEFINE u == TellOne(t, pkts, what)
<1>1. /\ tx \ pkts \subseteq PacketType /\ IsFiniteSet(tx \ pkts)
      /\ e - Cardinality(Eliciting(pkts)) = Cardinality(Eliciting(tx \ pkts))
  BY Counts DEF SpaceOK
<1>2. DOMAIN t = 0 .. lim - 1 /\ \A pn \in 0 .. lim - 1 : t[pn] \subseteq Fates
  BY DEF SpaceOK
<1>3. \A pn \in 0 .. lim - 1 :
        u[pn] = t[pn] \cup (IF \E q \in pkts : q.pn = pn THEN {what} ELSE {})
  BY <1>2 DEF TellOne
<1>4. u \in [0 .. lim - 1 -> SUBSET Fates]
  <2>1. u = [pn \in 0 .. lim - 1 |-> u[pn]]
    BY <1>2 DEF TellOne
  <2>2. \A pn \in 0 .. lim - 1 : u[pn] \in SUBSET Fates
    BY <1>2, <1>3
  <2> HIDE DEF u
  <2> QED BY <2>1, <2>2
<1>5. ASSUME NEW pn \in 0 .. lim - 1
      PROVE  IF pn < n /\ \A p \in tx \ pkts : p.pn # pn
             THEN \E w \in Fates : u[pn] = {w}
             ELSE u[pn] = {}
  <2>1. CASE \E q \in pkts : q.pn = pn
    <3>1. PICK q \in pkts : q.pn = pn
      BY <2>1
    <3>2. pn < n /\ \A p \in tx \ pkts : p.pn # pn
      BY <3>1 DEF SpaceOK
    <3>3. t[pn] = {}
      BY <3>1, <3>2 DEF SpaceOK
    <3> HIDE DEF u
    <3> QED BY <1>3, <2>1, <3>2, <3>3
  <2>2. CASE ~ \E q \in pkts : q.pn = pn
    <3>1. u[pn] = t[pn]
      BY <1>3, <2>2
    <3>2. (\A p \in tx \ pkts : p.pn # pn) <=> (\A p \in tx : p.pn # pn)
      BY <2>2
    <3>3. IF pn < n /\ \A p \in tx : p.pn # pn
          THEN \E w \in Fates : t[pn] = {w} ELSE t[pn] = {}
      BY DEF SpaceOK
    <3> HIDE DEF u
    <3> QED BY <3>1, <3>2, <3>3
  <2> QED BY <2>1, <2>2
<1>6. /\ lim \in Nat /\ n \in 0 .. lim
      /\ \A p \in tx \ pkts : p.pn < n
      /\ \A p, q \in tx \ pkts : p.pn = q.pn => p = q
  BY DEF SpaceOK
<1> HIDE DEF u
<1>7. SpaceOK(tx \ pkts, u, n, e - Cardinality(Eliciting(pkts)), lim)
  BY <1>1, <1>4, <1>5, <1>6 DEF SpaceOK
<1> QED BY <1>7 DEF u

\* A packet that is sent has the next number, and nothing was told of it.
LEMMA SpaceAdd ==
  ASSUME NEW tx, NEW t, NEW n, NEW e, NEW lim, SpaceOK(tx, t, n, e, lim), n < lim,
         NEW p \in PacketType, p.pn = n
  PROVE  /\ p \notin tx
         /\ SpaceOK(tx \cup {p}, t, n + 1, e + (IF p.eliciting THEN 1 ELSE 0), lim)
<1>1. p \notin tx /\ n \in Nat /\ lim \in Nat
  BY DEF SpaceOK
<1>2. /\ tx \cup {p} \subseteq PacketType /\ IsFiniteSet(tx \cup {p})
      /\ e + (IF p.eliciting THEN 1 ELSE 0) = Cardinality(Eliciting(tx \cup {p}))
  BY <1>1, CountsAdd DEF SpaceOK
<1>3. \A q \in tx : q.pn \in Nat /\ q.pn < n
  BY DEF SpaceOK, PacketType
<1>4. \A pn \in 0 .. lim - 1 :
        IF pn < n + 1 /\ \A q \in tx \cup {p} : q.pn # pn
        THEN \E w \in Fates : t[pn] = {w}
        ELSE t[pn] = {}
  BY <1>1 DEF SpaceOK
<1>5. /\ \A q \in tx \cup {p} : q.pn < n + 1
      /\ \A q, r \in tx \cup {p} : q.pn = r.pn => q = r
  BY <1>1, <1>3 DEF SpaceOK
<1>6. n + 1 \in 0 .. lim /\ t \in [0 .. lim - 1 -> SUBSET Fates]
  BY <1>1 DEF SpaceOK
<1> QED BY <1>1, <1>2, <1>4, <1>5, <1>6 DEF SpaceOK

-----------------------------------------------------------------------------
(* The packets of all spaces.                                              *)

InFlightOf(a) ==
  Cardinality(InFlight(a.tx[INITIAL])) + Cardinality(InFlight(a.tx[HANDSHAKE]))
    + Cardinality(InFlight(a.tx[APP]))

Books(a, t, n, lim) ==
  /\ \A s \in Spaces : SpaceOK(a.tx[s], t[s], n[s], a.eliciting[s], lim[s])
  /\ t = [s \in Spaces |-> t[s]]
  /\ a.in_flight = InFlightOf(a)
  /\ \A s \in Spaces : a.discarded[s] => a.tx[s] = {}

\* b is a without the packets pkts of space s, as far as the books go.
Drops(b, a, s, pkts) ==
  /\ b \in AckmType
  /\ b.tx = [a.tx EXCEPT ![s] = @ \ pkts]
  /\ b.in_flight = a.in_flight - Cardinality(InFlight(pkts))
  /\ b.eliciting = [a.eliciting EXCEPT ![s] = @ - Cardinality(Eliciting(pkts))]
  /\ \A u \in Spaces : b.discarded[u] => a.discarded[u] \/ (u = s /\ pkts = a.tx[s])

\* No packet is new.
Fewer(b, a) == \A u \in Spaces : b.tx[u] \subseteq a.tx[u]

\* Dropping packets adds none.
LEMMA DropsFewer ==
  ASSUME NEW a \in AckmType, NEW b, NEW s \in Spaces, NEW pkts, Drops(b, a, s, pkts)
  PROVE  Fewer(b, a)
BY DEF Drops, AckmType, Fewer

SameBooks(b, a) ==
  /\ b \in AckmType
  /\ b.tx = a.tx /\ b.in_flight = a.in_flight /\ b.eliciting = a.eliciting
  /\ b.discarded = a.discarded

\* The books depend on the histories and their counts only.
LEMMA BooksSame ==
  ASSUME NEW a, NEW b, NEW t, NEW n, NEW lim, Books(a, t, n, lim), SameBooks(b, a)
  PROVE  Books(b, t, n, lim)
BY DEF Books, SameBooks, InFlightOf

\* Tell touches one space.
LEMMA TellIs ==
  ASSUME NEW t, t = [s \in Spaces |-> t[s]], NEW s \in Spaces, NEW pkts, NEW what
  PROVE  Tell(t, s, pkts, what)
           = [u \in Spaces |-> IF u = s THEN TellOne(t[u], pkts, what) ELSE t[u]]
BY DEF Tell, TellOne

\* What the books say of one space.
LEMMA BooksFinite ==
  ASSUME NEW a \in AckmType, NEW t, NEW n, NEW lim, Books(a, t, n, lim), NEW s \in Spaces
  PROVE  /\ IsFiniteSet(a.tx[s]) /\ a.tx[s] \subseteq PacketType
         /\ Cardinality(InFlight(a.tx[s])) \in Nat /\ Cardinality(Eliciting(a.tx[s])) \in Nat
         /\ a.eliciting[s] = Cardinality(Eliciting(a.tx[s]))
         /\ lim[s] \in Nat /\ n[s] \in 0 .. lim[s]
         /\ \A p \in a.tx[s] : p.pn \in Nat /\ p.pn < n[s]
<1>1. SpaceOK(a.tx[s], t[s], n[s], a.eliciting[s], lim[s])
  BY DEF Books
<1>2. IsFiniteSet(a.tx[s]) /\ a.tx[s] \subseteq PacketType
  BY <1>1 DEF SpaceOK
<1>3. Cardinality(InFlight(a.tx[s])) \in Nat /\ Cardinality(Eliciting(a.tx[s])) \in Nat
  BY <1>2, Counts
<1> QED BY <1>1, <1>2, <1>3 DEF SpaceOK, PacketType

\* Packets leave a history, and are told why: the books stay in order.
LEMMA BooksDrop ==
  ASSUME NEW a \in AckmType, NEW b, NEW t, NEW n, NEW lim, Books(a, t, n, lim),
         NEW s \in Spaces, NEW pkts, pkts \subseteq a.tx[s], NEW what \in Fates,
         Drops(b, a, s, pkts)
  PROVE  Books(b, Tell(t, s, pkts, what), n, lim)
<1> DEFINE v == Tell(t, s, pkts, what)
<1>1. v = [u \in Spaces |-> IF u = s THEN TellOne(t[u], pkts, what) ELSE t[u]]
  BY TellIs DEF Books
<1>2. a.tx \in [Spaces -> SUBSET PacketType] /\ a.eliciting \in [Spaces -> Int]
  BY DEF AckmType
<1>3. \A u \in Spaces : IF u = s THEN /\ b.tx[u] = a.tx[u] \ pkts
                                      /\ b.eliciting[u] = a.eliciting[u] - Cardinality(Eliciting(pkts))
                        ELSE b.tx[u] = a.tx[u] /\ b.eliciting[u] = a.eliciting[u]
  BY <1>2 DEF Drops
<1>4. ASSUME NEW u \in Spaces
      PROVE  SpaceOK(b.tx[u], v[u], n[u], b.eliciting[u], lim[u])
  <2>1. SpaceOK(a.tx[u], t[u], n[u], a.eliciting[u], lim[u])
    BY DEF Books
  <2>2. CASE u = s
    <3>1. v[u] = TellOne(t[u], pkts, what)
      BY <1>1, <2>2
    <3>2. b.tx[u] = a.tx[u] \ pkts /\ b.eliciting[u] = a.eliciting[u] - Cardinality(Eliciting(pkts))
      BY <1>3, <2>2
    <3>3. pkts \subseteq a.tx[u]
      BY <2>2
    <3>4. SpaceOK(a.tx[u] \ pkts, TellOne(t[u], pkts, what), n[u],
                  a.eliciting[u] - Cardinality(Eliciting(pkts)), lim[u])
      BY <2>1, <3>3, SpaceRemove
    <3> HIDE DEF v
    <3> QED BY <3>1, <3>2, <3>4
  <2>3. CASE u # s
    <3>1. v[u] = t[u]
      BY <1>1, <2>3
    <3>2. b.tx[u] = a.tx[u] /\ b.eliciting[u] = a.eliciting[u]
      BY <1>3, <2>3
    <3> HIDE DEF v
    <3> QED BY <2>1, <3>1, <3>2
  <2> QED BY <2>2, <2>3
<1>5. b.in_flight = InFlightOf(b)
  <2>1. \A u \in Spaces : Cardinality(InFlight(a.tx[u])) \in Nat
    BY BooksFinite
  <2>2. /\ Cardinality(InFlight(pkts)) \in Nat
        /\ Cardinality(InFlight(a.tx[s] \ pkts)) = Cardinality(InFlight(a.tx[s])) - Cardinality(InFlight(pkts))
    BY BooksFinite, Counts
  <2>3. PICK c \in [Spaces -> Nat] : \A u \in Spaces : c[u] = Cardinality(InFlight(a.tx[u]))
    <3>1. [u \in Spaces |-> Cardinality(InFlight(a.tx[u]))] \in [Spaces -> Nat]
      BY <2>1
    <3> QED BY <3>1
  <2>4. PICK d \in [Spaces -> Int] : \A u \in Spaces : d[u] = Cardinality(InFlight(b.tx[u]))
    <3>1. ASSUME NEW u \in Spaces PROVE Cardinality(InFlight(b.tx[u])) \in Int
      <4>1. CASE u = s
        <5>1. b.tx[u] = a.tx[s] \ pkts
          BY <1>3, <4>1
        <5>2. Cardinality(InFlight(a.tx[s])) \in Nat
          BY <2>1
        <5> QED BY <2>2, <5>1, <5>2
      <4>2. CASE u # s
        <5>1. b.tx[u] = a.tx[u]
          BY <1>3, <4>2
        <5> QED BY <2>1, <5>1
      <4> QED BY <4>1, <4>2
    <3>2. [u \in Spaces |-> Cardinality(InFlight(b.tx[u]))] \in [Spaces -> Int]
      BY <3>1
    <3> QED BY <3>2
  <2>5. PICK k \in Nat : k = Cardinality(InFlight(pkts))
    BY <2>2
  <2>6. \A u \in Spaces : d[u] = IF u = s THEN c[u] - k ELSE c[u]
    BY <1>3, <2>2, <2>3, <2>4, <2>5
  <2>7. a.in_flight = c[INITIAL] + c[HANDSHAKE] + c[APP]
    BY <2>3 DEF Books, InFlightOf, Spaces
  <2>8. InFlightOf(b) = d[INITIAL] + d[HANDSHAKE] + d[APP]
    BY <2>4 DEF InFlightOf, Spaces
  <2>9. b.in_flight = a.in_flight - k
    BY <2>5 DEF Drops
  <2> QED BY <2>6, <2>7, <2>8, <2>9 DEF Spaces, INITIAL, HANDSHAKE, APP
<1>6. \A u \in Spaces : b.discarded[u] => b.tx[u] = {}
  BY <1>3 DEF Drops, Books
<1>7. v = [u \in Spaces |-> v[u]]
  BY <1>1
<1> HIDE DEF v
<1>8. Books(b, v, n, lim)
  BY <1>4, <1>5, <1>6, <1>7 DEF Books
<1> QED BY <1>8 DEF v

\* b is a but for the packets and their counts.
Others(b, a) ==
  /\ b.largest_acked = a.largest_acked /\ b.last_eliciting = a.last_eliciting
  /\ b.loss_time = a.loss_time /\ b.deadline = a.deadline
  /\ b.pto_count = a.pto_count /\ b.probe = a.probe /\ b.anti_deadlock = a.anti_deadlock
  /\ b.confirmed = a.confirmed /\ b.validated = a.validated
  /\ b.discarded = a.discarded

\* Remove drops packets and leaves the rest alone.
LEMMA RemoveIs ==
  ASSUME NEW a \in AckmType, NEW s \in Spaces, NEW pkts,
         Cardinality(InFlight(pkts)) \in Nat, Cardinality(Eliciting(pkts)) \in Nat
  PROVE  Drops(Remove(a, s, pkts), a, s, pkts) /\ Others(Remove(a, s, pkts), a)
<1>1. PICK i \in Nat, e \in Nat : i = Cardinality(InFlight(pkts)) /\ e = Cardinality(Eliciting(pkts))
  OBVIOUS
<1>2. PICK x \in [Spaces -> SUBSET PacketType] : x = [a.tx EXCEPT ![s] = @ \ pkts]
  <2>1. a.tx \in [Spaces -> SUBSET PacketType]
    BY DEF AckmType
  <2> QED BY <2>1
<1>3. PICK y \in [Spaces -> Int] : y = [a.eliciting EXCEPT ![s] = @ - e]
  <2>1. a.eliciting \in [Spaces -> Int]
    BY DEF AckmType
  <2>2. PICK v \in Int : v = a.eliciting[s] - e
    BY <2>1
  <2>3. [a.eliciting EXCEPT ![s] = v] \in [Spaces -> Int]
    BY <2>1
  <2> QED BY <2>2, <2>3
<1>0. PICK f \in Int : f = a.in_flight - i
  <2>1. a.in_flight \in Int
    BY DEF AckmType
  <2> QED BY <2>1
<1>4. PICK b : b = [a EXCEPT !.tx = x, !.in_flight = f, !.eliciting = y]
  OBVIOUS
<1>5. /\ Remove(a, s, pkts) = b /\ b \in AckmType
      /\ b.tx = x /\ b.in_flight = f /\ b.eliciting = y
  <2>1. Remove(a, s, pkts) = b
    BY <1>0, <1>1, <1>2, <1>3, <1>4 DEF Remove, AckmType
  <2>2. b \in AckmType
    BY <1>4 DEF AckmType
  <2>3. b.tx = x /\ b.in_flight = f /\ b.eliciting = y
    BY <1>4 DEF AckmType
  <2> QED BY <2>1, <2>2, <2>3
<1>6. Others(b, a)
  BY <1>4 DEF AckmType, Others
<1>7. Drops(b, a, s, pkts)
  BY <1>0, <1>1, <1>2, <1>3, <1>5, <1>6 DEF Drops, Others
<1> QED BY <1>5, <1>6, <1>7

\* The timer is not in the books.
LEMMA RetimedBooks ==
  ASSUME NEW a, NEW b, Retimed(b, a)
  PROVE  SameBooks(b, a)
BY DEF SameBooks, Retimed

(***************************************************************************)
(* The times that are kept.                                                *)
(***************************************************************************)
TimeInv(a) ==
  \A s \in Spaces :
    /\ \A p \in a.tx[s] : p.time <= case.time
    /\ a.last_eliciting[s] <= case.time
    /\ a.eliciting[s] > 0 => a.last_eliciting[s] # 0
    /\ a.loss_time[s] < Never

\* TimerArmed of a.
Armed(a) ==
  /\ \A s \in Spaces :
       a.eliciting[s] > 0 /\ (s = APP => a.confirmed) => a.deadline \notin {0, Never}
  /\ /\ a.deadline # 0 /\ a.loss_time[LossSpace(a)] = 0
     /\ Total(a.eliciting) = 0
     => ~a.validated

\* No probe timeout is infinite.
LEMMA PtoTimeBound ==
  ASSUME NEW a \in AckmType, Clock, NEW s \in Spaces, a.last_eliciting[s] <= case.time
  PROVE  PtoTime(a, s) < Never
<1>1. PICK e \in 0 .. 16 : Factor(a) = 2^e /\ 2^e \in Nat \ {0}
  BY FactorType
<1>2. PICK f \in Nat \ {0} : f = 2^e
  BY <1>1
<1>3. a.last_eliciting[s] \in Nat
  BY DEF AckmType
<1>4. PtoDuration \in Nat \ {0} /\ rx_max_ack_delay \in Nat /\ Never \in Nat
  BY ConstantsAssumption, NeverAssumption
<1>5. case.time + (PtoDuration + rx_max_ack_delay) * f < Never
  BY <1>1, <1>2, NeverAssumption DEF Clock
<1>6. case.time \in Nat
  BY CaseType
<1>7. PICK x \in Nat, y \in Nat : x = PtoDuration * f /\ y = rx_max_ack_delay * f
  BY <1>2, <1>4
<1>8. (PtoDuration + rx_max_ack_delay) * f = x + y
  BY <1>2, <1>4, <1>7
<1>9. PtoTime(a, s) = a.last_eliciting[s] + x + (IF s = APP THEN y ELSE 0)
  BY <1>1, <1>2, <1>7 DEF PtoTime
<1> QED BY <1>3, <1>4, <1>5, <1>6, <1>7, <1>8, <1>9

\* Whoever sets the timer leaves it armed.
LEMMA TimerSet ==
  ASSUME NEW a \in AckmType, Clock, TimeInv(a), \A s \in Spaces : a.eliciting[s] \in Nat
  PROVE  Armed(SetTimer(a)) /\ TimeInv(SetTimer(a))
<1>1. PICK b : b = SetTimer(a)
  OBVIOUS
<1>2. Retimed(b, a) /\ b.deadline = Deadline(a)
  BY <1>1, SetTimerIs
<1>3. TimeInv(b)
  BY <1>2 DEF TimeInv, Retimed
<1>4. LossSpace(b) = LossSpace(a) /\ LossSpace(a) \in Spaces
  BY <1>2, LossSpaceIn DEF Retimed, LossSpace
<1>5. PICK l \in Nat : l = a.loss_time[LossSpace(a)]
  BY <1>4 DEF AckmType
<1>6. l < Never
  BY <1>4, <1>5 DEF TimeInv
<1>7. ASSUME NEW s \in Spaces, a.eliciting[s] > 0, s = APP => a.confirmed
      PROVE  Deadline(a) \notin {0, Never}
  <2>1. CASE l # 0
    <3>1. Deadline(a) = l
      BY <1>5, <2>1 DEF Deadline
    <3> QED BY <1>6, <2>1, <3>1, NeverAssumption
  <2>2. CASE l = 0
    <3>1. Total(a.eliciting) # 0
      <4>1. PICK x \in Nat, y \in Nat, z \in Nat :
              /\ x = a.eliciting[INITIAL] /\ y = a.eliciting[HANDSHAKE] /\ z = a.eliciting[APP]
        BY DEF Spaces
      <4>2. x > 0 \/ y > 0 \/ z > 0
        BY <1>7, <4>1 DEF Spaces
      <4>3. Total(a.eliciting) = x + y + z
        BY <4>1 DEF Total
      <4> QED BY <4>2, <4>3
    <3>2. s \in PtoSpaces(a)
      BY <1>7 DEF PtoSpaces, TimeInv
    <3>3. Deadline(a) = PtoTime(a, PtoSpace(a))
      BY <1>5, <2>2, <3>1, <3>2 DEF Deadline
    <3>4. PtoSpace(a) \in Spaces
      BY PtoSpaceIn
    <3>5. PtoTime(a, PtoSpace(a)) \in Nat /\ PtoTime(a, PtoSpace(a)) > 0
      BY <3>4, PtoTimeType
    <3>6. PtoTime(a, PtoSpace(a)) < Never
      BY <3>4, PtoTimeBound DEF TimeInv
    <3> HIDE DEF PtoTime, PtoSpace
    <3> QED BY <3>3, <3>5, <3>6, NeverAssumption
  <2> QED BY <2>1, <2>2
<1>8. ASSUME Deadline(a) # 0, l = 0, Total(a.eliciting) = 0
      PROVE  ~a.validated
  BY <1>5, <1>8 DEF Deadline
<1>9. Armed(b)
  <2>1. b.eliciting = a.eliciting /\ b.confirmed = a.confirmed /\ b.validated = a.validated
        /\ b.loss_time = a.loss_time
    BY <1>2 DEF Retimed
  <2>2. ASSUME NEW s \in Spaces, b.eliciting[s] > 0, s = APP => b.confirmed
        PROVE  b.deadline \notin {0, Never}
    BY <1>2, <1>7, <2>1, <2>2
  <2>3. ASSUME b.deadline # 0, b.loss_time[LossSpace(b)] = 0, Total(b.eliciting) = 0
        PROVE  ~b.validated
    BY <1>2, <1>4, <1>5, <1>8, <2>1, <2>3
  <2> QED BY <2>2, <2>3 DEF Armed
<1> QED BY <1>1, <1>3, <1>9

\* The times stay right when packets are dropped.
LEMMA TimeDrop ==
  ASSUME Clock, NEW a \in AckmType, NEW b \in AckmType, TimeInv(a),
         \A u \in Spaces : /\ b.tx[u] \subseteq a.tx[u]
                           /\ b.eliciting[u] <= a.eliciting[u]
                           /\ b.loss_time[u] < Never
                           /\ \/ b.last_eliciting[u] = a.last_eliciting[u]
                              \/ b.last_eliciting[u] = 0 /\ b.eliciting[u] = 0
  PROVE  TimeInv(b)
<1> SUFFICES ASSUME NEW u \in Spaces
             PROVE  /\ \A p \in b.tx[u] : p.time <= case.time
                    /\ b.last_eliciting[u] <= case.time
                    /\ b.eliciting[u] > 0 => b.last_eliciting[u] # 0
                    /\ b.loss_time[u] < Never
  BY DEF TimeInv
<1>1. a.eliciting[u] \in Int /\ b.eliciting[u] \in Int /\ a.last_eliciting[u] \in Nat
  BY DEF AckmType
<1>2. \A p \in b.tx[u] : p.time <= case.time
  BY DEF TimeInv
<1>3. a.last_eliciting[u] <= case.time
  BY DEF TimeInv
<1>4. a.eliciting[u] > 0 => a.last_eliciting[u] # 0
  BY DEF TimeInv
<1>5. CASE b.last_eliciting[u] = a.last_eliciting[u]
  BY <1>1, <1>2, <1>3, <1>4, <1>5
<1>6. CASE b.last_eliciting[u] = 0 /\ b.eliciting[u] = 0
  <2>1. 0 <= case.time
    BY CaseType
  <2> QED BY <1>2, <1>6, <2>1
<1> QED BY <1>5, <1>6

AckmInv(a, t, n, lim) ==
  a \in AckmType /\ Books(a, t, n, lim) /\ TimeInv(a) /\ Armed(a)

\* SetTimer establishes the invariant.
LEMMA TimerKeeps ==
  ASSUME Clock, NEW a \in AckmType, NEW t, NEW n, NEW lim, Books(a, t, n, lim), TimeInv(a)
  PROVE  AckmInv(SetTimer(a), t, n, lim)
<1>1. \A s \in Spaces : a.eliciting[s] \in Nat
  BY BooksFinite
<1>2. Armed(SetTimer(a)) /\ TimeInv(SetTimer(a))
  BY <1>1, TimerSet
<1>3. Retimed(SetTimer(a), a)
  BY SetTimerIs
<1>4. Books(SetTimer(a), t, n, lim)
  BY <1>3, RetimedBooks, BooksSame
<1> QED BY <1>2, <1>3, <1>4 DEF AckmInv, Retimed

\* What Discarded does.
DiscardedFields(d, a, s) ==
  /\ d.tx = [a.tx EXCEPT ![s] = {}]
  /\ d.in_flight = a.in_flight - Cardinality(InFlight(a.tx[s]))
  /\ d.discarded = [a.discarded EXCEPT ![s] = TRUE]
  /\ d.largest_acked = a.largest_acked
  /\ d.confirmed = a.confirmed
  /\ d.validated = (a.validated \/ s = HANDSHAKE)

\* A space that is discarded takes its packets along.
LEMMA DiscardedKeeps ==
  ASSUME Clock, NEW a \in AckmType, NEW t, NEW n, NEW lim, Books(a, t, n, lim), TimeInv(a),
         NEW s \in Spaces
  PROVE  /\ AckmInv(Discarded(a, s), Tell(t, s, a.tx[s], "discarded"), n, lim)
         /\ DiscardedFields(Discarded(a, s), a, s)
<1>1. /\ Cardinality(InFlight(a.tx[s])) \in Nat
      /\ Cardinality(Eliciting(a.tx[s])) \in Nat
      /\ a.eliciting[s] = Cardinality(Eliciting(a.tx[s]))
  BY BooksFinite
<1>2. PICK r : r = Remove(a, s, a.tx[s])
  OBVIOUS
<1>3. Drops(r, a, s, a.tx[s]) /\ Others(r, a) /\ r \in AckmType
  BY <1>1, <1>2, RemoveIs DEF Drops
<1>4. PICK le \in [Spaces -> Nat], lt \in [Spaces -> Nat], el \in [Spaces -> Int],
           di \in [Spaces -> BOOLEAN] :
        /\ le = [r.last_eliciting EXCEPT ![s] = 0] /\ lt = [r.loss_time EXCEPT ![s] = 0]
        /\ el = [r.eliciting EXCEPT ![s] = 0] /\ di = [r.discarded EXCEPT ![s] = TRUE]
  <2>1. [r.last_eliciting EXCEPT ![s] = 0] \in [Spaces -> Nat] /\ [r.loss_time EXCEPT ![s] = 0] \in [Spaces -> Nat]
    BY <1>3 DEF AckmType
  <2>2. [r.eliciting EXCEPT ![s] = 0] \in [Spaces -> Int]
    BY <1>3 DEF AckmType
  <2>3. [r.discarded EXCEPT ![s] = TRUE] \in [Spaces -> BOOLEAN]
    BY <1>3 DEF AckmType
  <2> QED BY <2>1, <2>2, <2>3
<1>5. PICK va \in BOOLEAN : va = (r.validated \/ s = HANDSHAKE)
  OBVIOUS
<1>6. PICK b : b = [r EXCEPT !.last_eliciting = le, !.loss_time = lt, !.pto_count = 0,
                            !.eliciting = el, !.discarded = di, !.validated = va]
  OBVIOUS
<1>7. Discarded(a, s) = SetTimer(b)
  <2>1. b = [r EXCEPT !.last_eliciting[s] = 0, !.loss_time[s] = 0, !.pto_count = 0,
                      !.eliciting[s] = 0, !.discarded[s] = TRUE, !.validated = @ \/ s = HANDSHAKE]
    BY <1>3, <1>4, <1>5, <1>6 DEF AckmType
  <2> QED BY <1>2, <2>1 DEF Discarded
<1>8. b \in AckmType
  BY <1>3, <1>4, <1>5, <1>6, ZenonT(60) DEF AckmType
<1>9. /\ b.tx = r.tx /\ b.in_flight = r.in_flight /\ b.eliciting = el
      /\ b.last_eliciting = le /\ b.loss_time = lt /\ b.discarded = di
      /\ b.largest_acked = r.largest_acked /\ b.confirmed = r.confirmed
  BY <1>3, <1>6 DEF AckmType
<1>10. b.validated = va
  BY <1>3, <1>6 DEF AckmType
<1>11. el = r.eliciting
  <2>1. a.eliciting \in [Spaces -> Int]
    BY DEF AckmType
  <2>2. r.eliciting = [a.eliciting EXCEPT ![s] = @ - Cardinality(Eliciting(a.tx[s]))]
    BY <1>3 DEF Drops
  <2>3. r.eliciting[s] = 0 /\ r.eliciting \in [Spaces -> Int]
    BY <1>1, <1>3, <2>1, <2>2 DEF AckmType
  <2> QED BY <1>4, <2>3
<1>12. Drops(b, a, s, a.tx[s])
  <2>1. \A u \in Spaces : b.discarded[u] => a.discarded[u] \/ u = s
    BY <1>3, <1>4, <1>9 DEF Others, AckmType
  <2> QED BY <1>3, <1>8, <1>9, <1>11, <2>1 DEF Drops
<1>13. Books(b, Tell(t, s, a.tx[s], "discarded"), n, lim)
  BY <1>12, BooksDrop DEF Fates
<1>14. TimeInv(b)
  <2>1. ASSUME NEW u \in Spaces
        PROVE  /\ b.tx[u] \subseteq a.tx[u]
               /\ b.eliciting[u] <= a.eliciting[u]
               /\ b.loss_time[u] < Never
               /\ \/ b.last_eliciting[u] = a.last_eliciting[u]
                  \/ b.last_eliciting[u] = 0 /\ b.eliciting[u] = 0
    <3>1. a.tx \in [Spaces -> SUBSET PacketType] /\ a.eliciting \in [Spaces -> Int]
          /\ a.last_eliciting \in [Spaces -> Nat] /\ a.loss_time \in [Spaces -> Nat]
      BY DEF AckmType
    <3>2. b.tx[u] \subseteq a.tx[u]
      BY <1>12, <3>1 DEF Drops
    <3>3. b.eliciting[u] <= a.eliciting[u]
      BY <1>1, <1>12, <3>1 DEF Drops
    <3>4. a.loss_time[u] < Never /\ a.loss_time[u] \in Nat /\ Never \in Nat
      BY <3>1, NeverAssumption DEF TimeInv
    <3>5. b.loss_time[u] = a.loss_time[u] \/ b.loss_time[u] = 0
      BY <1>3, <1>4, <1>9, <3>1 DEF Others
    <3>6. \/ b.last_eliciting[u] = a.last_eliciting[u]
          \/ b.last_eliciting[u] = 0 /\ b.eliciting[u] = 0
      BY <1>3, <1>4, <1>9, <3>1 DEF Others, AckmType
    <3> QED BY <3>2, <3>3, <3>4, <3>5, <3>6
  <2> QED BY <1>8, <2>1, TimeDrop
<1>15. AckmInv(SetTimer(b), Tell(t, s, a.tx[s], "discarded"), n, lim)
  BY <1>8, <1>13, <1>14, TimerKeeps
<1>16. DiscardedFields(SetTimer(b), a, s)
  <2>1. Retimed(SetTimer(b), b)
    BY <1>8, SetTimerIs
  <2>2. b.tx = [a.tx EXCEPT ![s] = {}]
    BY <1>12, ZenonT(60) DEF Drops, AckmType
  <2>3. b.in_flight = a.in_flight - Cardinality(InFlight(a.tx[s]))
    BY <1>12 DEF Drops
  <2>4. b.discarded = [a.discarded EXCEPT ![s] = TRUE] /\ b.largest_acked = a.largest_acked
        /\ b.confirmed = a.confirmed
    BY <1>3, <1>4, <1>9 DEF Others
  <2>5. b.validated = (a.validated \/ s = HANDSHAKE)
    BY <1>3, <1>5, <1>10 DEF Others
  <2> QED BY <2>1, <2>2, <2>3, <2>4, <2>5 DEF Retimed, DiscardedFields
<1> QED BY <1>7, <1>15, <1>16

\* Nothing is told of no packets.
LEMMA BooksTellNone ==
  ASSUME NEW a \in AckmType, NEW t, NEW n, NEW lim, Books(a, t, n, lim), NEW s \in Spaces,
         NEW what \in Fates
  PROVE  Books(a, Tell(t, s, {}, what), n, lim)
<1>1. InFlight({}) = {} /\ Eliciting({}) = {}
  BY DEF InFlight, Eliciting
<1>2. Cardinality({}) = 0
  BY FS_EmptySet
<1>3. a.tx = [a.tx EXCEPT ![s] = @ \ {}]
  BY DEF AckmType
<1>4. a.in_flight = a.in_flight - Cardinality(InFlight({}))
  <2>1. a.in_flight \in Int /\ Cardinality(InFlight({})) = 0
    BY <1>1, <1>2 DEF AckmType
  <2> QED BY <2>1
<1>5. a.eliciting = [a.eliciting EXCEPT ![s] = @ - Cardinality(Eliciting({}))]
  <2>1. a.eliciting \in [Spaces -> Int]
    BY DEF AckmType
  <2>2. a.eliciting[s] - 0 = a.eliciting[s]
    BY <2>1
  <2>3. Cardinality(Eliciting({})) = 0
    BY <1>1, <1>2
  <2> QED BY <2>1, <2>2, <2>3
<1>6. Drops(a, a, s, {})
  BY <1>3, <1>4, <1>5 DEF Drops
<1> QED BY <1>6, BooksDrop

\* The packets that go with the Initial space, if it goes.
Going(a, s, is_server) ==
  IF s = HANDSHAKE /\ case.is_server = is_server THEN a.tx[INITIAL] ELSE {}

WithoutFields(w, a, s, is_server) ==
  /\ w.in_flight = a.in_flight - Cardinality(InFlight(Going(a, s, is_server)))
  /\ Cardinality(InFlight(Going(a, s, is_server))) \in Nat
  /\ w.largest_acked = a.largest_acked
  /\ w.confirmed = a.confirmed /\ w.validated = a.validated
  /\ \A u \in Spaces : u # INITIAL => w.tx[u] = a.tx[u]
  /\ s = INITIAL => w = a
  /\ Fewer(w, a)
  /\ \A u \in Spaces : a.discarded[u] => w.discarded[u]
  /\ s = HANDSHAKE /\ case.is_server = is_server => w.discarded[INITIAL]

\* The Initial space is discarded at most once, and in order.
LEMMA WithoutInitialKeeps ==
  ASSUME Clock, NEW a, NEW t, NEW n, NEW lim, AckmInv(a, t, n, lim),
         NEW s \in Spaces, NEW is_server \in BOOLEAN
  PROVE  /\ AckmInv(WithoutInitial(a, s, is_server),
                    Tell(t, INITIAL, Going(a, s, is_server), "discarded"), n, lim)
         /\ WithoutFields(WithoutInitial(a, s, is_server), a, s, is_server)
<1> DEFINE O == Going(a, s, is_server)
           w == WithoutInitial(a, s, is_server)
<1>1. a \in AckmType /\ Books(a, t, n, lim) /\ TimeInv(a)
  BY DEF AckmInv
<1>2. INITIAL \in Spaces /\ "discarded" \in Fates /\ INITIAL # HANDSHAKE
  BY DEF Spaces, Fates, INITIAL, HANDSHAKE
<1>3. InFlight({}) = {} /\ Cardinality({}) = 0 /\ a.in_flight \in Int
  BY <1>1, FS_EmptySet DEF InFlight, AckmType
<1>4. CASE s = HANDSHAKE /\ case.is_server = is_server /\ ~a.discarded[INITIAL]
  <2>1. w = Discarded(a, INITIAL) /\ O = a.tx[INITIAL]
    BY <1>4 DEF WithoutInitial, Going
  <2>2. /\ AckmInv(Discarded(a, INITIAL), Tell(t, INITIAL, a.tx[INITIAL], "discarded"), n, lim)
        /\ DiscardedFields(Discarded(a, INITIAL), a, INITIAL)
    BY <1>1, <1>2, DiscardedKeeps
  <2> HIDE DEF w, O
  <2>3. AckmInv(w, Tell(t, INITIAL, O, "discarded"), n, lim)
    BY <2>1, <2>2
  <2>4. DiscardedFields(w, a, INITIAL)
    BY <2>1, <2>2
  <2>5. w.in_flight = a.in_flight - Cardinality(InFlight(O)) /\ Cardinality(InFlight(O)) \in Nat
    BY <1>1, <1>2, <2>1, <2>4, BooksFinite DEF DiscardedFields
  <2>6. /\ \A u \in Spaces : u # INITIAL => w.tx[u] = a.tx[u]
        /\ \A u \in Spaces : a.discarded[u] => w.discarded[u]
        /\ w.discarded[INITIAL]
    BY <1>1, <1>2, <2>4 DEF DiscardedFields, AckmType
  <2>7. w.largest_acked = a.largest_acked /\ w.confirmed = a.confirmed
    BY <2>4 DEF DiscardedFields
  <2>8. w.validated = a.validated
    <3>1. w.validated = (a.validated \/ INITIAL = HANDSHAKE)
      BY <2>4 DEF DiscardedFields
    <3>2. a.validated \in BOOLEAN
      BY <1>1 DEF AckmType
    <3> QED BY <1>2, <3>1, <3>2
  <2>9. s # INITIAL
    BY <1>2, <1>4
  <2>10. Fewer(w, a)
    BY <1>1, <1>2, <2>4 DEF DiscardedFields, AckmType, Fewer
  <2> QED BY <2>3, <2>5, <2>6, <2>7, <2>8, <2>9, <2>10 DEF WithoutFields, O, w
<1>5. CASE ~(s = HANDSHAKE /\ case.is_server = is_server /\ ~a.discarded[INITIAL])
  <2>1. w = a
    BY <1>5 DEF WithoutInitial
  <2>2. O = {}
    BY <1>1, <1>2, <1>5 DEF Going, Books
  <2>3. Books(a, Tell(t, INITIAL, {}, "discarded"), n, lim)
    BY <1>1, <1>2, BooksTellNone
  <2>4. s = HANDSHAKE /\ case.is_server = is_server => a.discarded[INITIAL]
    BY <1>5
  <2>5. a.in_flight = a.in_flight - Cardinality(InFlight(O)) /\ Cardinality(InFlight(O)) \in Nat
    BY <1>3, <2>2
  <2> HIDE DEF w, O
  <2>6. AckmInv(w, Tell(t, INITIAL, O, "discarded"), n, lim)
    BY <1>1, <2>1, <2>2, <2>3 DEF AckmInv
  <2>7. Fewer(a, a)
    BY DEF Fewer
  <2> QED BY <2>1, <2>4, <2>5, <2>6, <2>7 DEF WithoutFields, O, w
<1> QED BY <1>4, <1>5

-----------------------------------------------------------------------------
(* Sending.                                                                *)

Adds(b, a, s, p) ==
  /\ b \in AckmType
  /\ b.tx = [a.tx EXCEPT ![s] = @ \cup {p}]
  /\ b.in_flight = a.in_flight + (IF p.inflight THEN 1 ELSE 0)
  /\ b.eliciting = [a.eliciting EXCEPT ![s] = @ + (IF p.eliciting THEN 1 ELSE 0)]
  /\ b.discarded = a.discarded

\* A packet that is sent is entered into the books.
LEMMA BooksAdd ==
  ASSUME NEW a \in AckmType, NEW b, NEW t, NEW n \in [Spaces -> Nat], NEW lim, Books(a, t, n, lim),
         NEW s \in Spaces, NEW p \in PacketType, p.pn = n[s], n[s] < lim[s],
         ~a.discarded[s], Adds(b, a, s, p)
  PROVE  Books(b, t, [n EXCEPT ![s] = @ + 1], lim)
<1>1. PICK m : m = [n EXCEPT ![s] = @ + 1]
  OBVIOUS
<1>2. a.tx \in [Spaces -> SUBSET PacketType] /\ a.eliciting \in [Spaces -> Int]
  BY DEF AckmType
<1>3. \A u \in Spaces : IF u = s THEN /\ b.tx[u] = a.tx[u] \cup {p} /\ m[u] = n[u] + 1
                                      /\ b.eliciting[u] = a.eliciting[u] + (IF p.eliciting THEN 1 ELSE 0)
                        ELSE b.tx[u] = a.tx[u] /\ b.eliciting[u] = a.eliciting[u] /\ m[u] = n[u]
  BY <1>1, <1>2 DEF Adds
<1>4. /\ SpaceOK(a.tx[s], t[s], n[s], a.eliciting[s], lim[s])
      /\ p \notin a.tx[s]
      /\ SpaceOK(a.tx[s] \cup {p}, t[s], n[s] + 1, a.eliciting[s] + (IF p.eliciting THEN 1 ELSE 0), lim[s])
  <2>1. SpaceOK(a.tx[s], t[s], n[s], a.eliciting[s], lim[s])
    BY DEF Books
  <2> QED BY <2>1, SpaceAdd
<1>5. ASSUME NEW u \in Spaces
      PROVE  SpaceOK(b.tx[u], t[u], m[u], b.eliciting[u], lim[u])
  <2>1. CASE u = s
    <3>1. b.tx[u] = a.tx[s] \cup {p} /\ m[u] = n[s] + 1 /\ lim[u] = lim[s] /\ t[u] = t[s]
          /\ b.eliciting[u] = a.eliciting[s] + (IF p.eliciting THEN 1 ELSE 0)
      BY <1>3, <2>1
    <3> QED BY <1>4, <3>1
  <2>2. CASE u # s
    <3>1. b.tx[u] = a.tx[u] /\ b.eliciting[u] = a.eliciting[u] /\ m[u] = n[u]
      BY <1>3, <2>2
    <3> QED BY <3>1 DEF Books
  <2> QED BY <2>1, <2>2
<1>6. b.in_flight = InFlightOf(b)
  <2>1. \A u \in Spaces : Cardinality(InFlight(a.tx[u])) \in Nat /\ IsFiniteSet(a.tx[u])
    BY BooksFinite
  <2>2. Cardinality(InFlight(a.tx[s] \cup {p})) = Cardinality(InFlight(a.tx[s])) + (IF p.inflight THEN 1 ELSE 0)
    BY <1>4, <2>1, CountsAdd
  <2>3. PICK c \in [Spaces -> Nat] : \A u \in Spaces : c[u] = Cardinality(InFlight(a.tx[u]))
    <3>1. [u \in Spaces |-> Cardinality(InFlight(a.tx[u]))] \in [Spaces -> Nat]
      BY <2>1
    <3> QED BY <3>1
  <2>4. PICK k \in Nat : k = IF p.inflight THEN 1 ELSE 0
    OBVIOUS
  <2>5. \A u \in Spaces : Cardinality(InFlight(b.tx[u])) = IF u = s THEN c[u] + k ELSE c[u]
    <3> SUFFICES ASSUME NEW u \in Spaces
                 PROVE  Cardinality(InFlight(b.tx[u])) = IF u = s THEN c[u] + k ELSE c[u]
      OBVIOUS
    <3>1. CASE u = s
      <4>1. b.tx[u] = a.tx[s] \cup {p}
        BY <1>3, <3>1
      <4> QED BY <2>2, <2>3, <2>4, <3>1, <4>1
    <3>2. CASE u # s
      <4>1. b.tx[u] = a.tx[u]
        BY <1>3, <3>2
      <4> QED BY <2>3, <3>2, <4>1
    <3> QED BY <3>1, <3>2
  <2>6. a.in_flight = c[INITIAL] + c[HANDSHAKE] + c[APP]
    BY <2>3 DEF Books, InFlightOf, Spaces
  <2>7. b.in_flight = a.in_flight + k
    BY <2>4 DEF Adds
  <2> QED BY <2>5, <2>6, <2>7 DEF InFlightOf, Spaces, INITIAL, HANDSHAKE, APP
<1>7. \A u \in Spaces : b.discarded[u] => b.tx[u] = {}
  BY <1>3 DEF Adds, Books
<1>8. t = [u \in Spaces |-> t[u]]
  BY DEF Books
<1>9. Books(b, t, m, lim)
  BY <1>5, <1>6, <1>7, <1>8 DEF Books
<1> QED BY <1>1, <1>9

SentFields(b, a, s, p) ==
  /\ b.tx = [a.tx EXCEPT ![s] = @ \cup {p}]
  /\ b.in_flight = a.in_flight + (IF p.inflight THEN 1 ELSE 0)
  /\ b.discarded = a.discarded
  /\ b.confirmed = a.confirmed /\ b.validated = a.validated

\* ossl_ackm_on_tx_packet keeps the invariant.
LEMMA OnTxPacketKeeps ==
  ASSUME Clock, NEW a, NEW t, NEW n \in [Spaces -> Nat], NEW lim, AckmInv(a, t, n, lim),
         NEW s \in Spaces, NEW p \in PacketType, p.pn = n[s], n[s] < lim[s],
         p.time = now, p.eliciting => p.inflight, ~a.discarded[s]
  PROVE  /\ AckmInv(OnTxPacket(a, p, s), t, [n EXCEPT ![s] = @ + 1], lim)
         /\ SentFields(OnTxPacket(a, p, s), a, s, p)
<1>1. a \in AckmType /\ Books(a, t, n, lim) /\ TimeInv(a) /\ Armed(a)
  BY DEF AckmInv
<1>2. PICK m : m = [n EXCEPT ![s] = @ + 1]
  OBVIOUS
<1>3. PICK x \in [Spaces -> SUBSET PacketType] : x = [a.tx EXCEPT ![s] = @ \cup {p}]
  <2>1. a.tx \in [Spaces -> SUBSET PacketType]
    BY <1>1 DEF AckmType
  <2>2. a.tx[s] \cup {p} \in SUBSET PacketType
    BY <2>1
  <2>3. [a.tx EXCEPT ![s] = a.tx[s] \cup {p}] \in [Spaces -> SUBSET PacketType]
    BY <2>1, <2>2
  <2> QED BY <2>3
<1>4. PICK g \in Int : g = a.in_flight + 1
  BY <1>1 DEF AckmType
<1>5. PICK el \in [Spaces -> Int] : el = [a.eliciting EXCEPT ![s] = @ + 1]
  <2>1. a.eliciting \in [Spaces -> Int]
    BY <1>1 DEF AckmType
  <2>2. PICK v \in Int : v = a.eliciting[s] + 1
    BY <2>1
  <2>3. [a.eliciting EXCEPT ![s] = v] \in [Spaces -> Int]
    BY <2>1
  <2> QED BY <2>2, <2>3
<1>6. PICK le \in [Spaces -> Nat] : le = [a.last_eliciting EXCEPT ![s] = now]
  <2>1. a.last_eliciting \in [Spaces -> Nat] /\ now \in Nat
    BY <1>1, CaseType DEF AckmType
  <2>2. [a.last_eliciting EXCEPT ![s] = now] \in [Spaces -> Nat]
    BY <2>1
  <2> QED BY <2>2
<1>7. \A u \in Spaces : \A q \in x[u] : q.time <= case.time
  BY <1>1, <1>3, CaseType DEF TimeInv, AckmType
<1>8. PICK b : b = [a EXCEPT !.tx = x]
  OBVIOUS
<1>9. PICK f : f = [b EXCEPT !.in_flight = g]
  OBVIOUS
<1>10. PICK e : e = [f EXCEPT !.last_eliciting = le, !.eliciting = el]
  OBVIOUS
<1>11. b \in AckmType /\ b.tx = x /\ b.in_flight = a.in_flight /\ b.eliciting = a.eliciting /\ Others(b, a)
  <2>1. b \in AckmType
    BY <1>1, <1>8 DEF AckmType
  <2>2. b.tx = x /\ b.in_flight = a.in_flight /\ b.eliciting = a.eliciting
    BY <1>1, <1>8 DEF AckmType
  <2>3. Others(b, a)
    BY <1>1, <1>8 DEF AckmType, Others
  <2> QED BY <2>1, <2>2, <2>3
<1>12. f \in AckmType /\ f.tx = x /\ f.in_flight = g /\ f.eliciting = a.eliciting /\ Others(f, a)
  <2>1. f \in AckmType
    BY <1>9, <1>11 DEF AckmType
  <2>2. f.tx = x /\ f.in_flight = g /\ f.eliciting = a.eliciting
    BY <1>9, <1>11 DEF AckmType
  <2>3. Others(f, b)
    BY <1>9, <1>11 DEF AckmType, Others
  <2>4. Others(f, a)
    BY <1>11, <2>3 DEF Others
  <2> QED BY <2>1, <2>2, <2>4
<1>13. /\ e \in AckmType /\ e.tx = x /\ e.in_flight = g /\ e.eliciting = el /\ e.last_eliciting = le
       /\ e.loss_time = a.loss_time /\ e.discarded = a.discarded
       /\ e.confirmed = a.confirmed /\ e.validated = a.validated
  <2>1. e \in AckmType
    BY <1>10, <1>12 DEF AckmType
  <2>2. e.tx = x /\ e.in_flight = g /\ e.eliciting = el /\ e.last_eliciting = le
    BY <1>10, <1>12 DEF AckmType
  <2>3. e.loss_time = f.loss_time /\ e.discarded = f.discarded
        /\ e.confirmed = f.confirmed /\ e.validated = f.validated
    BY <1>10, <1>12 DEF AckmType
  <2> QED BY <1>12, <2>1, <2>2, <2>3 DEF Others
<1>14. /\ b = [a EXCEPT !.tx[s] = @ \cup {p}]
       /\ f = [b EXCEPT !.in_flight = @ + 1]
       /\ e = [f EXCEPT !.last_eliciting[s] = p.time, !.eliciting[s] = @ + 1]
  <2>1. b = [a EXCEPT !.tx[s] = @ \cup {p}]
    BY <1>1, <1>3, <1>8 DEF AckmType
  <2>2. f = [b EXCEPT !.in_flight = @ + 1]
    BY <1>4, <1>9, <1>11
  <2>3. e = [f EXCEPT !.last_eliciting[s] = p.time, !.eliciting[s] = @ + 1]
    BY <1>5, <1>6, <1>10, <1>12 DEF Others, AckmType
  <2> QED BY <2>1, <2>2, <2>3
<1>15. CASE ~p.inflight
  <2>1. OnTxPacket(a, p, s) = b
    BY <1>14, <1>15 DEF OnTxPacket
  <2>2. ~p.eliciting
    BY <1>15
  <2>3. b.eliciting = [a.eliciting EXCEPT ![s] = @ + (IF p.eliciting THEN 1 ELSE 0)]
    <3>1. a.eliciting \in [Spaces -> Int]
      BY <1>1 DEF AckmType
    <3>2. a.eliciting[s] + 0 = a.eliciting[s]
      BY <3>1
    <3> QED BY <1>11, <2>2, <3>1, <3>2
  <2>4. b.in_flight = a.in_flight + (IF p.inflight THEN 1 ELSE 0)
    <3>1. a.in_flight \in Int
      BY <1>1 DEF AckmType
    <3> QED BY <1>11, <1>15, <3>1
  <2>5. b.discarded = a.discarded /\ b.tx = [a.tx EXCEPT ![s] = @ \cup {p}]
    BY <1>3, <1>11 DEF Others
  <2>6. Adds(b, a, s, p)
    BY <1>11, <2>3, <2>4, <2>5 DEF Adds
  <2>7. Books(b, t, m, lim)
    BY <1>1, <1>2, <2>6, BooksAdd
  <2>8. TimeInv(b)
    BY <1>1, <1>7, <1>11 DEF TimeInv, Others
  <2>9. Armed(b)
    <3>1. LossSpace(b) = LossSpace(a)
      BY <1>11 DEF LossSpace, Others
    <3> QED BY <1>1, <1>11, <3>1 DEF Armed, Others
  <2>10. SentFields(b, a, s, p)
    BY <1>11, <2>4, <2>5 DEF SentFields, Others
  <2> QED BY <1>2, <1>11, <2>1, <2>7, <2>8, <2>9, <2>10 DEF AckmInv
<1>16. CASE p.inflight /\ ~p.eliciting
  <2>1. OnTxPacket(a, p, s) = SetTimer(f)
    BY <1>14, <1>16 DEF OnTxPacket
  <2>2. f.eliciting = [a.eliciting EXCEPT ![s] = @ + (IF p.eliciting THEN 1 ELSE 0)]
    <3>1. a.eliciting \in [Spaces -> Int]
      BY <1>1 DEF AckmType
    <3>2. a.eliciting[s] + 0 = a.eliciting[s]
      BY <3>1
    <3> QED BY <1>12, <1>16, <3>1, <3>2
  <2>3. f.in_flight = a.in_flight + (IF p.inflight THEN 1 ELSE 0)
    BY <1>4, <1>12, <1>16
  <2>4. f.discarded = a.discarded /\ f.tx = [a.tx EXCEPT ![s] = @ \cup {p}]
    BY <1>3, <1>12 DEF Others
  <2>5. Adds(f, a, s, p)
    BY <1>12, <2>2, <2>3, <2>4 DEF Adds
  <2>6. Books(f, t, m, lim)
    BY <1>1, <1>2, <2>5, BooksAdd
  <2>7. TimeInv(f)
    BY <1>1, <1>7, <1>12 DEF TimeInv, Others
  <2>8. AckmInv(SetTimer(f), t, m, lim)
    BY <1>12, <2>6, <2>7, TimerKeeps
  <2>9. Retimed(SetTimer(f), f)
    BY <1>12, SetTimerIs
  <2>10. SentFields(SetTimer(f), a, s, p)
    BY <1>12, <2>3, <2>4, <2>9 DEF SentFields, Others, Retimed
  <2> QED BY <1>2, <2>1, <2>8, <2>10
<1>17. CASE p.inflight /\ p.eliciting
  <2>1. e.eliciting = [a.eliciting EXCEPT ![s] = @ + (IF p.eliciting THEN 1 ELSE 0)]
    BY <1>5, <1>13, <1>17
  <2>2. e.in_flight = a.in_flight + (IF p.inflight THEN 1 ELSE 0)
    BY <1>4, <1>13, <1>17
  <2>3. e.tx = [a.tx EXCEPT ![s] = @ \cup {p}]
    BY <1>3, <1>13
  <2>4. Adds(e, a, s, p)
    BY <1>13, <2>1, <2>2, <2>3 DEF Adds
  <2>5. Books(e, t, m, lim)
    BY <1>1, <1>2, <2>4, BooksAdd
  <2>6. TimeInv(e)
    <3>1. \A u \in Spaces : /\ le[u] <= case.time
                            /\ el[u] > 0 => le[u] # 0
      BY <1>1, <1>5, <1>6, CaseType DEF TimeInv, AckmType
    <3> QED BY <1>1, <1>7, <1>13, <3>1 DEF TimeInv
  <2>7. PICK c : c = SetTimer(e)
    OBVIOUS
  <2>8. AckmInv(c, t, m, lim) /\ Retimed(c, e)
    BY <1>13, <2>5, <2>6, <2>7, TimerKeeps, SetTimerIs
  <2>9. c \in AckmType /\ c.probe[s] \in Nat /\ c.anti_deadlock[s] \in Nat
    BY <2>8 DEF AckmInv, AckmType
  <2> DEFINE less(y) == IF y > 0 THEN y - 1 ELSE 0
  <2>10. PICK i \in Nat, j \in Nat : i = less(c.probe[s]) /\ j = less(c.anti_deadlock[s])
    BY <2>9
  <2>11. PICK pr \in [Spaces -> Nat], ad \in [Spaces -> Nat] :
           pr = [c.probe EXCEPT ![s] = i] /\ ad = [c.anti_deadlock EXCEPT ![s] = j]
    <3>1. c.probe \in [Spaces -> Nat] /\ c.anti_deadlock \in [Spaces -> Nat]
      BY <2>9 DEF AckmType
    <3>2. [c.probe EXCEPT ![s] = i] \in [Spaces -> Nat] /\ [c.anti_deadlock EXCEPT ![s] = j] \in [Spaces -> Nat]
      BY <3>1
    <3> QED BY <3>2
  <2>12. PICK d : d = [c EXCEPT !.probe = pr, !.anti_deadlock = ad]
    OBVIOUS
  <2>13. OnTxPacket(a, p, s) = d
    <3>1. d = [c EXCEPT !.probe[s] = less(@), !.anti_deadlock[s] = less(@)]
      BY <2>9, <2>10, <2>11, <2>12 DEF AckmType
    <3> QED BY <1>14, <1>17, <2>7, <3>1 DEF OnTxPacket
  <2>14. /\ d \in AckmType /\ d.tx = c.tx /\ d.in_flight = c.in_flight /\ d.eliciting = c.eliciting
         /\ d.discarded = c.discarded /\ d.last_eliciting = c.last_eliciting
         /\ d.loss_time = c.loss_time /\ d.deadline = c.deadline
         /\ d.confirmed = c.confirmed /\ d.validated = c.validated
    <3>1. d \in AckmType
      BY <2>9, <2>11, <2>12 DEF AckmType
    <3> QED BY <2>9, <2>12, <3>1 DEF AckmType
  <2>15. AckmInv(d, t, m, lim)
    <3>1. Books(d, t, m, lim)
      BY <2>8, <2>14, BooksSame DEF AckmInv, SameBooks
    <3>2. TimeInv(d)
      BY <2>8, <2>14 DEF AckmInv, TimeInv
    <3>3. LossSpace(d) = LossSpace(c)
      BY <2>14 DEF LossSpace
    <3>4. Armed(d)
      BY <2>8, <2>14, <3>3 DEF AckmInv, Armed
    <3> QED BY <2>14, <3>1, <3>2, <3>4 DEF AckmInv
  <2>16. SentFields(d, a, s, p)
    BY <1>13, <2>2, <2>3, <2>8, <2>14 DEF SentFields, Retimed
  <2> QED BY <1>2, <2>13, <2>15, <2>16
<1>18. p.inflight \in BOOLEAN /\ p.eliciting \in BOOLEAN
  BY DEF PacketType
<1> QED BY <1>15, <1>16, <1>17, <1>18

-----------------------------------------------------------------------------
(* The congestion controller.                                              *)

CcType ==
  [in_flight : Int, cwnd : Windows, acked : Nat, ssthresh : Nat, recovery : Nat,
   last_loss : Nat]

\* The fields of the controller are numbers.
LEMMA CcFields ==
  ASSUME NEW c \in CcType
  PROVE  /\ c.in_flight \in Int /\ c.cwnd \in Int /\ c.acked \in Int
         /\ c.ssthresh \in Int /\ c.recovery \in Int /\ c.last_loss \in Int
<1>1. Windows \subseteq Nat
  BY DEF Windows
<1>2. c.cwnd \in Nat
  BY <1>1 DEF CcType
<1> QED BY <1>2 DEF CcType

\* Taking k bytes out of flight changes nothing else.
LEMMA FlightIs ==
  ASSUME NEW c \in CcType, NEW k \in Int
  PROVE  LET d == [c EXCEPT !.in_flight = @ - k]
         IN  /\ d \in CcType /\ d.in_flight = c.in_flight - k
             /\ d.cwnd = c.cwnd /\ d.recovery = c.recovery
             /\ d.acked = c.acked /\ d.ssthresh = c.ssthresh /\ d.last_loss = c.last_loss
<1>1. PICK i \in Int : i = c.in_flight - k
  BY CcFields
<1>2. PICK d : d = [c EXCEPT !.in_flight = i]
  OBVIOUS
<1>3. d = [c EXCEPT !.in_flight = @ - k]
  BY <1>1, <1>2
<1>4. /\ d \in CcType /\ d.in_flight = i
      /\ d.cwnd = c.cwnd /\ d.recovery = c.recovery
      /\ d.acked = c.acked /\ d.ssthresh = c.ssthresh /\ d.last_loss = c.last_loss
  BY <1>2 DEF CcType
<1> QED BY <1>1, <1>3, <1>4

\* An acknowledgement takes one packet off and never shrinks the window.
LEMMA OnAckedIs ==
  ASSUME NEW c0 \in CcType, NEW p
  PROVE  /\ OnAcked(c0, p) \in CcType
         /\ OnAcked(c0, p).in_flight = c0.in_flight - 1
         /\ OnAcked(c0, p).cwnd >= c0.cwnd
<1>1. PICK c : c = [c0 EXCEPT !.in_flight = @ - 1]
  OBVIOUS
<1>2. /\ c \in CcType /\ c.in_flight = c0.in_flight - 1 /\ c.cwnd = c0.cwnd /\ c.acked = c0.acked
  BY <1>1, FlightIs
<1>8. c.cwnd \in Windows /\ c.acked \in Nat /\ c.cwnd \in Int /\ c0.cwnd \in Int
  <2>1. c.cwnd \in Windows /\ c.acked \in Nat
    BY <1>2 DEF CcType
  <2> QED BY <1>2, <2>1, CcFields
<1>3. PICK w \in Windows, v \in Nat, u \in Nat :
         /\ w = c.cwnd + 1 /\ u = c.acked + 1
         /\ c.acked + 1 >= c.cwnd => v = c.acked + 1 - c.cwnd
  <2>1. c.cwnd + 1 \in Windows /\ c.acked + 1 \in Nat
    BY <1>8, ConstantsAssumption DEF Windows
  <2>2. CASE c.acked + 1 >= c.cwnd
    <3>1. c.acked + 1 - c.cwnd \in Nat
      BY <1>8, <2>2
    <3> QED BY <2>1, <3>1
  <2>3. CASE ~(c.acked + 1 >= c.cwnd)
    BY <2>1, <2>3
  <2> QED BY <2>2, <2>3
<1>4. PICK d1, d2, d3 : /\ d1 = [c EXCEPT !.cwnd = w]
                        /\ d2 = [c EXCEPT !.acked = v, !.cwnd = w]
                        /\ d3 = [c EXCEPT !.acked = u]
  OBVIOUS
<1>5. /\ d1 = [c EXCEPT !.cwnd = @ + 1]
      /\ c.acked + 1 >= c.cwnd => d2 = [c EXCEPT !.acked = @ + 1 - c.cwnd, !.cwnd = @ + 1]
      /\ d3 = [c EXCEPT !.acked = @ + 1]
  BY <1>3, <1>4
<1>6. OnAcked(c0, p) \in {c, d1, d2, d3}
  <2> HIDE DEF CongLimited
  <2> QED BY <1>1, <1>5 DEF OnAcked
<1>7. \A d \in {c, d1, d2, d3} : d \in CcType /\ d.in_flight = c.in_flight /\ d.cwnd \in {c.cwnd, w}
  BY <1>2, <1>3, <1>4 DEF CcType
<1>9. PICK d : d = OnAcked(c0, p) /\ d \in {c, d1, d2, d3}
  BY <1>6
<1>10. d \in CcType /\ d.in_flight = c.in_flight /\ d.cwnd \in {c.cwnd, w}
  BY <1>7, <1>9
<1> QED BY <1>2, <1>3, <1>8, <1>9, <1>10

\* One step of the recursion in AllAcked, and its solutions.
AckStep(c, pkts, top, g, n) ==
  LET before == IF n = top THEN c ELSE g[n + 1]
      here == {p \in pkts : p.pn = n}
  IN  IF here = {} THEN before
      ELSE OnAcked(before, CHOOSE p \in here : TRUE)
Downs(c, pkts, top, g) == g = [n \in 0 .. top |-> AckStep(c, pkts, top, g, n)]

\* The recursive function of AllAcked exists.
LEMMA DownsExist ==
  ASSUME NEW c, NEW pkts, NEW top \in Nat
  PROVE  \E g : Downs(c, pkts, top, g)
<1> DEFINE Upto(m) == {n \in 0 .. top : n >= top - m}
           Good(m) == \E g : g = [n \in Upto(m) |-> AckStep(c, pkts, top, g, n)]
           Bad == {m \in Nat : ~Good(m)}
<1>1. Good(0)
  <2> DEFINE g == [n \in Upto(0) |-> AckStep(c, pkts, top, <<>>, n)]
  <2>1. \A n \in Upto(0) : n = top
    OBVIOUS
  <2>2. \A n \in Upto(0) : AckStep(c, pkts, top, <<>>, n) = AckStep(c, pkts, top, g, n)
    <3> HIDE DEF g
    <3> QED BY <2>1 DEF AckStep
  <2>3. g = [n \in Upto(0) |-> AckStep(c, pkts, top, g, n)]
    BY <2>2
  <2> QED BY <2>3
<1>2. ASSUME NEW m \in Nat, Good(m) PROVE Good(m + 1)
  <2>1. PICK g : g = [n \in Upto(m) |-> AckStep(c, pkts, top, g, n)]
    BY <1>2
  <2> DEFINE h == [n \in Upto(m + 1) |-> AckStep(c, pkts, top, g, n)]
  <2>2. \A n \in Upto(m + 1) : n # top => n + 1 \in Upto(m)
    OBVIOUS
  <2>3. Upto(m) \subseteq Upto(m + 1)
    OBVIOUS
  <2>4. \A n \in Upto(m) : h[n] = g[n]
    BY <2>1, <2>3
  <2>5. \A n \in Upto(m + 1) : AckStep(c, pkts, top, g, n) = AckStep(c, pkts, top, h, n)
    <3> HIDE DEF h, Upto
    <3> QED BY <2>2, <2>4 DEF AckStep
  <2>6. h = [n \in Upto(m + 1) |-> AckStep(c, pkts, top, h, n)]
    BY <2>5
  <2> QED BY <2>6
<1>3. Upto(top) = 0 .. top
  OBVIOUS
<1> HIDE DEF Good
<1>4. Bad = {}
  <2> SUFFICES ASSUME Bad # {} PROVE FALSE
    OBVIOUS
  <2>1. PICK m \in Bad : \A n \in Bad : m <= n
    BY SmallestNumber
  <2>2. m # 0 /\ m - 1 \in Nat
    BY <1>1, <2>1
  <2>3. Good(m - 1)
    BY <2>1, <2>2
  <2>4. Good((m - 1) + 1)
    BY <1>2, <2>2, <2>3
  <2> QED BY <2>1, <2>2, <2>4
<1>5. PICK g : g = [n \in Upto(top) |-> AckStep(c, pkts, top, g, n)]
  BY <1>4 DEF Good
<1>6. g = [n \in 0 .. top |-> AckStep(c, pkts, top, g, n)]
  BY <1>3, <1>5
<1> QED BY <1>6 DEF Downs

\* AllAcked is the last value of that function.
LEMMA AllAckedDef ==
  ASSUME NEW c, NEW pkts, pkts # {}, Max({p.pn : p \in pkts}) \in Nat
  PROVE  \E g : Downs(c, pkts, Max({p.pn : p \in pkts}), g) /\ AllAcked(c, pkts) = g[0]
<1> DEFINE top == Max({p.pn : p \in pkts})
           down == CHOOSE g : Downs(c, pkts, top, g)
<1>1. Downs(c, pkts, top, down)
  <2>1. top \in Nat
    OBVIOUS
  <2> HIDE DEF top
  <2>2. \E g : Downs(c, pkts, top, g)
    BY <2>1, DownsExist
  <2> QED BY <2>2
<1>2. AllAcked(c, pkts) = down[0]
  BY Zenon DEF AllAcked, Downs, AckStep
<1> QED BY <1>1, <1>2

\* Acknowledgements take every packet off once and never shrink the window.
LEMMA AllAckedIs ==
  ASSUME NEW c \in CcType, NEW pkts, pkts \subseteq PacketType, IsFiniteSet(pkts),
         \A p, q \in pkts : p.pn = q.pn => p = q,
         NEW lim \in Nat, \A p \in pkts : p.pn < lim
  PROVE  /\ AllAcked(c, pkts) \in CcType
         /\ AllAcked(c, pkts).in_flight = c.in_flight - Cardinality(pkts)
         /\ AllAcked(c, pkts).cwnd >= c.cwnd
<1>1. CASE pkts = {}
  <2>1. AllAcked(c, pkts) = c
    BY <1>1 DEF AllAcked
  <2>2. Cardinality(pkts) = 0
    BY <1>1, FS_EmptySet
  <2> QED BY <2>1, <2>2, CcFields
<1>2. CASE pkts # {}
  <2>1. PICK top : top = Max({p.pn : p \in pkts})
    OBVIOUS
  <2>2. top \in Nat /\ \A p \in pkts : p.pn \in 0 .. top
    <3> DEFINE S == {p.pn : p \in pkts}
    <3>1. S \subseteq Nat /\ S # {} /\ \A n \in S : n <= lim
      BY <1>2 DEF PacketType
    <3>2. IsFiniteSet(S)
      BY <3>1, FS_BoundedSetOfNaturals
    <3>3. S \subseteq Int
      BY <3>1
    <3>4. top = Max(S)
      BY <2>1
    <3>5. \A p \in pkts : p.pn \in S
      OBVIOUS
    <3> HIDE DEF S
    <3>6. top \in S /\ \A n \in S : n <= top
      BY <3>1, <3>2, <3>3, <3>4, MaxIn
    <3>7. top \in Nat
      BY <3>1, <3>6
    <3>8. ASSUME NEW p \in pkts PROVE p.pn \in 0 .. top
      <4>1. p.pn \in Nat /\ p.pn <= top
        BY <3>1, <3>5, <3>6
      <4> QED BY <3>7, <4>1
    <3> QED BY <3>7, <3>8
  <2>3. PICK g : Downs(c, pkts, top, g) /\ AllAcked(c, pkts) = g[0]
    BY <1>2, <2>1, <2>2, AllAckedDef
  <2> DEFINE From(n) == {p \in pkts : p.pn >= n}
             Good(n) == /\ g[n] \in CcType
                        /\ g[n].in_flight = c.in_flight - Cardinality(From(n))
                        /\ g[n].cwnd >= c.cwnd
             Bad == {k \in 0 .. top : ~Good(top - k)}
  <2>4. \A n : IsFiniteSet(From(n)) /\ Cardinality(From(n)) \in Nat
    BY FS_Subset, FS_CardinalityType
  <2>5. ASSUME NEW n \in 0 .. top, NEW b \in CcType,
               b = IF n = top THEN c ELSE g[n + 1],
               b.in_flight = c.in_flight - Cardinality(From(n + 1)), b.cwnd >= c.cwnd
        PROVE  Good(n)
    <3>1. g[n] = AckStep(c, pkts, top, g, n)
      BY <2>3 DEF Downs
    <3>2. CASE {p \in pkts : p.pn = n} = {}
      <4>1. g[n] = b
        BY <2>5, <3>1, <3>2 DEF AckStep
      <4>2. From(n) = From(n + 1)
        BY <2>2, <3>2 DEF PacketType
      <4> HIDE DEF From
      <4> QED BY <2>5, <4>1, <4>2
    <3>3. CASE {p \in pkts : p.pn = n} # {}
      <4>1. PICK p : p = CHOOSE q \in {r \in pkts : r.pn = n} : TRUE
        OBVIOUS
      <4>2. p \in pkts /\ p.pn = n
        BY <3>3, <4>1
      <4>3. g[n] = OnAcked(b, p)
        BY <2>5, <3>1, <3>3, <4>1 DEF AckStep
      <4>4. From(n) = From(n + 1) \cup {p} /\ p \notin From(n + 1)
        BY <2>2, <4>2 DEF PacketType
      <4>5. Cardinality(From(n)) = Cardinality(From(n + 1)) + 1 /\ Cardinality(From(n + 1)) \in Nat
        <5> HIDE DEF From
        <5> QED BY <2>4, <4>4, FS_AddElement
      <4>6. OnAcked(b, p) \in CcType /\ OnAcked(b, p).in_flight = b.in_flight - 1 /\ OnAcked(b, p).cwnd >= b.cwnd
        BY OnAckedIs
      <4>7. c.in_flight \in Int /\ c.cwnd \in Int /\ b.cwnd \in Int /\ OnAcked(b, p).cwnd \in Int
        BY <4>6, CcFields
      <4> HIDE DEF From
      <4> QED BY <2>5, <4>3, <4>5, <4>6, <4>7
    <3> QED BY <3>2, <3>3
  <2>6. Good(top)
    <3>1. From(top + 1) = {}
      BY <2>2 DEF PacketType
    <3>2. Cardinality(From(top + 1)) = 0
      BY <3>1, FS_EmptySet
    <3>3. c.in_flight = c.in_flight - Cardinality(From(top + 1)) /\ c.cwnd >= c.cwnd
      BY <3>2, CcFields
    <3> HIDE DEF Good, From
    <3> QED BY <2>2, <2>5, <3>3
  <2>7. ASSUME NEW n \in 0 .. top, n # top, Good(n + 1) PROVE Good(n)
    <3>1. /\ g[n + 1] \in CcType /\ g[n + 1].cwnd >= c.cwnd
          /\ g[n + 1].in_flight = c.in_flight - Cardinality(From(n + 1))
      BY <2>7
    <3> HIDE DEF Good, From
    <3> QED BY <2>5, <2>7, <3>1
  <2> HIDE DEF Good
  <2>8. Bad = {}
    <3> SUFFICES ASSUME Bad # {} PROVE FALSE
      OBVIOUS
    <3>1. Bad \subseteq Nat
      BY <2>2
    <3>2. PICK k \in Bad : \A j \in Bad : k <= j
      BY <3>1, SmallestNumber
    <3>3. k \in 0 .. top /\ ~Good(top - k)
      BY <3>2
    <3>4. k # 0
      BY <2>2, <2>6, <3>3
    <3>5. k - 1 \in 0 .. top /\ k - 1 \notin Bad
      BY <2>2, <3>2, <3>3, <3>4
    <3>6. Good(top - (k - 1))
      BY <3>5
    <3>7. top - (k - 1) = (top - k) + 1 /\ top - k \in 0 .. top /\ top - k # top
      BY <2>2, <3>3, <3>4
    <3>8. Good((top - k) + 1)
      BY <3>6, <3>7
    <3>9. Good(top - k)
      BY <2>7, <3>7, <3>8
    <3> QED BY <3>3, <3>9
  <2>9. Good(0)
    <3>1. top \in 0 .. top /\ top - top = 0
      BY <2>2
    <3> QED BY <2>8, <3>1
  <2>10. From(0) = pkts
    BY <2>2 DEF PacketType
  <2> QED BY <2>3, <2>9, <2>10 DEF Good
<1> QED BY <1>1, <1>2

\* A loss shrinks the window only for a packet sent since the last time.
LEMMA AllLostIs ==
  ASSUME Clock, NEW c0 \in CcType, NEW pkts, pkts \subseteq PacketType, IsFiniteSet(pkts)
  PROVE  /\ AllLost(c0, pkts) \in CcType
         /\ AllLost(c0, pkts).in_flight = c0.in_flight - Cardinality(pkts)
         /\ AllLost(c0, pkts).cwnd < c0.cwnd => \E p \in pkts : p.time > c0.recovery
<1>1. PICK k \in Nat : k = Cardinality(pkts)
  BY FS_CardinalityType
<1>2. PICK c : c = [c0 EXCEPT !.in_flight = @ - k]
  OBVIOUS
<1>3. /\ c \in CcType /\ c.in_flight = c0.in_flight - k
      /\ c.cwnd = c0.cwnd /\ c.recovery = c0.recovery
  BY <1>2, FlightIs
<1>4. PICK fresh : fresh = {p.time : p \in pkts} \cap {t \in 1 .. now : t > c0.last_loss}
  OBVIOUS
<1>5. CASE fresh = {}
  <2>1. AllLost(c0, pkts) = c
    BY <1>1, <1>2, <1>4, <1>5 DEF AllLost
  <2> QED BY <1>1, <1>3, <2>1, CcFields
<1>6. CASE fresh # {}
  <2>1. Max(fresh) \in Nat /\ \E p \in pkts : p.time = Max(fresh)
    <3>1. now \in Nat
      BY CaseType
    <3>2. IsFiniteSet(1 .. now)
      BY <3>1, FS_Interval
    <3>3. fresh \in SUBSET (1 .. now)
      BY <1>4
    <3>0. fresh \subseteq Int
      BY <3>1, <3>3
    <3>4. IsFiniteSet(fresh) /\ fresh \subseteq Int
      BY <3>0, <3>2, <3>3, FS_Subset
    <3>5. Max(fresh) \in fresh
      BY <1>6, <3>4, MaxIn
    <3>6. Max(fresh) \in {p.time : p \in pkts}
      BY <1>4, <3>5
    <3>7. Max(fresh) \in Nat
      <4>1. \A x \in fresh : x \in Nat
        BY <3>1, <3>3
      <4> QED BY <3>5, <4>1
    <3> QED BY <3>6, <3>7
  <2>2. PICK m \in Nat : m = Max(fresh)
    BY <2>1
  <2>3. PICK d : d = [c EXCEPT !.acked = 0, !.last_loss = m]
    OBVIOUS
  <2>4. d \in CcType /\ d.in_flight = c.in_flight /\ d.cwnd = c.cwnd /\ d.recovery = c.recovery
    <3>1. c \in CcType
      BY <1>3
    <3>2. PICK z \in Nat : z = 0
      OBVIOUS
    <3>3. d = [c EXCEPT !.acked = z, !.last_loss = m]
      BY <2>3, <3>2
    <3>4. d \in CcType
      BY <3>1, <3>3 DEF CcType
    <3> QED BY <3>1, <3>3, <3>4 DEF CcType
  <2>5. AllLost(c0, pkts) = Cong(d, m)
    BY <1>1, <1>2, <1>4, <1>6, <2>2, <2>3 DEF AllLost
  <2>6. CASE m <= d.recovery
    <3>1. AllLost(c0, pkts) = d
      BY <2>5, <2>6 DEF Cong
    <3> QED BY <1>1, <1>3, <2>4, <3>1, CcFields
  <2>7. CASE ~(m <= d.recovery)
    <3>1. PICK h \in Nat : h = d.cwnd \div 2
      <4>1. d.cwnd \in Nat
        BY <2>4 DEF CcType, Windows
      <4>2. d.cwnd \div 2 \in Nat
        BY <4>1
      <4> QED BY <4>2
    <3>2. PICK x \in Windows : x = Max({h, MinWnd})
      <4>1. PICK w \in Nat : w = MinWnd
        BY ConstantsAssumption
      <4>2. h \in Int /\ w \in Int
        OBVIOUS
      <4>3. Max({h, w}) \in {h, w} /\ Max({h, w}) >= w
        BY ONLY <4>2, TwoMax
      <4>4. Max({h, MinWnd}) \in Nat /\ Max({h, MinWnd}) >= MinWnd
        BY <4>1, <4>3
      <4> QED BY <4>4 DEF Windows
    <3>3. PICK e : e = [d EXCEPT !.recovery = now, !.ssthresh = h, !.cwnd = x]
      OBVIOUS
    <3>4. AllLost(c0, pkts) = e
      BY <2>5, <2>7, <3>1, <3>2, <3>3 DEF Cong
    <3>5. e \in CcType /\ e.in_flight = d.in_flight
      <4>1. now \in Nat
        BY CaseType
      <4> QED BY <2>4, <3>3, <4>1 DEF CcType
    <3>6. m > c0.recovery
      BY <1>3, <2>2, <2>4, <2>7, CcFields
    <3> QED BY <1>1, <1>3, <2>1, <2>2, <2>4, <3>4, <3>5, <3>6
  <2> QED BY <2>6, <2>7
<1> QED BY <1>5, <1>6

\* Invalidated takes out of flight what was in flight.
LEMMA InvalidatedIs ==
  ASSUME NEW c \in CcType, NEW pkts, Cardinality(InFlight(pkts)) \in Nat
  PROVE  /\ Invalidated(c, pkts) \in CcType
         /\ Invalidated(c, pkts).in_flight = c.in_flight - Cardinality(InFlight(pkts))
         /\ Invalidated(c, pkts).cwnd = c.cwnd /\ Invalidated(c, pkts).recovery = c.recovery
<1>1. Cardinality(InFlight(pkts)) \in Int
  OBVIOUS
<1> QED BY <1>1, FlightIs DEF Invalidated

-----------------------------------------------------------------------------
(* Acknowledgements and losses.                                            *)

\* A loss time is a time, and finite.
LEMMA LossTimeIs ==
  ASSUME Clock, NEW pkts, pkts \subseteq PacketType, \A p \in pkts : p.time <= case.time,
         NEW largest, NEW delay \in LossDelays
  PROVE  LossTime(pkts, largest, delay) \in Nat /\ LossTime(pkts, largest, delay) < Never
<1> DEFINE due == {p.time + delay : p \in {q \in pkts : q.pn <= largest}}
<1>1. delay \in Nat /\ Never \in Nat /\ case.time \in Nat /\ case.time + delay < Never
  BY ConstantsAssumption, NeverAssumption, CaseType DEF Clock
<1>2. \A p \in pkts : p.time \in Nat
  BY DEF PacketType
<1>3. due \subseteq Nat /\ \A d \in due : d < Never
  BY <1>1, <1>2
<1>4. LossTime(pkts, largest, delay) = IF due = {} THEN 0 ELSE Min(due)
  BY DEF LossTime
<1>5. due # {} => Min(due) \in due
  <2> HIDE DEF due
  <2> QED BY <1>3, MinIn
<1> HIDE DEF due
<1>6. CASE due = {}
  BY <1>1, <1>4, <1>6
<1>7. CASE due # {}
  BY <1>3, <1>4, <1>5, <1>7
<1> QED BY <1>6, <1>7

AckSeenFields(b, a, s) ==
  /\ SameBooks(b, a)
  /\ b.last_eliciting = a.last_eliciting /\ b.loss_time = a.loss_time
  /\ b.deadline = a.deadline /\ b.confirmed = a.confirmed
  /\ b.pto_count = a.pto_count
  /\ b.validated = (a.validated \/ s = HANDSHAKE)

\* AckSeen is not in the books.
LEMMA AckSeenIs ==
  ASSUME NEW a \in AckmType, NEW s \in Spaces, NEW n \in Nat, NEW pns, pns \subseteq 0 .. n - 1
  PROVE  AckSeenFields(AckSeen(a, s, pns), a, s)
<1>1. a.largest_acked[s] \in Nat \cup {NONE} /\ a.largest_acked \in [Spaces -> Nat \cup {NONE}]
  BY DEF AckmType
<1>2. PICK l : l = a.largest_acked[s]
  OBVIOUS
<1>3. Max(pns \cup {l}) \in Nat \cup {NONE}
  <2>1. IsFiniteSet(0 .. n - 1) /\ pns \in SUBSET (0 .. n - 1)
    BY FS_Interval
  <2>2. IsFiniteSet(pns)
    BY <2>1, FS_Subset
  <2>3. IsFiniteSet(pns \cup {l})
    BY <2>2, FS_AddElement
  <2>4. pns \cup {l} \subseteq Nat \cup {NONE} /\ pns \cup {l} # {}
    <3>1. pns \subseteq Nat
      OBVIOUS
    <3>2. l \in Nat \cup {NONE}
      BY <1>1, <1>2
    <3> QED BY <3>1, <3>2
  <2>5. pns \cup {l} \subseteq Int
    BY <2>4 DEF NONE
  <2>6. Max(pns \cup {l}) \in pns \cup {l}
    BY <2>3, <2>4, <2>5, MaxIn
  <2> QED BY <2>4, <2>6
<1>4. PICK la \in [Spaces -> Nat \cup {NONE}] : la = [a.largest_acked EXCEPT ![s] = Max(pns \cup {l})]
  <2>1. PICK x \in Nat \cup {NONE} : x = Max(pns \cup {l})
    BY <1>3
  <2>2. [a.largest_acked EXCEPT ![s] = x] \in [Spaces -> Nat \cup {NONE}]
    BY <1>1
  <2> QED BY <2>1, <2>2
<1>5. PICK va \in BOOLEAN : va = (a.validated \/ s = HANDSHAKE)
  OBVIOUS
<1>6. PICK b : b = [a EXCEPT !.largest_acked = la, !.validated = va]
  OBVIOUS
<1>7. AckSeen(a, s, pns) = b
  BY <1>2, <1>4, <1>5, <1>6 DEF AckSeen, AckmType
<1>8. b \in AckmType
  BY <1>4, <1>5, <1>6 DEF AckmType
<1>9. /\ b.tx = a.tx /\ b.in_flight = a.in_flight /\ b.eliciting = a.eliciting
      /\ b.discarded = a.discarded
      /\ b.last_eliciting = a.last_eliciting /\ b.loss_time = a.loss_time
      /\ b.deadline = a.deadline /\ b.confirmed = a.confirmed
      /\ b.pto_count = a.pto_count
  BY <1>6 DEF AckmType
<1>10. b.validated = va
  BY <1>6 DEF AckmType
<1> QED BY <1>5, <1>7, <1>8, <1>9, <1>10 DEF AckSeenFields, SameBooks

\* What is left alone when packets are acknowledged or lost.
FateFields(b, a) ==
  b.confirmed = a.confirmed /\ b.validated = a.validated /\ b.discarded = a.discarded

\* Removing keeps the times.
LEMMA RemoveTimes ==
  ASSUME Clock, NEW a \in AckmType, NEW r \in AckmType, TimeInv(a), NEW s \in Spaces, NEW pkts,
         Cardinality(Eliciting(pkts)) \in Nat, Drops(r, a, s, pkts),
         r.last_eliciting = a.last_eliciting, \A u \in Spaces : r.loss_time[u] < Never
  PROVE  TimeInv(r)
<1>1. a.tx \in [Spaces -> SUBSET PacketType] /\ a.eliciting \in [Spaces -> Int]
  BY DEF AckmType
<1>2. \A u \in Spaces : r.tx[u] \subseteq a.tx[u]
  BY <1>1 DEF Drops
<1>3. \A u \in Spaces : r.eliciting[u] <= a.eliciting[u]
  BY <1>1 DEF Drops
<1> QED BY <1>2, <1>3, TimeDrop

\* The loss time of a space is set for what is left of its packets.
LEMMA SetLossTime ==
  ASSUME Clock, NEW r \in AckmType, NEW s \in Spaces, TimeInv(r), NEW x \in Nat, x < Never,
         NEW k \in Nat
  PROVE  LET b == [r EXCEPT !.loss_time[s] = x, !.pto_count = k]
         IN  SameBooks(b, r) /\ TimeInv(b) /\ FateFields(b, r)
<1>1. PICK lt \in [Spaces -> Nat] : lt = [r.loss_time EXCEPT ![s] = x]
  <2>1. r.loss_time \in [Spaces -> Nat]
    BY DEF AckmType
  <2>2. [r.loss_time EXCEPT ![s] = x] \in [Spaces -> Nat]
    BY <2>1
  <2> QED BY <2>2
<1>2. PICK b : b = [r EXCEPT !.loss_time = lt, !.pto_count = k]
  OBVIOUS
<1>3. b = [r EXCEPT !.loss_time[s] = x, !.pto_count = k]
  BY <1>1, <1>2 DEF AckmType
<1>4. b \in AckmType
  BY <1>2 DEF AckmType
<1>5. /\ b.tx = r.tx /\ b.in_flight = r.in_flight /\ b.eliciting = r.eliciting
      /\ b.discarded = r.discarded
      /\ b.last_eliciting = r.last_eliciting /\ b.loss_time = lt
      /\ b.confirmed = r.confirmed /\ b.validated = r.validated
  BY <1>2 DEF AckmType
<1>6. \A u \in Spaces : lt[u] < Never
  BY <1>1 DEF TimeInv, AckmType
<1>7. TimeInv(b)
  BY <1>5, <1>6 DEF TimeInv
<1> QED BY <1>3, <1>4, <1>5, <1>7 DEF SameBooks, FateFields

\* The counts of a part of a history.
LEMMA PartCounts ==
  ASSUME NEW a \in AckmType, NEW t, NEW n, NEW lim, Books(a, t, n, lim), NEW s \in Spaces,
         NEW pkts, pkts \subseteq a.tx[s]
  PROVE  /\ IsFiniteSet(pkts) /\ pkts \subseteq PacketType
         /\ Cardinality(InFlight(pkts)) \in Nat /\ Cardinality(Eliciting(pkts)) \in Nat
<1>1. IsFiniteSet(a.tx[s]) /\ a.tx[s] \subseteq PacketType
  BY BooksFinite
<1> QED BY <1>1, Counts

\* Remove with the telling that goes with it.
LEMMA RemoveKeeps ==
  ASSUME Clock, NEW a \in AckmType, NEW t, NEW n, NEW lim, Books(a, t, n, lim), TimeInv(a),
         NEW s \in Spaces, NEW pkts, pkts \subseteq a.tx[s], NEW what \in Fates
  PROVE  LET r == Remove(a, s, pkts)
         IN  /\ r \in AckmType /\ Books(r, Tell(t, s, pkts, what), n, lim) /\ TimeInv(r)
             /\ Drops(r, a, s, pkts) /\ Others(r, a)
<1>1. Cardinality(InFlight(pkts)) \in Nat /\ Cardinality(Eliciting(pkts)) \in Nat
  BY PartCounts
<1>2. PICK r : r = Remove(a, s, pkts)
  OBVIOUS
<1>3. Drops(r, a, s, pkts) /\ Others(r, a)
  BY <1>1, <1>2, RemoveIs
<1>4. r \in AckmType
  BY <1>3 DEF Drops
<1>5. Books(r, Tell(t, s, pkts, what), n, lim)
  BY <1>3, BooksDrop
<1>6. r.last_eliciting = a.last_eliciting /\ \A u \in Spaces : r.loss_time[u] < Never
  BY <1>3 DEF Others, TimeInv
<1>7. TimeInv(r)
  BY <1>1, <1>3, <1>4, <1>6, RemoveTimes
<1> QED BY <1>2, <1>3, <1>4, <1>5, <1>7

\* The loss timer took the packets lost.
TimedOut(a, s, lost, delay) ==
  SetTimer([Remove(a, s, lost) EXCEPT !.loss_time[s] =
              LossTime(a.tx[s] \ lost, a.largest_acked[s], delay)])

\* The loss timer keeps the invariant.
LEMMA TimeoutKeeps ==
  ASSUME Clock, NEW a \in AckmType, NEW t, NEW n, NEW lim, Books(a, t, n, lim), TimeInv(a),
         NEW s \in Spaces, NEW lost, lost \subseteq a.tx[s], NEW delay \in LossDelays,
         NEW b, b = TimedOut(a, s, lost, delay)
  PROVE  /\ AckmInv(b, Tell(t, s, lost, "lost"), n, lim)
         /\ b.in_flight = a.in_flight - Cardinality(InFlight(lost))
         /\ FateFields(b, a) /\ Fewer(b, a)
<1>1. PICK r : r = Remove(a, s, lost)
  OBVIOUS
<1>2. /\ r \in AckmType /\ Books(r, Tell(t, s, lost, "lost"), n, lim) /\ TimeInv(r)
      /\ Drops(r, a, s, lost) /\ Others(r, a)
  BY <1>1, RemoveKeeps DEF Fates
<1>3. PICK x \in Nat : x = LossTime(a.tx[s] \ lost, a.largest_acked[s], delay) /\ x < Never
  <2>1. a.tx[s] \ lost \subseteq PacketType /\ \A p \in a.tx[s] \ lost : p.time <= case.time
    BY DEF AckmType, TimeInv
  <2> QED BY <2>1, LossTimeIs
<1>4. PICK k \in Nat : k = r.pto_count
  BY <1>2 DEF AckmType
<1>5. PICK c : c = [r EXCEPT !.loss_time[s] = x, !.pto_count = k]
  OBVIOUS
<1>6. SameBooks(c, r) /\ TimeInv(c) /\ FateFields(c, r)
  BY <1>2, <1>3, <1>5, SetLossTime
<1>7. c = [r EXCEPT !.loss_time[s] = x]
  BY <1>2, <1>4, <1>5 DEF AckmType
<1>8. b = SetTimer(c) /\ c \in AckmType
  BY <1>1, <1>3, <1>6, <1>7 DEF SameBooks, TimedOut
<1>9. Books(c, Tell(t, s, lost, "lost"), n, lim)
  BY <1>2, <1>6, BooksSame
<1>10. AckmInv(b, Tell(t, s, lost, "lost"), n, lim) /\ Retimed(b, c)
  BY <1>6, <1>8, <1>9, TimerKeeps, SetTimerIs
<1>11. b.in_flight = a.in_flight - Cardinality(InFlight(lost))
  BY <1>2, <1>6, <1>10 DEF Retimed, SameBooks, Drops
<1>12. FateFields(b, a)
  BY <1>2, <1>6, <1>10 DEF Retimed, FateFields, Others
<1>13. Fewer(b, a)
  <2>1. Fewer(r, a) /\ b.tx = r.tx
    BY <1>2, <1>6, <1>10, DropsFewer DEF Retimed, SameBooks
  <2> QED BY <2>1 DEF Fewer
<1> QED BY <1>10, <1>11, <1>12, <1>13

\* The fate of the packets: those lost are told of first.
LEMMA AckedLostKeeps ==
  ASSUME Clock, NEW a \in AckmType, NEW t, NEW n, NEW lim, Books(a, t, n, lim), TimeInv(a),
         NEW s \in Spaces, NEW newly, newly \subseteq a.tx[s],
         NEW lost, lost \subseteq a.tx[s] \ newly, NEW delay \in LossDelays
  PROVE  LET b == AckedLost(a, s, newly, lost, delay)
         IN  /\ AckmInv(b, Tell(Tell(t, s, lost, "lost"), s, newly, "acked"), n, lim)
             /\ b.in_flight = a.in_flight - Cardinality(InFlight(lost)) - Cardinality(InFlight(newly))
             /\ FateFields(b, a) /\ Fewer(b, a)
<1>1. PICK l : l = Remove(a, s, lost)
  OBVIOUS
<1>2. /\ l \in AckmType /\ Books(l, Tell(t, s, lost, "lost"), n, lim) /\ TimeInv(l)
      /\ Drops(l, a, s, lost) /\ Others(l, a)
  BY <1>1, RemoveKeeps DEF Fates
<1>3. PICK m : m = Remove(l, s, newly)
  OBVIOUS
<1>4. newly \subseteq l.tx[s]
  BY <1>2 DEF Drops, AckmType
<1>5. /\ m \in AckmType /\ Books(m, Tell(Tell(t, s, lost, "lost"), s, newly, "acked"), n, lim) /\ TimeInv(m)
      /\ Drops(m, l, s, newly) /\ Others(m, l)
  BY <1>2, <1>3, <1>4, RemoveKeeps DEF Fates
<1>6. PICK r : r = Remove(Remove(a, s, newly), s, lost)
  OBVIOUS
<1>7. r = m
  <2>1. PICK i \in Nat, j \in Nat, d \in Nat, e \in Nat :
          /\ i = Cardinality(InFlight(lost)) /\ j = Cardinality(InFlight(newly))
          /\ d = Cardinality(Eliciting(lost)) /\ e = Cardinality(Eliciting(newly))
    BY PartCounts
  <2>2. PICK w : w = Remove(a, s, newly)
    OBVIOUS
  <2>3. Drops(w, a, s, newly) /\ Others(w, a) /\ w \in AckmType
    BY <2>1, <2>2, RemoveIs DEF Drops
  <2>4. Drops(r, w, s, lost) /\ Others(r, w) /\ r \in AckmType
    <3>1. Cardinality(InFlight(lost)) \in Nat /\ Cardinality(Eliciting(lost)) \in Nat /\ w \in AckmType
      BY <2>1, <2>3
    <3>2. r = Remove(w, s, lost)
      BY <1>6, <2>2
    <3>3. Drops(r, w, s, lost) /\ Others(r, w)
      BY <3>1, <3>2, RemoveIs
    <3> QED BY <3>3 DEF Drops
  <2>5. a.tx \in [Spaces -> SUBSET PacketType] /\ a.eliciting \in [Spaces -> Int] /\ a.in_flight \in Int
    BY DEF AckmType
  <2>6. r.tx = m.tx
    <3>1. r.tx = [[a.tx EXCEPT ![s] = @ \ newly] EXCEPT ![s] = @ \ lost]
      BY <2>3, <2>4 DEF Drops
    <3>2. m.tx = [[a.tx EXCEPT ![s] = @ \ lost] EXCEPT ![s] = @ \ newly]
      BY <1>2, <1>5 DEF Drops
    <3>3. (a.tx[s] \ newly) \ lost = (a.tx[s] \ lost) \ newly
      OBVIOUS
    <3> QED BY <2>5, <3>1, <3>2, <3>3
  <2>7. r.in_flight = m.in_flight
    BY <1>2, <1>5, <2>1, <2>3, <2>4, <2>5 DEF Drops
  <2>8. r.eliciting = m.eliciting
    <3>1. \A u \in Spaces : r.eliciting[u] = m.eliciting[u]
      BY <1>2, <1>5, <2>1, <2>3, <2>4, <2>5 DEF Drops
    <3> QED BY <1>5, <2>4, <3>1 DEF AckmType
  <2>9. Others(r, m)
    BY <1>2, <1>5, <2>3, <2>4 DEF Others
  <2> QED BY <1>5, <2>4, <2>6, <2>7, <2>8, <2>9 DEF Others, AckmType
<1>8. PICK x \in Nat : x = LossTime(a.tx[s] \ (newly \cup lost), a.largest_acked[s], delay) /\ x < Never
  <2>1. /\ a.tx[s] \ (newly \cup lost) \subseteq PacketType
        /\ \A p \in a.tx[s] \ (newly \cup lost) : p.time <= case.time
    BY DEF AckmType, TimeInv
  <2> QED BY <2>1, LossTimeIs
<1>9. PICK k \in Nat : k = IF a.validated THEN 0 ELSE m.pto_count
  BY <1>5 DEF AckmType
<1>10. PICK c : c = [m EXCEPT !.loss_time[s] = x, !.pto_count = k]
  OBVIOUS
<1>11. SameBooks(c, m) /\ TimeInv(c) /\ FateFields(c, m) /\ c \in AckmType
  <2>1. m \in AckmType /\ TimeInv(m) /\ x < Never
    BY <1>5, <1>8
  <2>2. SameBooks(c, m) /\ TimeInv(c) /\ FateFields(c, m)
    BY <1>10, <2>1, SetLossTime
  <2> QED BY <2>2 DEF SameBooks
<1>12. AckedLost(a, s, newly, lost, delay) = SetTimer(c)
  BY <1>6, <1>7, <1>8, <1>9, <1>10 DEF AckedLost
<1>13. Books(c, Tell(Tell(t, s, lost, "lost"), s, newly, "acked"), n, lim)
  BY <1>5, <1>11, BooksSame
<1>14. /\ AckmInv(SetTimer(c), Tell(Tell(t, s, lost, "lost"), s, newly, "acked"), n, lim)
       /\ Retimed(SetTimer(c), c)
  BY <1>11, <1>13, TimerKeeps, SetTimerIs
<1>15. SetTimer(c).in_flight = a.in_flight - Cardinality(InFlight(lost)) - Cardinality(InFlight(newly))
  BY <1>2, <1>5, <1>11, <1>14 DEF Retimed, SameBooks, Drops
<1>16. FateFields(SetTimer(c), a)
  BY <1>2, <1>5, <1>11, <1>14 DEF Retimed, FateFields, Others
<1>17. Fewer(SetTimer(c), a)
  <2>1. Fewer(l, a) /\ Fewer(m, l) /\ SetTimer(c).tx = m.tx
    BY <1>2, <1>5, <1>11, <1>14, DropsFewer DEF Retimed, SameBooks
  <2> QED BY <2>1 DEF Fewer
<1> QED BY <1>12, <1>14, <1>15, <1>16, <1>17

-----------------------------------------------------------------------------
(* The packets received.                                                   *)

RxType ==
  [set : SUBSET Nat, watermark : Nat, desired : BOOLEAN, generated : BOOLEAN,
   ack : SUBSET Nat, since : Nat, flush : Nat]

\* g is what is left of history h: what it knew is not taken for new.
Remembers(g, h) ==
  /\ g \in RxType /\ IsFiniteSet(g.set)
  /\ \A q \in Nat : ~Processable(h, q) => ~Processable(g, q)

SameFlags(g, h) ==
  g.desired = h.desired /\ g.generated = h.generated /\ g.ack = h.ack
    /\ g.since = h.since /\ g.flush = h.flush

\* A history that is not empty has a highest range.
LEMMA TopRangesNotEmpty ==
  ASSUME NEW S, S \subseteq Nat, IsFiniteSet(S), S # {}, NEW n \in Nat \ {0}
  PROVE  TopRanges(S, n) # {}
<1>1. S \subseteq Int
  OBVIOUS
<1>2. Max(S) \in S /\ \A y \in S : y <= Max(S)
  BY <1>1, MaxIn
<1>3. {q \in Starts(S) : q > Max(S)} = {}
  <2>1. \A q \in Starts(S) : q \in S
    BY DEF Starts
  <2>2. \A q \in S : q \in Int /\ Max(S) \in Int /\ q <= Max(S)
    BY <1>1, <1>2
  <2>3. PICK top \in Int : top = Max(S)
    BY <1>1, <1>2
  <2>4. ASSUME NEW q \in Starts(S), q > top PROVE FALSE
    <3>1. q \in Int /\ q <= top
      BY <2>1, <2>2, <2>3
    <3> QED BY <2>4, <3>1
  <2> QED BY <2>3, <2>4
<1>4. Cardinality({q \in Starts(S) : q > Max(S)}) < n
  BY <1>3, FS_EmptySet
<1> QED BY <1>2, <1>4 DEF TopRanges

\* Trimming adds nothing.
LEMMA TopRangesIn == ASSUME NEW S, NEW n PROVE TopRanges(S, n) \subseteq S
BY DEF TopRanges

\* The least element of a set of numbers starts a range of it.
LEMMA LeastStart ==
  ASSUME NEW S, S \subseteq Nat, S # {}
  PROVE  \E m \in Starts(S) : \A q \in S : m <= q
<1>1. PICK m \in S : \A q \in S : m <= q
  BY SmallestNumber
<1>2. m \in Nat /\ m - 1 \notin S
  BY <1>1
<1> QED BY <1>1, <1>2 DEF Starts

\* Of the n highest ranges every one was a range, and there are no more than n.
LEMMA TopRangesCount ==
  ASSUME NEW S, S \subseteq Nat, IsFiniteSet(S), NEW n \in Nat
  PROVE  LET T == Starts(TopRanges(S, n))
         IN  IsFiniteSet(T) /\ Cardinality(T) \in Nat /\ Cardinality(T) <= n
<1> DEFINE T == TopRanges(S, n)
           above(p) == {q \in Starts(S) : q > p}
<1>1. /\ \A p \in T : p \in S /\ Cardinality(above(p)) < n
      /\ \A p \in S : Cardinality(above(p)) < n => p \in T
  BY DEF TopRanges
<1>2. \A p : IsFiniteSet(above(p)) /\ Cardinality(above(p)) \in Nat
  <2>1. \A p : above(p) \in SUBSET S
    BY DEF Starts
  <2> QED BY <2>1, FS_Subset, FS_CardinalityType
<1>3. ASSUME NEW p \in Starts(T) PROVE p \in Starts(S)
  <2>1. p \in T /\ p - 1 \notin T /\ p \in S /\ p \in Nat
    BY <1>1 DEF Starts
  <2>2. ASSUME p - 1 \in S PROVE FALSE
    <3>1. p \notin Starts(S) /\ p - 1 \in Nat
      BY <2>2 DEF Starts
    <3>2. \A q \in Starts(S) : q \in Nat
      BY DEF Starts
    <3>3. \A q \in Starts(S) : q > p - 1 <=> q > p
      BY <2>1, <3>1, <3>2
    <3>4. above(p - 1) = above(p)
      BY <3>3
    <3> HIDE DEF above, T
    <3> QED BY <1>1, <2>1, <2>2, <3>4
  <2> QED BY <2>1, <2>2 DEF Starts
<1>4. IsFiniteSet(Starts(T)) /\ Cardinality(Starts(T)) \in Nat
  <2>1. Starts(T) \in SUBSET S
    BY <1>1 DEF Starts
  <2> QED BY <2>1, FS_Subset, FS_CardinalityType
<1>5. CASE Starts(T) = {}
  <2>1. Cardinality(Starts(T)) = 0
    BY <1>5, FS_EmptySet
  <2> QED BY <1>4, <2>1
<1>6. CASE Starts(T) # {}
  <2>1. Starts(T) \subseteq Nat
    BY <1>1 DEF Starts
  <2> HIDE DEF T
  <2>2. PICK m \in Starts(T) : \A q \in Starts(T) : m <= q
    BY <1>6, <2>1, SmallestNumber
  <2>3. m \in T
    BY DEF Starts
  <2>4. Starts(T) \ {m} \subseteq above(m)
    BY <1>3, <2>1, <2>2
  <2>5. Cardinality(above(m)) < n /\ IsFiniteSet(above(m)) /\ Cardinality(above(m)) \in Nat
    BY <1>1, <1>2, <2>3
  <2> HIDE DEF above
  <2>6. Cardinality(Starts(T) \ {m}) <= Cardinality(above(m))
    BY <2>4, <2>5, FS_Subset
  <2>7. Cardinality(Starts(T) \ {m}) = Cardinality(Starts(T)) - 1
    BY <1>4, FS_RemoveElement
  <2>8. Cardinality(Starts(T)) <= n
    BY <1>4, <2>5, <2>6, <2>7
  <2> QED BY <1>4, <2>8 DEF T
<1> QED BY <1>5, <1>6

\* Cutting a set off at w starts no more ranges than there were.
LEMMA CutRangesCount ==
  ASSUME NEW S, S \subseteq Nat, IsFiniteSet(S), NEW w \in Nat
  PROVE  Cardinality(Starts({p \in S : p >= w})) <= Cardinality(Starts(S))
<1> DEFINE C == {p \in S : p >= w}
<1>1. IsFiniteSet(Starts(S)) /\ Cardinality(Starts(S)) \in Nat
  <2>1. Starts(S) \in SUBSET S
    BY DEF Starts
  <2> QED BY <2>1, FS_Subset, FS_CardinalityType
<1>2. ASSUME NEW p \in Starts(C) PROVE p \in Starts(S) \/ (p = w /\ w - 1 \in S)
  <2>1. p \in S /\ p \in Nat /\ p >= w /\ ~(p - 1 \in S /\ p - 1 >= w)
    BY DEF Starts
  <2>2. CASE p - 1 \notin S
    BY <2>1, <2>2 DEF Starts
  <2>3. CASE p - 1 \in S
    BY <2>1, <2>3
  <2> QED BY <2>2, <2>3
<1>3. CASE w - 1 \notin S
  <2>1. Starts(C) \subseteq Starts(S)
    BY <1>2, <1>3
  <2>2. Cardinality(Starts(C)) <= Cardinality(Starts(S))
    <3> HIDE DEF C
    <3> QED BY <1>1, <2>1, FS_Subset
  <2> QED BY <2>2
<1>4. CASE w - 1 \in S
  <2>1. PICK m \in Starts(S) : \A q \in S : m <= q
    BY <1>4, LeastStart
  <2>2. m \in Nat /\ m < w
    BY <1>4, <2>1 DEF Starts
  <2>3. m \notin Starts(C)
    BY <2>2 DEF Starts
  <2> HIDE DEF C
  <2>4. Starts(C) \subseteq (Starts(S) \ {m}) \cup {w}
    BY <1>2, <2>3
  <2>5. IsFiniteSet(Starts(S) \ {m}) /\ Cardinality(Starts(S) \ {m}) = Cardinality(Starts(S)) - 1
    BY <1>1, FS_RemoveElement
  <2>6. /\ IsFiniteSet((Starts(S) \ {m}) \cup {w})
        /\ Cardinality((Starts(S) \ {m}) \cup {w}) <= Cardinality(Starts(S) \ {m}) + 1
    <3>1. PICK D : D = Starts(S) \ {m}
      OBVIOUS
    <3>2. IsFiniteSet(D) /\ Cardinality(D) \in Nat
      BY <2>5, <3>1, FS_CardinalityType
    <3>3. /\ IsFiniteSet(D \cup {w})
          /\ Cardinality(D \cup {w}) = IF w \in D THEN Cardinality(D) ELSE Cardinality(D) + 1
      BY <3>2, FS_AddElement
    <3> QED BY <3>1, <3>2, <3>3
  <2>7. /\ Cardinality(Starts(C)) <= Cardinality((Starts(S) \ {m}) \cup {w})
        /\ Cardinality(Starts(C)) \in Nat /\ Cardinality((Starts(S) \ {m}) \cup {w}) \in Nat
    BY <2>4, <2>6, FS_Subset, FS_CardinalityType
  <2>8. Cardinality(Starts(C)) <= Cardinality(Starts(S))
    BY <1>1, <2>5, <2>6, <2>7
  <2> QED BY <2>8 DEF C
<1> QED BY <1>3, <1>4

\* A history keeps within its number of ranges, all above the watermark.
Bounded(h) ==
  /\ Cardinality(Starts(h.set)) <= MAX_RX_ACK_RANGES
  /\ \A pn \in h.set : pn >= h.watermark

\* What is below the watermark is known.
LEMMA BumpIs ==
  ASSUME NEW h \in RxType, IsFiniteSet(h.set), NEW w \in Nat
  PROVE  LET g == Bump(h, w)
         IN  /\ Remembers(g, h) /\ g.set \subseteq h.set /\ SameFlags(g, h)
             /\ \A q \in Nat : q < w => ~Processable(g, q)
<1>1. h.watermark \in Nat /\ h.set \subseteq Nat
  BY DEF RxType
<1>2. CASE w <= h.watermark
  <2>1. Bump(h, w) = h
    BY <1>2 DEF Bump
  <2>2. \A q \in Nat : q < w => ~Processable(h, q)
    BY <1>1, <1>2 DEF Processable
  <2>3. Remembers(h, h) /\ h.set \subseteq h.set
    BY DEF Remembers
  <2>4. SameFlags(h, h)
    BY DEF SameFlags
  <2> QED BY <2>1, <2>2, <2>3, <2>4
<1>3. CASE ~(w <= h.watermark)
  <2>1. PICK S \in SUBSET Nat : S = {p \in h.set : p >= w}
    BY <1>1
  <2>2. PICK g : g = [h EXCEPT !.set = S, !.watermark = w]
    OBVIOUS
  <2>3. Bump(h, w) = g
    BY <1>3, <2>1, <2>2 DEF Bump
  <2>4. g \in RxType /\ g.set = S /\ g.watermark = w
    <3>1. g \in RxType
      BY <2>2 DEF RxType
    <3> QED BY <2>2, <3>1 DEF RxType
  <2>5. SameFlags(g, h)
    BY <2>2 DEF RxType, SameFlags
  <2>6. IsFiniteSet(S) /\ S \subseteq h.set
    <3>1. S \in SUBSET h.set
      BY <2>1
    <3> QED BY <3>1, FS_Subset
  <2>7. \A q \in Nat : ~Processable(h, q) => ~Processable(g, q)
    BY <1>1, <1>3, <2>1, <2>4 DEF Processable
  <2>8. \A q \in Nat : q < w => ~Processable(g, q)
    BY <2>4 DEF Processable
  <2> QED BY <2>3, <2>4, <2>5, <2>6, <2>7, <2>8 DEF Remembers
<1> QED BY <1>2, <1>3

\* What is trimmed off is below the new watermark.
LEMMA AddPnIs ==
  ASSUME NEW h \in RxType, IsFiniteSet(h.set), NEW pn \in Nat
  PROVE  LET g == AddPn(h, pn)
         IN  /\ Remembers(g, h) /\ g.set \subseteq h.set \cup {pn} /\ SameFlags(g, h)
             /\ ~Processable(g, pn)
<1>1. PICK all \in SUBSET Nat : all = h.set \cup {pn}
  BY DEF RxType
<1>2. IsFiniteSet(all)
  BY <1>1, FS_AddElement
<1>3. PICK kept \in SUBSET Nat : kept = TopRanges(all, MAX_RX_ACK_RANGES)
  BY <1>1, TopRangesIn
<1>4. kept \in SUBSET all
  BY <1>3, TopRangesIn
<1>5. IsFiniteSet(kept) /\ IsFiniteSet(all \ kept)
  <2>1. all \ kept \in SUBSET all
    OBVIOUS
  <2> QED BY <1>2, <1>4, <2>1, FS_Subset
<1>6. PICK k : k = [h EXCEPT !.set = kept]
  OBVIOUS
<1>7. k \in RxType /\ k.set = kept /\ k.watermark = h.watermark /\ SameFlags(k, h)
  <2>1. k \in RxType
    BY <1>6 DEF RxType
  <2>2. k.set = kept /\ k.watermark = h.watermark
    BY <1>6 DEF RxType
  <2>3. SameFlags(k, h)
    BY <1>6 DEF RxType, SameFlags
  <2> QED BY <2>1, <2>2, <2>3
<1>8. CASE kept = all
  <2>1. AddPn(h, pn) = k
    BY <1>1, <1>3, <1>6, <1>8 DEF AddPn
  <2>2. \A q \in Nat : ~Processable(h, q) \/ q = pn => ~Processable(k, q)
    BY <1>1, <1>7, <1>8 DEF Processable
  <2>3. Remembers(k, h)
    BY <1>5, <1>7, <2>2 DEF Remembers
  <2> QED BY <1>1, <1>4, <1>7, <2>1, <2>2, <2>3
<1>9. CASE kept # all
  <2>1. all \ kept # {} /\ all \ kept \subseteq Int
    <3>1. \A y \in all : y \in Int
      OBVIOUS
    <3>2. PICK y \in all : y \notin kept
      BY <1>4, <1>9
    <3>3. all \ kept # {}
      BY <3>2
    <3> QED BY <3>1, <3>3
  <2>2. PICK m \in Nat : m = Max(all \ kept) /\ \A y \in all \ kept : y <= m
    <3>1. Max(all \ kept) \in all \ kept /\ \A y \in all \ kept : y <= Max(all \ kept)
      BY <1>5, <2>1, MaxIn
    <3> QED BY <3>1
  <2>3. PICK w \in Nat : w = m + 1
    OBVIOUS
  <2>4. AddPn(h, pn) = Bump(k, w)
    BY <1>1, <1>3, <1>6, <1>9, <2>2, <2>3 DEF AddPn
  <2>5. PICK g : g = Bump(k, w)
    OBVIOUS
  <2>6. /\ Remembers(g, k) /\ g.set \subseteq k.set /\ SameFlags(g, k)
        /\ \A q \in Nat : q < w => ~Processable(g, q)
    BY <1>5, <1>7, <2>5, BumpIs
  <2>7. ASSUME NEW q \in Nat, ~Processable(h, q) \/ q = pn PROVE ~Processable(g, q)
    <3>1. CASE q \in all \ kept
      <4>1. q < w
        BY <2>2, <2>3, <3>1
      <4> QED BY <2>6, <4>1
    <3>2. CASE q \notin all \ kept
      <4>1. ~Processable(k, q)
        BY <1>1, <1>7, <2>7, <3>2 DEF Processable
      <4> QED BY <2>6, <4>1 DEF Remembers
    <3> QED BY <3>1, <3>2
  <2>8. Remembers(g, h) /\ ~Processable(g, pn)
    BY <2>6, <2>7 DEF Remembers
  <2>9. g.set \subseteq h.set \cup {pn} /\ SameFlags(g, h)
    BY <1>1, <1>4, <1>7, <2>6 DEF SameFlags
  <2> QED BY <2>4, <2>5, <2>8, <2>9
<1> QED BY <1>8, <1>9

\* How long the acknowledgement of a packet may wait.
AckDelay(s) == IF s = APP THEN tx_max_ack_delay ELSE 0

\* An ACK is desired, or will be within the delay.
LEMMA OnElicitingIs ==
  ASSUME Clock, NEW h \in RxType, NEW s \in Spaces, NEW was_missing \in BOOLEAN
  PROVE  LET g == OnEliciting(h, s, was_missing)
         IN  /\ g \in RxType /\ g.set = h.set /\ g.watermark = h.watermark
             /\ h.desired => g.desired
             /\ ~g.desired => g.flush <= h.flush /\ g.flush <= now + AckDelay(s)
<1>1. h.since \in Nat /\ h.flush \in Nat /\ h.desired \in BOOLEAN
  BY DEF RxType
<1>2. PICK d \in Nat : d = now + AckDelay(s)
  <2>1. AckDelay(s) \in Nat /\ now \in Nat
    BY CaseType, ConstantsAssumption DEF AckDelay
  <2> QED BY <2>1
<1>3. PICK i \in Nat, f \in Nat, v \in Nat :
         i = h.since + 1 /\ f = Min({h.flush, d}) /\ v = Never /\ f <= h.flush /\ f <= d
  <2>1. PICK e \in Nat : e = h.flush
    BY <1>1
  <2>2. e \in Int /\ d \in Int
    OBVIOUS
  <2>3. Min({e, d}) \in {e, d} /\ Min({e, d}) <= e /\ Min({e, d}) <= d
    BY ONLY <2>2, TwoMin
  <2> QED BY <1>1, <2>1, <2>3, NeverAssumption
<1>4. f <= h.flush /\ f <= d
  BY <1>3
<1>5. PICK g1, g2 : /\ g1 = [h EXCEPT !.since = i, !.desired = TRUE, !.flush = v]
                    /\ g2 = [h EXCEPT !.since = i, !.flush = f]
  OBVIOUS
<1>6. /\ g1 = [h EXCEPT !.since = @ + 1, !.desired = TRUE, !.flush = Never]
      /\ g2 = [h EXCEPT !.since = @ + 1, !.flush = Min({@, d})]
  BY <1>3, <1>5
<1>7. OnEliciting(h, s, was_missing) =
        CASE h.desired -> h
          [] ~h.desired /\ (~h.generated \/ was_missing \/ h.since + 1 >= 2 \/ NewlyMissing(h)) -> g1
          [] OTHER -> g2
  <2> HIDE DEF NewlyMissing
  <2> QED BY <1>2, <1>6 DEF OnEliciting, AckDelay
<1>8. g1 \in RxType /\ g1.set = h.set /\ g1.watermark = h.watermark /\ g1.desired
  <2>1. g1 \in RxType
    BY <1>5 DEF RxType
  <2>2. g1.desired
    BY <1>5 DEF RxType
  <2> QED BY <1>5, <2>1, <2>2 DEF RxType
<1>9. g2 \in RxType /\ g2.set = h.set /\ g2.watermark = h.watermark /\ g2.flush = f
      /\ g2.desired = h.desired
  <2>1. g2 \in RxType
    BY <1>5 DEF RxType
  <2> QED BY <1>5, <2>1 DEF RxType
<1>10. CASE h.desired
  <2>1. OnEliciting(h, s, was_missing) = h
    BY <1>7, <1>10
  <2> QED BY <1>10, <2>1
<1>11. CASE ~h.desired
  <2>1. OnEliciting(h, s, was_missing) = g1 \/ OnEliciting(h, s, was_missing) = g2
    BY <1>7, <1>11
  <2>2. CASE OnEliciting(h, s, was_missing) = g1
    BY <1>8, <1>11, <2>2
  <2>3. CASE OnEliciting(h, s, was_missing) = g2
    BY <1>2, <1>4, <1>9, <1>11, <2>3
  <2> QED BY <2>1, <2>2, <2>3
<1> QED BY <1>10, <1>11

RxFields(g, h, s, pn, eliciting) ==
  /\ Remembers(g, h) /\ ~Processable(g, pn)
  /\ g.set \subseteq h.set \cup {pn}
  /\ ~Processable(h, pn) => g = h
  /\ h.desired => g.desired
  /\ ~g.desired => g.flush <= h.flush
  /\ eliciting /\ Processable(h, pn) /\ ~g.desired => g.flush <= now + AckDelay(s)

\* A packet received is known from then on, and what was known still is.
LEMMA OnRxPacketIs ==
  ASSUME Clock, NEW h \in RxType, IsFiniteSet(h.set), NEW s \in Spaces, NEW pn \in Nat,
         NEW eliciting \in BOOLEAN
  PROVE  RxFields(OnRxPacket(h, s, pn, eliciting), h, s, pn, eliciting)
<1>1. PICK g : g = AddPn(h, pn)
  OBVIOUS
<1>2. Remembers(g, h) /\ g.set \subseteq h.set \cup {pn} /\ SameFlags(g, h) /\ ~Processable(g, pn)
  BY <1>1, AddPnIs
<1>3. g \in RxType /\ h.flush \in Nat /\ h.flush <= h.flush
  BY <1>2 DEF Remembers, RxType
<1>4. CASE ~Processable(h, pn)
  <2>1. OnRxPacket(h, s, pn, eliciting) = h
    BY <1>4 DEF OnRxPacket
  <2> QED BY <1>3, <1>4, <2>1 DEF RxFields, Remembers
<1>5. CASE Processable(h, pn) /\ eliciting
  <2>1. PICK b : b = WasMissing(h, pn) /\ b \in BOOLEAN
    BY DEF WasMissing
  <2>2. PICK e : e = OnEliciting(g, s, b)
    OBVIOUS
  <2>3. OnRxPacket(h, s, pn, eliciting) = e
    BY <1>1, <1>5, <2>1, <2>2 DEF OnRxPacket
  <2>4. /\ e \in RxType /\ e.set = g.set /\ e.watermark = g.watermark
        /\ g.desired => e.desired
        /\ ~e.desired => e.flush <= g.flush /\ e.flush <= now + AckDelay(s)
    BY <1>3, <2>1, <2>2, OnElicitingIs
  <2>5. \A q : Processable(e, q) <=> Processable(g, q)
    BY <2>4 DEF Processable
  <2>6. Remembers(e, h) /\ ~Processable(e, pn)
    BY <1>2, <2>4, <2>5 DEF Remembers
  <2> HIDE DEF Processable
  <2> QED BY <1>2, <1>5, <2>3, <2>4, <2>6 DEF RxFields, SameFlags
<1>6. CASE Processable(h, pn) /\ ~eliciting
  <2>1. OnRxPacket(h, s, pn, eliciting) = g
    BY <1>1, <1>6 DEF OnRxPacket
  <2> HIDE DEF Processable
  <2> QED BY <1>2, <1>3, <1>6, <2>1 DEF RxFields, SameFlags
<1> QED BY <1>4, <1>5, <1>6

\* Raising the watermark keeps a history bounded, whatever was below it before.
LEMMA BumpBounded ==
  ASSUME NEW h \in RxType, IsFiniteSet(h.set), Bounded(h), NEW w \in Nat
  PROVE  Bounded(Bump(h, w))
<1>1. h.watermark \in Nat /\ h.set \subseteq Nat
  BY DEF RxType
<1>2. CASE w <= h.watermark
  BY <1>2 DEF Bump
<1>3. CASE ~(w <= h.watermark)
  <2>1. PICK S \in SUBSET Nat : S = {p \in h.set : p >= w}
    BY <1>1
  <2>2. PICK g : g = [h EXCEPT !.set = S, !.watermark = w]
    OBVIOUS
  <2>3. Bump(h, w) = g
    BY <1>3, <2>1, <2>2 DEF Bump
  <2>4. g.set = S /\ g.watermark = w
    BY <2>2 DEF RxType
  <2>5. Cardinality(Starts(S)) <= Cardinality(Starts(h.set))
    BY <1>1, <2>1, CutRangesCount
  <2>6. /\ IsFiniteSet(Starts(h.set)) /\ IsFiniteSet(Starts(S))
    <3>1. Starts(h.set) \in SUBSET h.set /\ Starts(S) \in SUBSET h.set
      BY <2>1 DEF Starts
    <3> QED BY <3>1, FS_Subset
  <2>7. Cardinality(Starts(h.set)) \in Nat /\ Cardinality(Starts(S)) \in Nat
    BY <2>6, FS_CardinalityType
  <2>8. Cardinality(Starts(S)) <= MAX_RX_ACK_RANGES
    BY <2>5, <2>7, ConstantsAssumption DEF Bounded
  <2>9. \A pn \in S : pn >= w
    BY <2>1
  <2> QED BY <2>3, <2>4, <2>8, <2>9 DEF Bounded
<1> QED BY <1>2, <1>3

\* So does the number of a packet received.
LEMMA AddPnBounded ==
  ASSUME NEW h \in RxType, IsFiniteSet(h.set), Bounded(h), NEW pn \in Nat, pn >= h.watermark
  PROVE  Bounded(AddPn(h, pn))
<1>1. PICK all \in SUBSET Nat : all = h.set \cup {pn}
  BY DEF RxType
<1>2. IsFiniteSet(all) /\ \A q \in all : q >= h.watermark
  BY <1>1, FS_AddElement DEF Bounded
<1>3. PICK kept \in SUBSET Nat : kept = TopRanges(all, MAX_RX_ACK_RANGES)
  BY <1>1, TopRangesIn
<1>4. kept \in SUBSET all
  BY <1>3, TopRangesIn
<1>5. Cardinality(Starts(kept)) <= MAX_RX_ACK_RANGES
  <2>1. MAX_RX_ACK_RANGES \in Nat
    BY ConstantsAssumption
  <2> QED BY <1>2, <1>3, <2>1, TopRangesCount
<1>6. PICK k : k = [h EXCEPT !.set = kept]
  OBVIOUS
<1>7. k \in RxType /\ k.set = kept /\ k.watermark = h.watermark /\ IsFiniteSet(k.set)
  <2>1. k \in RxType
    BY <1>6 DEF RxType
  <2>2. k.set = kept /\ k.watermark = h.watermark
    BY <1>6 DEF RxType
  <2> QED BY <1>2, <1>4, <2>1, <2>2, FS_Subset
<1>8. Bounded(k)
  BY <1>2, <1>4, <1>5, <1>7 DEF Bounded
<1>9. CASE kept = all
  BY <1>1, <1>3, <1>6, <1>8, <1>9 DEF AddPn
<1>10. CASE kept # all
  <2>1. PICK w : w = Max(all \ kept) + 1
    OBVIOUS
  <2>2. AddPn(h, pn) = Bump(k, w)
    BY <1>1, <1>3, <1>6, <1>10, <2>1 DEF AddPn
  <2>3. w \in Nat
    <3>1. all \ kept # {} /\ all \ kept \subseteq Int
      <4>1. PICK y \in all : y \notin kept
        BY <1>4, <1>10
      <4> QED BY <4>1
    <3>2. all \ kept \in SUBSET all
      OBVIOUS
    <3>3. IsFiniteSet(all \ kept)
      BY <1>2, <3>2, FS_Subset
    <3>4. Max(all \ kept) \in all \ kept
      BY <3>1, <3>3, MaxIn
    <3>5. Max(all \ kept) \in Nat
      BY <3>4
    <3> QED BY <2>1, <3>5
  <2> QED BY <1>7, <1>8, <2>2, <2>3, BumpBounded
<1> QED BY <1>9, <1>10

\* A packet received leaves the history bounded.
LEMMA OnRxPacketBounded ==
  ASSUME Clock, NEW s \in Spaces, NEW h \in RxType, IsFiniteSet(h.set), Bounded(h),
         NEW pn \in Nat, NEW eliciting \in BOOLEAN
  PROVE  Bounded(OnRxPacket(h, s, pn, eliciting))
<1>1. CASE ~Processable(h, pn)
  BY <1>1 DEF OnRxPacket
<1>2. CASE Processable(h, pn)
  <2>1. PICK g : g = AddPn(h, pn)
    OBVIOUS
  <2>2. Bounded(g)
    BY <1>2, <2>1, AddPnBounded DEF Processable
  <2>3. g \in RxType
    BY <2>1, AddPnIs DEF Remembers
  <2>4. CASE ~eliciting
    <3>1. OnRxPacket(h, s, pn, eliciting) = g
      BY <1>2, <2>1, <2>4 DEF OnRxPacket
    <3> QED BY <2>2, <3>1
  <2>5. CASE eliciting
    <3>1. PICK b : b = WasMissing(h, pn) /\ b \in BOOLEAN
      BY DEF WasMissing
    <3>2. PICK e : e = OnEliciting(g, s, b)
      OBVIOUS
    <3>3. OnRxPacket(h, s, pn, eliciting) = e
      BY <1>2, <2>1, <2>5, <3>1, <3>2 DEF OnRxPacket
    <3>4. e.set = g.set /\ e.watermark = g.watermark
      BY <2>3, <3>1, <3>2, OnElicitingIs
    <3> QED BY <2>2, <3>3, <3>4 DEF Bounded
  <2> QED BY <2>4, <2>5
<1> QED BY <1>1, <1>2

-----------------------------------------------------------------------------
(* The inductive invariant.                                                *)

\* The sending side, with the controller's count.
PktInv ==
  /\ txp \in [next_pn : [Spaces -> Nat], want_ack : [Spaces -> BOOLEAN]]
  /\ AckmInv(ackm, told, txp.next_pn, case.tx)
  /\ cc \in CcType /\ undone \in Nat
  /\ cc.in_flight = ackm.in_flight + undone
  /\ ~case.is_server =>
       /\ txp.next_pn[HANDSHAKE] > 0 => ackm.discarded[INITIAL]
       /\ ackm.validated => ackm.discarded[INITIAL]

\* One space of the receiving side: the history h, how often each number was
\* processed, and the ack-eliciting packets that are still owed an ACK.
HistoryOK(h, counts, debts, s) ==
  /\ h \in RxType /\ IsFiniteSet(h.set) /\ Bounded(h)
  /\ counts \in [case.rx[s] -> Nat]
  /\ \A pn \in case.rx[s] : counts[pn] > 0 => ~Processable(h, pn)
  /\ \A pn \in h.set : pn \in case.rx[s] /\ counts[pn] > 0
  /\ \A o \in debts : o[1] \in Nat /\ o[2] \in Nat /\ ~Processable(h, o[1])
  /\ \A o \in debts : o[1] \in h.set => h.desired \/ h.flush <= o[2] + AckDelay(s)

RxInv ==
  /\ rx = [s \in Spaces |-> rx[s]]
  /\ times = [s \in Spaces |-> times[s]]
  /\ owed = [s \in Spaces |-> owed[s]]
  /\ \A s \in Spaces : HistoryOK(rx[s], times[s], owed[s], s)

\* A packet that waits was not processed yet, or is the second copy of the one
\* that was processed just now.
Waits(q) ==
  /\ q.space \in Spaces /\ q.pn \in case.rx[q.space] /\ q.eliciting \in BOOLEAN
  /\ ~q.copy => times[q.space][q.pn] = 0
  /\ q.copy => /\ times[q.space][q.pn] = 1 /\ <<q.space, q.pn>> \in together
               /\ q.eliciting => <<q.pn, now>> \in owed[q.space]
QueueInv ==
  /\ \A q, r \in queue : q = r
  /\ \A q \in queue : Waits(q)
  /\ NoDuplicate

IInv == Clock /\ PktInv /\ RxInv /\ QueueInv

\* What is processed was not before, or is owed an ACK already if it wants one.
Expected(count, debts, pn, eliciting) == count = 0 \/ (eliciting => <<pn, now>> \in debts)

\* A packet whose frames were processed is recorded, if it was not known.
LEMMA ReceiveHistory ==
  ASSUME Clock, NEW s \in Spaces, NEW h, NEW counts, NEW debts, HistoryOK(h, counts, debts, s),
         NEW pn \in case.rx[s], NEW w \in Nat, NEW eliciting \in BOOLEAN,
         Expected(counts[pn], debts, pn, eliciting)
  PROVE  HistoryOK(OnRxPacket(Bump(h, w), s, pn, eliciting), [counts EXCEPT ![pn] = @ + 1],
                   IF eliciting THEN debts \cup {<<pn, now>>} ELSE debts, s)
<1>1. h \in RxType /\ IsFiniteSet(h.set) /\ pn \in Nat /\ now \in Nat
  BY CaseType DEF HistoryOK
<1>2. PICK b : b = Bump(h, w)
  OBVIOUS
<1>3. Remembers(b, h) /\ b.set \subseteq h.set /\ SameFlags(b, h)
  BY <1>1, <1>2, BumpIs
<1>4. b \in RxType /\ IsFiniteSet(b.set)
  BY <1>3 DEF Remembers
<1>5. PICK g : g = OnRxPacket(b, s, pn, eliciting)
  OBVIOUS
<1>6. RxFields(g, b, s, pn, eliciting)
  BY <1>1, <1>4, <1>5, OnRxPacketIs
<1>7. g \in RxType /\ IsFiniteSet(g.set) /\ ~Processable(g, pn)
  BY <1>6 DEF RxFields, Remembers
<1>8. \A q \in Nat : ~Processable(h, q) => ~Processable(g, q)
  BY <1>3, <1>6 DEF RxFields, Remembers
<1>9. case.rx[s] \subseteq Nat
  BY CaseType
<1>10. PICK k \in [case.rx[s] -> Nat] :
         /\ k = [counts EXCEPT ![pn] = @ + 1]
         /\ \A q \in case.rx[s] : k[q] > 0 <=> q = pn \/ counts[q] > 0
  <2>1. counts \in [case.rx[s] -> Nat] /\ counts[pn] \in Nat
    BY DEF HistoryOK
  <2>2. PICK more \in Nat : more = counts[pn] + 1 /\ more > 0
    BY <2>1
  <2>3. [counts EXCEPT ![pn] = @ + 1] = [counts EXCEPT ![pn] = more]
    BY <2>1, <2>2
  <2> QED BY <2>1, <2>2, <2>3
<1>11. \A q \in case.rx[s] : k[q] > 0 => ~Processable(g, q)
  <2>1. \A q \in case.rx[s] : counts[q] > 0 => ~Processable(h, q)
    BY DEF HistoryOK
  <2> QED BY <1>7, <1>8, <1>9, <1>10, <2>1
<1>12. PICK d : d = IF eliciting THEN debts \cup {<<pn, now>>} ELSE debts
  OBVIOUS
<1>13. \A q \in h.set : q \in case.rx[s] /\ counts[q] > 0
  BY DEF HistoryOK
<1>14. g.set \subseteq b.set \cup {pn}
  BY <1>6 DEF RxFields
<1>15. \A q \in g.set : q \in case.rx[s] /\ k[q] > 0
  BY <1>3, <1>10, <1>13, <1>14
<1>16. \A o \in d : o \in debts \/ (o[1] = pn /\ o[2] = now /\ eliciting /\ counts[pn] = 0)
  BY <1>12 DEF Expected
<1>17. \A o \in d : o[1] \in Nat /\ o[2] \in Nat /\ ~Processable(g, o[1])
  <2>1. \A o \in debts : o[1] \in Nat /\ o[2] \in Nat /\ ~Processable(h, o[1])
    BY DEF HistoryOK
  <2> QED BY <1>1, <1>7, <1>8, <1>16, <2>1
<1>18. ASSUME NEW o \in d, o[1] \in g.set, ~g.desired
       PROVE  g.flush <= o[2] + AckDelay(s)
  <2>1. g.flush <= b.flush /\ ~b.desired
    BY <1>6, <1>18 DEF RxFields
  <2>2. h.desired = b.desired /\ h.flush = b.flush
    BY <1>3 DEF SameFlags
  <2>3. CASE o \in debts /\ o[1] \in h.set
    <3>1. h.desired \/ h.flush <= o[2] + AckDelay(s)
      BY <2>3 DEF HistoryOK
    <3>2. b.flush <= o[2] + AckDelay(s)
      BY <2>1, <2>2, <3>1
    <3>3. o[2] \in Nat /\ AckDelay(s) \in Nat /\ b.flush \in Nat /\ g.flush \in Nat
      BY <1>4, <1>7, <1>17, <1>18, ConstantsAssumption DEF RxType, AckDelay
    <3> QED BY <2>1, <3>2, <3>3
  <2>4. CASE o \in debts /\ o[1] \notin h.set
    <3>1. o[1] = pn
      BY <1>3, <1>14, <1>18, <2>4
    <3>2. ~Processable(b, pn)
      BY <1>1, <1>3, <2>4, <3>1 DEF HistoryOK, Remembers
    <3>3. g = b
      BY <1>6, <3>2 DEF RxFields
    <3> QED BY <1>3, <1>18, <2>4, <3>3
  <2>5. CASE o[1] = pn /\ o[2] = now /\ eliciting /\ counts[pn] = 0
    <3>1. pn \notin h.set
      BY <1>13, <2>5
    <3>2. CASE Processable(b, pn)
      <4>1. g.flush <= now + AckDelay(s)
        BY <1>6, <1>18, <2>5, <3>2 DEF RxFields
      <4> QED BY <2>5, <4>1
    <3>3. CASE ~Processable(b, pn)
      <4>1. g = b
        BY <1>6, <3>3 DEF RxFields
      <4> QED BY <1>3, <1>18, <2>5, <3>1, <4>1
    <3> QED BY <3>2, <3>3
  <2> QED BY <1>16, <1>18, <2>3, <2>4, <2>5
<1>19. Bounded(g)
  <2>1. Bounded(h)
    BY DEF HistoryOK
  <2>2. Bounded(b)
    BY <1>1, <1>2, <2>1, BumpBounded
  <2> QED BY <1>1, <1>4, <1>5, <2>2, OnRxPacketBounded
<1>20. HistoryOK(g, k, d, s)
  BY <1>7, <1>11, <1>15, <1>17, <1>18, <1>19 DEF HistoryOK
<1> QED BY <1>2, <1>5, <1>10, <1>12, <1>20

\* Send generates an ACK frame: nothing is owed any more, or nothing is there
\* to acknowledge.
LEMMA GenerateHistory ==
  ASSUME Clock, NEW s \in Spaces, NEW h, NEW counts, NEW debts, HistoryOK(h, counts, debts, s),
         NEW A, A \subseteq h.set, NEW left, left \subseteq debts,
         left = {} \/ h.set = {}
  PROVE  HistoryOK([h EXCEPT !.ack = A, !.since = 0, !.generated = TRUE, !.desired = FALSE,
                             !.flush = Never], counts, left, s)
<1>1. h \in RxType /\ IsFiniteSet(h.set)
  BY DEF HistoryOK
<1>2. PICK B \in SUBSET Nat, v \in Nat, z \in Nat : B = A /\ v = Never /\ z = 0
  BY <1>1, NeverAssumption DEF RxType
<1>3. PICK g : g = [h EXCEPT !.ack = B, !.since = z, !.generated = TRUE, !.desired = FALSE,
                             !.flush = v]
  OBVIOUS
<1>4. g \in RxType
  BY <1>1, <1>3 DEF RxType
<1>5. g.set = h.set /\ g.watermark = h.watermark
  BY <1>1, <1>3 DEF RxType
<1>6. \A q : Processable(g, q) <=> Processable(h, q)
  BY <1>5 DEF Processable
<1>7. \A o \in left : o[1] \notin g.set
  BY <1>5
<1>8. HistoryOK(g, counts, left, s)
  <2>1. Bounded(g)
    BY <1>5 DEF HistoryOK, Bounded
  <2> QED BY <1>1, <1>4, <1>5, <1>6, <1>7, <2>1 DEF HistoryOK
<1> QED BY <1>2, <1>3, <1>8

\* The history of one space is replaced.
LEMMA RxUpdate ==
  ASSUME RxInv, case' = case, NEW s \in Spaces, NEW h, NEW counts, NEW debts,
         HistoryOK(h, counts, debts, s),
         rx' = [rx EXCEPT ![s] = h], times' = [times EXCEPT ![s] = counts],
         owed' = [owed EXCEPT ![s] = debts]
  PROVE  RxInv'
<1>1. /\ rx' = [u \in Spaces |-> IF u = s THEN h ELSE rx[u]]
      /\ times' = [u \in Spaces |-> IF u = s THEN counts ELSE times[u]]
      /\ owed' = [u \in Spaces |-> IF u = s THEN debts ELSE owed[u]]
  BY DEF RxInv
<1>2. /\ rx' = [u \in Spaces |-> rx'[u]] /\ times' = [u \in Spaces |-> times'[u]]
      /\ owed' = [u \in Spaces |-> owed'[u]]
  BY <1>1
<1>3. ASSUME NEW u \in Spaces PROVE HistoryOK(rx[u], times[u], owed[u], u)'
  <2>1. HistoryOK(rx'[u], times'[u], owed'[u], u)
    <3>1. CASE u = s
      BY <1>1, <3>1
    <3>2. CASE u # s
      <4>1. rx'[u] = rx[u] /\ times'[u] = times[u] /\ owed'[u] = owed[u]
        BY <1>1, <3>2
      <4> QED BY <4>1 DEF RxInv
    <3> QED BY <3>1, <3>2
  <2> QED BY <2>1 DEF HistoryOK
<1> QED BY <1>2, <1>3 DEF RxInv

\* The receiving side is left alone.
LEMMA RxSame ==
  ASSUME RxInv, UNCHANGED <<case, rx, times, owed>>
  PROVE  RxInv'
BY DEF RxInv, HistoryOK

\* Send keeps the histories of the packets received.
LEMMA SendRx ==
  ASSUME Clock, RxInv, NEW s \in Spaces, NEW eliciting \in BOOLEAN,
         NEW padded \in BOOLEAN, Send(s, eliciting, padded)
  PROVE  RxInv'
<1>1. PICK acks : acks = (WantsAck(s) /\ AckFrame(s) # {})
  OBVIOUS
<1>2. owed' = IF acks THEN [owed EXCEPT ![s] = {}] ELSE owed
  BY <1>1 DEF Send
<1>3. case' = case /\ times' = times /\ rx' = IF WantsAck(s) THEN Generated(s) ELSE rx
  BY DEF Send
<1>4. HistoryOK(rx[s], times[s], owed[s], s)
  BY DEF RxInv
<1>5. CASE WantsAck(s)
  <2>1. PICK left : left = IF acks THEN {} ELSE owed[s]
    OBVIOUS
  <2>2. AckFrame(s) \subseteq rx[s].set
    BY TopRangesIn DEF AckFrame
  <2>3. AckFrame(s) = {} => rx[s].set = {}
    <3>1. rx[s].set \subseteq Nat /\ IsFiniteSet(rx[s].set)
      BY <1>4 DEF HistoryOK, RxType
    <3>2. NELEM_ack_ranges \in Nat \ {0}
      BY ConstantsAssumption
    <3> QED BY <3>1, <3>2, TopRangesNotEmpty DEF AckFrame
  <2>4. left = {} \/ rx[s].set = {}
    BY <1>1, <1>5, <2>1, <2>3
  <2>5. PICK g : g = [rx[s] EXCEPT !.ack = AckFrame(s), !.since = 0, !.generated = TRUE,
                                   !.desired = FALSE, !.flush = Never]
    OBVIOUS
  <2>6. left \subseteq owed[s]
    BY <2>1
  <2>7. HistoryOK(g, times[s], left, s)
    BY <1>4, <2>2, <2>4, <2>5, <2>6, GenerateHistory
  <2>8. /\ rx' = [rx EXCEPT ![s] = g] /\ times' = [times EXCEPT ![s] = times[s]]
        /\ owed' = [owed EXCEPT ![s] = left]
    BY <1>2, <1>3, <1>5, <2>1, <2>5 DEF Generated, RxInv
  <2> QED BY <1>3, <2>7, <2>8, RxUpdate
<1>6. CASE ~WantsAck(s)
  <2>1. UNCHANGED <<case, rx, times, owed>>
    BY <1>1, <1>2, <1>3, <1>6
  <2> QED BY <2>1, RxSame
<1> QED BY <1>5, <1>6

\* Nor does a datagram that is given up lose anything but what was owed.
LEMMA GiveUpRx ==
  ASSUME Clock, RxInv, GiveUp
  PROVE  RxInv'
<1>1. /\ case' = case /\ times' = times
      /\ rx' = [s \in Spaces |-> IF s \in Acking THEN Generated(s)[s] ELSE rx[s]]
      /\ owed' = [s \in Spaces |-> IF s \in Acking THEN {} ELSE owed[s]]
  BY DEF GiveUp
<1>2. ASSUME NEW s \in Spaces PROVE HistoryOK(rx[s], times[s], owed[s], s)'
  <2>1. HistoryOK(rx[s], times[s], owed[s], s)
    BY DEF RxInv
  <2>2. HistoryOK(rx'[s], times[s], owed'[s], s)
    <3>1. CASE s \notin Acking
      <4>1. rx'[s] = rx[s] /\ owed'[s] = owed[s]
        BY <1>1, <3>1
      <4> QED BY <2>1, <4>1
    <3>2. CASE s \in Acking
      <4>1. PICK g : g = [rx[s] EXCEPT !.ack = AckFrame(s), !.since = 0, !.generated = TRUE,
                                       !.desired = FALSE, !.flush = Never]
        OBVIOUS
      <4>2. rx'[s] = g /\ owed'[s] = {}
        BY <1>1, <3>2, <4>1 DEF Generated, RxInv
      <4>3. AckFrame(s) \subseteq rx[s].set
        BY TopRangesIn DEF AckFrame
      <4>4. HistoryOK(g, times[s], {}, s)
        BY <2>1, <4>1, <4>3, GenerateHistory
      <4> QED BY <4>2, <4>4
    <3> QED BY <3>1, <3>2
  <2> QED BY <1>1, <2>2 DEF HistoryOK
<1>3. rx' = [s \in Spaces |-> rx'[s]] /\ owed' = [s \in Spaces |-> owed'[s]]
  BY <1>1
<1> QED BY <1>1, <1>2, <1>3 DEF RxInv

\* What the packets acknowledge is a packet number of the peer, or none.
LEMMA ConfirmedType ==
  ASSUME NEW pkts, pkts \subseteq PacketType, IsFiniteSet(pkts)
  PROVE  Confirmed(pkts) \in Nat
<1>1. InFlight(pkts) \in SUBSET pkts
  BY DEF InFlight
<1>2. IsFiniteSet(InFlight(pkts))
  BY <1>1, FS_Subset
<1>3. PICK S : S = {p.largest : p \in InFlight(pkts)}
  OBVIOUS
<1>4. IsFiniteSet(S)
  <2>1. PICK f \in [InFlight(pkts) -> S] : f = [p \in InFlight(pkts) |-> p.largest]
    BY <1>3
  <2>2. f \in Surjection(InFlight(pkts), S)
    BY <1>3, <2>1 DEF Surjection
  <2> QED BY <1>2, <2>2, FS_Surjection
<1>5. IsFiniteSet(S \cup {NONE})
  BY <1>4, FS_AddElement
<1>6. \A x \in S \cup {NONE} : x \in Int /\ x >= -1
  <2>1. \A p \in InFlight(pkts) : p.largest \in Nat \cup {NONE}
    BY <1>1 DEF PacketType
  <2> QED BY <1>3, <2>1 DEF NONE
<1>7. S \cup {NONE} \subseteq Int /\ S \cup {NONE} # {}
  BY <1>6
<1>8. Max(S \cup {NONE}) \in S \cup {NONE}
  BY <1>5, <1>7, MaxIn
<1>9. Max(S \cup {NONE}) \in Int /\ Max(S \cup {NONE}) >= -1
  BY <1>6, <1>8
<1> QED BY <1>3, <1>9 DEF Confirmed

\* Receive keeps them too.
LEMMA ReceiveRx ==
  ASSUME Clock, RxInv, NEW s \in Spaces, NEW pn \in DOMAIN times[s],
         NEW eliciting \in BOOLEAN, Expected(times[s][pn], owed[s], pn, eliciting),
         NEW w \in Nat, case' = case,
         rx' = [rx EXCEPT ![s] = OnRxPacket(Bump(@, w), s, pn, eliciting)],
         times' = [times EXCEPT ![s][pn] = @ + 1],
         owed' = IF eliciting THEN [owed EXCEPT ![s] = @ \cup {<<pn, now>>}] ELSE owed
  PROVE  RxInv'
<1>1. HistoryOK(rx[s], times[s], owed[s], s)
  BY DEF RxInv
<1>2. pn \in case.rx[s]
  BY <1>1 DEF HistoryOK
<1>3. PICK h, counts, debts :
        /\ h = OnRxPacket(Bump(rx[s], w), s, pn, eliciting)
        /\ counts = [times[s] EXCEPT ![pn] = @ + 1]
        /\ debts = IF eliciting THEN owed[s] \cup {<<pn, now>>} ELSE owed[s]
  OBVIOUS
<1>4. HistoryOK(h, counts, debts, s)
  BY <1>1, <1>2, <1>3, ReceiveHistory
<1>5. /\ rx' = [rx EXCEPT ![s] = h] /\ times' = [times EXCEPT ![s] = counts]
      /\ owed' = [owed EXCEPT ![s] = debts]
  <2>1. rx' = [rx EXCEPT ![s] = h]
    BY <1>3
  <2>2. times' = [times EXCEPT ![s] = counts]
    BY <1>3
  <2>3. owed' = [owed EXCEPT ![s] = debts]
    BY <1>3 DEF RxInv
  <2> QED BY <2>1, <2>2, <2>3
<1> QED BY <1>4, <1>5, RxUpdate

TxpType == [next_pn : [Spaces -> Nat], want_ack : [Spaces -> BOOLEAN]]

\* What a step has to establish of the sending side.
LEMMA PktNext ==
  ASSUME case' = case, txp' \in TxpType,
         AckmInv(ackm', told', txp'.next_pn, case.tx),
         cc' \in CcType, undone' \in Nat, cc'.in_flight = ackm'.in_flight + undone',
         ~case.is_server => /\ txp'.next_pn[HANDSHAKE] > 0 => ackm'.discarded[INITIAL]
                            /\ ackm'.validated => ackm'.discarded[INITIAL]
  PROVE  PktInv'
BY DEF PktInv, AckmInv, TimeInv, TxpType

\* The Initial space goes: at a client, and at a server.
LEMMA ClientWithoutInitial ==
  ASSUME Clock, NEW a, NEW t, NEW n, NEW lim, AckmInv(a, t, n, lim), NEW s \in Spaces
  PROVE  /\ AckmInv(WithoutInitial(a, s, FALSE),
                    Tell(t, INITIAL, Going(a, s, FALSE), "discarded"), n, lim)
         /\ WithoutFields(WithoutInitial(a, s, FALSE), a, s, FALSE)
BY WithoutInitialKeeps, Zenon

\* The same at a server.
LEMMA ServerWithoutInitial ==
  ASSUME Clock, NEW a, NEW t, NEW n, NEW lim, AckmInv(a, t, n, lim), NEW s \in Spaces
  PROVE  /\ AckmInv(WithoutInitial(a, s, TRUE),
                    Tell(t, INITIAL, Going(a, s, TRUE), "discarded"), n, lim)
         /\ WithoutFields(WithoutInitial(a, s, TRUE), a, s, TRUE)
BY WithoutInitialKeeps, Zenon

\* The packetiser after a packet was sent.
LEMMA TxpAfterSend ==
  ASSUME txp \in TxpType, NEW s \in Spaces, NEW acks \in BOOLEAN
  PROVE  LET u == [txp EXCEPT !.next_pn[s] = @ + 1, !.want_ack[s] = @ /\ ~acks]
         IN  u \in TxpType /\ u.next_pn = [txp.next_pn EXCEPT ![s] = @ + 1]
<1>1. PICK n \in Nat : n = txp.next_pn[s] + 1
  BY DEF TxpType
<1>2. PICK w \in BOOLEAN : w = (txp.want_ack[s] /\ ~acks)
  OBVIOUS
<1>3. PICK u : u = [txp EXCEPT !.next_pn[s] = n, !.want_ack[s] = w]
  OBVIOUS
<1>4. u \in TxpType /\ u.next_pn = [txp.next_pn EXCEPT ![s] = n]
  <2>1. u \in TxpType
    BY <1>3 DEF TxpType
  <2> QED BY <1>3, <2>1 DEF TxpType
<1>5. [txp EXCEPT !.next_pn[s] = @ + 1, !.want_ack[s] = @ /\ ~acks] = u
  BY <1>1, <1>2, <1>3
<1> QED BY <1>1, <1>4, <1>5

\* The packetiser after packets were lost.
LEMMA TxpAfterLoss ==
  ASSUME txp \in TxpType, NEW s \in Spaces, NEW pkts
  PROVE  Regen(s, pkts) \in TxpType /\ Regen(s, pkts).next_pn = txp.next_pn
<1>1. PICK w \in BOOLEAN : w = (txp.want_ack[s] \/ \E p \in pkts : p.largest # NONE)
  OBVIOUS
<1>2. Regen(s, pkts) = [txp EXCEPT !.want_ack[s] = w]
  BY <1>1 DEF Regen
<1> QED BY <1>2 DEF TxpType

\* The packet that Send makes.
SentPacket(s, eliciting, padded, acks) ==
  [pn |-> txp.next_pn[s], time |-> now, eliciting |-> eliciting,
   inflight |-> eliciting \/ padded,
   largest |-> IF acks THEN Max(AckFrame(s)) ELSE NONE]

\* It is a packet, and in flight if it elicits an ACK.
LEMMA SentPacketIs ==
  ASSUME Clock, PktInv, RxInv, NEW s \in Spaces, NEW eliciting \in BOOLEAN,
         NEW padded \in BOOLEAN, NEW acks \in BOOLEAN, acks => AckFrame(s) # {}
  PROVE  LET p == SentPacket(s, eliciting, padded, acks)
         IN  /\ p \in PacketType /\ p.pn = txp.next_pn[s] /\ p.time = now
             /\ p.eliciting => p.inflight
<1>1. PICK l \in Nat \cup {NONE} : l = IF acks THEN Max(AckFrame(s)) ELSE NONE
  <2>1. CASE acks
    <3>1. HistoryOK(rx[s], times[s], owed[s], s)
      BY DEF RxInv
    <3>2. rx[s].set \subseteq Nat /\ IsFiniteSet(rx[s].set)
      BY <3>1 DEF HistoryOK, RxType
    <3>3. AckFrame(s) \in SUBSET rx[s].set
      BY TopRangesIn DEF AckFrame
    <3>4. AckFrame(s) \subseteq Nat /\ AckFrame(s) \subseteq Int /\ IsFiniteSet(AckFrame(s))
      BY <3>2, <3>3, FS_Subset
    <3>5. Max(AckFrame(s)) \in AckFrame(s)
      BY <2>1, <3>4, MaxIn
    <3> QED BY <2>1, <3>4, <3>5
  <2>2. CASE ~acks
    BY <2>2
  <2> QED BY <2>1, <2>2
<1>2. PICK f \in BOOLEAN : f = (eliciting \/ padded)
  OBVIOUS
<1>3. PICK n \in Nat, t \in Nat : n = txp.next_pn[s] /\ t = now
  BY CaseType DEF PktInv
<1>4. SentPacket(s, eliciting, padded, acks) =
        [pn |-> n, time |-> t, eliciting |-> eliciting, inflight |-> f, largest |-> l]
  BY <1>1, <1>2, <1>3 DEF SentPacket
<1> QED BY <1>2, <1>3, <1>4 DEF PacketType

\* What Send does once the packet is made.
Sends(s, p, acks) ==
  /\ ackm' = WithoutInitial(OnTxPacket(ackm, p, s), s, FALSE)
  /\ cc' = Invalidated(IF p.inflight THEN [cc EXCEPT !.in_flight = @ + 1] ELSE cc,
                       Outdated(s, FALSE))
  /\ told' = Tell(told, INITIAL, Outdated(s, FALSE), "discarded")
  /\ txp' = [txp EXCEPT !.next_pn[s] = @ + 1, !.want_ack[s] = @ /\ ~acks]

\* A packet that is sent keeps the invariant.
LEMMA SentKeeps ==
  ASSUME Clock, PktInv, RxInv, NEW s \in Spaces, NEW eliciting \in BOOLEAN,
         NEW padded \in BOOLEAN, NEW acks \in BOOLEAN, acks => AckFrame(s) # {},
         NEW p, p = SentPacket(s, eliciting, padded, acks),
         ~ackm.discarded[s], txp.next_pn[s] < case.tx[s], case' = case, undone' = undone,
         Sends(s, p, acks)
  PROVE  PktInv' /\ cc'.cwnd = cc.cwnd
<1>1. p \in PacketType /\ p.pn = txp.next_pn[s] /\ p.time = now /\ (p.eliciting => p.inflight)
  BY SentPacketIs
<1>2. PICK n \in [Spaces -> Nat] : n = txp.next_pn
  BY DEF PktInv
<1>3. txp' \in TxpType /\ txp'.next_pn = [n EXCEPT ![s] = @ + 1]
  <2>1. txp \in TxpType
    BY DEF PktInv, TxpType
  <2> QED BY <1>2, <2>1, TxpAfterSend DEF Sends
<1>4. PICK b : b = OnTxPacket(ackm, p, s)
  OBVIOUS
<1>5. AckmInv(b, told, [n EXCEPT ![s] = @ + 1], case.tx) /\ SentFields(b, ackm, s, p)
  <2>1. AckmInv(ackm, told, n, case.tx)
    BY <1>2 DEF PktInv
  <2>2. p.pn = n[s] /\ n[s] < case.tx[s]
    BY <1>1, <1>2
  <2> QED BY <1>1, <1>4, <2>1, <2>2, OnTxPacketKeeps
<1>6. Outdated(s, FALSE) = Going(b, s, FALSE)
  <2>1. s = HANDSHAKE => b.tx[INITIAL] = ackm.tx[INITIAL]
    <3>1. ackm.tx \in [Spaces -> SUBSET PacketType]
      BY DEF PktInv, AckmInv, AckmType
    <3> QED BY <1>5, <3>1 DEF SentFields, Spaces, INITIAL, HANDSHAKE
  <2> QED BY <2>1 DEF Outdated, Going
<1>7. PICK w : w = WithoutInitial(b, s, FALSE)
  OBVIOUS
<1>8. /\ AckmInv(w, Tell(told, INITIAL, Going(b, s, FALSE), "discarded"),
                 [n EXCEPT ![s] = @ + 1], case.tx)
      /\ WithoutFields(w, b, s, FALSE)
  BY <1>5, <1>7, ClientWithoutInitial
<1>9. ackm' = w /\ AckmInv(ackm', told', txp'.next_pn, case.tx)
  <2>1. ackm' = w /\ told' = Tell(told, INITIAL, Going(b, s, FALSE), "discarded")
    BY <1>4, <1>6, <1>7 DEF Sends
  <2> QED BY <1>3, <1>8, <2>1
<1>10. PICK c \in CcType : /\ c = IF p.inflight THEN [cc EXCEPT !.in_flight = @ + 1] ELSE cc
                           /\ c.in_flight = cc.in_flight + (IF p.inflight THEN 1 ELSE 0)
                           /\ c.cwnd = cc.cwnd
  <2>1. cc \in CcType /\ cc.in_flight \in Int
    BY CcFields DEF PktInv
  <2>2. PICK k \in Int : k = cc.in_flight + 1
    BY <2>1
  <2>3. [cc EXCEPT !.in_flight = k] \in CcType
    BY <2>1 DEF CcType
  <2>4. [cc EXCEPT !.in_flight = @ + 1] = [cc EXCEPT !.in_flight = k]
    BY <2>2
  <2>5. [cc EXCEPT !.in_flight = k].in_flight = k /\ [cc EXCEPT !.in_flight = k].cwnd = cc.cwnd
    BY <2>1 DEF CcType
  <2>6. CASE p.inflight
    BY <2>2, <2>3, <2>4, <2>5, <2>6
  <2>7. CASE ~p.inflight
    BY <2>1, <2>7
  <2> QED BY <2>6, <2>7
<1>11. Cardinality(InFlight(Outdated(s, FALSE))) \in Nat
  BY <1>6, <1>8 DEF WithoutFields
<1>12. /\ cc' \in CcType /\ cc'.cwnd = cc.cwnd
       /\ cc'.in_flight = c.in_flight - Cardinality(InFlight(Outdated(s, FALSE)))
  <2>1. cc' = Invalidated(c, Outdated(s, FALSE))
    BY <1>10 DEF Sends
  <2> QED BY <1>10, <1>11, <2>1, InvalidatedIs
<1>13. cc'.in_flight = ackm'.in_flight + undone' /\ undone' \in Nat
  <2>1. PICK i \in Nat : i = IF p.inflight THEN 1 ELSE 0
    OBVIOUS
  <2>2. PICK k \in Nat : k = Cardinality(InFlight(Outdated(s, FALSE)))
    BY <1>11
  <2>3. PICK x \in Int, u \in Nat : x = ackm.in_flight /\ u = undone
    BY DEF PktInv, AckmInv, AckmType
  <2>4. b.in_flight = x + i
    BY <1>5, <2>1, <2>3 DEF SentFields
  <2>5. ackm'.in_flight = b.in_flight - k
    BY <1>6, <1>8, <1>9, <2>2 DEF WithoutFields
  <2>6. cc.in_flight = x + u
    BY <2>3 DEF PktInv
  <2>7. c.in_flight = cc.in_flight + i
    BY <1>10, <2>1
  <2>8. cc'.in_flight = c.in_flight - k
    BY <1>12, <2>2
  <2>9. cc'.in_flight = x + u + i - k
    BY <2>6, <2>7, <2>8
  <2>10. ackm'.in_flight = x + i - k /\ undone' = u
    BY <2>3, <2>4, <2>5
  <2> QED BY <2>9, <2>10
<1>14. ASSUME ~case.is_server
       PROVE  /\ txp'.next_pn[HANDSHAKE] > 0 => ackm'.discarded[INITIAL]
              /\ ackm'.validated => ackm'.discarded[INITIAL]
  <2>1. /\ txp.next_pn[HANDSHAKE] > 0 => ackm.discarded[INITIAL]
        /\ ackm.validated => ackm.discarded[INITIAL]
    BY <1>14 DEF PktInv
  <2>2. INITIAL \in Spaces /\ HANDSHAKE \in Spaces
    BY DEF Spaces
  <2>3. (ackm.discarded[INITIAL] => ackm'.discarded[INITIAL]) /\ ackm'.validated = ackm.validated
    BY <1>5, <1>8, <1>9, <2>2 DEF SentFields, WithoutFields
  <2>4. s = HANDSHAKE => ackm'.discarded[INITIAL]
    BY <1>8, <1>9, <1>14, CaseType DEF WithoutFields
  <2>5. s # HANDSHAKE => txp'.next_pn[HANDSHAKE] = txp.next_pn[HANDSHAKE]
    BY <1>2, <1>3, <2>2
  <2> QED BY <2>1, <2>3, <2>4, <2>5
<1> QED BY <1>3, <1>9, <1>12, <1>13, <1>14, PktNext

\* The sending side is left alone.
LEMMA PktSame ==
  ASSUME PktInv, UNCHANGED <<case, ackm, cc, told, txp, undone>>
  PROVE  PktInv'
BY DEF PktInv, AckmInv, TimeInv

\* Send keeps the invariant of the sending side, and the window.
LEMMA SendPkt ==
  ASSUME Clock, PktInv, RxInv, NEW s \in Spaces, NEW eliciting \in BOOLEAN,
         NEW padded \in BOOLEAN, Send(s, eliciting, padded)
  PROVE  PktInv' /\ cc'.cwnd = cc.cwnd
<1>1. PICK acks \in BOOLEAN : acks = (WantsAck(s) /\ AckFrame(s) # {})
  OBVIOUS
<1>2. PICK sent \in BOOLEAN : sent = (eliciting \/ acks)
  OBVIOUS
<1>3. PICK p : p = SentPacket(s, eliciting, padded, acks)
  OBVIOUS
<1>4. ~ackm.discarded[s] /\ txp.next_pn[s] < case.tx[s] /\ case' = case /\ undone' = undone
  BY DEF Send
<1>5. CASE sent
  <2>1. Sends(s, p, acks)
    BY <1>1, <1>2, <1>3, <1>5 DEF Send, SentPacket, Sends
  <2> QED BY <1>1, <1>3, <1>4, <2>1, SentKeeps
<1>6. CASE ~sent
  <2>1. UNCHANGED <<ackm, cc, told, txp>>
    BY <1>1, <1>2, <1>6 DEF Send
  <2> QED BY <1>4, <2>1, PktSame
<1> QED BY <1>5, <1>6

-----------------------------------------------------------------------------
(* The packets that were decrypted and wait.                               *)

\* A step that processes no packet, and passes no time while one waits.
LEMMA QueueSame ==
  ASSUME QueueInv, UNCHANGED <<case, queue, times, together>>,
         queue = {} \/ UNCHANGED <<now, owed>>
  PROVE  QueueInv'
<1>1. NoDuplicate'
  BY DEF QueueInv, NoDuplicate
<1>2. ASSUME NEW q \in queue PROVE Waits(q)'
  BY <1>2 DEF QueueInv, Waits
<1> QED BY <1>1, <1>2 DEF QueueInv

\* A packet is processed that was not, or whose other copy was decrypted with it.
LEMMA ProcessedCounts ==
  ASSUME RxInv, NoDuplicate, NEW s \in Spaces, NEW pn \in DOMAIN times[s],
         times' = [times EXCEPT ![s][pn] = @ + 1], together \subseteq together',
         times[s][pn] = 0 \/ (times[s][pn] = 1 /\ <<s, pn>> \in together')
  PROVE  /\ NoDuplicate'
         /\ times'[s][pn] = times[s][pn] + 1
         /\ \A u \in Spaces : \A n \in DOMAIN times[u] :
              u # s \/ n # pn => times'[u][n] = times[u][n]
<1>1. \A u \in Spaces : times[u] \in [case.rx[u] -> Nat]
  BY DEF RxInv, HistoryOK
<1>2. times = [u \in Spaces |-> times[u]]
  BY DEF RxInv
<1>3. times' = [u \in Spaces |->
                  IF u = s THEN [times[s] EXCEPT ![pn] = @ + 1] ELSE times[u]]
  BY <1>2
<1>4. /\ \A u \in Spaces : DOMAIN times'[u] = DOMAIN times[u]
      /\ times'[s][pn] = times[s][pn] + 1
      /\ \A u \in Spaces : \A n \in DOMAIN times[u] :
           u # s \/ n # pn => times'[u][n] = times[u][n]
  BY <1>1, <1>3
<1>5. ASSUME NEW u \in Spaces, NEW n \in DOMAIN times'[u]
      PROVE  times'[u][n] <= IF <<u, n>> \in together' THEN 2 ELSE 1
  <2>1. n \in DOMAIN times[u] /\ times[u][n] \in Nat
    BY <1>1, <1>4
  <2>2. CASE u = s /\ n = pn
    BY <1>4, <2>2
  <2>3. CASE u # s \/ n # pn
    <3>1. times'[u][n] = times[u][n]
      BY <1>4, <2>1, <2>3
    <3>2. times[u][n] <= IF <<u, n>> \in together THEN 2 ELSE 1
      BY <2>1 DEF NoDuplicate
    <3> QED BY <2>1, <3>1, <3>2
  <2> QED BY <2>2, <2>3
<1> QED BY <1>4, <1>5 DEF NoDuplicate

\* What is decrypted was not processed.
LEMMA DecryptableNew ==
  ASSUME RxInv, NEW s \in Spaces, NEW pn \in DOMAIN times[s], Decryptable(s, pn)
  PROVE  pn \in case.rx[s] /\ times[s][pn] = 0
<1>1. HistoryOK(rx[s], times[s], owed[s], s)
  BY DEF RxInv
<1>2. times[s] \in [case.rx[s] -> Nat] /\ (times[s][pn] > 0 => ~Processable(rx[s], pn))
  BY <1>1 DEF HistoryOK
<1> QED BY <1>2 DEF Decryptable

\* The first packet of those decrypted.
LEMMA ReceiveQueue ==
  ASSUME RxInv, QueueInv, NEW s \in Spaces, NEW eliciting \in BOOLEAN,
         NEW pn \in DOMAIN times[s], NEW pns, Receive(s, pn, eliciting, pns)
  PROVE  QueueInv'
<1>1. /\ queue = {} /\ Decryptable(s, pn)
      /\ \/ UNCHANGED <<queue, together>>
         \/ \E q \in Along(s, pn, eliciting) :
              /\ queue' = {q}
              /\ together' = together \cup {<<s, pn>> : c \in {TRUE} \cap {q.copy}}
  BY DEF Receive
<1>2. /\ times' = [times EXCEPT ![s][pn] = @ + 1] /\ case' = case /\ now' = now
      /\ owed' = IF eliciting THEN [owed EXCEPT ![s] = @ \cup {<<pn, now>>}] ELSE owed
  BY DEF Receive, HandleFrames
<1>3. pn \in case.rx[s] /\ times[s][pn] = 0
  BY <1>1, DecryptableNew
<1>4. together \subseteq together'
  BY <1>1
<1>5. /\ NoDuplicate'
      /\ times'[s][pn] = 1
      /\ \A u \in Spaces : \A n \in DOMAIN times[u] :
           u # s \/ n # pn => times'[u][n] = times[u][n]
  <2>1. NoDuplicate /\ times' = [times EXCEPT ![s][pn] = @ + 1]
    BY <1>2 DEF QueueInv
  <2>2. /\ NoDuplicate' /\ times'[s][pn] = times[s][pn] + 1
        /\ \A u \in Spaces : \A n \in DOMAIN times[u] :
             u # s \/ n # pn => times'[u][n] = times[u][n]
    BY <1>3, <1>4, <2>1, ProcessedCounts
  <2> QED BY <1>3, <2>2
<1>6. CASE UNCHANGED <<queue, together>>
  BY <1>1, <1>5, <1>6 DEF QueueInv
<1>7. ASSUME NEW q \in Along(s, pn, eliciting), queue' = {q},
             together' = together \cup {<<s, pn>> : c \in {TRUE} \cap {q.copy}}
      PROVE  QueueInv'
  <2>1. /\ q.space \in Spaces /\ q.pn \in DOMAIN times[q.space] /\ q.eliciting \in BOOLEAN
        /\ q.copy \in BOOLEAN /\ Decryptable(q.space, q.pn)
        /\ q.copy <=> q.space = s /\ q.pn = pn
        /\ q.copy => q.eliciting = eliciting
    BY <1>7 DEF Along
  <2>2. q.pn \in case.rx[q.space] /\ times[q.space][q.pn] = 0
    BY <2>1, DecryptableNew
  <2>3. ~q.copy => times'[q.space][q.pn] = 0
    BY <1>5, <2>1, <2>2
  <2>4. q.copy => times'[q.space][q.pn] = 1 /\ <<q.space, q.pn>> \in together'
    BY <1>5, <1>7, <2>1
  <2>5. q.copy /\ q.eliciting => <<q.pn, now>> \in owed'[q.space]
    <3>1. owed = [u \in Spaces |-> owed[u]]
      BY DEF RxInv
    <3>2. q.copy /\ q.eliciting => owed'[s] = owed[s] \cup {<<pn, now>>}
      BY <1>2, <2>1, <3>1
    <3> QED BY <2>1, <3>2
  <2>6. Waits(q)'
    BY <1>2, <2>1, <2>2, <2>3, <2>4, <2>5 DEF Waits
  <2>7. \A r \in queue' : r = q
    BY <1>7
  <2> QED BY <1>5, <2>6, <2>7 DEF QueueInv
<1> QED BY <1>1, <1>6, <1>7

\* The second.
LEMMA ReceiveNextQueue ==
  ASSUME RxInv, QueueInv, NEW q \in queue, queue' = queue \ {q}, together' = together,
         times' = times \/ times' = [times EXCEPT ![q.space][q.pn] = @ + 1]
  PROVE  QueueInv'
<1>1. queue' = {}
  BY DEF QueueInv
<1>2. Waits(q) /\ NoDuplicate
  BY DEF QueueInv
<1>3. q.space \in Spaces /\ q.pn \in DOMAIN times[q.space]
  BY <1>2 DEF Waits, RxInv, HistoryOK
<1>4. CASE times' = times
  BY <1>1, <1>2, <1>4 DEF QueueInv, NoDuplicate
<1>5. CASE times' = [times EXCEPT ![q.space][q.pn] = @ + 1]
  <2>1. times[q.space][q.pn] = 0
          \/ (times[q.space][q.pn] = 1 /\ <<q.space, q.pn>> \in together')
    BY <1>2 DEF Waits
  <2>2. NoDuplicate'
    BY <1>2, <1>3, <1>5, <2>1, ProcessedCounts
  <2> QED BY <1>1, <2>2 DEF QueueInv
<1> QED BY <1>4, <1>5

-----------------------------------------------------------------------------
(* Losses and the congestion window.                                       *)

\* What a packet is told stays told.
LEMMA TellTells ==
  ASSUME NEW t, t = [u \in Spaces |-> t[u]], NEW s \in Spaces, NEW pkts, NEW what,
         NEW pn \in DOMAIN t[s]
  PROVE  LET T == Tell(t, s, pkts, what)
         IN  /\ T = [u \in Spaces |-> T[u]] /\ pn \in DOMAIN T[s]
             /\ t[s][pn] \subseteq T[s][pn]
             /\ \A p \in pkts : p.pn = pn => what \in T[s][pn]
<1>1. PICK T : T = Tell(t, s, pkts, what)
  OBVIOUS
<1>2. T = [u \in Spaces |-> IF u = s THEN TellOne(t[u], pkts, what) ELSE t[u]]
  BY <1>1, TellIs
<1>3. T[s] = TellOne(t[s], pkts, what) /\ T = [u \in Spaces |-> T[u]]
  BY <1>2
<1>4. T[s][pn] = t[s][pn] \cup {what : p \in {q \in pkts : q.pn = pn}} /\ pn \in DOMAIN T[s]
  BY <1>3 DEF TellOne
<1> QED BY <1>1, <1>3, <1>4

\* A lost packet is told so, whatever the acknowledged ones are told.
LEMMA LostTold ==
  ASSUME NEW t, t = [u \in Spaces |-> t[u]], NEW s \in Spaces, NEW newly, NEW lost,
         NEW p \in lost, p.pn \in DOMAIN t[s]
  PROVE  "lost" \in Tell(Tell(t, s, lost, "lost"), s, newly, "acked")[s][p.pn]
<1>1. PICK pn \in DOMAIN t[s] : pn = p.pn
  OBVIOUS
<1>2. PICK L : L = Tell(t, s, lost, "lost")
  OBVIOUS
<1>3. L = [u \in Spaces |-> L[u]] /\ pn \in DOMAIN L[s] /\ "lost" \in L[s][pn]
  <2>1. /\ L = [u \in Spaces |-> L[u]] /\ pn \in DOMAIN L[s]
        /\ \A q \in lost : q.pn = pn => "lost" \in L[s][pn]
    BY <1>2, TellTells
  <2> QED BY <1>1, <2>1
<1>4. L[s][pn] \subseteq Tell(L, s, newly, "acked")[s][pn]
  BY <1>3, TellTells
<1> QED BY <1>1, <1>2, <1>3, <1>4

\* A packet that was told it is lost was told nothing else.
LEMMA ToldOnce ==
  ASSUME NEW b, NEW t, NEW n, NEW lim, Books(b, t, n, lim), NEW s \in Spaces,
         NEW pn \in 0 .. lim[s] - 1, "lost" \in t[s][pn]
  PROVE  t[s][pn] = {"lost"}
<1>1. SpaceOK(b.tx[s], t[s], n[s], b.eliciting[s], lim[s])
  BY DEF Books
<1>2. (\E w \in Fates : t[s][pn] = {w}) \/ t[s][pn] = {}
  BY <1>1 DEF SpaceOK
<1> QED BY <1>2

\* A packet in a history has a number that was sent.
LEMMA PnKnown ==
  ASSUME NEW a, NEW t, NEW n, NEW lim, Books(a, t, n, lim), NEW s \in Spaces, NEW p \in a.tx[s]
  PROVE  /\ p.pn \in 0 .. lim[s] - 1 /\ DOMAIN t[s] = 0 .. lim[s] - 1
         /\ t = [u \in Spaces |-> t[u]]
<1>1. SpaceOK(a.tx[s], t[s], n[s], a.eliciting[s], lim[s])
  BY DEF Books
<1>2. /\ n[s] \in 0 .. lim[s] /\ lim[s] \in Nat /\ p \in PacketType /\ p.pn < n[s]
      /\ DOMAIN t[s] = 0 .. lim[s] - 1
  BY <1>1 DEF SpaceOK
<1>3. p.pn \in Nat
  BY <1>2 DEF PacketType
<1> QED BY <1>2, <1>3 DEF Books

\* The controller hears of losses before acknowledgements: only the
\* former shrink the window.
LEMMA LossesAnswered ==
  ASSUME Clock, NEW a \in AckmType, NEW t, NEW n, NEW lim, Books(a, t, n, lim),
         NEW s \in Spaces, NEW newly, newly \subseteq a.tx[s],
         NEW lost, lost \subseteq a.tx[s] \ newly, NEW c0 \in CcType
  PROVE  LET c == AllAcked(AllLost(c0, InFlight(lost)), InFlight(newly))
         IN  /\ c \in CcType
             /\ c.in_flight = c0.in_flight - Cardinality(InFlight(lost)) - Cardinality(InFlight(newly))
             /\ c.cwnd < c0.cwnd => \E p \in lost : p.inflight /\ p.time > c0.recovery
<1>1. lost \subseteq a.tx[s]
  OBVIOUS
<1>2. /\ IsFiniteSet(lost) /\ lost \subseteq PacketType
      /\ IsFiniteSet(newly) /\ newly \subseteq PacketType
  BY <1>1, PartCounts
<1>3. InFlight(lost) \in SUBSET lost /\ InFlight(newly) \in SUBSET newly
  BY DEF InFlight
<1>4. PICK L, A : L = InFlight(lost) /\ A = InFlight(newly)
  OBVIOUS
<1>5. IsFiniteSet(L) /\ L \subseteq PacketType /\ IsFiniteSet(A) /\ A \subseteq PacketType
  BY <1>2, <1>3, <1>4, FS_Subset
<1>6. PICK d : d = AllLost(c0, L)
  OBVIOUS
<1>7. /\ d \in CcType /\ d.in_flight = c0.in_flight - Cardinality(L)
      /\ d.cwnd < c0.cwnd => \E p \in L : p.time > c0.recovery
  BY <1>5, <1>6, AllLostIs
<1>8. /\ \A p, q \in A : p.pn = q.pn => p = q
      /\ n[s] \in Nat /\ \A p \in A : p.pn < n[s]
  <2>1. SpaceOK(a.tx[s], t[s], n[s], a.eliciting[s], lim[s])
    BY DEF Books
  <2>2. A \subseteq a.tx[s]
    BY <1>3, <1>4
  <2> QED BY <2>1, <2>2 DEF SpaceOK
<1>9. PICK c : c = AllAcked(d, A)
  OBVIOUS
<1>10. c \in CcType /\ c.in_flight = d.in_flight - Cardinality(A) /\ c.cwnd >= d.cwnd
  BY <1>5, <1>7, <1>8, <1>9, AllAckedIs
<1>11. c.cwnd < c0.cwnd => d.cwnd < c0.cwnd
  <2>1. c.cwnd \in Int /\ d.cwnd \in Int /\ c0.cwnd \in Int
    BY <1>7, <1>10, CcFields
  <2> QED BY <1>10, <2>1
<1>12. \A p \in L : p \in lost /\ p.inflight
  BY <1>4 DEF InFlight
<1>13. c.cwnd < c0.cwnd => \E p \in lost : p.inflight /\ p.time > c0.recovery
  BY <1>7, <1>11, <1>12
<1>14. c.in_flight = c0.in_flight - Cardinality(L) - Cardinality(A)
  BY <1>7, <1>10
<1> QED BY <1>4, <1>6, <1>9, <1>10, <1>13, <1>14

\* A step that shrinks the congestion window loses a packet that was sent after
\* the last reduction.
Justified ==
  cc'.cwnd < cc.cwnd =>
    \E s \in Spaces : \E p \in ackm.tx[s] :
      /\ told'[s][p.pn] = {"lost"}
      /\ p.inflight /\ p.time > cc.recovery

\* A step that leaves the window alone does not shrink it.
LEMMA NotSmaller ==
  ASSUME PktInv, cc'.cwnd = cc.cwnd
  PROVE  Justified
<1>1. cc.cwnd \in Int
  BY CcFields DEF PktInv
<1> QED BY <1>1 DEF Justified

\* Receive up to the ACK frame: a server may have done with the Initial space.
Started(a0, c0, t0, s) ==
  /\ AckmInv(a0, t0, txp.next_pn, case.tx) /\ c0 \in CcType
  /\ c0.in_flight = a0.in_flight + undone
  /\ c0.cwnd = cc.cwnd /\ c0.recovery = cc.recovery
  /\ a0.tx[s] = ackm.tx[s] /\ (a0.validated <=> ackm.validated)
  /\ ackm.discarded[INITIAL] => a0.discarded[INITIAL]
  /\ Fewer(a0, ackm)

\* Started holds before the frames are processed.
LEMMA ReceiveStart ==
  ASSUME Clock, PktInv, NEW s \in Spaces,
         NEW a0, a0 = WithoutInitial(ackm, s, TRUE),
         NEW c0, c0 = Invalidated(cc, Outdated(s, TRUE)),
         NEW t0, t0 = Tell(told, INITIAL, Outdated(s, TRUE), "discarded")
  PROVE  Started(a0, c0, t0, s)
<1>1. AckmInv(ackm, told, txp.next_pn, case.tx)
  BY DEF PktInv
<1>2. Outdated(s, TRUE) = Going(ackm, s, TRUE)
  BY DEF Outdated, Going
<1>3. AckmInv(a0, t0, txp.next_pn, case.tx) /\ WithoutFields(a0, ackm, s, TRUE)
  BY <1>1, <1>2, ServerWithoutInitial
<1>4. PICK k \in Nat : k = Cardinality(InFlight(Outdated(s, TRUE)))
  BY <1>2, <1>3 DEF WithoutFields
<1>5. cc \in CcType /\ cc.in_flight \in Int
  BY CcFields DEF PktInv
<1>6. /\ c0 \in CcType /\ c0.in_flight = cc.in_flight - k
      /\ c0.cwnd = cc.cwnd /\ c0.recovery = cc.recovery
  BY <1>4, <1>5, InvalidatedIs
<1>7. c0.in_flight = a0.in_flight + undone
  <2>1. PICK x \in Int, u \in Nat : x = ackm.in_flight /\ u = undone
    BY <1>1 DEF PktInv, AckmInv, AckmType
  <2>2. cc.in_flight = x + u
    BY <2>1 DEF PktInv
  <2>3. a0.in_flight = x - k
    BY <1>2, <1>3, <1>4, <2>1 DEF WithoutFields
  <2>4. c0.in_flight = (x + u) - k
    BY <1>6, <2>2
  <2>5. (x + u) - k = (x - k) + u
    OBVIOUS
  <2> QED BY <2>1, <2>3, <2>4, <2>5
<1>8. a0.tx[s] = ackm.tx[s] /\ a0.validated = ackm.validated
  BY <1>3 DEF WithoutFields
<1>9. ackm.discarded[INITIAL] => a0.discarded[INITIAL]
  BY <1>3 DEF WithoutFields, Spaces
<1>10. Fewer(a0, ackm)
  BY <1>3 DEF WithoutFields
<1> QED BY <1>3, <1>6, <1>7, <1>8, <1>9, <1>10 DEF Started

\* What the ACK frame says of the peer does not disturb the books.
Seen(a, a0, t, n, lim, s) ==
  /\ a \in AckmType /\ Books(a, t, n, lim) /\ TimeInv(a)
  /\ a.validated = a0.validated => Armed(a)
  /\ a.tx = a0.tx /\ a.in_flight = a0.in_flight /\ a.discarded = a0.discarded
  /\ a.validated <=> a0.validated \/ s = HANDSHAKE

\* Only when the peer becomes validated must the timer be set again.
LEMMA AckSeenKeeps ==
  ASSUME Clock, NEW a0, NEW t, NEW n \in [Spaces -> Nat], NEW lim, AckmInv(a0, t, n, lim),
         NEW s \in Spaces, NEW pns, pns \subseteq 0 .. n[s] - 1, NEW a, a = AckSeen(a0, s, pns)
  PROVE  Seen(a, a0, t, n, lim, s)
<1>1. AckSeenFields(a, a0, s)
  <2>1. n[s] \in Nat /\ a0 \in AckmType
    BY DEF AckmInv
  <2> QED BY <2>1, AckSeenIs
<1>2. SameBooks(a, a0)
  BY <1>1 DEF AckSeenFields
<1>3. a \in AckmType /\ a.tx = a0.tx /\ a.in_flight = a0.in_flight /\ a.discarded = a0.discarded
      /\ a.eliciting = a0.eliciting
  BY <1>2 DEF SameBooks
<1>4. Books(a, t, n, lim)
  BY <1>2, BooksSame DEF AckmInv
<1>5. TimeInv(a)
  <2>1. TimeInv(a0)
    BY DEF AckmInv
  <2>2. a.last_eliciting = a0.last_eliciting /\ a.loss_time = a0.loss_time
    BY <1>1 DEF AckSeenFields
  <2> QED BY <1>3, <2>1, <2>2 DEF TimeInv
<1>6. ASSUME a.validated = a0.validated PROVE Armed(a)
  <2>1. Armed(a0)
    BY DEF AckmInv
  <2>2. a.deadline = a0.deadline /\ a.loss_time = a0.loss_time /\ a.confirmed = a0.confirmed
    BY <1>1 DEF AckSeenFields
  <2>3. LossSpace(a) = LossSpace(a0)
    BY <2>2 DEF LossSpace
  <2> QED BY <1>3, <1>6, <2>1, <2>2, <2>3 DEF Armed
<1>7. a.validated <=> a0.validated \/ s = HANDSHAKE
  BY <1>1 DEF AckSeenFields
<1> QED BY <1>3, <1>4, <1>5, <1>6, <1>7 DEF Seen

\* Only a client that has done with the Initial space has Handshake packets
\* that can be acknowledged.
LEMMA ClientKnows ==
  ASSUME Clock, PktInv, NEW s \in Spaces, NEW pns, pns \subseteq 0 .. txp.next_pn[s] - 1, pns # {},
         ~case.is_server, ackm.validated \/ s = HANDSHAKE
  PROVE  ackm.discarded[INITIAL]
<1>1. /\ txp.next_pn[HANDSHAKE] > 0 => ackm.discarded[INITIAL]
      /\ ackm.validated => ackm.discarded[INITIAL]
  BY DEF PktInv
<1>2. CASE s = HANDSHAKE
  <2>1. PICK k \in 0 .. txp.next_pn[HANDSHAKE] - 1 : TRUE
    BY <1>2
  <2>2. txp.next_pn[HANDSHAKE] \in Nat
    BY <1>2 DEF PktInv
  <2>3. txp.next_pn[HANDSHAKE] > 0
    BY <2>1, <2>2
  <2> QED BY <1>1, <2>3
<1>3. CASE s # HANDSHAKE
  BY <1>1, <1>3
<1> QED BY <1>2, <1>3

\* The packets an ACK frame acknowledges, with the losses they reveal.
LEMMA AckedKeeps ==
  ASSUME Clock, PktInv, NEW s \in Spaces, case' = case, undone' = undone,
         NEW a \in AckmType, NEW t0, Books(a, t0, txp.next_pn, case.tx), TimeInv(a),
         a.tx[s] = ackm.tx[s], ~case.is_server /\ a.validated => a.discarded[INITIAL],
         Fewer(a, ackm),
         ~case.is_server /\ txp.next_pn[HANDSHAKE] > 0 => a.discarded[INITIAL],
         NEW c0 \in CcType, c0.in_flight = a.in_flight + undone,
         c0.cwnd = cc.cwnd, c0.recovery = cc.recovery,
         NEW newly, newly \subseteq a.tx[s], NEW lost, lost \subseteq a.tx[s] \ newly,
         NEW delay \in LossDelays,
         ackm' = AckedLost(a, s, newly, lost, delay),
         cc' = AllAcked(AllLost(c0, InFlight(lost)), InFlight(newly)),
         told' = Tell(Tell(t0, s, lost, "lost"), s, newly, "acked"),
         txp' = Regen(s, lost)
  PROVE  PktInv' /\ Justified
<1>1. txp' \in TxpType /\ txp'.next_pn = txp.next_pn
  BY TxpAfterLoss DEF PktInv, TxpType
<1>2. PICK n : n = txp.next_pn
  OBVIOUS
<1>3. PICK b : b = AckedLost(a, s, newly, lost, delay)
  OBVIOUS
<1>4. PICK T : T = Tell(Tell(t0, s, lost, "lost"), s, newly, "acked")
  OBVIOUS
<1>5. /\ AckmInv(b, T, n, case.tx)
      /\ b.in_flight = a.in_flight - Cardinality(InFlight(lost)) - Cardinality(InFlight(newly))
      /\ FateFields(b, a) /\ Fewer(b, a)
  BY <1>2, <1>3, <1>4, AckedLostKeeps
<1>6. PICK c : c = AllAcked(AllLost(c0, InFlight(lost)), InFlight(newly))
  OBVIOUS
<1>7. /\ c \in CcType
      /\ c.in_flight = c0.in_flight - Cardinality(InFlight(lost)) - Cardinality(InFlight(newly))
      /\ c.cwnd < c0.cwnd => \E p \in lost : p.inflight /\ p.time > c0.recovery
  BY <1>6, LossesAnswered
<1>8. lost \subseteq a.tx[s]
  OBVIOUS
<1>9. c.in_flight = b.in_flight + undone /\ undone \in Nat
  <2>1. PICK i \in Nat, j \in Nat : i = Cardinality(InFlight(lost)) /\ j = Cardinality(InFlight(newly))
    BY <1>8, PartCounts
  <2>2. PICK x \in Int, u \in Nat : x = a.in_flight /\ u = undone
    BY DEF PktInv, AckmType
  <2>3. c.in_flight = (x + u) - i - j
    BY <1>7, <2>1, <2>2
  <2>4. b.in_flight = x - i - j
    BY <1>5, <2>1, <2>2
  <2>5. (x + u) - i - j = (x - i - j) + u
    OBVIOUS
  <2> QED BY <2>2, <2>3, <2>4, <2>5
<1>10. ~case.is_server => /\ txp'.next_pn[HANDSHAKE] > 0 => b.discarded[INITIAL]
                          /\ b.validated => b.discarded[INITIAL]
  BY <1>1, <1>5 DEF FateFields
<1>11. ackm' = b /\ cc' = c /\ told' = T
  BY <1>3, <1>4, <1>6
<1>12. PktInv'
  <2>1. AckmInv(ackm', told', txp'.next_pn, case.tx)
    BY <1>1, <1>2, <1>5, <1>11
  <2>2. undone' \in Nat /\ cc'.in_flight = ackm'.in_flight + undone' /\ cc' \in CcType
    BY <1>7, <1>9, <1>11
  <2> QED BY <1>1, <1>10, <1>11, <2>1, <2>2, PktNext
<1>13. ASSUME NEW p \in lost PROVE T[s][p.pn] = {"lost"}
  <2>1. p \in a.tx[s]
    BY <1>8
  <2>2. /\ p.pn \in 0 .. case.tx[s] - 1 /\ DOMAIN t0[s] = 0 .. case.tx[s] - 1
        /\ t0 = [u \in Spaces |-> t0[u]]
    BY <2>1, PnKnown
  <2>3. p.pn \in DOMAIN t0[s]
    BY <2>2
  <2>4. "lost" \in T[s][p.pn]
    BY <1>4, <2>2, <2>3, LostTold
  <2>6. "lost" \in T[s][p.pn] /\ Books(b, T, n, case.tx)
    BY <1>5, <2>4 DEF AckmInv
  <2> QED BY <2>2, <2>6, ToldOnce
<1>14. ASSUME c.cwnd < cc.cwnd
       PROVE  \E p \in ackm.tx[s] : T[s][p.pn] = {"lost"} /\ p.inflight /\ p.time > cc.recovery
  <2>1. PICK p \in lost : p.inflight /\ p.time > c0.recovery
    BY <1>7, <1>14
  <2>2. p \in ackm.tx[s] /\ T[s][p.pn] = {"lost"}
    BY <1>8, <1>13
  <2> QED BY <2>1, <2>2
<1> QED BY <1>11, <1>12, <1>14 DEF Justified

\* Receive keeps both halves of the invariant.
LEMMA ReceiveKeeps ==
  ASSUME Clock, PktInv, RxInv, NEW s \in Spaces, NEW eliciting \in BOOLEAN,
         NEW pn \in DOMAIN times[s], NEW pns \in SUBSET (0 .. txp.next_pn[s] - 1),
         HandleFrames(s, pn, eliciting, pns),
         Expected(times[s][pn], owed[s], pn, eliciting)
  PROVE  PktInv' /\ RxInv' /\ Justified
<1>1. PICK a0, c0, t0 : /\ a0 = WithoutInitial(ackm, s, TRUE)
                        /\ c0 = Invalidated(cc, Outdated(s, TRUE))
                        /\ t0 = Tell(told, INITIAL, Outdated(s, TRUE), "discarded")
  OBVIOUS
<1>2. PICK a : a = AckSeen(a0, s, pns)
  OBVIOUS
<1>3. PICK newly : newly = {p \in a.tx[s] : p.pn \in pns}
  OBVIOUS
<1>4. PICK n \in [Spaces -> Nat] : n = txp.next_pn
  BY DEF PktInv
<1>5. /\ AckmInv(a0, t0, n, case.tx) /\ c0 \in CcType
      /\ c0.in_flight = a0.in_flight + undone
      /\ c0.cwnd = cc.cwnd /\ c0.recovery = cc.recovery
      /\ a0.tx[s] = ackm.tx[s] /\ (a0.validated <=> ackm.validated)
      /\ ackm.discarded[INITIAL] => a0.discarded[INITIAL]
      /\ Fewer(a0, ackm)
  <2>1. Started(a0, c0, t0, s)
    BY <1>1, ReceiveStart
  <2> QED BY <1>4, <2>1 DEF Started
<1>6. /\ a \in AckmType /\ Books(a, t0, n, case.tx) /\ TimeInv(a)
      /\ a.validated = a0.validated => Armed(a)
      /\ a.tx = a0.tx /\ a.in_flight = a0.in_flight /\ a.discarded = a0.discarded
      /\ a.validated <=> a0.validated \/ s = HANDSHAKE
  <2>1. pns \subseteq 0 .. n[s] - 1
    BY <1>4
  <2>2. AckmInv(a0, t0, n, case.tx)
    BY <1>5
  <2>3. Seen(a, a0, t0, n, case.tx, s)
    BY <1>2, <2>1, <2>2, AckSeenKeeps
  <2> QED BY <2>3 DEF Seen
<1>7. newly \subseteq a.tx[s] /\ a.tx[s] = ackm.tx[s]
  BY <1>3, <1>5, <1>6
<1>8. case' = case /\ undone' = undone
  BY DEF HandleFrames
<1>9. RxInv'
  <2>1. PICK w \in Nat : w = Confirmed(newly)
    <3>1. newly \subseteq PacketType /\ IsFiniteSet(newly)
      BY <1>6, <1>7, PartCounts
    <3> QED BY <3>1, ConfirmedType
  <2>2. rx' = [rx EXCEPT ![s] = OnRxPacket(Bump(@, Confirmed(newly)), s, pn, eliciting)]
    BY <1>1, <1>2, <1>3 DEF HandleFrames
  <2>3. /\ rx' = [rx EXCEPT ![s] = OnRxPacket(Bump(@, w), s, pn, eliciting)]
        /\ times' = [times EXCEPT ![s][pn] = @ + 1]
        /\ owed' = IF eliciting THEN [owed EXCEPT ![s] = @ \cup {<<pn, now>>}] ELSE owed
    BY <2>1, <2>2 DEF HandleFrames
  <2> QED BY <1>8, <2>3, ReceiveRx
<1>10. ASSUME ~case.is_server
       PROVE  /\ n[HANDSHAKE] > 0 => a0.discarded[INITIAL]
              /\ a0.validated => a0.discarded[INITIAL]
              /\ pns # {} /\ a.validated => a0.discarded[INITIAL]
  <2>1. /\ txp.next_pn[HANDSHAKE] > 0 => ackm.discarded[INITIAL]
        /\ ackm.validated => ackm.discarded[INITIAL]
    BY <1>10 DEF PktInv
  <2>2. ASSUME pns # {}, a.validated PROVE ackm.discarded[INITIAL]
    <3>1. ackm.validated \/ s = HANDSHAKE
      BY <1>5, <1>6, <2>2
    <3> QED BY <1>10, <2>2, <3>1, ClientKnows
  <2> QED BY <1>4, <1>5, <2>1, <2>2
<1>11. CASE newly = {}
  <2>1. cc' = c0 /\ told' = t0 /\ txp' = txp
    BY <1>1, <1>2, <1>3, <1>11 DEF HandleFrames
  <2>2. ackm' = CASE pns = {} -> a0
                  [] pns # {} /\ a.validated = a0.validated -> a
                  [] OTHER -> SetTimer(a)
    BY <1>1, <1>2, <1>3, <1>11 DEF HandleFrames
  <2>3. AckmInv(SetTimer(a), t0, n, case.tx) /\ Retimed(SetTimer(a), a)
    BY <1>6, TimerKeeps, SetTimerIs
  <2>4. AckmInv(ackm', t0, n, case.tx) /\ ackm'.in_flight = a0.in_flight
          /\ ackm'.discarded = a0.discarded /\ ackm'.tx = a0.tx
          /\ (ackm'.validated => a0.validated \/ (pns # {} /\ a.validated))
    <3>1. CASE pns = {}
      <4>1. ackm' = a0
        BY <2>2, <3>1
      <4> QED BY <1>5, <4>1
    <3>2. CASE pns # {} /\ a.validated = a0.validated
      <4>1. ackm' = a
        BY <2>2, <3>2
      <4>2. AckmInv(a, t0, n, case.tx)
        BY <1>6, <3>2 DEF AckmInv
      <4> QED BY <1>6, <3>2, <4>1, <4>2
    <3>3. CASE pns # {} /\ a.validated # a0.validated
      <4>1. ackm' = SetTimer(a)
        BY <2>2, <3>3
      <4> QED BY <1>6, <2>3, <3>3, <4>1 DEF Retimed
    <3> QED BY <3>1, <3>2, <3>3
  <2>5. txp' \in TxpType /\ txp'.next_pn = n
    BY <1>4, <2>1 DEF PktInv, TxpType
  <2>6. AckmInv(ackm', told', txp'.next_pn, case.tx)
    BY <2>1, <2>4, <2>5
  <2>7. cc' \in CcType /\ cc'.in_flight = ackm'.in_flight + undone' /\ undone' \in Nat
    BY <1>5, <1>8, <2>1, <2>4 DEF PktInv
  <2>8. ~case.is_server => /\ txp'.next_pn[HANDSHAKE] > 0 => ackm'.discarded[INITIAL]
                           /\ ackm'.validated => ackm'.discarded[INITIAL]
    BY <1>10, <2>4, <2>5
  <2>9. PktInv'
    BY <1>8, <2>5, <2>6, <2>7, <2>8, PktNext
  <2>10. Justified
    BY <1>5, <2>1, NotSmaller
  <2> QED BY <1>9, <2>9, <2>10
<1>12. CASE newly # {}
  <2>1. PICK delay \in LossDelays :
          LET lost == LostOf(a.tx[s] \ newly, a.largest_acked[s], delay)
          IN  /\ ackm' = AckedLost(a, s, newly, lost, delay)
              /\ cc' = AllAcked(AllLost(c0, InFlight(lost)), InFlight(newly))
              /\ told' = Tell(Tell(t0, s, lost, "lost"), s, newly, "acked")
              /\ txp' = Regen(s, lost)
    BY <1>1, <1>2, <1>3, <1>12 DEF HandleFrames
  <2>2. PICK lost : lost = LostOf(a.tx[s] \ newly, a.largest_acked[s], delay)
    OBVIOUS
  <2>3. lost \subseteq a.tx[s] \ newly
    BY <2>2 DEF LostOf
  <2>4. pns # {}
    BY <1>3, <1>12
  <2>5. /\ ~case.is_server /\ a.validated => a.discarded[INITIAL]
        /\ ~case.is_server /\ txp.next_pn[HANDSHAKE] > 0 => a.discarded[INITIAL]
    BY <1>4, <1>6, <1>10, <2>4
  <2>6. Books(a, t0, txp.next_pn, case.tx) /\ c0.in_flight = a.in_flight + undone
    BY <1>4, <1>5, <1>6
  <2>7. /\ ackm' = AckedLost(a, s, newly, lost, delay)
        /\ cc' = AllAcked(AllLost(c0, InFlight(lost)), InFlight(newly))
        /\ told' = Tell(Tell(t0, s, lost, "lost"), s, newly, "acked")
        /\ txp' = Regen(s, lost)
    BY <2>1, <2>2
  <2>8. Fewer(a, ackm)
    BY <1>5, <1>6 DEF Fewer
  <2>9. PktInv' /\ Justified
    BY <1>5, <1>6, <1>7, <1>8, <2>3, <2>5, <2>6, <2>7, <2>8, AckedKeeps
  <2> QED BY <1>9, <2>9
<1> QED BY <1>11, <1>12

-----------------------------------------------------------------------------
(* The timer, the end of the handshake and the pseudo-loss.                *)

\* The loss timer.
LEMMA TimeoutLosesKeeps ==
  ASSUME Clock, PktInv, TimeoutLoses, case' = case, undone' = undone
  PROVE  PktInv' /\ Justified
<1>1. PICK s \in Spaces : s = LossSpace(ackm)
  BY LossSpaceIn
<1>2. PICK delay \in LossDelays :
        LET lost == LostOf(ackm.tx[s], ackm.largest_acked[s], delay)
        IN  /\ ackm' = SetTimer([Remove(ackm, s, lost) EXCEPT !.loss_time[s] =
                 LossTime(ackm.tx[s] \ lost, ackm.largest_acked[s], delay)])
            /\ cc' = AllLost(cc, InFlight(lost))
            /\ told' = Tell(told, s, lost, "lost")
            /\ txp' = Regen(s, lost)
  BY <1>1 DEF TimeoutLoses
<1>3. PICK lost : lost = LostOf(ackm.tx[s], ackm.largest_acked[s], delay)
  OBVIOUS
<1>4. lost \subseteq ackm.tx[s]
  BY <1>3 DEF LostOf
<1>5. PICK a, t, n, lim : a = ackm /\ t = told /\ n = txp.next_pn /\ lim = case.tx
  OBVIOUS
<1>6. a \in AckmType /\ Books(a, t, n, lim) /\ TimeInv(a)
  BY <1>5 DEF PktInv, AckmInv
<1>7. PICK b : b = TimedOut(a, s, lost, delay)
  OBVIOUS
<1>8. /\ AckmInv(b, Tell(t, s, lost, "lost"), n, lim)
      /\ b.in_flight = a.in_flight - Cardinality(InFlight(lost))
      /\ FateFields(b, a) /\ Fewer(b, a)
  <2>1. lost \subseteq a.tx[s]
    BY <1>4, <1>5
  <2> QED BY <1>6, <1>7, <2>1, TimeoutKeeps
<1>9. ackm' = b /\ told' = Tell(t, s, lost, "lost") /\ txp' = Regen(s, lost)
  BY <1>2, <1>3, <1>5, <1>7 DEF TimedOut
<1>10. /\ IsFiniteSet(lost) /\ lost \subseteq PacketType /\ Cardinality(InFlight(lost)) \in Nat
  BY <1>4, <1>5, <1>6, PartCounts
<1>11. IsFiniteSet(InFlight(lost)) /\ InFlight(lost) \subseteq PacketType
  <2>1. InFlight(lost) \in SUBSET lost
    BY DEF InFlight
  <2> QED BY <1>10, <2>1, FS_Subset
<1>12. /\ cc' \in CcType /\ cc'.in_flight = cc.in_flight - Cardinality(InFlight(lost))
       /\ cc'.cwnd < cc.cwnd => \E p \in InFlight(lost) : p.time > cc.recovery
  <2>1. cc' = AllLost(cc, InFlight(lost))
    BY <1>2, <1>3
  <2>2. cc \in CcType
    BY DEF PktInv
  <2> QED BY <1>11, <2>1, <2>2, AllLostIs
<1>13. txp' \in TxpType /\ txp'.next_pn = txp.next_pn
  BY <1>9, TxpAfterLoss DEF PktInv, TxpType
<1>14. cc'.in_flight = ackm'.in_flight + undone' /\ undone' \in Nat
  <2>1. PICK i \in Nat : i = Cardinality(InFlight(lost))
    BY <1>10
  <2>2. PICK x \in Int, u \in Nat : x = a.in_flight /\ u = undone
    BY <1>6 DEF PktInv, AckmType
  <2>3. cc.in_flight = x + u
    BY <1>5, <2>2 DEF PktInv
  <2>4. cc'.in_flight = (x + u) - i
    BY <1>12, <2>1, <2>3
  <2>5. ackm'.in_flight = x - i
    BY <1>8, <1>9, <2>1, <2>2
  <2>6. (x + u) - i = (x - i) + u
    OBVIOUS
  <2> QED BY <2>2, <2>4, <2>5, <2>6
<1>15. ~case.is_server => /\ txp'.next_pn[HANDSHAKE] > 0 => ackm'.discarded[INITIAL]
                          /\ ackm'.validated => ackm'.discarded[INITIAL]
  <2>1. ackm'.discarded = ackm.discarded /\ ackm'.validated = ackm.validated
    BY <1>5, <1>8, <1>9 DEF FateFields
  <2> QED BY <1>13, <2>1 DEF PktInv
<1>16. AckmInv(ackm', told', txp'.next_pn, case.tx)
  BY <1>5, <1>8, <1>9, <1>13
<1>17. PktInv'
  BY <1>12, <1>13, <1>14, <1>15, <1>16, PktNext
<1>18. ASSUME NEW p \in lost PROVE told'[s][p.pn] = {"lost"}
  <2>1. PICK T : T = told'
    OBVIOUS
  <2>2. /\ p.pn \in 0 .. lim[s] - 1 /\ DOMAIN t[s] = 0 .. lim[s] - 1
        /\ t = [u \in Spaces |-> t[u]]
    <3>1. p \in a.tx[s]
      BY <1>4, <1>5
    <3> QED BY <1>6, <3>1, PnKnown
  <2>3. PICK pn \in DOMAIN t[s] : pn = p.pn
    BY <2>2
  <2>4. \A q \in lost : q.pn = pn => "lost" \in T[s][pn]
    BY <1>9, <2>1, <2>2, TellTells
  <2>5. "lost" \in T[s][p.pn]
    BY <2>3, <2>4
  <2>6. Books(b, T, n, lim)
    BY <1>8, <1>9, <2>1 DEF AckmInv
  <2>7. T[s][p.pn] = {"lost"}
    BY <2>2, <2>5, <2>6, ToldOnce
  <2> QED BY <2>1, <2>7
<1>19. Justified
  <2>1. ASSUME cc'.cwnd < cc.cwnd
        PROVE  \E p \in ackm.tx[s] : told'[s][p.pn] = {"lost"} /\ p.inflight /\ p.time > cc.recovery
    <3>1. PICK p \in InFlight(lost) : p.time > cc.recovery
      BY <1>12, <2>1
    <3>2. p \in lost /\ p.inflight
      BY DEF InFlight
    <3> QED BY <1>4, <1>18, <3>1, <3>2
  <2> QED BY <2>1 DEF Justified
<1> QED BY <1>17, <1>19

\* The probe timer.
LEMMA TimeoutProbesKeeps ==
  ASSUME Clock, PktInv, TimeoutProbes, case' = case, undone' = undone
  PROVE  PktInv' /\ Justified
<1>1. PICK i \in Spaces : i = IF ackm.discarded[INITIAL] THEN HANDSHAKE ELSE INITIAL
  BY DEF Spaces
<1>2. ackm \in AckmType /\ Books(ackm, told, txp.next_pn, case.tx) /\ TimeInv(ackm)
  BY DEF PktInv, AckmInv
<1>3. PICK j \in Spaces : j = PtoSpace(ackm)
  BY <1>2, PtoSpaceIn
<1>4. PICK b : /\ b \in AckmType /\ SameBooks(b, ackm) /\ TimeInv(b)
               /\ b.validated = ackm.validated
               /\ ackm' = SetTimer(b)
  <2>1. PICK k \in Nat : k = ackm.pto_count + 1
    BY <1>2 DEF AckmType
  <2>2. PICK x \in Nat, y \in Nat : x = ackm.anti_deadlock[i] + 1 /\ y = ackm.probe[j] + 1
    BY <1>2 DEF AckmType
  <2>3. PICK f \in [Spaces -> Nat], g \in [Spaces -> Nat] :
          f = [ackm.anti_deadlock EXCEPT ![i] = x] /\ g = [ackm.probe EXCEPT ![j] = y]
    BY <1>2 DEF AckmType
  <2>4. PICK d, e : /\ d = [ackm EXCEPT !.anti_deadlock = f, !.pto_count = k]
                    /\ e = [ackm EXCEPT !.probe = g, !.pto_count = k]
    OBVIOUS
  <2>5. d \in AckmType /\ e \in AckmType
    BY <1>2, <2>4 DEF AckmType
  <2>6. /\ d.tx = ackm.tx /\ d.in_flight = ackm.in_flight /\ d.eliciting = ackm.eliciting
        /\ d.discarded = ackm.discarded /\ d.validated = ackm.validated
        /\ d.last_eliciting = ackm.last_eliciting /\ d.loss_time = ackm.loss_time
    BY <1>2, <2>4 DEF AckmType
  <2>7. /\ e.tx = ackm.tx /\ e.in_flight = ackm.in_flight /\ e.eliciting = ackm.eliciting
        /\ e.discarded = ackm.discarded /\ e.validated = ackm.validated
        /\ e.last_eliciting = ackm.last_eliciting /\ e.loss_time = ackm.loss_time
    BY <1>2, <2>4 DEF AckmType
  <2>8. SameBooks(d, ackm) /\ TimeInv(d)
    BY <1>2, <2>5, <2>6 DEF SameBooks, TimeInv
  <2>9. SameBooks(e, ackm) /\ TimeInv(e)
    BY <1>2, <2>5, <2>7 DEF SameBooks, TimeInv
  <2>10. ackm' = SetTimer(IF Total(ackm.eliciting) = 0
                          THEN [[ackm EXCEPT !.anti_deadlock[i] = @ + 1] EXCEPT !.pto_count = @ + 1]
                          ELSE [[ackm EXCEPT !.probe[j] = @ + 1] EXCEPT !.pto_count = @ + 1])
    BY <1>1, <1>3 DEF TimeoutProbes
  <2>11. [[ackm EXCEPT !.anti_deadlock[i] = @ + 1] EXCEPT !.pto_count = @ + 1] = d
    BY <1>2, <2>1, <2>2, <2>3, <2>4 DEF AckmType
  <2>12. [[ackm EXCEPT !.probe[j] = @ + 1] EXCEPT !.pto_count = @ + 1] = e
    BY <1>2, <2>1, <2>2, <2>3, <2>4 DEF AckmType
  <2>13. ackm' = SetTimer(d) \/ ackm' = SetTimer(e)
    BY <2>10, <2>11, <2>12
  <2> QED BY <2>5, <2>6, <2>7, <2>8, <2>9, <2>13
<1>5. Books(b, told, txp.next_pn, case.tx)
  BY <1>2, <1>4, BooksSame
<1>6. AckmInv(ackm', told, txp.next_pn, case.tx) /\ Retimed(ackm', b)
  BY <1>4, <1>5, TimerKeeps, SetTimerIs
<1>7. cc' = cc /\ told' = told /\ txp' = txp
  BY DEF TimeoutProbes
<1>8. /\ ackm'.in_flight = ackm.in_flight /\ ackm'.discarded = ackm.discarded
      /\ ackm'.validated = ackm.validated /\ ackm'.tx = ackm.tx
  BY <1>4, <1>6 DEF Retimed, SameBooks
<1>9. PktInv'
  BY <1>6, <1>7, <1>8, PktNext DEF PktInv, TxpType
<1>10. Justified
  BY <1>7, NotSmaller
<1> QED BY <1>9, <1>10

\* The Handshake space goes, and the timer is set once more.
LEMMA HandshakeConfirmedKeeps ==
  ASSUME Clock, PktInv, HandshakeConfirmed
  PROVE  PktInv' /\ Justified
<1>1. HANDSHAKE \in Spaces /\ INITIAL \in Spaces /\ HANDSHAKE # INITIAL
  BY DEF Spaces, HANDSHAKE, INITIAL
<1>2. PICK a, t, n, lim : a = ackm /\ t = told /\ n = txp.next_pn /\ lim = case.tx
  OBVIOUS
<1>3. a \in AckmType /\ Books(a, t, n, lim) /\ TimeInv(a)
  BY <1>2 DEF PktInv, AckmInv
<1>4. PICK d : d = Discarded(a, HANDSHAKE)
  OBVIOUS
<1>5. PICK T : T = Tell(t, HANDSHAKE, a.tx[HANDSHAKE], "discarded")
  OBVIOUS
<1>6. AckmInv(d, T, n, lim) /\ DiscardedFields(d, a, HANDSHAKE)
  BY <1>1, <1>3, <1>4, <1>5, DiscardedKeeps
<1>7. PICK b : b = [d EXCEPT !.confirmed = TRUE, !.validated = TRUE]
  OBVIOUS
<1>8. d \in AckmType /\ Books(d, T, n, lim) /\ TimeInv(d)
  BY <1>6 DEF AckmInv
<1>9. b \in AckmType
  BY <1>7, <1>8 DEF AckmType
<1>10. /\ b.tx = d.tx /\ b.in_flight = d.in_flight /\ b.eliciting = d.eliciting
       /\ b.discarded = d.discarded
       /\ b.last_eliciting = d.last_eliciting /\ b.loss_time = d.loss_time
  BY <1>7, <1>8 DEF AckmType
<1>11. SameBooks(b, d) /\ TimeInv(b)
  BY <1>8, <1>9, <1>10 DEF SameBooks, TimeInv
<1>12. Books(b, T, n, lim)
  BY <1>8, <1>11, BooksSame
<1>13. AckmInv(SetTimer(b), T, n, lim) /\ Retimed(SetTimer(b), b)
  BY <1>9, <1>11, <1>12, TimerKeeps, SetTimerIs
<1>14. /\ ackm' = SetTimer(b) /\ told' = T /\ cc' = Invalidated(cc, a.tx[HANDSHAKE])
       /\ case' = case /\ txp' = txp /\ undone' = undone /\ ackm.discarded[INITIAL]
  BY <1>2, <1>4, <1>5, <1>7 DEF HandshakeConfirmed
<1>15. PICK k \in Nat : k = Cardinality(InFlight(a.tx[HANDSHAKE]))
  BY <1>1, <1>3, BooksFinite
<1>16. cc' \in CcType /\ cc'.in_flight = cc.in_flight - k /\ cc'.cwnd = cc.cwnd
  <2>1. cc \in CcType
    BY DEF PktInv
  <2> QED BY <1>14, <1>15, <2>1, InvalidatedIs
<1>17. cc'.in_flight = ackm'.in_flight + undone' /\ undone' \in Nat
  <2>1. PICK x \in Int, u \in Nat : x = a.in_flight /\ u = undone
    BY <1>3 DEF PktInv, AckmType
  <2>2. cc.in_flight = x + u
    BY <1>2, <2>1 DEF PktInv
  <2>3. cc'.in_flight = (x + u) - k
    BY <1>16, <2>2
  <2>4. ackm'.in_flight = x - k
    BY <1>6, <1>10, <1>13, <1>14, <1>15, <2>1 DEF DiscardedFields, Retimed
  <2>5. (x + u) - k = (x - k) + u
    OBVIOUS
  <2> QED BY <1>14, <2>1, <2>3, <2>4, <2>5
<1>18. ackm'.discarded[INITIAL] /\ ackm'.tx[INITIAL] = ackm.tx[INITIAL]
  <2>1. ackm'.discarded = d.discarded /\ ackm'.tx = d.tx
    BY <1>10, <1>13, <1>14 DEF Retimed
  <2>2. /\ d.discarded = [a.discarded EXCEPT ![HANDSHAKE] = TRUE]
        /\ d.tx = [a.tx EXCEPT ![HANDSHAKE] = {}]
    BY <1>6 DEF DiscardedFields
  <2> QED BY <1>1, <1>2, <1>3, <1>14, <2>1, <2>2 DEF AckmType
<1>19. AckmInv(ackm', told', txp'.next_pn, case.tx) /\ txp' \in TxpType
  BY <1>2, <1>13, <1>14 DEF PktInv, TxpType
<1>20. ~case.is_server => /\ txp'.next_pn[HANDSHAKE] > 0 => ackm'.discarded[INITIAL]
                          /\ ackm'.validated => ackm'.discarded[INITIAL]
  BY <1>18 DEF PktInv
<1>21. PktInv'
  BY <1>14, <1>16, <1>17, <1>19, <1>20, PktNext
<1> QED BY <1>16, <1>21, NotSmaller

\* The pseudo-loss sets no timer.  A client that still has Initial packets
\* has not validated the peer, so a timer that runs for nothing is in order.
LEMMA PseudoLostKeeps ==
  ASSUME Clock, PktInv, PseudoLost
  PROVE  PktInv' /\ Justified
<1>1. PICK p \in ackm.tx[INITIAL] : /\ ackm' = Remove(ackm, INITIAL, {p})
                                   /\ txp' = Regen(INITIAL, {p})
                                   /\ told' = Tell(told, INITIAL, {p}, "lost")
                                   /\ undone' = undone + Cardinality(InFlight({p}))
  BY DEF PseudoLost
<1>2. ~case.is_server /\ case' = case /\ cc' = cc
  BY DEF PseudoLost
<1>3. INITIAL \in Spaces /\ "lost" \in Fates
  BY DEF Spaces, Fates
<1>4. PICK a, t, n, lim : a = ackm /\ t = told /\ n = txp.next_pn /\ lim = case.tx
  OBVIOUS
<1>5. a \in AckmType /\ Books(a, t, n, lim) /\ TimeInv(a) /\ Armed(a)
  BY <1>4 DEF PktInv, AckmInv
<1>6. PICK r : r = Remove(a, INITIAL, {p})
  OBVIOUS
<1>7. {p} \subseteq a.tx[INITIAL]
  BY <1>4
<1>8. /\ r \in AckmType /\ Books(r, Tell(t, INITIAL, {p}, "lost"), n, lim) /\ TimeInv(r)
      /\ Drops(r, a, INITIAL, {p}) /\ Others(r, a)
  BY <1>3, <1>5, <1>6, <1>7, RemoveKeeps
<1>9. ~a.validated
  <2>1. ~a.discarded[INITIAL]
    BY <1>3, <1>5, <1>7 DEF Books
  <2> QED BY <1>2, <1>4, <2>1 DEF PktInv
<1>10. Armed(r)
  <2>1. /\ r.deadline = a.deadline /\ r.confirmed = a.confirmed /\ r.validated = a.validated
        /\ r.loss_time = a.loss_time
    BY <1>8 DEF Others
  <2>2. \A u \in Spaces : r.eliciting[u] > 0 => a.eliciting[u] > 0
    <3>1. PICK k \in Nat : k = Cardinality(Eliciting({p}))
      BY <1>3, <1>5, <1>7, PartCounts
    <3>2. r.eliciting = [a.eliciting EXCEPT ![INITIAL] = @ - k]
      BY <1>8, <3>1 DEF Drops
    <3>3. a.eliciting \in [Spaces -> Int]
      BY <1>5 DEF AckmType
    <3> QED BY <3>2, <3>3
  <2>3. \A s \in Spaces :
          r.eliciting[s] > 0 /\ (s = APP => r.confirmed) => r.deadline \notin {0, Never}
    BY <1>5, <2>1, <2>2 DEF Armed
  <2> QED BY <1>9, <2>1, <2>3 DEF Armed
<1>11. AckmInv(r, Tell(t, INITIAL, {p}, "lost"), n, lim)
  BY <1>8, <1>10 DEF AckmInv
<1>12. ackm' = r
  BY <1>1, <1>4, <1>6
<1>13. txp' \in TxpType /\ txp'.next_pn = txp.next_pn
  BY <1>1, <1>3, TxpAfterLoss DEF PktInv, TxpType
<1>14. AckmInv(ackm', told', txp'.next_pn, case.tx)
  BY <1>1, <1>4, <1>11, <1>12, <1>13
<1>15. PICK k \in Nat : k = Cardinality(InFlight({p}))
  BY <1>3, <1>5, <1>7, PartCounts
<1>16. cc'.in_flight = ackm'.in_flight + undone' /\ undone' \in Nat /\ cc' \in CcType
  <2>1. PICK x \in Int, u \in Nat : x = a.in_flight /\ u = undone
    BY <1>5 DEF AckmType, PktInv
  <2>2. cc.in_flight = x + u /\ cc \in CcType
    BY <1>4, <2>1 DEF PktInv
  <2>3. ackm'.in_flight = x - k
    BY <1>8, <1>12, <1>15, <2>1 DEF Drops
  <2>4. x + u = (x - k) + (u + k)
    OBVIOUS
  <2> QED BY <1>1, <1>2, <1>15, <2>1, <2>2, <2>3, <2>4
<1>17. /\ txp'.next_pn[HANDSHAKE] > 0 => ackm'.discarded[INITIAL]
       /\ ackm'.validated => ackm'.discarded[INITIAL]
  <2>1. ackm'.discarded = ackm.discarded /\ ackm'.validated = ackm.validated
    BY <1>4, <1>8, <1>12 DEF Others
  <2> QED BY <1>2, <1>13, <2>1 DEF PktInv
<1>18. PktInv'
  BY <1>2, <1>13, <1>14, <1>16, <1>17, PktNext
<1> QED BY <1>2, <1>18, NotSmaller

-----------------------------------------------------------------------------
(* The theorems.                                                           *)

\* The initial state.
LEMMA InitClock == Init => Clock
<1> SUFFICES ASSUME Init PROVE Clock
  OBVIOUS
<1>1. case \in Cases /\ now = 1
  BY DEF Init
<1>2. case.time \in Nat \ {0}
  BY <1>1, CasesAssumption
<1> QED BY <1>1, <1>2 DEF Clock

\* Nothing is in flight.
LEMMA InitPkt == Init => PktInv
<1> SUFFICES ASSUME Init PROVE PktInv
  OBVIOUS
<1>1. Clock
  BY InitClock
<1>2. PICK z \in [Spaces -> Nat], no \in [Spaces -> BOOLEAN], none \in [Spaces -> Nat \cup {NONE}],
           tx \in [Spaces -> SUBSET PacketType], e \in [Spaces -> Int] :
        z = Zero /\ no = No /\ none = [s \in Spaces |-> NONE] /\ tx = [s \in Spaces |-> {}] /\ e = Zero
  <2>1. Zero \in [Spaces -> Nat] /\ Zero \in [Spaces -> Int] /\ No \in [Spaces -> BOOLEAN]
    BY DEF Zero, No
  <2>2. [s \in Spaces |-> NONE] \in [Spaces -> Nat \cup {NONE}]
    OBVIOUS
  <2>3. [s \in Spaces |-> {}] \in [Spaces -> SUBSET PacketType]
    OBVIOUS
  <2> QED BY <2>1, <2>2, <2>3
<1>3. PICK o \in Nat, i \in Int : o = 0 /\ i = 0
  OBVIOUS
<1>4. ackm = [tx |-> tx, largest_acked |-> none,
              last_eliciting |-> z, loss_time |-> z, deadline |-> o,
              in_flight |-> i, eliciting |-> e, pto_count |-> o,
              probe |-> z, anti_deadlock |-> z,
              confirmed |-> FALSE, validated |-> FALSE, discarded |-> no]
  BY <1>2, <1>3 DEF Init
<1>5. ackm \in AckmType
  BY <1>4 DEF AckmType
<1>6. /\ ackm.tx = tx /\ ackm.in_flight = 0 /\ ackm.eliciting = Zero /\ ackm.discarded = No
      /\ ackm.last_eliciting = Zero /\ ackm.loss_time = Zero /\ ackm.deadline = 0
      /\ ~ackm.validated
  BY <1>2, <1>3, <1>4
<1>7. \A s \in Spaces : Zero[s] = 0 /\ ~No[s] /\ tx[s] = {}
  BY <1>2 DEF Zero, No
<1>8. /\ InFlight({}) = {} /\ Eliciting({}) = {} /\ Cardinality({}) = 0 /\ IsFiniteSet({})
  BY FS_EmptySet DEF InFlight, Eliciting
<1>9. txp = [next_pn |-> z, want_ack |-> no]
  BY <1>2 DEF Init
<1>10. txp \in TxpType /\ txp.next_pn = Zero
  BY <1>2, <1>9 DEF TxpType
<1>11. told = [s \in Spaces |-> [pn \in 0 .. case.tx[s] - 1 |-> {}]]
  BY DEF Init
<1>12. ASSUME NEW s \in Spaces
       PROVE  SpaceOK(ackm.tx[s], told[s], txp.next_pn[s], ackm.eliciting[s], case.tx[s])
  <2>1. PICK lim \in Nat : lim = case.tx[s]
    BY <1>1, CaseType
  <2>2. ackm.tx[s] = {} /\ txp.next_pn[s] = 0 /\ ackm.eliciting[s] = 0
    BY <1>6, <1>7, <1>10
  <2>3. told[s] = [pn \in 0 .. lim - 1 |-> {}]
    BY <1>11, <2>1
  <2>4. told[s] \in [0 .. lim - 1 -> SUBSET Fates] /\ \A pn \in 0 .. lim - 1 : told[s][pn] = {} /\ ~(pn < 0)
    BY <2>3
  <2>5. SpaceOK({}, told[s], 0, 0, lim)
    <3>1. {} \subseteq PacketType /\ 0 \in 0 .. lim /\ Cardinality(Eliciting({})) = 0
      BY <1>8
    <3>2. \A pn \in 0 .. lim - 1 :
            IF pn < 0 /\ \A p \in {} : p.pn # pn
            THEN \E w \in Fates : told[s][pn] = {w}
            ELSE told[s][pn] = {}
      BY <2>4
    <3> QED BY <1>8, <2>4, <3>1, <3>2 DEF SpaceOK
  <2> QED BY <2>1, <2>2, <2>5
<1>13. Books(ackm, told, txp.next_pn, case.tx)
  <2>1. told = [s \in Spaces |-> told[s]]
    BY <1>11
  <2>2. InFlightOf(ackm) = 0
    <3>1. ackm.tx[INITIAL] = {} /\ ackm.tx[HANDSHAKE] = {} /\ ackm.tx[APP] = {}
      BY <1>6, <1>7 DEF Spaces
    <3>2. Cardinality(InFlight({})) = 0
      BY <1>8
    <3>3. InFlightOf(ackm) = Cardinality(InFlight({})) + Cardinality(InFlight({}))
                               + Cardinality(InFlight({}))
      BY <3>1 DEF InFlightOf
    <3>4. 0 + 0 + 0 = 0
      OBVIOUS
    <3> QED BY <3>2, <3>3, <3>4
  <2>3. \A s \in Spaces : ~ackm.discarded[s]
    BY <1>6, <1>7
  <2> QED BY <1>6, <1>12, <2>1, <2>2, <2>3 DEF Books
<1>14. TimeInv(ackm)
  <2>1. case.time \in Nat \ {0} /\ 0 < Never
    <3>1. case \in Cases /\ case.time \in Nat \ {0}
      BY <1>1, CaseType DEF Clock
    <3>2. PICK f \in Nat : f = 2^0
      BY PowerOfTwo
    <3>3. case.time + (PtoDuration + rx_max_ack_delay) * f < Never
      BY <3>1, <3>2, NeverAssumption
    <3>4. PICK m \in Nat : m = (PtoDuration + rx_max_ack_delay) * f
      <4>1. PICK d \in Nat : d = PtoDuration + rx_max_ack_delay
        BY ConstantsAssumption
      <4>2. d * f \in Nat
        BY ProductType
      <4> QED BY <4>1, <4>2
    <3> QED BY <3>1, <3>3, <3>4, NeverAssumption
  <2>2. \A s \in Spaces : ackm.tx[s] = {} /\ ackm.last_eliciting[s] = 0 /\ ackm.loss_time[s] = 0
                          /\ ackm.eliciting[s] = 0
    BY <1>6, <1>7
  <2> QED BY <2>1, <2>2 DEF TimeInv
<1>15. Armed(ackm)
  BY <1>6, <1>7 DEF Armed
<1>16. PICK w \in Windows, v \in Nat : w = case.init_wnd /\ v = Never
  BY <1>1, CaseType, NeverAssumption
<1>17. cc = [in_flight |-> i, cwnd |-> w, acked |-> o, ssthresh |-> v, recovery |-> o, last_loss |-> o]
  BY <1>3, <1>16 DEF Init
<1>18. cc \in CcType /\ cc.in_flight = 0
  BY <1>3, <1>17 DEF CcType
<1>19. undone = 0
  BY DEF Init
<1>20. txp.next_pn[HANDSHAKE] = 0 /\ ackm.tx[INITIAL] = {}
  BY <1>6, <1>7, <1>10 DEF Spaces
<1> QED BY <1>5, <1>6, <1>10, <1>13, <1>14, <1>15, <1>18, <1>19, <1>20
        DEF PktInv, AckmInv, TxpType

\* Nothing was received.
LEMMA InitRx == Init => RxInv
<1> SUFFICES ASSUME Init PROVE RxInv
  OBVIOUS
<1>1. PICK o \in Nat, v \in Nat : o = 0 /\ v = Never
  BY NeverAssumption
<1>2. PICK h : h = [set |-> {}, watermark |-> o, desired |-> FALSE, generated |-> FALSE,
                    ack |-> {}, since |-> o, flush |-> v]
  OBVIOUS
<1>3. h \in RxType /\ h.set = {} /\ Bounded(h)
  <2>1. h \in RxType /\ h.set = {}
    BY <1>2 DEF RxType
  <2>2. Starts({}) = {} /\ Cardinality({}) = 0
    BY FS_EmptySet DEF Starts
  <2> QED BY <2>1, <2>2, ConstantsAssumption DEF Bounded
<1>4. /\ rx = [s \in Spaces |-> h]
      /\ times = [s \in Spaces |-> [pn \in case.rx[s] |-> 0]]
      /\ owed = [s \in Spaces |-> {}]
  BY <1>1, <1>2 DEF Init
<1>5. ASSUME NEW s \in Spaces PROVE HistoryOK(rx[s], times[s], owed[s], s)
  <2>1. rx[s] = h /\ times[s] = [pn \in case.rx[s] |-> 0] /\ owed[s] = {}
    BY <1>4
  <2>2. times[s] \in [case.rx[s] -> Nat] /\ \A pn \in case.rx[s] : ~(times[s][pn] > 0)
    BY <2>1
  <2>3. IsFiniteSet({})
    BY FS_EmptySet
  <2> QED BY <1>3, <2>1, <2>2, <2>3 DEF HistoryOK
<1> QED BY <1>4, <1>5 DEF RxInv

\* Nothing waits.
LEMMA InitQueue == Init => QueueInv
<1> SUFFICES ASSUME Init PROVE QueueInv
  OBVIOUS
<1>1. queue = {} /\ times = [s \in Spaces |-> [pn \in case.rx[s] |-> 0]]
  BY DEF Init
<1>2. \A s \in Spaces : \A pn \in DOMAIN times[s] : times[s][pn] = 0
  BY <1>1
<1> QED BY <1>1, <1>2 DEF QueueInv, NoDuplicate

\* The packet that waits is processed, unless its space is gone.
LEMMA ReceiveNextKeeps ==
  ASSUME IInv, ReceiveNext
  PROVE  /\ PktInv' /\ RxInv' /\ QueueInv' /\ Justified
         /\ UNCHANGED <<case, now>>
<1>1. Clock /\ PktInv /\ RxInv /\ QueueInv
  BY DEF IInv
<1>2. PICK q \in queue : \E pns \in SUBSET (0 .. txp.next_pn[q.space] - 1) :
        /\ queue' = queue \ {q} /\ together' = together
        /\ IF ackm.discarded[q.space]
           THEN UNCHANGED <<case, now, ackm, cc, rx, txp, ch, told, undone, times, owed, unsent>>
           ELSE HandleFrames(q.space, q.pn, q.eliciting, pns)
  BY DEF ReceiveNext
<1>3. Waits(q)
  BY <1>1 DEF QueueInv
<1>4. CASE ackm.discarded[q.space]
  <2>1. /\ UNCHANGED <<case, ackm, cc, told, txp, undone>> /\ UNCHANGED <<case, rx, times, owed>>
        /\ cc'.cwnd = cc.cwnd /\ times' = times /\ UNCHANGED <<case, now>>
    BY <1>2, <1>4
  <2>2. QueueInv'
    BY <1>1, <1>2, <2>1, ReceiveNextQueue
  <2> QED BY <1>1, <2>1, <2>2, PktSame, RxSame, NotSmaller
<1>5. CASE ~ackm.discarded[q.space]
  <2>1. PICK pns \in SUBSET (0 .. txp.next_pn[q.space] - 1) :
          HandleFrames(q.space, q.pn, q.eliciting, pns)
    BY <1>2, <1>5
  <2>2. q.space \in Spaces /\ q.eliciting \in BOOLEAN /\ q.pn \in DOMAIN times[q.space]
    BY <1>1, <1>3 DEF Waits, RxInv, HistoryOK
  <2>3. Expected(times[q.space][q.pn], owed[q.space], q.pn, q.eliciting)
    BY <1>3 DEF Waits, Expected
  <2>4. PktInv' /\ RxInv' /\ Justified
    BY <1>1, <2>1, <2>2, <2>3, ReceiveKeeps
  <2>5. UNCHANGED <<case, now>> /\ times' = [times EXCEPT ![q.space][q.pn] = @ + 1]
    BY <2>1 DEF HandleFrames
  <2>6. QueueInv'
    BY <1>1, <1>2, <2>5, ReceiveNextQueue
  <2> QED BY <2>4, <2>5, <2>6
<1> QED BY <1>4, <1>5

\* Every step keeps the invariant, and shrinks the window only for cause.
LEMMA StepKeeps ==
  ASSUME IInv, [Next]_vars
  PROVE  IInv' /\ (Justified \/ UNCHANGED vars)
<1>1. Clock /\ PktInv /\ RxInv /\ QueueInv
  BY DEF IInv
<1>2. case \in Cases /\ now \in 1 .. case.time /\ case.time \in Nat
  BY <1>1, CaseType DEF Clock
<1>3. ASSUME UNCHANGED <<case, now>> PROVE Clock'
  BY <1>2, <1>3 DEF Clock
<1>4. CASE UNCHANGED vars
  <2>1. /\ UNCHANGED <<case, now>> /\ UNCHANGED <<case, rx, times, owed>>
        /\ UNCHANGED <<case, ackm, cc, told, txp, undone>>
        /\ UNCHANGED <<case, queue, times, together>> /\ UNCHANGED <<now, owed>>
    BY <1>4 DEF vars
  <2> QED BY <1>1, <1>3, <1>4, <2>1, PktSame, RxSame, QueueSame DEF IInv
<1>5. ASSUME NEW s \in Spaces, NEW eliciting \in BOOLEAN,
             NEW padded \in BOOLEAN, Send(s, eliciting, padded)
      PROVE  IInv' /\ Justified
  <2>1. RxInv' /\ PktInv' /\ cc'.cwnd = cc.cwnd
    BY <1>1, <1>5, SendRx, SendPkt
  <2>2. UNCHANGED <<case, now>> /\ UNCHANGED <<case, queue, times, together>> /\ queue = {}
    BY <1>5 DEF Send
  <2>3. QueueInv'
    BY <1>1, <2>2, QueueSame
  <2> QED BY <1>1, <1>3, <2>1, <2>2, <2>3, NotSmaller DEF IInv
<1>6. ASSUME NEW s \in Spaces, NEW eliciting \in BOOLEAN, NEW pn \in DOMAIN times[s],
             NEW pns \in SUBSET (0 .. txp.next_pn[s] - 1), Receive(s, pn, eliciting, pns)
      PROVE  IInv' /\ Justified
  <2>1. HandleFrames(s, pn, eliciting, pns) /\ Decryptable(s, pn)
    BY <1>6 DEF Receive
  <2>2. Expected(times[s][pn], owed[s], pn, eliciting)
    BY <1>1, <2>1, DecryptableNew DEF Expected
  <2>3. PktInv' /\ RxInv' /\ Justified
    BY <1>1, <2>1, <2>2, ReceiveKeeps
  <2>4. UNCHANGED <<case, now>>
    BY <2>1 DEF HandleFrames
  <2>5. QueueInv'
    BY <1>1, <1>6, ReceiveQueue
  <2> QED BY <1>3, <2>3, <2>4, <2>5 DEF IInv
<1>7. CASE OnTimeout
  <2>1. /\ UNCHANGED <<case, now>> /\ undone' = undone /\ UNCHANGED <<case, rx, times, owed>>
        /\ UNCHANGED <<case, queue, times, together>> /\ UNCHANGED <<now, owed>>
    BY <1>7 DEF OnTimeout
  <2>2. TimeoutLoses \/ TimeoutProbes
    BY <1>7 DEF OnTimeout
  <2>3. PktInv' /\ Justified
    BY <1>1, <2>1, <2>2, TimeoutLosesKeeps, TimeoutProbesKeeps
  <2> QED BY <1>1, <1>3, <2>1, <2>3, RxSame, QueueSame DEF IInv
<1>8. CASE HandshakeConfirmed
  <2>1. /\ UNCHANGED <<case, now>> /\ UNCHANGED <<case, rx, times, owed>>
        /\ UNCHANGED <<case, queue, times, together>> /\ UNCHANGED <<now, owed>>
    BY <1>8 DEF HandshakeConfirmed
  <2> QED BY <1>1, <1>3, <1>8, <2>1, HandshakeConfirmedKeeps, RxSame, QueueSame DEF IInv
<1>9. CASE PseudoLost
  <2>1. /\ UNCHANGED <<case, now>> /\ UNCHANGED <<case, rx, times, owed>>
        /\ UNCHANGED <<case, queue, times, together>> /\ UNCHANGED <<now, owed>>
    BY <1>9 DEF PseudoLost
  <2> QED BY <1>1, <1>3, <1>9, <2>1, PseudoLostKeeps, RxSame, QueueSame DEF IInv
<1>10. CASE Tick
  <2>1. /\ UNCHANGED <<case, rx, times, owed>> /\ now < case.time /\ now' = now + 1
        /\ UNCHANGED <<case, ackm, cc, told, txp, undone>> /\ cc' = cc
        /\ UNCHANGED <<case, queue, times, together>> /\ queue = {}
    BY <1>10 DEF Tick
  <2>2. Clock'
    BY <1>2, <2>1 DEF Clock
  <2> QED BY <1>1, <2>1, <2>2, PktSame, RxSame, QueueSame, NotSmaller DEF IInv
<1>11. CASE GiveUp
  <2>1. /\ UNCHANGED <<case, now>> /\ UNCHANGED <<case, ackm, cc, told, txp, undone>>
        /\ cc' = cc /\ UNCHANGED <<case, queue, times, together>> /\ queue = {}
    BY <1>11 DEF GiveUp
  <2>2. RxInv'
    BY <1>1, <1>11, GiveUpRx
  <2> QED BY <1>1, <1>3, <2>1, <2>2, PktSame, QueueSame, NotSmaller DEF IInv
<1>12. CASE ReceiveNext
  <2>1. PktInv' /\ RxInv' /\ QueueInv' /\ Justified /\ UNCHANGED <<case, now>>
    BY <1>12, ReceiveNextKeeps
  <2> QED BY <1>3, <2>1 DEF IInv
<1> QED BY <1>4, <1>5, <1>6, <1>7, <1>8, <1>9, <1>10, <1>11, <1>12 DEF Next

\* The books of the ACK manager, the packetiser and the controller, the times
\* of the packets and the histories of the packets received stay in order.
THEOREM AckmInvariant == Spec => []IInv
<1>1. Init => IInv
  BY InitClock, InitPkt, InitRx, InitQueue DEF IInv
<1>2. IInv /\ [Next]_vars => IInv'
  BY StepKeeps
<1> QED BY <1>1, <1>2, PTL DEF Spec

\* The bytes in flight are the packets in the histories, by every count of them.
THEOREM FlightExact == Spec => []InFlightExact
<1>1. ASSUME IInv PROVE InFlightExact
  <2>1. /\ Books(ackm, told, txp.next_pn, case.tx)
        /\ cc.in_flight = ackm.in_flight + undone
    BY <1>1 DEF IInv, PktInv, AckmInv
  <2>2. \A s \in Spaces : ackm.eliciting[s] = Cardinality(Eliciting(ackm.tx[s]))
    BY <2>1 DEF Books, SpaceOK
  <2>3. ackm.in_flight = InFlightOf(ackm)
    BY <2>1 DEF Books
  <2>4. InFlightOf(ackm) = Total([s \in Spaces |-> Cardinality(InFlight(ackm.tx[s]))])
    BY DEF InFlightOf, Total, Spaces
  <2> QED BY <2>1, <2>2, <2>3, <2>4 DEF InFlightExact
<1> QED BY <1>1, AckmInvariant, PTL

\* Every packet that was sent is in the history, or met exactly one fate.
THEOREM FateOnce == Spec => []ResolvedOnce
<1>1. ASSUME IInv PROVE ResolvedOnce
  <2>1. ASSUME NEW s \in Spaces, NEW pn \in DOMAIN told[s]
        PROVE  Cardinality(told[s][pn]) =
                 IF pn < txp.next_pn[s] /\ \A p \in ackm.tx[s] : p.pn # pn THEN 1 ELSE 0
    <3>1. SpaceOK(ackm.tx[s], told[s], txp.next_pn[s], ackm.eliciting[s], case.tx[s])
      BY <1>1 DEF IInv, PktInv, AckmInv, Books
    <3>2. IF pn < txp.next_pn[s] /\ \A p \in ackm.tx[s] : p.pn # pn
          THEN \E w \in Fates : told[s][pn] = {w}
          ELSE told[s][pn] = {}
      BY <3>1 DEF SpaceOK
    <3> QED BY <3>2, FS_EmptySet, FS_Singleton
  <2> QED BY <2>1 DEF ResolvedOnce
<1> QED BY <1>1, AckmInvariant, PTL

\* The timer runs while something must be acknowledged, and only then.
THEOREM TimerAlwaysArmed == Spec => []TimerArmed
<1>1. ASSUME IInv PROVE TimerArmed
  BY <1>1 DEF IInv, PktInv, AckmInv, Armed, TimerArmed
<1> QED BY <1>1, AckmInvariant, PTL

\* No packet is processed twice, but one whose copy was decrypted with it.
THEOREM NoneTwice == Spec => []NoDuplicate
<1>1. IInv => NoDuplicate
  BY DEF IInv, QueueInv
<1> QED BY <1>1, AckmInvariant, PTL

\* What the peer wants acknowledged will be, and in time.
THEOREM AcksInTime == Spec => []AckDue
<1>1. ASSUME IInv PROVE AckDue
  <2>1. ASSUME NEW s \in Spaces, NEW o \in owed[s] PROVE Due(s, o)
    <3>1. HistoryOK(rx[s], times[s], owed[s], s)
      BY <1>1 DEF IInv, RxInv
    <3> QED BY <2>1, <3>1 DEF HistoryOK, Due, AckDelay
  <2> QED BY <2>1 DEF AckDue
<1> QED BY <1>1, AckmInvariant, PTL

\* One flight's losses shrink the window once.
THEOREM WindowShrinksOnce == Spec => OneReduction
<1>1. IInv /\ [Next]_vars => [Justified]_vars
  BY StepKeeps
<1>2. [Justified]_vars => [cc'.cwnd < cc.cwnd =>
       \E s \in Spaces : \E p \in ackm.tx[s] :
         /\ told'[s][p.pn] = {"lost"}
         /\ p.inflight /\ p.time > cc.recovery]_vars
  BY DEF Justified
<1> QED BY <1>1, <1>2, AckmInvariant, PTL DEF Spec, OneReduction

-----------------------------------------------------------------------------
(* The packets acknowledged were sent.                                     *)

\* b is a record with the largest number acknowledged in each space of a.
KeepsLargest(b, a) == "largest_acked" \in DOMAIN b /\ b.largest_acked = a.largest_acked
HasLargest(a) == "largest_acked" \in DOMAIN a

\* No part of the handlers touches it, but AckSeen: not setting the timer.
LEMMA SetTimerLargest == ASSUME NEW a, HasLargest(a) PROVE KeepsLargest(SetTimer(a), a)
<1>1. PICK d : d = Deadline(a)
  OBVIOUS
<1> QED BY <1>1 DEF SetTimer, KeepsLargest, HasLargest

\* Taking packets off the history.
LEMMA RemoveLargest ==
  ASSUME NEW a, HasLargest(a), NEW s, NEW pkts PROVE KeepsLargest(Remove(a, s, pkts), a)
BY DEF Remove, KeepsLargest, HasLargest

\* Discarding a space.
LEMMA DiscardedLargest ==
  ASSUME NEW a, HasLargest(a), NEW s PROVE KeepsLargest(Discarded(a, s), a)
<1>1. PICK b : b = Remove(a, s, a.tx[s])
  OBVIOUS
<1>2. KeepsLargest(b, a)
  BY <1>1, RemoveLargest
<1>3. PICK c : c = [b EXCEPT !.last_eliciting[s] = 0, !.loss_time[s] = 0, !.pto_count = 0,
                             !.eliciting[s] = 0, !.discarded[s] = TRUE,
                             !.validated = @ \/ s = HANDSHAKE]
  OBVIOUS
<1>4. KeepsLargest(c, a)
  BY <1>2, <1>3 DEF KeepsLargest
<1>5. KeepsLargest(SetTimer(c), c)
  BY <1>4, SetTimerLargest DEF KeepsLargest, HasLargest
<1> QED BY <1>1, <1>3, <1>4, <1>5 DEF Discarded, KeepsLargest

\* Discarding the Initial space.
LEMMA WithoutInitialLargest ==
  ASSUME NEW a, HasLargest(a), NEW s, NEW is_server
  PROVE  KeepsLargest(WithoutInitial(a, s, is_server), a)
BY DiscardedLargest DEF WithoutInitial, KeepsLargest, HasLargest

\* Sending a packet.
LEMMA OnTxPacketLargest ==
  ASSUME NEW a, HasLargest(a), NEW p, NEW s PROVE KeepsLargest(OnTxPacket(a, p, s), a)
<1> DEFINE less(x) == IF x > 0 THEN x - 1 ELSE 0
<1>1. PICK b, f, e : /\ b = [a EXCEPT !.tx[s] = @ \cup {p}]
                     /\ f = [b EXCEPT !.in_flight = @ + 1]
                     /\ e = [f EXCEPT !.last_eliciting[s] = p.time, !.eliciting[s] = @ + 1]
  OBVIOUS
<1>2. KeepsLargest(b, a) /\ KeepsLargest(f, a) /\ KeepsLargest(e, a)
  BY <1>1 DEF KeepsLargest, HasLargest
<1>3. PICK g, h : g = SetTimer(f) /\ h = SetTimer(e)
  OBVIOUS
<1>4. KeepsLargest(g, a) /\ KeepsLargest(h, a)
  BY <1>2, <1>3, SetTimerLargest DEF KeepsLargest, HasLargest
<1>5. PICK d : d = [h EXCEPT !.probe[s] = less(@), !.anti_deadlock[s] = less(@)]
  OBVIOUS
<1>6. KeepsLargest(d, a)
  BY <1>4, <1>5 DEF KeepsLargest
<1>7. OnTxPacket(a, p, s) \in {b, g, d}
  BY <1>1, <1>3, <1>5 DEF OnTxPacket
<1> QED BY <1>2, <1>4, <1>6, <1>7

\* Acknowledging and losing packets of the history.
LEMMA AckedLostLargest ==
  ASSUME NEW a, HasLargest(a), NEW s, NEW newly, NEW lost, NEW delay
  PROVE  KeepsLargest(AckedLost(a, s, newly, lost, delay), a)
<1>1. PICK b : b = Remove(a, s, newly)
  OBVIOUS
<1>2. PICK c : c = Remove(b, s, lost)
  OBVIOUS
<1>3. PICK x : x = LossTime(a.tx[s] \ (newly \cup lost), a.largest_acked[s], delay)
  OBVIOUS
<1>4. PICK d : d = [c EXCEPT !.loss_time[s] = x, !.pto_count = IF a.validated THEN 0 ELSE @]
  OBVIOUS
<1>5. KeepsLargest(b, a)
  BY <1>1, RemoveLargest
<1>6. KeepsLargest(c, a)
  BY <1>2, <1>5, RemoveLargest DEF KeepsLargest, HasLargest
<1>7. KeepsLargest(d, a)
  BY <1>4, <1>6 DEF KeepsLargest
<1>8. KeepsLargest(SetTimer(d), a)
  BY <1>7, SetTimerLargest DEF KeepsLargest, HasLargest
<1> QED BY <1>1, <1>2, <1>3, <1>4, <1>8 DEF AckedLost

\* Only numbers of packets that were sent are acknowledged.
AckedSent == \A s \in Spaces : ackm.largest_acked[s] < txp.next_pn[s]

\* What a step that acknowledges nothing has to establish.
LEMMA AckedSentSame ==
  ASSUME IInv, AckedSent, KeepsLargest(ackm', ackm),
         \A s \in Spaces : txp'.next_pn[s] \in Nat /\ txp'.next_pn[s] >= txp.next_pn[s]
  PROVE  AckedSent'
<1>1. ASSUME NEW s \in Spaces PROVE ackm'.largest_acked[s] < txp'.next_pn[s]
  <2>1. ackm.largest_acked[s] \in Nat \cup {NONE} /\ txp.next_pn[s] \in Nat
    BY DEF IInv, PktInv, AckmInv, AckmType
  <2>2. ackm.largest_acked[s] < txp.next_pn[s] /\ ackm'.largest_acked[s] = ackm.largest_acked[s]
    BY DEF AckedSent, KeepsLargest
  <2>3. txp'.next_pn[s] \in Nat /\ txp'.next_pn[s] >= txp.next_pn[s]
    OBVIOUS
  <2> QED BY <2>1, <2>2, <2>3 DEF NONE
<1> QED BY <1>1 DEF AckedSent

\* The packetiser after losses numbers packets as before.
LEMMA NumbersKept ==
  ASSUME IInv, NEW s \in Spaces, NEW pkts, txp' = Regen(s, pkts) \/ txp' = txp
  PROVE  \A u \in Spaces : txp'.next_pn[u] \in Nat /\ txp'.next_pn[u] >= txp.next_pn[u]
<1>1. txp \in TxpType
  BY DEF IInv, PktInv, TxpType
<1>2. txp'.next_pn = txp.next_pn
  BY <1>1, TxpAfterLoss
<1>3. \A u \in Spaces : txp.next_pn[u] \in Nat
  BY <1>1 DEF TxpType
<1> QED BY <1>2, <1>3

\* The sender counts its packets up.
LEMMA SendNumbers ==
  ASSUME IInv, NEW s \in Spaces, NEW eliciting \in BOOLEAN,
         NEW padded \in BOOLEAN, Send(s, eliciting, padded)
  PROVE  \A u \in Spaces : txp'.next_pn[u] \in Nat /\ txp'.next_pn[u] >= txp.next_pn[u]
<1>1. txp \in TxpType /\ \A u \in Spaces : txp.next_pn[u] \in Nat
  BY DEF IInv, PktInv, TxpType
<1>2. PICK acks \in BOOLEAN : acks = (WantsAck(s) /\ AckFrame(s) # {})
  OBVIOUS
<1>3. \/ txp' = [txp EXCEPT !.next_pn[s] = @ + 1, !.want_ack[s] = @ /\ ~acks]
      \/ txp' = txp
  BY <1>2 DEF Send
<1>4. CASE txp' = [txp EXCEPT !.next_pn[s] = @ + 1, !.want_ack[s] = @ /\ ~acks]
  <2>1. txp'.next_pn = [txp.next_pn EXCEPT ![s] = @ + 1]
    BY <1>1, <1>4, TxpAfterSend
  <2>2. txp.next_pn = [u \in Spaces |-> txp.next_pn[u]]
    BY <1>1 DEF TxpType
  <2> QED BY <1>1, <2>1, <2>2
<1>5. CASE txp' = txp
  BY <1>1, <1>5
<1> QED BY <1>3, <1>4, <1>5

\* A packet that is sent acknowledges nothing of this end's.
LEMMA SendLargest ==
  ASSUME IInv, NEW s \in Spaces, NEW eliciting \in BOOLEAN,
         NEW padded \in BOOLEAN, Send(s, eliciting, padded)
  PROVE  KeepsLargest(ackm', ackm)
<1>1. HasLargest(ackm)
  BY DEF IInv, PktInv, AckmInv, AckmType, HasLargest
<1>2. \/ \E p : ackm' = WithoutInitial(OnTxPacket(ackm, p, s), s, FALSE)
      \/ ackm' = ackm
  <2> HIDE DEF WithoutInitial, OnTxPacket
  <2> QED BY DEF Send
<1>3. ASSUME NEW p, ackm' = WithoutInitial(OnTxPacket(ackm, p, s), s, FALSE)
      PROVE  KeepsLargest(ackm', ackm)
  <2>1. PICK b : b = OnTxPacket(ackm, p, s)
    OBVIOUS
  <2>2. KeepsLargest(b, ackm)
    BY <1>1, <2>1, OnTxPacketLargest
  <2>3. KeepsLargest(WithoutInitial(b, s, FALSE), b)
    BY <2>2, WithoutInitialLargest DEF KeepsLargest, HasLargest
  <2> QED BY <1>3, <2>1, <2>2, <2>3 DEF KeepsLargest
<1> QED BY <1>1, <1>2, <1>3 DEF KeepsLargest, HasLargest

\* A frame acknowledges packets that were sent.
LEMMA AckSeenSent ==
  ASSUME IInv, AckedSent, NEW s \in Spaces, NEW pns, pns \subseteq 0 .. txp.next_pn[s] - 1,
         NEW a, KeepsLargest(a, ackm)
  PROVE  LET b == AckSeen(a, s, pns)
         IN  HasLargest(b) /\ \A u \in Spaces : b.largest_acked[u] < txp.next_pn[u]
<1>1. PICK f \in [Spaces -> Nat \cup {NONE}] : f = ackm.largest_acked
  BY DEF IInv, PktInv, AckmInv, AckmType
<1>2. PICK n \in Nat : n = txp.next_pn[s]
  BY DEF IInv, PktInv
<1>3. PICK x : x = Max(pns \cup {f[s]})
  OBVIOUS
<1>4. x < txp.next_pn[s]
  <2>1. IsFiniteSet(0 .. n - 1) /\ pns \in SUBSET (0 .. n - 1)
    <3>1. 0 \in Int /\ n - 1 \in Int
      BY <1>2
    <3>2. IsFiniteSet(0 .. n - 1)
      BY <3>1, FS_Interval
    <3>3. pns \subseteq 0 .. n - 1
      BY <1>2
    <3> QED BY <3>2, <3>3
  <2>2. IsFiniteSet(pns)
    BY <2>1, FS_Subset
  <2>3. IsFiniteSet(pns \cup {f[s]})
    BY <2>2, FS_AddElement
  <2>4. pns \cup {f[s]} \subseteq Int /\ \A y \in pns \cup {f[s]} : y < n
    <3>1. f[s] \in Nat \cup {NONE} /\ f[s] < n
      BY <1>1, <1>2 DEF AckedSent
    <3>2. f[s] \in Int
      BY <3>1 DEF NONE
    <3>3. \A y \in pns : y \in Int /\ y < n
      BY <2>1
    <3> QED BY <3>1, <3>2, <3>3
  <2>5. x \in pns \cup {f[s]}
    <3>1. pns \cup {f[s]} # {}
      OBVIOUS
    <3> QED BY <1>3, <2>3, <2>4, <3>1, MaxIn
  <2> QED BY <1>2, <2>4, <2>5
<1>5. PICK b : b = AckSeen(a, s, pns)
  OBVIOUS
<1>6. HasLargest(b) /\ b.largest_acked = [f EXCEPT ![s] = x]
  <2>1. "largest_acked" \in DOMAIN a /\ a.largest_acked = f
    BY <1>1 DEF KeepsLargest
  <2>2. PICK va : va = (a.validated \/ s = HANDSHAKE)
    OBVIOUS
  <2>3. PICK g : g = [f EXCEPT ![s] = x]
    OBVIOUS
  <2>4. b = [a EXCEPT !.largest_acked = g, !.validated = va]
    BY <1>3, <1>5, <2>1, <2>2, <2>3 DEF AckSeen
  <2> QED BY <2>1, <2>3, <2>4 DEF HasLargest
<1>7. ASSUME NEW u \in Spaces PROVE b.largest_acked[u] < txp.next_pn[u]
  <2>1. f[u] < txp.next_pn[u]
    BY <1>1 DEF AckedSent
  <2> QED BY <1>1, <1>4, <1>6, <2>1
<1> QED BY <1>5, <1>6, <1>7

\* So a packet received leaves only such numbers.
LEMMA ReceiveSent ==
  ASSUME IInv, AckedSent, NEW s \in Spaces, NEW eliciting \in BOOLEAN, NEW pn \in DOMAIN times[s],
         NEW pns \in SUBSET (0 .. txp.next_pn[s] - 1), HandleFrames(s, pn, eliciting, pns)
  PROVE  AckedSent'
<1> DEFINE a0 == WithoutInitial(ackm, s, TRUE)
           a == AckSeen(a0, s, pns)
           newly == {p \in a.tx[s] : p.pn \in pns}
           sent(b) == HasLargest(b) /\ \A u \in Spaces : b.largest_acked[u] < txp.next_pn[u]
<1>1. HasLargest(ackm)
  BY DEF IInv, PktInv, AckmInv, AckmType, HasLargest
<1>2. KeepsLargest(a0, ackm)
  BY <1>1, WithoutInitialLargest
<1>3. sent(a0)
  BY <1>2 DEF AckedSent, KeepsLargest, HasLargest
<1>4. sent(a)
  BY <1>2, AckSeenSent
<1>5. \/ ackm' \in {a0, a, SetTimer(a)} /\ txp' = txp
      \/ \E lost, delay : ackm' = AckedLost(a, s, newly, lost, delay) /\ txp' = Regen(s, lost)
  <2>1. CASE newly = {}
    BY <2>1 DEF HandleFrames
  <2>2. CASE newly # {}
    <3> HIDE DEF a
    <3> QED BY <2>2 DEF HandleFrames, a
  <2> QED BY <2>1, <2>2
<1> HIDE DEF a0, a, newly
<1>6. sent(ackm') /\ \A u \in Spaces : txp'.next_pn[u] = txp.next_pn[u]
  <2>1. CASE ackm' \in {a0, a, SetTimer(a)} /\ txp' = txp
    <3>1. KeepsLargest(SetTimer(a), a)
      BY <1>4, SetTimerLargest
    <3> QED BY <1>3, <1>4, <2>1, <3>1 DEF KeepsLargest, HasLargest
  <2>2. ASSUME NEW lost, NEW delay, ackm' = AckedLost(a, s, newly, lost, delay),
               txp' = Regen(s, lost)
        PROVE  sent(ackm') /\ \A u \in Spaces : txp'.next_pn[u] = txp.next_pn[u]
    <3>1. KeepsLargest(ackm', a)
      BY <1>4, <2>2, AckedLostLargest
    <3>2. txp \in TxpType
      BY DEF IInv, PktInv, TxpType
    <3>3. txp'.next_pn = txp.next_pn
      BY <2>2, <3>2, TxpAfterLoss
    <3> QED BY <1>4, <3>1, <3>3 DEF KeepsLargest, HasLargest
  <2> QED BY <1>5, <2>1, <2>2
<1> QED BY <1>6 DEF AckedSent

\* Nor do the other steps acknowledge anything.
LEMMA OthersLargest ==
  ASSUME IInv, OnTimeout \/ HandshakeConfirmed \/ PseudoLost
  PROVE  KeepsLargest(ackm', ackm)
<1>1. HasLargest(ackm)
  BY DEF IInv, PktInv, AckmInv, AckmType, HasLargest
<1>2. CASE OnTimeout
  <2>1. CASE TimeoutLoses
    <3>1. PICK s, pkts, x : ackm' = SetTimer([Remove(ackm, s, pkts) EXCEPT !.loss_time[s] = x])
      BY <2>1, Zenon DEF TimeoutLoses
    <3>2. PICK b : b = Remove(ackm, s, pkts)
      OBVIOUS
    <3>3. KeepsLargest(b, ackm)
      BY <1>1, <3>2, RemoveLargest
    <3>4. PICK c : c = [b EXCEPT !.loss_time[s] = x]
      OBVIOUS
    <3>5. KeepsLargest(c, ackm)
      BY <3>3, <3>4 DEF KeepsLargest
    <3>6. KeepsLargest(SetTimer(c), c)
      BY <3>5, SetTimerLargest DEF KeepsLargest, HasLargest
    <3> QED BY <3>1, <3>2, <3>4, <3>5, <3>6 DEF KeepsLargest
  <2>2. CASE TimeoutProbes
    <3>1. PICK i, k : /\ ackm' = SetTimer([i EXCEPT !.pto_count = @ + 1])
                      /\ i \in {[ackm EXCEPT !.anti_deadlock[k] = @ + 1],
                                [ackm EXCEPT !.probe[k] = @ + 1]}
      BY <2>2 DEF TimeoutProbes
    <3>2. KeepsLargest(i, ackm)
      BY <1>1, <3>1 DEF KeepsLargest, HasLargest
    <3>3. PICK c : c = [i EXCEPT !.pto_count = @ + 1]
      OBVIOUS
    <3>4. KeepsLargest(c, ackm)
      BY <3>2, <3>3 DEF KeepsLargest
    <3>5. KeepsLargest(SetTimer(c), c)
      BY <3>4, SetTimerLargest DEF KeepsLargest, HasLargest
    <3> QED BY <3>1, <3>3, <3>4, <3>5 DEF KeepsLargest
  <2> QED BY <1>2, <2>1, <2>2 DEF OnTimeout
<1>3. CASE HandshakeConfirmed
  <2>1. PICK b : b = Discarded(ackm, HANDSHAKE)
    OBVIOUS
  <2>2. KeepsLargest(b, ackm)
    BY <1>1, <2>1, DiscardedLargest
  <2>3. PICK c : c = [b EXCEPT !.confirmed = TRUE, !.validated = TRUE]
    OBVIOUS
  <2>4. KeepsLargest(c, ackm)
    BY <2>2, <2>3 DEF KeepsLargest
  <2>5. KeepsLargest(SetTimer(c), c)
    BY <2>4, SetTimerLargest DEF KeepsLargest, HasLargest
  <2>6. ackm' = SetTimer(c)
    BY <1>3, <2>1, <2>3 DEF HandshakeConfirmed
  <2> QED BY <2>4, <2>5, <2>6 DEF KeepsLargest
<1>4. CASE PseudoLost
  <2>1. PICK p : ackm' = Remove(ackm, INITIAL, {p})
    BY <1>4 DEF PseudoLost
  <2> QED BY <1>1, <2>1, RemoveLargest
<1> QED BY <1>2, <1>3, <1>4

\* No step acknowledges what was not sent.
LEMMA AckedSentKept ==
  ASSUME IInv, AckedSent, [Next]_vars
  PROVE  AckedSent'
<1>1. \A u \in Spaces : txp.next_pn[u] \in Nat
  BY DEF IInv, PktInv
<1>2. HasLargest(ackm)
  BY DEF IInv, PktInv, AckmInv, AckmType, HasLargest
<1>3. CASE UNCHANGED <<ackm, txp>>
  BY <1>1, <1>2, <1>3, AckedSentSame DEF KeepsLargest, HasLargest
<1>4. ASSUME NEW s \in Spaces, NEW eliciting \in BOOLEAN,
         NEW padded \in BOOLEAN, Send(s, eliciting, padded) PROVE AckedSent'
  BY <1>4, SendLargest, SendNumbers, AckedSentSame
<1>5. ASSUME NEW s \in Spaces, NEW eliciting \in BOOLEAN, NEW pn \in DOMAIN times[s],
             NEW pns \in SUBSET (0 .. txp.next_pn[s] - 1), Receive(s, pn, eliciting, pns)
      PROVE  AckedSent'
  <2>1. HandleFrames(s, pn, eliciting, pns)
    BY <1>5 DEF Receive
  <2> QED BY <2>1, ReceiveSent
<1>6. CASE OnTimeout \/ HandshakeConfirmed \/ PseudoLost
  <2>1. \/ txp' = txp
        \/ \E s \in Spaces : \E pkts : txp' = Regen(s, pkts)
    <3>1. LossSpace(ackm) \in Spaces /\ INITIAL \in Spaces
      BY LossSpaceIn DEF Spaces
    <3>2. CASE OnTimeout
      <4>1. CASE TimeoutLoses
        BY <3>1, <4>1, Zenon DEF TimeoutLoses
      <4>2. CASE TimeoutProbes
        BY <4>2 DEF TimeoutProbes
      <4> QED BY <3>2, <4>1, <4>2 DEF OnTimeout
    <3>3. CASE HandshakeConfirmed
      BY <3>3 DEF HandshakeConfirmed
    <3>4. CASE PseudoLost
      BY <3>1, <3>4, Zenon DEF PseudoLost
    <3> QED BY <1>6, <3>2, <3>3, <3>4
  <2>2. \A u \in Spaces : txp'.next_pn[u] \in Nat /\ txp'.next_pn[u] >= txp.next_pn[u]
    BY <1>1, <2>1, NumbersKept
  <2> QED BY <1>6, <2>2, OthersLargest, AckedSentSame
<1>7. Tick \/ GiveUp => UNCHANGED <<ackm, txp>>
  BY DEF Tick, GiveUp
<1>8. UNCHANGED vars => UNCHANGED <<ackm, txp>>
  BY DEF vars
<1>9. CASE ReceiveNext
  <2>1. PICK q \in queue : \E pns \in SUBSET (0 .. txp.next_pn[q.space] - 1) :
          IF ackm.discarded[q.space] THEN UNCHANGED <<ackm, txp>>
          ELSE HandleFrames(q.space, q.pn, q.eliciting, pns)
    BY <1>9 DEF ReceiveNext
  <2>2. q.space \in Spaces /\ q.eliciting \in BOOLEAN /\ q.pn \in DOMAIN times[q.space]
    BY DEF IInv, QueueInv, Waits, RxInv, HistoryOK
  <2> QED BY <1>3, <2>1, <2>2, ReceiveSent
<1> QED BY <1>3, <1>4, <1>5, <1>6, <1>7, <1>8, <1>9 DEF Next

\* The state is well formed: no count is below zero, no window below the least,
\* nothing is acknowledged that was not sent, and every history of packets
\* received stays within its number of ranges, above its watermark.
THEOREM AckmTypes == Spec => []TypeOK
<1>1. Init => AckedSent
  <2> SUFFICES ASSUME Init PROVE AckedSent
    OBVIOUS
  <2>1. /\ ackm.largest_acked = [s \in Spaces |-> NONE]
        /\ txp.next_pn = Zero
    BY DEF Init
  <2> QED BY <2>1 DEF AckedSent, Zero, NONE
<1>2. Spec => []AckedSent
  <2>1. IInv /\ AckedSent /\ [Next]_vars => AckedSent'
    BY AckedSentKept
  <2> QED BY <1>1, <2>1, AckmInvariant, PTL DEF Spec
<1>3. ASSUME IInv, AckedSent PROVE TypeOK
  <2>1. ackm \in AckmType /\ cc \in CcType /\ undone \in Nat
    BY <1>3 DEF IInv, PktInv, AckmInv
  <2>2. ASSUME NEW s \in Spaces
        PROVE  /\ ackm.tx[s] \subseteq PacketType
               /\ \A p \in ackm.tx[s] : p.pn < txp.next_pn[s]
               /\ ackm.eliciting[s] \in Nat
               /\ Cardinality(InFlight(ackm.tx[s])) \in Nat
    <3>1. SpaceOK(ackm.tx[s], told[s], txp.next_pn[s], ackm.eliciting[s], case.tx[s])
      BY <1>3 DEF IInv, PktInv, AckmInv, Books
    <3>2. IsFiniteSet(ackm.tx[s])
      BY <3>1 DEF SpaceOK
    <3>3. Eliciting(ackm.tx[s]) \in SUBSET ackm.tx[s] /\ InFlight(ackm.tx[s]) \in SUBSET ackm.tx[s]
      BY DEF Eliciting, InFlight
    <3>4. /\ Cardinality(Eliciting(ackm.tx[s])) \in Nat
          /\ Cardinality(InFlight(ackm.tx[s])) \in Nat
      BY <3>2, <3>3, FS_Subset, FS_CardinalityType
    <3> QED BY <3>1, <3>4 DEF SpaceOK
  <2>3. ASSUME NEW s \in Spaces
        PROVE  ackm.largest_acked[s] \in NONE .. txp.next_pn[s] - 1
    <3>1. ackm.largest_acked[s] \in Nat \cup {NONE} /\ txp.next_pn[s] \in Nat
      BY <1>3, <2>1 DEF IInv, PktInv, AckmType
    <3>2. ackm.largest_acked[s] < txp.next_pn[s]
      BY <1>3 DEF AckedSent
    <3> QED BY <3>1, <3>2 DEF NONE
  <2>4. ASSUME NEW s \in Spaces
        PROVE  /\ {rx[s].since, rx[s].flush} \subseteq Nat
               /\ Cardinality(Starts(rx[s].set)) <= MAX_RX_ACK_RANGES
               /\ \A pn \in rx[s].set : pn >= rx[s].watermark
    <3>1. rx[s] \in RxType /\ Bounded(rx[s])
      BY <1>3 DEF IInv, RxInv, HistoryOK
    <3> QED BY <3>1 DEF RxType, Bounded
  <2>5. ASSUME NEW s \in Spaces
        PROVE  {ackm.last_eliciting[s], ackm.loss_time[s], ackm.probe[s],
                ackm.anti_deadlock[s]} \subseteq Nat
    BY <2>1 DEF AckmType
  <2>6. ackm.in_flight \in Nat /\ cc.in_flight \in Nat
    <3>1. ackm.in_flight = InFlightOf(ackm) /\ cc.in_flight = ackm.in_flight + undone
      BY <1>3 DEF IInv, PktInv, AckmInv, Books
    <3>2. InFlightOf(ackm) \in Nat
      BY <2>2 DEF InFlightOf, Spaces
    <3> QED BY <2>1, <3>1, <3>2
  <2>7. /\ {ackm.deadline, ackm.pto_count} \subseteq Nat
        /\ {cc.acked, cc.recovery, cc.last_loss} \subseteq Nat
        /\ cc.cwnd >= MinWnd /\ cc.ssthresh \in Nat
    BY <2>1 DEF AckmType, CcType, Windows
  <2> QED BY <2>2, <2>3, <2>4, <2>5, <2>6, <2>7 DEF TypeOK
<1> QED BY <1>2, <1>3, AckmInvariant, PTL
=============================================================================
