------------------------------ MODULE RcuProofs ------------------------------
(***************************************************************************)
(* Proofs that the RCU lock keeps its inductive invariant and therefore    *)
(* its safety properties, and that it implements GracePeriod, for any      *)
(* finite sets of readers and writers, any objects, any num_writers, any   *)
(* nesting depth and any identifier width that distinguishes the qps.      *)
(* One lemma per conjunct of the invariant, one step per action in each.   *)
(***************************************************************************)
EXTENDS RcuInv, FiniteSetTheorems, TLAPS

\* ossl_rcu_lock_new allocates at least two qps.
LEMMA GroupCount == group_count \in Nat /\ group_count >= 2
BY NumWritersAssumption DEF group_count

\* Incrementing an index of a ring.
LEMMA Wrap ==
  ASSUME NEW m \in Nat, NEW i \in 0 .. m - 1
  PROVE  (i + 1) % m = (IF i + 1 = m THEN 0 ELSE i + 1)
OBVIOUS

\* The distance on a ring is a number below the ring's size.
LEMMA AheadType ==
  ASSUME NEW m \in Nat, NEW i \in 0 .. m - 1, NEW n \in 0 .. m - 1
  PROVE  Ahead(i, n, m) \in 0 .. m - 1
BY DEF Ahead

\* A number is no step ahead of itself, and its successor is one ahead.
LEMMA AheadOne ==
  ASSUME NEW m \in Nat, m >= 2, NEW i \in 0 .. m - 1
  PROVE  Ahead(i, i, m) = 0 /\ Ahead((i + 1) % m, i, m) = 1
BY Wrap DEF Ahead

\* Incrementing the number ahead (id_ctr, current_alloc_idx) adds one to the
\* distance, as long as it does not lap the other.
LEMMA AheadFurther ==
  ASSUME NEW m \in Nat, NEW i \in 0 .. m - 1, NEW n \in 0 .. m - 1,
         Ahead(i, n, m) <= m - 2
  PROVE  Ahead((i + 1) % m, n, m) = Ahead(i, n, m) + 1
<1>1. CASE i + 1 = m
  <2>1. (i + 1) % m = 0  BY <1>1, Wrap
  <2>2. i >= n /\ n # 0  BY <1>1 DEF Ahead
  <2> QED BY <1>1, <2>1, <2>2 DEF Ahead
<1>2. CASE i + 1 # m
  <2>1. (i + 1) % m = i + 1  BY <1>2, Wrap
  <2>2. i + 1 # n  BY <2>1 DEF Ahead
  <2> QED BY <2>1, <2>2 DEF Ahead
<1> QED BY <1>1, <1>2

\* Incrementing the number behind (next_to_retire) takes one from the distance.
LEMMA AheadNearer ==
  ASSUME NEW m \in Nat, NEW i \in 0 .. m - 1, NEW n \in 0 .. m - 1, i # n
  PROVE  /\ Ahead(i, n, m) >= 1
         /\ Ahead(i, (n + 1) % m, m) = Ahead(i, n, m) - 1
BY Wrap DEF Ahead

\* A signal on alloc_signal moves at most sleepers of update_qp.
LEMMA SignalAllocEffect ==
  ASSUME NEW pc \in [Writers -> WriterPCs], NEW new \in SignalAlloc(pc)
  PROVE  /\ new \in [Writers -> WriterPCs]
         /\ \A v \in Writers : \/ new[v] = pc[v]
                               \/ pc[v] = "alloc_wait" /\ new[v] = "alloc"
BY DEF SignalAlloc, WriterPCs, GracePCs

\* What update_qp does to the writers' places.
LEMMA UpdateQpPC ==
  ASSUME TypeOK, NEW w \in Writers, UpdateQp(w)
  PROVE  /\ wpc' \in [Writers -> WriterPCs] /\ wpc'[w] = "prior"
         /\ \A v \in Writers \ {w} :
              wpc'[v] = wpc[v] \/ (wpc[v] = "alloc_wait" /\ wpc'[v] = "alloc")
<1>1. [wpc EXCEPT ![w] = "prior"] \in [Writers -> WriterPCs]
  BY DEF TypeOK, WriterPCs, GracePCs, Undrained
<1>2. wpc' \in SignalAlloc([wpc EXCEPT ![w] = "prior"])
  BY DEF UpdateQp
<1>3. /\ wpc' \in [Writers -> WriterPCs]
      /\ \A v \in Writers : LET pc == [wpc EXCEPT ![w] = "prior"] IN
           wpc'[v] = pc[v] \/ (pc[v] = "alloc_wait" /\ wpc'[v] = "alloc")
  BY <1>1, <1>2, SignalAllocEffect
<1> QED BY <1>3 DEF TypeOK

\* What retire_qp does to the writers' places.
LEMMA RetireQpPC ==
  ASSUME TypeOK, NEW w \in Writers, RetireQp(w)
  PROVE  /\ wpc' \in [Writers -> WriterPCs] /\ wpc'[w] = "callbacks"
         /\ \A v \in Writers \ {w} :
              wpc'[v] = wpc[v] \/ (wpc[v] = "alloc_wait" /\ wpc'[v] = "alloc")
<1>1. [wpc EXCEPT ![w] = "callbacks"] \in [Writers -> WriterPCs]
  BY DEF TypeOK, WriterPCs, GracePCs, Undrained
<1>2. wpc' \in SignalAlloc([wpc EXCEPT ![w] = "callbacks"])
  BY DEF RetireQp
<1>3. /\ wpc' \in [Writers -> WriterPCs]
      /\ \A v \in Writers : LET pc == [wpc EXCEPT ![w] = "callbacks"] IN
           wpc'[v] = pc[v] \/ (pc[v] = "alloc_wait" /\ wpc'[v] = "alloc")
  BY <1>1, <1>2, SignalAllocEffect
<1> QED BY <1>3 DEF TypeOK

\* The qp of a reader that is counted has a positive count, so that neither
\* get_hold_current_qp nor ossl_rcu_read_unlock takes it below zero.
LEMMA UsersPositive ==
  ASSUME TypeOK, UsersCount, NEW r \in Readers,
         rpc[r] \in {"counted", "undo", "held"}
  PROVE  users[qp[r]] >= 1
<1>1. IsFiniteSet(CountedOn(qp[r]))
  BY ThreadsAssumption, FS_Subset DEF CountedOn
<1>2. r \in CountedOn(qp[r])
  BY DEF CountedOn
<1>3. Cardinality(CountedOn(qp[r])) # 0
  BY <1>1, <1>2, FS_EmptySet
<1>4. qp[r] \in qps /\ users[qp[r]] \in Nat
  BY DEF TypeOK
<1> QED BY <1>3, <1>4 DEF UsersCount

\* The number of open grace periods is a ring distance.
LEMMA OpenType == TypeOK => Open \in 0 .. IdMod - 1
BY IdModAssumption, AheadType DEF TypeOK, Open, Dist

\* retire_qp never takes writers_alloced below zero.
LEMMA AllocedPositive ==
  ASSUME TypeOK, TurnInv, NEW w \in Writers, wpc[w] = "retire"
  PROVE  writers_alloced >= 1
<1>1. IsFiniteSet(Retiring)
  BY ThreadsAssumption, FS_Subset DEF Retiring
<1>2. Cardinality(Retiring) \in Nat /\ Cardinality(Retiring) # 0
  BY <1>1, FS_EmptySet, FS_CardinalityType DEF Retiring
<1>3. Open \in Nat
  BY IdModAssumption, GroupCount, OpenType
<1> QED BY <1>2, <1>3 DEF TurnInv

\* Every step keeps the types.
LEMMA TypeStep == IInv /\ [Next]_vars => TypeOK'
<1> SUFFICES ASSUME IInv, [Next]_vars PROVE TypeOK'
  OBVIOUS
<1> USE GroupCount, IdModAssumption, NumWritersAssumption DEF IInv, TypeOK, qps
<1>1. CASE UNCHANGED vars
  BY <1>1 DEF vars, lockVars, readerVars, writerVars
<1>2. ASSUME NEW r \in Readers, ReaderNext(r) PROVE TypeOK'
  <2> USE DEF NotReadSide, lockVars, readerVars, writerVars, ReaderPCs
  <2>1. CASE LoadIdx(r)  BY <2>1 DEF LoadIdx
  <2>2. CASE CountIn(r)
    <3>1. users' \in [qps -> Nat]  BY <2>2, SMTT(30) DEF CountIn
    <3> QED BY <2>2, <3>1 DEF CountIn
  <2>3. CASE Hold(r)
    <3>1. depth' \in [Readers -> 0 .. MaxDepth]  BY <2>3 DEF Hold
    <3> QED BY <2>3, <3>1 DEF Hold
  <2>4. CASE Missed(r)  BY <2>4 DEF Missed
  <2>5. CASE CountOut(r)
    <3>1. users[qp[r]] >= 1
      BY <2>5, UsersPositive DEF CountOut, ReaderInv
    <3>2. users' \in [qps -> Nat]  BY <2>5, <3>1, SMTT(30) DEF CountOut
    <3> QED BY <2>5, <3>2 DEF CountOut
  <2>6. CASE ReadLockNested(r)
    <3>0. MaxDepth \in Nat /\ depth[r] \in 0 .. MaxDepth  OBVIOUS
    <3>1. depth[r] + 1 \in 0 .. MaxDepth  BY <2>6, <3>0, SMTT(30) DEF ReadLockNested
    <3>2. depth' \in [Readers -> 0 .. MaxDepth]
      BY <2>6, <3>1 DEF ReadLockNested
    <3> QED BY <2>6, <3>2 DEF ReadLockNested
  <2>7. CASE Deref(r)  BY <2>7 DEF Deref
  <2>8. CASE ReadUnlockNested(r)
    <3>1. depth[r] - 1 \in 0 .. MaxDepth  BY <2>8, SMTT(30) DEF ReadUnlockNested
    <3>2. depth' \in [Readers -> 0 .. MaxDepth]
      BY <2>8, <3>1 DEF ReadUnlockNested
    <3> QED BY <2>8, <3>2 DEF ReadUnlockNested
  <2>9. CASE ReadUnlock(r)
    <3>1. users[qp[r]] >= 1
      BY <2>9, UsersPositive DEF ReadUnlock, ReaderInv
    <3>2. users' \in [qps -> Nat]  BY <2>9, <3>1, SMTT(30) DEF ReadUnlock
    <3>3. depth' \in [Readers -> 0 .. MaxDepth]  BY <2>9 DEF ReadUnlock
    <3>4. snapshot' \in [Writers -> SUBSET Readers]  BY <2>9 DEF ReadUnlock
    <3>5. got' \in [Readers -> SUBSET Objects] /\ rpc' \in [Readers -> ReaderPCs]
      BY <2>9 DEF ReadUnlock
    <3> QED BY <2>9, <3>2, <3>3, <3>4, <3>5 DEF ReadUnlock
  <2> QED
    BY <1>2, <2>1, <2>2, <2>3, <2>4, <2>5, <2>6, <2>7, <2>8, <2>9 DEF ReaderNext
<1>3. ASSUME NEW w \in Writers, WriterNext(w) PROVE TypeOK'
  <2> USE DEF NotUpdate, NotSync, lockVars, readerVars, writerVars
  <2>0. /\ {"idle", "locked", "replaced", "sync", "retire", "callbacks", "freed",
            "alloc", "alloc_wait", "prior", "prior_wait", "spin"} = WriterPCs
    BY DEF WriterPCs, GracePCs, Undrained
  <2>1. CASE WriteLock(w)  BY <2>0, <2>1 DEF WriteLock
  <2>2. CASE Assign(w)
    <3>1. heap' \subseteq Objects /\ ptr' \in Objects  BY <2>2 DEF Assign
    <3>2. old' \in [Writers -> Objects \cup {NULL}]  BY <2>2 DEF Assign
    <3> QED BY <2>0, <2>2, <3>1, <3>2 DEF Assign
  <2>3. CASE RcuCall(w)
    <3>1. cb_items' \subseteq Objects  BY <2>3 DEF RcuCall, HeapInv
    <3> QED BY <2>0, <2>3, <3>1 DEF RcuCall
  <2>4. CASE WriteUnlock(w)  BY <2>0, <2>4 DEF WriteUnlock
  <2>5. CASE TakeCallbacks(w)
    <3>1. snapshot' \in [Writers -> SUBSET Readers]
      BY <2>5 DEF TakeCallbacks, Inside
    <3> QED BY <2>0, <2>5, <3>1 DEF TakeCallbacks
  <2>6. CASE AllocWait(w)  BY <2>0, <2>6 DEF AllocWait
  <2>7. CASE UpdateQp(w)
    <3>1. /\ current_alloc_idx' \in qps /\ reader_idx' \in qps
          /\ id_ctr' \in 0 .. IdMod - 1
      BY <2>7, Wrap DEF UpdateQp
    <3>2. /\ wqp' \in [Writers -> qps] /\ curr_id' \in [Writers -> 0 .. IdMod - 1]
          /\ writers_alloced' \in Nat
      BY <2>7 DEF UpdateQp
    <3>3. wpc' \in [Writers -> WriterPCs]  BY <2>7, UpdateQpPC
    <3> QED BY <2>7, <3>1, <3>2, <3>3 DEF UpdateQp
  <2>8. CASE PriorWait(w)  BY <2>0, <2>8 DEF PriorWait
  <2>9. CASE PriorEnter(w)  BY <2>0, <2>9 DEF PriorEnter
  <2>10. CASE Drained(w)
    <3>1. next_to_retire' \in 0 .. IdMod - 1  BY <2>10, Wrap DEF Drained
    <3>2. wpc' \in [Writers -> WriterPCs]  BY <2>0, <2>10 DEF Drained
    <3> QED BY <2>10, <3>1, <3>2 DEF Drained
  <2>11. CASE RetireQp(w)
    <3>1. writers_alloced' \in Nat
      BY <2>11, AllocedPositive, SMTT(30) DEF RetireQp
    <3>2. wpc' \in [Writers -> WriterPCs]  BY <2>11, RetireQpPC
    <3> QED BY <2>11, <3>1, <3>2 DEF RetireQp
  <2>12. CASE RunCallback(w)
    <3>1. cbs' \in [Writers -> SUBSET Objects] /\ heap' \subseteq Objects
      BY <2>12, SMTT(30) DEF RunCallback
    <3> QED BY <2>12, <3>1 DEF RunCallback
  <2>13. CASE SyncReturn(w)  BY <2>0, <2>13 DEF SyncReturn
  <2>14. CASE LockFree(w)  BY <2>0, <2>14 DEF LockFree
  <2>15. CASE SpuriousWakeup(w)
    <3>1. wpc' \in [Writers -> WriterPCs]  BY <2>0, <2>15 DEF SpuriousWakeup
    <3> QED BY <2>15, <3>1 DEF SpuriousWakeup
  <2> QED
    BY <1>3, <2>1, <2>2, <2>3, <2>4, <2>5, <2>6, <2>7, <2>8, <2>9, <2>10, <2>11,
       <2>12, <2>13, <2>14, <2>15 DEF WriterNext
<1> QED BY <1>1, <1>2, <1>3 DEF Next, Gone

-----------------------------------------------------------------------------
(* Reader steps leave the write side alone.                                *)

\* A reader changes nothing of the write side, and takes itself off the
\* snapshots only by ossl_rcu_read_unlock.
LEMMA ReaderStepFrame ==
  ASSUME NEW r \in Readers, ReaderNext(r)
  PROVE  /\ UNCHANGED NotReadSide
         /\ UNCHANGED snapshot \/ ReadUnlock(r)
<1> USE DEF NotReadSide
<1>1. CASE LoadIdx(r)  BY <1>1 DEF LoadIdx
<1>2. CASE CountIn(r)  BY <1>2 DEF CountIn
<1>3. CASE Hold(r)  BY <1>3 DEF Hold
<1>4. CASE Missed(r)  BY <1>4 DEF Missed
<1>5. CASE CountOut(r)  BY <1>5 DEF CountOut
<1>6. CASE ReadLockNested(r)  BY <1>6 DEF ReadLockNested
<1>7. CASE Deref(r)  BY <1>7 DEF Deref
<1>8. CASE ReadUnlockNested(r)  BY <1>8 DEF ReadUnlockNested
<1>9. CASE ReadUnlock(r)  BY <1>9 DEF ReadUnlock
<1> QED BY <1>1, <1>2, <1>3, <1>4, <1>5, <1>6, <1>7, <1>8, <1>9 DEF ReaderNext

\* Every step keeps each mutex with the thread in its critical section.
LEMMA LockStep == IInv /\ [Next]_vars => LockInv'
<1> SUFFICES ASSUME IInv, [Next]_vars PROVE LockInv'
  OBVIOUS
<1> USE ThreadsAssumption DEF IInv, TypeOK, LockInv
<1>1. CASE UNCHANGED vars
  BY <1>1 DEF vars, lockVars, writerVars
<1>2. ASSUME NEW r \in Readers, ReaderNext(r) PROVE LockInv'
  BY <1>2, ReaderStepFrame DEF NotReadSide, writerVars
<1>3. ASSUME NEW w \in Writers, WriterNext(w) PROVE LockInv'
  <2> USE DEF NotUpdate, NotSync, lockVars, writerVars
  <2>1. CASE WriteLock(w)  BY <2>1 DEF WriteLock
  <2>2. CASE Assign(w)  BY <2>2 DEF Assign
  <2>3. CASE RcuCall(w)  BY <2>3 DEF RcuCall
  <2>4. CASE WriteUnlock(w)  BY <2>4 DEF WriteUnlock
  <2>5. CASE TakeCallbacks(w)  BY <2>5 DEF TakeCallbacks
  <2>6. CASE AllocWait(w)  BY <2>6 DEF AllocWait
  <2>7. CASE UpdateQp(w)
    <3>1. \A v \in Writers :
            /\ wpc'[v] \in {"locked", "replaced"} <=> wpc[v] \in {"locked", "replaced"}
            /\ wpc'[v] = "spin" <=> wpc[v] = "spin"
      BY <2>7, UpdateQpPC, ZenonT(60) DEF UpdateQp
    <3>2. \A v \in Writers : wpc[v] = "spin" => curr_id'[v] = curr_id[v]
      BY <2>7 DEF UpdateQp
    <3> QED BY <2>7, <3>1, <3>2 DEF UpdateQp
  <2>8. CASE PriorWait(w)  BY <2>8 DEF PriorWait
  <2>9. CASE PriorEnter(w)  BY <2>9 DEF PriorEnter
  <2>10. CASE Drained(w)  BY <2>10 DEF Drained
  <2>11. CASE RetireQp(w)
    <3>1. \A v \in Writers :
            /\ wpc'[v] \in {"locked", "replaced"} <=> wpc[v] \in {"locked", "replaced"}
            /\ wpc'[v] = "spin" <=> wpc[v] = "spin"
      BY <2>11, RetireQpPC DEF RetireQp
    <3>2. \A v \in Writers : wpc[v] = "spin" => curr_id'[v] = curr_id[v]
      BY <2>11 DEF RetireQp
    <3> QED BY <2>11, <3>1, <3>2 DEF RetireQp
  <2>12. CASE RunCallback(w)  BY <2>12 DEF RunCallback
  <2>13. CASE SyncReturn(w)  BY <2>13 DEF SyncReturn
  <2>14. CASE LockFree(w)  BY <2>14 DEF LockFree
  <2>15. CASE SpuriousWakeup(w)  BY <2>15 DEF SpuriousWakeup
  <2> QED
    BY <1>3, <2>1, <2>2, <2>3, <2>4, <2>5, <2>6, <2>7, <2>8, <2>9, <2>10, <2>11,
       <2>12, <2>13, <2>14, <2>15 DEF WriterNext
<1> QED BY <1>1, <1>2, <1>3 DEF Next, Gone

-----------------------------------------------------------------------------
(* Identifiers and qps stay in step.                                       *)

\* The writers between their wait and retire_qp can be counted.
LEMMA RetiringFinite == IsFiniteSet(Retiring) /\ Cardinality(Retiring) \in Nat
BY ThreadsAssumption, FS_Subset, FS_CardinalityType DEF Retiring

\* A step that leaves the ring, the identifiers and the writers waiting on
\* them alone keeps their order.
LEMMA TurnFrame ==
  ASSUME TurnInv,
         UNCHANGED <<reader_idx, current_alloc_idx, writers_alloced, id_ctr,
                     next_to_retire, wqp, curr_id>>,
         \A v \in Writers : /\ wpc'[v] \in Undrained <=> wpc[v] \in Undrained
                            /\ wpc'[v] = "retire" <=> wpc[v] = "retire"
  PROVE  TurnInv'
<1>1. Retiring' = Retiring
  BY DEF Retiring
<1>2. Open' = Open
  BY DEF Open, Dist
<1>3. \A v \in Writers : /\ Dist(curr_id[v])' = Dist(curr_id[v])
                         /\ Back(wqp[v])' = Back(wqp[v])
  BY DEF Dist, Back
<1>4. Cardinality(Retiring)' = Cardinality(Retiring)
  BY <1>1
<1> QED BY <1>2, <1>3, <1>4 DEF TurnInv

\* The distance of a writer's identifier to its turn is a natural number.
LEMMA DistType ==
  ASSUME TypeOK, NEW w \in Writers PROVE Dist(curr_id[w]) \in Nat
<1>1. Dist(curr_id[w]) \in 0 .. IdMod - 1
  BY IdModAssumption, AheadType DEF Dist, TypeOK
<1> QED BY <1>1

\* update_qp opens the last grace period of the queue on the qp just behind
\* the readers, and pushes the qps of the others one further back.
LEMMA UpdateQpTurn ==
  ASSUME IInv, NEW w \in Writers, UpdateQp(w)
  PROVE  /\ Open' = Open + 1
         /\ Dist(curr_id[w])' = Open
         /\ Back(wqp[w])' = 1
         /\ \A v \in Writers : v # w /\ wpc'[v] \in Undrained =>
              /\ wpc[v] \in Undrained
              /\ Dist(curr_id[v])' = Dist(curr_id[v])
              /\ Back(wqp[v])' = Back(wqp[v]) + 1
<1>0. /\ IdMod \in Nat /\ group_count \in Nat
      /\ group_count >= 2 /\ IdMod >= group_count
      /\ id_ctr \in 0 .. IdMod - 1 /\ next_to_retire \in 0 .. IdMod - 1
      /\ current_alloc_idx \in 0 .. group_count - 1
      /\ \A v \in Writers : /\ curr_id[v] \in 0 .. IdMod - 1
                            /\ wqp[v] \in 0 .. group_count - 1
  BY GroupCount, IdModAssumption DEF IInv, TypeOK, qps
<1>1. Open \in Nat /\ Open <= group_count - 2
  BY <1>0, RetiringFinite, OpenType DEF IInv, TurnInv, UpdateQp
<1>2. /\ id_ctr' = (id_ctr + 1) % IdMod
      /\ current_alloc_idx' = (current_alloc_idx + 1) % group_count
      /\ next_to_retire' = next_to_retire
  BY DEF UpdateQp
<1>3. Open' = Open + 1
  BY <1>0, <1>1, <1>2, AheadFurther DEF Open, Dist
<1>4. curr_id'[w] = id_ctr /\ wqp'[w] = current_alloc_idx
  BY DEF UpdateQp, IInv, TypeOK
<1>5. Dist(curr_id[w])' = Open /\ Back(wqp[w])' = 1
  BY <1>0, <1>2, <1>4, AheadOne DEF Open, Dist, Back
<1>6. ASSUME NEW v \in Writers, v # w, wpc'[v] \in Undrained
      PROVE  /\ wpc[v] \in Undrained
             /\ Dist(curr_id[v])' = Dist(curr_id[v])
             /\ Back(wqp[v])' = Back(wqp[v]) + 1
  <2>1. wpc[v] \in Undrained
    BY <1>6, UpdateQpPC DEF Undrained, IInv
  <2>2. curr_id'[v] = curr_id[v] /\ wqp'[v] = wqp[v]
    BY <1>6 DEF UpdateQp, IInv, TypeOK
  <2>3. Dist(curr_id[v])' = Dist(curr_id[v])
    BY <1>2, <2>2 DEF Dist
  <2>4. Dist(curr_id[v]) \in Nat
    BY DistType DEF IInv
  <2>5. Back(wqp[v]) = Open - Dist(curr_id[v])
    BY <2>1 DEF IInv, TurnInv
  <2>6. Back(wqp[v]) <= group_count - 2
    BY <1>0, <1>1, <2>4, <2>5
  <2>7. Back(wqp[v])' = Back(wqp[v]) + 1
    <3>1. Back(wqp[v])' = Ahead((current_alloc_idx + 1) % group_count, wqp[v],
                                group_count)
      BY <1>2, <2>2 DEF Back
    <3> QED BY <1>0, <2>6, <3>1, AheadFurther DEF Back
  <2> QED BY <2>1, <2>3, <2>7
<1> QED BY <1>3, <1>5, <1>6

\* The writer that ends its wait is the first of the queue, and every other one
\* gets one turn nearer.
LEMMA DrainedTurn ==
  ASSUME IInv, NEW w \in Writers, Drained(w)
  PROVE  /\ Open >= 1 /\ Open' = Open - 1
         /\ Dist(curr_id[w]) = 0
         /\ \A v \in Writers : wpc'[v] \in Undrained =>
              /\ v # w /\ wpc[v] \in Undrained
              /\ Dist(curr_id[v]) >= 1
              /\ Dist(curr_id[v])' = Dist(curr_id[v]) - 1
<1>0. /\ IdMod \in Nat /\ IdMod >= 2
      /\ id_ctr \in 0 .. IdMod - 1 /\ next_to_retire \in 0 .. IdMod - 1
      /\ \A v \in Writers : curr_id[v] \in 0 .. IdMod - 1
  BY GroupCount, IdModAssumption DEF IInv, TypeOK
<1>1. wpc[w] \in Undrained /\ curr_id[w] = next_to_retire
  BY DEF Drained, Undrained, IInv, LockInv
<1>2. Dist(curr_id[w]) = 0
  BY <1>0, <1>1, AheadOne DEF Dist
<1>3. Open >= 1
  BY <1>1, <1>2, OpenType DEF IInv, TurnInv
<1>4. /\ next_to_retire' = (next_to_retire + 1) % IdMod
      /\ id_ctr' = id_ctr /\ curr_id' = curr_id
  BY DEF Drained
<1>5. id_ctr # next_to_retire
  BY <1>0, <1>3, AheadOne DEF Open, Dist
<1>6. Open' = Open - 1
  BY <1>0, <1>4, <1>5, AheadNearer DEF Open, Dist
<1>7. ASSUME NEW v \in Writers, wpc'[v] \in Undrained
      PROVE  /\ v # w /\ wpc[v] \in Undrained
             /\ Dist(curr_id[v]) >= 1
             /\ Dist(curr_id[v])' = Dist(curr_id[v]) - 1
  <2>1. v # w /\ wpc[v] \in Undrained
    BY <1>7 DEF Drained, Undrained
  <2>2. curr_id[v] # next_to_retire
    BY <1>1, <2>1 DEF IInv, TurnInv
  <2>3. /\ Dist(curr_id[v]) >= 1
        /\ Dist(curr_id[v])' = Dist(curr_id[v]) - 1
    BY <1>0, <1>4, <2>2, AheadNearer DEF Dist
  <2> QED BY <2>1, <2>3
<1> QED BY <1>2, <1>3, <1>6, <1>7

\* Every step keeps identifiers and qps in the same order.
LEMMA TurnStep == IInv /\ [Next]_vars => TurnInv'
<1> SUFFICES ASSUME IInv, [Next]_vars PROVE TurnInv'
  OBVIOUS
<1>0. TypeOK /\ TurnInv /\ wpc \in [Writers -> WriterPCs]
  BY DEF IInv, TypeOK
<1>1. CASE UNCHANGED vars
  BY <1>0, <1>1, TurnFrame DEF vars, lockVars, writerVars
<1>2. ASSUME NEW r \in Readers, ReaderNext(r) PROVE TurnInv'
  BY <1>0, <1>2, ReaderStepFrame, TurnFrame DEF NotReadSide, writerVars
<1>3. ASSUME NEW w \in Writers, WriterNext(w) PROVE TurnInv'
  <2> DEFINE SameTurns ==
        /\ UNCHANGED <<reader_idx, current_alloc_idx, writers_alloced, id_ctr,
                       next_to_retire, wqp, curr_id>>
        /\ \A v \in Writers : /\ wpc'[v] \in Undrained <=> wpc[v] \in Undrained
                              /\ wpc'[v] = "retire" <=> wpc[v] = "retire"
  <2>0. SameTurns => TurnInv'
    BY <1>0, TurnFrame
  <2>1. UpdateQp(w) => TurnInv'
    <3> SUFFICES ASSUME UpdateQp(w) PROVE TurnInv'
      OBVIOUS
    <3>1. Retiring' = Retiring
      BY <1>0, UpdateQpPC DEF Retiring, UpdateQp
    <3>2. /\ Open \in Nat /\ Cardinality(Retiring) \in Nat
          /\ Cardinality(Retiring)' = Cardinality(Retiring)
      BY <1>0, <3>1, OpenType, RetiringFinite, IdModAssumption
    <3>3. /\ reader_idx' = current_alloc_idx'
          /\ writers_alloced' = Open' + Cardinality(Retiring)'
          /\ writers_alloced' <= group_count - 1
      <4>1. Open' = Open + 1  BY UpdateQpTurn
      <4>2. /\ reader_idx' = current_alloc_idx'
            /\ writers_alloced' = writers_alloced + 1
            /\ group_count - writers_alloced >= 2
        BY DEF UpdateQp
      <4>3. writers_alloced = Open + Cardinality(Retiring)
        BY <1>0 DEF TurnInv
      <4> QED BY <3>2, <4>1, <4>2, <4>3, GroupCount
    <3>4. ASSUME NEW v \in Writers, wpc'[v] \in Undrained
          PROVE  /\ Dist(curr_id[v])' < Open'
                 /\ Back(wqp[v])' = Open' - Dist(curr_id[v])'
      <4>1. CASE v = w
        BY <3>2, <4>1, UpdateQpTurn
      <4>2. CASE v # w
        <5>1. /\ wpc[v] \in Undrained
              /\ Dist(curr_id[v])' = Dist(curr_id[v])
              /\ Back(wqp[v])' = Back(wqp[v]) + 1
          BY <3>4, <4>2, UpdateQpTurn
        <5>2. Dist(curr_id[v]) < Open /\ Back(wqp[v]) = Open - Dist(curr_id[v])
          BY <1>0, <5>1 DEF TurnInv
        <5> QED BY <1>0, <3>2, <5>1, <5>2, UpdateQpTurn, DistType
      <4> QED BY <4>1, <4>2
    <3>5. ASSUME NEW u \in Writers, NEW v \in Writers, u # v,
                 wpc'[u] \in Undrained, wpc'[v] \in Undrained
          PROVE  curr_id'[u] # curr_id'[v]
      <4>1. ASSUME NEW x \in Writers, x # w, wpc'[x] \in Undrained
            PROVE  wpc[x] \in Undrained /\ curr_id'[x] = curr_id[x]
                   /\ curr_id[x] # id_ctr
        <5>1. wpc[x] \in Undrained /\ curr_id'[x] = curr_id[x]
          BY <1>0, <4>1, UpdateQpTurn DEF UpdateQp, TypeOK
        <5>2. Dist(curr_id[x]) < Open
          BY <1>0, <5>1 DEF TurnInv
        <5> QED BY <1>0, <3>2, <5>1, <5>2, DistType DEF Open
      <4>2. curr_id'[w] = id_ctr
        BY <1>0 DEF UpdateQp, TypeOK
      <4>3. CASE u = w  BY <3>5, <4>1, <4>2, <4>3
      <4>4. CASE v = w  BY <3>5, <4>1, <4>2, <4>4
      <4>5. CASE u # w /\ v # w
        BY <1>0, <3>5, <4>1, <4>5 DEF TurnInv
      <4> QED BY <4>3, <4>4, <4>5
    <3> QED BY <3>3, <3>4, <3>5 DEF TurnInv
  <2>2. Drained(w) => TurnInv'
    <3> SUFFICES ASSUME Drained(w) PROVE TurnInv'
      OBVIOUS
    <3>1. Retiring' = Retiring \cup {w} /\ w \notin Retiring
      BY <1>0 DEF Retiring, Drained
    <3>2. Cardinality(Retiring)' = Cardinality(Retiring) + 1
      BY <3>1, RetiringFinite, FS_AddElement
    <3>3. /\ reader_idx' = current_alloc_idx'
          /\ writers_alloced' = Open' + Cardinality(Retiring)'
          /\ writers_alloced' <= group_count - 1
      BY <1>0, <3>2, DrainedTurn, OpenType, RetiringFinite, IdModAssumption
         DEF Drained, TurnInv
    <3>4. ASSUME NEW v \in Writers, wpc'[v] \in Undrained
          PROVE  /\ Dist(curr_id[v])' < Open'
                 /\ Back(wqp[v])' = Open' - Dist(curr_id[v])'
      <4>1. /\ wpc[v] \in Undrained
            /\ Dist(curr_id[v])' = Dist(curr_id[v]) - 1
        BY <3>4, DrainedTurn
      <4>2. Back(wqp[v])' = Back(wqp[v])
        BY DEF Drained, Back
      <4>3. Dist(curr_id[v]) < Open /\ Back(wqp[v]) = Open - Dist(curr_id[v])
        BY <1>0, <4>1 DEF TurnInv
      <4> QED BY <1>0, <4>1, <4>2, <4>3, DrainedTurn, DistType, OpenType, IdModAssumption
    <3>5. ASSUME NEW u \in Writers, NEW v \in Writers, u # v,
                 wpc'[u] \in Undrained, wpc'[v] \in Undrained
          PROVE  curr_id'[u] # curr_id'[v]
      BY <1>0, <3>5, DrainedTurn DEF Drained, TurnInv
    <3> QED BY <3>3, <3>4, <3>5 DEF TurnInv
  <2>3. RetireQp(w) => TurnInv'
    <3> SUFFICES ASSUME RetireQp(w) PROVE TurnInv'
      OBVIOUS
    <3>1. Retiring' = Retiring \ {w} /\ w \in Retiring
      BY <1>0, RetireQpPC DEF Retiring, RetireQp
    <3>2. Cardinality(Retiring)' = Cardinality(Retiring) - 1
      BY <3>1, RetiringFinite, FS_RemoveElement
    <3>3. /\ reader_idx' = current_alloc_idx'
          /\ Open' = Open
          /\ \A v \in Writers : /\ curr_id'[v] = curr_id[v] /\ wqp'[v] = wqp[v]
                                /\ Dist(curr_id[v])' = Dist(curr_id[v])
                                /\ Back(wqp[v])' = Back(wqp[v])
      BY <1>0 DEF RetireQp, Open, Dist, Back, TurnInv
    <3>4. /\ writers_alloced' = Open' + Cardinality(Retiring)'
          /\ writers_alloced' <= group_count - 1
      BY <1>0, <3>2, <3>3, OpenType, RetiringFinite, IdModAssumption, GroupCount
         DEF RetireQp, TurnInv
    <3>5. \A v \in Writers : wpc'[v] \in Undrained => wpc[v] \in Undrained
      BY <1>0, RetireQpPC DEF Undrained
    <3> QED BY <1>0, <3>3, <3>4, <3>5 DEF TurnInv
  <2> USE <1>0 DEF SameTurns, Undrained, NotUpdate, NotSync, lockVars, writerVars
  <2>4. WriteLock(w) => SameTurns  BY DEF WriteLock
  <2>5. Assign(w) => SameTurns  BY DEF Assign
  <2>6. RcuCall(w) => SameTurns  BY DEF RcuCall
  <2>7. WriteUnlock(w) => SameTurns  BY DEF WriteUnlock
  <2>8. TakeCallbacks(w) => SameTurns  BY DEF TakeCallbacks
  <2>9. AllocWait(w) => SameTurns  BY DEF AllocWait
  <2>10. PriorWait(w) => SameTurns  BY DEF PriorWait
  <2>11. PriorEnter(w) => SameTurns  BY DEF PriorEnter
  <2>12. RunCallback(w) => SameTurns  BY DEF RunCallback
  <2>13. SyncReturn(w) => SameTurns  BY DEF SyncReturn
  <2>14. LockFree(w) => SameTurns  BY DEF LockFree
  <2>15. SpuriousWakeup(w) => SameTurns  BY DEF SpuriousWakeup
  <2> HIDE DEF SameTurns
  <2> QED
    BY <1>3, <2>0, <2>1, <2>2, <2>3, <2>4, <2>5, <2>6, <2>7, <2>8, <2>9, <2>10,
       <2>11, <2>12, <2>13, <2>14, <2>15 DEF WriterNext
<1> QED BY <1>1, <1>2, <1>3 DEF Next, Gone

-----------------------------------------------------------------------------
(* Readers and the qps they hold.                                          *)

\* A writer changes nothing of the read side; only three of its actions touch
\* what the grace-period invariant speaks of.
LEMMA WriterStepFrame ==
  ASSUME TypeOK, NEW w \in Writers, WriterNext(w)
  PROVE  /\ UNCHANGED <<users, readerVars>>
         /\ \/ UpdateQp(w)
            \/ Drained(w)
            \/ /\ UNCHANGED <<reader_idx, next_to_retire, wqp, curr_id>>
               /\ \A v \in Writers : wpc'[v] \in Undrained <=> wpc[v] \in Undrained
               /\ \/ TakeCallbacks(w)
                  \/ /\ UNCHANGED snapshot
                     /\ \A v \in Writers :
                          wpc'[v] \in GracePCs <=> wpc[v] \in GracePCs
<1>0. wpc \in [Writers -> WriterPCs]
  BY DEF TypeOK
<1> USE <1>0 DEF Undrained, GracePCs, NotUpdate, NotSync, lockVars, writerVars
<1>1. CASE WriteLock(w)  BY <1>1 DEF WriteLock
<1>2. CASE Assign(w)  BY <1>2 DEF Assign
<1>3. CASE RcuCall(w)  BY <1>3 DEF RcuCall
<1>4. CASE WriteUnlock(w)  BY <1>4 DEF WriteUnlock
<1>5. CASE TakeCallbacks(w)  BY <1>5 DEF TakeCallbacks
<1>6. CASE AllocWait(w)  BY <1>6 DEF AllocWait
<1>7. CASE UpdateQp(w)  BY <1>7 DEF UpdateQp
<1>8. CASE PriorWait(w)  BY <1>8 DEF PriorWait
<1>9. CASE PriorEnter(w)  BY <1>9 DEF PriorEnter
<1>10. CASE Drained(w)  BY <1>10 DEF Drained
<1>11. CASE RetireQp(w)
  <2>1. \A v \in Writers : /\ wpc'[v] \in Undrained <=> wpc[v] \in Undrained
                           /\ wpc'[v] \in GracePCs <=> wpc[v] \in GracePCs
    BY <1>11, RetireQpPC DEF RetireQp
  <2> QED BY <1>11, <2>1 DEF RetireQp
<1>12. CASE RunCallback(w)  BY <1>12 DEF RunCallback
<1>13. CASE SyncReturn(w)  BY <1>13 DEF SyncReturn
<1>14. CASE LockFree(w)  BY <1>14 DEF LockFree
<1>15. CASE SpuriousWakeup(w)  BY <1>15 DEF SpuriousWakeup
<1> QED
  BY <1>1, <1>2, <1>3, <1>4, <1>5, <1>6, <1>7, <1>8, <1>9, <1>10, <1>11, <1>12,
     <1>13, <1>14, <1>15 DEF WriterNext

\* The readers counted on a qp can be counted.
LEMMA CountedOnFinite == \A q \in qps : IsFiniteSet(CountedOn(q))
BY ThreadsAssumption, FS_Subset DEF CountedOn

\* Every step keeps each qp's count equal to the number of its readers.
LEMMA UsersStep == IInv /\ [Next]_vars => UsersCount'
<1> SUFFICES ASSUME IInv, [Next]_vars PROVE UsersCount'
  OBVIOUS
<1>0. TypeOK /\ UsersCount
  BY DEF IInv, ReaderInv
<1> DEFINE Same == users' = users /\ \A q \in qps : CountedOn(q)' = CountedOn(q)
<1>1. Same => UsersCount'
  BY <1>0 DEF UsersCount
<1>2. CASE UNCHANGED vars
  <2>1. Same  BY <1>2 DEF vars, lockVars, readerVars, CountedOn
  <2> QED BY <1>1, <2>1
<1>3. ASSUME NEW w \in Writers, WriterNext(w) PROVE UsersCount'
  <2>1. Same  BY <1>0, <1>3, WriterStepFrame DEF readerVars, CountedOn
  <2> QED BY <1>1, <2>1
<1>4. ASSUME NEW r \in Readers, ReaderNext(r) PROVE UsersCount'
  <2> USE <1>0 DEF TypeOK
  <2>0. users \in [qps -> Nat] /\ qp \in [Readers -> qps] /\ qp[r] \in qps
    OBVIOUS
  <2>1. LoadIdx(r) => Same  BY DEF LoadIdx, CountedOn
  <2>2. Hold(r) => Same  BY DEF Hold, CountedOn
  <2>3. Missed(r) => Same  BY DEF Missed, CountedOn
  <2>4. ReadLockNested(r) => Same  BY DEF ReadLockNested, CountedOn
  <2>5. Deref(r) => Same  BY DEF Deref, CountedOn
  <2>6. ReadUnlockNested(r) => Same  BY DEF ReadUnlockNested, CountedOn
  <2>7. ASSUME CountIn(r) PROVE UsersCount'
    <3>1. /\ CountedOn(qp[r])' = CountedOn(qp[r]) \cup {r}
          /\ r \notin CountedOn(qp[r])
          /\ \A q \in qps : q # qp[r] => CountedOn(q)' = CountedOn(q)
          /\ qp' = qp
      BY <2>7 DEF CountIn, CountedOn
    <3>2. Cardinality(CountedOn(qp[r])') = Cardinality(CountedOn(qp[r])) + 1
      BY <2>0, <3>1, CountedOnFinite, FS_AddElement
    <3>3. /\ users'[qp[r]] = users[qp[r]] + 1
          /\ \A q \in qps : q # qp[r] => users'[q] = users[q]
      BY <2>0, <2>7 DEF CountIn
    <3> QED BY <2>0, <3>1, <3>2, <3>3 DEF UsersCount
  <2>8. ASSUME CountOut(r) \/ ReadUnlock(r) PROVE UsersCount'
    <3>1. /\ CountedOn(qp[r])' = CountedOn(qp[r]) \ {r}
          /\ r \in CountedOn(qp[r])
          /\ \A q \in qps : q # qp[r] => CountedOn(q)' = CountedOn(q)
          /\ qp' = qp
      <4>1. /\ rpc[r] \in {"undo", "held"} /\ rpc'[r] \in {"retry", "idle"}
            /\ \A x \in Readers : x # r => rpc'[x] = rpc[x]
            /\ qp' = qp
        <5>1. CASE CountOut(r)  BY <5>1 DEF CountOut
        <5>2. CASE ReadUnlock(r)  BY <5>2 DEF ReadUnlock
        <5> QED BY <2>8, <5>1, <5>2
      <4> QED BY <4>1 DEF CountedOn
    <3>2. Cardinality(CountedOn(qp[r])') = Cardinality(CountedOn(qp[r])) - 1
      <4>1. IsFiniteSet(CountedOn(qp[r]))
        BY <2>0, CountedOnFinite
      <4>2. Cardinality(CountedOn(qp[r]) \ {r}) = Cardinality(CountedOn(qp[r])) - 1
        BY <3>1, <4>1, FS_RemoveElement, ZenonT(60)
      <4> QED BY <3>1, <4>2
    <3>3. /\ users'[qp[r]] = users[qp[r]] - 1
          /\ \A q \in qps : q # qp[r] => users'[q] = users[q]
      BY <2>0, <2>8 DEF CountOut, ReadUnlock
    <3> QED BY <2>0, <3>1, <3>2, <3>3 DEF UsersCount
  <2> HIDE DEF Same
  <2> QED
    BY <1>1, <1>4, <2>1, <2>2, <2>3, <2>4, <2>5, <2>6, <2>7, <2>8 DEF ReaderNext
<1> QED BY <1>2, <1>3, <1>4 DEF Next, Gone

\* After every step a reader inside holds the readers' qp or one that is still
\* waited on; a reader outside refers to nothing and is on no snapshot.
LEMMA HeldStep == IInv /\ [Next]_vars =>
  \A r \in Readers :
    /\ rpc'[r] # "held" => got'[r] = {} /\ \A w \in Writers : r \notin snapshot'[w]
    /\ rpc'[r] = "held" =>
         \/ qp'[r] = reader_idx'
         \/ \E w \in Writers : wpc'[w] \in Undrained /\ wqp'[w] = qp'[r]
<1> SUFFICES ASSUME IInv, [Next]_vars, NEW r \in Readers
             PROVE  /\ rpc'[r] # "held" =>
                         got'[r] = {} /\ \A w \in Writers : r \notin snapshot'[w]
                    /\ rpc'[r] = "held" =>
                         \/ qp'[r] = reader_idx'
                         \/ \E w \in Writers :
                              wpc'[w] \in Undrained /\ wqp'[w] = qp'[r]
  OBVIOUS
<1> DEFINE Left == rpc[r] # "held" =>
                     got[r] = {} /\ \A w \in Writers : r \notin snapshot[w]
           OnQp == rpc[r] = "held" =>
                     \/ qp[r] = reader_idx
                     \/ \E w \in Writers : wpc[w] \in Undrained /\ wqp[w] = qp[r]
<1>0. TypeOK /\ Left /\ OnQp
  BY DEF IInv, ReaderInv
<1> SUFFICES Left' /\ OnQp'
  OBVIOUS
<1>1. CASE UNCHANGED vars
  BY <1>0, <1>1 DEF vars, lockVars, readerVars, writerVars
<1>2. ASSUME NEW x \in Readers, ReaderNext(x) PROVE Left' /\ OnQp'
  <2>0. /\ reader_idx' = reader_idx /\ wpc' = wpc /\ wqp' = wqp
        /\ rpc \in [Readers -> ReaderPCs] /\ qp \in [Readers -> qps]
        /\ got \in [Readers -> SUBSET Objects]
    BY <1>0, <1>2, ReaderStepFrame DEF NotReadSide, writerVars, TypeOK
  <2> USE <1>0, <2>0
  <2>1. CASE LoadIdx(x)  BY <2>1 DEF LoadIdx
  <2>2. CASE CountIn(x)  BY <2>2 DEF CountIn
  <2>3. CASE Hold(x)  BY <2>3 DEF Hold
  <2>4. CASE Missed(x)  BY <2>4 DEF Missed
  <2>5. CASE CountOut(x)  BY <2>5 DEF CountOut
  <2>6. CASE ReadLockNested(x)  BY <2>6 DEF ReadLockNested
  <2>7. CASE Deref(x)  BY <2>7 DEF Deref
  <2>8. CASE ReadUnlockNested(x)  BY <2>8 DEF ReadUnlockNested
  <2>9. CASE ReadUnlock(x)  BY <2>9 DEF ReadUnlock
  <2> QED
    BY <1>2, <2>1, <2>2, <2>3, <2>4, <2>5, <2>6, <2>7, <2>8, <2>9 DEF ReaderNext
<1>3. ASSUME NEW w \in Writers, WriterNext(w) PROVE Left' /\ OnQp'
  <2>0. rpc' = rpc /\ qp' = qp /\ got' = got /\ users' = users
    BY <1>0, <1>3, WriterStepFrame DEF readerVars
  <2>1. CASE UpdateQp(w)
    <3>1. Left'
      BY <1>0, <2>0, <2>1 DEF UpdateQp
    <3>2. OnQp'
      <4>1. wpc'[w] \in Undrained /\ wqp'[w] = reader_idx
        BY <1>0, <2>1, UpdateQpPC DEF UpdateQp, Undrained, TypeOK, IInv, TurnInv
      <4>2. \A v \in Writers : wpc[v] \in Undrained =>
              wpc'[v] \in Undrained /\ wqp'[v] = wqp[v]
        BY <1>0, <2>1, UpdateQpPC DEF UpdateQp, Undrained, TypeOK
      <4> QED BY <1>0, <2>0, <4>1, <4>2
    <3> QED BY <3>1, <3>2
  <2>2. CASE Drained(w)
    <3>1. Left'
      BY <1>0, <2>0, <2>2 DEF Drained
    <3>2. rpc[r] = "held" => qp[r] # wqp[w]
      BY <1>0, <2>2, UsersPositive DEF Drained, IInv, ReaderInv
    <3>3. \A v \in Writers : wpc[v] \in Undrained /\ v # w =>
            wpc'[v] \in Undrained
      BY <1>0, <2>2 DEF Drained, Undrained, TypeOK
    <3> QED BY <1>0, <2>0, <2>2, <3>1, <3>2, <3>3 DEF Drained
  <2>3. CASE ~UpdateQp(w) /\ ~Drained(w)
    <3>1. /\ reader_idx' = reader_idx /\ wqp' = wqp
          /\ \A v \in Writers : wpc'[v] \in Undrained <=> wpc[v] \in Undrained
          /\ snapshot' = snapshot \/ TakeCallbacks(w)
      BY <1>0, <1>3, <2>3, WriterStepFrame
    <3>2. rpc[r] # "held" => \A v \in Writers : r \notin snapshot'[v]
      BY <1>0, <3>1 DEF TakeCallbacks, Inside, TypeOK
    <3> QED BY <1>0, <2>0, <3>1, <3>2
  <2> QED BY <2>1, <2>2, <2>3
<1> QED BY <1>1, <1>2, <1>3 DEF Next, Gone

\* Every step keeps the reader invariant.
LEMMA ReaderStep == IInv /\ [Next]_vars => ReaderInv'
BY UsersStep, HeldStep DEF ReaderInv

-----------------------------------------------------------------------------
(* The grace period.                                                       *)

\* When a writer's qp has drained on its turn, nobody it owes a wait is left.
LEMMA DrainedOutlasted ==
  ASSUME IInv, NEW w \in Writers, Drained(w)
  PROVE  snapshot[w] = {}
<1> SUFFICES ASSUME NEW r \in snapshot[w] PROVE FALSE
  OBVIOUS
<1>0. /\ TypeOK /\ r \in Readers /\ rpc[r] = "held"
  BY DEF IInv, TypeOK, ReaderInv
<1>1. wpc[w] \in Undrained
  BY DEF Drained, Undrained
<1>2. PICK v \in Writers : /\ wpc[v] \in Undrained
                           /\ wqp[v] = qp[r]
                           /\ Dist(curr_id[v]) <= Dist(curr_id[w])
  BY <1>1 DEF IInv, GraceInv
<1>3. v = w
  <2>1. Dist(curr_id[w]) = 0  BY DrainedTurn
  <2>2. Dist(curr_id[v]) = 0  BY <1>0, <1>2, <2>1, DistType
  <2>3. v # w => wpc'[v] \in Undrained
    BY <1>0, <1>2 DEF Drained, Undrained, TypeOK
  <2> QED BY <2>2, <2>3, DrainedTurn
<1> QED BY <1>0, <1>2, <1>3, UsersPositive DEF Drained, IInv, ReaderInv

\* Every step keeps what a writer must outlast on qps that retire no later
\* than its own.
LEMMA GraceStep == IInv /\ [Next]_vars => GraceInv'
<1> SUFFICES ASSUME IInv, [Next]_vars PROVE GraceInv'
  OBVIOUS
<1>0. /\ TypeOK /\ GraceInv
      /\ \A w \in Writers : \A r \in snapshot[w] : r \in Readers /\ rpc[r] = "held"
  BY DEF IInv, TypeOK, ReaderInv
<1>1. CASE UNCHANGED vars
  BY <1>0, <1>1 DEF vars, lockVars, readerVars, writerVars, GraceInv, Dist
<1>2. ASSUME NEW r \in Readers, ReaderNext(r) PROVE GraceInv'
  <2>1. /\ wpc' = wpc /\ wqp' = wqp /\ curr_id' = curr_id
        /\ next_to_retire' = next_to_retire
    BY <1>2, ReaderStepFrame DEF NotReadSide, writerVars
  <2>2. \A w \in Writers : Dist(curr_id[w])' = Dist(curr_id[w])
    BY <2>1 DEF Dist
  <2>3. \A w \in Writers : snapshot'[w] \subseteq snapshot[w]
    BY <1>2, ReaderStepFrame DEF ReadUnlock
  <2>4. \A x \in Readers : rpc[x] = "held" => qp'[x] = qp[x]
    BY <1>0, <1>2 DEF TypeOK, ReaderNext, LoadIdx, CountIn, Hold, Missed,
       CountOut, ReadLockNested, Deref, ReadUnlockNested, ReadUnlock
  <2> QED BY <1>0, <2>1, <2>2, <2>3, <2>4 DEF GraceInv
<1>3. ASSUME NEW w \in Writers, WriterNext(w) PROVE GraceInv'
  <2>0. qp' = qp
    BY <1>0, <1>3, WriterStepFrame DEF readerVars
  <2>1. CASE UpdateQp(w)
    <3>1. snapshot' = snapshot
      BY <2>1 DEF UpdateQp
    <3>2. \A v \in Writers : wpc'[v] \in GracePCs <=> wpc[v] \in GracePCs
      BY <1>0, <2>1, UpdateQpPC DEF UpdateQp, GracePCs, Undrained
    <3>3. \A v \in Writers : wpc[v] \in Undrained =>
            /\ v # w /\ wpc'[v] \in Undrained /\ wqp'[v] = wqp[v]
            /\ Dist(curr_id[v])' = Dist(curr_id[v])
            /\ Dist(curr_id[v]) < Open
      <4>1. \A v \in Writers : wpc[v] \in Undrained =>
              v # w /\ wpc'[v] \in Undrained /\ wqp'[v] = wqp[v]
        BY <1>0, <2>1, UpdateQpPC DEF UpdateQp, Undrained, TypeOK
      <4>2. \A v \in Writers : wpc[v] \in Undrained => Dist(curr_id[v]) < Open
        BY DEF IInv, TurnInv
      <4> QED BY <2>1, <4>1, <4>2, UpdateQpTurn
    <3>4. wpc'[w] \in Undrained /\ wqp'[w] = reader_idx /\ Dist(curr_id[w])' = Open
      BY <1>0, <2>1, UpdateQpPC, UpdateQpTurn
         DEF UpdateQp, Undrained, TypeOK, IInv, TurnInv
    <3>5. ASSUME NEW r \in snapshot[w]
          PROVE  \E v \in Writers : /\ wpc'[v] \in Undrained /\ wqp'[v] = qp[r]
                                    /\ Dist(curr_id[v])' <= Dist(curr_id[w])'
      <4>0. Open \in Nat
        BY <1>0, OpenType, IdModAssumption
      <4>1. CASE qp[r] = reader_idx
        BY <3>4, <4>0, <4>1
      <4>2. CASE qp[r] # reader_idx
        <5>1. PICK v \in Writers : wpc[v] \in Undrained /\ wqp[v] = qp[r]
          BY <1>0, <4>2 DEF IInv, ReaderInv
        <5>2. Dist(curr_id[v])' <= Dist(curr_id[w])'
          BY <1>0, <3>3, <3>4, <4>0, <5>1, DistType
        <5> QED BY <3>3, <5>1, <5>2
      <4> QED BY <4>1, <4>2
    <3>6. ASSUME NEW u \in Writers, u # w, wpc'[u] \in Undrained, NEW r \in snapshot[u]
          PROVE  \E v \in Writers : /\ wpc'[v] \in Undrained /\ wqp'[v] = qp[r]
                                    /\ Dist(curr_id[v])' <= Dist(curr_id[u])'
      <4>1. wpc[u] \in Undrained
        BY <2>1, <3>6, UpdateQpTurn
      <4> QED BY <1>0, <3>3, <4>1 DEF GraceInv
    <3> QED BY <1>0, <2>0, <3>1, <3>2, <3>5, <3>6 DEF GraceInv
  <2>2. CASE Drained(w)
    <3>1. snapshot' = snapshot /\ wqp' = wqp /\ snapshot[w] = {}
      BY <2>2, DrainedOutlasted DEF Drained
    <3>2. \A v \in Writers : v # w =>
            /\ wpc'[v] \in GracePCs <=> wpc[v] \in GracePCs
            /\ wpc'[v] \in Undrained <=> wpc[v] \in Undrained
      BY <1>0, <2>2 DEF Drained, GracePCs, Undrained, TypeOK
    <3>3. ASSUME NEW u \in Writers, wpc'[u] \in Undrained, NEW r \in snapshot[u]
          PROVE  \E v \in Writers : /\ wpc'[v] \in Undrained /\ wqp'[v] = qp[r]
                                    /\ Dist(curr_id[v])' <= Dist(curr_id[u])'
      <4>1. wpc[u] \in Undrained
        BY <2>2, <3>3, DrainedTurn
      <4>2. PICK v \in Writers : /\ wpc[v] \in Undrained /\ wqp[v] = qp[r]
                                 /\ Dist(curr_id[v]) <= Dist(curr_id[u])
        BY <1>0, <4>1 DEF GraceInv
      <4>3. v # w
        BY <1>0, <2>2, <4>2, UsersPositive DEF Drained, IInv, ReaderInv
      <4>4. wpc'[v] \in Undrained
        BY <3>2, <4>2, <4>3
      <4>5. Dist(curr_id[v])' <= Dist(curr_id[u])'
        BY <1>0, <2>2, <3>3, <4>2, <4>4, DrainedTurn, DistType
      <4> QED BY <3>1, <4>2, <4>4, <4>5
    <3> QED BY <1>0, <2>0, <3>1, <3>2, <3>3 DEF GraceInv
  <2>3. CASE ~UpdateQp(w) /\ ~Drained(w)
    <3>1. /\ wqp' = wqp /\ curr_id' = curr_id /\ next_to_retire' = next_to_retire
          /\ \A v \in Writers : wpc'[v] \in Undrained <=> wpc[v] \in Undrained
      BY <1>0, <1>3, <2>3, WriterStepFrame
    <3>2. \A v \in Writers : Dist(curr_id[v])' = Dist(curr_id[v])
      BY <3>1 DEF Dist
    <3>3. CASE TakeCallbacks(w)
      <4>1. wpc'[w] \in GracePCs \ Undrained
        BY <1>0, <3>3 DEF TakeCallbacks, GracePCs, Undrained, TypeOK
      <4>2. \A v \in Writers : v # w => wpc'[v] = wpc[v] /\ snapshot'[v] = snapshot[v]
        BY <1>0, <3>3 DEF TakeCallbacks, TypeOK
      <4> QED BY <1>0, <2>0, <3>1, <3>2, <4>1, <4>2 DEF GraceInv
    <3>4. CASE ~TakeCallbacks(w)
      <4>1. /\ snapshot' = snapshot
            /\ \A v \in Writers : wpc'[v] \in GracePCs <=> wpc[v] \in GracePCs
        BY <1>0, <1>3, <2>3, <3>4, WriterStepFrame
      <4> QED BY <1>0, <2>0, <3>1, <3>2, <4>1 DEF GraceInv
    <3> QED BY <3>3, <3>4
  <2> QED BY <2>1, <2>2, <2>3
<1> QED BY <1>1, <1>2, <1>3 DEF Next, Gone

-----------------------------------------------------------------------------
(* Memory.                                                                 *)

\* A step that leaves memory, callbacks and snapshots alone keeps the memory
\* invariant.
LEMMA HeapFrame ==
  ASSUME HeapInv,
         UNCHANGED <<cbs, old, cb_items, heap, ptr, got, snapshot>>,
         \A v \in Writers :
           \/ wpc'[v] = wpc[v]
           \/ /\ wpc[v] \in GracePCs \cup {"retire", "callbacks"}
              /\ wpc'[v] \in GracePCs \cup {"retire", "callbacks"}
  PROVE  HeapInv'
<1>1. \A v \in Writers : Pending(v)' = Pending(v)
  BY DEF Pending
<1>2. \A v \in Writers :
        /\ wpc'[v] \in {"idle", "locked", "freed"} => wpc[v] \in {"idle", "locked", "freed"}
        /\ wpc'[v] = "replaced" => wpc[v] = "replaced"
        /\ wpc'[v] \in {"idle", "locked", "replaced", "sync", "freed"} =>
             wpc[v] \in {"idle", "locked", "replaced", "sync", "freed"}
        /\ wpc'[v] \in GracePCs \cup {"retire", "callbacks"} =>
             wpc[v] \in GracePCs \cup {"retire", "callbacks"}
  BY DEF GracePCs, Undrained
<1> QED BY <1>1, <1>2 DEF HeapInv, FreedOnce, NoUseAfterFree

\* Every step keeps freed memory out of the readers' reach: a callback or a
\* returning writer frees an object only after its grace period.
LEMMA HeapStep == IInv /\ [Next]_vars => HeapInv'
<1> SUFFICES ASSUME IInv, [Next]_vars PROVE HeapInv'
  OBVIOUS
<1>0. /\ HeapInv /\ ptr \in Objects /\ heap \subseteq Objects
      /\ wpc \in [Writers -> WriterPCs] /\ old \in [Writers -> Objects \cup {NULL}]
      /\ cbs \in [Writers -> SUBSET Objects] /\ got \in [Readers -> SUBSET Objects]
      /\ snapshot \in [Writers -> SUBSET Readers] /\ NULL \notin Objects
  BY ThreadsAssumption DEF IInv, TypeOK
<1>1. CASE UNCHANGED vars
  BY <1>0, <1>1 DEF vars, lockVars, readerVars, writerVars, HeapInv, FreedOnce,
     NoUseAfterFree, Pending
<1>2. ASSUME NEW r \in Readers, ReaderNext(r) PROVE HeapInv'
  <2>1. /\ wpc' = wpc /\ old' = old /\ cbs' = cbs /\ heap' = heap /\ ptr' = ptr
        /\ cb_items' = cb_items
    BY <1>2, ReaderStepFrame DEF NotReadSide, writerVars
  <2>2. \A w \in Writers : Pending(w)' = Pending(w)
    BY <2>1 DEF Pending
  <2>3. FreedOnce'
    BY <1>0, <2>1, <2>2 DEF HeapInv, FreedOnce
  <2>4. CASE Deref(r)
    <3>1. \A x \in Readers : got'[x] \subseteq got[x] \cup {ptr}
      BY <1>0, <2>4 DEF Deref
    <3>2. snapshot' = snapshot
      BY <2>4 DEF Deref
    <3> QED BY <1>0, <2>1, <2>2, <2>3, <3>1, <3>2 DEF HeapInv, FreedOnce, NoUseAfterFree
  <2>5. CASE ReadUnlock(r)
    <3>1. /\ \A x \in Readers : x # r => got'[x] = got[x]
          /\ got'[r] = {}
          /\ \A w \in Writers : snapshot'[w] = snapshot[w] \ {r}
      BY <1>0, <2>5 DEF ReadUnlock
    <3> QED BY <1>0, <2>1, <2>2, <2>3, <3>1 DEF HeapInv, NoUseAfterFree
  <2>6. CASE ~Deref(r) /\ ~ReadUnlock(r)
    <3>1. got' = got /\ snapshot' = snapshot
      BY <1>2, <2>6 DEF ReaderNext, LoadIdx, CountIn, Hold, Missed, CountOut,
         ReadLockNested, ReadUnlockNested
    <3> QED BY <1>0, <2>1, <2>2, <2>3, <3>1 DEF HeapInv, NoUseAfterFree
  <2> QED BY <2>4, <2>5, <2>6
<1>3. ASSUME NEW w \in Writers, WriterNext(w) PROVE HeapInv'
  <2>0. \A v \in Writers : wpc[v] \notin GracePCs => snapshot[v] = {}
    BY DEF IInv, GraceInv
  <2>7. CASE UpdateQp(w)
    <3>1. \A v \in Writers : \/ wpc'[v] = wpc[v]
                             \/ /\ wpc[v] \in GracePCs \cup {"retire", "callbacks"}
                                /\ wpc'[v] \in GracePCs \cup {"retire", "callbacks"}
      BY <2>7, UpdateQpPC DEF IInv, UpdateQp, GracePCs, Undrained
    <3> QED BY <1>0, <2>7, <3>1, HeapFrame DEF UpdateQp, NotSync, readerVars
  <2>11. CASE RetireQp(w)
    <3>1. \A v \in Writers : \/ wpc'[v] = wpc[v]
                             \/ /\ wpc[v] \in GracePCs \cup {"retire", "callbacks"}
                                /\ wpc'[v] \in GracePCs \cup {"retire", "callbacks"}
      BY <2>11, RetireQpPC DEF IInv, RetireQp, GracePCs, Undrained
    <3> QED BY <1>0, <2>11, <3>1, HeapFrame DEF RetireQp, NotSync, readerVars
  <2>5. CASE TakeCallbacks(w)
    <3>1. /\ wpc'[w] = "alloc" /\ old[w] \notin cb_items /\ cbs'[w] = cb_items
          /\ cb_items' = {}
          /\ snapshot'[w] = Inside
          /\ \A v \in Writers : v # w => /\ wpc'[v] = wpc[v] /\ cbs'[v] = cbs[v]
                                         /\ snapshot'[v] = snapshot[v]
          /\ UNCHANGED <<old, heap, ptr, got>>
      BY <1>0, <2>5 DEF TakeCallbacks, HeapInv, FreedOnce, Pending, NotSync, readerVars
    <3>2. /\ Pending(w)' = cb_items \cup ({old[w]} \ {NULL})
          /\ \A v \in Writers : v # w => Pending(v)' = Pending(v)
      BY <3>1 DEF Pending
    <3>3. FreedOnce'
      <4>1. \A v \in Writers : Pending(v) \cap cb_items = {}
        BY <1>0 DEF HeapInv, FreedOnce
      <4>2. {old[w]} \ {NULL} \subseteq Pending(w)
        BY DEF Pending
      <4> QED BY <1>0, <3>1, <3>2, <4>1, <4>2 DEF HeapInv, FreedOnce
    <3>4. \A r \in Readers : got'[r] # {} => r \in snapshot'[w]
      BY <3>1 DEF Inside, IInv, ReaderInv
    <3> QED BY <1>0, <3>1, <3>2, <3>3, <3>4 DEF HeapInv, NoUseAfterFree, GracePCs, Undrained
  <2>12. CASE RunCallback(w)
    <3>1. PICK o \in cbs[w] : cbs' = [cbs EXCEPT ![w] = @ \ {o}] /\ heap' = heap \ {o}
      BY <2>12 DEF RunCallback
    <3>2. \A r \in Readers : o \notin got[r]
      BY <1>0, <2>0, <2>12, <3>1 DEF RunCallback, HeapInv, Pending, GracePCs, Undrained
    <3>3. /\ UNCHANGED <<old, ptr, got, wpc, snapshot, cb_items>>
          /\ \A v \in Writers : Pending(v)' \subseteq Pending(v)
          /\ \A v \in Writers : cbs'[v] \subseteq cbs[v]
          /\ Pending(w)' = Pending(w) \ {o} /\ o # old[w] /\ o # ptr /\ o \notin cb_items
      BY <1>0, <2>12, <3>1 DEF RunCallback, NotSync, readerVars, lockVars, Pending,
         HeapInv, FreedOnce
    <3>4. \A v \in Writers : v # w => o \notin Pending(v)
      BY <1>0, <3>1 DEF HeapInv, FreedOnce, Pending
    <3>5. FreedOnce'
      BY <1>0, <3>1, <3>3, <3>4 DEF HeapInv, FreedOnce
    <3> QED BY <1>0, <3>1, <3>2, <3>3, <3>5 DEF HeapInv, NoUseAfterFree
  <2>13. CASE SyncReturn(w)
    <3>1. /\ cbs[w] = {} /\ heap' = heap \ {old[w]} /\ old'[w] = NULL
          /\ wpc[w] = "callbacks" /\ wpc'[w] \in {"idle", "freed"}
          /\ \A v \in Writers : v # w => old'[v] = old[v] /\ wpc'[v] = wpc[v]
          /\ UNCHANGED <<cbs, cb_items, ptr, got, snapshot>>
      BY <1>0, <2>13 DEF SyncReturn, NotSync, readerVars, lockVars
    <3>2. \A r \in Readers : old[w] \notin got[r]
      BY <1>0, <2>0, <3>1 DEF HeapInv, Pending, GracePCs, Undrained
    <3>3. /\ Pending(w)' = {}
          /\ \A v \in Writers : v # w => Pending(v)' = Pending(v) /\ old[w] \notin Pending(v)
          /\ old[w] # ptr /\ old[w] \notin cb_items
      BY <1>0, <3>1 DEF Pending, HeapInv, FreedOnce
    <3>4. FreedOnce'
      BY <1>0, <3>1, <3>3 DEF HeapInv, FreedOnce
    <3> QED BY <1>0, <3>1, <3>2, <3>3, <3>4 DEF HeapInv, NoUseAfterFree, GracePCs, Undrained
  <2> USE <1>0 DEF HeapInv, FreedOnce, NoUseAfterFree, Pending
  <2> USE DEF NotUpdate, NotSync, lockVars, readerVars, writerVars, GracePCs, Undrained
  <2>1. CASE WriteLock(w)  BY <2>1 DEF WriteLock
  <2>2. CASE Assign(w)  BY <2>2 DEF Assign
  <2>3. CASE RcuCall(w)  BY <2>3 DEF RcuCall
  <2>4. CASE WriteUnlock(w)  BY <2>4 DEF WriteUnlock
  <2>6. CASE AllocWait(w)  BY <2>6 DEF AllocWait
  <2>8. CASE PriorWait(w)  BY <2>8 DEF PriorWait
  <2>9. CASE PriorEnter(w)  BY <2>9 DEF PriorEnter
  <2>10. CASE Drained(w)  BY <2>10 DEF Drained
  <2>14. CASE LockFree(w)  BY <2>14 DEF LockFree
  <2>15. CASE SpuriousWakeup(w)  BY <2>15 DEF SpuriousWakeup
  <2> QED
    BY <1>3, <2>1, <2>2, <2>3, <2>4, <2>5, <2>6, <2>7, <2>8, <2>9, <2>10, <2>11,
       <2>12, <2>13, <2>14, <2>15 DEF WriterNext
<1> QED BY <1>1, <1>2, <1>3 DEF Next, Gone

\* Every step keeps each allocated object owned, and whoever frees the lock
\* alone with it.
LEMMA CloseStep == IInv /\ [Next]_vars => CloseInv'
<1> SUFFICES ASSUME IInv, [Next]_vars PROVE CloseInv'
  OBVIOUS
<1>0. /\ CloseInv /\ HeapInv /\ closing \in Writers \cup {NULL}
      /\ wpc \in [Writers -> WriterPCs] /\ old \in [Writers -> Objects \cup {NULL}]
      /\ rpc \in [Readers -> ReaderPCs]
      /\ cbs \in [Writers -> SUBSET Objects] /\ ptr \in Objects
      /\ NULL \notin Objects /\ NULL \notin Writers
  BY ThreadsAssumption DEF IInv, TypeOK
<1>1. CASE UNCHANGED vars
  BY <1>0, <1>1 DEF vars, lockVars, readerVars, writerVars, CloseInv, Pending
<1>2. ASSUME NEW r \in Readers, ReaderNext(r) PROVE CloseInv'
  <2>1. /\ wpc' = wpc /\ old' = old /\ cbs' = cbs /\ heap' = heap /\ ptr' = ptr
        /\ cb_items' = cb_items /\ closing' = closing
    BY <1>2, ReaderStepFrame DEF NotReadSide, writerVars
  <2>2. \A w \in Writers : Pending(w)' = Pending(w)
    BY <2>1 DEF Pending
  <2>3. closing = NULL
    BY <1>0, <1>2 DEF CloseInv, ReaderNext, LoadIdx, CountIn, Hold, Missed,
       CountOut, ReadLockNested, Deref, ReadUnlockNested, ReadUnlock
  <2> QED BY <1>0, <2>1, <2>2, <2>3 DEF CloseInv
<1>3. ASSUME NEW w \in Writers, WriterNext(w) PROVE CloseInv'
  <2>0. closing # NULL => closing = w /\ wpc[w] \notin {"idle", "locked", "replaced"}
    BY <1>0, <1>3 DEF CloseInv, WriterNext, WriteLock, Assign, RcuCall,
       WriteUnlock, TakeCallbacks, AllocWait, UpdateQp, PriorWait, PriorEnter,
       Drained, RetireQp, RunCallback, SyncReturn, LockFree, SpuriousWakeup
  <2>1. CASE UpdateQp(w)
    <3>1. /\ UNCHANGED <<heap, ptr, cb_items, old, cbs, closing, rpc>>
          /\ \A v \in Writers : wpc'[v] = "freed" <=> wpc[v] = "freed"
          /\ \A v \in Writers : wpc[v] = "idle" => wpc'[v] = "idle"
          /\ wpc[w] # "sync" /\ wpc'[w] \notin {"idle", "locked", "replaced"}
      BY <2>1, UpdateQpPC DEF UpdateQp, NotSync, readerVars, IInv
    <3> QED BY <1>0, <2>0, <3>1 DEF CloseInv, Pending
  <2>2. CASE RetireQp(w)
    <3>1. /\ UNCHANGED <<heap, ptr, cb_items, old, cbs, closing, rpc>>
          /\ \A v \in Writers : wpc'[v] = "freed" <=> wpc[v] = "freed"
          /\ \A v \in Writers : wpc[v] = "idle" => wpc'[v] = "idle"
          /\ wpc[w] # "sync" /\ wpc'[w] \notin {"idle", "locked", "replaced"}
      BY <2>2, RetireQpPC DEF RetireQp, NotSync, readerVars, IInv
    <3> QED BY <1>0, <2>0, <3>1 DEF CloseInv, Pending
  <2>3. CASE SyncReturn(w)
    <3>1. /\ heap' = heap \ {old[w]} /\ old'[w] = NULL /\ cbs[w] = {}
          /\ wpc[w] = "callbacks" /\ wpc'[w] = (IF closing = w THEN "freed" ELSE "idle")
          /\ \A v \in Writers : v # w => old'[v] = old[v] /\ wpc'[v] = wpc[v]
          /\ UNCHANGED <<ptr, cb_items, cbs, closing, rpc>>
      BY <1>0, <2>3 DEF SyncReturn, NotSync, lockVars, readerVars
    <3>2. \A o \in heap' : \/ o = ptr \/ o \in cb_items
                           \/ \E v \in Writers : o \in Pending(v)'
      BY <1>0, <3>1 DEF CloseInv, Pending
    <3> QED BY <1>0, <2>0, <3>1, <3>2 DEF CloseInv
  <2>4. CASE Drained(w)
    <3>1. /\ UNCHANGED <<heap, ptr, cb_items, old, cbs, closing, rpc>>
          /\ \A v \in Writers : wpc'[v] = "freed" <=> wpc[v] = "freed"
          /\ \A v \in Writers : wpc[v] = "idle" => wpc'[v] = "idle"
          /\ wpc[w] # "sync" /\ wpc'[w] \notin {"idle", "locked", "replaced"}
      BY <1>0, <2>4 DEF Drained, NotSync, readerVars
    <3> QED BY <1>0, <2>0, <3>1 DEF CloseInv, Pending
  <2> USE <1>0, <2>0
      DEF CloseInv, Pending, NotUpdate, NotSync, lockVars, readerVars, writerVars
  <2>5. CASE WriteLock(w)  BY <2>5 DEF WriteLock
  <2>6. CASE Assign(w)  BY <2>6 DEF Assign, HeapInv
  <2>7. CASE RcuCall(w)  BY <2>7 DEF RcuCall
  <2>8. CASE WriteUnlock(w)  BY <2>8 DEF WriteUnlock
  <2>9. CASE TakeCallbacks(w)  BY <2>9 DEF TakeCallbacks, HeapInv
  <2>10. CASE AllocWait(w)  BY <2>10 DEF AllocWait
  <2>11. CASE PriorWait(w)  BY <2>11 DEF PriorWait
  <2>12. CASE PriorEnter(w)  BY <2>12 DEF PriorEnter
  <2>13. CASE RunCallback(w)  BY <2>13 DEF RunCallback
  <2>14. CASE LockFree(w)  BY <2>14 DEF LockFree
  <2>15. CASE SpuriousWakeup(w)  BY <2>15 DEF SpuriousWakeup
  <2> QED
    BY <1>3, <2>1, <2>2, <2>3, <2>4, <2>5, <2>6, <2>7, <2>8, <2>9, <2>10, <2>11,
       <2>12, <2>13, <2>14, <2>15 DEF WriterNext
<1> QED BY <1>1, <1>2, <1>3 DEF Next, Gone

-----------------------------------------------------------------------------
(* The theorems.                                                           *)

\* The lock that ossl_rcu_lock_new returns satisfies the invariant.
LEMMA InitInv == Init => IInv
<1> SUFFICES ASSUME Init PROVE IInv
  OBVIOUS
<1> USE GroupCount, IdModAssumption, NumWritersAssumption, ThreadsAssumption
<1>1. TypeOK
  BY DEF Init, TypeOK, qps, ReaderPCs, WriterPCs
<1>2. LockInv
  BY DEF Init, LockInv
<1>3. TurnInv
  <2>1. Retiring = {}  BY DEF Init, Retiring
  <2>2. Cardinality(Retiring) = 0  BY <2>1, FS_EmptySet
  <2>3. Open = 0  BY DEF Init, Open, Dist, Ahead
  <2> QED BY <2>2, <2>3 DEF Init, TurnInv, Undrained
<1>4. ReaderInv
  <2>1. \A q \in qps : CountedOn(q) = {}  BY DEF Init, CountedOn
  <2>2. UsersCount  BY <2>1, FS_EmptySet DEF Init, UsersCount
  <2> QED BY <2>2 DEF Init, ReaderInv
<1>5. GraceInv
  BY DEF Init, GraceInv, Undrained
<1>6. HeapInv
  BY DEF Init, HeapInv, FreedOnce, NoUseAfterFree, Pending, GracePCs, Undrained
<1>7. CloseInv
  BY DEF Init, CloseInv
<1> QED BY <1>1, <1>2, <1>3, <1>4, <1>5, <1>6, <1>7 DEF IInv

\* The invariant holds throughout every behaviour of the lock, whatever the
\* numbers of readers, writers, qps and objects.
THEOREM Invariance == Spec => []IInv
<1>1. IInv /\ [Next]_vars => IInv'
  BY TypeStep, LockStep, TurnStep, ReaderStep, GraceStep, HeapStep, CloseStep DEF IInv
<1> QED BY InitInv, <1>1, PTL DEF Spec

\* Every variable keeps its type; in particular no qp's users count and no
\* writers_alloced count is ever decremented below zero.
THEOREM TypeCorrect == Spec => []TypeOK
<1>1. IInv => TypeOK  BY DEF IInv
<1> QED BY Invariance, <1>1, PTL

\* No object is freed while a reader that dereferenced it is still inside its
\* critical section, and the published object is never freed.
THEOREM ReadersSafe == Spec => []NoUseAfterFree
<1>1. IInv => NoUseAfterFree  BY DEF IInv, HeapInv
<1> QED BY Invariance, <1>1, PTL

\* No object has two pending releases, so none is freed twice.
THEOREM ReleasesDisjoint == Spec => []FreedOnce
<1>1. IInv => FreedOnce  BY DEF IInv, HeapInv
<1> QED BY Invariance, <1>1, PTL

\* update_qp never hands readers a qp that a synchronize call is waiting on.
THEOREM ReadersMoveOn == Spec => []ReadersNotWaitedOn
<1>1. IInv => ReadersNotWaitedOn
  <2> SUFFICES ASSUME IInv, NEW w \in Writers, wpc[w] \in Undrained,
                      wqp[w] = reader_idx
               PROVE  FALSE
    BY DEF ReadersNotWaitedOn
  <2>1. Back(wqp[w]) = 0
    BY GroupCount, AheadOne DEF IInv, TurnInv, TypeOK, qps, Back
  <2>2. Open \in Nat /\ Dist(curr_id[w]) \in Nat
    BY OpenType, DistType, IdModAssumption DEF IInv
  <2>3. Back(wqp[w]) = Open - Dist(curr_id[w]) /\ Dist(curr_id[w]) < Open
    BY DEF IInv, TurnInv
  <2> QED BY <2>1, <2>2, <2>3
<1> QED BY Invariance, <1>1, PTL

\* ossl_rcu_lock_free leaves nothing allocated but the published object.
THEOREM FreeReleasesAll == Spec => []NothingLeaked
<1>1. IInv => NothingLeaked
  <2> SUFFICES ASSUME IInv, closing # NULL, wpc[closing] = "freed"
               PROVE  heap = {ptr}
    BY DEF NothingLeaked, LockGone
  <2>1. closing \in Writers /\ cb_items = {}
    BY DEF IInv, TypeOK, CloseInv
  <2>2. \A w \in Writers : wpc[w] \in {"idle", "freed"}
    BY <2>1 DEF IInv, CloseInv
  <2>3. \A w \in Writers : Pending(w) = {}
    BY <2>2 DEF IInv, HeapInv, Pending
  <2> QED BY <2>1, <2>3 DEF IInv, CloseInv, HeapInv, NoUseAfterFree
<1> QED BY Invariance, <1>1, PTL

\* The lock implements the abstract grace-period specification: a synchronize
\* call ends its wait only when every reader that was inside a critical section
\* at its beginning has left it.
THEOREM Refinement == Spec => GracePeriodSpec
<1>1. Init => GP!GPInit
  BY DEF Init, GP!GPInit, Inside, GracePCs, Undrained
<1>2. ASSUME IInv, [Next]_vars PROVE [GP!GPNext]_(GP!gpVars)
  <2>0. TypeOK /\ rpc \in [Readers -> ReaderPCs] /\ wpc \in [Writers -> WriterPCs]
        /\ snapshot \in [Writers -> SUBSET Readers]
    BY <1>2 DEF IInv, TypeOK
  <2> DEFINE Grace == {w \in Writers : wpc[w] \in GracePCs}
  <2>1. Inside' = Inside /\ Grace' = Grace /\ snapshot' = snapshot
          => UNCHANGED GP!gpVars
    BY DEF GP!gpVars
  <2>2. CASE UNCHANGED vars
    BY <2>1, <2>2 DEF vars, readerVars, writerVars, Inside
  <2>3. ASSUME NEW r \in Readers, ReaderNext(r) PROVE [GP!GPNext]_(GP!gpVars)
    <3>0. Grace' = Grace
      BY <2>3, ReaderStepFrame DEF NotReadSide, writerVars
    <3>1. CASE Hold(r)
      <4>1. r \notin Inside /\ Inside' = Inside \cup {r} /\ snapshot' = snapshot
        BY <2>0, <3>1 DEF Hold, Inside
      <4>2. GP!Enter(r)  BY <3>0, <4>1 DEF GP!Enter
      <4> QED BY <4>2 DEF GP!GPNext
    <3>2. CASE ReadUnlock(r)
      <4>1. /\ r \in Inside /\ Inside' = Inside \ {r}
            /\ snapshot' = [w \in Writers |-> snapshot[w] \ {r}]
        BY <2>0, <3>2 DEF ReadUnlock, Inside
      <4>2. GP!Leave(r)  BY <3>0, <4>1 DEF GP!Leave
      <4> QED BY <4>2 DEF GP!GPNext
    <3>3. CASE ~Hold(r) /\ ~ReadUnlock(r)
      <4>1. Inside' = Inside /\ snapshot' = snapshot
        BY <2>0, <2>3, <3>3 DEF ReaderNext, LoadIdx, CountIn, Missed, CountOut,
           ReadLockNested, Deref, ReadUnlockNested, Inside
      <4> QED BY <2>1, <3>0, <4>1
    <3> QED BY <3>1, <3>2, <3>3
  <2>4. ASSUME NEW w \in Writers, WriterNext(w) PROVE [GP!GPNext]_(GP!gpVars)
    <3>0. Inside' = Inside
      BY <2>0, <2>4, WriterStepFrame DEF readerVars, Inside
    <3>1. CASE TakeCallbacks(w)
      <4>1. /\ w \notin Grace /\ Grace' = Grace \cup {w}
            /\ snapshot' = [snapshot EXCEPT ![w] = Inside]
        BY <2>0, <3>1 DEF TakeCallbacks, GracePCs, Undrained
      <4>2. GP!Begin(w)  BY <3>0, <4>1 DEF GP!Begin
      <4> QED BY <4>2 DEF GP!GPNext
    <3>2. CASE Drained(w)
      <4>1. /\ w \in Grace /\ Grace' = Grace \ {w} /\ snapshot' = snapshot
        BY <2>0, <3>2 DEF Drained, GracePCs, Undrained
      <4>2. snapshot[w] = {}  BY <1>2, <3>2, DrainedOutlasted
      <4>3. GP!End(w)  BY <3>0, <4>1, <4>2 DEF GP!End
      <4> QED BY <4>3 DEF GP!GPNext
    <3>3. CASE UpdateQp(w)
      <4>1. Grace' = Grace /\ snapshot' = snapshot
        BY <2>0, <3>3, UpdateQpPC DEF UpdateQp, GracePCs, Undrained
      <4> QED BY <2>1, <3>0, <4>1
    <3>4. CASE ~TakeCallbacks(w) /\ ~Drained(w) /\ ~UpdateQp(w)
      <4>1. Grace' = Grace /\ snapshot' = snapshot
        BY <2>0, <2>4, <3>4, WriterStepFrame
      <4> QED BY <2>1, <3>0, <4>1
    <3> QED BY <3>1, <3>2, <3>3, <3>4
  <2> QED BY <1>2, <2>2, <2>3, <2>4 DEF Next, Gone
<1> QED BY Invariance, <1>1, <1>2, PTL DEF Spec, GracePeriodSpec, GP!GPSpec
=============================================================================
