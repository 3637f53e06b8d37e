--------------------------------- MODULE Rcu ---------------------------------
(***************************************************************************)
(* The RCU lock of crypto/threads_pthread.c: readers count themselves on   *)
(* the current quiescence point (qp), a writer that synchronizes moves the *)
(* readers on to the next qp of a ring, waits for its predecessors to      *)
(* retire and for its own qp to drain, and then releases what it replaced. *)
(*                                                                         *)
(* One shared pointer is protected by the lock.  Writers replace the       *)
(* object it points to under the write lock; the replaced object is freed  *)
(* by a callback queued with ossl_rcu_call or by the writer itself after   *)
(* ossl_synchronize_rcu returns.  Each atomic operation of the read side,  *)
(* and each mutex-protected block of the write side, is one step; memory   *)
(* is sequentially consistent.                                             *)
(***************************************************************************)
EXTENDS Integers, FiniteSets

CONSTANTS
  Readers,      \* threads that take the read lock
  Writers,      \* threads that take the write lock or synchronize
  Objects,      \* the memory the protected objects are allocated from
  NULL,
  NumWriters,   \* the num_writers argument of ossl_rcu_lock_new
  IdMod,        \* id_ctr and next_to_retire are uint32_t: 2^32 in the code
  MaxDepth      \* bound: how deep a reader nests its read locks

ASSUME ThreadsAssumption ==
  /\ IsFiniteSet(Readers) /\ IsFiniteSet(Writers)
  /\ Readers \cap Writers = {}
  /\ NULL \notin Readers /\ NULL \notin Writers /\ NULL \notin Objects
ASSUME ObjectsAssumption == Objects # {}
ASSUME NumWritersAssumption == NumWriters \in Nat /\ MaxDepth \in Nat \ {0}

\* ossl_rcu_lock_new raises num_writers to 2 if it is smaller.
group_count == IF NumWriters < 2 THEN 2 ELSE NumWriters

\* Fewer grace periods are open at a time than there are identifiers.
ASSUME IdModAssumption == IdMod \in Nat /\ IdMod >= group_count

VARIABLES
  reader_idx,         \* index of the qp new readers count on
  current_alloc_idx,  \* index of the qp the next writer waits on
  users,              \* users[q]: the reader count of qp_group[q]
  id_ctr,             \* the next grace period's identifier
  next_to_retire,     \* the identifier whose turn it is to retire
  writers_alloced,    \* how many qps are being retired
  cb_items,           \* objects queued with ossl_rcu_call
  write_lock,         \* the thread holding write_lock, or NULL
  prior_lock          \* the thread holding prior_lock, or NULL
lockVars == <<reader_idx, current_alloc_idx, users, id_ctr, next_to_retire,
              writers_alloced, cb_items, write_lock, prior_lock>>

VARIABLES
  rpc,                \* rpc[r]: where reader r is
  qp,                 \* qp[r]: the qp index r loaded, counted on or holds
  depth,              \* depth[r]: nesting depth of r's read lock
  got                 \* got[r]: the objects r dereferenced while inside
readerVars == <<rpc, qp, depth, got>>

VARIABLES
  wpc,                \* wpc[w]: where writer w is
  wqp,                \* wqp[w]: the qp update_qp gave w
  curr_id,            \* curr_id[w]: the identifier update_qp gave w
  cbs,                \* cbs[w]: callbacks w's synchronize call took
  old                 \* old[w]: a replaced object w frees itself, or NULL
writerVars == <<wpc, wqp, curr_id, cbs, old>>

VARIABLES
  ptr,                \* the protected pointer
  heap,               \* the allocated objects
  closing,            \* the thread inside ossl_rcu_lock_free, or NULL
  snapshot            \* history: the readers w's grace period must outlast
                      \*   (inside when w synchronized, and still inside)
vars == <<lockVars, readerVars, writerVars, ptr, heap, closing, snapshot>>

qps == 0 .. group_count - 1

\* "alloc" and "prior" are runnable, "alloc_wait" and "prior_wait" are asleep
\* in pthread_cond_wait on alloc_signal and prior_signal.
ReaderPCs == {"idle", "loaded", "counted", "undo", "retry", "held"}
Undrained == {"prior", "prior_wait", "spin"}
GracePCs == {"alloc", "alloc_wait"} \cup Undrained
WriterPCs == {"idle", "locked", "replaced", "sync", "retire", "callbacks",
              "freed"} \cup GracePCs

Inside == {r \in Readers : rpc[r] = "held"}

\* ossl_rcu_lock_new: calloc'ed qps, everything else zero.
Init ==
  /\ reader_idx = 0 /\ current_alloc_idx = 0
  /\ users = [q \in qps |-> 0]
  /\ id_ctr = 0 /\ next_to_retire = 0 /\ writers_alloced = 0
  /\ cb_items = {} /\ write_lock = NULL /\ prior_lock = NULL
  /\ rpc = [r \in Readers |-> "idle"]
  /\ qp = [r \in Readers |-> 0]
  /\ depth = [r \in Readers |-> 0]
  /\ got = [r \in Readers |-> {}]
  /\ wpc = [w \in Writers |-> "idle"]
  /\ wqp = [w \in Writers |-> 0]
  /\ curr_id = [w \in Writers |-> 0]
  /\ cbs = [w \in Writers |-> {}]
  /\ old = [w \in Writers |-> NULL]
  /\ ptr \in Objects /\ heap = {ptr}
  /\ closing = NULL
  /\ snapshot = [w \in Writers |-> {}]

-----------------------------------------------------------------------------
(* The read side.                                                          *)

NotReadSide == <<reader_idx, current_alloc_idx, id_ctr, next_to_retire,
                 writers_alloced, cb_items, write_lock, prior_lock,
                 writerVars, ptr, heap, closing>>

\* get_hold_current_qp: the first, relaxed load of reader_idx, by a reader
\* that has no hold on the lock yet or starts the loop over.
LoadIdx(r) ==
  /\ closing = NULL
  /\ rpc[r] \in {"idle", "retry"}
  /\ qp' = [qp EXCEPT ![r] = reader_idx]
  /\ rpc' = [rpc EXCEPT ![r] = "loaded"]
  /\ UNCHANGED <<NotReadSide, users, depth, got, snapshot>>

\* get_hold_current_qp: ATOMIC_ADD_FETCH on the users of the loaded qp.
CountIn(r) ==
  /\ rpc[r] = "loaded"
  /\ users' = [users EXCEPT ![qp[r]] = @ + 1]
  /\ rpc' = [rpc EXCEPT ![r] = "counted"]
  /\ UNCHANGED <<NotReadSide, qp, depth, got, snapshot>>

\* Fault: the index is not looked at again after counting.
HoldUnchecked(r) ==
  /\ rpc[r] = "counted"
  /\ rpc' = [rpc EXCEPT ![r] = "held"]
  /\ depth' = [depth EXCEPT ![r] = 1]
  /\ UNCHANGED <<NotReadSide, users, qp, got, snapshot>>

\* get_hold_current_qp: the second load finds the index unchanged; the read
\* lock is held, at depth 1.
Hold(r) ==
  /\ rpc[r] = "counted"
  /\ qp[r] = reader_idx
  /\ rpc' = [rpc EXCEPT ![r] = "held"]
  /\ depth' = [depth EXCEPT ![r] = 1]
  /\ UNCHANGED <<NotReadSide, users, qp, got, snapshot>>

\* get_hold_current_qp: the second load finds another index.
Missed(r) ==
  /\ rpc[r] = "counted"
  /\ qp[r] # reader_idx
  /\ rpc' = [rpc EXCEPT ![r] = "undo"]
  /\ UNCHANGED <<NotReadSide, users, qp, depth, got, snapshot>>

\* get_hold_current_qp: ATOMIC_SUB_FETCH, and round the loop again.
CountOut(r) ==
  /\ rpc[r] = "undo"
  /\ users' = [users EXCEPT ![qp[r]] = @ - 1]
  /\ rpc' = [rpc EXCEPT ![r] = "retry"]
  /\ UNCHANGED <<NotReadSide, qp, depth, got, snapshot>>

\* ossl_rcu_read_lock by a thread that already holds this lock.
ReadLockNested(r) ==
  /\ rpc[r] = "held"
  /\ depth[r] < MaxDepth
  /\ depth' = [depth EXCEPT ![r] = @ + 1]
  /\ UNCHANGED <<NotReadSide, users, rpc, qp, got, snapshot>>

\* ossl_rcu_uptr_deref inside the critical section.
Deref(r) ==
  /\ rpc[r] = "held"
  /\ got' = [got EXCEPT ![r] = @ \cup {ptr}]
  /\ UNCHANGED <<NotReadSide, users, rpc, qp, depth, snapshot>>

\* ossl_rcu_read_unlock of a nested hold.
ReadUnlockNested(r) ==
  /\ rpc[r] = "held"
  /\ depth[r] > 1
  /\ depth' = [depth EXCEPT ![r] = @ - 1]
  /\ UNCHANGED <<NotReadSide, users, rpc, qp, got, snapshot>>

\* ossl_rcu_read_unlock of the outermost hold.
ReadUnlock(r) ==
  /\ rpc[r] = "held"
  /\ depth[r] = 1
  /\ depth' = [depth EXCEPT ![r] = 0]
  /\ users' = [users EXCEPT ![qp[r]] = @ - 1]
  /\ rpc' = [rpc EXCEPT ![r] = "idle"]
  /\ got' = [got EXCEPT ![r] = {}]
  /\ snapshot' = [w \in Writers |-> snapshot[w] \ {r}]
  /\ UNCHANGED <<NotReadSide, qp>>

ReaderNext(r) ==
  \/ LoadIdx(r) \/ CountIn(r) \/ Hold(r) \/ Missed(r) \/ CountOut(r)
  \/ ReadLockNested(r) \/ Deref(r) \/ ReadUnlockNested(r) \/ ReadUnlock(r)

-----------------------------------------------------------------------------
(* The write side: replacing the object under the write lock.              *)

NotUpdate == <<reader_idx, current_alloc_idx, users, id_ctr, next_to_retire,
               writers_alloced, prior_lock, readerVars, wqp, curr_id, cbs,
               closing, snapshot>>

\* ossl_rcu_write_lock
WriteLock(w) ==
  /\ closing = NULL
  /\ wpc[w] = "idle"
  /\ write_lock = NULL
  /\ write_lock' = w
  /\ wpc' = [wpc EXCEPT ![w] = "locked"]
  /\ UNCHANGED <<NotUpdate, cb_items, old, ptr, heap>>

\* The holder of the write lock builds a new object and publishes it with
\* ossl_rcu_assign_uptr, remembering the one it replaces.
Assign(w) ==
  /\ wpc[w] = "locked"
  /\ \E new \in Objects \ heap :
       /\ heap' = heap \cup {new}
       /\ ptr' = new
  /\ old' = [old EXCEPT ![w] = ptr]
  /\ wpc' = [wpc EXCEPT ![w] = "replaced"]
  /\ UNCHANGED <<NotUpdate, cb_items, write_lock>>

\* ossl_rcu_call, when its allocation succeeds: the replaced object is freed
\* by the next synchronize call.  When it fails old[w] stays with w.
RcuCall(w) ==
  /\ wpc[w] = "replaced"
  /\ cb_items' = cb_items \cup {old[w]}
  /\ old' = [old EXCEPT ![w] = NULL]
  /\ wpc' = [wpc EXCEPT ![w] = "locked"]
  /\ UNCHANGED <<NotUpdate, write_lock, ptr, heap>>

\* ossl_rcu_write_unlock; the caller goes on to synchronize, which it need
\* not do if it left what it replaced to a callback.
WriteUnlock(w) ==
  /\ wpc[w] \in {"locked", "replaced"}
  /\ write_lock' = NULL
  /\ \E pc \in {"sync", "idle"} :
       /\ old[w] # NULL => pc = "sync"
       /\ wpc' = [wpc EXCEPT ![w] = pc]
  /\ UNCHANGED <<NotUpdate, cb_items, old, ptr, heap>>

-----------------------------------------------------------------------------
(* The write side: ossl_synchronize_rcu.                                   *)

NotSync == <<users, readerVars, ptr>>

\* pthread_cond_signal(&lock->alloc_signal): wakes one waiter if there is one.
SignalAlloc(pc) ==
  LET asleep == {v \in Writers : pc[v] = "alloc_wait"}
  IN  IF asleep = {} THEN {pc}
      ELSE {[pc EXCEPT ![v] = "alloc"] : v \in asleep}

\* Fault: the queue is read but not emptied.
TakeCallbacksKept(w) ==
  /\ \/ wpc[w] = "sync"
     \/ wpc[w] = "idle" /\ closing = NULL
  /\ write_lock = NULL
  /\ cbs' = [cbs EXCEPT ![w] = cb_items]
  /\ cb_items' = cb_items
  /\ wpc' = [wpc EXCEPT ![w] = "alloc"]
  /\ snapshot' = [snapshot EXCEPT ![w] = Inside]
  /\ UNCHANGED <<NotSync, reader_idx, current_alloc_idx, id_ctr,
                 next_to_retire, writers_alloced, write_lock, prior_lock, wqp,
                 curr_id, old, heap, closing>>

\* ossl_synchronize_rcu takes the queued callbacks under the write lock.
TakeCallbacks(w) ==
  /\ \/ wpc[w] = "sync"
     \/ wpc[w] = "idle" /\ closing = NULL
  /\ write_lock = NULL
  /\ cbs' = [cbs EXCEPT ![w] = cb_items]
  /\ cb_items' = {}
  /\ wpc' = [wpc EXCEPT ![w] = "alloc"]
  /\ snapshot' = [snapshot EXCEPT ![w] = Inside]
  /\ UNCHANGED <<NotSync, reader_idx, current_alloc_idx, id_ctr,
                 next_to_retire, writers_alloced, write_lock, prior_lock, wqp,
                 curr_id, old, heap, closing>>

\* update_qp: fewer than two qps are left, so wait for one to be retired.
AllocWait(w) ==
  /\ wpc[w] = "alloc"
  /\ group_count - writers_alloced < 2
  /\ wpc' = [wpc EXCEPT ![w] = "alloc_wait"]
  /\ UNCHANGED <<NotSync, lockVars, wqp, curr_id, cbs, old, heap, closing,
                 snapshot>>

\* Fault: the last free qp is handed out too.
UpdateQpLastOne(w) ==
  /\ wpc[w] = "alloc"
  /\ group_count - writers_alloced >= 1
  /\ wqp' = [wqp EXCEPT ![w] = current_alloc_idx]
  /\ writers_alloced' = writers_alloced + 1
  /\ current_alloc_idx' = (current_alloc_idx + 1) % group_count
  /\ curr_id' = [curr_id EXCEPT ![w] = id_ctr]
  /\ id_ctr' = (id_ctr + 1) % IdMod
  /\ reader_idx' = current_alloc_idx'
  /\ wpc' \in SignalAlloc([wpc EXCEPT ![w] = "prior"])
  /\ UNCHANGED <<NotSync, next_to_retire, cb_items, write_lock, prior_lock,
                 cbs, old, heap, closing, snapshot>>

\* Fault: the readers are left on the qp the writer took.
UpdateQpStale(w) ==
  /\ wpc[w] = "alloc"
  /\ group_count - writers_alloced >= 2
  /\ wqp' = [wqp EXCEPT ![w] = current_alloc_idx]
  /\ writers_alloced' = writers_alloced + 1
  /\ current_alloc_idx' = (current_alloc_idx + 1) % group_count
  /\ curr_id' = [curr_id EXCEPT ![w] = id_ctr]
  /\ id_ctr' = (id_ctr + 1) % IdMod
  /\ reader_idx' = current_alloc_idx
  /\ wpc' \in SignalAlloc([wpc EXCEPT ![w] = "prior"])
  /\ UNCHANGED <<NotSync, next_to_retire, cb_items, write_lock, prior_lock,
                 cbs, old, heap, closing, snapshot>>

\* update_qp: take the current qp, and move the readers on to the next one.
UpdateQp(w) ==
  /\ wpc[w] = "alloc"
  /\ group_count - writers_alloced >= 2
  /\ wqp' = [wqp EXCEPT ![w] = current_alloc_idx]
  /\ writers_alloced' = writers_alloced + 1
  /\ current_alloc_idx' = (current_alloc_idx + 1) % group_count
  /\ curr_id' = [curr_id EXCEPT ![w] = id_ctr]
  /\ id_ctr' = (id_ctr + 1) % IdMod
  /\ reader_idx' = current_alloc_idx'
  /\ wpc' \in SignalAlloc([wpc EXCEPT ![w] = "prior"])
  /\ UNCHANGED <<NotSync, next_to_retire, cb_items, write_lock, prior_lock,
                 cbs, old, heap, closing, snapshot>>

\* ossl_synchronize_rcu: it is another grace period's turn to retire.
PriorWait(w) ==
  /\ wpc[w] = "prior"
  /\ prior_lock = NULL
  /\ next_to_retire # curr_id[w]
  /\ wpc' = [wpc EXCEPT ![w] = "prior_wait"]
  /\ UNCHANGED <<NotSync, lockVars, wqp, curr_id, cbs, old, heap, closing,
                 snapshot>>

\* Fault: the wait for prior grace periods is left out.
PriorEnterAnyTurn(w) ==
  /\ wpc[w] = "prior"
  /\ prior_lock = NULL
  /\ prior_lock' = w
  /\ wpc' = [wpc EXCEPT ![w] = "spin"]
  /\ UNCHANGED <<NotSync, reader_idx, current_alloc_idx, id_ctr,
                 next_to_retire, writers_alloced, cb_items, write_lock, wqp,
                 curr_id, cbs, old, heap, closing, snapshot>>

\* ossl_synchronize_rcu: it is w's turn; w spins on its qp's reader count
\* with prior_lock held.
PriorEnter(w) ==
  /\ wpc[w] = "prior"
  /\ prior_lock = NULL
  /\ next_to_retire = curr_id[w]
  /\ prior_lock' = w
  /\ wpc' = [wpc EXCEPT ![w] = "spin"]
  /\ UNCHANGED <<NotSync, reader_idx, current_alloc_idx, id_ctr,
                 next_to_retire, writers_alloced, cb_items, write_lock, wqp,
                 curr_id, cbs, old, heap, closing, snapshot>>

\* Fault: the broadcast on prior_signal is left out.
DrainedSilent(w) ==
  /\ wpc[w] = "spin"
  /\ users[wqp[w]] = 0
  /\ next_to_retire' = (next_to_retire + 1) % IdMod
  /\ wpc' = [v \in Writers |-> IF v = w THEN "retire" ELSE wpc[v]]
  /\ prior_lock' = NULL
  /\ UNCHANGED <<NotSync, reader_idx, current_alloc_idx, id_ctr,
                 writers_alloced, cb_items, write_lock, wqp, curr_id, cbs,
                 old, heap, closing, snapshot>>

\* ossl_synchronize_rcu: the count is zero; pass the turn on, wake everyone
\* waiting for it (pthread_cond_broadcast) and release prior_lock.
Drained(w) ==
  /\ wpc[w] = "spin"
  /\ users[wqp[w]] = 0
  /\ next_to_retire' = (next_to_retire + 1) % IdMod
  /\ wpc' = [v \in Writers |-> IF v = w THEN "retire"
                               ELSE IF wpc[v] = "prior_wait" THEN "prior"
                               ELSE wpc[v]]
  /\ prior_lock' = NULL
  /\ UNCHANGED <<NotSync, reader_idx, current_alloc_idx, id_ctr,
                 writers_alloced, cb_items, write_lock, wqp, curr_id, cbs,
                 old, heap, closing, snapshot>>

\* Fault: the signal on alloc_signal is left out.
RetireQpSilent(w) ==
  /\ wpc[w] = "retire"
  /\ writers_alloced' = writers_alloced - 1
  /\ wpc' = [wpc EXCEPT ![w] = "callbacks"]
  /\ UNCHANGED <<NotSync, reader_idx, current_alloc_idx, id_ctr,
                 next_to_retire, cb_items, write_lock, prior_lock, wqp,
                 curr_id, cbs, old, heap, closing, snapshot>>

\* retire_qp
RetireQp(w) ==
  /\ wpc[w] = "retire"
  /\ writers_alloced' = writers_alloced - 1
  /\ wpc' \in SignalAlloc([wpc EXCEPT ![w] = "callbacks"])
  /\ UNCHANGED <<NotSync, reader_idx, current_alloc_idx, id_ctr,
                 next_to_retire, cb_items, write_lock, prior_lock, wqp,
                 curr_id, cbs, old, heap, closing, snapshot>>

\* ossl_synchronize_rcu: one round of the callback loop; the callback frees
\* its object.
RunCallback(w) ==
  /\ wpc[w] = "callbacks"
  /\ \E o \in cbs[w] :
       /\ cbs' = [cbs EXCEPT ![w] = @ \ {o}]
       /\ heap' = heap \ {o}
  /\ UNCHANGED <<NotSync, lockVars, wpc, wqp, curr_id, old, closing, snapshot>>

\* ossl_synchronize_rcu returns; its caller frees the object it replaced if
\* no callback did, or, in ossl_rcu_lock_free, the lock itself.
SyncReturn(w) ==
  /\ wpc[w] = "callbacks"
  /\ cbs[w] = {}
  /\ heap' = heap \ {old[w]}
  /\ old' = [old EXCEPT ![w] = NULL]
  /\ wpc' = [wpc EXCEPT ![w] = IF closing = w THEN "freed" ELSE "idle"]
  /\ UNCHANGED <<NotSync, lockVars, wqp, curr_id, cbs, closing, snapshot>>

\* Fault: the lock is freed without a last synchronize call.
LockFreeUnsynced(w) ==
  /\ closing = NULL
  /\ \A r \in Readers : rpc[r] = "idle"
  /\ \A v \in Writers : wpc[v] = "idle"
  /\ closing' = w
  /\ wpc' = [wpc EXCEPT ![w] = "freed"]
  /\ UNCHANGED <<NotSync, lockVars, wqp, curr_id, cbs, old, heap, snapshot>>

\* ossl_rcu_lock_free, called when no other thread uses the lock any more.
LockFree(w) ==
  /\ closing = NULL
  /\ \A r \in Readers : rpc[r] = "idle"
  /\ \A v \in Writers : wpc[v] = "idle"
  /\ closing' = w
  /\ wpc' = [wpc EXCEPT ![w] = "sync"]
  /\ UNCHANGED <<NotSync, lockVars, wqp, curr_id, cbs, old, heap, snapshot>>

\* pthread_cond_wait may return without a signal.
SpuriousWakeup(w) ==
  /\ wpc[w] \in {"alloc_wait", "prior_wait"}
  /\ wpc' = [wpc EXCEPT ![w] = IF @ = "alloc_wait" THEN "alloc" ELSE "prior"]
  /\ UNCHANGED <<NotSync, lockVars, wqp, curr_id, cbs, old, heap, closing,
                 snapshot>>

WriterNext(w) ==
  \/ WriteLock(w) \/ Assign(w) \/ RcuCall(w) \/ WriteUnlock(w)
  \/ TakeCallbacks(w) \/ AllocWait(w) \/ UpdateQp(w)
  \/ PriorWait(w) \/ PriorEnter(w) \/ Drained(w) \/ RetireQp(w)
  \/ RunCallback(w) \/ SyncReturn(w) \/ LockFree(w) \/ SpuriousWakeup(w)

LockGone == closing # NULL /\ wpc[closing] = "freed"

\* Nothing happens to a lock that has been freed.
Gone == LockGone /\ UNCHANGED vars

Next ==
  \/ \E r \in Readers : ReaderNext(r)
  \/ \E w \in Writers : WriterNext(w)
  \/ Gone

Spec == Init /\ [][Next]_vars

-----------------------------------------------------------------------------
(* Fairness.  Every thread keeps running: a reader finishes taking the     *)
(* lock and leaves its critical section (also if it nests), the holder of  *)
(* the write lock gives it back, no thread is kept for ever from a mutex   *)
(* that keeps becoming free.  A thread asleep on a condition variable is   *)
(* not helped: only a signal is sure to wake it.                           *)

ReaderFairness(r) ==
  /\ WF_vars(\/ CountIn(r) \/ Hold(r) \/ Missed(r) \/ CountOut(r)
             \/ ReadUnlockNested(r))
  /\ SF_vars(ReadUnlock(r))

WriterFairness(w) ==
  /\ SF_vars(\/ WriteUnlock(w) \/ UpdateQp(w) \/ PriorEnter(w)
             \/ wpc[w] = "sync" /\ TakeCallbacks(w))
  /\ WF_vars(Drained(w) \/ RetireQp(w) \/ RunCallback(w) \/ SyncReturn(w))

FairSpec ==
  /\ Spec
  /\ \A r \in Readers : ReaderFairness(r)
  /\ \A w \in Writers : WriterFairness(w)

-----------------------------------------------------------------------------
(* Properties.                                                             *)

\* The values the variables range over.
TypeOK ==
  /\ reader_idx \in qps /\ current_alloc_idx \in qps
  /\ users \in [qps -> Nat]
  /\ id_ctr \in 0 .. IdMod - 1 /\ next_to_retire \in 0 .. IdMod - 1
  /\ writers_alloced \in Nat
  /\ cb_items \subseteq Objects
  /\ write_lock \in Writers \cup {NULL} /\ prior_lock \in Writers \cup {NULL}
  /\ rpc \in [Readers -> ReaderPCs]
  /\ qp \in [Readers -> qps]
  /\ depth \in [Readers -> 0 .. MaxDepth]
  /\ got \in [Readers -> SUBSET Objects]
  /\ wpc \in [Writers -> WriterPCs]
  /\ wqp \in [Writers -> qps]
  /\ curr_id \in [Writers -> 0 .. IdMod - 1]
  /\ cbs \in [Writers -> SUBSET Objects]
  /\ old \in [Writers -> Objects \cup {NULL}]
  /\ ptr \in Objects /\ heap \subseteq Objects
  /\ closing \in Writers \cup {NULL}
  /\ snapshot \in [Writers -> SUBSET Readers]

\* An object a reader dereferenced stays allocated until the reader leaves its
\* critical section, whichever writer's synchronize call runs the callback
\* that frees it, and the published object is never freed.
NoUseAfterFree ==
  /\ ptr \in heap
  /\ \A r \in Readers : got[r] \subseteq heap

\* Every replaced object has exactly one owner that is going to free it: the
\* callback queue, one synchronize call, or the writer that replaced it.  A
\* callback taken by two synchronize calls would be run twice.
Pending(w) == cbs[w] \cup ({old[w]} \ {NULL})
FreedOnce ==
  /\ \A w \in Writers :
       /\ Pending(w) \subseteq heap \ (cb_items \cup {ptr})
       /\ cbs[w] \cap {old[w]} = {}
  /\ cb_items \subseteq heap \ {ptr}
  /\ \A v, w \in Writers : v # w => Pending(v) \cap Pending(w) = {}

\* The readers are never moved on to a qp some writer is still waiting on,
\* as update_qp's comment asks: "readers can start working on one that isn't
\* yet being waited on".
ReadersNotWaitedOn ==
  \A w \in Writers : wpc[w] \in Undrained => wqp[w] # reader_idx

\* A qp's count is the number of readers that hold it or have counted
\* themselves on it and not yet looked again; it never drops below zero
\* (the assertion ret != UINT64_MAX of ossl_rcu_read_unlock).
CountedOn(q) ==
  {r \in Readers : rpc[r] \in {"counted", "undo", "held"} /\ qp[r] = q}
UsersCount == \A q \in qps : users[q] = Cardinality(CountedOn(q))

\* When ossl_rcu_lock_free is done every callback has run and every replaced
\* object is freed: only the published one is left.
NothingLeaked == LockGone => heap = {ptr}

\* The lock gives ossl_synchronize_rcu's grace-period guarantee: its wait ends
\* (next_to_retire is advanced) only after every reader that was inside when
\* it was called has left.
GP == INSTANCE GracePeriod WITH
        inside <- Inside,
        waiting <- {w \in Writers : wpc[w] \in GracePCs},
        owed <- snapshot
GracePeriodSpec == GP!GPSpec

\* Once update_qp has given a synchronize call its qp the call returns, even
\* if other threads keep taking the lock for reading and synchronizing: turns
\* pass in order, no wake-up on prior_signal is lost, and new readers cannot
\* keep the writer spinning.
GraceEnds ==
  \A w \in Writers :
    wpc[w] \in Undrained \cup {"retire", "callbacks"}
      ~> wpc[w] \in {"idle", "freed"}

\* A synchronize call that never returns is one that others overtake for
\* ever: no wake-up on alloc_signal is lost, so that threads waiting in
\* update_qp cannot all be left asleep.
Synchronizing(w) == wpc[w] \in GracePCs \cup {"sync", "retire", "callbacks"}
NoneLeftAsleep ==
  \A w \in Writers :
    <>[]Synchronizing(w) => []<>(\E v \in Writers : wpc[v] = "retire")
=============================================================================
