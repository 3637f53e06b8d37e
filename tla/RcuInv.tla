------------------------------- MODULE RcuInv -------------------------------
(***************************************************************************)
(* The inductive invariant of the RCU lock: why waiting for one qp at a    *)
(* time, in order, outlasts every reader a grace period has to outlast.    *)
(***************************************************************************)
EXTENDS Rcu

\* How many steps i is ahead of n on a ring of m numbers.
Ahead(i, n, m) == IF i >= n THEN i - n ELSE i - n + m

\* How many turns identifier i is behind the one to retire next, and how many
\* qps q is behind the readers' one.
Dist(i) == Ahead(i, next_to_retire, IdMod)
Back(q) == Ahead(current_alloc_idx, q, group_count)

\* The number of grace periods that have a qp and have not drained it.
Open == Dist(id_ctr)
Retiring == {w \in Writers : wpc[w] = "retire"}

\* Each mutex is held by exactly the thread that is in its critical section.
LockInv ==
  \A w \in Writers :
    /\ write_lock = w <=> wpc[w] \in {"locked", "replaced"}
    /\ prior_lock = w <=> wpc[w] = "spin"
    /\ wpc[w] = "spin" => curr_id[w] = next_to_retire

\* The qps being waited on are the Open ones just behind the readers' qp, in
\* the order of their identifiers; writers_alloced also counts those drained
\* but not yet given back, and one qp is always left for the readers.
TurnInv ==
  /\ reader_idx = current_alloc_idx
  /\ writers_alloced = Open + Cardinality(Retiring)
  /\ writers_alloced <= group_count - 1
  /\ \A w \in Writers : wpc[w] \in Undrained =>
       /\ Dist(curr_id[w]) < Open
       /\ Back(wqp[w]) = Open - Dist(curr_id[w])
  /\ \A v, w \in Writers :
       wpc[v] \in Undrained /\ wpc[w] \in Undrained /\ v # w
         => curr_id[v] # curr_id[w]

\* A reader inside holds the readers' qp or one a writer is waiting on.
ReaderInv ==
  /\ UsersCount
  /\ \A r \in Readers :
       /\ rpc[r] # "held" => got[r] = {} /\ \A w \in Writers : r \notin snapshot[w]
       /\ rpc[r] = "held" =>
            \/ qp[r] = reader_idx
            \/ \E w \in Writers : wpc[w] \in Undrained /\ wqp[w] = qp[r]

\* The readers a writer must outlast hold its own qp or one whose turn to
\* retire comes before.
GraceInv ==
  \A w \in Writers :
    /\ wpc[w] \notin GracePCs => snapshot[w] = {}
    /\ wpc[w] \in Undrained => \A r \in snapshot[w] : \E v \in Writers :
         /\ wpc[v] \in Undrained
         /\ wqp[v] = qp[r]
         /\ Dist(curr_id[v]) <= Dist(curr_id[w])

\* A reader that still refers to something a synchronize call is going to
\* free is one the call must outlast.
HeapInv ==
  /\ FreedOnce
  /\ NoUseAfterFree
  /\ \A w \in Writers :
       /\ wpc[w] \in {"idle", "locked", "freed"} => old[w] = NULL
       /\ wpc[w] = "replaced" => old[w] # NULL
       /\ wpc[w] \in {"idle", "locked", "replaced", "sync", "freed"} => cbs[w] = {}
       /\ wpc[w] \in GracePCs \cup {"retire", "callbacks"} =>
            \A r \in Readers : got[r] \cap Pending(w) # {} => r \in snapshot[w]

\* Everything allocated is published or has somebody to free it, and a thread
\* that frees the lock is alone with it.
CloseInv ==
  /\ \A o \in heap : \/ o = ptr \/ o \in cb_items
                     \/ \E w \in Writers : o \in Pending(w)
  /\ closing # NULL =>
       /\ \A r \in Readers : rpc[r] = "idle"
       /\ \A v \in Writers : v # closing => wpc[v] = "idle"
       /\ wpc[closing] \notin {"idle", "locked", "replaced"}
       /\ wpc[closing] # "sync" => cb_items = {}
  /\ \A w \in Writers : wpc[w] = "freed" => closing = w

\* The inductive invariant (checked by TLC as an invariant, proved in
\* RcuProofs to be one for any numbers of readers, writers and qps).
IInv == /\ TypeOK /\ LockInv /\ TurnInv /\ ReaderInv /\ GraceInv /\ HeapInv
        /\ CloseInv
=============================================================================
