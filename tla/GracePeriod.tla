----------------------------- MODULE GracePeriod -----------------------------
(***************************************************************************)
(* What ossl_synchronize_rcu promises its callers, with no quiescence      *)
(* points, counters or condition variables: a call that begins while some  *)
(* readers are inside their critical sections does not get past its wait   *)
(* before every one of them has left.  Readers that enter later do not     *)
(* delay it.                                                               *)
(***************************************************************************)
CONSTANTS Readers, Writers

VARIABLES
  inside,     \* the readers inside a critical section
  waiting,    \* the writers whose grace period has begun and not ended
  owed        \* owed[w]: the readers w still has to wait for

gpVars == <<inside, waiting, owed>>

GPInit ==
  /\ inside = {}
  /\ waiting = {}
  /\ owed = [w \in Writers |-> {}]

Enter(r) ==
  /\ r \notin inside
  /\ inside' = inside \cup {r}
  /\ UNCHANGED <<waiting, owed>>

Leave(r) ==
  /\ r \in inside
  /\ inside' = inside \ {r}
  /\ owed' = [w \in Writers |-> owed[w] \ {r}]
  /\ UNCHANGED waiting

Begin(w) ==
  /\ w \notin waiting
  /\ waiting' = waiting \cup {w}
  /\ owed' = [owed EXCEPT ![w] = inside]
  /\ UNCHANGED inside

End(w) ==
  /\ w \in waiting
  /\ owed[w] = {}
  /\ waiting' = waiting \ {w}
  /\ UNCHANGED <<inside, owed>>

GPNext ==
  \/ \E r \in Readers : Enter(r) \/ Leave(r)
  \/ \E w \in Writers : Begin(w) \/ End(w)

GPSpec == GPInit /\ [][GPNext]_gpVars
=============================================================================
