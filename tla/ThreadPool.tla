------------------------------ MODULE ThreadPool ------------------------------
(***************************************************************************)
(* The default thread pool of a library context (crypto/thread/internal.c  *)
(* and api.c): a limit, a count of the threads in use, and a condition     *)
(* variable on which starts wait for a slot.  ossl_crypto_thread_native_   *)
(* join is taken by its promise, which NativeThread checks: it reports     *)
(* success once the thread has finished, to every caller.  A native join   *)
(* that fails makes the pool's join return 0 with nothing changed.         *)
(***************************************************************************)
EXTENDS Integers, FiniteSets

CONSTANTS
  Clients,       \* threads that start and join pool threads
  Handles,       \* the thread handles there can be at a time
  NoOwner,
  CountMod,      \* max_threads and active_threads are uint64_t: 2^64
  MaxSettings    \* the limits the application sets

ASSUME PoolAssumption ==
  /\ IsFiniteSet(Clients) /\ IsFiniteSet(Handles) /\ NoOwner \notin Clients
  /\ CountMod \in Nat /\ CountMod > Cardinality(Clients) + Cardinality(Handles)
  /\ MaxSettings \subseteq 0 .. CountMod - 1

VARIABLES
  max_threads,
  active_threads,
  cpc,            \* cpc[c]: where client c is
  th,             \* th[h]: the thread of handle h
  own,            \* own[h]: the client that started h
  spawn_failed,   \* history: a native start has failed
  rejoined        \* history: a handle has been joined once more
historyVars == <<spawn_failed, rejoined>>
vars == <<max_threads, active_threads, cpc, th, own, historyVars>>

\* ossl_threads_ctx_new: the pool starts out disabled.
Init ==
  /\ max_threads = 0
  /\ active_threads = 0
  /\ cpc = [c \in Clients |-> "idle"]
  /\ th = [h \in Handles |-> "none"]
  /\ own = [h \in Handles |-> NoOwner]
  /\ spawn_failed = FALSE /\ rejoined = FALSE

\* _ossl_get_avail_threads: an unsigned difference.
Avail == (max_threads - active_threads) % CountMod

\* OSSL_set_max_threads.  The limit may be raised and lowered at any time; it
\* is not compared with the threads in use, and no waiter is told.
SetMaxThreads(n) ==
  /\ max_threads' = n
  /\ UNCHANGED <<active_threads, cpc, th, own, historyVars>>

\* ossl_crypto_thread_start up to its wait loop; with max_threads = 0 it
\* returns NULL at once.  A woken waiter tests the loop's condition only.
Starting(c) == cpc[c] = "woken" \/ (cpc[c] = "idle" /\ max_threads # 0)

StartWait(c) ==
  /\ Starting(c)
  /\ Avail = 0
  /\ cpc' = [cpc EXCEPT ![c] = "asleep"]
  /\ UNCHANGED <<max_threads, active_threads, th, own, historyVars>>

\* Fault: a slot is taken without looking whether there is one.
StartSlotUntested(c) ==
  /\ Starting(c)
  /\ active_threads' = (active_threads + 1) % CountMod
  /\ cpc' = [cpc EXCEPT ![c] = "spawn"]
  /\ UNCHANGED <<max_threads, th, own, historyVars>>

StartSlot(c) ==
  /\ Starting(c)
  /\ Avail # 0
  /\ active_threads' = (active_threads + 1) % CountMod
  /\ cpc' = [cpc EXCEPT ![c] = "spawn"]
  /\ UNCHANGED <<max_threads, th, own, historyVars>>

\* ossl_crypto_thread_start: ossl_crypto_thread_native_start succeeds ...
SpawnOk(c) ==
  /\ cpc[c] = "spawn"
  /\ \E h \in Handles :
       /\ th[h] = "none"
       /\ th' = [th EXCEPT ![h] = "running"]
       /\ own' = [own EXCEPT ![h] = c]
  /\ cpc' = [cpc EXCEPT ![c] = "idle"]
  /\ UNCHANGED <<max_threads, active_threads, historyVars>>

\* ... or fails; the slot is given back, and no waiter is told.
SpawnFail(c) ==
  /\ cpc[c] = "spawn"
  /\ active_threads' = (active_threads - 1) % CountMod
  /\ cpc' = [cpc EXCEPT ![c] = "idle"]
  /\ spawn_failed' = TRUE
  /\ UNCHANGED <<max_threads, th, own, rejoined>>

ThreadFinish(h) ==
  /\ th[h] = "running"
  /\ th' = [th EXCEPT ![h] = "finished"]
  /\ UNCHANGED <<max_threads, active_threads, cpc, own, historyVars>>

\* ossl_crypto_thread_join: the native join returns 1, to every client that
\* joins the handle and as often as it does.
NativeJoined(c, h) ==
  /\ cpc[c] = "idle"
  /\ th[h] \in {"finished", "joined"}
  /\ rejoined' = (rejoined \/ th[h] = "joined")
  /\ th' = [th EXCEPT ![h] = "joined"]
  /\ cpc' = [cpc EXCEPT ![c] = "joined"]
  /\ UNCHANGED <<max_threads, active_threads, own, spawn_failed>>

\* Fault: the signal on cond_finished is left out.
JoinDoneSilent(c) ==
  /\ cpc[c] = "joined"
  /\ active_threads' = (active_threads - 1) % CountMod
  /\ cpc' = [cpc EXCEPT ![c] = "idle"]
  /\ UNCHANGED <<max_threads, th, own, historyVars>>

\* ossl_crypto_thread_join: give the slot back and signal cond_finished.
JoinDone(c) ==
  /\ cpc[c] = "joined"
  /\ active_threads' = (active_threads - 1) % CountMod
  /\ LET pc == [cpc EXCEPT ![c] = "idle"]
         asleep == {d \in Clients : cpc[d] = "asleep"}
     IN  IF asleep = {} THEN cpc' = pc
         ELSE \E d \in asleep : cpc' = [pc EXCEPT ![d] = "woken"]
  /\ UNCHANGED <<max_threads, th, own, historyVars>>

\* ossl_crypto_thread_clean, called after a join.
Clean(h) ==
  /\ th[h] = "joined"
  /\ th' = [th EXCEPT ![h] = "none"]
  /\ own' = [own EXCEPT ![h] = NoOwner]
  /\ UNCHANGED <<max_threads, active_threads, cpc, historyVars>>

\* ossl_crypto_condvar_wait may return without a signal.
SpuriousWakeup(c) ==
  /\ cpc[c] = "asleep"
  /\ cpc' = [cpc EXCEPT ![c] = "woken"]
  /\ UNCHANGED <<max_threads, active_threads, th, own, historyVars>>

ClientStep(c) ==
  \/ StartWait(c) \/ StartSlot(c) \/ SpawnOk(c) \/ SpawnFail(c) \/ JoinDone(c)
  \/ SpuriousWakeup(c) \/ \E h \in Handles : NativeJoined(c, h)

Next ==
  \/ \E n \in MaxSettings : SetMaxThreads(n)
  \/ \E c \in Clients : ClientStep(c)
  \/ \E h \in Handles : ThreadFinish(h) \/ Clean(h)

Spec == Init /\ [][Next]_vars

\* Threads finish, clients go through with the calls they have begun, and a
\* client joins and cleans what it started; nobody need start anything.
FairSpec ==
  /\ Spec
  /\ \A c \in Clients :
       /\ WF_vars(cpc[c] = "woken" /\ (StartWait(c) \/ StartSlot(c)))
       /\ WF_vars(SpawnOk(c)) /\ WF_vars(JoinDone(c))
       /\ SF_vars(\E h \in Handles : own[h] = c /\ NativeJoined(c, h))
  /\ \A h \in Handles : WF_vars(ThreadFinish(h)) /\ WF_vars(Clean(h))

-----------------------------------------------------------------------------
\* The values the variables range over.
TypeOK ==
  /\ max_threads \in 0 .. CountMod - 1 /\ active_threads \in 0 .. CountMod - 1
  /\ cpc \in [Clients -> {"idle", "asleep", "woken", "spawn", "joined"}]
  /\ th \in [Handles -> {"none", "running", "finished", "joined"}]
  /\ own \in [Handles -> Clients \cup {NoOwner}]
  /\ spawn_failed \in BOOLEAN /\ rejoined \in BOOLEAN

ClientsAt(pc) == {c \in Clients : cpc[c] = pc}
HandlesAt(s) == {h \in Handles : th[h] = s}

\* Threads being spawned or running, and with those that are not yet joined or
\* whose join has not given the slot back, the slots in use.
Running == Cardinality(ClientsAt("spawn")) + Cardinality(HandlesAt("running"))
InUse == Running + Cardinality(ClientsAt("joined")) + Cardinality(HandlesAt("finished"))

\* Whenever a start is given a slot, fewer threads than the limit are running or
\* being spawned ("The maximum thread count is a limit, not a target").
LimitAlwaysKept ==
  [][\A c \in Clients : cpc[c] # "spawn" /\ cpc'[c] = "spawn" => Running < max_threads]_vars

\* It can only fail in two ways, whatever limits are set and handles joined: the
\* limit was lowered below the slots in use, which the unsigned difference turns
\* into plenty of free ones until enough threads are joined; or a slot has been
\* given back twice for one thread.
LimitKept ==
  [][\A c \in Clients : cpc[c] # "spawn" /\ cpc'[c] = "spawn" =>
       Running < max_threads \/ InUse > max_threads \/ rejoined]_vars

\* A start that waits for a slot gets one, unless others take every slot
\* before it: no join's signal is lost, not even when a client that did not
\* wait overtakes the one it woke.  What voids the promise is a native start
\* that fails (nobody is signalled), a client that waits for a slot while it
\* holds one that it has not given back (it may be waiting for itself), a handle
\* joined again, and a limit set to 0 (nobody is signalled when it is raised).
HoldAndWait ==
  \E c \in Clients : cpc[c] \in {"asleep", "woken"} /\ \E h \in Handles : own[h] = c
StartServed ==
  \A c \in Clients :
    <>[](cpc[c] = "asleep") =>
      \/ []<>(\E d \in Clients : cpc[d] = "spawn")
      \/ <>spawn_failed \/ <>rejoined
      \/ <>(max_threads # 0 /\ <>(max_threads = 0))
      \/ <>[]HoldAndWait
=============================================================================
