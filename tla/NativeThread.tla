----------------------------- MODULE NativeThread -----------------------------
(***************************************************************************)
(* One CRYPTO_THREAD handle of crypto/thread/arch.c on POSIX threads: the  *)
(* thread it runs, and callers that may join it concurrently or again.     *)
(* Each stretch of code under the handle's statelock is one step;          *)
(* pthread_join is made outside it.                                        *)
(***************************************************************************)
EXTENDS FiniteSets

CONSTANT Joiners    \* the threads that call ossl_crypto_thread_native_join

ASSUME JoinersAssumption == IsFiniteSet(Joiners)

VARIABLES
  state,    \* the state flags set in the handle
  thr,      \* the native thread: "none", "running", "exited" or "reaped"
  cancelled,\* the value it ended with is not NULL
  jpc,      \* jpc[j]: where joiner j is in ossl_crypto_thread_native_join
  handle    \* the handle: "none", "live" or "freed"
native_vars == <<state, thr, cancelled, jpc, handle>>

\* "ERROR_JOINED" is CRYPTO_THREAD_JOINED in the error half of the state.
Flags == {"FINISHED", "JOIN_AWAIT", "JOINED", "ERROR_JOINED"}

\* "enter" and "recheck" are runnable and test the state next, "asleep_finish"
\* and "asleep_join" wait on the condvar, "pthread_join" is outside the lock.
Asleep == {"asleep_finish", "asleep_join"}
Returned == {"idle", "ok", "failed"}
JoinerPCs == {"enter", "recheck", "pthread_join"} \cup Asleep \cup Returned

NativeInit ==
  /\ state = {}
  /\ thr = "none" /\ cancelled = FALSE
  /\ jpc = [j \in Joiners |-> "idle"]
  /\ handle = "none"

\* A thread woken in pthread_cond_wait tests its loop's condition again.
Resume(pc) == IF pc = "asleep_finish" THEN "enter" ELSE "recheck"
Sleeping(pc) == {i \in Joiners : pc[i] \in Asleep}

\* ossl_crypto_condvar_signal wakes one waiter, if any; broadcast wakes all.
Signal(pc) ==
  IF Sleeping(pc) = {} THEN {pc}
  ELSE {[pc EXCEPT ![i] = Resume(@)] : i \in Sleeping(pc)}
Broadcast(pc) ==
  [i \in Joiners |-> IF i \in Sleeping(pc) THEN Resume(pc[i]) ELSE pc[i]]

-----------------------------------------------------------------------------
\* ossl_crypto_thread_native_start; when an allocation or the spawn fails it
\* frees what it made and returns NULL.
NativeStart ==
  /\ handle = "none"
  /\ \/ thr' = "running" /\ handle' = "live"
     \/ UNCHANGED <<thr, handle>>
  /\ UNCHANGED <<state, cancelled, jpc>>

\* thread_start_thunk, once the routine has returned.  It ends with NULL, unless
\* the thread is cancelled before it gets there.
ThreadExit ==
  /\ thr = "running"
  /\ thr' = "exited" /\ cancelled' \in BOOLEAN
  /\ state' = state \cup {"FINISHED"}
  /\ jpc' = Broadcast(jpc)
  /\ UNCHANGED handle

\* ossl_crypto_thread_native_join is called, for the first time or again.
JoinCall(j) ==
  /\ handle = "live"
  /\ jpc[j] \in Returned
  /\ jpc' = [jpc EXCEPT ![j] = "enter"]
  /\ UNCHANGED <<state, thr, cancelled, handle>>

\* Fault: the wake-up is not passed on.
PassSilent(j) ==
  /\ state' = (state \ {"ERROR_JOINED"}) \cup {"JOINED"}
  /\ jpc' = [jpc EXCEPT ![j] = "ok"]

\* The end of ossl_crypto_thread_native_join that the pass label starts.
Pass(j) ==
  /\ state' = (state \ {"ERROR_JOINED"}) \cup {"JOINED"}
  /\ jpc' \in Signal([jpc EXCEPT ![j] = "ok"])

\* The first loop: the thread has not finished.
AwaitFinish(j) ==
  /\ jpc[j] = "enter"
  /\ state \cap {"FINISHED", "JOINED"} = {}
  /\ jpc' = [jpc EXCEPT ![j] = "asleep_finish"]
  /\ UNCHANGED <<state, thr, cancelled, handle>>

Finished(j) ==
  \/ jpc[j] = "enter" /\ state \cap {"FINISHED", "JOINED"} # {}
  \/ jpc[j] = "recheck"

\* Somebody else has joined the thread.
AlreadyJoined(j) ==
  /\ Finished(j)
  /\ "JOINED" \in state
  /\ Pass(j)
  /\ UNCHANGED <<thr, cancelled, handle>>

\* The second loop: somebody else is joining the thread.
AwaitJoin(j) ==
  /\ Finished(j)
  /\ "JOINED" \notin state
  /\ "JOIN_AWAIT" \in state
  /\ jpc' = [jpc EXCEPT ![j] = "asleep_join"]
  /\ UNCHANGED <<state, thr, cancelled, handle>>

\* Fault: a join under way is not waited for.
ClaimJoinAnyway(j) ==
  /\ Finished(j)
  /\ "JOINED" \notin state
  /\ state' = state \cup {"JOIN_AWAIT"}
  /\ jpc' = [jpc EXCEPT ![j] = "pthread_join"]
  /\ UNCHANGED <<thr, cancelled, handle>>

\* Nobody is: set JOIN_AWAIT and leave the lock to join the thread.
ClaimJoin(j) ==
  /\ Finished(j)
  /\ state \cap {"JOINED", "JOIN_AWAIT"} = {}
  /\ state' = state \cup {"JOIN_AWAIT"}
  /\ jpc' = [jpc EXCEPT ![j] = "pthread_join"]
  /\ UNCHANGED <<thr, cancelled, handle>>

\* ossl_crypto_thread_native_perform_join succeeds.  (What a second pthread_join
\* does is undefined: it may fail or find another thread's end.)
JoinOk(j) ==
  /\ jpc[j] = "pthread_join"
  /\ cancelled => thr = "reaped"
  /\ thr' = "reaped"
  /\ Pass(j)
  /\ UNCHANGED <<cancelled, handle>>

\* It fails: pthread_join does, or the value it brings is not NULL, although the
\* thread is reaped then.  Another joiner is let retry.
JoinFail(j) ==
  /\ jpc[j] = "pthread_join"
  /\ \/ UNCHANGED thr
     \/ cancelled /\ thr' = "reaped"
  /\ state' = (state \cup {"ERROR_JOINED"}) \ {"JOIN_AWAIT"}
  /\ jpc' \in Signal([jpc EXCEPT ![j] = "failed"])
  /\ UNCHANGED <<cancelled, handle>>

\* ossl_crypto_thread_native_clean, which its callers call when their join
\* calls have returned; it refuses a thread that has not finished.
NativeClean ==
  /\ handle = "live"
  /\ \A j \in Joiners : jpc[j] \in Returned
  /\ handle' = IF state \cap {"FINISHED", "JOINED"} = {} THEN "live" ELSE "freed"
  /\ UNCHANGED <<state, thr, cancelled, jpc>>

\* pthread_cond_wait may return without a signal.
NativeSpuriousWakeup(j) ==
  /\ jpc[j] \in Asleep
  /\ jpc' = [jpc EXCEPT ![j] = Resume(@)]
  /\ UNCHANGED <<state, thr, cancelled, handle>>

JoinStep(j) ==
  \/ AwaitFinish(j) \/ AlreadyJoined(j) \/ AwaitJoin(j) \/ ClaimJoin(j)
  \/ JoinOk(j) \/ JoinFail(j)

NativeNext ==
  \/ NativeStart
  \/ ThreadExit
  \/ \E j \in Joiners : JoinCall(j) \/ JoinStep(j) \/ NativeSpuriousWakeup(j)
  \/ NativeClean
  \/ handle = "freed" /\ UNCHANGED native_vars

NativeSpec == NativeInit /\ [][NativeNext]_native_vars

\* The thread's routine returns, and a joiner that can run does.  A joiner
\* asleep on the condvar is only sure to run after a signal.
NativeFairSpec ==
  /\ NativeSpec
  /\ WF_native_vars(ThreadExit)
  /\ \A j \in Joiners : WF_native_vars(JoinStep(j))

-----------------------------------------------------------------------------
\* The values the variables range over.
NativeTypeOK ==
  /\ state \subseteq Flags
  /\ thr \in {"none", "running", "exited", "reaped"} /\ cancelled \in BOOLEAN
  /\ jpc \in [Joiners -> JoinerPCs]
  /\ handle \in {"none", "live", "freed"}

\* pthread_join is never called by two callers at a time, nor for a thread that
\* has been joined already (both are undefined behaviour in POSIX), however many
\* callers join the handle and whichever of their attempts fail, but for a thread
\* that was cancelled: then the attempt that reaps it is reported as failed and
\* the next one joins it again.  A call reports success only for a thread that
\* has been reaped, and the handle is not freed under a thread that still has to
\* set its FINISHED flag.
JoinedOnce ==
  /\ \A j \in Joiners :
       jpc[j] = "pthread_join" => thr = "exited" \/ (thr = "reaped" /\ cancelled)
  /\ \A i, j \in Joiners :
       jpc[i] = "pthread_join" /\ jpc[j] = "pthread_join" => i = j
  /\ \A j \in Joiners : jpc[j] = "ok" => thr = "reaped"
  /\ handle = "freed" => thr \in {"exited", "reaped"}

\* "pthread_join results in undefined behaviour if called on a joined thread.  We
\* do not impose such restrictions, so it's up to us to ensure that this does not
\* happen" (test/threadpool_test.c).  It does, after a cancellation.
NeverRejoined == \A j \in Joiners : jpc[j] = "pthread_join" => thr = "exited"

\* A join call returns, although a signal wakes a single waiter: each caller
\* that leaves passes the wake-up on.  Only others that keep retrying
\* pthread_join, failing every time, could hold a call up for ever.
JoinReturns ==
  \A j \in Joiners :
    <>[](jpc[j] \notin Returned) => []<>(\E i \in Joiners : jpc[i] = "pthread_join")
=============================================================================
