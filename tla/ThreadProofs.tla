----------------------------- MODULE ThreadProofs -----------------------------
(***************************************************************************)
(* Proofs about threads: joining a native thread is safe for any number of *)
(* joiners; and the thread pool exceeds its limit in two ways only, for    *)
(* any number of clients and handles, any counter width, any limits set    *)
(* and handles joined by anybody any number of times.                      *)
(***************************************************************************)
EXTENDS NativeThread, ThreadPool, FiniteSetTheorems, TLAPS

-----------------------------------------------------------------------------
(* One native thread.                                                      *)

(***************************************************************************)
(* The flags under statelock say what the thread and the callers do:       *)
(* JOIN_AWAIT keeps pthread_join to the one caller that set it, JOINED is  *)
(* set only when a pthread_join has succeeded, which none does unnoticed   *)
(* but for a cancelled thread, and FINISHED only by the thread itself,     *)
(* which every caller past the first loop has seen.                        *)
(***************************************************************************)
FlagInv ==
  /\ "FINISHED" \in state <=> thr \in {"exited", "reaped"}
  /\ "JOINED" \in state => thr = "reaped"
  /\ thr = "reaped" => "JOINED" \in state \/ cancelled
  /\ \A j \in Joiners :
       /\ jpc[j] \in {"recheck", "asleep_join", "pthread_join"} => "FINISHED" \in state
       /\ jpc[j] = "pthread_join" => "JOIN_AWAIT" \in state
  /\ handle = "none" => thr = "none"

JoinInv == NativeTypeOK /\ JoinedOnce /\ FlagInv

\* Nobody enters pthread_join, or returns success, by being woken up: a signal
\* leaves every joiner where it is or makes it test its condition again.
LEMMA SignalWakes ==
  ASSUME NEW pc \in [Joiners -> JoinerPCs], NEW q \in Signal(pc)
  PROVE  /\ q \in [Joiners -> JoinerPCs]
         /\ \A j \in Joiners :
              q[j] = pc[j] \/ (pc[j] \in Asleep /\ q[j] = Resume(pc[j]))
BY DEF Signal, Sleeping, Resume, JoinerPCs, Asleep, Returned

LEMMA BroadcastWakes ==
  ASSUME NEW pc \in [Joiners -> JoinerPCs]
  PROVE  /\ Broadcast(pc) \in [Joiners -> JoinerPCs]
         /\ \A j \in Joiners :
              \/ Broadcast(pc)[j] = pc[j]
              \/ pc[j] \in Asleep /\ Broadcast(pc)[j] = Resume(pc[j])
BY DEF Broadcast, Sleeping, Resume, JoinerPCs, Asleep, Returned

LEMMA JoinInitInv == NativeInit => JoinInv
BY DEF NativeInit, JoinInv, NativeTypeOK, JoinedOnce, FlagInv, JoinerPCs, Returned, Flags

LEMMA JoinStepInv == JoinInv /\ [NativeNext]_native_vars => JoinInv'
<1> SUFFICES ASSUME JoinInv, [NativeNext]_native_vars PROVE JoinInv'
  OBVIOUS
<1> USE DEF JoinInv, NativeTypeOK, JoinedOnce, FlagInv, Flags
<1>1. CASE UNCHANGED native_vars
  BY <1>1 DEF native_vars
<1>2. CASE NativeStart
  BY <1>2 DEF NativeStart
<1>3. CASE ThreadExit
  BY <1>3, BroadcastWakes DEF ThreadExit, Resume, Asleep
<1>4. ASSUME NEW j \in Joiners, JoinCall(j) PROVE JoinInv'
  BY <1>4 DEF JoinCall, Returned, JoinerPCs
<1>5. ASSUME NEW j \in Joiners, AwaitFinish(j) PROVE JoinInv'
  BY <1>5 DEF AwaitFinish, JoinerPCs, Asleep
<1>6. ASSUME NEW j \in Joiners, AlreadyJoined(j) PROVE JoinInv'
  <2> DEFINE pc == [jpc EXCEPT ![j] = "ok"]
  <2>1. pc \in [Joiners -> JoinerPCs]
    BY DEF JoinerPCs, Returned
  <2>2. jpc' \in Signal(pc)
    BY <1>6 DEF AlreadyJoined, Pass
  <2>3. /\ jpc' \in [Joiners -> JoinerPCs]
        /\ \A i \in Joiners :
             jpc'[i] = pc[i] \/ (pc[i] \in Asleep /\ jpc'[i] = Resume(pc[i]))
    BY <2>1, <2>2, SignalWakes
  <2> QED BY <1>6, <2>3 DEF AlreadyJoined, Finished, Pass, Resume, Asleep
<1>7. ASSUME NEW j \in Joiners, AwaitJoin(j) PROVE JoinInv'
  BY <1>7 DEF AwaitJoin, Finished, JoinerPCs, Asleep
<1>8. ASSUME NEW j \in Joiners, ClaimJoin(j) PROVE JoinInv'
  BY <1>8 DEF ClaimJoin, Finished, JoinerPCs
<1>9. ASSUME NEW j \in Joiners, JoinOk(j) PROVE JoinInv'
  <2> DEFINE pc == [jpc EXCEPT ![j] = "ok"]
  <2>1. pc \in [Joiners -> JoinerPCs]
    BY DEF JoinerPCs, Returned
  <2>2. jpc' \in Signal(pc)
    BY <1>9 DEF JoinOk, Pass
  <2>3. /\ jpc' \in [Joiners -> JoinerPCs]
        /\ \A i \in Joiners :
             jpc'[i] = pc[i] \/ (pc[i] \in Asleep /\ jpc'[i] = Resume(pc[i]))
    BY <2>1, <2>2, SignalWakes
  <2> QED BY <1>9, <2>3 DEF JoinOk, Pass, Resume, Asleep
<1>10. ASSUME NEW j \in Joiners, JoinFail(j) PROVE JoinInv'
  <2> DEFINE pc == [jpc EXCEPT ![j] = "failed"]
  <2>1. pc \in [Joiners -> JoinerPCs]
    BY DEF JoinerPCs, Returned
  <2>2. jpc' \in Signal(pc)
    BY <1>10 DEF JoinFail
  <2>3. /\ jpc' \in [Joiners -> JoinerPCs]
        /\ \A i \in Joiners :
             jpc'[i] = pc[i] \/ (pc[i] \in Asleep /\ jpc'[i] = Resume(pc[i]))
    BY <2>1, <2>2, SignalWakes
  <2> QED BY <1>10, <2>3 DEF JoinFail, Resume, Asleep
<1>11. CASE NativeClean
  BY <1>11 DEF NativeClean
<1>12. ASSUME NEW j \in Joiners, NativeSpuriousWakeup(j) PROVE JoinInv'
  BY <1>12 DEF NativeSpuriousWakeup, Resume, Asleep, JoinerPCs
<1> QED
  BY <1>1, <1>2, <1>3, <1>4, <1>5, <1>6, <1>7, <1>8, <1>9, <1>10, <1>11, <1>12
     DEF NativeNext, JoinStep

\* ossl_crypto_thread_native_join calls pthread_join only for a thread that has
\* finished and, unless it was cancelled, has not been joined, from one caller at
\* a time; it reports success only when the thread has been joined, and the handle outlives the
\* thread's use of it.  For any number of callers, retries and wake-ups.
THEOREM JoinSafe == NativeSpec => []JoinedOnce
<1>1. JoinInv => JoinedOnce  BY DEF JoinInv
<1> QED BY <1>1, JoinInitInv, JoinStepInv, PTL DEF NativeSpec

-----------------------------------------------------------------------------
(* The thread pool.                                                        *)

\* How many x in S have f[x] = v.
NumAt(f, S, v) == Cardinality({x \in S : f[x] = v})

\* The slots in use: starts that have taken one, threads that are not joined
\* yet, and joins that are about to give theirs back.
Used == NumAt(cpc, Clients, "spawn") + NumAt(cpc, Clients, "joined")
          + NumAt(th, Handles, "running") + NumAt(th, Handles, "finished")

\* The count is exact until a handle is joined once more.
IInv == TypeOK /\ (~rejoined => active_threads = Used)

-----------------------------------------------------------------------------
\* Counting is well defined, and an element that is counted makes the count
\* positive.
LEMMA NumAtType ==
  ASSUME NEW S, IsFiniteSet(S), NEW f, NEW v
  PROVE  NumAt(f, S, v) \in Nat /\ \A x \in S : f[x] = v => NumAt(f, S, v) > 0
<1> DEFINE A == {x \in S : f[x] = v}
<1>1. IsFiniteSet(A)
  BY FS_Subset
<1>2. Cardinality(A) \in Nat /\ (A # {} => Cardinality(A) # 0)
  BY <1>1, FS_CardinalityType, FS_EmptySet
<1> QED BY <1>2 DEF NumAt

\* Of the elements of S only x may be counted by one of f and g and not by the
\* other; then the counts differ by x.
SameBut(f, g, S, x, v) == \A y \in S \ {x} : g[y] = v <=> f[y] = v
DiffersBy(f, g, S, x, v) ==
  /\ (g[x] = v <=> f[x] = v) => NumAt(g, S, v) = NumAt(f, S, v)
  /\ g[x] = v /\ f[x] # v => NumAt(g, S, v) = NumAt(f, S, v) + 1
  /\ g[x] # v /\ f[x] = v => NumAt(g, S, v) = NumAt(f, S, v) - 1

LEMMA NumAtUpdate ==
  ASSUME NEW S, IsFiniteSet(S), NEW f, NEW g, NEW x \in S, NEW v, SameBut(f, g, S, x, v)
  PROVE  DiffersBy(f, g, S, x, v)
<1> DEFINE A == {y \in S : f[y] = v}
           B == {y \in S : g[y] = v}
<1>1. IsFiniteSet(A) /\ IsFiniteSet(B)
  BY FS_Subset
<1>2. B \ {x} = A \ {x} /\ (x \in A <=> f[x] = v) /\ (x \in B <=> g[x] = v)
  BY DEF SameBut
<1>3. Cardinality(A) \in Nat /\ Cardinality(B) \in Nat
  BY <1>1, FS_CardinalityType
<1> HIDE DEF A, B
<1>4. Cardinality(A \ {x}) = IF x \in A THEN Cardinality(A) - 1 ELSE Cardinality(A)
  BY <1>1, FS_RemoveElement
<1>5. Cardinality(B \ {x}) = IF x \in B THEN Cardinality(B) - 1 ELSE Cardinality(B)
  BY <1>1, FS_RemoveElement
<1>a. Cardinality(B \ {x}) = Cardinality(A \ {x})
  BY <1>2
<1>b. /\ x \in A => Cardinality(A \ {x}) = Cardinality(A) - 1
      /\ x \notin A => Cardinality(A \ {x}) = Cardinality(A)
      /\ x \in B => Cardinality(B \ {x}) = Cardinality(B) - 1
      /\ x \notin B => Cardinality(B \ {x}) = Cardinality(B)
  BY <1>4, <1>5
<1>c. (x \in A <=> f[x] = v) /\ (x \in B <=> g[x] = v)
  BY <1>2
<1>6. /\ (g[x] = v <=> f[x] = v) => Cardinality(B) = Cardinality(A)
      /\ g[x] = v /\ f[x] # v => Cardinality(B) = Cardinality(A) + 1
      /\ g[x] # v /\ f[x] = v => Cardinality(B) = Cardinality(A) - 1
  BY <1>3, <1>a, <1>b, <1>c
<1> QED BY <1>6 DEF NumAt, A, B, DiffersBy

-----------------------------------------------------------------------------
LEMMA CountModPositive == CountMod \in Nat /\ CountMod > 0
<1>1. Cardinality(Clients) \in Nat /\ Cardinality(Handles) \in Nat
  BY PoolAssumption, FS_CardinalityType
<1> QED BY <1>1, PoolAssumption

LEMMA InitInv == Init => IInv
<1> SUFFICES ASSUME Init PROVE IInv
  OBVIOUS
<1>1. active_threads = 0 /\ max_threads = 0 /\ 0 \in 0 .. CountMod - 1
  BY CountModPositive DEF Init
<1>2. TypeOK
  BY <1>1, Zenon DEF Init, TypeOK
<1>3. \A x : (x \in Clients => cpc[x] = "idle") /\ (x \in Handles => th[x] = "none")
  BY DEF Init
<1>4. /\ {c \in Clients : cpc[c] = "spawn"} = {} /\ {c \in Clients : cpc[c] = "joined"} = {}
      /\ {h \in Handles : th[h] = "running"} = {} /\ {h \in Handles : th[h] = "finished"} = {}
  BY <1>3
<1>5. Used = 0
  BY <1>4, FS_EmptySet DEF Used, NumAt
<1> QED BY <1>1, <1>2, <1>5 DEF IInv

\* What is counted for one value is not counted for another.
LEMMA NumAtTwo ==
  ASSUME NEW S, IsFiniteSet(S), NEW f, NEW v, NEW w, v # w
  PROVE  NumAt(f, S, v) + NumAt(f, S, w) <= Cardinality(S)
<1> DEFINE A == {x \in S : f[x] = v}
           B == {x \in S : f[x] = w}
<1>1. IsFiniteSet(A) /\ IsFiniteSet(B)
  BY FS_Subset
<1>2. A \cap B = {} /\ A \cup B \subseteq S
  OBVIOUS
<1>3. NumAt(f, S, v) = Cardinality(A) /\ NumAt(f, S, w) = Cardinality(B)
  BY DEF NumAt
<1> HIDE DEF A, B
<1>4. Cardinality(A) \in Nat /\ Cardinality(B) \in Nat
  BY <1>1, FS_CardinalityType
<1>5. Cardinality(A \cup B) = Cardinality(A) + Cardinality(B) - Cardinality(A \cap B)
  BY <1>1, FS_Union
<1>6. Cardinality(A \cap B) = 0
  BY <1>2, FS_EmptySet
<1>7. Cardinality(A \cup B) <= Cardinality(S)
  BY <1>2, FS_Subset
<1> QED BY <1>3, <1>4, <1>5, <1>6, <1>7

\* A client takes up at most one slot and a handle too, so the count of the
\* slots in use does not wrap.
LEMMA SlotsBound ==
  ASSUME NEW f, NEW g
  PROVE  NumAt(f, Clients, "spawn") + NumAt(f, Clients, "joined")
           + NumAt(g, Handles, "running") + NumAt(g, Handles, "finished") < CountMod
<1>1. IsFiniteSet(Clients) /\ IsFiniteSet(Handles)
  BY PoolAssumption
<1>2. /\ NumAt(f, Clients, "spawn") \in Nat /\ NumAt(f, Clients, "joined") \in Nat
      /\ NumAt(g, Handles, "running") \in Nat /\ NumAt(g, Handles, "finished") \in Nat
      /\ Cardinality(Clients) \in Nat /\ Cardinality(Handles) \in Nat
  BY <1>1, NumAtType, FS_CardinalityType
<1>3. NumAt(f, Clients, "spawn") + NumAt(f, Clients, "joined") <= Cardinality(Clients)
  BY <1>1, NumAtTwo
<1>4. NumAt(g, Handles, "running") + NumAt(g, Handles, "finished") <= Cardinality(Handles)
  BY <1>1, NumAtTwo
<1> QED BY <1>2, <1>3, <1>4, PoolAssumption

\* What the unsigned counters do within their range.
LEMMA CountUp ==
  ASSUME NEW n \in Nat, n + 1 < CountMod  PROVE (n + 1) % CountMod = n + 1
BY CountModPositive
LEMMA CountDown ==
  ASSUME NEW n \in Nat, n > 0, n < CountMod  PROVE (n - 1) % CountMod = n - 1
BY CountModPositive
LEMMA CountRange ==
  ASSUME NEW n \in Int  PROVE n % CountMod \in 0 .. CountMod - 1
BY CountModPositive

-----------------------------------------------------------------------------
\* The invariant is inductive whatever limits are set: until a handle is joined
\* once more, each step moves as many slots as it adds to the count.
LEMMA StepInv ==
  ASSUME IInv, [Next]_vars
  PROVE  IInv'
<1> USE CountModPositive
<1> DEFINE nSpawn == NumAt(cpc, Clients, "spawn")
           nJoined == NumAt(cpc, Clients, "joined")
           nRunning == NumAt(th, Handles, "running")
           nFinished == NumAt(th, Handles, "finished")
<1>0. /\ TypeOK /\ (~rejoined => active_threads = Used)
      /\ DOMAIN cpc = Clients /\ DOMAIN th = Handles
      /\ IsFiniteSet(Clients) /\ IsFiniteSet(Handles)
  BY PoolAssumption DEF IInv, TypeOK
<1>f. IsFiniteSet(Clients) /\ IsFiniteSet(Handles)
  BY PoolAssumption
<1>a. /\ nSpawn \in Nat /\ nJoined \in Nat /\ nRunning \in Nat /\ nFinished \in Nat
      /\ Used = nSpawn + nJoined + nRunning + nFinished
      /\ Used' = nSpawn' + nJoined' + nRunning' + nFinished'
  BY <1>0, NumAtType DEF Used
<1>b. ASSUME cpc' = cpc PROVE nSpawn' = nSpawn /\ nJoined' = nJoined
  BY <1>b
<1>c. ASSUME th' = th PROVE nRunning' = nRunning /\ nFinished' = nFinished
  BY <1>c
<1>m. ASSUME NEW c \in Clients,
             \A y \in Clients \ {c} : \A v \in {"spawn", "joined"} : cpc'[y] = v <=> cpc[y] = v
      PROVE  /\ (cpc'[c] = "spawn" <=> cpc[c] = "spawn") => nSpawn' = nSpawn
             /\ cpc'[c] = "spawn" /\ cpc[c] # "spawn" => nSpawn' = nSpawn + 1
             /\ cpc'[c] # "spawn" /\ cpc[c] = "spawn" => nSpawn' = nSpawn - 1
             /\ (cpc'[c] = "joined" <=> cpc[c] = "joined") => nJoined' = nJoined
             /\ cpc'[c] = "joined" /\ cpc[c] # "joined" => nJoined' = nJoined + 1
             /\ cpc'[c] # "joined" /\ cpc[c] = "joined" => nJoined' = nJoined - 1
  <2>1. DiffersBy(cpc, cpc', Clients, c, "spawn")
    <3>1. SameBut(cpc, cpc', Clients, c, "spawn")
      BY <1>m DEF SameBut
    <3> QED BY <1>f, <3>1, NumAtUpdate
  <2>2. DiffersBy(cpc, cpc', Clients, c, "joined")
    <3>1. SameBut(cpc, cpc', Clients, c, "joined")
      BY <1>m DEF SameBut
    <3> QED BY <1>f, <3>1, NumAtUpdate
  <2> QED BY <2>1, <2>2 DEF DiffersBy
<1>n. ASSUME NEW h \in Handles,
             \A y \in Handles \ {h} : \A v \in {"running", "finished"} : th'[y] = v <=> th[y] = v
      PROVE  /\ (th'[h] = "running" <=> th[h] = "running") => nRunning' = nRunning
             /\ th'[h] = "running" /\ th[h] # "running" => nRunning' = nRunning + 1
             /\ th'[h] # "running" /\ th[h] = "running" => nRunning' = nRunning - 1
             /\ (th'[h] = "finished" <=> th[h] = "finished") => nFinished' = nFinished
             /\ th'[h] = "finished" /\ th[h] # "finished" => nFinished' = nFinished + 1
             /\ th'[h] # "finished" /\ th[h] = "finished" => nFinished' = nFinished - 1
  <2>1. DiffersBy(th, th', Handles, h, "running")
    <3>1. SameBut(th, th', Handles, h, "running")
      BY <1>n DEF SameBut
    <3> QED BY <1>f, <3>1, NumAtUpdate
  <2>2. DiffersBy(th, th', Handles, h, "finished")
    <3>1. SameBut(th, th', Handles, h, "finished")
      BY <1>n DEF SameBut
    <3> QED BY <1>f, <3>1, NumAtUpdate
  <2> QED BY <2>1, <2>2 DEF DiffersBy
<1>u. Used \in Nat /\ Used < CountMod
  BY <1>a, SlotsBound DEF nSpawn, nJoined, nRunning, nFinished
<1>t. Used' < CountMod
  BY <1>a, SlotsBound DEF nSpawn, nJoined, nRunning, nFinished
<1> HIDE DEF nSpawn, nJoined, nRunning, nFinished
<1>1. CASE UNCHANGED vars
  BY <1>0, <1>1, <1>a, <1>b, <1>c DEF vars, historyVars, IInv, TypeOK
<1>2. ASSUME NEW n \in MaxSettings, SetMaxThreads(n) PROVE IInv'
  <2>1. TypeOK'
    BY <1>0, <1>2, PoolAssumption DEF SetMaxThreads, historyVars, TypeOK
  <2> QED BY <1>0, <1>2, <1>a, <1>b, <1>c, <2>1 DEF SetMaxThreads, historyVars, IInv
<1>3. ASSUME NEW c \in Clients, StartWait(c) PROVE IInv'
  <2>1. TypeOK'
    BY <1>0, <1>3 DEF StartWait, historyVars, TypeOK
  <2>2. nSpawn' = nSpawn /\ nJoined' = nJoined
    BY <1>0, <1>3, <1>a, <1>m DEF StartWait, Starting
  <2> QED BY <1>0, <1>3, <1>a, <1>c, <2>1, <2>2 DEF StartWait, historyVars, IInv
<1>4. ASSUME NEW c \in Clients, StartSlot(c) PROVE IInv'
  <2>1. active_threads' \in 0 .. CountMod - 1
    BY <1>0, <1>4, CountRange DEF StartSlot, TypeOK
  <2>2. TypeOK'
    BY <1>0, <1>4, <2>1 DEF StartSlot, historyVars, TypeOK
  <2>3. nSpawn' = nSpawn + 1 /\ nJoined' = nJoined
    BY <1>0, <1>4, <1>a, <1>m DEF StartSlot, Starting
  <2>4. nRunning' = nRunning /\ nFinished' = nFinished
    BY <1>4, <1>c DEF StartSlot
  <2>5. Used' = Used + 1 /\ Used' < CountMod
    BY <1>a, <1>t, <2>3, <2>4
  <2>6. (Used + 1) % CountMod = Used + 1
    BY <1>u, <2>5, CountUp
  <2> QED BY <1>0, <1>4, <2>2, <2>5, <2>6 DEF StartSlot, historyVars, IInv
<1>5. ASSUME NEW c \in Clients, SpawnOk(c) PROVE IInv'
  <2>0. PICK h \in Handles : /\ th[h] = "none" /\ th' = [th EXCEPT ![h] = "running"]
                             /\ own' = [own EXCEPT ![h] = c]
    BY <1>5 DEF SpawnOk
  <2>1. TypeOK'
    BY <1>0, <1>5, <2>0 DEF SpawnOk, historyVars, TypeOK
  <2>2. nSpawn' = nSpawn - 1 /\ nJoined' = nJoined
    BY <1>0, <1>5, <1>a, <1>m DEF SpawnOk
  <2>3. nRunning' = nRunning + 1 /\ nFinished' = nFinished
    BY <1>0, <1>a, <1>n, <2>0
  <2> QED BY <1>0, <1>5, <1>a, <2>1, <2>2, <2>3 DEF SpawnOk, historyVars, IInv
<1>6. ASSUME NEW c \in Clients, SpawnFail(c) PROVE IInv'
  <2>1. nSpawn > 0
    BY <1>0, <1>6, NumAtType DEF SpawnFail, nSpawn
  <2>2. active_threads' \in 0 .. CountMod - 1
    BY <1>0, <1>6, CountRange DEF SpawnFail, TypeOK
  <2>3. TypeOK'
    BY <1>0, <1>6, <2>2 DEF SpawnFail, historyVars, TypeOK
  <2>4. nSpawn' = nSpawn - 1 /\ nJoined' = nJoined
    BY <1>0, <1>6, <1>a, <1>m DEF SpawnFail
  <2>5. nRunning' = nRunning /\ nFinished' = nFinished
    BY <1>6, <1>c DEF SpawnFail
  <2>6. Used' = Used - 1 /\ Used > 0
    BY <1>a, <2>1, <2>4, <2>5
  <2>7. (Used - 1) % CountMod = Used - 1
    BY <1>u, <2>6, CountDown
  <2> QED BY <1>0, <1>6, <2>3, <2>6, <2>7 DEF SpawnFail, historyVars, IInv
<1>7. ASSUME NEW c \in Clients, JoinDone(c) PROVE IInv'
  <2>1. nJoined > 0
    BY <1>0, <1>7, NumAtType DEF JoinDone, nJoined
  <2>2. active_threads' \in 0 .. CountMod - 1
    BY <1>0, <1>7, CountRange DEF JoinDone, TypeOK
  <2>3. TypeOK' /\ nSpawn' = nSpawn /\ nJoined' = nJoined - 1
    <3>1. CASE cpc' = [cpc EXCEPT ![c] = "idle"]
      <4>1. TypeOK'
        BY <1>0, <1>7, <2>2, <3>1 DEF JoinDone, historyVars, TypeOK
      <4>2. nSpawn' = nSpawn /\ nJoined' = nJoined - 1
        BY <1>0, <1>7, <1>a, <3>1, <1>m DEF JoinDone
      <4> QED BY <4>1, <4>2
    <3>2. ASSUME NEW d \in Clients, cpc[d] = "asleep",
                 cpc' = [[cpc EXCEPT ![c] = "idle"] EXCEPT ![d] = "woken"]
          PROVE  TypeOK' /\ nSpawn' = nSpawn /\ nJoined' = nJoined - 1
      <4>1. TypeOK'
        BY <1>0, <1>7, <2>2, <3>2 DEF JoinDone, historyVars, TypeOK
      <4>2. nSpawn' = nSpawn /\ nJoined' = nJoined - 1
        <5>1. cpc[c] = "joined" /\ c # d
          BY <1>7, <3>2 DEF JoinDone
        <5>2. /\ \A y \in Clients \ {c} : \A v \in {"spawn", "joined"} : cpc'[y] = v <=> cpc[y] = v
              /\ cpc'[c] = "idle"
          BY <1>0, <3>2, <5>1
        <5> QED BY <1>m, <5>1, <5>2
      <4> QED BY <4>1, <4>2
    <3> QED BY <1>7, <3>1, <3>2 DEF JoinDone
  <2>4. nRunning' = nRunning /\ nFinished' = nFinished
    BY <1>7, <1>c DEF JoinDone
  <2>5. Used' = Used - 1 /\ Used > 0
    BY <1>a, <2>1, <2>3, <2>4
  <2>6. (Used - 1) % CountMod = Used - 1
    BY <1>u, <2>5, CountDown
  <2> QED BY <1>0, <1>7, <2>3, <2>5, <2>6 DEF JoinDone, historyVars, IInv
<1>8. ASSUME NEW c \in Clients, SpuriousWakeup(c) PROVE IInv'
  <2>1. TypeOK'
    BY <1>0, <1>8 DEF SpuriousWakeup, historyVars, TypeOK
  <2>2. nSpawn' = nSpawn /\ nJoined' = nJoined
    BY <1>0, <1>8, <1>a, <1>m DEF SpuriousWakeup
  <2> QED BY <1>0, <1>8, <1>a, <1>c, <2>1, <2>2 DEF SpuriousWakeup, historyVars, IInv
<1>9. ASSUME NEW c \in Clients, NEW h \in Handles, NativeJoined(c, h) PROVE IInv'
  <2>1. TypeOK'
    BY <1>0, <1>9 DEF NativeJoined, TypeOK
  <2>2. nSpawn' = nSpawn /\ nJoined' = nJoined + 1
    BY <1>0, <1>9, <1>a, <1>m DEF NativeJoined
  <2>3. ~rejoined' => ~rejoined /\ th[h] = "finished"
    BY <1>0, <1>9 DEF NativeJoined, TypeOK
  <2>4. th[h] = "finished" => nRunning' = nRunning /\ nFinished' = nFinished - 1
    BY <1>0, <1>9, <1>a, <1>n DEF NativeJoined
  <2> QED BY <1>0, <1>9, <1>a, <2>1, <2>2, <2>3, <2>4 DEF NativeJoined, IInv
<1>10. ASSUME NEW h \in Handles, ThreadFinish(h) PROVE IInv'
  <2>1. TypeOK'
    BY <1>0, <1>10 DEF ThreadFinish, historyVars, TypeOK
  <2>2. nRunning' = nRunning - 1 /\ nFinished' = nFinished + 1
    BY <1>0, <1>10, <1>a, <1>n DEF ThreadFinish
  <2> QED BY <1>0, <1>10, <1>a, <1>b, <2>1, <2>2 DEF ThreadFinish, historyVars, IInv
<1>11. ASSUME NEW h \in Handles, Clean(h) PROVE IInv'
  <2>1. TypeOK'
    BY <1>0, <1>11 DEF Clean, historyVars, TypeOK
  <2>2. nRunning' = nRunning /\ nFinished' = nFinished
    BY <1>0, <1>11, <1>a, <1>n DEF Clean
  <2> QED BY <1>0, <1>11, <1>a, <1>b, <2>1, <2>2 DEF Clean, historyVars, IInv
<1> QED
  BY <1>1, <1>2, <1>3, <1>4, <1>5, <1>6, <1>7, <1>8, <1>9, <1>10, <1>11
     DEF Next, ClientStep

\* Only StartSlot takes a client to "spawn".  The slots it finds in use are at
\* least the threads running or being spawned, and if it finds no more of them
\* than the limit, the difference it tests is that of the numbers.
LEMMA StepLimit ==
  ASSUME IInv, [Next]_vars, NEW c \in Clients, cpc[c] # "spawn", cpc'[c] = "spawn"
  PROVE  Running < max_threads \/ InUse > max_threads \/ rejoined
<1> SUFFICES ASSUME ~rejoined, ~(InUse > max_threads) PROVE Running < max_threads
  OBVIOUS
<1>0. TypeOK /\ active_threads = Used /\ IsFiniteSet(Clients) /\ IsFiniteSet(Handles)
  BY PoolAssumption DEF IInv
<1>1. StartSlot(c)
  <2>1. ASSUME NEW d \in Clients, ClientStep(d) PROVE StartSlot(c)
    BY <1>0, <2>1 DEF ClientStep, StartWait, StartSlot, SpawnOk, SpawnFail, JoinDone,
                      SpuriousWakeup, NativeJoined, TypeOK
  <2>2. ~UNCHANGED cpc
    OBVIOUS
  <2> QED BY <2>1, <2>2 DEF Next, SetMaxThreads, ThreadFinish, Clean, vars
<1>2. /\ NumAt(cpc, Clients, "spawn") \in Nat /\ NumAt(cpc, Clients, "joined") \in Nat
      /\ NumAt(th, Handles, "running") \in Nat /\ NumAt(th, Handles, "finished") \in Nat
  BY <1>0, NumAtType
<1>3. /\ Running = NumAt(cpc, Clients, "spawn") + NumAt(th, Handles, "running")
      /\ InUse = Running + NumAt(cpc, Clients, "joined") + NumAt(th, Handles, "finished")
  BY DEF Running, InUse, ClientsAt, HandlesAt, NumAt
<1>4. active_threads = InUse /\ active_threads <= max_threads /\ Running <= InUse
  BY <1>0, <1>2, <1>3 DEF Used, TypeOK
<1>5. active_threads # max_threads
  BY <1>0, <1>1, CountModPositive DEF StartSlot, Avail, TypeOK
<1> QED BY <1>0, <1>2, <1>3, <1>4, <1>5 DEF TypeOK

\* Whatever limits OSSL_set_max_threads sets and whoever joins what handle,
\* ossl_crypto_thread_start takes a slot while max_threads or more threads are
\* running or being spawned only when the limit was set below the slots in use,
\* or some handle has been joined once more (H12 of the hazards, README).
THEOREM PoolKeepsLimit == Spec => LimitKept
<1>1. IInv /\ [Next]_vars => IInv'
  BY StepInv
<1>2. IInv /\ [Next]_vars =>
        [\A c \in Clients : cpc[c] # "spawn" /\ cpc'[c] = "spawn" =>
           Running < max_threads \/ InUse > max_threads \/ rejoined]_vars
  BY StepLimit
<1> QED BY <1>1, <1>2, InitInv, PTL DEF Spec, LimitKept
=============================================================================
