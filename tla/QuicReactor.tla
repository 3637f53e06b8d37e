----------------------------- MODULE QuicReactor -----------------------------
(***************************************************************************)
(* How threads wait for QUIC (ssl/quic/quic_reactor.c): blocking calls     *)
(* (ossl_quic_reactor_block_until_pred), SSL_poll (ssl/rio/                *)
(* poll_immediate.c with the wait context of quic_reactor_wait_ctx.c),     *)
(* calls that only tick, and the assist thread (quic_thread_assist.c).     *)
(*                                                                         *)
(* A reactor belongs to a QUIC domain whose mutex protects everything but  *)
(* the wait in the operating system's poll.  A thread that ticks and finds *)
(* that something happened makes the notifier readable and waits until     *)
(* every thread in a blocking section has left it; the last one out makes  *)
(* it unreadable and wakes the others.                                     *)
(*                                                                         *)
(* A mutex is an owner; the steps of a thread are those between two points *)
(* where it takes or gives up a mutex, a tick being a step of its own.     *)
(***************************************************************************)
EXTENDS Integers, Sequences, FiniteSets

CONSTANTS
  Threads,      \* the application's threads
  Assist,       \* the assist thread of a connection in thread assisted mode
  Objs,         \* SSL objects: listeners, connections, streams
  Reactors,     \* one per QUIC domain
  ReactorOf,    \* the reactor of an object
  AssistObj,    \* the connection that has the assist thread
  BlockObjs,    \* the objects that blocking and ticking calls are made on
  PollLists,    \* the item lists SSL_poll is called with
  Deadlines,    \* the tick deadlines that occur
  Never,        \* ossl_time_infinite()
  MayFail,      \* whether network I/O may fail for good
  MaxEvents,    \* bound: how often something happens on the network
  None          \* no thread

ASSUME ReactorAssumption ==
  /\ IsFiniteSet(Threads) /\ Assist \notin Threads
  /\ None \notin Threads \cup {Assist}
  /\ ReactorOf \in [Objs -> Reactors] /\ AssistObj \in Objs /\ BlockObjs \subseteq Objs
  /\ PollLists \subseteq Seq(Objs) \ {<<>>}
  /\ Deadlines \subseteq Nat /\ Never \in Nat /\ \A d \in Deadlines : d <= Never
  /\ MayFail \in BOOLEAN /\ MaxEvents \in Nat

All == Threads \cup {Assist}

VARIABLES       \* QUIC_REACTOR, one per domain
  cur_blocking_waiters,
  signalled_notifier,   \* the notifier is readable exactly when this is set
  notifier_cv,          \* the threads asleep on it
  mutex,                \* who holds the domain's mutex
  tick_deadline
rtorVars == <<cur_blocking_waiters, signalled_notifier, notifier_cv, mutex, tick_deadline>>

VARIABLES       \* the world
  net,                  \* domains for which datagrams are waiting
  failed,               \* domains whose port has failed
  ready,                \* objects for which what callers wait for is the case
  events                \* how many times something happened so far
worldVars == <<net, failed, ready, events>>

VARIABLES       \* history
  leaked,               \* domains with a blocking section that was entered and
                        \*   will never be left
  silent                \* objects that became ready at a tick that notified
                        \*   nobody, until they are used up or the domain's
                        \*   next tick that notifies
history == <<leaked, silent>>

VARIABLES       \* the threads
  at,                   \* where a thread is
  call,                 \* the call it executes
  slots                 \* SSL_poll's QUIC_REACTOR_WAIT_CTX
threadVars == <<at, call, slots>>

VARIABLES       \* QUIC_THREAD_ASSIST
  teardown, joined,
  woken,                \* the assist thread was signalled in its wait
  wait_deadline         \* the deadline it waits for
assistVars == <<teardown, joined, woken, wait_deadline>>

vars == <<rtorVars, worldVars, history, threadVars, assistVars>>

(***************************************************************************)
(* A call: its kind, the objects it is about, the one it is at, how many   *)
(* of them are in a blocking section, whether it ticks, what it found,     *)
(* whether polling went well, and where it goes on after a sleep on        *)
(* notifier_cv.                                                            *)
(***************************************************************************)
Call(kind, list, tick) ==
  [kind |-> kind, list |-> list, i |-> 1, n |-> 0, tick |-> tick,
   found |-> FALSE, ok |-> TRUE, then |-> "none"]
NoCall == Call("none", <<AssistObj>>, FALSE)

Obj(t) == call[t].list[call[t].i]
Rtor(t) == ReactorOf[Obj(t)]
ObjsOf(r) == {o \in Objs : ReactorOf[o] = r}
ListRange(s) == {s[j] : j \in DOMAIN s}

Init ==
  /\ cur_blocking_waiters = [r \in Reactors |-> 0]
  /\ signalled_notifier = [r \in Reactors |-> FALSE]
  /\ notifier_cv = [r \in Reactors |-> {}]
  /\ mutex = [r \in Reactors |-> None]
  /\ tick_deadline \in [Reactors -> Deadlines]
  /\ net = {} /\ failed = {} /\ ready = {} /\ events = 0
  /\ leaked = {} /\ silent = {}
  /\ at = [t \in All |-> IF t = Assist THEN "start" ELSE "idle"]
  /\ call = [t \in All |-> IF t = Assist THEN Call("assist", <<AssistObj>>, TRUE) ELSE NoCall]
  /\ slots = [t \in Threads |-> [r \in Reactors |-> 0]]
  /\ teardown = FALSE /\ joined = FALSE /\ woken = FALSE /\ wait_deadline = Never

Holds(t) == mutex[Rtor(t)] = t
Lock(t, r) == mutex[r] = None /\ mutex' = [mutex EXCEPT ![r] = t]
LockAndUnlock(r) == mutex[r] = None /\ UNCHANGED mutex
Unlock(r) == mutex' = [mutex EXCEPT ![r] = None]
Goto(t, p) == at' = [at EXCEPT ![t] = p]
Return(t) == Goto(t, "idle") /\ call' = [call EXCEPT ![t] = NoCall]

-----------------------------------------------------------------------------
(* Ticking.                                                                *)

\* ossl_crypto_condvar_wait(notifier_cv) in a loop while the notifier is
\* signalled; then goes on at p.
SleepWhileSignalled(t, p) ==
  /\ notifier_cv' = [notifier_cv EXCEPT ![Rtor(t)] = @ \cup {t}]
  /\ Unlock(Rtor(t)) /\ Goto(t, "asleep")
  /\ call' = [call EXCEPT ![t].then = p]

\* rtor_notify_other_threads: nothing to do without blocking threads, else
\* the notifier is signalled and t waits until they have left.
Notify(t) ==
  \/ /\ cur_blocking_waiters[Rtor(t)] = 0 /\ Goto(t, "ticked")
     /\ UNCHANGED <<signalled_notifier, notifier_cv, mutex, call>>
  \/ /\ cur_blocking_waiters[Rtor(t)] > 0
     /\ signalled_notifier' = [signalled_notifier EXCEPT ![Rtor(t)] = TRUE]
     /\ SleepWhileSignalled(t, "ticked")

\* What ossl_quic_reactor_tick does with the result of the tick callback, by
\* which the objects in S became ready.
TickResult(t, S, notify, deadlines) ==
  /\ ready' = ready \cup S
  /\ silent' = IF notify THEN silent \ ObjsOf(Rtor(t)) ELSE silent \cup (S \ ready)
  /\ \E d \in deadlines : tick_deadline' = [tick_deadline EXCEPT ![Rtor(t)] = d]
  /\ IF notify THEN Notify(t)
     ELSE Goto(t, "ticked") /\ UNCHANGED <<signalled_notifier, notifier_cv, mutex, call>>
  /\ UNCHANGED <<cur_blocking_waiters, leaked, slots, assistVars>>

\* A tick that handles packets.  Any objects may become ready by it.
TickWork(t) ==
  /\ at[t] = "tick" /\ Holds(t) /\ Rtor(t) \notin failed
  /\ Rtor(t) \in net
  /\ net' = net \ {Rtor(t)} /\ UNCHANGED <<failed, events>>
  /\ \E S \in SUBSET ObjsOf(Rtor(t)) : TickResult(t, S, TRUE, Deadlines)

\* A tick at which a timer runs out that ends a connection, the handshake
\* layer fails, or datagrams cannot be sent yet.
TickTimer(t) ==
  /\ at[t] = "tick" /\ Holds(t) /\ Rtor(t) \notin failed
  /\ Rtor(t) \notin net
  /\ events < MaxEvents /\ events' = events + 1 /\ UNCHANGED <<net, failed>>
  /\ \E S \in SUBSET ObjsOf(Rtor(t)) : TickResult(t, S, TRUE, Deadlines)

\* A tick at which no channel handles a packet and which yet ends connections:
\* a datagram is a stateless reset, which the demultiplexer's handler consumes,
\* or reaches the limit of forged packets, or the packetiser fails.  No channel
\* asks for a notification.
TickSilent(t) ==
  /\ at[t] = "tick" /\ Holds(t) /\ Rtor(t) \notin failed
  /\ \/ Rtor(t) \in net /\ net' = net \ {Rtor(t)} /\ UNCHANGED events
     \/ Rtor(t) \notin net /\ UNCHANGED net /\ events < MaxEvents /\ events' = events + 1
  /\ UNCHANGED failed
  /\ \E S \in SUBSET ObjsOf(Rtor(t)) : TickResult(t, S, FALSE, Deadlines)

\* A tick that finds nothing to do, or a failed port.
TickNothing(t) ==
  /\ at[t] = "tick" /\ Holds(t)
  /\ Rtor(t) \notin net \/ Rtor(t) \in failed
  /\ UNCHANGED <<net, failed, events>>
  /\ TickResult(t, {}, FALSE, IF Rtor(t) \in failed THEN {Never} ELSE Deadlines)

\* Reading from the network fails for good: the port fails and all its
\* connections are terminated, before the channels are ticked.
TickFails(t) ==
  /\ at[t] = "tick" /\ Holds(t) /\ MayFail /\ Rtor(t) \notin failed
  /\ failed' = failed \cup {Rtor(t)}
  /\ events < MaxEvents /\ events' = events + 1 /\ UNCHANGED net
  /\ TickResult(t, ObjsOf(Rtor(t)), FALSE, {Never})

\* The end of a sleep on notifier_cv, by a broadcast or spuriously.
SleepEnds(t) ==
  LET r == Rtor(t) IN
  /\ at[t] = "asleep" /\ mutex[r] = None
  /\ IF signalled_notifier[r]
       THEN /\ t \notin notifier_cv[r]
            /\ notifier_cv' = [notifier_cv EXCEPT ![r] = @ \cup {t}]
            /\ UNCHANGED <<mutex, at, call>>
       ELSE /\ notifier_cv' = [notifier_cv EXCEPT ![r] = @ \ {t}]
            /\ mutex' = [mutex EXCEPT ![r] = t]
            /\ Goto(t, call[t].then)
            /\ call' = [call EXCEPT ![t].then = "none"]
  /\ UNCHANGED <<cur_blocking_waiters, signalled_notifier, tick_deadline,
                 worldVars, history, slots, assistVars>>

-----------------------------------------------------------------------------
(* Blocking sections.                                                      *)

\* ossl_quic_reactor_enter_blocking_section
Enter(r) == cur_blocking_waiters' = [cur_blocking_waiters EXCEPT ![r] = @ + 1]

\* Fault: a thread that is not the last one out does not wait for the others.
LeaveSectionOnePhase(t, p) ==
  LET r == Rtor(t)
      last == cur_blocking_waiters[r] = 1 IN
  /\ mutex[r] = None
  /\ cur_blocking_waiters' = [cur_blocking_waiters EXCEPT ![r] = @ - 1]
  /\ IF last THEN /\ signalled_notifier' = [signalled_notifier EXCEPT ![r] = FALSE]
                  /\ notifier_cv' = [notifier_cv EXCEPT ![r] = {}]
             ELSE UNCHANGED <<signalled_notifier, notifier_cv>>
  /\ mutex' = [mutex EXCEPT ![r] = t]
  /\ Goto(t, p) /\ UNCHANGED call

\* ossl_quic_reactor_leave_blocking_section, with the mutex just taken; goes
\* on at p.  The last thread out unsignals the notifier and wakes all who
\* sleep, the others wait for it.
LeaveSection(t, p) ==
  LET r == Rtor(t)
      last == cur_blocking_waiters[r] = 1 IN
  /\ mutex[r] = None
  /\ cur_blocking_waiters' = [cur_blocking_waiters EXCEPT ![r] = @ - 1]
  /\ \/ /\ ~signalled_notifier[r] \/ last
        /\ signalled_notifier' = [signalled_notifier EXCEPT ![r] = FALSE]
        /\ notifier_cv' = [notifier_cv EXCEPT ![r] = IF signalled_notifier[r] THEN {} ELSE @]
        /\ mutex' = [mutex EXCEPT ![r] = t]
        /\ Goto(t, p) /\ UNCHANGED call
     \/ /\ signalled_notifier[r] /\ ~last
        /\ SleepWhileSignalled(t, p) /\ UNCHANGED signalled_notifier

-----------------------------------------------------------------------------
(* Calls that only tick, and blocking calls.                               *)

\* An API call that ticks and returns (SSL_handle_events, a write, a call in
\* nonblocking mode).
CallTick(t, o) ==
  /\ at[t] = "idle" /\ Lock(t, ReactorOf[o])
  /\ Goto(t, "tick") /\ call' = [call EXCEPT ![t] = Call("tick", <<o>>, TRUE)]
  /\ UNCHANGED <<cur_blocking_waiters, signalled_notifier, notifier_cv, tick_deadline,
                 worldVars, history, slots, assistVars>>

\* It returns; it may have used up what was ready.
TickReturns(t) ==
  /\ at[t] = "ticked" /\ Holds(t) /\ call[t].kind = "tick"
  /\ Unlock(Rtor(t)) /\ Return(t)
  /\ ready' \in {ready, ready \ {Obj(t)}} /\ silent' = silent \cap ready'
  /\ UNCHANGED <<cur_blocking_waiters, signalled_notifier, notifier_cv, tick_deadline,
                 net, failed, events, leaked, slots, assistVars>>

\* An API call in blocking mode whose predicate is that o is ready.
CallBlock(t, o) ==
  /\ at[t] = "idle" /\ Lock(t, ReactorOf[o])
  /\ Goto(t, "tick") /\ call' = [call EXCEPT ![t] = Call("block", <<o>>, TRUE)]
  /\ UNCHANGED <<cur_blocking_waiters, signalled_notifier, notifier_cv, tick_deadline,
                 worldVars, history, slots, assistVars>>

\* ossl_quic_reactor_block_until_pred returns: the predicate is met (and used
\* up), or there is nothing to wait for.
BlockReturns(t) ==
  /\ at[t] = "ticked" /\ Holds(t) /\ call[t].kind = "block"
  /\ \/ Obj(t) \in ready
     \/ Rtor(t) \in failed /\ tick_deadline[Rtor(t)] = Never
  /\ ready' = ready \ {Obj(t)} /\ silent' = silent \cap ready'
  /\ Unlock(Rtor(t)) /\ Return(t)
  /\ UNCHANGED <<cur_blocking_waiters, signalled_notifier, notifier_cv, tick_deadline,
                 net, failed, events, leaked, slots, assistVars>>

\* It enters a blocking section and poll_two_fds releases the mutex.
BlockPolls(t) ==
  /\ at[t] = "ticked" /\ Holds(t) /\ call[t].kind = "block"
  /\ Obj(t) \notin ready
  /\ ~(Rtor(t) \in failed /\ tick_deadline[Rtor(t)] = Never)
  /\ Enter(Rtor(t))
  /\ Unlock(Rtor(t)) /\ Goto(t, "ospoll")
  /\ call' = [call EXCEPT ![t].n = 1]
  /\ UNCHANGED <<signalled_notifier, notifier_cv, tick_deadline, worldVars, history, slots, assistVars>>

\* What makes the operating system's poll of t return: a readable notifier or
\* socket of one of its items.
Readable(t) ==
  \E o \in ListRange(call[t].list) :
    signalled_notifier[ReactorOf[o]] \/ ReactorOf[o] \in net

\* Polling ends for such a reason, at the deadline, or with an error.
PollEnds(t) ==
  /\ at[t] = "ospoll"
  /\ Goto(t, "leave")
  /\ \E ok \in BOOLEAN : call' = [call EXCEPT ![t].ok = ok, ![t].i = 1]
  /\ UNCHANGED <<rtorVars, worldVars, history, slots, assistVars>>

\* Fault: an error of poll ends the call at once.
BlockLeavesUnlessError(t) ==
  /\ at[t] = "leave" /\ call[t].kind = "block"
  /\ IF call[t].ok THEN LeaveSection(t, "left")
     ELSE /\ Lock(t, Rtor(t)) /\ Goto(t, "left")
          /\ UNCHANGED <<cur_blocking_waiters, signalled_notifier, notifier_cv, call>>
  /\ UNCHANGED <<tick_deadline, worldVars, history, slots, assistVars>>

\* poll_two_fds takes the mutex again and the blocking section is left.
BlockLeaves(t) ==
  /\ at[t] = "leave" /\ call[t].kind = "block"
  /\ LeaveSection(t, "left")
  /\ UNCHANGED <<tick_deadline, worldVars, history, slots, assistVars>>

\* Fault: the mutex is kept when the call fails.
BlockLeftLocked(t) ==
  /\ at[t] = "left" /\ Holds(t) /\ call[t].kind = "block"
  /\ IF call[t].ok
       THEN Goto(t, "tick") /\ call' = [call EXCEPT ![t].n = 0]
       ELSE Return(t)
  /\ UNCHANGED <<cur_blocking_waiters, signalled_notifier, notifier_cv, mutex, tick_deadline,
                 worldVars, history, slots, assistVars>>

\* Once more round, or 0 is returned because polling failed.
BlockLeft(t) ==
  /\ at[t] = "left" /\ Holds(t) /\ call[t].kind = "block"
  /\ IF call[t].ok
       THEN Goto(t, "tick") /\ call' = [call EXCEPT ![t].n = 0] /\ UNCHANGED mutex
       ELSE Return(t) /\ Unlock(Rtor(t))
  /\ UNCHANGED <<cur_blocking_waiters, signalled_notifier, notifier_cv, tick_deadline,
                 worldVars, history, slots, assistVars>>

-----------------------------------------------------------------------------
(* SSL_poll.                                                               *)

\* SSL_poll; without SSL_POLL_FLAG_NO_HANDLE_EVENTS the first readout ticks.
\* (Bound: no polling in a domain that has leaked, where each call could leak
\* once more; a build with assertions has stopped by then.)
CallPoll(t, list, tick) ==
  /\ at[t] = "idle"
  /\ \A o \in ListRange(list) : ReactorOf[o] \notin leaked
  /\ Goto(t, "readout") /\ call' = [call EXCEPT ![t] = Call("poll", list, tick)]
  /\ UNCHANGED <<rtorVars, worldVars, history, slots, assistVars>>

\* ossl_quic_conn_poll_events takes the mutex for one item of poll_readout.
Readout(t) ==
  /\ at[t] = "readout" /\ Lock(t, Rtor(t))
  /\ Goto(t, IF call[t].tick THEN "tick" ELSE "ticked")
  /\ UNCHANGED <<cur_blocking_waiters, signalled_notifier, notifier_cv, tick_deadline,
                 worldVars, history, call, slots, assistVars>>

\* The item is read out; after the last one SSL_poll returns if something is
\* ready or its time is up, and otherwise starts to block.
ReadoutDone(t) ==
  LET c == call[t]
      found == c.found \/ Obj(t) \in ready IN
  /\ at[t] = "ticked" /\ Holds(t) /\ c.kind = "poll"
  /\ Unlock(Rtor(t))
  /\ \/ /\ c.i < Len(c.list)
        /\ Goto(t, "readout")
        /\ call' = [call EXCEPT ![t].i = c.i + 1, ![t].found = found]
     \/ c.i = Len(c.list) /\ Return(t)
     \/ /\ c.i = Len(c.list) /\ ~found
        /\ Goto(t, "translate")
        /\ call' = [call EXCEPT ![t].i = 1, ![t].tick = TRUE]
  /\ UNCHANGED <<cur_blocking_waiters, signalled_notifier, notifier_cv, tick_deadline,
                 worldVars, history, slots, assistVars>>

\* poll_translate_ssl_quic enters the blocking section of the item's reactor
\* (ossl_quic_reactor_wait_ctx_enter: once per thread and reactor).
Translate(t) ==
  LET r == Rtor(t) IN
  /\ at[t] = "translate" /\ LockAndUnlock(r)
  /\ slots' = [slots EXCEPT ![t][r] = @ + 1]
  /\ IF slots[t][r] = 0 THEN Enter(r) ELSE UNCHANGED cur_blocking_waiters
  /\ Goto(t, "entered") /\ call' = [call EXCEPT ![t].n = call[t].i]
  /\ UNCHANGED <<signalled_notifier, notifier_cv, tick_deadline, worldVars, history, assistVars>>

\* Translating an item fails (no socket to poll, no memory, no timeout): the
\* sections of the items before it are left.
TranslateFails(t) ==
  /\ at[t] = "translate"
  /\ IF call[t].n = 0 THEN Return(t)
     ELSE Goto(t, "leave") /\ call' = [call EXCEPT ![t].i = 1, ![t].ok = FALSE]
  /\ UNCHANGED <<rtorVars, worldVars, history, slots, assistVars>>

\* Fault: no second look at the item.
RereadNothing(t) ==
  LET c == call[t] IN
  /\ at[t] = "entered" /\ LockAndUnlock(Rtor(t))
  /\ IF c.i < Len(c.list)
       THEN Goto(t, "translate") /\ call' = [call EXCEPT ![t].i = c.i + 1]
       ELSE Goto(t, "ospoll") /\ UNCHANGED call
  /\ UNCHANGED <<cur_blocking_waiters, signalled_notifier, notifier_cv, tick_deadline,
                 worldVars, history, slots, assistVars>>

\* The item is read out again without a tick; if it became ready meanwhile,
\* blocking is aborted, else the next item or the wait itself follows.
Reread(t) ==
  LET c == call[t] IN
  /\ at[t] = "entered" /\ LockAndUnlock(Rtor(t))
  /\ \/ Obj(t) \in ready /\ Goto(t, "abort") /\ UNCHANGED call
     \/ /\ Obj(t) \notin ready /\ c.i < Len(c.list)
        /\ Goto(t, "translate") /\ call' = [call EXCEPT ![t].i = c.i + 1]
     \/ Obj(t) \notin ready /\ c.i = Len(c.list) /\ Goto(t, "ospoll") /\ UNCHANGED call
  /\ UNCHANGED <<cur_blocking_waiters, signalled_notifier, notifier_cv, tick_deadline,
                 worldVars, history, slots, assistVars>>

\* ossl_quic_reactor_wait_ctx_leave with the mutex taken; goes on at p.
WaitCtxLeave(t, p) ==
  LET r == Rtor(t) IN
  /\ slots' = [slots EXCEPT ![t][r] = @ - 1]
  /\ \/ slots[t][r] = 1 /\ LeaveSection(t, p)
     \/ /\ slots[t][r] > 1 /\ Lock(t, r) /\ Goto(t, p)
        /\ UNCHANGED <<cur_blocking_waiters, signalled_notifier, notifier_cv, call>>
  /\ UNCHANGED <<tick_deadline, worldVars, history, assistVars>>

\* The section of the item that turned out ready is left.
AbortLeaves(t) == at[t] = "abort" /\ WaitCtxLeave(t, "aborted")

\* poll_block gives up and SSL_poll returns 0.  The slots are freed, also those
\* of items before this one, whose sections nobody leaves.
Aborted(t) ==
  /\ at[t] = "aborted" /\ Holds(t)
  /\ Unlock(Rtor(t)) /\ Return(t)
  /\ slots' = [slots EXCEPT ![t] = [r \in Reactors |-> 0]]
  /\ leaked' = leaked \cup {r \in Reactors : slots[t][r] > 0}
  /\ UNCHANGED <<cur_blocking_waiters, signalled_notifier, notifier_cv, tick_deadline,
                 worldVars, silent, assistVars>>

\* postpoll_translation_cleanup, one item.
PollLeaves(t) == at[t] = "leave" /\ call[t].kind = "poll" /\ WaitCtxLeave(t, "left")

\* The next item, or another readout, or 0 is returned after a failure.
PollLeft(t) ==
  LET c == call[t] IN
  /\ at[t] = "left" /\ Holds(t) /\ c.kind = "poll"
  /\ Unlock(Rtor(t))
  /\ \/ c.i < c.n /\ Goto(t, "leave") /\ call' = [call EXCEPT ![t].i = c.i + 1]
     \/ c.i = c.n /\ c.ok /\ Goto(t, "readout") /\ call' = [call EXCEPT ![t] = Call("poll", c.list, TRUE)]
     \/ c.i = c.n /\ ~c.ok /\ Return(t)
  /\ UNCHANGED <<cur_blocking_waiters, signalled_notifier, notifier_cv, tick_deadline,
                 worldVars, history, slots, assistVars>>

-----------------------------------------------------------------------------
(* The assist thread.                                                      *)

AssistStart ==
  /\ at[Assist] = "start" /\ Lock(Assist, Rtor(Assist)) /\ Goto(Assist, "ticked")
  /\ UNCHANGED <<cur_blocking_waiters, signalled_notifier, notifier_cv, tick_deadline,
                 worldVars, history, call, slots, assistVars>>

\* Fault: teardown is not looked at before the wait.
AssistLoopUnchecked ==
  /\ at[Assist] = "ticked" /\ Holds(Assist)
  /\ Unlock(Rtor(Assist))
  /\ Goto(Assist, "timedwait")
  /\ wait_deadline' = tick_deadline[Rtor(Assist)] /\ UNCHANGED <<teardown, joined, woken>>
  /\ UNCHANGED <<cur_blocking_waiters, signalled_notifier, notifier_cv, tick_deadline,
                 worldVars, history, call, slots>>

\* The head of the loop in assist_thread_main: stop, or wait for the deadline
\* the reactor has now.
AssistLoop ==
  /\ at[Assist] = "ticked" /\ Holds(Assist)
  /\ Unlock(Rtor(Assist))
  /\ Goto(Assist, IF teardown THEN "stopped" ELSE "timedwait")
  /\ wait_deadline' = tick_deadline[Rtor(Assist)] /\ UNCHANGED <<teardown, joined, woken>>
  /\ UNCHANGED <<cur_blocking_waiters, signalled_notifier, notifier_cv, tick_deadline,
                 worldVars, history, call, slots>>

\* The wait ends: signalled, at the deadline, or spuriously.
AssistWakes ==
  LET r == Rtor(Assist) IN
  /\ at[Assist] = "timedwait" /\ mutex[r] = None
  /\ IF teardown THEN Goto(Assist, "stopped") /\ UNCHANGED mutex
                 ELSE Goto(Assist, "tick") /\ Lock(Assist, r)
  /\ woken' = FALSE
  /\ UNCHANGED <<cur_blocking_waiters, signalled_notifier, notifier_cv, tick_deadline,
                 worldVars, history, call, slots, teardown, joined, wait_deadline>>

\* ossl_quic_free of the connection: ossl_quic_thread_assist_wait_stopped asks
\* the assist thread to stop and joins it without the mutex.  Nobody else
\* uses the connection then.
StopAssist(t) ==
  /\ at[t] = "idle" /\ ~teardown /\ LockAndUnlock(Rtor(Assist))
  /\ \A u \in Threads : at[u] # "idle" => AssistObj \notin ListRange(call[u].list)
  /\ teardown' = TRUE /\ woken' = (at[Assist] = "timedwait")
  /\ Goto(t, "joining")
  /\ UNCHANGED <<cur_blocking_waiters, signalled_notifier, notifier_cv, tick_deadline,
                 worldVars, history, call, slots, joined, wait_deadline>>

Joined(t) ==
  /\ at[t] = "joining" /\ at[Assist] = "stopped" /\ LockAndUnlock(Rtor(Assist))
  /\ joined' = TRUE
  /\ Goto(t, "idle")
  /\ UNCHANGED <<cur_blocking_waiters, signalled_notifier, notifier_cv, tick_deadline,
                 worldVars, history, call, slots, teardown, woken, wait_deadline>>

-----------------------------------------------------------------------------
\* A datagram arrives from the network.
Arrive(r) ==
  /\ r \notin net \cup failed /\ events < MaxEvents
  /\ net' = net \cup {r} /\ events' = events + 1
  /\ UNCHANGED <<rtorVars, failed, ready, history, threadVars, assistVars>>

\* Objects the application may still use.
Usable == IF teardown THEN Objs \ {AssistObj} ELSE Objs

\* What a thread does without being asked or hindered.
Progress(t) ==
  \/ TickWork(t) \/ TickNothing(t)
  \/ t \notin notifier_cv[Rtor(t)] /\ SleepEnds(t)
  \/ TickReturns(t) \/ BlockReturns(t) \/ BlockPolls(t)
  \/ Readable(t) /\ PollEnds(t)
  \/ BlockLeaves(t) \/ BlockLeft(t)
  \/ Readout(t) \/ ReadoutDone(t) \/ Translate(t) \/ Reread(t)
  \/ AbortLeaves(t) \/ Aborted(t) \/ PollLeaves(t) \/ PollLeft(t)
  \/ Joined(t)

AssistProgress ==
  \/ TickWork(Assist) \/ TickNothing(Assist)
  \/ Assist \notin notifier_cv[Rtor(Assist)] /\ SleepEnds(Assist)
  \/ AssistStart \/ AssistLoop
  \/ woken /\ AssistWakes

Next ==
  \/ \E t \in Threads :
       \/ \E o \in BlockObjs \cap Usable : CallTick(t, o) \/ CallBlock(t, o)
       \/ \E l \in PollLists, b \in BOOLEAN : ListRange(l) \subseteq Usable /\ CallPoll(t, l, b)
       \/ StopAssist(t)
       \/ Progress(t)
       \/ TickTimer(t) \/ TickSilent(t) \/ TickFails(t)
       \/ PollEnds(t) \/ TranslateFails(t)
  \/ AssistProgress \/ AssistWakes \/ TickTimer(Assist) \/ TickSilent(Assist) \/ TickFails(Assist)
  \/ \E r \in Reactors : Arrive(r)

Spec == Init /\ [][Next]_vars

\* When a thread can make progress: it holds the mutex, or waits for nothing
\* but the mutex, and that is free.
CanProgress(t) ==
  \/ at[t] \in {"tick", "ticked", "left", "aborted"}
  \/ at[t] = "ospoll" /\ Readable(t)
  \/ /\ mutex[Rtor(t)] = None
     /\ \/ at[t] \in {"leave", "readout", "translate", "entered", "abort", "start"}
        \/ at[t] = "asleep" /\ t \notin notifier_cv[Rtor(t)]
        \/ at[t] = "joining" /\ at[Assist] = "stopped"
        \/ at[t] = "timedwait" /\ woken

\* Threads that can run do, also if the mutex is free only at times.
FairSpec ==
  /\ Spec
  /\ []<>CanProgress(Assist) => []<><<AssistProgress>>_vars
  /\ \A t \in Threads : []<>CanProgress(t) => []<><<Progress(t)>>_vars

-----------------------------------------------------------------------------
(* Properties.                                                             *)

\* The state is well formed: counts of waiters never go below zero and SSL_poll
\* never goes past its list of items.
TypeOK ==
  /\ cur_blocking_waiters \in [Reactors -> Nat]
  /\ signalled_notifier \in [Reactors -> BOOLEAN]
  /\ notifier_cv \in [Reactors -> SUBSET All]
  /\ mutex \in [Reactors -> All \cup {None}]
  /\ tick_deadline \in [Reactors -> Deadlines \cup {Never}]
  /\ net \subseteq Reactors /\ failed \subseteq Reactors /\ ready \subseteq Objs
  /\ leaked \subseteq Reactors /\ silent \subseteq Objs
  /\ events \in 0..MaxEvents
  /\ slots \in [Threads -> [Reactors -> Nat]]
  /\ {teardown, joined, woken} \subseteq BOOLEAN
  /\ \A t \in All : /\ call[t].list \in Seq(Objs)
                    /\ call[t].i \in DOMAIN call[t].list
                    /\ call[t].n \in 0..Len(call[t].list)

\* Where t is or will be after a sleep on notifier_cv.
At(t) == IF at[t] = "asleep" THEN call[t].then ELSE at[t]

\* Whether t is between entering and leaving the blocking section of r.
Blocking(t, r) ==
  \E j \in 1..call[t].n :
    /\ ReactorOf[call[t].list[j]] = r
    /\ \/ At(t) \in {"translate", "entered", "ospoll", "abort"}
       \/ At(t) = "leave" /\ j >= call[t].i
       \/ At(t) = "left" /\ j > call[t].i
       \/ At(t) = "aborted" /\ j < call[t].i

\* cur_blocking_waiters is at all times the number of threads that are
\* blocking on the reactor (quic_reactor.h).
WaitersExact ==
  \A r \in Reactors :
    cur_blocking_waiters[r] = Cardinality({t \in Threads : Blocking(t, r)})

\* SSL_poll calls that give up after their first item apart, whoever ticks
\* waits for as many threads to leave as are blocking on the reactor: every
\* path out of the operating system's poll leaves what was entered, once.
WaitersBalanced ==
  \A r \in Reactors \ leaked :
    cur_blocking_waiters[r] = Cardinality({t \in Threads : Blocking(t, r)})

\* A thread that waits in poll(2) for something that is the case already has a
\* readable descriptor, however its check and its entering the section were
\* interleaved with the tick that made it so.  Set apart is what became the
\* case at a tick that asks for no notification: TickSilent and a failed port.
NoLostWakeup ==
  \A t \in Threads :
    at[t] = "ospoll" /\ ListRange(call[t].list) \cap (ready \ silent) # {} => Readable(t)

\* The same with nothing set apart.
EveryoneWoken ==
  \A t \in Threads :
    at[t] = "ospoll" /\ ListRange(call[t].list) \cap ready # {} => Readable(t)

\* The synchronised wake-up comes to an end for everyone who takes part:
\* ossl_quic_reactor_tick and leave_blocking_section return.
WakeupEnds ==
  \A t \in All : at[t] = "asleep" ~> at[t] # "asleep" \/ leaked # {}

\* A blocking call returns once what it waits for is the case (unless another
\* thread uses that up, or the tick that made it so notified nobody).
BlockerReturns ==
  \A t \in Threads :
    (call[t].kind = "block" /\ Obj(t) \in ready \ silent)
      ~> (call[t].kind # "block" \/ Obj(t) \notin ready \ silent \/ leaked # {})

\* Freeing a connection does not wait for its assist thread for ever, whatever
\* that one is doing when it is asked to stop.
StopReturns == teardown ~> joined \/ leaked # {}

\* The assist thread never sleeps past the reactor's deadline
\* (quic_thread_assist.h: it must be told when the deadline changes).
AssistTimely ==
  at[Assist] = "timedwait" /\ ~woken => wait_deadline <= tick_deadline[Rtor(Assist)]
=============================================================================
