# A verification of concurrency and protocol components of OpenSSL

The repository holds a copy of OpenSSL (3.6 development) under `src/task5/openssl/`, plus a
short README and a scanner workflow.  This directory keeps TLA+ models of those of its
components whose correctness depends on the order in which things happen, TLC runs that check
them on small instances, and TLAPS proofs for every instance.  Paths below are relative to
`src/task5/openssl/`.

## 1. Inventory

| component | state it keeps | operations | what is hard | what makes it correct |
|---|---|---|---|---|
| RCU lock (`crypto/threads_pthread.c`) | ring of quiescence points (qps) with reader counts, `reader_idx`, `current_alloc_idx`, `id_ctr`, `next_to_retire`, `writers_alloced`, callback queue, three mutexes, two condition variables; per thread the qp held and its depth | read lock/unlock, write lock/unlock, dereference, assign, call, synchronize, new, free | readers never block and race with the index; in-order retirement; two condition variables; wrap-around of ring and identifiers | no reader sees freed memory; each callback runs once; synchronize returns |
| Native threads (`crypto/thread/arch.c`, `arch/thread_posix.c`) | state flags, condvar, pthread | start, join, clean | concurrent and repeated joins around a `pthread_join` outside the lock; one signal per event | the pthread is joined once; every join returns |
| Thread pool (`crypto/thread/internal.c`, `api.c`) | `max_threads`, `active_threads`, condvar | set limit, start, join, clean | waiting for slots, failed starts, unsigned arithmetic | limit kept, count exact, waiters served |
| QUIC flow control (`ssl/quic/quic_fc.c`) | per stream and per connection: spent, credit, retired watermarks, window, flags | consume, bump credit, receive frame, retire, window adjustment | reordered, duplicated and lost frames; shared connection credit; regeneration after loss | no false errors, no overrun, no permanent stall |
| QUIC frames in flight (`quic_fifd.c`) | per packet: chunks, flags of regenerated frames | acked, lost, discarded | each frame type has its own recovery rule | what must arrive is sent again |
| QUIC stream map and send buffers (`quic_stream_map.c`, `quic_sstream.c`) | send and receive part states, wants, active list with round robin, accept list, gc list, shutdown flush count; per stream the bytes new and acknowledged, the FIN | write, conclude, reset, stop-sending, acked, lost, gc, shutdown flush | whoever changes what a stream has to send must have it looked at again; buffers freed while packets are in flight | nothing due is forgotten, no byte is lost, streams get their turn, end and are collected |
| QUIC packetiser, frame processing, channel, API (`quic_txp.c`, `quic_rx_depack.c`, `quic_channel.c`, `quic_impl.c`) | wants, connection state, timers | generate, handle, tick, blocking calls | termination, key update, timers | their part in streams, flow control, loss detection and waiting is in those models |
| QUIC loss detection, congestion control (`quic_ackm.c`, `cc_newreno.c`) | per packet number space: packets in flight, largest acknowledged, loss time, received ranges and watermark, ACK flags and deadline; counts, timer, pending probes; congestion window, threshold, recovery start | tx, rx, ACK frame, timeout, space discarded, pseudo-loss | late and partial acknowledgements, spaces that go away under packets in flight, one timer for everything, the same count kept three times | every packet has one fate, counts agree, the timer runs, no packet is processed again, ACKs are generated in time, the window shrinks once per flight |
| QUIC reactor, SSL_poll, thread assist (`quic_reactor.c`, `quic_reactor_wait_ctx.c`, `ssl/rio/poll_immediate.c`, `quic_thread_assist.c`) | notifier and whether it is signalled, count of blocking waiters, condition variable, tick deadline; per poll the sections entered | tick, block, enter, leave, poll, start and stop of the assist thread | waits outside the mutex, a level-triggered notifier shared by all, two-phase wake-up, giving up half-way | no wake-up lost, wake-ups complete, blocked calls return, the assist thread stops |
| Hash table (`crypto/hashtable/hashtable.c`) | neighbourhoods of (hash, value) published by RCU, size, count, need_sync | get, insert, replace, delete, grow, flush | lookups without exclusion during all of these; two stores per entry; deferred frees, which may fail to be queued | lookups are safe and right, nothing leaks if memory suffices, nothing is freed twice |
| Others: async jobs, error queue, provider store, session cache, TLS state machine | | | | later candidates |
| Cryptography, ASN.1, X.509, BIO, providers, apps, tests, build | | | large data, no interleaving | not modelled |

How they interact: `hashtable.c` and the library's other RCU users call the RCU lock; Argon2 calls
the thread pool, the pool calls the native threads.  In QUIC the application's read retires bytes
in the stream's and the connection's RXFC, the packetiser turns changed credit into MAX frames,
the dispatcher asks the packetiser to generate frames again when loss detection declares a packet
lost, and the peer's frame processing raises its TXFC.  API calls, frames of the peer, losses and
acknowledgements change a stream in the map; `ossl_quic_stream_map_update_state` then puts it on the
active list or takes it off, and the packetiser visits only that list.  The packetiser asks the ACK
manager for ACK frames, probes and (through it) the congestion controller for its budget, and hands
it every packet sent; frame processing hands it every packet and ACK frame received; its callbacks
are the dispatcher's `on_acked`, `on_lost` and `on_discarded`.  All of this runs in ticks of the
reactor under the QUIC domain's mutex, by application threads and by the assist thread; threads give
the mutex up only while they wait.

## 2. Modules

| module | models | kind |
|---|---|---|
| `GracePeriod` | what `ossl_synchronize_rcu` promises | abstract specification |
| `Rcu` | the RCU lock and its users | component |
| `RcuInv` | the inductive invariant | invariant |
| `RcuProofs` | its proofs | theorems |
| `NativeThread` | one thread handle and its joiners | component |
| `ThreadPool` | the pool and its clients | component |
| `ThreadProofs` | proofs about both | theorems |
| `QuicFlow`, `QuicFlowProofs` | sender, receiver and network | components composed, theorems |
| `QuicStream`, `QuicStreamProofs` | stream map, send buffers, packetiser, dispatcher, frame processing and API of one endpoint's streams | components composed, theorems |
| `QuicAckm`, `QuicAckmProofs` | ACK manager and congestion controller of one endpoint, with the packetiser and channel code that drives them | components composed, theorems |
| `QuicReactor`, `QuicReactorProofs` | reactor, blocking calls, SSL_poll, assist thread | components composed, theorems |
| `HashTable`, `HashTableProofs` | the hash table, on top of `GracePeriod` | component over an abstract specification, theorems |
| `SumTheorems` | sums over finite sets and what changing one term does to them, greatest and least elements, folds over sequences as recursive functions | lemmas |
| `MCRcu`, `MCNativeThread`, `MCThreadPool`, `MCQuicFlow`, `MCQuicStream`, `MCQuicAckm`, `MCQuicReactor`, `MCHashTable` | constants and symmetry sets for TLC | model checking |

Operators whose comment begins with *Fault* are deliberate mistakes of the kind the code could
have; no specification uses them.  They document what each property would catch: replacing the
definition that follows by the fault makes TLC report the property (`mutants` in `PROJECT.json`).

### Rcu

A reader's `get_hold_current_qp` is four steps, one per atomic access: `LoadIdx`, `CountIn`, then
`Hold` or `Missed`, and after `Missed` `CountOut` and round again.  `ReadLockNested`,
`ReadUnlockNested` and `ReadUnlock` are the depth counting of `ossl_rcu_read_lock/unlock`.  A
writer takes the write lock, publishes a new object (`Assign`), hands the old one to `RcuCall` or
keeps it (also the case of a failed allocation), unlocks, and synchronizes: `TakeCallbacks` (under
write_lock), `UpdateQp` or `AllocWait` (under alloc_lock), `PriorEnter` or `PriorWait` (under
prior_lock), `Drained` (count zero, turn passed, broadcast), `RetireQp`, `RunCallback` and
`SyncReturn`.  Any thread may synchronize without having written.  `LockFree` is called when nobody
else uses the lock, as its callers must.  `pthread_cond_wait` may wake spuriously; a signal wakes
any one sleeper.

`snapshot` is a history variable: the readers inside when the synchronize call began that are
still inside.  `GracePeriodSpec` instantiates `GracePeriod` with it.

Memory is sequentially consistent.  The code's accesses are release and acquire; what connects
them is that both sides make an atomic read-modify-write of the same `users` word (line 309 by the
reader, the add of zero at 456 by the writer).  If the reader's comes second it synchronizes with
the writer's and sees the new `reader_idx`; if it comes first the writer's wait sees the count.
That argument is not modelled.

### NativeThread and ThreadPool

In `NativeThread` every stretch of code under `statelock` is a step and `pthread_join` is outside.
`ossl_crypto_thread_native_perform_join` fails in two ways (`JoinFail`): `pthread_join` fails, or it
reaps a thread whose value is not NULL, which is one that was cancelled, and that is reported as a
failure too.  What a second `pthread_join` does is undefined; the model lets it fail or succeed.

`ThreadPool` takes the native join by its promise.  The application sets any limit at any time and
joins any handle again and again.  `InUse` counts the slots that threads really use, and `rejoined`
is a history variable: some handle has been joined once more.

### QuicFlow

One endpoint sends on `Streams`, the other receives; each endpoint's handler of a frame, API call
or packet is one step, because both run under the QUIC mutex.  `SendData` is a packet with new
data of several streams; sent frames stay in `frames`, so they can be received in any order, any
number of times or not yet: that is retransmission, reordering and duplication.  Packets with
credit are in `pkts`; they arrive at most once (packet numbers are checked for duplicates), in any
order, or are declared lost, after which they may still arrive.  `Read` is the read call with
everything it does to both RXFCs; whether a window doubles depends on clock and round-trip time
and is a free choice per controller.  `SendMax` is the packetiser, `PacketLost` the dispatcher's
`on_lost`.  `BackStreams` are streams on which the receiver has a send buffer too: only for those
can a packet have a TXPIM chunk and hence get its MAX_STREAM_DATA frame again.

Left out: streams opened later, STOP_SENDING, stand-alone controllers, packets too small for all
wanted credit frames, data retransmitted with other boundaries, 64-bit overflow (a peer may only
grant up to 2^62).

### QuicStream

One endpoint; the application and a peer that obeys the protocol act at any time, the network loses
what it likes.  `qsm` is the `QUIC_STREAM_MAP` with its streams; the operators on it have the names
of the C functions without their prefix and return the map changed, and an action applies those its
handler calls, in order: `update_state` is part of an action exactly where the code calls it.  A
send buffer is the set of its new and acknowledged bytes; the others are in flight, in the chunks of
`pkts`.  `SendPacket` is the packetiser: streams from `rr_cur` on, each with all its frames, until
the packet is full somewhere (`cuts`), then the bookkeeping of `txp_pkt_commit` in its reversed
order. `Acked` and `Lost` are the dispatcher's callbacks with the packetiser's `on_confirm_notify`
and `on_regen_notify`, in any order of the packet's streams.  What visits several streams is a fold
of the step for one (`update_all`, `commit_all`, `acked_all`, `lost_all`).  `Gc` releases the
streams that the code's loop visits, which are none (section 6).  Received data is abstract: frames
may bring readable bytes or complete the stream, a read may open the window.

`WriteNone` is the write of no bytes that concludes a stream.  It goes by `quic_validate_for_write`
and, since nothing was appended, by `update_state`; so the FIN may be left where nobody looks for
it.  The history flag `missed` marks the streams to which that has happened (`FinMissed`): in READY,
which has no bytes to send, or off the active list with nothing else to send.

`MayReset` is the set of streams that are reset, stopped and freed.

Left out: creation of streams, stream limits, accept queue and rejection; CRYPTO streams; the
send buffer's capacity and the all-or-nothing retry of writes; the concluding write of no bytes on a
stream without a send buffer, which follows a null pointer; `qtx_write_pkt` failing; connection
termination.

### QuicAckm

One endpoint, client or server, with its three packet number spaces.  `ackm`, `cc` and `rx` are the
fields of `OSSL_ACKM` and `OSSL_CC_NEWRENO`; a packet is a record that leaves the history when it is
acknowledged, lost or discarded, and the history variable `told` records which callback was made.
Each handler is one step, since all run under the mutex: `Send` is one packet of
`ossl_quic_tx_packetiser_generate` (archetype, ACK frame, padding of datagrams with an Initial
packet, commit, `ossl_ackm_on_tx_packet`, and the discarding of the Initial space when a client's
first Handshake packet goes out); `GiveUp` is a datagram that is dropped after its ACK frames were
generated, by either end when it cannot be padded, by a server also when its credit with an
unvalidated client is too small.  `Receive` decrypts what has arrived, one packet or two, and hands
the first to `ossl_quic_handle_frames`, `ReceiveNext` the second, whose number was checked before
the first was recorded: `queue` is the list in between, and no other action happens while it is not
empty, as in the loop of `ch_rx`.  `HandleFrames` is that function: a server discards the Initial
space, an ACK frame is processed (losses before acknowledgements, the watermark raised by
acknowledged ACKs, the timer set), then the number is recorded and an ACK perhaps made due.
`OnTimeout` is the loss or the probe timer; `HandshakeConfirmed` and `PseudoLost` (restart after
version negotiation, Retry) are the channel's calls.  Of the history variables `times` counts how
often a packet was processed, `together` has the packets of which two copies were decrypted before
either was processed, `owed` and `unsent` say when the ack-eliciting packets came for which no ACK
frame has been generated, or only one that was given up.  Times are small numbers and every packet
counts one byte.  The round-trip
statistics decide only how long loss detection waits, and each detection chooses that from
`LossDelays`.  `Deadline`, `PtoSpaces` and `LossSpace` are computed as the code does, including that
a later space without a loss time replaces an earlier one's.  `Never` is the infinite time, a
constant beyond every time that is computed (`NeverAssumption`).

Left out: ECN, persistent congestion (`ackm_in_persistent_congestion` is a stub), the discarding of
0-RTT packets, the amplification limit as a count of bytes, packets decrypted three or more at a
time, packets that wait for their keys and keep their old time of arrival, failures of the packetiser
other than `GiveUp`, failed allocations.

### QuicReactor

A thread's call is a record and `at` says where it is; the mutex of a domain is its owner.  A step
is what happens between two points where a thread takes or gives up the mutex.  `TickWork`,
`TickTimer`, `TickSilent`, `TickNothing` and `TickFails` are the outcomes of the tick callback as the
reactor sees them: whether other threads are to be notified, and the new deadline; what becomes
ready by it is a choice.  `TickSilent` is a tick that ends connections and notifies nobody: by a
stateless reset, the limit of forged packets, or a failure of the packetiser.  The history variable
`silent` has the objects that became ready in such a tick, until they are used or the reactor next
notifies.  `Notify`, `SleepWhileSignalled`, `SleepEnds` and `LeaveSection` are the two-phase wake-up.
`CallBlock`, `BlockReturns`, `BlockPolls`, `PollEnds`, `BlockLeaves`, `BlockLeft` are
`ossl_quic_reactor_block_until_pred`; `CallPoll` to `PollLeft` are `SSL_poll`: readout of each item,
then entering each item's section and reading it out again, the wait, and leaving item by item, with
the failures of translation and of the wait.  The assist thread waits for the deadline it read,
ticks and stops.  Spurious wake-ups, timeouts and errors of `poll` may happen at any time and are
never relied on.

Left out: reactors without notifier or mutex (single-threaded use), failure to create a wait slot,
changes of the poll descriptors while threads wait.

### HashTable

The lock is the specification `GracePeriod` that `Rcu` is proved to implement: `ReadLock` is its
`Enter`, the wait in `ossl_synchronize_rcu` its `Begin` and `End`.  A lookup is one step per atomic
load (the table, then for each entry its value and its hash); an insertion stores hash and value in
two steps, a deletion clears them in two; `Grow` and `Flush` prepare a new table and publish it in
one. Allocation takes unused pieces of `Cells` and `Tables`, so freed memory is used again and a
failed allocation is the lack of a piece; so is a growth for which no size suffices (`NoSizeFits`),
as the allocation of ever larger tables fails in the end.  `RcuCall` is `ossl_rcu_call`, which has
memory for the callback or not; its four callers in the table do not ask.  Two history variables:
`may` is what a reader's key was mapped to at any time since its lookup began, `leaked` has the
callbacks that could not be queued.

Left out: `no_rcu` tables, `ossl_ht_foreach_until`, `ossl_ht_filter`, `ossl_ht_free`.  `GrowLen`
chooses the size in one step, where the code tries one after the other and frees each list that is
too small (by another pointer than it was allocated with, `hashtable.c:510`).  In lockless mode
nothing is replaced or deleted, as the option demands of its users.

## 3. Runs

| run | instance | states | checks |
|---|---|---|---|
| `rcu_grace` | 1 reader (depth 2), 2 writers, 2 objects, ring of 3, identifiers mod 3 | 193 thousand | `IInv`, `NoUseAfterFree`, `FreedOnce`, `NothingLeaked`, `GracePeriodSpec`, `GraceEnds` |
| `rcu_liveness` | 1 reader (depth 2), 3 writers, ring of 2, identifiers mod 2 | 102 thousand | `ReadersNotWaitedOn`, `NoneLeftAsleep` |
| `native_join` | 4 joiners | 5 thousand | `JoinedOnce`, `JoinReturns` |
| `thread_pool` | 3 clients, 2 handles, limits 0 to 2 set in any order, counters mod 8 | 502 thousand | `LimitKept`, `StartServed` |
| `quic_flow_safety` | 2 streams of 2 bytes with resets, windows 1, growth to 2, one credit packet at a time | 329 thousand | `NoFlowError`, `WithinCredit`, `ConnIsSum`, `BufferBounded` |
| `quic_flow_liveness` | 1 stream of 3 bytes, windows 1, growth to 2, two credit packets at a time | 107 thousand | `AllRead` |
| `quic_stream_safety` | 1 bidirectional stream of 2 bytes, credit 1, two packets in flight, everything may happen | 183 thousand | `DueIsActive`, `BytesAccounted`, `FinalSizeIsSent`, `DeletedEnds` |
| `quic_stream_liveness` | 2 streams of 1 byte, 1 byte of connection credit at first, one packet in flight, one stream may be reset | 56 thousand | `Served`, `Flushed`, `ConcludedEnds` |
| `quic_ackm` | 11 cases: client or server, 0 to 2 packets per handshake space, up to 4 1-RTT packets, 1 to 4 packets received, in 3 cases two at a time, 2 to 4 time units, windows of 1 to 4, 2 ranges kept | 664 thousand | `InFlightExact`, `ResolvedOnce`, `TimerArmed`, `NoDuplicate`, `AckDue`, `OneReduction` |
| `quic_reactor` | 2 threads and the assist thread, one domain, 2 objects, polls of both, 2 events, the network may fail, ticks may be silent | 196 thousand | `WaitersBalanced`, `NoLostWakeup`, `WakeupEnds`, `BlockerReturns`, `StopReturns` |
| `quic_reactor_poll` | the same | (violation) | `WaitersExact`, section 6 |
| `hash_table` | 1 reader, 2 writers, 3 keys of which 2 collide, 3 values, 3 tables, neighbourhoods of 2, 4 calls, callbacks may fail to be queued; RCU and lockless | 1.49 million | `NoUseAfterFree`, `GetCorrect`, `Consistent`, `Accounted`, `SyncDue` |

Every module states the type of its variables as `TypeOK`, which is proved (of the hash table if keys
are told apart; of the threads as a part of the invariants of `ThreadProofs`).  The runs leave it out because it says
little; it holds too when added to the cfg of the module's runs.

Further configurations are kept for use by hand (`tlc -config X.cfg M`):

| configuration, module | what it shows |
|---|---|
| `RcuSafety.cfg`, `MCRcu` | the RCU safety properties with 2 readers and 3 objects, 1.3 million states: holds |
| `NativeThreadCancelled.cfg`, `MCNativeThread` | `NeverRejoined` violated: a cancelled thread is joined again |
| `ThreadPoolLowered.cfg`, `MCThreadPool` | `LimitAlwaysKept` violated |
| `QuicFlowStalled.cfg`, `MCQuicFlow` | `StreamCreditArrives` violated |
| `QuicStreamReset.cfg`, `MCQuicStream` | `ResetAcked` violated |
| `QuicStreamConcluded.cfg`, `MCQuicStream` | `AllConcludedEnd` violated: the FIN of a write of no bytes is never sent |
| `QuicStreamAssert.cfg`, `MCQuicStream` | `DeletedAsserted` violated: the stream of such a write is closed in READY |
| `QuicReactorAssist.cfg`, `MCQuicReactor` | `AssistTimely` violated |
| `QuicReactorSilent.cfg`, `MCQuicReactor` | `EveryoneWoken` violated: another thread's tick ends the connection and notifies nobody |
| `HashTableSizes.cfg`, `MCHashTable` | `GetCorrect` violated by keys of different sizes |
| `HashTableLeaks.cfg`, `MCHashTable` | `NothingLeaks` violated: a callback cannot be queued |
| `QuicAckmProbes.cfg`, `MCQuicAckm` | `ProbesLive` violated |
| `QuicAckmTwice.cfg`, `MCQuicAckm` | `NeverTwice` violated: two copies are decrypted before either is processed |
| `QuicAckmUnsent.cfg`, `MCQuicAckm` | `AckSent` violated: an ACK frame is given up with its datagram |

Why the bounds are enough for what the runs ask.  RCU: a ring of three has two grace periods open
at once and identifiers that wrap at every third; one reader can hold an old qp or miss the index
while two writers synchronize (`RcuSafety.cfg` adds a second reader, so that one does each).
`rcu_liveness` has one spare qp for three writers, so two sleep on `alloc_signal` at a time; there
only one grace period is open at once, so the wait for a turn (`prior_signal`) is left to
`rcu_grace`.  Safety of larger instances is proved.  Flow control: a window of one byte makes every
threshold and rounding case occur, two streams are what shares the connection's credit, and two
credit packets can overtake each other.  Stream length bounds the number of times a window opens
(two or three).  Streams: two bytes and two packets let data and FIN travel, get lost and be
acknowledged apart and in either order; two streams are what the round robin and the shared credit
need, and one byte and one packet what makes them compete in every packet.  Loss detection: with a
packet threshold of 2 three packets make one lost by number while another is acknowledged and a third
is in flight; four time units reach a second probe after back-off, or a loss found after recovery
began; packets 0, 2 and 4 with two ranges kept make the history trim; two copies decrypted at once
are what a duplicate needs that is processed, and two different packets what discards the space of
one that is already decrypted.  The cases share out what all together would be too large.  Reactor:
a third thread is what a wake-up needs (one ticks, one leaves first, one leaves last; the assist
thread ticks too), two items are what giving up half-way needs, and two events let something happen while the last wake-up is still going on.  Hash table: three
keys overfill a neighbourhood of two, with two keys that collide for good; four calls suffice to
delete, reuse a slot, grow and flush under one lookup.  With three tables an insertion grows at most
twice before memory runs out; that it gives up after the fourth growth is left to the proofs.  Symmetry is used in safety runs only.

Deadlock is checked in every passing run but those of `QuicStream`, `QuicAckm` (packets and clock
are bounded) and `QuicReactor` (a failed port, or a leaked section, may leave everyone waiting);
elsewhere a freed lock or handle stutters explicitly.

### Fairness

* RCU: threads keep running, readers leave their critical sections (strongly, since nesting may
  re-enable), a mutex that is free again and again is obtained.  A sleeper is woken only by a
  signal, never by fairness: spurious wake-ups may happen but are not relied on.  The first steps
  (taking the lock, calling synchronize) are not fair.  `GraceEnds` starts when `update_qp` has
  given the call its qp: before that, condition variables give no order and a waiter can be
  overtaken for ever, so `NoneLeftAsleep` says only that somebody always gets on.
* Threads: routines return, calls that can run do; `JoinReturns` allows for callers that fail in
  `pthread_join` again and again, `StartServed` for failed starts (nobody is signalled), for
  clients that wait while holding slots, for handles joined again and for a limit set to zero.
* Flow control: the sender sends what it may, sent data arrives in the end, the application reads,
  every credit packet arrives or is declared lost, and credit that is sent again and again arrives
  (strong fairness: the network does not lose everything for ever).
* Streams: packets are sent while streams are active, each is acknowledged or lost in the end and
  garbage collection runs (`FairSpec`); that is all `Served` needs.  `Flushed`, `ConcludedEnds` and
  `ResetAcked` have the premise `PeerFair`: not all packets are lost for ever (strongly) and the
  peer gives the credit that is missing in the end.  Nothing is assumed of the application, except
  that a stream it concludes by a write of no bytes may keep `Flushed` and `ConcludedEnds` waiting,
  if its FIN was `missed`.  The
  enabling conditions are written out in the formulas, since TLC is slow to find ENABLED of these
  actions.
* Reactor: a thread that again and again has a step of its own to make (`CanProgress`: it holds the
  mutex, or the mutex is free and it waits for nothing else, or a descriptor it polls is readable)
  makes one.  This is strong fairness of threads and mutex.  Nothing is assumed of the application,
  of the network, of timeouts or of spurious wake-ups: a thread in `poll` or asleep is woken only by
  a readable descriptor or a broadcast.  The three liveness properties exempt behaviours in which a
  blocking section has leaked (section 6), `BlockerReturns` also those where the port has failed and
  objects that became ready in a silent tick.

## 4. Proofs

Every theorem holds for all values of the constants that satisfy the named ASSUMEs of the
component's module.  None of the properties is inductive by itself; each proof module defines the
invariant that is (`IInv`), proves that the initial states satisfy it and that every action keeps
it, one lemma per action or per conjunct, and derives the properties from it.  TLC checked each of
these invariants on the instances of section 3 before it was proved.

| module | theorem | states |
|---|---|---|
| `RcuProofs` | `Invariance`, `TypeCorrect` | `IInv`, `TypeOK` |
| | `ReadersSafe` | `NoUseAfterFree` |
| | `ReleasesDisjoint`, `FreeReleasesAll` | `FreedOnce`, `NothingLeaked` |
| | `ReadersMoveOn` | `ReadersNotWaitedOn`, an action property |
| | `Refinement` | `GracePeriodSpec` |
| `ThreadProofs` | `JoinSafe` | `JoinedOnce` |
| | `PoolKeepsLimit` | `LimitKept`, an action property |
| `QuicFlowProofs` | `FlowTypes` | `TypeOK` |
| | `ObedientSenderNeverInError` | `NoFlowError` |
| | `CreditRespected` | `WithinCredit` |
| | `ConnectionCountsEachByteOnce` | `ConnIsSum` |
| | `ReceiverBufferBounded` | `BufferBounded` |
| `QuicStreamProofs` | `StreamInvariant`, `StreamTypes` | `IInv`, `TypeOK` |
| | `StreamsDue` | `DueIsActive` |
| | `StreamBytes` | `BytesAccounted` |
| | `StreamFinalSize`, `StreamDeleted` | `FinalSizeIsSent`, `DeletedEnds` |
| `HashTableProofs` | `TableInvariant` | `IInv` |
| | `ReadersUseNothingFreed` | `NoUseAfterFree` |
| | `CallbacksDue`, `MemoryAccounted` | `SyncDue`, `Accounted` |
| | `LookupsCorrect`, `TableConsistent` | `GetCorrect`, `Consistent` |
| | `TableTypes` | `TypeOK` |
| `QuicReactorProofs` | `ReactorInvariant` | `IInv` |
| | `WaitersAlwaysBalanced` | `WaitersBalanced` |
| | `WakeupNeverLost` | `NoLostWakeup` |
| | `ReactorTypes` | `TypeOK` |
| `QuicAckmProofs` | `AckmInvariant`, `AckmTypes` | `IInv`, `TypeOK` |
| | `FlightExact`, `FateOnce` | `InFlightExact`, `ResolvedOnce` |
| | `TimerAlwaysArmed` | `TimerArmed` |
| | `NoneTwice`, `AcksInTime` | `NoDuplicate`, `AckDue` |
| | `WindowShrinksOnce` | `OneReduction`, an action property |

### The arguments

**RCU lock.**  For every finite set of readers and writers, every non-empty set of objects, every
`num_writers`, every nesting depth and every identifier modulus of at least the ring's size (2^32 in
the code).

1. `TurnInv`: the qps being waited on are the *Open* ones just behind the readers' qp, in the order
   of their identifiers, and at least one qp is left (`writers_alloced <= group_count - 1`).  Ring
   distances are written without `%`, so that wrapping is a case split.
2. `ReaderInv`: a reader inside holds the readers' qp or one that is waited on; a count is the
   number of readers on the qp.
3. `GraceInv`: the readers a writer owes a wait hold its own qp or one whose turn comes no later.
   So when it is the writer's turn and its count is zero, nobody is left (`DrainedOutlasted`).
4. `HeapInv`, `CloseInv`: a reader that refers to something pending is one the pending call must
   outlast; everything allocated has one owner.

TLC checks this `IInv` as a property of `rcu_grace`.  `HashTable` uses the refined specification, so
its results hold of the table over the real lock as far as grace periods go.

**Native threads.**  `FlagInv` connects the flags, which are all a joiner sees, with what has
happened: FINISHED is set exactly when the routine has returned, JOINED when the thread has been
reaped, and JOIN_AWAIT whenever a joiner is in `pthread_join`, which it enters only after setting
it.  JOINED is set by a join that reports success, so between an attempt that reaped a cancelled
thread and the next one the flags say nothing of it: that is the case `JoinedOnce` sets apart.  A
joiner that is woken only looks at the flags again (`SignalWakes`, `BroadcastWakes`).

**Pool.**  As long as no handle has been joined again, `active_threads` is the number `Used` of slots
in use: starts that have taken one, threads that are not joined yet and joins about to give one back.
So a start that finds a free slot finds fewer slots in use than the limit, unless the unsigned
subtraction of `internal.c:22` has wrapped, and then more are in use than the limit allows.  Nothing
is assumed of the limits that are set nor of who joins what; `LimitKept` names the two cases in which
the limit is not kept, and both occur (section 6).

**Flow control.**  `SenderInv`: no frame, in whatever order it will arrive, goes past what its
stream has spent, and one with a FIN ends exactly there on a stream that spends no more.
`ReceiverInv`: what a stream's controller counts is the highest length seen, which was sent; a final
size is that of a stream that spends no more; what is read lies below.  `CreditInv`: spent <= known
<= granted, no credit under way exceeds what is granted now, and what is granted is at most the
largest window ahead of what is retired.  `Sums`: each connection controller counts the sum over the
streams, including what a reset adds at once.  From these it follows that no frame that can still
arrive finds an error.

**Streams.**  For any finite set of streams, any amount of data, any credit and any number of
packets in flight, with or without resets.

1. `StreamOK` is about one stream.  `BytesOK`: the bytes to be sent and those acknowledged are apart
   and within what was written, and every byte that is not waiting to be sent for the first time
   lies below `swm`, which is at most the credit.  `StateOK`: in DATA_SENT everything written has
   been counted, a final size that was announced is `swm`, and a stream without a handle has a final
   size or has left the states in which it would get one from the application.
2. `Flight` relates a stream to the packets: as long as it has its buffer, each byte that is neither
   to be sent nor acknowledged is in one packet, and packets carry no others.  Resetting frees the
   buffer while chunks of it are in flight; the dispatcher's look-up of the buffer is what makes
   their late acknowledgement or loss harmless.
3. `ListOK` says that the active list has no stream twice and contains the place of the round robin.
   Taking a stream off the list moves that place first, so the packetiser never starts from a
   stream that is not there.
4. `Due` says of one stream that it is on the list if it has a frame to send, or has nothing to send
   but a FIN that was missed.  It fails for the
   stream that an operation has changed until the operation calls
   `ossl_quic_stream_map_update_state`, so the lemmas are about maps that are right but for some
   streams (`MapBut`), and `UpdateIs` says that the call takes a stream out of that set.  More
   credit of the connection concerns all streams at once: MAX_DATA leaves all of them in the set and
   its walk over the map takes them out one by one (`RecvMaxDataStep`).  The packetiser only uses
   credit up, which cannot give another stream something to send.
5. A packet with the frames of many streams is a fold.  `FoldsOver` and its companions turn it
   into a function from the number of streams done so far to the map at that point; the invariant of
   that walk has the bytes of the streams not yet visited as they were and those of the visited ones
   as they will be.  The credit that earlier streams of the packet have claimed is the function
   `conn_consumed`.
6. `FlushOK`: `num_shutdown_flush` is the number of streams marked, and before the shutdown none is.
   So it never wraps below zero, whatever order acknowledgements and resets come in.

`TypeOK` of the model with `Streams` in every map is part of this invariant: since `Gc` releases
nothing, the map never shrinks, and what a release would do to the chunks of its stream in flight is
not covered by these theorems.

**Hash table.**  `IInv` holds for all configurations and keys: `Reach` is what a reader inside its
critical section can still come to from where its lookup stands (the table it loaded, the tables'
cells, the value it loaded), and `ReachKept` that none of it is freed; `GraceKept` that whatever of
it waits to be freed waits for a grace period that includes this reader; `CbsApart`, `TablesOwned`
and `CellsOwned` that everything allocated is in the published table, held by one writer, or in one
callback, queued, taken or leaked (`Removed`).  What leaked stays allocated, so it is never used again
and no later callback can be for it.  `Section` and `Lockless` say who may change the table when.  The second invariant `JInv`
is about lookups: `Placed` (a value is within the probe length of its key's neighbourhood),
`OneEntry` (no key twice), `Making` (the slot an insertion has chosen is right for its key), `Counted`, and
`Searches`: a lookup that has not found its key yet will pass the slot that holds it, or the key was
absent at some time during the lookup.  `LookupsCorrect` and `TableConsistent` have the hypothesis
`KeysTold`, that the configuration has `collision_check` and keys have one size: otherwise a lookup
may return another key's value (section 6).  `TableTypes` adds to both that a reader has a table
only while it searches it (`TabWhileLooking`), so that no search goes past the entries of its
table.  TLC checked `JInv` on the states of `hash_table`.

**Reactor.**  `ThreadInv` says for each place a thread can be at which call it is in, which items'
sections it holds there (`Held`) and that its wait context counts these per reactor; `AssistInv` the
same of the assist thread.  `Waiters`: `cur_blocking_waiters` is at least the number of threads that
hold a section of the reactor, and exactly that unless `SSL_poll` has leaked one.  `Wakes`: if an
object was found not ready after its section was entered and has become ready since, the notifier of
its reactor is signalled or its socket readable, or it became ready in a silent tick and no tick has
notified since.  For any number of threads, objects and reactors
and any poll lists, also ones that name an object twice.  `ReactorTypes` needs `Rest` besides, the
variables of which `IInv` says nothing: locks and sleepers, the world, the assist thread's flags.
Counts and slots do not go below zero because each is at least the size of a set.

**Loss detection.**  `PktInv` is about the packets sent.  `Books`: per space the history is finite,
its packets have different numbers below the next one, each number has either its place in the
history or one callback in `told`; the counters are sums over the histories, and the controller's is
the ACK manager's plus the bytes that pseudo-loss left with it (`undone`).  Times: no packet is sent
in the future, and whatever `Deadline` is computed from is below `Never`, so that an armed timer is
told from an idle one.  What makes `TimerArmed` inductive is that a space with packets that must be
acknowledged has the time of the last one set (`TimeInv`).  Pseudo-loss does not set the timer
(section 6); that this does no harm needs three facts about clients: they have sent Handshake
packets, or count the peer's address as validated, only when the Initial space is gone, and all
their Initial packets are in flight.  `RxInv` is about the packets received: a number that was
processed is in the history or below the watermark, so never `Processable` again, although the
history is trimmed and cut; an ack-eliciting packet that is still in the history and for which no ACK
frame was generated has an ACK desired or due.  `QueueInv` is about the packet that is decrypted and
not processed: it has not been processed before, or is the copy of one that was processed once, in
this tick, so that its ACK is due already. `OneReduction` follows from one more fact: a packet that shrinks the window
was sent after the last reduction.  That a history never has more than `MAX_RX_ACK_RANGES` ranges,
whatever arrives in whatever order, is `Bounded`: the number of ranges is that of their least members
(`LeastStart`), trimming keeps the highest ranges (`TopRangesCount`), and raising the watermark may
cut the lowest range short but adds none (`CutRangesCount`).

### Inductions without an induction rule

The prover cannot use the library's induction theorems (their parameter is an operator). Facts that
need induction over a finite set or a natural number are proved by the smallest counterexample
instead: the numbers or subsets at which the fact fails would have a least one (`SmallestNumber`,
`SmallestSubset`, from the well-foundedness facts that speak of sets), and the step contradicts it.
So `SumTheorems` on sums over finite sets, existence of the greatest element of a finite set of
numbers, and the recursive functions of the acknowledged ranges and of the round over a table.

### Assumptions

* `Rcu`: finite disjoint thread sets, NULL in none of them, at least one object, sensible numbers.
* `JoinersAssumption`, `PoolAssumption`: finitely many threads, fewer than the counter's modulus.
* `FlowAssumption`: finitely many streams, sizes and windows that are not zero.
* `KeysAssumption`, `SizesAssumption`, `MemoryAssumption`, `ConfigsAssumption`: hashes are not zero
  (the code reserves zero for free slots), `ossl_ht_new` found memory for the first table and rounds
  sizes of at most 32 bits up to powers of two.
* `StreamAssumption`: finitely many streams, none of them the null pointer, at least one byte and
  one packet; any credit, also none.
* `ReactorAssumption`: finitely many threads, every object has a reactor, poll lists are not empty.
* `ConstantsAssumption`, `CasesAssumption`, `WindowAssumption`, `NeverAssumption`: thresholds, delays
  and windows are positive, times stay below the infinite one, and the congestion window starts no
  lower than its minimum (`cc_newreno.c:70-85`: it is at least two datagrams, which is the minimum).

All are evaluated by TLC in the runs.  Bounds that stand for the environment (numbers of packets,
events, calls, ends of time) are constants like all others: the proofs hold for every such bound.

### Only model-checked

* Every liveness property: fairness and ENABLED are outside the prover.

## 5. Hazards

`PROJECT.json` lists them with their lines and the properties that would notice.  Without a property
are: the weak-memory ordering above, hold-and-wait of two Argon2 computations, and frames that are not
sent again because their stream has no chunk (section 6).

## 6. Disagreements found

Shown by a run:

* `quic_reactor_poll`: SSL_poll enters the blocking section of each item's reactor.  When an item
  turns out ready after that, `poll_translate` returns at once (`ssl/rio/poll_immediate.c:235`),
  `poll_block` goes to `out`, and the sections of the items before it are never left, although
  `include/internal/quic_reactor.h:254-258` says the number of enter calls not yet matched "must *at
  all times* equal the number of threads blocking on the reactor" and "failing to adhere to this
  rule will result in deadlock".  `WaitersBalanced` is the property for domains where this has not
  happened.

Shown by a further configuration (the property checked in the run sets the case apart):

* `NativeThreadCancelled.cfg`: when `pthread_join` has succeeded and the thread's value is not NULL,
  `thread_posix.c:72-80` returns 0, JOINED is not set, and the next join calls `pthread_join` again,
  whose result is then undefined; `test/threadpool_test.c:172-176` says of this that "it's up to us to
  ensure that this does not happen".
  Routines end with NULL, so the thread must have been cancelled.
* `ThreadPoolLowered.cfg`: `crypto/thread/internal.c:22` subtracts unsigned; lowering the limit
  below the use makes it wrap, and starts stop waiting.  `doc/designs/thread-api.md:51` calls it a
  limit.  A second join of a handle gives its slot back again (`internal.c:89`), though
  `test/threadpool_test.c:172-174` says it is allowed.
* `QuicFlowStalled.cfg`: `quic_fifd.c:182` regenerates MAX_STREAM_DATA only for streams with a chunk
  in the lost packet; `doc/designs/quic-design/quic-fifm.md:44` says REGEN.  The peer of a receiver
  that sends nothing on the stream stays blocked.  `AllRead` therefore exempts `abandoned` streams.
* `QuicStreamReset.cfg`: `quic_fifd.c:81` and `:140` skip chunks of streams without a send buffer,
  but resetting frees it: a lost RESET_STREAM is not sent again, an acknowledged one not noticed,
  though `quic-fifm.md:42` says REGEN.  The same lines skip STOP_SENDING of receive-only streams.
* `QuicStreamConcluded.cfg`: `quic_impl.c:2900` concludes a stream for a write of no bytes without
  updating it, so that the FIN waits until something else does; a stream in READY never leaves it, and
  SSL_shutdown waits for the stream.  `doc/man3/SSL_write.pod:50-54` promises the effect of
  SSL_stream_conclude.
* `QuicStreamAssert.cfg`: closing a stream does not reset it when its final size is known
  (`quic_impl.c:781-783`), so after such a write a deleted stream may be in READY, which the assertion
  of `quic_stream_map.c:301-304` excludes (`include/internal/quic_stream_map.h:459-462` gives READY no final size).
* `QuicReactorSilent.cfg`: a stateless reset is consumed by the demultiplexer's handler
  (`quic_port.c:1501`, `quic_channel.c:3498`), and the channel's tick finds itself terminated or
  handles no packet, so `notify_other_threads` stays 0; so it does when the forged packet limit is
  reached (`quic_channel.c:2313`) and when the packetiser fails (`:2784-2800`).
  `include/internal/quic_reactor.h:248-251` has the reactor know from it "if a tick means other threads
  might need to be woken up via the notifier".
* `QuicReactorAssist.cfg`: nobody tells the assist thread when the reactor's deadline changes, so it
  may sleep past one; `include/internal/quic_thread_assist.h:90` says it "must be called to notify
  the assist thread if the channel deadline changes", and the only caller is a test hook
  (`quic_impl.c:914`).
* `HashTableSizes.cfg`: `match_key` (`hashtable.c:559-571`) is true of keys of different sizes, so a
  lookup may return another key's value when the hashes collide.  The library's tables have keys of
  one size each.
* `HashTableLeaks.cfg`: a failed `ossl_rcu_call` (`threads_pthread.c:546-552`) is ignored at
  `hashtable.c:342`, `527`, `622` and `823`, so that what it was to free leaks;
  `doc/internal/man3/ossl_rcu_lock_new.pod:22` has it return nothing.
* `QuicAckmTwice.cfg`: `rx_late_validate` (`quic_channel.c:762`, "Potential duplicates should not be
  processed") is asked when a packet is decrypted, all that have arrived are decrypted before the first
  is processed (`quic_record_rx.c:1427`), and numbers are recorded after processing
  (`quic_rx_depack.c:1473`): two copies that arrive together are both processed.
* `QuicAckmUnsent.cfg`: a datagram with an Initial packet is given up after its ACK frames were
  generated when it cannot be padded (`quic_txp.c:973-979`) or a server's credit is short
  (`:994-998`); the ACK counts as sent, and nobody asks for it again.  `quic_ackm.c` quotes RFC 9000
  s. 13.2.1 at `ackm_on_rx_ack_eliciting`.
* `QuicAckmProbes.cfg`: probes requested for a space that is then discarded stay pending for ever,
  so `txp_determine_archetype` goes on to choose the probe archetype, which is not bound by the
  congestion window; `quic_txp.c:1411-1414` says "If we are out of CC budget, we cannot send a
  normal packet".

Noticed without one:

* `quic_impl.c:2900` follows a null pointer for a concluding write of no bytes on a stream without a
  send buffer.
* The loop condition of `quic_stream_map.c:813` is false at once: no stream is ever released, though
  `quic_impl.c:771-774` counts on it.
* A FIN received while MAX_STREAM_DATA is due (`quic_rx_depack.c:586`) leaves the stream on the
  active list with nothing to generate; `quic_txp.c:1570-1572` requires the list to be precise.
  Hence `DueIsActive` states one direction only.
* `quic_fc.c:320` computes the new credit from what is retired, `quic-fc.md:94-95` from what is
  spent; `quic-fc.md:261-263` words the window growth rule the other way round than `quic_fc.c:287`.
* The connection's RXFC error is set and never read by frame processing (`quic_rx_depack.c:551` asks
  the stream's only), harmless as long as `NoFlowError` holds for peers that keep to their credit.
* Reactor: a permanent network error terminates all connections but notifies no other thread
  (`quic_port.c:722`), so that a thread in `poll` learns of it at its deadline only; `poll_block`
  returns 0 when an item has become ready, and SSL_poll then fails although something can be
  reported; two threads that poll items of two domains in opposite orders can wait for each other
  while leaving; API calls that change what others wait for without a tick notify nobody.
* Hash table: without `collision_check` a slot that is deleted and reused between a reader's two
  loads shows it another key's value (`Configs <- Unchecked`); `ossl_ht_free` leaks the values when its flush cannot allocate;
  the branch of `grow_hashtable` that starts again frees `neighborhoods` rather than the pointer
  that was allocated.
* ACK manager: pseudo-loss leaves the bytes with the congestion controller, although
  `quic_cc.h:190-193` has `on_data_invalidated` for it (`CcExact` fails; `InFlightExact` accounts
  for it), and does not set the timer again; with more ranges than fit a frame, numbers above the
  watermark are not reported, against rule (B) of `quic_ackm.c` (`ReportsAll`);
  `ackm_on_pkts_acked` reads `is_inflight`
  after the callback that may free the packet.

## 7. Not modelled

Connection termination, idle timeout, key update and the handshake of the QUIC channel; stream
creation, limits and the accept queue; the control frame queue; ports, listeners and routing of
datagrams; packet protection.  These are state machines a later stage can add.  The TLS and DTLS
state machine, provider core, async jobs and error queue are further candidates.  Cryptography,
ASN.1, X.509, BIOs, providers, command-line tools and build files, by far most of the repository's
lines, work on large data without interleaving and are out of a model checker's reach.

## 8. Plan

Every safety property that a run checks is a theorem.  What is left is to model more:

1. The stream map's rest: stream creation, limits and MAX_STREAMS, the accept queue; then the
   control frame queue and discarded packets of the dispatcher.
2. Channel: termination, idle timeout, key update.
3. Weak memory of the RCU lock's four accesses.
