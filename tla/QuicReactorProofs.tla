-------------------------- MODULE QuicReactorProofs --------------------------
(***************************************************************************)
(* Proofs that the count of blocking threads of a reactor is right and     *)
(* that no wake-up is lost, for any finite set of threads, any objects and *)
(* reactors and any lists of items given to SSL_poll.                      *)
(*                                                                         *)
(* The invariant says of each thread where it can be with which call and   *)
(* what its wait context counts, of each reactor that nobody who blocks is *)
(* missing in its count (also after a leak: else the last thread out would *)
(* be taken for the last too early and unsignal the notifier), and of each *)
(* item a thread has checked after entering its section that it is not     *)
(* ready or something readable will tell.  A step is that of one thread:   *)
(* it keeps the invariant if it does right by that thread's own part, by   *)
(* the counts and by what the others wait for (StepKeeps).                 *)
(***************************************************************************)
EXTENDS QuicReactor, FiniteSetTheorems, TLAPS

\* What t is doing, a sleep on notifier_cv apart.
Where(p, c) == IF p = "asleep" THEN c.then ELSE p

\* The items of call c whose blocking sections it is in at place q, and those
\* of them on reactor r.
Held(q, c) ==
  {j \in 1 .. c.n : \/ q \in {"translate", "entered", "ospoll", "abort"}
                    \/ q = "leave" /\ j >= c.i
                    \/ q = "left" /\ j > c.i
                    \/ q = "aborted" /\ j < c.i}
HeldOn(q, c, r) == {j \in Held(q, c) : ReactorOf[c.list[j]] = r}

\* The items that were found not ready after their section was entered.
Checked(q, c) ==
  {j \in 1 .. Len(c.list) : \/ q = "ospoll"
                            \/ q \in {"translate", "entered"} /\ j < c.i}

\* Where a thread can be, and what a call is.
Places ==
  {"idle", "joining", "tick", "ticked", "asleep", "readout", "translate", "entered", "abort",
   "aborted", "ospoll", "leave", "left", "start", "timedwait", "stopped"}
CallType ==
  [kind : {"none", "tick", "block", "poll", "assist"}, list : Seq(Objs) \ {<<>>},
   i : Nat, n : Nat, tick : BOOLEAN, found : BOOLEAN, ok : BOOLEAN, then : {"none", "ticked", "left", "aborted"}]

\* At which place a call can be, how far, and in how many sections.
Control(q, c) ==
  /\ c.i \in 1 .. Len(c.list) /\ c.n \in 0 .. Len(c.list)
  /\ c.kind \in {"tick", "block"} => Len(c.list) = 1
  /\ \/ q \in {"idle", "joining"} /\ c.kind = "none" /\ c.n = 0
     \/ q \in {"tick", "ticked"} /\ c.kind \in {"tick", "block", "poll"} /\ c.n = 0
     \/ q = "readout" /\ c.kind = "poll" /\ c.n = 0
     \/ q = "translate" /\ c.kind = "poll" /\ c.n = c.i - 1
     \/ q \in {"entered", "abort", "aborted"} /\ c.kind = "poll" /\ c.n = c.i
     \/ q = "ospoll" /\ c.kind \in {"block", "poll"} /\ c.n = Len(c.list)
     \/ q \in {"leave", "left"} /\ c.kind \in {"block", "poll"} /\ c.i <= c.n

\* The wait context counts the items held per reactor; only SSL_poll has one.
Counted(q, c, s) ==
  \A r \in Reactors :
    s[r] = IF c.kind = "poll" THEN Cardinality(HeldOn(q, c, r)) ELSE 0

\* What holds of a thread at p with call c and wait context s, and of the
\* assist thread, which never blocks.
ThreadInv(p, c, s) ==
  /\ p = "asleep" => c.then \in {"ticked", "left", "aborted"}
  /\ Control(Where(p, c), c)
  /\ Counted(Where(p, c), c, s)

AssistInv(p, c) ==
  /\ c.kind = "assist" /\ c.list = <<AssistObj>> /\ c.i = 1 /\ c.n = 0
  /\ Where(p, c) \in {"start", "tick", "ticked", "timedwait", "stopped"}

Types ==
  /\ at \in [All -> Places] /\ call \in [All -> CallType]
  /\ slots \in [Threads -> [Reactors -> Int]]
  /\ cur_blocking_waiters \in [Reactors -> Int]
  /\ signalled_notifier \in [Reactors -> BOOLEAN]

Blockers(r) == {t \in Threads : Blocking(t, r)}

\* Nobody is missing in the count of a reactor's waiters, and without a leak
\* nobody is counted who has left.
Waiters ==
  \A r \in Reactors :
    /\ cur_blocking_waiters[r] >= Cardinality(Blockers(r))
    /\ r \notin leaked => cur_blocking_waiters[r] = Cardinality(Blockers(r))

\* Whoever waits for o will be told that it is ready.
Awake(o) ==
  o \in ready \ silent => signalled_notifier[ReactorOf[o]]

Wakes ==
  \A t \in Threads : \A j \in Checked(At(t), call[t]) : Awake(call[t].list[j])

IInv ==
  /\ Types
  /\ \A t \in Threads : ThreadInv(at[t], call[t], slots[t])
  /\ AssistInv(at[Assist], call[Assist])
  /\ Waiters
  /\ Wakes

-----------------------------------------------------------------------------
(* What a step of one thread does to the others.                           *)

\* Only t moves.
Moves(t) ==
  \A u \in All \ {t} :
    /\ at'[u] = at[u] /\ call'[u] = call[u]
    /\ u \in Threads => slots'[u] = slots[u]

\* t keeps the books on each reactor: it enters or leaves a section as it
\* changes the count, or its leaving without that is recorded as a leak.
Keeps(t) ==
  \A r \in Reactors :
    \/ /\ (Blocking(t, r)' <=> Blocking(t, r))
       /\ cur_blocking_waiters'[r] = cur_blocking_waiters[r]
    \/ /\ ~Blocking(t, r) /\ Blocking(t, r)'
       /\ cur_blocking_waiters'[r] = cur_blocking_waiters[r] + 1
    \/ /\ Blocking(t, r) /\ ~Blocking(t, r)'
       /\ cur_blocking_waiters'[r] = cur_blocking_waiters[r] - 1
    \/ /\ Blocking(t, r) /\ ~Blocking(t, r)' /\ r \in leaked'
       /\ cur_blocking_waiters'[r] = cur_blocking_waiters[r]

\* t does not take away the wake-up of another thread, nor its own.
Alerts(t) ==
  /\ \A o \in Objs : (\E u \in Threads \ {t} : Blocking(u, ReactorOf[o]))
                       => (Awake(o) => Awake(o)')
  /\ t \in Threads =>
       \A j \in Checked(At(t), call[t])' : Awake(call[t].list[j])'

\* A thread is blocking on a reactor if it holds an item of it.
LEMMA BlockingHeld ==
  ASSUME NEW t, NEW r
  PROVE  /\ Blocking(t, r) <=> HeldOn(At(t), call[t], r) # {}
         /\ Blocking(t, r)' <=> HeldOn(At(t), call[t], r)' # {}
BY DEF Blocking, HeldOn, Held

\* What was checked is held.
LEMMA CheckedHeld ==
  ASSUME NEW q, NEW c \in CallType, Control(q, c), NEW j \in Checked(q, c)
  PROVE  j \in HeldOn(q, c, ReactorOf[c.list[j]]) /\ c.list[j] \in Objs
<1>1. j \in 1 .. c.n /\ c.list[j] \in Objs
  BY DEF CallType, Control, Checked
<1> QED BY <1>1 DEF HeldOn, Held, Checked

LEMMA AtWhere == \A t : At(t) = Where(at[t], call[t]) /\ At(t)' = Where(at'[t], call'[t])
BY DEF At, Where

\* Adding a thread to the blockers of a reactor or taking it away.
LEMMA BlockersChange ==
  ASSUME NEW t \in All, NEW r \in Reactors, Moves(t), IsFiniteSet(Threads)
  PROVE  /\ IsFiniteSet(Blockers(r)) /\ IsFiniteSet(Blockers(r)')
         /\ Cardinality(Blockers(r)) \in Nat /\ Cardinality(Blockers(r)') \in Nat
         /\ t \notin Threads \/ (Blocking(t, r)' <=> Blocking(t, r))
              => Blockers(r)' = Blockers(r)
         /\ t \in Threads /\ ~Blocking(t, r) /\ Blocking(t, r)'
              => Cardinality(Blockers(r)') = Cardinality(Blockers(r)) + 1
         /\ t \in Threads /\ Blocking(t, r) /\ ~Blocking(t, r)'
              => Cardinality(Blockers(r)') = Cardinality(Blockers(r)) - 1
<1>1. \A u \in Threads \ {t} : (Blocking(u, r)' <=> Blocking(u, r))
  BY DEF Moves, Blocking, At, All
<1>2. IsFiniteSet(Blockers(r)) /\ IsFiniteSet(Blockers(r)')
  BY FS_Subset DEF Blockers
<1>3. Cardinality(Blockers(r)) \in Nat /\ Cardinality(Blockers(r)') \in Nat
  BY <1>2, FS_CardinalityType
<1>4. t \notin Threads \/ (Blocking(t, r)' <=> Blocking(t, r)) => Blockers(r)' = Blockers(r)
  BY <1>1 DEF Blockers
<1>5. ASSUME t \in Threads, ~Blocking(t, r), Blocking(t, r)'
      PROVE  Cardinality(Blockers(r)') = Cardinality(Blockers(r)) + 1
  <2>1. Blockers(r)' = Blockers(r) \cup {t} /\ t \notin Blockers(r)
    BY <1>1, <1>5 DEF Blockers
  <2> QED BY <2>1, <1>2, FS_AddElement
<1>6. ASSUME t \in Threads, Blocking(t, r), ~Blocking(t, r)'
      PROVE  Cardinality(Blockers(r)') = Cardinality(Blockers(r)) - 1
  <2>1. Blockers(r)' = Blockers(r) \ {t} /\ t \in Blockers(r)
    BY <1>1, <1>6 DEF Blockers
  <2> QED BY <2>1, <1>2, FS_RemoveElement
<1> QED BY <1>2, <1>3, <1>4, <1>5, <1>6

\* A step that does right by the thread that takes it keeps the invariant.
LEMMA StepKeeps ==
  ASSUME IInv, NEW t \in All, Types', Moves(t), leaked \subseteq leaked',
         t \in Threads => ThreadInv(at'[t], call'[t], slots'[t]),
         t = Assist => AssistInv(at'[t], call'[t]),
         t \notin Threads => cur_blocking_waiters' = cur_blocking_waiters,
         t \in Threads => Keeps(t), Alerts(t)
  PROVE  IInv'
<1>1. IsFiniteSet(Threads) /\ Assist \notin Threads
  BY ReactorAssumption
<1>2. \A u \in Threads : ThreadInv(at[u], call[u], slots[u])'
  BY DEF IInv, Moves, All
<1>3. AssistInv(at[Assist], call[Assist])'
  BY DEF IInv, Moves, All
<1>4. Waiters'
  <2> SUFFICES ASSUME NEW r \in Reactors
               PROVE  /\ cur_blocking_waiters'[r] >= Cardinality(Blockers(r)')
                      /\ r \notin leaked' => cur_blocking_waiters'[r] = Cardinality(Blockers(r)')
    BY DEF Waiters
  <2>1. /\ cur_blocking_waiters[r] \in Int /\ cur_blocking_waiters[r] >= Cardinality(Blockers(r))
        /\ r \notin leaked => cur_blocking_waiters[r] = Cardinality(Blockers(r))
    BY DEF IInv, Waiters, Types
  <2>2. /\ Cardinality(Blockers(r)) \in Nat /\ Cardinality(Blockers(r)') \in Nat
        /\ t \notin Threads \/ (Blocking(t, r)' <=> Blocking(t, r))
              => Blockers(r)' = Blockers(r)
        /\ t \in Threads /\ ~Blocking(t, r) /\ Blocking(t, r)'
              => Cardinality(Blockers(r)') = Cardinality(Blockers(r)) + 1
        /\ t \in Threads /\ Blocking(t, r) /\ ~Blocking(t, r)'
              => Cardinality(Blockers(r)') = Cardinality(Blockers(r)) - 1
    BY <1>1, BlockersChange
  <2>3. t \in Threads =>
          \/ /\ (Blocking(t, r)' <=> Blocking(t, r))
             /\ cur_blocking_waiters'[r] = cur_blocking_waiters[r]
          \/ /\ ~Blocking(t, r) /\ Blocking(t, r)'
             /\ cur_blocking_waiters'[r] = cur_blocking_waiters[r] + 1
          \/ /\ Blocking(t, r) /\ ~Blocking(t, r)'
             /\ cur_blocking_waiters'[r] = cur_blocking_waiters[r] - 1
          \/ /\ Blocking(t, r) /\ ~Blocking(t, r)' /\ r \in leaked'
             /\ cur_blocking_waiters'[r] = cur_blocking_waiters[r]
    BY DEF Keeps
  <2>4. CASE t \notin Threads  BY <2>1, <2>2, <2>4
  <2>5. CASE t \in Threads
    <3>1. CASE /\ (Blocking(t, r)' <=> Blocking(t, r))
               /\ cur_blocking_waiters'[r] = cur_blocking_waiters[r]
      BY <3>1, <2>1, <2>2
    <3>2. CASE /\ ~Blocking(t, r) /\ Blocking(t, r)'
               /\ cur_blocking_waiters'[r] = cur_blocking_waiters[r] + 1
      BY <3>2, <2>1, <2>2, <2>5
    <3>3. CASE /\ Blocking(t, r) /\ ~Blocking(t, r)'
               /\ cur_blocking_waiters'[r] = cur_blocking_waiters[r] - 1
      BY <3>3, <2>1, <2>2, <2>5
    <3>4. CASE /\ Blocking(t, r) /\ ~Blocking(t, r)' /\ r \in leaked'
               /\ cur_blocking_waiters'[r] = cur_blocking_waiters[r]
      BY <3>4, <2>1, <2>2, <2>5
    <3> QED BY <2>3, <2>5, <3>1, <3>2, <3>3, <3>4
  <2> QED BY <2>4, <2>5
<1>5. Wakes'
  <2> SUFFICES ASSUME NEW u \in Threads, NEW j \in Checked(At(u), call[u])'
               PROVE  Awake(call[u].list[j])'
    BY DEF Wakes
  <2>1. CASE u = t  BY <2>1 DEF Alerts
  <2>2. CASE u # t
    <3>1. call'[u] = call[u] /\ At(u)' = At(u)
      BY <2>2 DEF Moves, At, All
    <3>2. j \in Checked(At(u), call[u])
      BY <3>1
    <3>3. call[u] \in CallType /\ Control(At(u), call[u])
      BY AtWhere DEF IInv, Types, ThreadInv, All
    <3>4. /\ j \in HeldOn(At(u), call[u], ReactorOf[call[u].list[j]])
          /\ call[u].list[j] \in Objs
      BY <3>2, <3>3, CheckedHeld
    <3>5. Blocking(u, ReactorOf[call[u].list[j]])
      BY <3>4, BlockingHeld
    <3>6. Awake(call[u].list[j])
      BY <3>2 DEF IInv, Wakes
    <3> QED BY <3>1, <3>4, <3>5, <3>6, <2>2 DEF Alerts, Awake
  <2> QED BY <2>1, <2>2
<1> QED BY <1>2, <1>3, <1>4, <1>5 DEF IInv

\* Steps that neither enter nor leave a section.
LEMMA Quiet ==
  ASSUME IInv, NEW t \in Threads, Types', Moves(t),
         leaked' = leaked, cur_blocking_waiters' = cur_blocking_waiters,
         slots'[t] = slots[t],
         at'[t] = "asleep" => call'[t].then \in {"ticked", "left", "aborted"},
         Control(At(t)', call'[t]),
         Held(At(t)', call'[t]) = Held(At(t), call[t]),
         \/ Held(At(t), call[t]) = {}
         \/ call'[t].kind = call[t].kind /\ call'[t].list = call[t].list,
         Alerts(t)
  PROVE  IInv'
<1>0. t \in All /\ t # Assist  BY ReactorAssumption DEF All
<1>1. \A r : HeldOn(At(t)', call'[t], r) = HeldOn(At(t), call[t], r)
  BY DEF HeldOn
<1>2. Keeps(t)
  <2>1. \A r : Blocking(t, r)' <=> Blocking(t, r)
    BY <1>1, BlockingHeld
  <2> QED BY <2>1 DEF Keeps
<1>3. Counted(At(t), call[t], slots[t])
  BY AtWhere DEF IInv, ThreadInv
<1>4. Counted(At(t)', call'[t], slots'[t])
  <2>1. CASE Held(At(t), call[t]) = {}
    <3>1. \A r : HeldOn(At(t), call[t], r) = {} /\ HeldOn(At(t)', call'[t], r) = {}
      BY <2>1, <1>1 DEF HeldOn
    <3> QED BY <1>3, <3>1, FS_EmptySet DEF Counted
  <2>2. CASE call'[t].kind = call[t].kind /\ call'[t].list = call[t].list
    BY <2>2, <1>1, <1>3 DEF Counted
  <2> QED BY <2>1, <2>2
<1>5. ThreadInv(at'[t], call'[t], slots'[t])
  BY <1>4, AtWhere DEF ThreadInv
<1> QED BY <1>0, <1>2, <1>5, StepKeeps

\* Steps that make nothing ready and take nothing away that wakes.
LEMMA Calm ==
  ASSUME NEW t \in All, IInv, ready' \ silent' \subseteq ready \ silent,
         signalled_notifier' = signalled_notifier,
         t \in Threads =>
           \A j \in Checked(At(t)', call'[t]) :
             \/ j \in Checked(At(t), call[t]) /\ call'[t].list[j] = call[t].list[j]
             \/ call'[t].list[j] \notin ready'
  PROVE  Alerts(t)
<1>1. \A o : Awake(o) => (Awake(o))'
  BY DEF Awake
<1>2. ASSUME t \in Threads, NEW j \in Checked(At(t), call[t])'
      PROVE  Awake(call[t].list[j])'
  <2>1. CASE j \in Checked(At(t), call[t]) /\ call'[t].list[j] = call[t].list[j]
    <3>1. Awake(call[t].list[j])  BY <2>1, <1>2 DEF IInv, Wakes
    <3> QED BY <3>1, <2>1, <1>1 DEF Awake
  <2>2. CASE call'[t].list[j] \notin ready'
    BY <2>2 DEF Awake
  <2> QED BY <1>2, <2>1, <2>2
<1> QED BY <1>1, <1>2 DEF Alerts

\* A thread that is not in any section holds nothing.
LEMMA Nothing ==
  ASSUME NEW q, NEW c, q \in {"idle", "joining", "tick", "ticked", "readout"} \/ c.n = 0
  PROVE  Held(q, c) = {}
BY DEF Held

\* Nothing is checked before a section is entered or after it is left.
LEMMA NothingChecked ==
  ASSUME NEW q, NEW c, q \in {"idle", "joining", "tick", "ticked", "readout", "leave", "left", "abort", "aborted"}
  PROVE  Checked(q, c) = {}
BY DEF Checked

LEMMA NoCallFacts ==
  NoCall \in CallType /\ NoCall.kind = "none" /\ NoCall.n = 0 /\ NoCall.i = 1
    /\ NoCall.list = <<AssistObj>> /\ Len(NoCall.list) = 1
<1>1. <<AssistObj>> \in Seq(Objs) \ {<<>>} /\ Len(<<AssistObj>>) = 1
  BY ReactorAssumption
<1>2. NoCall \in CallType
  BY <1>1 DEF NoCall, Call, CallType
<1>3. NoCall.kind = "none" /\ NoCall.n = 0 /\ NoCall.i = 1 /\ NoCall.list = <<AssistObj>>
  BY DEF NoCall, Call
<1> QED BY <1>1, <1>2, <1>3

LEMMA TheReactor ==
  ASSUME IInv, NEW t \in All
  PROVE  /\ Obj(t) \in Objs /\ Rtor(t) \in Reactors /\ Rtor(t) = ReactorOf[Obj(t)]
         /\ call[t].i \in DOMAIN call[t].list /\ call[t] \in CallType
<1>1. call[t] \in CallType  BY DEF IInv, Types
<1>2. CASE t \in Threads
  <2>1. call[t].i \in 1 .. Len(call[t].list)
    BY <1>2 DEF IInv, ThreadInv, Control
  <2> QED BY <1>1, <2>1, ReactorAssumption DEF CallType, Obj, Rtor
<1>3. CASE t = Assist
  <2>1. call[t].list = <<AssistObj>> /\ call[t].i = 1
    BY <1>3 DEF IInv, AssistInv
  <2> QED BY <1>1, <2>1, ReactorAssumption DEF CallType, Obj, Rtor
<1> QED BY <1>2, <1>3 DEF All

\* t goes to p with call c.
Goes(t, p, c) == at' = [at EXCEPT ![t] = p] /\ call' = [call EXCEPT ![t] = c]

LEMMA GoesFacts ==
  ASSUME IInv, NEW t \in All, NEW p \in Places, NEW c \in CallType, Goes(t, p, c),
         slots' = slots,
         cur_blocking_waiters' \in [Reactors -> Int], signalled_notifier' \in [Reactors -> BOOLEAN]
  PROVE  /\ Types' /\ Moves(t) /\ at'[t] = p /\ call'[t] = c
         /\ At(t)' = Where(p, c)
<1>1. at'[t] = p /\ call'[t] = c
  BY DEF IInv, Types, Goes
<1>2. Moves(t)
  BY DEF IInv, Types, Goes, Moves
<1>3. Types'
  BY DEF IInv, Types, Goes
<1> QED BY <1>1, <1>2, <1>3, AtWhere

\* A step of t to p with c that enters and leaves nothing, makes nothing
\* ready and takes nothing away that wakes.
LEMMA QuietCalm ==
  ASSUME IInv, NEW t \in Threads, NEW p \in Places, NEW c \in CallType, Goes(t, p, c),
         UNCHANGED <<cur_blocking_waiters, signalled_notifier, leaked, slots>>,
         ready' \ silent' \subseteq ready \ silent,
         p = "asleep" => c.then \in {"ticked", "left", "aborted"},
         Control(Where(p, c), c),
         Held(Where(p, c), c) = Held(At(t), call[t]),
         \/ Held(At(t), call[t]) = {}
         \/ c.kind = call[t].kind /\ c.list = call[t].list,
         \A j \in Checked(Where(p, c), c) :
           \/ j \in Checked(At(t), call[t]) /\ c.list[j] = call[t].list[j]
           \/ c.list[j] \notin ready'
  PROVE  IInv'
<1>1. t \in All  BY DEF All
<1>2. /\ cur_blocking_waiters' \in [Reactors -> Int] /\ signalled_notifier' \in [Reactors -> BOOLEAN]
      /\ slots' = slots /\ slots'[t] = slots[t]
  BY DEF IInv, Types
<1>3. /\ Types' /\ Moves(t) /\ at'[t] = p /\ call'[t] = c /\ At(t)' = Where(p, c)
  BY <1>1, <1>2, GoesFacts
<1>4. Alerts(t)
  <2>1. \A j \in Checked(At(t)', call'[t]) :
           \/ j \in Checked(At(t), call[t]) /\ call'[t].list[j] = call[t].list[j]
           \/ call'[t].list[j] \notin ready'
    BY <1>3
  <2> QED BY <1>1, <2>1, Calm
<1>5. Control(At(t)', call'[t]) /\ Held(At(t)', call'[t]) = Held(At(t), call[t])
  BY <1>3
<1>6. \/ Held(At(t), call[t]) = {}
      \/ call'[t].kind = call[t].kind /\ call'[t].list = call[t].list
  BY <1>3
<1>7. at'[t] = "asleep" => call'[t].then \in {"ticked", "left", "aborted"}
  BY <1>3
<1> QED BY <1>2, <1>3, <1>4, <1>5, <1>6, <1>7, Quiet

\* Nothing is entered by then nor is it after the step.
LEMMA QuietFree ==
  ASSUME IInv, NEW t \in Threads, NEW p \in Places, NEW c \in CallType, Goes(t, p, c),
         UNCHANGED <<cur_blocking_waiters, signalled_notifier, leaked, slots>>,
         ready' \ silent' \subseteq ready \ silent,
         at[t] # "asleep", Held(at[t], call[t]) = {},
         p \in {"idle", "joining", "tick", "ticked", "readout"},
         Control(p, c)
  PROVE  IInv'
<1>1. Where(p, c) = p /\ At(t) = at[t] /\ p # "asleep"
  BY DEF Where, At
<1>2. Held(p, c) = {}  BY Nothing
<1>3. Checked(p, c) = {}  BY NothingChecked
<1>4. Control(Where(p, c), c) /\ Held(Where(p, c), c) = {} /\ Checked(Where(p, c), c) = {}
  BY <1>1, <1>2, <1>3
<1>5. Held(At(t), call[t]) = {}
  BY <1>1
<1> QED BY <1>1, <1>4, <1>5, QuietCalm

LEMMA NoCallControl == \A p \in {"idle", "joining"} : Control(p, NoCall)
BY NoCallFacts DEF Control

\* Calls that tick.
LEMMA CallTickInv ==
  ASSUME IInv, NEW t \in Threads, NEW o \in BlockObjs, CallTick(t, o) \/ CallBlock(t, o)
  PROVE  IInv'
<1>0. PICK kind \in {"tick", "block"} : call' = [call EXCEPT ![t] = Call(kind, <<o>>, TRUE)]
  BY DEF CallTick, CallBlock
<1>1. PICK c : /\ c = [kind |-> kind, list |-> <<o>>, i |-> 1, n |-> 0, tick |-> TRUE,
                       found |-> FALSE, ok |-> TRUE, then |-> "none"]
               /\ call' = [call EXCEPT ![t] = c]
  BY <1>0 DEF Call
<1>2. <<o>> \in Seq(Objs) \ {<<>>} /\ Len(<<o>>) = 1
  BY ReactorAssumption
<1>3. c.kind = kind /\ c.list = <<o>> /\ c.i = 1 /\ c.n = 0
  BY <1>1
<1>4. c \in CallType
  <2>1. [kind |-> kind, list |-> <<o>>, i |-> 1, n |-> 0, tick |-> TRUE,
         found |-> FALSE, ok |-> TRUE, then |-> "none"] \in CallType
    BY <1>2 DEF CallType
  <2> QED BY <1>1, <2>1
<1>5. /\ Goes(t, "tick", c) /\ at[t] = "idle" /\ ready' \ silent' \subseteq ready \ silent
      /\ UNCHANGED <<cur_blocking_waiters, signalled_notifier, leaked, slots>>
  BY <1>1 DEF CallTick, CallBlock, Goto, Goes, worldVars, history
<1>6. Control("tick", c)
  <2>1. Len(c.list) = 1 /\ c.kind \in {"tick", "block"} /\ c.i = 1 /\ c.n = 0
    BY <1>2, <1>3
  <2> QED BY <2>1 DEF Control
<1>7. Held(at[t], call[t]) = {}
  BY <1>5, Nothing
<1>8. "tick" \in Places
  BY DEF Places
<1> QED BY <1>4, <1>5, <1>6, <1>7, <1>8, QuietFree

\* What a thread's place says of its call.
LEMMA ControlGives ==
  ASSUME NEW q, NEW c \in CallType, Control(q, c)
  PROVE  /\ Len(c.list) \in Nat /\ Len(c.list) >= 1 /\ c.i \in Nat /\ c.n \in Nat
         /\ 1 <= c.i /\ c.i <= Len(c.list) /\ c.n <= Len(c.list)
         /\ c.kind \in {"tick", "block"} => Len(c.list) = 1 /\ c.i = 1
         /\ q \in {"leave", "left"} => c.i <= c.n /\ c.kind \in {"block", "poll"}
         /\ q = "ospoll" => c.n = Len(c.list) /\ c.kind \in {"block", "poll"}
         /\ q \in {"entered", "abort", "aborted"} => c.n = c.i /\ c.kind = "poll"
         /\ q = "translate" => c.n = c.i - 1 /\ c.kind = "poll"
         /\ q \in {"tick", "ticked", "readout"} => c.n = 0 /\ c.kind \in {"tick", "block", "poll"}
         /\ q = "readout" => c.kind = "poll"
<1>1. Len(c.list) \in Nat /\ c.i \in Nat /\ c.n \in Nat  BY DEF CallType
<1>2. 1 <= c.i /\ c.i <= Len(c.list) /\ c.n <= Len(c.list)  BY <1>1 DEF Control
<1>3. /\ c.kind \in {"tick", "block"} => Len(c.list) = 1
  BY DEF Control
<1>4. q \in {"leave", "left"} => c.i <= c.n /\ c.kind \in {"block", "poll"}
  BY DEF Control
<1>5. q = "ospoll" => c.n = Len(c.list) /\ c.kind \in {"block", "poll"}
  BY DEF Control
<1>6. q \in {"entered", "abort", "aborted"} => c.n = c.i /\ c.kind = "poll"
  BY DEF Control
<1>7. q = "translate" => c.n = c.i - 1 /\ c.kind = "poll"
  BY DEF Control
<1>8. q \in {"tick", "ticked", "readout"} => c.n = 0 /\ c.kind \in {"tick", "block", "poll"}
  BY DEF Control
<1>9. q = "readout" => c.kind = "poll"
  BY DEF Control
<1>10. Len(c.list) >= 1
  BY <1>1, <1>2
<1>11. Len(c.list) = 1 => c.i = 1
  BY <1>1, <1>2
<1> QED BY <1>1, <1>2, <1>4, <1>5, <1>6, <1>7, <1>8, <1>9, <1>10, <1>11, <1>3

LEMMA ControlFrom ==
  ASSUME NEW q, NEW c \in CallType, 1 <= c.i, c.i <= Len(c.list), c.n <= Len(c.list),
         c.kind \in {"tick", "block"} => Len(c.list) = 1,
         \/ q \in {"leave", "left"} /\ c.i <= c.n /\ c.kind \in {"block", "poll"}
         \/ q = "ospoll" /\ c.n = Len(c.list) /\ c.kind \in {"block", "poll"}
         \/ q \in {"entered", "abort", "aborted"} /\ c.n = c.i /\ c.kind = "poll"
         \/ q = "translate" /\ c.n = c.i - 1 /\ c.kind = "poll"
         \/ q \in {"tick", "ticked"} /\ c.n = 0 /\ c.kind \in {"tick", "block", "poll"}
         \/ q = "readout" /\ c.n = 0 /\ c.kind = "poll"
  PROVE  Control(q, c)
<1>1. Len(c.list) \in Nat /\ c.i \in Nat /\ c.n \in Nat  BY DEF CallType
<1>2. c.i \in 1 .. Len(c.list) /\ c.n \in 0 .. Len(c.list)  BY <1>1
<1> QED BY <1>2 DEF Control

\* What the invariant says of a thread that is not asleep.
LEMMA ThreadFacts ==
  ASSUME IInv, NEW t \in Threads
  PROVE  /\ call[t] \in CallType /\ Control(At(t), call[t])
         /\ at[t] # "asleep" => At(t) = at[t] /\ Control(at[t], call[t])
         /\ call[t].i \in 1 .. Len(call[t].list) /\ call[t].n \in 0 .. Len(call[t].list)
         /\ Len(call[t].list) \in Nat
<1>1. call[t] \in CallType  BY DEF IInv, Types, All
<1>2. Control(At(t), call[t])  BY AtWhere DEF IInv, ThreadInv
<1>3. Len(call[t].list) \in Nat  BY <1>1 DEF CallType
<1> QED BY <1>1, <1>2, <1>3 DEF At, Control

LEMMA ReturnsInv ==
  ASSUME IInv, NEW t \in Threads, TickReturns(t) \/ BlockReturns(t)
  PROVE  IInv'
<1>1. /\ Goes(t, "idle", NoCall) /\ at[t] = "ticked" /\ ready' \ silent' \subseteq ready \ silent
      /\ UNCHANGED <<cur_blocking_waiters, signalled_notifier, leaked, slots>>
  BY DEF TickReturns, BlockReturns, Goes, Return, Goto
<1>2. Held(at[t], call[t]) = {}
  BY <1>1, Nothing
<1>3. "idle" \in Places /\ NoCall \in CallType /\ Control("idle", NoCall)
  BY NoCallFacts, NoCallControl DEF Places
<1> QED BY <1>1, <1>2, <1>3, QuietFree

LEMMA StopInv ==
  ASSUME IInv, NEW t \in Threads, StopAssist(t) \/ Joined(t)
  PROVE  IInv'
<1>1. PICK p \in {"idle", "joining"} :
        /\ Goto(t, p) /\ call' = call /\ at[t] \in {"idle", "joining"} /\ ready' \ silent' \subseteq ready \ silent
        /\ UNCHANGED <<cur_blocking_waiters, signalled_notifier, leaked, slots>>
  BY DEF StopAssist, Joined, worldVars, history
<1>2. call[t] \in CallType /\ Control(at[t], call[t])
  BY <1>1, ThreadFacts
<1>3. Goes(t, p, call[t])
  BY <1>1 DEF IInv, Types, Goes, Goto, All
<1>4. Held(at[t], call[t]) = {}
  BY <1>1, Nothing
<1>5. p \in Places /\ Control(p, call[t])
  BY <1>1, <1>2 DEF Places, Control
<1> QED BY <1>1, <1>2, <1>3, <1>4, <1>5, QuietFree

LEMMA BlockLeftInv ==
  ASSUME IInv, NEW t \in Threads, BlockLeft(t)
  PROVE  IInv'
<1>1. /\ at[t] = "left" /\ call[t].kind = "block" /\ ready' \ silent' \subseteq ready \ silent
      /\ UNCHANGED <<cur_blocking_waiters, signalled_notifier, leaked, slots>>
  BY DEF BlockLeft, worldVars, history
<1>2. /\ call[t] \in CallType /\ Control("left", call[t]) /\ Len(call[t].list) \in Nat
  BY <1>1, ThreadFacts
<1>3. Len(call[t].list) = 1 /\ call[t].i = 1 /\ call[t].n = 1
  <2>1. /\ call[t].n \in Nat /\ call[t].n <= Len(call[t].list) /\ call[t].i <= call[t].n
        /\ call[t].kind \in {"tick", "block"} => Len(call[t].list) = 1 /\ call[t].i = 1
    BY <1>2, ControlGives
  <2>2. Len(call[t].list) = 1 /\ call[t].i = 1  BY <1>1, <2>1
  <2>3. call[t].n <= 1 /\ 1 <= call[t].n  BY <2>1, <2>2
  <2>4. call[t].n = 1  BY <2>1, <2>3
  <2> QED BY <2>2, <2>4
<1>4. Held(at[t], call[t]) = {}
  BY <1>1, <1>3 DEF Held
<1>5. CASE Return(t)
  <2>1. Goes(t, "idle", NoCall)
    BY <1>5 DEF Goes, Return, Goto
  <2>2. "idle" \in Places /\ NoCall \in CallType /\ Control("idle", NoCall)
    BY NoCallFacts, NoCallControl DEF Places
  <2> QED BY <1>1, <1>4, <2>1, <2>2, QuietFree
<1>6. CASE Goto(t, "tick") /\ call' = [call EXCEPT ![t].n = 0]
  <2>1. PICK d : d = [call[t] EXCEPT !.n = 0]  OBVIOUS
  <2>2. d \in CallType /\ d.n = 0 /\ d.i = call[t].i /\ d.kind = call[t].kind /\ d.list = call[t].list
    BY <1>2, <2>1 DEF CallType
  <2>3. Goes(t, "tick", d)
    BY <1>6, <2>1 DEF Goes, Goto
  <2>4. Control("tick", d) /\ "tick" \in Places
    <3>1. d.kind \in {"tick", "block", "poll"} /\ d.i = 1 /\ d.n = 0 /\ Len(d.list) = 1
      BY <1>1, <1>3, <2>2
    <3>2. 1 <= d.i /\ d.i <= Len(d.list) /\ d.n <= Len(d.list)
      BY <3>1
    <3>3. Control("tick", d)
      BY <2>2, <3>1, <3>2, ControlFrom
    <3> QED BY <3>3 DEF Places
  <2> QED BY <1>1, <1>4, <2>2, <2>3, <2>4, QuietFree
<1> QED BY <1>5, <1>6 DEF BlockLeft

LEMMA PollEndsInv ==
  ASSUME IInv, NEW t \in Threads, PollEnds(t)
  PROVE  IInv'
<1>1. /\ at[t] = "ospoll" /\ ready' \ silent' \subseteq ready \ silent
      /\ UNCHANGED <<cur_blocking_waiters, signalled_notifier, leaked, slots>>
  BY DEF PollEnds, worldVars, history, rtorVars
<1>2. /\ call[t] \in CallType /\ Control("ospoll", call[t]) /\ Len(call[t].list) \in Nat
      /\ At(t) = "ospoll"
  BY <1>1, ThreadFacts
<1>3. PICK ok \in BOOLEAN : call' = [call EXCEPT ![t].ok = ok, ![t].i = 1]
  BY DEF PollEnds
<1>4. PICK d : d = [call[t] EXCEPT !.ok = ok, !.i = 1]  OBVIOUS
<1>5. d \in CallType /\ d.i = 1 /\ d.n = call[t].n /\ d.kind = call[t].kind /\ d.list = call[t].list
  BY <1>2, <1>4 DEF CallType
<1>6. Goes(t, "leave", d)
  BY <1>3, <1>4, ZenonT(60) DEF PollEnds, Goes, Goto, IInv, Types
<1>7. Where("leave", d) = "leave" /\ "leave" \in Places
  BY DEF Where, Places
<1>8. Control("leave", d)
  BY <1>2, <1>5, ControlGives, ControlFrom
<1>9. Held("leave", d) = Held(At(t), call[t])
  BY <1>2, <1>5 DEF Held
<1>10. Checked("leave", d) = {}
  BY NothingChecked
<1> QED BY <1>1, <1>5, <1>6, <1>7, <1>8, <1>9, <1>10, QuietCalm

LEMMA CallPollInv ==
  ASSUME IInv, NEW t \in Threads, NEW l \in PollLists, NEW b \in BOOLEAN, CallPoll(t, l, b)
  PROVE  IInv'
<1>1. PICK c : /\ c = [kind |-> "poll", list |-> l, i |-> 1, n |-> 0, tick |-> b,
                       found |-> FALSE, ok |-> TRUE, then |-> "none"]
               /\ call' = [call EXCEPT ![t] = c]
  BY DEF CallPoll, Call
<1>2. l \in Seq(Objs) \ {<<>>}
  BY ReactorAssumption
<1>3. c.kind = "poll" /\ c.list = l /\ c.i = 1 /\ c.n = 0
  BY <1>1
<1>4. c \in CallType
  <2>1. [kind |-> "poll", list |-> l, i |-> 1, n |-> 0, tick |-> b,
         found |-> FALSE, ok |-> TRUE, then |-> "none"] \in CallType
    BY <1>2 DEF CallType
  <2> QED BY <1>1, <2>1
<1>5. /\ Goes(t, "readout", c) /\ at[t] = "idle" /\ ready' \ silent' \subseteq ready \ silent
      /\ UNCHANGED <<cur_blocking_waiters, signalled_notifier, leaked, slots>>
  BY <1>1 DEF CallPoll, Goto, Goes, worldVars, history, rtorVars
<1>6. Control("readout", c)
  <2>1. Len(l) \in Nat /\ 1 <= Len(l)
    BY <1>2
  <2>2. 1 <= c.i /\ c.i <= Len(c.list) /\ c.n <= Len(c.list)
    BY <1>3, <2>1
  <2> QED BY <1>3, <1>4, <2>2, ControlFrom
<1>7. Held(at[t], call[t]) = {} /\ "readout" \in Places
  BY <1>5, Nothing DEF Places
<1> QED BY <1>4, <1>5, <1>6, <1>7, QuietFree

LEMMA ReadoutInv ==
  ASSUME IInv, NEW t \in Threads, Readout(t)
  PROVE  IInv'
<1>1. PICK p \in {"tick", "ticked"} : Goto(t, p)
  BY DEF Readout
<1>2. /\ at[t] = "readout" /\ call' = call /\ ready' \ silent' \subseteq ready \ silent
      /\ UNCHANGED <<cur_blocking_waiters, signalled_notifier, leaked, slots>>
  BY DEF Readout, worldVars, history
<1>3. call[t] \in CallType /\ Control("readout", call[t])
  BY <1>2, ThreadFacts
<1>4. Goes(t, p, call[t])
  BY <1>1, <1>2 DEF IInv, Types, Goes, Goto, All
<1>5. Control(p, call[t])
  BY <1>3, ControlGives, ControlFrom
<1>6. Held(at[t], call[t]) = {} /\ p \in Places
  BY <1>2, Nothing DEF Places
<1> QED BY <1>2, <1>3, <1>4, <1>5, <1>6, QuietFree

LEMMA ReadoutDoneInv ==
  ASSUME IInv, NEW t \in Threads, ReadoutDone(t)
  PROVE  IInv'
<1>1. /\ at[t] = "ticked" /\ call[t].kind = "poll" /\ ready' \ silent' \subseteq ready \ silent
      /\ UNCHANGED <<cur_blocking_waiters, signalled_notifier, leaked, slots>>
  BY DEF ReadoutDone, worldVars, history
<1>2. call[t] \in CallType /\ Control("ticked", call[t]) /\ At(t) = "ticked"
  BY <1>1, ThreadFacts
<1>3. Held(at[t], call[t]) = {} /\ Held(At(t), call[t]) = {}
  BY <1>1, <1>2, Nothing
<1>4. /\ call[t].n = 0 /\ call[t].i \in Nat /\ Len(call[t].list) \in Nat
      /\ call[t].i >= 1 /\ Len(call[t].list) >= 1
  BY <1>2, ControlGives
<1>5. CASE Return(t)
  <2>1. Goes(t, "idle", NoCall)
    BY <1>5 DEF Goes, Return, Goto
  <2>2. "idle" \in Places /\ NoCall \in CallType /\ Control("idle", NoCall)
    BY NoCallFacts, NoCallControl DEF Places
  <2> QED BY <1>1, <1>3, <2>1, <2>2, QuietFree
<1>6. CASE /\ call[t].i < Len(call[t].list) /\ Goto(t, "readout")
           /\ call' = [call EXCEPT ![t].i = call[t].i + 1,
                                   ![t].found = (call[t].found \/ Obj(t) \in ready)]
  <2>0. PICK f \in BOOLEAN : f = (call[t].found \/ Obj(t) \in ready)
    OBVIOUS
  <2>10. PICK x \in Nat : x = call[t].i + 1  BY <1>4
  <2>1. PICK d : d = [call[t] EXCEPT !.i = x, !.found = f]  OBVIOUS
  <2>2. /\ d \in CallType /\ d.i = x /\ d.n = call[t].n
        /\ d.kind = call[t].kind /\ d.list = call[t].list
    BY <1>2, <2>1 DEF CallType
  <2>3. Goes(t, "readout", d)
    <3>1. call' = [call EXCEPT ![t].i = x, ![t].found = f]
      BY <1>6, <2>0, <2>10
    <3>2. call' = [call EXCEPT ![t] = d]
      BY <2>1, <3>1 DEF IInv, Types
    <3> QED BY <1>6, <3>2 DEF Goes, Goto
  <2>4. 1 <= d.i /\ d.i <= Len(d.list) /\ d.n <= Len(d.list)
    BY <1>4, <1>6, <2>2, <2>10
  <2>5. Control("readout", d) /\ "readout" \in Places
    BY <1>1, <1>4, <2>2, <2>4, ControlFrom DEF Places
  <2> QED BY <1>1, <1>3, <2>2, <2>3, <2>5, QuietFree
<1>7. CASE Goto(t, "translate") /\ call' = [call EXCEPT ![t].i = 1, ![t].tick = TRUE]
  <2>1. PICK d : d = [call[t] EXCEPT !.i = 1, !.tick = TRUE]  OBVIOUS
  <2>2. /\ d \in CallType /\ d.i = 1 /\ d.n = call[t].n
        /\ d.kind = call[t].kind /\ d.list = call[t].list
    BY <1>2, <2>1 DEF CallType
  <2>3. Goes(t, "translate", d)
    BY <1>7, <2>1 DEF Goes, Goto, IInv, Types
  <2>4. 1 <= d.i /\ d.i <= Len(d.list) /\ d.n <= Len(d.list) /\ d.n = d.i - 1
    BY <1>4, <2>2
  <2>5. Control("translate", d) /\ "translate" \in Places
    BY <1>1, <2>2, <2>4, ControlFrom DEF Places
  <2>6. Held("translate", d) = {} /\ Checked("translate", d) = {}
    BY <1>4, <2>2 DEF Held, Checked
  <2>7. Where("translate", d) = "translate"
    BY DEF Where
  <2> QED BY <1>1, <1>3, <2>2, <2>3, <2>5, <2>6, <2>7, QuietCalm
<1> QED BY <1>5, <1>6, <1>7 DEF ReadoutDone

LEMMA TranslateFailsInv ==
  ASSUME IInv, NEW t \in Threads, TranslateFails(t)
  PROVE  IInv'
<1>1. /\ at[t] = "translate" /\ ready' \ silent' \subseteq ready \ silent
      /\ UNCHANGED <<cur_blocking_waiters, signalled_notifier, leaked, slots>>
  BY DEF TranslateFails, worldVars, history, rtorVars
<1>2. call[t] \in CallType /\ Control("translate", call[t]) /\ At(t) = "translate"
  BY <1>1, ThreadFacts
<1>3. /\ call[t].n \in Nat /\ call[t].i \in Nat /\ Len(call[t].list) \in Nat
      /\ call[t].n <= Len(call[t].list) /\ Len(call[t].list) >= 1 /\ call[t].kind = "poll"
  BY <1>2, ControlGives
<1>4. CASE call[t].n = 0
  <2>1. Goes(t, "idle", NoCall)
    BY <1>4 DEF TranslateFails, Goes, Return, Goto
  <2>2. "idle" \in Places /\ NoCall \in CallType /\ Control("idle", NoCall)
    BY NoCallFacts, NoCallControl DEF Places
  <2>3. Held(at[t], call[t]) = {}
    BY <1>4, Nothing
  <2> QED BY <1>1, <2>1, <2>2, <2>3, QuietFree
<1>5. CASE call[t].n # 0
  <2>1. PICK d : d = [call[t] EXCEPT !.i = 1, !.ok = FALSE]  OBVIOUS
  <2>2. /\ d \in CallType /\ d.i = 1 /\ d.n = call[t].n
        /\ d.kind = call[t].kind /\ d.list = call[t].list
    BY <1>2, <2>1 DEF CallType
  <2>3. Goes(t, "leave", d)
    BY <1>5, <2>1 DEF TranslateFails, Goes, Goto, IInv, Types
  <2>4. 1 <= d.i /\ d.i <= Len(d.list) /\ d.n <= Len(d.list) /\ d.i <= d.n
    BY <1>3, <1>5, <2>2
  <2>5. Control("leave", d) /\ "leave" \in Places
    BY <1>3, <2>2, <2>4, ControlFrom DEF Places
  <2>6. Held("leave", d) = Held(At(t), call[t])
    BY <1>2, <2>2 DEF Held
  <2>7. Checked("leave", d) = {} /\ Where("leave", d) = "leave"
    BY NothingChecked DEF Where
  <2> QED BY <1>1, <2>2, <2>3, <2>5, <2>6, <2>7, QuietCalm
<1> QED BY <1>4, <1>5

LEMMA RereadInv ==
  ASSUME IInv, NEW t \in Threads, Reread(t)
  PROVE  IInv'
<1>1. /\ at[t] = "entered" /\ ready' = ready /\ silent' = silent
      /\ UNCHANGED <<cur_blocking_waiters, signalled_notifier, leaked, slots>>
  BY DEF Reread, worldVars, history
<1>2. call[t] \in CallType /\ Control("entered", call[t]) /\ At(t) = "entered"
  BY <1>1, ThreadFacts
<1>3. /\ call[t].n \in Nat /\ call[t].i \in Nat /\ Len(call[t].list) \in Nat
      /\ call[t].n <= Len(call[t].list) /\ Len(call[t].list) >= 1 /\ call[t].kind = "poll"
      /\ call[t].n = call[t].i /\ 1 <= call[t].i /\ call[t].i <= Len(call[t].list)
  BY <1>2, ControlGives
<1>4. CASE Goto(t, "abort") /\ call' = call
  <2>1. Goes(t, "abort", call[t])
    BY <1>4 DEF Goes, Goto, IInv, Types, All
  <2>2. Control("abort", call[t]) /\ "abort" \in Places
    BY <1>2, <1>3, ControlFrom DEF Places
  <2>3. Held("abort", call[t]) = Held(At(t), call[t])
    BY <1>2 DEF Held
  <2>4. Checked("abort", call[t]) = {} /\ Where("abort", call[t]) = "abort"
    BY NothingChecked DEF Where
  <2> QED BY <1>1, <1>2, <2>1, <2>2, <2>3, <2>4, QuietCalm
<1>5. CASE /\ Obj(t) \notin ready /\ call[t].i < Len(call[t].list)
           /\ Goto(t, "translate") /\ call' = [call EXCEPT ![t].i = call[t].i + 1]
  <2>1. PICK x \in Nat : x = call[t].i + 1  BY <1>3
  <2>2. PICK d : d = [call[t] EXCEPT !.i = x]  OBVIOUS
  <2>3. /\ d \in CallType /\ d.i = x /\ d.n = call[t].n
        /\ d.kind = call[t].kind /\ d.list = call[t].list
    BY <1>2, <2>2 DEF CallType
  <2>4. Goes(t, "translate", d)
    BY <1>5, <2>1, <2>2 DEF Goes, Goto, IInv, Types
  <2>5. 1 <= d.i /\ d.i <= Len(d.list) /\ d.n <= Len(d.list) /\ d.n = d.i - 1
    BY <1>3, <1>5, <2>1, <2>3
  <2>6. Control("translate", d) /\ "translate" \in Places
    BY <1>3, <2>3, <2>5, ControlFrom DEF Places
  <2>7. Held("translate", d) = Held(At(t), call[t])
    BY <1>2, <2>3 DEF Held
  <2>8. Where("translate", d) = "translate"
    BY DEF Where
  <2>9. \A j \in Checked("translate", d) :
          \/ j \in Checked(At(t), call[t]) /\ d.list[j] = call[t].list[j]
          \/ d.list[j] \notin ready'
    BY <1>1, <1>2, <1>3, <1>5, <2>1, <2>3 DEF Checked, Obj
  <2> QED BY <1>1, <2>3, <2>4, <2>6, <2>7, <2>8, <2>9, QuietCalm
<1>6. CASE Obj(t) \notin ready /\ call[t].i = Len(call[t].list) /\ Goto(t, "ospoll") /\ call' = call
  <2>1. Goes(t, "ospoll", call[t])
    BY <1>6 DEF Goes, Goto, IInv, Types, All
  <2>2. Control("ospoll", call[t]) /\ "ospoll" \in Places
    BY <1>2, <1>3, <1>6, ControlFrom DEF Places
  <2>3. Held("ospoll", call[t]) = Held(At(t), call[t])
    BY <1>2 DEF Held
  <2>4. Where("ospoll", call[t]) = "ospoll"
    BY DEF Where
  <2>5. \A j \in Checked("ospoll", call[t]) :
          j \in Checked(At(t), call[t]) \/ call[t].list[j] \notin ready'
    BY <1>1, <1>2, <1>3, <1>6 DEF Checked, Obj
  <2> QED BY <1>1, <1>2, <2>1, <2>2, <2>3, <2>4, <2>5, QuietCalm
<1> QED BY <1>4, <1>5, <1>6 DEF Reread

LEMMA PollLeftInv ==
  ASSUME IInv, NEW t \in Threads, PollLeft(t)
  PROVE  IInv'
<1>1. /\ at[t] = "left" /\ ready' \ silent' \subseteq ready \ silent
      /\ UNCHANGED <<cur_blocking_waiters, signalled_notifier, leaked, slots>>
  BY DEF PollLeft, worldVars, history
<1>2. call[t] \in CallType /\ Control("left", call[t]) /\ At(t) = "left"
  BY <1>1, ThreadFacts
<1>3. /\ call[t].n \in Nat /\ call[t].i \in Nat /\ Len(call[t].list) \in Nat
      /\ call[t].n <= Len(call[t].list) /\ Len(call[t].list) >= 1
      /\ 1 <= call[t].i /\ call[t].i <= call[t].n
  BY <1>2, ControlGives
<1>4. call[t].kind = "poll"
  BY DEF PollLeft
<1>5. CASE /\ call[t].i < call[t].n
           /\ Goto(t, "leave") /\ call' = [call EXCEPT ![t].i = call[t].i + 1]
  <2>1. PICK x \in Nat : x = call[t].i + 1  BY <1>3
  <2>2. PICK d : d = [call[t] EXCEPT !.i = x]  OBVIOUS
  <2>3. /\ d \in CallType /\ d.i = x /\ d.n = call[t].n
        /\ d.kind = call[t].kind /\ d.list = call[t].list
    BY <1>2, <2>2 DEF CallType
  <2>4. Goes(t, "leave", d)
    BY <1>5, <2>1, <2>2 DEF Goes, Goto, IInv, Types
  <2>5. 1 <= d.i /\ d.i <= Len(d.list) /\ d.n <= Len(d.list) /\ d.i <= d.n
    BY <1>3, <1>5, <2>1, <2>3
  <2>6. Control("leave", d) /\ "leave" \in Places
    BY <1>4, <2>3, <2>5, ControlFrom DEF Places
  <2>7. Held("leave", d) = Held(At(t), call[t])
    BY <1>2, <1>3, <2>1, <2>3 DEF Held
  <2>8. Checked("leave", d) = {} /\ Where("leave", d) = "leave"
    BY NothingChecked DEF Where
  <2> QED BY <1>1, <2>3, <2>4, <2>6, <2>7, <2>8, QuietCalm
<1>6. CASE call[t].i = call[t].n
  <2>1. Held(at[t], call[t]) = {}
    BY <1>1, <1>3, <1>6 DEF Held
  <2>2. CASE Return(t)
    <3>1. Goes(t, "idle", NoCall)
      BY <2>2 DEF Goes, Return, Goto
    <3>2. "idle" \in Places /\ NoCall \in CallType /\ Control("idle", NoCall)
      BY NoCallFacts, NoCallControl DEF Places
    <3> QED BY <1>1, <2>1, <3>1, <3>2, QuietFree
  <2>3. CASE Goto(t, "readout") /\ call' = [call EXCEPT ![t] = Call("poll", call[t].list, TRUE)]
    <3>1. PICK c : /\ c = [kind |-> "poll", list |-> call[t].list, i |-> 1, n |-> 0, tick |-> TRUE,
                           found |-> FALSE, ok |-> TRUE, then |-> "none"]
                   /\ call' = [call EXCEPT ![t] = c]
      BY <2>3 DEF Call
    <3>2. call[t].list \in Seq(Objs) \ {<<>>}
      BY <1>2 DEF CallType
    <3>3. c.kind = "poll" /\ c.list = call[t].list /\ c.i = 1 /\ c.n = 0
      BY <3>1
    <3>4. c \in CallType
      <4>1. [kind |-> "poll", list |-> call[t].list, i |-> 1, n |-> 0, tick |-> TRUE,
             found |-> FALSE, ok |-> TRUE, then |-> "none"] \in CallType
        BY <3>2 DEF CallType
      <4> QED BY <3>1, <4>1
    <3>5. Goes(t, "readout", c)
      BY <2>3, <3>1 DEF Goes, Goto
    <3>6. 1 <= c.i /\ c.i <= Len(c.list) /\ c.n <= Len(c.list)
      BY <1>3, <3>3
    <3>7. Control("readout", c) /\ "readout" \in Places
      BY <3>3, <3>4, <3>6, ControlFrom DEF Places
    <3> QED BY <1>1, <2>1, <3>4, <3>5, <3>7, QuietFree
  <2>4. \/ call[t].i < call[t].n
        \/ Goto(t, "readout") /\ call' = [call EXCEPT ![t] = Call("poll", call[t].list, TRUE)]
        \/ Return(t)
    BY DEF PollLeft
  <2>5. ~(call[t].i < call[t].n)  BY <1>3, <1>6
  <2> QED BY <2>2, <2>3, <2>4, <2>5
<1> QED BY <1>3, <1>5, <1>6 DEF PollLeft

\* The end of a sleep changes nothing but whether t sleeps.
LEMMA SleepEndsInv ==
  ASSUME IInv, NEW t \in Threads, SleepEnds(t)
  PROVE  IInv'
<1>1. /\ at[t] = "asleep" /\ ready' \ silent' \subseteq ready \ silent
      /\ UNCHANGED <<cur_blocking_waiters, signalled_notifier, leaked, slots>>
  BY DEF SleepEnds, worldVars, history
<1>2. /\ call[t] \in CallType /\ Control(At(t), call[t]) /\ At(t) = call[t].then
      /\ call[t].then \in {"ticked", "left", "aborted"}
  BY <1>1, ThreadFacts DEF At, IInv, ThreadInv
<1>3. CASE UNCHANGED <<at, call>>
  <2>1. Goes(t, at[t], call[t])
    BY <1>3 DEF Goes, IInv, Types, All
  <2>2. Where(at[t], call[t]) = At(t) /\ at[t] \in Places
    BY <1>1 DEF Where, At, Places
  <2>3. Control(Where(at[t], call[t]), call[t]) /\ Checked(Where(at[t], call[t]), call[t]) = {}
    BY <1>2, <2>2, NothingChecked
  <2>4. Held(Where(at[t], call[t]), call[t]) = Held(At(t), call[t])
    BY <2>2
  <2> QED BY <1>1, <1>2, <2>1, <2>2, <2>3, <2>4, QuietCalm
<1>4. CASE Goto(t, call[t].then) /\ call' = [call EXCEPT ![t].then = "none"]
  <2>1. PICK d : d = [call[t] EXCEPT !.then = "none"]  OBVIOUS
  <2>2. /\ d \in CallType /\ d.i = call[t].i /\ d.n = call[t].n
        /\ d.kind = call[t].kind /\ d.list = call[t].list
    BY <1>2, <2>1 DEF CallType
  <2>3. Goes(t, call[t].then, d)
    BY <1>4, <2>1 DEF Goes, Goto, IInv, Types
  <2>4. Where(call[t].then, d) = At(t) /\ call[t].then \in Places /\ call[t].then # "asleep"
    BY <1>2 DEF Where, Places
  <2>5. Control(At(t), d)
    BY <1>2, <2>2 DEF Control
  <2>6. Held(At(t), d) = Held(At(t), call[t]) /\ Checked(At(t), d) = {}
    BY <1>2, <2>2, NothingChecked DEF Held
  <2> QED BY <1>1, <2>2, <2>3, <2>4, <2>5, <2>6, QuietCalm
<1> QED BY <1>3, <1>4 DEF SleepEnds

\* rtor_notify_other_threads tells everyone: after a tick of t whose result is
\* that something happened, no thread blocks on the reactor unless its
\* notifier is signalled.
LEMMA NotifyTells ==
  ASSUME IInv, NEW t \in All, Notify(t)
  PROVE  /\ signalled_notifier' \in [Reactors -> BOOLEAN]
         /\ \A r \in Reactors : signalled_notifier[r] => signalled_notifier'[r]
         /\ \/ signalled_notifier'[Rtor(t)]
            \/ \A u \in Threads : ~Blocking(u, Rtor(t))
<1>1. Rtor(t) \in Reactors  BY TheReactor
<1>2. CASE cur_blocking_waiters[Rtor(t)] = 0 /\ UNCHANGED signalled_notifier
  <2>1. Cardinality(Blockers(Rtor(t))) <= 0 /\ IsFiniteSet(Blockers(Rtor(t)))
    BY <1>1, <1>2, ReactorAssumption, FS_Subset DEF IInv, Waiters, Blockers
  <2>2. Blockers(Rtor(t)) = {}
    BY <2>1, FS_CardinalityType, FS_EmptySet
  <2> QED BY <1>2, <2>2 DEF Blockers, IInv, Types
<1>3. CASE signalled_notifier' = [signalled_notifier EXCEPT ![Rtor(t)] = TRUE]
  BY <1>1, <1>3 DEF IInv, Types
<1> QED BY <1>2, <1>3 DEF Notify

\* A tick of t goes on at "ticked", at once or after a sleep.
LEMMA TickGoes ==
  ASSUME IInv, NEW t \in All, NEW S, NEW notify, NEW deadlines,
         TickResult(t, S, notify, deadlines)
  PROVE  \E p \in {"ticked", "asleep"}, d \in CallType :
           /\ Goes(t, p, d) /\ d.i = call[t].i /\ d.n = call[t].n
           /\ d.kind = call[t].kind /\ d.list = call[t].list
           /\ Where(p, d) = "ticked"
<1>1. call[t] \in CallType  BY DEF IInv, Types
<1>2. CASE Goto(t, "ticked") /\ UNCHANGED call
  <2>1. Goes(t, "ticked", call[t]) /\ Where("ticked", call[t]) = "ticked"
    BY <1>2 DEF Goes, Goto, IInv, Types, Where
  <2> QED BY <1>1, <2>1
<1>3. CASE SleepWhileSignalled(t, "ticked")
  <2>1. PICK d : d = [call[t] EXCEPT !.then = "ticked"]  OBVIOUS
  <2>2. /\ d \in CallType /\ d.i = call[t].i /\ d.n = call[t].n /\ d.then = "ticked"
        /\ d.kind = call[t].kind /\ d.list = call[t].list
    BY <1>1, <2>1 DEF CallType
  <2>3. Goes(t, "asleep", d)
    BY <1>3, <2>1 DEF SleepWhileSignalled, Goes, Goto, IInv, Types
  <2>4. Where("asleep", d) = "ticked"
    BY <2>2 DEF Where
  <2> QED BY <2>2, <2>3, <2>4
<1> QED BY <1>2, <1>3 DEF TickResult, Notify

\* The kinds of ticks.
Tick(t) == TickWork(t) \/ TickTimer(t) \/ TickSilent(t) \/ TickNothing(t) \/ TickFails(t)

LEMMA TickResults ==
  ASSUME NEW t \in All, Tick(t)
  PROVE  /\ at[t] = "tick"
         /\ \E S \in SUBSET ObjsOf(Rtor(t)), notify \in BOOLEAN,
               deadlines \in SUBSET (Deadlines \cup {Never}) :
              TickResult(t, S, notify, deadlines)
BY DEF Tick, TickWork, TickTimer, TickSilent, TickNothing, TickFails, ObjsOf

LEMMA TickEffect ==
  ASSUME IInv, NEW t \in All, NEW S \in SUBSET ObjsOf(Rtor(t)), NEW notify \in BOOLEAN,
         NEW deadlines, TickResult(t, S, notify, deadlines)
  PROVE  /\ UNCHANGED <<cur_blocking_waiters, leaked, slots>>
         /\ signalled_notifier' \in [Reactors -> BOOLEAN]
         /\ \A o \in Objs : (\E u \in Threads : Blocking(u, ReactorOf[o]))
                              => (Awake(o) => (Awake(o))')
<1>0. /\ Rtor(t) \in Reactors /\ \A o \in Objs : ReactorOf[o] \in Reactors
  BY TheReactor, ReactorAssumption
<1>1. UNCHANGED <<cur_blocking_waiters, leaked, slots>> /\ ready' = ready \cup S
  BY DEF TickResult
<1>2. CASE notify = FALSE
  <2>1. signalled_notifier' = signalled_notifier /\ silent' = silent \cup (S \ ready)
    BY <1>2 DEF TickResult
  <2>2. \A o : Awake(o) => (Awake(o))'
    BY <1>1, <2>1 DEF Awake
  <2> QED BY <1>1, <2>1, <2>2 DEF IInv, Types
<1>3. CASE notify = TRUE
  <2>1. Notify(t) /\ silent' = silent \ ObjsOf(Rtor(t))
    BY <1>3 DEF TickResult
  <2>2. /\ signalled_notifier' \in [Reactors -> BOOLEAN]
        /\ \A r \in Reactors : signalled_notifier[r] => signalled_notifier'[r]
        /\ signalled_notifier'[Rtor(t)] \/ \A u \in Threads : ~Blocking(u, Rtor(t))
    BY <2>1, NotifyTells
  <2>3. ASSUME NEW o \in Objs, \E u \in Threads : Blocking(u, ReactorOf[o]), Awake(o)
        PROVE  (Awake(o))'
    <3>1. CASE ReactorOf[o] = Rtor(t)
      BY <2>2, <2>3, <3>1 DEF Awake
    <3>2. CASE ReactorOf[o] # Rtor(t)
      <4>1. o \notin ObjsOf(Rtor(t))
        BY <3>2 DEF ObjsOf
      <4>2. o \in ready' \ silent' => o \in ready \ silent
        BY <1>1, <2>1, <4>1
      <4> QED BY <1>0, <2>2, <2>3, <4>2 DEF Awake
    <3> QED BY <3>1, <3>2
  <2> QED BY <1>1, <2>2, <2>3
<1> QED BY <1>2, <1>3

LEMMA TickInv ==
  ASSUME IInv, NEW t \in All, Tick(t)
  PROVE  IInv'
<1>0. PICK S \in SUBSET ObjsOf(Rtor(t)), notify \in BOOLEAN,
           deadlines \in SUBSET (Deadlines \cup {Never}) : TickResult(t, S, notify, deadlines)
  BY TickResults
<1>1. /\ at[t] = "tick" /\ UNCHANGED <<cur_blocking_waiters, leaked, slots>>
      /\ signalled_notifier' \in [Reactors -> BOOLEAN]
      /\ \A o \in Objs : (\E u \in Threads : Blocking(u, ReactorOf[o]))
                            => (Awake(o) => (Awake(o))')
  BY <1>0, TickEffect, TickResults
<1>2. PICK p \in {"ticked", "asleep"}, d \in CallType :
         /\ Goes(t, p, d) /\ d.i = call[t].i /\ d.n = call[t].n
         /\ d.kind = call[t].kind /\ d.list = call[t].list
         /\ Where(p, d) = "ticked"
  BY <1>0, TickGoes
<1>3. cur_blocking_waiters' \in [Reactors -> Int] /\ p \in Places
  BY <1>1 DEF IInv, Types, Places
<1>4. /\ Types' /\ Moves(t) /\ at'[t] = p /\ call'[t] = d /\ At(t)' = "ticked"
  BY <1>1, <1>2, <1>3, GoesFacts
<1>5. At(t) = "tick"  BY <1>1 DEF At
<1>6. Checked(At(t)', call'[t]) = {} /\ Held(At(t)', call'[t]) = {} /\ Held(At(t), call[t]) = {}
  BY <1>4, <1>5, NothingChecked, Nothing
<1>7. Alerts(t)
  BY <1>1, <1>6 DEF Alerts
<1>8. CASE t \in Threads
  <2>1. Control("tick", call[t]) /\ call[t] \in CallType
    BY <1>1, <1>8, ThreadFacts
  <2>2. Control("ticked", d)
    BY <1>2, <2>1 DEF Control
  <2>3. at'[t] = "asleep" => call'[t].then \in {"ticked", "left", "aborted"}
    BY <1>2, <1>4 DEF Where
  <2>4. slots'[t] = slots[t] /\ Control(At(t)', call'[t]) /\ Held(At(t)', call'[t]) = Held(At(t), call[t])
    BY <1>1, <1>4, <1>6, <2>2
  <2> QED BY <1>1, <1>4, <1>6, <1>7, <1>8, <2>3, <2>4, Quiet
<1>9. CASE t = Assist
  <2>1. AssistInv(at[t], call[t])  BY <1>9 DEF IInv
  <2>2. AssistInv(p, d)  BY <1>2, <2>1 DEF AssistInv
  <2>3. t \notin Threads  BY <1>9, ReactorAssumption
  <2> QED BY <1>1, <1>4, <1>7, <2>2, <2>3, StepKeeps
<1> QED BY <1>8, <1>9 DEF All

\* A step of t that changes its wait context too.
LEMMA GoesWith ==
  ASSUME IInv, NEW t \in Threads, NEW p \in Places, NEW c \in CallType, Goes(t, p, c),
         slots' \in [Threads -> [Reactors -> Int]],
         \A u \in Threads \ {t} : slots'[u] = slots[u],
         cur_blocking_waiters' \in [Reactors -> Int], signalled_notifier' \in [Reactors -> BOOLEAN]
  PROVE  /\ Types' /\ Moves(t) /\ at'[t] = p /\ call'[t] = c
         /\ At(t)' = Where(p, c)
<1>0. t \in All  BY DEF All
<1>1. at'[t] = p /\ call'[t] = c
  BY <1>0 DEF IInv, Types, Goes
<1>2. Moves(t)
  BY DEF IInv, Types, Goes, Moves
<1>3. Types'
  BY <1>0 DEF IInv, Types, Goes
<1> QED BY <1>1, <1>2, <1>3, AtWhere

LEMMA BlockPollsInv ==
  ASSUME IInv, NEW t \in Threads, BlockPolls(t)
  PROVE  IInv'
<1>0. t \in All /\ t # Assist /\ Rtor(t) \in Reactors
  BY TheReactor, ReactorAssumption DEF All
<1>1. /\ at[t] = "ticked" /\ call[t].kind = "block" /\ Obj(t) \notin ready /\ ready' = ready /\ silent' = silent
      /\ UNCHANGED <<signalled_notifier, leaked, slots>>
      /\ cur_blocking_waiters' = [cur_blocking_waiters EXCEPT ![Rtor(t)] = @ + 1]
  BY DEF BlockPolls, worldVars, history, Enter
<1>2. call[t] \in CallType /\ Control("ticked", call[t]) /\ At(t) = "ticked"
  BY <1>1, ThreadFacts
<1>3. call[t].i = 1 /\ Len(call[t].list) = 1
  <2>1. call[t].kind \in {"tick", "block"} => Len(call[t].list) = 1 /\ call[t].i = 1
    BY <1>2, ControlGives
  <2> QED BY <1>1, <2>1
<1>4. PICK d : d = [call[t] EXCEPT !.n = 1]  OBVIOUS
<1>5. /\ d \in CallType /\ d.i = call[t].i /\ d.n = 1
      /\ d.kind = call[t].kind /\ d.list = call[t].list
  BY <1>2, <1>4 DEF CallType
<1>6. Goes(t, "ospoll", d)
  BY <1>4 DEF BlockPolls, Goes, Goto, IInv, Types
<1>7. /\ cur_blocking_waiters' \in [Reactors -> Int] /\ signalled_notifier' \in [Reactors -> BOOLEAN]
      /\ slots' = slots /\ slots'[t] = slots[t]
  BY <1>0, <1>1 DEF IInv, Types
<1>8. "ospoll" \in Places /\ Where("ospoll", d) = "ospoll"
  BY DEF Places, Where
<1>9. /\ Types' /\ Moves(t) /\ at'[t] = "ospoll" /\ call'[t] = d /\ At(t)' = "ospoll"
  BY <1>0, <1>5, <1>6, <1>7, <1>8, GoesFacts
<1>10. Control("ospoll", d)
  <2>0. d.i = 1 /\ d.n = 1 /\ Len(d.list) = 1
    BY <1>3, <1>5
  <2>1. 1 <= d.i /\ d.i <= Len(d.list) /\ d.n <= Len(d.list) /\ d.n = Len(d.list)
    BY <2>0
  <2>2. d.kind \in {"block", "poll"} /\ Len(d.list) = 1
    BY <1>1, <1>3, <1>5
  <2> QED BY <1>5, <2>1, <2>2, ControlFrom
<1>11. Counted("ospoll", d, slots'[t])
  <2>1. Counted("ticked", call[t], slots[t])
    BY <1>2, AtWhere DEF IInv, ThreadInv
  <2> QED BY <1>1, <1>5, <1>7, <2>1 DEF Counted
<1>12. ThreadInv(at'[t], call'[t], slots'[t])
  BY <1>8, <1>9, <1>10, <1>11 DEF ThreadInv
<1>13. Keeps(t)
  <2>1. Held(At(t), call[t]) = {}
    BY <1>2, Nothing
  <2>2. Held(At(t)', call'[t]) = {1}
    BY <1>5, <1>9 DEF Held
  <2>3. \A r : ~Blocking(t, r) /\ (Blocking(t, r)' <=> r = Rtor(t))
    BY <2>1, <2>2, <1>3, <1>5, <1>9, BlockingHeld DEF HeldOn, Rtor, Obj
  <2> QED BY <1>0, <1>1, <2>3 DEF Keeps, IInv, Types
<1>14. Alerts(t)
  <2>1. \A j \in Checked(At(t)', call'[t]) : call'[t].list[j] \notin ready'
    BY <1>1, <1>3, <1>5, <1>9 DEF Checked, Obj
  <2> QED BY <1>0, <1>1, <2>1, Calm
<1> QED BY <1>0, <1>1, <1>9, <1>12, <1>13, <1>14, StepKeeps

\* The items held per reactor are finitely many.
LEMMA HeldFinite ==
  ASSUME NEW q, NEW c \in CallType, NEW r
  PROVE  IsFiniteSet(HeldOn(q, c, r)) /\ Cardinality(HeldOn(q, c, r)) \in Nat
<1>1. c.n \in Nat  BY DEF CallType
<1>2. IsFiniteSet(1 .. c.n)  BY <1>1, FS_Interval
<1>3. HeldOn(q, c, r) \subseteq 1 .. c.n  BY DEF HeldOn, Held
<1> QED BY <1>2, <1>3, FS_Subset, FS_CardinalityType

LEMMA TranslateInv ==
  ASSUME IInv, NEW t \in Threads, Translate(t)
  PROVE  IInv'
<1>0. t \in All /\ t # Assist /\ Rtor(t) \in Reactors
  BY TheReactor, ReactorAssumption DEF All
<1>1. /\ at[t] = "translate" /\ ready' = ready /\ silent' = silent
      /\ UNCHANGED <<signalled_notifier, leaked>>
      /\ slots' = [slots EXCEPT ![t][Rtor(t)] = @ + 1]
  BY DEF Translate, worldVars, history
<1>2. \/ /\ slots[t][Rtor(t)] = 0
         /\ cur_blocking_waiters' = [cur_blocking_waiters EXCEPT ![Rtor(t)] = @ + 1]
      \/ slots[t][Rtor(t)] # 0 /\ cur_blocking_waiters' = cur_blocking_waiters
  BY DEF Translate, Enter
<1>3. call[t] \in CallType /\ Control("translate", call[t]) /\ At(t) = "translate"
  BY <1>1, ThreadFacts
<1>4. /\ call[t].n \in Nat /\ call[t].i \in Nat /\ Len(call[t].list) \in Nat
      /\ call[t].n = call[t].i - 1 /\ call[t].kind = "poll"
      /\ 1 <= call[t].i /\ call[t].i <= Len(call[t].list)
  BY <1>3, ControlGives
<1>5. PICK d : d = [call[t] EXCEPT !.n = call[t].i]  OBVIOUS
<1>6. /\ d \in CallType /\ d.i = call[t].i /\ d.n = call[t].i
      /\ d.kind = call[t].kind /\ d.list = call[t].list
  BY <1>3, <1>5 DEF CallType
<1>7. Goes(t, "entered", d)
  BY <1>5 DEF Translate, Goes, Goto, IInv, Types
<1>8. /\ cur_blocking_waiters' \in [Reactors -> Int] /\ signalled_notifier' \in [Reactors -> BOOLEAN]
  BY <1>0, <1>1, <1>2 DEF IInv, Types
<1>9. /\ slots' \in [Threads -> [Reactors -> Int]]
      /\ \A u \in Threads \ {t} : slots'[u] = slots[u]
      /\ \A r \in Reactors : slots'[t][r] = IF r = Rtor(t) THEN slots[t][r] + 1 ELSE slots[t][r]
  BY <1>0, <1>1 DEF IInv, Types
<1>10. "entered" \in Places /\ Where("entered", d) = "entered"
  BY DEF Places, Where
<1>11. /\ Types' /\ Moves(t) /\ at'[t] = "entered" /\ call'[t] = d /\ At(t)' = "entered"
  BY <1>6, <1>7, <1>8, <1>9, <1>10, GoesWith
<1>12. Control("entered", d)
  <2>1. 1 <= d.i /\ d.i <= Len(d.list) /\ d.n <= Len(d.list) /\ d.n = d.i
    BY <1>4, <1>6
  <2> QED BY <1>4, <1>6, <2>1, ControlFrom
<1>13. /\ Held("entered", d) = Held("translate", call[t]) \cup {call[t].i}
       /\ call[t].i \notin Held("translate", call[t])
  BY <1>4, <1>6 DEF Held
<1>14. \A r : /\ r # Rtor(t) => HeldOn("entered", d, r) = HeldOn("translate", call[t], r)
              /\ r = Rtor(t) => /\ HeldOn("entered", d, r) = HeldOn("translate", call[t], r) \cup {call[t].i}
                                /\ call[t].i \notin HeldOn("translate", call[t], r)
  BY <1>6, <1>13 DEF HeldOn, Rtor, Obj
<1>15. \A r \in Reactors : slots[t][r] = Cardinality(HeldOn("translate", call[t], r))
  BY <1>3, <1>4, AtWhere DEF IInv, ThreadInv, Counted
<1>16. Counted("entered", d, slots'[t])
  <2>1. ASSUME NEW r \in Reactors PROVE slots'[t][r] = Cardinality(HeldOn("entered", d, r))
    <3>1. CASE r # Rtor(t)  BY <3>1, <1>9, <1>14, <1>15
    <3>2. CASE r = Rtor(t)
      <4>1. IsFiniteSet(HeldOn("translate", call[t], r))
        BY <1>3, HeldFinite
      <4>2. Cardinality(HeldOn("entered", d, r)) = Cardinality(HeldOn("translate", call[t], r)) + 1
        BY <3>2, <4>1, <1>14, FS_AddElement
      <4> QED BY <3>2, <4>2, <1>9, <1>15
    <3> QED BY <3>1, <3>2
  <2> QED BY <2>1, <1>4, <1>6 DEF Counted
<1>17. ThreadInv(at'[t], call'[t], slots'[t])
  BY <1>10, <1>11, <1>12, <1>16 DEF ThreadInv
<1>18. Keeps(t)
  <2>0. PICK k \in Reactors : k = Rtor(t)  BY <1>0
  <2>1. \A r : r # k => (Blocking(t, r)' <=> Blocking(t, r))
    BY <2>0, <1>3, <1>11, <1>14, BlockingHeld
  <2>2. Blocking(t, k)'
    BY <2>0, <1>3, <1>11, <1>14, BlockingHeld
  <2>3. Blocking(t, k) <=> slots[t][k] # 0
    <3>1. IsFiniteSet(HeldOn("translate", call[t], k))
      BY <2>0, <1>3, HeldFinite
    <3>2. HeldOn("translate", call[t], k) # {} <=> slots[t][k] # 0
      BY <2>0, <1>0, <1>15, <3>1, FS_EmptySet
    <3> QED BY <3>2, <1>3, BlockingHeld
  <2>4. \A r \in Reactors : r # k => cur_blocking_waiters'[r] = cur_blocking_waiters[r]
    BY <2>0, <1>0, <1>2 DEF IInv, Types
  <2>5. \/ Blocking(t, k) /\ cur_blocking_waiters'[k] = cur_blocking_waiters[k]
        \/ ~Blocking(t, k) /\ cur_blocking_waiters'[k] = cur_blocking_waiters[k] + 1
    BY <2>0, <1>0, <1>2, <2>3 DEF IInv, Types
  <2>6. ASSUME NEW r \in Reactors, r # k
        PROVE  (Blocking(t, r)' <=> Blocking(t, r)) /\ cur_blocking_waiters'[r] = cur_blocking_waiters[r]
    BY <2>1, <2>4, <2>6
  <2> QED BY <2>2, <2>5, <2>6 DEF Keeps
<1>19. Alerts(t)
  <2>1. \A j \in Checked(At(t)', call'[t]) :
          j \in Checked(At(t), call[t]) /\ call'[t].list[j] = call[t].list[j]
    BY <1>3, <1>6, <1>11 DEF Checked
  <2> QED BY <1>0, <1>1, <2>1, Calm
<1> QED BY <1>0, <1>1, <1>11, <1>17, <1>18, <1>19, StepKeeps

\* Leaving a section, or the sleep on the way out, changes nothing else of a
\* call.
LEMMA LeaveGoes ==
  ASSUME IInv, NEW t \in Threads, NEW p \in {"left", "aborted"}, LeaveSection(t, p)
  PROVE  \E x \in {p, "asleep"}, d \in CallType :
           /\ Goes(t, x, d) /\ d.i = call[t].i /\ d.n = call[t].n
           /\ d.kind = call[t].kind /\ d.list = call[t].list
           /\ Where(x, d) = p
<1>1. call[t] \in CallType  BY ThreadFacts
<1>2. CASE Goto(t, p) /\ UNCHANGED call
  <2>1. Goes(t, p, call[t]) /\ Where(p, call[t]) = p
    BY <1>2 DEF Goes, Goto, IInv, Types, Where, All
  <2> QED BY <1>1, <2>1
<1>3. CASE SleepWhileSignalled(t, p)
  <2>1. PICK d : d = [call[t] EXCEPT !.then = p]  OBVIOUS
  <2>2. /\ d \in CallType /\ d.i = call[t].i /\ d.n = call[t].n /\ d.then = p
        /\ d.kind = call[t].kind /\ d.list = call[t].list
    BY <1>1, <2>1 DEF CallType
  <2>3. Goes(t, "asleep", d)
    BY <1>3, <2>1 DEF SleepWhileSignalled, Goes, Goto, IInv, Types
  <2>4. Where("asleep", d) = p
    BY <2>2 DEF Where
  <2> QED BY <2>2, <2>3, <2>4
<1> QED BY <1>2, <1>3 DEF LeaveSection

\* The count tells two threads from one.
LEMMA LastOut ==
  ASSUME IInv, NEW t \in Threads, NEW u \in Threads, u # t, NEW r \in Reactors,
         Blocking(t, r), Blocking(u, r)
  PROVE  cur_blocking_waiters[r] >= 2
<1>1. IsFiniteSet(Blockers(r)) /\ t \in Blockers(r) /\ u \in Blockers(r) \ {t}
  BY ReactorAssumption, FS_Subset DEF Blockers
<1>2. /\ IsFiniteSet(Blockers(r) \ {t})
      /\ Cardinality(Blockers(r) \ {t}) = Cardinality(Blockers(r)) - 1
  BY <1>1, FS_RemoveElement
<1>3. Cardinality(Blockers(r) \ {t}) # 0 /\ Cardinality(Blockers(r) \ {t}) \in Nat
  BY <1>1, <1>2, FS_EmptySet, FS_CardinalityType
<1>4. Cardinality(Blockers(r)) \in Nat
  BY <1>1, FS_CardinalityType
<1>5. cur_blocking_waiters[r] >= Cardinality(Blockers(r)) /\ cur_blocking_waiters[r] \in Int
  BY DEF IInv, Waiters, Types
<1> QED BY <1>2, <1>3, <1>4, <1>5

\* A call but for what it found and whether it slept.
SameCall(d, c) == d.i = c.i /\ d.n = c.n /\ d.kind = c.kind /\ d.list = c.list

\* From q to p the item that c is at, and only this one, is no longer held.
Released(q, c, p, d) ==
  /\ Control(p, d) /\ c.i \in HeldOn(q, c, ReactorOf[c.list[c.i]])
  /\ \A r : HeldOn(p, d, r) = IF r = ReactorOf[c.list[c.i]] THEN HeldOn(q, c, r) \ {c.i}
                              ELSE HeldOn(q, c, r)

LeavingTo(q, p) ==
  \/ q = "leave" /\ p = "left"
  \/ q = "abort" /\ p = "aborted"

LEMMA ItemLeft ==
  ASSUME NEW q, NEW p, NEW c \in CallType, NEW d \in CallType, Control(q, c),
         LeavingTo(q, p), SameCall(d, c)
  PROVE  Released(q, c, p, d)
<1>0. d.i = c.i /\ d.n = c.n /\ d.kind = c.kind /\ d.list = c.list
  BY DEF SameCall
<1>1. c.i \in Nat /\ c.n \in Nat /\ 1 <= c.i /\ c.i <= c.n
  BY ControlGives DEF LeavingTo
<1>2. Control(p, d)
  BY <1>0 DEF Control, LeavingTo
<1>3. c.i \in Held(q, c)
  BY <1>1 DEF Held, LeavingTo
<1>4. Held(p, d) = Held(q, c) \ {c.i}
  <2>1. CASE q = "leave" /\ p = "left"
    BY <1>0, <1>1, <2>1 DEF Held
  <2>2. CASE q = "abort" /\ p = "aborted"
    <3>1. c.n = c.i  BY <2>2, ControlGives
    <3> QED BY <1>0, <1>1, <2>2, <3>1 DEF Held
  <2> QED BY <2>1, <2>2 DEF LeavingTo
<1>5. \A r : HeldOn(p, d, r) = IF r = ReactorOf[c.list[c.i]] THEN HeldOn(q, c, r) \ {c.i}
                              ELSE HeldOn(q, c, r)
  BY <1>0, <1>4 DEF HeldOn
<1> QED BY <1>2, <1>3, <1>5 DEF Released, HeldOn

\* The last section of a thread on the reactor is left.
LEMMA SectionLeft ==
  ASSUME IInv, NEW t \in Threads, NEW q, NEW p,
         LeavingTo(q, p), at[t] = q, LeaveSection(t, p),
         HeldOn(q, call[t], Rtor(t)) = {call[t].i},
         slots' \in [Threads -> [Reactors -> Int]],
         \A u \in Threads \ {t} : slots'[u] = slots[u],
         \A r \in Reactors \ {Rtor(t)} : slots'[t][r] = slots[t][r],
         slots'[t][Rtor(t)] = 0,
         UNCHANGED <<ready, silent, leaked>>
  PROVE  IInv'
<1>0. t \in All /\ t # Assist
  BY ReactorAssumption DEF All
<1>1. PICK k \in Reactors : k = Rtor(t) /\ k = ReactorOf[call[t].list[call[t].i]]
  BY <1>0, TheReactor DEF Rtor, Obj
<1>2. PICK x \in {p, "asleep"}, d \in CallType :
           /\ Goes(t, x, d) /\ d.i = call[t].i /\ d.n = call[t].n
           /\ d.kind = call[t].kind /\ d.list = call[t].list
           /\ Where(x, d) = p
  BY LeaveGoes DEF LeavingTo
<1>3. /\ cur_blocking_waiters' = [cur_blocking_waiters EXCEPT ![k] = @ - 1]
      /\ signalled_notifier' \in [Reactors -> BOOLEAN]
      /\ \A r \in Reactors : signalled_notifier[r] =>
           signalled_notifier'[r] \/ (r = k /\ cur_blocking_waiters[k] = 1)
  <2>1. cur_blocking_waiters' = [cur_blocking_waiters EXCEPT ![k] = @ - 1]
    BY <1>1 DEF LeaveSection
  <2>2. CASE /\ ~signalled_notifier[k] \/ cur_blocking_waiters[k] = 1
             /\ signalled_notifier' = [signalled_notifier EXCEPT ![k] = FALSE]
    BY <2>1, <2>2 DEF IInv, Types
  <2>3. CASE signalled_notifier' = signalled_notifier
    BY <2>1, <2>3 DEF IInv, Types
  <2> QED BY <1>1, <2>2, <2>3 DEF LeaveSection
<1>4. call[t] \in CallType /\ Control(q, call[t]) /\ At(t) = q
  BY ThreadFacts DEF LeavingTo
<1>5. /\ Control(p, d)
      /\ \A r : /\ r = k => HeldOn(p, d, r) = HeldOn(q, call[t], r) \ {call[t].i}
                /\ r # k => HeldOn(p, d, r) = HeldOn(q, call[t], r)
  <2>1. d.i = call[t].i /\ d.n = call[t].n /\ d.kind = call[t].kind /\ d.list = call[t].list
    BY <1>2
  <2>2. SameCall(d, call[t])  BY <2>1 DEF SameCall
  <2>3. Released(q, call[t], p, d)  BY <1>4, <2>2, ItemLeft
  <2> QED BY <1>1, <2>3 DEF Released
<1>6. cur_blocking_waiters' \in [Reactors -> Int] /\ x \in Places
  BY <1>1, <1>3 DEF IInv, Types, Places, LeavingTo
<1>7. Types' /\ Moves(t) /\ at'[t] = x /\ call'[t] = d /\ At(t)' = p
  BY <1>2, <1>3, <1>6, GoesWith
<1>8. HeldOn(p, d, k) = {} /\ HeldOn(q, call[t], k) # {}
  BY <1>1, <1>5
<1>9. Counted(p, d, slots'[t])
  <2>1. Counted(q, call[t], slots[t])
    BY <1>4, AtWhere DEF IInv, ThreadInv
  <2>2. ASSUME NEW r \in Reactors
        PROVE  slots'[t][r] = IF d.kind = "poll" THEN Cardinality(HeldOn(p, d, r)) ELSE 0
    <3>1. CASE r = k  BY <3>1, <1>1, <1>8, FS_EmptySet
    <3>2. CASE r # k  BY <3>2, <2>1, <1>1, <1>2, <1>5 DEF Counted
    <3> QED BY <3>1, <3>2
  <2> QED BY <2>2 DEF Counted
<1>10. ThreadInv(at'[t], call'[t], slots'[t])
  <2>1. x = "asleep" => d.then \in {"ticked", "left", "aborted"}
    BY <1>2 DEF Where, LeavingTo
  <2> QED BY <1>2, <1>5, <1>7, <1>9, <2>1 DEF ThreadInv
<1>11. /\ Blocking(t, k) /\ ~Blocking(t, k)'
       /\ \A r : r # k => (Blocking(t, r)' <=> Blocking(t, r))
  BY <1>4, <1>5, <1>7, <1>8, BlockingHeld
<1>12. Keeps(t)
  <2>1. \A r \in Reactors : r # k => cur_blocking_waiters'[r] = cur_blocking_waiters[r]
    BY <1>3 DEF IInv, Types
  <2>2. cur_blocking_waiters'[k] = cur_blocking_waiters[k] - 1
    BY <1>3 DEF IInv, Types
  <2> QED BY <1>11, <2>1, <2>2 DEF Keeps
<1>13. Alerts(t)
  <2>1. ASSUME NEW o \in Objs, \E u \in Threads \ {t} : Blocking(u, ReactorOf[o]), Awake(o)
        PROVE  (Awake(o))'
    <3>1. ReactorOf[o] \in Reactors  BY ReactorAssumption
    <3>2. ReactorOf[o] = k => cur_blocking_waiters[k] >= 2
      BY <1>11, <2>1, LastOut
    <3>3. ~(ReactorOf[o] = k /\ cur_blocking_waiters[k] = 1)
      BY <3>2
    <3>4. signalled_notifier[ReactorOf[o]] => signalled_notifier'[ReactorOf[o]]
      BY <1>3, <3>1, <3>3
    <3> QED BY <2>1, <3>4 DEF Awake
  <2>2. Checked(At(t)', call'[t]) = {}
    BY <1>7, NothingChecked DEF LeavingTo
  <2> QED BY <2>1, <2>2 DEF Alerts
<1> QED BY <1>0, <1>7, <1>10, <1>12, <1>13, StepKeeps

LEMMA BlockLeavesInv ==
  ASSUME IInv, NEW t \in Threads, BlockLeaves(t)
  PROVE  IInv'
<1>0. t \in All /\ Rtor(t) \in Reactors /\ Rtor(t) = ReactorOf[call[t].list[call[t].i]]
  BY TheReactor DEF All, Rtor, Obj
<1>1. /\ at[t] = "leave" /\ call[t].kind = "block" /\ LeaveSection(t, "left") /\ slots' = slots
      /\ UNCHANGED <<ready, silent, leaked>>
  BY DEF BlockLeaves, worldVars, history
<1>2. call[t] \in CallType /\ Control("leave", call[t]) /\ At(t) = "leave"
  BY <1>1, ThreadFacts
<1>3. Len(call[t].list) = 1 /\ call[t].i = 1 /\ call[t].n = 1
  <2>1. /\ call[t].n \in Nat /\ call[t].n <= Len(call[t].list) /\ call[t].i <= call[t].n
        /\ call[t].kind \in {"tick", "block"} => Len(call[t].list) = 1 /\ call[t].i = 1
    BY <1>2, ControlGives
  <2>2. Len(call[t].list) = 1 /\ call[t].i = 1  BY <1>1, <2>1
  <2>3. call[t].n <= 1 /\ 1 <= call[t].n  BY <2>1, <2>2
  <2>4. call[t].n = 1  BY <2>1, <2>3
  <2> QED BY <2>2, <2>4
<1>4. HeldOn("leave", call[t], Rtor(t)) = {call[t].i}
  BY <1>0, <1>3 DEF HeldOn, Held
<1>5. slots[t][Rtor(t)] = 0
  <2>1. Counted("leave", call[t], slots[t])
    BY <1>2, AtWhere DEF IInv, ThreadInv
  <2> QED BY <1>0, <1>1, <2>1 DEF Counted
<1>6. slots' \in [Threads -> [Reactors -> Int]]
  BY <1>1 DEF IInv, Types
<1>7. LeavingTo("leave", "left")  BY DEF LeavingTo
<1> QED BY <1>1, <1>4, <1>5, <1>6, <1>7, SectionLeft

\* A thread leaves the section of one of several items on the reactor, or of
\* the last one.
LEMMA WaitCtxLeaveInv ==
  ASSUME IInv, NEW t \in Threads, NEW q, NEW p,
         LeavingTo(q, p), at[t] = q, call[t].kind = "poll", WaitCtxLeave(t, p)
  PROVE  IInv'
<1>0. t \in All /\ t # Assist
  BY ReactorAssumption DEF All
<1>1. PICK k \in Reactors : k = Rtor(t) /\ k = ReactorOf[call[t].list[call[t].i]]
  BY <1>0, TheReactor DEF Rtor, Obj
<1>2. /\ slots' = [slots EXCEPT ![t][k] = @ - 1]
      /\ UNCHANGED <<ready, silent, leaked>>
  BY <1>1 DEF WaitCtxLeave, worldVars, history
<1>3. /\ slots' \in [Threads -> [Reactors -> Int]]
      /\ \A u \in Threads \ {t} : slots'[u] = slots[u]
      /\ \A r \in Reactors \ {k} : slots'[t][r] = slots[t][r]
      /\ slots'[t][k] = slots[t][k] - 1
  BY <1>2 DEF IInv, Types
<1>4. call[t] \in CallType /\ Control(q, call[t]) /\ At(t) = q
  BY ThreadFacts DEF LeavingTo
<1>5. \A r \in Reactors : slots[t][r] = Cardinality(HeldOn(q, call[t], r))
  BY <1>4, AtWhere DEF IInv, ThreadInv, Counted
<1>6. /\ Control(p, call[t]) /\ call[t].i \in HeldOn(q, call[t], k)
      /\ \A r : /\ r = k => HeldOn(p, call[t], r) = HeldOn(q, call[t], r) \ {call[t].i}
                /\ r # k => HeldOn(p, call[t], r) = HeldOn(q, call[t], r)
  <2>1. SameCall(call[t], call[t])  BY DEF SameCall
  <2>2. Released(q, call[t], p, call[t])  BY <1>4, <2>1, ItemLeft
  <2> QED BY <1>1, <2>2 DEF Released
<1>7. /\ IsFiniteSet(HeldOn(q, call[t], k)) /\ IsFiniteSet(HeldOn(p, call[t], k))
      /\ Cardinality(HeldOn(q, call[t], k)) \in Nat
  BY <1>4, HeldFinite
<1>8. Cardinality(HeldOn(p, call[t], k)) = Cardinality(HeldOn(q, call[t], k)) - 1
  BY <1>6, <1>7, FS_RemoveElement
<1>9. CASE slots[t][k] = 1 /\ LeaveSection(t, p)
  <2>1. HeldOn(p, call[t], k) = {}
    BY <1>5, <1>7, <1>8, <1>9, FS_EmptySet
  <2>2. HeldOn(q, call[t], Rtor(t)) = {call[t].i}
    BY <1>1, <1>6, <2>1
  <2>3. slots'[t][Rtor(t)] = 0
    BY <1>1, <1>3, <1>9
  <2> QED BY <1>1, <1>2, <1>3, <1>9, <2>2, <2>3, SectionLeft
<1>10. CASE /\ slots[t][k] > 1 /\ Goto(t, p)
            /\ UNCHANGED <<cur_blocking_waiters, signalled_notifier, call>>
  <2>1. Goes(t, p, call[t]) /\ Where(p, call[t]) = p /\ p \in Places
    BY <1>0, <1>10 DEF Goes, Goto, IInv, Types, Where, Places, LeavingTo
  <2>2. cur_blocking_waiters' \in [Reactors -> Int] /\ signalled_notifier' \in [Reactors -> BOOLEAN]
    BY <1>10 DEF IInv, Types
  <2>3. Types' /\ Moves(t) /\ at'[t] = p /\ call'[t] = call[t] /\ At(t)' = p
    BY <1>3, <1>4, <2>1, <2>2, GoesWith
  <2>4. Counted(p, call[t], slots'[t])
    <3>1. ASSUME NEW r \in Reactors PROVE slots'[t][r] = Cardinality(HeldOn(p, call[t], r))
      <4>1. CASE r = k  BY <4>1, <1>3, <1>5, <1>8
      <4>2. CASE r # k  BY <4>2, <1>3, <1>5, <1>6
      <4> QED BY <4>1, <4>2
    <3> QED BY <3>1 DEF Counted
  <2>5. ThreadInv(at'[t], call'[t], slots'[t])
    BY <1>6, <2>1, <2>3, <2>4 DEF ThreadInv, LeavingTo
  <2>6. Keeps(t)
    <3>1. HeldOn(p, call[t], k) # {} /\ HeldOn(q, call[t], k) # {}
      <4>1. Cardinality(HeldOn(p, call[t], k)) # 0
        BY <1>1, <1>5, <1>7, <1>8, <1>10
      <4> QED BY <4>1, <1>6, FS_EmptySet
    <3>2. \A r : Blocking(t, r)' <=> Blocking(t, r)
      BY <1>4, <1>6, <2>3, <3>1, BlockingHeld
    <3> QED BY <3>2, <1>10 DEF Keeps
  <2>7. Alerts(t)
    <3>1. Checked(At(t)', call'[t]) = {}
      BY <2>3, NothingChecked DEF LeavingTo
    <3> QED BY <1>0, <1>2, <1>10, <3>1, Calm
  <2> QED BY <1>0, <1>2, <2>3, <2>5, <2>6, <2>7, StepKeeps
<1> QED BY <1>1, <1>9, <1>10 DEF WaitCtxLeave

LEMMA PollLeavesInv ==
  ASSUME IInv, NEW t \in Threads, AbortLeaves(t) \/ PollLeaves(t)
  PROVE  IInv'
<1>1. CASE AbortLeaves(t)
  <2>1. at[t] = "abort" /\ WaitCtxLeave(t, "aborted")
    BY <1>1 DEF AbortLeaves
  <2>2. call[t] \in CallType /\ Control("abort", call[t])
    BY <2>1, ThreadFacts
  <2>3. call[t].kind = "poll"
    BY <2>2, ControlGives
  <2> QED BY <2>1, <2>3, WaitCtxLeaveInv DEF LeavingTo
<1>2. CASE PollLeaves(t)
  <2>1. at[t] = "leave" /\ call[t].kind = "poll" /\ WaitCtxLeave(t, "left")
    BY <1>2 DEF PollLeaves
  <2>2. LeavingTo("leave", "left")  BY DEF LeavingTo
  <2> QED BY <2>1, <2>2, WaitCtxLeaveInv
<1> QED BY <1>1, <1>2

\* The sections that are not left are recorded as leaked.
LEMMA AbortedInv ==
  ASSUME IInv, NEW t \in Threads, Aborted(t)
  PROVE  IInv'
<1>0. t \in All /\ t # Assist
  BY ReactorAssumption DEF All
<1>1. /\ at[t] = "aborted" /\ Goes(t, "idle", NoCall)
      /\ slots' = [slots EXCEPT ![t] = [r \in Reactors |-> 0]]
      /\ leaked' = leaked \cup {r \in Reactors : slots[t][r] > 0}
      /\ UNCHANGED <<cur_blocking_waiters, signalled_notifier, ready, silent>>
  BY DEF Aborted, worldVars, history, Goes, Return, Goto
<1>2. call[t] \in CallType /\ Control("aborted", call[t]) /\ At(t) = "aborted"
  BY <1>1, ThreadFacts
<1>3. call[t].kind = "poll"
  BY <1>2, ControlGives
<1>4. /\ slots' \in [Threads -> [Reactors -> Int]]
      /\ \A u \in Threads \ {t} : slots'[u] = slots[u]
      /\ \A r \in Reactors : slots'[t][r] = 0
  BY <1>1 DEF IInv, Types
<1>5. /\ "idle" \in Places /\ NoCall \in CallType /\ Control("idle", NoCall)
      /\ Where("idle", NoCall) = "idle" /\ NoCall.kind = "none"
  BY NoCallFacts, NoCallControl DEF Places, Where
<1>6. cur_blocking_waiters' \in [Reactors -> Int] /\ signalled_notifier' \in [Reactors -> BOOLEAN]
  BY <1>1 DEF IInv, Types
<1>7. Types' /\ Moves(t) /\ at'[t] = "idle" /\ call'[t] = NoCall /\ At(t)' = "idle"
  BY <1>1, <1>4, <1>5, <1>6, GoesWith
<1>8. ThreadInv(at'[t], call'[t], slots'[t])
  BY <1>4, <1>5, <1>7 DEF ThreadInv, Counted
<1>9. Keeps(t)
  <2>1. \A r : ~Blocking(t, r)'
    <3>1. Held(At(t)', call'[t]) = {}  BY <1>7, Nothing
    <3>2. \A r : HeldOn(At(t)', call'[t], r) = {}  BY <3>1 DEF HeldOn
    <3> QED BY <3>2, BlockingHeld
  <2>2. ASSUME NEW r \in Reactors, Blocking(t, r) PROVE r \in leaked'
    <3>1. HeldOn("aborted", call[t], r) # {}
      BY <1>2, <2>2, BlockingHeld
    <3>2. IsFiniteSet(HeldOn("aborted", call[t], r)) /\ Cardinality(HeldOn("aborted", call[t], r)) \in Nat
      BY <1>2, HeldFinite
    <3>3. Cardinality(HeldOn("aborted", call[t], r)) # 0
      BY <3>1, <3>2, FS_EmptySet
    <3>4. slots[t][r] = Cardinality(HeldOn("aborted", call[t], r))
      BY <1>2, <1>3, AtWhere DEF IInv, ThreadInv, Counted
    <3>5. slots[t][r] > 0  BY <3>2, <3>3, <3>4
    <3> QED BY <1>1, <3>5
  <2> QED BY <1>1, <2>1, <2>2 DEF Keeps
<1>10. Alerts(t)
  <2>1. Checked(At(t)', call'[t]) = {}
    BY <1>7, NothingChecked
  <2> QED BY <1>0, <1>1, <2>1, Calm
<1> QED BY <1>0, <1>1, <1>7, <1>8, <1>9, <1>10, StepKeeps

\* The assist thread waits in no section.
LEMMA AssistInvariant ==
  ASSUME IInv, AssistStart \/ AssistLoop \/ AssistWakes
  PROVE  IInv'
<1>0. Assist \in All /\ Assist \notin Threads
  BY ReactorAssumption DEF All
<1>1. PICK p \in {"ticked", "stopped", "timedwait", "tick"} :
        /\ Goto(Assist, p) /\ at[Assist] \in {"start", "ticked", "timedwait"}
        /\ UNCHANGED <<cur_blocking_waiters, signalled_notifier, ready, silent, leaked, slots, call>>
  BY DEF AssistStart, AssistLoop, AssistWakes, worldVars, history
<1>2. call[Assist] \in CallType /\ p \in Places
  BY <1>0 DEF IInv, Types, Places
<1>3. Goes(Assist, p, call[Assist])
  BY <1>0, <1>1 DEF Goes, Goto, IInv, Types
<1>4. cur_blocking_waiters' \in [Reactors -> Int] /\ signalled_notifier' \in [Reactors -> BOOLEAN]
  BY <1>1 DEF IInv, Types
<1>5. Types' /\ Moves(Assist) /\ at'[Assist] = p /\ call'[Assist] = call[Assist]
  BY <1>0, <1>1, <1>2, <1>3, <1>4, GoesFacts
<1>6. AssistInv(at'[Assist], call'[Assist])
  BY <1>5 DEF IInv, AssistInv, Where
<1>7. Alerts(Assist)
  BY <1>0, <1>1, Calm
<1> QED BY <1>0, <1>1, <1>5, <1>6, <1>7, StepKeeps

LEMMA AssistSleepEnds ==
  ASSUME IInv, SleepEnds(Assist)
  PROVE  IInv'
<1>0. Assist \in All /\ Assist \notin Threads
  BY ReactorAssumption DEF All
<1>1. /\ at[Assist] = "asleep"
      /\ UNCHANGED <<cur_blocking_waiters, signalled_notifier, ready, silent, leaked, slots>>
  BY DEF SleepEnds, worldVars, history
<1>2. call[Assist] \in CallType /\ AssistInv("asleep", call[Assist])
  BY <1>0, <1>1 DEF IInv, Types
<1>3. PICK p \in Places, d \in CallType : Goes(Assist, p, d) /\ AssistInv(p, d)
  <2>1. CASE UNCHANGED <<at, call>>
    <3>1. Goes(Assist, "asleep", call[Assist]) /\ "asleep" \in Places
      BY <1>0, <1>1, <2>1 DEF Goes, IInv, Types, Places
    <3> QED BY <1>2, <3>1
  <2>2. CASE Goto(Assist, call[Assist].then) /\ call' = [call EXCEPT ![Assist].then = "none"]
    <3>1. PICK d : d = [call[Assist] EXCEPT !.then = "none"]  OBVIOUS
    <3>2. /\ d \in CallType /\ d.i = call[Assist].i /\ d.n = call[Assist].n
          /\ d.kind = call[Assist].kind /\ d.list = call[Assist].list
      BY <1>2, <3>1 DEF CallType
    <3>3. Goes(Assist, call[Assist].then, d)
      BY <1>0, <2>2, <3>1 DEF Goes, Goto, IInv, Types
    <3>4. call[Assist].then \in Places /\ call[Assist].then # "asleep"
      BY <1>2 DEF AssistInv, Where, Places
    <3>5. AssistInv(call[Assist].then, d)
      BY <1>2, <3>2, <3>4 DEF AssistInv, Where
    <3> QED BY <3>2, <3>3, <3>4, <3>5
  <2> QED BY <2>1, <2>2 DEF SleepEnds
<1>4. cur_blocking_waiters' \in [Reactors -> Int] /\ signalled_notifier' \in [Reactors -> BOOLEAN]
  BY <1>1 DEF IInv, Types
<1>5. Types' /\ Moves(Assist) /\ at'[Assist] = p /\ call'[Assist] = d
  BY <1>0, <1>1, <1>3, <1>4, GoesFacts
<1>6. AssistInv(at'[Assist], call'[Assist])
  BY <1>3, <1>5
<1>7. Alerts(Assist)
  BY <1>0, <1>1, Calm
<1> QED BY <1>0, <1>1, <1>5, <1>6, <1>7, StepKeeps

\* A datagram can only wake.
LEMMA ArriveInv ==
  ASSUME IInv, UNCHANGED <<cur_blocking_waiters, signalled_notifier, ready, silent, leaked, at, call, slots>>
  PROVE  IInv'
<1>1. Types'  BY DEF IInv, Types
<1>2. /\ \A t \in Threads : ThreadInv(at[t], call[t], slots[t])'
      /\ AssistInv(at[Assist], call[Assist])'
  BY DEF IInv
<1>3. \A t, r : Blocking(t, r)' <=> Blocking(t, r)
  BY DEF Blocking, At
<1>4. Waiters'
  <2>1. \A r : Blockers(r)' = Blockers(r)  BY <1>3 DEF Blockers
  <2> QED BY <2>1 DEF IInv, Waiters
<1>5. Wakes'
  <2>1. \A o : Awake(o) => (Awake(o))'  BY DEF Awake
  <2>2. \A t : At(t)' = At(t)  BY DEF At
  <2> QED BY <2>1, <2>2 DEF IInv, Wakes
<1> QED BY <1>1, <1>2, <1>4, <1>5 DEF IInv

LEMMA InitInv == Init => IInv
<1> SUFFICES ASSUME Init PROVE IInv
  OBVIOUS
<1>1. /\ \A t \in Threads : at[t] = "idle" /\ call[t] = NoCall /\ \A r \in Reactors : slots[t][r] = 0
      /\ at[Assist] = "start"
      /\ \A r \in Reactors : cur_blocking_waiters[r] = 0
  BY ReactorAssumption DEF Init, All
<1>2. PICK c : /\ c = [kind |-> "assist", list |-> <<AssistObj>>, i |-> 1, n |-> 0, tick |-> TRUE,
                       found |-> FALSE, ok |-> TRUE, then |-> "none"]
               /\ c = call[Assist]
  BY DEF Init, Call, All
<1>3. c.kind = "assist" /\ c.list = <<AssistObj>> /\ c.i = 1 /\ c.n = 0
  BY <1>2
<1>4. c \in CallType
  <2>1. <<AssistObj>> \in Seq(Objs) \ {<<>>}  BY ReactorAssumption
  <2>2. [kind |-> "assist", list |-> <<AssistObj>>, i |-> 1, n |-> 0, tick |-> TRUE,
         found |-> FALSE, ok |-> TRUE, then |-> "none"] \in CallType
    BY <2>1 DEF CallType
  <2> QED BY <1>2, <2>2
<1>5. Types
  <2>1. at \in [All -> Places]  BY DEF Init, Places
  <2>2. call \in [All -> CallType]
    <3>1. call = [t \in All |-> call[t]]  BY DEF Init
    <3>2. \A t \in All : call[t] \in CallType  BY <1>1, <1>2, <1>4, NoCallFacts DEF All
    <3> QED BY <3>1, <3>2
  <2>3. cur_blocking_waiters \in [Reactors -> Int]  BY DEF Init
  <2>4. signalled_notifier \in [Reactors -> BOOLEAN]  BY DEF Init
  <2>5. slots \in [Threads -> [Reactors -> Int]]
    <3>1. [r \in Reactors |-> 0] \in [Reactors -> Int]  OBVIOUS
    <3> QED BY <3>1 DEF Init
  <2> QED BY <2>1, <2>2, <2>3, <2>4, <2>5 DEF Types
<1>6. \A t \in Threads : ThreadInv(at[t], call[t], slots[t])
  <2> SUFFICES ASSUME NEW t \in Threads PROVE ThreadInv("idle", NoCall, slots[t])
    BY <1>1
  <2>1. Control("idle", NoCall) /\ Where("idle", NoCall) = "idle"
    BY NoCallControl DEF Where
  <2>2. Counted("idle", NoCall, slots[t])
    BY <1>1, NoCallFacts DEF Counted
  <2> QED BY <2>1, <2>2 DEF ThreadInv
<1>7. AssistInv(at[Assist], call[Assist])
  BY <1>1, <1>2, <1>3 DEF AssistInv, Where
<1>8. \A t \in Threads : At(t) = "idle"
  BY <1>1 DEF At
<1>9. Waiters
  <2>1. \A t \in Threads, r \in Reactors : ~Blocking(t, r)
    BY <1>8 DEF Blocking
  <2>2. \A r \in Reactors : Blockers(r) = {}
    BY <2>1 DEF Blockers
  <2>3. \A r \in Reactors : Cardinality(Blockers(r)) = 0 /\ cur_blocking_waiters[r] = 0
    BY <1>1, <2>2, FS_EmptySet
  <2> QED BY <2>3 DEF Waiters
<1>10. Wakes
  BY <1>8, NothingChecked DEF Wakes
<1> QED BY <1>5, <1>6, <1>7, <1>9, <1>10 DEF IInv

LEMMA NextInv == IInv /\ [Next]_vars => IInv'
<1> SUFFICES ASSUME IInv, [Next]_vars PROVE IInv'
  OBVIOUS
<1>1. CASE UNCHANGED vars
  BY <1>1, ArriveInv DEF vars, rtorVars, worldVars, history, threadVars
<1>2. CASE \E r \in Reactors : Arrive(r)
  BY <1>2, ArriveInv DEF Arrive, rtorVars, history, threadVars
<1>3. CASE \/ AssistProgress \/ AssistWakes
           \/ TickTimer(Assist) \/ TickSilent(Assist) \/ TickFails(Assist)
  <2>1. Assist \in All  BY DEF All
  <2> QED BY <1>3, <2>1, TickInv, AssistInvariant, AssistSleepEnds DEF AssistProgress, Tick
<1>4. ASSUME NEW t \in Threads, \E o \in BlockObjs \cap Usable : CallTick(t, o) \/ CallBlock(t, o)
      PROVE  IInv'
  BY <1>4, CallTickInv
<1>5. ASSUME NEW t \in Threads,
             \E l \in PollLists, b \in BOOLEAN : ListRange(l) \subseteq Usable /\ CallPoll(t, l, b)
      PROVE  IInv'
  BY <1>5, CallPollInv
<1>6. ASSUME NEW t \in Threads, StopAssist(t) \/ Joined(t) PROVE IInv'
  BY <1>6, StopInv
<1>7. ASSUME NEW t \in Threads, Tick(t) PROVE IInv'
  <2>1. t \in All  BY DEF All
  <2> QED BY <1>7, <2>1, TickInv
<1>8. ASSUME NEW t \in Threads, PollEnds(t) \/ TranslateFails(t) PROVE IInv'
  BY <1>8, PollEndsInv, TranslateFailsInv
<1>9. ASSUME NEW t \in Threads, Progress(t) PROVE IInv'
  BY <1>6, <1>7, <1>8, <1>9, SleepEndsInv, ReturnsInv, BlockPollsInv, BlockLeavesInv, BlockLeftInv,
     ReadoutInv, ReadoutDoneInv, TranslateInv, RereadInv, PollLeavesInv, AbortedInv, PollLeftInv
     DEF Progress, Tick
<1> QED BY <1>1, <1>2, <1>3, <1>4, <1>5, <1>6, <1>7, <1>8, <1>9 DEF Next, Tick

\* The invariant holds at all times.
THEOREM ReactorInvariant == Spec => []IInv
BY InitInv, NextInv, PTL DEF Spec

\* Whatever threads do concurrently, who ticks a reactor waits for exactly the
\* threads that are blocking on it (the sections SSL_poll leaks apart).
THEOREM WaitersAlwaysBalanced == Spec => []WaitersBalanced
<1>1. IInv => WaitersBalanced
  BY DEF IInv, Waiters, WaitersBalanced, Blockers
<1> QED BY <1>1, ReactorInvariant, PTL

\* No thread sleeps in poll(2) on something that is already the case with
\* nothing left to wake it.
THEOREM WakeupNeverLost == Spec => []NoLostWakeup
<1>1. ASSUME IInv PROVE NoLostWakeup
  <2> SUFFICES ASSUME NEW t \in Threads, at[t] = "ospoll",
                      NEW o \in ListRange(call[t].list) \cap (ready \ silent)
               PROVE  Readable(t)
    BY DEF NoLostWakeup
  <2>1. PICK j \in DOMAIN call[t].list : o = call[t].list[j]
    BY DEF ListRange
  <2>2. call[t] \in CallType /\ At(t) = "ospoll"
    BY <1>1, ThreadFacts
  <2>3. j \in Checked(At(t), call[t])
    BY <2>2 DEF Checked, CallType
  <2>4. Awake(o)
    BY <1>1, <2>1, <2>3 DEF IInv, Wakes
  <2> QED BY <2>4 DEF Awake, Readable
<1> QED BY <1>1, ReactorInvariant, PTL
-----------------------------------------------------------------------------
(* Types: what IInv says nothing of.                                       *)

LockTypes ==
  /\ mutex \in [Reactors -> All \cup {None}]
  /\ notifier_cv \in [Reactors -> SUBSET All]

WorldTypes ==
  /\ net \subseteq Reactors /\ failed \subseteq Reactors /\ leaked \subseteq Reactors
  /\ silent \subseteq Objs
  /\ ready \subseteq Objs /\ events \in 0 .. MaxEvents
  /\ tick_deadline \in [Reactors -> Deadlines \cup {Never}]

FlagTypes == {teardown, joined, woken} \subseteq BOOLEAN

Rest == LockTypes /\ WorldTypes /\ FlagTypes

\* A thread takes the mutex of reactor r or gives it up, and falls asleep on
\* its notifier, wakes up or wakes all others.
LocksMove(t, r) ==
  /\ mutex' \in {mutex, [mutex EXCEPT ![r] = t], [mutex EXCEPT ![r] = None]}
  /\ notifier_cv' \in {notifier_cv, [notifier_cv EXCEPT ![r] = @ \cup {t}],
                       [notifier_cv EXCEPT ![r] = @ \ {t}], [notifier_cv EXCEPT ![r] = {}]}

LEMMA LocksKept ==
  ASSUME LockTypes, NEW t \in All, NEW r \in Reactors, LocksMove(t, r)
  PROVE  LockTypes'
<1>1. mutex' \in [Reactors -> All \cup {None}]
  BY DEF LockTypes, LocksMove
<1>2. notifier_cv' \in [Reactors -> SUBSET All]
  BY DEF LockTypes, LocksMove
<1> QED BY <1>1, <1>2 DEF LockTypes

LEMMA SleepMoves ==
  ASSUME NEW t, NEW p, SleepWhileSignalled(t, p)
  PROVE  LocksMove(t, Rtor(t))
BY DEF SleepWhileSignalled, Unlock, LocksMove

LEMMA LeaveMoves ==
  ASSUME LockTypes, NEW t \in All, Rtor(t) \in Reactors, NEW p, LeaveSection(t, p)
  PROVE  LocksMove(t, Rtor(t))
<1> DEFINE r == Rtor(t)
<1>1. CASE SleepWhileSignalled(t, p)
  BY <1>1, SleepMoves
<1>2. ASSUME mutex' = [mutex EXCEPT ![r] = t],
             notifier_cv' = [notifier_cv EXCEPT ![r] = IF signalled_notifier[r] THEN {} ELSE @]
      PROVE  LocksMove(t, r)
  <2>1. CASE signalled_notifier[r]
    BY <1>2, <2>1 DEF LocksMove
  <2>2. CASE ~signalled_notifier[r]
    <3>1. notifier_cv' = notifier_cv
      BY <1>2, <2>2 DEF LockTypes
    <3> QED BY <1>2, <3>1 DEF LocksMove
  <2> QED BY <2>1, <2>2
<1> QED BY <1>1, <1>2 DEF LeaveSection

\* Nothing but the locks changes, and what is ready or leaked.
LEMMA CalmRest ==
  ASSUME Rest, NEW t \in All, NEW r \in Reactors, LocksMove(t, r),
         ready' \subseteq ready, silent' \subseteq silent, leaked' \subseteq leaked \cup Reactors,
         UNCHANGED <<net, failed, events, tick_deadline, teardown, joined, woken>>
  PROVE  Rest'
<1>1. LockTypes'
  BY LocksKept DEF Rest
<1>2. WorldTypes'
  BY DEF Rest, WorldTypes
<1>3. FlagTypes'
  BY DEF Rest, FlagTypes
<1> QED BY <1>1, <1>2, <1>3 DEF Rest

LEMMA TickRest ==
  ASSUME IInv, Rest, NEW t \in All, Tick(t)
  PROVE  Rest'
<1> DEFINE r == Rtor(t)
<1>1. r \in Reactors
  BY TheReactor
<1>2. PICK S \in SUBSET ObjsOf(r), notify \in BOOLEAN, D \in SUBSET (Deadlines \cup {Never}) :
         TickResult(t, S, notify, D)
  BY TickResults
<1>3. LocksMove(t, r)
  <2>1. CASE Notify(t)
    BY <2>1, SleepMoves DEF Notify, LocksMove
  <2>2. CASE UNCHANGED <<mutex, notifier_cv>>
    BY <2>2 DEF LocksMove
  <2> QED BY <1>2, <2>1, <2>2 DEF TickResult
<1>4. LockTypes'
  BY <1>1, <1>3, LocksKept DEF Rest
<1>5. WorldTypes'
  <2>1. tick_deadline' \in [Reactors -> Deadlines \cup {Never}]
    BY <1>1, <1>2 DEF TickResult, Rest, WorldTypes
  <2>2. leaked' = leaked
    BY <1>2 DEF TickResult
  <2>3. ready' \subseteq Objs /\ silent' \subseteq Objs
    BY <1>2 DEF TickResult, ObjsOf, Rest, WorldTypes
  <2>4. net' \subseteq Reactors /\ failed' \subseteq Reactors
    BY <1>1 DEF Tick, TickWork, TickTimer, TickSilent, TickNothing, TickFails, Rest, WorldTypes
  <2>5. events' \in 0 .. MaxEvents
    <3>1. \/ events' = events
          \/ events < MaxEvents /\ events' = events + 1
      BY DEF Tick, TickWork, TickTimer, TickSilent, TickNothing, TickFails
    <3>2. events \in 0 .. MaxEvents /\ MaxEvents \in Nat
      BY ReactorAssumption DEF Rest, WorldTypes
    <3> QED BY <3>1, <3>2
  <2> QED BY <2>1, <2>2, <2>3, <2>4, <2>5, <1>2 DEF WorldTypes, TickResult, Rest
<1>6. FlagTypes'
  BY <1>2 DEF TickResult, assistVars, Rest, FlagTypes
<1> QED BY <1>4, <1>5, <1>6 DEF Rest

\* The steps of a thread's calls between its ticks.
LEMMA CallRest ==
  ASSUME IInv, Rest, NEW t \in All,
         \/ SleepEnds(t) \/ TickReturns(t) \/ BlockReturns(t) \/ BlockPolls(t)
         \/ PollEnds(t) \/ BlockLeaves(t) \/ BlockLeft(t)
         \/ Readout(t) \/ ReadoutDone(t) \/ Translate(t) \/ Reread(t) \/ TranslateFails(t)
         \/ AbortLeaves(t) \/ Aborted(t) \/ PollLeaves(t) \/ PollLeft(t)
         \/ \E o \in Objs : CallTick(t, o) \/ CallBlock(t, o)
         \/ \E l, b : CallPoll(t, l, b)
  PROVE  Rest'
<1>1. Rtor(t) \in Reactors
  BY TheReactor
<1>2. /\ ready' \subseteq ready /\ silent' \subseteq silent /\ leaked' \subseteq leaked \cup Reactors
      /\ UNCHANGED <<net, failed, events, tick_deadline, teardown, joined, woken>>
  BY DEF SleepEnds, TickReturns, BlockReturns, BlockPolls, PollEnds, BlockLeaves, BlockLeft,
         Readout, ReadoutDone, Translate, Reread, TranslateFails, AbortLeaves, Aborted,
         PollLeaves, PollLeft, WaitCtxLeave, CallTick, CallBlock, CallPoll,
         rtorVars, worldVars, history, assistVars
<1>3. \E r \in Reactors : LocksMove(t, r)
  <2>1. CASE \E o \in Objs : CallTick(t, o) \/ CallBlock(t, o)
    BY <2>1, ReactorAssumption DEF CallTick, CallBlock, Lock, LocksMove
  <2>2. CASE \E p : LeaveSection(t, p)
    BY <1>1, <2>2, LeaveMoves DEF Rest
  <2>3. CASE BlockLeaves(t) \/ AbortLeaves(t) \/ PollLeaves(t)
    BY <1>1, <2>2, <2>3
       DEF BlockLeaves, AbortLeaves, PollLeaves, WaitCtxLeave, Lock, LocksMove
  <2>4. CASE TickReturns(t) \/ BlockReturns(t) \/ BlockPolls(t) \/ BlockLeft(t)
    BY <1>1, <2>4 DEF TickReturns, BlockReturns, BlockPolls, BlockLeft, Unlock, LocksMove
  <2>5. CASE PollEnds(t) \/ TranslateFails(t) \/ \E l, b : CallPoll(t, l, b)
    BY <1>1, <2>5 DEF PollEnds, TranslateFails, CallPoll, rtorVars, LocksMove
  <2>6. CASE Readout(t) \/ ReadoutDone(t) \/ Translate(t) \/ Reread(t)
    BY <1>1, <2>6
       DEF Readout, ReadoutDone, Translate, Reread, Lock, Unlock, LockAndUnlock, LocksMove
  <2>7. CASE Aborted(t) \/ PollLeft(t)
    BY <1>1, <2>7 DEF Aborted, PollLeft, Unlock, LocksMove
  <2>8. CASE SleepEnds(t)
    BY <1>1, <2>8 DEF SleepEnds, LocksMove
  <2> QED BY <2>1, <2>3, <2>4, <2>5, <2>6, <2>7, <2>8
<1> QED BY <1>2, <1>3, CalmRest

\* The assist thread's own steps, and its end.
LEMMA AssistRest ==
  ASSUME IInv, Rest, NEW t \in All,
         AssistStart \/ AssistLoop \/ AssistWakes \/ StopAssist(t) \/ Joined(t)
  PROVE  Rest'
<1>0. Assist \in All /\ Rtor(Assist) \in Reactors
  BY TheReactor DEF All
<1>1. LocksMove(Assist, Rtor(Assist))
  BY DEF AssistStart, AssistLoop, AssistWakes, StopAssist, Joined, Lock, Unlock, LockAndUnlock,
         LocksMove
<1>2. UNCHANGED <<net, failed, ready, events, leaked, silent, tick_deadline>>
  BY DEF AssistStart, AssistLoop, AssistWakes, StopAssist, Joined, worldVars, history
<1>3. FlagTypes'
  BY DEF AssistStart, AssistLoop, AssistWakes, StopAssist, Joined, assistVars, Rest, FlagTypes
<1>4. LockTypes'
  BY <1>0, <1>1, LocksKept DEF Rest
<1>5. WorldTypes'
  BY <1>2 DEF Rest, WorldTypes
<1> QED BY <1>3, <1>4, <1>5 DEF Rest

LEMMA NextRest ==
  ASSUME IInv, Rest, [Next]_vars
  PROVE  Rest'
<1>1. CASE UNCHANGED vars
  BY <1>1 DEF vars, rtorVars, worldVars, history, assistVars, Rest, LockTypes, WorldTypes, FlagTypes
<1>2. CASE \E r \in Reactors : Arrive(r)
  <2>1. LockTypes' /\ FlagTypes'
    BY <1>2 DEF Arrive, rtorVars, assistVars, Rest, LockTypes, FlagTypes
  <2>2. WorldTypes'
    BY <1>2, ReactorAssumption DEF Arrive, rtorVars, history, Rest, WorldTypes
  <2> QED BY <2>1, <2>2 DEF Rest
<1>3. CASE \/ AssistProgress \/ AssistWakes
           \/ TickTimer(Assist) \/ TickSilent(Assist) \/ TickFails(Assist)
  <2>1. Assist \in All  BY DEF All
  <2> QED BY <1>3, <2>1, TickRest, AssistRest, CallRest DEF AssistProgress, Tick
<1>4. ASSUME NEW t \in Threads,
             \/ \E o \in BlockObjs \cap Usable : CallTick(t, o) \/ CallBlock(t, o)
             \/ \E l \in PollLists, b \in BOOLEAN : ListRange(l) \subseteq Usable /\ CallPoll(t, l, b)
             \/ StopAssist(t)
             \/ TickTimer(t) \/ TickSilent(t) \/ TickFails(t)
             \/ PollEnds(t) \/ TranslateFails(t)
      PROVE  Rest'
  <2>1. t \in All /\ BlockObjs \subseteq Objs  BY ReactorAssumption DEF All
  <2> QED BY <1>4, <2>1, TickRest, AssistRest, CallRest DEF Tick
<1>5. ASSUME NEW t \in Threads, Progress(t)
      PROVE  Rest'
  <2>1. t \in All  BY DEF All
  <2> QED BY <1>5, <2>1, TickRest, AssistRest, CallRest DEF Progress, Tick
<1> QED BY <1>1, <1>2, <1>3, <1>4, <1>5 DEF Next

\* The state stays well formed: no count of waiters and no slot of a wait context
\* goes below zero, every mutex is held by a thread or by nobody, and SSL_poll
\* never goes past its list of items.
THEOREM ReactorTypes == Spec => []TypeOK
<1>1. ASSUME IInv, Rest PROVE TypeOK
  <2> USE <1>1
  <2>1. cur_blocking_waiters \in [Reactors -> Nat]
    <3> SUFFICES ASSUME NEW r \in Reactors PROVE cur_blocking_waiters[r] \in Nat
      BY DEF IInv, Types
    <3>1. IsFiniteSet(Blockers(r))
      BY ReactorAssumption, FS_Subset DEF Blockers
    <3>2. Cardinality(Blockers(r)) \in Nat
      BY <3>1, FS_CardinalityType
    <3>3. cur_blocking_waiters[r] \in Int /\ cur_blocking_waiters[r] >= Cardinality(Blockers(r))
      BY DEF IInv, Types, Waiters
    <3> QED BY <3>2, <3>3
  <2>2. slots \in [Threads -> [Reactors -> Nat]]
    <3> SUFFICES ASSUME NEW t \in Threads, NEW r \in Reactors PROVE slots[t][r] \in Nat
      BY DEF IInv, Types
    <3>1. slots[t][r] = IF call[t].kind = "poll"
                        THEN Cardinality(HeldOn(Where(at[t], call[t]), call[t], r)) ELSE 0
      BY DEF IInv, ThreadInv, Counted
    <3>2. Cardinality(HeldOn(Where(at[t], call[t]), call[t], r)) \in Nat
      BY ThreadFacts, HeldFinite
    <3> QED BY <3>1, <3>2
  <2>3. ASSUME NEW t \in All
        PROVE  /\ call[t].list \in Seq(Objs)
               /\ call[t].i \in DOMAIN call[t].list
               /\ call[t].n \in 0 .. Len(call[t].list)
    <3>1. call[t] \in CallType /\ call[t].i \in DOMAIN call[t].list
      BY TheReactor
    <3>2. CASE t \in Threads
      BY <3>1, <3>2, ThreadFacts DEF CallType
    <3>3. CASE t = Assist
      <4>1. call[t].n = 0
        BY <3>3 DEF IInv, AssistInv
      <4> QED BY <3>1, <4>1 DEF CallType
    <3> QED BY <3>2, <3>3 DEF All
  <2>4. signalled_notifier \in [Reactors -> BOOLEAN]
    BY DEF IInv, Types
  <2> QED
    BY <2>1, <2>2, <2>3, <2>4 DEF TypeOK, Rest, LockTypes, WorldTypes, FlagTypes
<1>2. Init => Rest
  <2> SUFFICES ASSUME Init PROVE Rest
    OBVIOUS
  <2>1. LockTypes
    BY DEF Init, LockTypes
  <2>2. WorldTypes
    BY ReactorAssumption DEF Init, WorldTypes
  <2>3. FlagTypes
    BY DEF Init, FlagTypes
  <2> QED BY <2>1, <2>2, <2>3 DEF Rest
<1> QED
  BY <1>1, <1>2, NextRest, InitInv, NextInv, PTL DEF Spec
=============================================================================
