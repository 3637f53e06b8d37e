--------------------------- MODULE HashTableProofs ---------------------------
(***************************************************************************)
(* Proofs about HashTable, for every set of readers, writers, keys and     *)
(* configurations and for every amount of memory.                          *)
(*                                                                         *)
(* A lookup holds on to a table and to a value that the writers may have   *)
(* taken out long ago, in another grace period than the one that is        *)
(* ending.  The inductive invariant therefore speaks of everything a       *)
(* reader can still come across (Reach), and says of a writer that waits   *)
(* for its grace period: whoever it does not wait for any more cannot come *)
(* across what it is about to free.                                        *)
(***************************************************************************)
EXTENDS HashTable, SumTheorems

IsTable(t) ==
  /\ t = [len |-> t.len, ent |-> t.ent]
  /\ t.len \in Nat \ {0}
  /\ t.ent \in [Slots(t.len) -> Entry]

\* The values in table t of the tables T.
Vals(T, t) == {T[t].ent[s].value : s \in DOMAIN T[t].ent} \ {NULL}

\* No value is twice in table t of T.
Distinct(T, t) ==
  \A s, u \in DOMAIN T[t].ent :
    T[t].ent[s].value = T[t].ent[u].value => s = u \/ T[t].ent[s].value = NULL

\* CellsOf, with the tables as a parameter.
Frees(T, cb) ==
  IF cb.fn = "free_oldmd" THEN Vals(T, cb.arg)
  ELSE IF cb.fn = "free_old_neigh_table" THEN {} ELSE {cb.arg}

\* Everything a reader that is at d may still use: the value it has loaded, and
\* what it can load from the table it walks through.
Reach(T, d) == ({d.val} \cup IF d.tab = NULL THEN {} ELSE Vals(T, d.tab)) \ {NULL}

Inserting(w) == wop[w].pc \in {"insert", "publish"}
InSection(w) == wop[w].pc \in {"locked", "insert", "publish", "unlink"}

DataTypes ==
  /\ config \in Configs
  /\ md \in DOMAIN tabs /\ DOMAIN tabs \subseteq Tables
  /\ tabs = [t \in DOMAIN tabs |-> tabs[t]]
  /\ \A t \in DOMAIN tabs : IsTable(tabs[t])
  /\ DOMAIN cells \subseteq Cells
  /\ \A c \in DOMAIN cells : cells[c] \in Keys
  /\ neighborhood_len = tabs[md].len

SlotType == (Nat \X Nat) \cup {NULL}
WopType ==
  [pc : {"idle", "locked", "insert", "publish", "unlink", "sync", "taken", "wait"},
   key : Keys \cup {NULL}, cell : Cells \cup {NULL}, olddata : BOOLEAN,
   tries : 0 .. 4, slot : SlotType]

WriterTypes ==
  /\ wop \in [Writers -> WopType]
  /\ writer \in Writers \cup {NULL}
  /\ need_sync \in BOOLEAN
  /\ cb_items \subseteq Callback
  /\ cbs \in [Writers -> SUBSET Callback]
  /\ leaked \subseteq Callback
  /\ waiting \subseteq Writers /\ inside \subseteq Readers
  /\ owed \in [Writers -> SUBSET Readers]

RdType ==
  [pc : {"out", "in", "load", "hash", "got"}, key : Keys \cup {NULL},
   tab : Tables \cup {NULL}, i : Nat, val : Cells \cup {NULL}]

ReaderTypes == rd \in [Readers -> RdType]

\* One writer at a time is in the section; its call has the arguments it needs.
Section ==
  /\ \A w \in Writers : InSection(w) <=> writer = w
  /\ writer = NULL => ~need_sync
  /\ \A w \in Writers :
       /\ IF Inserting(w) THEN wop[w].key \in Keys /\ wop[w].cell \in DOMAIN cells
          ELSE wop[w].cell = NULL
       /\ wop[w].pc = "publish" =>
            /\ wop[w].slot \in Slots(tabs[md].len)
            /\ tabs[md].ent[wop[w].slot].value = NULL
       /\ wop[w].pc = "unlink" =>
            /\ wop[w].slot \in Slots(tabs[md].len)
            /\ tabs[md].ent[wop[w].slot].value # NULL
       /\ wop[w].pc = "wait" <=> w \in waiting
       /\ wop[w].pc \notin {"taken", "wait"} => cbs[w] = {}

\* Tables with lockless_reads only ever grow fuller.
Lockless ==
  config.lockless_reads =>
    /\ Removed = {}
    /\ ~need_sync
    /\ \A w \in Writers : /\ wop[w].pc \in {"idle", "locked", "insert", "publish"}
                          /\ wop[w].pc = "insert" => ~wop[w].olddata

\* No callback is called twice, none that was not queued is called, and no two
\* free the same.
CbsApart ==
  /\ \A v, w \in Writers : v # w => cbs[v] \cap cbs[w] = {}
  /\ \A w \in Writers : cbs[w] \cap cb_items = {}
  /\ \A w \in Writers : cbs[w] \cap leaked = {}
  /\ leaked \cap cb_items = {}

FreedOnce ==
  \A a, b \in Removed :
    a # b => /\ TablesOf(a) \cap TablesOf(b) = {}
             /\ Frees(tabs, a) \cap Frees(tabs, b) = {}

\* Every table but md, and nothing else, waits to be freed or has leaked.
TablesOwned ==
  /\ \A cb \in Removed : TablesOf(cb) \subseteq DOMAIN tabs \ {md}
  /\ \A t \in DOMAIN tabs \ {md} : \E cb \in Removed : t \in TablesOf(cb)

\* Every wrapper is in md, or with an insertion, or waits to be freed or has leaked.
CellsOwned ==
  /\ Vals(tabs, md) \subseteq DOMAIN cells
  /\ Distinct(tabs, md)
  /\ \A w \in Writers : wop[w].cell \notin Vals(tabs, md)
  /\ \A cb \in Removed :
       /\ Frees(tabs, cb) \subseteq DOMAIN cells \ Vals(tabs, md)
       /\ \A w \in Writers : wop[w].cell \notin Frees(tabs, cb)
  /\ \A c \in DOMAIN cells :
       \/ c \in Vals(tabs, md)
       \/ \E w \in Writers : c = wop[w].cell
       \/ \E cb \in Removed : c \in Frees(tabs, cb)

ReaderState ==
  \A r \in Readers :
    /\ rd[r].tab \in DOMAIN tabs \cup {NULL}
    /\ rd[r].pc = "out" => rd[r].tab = NULL /\ rd[r].val = NULL
    /\ rd[r].pc \in {"load", "hash"} =>
         rd[r].tab # NULL /\ rd[r].key \in Keys
           /\ rd[r].i < ProbeLen(tabs[rd[r].tab])
    /\ ~config.lockless_reads /\ rd[r].pc # "out" => r \in inside

\* Nothing a reader can come across has been freed, or will be by an insertion
\* that fails ...
ReachKept ==
  \A r \in Readers :
    /\ Reach(tabs, rd[r]) \subseteq DOMAIN cells
    /\ \A w \in Writers : wop[w].cell \notin Reach(tabs, rd[r])

\* ... or by a writer that does not wait for the reader.
GraceKept ==
  \A r \in Readers, w \in Writers :
    wop[w].pc = "wait" /\ r \notin owed[w] =>
      \A cb \in cbs[w] : /\ rd[r].tab \notin TablesOf(cb)
                         /\ Reach(tabs, rd[r]) \cap Frees(tabs, cb) = {}

IInv == /\ DataTypes /\ WriterTypes /\ ReaderTypes
        /\ Section /\ Lockless /\ CbsApart /\ FreedOnce /\ TablesOwned /\ CellsOwned
        /\ ReaderState /\ ReachKept /\ GraceKept /\ SyncDue

(***************************************************************************)
(* Tables.                                                                 *)
(***************************************************************************)
LEMMA EntryFacts ==
  /\ Empty \in Entry /\ Empty.value = NULL
  /\ \A e \in Entry : /\ e.value \in Cells \cup {NULL}
                      /\ e = [hash |-> e.hash, value |-> e.value]
                      /\ e.hash \in {0} \cup {Hash[k] : k \in Keys}
  /\ \A k \in Keys, v \in Cells \cup {NULL} : [hash |-> Hash[k], value |-> v] \in Entry
BY DEF Entry, Empty

LEMMA SlotsFacts ==
  ASSUME NEW len \in Nat \ {0}
  PROVE  /\ \A s \in Slots(len) : /\ s \in Nat \X Nat
                                  /\ s = <<s[1], s[2]>>
                                  /\ s[1] \in 0 .. len - 1
                                  /\ s[2] \in 0 .. NeighLen - 1
         /\ \A a \in 0 .. len - 1, b \in 0 .. NeighLen - 1 : <<a, b>> \in Slots(len)
BY SizesAssumption DEF Slots

LEMMA ValsMember ==
  ASSUME NEW T, NEW t, NEW c
  PROVE  c \in Vals(T, t) <=>
           c # NULL /\ \E s \in DOMAIN T[t].ent : T[t].ent[s].value = c
BY DEF Vals

LEMMA NewTableFacts ==
  ASSUME NEW len \in Nat \ {0}
  PROVE  /\ IsTable(NewTable(len))
         /\ NewTable(len).len = len
         /\ NewTable(len).ent = [s \in Slots(len) |-> Empty]
BY EntryFacts DEF IsTable, NewTable

\* U is T with entry s of table m changed.
Changed(T, U, m, s) ==
  /\ DOMAIN U = DOMAIN T
  /\ U = [t \in DOMAIN U |-> U[t]]
  /\ \A t \in DOMAIN T \ {m} : U[t] = T[t]
  /\ IsTable(U[m])
  /\ U[m].len = T[m].len
  /\ \A u \in Slots(T[m].len) \ {s} : U[m].ent[u] = T[m].ent[u]

WithEntry(T, m, s, e) == [T EXCEPT ![m].ent[s] = e]
WithHash(T, m, s, h) == [T EXCEPT ![m].ent[s].hash = h]
WithValue(T, m, s, v) == [T EXCEPT ![m].ent[s].value = v]

LEMMA ChangeEntry ==
  ASSUME NEW T, NEW m \in DOMAIN T, T = [t \in DOMAIN T |-> T[t]], IsTable(T[m]),
         NEW s \in Slots(T[m].len), NEW e \in Entry,
         NEW U, U = WithEntry(T, m, s, e)
  PROVE  Changed(T, U, m, s) /\ U[m].ent[s] = e
<1> DEFINE x == [T[m].ent EXCEPT ![s] = e]
           y == [T[m] EXCEPT !.ent = x]
<1>1. T[m].ent \in [Slots(T[m].len) -> Entry] /\ T[m].len \in Nat \ {0}
  BY DEF IsTable
<1>2. x \in [Slots(T[m].len) -> Entry] /\ x[s] = e
      /\ \A u \in Slots(T[m].len) \ {s} : x[u] = T[m].ent[u]
  BY <1>1
<1>3. y = [len |-> T[m].len, ent |-> x]
  BY DEF IsTable
<1>4. y.len = T[m].len /\ y.ent = x
  BY <1>3
<1>5. IsTable(y)
  BY <1>1, <1>2, <1>3, <1>4 DEF IsTable
<1>6. DOMAIN U = DOMAIN T /\ U[m] = y /\ U = [t \in DOMAIN U |-> U[t]]
      /\ \A t \in DOMAIN T \ {m} : U[t] = T[t]
  BY DEF WithEntry
<1>7. Changed(T, U, m, s) /\ U[m].ent[s] = e
  BY <1>2, <1>4, <1>5, <1>6 DEF Changed
<1> QED
  BY <1>7

LEMMA ChangeHash ==
  ASSUME NEW T, NEW m \in DOMAIN T, T = [t \in DOMAIN T |-> T[t]], IsTable(T[m]),
         NEW s \in Slots(T[m].len), NEW h \in {0} \cup {Hash[k] : k \in Keys},
         NEW U, U = WithHash(T, m, s, h)
  PROVE  /\ Changed(T, U, m, s)
         /\ U[m].ent[s].hash = h /\ U[m].ent[s].value = T[m].ent[s].value
<1> DEFINE e == [T[m].ent[s] EXCEPT !.hash = h]
<1>1. T[m].ent[s] \in Entry
  BY DEF IsTable
<1>2. e \in Entry /\ e.hash = h /\ e.value = T[m].ent[s].value
  BY <1>1 DEF Entry
<1>3. U = WithEntry(T, m, s, e)
  BY DEF WithEntry, WithHash
<1> HIDE DEF e
<1>5. Changed(T, U, m, s) /\ U[m].ent[s] = e
  BY <1>2, <1>3, ChangeEntry
<1> QED
  BY <1>2, <1>5

LEMMA ChangeValue ==
  ASSUME NEW T, NEW m \in DOMAIN T, T = [t \in DOMAIN T |-> T[t]], IsTable(T[m]),
         NEW s \in Slots(T[m].len), NEW v \in Cells \cup {NULL},
         NEW U, U = WithValue(T, m, s, v)
  PROVE  /\ Changed(T, U, m, s)
         /\ U[m].ent[s].value = v /\ U[m].ent[s].hash = T[m].ent[s].hash
<1> DEFINE e == [T[m].ent[s] EXCEPT !.value = v]
<1>1. T[m].ent[s] \in Entry
  BY DEF IsTable
<1>2. e \in Entry /\ e.value = v /\ e.hash = T[m].ent[s].hash
  BY <1>1 DEF Entry
<1>3. U = WithEntry(T, m, s, e)
  BY DEF WithEntry, WithValue
<1> HIDE DEF e
<1>5. Changed(T, U, m, s) /\ U[m].ent[s] = e
  BY <1>2, <1>3, ChangeEntry
<1> QED
  BY <1>2, <1>5

\* What changing one entry does to the values of the tables.
LEMMA ValsChanged ==
  ASSUME NEW T, NEW U, NEW m \in DOMAIN T, NEW s \in Slots(T[m].len),
         IsTable(T[m]), Changed(T, U, m, s), Distinct(T, m)
  PROVE  /\ \A t \in DOMAIN T \ {m} : Vals(U, t) = Vals(T, t)
         /\ Vals(U, m) = ((Vals(T, m) \ {T[m].ent[s].value})
                            \cup {U[m].ent[s].value}) \ {NULL}
         /\ U[m].ent[s].value \notin Vals(T, m) \ {T[m].ent[s].value} => Distinct(U, m)
<1>1. DOMAIN T[m].ent = Slots(T[m].len) /\ DOMAIN U[m].ent = Slots(T[m].len)
  BY DEF IsTable, Changed
<1>2. \A t \in DOMAIN T \ {m} : Vals(U, t) = Vals(T, t)
  BY DEF Changed, Vals
<1>3. ASSUME NEW c
      PROVE  c \in Vals(U, m) <=>
               c \in ((Vals(T, m) \ {T[m].ent[s].value}) \cup {U[m].ent[s].value}) \ {NULL}
  <2>1. CASE c \in Vals(U, m)
    <3>1. PICK u \in DOMAIN U[m].ent : U[m].ent[u].value = c /\ c # NULL
      BY <2>1, ValsMember
    <3>2. CASE u = s
      BY <2>1, <3>1, <3>2
    <3>3. CASE u # s
      <4>1. T[m].ent[u].value = c
        BY <1>1, <3>1, <3>3 DEF Changed
      <4>2. c \in Vals(T, m)
        BY <1>1, <3>1, <4>1, ValsMember
      <4>3. T[m].ent[s].value # c
        BY <1>1, <3>1, <3>3, <4>1 DEF Distinct
      <4> QED
        BY <2>1, <3>1, <4>2, <4>3
    <3> QED
      BY <3>2, <3>3
  <2>2. CASE c \in ((Vals(T, m) \ {T[m].ent[s].value}) \cup {U[m].ent[s].value}) \ {NULL}
    <3>1. CASE c = U[m].ent[s].value
      BY <1>1, <2>2, <3>1, ValsMember
    <3>2. CASE c \in Vals(T, m) /\ c # T[m].ent[s].value
      <4>1. PICK u \in DOMAIN T[m].ent : T[m].ent[u].value = c /\ c # NULL
        BY <3>2, ValsMember
      <4>2. U[m].ent[u].value = c
        BY <1>1, <3>2, <4>1 DEF Changed
      <4> QED
        BY <1>1, <2>2, <4>1, <4>2, ValsMember
    <3> QED
      BY <2>2, <3>1, <3>2
  <2> QED
    BY <2>1, <2>2
<1>4. ASSUME U[m].ent[s].value \notin Vals(T, m) \ {T[m].ent[s].value}
      PROVE  Distinct(U, m)
  <2> SUFFICES ASSUME NEW a \in Slots(T[m].len), NEW b \in Slots(T[m].len),
                      U[m].ent[a].value = U[m].ent[b].value, a # b,
                      U[m].ent[a].value # NULL
               PROVE  FALSE
    BY <1>1 DEF Distinct
  <2>1. ASSUME NEW u \in Slots(T[m].len), u # s,
               U[m].ent[u].value = U[m].ent[s].value, U[m].ent[u].value # NULL
        PROVE  FALSE
    <3>1. T[m].ent[u].value = U[m].ent[s].value
      BY <2>1 DEF Changed
    <3>2. U[m].ent[s].value \in Vals(T, m)
      BY <1>1, <2>1, <3>1, ValsMember
    <3>3. T[m].ent[u].value = T[m].ent[s].value
      BY <1>4, <3>1, <3>2
    <3> QED
      BY <1>1, <2>1, <3>1, <3>3 DEF Distinct
  <2>2. CASE a # s /\ b # s
    <3>1. T[m].ent[a].value = T[m].ent[b].value /\ T[m].ent[a].value # NULL
      BY <2>2 DEF Changed
    <3> QED
      BY <1>1, <3>1 DEF Distinct
  <2> QED
    BY <2>1, <2>2
<1>5. Vals(U, m) = ((Vals(T, m) \ {T[m].ent[s].value})
                      \cup {U[m].ent[s].value}) \ {NULL}
  BY <1>3
<1> QED
  BY <1>2, <1>4, <1>5

(***************************************************************************)
(* Sizes and growth.                                                       *)
(***************************************************************************)
LEMMA PowerOfTwo == ASSUME NEW k \in Nat PROVE 2^k \in Nat \ {0}
<1> DEFINE S == 1 .. k
<1>1. IsFiniteSet(S) /\ Cardinality(S) = k
  BY FS_Interval
<1>2. IsFiniteSet(SUBSET S) /\ Cardinality(SUBSET S) = 2^k
  BY <1>1, FS_SUBSET
<1>3. Cardinality(SUBSET S) \in Nat
  BY <1>2, FS_CardinalityType
<1>4. Cardinality(SUBSET S) # 0
  BY <1>2, FS_EmptySet
<1> QED
  BY <1>2, <1>3, <1>4

LEMMA Product == ASSUME NEW a \in Nat \ {0}, NEW b \in Nat \ {0}
                 PROVE  a * b \in Nat \ {0}
OBVIOUS

LEMMA InitLenType == ASSUME config \in Configs PROVE InitLen \in Nat \ {0}
<1> DEFINE x == config.init_neighborhoods
           Enough == {n \in 0 .. 32 : 2^n >= x}
<1>1. x \in Nat /\ \E n \in 0 .. 32 : x <= 2^n
  BY ConfigsAssumption
<1>2. \A n \in Nat : 2^n \in Nat \ {0}
  BY PowerOfTwo
<1>3. Enough # {} /\ Enough \subseteq Nat
  BY <1>1, <1>2
<1>4. PICK n \in Enough : \A m \in Enough : n <= m
  BY <1>3, SmallestNumber
<1>5. \A m \in 0 .. n - 1 : 2^m < x
  BY <1>1, <1>2, <1>4
<1>6. \E m \in 0 .. 32 : 2^m >= x /\ \A j \in 0 .. m - 1 : 2^j < x
  BY <1>4, <1>5
<1> DEFINE nn == CHOOSE m \in 0 .. 32 : 2^m >= x /\ \A j \in 0 .. m - 1 : 2^j < x
<1>7. nn \in 0 .. 32
  BY <1>6, Zenon
<1>8. DefaultLen \in Nat \ {0}
  BY SizesAssumption
<1>9. InitLen = IF x = 0 THEN DefaultLen ELSE 2^nn
  BY Zenon DEF InitLen
<1> HIDE DEF nn
<1> QED
  BY <1>2, <1>7, <1>8, <1>9

LEMMA GrowLenFacts ==
  ASSUME NEW t, NEW len \in Nat \ {0}, ~NoSizeFits(t, len)
  PROVE  GrowLen(t, len) \in Nat \ {0} /\ Fits(t, GrowLen(t, len))
<1> DEFINE F(k) == Fits(t, len * 2^k)
           Enough == {k \in 1 .. 64 : F(k)}
           Least(k) == F(k) /\ \A j \in 1 .. k - 1 : ~F(j)
           kk == CHOOSE k \in 1 .. 64 : Least(k)
<1>0. Enough # {}
  BY Zenon DEF NoSizeFits
<1>1. Enough # {} /\ Enough \subseteq Nat
  BY <1>0
<1>2. PICK k \in Enough : \A j \in Enough : k <= j
  BY <1>1, SmallestNumber
<1>3. \A j \in 1 .. k - 1 : j \notin Enough /\ j \in 1 .. 64
  BY <1>2
<1>4. k \in 1 .. 64 /\ Least(k)
  BY <1>2, <1>3
<1>5. kk \in 1 .. 64 /\ Least(kk)
  <2> HIDE DEF Least
  <2> QED BY <1>4
<1>6. GrowLen(t, len) = len * 2^kk
  BY DEF GrowLen
<1>7. F(kk)
  BY <1>5, Zenon
<1> HIDE DEF kk
<1>8. 2^kk \in Nat \ {0}
  BY <1>5, PowerOfTwo
<1> QED
  BY <1>6, <1>7, <1>8, Product

LEMMA SlotsFinite ==
  ASSUME NEW len \in Nat \ {0}
  PROVE  IsFiniteSet(Slots(len))
<1>0. len - 1 \in Int /\ NeighLen - 1 \in Int /\ 0 \in Int
  BY SizesAssumption
<1>1. IsFiniteSet(0 .. len - 1) /\ IsFiniteSet(0 .. NeighLen - 1)
  BY <1>0, FS_Interval
<1> QED
  BY <1>1, FS_Product DEF Slots

\* How many of the entries that move into the neighborhood of entry u come before it.
Rank(t, len, u) == Cardinality({x \in Moved(t, len, t.ent[u].hash % len) : Earlier(x, u)})

LEMMA EarlierOrder ==
  ASSUME NEW len \in Nat \ {0}, NEW a \in Slots(len), NEW b \in Slots(len)
  PROVE  /\ a # b => Earlier(a, b) \/ Earlier(b, a)
         /\ ~Earlier(a, a)
         /\ \A x \in Slots(len) : Earlier(x, a) /\ Earlier(a, b) => Earlier(x, b)
BY SlotsFacts DEF Earlier

LEMMA RankInjective ==
  ASSUME NEW t, IsTable(t), t.len = neighborhood_len, NEW len \in Nat \ {0},
         NEW n, NEW u \in Moved(t, len, n), NEW v \in Moved(t, len, n), u # v
  PROVE  Rank(t, len, u) # Rank(t, len, v)
<1> DEFINE m == Moved(t, len, n)
           B(x) == {y \in m : Earlier(y, x)}
<1>1. m \subseteq Slots(t.len) /\ t.len \in Nat \ {0}
      /\ t.ent[u].hash % len = n /\ t.ent[v].hash % len = n
  BY DEF Moved, IsTable
<1>2. IsFiniteSet(m)
  BY <1>1, SlotsFinite, FS_Subset
<1>3. Rank(t, len, u) = Cardinality(B(u)) /\ Rank(t, len, v) = Cardinality(B(v))
  BY <1>1 DEF Rank
<1> HIDE DEF m
<1>4. ASSUME NEW x \in m, NEW y \in m, Earlier(x, y)
      PROVE  Cardinality(B(x)) # Cardinality(B(y))
  <2>1. x \notin B(x) /\ B(x) \cup {x} \subseteq B(y)
    BY <1>1, <1>4, EarlierOrder
  <2>2. IsFiniteSet(B(x)) /\ IsFiniteSet(B(y))
    BY <1>2, FS_Subset
  <2>3. Cardinality(B(x) \cup {x}) = Cardinality(B(x)) + 1
    BY <2>1, <2>2, FS_AddElement
  <2>4. Cardinality(B(x) \cup {x}) <= Cardinality(B(y))
    BY <2>1, <2>2, FS_Subset
  <2>5. Cardinality(B(x)) \in Nat /\ Cardinality(B(y)) \in Nat
    BY <2>2, FS_CardinalityType
  <2> QED
    BY <2>3, <2>4, <2>5
<1>5. Earlier(u, v) \/ Earlier(v, u)
  BY <1>1, EarlierOrder DEF m
<1> QED
  BY <1>3, <1>4, <1>5 DEF m

\* Where an entry of the new table comes from.
Source(t, len, s, u) ==
  /\ u \in Slots(t.len) /\ t.ent[u].value # NULL
  /\ s = <<t.ent[u].hash % len, Rank(t, len, u)>>

LEMMA RehashFacts ==
  ASSUME NEW t, IsTable(t), t.len = neighborhood_len, NEW len \in Nat \ {0}
  PROVE  /\ IsTable(Rehash(t, len)) /\ Rehash(t, len).len = len
         /\ \A s \in Slots(len) :
              \/ Rehash(t, len).ent[s] = Empty
              \/ \E u : Source(t, len, s, u) /\ Rehash(t, len).ent[s] = t.ent[u]
         /\ Fits(t, len) =>
              \A u \in Slots(t.len) : t.ent[u].value # NULL =>
                \E s \in Slots(len) : Rehash(t, len).ent[s] = t.ent[u]
<1> DEFINE m(n) == Moved(t, len, n)
           here(s) == {u \in m(s[1]) : Cardinality({x \in m(s[1]) : Earlier(x, u)}) = s[2]}
           ent == [s \in Slots(len) |->
                     IF here(s) = {} THEN Empty ELSE t.ent[CHOOSE u \in here(s) : TRUE]]
<1>1. Rehash(t, len) = [len |-> len, ent |-> ent]
  BY Zenon DEF Rehash
<1>2. Rehash(t, len).len = len /\ Rehash(t, len).ent = ent
  BY <1>1
<1>3. ASSUME NEW s \in Slots(len), NEW u \in here(s)
      PROVE  Source(t, len, s, u) /\ t.ent[u] \in Entry
  <2>1. u \in Slots(t.len) /\ t.ent[u].value # NULL /\ t.ent[u].hash % len = s[1]
    BY <1>3 DEF Moved
  <2>2. Rank(t, len, u) = s[2]
    BY <1>3, <2>1, Zenon DEF Rank
  <2>3. s = <<s[1], s[2]>>
    BY SlotsFacts
  <2> QED
    BY <2>1, <2>2, <2>3 DEF Source, IsTable
<1> HIDE DEF here
<1>4. ASSUME NEW s \in Slots(len)
      PROVE  /\ ent[s] \in Entry
             /\ \/ ent[s] = Empty
                \/ \E u \in here(s) : ent[s] = t.ent[u]
  <2>1. CASE here(s) = {}
    BY <2>1, EntryFacts
  <2>2. CASE here(s) # {}
    <3>1. PICK u : u = CHOOSE v \in here(s) : TRUE
      OBVIOUS
    <3>2. u \in here(s)
      BY <2>2, <3>1
    <3>3. ent[s] = t.ent[u]
      BY <2>2, <3>1
    <3> QED
      BY <1>3, <3>2, <3>3
  <2> QED
    BY <2>1, <2>2
<1>5. IsTable(Rehash(t, len))
  BY <1>1, <1>2, <1>4 DEF IsTable
<1>6. ASSUME NEW s \in Slots(len)
      PROVE  \/ ent[s] = Empty
             \/ \E u : Source(t, len, s, u) /\ ent[s] = t.ent[u]
  <2> HIDE DEF ent
  <2> QED BY <1>3, <1>4, <1>6
<1>7. ASSUME Fits(t, len), NEW u \in Slots(t.len), t.ent[u].value # NULL
      PROVE  \E s \in Slots(len) : ent[s] = t.ent[u]
  <2> DEFINE n == t.ent[u].hash % len
             B == {x \in m(n) : Earlier(x, u)}
             s == <<n, Cardinality(B)>>
  <2>1. t.ent[u] \in Entry /\ t.len \in Nat \ {0}
    BY DEF IsTable
  <2>2. t.ent[u].hash \in Nat
    BY <2>1, KeysAssumption DEF Entry
  <2>3. n \in 0 .. len - 1
    BY <2>2
  <2>4. m(n) \subseteq Slots(t.len) /\ u \in m(n)
    BY <1>7 DEF Moved
  <2>5. IsFiniteSet(m(n)) /\ IsFiniteSet(B)
    BY <2>1, <2>4, SlotsFinite, FS_Subset
  <2>6. Cardinality(m(n)) <= NeighLen
    BY <1>7, <2>3 DEF Fits
  <2>7. u \notin B /\ B \cup {u} \subseteq m(n)
    BY <2>1, <2>4, EarlierOrder
  <2>8. Cardinality(B) + 1 <= Cardinality(m(n))
    <3> HIDE DEF B
    <3>1. Cardinality(B \cup {u}) = Cardinality(B) + 1
      BY <2>5, <2>7, FS_AddElement
    <3>2. Cardinality(B \cup {u}) <= Cardinality(m(n))
      BY <2>5, <2>7, FS_Subset
    <3> QED BY <3>1, <3>2
  <2>9. Cardinality(B) \in Nat /\ Cardinality(m(n)) \in Nat /\ NeighLen \in Nat
    BY <2>5, FS_CardinalityType, SizesAssumption
  <2>10. s \in Slots(len)
    <3>1. Cardinality(B) \in 0 .. NeighLen - 1
      BY <2>6, <2>8, <2>9
    <3> QED BY <2>3, <3>1, SlotsFacts
  <2>11. u \in here(s)
    BY <2>4 DEF here
  <2>12. \A v \in here(s) : v = u
    <3> SUFFICES ASSUME NEW v \in here(s), v # u PROVE FALSE
      OBVIOUS
    <3>1. Source(t, len, s, v) /\ Source(t, len, s, u)
      BY <1>3, <2>10, <2>11
    <3>2. Rank(t, len, v) = Rank(t, len, u)
      BY <3>1 DEF Source
    <3>3. v \in m(n)
      BY DEF here
    <3> QED
      BY <2>4, <3>2, <3>3, RankInjective
  <2>13. (CHOOSE v \in here(s) : TRUE) = u
    BY <2>11, <2>12
  <2>14. ent[s] = t.ent[u]
    BY <2>10, <2>11, <2>13
  <2> QED
    BY <2>10, <2>14
<1> QED
  BY <1>2, <1>5, <1>6, <1>7

\* Growing keeps the values, and none of them becomes two.
LEMMA RehashVals ==
  ASSUME NEW T, NEW t, NEW U, NEW u, NEW len \in Nat \ {0},
         IsTable(T[t]), T[t].len = neighborhood_len, Distinct(T, t),
         U[u] = Rehash(T[t], len), Fits(T[t], len)
  PROVE  Vals(U, u) = Vals(T, t) /\ Distinct(U, u)
<1>1. DOMAIN U[u].ent = Slots(len) /\ DOMAIN T[t].ent = Slots(T[t].len)
  BY RehashFacts DEF IsTable
<1>2. ASSUME NEW s \in Slots(len), U[u].ent[s].value # NULL
      PROVE  \E v : Source(T[t], len, s, v) /\ U[u].ent[s] = T[t].ent[v]
  BY <1>2, RehashFacts, EntryFacts
<1>3. ASSUME NEW c \in Vals(U, u) PROVE c \in Vals(T, t)
  <2>1. PICK s \in Slots(len) : U[u].ent[s].value = c /\ c # NULL
    BY <1>1, ValsMember
  <2>2. PICK v : Source(T[t], len, s, v) /\ U[u].ent[s] = T[t].ent[v]
    BY <1>2, <2>1
  <2> QED
    BY <1>1, <2>1, <2>2, ValsMember DEF Source
<1>4. ASSUME NEW c \in Vals(T, t) PROVE c \in Vals(U, u)
  <2>1. PICK v \in Slots(T[t].len) : T[t].ent[v].value = c /\ c # NULL
    BY <1>1, ValsMember
  <2>2. PICK s \in Slots(len) : U[u].ent[s] = T[t].ent[v]
    BY <2>1, RehashFacts
  <2> QED
    BY <1>1, <2>1, <2>2, ValsMember
<1>5. Distinct(U, u)
  <2> SUFFICES ASSUME NEW a \in Slots(len), NEW b \in Slots(len),
                      U[u].ent[a].value = U[u].ent[b].value,
                      U[u].ent[a].value # NULL
               PROVE  a = b
    BY <1>1 DEF Distinct
  <2>1. PICK v : Source(T[t], len, a, v) /\ U[u].ent[a] = T[t].ent[v]
    BY <1>2
  <2>2. PICK x : Source(T[t], len, b, x) /\ U[u].ent[b] = T[t].ent[x]
    BY <1>2
  <2>3. v = x
    BY <1>1, <2>1, <2>2 DEF Source, Distinct
  <2> QED
    BY <2>1, <2>2, <2>3 DEF Source
<1> QED
  BY <1>3, <1>4, <1>5

(***************************************************************************)
(* Callbacks and readers.                                                  *)
(***************************************************************************)
LEMMA CallbackFacts ==
  ASSUME NEW cb
  PROVE  CellsOf(cb) = Frees(tabs, cb)
<1>1. {e.value : e \in {tabs[cb.arg].ent[s] : s \in DOMAIN tabs[cb.arg].ent}} \ {NULL}
        = Vals(tabs, cb.arg)
  BY DEF Vals
<1>2. CASE cb.fn = "free_oldmd"
  BY <1>1, <1>2 DEF CellsOf, Frees
<1>3. CASE cb.fn = "free_old_neigh_table"
  BY <1>3 DEF CellsOf, Frees
<1>4. CASE cb.fn \notin {"free_oldmd", "free_old_neigh_table"}
  BY <1>4 DEF CellsOf, Frees
<1> QED
  BY <1>2, <1>3, <1>4

LEMMA RemovedFacts ==
  \A cb : cb \in Removed <=>
            cb \in cb_items \/ (\E w \in Writers : cb \in cbs[w]) \/ cb \in leaked
BY DEF Removed, Pending

LEMMA NewCallbacks ==
  ASSUME NEW T, NEW a
  PROVE  /\ LET cb == [fn |-> "free_oldmd", arg |-> a]
            IN  Frees(T, cb) = Vals(T, a) /\ TablesOf(cb) = {a}
         /\ LET cb == [fn |-> "free_old_neigh_table", arg |-> a]
            IN  Frees(T, cb) = {} /\ TablesOf(cb) = {a}
         /\ LET cb == [fn |-> "free_old_entry", arg |-> a]
            IN  Frees(T, cb) = {a} /\ TablesOf(cb) = {}
         /\ LET cb == [fn |-> "free_old_ht_value", arg |-> a]
            IN  Frees(T, cb) = {a} /\ TablesOf(cb) = {}
BY DEF Frees, TablesOf

(***************************************************************************)
(* The invariant.                                                          *)
(***************************************************************************)
LEMMA InitIInv == Init => IInv
<1> SUFFICES ASSUME Init PROVE IInv
  OBVIOUS
<1> USE DEF Init, GPInit
<1>1. InitLen \in Nat \ {0}
  BY InitLenType
<1>2. md \in Tables /\ DOMAIN tabs = {md} /\ tabs[md] = NewTable(InitLen)
  <2>1. Tables \ DOMAIN <<>> # {} /\ md = CHOOSE m \in Tables \ DOMAIN <<>> : TRUE
    BY MemoryAssumption DEF Unused
  <2>2. md \in Tables
    BY <2>1
  <2> QED BY <2>2
<1>3. Vals(tabs, md) = {} /\ IsTable(tabs[md]) /\ tabs[md].len = InitLen
      /\ Distinct(tabs, md)
  <2>1. /\ IsTable(tabs[md]) /\ tabs[md].len = InitLen
        /\ tabs[md].ent = [s \in Slots(InitLen) |-> Empty]
    BY <1>1, <1>2, NewTableFacts
  <2>2. \A s \in DOMAIN tabs[md].ent : tabs[md].ent[s].value = NULL
    BY <2>1, EntryFacts
  <2> QED
    BY <2>1, <2>2 DEF Vals, Distinct
<1>4. DataTypes
  BY <1>2, <1>3 DEF DataTypes
<1>5. WriterTypes
  <2>1. Idle \in WopType
    BY DEF Idle, WopType, SlotType
  <2>2. wop \in [Writers -> WopType]
    BY <2>1
  <2>3. owed \in [Writers -> SUBSET Readers] /\ cbs \in [Writers -> SUBSET Callback]
    OBVIOUS
  <2>4. need_sync \in BOOLEAN
    OBVIOUS
  <2> QED
    BY <2>2, <2>3, <2>4 DEF WriterTypes
<1>6. ReaderTypes
  BY DEF ReaderTypes, RdType, Outside
<1>7. Section
  BY KeysAssumption DEF Section, InSection, Inserting, Idle
<1>8. Removed = {}
  BY DEF Removed, Pending
<1>9. Lockless
  BY <1>8 DEF Lockless, Idle
<1>10. CbsApart /\ FreedOnce
  BY <1>8 DEF CbsApart, FreedOnce
<1>11. TablesOwned
  BY <1>2, <1>8 DEF TablesOwned
<1>12. CellsOwned
  BY <1>2, <1>3, <1>8 DEF CellsOwned
<1>13. ReaderState
  BY DEF ReaderState, Outside
<1>14. ReachKept
  BY DEF ReachKept, Reach, Outside
<1>15. GraceKept
  BY DEF GraceKept, Idle
<1>16. SyncDue
  BY DEF SyncDue
<1> QED
  BY <1>4, <1>5, <1>6, <1>7, <1>9, <1>10, <1>11, <1>12, <1>13, <1>14, <1>15, <1>16
     DEF IInv

\* What a reader's step leaves alone.
LEMMA ReaderFrame ==
  ASSUME IInv, UNCHANGED <<config, dataVars, writeVars, waiting>>,
         inside' \subseteq Readers, owed' \in [Writers -> SUBSET Readers]
  PROVE  /\ DataTypes' /\ WriterTypes' /\ Section' /\ Lockless' /\ CbsApart'
         /\ FreedOnce' /\ TablesOwned' /\ CellsOwned' /\ SyncDue'
<1> USE DEF IInv, dataVars, writeVars, wpd
<1>1. DataTypes'
  BY DEF DataTypes
<1>2. WriterTypes'
  BY DEF WriterTypes
<1>3. Section'
  BY DEF Section, InSection, Inserting
<1>4. Removed' = Removed
  BY DEF Removed, Pending
<1>5. Lockless'
  BY <1>4 DEF Lockless
<1>6. CbsApart' /\ FreedOnce' /\ TablesOwned' /\ CellsOwned'
  BY <1>4 DEF CbsApart, FreedOnce, TablesOwned, CellsOwned
<1>7. SyncDue'
  BY DEF SyncDue
<1> QED
  BY <1>1, <1>2, <1>3, <1>5, <1>6, <1>7

\* A step of one reader that comes across nothing new.
LEMMA ReaderOnly ==
  ASSUME IInv, UNCHANGED <<config, dataVars, writeVars, gpVars>>,
         NEW r \in Readers, NEW d, rd' = [rd EXCEPT ![r] = d],
         d \in RdType,
         d.tab \in {rd[r].tab, NULL}, Reach(tabs, d) \subseteq Reach(tabs, rd[r]),
         d.pc # "out", rd[r].pc # "out",
         d.pc \in {"load", "hash"} =>
           d.tab # NULL /\ d.key \in Keys /\ d.i < ProbeLen(tabs[d.tab])
  PROVE  IInv'
<1> USE DEF IInv
<1>1. UNCHANGED <<config, md, tabs, cells, wop, cbs, leaked, inside, waiting, owed>>
  BY DEF dataVars, writeVars, gpVars
<1>2. /\ DataTypes' /\ WriterTypes' /\ Section' /\ Lockless' /\ CbsApart'
      /\ FreedOnce' /\ TablesOwned' /\ CellsOwned' /\ SyncDue'
  <2>1. inside' \subseteq Readers /\ owed' \in [Writers -> SUBSET Readers]
    BY <1>1 DEF WriterTypes
  <2> QED BY <1>1, <2>1, ReaderFrame
<1>3. rd'[r] = d /\ \A q \in Readers \ {r} : rd'[q] = rd[q]
  BY DEF ReaderTypes, RdType
<1>4. ReaderTypes'
  BY DEF ReaderTypes, RdType
<1>5. ReaderState'
  <2> SUFFICES ASSUME NEW q \in Readers
               PROVE  /\ rd'[q].tab \in DOMAIN tabs \cup {NULL}
                      /\ rd'[q].pc = "out" => rd'[q].tab = NULL /\ rd'[q].val = NULL
                      /\ rd'[q].pc \in {"load", "hash"} =>
                           rd'[q].tab # NULL /\ rd'[q].key \in Keys
                             /\ rd'[q].i < ProbeLen(tabs[rd'[q].tab])
                      /\ ~config.lockless_reads /\ rd'[q].pc # "out" => q \in inside
    BY <1>1 DEF ReaderState, ProbeLen
  <2>1. CASE q = r
    BY <1>3, <2>1 DEF ReaderState
  <2>2. CASE q # r
    BY <1>3, <2>2 DEF ReaderState
  <2> QED BY <2>1, <2>2
<1>6. ReachKept'
  <2> SUFFICES ASSUME NEW q \in Readers
               PROVE  /\ Reach(tabs, rd'[q]) \subseteq DOMAIN cells
                      /\ \A w \in Writers : wop[w].cell \notin Reach(tabs, rd'[q])
    BY <1>1 DEF ReachKept
  <2> QED BY <1>3 DEF ReachKept
<1>7. GraceKept'
  <2> SUFFICES ASSUME NEW q \in Readers, NEW w \in Writers, wop[w].pc = "wait",
                      q \notin owed[w], NEW cb \in cbs[w]
               PROVE  /\ rd'[q].tab \notin TablesOf(cb)
                      /\ Reach(tabs, rd'[q]) \cap Frees(tabs, cb) = {}
    BY <1>1 DEF GraceKept
  <2>1. rd[q].tab \notin TablesOf(cb) /\ Reach(tabs, rd[q]) \cap Frees(tabs, cb) = {}
    BY DEF GraceKept
  <2>2. CASE q # r
    BY <1>3, <2>1, <2>2
  <2>3. CASE q = r
    <3>1. NULL \notin TablesOf(cb)
      <4>1. cb \in Removed
        BY RemovedFacts
      <4>2. TablesOf(cb) \subseteq Tables
        BY <4>1 DEF TablesOwned, DataTypes
      <4> QED BY <4>2, KeysAssumption
    <3> QED BY <1>3, <2>1, <2>3, <3>1
  <2> QED BY <2>2, <2>3
<1> QED
  BY <1>2, <1>4, <1>5, <1>6, <1>7

LEMMA ProbeInSlots ==
  ASSUME NEW t, IsTable(t), NEW h \in Nat, NEW i \in Nat
  PROVE  Probe(t, h, i) \in Slots(t.len) /\ Probe(t, h, i) \in DOMAIN t.ent
<1>1. t.len \in Nat \ {0} /\ NeighLen \in Nat \ {0} /\ DOMAIN t.ent = Slots(t.len)
  BY SizesAssumption DEF IsTable
<1>2. i \div NeighLen \in Nat
  BY <1>1
<1>3. (h + (i \div NeighLen)) % t.len \in 0 .. t.len - 1
  BY <1>1, <1>2
<1>4. i % NeighLen \in 0 .. NeighLen - 1
  BY <1>1
<1> QED
  BY <1>1, <1>3, <1>4, SlotsFacts DEF Probe

LEMMA HashType == \A k \in Keys : Hash[k] \in Nat /\ Hash[k] # 0
BY KeysAssumption

LEMMA ReadLockKeeps ==
  ASSUME IInv, NEW r \in Readers, ReadLock(r)
  PROVE  IInv'
<1> USE DEF IInv, ReadLock, Enter
<1>1. UNCHANGED <<config, md, tabs, cells, wop, cbs, leaked, waiting, owed>>
      /\ inside' = inside \cup {r}
  BY DEF dataVars, writeVars
<1>2. /\ DataTypes' /\ WriterTypes' /\ Section' /\ Lockless' /\ CbsApart'
      /\ FreedOnce' /\ TablesOwned' /\ CellsOwned' /\ SyncDue'
  <2>1. inside' \subseteq Readers /\ owed' \in [Writers -> SUBSET Readers]
    BY <1>1 DEF WriterTypes
  <2> QED BY <1>1, <2>1, ReaderFrame
<1>3. \A q \in Readers : /\ rd'[q].tab = rd[q].tab /\ rd'[q].val = rd[q].val
                         /\ rd'[q].key = rd[q].key /\ rd'[q].i = rd[q].i
                         /\ rd'[q].pc = IF q = r THEN "in" ELSE rd[q].pc
  BY DEF ReaderTypes, RdType
<1>4. ReaderTypes'
  BY DEF ReaderTypes, RdType
<1>5. ReaderState'
  BY <1>1, <1>3 DEF ReaderState, ProbeLen
<1>6. \A q \in Readers : Reach(tabs', rd'[q]) = Reach(tabs, rd[q])
  BY <1>1, <1>3 DEF Reach
<1>7. ReachKept'
  BY <1>1, <1>6 DEF ReachKept
<1>8. GraceKept'
  BY <1>1, <1>3, <1>6 DEF GraceKept
<1> QED
  BY <1>2, <1>4, <1>5, <1>7, <1>8

LEMMA ReadUnlockKeeps ==
  ASSUME IInv, NEW r \in Readers, ReadUnlock(r)
  PROVE  IInv'
<1> USE DEF IInv, ReadUnlock
<1>1. UNCHANGED <<config, md, tabs, cells, wop, cbs, leaked, waiting>>
  BY DEF dataVars, writeVars, gpVars, Leave
<1>2. /\ inside' \subseteq Readers
      /\ owed' \in [Writers -> SUBSET Readers]
      /\ \A q \in Readers \ {r} : q \in inside => q \in inside'
      /\ \A q \in Readers \ {r}, w \in Writers : q \in owed[w] => q \in owed'[w]
  BY DEF WriterTypes, gpVars, Leave
<1>3. /\ DataTypes' /\ WriterTypes' /\ Section' /\ Lockless' /\ CbsApart'
      /\ FreedOnce' /\ TablesOwned' /\ CellsOwned' /\ SyncDue'
  BY <1>1, <1>2, ReaderFrame
<1>4. rd'[r] = Outside /\ \A q \in Readers \ {r} : rd'[q] = rd[q]
  BY DEF ReaderTypes, RdType
<1>5. ReaderTypes'
  BY DEF ReaderTypes, RdType, Outside
<1>6. ReaderState'
  BY <1>1, <1>2, <1>4 DEF ReaderState, ProbeLen, Outside
<1>7. Reach(tabs, Outside) = {} /\ Outside.tab = NULL
  BY DEF Reach, Outside
<1>8. ReachKept'
  BY <1>1, <1>4, <1>7 DEF ReachKept
<1>9. GraceKept'
  <2> SUFFICES ASSUME NEW q \in Readers, NEW w \in Writers, wop[w].pc = "wait",
                      q \notin owed'[w], NEW cb \in cbs[w]
               PROVE  /\ rd'[q].tab \notin TablesOf(cb)
                      /\ Reach(tabs, rd'[q]) \cap Frees(tabs, cb) = {}
    BY <1>1 DEF GraceKept
  <2>1. CASE q # r
    BY <1>2, <1>4, <2>1 DEF GraceKept
  <2>2. CASE q = r
    <3>1. NULL \notin TablesOf(cb)
      <4>1. cb \in Removed
        BY RemovedFacts
      <4>2. TablesOf(cb) \subseteq Tables
        BY <4>1 DEF TablesOwned, DataTypes
      <4> QED BY <4>2, KeysAssumption
    <3> QED BY <1>4, <1>7, <2>2, <3>1
  <2> QED BY <2>1, <2>2
<1> QED
  BY <1>3, <1>5, <1>6, <1>8, <1>9

LEMMA GetStartKeeps ==
  ASSUME IInv, NEW r \in Readers, NEW k \in Keys, GetStart(r, k)
  PROVE  IInv'
<1> DEFINE d == [pc |-> "load", key |-> k, tab |-> md, i |-> 0, val |-> NULL]
<1> USE DEF IInv, GetStart
<1>1. UNCHANGED <<config, md, tabs, cells, wop, cbs, leaked, inside, waiting, owed>>
  BY DEF dataVars, writeVars, gpVars
<1>2. /\ DataTypes' /\ WriterTypes' /\ Section' /\ Lockless' /\ CbsApart'
      /\ FreedOnce' /\ TablesOwned' /\ CellsOwned' /\ SyncDue'
  <2>1. inside' \subseteq Readers /\ owed' \in [Writers -> SUBSET Readers]
    BY <1>1 DEF WriterTypes
  <2> QED BY <1>1, <2>1, ReaderFrame
<1>3. rd'[r] = d /\ \A q \in Readers \ {r} : rd'[q] = rd[q]
  BY DEF ReaderTypes, RdType
<1>4. md \in Tables /\ md \in DOMAIN tabs /\ md # NULL /\ IsTable(tabs[md])
  BY KeysAssumption DEF DataTypes
<1>5. ReaderTypes'
  BY <1>4 DEF ReaderTypes, RdType
<1>6. ProbeLen(tabs[md]) > 0
  <2>1. tabs[md].len * NeighLen \in Nat \ {0} /\ NeighLen \in Nat \ {0}
    BY <1>4, SizesAssumption, Product DEF IsTable
  <2> QED BY <2>1 DEF ProbeLen
<1>7. ReaderState'
  BY <1>1, <1>3, <1>4, <1>6 DEF ReaderState, ProbeLen
<1>8. Reach(tabs, d) = Vals(tabs, md)
  BY <1>4 DEF Reach, Vals
<1> HIDE DEF d
<1>9. ReachKept'
  BY <1>1, <1>3, <1>8 DEF ReachKept, CellsOwned
<1>10. GraceKept'
  <2> SUFFICES ASSUME NEW q \in Readers, NEW w \in Writers, wop[w].pc = "wait",
                      q \notin owed[w], NEW cb \in cbs[w]
               PROVE  /\ rd'[q].tab \notin TablesOf(cb)
                      /\ Reach(tabs, rd'[q]) \cap Frees(tabs, cb) = {}
    BY <1>1 DEF GraceKept
  <2>1. CASE q # r
    BY <1>3, <2>1 DEF GraceKept
  <2>2. CASE q = r
    <3>1. cb \in Removed
      BY RemovedFacts
    <3>2. md \notin TablesOf(cb) /\ Vals(tabs, md) \cap Frees(tabs, cb) = {}
      BY <3>1 DEF TablesOwned, CellsOwned
    <3>3. d.tab = md
      BY DEF d
    <3> QED BY <1>3, <1>8, <2>2, <3>2, <3>3
  <2> QED BY <2>1, <2>2
<1> QED
  BY <1>2, <1>5, <1>7, <1>9, <1>10

LEMMA FoundKeeps ==
  ASSUME IInv, NEW r \in Readers, rd[r].pc # "out", NEW v \in {rd[r].val, NULL},
         Found(r, v), UNCHANGED <<config, dataVars, writeVars, gpVars>>
  PROVE  IInv'
<1> DEFINE d == [rd[r] EXCEPT !.pc = "got", !.tab = NULL, !.i = 0, !.val = v]
<1>1. /\ rd[r] \in RdType /\ d \in RdType
      /\ d.pc = "got" /\ d.tab = NULL /\ d.val = v
  BY DEF IInv, ReaderTypes, RdType
<1>3. rd' = [rd EXCEPT ![r] = d]
  BY DEF Found
<1> HIDE DEF d
<1>2. Reach(tabs, d) \subseteq Reach(tabs, rd[r])
  BY <1>1 DEF Reach
<1> QED
  BY <1>1, <1>2, <1>3, ReaderOnly

LEMMA NextEntryKeeps ==
  ASSUME IInv, NEW r \in Readers, Looking(r), NextEntry(r),
         UNCHANGED <<config, dataVars, writeVars, gpVars>>
  PROVE  IInv'
<1>1. CASE rd[r].i + 1 = ProbeLen(tabs[rd[r].tab])
  BY <1>1, FoundKeeps DEF NextEntry, Looking
<1>2. CASE rd[r].i + 1 # ProbeLen(tabs[rd[r].tab])
  <2> DEFINE d == [rd[r] EXCEPT !.pc = "load", !.i = rd[r].i + 1, !.val = NULL]
  <2>0. rd[r] \in RdType
    BY DEF IInv, ReaderTypes
  <2>1. /\ rd[r].key \in Keys /\ rd[r].tab \in Tables /\ rd[r].i \in Nat
        /\ rd[r].tab \in DOMAIN tabs /\ rd[r].pc # "out" /\ rd[r].tab # NULL
    BY <2>0 DEF IInv, RdType, ReaderState, Looking
  <2>4. /\ d \in RdType
        /\ d.pc = "load" /\ d.key = rd[r].key /\ d.tab = rd[r].tab
        /\ d.i = rd[r].i + 1 /\ d.val = NULL
    <3>1. PICK n \in Nat : n = rd[r].i + 1
      BY <2>1
    <3>2. [rd[r] EXCEPT !.pc = "load", !.i = n, !.val = NULL] \in RdType
      BY <2>0 DEF RdType
    <3>3. d = [rd[r] EXCEPT !.pc = "load", !.i = n, !.val = NULL]
      BY <3>1
    <3> HIDE DEF d
    <3> QED BY <2>0, <3>1, <3>2, <3>3 DEF RdType
  <2>5. rd' = [rd EXCEPT ![r] = d]
    <3>1. rd' = [rd EXCEPT ![r].pc = "load", ![r].i = @ + 1, ![r].val = NULL]
      BY <1>2 DEF NextEntry
    <3>2. rd \in [Readers -> RdType]
      BY DEF IInv, ReaderTypes
    <3> QED BY <3>1, <3>2 DEF RdType
  <2> HIDE DEF d
  <2>2. Reach(tabs, d) \subseteq Reach(tabs, rd[r])
    BY <2>1, <2>4 DEF Reach
  <2>3. rd[r].i + 1 < ProbeLen(tabs[rd[r].tab])
    <3>1. IsTable(tabs[rd[r].tab])
      BY <2>1 DEF IInv, DataTypes
    <3>2. ProbeLen(tabs[rd[r].tab]) \in Nat
      BY <3>1, SizesAssumption, Product DEF ProbeLen, IsTable
    <3>3. rd[r].i < ProbeLen(tabs[rd[r].tab])
      BY DEF IInv, ReaderState, Looking
    <3> QED BY <1>2, <2>1, <3>2, <3>3
  <2> QED
    BY <2>1, <2>2, <2>3, <2>4, <2>5, ReaderOnly
<1> QED
  BY <1>1, <1>2

LEMMA LoadValueKeeps ==
  ASSUME IInv, NEW r \in Readers, LoadValue(r)
  PROVE  IInv'
<1> DEFINE v == Here(r).value
<1>1. /\ rd[r].tab \in DOMAIN tabs /\ rd[r].tab # NULL /\ rd[r].key \in Keys
      /\ rd[r].i \in Nat /\ IsTable(tabs[rd[r].tab]) /\ rd[r].pc = "load"
      /\ rd[r].tab \in Tables
  BY DEF IInv, ReaderState, ReaderTypes, RdType, DataTypes, LoadValue
<1>2. v # NULL => v \in Vals(tabs, rd[r].tab)
  BY <1>1, ProbeInSlots, HashType, ValsMember DEF Here, EntryAt
<1>3. v \in Cells \cup {NULL}
  BY <1>1, ProbeInSlots, HashType, EntryFacts DEF Here, EntryAt, IsTable
<1>4. UNCHANGED <<config, dataVars, writeVars, gpVars>>
  BY DEF LoadValue
<1> HIDE DEF v
<1>5. CASE v # NULL
  <2> DEFINE d == [rd[r] EXCEPT !.pc = "hash", !.val = v]
  <2>0. rd[r] \in RdType
    BY DEF IInv, ReaderTypes
  <2>1. /\ d \in RdType
        /\ d.pc = "hash" /\ d.key = rd[r].key /\ d.tab = rd[r].tab
        /\ d.i = rd[r].i /\ d.val = v
    BY <1>3, <2>0 DEF RdType
  <2>4. rd' = [rd EXCEPT ![r] = d]
    BY <1>5 DEF LoadValue, v
  <2> HIDE DEF d
  <2>2. Reach(tabs, d) \subseteq Reach(tabs, rd[r])
    BY <1>1, <1>2, <1>5, <2>1 DEF Reach
  <2>3. rd[r].i < ProbeLen(tabs[rd[r].tab])
    BY <1>1 DEF IInv, ReaderState
  <2> QED
    BY <1>1, <1>3, <1>4, <2>1, <2>2, <2>3, <2>4, ReaderOnly
<1>6. CASE v = NULL /\ config.lockless_reads
  BY <1>1, <1>4, <1>6, FoundKeeps DEF LoadValue, v
<1>7. CASE v = NULL /\ ~config.lockless_reads
  BY <1>1, <1>4, <1>7, NextEntryKeeps DEF LoadValue, v, Looking
<1> QED
  BY <1>5, <1>6, <1>7

LEMMA LoadHashKeeps ==
  ASSUME IInv, NEW r \in Readers, LoadHash(r)
  PROVE  IInv'
<1>1. rd[r].pc = "hash" /\ UNCHANGED <<config, dataVars, writeVars, gpVars>>
  BY DEF LoadHash
<1>2. CASE Here(r).hash = Hash[rd[r].key] /\ match_key(rd[r].val, rd[r].key)
  BY <1>1, <1>2, FoundKeeps DEF LoadHash
<1>3. CASE ~(Here(r).hash = Hash[rd[r].key] /\ match_key(rd[r].val, rd[r].key))
  BY <1>1, <1>3, NextEntryKeeps DEF LoadHash, Looking
<1> QED
  BY <1>2, <1>3

LEMMA ReaderKeeps ==
  ASSUME IInv, NEW r \in Readers, ReaderStep(r)
  PROVE  IInv'
BY ReadLockKeeps, ReadUnlockKeeps, GetStartKeeps, LoadValueKeeps, LoadHashKeeps
   DEF ReaderStep

(***************************************************************************)
(* Writers.                                                                *)
(***************************************************************************)
\* The callbacks of the pending ones are about tables other than md.
LEMMA FreesKept ==
  ASSUME IInv, NEW U, \A t \in DOMAIN tabs \ {md} : Vals(U, t) = Vals(tabs, t),
         NEW cb \in Removed
  PROVE  Frees(U, cb) = Frees(tabs, cb)
<1>1. TablesOf(cb) \subseteq DOMAIN tabs \ {md}
  BY DEF IInv, TablesOwned
<1> QED
  BY <1>1 DEF Frees, TablesOf

LEMMA ReadersWhere ==
  ASSUME IInv, UNCHANGED <<config, rd, inside>>,
         \A r \in Readers : rd[r].tab # NULL =>
           /\ rd[r].tab \in DOMAIN tabs'
           /\ tabs'[rd[r].tab].len = tabs[rd[r].tab].len
  PROVE  ReaderTypes' /\ ReaderState'
<1>1. ReaderTypes'
  BY DEF IInv, ReaderTypes
<1>2. \A r \in Readers : rd[r].tab # NULL =>
        ProbeLen(tabs[rd[r].tab])' = ProbeLen(tabs[rd[r].tab])
  BY DEF ProbeLen
<1>3. ReaderState'
  BY <1>2 DEF IInv, ReaderState
<1> QED
  BY <1>1, <1>3

\* No value is put into a table or taken out of it.
Quiet ==
  /\ md' = md /\ cells' = cells /\ DOMAIN tabs' = DOMAIN tabs
  /\ \A t \in DOMAIN tabs : /\ Vals(tabs', t) = Vals(tabs, t)
                            /\ tabs'[t].len = tabs[t].len
  /\ Distinct(tabs', md)
  /\ \A w \in Writers : wop'[w].cell = wop[w].cell
  /\ \A cb : cb \in Removed' <=> cb \in Removed

LEMMA QuietKeeps ==
  ASSUME IInv, Quiet, UNCHANGED <<config, rd, inside>>
  PROVE  /\ FreedOnce' /\ TablesOwned' /\ CellsOwned'
         /\ ReaderTypes' /\ ReaderState' /\ ReachKept'
         /\ \A cb \in Removed : Frees(tabs', cb) = Frees(tabs, cb)
         /\ \A r \in Readers : Reach(tabs', rd'[r]) = Reach(tabs, rd[r])
<1> USE DEF IInv, Quiet
<1>1. \A cb \in Removed : Frees(tabs', cb) = Frees(tabs, cb)
  BY FreesKept
<1>2. \A r \in Readers : rd[r].tab # NULL => rd[r].tab \in DOMAIN tabs
  BY DEF ReaderState
<1>3. ReaderTypes' /\ ReaderState'
  BY <1>2, ReadersWhere
<1>4. \A r \in Readers : Reach(tabs', rd'[r]) = Reach(tabs, rd[r])
  BY <1>2 DEF Reach
<1>5. ReachKept'
  BY <1>4 DEF ReachKept
<1>6. FreedOnce'
  BY <1>1 DEF FreedOnce
<1>7. TablesOwned'
  BY DEF TablesOwned
<1>8. CellsOwned'
  <2>1. Vals(tabs', md') = Vals(tabs, md)
    BY DEF DataTypes
  <2> QED
    BY <1>1, <2>1 DEF CellsOwned
<1> QED
  BY <1>1, <1>3, <1>4, <1>5, <1>6, <1>7, <1>8

LEMMA GraceSame ==
  ASSUME IInv, UNCHANGED rd,
         \A w \in Writers : wop'[w].pc = "wait" =>
           wop[w].pc = "wait" /\ owed'[w] = owed[w] /\ cbs'[w] = cbs[w],
         \A cb \in Removed : Frees(tabs', cb) = Frees(tabs, cb),
         \A r \in Readers : Reach(tabs', rd'[r]) = Reach(tabs, rd[r])
  PROVE  GraceKept'
<1> SUFFICES ASSUME NEW q \in Readers, NEW w \in Writers, wop'[w].pc = "wait",
                    q \notin owed'[w], NEW cb \in cbs'[w]
             PROVE  /\ rd'[q].tab \notin TablesOf(cb)
                    /\ Reach(tabs', rd'[q]) \cap Frees(tabs', cb) = {}
  BY DEF GraceKept
<1>1. cb \in Removed
  BY RemovedFacts
<1>2. rd[q].tab \notin TablesOf(cb) /\ Reach(tabs, rd[q]) \cap Frees(tabs, cb) = {}
  BY DEF IInv, GraceKept
<1> QED
  BY <1>1, <1>2

LEMMA WriteLockKeeps ==
  ASSUME IInv, NEW w \in Writers, WriteLock(w), Seen
  PROVE  IInv'
<1> USE DEF IInv
<1>1. /\ UNCHANGED <<config, md, tabs, cells, rd, inside, waiting, owed, cbs, cb_items, leaked,
                     neighborhood_len>>
      /\ wop[w].pc = "idle" /\ writer = NULL /\ writer' = w /\ need_sync' = FALSE
  BY DEF WriteLock, Seen, dataVars, gpVars
<1>2. /\ wop' \in [Writers -> WopType]
      /\ \A v \in Writers :
           /\ wop'[v].pc = IF v = w THEN "locked" ELSE wop[v].pc
           /\ wop'[v].cell = wop[v].cell /\ wop'[v].key = wop[v].key
           /\ wop'[v].slot = wop[v].slot /\ wop'[v].olddata = wop[v].olddata
  BY DEF WriteLock, GoTo, WriterTypes, WopType
<1>3. \A cb : cb \in Removed' <=> cb \in Removed
  BY <1>1 DEF Removed, Pending
<1>4. Quiet
  BY <1>1, <1>2, <1>3 DEF Quiet, CellsOwned
<1>5. DataTypes'
  BY <1>1 DEF DataTypes
<1>6. WriterTypes'
  BY <1>1, <1>2 DEF WriterTypes
<1>7. Section'
  BY <1>1, <1>2, KeysAssumption DEF Section, InSection, Inserting
<1>8. Lockless'
  BY <1>1, <1>2, <1>3 DEF Lockless
<1>9. CbsApart'
  BY <1>1 DEF CbsApart
<1>10. GraceKept'
  BY <1>1, <1>2, <1>4, QuietKeeps, GraceSame
<1>11. SyncDue'
  BY <1>1, <1>2 DEF SyncDue, Section
<1> QED
  BY <1>1, <1>4, <1>5, <1>6, <1>7, <1>8, <1>9, <1>10, <1>11, QuietKeeps

LEMMA WriteUnlockKeeps ==
  ASSUME IInv, NEW w \in Writers, WriteUnlock(w), Seen
  PROVE  IInv'
<1> USE DEF IInv
<1>1. /\ UNCHANGED <<config, md, tabs, cells, rd, inside, waiting, owed, cbs, cb_items, leaked,
                     neighborhood_len>>
      /\ wop[w].pc = "locked" /\ writer' = NULL /\ need_sync' = FALSE
  BY DEF WriteUnlock, Seen, dataVars, gpVars
<1>2. /\ wop' \in [Writers -> WopType]
      /\ \A v \in Writers :
           /\ v # w => wop'[v].pc = wop[v].pc
           /\ wop'[v].cell = wop[v].cell /\ wop'[v].key = wop[v].key
           /\ wop'[v].slot = wop[v].slot /\ wop'[v].olddata = wop[v].olddata
      /\ wop'[w].pc = IF need_sync THEN "sync" ELSE "idle"
  BY DEF WriteUnlock, GoTo, WriterTypes, WopType
<1>3. \A cb : cb \in Removed' <=> cb \in Removed
  BY <1>1 DEF Removed, Pending
<1>4. Quiet
  BY <1>1, <1>2, <1>3 DEF Quiet, CellsOwned
<1>5. DataTypes'
  BY <1>1 DEF DataTypes
<1>6. WriterTypes'
  BY <1>1, <1>2 DEF WriterTypes
<1>7. Section'
  BY <1>1, <1>2, KeysAssumption DEF Section, InSection, Inserting
<1>8. Lockless'
  BY <1>1, <1>2, <1>3 DEF Lockless
<1>9. CbsApart'
  BY <1>1 DEF CbsApart
<1>10. GraceKept'
  <2>1. \A v \in Writers : wop'[v].pc = "wait" => wop[v].pc = "wait"
    BY <1>2
  <2> QED BY <1>1, <1>4, <2>1, QuietKeeps, GraceSame
<1>11. SyncDue'
  BY <1>1, <1>2 DEF SyncDue, Section
<1> QED
  BY <1>1, <1>4, <1>5, <1>6, <1>7, <1>8, <1>9, <1>10, <1>11, QuietKeeps

LEMMA TakeCallbacksKeeps ==
  ASSUME IInv, NEW w \in Writers, TakeCallbacks(w), Seen
  PROVE  IInv'
<1> USE DEF IInv
<1>1. /\ UNCHANGED <<config, md, tabs, cells, rd, inside, waiting, owed, leaked,
                     neighborhood_len, need_sync, writer>>
      /\ wop[w].pc = "sync" /\ cb_items' = {}
  BY DEF TakeCallbacks, Seen, dataVars, gpVars, wpd
<1>2. /\ wop' \in [Writers -> WopType]
      /\ \A v \in Writers :
           /\ wop'[v].pc = IF v = w THEN "taken" ELSE wop[v].pc
           /\ wop'[v].cell = wop[v].cell /\ wop'[v].key = wop[v].key
           /\ wop'[v].slot = wop[v].slot /\ wop'[v].olddata = wop[v].olddata
  BY DEF TakeCallbacks, GoTo, WriterTypes, WopType
<1>3. /\ cbs' \in [Writers -> SUBSET Callback]
      /\ cbs'[w] = cb_items /\ \A v \in Writers \ {w} : cbs'[v] = cbs[v]
  BY DEF TakeCallbacks, WriterTypes
<1>4. cbs[w] = {}
  BY <1>1 DEF Section
<1>5. \A cb : cb \in Removed' <=> cb \in Removed
  <2>1. \A cb : cb \in Removed' <=> cb \in cb_items' \/ (\E v \in Writers : cb \in cbs'[v])
                                        \/ cb \in leaked'
    BY DEF Removed, Pending
  <2> QED BY <1>1, <1>3, <1>4, <2>1, RemovedFacts
<1>6. Quiet
  BY <1>1, <1>2, <1>5 DEF Quiet, CellsOwned
<1>7. DataTypes'
  BY <1>1 DEF DataTypes
<1>8. WriterTypes'
  BY <1>1, <1>2, <1>3 DEF WriterTypes
<1>9. Section'
  BY <1>1, <1>2, <1>3, KeysAssumption DEF Section, InSection, Inserting
<1>10. Lockless'
  BY <1>1, <1>2, <1>5 DEF Lockless
<1>11. CbsApart'
  BY <1>1, <1>3 DEF CbsApart
<1>12. GraceKept'
  <2>1. \A v \in Writers : wop'[v].pc = "wait" => wop[v].pc = "wait" /\ cbs'[v] = cbs[v]
    BY <1>2, <1>3
  <2> QED BY <1>1, <1>6, <2>1, QuietKeeps, GraceSame
<1>13. SyncDue'
  BY <1>1 DEF SyncDue
<1> QED
  BY <1>1, <1>6, <1>7, <1>8, <1>9, <1>10, <1>11, <1>12, <1>13, QuietKeeps

LEMMA GraceBeginsKeeps ==
  ASSUME IInv, NEW w \in Writers, GraceBegins(w), Seen
  PROVE  IInv'
<1> USE DEF IInv
<1>1. /\ UNCHANGED <<config, md, tabs, cells, rd, inside, cb_items, cbs, leaked,
                     neighborhood_len, need_sync, writer>>
      /\ wop[w].pc = "taken" /\ waiting' = waiting \cup {w}
  BY DEF GraceBegins, Begin, Seen, dataVars, wpd
<1>2. /\ wop' \in [Writers -> WopType]
      /\ \A v \in Writers :
           /\ wop'[v].pc = IF v = w THEN "wait" ELSE wop[v].pc
           /\ wop'[v].cell = wop[v].cell /\ wop'[v].key = wop[v].key
           /\ wop'[v].slot = wop[v].slot /\ wop'[v].olddata = wop[v].olddata
  BY DEF GraceBegins, GoTo, WriterTypes, WopType
<1>3. /\ owed' \in [Writers -> SUBSET Readers]
      /\ owed'[w] = inside /\ \A v \in Writers \ {w} : owed'[v] = owed[v]
  BY DEF GraceBegins, Begin, WriterTypes
<1>5. \A cb : cb \in Removed' <=> cb \in Removed
  BY <1>1 DEF Removed, Pending
<1>6. Quiet
  BY <1>1, <1>2, <1>5 DEF Quiet, CellsOwned
<1>7. DataTypes'
  BY <1>1 DEF DataTypes
<1>8. WriterTypes'
  BY <1>1, <1>2, <1>3 DEF WriterTypes
<1>9. Section'
  BY <1>1, <1>2, KeysAssumption DEF Section, InSection, Inserting
<1>10. Lockless'
  BY <1>1, <1>2, <1>5 DEF Lockless
<1>11. CbsApart'
  BY <1>1 DEF CbsApart
<1>12. GraceKept'
  <2> SUFFICES ASSUME NEW q \in Readers, NEW v \in Writers, wop'[v].pc = "wait",
                      q \notin owed'[v], NEW cb \in cbs[v]
               PROVE  /\ rd[q].tab \notin TablesOf(cb)
                      /\ Reach(tabs, rd[q]) \cap Frees(tabs, cb) = {}
    BY <1>1 DEF GraceKept
  <2>1. CASE v # w
    BY <1>2, <1>3, <2>1 DEF GraceKept
  <2>2. CASE v = w
    <3>1. ~config.lockless_reads
      BY <1>1 DEF Lockless
    <3>2. rd[q].tab = NULL /\ rd[q].val = NULL
      BY <1>3, <2>2, <3>1 DEF ReaderState
    <3>3. cb \in Removed
      BY RemovedFacts
    <3>4. TablesOf(cb) \subseteq Tables
      BY <3>3 DEF TablesOwned, DataTypes
    <3> QED
      BY <3>2, <3>4, KeysAssumption DEF Reach
  <2> QED BY <2>1, <2>2
<1>13. SyncDue'
  BY <1>1, <1>2 DEF SyncDue
<1> QED
  BY <1>1, <1>6, <1>7, <1>8, <1>9, <1>10, <1>11, <1>12, <1>13, QuietKeeps

\* A step that changes one entry of md.
LEMMA ChangedData ==
  ASSUME IInv, NEW s \in Slots(tabs[md].len), Changed(tabs, tabs', md, s),
         UNCHANGED <<config, md, cells, neighborhood_len>>
  PROVE  /\ DataTypes'
         /\ \A t \in DOMAIN tabs : tabs'[t].len = tabs[t].len
         /\ DOMAIN tabs' = DOMAIN tabs
         /\ \A u \in Slots(tabs[md].len) \ {s} : tabs'[md].ent[u] = tabs[md].ent[u]
BY DEF IInv, DataTypes, Changed

LEMMA ChangedVals ==
  ASSUME IInv, NEW s \in Slots(tabs[md].len), Changed(tabs, tabs', md, s)
  PROVE  LET old == tabs[md].ent[s].value
             new == tabs'[md].ent[s].value
         IN  /\ \A t \in DOMAIN tabs \ {md} : Vals(tabs', t) = Vals(tabs, t)
             /\ Vals(tabs', md) = ((Vals(tabs, md) \ {old}) \cup {new}) \ {NULL}
             /\ new \notin Vals(tabs, md) \ {old} => Distinct(tabs', md)
             /\ old # NULL => old \in Vals(tabs, md)
             /\ NULL \notin Vals(tabs, md)
<1>1. md \in DOMAIN tabs /\ IsTable(tabs[md]) /\ Distinct(tabs, md)
  BY DEF IInv, DataTypes, CellsOwned
<1>2. DOMAIN tabs[md].ent = Slots(tabs[md].len)
  BY <1>1 DEF IsTable
<1> QED
  BY <1>1, <1>2, ValsChanged, ValsMember

LEMMA StoreHashKeeps ==
  ASSUME IInv, NEW w \in Writers, StoreHash(w), Seen
  PROVE  IInv'
<1> USE DEF IInv
<1> DEFINE k == wop[w].key
<1>1. /\ UNCHANGED <<config, md, cells, rd, inside, waiting, owed, cbs, cb_items, leaked,
                     neighborhood_len, need_sync, writer>>
      /\ wop[w].pc = "insert"
  BY DEF StoreHash, Seen, gpVars, wpd
<1>2. /\ md \in DOMAIN tabs /\ IsTable(tabs[md]) /\ k \in Keys
      /\ tabs = [t \in DOMAIN tabs |-> tabs[t]]
  BY <1>1 DEF DataTypes, Section, Inserting
<1>3. PICK i \in Vacant(tabs[md], k) :
        LET s == Probe(tabs[md], Hash[k], i)
        IN  /\ tabs' = [tabs EXCEPT ![md].ent[s].hash = Hash[k]]
            /\ wop' = [wop EXCEPT ![w].pc = "publish", ![w].slot = s]
  BY DEF StoreHash
<1> DEFINE s == Probe(tabs[md], Hash[k], i)
<1>4. i \in Nat /\ tabs[md].ent[s].value = NULL
  <2>1. tabs[md].len * NeighLen \in Int /\ NeighLen \in Int
    BY <1>2, SizesAssumption DEF IsTable
  <2> QED BY <1>3, <2>1 DEF Vacant, EntryAt, ProbeLen
<1>5. s \in Slots(tabs[md].len)
  BY <1>2, <1>4, ProbeInSlots, HashType
<1> HIDE DEF s, k
<1>6. /\ Changed(tabs, tabs', md, s)
      /\ tabs'[md].ent[s].value = NULL
  <2>1. tabs' = WithHash(tabs, md, s, Hash[k])
    BY <1>3 DEF s, WithHash
  <2>2. Hash[k] \in {0} \cup {Hash[kk] : kk \in Keys}
    BY <1>2
  <2> QED
    BY <1>2, <1>4, <1>5, <2>1, <2>2, ChangeHash
<1>7. s \in SlotType
  BY <1>2, <1>5, SlotsFacts DEF IsTable, SlotType
<1>8. /\ wop' \in [Writers -> WopType]
      /\ \A v \in Writers :
           /\ v # w => wop'[v] = wop[v]
           /\ wop'[v].pc = IF v = w THEN "publish" ELSE wop[v].pc
           /\ wop'[v].cell = wop[v].cell /\ wop'[v].key = wop[v].key
           /\ wop'[v].olddata = wop[v].olddata
      /\ wop'[w].slot = s
  <2>1. wop' = [wop EXCEPT ![w].pc = "publish", ![w].slot = s]
    BY <1>3 DEF s
  <2> QED
    BY <1>7, <2>1, ZenonT(60) DEF WriterTypes, WopType
<1>9. \A cb : cb \in Removed' <=> cb \in Removed
  BY <1>1 DEF Removed, Pending
<1>10. /\ DataTypes' /\ DOMAIN tabs' = DOMAIN tabs
       /\ \A t \in DOMAIN tabs : tabs'[t].len = tabs[t].len
  BY <1>1, <1>5, <1>6, ChangedData
<1>11. Quiet
  <2>1. /\ \A t \in DOMAIN tabs \ {md} : Vals(tabs', t) = Vals(tabs, t)
        /\ Vals(tabs', md) = Vals(tabs, md)
        /\ Distinct(tabs', md)
    BY <1>4, <1>5, <1>6, ChangedVals, ZenonT(60)
  <2> QED
    BY <1>1, <1>8, <1>9, <1>10, <2>1 DEF Quiet
<1>12. WriterTypes'
  BY <1>1, <1>8 DEF WriterTypes
<1>13. Section'
  <2>1. \A v \in Writers \ {w} : ~InSection(v)
    BY <1>1 DEF Section, InSection
  <2> QED
    BY <1>1, <1>2, <1>5, <1>6, <1>8, <1>10, <2>1, KeysAssumption
       DEF Section, InSection, Inserting
<1>14. Lockless'
  BY <1>1, <1>8, <1>9 DEF Lockless
<1>15. CbsApart'
  BY <1>1 DEF CbsApart
<1>16. GraceKept'
  BY <1>1, <1>8, <1>11, QuietKeeps, GraceSame
<1>17. SyncDue'
  BY <1>1, <1>8 DEF SyncDue
<1> QED
  BY <1>1, <1>10, <1>11, <1>12, <1>13, <1>14, <1>15, <1>16, <1>17, QuietKeeps

LEMMA MatchFacts ==
  ASSUME IInv, NEW k \in Keys, NEW i \in Matches(tabs[md], k)
  PROVE  LET s == Probe(tabs[md], Hash[k], i)
         IN  /\ i \in Nat /\ s \in Slots(tabs[md].len)
             /\ tabs[md].ent[s].value # NULL
             /\ tabs[md].ent[s].hash = Hash[k]
             /\ match_key(tabs[md].ent[s].value, k)
<1>1. IsTable(tabs[md])
  BY DEF IInv, DataTypes
<1>2. tabs[md].len * NeighLen \in Int /\ NeighLen \in Int
  BY <1>1, SizesAssumption DEF IsTable
<1>3. i \in Nat
  BY <1>2 DEF Matches, ProbeLen
<1>4. Probe(tabs[md], Hash[k], i) \in Slots(tabs[md].len)
  BY <1>1, <1>3, ProbeInSlots, HashType
<1>5. LET e == EntryAt(tabs[md], Hash[k], i)
      IN  e.value # NULL /\ e.hash = Hash[k] /\ match_key(e.value, k)
  BY Zenon DEF Matches
<1> QED
  BY <1>3, <1>4, <1>5 DEF EntryAt

LEMMA ClearHashKeeps ==
  ASSUME IInv, NEW w \in Writers, NEW k \in Keys, ClearHash(w, k), Seen
  PROVE  IInv'
<1> USE DEF IInv
<1>1. /\ UNCHANGED <<config, md, cells, rd, inside, waiting, owed, cbs, cb_items, leaked,
                     neighborhood_len, need_sync, writer>>
      /\ wop[w].pc = "locked" /\ ~config.lockless_reads
  BY DEF ClearHash, Seen, gpVars, wpd
<1>2. /\ md \in DOMAIN tabs /\ IsTable(tabs[md])
      /\ tabs = [t \in DOMAIN tabs |-> tabs[t]]
  BY DEF DataTypes
<1>3. PICK i \in Matches(tabs[md], k) :
        LET s == Probe(tabs[md], Hash[k], i)
        IN  /\ tabs' = [tabs EXCEPT ![md].ent[s].hash = 0]
            /\ wop' = [wop EXCEPT ![w].pc = "unlink", ![w].slot = s]
  BY DEF ClearHash
<1> DEFINE s == Probe(tabs[md], Hash[k], i)
<1>4. s \in Slots(tabs[md].len) /\ tabs[md].ent[s].value # NULL
  BY MatchFacts
<1> HIDE DEF s
<1>6. /\ Changed(tabs, tabs', md, s)
      /\ tabs'[md].ent[s].value = tabs[md].ent[s].value
  <2>1. tabs' = WithHash(tabs, md, s, 0)
    BY <1>3 DEF s, WithHash
  <2> QED
    BY <1>2, <1>4, <2>1, ChangeHash
<1>7. s \in SlotType
  BY <1>2, <1>4, SlotsFacts DEF IsTable, SlotType
<1>8. /\ wop' \in [Writers -> WopType]
      /\ \A v \in Writers :
           /\ v # w => wop'[v] = wop[v]
           /\ wop'[v].pc = IF v = w THEN "unlink" ELSE wop[v].pc
           /\ wop'[v].cell = wop[v].cell /\ wop'[v].key = wop[v].key
           /\ wop'[v].olddata = wop[v].olddata
      /\ wop'[w].slot = s
  <2>1. wop' = [wop EXCEPT ![w].pc = "unlink", ![w].slot = s]
    BY <1>3 DEF s
  <2> QED
    BY <1>7, <2>1, ZenonT(60) DEF WriterTypes, WopType
<1>9. \A cb : cb \in Removed' <=> cb \in Removed
  BY <1>1 DEF Removed, Pending
<1>10. /\ DataTypes' /\ DOMAIN tabs' = DOMAIN tabs
       /\ \A t \in DOMAIN tabs : tabs'[t].len = tabs[t].len
  BY <1>1, <1>4, <1>6, ChangedData
<1>11. Quiet
  <2>1. /\ \A t \in DOMAIN tabs \ {md} : Vals(tabs', t) = Vals(tabs, t)
        /\ Vals(tabs', md) = Vals(tabs, md)
        /\ Distinct(tabs', md)
    <3> DEFINE old == tabs[md].ent[s].value
               V == Vals(tabs, md)
    <3>1. /\ \A t \in DOMAIN tabs \ {md} : Vals(tabs', t) = Vals(tabs, t)
          /\ Vals(tabs', md) = ((V \ {old}) \cup {old}) \ {NULL}
          /\ old \notin V \ {old} => Distinct(tabs', md)
          /\ old \in V /\ NULL \notin V
      BY <1>4, <1>6, ChangedVals
    <3> HIDE DEF old, V
    <3>2. Vals(tabs', md) = V /\ Distinct(tabs', md)
      BY <3>1
    <3> QED BY <3>1, <3>2 DEF V
  <2> QED
    BY <1>1, <1>8, <1>9, <1>10, <2>1 DEF Quiet
<1>12. WriterTypes'
  BY <1>1, <1>8 DEF WriterTypes
<1>13. Section'
  <2>1. \A v \in Writers \ {w} : ~InSection(v)
    BY <1>1 DEF Section, InSection
  <2>2. tabs'[md'].ent[s].value # NULL /\ s \in Slots(tabs'[md'].len)
    BY <1>1, <1>2, <1>4, <1>6, <1>10
  <2>3. ~Inserting(w) /\ InSection(w)
    BY <1>1 DEF Inserting, InSection
  <2> QED
    BY <1>1, <1>8, <2>1, <2>2, <2>3 DEF Section, InSection, Inserting
<1>14. Lockless'
  BY <1>1 DEF Lockless
<1>15. CbsApart'
  BY <1>1 DEF CbsApart
<1>16. GraceKept'
  BY <1>1, <1>8, <1>11, QuietKeeps, GraceSame
<1>17. SyncDue'
  BY <1>1, <1>8 DEF SyncDue
<1> QED
  BY <1>1, <1>10, <1>11, <1>12, <1>13, <1>14, <1>15, <1>16, <1>17, QuietKeeps

LEMMA UnusedFacts ==
  ASSUME NEW memory, NEW used, DOMAIN used \subseteq memory, memory # DOMAIN used
  PROVE  Unused(memory, used) \in memory \ DOMAIN used
<1>1. memory \ DOMAIN used # {}
  OBVIOUS
<1> QED
  BY <1>1 DEF Unused

LEMMA InsertKeeps ==
  ASSUME IInv, NEW w \in Writers, NEW k \in Keys, NEW olddata \in BOOLEAN,
         Insert(w, k, olddata), Seen
  PROVE  IInv'
<1> USE DEF IInv
<1> DEFINE c == Unused(Cells, cells)
<1>1. /\ UNCHANGED <<config, md, tabs, rd, inside, waiting, owed, cbs, cb_items, leaked,
                     neighborhood_len, need_sync, writer>>
      /\ wop[w].pc = "locked" /\ (config.lockless_reads => ~olddata)
  BY DEF Insert, Seen, gpVars, wpd
<1>2. c \in Cells \ DOMAIN cells /\ c # NULL
  BY UnusedFacts, KeysAssumption DEF DataTypes, Insert
<1>3. DOMAIN cells' = DOMAIN cells \cup {c} /\ \A d \in DOMAIN cells' : cells'[d] \in Keys
  BY DEF Insert, DataTypes
<1>4. wop' = [wop EXCEPT ![w] = [pc |-> "insert", key |-> k, cell |-> c,
                                 olddata |-> olddata, tries |-> 0, slot |-> NULL]]
  BY DEF Insert
<1> HIDE DEF c
<1>5. /\ wop' \in [Writers -> WopType]
      /\ \A v \in Writers \ {w} : wop'[v] = wop[v]
      /\ wop'[w].pc = "insert" /\ wop'[w].key = k /\ wop'[w].cell = c
      /\ wop'[w].olddata = olddata
  <2>1. [pc |-> "insert", key |-> k, cell |-> c,
         olddata |-> olddata, tries |-> 0, slot |-> NULL] \in WopType
    BY <1>2 DEF WopType, SlotType
  <2> QED BY <1>4, <2>1 DEF WriterTypes
<1>6. \A cb : cb \in Removed' <=> cb \in Removed
  BY <1>1 DEF Removed, Pending
<1>7. DataTypes'
  BY <1>1, <1>2, <1>3 DEF DataTypes
<1>8. WriterTypes'
  BY <1>1, <1>5 DEF WriterTypes
<1>9. Section'
  BY <1>1, <1>2, <1>3, <1>5 DEF Section, InSection, Inserting
<1>10. Lockless'
  BY <1>1, <1>5, <1>6 DEF Lockless
<1>11. CbsApart' /\ FreedOnce' /\ TablesOwned'
  BY <1>1, <1>6 DEF CbsApart, FreedOnce, TablesOwned
<1>12. CellsOwned'
  <2>1. wop[w].cell = NULL
    BY <1>1 DEF Section, Inserting
  <2>2. \A v \in Writers : wop'[v].cell = c \/ wop'[v].cell = wop[v].cell
    BY <1>5
  <2>3. \A d \in DOMAIN cells' : d # c => d # NULL
    BY <1>2, <1>3, KeysAssumption DEF DataTypes
  <2>4. \A v \in Writers : wop[v].cell # NULL => wop'[v].cell = wop[v].cell
    BY <1>5, <2>1
  <2>5. /\ Vals(tabs', md') \subseteq DOMAIN cells'
        /\ Distinct(tabs', md')
        /\ \A v \in Writers : wop'[v].cell \notin Vals(tabs', md')
    BY <1>1, <1>2, <1>3, <2>2 DEF CellsOwned
  <2>6. \A cb \in Removed :
          /\ Frees(tabs', cb) \subseteq DOMAIN cells' \ Vals(tabs', md')
          /\ \A v \in Writers : wop'[v].cell \notin Frees(tabs', cb)
    BY <1>1, <1>2, <1>3, <2>2 DEF CellsOwned
  <2>7. \A d \in DOMAIN cells' :
          \/ d \in Vals(tabs, md)
          \/ \E v \in Writers : d = wop'[v].cell
          \/ \E cb \in Removed : d \in Frees(tabs, cb)
    BY <1>3, <1>5, <2>3, <2>4 DEF CellsOwned
  <2> QED BY <1>1, <1>6, <2>5, <2>6, <2>7 DEF CellsOwned
<1>13. ReaderTypes' /\ ReaderState'
  BY <1>1, ReadersWhere DEF ReaderState
<1>14. ReachKept'
  BY <1>1, <1>2, <1>3, <1>5 DEF ReachKept
<1>15. GraceKept'
  BY <1>1, <1>5, GraceSame
<1>16. SyncDue'
  BY <1>1, <1>5 DEF SyncDue
<1> QED
  BY <1>7, <1>8, <1>9, <1>10, <1>11, <1>12, <1>13, <1>14, <1>15, <1>16

LEMMA DoneFacts ==
  ASSUME IInv, NEW w \in Writers, Done(w)
  PROVE  /\ wop' \in [Writers -> WopType]
         /\ \A v \in Writers \ {w} : wop'[v] = wop[v]
         /\ wop'[w].pc = "locked" /\ wop'[w].cell = NULL
<1>1. Locked \in WopType /\ Locked.pc = "locked" /\ Locked.cell = NULL
  <2>1. Idle \in WopType /\ Idle.cell = NULL
    BY DEF Idle, WopType, SlotType
  <2> HIDE DEF Idle
  <2> QED BY <2>1 DEF Locked, WopType
<1> QED
  BY <1>1 DEF Done, IInv, WriterTypes

\* The writer in the section is the only one with arguments.
LEMMA OneWriter ==
  ASSUME IInv, NEW w \in Writers, InSection(w)
  PROVE  /\ writer = w /\ w # NULL
         /\ \A v \in Writers \ {w} : ~InSection(v) /\ wop[v].cell = NULL
BY KeysAssumption DEF IInv, Section, InSection, Inserting

LEMMA AbandonKeeps ==
  ASSUME IInv, NEW w \in Writers, wop[w].pc = "insert", Abandon(w), Seen
  PROVE  IInv'
<1> USE DEF IInv
<1> DEFINE c == wop[w].cell
<1>1. UNCHANGED <<config, md, tabs, rd, inside, waiting, owed, cbs, cb_items, leaked,
                  neighborhood_len, need_sync, writer>>
  BY DEF Abandon, Seen, gpVars, wpd
<1>2. DOMAIN cells' = DOMAIN cells \ {c} /\ \A d \in DOMAIN cells' : cells'[d] \in Keys
  BY DEF Abandon, DataTypes
<1>3. /\ wop' \in [Writers -> WopType]
      /\ \A v \in Writers \ {w} : wop'[v] = wop[v]
      /\ wop'[w].pc = "locked" /\ wop'[w].cell = NULL
  BY DoneFacts DEF Abandon
<1>4. writer = w /\ \A v \in Writers \ {w} : ~InSection(v) /\ wop[v].cell = NULL
  BY OneWriter DEF InSection
<1>5. \A v \in Writers : wop'[v].cell = NULL
  BY <1>3, <1>4
<1>6. \A cb : cb \in Removed' <=> cb \in Removed
  BY <1>1 DEF Removed, Pending
<1>7. DataTypes'
  BY <1>1, <1>2 DEF DataTypes
<1>8. WriterTypes'
  BY <1>1, <1>3 DEF WriterTypes
<1>9. Section'
  BY <1>1, <1>2, <1>3, <1>4 DEF Section, InSection, Inserting
<1>10. Lockless'
  BY <1>1, <1>3, <1>6 DEF Lockless
<1>11. CbsApart' /\ FreedOnce' /\ TablesOwned'
  BY <1>1, <1>6 DEF CbsApart, FreedOnce, TablesOwned
<1>12. CellsOwned'
  <2>1. /\ Vals(tabs, md) \subseteq DOMAIN cells'
        /\ \A cb \in Removed : Frees(tabs, cb) \subseteq DOMAIN cells' \ Vals(tabs, md)
    BY <1>2 DEF CellsOwned
  <2>2. NULL \notin DOMAIN cells
    BY KeysAssumption DEF DataTypes
  <2>3. \A d \in DOMAIN cells' :
          d \in Vals(tabs, md) \/ \E cb \in Removed : d \in Frees(tabs, cb)
    BY <1>2, <1>4, <2>2 DEF CellsOwned
  <2> QED
    BY <1>1, <1>2, <1>5, <1>6, <2>1, <2>2, <2>3 DEF CellsOwned
<1>13. ReaderTypes' /\ ReaderState'
  BY <1>1, ReadersWhere DEF ReaderState
<1>14. ReachKept'
  <2>1. \A r \in Readers : NULL \notin Reach(tabs, rd[r])
    BY DEF Reach
  <2> QED BY <1>1, <1>2, <1>5, <2>1 DEF ReachKept
<1>15. GraceKept'
  BY <1>1, <1>3, GraceSame
<1>16. SyncDue'
  BY <1>1, <1>3 DEF SyncDue
<1> QED
  BY <1>7, <1>8, <1>9, <1>10, <1>11, <1>12, <1>13, <1>14, <1>15, <1>16

\* A step that puts new, or nothing if it is NULL, in the place of old.
LEMMA ReachChanged ==
  ASSUME IInv, NEW U, NEW new, \A t \in DOMAIN tabs \ {md} : Vals(U, t) = Vals(tabs, t),
         Vals(U, md) \subseteq Vals(tabs, md) \cup {new}
  PROVE  \A r \in Readers : Reach(U, rd[r]) \subseteq Reach(tabs, rd[r]) \cup {new}
<1> SUFFICES ASSUME NEW r \in Readers
             PROVE  Reach(U, rd[r]) \subseteq Reach(tabs, rd[r]) \cup {new}
  OBVIOUS
<1>1. rd[r].tab = NULL \/ rd[r].tab \in DOMAIN tabs
  BY DEF IInv, ReaderState
<1>2. rd[r].tab # NULL => Vals(U, rd[r].tab) \subseteq Vals(tabs, rd[r].tab) \cup {new}
  BY <1>1
<1> QED
  BY <1>2 DEF Reach

LEMMA StoreValueKeeps ==
  ASSUME IInv, NEW w \in Writers, StoreValue(w), Seen
  PROVE  IInv'
<1> USE DEF IInv
<1> DEFINE c == wop[w].cell
           s == wop[w].slot
<1>1. /\ UNCHANGED <<config, md, cells, rd, inside, waiting, owed, cbs, cb_items, leaked,
                     neighborhood_len, need_sync, writer>>
      /\ wop[w].pc = "publish"
  BY DEF StoreValue, Seen, gpVars, wpd
<1>2. /\ md \in DOMAIN tabs /\ IsTable(tabs[md])
      /\ tabs = [t \in DOMAIN tabs |-> tabs[t]]
      /\ s \in Slots(tabs[md].len) /\ tabs[md].ent[s].value = NULL
      /\ c \in DOMAIN cells /\ c \in Cells /\ c # NULL
  BY <1>1, KeysAssumption DEF DataTypes, Section, Inserting
<1>3. Changed(tabs, tabs', md, s) /\ tabs'[md].ent[s].value = c
  <2>1. tabs' = WithValue(tabs, md, s, c)
    BY DEF WithValue, StoreValue
  <2> HIDE DEF s, c
  <2> QED
    BY <1>2, <2>1, ChangeValue
<1>4. /\ wop' \in [Writers -> WopType]
      /\ \A v \in Writers \ {w} : wop'[v] = wop[v]
      /\ wop'[w].pc = "locked" /\ wop'[w].cell = NULL
  BY DoneFacts DEF StoreValue
<1>5. writer = w /\ \A v \in Writers \ {w} : ~InSection(v) /\ wop[v].cell = NULL
  BY <1>1, OneWriter DEF InSection
<1>6. \A v \in Writers : wop'[v].cell = NULL
  BY <1>4, <1>5
<1>7. \A cb : cb \in Removed' <=> cb \in Removed
  BY <1>1 DEF Removed, Pending
<1> HIDE DEF s, c
<1>8. /\ DataTypes' /\ DOMAIN tabs' = DOMAIN tabs
      /\ \A t \in DOMAIN tabs : tabs'[t].len = tabs[t].len
  BY <1>1, <1>2, <1>3, ChangedData
<1>9. /\ \A t \in DOMAIN tabs \ {md} : Vals(tabs', t) = Vals(tabs, t)
      /\ Vals(tabs', md) = Vals(tabs, md) \cup {c}
      /\ Distinct(tabs', md) /\ NULL \notin Vals(tabs, md)
  <2>1. c \notin Vals(tabs, md)
    BY DEF CellsOwned, c
  <2> QED
    BY <1>2, <1>3, <2>1, ChangedVals
<1>10. \A cb \in Removed : Frees(tabs', cb) = Frees(tabs, cb) /\ c \notin Frees(tabs, cb)
  BY <1>9, FreesKept DEF CellsOwned, c
<1>11. \A r \in Readers : Reach(tabs', rd[r]) \subseteq Reach(tabs, rd[r]) \cup {c}
  BY <1>9, ReachChanged
<1>12. WriterTypes'
  BY <1>1, <1>4 DEF WriterTypes
<1>13. Section'
  BY <1>1, <1>4, <1>5 DEF Section, InSection, Inserting
<1>14. Lockless'
  BY <1>1, <1>4, <1>7 DEF Lockless
<1>15. CbsApart' /\ FreedOnce' /\ TablesOwned'
  BY <1>1, <1>7, <1>8, <1>10 DEF CbsApart, FreedOnce, TablesOwned
<1>16. CellsOwned'
  <2>1. NULL \notin DOMAIN cells
    BY KeysAssumption DEF DataTypes
  <2>2. \A cb \in Removed : Frees(tabs, cb) \subseteq DOMAIN cells \ (Vals(tabs, md) \cup {c})
    BY <1>10 DEF CellsOwned
  <2>3. \A d \in DOMAIN cells :
          d \in Vals(tabs, md) \cup {c} \/ \E cb \in Removed : d \in Frees(tabs, cb)
    BY <1>5, <2>1 DEF CellsOwned, c
  <2>4. Vals(tabs, md) \cup {c} \subseteq DOMAIN cells
    BY <1>2 DEF CellsOwned
  <2> QED
    BY <1>1, <1>2, <1>6, <1>7, <1>9, <1>10, <2>1, <2>2, <2>3, <2>4 DEF CellsOwned
<1>17. ReaderTypes' /\ ReaderState'
  BY <1>1, <1>8, ReadersWhere DEF ReaderState
<1>18. ReachKept'
  <2>1. \A r \in Readers : NULL \notin Reach(tabs', rd[r])
    BY DEF Reach
  <2> QED BY <1>1, <1>2, <1>6, <1>11, <2>1 DEF ReachKept
<1>19. GraceKept'
  <2> SUFFICES ASSUME NEW q \in Readers, NEW v \in Writers, wop'[v].pc = "wait",
                      q \notin owed[v], NEW cb \in cbs[v]
               PROVE  /\ rd[q].tab \notin TablesOf(cb)
                      /\ Reach(tabs', rd[q]) \cap Frees(tabs', cb) = {}
    BY <1>1 DEF GraceKept
  <2>1. cb \in Removed
    BY RemovedFacts
  <2>2. wop[v].pc = "wait"
    BY <1>4
  <2>3. rd[q].tab \notin TablesOf(cb) /\ Reach(tabs, rd[q]) \cap Frees(tabs, cb) = {}
    BY <2>2 DEF GraceKept
  <2> QED
    BY <1>10, <1>11, <2>1, <2>3
<1>20. SyncDue'
  BY <1>1, <1>4 DEF SyncDue
<1> QED
  BY <1>8, <1>12, <1>13, <1>14, <1>15, <1>16, <1>17, <1>18, <1>19, <1>20

\* RcuCall, of the callback a.
Called(a) ==
  \/ cb_items' = cb_items \cup {a} /\ leaked' = leaked
  \/ leaked' = leaked \cup {a} /\ cb_items' = cb_items

LEMMA CalledFacts ==
  ASSUME NEW a, Called(a), UNCHANGED cbs
  PROVE  \A cb : cb \in Removed' <=> cb \in Removed \/ cb = a
<1>1. \A cb : cb \in Removed' <=> cb \in cb_items' \/ (\E v \in Writers : cb \in cbs'[v])
                                        \/ cb \in leaked'
  BY DEF Removed, Pending
<1> QED
  BY <1>1, RemovedFacts DEF Called

\* A callback is queued or leaks, and is neither of the ones so far.
LEMMA CalledApart ==
  ASSUME IInv, NEW a \in Callback, a \notin Removed, Called(a), UNCHANGED cbs
  PROVE  /\ CbsApart'
         /\ cb_items' \subseteq Callback /\ leaked' \subseteq Callback
<1>1. a \notin cb_items /\ a \notin leaked /\ \A v \in Writers : a \notin cbs[v]
  BY RemovedFacts
<1> QED
  BY <1>1 DEF IInv, CbsApart, WriterTypes, Called

\* The writer's cell, if it has one, takes the place of a value, which is left to
\* a callback.
LEMMA TakenOutKeeps ==
  ASSUME IInv, NEW w \in Writers, InSection(w), ~config.lockless_reads, Seen,
         NEW s \in Slots(tabs[md].len), tabs[md].ent[s].value # NULL,
         Changed(tabs, tabs', md, s), tabs'[md].ent[s].value = wop[w].cell,
         NEW a \in Callback, Frees(tabs', a) = {tabs[md].ent[s].value},
         Frees(tabs, a) = {tabs[md].ent[s].value}, TablesOf(a) = {},
         Called(a), need_sync' = TRUE, Done(w),
         UNCHANGED <<md, cells, writer, neighborhood_len, cbs, gpVars>>
  PROVE  IInv'
<1> USE DEF IInv
<1> DEFINE c == wop[w].cell
           old == tabs[md].ent[s].value
<1>1. UNCHANGED <<config, md, cells, rd, inside, waiting, owed, cbs,
                  neighborhood_len, writer>>
  BY DEF Seen, gpVars
<1>2. /\ md \in DOMAIN tabs /\ NULL \notin DOMAIN cells
      /\ c \in DOMAIN cells \/ c = NULL
      /\ c \notin Vals(tabs, md)
  BY KeysAssumption DEF DataTypes, Section, Inserting, CellsOwned
<1>4. /\ wop' \in [Writers -> WopType]
      /\ \A v \in Writers \ {w} : wop'[v] = wop[v]
      /\ wop'[w].pc = "locked" /\ wop'[w].cell = NULL
  BY DoneFacts
<1>5. writer = w /\ w # NULL
      /\ \A v \in Writers \ {w} : ~InSection(v) /\ wop[v].cell = NULL
  BY OneWriter
<1>6. \A v \in Writers : wop'[v].cell = NULL
  BY <1>4, <1>5
<1>7. \A cb : cb \in Removed' <=> cb \in Removed \/ cb = a
  BY <1>1, CalledFacts
<1>8. /\ DataTypes' /\ DOMAIN tabs' = DOMAIN tabs
      /\ \A t \in DOMAIN tabs : tabs'[t].len = tabs[t].len
  BY <1>1, ChangedData
<1>9. /\ \A t \in DOMAIN tabs \ {md} : Vals(tabs', t) = Vals(tabs, t)
      /\ Vals(tabs', md) = ((Vals(tabs, md) \ {old}) \cup {c}) \ {NULL}
      /\ Distinct(tabs', md)
      /\ old \in Vals(tabs, md) /\ NULL \notin Vals(tabs, md)
  BY <1>2, ChangedVals
<1> HIDE DEF c, old
<1>10. \A cb \in Removed : /\ Frees(tabs', cb) = Frees(tabs, cb)
                           /\ c \notin Frees(tabs, cb) /\ old \notin Frees(tabs, cb)
  <2>1. \A cb \in Removed : Frees(tabs', cb) = Frees(tabs, cb)
    BY <1>9, FreesKept
  <2> QED BY <1>9, <2>1 DEF CellsOwned, c
<1>11. a \notin Removed /\ Frees(tabs', a) = {old}
  BY <1>10 DEF old
<1>12. \A r \in Readers : Reach(tabs', rd[r]) \subseteq Reach(tabs, rd[r]) \cup {c}
  <2>1. Vals(tabs', md) \subseteq Vals(tabs, md) \cup {c}
    BY <1>9
  <2> QED BY <1>9, <2>1, ReachChanged
<1>13. WriterTypes'
  <2>1. cb_items' \subseteq Callback /\ leaked' \subseteq Callback
    BY <1>1, <1>11, CalledApart
  <2> QED BY <1>1, <1>4, <2>1 DEF WriterTypes
<1>14. Section'
  BY <1>1, <1>4, <1>5 DEF Section, InSection, Inserting
<1>15. Lockless'
  BY <1>1 DEF Lockless
<1>16. CbsApart'
  BY <1>1, <1>11, CalledApart
<1>17. FreedOnce'
  <2> SUFFICES ASSUME NEW x \in Removed', NEW y \in Removed', x # y
               PROVE  /\ TablesOf(x) \cap TablesOf(y) = {}
                      /\ Frees(tabs', x) \cap Frees(tabs', y) = {}
    BY DEF FreedOnce
  <2>1. CASE x = a
    BY <1>7, <1>10, <1>11, <2>1
  <2>2. CASE y = a
    BY <1>7, <1>10, <1>11, <2>2
  <2>3. CASE x # a /\ y # a
    BY <1>7, <1>10, <2>3 DEF FreedOnce
  <2> QED BY <2>1, <2>2, <2>3
<1>18. TablesOwned'
  BY <1>1, <1>7, <1>8 DEF TablesOwned
<1>19. CellsOwned'
  <2> DEFINE V == Vals(tabs', md)
  <2>1. /\ Vals(tabs, md) \subseteq DOMAIN cells
        /\ \A cb \in Removed : Frees(tabs, cb) \subseteq DOMAIN cells \ Vals(tabs, md)
    BY DEF CellsOwned
  <2>2. V \subseteq DOMAIN cells /\ old \in DOMAIN cells
    BY <1>2, <1>9, <2>1 DEF c
  <2>3. \A cb \in Removed : Frees(tabs', cb) \subseteq DOMAIN cells \ V
    BY <1>9, <1>10, <2>1
  <2>4. old \notin V
    BY <1>2, <1>9 DEF c
  <2>5. ASSUME NEW d \in DOMAIN cells
        PROVE  d \in V \/ d = old \/ \E cb \in Removed : d \in Frees(tabs', cb)
    <3>1. \/ d \in Vals(tabs, md)
          \/ \E v \in Writers : d = wop[v].cell
          \/ \E cb \in Removed : d \in Frees(tabs, cb)
      BY DEF CellsOwned
    <3>2. (\E v \in Writers : d = wop[v].cell) => d = c
      BY <1>2, <1>5 DEF c
    <3>3. d # NULL
      BY <1>2
    <3> QED BY <1>9, <1>10, <3>1, <3>2, <3>3
  <2>6. \A cb \in Removed' : /\ Frees(tabs', cb) \subseteq DOMAIN cells \ V
                             /\ NULL \notin Frees(tabs', cb)
    BY <1>2, <1>7, <1>11, <2>2, <2>3, <2>4
  <2>7. NULL \notin V
    BY <1>9
  <2>8. \A d \in DOMAIN cells : d \in V \/ \E cb \in Removed' : d \in Frees(tabs', cb)
    BY <1>7, <1>11, <2>5
  <2> HIDE DEF V
  <2>9. V = Vals(tabs', md') /\ cells' = cells
    BY <1>1 DEF V
  <2> QED
    BY <1>1, <1>6, <1>9, <2>2, <2>6, <2>7, <2>8, <2>9 DEF CellsOwned
<1>20. ReaderTypes' /\ ReaderState'
  BY <1>1, <1>8, ReadersWhere DEF ReaderState
<1>21. ReachKept'
  <2>1. \A r \in Readers : NULL \notin Reach(tabs', rd[r])
    BY DEF Reach
  <2> QED BY <1>1, <1>2, <1>6, <1>12, <2>1 DEF ReachKept, c
<1>22. GraceKept'
  <2> SUFFICES ASSUME NEW q \in Readers, NEW v \in Writers, wop'[v].pc = "wait",
                      q \notin owed[v], NEW cb \in cbs[v]
               PROVE  /\ rd[q].tab \notin TablesOf(cb)
                      /\ Reach(tabs', rd[q]) \cap Frees(tabs', cb) = {}
    BY <1>1 DEF GraceKept
  <2>1. cb \in Removed
    BY RemovedFacts
  <2>2. wop[v].pc = "wait"
    BY <1>4
  <2>3. rd[q].tab \notin TablesOf(cb) /\ Reach(tabs, rd[q]) \cap Frees(tabs, cb) = {}
    BY <2>2 DEF GraceKept
  <2> QED
    BY <1>10, <1>12, <2>1, <2>3
<1>23. SyncDue'
  BY DEF SyncDue
<1> QED
  BY <1>8, <1>13, <1>14, <1>15, <1>16, <1>17, <1>18, <1>19, <1>20, <1>21, <1>22, <1>23

LEMMA CallbackTypes ==
  /\ \A c \in Cells : [fn |-> "free_old_entry", arg |-> c] \in Callback
  /\ \A c \in Cells : [fn |-> "free_old_ht_value", arg |-> c] \in Callback
  /\ \A t \in Tables : [fn |-> "free_oldmd", arg |-> t] \in Callback
  /\ \A t \in Tables : [fn |-> "free_old_neigh_table", arg |-> t] \in Callback
BY DEF Callback

LEMMA ReplaceKeeps ==
  ASSUME IInv, NEW w \in Writers, Replace(w), Seen
  PROVE  IInv'
<1> DEFINE k == wop[w].key
           P == Present(k)
           i == CHOOSE x \in P : \A y \in P : x <= y
           s == Probe(tabs[md], Hash[k], i)
           e == [hash |-> Hash[k], value |-> wop[w].cell]
           a == [fn |-> "free_old_ht_value", arg |-> tabs[md].ent[s].value]
<1>1. /\ wop[w].pc = "insert" /\ P # {} /\ wop[w].olddata
      /\ tabs' = [tabs EXCEPT ![md].ent[s] = e]
      /\ Called(a)
      /\ need_sync' = TRUE /\ Done(w)
      /\ UNCHANGED <<md, cells, writer, neighborhood_len, cbs, gpVars>>
  BY Zenon DEF Replace, SetEntry, RcuCall, Called
<1>2. InSection(w) /\ Inserting(w)
  BY <1>1 DEF InSection, Inserting
<1>3. /\ md \in DOMAIN tabs /\ IsTable(tabs[md]) /\ k \in Keys
      /\ tabs = [t \in DOMAIN tabs |-> tabs[t]]
      /\ wop[w].cell \in Cells
  BY <1>2 DEF IInv, DataTypes, Section
<1>4. ~config.lockless_reads
  BY <1>1 DEF IInv, Lockless
<1>5. i \in P
  <2> HIDE DEF P
  <2>1. P \subseteq Nat
    BY <1>3, MatchFacts DEF P, Present
  <2>2. \E x \in P : \A y \in P : x <= y
    BY <1>1, <2>1, SmallestNumber
  <2> QED BY <2>2
<1>6. i \in Matches(tabs[md], k)
  <2> HIDE DEF i
  <2> QED BY <1>5 DEF Present
<1> HIDE DEF i, k, P
<1>7. s \in Slots(tabs[md].len) /\ tabs[md].ent[s].value # NULL
  BY <1>3, <1>6, MatchFacts
<1> HIDE DEF s
<1>8. Changed(tabs, tabs', md, s) /\ tabs'[md].ent[s] = e
  <2>1. tabs' = WithEntry(tabs, md, s, e)
    BY <1>1 DEF WithEntry
  <2>2. e \in Entry
    BY <1>3, EntryFacts
  <2> HIDE DEF e
  <2> QED BY <1>3, <1>7, <2>1, <2>2, ChangeEntry
<1>9. tabs[md].ent[s].value \in Cells
  BY <1>3, <1>7, EntryFacts DEF IsTable
<1>10. /\ a \in Callback /\ TablesOf(a) = {}
       /\ Frees(tabs', a) = {tabs[md].ent[s].value}
       /\ Frees(tabs, a) = {tabs[md].ent[s].value}
  BY <1>9, CallbackTypes, NewCallbacks
<1>11. tabs'[md].ent[s].value = wop[w].cell
  BY <1>8
<1> HIDE DEF a
<1> QED
  BY <1>1, <1>2, <1>4, <1>7, <1>8, <1>10, <1>11, TakenOutKeeps

LEMMA ClearValueKeeps ==
  ASSUME IInv, NEW w \in Writers, ClearValue(w), Seen
  PROVE  IInv'
<1> DEFINE s == wop[w].slot
           a == [fn |-> "free_old_entry", arg |-> tabs[md].ent[s].value]
<1>1. /\ wop[w].pc = "unlink"
      /\ tabs' = [tabs EXCEPT ![md].ent[s].value = NULL]
      /\ Called(a)
      /\ need_sync' = TRUE /\ Done(w)
      /\ UNCHANGED <<md, cells, writer, neighborhood_len, cbs, gpVars>>
  BY DEF ClearValue, RcuCall, Called
<1>2. InSection(w) /\ wop[w].cell = NULL
  BY <1>1 DEF InSection, Inserting, IInv, Section
<1>3. /\ md \in DOMAIN tabs /\ IsTable(tabs[md])
      /\ tabs = [t \in DOMAIN tabs |-> tabs[t]]
      /\ s \in Slots(tabs[md].len) /\ tabs[md].ent[s].value # NULL
  BY <1>1 DEF IInv, DataTypes, Section
<1>4. ~config.lockless_reads
  BY <1>1 DEF IInv, Lockless
<1> HIDE DEF s
<1>8. Changed(tabs, tabs', md, s) /\ tabs'[md].ent[s].value = wop[w].cell
  <2>1. tabs' = WithValue(tabs, md, s, NULL)
    BY <1>1 DEF WithValue
  <2> QED BY <1>2, <1>3, <2>1, ChangeValue
<1>9. tabs[md].ent[s].value \in Cells
  BY <1>3, EntryFacts DEF IsTable
<1>10. /\ a \in Callback /\ TablesOf(a) = {}
       /\ Frees(tabs', a) = {tabs[md].ent[s].value}
       /\ Frees(tabs, a) = {tabs[md].ent[s].value}
  BY <1>9, CallbackTypes, NewCallbacks
<1> HIDE DEF a
<1> QED
  BY <1>1, <1>2, <1>3, <1>4, <1>8, <1>10, TakenOutKeeps

\* A new table takes the place of md; the values of md are in it or go with md.
LEMMA SwappedKeeps ==
  ASSUME IInv, NEW w \in Writers, wop[w].pc \in {"locked", "insert"},
         ~config.lockless_reads, Seen,
         NEW t \in Tables \ DOMAIN tabs, DOMAIN tabs' = DOMAIN tabs \cup {t},
         tabs' = [u \in DOMAIN tabs' |-> tabs'[u]],
         \A u \in DOMAIN tabs : tabs'[u] = tabs[u],
         md' = t, IsTable(tabs'[t]), neighborhood_len' = tabs'[t].len,
         Distinct(tabs', t),
         NEW a \in Callback, TablesOf(a) = {md}, Frees(tabs', a) = Frees(tabs, a),
         Vals(tabs', t) \cup Frees(tabs, a) = Vals(tabs, md),
         Vals(tabs', t) \cap Frees(tabs, a) = {},
         Called(a), need_sync' = TRUE,
         wop' \in [Writers -> WopType],
         \A v \in Writers :
           /\ wop'[v].pc = wop[v].pc /\ wop'[v].cell = wop[v].cell
           /\ wop'[v].key = wop[v].key,
         UNCHANGED <<cells, writer, cbs, gpVars>>
  PROVE  IInv'
<1> USE DEF IInv
<1>1. UNCHANGED <<config, cells, rd, inside, waiting, owed, cbs, writer>>
  BY DEF Seen, gpVars
<1>2. md \in DOMAIN tabs /\ md # t /\ NULL \notin DOMAIN cells /\ t # NULL
  BY KeysAssumption DEF DataTypes
<1>3. writer = w /\ \A v \in Writers \ {w} : ~InSection(v) /\ wop[v].cell = NULL
  BY OneWriter DEF InSection
<1>4. \A cb : cb \in Removed' <=> cb \in Removed \/ cb = a
  BY <1>1, CalledFacts
<1>5. \A u \in DOMAIN tabs : Vals(tabs', u) = Vals(tabs, u)
  BY DEF Vals
<1>6. \A cb \in Removed : /\ Frees(tabs', cb) = Frees(tabs, cb)
                          /\ TablesOf(cb) \subseteq DOMAIN tabs \ {md}
                          /\ Frees(tabs, cb) \cap Vals(tabs, md) = {}
  BY <1>5, FreesKept DEF TablesOwned, CellsOwned
<1>7. a \notin Removed
  BY <1>6
<1>8. \A r \in Readers : Reach(tabs', rd[r]) = Reach(tabs, rd[r])
  <2>1. \A r \in Readers : rd[r].tab = NULL \/ rd[r].tab \in DOMAIN tabs
    BY DEF ReaderState
  <2> QED BY <1>5, <2>1 DEF Reach
<1>9. DataTypes'
  BY <1>1 DEF DataTypes
<1>10. WriterTypes'
  <2>1. cb_items' \subseteq Callback /\ leaked' \subseteq Callback
    BY <1>1, <1>7, CalledApart
  <2> QED BY <1>1, <2>1 DEF WriterTypes
<1>11. Section'
  <2>1. \A v \in Writers : wop[v].pc \notin {"publish", "unlink"}
    BY <1>3 DEF InSection
  <2>2. w # NULL
    BY KeysAssumption
  <2> QED BY <1>1, <1>3, <2>1, <2>2 DEF Section, InSection, Inserting
<1>12. Lockless'
  BY <1>1 DEF Lockless
<1>13. CbsApart'
  BY <1>1, <1>7, CalledApart
<1>14. FreedOnce'
  <2> SUFFICES ASSUME NEW x \in Removed', NEW y \in Removed', x # y
               PROVE  /\ TablesOf(x) \cap TablesOf(y) = {}
                      /\ Frees(tabs', x) \cap Frees(tabs', y) = {}
    BY DEF FreedOnce
  <2>1. ASSUME NEW z \in Removed
        PROVE  TablesOf(a) \cap TablesOf(z) = {} /\ Frees(tabs', a) \cap Frees(tabs', z) = {}
    BY <1>6
  <2>2. CASE x = a
    BY <1>4, <2>1, <2>2
  <2>3. CASE y = a
    BY <1>4, <2>1, <2>3
  <2>4. CASE x # a /\ y # a
    BY <1>4, <1>6, <2>4 DEF FreedOnce
  <2> QED BY <2>2, <2>3, <2>4
<1>15. TablesOwned'
  <2>1. \A cb \in Removed' : TablesOf(cb) \subseteq DOMAIN tabs' \ {md'}
    BY <1>2, <1>4, <1>6
  <2>2. \A u \in DOMAIN tabs' \ {md'} : \E cb \in Removed' : u \in TablesOf(cb)
    BY <1>4 DEF TablesOwned
  <2> QED BY <2>1, <2>2 DEF TablesOwned
<1>16. CellsOwned'
  <2> DEFINE V == Vals(tabs', md')
  <2>0. V = Vals(tabs', t)
    OBVIOUS
  <2> HIDE DEF V
  <2>1. V \subseteq DOMAIN cells' /\ Frees(tabs', a) \subseteq DOMAIN cells' \ V
    BY <2>0 DEF CellsOwned
  <2>2. \A v \in Writers : wop'[v].cell \notin V /\ wop'[v].cell \notin Frees(tabs', a)
    BY <2>0 DEF CellsOwned
  <2>3. \A cb \in Removed : Frees(tabs', cb) \subseteq DOMAIN cells' \ V
    BY <1>6, <2>0 DEF CellsOwned
  <2>4. \A cb \in Removed, v \in Writers : wop'[v].cell \notin Frees(tabs', cb)
    BY <1>6 DEF CellsOwned
  <2>5. ASSUME NEW d \in DOMAIN cells'
        PROVE  \/ d \in V
               \/ \E v \in Writers : d = wop'[v].cell
               \/ \E cb \in Removed' : d \in Frees(tabs', cb)
    <3>1. \/ d \in Vals(tabs, md)
          \/ \E v \in Writers : d = wop[v].cell
          \/ \E cb \in Removed : d \in Frees(tabs, cb)
      BY DEF CellsOwned
    <3>2. CASE d \in Vals(tabs, md)
      BY <1>4, <2>0, <3>2
    <3>3. CASE \E v \in Writers : d = wop[v].cell
      BY <3>3
    <3>4. CASE \E cb \in Removed : d \in Frees(tabs, cb)
      BY <1>4, <1>6, <3>4
    <3> QED BY <3>1, <3>2, <3>3, <3>4
  <2>6. \A cb \in Removed' : /\ Frees(tabs', cb) \subseteq DOMAIN cells' \ V
                             /\ \A v \in Writers : wop'[v].cell \notin Frees(tabs', cb)
    BY <1>4, <2>1, <2>2, <2>3, <2>4
  <2>7. Distinct(tabs', md')
    OBVIOUS
  <2> QED BY <2>1, <2>2, <2>5, <2>6, <2>7 DEF CellsOwned, V
<1>17. ReaderTypes' /\ ReaderState'
  BY <1>1, ReadersWhere DEF ReaderState
<1>18. ReachKept'
  BY <1>1, <1>8 DEF ReachKept
<1>19. GraceKept'
  BY <1>1, <1>6, <1>8, GraceSame
<1>20. SyncDue'
  BY DEF SyncDue
<1> QED
  BY <1>9, <1>10, <1>11, <1>12, <1>13, <1>14, <1>15, <1>16, <1>17, <1>18, <1>19, <1>20

LEMMA FlushKeeps ==
  ASSUME IInv, NEW w \in Writers, Flush(w), Seen
  PROVE  IInv'
<1> DEFINE t == Unused(Tables, tabs)
           a == [fn |-> "free_oldmd", arg |-> md]
<1>1. /\ wop[w].pc = "locked" /\ ~config.lockless_reads /\ Tables # DOMAIN tabs
      /\ tabs' = [u \in DOMAIN tabs \cup {t} |->
                    IF u = t THEN NewTable(DefaultLen) ELSE tabs[u]]
      /\ md' = t /\ neighborhood_len' = DefaultLen
      /\ Called(a) /\ need_sync' = TRUE
      /\ UNCHANGED <<cells, writer, wop, cbs, gpVars>>
  BY DEF Flush, RcuCall, Called
<1>2. md \in DOMAIN tabs /\ DOMAIN tabs \subseteq Tables /\ wop \in [Writers -> WopType]
  BY DEF IInv, DataTypes, WriterTypes
<1>3. t \in Tables \ DOMAIN tabs
  BY <1>1, <1>2, UnusedFacts
<1> HIDE DEF t
<1>4. /\ DOMAIN tabs' = DOMAIN tabs \cup {t}
      /\ tabs' = [u \in DOMAIN tabs' |-> tabs'[u]]
      /\ \A u \in DOMAIN tabs : tabs'[u] = tabs[u]
      /\ tabs'[t] = NewTable(DefaultLen)
  BY <1>1, <1>3
<1>5. DefaultLen \in Nat \ {0}
  BY SizesAssumption
<1>6. /\ IsTable(tabs'[t]) /\ tabs'[t].len = DefaultLen
      /\ tabs'[t].ent = [s \in Slots(DefaultLen) |-> Empty]
  BY <1>4, <1>5, NewTableFacts
<1>7. \A s \in DOMAIN tabs'[t].ent : tabs'[t].ent[s].value = NULL
  BY <1>6, EntryFacts
<1>8. Vals(tabs', t) = {} /\ Distinct(tabs', t)
  BY <1>7 DEF Vals, Distinct
<1>9. a \in Callback /\ TablesOf(a) = {md} /\ Frees(tabs, a) = Vals(tabs, md)
      /\ Frees(tabs', a) = Vals(tabs', md)
  BY <1>2, CallbackTypes, NewCallbacks
<1>10. Vals(tabs', md) = Vals(tabs, md)
  BY <1>2, <1>4 DEF Vals
<1> HIDE DEF a
<1> QED
  BY <1>1, <1>2, <1>3, <1>4, <1>6, <1>8, <1>9, <1>10, SwappedKeeps

LEMMA GrowKeeps ==
  ASSUME IInv, NEW w \in Writers, Grow(w), Seen
  PROVE  IInv'
<1> DEFINE t == Unused(Tables, tabs)
           len == GrowLen(tabs[md], neighborhood_len)
           a == [fn |-> "free_old_neigh_table", arg |-> md]
<1>1. /\ wop[w].pc = "insert" /\ ~config.lockless_reads /\ Tables # DOMAIN tabs
      /\ wop[w].tries < 4 /\ ~NoSizeFits(tabs[md], neighborhood_len)
      /\ tabs' = [u \in DOMAIN tabs \cup {t} |->
                    IF u = t THEN Rehash(tabs[md], len) ELSE tabs[u]]
      /\ md' = t /\ neighborhood_len' = len
      /\ Called(a) /\ need_sync' = TRUE
      /\ wop' = [wop EXCEPT ![w].tries = @ + 1]
      /\ UNCHANGED <<cells, writer, cbs, gpVars>>
  BY DEF Grow, Full, RcuCall, Called
<1>2. /\ md \in DOMAIN tabs /\ DOMAIN tabs \subseteq Tables
      /\ IsTable(tabs[md]) /\ tabs[md].len = neighborhood_len
      /\ neighborhood_len \in Nat \ {0} /\ Distinct(tabs, md)
  BY DEF IInv, DataTypes, CellsOwned, IsTable
<1>3. t \in Tables \ DOMAIN tabs
  BY <1>1, <1>2, UnusedFacts
<1>4. len \in Nat \ {0} /\ Fits(tabs[md], len)
  BY <1>1, <1>2, GrowLenFacts
<1> HIDE DEF t, len
<1>5. /\ DOMAIN tabs' = DOMAIN tabs \cup {t}
      /\ tabs' = [u \in DOMAIN tabs' |-> tabs'[u]]
      /\ \A u \in DOMAIN tabs : tabs'[u] = tabs[u]
      /\ tabs'[t] = Rehash(tabs[md], len)
  BY <1>1, <1>3
<1>6. IsTable(tabs'[t]) /\ tabs'[t].len = len
  BY <1>2, <1>4, <1>5, RehashFacts
<1>7. Vals(tabs', t) = Vals(tabs, md) /\ Distinct(tabs', t)
  BY <1>2, <1>4, <1>5, RehashVals
<1>8. a \in Callback /\ TablesOf(a) = {md} /\ Frees(tabs, a) = {} /\ Frees(tabs', a) = {}
  BY <1>2, CallbackTypes, NewCallbacks
<1>9. /\ wop' \in [Writers -> WopType]
      /\ \A v \in Writers :
           /\ wop'[v].pc = wop[v].pc /\ wop'[v].cell = wop[v].cell
           /\ wop'[v].key = wop[v].key
  <2>1. wop \in [Writers -> WopType] /\ wop[w].tries + 1 \in 0 .. 4
    BY <1>1 DEF IInv, WriterTypes, WopType
  <2> QED BY <1>1, <2>1 DEF WopType
<1> HIDE DEF a
<1> QED
  <2>1. /\ wop[w].pc \in {"locked", "insert"} /\ ~config.lockless_reads
        /\ md' = t /\ neighborhood_len' = tabs'[t].len
        /\ Called(a) /\ need_sync' = TRUE
        /\ UNCHANGED <<cells, writer, cbs, gpVars>>
    BY <1>1, <1>6
  <2>2. /\ Vals(tabs', t) \cup Frees(tabs, a) = Vals(tabs, md)
        /\ Vals(tabs', t) \cap Frees(tabs, a) = {}
        /\ Frees(tabs', a) = Frees(tabs, a)
    BY <1>7, <1>8
  <2> QED
    BY <1>3, <1>5, <1>6, <1>7, <1>8, <1>9, <2>1, <2>2, SwappedKeeps

LEMMA RunCallbacksKeeps ==
  ASSUME IInv, NEW w \in Writers, RunCallbacks(w), Seen
  PROVE  IInv'
<1> USE DEF IInv
<1> DEFINE F == UNION {CellsOf(cb) : cb \in cbs[w]}
           G == UNION {TablesOf(cb) : cb \in cbs[w]}
<1>1. /\ UNCHANGED <<config, md, rd, inside, owed, cb_items, leaked, neighborhood_len,
                     need_sync, writer>>
      /\ wop[w].pc = "wait" /\ owed[w] = {} /\ waiting' = waiting \ {w}
  BY DEF RunCallbacks, End, Seen, wpd
<1>2. /\ DOMAIN cells' = DOMAIN cells \ F
      /\ \A d \in DOMAIN cells' : cells'[d] = cells[d]
      /\ DOMAIN tabs' = DOMAIN tabs \ G
      /\ tabs' = [t \in DOMAIN tabs' |-> tabs'[t]]
      /\ \A t \in DOMAIN tabs' : tabs'[t] = tabs[t]
  BY DEF RunCallbacks
<1>3. \A c : c \in F <=> \E cb \in cbs[w] : c \in Frees(tabs, cb)
  BY CallbackFacts
<1>4. \A t : t \in G <=> \E cb \in cbs[w] : t \in TablesOf(cb)
  OBVIOUS
<1> HIDE DEF F, G
<1>5. /\ wop' \in [Writers -> WopType]
      /\ \A v \in Writers :
           /\ v # w => wop'[v] = wop[v]
           /\ wop'[v].pc = IF v = w THEN "idle" ELSE wop[v].pc
           /\ wop'[v].cell = wop[v].cell /\ wop'[v].key = wop[v].key
           /\ wop'[v].slot = wop[v].slot /\ wop'[v].olddata = wop[v].olddata
  BY SMTT(30) DEF RunCallbacks, GoTo, WriterTypes, WopType
<1>6. /\ cbs' \in [Writers -> SUBSET Callback]
      /\ cbs'[w] = {} /\ \A v \in Writers \ {w} : cbs'[v] = cbs[v]
  BY DEF RunCallbacks, WriterTypes
<1>7. \A cb : cb \in Removed' <=> cb \in Removed /\ cb \notin cbs[w]
  <2>1. \A cb : cb \in Removed' <=> cb \in cb_items' \/ (\E v \in Writers : cb \in cbs'[v])
                                        \/ cb \in leaked'
    BY DEF Removed, Pending
  <2> QED BY <1>1, <1>6, <2>1, RemovedFacts DEF CbsApart
<1>8. \A cb \in cbs[w] : cb \in Removed
  BY RemovedFacts
<1>9. md \in DOMAIN tabs' /\ ~config.lockless_reads
  BY <1>1, <1>2, <1>4, <1>8 DEF TablesOwned, DataTypes, Lockless
<1>10. \A cb \in Removed' : /\ TablesOf(cb) \subseteq DOMAIN tabs' \ {md}
                            /\ Frees(tabs, cb) \cap F = {}
  <2> SUFFICES ASSUME NEW cb \in Removed'
               PROVE  /\ TablesOf(cb) \subseteq DOMAIN tabs' \ {md}
                      /\ Frees(tabs, cb) \cap F = {}
    OBVIOUS
  <2>1. cb \in Removed /\ cb \notin cbs[w]
    BY <1>7
  <2>2. \A b \in cbs[w] : /\ TablesOf(cb) \cap TablesOf(b) = {}
                          /\ Frees(tabs, cb) \cap Frees(tabs, b) = {}
    BY <1>8, <2>1 DEF FreedOnce
  <2>3. TablesOf(cb) \subseteq DOMAIN tabs \ {md}
    BY <2>1 DEF TablesOwned
  <2> QED BY <1>2, <1>3, <1>4, <2>2, <2>3
<1>11. \A t \in DOMAIN tabs' : Vals(tabs', t) = Vals(tabs, t)
  BY <1>2 DEF Vals
<1>12. \A cb \in Removed' : Frees(tabs', cb) = Frees(tabs, cb)
  BY <1>10, <1>11 DEF Frees, TablesOf
<1>13. Vals(tabs', md) = Vals(tabs, md) /\ Vals(tabs, md) \cap F = {}
  BY <1>3, <1>8, <1>9, <1>11 DEF CellsOwned
<1>14. \A r \in Readers : /\ rd[r].tab \in DOMAIN tabs' \cup {NULL}
                          /\ Reach(tabs, rd[r]) \cap F = {}
  <2> SUFFICES ASSUME NEW r \in Readers
               PROVE  /\ rd[r].tab \in DOMAIN tabs' \cup {NULL}
                      /\ Reach(tabs, rd[r]) \cap F = {}
    OBVIOUS
  <2>1. \A cb \in cbs[w] : /\ rd[r].tab \notin TablesOf(cb)
                           /\ Reach(tabs, rd[r]) \cap Frees(tabs, cb) = {}
    BY <1>1 DEF GraceKept
  <2>2. rd[r].tab \in DOMAIN tabs \cup {NULL}
    BY DEF ReaderState
  <2> QED BY <1>2, <1>3, <1>4, <2>1, <2>2
<1>15. \A r \in Readers : Reach(tabs', rd'[r]) = Reach(tabs, rd[r])
  BY <1>1, <1>11, <1>14 DEF Reach
<1>16. DataTypes'
  <2>1. \A t \in DOMAIN tabs' : t \in DOMAIN tabs
    BY <1>2
  <2> QED BY <1>1, <1>2, <1>9, <2>1 DEF DataTypes
<1>17. WriterTypes'
  BY <1>1, <1>5, <1>6 DEF WriterTypes
<1>18. Section'
  <2>1. \A v \in Writers : Inserting(v) => wop[v].cell \notin F
    BY <1>3, <1>8 DEF CellsOwned
  <2>2. tabs'[md'] = tabs[md]
    BY <1>1, <1>2, <1>9
  <2> QED
    BY <1>1, <1>2, <1>5, <1>6, <2>1, <2>2 DEF Section, InSection, Inserting
<1>19. Lockless'
  BY <1>1, <1>9 DEF Lockless
<1>20. CbsApart'
  BY <1>1, <1>6 DEF CbsApart
<1>21. FreedOnce'
  BY <1>7, <1>12 DEF FreedOnce
<1>22. TablesOwned'
  <2>1. \A t \in DOMAIN tabs' \ {md} : \E cb \in Removed' : t \in TablesOf(cb)
    <3> SUFFICES ASSUME NEW t \in DOMAIN tabs' \ {md}
                 PROVE  \E cb \in Removed' : t \in TablesOf(cb)
      OBVIOUS
    <3>1. PICK cb \in Removed : t \in TablesOf(cb)
      BY <1>2 DEF TablesOwned
    <3>2. cb \notin cbs[w]
      BY <1>2, <1>4, <3>1
    <3> QED BY <1>7, <3>1, <3>2
  <2> QED BY <1>1, <1>10, <2>1 DEF TablesOwned
<1>23. CellsOwned'
  <2>1. /\ Vals(tabs', md') = Vals(tabs, md) /\ Vals(tabs, md) \subseteq DOMAIN cells'
        /\ Distinct(tabs', md')
    BY <1>1, <1>2, <1>9, <1>13 DEF CellsOwned, Distinct
  <2>2. \A v \in Writers : wop'[v].cell \notin Vals(tabs', md')
    BY <1>5, <2>1 DEF CellsOwned
  <2>3. \A cb \in Removed' :
          /\ Frees(tabs', cb) \subseteq DOMAIN cells' \ Vals(tabs', md')
          /\ \A v \in Writers : wop'[v].cell \notin Frees(tabs', cb)
    BY <1>2, <1>5, <1>7, <1>10, <1>12, <2>1 DEF CellsOwned
  <2>4. ASSUME NEW d \in DOMAIN cells'
        PROVE  \/ d \in Vals(tabs', md')
               \/ \E v \in Writers : d = wop'[v].cell
               \/ \E cb \in Removed' : d \in Frees(tabs', cb)
    <3>1. d \in DOMAIN cells /\ d \notin F
      BY <1>2
    <3>2. CASE \E cb \in Removed : d \in Frees(tabs, cb)
      <4>1. PICK cb \in Removed : d \in Frees(tabs, cb)
        BY <3>2
      <4>2. cb \in Removed'
        BY <1>3, <1>7, <3>1, <4>1
      <4> QED BY <1>12, <4>1, <4>2
    <3>3. CASE d \in Vals(tabs, md)
      BY <2>1, <3>3
    <3>4. CASE \E v \in Writers : d = wop[v].cell
      BY <1>5, <3>4
    <3> QED BY <3>1, <3>2, <3>3, <3>4 DEF CellsOwned
  <2> QED BY <2>1, <2>2, <2>3, <2>4 DEF CellsOwned
<1>24. ReaderTypes' /\ ReaderState'
  BY <1>1, <1>2, <1>14, ReadersWhere
<1>25. ReachKept'
  BY <1>2, <1>5, <1>14, <1>15 DEF ReachKept
<1>26. GraceKept'
  <2> SUFFICES ASSUME NEW q \in Readers, NEW v \in Writers, wop'[v].pc = "wait",
                      q \notin owed[v], NEW cb \in cbs'[v]
               PROVE  /\ rd[q].tab \notin TablesOf(cb)
                      /\ Reach(tabs, rd[q]) \cap Frees(tabs', cb) = {}
    BY <1>1, <1>15 DEF GraceKept
  <2>1. v # w /\ wop[v].pc = "wait" /\ cb \in cbs[v]
    BY <1>5, <1>6
  <2>2. cb \in Removed'
    BY <1>7, <2>1, RemovedFacts DEF CbsApart
  <2> QED
    BY <1>12, <2>1, <2>2 DEF GraceKept
<1>27. SyncDue'
  BY <1>1, <1>5 DEF SyncDue
<1> QED
  BY <1>16, <1>17, <1>18, <1>19, <1>20, <1>21, <1>22, <1>23, <1>24, <1>25, <1>26, <1>27

LEMMA StutterKeeps == IInv /\ UNCHANGED vars => IInv'
<1> SUFFICES ASSUME IInv, UNCHANGED vars PROVE IInv'
  OBVIOUS
<1> USE DEF IInv, vars, dataVars, writeVars, wpd, readVars, gpVars
<1>1. Removed' = Removed
  BY DEF Removed, Pending
<1>2. DataTypes' /\ WriterTypes' /\ ReaderTypes' /\ Section'
  BY DEF DataTypes, WriterTypes, ReaderTypes, Section, InSection, Inserting
<1>3. Lockless' /\ CbsApart' /\ FreedOnce' /\ TablesOwned' /\ CellsOwned'
  BY <1>1 DEF Lockless, CbsApart, FreedOnce, TablesOwned, CellsOwned
<1>4. ReaderState' /\ ReachKept' /\ GraceKept' /\ SyncDue'
  BY DEF ReaderState, ProbeLen, ReachKept, GraceKept, SyncDue
<1> QED
  BY <1>2, <1>3, <1>4

LEMMA NextIInv == IInv /\ [Next]_vars => IInv'
<1> SUFFICES ASSUME IInv, Next PROVE IInv'
  BY StutterKeeps
<1>1. CASE \E r \in Readers : ReaderStep(r)
  BY <1>1, ReaderKeeps
<1>2. CASE \E w \in Writers : Call(w) /\ Seen
  <2>1. PICK w \in Writers : Call(w) /\ Seen
    BY <1>2
  <2>2. CASE \E k \in Keys : \E olddata \in BOOLEAN : Insert(w, k, olddata)
    BY <2>1, <2>2, InsertKeeps
  <2>3. CASE \E k \in Keys : ClearHash(w, k)
    BY <2>1, <2>3, ClearHashKeeps
  <2>4. CASE Flush(w)
    BY <2>1, <2>4, FlushKeeps
  <2> QED
    BY <2>1, <2>2, <2>3, <2>4 DEF Call
<1>3. CASE \E w \in Writers : (WriteLock(w) \/ WriteUnlock(w) \/ InCall(w)) /\ Seen
  <2>1. PICK w \in Writers : (WriteLock(w) \/ WriteUnlock(w) \/ InCall(w)) /\ Seen
    BY <1>3
  <2>2. CASE InsertDuplicate(w) \/ InsertFull(w)
    BY <2>1, <2>2, AbandonKeeps DEF InsertDuplicate, InsertFull, Full
  <2> QED
    BY <2>1, <2>2, WriteLockKeeps, WriteUnlockKeeps, ReplaceKeeps, StoreHashKeeps,
       StoreValueKeeps, GrowKeeps, ClearValueKeeps, TakeCallbacksKeeps,
       GraceBeginsKeeps, RunCallbacksKeeps
       DEF InCall
<1> QED
  BY <1>1, <1>2, <1>3 DEF Next

\* The inductive invariant holds in every state the table can reach.
THEOREM TableInvariant == Spec => []IInv
BY InitIInv, NextIInv, PTL DEF Spec

\* No reader ever uses a table or a value after it has been freed, however many
\* tables have been replaced and grace periods ended during its lookup.
THEOREM ReadersUseNothingFreed == Spec => []NoUseAfterFree
<1>1. IInv => NoUseAfterFree
  BY DEF IInv, ReaderTypes, RdType, ReaderState, ReachKept, Reach, NoUseAfterFree
<1> QED
  BY <1>1, TableInvariant, PTL

\* No callback is forgotten: some writer knows of it.
THEOREM CallbacksDue == Spec => []SyncDue
BY TableInvariant, PTL DEF IInv

LEMMA OneOrNone ==
  ASSUME NEW S, \A x, y \in S : x = y
  PROVE  Cardinality(S) = IF S = {} THEN 0 ELSE 1
<1>1. CASE S = {}
  BY <1>1, FS_EmptySet
<1>2. CASE S # {}
  <2>1. PICK x \in S : TRUE
    BY <1>2
  <2>2. S = {x}
    BY <2>1
  <2> QED BY <1>2, <2>2, FS_Singleton
<1> QED
  BY <1>1, <1>2

\* Every wrapper and every table that is allocated is in use or is freed by one
\* callback, that one writer calls if it could be queued: nothing is freed twice,
\* and nothing leaks but what there was no memory to queue the callback of.
THEOREM MemoryAccounted == Spec => []Accounted
<1>1. IInv => Accounted
  <2> SUFFICES ASSUME IInv PROVE Accounted
    OBVIOUS
  <2> USE DEF IInv
  <2>1. ASSUME NEW c \in DOMAIN cells
        PROVE  Cardinality({s \in InTable(tabs[md]) : tabs[md].ent[s].value = c})
               + Cardinality({w \in Writers : wop[w].cell = c})
               + Cardinality({cb \in Removed : c \in CellsOf(cb)}) = 1
    <3> DEFINE A == {s \in InTable(tabs[md]) : tabs[md].ent[s].value = c}
               B == {w \in Writers : wop[w].cell = c}
               D == {cb \in Removed : c \in CellsOf(cb)}
    <3>1. c # NULL
      BY KeysAssumption DEF DataTypes
    <3>2. \A x, y \in A : x = y
      BY <3>1 DEF CellsOwned, Distinct, InTable
    <3>3. \A x, y \in B : x = y
      BY <3>1 DEF Section, Inserting, InSection
    <3>4. \A x, y \in D : x = y
      BY CallbackFacts DEF FreedOnce
    <3>5. A # {} <=> c \in Vals(tabs, md)
      BY <3>1, ValsMember DEF InTable
    <3>6. D # {} <=> \E cb \in Removed : c \in Frees(tabs, cb)
      BY CallbackFacts
    <3>7. B # {} <=> \E w \in Writers : c = wop[w].cell
      OBVIOUS
    <3> HIDE DEF A, B, D
    <3>8. \/ A # {} /\ B = {} /\ D = {}
          \/ A = {} /\ B # {} /\ D = {}
          \/ A = {} /\ B = {} /\ D # {}
      BY <3>5, <3>6, <3>7 DEF CellsOwned
    <3>9. /\ Cardinality(A) = IF A = {} THEN 0 ELSE 1
          /\ Cardinality(B) = IF B = {} THEN 0 ELSE 1
          /\ Cardinality(D) = IF D = {} THEN 0 ELSE 1
      BY <3>2, <3>3, <3>4, OneOrNone
    <3> QED BY <3>8, <3>9 DEF A, B, D
  <2>2. ASSUME NEW t \in DOMAIN tabs
        PROVE  (IF md = t THEN 1 ELSE 0)
               + Cardinality({cb \in Removed : t \in TablesOf(cb)}) = 1
    <3> DEFINE D == {cb \in Removed : t \in TablesOf(cb)}
    <3>1. \A x, y \in D : x = y
      BY DEF FreedOnce
    <3>2. D # {} <=> md # t
      BY DEF TablesOwned
    <3> HIDE DEF D
    <3>3. Cardinality(D) = IF D = {} THEN 0 ELSE 1
      BY <3>1, OneOrNone
    <3> QED BY <3>2, <3>3 DEF D
  <2>3. \A v, w \in Writers : v # w => cbs[v] \cap (cbs[w] \cup cb_items) = {}
    BY DEF CbsApart
  <2>4. leaked \cap Pending = {}
    BY DEF CbsApart, Pending
  <2> QED
    BY <2>1, <2>2, <2>3, <2>4 DEF Accounted, OwnedBy
<1> QED
  BY <1>1, TableInvariant, PTL

(***************************************************************************)
(* What lookups return.  Keys are told apart if they are compared at all   *)
(* and their sizes are the same; the run of HashTableSizes shows what      *)
(* happens otherwise.                                                      *)
(***************************************************************************)
KeysTold ==
  /\ \A c \in Configs : c.collision_check
  /\ \A k, l \in Keys : KeySize[k] = KeySize[l]

\* ProbeLen, with lockless_reads as a parameter.
ProbeEnd(ll, t) == IF ll THEN t.len * NeighLen ELSE NeighLen

\* A search for hash h that has come to entry i goes on to entry j.
GoesOn(ll, t, h, i, j) ==
  /\ i <= j /\ j < ProbeEnd(ll, t)
  /\ ll => \A m \in i .. j - 1 : EntryAt(t, h, m).value # NULL

\* The entry holds a value of key k that a search for k would return.
Holds(e, C, k) == e.value # NULL /\ C[e.value] = k /\ e.hash = Hash[k]

\* Every value of t is where the search for its key comes by, with its hash
\* unless that has been cleared (the entries in B), ...
PlacedIn(ll, t, C, B) ==
  \A s \in InTable(t) :
    LET k == C[t.ent[s].value]
    IN  /\ t.ent[s].hash = IF s \in B THEN 0 ELSE Hash[k]
        /\ \E i \in Nat : GoesOn(ll, t, Hash[k], 0, i) /\ Probe(t, Hash[k], i) = s

\* ... and is the only one of its key.
OneIn(t, C) ==
  \A s, u \in InTable(t) : C[t.ent[s].value] = C[t.ent[u].value] => s = u

Unlinking == {s \in DOMAIN tabs[md].ent :
                \E w \in Writers : wop[w].pc = "unlink" /\ wop[w].slot = s}

Placed == PlacedIn(config.lockless_reads, tabs[md], cells, Unlinking)
OneEntry == OneIn(tabs[md], cells)

\* The entry s of t is ready for the value of k.
Ready(ll, t, C, k, s) ==
  /\ t.ent[s].hash = Hash[k]
  /\ \E i \in Nat : GoesOn(ll, t, Hash[k], 0, i) /\ Probe(t, Hash[k], i) = s
  /\ \A u \in InTable(t) : C[t.ent[u].value] # k

Making ==
  \A w \in Writers :
    /\ Inserting(w) => cells[wop[w].cell] = wop[w].key
    /\ wop[w].pc = "publish" =>
         Ready(config.lockless_reads, tabs[md], cells, wop[w].key, wop[w].slot)

Counted == value_count = Cardinality(Vals(tabs, md))

\* What the reader that is at d in table t looks for is still ahead of it.
Ahead(ll, t, C, d) ==
  \E j \in Nat :
    /\ GoesOn(ll, t, Hash[d.key], d.i, j)
    /\ Holds(EntryAt(t, Hash[d.key], j), C, d.key)
    /\ d.pc = "hash" /\ j = d.i => C[d.val] = d.key

\* What it may come to return its key has been mapped to (m), and so it has to
\* NULL if there is nothing ahead.
Searching(ll, t, C, d, m) ==
  /\ \A s \in InTable(t) : C[t.ent[s].value] = d.key => t.ent[s].value \in m
  /\ d.pc = "hash" => d.val # NULL /\ (C[d.val] = d.key => d.val \in m)
  /\ NULL \in m \/ Ahead(ll, t, C, d)

Searches ==
  \A r \in Readers :
    Looking(r) => Searching(config.lockless_reads, tabs[rd[r].tab], cells, rd[r], may[r])

JInv == /\ may \in [Readers -> SUBSET (Cells \cup {NULL})]
        /\ Placed /\ OneEntry /\ Making /\ Counted /\ Searches /\ GetCorrect

LEMMA ProbeEndType ==
  ASSUME NEW ll \in BOOLEAN, NEW t, IsTable(t)
  PROVE  ProbeEnd(ll, t) \in Nat
BY SizesAssumption, Product DEF ProbeEnd, IsTable

LEMMA ProbeLenIs == \A t : ProbeLen(t) = ProbeEnd(config.lockless_reads, t)
BY DEF ProbeLen, ProbeEnd

LEMMA LocklessType == config \in Configs => config.lockless_reads \in BOOLEAN
BY ConfigsAssumption

LEMMA MatchKey ==
  ASSUME KeysTold, config \in Configs, NEW c, cells[c] \in Keys, NEW k \in Keys
  PROVE  match_key(c, k) <=> cells[c] = k
BY DEF KeysTold, match_key

\* t2 is t with entry s changed.
Edited(t, t2, s) ==
  /\ t2.len = t.len
  /\ DOMAIN t.ent = Slots(t.len) /\ DOMAIN t2.ent = Slots(t.len)
  /\ \A u \in Slots(t.len) \ {s} : t2.ent[u] = t.ent[u]

LEMMA ChangedIsEdited ==
  ASSUME NEW T, NEW U, NEW m, NEW s, IsTable(T[m]), Changed(T, U, m, s)
  PROVE  Edited(T[m], U[m], s) /\ IsTable(U[m])
BY DEF Edited, Changed, IsTable

LEMMA EditedProbe ==
  ASSUME NEW t, NEW t2, NEW s, Edited(t, t2, s), NEW ll, NEW h, NEW i
  PROVE  Probe(t2, h, i) = Probe(t, h, i) /\ ProbeEnd(ll, t2) = ProbeEnd(ll, t)
BY DEF Edited, Probe, ProbeEnd

LEMMA EditedEntry ==
  ASSUME NEW t, NEW t2, NEW s, IsTable(t), Edited(t, t2, s), NEW h \in Nat, NEW i \in Nat
  PROVE  EntryAt(t2, h, i) = IF Probe(t, h, i) = s THEN t2.ent[s] ELSE EntryAt(t, h, i)
<1>1. Probe(t, h, i) \in Slots(t.len)
  BY ProbeInSlots
<1>2. Probe(t2, h, i) = Probe(t, h, i)
  BY EditedProbe
<1> QED BY <1>1, <1>2 DEF EntryAt, Edited

\* Where a search gets, it still gets if no value it passes disappears.
LEMMA StillGoesOn ==
  ASSUME NEW ll \in BOOLEAN, NEW t, NEW t2, NEW s, IsTable(t), Edited(t, t2, s),
         NEW h \in Nat, NEW i \in Nat, NEW j \in Nat, GoesOn(ll, t, h, i, j),
         ll => (t.ent[s].value # NULL => t2.ent[s].value # NULL)
  PROVE  GoesOn(ll, t2, h, i, j)
<1>1. i <= j /\ j < ProbeEnd(ll, t2)
  BY EditedProbe DEF GoesOn
<1>2. ASSUME ll, NEW m \in i .. j - 1
      PROVE  EntryAt(t2, h, m).value # NULL
  <2>1. m \in Nat /\ EntryAt(t, h, m).value # NULL
    BY <1>2 DEF GoesOn
  <2> QED
    BY <1>2, <2>1, EditedEntry DEF EntryAt
<1> QED
  BY <1>1, <1>2 DEF GoesOn
LEMMA EditedTable ==
  ASSUME NEW t, NEW t2, NEW s \in Slots(t.len), Edited(t, t2, s)
  PROVE  /\ \A u \in Slots(t.len) \ {s} : u \in InTable(t2) <=> u \in InTable(t)
         /\ s \in InTable(t2) <=> t2.ent[s].value # NULL
         /\ s \in InTable(t) <=> t.ent[s].value # NULL
         /\ InTable(t) \subseteq Slots(t.len) /\ InTable(t2) \subseteq Slots(t.len)
BY DEF InTable, Edited

\* The new entry fits in with the others, or is empty.
LEMMA EditedPlaced ==
  ASSUME NEW ll \in BOOLEAN, NEW t, NEW t2, NEW s \in Slots(t.len), IsTable(t),
         Edited(t, t2, s), NEW C, NEW B, NEW B2,
         \A u \in InTable(t) : C[t.ent[u].value] \in Keys,
         PlacedIn(ll, t, C, B),
         ll => (t.ent[s].value # NULL => t2.ent[s].value # NULL),
         \A u \in Slots(t.len) \ {s} : u \in B <=> u \in B2,
         t2.ent[s].value # NULL =>
           LET k == C[t2.ent[s].value]
           IN  /\ k \in Keys
               /\ t2.ent[s].hash = IF s \in B2 THEN 0 ELSE Hash[k]
               /\ \E i \in Nat : GoesOn(ll, t, Hash[k], 0, i) /\ Probe(t, Hash[k], i) = s
  PROVE  PlacedIn(ll, t2, C, B2)
<1> SUFFICES ASSUME NEW u \in InTable(t2)
             PROVE  LET k == C[t2.ent[u].value]
                    IN  /\ t2.ent[u].hash = IF u \in B2 THEN 0 ELSE Hash[k]
                        /\ \E i \in Nat : /\ GoesOn(ll, t2, Hash[k], 0, i)
                                          /\ Probe(t2, Hash[k], i) = u
  BY DEF PlacedIn
<1> DEFINE k == C[t2.ent[u].value]
<1>1. u \in Slots(t.len)
  BY EditedTable
<1>2. k \in Keys /\ t2.ent[u].hash = IF u \in B2 THEN 0 ELSE Hash[k]
  <2>1. CASE u = s
    BY <2>1, EditedTable
  <2>2. CASE u # s
    <3>1. u \in InTable(t) /\ t2.ent[u] = t.ent[u] /\ (u \in B <=> u \in B2)
      BY <1>1, <2>2, EditedTable DEF Edited
    <3> QED BY <3>1 DEF PlacedIn
  <2> QED BY <2>1, <2>2
<1>3. PICK i \in Nat : GoesOn(ll, t, Hash[k], 0, i) /\ Probe(t, Hash[k], i) = u
  <2>1. CASE u = s
    BY <2>1, EditedTable
  <2>2. CASE u # s
    <3>1. u \in InTable(t) /\ t2.ent[u] = t.ent[u]
      BY <1>1, <2>2, EditedTable DEF Edited
    <3> QED BY <3>1 DEF PlacedIn
  <2> QED BY <2>1, <2>2
<1>4. Hash[k] \in Nat
  BY <1>2, HashType
<1> HIDE DEF k
<1>5. GoesOn(ll, t2, Hash[k], 0, i)
  BY <1>3, <1>4, StillGoesOn
<1>6. Probe(t2, Hash[k], i) = u
  BY <1>3, EditedProbe
<1> QED
  BY <1>2, <1>5, <1>6 DEF k

LEMMA EditedOne ==
  ASSUME NEW t, NEW t2, NEW s \in Slots(t.len), Edited(t, t2, s), NEW C, OneIn(t, C),
         t2.ent[s].value # NULL =>
           \A u \in InTable(t) \ {s} : C[t.ent[u].value] # C[t2.ent[s].value]
  PROVE  OneIn(t2, C)
<1> SUFFICES ASSUME NEW u \in InTable(t2), NEW v \in InTable(t2), u # v,
                    C[t2.ent[u].value] = C[t2.ent[v].value]
             PROVE  FALSE
  BY DEF OneIn
<1>1. u \in Slots(t.len) /\ v \in Slots(t.len)
  BY EditedTable
<1>2. ASSUME NEW x \in InTable(t2), x # s
      PROVE  x \in InTable(t) /\ t2.ent[x] = t.ent[x]
  BY <1>2, EditedTable DEF Edited
<1>3. CASE u # s /\ v # s
  BY <1>2, <1>3 DEF OneIn
<1>4. CASE u = s
  BY <1>2, <1>4, EditedTable
<1>5. CASE v = s
  BY <1>2, <1>5, EditedTable
<1> QED
  BY <1>3, <1>4, <1>5

\* The same values, told by the same keys.
LEMMA SameTable ==
  ASSUME NEW t, NEW C, NEW D, \A s \in InTable(t) : D[t.ent[s].value] = C[t.ent[s].value]
  PROVE  /\ OneIn(t, C) => OneIn(t, D)
         /\ \A ll, B : PlacedIn(ll, t, C, B) => PlacedIn(ll, t, D, B)
         /\ \A ll, k, s : Ready(ll, t, C, k, s) => Ready(ll, t, D, k, s)
<1>1. OneIn(t, C) => OneIn(t, D)
  BY DEF OneIn
<1>2. \A ll, B : PlacedIn(ll, t, C, B) => PlacedIn(ll, t, D, B)
  BY DEF PlacedIn
<1>3. \A ll, k, s : Ready(ll, t, C, k, s) => Ready(ll, t, D, k, s)
  BY DEF Ready
<1> QED BY <1>1, <1>2, <1>3

(***************************************************************************)
(* Lookups.                                                                *)
(***************************************************************************)
\* Mapped, with the table as a parameter.
MappedIn(t, C, k) ==
  LET entries == {e \in {t.ent[s] : s \in DOMAIN t.ent} : e.value # NULL /\ C[e.value] = k}
  IN  {e.value : e \in entries}
        \cup (IF \E e \in entries : e.hash # 0 THEN {} ELSE {NULL})

LEMMA MappedIs ==
  /\ \A k : Mapped(k) = MappedIn(tabs[md], cells, k)
  /\ \A k : Mapped(k)' = MappedIn(tabs'[md'], cells', k)
BY DEF Mapped, MappedIn

LEMMA MappedFacts ==
  ASSUME NEW t, NEW C, NEW k
  PROVE  /\ \A s \in InTable(t) : C[t.ent[s].value] = k => t.ent[s].value \in MappedIn(t, C, k)
         /\ \/ NULL \in MappedIn(t, C, k)
            \/ \E s \in InTable(t) : C[t.ent[s].value] = k /\ t.ent[s].hash # 0
         /\ (\A s \in InTable(t) : C[t.ent[s].value] = k => t.ent[s].hash = 0) =>
              NULL \in MappedIn(t, C, k)
<1> DEFINE entries == {e \in {t.ent[s] : s \in DOMAIN t.ent} :
                         e.value # NULL /\ C[e.value] = k}
<1>1. \A s \in InTable(t) : C[t.ent[s].value] = k => t.ent[s] \in entries
  BY DEF InTable
<1>2. \A e \in entries : \E s \in InTable(t) : e = t.ent[s] /\ C[t.ent[s].value] = k
  BY DEF InTable
<1>3. MappedIn(t, C, k) = {e.value : e \in entries}
                            \cup (IF \E e \in entries : e.hash # 0 THEN {} ELSE {NULL})
  BY DEF MappedIn
<1> HIDE DEF entries
<1>4. \A s \in InTable(t) : C[t.ent[s].value] = k => t.ent[s].value \in MappedIn(t, C, k)
  BY <1>1, <1>3
<1>5. \/ NULL \in MappedIn(t, C, k)
      \/ \E e \in entries : e.hash # 0
  BY <1>3
<1>6. \/ NULL \in MappedIn(t, C, k)
      \/ \E s \in InTable(t) : C[t.ent[s].value] = k /\ t.ent[s].hash # 0
  BY <1>2, <1>5
<1> QED
  BY <1>4, <1>6

LEMMA MappedType ==
  ASSUME NEW t, IsTable(t), NEW C, NEW k
  PROVE  MappedIn(t, C, k) \subseteq Cells \cup {NULL}
BY DEF MappedIn, IsTable, Entry

\* Nothing changes where the reader is, but more may be returned.
LEMMA SearchSame ==
  ASSUME NEW ll, NEW t, NEW C, NEW D, NEW d, NEW m, NEW n, Searching(ll, t, C, d, m),
         m \subseteq n,
         \A s \in InTable(t) : D[t.ent[s].value] = C[t.ent[s].value],
         d.pc = "hash" => D[d.val] = C[d.val],
         IsTable(t), d.key \in Keys, d.i \in Nat
  PROVE  Searching(ll, t, D, d, n)
<1>1. ASSUME Ahead(ll, t, C, d)
      PROVE  Ahead(ll, t, D, d)
  <2>1. PICK j \in Nat :
          /\ GoesOn(ll, t, Hash[d.key], d.i, j)
          /\ Holds(EntryAt(t, Hash[d.key], j), C, d.key)
          /\ d.pc = "hash" /\ j = d.i => C[d.val] = d.key
    BY <1>1 DEF Ahead
  <2>2. Probe(t, Hash[d.key], j) \in DOMAIN t.ent
    BY HashType, ProbeInSlots
  <2>3. Holds(EntryAt(t, Hash[d.key], j), D, d.key)
    BY <2>1, <2>2 DEF Holds, EntryAt, InTable
  <2>4. d.pc = "hash" /\ j = d.i => D[d.val] = d.key
    BY <2>1
  <2> QED BY <2>1, <2>3, <2>4 DEF Ahead
<1>2. \A s \in InTable(t) : D[t.ent[s].value] = d.key => t.ent[s].value \in n
  BY DEF Searching
<1>3. d.pc = "hash" => d.val # NULL /\ (D[d.val] = d.key => d.val \in n)
  BY DEF Searching
<1>4. NULL \in n \/ Ahead(ll, t, D, d)
  BY <1>1 DEF Searching
<1> QED
  BY <1>2, <1>3, <1>4 DEF Searching

\* Entry s changes where the reader is.
LEMMA SearchEdited ==
  ASSUME NEW ll \in BOOLEAN, NEW t, NEW t2, NEW s \in Slots(t.len), IsTable(t),
         Edited(t, t2, s), NEW C, NEW d, NEW m, NEW n, Searching(ll, t, C, d, m),
         m \subseteq n, d.key \in Keys, d.i \in Nat,
         t2.ent[s].value # NULL /\ C[t2.ent[s].value] = d.key => t2.ent[s].value \in n,
         ll => (t.ent[s].value # NULL => t2.ent[s].value # NULL),
         Holds(t.ent[s], C, d.key) => NULL \in n \/ Holds(t2.ent[s], C, d.key)
  PROVE  Searching(ll, t2, C, d, n)
<1>1. ASSUME Ahead(ll, t, C, d), NULL \notin n
      PROVE  Ahead(ll, t2, C, d)
  <2>1. PICK j \in Nat :
          /\ GoesOn(ll, t, Hash[d.key], d.i, j)
          /\ Holds(EntryAt(t, Hash[d.key], j), C, d.key)
          /\ d.pc = "hash" /\ j = d.i => C[d.val] = d.key
    BY <1>1 DEF Ahead
  <2>2. Hash[d.key] \in Nat
    BY HashType
  <2>3. GoesOn(ll, t2, Hash[d.key], d.i, j)
    BY <2>1, <2>2, StillGoesOn
  <2>4. Holds(EntryAt(t2, Hash[d.key], j), C, d.key)
    <3>1. CASE Probe(t, Hash[d.key], j) = s
      <4>1. EntryAt(t, Hash[d.key], j) = t.ent[s]
        BY <3>1 DEF EntryAt
      <4>2. EntryAt(t2, Hash[d.key], j) = t2.ent[s]
        BY <2>2, <3>1, EditedEntry
      <4> QED BY <1>1, <2>1, <4>1, <4>2
    <3>2. CASE Probe(t, Hash[d.key], j) # s
      <4>1. EntryAt(t2, Hash[d.key], j) = EntryAt(t, Hash[d.key], j)
        BY <2>2, <3>2, EditedEntry
      <4> QED BY <2>1, <4>1
    <3> QED BY <3>1, <3>2
  <2> QED BY <2>1, <2>3, <2>4 DEF Ahead
<1>2. ASSUME NEW u \in InTable(t2), C[t2.ent[u].value] = d.key
      PROVE  t2.ent[u].value \in n
  <2>1. CASE u = s
    BY <1>2, <2>1, EditedTable
  <2>2. CASE u # s
    <3>1. u \in InTable(t) /\ t2.ent[u] = t.ent[u]
      BY <2>2, EditedTable DEF Edited
    <3> QED BY <1>2, <3>1 DEF Searching
  <2> QED BY <2>1, <2>2
<1>3. d.pc = "hash" => d.val # NULL /\ (C[d.val] = d.key => d.val \in n)
  BY DEF Searching
<1>4. NULL \in n \/ Ahead(ll, t2, C, d)
  BY <1>1 DEF Searching
<1> QED
  BY <1>2, <1>3, <1>4 DEF Searching

\* The entry the reader is at is not the one.
LEMMA SearchPast ==
  ASSUME NEW ll \in BOOLEAN, NEW t, IsTable(t), NEW C, NEW d, NEW m,
         Searching(ll, t, C, d, m), d.i \in Nat,
         ~(Holds(EntryAt(t, Hash[d.key], d.i), C, d.key)
             /\ (d.pc = "hash" => C[d.val] = d.key))
  PROVE  /\ d.i + 1 >= ProbeEnd(ll, t) => NULL \in m
         /\ ll /\ EntryAt(t, Hash[d.key], d.i).value = NULL => NULL \in m
         /\ \A e : e.key = d.key /\ e.i = d.i + 1 /\ e.pc = "load" =>
              Searching(ll, t, C, e, m)
<1>0. ProbeEnd(ll, t) \in Nat
  BY ProbeEndType
<1>1. CASE NULL \in m
  <2>1. \A e : e.key = d.key /\ e.i = d.i + 1 /\ e.pc = "load" =>
          Searching(ll, t, C, e, m)
    BY <1>1 DEF Searching
  <2> QED BY <1>1, <2>1
<1>2. CASE NULL \notin m
  <2>1. PICK j \in Nat :
          /\ GoesOn(ll, t, Hash[d.key], d.i, j)
          /\ Holds(EntryAt(t, Hash[d.key], j), C, d.key)
          /\ d.pc = "hash" /\ j = d.i => C[d.val] = d.key
    BY <1>2 DEF Ahead, Searching
  <2>2. j # d.i
    BY <2>1
  <2>3. d.i + 1 <= j /\ j < ProbeEnd(ll, t)
    BY <2>1, <2>2 DEF GoesOn
  <2>4. ~(ll /\ EntryAt(t, Hash[d.key], d.i).value = NULL)
    <3>1. d.i \in d.i .. j - 1
      BY <2>3
    <3> QED BY <2>1, <3>1 DEF GoesOn
  <2>5. GoesOn(ll, t, Hash[d.key], d.i + 1, j)
    BY <2>1, <2>3 DEF GoesOn
  <2>6. ASSUME NEW e, e.key = d.key, e.i = d.i + 1, e.pc = "load"
        PROVE  Searching(ll, t, C, e, m)
    <3>1. Ahead(ll, t, C, e)
      BY <2>1, <2>5, <2>6 DEF Ahead
    <3> QED BY <2>6, <3>1 DEF Searching
  <2> QED
    BY <1>0, <2>3, <2>4, <2>6
<1> QED
  BY <1>1, <1>2

(***************************************************************************)
(* Steps that leave the published table as it is.                          *)
(***************************************************************************)
LEMMA TableKept ==
  ASSUME IInv, JInv, IInv', config' = config, tabs'[md'] = tabs[md],
         \A c \in DOMAIN cells \cap DOMAIN cells' : cells'[c] = cells[c],
         value_count' = value_count,
         \A w \in Writers :
           \/ wop'[w] = wop[w]
           \/ /\ wop[w].pc # "unlink" /\ wop'[w].pc \notin {"unlink", "publish"}
              /\ wop'[w].pc = "insert" => cells'[wop'[w].cell] = wop'[w].key
  PROVE  Placed' /\ OneEntry' /\ Making' /\ Counted'
<1> DEFINE t == tabs[md]
           ll == config.lockless_reads
<1>1. \A s \in InTable(t) : cells'[t.ent[s].value] = cells[t.ent[s].value]
  <2> SUFFICES ASSUME NEW s \in InTable(t)
               PROVE  cells'[t.ent[s].value] = cells[t.ent[s].value]
    OBVIOUS
  <2>1. t.ent[s].value \in Vals(tabs, md) /\ t.ent[s].value \in Vals(tabs', md')
    BY DEF InTable, Vals
  <2>2. Vals(tabs, md) \subseteq DOMAIN cells
    BY DEF IInv, CellsOwned
  <2>3. Vals(tabs', md') \subseteq DOMAIN cells'
    BY DEF IInv, CellsOwned
  <2> QED BY <2>1, <2>2, <2>3
<1>2. OneEntry'
  BY <1>1, SameTable DEF JInv, OneEntry
<1>3. Unlinking' = Unlinking
  BY DEF Unlinking
<1>4. Placed'
  <2>1. PlacedIn(ll, t, cells, Unlinking)
    BY DEF JInv, Placed
  <2>2. PlacedIn(ll, t, cells', Unlinking)
    BY <1>1, <2>1, SameTable
  <2> QED BY <1>3, <2>2 DEF Placed
<1>5. Making'
  <2> SUFFICES ASSUME NEW w \in Writers
               PROVE  /\ Inserting(w)' => cells'[wop'[w].cell] = wop'[w].key
                      /\ wop'[w].pc = "publish" =>
                           Ready(ll, t, cells', wop'[w].key, wop'[w].slot)
    BY DEF Making
  <2>1. CASE wop'[w] = wop[w]
    <3>1. Inserting(w) => wop[w].cell \in DOMAIN cells
      BY DEF IInv, Section
    <3>2. Inserting(w)' => wop'[w].cell \in DOMAIN cells'
      BY DEF IInv, Section
    <3>3. Inserting(w)' => cells'[wop'[w].cell] = wop'[w].key
      BY <2>1, <3>1, <3>2 DEF Inserting, JInv, Making
    <3>4. wop[w].pc = "publish" => Ready(ll, t, cells, wop[w].key, wop[w].slot)
      BY DEF JInv, Making
    <3>5. wop[w].pc = "publish" => Ready(ll, t, cells', wop[w].key, wop[w].slot)
      BY <1>1, <3>4, SameTable
    <3> QED BY <2>1, <3>3, <3>5
  <2>2. CASE wop'[w] # wop[w]
    BY <2>2 DEF Inserting
  <2> QED BY <2>1, <2>2
<1>6. Counted'
  <2>1. Vals(tabs', md') = Vals(tabs, md)
    BY DEF Vals
  <2> QED BY <2>1 DEF JInv, Counted
<1> QED
  BY <1>2, <1>4, <1>5, <1>6

\* A step of a writer that leaves the table of every reader as it is.
LEMMA SearchesKept ==
  ASSUME IInv, JInv, IInv', Seen,
         \A r \in Readers : Looking(r) => tabs'[rd[r].tab] = tabs[rd[r].tab],
         \A c \in DOMAIN cells \cap DOMAIN cells' : cells'[c] = cells[c]
  PROVE  Searches'
<1> DEFINE ll == config.lockless_reads
<1> SUFFICES ASSUME NEW r \in Readers, Looking(r)
             PROVE  Searching(ll, tabs[rd[r].tab], cells', rd[r], may'[r])
  BY DEF Searches, Looking, Seen
<1> DEFINE t == tabs[rd[r].tab]
<1>1. /\ rd[r].tab \in DOMAIN tabs /\ rd[r].tab # NULL /\ rd[r].key \in Keys
      /\ IsTable(t) /\ rd[r].i \in Nat
  BY KeysAssumption DEF IInv, ReaderState, DataTypes, Looking, ReaderTypes, RdType
<1>2. may[r] \subseteq may'[r]
  BY DEF Seen
<1>3. Reach(tabs, rd[r]) \subseteq DOMAIN cells \cap DOMAIN cells'
  <2>1. Reach(tabs', rd'[r]) = Reach(tabs, rd[r])
    BY DEF Reach, Vals, Seen
  <2>2. Reach(tabs', rd'[r]) \subseteq DOMAIN cells'
    BY DEF IInv, ReachKept
  <2>3. Reach(tabs, rd[r]) \subseteq DOMAIN cells
    BY DEF IInv, ReachKept
  <2> QED BY <2>1, <2>2, <2>3
<1>4. \A s \in InTable(t) : cells'[t.ent[s].value] = cells[t.ent[s].value]
  BY <1>1, <1>3 DEF InTable, Reach, Vals
<1>5. Searching(ll, t, cells, rd[r], may[r])
  BY DEF JInv, Searches
<1>6. rd[r].pc = "hash" => cells'[rd[r].val] = cells[rd[r].val]
  <2>1. rd[r].pc = "hash" => rd[r].val # NULL
    BY <1>5 DEF Searching
  <2> QED BY <1>3, <2>1 DEF Reach
<1> HIDE DEF t, ll
<1>7. Searching(ll, t, cells', rd[r], may'[r])
  BY <1>1, <1>2, <1>4, <1>5, <1>6, SearchSame
<1> QED BY <1>7 DEF t, ll

\* What a writer's step adds to what lookups may return.
LEMMA SeenFacts ==
  ASSUME IInv, JInv, IInv', Seen
  PROVE  /\ may' \in [Readers -> SUBSET (Cells \cup {NULL})]
         /\ GetCorrect'
         /\ \A r \in Readers : may[r] \subseteq may'[r]
         /\ \A r \in Readers :
              Looking(r) => MappedIn(tabs'[md'], cells', rd[r].key) \subseteq may'[r]
<1>1. \A k : Mapped(k)' \subseteq Cells \cup {NULL}
  <2>1. IsTable(tabs'[md'])
    BY DEF IInv, DataTypes
  <2> QED BY <2>1, MappedIs, MappedType
<1>2. \A r \in Readers : may'[r] = IF Looking(r) THEN may[r] \cup Mapped(rd[r].key)' ELSE may[r]
  BY DEF Seen
<1>3. may' \in [Readers -> SUBSET (Cells \cup {NULL})]
  BY <1>1, <1>2 DEF Seen, JInv
<1>4. \A r \in Readers : may[r] \subseteq may'[r]
  BY <1>2
<1>5. GetCorrect'
  BY <1>4 DEF GetCorrect, JInv, Seen
<1>6. \A r \in Readers :
        Looking(r) => MappedIn(tabs'[md'], cells', rd[r].key) \subseteq may'[r]
  <2>1. rd' = rd
    BY DEF Seen
  <2>2. \A k : Mapped(k)' = MappedIn(tabs'[md'], cells', k)
    BY MappedIs
  <2>3. ASSUME NEW r \in Readers
        PROVE  Mapped(rd[r].key)' = MappedIn(tabs'[md'], cells', rd'[r].key)
    BY <2>2 DEF Mapped, MappedIn
  <2> QED BY <1>2, <2>1, <2>3
<1> QED BY <1>3, <1>4, <1>5, <1>6

LEMMA WriterKeepsTable ==
  ASSUME IInv, JInv, IInv', Seen, md' = md,
         \A t \in DOMAIN tabs' : tabs'[t] = tabs[t],
         \A c \in DOMAIN cells \cap DOMAIN cells' : cells'[c] = cells[c],
         value_count' = value_count,
         \A w \in Writers :
           \/ wop'[w] = wop[w]
           \/ /\ wop[w].pc # "unlink" /\ wop'[w].pc \notin {"unlink", "publish"}
              /\ wop'[w].pc = "insert" => cells'[wop'[w].cell] = wop'[w].key
  PROVE  JInv'
<1>1. config' = config /\ rd' = rd
  BY DEF Seen
<1>2. md' \in DOMAIN tabs'
  BY DEF IInv, DataTypes
<1>3. \A r \in Readers : Looking(r) => rd[r].tab \in DOMAIN tabs'
  <2>1. \A r \in Readers : /\ rd'[r].tab \in DOMAIN tabs' \cup {NULL}
                           /\ rd'[r].pc \in {"load", "hash"} => rd'[r].tab # NULL
    BY DEF IInv, ReaderState
  <2> QED BY <1>1, <2>1 DEF Looking
<1>4. \A r \in Readers : Looking(r) => tabs'[rd[r].tab] = tabs[rd[r].tab]
  BY <1>3
<1>5. Placed' /\ OneEntry' /\ Making' /\ Counted'
  BY <1>1, <1>2, TableKept
<1>6. Searches'
  BY <1>4, SearchesKept
<1> QED
  BY <1>5, <1>6, SeenFacts DEF JInv

LEMMA GoToFacts ==
  ASSUME IInv, NEW w \in Writers, NEW pc, GoTo(w, pc)
  PROVE  wop'[w].pc = pc /\ \A v \in Writers : v # w => wop'[v] = wop[v]
<1>1. wop \in [Writers -> WopType]
  BY DEF IInv, WriterTypes
<1>2. wop' = [wop EXCEPT ![w].pc = pc]
  BY DEF GoTo
<1>3. \A x \in WopType : [x EXCEPT !.pc = pc].pc = pc
  BY DEF WopType
<1> QED
  BY <1>1, <1>2, <1>3

LEMMA LockJ ==
  ASSUME IInv, JInv, IInv', Seen, NEW w \in Writers, WriteLock(w) \/ WriteUnlock(w)
  PROVE  JInv'
<1>1. \A v \in Writers : v # w => wop'[v] = wop[v]
  BY GoToFacts DEF WriteLock, WriteUnlock
<1>2. wop[w].pc # "unlink" /\ wop'[w].pc \notin {"unlink", "publish", "insert"}
  BY GoToFacts DEF WriteLock, WriteUnlock
<1>3. UNCHANGED <<md, tabs, cells, value_count>>
  BY DEF WriteLock, WriteUnlock, dataVars
<1>4. \A v \in Writers :
        \/ wop'[v] = wop[v]
        \/ /\ wop[v].pc # "unlink" /\ wop'[v].pc \notin {"unlink", "publish"}
           /\ wop'[v].pc = "insert" => cells'[wop'[v].cell] = wop'[v].key
  BY <1>1, <1>2
<1> QED
  BY <1>3, <1>4, WriterKeepsTable

LEMMA SynchronizeJ ==
  ASSUME IInv, JInv, IInv', Seen, NEW w \in Writers,
         TakeCallbacks(w) \/ GraceBegins(w) \/ RunCallbacks(w)
  PROVE  JInv'
<1>1. \A v \in Writers : v # w => wop'[v] = wop[v]
  BY GoToFacts DEF TakeCallbacks, GraceBegins, RunCallbacks
<1>2. wop[w].pc # "unlink" /\ wop'[w].pc \notin {"unlink", "publish", "insert"}
  BY GoToFacts DEF TakeCallbacks, GraceBegins, RunCallbacks
<1>3. UNCHANGED <<md, value_count>>
  BY DEF TakeCallbacks, GraceBegins, RunCallbacks, dataVars, wpd
<1>4. /\ \A t \in DOMAIN tabs' : tabs'[t] = tabs[t]
      /\ \A c \in DOMAIN cells \cap DOMAIN cells' : cells'[c] = cells[c]
  BY DEF TakeCallbacks, GraceBegins, RunCallbacks, dataVars
<1>5. \A v \in Writers :
        \/ wop'[v] = wop[v]
        \/ /\ wop[v].pc # "unlink" /\ wop'[v].pc \notin {"unlink", "publish"}
           /\ wop'[v].pc = "insert" => cells'[wop'[v].cell] = wop'[v].key
  BY <1>1, <1>2
<1> QED
  BY <1>3, <1>4, <1>5, WriterKeepsTable

LEMMA AbandonJ ==
  ASSUME IInv, JInv, IInv', Seen, NEW w \in Writers, wop[w].pc = "insert", Abandon(w)
  PROVE  JInv'
<1>1. \A v \in Writers : v # w => wop'[v] = wop[v]
  BY DoneFacts DEF Abandon
<1>2. wop'[w].pc = "locked"
  BY DoneFacts DEF Abandon
<1>3. UNCHANGED <<md, tabs, value_count>>
  BY DEF Abandon, wpd
<1>4. \A c \in DOMAIN cells \cap DOMAIN cells' : cells'[c] = cells[c]
  BY DEF Abandon
<1>5. \A v \in Writers :
        \/ wop'[v] = wop[v]
        \/ /\ wop[v].pc # "unlink" /\ wop'[v].pc \notin {"unlink", "publish"}
           /\ wop'[v].pc = "insert" => cells'[wop'[v].cell] = wop'[v].key
  BY <1>1, <1>2
<1> QED
  BY <1>3, <1>4, <1>5, WriterKeepsTable

LEMMA InsertJ ==
  ASSUME IInv, JInv, IInv', Seen, NEW w \in Writers, NEW k \in Keys,
         NEW olddata \in BOOLEAN, Insert(w, k, olddata)
  PROVE  JInv'
<1> DEFINE c == Unused(Cells, cells)
<1>0. wop \in [Writers -> WopType] /\ DOMAIN cells \subseteq Cells
  BY DEF IInv, WriterTypes, DataTypes
<1>1. c \notin DOMAIN cells
  BY <1>0, UnusedFacts DEF Insert
<1>2. /\ cells' = [d \in DOMAIN cells \cup {c} |-> IF d = c THEN k ELSE cells[d]]
      /\ wop' = [wop EXCEPT ![w] = [pc |-> "insert", key |-> k, cell |-> c,
                                    olddata |-> olddata, tries |-> 0, slot |-> NULL]]
      /\ wop[w].pc = "locked"
      /\ UNCHANGED <<md, tabs, value_count>>
  BY DEF Insert, wpd
<1> HIDE DEF c
<1>3. \A v \in Writers : v # w => wop'[v] = wop[v]
  BY <1>0, <1>2
<1>4. wop'[w].pc = "insert" /\ wop'[w].cell = c /\ wop'[w].key = k
  BY <1>0, <1>2
<1>5. cells'[c] = k /\ \A d \in DOMAIN cells \cap DOMAIN cells' : cells'[d] = cells[d]
  BY <1>1, <1>2
<1>6. \A v \in Writers :
        \/ wop'[v] = wop[v]
        \/ /\ wop[v].pc # "unlink" /\ wop'[v].pc \notin {"unlink", "publish"}
           /\ wop'[v].pc = "insert" => cells'[wop'[v].cell] = wop'[v].key
  BY <1>2, <1>3, <1>4, <1>5
<1> QED
  BY <1>2, <1>5, <1>6, WriterKeepsTable

(***************************************************************************)
(* Steps that change one entry of the published table.                     *)
(***************************************************************************)
LEMMA SearchesEdited ==
  ASSUME IInv, JInv, IInv', Seen, NEW s \in Slots(tabs[md].len),
         Changed(tabs, tabs', md, s), md' = md, cells' = cells,
         config.lockless_reads =>
           (tabs[md].ent[s].value # NULL => tabs'[md].ent[s].value # NULL),
         \A k \in Keys : Holds(tabs[md].ent[s], cells, k) =>
           Holds(tabs'[md].ent[s], cells, k) \/ NULL \in MappedIn(tabs'[md], cells, k)
  PROVE  Searches'
<1> DEFINE ll == config.lockless_reads
<1> SUFFICES ASSUME NEW r \in Readers, Looking(r)
             PROVE  Searching(ll, tabs'[rd[r].tab], cells, rd[r], may'[r])
  BY DEF Searches, Looking, Seen
<1>1. /\ rd[r].tab \in DOMAIN tabs /\ rd[r].key \in Keys
      /\ IsTable(tabs[rd[r].tab]) /\ rd[r].i \in Nat
  BY KeysAssumption DEF IInv, ReaderState, DataTypes, Looking, ReaderTypes, RdType
<1>2. may[r] \subseteq may'[r] /\ MappedIn(tabs'[md], cells, rd[r].key) \subseteq may'[r]
  BY SeenFacts
<1>3. Searching(ll, tabs[rd[r].tab], cells, rd[r], may[r])
  BY DEF JInv, Searches
<1>4. ll \in BOOLEAN
  BY LocklessType DEF IInv, DataTypes
<1> HIDE DEF ll
<1>5. CASE rd[r].tab # md
  <2>1. tabs'[rd[r].tab] = tabs[rd[r].tab]
    BY <1>1, <1>5 DEF Changed
  <2>2. Searching(ll, tabs[rd[r].tab], cells, rd[r], may'[r])
    BY <1>1, <1>2, <1>3, SearchSame
  <2> QED BY <2>1, <2>2
<1>6. CASE rd[r].tab = md
  <2>1. Edited(tabs[md], tabs'[md], s)
    BY <1>1, <1>6, ChangedIsEdited
  <2>2. tabs'[md].ent[s].value # NULL /\ cells[tabs'[md].ent[s].value] = rd[r].key =>
          tabs'[md].ent[s].value \in may'[r]
    <3>1. s \in DOMAIN tabs'[md].ent
      BY <2>1 DEF Edited
    <3> QED BY <1>2, <3>1, MappedFacts DEF InTable
  <2>3. Holds(tabs[md].ent[s], cells, rd[r].key) =>
          NULL \in may'[r] \/ Holds(tabs'[md].ent[s], cells, rd[r].key)
    BY <1>1, <1>2
  <2>4. /\ IsTable(tabs[md])
        /\ Searching(ll, tabs[md], cells, rd[r], may[r])
        /\ ll => (tabs[md].ent[s].value # NULL => tabs'[md].ent[s].value # NULL)
    BY <1>1, <1>3, <1>6 DEF ll
  <2>5. Searching(ll, tabs'[md], cells, rd[r], may'[r])
    BY <1>1, <1>2, <1>4, <2>1, <2>2, <2>3, <2>4, SearchEdited
  <2> QED BY <1>6, <2>5
<1> QED
  BY <1>5, <1>6 DEF ll

LEMMA InSectionAlone ==
  ASSUME IInv, NEW w \in Writers, InSection(w)
  PROVE  /\ \A v \in Writers \ {w} : wop[v].pc \notin {"locked", "insert", "publish", "unlink"}
         /\ wop[w].pc # "unlink" => Unlinking = {}
         /\ wop[w].pc = "unlink" => Unlinking = {wop[w].slot}
<1>1. \A v \in Writers \ {w} : wop[v].pc \notin {"locked", "insert", "publish", "unlink"}
  BY OneWriter DEF InSection
<1>2. wop[w].pc # "unlink" => Unlinking = {}
  BY <1>1 DEF Unlinking
<1>3. wop[w].pc = "unlink" => Unlinking = {wop[w].slot}
  <2>1. wop[w].pc = "unlink" => wop[w].slot \in DOMAIN tabs[md].ent
    BY DEF IInv, Section, DataTypes, IsTable
  <2> QED BY <1>1, <2>1 DEF Unlinking
<1> QED BY <1>1, <1>2, <1>3

\* Every value of the published table has a key.
LEMMA TableKeys ==
  ASSUME IInv
  PROVE  /\ \A s \in InTable(tabs[md]) : /\ tabs[md].ent[s].value \in Vals(tabs, md)
                                         /\ cells[tabs[md].ent[s].value] \in Keys
         /\ IsTable(tabs[md]) /\ DOMAIN tabs[md].ent = Slots(tabs[md].len)
         /\ config.lockless_reads \in BOOLEAN
<1>1. Vals(tabs, md) \subseteq DOMAIN cells /\ \A c \in DOMAIN cells : cells[c] \in Keys
  BY DEF IInv, CellsOwned, DataTypes
<1>2. \A s \in InTable(tabs[md]) : tabs[md].ent[s].value \in Vals(tabs, md)
  BY DEF InTable, Vals
<1>3. IsTable(tabs[md]) /\ DOMAIN tabs[md].ent = Slots(tabs[md].len)
  BY DEF IInv, DataTypes, IsTable
<1>4. config.lockless_reads \in BOOLEAN
  BY LocklessType DEF IInv, DataTypes
<1> QED BY <1>1, <1>2, <1>3, <1>4

\* What a search for k comes across is all there is of k.
LEMMA PresentFacts ==
  ASSUME KeysTold, IInv, JInv, Unlinking = {}, NEW k \in Keys,
         NEW s \in InTable(tabs[md]), cells[tabs[md].ent[s].value] = k
  PROVE  \E i \in Present(k) : Probe(tabs[md], Hash[k], i) = s
<1> DEFINE t == tabs[md]
           ll == config.lockless_reads
<1>1. /\ t.ent[s].hash = Hash[k]
      /\ \E i \in Nat : GoesOn(ll, t, Hash[k], 0, i) /\ Probe(t, Hash[k], i) = s
  BY DEF JInv, Placed, PlacedIn
<1>2. PICK i \in Nat : GoesOn(ll, t, Hash[k], 0, i) /\ Probe(t, Hash[k], i) = s
  BY <1>1
<1>3. EntryAt(t, Hash[k], i) = t.ent[s] /\ t.ent[s].value # NULL
  BY <1>2 DEF EntryAt, InTable
<1>4. match_key(t.ent[s].value, k)
  BY MatchKey, TableKeys DEF IInv, DataTypes
<1>5. ProbeLen(t) = ProbeEnd(ll, t) /\ ProbeEnd(ll, t) \in Nat
  BY ProbeLenIs, ProbeEndType, TableKeys
<1>6. i \in 0 .. ProbeLen(t) - 1
  BY <1>2, <1>5 DEF GoesOn
<1>7. i \in Matches(t, k)
  BY <1>1, <1>3, <1>4, <1>6 DEF Matches
<1>8. Before(t, k, i)
  <2> SUFFICES ASSUME ll, NEW j \in Vacant(t, k)
               PROVE  i < j
    BY DEF Before
  <2>1. j \in Nat /\ EntryAt(t, Hash[k], j).value = NULL
    BY <1>5 DEF Vacant
  <2>2. j \notin 0 .. i - 1
    BY <1>2, <2>1 DEF GoesOn
  <2>3. j # i
    BY <1>3, <2>1
  <2> QED BY <2>1, <2>2, <2>3
<1> QED
  BY <1>2, <1>7, <1>8 DEF Present

LEMMA EditedJ ==
  ASSUME IInv, JInv, IInv', Seen, NEW w \in Writers, InSection(w),
         \A v \in Writers \ {w} : wop'[v] = wop[v],
         NEW s \in Slots(tabs[md].len), Changed(tabs, tabs', md, s), md' = md,
         cells' = cells,
         wop[w].pc = "unlink" => wop[w].slot = s,
         wop'[w].pc = "unlink" => wop'[w].slot = s,
         config.lockless_reads =>
           (tabs[md].ent[s].value # NULL => tabs'[md].ent[s].value # NULL),
         \A k \in Keys : Holds(tabs[md].ent[s], cells, k) =>
           Holds(tabs'[md].ent[s], cells, k) \/ NULL \in MappedIn(tabs'[md], cells, k),
         tabs'[md].ent[s].value # NULL =>
           LET k == cells[tabs'[md].ent[s].value]
           IN  /\ k \in Keys
               /\ tabs'[md].ent[s].hash = IF wop'[w].pc = "unlink" THEN 0 ELSE Hash[k]
               /\ \E i \in Nat : /\ GoesOn(config.lockless_reads, tabs[md], Hash[k], 0, i)
                                 /\ Probe(tabs[md], Hash[k], i) = s
               /\ \A u \in InTable(tabs[md]) \ {s} : cells[tabs[md].ent[u].value] # k
  PROVE  /\ may' \in [Readers -> SUBSET (Cells \cup {NULL})]
         /\ Placed' /\ OneEntry' /\ Searches' /\ GetCorrect'
<1> DEFINE t == tabs[md]
           t2 == tabs'[md]
           ll == config.lockless_reads
           B == Unlinking
           B2 == Unlinking'
<1>1. /\ may' \in [Readers -> SUBSET (Cells \cup {NULL})] /\ GetCorrect'
  BY SeenFacts
<1>2. Searches'
  BY SearchesEdited
<1>3. IsTable(t) /\ Edited(t, t2, s) /\ ll \in BOOLEAN
  BY TableKeys, ChangedIsEdited
<1>4. \A v \in Writers \ {w} : wop[v].pc # "unlink"
  BY InSectionAlone
<1>5. DOMAIN t2.ent = Slots(t.len)
  BY <1>3 DEF Edited
<1>6. B2 = IF wop'[w].pc = "unlink" THEN {s} ELSE {}
  BY <1>4, <1>5 DEF Unlinking
<1>7. \A u \in Slots(t.len) \ {s} : u \in B <=> u \in B2
  <2>1. B \subseteq {s}
    BY <1>4 DEF Unlinking
  <2> QED BY <1>6, <2>1
<1>8. /\ \A u \in InTable(t) : cells[t.ent[u].value] \in Keys
      /\ PlacedIn(ll, t, cells, B) /\ OneIn(t, cells)
  BY TableKeys DEF JInv, Placed, OneEntry
<1>9. t2.ent[s].value # NULL =>
        LET k == cells[t2.ent[s].value]
        IN  /\ k \in Keys
            /\ t2.ent[s].hash = IF s \in B2 THEN 0 ELSE Hash[k]
            /\ \E i \in Nat : GoesOn(ll, t, Hash[k], 0, i) /\ Probe(t, Hash[k], i) = s
  BY <1>6
<1>10. t2.ent[s].value # NULL =>
         \A u \in InTable(t) \ {s} : cells[t.ent[u].value] # cells[t2.ent[s].value]
  OBVIOUS
<1>11. ll => (t.ent[s].value # NULL => t2.ent[s].value # NULL)
  OBVIOUS
<1>12. Placed' <=> PlacedIn(ll, t2, cells, B2)
  BY DEF Placed, Seen
<1>13. OneEntry' <=> OneIn(t2, cells)
  BY DEF OneEntry
<1> HIDE DEF t, t2, ll, B, B2
<1>14. s \in Slots(t.len)
  BY DEF t
<1>15. PlacedIn(ll, t2, cells, B2)
  BY <1>3, <1>7, <1>8, <1>9, <1>11, <1>14, EditedPlaced
<1>16. OneIn(t2, cells)
  BY <1>3, <1>8, <1>10, <1>14, EditedOne
<1> QED
  BY <1>1, <1>2, <1>12, <1>13, <1>15, <1>16

LEMMA ValsFinite == ASSUME IInv PROVE IsFiniteSet(Vals(tabs, md))
<1> DEFINE S == DOMAIN tabs[md].ent
           f == [s \in S |-> tabs[md].ent[s].value]
           V == {tabs[md].ent[s].value : s \in S}
<1>1. IsFiniteSet(S)
  BY SlotsFinite, TableKeys DEF IsTable
<1>2. f \in Surjection(S, V)
  BY DEF Surjection
<1> HIDE DEF f, S
<1>3. IsFiniteSet(V)
  BY <1>1, <1>2, FS_Surjection
<1>4. Vals(tabs, md) \in SUBSET V
  BY DEF Vals, S
<1> HIDE DEF V
<1> QED BY <1>3, <1>4, FS_Subset

LEMMA StoreHashFacts ==
  ASSUME KeysTold, IInv, JInv, NEW w \in Writers, StoreHash(w)
  PROVE  LET k == wop[w].key
         IN  /\ k \in Keys
             /\ \E s \in Slots(tabs[md].len) :
                  /\ Changed(tabs, tabs', md, s)
                  /\ tabs[md].ent[s].value = NULL /\ tabs'[md].ent[s].value = NULL
                  /\ tabs'[md].ent[s].hash = Hash[k]
                  /\ \E i \in Nat : /\ GoesOn(config.lockless_reads, tabs[md], Hash[k], 0, i)
                                    /\ Probe(tabs[md], Hash[k], i) = s
                  /\ wop'[w].pc = "publish" /\ wop'[w].slot = s
                  /\ wop'[w].key = k /\ wop'[w].cell = wop[w].cell
                  /\ \A v \in Writers \ {w} : wop'[v] = wop[v]
<1> DEFINE k == wop[w].key
           t == tabs[md]
           ll == config.lockless_reads
<1>1. wop[w].pc = "insert" /\ Inserting(w)
  BY DEF StoreHash, Inserting
<1>2. /\ md \in DOMAIN tabs /\ IsTable(t) /\ k \in Keys
      /\ tabs = [u \in DOMAIN tabs |-> tabs[u]] /\ ll \in BOOLEAN
  BY <1>1, TableKeys DEF IInv, DataTypes, Section
<1>3. PICK i \in Vacant(t, k) :
        /\ \A j \in Vacant(t, k) : IF ll THEN i <= j ELSE i >= j
        /\ LET s == Probe(t, Hash[k], i)
           IN  /\ tabs' = [tabs EXCEPT ![md].ent[s].hash = Hash[k]]
               /\ wop' = [wop EXCEPT ![w].pc = "publish", ![w].slot = s]
  BY DEF StoreHash
<1> DEFINE s == Probe(t, Hash[k], i)
<1>4. ProbeLen(t) = ProbeEnd(ll, t) /\ ProbeEnd(ll, t) \in Nat
  BY <1>2, ProbeLenIs, ProbeEndType
<1>5. i \in Nat /\ i < ProbeEnd(ll, t) /\ t.ent[s].value = NULL
  BY <1>3, <1>4 DEF Vacant, EntryAt
<1>6. s \in Slots(t.len)
  BY <1>2, <1>5, ProbeInSlots, HashType
<1>7. GoesOn(ll, t, Hash[k], 0, i)
  <2>1. ASSUME ll, NEW j \in 0 .. i - 1
        PROVE  EntryAt(t, Hash[k], j).value # NULL
    <3> HIDE DEF t, ll, s, k
    <3>1. j \in 0 .. ProbeLen(t) - 1 /\ ~(i <= j)
      BY <1>4, <1>5
    <3>2. j \notin Vacant(t, k)
      BY <1>3, <2>1, <3>1
    <3> QED BY <3>1, <3>2 DEF Vacant
  <2> QED BY <1>5, <2>1 DEF GoesOn
<1> HIDE DEF s, k, t, ll
<1>8. /\ Changed(tabs, tabs', md, s)
      /\ tabs'[md].ent[s].value = NULL /\ tabs'[md].ent[s].hash = Hash[k]
  <2>1. tabs' = WithHash(tabs, md, s, Hash[k])
    BY <1>3 DEF s, WithHash
  <2>2. Hash[k] \in {0} \cup {Hash[kk] : kk \in Keys}
    BY <1>2
  <2> QED
    BY <1>2, <1>5, <1>6, <2>1, <2>2, ChangeHash DEF t
<1>9. /\ wop'[w].pc = "publish" /\ wop'[w].slot = s
      /\ wop'[w].key = k /\ wop'[w].cell = wop[w].cell
      /\ \A v \in Writers \ {w} : wop'[v] = wop[v]
  <2>1. wop' = [wop EXCEPT ![w].pc = "publish", ![w].slot = s]
    BY <1>3 DEF s
  <2>2. wop \in [Writers -> WopType]
    BY DEF IInv, WriterTypes
  <2> QED
    BY <2>1, <2>2 DEF WopType, k
<1> QED
  BY <1>2, <1>5, <1>6, <1>7, <1>8, <1>9 DEF s, k, t, ll

LEMMA StoreHashJ ==
  ASSUME KeysTold, IInv, JInv, IInv', Seen, NEW w \in Writers, StoreHash(w)
  PROVE  JInv'
<1> DEFINE k == wop[w].key
           ll == config.lockless_reads
<1>1. /\ wop[w].pc = "insert" /\ Inserting(w) /\ InSection(w) /\ Present(k) = {}
      /\ UNCHANGED <<md, cells, value_count>>
  BY DEF StoreHash, Inserting, InSection, wpd
<1>2. PICK s \in Slots(tabs[md].len) :
        /\ Changed(tabs, tabs', md, s)
        /\ tabs[md].ent[s].value = NULL /\ tabs'[md].ent[s].value = NULL
        /\ tabs'[md].ent[s].hash = Hash[k]
        /\ \E i \in Nat : GoesOn(ll, tabs[md], Hash[k], 0, i)
                            /\ Probe(tabs[md], Hash[k], i) = s
        /\ wop'[w].pc = "publish" /\ wop'[w].slot = s
        /\ wop'[w].key = k /\ wop'[w].cell = wop[w].cell
        /\ \A v \in Writers \ {w} : wop'[v] = wop[v]
  BY StoreHashFacts
<1>3. k \in Keys /\ ll \in BOOLEAN /\ IsTable(tabs[md])
  BY StoreHashFacts, TableKeys
<1>4. \A kk \in Keys : ~Holds(tabs[md].ent[s], cells, kk)
  BY <1>2 DEF Holds
<1>5. /\ may' \in [Readers -> SUBSET (Cells \cup {NULL})]
      /\ Placed' /\ OneEntry' /\ Searches' /\ GetCorrect'
  BY <1>1, <1>2, <1>4, EditedJ
<1>6. Edited(tabs[md], tabs'[md], s)
  BY <1>2, <1>3, ChangedIsEdited
<1>7. Counted'
  <2>1. /\ Changed(tabs, tabs', md, s)
        /\ tabs[md].ent[s].value = NULL /\ tabs'[md].ent[s].value = NULL
    BY <1>2
  <2>2. Vals(tabs', md) = Vals(tabs, md)
    BY <2>1, ChangedVals
  <2> QED BY <1>1, <2>2 DEF JInv, Counted
<1>8. Ready(ll, tabs'[md], cells, k, s)
  <2>1. PICK i \in Nat : GoesOn(ll, tabs[md], Hash[k], 0, i) /\ Probe(tabs[md], Hash[k], i) = s
    BY <1>2
  <2>2. GoesOn(ll, tabs'[md], Hash[k], 0, i)
    BY <1>2, <1>3, <1>6, <2>1, HashType, StillGoesOn
  <2>3. Probe(tabs'[md], Hash[k], i) = s
    BY <1>6, <2>1, EditedProbe
  <2>4. ASSUME NEW u \in InTable(tabs'[md]), cells[tabs'[md].ent[u].value] = k
        PROVE  FALSE
    <3>1. u \in InTable(tabs[md]) /\ tabs'[md].ent[u] = tabs[md].ent[u]
      <4>1. u # s /\ u \in Slots(tabs[md].len)
        BY <1>2, <1>6, EditedTable
      <4>2. u \in InTable(tabs[md])
        BY <1>6, <4>1, EditedTable
      <4> QED BY <1>6, <4>1, <4>2 DEF Edited
    <3>2. Unlinking = {}
      BY <1>1, InSectionAlone
    <3> HIDE DEF k
    <3> QED BY <1>1, <1>3, <2>4, <3>1, <3>2, PresentFacts
  <2> QED BY <1>2, <2>1, <2>2, <2>3, <2>4 DEF Ready
<1>9. \A v \in Writers \ {w} : wop[v].pc \notin {"insert", "publish"}
  BY <1>1, InSectionAlone
<1>10. cells[wop[w].cell] = k
  BY <1>1 DEF JInv, Making
<1>11. Making'
  <2> SUFFICES ASSUME NEW v \in Writers
               PROVE  /\ Inserting(v)' => cells'[wop'[v].cell] = wop'[v].key
                      /\ wop'[v].pc = "publish" =>
                           Ready(ll, tabs'[md], cells, wop'[v].key, wop'[v].slot)
    BY <1>1 DEF Making, Seen
  <2>1. CASE v = w
    BY <1>1, <1>2, <1>8, <1>10, <2>1
  <2>2. CASE v # w
    BY <1>2, <1>9, <2>2 DEF Inserting
  <2> QED BY <2>1, <2>2
<1> QED
  BY <1>5, <1>7, <1>11 DEF JInv

LEMMA NobodyMakes ==
  ASSUME IInv, NEW w \in Writers, InSection(w),
         \A v \in Writers \ {w} : wop'[v] = wop[v],
         wop'[w].pc \notin {"insert", "publish"}
  PROVE  Making'
<1>1. \A v \in Writers \ {w} : wop[v].pc \notin {"insert", "publish"}
  BY InSectionAlone
<1>2. \A v \in Writers : wop'[v].pc \notin {"insert", "publish"}
  BY <1>1
<1> QED
  BY <1>2 DEF Making, Inserting

LEMMA StoreValueJ ==
  ASSUME IInv, JInv, IInv', Seen, NEW w \in Writers, StoreValue(w)
  PROVE  JInv'
<1> DEFINE c == wop[w].cell
           s == wop[w].slot
           k == wop[w].key
           ll == config.lockless_reads
<1>1. /\ wop[w].pc = "publish" /\ Inserting(w) /\ InSection(w)
      /\ UNCHANGED <<md, cells>> /\ value_count' = value_count + 1
  BY DEF StoreValue, Inserting, InSection
<1>2. /\ md \in DOMAIN tabs /\ IsTable(tabs[md])
      /\ tabs = [t \in DOMAIN tabs |-> tabs[t]]
      /\ s \in Slots(tabs[md].len) /\ tabs[md].ent[s].value = NULL
      /\ c \in Cells /\ c # NULL /\ k \in Keys
  BY <1>1, KeysAssumption DEF IInv, DataTypes, Section
<1>3. /\ Changed(tabs, tabs', md, s) /\ tabs'[md].ent[s].value = c
      /\ tabs'[md].ent[s].hash = tabs[md].ent[s].hash
  <2>1. tabs' = WithValue(tabs, md, s, c)
    BY DEF WithValue, StoreValue
  <2> HIDE DEF s, c
  <2> QED
    BY <1>2, <2>1, ChangeValue
<1>4. /\ \A v \in Writers \ {w} : wop'[v] = wop[v]
      /\ wop'[w].pc = "locked"
  BY DoneFacts DEF StoreValue
<1>5. cells[c] = k /\ Ready(ll, tabs[md], cells, k, s)
  BY <1>1 DEF JInv, Making
<1> HIDE DEF s, c, k, ll
<1>6. \A kk \in Keys : ~Holds(tabs[md].ent[s], cells, kk)
  BY <1>2 DEF Holds
<1>7. LET kk == cells[tabs'[md].ent[s].value]
      IN  /\ kk \in Keys
          /\ tabs'[md].ent[s].hash = Hash[kk]
          /\ \E i \in Nat : /\ GoesOn(ll, tabs[md], Hash[kk], 0, i)
                            /\ Probe(tabs[md], Hash[kk], i) = s
          /\ \A u \in InTable(tabs[md]) \ {s} : cells[tabs[md].ent[u].value] # kk
  BY <1>2, <1>3, <1>5 DEF Ready
<1>8. /\ may' \in [Readers -> SUBSET (Cells \cup {NULL})]
      /\ Placed' /\ OneEntry' /\ Searches' /\ GetCorrect'
  BY <1>1, <1>2, <1>3, <1>4, <1>6, <1>7, EditedJ DEF ll
<1>9. Making'
  BY <1>1, <1>4, NobodyMakes
<1>10. Counted'
  <2>1. Vals(tabs', md) = Vals(tabs, md) \cup {c} /\ NULL \notin Vals(tabs, md)
    BY <1>2, <1>3, ChangedVals
  <2>2. c \notin Vals(tabs, md)
    BY DEF IInv, CellsOwned, c
  <2>3. Cardinality(Vals(tabs, md) \cup {c}) = Cardinality(Vals(tabs, md)) + 1
    BY <2>2, ValsFinite, FS_AddElement
  <2> QED BY <1>1, <2>1, <2>3 DEF JInv, Counted
<1> QED
  BY <1>8, <1>9, <1>10 DEF JInv

LEMMA ReplaceJ ==
  ASSUME KeysTold, IInv, JInv, IInv', Seen, NEW w \in Writers, Replace(w)
  PROVE  JInv'
<1> DEFINE k == wop[w].key
           c == wop[w].cell
           P == Present(k)
           i == CHOOSE x \in P : \A y \in P : x <= y
           s == Probe(tabs[md], Hash[k], i)
           e == [hash |-> Hash[k], value |-> c]
           old == tabs[md].ent[s].value
<1>1. /\ wop[w].pc = "insert" /\ P # {}
      /\ tabs' = [tabs EXCEPT ![md].ent[s] = e]
      /\ Done(w) /\ UNCHANGED <<md, cells, value_count>>
  BY Zenon DEF Replace, SetEntry
<1>2. InSection(w) /\ Inserting(w)
  BY <1>1 DEF InSection, Inserting
<1>3. /\ md \in DOMAIN tabs /\ IsTable(tabs[md]) /\ k \in Keys
      /\ tabs = [t \in DOMAIN tabs |-> tabs[t]]
      /\ c \in Cells /\ c # NULL /\ config \in Configs
  BY <1>2, KeysAssumption DEF IInv, DataTypes, Section
<1>4. i \in P
  <2> HIDE DEF P
  <2>1. P \subseteq Nat
    BY <1>3, MatchFacts DEF P, Present
  <2>2. \E x \in P : \A y \in P : x <= y
    BY <1>1, <2>1, SmallestNumber
  <2> QED BY <2>2
<1>5. i \in Matches(tabs[md], k)
  <2> HIDE DEF i
  <2> QED BY <1>4 DEF Present
<1>6. cells[c] = k
  BY <1>2 DEF JInv, Making
<1> HIDE DEF i, k, P, c
<1>7. /\ s \in Slots(tabs[md].len) /\ old # NULL
      /\ tabs[md].ent[s].hash = Hash[k] /\ match_key(old, k)
  BY <1>3, <1>5, MatchFacts
<1> HIDE DEF s
<1>8. Changed(tabs, tabs', md, s) /\ tabs'[md].ent[s] = e
  <2>1. tabs' = WithEntry(tabs, md, s, e)
    BY <1>1 DEF WithEntry
  <2>2. e \in Entry
    BY <1>3, EntryFacts
  <2> HIDE DEF e
  <2> QED BY <1>3, <1>7, <2>1, <2>2, ChangeEntry
<1>9. tabs'[md].ent[s].value = c /\ tabs'[md].ent[s].hash = Hash[k]
  BY <1>8
<1>10. s \in InTable(tabs[md])
  BY <1>7, TableKeys DEF InTable
<1>11. cells[old] = k
  BY <1>3, <1>7, <1>10, TableKeys, MatchKey
<1>12. \A kk \in Keys :
         Holds(tabs[md].ent[s], cells, kk) => Holds(tabs'[md].ent[s], cells, kk)
  BY <1>3, <1>6, <1>9, <1>11 DEF Holds
<1>13. LET kk == cells[tabs'[md].ent[s].value]
       IN  /\ kk \in Keys
           /\ tabs'[md].ent[s].hash = Hash[kk]
           /\ \E j \in Nat : /\ GoesOn(config.lockless_reads, tabs[md], Hash[kk], 0, j)
                             /\ Probe(tabs[md], Hash[kk], j) = s
           /\ \A u \in InTable(tabs[md]) \ {s} : cells[tabs[md].ent[u].value] # kk
  <2>1. \E j \in Nat : /\ GoesOn(config.lockless_reads, tabs[md], Hash[k], 0, j)
                       /\ Probe(tabs[md], Hash[k], j) = s
    BY <1>10, <1>11 DEF JInv, Placed, PlacedIn
  <2>2. \A u \in InTable(tabs[md]) \ {s} : cells[tabs[md].ent[u].value] # k
    BY <1>10, <1>11 DEF JInv, OneEntry, OneIn
  <2> QED BY <1>3, <1>6, <1>9, <2>1, <2>2
<1>14. /\ \A v \in Writers \ {w} : wop'[v] = wop[v]
       /\ wop'[w].pc = "locked"
  BY <1>1, DoneFacts
<1>15. /\ may' \in [Readers -> SUBSET (Cells \cup {NULL})]
       /\ Placed' /\ OneEntry' /\ Searches' /\ GetCorrect'
  <2>1. wop[w].pc = "insert" /\ md' = md /\ cells' = cells
    BY <1>1
  <2>2. Changed(tabs, tabs', md, s)
    BY <1>8
  <2>3. old # NULL => tabs'[md].ent[s].value # NULL
    BY <1>3, <1>9
  <2> HIDE DEF e
  <2> QED
    BY <1>2, <1>7, <1>12, <1>13, <1>14, <2>1, <2>2, <2>3, EditedJ
<1>16. Making'
  BY <1>2, <1>14, NobodyMakes
<1>17. Counted'
  <2>1. /\ Vals(tabs', md) = (Vals(tabs, md) \ {old}) \cup {c}
        /\ old \in Vals(tabs, md)
    BY <1>3, <1>7, <1>8, <1>9, ChangedVals
  <2>2. c \notin Vals(tabs, md)
    BY DEF IInv, CellsOwned, c
  <2> HIDE DEF old
  <2>3. /\ IsFiniteSet(Vals(tabs, md) \ {old})
        /\ Cardinality(Vals(tabs, md) \ {old}) = Cardinality(Vals(tabs, md)) - 1
    BY <2>1, ValsFinite, FS_RemoveElement
  <2>4. Cardinality((Vals(tabs, md) \ {old}) \cup {c})
          = Cardinality(Vals(tabs, md) \ {old}) + 1
    BY <2>2, <2>3, FS_AddElement
  <2>5. Cardinality(Vals(tabs, md)) \in Nat
    BY ValsFinite, FS_CardinalityType
  <2>6. value_count' = value_count /\ md' = md
    BY <1>1
  <2>7. Cardinality(Vals(tabs', md)) = Cardinality(Vals(tabs, md))
    <3>1. Vals(tabs', md) = (Vals(tabs, md) \ {old}) \cup {c}
      BY <2>1
    <3> QED BY <2>3, <2>4, <2>5, <3>1
  <2> QED BY <2>6, <2>7 DEF JInv, Counted
<1> QED
  BY <1>15, <1>16, <1>17 DEF JInv

LEMMA ClearHashJ ==
  ASSUME KeysTold, IInv, JInv, IInv', Seen, NEW w \in Writers, NEW k \in Keys, ClearHash(w, k)
  PROVE  JInv'
<1>1. /\ wop[w].pc = "locked" /\ ~config.lockless_reads /\ InSection(w)
      /\ UNCHANGED <<md, cells, value_count>>
  BY DEF ClearHash, wpd, InSection
<1>2. /\ md \in DOMAIN tabs /\ IsTable(tabs[md]) /\ config \in Configs
      /\ tabs = [t \in DOMAIN tabs |-> tabs[t]]
  BY DEF IInv, DataTypes
<1>3. PICK i \in Matches(tabs[md], k) :
        LET s == Probe(tabs[md], Hash[k], i)
        IN  /\ tabs' = [tabs EXCEPT ![md].ent[s].hash = 0]
            /\ wop' = [wop EXCEPT ![w].pc = "unlink", ![w].slot = s]
  BY DEF ClearHash
<1> DEFINE s == Probe(tabs[md], Hash[k], i)
           c == tabs[md].ent[s].value
<1>4. s \in Slots(tabs[md].len) /\ c # NULL /\ match_key(c, k)
  BY MatchFacts
<1> HIDE DEF s
<1>5. /\ Changed(tabs, tabs', md, s)
      /\ tabs'[md].ent[s].value = c /\ tabs'[md].ent[s].hash = 0
  <2>1. tabs' = WithHash(tabs, md, s, 0)
    BY <1>3 DEF s, WithHash
  <2> QED
    BY <1>2, <1>4, <2>1, ChangeHash
<1>6. /\ wop'[w].pc = "unlink" /\ wop'[w].slot = s
      /\ \A v \in Writers \ {w} : wop'[v] = wop[v]
  <2>1. wop' = [wop EXCEPT ![w].pc = "unlink", ![w].slot = s]
    BY <1>3 DEF s
  <2>2. wop \in [Writers -> WopType]
    BY DEF IInv, WriterTypes
  <2> QED
    BY <2>1, <2>2 DEF WopType
<1>7. s \in InTable(tabs[md])
  BY <1>4, TableKeys DEF InTable
<1>8. cells[c] = k
  BY <1>2, <1>4, <1>7, TableKeys, MatchKey
<1>9. \A u \in InTable(tabs[md]) \ {s} : cells[tabs[md].ent[u].value] # k
  BY <1>7, <1>8 DEF JInv, OneEntry, OneIn
<1>10. Edited(tabs[md], tabs'[md], s)
  BY <1>2, <1>5, ChangedIsEdited
<1>11. NULL \in MappedIn(tabs'[md], cells, k)
  <2>1. ASSUME NEW u \in InTable(tabs'[md]), cells[tabs'[md].ent[u].value] = k
        PROVE  tabs'[md].ent[u].hash = 0
    <3>1. CASE u = s
      BY <1>5, <3>1
    <3>2. CASE u # s
      <4>1. u \in InTable(tabs[md]) /\ tabs'[md].ent[u] = tabs[md].ent[u]
        BY <1>4, <1>10, <3>2, EditedTable DEF Edited
      <4> QED BY <1>9, <2>1, <3>2, <4>1
    <3> QED BY <3>1, <3>2
  <2> QED BY <2>1, MappedFacts
<1>12. \A kk \in Keys :
         Holds(tabs[md].ent[s], cells, kk) => NULL \in MappedIn(tabs'[md], cells, kk)
  BY <1>8, <1>11 DEF Holds
<1>13. LET kk == cells[tabs'[md].ent[s].value]
       IN  /\ kk \in Keys
           /\ tabs'[md].ent[s].hash = 0
           /\ \E j \in Nat : /\ GoesOn(config.lockless_reads, tabs[md], Hash[kk], 0, j)
                             /\ Probe(tabs[md], Hash[kk], j) = s
           /\ \A u \in InTable(tabs[md]) \ {s} : cells[tabs[md].ent[u].value] # kk
  <2>1. \E j \in Nat : /\ GoesOn(config.lockless_reads, tabs[md], Hash[k], 0, j)
                       /\ Probe(tabs[md], Hash[k], j) = s
    BY <1>7, <1>8 DEF JInv, Placed, PlacedIn
  <2> QED BY <1>5, <1>8, <1>9, <2>1
<1>14. /\ may' \in [Readers -> SUBSET (Cells \cup {NULL})]
       /\ Placed' /\ OneEntry' /\ Searches' /\ GetCorrect'
  BY <1>1, <1>4, <1>5, <1>6, <1>12, <1>13, EditedJ
<1>15. Making'
  BY <1>1, <1>6, NobodyMakes
<1>16. Counted'
  <2>1. Vals(tabs', md) = Vals(tabs, md)
    <3>1. /\ Vals(tabs', md) = ((Vals(tabs, md) \ {c}) \cup {c}) \ {NULL}
          /\ c \in Vals(tabs, md) /\ NULL \notin Vals(tabs, md)
      BY <1>4, <1>5, ChangedVals
    <3> QED BY <3>1
  <2> QED BY <1>1, <2>1 DEF JInv, Counted
<1> QED
  BY <1>14, <1>15, <1>16 DEF JInv

LEMMA ClearValueJ ==
  ASSUME IInv, JInv, IInv', Seen, NEW w \in Writers, ClearValue(w)
  PROVE  JInv'
<1> DEFINE s == wop[w].slot
           c == tabs[md].ent[s].value
<1>1. /\ wop[w].pc = "unlink" /\ InSection(w)
      /\ tabs' = [tabs EXCEPT ![md].ent[s].value = NULL]
      /\ Done(w) /\ UNCHANGED <<md, cells>> /\ value_count' = value_count - 1
  BY DEF ClearValue, InSection
<1>2. /\ md \in DOMAIN tabs /\ IsTable(tabs[md])
      /\ tabs = [t \in DOMAIN tabs |-> tabs[t]]
      /\ s \in Slots(tabs[md].len) /\ c # NULL
  BY <1>1 DEF IInv, DataTypes, Section
<1>3. ~config.lockless_reads
  BY <1>1 DEF IInv, Lockless
<1>4. Unlinking = {s}
  BY <1>1, InSectionAlone
<1> HIDE DEF s
<1>5. Changed(tabs, tabs', md, s) /\ tabs'[md].ent[s].value = NULL
  <2>1. tabs' = WithValue(tabs, md, s, NULL)
    BY <1>1 DEF WithValue
  <2> QED BY <1>2, <2>1, ChangeValue
<1>6. /\ \A v \in Writers \ {w} : wop'[v] = wop[v]
      /\ wop'[w].pc = "locked"
  BY <1>1, DoneFacts
<1>7. tabs[md].ent[s].hash = 0
  <2>1. s \in InTable(tabs[md])
    BY <1>2, TableKeys DEF InTable
  <2> QED BY <1>4, <2>1 DEF JInv, Placed, PlacedIn
<1>8. \A kk \in Keys : ~Holds(tabs[md].ent[s], cells, kk)
  BY <1>7, HashType DEF Holds
<1>9. /\ may' \in [Readers -> SUBSET (Cells \cup {NULL})]
      /\ Placed' /\ OneEntry' /\ Searches' /\ GetCorrect'
  BY <1>1, <1>2, <1>3, <1>5, <1>6, <1>8, EditedJ DEF s
<1>10. Making'
  BY <1>1, <1>6, NobodyMakes
<1>11. Counted'
  <2>1. /\ Vals(tabs', md) = Vals(tabs, md) \ {c}
        /\ c \in Vals(tabs, md)
    BY <1>2, <1>5, ChangedVals
  <2> HIDE DEF c
  <2>2. Cardinality(Vals(tabs, md) \ {c}) = Cardinality(Vals(tabs, md)) - 1
    BY <2>1, ValsFinite, FS_RemoveElement
  <2> QED BY <1>1, <2>1, <2>2 DEF JInv, Counted
<1> QED
  BY <1>9, <1>10, <1>11 DEF JInv

(***************************************************************************)
(* Steps that replace the published table.                                 *)
(***************************************************************************)
\* grow_hashtable puts every entry where the search for its key begins.
LEMMA RehashPlaced ==
  ASSUME NEW T, NEW t, NEW U, NEW u, NEW len \in Nat \ {0}, NEW C,
         IsTable(T[t]), T[t].len = neighborhood_len, U[u] = Rehash(T[t], len),
         Distinct(U, u),
         \A s \in InTable(T[t]) : C[T[t].ent[s].value] \in Keys,
         PlacedIn(FALSE, T[t], C, {}), OneIn(T[t], C)
  PROVE  PlacedIn(FALSE, U[u], C, {}) /\ OneIn(U[u], C)
<1>1. IsTable(U[u]) /\ U[u].len = len /\ DOMAIN U[u].ent = Slots(len)
      /\ DOMAIN T[t].ent = Slots(T[t].len)
  BY RehashFacts DEF IsTable
<1>2. ASSUME NEW s \in InTable(U[u])
      PROVE  \E x \in InTable(T[t]) : Source(T[t], len, s, x) /\ U[u].ent[s] = T[t].ent[x]
  <2>1. s \in Slots(len) /\ U[u].ent[s] # Empty
    BY <1>1, EntryFacts DEF InTable
  <2>2. PICK x : Source(T[t], len, s, x) /\ U[u].ent[s] = T[t].ent[x]
    BY <2>1, RehashFacts
  <2>3. x \in InTable(T[t])
    BY <1>1, <2>2 DEF Source, InTable
  <2> QED BY <2>2, <2>3
<1>3. OneIn(U[u], C)
  <2> SUFFICES ASSUME NEW a \in InTable(U[u]), NEW b \in InTable(U[u]),
                      C[U[u].ent[a].value] = C[U[u].ent[b].value]
               PROVE  a = b
    BY DEF OneIn
  <2>1. PICK x \in InTable(T[t]) : U[u].ent[a] = T[t].ent[x]
    BY <1>2
  <2>2. PICK y \in InTable(T[t]) : U[u].ent[b] = T[t].ent[y]
    BY <1>2
  <2>3. x = y
    BY <2>1, <2>2 DEF OneIn
  <2>4. U[u].ent[a].value = U[u].ent[b].value
    BY <2>1, <2>2, <2>3
  <2> QED BY <2>4 DEF InTable, Distinct
<1>4. ASSUME NEW s \in InTable(U[u])
      PROVE  LET k == C[U[u].ent[s].value]
             IN  /\ U[u].ent[s].hash = Hash[k]
                 /\ \E i \in Nat : /\ GoesOn(FALSE, U[u], Hash[k], 0, i)
                                   /\ Probe(U[u], Hash[k], i) = s
  <2> DEFINE k == C[U[u].ent[s].value]
  <2>1. PICK x \in InTable(T[t]) : Source(T[t], len, s, x) /\ U[u].ent[s] = T[t].ent[x]
    BY <1>2
  <2>2. U[u].ent[s].hash = Hash[k] /\ k \in Keys
    BY <2>1 DEF PlacedIn
  <2>3. s \in Slots(len)
    BY <1>1 DEF InTable
  <2>4. s = <<s[1], s[2]>> /\ s[2] \in Nat /\ s[2] < NeighLen
    BY <2>3, SlotsFacts, SizesAssumption
  <2>5. s[1] = Hash[k] % len
    BY <2>1, <2>2 DEF Source
  <2>6. Hash[k] \in Nat /\ NeighLen \in Nat \ {0}
    BY <2>2, HashType, SizesAssumption
  <2> HIDE DEF k
  <2>7. s[2] \div NeighLen = 0 /\ s[2] % NeighLen = s[2]
    BY <2>4, <2>6
  <2>8. Probe(U[u], Hash[k], s[2]) = s
    <3>1. Hash[k] + (s[2] \div NeighLen) = Hash[k]
      BY <2>6, <2>7
    <3> QED BY <1>1, <2>4, <2>5, <2>7, <3>1 DEF Probe
  <2>9. GoesOn(FALSE, U[u], Hash[k], 0, s[2])
    BY <2>4 DEF GoesOn, ProbeEnd
  <2> QED BY <2>2, <2>4, <2>8, <2>9 DEF k
<1>5. PlacedIn(FALSE, U[u], C, {})
  BY <1>4 DEF PlacedIn
<1> QED BY <1>3, <1>5

LEMMA SwappedJ ==
  ASSUME IInv, JInv, IInv', Seen, \A u \in DOMAIN tabs : tabs'[u] = tabs[u],
         cells' = cells, ~config.lockless_reads,
         NEW w \in Writers, wop[w].pc \in {"locked", "insert"},
         \A v \in Writers : /\ wop'[v].pc = wop[v].pc /\ wop'[v].cell = wop[v].cell
                            /\ wop'[v].key = wop[v].key,
         PlacedIn(FALSE, tabs'[md'], cells, {}), OneIn(tabs'[md'], cells), Counted'
  PROVE  JInv'
<1>1. InSection(w)
  BY DEF InSection
<1>2. \A v \in Writers : wop[v].pc \notin {"publish", "unlink"}
  BY <1>1, InSectionAlone
<1>3. Placed'
  <2>1. config'.lockless_reads = FALSE
    BY TableKeys DEF Seen
  <2>2. Unlinking' = {}
    BY <1>2 DEF Unlinking
  <2> QED BY <2>1, <2>2 DEF Placed
<1>4. OneEntry'
  BY DEF OneEntry
<1>5. Making'
  BY <1>2 DEF JInv, Making, Inserting
<1>6. Searches'
  <2>1. \A r \in Readers : Looking(r) => rd[r].tab \in DOMAIN tabs
    BY DEF IInv, ReaderState, Looking
  <2> QED BY <2>1, SearchesKept
<1> QED
  BY <1>3, <1>4, <1>5, <1>6, SeenFacts DEF JInv

LEMMA FlushJ ==
  ASSUME IInv, JInv, IInv', Seen, NEW w \in Writers, Flush(w)
  PROVE  JInv'
<1> DEFINE t == Unused(Tables, tabs)
<1>1. /\ wop[w].pc = "locked" /\ ~config.lockless_reads /\ Tables # DOMAIN tabs
      /\ tabs' = [u \in DOMAIN tabs \cup {t} |->
                    IF u = t THEN NewTable(DefaultLen) ELSE tabs[u]]
      /\ md' = t /\ value_count' = 0 /\ cells' = cells /\ wop' = wop
  BY DEF Flush
<1>2. DOMAIN tabs \subseteq Tables
  BY DEF IInv, DataTypes
<1>3. t \in Tables \ DOMAIN tabs
  BY <1>1, <1>2, UnusedFacts
<1> HIDE DEF t
<1>4. /\ \A u \in DOMAIN tabs : tabs'[u] = tabs[u]
      /\ tabs'[t] = NewTable(DefaultLen)
  BY <1>1, <1>3
<1>5. \A s \in DOMAIN tabs'[t].ent : tabs'[t].ent[s].value = NULL
  <2>1. tabs'[t].ent = [s \in Slots(DefaultLen) |-> Empty]
    BY <1>4, SizesAssumption, NewTableFacts
  <2> QED BY <2>1, EntryFacts
<1>6. InTable(tabs'[t]) = {} /\ Vals(tabs', t) = {}
  BY <1>5 DEF InTable, Vals
<1>7. PlacedIn(FALSE, tabs'[t], cells, {}) /\ OneIn(tabs'[t], cells)
  BY <1>6 DEF PlacedIn, OneIn
<1>8. Counted'
  <2>1. Cardinality(Vals(tabs', t)) = 0
    BY <1>6, FS_EmptySet
  <2> QED BY <1>1, <2>1 DEF Counted
<1>9. /\ md' = t /\ cells' = cells /\ wop' = wop
      /\ wop[w].pc = "locked" /\ ~config.lockless_reads
  BY <1>1
<1> QED
  BY <1>4, <1>7, <1>8, <1>9, SwappedJ

LEMMA GrowJ ==
  ASSUME IInv, JInv, IInv', Seen, NEW w \in Writers, Grow(w)
  PROVE  JInv'
<1> DEFINE t == Unused(Tables, tabs)
           len == GrowLen(tabs[md], neighborhood_len)
<1>1. /\ wop[w].pc = "insert" /\ ~config.lockless_reads /\ Tables # DOMAIN tabs
      /\ ~NoSizeFits(tabs[md], neighborhood_len)
      /\ tabs' = [u \in DOMAIN tabs \cup {t} |->
                    IF u = t THEN Rehash(tabs[md], len) ELSE tabs[u]]
      /\ md' = t /\ wop' = [wop EXCEPT ![w].tries = @ + 1]
      /\ cells' = cells /\ value_count' = value_count
  BY DEF Grow, Full
<1>2. /\ DOMAIN tabs \subseteq Tables
      /\ IsTable(tabs[md]) /\ tabs[md].len = neighborhood_len
      /\ neighborhood_len \in Nat \ {0} /\ Distinct(tabs, md)
  BY DEF IInv, DataTypes, CellsOwned, IsTable
<1>3. t \in Tables \ DOMAIN tabs
  BY <1>1, <1>2, UnusedFacts
<1>4. len \in Nat \ {0} /\ Fits(tabs[md], len)
  BY <1>1, <1>2, GrowLenFacts
<1> HIDE DEF t, len
<1>5. /\ \A u \in DOMAIN tabs : tabs'[u] = tabs[u]
      /\ tabs'[t] = Rehash(tabs[md], len)
  BY <1>1, <1>3
<1>6. Vals(tabs', t) = Vals(tabs, md) /\ Distinct(tabs', t)
  BY <1>2, <1>4, <1>5, RehashVals
<1>7. PlacedIn(FALSE, tabs'[t], cells, {}) /\ OneIn(tabs'[t], cells)
  <2>1. InSection(w)
    BY <1>1 DEF InSection
  <2>2. Unlinking = {}
    BY <1>1, <2>1, InSectionAlone
  <2>3. config.lockless_reads = FALSE
    BY <1>1, TableKeys
  <2>4. /\ PlacedIn(FALSE, tabs[md], cells, {}) /\ OneIn(tabs[md], cells)
        /\ \A s \in InTable(tabs[md]) : cells[tabs[md].ent[s].value] \in Keys
    BY <2>2, <2>3, TableKeys DEF JInv, Placed, OneEntry
  <2> QED BY <1>2, <1>4, <1>5, <1>6, <2>4, RehashPlaced
<1>8. \A v \in Writers : /\ wop'[v].pc = wop[v].pc /\ wop'[v].cell = wop[v].cell
                         /\ wop'[v].key = wop[v].key
  <2>1. wop \in [Writers -> WopType]
    BY DEF IInv, WriterTypes
  <2> QED BY <1>1, <2>1 DEF WopType
<1>9. /\ md' = t /\ cells' = cells /\ value_count' = value_count
      /\ wop[w].pc = "insert" /\ ~config.lockless_reads
  BY <1>1
<1>10. Counted'
  BY <1>6, <1>9 DEF JInv, Counted
<1> QED
  BY <1>5, <1>7, <1>8, <1>9, <1>10, SwappedJ

(***************************************************************************)
(* Readers.                                                                *)
(***************************************************************************)
LEMMA ReaderJ ==
  ASSUME IInv, JInv, IInv', UNCHANGED <<config, dataVars, writeVars>>,
         NEW r \in Readers, \A q \in Readers \ {r} : rd'[q] = rd[q] /\ may'[q] = may[q],
         may' \in [Readers -> SUBSET (Cells \cup {NULL})],
         rd'[r].pc \in {"load", "hash"} =>
           Searching(config.lockless_reads, tabs[rd'[r].tab], cells, rd'[r], may'[r]),
         rd'[r].pc = "got" => rd'[r].val \in may'[r]
  PROVE  JInv'
<1>1. UNCHANGED <<config, md, tabs, cells, value_count, wop>>
  BY DEF dataVars, writeVars, wpd
<1>2. Placed' /\ OneEntry' /\ Making' /\ Counted'
  BY <1>1, TableKept
<1>3. Searches'
  <2> SUFFICES ASSUME NEW q \in Readers, Looking(q)'
               PROVE  Searching(config.lockless_reads, tabs[rd'[q].tab], cells, rd'[q],
                                may'[q])
    BY <1>1 DEF Searches
  <2>1. CASE q = r
    BY <2>1 DEF Looking
  <2>2. CASE q # r
    BY <2>2 DEF JInv, Searches, Looking
  <2> QED BY <2>1, <2>2
<1>4. GetCorrect'
  <2> SUFFICES ASSUME NEW q \in Readers, rd'[q].pc = "got"
               PROVE  rd'[q].val \in may'[q]
    BY DEF GetCorrect
  <2>1. CASE q = r
    BY <2>1
  <2>2. CASE q # r
    BY <2>2 DEF JInv, GetCorrect
  <2> QED BY <2>1, <2>2
<1> QED
  BY <1>2, <1>3, <1>4 DEF JInv

LEMMA ReadLockJ ==
  ASSUME IInv, JInv, IInv', NEW r \in Readers, ReadLock(r) \/ ReadUnlock(r)
  PROVE  JInv'
<1>0. rd \in [Readers -> RdType] /\ may \in [Readers -> SUBSET (Cells \cup {NULL})]
  BY DEF IInv, ReaderTypes, JInv
<1>1. UNCHANGED <<config, dataVars, writeVars>>
  BY DEF ReadLock, ReadUnlock
<1>2. \A q \in Readers \ {r} : rd'[q] = rd[q] /\ may'[q] = may[q]
  BY <1>0 DEF ReadLock, ReadUnlock
<1>3. may' \in [Readers -> SUBSET (Cells \cup {NULL})]
  BY <1>0 DEF ReadLock, ReadUnlock
<1>4. rd'[r].pc \in {"in", "out"}
  BY <1>0 DEF ReadLock, ReadUnlock, Outside, RdType
<1> QED
  BY <1>1, <1>2, <1>3, <1>4, ReaderJ

\* The table a lookup starts in has the value of its key where it will look.
LEMMA GetStartJ ==
  ASSUME IInv, JInv, IInv', NEW r \in Readers, NEW k \in Keys, GetStart(r, k)
  PROVE  JInv'
<1> DEFINE d == [pc |-> "load", key |-> k, tab |-> md, i |-> 0, val |-> NULL]
           t == tabs[md]
           ll == config.lockless_reads
           m == MappedIn(t, cells, k)
<1>0. rd \in [Readers -> RdType] /\ may \in [Readers -> SUBSET (Cells \cup {NULL})]
  BY DEF IInv, ReaderTypes, JInv
<1>1. UNCHANGED <<config, dataVars, writeVars>>
  BY DEF GetStart
<1>2. \A q \in Readers \ {r} : rd'[q] = rd[q] /\ may'[q] = may[q]
  BY <1>0 DEF GetStart
<1>3. rd'[r] = d
  BY <1>0 DEF GetStart
<1>4. may'[r] = m
  BY <1>0, MappedIs DEF GetStart
<1>5. may' \in [Readers -> SUBSET (Cells \cup {NULL})]
  <2>1. m \subseteq Cells \cup {NULL}
    BY TableKeys, MappedType
  <2>2. may' = [may EXCEPT ![r] = m]
    BY MappedIs DEF GetStart
  <2> HIDE DEF m
  <2> QED BY <1>0, <2>1, <2>2
<1>6. d.pc = "load" /\ d.key = k /\ d.i = 0 /\ d.tab = md
  OBVIOUS
<1> HIDE DEF d
<1>7. Searching(ll, t, cells, d, m)
  <2>1. \A s \in InTable(t) : cells[t.ent[s].value] = k => t.ent[s].value \in m
    BY MappedFacts
  <2>2. ASSUME NULL \notin m
        PROVE  Ahead(ll, t, cells, d)
    <3>1. PICK s \in InTable(t) : cells[t.ent[s].value] = k /\ t.ent[s].hash # 0
      BY <2>2, MappedFacts
    <3>2. PICK i \in Nat : GoesOn(ll, t, Hash[k], 0, i) /\ Probe(t, Hash[k], i) = s
      BY <3>1 DEF JInv, Placed, PlacedIn
    <3>3. t.ent[s].hash = Hash[k]
      BY <3>1 DEF JInv, Placed, PlacedIn
    <3>4. Holds(EntryAt(t, Hash[k], i), cells, k)
      BY <3>1, <3>2, <3>3 DEF Holds, EntryAt, InTable
    <3> QED BY <1>6, <3>2, <3>4 DEF Ahead
  <2> QED BY <1>6, <2>1, <2>2 DEF Searching
<1> QED
  BY <1>1, <1>2, <1>3, <1>4, <1>5, <1>6, <1>7, ReaderJ

LEMMA LookingFacts ==
  ASSUME IInv, JInv, NEW r \in Readers, Looking(r)
  PROVE  LET t == tabs[rd[r].tab]
             d == rd[r]
         IN  /\ IsTable(t) /\ d.key \in Keys /\ d.i \in Nat
             /\ config.lockless_reads \in BOOLEAN /\ config \in Configs
             /\ Searching(config.lockless_reads, t, cells, d, may[r])
             /\ ProbeLen(t) = ProbeEnd(config.lockless_reads, t)
             /\ ProbeLen(t) \in Nat /\ d.i < ProbeLen(t)
             /\ Here(r) = EntryAt(t, Hash[d.key], d.i)
             /\ Probe(t, Hash[d.key], d.i) \in DOMAIN t.ent
             /\ d \in RdType /\ d.tab \in DOMAIN tabs
<1> DEFINE t == tabs[rd[r].tab]
           d == rd[r]
<1>1. /\ IsTable(t) /\ d.key \in Keys /\ d.i \in Nat /\ config \in Configs
      /\ d \in RdType /\ d.tab \in DOMAIN tabs
  BY KeysAssumption DEF IInv, ReaderState, DataTypes, Looking, ReaderTypes, RdType
<1>2. config.lockless_reads \in BOOLEAN
  BY TableKeys
<1>3. ProbeLen(t) = ProbeEnd(config.lockless_reads, t) /\ ProbeLen(t) \in Nat
  BY <1>1, <1>2, ProbeLenIs, ProbeEndType
<1>4. Searching(config.lockless_reads, t, cells, d, may[r])
  BY DEF JInv, Searches
<1>5. Here(r) = EntryAt(t, Hash[d.key], d.i)
  BY DEF Here
<1>6. Probe(t, Hash[d.key], d.i) \in DOMAIN t.ent
  BY <1>1, HashType, ProbeInSlots
<1>7. d.i < ProbeLen(t)
  BY DEF IInv, ReaderState, Looking
<1> QED
  BY <1>1, <1>2, <1>3, <1>4, <1>5, <1>6, <1>7

LEMMA FoundJ ==
  ASSUME IInv, JInv, IInv', UNCHANGED <<config, dataVars, writeVars, may>>,
         NEW r \in Readers, NEW v \in may[r], Found(r, v)
  PROVE  JInv'
<1>0. rd \in [Readers -> RdType] /\ may \in [Readers -> SUBSET (Cells \cup {NULL})]
  BY DEF IInv, ReaderTypes, JInv
<1>1. \A q \in Readers \ {r} : rd'[q] = rd[q]
  BY <1>0 DEF Found
<1>2. rd'[r].pc = "got" /\ rd'[r].val = v
  BY <1>0 DEF Found, RdType
<1> QED
  BY <1>0, <1>1, <1>2, ReaderJ

\* The entry the reader is at is not the one: it goes on, or has seen them all.
LEMMA NextEntryJ ==
  ASSUME IInv, JInv, IInv', UNCHANGED <<config, dataVars, writeVars, may>>,
         NEW r \in Readers, Looking(r), NextEntry(r),
         ~(Holds(Here(r), cells, rd[r].key)
             /\ (rd[r].pc = "hash" => cells[rd[r].val] = rd[r].key))
  PROVE  JInv'
<1> DEFINE t == tabs[rd[r].tab]
           d == rd[r]
           ll == config.lockless_reads
<1>1. /\ IsTable(t) /\ d.i \in Nat /\ ll \in BOOLEAN
      /\ Searching(ll, t, cells, d, may[r])
      /\ ProbeLen(t) = ProbeEnd(ll, t) /\ ProbeLen(t) \in Nat
      /\ Here(r) = EntryAt(t, Hash[d.key], d.i) /\ d \in RdType
  BY LookingFacts
<1>2. ~(Holds(EntryAt(t, Hash[d.key], d.i), cells, d.key)
          /\ (d.pc = "hash" => cells[d.val] = d.key))
  BY <1>1
<1> HIDE DEF t, d, ll
<1>3. /\ d.i + 1 >= ProbeEnd(ll, t) => NULL \in may[r]
      /\ \A e : e.key = d.key /\ e.i = d.i + 1 /\ e.pc = "load" =>
           Searching(ll, t, cells, e, may[r])
  BY <1>1, <1>2, SearchPast
<1>4. CASE d.i + 1 = ProbeLen(t)
  <2>1. NULL \in may[r]
    BY <1>1, <1>3, <1>4
  <2>2. Found(r, NULL)
    BY <1>4 DEF NextEntry, d, t
  <2> QED BY <2>1, <2>2, FoundJ
<1>5. CASE d.i + 1 # ProbeLen(t)
  <2>1. rd' = [rd EXCEPT ![r].pc = "load", ![r].i = @ + 1, ![r].val = NULL]
    BY <1>5 DEF NextEntry, d, t
  <2>2. rd \in [Readers -> RdType] /\ may \in [Readers -> SUBSET (Cells \cup {NULL})]
    BY DEF IInv, ReaderTypes, JInv
  <2>3. \A q \in Readers \ {r} : rd'[q] = rd[q]
    BY <2>1, <2>2
  <2>4. /\ rd'[r].pc = "load" /\ rd'[r].key = d.key /\ rd'[r].i = d.i + 1
        /\ rd'[r].tab = rd[r].tab
    BY <2>1, <2>2 DEF RdType, d
  <2>5. Searching(ll, t, cells, rd'[r], may[r])
    BY <1>3, <2>4
  <2> QED
    BY <2>2, <2>3, <2>4, <2>5, ReaderJ DEF ll, t
<1> QED
  BY <1>4, <1>5

LEMMA LoadValueJ ==
  ASSUME IInv, JInv, IInv', NEW r \in Readers, LoadValue(r)
  PROVE  JInv'
<1> DEFINE t == tabs[rd[r].tab]
           d == rd[r]
           ll == config.lockless_reads
           e == Here(r)
<1>0. Looking(r) /\ d.pc = "load" /\ UNCHANGED <<config, dataVars, writeVars, may>>
  BY DEF LoadValue, Looking
<1>1. /\ IsTable(t) /\ d.i \in Nat /\ ll \in BOOLEAN /\ d.key \in Keys
      /\ Searching(ll, t, cells, d, may[r]) /\ Probe(t, Hash[d.key], d.i) \in DOMAIN t.ent
      /\ e = EntryAt(t, Hash[d.key], d.i) /\ d \in RdType
  BY <1>0, LookingFacts
<1>2. CASE e.value # NULL
  <2>1. rd' = [rd EXCEPT ![r].pc = "hash", ![r].val = e.value]
    BY <1>2 DEF LoadValue
  <2>2. rd \in [Readers -> RdType] /\ may \in [Readers -> SUBSET (Cells \cup {NULL})]
    BY DEF IInv, ReaderTypes, JInv
  <2>3. \A q \in Readers \ {r} : rd'[q] = rd[q]
    BY <2>1, <2>2
  <2>4. /\ rd'[r].pc = "hash" /\ rd'[r].key = d.key /\ rd'[r].i = d.i
        /\ rd'[r].tab = rd[r].tab /\ rd'[r].val = e.value
    <3> HIDE DEF e
    <3> QED BY <2>1, <2>2 DEF RdType
  <2>5. cells[e.value] = d.key => e.value \in may[r]
    BY <1>1, <1>2 DEF Searching, EntryAt, InTable
  <2>6. ASSUME NULL \notin may[r]
        PROVE  Ahead(ll, t, cells, rd'[r])
    <3>1. PICK j \in Nat :
            /\ GoesOn(ll, t, Hash[d.key], d.i, j)
            /\ Holds(EntryAt(t, Hash[d.key], j), cells, d.key)
      BY <1>1, <2>6 DEF Searching, Ahead
    <3>2. j = d.i => cells[e.value] = d.key
      BY <1>1, <3>1 DEF Holds
    <3> HIDE DEF e, d, t, ll
    <3> QED BY <2>4, <3>1, <3>2 DEF Ahead
  <2>7. Searching(ll, t, cells, rd'[r], may[r])
    <3>1. \A s \in InTable(t) : cells[t.ent[s].value] = d.key => t.ent[s].value \in may[r]
      BY <1>1 DEF Searching
    <3> HIDE DEF e, d, t, ll
    <3> QED BY <1>2, <2>4, <2>5, <2>6, <3>1 DEF Searching
  <2>8. tabs[rd'[r].tab] = t
    BY <2>4
  <2> HIDE DEF e, d, t
  <2> QED BY <1>0, <2>2, <2>3, <2>4, <2>7, <2>8, ReaderJ
<1>3. CASE e.value = NULL
  <2>1. ~Holds(e, cells, d.key)
    BY <1>3 DEF Holds
  <2>2. CASE ll
    <3>1. Found(r, NULL)
      BY <1>3, <2>2 DEF LoadValue
    <3>2. NULL \in may[r]
      <4>1. /\ ~Holds(EntryAt(t, Hash[d.key], d.i), cells, d.key)
            /\ EntryAt(t, Hash[d.key], d.i).value = NULL
        BY <1>1, <1>3, <2>1
      <4> HIDE DEF e, d, t, ll
      <4> QED BY <1>1, <2>2, <4>1, SearchPast
    <3> QED BY <1>0, <3>1, <3>2, FoundJ
  <2>3. CASE ~ll
    <3>1. NextEntry(r)
      BY <1>3, <2>3 DEF LoadValue
    <3> QED BY <1>0, <2>1, <3>1, NextEntryJ
  <2> QED BY <2>2, <2>3
<1> QED
  BY <1>2, <1>3

LEMMA LoadHashJ ==
  ASSUME KeysTold, IInv, JInv, IInv', NEW r \in Readers, LoadHash(r)
  PROVE  JInv'
<1> DEFINE d == rd[r]
<1>0. Looking(r) /\ d.pc = "hash" /\ UNCHANGED <<config, dataVars, writeVars, may>>
  BY DEF LoadHash, Looking
<1>1. /\ d.key \in Keys /\ config \in Configs
      /\ d.val # NULL /\ (cells[d.val] = d.key => d.val \in may[r])
  BY <1>0, LookingFacts DEF Searching
<1>2. cells[d.val] \in Keys
  <2>1. d.val \in Reach(tabs, d)
    BY <1>1 DEF Reach
  <2> QED BY <2>1 DEF IInv, ReachKept, DataTypes
<1>3. match_key(d.val, d.key) <=> cells[d.val] = d.key
  BY <1>1, <1>2, MatchKey
<1>4. CASE Here(r).hash = Hash[d.key] /\ match_key(d.val, d.key)
  <2>1. Found(r, d.val)
    BY <1>4 DEF LoadHash
  <2> QED BY <1>0, <1>1, <1>3, <1>4, <2>1, FoundJ
<1>5. CASE ~(Here(r).hash = Hash[d.key] /\ match_key(d.val, d.key))
  <2>1. NextEntry(r)
    BY <1>5 DEF LoadHash
  <2>2. ~(Holds(Here(r), cells, d.key) /\ (d.pc = "hash" => cells[d.val] = d.key))
    BY <1>0, <1>3, <1>5 DEF Holds
  <2> QED BY <1>0, <2>1, <2>2, NextEntryJ
<1> QED
  BY <1>4, <1>5

LEMMA InitJ == Init => JInv
<1> SUFFICES ASSUME Init PROVE JInv
  OBVIOUS
<1>1. config \in Configs /\ InitLen \in Nat \ {0}
  BY InitLenType DEF Init
<1>2. /\ tabs[md] = NewTable(InitLen) /\ value_count = 0
      /\ wop = [w \in Writers |-> Idle] /\ rd = [r \in Readers |-> Outside]
      /\ may = [r \in Readers |-> {}]
  BY DEF Init
<1>3. \A s \in DOMAIN tabs[md].ent : tabs[md].ent[s].value = NULL
  <2>1. tabs[md].ent = [s \in Slots(InitLen) |-> Empty]
    BY <1>1, <1>2, NewTableFacts
  <2> QED BY <2>1, EntryFacts
<1>4. InTable(tabs[md]) = {} /\ Vals(tabs, md) = {}
  BY <1>3 DEF InTable, Vals
<1>5. Placed /\ OneEntry
  BY <1>4 DEF Placed, OneEntry, PlacedIn, OneIn
<1>6. Counted
  BY <1>2, <1>4, FS_EmptySet DEF Counted
<1>7. Making
  BY <1>2 DEF Making, Inserting, Idle
<1>8. Searches /\ GetCorrect
  BY <1>2 DEF Searches, Looking, GetCorrect, Outside
<1> QED
  BY <1>2, <1>5, <1>6, <1>7, <1>8 DEF JInv

LEMMA NextJ ==
  ASSUME KeysTold, IInv, JInv, IInv', [Next]_vars
  PROVE  JInv'
<1>1. ASSUME NEW r \in Readers, ReaderStep(r)
      PROVE  JInv'
  BY <1>1, ReadLockJ, GetStartJ, LoadValueJ, LoadHashJ DEF ReaderStep
<1>2. ASSUME NEW w \in Writers, Call(w), Seen
      PROVE  JInv'
  BY <1>2, InsertJ, ClearHashJ, FlushJ DEF Call
<1>3. ASSUME NEW w \in Writers, WriteLock(w) \/ WriteUnlock(w), Seen
      PROVE  JInv'
  BY <1>3, LockJ
<1>4. ASSUME NEW w \in Writers, InCall(w), Seen
      PROVE  JInv'
  <2>1. ASSUME InsertDuplicate(w) \/ InsertFull(w)
        PROVE  wop[w].pc = "insert" /\ Abandon(w)
    BY <2>1 DEF InsertDuplicate, InsertFull, Full
  <2> QED
    BY <1>4, <2>1, AbandonJ, ReplaceJ, StoreHashJ, StoreValueJ, GrowJ, ClearValueJ,
       SynchronizeJ DEF InCall
<1>5. ASSUME UNCHANGED vars
      PROVE  JInv'
  <2>1. UNCHANGED <<config, dataVars, writeVars, rd, may>>
    BY <1>5 DEF vars, readVars
  <2>2. UNCHANGED <<config, md, tabs, cells, value_count, wop, rd, may>>
    BY <2>1 DEF dataVars, writeVars, wpd
  <2>3. Placed' /\ OneEntry' /\ Making' /\ Counted'
    BY <2>2, TableKept
  <2>4. Searches' /\ GetCorrect' /\ may' \in [Readers -> SUBSET (Cells \cup {NULL})]
    BY <2>2 DEF JInv, Searches, GetCorrect, Looking
  <2> QED BY <2>3, <2>4 DEF JInv
<1> QED
  BY <1>1, <1>2, <1>3, <1>4, <1>5 DEF Next

LEMMA LookupInvariant ==
  ASSUME KeysTold
  PROVE  Spec => [](IInv /\ JInv)
<1>1. IInv /\ JInv /\ [Next]_vars => (IInv /\ JInv)'
  BY NextIInv, NextJ
<1>2. Init => IInv /\ JInv
  BY InitIInv, InitJ
<1> QED
  BY <1>1, <1>2, PTL DEF Spec

\* If keys are compared and have the same size, ossl_ht_get returns what its key
\* was mapped to at some time during the call, however the entry it looks at,
\* the table and the memory of both are changed and used again meanwhile.
THEOREM LookupsCorrect ==
  ASSUME KeysTold
  PROVE  Spec => []GetCorrect
<1>1. IInv /\ JInv => GetCorrect
  BY DEF JInv
<1> QED
  BY <1>1, LookupInvariant, PTL

LEMMA LookupFinds ==
  ASSUME KeysTold, IInv, JInv, NEW s \in InTable(tabs[md]), s \notin Unlinking
  PROVE  Lookup(cells[tabs[md].ent[s].value]) = tabs[md].ent[s].value
<1> DEFINE t == tabs[md]
           c == t.ent[s].value
           k == cells[c]
           ll == config.lockless_reads
           M == Matches(t, k)
           found == {i \in M : Before(t, k, i) /\ \A j \in M : i <= j}
<1>1. k \in Keys /\ IsTable(t) /\ ll \in BOOLEAN /\ config \in Configs
  BY TableKeys DEF IInv, DataTypes
<1>2. t.ent[s].hash = Hash[k]
  BY DEF JInv, Placed, PlacedIn
<1>3. PICK i0 \in Nat : GoesOn(ll, t, Hash[k], 0, i0) /\ Probe(t, Hash[k], i0) = s
  BY DEF JInv, Placed, PlacedIn
<1>4. EntryAt(t, Hash[k], i0) = t.ent[s] /\ c # NULL
  BY <1>3 DEF EntryAt, InTable
<1>5. match_key(c, k)
  BY <1>1, MatchKey
<1>6. ProbeLen(t) = ProbeEnd(ll, t) /\ ProbeEnd(ll, t) \in Nat
  BY <1>1, ProbeLenIs, ProbeEndType
<1>7. i0 \in 0 .. ProbeLen(t) - 1
  BY <1>3, <1>6 DEF GoesOn
<1>8. i0 \in M
  BY <1>2, <1>4, <1>5, <1>7 DEF Matches
<1>9. M \subseteq Nat
  BY <1>6 DEF Matches
<1>10. PICK i \in M : \A j \in M : i <= j
  <2> HIDE DEF M
  <2> QED BY <1>8, <1>9, SmallestNumber
<1>11. Before(t, k, i)
  <2> SUFFICES ASSUME ll, NEW j \in Vacant(t, k)
               PROVE  i < j
    BY DEF Before
  <2>1. j \in Nat /\ EntryAt(t, Hash[k], j).value = NULL
    BY <1>6 DEF Vacant
  <2>2. j \notin 0 .. i0 - 1
    BY <1>3, <2>1 DEF GoesOn
  <2>3. j # i0
    BY <1>4, <2>1
  <2>4. i <= i0 /\ i \in Nat
    BY <1>8, <1>9, <1>10
  <2> QED BY <2>1, <2>2, <2>3, <2>4
<1>12. i \in found
  BY <1>10, <1>11
<1>13. ASSUME NEW x \in M
       PROVE  EntryAt(t, Hash[k], x).value = c
  <2>1. LET u == Probe(t, Hash[k], x)
        IN  /\ u \in Slots(t.len) /\ t.ent[u].value # NULL /\ match_key(t.ent[u].value, k)
    BY <1>1, <1>13, MatchFacts
  <2>2. PICK u : u = Probe(t, Hash[k], x)
    OBVIOUS
  <2>3. u \in InTable(t) /\ match_key(t.ent[u].value, k)
    BY <2>1, <2>2, TableKeys DEF InTable
  <2>4. cells[t.ent[u].value] = k
    BY <1>1, <2>3, TableKeys, MatchKey
  <2>5. u = s
    BY <2>3, <2>4 DEF JInv, OneEntry, OneIn
  <2> QED BY <2>2, <2>5 DEF EntryAt
<1>14. Lookup(k) = IF found = {} THEN NULL
                   ELSE EntryAt(t, Hash[k], CHOOSE x \in found : TRUE).value
  BY DEF Lookup
<1>15. found # {} /\ found \subseteq M
  BY <1>12
<1> HIDE DEF found, M, t, c, k
<1>16. (CHOOSE x \in found : TRUE) \in M
  BY <1>15
<1> QED
  BY <1>13, <1>14, <1>15, <1>16 DEF t, c, k

\* If keys are compared and have the same size, every value in the published table
\* is found by an undisturbed lookup of its key, apart from the one that is being
\* deleted; ossl_ht_count is the number of values, and the writers know its size.
THEOREM TableConsistent ==
  ASSUME KeysTold
  PROVE  Spec => []Consistent
<1>1. ASSUME IInv, JInv
      PROVE  Consistent
  <2>1. ASSUME NEW s \in InTable(tabs[md])
        PROVE  LET c == tabs[md].ent[s].value
               IN  \/ Lookup(cells[c]) = c
                   \/ \E w \in Writers : wop[w].pc = "unlink" /\ wop[w].slot = s
    <3>1. CASE s \in Unlinking
      BY <3>1 DEF Unlinking
    <3>2. CASE s \notin Unlinking
      BY <1>1, <3>2, LookupFinds
    <3> QED BY <3>1, <3>2
  <2>2. value_count = Cardinality(InTable(tabs[md]))
    <3> DEFINE S == InTable(tabs[md])
               V == Vals(tabs, md)
               f == [s \in S |-> tabs[md].ent[s].value]
    <3>1. Distinct(tabs, md) /\ IsFiniteSet(V) /\ value_count = Cardinality(V)
      BY <1>1, ValsFinite DEF IInv, CellsOwned, JInv, Counted
    <3>2. f \in Injection(S, V)
      <4>1. f \in [S -> V]
        BY DEF InTable, Vals
      <4>2. \A a, b \in S : f[a] = f[b] => a = b
        BY <3>1 DEF InTable, Distinct
      <4>3. DOMAIN f = S
        OBVIOUS
      <4> HIDE DEF S, V, f
      <4> QED BY <4>1, <4>2, <4>3 DEF Injection, IsInjective
    <3>3. f \in Surjection(S, V)
      <4>1. f \in [S -> V]
        BY DEF InTable, Vals
      <4>2. \A v \in V : \E s \in S : f[s] = v
        BY DEF InTable, Vals
      <4> HIDE DEF S, V, f
      <4> QED BY <4>1, <4>2 DEF Surjection
    <3> HIDE DEF S, V, f
    <3>4. Cardinality(S) = Cardinality(V)
      BY <3>1, <3>2, <3>3, FS_Injection
    <3> QED BY <3>1, <3>4 DEF S
  <2>3. neighborhood_len = tabs[md].len
    BY <1>1 DEF IInv, DataTypes
  <2> QED
    BY <2>1, <2>2, <2>3 DEF Consistent
<1> QED
  BY <1>1, LookupInvariant, PTL
(***************************************************************************)
(* Types.                                                                  *)
(***************************************************************************)
\* A reader has a table only while it searches: TypeOK bounds its place in it.
TabWhileLooking == \A r \in Readers : rd[r].tab # NULL => Looking(r)

LEMMA TabKept ==
  ASSUME IInv, TabWhileLooking, [Next]_vars
  PROVE  TabWhileLooking'
<1>0. rd \in [Readers -> RdType]
  BY DEF IInv, ReaderTypes
<1>1. ASSUME UNCHANGED rd
      PROVE  TabWhileLooking'
  BY <1>1 DEF TabWhileLooking, Looking
<1>2. ASSUME NEW r \in Readers, NEW d, rd' = [rd EXCEPT ![r] = d],
             d.tab # NULL => d.pc \in {"load", "hash"}
      PROVE  TabWhileLooking'
  BY <1>0, <1>2 DEF TabWhileLooking, Looking
<1>3. ASSUME NEW r \in Readers, ReaderStep(r)
      PROVE  TabWhileLooking'
  <2>0. rd[r] \in RdType
    BY <1>0
  <2>1. ASSUME NEW v, Found(r, v)
        PROVE  TabWhileLooking'
    <3>1. rd' = [rd EXCEPT ![r] = [rd[r] EXCEPT !.pc = "got", !.tab = NULL,
                                                !.i = 0, !.val = v]]
      BY <2>1 DEF Found
    <3>2. [rd[r] EXCEPT !.pc = "got", !.tab = NULL, !.i = 0, !.val = v].tab = NULL
      BY <2>0 DEF RdType
    <3> QED BY <1>2, <3>1, <3>2
  <2>2. ASSUME NextEntry(r)
        PROVE  TabWhileLooking'
    <3> DEFINE d == [rd[r] EXCEPT !.pc = "load", !.i = rd[r].i + 1, !.val = NULL]
    <3>1. CASE Found(r, NULL)
      BY <2>1, <3>1
    <3>2. CASE rd' = [rd EXCEPT ![r] = d]
      <4>1. d.pc = "load"
        BY <2>0 DEF RdType
      <4> QED BY <1>2, <3>2, <4>1
    <3>3. rd' = [rd EXCEPT ![r].pc = "load", ![r].i = @ + 1, ![r].val = NULL] =>
            rd' = [rd EXCEPT ![r] = d]
      BY <1>0
    <3> QED BY <2>2, <3>1, <3>2, <3>3 DEF NextEntry
  <2>3. CASE ReadLock(r)
    BY <1>0, <2>0, <2>3 DEF ReadLock, TabWhileLooking, Looking, IInv, ReaderState, RdType
  <2>4. CASE ReadUnlock(r)
    BY <1>2, <2>4 DEF ReadUnlock, Outside
  <2>5. CASE \E k \in Keys : GetStart(r, k)
    <3>1. PICK k \in Keys : GetStart(r, k)
      BY <2>5
    <3> QED BY <1>2, <3>1 DEF GetStart
  <2>6. CASE LoadValue(r)
    <3>1. CASE rd' = [rd EXCEPT ![r].pc = "hash", ![r].val = Here(r).value]
      <4>1. rd' = [rd EXCEPT ![r] = [rd[r] EXCEPT !.pc = "hash", !.val = Here(r).value]]
        BY <1>0, <3>1
      <4>2. [rd[r] EXCEPT !.pc = "hash", !.val = Here(r).value].pc = "hash"
        BY <2>0 DEF RdType
      <4> QED BY <1>2, <4>1, <4>2
    <3> QED BY <2>1, <2>2, <2>6, <3>1 DEF LoadValue
  <2>7. CASE LoadHash(r)
    BY <2>1, <2>2, <2>7 DEF LoadHash
  <2> QED
    BY <1>3, <2>3, <2>4, <2>5, <2>6, <2>7 DEF ReaderStep
<1>4. CASE \E r \in Readers : ReaderStep(r)
  BY <1>3, <1>4
<1>5. CASE UNCHANGED vars
  BY <1>1, <1>5 DEF vars, readVars
<1>6. CASE Seen
  BY <1>1, <1>6 DEF Seen
<1> QED
  BY <1>4, <1>5, <1>6 DEF Next

\* The state stays well formed: the published table is allocated, every entry and
\* every callback is of its kind, no search goes past the entries of its table.
THEOREM TableTypes ==
  ASSUME KeysTold
  PROVE  Spec => []TypeOK
<1>1. ASSUME IInv, JInv, TabWhileLooking
      PROVE  TypeOK
  <2> USE <1>1
  <2>1. /\ inside \subseteq Readers /\ waiting \subseteq Writers
        /\ owed \in [Writers -> SUBSET Readers]
        /\ writer \in Writers \cup {NULL} /\ need_sync \in BOOLEAN
        /\ cb_items \subseteq Callback /\ cbs \in [Writers -> SUBSET Callback]
    BY DEF IInv, WriterTypes
  <2>2. /\ config \in Configs
        /\ DOMAIN tabs \subseteq Tables /\ md \in DOMAIN tabs
        /\ \A t \in DOMAIN tabs : tabs[t].ent \in [Slots(tabs[t].len) -> Entry]
        /\ DOMAIN cells \subseteq Cells /\ \A c \in DOMAIN cells : cells[c] \in Keys
        /\ neighborhood_len \in Nat \ {0}
    BY DEF IInv, DataTypes, IsTable
  <2>3. value_count \in Nat
    BY ValsFinite, FS_CardinalityType DEF JInv, Counted
  <2>4. \A w \in Writers :
          /\ wop[w].pc \in {"idle", "locked", "insert", "publish", "unlink", "sync",
                            "taken", "wait"}
          /\ wop[w].key \in Keys \cup {NULL} /\ wop[w].cell \in Cells \cup {NULL}
          /\ wop[w].olddata \in BOOLEAN /\ wop[w].tries \in 0 .. 4
    BY DEF IInv, WriterTypes, WopType
  <2>5. ASSUME NEW r \in Readers
        PROVE  /\ rd[r].pc \in {"out", "in", "load", "hash", "got"}
               /\ rd[r].key \in Keys \cup {NULL} /\ rd[r].tab \in Tables \cup {NULL}
               /\ rd[r].i \in Nat /\ rd[r].val \in Cells \cup {NULL}
               /\ rd[r].tab \in DOMAIN tabs => rd[r].i < ProbeLen(tabs[rd[r].tab])
               /\ may[r] \subseteq Cells \cup {NULL}
    <3>1. rd[r] \in RdType /\ may[r] \in SUBSET (Cells \cup {NULL})
      BY DEF IInv, ReaderTypes, JInv
    <3>2. ASSUME rd[r].tab \in DOMAIN tabs
          PROVE  rd[r].i < ProbeLen(tabs[rd[r].tab])
      <4>1. rd[r].tab # NULL
        BY <2>2, <3>2, KeysAssumption
      <4> QED BY <4>1 DEF TabWhileLooking, Looking, IInv, ReaderState
    <3> QED BY <3>1, <3>2 DEF RdType
  <2> QED
    BY <2>1, <2>2, <2>3, <2>4, <2>5 DEF TypeOK
<1>2. Init => TabWhileLooking
  BY DEF Init, TabWhileLooking, Outside
<1> QED
  BY <1>1, <1>2, TabKept, LookupInvariant, PTL DEF Spec
=============================================================================
