------------------------------ MODULE HashTable ------------------------------
(***************************************************************************)
(* The hash table of crypto/hashtable/hashtable.c on top of the RCU lock.  *)
(* Readers look keys up without excluding the writer: the writer changes   *)
(* hash and value of an entry with one atomic store each, replaces the     *)
(* whole table when it grows or is flushed, and hands everything it takes  *)
(* out to ossl_rcu_call, to be freed after a grace period.                 *)
(*                                                                         *)
(* The lock is the specification GracePeriod that Rcu implements: Enter    *)
(* and Leave are the read lock, Begin and End the wait of                  *)
(* ossl_synchronize_rcu.  Each atomic load or store another thread can     *)
(* tell from its neighbours is one step.  An allocation of a value or of a *)
(* table fails if no cell or no table is free to be taken; that of a       *)
(* callback may fail at any time.                                          *)
(***************************************************************************)
EXTENDS Integers, FiniteSets, GracePeriod

CONSTANTS
  Keys,
  Hash,         \* Hash[k]: what ht_hash_fn returns for k
  KeySize,      \* KeySize[k]: its keysize
  Cells,        \* memory for the ht_internal_value_st that wrap the values
  Tables,       \* memory for the ht_mutable_data_st and their neighborhoods
  NULL,
  NeighLen,     \* NEIGHBORHOOD_LEN
  DefaultLen,   \* DEFAULT_NEIGH_LEN
  Configs,      \* the configurations of the table
  MaxCalls      \* bound: how many calls change the table

ASSUME KeysAssumption ==
  /\ Hash \in [Keys -> Nat \ {0}] /\ KeySize \in [Keys -> Nat]
  /\ NULL \notin Cells \cup Tables \cup Writers
ASSUME SizesAssumption == {NeighLen, DefaultLen, MaxCalls} \subseteq Nat \ {0}
\* ossl_ht_new found the memory for the first table.
ASSUME MemoryAssumption == Tables # {}
ASSUME ConfigsAssumption ==
  /\ Configs \subseteq [lockless_reads : BOOLEAN, collision_check : BOOLEAN,
                        init_neighborhoods : Nat]
  \* ossl_ht_new rounds sizes of up to 32 bits.
  /\ \A c \in Configs : \E n \in 0 .. 32 : c.init_neighborhoods <= 2^n

VARIABLES
  config,            \* the table's configuration
  md,                \* the published table
  tabs,              \* the allocated tables and their contents
  cells              \* the allocated cells; cells[c]: the key c was made for
dataVars == <<md, tabs, cells>>

VARIABLES
  writer,            \* the thread holding the write lock, or NULL
  neighborhood_len, value_count, need_sync,        \* wpd
  cb_items,          \* the callbacks queued with ossl_rcu_call
  wop,               \* wop[w]: where writer w is, and its call's arguments
  cbs,               \* cbs[w]: the callbacks w's synchronize call took
  leaked,            \* history: the callbacks there was no memory to queue
  calls              \* how many calls there have been
wpd == <<neighborhood_len, value_count, need_sync>>
writeVars == <<writer, wpd, cb_items, wop, cbs, leaked, calls>>

VARIABLES
  rd,                \* rd[r]: where reader r is in its lookup
  may                \* history: may[r]: what r's key was mapped to (NULL: to
                     \*   nothing) at any time since r's lookup began
readVars == <<rd, may>>
vars == <<config, dataVars, writeVars, readVars, gpVars>>

Entry == [hash : {0} \cup {Hash[k] : k \in Keys}, value : Cells \cup {NULL}]
Empty == [hash |-> 0, value |-> NULL]
Slots(len) == (0 .. len - 1) \X (0 .. NeighLen - 1)

\* alloc_new_neighborhood_list: the neighborhoods are zeroed.
NewTable(len) == [len |-> len, ent |-> [s \in Slots(len) |-> Empty]]

\* The memory an allocation returns.  Which of the unused pieces it is makes no
\* difference, but pieces are used again as early as they can be.
Unused(memory, used) == CHOOSE m \in memory \ DOMAIN used : TRUE

Callback == [fn : {"free_oldmd", "free_old_neigh_table", "free_old_entry",
                   "free_old_ht_value"}, arg : Cells \cup Tables]

Outside == [pc |-> "out", key |-> NULL, tab |-> NULL, i |-> 0, val |-> NULL]
Idle == [pc |-> "idle", key |-> NULL, cell |-> NULL, olddata |-> FALSE,
         tries |-> 0, slot |-> NULL]

\* The size ossl_ht_new starts with: a power of 2.
InitLen ==
  IF config.init_neighborhoods = 0 THEN DefaultLen
  ELSE 2^(CHOOSE n \in 0 .. 32 : /\ 2^n >= config.init_neighborhoods
                                 /\ \A m \in 0 .. n - 1 :
                                      2^m < config.init_neighborhoods)

\* ossl_ht_new.
Init ==
  /\ GPInit
  /\ config \in Configs
  /\ md = Unused(Tables, <<>>)
  /\ tabs = [t \in {md} |-> NewTable(InitLen)]
  /\ cells = [c \in {} |-> NULL]
  /\ writer = NULL /\ cb_items = {}
  /\ neighborhood_len = InitLen /\ value_count = 0 /\ need_sync = FALSE
  /\ wop = [w \in Writers |-> Idle]
  /\ cbs = [w \in Writers |-> {}] /\ leaked = {} /\ calls = 0
  /\ rd = [r \in Readers |-> Outside]
  /\ may = [r \in Readers |-> {}]

(***************************************************************************)
(* Searching.                                                              *)
(***************************************************************************)
\* The entries a search for hash h visits: one neighborhood, or with
\* lockless_reads this one and all that follow it, round to the start.
ProbeLen(t) == IF config.lockless_reads THEN t.len * NeighLen ELSE NeighLen
Probe(t, h, i) == <<(h + (i \div NeighLen)) % t.len, i % NeighLen>>

\* Fault: entries whose hashes are the same are taken for the same key.
match_key_hash(c, k) == TRUE

\* Keys that are not stored, or differ in size, match.
match_key(c, k) ==
  config.collision_check /\ KeySize[cells[c]] = KeySize[k] => cells[c] = k

EntryAt(t, h, i) == t.ent[Probe(t, h, i)]

Matches(t, k) ==
  {i \in 0 .. ProbeLen(t) - 1 :
     LET e == EntryAt(t, Hash[k], i)
     IN  e.value # NULL /\ e.hash = Hash[k] /\ match_key(e.value, k)}

Vacant(t, k) == {i \in 0 .. ProbeLen(t) - 1 : EntryAt(t, Hash[k], i).value = NULL}

\* With lockless_reads a search ends at the first entry without a value.
Before(t, k, i) == config.lockless_reads => \A j \in Vacant(t, k) : i < j

\* What a lookup of k may return: the value made for k that is in the published
\* table, nothing if there is none, and either of the two while a deletion has
\* cleared the hash of k's entry and not yet its value.
Mapped(k) ==
  LET entries == {e \in {tabs[md].ent[s] : s \in DOMAIN tabs[md].ent} :
                    e.value # NULL /\ cells[e.value] = k}
  IN  {e.value : e \in entries}
        \cup (IF \E e \in entries : e.hash # 0 THEN {} ELSE {NULL})

(***************************************************************************)
(* Readers.                                                                *)
(***************************************************************************)
\* ossl_ht_read_lock and ossl_ht_read_unlock.  Tables with lockless_reads are
\* read without them.
ReadLock(r) ==
  /\ ~config.lockless_reads
  /\ rd[r].pc = "out"
  /\ Enter(r)
  /\ rd' = [rd EXCEPT ![r].pc = "in"]
  /\ UNCHANGED <<config, dataVars, writeVars, may>>

ReadUnlock(r) ==
  /\ rd[r].pc \in {"in", "got"}
  /\ IF config.lockless_reads THEN UNCHANGED gpVars ELSE Leave(r)
  /\ rd' = [rd EXCEPT ![r] = Outside]
  /\ may' = [may EXCEPT ![r] = {}]
  /\ UNCHANGED <<config, dataVars, writeVars>>

\* ossl_ht_get up to and including the load of h->md.
GetStart(r, k) ==
  /\ rd[r].pc = (IF config.lockless_reads THEN "out" ELSE "in")
  /\ rd' = [rd EXCEPT ![r] = [pc |-> "load", key |-> k, tab |-> md, i |-> 0,
                              val |-> NULL]]
  /\ may' = [may EXCEPT ![r] = Mapped(k)]
  /\ UNCHANGED <<config, dataVars, writeVars, gpVars>>

Found(r, v) == rd' = [rd EXCEPT ![r] = [@ EXCEPT !.pc = "got", !.tab = NULL,
                                                 !.i = 0, !.val = v]]

NextEntry(r) ==
  IF rd[r].i + 1 = ProbeLen(tabs[rd[r].tab])
  THEN Found(r, NULL)
  ELSE rd' = [rd EXCEPT ![r].pc = "load", ![r].i = @ + 1, ![r].val = NULL]

Here(r) == EntryAt(tabs[rd[r].tab], Hash[rd[r].key], rd[r].i)

\* One entry: first its value is loaded, then its hash; the two need not
\* belong together any more.
LoadValue(r) ==
  /\ rd[r].pc = "load"
  /\ CASE Here(r).value # NULL ->
            rd' = [rd EXCEPT ![r].pc = "hash", ![r].val = Here(r).value]
       [] Here(r).value = NULL /\ config.lockless_reads -> Found(r, NULL)
       [] OTHER -> NextEntry(r)
  /\ UNCHANGED <<config, dataVars, writeVars, may, gpVars>>

LoadHash(r) ==
  /\ rd[r].pc = "hash"
  /\ IF Here(r).hash = Hash[rd[r].key] /\ match_key(rd[r].val, rd[r].key)
     THEN Found(r, rd[r].val)
     ELSE NextEntry(r)
  /\ UNCHANGED <<config, dataVars, writeVars, may, gpVars>>

(***************************************************************************)
(* Writers.                                                                *)
(***************************************************************************)
\* ossl_rcu_call, the result of which nobody looks at: it fails for want of
\* memory, and then nothing will ever free arg.
RcuCall(fn, arg) ==
  \/ /\ cb_items' = cb_items \cup {[fn |-> fn, arg |-> arg]}
     /\ UNCHANGED leaked
  \/ /\ leaked' = leaked \cup {[fn |-> fn, arg |-> arg]}
     /\ UNCHANGED cb_items

GoTo(w, pc) == wop' = [wop EXCEPT ![w].pc = pc]
Locked == [Idle EXCEPT !.pc = "locked"]
Done(w) == wop' = [wop EXCEPT ![w] = Locked]

WriteLock(w) ==
  /\ wop[w].pc = "idle"
  /\ writer = NULL
  /\ writer' = w
  /\ need_sync' = FALSE
  /\ GoTo(w, "locked")
  /\ UNCHANGED <<dataVars, neighborhood_len, value_count, cb_items, cbs, leaked, gpVars>>

\* need_sync is read before the lock is given up.
WriteUnlock(w) ==
  /\ wop[w].pc = "locked"
  /\ writer' = NULL
  /\ need_sync' = FALSE
  /\ GoTo(w, IF need_sync THEN "sync" ELSE "idle")
  /\ UNCHANGED <<dataVars, neighborhood_len, value_count, cb_items, cbs, leaked, gpVars>>

\* ossl_ht_insert allocates the wrapper and tries ossl_ht_insert_locked.  Only
\* additions are made to a table with lockless_reads.
Insert(w, k, olddata) ==
  /\ wop[w].pc = "locked"
  /\ config.lockless_reads => ~olddata
  /\ Cells # DOMAIN cells
  /\ LET c == Unused(Cells, cells)
     IN
       /\ cells' = [d \in DOMAIN cells \cup {c} |-> IF d = c THEN k ELSE cells[d]]
       /\ wop' = [wop EXCEPT ![w] = [pc |-> "insert", key |-> k, cell |-> c,
                                     olddata |-> olddata, tries |-> 0,
                                     slot |-> NULL]]
  /\ UNCHANGED <<md, tabs, writer, wpd, cb_items, cbs, leaked, gpVars>>

\* The matches ossl_ht_insert_locked comes across.
Present(k) == {i \in Matches(tabs[md], k) : Before(tabs[md], k, i)}

SetEntry(s, e) == tabs' = [tabs EXCEPT ![md].ent[s] = e]

\* Fault: the wrapper of an insertion that failed is forgotten.
AbandonLeaks(w) ==
  /\ Done(w)
  /\ UNCHANGED <<dataVars, writer, wpd, cb_items, cbs, leaked, gpVars>>

\* free_value after an insertion that did not succeed.
Abandon(w) ==
  /\ cells' = [d \in DOMAIN cells \ {wop[w].cell} |-> cells[d]]
  /\ Done(w)
  /\ UNCHANGED <<md, tabs, writer, wpd, cb_items, cbs, leaked, gpVars>>

InsertDuplicate(w) ==
  /\ wop[w].pc = "insert"
  /\ Present(wop[w].key) # {} /\ ~wop[w].olddata
  /\ Abandon(w)

\* The first match is replaced; its hash is stored again and stays the same.
Replace(w) ==
  /\ wop[w].pc = "insert"
  /\ Present(wop[w].key) # {} /\ wop[w].olddata
  /\ LET i == CHOOSE x \in Present(wop[w].key) : \A y \in Present(wop[w].key) : x <= y
         s == Probe(tabs[md], Hash[wop[w].key], i)
     IN  /\ SetEntry(s, [hash |-> Hash[wop[w].key], value |-> wop[w].cell])
         /\ RcuCall("free_old_ht_value", tabs[md].ent[s].value)
  /\ need_sync' = TRUE
  /\ Done(w)
  /\ UNCHANGED <<md, cells, writer, neighborhood_len, value_count, cbs, gpVars>>

\* Otherwise the last vacant entry is taken (with lockless_reads the first):
\* its hash is stored, then its value.
StoreHash(w) ==
  /\ wop[w].pc = "insert"
  /\ Present(wop[w].key) = {}
  /\ \E i \in Vacant(tabs[md], wop[w].key) :
       /\ \A j \in Vacant(tabs[md], wop[w].key) :
            IF config.lockless_reads THEN i <= j ELSE i >= j
       /\ LET s == Probe(tabs[md], Hash[wop[w].key], i)
          IN  /\ tabs' = [tabs EXCEPT ![md].ent[s].hash = Hash[wop[w].key]]
              /\ wop' = [wop EXCEPT ![w].pc = "publish", ![w].slot = s]
  /\ UNCHANGED <<md, cells, writer, wpd, cb_items, cbs, leaked, gpVars>>

StoreValue(w) ==
  /\ wop[w].pc = "publish"
  /\ tabs' = [tabs EXCEPT ![md].ent[wop[w].slot].value = wop[w].cell]
  /\ value_count' = value_count + 1
  /\ Done(w)
  /\ UNCHANGED <<md, cells, writer, neighborhood_len, need_sync, cb_items, cbs, leaked, gpVars>>

Full(w) ==
  /\ wop[w].pc = "insert"
  /\ Present(wop[w].key) = {} /\ Vacant(tabs[md], wop[w].key) = {}

\* The entries of t whose hash falls into neighborhood n of len, and the
\* order in which they are moved there.
Moved(t, len, n) == {s \in Slots(neighborhood_len) :
                       t.ent[s].value # NULL /\ t.ent[s].hash % len = n}
Earlier(s, u) == s[1] < u[1] \/ (s[1] = u[1] /\ s[2] < u[2])

\* The size is doubled until no neighborhood overflows.
Fits(t, len) == \A n \in 0 .. len - 1 : Cardinality(Moved(t, len, n)) <= NeighLen
NoSizeFits(t, len) == \A k \in 1 .. 64 : ~Fits(t, len * 2^k)
GrowLen(t, len) ==
  LET k == CHOOSE k \in 1 .. 64 : /\ Fits(t, len * 2^k)
                                  /\ \A j \in 1 .. k - 1 : ~Fits(t, len * 2^j)
  IN  len * 2^k

\* grow_hashtable fails, for want of memory at the latest when no size will do,
\* or four times was not enough.
InsertFull(w) ==
  /\ Full(w)
  /\ \/ config.lockless_reads
     \/ Tables = DOMAIN tabs
     \/ wop[w].tries = 4
     \/ NoSizeFits(tabs[md], neighborhood_len)
  /\ Abandon(w)

\* Fault: the entries are moved by the old mask.
RehashOldMask(t, len) ==
  [len |-> len, ent |-> [s \in Slots(len) |->
                           IF s \in DOMAIN t.ent THEN t.ent[s] ELSE Empty]]

Rehash(t, len) ==
  [len |-> len,
   ent |-> [s \in Slots(len) |->
              LET m == Moved(t, len, s[1])
                  here == {u \in m : Cardinality({x \in m : Earlier(x, u)}) = s[2]}
              IN  IF here = {} THEN Empty ELSE t.ent[CHOOSE u \in here : TRUE]]]

\* Fault: nobody is told that the old table waits for a grace period.
GrowUnsynced(w) ==
  /\ Full(w)
  /\ ~config.lockless_reads
  /\ wop[w].tries < 4
  /\ Tables # DOMAIN tabs
  /\ ~NoSizeFits(tabs[md], neighborhood_len)
  /\ LET t == Unused(Tables, tabs)
         len == GrowLen(tabs[md], neighborhood_len)
       IN  /\ tabs' = [u \in DOMAIN tabs \cup {t} |->
                         IF u = t THEN Rehash(tabs[md], len) ELSE tabs[u]]
           /\ neighborhood_len' = len
           /\ md' = t
  /\ RcuCall("free_old_neigh_table", md)
  /\ wop' = [wop EXCEPT ![w].tries = @ + 1]
  /\ UNCHANGED <<cells, writer, value_count, need_sync, cbs, gpVars>>

\* grow_hashtable: the new table is filled before it is published.
Grow(w) ==
  /\ Full(w)
  /\ ~config.lockless_reads
  /\ wop[w].tries < 4
  /\ Tables # DOMAIN tabs
  /\ ~NoSizeFits(tabs[md], neighborhood_len)
  /\ LET t == Unused(Tables, tabs)
         len == GrowLen(tabs[md], neighborhood_len)
       IN  /\ tabs' = [u \in DOMAIN tabs \cup {t} |->
                         IF u = t THEN Rehash(tabs[md], len) ELSE tabs[u]]
           /\ neighborhood_len' = len
           /\ md' = t
  /\ RcuCall("free_old_neigh_table", md)
  /\ need_sync' = TRUE
  /\ wop' = [wop EXCEPT ![w].tries = @ + 1]
  /\ UNCHANGED <<cells, writer, value_count, cbs, gpVars>>

\* ossl_ht_delete: the hash is cleared, then the value.
ClearHash(w, k) ==
  /\ wop[w].pc = "locked"
  /\ ~config.lockless_reads
  /\ \E i \in Matches(tabs[md], k) :
       /\ \A j \in Matches(tabs[md], k) : i <= j
       /\ LET s == Probe(tabs[md], Hash[k], i)
          IN  /\ tabs' = [tabs EXCEPT ![md].ent[s].hash = 0]
              /\ wop' = [wop EXCEPT ![w].pc = "unlink", ![w].slot = s]
  /\ UNCHANGED <<md, cells, writer, wpd, cb_items, cbs, leaked, gpVars>>

\* Fault: the value is freed at once, as without RCU.
ClearValueFrees(w) ==
  /\ wop[w].pc = "unlink"
  /\ LET c == tabs[md].ent[wop[w].slot].value
     IN  cells' = [d \in DOMAIN cells \ {c} |-> cells[d]]
  /\ tabs' = [tabs EXCEPT ![md].ent[wop[w].slot].value = NULL]
  /\ value_count' = value_count - 1
  /\ need_sync' = TRUE
  /\ Done(w)
  /\ UNCHANGED <<md, writer, neighborhood_len, cb_items, cbs, leaked, gpVars>>

ClearValue(w) ==
  /\ wop[w].pc = "unlink"
  /\ tabs' = [tabs EXCEPT ![md].ent[wop[w].slot].value = NULL]
  /\ RcuCall("free_old_entry", tabs[md].ent[wop[w].slot].value)
  /\ value_count' = value_count - 1
  /\ need_sync' = TRUE
  /\ Done(w)
  /\ UNCHANGED <<md, cells, writer, neighborhood_len, cbs, gpVars>>

\* ossl_ht_flush: an empty table of the default size takes the place of the
\* old one, which is freed with the values it holds.
Flush(w) ==
  /\ wop[w].pc = "locked"
  /\ ~config.lockless_reads
  /\ Tables # DOMAIN tabs
  /\ LET t == Unused(Tables, tabs)
     IN
       /\ tabs' = [u \in DOMAIN tabs \cup {t} |->
                     IF u = t THEN NewTable(DefaultLen) ELSE tabs[u]]
       /\ md' = t
  /\ value_count' = 0
  /\ neighborhood_len' = DefaultLen
  /\ RcuCall("free_oldmd", md)
  /\ need_sync' = TRUE
  /\ UNCHANGED <<cells, writer, wop, cbs, gpVars>>

(***************************************************************************)
(* ossl_synchronize_rcu.                                                   *)
(***************************************************************************)
TakeCallbacks(w) ==
  /\ wop[w].pc = "sync"
  /\ writer = NULL
  /\ cbs' = [cbs EXCEPT ![w] = cb_items]
  /\ cb_items' = {}
  /\ GoTo(w, "taken")
  /\ UNCHANGED <<dataVars, writer, wpd, leaked, gpVars>>

GraceBegins(w) ==
  /\ wop[w].pc = "taken"
  /\ Begin(w)
  /\ GoTo(w, "wait")
  /\ UNCHANGED <<dataVars, writer, wpd, cb_items, cbs, leaked>>

\* What a callback frees.
CellsOf(cb) ==
  CASE cb.fn = "free_oldmd" -> {e.value : e \in {tabs[cb.arg].ent[s] :
                                  s \in DOMAIN tabs[cb.arg].ent}} \ {NULL}
    [] cb.fn = "free_old_neigh_table" -> {}
    [] OTHER -> {cb.arg}
TablesOf(cb) ==
  IF cb.fn \in {"free_oldmd", "free_old_neigh_table"} THEN {cb.arg} ELSE {}

RunCallbacks(w) ==
  /\ wop[w].pc = "wait"
  /\ End(w)
  /\ LET freed == UNION {CellsOf(cb) : cb \in cbs[w]}
         gone == UNION {TablesOf(cb) : cb \in cbs[w]}
     IN  /\ cells' = [c \in DOMAIN cells \ freed |-> cells[c]]
         /\ tabs' = [t \in DOMAIN tabs \ gone |-> tabs[t]]
  /\ cbs' = [cbs EXCEPT ![w] = {}]
  /\ GoTo(w, "idle")
  /\ UNCHANGED <<md, writer, wpd, cb_items, leaked>>

Call(w) ==
  /\ calls < MaxCalls
  /\ calls' = calls + 1
  /\ \/ \E k \in Keys : \/ \E olddata \in BOOLEAN : Insert(w, k, olddata)
                        \/ ClearHash(w, k)
     \/ Flush(w)

InCall(w) ==
  \/ InsertDuplicate(w) \/ Replace(w) \/ StoreHash(w) \/ StoreValue(w)
  \/ InsertFull(w) \/ Grow(w) \/ ClearValue(w)
  \/ TakeCallbacks(w) \/ GraceBegins(w) \/ RunCallbacks(w)

Looking(r) == rd[r].pc \in {"load", "hash"}

\* Every step of a writer adds what the readers' keys are mapped to after it.
Seen ==
  /\ UNCHANGED <<config, rd>>
  /\ may' = [r \in Readers |->
               IF Looking(r) THEN may[r] \cup Mapped(rd[r].key)' ELSE may[r]]

ReaderStep(r) ==
  \/ ReadLock(r) \/ ReadUnlock(r) \/ LoadValue(r) \/ LoadHash(r)
  \/ \E k \in Keys : GetStart(r, k)

Next ==
  \/ \E r \in Readers : ReaderStep(r)
  \/ \E w \in Writers : Call(w) /\ Seen
  \/ \E w \in Writers : /\ WriteLock(w) \/ WriteUnlock(w) \/ InCall(w)
                        /\ Seen
                        /\ UNCHANGED calls

Spec == Init /\ [][Next]_vars

(***************************************************************************)
(* Properties.                                                             *)
(***************************************************************************)
\* The state is well formed: the published table is allocated, and no search
\* goes past the entries of its table.
TypeOK ==
  /\ inside \subseteq Readers /\ waiting \subseteq Writers
  /\ owed \in [Writers -> SUBSET Readers]
  /\ config \in Configs
  /\ DOMAIN tabs \subseteq Tables /\ md \in DOMAIN tabs
  /\ \A t \in DOMAIN tabs : tabs[t].ent \in [Slots(tabs[t].len) -> Entry]
  /\ DOMAIN cells \subseteq Cells /\ \A c \in DOMAIN cells : cells[c] \in Keys
  /\ writer \in Writers \cup {NULL}
  /\ neighborhood_len \in Nat \ {0} /\ value_count \in Nat /\ need_sync \in BOOLEAN
  /\ cb_items \subseteq Callback /\ cbs \in [Writers -> SUBSET Callback]
  /\ \A w \in Writers :
       /\ wop[w].pc \in {"idle", "locked", "insert", "publish", "unlink", "sync",
                         "taken", "wait"}
       /\ wop[w].key \in Keys \cup {NULL} /\ wop[w].cell \in Cells \cup {NULL}
       /\ wop[w].olddata \in BOOLEAN /\ wop[w].tries \in 0 .. 4
  /\ \A r \in Readers :
       /\ rd[r].pc \in {"out", "in", "load", "hash", "got"}
       /\ rd[r].key \in Keys \cup {NULL} /\ rd[r].tab \in Tables \cup {NULL}
       /\ rd[r].i \in Nat /\ rd[r].val \in Cells \cup {NULL}
       /\ rd[r].tab \in DOMAIN tabs => rd[r].i < ProbeLen(tabs[rd[r].tab])
       /\ may[r] \subseteq Cells \cup {NULL}

\* Neither the table a lookup walks through nor a value it has loaded or
\* returned is freed before the reader leaves, whatever is replaced, deleted,
\* grown or flushed meanwhile.
NoUseAfterFree ==
  \A r \in Readers : /\ rd[r].tab \in DOMAIN tabs \cup {NULL}
                     /\ rd[r].val \in DOMAIN cells \cup {NULL}

\* ossl_ht_get returns what its key was mapped to at some time during the call
\* (a deletion that is under way may go either way): no key is missed that was
\* there throughout, and nothing is returned that was never the key's value.
GetCorrect ==
  \A r \in Readers : rd[r].pc = "got" => rd[r].val \in may[r]

\* What a lookup of k finds in the published table that nobody disturbs.
Lookup(k) ==
  LET t == tabs[md]
      found == {i \in Matches(t, k) :
                  Before(t, k, i) /\ \A j \in Matches(t, k) : i <= j}
  IN  IF found = {} THEN NULL
      ELSE EntryAt(t, Hash[k], CHOOSE i \in found : TRUE).value

InTable(t) == {s \in DOMAIN t.ent : t.ent[s].value # NULL}

\* Every value in the published table is the one its key is mapped to: entries
\* stay where the searches look for them, and no key is there twice (the entry
\* ossl_ht_delete is about to clear apart).  ossl_ht_count is the number of values
\* in the table, and the size the writers work with is that of the published one.
Consistent ==
  /\ \A s \in InTable(tabs[md]) :
       LET c == tabs[md].ent[s].value
       IN  \/ Lookup(cells[c]) = c
           \/ \E w \in Writers : wop[w].pc = "unlink" /\ wop[w].slot = s
  /\ value_count = Cardinality(InTable(tabs[md]))
  /\ neighborhood_len = tabs[md].len

Pending == cb_items \cup UNION {cbs[w] : w \in Writers}

\* What was taken out, and not freed so far.
Removed == Pending \cup leaked

\* Each wrapper that is allocated is in the table, or with the insertion that
\* made it, or is freed by one of the callbacks; the same goes for the tables.
OwnedBy(callbacks) ==
  /\ \A c \in DOMAIN cells :
       Cardinality({s \in InTable(tabs[md]) : tabs[md].ent[s].value = c})
       + Cardinality({w \in Writers : wop[w].cell = c})
       + Cardinality({cb \in callbacks : c \in CellsOf(cb)}) = 1
  /\ \A t \in DOMAIN tabs :
       (IF md = t THEN 1 ELSE 0)
       + Cardinality({cb \in callbacks : t \in TablesOf(cb)}) = 1

\* Every wrapper and every table that is taken out of use is freed, and once, by
\* the callback that is queued for it; it leaks if there was no memory to queue
\* that, and in no other case.
Accounted ==
  /\ OwnedBy(Removed)
  /\ \A v, w \in Writers : v # w => cbs[v] \cap (cbs[w] \cup cb_items) = {}
  /\ leaked \cap Pending = {}

\* ossl_rcu_call "enqueues a callback function to the lock" (its man page, where
\* it is of type void): nothing leaks.
NothingLeaks == OwnedBy(Pending)

\* No callback is left behind: while one is queued, the writer in the section
\* knows that it has to synchronize, or somebody is about to.
SyncDue == cb_items # {} => need_sync \/ \E w \in Writers : wop[w].pc = "sync"
=============================================================================
