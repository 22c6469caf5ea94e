------------------------------ MODULE HashMap ------------------------------
(***************************************************************************)
(* The open-addressing string table of src/src/hashmap.rs and the two ways *)
(* the compiler uses it: the macro table of the preprocessor, which stores *)
(* without looking and deletes, and the scopes, tags and keyword tables of *)
(* the parser and tokenizer, which look first and never delete.            *)
(*                                                                         *)
(* A put or a delete is one step, except that a rehash drains the old      *)
(* buckets one step at a time, as its for loop does; the caller's put is   *)
(* pending in "op" until the new table replaces the old one.               *)
(***************************************************************************)
EXTENDS Integers, FiniteSets

CONSTANTS
  Keys,        \* the strings used as keys (a key stands for its bytes)
  Vals,        \* the non-null values stored
  NoVal,       \* the null pointer hashmap_get2 answers for an absent key
  Null,        \* key of a bucket never used since the table was allocated
  TOMBSTONE,   \* key of a bucket whose entry was deleted
  Hash,        \* fnv_hash, any function from the keys to 0 .. HashModulus-1
  HashModulus, \* 2^64 in the code: probe_index adds with wrap-around
  INIT_SIZE,   \* the first capacity, 16 in the code
  Capacities   \* the capacities modelled: INIT_SIZE doubled, up to a bound

HIGH_WATERMARK == 70
LOW_WATERMARK  == 50

ASSUME SentinelAssumption ==
  /\ Null \notin Keys /\ TOMBSTONE \notin Keys /\ Null # TOMBSTONE
  /\ NoVal \notin Vals

ASSUME HashAssumption ==
  /\ HashModulus \in Nat \ {0}
  /\ Hash \in [Keys -> 0..(HashModulus - 1)]

\* INIT_SIZE * 0.7 + 1 must fit in INIT_SIZE, and every capacity divides the
\* modulus of the wrapping addition (both are powers of two in the code).
ASSUME CapacityAssumption ==
  /\ INIT_SIZE \in Capacities
  /\ \A c \in Capacities : /\ c \in Nat /\ c >= INIT_SIZE
                           /\ HashModulus % c = 0
  /\ INIT_SIZE \in Nat /\ INIT_SIZE >= 4

VARIABLES
  map,    \* the table: buckets, capacity, used
  new,    \* map2 while a rehash runs, Unallocated otherwise
  drain,  \* the next bucket of map the rehash drains
  pc,     \* "idle", "rehash", or "panicked" once an assertion has failed
  op      \* the last request made of the table

vars == <<map, new, drain, pc, op>>

Empty == [key |-> Null, val |-> NoVal]
\* The code leaves the value of a deleted bucket; no code reads it again
\* before hashmap_put2 has overwritten it, so the model forgets it.
Deleted == [key |-> TOMBSTONE, val |-> NoVal]
Fresh(c) == [buckets |-> [i \in 0..(c - 1) |-> Empty], capacity |-> c, used |-> 0]
Unallocated == [buckets |-> [i \in {} |-> Empty], capacity |-> 0, used |-> 0]

(***************************************************************************)
(* Probing.  The i-th bucket looked at for k, and the first one where the  *)
(* loop of get_entry or of get_or_insert_entry returns.                    *)
(***************************************************************************)
Slot(m, k, i) == ((Hash[k] + i) % HashModulus) % m.capacity

KeyAt(m, k, i) == m.buckets[Slot(m, k, i)].key

Occupied(m) == {i \in DOMAIN m.buckets : m.buckets[i].key \in Keys}

NonNull(m) == {i \in DOMAIN m.buckets : m.buckets[i].key # Null}

\* The probes at which a search for k among the keys in S stops: the first.
FirstProbe(m, k, S) ==
  {i \in 0..(m.capacity - 1) : /\ KeyAt(m, k, i) \in S
                               /\ \A j \in 0..(i - 1) : KeyAt(m, k, j) \notin S}

\* Seeded fault: the search takes a tombstone for the end of the cluster.
EntryStopsAtTombstone(m, k) ==
  {Slot(m, k, i) : i \in {j \in FirstProbe(m, k, {k, TOMBSTONE, Null}) : KeyAt(m, k, j) = k}}

\* get_entry: the bucket of k, or none.
Entry(m, k) ==
  {Slot(m, k, i) : i \in {j \in FirstProbe(m, k, {k, Null}) : KeyAt(m, k, j) = k}}

hashmap_get2(m, k) ==
  IF Entry(m, k) = {} THEN NoVal ELSE m.buckets[CHOOSE i \in Entry(m, k) : TRUE].val

\* get_or_insert_entry: the bucket that will hold k.  The loop stops at a
\* tombstone without looking whether k occurs further along.
InsertionSlot(m, k) ==
  {Slot(m, k, i) : i \in FirstProbe(m, k, {k, TOMBSTONE, Null})}

\* hashmap_put2 once the bucket is known.
Store(m, idx, k, v) ==
  [buckets  |-> [m.buckets EXCEPT ![idx] = [key |-> k, val |-> v]],
   capacity |-> m.capacity,
   used     |-> IF m.buckets[idx].key = Null THEN m.used + 1 ELSE m.used]

(***************************************************************************)
(* Growing.                                                                *)
(***************************************************************************)
NeedsRehash(m) == (m.used * 100) \div m.capacity >= HIGH_WATERMARK

Dense(n, c) == (n * 100) \div c >= LOW_WATERMARK

\* Seeded fault: the new table is no larger than the old one.
NewCapacitySame(m) == {c \in Capacities : c = m.capacity}

\* The first capacity, doubling from the present one, that is not dense.
\* Empty when that is above the modelled bound.
NewCapacity(m) ==
  LET nkeys == Cardinality(Occupied(m)) IN
  {c \in Capacities : /\ c >= m.capacity
                      /\ ~Dense(nkeys, c)
                      /\ \A d \in Capacities : m.capacity <= d /\ d < c => Dense(nkeys, d)}

(***************************************************************************)
(* Operations.                                                             *)
(***************************************************************************)
Init ==
  /\ map = Unallocated
  /\ new = Unallocated
  /\ drain = 0
  /\ pc = "idle"
  /\ op = <<"none">>

\* hashmap_put2 when the table has room (or is allocated by this call).
Put(k, v) ==
  LET m == IF map.capacity = 0 THEN Fresh(INIT_SIZE) ELSE map IN
  /\ pc = "idle"
  /\ ~NeedsRehash(m)
  /\ \E idx \in InsertionSlot(m, k) : map' = Store(m, idx, k, v)
  /\ op' = <<"put", k, v>>
  /\ UNCHANGED <<new, drain, pc>>

\* hashmap_put2 on a table at the high watermark: rehash starts.
BeginRehash(k, v) ==
  /\ pc = "idle"
  /\ map.capacity # 0 /\ NeedsRehash(map)
  /\ \E c \in NewCapacity(map) : new' = Fresh(c)
  /\ drain' = 0
  /\ pc' = "rehash"
  /\ op' = <<"put", k, v>>
  /\ UNCHANGED map

\* One turn of the loop over map.buckets.drain(..).
Drain ==
  /\ pc = "rehash" /\ drain < map.capacity
  /\ drain' = drain + 1
  /\ LET ent == map.buckets[drain] IN
       IF ent.key \in Keys
         THEN /\ ~NeedsRehash(new)
              /\ \E idx \in InsertionSlot(new, ent.key) : new' = Store(new, idx, ent.key, ent.val)
         ELSE UNCHANGED new
  /\ UNCHANGED <<map, pc, op>>

AllDrained == pc = "rehash" /\ drain = map.capacity

\* The assertion holds: map2 replaces map and the pending put goes on.
FinishRehash ==
  /\ AllDrained
  /\ new.used = Cardinality(Occupied(map))
  /\ \E idx \in InsertionSlot(new, op[2]) : map' = Store(new, idx, op[2], op[3])
  /\ new' = Unallocated
  /\ drain' = 0
  /\ pc' = "idle"
  /\ UNCHANGED op

\* assert_eq!(map2.used, nkeys) fails and the compiler dies.
AssertFails ==
  /\ AllDrained
  /\ new.used # Cardinality(Occupied(map))
  /\ pc' = "panicked"
  /\ UNCHANGED <<map, new, drain, op>>

Rehashing == Drain \/ FinishRehash \/ AssertFails

\* Seeded fault: a deleted bucket no longer counts as used.
DeleteUncounts(k) ==
  /\ pc = "idle"
  /\ IF Entry(map, k) = {}
       THEN UNCHANGED map
       ELSE \E idx \in Entry(map, k) :
              map' = [map EXCEPT !.buckets = [@ EXCEPT ![idx] = Deleted], !.used = @ - 1]
  /\ op' = <<"delete", k>>
  /\ UNCHANGED <<new, drain, pc>>

\* hashmap_delete2: the bucket becomes a tombstone, "used" is not touched.
Delete(k) ==
  /\ pc = "idle"
  /\ IF Entry(map, k) = {}
       THEN UNCHANGED map
       ELSE \E idx \in Entry(map, k) : map' = [map EXCEPT !.buckets = [@ EXCEPT ![idx] = Deleted]]
  /\ op' = <<"delete", k>>
  /\ UNCHANGED <<new, drain, pc>>

(***************************************************************************)
(* The clients.                                                            *)
(***************************************************************************)
add_macro(k, v) == Put(k, v) \/ BeginRehash(k, v)

undef_macro(k) == Delete(k)

\* (*entry).scope = vs: the value is changed behind the table's back.
Overwrite(k, v) ==
  /\ pc = "idle"
  /\ \E idx \in Entry(map, k) : map' = Store(map, idx, k, v)
  /\ op' = <<"put", k, v>>
  /\ UNCHANGED <<new, drain, pc>>

\* push_var_scope, push_tag_entry: overwrite what is there, else put.
push_var_scope(k, v) ==
  IF hashmap_get2(map, k) # NoVal THEN Overwrite(k, v)
                                  ELSE Put(k, v) \/ BeginRehash(k, v)

\* The macro table: #define stores, #undef deletes.
MacroNext ==
  \/ \E k \in Keys, v \in Vals : add_macro(k, v)
  \/ \E k \in Keys : undef_macro(k)
  \/ Rehashing

\* The same, for sources that #undef a macro before they define it again.
CarefulNext ==
  \/ \E k \in Keys, v \in Vals : hashmap_get2(map, k) = NoVal /\ add_macro(k, v)
  \/ \E k \in Keys : undef_macro(k)
  \/ Rehashing

\* A scope of the parser.
ScopeNext ==
  \/ \E k \in Keys, v \in Vals : push_var_scope(k, v)
  \/ Rehashing

\* Either client: nothing is stored a second time under a name that is found.
ExactNext == CarefulNext \/ ScopeNext

Spec      == Init /\ [][MacroNext]_vars
ExactSpec == Init /\ [][ExactNext]_vars

-----------------------------------------------------------------------------
(***************************************************************************)
(* Properties.                                                             *)
(***************************************************************************)
Entries == [key : Keys \cup {Null, TOMBSTONE}, val : Vals \cup {NoVal}]

IsMap(m) ==
  /\ m.capacity \in Capacities \cup {0}
  /\ m.used \in Nat
  /\ m = [buckets |-> m.buckets, capacity |-> m.capacity, used |-> m.used]
  /\ m.buckets \in [0..(m.capacity - 1) -> Entries]

Requests == {<<"none">>} \cup ({"put"} \X Keys \X Vals) \cup ({"delete"} \X Keys)

\* The types of the variables; a put is pending exactly while a rehash runs.
TypeOK ==
  /\ IsMap(map) /\ IsMap(new)
  /\ drain \in 0..map.capacity
  /\ pc = "idle" => drain = 0
  /\ pc \in {"idle", "rehash", "panicked"}
  /\ op \in Requests
  /\ pc # "idle" => /\ op \in {"put"} \X Keys \X Vals
                    /\ map.capacity # 0 /\ new.capacity # 0

\* A table at rest or being filled: "used" counts exactly the buckets that
\* are not null, the tombstones included, and some bucket is null.
HasRoom(m) ==
  /\ m.used = Cardinality(NonNull(m))
  /\ m.capacity # 0 => m.used < m.capacity

\* The loops of get_entry (l.99-108) and get_or_insert_entry (l.121-141) never
\* run off their end into unreachable!(): whatever key is looked up in whatever
\* order of puts, deletes and rehashes, some probe meets it or a null bucket.
ProbesEnd ==
  \A m \in {map, new} : m.capacity # 0 =>
    \A k \in Keys : FirstProbe(m, k, {k, Null}) # {}

\* The invariant behind ProbesEnd.
RoomLeft == HasRoom(map) /\ HasRoom(new)

\* hashmap_put2 called by rehash on map2 (l.81), or by the pending put after
\* it, never starts a rehash itself: the recursion is one level deep.
RehashNotNested == pc = "rehash" => ~NeedsRehash(new)

\* Why: map2 holds no more keys than were drained, and it was made sparse
\* enough for all of them.
Drained == {i \in Occupied(map) : i < drain}

Draining ==
  pc = "rehash" => /\ new.used <= Cardinality(Drained)
                   /\ ~Dense(Cardinality(Occupied(map)), new.capacity)

\* The inductive invariant of the table, whatever its clients do.
IInv == TypeOK /\ RoomLeft /\ Draining

\* A key sits in one bucket at most.  rehash asserts as much (l.85), and
\* hashmap_delete2, which clears the first bucket it meets, relies on it.
NoDuplicate ==
  \A m \in {map, new} : \A i, j \in Occupied(m) :
    m.buckets[i].key = m.buckets[j].key => i = j

\* assert_eq!(map2.used, nkeys) of rehash holds.
AssertionHolds == pc # "panicked"

\* The exact table never holds a key twice, so that rehash never finds fewer keys
\* than it counted, however puts, deletes and rehashes follow each other.
KeysOnce == NoDuplicate /\ AssertionHolds

\* What a lookup of every name answers; a put whose rehash is running counts.
View ==
  LET now == [k \in Keys |-> hashmap_get2(map, k)]
  IN  IF pc = "idle" THEN now ELSE [now EXCEPT ![op[2]] = op[3]]

Table == INSTANCE StringMap WITH dict <- View

\* The table behaves as a map with last-store-wins and exact removal.
ImplementsMap == Table!Spec

\* Without the discipline of the scopes only this much is left: a put binds
\* its key and disturbs no other binding, even across a rehash, and a delete
\* disturbs no other binding; the removed name may come back.
ImplementsWeakMap == Table!WeakSpec

=============================================================================
