--------------------------- MODULE HashMapProofs ---------------------------
(***************************************************************************)
(* Theorems about HashMap, for every set of keys and values, every hash    *)
(* function and every set of capacities that satisfies the assumptions.    *)
(***************************************************************************)
EXTENDS HashMap, FiniteSetTheorems, WellFoundedInduction, TLAPS

(***************************************************************************)
(* Arithmetic.                                                             *)
(***************************************************************************)
\* Division and remainder, as probe_index and the watermark tests use them.
LEMMA DivMod ==
  ASSUME NEW x \in Nat, NEW y \in Nat \ {0}
  PROVE  /\ x \div y \in Nat
         /\ x % y \in 0..(y - 1)
         /\ x = y * (x \div y) + (x % y)
  OBVIOUS

\* A remainder is determined by any decomposition with a small rest.
LEMMA ModUnique ==
  ASSUME NEW x \in Nat, NEW y \in Nat \ {0}, NEW q \in Int, NEW r \in 0..(y - 1),
         x = y * q + r
  PROVE  x % y = r
<1>1. x % y \in 0..(y - 1) /\ x = y * (x \div y) + (x % y) /\ x \div y \in Nat
  BY DivMod
<1>2. q = x \div y
  BY <1>1
<1> QED
  BY <1>1, <1>2

\* Reducing modulo a multiple first changes nothing.
LEMMA WrapMod ==
  ASSUME NEW x \in Nat, NEW M \in Nat \ {0}, NEW c \in Nat \ {0}, M % c = 0
  PROVE  (x % M) % c = x % c
<1> DEFINE y == x % M
           d == M \div c
           e == x \div M
           f == y \div c
           r == y % c
<1>1. M = c * d /\ d \in Nat
  BY DivMod
<1>2. x = M * e + y /\ e \in Nat /\ y \in Nat
  BY DivMod
<1>3. y = c * f + r /\ f \in Nat /\ r \in 0..(c - 1)
  BY <1>2, DivMod
<1>4. r = (x % M) % c
  OBVIOUS
<1> HIDE DEF y, d, e, f, r
<1>5. d * e + f \in Int /\ c * (d * e + f) = (c * d) * e + c * f
  BY <1>1, <1>2, <1>3
<1>6. x = c * (d * e + f) + r
  BY <1>1, <1>2, <1>3, <1>5
<1>7. x % c = r
  BY <1>3, <1>5, <1>6, ModUnique
<1> QED
  BY <1>4, <1>7

\* From a residue g, some rest i short of c leads to any other residue s.
LEMMA ModOnto ==
  ASSUME NEW h \in Nat, NEW c \in Nat \ {0}, NEW s \in 0..(c - 1)
  PROVE  \E i \in 0..(c - 1) : (h + i) % c = s
<1> DEFINE g == h % c
           p == h \div c
<1>1. h = c * p + g /\ g \in 0..(c - 1) /\ p \in Nat
  BY DivMod
<1> HIDE DEF g, p
<1>2. CASE s >= g
  <2>1. s - g \in 0..(c - 1) /\ h + (s - g) = c * p + s /\ h + (s - g) \in Nat
    BY <1>1, <1>2
  <2>2. (h + (s - g)) % c = s
    BY <2>1, <1>1, ModUnique
  <2> QED
    BY <2>1, <2>2
<1>3. CASE s < g
  <2>1. (s - g) + c \in 0..(c - 1) /\ h + ((s - g) + c) \in Nat /\ p + 1 \in Int
    BY <1>1, <1>3
  <2>2. h + ((s - g) + c) = c * (p + 1) + s
    BY <1>1
  <2>3. (h + ((s - g) + c)) % c = s
    BY <2>1, <2>2, ModUnique
  <2> QED
    BY <2>1, <2>3
<1> QED
  BY <1>1, <1>2, <1>3

\* A table below the high watermark has two buckets to spare.
LEMMA BelowWatermark ==
  ASSUME NEW n \in Nat, NEW c \in Nat, c >= 4, (n * 100) \div c < 70
  PROVE  n + 1 < c
<1>1. (n * 100) < 70 * c
  <2>1. n * 100 \in Nat /\ c \in Nat \ {0}
    OBVIOUS
  <2>2. n * 100 = c * ((n * 100) \div c) + ((n * 100) % c)
    BY <2>1, DivMod
  <2>3. (n * 100) % c < c /\ (n * 100) \div c \in Nat
    BY <2>1, DivMod
  <2> QED
    BY <2>2, <2>3
<1> QED
  BY <1>1

\* A set of naturals that is not empty has a least element.
LEMMA LeastElement ==
  ASSUME NEW n \in Nat, NEW T \in SUBSET (0..n), T # {}
  PROVE  \E i \in T : \A j \in 0..(i - 1) : j \notin T
<1> DEFINE Below(i) == 0..(i - 1)
           Segments == {Below(i) : i \in T}
<1>1. IsFiniteSet(0..n)
  BY FS_Interval
<1>2. IsWellFoundedOn(StrictSubsetOrdering(0..n), FiniteSubsetsOf(0..n))
  BY FS_StrictSubsetOrderingWellFounded
<1>3. Segments \subseteq FiniteSubsetsOf(0..n)
  <2>1. FiniteSubsetsOf(0..n) = SUBSET (0..n)
    BY <1>1, FS_FiniteSubsetsOfFinite
  <2> QED
    BY <2>1
<1>4. Segments # {}
  OBVIOUS
<1> HIDE DEF Segments
<1>5. PICK s \in Segments : \A r \in Segments : ~(<<r, s>> \in StrictSubsetOrdering(0..n))
  BY <1>2, <1>3, <1>4, WFMin
<1>6. PICK i \in T : s = Below(i)
  BY <1>5 DEF Segments
<1>7. ASSUME NEW j \in 0..(i - 1), j \in T
      PROVE  FALSE
  <2>1. Below(j) \in Segments
    BY <1>7 DEF Segments
  <2>2. Below(j) \subseteq Below(i) /\ Below(j) # Below(i)
    BY <1>7
  <2>3. Below(i) \subseteq 0..n
    OBVIOUS
  <2>4. <<Below(j), Below(i)>> \in StrictSubsetOrdering(0..n)
    BY <2>2, <2>3 DEF StrictSubsetOrdering
  <2> QED
    BY <2>1, <2>4, <1>5, <1>6
<1> QED
  BY <1>7

(***************************************************************************)
(* Tables and probing.                                                     *)
(***************************************************************************)
LEMMA CapacityType ==
  ASSUME NEW c \in Capacities
  PROVE  c \in Nat \ {0} /\ c >= 4 /\ HashModulus % c = 0
  BY CapacityAssumption

\* Wrapping around 2^64 does not disturb the probe sequence: the i-th probe is
\* the i-th bucket after the first, counted modulo the capacity.
LEMMA SlotFormula ==
  ASSUME NEW m, m.capacity \in Capacities, NEW k \in Keys, NEW i \in 0..(m.capacity - 1)
  PROVE  /\ Slot(m, k, i) = (Hash[k] + i) % m.capacity
         /\ Slot(m, k, i) \in 0..(m.capacity - 1)
<1>1. /\ m.capacity \in Nat \ {0} /\ HashModulus % m.capacity = 0
      /\ HashModulus \in Nat \ {0} /\ Hash[k] + i \in Nat
  BY CapacityType, HashAssumption
<1>2. ((Hash[k] + i) % HashModulus) % m.capacity = (Hash[k] + i) % m.capacity
  BY <1>1, WrapMod
<1>3. (Hash[k] + i) % m.capacity \in 0..(m.capacity - 1)
  BY <1>1, DivMod
<1> QED
  BY <1>2, <1>3 DEF Slot

\* The probes of a key meet every bucket.
LEMMA SlotOnto ==
  ASSUME NEW m, m.capacity \in Capacities, NEW k \in Keys, NEW s \in 0..(m.capacity - 1)
  PROVE  \E i \in 0..(m.capacity - 1) : Slot(m, k, i) = s
<1>1. m.capacity \in Nat \ {0} /\ Hash[k] \in Nat
  BY CapacityType, HashAssumption
<1>2. PICK i \in 0..(m.capacity - 1) : (Hash[k] + i) % m.capacity = s
  BY <1>1, ModOnto
<1> QED
  BY <1>2, SlotFormula

\* A search that has somewhere to stop stops somewhere first.
LEMMA FirstProbeExists ==
  ASSUME NEW m, m.capacity \in Capacities, NEW k, NEW S,
         NEW i \in 0..(m.capacity - 1), KeyAt(m, k, i) \in S
  PROVE  FirstProbe(m, k, S) # {}
<1> DEFINE T == {j \in 0..(m.capacity - 1) : KeyAt(m, k, j) \in S}
<1>1. m.capacity \in Nat \ {0}
  BY CapacityType
<1>2. m.capacity - 1 \in Nat /\ T \in SUBSET (0..(m.capacity - 1)) /\ T # {}
  BY <1>1
<1>3. PICK j \in T : \A l \in 0..(j - 1) : l \notin T
  <2> HIDE DEF T
  <2> QED
    BY <1>2, LeastElement
<1>4. j \in FirstProbe(m, k, S)
  BY <1>1, <1>3 DEF FirstProbe
<1> QED
  BY <1>4

LEMMA NonNullFinite ==
  ASSUME NEW m, IsMap(m)
  PROVE  /\ DOMAIN m.buckets = 0..(m.capacity - 1)
         /\ m.capacity \in Nat
         /\ IsFiniteSet(NonNull(m)) /\ Cardinality(NonNull(m)) \in Nat
         /\ IsFiniteSet(Occupied(m)) /\ Cardinality(Occupied(m)) \in Nat
<1>1. DOMAIN m.buckets = 0..(m.capacity - 1) /\ m.capacity \in Nat
  BY CapacityType DEF IsMap
<1>2. IsFiniteSet(0..(m.capacity - 1))
  BY <1>1, FS_Interval
<1>3. NonNull(m) \in SUBSET (0..(m.capacity - 1)) /\ Occupied(m) \in SUBSET (0..(m.capacity - 1))
  BY <1>1 DEF NonNull, Occupied
<1> QED
  BY <1>1, <1>2, <1>3, FS_Subset, FS_CardinalityType

\* A table with room has a null bucket, so every search stops.
LEMMA RoomMeansStop ==
  ASSUME NEW m, IsMap(m), HasRoom(m), m.capacity # 0, NEW k \in Keys
  PROVE  FirstProbe(m, k, {k, Null}) # {}
<1>1. m.capacity \in Capacities /\ DOMAIN m.buckets = 0..(m.capacity - 1)
  BY DEF IsMap
<1>2. m.capacity \in Nat \ {0}
  BY <1>1, CapacityType
<1>3. PICK s \in 0..(m.capacity - 1) : m.buckets[s].key = Null
  <2> SUFFICES ASSUME \A s \in 0..(m.capacity - 1) : m.buckets[s].key # Null
               PROVE  FALSE
    OBVIOUS
  <2>1. NonNull(m) = 0..(m.capacity - 1)
    BY <1>1 DEF NonNull
  <2>2. Cardinality(0..(m.capacity - 1)) = m.capacity
    BY <1>2, FS_Interval
  <2> QED
    BY <2>1, <2>2, <1>2 DEF HasRoom
<1>4. PICK i \in 0..(m.capacity - 1) : Slot(m, k, i) = s
  BY <1>1, SlotOnto
<1>5. KeyAt(m, k, i) = Null
  BY <1>3, <1>4 DEF KeyAt
<1> QED
  BY <1>1, <1>5, FirstProbeExists

(***************************************************************************)
(* The buckets the operations choose.                                      *)
(***************************************************************************)
LEMMA InsertionSlotType ==
  ASSUME NEW m, m.capacity \in Capacities, NEW k \in Keys, NEW idx \in InsertionSlot(m, k)
  PROVE  idx \in 0..(m.capacity - 1)
<1>1. PICK i \in 0..(m.capacity - 1) : idx = Slot(m, k, i)
  BY DEF InsertionSlot, FirstProbe
<1> QED
  BY <1>1, SlotFormula

LEMMA EntryType ==
  ASSUME NEW m, IsMap(m), NEW k \in Keys, NEW idx \in Entry(m, k)
  PROVE  idx \in 0..(m.capacity - 1) /\ m.buckets[idx].key = k /\ m.capacity \in Capacities
<1>1. PICK i \in 0..(m.capacity - 1) : idx = Slot(m, k, i) /\ KeyAt(m, k, i) = k
  BY DEF Entry, FirstProbe
<1>2. m.capacity \in Capacities
  <2>1. m.capacity # 0
    BY <1>1
  <2> QED
    BY <2>1 DEF IsMap
<1> QED
  BY <1>1, <1>2, SlotFormula DEF KeyAt

(***************************************************************************)
(* What writing a bucket does to a table.                                  *)
(***************************************************************************)
LEMMA FreshIsMap ==
  ASSUME NEW c \in Capacities
  PROVE  /\ IsMap(Fresh(c)) /\ HasRoom(Fresh(c)) /\ Fresh(c).used = 0
         /\ Fresh(c).capacity = c /\ ~NeedsRehash(Fresh(c))
<1>1. c \in Nat \ {0}
  BY CapacityType
<1>2. IsMap(Fresh(c))
  BY DEF IsMap, Fresh, Empty, Entries
<1>3. NonNull(Fresh(c)) = {} /\ Fresh(c).used = 0 /\ Fresh(c).capacity = c
  BY DEF NonNull, Fresh, Empty
<1>4. HasRoom(Fresh(c))
  BY <1>1, <1>3, FS_EmptySet DEF HasRoom
<1>5. ~NeedsRehash(Fresh(c))
  <2>1. 0 = c * (0 \div c) + (0 % c) /\ 0 \div c \in Nat /\ 0 % c \in Nat
    BY <1>1, DivMod
  <2>2. 0 \div c = 0
    BY <2>1, <1>1
  <2> QED
    BY <2>2 DEF NeedsRehash, Fresh, HIGH_WATERMARK
<1> QED
  BY <1>2, <1>4, <1>5 DEF Fresh

LEMMA UnallocatedIsMap == IsMap(Unallocated) /\ HasRoom(Unallocated)
<1>1. IsMap(Unallocated)
  BY DEF IsMap, Unallocated
<1>2. NonNull(Unallocated) = {} /\ Unallocated.used = 0 /\ Unallocated.capacity = 0
  BY DEF NonNull, Unallocated
<1> QED
  BY <1>1, <1>2, FS_EmptySet DEF HasRoom

LEMMA StoreIsMap ==
  ASSUME NEW m, IsMap(m), NEW idx \in 0..(m.capacity - 1),
         NEW k \in Keys, NEW v \in Vals \cup {NoVal}
  PROVE  /\ IsMap(Store(m, idx, k, v))
         /\ Store(m, idx, k, v).capacity = m.capacity
         /\ Store(m, idx, k, v).used \in {m.used, m.used + 1}
<1>1. [key |-> k, val |-> v] \in Entries
  BY DEF Entries
<1> QED
  BY <1>1 DEF IsMap, Store

LEMMA StoreCounts ==
  ASSUME NEW m, IsMap(m), m.used = Cardinality(NonNull(m)),
         NEW idx \in 0..(m.capacity - 1), NEW k \in Keys, NEW v
  PROVE  Store(m, idx, k, v).used = Cardinality(NonNull(Store(m, idx, k, v)))
<1>1. IsFiniteSet(NonNull(m)) /\ DOMAIN m.buckets = 0..(m.capacity - 1)
  BY NonNullFinite
<1>2. NonNull(Store(m, idx, k, v)) = NonNull(m) \cup {idx}
  <2>1. /\ DOMAIN Store(m, idx, k, v).buckets = DOMAIN m.buckets
        /\ \A i \in DOMAIN m.buckets :
             Store(m, idx, k, v).buckets[i].key = IF i = idx THEN k ELSE m.buckets[i].key
    BY <1>1 DEF Store, IsMap
  <2> QED
    BY <1>1, <2>1, SentinelAssumption DEF NonNull
<1>3. idx \in NonNull(m) <=> m.buckets[idx].key # Null
  BY <1>1 DEF NonNull
<1> QED
  BY <1>1, <1>2, <1>3, FS_AddElement DEF Store

\* Storing below the high watermark leaves room.
LEMMA StoreHasRoom ==
  ASSUME NEW m, IsMap(m), HasRoom(m), m.capacity # 0, ~NeedsRehash(m),
         NEW idx \in 0..(m.capacity - 1), NEW k \in Keys, NEW v \in Vals \cup {NoVal}
  PROVE  HasRoom(Store(m, idx, k, v))
<1>1. m.capacity \in Capacities /\ m.used \in Nat
  BY DEF IsMap
<1>2. m.capacity \in Nat \ {0} /\ m.capacity >= 4
  BY <1>1, CapacityType
<1>3. (m.used * 100) \div m.capacity \in Nat
  <2>1. m.used * 100 \in Nat
    BY <1>1
  <2> QED
    BY <1>2, <2>1, DivMod
<1>4. m.used + 1 < m.capacity
  BY <1>1, <1>2, <1>3, BelowWatermark DEF NeedsRehash, HIGH_WATERMARK
<1>5. Store(m, idx, k, v).capacity = m.capacity /\ Store(m, idx, k, v).used \in {m.used, m.used + 1}
  BY StoreIsMap
<1>6. Store(m, idx, k, v).used = Cardinality(NonNull(Store(m, idx, k, v)))
  BY StoreCounts DEF HasRoom
<1> QED
  BY <1>1, <1>2, <1>4, <1>5, <1>6 DEF HasRoom

\* So does storing over a bucket that is in use.
LEMMA OverwriteHasRoom ==
  ASSUME NEW m, IsMap(m), HasRoom(m), NEW idx \in 0..(m.capacity - 1),
         m.buckets[idx].key # Null, NEW k \in Keys, NEW v \in Vals \cup {NoVal}
  PROVE  HasRoom(Store(m, idx, k, v))
<1>1. Store(m, idx, k, v).used = Cardinality(NonNull(Store(m, idx, k, v)))
  BY StoreCounts DEF HasRoom
<1> QED
  BY <1>1 DEF HasRoom, Store

\* Deleting turns one bucket that is not null into another.
LEMMA TombstoneHasRoom ==
  ASSUME NEW m, IsMap(m), HasRoom(m), NEW idx \in 0..(m.capacity - 1),
         m.buckets[idx].key # Null,
         NEW n, n = [m EXCEPT !.buckets = [@ EXCEPT ![idx] = Deleted]]
  PROVE  /\ IsMap(n) /\ HasRoom(n)
         /\ n.capacity = m.capacity
<1>1. Deleted \in Entries
  BY DEF Deleted, Entries
<1>2. /\ n.capacity = m.capacity /\ n.used = m.used
      /\ n.buckets = [m.buckets EXCEPT ![idx] = Deleted]
  BY DEF IsMap
<1>3. n = [buckets |-> n.buckets, capacity |-> n.capacity, used |-> n.used]
  BY DEF IsMap
<1>4. IsMap(n)
  BY <1>1, <1>2, <1>3 DEF IsMap
<1>5. NonNull(n) = NonNull(m)
  <2>1. /\ DOMAIN n.buckets = DOMAIN m.buckets
        /\ \A i \in DOMAIN m.buckets :
             n.buckets[i].key = IF i = idx THEN TOMBSTONE ELSE m.buckets[i].key
    BY <1>2 DEF IsMap, Deleted
  <2>2. idx \in DOMAIN m.buckets
    BY DEF IsMap
  <2> QED
    BY <2>1, <2>2, SentinelAssumption DEF NonNull
<1> QED
  BY <1>2, <1>4, <1>5 DEF HasRoom

(***************************************************************************)
(* The invariant, one lemma per action.                                    *)
(***************************************************************************)
LEMMA PutKeepsInv ==
  ASSUME IInv, NEW k \in Keys, NEW v \in Vals, Put(k, v)
  PROVE  IInv'
<1> DEFINE m == IF map.capacity = 0 THEN Fresh(INIT_SIZE) ELSE map
<1>1. /\ IsMap(m) /\ HasRoom(m) /\ m.capacity \in Capacities /\ m.capacity # 0
      /\ ~NeedsRehash(m)
  <2>1. INIT_SIZE \in Capacities /\ INIT_SIZE # 0
    BY CapacityAssumption
  <2> QED
    BY <2>1, FreshIsMap DEF IInv, TypeOK, RoomLeft, IsMap, Put
<1>2. PICK idx \in InsertionSlot(m, k) : map' = Store(m, idx, k, v)
  BY DEF Put
<1>3. idx \in 0..(m.capacity - 1)
  BY <1>1, InsertionSlotType
<1> HIDE DEF m
<1>4. IsMap(map') /\ HasRoom(map') /\ map'.capacity = m.capacity
  BY <1>1, <1>2, <1>3, StoreIsMap, StoreHasRoom
<1>5. op' \in Requests /\ pc' = "idle" /\ pc = "idle" /\ new' = new /\ drain' = drain
  BY DEF Put, Requests
<1>6. drain = 0
  BY <1>5 DEF IInv, TypeOK
<1> QED
  BY <1>4, <1>5, <1>6, NonNullFinite DEF IInv, TypeOK, RoomLeft, Draining

LEMMA BeginRehashKeepsInv ==
  ASSUME IInv, NEW k \in Keys, NEW v \in Vals, BeginRehash(k, v)
  PROVE  IInv'
<1>1. PICK c \in NewCapacity(map) : new' = Fresh(c)
  BY DEF BeginRehash
<1>2. c \in Capacities /\ ~Dense(Cardinality(Occupied(map)), c)
  BY <1>1 DEF NewCapacity
<1>3. /\ IsMap(new') /\ HasRoom(new') /\ new'.used = 0 /\ new'.capacity = c
  BY <1>1, <1>2, FreshIsMap
<1>4. c \in Nat \ {0}
  BY <1>2, CapacityType
<1>5. map' = map /\ drain' = 0 /\ pc' = "rehash" /\ op' = <<"put", k, v>> /\ map.capacity # 0
  BY DEF BeginRehash
<1>6. TypeOK'
  <2>1. 0 \in 0..map.capacity
    BY NonNullFinite DEF IInv, TypeOK
  <2> QED
    BY <1>3, <1>4, <1>5, <2>1 DEF IInv, TypeOK, Requests
<1>7. RoomLeft'
  BY <1>3, <1>5 DEF IInv, RoomLeft
<1>8. Draining'
  <2>1. Drained' \in SUBSET Occupied(map)
    BY <1>5 DEF Drained
  <2>2. IsFiniteSet(Occupied(map))
    BY NonNullFinite DEF IInv, TypeOK
  <2>3. Cardinality(Drained') \in Nat
    BY <2>1, <2>2, FS_Subset, FS_CardinalityType
  <2> QED
    BY <1>2, <1>3, <1>5, <2>3 DEF Draining
<1> QED
  BY <1>6, <1>7, <1>8 DEF IInv

\* A table that is not dense for n keys is below the high watermark as long
\* as it holds at most n of them.
LEMMA SparseHasRoom ==
  ASSUME NEW n \in Nat, NEW u \in Nat, u <= n, NEW c \in Nat \ {0}, ~Dense(n, c)
  PROVE  (u * 100) \div c < HIGH_WATERMARK
<1>1. n * 100 \in Nat /\ u * 100 \in Nat
  OBVIOUS
<1>2. /\ n * 100 = c * ((n * 100) \div c) + ((n * 100) % c)
      /\ (n * 100) \div c \in Nat /\ (n * 100) % c \in 0..(c - 1)
  BY <1>1, DivMod
<1>3. /\ u * 100 = c * ((u * 100) \div c) + ((u * 100) % c)
      /\ (u * 100) \div c \in Nat /\ (u * 100) % c \in 0..(c - 1)
  BY <1>1, DivMod
<1> DEFINE p == (n * 100) \div c
           q == (u * 100) \div c
<1>4. p < 50
  BY <1>2 DEF Dense, LOW_WATERMARK
<1>5. q <= p
  <2>1. c * q <= n * 100 /\ n * 100 < c * p + c /\ p \in Nat /\ q \in Nat
    BY <1>1, <1>2, <1>3
  <2> HIDE DEF p, q
  <2>2. c * q < c * (p + 1)
    BY <2>1
  <2> QED
    BY <2>1, <2>2
<1> QED
  BY <1>2, <1>3, <1>4, <1>5 DEF HIGH_WATERMARK

LEMMA DrainedFinite ==
  ASSUME IInv
  PROVE  /\ IsFiniteSet(Drained) /\ Cardinality(Drained) \in Nat
         /\ Cardinality(Drained) <= Cardinality(Occupied(map))
         /\ Cardinality(Occupied(map)) \in Nat
<1>1. IsFiniteSet(Occupied(map)) /\ Drained \in SUBSET Occupied(map)
  BY NonNullFinite DEF IInv, TypeOK, Drained
<1> QED
  BY <1>1, FS_Subset, FS_CardinalityType

LEMMA InvNotNested ==
  ASSUME IInv
  PROVE  RehashNotNested
<1> SUFFICES ASSUME pc = "rehash"
             PROVE  ~NeedsRehash(new)
  BY DEF RehashNotNested
<1>1. new.used \in Nat /\ new.capacity \in Capacities
  BY DEF IInv, TypeOK, IsMap
<1>2. new.capacity \in Nat \ {0}
  BY <1>1, CapacityType
<1>3. new.used <= Cardinality(Occupied(map)) /\ Cardinality(Occupied(map)) \in Nat
  BY <1>1, DrainedFinite DEF IInv, Draining
<1>4. ~Dense(Cardinality(Occupied(map)), new.capacity)
  BY DEF IInv, Draining
<1>5. (new.used * 100) \div new.capacity < HIGH_WATERMARK
  BY <1>1, <1>2, <1>3, <1>4, SparseHasRoom
<1>6. (new.used * 100) \div new.capacity \in Nat
  <2>1. new.used * 100 \in Nat
    BY <1>1
  <2> QED
    BY <1>2, <2>1, DivMod
<1> QED
  BY <1>5, <1>6 DEF NeedsRehash, HIGH_WATERMARK

LEMMA DrainKeepsInv ==
  ASSUME IInv, Drain
  PROVE  IInv'
<1> DEFINE ent == map.buckets[drain]
<1>1. /\ pc = "rehash" /\ pc' = "rehash" /\ map' = map /\ op' = op
      /\ drain' = drain + 1 /\ drain < map.capacity
  BY DEF Drain
<1>2. /\ map.capacity \in Nat /\ drain \in 0..(map.capacity - 1)
      /\ DOMAIN map.buckets = 0..(map.capacity - 1)
  BY <1>1, NonNullFinite DEF IInv, TypeOK
<1>3. IsMap(new) /\ HasRoom(new) /\ new.capacity \in Capacities /\ new.capacity # 0
  BY <1>1 DEF IInv, TypeOK, RoomLeft, IsMap
<1>4. IsFiniteSet(Drained) /\ Cardinality(Drained) \in Nat
  BY DrainedFinite
<1>5. new.used \in Nat /\ new.used <= Cardinality(Drained)
  BY <1>1, <1>3 DEF IInv, Draining, IsMap
<1>6. CASE ent.key \in Keys
  <2>1. PICK idx \in InsertionSlot(new, ent.key) :
          new' = Store(new, idx, ent.key, ent.val)
    BY <1>6 DEF Drain
  <2>2. ~NeedsRehash(new)
    BY <1>6 DEF Drain
  <2>3. idx \in 0..(new.capacity - 1)
    BY <1>3, <1>6, <2>1, InsertionSlotType
  <2>4. ent \in Entries
    BY <1>2 DEF IInv, TypeOK, IsMap
  <2>5. ent.val \in Vals \cup {NoVal}
    BY <2>4 DEF Entries
  <2> HIDE DEF ent
  <2>6. /\ IsMap(new') /\ HasRoom(new') /\ new'.capacity = new.capacity
        /\ new'.used \in {new.used, new.used + 1}
    BY <1>3, <1>6, <2>1, <2>2, <2>3, <2>5, StoreIsMap, StoreHasRoom
  <2>7. Cardinality(Drained') = Cardinality(Drained) + 1
    <3>1. Drained' = Drained \cup {drain} /\ drain \notin Drained
      BY <1>1, <1>2, <1>6 DEF Drained, Occupied, ent
    <3> QED
      BY <1>4, <3>1, FS_AddElement
  <2>8. new'.used <= Cardinality(Drained')
    BY <1>4, <1>5, <2>6, <2>7
  <2> QED
    BY <1>1, <1>2, <2>6, <2>8 DEF IInv, TypeOK, RoomLeft, Draining
<1>7. CASE ent.key \notin Keys
  <2>1. new' = new
    BY <1>7 DEF Drain
  <2>2. Drained' = Drained
    BY <1>1, <1>2, <1>7 DEF Drained, Occupied
  <2> QED
    BY <1>1, <1>2, <2>1, <2>2 DEF IInv, TypeOK, RoomLeft, Draining
<1> QED
  BY <1>6, <1>7

LEMMA FinishKeepsInv ==
  ASSUME IInv, FinishRehash
  PROVE  IInv'
<1>1. /\ pc = "rehash" /\ pc' = "idle" /\ op' = op
      /\ drain' = 0 /\ new' = Unallocated
  BY DEF FinishRehash, AllDrained
<1>2. PICK idx \in InsertionSlot(new, op[2]) : map' = Store(new, idx, op[2], op[3])
  BY DEF FinishRehash
<1>3. IsMap(new) /\ HasRoom(new) /\ new.capacity \in Capacities /\ new.capacity # 0
  BY <1>1 DEF IInv, TypeOK, RoomLeft, IsMap
<1>4. op[2] \in Keys /\ op[3] \in Vals
  BY <1>1 DEF IInv, TypeOK
<1>5. ~NeedsRehash(new)
  BY <1>1, InvNotNested DEF RehashNotNested
<1>6. idx \in 0..(new.capacity - 1)
  BY <1>2, <1>3, <1>4, InsertionSlotType
<1>7. IsMap(map') /\ HasRoom(map') /\ map'.capacity = new.capacity
  BY <1>2, <1>3, <1>4, <1>5, <1>6, StoreIsMap, StoreHasRoom
<1>8. IsMap(Unallocated) /\ HasRoom(Unallocated)
  BY UnallocatedIsMap
<1>9. 0 \in 0..map'.capacity
  BY <1>3, <1>7, CapacityType
<1> QED
  BY <1>1, <1>7, <1>8, <1>9 DEF IInv, TypeOK, RoomLeft, Draining

LEMMA AssertFailsKeepsInv ==
  ASSUME IInv, AssertFails
  PROVE  IInv'
<1>1. /\ pc = "rehash" /\ pc' = "panicked"
      /\ map' = map /\ new' = new /\ drain' = drain /\ op' = op
  BY DEF AssertFails, AllDrained
<1> QED
  BY <1>1 DEF IInv, TypeOK, RoomLeft, Draining

LEMMA DeleteKeepsInv ==
  ASSUME IInv, NEW k \in Keys, Delete(k)
  PROVE  IInv'
<1>1. pc = "idle" /\ pc' = "idle" /\ drain' = drain /\ new' = new /\ op' \in Requests
  BY DEF Delete, Requests
<1>2. IsMap(map') /\ HasRoom(map') /\ map'.capacity = map.capacity
  <2>1. CASE Entry(map, k) = {}
    BY <2>1 DEF Delete, IInv, TypeOK, RoomLeft
  <2>2. CASE Entry(map, k) # {}
    <3>1. PICK idx \in Entry(map, k) : map' = [map EXCEPT !.buckets = [@ EXCEPT ![idx] = Deleted]]
      BY <2>2 DEF Delete
    <3>2. IsMap(map) /\ HasRoom(map)
      BY DEF IInv, TypeOK, RoomLeft
    <3>3. idx \in 0..(map.capacity - 1) /\ map.buckets[idx].key # Null
      BY <3>2, EntryType, SentinelAssumption
    <3> QED
      BY <3>1, <3>2, <3>3, TombstoneHasRoom
  <2> QED
    BY <2>1, <2>2
<1> QED
  BY <1>1, <1>2 DEF IInv, TypeOK, RoomLeft, Draining

LEMMA OverwriteKeepsInv ==
  ASSUME IInv, NEW k \in Keys, NEW v \in Vals, Overwrite(k, v)
  PROVE  IInv'
<1>1. /\ pc = "idle" /\ pc' = "idle" /\ drain' = drain /\ new' = new /\ op' \in Requests
  BY DEF Overwrite, Requests
<1>2. PICK idx \in Entry(map, k) : map' = Store(map, idx, k, v)
  BY DEF Overwrite
<1>3. IsMap(map) /\ HasRoom(map)
  BY DEF IInv, TypeOK, RoomLeft
<1>4. idx \in 0..(map.capacity - 1) /\ map.buckets[idx].key # Null
  BY <1>3, EntryType, SentinelAssumption
<1>5. IsMap(map') /\ HasRoom(map') /\ map'.capacity = map.capacity
  BY <1>2, <1>3, <1>4, StoreIsMap, OverwriteHasRoom
<1> QED
  BY <1>1, <1>5 DEF IInv, TypeOK, RoomLeft, Draining

(***************************************************************************)
(* Whatever a client does, it does it through these actions.               *)
(***************************************************************************)
Step ==
  \/ \E k \in Keys, v \in Vals : Put(k, v) \/ BeginRehash(k, v) \/ Overwrite(k, v)
  \/ \E k \in Keys : Delete(k)
  \/ Rehashing

LEMMA InitInv == Init => IInv
<1> SUFFICES ASSUME Init
             PROVE  IInv
  OBVIOUS
<1>1. IsMap(map) /\ HasRoom(map) /\ map.capacity = 0
  BY UnallocatedIsMap DEF Init, Unallocated
<1> QED
  BY <1>1 DEF Init, IInv, TypeOK, RoomLeft, Draining, Requests

LEMMA StepInv == IInv /\ [Step]_vars => IInv'
<1> SUFFICES ASSUME IInv, [Step]_vars
             PROVE  IInv'
  OBVIOUS
<1>1. ASSUME NEW k \in Keys, NEW v \in Vals, Put(k, v)
      PROVE  IInv'
  BY <1>1, PutKeepsInv
<1>2. ASSUME NEW k \in Keys, NEW v \in Vals, BeginRehash(k, v)
      PROVE  IInv'
  BY <1>2, BeginRehashKeepsInv
<1>3. ASSUME NEW k \in Keys, NEW v \in Vals, Overwrite(k, v)
      PROVE  IInv'
  BY <1>3, OverwriteKeepsInv
<1>4. ASSUME NEW k \in Keys, Delete(k)
      PROVE  IInv'
  BY <1>4, DeleteKeepsInv
<1>5. CASE Drain
  BY <1>5, DrainKeepsInv
<1>6. CASE FinishRehash
  BY <1>6, FinishKeepsInv
<1>7. CASE AssertFails
  BY <1>7, AssertFailsKeepsInv
<1>8. CASE UNCHANGED vars
  BY <1>8 DEF vars, IInv, TypeOK, RoomLeft, Draining, Drained
<1> QED
  BY <1>1, <1>2, <1>3, <1>4, <1>5, <1>6, <1>7, <1>8 DEF Step, Rehashing

LEMMA ClientsAreSteps ==
  /\ MacroNext => Step
  /\ CarefulNext => Step
  /\ ScopeNext => Step
  /\ ExactNext => Step
BY DEF MacroNext, CarefulNext, ScopeNext, ExactNext, Step, add_macro, undef_macro, push_var_scope

LEMMA InvImpliesProbesEnd == IInv => ProbesEnd
BY RoomMeansStop DEF IInv, TypeOK, RoomLeft, ProbesEnd

-----------------------------------------------------------------------------
\* The inductive invariant holds of the macro table, with its puts that do not
\* look first and its deletes, and of the tables of the parser.
THEOREM TableInvariant ==
  /\ Spec => []IInv
  /\ ExactSpec => []IInv
<1>1. IInv /\ [MacroNext]_vars => IInv'
  BY StepInv, ClientsAreSteps
<1>2. IInv /\ [ExactNext]_vars => IInv'
  BY StepInv, ClientsAreSteps
<1> QED
  BY <1>1, <1>2, InitInv, PTL DEF Spec, ExactSpec

\* The table keeps its shape: every bucket holds an entry, "used" is a natural
\* number, and a put is pending exactly while a rehash runs.
THEOREM TypeCorrect == (Spec \/ ExactSpec) => []TypeOK
<1>1. IInv => TypeOK
  BY DEF IInv
<1> QED
  BY <1>1, TableInvariant, PTL

\* get_entry and get_or_insert_entry never reach unreachable!(), for any hash
\* function, any keys, any capacity and any history of puts and deletes.
THEOREM SearchesEnd == (Spec \/ ExactSpec) => []ProbesEnd
BY InvImpliesProbesEnd, TableInvariant, PTL

\* The puts a rehash makes on its new table never start another rehash.
THEOREM RehashIsShallow == (Spec \/ ExactSpec) => []RehashNotNested
<1>1. IInv => RehashNotNested
  BY InvNotNested
<1> QED
  BY <1>1, TableInvariant, PTL
-----------------------------------------------------------------------------
(***************************************************************************)
(* The map that the compiler expects of the table: the invariants of its   *)
(* lookups, and the refinement.                                            *)
(***************************************************************************)
\* Where a search for k would look for bucket i.
Found(m, k, i) ==
  \E p \in 0..(m.capacity - 1) :
    Slot(m, k, p) = i /\ \A j \in 0..(p - 1) : KeyAt(m, k, j) # Null

\* No search ends at a null bucket before it comes to the key.  Stores fill null
\* buckets and deletes leave tombstones, so nothing makes one on the way.
Reachable(m) == \A i \in Occupied(m) : Found(m, m.buckets[i].key, i)

\* A bucket in use holds a value.
Valued(m) == \A i \in Occupied(m) : m.buckets[i].val \in Vals

Distinct(m) ==
  \A i, j \in Occupied(m) : m.buckets[i].key = m.buckets[j].key => i = j

KeysIn(m, S) == {m.buckets[i].key : i \in S}

\* The new table has no key twice, and while a rehash runs it has no tombstones
\* and holds the keys of the buckets that were drained, each with the value of
\* one of them.
Copied ==
  /\ Distinct(new)
  /\ pc # "idle" =>
       /\ NonNull(new) = Occupied(new)
       /\ KeysIn(new, Occupied(new)) = KeysIn(map, Drained)
       /\ \A i \in Occupied(new) : \E j \in Drained : map.buckets[j] = new.buckets[i]

\* What holds of the table whatever its clients do, and what holds if they
\* store no name a second time without looking.
WeakInv ==
  /\ IInv
  /\ Reachable(map) /\ Reachable(new)
  /\ Valued(map) /\ Valued(new)
  /\ Copied
ExactInv == WeakInv /\ Distinct(map) /\ pc # "panicked"

(***************************************************************************)
(* Lookups.                                                                *)
(***************************************************************************)
\* A search stops at one probe.
LEMMA OneFirstProbe ==
  ASSUME NEW m, m.capacity \in Nat, NEW k, NEW S,
         NEW i \in FirstProbe(m, k, S), NEW j \in FirstProbe(m, k, S)
  PROVE  i = j
<1>1. /\ i \in 0..(m.capacity - 1) /\ KeyAt(m, k, i) \in S
      /\ \A l \in 0..(i - 1) : KeyAt(m, k, l) \notin S
  BY DEF FirstProbe
<1>2. /\ j \in 0..(m.capacity - 1) /\ KeyAt(m, k, j) \in S
      /\ \A l \in 0..(j - 1) : KeyAt(m, k, l) \notin S
  BY DEF FirstProbe
<1>3. ~(i < j)
  BY <1>1, <1>2
<1>4. ~(j < i)
  BY <1>1, <1>2
<1> QED BY <1>1, <1>2, <1>3, <1>4

\* What a lookup answers when it stops at the key.
LEMMA GetIs ==
  ASSUME NEW m, m.capacity \in Nat, NEW k,
         NEW i \in FirstProbe(m, k, {k, Null}), KeyAt(m, k, i) = k
  PROVE  /\ Entry(m, k) = {Slot(m, k, i)}
         /\ hashmap_get2(m, k) = m.buckets[Slot(m, k, i)].val
<1>1. Entry(m, k) = {Slot(m, k, i)}
  BY OneFirstProbe DEF Entry
<1> QED BY <1>1 DEF hashmap_get2

LEMMA OccupiedType ==
  ASSUME NEW m, IsMap(m), NEW i \in Occupied(m)
  PROVE  /\ i \in 0..(m.capacity - 1) /\ m.capacity \in Capacities
         /\ m.buckets[i].key \in Keys /\ m.buckets[i].key # Null
         /\ m.buckets[i].key # TOMBSTONE
<1>1. DOMAIN m.buckets = 0..(m.capacity - 1)
  BY NonNullFinite
<1>2. i \in 0..(m.capacity - 1) /\ m.buckets[i].key \in Keys
  BY <1>1 DEF Occupied
<1>3. m.capacity \in Capacities
  <2>1. m.capacity # 0
    BY <1>2
  <2> QED BY <2>1 DEF IsMap
<1> QED BY <1>2, <1>3, SentinelAssumption

\* A lookup of a key that is there finds it ...
LEMMA PresentFound ==
  ASSUME NEW m, IsMap(m), Reachable(m), NEW i \in Occupied(m)
  PROVE  LET k == m.buckets[i].key IN
         \E p \in FirstProbe(m, k, {k, Null}) : KeyAt(m, k, p) = k
<1> DEFINE k == m.buckets[i].key
<1>1. m.capacity \in Capacities /\ k # Null /\ i \in 0..(m.capacity - 1)
  BY OccupiedType
<1>2. PICK p \in 0..(m.capacity - 1) :
        Slot(m, k, p) = i /\ \A j \in 0..(p - 1) : KeyAt(m, k, j) # Null
  BY DEF Reachable, Found
<1>3. KeyAt(m, k, p) = k
  BY <1>2 DEF KeyAt
<1> HIDE DEF k
<1>4. PICK q \in FirstProbe(m, k, {k, Null}) : TRUE
  BY <1>1, <1>3, FirstProbeExists
<1>5. /\ q \in 0..(m.capacity - 1) /\ KeyAt(m, k, q) \in {k, Null}
      /\ \A j \in 0..(q - 1) : KeyAt(m, k, j) \notin {k, Null}
  BY <1>4 DEF FirstProbe
<1>6. ~(p < q)
  BY <1>2, <1>3, <1>5
<1>7. KeyAt(m, k, q) = k
  <2>1. CASE q = p
    BY <2>1, <1>3
  <2>2. CASE q < p
    <3>1. q \in 0..(p - 1)
      BY <1>5, <2>2
    <3> QED BY <3>1, <1>2, <1>5
  <2> QED BY <2>1, <2>2, <1>2, <1>5, <1>6
<1> QED BY <1>7, <1>4 DEF k

\* ... and where it is there once, answers its value.
LEMMA PresentGet ==
  ASSUME NEW m, IsMap(m), Reachable(m), Distinct(m), NEW i \in Occupied(m)
  PROVE  hashmap_get2(m, m.buckets[i].key) = m.buckets[i].val
<1> DEFINE k == m.buckets[i].key
<1>1. PICK p \in FirstProbe(m, k, {k, Null}) : KeyAt(m, k, p) = k
  BY PresentFound
<1>2. m.capacity \in Capacities /\ m.capacity \in Nat /\ k \in Keys
  BY OccupiedType, CapacityType
<1>3. p \in 0..(m.capacity - 1)
  BY <1>1 DEF FirstProbe
<1>4. Slot(m, k, p) \in 0..(m.capacity - 1)
  BY <1>2, <1>3, SlotFormula
<1>5. Slot(m, k, p) \in Occupied(m) /\ m.buckets[Slot(m, k, p)].key = k
  BY <1>1, <1>2, <1>4, NonNullFinite DEF Occupied, KeyAt
<1>6. Slot(m, k, p) = i
  BY <1>5 DEF Distinct
<1>7. hashmap_get2(m, k) = m.buckets[Slot(m, k, p)].val
  BY <1>1, <1>2, GetIs
<1> QED BY <1>6, <1>7

\* A lookup of a key that is not there answers nothing.
LEMMA AbsentGet ==
  ASSUME NEW m, IsMap(m), NEW k \in Keys, k \notin KeysIn(m, Occupied(m))
  PROVE  Entry(m, k) = {} /\ hashmap_get2(m, k) = NoVal
<1>1. ASSUME NEW i \in Entry(m, k)
      PROVE  FALSE
  <2>1. i \in 0..(m.capacity - 1) /\ m.buckets[i].key = k
    BY EntryType
  <2>2. i \in Occupied(m)
    BY <2>1, NonNullFinite DEF Occupied
  <2> QED BY <2>1, <2>2 DEF KeysIn
<1>2. Entry(m, k) = {}
  BY <1>1
<1> QED BY <1>2 DEF hashmap_get2

\* What a lookup may answer at all.
LEMMA GetType ==
  ASSUME NEW m, IsMap(m), Reachable(m), Valued(m), NEW k \in Keys
  PROVE  /\ hashmap_get2(m, k) \in Vals \cup {NoVal}
         /\ hashmap_get2(m, k) = NoVal <=> k \notin KeysIn(m, Occupied(m))
         /\ Entry(m, k) = {} <=> k \notin KeysIn(m, Occupied(m))
<1>1. CASE k \notin KeysIn(m, Occupied(m))
  BY <1>1, AbsentGet
<1>2. CASE k \in KeysIn(m, Occupied(m))
  <2>1. PICK i \in Occupied(m) : k = m.buckets[i].key
    BY <1>2 DEF KeysIn
  <2>2. PICK p \in FirstProbe(m, k, {k, Null}) : KeyAt(m, k, p) = k
    BY <2>1, PresentFound
  <2>3. m.capacity \in Capacities /\ m.capacity \in Nat
    BY <2>1, OccupiedType, CapacityType
  <2>4. p \in 0..(m.capacity - 1)
    BY <2>2 DEF FirstProbe
  <2>5. Slot(m, k, p) \in 0..(m.capacity - 1)
    BY <2>3, <2>4, SlotFormula
  <2>6. Slot(m, k, p) \in Occupied(m)
    BY <2>2, <2>5, NonNullFinite DEF Occupied, KeyAt
  <2>7. m.buckets[Slot(m, k, p)].val \in Vals
    BY <2>6 DEF Valued
  <2>8. /\ Entry(m, k) = {Slot(m, k, p)}
        /\ hashmap_get2(m, k) = m.buckets[Slot(m, k, p)].val
    BY <2>2, <2>3, GetIs
  <2> QED BY <1>2, <2>7, <2>8, SentinelAssumption
<1> QED BY <1>1, <1>2

(***************************************************************************)
(* What writing a bucket does to lookups.                                  *)
(***************************************************************************)
Written(m, idx, ent) == [m.buckets EXCEPT ![idx] = ent]
Rewritten(m, n, idx, ent) ==
  /\ DOMAIN n.buckets = 0..(m.capacity - 1)
  /\ n.buckets[idx] = ent
  /\ \A i \in 0..(m.capacity - 1) : i # idx => n.buckets[i] = m.buckets[i]
  /\ \A k, p : Slot(n, k, p) = Slot(m, k, p)
  /\ \A k \in Keys, p \in 0..(m.capacity - 1) :
       KeyAt(n, k, p) = IF Slot(m, k, p) = idx THEN ent.key ELSE KeyAt(m, k, p)

LEMMA WriteBucket ==
  ASSUME NEW m, IsMap(m), NEW idx \in 0..(m.capacity - 1), NEW ent,
         NEW n, n.capacity = m.capacity, n.buckets = Written(m, idx, ent)
  PROVE  Rewritten(m, n, idx, ent)
<1>1. DOMAIN m.buckets = 0..(m.capacity - 1) /\ m.capacity \in Nat
  BY NonNullFinite
<1>2. /\ DOMAIN n.buckets = 0..(m.capacity - 1)
      /\ n.buckets[idx] = ent
      /\ \A i \in 0..(m.capacity - 1) : i # idx => n.buckets[i] = m.buckets[i]
  BY <1>1 DEF Written
<1>3. \A k, p : Slot(n, k, p) = Slot(m, k, p)
  BY DEF Slot
<1>4. m.capacity \in Capacities
  BY <1>1 DEF IsMap
<1>5. ASSUME NEW k \in Keys, NEW p \in 0..(m.capacity - 1)
      PROVE  KeyAt(n, k, p) = IF Slot(m, k, p) = idx THEN ent.key ELSE KeyAt(m, k, p)
  <2>1. Slot(m, k, p) \in 0..(m.capacity - 1)
    BY <1>4, SlotFormula
  <2> QED BY <2>1, <1>2, <1>3 DEF KeyAt
<1> QED BY <1>2, <1>3, <1>5 DEF Rewritten

\* A bucket that is reached stays reached as long as no null bucket is made.
LEMMA FoundKept ==
  ASSUME NEW m, m.capacity \in Capacities, NEW n, n.capacity = m.capacity,
         NEW k \in Keys, NEW i, Found(m, k, i),
         \A p : Slot(n, k, p) = Slot(m, k, p),
         \A p \in 0..(m.capacity - 1) : KeyAt(m, k, p) # Null => KeyAt(n, k, p) # Null
  PROVE  Found(n, k, i)
<1>1. PICK p \in 0..(m.capacity - 1) :
        Slot(m, k, p) = i /\ \A j \in 0..(p - 1) : KeyAt(m, k, j) # Null
  BY DEF Found
<1>2. m.capacity \in Nat
  BY CapacityType
<1>3. \A j \in 0..(p - 1) : j \in 0..(m.capacity - 1)
  BY <1>2
<1>4. \A j \in 0..(p - 1) : KeyAt(n, k, j) # Null
  BY <1>1, <1>3
<1> QED BY <1>1, <1>4 DEF Found

\* Writing a bucket disturbs no lookup of a key that was not in it before and is
\* not in it now, if it is not set to null: no search of that key met a null
\* bucket before it came to the key, so none stopped at the bucket written.
LEMMA OtherGet ==
  ASSUME NEW m, IsMap(m), Reachable(m), NEW n, IsMap(n),
         NEW idx \in 0..(m.capacity - 1), NEW ent,
         n.capacity = m.capacity, n.buckets = Written(m, idx, ent),
         NEW l \in Keys, m.buckets[idx].key # l, ent.key # l, ent.key # Null
  PROVE  hashmap_get2(n, l) = hashmap_get2(m, l)
<1>1. /\ DOMAIN n.buckets = 0..(m.capacity - 1)
      /\ n.buckets[idx] = ent
      /\ \A i \in 0..(m.capacity - 1) : i # idx => n.buckets[i] = m.buckets[i]
      /\ \A p : Slot(n, l, p) = Slot(m, l, p)
      /\ \A p \in 0..(m.capacity - 1) :
           KeyAt(n, l, p) = IF Slot(m, l, p) = idx THEN ent.key ELSE KeyAt(m, l, p)
  <2>1. Rewritten(m, n, idx, ent)
    BY WriteBucket
  <2> QED BY <2>1 DEF Rewritten
<1>2. DOMAIN m.buckets = 0..(m.capacity - 1) /\ m.capacity \in Nat
  BY NonNullFinite
<1>3. \A i \in 0..(m.capacity - 1) : n.buckets[i].key = l <=> m.buckets[i].key = l
  BY <1>1
<1>4. CASE l \notin KeysIn(m, Occupied(m))
  <2>1. l \notin KeysIn(n, Occupied(n))
    BY <1>1, <1>2, <1>3, <1>4 DEF KeysIn, Occupied
  <2> QED BY <1>4, <2>1, AbsentGet
<1>5. CASE l \in KeysIn(m, Occupied(m))
  <2>1. PICK i \in Occupied(m) : m.buckets[i].key = l
    BY <1>5 DEF KeysIn
  <2>2. PICK q \in FirstProbe(m, l, {l, Null}) : KeyAt(m, l, q) = l
    BY <2>1, PresentFound
  <2>3. m.capacity \in Capacities
    BY <2>1, OccupiedType
  <2>4. q \in 0..(m.capacity - 1) /\ \A j \in 0..(q - 1) : KeyAt(m, l, j) \notin {l, Null}
    BY <2>2 DEF FirstProbe
  <2>5. Slot(m, l, q) # idx /\ Slot(m, l, q) \in 0..(m.capacity - 1)
    BY <2>2, <2>3, <2>4, SlotFormula DEF KeyAt
  <2>6. KeyAt(n, l, q) = l
    BY <1>1, <2>2, <2>4, <2>5
  <2>7. \A j \in 0..(q - 1) : j \in 0..(m.capacity - 1) /\ KeyAt(n, l, j) \notin {l, Null}
    BY <1>1, <1>2, <2>4
  <2>8. q \in FirstProbe(n, l, {l, Null})
    BY <2>4, <2>6, <2>7 DEF FirstProbe
  <2>9. hashmap_get2(m, l) = m.buckets[Slot(m, l, q)].val
    BY <1>2, <2>2, GetIs
  <2>10. hashmap_get2(n, l) = n.buckets[Slot(n, l, q)].val
    <3>1. n.capacity \in Nat
      BY <1>2
    <3> QED BY ONLY <3>1, <2>6, <2>8, GetIs
  <2> QED BY <1>1, <2>5, <2>9, <2>10
<1> QED BY <1>4, <1>5

\* The probe at which hashmap_put2 or an overwrite stores.
StoresAt(m, k, q) ==
  q \in FirstProbe(m, k, {k, TOMBSTONE, Null}) \/ q \in FirstProbe(m, k, {k, Null})

\* After a store the key is bound to the value, no other lookup is disturbed, and
\* no key is hidden.
LEMMA StoreGet ==
  ASSUME NEW m, IsMap(m), Reachable(m), Valued(m), m.capacity \in Capacities,
         NEW k \in Keys, NEW v \in Vals, NEW q, StoresAt(m, k, q),
         NEW n, n = Store(m, Slot(m, k, q), k, v)
  PROVE  /\ hashmap_get2(n, k) = v
         /\ \A l \in Keys \ {k} : hashmap_get2(n, l) = hashmap_get2(m, l)
         /\ Reachable(n) /\ Valued(n)
         /\ Occupied(n) = Occupied(m) \cup {Slot(m, k, q)}
<1> DEFINE idx == Slot(m, k, q)
           ent == [key |-> k, val |-> v]
<1>1. /\ q \in 0..(m.capacity - 1)
      /\ KeyAt(m, k, q) \in {k, TOMBSTONE, Null}
      /\ \A j \in 0..(q - 1) : /\ KeyAt(m, k, j) \notin {k, Null}
                               /\ KeyAt(m, k, j) # KeyAt(m, k, q)
  BY DEF StoresAt, FirstProbe
<1>2. idx \in 0..(m.capacity - 1) /\ m.buckets[idx].key = KeyAt(m, k, q)
  BY <1>1, SlotFormula DEF KeyAt
<1>3. IsMap(n) /\ n.capacity = m.capacity
  BY <1>2, StoreIsMap
<1>4. n.buckets = Written(m, idx, ent)
  BY DEF Store, Written
<1>5. DOMAIN m.buckets = 0..(m.capacity - 1) /\ m.capacity \in Nat
  BY NonNullFinite
<1>6. ent.key = k /\ ent.val = v /\ k # Null /\ k # TOMBSTONE
  BY SentinelAssumption
<1> HIDE DEF idx, ent
<1>7. /\ DOMAIN n.buckets = 0..(m.capacity - 1)
      /\ n.buckets[idx] = ent
      /\ \A i \in 0..(m.capacity - 1) : i # idx => n.buckets[i] = m.buckets[i]
      /\ \A l, p : Slot(n, l, p) = Slot(m, l, p)
      /\ \A l \in Keys, p \in 0..(m.capacity - 1) :
           KeyAt(n, l, p) = IF Slot(m, l, p) = idx THEN ent.key ELSE KeyAt(m, l, p)
  <2>1. n.capacity = m.capacity /\ idx \in 0..(m.capacity - 1)
    BY <1>2, <1>3
  <2>2. Rewritten(m, n, idx, ent)
    BY ONLY IsMap(m), <2>1, <1>4, WriteBucket
  <2> QED BY <2>2 DEF Rewritten
<1>8. hashmap_get2(n, k) = v
  <2>1. KeyAt(n, k, q) = k
    BY <1>1, <1>6, <1>7 DEF idx
  <2>2. ASSUME NEW j \in 0..(q - 1)
        PROVE  KeyAt(n, k, j) \notin {k, Null}
    <3>1. j \in 0..(m.capacity - 1)
      BY <1>1, <1>5
    <3>2. Slot(m, k, j) # idx
      BY <1>1 DEF KeyAt, idx
    <3> QED BY <1>1, <1>7, <3>1, <3>2
  <2>3. q \in FirstProbe(n, k, {k, Null})
    BY <1>1, <1>3, <2>1, <2>2 DEF FirstProbe
  <2>4. hashmap_get2(n, k) = n.buckets[Slot(n, k, q)].val
    BY <1>3, <1>5, <2>1, <2>3, GetIs
  <2> QED BY <1>6, <1>7, <2>4 DEF idx
<1>9. ASSUME NEW l \in Keys \ {k}
      PROVE  hashmap_get2(n, l) = hashmap_get2(m, l)
  <2>1. m.buckets[idx].key # l /\ ent.key # l /\ ent.key # Null
    BY <1>1, <1>2, <1>6, SentinelAssumption
  <2> QED BY <1>2, <1>3, <1>4, <2>1, OtherGet
<1>10. Occupied(n) = Occupied(m) \cup {idx}
  BY <1>2, <1>5, <1>6, <1>7 DEF Occupied
<1>11. Valued(n)
  BY <1>5, <1>6, <1>7, <1>10 DEF Valued, Occupied
<1>12. ASSUME NEW i \in Occupied(n)
       PROVE  Found(n, n.buckets[i].key, i)
  <2>1. \A l \in Keys, p \in 0..(m.capacity - 1) : KeyAt(m, l, p) # Null => KeyAt(n, l, p) # Null
    BY <1>6, <1>7
  <2>2. CASE i = idx
    <3>1. Found(m, k, idx)
      BY <1>1 DEF Found, idx
    <3>2. Found(n, k, idx)
      BY <1>3, <1>7, <2>1, <3>1, FoundKept
    <3> QED BY <2>2, <3>2, <1>6, <1>7
  <2>3. CASE i # idx
    <3>1. i \in Occupied(m) /\ i \in 0..(m.capacity - 1) /\ m.buckets[i].key \in Keys
      BY <1>5, <1>10, <2>3 DEF Occupied
    <3>2. Found(m, m.buckets[i].key, i)
      BY <3>1 DEF Reachable
    <3>3. Found(n, m.buckets[i].key, i)
      BY <1>3, <1>7, <2>1, <3>1, <3>2, FoundKept
    <3> QED BY <1>7, <2>3, <3>1, <3>3
  <2> QED BY <2>2, <2>3
<1> QED BY <1>8, <1>9, <1>10, <1>11, <1>12 DEF Reachable, idx

\* A store makes no second copy of the key if the key is not there, if it is
\* stored over, or if there are no tombstones to stop at.
LEMMA StoreDistinct ==
  ASSUME NEW m, IsMap(m), Reachable(m), Distinct(m), m.capacity \in Capacities,
         NEW k \in Keys, NEW v \in Vals, NEW q, StoresAt(m, k, q),
         NEW n, n = Store(m, Slot(m, k, q), k, v),
         \/ k \notin KeysIn(m, Occupied(m))
         \/ KeyAt(m, k, q) = k
         \/ NonNull(m) = Occupied(m)
  PROVE  Distinct(n)
<1> DEFINE idx == Slot(m, k, q)
           ent == [key |-> k, val |-> v]
<1>1. /\ q \in 0..(m.capacity - 1)
      /\ KeyAt(m, k, q) \in {k, TOMBSTONE, Null}
  BY DEF StoresAt, FirstProbe
<1>2. idx \in 0..(m.capacity - 1) /\ m.buckets[idx].key = KeyAt(m, k, q)
  BY <1>1, SlotFormula DEF KeyAt
<1>3. n.capacity = m.capacity /\ n.buckets = [m.buckets EXCEPT ![idx] = ent]
  BY DEF Store
<1>4. DOMAIN m.buckets = 0..(m.capacity - 1) /\ m.capacity \in Nat
  BY NonNullFinite
<1>5. ent.key = k
  OBVIOUS
<1> HIDE DEF ent
<1>6. /\ DOMAIN n.buckets = 0..(m.capacity - 1)
      /\ n.buckets[idx] = ent
      /\ \A i \in 0..(m.capacity - 1) : i # idx => n.buckets[i] = m.buckets[i]
  BY <1>3, <1>4, <1>2
<1>7. \A i \in Occupied(m) : m.buckets[i].key = k => i = idx
  <2>1. CASE k \notin KeysIn(m, Occupied(m))
    BY <2>1 DEF KeysIn
  <2>2. CASE KeyAt(m, k, q) = k
    <3>1. idx \in Occupied(m)
      BY <1>2, <1>4, <2>2 DEF Occupied
    <3> QED BY <1>2, <2>2, <3>1 DEF Distinct
  <2>3. CASE NonNull(m) = Occupied(m) /\ k \in KeysIn(m, Occupied(m)) /\ KeyAt(m, k, q) # k
    <3>1. KeyAt(m, k, q) = Null
      <4>1. KeyAt(m, k, q) # TOMBSTONE
        BY <1>2, <1>4, <2>3, SentinelAssumption DEF NonNull, Occupied
      <4> QED BY <1>1, <2>3, <4>1
    <3>2. PICK p \in FirstProbe(m, k, {k, Null}) : KeyAt(m, k, p) = k
      BY <2>3, PresentFound DEF KeysIn
    <3>3. /\ p \in 0..(m.capacity - 1) /\ \A j \in 0..(p - 1) : KeyAt(m, k, j) \notin {k, Null}
      BY <3>2 DEF FirstProbe
    <3>4. \A j \in 0..(q - 1) : KeyAt(m, k, j) # k
      BY DEF StoresAt, FirstProbe
    <3>5. ~(q < p) /\ ~(p < q) /\ p # q
      BY <1>1, <2>3, <3>1, <3>2, <3>3, <3>4
    <3> QED BY <1>1, <3>3, <3>5
  <2> QED BY <2>1, <2>2, <2>3
<1>8. Occupied(n) \subseteq Occupied(m) \cup {idx}
  BY <1>4, <1>6 DEF Occupied
<1>9. \A i \in Occupied(n) : i # idx => i \in Occupied(m) /\ n.buckets[i] = m.buckets[i]
  BY <1>4, <1>6, <1>8 DEF Occupied
<1>10. ASSUME NEW i \in Occupied(n), NEW j \in Occupied(n), n.buckets[i].key = n.buckets[j].key
       PROVE  i = j
  BY <1>5, <1>6, <1>7, <1>9, <1>10 DEF Distinct
<1> QED BY <1>10 DEF Distinct

\* A delete unbinds the key of a table that holds it once, disturbs no other
\* lookup and hides no key.
LEMMA TombstoneGet ==
  ASSUME NEW m, IsMap(m), Reachable(m), Valued(m), HasRoom(m),
         NEW k \in Keys, NEW idx \in Entry(m, k),
         NEW n, n = [m EXCEPT !.buckets = [@ EXCEPT ![idx] = Deleted]]
  PROVE  /\ \A l \in Keys \ {k} : hashmap_get2(n, l) = hashmap_get2(m, l)
         /\ Reachable(n) /\ Valued(n)
         /\ Distinct(m) => Distinct(n) /\ hashmap_get2(n, k) = NoVal
<1>1. /\ idx \in 0..(m.capacity - 1) /\ m.buckets[idx].key = k
      /\ m.capacity \in Capacities
  BY EntryType
<1>2. k # Null /\ Deleted.key = TOMBSTONE /\ TOMBSTONE \notin Keys /\ TOMBSTONE # Null
  BY SentinelAssumption DEF Deleted
<1>3. IsMap(n) /\ n.capacity = m.capacity
  BY <1>1, <1>2, TombstoneHasRoom
<1>4. n.buckets = Written(m, idx, Deleted)
  <2>1. m = [buckets |-> m.buckets, capacity |-> m.capacity, used |-> m.used]
    BY DEF IsMap
  <2> QED BY <2>1 DEF Written
<1>5. DOMAIN m.buckets = 0..(m.capacity - 1) /\ m.capacity \in Nat
  BY NonNullFinite
<1>6. /\ DOMAIN n.buckets = 0..(m.capacity - 1)
      /\ n.buckets[idx] = Deleted
      /\ \A i \in 0..(m.capacity - 1) : i # idx => n.buckets[i] = m.buckets[i]
      /\ \A l, p : Slot(n, l, p) = Slot(m, l, p)
      /\ \A l \in Keys, p \in 0..(m.capacity - 1) :
           KeyAt(n, l, p) = IF Slot(m, l, p) = idx THEN Deleted.key ELSE KeyAt(m, l, p)
  <2>1. Rewritten(m, n, idx, Deleted)
    BY ONLY IsMap(m), <1>1, <1>3, <1>4, WriteBucket
  <2> QED BY <2>1 DEF Rewritten
<1>7. ASSUME NEW l \in Keys \ {k}
      PROVE  hashmap_get2(n, l) = hashmap_get2(m, l)
  <2>1. m.buckets[idx].key # l /\ Deleted.key # l /\ Deleted.key # Null
    BY <1>1, <1>2
  <2>2. l \in Keys
    OBVIOUS
  <2> QED BY ONLY IsMap(m), Reachable(m), <1>1, <1>3, <1>4, <2>1, <2>2, OtherGet
<1>8. Occupied(n) = Occupied(m) \ {idx}
  BY <1>1, <1>2, <1>5, <1>6 DEF Occupied
<1>9. \A i \in Occupied(n) : i \in Occupied(m) /\ n.buckets[i] = m.buckets[i]
  BY <1>5, <1>6, <1>8 DEF Occupied
<1>10. Valued(n)
  BY <1>9 DEF Valued
<1>11. ASSUME NEW i \in Occupied(n)
       PROVE  Found(n, n.buckets[i].key, i)
  <2>1. \A l \in Keys, p \in 0..(m.capacity - 1) : KeyAt(m, l, p) # Null => KeyAt(n, l, p) # Null
    BY <1>2, <1>6
  <2>2. Found(m, m.buckets[i].key, i) /\ m.buckets[i].key \in Keys
    BY <1>9 DEF Reachable, Occupied
  <2>3. Found(n, m.buckets[i].key, i)
    BY ONLY <1>1, <1>3, <1>6, <2>1, <2>2, FoundKept
  <2> QED BY <1>9, <2>3
<1>12. ASSUME Distinct(m)
       PROVE  Distinct(n) /\ hashmap_get2(n, k) = NoVal
  <2>1. Distinct(n)
    BY <1>9, <1>12 DEF Distinct
  <2>2. idx \in Occupied(m)
    BY <1>1, <1>5 DEF Occupied
  <2>3. k \notin KeysIn(n, Occupied(n))
    BY <1>1, <1>8, <1>9, <1>12, <2>2 DEF KeysIn, Distinct
  <2> QED BY <1>3, <2>1, <2>3, AbsentGet
<1> QED BY <1>7, <1>10, <1>11, <1>12 DEF Reachable

\* A table just allocated, or not yet, holds nothing.
LEMMA EmptyTables ==
  /\ \A c \in Capacities :
       /\ NonNull(Fresh(c)) = {} /\ Occupied(Fresh(c)) = {}
       /\ \A k \in Keys : hashmap_get2(Fresh(c), k) = NoVal
  /\ NonNull(Unallocated) = {} /\ Occupied(Unallocated) = {}
  /\ \A k \in Keys : hashmap_get2(Unallocated, k) = NoVal
<1>1. ASSUME NEW c \in Capacities
      PROVE  NonNull(Fresh(c)) = {} /\ Occupied(Fresh(c)) = {}
  BY SentinelAssumption DEF NonNull, Occupied, Fresh, Empty
<1>2. NonNull(Unallocated) = {} /\ Occupied(Unallocated) = {}
  BY DEF NonNull, Occupied, Unallocated
<1>3. ASSUME NEW c \in Capacities, NEW k \in Keys
      PROVE  hashmap_get2(Fresh(c), k) = NoVal
  BY <1>1, FreshIsMap, AbsentGet DEF KeysIn
<1>4. ASSUME NEW k \in Keys
      PROVE  hashmap_get2(Unallocated, k) = NoVal
  BY <1>2, UnallocatedIsMap, AbsentGet DEF KeysIn
<1> QED BY <1>1, <1>2, <1>3, <1>4

\* A table without keys hides none.
LEMMA NothingHidden ==
  ASSUME NEW m, Occupied(m) = {}
  PROVE  Reachable(m) /\ Valued(m) /\ Distinct(m)
BY DEF Reachable, Valued, Distinct

\* A table that is not allocated holds nothing.
LEMMA NoBuckets ==
  ASSUME NEW m, IsMap(m), m.capacity = 0
  PROVE  NonNull(m) = {} /\ Occupied(m) = {} /\ \A k \in Keys : hashmap_get2(m, k) = NoVal
<1>1. DOMAIN m.buckets = {}
  BY NonNullFinite
<1>2. NonNull(m) = {} /\ Occupied(m) = {}
  BY <1>1 DEF NonNull, Occupied
<1> QED BY <1>2, AbsentGet DEF KeysIn

(***************************************************************************)
(* The rehash.                                                             *)
(***************************************************************************)
\* As many keys as buckets in use, and each key is in one bucket only.
LEMMA KeysCount ==
  ASSUME NEW m, IsMap(m)
  PROVE  /\ IsFiniteSet(KeysIn(m, Occupied(m)))
         /\ Cardinality(KeysIn(m, Occupied(m))) = Cardinality(Occupied(m)) <=> Distinct(m)
<1> DEFINE S == Occupied(m)
           T == KeysIn(m, S)
           f == [i \in S |-> m.buckets[i].key]
<1>1. IsFiniteSet(S)
  BY NonNullFinite
<1>2. f \in Surjection(S, T)
  BY DEF KeysIn, Surjection
<1>3. IsFiniteSet(T) /\ Cardinality(T) <= Cardinality(S)
      /\ (Cardinality(T) = Cardinality(S) <=> f \in Injection(S, T))
  BY <1>1, <1>2, FS_Surjection
<1>4. f \in Injection(S, T) <=> Distinct(m)
  BY <1>2 DEF Injection, IsInjective, Distinct, Surjection
<1> QED BY <1>3, <1>4

\* Each turn of the loop copies one bucket to the new table.
LEMMA DrainCopies ==
  ASSUME WeakInv, Drain
  PROVE  Reachable(new') /\ Valued(new') /\ Copied'
<1> DEFINE ent == map.buckets[drain]
<1>1. /\ pc = "rehash" /\ pc' = "rehash" /\ map' = map /\ drain' = drain + 1
      /\ drain \in Nat /\ drain < map.capacity
      /\ IsMap(map) /\ IsMap(new) /\ new.capacity # 0
  BY CapacityType DEF Drain, WeakInv, IInv, TypeOK, IsMap
<1>2. /\ Distinct(new) /\ NonNull(new) = Occupied(new)
      /\ KeysIn(new, Occupied(new)) = KeysIn(map, Drained)
      /\ \A i \in Occupied(new) : \E j \in Drained : map.buckets[j] = new.buckets[i]
  BY <1>1 DEF WeakInv, Copied
<1>3. DOMAIN map.buckets = 0..(map.capacity - 1) /\ drain \in 0..(map.capacity - 1)
  BY <1>1, NonNullFinite
<1>4. PICK D : D = Drained'
  OBVIOUS
<1>5. D = {i \in Occupied(map) : i < drain + 1}
  BY <1>1, <1>4 DEF Drained
<1>6. PICK n : n = new'
  OBVIOUS
<1>7. SUFFICES /\ Reachable(n) /\ Valued(n) /\ Distinct(n)
               /\ NonNull(n) = Occupied(n)
               /\ KeysIn(n, Occupied(n)) = KeysIn(map, D)
               /\ \A i \in Occupied(n) : \E j \in D : map.buckets[j] = n.buckets[i]
  BY <1>1, <1>4, <1>6 DEF Copied
<1>8. CASE ent.key \notin Keys
  <2>1. n = new
    BY <1>6, <1>8 DEF Drain
  <2>2. D = Drained
    BY <1>1, <1>3, <1>5, <1>8 DEF Drained, Occupied
  <2> QED BY <1>2, <2>1, <2>2 DEF WeakInv
<1>9. CASE ent.key \in Keys
  <2>1. D = Drained \cup {drain} /\ drain \in Occupied(map)
    BY <1>1, <1>3, <1>5, <1>9 DEF Drained, Occupied
  <2>2. ent.val \in Vals /\ ent = [key |-> ent.key, val |-> ent.val]
    BY <1>1, <1>3, <2>1 DEF WeakInv, Valued, IsMap, Entries
  <2>3. PICK idx \in InsertionSlot(new, ent.key) : new' = Store(new, idx, ent.key, ent.val)
    BY <1>9 DEF Drain
  <2>4. PICK q \in FirstProbe(new, ent.key, {ent.key, TOMBSTONE, Null}) : idx = Slot(new, ent.key, q)
    BY DEF InsertionSlot
  <2>5. StoresAt(new, ent.key, q) /\ new.capacity \in Capacities /\ Reachable(new) /\ Valued(new)
    BY <1>1 DEF StoresAt, IsMap, WeakInv
  <2>6. n = Store(new, Slot(new, ent.key, q), ent.key, ent.val)
    BY <1>6, <2>3, <2>4
  <2>7. /\ idx \in 0..(new.capacity - 1) /\ DOMAIN new.buckets = 0..(new.capacity - 1)
        /\ new.buckets[idx].key \in {ent.key, TOMBSTONE, Null}
    BY <1>1, <1>9, <2>4, <2>5, SlotFormula, NonNullFinite DEF FirstProbe, KeyAt
  <2>8. n.buckets = [new.buckets EXCEPT ![idx] = ent]
    BY <2>2, <2>4, <2>6 DEF Store
  <2> HIDE DEF ent
  <2>9. /\ DOMAIN n.buckets = DOMAIN new.buckets
        /\ n.buckets[idx] = ent
        /\ \A i \in DOMAIN new.buckets : i # idx => n.buckets[i] = new.buckets[i]
    BY <2>7, <2>8
  <2>10. /\ Reachable(n) /\ Valued(n)
         /\ Occupied(n) = Occupied(new) \cup {idx}
    BY <1>1, <1>9, <2>2, <2>4, <2>5, <2>6, StoreGet
  <2>11. Distinct(n)
    BY <1>1, <1>2, <1>9, <2>2, <2>5, <2>6, StoreDistinct
  <2>12. NonNull(n) = NonNull(new) \cup {idx}
    BY <1>9, <2>7, <2>9, SentinelAssumption DEF NonNull
  <2>13. KeysIn(n, Occupied(n)) = KeysIn(new, Occupied(new)) \cup {ent.key}
    <3>1. \A i \in Occupied(new) : i \in DOMAIN new.buckets /\ new.buckets[i].key \in Keys
      BY DEF Occupied
    <3>2. \A i \in Occupied(new) : n.buckets[i].key = new.buckets[i].key
      BY <2>7, <2>9, <3>1, SentinelAssumption
    <3> QED BY <2>9, <2>10, <3>2 DEF KeysIn
  <2>14. KeysIn(map, D) = KeysIn(map, Drained) \cup {ent.key}
    BY <2>1 DEF KeysIn, ent
  <2>15. ASSUME NEW i \in Occupied(n)
         PROVE  \E j \in D : map.buckets[j] = n.buckets[i]
    <3>1. CASE i = idx
      BY <2>1, <2>9, <3>1 DEF ent
    <3>2. CASE i # idx
      <4>1. i \in Occupied(new) /\ n.buckets[i] = new.buckets[i]
        BY <2>9, <2>10, <3>2 DEF Occupied
      <4> QED BY <1>2, <2>1, <4>1
    <3> QED BY <3>1, <3>2
  <2> QED BY <1>2, <2>10, <2>11, <2>12, <2>13, <2>14, <2>15
<1> QED BY <1>8, <1>9

\* When all buckets have been copied, the assertion of rehash holds exactly if
\* the old table held each of its keys once, and then both answer the same.
LEMMA AllCopied ==
  ASSUME WeakInv, AllDrained
  PROVE  /\ new.used = Cardinality(Occupied(map)) <=> Distinct(map)
         /\ Distinct(map) => \A k \in Keys : hashmap_get2(new, k) = hashmap_get2(map, k)
<1>1. /\ pc = "rehash" /\ drain = map.capacity
      /\ IsMap(map) /\ IsMap(new) /\ HasRoom(new)
      /\ Reachable(map) /\ Reachable(new)
  BY DEF AllDrained, WeakInv, IInv, TypeOK, RoomLeft
<1>2. Drained = Occupied(map)
  <2>1. DOMAIN map.buckets = 0..(map.capacity - 1) /\ map.capacity \in Nat
    BY <1>1, NonNullFinite
  <2> QED BY <1>1, <2>1 DEF Drained, Occupied
<1>3. /\ Distinct(new) /\ NonNull(new) = Occupied(new)
      /\ KeysIn(new, Occupied(new)) = KeysIn(map, Occupied(map))
      /\ \A i \in Occupied(new) : \E j \in Occupied(map) : map.buckets[j] = new.buckets[i]
  BY <1>1, <1>2 DEF WeakInv, Copied
<1>4. new.used = Cardinality(KeysIn(map, Occupied(map)))
  <2>1. Cardinality(KeysIn(new, Occupied(new))) = Cardinality(Occupied(new))
    BY <1>1, <1>3, KeysCount
  <2> QED BY <1>1, <1>3, <2>1 DEF HasRoom
<1>5. new.used = Cardinality(Occupied(map)) <=> Distinct(map)
  BY <1>1, <1>4, KeysCount
<1>6. ASSUME Distinct(map), NEW k \in Keys
      PROVE  hashmap_get2(new, k) = hashmap_get2(map, k)
  <2>1. CASE k \notin KeysIn(map, Occupied(map))
    BY <1>1, <1>3, <2>1, AbsentGet
  <2>2. CASE k \in KeysIn(map, Occupied(map))
    <3>1. PICK i \in Occupied(new) : k = new.buckets[i].key
      BY <1>3, <2>2 DEF KeysIn
    <3>2. PICK j \in Occupied(map) : map.buckets[j] = new.buckets[i]
      BY <1>3
    <3>3. hashmap_get2(new, k) = new.buckets[i].val
      BY <1>1, <1>3, <3>1, PresentGet
    <3>4. hashmap_get2(map, k) = map.buckets[j].val
      BY <1>1, <1>6, <3>1, <3>2, PresentGet
    <3> QED BY <3>2, <3>3, <3>4
  <2> QED BY <2>1, <2>2
<1> QED BY <1>5, <1>6

(***************************************************************************)
(* The steps.                                                              *)
(***************************************************************************)
\* The lookups of a table at rest, and of one that a rehash is replacing.
LEMMA ViewIs ==
  /\ pc = "idle" => View = [l \in Keys |-> hashmap_get2(map, l)]
  /\ pc # "idle" => View = [[l \in Keys |-> hashmap_get2(map, l)] EXCEPT ![op[2]] = op[3]]
BY DEF View

\* A put, with room in the table, binds its key and nothing else.
LEMMA PutStep ==
  ASSUME WeakInv, NEW k \in Keys, NEW v \in Vals, Put(k, v)
  PROVE  /\ WeakInv'
         /\ View' = [View EXCEPT ![k] = v]
         /\ Distinct(map) /\ k \notin KeysIn(map, Occupied(map)) => Distinct(map')
<1> DEFINE m == IF map.capacity = 0 THEN Fresh(INIT_SIZE) ELSE map
<1>1. /\ pc = "idle" /\ pc' = "idle" /\ new' = new
      /\ IsMap(map) /\ Reachable(map) /\ Valued(map) /\ Reachable(new) /\ Valued(new)
  BY DEF Put, WeakInv, IInv, TypeOK
<1>2. /\ IsMap(m) /\ m.capacity \in Capacities /\ Reachable(m) /\ Valued(m)
      /\ Occupied(m) = Occupied(map)
      /\ KeysIn(m, Occupied(m)) = KeysIn(map, Occupied(map))
      /\ Distinct(map) => Distinct(m)
      /\ \A l \in Keys : hashmap_get2(m, l) = hashmap_get2(map, l)
  <2>1. CASE map.capacity # 0
    BY <1>1, <2>1 DEF IsMap
  <2>2. CASE map.capacity = 0
    <3>1. m = Fresh(INIT_SIZE) /\ INIT_SIZE \in Capacities
      BY <2>2, CapacityAssumption
    <3>2. Occupied(map) = {} /\ \A l \in Keys : hashmap_get2(map, l) = NoVal
      BY <1>1, <2>2, NoBuckets
    <3>3. Occupied(m) = {} /\ \A l \in Keys : hashmap_get2(m, l) = NoVal
      BY <3>1, EmptyTables
    <3>4. IsMap(m) /\ m.capacity = INIT_SIZE
      BY <3>1, FreshIsMap
    <3> HIDE DEF m
    <3>5. Reachable(m) /\ Valued(m) /\ Distinct(m)
      BY <3>3, NothingHidden
    <3> QED BY <3>1, <3>2, <3>3, <3>4, <3>5 DEF KeysIn
  <2> QED BY <2>1, <2>2
<1>3. PICK idx \in InsertionSlot(m, k) : map' = Store(m, idx, k, v)
  BY DEF Put
<1> HIDE DEF m
<1>4. PICK q \in FirstProbe(m, k, {k, TOMBSTONE, Null}) : idx = Slot(m, k, q)
  BY DEF InsertionSlot
<1>5. PICK n : n = map'
  OBVIOUS
<1>6. StoresAt(m, k, q) /\ n = Store(m, Slot(m, k, q), k, v)
  BY <1>3, <1>4, <1>5 DEF StoresAt
<1>7. /\ hashmap_get2(n, k) = v
      /\ \A l \in Keys \ {k} : hashmap_get2(n, l) = hashmap_get2(m, l)
      /\ Reachable(n) /\ Valued(n)
  BY <1>2, <1>6, StoreGet
<1>8. Distinct(map) /\ k \notin KeysIn(map, Occupied(map)) => Distinct(n)
  BY <1>2, <1>6, StoreDistinct
<1>9. View' = [View EXCEPT ![k] = v]
  <2>1. View' = [l \in Keys |-> hashmap_get2(n, l)]
    BY <1>1, <1>5 DEF View
  <2> QED BY <1>1, <1>2, <1>7, <2>1, ViewIs
<1>10. IInv' /\ Copied'
  BY <1>1, PutKeepsInv DEF WeakInv, Copied
<1> QED BY <1>1, <1>5, <1>7, <1>8, <1>9, <1>10 DEF WeakInv

\* So does a put that starts a rehash, for a lookup that waits until it is done.
LEMMA BeginRehashStep ==
  ASSUME WeakInv, NEW k \in Keys, NEW v \in Vals, BeginRehash(k, v)
  PROVE  WeakInv' /\ View' = [View EXCEPT ![k] = v] /\ map' = map
<1>1. PICK c \in Capacities : new' = Fresh(c)
  BY DEF BeginRehash, NewCapacity
<1>2. /\ pc = "idle" /\ pc' = "rehash" /\ drain' = 0 /\ map' = map /\ op' = <<"put", k, v>>
      /\ Reachable(map) /\ Valued(map) /\ IsMap(map)
  BY DEF BeginRehash, WeakInv, IInv, TypeOK
<1>3. PICK n : n = new'
  OBVIOUS
<1>4. NonNull(n) = {} /\ Occupied(n) = {}
  BY <1>1, <1>3, EmptyTables
<1>5. Reachable(n) /\ Valued(n) /\ Distinct(n)
  BY <1>4, NothingHidden
<1>6. Drained' = {}
  <2>1. \A i \in Occupied(map) : ~(i < 0)
    BY <1>2, OccupiedType, CapacityType
  <2> QED BY <1>2, <2>1 DEF Drained
<1>7. Copied'
  BY <1>2, <1>3, <1>4, <1>5, <1>6 DEF Copied, KeysIn
<1>8. View' = [View EXCEPT ![k] = v]
  <2>1. View' = [[l \in Keys |-> hashmap_get2(map, l)] EXCEPT ![k] = v]
    BY <1>2 DEF View
  <2> QED BY <1>2, <2>1, ViewIs
<1>9. IInv'
  BY BeginRehashKeepsInv DEF WeakInv
<1> QED BY <1>2, <1>3, <1>5, <1>7, <1>8, <1>9 DEF WeakInv

\* The copying and the failure of the assertion change no lookup ...
LEMMA DrainStep ==
  ASSUME WeakInv, Drain
  PROVE  WeakInv' /\ View' = View /\ op' = op /\ map' = map /\ pc' = pc
<1>1. map' = map /\ op' = op /\ pc' = pc
  BY DEF Drain
<1>2. View' = View
  BY <1>1 DEF View
<1>3. IInv' /\ Reachable(new') /\ Valued(new') /\ Copied'
  BY DrainKeepsInv, DrainCopies DEF WeakInv
<1> QED BY <1>1, <1>2, <1>3 DEF WeakInv

\* ... and the assertion fails of tables only that held a key twice ...
LEMMA AssertFailsStep ==
  ASSUME WeakInv, AssertFails
  PROVE  WeakInv' /\ View' = View /\ op' = op /\ ~Distinct(map)
<1>1. /\ map' = map /\ op' = op /\ new' = new /\ drain' = drain
      /\ pc = "rehash" /\ pc' = "panicked" /\ AllDrained
  BY DEF AssertFails, AllDrained
<1>2. View' = View
  BY <1>1 DEF View
<1>3. IInv'
  BY AssertFailsKeepsInv DEF WeakInv
<1>4. Copied'
  <2>1. Drained' = Drained
    BY <1>1 DEF Drained
  <2> QED BY <1>1, <2>1 DEF WeakInv, Copied
<1>5. ~Distinct(map)
  BY <1>1, AllCopied DEF AssertFails
<1> QED BY <1>1, <1>2, <1>3, <1>4, <1>5 DEF WeakInv

\* ... so that the exchange of the tables changes no lookup either, and the
\* pending put is what it was waited for.
LEMMA FinishStep ==
  ASSUME WeakInv, FinishRehash
  PROVE  WeakInv' /\ View' = View /\ op' = op /\ Distinct(map')
<1>1. /\ pc = "rehash" /\ pc' = "idle" /\ new' = Unallocated /\ op' = op /\ AllDrained
      /\ IsMap(new) /\ new.capacity # 0 /\ Reachable(new) /\ Valued(new)
      /\ op \in {"put"} \X Keys \X Vals
  BY DEF FinishRehash, AllDrained, WeakInv, IInv, TypeOK
<1>2. PICK k \in Keys, v \in Vals : k = op[2] /\ v = op[3]
  BY <1>1
<1>3. Distinct(new) /\ NonNull(new) = Occupied(new)
  BY <1>1 DEF WeakInv, Copied
<1>4. \A l \in Keys : hashmap_get2(new, l) = hashmap_get2(map, l)
  BY <1>1, AllCopied DEF FinishRehash
<1>5. PICK idx \in InsertionSlot(new, k) : map' = Store(new, idx, k, v)
  BY <1>2 DEF FinishRehash
<1>6. PICK q \in FirstProbe(new, k, {k, TOMBSTONE, Null}) : idx = Slot(new, k, q)
  BY DEF InsertionSlot
<1>7. PICK n : n = map'
  OBVIOUS
<1>8. /\ StoresAt(new, k, q) /\ n = Store(new, Slot(new, k, q), k, v)
      /\ new.capacity \in Capacities
  BY <1>1, <1>5, <1>6, <1>7 DEF StoresAt, IsMap
<1>9. /\ hashmap_get2(n, k) = v
      /\ \A l \in Keys \ {k} : hashmap_get2(n, l) = hashmap_get2(new, l)
      /\ Reachable(n) /\ Valued(n)
  BY <1>1, <1>8, StoreGet
<1>10. Distinct(n)
  BY <1>1, <1>3, <1>8, StoreDistinct
<1>11. View' = View
  <2>1. View' = [l \in Keys |-> hashmap_get2(n, l)]
    BY <1>1, <1>7 DEF View
  <2>2. View = [[l \in Keys |-> hashmap_get2(map, l)] EXCEPT ![k] = v]
    BY <1>1, <1>2, ViewIs
  <2> QED BY <1>4, <1>9, <2>1, <2>2
<1>12. Reachable(new') /\ Valued(new') /\ Distinct(new')
  BY <1>1, EmptyTables, NothingHidden
<1>13. IInv' /\ Copied'
  BY <1>1, <1>12, FinishKeepsInv DEF WeakInv, Copied
<1> QED BY <1>1, <1>7, <1>9, <1>10, <1>11, <1>12, <1>13 DEF WeakInv

\* An overwrite binds its key and nothing else.
LEMMA OverwriteStep ==
  ASSUME WeakInv, NEW k \in Keys, NEW v \in Vals, Overwrite(k, v)
  PROVE  /\ WeakInv'
         /\ View' = [View EXCEPT ![k] = v]
         /\ Distinct(map) => Distinct(map')
<1>1. /\ pc = "idle" /\ pc' = "idle" /\ new' = new
      /\ IsMap(map) /\ Reachable(map) /\ Valued(map) /\ Reachable(new) /\ Valued(new)
  BY DEF Overwrite, WeakInv, IInv, TypeOK
<1>2. PICK idx \in Entry(map, k) : map' = Store(map, idx, k, v)
  BY DEF Overwrite
<1>3. PICK q \in FirstProbe(map, k, {k, Null}) : idx = Slot(map, k, q) /\ KeyAt(map, k, q) = k
  BY DEF Entry
<1>4. PICK n : n = map'
  OBVIOUS
<1>5. StoresAt(map, k, q) /\ n = Store(map, Slot(map, k, q), k, v)
  BY <1>2, <1>3, <1>4 DEF StoresAt
<1>6. map.capacity \in Capacities
  BY <1>1, EntryType
<1>7. /\ hashmap_get2(n, k) = v
      /\ \A l \in Keys \ {k} : hashmap_get2(n, l) = hashmap_get2(map, l)
      /\ Reachable(n) /\ Valued(n)
  BY <1>1, <1>5, <1>6, StoreGet
<1>8. Distinct(map) => Distinct(n)
  BY <1>1, <1>3, <1>5, <1>6, StoreDistinct
<1>9. View' = [View EXCEPT ![k] = v]
  <2>1. View' = [l \in Keys |-> hashmap_get2(n, l)]
    BY <1>1, <1>4 DEF View
  <2> QED BY <1>1, <1>7, <2>1, ViewIs
<1>10. IInv' /\ Copied'
  BY <1>1, OverwriteKeepsInv DEF WeakInv, Copied
<1> QED BY <1>1, <1>4, <1>7, <1>8, <1>9, <1>10 DEF WeakInv

\* A delete touches no other binding, and leaves none of its key if the table
\* held it once.
LEMMA DeleteStep ==
  ASSUME WeakInv, NEW k \in Keys, Delete(k)
  PROVE  /\ WeakInv'
         /\ \E v \in Vals \cup {NoVal} : View' = [View EXCEPT ![k] = v]
         /\ Distinct(map) => Distinct(map') /\ View' = [View EXCEPT ![k] = NoVal]
<1>1. /\ pc = "idle" /\ pc' = "idle" /\ new' = new
      /\ IsMap(map) /\ HasRoom(map) /\ Reachable(map) /\ Valued(map)
      /\ Reachable(new) /\ Valued(new)
  BY DEF Delete, WeakInv, IInv, TypeOK, RoomLeft
<1>2. IInv' /\ Copied'
  BY <1>1, DeleteKeepsInv DEF WeakInv, Copied
<1>3. CASE Entry(map, k) = {}
  <2>1. map' = map
    BY <1>3 DEF Delete
  <2>2. hashmap_get2(map, k) = NoVal
    BY <1>3 DEF hashmap_get2
  <2>3. View' = [View EXCEPT ![k] = NoVal]
    <3>1. View' = [l \in Keys |-> hashmap_get2(map, l)]
      BY <1>1, <2>1 DEF View
    <3> QED BY <1>1, <2>2, <3>1, ViewIs
  <2> QED BY <1>1, <1>2, <2>1, <2>3 DEF WeakInv
<1>4. CASE Entry(map, k) # {}
  <2>1. PICK idx \in Entry(map, k) : map' = [map EXCEPT !.buckets = [@ EXCEPT ![idx] = Deleted]]
    BY <1>4 DEF Delete
  <2>2. PICK n : n = [map EXCEPT !.buckets = [@ EXCEPT ![idx] = Deleted]]
    OBVIOUS
  <2>3. /\ \A l \in Keys \ {k} : hashmap_get2(n, l) = hashmap_get2(map, l)
        /\ Reachable(n) /\ Valued(n)
        /\ Distinct(map) => Distinct(n) /\ hashmap_get2(n, k) = NoVal
    BY <1>1, <2>2, TombstoneGet
  <2>4. n = map' /\ IsMap(n)
    BY <1>2, <2>1, <2>2 DEF IInv, TypeOK
  <2>5. hashmap_get2(n, k) \in Vals \cup {NoVal}
    BY <2>3, <2>4, GetType
  <2>6. View' = [View EXCEPT ![k] = hashmap_get2(n, k)]
    <3>1. View' = [l \in Keys |-> hashmap_get2(n, l)]
      BY <1>1, <2>4 DEF View
    <3> QED BY <1>1, <2>3, <3>1, ViewIs
  <2> QED BY <1>1, <1>2, <2>3, <2>4, <2>5, <2>6 DEF WeakInv
<1> QED BY <1>3, <1>4

(***************************************************************************)
(* The theorems.                                                           *)
(***************************************************************************)
LEMMA InitWeakInv == Init => WeakInv /\ Distinct(map) /\ pc # "panicked" /\ Table!Init
<1> SUFFICES ASSUME Init
             PROVE  WeakInv /\ Distinct(map) /\ pc # "panicked" /\ Table!Init
  OBVIOUS
<1>1. map = Unallocated /\ new = Unallocated /\ pc = "idle" /\ op = <<"none">>
  BY DEF Init
<1>2. /\ Reachable(map) /\ Reachable(new) /\ Valued(map) /\ Valued(new) /\ Distinct(map)
      /\ Distinct(new)
      /\ \A l \in Keys : hashmap_get2(map, l) = NoVal
  BY <1>1, EmptyTables, NothingHidden
<1>3. View = [k \in Keys |-> NoVal]
  BY <1>1, <1>2, ViewIs
<1> QED BY <1>1, <1>2, <1>3, InitInv DEF WeakInv, Copied, Table!Init

\* A step of the macro table is a step of the weaker map.
LEMMA WeakStep ==
  ASSUME WeakInv, MacroNext
  PROVE  /\ WeakInv'
         /\ \/ Table!Inserting
            \/ \E k \in Keys : Table!DeleteSome(k)
            \/ View' = View /\ op' = op
<1>1. ASSUME NEW k \in Keys, NEW v \in Vals, Put(k, v)
      PROVE  WeakInv' /\ Table!Put(k, v)
  BY <1>1, PutStep DEF Put, Table!Put
<1>2. ASSUME NEW k \in Keys, NEW v \in Vals, BeginRehash(k, v)
      PROVE  WeakInv' /\ Table!Put(k, v)
  BY <1>2, BeginRehashStep DEF BeginRehash, Table!Put
<1>3. ASSUME NEW k \in Keys, Delete(k)
      PROVE  WeakInv' /\ Table!DeleteSome(k)
  BY <1>3, DeleteStep DEF Delete, Table!DeleteSome
<1>4. ASSUME Rehashing
      PROVE  WeakInv' /\ View' = View /\ op' = op
  BY <1>4, DrainStep, FinishStep, AssertFailsStep DEF Rehashing
<1> QED BY <1>1, <1>2, <1>3, <1>4 DEF MacroNext, add_macro, undef_macro, Table!Inserting

\* A step of a table whose clients look before they store is a step of the map.
LEMMA ExactStep ==
  ASSUME ExactInv, ExactNext
  PROVE  /\ ExactInv'
         /\ \/ Table!Inserting
            \/ \E k \in Keys : Table!Delete(k)
            \/ View' = View /\ op' = op
<1>1. WeakInv /\ Distinct(map) /\ pc # "panicked" /\ IsMap(map) /\ Reachable(map) /\ Valued(map)
  BY DEF ExactInv, WeakInv, IInv, TypeOK
<1>2. ASSUME NEW k \in Keys, NEW v \in Vals, hashmap_get2(map, k) = NoVal, add_macro(k, v)
      PROVE  ExactInv' /\ Table!Put(k, v)
  <2>1. k \notin KeysIn(map, Occupied(map))
    BY <1>1, <1>2, GetType
  <2>2. CASE Put(k, v)
    BY <1>1, <2>1, <2>2, PutStep DEF ExactInv, Put, Table!Put
  <2>3. CASE BeginRehash(k, v)
    BY <1>1, <2>3, BeginRehashStep DEF ExactInv, BeginRehash, Table!Put
  <2> QED BY <1>2, <2>2, <2>3 DEF add_macro
<1>3. ASSUME NEW k \in Keys, NEW v \in Vals, push_var_scope(k, v)
      PROVE  ExactInv' /\ Table!Put(k, v)
  <2>1. CASE Overwrite(k, v)
    BY <1>1, <2>1, OverwriteStep DEF ExactInv, Overwrite, Table!Put
  <2>2. CASE hashmap_get2(map, k) = NoVal /\ add_macro(k, v)
    BY <1>2, <2>2
  <2> QED BY <1>3, <2>1, <2>2 DEF push_var_scope, add_macro
<1>4. ASSUME NEW k \in Keys, Delete(k)
      PROVE  ExactInv' /\ Table!Delete(k)
  BY <1>1, <1>4, DeleteStep DEF ExactInv, Delete, Table!Delete
<1>5. ASSUME Rehashing
      PROVE  ExactInv' /\ View' = View /\ op' = op
  <2>1. CASE Drain
    BY <1>1, <2>1, DrainStep DEF ExactInv
  <2>2. CASE FinishRehash
    BY <1>1, <2>2, FinishStep DEF ExactInv, FinishRehash
  <2>3. CASE AssertFails
    BY <1>1, <2>3, AssertFailsStep
  <2> QED BY <1>5, <2>1, <2>2, <2>3 DEF Rehashing
<1> QED BY <1>2, <1>3, <1>4, <1>5
        DEF ExactNext, CarefulNext, ScopeNext, undef_macro, Table!Inserting

LEMMA StutterKeepsInv ==
  ASSUME UNCHANGED vars
  PROVE  /\ WeakInv => WeakInv'
         /\ ExactInv => ExactInv'
         /\ View' = View /\ op' = op
<1>1. map' = map /\ new' = new /\ drain' = drain /\ pc' = pc /\ op' = op
  BY DEF vars
<1>2. IInv => IInv'
  BY StepInv
<1>3. View' = View
  BY <1>1 DEF View
<1>4. Copied => Copied'
  <2>1. Drained' = Drained
    BY <1>1 DEF Drained
  <2> QED BY <1>1, <2>1 DEF Copied
<1> QED BY <1>1, <1>2, <1>3, <1>4 DEF WeakInv, ExactInv

\* As long as no name is stored while it can be found, the table never holds a
\* name twice, and the assertion of rehash never fails.
THEOREM KeysAreOnce == ExactSpec => []KeysOnce
<1>1. Init => ExactInv
  BY InitWeakInv DEF ExactInv
<1>2. ExactInv /\ [ExactNext]_vars => ExactInv'
  BY ExactStep, StutterKeepsInv
<1>3. ExactInv => KeysOnce
  <2> SUFFICES ASSUME ExactInv
               PROVE  NoDuplicate /\ AssertionHolds
    BY DEF KeysOnce
  <2>1. Distinct(map) /\ Distinct(new) /\ pc # "panicked"
    BY DEF ExactInv, WeakInv, Copied
  <2> QED BY <2>1 DEF NoDuplicate, AssertionHolds, Distinct
<1> QED BY <1>1, <1>2, <1>3, PTL DEF ExactSpec

\* The macro table is a map except that a name removed may come back: a put
\* binds its name and no put, delete or rehash disturbs any other.
THEOREM RefinesWeakMap == Spec => ImplementsWeakMap
<1>1. Init => WeakInv /\ Table!Init
  BY InitWeakInv
<1>2. WeakInv /\ [MacroNext]_vars => WeakInv'
  BY WeakStep, StutterKeepsInv
<1>3. WeakInv /\ [MacroNext]_vars
        => [Table!Inserting \/ \E k \in Keys : Table!DeleteSome(k)]_(Table!vars)
  BY WeakStep, StutterKeepsInv DEF Table!vars
<1> QED BY <1>1, <1>2, <1>3, PTL DEF Spec, ImplementsWeakMap, Table!WeakSpec

\* A table whose clients store no name that they could find is a map: the last
\* put wins and a removed name is gone, whatever is rehashed in between.
THEOREM RefinesMap == ExactSpec => ImplementsMap
<1>1. Init => ExactInv /\ Table!Init
  BY InitWeakInv DEF ExactInv
<1>2. ExactInv /\ [ExactNext]_vars => ExactInv'
  BY ExactStep, StutterKeepsInv
<1>3. ExactInv /\ [ExactNext]_vars
        => [Table!Inserting \/ \E k \in Keys : Table!Delete(k)]_(Table!vars)
  BY ExactStep, StutterKeepsInv DEF Table!vars
<1> QED BY <1>1, <1>2, <1>3, PTL DEF ExactSpec, ImplementsMap, Table!Spec
=============================================================================
