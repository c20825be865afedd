---------------------------- MODULE HashMapProofs ---------------------------
(***************************************************************************)
(* HashMap for every set of keys, every hash and every capacity.           *)
(***************************************************************************)
EXTENDS HashMap, FiniteSetTheorems, SequenceTheorems, TLAPS

Facts == INSTANCE Lemmas

\* The buckets of the old table that are still to be moved.
Waiting == {i \in DOMAIN old_buckets :
              /\ \E n \in DOMAIN pending : pending[n] = i
              /\ old_buckets[i].key # NULL}
Tombs == {i \in Filled : buckets[i].key = NULL}

PendingOnce == \A m, n \in DOMAIN pending : pending[m] = pending[n] => m = n

\* A key waits in one bucket, and is not in the new table yet.
WaitingApart ==
  /\ \A i, j \in Waiting : old_buckets[i].key = old_buckets[j].key => i = j
  /\ \A i \in Waiting, j \in DOMAIN buckets : buckets[j].key # old_buckets[i].key

\* The buckets filled, with those still to come, are the ones counted, and
\* leave room.  The new table has no tombstones.
Counted ==
  \/ /\ pc = "idle"
     /\ count = Cardinality(Filled)
     /\ tombstone_count = Cardinality(Tombs)
     /\ 4 * count <= 3 * capacity
  \/ /\ pc = "resizing"
     /\ call \in Calls
     /\ IsFiniteSet(Waiting)
     /\ count = Cardinality(Filled) + Cardinality(Waiting)
     /\ Tombs = {} /\ tombstone_count = 0
     /\ 8 * count <= 3 * capacity /\ capacity > 3

Idle == pc = "idle" => pending = <<>>

Inv ==
  /\ TypeOK /\ capacity > 1 /\ Idle
  /\ KeysReachable
  /\ ListIsWhole
  /\ PendingOnce /\ WaitingApart
  /\ Counted
-----------------------------------------------------------------------------
\* A key's home is one of the buckets.
LEMMA HomeInTable ==
  ASSUME NEW k \in KEYS, capacity \in Nat \ {0}
  PROVE  Home(k) \in 0 .. capacity - 1
<1>1. HASH[k] \in Nat
  BY HashMapAssumption
<1> QED
  BY <1>1 DEF Home

\* Of two buckets, a search from anywhere passes one before the other.
LEMMA BeforeIsTotal ==
  ASSUME capacity \in Nat,
         NEW h \in 0 .. capacity - 1, NEW i \in 0 .. capacity - 1
  PROVE  /\ Before(h, i) \subseteq 0 .. capacity - 1
         /\ i \notin Before(h, i)
         /\ \A j \in 0 .. capacity - 1 :
              i = j \/ j \in Before(h, i) \/ i \in Before(h, j)
  BY DEF Before

\* Of any buckets, a search from h reaches one first.
LEMMA FirstReached ==
  ASSUME capacity \in Nat, NEW h \in 0 .. capacity - 1,
         NEW S \in SUBSET (0 .. capacity - 1), S # {}
  PROVE  \E i \in S : \A j \in Before(h, i) : j \notin S
<1> DEFINE behind == S \cap (h .. capacity - 1)
<1>1. CASE behind # {}
  <2>1. PICK i \in behind : \A k \in behind : i <= k
    <3>1. behind \in SUBSET Nat
      OBVIOUS
    <3> HIDE DEF behind
    <3> QED
      BY <1>1, <3>1, Facts!LeastElement
  <2>2. \A j \in Before(h, i) : j \in h .. i - 1
    BY <2>1 DEF Before
  <2>3. \A j \in Before(h, i) : j \notin S
    BY <2>1, <2>2
  <2> QED
    BY <2>1, <2>3
<1>2. CASE behind = {}
  <2>1. PICK i \in S : \A k \in S : i <= k
    BY Facts!LeastElement
  <2>2. i < h
    BY <1>2, <2>1
  <2>3. \A j \in Before(h, i) : j \in (h .. capacity - 1) \cup (0 .. i - 1)
    BY <2>1, <2>2 DEF Before
  <2>4. \A j \in Before(h, i) : j \notin S
    BY <1>2, <2>1, <2>3
  <2> QED
    BY <2>1, <2>4
<1> QED
  BY <1>1, <1>2

\* The filled buckets are finitely many, and fewer than all while there is
\* room: an empty one is left.
LEMMA FilledFinite ==
  ASSUME TypeOK
  PROVE  /\ IsFiniteSet(Filled) /\ Cardinality(Filled) \in Nat
         /\ Filled \subseteq 0 .. capacity - 1
         /\ Cardinality(Filled) < capacity => \E i \in DOMAIN buckets : IsEmpty(buckets[i])
<1>1. DOMAIN buckets = 0 .. capacity - 1 /\ capacity \in Nat
  BY DEF TypeOK
<1>2. IsFiniteSet(0 .. capacity - 1) /\ Cardinality(0 .. capacity - 1) = capacity
  <2> DEFINE last == capacity - 1
  <2>1. last \in Int /\ (IF 0 > last THEN 0 ELSE last - 0 + 1) = capacity
    BY <1>1
  <2> HIDE DEF last
  <2>2. IsFiniteSet(0 .. last) /\ Cardinality(0 .. last) = capacity
    BY <2>1, FS_Interval
  <2> QED
    BY <2>2 DEF last
<1>3. Filled \subseteq 0 .. capacity - 1
  BY <1>1 DEF Filled
<1>4. IsFiniteSet(Filled) /\ Cardinality(Filled) \in Nat
  BY <1>2, <1>3, FS_Subset, FS_CardinalityType
<1>5. (\A i \in DOMAIN buckets : ~IsEmpty(buckets[i])) => Filled = 0 .. capacity - 1
  BY <1>1 DEF Filled
<1> QED
  BY <1>1, <1>2, <1>3, <1>4, <1>5

LEMMA RoomLeft ==
  ASSUME Inv
  PROVE  \E i \in DOMAIN buckets : IsEmpty(buckets[i])
<1>1. /\ capacity \in Nat /\ capacity > 1 /\ count \in Nat
      /\ Cardinality(Filled) \in Nat
  BY FilledFinite DEF Inv, TypeOK
<1>2. CASE pc = "idle"
  BY <1>1, <1>2, FilledFinite DEF Inv, Counted
<1>3. CASE pc = "resizing"
  <2>1. Cardinality(Waiting) \in Nat
    BY <1>3, FS_CardinalityType DEF Inv, Counted
  <2> QED
    BY <1>1, <1>3, <2>1, FilledFinite DEF Inv, Counted
<1> QED
  BY <1>2, <1>3 DEF Inv, TypeOK

\* From an entry's home on there is a first bucket without a key.
LEMMA GapReached ==
  ASSUME Inv, NEW entry \in Bucket, entry.key # NULL
  PROVE  \E i \in DOMAIN buckets :
           /\ buckets[i].key = NULL
           /\ \A j \in Before(Home(entry.key), i) : buckets[j].key # NULL
<1> DEFINE S == {i \in 0 .. capacity - 1 : buckets[i].key = NULL}
           h == Home(entry.key)
<1>1. capacity \in Nat \ {0} /\ DOMAIN buckets = 0 .. capacity - 1 /\ capacity \in Nat
  BY DEF Inv, TypeOK
<1>2. h \in 0 .. capacity - 1
  <2>1. entry.key \in KEYS
    BY DEF Bucket
  <2> QED
    BY <1>1, <2>1, HomeInTable
<1>3. S # {} /\ S \in SUBSET (0 .. capacity - 1)
  BY <1>1, RoomLeft DEF IsEmpty
<1> HIDE DEF h
<1>4. \E i \in S : \A j \in Before(h, i) : j \notin S
  <2> HIDE DEF S
  <2> QED
    BY <1>1, <1>2, <1>3, FirstReached
<1>5. \A i \in 0 .. capacity - 1 : Before(h, i) \subseteq 0 .. capacity - 1
  BY <1>1, <1>2, BeforeIsTotal
<1> QED
  BY <1>1, <1>4, <1>5 DEF h

\* What find_entry returns: the first bucket, from the key's home on, that is
\* empty or the key's own; the latter if the key is anywhere.
LEMMA Search ==
  ASSUME Inv, NEW k \in KEYS
  PROVE  /\ SearchEnds(k)
         /\ find_entry(k) \in 0 .. capacity - 1
         /\ EndsAt(k, find_entry(k))
         /\ buckets[find_entry(k)].key = NULL =>
              /\ IsEmpty(buckets[find_entry(k)])
              /\ \A i \in DOMAIN buckets : buckets[i].key # k
         /\ buckets[find_entry(k)].key # NULL => buckets[find_entry(k)].key = k
<1> DEFINE S == {i \in 0 .. capacity - 1 : Stops(buckets[i], k)}
<1>1. /\ capacity \in Nat /\ DOMAIN buckets = 0 .. capacity - 1
      /\ capacity \in Nat \ {0} /\ KeysReachable /\ k # NULL
  BY HashMapAssumption DEF Inv, TypeOK
<1>2. S # {}
  BY <1>1, RoomLeft DEF Stops
<1>3. Home(k) \in 0 .. capacity - 1
  BY <1>1, HomeInTable
<1>4. \A i \in S : Before(Home(k), i) \subseteq 0 .. capacity - 1
  BY <1>1, <1>3, BeforeIsTotal
<1>5. \E i \in S : \A j \in Before(Home(k), i) : j \notin S
  <2> HIDE DEF S
  <2>1. S \in SUBSET (0 .. capacity - 1)
    BY DEF S
  <2> QED
    BY <1>1, <1>2, <1>3, <2>1, FirstReached
<1>6. \E i \in DOMAIN buckets : EndsAt(k, i)
  BY <1>1, <1>4, <1>5 DEF EndsAt
<1> DEFINE i == find_entry(k)
<1>7. i \in 0 .. capacity - 1 /\ EndsAt(k, i)
  BY <1>1, <1>6 DEF find_entry
<1>8. SearchEnds(k)
  BY <1>1, <1>2 DEF SearchEnds
<1> HIDE DEF i
<1>9. ASSUME buckets[i].key = NULL
      PROVE  IsEmpty(buckets[i]) /\ \A m \in DOMAIN buckets : buckets[m].key # k
  <2>1. IsEmpty(buckets[i])
    BY <1>1, <1>7, <1>9 DEF EndsAt, Stops
  <2>2. ASSUME NEW m \in DOMAIN buckets, buckets[m].key = k PROVE FALSE
    <3>1. Stops(buckets[m], k) /\ m # i
      BY <1>1, <1>9, <2>2 DEF Stops
    <3>2. m \notin Before(Home(k), i)
      BY <1>7, <3>1 DEF EndsAt
    <3>3. i \in Before(Home(k), m)
      BY <1>1, <1>3, <1>7, <3>1, <3>2, BeforeIsTotal
    <3> QED
      BY <1>1, <2>1, <2>2, <3>3 DEF KeysReachable, Stops
  <2> QED
    BY <2>1, <2>2
<1>10. buckets[i].key # NULL => buckets[i].key = k
  BY <1>7 DEF EndsAt, Stops, IsEmpty
<1> QED
  BY <1>7, <1>8, <1>9, <1>10 DEF i
-----------------------------------------------------------------------------
\* A search with room never loses its way: the empty map.
LEMMA InitInv == Init => Inv
<1> SUFFICES ASSUME Init PROVE Inv
  OBVIOUS
<1> USE DEF Init
<1>1. capacity \in Nat /\ capacity > 1 /\ capacity = HASHMAP_DEFAULT_CAPACITY
  BY HashMapAssumption
<1>2. buckets = [i \in 0 .. capacity - 1 |-> Empty]
  BY <1>1 DEF Unused
<1>3. Filled = {} /\ Tombs = {} /\ Waiting = {}
  BY <1>2 DEF Filled, Tombs, Waiting, Empty, IsEmpty
<1>4. TypeOK
  <2>1. buckets \in [0 .. capacity - 1 -> Bucket]
    BY <1>2 DEF Bucket, Empty
  <2>2. list \in Seq(DOMAIN buckets) /\ pending \in Seq(DOMAIN old_buckets)
    OBVIOUS
  <2>3. old_buckets \in [DOMAIN old_buckets -> Bucket]
    OBVIOUS
  <2>4. out \in [found : BOOLEAN, value : Nat]
    BY DEF Nothing
  <2> QED
    BY <1>1, <2>1, <2>2, <2>3, <2>4 DEF TypeOK
<1>5. KeysReachable
  BY <1>2 DEF KeysReachable, Empty
<1>6. ListIsWhole
  BY <1>3 DEF ListIsWhole
<1>7. PendingOnce /\ WaitingApart
  BY <1>3 DEF PendingOnce, WaitingApart
<1>8. Counted
  BY <1>1, <1>3, FS_EmptySet DEF Counted
<1> QED
  BY <1>1, <1>4, <1>5, <1>6, <1>7, <1>8 DEF Inv, Idle

\* An empty bucket that a search for key reaches is filled with it: every
\* other key is still reached, the list gains the bucket, and one more is
\* filled.
LEMMA Fill ==
  ASSUME TypeOK, capacity > 1, KeysReachable, ListIsWhole,
         NEW i \in 0 .. capacity - 1, NEW entry \in Bucket, entry.key # NULL,
         IsEmpty(buckets[i]),
         \A j \in DOMAIN buckets : buckets[j].key # entry.key,
         \A j \in Before(Home(entry.key), i) : ~IsEmpty(buckets[j]),
         buckets' = [buckets EXCEPT ![i] = entry],
         list' = Append(list, i),
         capacity' = capacity
  PROVE  /\ buckets' \in [0 .. capacity' - 1 -> Bucket]
         /\ list' \in Seq(DOMAIN buckets')
         /\ KeysReachable'
         /\ ListIsWhole'
         /\ Filled' = Filled \cup {i} /\ i \notin Filled
         /\ Tombs' = Tombs
<1>1. /\ buckets \in [0 .. capacity - 1 -> Bucket]
      /\ capacity \in Nat \ {0}
      /\ DOMAIN buckets = 0 .. capacity - 1 /\ DOMAIN buckets' = 0 .. capacity - 1
      /\ list \in Seq(0 .. capacity - 1)
  BY DEF TypeOK
<1>2. /\ buckets'[i] = entry
      /\ \A j \in 0 .. capacity - 1 : j # i => buckets'[j] = buckets[j]
  BY <1>1
<1>3. ~IsEmpty(entry) /\ buckets[i].key = NULL
  BY DEF IsEmpty
<1>4. Filled' = Filled \cup {i} /\ i \notin Filled /\ Tombs' = Tombs
  BY <1>1, <1>2, <1>3 DEF Filled, Tombs
<1>5. KeysReachable'
  <2> SUFFICES ASSUME NEW m \in 0 .. capacity - 1, buckets'[m].key # NULL,
                      NEW j \in Before(Home(buckets'[m].key), m)
               PROVE  ~Stops(buckets'[j], buckets'[m].key)
    BY <1>1 DEF KeysReachable, Home, Before, Stops, IsEmpty
  <2>1. buckets'[m].key \in KEYS
    BY <1>1, <1>2 DEF Bucket
  <2>2. j \in 0 .. capacity - 1 /\ j # m
    BY <1>1, <2>1, HomeInTable, BeforeIsTotal
  <2>3. CASE m = i
    BY <1>1, <1>2, <1>3, <2>2, <2>3 DEF Stops
  <2>4. CASE m # i /\ j = i
    BY <1>1, <1>2, <1>3, <2>4 DEF Stops
  <2>5. CASE m # i /\ j # i
    BY <1>1, <1>2, <2>2, <2>5 DEF KeysReachable
  <2> QED
    BY <2>3, <2>4, <2>5
<1>6. list' \in Seq(DOMAIN buckets')
  BY <1>1
<1>7. ListIsWhole'
  <2>1. /\ Len(list) \in Nat
        /\ DOMAIN list = 1 .. Len(list)
        /\ DOMAIN list' = 1 .. Len(list) + 1
        /\ list'[Len(list) + 1] = i
        /\ \A n \in 1 .. Len(list) : list'[n] = list[n]
    BY <1>1
  <2>2. \A n \in 1 .. Len(list) : list[n] \in Filled
    BY <2>1 DEF ListIsWhole
  <2>3. \A m, n \in DOMAIN list' : list'[m] = list'[n] => m = n
    BY <1>4, <2>1, <2>2 DEF ListIsWhole
  <2>4. {list'[n] : n \in DOMAIN list'} = Filled'
    BY <1>4, <2>1, <2>2 DEF ListIsWhole
  <2> QED
    BY <2>3, <2>4 DEF ListIsWhole
<1> QED
  BY <1>1, <1>2, <1>4, <1>5, <1>6, <1>7

\* The new value of an entry, or a tombstone in its place, changes neither
\* which buckets are filled nor which keys searches pass.
LEMMA Overwrite ==
  ASSUME TypeOK, capacity > 1, KeysReachable, ListIsWhole,
         NEW i \in 0 .. capacity - 1, NEW entry \in Bucket,
         buckets[i].key # NULL, ~IsEmpty(entry),
         entry.key \in {NULL, buckets[i].key},
         buckets' = [buckets EXCEPT ![i] = entry],
         UNCHANGED <<list, capacity>>
  PROVE  /\ buckets' \in [0 .. capacity' - 1 -> Bucket]
         /\ list' \in Seq(DOMAIN buckets')
         /\ KeysReachable'
         /\ ListIsWhole'
         /\ Filled' = Filled /\ i \in Filled
         /\ Tombs' = IF entry.key = NULL THEN Tombs \cup {i} ELSE Tombs
         /\ i \notin Tombs
<1>1. /\ buckets \in [0 .. capacity - 1 -> Bucket]
      /\ capacity \in Nat \ {0}
      /\ DOMAIN buckets = 0 .. capacity - 1 /\ DOMAIN buckets' = 0 .. capacity - 1
  BY DEF TypeOK
<1>2. /\ buckets'[i] = entry
      /\ \A j \in 0 .. capacity - 1 : j # i => buckets'[j] = buckets[j]
  BY <1>1
<1>3. Filled' = Filled /\ i \in Filled /\ i \notin Tombs
  BY <1>1, <1>2 DEF Filled, Tombs, IsEmpty
<1>4. Tombs' = IF entry.key = NULL THEN Tombs \cup {i} ELSE Tombs
  BY <1>1, <1>2, <1>3 DEF Tombs
<1>5. KeysReachable'
  <2> SUFFICES ASSUME NEW m \in 0 .. capacity - 1, buckets'[m].key # NULL,
                      NEW j \in Before(Home(buckets'[m].key), m)
               PROVE  ~Stops(buckets'[j], buckets'[m].key)
    BY <1>1 DEF KeysReachable, Home, Before, Stops, IsEmpty
  <2>1. buckets'[m].key = buckets[m].key /\ buckets[m].key # NULL
    BY <1>1, <1>2
  <2>2. buckets[m].key \in KEYS
    BY <1>1, <2>1 DEF Bucket
  <2>3. j \in 0 .. capacity - 1
    BY <1>1, <2>1, <2>2, HomeInTable, BeforeIsTotal
  <2>4. ~Stops(buckets[j], buckets[m].key)
    BY <1>1, <2>1 DEF KeysReachable
  <2>5. CASE j = i
    BY <1>2, <2>1, <2>2, <2>4, <2>5, HashMapAssumption DEF Stops
  <2>6. CASE j # i
    BY <1>2, <2>1, <2>3, <2>4, <2>6
  <2> QED
    BY <2>5, <2>6
<1>6. ListIsWhole' /\ list' \in Seq(DOMAIN buckets')
  BY <1>1, <1>3 DEF ListIsWhole, TypeOK
<1> QED
  BY <1>1, <1>3, <1>4, <1>5, <1>6
-----------------------------------------------------------------------------
\* Results are results.
LEMMA OutType ==
  ASSUME NEW v \in Nat
  PROVE  {Nothing, Found(v)} \subseteq [found : BOOLEAN, value : Nat]
<1>1. Found(v) \in [found : BOOLEAN, value : Nat]
  BY DEF Found
<1>2. Nothing \in [found : BOOLEAN, value : Nat]
  BY DEF Nothing
<1> QED
  BY <1>1, <1>2

\* hashmap_set and its like fill the bucket the search finds, or replace the
\* value of the key's own; one more bucket is filled at most.
LEMMA PutEffect ==
  ASSUME Inv, NEW c \in Calls, Put(c)
  PROVE  /\ capacity' = capacity /\ tombstone_count' = tombstone_count
         /\ buckets' \in [0 .. capacity' - 1 -> Bucket]
         /\ list' \in Seq(DOMAIN buckets')
         /\ out' \in [found : BOOLEAN, value : Nat]
         /\ KeysReachable' /\ ListIsWhole'
         /\ count' \in {count, count + 1}
         /\ count' - count = Cardinality(Filled)' - Cardinality(Filled)
         /\ Tombs' = Tombs
<1> DEFINE i == find_entry(c.key)
           new == [key |-> c.key, value |-> c.value]
<1>1. /\ c.key \in KEYS /\ c.key # NULL /\ c.value \in Nat
      /\ new \in Bucket /\ ~IsEmpty(new)
  BY HashMapAssumption DEF Calls, Bucket, IsEmpty
<1>2. /\ i \in 0 .. capacity - 1 /\ EndsAt(c.key, i)
      /\ buckets[i].key = NULL =>
           IsEmpty(buckets[i]) /\ \A j \in DOMAIN buckets : buckets[j].key # c.key
      /\ buckets[i].key # NULL => buckets[i].key = c.key
  BY <1>1, Search
<1>3. /\ buckets \in [0 .. capacity - 1 -> Bucket] /\ capacity \in Nat
      /\ count \in Nat /\ list \in Seq(DOMAIN buckets)
      /\ IsFiniteSet(Filled) /\ Cardinality(Filled) \in Nat
  BY FilledFinite DEF Inv, TypeOK
<1>4. /\ capacity' = capacity /\ tombstone_count' = tombstone_count
      /\ \/ /\ buckets[i].key = NULL
            /\ buckets' = [buckets EXCEPT ![i] = new]
            /\ list' = Append(list, i)
            /\ count' = count + 1
            /\ out' = Nothing
         \/ /\ buckets[i].key # NULL
            /\ buckets' = IF c.op = "get_set" THEN buckets
                                              ELSE [buckets EXCEPT ![i] = new]
            /\ out' = IF c.op = "set" THEN Nothing ELSE Found(buckets[i].value)
            /\ UNCHANGED <<list, count>>
  BY DEF Put, Linked
<1>5. out' \in [found : BOOLEAN, value : Nat]
  <2>1. buckets[i].value \in Nat
    BY <1>2, <1>3 DEF Bucket
  <2>2. out' = Nothing \/ out' = Found(buckets[i].value)
    BY <1>4
  <2> QED
    BY <2>1, <2>2, OutType
<1> HIDE DEF i
<1>6. CASE buckets[i].key = NULL
  <2>1. \A j \in Before(Home(c.key), i) : ~IsEmpty(buckets[j])
    BY <1>2 DEF EndsAt, Stops
  <2>2. /\ buckets' \in [0 .. capacity' - 1 -> Bucket]
        /\ list' \in Seq(DOMAIN buckets')
        /\ KeysReachable' /\ ListIsWhole'
        /\ Filled' = Filled \cup {i} /\ i \notin Filled
        /\ Tombs' = Tombs
    <3>1. new.key = c.key
      OBVIOUS
    <3> HIDE DEF new
    <3> QED
      BY <1>1, <1>2, <1>4, <1>6, <2>1, <3>1, Fill DEF Inv
  <2>3. Cardinality(Filled)' = Cardinality(Filled) + 1
    BY <1>3, <2>2, FS_AddElement
  <2> QED
    BY <1>3, <1>4, <1>5, <1>6, <2>2, <2>3
<1>7. CASE buckets[i].key # NULL /\ c.op # "get_set"
  <2>1. /\ buckets' \in [0 .. capacity' - 1 -> Bucket]
        /\ list' \in Seq(DOMAIN buckets')
        /\ KeysReachable' /\ ListIsWhole'
        /\ Filled' = Filled
        /\ Tombs' = Tombs
    <3>1. new.key = buckets[i].key /\ new.key # NULL
      BY <1>1, <1>2, <1>7
    <3> HIDE DEF new
    <3> QED
      BY <1>1, <1>2, <1>4, <1>7, <3>1, Overwrite DEF Inv
  <2> QED
    BY <1>3, <1>4, <1>5, <1>7, <2>1
<1>8. CASE buckets[i].key # NULL /\ c.op = "get_set"
  <2>1. UNCHANGED <<buckets, list, capacity, count>>
    BY <1>4, <1>8
  <2>2. KeysReachable' /\ ListIsWhole' /\ Filled' = Filled /\ Tombs' = Tombs
    BY <2>1 DEF Inv, KeysReachable, ListIsWhole, Filled, Tombs, Before, Home
  <2> QED
    BY <1>3, <1>4, <1>5, <2>1, <2>2
<1> QED
  BY <1>6, <1>7, <1>8

\* A call that finds room.
LEMMA SetInv ==
  ASSUME Inv, Set
  PROVE  Inv'
<1>1. PICK c \in Calls : Put(c)
  BY DEF Set
<1>2. pc = "idle" /\ ~Full /\ UNCHANGED <<old_buckets, pending, call, pc>>
  BY DEF Set, growth
<1>3. /\ capacity \in Nat /\ capacity > 1 /\ count \in Nat
      /\ count = Cardinality(Filled) /\ tombstone_count = Cardinality(Tombs)
      /\ tombstone_count \in Nat
  BY <1>2 DEF Inv, TypeOK, Counted
<1>4. 4 * (count + 1) <= 3 * capacity
  BY <1>2, <1>3 DEF Full
<1>5. TypeOK'
  <2>1. /\ capacity' \in Nat /\ buckets' \in [0 .. capacity' - 1 -> Bucket]
        /\ list' \in Seq(DOMAIN buckets') /\ out' \in [found : BOOLEAN, value : Nat]
        /\ count' \in Nat /\ tombstone_count' \in Nat
    BY <1>1, <1>3, PutEffect
  <2>2. /\ old_buckets' \in [DOMAIN old_buckets' -> Bucket]
        /\ pending' \in Seq(DOMAIN old_buckets')
        /\ call' \in Calls \cup {NoCall} /\ pc' \in {"idle", "resizing"}
    BY <1>2 DEF Inv, TypeOK
  <2> QED
    BY <2>1, <2>2 DEF TypeOK
<1>6. Waiting' = {} /\ PendingOnce'
  <2>1. pending = <<>>
    BY <1>2 DEF Inv, Idle
  <2> QED
    BY <1>2, <2>1 DEF Waiting, PendingOnce
<1>7. WaitingApart'
  BY <1>6 DEF WaitingApart
<1>8. Counted'
  <2>1. Cardinality(Filled)' \in Nat
    <3>1. (IsFiniteSet(Filled) /\ Cardinality(Filled) \in Nat)'
      BY <1>5, FilledFinite, PTL
    <3> QED
      BY <3>1
  <2>2. /\ count' \in {count, count + 1} /\ capacity' = capacity
        /\ count' - count = Cardinality(Filled)' - Cardinality(Filled)
    BY <1>1, PutEffect
  <2>3. count' = Cardinality(Filled)' /\ 4 * count' <= 3 * capacity'
    <3> DEFINE was == Cardinality(Filled)
               now == Cardinality(Filled)'
    <3>1. was = count /\ now \in Nat /\ count' - count = now - was
      BY <1>3, <2>1, <2>2
    <3> HIDE DEF was, now
    <3>2. count' \in Nat /\ count' <= count + 1 /\ capacity' = capacity
      BY <1>3, <2>2
    <3>3. count' = now
      BY <1>3, <3>1, <3>2
    <3>4. 4 * count' <= 3 * capacity'
      <4>1. count \in Nat /\ capacity \in Nat
        BY <1>3
      <4>2. \A n \in Nat : n <= count + 1 => 4 * n <= 3 * capacity
        BY <1>4, <4>1
      <4> QED
        BY <3>2, <4>2
    <3> QED
      BY <3>3, <3>4 DEF now
  <2> QED
    BY <1>1, <1>2, <1>3, <2>3, PutEffect DEF Counted
<1> QED
  BY <1>1, <1>2, <1>3, <1>5, <1>6, <1>7, <1>8, PutEffect DEF Inv, Idle

\* The new table starts empty; the old entries wait.
LEMMA StartResizeInv ==
  ASSUME Inv, StartResize
  PROVE  Inv'
<1>1. /\ pc = "idle" /\ Full /\ call' \in Calls
      /\ old_buckets' = buckets /\ pending' = list /\ pc' = "resizing"
      /\ capacity' = capacity * 2
      /\ buckets' = Unused(capacity')
      /\ list' = <<>>
      /\ count' = count - tombstone_count /\ tombstone_count' = 0
      /\ out' = out
  BY DEF StartResize, HASHMAP_RESIZE_FACTOR
<1>2. /\ capacity \in Nat /\ capacity > 1 /\ count \in Nat
      /\ count = Cardinality(Filled) /\ tombstone_count = Cardinality(Tombs)
      /\ 4 * count <= 3 * capacity
      /\ buckets \in [0 .. capacity - 1 -> Bucket]
      /\ list \in Seq(0 .. capacity - 1)
  BY <1>1 DEF Inv, TypeOK, Counted
<1>3. capacity' \in Nat /\ capacity' > 3
  BY <1>1, <1>2
<1>4. buckets' = [i \in 0 .. capacity' - 1 |-> Empty]
  BY <1>1 DEF Unused
<1>5. IsFiniteSet(Filled) /\ Tombs \subseteq Filled
  BY FilledFinite DEF Inv, Tombs
<1>6. Waiting' = Filled \ Tombs
  <2>1. \A i \in DOMAIN buckets : (\E n \in DOMAIN list : list[n] = i) <=> i \in Filled
    BY DEF Inv, ListIsWhole, Filled
  <2> QED
    BY <1>1, <2>1 DEF Waiting, Tombs, Filled
<1>7. /\ IsFiniteSet(Waiting') /\ Cardinality(Waiting') = count - tombstone_count
      /\ Cardinality(Waiting') \in Nat
  <2>1. Filled \cap Tombs = Tombs /\ IsFiniteSet(Tombs)
    BY <1>5, FS_Subset
  <2>2. /\ IsFiniteSet(Filled \ Tombs)
        /\ Cardinality(Filled \ Tombs) = Cardinality(Filled) - Cardinality(Filled \cap Tombs)
    BY <1>5, FS_Difference
  <2> QED
    BY <1>2, <1>6, <2>1, <2>2, FS_CardinalityType
<1>8. Filled' = {} /\ Tombs' = {}
  BY <1>4 DEF Filled, Tombs, Empty, IsEmpty
<1>9. TypeOK'
  <2>1. buckets' \in [0 .. capacity' - 1 -> Bucket]
    BY <1>4 DEF Bucket, Empty
  <2>2. count' \in Nat /\ tombstone_count' \in Nat
    BY <1>1, <1>7
  <2>3. old_buckets' \in [DOMAIN old_buckets' -> Bucket] /\ pending' \in Seq(DOMAIN old_buckets')
    BY <1>1, <1>2
  <2> QED
    BY <1>1, <1>3, <2>1, <2>2, <2>3 DEF Inv, TypeOK
<1>10. KeysReachable' /\ ListIsWhole'
  BY <1>1, <1>4, <1>8 DEF KeysReachable, ListIsWhole, Empty
<1>11. PendingOnce'
  BY <1>1 DEF Inv, ListIsWhole, PendingOnce
<1>12. WaitingApart'
  <2>1. ASSUME NEW i \in Filled \ Tombs, NEW j \in Filled \ Tombs,
               buckets[i].key = buckets[j].key, i # j
        PROVE  FALSE
    <3>1. /\ i \in 0 .. capacity - 1 /\ j \in 0 .. capacity - 1
          /\ buckets[i].key # NULL /\ buckets[i].key \in KEYS
      BY <1>2, <2>1 DEF Filled, Tombs, Bucket
    <3>2. j \in Before(Home(buckets[i].key), i) \/ i \in Before(Home(buckets[i].key), j)
      BY <1>2, <2>1, <3>1, HomeInTable, BeforeIsTotal
    <3> QED
      BY <1>2, <2>1, <3>1, <3>2 DEF Inv, KeysReachable, Stops
  <2>2. \A i \in Waiting' : buckets[i].key # NULL
    BY <1>6 DEF Tombs
  <2>3. \A j \in DOMAIN buckets' : buckets'[j].key = NULL
    BY <1>4 DEF Empty
  <2> QED
    BY <1>1, <1>6, <2>1, <2>2, <2>3 DEF WaitingApart
<1>13. Counted'
  <2>1. Cardinality(Filled') = 0
    BY <1>8, FS_EmptySet
  <2>2. 8 * (count - tombstone_count) <= 3 * (capacity * 2)
    <3>1. tombstone_count \in Nat
      BY DEF Inv, TypeOK
    <3> QED
      BY <1>2, <3>1
  <2> QED
    BY <1>1, <1>3, <1>7, <1>8, <2>1, <2>2 DEF Counted
<1> QED
  BY <1>1, <1>3, <1>9, <1>10, <1>11, <1>12, <1>13 DEF Inv, Idle

\* Moving an entry takes it from those waiting and fills the first bucket
\* without a key, which is empty, on the way from its new home.
LEMMA MoveEntryInv ==
  ASSUME Inv, MoveEntry
  PROVE  Inv'
<1> DEFINE at == Head(pending)
           entry == old_buckets[at]
           gap == CHOOSE i \in DOMAIN buckets :
                    /\ buckets[i].key = NULL
                    /\ \A j \in Before(Home(entry.key), i) : buckets[j].key # NULL
<1>1. /\ pc = "resizing" /\ pc' = pc /\ pending # <<>> /\ pending' = Tail(pending)
      /\ UNCHANGED <<capacity, count, tombstone_count, old_buckets, call, out>>
      /\ \/ entry.key = NULL /\ UNCHANGED <<buckets, list>>
         \/ /\ entry.key # NULL
            /\ buckets' = [buckets EXCEPT ![gap] = entry]
            /\ list' = Append(list, gap)
  BY DEF MoveEntry, Linked
<1>2. /\ capacity \in Nat /\ capacity > 3 /\ count \in Nat /\ call \in Calls
      /\ buckets \in [0 .. capacity - 1 -> Bucket]
      /\ DOMAIN buckets = 0 .. capacity - 1
      /\ old_buckets \in [DOMAIN old_buckets -> Bucket]
      /\ pending \in Seq(DOMAIN old_buckets)
      /\ IsFiniteSet(Waiting) /\ Tombs = {} /\ tombstone_count = 0
      /\ count = Cardinality(Filled) + Cardinality(Waiting)
      /\ 8 * count <= 3 * capacity
  BY <1>1 DEF Inv, TypeOK, Counted
<1>3. /\ Len(pending) \in Nat /\ Len(pending) # 0
      /\ DOMAIN pending = 1 .. Len(pending) /\ at = pending[1]
      /\ pending' \in Seq(DOMAIN old_buckets)
      /\ DOMAIN pending' = 1 .. Len(pending) - 1
      /\ \A n \in 1 .. Len(pending) - 1 : pending'[n] = pending[n + 1]
  BY <1>1, <1>2
<1>4. at \in DOMAIN old_buckets /\ entry \in Bucket
  BY <1>2, <1>3
<1> HIDE DEF at
<1>5. PendingOnce'
  <2> SUFFICES ASSUME NEW m \in DOMAIN pending', NEW n \in DOMAIN pending',
                      pending'[m] = pending'[n]
               PROVE  m = n
    BY DEF PendingOnce
  <2>1. m \in Nat /\ n \in Nat /\ pending[m + 1] = pending[n + 1]
        /\ m + 1 \in DOMAIN pending /\ n + 1 \in DOMAIN pending
    BY <1>3
  <2>2. m + 1 = n + 1
    BY <2>1 DEF Inv, PendingOnce
  <2> QED
    BY <2>1, <2>2
<1>6. \A i \in DOMAIN old_buckets :
        (\E n \in DOMAIN pending' : pending'[n] = i)
          <=> (\E n \in DOMAIN pending : pending[n] = i) /\ i # at
  <2> SUFFICES ASSUME NEW i \in DOMAIN old_buckets
               PROVE  (\E n \in DOMAIN pending' : pending'[n] = i)
                        <=> (\E n \in DOMAIN pending : pending[n] = i) /\ i # at
    OBVIOUS
  <2>1. ASSUME NEW n \in DOMAIN pending', pending'[n] = i
        PROVE  (\E m \in DOMAIN pending : pending[m] = i) /\ i # at
    <3>1. n \in Nat /\ n + 1 \in DOMAIN pending /\ pending[n + 1] = i /\ n + 1 # 1
          /\ 1 \in DOMAIN pending
      BY <1>3, <2>1
    <3> QED
      BY <1>3, <3>1 DEF Inv, PendingOnce
  <2>2. ASSUME NEW n \in DOMAIN pending, pending[n] = i, i # at
        PROVE  \E m \in DOMAIN pending' : pending'[m] = i
    <3>1. n \in Nat /\ n # 1 /\ n - 1 \in 1 .. Len(pending) - 1 /\ (n - 1) + 1 = n
      BY <1>3, <2>2
    <3>2. n - 1 \in DOMAIN pending' /\ pending'[n - 1] = i
      BY <1>3, <2>2, <3>1
    <3> QED
      BY <3>2
  <2> QED
    BY <2>1, <2>2
<1>7. Waiting' = Waiting \ {at}
  BY <1>1, <1>6 DEF Waiting
<1>8. at \in Waiting <=> entry.key # NULL
  <2>1. 1 \in DOMAIN pending /\ pending[1] = at
    BY <1>3
  <2> QED
    BY <1>4, <2>1 DEF Waiting
<1>9. /\ IsFiniteSet(Waiting') /\ Cardinality(Waiting) \in Nat
      /\ Cardinality(Waiting') = IF entry.key # NULL THEN Cardinality(Waiting) - 1
                                                     ELSE Cardinality(Waiting)
  BY <1>2, <1>7, <1>8, FS_RemoveElement, FS_CardinalityType
<1>10. IsFiniteSet(Filled) /\ Cardinality(Filled) \in Nat
  BY FilledFinite DEF Inv
<1>11. CASE entry.key = NULL
  <2>1. UNCHANGED <<buckets, list, capacity>>
    BY <1>1, <1>11
  <2>2. /\ Filled' = Filled /\ Tombs' = Tombs
        /\ KeysReachable' /\ ListIsWhole'
    BY <2>1 DEF Inv, KeysReachable, ListIsWhole, Filled, Tombs, Before, Home
  <2>3. WaitingApart'
    BY <1>1, <1>7, <2>1 DEF Inv, WaitingApart
  <2>4. TypeOK'
    BY <1>1, <1>3, <2>1 DEF Inv, TypeOK
  <2>5. Counted'
    BY <1>1, <1>2, <1>9, <1>11, <2>2 DEF Counted
  <2> QED
    BY <1>1, <1>2, <1>5, <2>2, <2>3, <2>4, <2>5 DEF Inv, Idle
<1>12. CASE entry.key # NULL
  <2>5. \E i \in DOMAIN buckets :
          /\ buckets[i].key = NULL
          /\ \A j \in Before(Home(entry.key), i) : buckets[j].key # NULL
    <3> HIDE DEF entry
    <3> QED
      BY <1>4, <1>12, GapReached
  <2>6. /\ gap \in 0 .. capacity - 1 /\ buckets[gap].key = NULL
        /\ \A j \in Before(Home(entry.key), gap) : buckets[j].key # NULL
    <3> HIDE DEF entry
    <3> QED
      BY <1>2, <2>5
  <2>7. buckets' = [buckets EXCEPT ![gap] = entry] /\ list' = Append(list, gap)
    BY <1>1, <1>12
  <2> HIDE DEF gap
  <2>8. IsEmpty(buckets[gap])
    BY <1>2, <2>6 DEF Tombs, Filled
  <2>9. \A j \in DOMAIN buckets : buckets[j].key # entry.key
    BY <1>8, <1>12 DEF Inv, WaitingApart
  <2>10. \A j \in Before(Home(entry.key), gap) : ~IsEmpty(buckets[j])
    BY <2>6 DEF IsEmpty
  <2>11. /\ buckets' \in [0 .. capacity' - 1 -> Bucket]
         /\ list' \in Seq(DOMAIN buckets')
         /\ KeysReachable' /\ ListIsWhole'
         /\ Filled' = Filled \cup {gap} /\ gap \notin Filled
         /\ Tombs' = Tombs
    <3> HIDE DEF entry
    <3> QED
      BY <1>1, <1>2, <1>4, <1>12, <2>6, <2>7, <2>8, <2>9, <2>10, Fill DEF Inv
  <2>12. Cardinality(Filled') = Cardinality(Filled) + 1
    BY <1>10, <2>11, FS_AddElement
  <2>13. TypeOK'
    <3> HIDE DEF entry
    <3> QED
      BY <1>1, <1>2, <1>3, <2>11 DEF Inv, TypeOK
  <2>14. WaitingApart'
    <3>1. \A i \in Waiting' : i \in Waiting /\ old_buckets[i].key # entry.key
      BY <1>7, <1>8, <1>12 DEF Inv, WaitingApart
    <3>2. \A i \in Waiting', j \in DOMAIN buckets' : buckets'[j].key # old_buckets[i].key
      BY <1>2, <2>6, <2>7, <3>1 DEF Inv, WaitingApart
    <3> QED
      BY <1>1, <3>1, <3>2 DEF Inv, WaitingApart
  <2>15. Counted'
    <3> DEFINE f == Cardinality(Filled)
               w == Cardinality(Waiting)
    <3>1. f \in Nat /\ w \in Nat /\ count = f + w
          /\ Cardinality(Filled') = f + 1 /\ Cardinality(Waiting') = w - 1
      BY <1>2, <1>9, <1>10, <1>12, <2>12
    <3> HIDE DEF f, w
    <3>2. count = Cardinality(Filled') + Cardinality(Waiting')
      BY <3>1
    <3> HIDE DEF entry
    <3> QED
      BY <1>1, <1>2, <1>9, <2>11, <3>2 DEF Counted
  <2> QED
    BY <1>1, <1>2, <1>5, <2>11, <2>13, <2>14, <2>15 DEF Inv, Idle
<1> QED
  BY <1>11, <1>12

\* When nothing waits any more, the call finds room for its entry.
LEMMA FinishResizeInv ==
  ASSUME Inv, FinishResize
  PROVE  Inv'
<1>1. /\ pc = "resizing" /\ pending = <<>> /\ Put(call) /\ pc' = "idle"
      /\ old_buckets' = <<>> /\ call' = NoCall /\ pending' = pending
  BY DEF FinishResize
<1>2. /\ capacity \in Nat /\ capacity > 3 /\ count \in Nat /\ call \in Calls
      /\ Tombs = {} /\ tombstone_count = 0
      /\ count = Cardinality(Filled) + Cardinality(Waiting)
      /\ 8 * count <= 3 * capacity
  BY <1>1 DEF Inv, TypeOK, Counted
<1>3. Waiting = {} /\ Waiting' = {}
  BY <1>1 DEF Waiting
<1>4. count = Cardinality(Filled) /\ Cardinality(Filled) \in Nat
  BY <1>2, <1>3, FS_EmptySet, FilledFinite DEF Inv
<1>5. TypeOK'
  <2>1. /\ capacity' \in Nat /\ buckets' \in [0 .. capacity' - 1 -> Bucket]
        /\ list' \in Seq(DOMAIN buckets') /\ out' \in [found : BOOLEAN, value : Nat]
        /\ count' \in Nat /\ tombstone_count' \in Nat
    BY <1>1, <1>2, PutEffect
  <2>2. /\ old_buckets' \in [DOMAIN old_buckets' -> Bucket]
        /\ pending' \in Seq(DOMAIN old_buckets')
        /\ call' \in Calls \cup {NoCall} /\ pc' \in {"idle", "resizing"}
    BY <1>1
  <2> QED
    BY <2>1, <2>2 DEF TypeOK
<1>6. PendingOnce' /\ WaitingApart'
  BY <1>1, <1>3 DEF PendingOnce, WaitingApart
<1>7. Counted'
  <2> DEFINE was == Cardinality(Filled)
             now == Cardinality(Filled)'
  <2>1. now \in Nat
    <3>1. (Cardinality(Filled) \in Nat)'
      BY <1>5, FilledFinite, PTL
    <3> QED
      BY <3>1
  <2>2. /\ count' \in {count, count + 1} /\ capacity' = capacity
        /\ count' - count = now - was /\ Tombs' = {}
        /\ tombstone_count' = 0
    BY <1>1, <1>2, PutEffect
  <2>3. was = count
    BY <1>4
  <2> HIDE DEF was, now
  <2>4. count' \in Nat /\ count' <= count + 1
    BY <1>2, <2>2
  <2>5. count' = now
    BY <1>2, <2>1, <2>2, <2>3, <2>4
  <2>6. \A n \in Nat : n <= count + 1 => 4 * n <= 3 * capacity
    BY <1>2
  <2>7. 4 * count' <= 3 * capacity'
    BY <2>2, <2>4, <2>6
  <2>8. Cardinality(Tombs') = 0
    BY <2>2, FS_EmptySet
  <2> QED
    BY <1>1, <2>2, <2>5, <2>7, <2>8 DEF Counted, now
<1> QED
  BY <1>1, <1>2, <1>5, <1>6, <1>7, PutEffect DEF Inv, Idle

\* A lookup changes nothing; a removed entry's bucket stays filled.
LEMMA GetInv ==
  ASSUME Inv, NEW k \in KEYS, hashmap_get(k)
  PROVE  Inv'
<1>1. UNCHANGED <<buckets, capacity, count, tombstone_count, list,
                  old_buckets, pending, call, pc>>
  BY DEF hashmap_get, table, growth
<1>2. out' \in [found : BOOLEAN, value : Nat]
  <2>1. find_entry(k) \in DOMAIN buckets
    BY Search DEF Inv, TypeOK
  <2>2. buckets[find_entry(k)].value \in Nat
    BY <2>1 DEF Inv, TypeOK, Bucket
  <2>3. (buckets[find_entry(k)].key # NULL) \in BOOLEAN
    OBVIOUS
  <2> QED
    BY <2>2, <2>3 DEF hashmap_get
<1>3. TypeOK'
  BY <1>1, <1>2 DEF Inv, TypeOK
<1> QED
  BY <1>1, <1>3 DEF Inv, Idle, KeysReachable, ListIsWhole, PendingOnce,
       WaitingApart, Counted, Filled, Tombs, Waiting, Before, Home

LEMMA RemoveInv ==
  ASSUME Inv, NEW k \in KEYS, hashmap_remove(k)
  PROVE  Inv'
<1> DEFINE i == find_entry(k)
<1>1. /\ UNCHANGED <<capacity, count, list, old_buckets, pending, call, pc>>
      /\ pc = "idle"
      /\ \/ /\ buckets[i].key = NULL
            /\ out' = Nothing
            /\ UNCHANGED <<buckets, tombstone_count>>
         \/ /\ buckets[i].key # NULL
            /\ out' \in {Nothing, Found(buckets[i].value)}
            /\ buckets' = [buckets EXCEPT ![i] = Buried]
            /\ tombstone_count' = tombstone_count + 1
  BY DEF hashmap_remove, growth
<1>2. i \in 0 .. capacity - 1 /\ capacity \in Nat /\ capacity > 1
      /\ buckets \in [0 .. capacity - 1 -> Bucket] /\ tombstone_count \in Nat
  BY Search DEF Inv, TypeOK
<1>3. out' \in [found : BOOLEAN, value : Nat]
  <2>1. buckets[i].value \in Nat
    BY <1>2 DEF Bucket
  <2>2. out' = Nothing \/ out' = Found(buckets[i].value)
    BY <1>1
  <2> QED
    BY <2>1, <2>2, OutType
<1>4. Waiting = {} /\ Waiting' = {}
  BY <1>1 DEF Inv, Idle, Waiting
<1> HIDE DEF i
<1>5. CASE buckets[i].key = NULL
  <2>1. UNCHANGED <<buckets, tombstone_count>>
    BY <1>1, <1>5
  <2>2. TypeOK'
    BY <1>1, <1>3, <2>1 DEF Inv, TypeOK
  <2> QED
    BY <1>1, <2>1, <2>2 DEF Inv, Idle, KeysReachable, ListIsWhole, PendingOnce,
         WaitingApart, Counted, Filled, Tombs, Waiting, Before, Home
<1>6. CASE buckets[i].key # NULL
  <2>1. buckets' = [buckets EXCEPT ![i] = Buried]
        /\ tombstone_count' = tombstone_count + 1
    BY <1>1, <1>6
  <2>2. Buried \in Bucket /\ ~IsEmpty(Buried) /\ Buried.key = NULL
    BY DEF Buried, Bucket, IsEmpty, TOMBSTONE
  <2>3. /\ buckets' \in [0 .. capacity' - 1 -> Bucket]
        /\ list' \in Seq(DOMAIN buckets')
        /\ KeysReachable' /\ ListIsWhole'
        /\ Filled' = Filled /\ i \notin Tombs
        /\ Tombs' = Tombs \cup {i}
    BY <1>1, <1>2, <1>6, <2>1, <2>2, Overwrite DEF Inv
  <2>4. IsFiniteSet(Tombs)
    BY FilledFinite, FS_Subset DEF Inv, Tombs
  <2>5. Cardinality(Tombs') = Cardinality(Tombs) + 1
    BY <2>3, <2>4, FS_AddElement
  <2>6. TypeOK'
    BY <1>1, <1>2, <1>3, <2>1, <2>3 DEF Inv, TypeOK
  <2>7. Counted'
    BY <1>1, <2>1, <2>3, <2>5 DEF Inv, Counted
  <2>8. PendingOnce' /\ WaitingApart'
    BY <1>1, <1>4 DEF Inv, PendingOnce, WaitingApart
  <2> QED
    BY <1>1, <1>2, <2>3, <2>6, <2>7, <2>8 DEF Inv, Idle
<1> QED
  BY <1>5, <1>6

\* Every step keeps the inductive invariant.
LEMMA NextInv == Inv /\ [Next]_vars => Inv'
<1> SUFFICES ASSUME Inv, [Next]_vars PROVE Inv'
  OBVIOUS
<1>1. CASE UNCHANGED vars
  <2>1. UNCHANGED <<buckets, capacity, count, tombstone_count, list,
                    old_buckets, pending, call, pc, out>>
    BY <1>1 DEF vars, table, growth
  <2>2. TypeOK'
    BY <2>1 DEF Inv, TypeOK
  <2> QED
    BY <2>1, <2>2 DEF Inv, Idle, KeysReachable, ListIsWhole, PendingOnce,
         WaitingApart, Counted, Filled, Tombs, Waiting, Before, Home
<1> QED
  BY <1>1, SetInv, StartResizeInv, MoveEntryInv, FinishResizeInv, GetInv, RemoveInv
     DEF Next
-----------------------------------------------------------------------------
\* The inductive invariant holds throughout.
THEOREM Invariance == Spec => []Inv
  BY InitInv, NextInv, PTL DEF Spec

\* Every variable keeps its type.
THEOREM TypeCorrect == Spec => []TypeOK
<1>1. Inv => TypeOK
  BY DEF Inv
<1> QED
  BY <1>1, Invariance, PTL

\* Tombstones and entries never fill the table, so every search ends.
THEOREM SearchesEndHolds == Spec => []SearchesEnd
<1>1. Inv => SearchesEnd
  BY RoomLeft DEF SearchesEnd
<1> QED
  BY <1>1, Invariance, PTL

\* No key is in two buckets, and none lies behind an empty one.
THEOREM KeysReachableHolds == Spec => []KeysReachable
<1>1. Inv => KeysReachable
  BY DEF Inv
<1> QED
  BY <1>1, Invariance, PTL

\* The list goes through every filled bucket once, also while the map grows.
THEOREM ListIsWholeHolds == Spec => []ListIsWhole
<1>1. Inv => ListIsWhole
  BY DEF Inv
<1> QED
  BY <1>1, Invariance, PTL

\* hashmap_resize never meets an empty map.
THEOREM ResizesSomethingHolds == Spec => []ResizesSomething
<1>1. Inv => ResizesSomething
  <2> SUFFICES ASSUME Inv, pc = "idle", Full, list = <<>> PROVE FALSE
    BY DEF ResizesSomething
  <2>1. Filled = {}
    BY DEF Inv, ListIsWhole
  <2>2. count = 0 /\ capacity \in Nat /\ capacity > 1
    BY <2>1, FS_EmptySet DEF Inv, TypeOK, Counted
  <2> QED
    BY <2>2 DEF Full
<1> QED
  BY <1>1, Invariance, PTL

\* The counters are those of the table.
THEOREM CountsAgreeHolds == Spec => []CountsAgree
<1>1. Inv => CountsAgree
  BY DEF Inv, Counted, CountsAgree, Tombs
<1> QED
  BY <1>1, Invariance, PTL
-----------------------------------------------------------------------------
(***************************************************************************)
(* What Selecting computes: its recursive definition has a solution, by    *)
(* the least prefix that would have none, and a second one agrees with it. *)
(***************************************************************************)
SelectingSolves(s, S, n, upto) ==
  upto = [i \in 0 .. n |->
            IF i = 0 THEN <<>>
            ELSE IF s[i] \in S THEN Append(upto[i - 1], s[i]) ELSE upto[i - 1]]

LEMMA SelectingExists ==
  ASSUME NEW X, NEW s \in Seq(X), NEW S
  PROVE  \E upto \in [0 .. Len(s) -> Seq(X)] : SelectingSolves(s, S, Len(s), upto)
<1> DEFINE Bad == {n \in 0 .. Len(s) :
                     ~ \E upto \in [0 .. n -> Seq(X)] : SelectingSolves(s, S, n, upto)}
<1>1. /\ Len(s) \in Nat
      /\ \A i \in 1 .. Len(s) : s[i] \in X
  OBVIOUS
<1>2. SUFFICES ASSUME Bad # {} PROVE FALSE
  BY <1>1
<1>3. PICK n \in Bad : \A k \in Bad : n <= k
  <2>1. Bad \in SUBSET Nat
    BY <1>1
  <2> HIDE DEF Bad
  <2> QED
    BY <1>2, <2>1, Facts!LeastElement
<1>4. CASE n = 0
  <2> DEFINE f == [i \in 0 .. 0 |-> <<>>]
  <2>1. f \in [0 .. 0 -> Seq(X)]
    OBVIOUS
  <2>2. SelectingSolves(s, S, 0, f)
    BY DEF SelectingSolves
  <2> HIDE DEF f
  <2> QED
    BY <1>4, <1>3, <2>1, <2>2
<1>5. CASE n # 0
  <2>1. n \in 0 .. Len(s) /\ n - 1 \in 0 .. Len(s) /\ n - 1 \notin Bad
    <3>1. n \in 0 .. Len(s)
      BY <1>3
    <3> HIDE DEF Bad
    <3> QED
      BY <1>1, <1>3, <1>5, <3>1
  <2>2. PICK g \in [0 .. n - 1 -> Seq(X)] : SelectingSolves(s, S, n - 1, g)
    BY <2>1
  <2> DEFINE last == IF s[n] \in S THEN Append(g[n - 1], s[n]) ELSE g[n - 1]
             next == [i \in 0 .. n |-> IF i = n THEN last ELSE g[i]]
  <2>3. n \in 1 .. Len(s) /\ s[n] \in X /\ n - 1 \in 0 .. n - 1
    BY <1>1, <2>1, <1>5
  <2>4. last \in Seq(X)
    BY <2>2, <2>3
  <2>5. next \in [0 .. n -> Seq(X)]
    <3> HIDE DEF last
    <3> QED
      BY <2>2, <2>3, <2>4
  <2>6. ASSUME NEW i \in 0 .. n
        PROVE  next[i] = IF i = 0 THEN <<>>
                         ELSE IF s[i] \in S THEN Append(next[i - 1], s[i]) ELSE next[i - 1]
    <3>1. CASE i = n
      <4>1. next[i] = last /\ next[i - 1] = g[n - 1] /\ i # 0
        <5> HIDE DEF last
        <5> QED
          BY <2>3, <3>1, <1>5
      <4> QED
        BY <3>1, <4>1
    <3>2. CASE i # n
      <4>1. i \in 0 .. n - 1 /\ (i # 0 => i - 1 \in 0 .. n /\ i - 1 # n)
        BY <2>3, <3>2
      <4>2. g[i] = IF i = 0 THEN <<>>
                   ELSE IF s[i] \in S THEN Append(g[i - 1], s[i]) ELSE g[i - 1]
        BY <2>2, <4>1 DEF SelectingSolves
      <4>3. next[i] = g[i] /\ (i # 0 => next[i - 1] = g[i - 1])
        <5> HIDE DEF last
        <5> QED
          BY <3>2, <4>1
      <4> HIDE DEF next
      <4> QED
        BY <4>2, <4>3
    <3> QED
      BY <3>1, <3>2
  <2>7. SelectingSolves(s, S, n, next)
    <3>1. next = [i \in 0 .. n |-> next[i]]
      OBVIOUS
    <3> HIDE DEF next
    <3> QED
      BY <2>6, <3>1 DEF SelectingSolves
  <2> HIDE DEF next
  <2> QED
    BY <1>3, <2>5, <2>7
<1> QED
  BY <1>4, <1>5

LEMMA SelectingStep ==
  ASSUME NEW X, NEW s \in Seq(X), NEW S
  PROVE  /\ Len(s) \in Nat
         /\ Selecting(s, S) \in [0 .. Len(s) -> Seq(X)]
         /\ Selecting(s, S)[0] = <<>>
         /\ \A n \in 1 .. Len(s) :
              Selecting(s, S)[n] = IF s[n] \in S THEN Append(Selecting(s, S)[n - 1], s[n])
                                   ELSE Selecting(s, S)[n - 1]
         /\ Selected(s, S) \in Seq(X)
<1> DEFINE f == CHOOSE upto : SelectingSolves(s, S, Len(s), upto)
<1>1. Selecting(s, S) = f
  BY DEF Selecting, SelectingSolves
<1>2. PICK g \in [0 .. Len(s) -> Seq(X)] : SelectingSolves(s, S, Len(s), g)
  BY SelectingExists
<1>3. SelectingSolves(s, S, Len(s), f)
  BY <1>2
<1> HIDE DEF f
<1>4. Len(s) \in Nat /\ \A n \in 1 .. Len(s) : s[n] \in X
  OBVIOUS
<1>5. /\ f[0] = <<>>
      /\ \A n \in 1 .. Len(s) :
           f[n] = IF s[n] \in S THEN Append(f[n - 1], s[n]) ELSE f[n - 1]
  <2>1. \A n \in 0 .. Len(s) :
          f[n] = IF n = 0 THEN <<>>
                 ELSE IF s[n] \in S THEN Append(f[n - 1], s[n]) ELSE f[n - 1]
    BY <1>3 DEF SelectingSolves
  <2>2. 0 \in 0 .. Len(s) /\ \A n \in 1 .. Len(s) : n \in 0 .. Len(s) /\ n # 0
    BY <1>4
  <2> QED
    BY <2>1, <2>2
<1>6. \A n \in 0 .. Len(s) : f[n] \in Seq(X)
  <2> DEFINE Bad == {n \in 0 .. Len(s) : f[n] \notin Seq(X)}
  <2>1. SUFFICES ASSUME Bad # {} PROVE FALSE
    OBVIOUS
  <2>2. PICK n \in Bad : \A k \in Bad : n <= k
    <3>1. Bad \in SUBSET Nat
      BY <1>4
    <3> HIDE DEF Bad
    <3> QED
      BY <2>1, <3>1, Facts!LeastElement
  <2>3. n \in 0 .. Len(s) /\ f[n] \notin Seq(X)
    BY <2>2
  <2>4. <<>> \in Seq(X)
    OBVIOUS
  <2>5. n # 0
    BY <1>5, <2>3, <2>4
  <2>6. n \in 1 .. Len(s) /\ n - 1 \in 0 .. Len(s) /\ ~(n <= n - 1)
    BY <1>4, <2>3, <2>5
  <2>7. f[n - 1] \in Seq(X)
    BY <2>2, <2>6
  <2>8. s[n] \in X /\ (f[n] = f[n - 1] \/ f[n] = Append(f[n - 1], s[n]))
    BY <1>4, <1>5, <2>6
  <2>9. \A t \in Seq(X), x \in X : Append(t, x) \in Seq(X)
    OBVIOUS
  <2> QED
    BY <2>3, <2>7, <2>8, <2>9
<1>7. f \in [0 .. Len(s) -> Seq(X)]
  <2>1. f = [n \in 0 .. Len(s) |-> f[n]]
    BY <1>3 DEF SelectingSolves
  <2> QED
    BY <1>6, <2>1
<1> QED
  BY <1>1, <1>4, <1>5, <1>6, <1>7 DEF Selected

\* A set of prefixes that has the empty one, and with a prefix the next.
LEMMA EveryPrefix ==
  ASSUME NEW N \in Nat, NEW Good \in SUBSET (0 .. N), 0 \in Good,
         \A n \in 1 .. N : n - 1 \in Good => n \in Good
  PROVE  \A n \in 0 .. N : n \in Good
<1> DEFINE Bad == (0 .. N) \ Good
<1>1. SUFFICES ASSUME Bad # {} PROVE FALSE
  OBVIOUS
<1>2. PICK n \in Bad : \A k \in Bad : n <= k
  <2>1. Bad \in SUBSET Nat
    OBVIOUS
  <2> HIDE DEF Bad
  <2> QED
    BY <1>1, <2>1, Facts!LeastElement
<1>3. n \in 1 .. N /\ n - 1 \in 0 .. N /\ ~(n <= n - 1)
  BY <1>2
<1>4. n - 1 \in Good
  BY <1>2, <1>3
<1> QED
  BY <1>2, <1>3, <1>4

\* The image of a sequence under a function.
Mapped(g, u) == [i \in 1 .. Len(u) |-> g[u[i]]]

LEMMA MappedAppend ==
  ASSUME NEW X, NEW u \in Seq(X), NEW x \in X, NEW g \in [X -> X]
  PROVE  Mapped(g, Append(u, x)) = Append(Mapped(g, u), g[x])
<1>1. Len(u) \in Nat /\ \A i \in 1 .. Len(u) : u[i] \in X
  OBVIOUS
<1>2. Mapped(g, u) \in Seq(X) /\ Len(Mapped(g, u)) = Len(u)
  BY <1>1 DEF Mapped
<1>3. Mapped(g, Append(u, x)) = Append(Mapped(g, u), g[x])
  <2> DEFINE a == Mapped(g, Append(u, x))
             b == Append(Mapped(g, u), g[x])
  <2>1. Append(u, x) \in Seq(X) /\ Len(Append(u, x)) = Len(u) + 1
    OBVIOUS
  <2>2. a \in Seq(X) /\ Len(a) = Len(u) + 1
    BY <2>1 DEF Mapped
  <2>3. b \in Seq(X) /\ Len(b) = Len(u) + 1
    BY <1>2
  <2>4. ASSUME NEW i \in 1 .. Len(u) + 1 PROVE a[i] = b[i]
    <3>1. a[i] = g[Append(u, x)[i]]
      BY <2>1 DEF Mapped
    <3>2. CASE i = Len(u) + 1
      <4>1. Append(u, x)[i] = x /\ b[i] = g[x]
        BY <1>1, <1>2, <3>2
      <4> QED
        BY <3>1, <4>1
    <3>3. CASE i # Len(u) + 1
      <4>1. i \in 1 .. Len(u)
        BY <1>1, <3>3
      <4>2. Append(u, x)[i] = u[i] /\ b[i] = Mapped(g, u)[i]
        BY <1>2, <4>1
      <4>3. Mapped(g, u)[i] = g[u[i]]
        BY <4>1 DEF Mapped
      <4> QED
        BY <3>1, <4>2, <4>3
    <3> QED
      BY <3>2, <3>3
  <2> HIDE DEF a, b
  <2>5. a = b
    BY <2>2, <2>3, <2>4, SeqEqual
  <2> QED
    BY <2>5 DEF a, b
<1> QED
  BY <1>3

\* What is selected from the image of a sequence is the image of what is
\* selected from it, if the function leaves the elements in the set or out.
Images(s, t, S, g, k) ==
  \A i \in 1 .. k : t[i] = g[s[i]] /\ (t[i] \in S <=> s[i] \in S)

LEMMA SelectingMapped ==
  ASSUME NEW X, NEW s \in Seq(X), NEW t \in Seq(X), NEW S, NEW g \in [X -> X],
         NEW k \in Nat, k <= Len(s), k <= Len(t), Images(s, t, S, g, k)
  PROVE  \A n \in 0 .. k : Selecting(t, S)[n] = Mapped(g, Selecting(s, S)[n])
<1> USE DEF Images
<1> DEFINE f == Selecting(s, S)
           h == Selecting(t, S)
           Good == {n \in 0 .. k : h[n] = Mapped(g, f[n])}
<1>1. /\ Len(s) \in Nat /\ f \in [0 .. Len(s) -> Seq(X)] /\ f[0] = <<>>
      /\ \A n \in 1 .. Len(s) : f[n] = IF s[n] \in S THEN Append(f[n - 1], s[n]) ELSE f[n - 1]
  BY SelectingStep
<1>2. /\ Len(t) \in Nat /\ h[0] = <<>>
      /\ \A n \in 1 .. Len(t) : h[n] = IF t[n] \in S THEN Append(h[n - 1], t[n]) ELSE h[n - 1]
  BY SelectingStep
<1>3. \A i \in 1 .. Len(s) : s[i] \in X
  OBVIOUS
<1> HIDE DEF f, h
<1>4. 0 \in Good
  <2>1. Mapped(g, <<>>) = <<>>
    BY DEF Mapped
  <2> QED
    BY <1>1, <1>2, <2>1
<1>5. ASSUME NEW n \in 1 .. k, n - 1 \in Good PROVE n \in Good
  <2>1. /\ n \in 1 .. Len(s) /\ n \in 1 .. Len(t) /\ n - 1 \in 0 .. Len(s) /\ n \in 0 .. k
        /\ h[n - 1] = Mapped(g, f[n - 1])
    BY <1>1, <1>2, <1>5
  <2>2. f[n - 1] \in Seq(X) /\ s[n] \in X
    BY <1>1, <1>3, <2>1
  <2>3. Mapped(g, Append(f[n - 1], s[n])) = Append(Mapped(g, f[n - 1]), g[s[n]])
    <3> DEFINE u == f[n - 1]
               x == s[n]
    <3>1. u \in Seq(X) /\ x \in X
      BY <2>2
    <3> HIDE DEF u, x
    <3>2. Mapped(g, Append(u, x)) = Append(Mapped(g, u), g[x])
      BY ONLY <3>1, g \in [X -> X], MappedAppend
    <3> QED
      BY <3>2 DEF u, x
  <2>4. t[n] = g[s[n]] /\ (t[n] \in S <=> s[n] \in S)
    BY <2>1
  <2>5. h[n] = Mapped(g, f[n])
    BY <1>1, <1>2, <2>1, <2>3, <2>4
  <2> QED
    BY <2>1, <2>5
<1>6. Good \in SUBSET (0 .. k)
  OBVIOUS
<1>7. \A n \in 0 .. k : n \in Good
  <2> HIDE DEF Good
  <2> QED
    BY <1>4, <1>5, <1>6, EveryPrefix
<1> QED
  BY <1>7 DEF f, h

\* What is selected from a prefix does not depend on what follows it.
LEMMA SelectingAgree ==
  ASSUME NEW X, NEW s \in Seq(X), NEW t \in Seq(X), NEW S,
         NEW k \in Nat, k <= Len(s), k <= Len(t),
         \A i \in 1 .. k : t[i] = s[i]
  PROVE  \A n \in 0 .. k : Selecting(t, S)[n] = Selecting(s, S)[n]
<1> DEFINE g == [x \in X |-> x]
<1>1. Len(s) \in Nat /\ \A i \in 1 .. Len(s) : s[i] \in X
  OBVIOUS
<1>2. g \in [X -> X] /\ \A i \in 1 .. k : t[i] = g[s[i]] /\ (t[i] \in S <=> s[i] \in S)
  BY <1>1
<1>3. \A x \in X : g[x] = x
  OBVIOUS
<1> HIDE DEF g
<1>4. \A n \in 0 .. k : Selecting(t, S)[n] = Mapped(g, Selecting(s, S)[n])
  <2>1. Images(s, t, S, g, k)
    BY <1>2 DEF Images
  <2> QED
    BY ONLY <1>2, <2>1, s \in Seq(X), t \in Seq(X), k \in Nat, k <= Len(s),
       k <= Len(t), SelectingMapped
<1> SUFFICES ASSUME NEW n \in 0 .. k PROVE Selecting(t, S)[n] = Selecting(s, S)[n]
  OBVIOUS
<1> DEFINE u == Selecting(s, S)[n]
<1>5. u \in Seq(X)
  BY <1>1, SelectingStep
<1>6. Selecting(t, S)[n] = Mapped(g, u)
  BY <1>4
<1> HIDE DEF u
<1>7. Mapped(g, u) \in Seq(X) /\ Len(Mapped(g, u)) = Len(u)
      /\ \A i \in 1 .. Len(u) : Mapped(g, u)[i] = u[i]
  <2>1. Len(u) \in Nat /\ \A i \in 1 .. Len(u) : u[i] \in X /\ g[u[i]] = u[i]
    BY <1>3, <1>5
  <2> QED
    BY <2>1 DEF Mapped
<1>8. Mapped(g, u) = u
  BY <1>5, <1>7, SeqEqual
<1> QED
  BY <1>6, <1>8 DEF u

LEMMA SelectedAppend ==
  ASSUME NEW X, NEW s \in Seq(X), NEW e \in X, NEW S
  PROVE  Selected(Append(s, e), S) = IF e \in S THEN Append(Selected(s, S), e)
                                                ELSE Selected(s, S)
<1> DEFINE t == Append(s, e)
           n == Len(s) + 1
<1>1. /\ t \in Seq(X) /\ Len(t) = n /\ Len(s) \in Nat /\ t[n] = e
      /\ \A i \in 1 .. Len(s) : t[i] = s[i]
  OBVIOUS
<1>2. n \in 1 .. n /\ n - 1 = Len(s) /\ Len(s) <= n
  BY <1>1
<1> HIDE DEF t, n
<1>3. Selecting(t, S)[n] = IF t[n] \in S THEN Append(Selecting(t, S)[n - 1], t[n])
                                         ELSE Selecting(t, S)[n - 1]
  BY <1>1, <1>2, SelectingStep
<1>4. Selecting(t, S)[Len(s)] = Selecting(s, S)[Len(s)]
  <2>1. \A i \in 0 .. Len(s) : Selecting(t, S)[i] = Selecting(s, S)[i]
    BY <1>1, <1>2, SelectingAgree
  <2> QED
    BY <1>1, <2>1
<1>5. Selected(t, S) = IF e \in S THEN Append(Selected(s, S), e) ELSE Selected(s, S)
  BY <1>1, <1>2, <1>3, <1>4 DEF Selected
<1> QED
  BY <1>5 DEF t

LEMMA SelectedTail ==
  ASSUME NEW X, NEW s \in Seq(X), s # <<>>, NEW S
  PROVE  Selected(s, S) = IF Head(s) \in S THEN <<Head(s)>> \o Selected(Tail(s), S)
                                           ELSE Selected(Tail(s), S)
<1> DEFINE t == Tail(s)
           k == Len(s) - 1
           f == Selecting(s, S)
           h == Selecting(t, S)
           front == IF Head(s) \in S THEN <<Head(s)>> ELSE <<>>
           Good == {n \in 0 .. k : f[n + 1] = front \o h[n]}
<1>1. /\ t \in Seq(X) /\ Len(t) = k /\ k \in Nat /\ Len(s) = k + 1
      /\ Head(s) = s[1] /\ Head(s) \in X
      /\ \A i \in 1 .. k : t[i] = s[i + 1] /\ t[i] \in X
  OBVIOUS
<1>2. /\ f[0] = <<>>
      /\ \A n \in 1 .. Len(s) : f[n] = IF s[n] \in S THEN Append(f[n - 1], s[n]) ELSE f[n - 1]
  BY SelectingStep
<1> HIDE DEF t, k
<1>3. /\ h[0] = <<>> /\ h \in [0 .. k -> Seq(X)]
      /\ \A n \in 1 .. k : h[n] = IF t[n] \in S THEN Append(h[n - 1], t[n]) ELSE h[n - 1]
      /\ Selected(t, S) = h[k]
  <2>1. t \in Seq(X)
    BY <1>1
  <2>2. /\ Selecting(t, S) \in [0 .. Len(t) -> Seq(X)]
        /\ Selecting(t, S)[0] = <<>>
        /\ \A n \in 1 .. Len(t) :
             Selecting(t, S)[n] = IF t[n] \in S THEN Append(Selecting(t, S)[n - 1], t[n])
                                  ELSE Selecting(t, S)[n - 1]
    BY ONLY <2>1, SelectingStep
  <2> QED
    BY <1>1, <2>2 DEF Selected, h
<1> HIDE DEF f, h
<1>4. front \in Seq(X)
  BY <1>1
<1>5. 0 \in Good
  <2>1. f[1] = front
    <3>1. 1 \in 1 .. Len(s) /\ 1 - 1 = 0
      BY <1>1
    <3>2. f[1] = IF s[1] \in S THEN Append(<<>>, s[1]) ELSE <<>>
      BY <1>2, <3>1
    <3>3. Append(<<>>, s[1]) = <<s[1]>>
      OBVIOUS
    <3> QED
      BY <1>1, <3>2, <3>3
  <2> HIDE DEF front
  <2>2. front \o <<>> = front
    BY <1>4, ConcatEmptySeq
  <2>3. 0 \in 0 .. k /\ 0 + 1 = 1
    BY <1>1
  <2>4. front \o h[0] = front
    BY <1>3, <2>2
  <2> QED
    BY <2>1, <2>3, <2>4
<1> HIDE DEF front
<1>6. ASSUME NEW n \in 1 .. k, n - 1 \in Good PROVE n \in Good
  <2>1. /\ n \in Nat /\ n + 1 \in 1 .. Len(s) /\ (n + 1) - 1 = n /\ (n - 1) + 1 = n
        /\ n - 1 \in 0 .. k /\ n \in 0 .. k
        /\ f[n] = front \o h[n - 1]
    BY <1>1, <1>6
  <2>2. f[n + 1] = IF t[n] \in S THEN Append(f[n], t[n]) ELSE f[n]
    BY <1>1, <1>2, <2>1
  <2>3. h[n] = IF t[n] \in S THEN Append(h[n - 1], t[n]) ELSE h[n - 1]
    BY <1>3
  <2>4. h[n - 1] \in Seq(X) /\ t[n] \in X
    BY <1>1, <1>3, <2>1
  <2>5. Append(front \o h[n - 1], t[n]) = front \o Append(h[n - 1], t[n])
    <3> DEFINE u == h[n - 1]
               x == t[n]
    <3>1. u \in Seq(X) /\ x \in X
      BY <2>4
    <3> HIDE DEF u, x
    <3>2. /\ Append(front \o u, x) = (front \o u) \o <<x>>
          /\ Append(u, x) = u \o <<x>> /\ <<x>> \in Seq(X)
      BY ONLY <1>4, <3>1
    <3>3. (front \o u) \o <<x>> = front \o (u \o <<x>>)
      BY ONLY <1>4, <3>1, <3>2, ConcatAssociative
    <3> QED
      BY <3>2, <3>3 DEF u, x
  <2>6. f[n + 1] = front \o h[n]
    BY <2>1, <2>2, <2>3, <2>5
  <2> QED
    BY <2>1, <2>6
<1>7. \A n \in 0 .. k : n \in Good
  <2>1. Good \in SUBSET (0 .. k)
    OBVIOUS
  <2> HIDE DEF Good
  <2> QED
    BY <1>1, <1>5, <1>6, <2>1, EveryPrefix
<1>8. Selected(s, S) = front \o Selected(t, S)
  <2>1. k \in 0 .. k
    BY <1>1
  <2>2. f[k + 1] = front \o h[k]
    BY <1>7, <2>1
  <2>3. Selected(s, S) = f[k + 1]
    BY <1>1 DEF Selected, f
  <2> QED
    BY <1>3, <2>2, <2>3
<1>9. <<>> \o Selected(t, S) = Selected(t, S)
  BY <1>1, SelectingStep, ConcatEmptySeq
<1> QED
  BY <1>8, <1>9 DEF front, t

\* What is selected are the elements in the set.
LEMMA SelectedRange ==
  ASSUME NEW X, NEW s \in Seq(X), NEW S
  PROVE  /\ \A i \in 1 .. Len(Selected(s, S)) :
              \E m \in 1 .. Len(s) : s[m] \in S /\ s[m] = Selected(s, S)[i]
         /\ \A m \in 1 .. Len(s) :
              s[m] \in S => \E i \in 1 .. Len(Selected(s, S)) : Selected(s, S)[i] = s[m]
<1> DEFINE f == Selecting(s, S)
           There(n) == \A i \in 1 .. Len(f[n]) :
                         \E m \in 1 .. n : s[m] \in S /\ s[m] = f[n][i]
           Back(n) == \A m \in 1 .. n :
                        s[m] \in S => \E i \in 1 .. Len(f[n]) : f[n][i] = s[m]
           Good == {n \in 0 .. Len(s) : There(n) /\ Back(n)}
<1>1. /\ Len(s) \in Nat /\ f[0] = <<>> /\ f \in [0 .. Len(s) -> Seq(X)]
      /\ \A n \in 1 .. Len(s) : f[n] = IF s[n] \in S THEN Append(f[n - 1], s[n]) ELSE f[n - 1]
  BY SelectingStep
<1>2. \A n \in 1 .. Len(s) : s[n] \in X
  OBVIOUS
<1> HIDE DEF f
<1>3. 0 \in Good
  <2>1. 1 .. Len(f[0]) = {} /\ 1 .. 0 = {} /\ 0 \in 0 .. Len(s)
    BY <1>1
  <2>2. There(0) /\ Back(0)
    BY <2>1
  <2> QED
    BY <2>1, <2>2
<1>4. ASSUME NEW n \in 1 .. Len(s), n - 1 \in Good PROVE n \in Good
  <2> DEFINE u == f[n - 1]
  <2>1. /\ n \in Nat /\ n \in 0 .. Len(s) /\ n - 1 \in 0 .. Len(s)
        /\ u \in Seq(X) /\ s[n] \in X
        /\ f[n] = IF s[n] \in S THEN Append(u, s[n]) ELSE u
        /\ 1 .. n = (1 .. n - 1) \cup {n}
    <3>1. n \in Nat /\ n \in 0 .. Len(s) /\ n - 1 \in 0 .. Len(s)
      BY <1>1
    <3>2. u \in Seq(X) /\ s[n] \in X
      BY <1>1, <1>2, <3>1
    <3>3. f[n] = IF s[n] \in S THEN Append(u, s[n]) ELSE u
      BY <1>1
    <3>4. 1 .. n = (1 .. n - 1) \cup {n}
      BY ONLY <3>1, n \in 1 .. Len(s)
    <3> QED
      BY <3>1, <3>2, <3>3, <3>4
  <2>2. There(n - 1) /\ Back(n - 1)
    BY <1>4
  <2>3. /\ \A i \in 1 .. Len(u) : \E m \in 1 .. n - 1 : s[m] \in S /\ s[m] = u[i]
        /\ \A m \in 1 .. n - 1 : s[m] \in S => \E i \in 1 .. Len(u) : u[i] = s[m]
    BY <2>2
  <2> HIDE DEF u
  <2>4. CASE s[n] \notin S
    <3>1. f[n] = u
      BY <2>1, <2>4
    <3>2. There(n) /\ Back(n)
      BY <2>1, <2>3, <2>4, <3>1
    <3> QED
      BY <2>1, <3>2
  <2>5. CASE s[n] \in S
    <3>1. /\ f[n] = Append(u, s[n]) /\ Len(f[n]) = Len(u) + 1 /\ Len(u) \in Nat
          /\ f[n][Len(u) + 1] = s[n]
          /\ \A i \in 1 .. Len(u) : f[n][i] = u[i]
          /\ 1 .. Len(f[n]) = (1 .. Len(u)) \cup {Len(u) + 1}
      BY <2>1, <2>5
    <3>2. There(n)
      BY <2>1, <2>3, <2>5, <3>1
    <3>3. Back(n)
      BY <2>1, <2>3, <3>1
    <3> QED
      BY <2>1, <3>2, <3>3
  <2> QED
    BY <2>4, <2>5
<1>5. \A n \in 0 .. Len(s) : n \in Good
  <2>1. Good \in SUBSET (0 .. Len(s))
    OBVIOUS
  <2> HIDE DEF Good
  <2> QED
    BY <1>1, <1>3, <1>4, <2>1, EveryPrefix
<1>6. There(Len(s)) /\ Back(Len(s))
  <2>1. Len(s) \in Good
    BY <1>1, <1>5
  <2> QED
    BY <2>1
<1> QED
  BY <1>6 DEF f, Selected

\* A sequence in which the elements outside T have left the set S: what is
\* selected is what T selects from what was.
LEMMA SelectedTwice ==
  ASSUME NEW X, NEW s \in Seq(X), NEW t \in Seq(X), NEW S, NEW T,
         Len(t) = Len(s),
         \A i \in 1 .. Len(s) : /\ t[i] \in S <=> s[i] \in S /\ s[i] \in T
                                /\ t[i] \in S => t[i] = s[i]
  PROVE  Selected(t, S) = Selected(Selected(s, S), T)
<1> DEFINE f == Selecting(s, S)
           h == Selecting(t, S)
           Good == {n \in 0 .. Len(s) : h[n] = Selected(f[n], T)}
<1>1. /\ Len(s) \in Nat /\ f[0] = <<>> /\ f \in [0 .. Len(s) -> Seq(X)]
      /\ \A n \in 1 .. Len(s) : f[n] = IF s[n] \in S THEN Append(f[n - 1], s[n]) ELSE f[n - 1]
  BY SelectingStep
<1>2. /\ h[0] = <<>> 
      /\ \A n \in 1 .. Len(s) : h[n] = IF t[n] \in S THEN Append(h[n - 1], t[n]) ELSE h[n - 1]
  <2>1. /\ h[0] = <<>> 
        /\ \A n \in 1 .. Len(t) : h[n] = IF t[n] \in S THEN Append(h[n - 1], t[n]) ELSE h[n - 1]
    BY SelectingStep
  <2> QED
    BY <2>1
<1>3. \A n \in 1 .. Len(s) : s[n] \in X
  OBVIOUS
<1> HIDE DEF f, h
<1>4. 0 \in Good
  <2>1. <<>> \in Seq(X) /\ Len(<<>>) = 0
    OBVIOUS
  <2> DEFINE none == <<>>
  <2> HIDE DEF none
  <2>2. none \in Seq(X)
    BY <2>1 DEF none
  <2>3. Selecting(none, T)[0] = <<>>
    BY ONLY <2>2, SelectingStep
  <2>4. Selected(<<>>, T) = <<>>
    BY <2>1, <2>3 DEF Selected, none
  <2> QED
    BY <1>1, <1>2, <2>4
<1>5. ASSUME NEW n \in 1 .. Len(s), n - 1 \in Good PROVE n \in Good
  <2> DEFINE u == f[n - 1]
             x == s[n]
  <2>1. /\ n \in 0 .. Len(s) /\ n - 1 \in 0 .. Len(s) /\ u \in Seq(X) /\ x \in X
        /\ f[n] = IF x \in S THEN Append(u, x) ELSE u
        /\ h[n - 1] = Selected(u, T)
        /\ h[n] = IF t[n] \in S THEN Append(h[n - 1], t[n]) ELSE h[n - 1]
        /\ t[n] \in S <=> x \in S /\ x \in T
        /\ t[n] \in S => t[n] = x
    <3>1. n \in 0 .. Len(s) /\ n - 1 \in 0 .. Len(s) /\ h[n - 1] = Selected(u, T)
      BY <1>1, <1>5
    <3>2. u \in Seq(X) /\ x \in X
      BY <1>1, <1>3, <3>1
    <3>3. f[n] = IF x \in S THEN Append(u, x) ELSE u
      BY <1>1
    <3>4. h[n] = IF t[n] \in S THEN Append(h[n - 1], t[n]) ELSE h[n - 1]
      BY <1>2
    <3> HIDE DEF u, Good
    <3> QED
      BY <3>1, <3>2, <3>3, <3>4
  <2> HIDE DEF u, x
  <2>2. Selected(Append(u, x), T) = IF x \in T THEN Append(Selected(u, T), x)
                                               ELSE Selected(u, T)
    BY ONLY <2>1, SelectedAppend
  <2>3. h[n] = Selected(f[n], T)
    BY <2>1, <2>2
  <2> QED
    BY <2>1, <2>3
<1>6. \A n \in 0 .. Len(s) : n \in Good
  <2>1. Good \in SUBSET (0 .. Len(s))
    OBVIOUS
  <2> HIDE DEF Good
  <2> QED
    BY <1>1, <1>4, <1>5, <2>1, EveryPrefix
<1>7. h[Len(s)] = Selected(f[Len(s)], T)
  <2>1. Len(s) \in Good
    BY <1>1, <1>6
  <2> QED
    BY <2>1
<1> QED
  BY <1>7 DEF f, h, Selected
-----------------------------------------------------------------------------
(***************************************************************************)
(* HashMap implements OrderedMap.                                          *)
(***************************************************************************)
Entry == [key : KEYS, value : Nat]
Contents(from, indices) == [n \in 1 .. Len(indices) |-> from[indices[n]]]

LEMMA EntryHasKey ==
  ASSUME NEW b \in Bucket
  PROVE  b \in Entry <=> b.key # NULL
  BY HashMapAssumption DEF Bucket, Entry

LEMMA ContentsType ==
  ASSUME NEW D, NEW from \in [D -> Bucket], NEW indices \in Seq(D)
  PROVE  /\ Len(indices) \in Nat
         /\ Contents(from, indices) \in Seq(Bucket)
         /\ Len(Contents(from, indices)) = Len(indices)
         /\ \A n \in 1 .. Len(indices) :
              Contents(from, indices)[n] = from[indices[n]] /\ indices[n] \in D
<1>1. Len(indices) \in Nat /\ \A n \in 1 .. Len(indices) : from[indices[n]] \in Bucket
  OBVIOUS
<1> QED
  BY <1>1 DEF Contents

\* The entries gone through are those of the buckets listed that have a key.
LEMMA LiveRange ==
  ASSUME NEW D, NEW from \in [D -> Bucket], NEW indices \in Seq(D)
  PROVE  /\ Live(from, indices) \in Seq(Bucket)
         /\ \A i \in 1 .. Len(Live(from, indices)) :
              \E n \in 1 .. Len(indices) :
                /\ Live(from, indices)[i] = from[indices[n]]
                /\ from[indices[n]].key # NULL
         /\ \A n \in 1 .. Len(indices) :
              from[indices[n]].key # NULL =>
                \E i \in 1 .. Len(Live(from, indices)) :
                  Live(from, indices)[i] = from[indices[n]]
<1> DEFINE s == Contents(from, indices)
           u == Selected(s, Entry)
<1>1. Live(from, indices) = u
  BY DEF Live, Contents, Entry
<1>2. /\ s \in Seq(Bucket) /\ Len(s) = Len(indices)
      /\ \A n \in 1 .. Len(s) : s[n] = from[indices[n]]
  BY ContentsType
<1>3. \A n \in 1 .. Len(s) : s[n] \in Entry <=> s[n].key # NULL
  <2>1. \A n \in 1 .. Len(s) : s[n] \in Bucket
    BY <1>2, ElementOfSeq
  <2> QED
    BY <2>1, EntryHasKey
<1> HIDE DEF s
<1>4. /\ \A i \in 1 .. Len(u) : \E m \in 1 .. Len(s) : s[m] \in Entry /\ s[m] = u[i]
      /\ \A m \in 1 .. Len(s) : s[m] \in Entry => \E i \in 1 .. Len(u) : u[i] = s[m]
  BY <1>2, SelectedRange
<1>5. u \in Seq(Bucket)
  BY <1>2, SelectingStep
<1> HIDE DEF u
<1>6. \A i \in 1 .. Len(u) :
        \E n \in 1 .. Len(indices) :
          u[i] = from[indices[n]] /\ from[indices[n]].key # NULL
  <2> SUFFICES ASSUME NEW i \in 1 .. Len(u)
               PROVE  \E n \in 1 .. Len(indices) :
                        u[i] = from[indices[n]] /\ from[indices[n]].key # NULL
    OBVIOUS
  <2>1. PICK m \in 1 .. Len(s) : s[m] \in Entry /\ s[m] = u[i]
    BY <1>4
  <2>2. m \in 1 .. Len(indices) /\ s[m] = from[indices[m]] /\ s[m].key # NULL
    BY <1>2, <1>3, <2>1
  <2> QED
    BY <2>1, <2>2
<1>7. \A n \in 1 .. Len(indices) :
        from[indices[n]].key # NULL => \E i \in 1 .. Len(u) : u[i] = from[indices[n]]
  BY <1>2, <1>3, <1>4
<1> QED
  BY <1>1, <1>5, <1>6, <1>7

LEMMA LiveNone ==
  ASSUME NEW from
  PROVE  Live(from, <<>>) = <<>>
<1> DEFINE s == Contents(from, <<>>)
<1>1. s = <<>> /\ Len(s) = 0 /\ s \in Seq(Bucket)
  BY DEF Contents
<1>2. Selecting(s, Entry)[0] = <<>>
  <2>1. s \in Seq(Bucket)
    BY <1>1
  <2> HIDE DEF s
  <2> QED
    BY ONLY <2>1, SelectingStep
<1> QED
  BY <1>1, <1>2 DEF Live, Selected, Contents, Entry

\* A bucket that is not listed yet is filled and linked.
Fills(from, indices, i, e, now, longer) ==
  /\ now = [from EXCEPT ![i] = e] /\ e.key # NULL
  /\ longer = Append(indices, i)
  /\ \A n \in 1 .. Len(indices) : indices[n] # i

\* It adds its entry at the end.
LEMMA LiveAdded ==
  ASSUME NEW D, NEW from \in [D -> Bucket], NEW indices \in Seq(D),
         NEW i \in D, NEW e \in Bucket, NEW now, NEW longer,
         Fills(from, indices, i, e, now, longer)
  PROVE  Live(now, longer) = Append(Live(from, indices), e)
<1> USE DEF Fills
<1> DEFINE s == Contents(from, indices)
           t == Contents(now, longer)
<1>1. /\ Len(indices) \in Nat /\ s \in Seq(Bucket) /\ Len(s) = Len(indices)
      /\ \A n \in 1 .. Len(indices) : s[n] = from[indices[n]] /\ indices[n] \in D
  BY ContentsType
<1>2. now \in [D -> Bucket] /\ longer \in Seq(D) /\ Len(longer) = Len(indices) + 1
  OBVIOUS
<1>3. /\ t \in Seq(Bucket) /\ Len(t) = Len(indices) + 1
      /\ \A n \in 1 .. Len(indices) + 1 : t[n] = now[longer[n]]
  <2>2. /\ Contents(now, longer) \in Seq(Bucket)
        /\ Len(Contents(now, longer)) = Len(longer)
        /\ \A n \in 1 .. Len(longer) :
             Contents(now, longer)[n] = now[longer[n]] /\ longer[n] \in D
    BY ONLY <1>2, ContentsType
  <2> QED
    BY <1>2, <2>2
<1>4. Append(s, e) \in Seq(Bucket) /\ Len(Append(s, e)) = Len(indices) + 1
      /\ Append(s, e)[Len(indices) + 1] = e
      /\ \A n \in 1 .. Len(indices) : Append(s, e)[n] = s[n]
  <2> HIDE DEF s
  <2> QED
    BY <1>1
<1>5. ASSUME NEW n \in 1 .. Len(indices) + 1 PROVE t[n] = Append(s, e)[n]
  <2>1. CASE n = Len(indices) + 1
    <3>1. longer[n] = i /\ now[i] = e
      BY <2>1
    <3> QED
      BY <1>3, <1>4, <2>1, <3>1
  <2>2. CASE n # Len(indices) + 1
    <3>1. n \in 1 .. Len(indices)
      BY <1>1, <2>2
    <3>2. longer[n] = indices[n] /\ indices[n] # i /\ indices[n] \in D
      BY <1>1, <3>1
    <3>3. now[indices[n]] = from[indices[n]]
      BY <3>2
    <3> QED
      BY <1>1, <1>3, <1>4, <3>1, <3>2, <3>3
  <2> QED
    BY <2>1, <2>2
<1>6. t = Append(s, e)
  <2> HIDE DEF t, s
  <2> QED
    BY <1>3, <1>4, <1>5, SeqEqual
<1>7. Selected(Append(s, e), Entry) = Append(Selected(s, Entry), e)
  <2>1. e \in Entry
    BY EntryHasKey
  <2> HIDE DEF s
  <2> QED
    BY <1>1, <2>1, SelectedAppend
<1>8. Live(now, longer) = Selected(t, Entry)
  BY DEF Live, Contents, Entry
<1>9. Live(from, indices) = Selected(s, Entry)
  BY DEF Live, Contents, Entry
<1> QED
  BY <1>6, <1>7, <1>8, <1>9

\* What is gone through first is the entry of the first bucket, if it has one.
LEMMA LiveFirst ==
  ASSUME NEW D, NEW from \in [D -> Bucket], NEW indices \in Seq(D), indices # <<>>
  PROVE  Live(from, indices) =
           IF from[Head(indices)].key # NULL
           THEN <<from[Head(indices)]>> \o Live(from, Tail(indices))
           ELSE Live(from, Tail(indices))
<1> DEFINE s == Contents(from, indices)
           t == Contents(from, Tail(indices))
<1>1. /\ Len(indices) \in Nat /\ s \in Seq(Bucket) /\ Len(s) = Len(indices)
      /\ \A n \in 1 .. Len(indices) : s[n] = from[indices[n]] /\ indices[n] \in D
  BY ContentsType
<1>2. /\ Tail(indices) \in Seq(D) /\ Len(Tail(indices)) = Len(indices) - 1
      /\ Len(indices) - 1 \in Nat /\ Head(indices) = indices[1]
      /\ \A n \in 1 .. Len(indices) - 1 : Tail(indices)[n] = indices[n + 1]
  OBVIOUS
<1>3. /\ t \in Seq(Bucket) /\ Len(t) = Len(indices) - 1
      /\ \A n \in 1 .. Len(indices) - 1 : t[n] = from[Tail(indices)[n]]
  <2> DEFINE rest == Tail(indices)
  <2>1. rest \in Seq(D)
    BY <1>2
  <2> HIDE DEF rest
  <2>2. /\ Contents(from, rest) \in Seq(Bucket)
        /\ Len(Contents(from, rest)) = Len(rest)
        /\ \A n \in 1 .. Len(rest) : Contents(from, rest)[n] = from[rest[n]] /\ rest[n] \in D
    BY ONLY <2>1, from \in [D -> Bucket], ContentsType
  <2>3. Len(rest) = Len(indices) - 1 /\ t = Contents(from, rest) /\ rest = Tail(indices)
    BY <1>2 DEF rest
  <2> HIDE DEF t
  <2> QED
    BY ONLY <2>2, <2>3
<1> HIDE DEF s, t
<1>4. /\ s # <<>> /\ Head(s) = from[Head(indices)] /\ Head(s) \in Bucket
      /\ Tail(s) \in Seq(Bucket) /\ Len(Tail(s)) = Len(indices) - 1
      /\ \A n \in 1 .. Len(indices) - 1 : Tail(s)[n] = s[n + 1]
  BY <1>1, <1>2
<1>5. \A n \in 1 .. Len(indices) - 1 : t[n] = Tail(s)[n]
  BY <1>1, <1>2, <1>3, <1>4
<1>6. t = Tail(s)
  BY <1>3, <1>4, <1>5, SeqEqual
<1>7. Selected(s, Entry) = IF Head(s) \in Entry THEN <<Head(s)>> \o Selected(Tail(s), Entry)
                                                ELSE Selected(Tail(s), Entry)
  BY <1>1, <1>4, SelectedTail
<1>8. Head(s) \in Entry <=> Head(s).key # NULL
  BY <1>4, EntryHasKey
<1>9. Live(from, indices) = Selected(s, Entry) /\ Live(from, Tail(indices)) = Selected(t, Entry)
  BY DEF Live, Contents, Entry, s, t
<1> QED
  BY <1>4, <1>6, <1>7, <1>8, <1>9

\* A key is in one bucket, and that one is listed.
LEMMA KeysOnce ==
  ASSUME Inv, NEW i \in DOMAIN buckets, NEW j \in DOMAIN buckets,
         buckets[i].key # NULL, buckets[i].key = buckets[j].key
  PROVE  i = j
<1>1. /\ buckets \in [0 .. capacity - 1 -> Bucket] /\ capacity \in Nat \ {0}
      /\ i \in 0 .. capacity - 1 /\ j \in 0 .. capacity - 1
  BY DEF Inv, TypeOK
<1>2. buckets[i].key \in KEYS
  BY <1>1 DEF Bucket
<1>3. Home(buckets[i].key) \in 0 .. capacity - 1
  BY <1>1, <1>2, HomeInTable
<1>4. i = j \/ j \in Before(Home(buckets[i].key), i) \/ i \in Before(Home(buckets[i].key), j)
  BY <1>1, <1>3, BeforeIsTotal
<1> QED
  BY <1>4 DEF Inv, KeysReachable, Stops

LEMMA KeysListed ==
  ASSUME Inv
  PROVE  /\ list \in Seq(DOMAIN buckets) /\ buckets \in [DOMAIN buckets -> Bucket]
         /\ Len(list) \in Nat /\ DOMAIN list = 1 .. Len(list)
         /\ \A n \in 1 .. Len(list) : list[n] \in DOMAIN buckets /\ ~IsEmpty(buckets[list[n]])
         /\ \A i \in DOMAIN buckets :
              buckets[i].key # NULL => \E n \in 1 .. Len(list) : list[n] = i
<1>1. /\ list \in Seq(DOMAIN buckets) /\ buckets \in [DOMAIN buckets -> Bucket]
      /\ Len(list) \in Nat /\ DOMAIN list = 1 .. Len(list)
  BY DEF Inv, TypeOK
<1>2. {list[n] : n \in DOMAIN list} = Filled
  BY DEF Inv, ListIsWhole
<1>3. \A n \in 1 .. Len(list) : list[n] \in Filled
  BY <1>1, <1>2
<1>4. \A i \in DOMAIN buckets : buckets[i].key # NULL => i \in Filled
  BY DEF Filled, IsEmpty
<1> QED
  BY <1>1, <1>2, <1>3, <1>4 DEF Filled

\* The search finds a key's entry where the iteration meets it.
LEMMA SearchMeetsList ==
  ASSUME Inv, NEW k \in KEYS
  PROVE  /\ Live(buckets, list) \in Seq(Bucket)
         /\ find_entry(k) \in DOMAIN buckets
         /\ buckets[find_entry(k)].key = NULL =>
              /\ IsEmpty(buckets[find_entry(k)])
              /\ \A n \in 1 .. Len(Live(buckets, list)) : Live(buckets, list)[n].key # k
         /\ buckets[find_entry(k)].key # NULL =>
              /\ \E n \in 1 .. Len(Live(buckets, list)) : Live(buckets, list)[n].key = k
              /\ \A n \in 1 .. Len(Live(buckets, list)) :
                   Live(buckets, list)[n].key = k =>
                     Live(buckets, list)[n] = buckets[find_entry(k)]
<1> DEFINE i == find_entry(k)
           L == Live(buckets, list)
<1>1. /\ i \in DOMAIN buckets
      /\ buckets[i].key = NULL =>
           IsEmpty(buckets[i]) /\ \A j \in DOMAIN buckets : buckets[j].key # k
      /\ buckets[i].key # NULL => buckets[i].key = k
  BY Search DEF Inv, TypeOK
<1>2. /\ list \in Seq(DOMAIN buckets) /\ buckets \in [DOMAIN buckets -> Bucket]
      /\ \A n \in 1 .. Len(list) : list[n] \in DOMAIN buckets
      /\ \A j \in DOMAIN buckets :
           buckets[j].key # NULL => \E n \in 1 .. Len(list) : list[n] = j
  BY KeysListed
<1>3. /\ L \in Seq(Bucket)
      /\ \A n \in 1 .. Len(L) : \E m \in 1 .. Len(list) :
           L[n] = buckets[list[m]] /\ buckets[list[m]].key # NULL
      /\ \A m \in 1 .. Len(list) :
           buckets[list[m]].key # NULL => \E n \in 1 .. Len(L) : L[n] = buckets[list[m]]
  BY <1>2, LiveRange
<1> HIDE DEF i, L
<1>4. \A n \in 1 .. Len(L) : \E j \in DOMAIN buckets :
        L[n] = buckets[j] /\ buckets[j].key # NULL
  BY <1>2, <1>3
<1>5. \A j \in DOMAIN buckets : buckets[j].key # NULL => \E n \in 1 .. Len(L) : L[n] = buckets[j]
  <2> SUFFICES ASSUME NEW j \in DOMAIN buckets, buckets[j].key # NULL
               PROVE  \E n \in 1 .. Len(L) : L[n] = buckets[j]
    OBVIOUS
  <2>1. PICK m \in 1 .. Len(list) : list[m] = j
    BY <1>2
  <2> QED
    BY <1>3, <2>1
<1>6. k # NULL
  BY HashMapAssumption
<1>7. CASE buckets[i].key = NULL
  BY <1>1, <1>3, <1>4, <1>7 DEF i, L
<1>8. CASE buckets[i].key # NULL
  <2>1. \E n \in 1 .. Len(L) : L[n].key = k
    BY <1>1, <1>5, <1>8
  <2>2. ASSUME NEW n \in 1 .. Len(L), L[n].key = k PROVE L[n] = buckets[i]
    <3>1. PICK j \in DOMAIN buckets : L[n] = buckets[j] /\ buckets[j].key # NULL
      BY <1>4
    <3>2. buckets[i].key = buckets[j].key
      BY <1>1, <1>8, <2>2, <3>1
    <3>3. i = j
      BY <1>1, <1>8, <3>2, KeysOnce
    <3> QED
      BY <3>1, <3>3
  <2> QED
    BY <1>1, <1>3, <1>8, <2>1, <2>2 DEF i, L
<1> QED
  BY <1>7, <1>8

\* Between the calls the entries are those of the table alone, and the map's
\* lookup returns what find_entry finds.
LEMMA LookupIsSearch ==
  ASSUME Inv, pending = <<>>, NEW k \in KEYS
  PROVE  /\ Live(buckets, list) \o Live(old_buckets, pending) = Live(buckets, list)
         /\ Map!Position(k) = {n \in 1 .. Len(Live(buckets, list)) :
                                 Live(buckets, list)[n].key = k}
         /\ Map!Position(k) = {} <=> buckets[find_entry(k)].key = NULL
         /\ Map!Lookup(k) = IF buckets[find_entry(k)].key = NULL THEN Nothing
                            ELSE Found(buckets[find_entry(k)].value)
<1> DEFINE i == find_entry(k)
           L == Live(buckets, list)
           P == {n \in 1 .. Len(L) : L[n].key = k}
<1>1. /\ L \in Seq(Bucket)
      /\ buckets[i].key = NULL => \A n \in 1 .. Len(L) : L[n].key # k
      /\ buckets[i].key # NULL =>
           /\ \E n \in 1 .. Len(L) : L[n].key = k
           /\ \A n \in 1 .. Len(L) : L[n].key = k => L[n] = buckets[i]
  BY SearchMeetsList
<1> HIDE DEF i, L
<1>2. L \o <<>> = L /\ DOMAIN L = 1 .. Len(L)
  BY <1>1, ConcatEmptySeq, LenProperties
<1>3. Live(buckets, list) \o Live(old_buckets, pending) = L
  <2>1. Live(old_buckets, <<>>) = <<>>
    BY LiveNone
  <2> DEFINE rest == Live(old_buckets, pending)
  <2>2. rest = <<>>
    BY <2>1
  <2> HIDE DEF rest
  <2>3. L \o rest = L
    BY <1>2, <2>2
  <2> QED
    BY <2>3 DEF L, rest
<1>4. Map!Position(k) = P
  BY <1>2, <1>3 DEF Map!Position
<1>5. P = {} <=> buckets[i].key = NULL
  BY <1>1
<1>6. ASSUME P # {} PROVE Map!ValueOf(k) = buckets[i].value
  <2> DEFINE n == CHOOSE m \in P : TRUE
  <2>1. n \in P
    BY <1>6
  <2>2. L[n] = buckets[i]
    BY <1>1, <1>5, <2>1, <1>6
  <2>3. Map!ValueOf(k) = L[n].value
    BY <1>3, <1>4 DEF Map!ValueOf
  <2> QED
    BY <2>2, <2>3
<1>7. Map!Lookup(k) = IF buckets[i].key = NULL THEN Nothing ELSE Found(buckets[i].value)
  BY <1>4, <1>5, <1>6 DEF Map!Lookup, Map!Nothing, Map!Found, Nothing, Found
<1> QED
  BY <1>3, <1>4, <1>5, <1>7 DEF i, L

\* hashmap_set and its like add an entry at the end, or replace the value of
\* the key's own where it stands.
LEMMA PutAdds ==
  ASSUME Inv, NEW c \in Calls, Put(c), buckets[find_entry(c.key)].key = NULL
  PROVE  Live(buckets, list)' =
           Append(Live(buckets, list), [key |-> c.key, value |-> c.value])
<1> DEFINE i == find_entry(c.key)
           new == [key |-> c.key, value |-> c.value]
<1>1. c.key \in KEYS /\ c.key # NULL /\ new \in Bucket /\ new.key # NULL
  BY HashMapAssumption DEF Calls, Bucket
<1>2. i \in DOMAIN buckets /\ IsEmpty(buckets[i])
  BY <1>1, SearchMeetsList
<1>3. /\ list \in Seq(DOMAIN buckets) /\ buckets \in [DOMAIN buckets -> Bucket]
      /\ \A n \in 1 .. Len(list) : ~IsEmpty(buckets[list[n]])
  BY KeysListed
<1>4. buckets' = [buckets EXCEPT ![i] = new] /\ list' = Append(list, i)
  BY DEF Put, Linked
<1> HIDE DEF i, new
<1>5. Fills(buckets, list, i, new, buckets', list')
  BY <1>1, <1>2, <1>3, <1>4 DEF Fills
<1>6. Live(buckets', list') = Append(Live(buckets, list), new)
  <2> DEFINE D == DOMAIN buckets
  <2>1. buckets \in [D -> Bucket] /\ list \in Seq(D) /\ i \in D
        /\ new \in Bucket
    BY <1>1, <1>2, <1>3
  <2> HIDE DEF D
  <2> QED
    BY ONLY <2>1, <1>5, LiveAdded
<1> QED
  BY <1>4, <1>6 DEF new

LEMMA PutReplaces ==
  ASSUME Inv, NEW c \in Calls, Put(c), buckets[find_entry(c.key)].key # NULL,
         c.op # "get_set"
  PROVE  Live(buckets, list)' =
           [n \in 1 .. Len(Live(buckets, list)) |->
              IF Live(buckets, list)[n].key = c.key
              THEN [key |-> c.key, value |-> c.value] ELSE Live(buckets, list)[n]]
<1> DEFINE i == find_entry(c.key)
           new == [key |-> c.key, value |-> c.value]
           s == Contents(buckets, list)
           t == Contents(buckets', list')
           g == [b \in Bucket |-> IF b.key = c.key THEN new ELSE b]
<1>1. c.key \in KEYS /\ new \in Bucket /\ new.key # NULL /\ new.key = c.key
  BY HashMapAssumption DEF Calls, Bucket
<1>2. i \in DOMAIN buckets /\ buckets[i].key = c.key
  BY <1>1, Search DEF Inv, TypeOK
<1>3. /\ list \in Seq(DOMAIN buckets) /\ buckets \in [DOMAIN buckets -> Bucket]
      /\ \A n \in 1 .. Len(list) : list[n] \in DOMAIN buckets
  BY KeysListed
<1>4. buckets' = [buckets EXCEPT ![i] = new] /\ list' = list
  BY DEF Put
<1>5. \A j \in DOMAIN buckets : buckets[j].key = c.key => j = i
  BY <1>2, KeysOnce
<1> HIDE DEF i
<1>6. \A j \in DOMAIN buckets : buckets'[j] = IF j = i THEN new ELSE buckets[j]
  BY <1>4
<1>7. buckets' \in [DOMAIN buckets -> Bucket]
  BY <1>1, <1>3, <1>4
<1> HIDE DEF new
<1>8. \A j \in DOMAIN buckets : buckets'[j] = g[buckets[j]]
  BY <1>2, <1>3, <1>5, <1>6
<1>9. /\ Len(list) \in Nat /\ s \in Seq(Bucket) /\ Len(s) = Len(list)
      /\ \A n \in 1 .. Len(list) : s[n] = buckets[list[n]]
  BY <1>3, ContentsType
<1>10. /\ t \in Seq(Bucket) /\ Len(t) = Len(list)
       /\ \A n \in 1 .. Len(list) : t[n] = buckets'[list[n]]
  <2>1. t = Contents(buckets', list)
    BY <1>4
  <2> HIDE DEF t
  <2>2. /\ Contents(buckets', list) \in Seq(Bucket)
        /\ Len(Contents(buckets', list)) = Len(list)
        /\ \A n \in 1 .. Len(list) :
             Contents(buckets', list)[n] = buckets'[list[n]] /\ list[n] \in DOMAIN buckets
    BY ONLY <1>3, <1>7, ContentsType
  <2> QED
    BY ONLY <2>1, <2>2
<1> HIDE DEF s, t
<1>11. g \in [Bucket -> Bucket]
  BY <1>1
<1>12. \A b \in Bucket : g[b] \in Entry <=> b \in Entry
  <2> SUFFICES ASSUME NEW b \in Bucket PROVE g[b] \in Entry <=> b \in Entry
    OBVIOUS
  <2>1. g[b] = (IF b.key = c.key THEN new ELSE b) /\ g[b] \in Bucket
    BY <1>11
  <2>2. g[b].key # NULL <=> b.key # NULL
    BY <1>1, <2>1
  <2> QED
    BY <2>1, <2>2, EntryHasKey
<1> DEFINE u == Selecting(s, Entry)[Len(list)]
<1>13. u \in Seq(Bucket)
  BY <1>9, SelectingStep
<1>14. Live(buckets, list) = u /\ Live(buckets, list)' = Selecting(t, Entry)[Len(list)]
  BY <1>9, <1>10 DEF Live, Selected, Contents, Entry, s, t
<1>15. Images(s, t, Entry, g, Len(list))
  <2> SUFFICES ASSUME NEW n \in 1 .. Len(list)
               PROVE  t[n] = g[s[n]] /\ (t[n] \in Entry <=> s[n] \in Entry)
    BY DEF Images
  <2>1. t[n] = g[s[n]] /\ s[n] \in Bucket
    <3>1. list[n] \in DOMAIN buckets /\ s[n] = buckets[list[n]] /\ t[n] = buckets'[list[n]]
      BY <1>3, <1>9, <1>10
    <3> HIDE DEF g
    <3> QED
      BY <1>3, <1>8, <3>1
  <2> QED
    BY <1>12, <2>1
<1> HIDE DEF g
<1>16. \A n \in 0 .. Len(list) : Selecting(t, Entry)[n] = Mapped(g, Selecting(s, Entry)[n])
  <2> DEFINE N == Len(list)
  <2>1. N \in Nat /\ N <= Len(s) /\ N <= Len(t) /\ Images(s, t, Entry, g, N)
    BY <1>9, <1>10, <1>15
  <2> HIDE DEF N
  <2>2. \A n \in 0 .. N : Selecting(t, Entry)[n] = Mapped(g, Selecting(s, Entry)[n])
    BY <1>9, <1>10, <1>11, <2>1, SelectingMapped
  <2> QED
    BY <2>2 DEF N
<1>17. Live(buckets, list)' = Mapped(g, u)
  BY <1>9, <1>14, <1>16
<1>18. \A n \in 1 .. Len(u) : g[u[n]] = IF u[n].key = c.key THEN new ELSE u[n]
  BY <1>13 DEF g
<1> HIDE DEF u
<1>19. Mapped(g, u) = [n \in 1 .. Len(u) |-> IF u[n].key = c.key THEN new ELSE u[n]]
  BY <1>18 DEF Mapped
<1> QED
  BY <1>14, <1>17, <1>19 DEF new

\* hashmap_remove takes the key's entry out.
LEMMA RemoveTakes ==
  ASSUME Inv, pending = <<>>, NEW k \in KEYS, hashmap_remove(k)
  PROVE  Live(buckets, list)' = Selected(Live(buckets, list), Map!Others(k))
<1> DEFINE i == find_entry(k)
           s == Contents(buckets, list)
           t == Contents(buckets', list')
           L == Live(buckets, list)
           T == Map!Others(k)
<1>1. /\ i \in DOMAIN buckets
      /\ buckets[i].key = NULL => \A j \in DOMAIN buckets : buckets[j].key # k
      /\ buckets[i].key # NULL => buckets[i].key = k
  BY Search DEF Inv, TypeOK
<1>2. /\ list \in Seq(DOMAIN buckets) /\ buckets \in [DOMAIN buckets -> Bucket]
      /\ \A n \in 1 .. Len(list) : list[n] \in DOMAIN buckets
  BY KeysListed
<1>3. /\ list' = list
      /\ \/ buckets[i].key = NULL /\ buckets' = buckets
         \/ buckets[i].key # NULL /\ buckets' = [buckets EXCEPT ![i] = Buried]
  BY DEF hashmap_remove
<1>4. \A j \in DOMAIN buckets : buckets[i].key # NULL /\ buckets[j].key = k => j = i
  BY <1>1, KeysOnce
<1>5. Buried \in Bucket /\ Buried.key = NULL
  BY DEF Buried, Bucket, TOMBSTONE
<1> HIDE DEF i
<1>6. buckets' \in [DOMAIN buckets -> Bucket]
  BY <1>2, <1>3, <1>5
<1>7. \A j \in DOMAIN buckets :
        /\ buckets[j].key = k => buckets'[j].key = NULL
        /\ buckets[j].key # k => buckets'[j] = buckets[j]
  BY <1>1, <1>2, <1>3, <1>4, <1>5, HashMapAssumption
<1>8. /\ Len(list) \in Nat /\ s \in Seq(Bucket) /\ Len(s) = Len(list)
      /\ \A n \in 1 .. Len(list) : s[n] = buckets[list[n]]
  BY <1>2, ContentsType
<1>9. /\ t \in Seq(Bucket) /\ Len(t) = Len(list)
      /\ \A n \in 1 .. Len(list) : t[n] = buckets'[list[n]]
  BY <1>2, <1>3, <1>6, ContentsType
<1>10. L = Selected(s, Entry) /\ L' = Selected(t, Entry)
  BY DEF Live, Contents, Entry
<1>11. /\ L \o Live(old_buckets, pending) = L /\ L \in Seq(Bucket)
       /\ Map!Position(k) = {n \in 1 .. Len(L) : L[n].key = k}
  BY LookupIsSearch, SearchMeetsList
<1>12. DOMAIN L = 1 .. Len(L)
  BY <1>11
<1>13. T = {L[n] : n \in {m \in 1 .. Len(L) : L[m].key # k}}
  <2> HIDE DEF L
  <2>1. T = {L[n] : n \in (1 .. Len(L)) \ {m \in 1 .. Len(L) : L[m].key = k}}
    BY <1>11, <1>12 DEF Map!Others, L
  <2> QED
    BY <2>1
<1> HIDE DEF s, t, L, T
<1>14. \A n \in 1 .. Len(s) : s[n] \in Entry => \E m \in 1 .. Len(L) : L[m] = s[n]
  <2>1. \A n \in 1 .. Len(s) :
          s[n] \in Entry =>
            \E m \in 1 .. Len(Selected(s, Entry)) : Selected(s, Entry)[m] = s[n]
    BY <1>8, SelectedRange
  <2> QED
    BY ONLY <1>10, <2>1
<1>15. ASSUME NEW n \in 1 .. Len(s)
       PROVE  /\ t[n] \in Entry <=> s[n] \in Entry /\ s[n] \in T
              /\ t[n] \in Entry => t[n] = s[n]
  <2>1. /\ s[n] \in Bucket /\ t[n] \in Bucket
        /\ s[n].key = k => t[n].key = NULL
        /\ s[n].key # k => t[n] = s[n]
    BY <1>2, <1>7, <1>8, <1>9
  <2>2. /\ s[n] \in Entry <=> s[n].key # NULL
        /\ t[n] \in Entry <=> t[n].key # NULL
    BY <2>1, EntryHasKey
  <2>3. s[n] \in T => s[n].key # k
    BY <1>13
  <2>4. s[n] \in Entry /\ s[n].key # k => s[n] \in T
    BY <1>13, <1>14
  <2> QED
    BY <2>1, <2>2, <2>3, <2>4
<1>16. Selected(t, Entry) = Selected(Selected(s, Entry), T)
  BY <1>8, <1>9, <1>15, SelectedTwice
<1> QED
  BY <1>10, <1>16 DEF L, T

\* The entries the map stands for: those moved, and those that wait.
Entries == Live(buckets, list) \o Live(old_buckets, pending)

\* A call, made in the table alone, is one of the ordered map.
LEMMA PutImplements ==
  ASSUME Inv, pending = <<>>, pending' = <<>>, NEW c \in Calls, Put(c)
  PROVE  Map!Set(c.key, c.value) \/ Map!GetSet(c.key, c.value)
<1> DEFINE i == find_entry(c.key)
           new == [key |-> c.key, value |-> c.value]
           L == Live(buckets, list)
           P == {n \in 1 .. Len(L) : L[n].key = c.key}
           found == IF buckets[i].key = NULL THEN Nothing ELSE Found(buckets[i].value)
<1>1. /\ c.key \in KEYS
      /\ c.op = "get_set" \/ c.op = "set" \/ c.op = "set_free"
  BY DEF Calls
<1>2. /\ Entries = L
      /\ Map!Position(c.key) = P
      /\ P = {} <=> buckets[i].key = NULL
      /\ Map!Lookup(c.key) = found
  BY <1>1, LookupIsSearch DEF Entries
<1>3. L \in Seq(Bucket)
  BY <1>1, SearchMeetsList
<1>4. L' \in Seq(Bucket) => Entries' = L'
  <2>1. \A from : Live(from, <<>>) = <<>>
    BY LiveNone
  <2> DEFINE old == old_buckets'
             now == L'
  <2>2. Live(old, <<>>) = <<>>
    BY <2>1
  <2> HIDE DEF old
  <2>3. Entries' = now \o Live(old, <<>>)
    BY DEF Entries, old
  <2> HIDE DEF now
  <2>4. now \in Seq(Bucket) => now \o <<>> = now
    BY ConcatEmptySeq
  <2> QED
    BY <2>2, <2>3, <2>4 DEF now
<1>5. Nothing = Map!Nothing
  BY DEF Nothing, Map!Nothing
<1>6. new \in Bucket
  BY <1>1, HashMapAssumption DEF Bucket, Calls
<1>7. \/ buckets[i].key = NULL /\ out' = Nothing
      \/ /\ buckets[i].key # NULL
         /\ out' = IF c.op = "set" THEN Nothing ELSE found
         /\ c.op = "get_set" => buckets' = buckets /\ list' = list
  BY DEF Put
<1>8. CASE buckets[i].key = NULL
  <2>1. L' = Append(L, new)
    BY <1>8, PutAdds
  <2>2. out' = Nothing /\ Map!Lookup(c.key) = Nothing
    BY <1>2, <1>7, <1>8
  <2> HIDE DEF i, new, L, P, found
  <2>3. L' \in Seq(Bucket)
    BY <1>3, <1>6, <2>1
  <2>4. Entries' = Append(Entries, new) /\ Map!Position(c.key) = {}
    BY <1>2, <1>4, <1>8, <2>1, <2>3
  <2>5. Map!Updated(c.key, c.value) = Append(Entries, new)
    BY <2>4 DEF Map!Updated, Map!Added, Entries, new
  <2> QED
    BY <1>5, <2>2, <2>4, <2>5 DEF Map!Set, Entries
<1>9. CASE buckets[i].key # NULL /\ c.op # "get_set"
  <2>1. L' = [n \in 1 .. Len(L) |-> IF L[n].key = c.key THEN new ELSE L[n]]
    BY <1>9, PutReplaces
  <2>2. out' = Nothing \/ out' = Map!Lookup(c.key)
    BY <1>2, <1>7, <1>9
  <2> HIDE DEF i, new, L, found
  <2>3. Len(L) \in Nat /\ DOMAIN L = 1 .. Len(L) /\ \A n \in 1 .. Len(L) : L[n] \in Bucket
    BY <1>3
  <2>4. L' \in Seq(Bucket)
    BY <1>6, <2>1, <2>3
  <2>5. Entries' = [n \in DOMAIN Entries |-> IF n \in P THEN new ELSE Entries[n]]
    BY <1>2, <1>4, <2>1, <2>3, <2>4
  <2>6. Map!Updated(c.key, c.value) =
          [n \in DOMAIN Entries |-> IF n \in P THEN new ELSE Entries[n]]
    <3> HIDE DEF P
    <3> QED
      BY <1>2, <1>9 DEF Map!Updated, Map!Overwritten, Entries, new
  <2> QED
    BY <1>5, <2>2, <2>5, <2>6 DEF Map!Set, Entries
<1>10. CASE buckets[i].key # NULL /\ c.op = "get_set"
  <2>1. L' = L
    BY <1>7, <1>10 DEF Live
  <2>2. out' = Map!Lookup(c.key)
    BY <1>2, <1>7, <1>10
  <2> HIDE DEF i, new, L, P, found
  <2>3. Entries' = Entries /\ Map!Position(c.key) # {}
    BY <1>2, <1>3, <1>4, <1>10, <2>1
  <2> QED
    BY <2>2, <2>3 DEF Map!GetSet, Entries
<1> QED
  BY <1>8, <1>9, <1>10

LEMMA GetImplements ==
  ASSUME Inv, NEW k \in KEYS, hashmap_get(k)
  PROVE  Map!Get(k)
<1> DEFINE i == find_entry(k)
<1>1. pending = <<>> /\ UNCHANGED <<buckets, list, old_buckets, pending>>
      /\ out' = [found |-> buckets[i].key # NULL, value |-> buckets[i].value]
  BY DEF hashmap_get, table, growth, Inv, Idle
<1>2. Map!Lookup(k) = IF buckets[i].key = NULL THEN Nothing ELSE Found(buckets[i].value)
  BY <1>1, LookupIsSearch
<1>3. buckets[i].key = NULL => buckets[i].value = 0
  BY Search DEF IsEmpty
<1> HIDE DEF i
<1>4. out' = Map!Lookup(k)
  BY <1>1, <1>2, <1>3 DEF Nothing, Found
<1>5. UNCHANGED Entries
  BY <1>1 DEF Entries, Live
<1> QED
  BY <1>4, <1>5 DEF Map!Get, Entries

LEMMA RemoveImplements ==
  ASSUME Inv, NEW k \in KEYS, hashmap_remove(k)
  PROVE  Map!Remove(k)
<1> DEFINE i == find_entry(k)
           L == Live(buckets, list)
<1>1. /\ pending = <<>> /\ UNCHANGED <<old_buckets, pending>>
      /\ \/ buckets[i].key = NULL /\ out' = Nothing
         \/ buckets[i].key # NULL /\ out' \in {Nothing, Found(buckets[i].value)}
  BY DEF hashmap_remove, growth, Inv, Idle
<1>2. /\ Entries = L
      /\ Map!Lookup(k) = IF buckets[i].key = NULL THEN Nothing ELSE Found(buckets[i].value)
  BY <1>1, LookupIsSearch DEF Entries
<1>3. L' = Selected(L, Map!Others(k))
  BY <1>1, RemoveTakes
<1>4. L \in Seq(Bucket)
  BY SearchMeetsList
<1> HIDE DEF i, L
<1>5. Selected(L, Map!Others(k)) \in Seq(Bucket)
  BY <1>4, SelectingStep
<1>6. Entries' = L'
  <2>1. Live(old_buckets, <<>>) = <<>>
    BY LiveNone
  <2> DEFINE now == L'
  <2>2. Entries' = now \o Live(old_buckets, <<>>)
    BY <1>1 DEF Entries, L
  <2>3. now \in Seq(Bucket)
    BY <1>3, <1>5
  <2> HIDE DEF now
  <2>4. now \o <<>> = now
    BY <2>3, ConcatEmptySeq
  <2> QED
    BY <2>1, <2>2, <2>4 DEF now
<1>7. Map!Selected(Entries, Map!Others(k)) = Selected(Entries, Map!Others(k))
  BY DEF Map!Selected, Map!Selecting, Selected, Selecting
<1>8. Entries' = Map!Selected(Entries, Map!Others(k))
  BY <1>2, <1>3, <1>6, <1>7
<1>9. out' \in {Map!Nothing, Map!Lookup(k)}
  BY <1>1, <1>2 DEF Nothing, Map!Nothing
<1> QED
  BY <1>8, <1>9 DEF Map!Remove, Entries

\* While the map grows nothing is seen of it: hashmap_resize hands the list
\* over, and an entry moved is the last of the new table instead of the first
\* of those that wait.
LEMMA StartResizeStutters ==
  ASSUME Inv, StartResize
  PROVE  UNCHANGED <<Entries, out>>
<1> DEFINE L == Live(buckets, list)
<1>1. /\ old_buckets' = buckets /\ pending' = list /\ list' = <<>> /\ out' = out
      /\ pending = <<>>
  BY DEF StartResize, Inv, Idle
<1>2. L \in Seq(Bucket)
  <2>1. list \in Seq(DOMAIN buckets) /\ buckets \in [DOMAIN buckets -> Bucket]
    BY KeysListed
  <2> QED
    BY <2>1, LiveRange
<1>3. Live(old_buckets', pending') = L
  BY <1>1
<1>4. Live(old_buckets, <<>>) = <<>> /\ Live(buckets', <<>>) = <<>>
  <2>1. \A from : Live(from, <<>>) = <<>>
    BY LiveNone
  <2> QED
    BY <2>1
<1> HIDE DEF L
<1>5. <<>> \o L = L /\ L \o <<>> = L
  BY <1>2, ConcatEmptySeq
<1>6. Entries' = <<>> \o L
  <2> DEFINE now == Live(buckets', <<>>)
             rest == Live(old_buckets', pending')
  <2>1. now = <<>> /\ rest = L
    BY <1>3, <1>4
  <2>2. Entries' = now \o rest
    BY <1>1 DEF Entries
  <2> HIDE DEF now, rest
  <2> QED
    BY <2>1, <2>2
<1>7. Entries = L \o <<>>
  <2> DEFINE rest == Live(old_buckets, pending)
  <2>1. rest = <<>>
    BY <1>1, <1>4
  <2>2. Entries = L \o rest
    BY DEF Entries, L
  <2> HIDE DEF rest
  <2> QED
    BY <2>1, <2>2
<1> QED
  BY <1>1, <1>5, <1>6, <1>7

LEMMA MoveEntryStutters ==
  ASSUME Inv, MoveEntry
  PROVE  UNCHANGED <<Entries, out>>
<1> DEFINE entry == old_buckets[Head(pending)]
           gap == CHOOSE i \in DOMAIN buckets :
                    /\ buckets[i].key = NULL
                    /\ \A j \in Before(Home(entry.key), i) : buckets[j].key # NULL
           L == Live(buckets, list)
           rest == Live(old_buckets, Tail(pending))
           D == DOMAIN old_buckets
           B == DOMAIN buckets
<1>1. /\ pc = "resizing" /\ pending # <<>> /\ pending' = Tail(pending)
      /\ old_buckets' = old_buckets /\ out' = out
      /\ \/ entry.key = NULL /\ UNCHANGED <<buckets, list>>
         \/ /\ entry.key # NULL
            /\ \E i \in DOMAIN buckets : buckets[i].key = NULL
            /\ buckets' = [buckets EXCEPT ![gap] = entry]
            /\ list' = Append(list, gap)
  BY DEF MoveEntry, Linked
<1>2. /\ old_buckets \in [D -> Bucket] /\ pending \in Seq(D)
      /\ buckets \in [B -> Bucket] /\ list \in Seq(B)
      /\ \A n \in 1 .. Len(list) : list[n] \in B /\ ~IsEmpty(buckets[list[n]])
  BY KeysListed DEF Inv, TypeOK
<1>3. Head(pending) \in D /\ entry \in Bucket /\ Tail(pending) \in Seq(D)
  <2> HIDE DEF D
  <2>1. Head(pending) \in D /\ Tail(pending) \in Seq(D)
    BY <1>1, <1>2, HeadTailProperties
  <2> QED
    BY <1>2, <2>1
<1>4. L \in Seq(Bucket)
  <2> HIDE DEF B
  <2> QED
    BY <1>2, LiveRange
<1>5. rest \in Seq(Bucket)
  <2> DEFINE left == Tail(pending)
  <2>1. left \in Seq(D)
    BY <1>3
  <2> HIDE DEF left, D
  <2>2. Live(old_buckets, left) \in Seq(Bucket)
    BY <1>2, <2>1, LiveRange
  <2> QED
    BY <2>2 DEF left
<1>6. Live(old_buckets, pending) = IF entry.key # NULL THEN <<entry>> \o rest ELSE rest
  <2> HIDE DEF D
  <2> QED
    BY <1>1, <1>2, LiveFirst
<1>7. Live(old_buckets', pending') = rest
  BY <1>1
<1>8. CASE entry.key = NULL
  <2>1. L' = L
    BY <1>1, <1>8 DEF Live
  <2> HIDE DEF L, rest, entry, gap
  <2>2. Entries' = L' \o rest
    BY <1>7 DEF Entries, L
  <2>3. Entries = L \o rest
    BY <1>6, <1>8 DEF Entries, L
  <2> QED
    BY <1>1, <2>1, <2>2, <2>3
<1>9. CASE entry.key # NULL
  <2>1. /\ buckets' = [buckets EXCEPT ![gap] = entry] /\ list' = Append(list, gap)
        /\ \E i \in DOMAIN buckets : buckets[i].key = NULL
    BY <1>1, <1>9
  <2>2. gap \in B /\ buckets[gap].key = NULL
    <3>1. \E i \in DOMAIN buckets :
            /\ buckets[i].key = NULL
            /\ \A j \in Before(Home(entry.key), i) : buckets[j].key # NULL
      <4> HIDE DEF entry
      <4> QED
        BY <1>3, <1>9, GapReached
    <3> HIDE DEF entry
    <3> QED
      BY <3>1
  <2> HIDE DEF gap
  <2>3. IsEmpty(buckets[gap])
    BY <1>1, <1>2, <2>2 DEF Inv, Counted, Tombs, Filled
  <2> HIDE DEF entry
  <2>4. Fills(buckets, list, gap, entry, buckets', list')
    BY <1>2, <1>9, <2>1, <2>3 DEF Fills
  <2>5. L' = Append(L, entry)
    <3> HIDE DEF B
    <3>1. Live(buckets', list') = Append(Live(buckets, list), entry)
      BY ONLY <1>2, <1>3, <2>2, <2>4, LiveAdded
    <3> QED
      BY <3>1
  <2>6. /\ Append(L, entry) = L \o <<entry>> /\ <<entry>> \in Seq(Bucket)
    BY <1>3, <1>4
  <2> HIDE DEF L, rest
  <2>7. (L \o <<entry>>) \o rest = L \o (<<entry>> \o rest)
    BY ONLY <1>4, <1>5, <2>6, ConcatAssociative
  <2>8. Entries' = L' \o rest
    BY <1>7 DEF Entries, L
  <2>9. Entries = L \o (<<entry>> \o rest)
    BY <1>6, <1>9 DEF Entries, L
  <2> QED
    BY <1>1, <2>5, <2>6, <2>7, <2>8, <2>9
<1> QED
  BY <1>8, <1>9

\* HashMap implements a partial function whose entries are iterated in the
\* order they were added: every call of the map is that call of the ordered
\* map, whatever tombstones, wrapped probes and growth lie behind it.
THEOREM ImplementsMapHolds == Spec => ImplementsMap
<1>1. Init => Map!MapInit
  <2> SUFFICES ASSUME Init PROVE Map!MapInit
    OBVIOUS
  <2>1. \A from : Live(from, <<>>) = <<>>
    BY LiveNone
  <2>2. Live(buckets, list) = <<>> /\ Live(old_buckets, pending) = <<>>
    BY <2>1 DEF Init
  <2>3. <<>> \o <<>> = <<>>
    OBVIOUS
  <2>4. Live(buckets, list) \o Live(old_buckets, pending) = <<>>
    BY <2>2, <2>3
  <2> QED
    BY <2>4 DEF Map!MapInit, Init, Nothing, Map!Nothing
<1>2. Inv /\ [Next]_vars => [Map!MapNext]_(Map!mapVars)
  <2> SUFFICES ASSUME Inv, [Next]_vars
               PROVE  Map!MapNext \/ UNCHANGED Map!mapVars
    OBVIOUS
  <2>1. UNCHANGED <<Entries, out>> => UNCHANGED Map!mapVars
    BY DEF Map!mapVars, Entries
  <2>2. CASE Set
    <3>1. PICK c \in Calls : Put(c)
      BY <2>2 DEF Set
    <3>2. pending = <<>> /\ pending' = <<>>
      BY <2>2 DEF Set, growth, Inv, Idle
    <3>3. c.key \in KEYS /\ c.value \in VALUES
      BY DEF Calls
    <3> QED
      BY <3>1, <3>2, <3>3, PutImplements DEF Map!MapNext
  <2>3. CASE FinishResize
    <3>1. Put(call) /\ pending = <<>> /\ pending' = <<>> /\ call \in Calls
      BY <2>3 DEF FinishResize, Inv, Counted
    <3>2. call.key \in KEYS /\ call.value \in VALUES
      BY <3>1 DEF Calls
    <3> QED
      BY <3>1, <3>2, PutImplements DEF Map!MapNext
  <2>4. CASE StartResize
    BY <2>1, <2>4, StartResizeStutters
  <2>5. CASE MoveEntry
    BY <2>1, <2>5, MoveEntryStutters
  <2>6. ASSUME NEW k \in KEYS, hashmap_get(k) PROVE Map!MapNext
    BY <2>6, GetImplements DEF Map!MapNext
  <2>7. ASSUME NEW k \in KEYS, hashmap_remove(k) PROVE Map!MapNext
    BY <2>7, RemoveImplements DEF Map!MapNext
  <2>8. CASE UNCHANGED vars
    <3>1. UNCHANGED <<Entries, out>>
      BY <2>8 DEF vars, table, growth, Entries, Live
    <3> QED
      BY <2>1, <3>1
  <2> QED
    BY <2>2, <2>3, <2>4, <2>5, <2>6, <2>7, <2>8 DEF Next
<1> QED
  BY <1>1, <1>2, Invariance, PTL DEF Spec, ImplementsMap, Map!MapSpec
=============================================================================
