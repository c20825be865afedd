------------------------------- MODULE HashMap ------------------------------
(***************************************************************************)
(* The hash map behind responder_cache, requester_state and                *)
(* connection_info: open addressing with linear probing.  A removed entry  *)
(* leaves a tombstone, a bucket without a key but with a value, which      *)
(* searches pass and which counts for the load until the map grows.  All   *)
(* buckets that were ever filled are linked in the order they were.        *)
(***************************************************************************)
EXTENDS FiniteSets, Selection

CONSTANTS
  KEYS,
  HASH,              \* the hash of each key
  VALUES,
  NULL,              \* the key of a bucket that has none
  HASHMAP_DEFAULT_CAPACITY,
  MAX_CAPACITY       \* bound: the map grows no further

HASHMAP_RESIZE_FACTOR == 2
TOMBSTONE == 57005   \* 0xDEAD

ASSUME HashMapAssumption ==
  /\ NULL \notin KEYS
  /\ HASH \in [KEYS -> Nat]
  /\ VALUES \subseteq Nat
  /\ HASHMAP_DEFAULT_CAPACITY \in Nat /\ HASHMAP_DEFAULT_CAPACITY > 1

VARIABLES
  buckets,           \* key and value of each bucket
  capacity,
  count,             \* buckets filled, tombstones included
  tombstone_count,
  list,              \* the linked list of filled buckets, by their indices
  old_buckets,       \* while the map grows: the buckets to be moved
  pending,           \* while the map grows: what is left of their list
  call,              \* the call under way while the map grows
  pc,
  out                \* what the last call returned, or handed to its callback

table == <<buckets, capacity, count, tombstone_count, list>>
growth == <<old_buckets, pending, call, pc>>
vars == <<table, growth, out>>

Bucket == [key : KEYS \cup {NULL}, value : Nat]
Empty == [key |-> NULL, value |-> 0]
Nothing == [found |-> FALSE, value |-> 0]
Found(v) == [found |-> TRUE, value |-> v]
NoCall == [op |-> "none", key |-> NULL, value |-> 0]

IsEmpty(entry) == entry.key = NULL /\ entry.value = 0
Filled == {i \in DOMAIN buckets : ~IsEmpty(buckets[i])}

\* (mutant) One bucket too many.
OneTooMany(n) == [i \in 0 .. n |-> Empty]

Unused(n) == [i \in 0 .. n - 1 |-> Empty]

\* (mutant) Tombstones do not count.
FullOfEntries == 4 * (count - tombstone_count + 1) > 3 * capacity

\* m->count + 1 > HASHMAP_MAX_LOAD * m->capacity
Full == 4 * (count + 1) > 3 * capacity

Home(k) == HASH[k] % capacity

\* The buckets a search that begins at home passes before it reaches i.
Before(home, i) ==
  IF home <= i THEN home .. i - 1 ELSE (home .. capacity - 1) \cup (0 .. i - 1)

\* (mutant) A tombstone ends a search.
StopsAtAnyGap(entry, k) == entry.key \in {NULL, k}

\* find_entry stops at an empty bucket or at the key's own.
Stops(entry, k) == IsEmpty(entry) \/ entry.key = k

EndsAt(k, i) ==
  /\ Stops(buckets[i], k)
  /\ \A j \in Before(Home(k), i) : ~Stops(buckets[j], k)
find_entry(k) == CHOOSE i \in DOMAIN buckets : EndsAt(k, i)

\* A search that meets no such bucket goes round for ever.
SearchEnds(k) == \E i \in DOMAIN buckets : Stops(buckets[i], k)
-----------------------------------------------------------------------------
Init ==
  /\ capacity = HASHMAP_DEFAULT_CAPACITY
  /\ buckets = Unused(HASHMAP_DEFAULT_CAPACITY)
  /\ count = 0 /\ tombstone_count = 0
  /\ list = <<>>
  /\ old_buckets = <<>> /\ pending = <<>> /\ call = NoCall /\ pc = "idle"
  /\ out = Nothing

\* (mutant) The new entry is not linked.
Unlinked(i) == list

Linked(i) == Append(list, i)

\* The second half of hashmap_set, hashmap_get_set and hashmap_set_free: an
\* empty bucket is filled and linked; in the key's own, the value is replaced,
\* or only returned.
Put(c) ==
  LET i == find_entry(c.key)
      new == [key |-> c.key, value |-> c.value]
  IN  /\ SearchEnds(c.key)
      /\ \/ /\ buckets[i].key = NULL
            /\ buckets' = [buckets EXCEPT ![i] = new]
            /\ list' = Linked(i)
            /\ count' = count + 1
            /\ out' = Nothing
         \/ /\ buckets[i].key # NULL
            /\ buckets' = IF c.op = "get_set" THEN buckets
                                              ELSE [buckets EXCEPT ![i] = new]
            /\ out' = IF c.op = "set" THEN Nothing ELSE Found(buckets[i].value)
            /\ UNCHANGED <<list, count>>
      /\ UNCHANGED <<capacity, tombstone_count>>

Calls == [op : {"set", "get_set", "set_free"}, key : KEYS, value : VALUES]

\* A call that finds room.
Set ==
  /\ pc = "idle" /\ ~Full
  /\ \E c \in Calls : Put(c)
  /\ UNCHANGED growth

(***************************************************************************)
(* hashmap_resize: a call that would exceed the load, whether or not its   *)
(* key is there already, doubles the buckets first.                        *)
(***************************************************************************)
StartResize ==
  /\ pc = "idle" /\ Full
  /\ capacity * HASHMAP_RESIZE_FACTOR <= MAX_CAPACITY
  /\ call' \in Calls
  /\ old_buckets' = buckets /\ pending' = list /\ pc' = "resizing"
  /\ capacity' = capacity * HASHMAP_RESIZE_FACTOR
  /\ buckets' = Unused(capacity')
  /\ list' = <<>>
  /\ count' = count - tombstone_count /\ tombstone_count' = 0
  /\ UNCHANGED out

\* One turn of its loop: a tombstone is unlinked, an entry is moved to the
\* first bucket without a key from its new home on (resize_entry).
MoveEntry ==
  /\ pc = "resizing" /\ pending # <<>>
  /\ pending' = Tail(pending)
  /\ LET entry == old_buckets[Head(pending)]
         gap == CHOOSE i \in DOMAIN buckets :
                  /\ buckets[i].key = NULL
                  /\ \A j \in Before(Home(entry.key), i) : buckets[j].key # NULL
     IN  \/ /\ entry.key = NULL
            /\ UNCHANGED <<buckets, list>>
         \/ /\ entry.key # NULL
            /\ \E i \in DOMAIN buckets : buckets[i].key = NULL
            /\ buckets' = [buckets EXCEPT ![gap] = entry]
            /\ list' = Linked(gap)
  /\ UNCHANGED <<capacity, count, tombstone_count, old_buckets, call, pc, out>>

\* The map has grown, and the call goes on.
FinishResize ==
  /\ pc = "resizing" /\ pending = <<>>
  /\ Put(call)
  /\ old_buckets' = <<>> /\ call' = NoCall /\ pc' = "idle"
  /\ UNCHANGED pending

hashmap_get(k) ==
  /\ pc = "idle" /\ SearchEnds(k)
  /\ LET entry == buckets[find_entry(k)]
     IN  out' = [found |-> entry.key # NULL, value |-> entry.value]
  /\ UNCHANGED <<table, growth>>

\* (mutant) A removed entry leaves an empty bucket.
Vacated == Empty

Buried == [key |-> NULL, value |-> TOMBSTONE]

\* hashmap_remove and hashmap_remove_free, whose callback gets the entry.
hashmap_remove(k) ==
  /\ pc = "idle" /\ SearchEnds(k)
  /\ LET i == find_entry(k)
     IN  \/ /\ buckets[i].key = NULL
            /\ out' = Nothing
            /\ UNCHANGED <<buckets, tombstone_count>>
         \/ /\ buckets[i].key # NULL
            /\ out' \in {Nothing, Found(buckets[i].value)}
            /\ buckets' = [buckets EXCEPT ![i] = Buried]
            /\ tombstone_count' = tombstone_count + 1
  /\ UNCHANGED <<capacity, count, list, growth>>

Next ==
  \/ Set
  \/ StartResize \/ MoveEntry \/ FinishResize
  \/ \E k \in KEYS : hashmap_get(k) \/ hashmap_remove(k)

Spec == Init /\ [][Next]_vars
-----------------------------------------------------------------------------
\* The shape of every variable.
TypeOK ==
  /\ capacity \in Nat
  /\ buckets \in [0 .. capacity - 1 -> Bucket]
  /\ count \in Nat
  /\ tombstone_count \in Nat
  /\ list \in Seq(DOMAIN buckets)
  /\ old_buckets \in [DOMAIN old_buckets -> Bucket]
  /\ pending \in Seq(DOMAIN old_buckets)
  /\ call \in Calls \cup {NoCall}
  /\ pc \in {"idle", "resizing"}
  /\ out \in [found : BOOLEAN, value : Nat]

\* Every search ends, also the one for a key that is not there: tombstones
\* and entries together never fill the buckets.
SearchesEnd == \E i \in DOMAIN buckets : IsEmpty(buckets[i])

\* Every key is in one bucket at most, and a search for it gets there: no
\* empty bucket lies on the way, whatever was removed or moved since.
KeysReachable ==
  \A i \in DOMAIN buckets :
    buckets[i].key # NULL =>
      \A j \in Before(Home(buckets[i].key), i) :
        ~Stops(buckets[j], buckets[i].key)

\* The linked list goes through the filled buckets, each once, so that growing
\* loses no entry and iteration meets none twice.
ListIsWhole ==
  /\ \A i, j \in DOMAIN list : list[i] = list[j] => i = j
  /\ {list[i] : i \in DOMAIN list} = Filled

\* "assumes that an empty map won't be resized": the loop follows the list's
\* first pointer before it looks whether there is one.  (It follows from
\* CountsAgree and ListIsWhole.)
ResizesSomething == pc = "idle" /\ Full => list # <<>>

\* The counters the load is computed from, and hashmap_size returns, are true.
CountsAgree ==
  pc = "idle" =>
    /\ count = Cardinality(Filled)
    /\ tombstone_count = Cardinality({i \in Filled : buckets[i].key = NULL})

(***************************************************************************)
(* The map implements an ordered partial function.  Live is what the list  *)
(* holds but for the tombstones, which is what hashmap_iterate goes        *)
(* through.  (It breaks off after 1002 buckets; the daemon does not        *)
(* iterate.)                                                               *)
(***************************************************************************)
Live(from, indices) ==
  Selected([n \in 1 .. Len(indices) |-> from[indices[n]]],
           [key : KEYS, value : Nat])

Map ==
  INSTANCE OrderedMap WITH
    entries <- Live(buckets, list) \o Live(old_buckets, pending)

ImplementsMap == Map!MapSpec
=============================================================================
