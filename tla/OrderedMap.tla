----------------------------- MODULE OrderedMap -----------------------------
(***************************************************************************)
(* What a hashmap promises (map.h): a partial function from keys to        *)
(* values whose entries are iterated in the order they were added.         *)
(***************************************************************************)
EXTENDS Selection

CONSTANTS KEYS, VALUES

VARIABLES
  entries,  \* the entries, oldest first
  out       \* what the last call returned, or handed to its callback

mapVars == <<entries, out>>

Nothing == [found |-> FALSE, value |-> 0]
Found(v) == [found |-> TRUE, value |-> v]

Position(k) == {i \in DOMAIN entries : entries[i].key = k}
ValueOf(k) == entries[CHOOSE i \in Position(k) : TRUE].value
Lookup(k) == IF Position(k) = {} THEN Nothing ELSE Found(ValueOf(k))

Added(k, v) == Append(entries, [key |-> k, value |-> v])
Overwritten(k, v) ==
  [i \in DOMAIN entries |-> IF i \in Position(k) THEN [key |-> k, value |-> v]
                                                ELSE entries[i]]
Others(k) == {entries[i] : i \in DOMAIN entries \ Position(k)}
Updated(k, v) == IF Position(k) = {} THEN Added(k, v) ELSE Overwritten(k, v)

MapInit == entries = <<>> /\ out = Nothing

\* hashmap_set and hashmap_set_free, whose callback gets the old value.
Set(k, v) ==
  /\ entries' = Updated(k, v)
  /\ out' \in {Nothing, Lookup(k)}

\* hashmap_get_set: an entry that exists is left alone and returned.
GetSet(k, v) ==
  /\ entries' = IF Position(k) = {} THEN Added(k, v) ELSE entries
  /\ out' = Lookup(k)

Get(k) == out' = Lookup(k) /\ UNCHANGED entries

\* hashmap_remove and hashmap_remove_free.
Remove(k) ==
  /\ entries' = Selected(entries, Others(k))
  /\ out' \in {Nothing, Lookup(k)}

MapNext ==
  \/ \E k \in KEYS, v \in VALUES : Set(k, v) \/ GetSet(k, v)
  \/ \E k \in KEYS : Get(k) \/ Remove(k)

MapSpec == MapInit /\ [][MapNext]_mapVars
=============================================================================
