\* Four buckets, growing to eight; a value of 0 like that of an empty bucket.
SPECIFICATION Spec
CONSTANTS
  k1 = k1
  k2 = k2
  k3 = k3
  NULL = NULL
  KEYS <- ThreeKeys
  HASH <- Colliding
  VALUES = {0, 1}
  HASHMAP_DEFAULT_CAPACITY = 4
  MAX_CAPACITY = 8
INVARIANTS
  TypeOK
  SearchesEnd
  KeysReachable
  ListIsWhole
  CountsAgree
PROPERTIES
  ImplementsMap
