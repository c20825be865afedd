\* Datagrams lost, reordered and duplicated; realloc free to move the block;
\* other records of the message incomplete.
SPECIFICATION Spec
CONSTANTS
  RRSIZES <- SomeSizes
  FIRSTBLOCKS = {1, 2}
  ROOM <- SomeRoom
  OTHERS = TRUE
  LOSSY = TRUE
  DUPLICATES = TRUE
  MOVES = {FALSE, TRUE}
INVARIANTS
  TypeOK
  FreeIsTail
  AskedOnce
  NeverAborts
  NeverOverruns
  Intact
PROPERTIES
  ReceivedStays
  ImplementsTransfer
CHECK_DEADLOCK FALSE
