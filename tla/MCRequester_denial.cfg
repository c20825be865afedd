\* The first response has no answers but a fragmented authority record.
SPECIFICATION Spec
CONSTANTS
  Transactions = {"a"}
  ID <- Same
  Answers <- ADenial
  FIRSTBLOCKS = {1}
  MAXUDP = 100
  LOSSY = FALSE
  DUPLICATES = 0
INVARIANTS
  NeverStops
CHECK_DEADLOCK FALSE
