\* Two clients happen to use one id, and datagrams come twice.
SPECIFICATION Spec
CONSTANTS
  Transactions = {"a", "b"}
  ID <- Same
  Answers <- OneBehind
  FIRSTBLOCKS = {1}
  MAXUDP = 100
  LOSSY = FALSE
  DUPLICATES = 3
INVARIANTS
  DoneIsComplete
  CompleteIsWhole
CHECK_DEADLOCK FALSE
