\* Two clients happen to use one id: the answer to one erases what the other has.
SPECIFICATION Spec
CONSTANTS
  Transactions = {"a", "b"}
  ID <- Same
  Answers <- WithDenial
  FIRSTBLOCKS = {1}
  MAXUDP = 100
  LOSSY = FALSE
  DUPLICATES = 0
INVARIANTS
  AnswersIntact
CHECK_DEADLOCK FALSE
