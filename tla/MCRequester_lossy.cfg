\* Datagrams are lost and clients give up.
SPECIFICATION Spec
CONSTANTS
  Transactions = {"a", "b"}
  ID <- Distinct
  Answers <- SomeAnswers
  FIRSTBLOCKS = {0, 1, 2}
  MAXUDP = 100
  LOSSY = TRUE
  DUPLICATES = 0
INVARIANTS
  StopsAsKnown
  OneUnderWay
  AnswersIntact
  ResponseNearlyFits
CHECK_DEADLOCK FALSE
