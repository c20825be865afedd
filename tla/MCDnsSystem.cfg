\* Two queries, a responder that restarts once.
SPECIFICATION Spec
CONSTANTS
  Transactions = {"a", "b"}
  ID <- Distinct
  Messages <- ThreeMessages
  SECTIONS <- Counts
  RRIDS = 8
  QSIZE = 20
  MAXUDP = 160
  RESTARTS = 1
INVARIANTS
  FollowUpNotEmpty
  StateReleased
  StopsOnlyForgetful
  AnswersIntact
PROPERTIES
  Answered
CHECK_DEADLOCK FALSE
