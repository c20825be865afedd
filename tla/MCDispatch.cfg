\* Three clients, answers missed or never given, descriptors that run out.
SPECIFICATION Spec
CONSTANTS
  Clients = {1001, 1002, 1003}
  QUESTION <- Ask2
  HASH <- SameHash
  ROUNDS <- Rounds
  FDS = {5, 6}
  EPHEMERAL = {40001, 40002, 40003}
  POLLS = {TRUE, FALSE}
INVARIANTS
  TypeOK
  SocketsMatch
  NothingElseLeaks
  StopsOnlyWhenFull
  FragmentsIntercepted
  StateReleased
PROPERTIES
  Answered
CHECK_DEADLOCK FALSE
