\* Two records with one hash, both too large for one datagram.
SPECIFICATION Spec
CONSTANTS
  Queries = {"p", "q"}
  Messages <- Colliding
  RRIDS = 8
  QSIZE = 20
  MAXUDP = 160
  POLLS = {TRUE}
INVARIANTS
  Servable
CHECK_DEADLOCK FALSE
