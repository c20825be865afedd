\* Two queries for messages of many shapes, with records that collide.
SPECIFICATION Spec
CONSTANTS
  Queries = {"p", "q"}
  Messages <- SomeMessages
  RRIDS = 8
  QSIZE = 20
  MAXUDP = 160
  POLLS = {FALSE, TRUE}
INVARIANTS
  SizeAccounted
  NeverOversize
  FragmentsUsable
  RridsApart
  ServedRight
CHECK_DEADLOCK FALSE
