\* Queries and responses written and read back.
SPECIFICATION Spec
CONSTANTS
  Messages <- SomeMessages
  RRFRAG = 108
INVARIANTS
  RoundTrips
  NeverFails
  LengthAccounted
CHECK_DEADLOCK FALSE
