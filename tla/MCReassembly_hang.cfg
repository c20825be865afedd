\* The responder had no room for any block of the record: fragsize 0.
SPECIFICATION FairSpec
CONSTANTS
  RRSIZES <- SomeSizes
  FIRSTBLOCKS = {0}
  ROOM <- RoomForOne
  OTHERS = FALSE
  LOSSY = FALSE
  DUPLICATES = FALSE
  MOVES = {FALSE}
PROPERTIES
  GrowthEnds
CHECK_DEADLOCK FALSE
