SPECIFICATION FairSpec
CONSTANTS
  N = 2
  e1 = e1
  e2 = e2
  e3 = e3
  NoEvent = NoEvent
  Events = {e1, e2}
  Large = {e1}
  Refused = {e1}
  SHIP_FROM_START = FALSE
  MaxBoots = 2
  MaxRotations = 1
  MaxOutages = 1
INVARIANTS TypeOK OffsetsCoverOnlyHandled OneCopyPerStart OnlyTornLinesAreDropped
           NothingPassesHalfCharacter
PROPERTIES ImplementsPipeline EveryEventIsStored
CHECK_DEADLOCK FALSE
