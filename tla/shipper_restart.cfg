SPECIFICATION Spec
CONSTANTS
  N = 2
  e1 = e1
  e2 = e2
  e3 = e3
  NoEvent = NoEvent
  Events = {e1, e2}
  Large = {}
  Refused = {}
  SHIP_FROM_START = FALSE
  MaxBoots = 2
  MaxRotations = 0
  MaxOutages = 0
PROPERTY RestartResumes
CHECK_DEADLOCK FALSE
