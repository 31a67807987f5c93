CONSTANTS
  Places = {"local"}
  MaxOut = 2
  MaxIn = 1
  PasteLen = 6
  MaxPush = 0
  MaxDrops = 0
  PtyCap = 1
  EventCap = 1
  QueueCap = 1
SPECIFICATION FairSpec
PROPERTY ThreadGetsOn
CHECK_DEADLOCK FALSE
