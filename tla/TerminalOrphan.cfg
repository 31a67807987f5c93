CONSTANTS
  Places = {"remote"}
  MaxOut = 0
  MaxIn = 0
  PasteLen = 1
  MaxPush = 0
  MaxDrops = 1
  PtyCap = 1
  EventCap = 1
  QueueCap = 1
SPECIFICATION FairSpec
PROPERTY NoOrphanChild
CHECK_DEADLOCK FALSE
