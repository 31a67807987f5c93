CONSTANTS
  Places = {"remote"}
  MaxOut = 1
  MaxIn = 0
  PasteLen = 1
  MaxPush = 0
  MaxDrops = 0
  PtyCap = 1
  EventCap = 1
  QueueCap = 1
SPECIFICATION FairSpec
INVARIANT OutputKept
CHECK_DEADLOCK FALSE
