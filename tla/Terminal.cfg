CONSTANTS
  Places = {"local", "remote"}
  MaxOut = 2
  MaxIn = 1
  PasteLen = 1
  MaxPush = 1
  MaxDrops = 1
  PtyCap = 1
  EventCap = 1
  QueueCap = 1
SPECIFICATION FairSpec
INVARIANT LocalOutputKept
PROPERTIES OutputShown PushDelivered TerminalsSettle
CHECK_DEADLOCK FALSE
