CONSTANTS
  MaxOutside = 1
  MaxWrites = 2
  MaxEdits = 0
  MaxDrops = 0
  MaxOpens = 1
  Autoread = TRUE
  FcsChoices = {"ask"}
SPECIFICATION Spec
PROPERTY ReportedChangeKept
CHECK_DEADLOCK FALSE
