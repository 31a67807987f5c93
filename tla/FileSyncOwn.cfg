CONSTANTS
  MaxOutside = 0
  MaxWrites = 1
  MaxEdits = 0
  MaxDrops = 1
  MaxOpens = 1
  Autoread = TRUE
  FcsChoices = {"ask"}
SPECIFICATION Spec
INVARIANT PushIsForeign
CHECK_DEADLOCK FALSE
