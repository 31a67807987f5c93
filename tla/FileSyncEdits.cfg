CONSTANTS
  MaxOutside = 2
  MaxWrites = 0
  MaxEdits = 1
  MaxDrops = 0
  MaxOpens = 1
  Autoread = TRUE
  FcsChoices = {"ask"}
SPECIFICATION Spec
PROPERTY ReloadKeepsEdits
CHECK_DEADLOCK FALSE
