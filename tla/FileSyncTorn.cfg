CONSTANTS
  MaxOutside = 1
  MaxWrites = 0
  MaxEdits = 0
  MaxDrops = 0
  MaxOpens = 1
  Autoread = TRUE
  FcsChoices = {"ask"}
SPECIFICATION FairSpec
PROPERTY AutoreadFollows
CHECK_DEADLOCK FALSE
