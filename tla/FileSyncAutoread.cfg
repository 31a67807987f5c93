CONSTANTS
  MaxOutside = 2
  MaxWrites = 0
  MaxEdits = 0
  MaxDrops = 2
  MaxOpens = 1
  Autoread = TRUE
  FcsChoices = {"ask", "reload", "edit"}
SPECIFICATION FairSpec
PROPERTY AutoreadConverges
CHECK_DEADLOCK FALSE
