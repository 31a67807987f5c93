CONSTANTS
  MaxOutside = 1
  MaxWrites = 1
  MaxEdits = 1
  MaxDrops = 1
  MaxOpens = 1
  Autoread = TRUE
  FcsChoices = {"ask", "reload", "edit"}
SPECIFICATION FairSpec
INVARIANTS WatchHeld OwnWriteQuiet
PROPERTIES EveryChangeTold LoneReloadKeepsEdits AutoreadConverges
CHECK_DEADLOCK FALSE
