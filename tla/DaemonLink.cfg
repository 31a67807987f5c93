SPECIFICATION FairSpec
CONSTANTS
  MaxAttempts = 3
  MaxCmds = 2
INVARIANT ConnectedMeansPublished
PROPERTIES ReconnectingSettles DisconnectHonoured SeenOutageResyncs
CHECK_DEADLOCK FALSE
