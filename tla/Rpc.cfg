SPECIFICATION FairSpec
CONSTANTS
  r1 = r1
  p1 = p1
  Reqs = {r1}
  Producers = {p1}
  NoId = NoId
  StreamCap = 1
  BufCap = 1
  WireCap = 1
  InCaps = {1}
  MaxOut = 1
  Unasked = {"push", "junk", "toobig"}
  MaxPush = 2
INVARIANTS FlushedWhenIdle NoStaleEntry
PROPERTIES ImplementsContract RequestsResolve TornDownTogether
CHECK_DEADLOCK FALSE
