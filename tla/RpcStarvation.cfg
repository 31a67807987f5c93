SPECIFICATION FairSpec
CONSTANTS
  r1 = r1
  p1 = p1
  Reqs = {r1}
  Producers = {p1}
  NoId = NoId
  StreamCap = 1
  BufCap = 1
  WireCap = 1
  InCaps = {0}
  MaxOut = 0
  Unasked = {}
  MaxPush = 0
PROPERTY ControlNotStarved
CHECK_DEADLOCK FALSE
