SPECIFICATION MCSpec
CONSTANTS
  p1 = p1
  p2 = p2
  c1 = c1
  c2 = c2
  Publishers <- MCPublishers
  Clients <- MCClients
  QueueMax = 1
  RecentMax = 1
  MaxEvents = 2
  Inodes = {1, 2, 3}
  None = 0
  ReadMax = 3
  MaxWritten = 2
  MaxRotations = 2
  MaxUpsets = 1
  MaxTailFaults = 1
CHECK_DEADLOCK FALSE
INVARIANTS
  MCTypeOK
  NoGap
  AtMostTwice
  LinesSound
PROPERTIES
  Delivered
  LinesArrive
