SPECIFICATION PagesSpec
CONSTANTS
  PageBytes = 3
  FirstChunk = 4
  PageLines = 2
  BackLines = 1
  Undated = {}
  Garbled = {}
  Sinces = {0}
  MaxText = 6
  MaxPages = 3
CHECK_DEADLOCK FALSE
INVARIANTS
  EndExclusive
