SPECIFICATION Spec
CONSTANTS
  d1 = d1
  d2 = d2
  j1 = j1
  h1 = h1
  h2 = h2
  allowed = allowed
  denied = denied
  NoKey = NoKey
  NoDrain = NoDrain
  Types <- MCTypes
  Keys = {}
  Messages <- MCMessages
  Blocked <- MCBlocked
  MaxEventsChoices <- MCCaps
  ReserveChoices <- MCReserves
  Legacy = 0
  MaxId = 2
  MaxNow = 1
  Drains = {}
  Jobs = {}
  Requests <- MCRequests
  BatchSize = 1
  MaxBatches = 1
  WallLimit = TRUE
  MaxFails = 1
  MaxUpsets = 1
PROPERTIES
  CancelHonoured
