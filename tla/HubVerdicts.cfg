SPECIFICATION Spec
CONSTANTS
  d1 = d1
  d2 = d2
  j1 = j1
  h1 = h1
  h2 = h2
  allowed = allowed
  denied = denied
  NoKey = NoKey
  NoDrain = NoDrain
  Types <- MCTypes
  Keys = {}
  Messages <- MCMessages
  Blocked <- MCBlocked
  MaxEventsChoices <- MCCaps
  ReserveChoices <- MCReserves
  Legacy = 0
  MaxId = 3
  MaxNow = 1
  Drains <- MCDrains
  Jobs <- MCJobs
  Requests <- MCRequests
  BatchSize = 2
  MaxBatches = 1
  WallLimit = FALSE
  MaxFails = 1
  MaxUpsets = 2
CHECK_DEADLOCK FALSE
SYMMETRY MCSymmetry
CONSTRAINT MCBound
INVARIANTS
  TypeOK
  VerdictSound
  VerdictNewest
  OneDrain
  JobSound
