SPECIFICATION MCSpec
CONSTANTS
  k1 = k1
  k2 = k2
  text = text
  NoKey = NoKey
  Types <- MCTypes
  Keys <- MCKeys
  Messages <- MCMessages
  MaxEventsChoices <- MCCaps
  ReserveChoices <- MCReserves
  Legacy = 2
  MaxId = 4
  MaxNow = 1
  r1 = r1
  hub = hub
  file = file
  t1 = t1
  t2 = t2
  e1 = e1
  e2 = e2
  Rules <- MCRules
  Defs <- MCDefs
  NoRule = NoRule
  HubSources <- MCHub
  FileSources <- MCFile
  Evaluators <- MCEvals
  Editors <- MCEds
  Workers = 1
  Caps = {0, 1, 2}
  Window = 2
  MaxSkew = 1
  MaxClock = 3
  MaxLines = 3
  MaxEdits = 2
  MaxAlertFaults = 1
CHECK_DEADLOCK FALSE
SYMMETRY MCSymmetry
INVARIANTS
  MCTypeOK
  CooldownHeld
  RulesFresh
PROPERTIES
  ReserveKept
  OldestOfTypeFirst
  LogRefined
  RateCap
