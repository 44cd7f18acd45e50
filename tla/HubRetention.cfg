SPECIFICATION FairSpec
CONSTANTS
  l1 = l1
  l2 = l2
  l3 = l3
  mistText = mistText
  k1 = k1
  m1 = m1
  m2 = m2
  NoKey = NoKey
  NoPoller = NoPoller
  Types <- MCTypes
  Keys = {}
  Messages <- MCMessages
  MaxEventsChoices <- MCCaps
  ReserveChoices <- MCReserves
  Legacy = 0
  MaxId = 1
  MaxNow = 2
  Lines = {l1}
  MistText <- mistText
  Pollers = {}
  QueueMax = 1
  HoursChoices = {0, 1}
  MaxFaults = 1
  MaxUpsets = 2
CHECK_DEADLOCK FALSE
PROPERTIES
  RetentionObeyed
