SPECIFICATION FairSpec
CONSTANTS
  j1 = j1
  j2 = j2
  j3 = j3
  s1 = s1
  s2 = s2
  NoJob = NoJob
  NoSched = NoSched
  Jobs <- MCTwoJobs
  Scheds <- MCSched
  Keep = 1
  Reports = 1
  MaxRestarts = 1
  MaxFaults = 1
ACTION_CONSTRAINT MCSwitch
INVARIANTS
  JobsTypeOK
  Held
  AlertSound
PROPERTIES
  HistoryKept
  JobsSettle
  AlertsArrive
