SPECIFICATION SettingsSpec
CONSTANTS
  t1 = t1
  t2 = t2
  r1 = r1
  Registry <- MCRegistry
  Secrets <- MCSecrets
  OldKeys <- MCOldKeys
  EnvFirst <- MCEnvFirst
  Poller <- MCPoller
  Updates <- MCUpdates
  Envs <- MCEnvs
  Savers <- MCThreads
  Readers <- MCReaders
  MaxSaves = 2
  MaxStarts = 2
CHECK_DEADLOCK FALSE
INVARIANT
  SetupAsked
