SPECIFICATION MCSpec
CONSTANTS
  a = a
  b = b
  pa = pa
  mist = mist
  system = system
  booted = booted
  local = local
  m1 = m1
  m2 = m2
  t1 = t1
  t2 = t2
  r1 = r1
  PageBytes = 3
  FirstChunk = 4
  PageLines = 2
  BackLines = 1
  Undated = {2}
  Garbled = {1, 3}
  Sinces = {0, 3}
  MaxText = 7
  MaxPages = 3
  Terms <- MCTerms
  MaxTokens = 5
  Priorities = {0, 3, 4, 11, 12, 191}
  HubTypes <- MCHubTypes
  Journals <- MCJournals
  Files <- MCFiles
  LocalFiles <- MCLocalFiles
  Together <- MCTogether
  Content <- MCContent
  TextQueries <- MCTextQueries
  Patterns <- MCPatterns
  Limits = {2}
  TailLines = 2
  RegexFetch = 1
  MaxLines = 3
  Models <- MCModels
  LoadMax = 5
  DirectMax = 2
  RagMax = 4
  ChunkSize = 2
  Overlap = 1
  ChunksMax = 3
  BatchSize = 2
  Retries = 2
  RequestMax = 2
  ServerMax = 3
  AddBatch = 2
  TopK = 2
  MaxFile = 5
  MaxJobs = 2
  MaxTrouble = 1
  Registry <- MCRegistry
  Secrets <- MCSecrets
  OldKeys <- MCOldKeys
  EnvFirst <- MCEnvFirst
  Poller <- MCPoller
  Updates <- MCUpdates
  Envs <- MCEnvs
  Savers <- MCThreads
  Readers <- MCReaders
  MaxSaves = 2
  MaxStarts = 2
  Workers <- MCThreads
  Every <- MCEvery
  Least <- MCLeast
  MinRetry = 1
  ContextMax = 1
  MaxAnalyses = 2
  MaxMetas = 2
  MaxTime = 2
  MaxMade = 3
SYMMETRY MCSymmetry
CHECK_DEADLOCK FALSE
INVARIANTS
  MCTypeOK
  PagesSound
  QueryMeaning
  SevereIsFailure
  SearchSound
  RetrievalSound
  SettingsSound
  SummariesSound
