SPECIFICATION FairSpec
CONSTANTS
  Deadline = 2
  WallLimit = 1
  Extension = 1
  NoProgress = 1
  MaxProcesses = 1
  SameFaults = 2
  MaxAttempts = 1
  CrashInFinish = FALSE
  MaxSpec = 2
  MaxEpisodes = 5
  MaxUpsets = 1
INVARIANTS EpisodeTypeOK OneActive DeadlineInherited ReadyMayStart SpendBounded
PROPERTIES LadderEnds
CHECK_DEADLOCK FALSE
