SPECIFICATION FairSpec
CONSTANTS
  Streams = {s1, s2}
  KnownLadder <- MCShortLadder
  UnknownLadder <- MCShortLadder
  RefusalLadder <- MCShortLadder
  NetworkSteady = 1
  RefusalSteady = 1
  Hints = {0}
  BootTimes <- MCTwoBoots
  RebootThreshold = 3
  TurnsDrain = TRUE
  None = none
PROPERTIES
  RecoveryNeverGivesUp
  DisposalReleasesAll
CHECK_DEADLOCK FALSE
