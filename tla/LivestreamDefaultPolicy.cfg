SPECIFICATION FairSpec
CONSTANTS
  Subscribers = {c1, c2}
  Formats = {f, g}
  Urgencies = {0, 6, 99}
  Never = 99
  EstablishCurve <- MCEstablishCurve
  EstablishDeadline = 30
  RecoveryCurve <- MCRecoveryCurve
  DefaultTolerance = 10
  AwaitMargin = 1
  AwaitMin = 3
  AwaitMax = 10
  StallDefault = 10
  StallFloor = 2
  StallPoll = 5
  CustomPolicy = FALSE
  UrgencyThrows = FALSE
  MediaFirst = TRUE
  None = none
INVARIANTS
  ProvenStreamNeverGivesUp
PROPERTIES
  WindowWithinHeadroom
  EstablishmentConcludes
  SilenceIsNoticed
  StalledStreamReturns
CHECK_DEADLOCK FALSE
