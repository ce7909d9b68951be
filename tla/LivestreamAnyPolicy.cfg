SPECIFICATION Spec
CONSTANTS
  Subscribers = {c1, c2}
  Formats = {f, g}
  Urgencies = {0, 99}
  Never = 99
  EstablishCurve <- MCEstablishCurve
  EstablishDeadline = 30
  RecoveryCurve <- MCRecoveryCurve
  DefaultTolerance = 10
  AwaitMargin = 1
  AwaitMin = 3
  AwaitMax = 10
  StallDefault = 10
  StallFloor = 2
  StallPoll = 4
  CustomPolicy = TRUE
  UrgencyThrows = TRUE
  MediaFirst = FALSE
  None = none
INVARIANTS
  NeverWedged
  TornDownIsQuiet
PROPERTIES
  MediaAsAnnounced
CHECK_DEADLOCK FALSE
