SPECIFICATION Spec
CONSTANTS
  Streams = {s1, s2}
  KnownLadder <- MCKnownLadder
  UnknownLadder <- MCUnknownLadder
  RefusalLadder <- MCRefusalLadder
  NetworkSteady = 3
  RefusalSteady = 9
  Hints = {0, 4, 20}
  BootTimes <- MCBootTimes
  RebootThreshold = 3
  TurnsDrain = TRUE
  None = none
INVARIANTS
  OutageIsBeingRecovered
  HealthyIsServed
  AnnouncedIsCurrent
  NoStreamOrphaned
PROPERTIES
  WaitsAreMeasured
  ImplementsView
CHECK_DEADLOCK FALSE
