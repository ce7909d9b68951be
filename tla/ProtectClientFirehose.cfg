SPECIFICATION FairSpec
CONSTANTS
  Subscriptions = {s1}
  StreamKeys = {k}
  MaxSessions = 1
  MaxSegments = 0
  Failures = {codecChange}
  NoSession = NoSession
  Detached = Detached
  NoError = NoError
  Firehoses = {h1}
  Raw = {}
  Packets <- Plain
  MaxFrames = 1
  Callers = {c1}
  Nobody = Nobody
  WalkNode <- WalkTree
  Manifest <- Shipped
  Bootstrap <- Document
  Axes <- NoAxis
  Exemplars = 1
PROPERTIES
  EventsEndWithClient
CHECK_DEADLOCK FALSE
