SPECIFICATION Spec
CONSTANTS
  Subscriptions = {s1, s2}
  StreamKeys = {k}
  MaxSessions = 2
  MaxSegments = 2
  Failures = {codecChange}
  NoSession = NoSession
  Detached = Detached
  NoError = NoError
  Firehoses = {h1, h2}
  Raw = {h2}
  Packets <- Traffic
  MaxFrames = 2
  Callers = {c1, c2}
  Nobody = Nobody
  WalkNode <- WalkTree
  Manifest <- Shipped
  Bootstrap <- Document
  Axes <- AnyName
  Exemplars = 1
CONSTRAINT OneSurfaceUsed
SYMMETRY Alike
INVARIANTS
  NothingOutlivesTheClient
  FirehoseFollowsState
  OneSessionPerStream
  DeliveredInFull
  EvidenceIsKept
  BundleIsPseudonymous
CHECK_DEADLOCK FALSE
