SPECIFICATION FairSpec
CONSTANTS
  NotRecord = NotRecord
  Malformed = Malformed
  None = None
  d1 = d1
  d2 = d2
  o1 = o1
  o2 = o2
  o3 = o3
  ModelKeys <- MCModelKeys
  BootstrapKeys <- MCBootstrapKeys
  MacOf <- MCMacOf
  Devices = {d1, d2}
  Contents <- MCContents
  Nvrs <- MCNvrs
  Rosters <- MCRosters
  FirstTruth <- MCFirstTruth
  Key = "camera"
  Observers = {}
  Watches <- MCWatches
  MayThrow = {}
  Fetchers = {"refresh", "recovery"}
  MaxChanges = 2
INVARIANTS
  ContradictionNeverStored
PROPERTIES
  IdentityIsChange
  LossHealed
CHECK_DEADLOCK FALSE
