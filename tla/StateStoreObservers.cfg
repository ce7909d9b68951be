SPECIFICATION Spec
CONSTANTS
  NotRecord = NotRecord
  Malformed = Malformed
  None = None
  d1 = d1
  d2 = d2
  o1 = o1
  o2 = o2
  o3 = o3
  ModelKeys <- MCModelKeys
  BootstrapKeys <- MCBootstrapKeys
  MacOf <- MCMacOf
  Devices = {d1, d2}
  Contents <- MCFewContents
  Nvrs <- MCNvrs
  Rosters <- MCRosters
  FirstTruth <- MCFirstTruth
  Key = "camera"
  Observers = {o1, o2}
  Watches <- MCWatches
  MayThrow = {o1}
  Fetchers = {"refresh"}
  MaxChanges = 1
INVARIANTS
  ObserverNotBehind
  NoLostWakeup
CHECK_DEADLOCK FALSE
