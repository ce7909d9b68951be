SPECIFICATION FairSpec
CONSTANTS
  NoCode = NoCode
  Nothing = Nothing
  NoneYet = NoneYet
  Missing = Missing
  NotRecord = NotRecord
  Malformed = Malformed
  None = None
  Undecodable = Undecodable
  Garbage = Garbage
  Kinds = {"events", "livestream", "talkback"}
  DialCauses <- MCDialCauses
  ConnCauses <- MCConnCauses
  Drains = {1}
  Script <- MCScript
  Timestamps = TRUE
  Inits <- MCInits
  Packets <- MCPackets
  Damaged <- MCDamaged
  Garbles <- MCGarbles
INVARIANTS
  NothingHeldAfterRelease
  OneAccount
  SegmentsExact
  InitsRead
  EventsFaithful
PROPERTIES
  DrainEnds
  SilentSocketEnds
CHECK_DEADLOCK FALSE
