SPECIFICATION Spec
CONSTANTS
  Requests = {r1, r2}
  Credentials = {g1, g2}
  Relogin = relogin
  Handshakes = {g1, g2, relogin}
  Limit = 2
  OwnsPool = TRUE
  None = none
INVARIANTS
  OpenAtLimit
  LoggedOutStaysOut
PROPERTIES
  RailsAlternate
  SessionEndsOnOwnAccount
  ResendIsEarned
CHECK_DEADLOCK FALSE
