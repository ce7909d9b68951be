SPECIFICATION FairSpec
CONSTANTS
  Requests = {r1, r2}
  Credentials = {g1}
  Relogin = relogin
  Handshakes = {g1, relogin}
  Limit = 2
  OwnsPool = TRUE
  None = none
PROPERTIES
  EverySendSettles
CHECK_DEADLOCK FALSE
