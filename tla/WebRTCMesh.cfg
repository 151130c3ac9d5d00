SPECIFICATION Spec
CONSTANTS
  Peers = {a, b}
  MaxEvents = 3
  Readable = TRUE
  None = None
INVARIANTS
  TilesAreOfMembers
  SettledPagesAreLinked
PROPERTIES
  ErrorsHaveReasons
  OnePartner
CHECK_DEADLOCK FALSE
