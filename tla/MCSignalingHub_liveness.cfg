SPECIFICATION FairSpec
CONSTANTS
  Conns = {c1, c2}
  Users = {u1}
  Rooms = {r1}
  BroadcastCap = 4
  SendCap = 1
  None = None
PROPERTIES
  ConnectionsAreServed
  ClosedConnectionsEnd
  PanicsEnd
CHECK_DEADLOCK FALSE
