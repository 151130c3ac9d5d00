SPECIFICATION FairSpec
CONSTANTS
  Conns = {c1, c2}
  Users = {u1, u2}
  Rooms = {r1}
  BroadcastCap = 0
  SendCap = 1
  None = None
PROPERTIES
  ConnectionsAreServed
CHECK_DEADLOCK FALSE
