SPECIFICATION Spec
CONSTANTS
  Conns = {c1, c2}
  Users = {u1, u2}
  Rooms = {r1, r2}
  BroadcastCap = 2
  SendCap = 1
  None = None
SYMMETRY Symmetry
INVARIANTS
  TypeOK
  RegisteredChannelsOpen
  LiveRooms
  SignalsStayInRoom
PROPERTIES
  
  KnownPanics
CHECK_DEADLOCK FALSE
