SPECIFICATION Spec
CONSTANTS
  Users = {u1, u2}
  Rooms = {r1}
  Requests = {p1, p2}
  Capacities <- OneCapacity
  NoUser = NoUser
  MaxFaults = 0
PROPERTIES
  OpensOnlyWaitingRooms
