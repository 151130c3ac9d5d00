SPECIFICATION FairSpec
CONSTANTS
  Users = {u1, u2}
  Rooms = {r1}
  Requests = {p1, p2}
  Capacities <- AskedCapacities
  NoUser = NoUser
  MaxFaults = 1
INVARIANTS
  TypeOK
  RowHistory
  StatusTimestamps
  LeaveTookEffect
PROPERTIES
  RowsAreALog
  JoinMeansPresent
  SettledForGood
  StartIsKept
  ImplementsMembership
  EnteredRoomOpens
