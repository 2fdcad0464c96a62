SPECIFICATION MCSpec
CONSTANTS
  r1 = r1
  u1 = u1
  u2 = u2
  c1 = c1
  c2 = c2
  c3 = c3
  Room = {r1}
  User = {u1, u2}
  Conn = {c1, c2, c3}
  RoomState = {1, 2, 3}
  Nil = Nil
  roomOf <- MCRoomOf
  userOf <- MCUserOf
INVARIANTS
  TypeOK
  NoZombieClients
  IdleRoomsAreReclaimed
PROPERTIES
  ClosedSocketsFinish
