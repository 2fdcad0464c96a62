SPECIFICATION Spec
CONSTANTS
  r1 = r1
  u1 = u1
  u2 = u2
  c1 = c1
  c2 = c2
  c3 = c3
  Room = {r1}
  User = {u1, u2}
  Conn = {c1, c2, c3}
  RoomState = {s1, s2, s3, s4}
  Nil = Nil
  roomOf <- MCRoomOf
  userOf <- MCUserOf
INVARIANT ConnectedClientsAreRegistered
