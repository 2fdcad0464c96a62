SPECIFICATION Spec
CONSTANTS
  u1 = u1
  u2 = u2
  c1 = c1
  c2 = c2
  c3 = c3
  Socket = {c1, c2, c3}
  Member = {u1, u2}
  holderOf <- MCHolderOf
  None = None
  ChatUser = {a, b}
  Reader = b
  Poster = {p1, p2}
  MaxMessages = 3
  MaxClock = 1
  Limit = {0, 1}
  defaultMessagePage = 2
  maxMessagePage = 2
SYMMETRY Symmetry
INVARIANTS
  PresenceSettles
  NoAbsentEmergency
  NoRowRepeated
  NoRowSkipped
  
CHECK_DEADLOCK FALSE
