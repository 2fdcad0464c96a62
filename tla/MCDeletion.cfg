SPECIFICATION MCSpec
CONSTANTS
  Room = {r1, r2}
  User = {u1, u2}
  Code = {k1, k2}
  Req = {q1, q2}
  Nil = Nil
  Watched = {r1}
  MaxCodeAttempts = 2
  MuteInputs = {TRUE, FALSE}
SYMMETRY Symmetry
INVARIANTS
  TypeOK
  KickedHaveLeft
  DeletedUsersAreOut
  MemberListConverges
