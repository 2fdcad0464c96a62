SPECIFICATION MCSpec
CONSTANTS
  Room = {r1, r2}
  User = {u1, u2, u3}
  Code = {k1}
  Req = {q1, q2}
  Nil = Nil
  Watched = {}
  MaxCodeAttempts = 2
  MuteInputs = {TRUE}
SYMMETRY Symmetry
INVARIANTS
  OwnerIdHasOwnerRole
  KickedHaveLeft
  EvictedSocketsStayOut
PROPERTIES
  EndedIsFinal
