SPECIFICATION Spec
CONSTANTS
  Room = {r1}
  User = {u1, u2, u3}
  Code = {k1}
  Req = {q1, q2}
  Nil = Nil
  Watched = {}
  MaxCodeAttempts = 2
  MuteInputs = {}
SYMMETRY Symmetry
INVARIANTS
  OneOwner
