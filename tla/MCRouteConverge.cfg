SPECIFICATION MCSpec
CONSTANTS
  p2 = p2
  Req = {q1, q2}
  Pin = {p1}
  Text = {}
  Label = {}
  Nil = Nil
  MaxStops = 3
  MayFail = FALSE
SYMMETRY Symmetry
INVARIANTS
  StopsConverged
