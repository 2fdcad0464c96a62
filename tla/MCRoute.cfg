SPECIFICATION MCSpec
CONSTANTS
  p2 = p2
  Req = {q1, q2}
  Pin = {p1, p2}
  Text = {t1, t2}
  Label = {l1}
  Nil = Nil
  MaxStops = 3
  MayFail = TRUE
SYMMETRY Symmetry
INVARIANTS
  TypeOK
  AppendedAfterOlderStops
PROPERTIES
  UndisturbedEditHeals
