------------------------------ MODULE MCRoute ------------------------------
(* Two requests at a time.  A behaviour has its focus on a route of several *)
(* stops, or on texts and on one pin taking the place of another.           *)
EXTENDS Route, TLC

CONSTANT p2

VARIABLE focus

\* Bounds: the second pin and texts come with at most one stop, without label.
InScope ==
  IF focus = "stops" THEN name = Nil /\ dest.pin # p2 /\ dest.meta = Nil
  ELSE added <= 1 /\ \A s \in stops : s.label = Nil

MCInit == Init /\ focus \in {"stops", "texts"}

MCSpec ==
  /\ MCInit
  /\ [][Next /\ UNCHANGED focus /\ InScope']_<<vars, focus>>

\* Requests are interchangeable.
Symmetry == Permutations(Req)
=============================================================================
