------------------------------- MODULE MCHub -------------------------------
(* One room, a user who reconnects (c1, c2) and a second member (c3).  An   *)
(* object of the pool is free whenever it is needed: a goroutine that needs *)
(* one holds none, and each of the others holds at most one.                *)
EXTENDS Hub, Naturals, TLC

CONSTANTS r1, u1, u2, c1, c2, c3

MCRoomOf == [c \in Conn |-> r1]
MCUserOf == [c \in Conn |-> IF c = c3 THEN u2 ELSE u1]
Symmetry == Permutations(RoomState)

\* Objects are interchangeable: the least of the free ones is taken.
LeastFree ==
  \A s, t \in RoomState : s < t /\ Unreferenced(s) /\ Unreferenced(t) => Unreferenced(t)'

\* Bound: the second member raises no emergency.
InScope == pc[c3] # "emergency"

MCSpec == Init /\ [][Next /\ LeastFree /\ InScope']_vars /\ Fairness
=============================================================================
