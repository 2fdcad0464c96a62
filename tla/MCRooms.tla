------------------------------ MODULE MCRooms ------------------------------
(* Two concurrent requests among three users of one room; beside it, short  *)
(* of races, mutes and a second room that competes for its code.            *)
EXTENDS Rooms, TLC

InUse(r) == rooms[r] # Nil \/ \E q \in Req : req[q].room = r

\* A room nobody but one user has come to, without sockets.
Private(r) ==
  /\ sockets[r] = {}
  /\ \E u \in User : /\ \A v \in User \ {u} : members[r][v] = Nil
                     /\ \A q \in Req : req[q].room = r =>
                          req[q].actor = u /\ req[q].pc # "wsmember"

\* Somebody is muted, or about to be.
Muting(r) ==
  \/ \E u \in User : members[r][u] # Nil /\ members[r][u].muted
  \/ \E q \in Req : req[q].room = r /\ req[q].pc \in {"mute", "muted"}

\* Bounds: two rooms only while each is private; no sockets and no second
\* request along with mutes; at most two sockets, and one if its eviction has
\* failed or overtaken it.
InScope ==
  /\ \A r \in Room : sockets[r] # User /\ \A u \in overlap[r] : sockets[r] = {u}
  /\ \A r \in Room : Muting(r) =>
       sockets[r] = {} /\ \E q \in Req : \A p \in Req \ {q} : req[p] = Idle
  /\ \/ \A r, o \in Room : InUse(r) /\ InUse(o) => r = o
     \/ \A r \in Room : Private(r)

MCSpec == Init /\ [][Next /\ InScope']_vars

Symmetry == Permutations(Room) \cup Permutations(User) \cup Permutations(Req)
=============================================================================
