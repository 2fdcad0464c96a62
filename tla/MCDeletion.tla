----------------------------- MODULE MCDeletion ----------------------------
(* Two questions in two rooms.  In the followed room, two requests of two   *)
(* users at a time; in the other, one request beside one deletion.          *)
EXTENDS Deletion, TLC

\* A room nobody but u has come to, without mutes or sockets.
Private(r, u) ==
  /\ sockets[r] = {}
  /\ members[r][u] # Nil => ~members[r][u].muted
  /\ \A v \in User \ {u} : members[r][v] = Nil
  /\ \A q \in Req : req[q].room = r => req[q].actor = u /\ req[q].pc # "wsmember"

\* Somebody is muted, or about to be.
Muting(r) ==
  \/ \E u \in User : members[r][u] # Nil /\ members[r][u].muted
  \/ \E q \in Req : req[q].room = r /\ req[q].pc = "mute"

Used(r) == rooms[r] # Nil \/ \E q \in Req : req[q].room = r
Busy(q) == req[q] # Idle \/ session[q] # Nil

\* Bounds: a room that is followed has no sockets beside its client's, and
\* sees a deletion only between requests; mutes come before deletions there,
\* and leave at most one entry in doubt.  Nothing happens after its end.
Followed(r) ==
  /\ rooms[r] # Nil /\ ~ Open(r) => \A q \in Req : Busy(q) => At(q, "ended")
  /\ \A q \in Req : req[q].room = r => req[q].pc # "wsmember"
  /\ Used(r) /\ del # NoDeletion => \A q \in Req : ~ Busy(q)
  /\ Muting(r) => deleted = {} /\ \A x, y \in doubt : x = y

\* The other has one request at a time, one socket and no mutes.
Unfollowed(r) ==
  /\ ~ Muting(r)
  /\ \A u, w \in sockets[r] : u = w
  /\ Used(r) => \E q \in Req : ~ Busy(q)

\* Both are in use only while each is private; two requests at a time come
\* before deletions.
InScope ==
  /\ \A r \in Room : IF r \in Watched THEN Followed(r) ELSE Unfollowed(r)
  /\ \/ \E r \in Room : ~ Used(r)
     \/ \A r \in Room : \E u \in User : Private(r, u)
  /\ (\A q \in Req : Busy(q)) => deleted = {}

MCSpec == DeletionInit /\ [][DeletionNext /\ InScope']_deletionVars

Symmetry == Permutations(User) \cup Permutations(Code) \cup Permutations(Req)
=============================================================================
