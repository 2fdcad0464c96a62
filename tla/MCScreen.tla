----------------------------- MODULE MCScreen ------------------------------
(* The two feeds of a room's screen: who is there, and the chat.  They      *)
(* share no state, so a behaviour of one while the other rests stands for   *)
(* all their interleavings, and each is explored by itself.                 *)
EXTENDS Presence, Chat, TLC

CONSTANTS u1, u2, c1, c2, c3

VARIABLE feed

MCHolderOf == [c \in Socket |-> IF c = c3 THEN u2 ELSE u1]
Symmetry == Permutations({c1, c2}) \cup Permutations(Poster)

Init ==
  /\ PresenceInit /\ ChatInit
  /\ feed \in {"presence", "chat"}

\* Bounds: the reader's account is not purged, and the one member of two whose
\* socket is never replaced raises no emergency.
InScope == Reader \in authors /\ at[c3] # "alarm"

Next ==
  \/ feed = "presence" /\ PresenceNext /\ UNCHANGED <<chatVars, feed>>
  \/ feed = "chat" /\ ChatNext /\ UNCHANGED <<presenceVars, feed>>

Spec == Init /\ [][Next /\ InScope']_<<presenceVars, chatVars, feed>>
=============================================================================
