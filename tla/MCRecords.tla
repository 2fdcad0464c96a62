----------------------------- MODULE MCRecords -----------------------------
(* Sign-in and push notifications.  They share no state (a purged user's    *)
(* push tokens go in a step of Push), so a behaviour of one while the other *)
(* rests stands for all their interleavings.                                *)
EXTENDS SignIn, Push

VARIABLE part

Init ==
  /\ SignInInit /\ PushInit
  /\ part \in {"signin", "push"}

Next ==
  \/ part = "signin" /\ SignInNext /\ UNCHANGED <<pushVars, part>>
  \/ part = "push" /\ PushNext /\ UNCHANGED <<signInVars, part>>

Spec ==
  /\ Init /\ [][Next]_<<signInVars, pushVars, part>>
  /\ SignInFairness /\ PushFairness
=============================================================================
