------------------------------ MODULE Delivery ------------------------------
(***************************************************************************)
(* What one connection promises to the code that sends frames through it:  *)
(* a first-in first-out channel that loses nothing until it starts to      *)
(* close, and from then on may refuse or lose frames but never reorders,   *)
(* repeats or invents one.  The n-th frame offered is the number n.        *)
(***************************************************************************)
EXTENDS Naturals, Sequences

VARIABLES
  offered,   \* how many frames have been offered
  queue,     \* the frames accepted and not yet delivered or lost
  received,  \* the frames the peer has received
  closing    \* the channel has started to close

vars == <<offered, queue, received, closing>>

Init ==
  /\ offered  = 0
  /\ queue    = <<>>
  /\ received = <<>>
  /\ closing  = FALSE

Accept ==
  /\ offered' = offered + 1
  /\ queue' = Append(queue, offered')
  /\ UNCHANGED <<received, closing>>

Refuse ==
  /\ offered' = offered + 1
  /\ closing' = TRUE
  /\ UNCHANGED <<queue, received>>

Deliver ==
  /\ queue # <<>>
  /\ queue' = Tail(queue)
  /\ received' = Append(received, Head(queue))
  /\ UNCHANGED <<offered, closing>>

Close ==
  /\ closing' = TRUE
  /\ UNCHANGED <<offered, queue, received>>

Lose ==
  /\ queue # <<>>
  /\ queue' = Tail(queue)
  /\ closing' = TRUE
  /\ UNCHANGED <<offered, received>>

Next == Accept \/ Refuse \/ Deliver \/ Close \/ Lose

Spec == Init /\ [][Next]_vars
=============================================================================
