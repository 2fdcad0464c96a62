--------------------------- MODULE OutboundProofs ---------------------------
(***************************************************************************)
(* Proofs about what leaves the server: the frames of one connection, for  *)
(* any capacity of the send channel and any number of frames (types, no    *)
(* silent gap, delivery of what was accepted before the close and the      *)
(* refinement of Delivery), and the notifications of Push, for any finite  *)
(* set of tokens and any batch size.                                       *)
(***************************************************************************)
EXTENDS ClientPump, Push, FiniteSetTheorems, SequenceTheorems, TLAPS

USE ZenonT(60)

----------------------------------------------------------------------------
(* One connection: the invariant *)

USE PumpAssumption

Writing == wpc \in {"write", "drainwrite"}

\* The last frame whose acceptance binds: calls of enqueue after the close
\* may be lost.
Binding == IF closed THEN closedAt ELSE offered

Accepted == (1..Binding) \ dropped

\* What has been written, is being written or waits.
Known == Range(delivered) \cup ({hand} \ {0}) \cup Range(send)

\* The goroutines: both pumps start together; only a writer holds a frame; the
\* writer drains and leaves only after the close, and the reader ends only when
\* the socket was closed by the writer or the link failed.
Control ==
  /\ rpc = "unstarted" <=> wpc = "unstarted"
  /\ hand # 0 <=> Writing
  /\ wpc \in {"drain", "drainwrite", "exit", "done"} => closed
  /\ rpc \in {"ended", "left"} => closed /\ (wpc = "done" \/ ~linkUp)
  /\ ctxDone => rpc = "left"
  /\ ~connOpen => wpc = "done"
  /\ ~closed => dropped = {}

\* On a working link nothing that was accepted disappears, and the writer does
\* not leave before it has written all of it.
NothingLost ==
  linkUp => /\ Accepted \subseteq Known
            /\ wpc \in {"exit", "done"} => Accepted \subseteq Range(delivered)

PumpInv == TypeOK /\ Control /\ NoSilentGap /\ NothingLost

----------------------------------------------------------------------------
(* One connection: sequences *)

\* Frames stay well typed when the numbers go up.
LEMMA SeqGrows ==
  ASSUME NEW n \in Nat, NEW s \in Seq(1..n)
  PROVE  s \in Seq(1..(n + 1))
<1>1. 1..n \subseteq 1..(n + 1)
  BY SMTT(30)
<1> QED
  BY <1>1, SeqMonotonic

LEMMA RangeAppend ==
  ASSUME NEW S, NEW s \in Seq(S), NEW x \in S
  PROVE  Range(Append(s, x)) = Range(s) \cup {x}
<1>1. Append(s, x) = s \o <<x>> /\ <<x>> \in Seq(S)
  BY SMTT(30), AppendIsConcat
<1>2. Range(<<x>>) = {x}
  BY SMTT(30) DEF Range
<1>3. Range(s \o <<x>>) = Range(s) \cup Range(<<x>>)
  BY <1>1, RangeConcatenation
<1> QED
  BY <1>1, <1>2, <1>3

LEMMA HeadThenTail ==
  ASSUME NEW S, NEW s \in Seq(S), s # <<>>
  PROVE  /\ Head(s) \in S /\ Tail(s) \in Seq(S) /\ Len(Tail(s)) = Len(s) - 1
         /\ s = <<Head(s)>> \o Tail(s)
         /\ Range(s) = {Head(s)} \cup Range(Tail(s))
<1>1. Head(s) \in S /\ Tail(s) \in Seq(S) /\ Len(Tail(s)) = Len(s) - 1
  BY HeadTailProperties
<1>2. s = <<Head(s)>> \o Tail(s)
  BY SMTT(30), <1>1
<1>3. Range(<<Head(s)>>) = {Head(s)}
  BY SMTT(30) DEF Range
<1>4. <<Head(s)>> \in Seq(S)
  BY SMTT(30), <1>1
<1>5. Range(<<Head(s)>> \o Tail(s)) = {Head(s)} \cup Range(Tail(s))
  <2>1. Range(<<Head(s)>> \o Tail(s)) = Range(<<Head(s)>>) \cup Range(Tail(s))
    <3>1. PICK h, t : h = <<Head(s)>> /\ t = Tail(s)
      OBVIOUS
    <3>2. h \in Seq(S) /\ t \in Seq(S)
      BY <1>1, <1>4, <3>1
    <3>3. Range(h \o t) = Range(h) \cup Range(t)
      BY <3>2, RangeConcatenation
    <3> QED
      BY <3>1, <3>3
  <2> QED
    BY <2>1, <1>3
<1> QED
  BY <1>1, <1>2, <1>5

\* Moving the head of one sequence to the end of another keeps their concatenation.
LEMMA HeadMoves ==
  ASSUME NEW S, NEW d \in Seq(S), NEW q \in Seq(S), q # <<>>
  PROVE  Append(d, Head(q)) \o Tail(q) = d \o q
<1>1. Head(q) \in S /\ Tail(q) \in Seq(S) /\ q = <<Head(q)>> \o Tail(q)
  BY HeadThenTail
<1>2. PICK x \in S : x = Head(q)
  BY <1>1
<1>3. PICK t \in Seq(S) : t = Tail(q)
  BY <1>1
<1>4. <<x>> \in Seq(S) /\ Append(d, x) = d \o <<x>>
  BY SMTT(30), AppendIsConcat
<1>5. (d \o <<x>>) \o t = d \o (<<x>> \o t)
  BY SMTT(30), <1>4, ConcatAssociative
<1> QED
  BY <1>1, <1>2, <1>3, <1>4, <1>5

----------------------------------------------------------------------------
(* One connection: types *)

LEMMA TypeInit == Init => TypeOK
<1> SUFFICES ASSUME Init PROVE TypeOK
  OBVIOUS
<1>1. /\ send \in Seq(1..offered) /\ Len(send) <= SendBuffer
      /\ delivered \in Seq(1..offered)
  BY SMTT(30), EmptySeq DEF Init
<1>2. /\ hand \in 0..offered /\ offered \in 0..MaxFrames
      /\ closedAt \in 0..offered /\ terminal \in 0..offered
  BY SMTT(30) DEF Init
<1> QED
  BY <1>1, <1>2 DEF Init, TypeOK

\* What enqueue changes.
LEMMA EnqueueType ==
  ASSUME TypeOK, EnqueueFrame
  PROVE  /\ offered' = offered + 1 /\ offered' \in 0..MaxFrames
         /\ send' \in Seq(1..offered') /\ Len(send') <= SendBuffer
         /\ closed' \in BOOLEAN /\ closedAt' \in 0..offered'
         /\ dropped' \subseteq 1..offered'
         /\ delivered \in Seq(1..offered')
         /\ hand \in 0..offered' /\ terminal \in 0..offered'
<1>1. /\ offered \in Nat /\ offered' = offered + 1 /\ offered' \in 0..MaxFrames
      /\ offered' \in 1..offered'
  BY SMTT(30) DEF TypeOK, EnqueueFrame
<1>2. send \in Seq(1..offered') /\ delivered \in Seq(1..offered')
  BY <1>1, SeqGrows DEF TypeOK
<1>3. hand \in 0..offered' /\ terminal \in 0..offered' /\ closedAt \in 0..offered'
  BY SMTT(30), <1>1 DEF TypeOK
<1>4. CASE HasRoom /\ send' = Append(send, offered') /\ StaysOpen /\ UNCHANGED dropped
  <2>1. send' \in Seq(1..offered') /\ Len(send') = Len(send) + 1
    BY <1>1, <1>2, <1>4, AppendProperties
  <2>2. Len(send') <= SendBuffer
    BY SMTT(30), <1>2, <1>4, <2>1 DEF HasRoom
  <2>3. dropped' \subseteq 1..offered'
    BY SMTT(30), <1>1, <1>4 DEF TypeOK
  <2> QED
    BY <1>1, <1>2, <1>3, <1>4, <2>1, <2>2, <2>3 DEF StaysOpen, TypeOK
<1>5. CASE Overflow
  <2>1. dropped' \subseteq 1..offered'
    BY SMTT(30), <1>1, <1>5 DEF TypeOK, Overflow
  <2>2. closed' \in BOOLEAN /\ closedAt' \in 0..offered'
    BY SMTT(30), <1>1, <1>3, <1>5 DEF Overflow, CloseAfter
  <2> QED
    BY <1>1, <1>2, <1>3, <1>5, <2>1, <2>2 DEF Overflow, TypeOK
<1> QED
  BY <1>4, <1>5 DEF EnqueueFrame

LEMMA TakeType ==
  ASSUME TypeOK, Take
  PROVE  /\ hand' \in 1..offered /\ hand' = Head(send)
         /\ send' \in Seq(1..offered) /\ Len(send') <= SendBuffer
         /\ send = <<hand'>> \o send' /\ Range(send) = {hand'} \cup Range(send')
<1>1. send \in Seq(1..offered) /\ send # <<>> /\ hand' = Head(send) /\ send' = Tail(send)
  BY DEF Take, TypeOK
<1>2. /\ Head(send) \in 1..offered /\ Tail(send) \in Seq(1..offered)
      /\ Len(Tail(send)) = Len(send) - 1
      /\ send = <<Head(send)>> \o Tail(send)
      /\ Range(send) = {Head(send)} \cup Range(Tail(send))
  BY <1>1, HeadThenTail
<1>3. Len(send') <= SendBuffer
  BY SMTT(30), <1>1, <1>2 DEF TypeOK
<1> QED
  BY <1>1, <1>2, <1>3

LEMMA SenderType ==
  ASSUME TypeOK, Enqueue \/ Disconnect \/ EvictSend \/ EvictClose \/ LinkFails
  PROVE  TypeOK'
<1>1. CASE Enqueue
  BY SMTT(30), <1>1, EnqueueType DEF Enqueue, TypeOK, pumps, wire
<1>2. CASE EvictSend
  <2>1. terminal' \in 0..offered'
    BY SMTT(30), <1>2, EnqueueType DEF EvictSend
  <2> QED
    BY <1>2, <2>1, EnqueueType DEF EvictSend, TypeOK, pumps, wire
<1>3. CASE Disconnect
  BY SMTT(30), <1>3 DEF Disconnect, CloseAfter, TypeOK, pumps, wire
<1>4. CASE EvictClose
  BY SMTT(30), <1>4 DEF EvictClose, CloseAfter, TypeOK, pumps, wire
<1>5. CASE LinkFails
  BY <1>5 DEF LinkFails, TypeOK, pumps, history
<1> QED
  BY <1>1, <1>2, <1>3, <1>4, <1>5

LEMMA WriterType ==
  ASSUME TypeOK, Control, Writer
  PROVE  TypeOK'
<1>1. CASE SelectDone \/ SelectClosed \/ SelectPing \/ PingOk \/ DrainEmpty
  BY <1>1 DEF SelectDone, SelectClosed, SelectPing, PingOk, DrainEmpty, WriterGoes,
              QuietWriter, TypeOK, wire, history
<1>2. CASE SelectSend \/ DrainTake
  <2>1. Take
    BY <1>2 DEF SelectSend, DrainTake
  <2>2. hand' \in 0..offered
    BY SMTT(30), <2>1, TakeType DEF TypeOK
  <2> QED
    BY SMTT(30), <1>2, <2>1, <2>2, TakeType
    DEF SelectSend, DrainTake, WriterGoes, Take, TypeOK, wire, history
<1>3. CASE WriteOk
  <2>1. hand \in 1..offered
    BY SMTT(30), <1>3 DEF WriteOk, WriterGoes, Control, Writing, TypeOK
  <2>2. delivered' \in Seq(1..offered)
    BY <1>3, <2>1, AppendProperties DEF WriteOk, TypeOK
  <2> QED
    BY SMTT(30), <1>3, <2>2 DEF WriteOk, WriterGoes, TypeOK, wire
<1>4. CASE WriteFails
  BY SMTT(30), <1>4 DEF WriteFails, CloseAfter, WriterGoes, TypeOK, wire
<1>5. CASE PingFails
  BY SMTT(30), <1>5 DEF PingFails, CloseAfter, WriterGoes, TypeOK, wire
<1>6. CASE Shutdown
  BY <1>6 DEF Shutdown, WriterGoes, TypeOK, history
<1> QED
  BY <1>1, <1>2, <1>3, <1>4, <1>5, <1>6 DEF Writer

LEMMA ReaderType ==
  ASSUME TypeOK, Reader
  PROVE  TypeOK'
<1>1. CASE StartPumps
  BY <1>1 DEF StartPumps, TypeOK, wire, history
<1>2. CASE ReadFails
  BY SMTT(30), <1>2 DEF ReadFails, CloseAfter, TypeOK, wire
<1>3. CASE Cancel
  BY <1>3 DEF Cancel, TypeOK, wire, history
<1> QED
  BY <1>1, <1>2, <1>3 DEF Reader

----------------------------------------------------------------------------
(* One connection: control *)

LEMMA ControlInit == Init => Control
  BY DEF Init, Control, Writing

LEMMA ControlStep ==
  ASSUME TypeOK, Control, Next
  PROVE  Control'
<1>1. CASE EnqueueFrame /\ UNCHANGED <<hand, pumps, wire>>
  BY SMTT(30), <1>1 DEF EnqueueFrame, Overflow, CloseAfter, StaysOpen, Control, Writing, pumps, wire
<1>2. CASE Disconnect
  BY <1>2 DEF Disconnect, CloseAfter, Control, Writing, pumps, wire
<1>3. CASE EvictClose
  BY <1>3 DEF EvictClose, CloseAfter, Control, Writing, pumps, wire
<1>4. CASE LinkFails
  BY <1>4 DEF LinkFails, Control, Writing, pumps, history
<1>5. CASE SelectDone
  BY <1>5 DEF SelectDone, WriterGoes, QuietWriter, Control, Writing, wire, history
<1>6. CASE SelectClosed
  BY <1>6 DEF SelectClosed, WriterGoes, QuietWriter, Control, Writing, wire, history
<1>7. CASE SelectPing \/ PingOk
  BY SMTT(30), <1>7 DEF SelectPing, PingOk, WriterGoes, QuietWriter, Control, Writing, wire, history
<1>8. CASE SelectSend \/ DrainTake
  <2>1. hand' # 0 /\ Take
    BY SMTT(30), <1>8, TakeType DEF SelectSend, DrainTake, TypeOK
  <2> QED
    BY <1>8, <2>1 DEF SelectSend, DrainTake, Take, WriterGoes, Control, Writing, wire, history
<1>9. CASE WriteOk
  BY <1>9 DEF WriteOk, WriterGoes, Control, Writing, wire
<1>10. CASE WriteFails
  BY <1>10 DEF WriteFails, CloseAfter, WriterGoes, Control, Writing, wire
<1>11. CASE PingFails
  BY <1>11 DEF PingFails, CloseAfter, WriterGoes, Control, Writing, wire
<1>12. CASE DrainEmpty
  BY <1>12 DEF DrainEmpty, WriterGoes, QuietWriter, Control, Writing, wire, history
<1>13. CASE Shutdown
  BY <1>13 DEF Shutdown, WriterGoes, Control, Writing, history
<1>14. CASE StartPumps
  BY <1>14 DEF StartPumps, TypeOK, Control, Writing, wire, history
<1>15. CASE ReadFails
  BY <1>15 DEF ReadFails, CloseAfter, Control, Writing, wire
<1>16. CASE Cancel
  BY <1>16 DEF Cancel, Control, Writing, wire, history
<1>17. CASE Terminating
  BY <1>17 DEF Terminating, vars, pumps, wire, history, Control, Writing
<1> QED
  BY <1>1, <1>2, <1>3, <1>4, <1>5, <1>6, <1>7, <1>8, <1>9, <1>10, <1>11, <1>12, <1>13,
     <1>14, <1>15, <1>16, <1>17 DEF Next, Enqueue, EvictSend, Writer, Reader

----------------------------------------------------------------------------
(* One connection: refinement of Delivery *)

\* A frame that writePump or drainSend takes stays in flight.
LEMMA TakeKeepsInFlight ==
  ASSUME TypeOK, Control, SelectSend \/ DrainTake
  PROVE  InFlight' = InFlight
<1>1. Take /\ hand = 0
  BY DEF SelectSend, DrainTake, WriterGoes, Control, Writing
<1>2. send = <<hand'>> \o send' /\ hand' # 0 /\ send \in Seq(1..offered)
  BY SMTT(30), <1>1, TakeType DEF TypeOK
<1>3. InFlight = send
  BY SMTT(30), <1>1, <1>2 DEF InFlight
<1>4. InFlight' = <<hand'>> \o send'
  BY <1>2 DEF InFlight
<1> QED
  BY <1>2, <1>3, <1>4

\* The frame in the writer's hand is the oldest in flight.
LEMMA HandIsFirst ==
  ASSUME TypeOK, Control, Writing, hand' = 0, send' = send
  PROVE  /\ InFlight # <<>> /\ Head(InFlight) = hand
         /\ InFlight' = Tail(InFlight)
<1>1. hand \in 1..offered /\ send \in Seq(1..offered)
  BY SMTT(30) DEF Control, TypeOK
<1>2. InFlight = <<hand>> \o send
  BY SMTT(30), <1>1 DEF InFlight
<1>3. InFlight' = send
  BY SMTT(30), <1>1 DEF InFlight
<1> QED
  BY SMTT(30), <1>1, <1>2, <1>3

LEMMA AcceptJoinsInFlight ==
  ASSUME TypeOK, hand' = hand, offered' = offered + 1, send' = Append(send, offered')
  PROVE  InFlight' = Append(InFlight, offered')
<1>1. send \in Seq(Nat) /\ hand \in Nat /\ offered' \in Nat
  BY SMTT(30), SeqMonotonic DEF TypeOK
<1>2. CASE hand = 0
  BY SMTT(30), <1>1, <1>2 DEF InFlight
<1>3. CASE hand # 0
  BY SMTT(30), <1>1, <1>3 DEF InFlight
<1> QED
  BY <1>2, <1>3

\* Every step of the connection is a step of the channel, or none.
LEMMA StepRefines ==
  ASSUME TypeOK, Control, Next
  PROVE  [Channel!Next]_Channel!vars
<1> USE DEF Channel!Next, Channel!vars
<1>1. CASE EnqueueFrame /\ UNCHANGED <<hand, delivered>>
  <2>1. CASE HasRoom /\ send' = Append(send, offered') /\ StaysOpen /\ UNCHANGED dropped
    <3>1. InFlight' = Append(InFlight, offered')
      BY <1>1, <2>1, AcceptJoinsInFlight DEF EnqueueFrame
    <3> QED
      BY <1>1, <2>1, <3>1 DEF EnqueueFrame, StaysOpen, Channel!Accept
  <2>2. CASE Overflow
    BY <1>1, <2>2 DEF EnqueueFrame, Overflow, CloseAfter, InFlight, Channel!Refuse
  <2> QED
    BY <1>1, <2>1, <2>2 DEF EnqueueFrame
<1>2. CASE Disconnect \/ EvictClose \/ PingFails \/ ReadFails
  <2>1. closed' = TRUE /\ UNCHANGED <<offered, send, hand, delivered>>
    BY <1>2 DEF Disconnect, EvictClose, PingFails, ReadFails, CloseAfter
  <2> QED
    BY <2>1 DEF InFlight, Channel!Close
<1>3. CASE SelectSend \/ DrainTake
  <2>1. InFlight' = InFlight
    BY <1>3, TakeKeepsInFlight
  <2> QED
    BY <1>3, <2>1 DEF SelectSend, DrainTake, Take, history
<1>4. CASE WriteOk
  <2>1. Writing /\ hand' = 0 /\ send' = send
    BY <1>4 DEF WriteOk, WriterGoes, Writing
  <2> QED
    BY <1>4, <2>1, HandIsFirst DEF WriteOk, Channel!Deliver
<1>5. CASE WriteFails
  <2>1. Writing /\ hand' = 0 /\ send' = send /\ closed' = TRUE
    BY <1>5 DEF WriteFails, WriterGoes, Writing, CloseAfter
  <2> QED
    BY <1>5, <2>1, HandIsFirst DEF WriteFails, Channel!Lose
<1>6. CASE \/ LinkFails \/ SelectDone \/ SelectClosed \/ SelectPing \/ PingOk \/ DrainEmpty
           \/ Shutdown \/ StartPumps \/ Cancel \/ Terminating
  <2>1. UNCHANGED <<offered, send, hand, delivered, closed>>
    BY <1>6 DEF LinkFails, SelectDone, SelectClosed, SelectPing, PingOk, DrainEmpty, Shutdown,
                StartPumps, Cancel, Terminating, QuietWriter, history, vars
  <2> QED
    BY <2>1 DEF InFlight
<1> QED
  BY <1>1, <1>2, <1>3, <1>4, <1>5, <1>6 DEF Next, Enqueue, EvictSend, Writer, Reader

----------------------------------------------------------------------------
(* One connection: no silent gap *)

\* The channel of Delivery has no gap before it closes.
LEMMA GapStep ==
  ASSUME TypeOK, NoSilentGap, [Channel!Next]_Channel!vars
  PROVE  NoSilentGap'
<1>1. /\ offered \in Nat /\ delivered \in Seq(Nat) /\ InFlight \in Seq(Nat)
  <2>1. hand \in Nat /\ offered \in Nat /\ send \in Seq(Nat) /\ delivered \in Seq(Nat)
    BY SMTT(30), SeqMonotonic DEF TypeOK
  <2> QED
    BY SMTT(30), <2>1 DEF InFlight
<1>2. CASE Channel!Accept
  <2>1. delivered' \o InFlight' = Append(delivered \o InFlight, offered')
    BY SMTT(30), <1>1, <1>2 DEF Channel!Accept
  <2>2. Append([n \in 1..offered |-> n], offered') = [n \in 1..offered' |-> n]
    BY SMTT(30), <1>1, <1>2 DEF Channel!Accept
  <2> QED
    BY <1>2, <2>1, <2>2 DEF NoSilentGap, Channel!Accept
<1>3. CASE Channel!Deliver
  <2>1. delivered' \o InFlight' = delivered \o InFlight
    BY <1>1, <1>3, HeadMoves DEF Channel!Deliver
  <2> QED
    BY <1>3, <2>1 DEF NoSilentGap, Channel!Deliver
<1>4. CASE Channel!Refuse \/ Channel!Close \/ Channel!Lose
  BY <1>4 DEF NoSilentGap, Channel!Refuse, Channel!Close, Channel!Lose
<1>5. CASE UNCHANGED Channel!vars
  BY <1>5 DEF NoSilentGap, Channel!vars
<1> QED
  BY <1>2, <1>3, <1>4, <1>5 DEF Channel!Next

----------------------------------------------------------------------------
(* One connection: delivery of what was accepted *)

\* While the link works and the writer is not done, writes and pings succeed.
LEMMA WireHolds ==
  ASSUME TypeOK, Control, linkUp, wpc # "done"
  PROVE  ~ctxDone /\ ~WireFail
  BY DEF Control, WireFail

LEMMA BindingKept ==
  ASSUME UNCHANGED <<offered, dropped>>, CloseAfter(offered) \/ UNCHANGED <<closed, closedAt>>
  PROVE  Accepted' = Accepted
  BY SMTT(30) DEF CloseAfter, Accepted, Binding

LEMMA EnqueueLosesNothing ==
  ASSUME TypeOK, Control, NothingLost, EnqueueFrame,
         UNCHANGED <<hand, pumps, wire, delivered>>
  PROVE  NothingLost'
<1>1. /\ offered \in Nat /\ offered' = offered + 1 /\ closedAt \in 0..offered
      /\ send \in Seq(Nat) /\ delivered \in Seq(Nat)
  BY SMTT(30), SeqMonotonic DEF TypeOK, EnqueueFrame
<1>2. CASE HasRoom /\ send' = Append(send, offered') /\ StaysOpen /\ UNCHANGED dropped
  <2>1. Range(send') = Range(send) \cup {offered'}
    <3>1. offered' \in Nat
      BY SMTT(30), <1>1
    <3>2. send \in Seq(Nat) /\ send' = Append(send, offered')
      BY <1>1, <1>2
    <3>3. Range(Append(send, offered')) = Range(send) \cup {offered'}
      BY <3>1, <3>2, RangeAppend
    <3> QED
      BY <3>2, <3>3
  <2>2. Known' = Known \cup {offered'}
    BY <2>1 DEF Known
  <2>3. CASE closed
    <3>1. Accepted' = Accepted
      BY <1>2, <2>3 DEF Accepted, Binding, StaysOpen
    <3> QED
      BY <2>2, <3>1 DEF NothingLost, pumps, wire
  <2>4. CASE ~closed
    <3>1. Accepted' \subseteq Accepted \cup {offered'}
      BY SMTT(30), <1>1, <1>2, <2>4 DEF Accepted, Binding, StaysOpen
    <3>2. wpc \notin {"exit", "done"}
      BY <2>4 DEF Control
    <3> QED
      BY <2>2, <3>1, <3>2 DEF NothingLost, pumps, wire
  <2> QED
    BY <2>3, <2>4
<1>3. CASE Overflow
  <2>1. Known' = Known
    BY <1>3 DEF Known, Overflow
  <2>2. Accepted' \subseteq Accepted
    <3>1. dropped' = dropped \cup {offered'} /\ Binding' \in {Binding, offered'}
      BY <1>3 DEF Binding, Overflow, CloseAfter
    <3>2. Binding \in 0..offered /\ (Binding' = offered' => Binding = offered)
      BY SMTT(30), <1>1, <1>3 DEF Binding, Overflow, CloseAfter
    <3> QED
      BY SMTT(30), <1>1, <3>1, <3>2 DEF Accepted
  <2> QED
    BY <2>1, <2>2 DEF NothingLost, pumps, wire
<1> QED
  BY <1>2, <1>3 DEF EnqueueFrame

LEMMA LostStep ==
  ASSUME TypeOK, Control, NothingLost, Next
  PROVE  NothingLost'
<1>1. CASE EnqueueFrame /\ UNCHANGED <<hand, pumps, wire, delivered>>
  BY <1>1, EnqueueLosesNothing
<1>2. CASE LinkFails
  BY <1>2 DEF LinkFails, NothingLost
<1>3. CASE \/ Disconnect \/ EvictClose \/ StartPumps \/ ReadFails \/ Cancel \/ Terminating
           \/ SelectClosed \/ SelectPing \/ PingOk \/ Shutdown
  <2>1. /\ UNCHANGED <<offered, dropped, delivered, send, hand, linkUp>>
        /\ CloseAfter(offered) \/ UNCHANGED <<closed, closedAt>>
        /\ wpc' \in {"exit", "done"} => wpc \in {"exit", "done"}
    BY <1>3 DEF Disconnect, EvictClose, StartPumps, ReadFails, Cancel, Terminating, SelectClosed,
                SelectPing, PingOk, Shutdown, WriterGoes, QuietWriter, vars, pumps, wire, history
  <2> QED
    BY <2>1, BindingKept DEF NothingLost, Known
<1>4. CASE SelectDone \/ WriteFails \/ PingFails
  <2>1. ~linkUp /\ linkUp' = linkUp
    BY <1>4, WireHolds DEF SelectDone, WriteFails, PingFails, WriterGoes, QuietWriter, wire
  <2> QED
    BY <2>1 DEF NothingLost
<1>5. CASE SelectSend \/ DrainTake
  <2>1. Take /\ hand = 0 /\ wpc' \notin {"exit", "done"}
    BY <1>5 DEF SelectSend, DrainTake, WriterGoes, Control, Writing
  <2>2. Known' = Known
    <3>1. hand' # 0 /\ Range(send) = {hand'} \cup Range(send') /\ delivered' = delivered
      BY SMTT(30), <2>1, TakeType DEF Take, history, TypeOK
    <3> QED
      BY <2>1, <3>1 DEF Known
  <2>3. Accepted' = Accepted
    BY <2>1, BindingKept DEF Take, history
  <2> QED
    BY <2>1, <2>2, <2>3 DEF NothingLost, Take, wire
<1>6. CASE WriteOk
  <2>1. hand \in 1..offered /\ hand' = 0 /\ send' = send /\ wpc' \notin {"exit", "done"}
    BY SMTT(30), <1>6 DEF WriteOk, WriterGoes, Control, Writing, TypeOK
  <2>2. Range(delivered') = Range(delivered) \cup {hand}
    <3>1. PICK S : S = 1..offered
      OBVIOUS
    <3>2. delivered \in Seq(S) /\ delivered' = Append(delivered, hand)
      BY <1>6, <3>1 DEF WriteOk, TypeOK
    <3>3. hand \in S
      BY <2>1, <3>1
    <3>4. Range(Append(delivered, hand)) = Range(delivered) \cup {hand}
      BY <3>2, <3>3, RangeAppend
    <3> QED
      BY <3>2, <3>4
  <2>3. Known' = Known
    BY SMTT(30), <2>1, <2>2 DEF Known
  <2>4. Accepted' = Accepted
    BY <1>6, BindingKept DEF WriteOk
  <2> QED
    BY <1>6, <2>1, <2>3, <2>4 DEF NothingLost, WriteOk, wire
<1>7. CASE DrainEmpty
  <2>1. /\ send = <<>> /\ hand = 0
        /\ UNCHANGED <<offered, dropped, delivered, send, hand, linkUp, closed, closedAt>>
    BY <1>7 DEF DrainEmpty, WriterGoes, QuietWriter, Control, Writing, wire, history
  <2>2. Known = Range(delivered) /\ Known' = Known
    <3>1. Range(<<>>) = {}
      BY SMTT(30) DEF Range
    <3> QED
      BY <2>1, <3>1 DEF Known
  <2>3. Accepted' = Accepted
    BY <2>1, BindingKept
  <2> QED
    BY <2>1, <2>2, <2>3 DEF NothingLost
<1> QED
  BY <1>1, <1>2, <1>3, <1>4, <1>5, <1>6, <1>7 DEF Next, Enqueue, EvictSend, Writer, Reader

----------------------------------------------------------------------------
(* One connection: theorems *)

LEMMA PumpInvInit == Init => PumpInv
<1> SUFFICES ASSUME Init PROVE PumpInv
  OBVIOUS
<1>1. TypeOK /\ Control
  BY TypeInit, ControlInit
<1>2. NoSilentGap
  <2>1. InFlight = <<>> /\ delivered = <<>> /\ offered = 0
    BY SMTT(30) DEF Init, InFlight
  <2>2. [n \in 1..0 |-> n] = <<>>
    BY SMTT(30)
  <2> QED
    BY SMTT(30), <2>1, <2>2 DEF NoSilentGap
<1>3. NothingLost
  <2>1. Accepted = {}
    BY SMTT(30) DEF Init, Accepted, Binding
  <2> QED
    BY <2>1 DEF NothingLost
<1> QED
  BY <1>1, <1>2, <1>3 DEF PumpInv

LEMMA PumpInvStep == PumpInv /\ [Next]_vars => PumpInv'
<1> SUFFICES ASSUME PumpInv, [Next]_vars PROVE PumpInv'
  OBVIOUS
<1>1. CASE Next
  <2>1. TypeOK'
    <3>1. CASE Terminating
      BY <3>1 DEF Terminating, vars, pumps, wire, history, TypeOK, PumpInv
    <3> QED
      BY <1>1, <3>1, SenderType, WriterType, ReaderType DEF Next, PumpInv
  <2>2. Control'
    BY <1>1, ControlStep DEF PumpInv
  <2>3. NoSilentGap'
    BY <1>1, StepRefines, GapStep DEF PumpInv
  <2>4. NothingLost'
    BY <1>1, LostStep DEF PumpInv
  <2> QED
    BY <2>1, <2>2, <2>3, <2>4 DEF PumpInv
<1>2. CASE UNCHANGED vars
  <2>1. UNCHANGED <<send, closed, hand, wpc, rpc, ctxDone, connOpen, linkUp, kpc,
                    offered, dropped, delivered, closedAt, terminal>>
    BY <1>2 DEF vars, pumps, wire, history
  <2>2. TypeOK' /\ Control'
    BY <2>1 DEF PumpInv, TypeOK, Control, Writing
  <2>3. NoSilentGap' /\ NothingLost'
    BY <2>1 DEF PumpInv, NoSilentGap, InFlight, NothingLost, Known, Accepted, Binding
  <2> QED
    BY <2>2, <2>3 DEF PumpInv
<1> QED
  BY <1>1, <1>2

\* The inductive invariant of the connection.
LEMMA PumpInvariant == Spec => []PumpInv
<1>1. Init => PumpInv
  BY PumpInvInit
<1>2. PumpInv /\ [Next]_vars => PumpInv'
  BY PumpInvStep
<1> QED
  BY <1>1, <1>2, PTL DEF Spec

\* client.send never holds more than sendBuffer frames, whoever enqueues and
\* however slow the peer is, and the state of the goroutines stays well formed.
THEOREM PumpTypes == Spec => []TypeOK
<1>1. PumpInv => TypeOK
  BY DEF PumpInv
<1> QED
  BY <1>1, PumpInvariant, PTL

\* Until the connection is told to close, what the peer has received, the frame
\* in the hand of writePump and the channel are, in order, exactly the frames
\* that enqueue was called with: a slow client is closed, never skipped.
THEOREM PumpNoSilentGap == Spec => []NoSilentGap
<1>1. PumpInv => NoSilentGap
  BY DEF PumpInv
<1> QED
  BY <1>1, PumpInvariant, PTL

\* drainSend keeps its promise: when writePump has left on a working link, each
\* frame accepted before the close has been written, wherever the goroutines
\* were when it closed.
THEOREM PumpDelivers == Spec => []AcceptedBeforeCloseDelivered
<1>1. PumpInv => AcceptedBeforeCloseDelivered
  BY DEF PumpInv, NothingLost, Control, Accepted, Binding, AcceptedBeforeCloseDelivered
<1> QED
  BY <1>1, PumpInvariant, PTL

\* The connection, with its goroutines, channel and link, implements the
\* abstract channel of Delivery.
THEOREM PumpRefines == Spec => ImplementsDelivery
<1>1. Init => Channel!Init
  BY SMTT(30) DEF Init, InFlight, Channel!Init
<1>2. PumpInv /\ [Next]_vars => [Channel!Next]_Channel!vars
  <2> SUFFICES ASSUME PumpInv, [Next]_vars PROVE [Channel!Next]_Channel!vars
    OBVIOUS
  <2>1. CASE Next
    BY <2>1, StepRefines DEF PumpInv
  <2>2. CASE UNCHANGED vars
    BY <2>2 DEF vars, history, InFlight, Channel!vars
  <2> QED
    BY <2>1, <2>2
<1> QED
  BY <1>1, <1>2, PumpInvariant, PTL DEF Spec, ImplementsDelivery, Channel!Spec

----------------------------------------------------------------------------
(***************************************************************************)
(* Push.  The invariant ties the loop of Client.Send to the list: what has *)
(* been handed to Expo is the part of the list before start, and as many   *)
(* messages have been counted, but for tickets left out or added.          *)
(***************************************************************************)

HIDE PumpAssumption

\* How much of the list the loop has passed.
Passed(x) == IF x.start > Len(x.list) THEN Len(x.list) ELSE x.start

NoRepeats(s) == \A i, j \in 1..Len(s) : s[i] = s[j] => i = j

JobInv(x) ==
  /\ NoRepeats(x.list)
  /\ x.delivered + x.failed + x.gap = Passed(x)
  /\ x.handed = SubSeq(x.list, 1, Passed(x))
  /\ x.pc = "idle" => x.invalid = {}
  /\ x.pc \in {"prune", "insert"} => x.start >= Len(x.list)

PushInv ==
  /\ PushTypeOK
  /\ JobInv(job)
  /\ RecordsAddUp
  /\ PrunedTokensAreDead

\* AllTokens returns every row once.
LEMMA ListingLists ==
  ASSUME NEW T \in SUBSET Token
  PROVE  Listing(T) \in Seq(Token) /\ NoRepeats(Listing(T))
<1> DEFINE n == Cardinality(T)
           Good(f) == \A i, j \in DOMAIN f : f[i] = f[j] => i = j
<1>1. IsFiniteSet(T)
  BY PushAssumption, FS_Subset
<1>2. n \in Nat /\ ExistsBijection(1..n, T)
  BY <1>1, FS_CardinalityType
<1>3. \E f \in [1..n -> T] : Good(f)
  BY <1>2 DEF ExistsBijection, Bijection, Injection, IsInjective
<1>4. Listing(T) \in [1..n -> T] /\ Good(Listing(T))
  BY <1>3 DEF Listing
<1>5. Listing(T) \in [1..n -> Token]
  BY <1>4
<1>6. Listing(T) \in Seq(Token) /\ Len(Listing(T)) = n
  BY SMTT(30), <1>2, <1>5
<1> QED
  BY <1>4, <1>6 DEF NoRepeats

LEMMA NoJobInv == NoJob \in Job /\ JobInv(NoJob)
<1>1. NoJob \in Job
  BY SMTT(30) DEF NoJob, Job
<1>2. SubSeq(NoJob.list, 1, 0) = <<>>
  BY SMTT(30), SubSeqEmpty
<1> QED
  BY SMTT(30), <1>1, <1>2 DEF JobInv, NoRepeats, Passed, NoJob

LEMMA PushInitInv == PushInit => PushInv
  BY SMTT(30), NoJobInv
  DEF PushInit, PushInv, PushTypeOK, RecordsAddUp, PrunedTokensAreDead, NoRow, NoJob

LEMMA BatchType ==
  ASSUME job \in Job, job.start < Len(job.list)
  PROVE  /\ Batch \in Seq(Token)
         /\ Len(Batch) = BatchEnd - job.start /\ Len(Batch) \in Nat
         /\ BatchEnd \in job.start..Len(job.list) /\ NextStart \in Nat
         /\ BatchEnd = IF NextStart > Len(job.list) THEN Len(job.list) ELSE NextStart
<1> DEFINE a == job.start + 1
<1>1. /\ job.start \in Nat /\ job.list \in Seq(Token) /\ Len(job.list) \in Nat
      /\ expoBatchSize \in Nat \ {0}
  BY SMTT(30), PushAssumption DEF Job
<1>2. /\ BatchEnd \in job.start..Len(job.list) /\ NextStart \in Nat
      /\ BatchEnd = IF NextStart > Len(job.list) THEN Len(job.list) ELSE NextStart
  BY SMTT(30), <1>1 DEF BatchEnd, NextStart
<1>3. a \in Int /\ BatchEnd \in Int /\ a - 1 <= BatchEnd
  BY SMTT(30), <1>1, <1>2
<1>4. Batch = SubSeq(job.list, a, BatchEnd) /\ \A i \in a..BatchEnd : job.list[i] \in Token
  BY SMTT(30), <1>1, <1>2 DEF Batch
<1> HIDE DEF a
<1>5. Batch \in Seq(Token) /\ Len(Batch) = IF a <= BatchEnd THEN BatchEnd - a + 1 ELSE 0
  BY SMTT(30), <1>3, <1>4, SubSeqProperties
<1> QED
  BY SMTT(30), <1>1, <1>2, <1>3, <1>5 DEF a

LEMMA CountStep ==
  ASSUME NEW d \in Nat, NEW f \in Nat, NEW a \in Int, NEW g \in Nat, NEW b \in Nat, NEW m \in Int
  PROVE  (d + g) + (f + b) + (a + m) = (d + f + a) + (g + b + m)
  BY SMTT(30)

\* One round of the loop: a non-empty batch joins what was handed over, and
\* its messages are counted.
LEMMA BatchStep ==
  ASSUME PushInv, job.pc = "send", job.start < Len(job.list),
         NEW good \in Nat, NEW bad \in Nat, NEW miss \in Int,
         good + bad + miss = Len(Batch), NEW odd \in SUBSET Token,
         NEW inv \in SUBSET Token, inv \subseteq dead \cup job.invalid \cup odd,
         job' \in Job, job'.pc = job.pc, job'.list = job.list, job'.start = NextStart,
         job'.handed = job.handed \o Batch, job'.delivered = job.delivered + good,
         job'.failed = job.failed + bad, job'.gap = job.gap + miss,
         job'.invalid = inv, job'.saved = job.saved, job'.unmatched = job.unmatched \cup odd,
         UNCHANGED <<tokens, dead, newest>>
  PROVE  PushInv'
<1> DEFINE n == Len(job.list)
<1>1. job \in Job /\ JobInv(job) /\ n \in Nat /\ expoBatchSize \in Nat \ {0}
  <2>1. job \in Job /\ JobInv(job)
    BY DEF PushInv, PushTypeOK
  <2>2. job.list \in Seq(Token)
    BY <2>1 DEF Job
  <2>3. n \in Nat
    BY <2>2, LenProperties
  <2> QED
    BY <2>1, <2>3, PushAssumption
<1>2. Passed(job) = job.start /\ job.start \in Nat /\ job.list \in Seq(Token)
  BY SMTT(30), <1>1 DEF Passed, Job
<1>3. BatchEnd \in job.start..n /\ NextStart \in Nat
      /\ BatchEnd = IF NextStart > n THEN n ELSE NextStart
  BY <1>1, BatchType
<1>4. Batch \in Seq(Token) /\ Len(Batch) = BatchEnd - job.start
  BY <1>1, BatchType
<1>5. job.handed \o Batch = SubSeq(job.list, 1, BatchEnd)
  <2> DEFINE l == job.list
             k == job.start
             e == BatchEnd
  <2>1. l \in Seq(Token) /\ 1 \in 1..Len(l) + 1 /\ k \in (1 - 1)..Len(l) /\ e \in k..Len(l)
    BY SMTT(30), <1>1, <1>2, <1>3
  <2>2. job.handed = SubSeq(l, 1, k) /\ Batch = SubSeq(l, k + 1, e)
    BY <1>1, <1>2 DEF Batch, JobInv
  <2> HIDE DEF l, k, e
  <2>3. SubSeq(l, 1, k) \o SubSeq(l, k + 1, e) = SubSeq(l, 1, e)
    BY <2>1, ConcatAdjacentSubSeq
  <2> QED
    BY <2>2, <2>3 DEF l, e
<1>6. Passed(job') = BatchEnd
  BY <1>3 DEF Passed
<1>7. JobInv(job')
  <2>1. job'.delivered + job'.failed + job'.gap = BatchEnd
    <3>1. job.delivered + job.failed + job.gap = job.start
      BY <1>1, <1>2 DEF JobInv
    <3>2. BatchEnd = job.start + (good + bad + miss)
      BY SMTT(30), <1>2, <1>3, <1>4
    <3>3. job.delivered \in Nat /\ job.failed \in Nat /\ job.gap \in Int
      BY <1>1 DEF Job
    <3>4. (job.delivered + good) + (job.failed + bad) + (job.gap + miss)
             = (job.delivered + job.failed + job.gap) + (good + bad + miss)
      BY SMTT(30), <3>3, CountStep
    <3>5. job'.delivered + job'.failed + job'.gap
             = (job.delivered + good) + (job.failed + bad) + (job.gap + miss)
      OBVIOUS
    <3>6. (job.delivered + job.failed + job.gap) + (good + bad + miss) = BatchEnd
      BY <3>1, <3>2
    <3> QED
      BY <3>4, <3>5, <3>6
  <2> QED
    BY <1>1, <1>5, <1>6, <2>1 DEF JobInv
<1>8. PrunedTokensAreDead'
  BY DEF PushInv, PrunedTokensAreDead
<1> QED
  BY <1>7, <1>8 DEF PushInv, PushTypeOK, RecordsAddUp

LEMMA SendFailsInv == PushInv /\ SendFails => PushInv'
<1> SUFFICES ASSUME PushInv, SendFails PROVE PushInv'
  OBVIOUS
<1>1. job \in Job /\ job.pc = "send" /\ job.start < Len(job.list)
  BY DEF PushInv, PushTypeOK, SendFails
<1>2. Len(Batch) \in Nat
  BY <1>1, BatchType
<1>3. /\ job.handed \in Seq(Token) /\ job.delivered \in Nat /\ job.failed \in Nat
      /\ job.invalid \in SUBSET Token /\ job.gap \in Int
  BY <1>1 DEF Job
<1>4. Batch \in Seq(Token) /\ NextStart \in Nat
  BY <1>1, BatchType
<1>5. /\ job' \in Job /\ job'.pc = job.pc /\ job'.list = job.list /\ job'.start = NextStart
      /\ job'.handed = job.handed \o Batch /\ job'.delivered = job.delivered
      /\ job'.failed = job.failed + Len(Batch) /\ job'.invalid = job.invalid
      /\ job'.saved = job.saved /\ job'.gap = job.gap /\ job'.unmatched = job.unmatched
  <2> DEFINE h == job.handed \o Batch
             f == job.failed + Len(Batch)
  <2>1. h \in Seq(Token) /\ f \in Nat
    BY SMTT(30), <1>2, <1>3, <1>4
  <2>2. job' = [job EXCEPT !.start = NextStart, !.handed = h, !.failed = f]
    BY DEF SendFails
  <2> HIDE DEF h, f
  <2>3. /\ job'.pc = job.pc /\ job'.list = job.list /\ job'.start = NextStart
        /\ job'.handed = h /\ job'.delivered = job.delivered /\ job'.failed = f
        /\ job'.invalid = job.invalid /\ job'.saved = job.saved
        /\ job'.gap = job.gap /\ job'.unmatched = job.unmatched
    BY <1>1, <2>2 DEF Job
  <2>4. job' \in Job
    BY <1>1, <1>4, <2>1, <2>2 DEF Job
  <2> QED
    BY <2>3, <2>4 DEF h, f
<1>6. /\ job'.delivered = job.delivered + 0 /\ job'.gap = job.gap + 0
      /\ 0 + Len(Batch) + 0 = Len(Batch) /\ 0 \in Nat /\ 0 \in Int
  BY SMTT(30), <1>2, <1>3, <1>5
<1>7. job'.unmatched = job.unmatched \cup {} /\ job.invalid \subseteq dead \cup job.invalid \cup {}
  BY <1>5
<1> QED
  BY <1>1, <1>2, <1>3, <1>5, <1>6, <1>7, BatchStep DEF SendFails

LEMMA SendTicketsInv ==
  ASSUME PushInv, NEW n \in 0..MaxTickets, NEW refused \in SUBSET (1..n),
         NEW unregistered \in SUBSET refused, SendTickets(n, refused, unregistered)
  PROVE  PushInv'
<1>1. job \in Job /\ job.pc = "send" /\ job.start < Len(job.list)
  BY DEF PushInv, PushTypeOK, SendTickets
<1>2. Batch \in Seq(Token) /\ Len(Batch) \in Nat /\ n \in Nat
  BY SMTT(30), <1>1, BatchType, PushAssumption
<1> DEFINE bad == Cardinality(refused)
           good == n - bad
           miss == Len(Batch) - n
           odd == IF n = Len(Batch) THEN {} ELSE {Batch[i] : i \in 1..Len(Batch)}
           inv == job.invalid \cup Invalid(unregistered)
<1>3. /\ bad \in Nat /\ good \in Nat /\ miss \in Int /\ good + bad + miss = Len(Batch)
  <2>1. IsFiniteSet(1..n) /\ Cardinality(1..n) = n
    <3>1. 1 \in Int /\ n \in Int
      BY SMTT(30), <1>2
    <3>2. IsFiniteSet(1..n) /\ Cardinality(1..n) = IF 1 > n THEN 0 ELSE n - 1 + 1
      BY <3>1, FS_Interval
    <3> QED
      BY SMTT(30), <1>2, <3>2
  <2>2. IsFiniteSet(refused) /\ bad <= n
    BY <2>1, FS_Subset
  <2>3. bad \in Nat
    BY <2>2, FS_CardinalityType
  <2> QED
    BY SMTT(30), <1>2, <2>2, <2>3
<1>4. odd \in SUBSET Token /\ inv \in SUBSET Token /\ inv \subseteq dead \cup job.invalid \cup odd
  <2>1. \A i \in 1..Len(Batch) : Batch[i] \in Token
    BY SMTT(30), <1>2
  <2>2. \A j \in unregistered : j <= Len(Batch) => j \in 1..Len(Batch)
    BY SMTT(30), <1>2
  <2>3. Invalid(unregistered) \subseteq Token
    BY <2>1, <2>2 DEF Invalid
  <2>4. Invalid(unregistered) \subseteq dead \cup odd
    <3>1. CASE n = Len(Batch)
      BY <3>1 DEF SendTickets, Invalid
    <3>2. CASE n # Len(Batch)
      BY <2>2, <3>2 DEF Invalid
    <3> QED
      BY <3>1, <3>2
  <2>5. odd \in SUBSET Token
    BY <2>1
  <2> QED
    BY <1>1, <2>3, <2>4, <2>5 DEF Job
<1>5. /\ job.handed \in Seq(Token) /\ job.delivered \in Nat /\ job.failed \in Nat
      /\ job.gap \in Int /\ job.unmatched \in SUBSET Token /\ NextStart \in Nat
  BY <1>1, BatchType DEF Job
<1>8. /\ job.delivered + n - bad = job.delivered + good
      /\ job.gap + Len(Batch) - n = job.gap + miss
  BY SMTT(30), <1>2, <1>3, <1>5
<1>6. /\ job' \in Job /\ job'.pc = job.pc /\ job'.list = job.list /\ job'.start = NextStart
      /\ job'.handed = job.handed \o Batch /\ job'.delivered = job.delivered + good
      /\ job'.failed = job.failed + bad /\ job'.invalid = inv /\ job'.saved = job.saved
      /\ job'.gap = job.gap + miss /\ job'.unmatched = job.unmatched \cup odd
  <2> DEFINE h == job.handed \o Batch
             d == job.delivered + good
             f == job.failed + bad
             g == job.gap + miss
             o == job.unmatched \cup odd
  <2>1. h \in Seq(Token)
    BY <1>2, <1>5, ConcatProperties
  <2> HIDE DEF bad, good, miss
  <2>4. d \in Nat /\ f \in Nat /\ g \in Int
    BY SMTT(30), <1>3, <1>5
  <2>5. o \in SUBSET Token
    BY <1>4, <1>5
  <2>2. job' = [job EXCEPT !.start = NextStart, !.handed = h, !.delivered = d,
                           !.failed = f, !.invalid = inv, !.gap = g, !.unmatched = o]
    BY <1>8 DEF SendTickets, bad
  <2> HIDE DEF h, d, f, g, o, inv
  <2>3. /\ job'.pc = job.pc /\ job'.list = job.list /\ job'.start = NextStart
        /\ job'.handed = h /\ job'.delivered = d /\ job'.failed = f
        /\ job'.invalid = inv /\ job'.saved = job.saved /\ job'.gap = g /\ job'.unmatched = o
    <3>1. DOMAIN job = {"pc", "list", "start", "handed", "delivered", "failed", "invalid",
                        "expired", "saved", "gap", "unmatched"}
      BY <1>1 DEF Job
    <3> QED
      BY <2>2, <3>1
  <2>6. job' \in Job
    BY <1>1, <1>4, <1>5, <2>1, <2>4, <2>5, <2>2 DEF Job
  <2> QED
    BY <2>3, <2>6 DEF h, d, f, g, o
<1> HIDE DEF bad, good, miss, odd, inv
<1> QED
  BY <1>1, <1>3, <1>4, <1>6, BatchStep DEF SendTickets

\* A step that does not move the loop.
LEMMA SideStep ==
  ASSUME PushInv, PushTypeOK', RecordsAddUp', PrunedTokensAreDead',
         UNCHANGED <<job.list, job.start, job.delivered, job.failed, job.handed, job.gap>>,
         job'.pc = "idle" => job'.invalid = {},
         job'.pc \in {"prune", "insert"} => job.start >= Len(job.list)
  PROVE  PushInv'
  BY DEF PushInv, JobInv, Passed, NoRepeats

LEMMA SaveInv ==
  ASSUME PushInv, NEW t \in Token, NEW u \in Holder, Save(t, u)
  PROVE  PushInv'
<1>1. job \in Job /\ PushTypeOK /\ JobInv(job) /\ RecordsAddUp /\ PrunedTokensAreDead
  BY DEF PushInv, PushTypeOK
<1>2. job'.saved = job.saved \cup ({t} \cap job.invalid)
      /\ job' = [job EXCEPT !.saved = job'.saved]
  BY <1>1 DEF Save, Job
<1>3. /\ job' \in Job /\ job'.pc = job.pc /\ job'.invalid = job.invalid
      /\ job'.unmatched = job.unmatched
      /\ UNCHANGED <<job.list, job.start, job.delivered, job.failed, job.handed, job.gap>>
  BY SMTT(30), <1>1, <1>2 DEF Job
<1>4. PushTypeOK'
  BY <1>1, <1>3 DEF PushTypeOK, Save
<1>5. RecordsAddUp' /\ PrunedTokensAreDead'
  BY SMTT(30), <1>1, <1>2, <1>3 DEF RecordsAddUp, PrunedTokensAreDead, Save, JobInv
<1> QED
  BY <1>1, <1>3, <1>4, <1>5, SideStep DEF JobInv

\* A step of a device or of the table alone.
LEMMA OutsideStep ==
  ASSUME PushInv, UNCHANGED <<job, newest>>, dead \subseteq dead', PushTypeOK'
  PROVE  PushInv'
<1>1. JobInv(job) /\ RecordsAddUp /\ PrunedTokensAreDead
  BY DEF PushInv
<1>2. RecordsAddUp' /\ PrunedTokensAreDead'
  BY <1>1 DEF RecordsAddUp, PrunedTokensAreDead
<1> QED
  BY <1>1, <1>2, SideStep DEF JobInv

LEMMA UninstallInv ==
  ASSUME PushInv, NEW t \in Token, Uninstall(t)
  PROVE  PushInv'
  BY OutsideStep DEF Uninstall, PushInv, PushTypeOK

LEMMA PurgeHolderInv ==
  ASSUME PushInv, NEW u \in Holder, PurgeHolder(u)
  PROVE  PushInv'
  BY OutsideStep DEF PurgeHolder, PushInv, PushTypeOK

LEMMA AllTokensInv == PushInv /\ AllTokens => PushInv'
<1> SUFFICES ASSUME PushInv, AllTokens PROVE PushInv'
  BY SMTT(30)
<1> DEFINE l == Listing(Registered)
<1>1. l \in Seq(Token) /\ NoRepeats(l) /\ Len(l) \in Nat
  <2>1. Registered \in SUBSET Token
    BY DEF Registered
  <2> QED
    BY SMTT(30), <2>1, ListingLists
<1>2. job' = [NoJob EXCEPT !.pc = "send", !.list = l]
  BY DEF AllTokens
<1> HIDE DEF l
<1>3. /\ job' \in Job /\ job'.list = l /\ job'.start = 0 /\ job'.delivered = 0
      /\ job'.failed = 0 /\ job'.gap = 0 /\ job'.handed = <<>> /\ job'.invalid = {}
      /\ job'.pc = "send"
  <2>1. /\ job'.list = l /\ job'.start = 0 /\ job'.delivered = 0 /\ job'.failed = 0 /\ job'.gap = 0
        /\ job'.handed = <<>> /\ job'.invalid = {} /\ job'.pc = "send"
    BY <1>2 DEF NoJob
  <2>2. NoJob \in Job
    BY NoJobInv
  <2>3. job' \in Job
    BY <1>1, <1>2, <2>2 DEF Job
  <2> QED
    BY <2>1, <2>3
<1>4. Passed(job') = 0 /\ SubSeq(l, 1, 0) = <<>>
  BY SMTT(30), <1>1, <1>3, SubSeqEmpty DEF Passed
<1>5. JobInv(job')
  BY SMTT(30), <1>1, <1>3, <1>4 DEF JobInv
<1>6. PushTypeOK' /\ RecordsAddUp' /\ PrunedTokensAreDead'
  BY SMTT(30), <1>3 DEF PushInv, PushTypeOK, RecordsAddUp, PrunedTokensAreDead, AllTokens, NoRow
<1> QED
  BY <1>5, <1>6 DEF PushInv

LEMMA ExpireInv == PushInv /\ Expire => PushInv'
<1> SUFFICES ASSUME PushInv, Expire PROVE PushInv'
  BY SMTT(30)
<1>1. job \in Job /\ PushTypeOK /\ JobInv(job) /\ RecordsAddUp /\ PrunedTokensAreDead
  BY DEF PushInv, PushTypeOK
<1>2. /\ job' \in Job /\ job'.pc = job.pc /\ job'.invalid = job.invalid
      /\ job'.saved = job.saved /\ job'.unmatched = job.unmatched
      /\ UNCHANGED <<job.list, job.start, job.delivered, job.failed, job.handed, job.gap>>
  BY <1>1 DEF Expire, Job
<1>3. PushTypeOK' /\ RecordsAddUp' /\ PrunedTokensAreDead'
  BY <1>1, <1>2 DEF PushTypeOK, RecordsAddUp, PrunedTokensAreDead, Expire
<1> QED
  BY <1>1, <1>2, <1>3, SideStep DEF JobInv

LEMMA SendDoneInv == PushInv /\ SendDone => PushInv'
<1> SUFFICES ASSUME PushInv, SendDone PROVE PushInv'
  BY SMTT(30)
<1>1. job \in Job /\ PushTypeOK /\ RecordsAddUp /\ PrunedTokensAreDead
  BY DEF PushInv, PushTypeOK
<1>2. /\ job' \in Job /\ job'.pc # "idle" /\ job'.invalid = job.invalid
      /\ job'.saved = job.saved /\ job'.unmatched = job.unmatched
      /\ UNCHANGED <<job.list, job.start, job.delivered, job.failed, job.handed, job.gap>>
  BY <1>1 DEF SendDone, Job
<1>3. PushTypeOK' /\ RecordsAddUp' /\ PrunedTokensAreDead'
  BY <1>1, <1>2 DEF PushTypeOK, RecordsAddUp, PrunedTokensAreDead, SendDone
<1>4. job.start >= Len(job.list)
  BY DEF SendDone
<1> QED
  BY <1>2, <1>3, <1>4, SideStep

LEMMA DeleteTokensInv ==
  ASSUME PushInv, NEW fails \in BOOLEAN, DeleteTokens(fails)
  PROVE  PushInv'
<1>1. job \in Job /\ PushTypeOK /\ JobInv(job) /\ RecordsAddUp /\ PrunedTokensAreDead
  BY DEF PushInv, PushTypeOK
<1>2. /\ job' \in Job /\ job'.pc = "insert" /\ job'.invalid = job.invalid
      /\ job'.saved = job.saved /\ job'.unmatched = job.unmatched
      /\ UNCHANGED <<job.list, job.start, job.delivered, job.failed, job.handed, job.gap>>
  BY <1>1 DEF DeleteTokens, Job
<1>3. PushTypeOK' /\ RecordsAddUp' /\ PrunedTokensAreDead'
  BY <1>1, <1>2 DEF PushTypeOK, RecordsAddUp, PrunedTokensAreDead, DeleteTokens
<1>4. job.start >= Len(job.list) /\ job'.pc # "idle"
  BY <1>1, <1>2 DEF DeleteTokens, JobInv
<1> QED
  BY <1>2, <1>3, <1>4, SideStep

LEMMA InsertBroadcastInv ==
  ASSUME PushInv, NEW fails \in BOOLEAN, InsertBroadcast(fails)
  PROVE  PushInv'
<1>1. job \in Job /\ PushTypeOK /\ JobInv(job) /\ RecordsAddUp /\ job.pc = "insert"
  BY DEF PushInv, PushTypeOK, InsertBroadcast
<1>2. job' = NoJob /\ job' \in Job /\ JobInv(job') /\ job'.invalid = {}
  BY NoJobInv DEF InsertBroadcast, NoJob
<1>3. /\ job.delivered \in Nat /\ job.failed \in Nat /\ Len(job.list) \in Nat /\ job.start \in Nat
      /\ job.start >= Len(job.list) /\ job.gap \in Int
  BY SMTT(30), <1>1 DEF Job, JobInv
<1>4. job.delivered + job.failed + job.gap = Len(job.list)
  BY SMTT(30), <1>1, <1>3 DEF JobInv, Passed
<1>5. PushTypeOK'
  BY <1>1, <1>2, <1>3 DEF PushTypeOK, InsertBroadcast
<1>6. RecordsAddUp'
  BY <1>1, <1>4 DEF RecordsAddUp, InsertBroadcast
<1> QED
  BY <1>2, <1>5, <1>6 DEF PushInv, PrunedTokensAreDead

----------------------------------------------------------------------------
LEMMA PushNextInv == PushInv /\ [PushNext]_pushVars => PushInv'
<1> SUFFICES ASSUME PushInv, [PushNext]_pushVars PROVE PushInv'
  BY SMTT(30)
<1>1. CASE AllTokens \/ Expire
  BY <1>1, AllTokensInv, ExpireInv
<1>2. CASE JobStep
  BY <1>2, SendFailsInv, SendDoneInv, SendTicketsInv, DeleteTokensInv, InsertBroadcastInv
     DEF JobStep
<1>3. ASSUME NEW t \in Token, Uninstall(t) \/ \E u \in Holder : Save(t, u) PROVE PushInv'
  BY <1>3, SaveInv, UninstallInv
<1>4. ASSUME NEW u \in Holder, PurgeHolder(u) PROVE PushInv'
  BY <1>4, PurgeHolderInv
<1>5. CASE UNCHANGED pushVars
  BY <1>5 DEF pushVars, PushInv, PushTypeOK, JobInv, Passed, NoRepeats, RecordsAddUp,
              PrunedTokensAreDead
<1> QED
  BY <1>1, <1>2, <1>3, <1>4, <1>5 DEF PushNext

LEMMA AlwaysPushInv == PushSpec => []PushInv
  BY PushInitInv, PushNextInv, PTL DEF PushSpec

\* broadcastSend records an outcome for every device of its list but for the
\* tickets Expo leaves out or adds, for any number of devices and tickets and any
\* batch size, whichever batches fail.
THEOREM TotalsAddUp == PushSpec => []RecordsAddUp
<1>1. PushInv => RecordsAddUp
  BY DEF PushInv
<1> QED
  BY <1>1, AlwaysPushInv, PTL

\* Client.Send hands every token of the list to Expo exactly once.
THEOREM BatchesPartitionTheList == PushSpec => []EachTokenOnce
<1>1. PushInv => EachTokenOnce
  <2> SUFFICES ASSUME PushInv PROVE EachTokenOnce
    OBVIOUS
  <2> DEFINE n == Passed(job)
  <2>1. job \in Job /\ JobInv(job) /\ job.list \in Seq(Token) /\ n \in 0..Len(job.list)
    BY SMTT(30) DEF PushInv, PushTypeOK, Job, Passed
  <2>2. job.handed = SubSeq(job.list, 1, n) /\ NoRepeats(job.list)
    BY <2>1 DEF JobInv
  <2>3. job.pc \in {"prune", "insert"} => n = Len(job.list)
    BY SMTT(30), <2>1 DEF JobInv, Passed, Job
  <2> HIDE DEF n
  <2>4. Len(job.handed) = n /\ \A i \in 1..n : job.handed[i] = job.list[i]
    BY SMTT(30), <2>1, <2>2
  <2>5. DOMAIN job.handed = 1..n
    BY SMTT(30), <2>1, <2>4 DEF Job
  <2>6. job.pc \in {"prune", "insert"} => job.handed = job.list
    BY <2>1, <2>2, <2>3, SubSeqFull
  <2>7. \A i, j \in 1..n : job.handed[i] = job.handed[j] => i = j
    <3>1. 1..n \subseteq 1..Len(job.list)
      BY SMTT(30), <2>1
    <3> QED
      BY <2>2, <2>4, <3>1 DEF NoRepeats
  <2> QED
    BY <2>5, <2>6, <2>7 DEF EachTokenOnce
<1> QED
  BY <1>1, AlwaysPushInv, PTL

\* Only tokens of devices that are gone are marked for deletion, as long as Expo
\* answers with a ticket for every message.
THEOREM PruningIsSound == PushSpec => []PrunedTokensAreDead
<1>1. PushInv => PrunedTokensAreDead
  BY DEF PushInv
<1> QED
  BY <1>1, AlwaysPushInv, PTL

\* The statements and requests broadcastSend may still need.
Left(x) ==
  CASE x.pc = "idle"   -> 0
    [] x.pc = "insert" -> 1
    [] x.pc = "prune"  -> 2
    [] x.pc = "send"   -> 3 + (Len(x.list) - Passed(x))

JobAdvances ==
  /\ Left(job) \in Nat
  /\ job.pc # "idle" => Left(job') <= Left(job)
  /\ JobStep => Left(job') < Left(job)

LEMMA LeftShape ==
  ASSUME NEW x \in Job
  PROVE  /\ x.pc = "idle" => Left(x) = 0
         /\ x.pc = "insert" => Left(x) = 1
         /\ x.pc = "prune" => Left(x) = 2
         /\ x.pc = "send" => Left(x) = 3 + (Len(x.list) - Passed(x))
         /\ Passed(x) \in 0..Len(x.list) /\ Len(x.list) \in Nat
         /\ Left(x) \in Nat /\ (x.pc = "send" => Left(x) >= 3)
<1>1. Passed(x) \in 0..Len(x.list) /\ Len(x.list) \in Nat
  BY SMTT(30) DEF Passed, Job
<1>2. /\ x.pc = "idle" => Left(x) = 0
      /\ x.pc = "insert" => Left(x) = 1
      /\ x.pc = "prune" => Left(x) = 2
      /\ x.pc = "send" => Left(x) = 3 + (Len(x.list) - Passed(x))
  BY SMTT(30) DEF Left
<1>3. x.pc \in {"idle", "send", "prune", "insert"}
  BY DEF Job
<1> QED
  BY SMTT(30), <1>1, <1>2, <1>3

\* Another batch, whatever became of it.
LEMMA BatchAdvances ==
  ASSUME NEW x \in Job, NEW y \in Job, x.pc = "send", x.start < Len(x.list),
         y.pc = "send", y.list = x.list, y.start = x.start + expoBatchSize
  PROVE  Left(y) < Left(x)
<1>1. expoBatchSize \in Nat \ {0} /\ x.start \in Nat /\ y.start \in Nat
  BY PushAssumption DEF Job
<1>2. Len(x.list) \in Nat
  BY LeftShape
<1>3. Passed(x) = x.start
  BY SMTT(30), <1>1, <1>2 DEF Passed
<1>4. Passed(y) > x.start
  BY SMTT(30), <1>1, <1>2 DEF Passed
<1>5. /\ Left(x) = 3 + (Len(x.list) - Passed(x))
      /\ Left(y) = 3 + (Len(x.list) - Passed(y))
      /\ Passed(y) \in 0..Len(x.list)
  BY LeftShape
<1> QED
  BY SMTT(30), <1>1, <1>2, <1>3, <1>4, <1>5

LEMMA JobStepAdvances == PushInv /\ PushInv' /\ JobStep => Left(job') < Left(job)
<1> SUFFICES ASSUME PushInv, PushInv', JobStep PROVE Left(job') < Left(job)
  OBVIOUS
<1>1. PICK x \in Job, y \in Job : x = job /\ y = job'
  BY DEF PushInv, PushTypeOK
<1>2. CASE \/ SendFails
           \/ \E n \in 0..MaxTickets : \E refused \in SUBSET (1..n) :
                \E unregistered \in SUBSET refused : SendTickets(n, refused, unregistered)
  <2>1. /\ x.pc = "send" /\ x.start < Len(x.list)
        /\ y.pc = "send" /\ y.list = x.list /\ y.start = x.start + expoBatchSize
    <3>1. CASE SendFails
      BY <1>1, <3>1 DEF SendFails, NextStart, Job
    <3>2. ASSUME NEW n, NEW refused, NEW unregistered, SendTickets(n, refused, unregistered)
          PROVE  /\ x.pc = "send" /\ x.start < Len(x.list)
                 /\ y.pc = "send" /\ y.list = x.list /\ y.start = x.start + expoBatchSize
      BY <1>1, <3>2 DEF SendTickets, NextStart, Job
    <3> QED
      BY <1>2, <3>1, <3>2
  <2> QED
    BY <1>1, <2>1, BatchAdvances
<1>3. CASE SendDone
  <2>1. x.pc = "send" /\ y.pc \in {"insert", "prune"}
    BY SMTT(30), <1>1, <1>3 DEF SendDone, Job
  <2>2. Left(x) \in Nat /\ Left(x) >= 3 /\ (Left(y) = 1 \/ Left(y) = 2)
    BY <2>1, LeftShape
  <2> QED
    BY SMTT(30), <1>1, <2>2
<1>4. CASE \E fails \in BOOLEAN : DeleteTokens(fails)
  <2>1. x.pc = "prune" /\ y.pc = "insert"
    BY SMTT(30), <1>1, <1>4 DEF DeleteTokens, Job
  <2>2. Left(x) = 2 /\ Left(y) = 1
    BY <2>1, LeftShape
  <2> QED
    BY SMTT(30), <1>1, <2>2
<1>5. CASE \E fails \in BOOLEAN : InsertBroadcast(fails)
  <2>1. x.pc = "insert" /\ y.pc = "idle"
    BY SMTT(30), <1>1, <1>5 DEF InsertBroadcast, NoJob
  <2>2. Left(x) = 1 /\ Left(y) = 0
    BY <2>1, LeftShape
  <2> QED
    BY SMTT(30), <1>1, <2>2
<1> QED
  BY <1>2, <1>3, <1>4, <1>5 DEF JobStep

\* A broadcast is a bounded piece of work, for any list and any batch size:
\* every step of broadcastSend brings it nearer to its end, also when the batch
\* failed, and neither the deadline nor a device that registers or vanishes
\* meanwhile sets it back.
THEOREM BroadcastsAdvance == PushSpec => [][JobAdvances]_pushVars
<1>1. PushInv /\ PushInv' /\ [PushNext]_pushVars => [JobAdvances]_pushVars
  <2> SUFFICES ASSUME PushInv, PushInv', PushNext PROVE JobAdvances
    OBVIOUS
  <2>1. PICK x \in Job, y \in Job : x = job /\ y = job'
    BY DEF PushInv, PushTypeOK
  <2>2. Left(job) \in Nat /\ Left(job') \in Nat
    BY <2>1, LeftShape
  <2>3. CASE JobStep
    <3>1. Left(job') < Left(job)
      BY <2>3, JobStepAdvances
    <3> QED
      BY SMTT(30), <2>2, <3>1 DEF JobAdvances
  <2>4. CASE ~JobStep
    <3>1. job.pc = "idle" \/ (y.pc = x.pc /\ y.list = x.list /\ y.start = x.start)
      <4>1. CASE AllTokens
        BY <4>1 DEF AllTokens
      <4>2. CASE Expire
        BY SMTT(30), <2>1, <4>2 DEF Expire, Job
      <4>3. CASE \E t \in Token, u \in Holder : Save(t, u)
        BY SMTT(30), <2>1, <4>3 DEF Save, Job
      <4>4. CASE \/ \E t \in Token : Uninstall(t)
                 \/ \E u \in Holder : PurgeHolder(u)
        BY <2>1, <4>4 DEF Uninstall, PurgeHolder
      <4> QED
        BY <2>4, <4>1, <4>2, <4>3, <4>4 DEF PushNext
    <3>2. CASE y.pc = x.pc /\ y.list = x.list /\ y.start = x.start
      <4>1. Left(y) = Left(x)
        BY <3>2 DEF Left, Passed
      <4> QED
        BY SMTT(30), <2>1, <2>2, <2>4, <4>1 DEF JobAdvances
    <3> QED
      BY <2>2, <2>4, <3>1, <3>2 DEF JobAdvances
  <2> QED
    BY <2>3, <2>4
<1> QED
  BY <1>1, AlwaysPushInv, PTL DEF PushSpec
=============================================================================
