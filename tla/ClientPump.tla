----------------------------- MODULE ClientPump -----------------------------
(***************************************************************************)
(* One connection (internal/realtime/client.go): the bounded send channel, *)
(* the once-only close signal, and the goroutines that share them: those   *)
(* that enqueue, those that close, writePump and readPump.                 *)
(*                                                                         *)
(* Frames are numbered in the order in which enqueue is called.  The link  *)
(* is what lies beyond the socket: it fails when the peer closes, vanishes *)
(* or breaks the protocol, or stalls for longer than writeTimeout.         *)
(***************************************************************************)
EXTENDS Naturals, Sequences, Functions

CONSTANTS
  SendBuffer,  \* sendBuffer, the capacity of client.send
  MaxFrames    \* bound: how many frames are enqueued in a behaviour

ASSUME PumpAssumption == SendBuffer \in Nat \ {0} /\ MaxFrames \in Nat

VARIABLES
  send,       \* client.send
  closed,     \* client.closed is closed
  hand,       \* the frame writePump or drainSend is writing, 0 for none
  wpc,        \* where writePump is
  rpc,        \* where ServeHTTP is from readPump on
  ctxDone,    \* the context of the pumps is cancelled
  connOpen,   \* conn.Close has not been called
  linkUp,     \* the link to the peer works
  kpc,        \* where a KickConnection or BroadcastRoomEnded is
  \* what happened so far, for the properties
  offered,    \* enqueue calls
  dropped,    \* frames enqueue dropped
  delivered,  \* frames written to the peer
  closedAt,   \* enqueue calls made before the close
  terminal    \* the frame sent before the close by kpc, 0 for none

pumps   == <<wpc, rpc, ctxDone>>
wire    == <<connOpen, linkUp>>
history == <<offered, dropped, delivered, closedAt, terminal>>
vars    == <<send, closed, hand, pumps, wire, kpc, history>>

Init ==
  /\ send      = <<>>
  /\ closed    = FALSE
  /\ hand      = 0
  /\ wpc       = "unstarted"
  /\ rpc       = "unstarted"
  /\ ctxDone   = FALSE
  /\ connOpen  = TRUE
  /\ linkUp    = TRUE
  /\ kpc       = "idle"
  /\ offered   = 0
  /\ dropped   = {}
  /\ delivered = <<>>
  /\ closedAt  = 0
  /\ terminal  = 0

----------------------------------------------------------------------------
\* client.close: the first call closes the channel, later ones do nothing.
CloseAfter(n) ==
  /\ closed' = TRUE
  /\ closedAt' = IF closed THEN closedAt ELSE n

StaysOpen == UNCHANGED <<closed, closedAt>>

\* Variant: one frame too many.
HasRoom_offByOne == Len(send) <= SendBuffer

HasRoom == Len(send) < SendBuffer

\* Variant: a slow consumer is not disconnected.
Overflow_keepsOpen ==
  /\ StaysOpen
  /\ dropped' = dropped \cup {offered'}
  /\ UNCHANGED send

\* A full buffer drops the frame and closes.
Overflow ==
  /\ CloseAfter(offered')
  /\ dropped' = dropped \cup {offered'}
  /\ UNCHANGED send

\* client.enqueue never blocks.
EnqueueFrame ==
  /\ offered < MaxFrames
  /\ offered' = offered + 1
  /\ \/ /\ HasRoom
        /\ send' = Append(send, offered')
        /\ StaysOpen
        /\ UNCHANGED dropped
     \/ /\ ~HasRoom
        /\ Overflow

\* broadcast, the snapshot, or an answer of readPump.
Enqueue ==
  /\ EnqueueFrame
  /\ UNCHANGED <<hand, pumps, wire, kpc, delivered, terminal>>

\* close is called for a newer socket of the user or by DisconnectUser.  Only
\* the first call of close has an effect.
Disconnect ==
  /\ ~closed
  /\ CloseAfter(offered)
  /\ UNCHANGED <<send, hand, pumps, wire, kpc, offered, dropped, delivered, terminal>>

\* KickConnection and BroadcastRoomEnded: sendTo ...
EvictSend ==
  /\ kpc = "idle"
  /\ EnqueueFrame
  /\ kpc' = "sent"
  /\ terminal' = offered'
  /\ UNCHANGED <<hand, pumps, wire, delivered>>

\* ... then close.
EvictClose ==
  /\ kpc = "sent"
  /\ kpc' = "finished"
  /\ CloseAfter(offered)
  /\ UNCHANGED <<send, hand, pumps, wire, offered, dropped, delivered, terminal>>

LinkFails ==
  /\ linkUp
  /\ linkUp' = FALSE
  /\ UNCHANGED <<send, closed, hand, pumps, connOpen, kpc, history>>

----------------------------------------------------------------------------
(* writePump *)

\* ServeHTTP starts writePump and enters readPump.
StartPumps ==
  /\ rpc = "unstarted"
  /\ rpc' = "read"
  /\ wpc' = "select"
  /\ UNCHANGED <<send, closed, hand, ctxDone, wire, kpc, history>>

WriterGoes(from, to) ==
  /\ wpc = from
  /\ wpc' = to

\* A frame is received from the channel.
Take ==
  /\ send # <<>>
  /\ hand' = Head(send)
  /\ send' = Tail(send)
  /\ UNCHANGED <<closed, rpc, ctxDone, wire, kpc, history>>

QuietWriter == UNCHANGED <<send, closed, hand, rpc, ctxDone, wire, kpc, history>>

\* Variant: writePump returns without draining.
SelectClosed_noDrain == closed /\ WriterGoes("select", "exit") /\ QuietWriter

\* Variant: frames are sent in batches.
SelectSend_batched == Len(send) > 1 /\ WriterGoes("select", "write") /\ Take

SelectDone   == ctxDone /\ WriterGoes("select", "exit") /\ QuietWriter
SelectClosed == closed /\ WriterGoes("select", "drain") /\ QuietWriter
SelectSend   == WriterGoes("select", "write") /\ Take
SelectPing   == WriterGoes("select", "ping") /\ QuietWriter

\* conn.Write or conn.Ping: works on an open connection with a working link;
\* fails without one, and may fail once its context is cancelled.
WireOk   == connOpen /\ linkUp
WireFail == ~connOpen \/ ~linkUp \/ ctxDone

\* client.write, called by writePump or by drainSend.
WriteOk ==
  /\ WriterGoes("write", "select") \/ WriterGoes("drainwrite", "drain")
  /\ WireOk
  /\ delivered' = Append(delivered, hand)
  /\ hand' = 0
  /\ UNCHANGED <<send, closed, rpc, ctxDone, wire, kpc,
                 offered, dropped, closedAt, terminal>>

\* Variant: a failed write is ignored.
WriteFails_ignored ==
  /\ WriterGoes("write", "select") \/ WriterGoes("drainwrite", "drain")
  /\ WireFail
  /\ hand' = 0
  /\ UNCHANGED <<send, closed, rpc, ctxDone, wire, kpc, history>>

WriteFails ==
  /\ WriterGoes("write", "exit") \/ WriterGoes("drainwrite", "exit")
  /\ WireFail
  /\ hand' = 0
  /\ CloseAfter(offered)
  /\ UNCHANGED <<send, rpc, ctxDone, wire, kpc,
                 offered, dropped, delivered, terminal>>

PingOk == WriterGoes("ping", "select") /\ WireOk /\ QuietWriter

PingFails ==
  /\ WriterGoes("ping", "exit")
  /\ WireFail
  /\ CloseAfter(offered)
  /\ UNCHANGED <<send, hand, rpc, ctxDone, wire, kpc,
                 offered, dropped, delivered, terminal>>

\* drainSend
DrainTake  == WriterGoes("drain", "drainwrite") /\ Take
DrainEmpty == send = <<>> /\ WriterGoes("drain", "exit") /\ QuietWriter

\* Variant: the socket is left to the peer to close.
Shutdown_leavesOpen ==
  /\ WriterGoes("exit", "done")
  /\ QuietWriter

\* The deferred shutdown.
Shutdown ==
  /\ WriterGoes("exit", "done")
  /\ connOpen' = FALSE
  /\ UNCHANGED <<send, closed, hand, rpc, ctxDone, linkUp, kpc, history>>

----------------------------------------------------------------------------
(* readPump, and ServeHTTP after it *)

\* conn.Read returns an error; the deferred close runs.
ReadFails ==
  /\ rpc = "read"
  /\ ~connOpen \/ ~linkUp
  /\ rpc' = "ended"
  /\ CloseAfter(offered)
  /\ UNCHANGED <<send, hand, wpc, ctxDone, wire, kpc,
                 offered, dropped, delivered, terminal>>

\* cancel(), after which the handler leaves the hub.
Cancel ==
  /\ rpc = "ended"
  /\ rpc' = "left"
  /\ ctxDone' = TRUE
  /\ UNCHANGED <<send, closed, hand, wpc, wire, kpc, history>>

----------------------------------------------------------------------------
Writer ==
  \/ SelectDone \/ SelectClosed \/ SelectSend \/ SelectPing
  \/ WriteOk \/ WriteFails \/ PingOk \/ PingFails
  \/ DrainTake \/ DrainEmpty \/ Shutdown

Reader == StartPumps \/ ReadFails \/ Cancel

\* The connection is gone and nobody uses it any more.
Terminating ==
  /\ wpc = "done" /\ rpc = "left" /\ ~linkUp
  /\ offered = MaxFrames
  /\ UNCHANGED vars

Next ==
  \/ Enqueue \/ Disconnect \/ EvictSend \/ EvictClose \/ LinkFails
  \/ Writer \/ Reader \/ Terminating

Spec == Init /\ [][Next]_vars

\* Goroutines are scheduled, and writes and pings end by writeTimeout.  Go's
\* select picks at random among the ready cases, so that a case that is ready
\* every time select runs is chosen in the end.
Fairness ==
  /\ WF_vars(Writer)
  /\ WF_vars(Reader)
  /\ SF_vars(SelectSend)
  /\ SF_vars(SelectClosed)

FairSpec == Spec /\ Fairness

----------------------------------------------------------------------------
(* Properties *)

TypeOK ==
  /\ send \in Seq(1..offered) /\ Len(send) <= SendBuffer
  /\ closed \in BOOLEAN
  /\ hand \in 0..offered
  /\ wpc \in {"unstarted", "select", "write", "ping", "drain", "drainwrite",
              "exit", "done"}
  /\ rpc \in {"unstarted", "read", "ended", "left"}
  /\ ctxDone \in BOOLEAN
  /\ connOpen \in BOOLEAN
  /\ linkUp \in BOOLEAN
  /\ kpc \in {"idle", "sent", "finished"}
  /\ offered \in 0..MaxFrames
  /\ dropped \subseteq 1..offered
  /\ delivered \in Seq(1..offered)
  /\ closedAt \in 0..offered
  /\ terminal \in 0..offered

\* The frames accepted and not yet written, oldest first.
InFlight == (IF hand = 0 THEN <<>> ELSE <<hand>>) \o send

\* No silent gap: as long as the connection has not been told to close, the
\* frames delivered, being written and queued are exactly the frames enqueued,
\* in their order.  A client that misses a frame is one that is being closed
\* and will reconnect for a snapshot.
NoSilentGap ==
  ~closed => delivered \o InFlight = [n \in 1..offered |-> n]

\* Terminal frames are drained: when writePump is done and the link never
\* failed, every frame that enqueue accepted before the close was written,
\* whoever closed the connection and wherever writePump was at that time.
AcceptedBeforeCloseDelivered ==
  wpc \in {"exit", "done"} /\ linkUp =>
    (1..closedAt) \ dropped \subseteq Range(delivered)

\* "each client receives the room_ended frame before the socket disappears":
\* the frame that KickConnection or BroadcastRoomEnded sent to a connection
\* that nobody had closed before is written before the socket is closed.
TerminalFrameReachesClient ==
  /\ wpc = "done" /\ linkUp
  /\ terminal # 0 /\ terminal <= closedAt
  => terminal \in Range(delivered)

\* A closed connection is torn down: writePump closes the socket, readPump
\* returns and ServeHTTP leaves the hub.
ClosedEnds == closed ~> (wpc = "done" /\ rpc = "left")

\* An accepted frame is written, unless the connection is closed first.
AcceptedFramesGoOut ==
  \A n \in 1..MaxFrames :
    n \in Range(InFlight) ~> (n \in Range(delivered) \/ closed)

\* The connection implements the channel of Delivery: in order, each frame at
\* most once, and no loss before the close.
Channel == INSTANCE Delivery WITH
  queue <- InFlight, received <- delivered, closing <- closed
ImplementsDelivery == Channel!Spec
=============================================================================
