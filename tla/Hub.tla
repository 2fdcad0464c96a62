-------------------------------- MODULE Hub --------------------------------
(***************************************************************************)
(* The in-memory registry of open WebSockets (internal/realtime/hub.go)    *)
(* with the goroutine of each socket (Handler.ServeHTTP in handler.go and  *)
(* readPump in client.go) that drives it.                                  *)
(*                                                                         *)
(* One step is one critical section: what the code does between taking a   *)
(* lock and releasing it, or between two locks.  A roomState object is an  *)
(* element of RoomState; a goroutine holds a pointer to one in rs[c]       *)
(* between looking it up (Hub.mu) and locking it (roomState.mu).           *)
(***************************************************************************)
EXTENDS Naturals

CONSTANTS
  Room,       \* room ids
  User,       \* user ids
  Conn,       \* client objects: one per accepted socket
  RoomState,  \* identities of roomState objects (a pool, reused when garbage)
  Nil,        \* the nil pointer
  roomOf,     \* client.roomID
  userOf      \* client.user.ID

ASSUME HubAssumption ==
  /\ roomOf \in [Conn -> Room]
  /\ userOf \in [Conn -> User]
  /\ Nil \notin RoomState
  /\ Nil \notin Conn

VARIABLES
  rooms,             \* Hub.rooms, Nil where the map has no entry
  clients,           \* roomState.clients of every object, Nil where absent
  locations,         \* roomState.locations: the users with an entry
  emergencies,       \* roomState.emergencies
  closed,            \* client.closed has been closed
  connOpen,          \* the underlying websocket.Conn has not been closed
  pc,                \* where the goroutine of each socket is
  rs,                \* its local roomState pointer
  transitioned,      \* what its last join or leave returned ...
  clearedEmergency   \* ... and leave's second result

registry == <<rooms, clients, locations, emergencies>>
sockets  == <<closed, connOpen>>
results  == <<transitioned, clearedEmergency>>
vars     == <<registry, sockets, pc, rs, results>>

\* Variant: the clients map is not made.
NoClients_unmade == Nil

\* newRoomState: three empty maps.
NoClients == [u \in User |-> Nil]

Init ==
  /\ rooms            = [r \in Room |-> Nil]
  /\ clients          = [s \in RoomState |-> NoClients]
  /\ locations        = [s \in RoomState |-> {}]
  /\ emergencies      = [s \in RoomState |-> {}]
  /\ closed           = [c \in Conn |-> FALSE]
  /\ connOpen         = [c \in Conn |-> TRUE]
  /\ pc               = [c \in Conn |-> "start"]
  /\ rs               = [c \in Conn |-> Nil]
  /\ transitioned     = [c \in Conn |-> FALSE]
  /\ clearedEmergency = [c \in Conn |-> FALSE]

----------------------------------------------------------------------------
(***************************************************************************)
(* roomFor.  The lookup under RLock and the re-check under Lock form one   *)
(* step: whichever of the two finds or installs the object decides the     *)
(* result, and the goroutine does nothing in between.                      *)
(***************************************************************************)

\* No pointer leads to object s, so that newRoomState may return it.
Unreferenced(s) ==
  /\ \A r \in Room : rooms[r] # s
  /\ \A c \in Conn : rs[c] # s

\* roomFor(r, true) returns object s.
RoomForCreate(r, s) ==
  \/ /\ rooms[r] = s
     /\ UNCHANGED registry
  \/ /\ rooms[r] = Nil
     /\ Unreferenced(s)
     /\ rooms'       = [rooms EXCEPT ![r] = s]
     /\ clients'     = [clients EXCEPT ![s] = NoClients]
     /\ locations'   = [locations EXCEPT ![s] = {}]
     /\ emergencies' = [emergencies EXCEPT ![s] = {}]

\* The goroutine of c obtains its pointer from roomFor(c.roomID, true).
Lookup(c, from, to) ==
  /\ pc[c] = from
  /\ \E s \in RoomState :
       /\ RoomForCreate(roomOf[c], s)
       /\ rs' = [rs EXCEPT ![c] = s]
  /\ pc' = [pc EXCEPT ![c] = to]
  /\ UNCHANGED <<sockets, results>>

\* The goroutine of c is done with its pointer.
Release(c, to) ==
  /\ rs' = [rs EXCEPT ![c] = Nil]
  /\ pc' = [pc EXCEPT ![c] = to]

----------------------------------------------------------------------------
(* Connecting: ServeHTTP from hub.join to readPump. *)

JoinRoomFor(c) == Lookup(c, "start", "join")

\* The locked part of join: an older socket of the user is closed and
\* replaced; the result says whether there was none.
JoinLock(c) ==
  LET s        == rs[c]
      existing == clients[s][userOf[c]]
  IN  /\ pc[c] = "join"
      /\ closed' = [d \in Conn |-> closed[d] \/ d = existing]
      /\ clients' = [clients EXCEPT ![s][userOf[c]] = c]
      /\ transitioned' = [transitioned EXCEPT ![c] = existing = Nil]
      /\ Release(c, "snapshot")
      /\ UNCHANGED <<rooms, locations, emergencies, connOpen,
                     clearedEmergency>>

\* snapshot has read the database and asks for the room's live state.
SnapshotRoomFor(c) == Lookup(c, "snapshot", "snapcopy")

\* snapshot copies the live state and the handler enqueues it.
SnapshotCopy(c) ==
  /\ pc[c] = "snapcopy"
  /\ Release(c, "announce")
  /\ UNCHANGED <<registry, sockets, results>>

\* A database read of snapshot fails: the handler goes on without it.
SnapshotFails(c) ==
  /\ pc[c] = "snapshot"
  /\ pc' = [pc EXCEPT ![c] = "announce"]
  /\ UNCHANGED <<registry, sockets, rs, results>>

\* BroadcastMemberPresent (after a transition), then the pumps start.
AnnouncePresent(c) ==
  /\ pc[c] = "announce"
  /\ pc' = [pc EXCEPT ![c] = "read"]
  /\ transitioned' = [transitioned EXCEPT ![c] = FALSE]
  /\ UNCHANGED <<registry, sockets, rs, clearedEmergency>>

----------------------------------------------------------------------------
(* readPump: one frame at a time, also on a socket that is closing. *)

LocationRoomFor(c) == connOpen[c] /\ Lookup(c, "read", "locate")

RecordLocation(c) ==
  /\ pc[c] = "locate"
  /\ locations' = [locations EXCEPT ![rs[c]] = @ \cup {userOf[c]}]
  /\ Release(c, "read")
  /\ UNCHANGED <<rooms, clients, emergencies, sockets, results>>

EmergencyRoomFor(c) == connOpen[c] /\ Lookup(c, "read", "emergency")

SetEmergency(c, active) ==
  /\ pc[c] = "emergency"
  /\ emergencies' = [emergencies EXCEPT ![rs[c]] =
                       IF active THEN @ \cup {userOf[c]} ELSE @ \ {userOf[c]}]
  /\ Release(c, "read")
  /\ UNCHANGED <<rooms, clients, locations, sockets, results>>

\* Variant: the socket is closed only while a frame is being handled.
ConnClose_onlyMidFrame(c) ==
  /\ pc[c] \in {"locate", "emergency"}
  /\ closed[c]
  /\ connOpen[c]
  /\ connOpen' = [connOpen EXCEPT ![c] = FALSE]
  /\ UNCHANGED <<registry, closed, pc, rs, results>>

\* writePump has seen client.closed, drained the queue and closed the socket.
ConnClose(c) ==
  /\ pc[c] \in {"read", "locate", "emergency"}
  /\ closed[c]
  /\ connOpen[c]
  /\ connOpen' = [connOpen EXCEPT ![c] = FALSE]
  /\ UNCHANGED <<registry, closed, pc, rs, results>>

\* conn.Read fails, because the peer is gone or the socket was closed, and
\* readPump's deferred close runs.
ReadEnds(c) ==
  /\ pc[c] = "read"
  /\ pc' = [pc EXCEPT ![c] = "leave"]
  /\ closed' = [closed EXCEPT ![c] = TRUE]
  /\ connOpen' = [connOpen EXCEPT ![c] = FALSE]
  /\ UNCHANGED <<registry, rs, results>>

----------------------------------------------------------------------------
(* Disconnecting: hub.leave and the announcements after it. *)

\* Variant: the handler returns without leaving.
LeaveRoomFor_skipped(c) ==
  /\ pc[c] = "leave"
  /\ Release(c, "done")
  /\ UNCHANGED <<registry, sockets, results>>

LeaveRoomFor(c) ==
  LET s == rooms[roomOf[c]]
  IN  /\ pc[c] = "leave"
      /\ pc' = [pc EXCEPT ![c] = IF s = Nil THEN "done" ELSE "unregister"]
      /\ rs' = [rs EXCEPT ![c] = s]
      /\ UNCHANGED <<registry, sockets, results>>

\* Where ServeHTTP goes when leave has returned `left`.
AfterLeave(left) == IF left THEN "absent" ELSE "done"

\* Variant: a room with a raised flag is not considered empty.
IsEmpty_unlessFlagged(s, cs) == emergencies[s] = {} /\ \A u \in User : cs[s][u] = Nil

IsEmpty(s, cs) == \A u \in User : cs[s][u] = Nil

LeaveLock(c) ==
  LET s    == rs[c]
      u    == userOf[c]
      left == clients[s][u] = c
  IN  /\ pc[c] = "unregister"
      /\ clients' = [clients EXCEPT ![s][u] = IF left THEN Nil ELSE @]
      /\ locations' = [locations EXCEPT ![s] = IF left THEN @ \ {u} ELSE @]
      /\ emergencies' = [emergencies EXCEPT ![s] = IF left THEN @ \ {u} ELSE @]
      /\ transitioned' = [transitioned EXCEPT ![c] = left]
      /\ clearedEmergency' =
           [clearedEmergency EXCEPT ![c] = left /\ u \in emergencies[s]]
      /\ Release(c, IF IsEmpty(s, clients') THEN "drop" ELSE AfterLeave(left))
      /\ UNCHANGED <<rooms, sockets>>

\* The second part of leave, under Hub.mu: it looks the room up again.
LeaveDrop(c) ==
  LET r == roomOf[c]
  IN  /\ pc[c] = "drop"
      /\ rooms' = [rooms EXCEPT ![r] =
                     IF @ # Nil /\ IsEmpty(@, clients) THEN Nil ELSE @]
      /\ pc' = [pc EXCEPT ![c] = AfterLeave(transitioned[c])]
      /\ UNCHANGED <<clients, locations, emergencies, sockets, rs, results>>

\* BroadcastEmergency(false) if a flag was cleared, then BroadcastMemberAbsent.
AnnounceAbsent(c) ==
  /\ pc[c] = "absent"
  /\ pc' = [pc EXCEPT ![c] = "done"]
  /\ transitioned' = [transitioned EXCEPT ![c] = FALSE]
  /\ clearedEmergency' = [clearedEmergency EXCEPT ![c] = FALSE]
  /\ UNCHANGED <<registry, sockets, rs>>

----------------------------------------------------------------------------
(***************************************************************************)
(* DisconnectUser, KickConnection, BroadcastRoomEnded and an enqueue that  *)
(* finds the send buffer full close a client they found in a clients map.  *)
(* They hold the pointer without a lock, so the call to close may come at  *)
(* any time after the join.                                                *)
(***************************************************************************)
Disconnect(c) ==
  /\ pc[c] \notin {"start", "join"}
  /\ closed' = [closed EXCEPT ![c] = TRUE]
  /\ UNCHANGED <<registry, connOpen, pc, rs, results>>

----------------------------------------------------------------------------
\* The steps a goroutine takes by itself once its socket is accepted.
Serve(c) ==
  \/ JoinLock(c)
  \/ SnapshotRoomFor(c)
  \/ SnapshotCopy(c)
  \/ SnapshotFails(c)
  \/ AnnouncePresent(c)
  \/ RecordLocation(c)
  \/ \E active \in BOOLEAN : SetEmergency(c, active)
  \/ LeaveRoomFor(c)
  \/ LeaveLock(c)
  \/ LeaveDrop(c)
  \/ AnnounceAbsent(c)

\* Every socket has come and gone.
Quiescent == \A c \in Conn : pc[c] = "done"
Terminating == Quiescent /\ UNCHANGED vars

Next ==
  \/ \E c \in Conn : \/ JoinRoomFor(c)
                     \/ LocationRoomFor(c)
                     \/ EmergencyRoomFor(c)
                     \/ ReadEnds(c)
                     \/ ConnClose(c)
                     \/ Disconnect(c)
                     \/ Serve(c)
  \/ Terminating

Spec == Init /\ [][Next]_vars

\* Goroutines are scheduled, writePump (a goroutine of its own) closes the
\* socket of a closed client, and Read fails on a socket that was closed.
Fairness ==
  \A c \in Conn : /\ WF_vars(Serve(c))
                  /\ WF_vars(ConnClose(c))
                  /\ WF_vars(~connOpen[c] /\ ReadEnds(c))

FairSpec == Spec /\ Fairness

----------------------------------------------------------------------------
(* Properties *)

TypeOK ==
  /\ rooms \in [Room -> RoomState \cup {Nil}]
  /\ clients \in [RoomState -> [User -> Conn \cup {Nil}]]
  /\ locations \in [RoomState -> SUBSET User]
  /\ emergencies \in [RoomState -> SUBSET User]
  /\ closed \in [Conn -> BOOLEAN]
  /\ connOpen \in [Conn -> BOOLEAN]
  /\ pc \in [Conn -> {"start", "join", "snapshot", "snapcopy", "announce",
                      "read", "locate", "emergency", "leave", "unregister",
                      "drop", "absent", "done"}]
  /\ rs \in [Conn -> RoomState \cup {Nil}]
  /\ transitioned \in [Conn -> BOOLEAN]
  /\ clearedEmergency \in [Conn -> BOOLEAN]

\* PresentUserIDs: the users with a socket in the registered roomState.
PresentUserIDs(r) ==
  IF rooms[r] = Nil THEN {} ELSE {u \in User : clients[rooms[r]][u] # Nil}

\* EmergencyUserIDs: the users flagged in the registered roomState.
EmergencyUserIDs(r) ==
  IF rooms[r] = Nil THEN {} ELSE emergencies[rooms[r]]

\* Between join and the end of leave.
Joined == {"snapshot", "snapcopy", "announce", "read", "locate", "emergency",
           "leave", "unregister"}

\* No zombies: a socket that PresentUserIDs and broadcast can see belongs to
\* a goroutine that has joined this very room as this user and whose leave,
\* if it has begun, holds this very object.  So leave always removes what the
\* room shows, however lookups, joins, replacements and drops interleave.
NoZombieClients ==
  \A r \in Room, u \in User :
    LET c == clients[rooms[r]][u]
    IN  u \in PresentUserIDs(r) =>
          /\ roomOf[c] = r
          /\ userOf[c] = u
          /\ pc[c] \in Joined
          /\ pc[c] = "unregister" => rs[c] = rooms[r]

\* Memory is reclaimed: a room none of whose sockets is being served has no
\* entry in Hub.rooms, whichever of join, snapshot, recordLocation and
\* SetEmergency created the entry and in whatever order the leaves ran.
IdleRoomsAreReclaimed ==
  \A r \in Room :
    (\A c \in Conn : roomOf[c] = r => pc[c] \in {"start", "absent", "done"})
      => rooms[r] = Nil

\* A socket that anything closed (a replacement, a kick, the end of the room)
\* is eventually served to the end and no longer in the registry.
ClosedSocketsFinish ==
  \A c \in Conn : closed[c] ~> pc[c] = "done"

\* "broadcast sends a message to every connected client in the room": an open
\* socket that has joined is in the registered roomState.
ConnectedClientsAreRegistered ==
  \A c \in Conn :
    pc[c] \in {"announce", "read"} /\ ~closed[c] =>
      /\ rooms[roomOf[c]] # Nil
      /\ clients[rooms[roomOf[c]]][userOf[c]] = c

\* "cleared automatically when a member leaves / goes absent": a flagged user
\* has a socket that is still being served.
EmergencyClearedWhenAbsent ==
  \A r \in Room : \A u \in EmergencyUserIDs(r) :
    \E c \in Conn : /\ userOf[c] = u
                    /\ roomOf[c] = r
                    /\ pc[c] \notin {"start", "absent", "done"}
=============================================================================
