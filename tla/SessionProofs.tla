---------------------------- MODULE SessionProofs ---------------------------
(***************************************************************************)
(* Proofs about who is connected and who is signed in: the registry of     *)
(* Hub, for any sets of rooms, users, sockets and roomState objects, and   *)
(* SignIn, for any number of accounts, subjects and callers.               *)
(***************************************************************************)
EXTENDS Hub, SignIn, TLAPS

----------------------------------------------------------------------------
(* The registry: the inductive invariant *)

\* Where a goroutine holds a roomState pointer.
Holding == {"join", "snapcopy", "locate", "emergency", "unregister"}

\* Where a goroutine may still create the roomState of its room, or has yet
\* to look it up in leave.
Serving == {"join", "snapshot", "snapcopy", "announce", "read", "locate",
            "emergency", "leave"}

\* Pointers: a goroutine that needs a roomState has one; an object is
\* registered for one room only, and pointed to for that room only.
PointersOK ==
  /\ \A c \in Conn : pc[c] \in Holding => rs[c] \in RoomState
  /\ \A c \in Conn, r \in Room :
       rs[c] \in RoomState /\ rooms[r] = rs[c] => r = roomOf[c]
  /\ \A r1, r2 \in Room :
       rooms[r1] \in RoomState /\ rooms[r1] = rooms[r2] => r1 = r2

\* NoZombieClients, for every object d that the registered map holds.
ClientsOK ==
  \A r \in Room, u \in User, d \in Conn :
    rooms[r] \in RoomState /\ clients[rooms[r]][u] = d =>
      /\ roomOf[d] = r
      /\ userOf[d] = u
      /\ pc[d] \in Joined
      /\ pc[d] = "unregister" => rs[d] = rooms[r]

\* c will look at the registered roomState of r again before it finishes.
Responsible(c, r) ==
  /\ roomOf[c] = r
  /\ \/ pc[c] \in Serving
     \/ pc[c] = "unregister" /\ rs[c] = rooms[r]
     \/ pc[c] = "drop"

\* Every registered roomState has a goroutine that will check it for
\* emptiness: this is what makes IdleRoomsAreReclaimed inductive.
SomeoneResponsible ==
  \A r \in Room : rooms[r] \in RoomState => \E c \in Conn : Responsible(c, r)

IInv == TypeOK /\ PointersOK /\ ClientsOK /\ SomeoneResponsible

USE HubAssumption, ZenonT(60)

----------------------------------------------------------------------------
\* What a lookup does to the registry: nothing, or a fresh empty object is
\* registered for r.
LEMMA RoomForCreateType ==
  ASSUME TypeOK, NEW r \in Room, NEW s \in RoomState, RoomForCreate(r, s)
  PROVE  /\ rooms' \in [Room -> RoomState \cup {Nil}]
         /\ clients' \in [RoomState -> [User -> Conn \cup {Nil}]]
         /\ locations' \in [RoomState -> SUBSET User]
         /\ emergencies' \in [RoomState -> SUBSET User]
         /\ rooms'[r] = s
         /\ \A q \in Room \ {r} : rooms'[q] = rooms[q]
<1>1. CASE rooms[r] = s /\ UNCHANGED registry
  BY <1>1 DEF TypeOK, registry
<1>2. CASE rooms[r] # s \/ registry' # registry
  <2>1. /\ rooms'       = [rooms EXCEPT ![r] = s]
        /\ clients'     = [clients EXCEPT ![s] = NoClients]
        /\ locations'   = [locations EXCEPT ![s] = {}]
        /\ emergencies' = [emergencies EXCEPT ![s] = {}]
    BY <1>2 DEF RoomForCreate
  <2>2. NoClients \in [User -> Conn \cup {Nil}]
    BY DEF NoClients
  <2> QED
    BY <2>1, <2>2 DEF TypeOK
<1> QED
  BY <1>1, <1>2

LEMMA InitTypeOK == Init => TypeOK
  BY SMTT(30) DEF Init, TypeOK, NoClients

LEMMA LookupTypeOK ==
  ASSUME TypeOK, NEW c \in Conn, NEW from,
         NEW to \in {"join", "snapcopy", "locate", "emergency"},
         Lookup(c, from, to)
  PROVE  TypeOK'
<1>1. roomOf[c] \in Room
  OBVIOUS
<1>2. PICK s \in RoomState : /\ RoomForCreate(roomOf[c], s)
                             /\ rs' = [rs EXCEPT ![c] = s]
  BY DEF Lookup
<1>3. /\ pc' = [pc EXCEPT ![c] = to]
      /\ UNCHANGED <<sockets, results>>
  BY DEF Lookup
<1> QED
  BY <1>1, <1>2, <1>3, RoomForCreateType DEF TypeOK, sockets, results

LEMMA NextTypeOK == TypeOK /\ [Next]_vars => TypeOK'
<1> SUFFICES ASSUME TypeOK, [Next]_vars PROVE TypeOK'
  OBVIOUS
<1>1. ASSUME NEW c \in Conn, JoinRoomFor(c) PROVE TypeOK'
  BY <1>1, LookupTypeOK DEF JoinRoomFor
<1>2. ASSUME NEW c \in Conn, LocationRoomFor(c) PROVE TypeOK'
  BY <1>2, LookupTypeOK DEF LocationRoomFor
<1>3. ASSUME NEW c \in Conn, EmergencyRoomFor(c) PROVE TypeOK'
  BY <1>3, LookupTypeOK DEF EmergencyRoomFor
<1>4. ASSUME NEW c \in Conn, SnapshotRoomFor(c) PROVE TypeOK'
  BY <1>4, LookupTypeOK DEF SnapshotRoomFor
<1>5. ASSUME NEW c \in Conn, ReadEnds(c) PROVE TypeOK'
  BY <1>5 DEF ReadEnds, TypeOK, registry, results
<1>6. ASSUME NEW c \in Conn, ConnClose(c) PROVE TypeOK'
  BY <1>6 DEF ConnClose, TypeOK, registry, results
<1>7. ASSUME NEW c \in Conn, Disconnect(c) PROVE TypeOK'
  BY <1>7 DEF Disconnect, TypeOK, registry, results
<1>8. ASSUME NEW c \in Conn, JoinLock(c) PROVE TypeOK'
  <2>1. clients' \in [RoomState -> [User -> Conn \cup {Nil}]]
    BY <1>8 DEF JoinLock, TypeOK
  <2>2. closed' \in [Conn -> BOOLEAN]
    BY <1>8 DEF JoinLock, TypeOK
  <2>3. transitioned' \in [Conn -> BOOLEAN]
    BY <1>8 DEF JoinLock, TypeOK
  <2> QED
    BY <1>8, <2>1, <2>2, <2>3 DEF JoinLock, Release, TypeOK
<1>9. ASSUME NEW c \in Conn, SnapshotCopy(c) PROVE TypeOK'
  BY <1>9 DEF SnapshotCopy, Release, TypeOK, registry, sockets, results
<1>10. ASSUME NEW c \in Conn, SnapshotFails(c) PROVE TypeOK'
  BY <1>10 DEF SnapshotFails, TypeOK, registry, sockets, results
<1>11. ASSUME NEW c \in Conn, AnnouncePresent(c) PROVE TypeOK'
  BY <1>11 DEF AnnouncePresent, TypeOK, registry, sockets
<1>12. ASSUME NEW c \in Conn, RecordLocation(c) PROVE TypeOK'
  <2>1. userOf[c] \in User
    OBVIOUS
  <2>2. locations' \in [RoomState -> SUBSET User]
    BY <1>12, <2>1 DEF RecordLocation, TypeOK
  <2> QED
    BY <1>12, <2>2 DEF RecordLocation, Release, TypeOK, sockets, results
<1>13. ASSUME NEW c \in Conn, NEW active \in BOOLEAN, SetEmergency(c, active)
       PROVE  TypeOK'
  <2>1. userOf[c] \in User
    OBVIOUS
  <2>2. emergencies' \in [RoomState -> SUBSET User]
    BY <1>13, <2>1 DEF SetEmergency, TypeOK
  <2> QED
    BY <1>13, <2>2 DEF SetEmergency, Release, TypeOK, sockets, results
<1>14. ASSUME NEW c \in Conn, LeaveRoomFor(c) PROVE TypeOK'
  BY <1>14 DEF LeaveRoomFor, TypeOK, registry, sockets, results
<1>15. ASSUME NEW c \in Conn, LeaveLock(c) PROVE TypeOK'
  <2>1. clients' \in [RoomState -> [User -> Conn \cup {Nil}]]
    <3>1. CASE clients[rs[c]][userOf[c]] = c
      BY <1>15, <3>1 DEF LeaveLock, TypeOK
    <3>2. CASE clients[rs[c]][userOf[c]] # c
      <4>1. clients' = [clients EXCEPT ![rs[c]][userOf[c]] = @]
        BY <1>15, <3>2 DEF LeaveLock
      <4>2. CASE rs[c] \in RoomState
        <5>1. clients[rs[c]] \in [User -> Conn \cup {Nil}]
          BY <4>2 DEF TypeOK
        <5>2. [clients[rs[c]] EXCEPT ![userOf[c]] = @] = clients[rs[c]]
          BY <5>1
        <5> QED
          BY <4>1, <4>2, <5>1, <5>2 DEF TypeOK
      <4>3. CASE rs[c] \notin RoomState
        BY <4>1, <4>3 DEF TypeOK
      <4> QED
        BY <4>2, <4>3
    <3> QED
      BY <3>1, <3>2
  <2>2. /\ locations' \in [RoomState -> SUBSET User]
        /\ emergencies' \in [RoomState -> SUBSET User]
    BY <1>15 DEF LeaveLock, TypeOK
  <2>3. /\ transitioned' \in [Conn -> BOOLEAN]
        /\ clearedEmergency' \in [Conn -> BOOLEAN]
    BY <1>15 DEF LeaveLock, TypeOK
  <2> QED
    BY <1>15, <2>1, <2>2, <2>3
    DEF LeaveLock, Release, AfterLeave, TypeOK, sockets
<1>16. ASSUME NEW c \in Conn, LeaveDrop(c) PROVE TypeOK'
  BY <1>16 DEF LeaveDrop, AfterLeave, TypeOK, sockets, results
<1>17. ASSUME NEW c \in Conn, AnnounceAbsent(c) PROVE TypeOK'
  BY <1>17 DEF AnnounceAbsent, TypeOK, registry, sockets
<1>18. CASE UNCHANGED vars
  BY <1>18 DEF vars, TypeOK, registry, sockets, results
<1> QED
  BY <1>1, <1>2, <1>3, <1>4, <1>5, <1>6, <1>7, <1>8, <1>9, <1>10, <1>11,
     <1>12, <1>13, <1>14, <1>15, <1>16, <1>17, <1>18
  DEF Next, Serve, Terminating

\* The variables of the hub and of its goroutines keep their types.
THEOREM TypeCorrect == Spec => []TypeOK
  BY InitTypeOK, NextTypeOK, PTL DEF Spec

----------------------------------------------------------------------------
(* The inductive invariant, action by action. *)

LEMMA InitIInv == Init => IInv
<1> SUFFICES ASSUME Init PROVE IInv
  OBVIOUS
<1>1. TypeOK
  BY InitTypeOK
<1>2. PointersOK /\ ClientsOK /\ SomeoneResponsible
  BY DEF Init, PointersOK, ClientsOK, SomeoneResponsible, Holding
<1> QED
  BY <1>1, <1>2 DEF IInv

\* roomFor(id, true) called by join, snapshot, recordLocation, SetEmergency.
LEMMA LookupIInv ==
  ASSUME IInv, NEW c \in Conn,
         NEW from \in {"start", "snapshot", "read"},
         NEW to \in {"join", "snapcopy", "locate", "emergency"},
         from = "start" \/ to # "join",
         Lookup(c, from, to)
  PROVE  PointersOK' /\ ClientsOK' /\ SomeoneResponsible'
<1>0. /\ TypeOK /\ PointersOK /\ ClientsOK /\ SomeoneResponsible
      /\ roomOf[c] \in Room
  BY DEF IInv
<1>1. PICK s \in RoomState : /\ RoomForCreate(roomOf[c], s)
                             /\ rs' = [rs EXCEPT ![c] = s]
  BY DEF Lookup
<1>2. pc[c] = from /\ pc' = [pc EXCEPT ![c] = to]
  BY DEF Lookup
<1>3. /\ rooms' \in [Room -> RoomState \cup {Nil}]
      /\ rooms'[roomOf[c]] = s
      /\ \A q \in Room \ {roomOf[c]} : rooms'[q] = rooms[q]
  BY <1>0, <1>1, RoomForCreateType
<1>4. \A q \in Room \ {roomOf[c]} : rooms[q] # s
  BY <1>0, <1>1 DEF RoomForCreate, Unreferenced, PointersOK
<1>5. \A d \in Conn \ {c} : rs[d] = s => roomOf[d] = roomOf[c]
  BY <1>0, <1>1 DEF RoomForCreate, Unreferenced, PointersOK
<1>6. PointersOK'
  <2>1. \A d \in Conn : pc'[d] \in Holding => rs'[d] \in RoomState
    BY <1>0, <1>1, <1>2 DEF PointersOK, TypeOK
  <2>2. \A d \in Conn, r \in Room :
          rs'[d] \in RoomState /\ rooms'[r] = rs'[d] => r = roomOf[d]
    BY SMTT(30), <1>0, <1>1, <1>3, <1>4, <1>5 DEF PointersOK, TypeOK
  <2>3. \A r1, r2 \in Room :
          rooms'[r1] \in RoomState /\ rooms'[r1] = rooms'[r2] => r1 = r2
    BY <1>0, <1>3, <1>4 DEF PointersOK
  <2> QED
    BY <2>1, <2>2, <2>3 DEF PointersOK
<1>7. ClientsOK'
  <2> SUFFICES ASSUME NEW r \in Room, NEW u \in User, NEW d \in Conn,
                      rooms'[r] \in RoomState,
                      clients'[rooms'[r]][u] = d
               PROVE  /\ roomOf[d] = r
                      /\ userOf[d] = u
                      /\ pc'[d] \in Joined
                      /\ pc'[d] = "unregister" => rs'[d] = rooms'[r]
    BY SMTT(30) DEF ClientsOK
  <2>1. rooms'[r] = rooms[r] /\ clients'[rooms'[r]] = clients[rooms[r]]
    <3>1. CASE rooms[roomOf[c]] = s /\ UNCHANGED registry
      BY <3>1, <1>3 DEF registry
    <3>2. CASE /\ rooms[roomOf[c]] = Nil
               /\ clients' = [clients EXCEPT ![s] = NoClients]
      <4>1. r # roomOf[c]
        BY <3>2, <1>0, <1>3 DEF NoClients, TypeOK
      <4> QED
        BY <3>2, <4>1, <1>0, <1>3, <1>4 DEF TypeOK
    <3> QED
      BY <1>1, <3>1, <3>2 DEF RoomForCreate
  <2>2. /\ roomOf[d] = r /\ userOf[d] = u /\ pc[d] \in Joined
        /\ pc[d] = "unregister" => rs[d] = rooms[r]
    BY SMTT(30), <2>1, <1>0 DEF ClientsOK
  <2>3. pc'[d] \in Joined /\ (pc'[d] = "unregister" => d # c)
    BY <2>2, <1>0, <1>2 DEF Joined, TypeOK
  <2> QED
    BY <2>1, <2>2, <2>3, <1>0, <1>1, <1>2 DEF TypeOK
<1>8. SomeoneResponsible'
  <2> SUFFICES ASSUME NEW r \in Room, rooms'[r] \in RoomState
               PROVE  \E d \in Conn : Responsible(d, r)'
    BY DEF SomeoneResponsible
  <2>1. CASE r = roomOf[c]
    BY <2>1, <1>0, <1>2 DEF Responsible, Serving, TypeOK
  <2>2. CASE r # roomOf[c]
    <3>1. PICK d \in Conn : Responsible(d, r)
      BY <2>2, <1>0, <1>3 DEF SomeoneResponsible
    <3>2. d # c
      BY <2>2, <3>1 DEF Responsible
    <3> QED
      BY <2>2, <3>1, <3>2, <1>0, <1>1, <1>2, <1>3 DEF Responsible, TypeOK
  <2> QED
    BY <2>1, <2>2
<1> QED
  BY <1>6, <1>7, <1>8

\* The steps of a goroutine that stays connected and leaves rooms and clients
\* alone: the rest of snapshot, the announcement, frames, the end of reading.
LEMMA StayIInv ==
  ASSUME IInv, NEW c \in Conn,
         NEW to \in {"announce", "read", "leave"},
         pc[c] \in Serving \ {"join"},
         pc' = [pc EXCEPT ![c] = to],
         rs' = rs \/ rs' = [rs EXCEPT ![c] = Nil],
         UNCHANGED <<rooms, clients>>
  PROVE  PointersOK' /\ ClientsOK' /\ SomeoneResponsible'
<1>0. TypeOK /\ PointersOK /\ ClientsOK /\ SomeoneResponsible
  BY DEF IInv
<1>1. \A d \in Conn \ {c} : pc'[d] = pc[d] /\ rs'[d] = rs[d]
  BY <1>0 DEF TypeOK
<1>2. pc'[c] = to /\ rs'[c] \in {Nil, rs[c]}
  BY <1>0 DEF TypeOK
<1>3. PointersOK'
  BY SMTT(30), <1>0, <1>1, <1>2 DEF PointersOK, Holding
<1>4. ClientsOK'
  BY SMTT(30), <1>0, <1>1, <1>2 DEF ClientsOK, Joined
<1>5. SomeoneResponsible'
  BY SMTT(30), <1>0, <1>1, <1>2 DEF SomeoneResponsible, Responsible, Serving
<1> QED
  BY <1>3, <1>4, <1>5

\* Closing a client touches neither the registry nor where anyone is.
LEMMA CloseIInv ==
  ASSUME IInv, UNCHANGED <<rooms, clients, pc, rs>>
  PROVE  PointersOK' /\ ClientsOK' /\ SomeoneResponsible'
  BY SMTT(30) DEF IInv, PointersOK, ClientsOK, SomeoneResponsible, Responsible

LEMMA JoinLockIInv ==
  ASSUME IInv, NEW c \in Conn, JoinLock(c)
  PROVE  PointersOK' /\ ClientsOK' /\ SomeoneResponsible'
<1>0. /\ TypeOK /\ PointersOK /\ ClientsOK /\ SomeoneResponsible
      /\ userOf[c] \in User
  BY DEF IInv
<1>1. /\ pc[c] = "join"
      /\ rs[c] \in RoomState
      /\ clients' = [clients EXCEPT ![rs[c]][userOf[c]] = c]
      /\ pc' = [pc EXCEPT ![c] = "snapshot"]
      /\ rs' = [rs EXCEPT ![c] = Nil]
      /\ rooms' = rooms
  BY <1>0 DEF JoinLock, Release, PointersOK, Holding
<1>2. PointersOK'
  BY <1>0, <1>1 DEF PointersOK, Holding, TypeOK
<1>3. ClientsOK'
  <2> SUFFICES ASSUME NEW r \in Room, NEW u \in User, NEW d \in Conn,
                      rooms[r] \in RoomState,
                      clients'[rooms[r]][u] = d
               PROVE  /\ roomOf[d] = r
                      /\ userOf[d] = u
                      /\ pc'[d] \in Joined
                      /\ pc'[d] = "unregister" => rs'[d] = rooms[r]
    BY SMTT(30), <1>1 DEF ClientsOK
  <2>1. CASE rooms[r] = rs[c] /\ u = userOf[c]
    <3>1. d = c /\ r = roomOf[c]
      BY <2>1, <1>0, <1>1 DEF TypeOK, PointersOK
    <3> QED
      BY <3>1, <2>1, <1>0, <1>1 DEF TypeOK, Joined
  <2>2. CASE ~(rooms[r] = rs[c] /\ u = userOf[c])
    <3>1. clients[rooms[r]][u] = d
      BY <2>2, <1>0, <1>1 DEF TypeOK
    <3>2. d # c
      BY SMTT(30), <3>1, <1>0, <1>1 DEF ClientsOK, Joined
    <3>3. pc'[d] = pc[d] /\ rs'[d] = rs[d]
      BY <3>2, <1>0, <1>1 DEF TypeOK
    <3> QED
      BY SMTT(30), <3>1, <3>3, <1>0 DEF ClientsOK
  <2> QED
    BY <2>1, <2>2
<1>4. SomeoneResponsible'
  BY SMTT(30), <1>0, <1>1 DEF SomeoneResponsible, Responsible, Serving, TypeOK
<1> QED
  BY <1>2, <1>3, <1>4

LEMMA LeaveRoomForIInv ==
  ASSUME IInv, NEW c \in Conn, LeaveRoomFor(c)
  PROVE  PointersOK' /\ ClientsOK' /\ SomeoneResponsible'
<1>0. /\ TypeOK /\ PointersOK /\ ClientsOK /\ SomeoneResponsible
      /\ roomOf[c] \in Room
  BY DEF IInv
<1>1. /\ pc[c] = "leave"
      /\ pc' = [pc EXCEPT ![c] =
                  IF rooms[roomOf[c]] = Nil THEN "done" ELSE "unregister"]
      /\ rs' = [rs EXCEPT ![c] = rooms[roomOf[c]]]
      /\ rooms' = rooms /\ clients' = clients
  BY DEF LeaveRoomFor, registry
<1>2. /\ \A d \in Conn \ {c} : pc'[d] = pc[d] /\ rs'[d] = rs[d]
      /\ rs'[c] = rooms[roomOf[c]]
      /\ rooms[roomOf[c]] = Nil => pc'[c] = "done"
      /\ rooms[roomOf[c]] # Nil => pc'[c] = "unregister"
      /\ rooms \in [Room -> RoomState \cup {Nil}]
  BY <1>0, <1>1 DEF TypeOK
<1>3. PointersOK'
  BY SMTT(30), <1>0, <1>1, <1>2 DEF PointersOK, Holding
<1>4. ClientsOK'
  BY SMTT(30), <1>0, <1>1, <1>2 DEF ClientsOK, Joined
<1>5. SomeoneResponsible'
  BY SMTT(30), <1>0, <1>1, <1>2 DEF SomeoneResponsible, Responsible, Serving
<1> QED
  BY SMTT(30), <1>3, <1>4, <1>5

\* leave's first section: if someone remains in the room, ClientsOK names a
\* goroutine that is still responsible; if nobody does, it is c itself.
LEMMA LeaveLockIInv ==
  ASSUME IInv, NEW c \in Conn, LeaveLock(c)
  PROVE  PointersOK' /\ ClientsOK' /\ SomeoneResponsible'
<1> DEFINE s == rs[c]
           left == clients[s][userOf[c]] = c
           empty == IsEmpty(s, clients')
<1>0. /\ TypeOK /\ PointersOK /\ ClientsOK /\ SomeoneResponsible
      /\ userOf[c] \in User
  BY SMTT(30) DEF IInv
<1>1. /\ pc[c] = "unregister"
      /\ s \in RoomState
      /\ rooms' = rooms
      /\ clients' = [clients EXCEPT ![s][userOf[c]] = IF left THEN Nil ELSE @]
      /\ pc' = [pc EXCEPT ![c] = IF empty THEN "drop" ELSE AfterLeave(left)]
      /\ rs' = [rs EXCEPT ![c] = Nil]
  BY <1>0 DEF LeaveLock, Release, PointersOK, Holding
<1>r. rooms' = rooms
  BY DEF LeaveLock
<1>2. /\ \A d \in Conn \ {c} : pc'[d] = pc[d] /\ rs'[d] = rs[d]
      /\ rs'[c] = Nil
      /\ pc'[c] \in {"drop", "absent", "done"}
      /\ empty => pc'[c] = "drop"
  BY <1>0, <1>1 DEF TypeOK, AfterLeave
<1>3. \A q \in RoomState, u \in User, d \in Conn :
        clients'[q][u] = d => /\ clients[q][u] = d
                              /\ ~(q = s /\ u = userOf[c] /\ d = c)
  <2> SUFFICES ASSUME NEW q \in RoomState, NEW u \in User, NEW d \in Conn,
                      clients'[q][u] = d
               PROVE  clients[q][u] = d /\ ~(q = s /\ u = userOf[c] /\ d = c)
    OBVIOUS
  <2>1. CASE q = s /\ u = userOf[c]
    <3>1. clients'[s][userOf[c]] = IF left THEN Nil ELSE clients[s][userOf[c]]
      BY <1>0, <1>1 DEF TypeOK
    <3> QED
      BY <3>1, <2>1
  <2>2. CASE ~(q = s /\ u = userOf[c])
    BY <2>2, <1>0, <1>1 DEF TypeOK
  <2> QED
    BY <2>1, <2>2
<1>4. PointersOK'
  BY SMTT(30), <1>0, <1>1, <1>2 DEF PointersOK, Holding
<1>5. ClientsOK'
  <2> SUFFICES ASSUME NEW r \in Room, NEW u \in User, NEW d \in Conn,
                      rooms[r] \in RoomState,
                      clients'[rooms[r]][u] = d
               PROVE  /\ roomOf[d] = r
                      /\ userOf[d] = u
                      /\ pc'[d] \in Joined
                      /\ pc'[d] = "unregister" => rs'[d] = rooms[r]
    BY SMTT(30), <1>r DEF ClientsOK
  <2>1. /\ clients[rooms[r]][u] = d
        /\ ~(rooms[r] = s /\ u = userOf[c] /\ d = c)
    BY SMTT(30), <1>3
  <2>2. /\ roomOf[d] = r /\ userOf[d] = u /\ pc[d] \in Joined
        /\ pc[d] = "unregister" => rs[d] = rooms[r]
    BY SMTT(30), <2>1, <1>0 DEF ClientsOK
  <2>3. d # c
    BY <2>1, <2>2, <1>1
  <2> QED
    BY <2>2, <2>3, <1>2
<1>6. SomeoneResponsible'
  <2> SUFFICES ASSUME NEW r \in Room, rooms[r] \in RoomState
               PROVE  \E d \in Conn : Responsible(d, r)'
    BY <1>1 DEF SomeoneResponsible
  <2>1. PICK e \in Conn : Responsible(e, r)
    BY <1>0 DEF SomeoneResponsible
  <2>2. CASE e # c
    BY <2>1, <2>2, <1>1, <1>2 DEF Responsible
  <2>3. CASE e = c /\ empty
    BY <2>1, <2>3, <1>2 DEF Responsible
  <2>4. CASE e = c /\ ~empty
    <3>1. r = roomOf[c] /\ rooms[r] = s
      BY <2>1, <2>4, <1>1 DEF Responsible, Serving
    <3>2. PICK u \in User : clients'[s][u] # Nil
      BY <2>4 DEF IsEmpty
    <3>3. clients'[s][u] \in Conn
      <4>1. Next
        BY DEF Next, Serve
      <4>2. TypeOK'
        BY <4>1, <1>0, NextTypeOK
      <4> QED
        BY SMTT(30), <4>2, <3>2, <1>1 DEF TypeOK
    <3>4. PICK d \in Conn : clients'[s][u] = d
      BY <3>3
    <3>5. /\ roomOf[d] = r /\ pc'[d] \in Joined
          /\ pc'[d] = "unregister" => rs'[d] = rooms[r]
      BY SMTT(30), <3>1, <3>4, <1>5, <1>r DEF ClientsOK
    <3> QED
      BY <3>5, <1>1 DEF Responsible, Serving, Joined
  <2> QED
    BY <2>2, <2>3, <2>4
<1> QED
  BY SMTT(30), <1>4, <1>5, <1>6

\* leave's second section: it drops the room only if nobody is in it, so that
\* a room it keeps has a client, and ClientsOK makes that client responsible.
LEMMA LeaveDropIInv ==
  ASSUME IInv, NEW c \in Conn, LeaveDrop(c)
  PROVE  PointersOK' /\ ClientsOK' /\ SomeoneResponsible'
<1>0. /\ TypeOK /\ PointersOK /\ ClientsOK /\ SomeoneResponsible
      /\ roomOf[c] \in Room
  BY SMTT(30) DEF IInv
<1>1. /\ pc[c] = "drop"
      /\ clients' = clients /\ rs' = rs
      /\ \A d \in Conn \ {c} : pc'[d] = pc[d]
      /\ pc'[c] \in {"absent", "done"}
      /\ \A r \in Room : rooms'[r] \in {rooms[r], Nil}
      /\ \A r \in Room \ {roomOf[c]} : rooms'[r] = rooms[r]
  BY <1>0 DEF LeaveDrop, AfterLeave, TypeOK
<1>2. ASSUME rooms'[roomOf[c]] \in RoomState
      PROVE  \E u \in User : clients[rooms'[roomOf[c]]][u] \in Conn
  BY SMTT(30), <1>2, <1>0 DEF LeaveDrop, IsEmpty, TypeOK
<1>3. PointersOK'
  BY SMTT(30), <1>0, <1>1 DEF PointersOK, Holding
<1>4. ClientsOK'
  BY SMTT(30), <1>0, <1>1 DEF ClientsOK, Joined
<1>5. SomeoneResponsible'
  <2> SUFFICES ASSUME NEW r \in Room, rooms'[r] \in RoomState
               PROVE  \E d \in Conn : Responsible(d, r)'
    BY DEF SomeoneResponsible
  <2>1. CASE r = roomOf[c]
    <3>1. PICK u \in User, d \in Conn : clients'[rooms'[r]][u] = d
      BY <2>1, <1>1, <1>2
    <3>2. /\ roomOf[d] = r /\ pc'[d] \in Joined
          /\ pc'[d] = "unregister" => rs'[d] = rooms'[r]
      BY SMTT(30), <3>1, <1>4 DEF ClientsOK
    <3> QED
      BY <3>2 DEF Responsible, Serving, Joined
  <2>2. CASE r # roomOf[c]
    <3>1. PICK d \in Conn : Responsible(d, r)
      BY <2>2, <1>0, <1>1 DEF SomeoneResponsible
    <3>2. d # c
      BY <2>2, <3>1 DEF Responsible
    <3> QED
      BY <2>2, <3>1, <3>2, <1>1 DEF Responsible
  <2> QED
    BY <2>1, <2>2
<1> QED
  BY SMTT(30), <1>3, <1>4, <1>5

LEMMA AnnounceAbsentIInv ==
  ASSUME IInv, NEW c \in Conn, AnnounceAbsent(c)
  PROVE  PointersOK' /\ ClientsOK' /\ SomeoneResponsible'
<1>1. TypeOK /\ PointersOK /\ ClientsOK /\ SomeoneResponsible
  BY DEF IInv
<1>2. /\ pc[c] = "absent" /\ pc'[c] = "done"
      /\ \A d \in Conn \ {c} : pc'[d] = pc[d]
      /\ rooms' = rooms /\ clients' = clients /\ rs' = rs
  BY <1>1 DEF AnnounceAbsent, TypeOK, registry
<1> QED
  BY SMTT(30), <1>1, <1>2 DEF PointersOK, Holding, ClientsOK, Joined,
                    SomeoneResponsible, Responsible, Serving

LEMMA NextIInv == IInv /\ [Next]_vars => IInv'
<1> SUFFICES ASSUME IInv, [Next]_vars
             PROVE  PointersOK' /\ ClientsOK' /\ SomeoneResponsible'
  BY NextTypeOK DEF IInv
<1>1. ASSUME NEW c \in Conn,
             \/ JoinRoomFor(c) \/ LocationRoomFor(c)
             \/ EmergencyRoomFor(c) \/ SnapshotRoomFor(c)
      PROVE  PointersOK' /\ ClientsOK' /\ SomeoneResponsible'
  BY <1>1, LookupIInv
  DEF JoinRoomFor, LocationRoomFor, EmergencyRoomFor, SnapshotRoomFor
<1>2. ASSUME NEW c \in Conn,
             \/ ReadEnds(c) \/ SnapshotCopy(c) \/ SnapshotFails(c)
             \/ AnnouncePresent(c) \/ RecordLocation(c)
             \/ \E active \in BOOLEAN : SetEmergency(c, active)
      PROVE  PointersOK' /\ ClientsOK' /\ SomeoneResponsible'
  <2>1. /\ pc[c] \in Serving \ {"join"}
        /\ \E to \in {"announce", "read", "leave"} :
             pc' = [pc EXCEPT ![c] = to]
        /\ rs' = rs \/ rs' = [rs EXCEPT ![c] = Nil]
        /\ UNCHANGED <<rooms, clients>>
    BY <1>2 DEF ReadEnds, SnapshotCopy, SnapshotFails, AnnouncePresent,
                RecordLocation, SetEmergency, Release, Serving, registry
  <2> QED
    BY <2>1, StayIInv
<1>3. ASSUME NEW c \in Conn, ConnClose(c) \/ Disconnect(c)
      PROVE  PointersOK' /\ ClientsOK' /\ SomeoneResponsible'
  BY <1>3, CloseIInv DEF ConnClose, Disconnect, registry
<1>4. CASE UNCHANGED vars
  BY <1>4, CloseIInv DEF vars, registry
<1> QED
  BY <1>1, <1>2, <1>3, <1>4, JoinLockIInv, LeaveRoomForIInv, LeaveLockIInv,
     LeaveDropIInv, AnnounceAbsentIInv
  DEF Next, Serve, Terminating

LEMMA InductiveInvariant == Spec => []IInv
  BY InitIInv, NextIInv, PTL DEF Spec

\* Whatever PresentUserIDs and broadcast see in a room is a socket that its
\* own goroutine will remove: join, leave and the dropping of empty rooms
\* never leave a dead socket behind, for any number of sockets.
THEOREM NoZombies == Spec => []NoZombieClients
<1>1. IInv => NoZombieClients
  BY SMTT(30) DEF IInv, TypeOK, ClientsOK, NoZombieClients, PresentUserIDs
<1> QED
  BY <1>1, InductiveInvariant, PTL

\* Hub.rooms has no entry for a room that nobody is being served in.
THEOREM Reclaimed == Spec => []IdleRoomsAreReclaimed
<1>1. IInv => IdleRoomsAreReclaimed
  BY SMTT(30) DEF IInv, TypeOK, SomeoneResponsible, Responsible, Serving,
         IdleRoomsAreReclaimed
<1> QED
  BY <1>1, InductiveInvariant, PTL

----------------------------------------------------------------------------
(***************************************************************************)
(* Sign-in.  Neither property is inductive.  The invariant says who made   *)
(* what: an uncommitted account is unused and drawn by one transaction, at *)
(* most one transaction holds the key of a subject and that subject has no *)
(* identity yet, and what an identity, an answer or a transaction points   *)
(* to was made for its subject.                                            *)
(***************************************************************************)

HIDE HubAssumption
USE ZenonT(60)

\* What a transaction may be at each of its steps.
Stage(c) ==
  /\ tx[c].pc = "idle" => tx[c].user = NoId
  /\ tx[c].pc # "idle" => tx[c].subject \in Subject
  /\ tx[c].pc \in {"idle", "insertUser", "found"} => ~tx[c].new
  /\ tx[c].pc = "insertIdentity" => tx[c].new
  /\ tx[c].pc \in {"found", "load", "commit"} => tx[c].user \in Account

\* An account that is not yet committed.
HasDrawn(c) ==
  tx[c].new => /\ tx[c].user \in Account
               /\ users[tx[c].user] = "none"
               /\ \A d \in Caller \ {c} : tx[d].user # tx[c].user

\* An account found by a sign-in.
Found(c) ==
  tx[c].pc \in {"found", "load", "commit"} /\ ~tx[c].new =>
    users[tx[c].user] # "none" /\ madeFor[tx[c].user] = tx[c].subject

\* The key of a subject.
Key(c) ==
  HoldsKey(c) => /\ identities[tx[c].subject] = NoId
                 /\ \A d \in Caller \ {c} : HoldsKey(d) => tx[d].subject # tx[c].subject

Linked(s) ==
  /\ identities[s] # NoId => /\ users[identities[s]] \in {"live", "deleted"}
                             /\ madeFor[identities[s]] = s
  /\ \A u \in returned[s] : users[u] # "none" /\ madeFor[u] = s

Unused(u) == users[u] = "none" => madeFor[u] = NoId

SignInInv ==
  /\ SignInTypeOK
  /\ \A c \in Caller : Stage(c) /\ HasDrawn(c) /\ Found(c) /\ Key(c)
  /\ \A s \in Subject : Linked(s)
  /\ \A u \in Account : Unused(u)
  /\ NoOrphanAccounts

LEMMA SignInInitInv == SignInInit => SignInInv
<1> SUFFICES ASSUME SignInInit PROVE SignInInv
  OBVIOUS
<1>1. SignInTypeOK
  BY DEF SignInInit, SignInTypeOK, Tx, NoTx
<1>2. \A c \in Caller : Stage(c) /\ HasDrawn(c) /\ Found(c) /\ Key(c)
  BY DEF SignInInit, NoTx, Stage, HasDrawn, Found, Key, HoldsKey
<1>3. \A s \in Subject : Linked(s)
  BY DEF SignInInit, Linked
<1>4. (\A u \in Account : Unused(u)) /\ NoOrphanAccounts
  BY DEF SignInInit, Unused, NoOrphanAccounts
<1> QED
  BY <1>1, <1>2, <1>3, <1>4 DEF SignInInv

\* A step of one transaction that leaves the tables alone, and the facts about
\* its new record that keep the invariant.
LEMMA OwnStep ==
  ASSUME SignInInv, NEW c \in Caller, NEW x \in Tx,
         tx' = [tx EXCEPT ![c] = x],
         UNCHANGED <<users, identities, madeFor, returned>>,
         x.pc = "idle" => x.user = NoId,
         x.pc # "idle" => x.subject \in Subject,
         x.pc \in {"idle", "insertUser", "found"} => ~x.new,
         x.pc = "insertIdentity" => x.new,
         x.pc \in {"found", "load", "commit"} => x.user \in Account,
         x.new => /\ x.user \in Account /\ users[x.user] = "none"
                  /\ \A d \in Caller \ {c} : tx[d].user # x.user,
         x.user \in Account /\ ~x.new => users[x.user] # "none",
         x.pc \in {"found", "load", "commit"} /\ ~x.new => madeFor[x.user] = x.subject,
         x.new /\ x.pc \in {"load", "commit"} =>
           /\ identities[x.subject] = NoId
           /\ \A d \in Caller \ {c} : HoldsKey(d) => tx[d].subject # x.subject
  PROVE  SignInInv'
<1>1. tx \in [Caller -> Tx] /\ tx' \in [Caller -> Tx]
  BY DEF SignInInv, SignInTypeOK
<1>2. tx'[c] = x /\ \A d \in Caller \ {c} : tx'[d] = tx[d]
  BY <1>1
<1>3. SignInTypeOK'
  BY <1>1 DEF SignInInv, SignInTypeOK
<1>4. \A d \in Caller : Stage(d)'
  BY <1>2 DEF SignInInv, Stage
<1>5. \A d \in Caller : HasDrawn(d)'
  <2> SUFFICES ASSUME NEW d \in Caller, tx'[d].new
               PROVE  /\ tx'[d].user \in Account
                      /\ users[tx'[d].user] = "none"
                      /\ \A e \in Caller \ {d} : tx'[e].user # tx'[d].user
    BY DEF HasDrawn
  <2>1. CASE d = c
    BY <1>2, <2>1
  <2>2. CASE d # c
    <3>1. HasDrawn(d) /\ tx'[d] = tx[d]
      BY <1>2, <2>2 DEF SignInInv
    <3>2. x.user # tx[d].user
      BY <1>2, <2>2, <3>1 DEF HasDrawn
    <3> QED
      BY SMTT(30), <1>2, <2>2, <3>1, <3>2 DEF HasDrawn
  <2> QED
    BY <2>1, <2>2
<1>6. \A d \in Caller : Found(d)'
  BY SMTT(30), <1>2 DEF SignInInv, Found
<1>7. \A d \in Caller : Key(d)'
  <2>1. \A d \in Caller \ {c} : HoldsKey(d)' = HoldsKey(d)
    BY <1>2 DEF HoldsKey
  <2>2. HoldsKey(c)' => x.new /\ x.pc \in {"load", "commit"}
    BY <1>2 DEF HoldsKey
  <2> QED
    BY SMTT(30), <1>2, <2>1, <2>2 DEF SignInInv, Key
<1>8. (\A s \in Subject : Linked(s)') /\ (\A u \in Account : Unused(u)') /\ NoOrphanAccounts'
  BY DEF SignInInv, Linked, Unused, NoOrphanAccounts
<1> QED
  BY <1>3, <1>4, <1>5, <1>6, <1>7, <1>8 DEF SignInInv

\* A transaction that ends without a commit.
LEMMA Rollback ==
  ASSUME SignInInv, NEW c \in Caller, tx' = [tx EXCEPT ![c] = NoTx],
         UNCHANGED <<users, identities, madeFor, returned>>
  PROVE  SignInInv'
<1> DEFINE x == NoTx
<1>1. x \in Tx /\ x.pc = "idle" /\ x.user = NoId /\ ~x.new
  BY DEF NoTx, Tx
<1>2. tx' = [tx EXCEPT ![c] = x]
  OBVIOUS
<1> HIDE DEF x
<1>3. x.user \notin Account /\ x.pc \notin {"found", "insertUser", "insertIdentity", "load", "commit"}
  BY <1>1, SignInAssumption
<1> QED
  BY <1>1, <1>2, <1>3, OwnStep

LEMMA SelectIdentityInv ==
  ASSUME SignInInv, NEW c \in Caller, NEW s \in Subject,
         NEW differs \in BOOLEAN, SelectIdentity(c, s, differs)
  PROVE  SignInInv'
<1> DEFINE x == [NoTx EXCEPT !.subject = s, !.user = identities[s],
                   !.pc = IF identities[s] = NoId THEN "insertUser"
                          ELSE IF differs THEN "found" ELSE "load"]
<1>1. identities[s] \in Account \cup {NoId}
  BY DEF SignInInv, SignInTypeOK
<1>2. /\ x \in Tx /\ x.subject = s /\ x.user = identities[s] /\ ~x.new
      /\ x.pc = IF identities[s] = NoId THEN "insertUser"
                ELSE IF differs THEN "found" ELSE "load"
  BY <1>1 DEF NoTx, Tx
<1>3. tx' = [tx EXCEPT ![c] = x] /\ UNCHANGED <<users, identities, madeFor, returned>>
  BY DEF SelectIdentity
<1> HIDE DEF x
<1>4. x.user \in Account => users[x.user] # "none" /\ madeFor[x.user] = s
  BY SMTT(30), <1>2, SignInAssumption DEF SignInInv, Linked
<1>5. x.pc \in {"insertUser", "found", "load"} /\ (x.pc # "insertUser" => x.user \in Account)
  BY <1>1, <1>2
<1>6. x.pc # "idle" /\ x.pc # "insertIdentity" /\ x.pc # "commit"
  BY <1>5
<1> QED
  BY <1>2, <1>3, <1>4, <1>5, <1>6, OwnStep

LEMMA UpdateEmailInv ==
  ASSUME SignInInv, NEW c \in Caller, NEW b \in BOOLEAN, UpdateEmail(c, b)
  PROVE  SignInInv'
<1> DEFINE x == [tx[c] EXCEPT !.pc = "load", !.locks = b]
<1>1. tx \in [Caller -> Tx] /\ tx[c] \in Tx /\ tx[c].pc = "found"
  BY DEF SignInInv, SignInTypeOK, UpdateEmail
<1>2. /\ x \in Tx /\ x.pc = "load" /\ x.subject = tx[c].subject
      /\ x.user = tx[c].user /\ x.new = tx[c].new
  BY <1>1 DEF Tx
<1>3. tx' = [tx EXCEPT ![c] = x] /\ UNCHANGED <<users, identities, madeFor, returned>>
  BY <1>1 DEF UpdateEmail, Tx
<1> HIDE DEF x
<1>4. /\ tx[c].subject \in Subject /\ ~tx[c].new /\ tx[c].user \in Account
      /\ users[tx[c].user] # "none" /\ madeFor[tx[c].user] = tx[c].subject
  BY <1>1 DEF SignInInv, Stage, Found
<1> QED
  BY <1>2, <1>3, <1>4, OwnStep

LEMMA InsertUserInv ==
  ASSUME SignInInv, NEW c \in Caller, NEW u \in Account, InsertUser(c, u)
  PROVE  SignInInv'
<1> DEFINE x == [tx[c] EXCEPT !.pc = "insertIdentity", !.user = u, !.new = TRUE]
<1>1. tx \in [Caller -> Tx] /\ tx[c] \in Tx /\ tx[c].pc = "insertUser"
  BY DEF SignInInv, SignInTypeOK, InsertUser
<1>2. /\ x \in Tx /\ x.pc = "insertIdentity" /\ x.subject = tx[c].subject
      /\ x.user = u /\ x.new = TRUE
  BY <1>1 DEF Tx
<1>3. tx' = [tx EXCEPT ![c] = x] /\ UNCHANGED <<users, identities, madeFor, returned>>
  BY <1>1 DEF InsertUser, Tx
<1> HIDE DEF x
<1>4. tx[c].subject \in Subject
  BY <1>1 DEF SignInInv, Stage
<1>5. users[u] = "none" /\ \A d \in Caller : tx[d].user # u
  BY DEF InsertUser, Fresh
<1> QED
  BY <1>2, <1>3, <1>4, <1>5, OwnStep

LEMMA InsertIdentityInv ==
  ASSUME SignInInv, NEW c \in Caller, InsertIdentity(c)
  PROVE  SignInInv'
<1>1. tx \in [Caller -> Tx] /\ tx[c] \in Tx /\ tx[c].pc = "insertIdentity"
  BY DEF SignInInv, SignInTypeOK, InsertIdentity
<1>2. CASE identities[tx[c].subject] = NoId
  <2> DEFINE x == [tx[c] EXCEPT !.pc = "load"]
  <2>1. /\ x \in Tx /\ x.pc = "load" /\ x.subject = tx[c].subject
        /\ x.user = tx[c].user /\ x.new = tx[c].new
    BY <1>1 DEF Tx
  <2>2. tx' = [tx EXCEPT ![c] = x] /\ UNCHANGED <<users, identities, madeFor, returned>>
    BY <1>2 DEF InsertIdentity
  <2> HIDE DEF x
  <2>3. /\ tx[c].new /\ tx[c].subject \in Subject /\ tx[c].user \in Account
        /\ users[tx[c].user] = "none" /\ \A d \in Caller \ {c} : tx[d].user # tx[c].user
    BY <1>1 DEF SignInInv, Stage, HasDrawn
  <2>4. \A d \in Caller \ {c} : HoldsKey(d) => tx[d].subject # tx[c].subject
    BY DEF InsertIdentity, KeyFree
  <2> QED
    BY <1>2, <2>1, <2>2, <2>3, <2>4, OwnStep
<1>3. CASE identities[tx[c].subject] # NoId
  BY <1>3, Rollback DEF InsertIdentity
<1> QED
  BY <1>2, <1>3

LEMMA LoadAccountInv ==
  ASSUME SignInInv, NEW c \in Caller, LoadAccount(c)
  PROVE  SignInInv'
<1>1. tx \in [Caller -> Tx] /\ tx[c] \in Tx /\ tx[c].pc = "load"
  BY DEF SignInInv, SignInTypeOK, LoadAccount
<1>2. CASE tx[c].new \/ users[tx[c].user] = "live"
  <2> DEFINE x == [tx[c] EXCEPT !.pc = "commit"]
  <2>1. /\ x \in Tx /\ x.pc = "commit" /\ x.subject = tx[c].subject
        /\ x.user = tx[c].user /\ x.new = tx[c].new
    BY <1>1 DEF Tx
  <2>2. tx' = [tx EXCEPT ![c] = x] /\ UNCHANGED <<users, identities, madeFor, returned>>
    BY <1>2 DEF LoadAccount
  <2> HIDE DEF x
  <2>3. tx[c].subject \in Subject /\ tx[c].user \in Account
    BY <1>1 DEF SignInInv, Stage
  <2>4. tx[c].new => /\ users[tx[c].user] = "none"
                     /\ \A d \in Caller \ {c} : tx[d].user # tx[c].user
    BY DEF SignInInv, HasDrawn
  <2>5. ~tx[c].new => users[tx[c].user] # "none" /\ madeFor[tx[c].user] = tx[c].subject
    BY <1>1 DEF SignInInv, Found
  <2>6. tx[c].new => /\ identities[tx[c].subject] = NoId
                     /\ \A d \in Caller \ {c} : HoldsKey(d) => tx[d].subject # tx[c].subject
    BY <1>1 DEF SignInInv, Key, HoldsKey
  <2> QED
    BY <2>1, <2>2, <2>3, <2>4, <2>5, <2>6, OwnStep
<1>3. CASE ~(tx[c].new \/ users[tx[c].user] = "live")
  BY <1>3, Rollback DEF LoadAccount
<1> QED
  BY <1>2, <1>3

\* A statement on the row of account u that no transaction has just drawn.
LEMMA RowStep ==
  ASSUME SignInInv, NEW u \in Account, NEW v \in {"live", "deleted"},
         users' = [users EXCEPT ![u] = v],
         UNCHANGED <<identities, tx, madeFor, returned>>,
         users[u] # "purged",
         \A c \in Caller : tx[c].new => tx[c].user # u
  PROVE  SignInInv'
<1>1. SignInTypeOK /\ SignInTypeOK'
  BY DEF SignInInv, SignInTypeOK
<1>2. users'[u] = v /\ \A w \in Account \ {u} : users'[w] = users[w]
  BY <1>1 DEF SignInTypeOK
<1>3. \A c \in Caller : Stage(c)' /\ Key(c)'
  BY DEF SignInInv, Stage, Key, HoldsKey
<1>4. \A c \in Caller : HasDrawn(c)'
  BY <1>2 DEF SignInInv, HasDrawn
<1>5. \A c \in Caller : Found(c)'
  BY <1>2 DEF SignInInv, Found, Stage
<1>6. \A s \in Subject : Linked(s)'
  <2> SUFFICES ASSUME NEW s \in Subject PROVE Linked(s)'
    OBVIOUS
  <2>1. Linked(s) /\ identities[s] \in Account \cup {NoId} /\ returned[s] \subseteq Account
    BY <1>1 DEF SignInInv, SignInTypeOK
  <2> QED
    BY <1>2, <2>1 DEF Linked
<1>7. \A w \in Account : Unused(w)'
  BY <1>2 DEF SignInInv, Unused
<1>8. NoOrphanAccounts'
  <2>1. users[u] = "none" => madeFor[u] = NoId
    BY DEF SignInInv, Unused
  <2>2. users[u] \in {"none", "live", "deleted"}
    BY <1>1 DEF SignInTypeOK
  <2> QED
    BY <1>2, <2>1, <2>2 DEF SignInInv, NoOrphanAccounts
<1> QED
  BY <1>1, <1>3, <1>4, <1>5, <1>6, <1>7, <1>8 DEF SignInInv

LEMMA AccountInv ==
  ASSUME SignInInv, NEW u \in Account, GuestSignIn(u) \/ StampDeleted(u) \/ ClearDeleted(u)
  PROVE  SignInInv'
<1>1. CASE GuestSignIn(u)
  BY <1>1, RowStep DEF GuestSignIn, Fresh
<1>2. CASE StampDeleted(u)
  <2>1. \A c \in Caller : tx[c].new => tx[c].user # u
    BY <1>2 DEF StampDeleted, SignInInv, HasDrawn
  <2> QED
    BY <1>2, <2>1, RowStep DEF StampDeleted
<1>3. CASE ClearDeleted(u)
  <2>1. \A c \in Caller : tx[c].new => tx[c].user # u
    BY <1>3 DEF ClearDeleted, SignInInv, HasDrawn
  <2> QED
    BY <1>3, <2>1, RowStep DEF ClearDeleted
<1> QED
  BY <1>1, <1>2, <1>3

LEMMA PurgeAccountInv ==
  ASSUME SignInInv, NEW u \in Account, PurgeAccount(u)
  PROVE  SignInInv'
<1>1. SignInTypeOK /\ SignInTypeOK'
  BY DEF SignInInv, SignInTypeOK, PurgeAccount
<1>2. users'[u] = "purged" /\ \A w \in Account \ {u} : users'[w] = users[w]
  BY <1>1 DEF SignInTypeOK, PurgeAccount
<1>3. \A s \in Subject : identities'[s] = IF identities[s] = u THEN NoId ELSE identities[s]
  BY DEF PurgeAccount
<1>4. UNCHANGED <<tx, madeFor, returned>> /\ users[u] # "none"
  BY DEF PurgeAccount
<1>5. \A c \in Caller : Stage(c)' /\ HasDrawn(c)'
  BY <1>2, <1>4 DEF SignInInv, Stage, HasDrawn
<1>6. \A c \in Caller : Found(c)'
  BY <1>2, <1>4 DEF SignInInv, Found, Stage
<1>7. \A c \in Caller : Key(c)'
  BY <1>3, <1>4 DEF SignInInv, Key, HoldsKey, Stage
<1>8. \A s \in Subject : Linked(s)'
  <2> SUFFICES ASSUME NEW s \in Subject PROVE Linked(s)'
    OBVIOUS
  <2>1. Linked(s) /\ identities[s] \in Account \cup {NoId} /\ returned[s] \subseteq Account
    BY <1>1 DEF SignInInv, SignInTypeOK
  <2> QED
    BY <1>2, <1>3, <1>4, <2>1 DEF Linked
<1>9. (\A w \in Account : Unused(w)') /\ NoOrphanAccounts'
  <2>1. \A w \in Account : madeFor[w] \in Subject \cup {NoId}
    BY <1>1 DEF SignInTypeOK
  <2> QED
    BY <1>2, <1>3, <1>4, <2>1 DEF SignInInv, Unused, NoOrphanAccounts
<1> QED
  BY <1>1, <1>5, <1>6, <1>7, <1>8, <1>9 DEF SignInInv

LEMMA CommitInv ==
  ASSUME SignInInv, NEW c \in Caller, Commit(c)
  PROVE  SignInInv'
<1> DEFINE s == tx[c].subject
           u == tx[c].user
<1>1. SignInTypeOK /\ tx[c].pc = "commit" /\ s \in Subject /\ u \in Account
  BY DEF SignInInv, Stage, Commit
<1>2. SignInTypeOK'
  BY <1>1 DEF SignInTypeOK, Commit, NoTx, Tx
<1>3. /\ \A d \in Caller \ {c} : tx'[d] = tx[d]
      /\ tx'[c].pc = "idle" /\ tx'[c].user = NoId /\ ~tx'[c].new
  BY <1>1 DEF SignInTypeOK, Commit, NoTx
<1>4. /\ returned'[s] = returned[s] \cup {u}
      /\ \A t \in Subject \ {s} : returned'[t] = returned[t]
  BY <1>1 DEF SignInTypeOK, Commit
<1>5. CASE tx[c].new
  <2>1. /\ users'[u] = "live" /\ \A w \in Account \ {u} : users'[w] = users[w]
        /\ identities'[s] = u /\ \A t \in Subject \ {s} : identities'[t] = identities[t]
        /\ madeFor'[u] = s /\ \A w \in Account \ {u} : madeFor'[w] = madeFor[w]
    BY <1>1, <1>5 DEF SignInTypeOK, Commit
  <2>2. /\ users[u] = "none" /\ identities[s] = NoId
        /\ \A d \in Caller \ {c} : tx[d].user # u
        /\ \A d \in Caller \ {c} : HoldsKey(d) => tx[d].subject # s
    BY <1>1, <1>5 DEF SignInInv, HasDrawn, Key, HoldsKey
  <2>3. \A d \in Caller : Stage(d)' /\ HasDrawn(d)'
    BY SMTT(30), <1>1, <1>3, <2>1, <2>2, SignInAssumption DEF SignInInv, Stage, HasDrawn
  <2>4. \A d \in Caller : Found(d)'
    BY SMTT(30), <1>1, <1>3, <2>1, <2>2 DEF SignInInv, Found, Stage
  <2>5. \A d \in Caller : Key(d)'
    <3>1. ~HoldsKey(c)' /\ \A d \in Caller \ {c} : HoldsKey(d)' = HoldsKey(d)
      BY <1>3 DEF HoldsKey
    <3>2. \A d \in Caller : HoldsKey(d) => tx[d].subject \in Subject
      BY DEF SignInInv, Stage, HoldsKey
    <3> QED
      BY SMTT(30), <1>1, <1>3, <2>1, <2>2, <3>1, <3>2 DEF SignInInv, Key
  <2>6. \A t \in Subject : Linked(t)'
    <3> SUFFICES ASSUME NEW t \in Subject PROVE Linked(t)'
      BY SMTT(30)
    <3>1. Linked(t) /\ identities[t] \in Account \cup {NoId} /\ returned[t] \subseteq Account
      BY <1>1 DEF SignInInv, SignInTypeOK
    <3>2. CASE t = s
      BY <1>1, <1>4, <2>1, <2>2, <3>1, <3>2 DEF Linked
    <3>3. CASE t # s
      BY SMTT(30), <1>1, <1>4, <2>1, <2>2, <3>1, <3>3 DEF Linked
    <3> QED
      BY <3>2, <3>3
  <2>7. \A w \in Account : Unused(w)'
    BY <1>1, <2>1 DEF SignInInv, Unused
  <2>8. NoOrphanAccounts'
    <3> SUFFICES ASSUME NEW w \in Account, users'[w] \in {"live", "deleted"},
                        madeFor'[w] # NoId
                 PROVE  identities'[madeFor'[w]] = w
      BY DEF NoOrphanAccounts
    <3>1. CASE w = u
      BY <1>1, <2>1, <3>1
    <3>2. CASE w # u
      <4>1. identities[madeFor[w]] = w /\ madeFor[w] \in Subject
        BY <1>1, <2>1, <3>2 DEF SignInInv, NoOrphanAccounts, SignInTypeOK
      <4>2. madeFor[w] # s
        BY <2>2, <4>1, SignInAssumption
      <4> QED
        BY <2>1, <3>2, <4>1, <4>2
    <3> QED
      BY <3>1, <3>2
  <2> QED
    BY <1>2, <2>3, <2>4, <2>5, <2>6, <2>7, <2>8 DEF SignInInv
<1>6. CASE ~tx[c].new
  <2>1. UNCHANGED <<users, identities, madeFor>>
    BY <1>1, <1>6 DEF SignInTypeOK, Commit
  <2>2. users[u] # "none" /\ madeFor[u] = s
    BY <1>1, <1>6 DEF SignInInv, Found
  <2>3. \A d \in Caller : Stage(d)' /\ HasDrawn(d)' /\ Found(d)'
    BY SMTT(30), <1>1, <1>3, <2>1, SignInAssumption DEF SignInInv, Stage, HasDrawn, Found
  <2>4. \A d \in Caller : Key(d)'
    <3>1. ~HoldsKey(c)' /\ \A d \in Caller \ {c} : HoldsKey(d)' = HoldsKey(d)
      BY SMTT(30), <1>3 DEF HoldsKey
    <3> QED
      BY <1>3, <2>1, <3>1 DEF SignInInv, Key
  <2>5. \A t \in Subject : Linked(t)'
    BY SMTT(30), <1>1, <1>4, <2>1, <2>2 DEF SignInInv, Linked
  <2>6. (\A w \in Account : Unused(w)') /\ NoOrphanAccounts'
    BY <2>1 DEF SignInInv, Unused, NoOrphanAccounts
  <2> QED
    BY <1>2, <2>3, <2>4, <2>5, <2>6 DEF SignInInv
<1> QED
  BY <1>5, <1>6

----------------------------------------------------------------------------
LEMMA SignInNextInv == SignInInv /\ [SignInNext]_signInVars => SignInInv'
<1> SUFFICES ASSUME SignInInv, [SignInNext]_signInVars PROVE SignInInv'
  OBVIOUS
<1>1. ASSUME NEW c \in Caller, NEW s \in Subject, NEW differs \in BOOLEAN,
             SelectIdentity(c, s, differs)
      PROVE  SignInInv'
  BY <1>1, SelectIdentityInv
<1>2. ASSUME NEW c \in Caller, SignInStep(c) PROVE SignInInv'
  BY <1>2, InsertUserInv, LoadAccountInv, CommitInv DEF SignInStep
<1>3. ASSUME NEW c \in Caller, WaitingStep(c) \/ SignInFails(c) PROVE SignInInv'
  BY <1>3, UpdateEmailInv, InsertIdentityInv, Rollback DEF WaitingStep, SignInFails
<1>4. ASSUME NEW u \in Account,
             GuestSignIn(u) \/ StampDeleted(u) \/ ClearDeleted(u) \/ PurgeAccount(u)
      PROVE  SignInInv'
  BY <1>4, AccountInv, PurgeAccountInv
<1>5. CASE UNCHANGED signInVars
  BY SMTT(30), <1>5 DEF signInVars, SignInInv, SignInTypeOK, Stage, HasDrawn, Found, Key, HoldsKey,
              Linked, Unused, NoOrphanAccounts
<1> QED
  BY <1>1, <1>2, <1>3, <1>4, <1>5 DEF SignInNext

LEMMA AlwaysSignInInv == SignInSpec => []SignInInv
  BY SignInInitInv, SignInNextInv, PTL DEF SignInSpec

\* handleOAuth never ends up with two accounts for one provider account: all
\* answers to its owner name the same account, unless it was purged.
THEOREM OneAccount == SignInSpec => []OneAccountPerSubject
<1>1. SignInInv => OneAccountPerSubject
  <2> SUFFICES ASSUME SignInInv, NEW s \in Subject,
                      NEW u \in returned[s], NEW w \in returned[s],
                      users[u] # "purged", users[w] # "purged"
               PROVE  u = w
    BY DEF OneAccountPerSubject
  <2>1. u \in Account /\ w \in Account
    BY DEF SignInInv, SignInTypeOK
  <2>2. madeFor[u] = s /\ madeFor[w] = s /\ users[u] # "none" /\ users[w] # "none"
    BY DEF SignInInv, Linked
  <2>3. users[u] \in {"live", "deleted"} /\ users[w] \in {"live", "deleted"}
    BY <2>1, <2>2 DEF SignInInv, SignInTypeOK
  <2> QED
    BY <2>1, <2>2, <2>3, SignInAssumption DEF SignInInv, NoOrphanAccounts
<1> QED
  BY <1>1, AlwaysSignInInv, PTL

\* A sign-in that fails or loses the race leaves no account behind that its
\* owner could not reach.
THEOREM NoOrphans == SignInSpec => []NoOrphanAccounts
<1>1. SignInInv => NoOrphanAccounts
  BY DEF SignInInv
<1> QED
  BY <1>1, AlwaysSignInInv, PTL

\* Locks on rows of users are taken late.
LocksLate == \A c \in Caller : tx[c].locks => tx[c].pc \in {"load", "commit"}

LEMMA NextLocksLate == SignInInv /\ LocksLate /\ [SignInNext]_signInVars => LocksLate'
<1> SUFFICES ASSUME SignInInv, LocksLate, [SignInNext]_signInVars,
                    NEW c \in Caller, tx'[c].locks
             PROVE  tx'[c].pc \in {"load", "commit"}
  BY DEF LocksLate
<1>1. tx \in [Caller -> Tx] /\ (tx[c].locks => tx[c].pc \in {"load", "commit"}) /\ ~NoTx.locks
  BY DEF SignInInv, SignInTypeOK, LocksLate, NoTx
<1>2. ASSUME NEW d \in Caller, NEW s \in Subject, NEW differs \in BOOLEAN,
             SelectIdentity(d, s, differs)
      PROVE  tx'[c].pc \in {"load", "commit"}
  BY <1>1, <1>2 DEF SelectIdentity, NoTx
<1>3. ASSUME NEW d \in Caller, NEW changes \in BOOLEAN, UpdateEmail(d, changes)
      PROVE  tx'[c].pc \in {"load", "commit"}
  BY <1>1, <1>3 DEF UpdateEmail, Tx
<1>4. ASSUME NEW d \in Caller, NEW u \in Account, InsertUser(d, u)
      PROVE  tx'[c].pc \in {"load", "commit"}
  BY <1>1, <1>4 DEF InsertUser, Tx, LocksLate
<1>5. ASSUME NEW d \in Caller, InsertIdentity(d) \/ LoadAccount(d)
      PROVE  tx'[c].pc \in {"load", "commit"}
  BY <1>1, <1>5 DEF InsertIdentity, LoadAccount, Tx
<1>6. ASSUME NEW d \in Caller, Commit(d) \/ SignInFails(d)
      PROVE  tx'[c].pc \in {"load", "commit"}
  BY <1>1, <1>6 DEF Commit, SignInFails
<1>7. CASE tx' = tx
  BY <1>1, <1>7
<1> QED
  BY <1>2, <1>3, <1>4, <1>5, <1>6, <1>7
  DEF SignInNext, SignInStep, WaitingStep, GuestSignIn, StampDeleted, ClearDeleted, PurgeAccount, signInVars

\* Any number of concurrent sign-ins cannot block each other for good: whoever
\* upsertOAuthUser makes one wait for has nothing to wait for itself.
THEOREM SignInsDoNotDeadlock == SignInSpec => []NoWaitChain
<1>1. SignInInit => LocksLate
  BY SMTT(30) DEF SignInInit, LocksLate, NoTx
<1>2. LocksLate => NoWaitChain
  BY DEF LocksLate, NoWaitChain, WaitsFor, HoldsKey
<1> QED
  BY <1>1, <1>2, NextLocksLate, AlwaysSignInInv, PTL DEF SignInSpec
=============================================================================
