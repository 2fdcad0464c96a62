------------------------------- MODULE Rooms -------------------------------
(***************************************************************************)
(* Membership: the rooms and room_members tables (rooms/store.go), the     *)
(* requests that change them (rooms/service.go), and what these requests   *)
(* do to the room's sockets and to the member list of a connected client.  *)
(*                                                                         *)
(* One step is one SQL statement (atomic under READ COMMITTED) or one call *)
(* of the Broadcaster.  A check and the write it guards are two steps of   *)
(* the request, and the steps of other requests come in between.  A check  *)
(* that fails ends the request with an error; when it is the request's     *)
(* first step, nothing has happened and the model takes no step.           *)
(***************************************************************************)
EXTENDS Naturals

CONSTANTS
  Room, User, Code,  \* identities of rooms and users; room codes
  Req,               \* goroutines serving requests
  Nil,               \* no row, no pointer
  Watched,           \* the rooms with a client whose member list is followed
  MaxCodeAttempts,   \* maxCodeAttempts
  MuteInputs         \* bound: the values of `muted` that requests ask for

\* Rows of the tables, and a member as clients see it.
RoomRow == [code : Code, owner : User, ended : BOOLEAN]
MemberRow == [role : {"owner", "member"}, left : BOOLEAN, kicked : BOOLEAN,
              muted : BOOLEAN]
Member == [role : {"owner", "member"}, muted : BOOLEAN]

ASSUME RoomsAssumption ==
  /\ Nil \notin User /\ Nil \notin Room /\ Nil \notin Code
  /\ Nil \notin RoomRow /\ Nil \notin MemberRow /\ Nil \notin Member
  /\ Watched \subseteq Room
  /\ MaxCodeAttempts \in Nat \ {0}
  /\ MuteInputs \subseteq BOOLEAN

VARIABLES
  rooms,    \* table rooms: code, owner_id, ended_at
  members,  \* table room_members
  sockets,  \* per room, the users whose socket is registered in the hub
  overlap,  \* ... and registered although an eviction overtook their connect,
            \* or was called off by an error
  view,     \* per room, the member list of a client that gets every frame
  req       \* the request each goroutine serves

tables == <<rooms, members>>
live   == <<sockets, overlap, view>>
vars   == <<tables, live, req>>

Request == [pc : {"idle", "create", "upsert", "get", "joined", "left",
                  "mute", "muted", "kick", "kicked", "end", "ended",
                  "assert", "exists", "transfer", "transferred",
                  "wsmember", "wsjoin"},
            room : Room \cup {Nil}, actor : User \cup {Nil},
            target : User \cup {Nil}, member : Member,
            attempts : 0..(MaxCodeAttempts - 1), overtaken : BOOLEAN]

Idle == [pc |-> "idle", room |-> Nil, actor |-> Nil, target |-> Nil,
         member |-> [role |-> "member", muted |-> FALSE],
         attempts |-> 0, overtaken |-> FALSE]

Init ==
  /\ rooms   = [r \in Room |-> Nil]
  /\ members = [r \in Room |-> [u \in User |-> Nil]]
  /\ sockets = [r \in Room |-> {}]
  /\ overlap = [r \in Room |-> {}]
  /\ view    = [r \in Room |-> [u \in User |-> Nil]]
  /\ req     = [q \in Req |-> Idle]

----------------------------------------------------------------------------
(* Reads *)

\* left_at IS NULL: ListMembers, GetMember, SetMuted, Kick, MarkLeft.
Present(r, u) == members[r][u] # Nil /\ ~members[r][u].left

\* ActiveMembership
Active(r, u) == Present(r, u) /\ ~members[r][u].kicked

\* requireOwner
IsOwner(r, u) == Active(r, u) /\ members[r][u].role = "owner"

\* GetByID and GetActiveByCode find rooms that have not ended.
Open(r) == rooms[r] # Nil /\ ~rooms[r].ended

\* A Member, as ListMembers and GetMember return it.
MemberOf(r, u) == [role |-> members[r][u].role, muted |-> members[r][u].muted]

ListMembers(r) ==
  [u \in User |-> IF Present(r, u) THEN MemberOf(r, u) ELSE Nil]

----------------------------------------------------------------------------
(* The life of a request *)

Begin(q, pc, r, actor, target) ==
  /\ req[q] = Idle
  /\ req' = [req EXCEPT ![q] = [Idle EXCEPT !.pc = pc, !.room = r,
                                            !.actor = actor, !.target = target]]

At(q, pc) == req[q].pc = pc
Goto(q, pc) == req' = [req EXCEPT ![q].pc = pc]
Finish(q) == req' = [req EXCEPT ![q] = Idle]

\* The write at `pc` touches the row of the target, if the row is Present.
UpdateTarget(q, row, next) ==
  LET r == req[q].room
      u == req[q].target
  IN  IF Present(r, u)
      THEN /\ members' = [members EXCEPT ![r][u] = row]
           /\ Goto(q, next)
           /\ UNCHANGED <<rooms, live>>
      ELSE /\ Finish(q)
           /\ UNCHANGED <<tables, live>>

TargetRow(q) == members[req[q].room][req[q].target]

\* A frame reaches the followed client of room r, which updates its copy.
Deliver(r, copy) == view' = IF r \in Watched THEN [view EXCEPT ![r] = copy] ELSE view

\* Request q, which had to evict the users `out` from room r, ends.  A connect
\* that is past its first check but has not registered yet is not seen.
Overtaken(x, r, out) ==
  [x EXCEPT !.overtaken = @ \/ /\ x.pc \in {"wsmember", "wsjoin"}
                               /\ x.room = r
                               /\ x.actor \in out]
Overtake(q, r, out) ==
  req' = [p \in Req |-> IF p = q THEN Idle ELSE Overtaken(req[p], r, out)]

\* The registered sockets of `out` are closed.
Evict(q, r, out) ==
  /\ sockets' = [sockets EXCEPT ![r] = @ \ out]
  /\ overlap' = [overlap EXCEPT ![r] = @ \ out]
  /\ Overtake(q, r, out)

\* Whom the request still has to evict.
ToEvict(x) ==
  CASE x.pc \in {"left", "kicked"} -> {x.target}
    [] x.pc = "ended" -> User
    [] OTHER -> {}

\* A statement fails, or has taken effect but its answer is lost (the client
\* has gone and ctx is cancelled, or the connection breaks): the request
\* returns the error, or swallows that of GetMember, and broadcasts nothing.
StatementFails(q) ==
  LET r   == req[q].room
      out == ToEvict(req[q])
  IN  /\ req[q].pc \notin {"idle", "joined"}
      /\ overlap' = [overlap EXCEPT ![r] = @ \cup (sockets[r] \cap out)]
      /\ Overtake(q, r, out)
      /\ UNCHANGED <<tables, sockets, view>>

----------------------------------------------------------------------------
(* Create *)

\* The database will give the new row an id that is not in use.
BeginCreate(q, u, r) ==
  /\ rooms[r] = Nil
  /\ \A p \in Req : req[p].room # r
  /\ Begin(q, "create", r, u, Nil)
  /\ UNCHANGED <<tables, live>>

\* CreateRoom inserts both rows in one transaction.
CreateRoom(q, code) ==
  LET u == req[q].actor
      r == req[q].room
  IN  /\ At(q, "create")
      /\ \A o \in Room : Open(o) => rooms[o].code # code
      /\ rooms' = [rooms EXCEPT ![r] = [code |-> code, owner |-> u, ended |-> FALSE]]
      /\ members' = [members EXCEPT ![r][u] = [role |-> "owner", left |-> FALSE,
                                               kicked |-> FALSE, muted |-> FALSE]]
      /\ Deliver(r, [view[r] EXCEPT ![u] = [role |-> "owner", muted |-> FALSE]])
      /\ Finish(q)
      /\ UNCHANGED <<sockets, overlap>>

\* Variant: one attempt too many.
CodeTaken_offByOne(q, code) ==
  /\ At(q, "create")
  /\ \E o \in Room : Open(o) /\ rooms[o].code = code
  /\ IF req[q].attempts < MaxCodeAttempts
     THEN req' = [req EXCEPT ![q].attempts = @ + 1]
     ELSE Finish(q)
  /\ UNCHANGED <<tables, live>>

\* The unique index on the codes of open rooms refuses the insert: another
\* code is tried, or Create gives up.
CodeTaken(q, code) ==
  /\ At(q, "create")
  /\ \E o \in Room : Open(o) /\ rooms[o].code = code
  /\ IF req[q].attempts + 1 < MaxCodeAttempts
     THEN req' = [req EXCEPT ![q].attempts = @ + 1]
     ELSE Finish(q)
  /\ UNCHANGED <<tables, live>>

(* Join *)

\* GetActiveByCode finds room r.
BeginJoin(q, u, r, code) ==
  /\ Open(r)
  /\ rooms[r].code = code
  /\ Begin(q, "upsert", r, u, u)
  /\ UNCHANGED <<tables, live>>

NewMember == [role |-> "member", left |-> FALSE, kicked |-> FALSE, muted |-> FALSE]

\* Variants: joining again resets the role, or does not lift the kick.
Upserted_resetsRole(old) == NewMember
Upserted_keepsKick(old) == IF old = Nil THEN NewMember ELSE [old EXCEPT !.left = FALSE]

\* A new row, or the old one re-activated with its role and mute.
Upserted(old) ==
  IF old = Nil THEN NewMember ELSE [old EXCEPT !.left = FALSE, !.kicked = FALSE]

UpsertMember(q) ==
  /\ At(q, "upsert")
  /\ members' = [members EXCEPT ![req[q].room][req[q].target] = Upserted(@)]
  /\ Goto(q, "get")
  /\ UNCHANGED <<rooms, live>>

GetMember(q) ==
  /\ At(q, "get")
  /\ IF Present(req[q].room, req[q].target)
     THEN req' = [req EXCEPT ![q].pc = "joined",
                             ![q].member = MemberOf(req[q].room, req[q].target)]
     ELSE Finish(q)
  /\ UNCHANGED <<tables, live>>

BroadcastMemberJoined(q) ==
  /\ At(q, "joined")
  /\ Deliver(req[q].room, [view[req[q].room] EXCEPT ![req[q].target] = req[q].member])
  /\ Finish(q)
  /\ UNCHANGED <<tables, sockets, overlap>>

(* Leave *)

MarkLeft(q, u, r) ==
  /\ rooms[r] # Nil
  /\ Begin(q, "left", r, u, u)
  /\ members' = [members EXCEPT ![r][u] = IF Present(r, u)
                                         THEN [@ EXCEPT !.left = TRUE] ELSE @]
  /\ UNCHANGED <<rooms, live>>

\* Variant: the socket stays connected.
AnnounceLeft_keepsSocket(q) ==
  LET r == req[q].room
      u == req[q].target
  IN  /\ At(q, "left")
      /\ Deliver(r, [view[r] EXCEPT ![u] = Nil])
      /\ Finish(q)
      /\ UNCHANGED <<tables, sockets, overlap>>

\* BroadcastMemberLeft, then DisconnectUser.
AnnounceLeft(q) ==
  LET r == req[q].room
      u == req[q].target
  IN  /\ At(q, "left")
      /\ Deliver(r, [view[r] EXCEPT ![u] = Nil])
      /\ Evict(q, r, {u})
      /\ UNCHANGED tables

----------------------------------------------------------------------------
(* Mute, Kick and End *)

BeginMute(q, a, t, r, muted) ==
  /\ IsOwner(r, a)
  /\ a # t
  /\ req[q] = Idle
  /\ req' = [req EXCEPT ![q] = [Idle EXCEPT !.pc = "mute", !.room = r, !.actor = a,
                                            !.target = t, !.member.muted = muted]]
  /\ UNCHANGED <<tables, live>>

SetMuted(q) ==
  /\ At(q, "mute")
  /\ UpdateTarget(q, [TargetRow(q) EXCEPT !.muted = req[q].member.muted], "muted")

BroadcastMute(q) ==
  LET r == req[q].room
      u == req[q].target
  IN  /\ At(q, "muted")
      /\ Deliver(r, [view[r] EXCEPT ![u] =
                       IF @ = Nil THEN @ ELSE [@ EXCEPT !.muted = req[q].member.muted]])
      /\ Finish(q)
      /\ UNCHANGED <<tables, sockets, overlap>>

BeginKick(q, a, t, r) ==
  /\ IsOwner(r, a)
  /\ a # t
  /\ Begin(q, "kick", r, a, t)
  /\ UNCHANGED <<tables, live>>

Kick(q) ==
  /\ At(q, "kick")
  /\ UpdateTarget(q, [TargetRow(q) EXCEPT !.kicked = TRUE, !.left = TRUE], "kicked")

KickConnection(q) ==
  LET r == req[q].room
      u == req[q].target
  IN  /\ At(q, "kicked")
      /\ Deliver(r, [view[r] EXCEPT ![u] = Nil])
      /\ Evict(q, r, {u})
      /\ UNCHANGED tables

BeginEnd(q, a, r) ==
  /\ IsOwner(r, a)
  /\ Begin(q, "end", r, a, Nil)
  /\ UNCHANGED <<tables, live>>

EndRoom(q) ==
  LET r == req[q].room
  IN  /\ At(q, "end")
      /\ IF Open(r)
         THEN rooms' = [rooms EXCEPT ![r].ended = TRUE] /\ Goto(q, "ended")
         ELSE Finish(q) /\ UNCHANGED rooms
      /\ UNCHANGED <<members, live>>

BroadcastRoomEnded(q) ==
  /\ At(q, "ended")
  /\ Evict(q, req[q].room, User)
  /\ UNCHANGED <<tables, view>>

----------------------------------------------------------------------------
(***************************************************************************)
(* TransferOwnership.  requireOwner, AssertMember and the transaction's    *)
(* SELECT EXISTS are three reads.  The transaction's UPDATE of the room    *)
(* row locks that row until the COMMIT: the three updates take effect      *)
(* together, at the commit, on a room that is still open.  The private     *)
(* marker written for the outgoing owner before the transaction is not in  *)
(* this module.                                                            *)
(***************************************************************************)
BeginTransfer(q, a, t, r) ==
  /\ IsOwner(r, a)
  /\ a # t
  /\ Begin(q, "assert", r, a, t)
  /\ UNCHANGED <<tables, live>>

CheckTarget(q, from, to) ==
  /\ At(q, from)
  /\ IF Active(req[q].room, req[q].target) THEN Goto(q, to) ELSE Finish(q)
  /\ UNCHANGED <<tables, live>>

AssertTarget(q) == CheckTarget(q, "assert", "exists")
TargetExists(q) == CheckTarget(q, "exists", "transfer")

\* Variant: the UPDATE of the room does not test ended_at.
Transferable_whenEnded(r) == rooms[r] # Nil

Transferable(r) == Open(r)

TransferOwnership(q) ==
  LET r == req[q].room
  IN  /\ At(q, "transfer")
      /\ IF Transferable(r)
         THEN /\ rooms' = [rooms EXCEPT ![r].owner = req[q].target]
              /\ members' = [members EXCEPT ![r][req[q].target].role = "owner",
                                            ![r][req[q].actor].role = "member"]
              /\ Goto(q, "transferred")
         ELSE Finish(q) /\ UNCHANGED tables
      /\ UNCHANGED live

\* Variant: the frame names only the new owner.
NewRoles_ownerOnly(q) == [u \in {req[q].target} |-> "owner"]

\* The frame names the two members whose roles changed.
NewRoles(q) ==
  [u \in {req[q].actor, req[q].target} |-> IF u = req[q].target THEN "owner" ELSE "member"]

BroadcastOwnerChanged(q) ==
  LET r    == req[q].room
      role == NewRoles(q)
  IN  /\ At(q, "transferred")
      /\ Deliver(r, [u \in User |-> IF u \in DOMAIN role /\ view[r][u] # Nil
                                    THEN [view[r][u] EXCEPT !.role = role[u]]
                                    ELSE view[r][u]])
      /\ Finish(q)
      /\ UNCHANGED <<tables, sockets, overlap>>

----------------------------------------------------------------------------
(* ServeHTTP of the realtime handler: two checks, then hub.join *)

WsRoomOpen(q, u, r) ==
  /\ Open(r)
  /\ Begin(q, "wsmember", r, u, u)
  /\ UNCHANGED <<tables, live>>

WsMember(q) == CheckTarget(q, "wsmember", "wsjoin")

WsJoin(q) ==
  LET r == req[q].room
      u == req[q].target
  IN  /\ At(q, "wsjoin")
      /\ sockets' = [sockets EXCEPT ![r] = @ \cup {u}]
      /\ overlap' = [overlap EXCEPT ![r] = IF req[q].overtaken THEN @ \cup {u} ELSE @ \ {u}]
      /\ Finish(q)
      /\ UNCHANGED <<tables, view>>

\* The peer goes away.
SocketGone(u, r) ==
  /\ u \in sockets[r]
  /\ sockets' = [sockets EXCEPT ![r] = @ \ {u}]
  /\ overlap' = [overlap EXCEPT ![r] = @ \ {u}]
  /\ UNCHANGED <<tables, view, req>>

\* The process stops, whatever its requests are doing, and starts again with
\* an empty hub.  The client that is followed comes back and is sent a
\* snapshot.
Restart ==
  /\ sockets' = [r \in Room |-> {}]
  /\ overlap' = [r \in Room |-> {}]
  /\ req' = [q \in Req |-> Idle]
  /\ view' = [r \in Room |-> IF r \in Watched THEN ListMembers(r) ELSE view[r]]
  /\ UNCHANGED tables

----------------------------------------------------------------------------
Serve(q) ==
  \/ \E code \in Code : CreateRoom(q, code) \/ CodeTaken(q, code)
  \/ UpsertMember(q) \/ GetMember(q) \/ BroadcastMemberJoined(q)
  \/ AnnounceLeft(q)
  \/ SetMuted(q) \/ BroadcastMute(q)
  \/ Kick(q) \/ KickConnection(q)
  \/ EndRoom(q) \/ BroadcastRoomEnded(q)
  \/ AssertTarget(q) \/ TargetExists(q)
  \/ TransferOwnership(q) \/ BroadcastOwnerChanged(q)
  \/ WsMember(q) \/ WsJoin(q)

Arrive(q) ==
  \E r \in Room, u \in User :
       \/ BeginCreate(q, u, r) \/ BeginEnd(q, u, r)
       \/ \E code \in Code : BeginJoin(q, u, r, code)
       \/ MarkLeft(q, u, r)
       \/ WsRoomOpen(q, u, r)
       \/ \E t \in User : \/ \E muted \in MuteInputs : BeginMute(q, u, t, r, muted)
                          \/ BeginKick(q, u, t, r)
                          \/ BeginTransfer(q, u, t, r)

Next ==
  \/ \E q \in Req : Arrive(q) \/ Serve(q) \/ StatementFails(q)
  \/ \E r \in Room, u \in User : SocketGone(u, r)
  \/ Restart

Spec == Init /\ [][Next]_vars

----------------------------------------------------------------------------
(* Properties *)

TypeOK ==
  /\ rooms \in [Room -> RoomRow \cup {Nil}]
  /\ members \in [Room -> [User -> MemberRow \cup {Nil}]]
  /\ sockets \in [Room -> SUBSET User]
  /\ overlap \in [Room -> SUBSET User]
  /\ view \in [Room -> [User -> Member \cup {Nil}]]
  /\ req \in [Req -> Request]

\* The two records of who owns a room agree: the member row of rooms.owner_id
\* has the owner role, whatever transfers overlap and whoever leaves, is
\* kicked or joins again (UpsertMember keeps the role of an old row).
OwnerIdHasOwnerRole ==
  \A r \in Room : rooms[r] # Nil =>
    /\ members[r][rooms[r].owner] # Nil
    /\ members[r][rooms[r].owner].role = "owner"

\* The two tests for membership agree: the queries that test only left_at
\* (ListMembers, SetMuted, Kick) never see a kicked member.
KickedHaveLeft ==
  \A r \in Room, u \in User : Present(r, u) => Active(r, u)

\* The end of a room is final: it stays ended, and its code, its owner and the
\* roles of its members never change again, even by a transfer that was under
\* way when the room ended.
EndedIsFinal ==
  [][\A r \in Room : rooms[r] # Nil /\ rooms[r].ended =>
       /\ rooms'[r] = rooms[r]
       /\ \A u \in User : members[r][u] # Nil =>
            members'[r][u].role = members[r][u].role]_vars

\* A request that will still evict u from room r.
EvictionPending(r, u) ==
  \E q \in Req : req[q].room = r /\ u \in ToEvict(req[q])

\* Evictions are complete: a registered socket whose user is no longer an
\* active member of an open room is about to be closed by the request that
\* removed the user, unless it was still connecting when that request looked
\* for it, or an error kept the request from looking.
EvictedSocketsStayOut ==
  \A r \in Room : \A u \in sockets[r] \ overlap[r] :
    (Open(r) /\ Active(r, u)) \/ EvictionPending(r, u)

\* "swaps the two members' roles, all in one transaction": a room has one owner.
OneOwner ==
  \A r \in Room, u, w \in User : IsOwner(r, u) /\ IsOwner(r, w) => u = w
=============================================================================
