---------------------------- MODULE RoomsProofs ----------------------------
(***************************************************************************)
(* Proofs about membership, for any sets of rooms, users and concurrent    *)
(* requests.                                                               *)
(***************************************************************************)
EXTENDS Rooms, TLAPS

\* Request x with the tables rs and ms: it names a room and an actor, and one
\* about a member names the member.  All but Create found the room in the table;
\* the room of Create is not there yet.  A transfer is between different users
\* who have rows.
RequestOK(x, rs, ms) ==
  /\ x.pc = "idle" => x.room = Nil
  /\ x.pc # "idle" => x.room \in Room /\ x.actor \in User
  /\ x.pc \notin {"idle", "create", "end", "ended"} => x.target \in User
  /\ x.pc \notin {"idle", "create"} => rs[x.room] # Nil
  /\ x.pc = "create" => rs[x.room] = Nil
  /\ x.pc \in {"assert", "exists", "transfer", "transferred"} => x.actor # x.target
  /\ x.pc \in {"assert", "exists", "transfer"} => ms[x.room][x.actor] # Nil
  /\ x.pc = "transfer" => ms[x.room][x.target] # Nil
  /\ x.pc \in {"upsert", "wsmember", "wsjoin"} => x.actor = x.target

\* The room that Create will insert is no other request's.
CreateAlone ==
  \A p, q \in Req : req[q].pc = "create" /\ p # q => req[p].room # req[q].room

\* A member row references a room.
RowsHaveRooms ==
  \A r \in Room, u \in User : members[r][u] # Nil => rooms[r] # Nil

Structure ==
  /\ TypeOK
  /\ \A q \in Req : RequestOK(req[q], rooms, members)
  /\ CreateAlone
  /\ RowsHaveRooms

USE RoomsAssumption, ZenonT(60)

----------------------------------------------------------------------------
(* What the steps of a request do to req *)

LEMMA IdleType == Idle \in Request /\ Idle.pc = "idle" /\ Idle.room = Nil
  BY SMTT(30) DEF Idle, Request, Member

\* When request q becomes x, the others stay as they should be: rows do not
\* disappear, and only the room q creates appears.
LEMMA RequestsKept ==
  ASSUME Structure, NEW q \in Req, NEW x \in Request,
         req' \in [Req -> Request], req'[q] = x,
         \A p \in Req \ {q} :
           /\ req'[p].pc = req[p].pc /\ req'[p].room = req[p].room
           /\ req'[p].actor = req[p].actor /\ req'[p].target = req[p].target,
         \A r \in Room : rooms[r] # Nil => rooms'[r] # Nil,
         \A r \in Room : rooms'[r] # Nil =>
           rooms[r] # Nil \/ (req[q].pc = "create" /\ r = req[q].room),
         \A r \in Room, u \in User : members[r][u] # Nil => members'[r][u] # Nil,
         RequestOK(x, rooms', members'),
         x.pc = "create" => \A p \in Req \ {q} : req[p].room # x.room
  PROVE  (\A p \in Req : RequestOK(req'[p], rooms', members')) /\ CreateAlone'
<1>1. ASSUME NEW p \in Req PROVE RequestOK(req'[p], rooms', members')
  <2>1. CASE p = q
    BY <2>1
  <2>2. CASE p # q
    <3>1. RequestOK(req[p], rooms, members)
      BY DEF Structure
    <3>2. req[p].pc = "create" /\ req[q].pc = "create" => req[p].room # req[q].room
      BY <2>2 DEF Structure, CreateAlone
    <3> QED
      BY SMTT(30), <2>2, <3>1, <3>2 DEF RequestOK
  <2> QED
    BY <2>1, <2>2
<1>2. CreateAlone'
  <2> SUFFICES ASSUME NEW p \in Req, NEW d \in Req, req'[d].pc = "create", p # d
               PROVE  req'[p].room # req'[d].room
    BY DEF CreateAlone
  <2>1. CASE d = q
    BY <2>1
  <2>2. CASE d # q /\ p # q
    BY SMTT(30), <2>2 DEF Structure, CreateAlone
  <2>3. CASE p = q
    <3>1. /\ req[d].room \in Room /\ rooms[req[d].room] = Nil
          /\ req[q].room # req[d].room
          /\ req'[d].room = req[d].room
      BY <2>3 DEF Structure, RequestOK, CreateAlone
    <3>2. x.room \in Room => rooms'[x.room] # Nil \/ x.pc = "create"
      BY DEF RequestOK
    <3> QED
      BY <2>3, <3>1, <3>2
  <2> QED
    BY <2>1, <2>2, <2>3
<1> QED
  BY <1>1, <1>2

\* A step of q that leaves the tables alone.
LEMMA ReadStep ==
  ASSUME Structure, NEW q \in Req, NEW x \in Request,
         req' = [req EXCEPT ![q] = x],
         RequestOK(x, rooms, members),
         x.pc = "create" => \A p \in Req \ {q} : req[p].room # x.room,
         UNCHANGED tables,
         sockets' \in [Room -> SUBSET User], overlap' \in [Room -> SUBSET User],
         view' \in [Room -> [User -> Member \cup {Nil}]]
  PROVE  Structure'
<1>1. /\ req' \in [Req -> Request] /\ req'[q] = x
      /\ \A p \in Req \ {q} : req'[p] = req[p]
  BY DEF Structure, TypeOK
<1>2. rooms' = rooms /\ members' = members
  BY DEF tables
<1>3. (\A p \in Req : RequestOK(req'[p], rooms', members')) /\ CreateAlone'
  BY <1>1, <1>2, RequestsKept
<1>4. TypeOK' /\ RowsHaveRooms'
  BY <1>1, <1>2 DEF Structure, TypeOK, RowsHaveRooms
<1> QED
  BY <1>3, <1>4 DEF Structure

LEMMA QuietStep ==
  ASSUME Structure, NEW q \in Req, NEW x \in Request,
         req' = [req EXCEPT ![q] = x],
         RequestOK(x, rooms, members),
         x.pc = "create" => \A p \in Req \ {q} : req[p].room # x.room,
         UNCHANGED <<tables, live>>
  PROVE  Structure'
<1>1. /\ sockets' \in [Room -> SUBSET User] /\ overlap' \in [Room -> SUBSET User]
      /\ view' \in [Room -> [User -> Member \cup {Nil}]]
      /\ UNCHANGED tables
  BY DEF Structure, TypeOK, live
<1> QED
  BY <1>1, ReadStep

\* A step of q that writes tables of the right types.
LEMMA WriteStep ==
  ASSUME Structure, NEW q \in Req, NEW x \in Request,
         req' = [req EXCEPT ![q] = x],
         rooms' \in [Room -> RoomRow \cup {Nil}],
         members' \in [Room -> [User -> MemberRow \cup {Nil}]],
         \A r \in Room : rooms[r] # Nil => rooms'[r] # Nil,
         \A r \in Room : rooms'[r] # Nil =>
           rooms[r] # Nil \/ (req[q].pc = "create" /\ r = req[q].room),
         \A r \in Room, u \in User : members[r][u] # Nil => members'[r][u] # Nil,
         \A r \in Room, u \in User : members'[r][u] # Nil => rooms'[r] # Nil,
         RequestOK(x, rooms', members'),
         x.pc # "create",
         UNCHANGED <<sockets, overlap>>,
         view' \in [Room -> [User -> Member \cup {Nil}]]
  PROVE  Structure'
<1>1. /\ req' \in [Req -> Request] /\ req'[q] = x
      /\ \A p \in Req \ {q} : req'[p] = req[p]
  BY DEF Structure, TypeOK
<1>2. (\A p \in Req : RequestOK(req'[p], rooms', members')) /\ CreateAlone'
  BY <1>1, RequestsKept
<1>3. TypeOK' /\ RowsHaveRooms'
  BY <1>1 DEF Structure, TypeOK, RowsHaveRooms
<1> QED
  BY <1>2, <1>3 DEF Structure

LEMMA FinishStep ==
  ASSUME Structure, NEW q \in Req, Finish(q), UNCHANGED <<tables, live>>
  PROVE  Structure'
<1>1. RequestOK(Idle, rooms, members)
  BY IdleType DEF RequestOK
<1> QED
  BY <1>1, IdleType, QuietStep DEF Finish

LEMMA BeginCreateStructure ==
  ASSUME Structure, NEW q \in Req, NEW u \in User, NEW r \in Room, BeginCreate(q, u, r)
  PROVE  Structure'
<1> DEFINE x == [Idle EXCEPT !.pc = "create", !.room = r, !.actor = u, !.target = Nil]
<1>1. /\ x \in Request /\ x.pc = "create" /\ x.room = r
      /\ x.actor = u /\ x.target = Nil
  BY IdleType DEF Request, Member
<1>2. req' = [req EXCEPT ![q] = x] /\ UNCHANGED <<tables, live>>
  BY DEF BeginCreate, Begin
<1> HIDE DEF x
<1>3. RequestOK(x, rooms, members)
  BY <1>1 DEF RequestOK, Structure, RowsHaveRooms, BeginCreate
<1> QED
  BY <1>1, <1>2, <1>3, QuietStep DEF BeginCreate

LEMMA BeginJoinStructure ==
  ASSUME Structure, NEW q \in Req, NEW u \in User, NEW r \in Room,
         NEW code \in Code, BeginJoin(q, u, r, code)
  PROVE  Structure'
<1> DEFINE x == [Idle EXCEPT !.pc = "upsert", !.room = r, !.actor = u, !.target = u]
<1>1. /\ x \in Request /\ x.pc = "upsert" /\ x.room = r
      /\ x.actor = u /\ x.target = u
  BY IdleType DEF Request, Member
<1>2. req' = [req EXCEPT ![q] = x] /\ UNCHANGED <<tables, live>>
  BY DEF BeginJoin, Begin
<1> HIDE DEF x
<1>3. RequestOK(x, rooms, members)
  BY <1>1 DEF RequestOK, Structure, RowsHaveRooms, BeginJoin, Open
<1> QED
  BY <1>1, <1>2, <1>3, QuietStep DEF BeginJoin

LEMMA BeginMuteStructure ==
  ASSUME Structure, NEW q \in Req, NEW a \in User, NEW t \in User, NEW r \in Room,
         NEW muted \in MuteInputs, BeginMute(q, a, t, r, muted)
  PROVE  Structure'
<1> DEFINE x == [Idle EXCEPT !.pc = "mute", !.room = r, !.actor = a, !.target = t,
                           !.member.muted = muted]
<1>1. /\ x \in Request /\ x.pc = "mute" /\ x.room = r
      /\ x.actor = a /\ x.target = t
  BY IdleType DEF Request, Member
<1>2. req' = [req EXCEPT ![q] = x] /\ UNCHANGED <<tables, live>>
  BY DEF BeginMute, Begin
<1> HIDE DEF x
<1>3. RequestOK(x, rooms, members)
  BY <1>1 DEF RequestOK, Structure, RowsHaveRooms, BeginMute, IsOwner, Active, Present
<1> QED
  BY <1>1, <1>2, <1>3, QuietStep DEF BeginMute

LEMMA BeginKickStructure ==
  ASSUME Structure, NEW q \in Req, NEW a \in User, NEW t \in User, NEW r \in Room, BeginKick(q, a, t, r)
  PROVE  Structure'
<1> DEFINE x == [Idle EXCEPT !.pc = "kick", !.room = r, !.actor = a, !.target = t]
<1>1. /\ x \in Request /\ x.pc = "kick" /\ x.room = r
      /\ x.actor = a /\ x.target = t
  BY IdleType DEF Request, Member
<1>2. req' = [req EXCEPT ![q] = x] /\ UNCHANGED <<tables, live>>
  BY DEF BeginKick, Begin
<1> HIDE DEF x
<1>3. RequestOK(x, rooms, members)
  BY <1>1 DEF RequestOK, Structure, RowsHaveRooms, BeginKick, IsOwner, Active, Present
<1> QED
  BY <1>1, <1>2, <1>3, QuietStep DEF BeginKick

LEMMA BeginEndStructure ==
  ASSUME Structure, NEW q \in Req, NEW a \in User, NEW r \in Room, BeginEnd(q, a, r)
  PROVE  Structure'
<1> DEFINE x == [Idle EXCEPT !.pc = "end", !.room = r, !.actor = a, !.target = Nil]
<1>1. /\ x \in Request /\ x.pc = "end" /\ x.room = r
      /\ x.actor = a /\ x.target = Nil
  BY IdleType DEF Request, Member
<1>2. req' = [req EXCEPT ![q] = x] /\ UNCHANGED <<tables, live>>
  BY DEF BeginEnd, Begin
<1> HIDE DEF x
<1>3. RequestOK(x, rooms, members)
  BY <1>1 DEF RequestOK, Structure, RowsHaveRooms, BeginEnd, IsOwner, Active, Present
<1> QED
  BY <1>1, <1>2, <1>3, QuietStep DEF BeginEnd

LEMMA BeginTransferStructure ==
  ASSUME Structure, NEW q \in Req, NEW a \in User, NEW t \in User, NEW r \in Room, BeginTransfer(q, a, t, r)
  PROVE  Structure'
<1> DEFINE x == [Idle EXCEPT !.pc = "assert", !.room = r, !.actor = a, !.target = t]
<1>1. /\ x \in Request /\ x.pc = "assert" /\ x.room = r
      /\ x.actor = a /\ x.target = t
  BY IdleType DEF Request, Member
<1>2. req' = [req EXCEPT ![q] = x] /\ UNCHANGED <<tables, live>>
  BY DEF BeginTransfer, Begin
<1> HIDE DEF x
<1>3. RequestOK(x, rooms, members)
  BY <1>1 DEF RequestOK, Structure, RowsHaveRooms, BeginTransfer, IsOwner, Active, Present
<1> QED
  BY <1>1, <1>2, <1>3, QuietStep DEF BeginTransfer

LEMMA WsRoomOpenStructure ==
  ASSUME Structure, NEW q \in Req, NEW u \in User, NEW r \in Room, WsRoomOpen(q, u, r)
  PROVE  Structure'
<1> DEFINE x == [Idle EXCEPT !.pc = "wsmember", !.room = r, !.actor = u, !.target = u]
<1>1. /\ x \in Request /\ x.pc = "wsmember" /\ x.room = r
      /\ x.actor = u /\ x.target = u
  BY IdleType DEF Request, Member
<1>2. req' = [req EXCEPT ![q] = x] /\ UNCHANGED <<tables, live>>
  BY DEF WsRoomOpen, Begin
<1> HIDE DEF x
<1>3. RequestOK(x, rooms, members)
  BY <1>1 DEF RequestOK, Structure, RowsHaveRooms, WsRoomOpen, Open
<1> QED
  BY <1>1, <1>2, <1>3, QuietStep DEF WsRoomOpen

----------------------------------------------------------------------------
(* Checks *)

LEMMA CodeTakenStructure ==
  ASSUME Structure, NEW q \in Req, NEW code \in Code, CodeTaken(q, code)
  PROVE  Structure'
<1>1. CASE Finish(q)
  BY <1>1, FinishStep DEF CodeTaken
<1>2. CASE /\ req[q].attempts + 1 < MaxCodeAttempts
           /\ req' = [req EXCEPT ![q].attempts = @ + 1]
  <2>1. req[q] \in Request /\ RequestOK(req[q], rooms, members) /\ req[q].pc = "create"
    BY DEF Structure, TypeOK, CodeTaken, At
  <2> DEFINE x == [req[q] EXCEPT !.attempts = @ + 1]
  <2>2. /\ x \in Request /\ x.pc = req[q].pc /\ x.room = req[q].room
        /\ x.actor = req[q].actor /\ x.target = req[q].target
    BY SMTT(30), <1>2, <2>1 DEF Request
  <2>3. req' = [req EXCEPT ![q] = x] /\ UNCHANGED <<tables, live>>
    BY <1>2 DEF CodeTaken
  <2> HIDE DEF x
  <2>4. RequestOK(x, rooms, members)
    BY <2>1, <2>2 DEF RequestOK
  <2>5. \A p \in Req \ {q} : req[p].room # x.room
    BY <2>1, <2>2 DEF Structure, CreateAlone
  <2> QED
    BY <2>2, <2>3, <2>4, <2>5, QuietStep
<1> QED
  BY <1>1, <1>2 DEF CodeTaken

LEMMA GetMemberStructure ==
  ASSUME Structure, NEW q \in Req, GetMember(q)
  PROVE  Structure'
<1> DEFINE r == req[q].room
           u == req[q].target
<1>1. CASE Finish(q)
  BY <1>1, FinishStep DEF GetMember
<1>2. CASE /\ Present(r, u)
           /\ req' = [req EXCEPT ![q].pc = "joined", ![q].member = MemberOf(r, u)]
  <2>1. req[q] \in Request /\ RequestOK(req[q], rooms, members) /\ req[q].pc = "get"
    BY DEF Structure, TypeOK, GetMember, At
  <2>2. MemberOf(r, u) \in Member
    <3>1. members[r][u] \in MemberRow
      BY SMTT(30), <1>2, <2>1 DEF Present, Structure, TypeOK, RequestOK
    <3> QED
      BY <3>1 DEF MemberOf, Member, MemberRow
  <2> DEFINE x == [req[q] EXCEPT !.pc = "joined", !.member = MemberOf(r, u)]
  <2>3. /\ x \in Request /\ x.pc = "joined" /\ x.room = req[q].room
        /\ x.actor = req[q].actor /\ x.target = req[q].target
    BY <2>1, <2>2 DEF Request
  <2>4. req' = [req EXCEPT ![q] = x] /\ UNCHANGED <<tables, live>>
    BY <1>2 DEF GetMember
  <2> HIDE DEF x
  <2>5. RequestOK(x, rooms, members)
    BY <2>1, <2>3 DEF RequestOK
  <2> QED
    BY <2>3, <2>4, <2>5, QuietStep
<1> QED
  BY <1>1, <1>2 DEF GetMember

LEMMA AssertTargetStructure ==
  ASSUME Structure, NEW q \in Req, AssertTarget(q)
  PROVE  Structure'
<1>1. CASE Finish(q)
  BY <1>1, FinishStep DEF AssertTarget, CheckTarget
<1>2. CASE Active(req[q].room, req[q].target) /\ Goto(q, "exists")
  <2>1. req[q] \in Request /\ RequestOK(req[q], rooms, members) /\ req[q].pc = "assert"
    BY DEF Structure, TypeOK, AssertTarget, CheckTarget, At
  <2> DEFINE x == [req[q] EXCEPT !.pc = "exists"]
  <2>2. /\ x \in Request /\ x.pc = "exists" /\ x.room = req[q].room
        /\ x.actor = req[q].actor /\ x.target = req[q].target
    BY <2>1 DEF Request
  <2>3. req' = [req EXCEPT ![q] = x] /\ UNCHANGED <<tables, live>>
    BY <1>2 DEF AssertTarget, CheckTarget, Goto
  <2> HIDE DEF x
  <2>4. RequestOK(x, rooms, members)
    BY <1>2, <2>1, <2>2 DEF RequestOK, Active, Present
  <2> QED
    BY <2>2, <2>3, <2>4, QuietStep
<1> QED
  BY <1>1, <1>2 DEF AssertTarget, CheckTarget

LEMMA TargetExistsStructure ==
  ASSUME Structure, NEW q \in Req, TargetExists(q)
  PROVE  Structure'
<1>1. CASE Finish(q)
  BY <1>1, FinishStep DEF TargetExists, CheckTarget
<1>2. CASE Active(req[q].room, req[q].target) /\ Goto(q, "transfer")
  <2>1. req[q] \in Request /\ RequestOK(req[q], rooms, members) /\ req[q].pc = "exists"
    BY DEF Structure, TypeOK, TargetExists, CheckTarget, At
  <2> DEFINE x == [req[q] EXCEPT !.pc = "transfer"]
  <2>2. /\ x \in Request /\ x.pc = "transfer" /\ x.room = req[q].room
        /\ x.actor = req[q].actor /\ x.target = req[q].target
    BY <2>1 DEF Request
  <2>3. req' = [req EXCEPT ![q] = x] /\ UNCHANGED <<tables, live>>
    BY <1>2 DEF TargetExists, CheckTarget, Goto
  <2> HIDE DEF x
  <2>4. RequestOK(x, rooms, members)
    BY <1>2, <2>1, <2>2 DEF RequestOK, Active, Present
  <2> QED
    BY <2>2, <2>3, <2>4, QuietStep
<1> QED
  BY <1>1, <1>2 DEF TargetExists, CheckTarget

LEMMA WsMemberStructure ==
  ASSUME Structure, NEW q \in Req, WsMember(q)
  PROVE  Structure'
<1>1. CASE Finish(q)
  BY <1>1, FinishStep DEF WsMember, CheckTarget
<1>2. CASE Active(req[q].room, req[q].target) /\ Goto(q, "wsjoin")
  <2>1. req[q] \in Request /\ RequestOK(req[q], rooms, members) /\ req[q].pc = "wsmember"
    BY DEF Structure, TypeOK, WsMember, CheckTarget, At
  <2> DEFINE x == [req[q] EXCEPT !.pc = "wsjoin"]
  <2>2. /\ x \in Request /\ x.pc = "wsjoin" /\ x.room = req[q].room
        /\ x.actor = req[q].actor /\ x.target = req[q].target
    BY <2>1 DEF Request
  <2>3. req' = [req EXCEPT ![q] = x] /\ UNCHANGED <<tables, live>>
    BY <1>2 DEF WsMember, CheckTarget, Goto
  <2> HIDE DEF x
  <2>4. RequestOK(x, rooms, members)
    BY <1>2, <2>1, <2>2 DEF RequestOK, Active, Present
  <2> QED
    BY <2>2, <2>3, <2>4, QuietStep
<1> QED
  BY <1>1, <1>2 DEF WsMember, CheckTarget

----------------------------------------------------------------------------
(* Writes *)

LEMMA CreateRoomStructure ==
  ASSUME Structure, NEW q \in Req, NEW code \in Code, CreateRoom(q, code)
  PROVE  Structure'
<1> DEFINE r == req[q].room
           u == req[q].actor
           row == [code |-> code, owner |-> u, ended |-> FALSE]
           own == [role |-> "owner", left |-> FALSE, kicked |-> FALSE, muted |-> FALSE]
           mem == [role |-> "owner", muted |-> FALSE]
<1>1. /\ TypeOK /\ req[q].pc = "create" /\ r \in Room /\ u \in User /\ rooms[r] = Nil
  BY DEF Structure, CreateRoom, At, RequestOK
<1>2. /\ row \in RoomRow /\ own \in MemberRow /\ mem \in Member
  BY <1>1 DEF RoomRow, MemberRow, Member
<1>3. /\ rooms' = [rooms EXCEPT ![r] = row]
      /\ members' = [members EXCEPT ![r][u] = own]
      /\ view' = IF r \in Watched
                 THEN [view EXCEPT ![r] = [view[r] EXCEPT ![u] = mem]] ELSE view
      /\ req' = [req EXCEPT ![q] = Idle]
      /\ UNCHANGED <<sockets, overlap>>
  BY DEF CreateRoom, Deliver, Finish
<1> HIDE DEF row, own, mem
<1>4. /\ rooms' \in [Room -> RoomRow \cup {Nil}]
      /\ members' \in [Room -> [User -> MemberRow \cup {Nil}]]
      /\ view' \in [Room -> [User -> Member \cup {Nil}]]
  BY <1>1, <1>2, <1>3 DEF TypeOK
<1>5. /\ \A o \in Room : rooms[o] # Nil => rooms'[o] # Nil
      /\ \A o \in Room : rooms'[o] # Nil => rooms[o] # Nil \/ o = r
      /\ rooms'[r] # Nil
  BY <1>1, <1>2, <1>3 DEF TypeOK
<1>6. \A o \in Room, w \in User :
        /\ members[o][w] # Nil => members'[o][w] # Nil
        /\ members'[o][w] # Nil => members[o][w] # Nil \/ o = r
  BY <1>1, <1>2, <1>3 DEF TypeOK
<1>7. \A o \in Room, w \in User : members'[o][w] # Nil => rooms'[o] # Nil
  BY <1>5, <1>6 DEF Structure, RowsHaveRooms
<1>8. RequestOK(Idle, rooms', members')
  BY IdleType DEF RequestOK
<1> QED
  BY <1>1, <1>3, <1>4, <1>5, <1>6, <1>7, <1>8, IdleType, WriteStep

\* A step of q that replaces a member row and goes on as x.
LEMMA RowStep ==
  ASSUME Structure, NEW q \in Req, NEW x \in Request, NEW r \in Room,
         NEW u \in User, NEW row \in MemberRow, rooms[r] # Nil,
         members' = [members EXCEPT ![r][u] = row],
         req' = [req EXCEPT ![q] = x], RequestOK(x, rooms, members),
         x.pc # "create", UNCHANGED <<rooms, live>>
  PROVE  Structure'
<1>1. TypeOK
  BY DEF Structure
<1>2. /\ rooms' \in [Room -> RoomRow \cup {Nil}]
      /\ members' \in [Room -> [User -> MemberRow \cup {Nil}]]
      /\ view' \in [Room -> [User -> Member \cup {Nil}]]
      /\ UNCHANGED <<rooms, sockets, overlap>>
  BY <1>1 DEF TypeOK, live
<1>3. \A o \in Room, w \in User :
        /\ members[o][w] # Nil => members'[o][w] # Nil
        /\ members'[o][w] # Nil => members[o][w] # Nil \/ o = r
  BY <1>1 DEF TypeOK
<1>4. \A o \in Room, w \in User : members'[o][w] # Nil => rooms'[o] # Nil
  BY SMTT(30), <1>2, <1>3 DEF Structure, RowsHaveRooms
<1>5. RequestOK(x, rooms', members')
  BY <1>2, <1>3 DEF RequestOK
<1> QED
  BY <1>2, <1>3, <1>4, <1>5, WriteStep

LEMMA UpsertMemberStructure ==
  ASSUME Structure, NEW q \in Req, UpsertMember(q)
  PROVE  Structure'
<1> DEFINE r == req[q].room
           u == req[q].target
<1>1. /\ TypeOK /\ req[q] \in Request /\ RequestOK(req[q], rooms, members)
      /\ req[q].pc = "upsert" /\ r \in Room /\ u \in User /\ rooms[r] # Nil
  BY DEF Structure, TypeOK, UpsertMember, At, RequestOK
<1>2. Upserted(members[r][u]) \in MemberRow
  <2>1. members[r][u] = Nil \/ members[r][u] \in MemberRow
    BY SMTT(30), <1>1 DEF TypeOK
  <2> QED
    BY <2>1 DEF Upserted, NewMember, MemberRow
<1> DEFINE x == [req[q] EXCEPT !.pc = "get"]
<1>3. /\ x \in Request /\ x.pc = "get" /\ x.room = r
      /\ x.actor = req[q].actor /\ x.target = u
  BY <1>1 DEF Request
<1>4. /\ members' = [members EXCEPT ![r][u] = Upserted(members[r][u])]
      /\ req' = [req EXCEPT ![q] = x] /\ UNCHANGED <<rooms, live>>
  BY <1>1 DEF UpsertMember, Goto, TypeOK
<1> HIDE DEF x
<1>5. RequestOK(x, rooms, members)
  BY <1>1, <1>3 DEF RequestOK
<1> QED
  BY <1>1, <1>2, <1>3, <1>4, <1>5, RowStep

LEMMA SetMutedStructure ==
  ASSUME Structure, NEW q \in Req, SetMuted(q)
  PROVE  Structure'
<1> DEFINE r == req[q].room
           u == req[q].target
<1>1. /\ TypeOK /\ req[q] \in Request /\ RequestOK(req[q], rooms, members)
      /\ req[q].pc = "mute" /\ r \in Room /\ u \in User /\ rooms[r] # Nil
  BY DEF Structure, TypeOK, SetMuted, At, RequestOK
<1>2. CASE ~Present(r, u)
  BY <1>2, FinishStep DEF SetMuted, UpdateTarget
<1>3. CASE Present(r, u)
  <2> DEFINE x == [req[q] EXCEPT !.pc = "muted"]
             row == [members[r][u] EXCEPT !.muted = req[q].member.muted]
  <2>1. row \in MemberRow
    <3>1. members[r][u] \in MemberRow
      BY SMTT(30), <1>1, <1>3 DEF Present, TypeOK
    <3> QED
      BY <1>1, <3>1 DEF MemberRow, Request, Member
  <2>2. /\ x \in Request /\ x.pc = "muted" /\ x.room = r
        /\ x.actor = req[q].actor /\ x.target = u
    BY <1>1 DEF Request
  <2>3. /\ members' = [members EXCEPT ![r][u] = row]
        /\ req' = [req EXCEPT ![q] = x] /\ UNCHANGED <<rooms, live>>
    BY <1>3 DEF SetMuted, UpdateTarget, TargetRow, Goto
  <2> HIDE DEF x, row
  <2>4. RequestOK(x, rooms, members)
    BY <1>1, <2>2 DEF RequestOK
  <2> QED
    BY <1>1, <2>1, <2>2, <2>3, <2>4, RowStep
<1> QED
  BY <1>2, <1>3

LEMMA KickStructure ==
  ASSUME Structure, NEW q \in Req, Kick(q)
  PROVE  Structure'
<1> DEFINE r == req[q].room
           u == req[q].target
<1>1. /\ TypeOK /\ req[q] \in Request /\ RequestOK(req[q], rooms, members)
      /\ req[q].pc = "kick" /\ r \in Room /\ u \in User /\ rooms[r] # Nil
  BY DEF Structure, TypeOK, Kick, At, RequestOK
<1>2. CASE ~Present(r, u)
  BY <1>2, FinishStep DEF Kick, UpdateTarget
<1>3. CASE Present(r, u)
  <2> DEFINE x == [req[q] EXCEPT !.pc = "kicked"]
             row == [members[r][u] EXCEPT !.kicked = TRUE, !.left = TRUE]
  <2>1. row \in MemberRow
    <3>1. members[r][u] \in MemberRow
      BY SMTT(30), <1>1, <1>3 DEF Present, TypeOK
    <3> QED
      BY <1>1, <3>1 DEF MemberRow, Request, Member
  <2>2. /\ x \in Request /\ x.pc = "kicked" /\ x.room = r
        /\ x.actor = req[q].actor /\ x.target = u
    BY <1>1 DEF Request
  <2>3. /\ members' = [members EXCEPT ![r][u] = row]
        /\ req' = [req EXCEPT ![q] = x] /\ UNCHANGED <<rooms, live>>
    BY <1>3 DEF Kick, UpdateTarget, TargetRow, Goto
  <2> HIDE DEF x, row
  <2>4. RequestOK(x, rooms, members)
    BY <1>1, <2>2 DEF RequestOK
  <2> QED
    BY <1>1, <2>1, <2>2, <2>3, <2>4, RowStep
<1> QED
  BY SMTT(30), <1>2, <1>3

LEMMA MarkLeftStructure ==
  ASSUME Structure, NEW q \in Req, NEW u \in User, NEW r \in Room, MarkLeft(q, u, r)
  PROVE  Structure'
<1> DEFINE x == [Idle EXCEPT !.pc = "left", !.room = r, !.actor = u, !.target = u]
<1>1. /\ x \in Request /\ x.pc = "left" /\ x.room = r
      /\ x.actor = u /\ x.target = u
  BY IdleType DEF Request
<1>2. /\ req' = [req EXCEPT ![q] = x] /\ UNCHANGED <<rooms, live>>
      /\ rooms[r] # Nil /\ TypeOK
  BY DEF MarkLeft, Begin, Structure
<1> HIDE DEF x
<1>3. RequestOK(x, rooms, members)
  BY <1>1, <1>2 DEF RequestOK
<1>4. CASE Present(r, u)
  <2> DEFINE row == [members[r][u] EXCEPT !.left = TRUE]
  <2>1. row \in MemberRow
    <3>1. members[r][u] \in MemberRow
      BY SMTT(30), <1>2, <1>4 DEF Present, TypeOK
    <3> QED
      BY <3>1 DEF MemberRow
  <2>2. members' = [members EXCEPT ![r][u] = row]
    BY <1>2, <1>4 DEF MarkLeft, TypeOK
  <2> HIDE DEF row
  <2> QED
    BY <1>1, <1>2, <1>3, <2>1, <2>2, RowStep
<1>5. CASE ~Present(r, u)
  <2>1. members' = [members EXCEPT ![r][u] = members[r][u]]
    BY <1>2, <1>5 DEF MarkLeft, TypeOK
  <2>2. members[r] \in [User -> MemberRow \cup {Nil}]
    BY <1>2 DEF TypeOK
  <2>3. [members[r] EXCEPT ![u] = members[r][u]] = members[r]
    BY <2>2
  <2>4. members' = members
    BY <1>2, <2>1, <2>3 DEF TypeOK
  <2> QED
    BY <1>1, <1>2, <1>3, <2>4, QuietStep DEF tables
<1> QED
  BY <1>4, <1>5

LEMMA EndRoomStructure ==
  ASSUME Structure, NEW q \in Req, EndRoom(q)
  PROVE  Structure'
<1> DEFINE r == req[q].room
<1>1. /\ TypeOK /\ req[q] \in Request /\ RequestOK(req[q], rooms, members)
      /\ req[q].pc = "end" /\ r \in Room /\ rooms[r] # Nil
  BY DEF Structure, TypeOK, EndRoom, At, RequestOK
<1>2. CASE ~Open(r)
  BY <1>2, FinishStep DEF EndRoom, tables
<1>3. CASE Open(r)
  <2> DEFINE x == [req[q] EXCEPT !.pc = "ended"]
             row == [rooms[r] EXCEPT !.ended = TRUE]
  <2>1. row \in RoomRow
    <3>1. rooms[r] \in RoomRow
      BY <1>1 DEF TypeOK
    <3> QED
      BY <3>1 DEF RoomRow
  <2>2. /\ x \in Request /\ x.pc = "ended" /\ x.room = r
        /\ x.actor = req[q].actor /\ x.target = req[q].target
    BY <1>1 DEF Request
  <2>3. /\ rooms' = [rooms EXCEPT ![r] = row]
        /\ req' = [req EXCEPT ![q] = x] /\ UNCHANGED <<members, live>>
    BY <1>3 DEF EndRoom, Goto
  <2> HIDE DEF x, row
  <2>4. /\ rooms' \in [Room -> RoomRow \cup {Nil}]
        /\ members' \in [Room -> [User -> MemberRow \cup {Nil}]]
        /\ view' \in [Room -> [User -> Member \cup {Nil}]]
        /\ UNCHANGED <<members, sockets, overlap>>
        /\ \A o \in Room : rooms[o] # Nil <=> rooms'[o] # Nil
    BY <1>1, <2>1, <2>3 DEF TypeOK, live
  <2>5. RequestOK(x, rooms', members')
    BY <1>1, <2>2, <2>4 DEF RequestOK
  <2>6. \A o \in Room, w \in User : members'[o][w] # Nil => rooms'[o] # Nil
    BY <2>4 DEF Structure, RowsHaveRooms
  <2> QED
    BY <2>2, <2>3, <2>4, <2>5, <2>6, WriteStep
<1> QED
  BY <1>2, <1>3

\* What the commit of a transfer writes.
LEMMA TransferWrites ==
  ASSUME Structure, NEW q \in Req, TransferOwnership(q), Transferable(req[q].room)
  PROVE  LET r == req[q].room
             a == req[q].actor
             t == req[q].target
         IN  /\ r \in Room /\ a \in User /\ t \in User /\ a # t
             /\ Open(r)
             /\ members[r][a] \in MemberRow /\ members[r][t] \in MemberRow
             /\ rooms' = [rooms EXCEPT ![r] = [rooms[r] EXCEPT !.owner = t]]
             /\ [rooms[r] EXCEPT !.owner = t] \in RoomRow
             /\ members' = [members EXCEPT ![r] =
                   [members[r] EXCEPT ![t] = [members[r][t] EXCEPT !.role = "owner"],
                                      ![a] = [members[r][a] EXCEPT !.role = "member"]]]
             /\ [members[r][t] EXCEPT !.role = "owner"] \in MemberRow
             /\ [members[r][a] EXCEPT !.role = "member"] \in MemberRow
             /\ req' = [req EXCEPT ![q] = [req[q] EXCEPT !.pc = "transferred"]]
             /\ UNCHANGED live
<1> DEFINE r == req[q].room
           a == req[q].actor
           t == req[q].target
<1>1. /\ TypeOK /\ r \in Room /\ a \in User /\ t \in User /\ a # t
      /\ members[r][a] # Nil /\ members[r][t] # Nil /\ rooms[r] # Nil
  BY DEF Structure, TransferOwnership, At, RequestOK
<1>2. /\ members[r][a] \in MemberRow /\ members[r][t] \in MemberRow
      /\ rooms[r] \in RoomRow
  <2>1. /\ \A o \in Room : rooms[o] \in RoomRow \cup {Nil}
        /\ \A o \in Room, u \in User : members[o][u] \in MemberRow \cup {Nil}
    BY SMTT(30), <1>1 DEF TypeOK
  <2> QED
    BY <1>1, <2>1
<1>3. /\ [rooms[r] EXCEPT !.owner = t] \in RoomRow
      /\ [members[r][t] EXCEPT !.role = "owner"] \in MemberRow
      /\ [members[r][a] EXCEPT !.role = "member"] \in MemberRow
  BY <1>1, <1>2 DEF MemberRow, RoomRow
<1>4. /\ rooms' = [rooms EXCEPT ![r] = [rooms[r] EXCEPT !.owner = t]]
      /\ req' = [req EXCEPT ![q] = [req[q] EXCEPT !.pc = "transferred"]]
      /\ UNCHANGED live
      /\ Open(r)
  BY DEF TransferOwnership, Goto, Transferable
<1>5. members' = [members EXCEPT ![r][t].role = "owner", ![r][a].role = "member"]
  BY DEF TransferOwnership
<1>6. members' = [members EXCEPT ![r] =
        [members[r] EXCEPT ![t] = [members[r][t] EXCEPT !.role = "owner"],
                           ![a] = [members[r][a] EXCEPT !.role = "member"]]]
  BY <1>1, <1>5 DEF TypeOK
<1> QED
  BY <1>1, <1>2, <1>3, <1>4, <1>6

LEMMA TransferOwnershipStructure ==
  ASSUME Structure, NEW q \in Req, TransferOwnership(q)
  PROVE  Structure'
<1> DEFINE r == req[q].room
           a == req[q].actor
           t == req[q].target
           x == [req[q] EXCEPT !.pc = "transferred"]
           room == [rooms[r] EXCEPT !.owner = t]
           new == [members[r][t] EXCEPT !.role = "owner"]
           old == [members[r][a] EXCEPT !.role = "member"]
<1>1. CASE ~Transferable(r)
  BY <1>1, FinishStep DEF TransferOwnership
<1>2. CASE Transferable(r)
  <2>1. /\ TypeOK /\ req[q] \in Request /\ RequestOK(req[q], rooms, members)
        /\ req[q].pc = "transfer" /\ rooms[r] # Nil
    BY DEF Structure, TypeOK, TransferOwnership, At, RequestOK
  <2>2. /\ r \in Room /\ a \in User /\ t \in User /\ a # t
        /\ rooms' = [rooms EXCEPT ![r] = room] /\ room \in RoomRow
        /\ members' = [members EXCEPT ![r] = [members[r] EXCEPT ![t] = new, ![a] = old]]
        /\ new \in MemberRow /\ old \in MemberRow
        /\ req' = [req EXCEPT ![q] = x] /\ UNCHANGED live
    BY <1>2, TransferWrites
  <2>3. /\ x \in Request /\ x.pc = "transferred" /\ x.room = r
        /\ x.actor = a /\ x.target = t
    BY <2>1 DEF Request
  <2> HIDE DEF x, room, new, old
  <2>4. [members[r] EXCEPT ![t] = new, ![a] = old] \in [User -> MemberRow \cup {Nil}]
    BY <2>1, <2>2 DEF TypeOK
  <2>5. /\ rooms' \in [Room -> RoomRow \cup {Nil}]
        /\ members' \in [Room -> [User -> MemberRow \cup {Nil}]]
        /\ view' \in [Room -> [User -> Member \cup {Nil}]]
        /\ UNCHANGED <<sockets, overlap>>
        /\ \A o \in Room : rooms[o] # Nil <=> rooms'[o] # Nil
    BY <2>1, <2>2, <2>4 DEF TypeOK, live
  <2>6. \A o \in Room, w \in User :
          /\ members[o][w] # Nil => members'[o][w] # Nil
          /\ members'[o][w] # Nil => members[o][w] # Nil \/ o = r
    BY <2>1, <2>2, <2>4 DEF TypeOK
  <2>7. \A o \in Room, w \in User : members'[o][w] # Nil => rooms'[o] # Nil
    BY <2>1, <2>5, <2>6 DEF Structure, RowsHaveRooms
  <2>8. RequestOK(x, rooms', members')
    BY <2>1, <2>2, <2>3, <2>5 DEF RequestOK
  <2> QED
    BY <2>2, <2>3, <2>5, <2>6, <2>7, <2>8, WriteStep
<1> QED
  BY SMTT(30), <1>1, <1>2

----------------------------------------------------------------------------
(* Broadcasts and sockets *)

LEMMA DeliverType ==
  ASSUME TypeOK, NEW r \in Room, NEW copy \in [User -> Member \cup {Nil}],
         Deliver(r, copy)
  PROVE  view' \in [Room -> [User -> Member \cup {Nil}]]
  BY DEF Deliver, TypeOK

\* A broadcast that ends request q.
LEMMA BroadcastStep ==
  ASSUME Structure, NEW q \in Req, Finish(q), UNCHANGED <<tables, sockets, overlap>>,
         NEW r \in Room, NEW copy \in [User -> Member \cup {Nil}], Deliver(r, copy)
  PROVE  Structure'
<1>1. /\ TypeOK /\ RequestOK(Idle, rooms, members)
      /\ req' = [req EXCEPT ![q] = Idle] /\ UNCHANGED tables
  BY IdleType DEF RequestOK, Structure, Finish
<1>2. /\ sockets' \in [Room -> SUBSET User] /\ overlap' \in [Room -> SUBSET User]
  BY <1>1 DEF TypeOK
<1>3. view' \in [Room -> [User -> Member \cup {Nil}]]
  BY <1>1, DeliverType
<1> QED
  BY <1>1, <1>2, <1>3, IdleType, ReadStep

LEMMA BroadcastMemberJoinedStructure ==
  ASSUME Structure, NEW q \in Req, BroadcastMemberJoined(q)
  PROVE  Structure'
<1> DEFINE r == req[q].room
           copy == [view[r] EXCEPT ![req[q].target] = req[q].member]
<1>1. TypeOK /\ req[q] \in Request /\ r \in Room
  BY DEF Structure, TypeOK, BroadcastMemberJoined, At, RequestOK
<1>2. copy \in [User -> Member \cup {Nil}]
  <2>1. req[q].member \in Member
    BY <1>1 DEF Request
  <2> QED
    BY <1>1, <2>1 DEF TypeOK
<1> QED
  BY <1>1, <1>2, BroadcastStep DEF BroadcastMemberJoined

LEMMA BroadcastMuteStructure ==
  ASSUME Structure, NEW q \in Req, BroadcastMute(q)
  PROVE  Structure'
<1> DEFINE r == req[q].room
           u == req[q].target
           entry == IF view[r][u] = Nil THEN view[r][u]
                    ELSE [view[r][u] EXCEPT !.muted = req[q].member.muted]
           copy == [view[r] EXCEPT ![u] = entry]
<1>1. TypeOK /\ req[q] \in Request /\ r \in Room /\ u \in User
  BY DEF Structure, TypeOK, BroadcastMute, At, RequestOK
<1>2. entry \in Member \cup {Nil}
  <2>1. view[r][u] \in Member \cup {Nil} /\ req[q].member.muted \in BOOLEAN
    BY SMTT(30), <1>1 DEF TypeOK, Request, Member
  <2> QED
    BY <2>1 DEF Member
<1>3. Deliver(r, copy) /\ Finish(q) /\ UNCHANGED <<tables, sockets, overlap>>
  BY <1>1 DEF BroadcastMute, TypeOK
<1> HIDE DEF entry
<1>4. copy \in [User -> Member \cup {Nil}]
  BY <1>1, <1>2 DEF TypeOK
<1> HIDE DEF copy
<1> QED
  BY <1>1, <1>3, <1>4, BroadcastStep

LEMMA BroadcastOwnerChangedStructure ==
  ASSUME Structure, NEW q \in Req, BroadcastOwnerChanged(q)
  PROVE  Structure'
<1> DEFINE r == req[q].room
           role == NewRoles(q)
           copy == [u \in User |-> IF u \in DOMAIN role /\ view[r][u] # Nil
                                   THEN [view[r][u] EXCEPT !.role = role[u]]
                                   ELSE view[r][u]]
<1>1. TypeOK /\ r \in Room
  BY DEF Structure, BroadcastOwnerChanged, At, RequestOK
<1>2. \A u \in DOMAIN role : role[u] \in {"owner", "member"}
  BY DEF NewRoles
<1>3. Deliver(r, copy) /\ Finish(q) /\ UNCHANGED <<tables, sockets, overlap>>
  BY DEF BroadcastOwnerChanged
<1> HIDE DEF role
<1>4. ASSUME NEW u \in User PROVE copy[u] \in Member \cup {Nil}
  <2>1. view[r][u] \in Member \cup {Nil}
    BY SMTT(30), <1>1 DEF TypeOK
  <2> QED
    BY <1>2, <2>1 DEF Member
<1>5. copy \in [User -> Member \cup {Nil}]
  BY <1>4
<1> HIDE DEF copy
<1> QED
  BY <1>1, <1>3, <1>5, BroadcastStep

\* What an eviction does, to the requests and to the sockets.
LEMMA OvertakeReq ==
  ASSUME TypeOK, NEW q \in Req, NEW r \in Room, NEW out \in SUBSET User,
         Overtake(q, r, out)
  PROVE  /\ req' \in [Req -> Request]
         /\ req'[q] = Idle
         /\ \A p \in Req \ {q} :
              /\ req'[p].pc = req[p].pc /\ req'[p].room = req[p].room
              /\ req'[p].actor = req[p].actor /\ req'[p].target = req[p].target
              /\ req'[p].overtaken = (req[p].overtaken \/
                   /\ req[p].pc \in {"wsmember", "wsjoin"}
                   /\ req[p].room = r
                   /\ req[p].actor \in out)
<1>1. ASSUME NEW p \in Req
      PROVE  LET x == Overtaken(req[p], r, out)
             IN  /\ x \in Request
                 /\ x.pc = req[p].pc /\ x.room = req[p].room
                 /\ x.actor = req[p].actor /\ x.target = req[p].target
                 /\ x.overtaken = (req[p].overtaken \/
                      /\ req[p].pc \in {"wsmember", "wsjoin"}
                      /\ req[p].room = r
                      /\ req[p].actor \in out)
  <2>1. req[p] \in Request
    BY DEF TypeOK
  <2> QED
    BY <2>1 DEF Overtaken, Request
<1>2. req' = [p \in Req |-> IF p = q THEN Idle ELSE Overtaken(req[p], r, out)]
  BY DEF Overtake
<1> QED
  BY <1>1, <1>2, IdleType

LEMMA OvertakeStep ==
  ASSUME Structure, NEW q \in Req, NEW r \in Room, NEW out \in SUBSET User,
         Overtake(q, r, out), UNCHANGED tables,
         sockets' \in [Room -> SUBSET User], overlap' \in [Room -> SUBSET User],
         view' \in [Room -> [User -> Member \cup {Nil}]]
  PROVE  Structure'
<1>1. TypeOK
  BY DEF Structure
<1>2. rooms' = rooms /\ members' = members
  BY DEF tables
<1>3. RequestOK(Idle, rooms', members')
  BY IdleType DEF RequestOK
<1>4. (\A p \in Req : RequestOK(req'[p], rooms', members')) /\ CreateAlone'
  BY SMTT(30), <1>1, <1>2, <1>3, OvertakeReq, IdleType, RequestsKept
<1>5. TypeOK'
  BY <1>1, <1>2, OvertakeReq DEF TypeOK
<1>6. RowsHaveRooms'
  BY <1>2 DEF Structure, RowsHaveRooms
<1> QED
  BY <1>4, <1>5, <1>6 DEF Structure

LEMMA EvictStep ==
  ASSUME Structure, NEW q \in Req, NEW r \in Room, NEW out \in SUBSET User,
         Evict(q, r, out), UNCHANGED tables,
         view' \in [Room -> [User -> Member \cup {Nil}]]
  PROVE  Structure'
<1>1. /\ sockets' \in [Room -> SUBSET User]
      /\ overlap' \in [Room -> SUBSET User]
  BY DEF Evict, TypeOK, Structure
<1> QED
  BY SMTT(30), <1>1, OvertakeStep DEF Evict

LEMMA EvictMemberStructure ==
  ASSUME Structure, NEW q \in Req, AnnounceLeft(q) \/ KickConnection(q)
  PROVE  Structure'
<1> DEFINE r == req[q].room
           u == req[q].target
           copy == [view[r] EXCEPT ![u] = Nil]
<1>1. TypeOK /\ r \in Room /\ u \in User
  BY DEF Structure, AnnounceLeft, KickConnection, At, RequestOK
<1>2. Deliver(r, copy) /\ Evict(q, r, {u}) /\ UNCHANGED tables
  BY DEF AnnounceLeft, KickConnection
<1>3. copy \in [User -> Member \cup {Nil}]
  BY <1>1 DEF TypeOK
<1> HIDE DEF copy
<1>4. view' \in [Room -> [User -> Member \cup {Nil}]]
  BY <1>1, <1>2, <1>3, DeliverType
<1> QED
  BY SMTT(30), <1>1, <1>2, <1>4, EvictStep

LEMMA BroadcastRoomEndedStructure ==
  ASSUME Structure, NEW q \in Req, BroadcastRoomEnded(q)
  PROVE  Structure'
<1>1. /\ TypeOK /\ req[q].room \in Room
      /\ Evict(q, req[q].room, User) /\ UNCHANGED tables
  BY DEF Structure, BroadcastRoomEnded, At, RequestOK
<1>2. view' \in [Room -> [User -> Member \cup {Nil}]]
  BY <1>1 DEF BroadcastRoomEnded, TypeOK
<1> QED
  BY <1>1, <1>2, EvictStep

\* Whom a request that cannot go on leaves with a socket.
LEMMA ToEvictShape ==
  \A x : \A u \in User :
    u \in ToEvict(x) <=> (x.pc \in {"left", "kicked"} /\ x.target = u) \/ x.pc = "ended"
  BY SMTT(30) DEF ToEvict

LEMMA FailureSteps ==
  ASSUME Structure, NEW q \in Req, StatementFails(q)
  PROVE  \E r \in Room, out \in SUBSET User :
           /\ r = req[q].room /\ out = ToEvict(req[q]) /\ Overtake(q, r, out)
           /\ overlap' = [overlap EXCEPT ![r] = overlap[r] \cup (sockets[r] \cap out)]
           /\ UNCHANGED <<tables, sockets, view>>
<1>1. req[q].pc # "idle"
  BY DEF StatementFails
<1>2. req[q].room \in Room /\ (req[q].pc \in {"left", "kicked"} => req[q].target \in User)
  BY <1>1 DEF Structure, RequestOK
<1>3. ToEvict(req[q]) \in SUBSET User
  BY SMTT(30), <1>2 DEF ToEvict
<1> QED
  BY <1>2, <1>3 DEF StatementFails

LEMMA StatementFailsStructure ==
  ASSUME Structure, NEW q \in Req, StatementFails(q)
  PROVE  Structure'
<1>1. PICK r \in Room, out \in SUBSET User :
           /\ r = req[q].room /\ out = ToEvict(req[q]) /\ Overtake(q, r, out)
           /\ overlap' = [overlap EXCEPT ![r] = overlap[r] \cup (sockets[r] \cap out)]
           /\ UNCHANGED <<tables, sockets, view>>
  BY FailureSteps
<1>2. /\ sockets' \in [Room -> SUBSET User] /\ overlap' \in [Room -> SUBSET User]
      /\ view' \in [Room -> [User -> Member \cup {Nil}]]
  BY SMTT(30), <1>1 DEF Structure, TypeOK
<1> QED
  BY <1>1, <1>2, OvertakeStep DEF tables

LEMMA WsJoinStructure ==
  ASSUME Structure, NEW q \in Req, WsJoin(q)
  PROVE  Structure'
<1>1. /\ TypeOK /\ req[q].room \in Room /\ req[q].target \in User
      /\ RequestOK(Idle, rooms, members)
  BY IdleType DEF Structure, WsJoin, At, RequestOK
<1>2. /\ sockets' \in [Room -> SUBSET User] /\ overlap' \in [Room -> SUBSET User]
      /\ view' \in [Room -> [User -> Member \cup {Nil}]]
  BY SMTT(30), <1>1 DEF WsJoin, TypeOK
<1> QED
  BY <1>1, <1>2, IdleType, ReadStep DEF WsJoin, Finish, tables

LEMMA SocketGoneStructure ==
  ASSUME Structure, NEW u \in User, NEW r \in Room, SocketGone(u, r)
  PROVE  Structure'
<1>1. TypeOK' /\ rooms' = rooms /\ members' = members /\ req' = req
  BY DEF Structure, SocketGone, TypeOK, tables
<1> QED
  BY <1>1 DEF Structure, CreateAlone, RowsHaveRooms

LEMMA RestartStructure ==
  ASSUME Structure, Restart
  PROVE  Structure'
<1>1. TypeOK /\ rooms' = rooms /\ members' = members
  BY DEF Structure, Restart, tables
<1>2. ASSUME NEW r \in Room PROVE ListMembers(r) \in [User -> Member \cup {Nil}]
  BY SMTT(30), <1>1, <1>2 DEF TypeOK, ListMembers, Present, MemberOf, MemberRow, Member
<1>3. view' \in [Room -> [User -> Member \cup {Nil}]]
  BY <1>1, <1>2 DEF Restart, TypeOK
<1>4. sockets' \in [Room -> SUBSET User] /\ overlap' \in [Room -> SUBSET User]
  BY DEF Restart
<1>5. req' \in [Req -> Request] /\ \A q \in Req : req'[q] = Idle
  BY IdleType DEF Restart
<1>6. TypeOK'
  BY <1>1, <1>3, <1>4, <1>5 DEF TypeOK
<1>7. \A q \in Req : RequestOK(req'[q], rooms', members')
  BY <1>5, IdleType DEF RequestOK
<1>8. CreateAlone'
  BY <1>5, IdleType DEF CreateAlone
<1> QED
  BY <1>1, <1>6, <1>7, <1>8 DEF Structure, RowsHaveRooms

----------------------------------------------------------------------------
LEMMA InitStructure == Init => Structure
<1> SUFFICES ASSUME Init PROVE Structure
  OBVIOUS
<1>1. TypeOK
  BY IdleType DEF Init, TypeOK
<1>2. (\A q \in Req : RequestOK(req[q], rooms, members)) /\ CreateAlone /\ RowsHaveRooms
  BY IdleType DEF Init, RequestOK, CreateAlone, RowsHaveRooms
<1> QED
  BY <1>1, <1>2 DEF Structure

LEMMA NextStructure == Structure /\ [Next]_vars => Structure'
<1> SUFFICES ASSUME Structure, [Next]_vars PROVE Structure'
  OBVIOUS
<1>1. ASSUME NEW q \in Req, Arrive(q) PROVE Structure'
  BY <1>1, BeginCreateStructure, BeginEndStructure, BeginJoinStructure,
     MarkLeftStructure, WsRoomOpenStructure, BeginMuteStructure,
     BeginKickStructure, BeginTransferStructure
  DEF Arrive
<1>2. ASSUME NEW q \in Req, Serve(q) PROVE Structure'
  BY <1>2, CreateRoomStructure, CodeTakenStructure, UpsertMemberStructure,
     GetMemberStructure, BroadcastMemberJoinedStructure, EvictMemberStructure,
     SetMutedStructure, BroadcastMuteStructure, KickStructure, EndRoomStructure,
     BroadcastRoomEndedStructure, AssertTargetStructure, TargetExistsStructure,
     TransferOwnershipStructure, BroadcastOwnerChangedStructure,
     WsMemberStructure, WsJoinStructure
  DEF Serve
<1>3. ASSUME NEW r \in Room, NEW u \in User, SocketGone(u, r) PROVE Structure'
  BY <1>3, SocketGoneStructure
<1>4. CASE UNCHANGED vars
  BY <1>4 DEF vars, tables, live, Structure, TypeOK, CreateAlone, RowsHaveRooms
<1>5. CASE Restart
  BY <1>5, RestartStructure
<1>6. ASSUME NEW q \in Req, StatementFails(q) PROVE Structure'
  BY <1>6, StatementFailsStructure
<1> QED
  BY <1>1, <1>2, <1>3, <1>4, <1>5, <1>6 DEF Next

LEMMA AlwaysStructure == Spec => []Structure
  BY InitStructure, NextStructure, PTL DEF Spec

\* The tables, the registered sockets, the client's member list and the
\* requests under way keep their types.
THEOREM RoomsTypeCorrect == Spec => []TypeOK
<1>1. Structure => TypeOK
  BY DEF Structure
<1> QED
  BY <1>1, AlwaysStructure, PTL

----------------------------------------------------------------------------
(***************************************************************************)
(* How a step changes the tables.  The invariants of the tables follow     *)
(* from this alone.                                                        *)
(***************************************************************************)
Created(r, u, room, row) ==
  /\ rooms[r] = Nil
  /\ rooms' = [rooms EXCEPT ![r] = room] /\ room.owner = u
  /\ members' = [members EXCEPT ![r][u] = row]
  /\ row.role = "owner" /\ ~row.kicked

\* A row is inserted, or replaced by one with the same role; it is not kicked
\* without having left, unless it was before.
RowWritten(r, u, row) ==
  LET old == members[r][u]
  IN  /\ rooms' = rooms
      /\ members' = [members EXCEPT ![r][u] = row]
      /\ old # Nil => old.role = row.role
      /\ row.kicked /\ ~row.left => old # Nil /\ old.kicked /\ ~old.left

Ended(r) ==
  /\ Open(r)
  /\ rooms' = [rooms EXCEPT ![r] = [rooms[r] EXCEPT !.ended = TRUE]]
  /\ members' = members

Transferred(r, a, t) ==
  /\ a # t /\ Open(r)
  /\ members[r][a] # Nil /\ members[r][t] # Nil
  /\ rooms' = [rooms EXCEPT ![r] = [rooms[r] EXCEPT !.owner = t]]
  /\ members' = [members EXCEPT ![r] =
       [members[r] EXCEPT ![t] = [members[r][t] EXCEPT !.role = "owner"],
                          ![a] = [members[r][a] EXCEPT !.role = "member"]]]

TableStep ==
  \/ UNCHANGED tables
  \/ \E r \in Room, u \in User, room \in RoomRow, row \in MemberRow :
       Created(r, u, room, row)
  \/ \E r \in Room, u \in User, row \in MemberRow : RowWritten(r, u, row)
  \/ \E r \in Room : Ended(r)
  \/ \E r \in Room, a, t \in User : Transferred(r, a, t)

LEMMA UpdateTargetTables ==
  ASSUME Structure, NEW q \in Req, SetMuted(q) \/ Kick(q)
  PROVE  TableStep
<1> DEFINE r == req[q].room
           u == req[q].target
<1>1. TypeOK /\ r \in Room /\ u \in User /\ req[q] \in Request
  BY DEF Structure, SetMuted, Kick, At, RequestOK, TypeOK
<1>2. CASE ~Present(r, u)
  BY <1>2 DEF SetMuted, Kick, UpdateTarget, TableStep
<1>3. CASE Present(r, u)
  <2>1. members[r][u] \in MemberRow /\ members[r][u] # Nil
    BY SMTT(30), <1>1, <1>3 DEF Present, TypeOK
  <2>2. CASE SetMuted(q)
    <3> DEFINE row == [members[r][u] EXCEPT !.muted = req[q].member.muted]
    <3>1. /\ row \in MemberRow /\ row.role = members[r][u].role
          /\ row.left = members[r][u].left /\ row.kicked = members[r][u].kicked
      BY <1>1, <2>1 DEF MemberRow, Request, Member
    <3>2. rooms' = rooms /\ members' = [members EXCEPT ![r][u] = row]
      BY <1>3, <2>2 DEF SetMuted, UpdateTarget, TargetRow
    <3> HIDE DEF row
    <3>3. RowWritten(r, u, row)
      BY <2>1, <3>1, <3>2 DEF RowWritten
    <3> QED
      BY <1>1, <3>1, <3>3 DEF TableStep
  <2>3. CASE Kick(q)
    <3> DEFINE row == [members[r][u] EXCEPT !.kicked = TRUE, !.left = TRUE]
    <3>1. row \in MemberRow /\ row.role = members[r][u].role /\ row.left
      BY <2>1 DEF MemberRow
    <3>2. rooms' = rooms /\ members' = [members EXCEPT ![r][u] = row]
      BY <1>3, <2>3 DEF Kick, UpdateTarget, TargetRow
    <3> HIDE DEF row
    <3>3. RowWritten(r, u, row)
      BY <3>1, <3>2 DEF RowWritten
    <3> QED
      BY <1>1, <3>1, <3>3 DEF TableStep
  <2> QED
    BY <2>2, <2>3
<1> QED
  BY <1>2, <1>3

LEMMA UpsertMemberTables ==
  ASSUME Structure, NEW q \in Req, UpsertMember(q)
  PROVE  TableStep
<1> DEFINE r == req[q].room
           u == req[q].target
           row == Upserted(members[r][u])
<1>1. TypeOK /\ r \in Room /\ u \in User
  BY DEF Structure, UpsertMember, At, RequestOK
<1>2. members[r][u] = Nil \/ members[r][u] \in MemberRow
  BY SMTT(30), <1>1 DEF TypeOK
<1>3. /\ row \in MemberRow /\ ~row.kicked
      /\ members[r][u] # Nil => row.role = members[r][u].role
  BY <1>2 DEF Upserted, NewMember, MemberRow
<1>4. rooms' = rooms /\ members' = [members EXCEPT ![r][u] = row]
  BY <1>1 DEF UpsertMember, TypeOK
<1> HIDE DEF row
<1>5. RowWritten(r, u, row)
  BY <1>3, <1>4 DEF RowWritten
<1> QED
  BY <1>1, <1>3, <1>5 DEF TableStep

LEMMA MarkLeftTables ==
  ASSUME Structure, NEW q \in Req, NEW u \in User, NEW r \in Room, MarkLeft(q, u, r)
  PROVE  TableStep
<1>1. TypeOK
  BY DEF Structure
<1>2. CASE Present(r, u)
  <2> DEFINE row == [members[r][u] EXCEPT !.left = TRUE]
  <2>1. members[r][u] \in MemberRow
    BY SMTT(30), <1>1, <1>2 DEF Present, TypeOK
  <2>2. row \in MemberRow /\ row.role = members[r][u].role /\ row.left
    BY <2>1 DEF MemberRow
  <2>3. rooms' = rooms /\ members' = [members EXCEPT ![r][u] = row]
    BY <1>1, <1>2 DEF MarkLeft, TypeOK
  <2> HIDE DEF row
  <2>4. RowWritten(r, u, row)
    BY <2>2, <2>3 DEF RowWritten
  <2> QED
    BY <2>2, <2>4 DEF TableStep
<1>3. CASE ~Present(r, u)
  <2>1. rooms' = rooms /\ members' = [members EXCEPT ![r][u] = members[r][u]]
    BY <1>1, <1>3 DEF MarkLeft, TypeOK
  <2>2. members[r] \in [User -> MemberRow \cup {Nil}]
    BY <1>1 DEF TypeOK
  <2>3. [members[r] EXCEPT ![u] = members[r][u]] = members[r]
    BY SMTT(30), <2>2
  <2>4. members' = members
    BY <1>1, <2>1, <2>3 DEF TypeOK
  <2> QED
    BY <2>1, <2>4 DEF TableStep, tables
<1> QED
  BY <1>2, <1>3

LEMMA CreateRoomTables ==
  ASSUME Structure, NEW q \in Req, NEW code \in Code, CreateRoom(q, code)
  PROVE  TableStep
<1> DEFINE r == req[q].room
           u == req[q].actor
           room == [code |-> code, owner |-> u, ended |-> FALSE]
           row == [role |-> "owner", left |-> FALSE, kicked |-> FALSE, muted |-> FALSE]
<1>1. r \in Room /\ u \in User /\ rooms[r] = Nil
  BY DEF Structure, CreateRoom, At, RequestOK
<1>2. /\ room \in RoomRow /\ room.owner = u
      /\ row \in MemberRow /\ row.role = "owner" /\ ~row.kicked
  BY <1>1 DEF RoomRow, MemberRow
<1>3. rooms' = [rooms EXCEPT ![r] = room] /\ members' = [members EXCEPT ![r][u] = row]
  BY DEF CreateRoom
<1> HIDE DEF room, row
<1>4. Created(r, u, room, row)
  BY <1>1, <1>2, <1>3 DEF Created
<1> QED
  BY <1>1, <1>2, <1>4 DEF TableStep

LEMMA EndRoomTables ==
  ASSUME Structure, NEW q \in Req, EndRoom(q)
  PROVE  TableStep
<1>1. req[q].room \in Room
  BY DEF Structure, EndRoom, At, RequestOK
<1>2. CASE ~Open(req[q].room)
  BY <1>2 DEF EndRoom, TableStep, tables
<1>3. CASE Open(req[q].room)
  BY <1>1, <1>3 DEF EndRoom, TableStep, Ended
<1> QED
  BY <1>2, <1>3

LEMMA TransferOwnershipTables ==
  ASSUME Structure, NEW q \in Req, TransferOwnership(q)
  PROVE  TableStep
<1>1. CASE ~Transferable(req[q].room)
  BY <1>1 DEF TransferOwnership, TableStep
<1>2. CASE Transferable(req[q].room)
  <2>1. members[req[q].room][req[q].actor] # Nil /\ members[req[q].room][req[q].target] # Nil
    BY DEF Structure, TransferOwnership, At, RequestOK
  <2>2. Transferred(req[q].room, req[q].actor, req[q].target)
    BY <1>2, <2>1, TransferWrites DEF Transferred
  <2>3. req[q].room \in Room /\ req[q].actor \in User /\ req[q].target \in User
    BY <1>2, TransferWrites
  <2> QED
    BY <2>2, <2>3 DEF TableStep
<1> QED
  BY SMTT(30), <1>1, <1>2

LEMMA NextTables == Structure /\ [Next]_vars => TableStep
<1> SUFFICES ASSUME Structure, [Next]_vars PROVE TableStep
  OBVIOUS
<1>1. ASSUME NEW q \in Req, Arrive(q) PROVE TableStep
  <2>1. ASSUME NEW r \in Room, NEW u \in User, MarkLeft(q, u, r) PROVE TableStep
    BY <2>1, MarkLeftTables
  <2>2. CASE UNCHANGED tables
    BY <2>2 DEF TableStep
  <2> QED
    BY <1>1, <2>1, <2>2
    DEF Arrive, BeginCreate, BeginEnd, BeginJoin, WsRoomOpen, BeginMute,
        BeginKick, BeginTransfer
<1>2. ASSUME NEW q \in Req, Serve(q) PROVE TableStep
  <2>1. CASE UNCHANGED tables
    BY SMTT(30), <2>1 DEF TableStep
  <2> QED
    BY <1>2, <2>1, CreateRoomTables, UpsertMemberTables, UpdateTargetTables,
       EndRoomTables, TransferOwnershipTables
    DEF Serve, CodeTaken, GetMember, BroadcastMemberJoined, AnnounceLeft,
        BroadcastMute, KickConnection, BroadcastRoomEnded, AssertTarget,
        TargetExists, CheckTarget, BroadcastOwnerChanged, WsMember, WsJoin
<1>3. ASSUME NEW r \in Room, NEW u \in User, SocketGone(u, r) PROVE TableStep
  BY <1>3 DEF SocketGone, TableStep
<1>4. CASE UNCHANGED vars
  BY <1>4 DEF vars, TableStep
<1>5. CASE Restart
  BY <1>5 DEF Restart, TableStep
<1>6. ASSUME NEW q \in Req, StatementFails(q) PROVE TableStep
  BY <1>6 DEF StatementFails, TableStep, tables
<1> QED
  BY <1>1, <1>2, <1>3, <1>4, <1>5, <1>6 DEF Next

----------------------------------------------------------------------------
LEMMA NextOwner ==
  ASSUME Structure, TableStep, OwnerIdHasOwnerRole
  PROVE  OwnerIdHasOwnerRole'
<1>0. TypeOK
  BY DEF Structure
<1> SUFFICES ASSUME NEW o \in Room, rooms'[o] # Nil
             PROVE  /\ members'[o][rooms'[o].owner] # Nil
                    /\ members'[o][rooms'[o].owner].role = "owner"
  BY DEF OwnerIdHasOwnerRole
<1>a. rooms[o] # Nil => /\ rooms[o].owner \in User
                        /\ members[o][rooms[o].owner] # Nil
                        /\ members[o][rooms[o].owner].role = "owner"
  BY <1>0 DEF OwnerIdHasOwnerRole, TypeOK, RoomRow
<1>1. CASE UNCHANGED tables
  BY <1>1, <1>a DEF tables
<1>2. ASSUME NEW r \in Room, NEW u \in User, NEW room \in RoomRow,
             NEW row \in MemberRow, Created(r, u, room, row)
      PROVE  /\ members'[o][rooms'[o].owner] # Nil
             /\ members'[o][rooms'[o].owner].role = "owner"
  BY <1>0, <1>2, <1>a DEF Created, TypeOK
<1>3. ASSUME NEW r \in Room, NEW u \in User, NEW row \in MemberRow,
             RowWritten(r, u, row)
      PROVE  /\ members'[o][rooms'[o].owner] # Nil
             /\ members'[o][rooms'[o].owner].role = "owner"
  BY <1>0, <1>3, <1>a DEF RowWritten, TypeOK
<1>4. ASSUME NEW r \in Room, Ended(r)
      PROVE  /\ members'[o][rooms'[o].owner] # Nil
             /\ members'[o][rooms'[o].owner].role = "owner"
  <2>1. rooms[r] \in RoomRow
    BY <1>0, <1>4 DEF Ended, Open, TypeOK
  <2>2. rooms[o] # Nil /\ rooms'[o].owner = rooms[o].owner
    BY <1>0, <1>4, <2>1 DEF Ended, Open, TypeOK, RoomRow
  <2> QED
    BY <1>4, <1>a, <2>2 DEF Ended
<1>5. ASSUME NEW r \in Room, NEW a \in User, NEW t \in User, Transferred(r, a, t)
      PROVE  /\ members'[o][rooms'[o].owner] # Nil
             /\ members'[o][rooms'[o].owner].role = "owner"
  <2> DEFINE new == [members[r][t] EXCEPT !.role = "owner"]
  <2>1. /\ rooms[r] \in RoomRow /\ members[r][t] \in MemberRow
        /\ members[r] \in [User -> MemberRow \cup {Nil}]
    BY SMTT(30), <1>0, <1>5 DEF Transferred, Open, TypeOK
  <2>2. new \in MemberRow /\ new.role = "owner"
    BY <2>1 DEF MemberRow
  <2>3. CASE o = r
    <3>1. rooms'[o].owner = t
      BY <1>0, <1>5, <2>1, <2>3 DEF Transferred, TypeOK, RoomRow
    <3>2. members'[o][t] = new
      BY <1>0, <1>5, <2>1, <2>3 DEF Transferred, TypeOK
    <3> QED
      BY <2>2, <3>1, <3>2
  <2>4. CASE o # r
    BY <1>0, <1>5, <1>a, <2>4 DEF Transferred, TypeOK
  <2> QED
    BY <2>3, <2>4
<1> QED
  BY <1>1, <1>2, <1>3, <1>4, <1>5 DEF TableStep

\* rooms.owner_id and the owner role of room_members agree in every state,
\* for any number of overlapping transfers, joins, leaves and kicks.
THEOREM OwnershipRecorded == Spec => []OwnerIdHasOwnerRole
<1>1. Init => OwnerIdHasOwnerRole
  BY DEF Init, OwnerIdHasOwnerRole
<1>2. Structure /\ OwnerIdHasOwnerRole /\ [Next]_vars => OwnerIdHasOwnerRole'
  BY NextTables, NextOwner
<1> QED
  BY <1>1, <1>2, AlwaysStructure, PTL DEF Spec

LEMMA NextKicked ==
  ASSUME Structure, TableStep, KickedHaveLeft
  PROVE  KickedHaveLeft'
<1>0. TypeOK
  BY SMTT(30) DEF Structure
<1> SUFFICES ASSUME NEW o \in Room, NEW w \in User,
                    members'[o][w] # Nil, members'[o][w].kicked
             PROVE  members'[o][w].left
  BY DEF KickedHaveLeft, Present, Active
<1>a. members[o][w] # Nil /\ members[o][w].kicked => members[o][w].left
  BY DEF KickedHaveLeft, Present, Active
<1>1. CASE UNCHANGED tables
  BY <1>1, <1>a DEF tables
<1>2. ASSUME NEW r \in Room, NEW u \in User, NEW room \in RoomRow,
             NEW row \in MemberRow, Created(r, u, room, row)
      PROVE  members'[o][w].left
  BY <1>0, <1>2, <1>a DEF Created, TypeOK
<1>3. ASSUME NEW r \in Room, NEW u \in User, NEW row \in MemberRow,
             RowWritten(r, u, row)
      PROVE  members'[o][w].left
  BY <1>0, <1>3, <1>a DEF RowWritten, TypeOK
<1>4. ASSUME NEW r \in Room, Ended(r) PROVE members'[o][w].left
  BY <1>4, <1>a DEF Ended
<1>5. ASSUME NEW r \in Room, NEW a \in User, NEW t \in User, Transferred(r, a, t)
      PROVE  members'[o][w].left
  <2> DEFINE new == [members[r][t] EXCEPT !.role = "owner"]
             old == [members[r][a] EXCEPT !.role = "member"]
  <2>1. /\ members[r][t] \in MemberRow /\ members[r][a] \in MemberRow
        /\ members[r] \in [User -> MemberRow \cup {Nil}]
    BY SMTT(30), <1>0, <1>5 DEF Transferred, TypeOK
  <2>2. /\ new.left = members[r][t].left /\ new.kicked = members[r][t].kicked
        /\ old.left = members[r][a].left /\ old.kicked = members[r][a].kicked
    BY <2>1 DEF MemberRow
  <2>3. members' = [members EXCEPT ![r] = [members[r] EXCEPT ![t] = new, ![a] = old]]
    BY <1>5 DEF Transferred
  <2> HIDE DEF new, old
  <2>4. members'[o][w] = IF o = r /\ w = a THEN old
                         ELSE IF o = r /\ w = t THEN new ELSE members[o][w]
    BY <1>0, <2>1, <2>3 DEF TypeOK
  <2>5. members[r][t] # Nil /\ members[r][a] # Nil
    BY <1>5 DEF Transferred
  <2> QED
    BY <1>a, <2>2, <2>4, <2>5
<1> QED
  BY <1>1, <1>2, <1>3, <1>4, <1>5 DEF TableStep

\* A kicked member has left_at set, so that the queries that test left_at
\* alone and those that also test kicked see the same members.
THEOREM KickedLeave == Spec => []KickedHaveLeft
<1>1. Init => KickedHaveLeft
  BY SMTT(30) DEF Init, KickedHaveLeft, Present, Active
<1>2. Structure /\ KickedHaveLeft /\ [Next]_vars => KickedHaveLeft'
  BY SMTT(30), NextTables, NextKicked
<1> QED
  BY <1>1, <1>2, AlwaysStructure, PTL DEF Spec

LEMMA EndedStep ==
  ASSUME Structure, TableStep, NEW o \in Room, rooms[o] # Nil, rooms[o].ended
  PROVE  /\ rooms'[o] = rooms[o]
         /\ \A w \in User : members[o][w] # Nil =>
              members'[o][w].role = members[o][w].role
<1>0. TypeOK
  BY DEF Structure
<1> DEFINE Goal == /\ rooms'[o] = rooms[o]
                   /\ \A w \in User : members[o][w] # Nil =>
                        members'[o][w].role = members[o][w].role
<1>1. CASE UNCHANGED tables
  BY <1>1 DEF tables
<1>2. ASSUME NEW r \in Room, NEW u \in User, NEW room \in RoomRow,
             NEW row \in MemberRow, Created(r, u, room, row)
      PROVE  Goal
  BY <1>0, <1>2 DEF Created, TypeOK
<1>3. ASSUME NEW r \in Room, NEW u \in User, NEW row \in MemberRow,
             RowWritten(r, u, row)
      PROVE  Goal
  BY <1>0, <1>3 DEF RowWritten, TypeOK
<1>4. ASSUME NEW r \in Room, Ended(r) PROVE Goal
  BY <1>0, <1>4 DEF Ended, Open, TypeOK
<1>5. ASSUME NEW r \in Room, NEW a \in User, NEW t \in User, Transferred(r, a, t)
      PROVE  Goal
  BY <1>0, <1>5 DEF Transferred, Open, TypeOK
<1> QED
  BY <1>1, <1>2, <1>3, <1>4, <1>5 DEF TableStep

\* An ended room stays ended and keeps its code, owner and roles, even when a
\* transfer was under way at its end.
THEOREM EndsAreFinal == Spec => EndedIsFinal
<1>1. Structure /\ [Next]_vars =>
        [\A r \in Room : rooms[r] # Nil /\ rooms[r].ended =>
           /\ rooms'[r] = rooms[r]
           /\ \A u \in User : members[r][u] # Nil =>
                members'[r][u].role = members[r][u].role]_vars
  BY NextTables, EndedStep
<1> QED
  BY <1>1, AlwaysStructure, PTL DEF Spec, EndedIsFinal

----------------------------------------------------------------------------
(***************************************************************************)
(* Evictions.  EvictedSocketsStayOut is made inductive by what it takes    *)
(* for a connect: until an eviction overtakes it, the membership it has    *)
(* checked is still there or about to be announced as gone.                *)
(***************************************************************************)
Evicting == {"left", "kicked", "ended"}
Connecting == {"wsmember", "wsjoin"}

Covered(r, u) == (Open(r) /\ Active(r, u)) \/ EvictionPending(r, u)
RoomCovered(r, u) == Open(r) \/ EvictionPending(r, u)

ConnectsCovered ==
  \A q \in Req, r \in Room, u \in User :
    ~req[q].overtaken /\ req[q].room = r /\ req[q].actor = u =>
      /\ req[q].pc = "wsmember" => RoomCovered(r, u)
      /\ req[q].pc = "wsjoin" => Covered(r, u)

EvictionInv == EvictedSocketsStayOut /\ ConnectsCovered

\* A step of q that is no eviction keeps pending evictions, so that users stay
\* covered if q announces those it removes.
LEMMA CoverKept ==
  ASSUME NEW q \in Req,
         \A p \in Req \ {q} : req'[p] = req[p],
         req[q].pc \notin Evicting,
         \A r \in Room : Open(r) =>
           Open(r)' \/ (req'[q].pc = "ended" /\ req'[q].room = r),
         \A r \in Room, u \in User : Active(r, u) =>
           \/ Active(r, u)'
           \/ /\ req'[q].pc \in {"left", "kicked"}
              /\ req'[q].room = r /\ req'[q].target = u
  PROVE  \A r \in Room, u \in User :
           /\ Covered(r, u) => Covered(r, u)'
           /\ RoomCovered(r, u) => RoomCovered(r, u)'
<1> SUFFICES ASSUME NEW r \in Room, NEW u \in User
             PROVE  /\ Covered(r, u) => Covered(r, u)'
                    /\ RoomCovered(r, u) => RoomCovered(r, u)'
  OBVIOUS
<1>1. EvictionPending(r, u) => EvictionPending(r, u)'
  BY ToEvictShape DEF EvictionPending, Evicting
<1>2. req'[q].pc = "ended" /\ req'[q].room = r => EvictionPending(r, u)'
  BY ToEvictShape DEF EvictionPending
<1>3. req'[q].pc \in {"left", "kicked"} /\ req'[q].room = r /\ req'[q].target = u
        => EvictionPending(r, u)'
  BY ToEvictShape DEF EvictionPending
<1>4. /\ Open(r) => Open(r)' \/ EvictionPending(r, u)'
      /\ Active(r, u) => Active(r, u)' \/ EvictionPending(r, u)'
  BY <1>2, <1>3
<1>5. RoomCovered(r, u) => RoomCovered(r, u)'
  BY <1>1, <1>4 DEF RoomCovered
<1>6. Covered(r, u) => Covered(r, u)'
  BY <1>1, <1>4 DEF Covered
<1> QED
  BY <1>5, <1>6

\* ... and the invariant is kept if q does not touch sockets and does not go
\* on with a connect.
LEMMA PlainEvictionInv ==
  ASSUME Structure, EvictionInv, NEW q \in Req,
         \A p \in Req \ {q} : req'[p] = req[p],
         req'[q].pc \notin Connecting,
         UNCHANGED <<sockets, overlap>>,
         \A r \in Room, u \in User :
           /\ Covered(r, u) => Covered(r, u)'
           /\ RoomCovered(r, u) => RoomCovered(r, u)'
  PROVE  EvictionInv'
<1>0. TypeOK
  BY DEF Structure
<1>1. EvictedSocketsStayOut'
  <2> SUFFICES ASSUME NEW r \in Room, NEW u \in sockets[r] \ overlap[r]
               PROVE  Covered(r, u)'
    BY DEF EvictedSocketsStayOut, Covered
  <2>1. Covered(r, u) /\ u \in User
    BY <1>0 DEF EvictionInv, EvictedSocketsStayOut, Covered, TypeOK
  <2> QED
    BY <2>1
<1>2. ConnectsCovered'
  <2> SUFFICES ASSUME NEW p \in Req, NEW r \in Room, NEW u \in User,
                      ~req'[p].overtaken, req'[p].room = r, req'[p].actor = u
               PROVE  /\ req'[p].pc = "wsmember" => RoomCovered(r, u)'
                      /\ req'[p].pc = "wsjoin" => Covered(r, u)'
    BY DEF ConnectsCovered
  <2>1. CASE p = q
    BY <2>1 DEF Connecting
  <2>2. CASE p # q
    <3>1. req'[p] = req[p]
      BY <2>2
    <3>2. /\ req[p].pc = "wsmember" => RoomCovered(r, u)
          /\ req[p].pc = "wsjoin" => Covered(r, u)
      BY <3>1 DEF EvictionInv, ConnectsCovered
    <3> QED
      BY <3>1, <3>2
  <2> QED
    BY <2>1, <2>2
<1> QED
  BY <1>1, <1>2 DEF EvictionInv

\* Tables and sockets unchanged.
LEMMA QuietEvictionInv ==
  ASSUME Structure, EvictionInv, NEW q \in Req,
         \A p \in Req \ {q} : req'[p] = req[p],
         req[q].pc \notin Evicting, req'[q].pc \notin Connecting,
         UNCHANGED <<tables, sockets, overlap>>
  PROVE  EvictionInv'
<1>1. /\ \A r \in Room : Open(r) => Open(r)'
      /\ \A r \in Room, u \in User : Active(r, u) => Active(r, u)'
  BY DEF tables, Open, Active, Present
<1>2. \A r \in Room, u \in User :
        /\ Covered(r, u) => Covered(r, u)'
        /\ RoomCovered(r, u) => RoomCovered(r, u)'
  BY <1>1, CoverKept
<1> QED
  BY <1>2, PlainEvictionInv

LEMMA BeginEvictionInv ==
  ASSUME Structure, EvictionInv, NEW q \in Req, NEW r \in Room
  PROVE  /\ \A u \in User : BeginCreate(q, u, r) \/ BeginEnd(q, u, r) => EvictionInv'
         /\ \A u \in User, code \in Code : BeginJoin(q, u, r, code) => EvictionInv'
         /\ \A u, t \in User : BeginKick(q, u, t, r) \/ BeginTransfer(q, u, t, r)
                                => EvictionInv'
         /\ \A u, t \in User, muted \in MuteInputs : BeginMute(q, u, t, r, muted)
                                => EvictionInv'
<1>0. TypeOK
  BY DEF Structure
<1>1. ASSUME NEW x, req[q] = Idle, req' = [req EXCEPT ![q] = x],
             x.pc \notin Connecting, UNCHANGED <<tables, live>>
      PROVE  EvictionInv'
  <2>1. /\ \A p \in Req \ {q} : req'[p] = req[p]
        /\ req[q].pc \notin Evicting /\ req'[q].pc \notin Connecting
        /\ UNCHANGED <<tables, sockets, overlap>>
    BY <1>0, <1>1, IdleType DEF TypeOK, Evicting, live
  <2> QED
    BY <2>1, QuietEvictionInv
<1>2. ASSUME NEW u \in User, BeginCreate(q, u, r) PROVE EvictionInv'
  <2> DEFINE x == [Idle EXCEPT !.pc = "create", !.room = r, !.actor = u, !.target = Nil]
  <2>1. x.pc \notin Connecting
    BY DEF Idle, Connecting
  <2> QED
    BY <1>1, <1>2, <2>1 DEF BeginCreate, Begin
<1>3. ASSUME NEW u \in User, BeginEnd(q, u, r) PROVE EvictionInv'
  <2> DEFINE x == [Idle EXCEPT !.pc = "end", !.room = r, !.actor = u, !.target = Nil]
  <2>1. x.pc \notin Connecting
    BY DEF Idle, Connecting
  <2> QED
    BY <1>1, <1>3, <2>1 DEF BeginEnd, Begin
<1>4. ASSUME NEW u \in User, NEW code \in Code, BeginJoin(q, u, r, code)
      PROVE  EvictionInv'
  <2> DEFINE x == [Idle EXCEPT !.pc = "upsert", !.room = r, !.actor = u, !.target = u]
  <2>1. x.pc \notin Connecting
    BY DEF Idle, Connecting
  <2> QED
    BY <1>1, <1>4, <2>1 DEF BeginJoin, Begin
<1>5. ASSUME NEW u \in User, NEW t \in User, BeginKick(q, u, t, r) PROVE EvictionInv'
  <2> DEFINE x == [Idle EXCEPT !.pc = "kick", !.room = r, !.actor = u, !.target = t]
  <2>1. x.pc \notin Connecting
    BY DEF Idle, Connecting
  <2> QED
    BY <1>1, <1>5, <2>1 DEF BeginKick, Begin
<1>6. ASSUME NEW u \in User, NEW t \in User, BeginTransfer(q, u, t, r) PROVE EvictionInv'
  <2> DEFINE x == [Idle EXCEPT !.pc = "assert", !.room = r, !.actor = u, !.target = t]
  <2>1. x.pc \notin Connecting
    BY DEF Idle, Connecting
  <2> QED
    BY <1>1, <1>6, <2>1 DEF BeginTransfer, Begin
<1>7. ASSUME NEW u \in User, NEW t \in User, NEW muted \in MuteInputs,
             BeginMute(q, u, t, r, muted)
      PROVE  EvictionInv'
  <2> DEFINE x == [Idle EXCEPT !.pc = "mute", !.room = r, !.actor = u, !.target = t,
                               !.member.muted = muted]
  <2>1. x.pc \notin Connecting
    BY DEF Idle, Connecting
  <2> QED
    BY <1>1, <1>7, <2>1 DEF BeginMute
<1> QED
  BY <1>2, <1>3, <1>4, <1>5, <1>6, <1>7

\* A request that stays away from evictions, connects and writes, or fails.
LEMMA ServeQuietEvictionInv ==
  ASSUME Structure, EvictionInv, NEW q \in Req,
         \/ \E code \in Code : CodeTaken(q, code)
         \/ GetMember(q) \/ BroadcastMemberJoined(q) \/ BroadcastMute(q)
         \/ AssertTarget(q) \/ TargetExists(q) \/ BroadcastOwnerChanged(q)
  PROVE  EvictionInv'
<1>0. TypeOK /\ req[q] \in Request
  BY DEF Structure, TypeOK
<1>1. req[q].pc \notin Evicting /\ req[q].pc \notin Connecting
  BY DEF Evicting, Connecting, CodeTaken, GetMember, BroadcastMemberJoined,
         BroadcastMute, AssertTarget, TargetExists, CheckTarget,
         BroadcastOwnerChanged, At
<1>2. UNCHANGED <<tables, sockets, overlap>>
  BY DEF CodeTaken, GetMember, BroadcastMemberJoined, BroadcastMute, live,
         AssertTarget, TargetExists, CheckTarget, BroadcastOwnerChanged
<1>3. ASSUME Finish(q) PROVE EvictionInv'
  <2>1. /\ \A p \in Req \ {q} : req'[p] = req[p]
        /\ req'[q].pc \notin Connecting
    BY <1>0, <1>3, IdleType DEF Finish, TypeOK, Connecting
  <2> QED
    BY <1>1, <1>2, <2>1, QuietEvictionInv
<1>4. ASSUME NEW x, req' = [req EXCEPT ![q] = x], x.pc \notin Connecting
      PROVE  EvictionInv'
  <2>1. /\ \A p \in Req \ {q} : req'[p] = req[p]
        /\ req'[q].pc \notin Connecting
    BY <1>0, <1>4 DEF TypeOK
  <2> QED
    BY SMTT(30), <1>1, <1>2, <2>1, QuietEvictionInv
<1>5. ASSUME NEW code \in Code, CodeTaken(q, code) PROVE EvictionInv'
  <2> DEFINE x == [req[q] EXCEPT !.attempts = @ + 1]
  <2>1. x.pc \notin Connecting
    BY <1>0, <1>1 DEF Request
  <2>2. Finish(q) \/ req' = [req EXCEPT ![q] = x]
    BY <1>5 DEF CodeTaken
  <2> HIDE DEF x
  <2> QED
    BY <1>3, <1>4, <2>1, <2>2
<1>6. ASSUME GetMember(q) PROVE EvictionInv'
  <2> DEFINE x == [req[q] EXCEPT !.pc = "joined",
                                 !.member = MemberOf(req[q].room, req[q].target)]
  <2>1. x.pc \notin Connecting
    BY <1>0 DEF Request, Connecting
  <2>2. Finish(q) \/ req' = [req EXCEPT ![q] = x]
    BY <1>6 DEF GetMember
  <2> HIDE DEF x
  <2> QED
    BY <1>3, <1>4, <2>1, <2>2
<1>7. ASSUME AssertTarget(q) PROVE EvictionInv'
  <2> DEFINE x == [req[q] EXCEPT !.pc = "exists"]
  <2>1. x.pc \notin Connecting
    BY <1>0 DEF Request, Connecting
  <2>2. Finish(q) \/ req' = [req EXCEPT ![q] = x]
    BY <1>7 DEF AssertTarget, CheckTarget, Goto
  <2> HIDE DEF x
  <2> QED
    BY SMTT(30), <1>3, <1>4, <2>1, <2>2
<1>8. ASSUME TargetExists(q) PROVE EvictionInv'
  <2> DEFINE x == [req[q] EXCEPT !.pc = "transfer"]
  <2>1. x.pc \notin Connecting
    BY <1>0 DEF Request, Connecting
  <2>2. Finish(q) \/ req' = [req EXCEPT ![q] = x]
    BY <1>8 DEF TargetExists, CheckTarget, Goto
  <2> HIDE DEF x
  <2> QED
    BY SMTT(30), <1>3, <1>4, <2>1, <2>2
<1> QED
  BY <1>3, <1>5, <1>6, <1>7, <1>8
  DEF BroadcastMemberJoined, BroadcastMute, BroadcastOwnerChanged

\* A write to the tables that announces whom it removes.
LEMMA WriteEvictionInv ==
  ASSUME Structure, EvictionInv, NEW q \in Req, NEW x,
         req' = [req EXCEPT ![q] = x],
         req[q].pc \notin Evicting, x.pc \notin Connecting,
         UNCHANGED <<sockets, overlap>>,
         \A r \in Room : Open(r) => Open(r)' \/ (x.pc = "ended" /\ x.room = r),
         \A r \in Room, u \in User : Active(r, u) =>
           Active(r, u)' \/ (x.pc \in {"left", "kicked"} /\ x.room = r /\ x.target = u)
  PROVE  EvictionInv'
<1>1. (\A p \in Req \ {q} : req'[p] = req[p]) /\ req'[q] = x
  BY DEF Structure, TypeOK
<1>2. \A r \in Room, u \in User :
        /\ Covered(r, u) => Covered(r, u)'
        /\ RoomCovered(r, u) => RoomCovered(r, u)'
  BY SMTT(30), <1>1, CoverKept
<1> QED
  BY <1>1, <1>2, PlainEvictionInv

LEMMA CreateRoomEvictionInv ==
  ASSUME Structure, EvictionInv, NEW q \in Req, NEW code \in Code, CreateRoom(q, code)
  PROVE  EvictionInv'
<1> DEFINE r == req[q].room
           u == req[q].actor
           row == [role |-> "owner", left |-> FALSE, kicked |-> FALSE, muted |-> FALSE]
<1>1. TypeOK /\ r \in Room /\ u \in User /\ rooms[r] = Nil
  BY DEF Structure, CreateRoom, At, RequestOK
<1>2. \A o \in Room : Open(o) => Open(o)'
  BY <1>1 DEF CreateRoom, Open, TypeOK
<1>3. row \in MemberRow /\ ~row.left /\ ~row.kicked
  BY DEF MemberRow
<1>4. members' = [members EXCEPT ![r][u] = row]
  BY DEF CreateRoom
<1> HIDE DEF row
<1>5. members'[r][u] = row /\ row # Nil
  BY <1>1, <1>3, <1>4 DEF TypeOK
<1>6. \A o \in Room, w \in User : o # r \/ w # u => members'[o][w] = members[o][w]
  BY <1>1, <1>4 DEF TypeOK
<1>7. \A o \in Room, w \in User : Active(o, w) => Active(o, w)'
  BY <1>3, <1>5, <1>6 DEF Active, Present
<1>8. /\ req' = [req EXCEPT ![q] = Idle] /\ req[q].pc \notin Evicting
      /\ Idle.pc \notin Connecting /\ UNCHANGED <<sockets, overlap>>
  BY IdleType DEF CreateRoom, Finish, At, Evicting, Connecting
<1> QED
  BY <1>2, <1>7, <1>8, WriteEvictionInv

LEMMA UpsertMemberEvictionInv ==
  ASSUME Structure, EvictionInv, NEW q \in Req, UpsertMember(q)
  PROVE  EvictionInv'
<1> DEFINE r == req[q].room
           u == req[q].target
           row == Upserted(members[r][u])
           x == [req[q] EXCEPT !.pc = "get"]
<1>1. TypeOK /\ r \in Room /\ u \in User /\ req[q] \in Request
  BY DEF Structure, UpsertMember, At, RequestOK, TypeOK
<1>2. members[r][u] = Nil \/ members[r][u] \in MemberRow
  BY SMTT(30), <1>1 DEF TypeOK
<1>3. row \in MemberRow /\ ~row.left /\ ~row.kicked
  BY <1>2 DEF Upserted, NewMember, MemberRow
<1>4. rooms' = rooms /\ members' = [members EXCEPT ![r][u] = row]
  BY <1>1 DEF UpsertMember, TypeOK
<1>5. /\ req' = [req EXCEPT ![q] = x] /\ req[q].pc \notin Evicting
      /\ x.pc \notin Connecting /\ UNCHANGED <<sockets, overlap>>
  BY <1>1 DEF UpsertMember, Goto, At, Evicting, Connecting, Request, live
<1> HIDE DEF row, x
<1>6. /\ members'[r][u] = row
      /\ \A o \in Room, w \in User : o # r \/ w # u => members'[o][w] = members[o][w]
      /\ rooms' = rooms
  BY <1>1, <1>4 DEF TypeOK
<1>7. \A o \in Room : Open(o) => Open(o)'
  BY <1>6 DEF Open
<1>8. \A o \in Room, w \in User : Active(o, w) => Active(o, w)'
  <2> TAKE o \in Room, w \in User
  <2>1. CASE o = r /\ w = u
    <3>1. row # Nil
      BY <1>3
    <3> QED
      BY <2>1, <3>1, <1>3, <1>6 DEF Active, Present
  <2>2. CASE o # r \/ w # u
    BY <2>2, <1>6 DEF Active, Present
  <2> QED
    BY <2>1, <2>2
<1> QED
  BY <1>5, <1>7, <1>8, WriteEvictionInv

LEMMA MarkLeftEvictionInv ==
  ASSUME Structure, EvictionInv, NEW q \in Req, NEW u \in User, NEW r \in Room,
         MarkLeft(q, u, r)
  PROVE  EvictionInv'
<1> DEFINE x == [Idle EXCEPT !.pc = "left", !.room = r, !.actor = u, !.target = u]
<1>1. TypeOK
  BY DEF Structure
<1>2. x.pc = "left" /\ x.room = r /\ x.target = u /\ x.pc \notin Connecting
  BY DEF Idle, Connecting
<1>3. /\ req' = [req EXCEPT ![q] = x] /\ req[q].pc \notin Evicting
      /\ UNCHANGED <<rooms, sockets, overlap>>
  BY IdleType DEF MarkLeft, Begin, Evicting, live
<1> HIDE DEF x
<1>4. \A o \in Room, w \in User : o # r \/ w # u => members'[o][w] = members[o][w]
  BY <1>1 DEF MarkLeft, TypeOK
<1>5. /\ \A o \in Room : Open(o) => Open(o)'
      /\ \A o \in Room, w \in User : Active(o, w) => Active(o, w)' \/ (o = r /\ w = u)
  BY <1>3, <1>4 DEF Open, Active, Present
<1> QED
  BY <1>2, <1>3, <1>5, WriteEvictionInv

LEMMA UpdateTargetEvictionInv ==
  ASSUME Structure, EvictionInv, NEW q \in Req, SetMuted(q) \/ Kick(q)
  PROVE  EvictionInv'
<1> DEFINE r == req[q].room
           u == req[q].target
<1>1. TypeOK /\ r \in Room /\ u \in User /\ req[q] \in Request
  BY DEF Structure, SetMuted, Kick, At, RequestOK, TypeOK
<1>2. req[q].pc \notin Evicting
  BY DEF SetMuted, Kick, At, Evicting
<1>3. CASE ~Present(r, u)
  <2>1. Finish(q) /\ UNCHANGED <<tables, sockets, overlap>>
    BY <1>3 DEF SetMuted, Kick, UpdateTarget, live
  <2>2. /\ \A p \in Req \ {q} : req'[p] = req[p]
        /\ req'[q].pc \notin Connecting
    BY <1>1, <2>1, IdleType DEF Finish, TypeOK, Connecting
  <2> QED
    BY <1>2, <2>1, <2>2, QuietEvictionInv
<1>4. CASE Present(r, u)
  <2>1. members[r][u] \in MemberRow /\ members[r][u] # Nil
    BY SMTT(30), <1>1, <1>4 DEF Present, TypeOK
  <2>2. CASE SetMuted(q)
    <3> DEFINE row == [members[r][u] EXCEPT !.muted = req[q].member.muted]
               x == [req[q] EXCEPT !.pc = "muted"]
    <3>1. /\ row \in MemberRow
          /\ row.left = members[r][u].left /\ row.kicked = members[r][u].kicked
      BY <1>1, <2>1 DEF MemberRow, Request, Member
    <3>2. /\ rooms' = rooms /\ members' = [members EXCEPT ![r][u] = row]
          /\ req' = [req EXCEPT ![q] = x] /\ UNCHANGED <<sockets, overlap>>
      BY <1>4, <2>2 DEF SetMuted, UpdateTarget, TargetRow, Goto, live
    <3>3. x.pc \notin Connecting
      BY <1>1 DEF Request, Connecting
    <3> HIDE DEF row, x
    <3>4. /\ members'[r][u] = row
          /\ \A o \in Room, w \in User : o # r \/ w # u => members'[o][w] = members[o][w]
          /\ rooms' = rooms
      BY <1>1, <3>2 DEF TypeOK
    <3>5. row # Nil
      BY <3>1
    <3>6. \A o \in Room : Open(o) => Open(o)'
      BY <3>4 DEF Open
    <3>7. \A o \in Room, w \in User : Active(o, w) => Active(o, w)'
      <4> TAKE o \in Room, w \in User
      <4>1. CASE o = r /\ w = u
        BY <4>1, <3>1, <3>4, <3>5 DEF Active, Present
      <4>2. CASE o # r \/ w # u
        BY <4>2, <3>4 DEF Active, Present
      <4> QED
        BY <4>1, <4>2
    <3> QED
      BY <1>2, <3>2, <3>3, <3>6, <3>7, WriteEvictionInv
  <2>3. CASE Kick(q)
    <3> DEFINE row == [members[r][u] EXCEPT !.kicked = TRUE, !.left = TRUE]
               x == [req[q] EXCEPT !.pc = "kicked"]
    <3>1. row \in MemberRow
      BY <2>1 DEF MemberRow
    <3>2. /\ rooms' = rooms /\ members' = [members EXCEPT ![r][u] = row]
          /\ req' = [req EXCEPT ![q] = x] /\ UNCHANGED <<sockets, overlap>>
      BY <1>4, <2>3 DEF Kick, UpdateTarget, TargetRow, Goto, live
    <3>3. x.pc = "kicked" /\ x.room = r /\ x.target = u /\ x.pc \notin Connecting
      BY <1>1 DEF Request, Connecting
    <3> HIDE DEF row, x
    <3>4. /\ members'[r][u] = row
          /\ \A o \in Room, w \in User : o # r \/ w # u => members'[o][w] = members[o][w]
          /\ rooms' = rooms
      BY SMTT(30), <1>1, <3>2 DEF TypeOK
    <3>5. \A o \in Room : Open(o) => Open(o)'
      BY <3>4 DEF Open
    <3>6. \A o \in Room, w \in User :
            Active(o, w) => Active(o, w)' \/ (o = r /\ w = u)
      BY <3>4 DEF Active, Present
    <3> QED
      BY <1>2, <3>2, <3>3, <3>5, <3>6, WriteEvictionInv
  <2> QED
    BY <2>2, <2>3
<1> QED
  BY <1>3, <1>4

LEMMA EndRoomEvictionInv ==
  ASSUME Structure, EvictionInv, NEW q \in Req, EndRoom(q)
  PROVE  EvictionInv'
<1> DEFINE r == req[q].room
           x == [req[q] EXCEPT !.pc = "ended"]
<1>1. TypeOK /\ r \in Room /\ req[q] \in Request
  BY DEF Structure, EndRoom, At, RequestOK, TypeOK
<1>2. req[q].pc \notin Evicting /\ UNCHANGED <<members, sockets, overlap>>
  BY DEF EndRoom, At, Evicting, live
<1>3. CASE ~Open(r)
  <2>1. Finish(q) /\ UNCHANGED <<tables, sockets, overlap>>
    BY <1>2, <1>3 DEF EndRoom, tables
  <2>2. /\ \A p \in Req \ {q} : req'[p] = req[p]
        /\ req'[q].pc \notin Connecting
    BY <1>1, <2>1, IdleType DEF Finish, TypeOK, Connecting
  <2> QED
    BY <1>2, <2>1, <2>2, QuietEvictionInv
<1>4. CASE Open(r)
  <2>1. x.pc = "ended" /\ x.room = r /\ x.pc \notin Connecting
    BY <1>1 DEF Request, Connecting
  <2>2. req' = [req EXCEPT ![q] = x] /\ rooms' = [rooms EXCEPT ![r].ended = TRUE]
    BY <1>4 DEF EndRoom, Goto
  <2> HIDE DEF x
  <2>3. \A o \in Room : Open(o) => Open(o)' \/ o = r
    BY <1>1, <2>2 DEF Open, TypeOK
  <2>4. \A o \in Room, w \in User : Active(o, w) => Active(o, w)'
    BY <1>2 DEF Active, Present
  <2> QED
    BY <1>2, <2>1, <2>2, <2>3, <2>4, WriteEvictionInv
<1> QED
  BY <1>3, <1>4

LEMMA TransferOwnershipEvictionInv ==
  ASSUME Structure, EvictionInv, NEW q \in Req, TransferOwnership(q)
  PROVE  EvictionInv'
<1> DEFINE r == req[q].room
           a == req[q].actor
           t == req[q].target
           x == [req[q] EXCEPT !.pc = "transferred"]
<1>1. TypeOK /\ req[q] \in Request
  BY DEF Structure, TypeOK
<1>2. req[q].pc \notin Evicting /\ UNCHANGED <<sockets, overlap>>
  BY DEF TransferOwnership, At, Evicting, live
<1>3. CASE ~Transferable(r)
  <2>1. Finish(q) /\ UNCHANGED tables
    BY <1>3 DEF TransferOwnership
  <2>2. /\ \A p \in Req \ {q} : req'[p] = req[p]
        /\ req'[q].pc \notin Connecting
    BY <1>1, <2>1, IdleType DEF Finish, TypeOK, Connecting
  <2> QED
    BY <1>2, <2>1, <2>2, QuietEvictionInv
<1>4. CASE Transferable(r)
  <2> DEFINE room == [rooms[r] EXCEPT !.owner = t]
             trow == [members[r][t] EXCEPT !.role = "owner"]
             arow == [members[r][a] EXCEPT !.role = "member"]
  <2>1. /\ r \in Room /\ a \in User /\ t \in User /\ a # t /\ Open(r)
        /\ members[r][a] \in MemberRow /\ members[r][t] \in MemberRow
        /\ rooms' = [rooms EXCEPT ![r] = room]
        /\ members' = [members EXCEPT ![r] = [members[r] EXCEPT ![t] = trow, ![a] = arow]]
        /\ trow \in MemberRow /\ arow \in MemberRow /\ room \in RoomRow
        /\ req' = [req EXCEPT ![q] = x]
    BY <1>4, TransferWrites
  <2>2. rooms[r] \in RoomRow
    BY <1>1, <2>1 DEF Open, TypeOK
  <2>3. /\ trow.left = members[r][t].left /\ trow.kicked = members[r][t].kicked
        /\ arow.left = members[r][a].left /\ arow.kicked = members[r][a].kicked
        /\ room.ended = rooms[r].ended
    BY <2>1, <2>2 DEF MemberRow, RoomRow
  <2>4. x.pc \notin Connecting
    BY <1>1 DEF Request, Connecting
  <2> HIDE DEF room, trow, arow, x
  <2>5. rooms'[r] = room /\ room # Nil /\ \A o \in Room \ {r} : rooms'[o] = rooms[o]
    BY <1>1, <2>1 DEF TypeOK
  <2>6. \A o \in Room : Open(o) => Open(o)'
    BY <2>3, <2>5 DEF Open
  <2>7. /\ members'[r][t] = trow /\ members'[r][a] = arow
        /\ \A w \in User \ {t, a} : members'[r][w] = members[r][w]
        /\ \A o \in Room \ {r} : members'[o] = members[o]
    BY <1>1, <2>1 DEF TypeOK
  <2>8. trow # Nil /\ arow # Nil
    BY <2>1
  <2>9. ASSUME NEW o \in Room, NEW w \in User, Active(o, w) PROVE Active(o, w)'
    <3>1. CASE o # r
      BY <2>7, <2>9, <3>1 DEF Active, Present
    <3>2. CASE o = r /\ w = t
      BY <2>3, <2>7, <2>8, <2>9, <3>2 DEF Active, Present
    <3>3. CASE o = r /\ w = a
      BY <2>3, <2>7, <2>8, <2>9, <3>3 DEF Active, Present
    <3>4. CASE o = r /\ w \notin {t, a}
      BY <2>7, <2>9, <3>4 DEF Active, Present
    <3> QED
      BY <3>1, <3>2, <3>3, <3>4
  <2> QED
    BY <1>2, <2>1, <2>4, <2>6, <2>9, WriteEvictionInv
<1> QED
  BY SMTT(30), <1>3, <1>4

----------------------------------------------------------------------------
(* Evictions and connects *)

\* The end of a request settles what it had pending: those users have no socket
\* left that counts, and connects that are under way for them are overtaken.
LEMMA OvertakeEvictionInv ==
  ASSUME Structure, EvictionInv, NEW q \in Req, NEW r \in Room, NEW out \in SUBSET User,
         Overtake(q, r, out), UNCHANGED tables, req[q].room = r,
         ToEvict(req[q]) \subseteq out,
         \A o \in Room : sockets'[o] \ overlap'[o] \subseteq
           {u \in sockets[o] \ overlap[o] : o # r \/ u \notin out}
  PROVE  EvictionInv'
<1>1. TypeOK
  BY DEF Structure
<1>2. /\ req'[q] = Idle
      /\ \A p \in Req \ {q} :
           /\ req'[p].pc = req[p].pc /\ req'[p].room = req[p].room
           /\ req'[p].actor = req[p].actor /\ req'[p].target = req[p].target
           /\ req'[p].overtaken = (req[p].overtaken \/
                /\ req[p].pc \in {"wsmember", "wsjoin"}
                /\ req[p].room = r
                /\ req[p].actor \in out)
  BY SMTT(30), <1>1, OvertakeReq
<1>3. ASSUME NEW o \in Room, NEW u \in User, o # r \/ u \notin out,
             EvictionPending(o, u)
      PROVE  EvictionPending(o, u)'
  <2>1. PICK p \in Req : req[p].room = o /\ u \in ToEvict(req[p])
    BY <1>3 DEF EvictionPending
  <2>2. p # q
    BY <1>3, <2>1
  <2>3. (req[p].pc \in {"left", "kicked"} /\ req[p].target = u) \/ req[p].pc = "ended"
    BY <2>1, ToEvictShape
  <2>4. (req'[p].pc \in {"left", "kicked"} /\ req'[p].target = u) \/ req'[p].pc = "ended"
    BY <1>2, <2>2, <2>3
  <2>5. req'[p].room = o /\ u \in ToEvict(req'[p])
    <3> DEFINE x == req'[p]
    <3>1. (x.pc \in {"left", "kicked"} /\ x.target = u) \/ x.pc = "ended"
      BY <2>4
    <3> HIDE DEF x
    <3>2. u \in ToEvict(x)
      BY <3>1, ToEvictShape
    <3> QED
      BY <1>2, <2>1, <2>2, <3>2 DEF x
  <2> QED
    BY <2>5 DEF EvictionPending
<1>4. ASSUME NEW o \in Room, NEW u \in User, o # r \/ u \notin out
      PROVE  /\ Covered(o, u) => Covered(o, u)'
             /\ RoomCovered(o, u) => RoomCovered(o, u)'
  <2>1. /\ Open(o) => Open(o)'
        /\ Active(o, u) => Active(o, u)'
    BY DEF tables, Open, Active, Present
  <2> QED
    BY <1>3, <1>4, <2>1 DEF Covered, RoomCovered
<1>5. EvictedSocketsStayOut'
  <2> SUFFICES ASSUME NEW o \in Room, NEW u \in sockets'[o] \ overlap'[o]
               PROVE  Covered(o, u)'
    BY DEF EvictedSocketsStayOut, Covered
  <2>1. u \in User /\ u \in sockets[o] \ overlap[o] /\ (o # r \/ u \notin out)
    BY <1>1 DEF TypeOK
  <2>2. Covered(o, u)
    BY <2>1 DEF EvictionInv, EvictedSocketsStayOut, Covered
  <2> QED
    BY <1>4, <2>1, <2>2
<1>6. ConnectsCovered'
  <2> SUFFICES ASSUME NEW p \in Req, NEW o \in Room, NEW u \in User,
                      ~req'[p].overtaken, req'[p].room = o, req'[p].actor = u,
                      req'[p].pc \in Connecting
               PROVE  /\ req'[p].pc = "wsmember" => RoomCovered(o, u)'
                      /\ req'[p].pc = "wsjoin" => Covered(o, u)'
    BY DEF ConnectsCovered, Connecting
  <2>1. p # q
    BY <1>2, IdleType DEF Connecting
  <2>2. /\ ~req[p].overtaken /\ req[p].room = o /\ req[p].actor = u
        /\ req'[p].pc = req[p].pc /\ (o # r \/ u \notin out)
    BY <1>2, <2>1 DEF Connecting
  <2>3. /\ req[p].pc = "wsmember" => RoomCovered(o, u)
        /\ req[p].pc = "wsjoin" => Covered(o, u)
    BY <2>2 DEF EvictionInv, ConnectsCovered
  <2> QED
    BY <1>4, <2>2, <2>3
<1> QED
  BY <1>5, <1>6 DEF EvictionInv

LEMMA EvictEvictionInv ==
  ASSUME Structure, EvictionInv, NEW q \in Req, NEW r \in Room, NEW out \in SUBSET User,
         Evict(q, r, out), UNCHANGED tables, req[q].room = r, ToEvict(req[q]) \subseteq out
  PROVE  EvictionInv'
<1>1. Overtake(q, r, out)
  BY DEF Evict
<1>2. \A o \in Room : sockets'[o] \ overlap'[o] \subseteq
        {u \in sockets[o] \ overlap[o] : o # r \/ u \notin out}
  BY DEF Evict, Structure, TypeOK
<1> QED
  BY <1>1, <1>2, OvertakeEvictionInv

LEMMA AnnounceEvictionInv ==
  ASSUME Structure, EvictionInv, NEW q \in Req,
         AnnounceLeft(q) \/ KickConnection(q) \/ BroadcastRoomEnded(q)
  PROVE  EvictionInv'
<1>1. req[q].room \in Room
  BY DEF Structure, RequestOK, AnnounceLeft, KickConnection, BroadcastRoomEnded, At
<1>2. CASE AnnounceLeft(q) \/ KickConnection(q)
  <2>1. req[q].target \in User
    BY <1>2 DEF Structure, RequestOK, AnnounceLeft, KickConnection, At
  <2>2. /\ Evict(q, req[q].room, {req[q].target}) /\ UNCHANGED tables
        /\ req[q].pc \in {"left", "kicked"}
    BY <1>2 DEF AnnounceLeft, KickConnection, At
  <2>3. ToEvict(req[q]) \subseteq {req[q].target}
    BY SMTT(30), <2>2 DEF ToEvict
  <2> QED
    BY SMTT(30), <1>1, <2>1, <2>2, <2>3, EvictEvictionInv
<1>3. CASE BroadcastRoomEnded(q)
  <2>1. /\ Evict(q, req[q].room, User) /\ UNCHANGED tables
        /\ req[q].pc = "ended"
    BY <1>3 DEF BroadcastRoomEnded, tables, At
  <2>2. ToEvict(req[q]) \subseteq User
    BY SMTT(30), <2>1 DEF ToEvict
  <2> QED
    BY <1>1, <2>1, <2>2, EvictEvictionInv
<1> QED
  BY <1>2, <1>3

\* A request that cannot go on leaves sockets behind, all of them in overlap.
LEMMA StatementFailsEvictionInv ==
  ASSUME Structure, EvictionInv, NEW q \in Req, StatementFails(q)
  PROVE  EvictionInv'
<1>1. PICK r \in Room, out \in SUBSET User :
           /\ r = req[q].room /\ out = ToEvict(req[q]) /\ Overtake(q, r, out)
           /\ overlap' = [overlap EXCEPT ![r] = overlap[r] \cup (sockets[r] \cap out)]
           /\ UNCHANGED <<tables, sockets, view>>
  BY FailureSteps
<1>2. \A o \in Room : sockets'[o] \ overlap'[o] \subseteq
        {u \in sockets[o] \ overlap[o] : o # r \/ u \notin out}
  BY <1>1 DEF Structure, TypeOK
<1> QED
  BY <1>1, <1>2, OvertakeEvictionInv DEF tables

\* A connect that goes on: it is covered at its new place.
LEMMA ConnectEvictionInv ==
  ASSUME Structure, EvictionInv, NEW q \in Req, NEW x,
         req' = [req EXCEPT ![q] = x], UNCHANGED <<tables, sockets, overlap>>,
         req[q].pc \notin Evicting,
         \A r \in Room, u \in User : ~x.overtaken /\ x.room = r /\ x.actor = u =>
           /\ x.pc = "wsmember" => RoomCovered(r, u)
           /\ x.pc = "wsjoin" => Covered(r, u)
  PROVE  EvictionInv'
<1>1. TypeOK
  BY DEF Structure
<1>2. (\A p \in Req \ {q} : req'[p] = req[p]) /\ req'[q] = x
  BY <1>1 DEF TypeOK
<1>3. /\ \A r \in Room : Open(r) => Open(r)'
      /\ \A r \in Room, u \in User : Active(r, u) => Active(r, u)'
  BY DEF tables, Open, Active, Present
<1>4. \A r \in Room, u \in User :
        /\ Covered(r, u) => Covered(r, u)'
        /\ RoomCovered(r, u) => RoomCovered(r, u)'
  BY <1>2, <1>3, CoverKept
<1>5. EvictedSocketsStayOut'
  <2> SUFFICES ASSUME NEW r \in Room, NEW u \in sockets[r] \ overlap[r]
               PROVE  Covered(r, u)'
    BY DEF EvictedSocketsStayOut, Covered
  <2>1. Covered(r, u) /\ u \in User
    BY <1>1 DEF EvictionInv, EvictedSocketsStayOut, Covered, TypeOK
  <2> QED
    BY <1>4, <2>1
<1>6. ConnectsCovered'
  <2> SUFFICES ASSUME NEW p \in Req, NEW r \in Room, NEW u \in User,
                      ~req'[p].overtaken, req'[p].room = r, req'[p].actor = u
               PROVE  /\ req'[p].pc = "wsmember" => RoomCovered(r, u)'
                      /\ req'[p].pc = "wsjoin" => Covered(r, u)'
    BY DEF ConnectsCovered
  <2>1. /\ req'[p].pc = "wsmember" => RoomCovered(r, u)
        /\ req'[p].pc = "wsjoin" => Covered(r, u)
    BY <1>2 DEF EvictionInv, ConnectsCovered
  <2> QED
    BY <1>4, <2>1
<1> QED
  BY <1>5, <1>6 DEF EvictionInv

LEMMA WsRoomOpenEvictionInv ==
  ASSUME Structure, EvictionInv, NEW q \in Req, NEW u \in User, NEW r \in Room,
         WsRoomOpen(q, u, r)
  PROVE  EvictionInv'
<1> DEFINE x == [Idle EXCEPT !.pc = "wsmember", !.room = r, !.actor = u, !.target = u]
<1>1. x.pc = "wsmember" /\ x.room = r /\ x.actor = u
  BY DEF Idle
<1>2. /\ req' = [req EXCEPT ![q] = x] /\ UNCHANGED <<tables, sockets, overlap>>
      /\ req[q].pc \notin Evicting
  BY IdleType DEF WsRoomOpen, Begin, live, Evicting
<1>3. RoomCovered(r, u)
  BY DEF WsRoomOpen, RoomCovered
<1> HIDE DEF x
<1> QED
  BY <1>1, <1>2, <1>3, ConnectEvictionInv

LEMMA WsMemberEvictionInv ==
  ASSUME Structure, EvictionInv, NEW q \in Req, WsMember(q)
  PROVE  EvictionInv'
<1> DEFINE x == [req[q] EXCEPT !.pc = "wsjoin"]
<1>1. /\ TypeOK /\ req[q] \in Request /\ req[q].pc = "wsmember"
      /\ req[q].actor = req[q].target
  BY DEF Structure, TypeOK, RequestOK, WsMember, CheckTarget, At
<1>2. UNCHANGED <<tables, sockets, overlap>> /\ req[q].pc \notin Evicting
  BY <1>1 DEF WsMember, CheckTarget, live, Evicting
<1>3. CASE ~Active(req[q].room, req[q].target)
  <2>1. Finish(q)
    BY <1>3 DEF WsMember, CheckTarget
  <2>2. /\ \A p \in Req \ {q} : req'[p] = req[p]
        /\ req'[q].pc \notin Connecting
    BY <1>1, <2>1, IdleType DEF Finish, TypeOK, Connecting
  <2> QED
    BY <1>2, <2>2, QuietEvictionInv
<1>4. CASE Active(req[q].room, req[q].target)
  <2>1. req' = [req EXCEPT ![q] = x]
    BY <1>4 DEF WsMember, CheckTarget, Goto
  <2>2. /\ x.pc = "wsjoin" /\ x.room = req[q].room /\ x.actor = req[q].actor
        /\ x.overtaken = req[q].overtaken
    BY <1>1 DEF Request
  <2> HIDE DEF x
  <2>3. ASSUME NEW r \in Room, NEW u \in User,
               ~x.overtaken, x.room = r, x.actor = u
        PROVE  Covered(r, u)
    <3>1. RoomCovered(r, u)
      BY <1>1, <2>2, <2>3 DEF EvictionInv, ConnectsCovered
    <3>2. Active(r, u)
      BY <1>1, <1>4, <2>2, <2>3
    <3> QED
      BY <3>1, <3>2 DEF Covered, RoomCovered
  <2> QED
    BY <1>2, <2>1, <2>2, <2>3, ConnectEvictionInv
<1> QED
  BY <1>3, <1>4

\* Requests and tables as before, or only q finished: sockets come and go.
LEMMA SocketsEvictionInv ==
  ASSUME Structure, EvictionInv, UNCHANGED tables,
         req' = req \/ (\E q \in Req : Finish(q) /\ req[q].pc \notin Evicting),
         \A r \in Room : \A u \in sockets'[r] \ overlap'[r] : u \in User /\ Covered(r, u)
  PROVE  EvictionInv'
<1>1. TypeOK
  BY DEF Structure
<1>2. \A p \in Req : \/ req'[p] = req[p]
                     \/ req'[p] = Idle /\ req[p].pc \notin Evicting
  BY <1>1 DEF Finish, TypeOK
<1>3. ASSUME NEW r \in Room, NEW u \in User
      PROVE  /\ Covered(r, u) => Covered(r, u)'
             /\ RoomCovered(r, u) => RoomCovered(r, u)'
  <2>1. EvictionPending(r, u) => EvictionPending(r, u)'
    <3>1. ASSUME NEW p \in Req, req[p].room = r, u \in ToEvict(req[p]) PROVE req'[p] = req[p]
      <4>1. req[p].pc \in Evicting
        BY <3>1, ToEvictShape DEF Evicting
      <4> QED
        BY <1>2, <4>1
    <3> QED
      BY <3>1 DEF EvictionPending
  <2>2. /\ Open(r) => Open(r)'
        /\ Active(r, u) => Active(r, u)'
    BY DEF tables, Open, Active, Present
  <2> QED
    BY <2>1, <2>2 DEF Covered, RoomCovered
<1>4. EvictedSocketsStayOut'
  <2> SUFFICES ASSUME NEW r \in Room, NEW u \in sockets'[r] \ overlap'[r]
               PROVE  Covered(r, u)'
    BY DEF EvictedSocketsStayOut, Covered
  <2> QED
    BY <1>3
<1>5. ConnectsCovered'
  <2> SUFFICES ASSUME NEW p \in Req, NEW r \in Room, NEW u \in User,
                      ~req'[p].overtaken, req'[p].room = r, req'[p].actor = u,
                      req'[p].pc \in Connecting
               PROVE  /\ req'[p].pc = "wsmember" => RoomCovered(r, u)'
                      /\ req'[p].pc = "wsjoin" => Covered(r, u)'
    BY DEF ConnectsCovered, Connecting
  <2>1. req'[p] = req[p]
    BY <1>2, IdleType DEF Connecting
  <2>2. /\ req[p].pc = "wsmember" => RoomCovered(r, u)
        /\ req[p].pc = "wsjoin" => Covered(r, u)
    BY <2>1 DEF EvictionInv, ConnectsCovered
  <2> QED
    BY <1>3, <2>1, <2>2
<1> QED
  BY <1>4, <1>5 DEF EvictionInv

LEMMA WsJoinEvictionInv ==
  ASSUME Structure, EvictionInv, NEW q \in Req, WsJoin(q)
  PROVE  EvictionInv'
<1>1. /\ TypeOK /\ req[q].pc = "wsjoin" /\ req[q].room \in Room
      /\ req[q].target \in User /\ req[q].actor = req[q].target
  BY DEF Structure, RequestOK, WsJoin, At
<1>2. UNCHANGED tables /\ Finish(q) /\ req[q].pc \notin Evicting
  BY <1>1 DEF WsJoin, tables, Evicting
<1>3. ~req[q].overtaken => Covered(req[q].room, req[q].target)
  BY <1>1 DEF EvictionInv, ConnectsCovered
<1>4. ASSUME NEW r \in Room, NEW u \in sockets'[r] \ overlap'[r]
      PROVE  u \in User /\ Covered(r, u)
  <2>1. CASE r = req[q].room /\ u = req[q].target
    <3>1. ~req[q].overtaken
      BY <1>1, <1>4, <2>1 DEF WsJoin, TypeOK
    <3> QED
      BY <1>1, <1>3, <2>1, <3>1
  <2>2. CASE ~(r = req[q].room /\ u = req[q].target)
    <3>1. u \in sockets[r] \ overlap[r]
      BY <1>1, <1>4, <2>2 DEF WsJoin, TypeOK
    <3> QED
      BY <1>1, <3>1 DEF EvictionInv, EvictedSocketsStayOut, Covered, TypeOK
  <2> QED
    BY <2>1, <2>2
<1> QED
  BY <1>2, <1>4, SocketsEvictionInv

LEMMA SocketGoneEvictionInv ==
  ASSUME Structure, EvictionInv, NEW w \in User, NEW o \in Room, SocketGone(w, o)
  PROVE  EvictionInv'
<1>1. TypeOK /\ UNCHANGED tables /\ req' = req
  BY DEF Structure, SocketGone
<1>2. ASSUME NEW r \in Room, NEW u \in sockets'[r] \ overlap'[r]
      PROVE  u \in User /\ Covered(r, u)
  <2>1. u \in sockets[r] \ overlap[r]
    BY <1>1, <1>2 DEF SocketGone, TypeOK
  <2> QED
    BY <1>1, <2>1 DEF EvictionInv, EvictedSocketsStayOut, Covered, TypeOK
<1> QED
  BY <1>1, <1>2, SocketsEvictionInv

\* No socket and no connect is left.
LEMMA RestartEvictionInv ==
  ASSUME Structure, EvictionInv, Restart
  PROVE  EvictionInv'
<1>1. \A r \in Room : sockets'[r] = {}
  BY DEF Restart
<1>2. \A q \in Req : req'[q].pc = "idle"
  BY IdleType DEF Restart
<1>3. EvictedSocketsStayOut'
  BY <1>1 DEF EvictedSocketsStayOut
<1>4. ConnectsCovered'
  BY <1>2 DEF ConnectsCovered
<1> QED
  BY <1>3, <1>4 DEF EvictionInv

LEMMA NextEvictionInv == Structure /\ EvictionInv /\ [Next]_vars => EvictionInv'
<1> SUFFICES ASSUME Structure, EvictionInv, [Next]_vars PROVE EvictionInv'
  OBVIOUS
<1>1. ASSUME UNCHANGED vars PROVE EvictionInv'
  <2>1. UNCHANGED tables /\ req' = req /\ UNCHANGED <<sockets, overlap>>
    BY <1>1 DEF vars, tables, live
  <2>2. ASSUME NEW r \in Room, NEW u \in sockets'[r] \ overlap'[r]
        PROVE  u \in User /\ Covered(r, u)
    BY <2>1, <2>2 DEF Structure, TypeOK, EvictionInv, EvictedSocketsStayOut, Covered
  <2> QED
    BY <2>1, <2>2, SocketsEvictionInv
<1>2. ASSUME NEW q \in Req, Arrive(q) PROVE EvictionInv'
  BY <1>2, BeginEvictionInv, MarkLeftEvictionInv, WsRoomOpenEvictionInv DEF Arrive
<1>3. ASSUME NEW q \in Req, Serve(q) PROVE EvictionInv'
  BY <1>3, ServeQuietEvictionInv, CreateRoomEvictionInv, UpsertMemberEvictionInv,
     UpdateTargetEvictionInv, EndRoomEvictionInv, TransferOwnershipEvictionInv,
     AnnounceEvictionInv, WsMemberEvictionInv, WsJoinEvictionInv
  DEF Serve
<1>4. ASSUME NEW r \in Room, NEW u \in User, SocketGone(u, r) PROVE EvictionInv'
  BY <1>4, SocketGoneEvictionInv
<1>5. CASE Restart
  BY <1>5, RestartEvictionInv
<1>6. ASSUME NEW q \in Req, StatementFails(q) PROVE EvictionInv'
  BY <1>6, StatementFailsEvictionInv
<1> QED
  BY <1>1, <1>2, <1>3, <1>4, <1>5, <1>6 DEF Next

\* Whatever leaves, kicks, room ends and connects overlap, a socket that no
\* eviction overtook between its checks and hub.join, and whose eviction no error
\* has called off, belongs to an active member of an open room, or its eviction
\* is still to come.
THEOREM EvictionsReachSockets == Spec => []EvictedSocketsStayOut
<1>1. Init => EvictionInv
  BY IdleType DEF Init, EvictionInv, EvictedSocketsStayOut, ConnectsCovered
<1>2. EvictionInv => EvictedSocketsStayOut
  BY DEF EvictionInv
<1> QED
  BY <1>1, <1>2, AlwaysStructure, NextEvictionInv, PTL DEF Spec
=============================================================================
