--------------------------- MODULE DeletionProofs ---------------------------
(***************************************************************************)
(* Proofs about membership beside deletions of accounts, for any sets of   *)
(* rooms, users and concurrent requests.                                   *)
(***************************************************************************)
EXTENDS Deletion, RoomsProofs

\* What u would have to lose.
Out(u) == \A r \in Room : ~Present(r, u) /\ (Open(r) => rooms[r].owner # u)

\* A request that makes u a member or an owner without looking whether u is a
\* member now; a transfer that has not come to AssertMember still looks.
Mover(x, u) ==
  \/ x.actor = u /\ x.pc \in {"create", "upsert"}
  \/ x.target = u /\ x.pc \in {"exists", "transfer"}

Admitted(u) == \E q \in Req : (session[q] = u /\ req[q] = Idle) \/ Mover(req[q], u)

AccountTypes ==
  /\ deleted \subseteq User /\ gone \subseteq deleted /\ late \subseteq User
  /\ session \in [Req -> User \cup {Nil}]
  /\ del \in [pc : {"idle", "rooms", "members", "commit"}, user : User \cup {Nil},
              tx : BOOLEAN, stamps : BOOLEAN,
              rooms : SUBSET Room, members : SUBSET Room]
  /\ del.pc # "idle" => del.user \in User
  /\ del.pc = "idle" => del.members = {}
  /\ del.tx \/ del.rooms = {}
  /\ del.user \notin gone

\* The rows a transaction has updated exist.
LockedRows ==
  /\ \A r \in del.rooms : rooms[r] # Nil
  /\ \A r \in del.members : members[r][del.user] # Nil

\* What the deletion under way has still to do for u: nothing can be added to
\* what its statements have found.
Progress ==
  \A u \in User \ late : del.user = u =>
    /\ ~Entangled(u)
    /\ del.pc \in {"members", "commit"} =>
         \A r \in Room : Open(r) /\ rooms[r].owner = u => r \in del.rooms
    /\ del.pc = "commit" => \A r \in Room : Present(r, u) => r \in del.members

\* A user whose deletion has come to its end is out, and nobody lets it in.
Finished ==
  \A u \in gone \ late : Out(u) /\ ~Admitted(u)

DeletionInv ==
  /\ Structure
  /\ AccountTypes
  /\ LockedRows
  /\ Progress
  /\ Finished

USE RoomsAssumption, ZenonT(60)

----------------------------------------------------------------------------
(* Steps of the requests *)

\* The step makes u neither a member nor an owner.
Keeps(u) ==
  \A r \in Room :
    /\ Present(r, u)' => Present(r, u)
    /\ Open(r)' /\ rooms'[r].owner = u => Open(r) /\ rooms[r].owner = u

LEMMA QuietKeeps ==
  ASSUME NEW u \in User, UNCHANGED tables
  PROVE  Keeps(u)
  BY DEF Keeps, Present, Open, tables

\* One row of room_members is written, of another user or without letting the
\* user in.
LEMMA RowKeeps ==
  ASSUME TypeOK, NEW u \in User, NEW o \in Room, NEW w \in User, NEW row \in MemberRow,
         rooms' = rooms, members' = [members EXCEPT ![o][w] = row],
         w = u /\ ~row.left => Present(o, w)
  PROVE  Keeps(u)
<1> SUFFICES ASSUME NEW r \in Room PROVE Present(r, u)' => Present(r, u)
  BY DEF Keeps, Open
<1>1. members'[r][u] = IF r = o /\ u = w THEN row ELSE members[r][u]
  BY DEF TypeOK
<1> QED
  BY <1>1 DEF Present

LEMMA UpdateKeeps ==
  ASSUME Structure, NEW u \in User, NEW q \in Req, SetMuted(q) \/ Kick(q)
  PROVE  Keeps(u)
<1> DEFINE r == req[q].room
           w == req[q].target
<1>1. TypeOK /\ r \in Room /\ w \in User /\ req[q] \in Request
  BY DEF Structure, SetMuted, Kick, At, RequestOK, TypeOK
<1>2. CASE ~Present(r, w)
  BY <1>2, QuietKeeps DEF SetMuted, Kick, UpdateTarget
<1>3. CASE Present(r, w)
  <2>1. members[r][w] \in MemberRow
    BY SMTT(30), <1>1, <1>3 DEF Present, TypeOK
  <2>2. PICK row \in MemberRow : rooms' = rooms /\ members' = [members EXCEPT ![r][w] = row]
    <3>1. CASE SetMuted(q)
      <4> DEFINE row == [members[r][w] EXCEPT !.muted = req[q].member.muted]
      <4>1. row \in MemberRow
        BY <1>1, <2>1 DEF MemberRow, Request, Member
      <4>2. rooms' = rooms /\ members' = [members EXCEPT ![r][w] = row]
        BY <1>3, <3>1 DEF SetMuted, UpdateTarget, TargetRow
      <4> QED
        BY <4>1, <4>2
    <3>2. CASE Kick(q)
      <4> DEFINE row == [members[r][w] EXCEPT !.kicked = TRUE, !.left = TRUE]
      <4>1. row \in MemberRow
        BY <2>1 DEF MemberRow
      <4>2. rooms' = rooms /\ members' = [members EXCEPT ![r][w] = row]
        BY <1>3, <3>2 DEF Kick, UpdateTarget, TargetRow
      <4> QED
        BY <4>1, <4>2
    <3> QED
      BY <3>1, <3>2
  <2> QED
    BY <1>1, <1>3, <2>2, RowKeeps
<1> QED
  BY <1>2, <1>3

LEMMA TransferKeeps ==
  ASSUME Structure, NEW u \in User, NEW q \in Req, TransferOwnership(q), req[q].target # u
  PROVE  Keeps(u)
<1>1. CASE ~Transferable(req[q].room)
  BY <1>1, QuietKeeps DEF TransferOwnership
<1>2. CASE Transferable(req[q].room)
  <2> DEFINE o == req[q].room
             a == req[q].actor
             t == req[q].target
             new == [members[o][t] EXCEPT !.role = "owner"]
             old == [members[o][a] EXCEPT !.role = "member"]
  <2>0. TypeOK
    BY DEF Structure
  <2>1. /\ members[o][a] # Nil /\ members[o][t] # Nil
        /\ o \in Room /\ a \in User /\ t \in User /\ a # t
    BY DEF Structure, TransferOwnership, At, RequestOK
  <2>2. Transferred(o, a, t)
    BY <1>2, <2>1, TransferWrites DEF Transferred
  <2>3. /\ rooms[o] \in RoomRow
        /\ members[o][t] \in MemberRow /\ members[o][a] \in MemberRow
        /\ members[o] \in [User -> MemberRow \cup {Nil}]
    BY SMTT(30), <2>0, <2>1, <2>2 DEF Transferred, TypeOK, Open
  <2>4. new.left = members[o][t].left /\ old.left = members[o][a].left
    BY <2>3 DEF MemberRow
  <2>5. members' = [members EXCEPT ![o] = [members[o] EXCEPT ![t] = new, ![a] = old]]
    BY <2>2 DEF Transferred
  <2> HIDE DEF new, old
  <2> SUFFICES ASSUME NEW r \in Room
               PROVE  /\ Present(r, u)' => Present(r, u)
                      /\ Open(r)' /\ rooms'[r].owner = u => Open(r) /\ rooms[r].owner = u
    BY DEF Keeps
  <2>6. members'[r][u] = IF r = o /\ u = a THEN old ELSE members[r][u]
    <3>1. r # o => members'[r] = members[r]
      BY <2>0, <2>1, <2>5 DEF TypeOK
    <3>2. r = o => members'[r] = [members[o] EXCEPT ![t] = new, ![a] = old]
      BY <2>0, <2>1, <2>5 DEF TypeOK
    <3> QED
      BY <2>1, <2>3, <3>1, <3>2
  <2>7. r = o => rooms'[r].owner = t
    BY <2>0, <2>1, <2>2, <2>3 DEF Transferred, TypeOK, RoomRow
  <2>8. r # o => rooms'[r] = rooms[r]
    BY <2>0, <2>1, <2>2 DEF Transferred, TypeOK
  <2> QED
    BY <2>1, <2>4, <2>6, <2>7, <2>8 DEF Present, Open
<1> QED
  BY <1>1, <1>2

LEMMA CreateKeeps ==
  ASSUME Structure, NEW u \in User, NEW q \in Req, NEW code \in Code, CreateRoom(q, code),
         req[q].actor # u
  PROVE  Keeps(u)
<1> DEFINE o == req[q].room
           a == req[q].actor
           room == [code |-> code, owner |-> a, ended |-> FALSE]
           row == [role |-> "owner", left |-> FALSE, kicked |-> FALSE, muted |-> FALSE]
<1>1. TypeOK /\ o \in Room /\ a \in User
  BY DEF Structure, CreateRoom, At, RequestOK
<1>2. room.owner # u
  OBVIOUS
<1>3. rooms' = [rooms EXCEPT ![o] = room] /\ members' = [members EXCEPT ![o][a] = row]
  BY DEF CreateRoom
<1> HIDE DEF room, row
<1> SUFFICES ASSUME NEW r \in Room
             PROVE  /\ Present(r, u)' => Present(r, u)
                    /\ Open(r)' /\ rooms'[r].owner = u => Open(r) /\ rooms[r].owner = u
  BY DEF Keeps
<1>4. members'[r][u] = members[r][u]
  BY <1>1, <1>3 DEF TypeOK
<1>5. rooms'[r] = IF r = o THEN room ELSE rooms[r]
  BY <1>1, <1>3 DEF TypeOK
<1> QED
  BY <1>2, <1>4, <1>5 DEF Present, Open

LEMMA UpsertKeeps ==
  ASSUME Structure, NEW u \in User, NEW q \in Req, UpsertMember(q), req[q].actor # u
  PROVE  Keeps(u)
<1> DEFINE r == req[q].room
           w == req[q].target
           row == Upserted(members[r][w])
<1>1. TypeOK /\ r \in Room /\ w \in User /\ w # u
  BY DEF Structure, UpsertMember, At, RequestOK
<1>2. members[r][w] = Nil \/ members[r][w] \in MemberRow
  BY SMTT(30), <1>1 DEF TypeOK
<1>3. row \in MemberRow
  BY <1>2 DEF Upserted, NewMember, MemberRow
<1>4. rooms' = rooms /\ members' = [members EXCEPT ![r][w] = row]
  BY <1>1 DEF UpsertMember, TypeOK
<1> HIDE DEF row
<1> QED
  BY <1>1, <1>3, <1>4, RowKeeps

LEMMA EndKeeps ==
  ASSUME Structure, NEW u \in User, NEW q \in Req, EndRoom(q)
  PROVE  Keeps(u)
<1> DEFINE o == req[q].room
           room == [rooms[o] EXCEPT !.ended = TRUE]
<1>1. TypeOK /\ o \in Room /\ rooms[o] # Nil
  BY DEF Structure, EndRoom, At, RequestOK
<1>2. CASE ~Open(o)
  BY <1>2, QuietKeeps DEF EndRoom, tables
<1>3. CASE Open(o)
  <2>1. rooms[o] \in RoomRow
    BY <1>1 DEF TypeOK
  <2>2. room.ended
    BY <2>1 DEF RoomRow
  <2>3. rooms' = [rooms EXCEPT ![o] = room] /\ members' = members
    BY <1>3 DEF EndRoom
  <2> HIDE DEF room
  <2>4. \A r \in Room : rooms'[r] = IF r = o THEN room ELSE rooms[r]
    BY <1>1, <2>3 DEF TypeOK
  <2> QED
    BY SMTT(30), <2>2, <2>3, <2>4 DEF Keeps, Present, Open
<1> QED
  BY <1>2, <1>3

LEMMA LeaveKeeps ==
  ASSUME Structure, NEW u \in User, NEW q \in Req, NEW w \in User, NEW r \in Room,
         MarkLeft(q, w, r)
  PROVE  Keeps(u)
<1>1. TypeOK
  BY DEF Structure
<1>2. CASE Present(r, w)
  <2> DEFINE row == [members[r][w] EXCEPT !.left = TRUE]
  <2>1. members[r][w] \in MemberRow
    BY SMTT(30), <1>1, <1>2 DEF Present, TypeOK
  <2>2. row \in MemberRow
    BY <2>1 DEF MemberRow
  <2>3. rooms' = rooms /\ members' = [members EXCEPT ![r][w] = row]
    BY <1>1, <1>2 DEF MarkLeft, TypeOK
  <2> HIDE DEF row
  <2> QED
    BY <1>1, <1>2, <2>2, <2>3, RowKeeps
<1>3. CASE ~Present(r, w)
  <2>1. rooms' = rooms /\ members' = [members EXCEPT ![r][w] = members[r][w]]
    BY <1>1, <1>3 DEF MarkLeft, TypeOK
  <2>2. \A o \in Room, v \in User : members'[o][v] = members[o][v]
    BY <1>1, <2>1 DEF TypeOK
  <2> QED
    BY <2>1, <2>2 DEF Keeps, Present, Open
<1> QED
  BY <1>2, <1>3

LEMMA ServeKeeps ==
  ASSUME Structure, NEW u \in User, NEW q \in Req, Serve(q), ~Mover(req[q], u)
  PROVE  Keeps(u)
<1>1. CASE UNCHANGED tables
  BY <1>1, QuietKeeps
<1>2. ASSUME NEW code \in Code, CreateRoom(q, code) PROVE Keeps(u)
  BY <1>2, CreateKeeps DEF Mover, CreateRoom, At
<1>3. CASE UpsertMember(q)
  BY <1>3, UpsertKeeps DEF Mover, UpsertMember, At
<1>4. CASE SetMuted(q) \/ Kick(q)
  BY <1>4, UpdateKeeps
<1>5. CASE EndRoom(q)
  BY <1>5, EndKeeps
<1>6. CASE TransferOwnership(q)
  BY <1>6, TransferKeeps DEF Mover, TransferOwnership, At
<1> QED
  BY <1>1, <1>2, <1>3, <1>4, <1>5, <1>6
  DEF Serve, CodeTaken, GetMember, BroadcastMemberJoined, AnnounceLeft,
      BroadcastMute, KickConnection, BroadcastRoomEnded, AssertTarget,
      TargetExists, CheckTarget, BroadcastOwnerChanged, WsMember, WsJoin

LEMMA ArriveKeeps ==
  ASSUME Structure, NEW u \in User, NEW q \in Req, Arrive(q)
  PROVE  Keeps(u)
<1>1. CASE UNCHANGED tables
  BY <1>1, QuietKeeps
<1>2. ASSUME NEW r \in Room, NEW w \in User, MarkLeft(q, w, r) PROVE Keeps(u)
  BY <1>2, LeaveKeeps
<1> QED
  BY <1>1, <1>2
  DEF Arrive, BeginCreate, BeginEnd, BeginJoin, WsRoomOpen, BeginMute,
      BeginKick, BeginTransfer

Moving == {"create", "upsert", "exists", "transfer"}

\* What a step of request q does to the requests: the others go on as they
\* were, and q comes to a write that lets its target in only past a look at
\* the target's membership.
Advances(q) ==
  /\ \A p \in Req \ {q} :
       /\ req'[p].pc = req[p].pc
       /\ req'[p].actor = req[p].actor /\ req'[p].target = req[p].target
       /\ req'[p] = Idle => req[p] = Idle
  /\ req'[q].pc \in Moving =>
       /\ req'[q].actor = req[q].actor /\ req'[q].target = req[q].target
       /\ \/ req'[q].pc = "create" /\ req[q].pc = "create"
          \/ /\ req'[q].pc \in {"exists", "transfer"}
             /\ req[q].room \in Room /\ Active(req[q].room, req[q].target)

LEMMA FinishAdvances ==
  ASSUME TypeOK, NEW q \in Req, Finish(q)
  PROVE  Advances(q)
  BY IdleType DEF Advances, Finish, TypeOK, Moving

LEMMA GotoAdvances ==
  ASSUME TypeOK, NEW q \in Req, NEW pc, pc \notin Moving, Goto(q, pc)
  PROVE  Advances(q)
<1>1. req[q] \in Request /\ req'[q] = [req[q] EXCEPT !.pc = pc]
  BY DEF TypeOK, Goto
<1>2. req'[q].pc = pc
  BY <1>1 DEF Request
<1>3. \A p \in Req \ {q} : req'[p] = req[p]
  BY DEF TypeOK, Goto
<1> QED
  BY <1>2, <1>3 DEF Advances

LEMMA CheckAdvances ==
  ASSUME Structure, NEW q \in Req, AssertTarget(q) \/ TargetExists(q) \/ WsMember(q)
  PROVE  Advances(q)
<1>1. TypeOK /\ req[q].room \in Room
  BY DEF Structure, AssertTarget, TargetExists, WsMember, CheckTarget, At, RequestOK
<1>2. CASE Finish(q)
  BY <1>1, <1>2, FinishAdvances
<1>3. PICK pc \in {"exists", "transfer", "wsjoin"} :
        Finish(q) \/ (Goto(q, pc) /\ Active(req[q].room, req[q].target))
  BY DEF AssertTarget, TargetExists, WsMember, CheckTarget
<1>4. CASE Goto(q, pc) /\ Active(req[q].room, req[q].target)
  <2>1. req[q] \in Request /\ req'[q] = [req[q] EXCEPT !.pc = pc]
    BY <1>1, <1>4 DEF TypeOK, Goto
  <2>2. req'[q].pc = pc /\ req'[q].actor = req[q].actor /\ req'[q].target = req[q].target
    BY <2>1 DEF Request
  <2>3. \A p \in Req \ {q} : req'[p] = req[p]
    BY <1>1, <1>4 DEF TypeOK, Goto
  <2> QED
    BY <1>1, <1>3, <1>4, <2>2, <2>3 DEF Advances, Moving
<1> QED
  BY <1>2, <1>3, <1>4

\* A request that is not connecting is not marked by an eviction.
LEMMA IdleOvertaken ==
  ASSUME NEW x \in Request, NEW r, NEW out, Overtaken(x, r, out) = Idle
  PROVE  x = Idle
<1> DEFINE y == Overtaken(x, r, out)
<1>1. x.pc = y.pc
  BY DEF Overtaken, Request
<1>2. x.pc = "idle"
  BY <1>1, IdleType
<1>3. y = [x EXCEPT !.overtaken = x.overtaken]
  BY <1>2 DEF Overtaken, Request
<1>4. [x EXCEPT !.overtaken = x.overtaken] = x
  BY DEF Request
<1> QED
  BY <1>3, <1>4

LEMMA OvertakeAdvances ==
  ASSUME TypeOK, NEW q \in Req, NEW r \in Room, NEW out \in SUBSET User, Overtake(q, r, out)
  PROVE  Advances(q)
<1>1. /\ req'[q] = Idle
      /\ \A p \in Req \ {q} :
           /\ req'[p].pc = req[p].pc
           /\ req'[p].actor = req[p].actor /\ req'[p].target = req[p].target
  BY SMTT(30), OvertakeReq
<1>2. ASSUME NEW p \in Req \ {q}, req'[p] = Idle PROVE req[p] = Idle
  <2>1. req[p] \in Request /\ req'[p] = Overtaken(req[p], r, out)
    BY DEF TypeOK, Overtake
  <2> QED
    BY <1>2, <2>1, IdleOvertaken
<1> QED
  BY <1>1, <1>2, IdleType DEF Advances, Moving

LEMMA ServeAdvances ==
  ASSUME Structure, NEW q \in Req, Serve(q)
  PROVE  Advances(q)
<1>1. TypeOK /\ req[q] \in Request
  BY DEF Structure, TypeOK
<1>2. ASSUME NEW pc \in {"get", "muted", "kicked", "ended", "transferred"}, Goto(q, pc)
      PROVE  Advances(q)
  BY <1>1, <1>2, GotoAdvances DEF Moving
<1>3. CASE Finish(q)
  BY <1>1, <1>3, FinishAdvances
<1>4. ASSUME NEW code \in Code, CodeTaken(q, code) PROVE Advances(q)
  <2>1. CASE req' = [req EXCEPT ![q].attempts = @ + 1]
    <3>1. req'[q] = [req[q] EXCEPT !.attempts = req[q].attempts + 1]
      BY <1>1, <2>1 DEF TypeOK
    <3>2. req'[q].pc = req[q].pc /\ req'[q].actor = req[q].actor /\ req'[q].target = req[q].target
      BY <1>1, <3>1 DEF Request
    <3>3. \A p \in Req \ {q} : req'[p] = req[p]
      BY <1>1, <2>1 DEF TypeOK
    <3> QED
      BY <1>4, <3>2, <3>3 DEF Advances, CodeTaken, At
  <2> QED
    BY <1>3, <1>4, <2>1 DEF CodeTaken
<1>5. CASE GetMember(q)
  <2> DEFINE m == MemberOf(req[q].room, req[q].target)
  <2>1. CASE req' = [req EXCEPT ![q].pc = "joined", ![q].member = m]
    <3>1. req'[q] = [req[q] EXCEPT !.pc = "joined", !.member = m]
      BY <1>1, <2>1 DEF TypeOK
    <3>2. req'[q].pc = "joined"
      BY <1>1, <3>1 DEF Request
    <3>3. \A p \in Req \ {q} : req'[p] = req[p]
      BY <1>1, <2>1 DEF TypeOK
    <3> QED
      BY <3>2, <3>3 DEF Advances, Moving
  <2> QED
    BY <1>3, <1>5, <2>1 DEF GetMember
<1>6. CASE AnnounceLeft(q) \/ KickConnection(q)
  <2>1. req[q].room \in Room /\ req[q].target \in User
    BY <1>6 DEF Structure, AnnounceLeft, KickConnection, At, RequestOK
  <2>2. Evict(q, req[q].room, {req[q].target})
    BY <1>6 DEF AnnounceLeft, KickConnection
  <2> QED
    BY SMTT(30), <1>1, <2>1, <2>2, OvertakeAdvances DEF Evict
<1>7. CASE BroadcastRoomEnded(q)
  <2>1. req[q].room \in Room
    BY <1>7 DEF Structure, BroadcastRoomEnded, At, RequestOK
  <2> QED
    BY <1>1, <1>7, <2>1, OvertakeAdvances DEF BroadcastRoomEnded, Evict
<1>8. CASE AssertTarget(q) \/ TargetExists(q) \/ WsMember(q)
  BY <1>8, CheckAdvances
<1> QED
  BY <1>2, <1>3, <1>4, <1>5, <1>6, <1>7, <1>8
  DEF Serve, CreateRoom, UpsertMember, BroadcastMemberJoined, SetMuted, Kick,
      UpdateTarget, BroadcastMute, EndRoom, TransferOwnership,
      BroadcastOwnerChanged, WsJoin

\* No request lets in a user who is out, when one goes on.
LEMMA StepAdmits ==
  ASSUME NEW u \in User, NEW q \in Req, Advances(q),
         session' = [session EXCEPT ![q] = Nil], session \in [Req -> User \cup {Nil}],
         ~Admitted(u), Out(u)
  PROVE  ~Admitted(u)'
<1> SUFFICES ASSUME NEW p \in Req, (session[p] = u /\ req[p] = Idle)' \/ Mover(req'[p], u)
             PROVE  FALSE
  BY DEF Admitted, Mover
<1>1. Advances(q)
  OBVIOUS
<1>2. CASE p = q
  <2>1. Mover(req'[q], u)
    BY <1>2
  <2>2. CASE req'[q].pc = "create" /\ req[q].pc = "create"
    BY <1>1, <2>1, <2>2 DEF Advances, Moving, Mover, Admitted
  <2>3. CASE /\ req'[q].pc \in {"exists", "transfer"}
             /\ req[q].room \in Room /\ Active(req[q].room, req[q].target)
    BY <1>1, <2>1, <2>3 DEF Advances, Moving, Mover, Out, Active
  <2> QED
    BY <1>1, <2>1, <2>2, <2>3 DEF Advances, Moving, Mover
<1>3. CASE p # q
  <2>1. session'[p] = session[p]
    BY <1>3
  <2>2. /\ req'[p].pc = req[p].pc
        /\ req'[p].actor = req[p].actor /\ req'[p].target = req[p].target
        /\ req'[p] = Idle => req[p] = Idle
    BY <1>1, <1>3 DEF Advances
  <2> QED
    BY <2>1, <2>2 DEF Admitted, Mover
<1> QED
  BY <1>2, <1>3

\* What a request is when it has begun.
LEMMA ArriveAdvances ==
  ASSUME Structure, NEW q \in Req, Arrive(q)
  PROVE  /\ req[q] = Idle
         /\ \A p \in Req \ {q} : req'[p] = req[p]
         /\ req'[q].pc \notin {"idle", "exists", "transfer"}
         /\ req'[q].pc = "wsmember" => ~ \E u \in User : Mover(req'[q], u)
<1>1. TypeOK
  BY DEF Structure
<1>2. ASSUME NEW pc \in {"create", "end", "upsert", "left", "wsmember", "kick", "assert"},
             NEW r \in Room, NEW a \in User, NEW t \in User \cup {Nil}, Begin(q, pc, r, a, t)
      PROVE  req[q] = Idle /\ (\A p \in Req \ {q} : req'[p] = req[p]) /\ req'[q].pc = pc
  BY <1>1, <1>2 DEF Begin, TypeOK, Idle
<1>3. ASSUME NEW r \in Room, NEW a \in User, NEW t \in User, NEW m \in MuteInputs,
             BeginMute(q, a, t, r, m)
      PROVE  req[q] = Idle /\ (\A p \in Req \ {q} : req'[p] = req[p]) /\ req'[q].pc = "mute"
  BY <1>1, <1>3 DEF BeginMute, TypeOK, Idle
<1> DEFINE Begun == /\ req[q] = Idle /\ \A p \in Req \ {q} : req'[p] = req[p]
                    /\ req'[q].pc \in {"create", "end", "upsert", "left", "wsmember",
                                       "kick", "assert", "mute"}
<1>4. Begun
  <2>1. ASSUME NEW r \in Room, NEW u \in User, BeginCreate(q, u, r) PROVE Begun
    BY <1>2, <2>1 DEF BeginCreate
  <2>2. ASSUME NEW r \in Room, NEW u \in User, BeginEnd(q, u, r) PROVE Begun
    BY <1>2, <2>2 DEF BeginEnd
  <2>3. ASSUME NEW r \in Room, NEW u \in User, NEW code \in Code, BeginJoin(q, u, r, code) PROVE Begun
    BY <1>2, <2>3 DEF BeginJoin
  <2>4. ASSUME NEW r \in Room, NEW u \in User, MarkLeft(q, u, r) PROVE Begun
    BY <1>2, <2>4 DEF MarkLeft
  <2>5. ASSUME NEW r \in Room, NEW u \in User, WsRoomOpen(q, u, r) PROVE Begun
    BY <1>2, <2>5 DEF WsRoomOpen
  <2>6. ASSUME NEW r \in Room, NEW u \in User, NEW t \in User, BeginKick(q, u, t, r) PROVE Begun
    BY <1>2, <2>6 DEF BeginKick
  <2>7. ASSUME NEW r \in Room, NEW u \in User, NEW t \in User, BeginTransfer(q, u, t, r) PROVE Begun
    BY <1>2, <2>7 DEF BeginTransfer
  <2>8. ASSUME NEW r \in Room, NEW u \in User, NEW t \in User, NEW m \in MuteInputs,
               BeginMute(q, u, t, r, m)
        PROVE  Begun
    BY <1>3, <2>8
  <2> HIDE DEF Begun
  <2> QED
    BY <2>1, <2>2, <2>3, <2>4, <2>5, <2>6, <2>7, <2>8 DEF Arrive
<1> QED
  BY <1>4 DEF Mover

----------------------------------------------------------------------------
(* Steps of a deletion *)

\* Rows may change, and none appears or disappears.
SameRows ==
  /\ rooms' \in [Room -> RoomRow \cup {Nil}]
  /\ members' \in [Room -> [User -> MemberRow \cup {Nil}]]
  /\ \A r \in Room : rooms'[r] = Nil <=> rooms[r] = Nil
  /\ \A r \in Room, u \in User : members'[r][u] = Nil <=> members[r][u] = Nil

LEMMA SameRowsStructure ==
  ASSUME Structure, SameRows, UNCHANGED <<live, req>>
  PROVE  Structure'
<1>1. TypeOK'
  BY DEF Structure, SameRows, TypeOK, live
<1>2. ASSUME NEW q \in Req PROVE RequestOK(req'[q], rooms', members')
  <2>1. RequestOK(req[q], rooms, members) /\ req'[q] = req[q]
    BY DEF Structure
  <2> QED
    BY SMTT(30), <2>1 DEF RequestOK, SameRows
<1>3. CreateAlone' /\ RowsHaveRooms'
  BY DEF Structure, SameRows, CreateAlone, RowsHaveRooms
<1> QED
  BY <1>1, <1>2, <1>3 DEF Structure

LEMMA UntouchedRows ==
  ASSUME TypeOK
  PROVE  /\ UNCHANGED rooms => /\ rooms' \in [Room -> RoomRow \cup {Nil}]
                               /\ \A r \in Room : rooms'[r] = rooms[r]
         /\ UNCHANGED members => /\ members' \in [Room -> [User -> MemberRow \cup {Nil}]]
                                 /\ \A r \in Room, u \in User : members'[r][u] = members[r][u]
  BY DEF TypeOK

LEMMA ClosedRows ==
  ASSUME TypeOK, NEW rs \in SUBSET Room, \A r \in rs : rooms[r] # Nil, rooms' = Closed(rs)
  PROVE  /\ rooms' \in [Room -> RoomRow \cup {Nil}]
         /\ \A r \in Room : /\ rooms'[r] = Nil <=> rooms[r] = Nil
                            /\ Open(r)' => Open(r) /\ r \notin rs
                            /\ Open(r)' => rooms'[r] = rooms[r]
<1>1. ASSUME NEW r \in rs
      PROVE  LET x == [rooms[r] EXCEPT !.ended = TRUE]
             IN  x \in RoomRow /\ x.ended
  <2>1. rooms[r] \in RoomRow
    BY DEF TypeOK
  <2> QED
    BY <2>1 DEF RoomRow
<1>2. \A r \in Room : rooms'[r] = IF r \in rs THEN [rooms[r] EXCEPT !.ended = TRUE] ELSE rooms[r]
  BY DEF Closed
<1>3. \A r \in Room : r \notin rs => rooms[r] \in RoomRow \cup {Nil}
  BY DEF TypeOK
<1>4. rooms' \in [Room -> RoomRow \cup {Nil}]
  <2>1. rooms' = [r \in Room |-> IF r \in rs THEN [rooms[r] EXCEPT !.ended = TRUE] ELSE rooms[r]]
    BY DEF Closed
  <2>2. \A r \in Room : (IF r \in rs THEN [rooms[r] EXCEPT !.ended = TRUE] ELSE rooms[r])
                          \in RoomRow \cup {Nil}
    BY <1>1, <1>3
  <2> QED
    BY <2>1, <2>2
<1>5. ASSUME NEW r \in rs
      PROVE  rooms'[r] # Nil /\ rooms'[r].ended
  <2>1. PICK x : x = [rooms[r] EXCEPT !.ended = TRUE]
    OBVIOUS
  <2>2. rooms'[r] = x /\ x \in RoomRow /\ x.ended
    BY <1>1, <1>2, <2>1
  <2> QED
    BY <2>2
<1>6. \A r \in Room : r \notin rs => rooms'[r] = rooms[r]
  BY <1>2
<1> QED
  BY <1>4, <1>5, <1>6 DEF Open

LEMMA RemovedRows ==
  ASSUME TypeOK, NEW u \in User, NEW ms \in SUBSET Room,
         \A r \in ms : members[r][u] # Nil, members' = Removed(ms, u)
  PROVE  /\ members' \in [Room -> [User -> MemberRow \cup {Nil}]]
         /\ \A r \in Room, w \in User :
              IF r \in ms /\ w = u
              THEN /\ members'[r][w] \in MemberRow /\ members'[r][w].left
                   /\ members'[r][w].role = members[r][w].role
              ELSE members'[r][w] = members[r][w]
<1> DEFINE Row(r) == [members[r] EXCEPT ![u].kicked = TRUE, ![u].left = TRUE]
           new(r) == [[members[r][u] EXCEPT !.kicked = TRUE] EXCEPT !.left = TRUE]
<1>1. ASSUME NEW r \in ms
      PROVE  /\ Row(r) \in [User -> MemberRow \cup {Nil}]
             /\ Row(r)[u] \in MemberRow /\ Row(r)[u].left /\ Row(r)[u].role = members[r][u].role
             /\ \A w \in User \ {u} : Row(r)[w] = members[r][w]
  <2>1. members[r] \in [User -> MemberRow \cup {Nil}] /\ members[r][u] \in MemberRow
    BY SMTT(30) DEF TypeOK
  <2>2. new(r) \in MemberRow /\ new(r).left /\ new(r).role = members[r][u].role
    BY <2>1 DEF MemberRow
  <2>3. Row(r) = [members[r] EXCEPT ![u] = new(r)]
    BY <2>1
  <2> HIDE DEF new, Row
  <2> QED
    BY <2>1, <2>2, <2>3
<1>2. members' = [r \in Room |-> IF r \in ms THEN Row(r) ELSE members[r]]
  BY DEF Removed
<1> HIDE DEF Row
<1>3. \A r \in Room : members[r] \in [User -> MemberRow \cup {Nil}]
  BY DEF TypeOK
<1>4. members' \in [Room -> [User -> MemberRow \cup {Nil}]]
  <2>1. \A r \in Room : (IF r \in ms THEN Row(r) ELSE members[r]) \in [User -> MemberRow \cup {Nil}]
    BY <1>1, <1>3
  <2> QED
    BY <1>2, <2>1
<1> QED
  BY SMTT(30), <1>1, <1>2, <1>4

LEMMA KeepsClosed ==
  ASSUME TypeOK, NEW u \in User, NEW rs \in SUBSET Room, \A r \in rs : rooms[r] # Nil,
         rooms' = Closed(rs), UNCHANGED members
  PROVE  Keeps(u)
  BY ClosedRows DEF Keeps, Present

----------------------------------------------------------------------------
(* The invariant *)

\* How the history of overlapping requests goes on.
LateStep ==
  late' = {u \in User :
    \/ Deleting(u)' /\ Entangled(u)'
    \/ u \in late /\ IF Deleting(u)' THEN Deleting(u) ELSE u \in gone'}

LEMMA LateForgets ==
  ASSUME LateStep, NEW u \in User, u \notin late'
  PROVE  /\ Deleting(u)' => ~Entangled(u)'
         /\ Deleting(u)' /\ Deleting(u) => u \notin late
         /\ ~Deleting(u)' /\ u \in gone' => u \notin late
  BY DEF LateStep

\* While a deletion is under way, or does not begin, what it has found stays
\* complete.
LEMMA ProgressKept ==
  ASSUME DeletionInv, LateStep, del' = del,
         \A u \in User \ late : Deleting(u) => Keeps(u)
  PROVE  Progress'
<1> SUFFICES ASSUME NEW u \in User, u \notin late', del'.user = u
             PROVE  (/\ ~Entangled(u)
                     /\ del.pc \in {"members", "commit"} =>
                          \A r \in Room : Open(r) /\ rooms[r].owner = u => r \in del.rooms
                     /\ del.pc = "commit" => \A r \in Room : Present(r, u) => r \in del.members)'
  BY DEF Progress
<1>1. Deleting(u)' /\ Deleting(u)
  BY DEF Deleting
<1>2. u \notin late /\ ~Entangled(u)'
  BY <1>1, LateForgets
<1>3. Keeps(u)
  BY <1>1, <1>2
<1>4. /\ del.pc \in {"members", "commit"} =>
           \A r \in Room : Open(r) /\ rooms[r].owner = u => r \in del.rooms
      /\ del.pc = "commit" => \A r \in Room : Present(r, u) => r \in del.members
  BY <1>1, <1>2 DEF DeletionInv, Progress, Deleting
<1> QED
  BY <1>2, <1>3, <1>4 DEF Keeps

\* A user who is out stays out, when no deletion comes to its end.
LEMMA FinishedKept ==
  ASSUME DeletionInv, LateStep, gone' \subseteq gone, del'.user \notin gone',
         \A u \in gone \ late : u \in gone' => Keeps(u) /\ ~Admitted(u)'
  PROVE  Finished'
<1> SUFFICES ASSUME NEW u \in gone', u \notin late'
             PROVE  Out(u)' /\ ~Admitted(u)'
  BY DEF Finished
<1>1. u \in User /\ u \in gone /\ ~Deleting(u)'
  BY DEF DeletionInv, AccountTypes, Deleting
<1>2. u \notin late
  BY <1>1, LateForgets
<1>3. Out(u) /\ Keeps(u) /\ ~Admitted(u)'
  BY <1>1, <1>2 DEF DeletionInv, Finished
<1> QED
  BY <1>3 DEF Out, Keeps

\* A step that does not concern accounts.
LEMMA RequestStep ==
  ASSUME DeletionInv, LateStep, Structure', UNCHANGED accounts,
         session' \in [Req -> User \cup {Nil}],
         \A r \in Room : rooms[r] # Nil => rooms'[r] # Nil,
         \A r \in Room, u \in User : members[r][u] # Nil => members'[r][u] # Nil,
         \A u \in User : ~Entangled(u) => Keeps(u),
         \A u \in deleted : Out(u) /\ ~Admitted(u) => Keeps(u) /\ ~Admitted(u)'
  PROVE  DeletionInv'
<1>1. deleted' = deleted /\ del' = del /\ gone' = gone
  BY DEF accounts
<1>2. late' \subseteq User
  BY DEF LateStep
<1>3. AccountTypes'
  BY <1>1, <1>2 DEF DeletionInv, AccountTypes
<1>4. LockedRows'
  <2>1. del.rooms \subseteq Room /\ del.members \subseteq Room
    BY DEF DeletionInv, AccountTypes
  <2>2. del.members # {} => del.user \in User
    BY DEF DeletionInv, AccountTypes
  <2> QED
    BY <1>1, <2>1, <2>2 DEF DeletionInv, LockedRows
<1>5. Progress'
  <2>1. \A u \in User \ late : Deleting(u) => Keeps(u)
    BY DEF DeletionInv, Progress, Deleting
  <2> QED
    BY <1>1, <2>1, ProgressKept
<1>6. Finished'
  <2>1. gone' \subseteq gone /\ del'.user \notin gone'
    BY <1>1 DEF DeletionInv, AccountTypes
  <2>2. \A u \in gone \ late : Keeps(u) /\ ~Admitted(u)'
    BY DEF DeletionInv, AccountTypes, Finished
  <2> QED
    BY <2>1, <2>2, FinishedKept
<1> QED
  BY <1>3, <1>4, <1>5, <1>6 DEF DeletionInv

LEMMA NoDeletionType ==
  /\ NoDeletion \in [pc : {"idle", "rooms", "members", "commit"}, user : User \cup {Nil},
                     tx : BOOLEAN, stamps : BOOLEAN,
                     rooms : SUBSET Room, members : SUBSET Room]
  /\ NoDeletion.pc = "idle" /\ NoDeletion.user = Nil /\ NoDeletion.rooms = {}
  /\ NoDeletion.members = {}
  BY DEF NoDeletion

\* No deletion is under way any more, or one begins: there is nothing to lose.
LEMMA ProgressEmpty ==
  ASSUME LateStep, del'.user \in User => del'.pc \in {"idle", "rooms"}
  PROVE  Progress'
<1> SUFFICES ASSUME NEW u \in User, u \notin late', del'.user = u
             PROVE  ~Entangled(u)'
  BY DEF Progress
<1> QED
  BY LateForgets DEF Deleting

\* A step of the requests leaves every row there.
LEMMA TablesKeepRows ==
  ASSUME Structure, TableStep
  PROVE  /\ \A r \in Room : rooms[r] # Nil => rooms'[r] # Nil
         /\ \A r \in Room, u \in User : members[r][u] # Nil => members'[r][u] # Nil
<1>0. TypeOK
  BY DEF Structure
<1>a. \A r \in Room : rooms[r] # Nil => rooms[r].owner \in User
  BY <1>0 DEF TypeOK, RoomRow
<1> SUFFICES ASSUME NEW o \in Room, NEW w \in User
             PROVE  /\ rooms[o] # Nil => rooms'[o] # Nil
                    /\ members[o][w] # Nil => members'[o][w] # Nil
  BY <1>a
<1>1. CASE UNCHANGED tables
  BY <1>1 DEF tables
<1>2. ASSUME NEW r \in Room, NEW u \in User, NEW room \in RoomRow,
             NEW row \in MemberRow, Created(r, u, room, row)
      PROVE  /\ rooms[o] # Nil => rooms'[o] # Nil
             /\ members[o][w] # Nil => members'[o][w] # Nil
  BY <1>0, <1>2 DEF Created, TypeOK
<1>3. ASSUME NEW r \in Room, NEW u \in User, NEW row \in MemberRow,
             RowWritten(r, u, row)
      PROVE  /\ rooms[o] # Nil => rooms'[o] # Nil
             /\ members[o][w] # Nil => members'[o][w] # Nil
  BY <1>0, <1>3 DEF RowWritten, TypeOK
<1>4. ASSUME NEW r \in Room, Ended(r)
      PROVE  /\ rooms[o] # Nil => rooms'[o] # Nil
             /\ members[o][w] # Nil => members'[o][w] # Nil
  <2> DEFINE room == [rooms[r] EXCEPT !.ended = TRUE]
  <2>1. rooms[r] \in RoomRow
    BY <1>0, <1>4 DEF Ended, Open, TypeOK
  <2>2. room \in RoomRow
    BY <2>1 DEF RoomRow
  <2>3. rooms' = [rooms EXCEPT ![r] = room] /\ members' = members
    BY <1>4 DEF Ended
  <2> HIDE DEF room
  <2> QED
    BY <1>0, <2>2, <2>3 DEF TypeOK
<1>5. ASSUME NEW r \in Room, NEW a \in User, NEW t \in User, Transferred(r, a, t)
      PROVE  /\ rooms[o] # Nil => rooms'[o] # Nil
             /\ members[o][w] # Nil => members'[o][w] # Nil
  <2> DEFINE room == [rooms[r] EXCEPT !.owner = t]
             new == [members[r][t] EXCEPT !.role = "owner"]
             old == [members[r][a] EXCEPT !.role = "member"]
  <2>1. /\ rooms[r] \in RoomRow
        /\ members[r][t] \in MemberRow /\ members[r][a] \in MemberRow
        /\ members[r] \in [User -> MemberRow \cup {Nil}]
    BY SMTT(30), <1>0, <1>5 DEF Transferred, TypeOK, Open
  <2>2. room \in RoomRow /\ new \in MemberRow /\ old \in MemberRow
    BY <2>1 DEF MemberRow, RoomRow
  <2>3. /\ rooms' = [rooms EXCEPT ![r] = room]
        /\ members' = [members EXCEPT ![r] = [members[r] EXCEPT ![t] = new, ![a] = old]]
    BY <1>5 DEF Transferred
  <2> HIDE DEF room, new, old
  <2>4. rooms[o] # Nil => rooms'[o] # Nil
    BY <1>0, <2>2, <2>3 DEF TypeOK
  <2>5. r # o => members'[o] = members[o]
    BY <1>0, <2>3 DEF TypeOK
  <2>6. r = o => members'[o] = [members[r] EXCEPT ![t] = new, ![a] = old]
    BY <1>0, <2>3 DEF TypeOK
  <2> QED
    BY <2>1, <2>2, <2>4, <2>5, <2>6
<1> QED
  BY <1>1, <1>2, <1>3, <1>4, <1>5 DEF TableStep

LEMMA UnchangedStructure ==
  ASSUME Structure, UNCHANGED vars
  PROVE  /\ Structure'
         /\ \A u \in User : Keeps(u)
         /\ \A r \in Room : rooms'[r] = rooms[r]
         /\ \A r \in Room, u \in User : members'[r][u] = members[r][u]
         /\ req' = req
<1>1. Structure'
  BY NextStructure
<1>2. UNCHANGED tables /\ req' = req
  BY DEF vars
<1> QED
  BY <1>1, <1>2, QuietKeeps DEF tables

LEMMA MiddlewareInv ==
  ASSUME DeletionInv, LateStep, NEW q \in Req, NEW w \in User, Middleware(q, w)
  PROVE  DeletionInv'
<1>1. /\ w \notin deleted /\ UNCHANGED vars /\ UNCHANGED accounts
      /\ session' = [session EXCEPT ![q] = w] /\ session \in [Req -> User \cup {Nil}]
      /\ Structure
  BY DEF Middleware, DeletionInv, AccountTypes
<1>2. session' \in [Req -> User \cup {Nil}]
  BY <1>1
<1>3. ASSUME NEW u \in deleted, ~Admitted(u) PROVE ~Admitted(u)'
  <2>1. u # w /\ req' = req
    BY <1>1, UnchangedStructure
  <2> QED
    BY <1>1, <1>3, <2>1 DEF Admitted, Mover
<1>4. deleted \subseteq User
  BY DEF DeletionInv, AccountTypes
<1> QED
  BY <1>1, <1>2, <1>3, <1>4, UnchangedStructure, RequestStep

LEMMA HandlerReturnsInv ==
  ASSUME DeletionInv, LateStep, NEW q \in Req, HandlerReturns(q)
  PROVE  DeletionInv'
<1>1. /\ UNCHANGED vars /\ UNCHANGED accounts
      /\ session' = [session EXCEPT ![q] = Nil] /\ session \in [Req -> User \cup {Nil}]
      /\ Structure /\ deleted \subseteq User
  BY DEF HandlerReturns, DeletionInv, AccountTypes
<1>2. session' \in [Req -> User \cup {Nil}]
  BY <1>1
<1>3. ASSUME NEW u \in deleted, ~Admitted(u) PROVE ~Admitted(u)'
  <2>1. u # Nil /\ req' = req
    BY <1>1, UnchangedStructure
  <2> QED
    BY <1>1, <1>3, <2>1 DEF Admitted, Mover
<1> QED
  BY <1>1, <1>2, <1>3, UnchangedStructure, RequestStep

LEMMA HandleInv ==
  ASSUME DeletionInv, LateStep, NEW q \in Req, Handle(q)
  PROVE  DeletionInv'
<1>1. /\ Arrive(q) /\ UNCHANGED accounts
      /\ session[q] # Nil /\ req'[q].actor = session[q]
      /\ session' = [session EXCEPT ![q] = Nil] /\ session \in [Req -> User \cup {Nil}]
      /\ Structure /\ deleted \subseteq User
  BY DEF Handle, DeletionInv, AccountTypes
<1>2. session' \in [Req -> User \cup {Nil}]
  BY <1>1
<1>3. Structure' /\ TableStep
  BY <1>1, NextStructure, NextTables DEF Next
<1>4. \A u \in User : Keeps(u)
  BY <1>1, ArriveKeeps
<1>5. ASSUME NEW u \in deleted, ~Admitted(u) PROVE ~Admitted(u)'
  <2>1. /\ req[q] = Idle /\ \A p \in Req \ {q} : req'[p] = req[p]
        /\ req'[q].pc \notin {"idle", "exists", "transfer"}
    BY <1>1, ArriveAdvances
  <2>2. session[q] # u
    BY <1>5, <2>1 DEF Admitted
  <2>3. ~Mover(req'[q], u) /\ session'[q] # u
    BY <1>1, <2>1, <2>2 DEF Mover
  <2>4. \A p \in Req \ {q} : session'[p] = session[p]
    BY <1>1
  <2> QED
    BY <1>5, <2>1, <2>3, <2>4 DEF Admitted, Mover
<1> QED
  BY <1>1, <1>2, <1>3, <1>4, <1>5, TablesKeepRows, RequestStep

LEMMA ConnectInv ==
  ASSUME DeletionInv, LateStep, NEW q \in Req, Connect(q)
  PROVE  DeletionInv'
<1>1. /\ Arrive(q) /\ UNCHANGED accounts /\ req'[q].pc = "wsmember"
      /\ session' = session /\ session \in [Req -> User \cup {Nil}]
      /\ Structure /\ deleted \subseteq User
  BY DEF Connect, DeletionInv, AccountTypes
<1>3. Structure' /\ TableStep
  BY <1>1, NextStructure, NextTables DEF Next
<1>4. \A u \in User : Keeps(u)
  BY <1>1, ArriveKeeps
<1>5. ASSUME NEW u \in deleted, ~Admitted(u) PROVE ~Admitted(u)'
  <2>1. /\ req[q] = Idle /\ \A p \in Req \ {q} : req'[p] = req[p]
        /\ ~Mover(req'[q], u)
    BY <1>1, ArriveAdvances
  <2>2. req'[q] # Idle
    BY <1>1, IdleType
  <2> QED
    BY <1>1, <1>5, <2>1, <2>2 DEF Admitted, Mover
<1> QED
  BY <1>1, <1>3, <1>4, <1>5, TablesKeepRows, RequestStep

LEMMA ContinueInv ==
  ASSUME DeletionInv, LateStep, NEW q \in Req, Continue(q)
  PROVE  DeletionInv'
<1>1. /\ Serve(q) /\ UNCHANGED accounts
      /\ session' = [session EXCEPT ![q] = Nil] /\ session \in [Req -> User \cup {Nil}]
      /\ Structure /\ deleted \subseteq User
  BY DEF Continue, DeletionInv, AccountTypes
<1>2. session' \in [Req -> User \cup {Nil}]
  BY <1>1
<1>3. Structure' /\ TableStep
  BY <1>1, NextStructure, NextTables DEF Next
<1>4. ASSUME NEW u \in User, ~Entangled(u) PROVE Keeps(u)
  BY <1>1, <1>4, ServeKeeps DEF Entangled, Mover
<1>5. ASSUME NEW u \in deleted, Out(u), ~Admitted(u) PROVE Keeps(u) /\ ~Admitted(u)'
  <2>1. u \in User /\ ~Mover(req[q], u)
    BY <1>1, <1>5 DEF Admitted
  <2> QED
    BY <1>1, <1>5, <2>1, ServeKeeps, ServeAdvances, StepAdmits
<1> QED
  BY <1>1, <1>2, <1>3, <1>4, <1>5, TablesKeepRows, RequestStep

LEMMA RequestFailsInv ==
  ASSUME DeletionInv, LateStep, NEW q \in Req, RequestFails(q)
  PROVE  DeletionInv'
<1>1. /\ StatementFails(q) /\ UNCHANGED accounts
      /\ session' = [session EXCEPT ![q] = Nil] /\ session \in [Req -> User \cup {Nil}]
      /\ Structure /\ deleted \subseteq User
  BY DEF RequestFails, DeletionInv, AccountTypes
<1>2. session' \in [Req -> User \cup {Nil}] /\ Structure'
  BY <1>1, StatementFailsStructure
<1>3. UNCHANGED tables /\ Advances(q)
  <2>1. PICK r \in Room, out \in SUBSET User : Overtake(q, r, out)
    BY <1>1, FailureSteps
  <2> QED
    BY <1>1, <2>1, OvertakeAdvances DEF StatementFails, Structure, tables
<1>4. \A u \in User : Keeps(u)
  BY <1>3, QuietKeeps
<1>5. rooms' = rooms /\ members' = members
  BY <1>3 DEF tables
<1>6. ASSUME NEW u \in deleted, Out(u), ~Admitted(u) PROVE ~Admitted(u)'
  BY <1>1, <1>3, <1>6, StepAdmits
<1> QED
  BY <1>1, <1>2, <1>4, <1>5, <1>6, RequestStep

LEMMA WsLoadUserInv ==
  ASSUME DeletionInv, LateStep, NEW q \in Req, WsLoadUser(q)
  PROVE  DeletionInv'
<1>1. /\ UNCHANGED tables /\ UNCHANGED live /\ UNCHANGED accounts
      /\ session \in [Req -> User \cup {Nil}]
      /\ Structure /\ deleted \subseteq User
      /\ At(q, "wsjoin") /\ session[q] = Nil
  BY DEF WsLoadUser, DeletionInv, AccountTypes
<1>2. TypeOK /\ req[q].actor \in User /\ req[q] # Idle
  BY <1>1, IdleType DEF Structure, At, RequestOK
<1>3. \A u \in User : Keeps(u)
  BY <1>1, QuietKeeps
<1>4. rooms' = rooms /\ members' = members
  BY <1>1 DEF tables
<1>5. CASE Finish(q) /\ session' = session
  <2>1. Structure'
    BY <1>1, <1>5, FinishStep
  <2>2. req'[q] = Idle /\ \A p \in Req \ {q} : req'[p] = req[p]
    BY <1>2, <1>5 DEF Finish, TypeOK
  <2>3. ASSUME NEW u \in deleted, ~Admitted(u) PROVE ~Admitted(u)'
    <3>1. ~Mover(req'[q], u) /\ session'[q] # u
      BY <1>1, <1>5, <2>2, IdleType DEF Mover
    <3> QED
      BY <1>5, <2>2, <2>3, <3>1 DEF Admitted, Mover
  <2> QED
    BY <1>1, <1>3, <1>4, <1>5, <2>1, <2>3, RequestStep
<1>6. CASE session' = [session EXCEPT ![q] = req[q].actor] /\ req' = req
  <2>1. Structure'
    BY <1>1, <1>6, NextStructure DEF vars
  <2>2. session' \in [Req -> User \cup {Nil}]
    BY <1>1, <1>2, <1>6
  <2>3. ASSUME NEW u \in deleted, ~Admitted(u) PROVE ~Admitted(u)'
    <3>1. \A p \in Req \ {q} : session'[p] = session[p]
      BY <1>1, <1>6
    <3> QED
      BY <1>2, <1>6, <2>3, <3>1 DEF Admitted, Mover
  <2> QED
    BY <1>1, <1>3, <1>4, <2>1, <2>2, <2>3, RequestStep
<1> QED
  BY <1>5, <1>6 DEF WsLoadUser

LEMMA SocketGoneInv ==
  ASSUME DeletionInv, LateStep, NEW r \in Room, NEW w \in User, SocketGone(w, r),
         UNCHANGED <<accounts, session>>
  PROVE  DeletionInv'
<1>1. /\ UNCHANGED tables /\ req' = req /\ UNCHANGED accounts
      /\ session' = session /\ session \in [Req -> User \cup {Nil}]
      /\ Structure /\ deleted \subseteq User
  BY DEF SocketGone, DeletionInv, AccountTypes
<1>2. Structure'
  BY <1>1, NextStructure DEF Next
<1>3. \A u \in User : Keeps(u)
  BY <1>1, QuietKeeps
<1>4. rooms' = rooms /\ members' = members
  BY <1>1 DEF tables
<1>5. ASSUME NEW u \in deleted, ~Admitted(u) PROVE ~Admitted(u)'
  BY <1>1, <1>5 DEF Admitted, Mover
<1> QED
  BY <1>1, <1>2, <1>3, <1>4, <1>5, RequestStep

\* The steps that leave the requests alone, and the tables too.
LEMMA StampUserInv ==
  ASSUME DeletionInv, LateStep, NEW w \in User, NEW tx \in BOOLEAN, StampUser(w, tx),
         session' \in [Req -> User \cup {Nil}],
         \A q \in Req : session'[q] \in {session[q], Nil}
  PROVE  DeletionInv'
<1>1. /\ UNCHANGED vars /\ gone' = gone \ {w} /\ deleted \subseteq deleted' /\ deleted' \subseteq User
      /\ Structure /\ AccountTypes
      /\ del' = [NoDeletion EXCEPT !.pc = "rooms", !.user = w, !.tx = tx,
                                   !.stamps = tx /\ w \notin deleted]
  BY DEF StampUser, DeletionInv, AccountTypes
<1>2. /\ del' \in [pc : {"idle", "rooms", "members", "commit"}, user : User \cup {Nil},
                   tx : BOOLEAN, stamps : BOOLEAN,
                   rooms : SUBSET Room, members : SUBSET Room]
      /\ del'.pc = "rooms" /\ del'.user = w /\ del'.rooms = {} /\ del'.members = {}
  BY <1>1 DEF NoDeletion
<1>3. late' \subseteq User
  BY DEF LateStep
<1>4. AccountTypes' /\ LockedRows'
  BY <1>1, <1>2, <1>3 DEF AccountTypes, LockedRows
<1>5. Progress'
  BY <1>2, ProgressEmpty
<1>6. Finished'
  <2>1. ASSUME NEW u \in gone \ late PROVE Keeps(u) /\ ~Admitted(u)'
    <3>1. u \in User /\ ~Admitted(u)
      BY <1>1, <2>1 DEF DeletionInv, Finished, AccountTypes
    <3>2. Keeps(u) /\ req' = req
      BY <1>1, <3>1, UnchangedStructure
    <3> QED
      BY <3>1, <3>2 DEF Admitted, Mover
  <2>2. gone' \subseteq gone /\ del'.user \notin gone'
    BY <1>1, <1>2
  <2> QED
    BY <2>1, <2>2, FinishedKept
<1>7. Structure'
  BY <1>1, UnchangedStructure
<1> QED
  BY <1>4, <1>5, <1>6, <1>7 DEF DeletionInv

LEMMA DeletionFailsInv ==
  ASSUME DeletionInv, LateStep, DeletionFails
  PROVE  DeletionInv'
<1>1. /\ UNCHANGED vars /\ UNCHANGED <<deleted, gone, session>> /\ del' = NoDeletion
      /\ Structure /\ AccountTypes
  BY DEF DeletionFails, DeletionInv
<1>2. late' \subseteq User
  BY DEF LateStep
<1>3. AccountTypes' /\ LockedRows'
  BY <1>1, <1>2, NoDeletionType DEF AccountTypes, LockedRows
<1>4. Progress'
  BY <1>1, NoDeletionType, ProgressEmpty
<1>5. Finished'
  <2>1. ASSUME NEW u \in gone \ late PROVE Keeps(u) /\ ~Admitted(u)'
    <3>1. u \in User /\ ~Admitted(u)
      BY <1>1, <2>1 DEF DeletionInv, Finished, AccountTypes
    <3>2. Keeps(u) /\ req' = req
      BY <1>1, <3>1, UnchangedStructure
    <3> QED
      BY <1>1, <3>1, <3>2 DEF Admitted, Mover
  <2>2. gone' \subseteq gone /\ del'.user \notin gone'
    BY <1>1, NoDeletionType DEF AccountTypes
  <2> QED
    BY <2>1, <2>2, FinishedKept
<1>6. Structure'
  BY <1>1, UnchangedStructure
<1> QED
  BY <1>3, <1>4, <1>5, <1>6 DEF DeletionInv

LEMMA UserRestoreInv ==
  ASSUME DeletionInv, LateStep, NEW w \in User, UserRestore(w)
  PROVE  DeletionInv'
<1>1. /\ UNCHANGED vars /\ session' = session /\ del' = del
      /\ deleted' = deleted \ {w} /\ gone' = gone \ {w}
      /\ Structure /\ AccountTypes /\ LockedRows
  BY DEF UserRestore, DeletionInv
<1>2. late' \subseteq User
  BY DEF LateStep
<1>3. AccountTypes'
  BY <1>1, <1>2 DEF AccountTypes
<1>4. LockedRows'
  BY <1>1 DEF LockedRows, vars, tables
<1>5. \A u \in User : Keeps(u)
  BY <1>1, UnchangedStructure
<1>6. Progress'
  BY <1>1, <1>5, ProgressKept
<1>7. Finished'
  <2>1. ASSUME NEW u \in gone \ late PROVE Keeps(u) /\ ~Admitted(u)'
    <3>1. u \in User /\ ~Admitted(u)
      BY <1>1, <2>1 DEF DeletionInv, Finished, AccountTypes
    <3>2. req' = req
      BY <1>1, UnchangedStructure
    <3> QED
      BY <1>1, <1>5, <3>1, <3>2 DEF Admitted, Mover
  <2>2. gone' \subseteq gone /\ del'.user \notin gone'
    BY <1>1 DEF AccountTypes
  <2> QED
    BY <2>1, <2>2, FinishedKept
<1>8. Structure'
  BY <1>1, UnchangedStructure
<1> QED
  BY <1>3, <1>4, <1>6, <1>7, <1>8 DEF DeletionInv

LEMMA RestartAllInv ==
  ASSUME DeletionInv, LateStep, RestartAll
  PROVE  DeletionInv'
<1>1. /\ Restart /\ UNCHANGED tables /\ req' = [q \in Req |-> Idle]
      /\ session' = [q \in Req |-> Nil] /\ del' = NoDeletion
      /\ deleted' = deleted /\ gone' = gone
      /\ Structure /\ AccountTypes
  BY DEF RestartAll, Restart, DeletionInv
<1>2. late' \subseteq User
  BY SMTT(30) DEF LateStep
<1>3. AccountTypes' /\ LockedRows'
  BY <1>1, <1>2, NoDeletionType DEF AccountTypes, LockedRows
<1>4. Progress'
  BY <1>1, NoDeletionType, ProgressEmpty
<1>5. Finished'
  <2>1. ASSUME NEW u \in gone \ late PROVE Keeps(u) /\ ~Admitted(u)'
    <3>1. u \in User
      BY <1>1, <2>1 DEF AccountTypes
    <3>2. \A q \in Req : session'[q] # u /\ ~Mover(req'[q], u)
      BY <1>1, <3>1, IdleType DEF Mover
    <3> QED
      BY <1>1, <3>1, <3>2, QuietKeeps DEF Admitted, Mover
  <2>2. gone' \subseteq gone /\ del'.user \notin gone'
    BY <1>1, NoDeletionType DEF AccountTypes
  <2> QED
    BY SMTT(30), <2>1, <2>2, FinishedKept
<1>6. Structure'
  BY <1>1, NextStructure DEF Next
<1> QED
  BY SMTT(30), <1>3, <1>4, <1>5, <1>6 DEF DeletionInv

\* A deletion comes to its end, with everything done it had to do.
LEMMA CompletionFinishes ==
  ASSUME DeletionInv, LateStep, del' = NoDeletion, UNCHANGED <<req, session>>,
         NEW w \in User, del.user = w, gone' \subseteq gone \cup {w},
         \A u \in User : Keeps(u),
         w \notin late => Out(w)'
  PROVE  Finished'
<1> SUFFICES ASSUME NEW u \in gone', u \notin late'
             PROVE  Out(u)' /\ ~Admitted(u)'
  BY DEF Finished
<1>1. u \in User /\ ~Deleting(u)' /\ gone \subseteq User
  BY SMTT(30), NoDeletionType DEF DeletionInv, AccountTypes, Deleting
<1>2. u \notin late
  BY <1>1, LateForgets
<1>3. CASE u \in gone
  <2>1. Out(u) /\ ~Admitted(u) /\ Keeps(u)
    BY <1>1, <1>2, <1>3 DEF DeletionInv, Finished
  <2> QED
    BY <2>1 DEF Out, Keeps, Admitted, Mover
<1>4. CASE u = w
  <2>1. ~Entangled(u)
    BY <1>1, <1>2, <1>4 DEF DeletionInv, Progress
  <2>2. ~Admitted(u)
    BY <2>1 DEF Entangled, Admitted, Mover
  <2>3. ~Admitted(u)'
    BY <2>2 DEF Admitted, Mover
  <2> QED
    BY <1>2, <1>4, <2>3
<1> QED
  BY <1>3, <1>4

LEMMA EndOwnedRoomsInv ==
  ASSUME DeletionInv, LateStep, EndOwnedRooms
  PROVE  DeletionInv'
<1>0. PICK w : w = del.user
  OBVIOUS
<1> DEFINE rs == {r \in Room : Open(r) /\ rooms[r].owner = w}
<1>1. /\ Structure /\ TypeOK /\ AccountTypes /\ LockedRows /\ w \in User
      /\ del.pc = "rooms" /\ UNCHANGED <<members, live, req, deleted, gone, session>>
      /\ del' = [del EXCEPT !.pc = "members", !.rooms = IF del.tx THEN rs ELSE {}]
      /\ rooms' = IF del.tx THEN rooms ELSE Closed(rs)
  BY <1>0 DEF EndOwnedRooms, DeletionInv, Structure, AccountTypes
<1>2. rs \in SUBSET Room /\ \A r \in rs : rooms[r] # Nil
  BY DEF Open
<1>3. /\ SameRows
      /\ \A u \in User : Keeps(u)
      /\ \A r \in Room : Open(r)' /\ rooms'[r].owner = w => del.tx /\ r \in rs
  <2>1. CASE del.tx
    <3>1. rooms' = rooms /\ members' = members
      BY <1>1, <2>1
    <3> QED
      BY <1>1, <2>1, <3>1, UntouchedRows, QuietKeeps DEF SameRows, Open, tables
  <2>2. CASE ~del.tx
    <3>1. rooms' = Closed(rs) /\ members' = members
      BY <1>1, <2>2
    <3> HIDE DEF rs
    <3>2. /\ rooms' \in [Room -> RoomRow \cup {Nil}]
          /\ \A r \in Room : /\ rooms'[r] = Nil <=> rooms[r] = Nil
                             /\ Open(r)' => Open(r) /\ r \notin rs
                             /\ Open(r)' => rooms'[r] = rooms[r]
      BY <1>1, <1>2, <3>1, ClosedRows
    <3>3. \A u \in User : Keeps(u)
      BY <1>1, <1>2, <3>1, KeepsClosed
    <3>4. SameRows
      BY <1>1, <3>1, <3>2, UntouchedRows DEF SameRows
    <3>5. \A r \in Room : ~(Open(r)' /\ rooms'[r].owner = w)
      BY <3>2 DEF rs
    <3> QED
      BY <3>3, <3>4, <3>5
  <2> QED
    BY <2>1, <2>2
<1>4. Structure'
  BY <1>1, <1>3, SameRowsStructure
<1>5. /\ del' \in [pc : {"idle", "rooms", "members", "commit"}, user : User \cup {Nil},
                   tx : BOOLEAN, stamps : BOOLEAN,
                   rooms : SUBSET Room, members : SUBSET Room]
      /\ del'.pc = "members" /\ del'.user = w /\ del'.tx = del.tx /\ del'.members = del.members
      /\ del'.rooms = IF del.tx THEN rs ELSE {}
  <2> HIDE DEF rs
  <2> QED
    BY <1>0, <1>1, <1>2 DEF AccountTypes
<1> HIDE DEF rs
<1>6. late' \subseteq User
  BY SMTT(30) DEF LateStep
<1>7. AccountTypes'
  BY <1>0, <1>1, <1>5, <1>6 DEF AccountTypes
<1>8. LockedRows'
  BY <1>0, <1>1, <1>2, <1>3, <1>5 DEF LockedRows, SameRows, AccountTypes
<1>9. Progress'
  <2> SUFFICES ASSUME w \notin late'
               PROVE  /\ ~Entangled(w)'
                      /\ \A r \in Room : Open(r)' /\ rooms'[r].owner = w => r \in del'.rooms
    BY <1>5 DEF Progress
  <2>1. Deleting(w)'
    BY <1>5 DEF Deleting
  <2> QED
    BY <1>1, <1>3, <1>5, <2>1, LateForgets
<1>10. Finished'
  <2>1. ASSUME NEW u \in gone \ late PROVE Keeps(u) /\ ~Admitted(u)'
    <3>1. u \in User /\ ~Admitted(u)
      BY <1>1, <2>1 DEF DeletionInv, Finished, AccountTypes
    <3> QED
      BY <1>1, <1>3, <3>1 DEF Admitted, Mover
  <2>2. gone' \subseteq gone /\ del'.user \notin gone'
    BY <1>0, <1>1, <1>5 DEF AccountTypes
  <2> QED
    BY SMTT(30), <2>1, <2>2, FinishedKept
<1> QED
  BY <1>4, <1>7, <1>8, <1>9, <1>10 DEF DeletionInv

\* What removing the memberships of w does, for w and for everyone else.
LEMMA RemovedKeeps ==
  ASSUME TypeOK, NEW w \in User, NEW ms \in SUBSET Room,
         \A r \in ms : members[r][w] # Nil, members' = Removed(ms, w)
  PROVE  /\ members' \in [Room -> [User -> MemberRow \cup {Nil}]]
         /\ \A r \in Room, u \in User :
              /\ members'[r][u] = Nil <=> members[r][u] = Nil
              /\ Present(r, u)' => Present(r, u) /\ ~(r \in ms /\ u = w)
<1>1. /\ members' \in [Room -> [User -> MemberRow \cup {Nil}]]
      /\ \A r \in Room, u \in User :
           IF r \in ms /\ u = w
           THEN members'[r][u] \in MemberRow /\ members'[r][u].left
           ELSE members'[r][u] = members[r][u]
  BY SMTT(30), RemovedRows
<1> QED
  BY SMTT(30), <1>1 DEF Present

LEMMA EndMembershipsInv ==
  ASSUME DeletionInv, LateStep, EndMemberships
  PROVE  DeletionInv'
<1>0. PICK w : w = del.user
  BY SMTT(30)
<1> DEFINE ms == Memberships(w)
<1>1. /\ Structure /\ TypeOK /\ AccountTypes /\ LockedRows /\ w \in User
      /\ del.pc = "members" /\ UNCHANGED <<rooms, live, req, deleted, session>>
  BY <1>0 DEF EndMemberships, DeletionInv, Structure, AccountTypes
<1>2. ms \in SUBSET Room /\ \A r \in Room : r \in ms <=> Present(r, w)
  BY DEF Memberships
<1>3. \A r \in ms : members[r][w] # Nil
  BY <1>2 DEF Present
<1>4. late' \subseteq User
  BY SMTT(30) DEF LateStep
<1>5. w \notin late => /\ ~Entangled(w)
                       /\ \A r \in Room : Open(r) /\ rooms[r].owner = w => r \in del.rooms
  BY <1>0, <1>1 DEF DeletionInv, Progress
<1>6. CASE del.tx
  <2>1. /\ del' = [del EXCEPT !.pc = "commit", !.members = ms]
        /\ UNCHANGED tables /\ UNCHANGED vars /\ gone' = gone
    BY <1>0, <1>1, <1>6 DEF EndMemberships, tables, vars
  <2> HIDE DEF ms
  <2>2. /\ del' \in [pc : {"idle", "rooms", "members", "commit"}, user : User \cup {Nil},
                     tx : BOOLEAN, stamps : BOOLEAN,
                     rooms : SUBSET Room, members : SUBSET Room]
        /\ del'.pc = "commit" /\ del'.user = w /\ del'.tx = del.tx /\ del'.members = ms
        /\ del'.rooms = del.rooms
    BY <1>0, <1>1, <1>2, <2>1 DEF AccountTypes
  <2>3. Structure' /\ (\A u \in User : Keeps(u)) /\ req' = req
    BY <1>1, <2>1, UnchangedStructure
  <2>4. AccountTypes'
    BY <1>0, <1>1, <1>4, <2>1, <2>2 DEF AccountTypes
  <2>5. LockedRows'
    BY <1>1, <1>3, <2>1, <2>2 DEF LockedRows, tables
  <2>6. Progress'
    <3> SUFFICES ASSUME w \notin late'
                 PROVE  /\ ~Entangled(w)'
                        /\ \A r \in Room : Open(r)' /\ rooms'[r].owner = w => r \in del'.rooms
                        /\ \A r \in Room : Present(r, w)' => r \in del'.members
      BY <2>2 DEF Progress
    <3>1. Deleting(w)' /\ Deleting(w)
      BY <1>0, <2>2 DEF Deleting
    <3>2. ~Entangled(w)' /\ w \notin late
      BY <1>1, <3>1, LateForgets
    <3>3. rooms' = rooms /\ members' = members
      BY <2>1 DEF tables
    <3> QED
      BY <1>2, <1>5, <2>2, <3>2, <3>3 DEF Open, Present
  <2>7. Finished'
    <3>1. ASSUME NEW u \in gone \ late PROVE Keeps(u) /\ ~Admitted(u)'
      <4>1. u \in User /\ ~Admitted(u)
        BY <1>1, <3>1 DEF DeletionInv, Finished, AccountTypes
      <4> QED
        BY <1>1, <2>3, <4>1 DEF Admitted, Mover
    <3>2. gone' \subseteq gone /\ del'.user \notin gone'
      BY <1>0, <1>1, <2>1, <2>2 DEF AccountTypes
    <3> QED
      BY SMTT(30), <3>1, <3>2, FinishedKept
  <2> QED
    BY <2>3, <2>4, <2>5, <2>6, <2>7 DEF DeletionInv
<1>7. CASE ~del.tx
  <2>1. /\ members' = Removed(ms, w) /\ del' = NoDeletion
        /\ gone' = IF w \in deleted THEN gone \cup {w} ELSE gone
    BY <1>0, <1>7 DEF EndMemberships, Complete
  <2> HIDE DEF ms
  <2>2. /\ members' \in [Room -> [User -> MemberRow \cup {Nil}]]
        /\ \A r \in Room, u \in User :
             /\ members'[r][u] = Nil <=> members[r][u] = Nil
             /\ Present(r, u)' => Present(r, u) /\ ~(r \in ms /\ u = w)
    BY <1>1, <1>2, <1>3, <2>1, RemovedKeeps
  <2>3. SameRows
    BY <1>1, <2>2, UntouchedRows DEF SameRows
  <2>4. Structure'
    BY <1>1, <2>3, SameRowsStructure
  <2>5. \A u \in User : Keeps(u)
    BY <1>1, <2>2 DEF Keeps, Open
  <2>6. AccountTypes' /\ LockedRows'
    BY <1>1, <1>4, <2>1, NoDeletionType DEF AccountTypes, LockedRows
  <2>7. Progress'
    BY <2>1, NoDeletionType, ProgressEmpty
  <2>8. w \notin late => Out(w)'
    <3>1. del.rooms = {}
      BY <1>1, <1>7 DEF AccountTypes
    <3> QED
      BY <1>1, <1>2, <1>5, <2>2, <3>1 DEF Out, Open
  <2>9. Finished'
    BY <1>0, <1>1, <2>1, <2>5, <2>8, CompletionFinishes
  <2> QED
    BY <2>4, <2>6, <2>7, <2>9 DEF DeletionInv
<1> QED
  BY <1>6, <1>7

LEMMA CommitDeletionInv ==
  ASSUME DeletionInv, LateStep, CommitDeletion
  PROVE  DeletionInv'
<1>0. PICK w, rs, ms : w = del.user /\ rs = del.rooms /\ ms = del.members
  OBVIOUS
<1>1. /\ Structure /\ TypeOK /\ AccountTypes /\ w \in User
      /\ del.pc = "commit" /\ UNCHANGED <<live, req, session>>
      /\ rooms' = Closed(rs) /\ members' = Removed(ms, w)
      /\ deleted' \in {deleted, deleted \cup {w}}
      /\ del' = NoDeletion
      /\ gone' = IF w \in deleted' THEN gone \cup {w} ELSE gone
      /\ rs \in SUBSET Room /\ ms \in SUBSET Room
      /\ \A r \in rs : rooms[r] # Nil
      /\ \A r \in ms : members[r][w] # Nil
  BY <1>0 DEF CommitDeletion, Complete, DeletionInv, Structure, AccountTypes, LockedRows
<1>2. /\ rooms' \in [Room -> RoomRow \cup {Nil}]
      /\ \A r \in Room : /\ rooms'[r] = Nil <=> rooms[r] = Nil
                         /\ Open(r)' => Open(r) /\ r \notin rs
                         /\ Open(r)' => rooms'[r] = rooms[r]
  BY <1>1, ClosedRows
<1>3. /\ members' \in [Room -> [User -> MemberRow \cup {Nil}]]
      /\ \A r \in Room, u \in User :
           /\ members'[r][u] = Nil <=> members[r][u] = Nil
           /\ Present(r, u)' => Present(r, u) /\ ~(r \in ms /\ u = w)
  BY <1>1, RemovedKeeps
<1>4. SameRows
  BY <1>2, <1>3 DEF SameRows
<1>5. Structure'
  BY <1>1, <1>4, SameRowsStructure
<1>6. \A u \in User : Keeps(u)
  BY <1>2, <1>3 DEF Keeps
<1>7. late' \subseteq User
  BY SMTT(30) DEF LateStep
<1>8. AccountTypes' /\ LockedRows'
  <2>1. deleted' \subseteq User /\ gone' \subseteq deleted'
    BY <1>1 DEF AccountTypes
  <2>2. del'.user \notin gone'
    BY <1>1, <2>1, NoDeletionType
  <2> QED
    BY <1>1, <1>7, <2>1, <2>2, NoDeletionType DEF AccountTypes, LockedRows
<1>9. Progress'
  BY <1>1, NoDeletionType, ProgressEmpty
<1>10. w \notin late => Out(w)'
  <2>1. w \notin late =>
          /\ \A r \in Room : Open(r) /\ rooms[r].owner = w => r \in rs
          /\ \A r \in Room : Present(r, w) => r \in ms
    BY <1>0, <1>1 DEF DeletionInv, Progress
  <2> QED
    BY SMTT(30), <1>1, <1>2, <1>3, <2>1 DEF Out
<1>11. Finished'
  <2>1. gone' \subseteq gone \cup {w}
    BY <1>1
  <2> QED
    BY <1>0, <1>1, <1>6, <1>10, <2>1, CompletionFinishes
<1> QED
  BY SMTT(30), <1>5, <1>8, <1>9, <1>11 DEF DeletionInv

----------------------------------------------------------------------------
LEMMA InitDeletionInv == DeletionInit => DeletionInv
<1> SUFFICES ASSUME DeletionInit PROVE DeletionInv
  OBVIOUS
<1>1. Structure
  BY InitStructure DEF DeletionInit
<1>2. /\ deleted = {} /\ gone = {} /\ late = {} /\ del = NoDeletion
      /\ session = [q \in Req |-> Nil]
  BY DEF DeletionInit
<1>3. AccountTypes /\ LockedRows
  BY <1>2, NoDeletionType DEF AccountTypes, LockedRows
<1>4. Progress /\ Finished
  BY <1>2, NoDeletionType DEF Progress, Finished
<1> QED
  BY <1>1, <1>3, <1>4 DEF DeletionInv

LEMMA NextDeletionInv == DeletionInv /\ [DeletionNext]_deletionVars => DeletionInv'
<1> SUFFICES ASSUME DeletionInv, [DeletionNext]_deletionVars PROVE DeletionInv'
  OBVIOUS
<1>1. CASE UNCHANGED deletionVars
  <2>1. /\ UNCHANGED vars /\ UNCHANGED <<deleted, del, gone, session, late>>
        /\ req' = req /\ rooms' = rooms /\ members' = members
    BY <1>1 DEF deletionVars, accounts, vars, tables
  <2>2. Structure'
    BY <2>1, UnchangedStructure DEF DeletionInv
  <2>3. AccountTypes' /\ LockedRows'
    BY <2>1 DEF DeletionInv, AccountTypes, LockedRows
  <2>4. Progress'
    BY <2>1 DEF DeletionInv, Progress, Entangled, Open, Present
  <2>5. Finished'
    BY <2>1 DEF DeletionInv, Finished, Out, Admitted, Mover, Open, Present
  <2> QED
    BY <2>2, <2>3, <2>4, <2>5 DEF DeletionInv
<1>2. CASE DeletionNext
  <2>1. LateStep
    BY <1>2 DEF DeletionNext, LateStep
  <2>2. ASSUME NEW q \in Req, HandleDeleteAccount(q) PROVE DeletionInv'
    <3>1. session \in [Req -> User \cup {Nil}] /\ session[q] \in User
      BY <2>2 DEF HandleDeleteAccount, DeletionInv, AccountTypes
    <3>2. session' = [session EXCEPT ![q] = Nil] /\ StampUser(session[q], TRUE)
      BY <2>2 DEF HandleDeleteAccount
    <3>3. session' \in [Req -> User \cup {Nil}] /\ \A p \in Req : session'[p] \in {session[p], Nil}
      BY <3>1, <3>2
    <3>4. PICK w \in User : w = session[q]
      BY <3>1
    <3> QED
      BY <2>1, <3>2, <3>3, <3>4, StampUserInv
  <2>3. ASSUME NEW w \in User, UserSoftDelete(w) PROVE DeletionInv'
    <3>1. session' = session /\ session \in [Req -> User \cup {Nil}] /\ StampUser(w, FALSE)
      BY <2>3 DEF UserSoftDelete, DeletionInv, AccountTypes
    <3> QED
      BY <2>1, <3>1, StampUserInv
  <2> QED
    BY <1>2, <2>1, <2>2, <2>3, MiddlewareInv, HandleInv, HandlerReturnsInv,
       ConnectInv, WsLoadUserInv, ContinueInv, RequestFailsInv, SocketGoneInv, UserRestoreInv,
       EndOwnedRoomsInv, EndMembershipsInv, CommitDeletionInv, DeletionFailsInv,
       RestartAllInv
    DEF DeletionNext
<1> QED
  BY <1>1, <1>2

LEMMA AlwaysDeletionInv == DeletionSpec => []DeletionInv
  BY InitDeletionInv, NextDeletionInv, PTL DEF DeletionSpec

\* The tables and the requests keep their types beside deletions, whose
\* statements write whole rows of both tables (users.go, auth.go).
THEOREM DeletionTypeCorrect == DeletionSpec => []TypeOK
<1>1. DeletionInv => TypeOK
  BY DEF DeletionInv, Structure
<1> QED
  BY <1>1, AlwaysDeletionInv, PTL DEF DeletionSpec

\* An account whose deletion has come to its end, by its owner's transaction
\* or by the administrator's three statements, is a member of no room and owns
\* no open one, for any number of requests around it and whatever failed, was
\* repeated, restored or restarted before.
THEOREM DeletedAreOut == DeletionSpec => []DeletedUsersAreOut
<1>1. DeletionInv => DeletedUsersAreOut
  BY DEF DeletionInv, Finished, Out, DeletedUsersAreOut
<1> QED
  BY <1>1, AlwaysDeletionInv, PTL DEF DeletionSpec

----------------------------------------------------------------------------
(***************************************************************************)
(* The member list of a client that receives every frame                   *)
(***************************************************************************)

Listed(r, u) == IF Present(r, u) THEN MemberOf(r, u) ELSE Nil

\* Request x has changed the entry of u, or is about to, and owes the room a
\* frame about it.
Owes(x, r, u) ==
  /\ x.room = r
  /\ \/ x.pc \in {"get", "joined", "left", "muted", "kicked"} /\ u = x.target
     \/ x.pc = "transferred" /\ u \in {x.actor, x.target}

\* The entry of u in the client's list of room r once the frame of request x,
\* if it has still to send one, has arrived.
After(x, r, u) ==
  IF x.pc = "get" /\ u = x.target THEN MemberOf(r, u)
  ELSE IF x.pc = "joined" /\ u = x.target THEN x.member
  ELSE IF x.pc \in {"left", "kicked"} /\ u = x.target THEN Nil
  ELSE IF x.pc = "muted" /\ u = x.target /\ view[r][u] # Nil
    THEN [view[r][u] EXCEPT !.muted = x.member.muted]
  ELSE IF x.pc = "transferred" /\ u \in {x.actor, x.target} /\ view[r][u] # Nil
    THEN [view[r][u] EXCEPT !.role = IF u = x.target THEN "owner" ELSE "member"]
  ELSE view[r][u]

\* At most one request owes a frame about the entry, and the entry is what the
\* table holds, or will be when that frame has arrived.
Entry(r, u) ==
  /\ \A p, q \in Req : Owes(req[p], r, u) /\ Owes(req[q], r, u) => p = q
  /\ \A q \in Req : Owes(req[q], r, u) =>
       After(req[q], r, u) = Listed(r, u) /\ (req[q].pc = "get" => Present(r, u))
  /\ (\A q \in Req : ~Owes(req[q], r, u)) => view[r][u] = Listed(r, u)

EntryInv(r, u) == <<r, u>> \notin doubt => Entry(r, u)

ListsInv == \A r \in Watched, u \in User : EntryInv(r, u)

LEMMA OwesUnsaid ==
  ASSUME NEW x, NEW r \in Watched, NEW u \in User
  PROVE  <<r, u>> \in Unsaid(x) <=> Owes(x, r, u)
  BY SMTT(30) DEF Unsaid, Owes

SameWork(p) ==
  /\ req'[p].pc = req[p].pc /\ req'[p].room = req[p].room
  /\ req'[p].actor = req[p].actor /\ req'[p].target = req[p].target
  /\ req'[p].member = req[p].member

\* What remains in no doubt after a step of request q: what q has changed was
\* not owed to the room before, and was right unless the frame to come carries
\* the whole entry.
Doubting(q) ==
  \A r \in Watched, u \in User : <<r, u>> \notin doubt' =>
    /\ Owes(req'[q], r, u) /\ ~Owes(req[q], r, u) =>
         /\ \A p \in Req : ~Owes(req[p], r, u)
         /\ req'[q].pc \notin {"get", "left", "kicked"} => <<r, u>> \notin doubt
    /\ ~Owes(req'[q], r, u) \/ Owes(req[q], r, u) => <<r, u>> \notin doubt

LEMMA AnnouncingDoubts ==
  ASSUME NEW q \in Req, Announcing(q)
  PROVE  Doubting(q)
<1> SUFFICES ASSUME NEW r \in Watched, NEW u \in User, <<r, u>> \notin doubt'
             PROVE  /\ Owes(req'[q], r, u) /\ ~Owes(req[q], r, u) =>
                         /\ \A p \in Req : ~Owes(req[p], r, u)
                         /\ req'[q].pc \notin {"get", "left", "kicked"} => <<r, u>> \notin doubt
                    /\ ~Owes(req'[q], r, u) \/ Owes(req[q], r, u) => <<r, u>> \notin doubt
  BY DEF Doubting
<1> DEFINE e == <<r, u>>
           new == Unsaid(req'[q]) \ Unsaid(req[q])
           mixed == {f \in new : Unannounced(f)}
           whole == IF req'[q].pc \in {"get", "left", "kicked"} THEN new ELSE {}
<1>1. doubt' = (doubt \ whole) \cup mixed
  BY DEF Announcing
<1>2. e \in new <=> Owes(req'[q], r, u) /\ ~Owes(req[q], r, u)
  BY OwesUnsaid
<1>3. Unannounced(e) <=> \E p \in Req : Owes(req[p], r, u)
  BY OwesUnsaid DEF Unannounced
<1>4. e \notin mixed /\ (e \in doubt => e \in whole)
  BY <1>1
<1> HIDE DEF new, e
<1> QED
  BY <1>2, <1>3, <1>4 DEF e

LEMMA SilentDoubts ==
  ASSUME NEW q \in Req, doubt \subseteq doubt', \A r \in Watched, u \in User : ~Owes(req'[q], r, u)
  PROVE  Doubting(q)
  BY DEF Doubting

----------------------------------------------------------------------------
(* One entry, and a step of request q *)

OthersKept(q) == \A p \in Req \ {q} : SameWork(p)

LEMMA SameOwes ==
  ASSUME NEW p \in Req, SameWork(p), NEW r, NEW u
  PROVE  Owes(req'[p], r, u) <=> Owes(req[p], r, u)
  BY DEF SameWork, Owes

\* Nothing happens to the entry.
LEMMA QuietEntry ==
  ASSUME NEW r \in Room, NEW u \in User, Entry(r, u),
         members'[r][u] = members[r][u], view'[r][u] = view[r][u],
         \A p \in Req : SameWork(p) \/ (~Owes(req[p], r, u) /\ ~Owes(req'[p], r, u))
  PROVE  Entry(r, u)'
<1>1. Listed(r, u)' = Listed(r, u) /\ (Present(r, u)' <=> Present(r, u))
  BY DEF Listed, Present, MemberOf
<1>2. \A p \in Req : Owes(req'[p], r, u) <=> Owes(req[p], r, u)
  BY SameOwes
<1>3. ASSUME NEW p \in Req, Owes(req'[p], r, u)
      PROVE  After(req[p], r, u)' = Listed(r, u)' /\ (req'[p].pc = "get" => Present(r, u)')
  <2>1. SameWork(p) /\ Owes(req[p], r, u)
    BY <1>2, <1>3
  <2>2. After(req[p], r, u) = Listed(r, u) /\ (req[p].pc = "get" => Present(r, u))
    BY <2>1 DEF Entry
  <2>3. After(req[p], r, u)' = After(req[p], r, u)
    BY <2>1 DEF SameWork, After, MemberOf
  <2> QED
    BY <1>1, <2>1, <2>2, <2>3 DEF SameWork
<1>4. (\A p \in Req : ~Owes(req'[p], r, u)) => view'[r][u] = Listed(r, u)'
  BY <1>1, <1>2 DEF Entry
<1>5. \A p, q \in Req : Owes(req'[p], r, u) /\ Owes(req'[q], r, u) => p = q
  BY <1>2 DEF Entry
<1> QED
  BY <1>3, <1>4, <1>5 DEF Entry, Owes

\* Nobody owes the room a frame about the entry any more.
LEMMA SettledEntry ==
  ASSUME NEW r \in Room, NEW u \in User, \A p \in Req : ~Owes(req'[p], r, u),
         view'[r][u] = Listed(r, u)'
  PROVE  Entry(r, u)'
  BY DEF Entry, Owes

\* Only q does.
LEMMA OwedEntry ==
  ASSUME NEW q \in Req, NEW r \in Room, NEW u \in User,
         \A p \in Req \ {q} : ~Owes(req'[p], r, u),
         Owes(req'[q], r, u),
         After(req[q], r, u)' = Listed(r, u)',
         req'[q].pc = "get" => Present(r, u)'
  PROVE  Entry(r, u)'
<1>1. \A p \in Req : Owes(req'[p], r, u) => p = q
  OBVIOUS
<1> QED
  BY <1>1 DEF Entry, Owes

LEMMA QuietServed ==
  ASSUME NEW q \in Req, NEW r \in Watched, NEW u \in User, EntryInv(r, u),
         Doubting(q), OthersKept(q), ~Owes(req[q], r, u), ~Owes(req'[q], r, u),
         members'[r][u] = members[r][u], view'[r][u] = view[r][u]
  PROVE  EntryInv(r, u)'
<1> SUFFICES ASSUME <<r, u>> \notin doubt' PROVE Entry(r, u)'
  BY DEF EntryInv
<1>1. r \in Room /\ Entry(r, u)
  BY DEF Doubting, EntryInv
<1>2. \A p \in Req : SameWork(p) \/ (~Owes(req[p], r, u) /\ ~Owes(req'[p], r, u))
  BY DEF OthersKept
<1> QED
  BY <1>1, <1>2, QuietEntry

\* The frame of q arrives.
LEMMA FrameServed ==
  ASSUME NEW q \in Req, NEW r \in Watched, NEW u \in User, EntryInv(r, u),
         Doubting(q), OthersKept(q), req[q].room = r, req'[q] = Idle,
         members'[r][u] = members[r][u], view'[r][u] = After(req[q], r, u)
  PROVE  EntryInv(r, u)'
<1>1. r \in Room /\ ~Owes(req'[q], r, u)
  BY IdleType DEF Owes
<1>2. CASE ~Owes(req[q], r, u)
  <2>1. view'[r][u] = view[r][u]
    BY <1>2 DEF Owes, After
  <2> QED
    BY <1>1, <1>2, <2>1, QuietServed
<1>3. CASE Owes(req[q], r, u)
  <2> SUFFICES ASSUME <<r, u>> \notin doubt' PROVE Entry(r, u)'
    BY DEF EntryInv
  <2>1. Entry(r, u)
    BY <1>1 DEF Doubting, EntryInv
  <2>2. view'[r][u] = Listed(r, u)
    BY <1>3, <2>1 DEF Entry
  <2>3. \A p \in Req \ {q} : ~Owes(req[p], r, u)
    BY <1>3, <2>1 DEF Entry
  <2>4. \A p \in Req : ~Owes(req'[p], r, u)
    BY <1>1, <2>3, SameOwes DEF OthersKept
  <2>5. Listed(r, u)' = Listed(r, u)
    BY DEF Listed, Present, MemberOf
  <2> QED
    BY <1>1, <2>2, <2>4, <2>5, SettledEntry
<1> QED
  BY <1>2, <1>3

\* q has changed the entry, and goes on to send a frame about it.
LEMMA WriteServed ==
  ASSUME NEW q \in Req, NEW r \in Watched, NEW u \in User, EntryInv(r, u),
         Doubting(q), OthersKept(q), ~Owes(req[q], r, u), Owes(req'[q], r, u),
         req'[q].pc \in {"get", "left", "kicked"} \/ view[r][u] = Listed(r, u) =>
           After(req[q], r, u)' = Listed(r, u)',
         req'[q].pc = "get" => Present(r, u)'
  PROVE  EntryInv(r, u)'
<1> SUFFICES ASSUME <<r, u>> \notin doubt' PROVE Entry(r, u)'
  BY DEF EntryInv
<1>1. /\ \A p \in Req : ~Owes(req[p], r, u)
      /\ req'[q].pc \notin {"get", "left", "kicked"} => <<r, u>> \notin doubt
  BY DEF Doubting
<1>2. req'[q].pc \in {"get", "left", "kicked"} \/ view[r][u] = Listed(r, u)
  BY <1>1 DEF EntryInv, Entry
<1>3. \A p \in Req \ {q} : ~Owes(req'[p], r, u)
  BY <1>1, SameOwes DEF OthersKept
<1>4. r \in Room
  OBVIOUS
<1> QED
  BY <1>2, <1>3, <1>4, OwedEntry

----------------------------------------------------------------------------
(* A step of a request is about its room *)

RoomsKept(s) ==
  \A r \in Room \ {s} : rooms'[r] = rooms[r] /\ members'[r] = members[r]

ViewsKept(s) == \A r \in Room \ {s} : view'[r] = view[r]

LEMMA DeliverLocal ==
  ASSUME TypeOK, NEW s \in Room, NEW copy, Deliver(s, copy)
  PROVE  ViewsKept(s)
  BY DEF Deliver, ViewsKept, TypeOK

LEMMA ServeViewsLocal ==
  ASSUME Structure, NEW q \in Req, Serve(q)
  PROVE  ViewsKept(req[q].room)
<1>1. TypeOK /\ (req[q].pc # "idle" => req[q].room \in Room)
  BY DEF Structure, RequestOK
<1>2. CASE UNCHANGED view
  BY <1>2 DEF ViewsKept
<1>3. ASSUME NEW copy, req[q].pc # "idle", Deliver(req[q].room, copy)
      PROVE  ViewsKept(req[q].room)
  BY <1>1, <1>3, DeliverLocal
<1>4. ASSUME NEW code \in Code, CreateRoom(q, code) PROVE ViewsKept(req[q].room)
  BY <1>3, <1>4 DEF CreateRoom, At
<1>5. CASE BroadcastMemberJoined(q) \/ AnnounceLeft(q) \/ KickConnection(q)
  BY <1>3, <1>5 DEF BroadcastMemberJoined, AnnounceLeft, KickConnection, At
<1>6. CASE BroadcastMute(q) \/ BroadcastOwnerChanged(q)
  BY <1>3, <1>6 DEF BroadcastMute, BroadcastOwnerChanged, At
<1> QED
  BY <1>2, <1>4, <1>5, <1>6
  DEF Serve, CodeTaken, UpsertMember, GetMember, SetMuted, Kick, UpdateTarget,
      EndRoom, BroadcastRoomEnded, AssertTarget, TargetExists, CheckTarget,
      TransferOwnership, WsMember, WsJoin, live

LEMMA ServeRoomsLocal ==
  ASSUME Structure, NEW q \in Req, Serve(q)
  PROVE  RoomsKept(req[q].room)
<1>0. PICK s : s = req[q].room
  OBVIOUS
<1>1. TypeOK /\ (req[q].pc # "idle" => s \in Room)
  BY <1>0 DEF Structure, RequestOK
<1>2. CASE UNCHANGED tables
  BY <1>2 DEF RoomsKept, tables
<1>3. ASSUME NEW code \in Code, CreateRoom(q, code) PROVE RoomsKept(s)
  BY <1>0, <1>1, <1>3 DEF CreateRoom, RoomsKept, TypeOK
<1>4. CASE UpsertMember(q)
  BY <1>0, <1>1, <1>4 DEF UpsertMember, RoomsKept, TypeOK
<1>5. CASE SetMuted(q) \/ Kick(q)
  <2>1. PICK row : \/ UNCHANGED tables
                   \/ /\ members' = [members EXCEPT ![s][req[q].target] = row]
                      /\ rooms' = rooms
    BY <1>0, <1>5 DEF SetMuted, Kick, UpdateTarget
  <2> QED
    BY <1>0, <1>1, <1>2, <2>1 DEF RoomsKept, TypeOK
<1>6. CASE EndRoom(q)
  BY <1>0, <1>1, <1>6 DEF EndRoom, RoomsKept, TypeOK
<1>7. CASE TransferOwnership(q)
  BY <1>0, <1>1, <1>7 DEF TransferOwnership, RoomsKept, TypeOK, tables
<1> QED
  BY <1>0, <1>2, <1>3, <1>4, <1>5, <1>6, <1>7
  DEF Serve, CodeTaken, GetMember, BroadcastMemberJoined, AnnounceLeft,
      BroadcastMute, KickConnection, BroadcastRoomEnded, AssertTarget,
      TargetExists, CheckTarget, BroadcastOwnerChanged, WsMember, WsJoin

\* The other requests go on as they were; q is at an end, or about its room.
WorkKept(q) ==
  /\ OthersKept(q)
  /\ req'[q] = Idle \/ req'[q].room = req[q].room

LEMMA FinishKeepsWork ==
  ASSUME TypeOK, NEW q \in Req, Finish(q)
  PROVE  WorkKept(q)
  BY DEF WorkKept, OthersKept, SameWork, Finish, TypeOK

LEMMA GotoKeepsWork ==
  ASSUME TypeOK, NEW q \in Req, NEW pc, Goto(q, pc)
  PROVE  /\ WorkKept(q)
         /\ req'[q].pc = pc /\ req'[q].room = req[q].room
         /\ req'[q].actor = req[q].actor /\ req'[q].target = req[q].target
         /\ req'[q].member = req[q].member
<1>1. req[q] \in Request /\ req'[q] = [req[q] EXCEPT !.pc = pc]
  BY DEF TypeOK, Goto
<1>2. /\ req'[q].pc = pc /\ req'[q].room = req[q].room
      /\ req'[q].actor = req[q].actor /\ req'[q].target = req[q].target
      /\ req'[q].member = req[q].member
  BY <1>1 DEF Request
<1>3. \A p \in Req \ {q} : req'[p] = req[p]
  BY DEF TypeOK, Goto
<1> QED
  BY <1>2, <1>3 DEF WorkKept, OthersKept, SameWork

LEMMA OvertakeKeepsWork ==
  ASSUME TypeOK, NEW q \in Req, NEW r \in Room, NEW out \in SUBSET User, Overtake(q, r, out)
  PROVE  WorkKept(q) /\ req'[q] = Idle
<1>1. /\ req'[q] = Idle
      /\ \A p \in Req \ {q} :
           /\ req'[p].pc = req[p].pc /\ req'[p].room = req[p].room
           /\ req'[p].actor = req[p].actor /\ req'[p].target = req[p].target
  BY SMTT(30), OvertakeReq
<1>2. ASSUME NEW p \in Req \ {q} PROVE req'[p].member = req[p].member
  <2>1. req[p] \in Request /\ req'[p] = Overtaken(req[p], r, out)
    BY SMTT(30) DEF TypeOK, Overtake
  <2> QED
    BY <2>1 DEF Overtaken, Request
<1> QED
  BY <1>1, <1>2 DEF WorkKept, OthersKept, SameWork

LEMMA CodeTakenWork ==
  ASSUME Structure, NEW q \in Req, NEW code \in Code, CodeTaken(q, code)
  PROVE  /\ WorkKept(q)
         /\ req'[q].pc \in {"idle", "create"}
<1>1. TypeOK /\ req[q] \in Request /\ req[q].pc = "create"
  BY DEF Structure, TypeOK, CodeTaken, At
<1>2. CASE Finish(q)
  <2>1. req'[q] = Idle
    BY <1>1, <1>2 DEF Finish, TypeOK
  <2> QED
    BY <1>1, <1>2, <2>1, FinishKeepsWork, IdleType
<1>3. CASE req' = [req EXCEPT ![q].attempts = @ + 1]
  <2>1. req'[q] = [req[q] EXCEPT !.attempts = req[q].attempts + 1]
    BY <1>1, <1>3 DEF TypeOK
  <2>2. req'[q].pc = req[q].pc /\ req'[q].room = req[q].room
    BY <1>1, <2>1 DEF Request
  <2>3. \A p \in Req \ {q} : req'[p] = req[p]
    BY <1>1, <1>3 DEF TypeOK
  <2> QED
    BY <1>1, <2>2, <2>3 DEF WorkKept, OthersKept, SameWork
<1> QED
  BY <1>2, <1>3 DEF CodeTaken

LEMMA GetMemberWork ==
  ASSUME Structure, NEW q \in Req, GetMember(q), Present(req[q].room, req[q].target)
  PROVE  /\ WorkKept(q)
         /\ req'[q].pc = "joined" /\ req'[q].room = req[q].room
         /\ req'[q].target = req[q].target
         /\ req'[q].member = MemberOf(req[q].room, req[q].target)
<1> DEFINE m == MemberOf(req[q].room, req[q].target)
<1>1. TypeOK /\ req[q] \in Request
  BY DEF Structure, TypeOK
<1>2. req' = [req EXCEPT ![q].pc = "joined", ![q].member = m]
  BY DEF GetMember
<1> HIDE DEF m
<1>3. req'[q] = [req[q] EXCEPT !.pc = "joined", !.member = m]
  BY <1>1, <1>2 DEF TypeOK
<1>4. /\ req'[q].pc = "joined" /\ req'[q].room = req[q].room
      /\ req'[q].target = req[q].target /\ req'[q].member = m
  BY <1>1, <1>3 DEF Request
<1>5. \A p \in Req \ {q} : req'[p] = req[p]
  BY <1>1, <1>2 DEF TypeOK
<1> QED
  BY <1>4, <1>5 DEF WorkKept, OthersKept, SameWork, m

LEMMA ServeKeepsWork ==
  ASSUME Structure, NEW q \in Req, Serve(q)
  PROVE  WorkKept(q)
<1>1. TypeOK
  BY SMTT(30) DEF Structure
<1>2. ASSUME NEW pc, Goto(q, pc) PROVE WorkKept(q)
  BY <1>1, <1>2, GotoKeepsWork
<1>3. CASE Finish(q)
  BY <1>1, <1>3, FinishKeepsWork
<1>4. ASSUME NEW code \in Code, CodeTaken(q, code) PROVE WorkKept(q)
  BY <1>4, CodeTakenWork
<1>5. CASE GetMember(q)
  BY <1>3, <1>5, GetMemberWork DEF GetMember
<1>6. CASE AnnounceLeft(q) \/ KickConnection(q)
  <2>1. req[q].room \in Room /\ req[q].target \in User
    BY SMTT(30), <1>6 DEF Structure, AnnounceLeft, KickConnection, At, RequestOK
  <2>2. Evict(q, req[q].room, {req[q].target})
    BY SMTT(30), <1>6 DEF AnnounceLeft, KickConnection
  <2> QED
    BY SMTT(30), <1>1, <2>1, <2>2, OvertakeKeepsWork DEF Evict
<1>7. CASE BroadcastRoomEnded(q)
  <2>1. req[q].room \in Room
    BY SMTT(30), <1>7 DEF Structure, BroadcastRoomEnded, At, RequestOK
  <2> QED
    BY <1>1, <1>7, <2>1, OvertakeKeepsWork DEF BroadcastRoomEnded, Evict
<1> QED
  BY <1>2, <1>3, <1>4, <1>5, <1>6, <1>7
  DEF Serve, CreateRoom, UpsertMember, BroadcastMemberJoined, SetMuted, Kick,
      UpdateTarget, BroadcastMute, EndRoom, AssertTarget, TargetExists, WsMember,
      CheckTarget, TransferOwnership, BroadcastOwnerChanged, WsJoin

----------------------------------------------------------------------------
(* Requests and the entries of their room *)

\* Between these steps of a request there is no frame to come.
Neutral == {"idle", "create", "upsert", "mute", "kick", "end", "ended", "assert",
            "exists", "transfer", "wsmember", "wsjoin"}

LEMMA NeutralOwes ==
  ASSUME NEW x, x.pc \in Neutral, NEW r, NEW u
  PROVE  ~Owes(x, r, u)
  BY DEF Neutral, Owes

LEMMA NeutralServed ==
  ASSUME NEW q \in Req, NEW r \in Watched, NEW u \in User, EntryInv(r, u),
         Doubting(q), WorkKept(q), req[q].pc \in Neutral, req'[q].pc \in Neutral,
         members' = members, view' = view
  PROVE  EntryInv(r, u)'
  BY NeutralOwes, QuietServed DEF WorkKept

LEMMA QuietStepsServed ==
  ASSUME Structure, NEW q \in Req, NEW r \in Watched, NEW u \in User, EntryInv(r, u),
         Doubting(q), WorkKept(q),
         \/ \E code \in Code : CodeTaken(q, code)
         \/ EndRoom(q) \/ BroadcastRoomEnded(q)
         \/ AssertTarget(q) \/ TargetExists(q) \/ WsMember(q) \/ WsJoin(q)
  PROVE  EntryInv(r, u)'
<1>1. TypeOK
  BY DEF Structure
<1>2. Finish(q) => req'[q].pc = "idle"
  BY <1>1, IdleType DEF Finish, TypeOK
<1>3. \A pc \in {"ended", "exists", "transfer", "wsjoin"} : Goto(q, pc) => req'[q].pc = pc
  BY <1>1, GotoKeepsWork
<1>4. CASE \E code \in Code : CodeTaken(q, code)
  BY <1>4, CodeTakenWork, NeutralServed DEF CodeTaken, At, Neutral, tables, live
<1>5. CASE EndRoom(q)
  <2>1. req[q].pc \in Neutral /\ req'[q].pc \in Neutral /\ members' = members /\ view' = view
    BY <1>2, <1>3, <1>5 DEF EndRoom, At, Neutral, live
  <2> QED
    BY <2>1, NeutralServed
<1>6. CASE BroadcastRoomEnded(q)
  <2>1. req'[q].pc = "idle"
    BY <1>6, IdleType DEF BroadcastRoomEnded, Evict, Overtake
  <2> QED
    BY <1>6, <2>1, NeutralServed DEF BroadcastRoomEnded, At, Neutral, tables
<1>7. CASE AssertTarget(q) \/ TargetExists(q) \/ WsMember(q)
  <2>1. req[q].pc \in Neutral /\ req'[q].pc \in Neutral /\ members' = members /\ view' = view
    BY <1>2, <1>3, <1>7
    DEF AssertTarget, TargetExists, WsMember, CheckTarget, At, Neutral, tables, live
  <2> QED
    BY <2>1, NeutralServed
<1>8. CASE WsJoin(q)
  BY <1>2, <1>8, NeutralServed DEF WsJoin, At, Neutral, tables
<1> QED
  BY <1>4, <1>5, <1>6, <1>7, <1>8

\* The client's copy of a followed room is replaced.
LEMMA Delivered ==
  ASSUME TypeOK, NEW r \in Watched, NEW copy, Deliver(r, copy)
  PROVE  view'[r] = copy
  BY DEF Deliver, TypeOK

LEMMA JoinedServed ==
  ASSUME Structure, NEW q \in Req, NEW r \in Watched, NEW u \in User, EntryInv(r, u),
         Doubting(q), WorkKept(q), req[q].room = r,
         BroadcastMemberJoined(q) \/ AnnounceLeft(q) \/ KickConnection(q)
  PROVE  EntryInv(r, u)'
<1>1. TypeOK /\ r \in Room /\ req[q].target \in User /\ view[r] \in [User -> Member \cup {Nil}]
  BY DEF Structure, BroadcastMemberJoined, AnnounceLeft, KickConnection, At, RequestOK, TypeOK
<1>2. req'[q] = Idle /\ members' = members
  BY <1>1
  DEF BroadcastMemberJoined, AnnounceLeft, KickConnection, Evict, Overtake, Finish, TypeOK, tables
<1>3. view'[r][u] = After(req[q], r, u)
  <2>1. CASE BroadcastMemberJoined(q)
    <3>1. view'[r] = [view[r] EXCEPT ![req[q].target] = req[q].member] /\ req[q].pc = "joined"
      BY <1>1, <2>1, Delivered DEF BroadcastMemberJoined, At
    <3> QED
      BY <1>1, <3>1 DEF After
  <2>2. CASE AnnounceLeft(q) \/ KickConnection(q)
    <3>1. view'[r] = [view[r] EXCEPT ![req[q].target] = Nil] /\ req[q].pc \in {"left", "kicked"}
      BY <1>1, <2>2, Delivered DEF AnnounceLeft, KickConnection, At
    <3> QED
      BY <1>1, <3>1 DEF After
  <2> QED
    BY <2>1, <2>2
<1> QED
  BY <1>2, <1>3, FrameServed DEF WorkKept

LEMMA MutedServed ==
  ASSUME Structure, NEW q \in Req, NEW r \in Watched, NEW u \in User, EntryInv(r, u),
         Doubting(q), WorkKept(q), req[q].room = r, BroadcastMute(q)
  PROVE  EntryInv(r, u)'
<1> DEFINE t == req[q].target
           new == IF view[r][t] = Nil THEN view[r][t]
                  ELSE [view[r][t] EXCEPT !.muted = req[q].member.muted]
<1>1. TypeOK /\ r \in Room /\ t \in User /\ view[r] \in [User -> Member \cup {Nil}]
  BY DEF Structure, BroadcastMute, At, RequestOK, TypeOK
<1>2. req'[q] = Idle /\ members' = members /\ req[q].pc = "muted"
  BY <1>1 DEF BroadcastMute, Finish, TypeOK, tables, At
<1>3. view'[r] = [view[r] EXCEPT ![t] = new]
  BY <1>1, Delivered DEF BroadcastMute
<1> HIDE DEF new
<1>4. view'[r][u] = IF u = t THEN new ELSE view[r][u]
  BY <1>1, <1>3
<1>5. view'[r][u] = After(req[q], r, u)
  BY <1>2, <1>4 DEF After, new
<1> QED
  BY <1>2, <1>5, FrameServed DEF WorkKept

LEMMA OwnerChangedServed ==
  ASSUME Structure, NEW q \in Req, NEW r \in Watched, NEW u \in User, EntryInv(r, u),
         Doubting(q), WorkKept(q), req[q].room = r, BroadcastOwnerChanged(q)
  PROVE  EntryInv(r, u)'
<1> DEFINE a == req[q].actor
           t == req[q].target
           role == NewRoles(q)
<1>1. TypeOK /\ r \in Room /\ t \in User /\ a \in User
  BY DEF Structure, BroadcastOwnerChanged, At, RequestOK
<1>2. req'[q] = Idle /\ members' = members /\ req[q].pc = "transferred"
  BY <1>1 DEF BroadcastOwnerChanged, Finish, TypeOK, tables, At
<1>3. view'[r] = [w \in User |-> IF w \in DOMAIN role /\ view[r][w] # Nil
                                 THEN [view[r][w] EXCEPT !.role = role[w]]
                                 ELSE view[r][w]]
  BY <1>1, Delivered DEF BroadcastOwnerChanged
<1>4. /\ DOMAIN role = {a, t}
      /\ \A w \in {a, t} : role[w] = IF w = t THEN "owner" ELSE "member"
  BY DEF NewRoles
<1> HIDE DEF role
<1>5. view'[r][u] = After(req[q], r, u)
  BY SMTT(30), <1>2, <1>3, <1>4 DEF After
<1> QED
  BY <1>2, <1>5, FrameServed DEF WorkKept

\* Nobody else is about a room that is being created.
LEMMA CreateServed ==
  ASSUME Structure, NEW q \in Req, NEW r \in Watched, NEW u \in User, EntryInv(r, u),
         Doubting(q), WorkKept(q), req[q].room = r, NEW code \in Code, CreateRoom(q, code)
  PROVE  EntryInv(r, u)'
<1> DEFINE a == req[q].actor
           row == [role |-> "owner", left |-> FALSE, kicked |-> FALSE, muted |-> FALSE]
           own == [role |-> "owner", muted |-> FALSE]
<1> SUFFICES ASSUME <<r, u>> \notin doubt' PROVE Entry(r, u)'
  BY DEF EntryInv
<1>1. /\ TypeOK /\ r \in Room /\ a \in User /\ view[r] \in [User -> Member \cup {Nil}]
      /\ req[q].pc = "create" /\ rooms[r] = Nil
  BY DEF Structure, CreateRoom, At, RequestOK, TypeOK
<1>2. req'[q] = Idle /\ \A p \in Req \ {q} : req[p].room # r
  BY <1>1 DEF CreateRoom, Finish, TypeOK, Structure, CreateAlone
<1>3. \A p \in Req : ~Owes(req[p], r, u) /\ ~Owes(req'[p], r, u)
  <2>1. ~Owes(req[q], r, u) /\ ~Owes(req'[q], r, u)
    BY <1>1, <1>2, IdleType DEF Owes
  <2>2. \A p \in Req \ {q} : ~Owes(req[p], r, u)
    BY <1>2 DEF Owes
  <2> QED
    BY <2>1, <2>2, SameOwes DEF WorkKept, OthersKept
<1>4. members[r][u] = Nil /\ view[r][u] = Nil
  <2>1. members[r][u] = Nil
    BY <1>1 DEF Structure, RowsHaveRooms
  <2>2. <<r, u>> \notin doubt
    BY <1>3 DEF Doubting
  <2> QED
    BY <1>3, <2>1, <2>2 DEF EntryInv, Entry, Listed, Present
<1>5. view'[r] = [view[r] EXCEPT ![a] = own] /\ members' = [members EXCEPT ![r][a] = row]
  BY <1>1, Delivered DEF CreateRoom
<1>6. /\ row \in MemberRow /\ row # Nil /\ ~row.left
      /\ own = [role |-> row.role, muted |-> row.muted]
  <2>1. row \in MemberRow
    BY DEF MemberRow
  <2> QED
    BY <2>1
<1> HIDE DEF row, own
<1>7. /\ view'[r][u] = IF u = a THEN own ELSE Nil
      /\ members'[r][u] = IF u = a THEN row ELSE Nil
  BY SMTT(30), <1>1, <1>4, <1>5 DEF TypeOK
<1>8. view'[r][u] = Listed(r, u)'
  <2>1. CASE u = a
    <3>1. members'[r][u] = row /\ view'[r][u] = own
      BY <1>7, <2>1
    <3>2. Present(r, u)' /\ MemberOf(r, u)' = own
      BY <1>6, <3>1 DEF Present, MemberOf
    <3> QED
      BY <3>1, <3>2 DEF Listed
  <2>2. CASE u # a
    <3>1. members'[r][u] = Nil /\ view'[r][u] = Nil
      BY <1>7, <2>2
    <3> QED
      BY <3>1 DEF Listed, Present
  <2> QED
    BY <2>1, <2>2
<1> QED
  BY <1>1, <1>3, <1>8, SettledEntry

\* One row of room r is written, and q goes on to send a frame about it.
LEMMA RowServed ==
  ASSUME Structure, NEW q \in Req, NEW r \in Watched, NEW u \in User, EntryInv(r, u),
         Doubting(q), OthersKept(q), req[q].pc \in Neutral,
         NEW t \in User, NEW row \in MemberRow,
         view' = view, members' = [members EXCEPT ![r][t] = row],
         req'[q].room = r, req'[q].target = t,
         req'[q].pc \in {"get", "left", "kicked", "muted"},
         req'[q].pc = "get" => ~row.left,
         req'[q].pc \in {"get", "left", "kicked"} \/ view[r][t] = Listed(r, t) =>
           After(req[q], r, t)' = IF row.left THEN Nil ELSE [role |-> row.role, muted |-> row.muted]
  PROVE  EntryInv(r, u)'
<1>1. members'[r][u] = IF u = t THEN row ELSE members[r][u]
  BY DEF Structure, TypeOK
<1>2. ~Owes(req[q], r, u) /\ (Owes(req'[q], r, u) <=> u = t)
  BY NeutralOwes DEF Owes
<1>3. CASE u = t
  <2>1. members'[r][t] = row /\ row # Nil
    BY <1>1, <1>3
  <2>2. Listed(r, t)' = IF row.left THEN Nil ELSE [role |-> row.role, muted |-> row.muted]
    BY <2>1 DEF Listed, Present, MemberOf
  <2>3. req'[q].pc = "get" => Present(r, t)'
    BY <2>1 DEF Present
  <2> QED
    BY <1>2, <1>3, <2>2, <2>3, WriteServed
<1>4. CASE u # t
  BY <1>1, <1>2, <1>4, QuietServed
<1> QED
  BY <1>3, <1>4

LEMMA UpsertServed ==
  ASSUME Structure, NEW q \in Req, NEW r \in Watched, NEW u \in User, EntryInv(r, u),
         Doubting(q), WorkKept(q), req[q].room = r, UpsertMember(q)
  PROVE  EntryInv(r, u)'
<1>0. PICK t : t = req[q].target
  OBVIOUS
<1> DEFINE row == Upserted(members[r][t])
<1>1. TypeOK /\ t \in User /\ req[q].pc \in Neutral /\ r \in Room
  BY <1>0 DEF Structure, UpsertMember, At, RequestOK, Neutral
<1>2. members[r][t] = Nil \/ members[r][t] \in MemberRow
  BY SMTT(30), <1>1 DEF TypeOK
<1>3. row \in MemberRow /\ ~row.left
  BY <1>2 DEF Upserted, NewMember, MemberRow
<1>4. view' = view /\ members' = [members EXCEPT ![r][t] = row]
  BY <1>0, <1>1 DEF UpsertMember, TypeOK, live
<1> HIDE DEF row
<1>5. members'[r][t] = row
  BY <1>1, <1>4 DEF TypeOK
<1>6. req'[q].pc = "get" /\ req'[q].room = r /\ req'[q].target = t
  BY <1>0, <1>1, GotoKeepsWork DEF UpsertMember
<1>7. After(req[q], r, t)' = [role |-> row.role, muted |-> row.muted]
  BY <1>5, <1>6 DEF After, MemberOf
<1> QED
  BY <1>1, <1>3, <1>4, <1>6, <1>7, RowServed DEF WorkKept

\* GetMember finds the row that UpsertMember has written, unless a request
\* that changed it in between has put the entry in doubt.
LEMMA GetMemberServed ==
  ASSUME Structure, NEW q \in Req, NEW r \in Watched, NEW u \in User, EntryInv(r, u),
         Doubting(q), WorkKept(q), req[q].room = r, GetMember(q)
  PROVE  EntryInv(r, u)'
<1>0. PICK t, m : t = req[q].target /\ m = MemberOf(r, req[q].target)
  OBVIOUS
<1>1. req[q].pc = "get" /\ members' = members /\ view' = view /\ TypeOK /\ r \in Room
  BY <1>0 DEF GetMember, At, tables, live, Structure
<1>2. Present(r, t) => /\ req'[q].pc = "joined" /\ req'[q].room = r /\ req'[q].target = t
                       /\ req'[q].member = m
  BY <1>0, GetMemberWork
<1>3. ~Present(r, t) => req'[q] = Idle
  BY <1>0, <1>1 DEF GetMember, Finish, TypeOK
<1>4. CASE u # t
  <2>1. ~Owes(req[q], r, u) /\ ~Owes(req'[q], r, u)
    BY <1>0, <1>1, <1>2, <1>3, <1>4, IdleType DEF Owes
  <2> QED
    BY <1>1, <2>1, QuietServed DEF WorkKept
<1>5. CASE u = t
  <2> SUFFICES ASSUME <<r, u>> \notin doubt' PROVE Entry(r, u)'
    BY DEF EntryInv
  <2>1. Owes(req[q], r, u)
    BY <1>0, <1>1, <1>5 DEF Owes
  <2>2. Entry(r, u)
    BY <2>1 DEF Doubting, EntryInv
  <2>3. Present(r, t)
    BY <1>1, <1>5, <2>1, <2>2 DEF Entry
  <2>4. Owes(req'[q], r, u)
    BY <1>2, <1>5, <2>3 DEF Owes
  <2>5. After(req[q], r, u)' = m /\ Listed(r, u)' = m
    BY <1>0, <1>1, <1>2, <1>5, <2>3 DEF After, Listed, Present, MemberOf
  <2>6. \A p \in Req \ {q} : ~Owes(req'[p], r, u)
    BY <2>1, <2>2, SameOwes DEF Entry, WorkKept, OthersKept
  <2> QED
    BY <1>1, <1>2, <2>3, <2>4, <2>5, <2>6, OwedEntry
<1> QED
  BY <1>4, <1>5

\* The write matches no row: nothing has changed and there is no frame.
LEMMA MissServed ==
  ASSUME Structure, NEW q \in Req, NEW r \in Watched, NEW u \in User, EntryInv(r, u),
         Doubting(q), WorkKept(q), req[q].pc \in Neutral, Finish(q),
         UNCHANGED tables, UNCHANGED live
  PROVE  EntryInv(r, u)'
<1>1. req'[q].pc \in Neutral
  BY IdleType DEF Structure, TypeOK, Finish, Neutral
<1> QED
  BY <1>1, NeutralServed DEF tables, live

LEMMA KickServed ==
  ASSUME Structure, NEW q \in Req, NEW r \in Watched, NEW u \in User, EntryInv(r, u),
         Doubting(q), WorkKept(q), req[q].room = r, Kick(q)
  PROVE  EntryInv(r, u)'
<1>0. PICK t, row : t = req[q].target /\ row = [members[r][t] EXCEPT !.kicked = TRUE, !.left = TRUE]
  OBVIOUS
<1>1. TypeOK /\ t \in User /\ req[q].pc \in Neutral /\ r \in Room
  BY <1>0 DEF Structure, Kick, At, RequestOK, Neutral
<1>2. CASE ~Present(r, t)
  BY <1>0, <1>1, <1>2, MissServed DEF Kick, UpdateTarget
<1>3. CASE Present(r, t)
  <2>1. members[r][t] \in MemberRow
    BY SMTT(30), <1>1, <1>3 DEF Present, TypeOK
  <2>2. row \in MemberRow /\ row.left
    BY <1>0, <2>1 DEF MemberRow
  <2>3. members' = [members EXCEPT ![r][t] = row] /\ view' = view /\ Goto(q, "kicked")
    BY <1>0, <1>3 DEF Kick, UpdateTarget, TargetRow, live
  <2>4. req'[q].pc = "kicked" /\ req'[q].room = r /\ req'[q].target = t
    BY <1>0, <1>1, <2>3, GotoKeepsWork
  <2>5. After(req[q], r, t)' = Nil
    BY <2>4 DEF After
  <2> QED
    BY <1>1, <2>2, <2>3, <2>4, <2>5, RowServed DEF WorkKept
<1> QED
  BY <1>2, <1>3

LEMMA SetMutedServed ==
  ASSUME Structure, NEW q \in Req, NEW r \in Watched, NEW u \in User, EntryInv(r, u),
         Doubting(q), WorkKept(q), req[q].room = r, SetMuted(q)
  PROVE  EntryInv(r, u)'
<1>0. PICK t, m, row : /\ t = req[q].target /\ m = req[q].member.muted
                       /\ row = [members[r][t] EXCEPT !.muted = m]
  OBVIOUS
<1>1. TypeOK /\ t \in User /\ r \in Room /\ req[q].pc \in Neutral /\ m \in BOOLEAN
  <2>1. TypeOK /\ t \in User /\ r \in Room /\ req[q].pc \in Neutral
    BY <1>0 DEF Structure, SetMuted, At, RequestOK, Neutral
  <2>2. req[q] \in Request
    BY <2>1 DEF TypeOK
  <2>3. req[q].member \in Member
    BY <2>2 DEF Request
  <2> QED
    BY <1>0, <2>1, <2>3 DEF Member
<1>2. CASE ~Present(r, t)
  BY <1>0, <1>1, <1>2, MissServed DEF SetMuted, UpdateTarget
<1>3. CASE Present(r, t)
  <2>1. members[r][t] \in MemberRow /\ ~members[r][t].left
    BY SMTT(30), <1>1, <1>3 DEF Present, TypeOK
  <2>2. /\ row \in MemberRow /\ row.left = members[r][t].left
        /\ row.role = members[r][t].role /\ row.muted = m
    BY <1>0, <1>1, <2>1 DEF MemberRow
  <2>3. members' = [members EXCEPT ![r][t] = row] /\ view' = view /\ Goto(q, "muted")
    BY <1>0, <1>3 DEF SetMuted, UpdateTarget, TargetRow, live
  <2>4. req'[q].pc = "muted" /\ req'[q].room = r /\ req'[q].target = t /\ req'[q].member.muted = m
    BY <1>0, <1>1, <2>3, GotoKeepsWork
  <2>5. MemberOf(r, t) \in Member /\ Listed(r, t) = MemberOf(r, t)
    BY <1>3, <2>1 DEF Listed, MemberOf, Member, MemberRow
  <2>6. MemberOf(r, t) # Nil
    BY <2>5
  <2>7. view[r][t] = Listed(r, t) => After(req[q], r, t)' = [MemberOf(r, t) EXCEPT !.muted = m]
    BY <2>3, <2>4, <2>5, <2>6 DEF After
  <2>8. [MemberOf(r, t) EXCEPT !.muted = m] = [role |-> row.role, muted |-> row.muted]
    BY SMTT(30), <2>2 DEF MemberOf
  <2> QED
    BY <1>1, <2>1, <2>2, <2>3, <2>4, <2>7, <2>8, RowServed DEF WorkKept
<1> QED
  BY SMTT(30), <1>2, <1>3

\* A role is written: the entry of the member, if there is one, gets it too.
LEMMA RoleListed ==
  ASSUME NEW r \in Room, NEW u \in User, NEW row \in MemberRow,
         view[r][u] = Listed(r, u),
         members[r][u] \in MemberRow, members'[r][u] = row,
         row.left = members[r][u].left, row.muted = members[r][u].muted
  PROVE  /\ view[r][u] # Nil => [view[r][u] EXCEPT !.role = row.role] = Listed(r, u)'
         /\ view[r][u] = Nil => Listed(r, u)' = Nil
<1>1. members[r][u] # Nil /\ row # Nil
  OBVIOUS
<1>2. CASE Present(r, u)
  <2>1. view[r][u] = MemberOf(r, u) /\ MemberOf(r, u) \in Member
    BY <1>2 DEF Listed, MemberOf, Member, MemberRow
  <2>2. Listed(r, u)' = [role |-> row.role, muted |-> row.muted]
    BY <1>1, <1>2 DEF Listed, Present, MemberOf
  <2>3. [MemberOf(r, u) EXCEPT !.role = row.role] = [role |-> row.role, muted |-> row.muted]
    BY SMTT(30) DEF MemberOf
  <2> QED
    BY <2>1, <2>2, <2>3
<1>3. CASE ~Present(r, u)
  <2>1. view[r][u] = Nil
    BY <1>3 DEF Listed
  <2>2. Listed(r, u)' = Nil
    BY <1>1, <1>3 DEF Listed, Present
  <2> QED
    BY <2>1, <2>2
<1> QED
  BY <1>2, <1>3

LEMMA TransferServed ==
  ASSUME Structure, NEW q \in Req, NEW r \in Watched, NEW u \in User, EntryInv(r, u),
         Doubting(q), WorkKept(q), req[q].room = r, TransferOwnership(q)
  PROVE  EntryInv(r, u)'
<1>1. TypeOK /\ req[q].pc \in Neutral /\ r \in Room
  BY DEF Structure, TransferOwnership, At, Neutral
<1>2. CASE ~Transferable(r)
  BY <1>1, <1>2, MissServed DEF TransferOwnership
<1>3. CASE Transferable(r)
  <2>0. PICK a, t, old, new : /\ a = req[q].actor /\ t = req[q].target
                              /\ old = [members[r][a] EXCEPT !.role = "member"]
                              /\ new = [members[r][t] EXCEPT !.role = "owner"]
    OBVIOUS
  <2>1. /\ a \in User /\ t \in User /\ a # t
        /\ members[r][a] \in MemberRow /\ members[r][t] \in MemberRow
        /\ new \in MemberRow /\ old \in MemberRow
        /\ members' = [members EXCEPT ![r] = [members[r] EXCEPT ![t] = new, ![a] = old]]
        /\ UNCHANGED live
    BY <1>3, <2>0, TransferWrites
  <2>2. Goto(q, "transferred") /\ view' = view
    BY <1>3, <2>1 DEF TransferOwnership, live
  <2>3. /\ req'[q].pc = "transferred" /\ req'[q].room = r
        /\ req'[q].actor = a /\ req'[q].target = t
    BY <1>1, <2>0, <2>2, GotoKeepsWork
  <2>4. members'[r][u] = IF u = a THEN old ELSE IF u = t THEN new ELSE members[r][u]
    <3>1. members[r] \in [User -> MemberRow \cup {Nil}]
      BY <1>1 DEF TypeOK
    <3>2. members'[r] = [members[r] EXCEPT ![t] = new, ![a] = old]
      BY <1>1, <2>1 DEF TypeOK
    <3> QED
      BY <2>1, <3>1, <3>2
  <2>5. /\ new.left = members[r][t].left /\ new.muted = members[r][t].muted /\ new.role = "owner"
        /\ old.left = members[r][a].left /\ old.muted = members[r][a].muted /\ old.role = "member"
    BY <2>0, <2>1 DEF MemberRow
  <2>6. ~Owes(req[q], r, u) /\ (Owes(req'[q], r, u) <=> u \in {a, t})
    BY <1>1, <2>3, NeutralOwes DEF Owes
  <2>7. CASE u \notin {a, t}
    BY <2>2, <2>4, <2>6, <2>7, QuietServed DEF WorkKept
  <2>8. CASE u \in {a, t}
    <3>1. view[r][u] = Listed(r, u) => After(req[q], r, u)' = Listed(r, u)'
      <4> SUFFICES ASSUME view[r][u] = Listed(r, u) PROVE After(req[q], r, u)' = Listed(r, u)'
        OBVIOUS
      <4>1. PICK row \in MemberRow :
              /\ members'[r][u] = row /\ members[r][u] \in MemberRow
              /\ row.left = members[r][u].left /\ row.muted = members[r][u].muted
              /\ row.role = IF u = t THEN "owner" ELSE "member"
        BY <2>1, <2>4, <2>5, <2>8
      <4>2. /\ view[r][u] # Nil => [view[r][u] EXCEPT !.role = row.role] = Listed(r, u)'
            /\ view[r][u] = Nil => Listed(r, u)' = Nil
        BY SMTT(30), <1>1, <4>1, RoleListed
      <4> QED
        BY <2>2, <2>3, <2>8, <4>1, <4>2 DEF After
    <3>2. req'[q].pc \notin {"get", "left", "kicked"}
      BY <2>3
    <3> QED
      BY <2>6, <2>8, <3>1, <3>2, WriteServed DEF WorkKept
  <2> QED
    BY <2>7, <2>8
<1> QED
  BY <1>2, <1>3

LEMMA ServeServed ==
  ASSUME Structure, NEW q \in Req, Serve(q), Doubting(q), NEW r \in Watched, NEW u \in User,
         EntryInv(r, u)
  PROVE  EntryInv(r, u)'
<1>1. r \in Room /\ WorkKept(q)
  BY ServeKeepsWork
<1>2. CASE req[q].room # r
  <2>1. members'[r] = members[r] /\ view'[r] = view[r]
    BY <1>1, <1>2, ServeRoomsLocal, ServeViewsLocal DEF RoomsKept, ViewsKept
  <2>2. ~Owes(req[q], r, u) /\ ~Owes(req'[q], r, u)
    BY <1>1, <1>2, IdleType DEF WorkKept, Owes
  <2> QED
    BY <1>1, <2>1, <2>2, QuietServed DEF WorkKept
<1>3. CASE req[q].room = r
  BY <1>1, <1>3, CreateServed, UpsertServed, GetMemberServed, JoinedServed, SetMutedServed,
     MutedServed, KickServed, TransferServed, OwnerChangedServed, QuietStepsServed
  DEF Serve
<1> QED
  BY <1>2, <1>3

LEMMA ArriveWork ==
  ASSUME Structure, NEW q \in Req, Arrive(q)
  PROVE  /\ req[q].room = Nil /\ \A p \in Req \ {q} : req'[p] = req[p]
         /\ view' = view
         /\ \E s \in Room :
              /\ req'[q].room = s
              /\ \/ req'[q].pc \in Neutral /\ members' = members
                 \/ \E u \in User : MarkLeft(q, u, s)
<1>1. TypeOK
  BY SMTT(30) DEF Structure
<1>2. req[q].room = Nil /\ \A p \in Req \ {q} : req'[p] = req[p]
  BY ArriveAdvances, IdleType
<1>3. ASSUME NEW pc, NEW r \in Room, NEW a, NEW t, Begin(q, pc, r, a, t)
      PROVE  req'[q].pc = pc /\ req'[q].room = r
  BY <1>1, <1>3 DEF Begin, TypeOK, Idle
<1> DEFINE Goal(s) == /\ view' = view /\ req'[q].room = s
                      /\ \/ req'[q].pc \in Neutral /\ members' = members
                         \/ \E u \in User : MarkLeft(q, u, s)
<1>4. ASSUME NEW r \in Room, NEW u \in User, NEW t \in User, NEW m \in MuteInputs,
             BeginMute(q, u, t, r, m)
      PROVE  Goal(r)
  <2>1. req'[q].pc = "mute" /\ req'[q].room = r
    BY <1>1, <1>4 DEF BeginMute, TypeOK, Idle
  <2> QED
    BY <1>4, <2>1 DEF BeginMute, Neutral, tables, live
<1>5. ASSUME NEW r \in Room, NEW u \in User,
             \/ BeginCreate(q, u, r) \/ BeginEnd(q, u, r) \/ WsRoomOpen(q, u, r)
             \/ \E code \in Code : BeginJoin(q, u, r, code)
             \/ \E t \in User : BeginKick(q, u, t, r) \/ BeginTransfer(q, u, t, r)
      PROVE  Goal(r)
  <2>1. PICK pc \in Neutral, t \in User \cup {Nil} : Begin(q, pc, r, u, t) /\ UNCHANGED <<tables, live>>
    BY <1>5 DEF BeginCreate, BeginEnd, WsRoomOpen, BeginJoin, BeginKick, BeginTransfer, Neutral
  <2>2. req'[q].pc = pc /\ req'[q].room = r
    BY <1>3, <2>1
  <2> QED
    BY <2>1, <2>2 DEF tables, live
<1>6. ASSUME NEW r \in Room, NEW u \in User, MarkLeft(q, u, r) PROVE Goal(r)
  <2>1. req'[q].room = r
    BY <1>3, <1>6 DEF MarkLeft
  <2> QED
    BY <1>6, <2>1 DEF MarkLeft, live
<1> HIDE DEF Goal
<1>7. \E s \in Room : Goal(s)
  BY <1>4, <1>5, <1>6 DEF Arrive
<1> QED
  BY <1>2, <1>7 DEF Goal

\* Leave writes the row and will announce it, even when it wrote nothing.
LEMMA LeaveServed ==
  ASSUME Structure, NEW q \in Req, NEW r \in Watched, NEW u \in User, EntryInv(r, u),
         Doubting(q), OthersKept(q), req[q] = Idle, NEW t \in User, MarkLeft(q, t, r)
  PROVE  EntryInv(r, u)'
<1>1. TypeOK /\ r \in Room /\ req[q].pc \in Neutral
  BY IdleType DEF Structure, Neutral
<1>2. /\ req'[q].pc = "left" /\ req'[q].room = r /\ req'[q].target = t
      /\ view' = view
  BY <1>1 DEF MarkLeft, Begin, TypeOK, Idle, live
<1>3. After(req[q], r, t)' = Nil
  BY <1>2 DEF After
<1>4. CASE Present(r, t)
  <2> DEFINE row == [members[r][t] EXCEPT !.left = TRUE]
  <2>1. members[r][t] \in MemberRow
    BY SMTT(30), <1>1, <1>4 DEF Present, TypeOK
  <2>2. row \in MemberRow /\ row.left
    BY <2>1 DEF MemberRow
  <2>3. members' = [members EXCEPT ![r][t] = row]
    BY <1>1, <1>4 DEF MarkLeft, TypeOK
  <2> HIDE DEF row
  <2> QED
    BY <1>1, <1>2, <1>3, <2>2, <2>3, RowServed
<1>5. CASE ~Present(r, t)
  <2>1. members' = [members EXCEPT ![r][t] = members[r][t]]
    BY <1>1, <1>5 DEF MarkLeft, TypeOK
  <2>2. members'[r][u] = members[r][u]
    BY <1>1, <2>1 DEF TypeOK
  <2>3. ~Owes(req[q], r, u) /\ (Owes(req'[q], r, u) <=> u = t)
    BY <1>1, <1>2, NeutralOwes DEF Owes
  <2>4. CASE u # t
    BY <1>2, <2>2, <2>3, <2>4, QuietServed
  <2>5. CASE u = t
    <3>1. Listed(r, u)' = Nil
      BY <1>5, <2>2, <2>5 DEF Listed, Present
    <3> QED
      BY <1>2, <1>3, <2>3, <2>5, <3>1, WriteServed
  <2> QED
    BY <2>4, <2>5
<1> QED
  BY <1>4, <1>5

LEMMA LeaveLocal ==
  ASSUME TypeOK, NEW q \in Req, NEW s \in Room, NEW u \in User, MarkLeft(q, u, s),
         NEW r \in Room, r # s
  PROVE  members'[r] = members[r]
  BY DEF MarkLeft, TypeOK

LEMMA ArriveServed ==
  ASSUME Structure, NEW q \in Req, Arrive(q), Doubting(q), NEW r \in Watched, NEW u \in User,
         EntryInv(r, u)
  PROVE  EntryInv(r, u)'
<1>1. PICK s \in Room :
        /\ req'[q].room = s /\ view' = view
        /\ \A p \in Req \ {q} : req'[p] = req[p]
        /\ \/ req'[q].pc \in Neutral /\ members' = members
           \/ \E t \in User : MarkLeft(q, t, s)
  BY ArriveWork
<1>2. r \in Room /\ req[q] = Idle /\ OthersKept(q) /\ ~Owes(req[q], r, u)
  BY <1>1, ArriveAdvances, IdleType DEF OthersKept, SameWork, Owes
<1>3. CASE req'[q].pc \in Neutral /\ members' = members
  BY <1>1, <1>2, <1>3, NeutralOwes, QuietServed
<1>4. ASSUME NEW t \in User, MarkLeft(q, t, s) PROVE EntryInv(r, u)'
  <2>1. CASE r = s
    BY <1>2, <1>4, <2>1, LeaveServed
  <2>2. CASE r # s
    <3>1. members'[r] = members[r] /\ ~Owes(req'[q], r, u)
      BY <1>1, <1>2, <1>4, <2>2, LeaveLocal DEF Structure, Owes
    <3> QED
      BY <1>1, <1>2, <3>1, QuietServed
  <2> QED
    BY <2>1, <2>2
<1> QED
  BY <1>1, <1>3, <1>4

----------------------------------------------------------------------------
(* The other steps *)

LEMMA UnchangedLists ==
  ASSUME ListsInv, UNCHANGED <<members, view, req>>, doubt' = doubt
  PROVE  ListsInv'
<1> SUFFICES ASSUME NEW r \in Watched, NEW u \in User, <<r, u>> \notin doubt' PROVE Entry(r, u)'
  BY DEF ListsInv, EntryInv
<1>1. r \in Room /\ Entry(r, u)
  BY DEF ListsInv, EntryInv
<1>2. \A p \in Req : SameWork(p)
  BY DEF SameWork
<1> QED
  BY <1>1, <1>2, QuietEntry

\* /ws finds the account deleted and ends.
LEMMA WsLoadUserLists ==
  ASSUME Structure, ListsInv, NEW q \in Req, WsLoadUser(q)
  PROVE  ListsInv'
<1>1. /\ UNCHANGED tables /\ UNCHANGED live /\ doubt' = doubt
      /\ req[q].pc \in Neutral /\ (Finish(q) \/ req' = req)
  BY DEF WsLoadUser, At, Neutral
<1>2. CASE req' = req
  BY <1>1, <1>2, UnchangedLists DEF tables, live
<1>3. CASE Finish(q)
  <2>1. WorkKept(q) /\ req'[q] = Idle
    BY <1>3, FinishKeepsWork DEF Structure, TypeOK, Finish
  <2>2. Doubting(q)
    BY <1>1, <2>1, IdleType, SilentDoubts DEF Owes
  <2> QED
    BY <1>1, <1>3, <2>1, <2>2, MissServed DEF ListsInv
<1> QED
  BY <1>1, <1>2, <1>3

\* What a failing request has changed is in doubt.
LEMMA RequestFailsLists ==
  ASSUME Structure, ListsInv, NEW q \in Req, RequestFails(q)
  PROVE  ListsInv'
<1>1. /\ members' = members /\ view' = view /\ doubt' = doubt \cup Unsaid(req[q])
      /\ StatementFails(q)
  BY DEF RequestFails, StatementFails, tables
<1>2. WorkKept(q) /\ req'[q] = Idle
  BY <1>1, FailureSteps, OvertakeKeepsWork DEF Structure
<1>3. Doubting(q)
  BY <1>1, <1>2, IdleType, SilentDoubts DEF Owes
<1> SUFFICES ASSUME NEW r \in Watched, NEW u \in User PROVE EntryInv(r, u)'
  BY DEF ListsInv
<1>4. CASE Owes(req[q], r, u)
  BY <1>1, <1>4, OwesUnsaid DEF EntryInv
<1>5. CASE ~Owes(req[q], r, u)
  <2>1. ~Owes(req'[q], r, u)
    BY <1>2, IdleType DEF Owes
  <2> QED
    BY <1>1, <1>2, <1>3, <1>5, <2>1, QuietServed DEF ListsInv, WorkKept
<1> QED
  BY <1>4, <1>5

\* The statements of a deletion: no frame is sent, and the entries whose row is
\* written are in doubt.
LEMMA DeletionLists ==
  ASSUME ListsInv, UNCHANGED <<view, req>>, doubt \subseteq doubt',
         \A r \in Watched, u \in User : <<r, u>> \notin doubt' => members'[r][u] = members[r][u]
  PROVE  ListsInv'
<1> SUFFICES ASSUME NEW r \in Watched, NEW u \in User, <<r, u>> \notin doubt' PROVE Entry(r, u)'
  BY DEF ListsInv, EntryInv
<1>1. r \in Room /\ Entry(r, u) /\ members'[r][u] = members[r][u]
  BY DEF ListsInv, EntryInv
<1>2. \A p \in Req : SameWork(p)
  BY DEF SameWork
<1> QED
  BY <1>1, <1>2, QuietEntry

LEMMA RemovedLists ==
  ASSUME TypeOK, ListsInv, UNCHANGED <<view, req>>, NEW w \in User, NEW ms,
         members' = Removed(ms, w), doubt' = doubt \cup ((Watched \cap ms) \X {w})
  PROVE  ListsInv'
<1>1. ASSUME NEW r \in Watched, NEW u \in User, <<r, u>> \notin doubt'
      PROVE  members'[r][u] = members[r][u]
  <2>1. r \in Room /\ (r \notin ms \/ u # w)
    BY <1>1
  <2>2. members[r] \in [User -> MemberRow \cup {Nil}]
    BY <2>1 DEF TypeOK
  <2> QED
    BY SMTT(30), <2>1, <2>2 DEF Removed
<1>2. doubt \subseteq doubt'
  OBVIOUS
<1> QED
  BY <1>1, <1>2, DeletionLists

LEMMA EndMembershipsLists ==
  ASSUME DeletionInv, ListsInv, EndMemberships
  PROVE  ListsInv'
<1> DEFINE ms == Memberships(del.user)
<1>1. /\ UNCHANGED <<view, req>> /\ TypeOK /\ del.user \in User
      /\ \/ members' = members /\ doubt' = doubt
         \/ members' = Removed(ms, del.user) /\ doubt' = doubt \cup ((Watched \cap ms) \X {del.user})
  BY DEF EndMemberships, DeletionInv, Structure, AccountTypes, live
<1> HIDE DEF ms
<1> QED
  BY <1>1, UnchangedLists, RemovedLists

LEMMA CommitDeletionLists ==
  ASSUME DeletionInv, ListsInv, CommitDeletion
  PROVE  ListsInv'
<1>1. /\ UNCHANGED <<view, req>> /\ TypeOK /\ del.user \in User
      /\ members' = Removed(del.members, del.user)
      /\ doubt' = doubt \cup ((Watched \cap del.members) \X {del.user})
  BY DEF CommitDeletion, DeletionInv, Structure, AccountTypes, live
<1> QED
  BY <1>1, RemovedLists

\* After a restart the client is sent a snapshot.
LEMMA RestartLists ==
  ASSUME Structure, RestartAll
  PROVE  ListsInv'
<1> SUFFICES ASSUME NEW r \in Watched, NEW u \in User PROVE Entry(r, u)'
  BY DEF ListsInv, EntryInv
<1>1. r \in Room /\ view'[r] = ListMembers(r) /\ members' = members
  BY DEF RestartAll, Restart, tables
<1>2. \A q \in Req : ~Owes(req'[q], r, u)
  BY <1>1, IdleType DEF RestartAll, Restart, Owes
<1>3. view'[r][u] = Listed(r, u)'
  BY <1>1 DEF Listed, ListMembers, Present, MemberOf
<1> QED
  BY <1>1, <1>2, <1>3, SettledEntry

LEMMA InitLists == DeletionInit => ListsInv
<1> SUFFICES ASSUME DeletionInit, NEW r \in Watched, NEW u \in User PROVE Entry(r, u)
  BY DEF ListsInv, EntryInv
<1>1. r \in Room /\ \A q \in Req : ~Owes(req[q], r, u)
  BY IdleType DEF DeletionInit, Init, Owes
<1>2. view[r][u] = Listed(r, u)
  BY <1>1 DEF DeletionInit, Init, Listed, Present
<1> QED
  BY <1>1, <1>2 DEF Entry

LEMMA NextLists == DeletionInv /\ ListsInv /\ [DeletionNext]_deletionVars => ListsInv'
<1> SUFFICES ASSUME DeletionInv, ListsInv, [DeletionNext]_deletionVars PROVE ListsInv'
  OBVIOUS
<1>0. Structure
  BY DEF DeletionInv
<1>1. ASSUME UNCHANGED <<vars, doubt>> PROVE ListsInv'
  BY <1>1, UnchangedLists DEF vars, tables, live
<1>2. ASSUME NEW q \in Req, Arrive(q), Doubting(q) PROVE ListsInv'
  BY <1>0, <1>2, ArriveServed DEF ListsInv
<1>3. ASSUME NEW q \in Req, Continue(q) PROVE ListsInv'
  BY <1>0, <1>3, AnnouncingDoubts, ServeServed DEF ListsInv, Continue
<1>4. ASSUME NEW q \in Req, Handle(q) PROVE ListsInv'
  BY <1>2, <1>4, AnnouncingDoubts DEF Handle
<1>5. ASSUME NEW q \in Req, Connect(q) PROVE ListsInv'
  <2>1. Arrive(q) /\ doubt' = doubt /\ req'[q].pc \in Neutral
    BY <1>5 DEF Connect, Neutral
  <2>2. Doubting(q)
    BY <2>1, NeutralOwes, SilentDoubts
  <2> QED
    BY <1>2, <2>1, <2>2
<1>6. ASSUME NEW r \in Room, NEW u \in User, SocketGone(u, r), doubt' = doubt PROVE ListsInv'
  BY <1>6, UnchangedLists DEF SocketGone, tables
<1>7. CASE EndOwnedRooms
  BY <1>7, UnchangedLists DEF EndOwnedRooms, live
<1>8. CASE UNCHANGED deletionVars
  BY <1>1, <1>8 DEF deletionVars
<1>9. CASE DeletionNext
  <2>1. ASSUME NEW q \in Req,
               \/ \E u \in User : Middleware(q, u)
               \/ HandlerReturns(q) \/ HandleDeleteAccount(q)
        PROVE  ListsInv'
    BY <1>1, <2>1 DEF Middleware, HandlerReturns, HandleDeleteAccount, StampUser
  <2>2. ASSUME NEW u \in User, UserSoftDelete(u) \/ UserRestore(u) PROVE ListsInv'
    BY <1>1, <2>2 DEF UserSoftDelete, StampUser, UserRestore
  <2>3. CASE DeletionFails
    BY <1>1, <2>3 DEF DeletionFails
  <2> QED
    BY <1>0, <1>3, <1>4, <1>5, <1>6, <1>7, <1>9, <2>1, <2>2, <2>3, WsLoadUserLists,
       RequestFailsLists, EndMembershipsLists, CommitDeletionLists, RestartLists
    DEF DeletionNext
<1> QED
  BY <1>8, <1>9

\* The frames of Join, Leave, Mute, Kick and TransferOwnership keep the member
\* list of a client right, entry by entry, with any number of requests about
\* the room at the same time, failing at any statement, beside connects,
\* deletions and restarts: an entry that no request has still to announce is
\* what ListMembers returns, unless two changes of it overlapped or one was
\* never announced, and then only until a member who joins, leaves or is
\* kicked is announced with nobody in between.
THEOREM MemberListsConverge == DeletionSpec => []MemberListConverges
<1>1. DeletionInv /\ ListsInv => MemberListConverges
  <2> SUFFICES ASSUME ListsInv, NEW r \in Watched, NEW u \in User,
                      <<r, u>> \notin doubt, ~Unannounced(<<r, u>>)
               PROVE  view[r][u] = ListMembers(r)[u]
    BY DEF MemberListConverges
  <2>1. Entry(r, u) /\ \A q \in Req : ~Owes(req[q], r, u)
    BY OwesUnsaid DEF ListsInv, EntryInv, Unannounced
  <2>2. ListMembers(r)[u] = Listed(r, u)
    BY DEF ListMembers, Listed
  <2> QED
    BY <2>1, <2>2 DEF Entry
<1> QED
  BY <1>1, InitLists, NextLists, AlwaysDeletionInv, PTL DEF DeletionSpec

----------------------------------------------------------------------------
(***************************************************************************)
(* What the requests alone keep of the tables holds beside deletions too   *)
(***************************************************************************)

\* What a deletion does to the tables: rooms end, and members leave.
RowsEnd ==
  /\ \A r \in Room : \/ rooms'[r] = rooms[r]
                     \/ rooms[r] # Nil /\ rooms'[r] = [rooms[r] EXCEPT !.ended = TRUE]
  /\ \A r \in Room, u \in User :
       \/ members'[r][u] = members[r][u]
       \/ /\ members[r][u] # Nil
          /\ members'[r][u] \in MemberRow /\ members'[r][u].left
          /\ members'[r][u].role = members[r][u].role

LEMMA ClosedEnd ==
  ASSUME NEW rs \in SUBSET Room, \A r \in rs : rooms[r] # Nil,
         rooms' = rooms \/ rooms' = Closed(rs), NEW r \in Room
  PROVE  \/ rooms'[r] = rooms[r]
         \/ rooms[r] # Nil /\ rooms'[r] = [rooms[r] EXCEPT !.ended = TRUE]
  BY DEF Closed

LEMMA DeletionTables == DeletionInv /\ [DeletionNext]_deletionVars => TableStep \/ RowsEnd
<1> SUFFICES ASSUME DeletionInv, [DeletionNext]_deletionVars PROVE TableStep \/ RowsEnd
  OBVIOUS
<1>0. TypeOK /\ Structure /\ AccountTypes
  BY DEF DeletionInv, Structure
<1>1. CASE UNCHANGED tables
  BY <1>1 DEF TableStep
<1>2. ASSUME NEW q \in Req, Arrive(q) \/ Serve(q) PROVE TableStep
  BY <1>0, <1>2, NextTables DEF Next
<1>3. CASE UNCHANGED vars
  BY <1>1, <1>3 DEF vars
<1>4. CASE EndOwnedRooms
  <2> DEFINE rs == {r \in Room : Open(r) /\ rooms[r].owner = del.user}
  <2>1. (rooms' = rooms \/ rooms' = Closed(rs)) /\ members' = members
    BY <1>4 DEF EndOwnedRooms
  <2>2. rs \in SUBSET Room /\ \A r \in rs : rooms[r] # Nil
    BY DEF Open
  <2> HIDE DEF rs
  <2> QED
    BY <2>1, <2>2, ClosedEnd DEF RowsEnd
<1>5. CASE EndMemberships
  <2>1. del.user \in User
    BY <1>0, <1>5 DEF EndMemberships, AccountTypes
  <2>2. PICK ms : ms = Memberships(del.user)
    OBVIOUS
  <2>3. ms \in SUBSET Room /\ \A r \in ms : members[r][del.user] # Nil
    BY <2>2 DEF Memberships, Present
  <2>4. rooms' = rooms /\ (members' = members \/ members' = Removed(ms, del.user))
    BY <1>5, <2>2 DEF EndMemberships
  <2> QED
    BY SMTT(30), <1>0, <2>1, <2>3, <2>4, RemovedRows DEF RowsEnd
<1>6. CASE CommitDeletion
  <2>1. del.user \in User
    BY <1>0, <1>6 DEF CommitDeletion, AccountTypes
  <2>2. /\ del.rooms \in SUBSET Room /\ \A r \in del.rooms : rooms[r] # Nil
        /\ del.members \in SUBSET Room /\ \A r \in del.members : members[r][del.user] # Nil
    BY <1>0 DEF DeletionInv, AccountTypes, LockedRows
  <2>3. rooms' = Closed(del.rooms) /\ members' = Removed(del.members, del.user)
    BY <1>6 DEF CommitDeletion
  <2>4. \A r \in Room : \/ rooms'[r] = rooms[r]
                        \/ rooms[r] # Nil /\ rooms'[r] = [rooms[r] EXCEPT !.ended = TRUE]
    BY <2>2, <2>3, ClosedEnd
  <2> QED
    BY SMTT(30), <1>0, <2>1, <2>2, <2>3, <2>4, RemovedRows DEF RowsEnd
<1>7. CASE UNCHANGED deletionVars
  BY <1>3, <1>7 DEF deletionVars
<1>8. CASE DeletionNext
  BY <1>1, <1>2, <1>3, <1>4, <1>5, <1>6, <1>8
  DEF DeletionNext, Middleware, Handle, HandlerReturns, HandleDeleteAccount, StampUser, Connect,
      WsLoadUser, Continue, RequestFails, StatementFails, SocketGone, UserSoftDelete, UserRestore, DeletionFails,
      RestartAll, Restart
<1> QED
  BY <1>7, <1>8

\* A deletion sets left_at along with kicked_at, so that the two tests for
\* membership still agree.
THEOREM DeletionKicksLeave == DeletionSpec => []KickedHaveLeft
<1>1. DeletionInit => KickedHaveLeft
  BY SMTT(30) DEF DeletionInit, Init, KickedHaveLeft, Present
<1>2. ASSUME DeletionInv, KickedHaveLeft, RowsEnd PROVE KickedHaveLeft'
  <2> SUFFICES ASSUME NEW r \in Room, NEW u \in User, Present(r, u)' PROVE Active(r, u)'
    BY DEF KickedHaveLeft
  <2>1. members'[r][u] = members[r][u]
    BY <1>2 DEF RowsEnd, Present
  <2> QED
    BY <1>2, <2>1 DEF KickedHaveLeft, Present, Active
<1>3. DeletionInv /\ KickedHaveLeft /\ [DeletionNext]_deletionVars => KickedHaveLeft'
  BY <1>2, DeletionTables, NextKicked DEF DeletionInv
<1> QED
  BY <1>1, <1>3, AlwaysDeletionInv, PTL DEF DeletionSpec

\* Nor does it part the two records of who owns a room: a deleted owner stays
\* the owner of the room, which has ended.
THEOREM DeletionKeepsOwner == DeletionSpec => []OwnerIdHasOwnerRole
<1>1. DeletionInit => OwnerIdHasOwnerRole
  BY DEF DeletionInit, Init, OwnerIdHasOwnerRole
<1>2. ASSUME DeletionInv, OwnerIdHasOwnerRole, RowsEnd PROVE OwnerIdHasOwnerRole'
  <2> SUFFICES ASSUME NEW r \in Room, rooms'[r] # Nil
               PROVE  /\ members'[r][rooms'[r].owner] # Nil
                      /\ members'[r][rooms'[r].owner].role = "owner"
    BY DEF OwnerIdHasOwnerRole
  <2>a. rooms[r] # Nil
    BY <1>2 DEF RowsEnd
  <2>1. rooms[r] \in RoomRow
    BY <1>2, <2>a DEF DeletionInv, Structure, TypeOK
  <2>2. rooms'[r].owner = rooms[r].owner /\ rooms[r].owner \in User
    <3>1. rooms[r].owner \in User /\ [rooms[r] EXCEPT !.ended = TRUE].owner = rooms[r].owner
      BY <2>1 DEF RoomRow
    <3>2. rooms'[r] = rooms[r] \/ rooms'[r] = [rooms[r] EXCEPT !.ended = TRUE]
      BY <1>2 DEF RowsEnd
    <3> QED
      BY <3>1, <3>2
  <2>3. members[r][rooms[r].owner] # Nil /\ members[r][rooms[r].owner].role = "owner"
    BY <1>2, <2>1 DEF OwnerIdHasOwnerRole
  <2> QED
    BY SMTT(30), <1>2, <2>2, <2>3 DEF RowsEnd
<1>3. DeletionInv /\ OwnerIdHasOwnerRole /\ [DeletionNext]_deletionVars => OwnerIdHasOwnerRole'
  BY SMTT(30), <1>2, DeletionTables, NextOwner DEF DeletionInv
<1> QED
  BY <1>1, <1>3, AlwaysDeletionInv, PTL DEF DeletionSpec

\* Nor does a deletion touch what is final in a room that has ended.
THEOREM DeletionKeepsEnds == DeletionSpec => EndedIsFinal
<1> DEFINE Final == \A r \in Room : rooms[r] # Nil /\ rooms[r].ended =>
                      /\ rooms'[r] = rooms[r]
                      /\ \A u \in User : members[r][u] # Nil =>
                           members'[r][u].role = members[r][u].role
<1>1. ASSUME DeletionInv, RowsEnd PROVE Final
  <2> SUFFICES ASSUME NEW r \in Room, rooms[r] # Nil, rooms[r].ended
               PROVE  /\ rooms'[r] = rooms[r]
                      /\ \A u \in User : members[r][u] # Nil =>
                           members'[r][u].role = members[r][u].role
    OBVIOUS
  <2>1. rooms[r] \in RoomRow
    BY <1>1 DEF DeletionInv, Structure, TypeOK
  <2>2. [rooms[r] EXCEPT !.ended = TRUE] = rooms[r]
    BY <2>1 DEF RoomRow
  <2> QED
    BY <1>1, <2>2 DEF RowsEnd
<1>2. DeletionInv /\ [DeletionNext]_deletionVars => [Final]_vars
  BY <1>1, DeletionTables, EndedStep DEF DeletionInv
<1> QED
  BY <1>2, AlwaysDeletionInv, PTL DEF DeletionSpec, EndedIsFinal
=============================================================================
