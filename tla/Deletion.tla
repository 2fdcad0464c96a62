------------------------------ MODULE Deletion ------------------------------
(***************************************************************************)
(* Membership together with accounts that go away: the requests of module  *)
(* Rooms behind the authentication middleware, HandleDeleteAccount         *)
(* (auth/auth.go), userSoftDelete and userRestore (admin/users.go).        *)
(*                                                                         *)
(* A step is one SQL statement.  HandleDeleteAccount is a transaction: the *)
(* rows it has updated stay locked, and nobody sees the updates, until it  *)
(* commits; a request that would write such a row waits.  userSoftDelete   *)
(* runs the same three statements without one.  Neither calls the hub.     *)
(***************************************************************************)
EXTENDS Rooms

VARIABLES
  deleted,      \* users with deleted_at set
  session,      \* per goroutine, the user LoadUser has found for it
  del,          \* the deletion under way
  gone,         \* history: deletions that came to their end
  late,         \* history: users a request was serving while they were deleted
  doubt         \* history: <<room, user>> that a client may show wrongly

accounts == <<deleted, del, gone>>
deletionVars == <<vars, accounts, session, late, doubt>>

NoDeletion == [pc |-> "idle", user |-> Nil, tx |-> FALSE, stamps |-> FALSE,
               rooms |-> {}, members |-> {}]

DeletionInit ==
  /\ Init
  /\ deleted = {} /\ gone = {} /\ late = {} /\ doubt = {}
  /\ session = [q \in Req |-> Nil]
  /\ del = NoDeletion

----------------------------------------------------------------------------
(* History: which entries of a member list the code does not promise *)

\* What the request has changed, or is about to, and not yet announced.
Unsaid(x) ==
  (Watched \cap {x.room}) \X (
    CASE x.pc \in {"get", "joined", "left", "muted", "kicked"} -> {x.target}
      [] x.pc = "transferred" -> {x.actor, x.target}
      [] OTHER -> {})

Unannounced(p) == \E q \in Req : p \in Unsaid(req[q])

\* Request q goes on.  A change of an entry that another request has still to
\* announce leaves the client with either; a frame that carries the whole entry
\* puts it right.
Announcing(q) ==
  LET new   == Unsaid(req'[q]) \ Unsaid(req[q])
      mixed == {p \in new : Unannounced(p)}
      whole == IF req'[q].pc \in {"get", "left", "kicked"} THEN new ELSE {}
  IN  doubt' = (doubt \ whole) \cup mixed

----------------------------------------------------------------------------
(* Requests *)

\* The step leaves alone the rows that the transaction has locked.
Unlocked ==
  /\ \A r \in del.rooms : rooms'[r] = rooms[r]
  /\ \A r \in del.members : members'[r][del.user] = members[r][del.user]

\* Variant: the token alone is enough.
Middleware_tokenOnly(q, u) ==
  /\ req[q] = Idle /\ session[q] = Nil
  /\ session' = [session EXCEPT ![q] = u]
  /\ UNCHANGED <<vars, accounts, doubt>>

\* Middleware: LoadUser refuses deleted accounts.
Middleware(q, u) ==
  /\ req[q] = Idle /\ session[q] = Nil
  /\ u \notin deleted
  /\ session' = [session EXCEPT ![q] = u]
  /\ UNCHANGED <<vars, accounts, doubt>>

\* A handler runs for the user in its context.
Handle(q) ==
  /\ session[q] # Nil
  /\ Arrive(q) /\ Unlocked
  /\ req'[q].actor = session[q] /\ req'[q].pc # "wsmember"
  /\ session' = [session EXCEPT ![q] = Nil]
  /\ Announcing(q)
  /\ UNCHANGED accounts

\* ... or refuses, or only reads.
HandlerReturns(q) ==
  /\ req[q] = Idle /\ session[q] # Nil
  /\ session' = [session EXCEPT ![q] = Nil]
  /\ UNCHANGED <<vars, accounts, doubt>>

\* /ws is outside the middleware: it loads the user after its other checks.
Connect(q) ==
  /\ session[q] = Nil
  /\ Arrive(q)
  /\ req'[q].pc = "wsmember"
  /\ UNCHANGED <<accounts, session, doubt>>

WsLoadUser(q) ==
  /\ At(q, "wsjoin") /\ session[q] = Nil
  /\ IF req[q].actor \in deleted
     THEN Finish(q) /\ UNCHANGED session
     ELSE session' = [session EXCEPT ![q] = req[q].actor] /\ UNCHANGED req
  /\ UNCHANGED <<tables, live, accounts, doubt>>

Continue(q) ==
  /\ At(q, "wsjoin") => session[q] # Nil
  /\ Serve(q) /\ Unlocked
  /\ session' = [session EXCEPT ![q] = Nil]
  /\ Announcing(q)
  /\ UNCHANGED accounts

\* The request ends with an error; what it has changed nobody is told.
RequestFails(q) ==
  /\ StatementFails(q)
  /\ session' = [session EXCEPT ![q] = Nil]
  /\ doubt' = doubt \cup Unsaid(req[q])
  /\ UNCHANGED accounts

----------------------------------------------------------------------------
(* Deleting an account *)

\* The first statement stamps deleted_at.  Bound: one deletion at a time.
StampUser(u, tx) ==
  /\ del = NoDeletion
  /\ del' = [NoDeletion EXCEPT !.pc = "rooms", !.user = u, !.tx = tx,
                               !.stamps = tx /\ u \notin deleted]
  /\ deleted' = IF tx THEN deleted ELSE deleted \cup {u}
  /\ gone' = gone \ {u}
  /\ UNCHANGED <<vars, doubt>>

\* DELETE /account has come through the middleware; the account may have been
\* deleted since, and then the statement changes no row.
HandleDeleteAccount(q) ==
  /\ req[q] = Idle /\ session[q] # Nil
  /\ StampUser(session[q], TRUE)
  /\ session' = [session EXCEPT ![q] = Nil]

UserSoftDelete(u) == StampUser(u, FALSE) /\ UNCHANGED session

Closed(rs) == [r \in Room |-> IF r \in rs THEN [rooms[r] EXCEPT !.ended = TRUE] ELSE rooms[r]]

\* Variant: the row says kicked, but not when the member left.
Removed_kickedOnly(ms, u) ==
  [r \in Room |-> IF r \in ms THEN [members[r] EXCEPT ![u].kicked = TRUE] ELSE members[r]]

Removed(ms, u) ==
  [r \in Room |-> IF r \in ms THEN [members[r] EXCEPT ![u].kicked = TRUE, ![u].left = TRUE]
                  ELSE members[r]]

\* The second ends the open rooms the user owns.
EndOwnedRooms ==
  LET rs == {r \in Room : Open(r) /\ rooms[r].owner = del.user}
  IN  /\ del.pc = "rooms"
      /\ del' = [del EXCEPT !.pc = "members", !.rooms = IF del.tx THEN rs ELSE {}]
      /\ rooms' = IF del.tx THEN rooms ELSE Closed(rs)
      /\ UNCHANGED <<members, live, req, deleted, gone, doubt, session>>

Memberships(u) == {r \in Room : Present(r, u)}

\* Everything is done.
Complete(d) ==
  /\ del' = NoDeletion
  /\ gone' = IF del.user \in d THEN gone \cup {del.user} ELSE gone

\* The third ends the memberships.
EndMemberships ==
  LET ms == Memberships(del.user)
  IN  /\ del.pc = "members"
      /\ IF del.tx
         THEN /\ del' = [del EXCEPT !.pc = "commit", !.members = ms]
              /\ UNCHANGED <<members, gone, doubt>>
         ELSE /\ members' = Removed(ms, del.user)
              /\ doubt' = doubt \cup ((Watched \cap ms) \X {del.user})
              /\ Complete(deleted)
      /\ UNCHANGED <<rooms, live, req, deleted, session>>

CommitDeletion ==
  /\ del.pc = "commit"
  /\ deleted' = IF del.stamps THEN deleted \cup {del.user} ELSE deleted
  /\ rooms' = Closed(del.rooms)
  /\ members' = Removed(del.members, del.user)
  /\ doubt' = doubt \cup ((Watched \cap del.members) \X {del.user})
  /\ Complete(deleted')
  /\ UNCHANGED <<live, req, session>>

\* A statement fails or the deadline passes: the transaction is rolled back,
\* the administrator's statements stay.
DeletionFails ==
  /\ del # NoDeletion
  /\ del' = NoDeletion
  /\ UNCHANGED <<vars, deleted, gone, doubt, session>>

\* A row the transaction has stamped is not yet deleted for anyone else.
UserRestore(u) ==
  /\ u \in deleted
  /\ deleted' = deleted \ {u}
  /\ gone' = gone \ {u}
  /\ UNCHANGED <<vars, del, doubt, session>>

----------------------------------------------------------------------------
\* The process restarts; its transaction is rolled back.
RestartAll ==
  /\ Restart
  /\ session' = [q \in Req |-> Nil]
  /\ del' = NoDeletion
  /\ doubt' = {}
  /\ UNCHANGED <<deleted, gone>>

Deleting(u) == del.user = u

\* A request that may still make u a member or an owner.
Entangled(u) ==
  \E q \in Req : \/ session[q] = u /\ req[q] = Idle
                 \/ req[q].actor = u /\ req[q].pc \in {"create", "upsert"}
                 \/ req[q].target = u /\ req[q].pc \in {"assert", "exists", "transfer"}

DeletionNext ==
  /\ \/ \E q \in Req : \/ \E u \in User : Middleware(q, u)
                       \/ Handle(q) \/ HandlerReturns(q) \/ HandleDeleteAccount(q)
                       \/ Connect(q) \/ WsLoadUser(q) \/ Continue(q) \/ RequestFails(q)
     \/ \E r \in Room, u \in User : SocketGone(u, r) /\ UNCHANGED <<accounts, session, doubt>>
     \/ \E u \in User : UserSoftDelete(u) \/ UserRestore(u)
     \/ EndOwnedRooms \/ EndMemberships \/ CommitDeletion \/ DeletionFails
     \/ RestartAll
  /\ late' = {u \in User :
       \/ Deleting(u)' /\ Entangled(u)'
       \/ u \in late /\ IF Deleting(u)' THEN Deleting(u) ELSE u \in gone'}

DeletionSpec == DeletionInit /\ [][DeletionNext]_deletionVars

----------------------------------------------------------------------------
(* Properties *)

\* "the token is effectively dead": an account whose deletion has come to its
\* end owns no open room and is a member of none, whatever failed, was
\* repeated or restarted before, unless a request that had already loaded the
\* user, or was handing a room to it, was under way meanwhile.
DeletedUsersAreOut ==
  \A u \in gone \ late : \A r \in Room :
    ~ Present(r, u) /\ (Open(r) => rooms[r].owner # u)

\* A client that receives every frame shows each member of an open room with
\* the current role and mute, once the request that changed the member has
\* announced it: whatever other requests are doing, and whatever the client
\* showed before a frame that carries the whole member.  Wrong may be what
\* two requests changed at the same time, what a failing request or a deleted
\* account changed without a frame, until such a frame comes.
MemberListConverges ==
  \A r \in Watched : Open(r) => \A u \in User :
    <<r, u>> \notin doubt /\ ~ Unannounced(<<r, u>>) => view[r][u] = ListMembers(r)[u]
=============================================================================
