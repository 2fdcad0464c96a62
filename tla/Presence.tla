------------------------------ MODULE Presence ------------------------------
(***************************************************************************)
(* What the members of one room see of each other: the snapshot a socket   *)
(* gets, and the frames member_present, member_absent and emergency that   *)
(* the goroutines of Handler.ServeHTTP and readPump fan out after they     *)
(* changed the registry.                                                   *)
(*                                                                         *)
(* join, leave and SetEmergency look the room's object up (roomFor) in one *)
(* step and change it under its lock in another; in between the last leave *)
(* may have dropped the object, and what is put into a dropped one nobody  *)
(* finds again (module Hub).  broadcast copies its targets under the lock  *)
(* and enqueues afterwards, one socket at a time; a snapshot is copied     *)
(* under the lock and enqueued later.  Lookup and copy are one step there: *)
(* a socket that is registered when the lock is taken has kept its object  *)
(* from being dropped, and from a dropped one no registered socket is      *)
(* reached.  A frame counts as seen when it is enqueued (ClientPump: what  *)
(* is enqueued arrives in order or the socket closes).                     *)
(***************************************************************************)
EXTENDS Naturals, Sequences, FiniteSets

CONSTANTS
  Socket,   \* client objects
  Member,   \* users
  holderOf, \* client.user.ID
  None

ASSUME PresenceAssumption == holderOf \in [Socket -> Member] /\ None \notin Socket

VARIABLES
  room,     \* whether Hub.rooms has an object for the room
  current,  \* its roomState.clients
  flagged,  \* its roomState.emergencies
  stale,    \* sockets whose goroutine has looked up an object dropped since
  at,       \* where the goroutine of each socket is
  frames,   \* the broadcasts it still has to make, in order
  targets,  \* the sockets its first broadcast still has to reach, or None
  snap,     \* the snapshot it has copied
  view,     \* what each client shows: [present, red], None without a snapshot
  muddled,  \* history: users with overlapping changes under way
  doubt     \* history: <<socket, user, kind>> whose display may be wrong

registry == <<room, current, flagged, stale>>
presenceVars == <<registry, at, frames, targets, snap, view, muddled, doubt>>

PresenceInit ==
  /\ room    = FALSE
  /\ current = [u \in Member |-> None]
  /\ flagged = {}
  /\ stale   = {}
  /\ at      = [c \in Socket |-> "start"]
  /\ frames  = [c \in Socket |-> <<>>]
  /\ targets = [c \in Socket |-> None]
  /\ snap    = [c \in Socket |-> None]
  /\ view    = [c \in Socket |-> None]
  /\ muddled = {}
  /\ doubt   = {}

Frame(kind, on) == [kind |-> kind, on |-> on]
Kind == {"present", "red"}

----------------------------------------------------------------------------
(* History: which displays the code does not promise *)

\* Sockets whose client has been, or is about to be, given a snapshot.
Shown == {d \in Socket : at[d] \in {"send", "open", "alarm"} /\ current[holderOf[d]] = d}

\* Goroutine c starts to announce a change of its user.  If another one of the
\* same user is still announcing, or the registry does not have the change or
\* not even the user, the frames may leave a client with either state.
Change(c, fs, sure) ==
  LET u    == holderOf[c]
      calm == sure /\ \A d \in Socket \ {c} : holderOf[d] = u => frames[d] = <<>>
  IN  /\ frames' = [frames EXCEPT ![c] = fs]
      /\ muddled' = IF fs = <<>> \/ calm THEN muddled ELSE muddled \cup {u}
      /\ doubt' = IF fs = <<>> \/ calm THEN doubt ELSE doubt \cup (Shown \X {u} \X Kind)

\* The client of a socket that is closed shows nothing any more.
Gone(d) == /\ view' = [c \in Socket |-> IF c = d THEN None ELSE view[c]]
           /\ snap' = [c \in Socket |-> IF c = d THEN None ELSE snap[c]]

----------------------------------------------------------------------------
(* Connecting *)

\* roomFor of join.
JoinRoomFor(c) ==
  /\ at[c] = "start"
  /\ room' = TRUE
  /\ at' = [at EXCEPT ![c] = "join"]
  /\ UNCHANGED <<current, flagged, stale, frames, targets, snap, view, muddled, doubt>>

\* The rest of join: the previous socket is replaced, and the first of the user
\* is announced.  In a dropped object that may be so or not.
Join(c, first) ==
  LET u == holderOf[c]
  IN  /\ at[c] = "join"
      /\ c \notin stale => (first <=> current[u] = None)
      /\ current' = [current EXCEPT ![u] = IF c \in stale THEN @ ELSE c]
      /\ stale' = stale \ {c}
      /\ at' = [at EXCEPT ![c] = "snapshot"]
      /\ Change(c, IF first THEN <<Frame("present", TRUE)>> ELSE <<>>, c \notin stale)
      /\ Gone(IF c \in stale THEN c ELSE current[u])
      /\ UNCHANGED <<room, flagged, targets>>

Present == {u \in Member : current[u] # None}

\* hub.snapshot: presence and emergencies are copied under one lock.  The copy
\* is as good as the registry, except for what is still under way.  What a
\* socket shows that is not registered is not followed.
CopySnapshot(c) ==
  /\ at[c] = "snapshot"
  /\ snap' = [snap EXCEPT ![c] = IF current[holderOf[c]] = c
                                 THEN [present |-> Present, red |-> flagged] ELSE None]
  /\ at' = [at EXCEPT ![c] = "send"]
  /\ doubt' = {x \in doubt : x[1] # c} \cup
              ({c} \X (muddled \cup (flagged \ Present)) \X Kind)
  /\ room' = TRUE
  /\ UNCHANGED <<current, flagged, stale, frames, targets, view, muddled>>

\* The snapshot is enqueued; it replaces what the client shows.
SendSnapshot(c) ==
  /\ at[c] = "send"
  /\ view' = [view EXCEPT ![c] = snap[c]]
  /\ snap' = [snap EXCEPT ![c] = None]
  /\ at' = [at EXCEPT ![c] = "open"]
  /\ UNCHANGED <<registry, frames, targets, muddled, doubt>>

\* A database read of snapshot fails: the client gets none.
SnapshotFails(c) ==
  /\ at[c] = "snapshot"
  /\ at' = [at EXCEPT ![c] = "open"]
  /\ UNCHANGED <<registry, frames, targets, snap, view, muddled, doubt>>

----------------------------------------------------------------------------
(* broadcast *)

\* The sockets in the registry; presence frames leave the user's own out.
Targets(c) ==
  {current[u] : u \in {w \in Present : Head(frames[c]).kind = "present" => w # holderOf[c]}}

\* The broadcast of c has still to reach T; it returns when there is none.
Reach(c, T) ==
  /\ targets' = [targets EXCEPT ![c] = IF T = {} THEN None ELSE T]
  /\ frames' = [frames EXCEPT ![c] = IF T = {} THEN Tail(@) ELSE @]
  /\ muddled' = IF \A d \in Socket : holderOf[d] = holderOf[c] => frames'[d] = <<>>
                THEN muddled \ {holderOf[c]} ELSE muddled

\* The targets are copied under the read lock.
CopyTargets(c) ==
  /\ at[c] \in {"open", "left"}
  /\ frames[c] # <<>> /\ targets[c] = None
  /\ Reach(c, Targets(c))
  /\ UNCHANGED <<registry, at, snap, view, doubt>>

\* What a client that showed v shows after frame f about u.
Apply(v, u, f) ==
  IF v = None THEN None
  ELSE [v EXCEPT ![f.kind] = IF f.on THEN @ \cup {u} ELSE @ \ {u}]

\* c.enqueue for one of them.  A frame that comes between the copy of a
\* snapshot and its delivery is lost on the client; an undisturbed one puts
\* the display right.
EnqueueFor(c, d) ==
  LET u == holderOf[c]
      f == Head(frames[c])
      x == <<d, u, f.kind>>
  IN  /\ targets[c] # None /\ d \in targets[c]
      /\ Reach(c, targets[c] \ {d})
      /\ view' = [view EXCEPT ![d] = Apply(@, u, f)]
      /\ doubt' = IF d \in Shown /\ at[d] = "send" THEN doubt \cup {x}
                  ELSE IF u \in muddled THEN doubt ELSE doubt \ {x}
      /\ UNCHANGED <<registry, at, snap>>

----------------------------------------------------------------------------
(* readPump *)

\* roomFor of SetEmergency.
EmergencyRoomFor(c) ==
  /\ at[c] = "open" /\ frames[c] = <<>>
  /\ room' = TRUE
  /\ at' = [at EXCEPT ![c] = "alarm"]
  /\ UNCHANGED <<current, flagged, stale, frames, targets, snap, view, muddled, doubt>>

\* The rest of SetEmergency; an emergency frame is announced only if it changed
\* the flag.  One that a replaced socket handles after its user left flags an
\* absent user.
SetEmergency(c, active, changed) ==
  LET u == holderOf[c]
  IN  /\ at[c] = "alarm"
      /\ c \notin stale => (changed <=> active # (u \in flagged))
      /\ flagged' = IF c \in stale THEN flagged
                    ELSE IF active THEN flagged \cup {u} ELSE flagged \ {u}
      /\ stale' = stale \ {c}
      /\ at' = [at EXCEPT ![c] = "open"]
      /\ Change(c, IF changed THEN <<Frame("red", active)>> ELSE <<>>,
                c \notin stale /\ current[u] # None)
      /\ UNCHANGED <<room, current, targets, snap, view>>

----------------------------------------------------------------------------
(* Disconnecting *)

\* Variant: absent is announced before the emergency is cleared.
LeaveFrames_absentFirst(u) ==
  <<Frame("present", FALSE)>> \o (IF u \in flagged THEN <<Frame("red", FALSE)>> ELSE <<>>)

\* "cancel the emergency first"
LeaveFrames(u) ==
  (IF u \in flagged THEN <<Frame("red", FALSE)>> ELSE <<>>) \o <<Frame("present", FALSE)>>

\* readPump has ended; roomFor of leave, which is done if there is no object.
LeaveRoomFor(c) ==
  /\ at[c] = "open" /\ frames[c] = <<>>
  /\ at' = [at EXCEPT ![c] = IF room THEN "leave" ELSE "left"]
  /\ Gone(c)
  /\ UNCHANGED <<registry, frames, targets, muddled, doubt>>

\* Variant: leave does not ask whether the socket is the user's current one.
Leave_anySocket(c, empty) ==
  LET u == holderOf[c]
  IN  /\ at[c] = "leave"
      /\ current' = [current EXCEPT ![u] = IF @ = c THEN None ELSE @]
      /\ c \notin stale => (empty <=> \A w \in Member : current'[w] = None)
      /\ flagged' = flagged \ {u}
      /\ stale' = stale \ {c}
      /\ at' = [at EXCEPT ![c] = IF empty THEN "drop" ELSE "left"]
      /\ Change(c, LeaveFrames(u), TRUE)
      /\ UNCHANGED <<room, targets, snap, view>>

\* leave removes the socket if it is the current one, and only then is anything
\* announced.  It is in no dropped object: what it finds, it finds in Hub.rooms.
Leave(c, empty) ==
  LET u    == holderOf[c]
      left == current[u] = c
  IN  /\ at[c] = "leave"
      /\ current' = [current EXCEPT ![u] = IF left THEN None ELSE @]
      /\ c \notin stale => (empty <=> \A w \in Member : current'[w] = None)
      /\ flagged' = IF left THEN flagged \ {u} ELSE flagged
      /\ stale' = stale \ {c}
      /\ at' = [at EXCEPT ![c] = IF empty THEN "drop" ELSE "left"]
      /\ Change(c, IF left THEN LeaveFrames(u) ELSE <<>>, TRUE)
      /\ UNCHANGED <<room, targets, snap, view>>

\* The object of the room, if it is still empty, is dropped under Hub.mu,
\* whoever has looked it up and is about to lock it.
Drop(c) ==
  LET drops == room /\ Present = {}
  IN  /\ at[c] = "drop"
      /\ at' = [at EXCEPT ![c] = "left"]
      /\ room' = (room /\ ~ drops)
      /\ flagged' = IF drops THEN {} ELSE flagged
      /\ stale' = IF drops THEN stale \cup {d \in Socket : at[d] \in {"join", "alarm", "leave"}}
                  ELSE stale
      /\ UNCHANGED <<current, frames, targets, snap, view, muddled, doubt>>

----------------------------------------------------------------------------
PresenceNext ==
  \E c \in Socket :
    \/ JoinRoomFor(c) \/ \E first \in BOOLEAN : Join(c, first)
    \/ CopySnapshot(c) \/ SendSnapshot(c) \/ SnapshotFails(c)
    \/ CopyTargets(c) \/ \E d \in Socket : EnqueueFor(c, d)
    \/ EmergencyRoomFor(c)
    \/ \E active, changed \in BOOLEAN : SetEmergency(c, active, changed)
    \/ LeaveRoomFor(c) \/ \E empty \in BOOLEAN : Leave(c, empty)
    \/ Drop(c)

PresenceSpec == PresenceInit /\ [][PresenceNext]_presenceVars

----------------------------------------------------------------------------
(* Properties *)

\* A client on the room screen that has its snapshot.
Watching(d) == current[holderOf[d]] = d /\ view[d] # None

\* No goroutine has anything left to say about u.
Settled(u) == \A c \in Socket : holderOf[c] = u => frames[c] = <<>>

\* Presence "reflect[s] who is currently on the room screen": once the frames
\* about a user are out, every client that watches shows the user present or
\* absent, in emergency or not, as the registry has it, unless changes of that
\* user overlapped, met the client's own snapshot on its way, or went into an
\* object that the last leave had dropped, or an emergency was raised for a user
\* who had left.  The next undisturbed change of the user puts such a client
\* right.
PresenceSettles ==
  \A d \in Socket, u \in Member :
    Watching(d) /\ Settled(u) =>
      /\ u # holderOf[d] /\ <<d, u, "present">> \notin doubt
           => (u \in view[d].present <=> current[u] # None)
      /\ <<d, u, "red">> \notin doubt => (u \in view[d].red <=> u \in flagged)

\* "the order is what avoids a flicker where 'absent' arrives but the red route
\* persists": no client shows an absent user in emergency, under the same
\* proviso.
NoAbsentEmergency ==
  \A d \in Socket, u \in Member :
    Watching(d) /\ u # holderOf[d] /\ u \in view[d].red =>
      u \in view[d].present \/ \E k \in Kind : <<d, u, k>> \in doubt
=============================================================================
