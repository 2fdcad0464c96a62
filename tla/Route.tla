------------------------------- MODULE Route -------------------------------
(***************************************************************************)
(* What the members of a room share: its name, the destination and the     *)
(* ordered stops (rooms/service.go and rooms/store.go), and the copy of    *)
(* them kept by a client that is connected throughout.                     *)
(*                                                                         *)
(* Every statement is scoped to one room, so one room is modelled.  One    *)
(* step is one SQL statement or one broadcast; the INSERT of AddStop takes *)
(* its snapshot in one step and commits in another.  Requests are those    *)
(* that passed requireOwner, which is not tested again; coordinates are    *)
(* valid.                                                                  *)
(***************************************************************************)
EXTENDS Naturals, Sequences, FiniteSets, FiniteSetsExt

CONSTANTS
  Req,       \* goroutines serving requests
  Pin,       \* coordinates of destinations
  Text,      \* names of rooms and destinations, and notes
  Label,     \* labels of stops
  Nil,       \* SQL NULL
  MaxStops,  \* bound: how many stops are added in a behaviour
  MayFail    \* bound: whether the database may refuse a statement

ASSUME RouteAssumption ==
  /\ Nil \notin Pin /\ Nil \notin Text /\ Nil \notin Label
  /\ MaxStops \in Nat
  /\ MayFail \in BOOLEAN

VARIABLES
  ended,  \* rooms.ended_at
  name,   \* rooms.name
  dest,   \* rooms.dest_lat/lng (pin) and dest_name/notes (meta)
  stops,  \* table room_stops; created_at grows with id
  added,  \* how many INSERTs into it have started
  view,   \* the client's copy: name, dest, stops
  req     \* the request each goroutine serves

tables == <<ended, name, dest, stops, added>>
vars   == <<tables, view, req>>

OptPin   == Pin \cup {Nil}
OptText  == Text \cup {Nil}
OptLabel == Label \cup {Nil}

Destination == [pin : Pin, meta : OptText]

\* What a client is shown of a stop.
Shown(st) == [id |-> st.id, label |-> st.label]

Idle == [pc |-> "idle", arg |-> Nil, alone |-> TRUE]

Init ==
  /\ ended = FALSE
  /\ name  = Nil
  /\ dest  = [pin |-> Nil, meta |-> Nil]
  /\ stops = {}
  /\ added = 0
  /\ view  = [name |-> Nil, dest |-> Nil, stops |-> <<>>]
  /\ req   = [q \in Req |-> Idle]

----------------------------------------------------------------------------
(* Reads *)

GetDestination == IF dest.pin = Nil THEN Nil ELSE dest

\* ORDER BY position ASC, created_at ASC
RoutePrecedes(s, t) ==
  \/ s.position < t.position
  \/ s.position = t.position /\ s.id < t.id

\* The i-th row has i - 1 rows before it.
ListStops ==
  [i \in 1..Cardinality(stops) |->
     Shown(CHOOSE s \in stops : Cardinality({t \in stops : RoutePrecedes(t, s)}) = i - 1)]

\* Variants: the first stop is at 1; the position is the number of stops.
NextPosition_fromOne ==
  IF stops = {} THEN 1 ELSE Max({s.position : s \in stops}) + 1
NextPosition_count == Cardinality(stops)

\* COALESCE((SELECT MAX(position) + 1 ...), 0)
NextPosition ==
  IF stops = {} THEN 0 ELSE Max({s.position : s \in stops}) + 1

----------------------------------------------------------------------------
(***************************************************************************)
(* The life of a request.  It begins with its first statement; one that    *)
(* fails or matches no row ends the request with nothing done, and the     *)
(* model takes no step.  `alone` records that no other request was being   *)
(* served at the same time.                                                *)
(***************************************************************************)
InFlight(q) == req[q].pc # "idle"

Begin(q, pc, arg) ==
  LET alone == \A p \in Req : ~InFlight(p)
  IN  /\ ~InFlight(q)
      /\ req' = [p \in Req |->
                   IF p = q THEN [pc |-> pc, arg |-> arg, alone |-> alone]
                   ELSE IF InFlight(p) THEN [req[p] EXCEPT !.alone = FALSE]
                   ELSE req[p]]

At(q, pc) == req[q].pc = pc
Goto(q, pc, arg) == req' = [req EXCEPT ![q].pc = pc, ![q].arg = arg]
Finish(q) == req' = [req EXCEPT ![q] = Idle]

\* The broadcast of q, its last step, makes the client's copy v.
Broadcast(q, pc, v) ==
  /\ At(q, pc)
  /\ view' = v
  /\ Finish(q)
  /\ UNCHANGED tables

----------------------------------------------------------------------------
(* Rename, SetDestination, UpdateDestinationMeta *)

UpdateName(q, n) ==
  /\ ~ended
  /\ name' = n
  /\ Begin(q, "renamed", n)
  /\ UNCHANGED <<ended, dest, stops, added, view>>

BroadcastRoomRenamed(q) == Broadcast(q, "renamed", [view EXCEPT !.name = req[q].arg])

SetDestination(q, d) ==
  /\ ~ended
  /\ dest' = d
  /\ Begin(q, "destwritten", d)
  /\ UNCHANGED <<ended, name, stops, added, view>>

UpdateDestinationMeta(q, meta) ==
  /\ ~ended
  /\ dest.pin # Nil
  /\ dest' = [dest EXCEPT !.meta = meta]
  /\ Begin(q, "destwritten", dest')
  /\ UNCHANGED <<ended, name, stops, added, view>>

BroadcastDestination(q) == Broadcast(q, "destwritten", [view EXCEPT !.dest = req[q].arg])

(* ClearDestination: two statements, two broadcasts *)

\* dest_name and dest_notes keep their values.
ClearDestination(q) ==
  /\ ~ended
  /\ dest' = [dest EXCEPT !.pin = Nil]
  /\ Begin(q, "destcleared", Nil)
  /\ UNCHANGED <<ended, name, stops, added, view>>

ClearRouteStops(q) ==
  /\ At(q, "destcleared")
  /\ stops' = {}
  /\ Goto(q, "routecleared", Nil)
  /\ UNCHANGED <<ended, name, dest, added, view>>

\* Variant: only the empty list of stops is broadcast.
BroadcastNoDestination_skipped(q) ==
  /\ At(q, "routecleared")
  /\ Goto(q, "stopsread", <<>>)
  /\ UNCHANGED <<tables, view>>

BroadcastNoDestination(q) ==
  /\ At(q, "routecleared")
  /\ view' = [view EXCEPT !.dest = Nil]
  /\ Goto(q, "stopsread", <<>>)
  /\ UNCHANGED tables

----------------------------------------------------------------------------
(* Stops; no statement on them looks at ended_at *)

ClearStops(q) ==
  /\ stops' = {}
  /\ Begin(q, "stopswritten", Nil)
  /\ UNCHANGED <<ended, name, dest, added, view>>

\* The INSERT evaluates its subquery on its snapshot ...
AddStopSnapshot(q, label) ==
  /\ added < MaxStops
  /\ added' = added + 1
  /\ Begin(q, "insert", [id |-> added', position |-> NextPosition, label |-> label,
                         older |-> {s.id : s \in stops}])
  /\ UNCHANGED <<ended, name, dest, stops, view>>

\* ... and commits the row.
AddStopInsert(q) ==
  /\ At(q, "insert")
  /\ stops' = stops \cup {req[q].arg}
  /\ Goto(q, "stopswritten", Nil)
  /\ UNCHANGED <<ended, name, dest, added, view>>

RemoveStop(q, st) ==
  /\ stops' = stops \ {st}
  /\ Begin(q, "stopswritten", Nil)
  /\ UNCHANGED <<ended, name, dest, added, view>>

UpdateStopLabel(q, st, label) ==
  /\ stops' = (stops \ {st}) \cup {[st EXCEPT !.label = label]}
  /\ Begin(q, "stopswritten", Nil)
  /\ UNCHANGED <<ended, name, dest, added, view>>

\* Variant: the list last sent is sent again.
ReadStops_cached(q) ==
  /\ At(q, "stopswritten")
  /\ Goto(q, "stopsread", view.stops)
  /\ UNCHANGED <<tables, view>>

\* broadcastStops re-reads the list ...
ReadStops(q) ==
  /\ At(q, "stopswritten")
  /\ Goto(q, "stopsread", ListStops)
  /\ UNCHANGED <<tables, view>>

\* ... and BroadcastStops replaces the client's copy.
BroadcastStops(q) == Broadcast(q, "stopsread", [view EXCEPT !.stops = req[q].arg])

----------------------------------------------------------------------------
\* EndRoom, by a request of its own.
EndRoom ==
  /\ ~ended
  /\ ended' = TRUE
  /\ UNCHANGED <<name, dest, stops, added, view, req>>

\* The database fails at a later statement: the request ends there without a
\* broadcast, and what its first statement wrote stays.
StatementFails(q) ==
  /\ MayFail
  /\ req[q].pc \in {"destcleared", "insert", "stopswritten"}
  /\ Finish(q)
  /\ UNCHANGED <<tables, view>>

Arrive(q) ==
  \/ \E n \in Text : UpdateName(q, n)
  \/ \E d \in Destination : SetDestination(q, d)
  \/ \E meta \in OptText : UpdateDestinationMeta(q, meta)
  \/ ClearDestination(q) \/ ClearStops(q)
  \/ \E label \in OptLabel : AddStopSnapshot(q, label)
  \/ \E st \in stops : \/ RemoveStop(q, st)
                      \/ \E label \in OptLabel : UpdateStopLabel(q, st, label)

Serve(q) ==
  \/ BroadcastRoomRenamed(q) \/ BroadcastDestination(q)
  \/ ClearRouteStops(q) \/ BroadcastNoDestination(q)
  \/ AddStopInsert(q) \/ ReadStops(q) \/ BroadcastStops(q)
  \/ StatementFails(q)

Next == EndRoom \/ \E q \in Req : Arrive(q) \/ Serve(q)

Spec == Init /\ [][Next]_vars

----------------------------------------------------------------------------
(* Properties *)

TypeOK ==
  /\ ended \in BOOLEAN
  /\ name \in OptText
  /\ dest \in [pin : OptPin, meta : OptText]
  /\ \A s \in stops : s \in [id : 1..added, position : 0..(MaxStops - 1), label : OptLabel,
                             older : SUBSET (1..added)]
  /\ added \in 0..MaxStops
  /\ view.name \in OptText
  /\ view.dest \in Destination \cup {Nil}
  /\ view.stops \in Seq([id : 1..added, label : OptLabel])
  /\ \A q \in Req : req[q].pc \in {"idle", "renamed", "destwritten", "destcleared",
                                  "routecleared", "insert", "stopswritten", "stopsread"}

\* Appended means after: a stop comes later in the route than every stop that
\* was in the table when its AddStop began, whatever was removed in between
\* (positions of removed stops are given out again).
AppendedAfterOlderStops ==
  \A s, t \in stops : s.id \in t.older => s.position < t.position

\* Edits heal: a request that was served alone and reaches its broadcast leaves
\* the client with what the database holds of the thing edited, whatever
\* broadcasts the client missed or got in the wrong order before.
UndisturbedEditHeals ==
  [][\A q \in Req : req[q].alone =>
       /\ BroadcastRoomRenamed(q) => view'.name = name
       /\ BroadcastDestination(q) => view'.dest = GetDestination
       /\ BroadcastNoDestination(q) => view'.dest = GetDestination
       /\ BroadcastStops(q) => view'.stops = ListStops]_vars

\* "the full ordered list is broadcast so every client converges": between
\* requests, with no failed statement, the client has the table's list.
StopsConverged ==
  (\A q \in Req : ~InFlight(q)) /\ ~ended => view.stops = ListStops
=============================================================================
