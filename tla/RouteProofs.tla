----------------------------- MODULE RouteProofs -----------------------------
(***************************************************************************)
(* Proofs about Route, for any number of concurrent requests and of stops. *)
(* MAX(position) + 1 is computed on a snapshot and inserted later; the     *)
(* invariant says what is true of a row between the two.                   *)
(***************************************************************************)
EXTENDS Route, Ranking, SequenceTheorems, WellFoundedInduction, TLAPS

USE ZenonT(60)

Row == [id : Nat, position : Nat, label : OptLabel, older : SUBSET Nat]

\* A row made while there were n INSERTs: positions stay below that number,
\* which is why there is a maximum.
Stored(s, n) == s \in Row /\ s.id <= n /\ s.position < n /\ \A i \in s.older : i <= n

Inserting(q) == req[q].pc = "insert"

\* The stop t was appended after s, or without seeing it.
After(s, t) == s.id \in t.older => s.position < t.position

ReqShape ==
  req = [q \in Req |-> [pc |-> req[q].pc, arg |-> req[q].arg, alone |-> req[q].alone]]

\* A row that is not committed yet has an id that is in no table and that no
\* row has seen, and comes after the rows it saw itself.
RouteInv ==
  /\ ReqShape
  /\ added \in Nat
  /\ \A s \in stops : Stored(s, added)
  /\ \A s, t \in stops : After(s, t)
  /\ \A q \in Req : Inserting(q) =>
       /\ Stored(req[q].arg, added)
       /\ \A s \in stops : /\ s.id # req[q].arg.id
                           /\ req[q].arg.id \notin s.older
                           /\ After(s, req[q].arg)
       /\ \A p \in Req : Inserting(p) =>
            /\ req[q].arg.id \notin req[p].arg.older
            /\ p # q => req[p].arg.id # req[q].arg.id

\* A set of natural numbers with a bound has a maximum.
LEMMA MaxExists ==
  ASSUME NEW S \in SUBSET Nat, S # {}, NEW n \in Nat, \A x \in S : x < n
  PROVE  Max(S) \in S /\ \A x \in S : x <= Max(S)
<1> DEFINE T == {n - x : x \in S}
<1>1. T \in SUBSET Nat /\ T # {}
  <2>1. \A x \in S : n - x \in Nat
    BY SMTT(30)
  <2>2. PICK x \in S : TRUE
    OBVIOUS
  <2>3. n - x \in T
    OBVIOUS
  <2> QED
    BY <2>1, <2>3
<1>2. \E x \in T : \A y \in T : ~ (<<y, x>> \in OpToRel(<, Nat))
  BY <1>1, NatLessThanWellFounded, WFMin
<1>3. PICK x \in T : \A y \in T : ~ (y < x)
  BY <1>1, <1>2 DEF OpToRel
<1>4. PICK m \in S : x = n - m
  BY <1>3
<1>5. \A y \in S : m >= y
  BY SMTT(30), <1>1, <1>3, <1>4
<1>6. \E z \in S : \A y \in S : z >= y
  BY <1>5
<1>7. Max(S) \in S /\ \A y \in S : Max(S) >= y
  BY <1>6 DEF Max
<1> QED
  BY <1>7

----------------------------------------------------------------------------
(* What the three ways to move a request do *)

\* Request q is at pc with arg afterwards, and the others are where they were.
Moved(q, pc, arg) ==
  /\ ReqShape'
  /\ req'[q].pc = pc /\ req'[q].arg = arg
  /\ \A p \in Req \ {q} : req'[p].pc = req[p].pc /\ req'[p].arg = req[p].arg

LEMMA BeginMoves ==
  ASSUME ReqShape, NEW q \in Req, NEW pc, NEW arg, Begin(q, pc, arg)
  PROVE  Moved(q, pc, arg)
<1> DEFINE alone == \A p \in Req : ~InFlight(p)
           next(p) == IF p = q THEN [pc |-> pc, arg |-> arg, alone |-> alone]
                      ELSE IF InFlight(p) THEN [req[p] EXCEPT !.alone = FALSE] ELSE req[p]
<1>1. req' = [p \in Req |-> next(p)]
  BY DEF Begin
<1>2. \A p \in Req : req[p] = [pc |-> req[p].pc, arg |-> req[p].arg, alone |-> req[p].alone]
  BY DEF ReqShape
<1>3. \A p \in Req : next(p) = [pc |-> next(p).pc, arg |-> next(p).arg, alone |-> next(p).alone]
  <2> TAKE p \in Req
  <2> QED
    BY <1>2
<1>4. \A p \in Req \ {q} : next(p).pc = req[p].pc /\ next(p).arg = req[p].arg
  <2> TAKE p \in Req \ {q}
  <2> QED
    BY SMTT(30), <1>2
<1>5. next(q).pc = pc /\ next(q).arg = arg
  OBVIOUS
<1> HIDE DEF next
<1> QED
  BY <1>1, <1>3, <1>4, <1>5 DEF Moved, ReqShape

LEMMA GotoMoves ==
  ASSUME ReqShape, NEW q \in Req, NEW pc, NEW arg, Goto(q, pc, arg)
  PROVE  Moved(q, pc, arg)
<1>1. \A p \in Req : req[p] = [pc |-> req[p].pc, arg |-> req[p].arg, alone |-> req[p].alone]
  BY SMTT(30) DEF ReqShape
<1>2. req' = [p \in Req |-> IF p = q THEN [pc |-> pc, arg |-> arg, alone |-> req[q].alone]
                            ELSE req[p]]
  <2>1. req = [p \in Req |-> req[p]]
    BY DEF ReqShape
  <2> DEFINE mid == [req EXCEPT ![q].pc = pc]
  <2>2. mid = [p \in Req |-> IF p = q THEN [pc |-> pc, arg |-> req[q].arg, alone |-> req[q].alone]
                             ELSE req[p]]
    BY SMTT(30), <1>1, <2>1
  <2>3. req' = [mid EXCEPT ![q].arg = arg]
    BY DEF Goto
  <2> HIDE DEF mid
  <2> QED
    BY SMTT(30), <2>2, <2>3
<1> QED
  BY <1>1, <1>2 DEF Moved, ReqShape

LEMMA FinishMoves ==
  ASSUME ReqShape, NEW q \in Req, Finish(q)
  PROVE  Moved(q, "idle", Nil)
<1>1. \A p \in Req : req[p] = [pc |-> req[p].pc, arg |-> req[p].arg, alone |-> req[p].alone]
  BY DEF ReqShape
<1>2. req' = [p \in Req |-> IF p = q THEN Idle ELSE req[p]]
  BY DEF Finish, ReqShape
<1> QED
  BY <1>1, <1>2 DEF Moved, ReqShape, Idle

----------------------------------------------------------------------------
(* Steps that add no row *)

\* Every row was there before, perhaps with another label.
Kept ==
  \A s \in stops' : /\ s \in Row
                    /\ \E t \in stops : s.id = t.id /\ s.position = t.position /\ s.older = t.older

LEMMA QuietStep ==
  ASSUME RouteInv, ReqShape', Kept, added' = added,
         \A q \in Req : Inserting(q)' => Inserting(q) /\ req'[q].arg = req[q].arg
  PROVE  RouteInv'
<1>1. \A s \in stops' : Stored(s, added')
  BY SMTT(30) DEF RouteInv, Kept, Stored, Row
<1>2. \A s, t \in stops' : After(s, t)
  BY SMTT(30) DEF RouteInv, Kept, After
<1>3. ASSUME NEW q \in Req, Inserting(q)'
      PROVE  /\ Stored(req'[q].arg, added')
             /\ \A s \in stops' : /\ s.id # req'[q].arg.id
                                  /\ req'[q].arg.id \notin s.older
                                  /\ After(s, req'[q].arg)
             /\ \A p \in Req : Inserting(p)' =>
                  /\ req'[q].arg.id \notin req'[p].arg.older
                  /\ p # q => req'[p].arg.id # req'[q].arg.id
  BY SMTT(30), <1>3 DEF RouteInv, Kept, After
<1> QED
  BY <1>1, <1>2, <1>3 DEF RouteInv

\* The same for the step of one request.
LEMMA QuietMove ==
  ASSUME RouteInv, Kept, added' = added, NEW q \in Req, NEW pc, NEW arg,
         pc # "insert", Moved(q, pc, arg)
  PROVE  RouteInv'
<1>1. \A p \in Req : Inserting(p)' => Inserting(p) /\ req'[p].arg = req[p].arg
  BY DEF Moved, Inserting
<1> QED
  BY <1>1, QuietStep DEF Moved

LEMMA SubsetKept ==
  ASSUME RouteInv, stops' \subseteq stops
  PROVE  Kept
  BY DEF RouteInv, Kept, Stored

----------------------------------------------------------------------------
(* AddStop *)

LEMMA SnapshotStep ==
  ASSUME RouteInv, NEW q \in Req, NEW label \in OptLabel, AddStopSnapshot(q, label)
  PROVE  RouteInv'
<1> DEFINE new == [id |-> added + 1, position |-> NextPosition, label |-> label,
                   older |-> {s.id : s \in stops}]
<1>1. /\ stops' = stops /\ added' = added + 1 /\ added \in Nat
      /\ Moved(q, "insert", new)
  BY BeginMoves DEF AddStopSnapshot, RouteInv
<1>2. /\ NextPosition \in Nat /\ NextPosition < added + 1
      /\ \A s \in stops : s.position < NextPosition
  <2> DEFINE P == {s.position : s \in stops}
  <2>1. P \in SUBSET Nat /\ \A x \in P : x < added
    BY DEF RouteInv, Stored, Row
  <2>2. CASE stops = {}
    BY SMTT(30), <1>1, <2>2 DEF NextPosition
  <2>3. CASE stops # {}
    <3>1. P # {}
      BY <2>3
    <3>2. Max(P) \in P /\ \A x \in P : x <= Max(P)
      BY <1>1, <2>1, <3>1, MaxExists
    <3>3. NextPosition = Max(P) + 1
      BY <2>3 DEF NextPosition
    <3> DEFINE k == Max(P)
    <3> HIDE DEF P, k
    <3>4. k \in Nat /\ k < added /\ \A x \in P : x \in Nat /\ x <= k
      BY <2>1, <3>2 DEF k
    <3>5. NextPosition = k + 1
      BY <3>3 DEF k
    <3>6. NextPosition \in Nat /\ NextPosition < added + 1 /\ \A x \in P : x < NextPosition
      BY SMTT(30), <1>1, <3>4, <3>5
    <3> QED
      BY <3>6 DEF P
  <2> QED
    BY <2>2, <2>3
<1>3. Stored(new, added + 1) /\ new.id \notin new.older
  <2>1. new.older \in SUBSET Nat /\ \A i \in new.older : i <= added
    BY DEF RouteInv, Stored, Row
  <2>2. new \in Row
    BY SMTT(30), <1>1, <1>2, <2>1 DEF Row
  <2>3. new.id = added + 1 /\ new.position = NextPosition
    OBVIOUS
  <2>4. new.id <= added + 1 /\ new.position < added + 1
    BY SMTT(30), <1>1, <1>2, <2>3
  <2> HIDE DEF new
  <2>5. \A i \in new.older : i <= added + 1 /\ i # added + 1
    <3> TAKE i \in new.older
    <3>1. i \in Nat /\ i <= added
      BY <2>1
    <3> QED
      BY SMTT(30), <1>1, <3>1
  <2> QED
    BY <2>2, <2>3, <2>4, <2>5 DEF Stored
<1>4. \A s \in stops : /\ Stored(s, added) /\ Stored(s, added + 1)
                       /\ s.id # new.id /\ new.id \notin s.older /\ After(s, new)
  BY SMTT(30), <1>1, <1>2 DEF RouteInv, Stored, Row, After
<1>5. \A p \in Req \ {q} : Inserting(p) =>
        /\ Stored(req[p].arg, added + 1)
        /\ req[p].arg.id # new.id /\ new.id \notin req[p].arg.older
        /\ req[p].arg.id \notin new.older
  BY SMTT(30), <1>1 DEF RouteInv, Stored, Row
<1> HIDE DEF new
<1>6. \A p \in Req \ {q} : (Inserting(p)' <=> Inserting(p)) /\ req'[p].arg = req[p].arg
  BY <1>1 DEF Moved, Inserting
<1>7. req'[q].arg = new /\ ReqShape' /\ added' \in Nat
  BY SMTT(30), <1>1 DEF Moved
<1>8. ASSUME NEW p \in Req, Inserting(p)'
      PROVE  /\ Stored(req'[p].arg, added')
             /\ \A s \in stops' : /\ s.id # req'[p].arg.id
                                  /\ req'[p].arg.id \notin s.older
                                  /\ After(s, req'[p].arg)
             /\ \A r \in Req : Inserting(r)' =>
                  /\ req'[p].arg.id \notin req'[r].arg.older
                  /\ r # p => req'[r].arg.id # req'[p].arg.id
  <2>1. CASE p = q
    BY <1>1, <1>3, <1>4, <1>5, <1>6, <1>7, <2>1
  <2>2. CASE p # q
    BY SMTT(30), <1>1, <1>5, <1>6, <1>7, <1>8, <2>2 DEF RouteInv
  <2> QED
    BY <2>1, <2>2
<1>9. /\ \A s \in stops' : Stored(s, added')
      /\ \A s, t \in stops' : After(s, t)
  BY <1>1, <1>4 DEF RouteInv
<1> QED
  BY <1>7, <1>8, <1>9 DEF RouteInv

LEMMA InsertStep ==
  ASSUME RouteInv, NEW q \in Req, AddStopInsert(q)
  PROVE  RouteInv'
<1> DEFINE new == req[q].arg
<1>1. /\ Inserting(q) /\ stops' = stops \cup {new} /\ added' = added
      /\ Moved(q, "stopswritten", Nil)
  BY GotoMoves DEF AddStopInsert, At, Inserting, RouteInv
<1>2. /\ Stored(new, added)
      /\ \A s \in stops : s.id # new.id /\ new.id \notin s.older /\ After(s, new)
      /\ \A p \in Req \ {q} : Inserting(p) =>
           req[p].arg.id # new.id /\ new.id \notin req[p].arg.older
  BY <1>1 DEF RouteInv
<1>3. \A p \in Req : Inserting(p) => req[p].arg.id \notin new.older
  BY <1>1 DEF RouteInv
<1> HIDE DEF new
<1>4. After(new, new) /\ \A s \in stops : After(new, s)
  BY <1>1, <1>2, <1>3 DEF After, new
<1>5. \A p \in Req : Inserting(p)' => p # q /\ Inserting(p) /\ req'[p].arg = req[p].arg
  BY <1>1 DEF Moved, Inserting
<1>6. /\ \A s \in stops' : Stored(s, added')
      /\ \A s, t \in stops' : After(s, t)
  BY <1>1, <1>2, <1>4 DEF RouteInv
<1>7. ASSUME NEW p \in Req, Inserting(p)'
      PROVE  /\ Stored(req'[p].arg, added')
             /\ \A s \in stops' : /\ s.id # req'[p].arg.id
                                  /\ req'[p].arg.id \notin s.older
                                  /\ After(s, req'[p].arg)
             /\ \A r \in Req : Inserting(r)' =>
                  /\ req'[p].arg.id \notin req'[r].arg.older
                  /\ r # p => req'[r].arg.id # req'[p].arg.id
  <2>1. p # q /\ Inserting(p) /\ req'[p].arg = req[p].arg
    BY <1>5, <1>7
  <2>2. /\ new.id # req[p].arg.id /\ req[p].arg.id \notin new.older
        /\ After(new, req[p].arg)
    BY <1>2, <1>3, <2>1 DEF After
  <2> QED
    BY <1>1, <1>5, <2>1, <2>2 DEF RouteInv
<1> QED
  BY <1>1, <1>6, <1>7 DEF RouteInv, Moved

----------------------------------------------------------------------------
(* The other actions *)

LEMMA LabelStep ==
  ASSUME RouteInv, NEW q \in Req, NEW st \in stops, NEW label \in OptLabel,
         UpdateStopLabel(q, st, label)
  PROVE  RouteInv'
<1> DEFINE new == [st EXCEPT !.label = label]
<1>1. /\ stops' = (stops \ {st}) \cup {new} /\ added' = added
      /\ Moved(q, "stopswritten", Nil)
  BY BeginMoves DEF UpdateStopLabel, RouteInv
<1>2. st \in Row
  BY DEF RouteInv, Stored
<1>3. new \in Row /\ new.id = st.id /\ new.position = st.position /\ new.older = st.older
  BY <1>2 DEF Row
<1>4. Kept
  BY <1>1, <1>3 DEF Kept, RouteInv, Stored
<1> QED
  BY <1>1, <1>4, QuietMove

LEMMA ArriveStep ==
  ASSUME RouteInv, NEW q \in Req, Arrive(q)
  PROVE  RouteInv'
<1> USE BeginMoves, SubsetKept, QuietMove
<1>1. ASSUME NEW n \in Text, UpdateName(q, n) PROVE RouteInv'
  <2>1. Moved(q, "renamed", n) /\ Kept /\ added' = added
    BY <1>1 DEF UpdateName, RouteInv
  <2> QED
    BY <2>1
<1>2. ASSUME NEW d \in Destination, SetDestination(q, d) PROVE RouteInv'
  <2>1. Moved(q, "destwritten", d) /\ Kept /\ added' = added
    BY <1>2 DEF SetDestination, RouteInv
  <2> QED
    BY <2>1
<1>3. ASSUME NEW meta \in OptText, UpdateDestinationMeta(q, meta) PROVE RouteInv'
  <2>1. Moved(q, "destwritten", dest') /\ Kept /\ added' = added
    BY <1>3 DEF UpdateDestinationMeta, RouteInv
  <2> QED
    BY <2>1
<1>4. CASE ClearDestination(q)
  <2>1. Moved(q, "destcleared", Nil) /\ Kept /\ added' = added
    BY <1>4 DEF ClearDestination, RouteInv
  <2> QED
    BY <2>1
<1>5. CASE ClearStops(q)
  <2>1. Moved(q, "stopswritten", Nil) /\ Kept /\ added' = added
    BY <1>5 DEF ClearStops, RouteInv
  <2> QED
    BY <2>1
<1>6. ASSUME NEW st \in stops, RemoveStop(q, st) PROVE RouteInv'
  <2>1. Moved(q, "stopswritten", Nil) /\ Kept /\ added' = added
    BY <1>6 DEF RemoveStop, RouteInv
  <2> QED
    BY <2>1
<1> QED
  BY <1>1, <1>2, <1>3, <1>4, <1>5, <1>6, SnapshotStep, LabelStep DEF Arrive

LEMMA ServeStep ==
  ASSUME RouteInv, NEW q \in Req, Serve(q)
  PROVE  RouteInv'
<1> USE GotoMoves, FinishMoves, SubsetKept, QuietMove
<1>1. ASSUME NEW pc, NEW v, Broadcast(q, pc, v) PROVE RouteInv'
  <2>1. Moved(q, "idle", Nil) /\ Kept /\ added' = added
    BY <1>1 DEF Broadcast, tables, RouteInv
  <2> QED
    BY <2>1
<1>2. CASE ClearRouteStops(q)
  <2>1. Moved(q, "routecleared", Nil) /\ Kept /\ added' = added
    BY <1>2 DEF ClearRouteStops, RouteInv
  <2> QED
    BY <2>1
<1>3. CASE BroadcastNoDestination(q)
  <2>1. Moved(q, "stopsread", <<>>) /\ Kept /\ added' = added
    BY <1>3 DEF BroadcastNoDestination, tables, RouteInv
  <2> QED
    BY <2>1
<1>4. CASE ReadStops(q)
  <2>1. Moved(q, "stopsread", ListStops) /\ Kept /\ added' = added
    BY <1>4 DEF ReadStops, tables, RouteInv
  <2> QED
    BY <2>1
<1>5. CASE StatementFails(q)
  <2>1. Moved(q, "idle", Nil) /\ Kept /\ added' = added
    BY <1>5 DEF StatementFails, tables, RouteInv
  <2> QED
    BY SMTT(30), <2>1
<1>6. CASE BroadcastRoomRenamed(q)
  BY <1>1, <1>6 DEF BroadcastRoomRenamed
<1>7. CASE BroadcastDestination(q)
  BY <1>1, <1>7 DEF BroadcastDestination
<1>8. CASE BroadcastStops(q)
  BY <1>1, <1>8 DEF BroadcastStops
<1> QED
  BY <1>2, <1>3, <1>4, <1>5, <1>6, <1>7, <1>8, InsertStep DEF Serve

LEMMA RouteInvInit == Init => RouteInv
  BY SMTT(30) DEF Init, RouteInv, ReqShape, Idle, Inserting

LEMMA RouteInvStep == RouteInv /\ [Next]_vars => RouteInv'
<1> SUFFICES ASSUME RouteInv, [Next]_vars PROVE RouteInv'
  OBVIOUS
<1>1. CASE EndRoom \/ UNCHANGED vars
  <2>1. req' = req /\ stops' = stops /\ added' = added
    BY <1>1 DEF EndRoom, vars, tables
  <2>2. Kept
    BY <2>1, SubsetKept
  <2> QED
    BY <2>1, <2>2, QuietStep DEF RouteInv, ReqShape, Inserting
<1> QED
  BY <1>1, ArriveStep, ServeStep DEF Next

\* A stop comes later in the route than every stop in the table when its
\* AddStop began: MAX(position) + 1 is computed on that table, and a position
\* given out since, even one freed by a removal, went to a stop it did not see.
THEOREM AppendsAfter == Spec => []AppendedAfterOlderStops
<1>1. RouteInv => AppendedAfterOlderStops
  BY DEF RouteInv, AppendedAfterOlderStops, After
<1> QED
  BY <1>1, RouteInvInit, RouteInvStep, PTL DEF Spec

----------------------------------------------------------------------------
(* Types, and what ListStops returns *)

StopRow == [id : 1..added, position : 0..(MaxStops - 1), label : OptLabel,
            older : SUBSET (1..added)]

Listed == [id : 1..added, label : OptLabel]

\* What a request carries to its next statement or its broadcast.
ArgOK(q) ==
  /\ At(q, "renamed") => req[q].arg \in OptText
  /\ At(q, "destwritten") => req[q].arg \in Destination
  /\ At(q, "insert") => req[q].arg \in StopRow
  /\ At(q, "stopsread") => req[q].arg \in Seq(Listed)

\* The table is finite and its ids are unique, so that its order is total.
RouteTypes ==
  /\ TypeOK
  /\ view = [name |-> view.name, dest |-> view.dest, stops |-> view.stops]
  /\ IsFiniteSet(stops)
  /\ \A s, t \in stops : s.id = t.id => s = t
  /\ \A q \in Req : ArgOK(q)

Before(s) == {t \in stops : RoutePrecedes(t, s)}

LEMMA RouteOrdered ==
  ASSUME RouteTypes
  PROVE  Ordered(stops, [s \in stops |-> Before(s)])
<1>1. \A s \in stops : s.id \in Nat /\ s.position \in Nat
  <2>1. MaxStops \in Nat /\ added \in Nat
    BY SMTT(30), RouteAssumption DEF RouteTypes, TypeOK
  <2>2. \A s \in stops : s.id \in 1..added /\ s.position \in 0..(MaxStops - 1)
    BY DEF RouteTypes, TypeOK
  <2> QED
    BY SMTT(30), <2>1, <2>2
<1>2. \A s, t \in stops : s # t => RoutePrecedes(s, t) \/ RoutePrecedes(t, s)
  <2>1. \A s, t \in stops : s # t => s.id # t.id
    BY DEF RouteTypes
  <2> QED
    BY SMTT(30), <1>1, <2>1 DEF RoutePrecedes
<1>3. \A s \in stops : ~ RoutePrecedes(s, s)
  BY SMTT(30), <1>1 DEF RoutePrecedes
<1>4. \A s, t, u \in stops : RoutePrecedes(s, t) /\ RoutePrecedes(t, u) => RoutePrecedes(s, u)
  BY SMTT(30), <1>1 DEF RoutePrecedes
<1> QED
  BY <1>2, <1>3, <1>4 DEF Ordered, Before

\* ListStops returns one entry for each stop, each of them of a stop.
LEMMA ListStopsType ==
  ASSUME RouteTypes
  PROVE  ListStops \in Seq(Listed)
<1> DEFINE below == [s \in stops |-> Before(s)]
           n == Cardinality(stops)
           row(i) == CHOOSE s \in stops : Cardinality({t \in stops : RoutePrecedes(t, s)}) = i - 1
<1>1. IsFiniteSet(stops) /\ Ordered(stops, below)
  BY RouteOrdered DEF RouteTypes
<1>2. n \in Nat
  BY <1>1, FS_CardinalityType
<1>3. ASSUME NEW i \in 1..n PROVE row(i) \in stops
  <2>1. \E s \in stops : Cardinality(below[s]) = i - 1
    BY <1>1, RankExists
  <2>2. \E s \in stops : Cardinality({t \in stops : RoutePrecedes(t, s)}) = i - 1
    BY <2>1 DEF Before
  <2> QED
    BY <2>2
<1>4. \A s \in stops : Shown(s) \in Listed
  BY DEF RouteTypes, TypeOK, Shown, Listed
<1>5. ListStops = [i \in 1..n |-> Shown(row(i))]
  BY DEF ListStops
<1> HIDE DEF row, n
<1>6. ListStops \in [1..n -> Listed]
  BY <1>3, <1>4, <1>5
<1> QED
  BY SMTT(30), <1>2, <1>6

LEMMA NoStopsListed ==
  ASSUME stops = {}
  PROVE  ListStops = <<>>
<1>1. Cardinality(stops) = 0
  BY FS_EmptySet
<1> QED
  BY SMTT(30), <1>1 DEF ListStops

----------------------------------------------------------------------------
(* The types are kept *)

Pcs == {"idle", "renamed", "destwritten", "destcleared", "routecleared", "insert",
        "stopswritten", "stopsread"}

\* More INSERTs started: what was well typed still is.
LEMMA TypesGrow ==
  ASSUME RouteTypes, added' = added \/ added' = added + 1
  PROVE  /\ StopRow \subseteq StopRow'
         /\ Seq(Listed) \subseteq Seq(Listed')
<1>1. added \in Nat /\ MaxStops \in Nat
  BY SMTT(30), RouteAssumption DEF RouteTypes, TypeOK
<1>2. 1..added \subseteq 1..added'
  BY SMTT(30), <1>1
<1>3. SUBSET (1..added) \subseteq SUBSET (1..added')
  BY <1>2
<1>4. StopRow \subseteq StopRow'
  BY <1>2, <1>3 DEF StopRow
<1>5. Listed \subseteq Listed'
  BY <1>2 DEF Listed
<1> QED
  BY <1>4, <1>5, SeqMonotonic

\* The requests stay well typed when one of them moves.
LEMMA ArgsKept ==
  ASSUME RouteTypes, NEW q \in Req, NEW pc \in Pcs, NEW arg, Moved(q, pc, arg), ArgOK(q)',
         added' = added \/ added' = added + 1
  PROVE  \A p \in Req : ArgOK(p)' /\ req'[p].pc \in Pcs
<1>1. CASE added' = added
  <2>1. StopRow' = StopRow /\ Listed' = Listed
    BY <1>1 DEF StopRow, Listed
  <2> QED
    BY <2>1 DEF Moved, ArgOK, At, RouteTypes, TypeOK, Pcs
<1>2. CASE added' = added + 1
  <2> TAKE p \in Req
  <2>1. CASE p = q
    BY <2>1 DEF Moved
  <2>2. CASE p # q
    <3>1. req'[p].pc = req[p].pc /\ req'[p].arg = req[p].arg /\ ArgOK(p)
      BY <2>2 DEF Moved, RouteTypes
    <3>2. req[p].pc \in Pcs
      BY DEF RouteTypes, TypeOK, Pcs
    <3> QED
      BY <3>1, <3>2, TypesGrow DEF ArgOK, At
  <2> QED
    BY <2>1, <2>2
<1> QED
  BY <1>1, <1>2

\* A step that leaves the stops and the client alone.
LEMMA TextTypes ==
  ASSUME RouteTypes, ended' \in BOOLEAN, name' \in OptText,
         dest' \in [pin : OptPin, meta : OptText], UNCHANGED <<stops, added, view>>,
         \A p \in Req : ArgOK(p)' /\ req'[p].pc \in Pcs
  PROVE  RouteTypes'
  BY DEF RouteTypes, TypeOK, Pcs

\* A step that changes only the stops.
LEMMA StopTypes ==
  ASSUME RouteTypes, UNCHANGED <<ended, name, dest, added, view>>,
         IsFiniteSet(stops'), \A s \in stops' : s \in StopRow,
         \A s, t \in stops' : s.id = t.id => s = t,
         \A p \in Req : ArgOK(p)' /\ req'[p].pc \in Pcs
  PROVE  RouteTypes'
  BY DEF RouteTypes, TypeOK, Pcs, StopRow

\* A step that changes only what the client shows.
LEMMA ViewTypes ==
  ASSUME RouteTypes, UNCHANGED tables,
         NEW n \in OptText, NEW d \in Destination \cup {Nil}, NEW l \in Seq(Listed),
         view' = [name |-> n, dest |-> d, stops |-> l],
         \A p \in Req : ArgOK(p)' /\ req'[p].pc \in Pcs
  PROVE  RouteTypes'
  BY DEF RouteTypes, TypeOK, Pcs, tables, Listed

LEMMA RowsInStopRow ==
  ASSUME RouteTypes
  PROVE  \A s \in stops : s \in StopRow
  BY DEF RouteTypes, TypeOK, StopRow

LEMMA ArriveTypes ==
  ASSUME RouteInv, RouteTypes, NEW q \in Req, Arrive(q)
  PROVE  RouteTypes'
<1>0. ReqShape /\ dest \in [pin : OptPin, meta : OptText] /\ name \in OptText /\ ended \in BOOLEAN
  BY DEF RouteInv, RouteTypes, TypeOK
<1>1. ASSUME NEW n \in Text, UpdateName(q, n) PROVE RouteTypes'
  <2>1. Moved(q, "renamed", n) /\ name' = n /\ UNCHANGED <<ended, dest, stops, added, view>>
    BY <1>0, <1>1, BeginMoves DEF UpdateName
  <2>2. n \in OptText /\ ArgOK(q)'
    BY <2>1 DEF Moved, ArgOK, At, OptText
  <2>3. \A p \in Req : ArgOK(p)' /\ req'[p].pc \in Pcs
    BY <2>1, <2>2, ArgsKept DEF Pcs
  <2> QED
    BY <1>0, <2>1, <2>2, <2>3, TextTypes
<1>2. ASSUME NEW d \in Destination, dest' = d, Begin(q, "destwritten", d),
             UNCHANGED <<ended, name, stops, added, view>>
      PROVE  RouteTypes'
  <2>1. Moved(q, "destwritten", d)
    BY <1>0, <1>2, BeginMoves
  <2>2. ArgOK(q)' /\ dest' \in [pin : OptPin, meta : OptText]
    BY <1>2, <2>1 DEF Moved, ArgOK, At, Destination, OptPin
  <2>3. \A p \in Req : ArgOK(p)' /\ req'[p].pc \in Pcs
    BY <1>2, <2>1, <2>2, ArgsKept DEF Pcs
  <2> QED
    BY <1>0, <1>2, <2>2, <2>3, TextTypes
<1>3. ASSUME NEW meta \in OptText, UpdateDestinationMeta(q, meta) PROVE RouteTypes'
  <2>1. dest' \in Destination
    BY <1>0, <1>3 DEF UpdateDestinationMeta, Destination, OptPin
  <2> QED
    BY <1>2, <1>3, <2>1 DEF UpdateDestinationMeta
<1>4. CASE ClearDestination(q)
  <2>1. /\ Moved(q, "destcleared", Nil)
        /\ UNCHANGED <<ended, name, stops, added, view>>
    BY <1>0, <1>4, BeginMoves DEF ClearDestination
  <2>2. ArgOK(q)' /\ dest' \in [pin : OptPin, meta : OptText]
    BY <1>0, <1>4, <2>1 DEF Moved, ArgOK, At, ClearDestination, OptPin
  <2>3. \A p \in Req : ArgOK(p)' /\ req'[p].pc \in Pcs
    BY <2>1, <2>2, ArgsKept DEF Pcs
  <2> QED
    BY <1>0, <2>1, <2>2, <2>3, TextTypes
<1>5. ASSUME Begin(q, "stopswritten", Nil), UNCHANGED <<ended, name, dest, added, view>>,
             IsFiniteSet(stops'), \A s \in stops' : s \in StopRow,
             \A s, t \in stops' : s.id = t.id => s = t
      PROVE  RouteTypes'
  <2>1. Moved(q, "stopswritten", Nil)
    BY <1>0, <1>5, BeginMoves
  <2>2. ArgOK(q)'
    BY <2>1 DEF Moved, ArgOK, At
  <2>3. \A p \in Req : ArgOK(p)' /\ req'[p].pc \in Pcs
    BY <1>5, <2>1, <2>2, ArgsKept DEF Pcs
  <2> QED
    BY <1>5, <2>3, StopTypes
<1>6. CASE ClearStops(q)
  BY <1>5, <1>6, FS_EmptySet DEF ClearStops
<1>7. ASSUME NEW st \in stops, RemoveStop(q, st) PROVE RouteTypes'
  <2>1. IsFiniteSet(stops \ {st})
    BY FS_RemoveElement DEF RouteTypes
  <2> QED
    BY <1>5, <1>7, <2>1, RowsInStopRow DEF RemoveStop, RouteTypes
<1>8. ASSUME NEW st \in stops, NEW label \in OptLabel, UpdateStopLabel(q, st, label)
      PROVE  RouteTypes'
  <2> DEFINE new == [st EXCEPT !.label = label]
  <2>1. IsFiniteSet((stops \ {st}) \cup {new})
    BY FS_RemoveElement, FS_AddElement DEF RouteTypes
  <2>2. st \in StopRow
    BY RowsInStopRow
  <2>3. new \in StopRow /\ new.id = st.id
    BY <2>2 DEF StopRow
  <2> HIDE DEF new
  <2>4. stops' = (stops \ {st}) \cup {new}
    BY <1>8 DEF UpdateStopLabel, new
  <2>5. \A s, t \in stops' : s.id = t.id => s = t
    BY <2>3, <2>4 DEF RouteTypes
  <2> QED
    BY <1>5, <1>8, <2>1, <2>3, <2>4, <2>5, RowsInStopRow DEF UpdateStopLabel
<1>9. ASSUME NEW label \in OptLabel, AddStopSnapshot(q, label) PROVE RouteTypes'
  <2> DEFINE new == [id |-> added + 1, position |-> NextPosition, label |-> label,
                     older |-> {s.id : s \in stops}]
  <2>1. /\ added' = added + 1 /\ added < MaxStops
        /\ UNCHANGED <<ended, name, dest, stops, view>> /\ Moved(q, "insert", new)
    BY <1>0, <1>9, BeginMoves DEF AddStopSnapshot
  <2>2. RouteInv'
    BY <1>9, SnapshotStep
  <2>3. added \in Nat /\ MaxStops \in Nat /\ added' \in 0..MaxStops
    BY SMTT(30), <2>1, RouteAssumption DEF RouteTypes, TypeOK
  <2>4. new \in StopRow'
    <3>1. Inserting(q)' /\ req'[q].arg = new
      BY <2>1 DEF Moved, Inserting
    <3>2. Stored(new, added')
      BY <2>2, <3>1 DEF RouteInv
    <3>3. NextPosition \in 0..(MaxStops - 1)
      BY SMTT(30), <2>1, <2>3, <3>2 DEF Stored, Row
    <3>4. {s.id : s \in stops} \subseteq 1..added'
      BY SMTT(30), <2>1, <2>3 DEF RouteTypes, TypeOK
    <3>5. added + 1 \in 1..added'
      BY SMTT(30), <2>1, <2>3
    <3> QED
      BY <3>3, <3>4, <3>5 DEF StopRow
  <2> HIDE DEF new
  <2>5. ArgOK(q)'
    BY <2>1, <2>4 DEF Moved, ArgOK, At
  <2>6. \A p \in Req : ArgOK(p)' /\ req'[p].pc \in Pcs
    BY <2>1, <2>5, ArgsKept DEF Pcs
  <2>7. \A s \in stops' : s \in StopRow'
    BY <2>1, RowsInStopRow, TypesGrow
  <2>8. view'.stops \in Seq(Listed')
    BY <2>1, TypesGrow DEF RouteTypes, TypeOK, Listed
  <2> QED
    BY <2>1, <2>3, <2>6, <2>7, <2>8 DEF RouteTypes, TypeOK, Pcs, StopRow, Listed
<1> QED
  BY <1>1, <1>2, <1>3, <1>4, <1>6, <1>7, <1>8, <1>9 DEF Arrive, SetDestination

LEMMA ServeTypes ==
  ASSUME RouteInv, RouteTypes, NEW q \in Req, Serve(q)
  PROVE  RouteTypes'
<1>0. /\ ReqShape /\ ArgOK(q)
      /\ view = [name |-> view.name, dest |-> view.dest, stops |-> view.stops]
      /\ view.name \in OptText /\ view.dest \in Destination \cup {Nil}
      /\ view.stops \in Seq(Listed)
  BY DEF RouteInv, RouteTypes, TypeOK, Listed
<1>1. ASSUME Finish(q), added' = added PROVE \A p \in Req : ArgOK(p)' /\ req'[p].pc \in Pcs
  <2>1. Moved(q, "idle", Nil)
    BY <1>0, <1>1, FinishMoves
  <2>2. ArgOK(q)'
    BY <2>1 DEF Moved, ArgOK, At
  <2> QED
    BY <1>1, <2>1, <2>2, ArgsKept DEF Pcs
<1>2. CASE BroadcastRoomRenamed(q)
  <2>1. /\ Finish(q) /\ UNCHANGED tables /\ added' = added /\ req[q].arg \in OptText
        /\ view' = [view EXCEPT !.name = req[q].arg]
    BY <1>0, <1>2 DEF BroadcastRoomRenamed, Broadcast, ArgOK, tables
  <2>2. view' = [name |-> req[q].arg, dest |-> view.dest, stops |-> view.stops]
    BY <1>0, <2>1
  <2> QED
    BY <1>0, <1>1, <2>1, <2>2, ViewTypes
<1>3. CASE BroadcastDestination(q)
  <2>1. /\ Finish(q) /\ UNCHANGED tables /\ added' = added /\ req[q].arg \in Destination
        /\ view' = [view EXCEPT !.dest = req[q].arg]
    BY <1>0, <1>3 DEF BroadcastDestination, Broadcast, ArgOK, tables
  <2>2. view' = [name |-> view.name, dest |-> req[q].arg, stops |-> view.stops]
    BY <1>0, <2>1
  <2> QED
    BY <1>0, <1>1, <2>1, <2>2, ViewTypes
<1>4. CASE BroadcastStops(q)
  <2>1. /\ Finish(q) /\ UNCHANGED tables /\ added' = added /\ req[q].arg \in Seq(Listed)
        /\ view' = [view EXCEPT !.stops = req[q].arg]
    BY <1>0, <1>4 DEF BroadcastStops, Broadcast, ArgOK, tables
  <2>2. view' = [name |-> view.name, dest |-> view.dest, stops |-> req[q].arg]
    BY <1>0, <2>1
  <2> QED
    BY <1>0, <1>1, <2>1, <2>2, ViewTypes
<1>5. CASE StatementFails(q)
  <2>1. Finish(q) /\ UNCHANGED <<tables, view>> /\ added' = added
    BY <1>5 DEF StatementFails, tables
  <2> QED
    BY <1>0, <1>1, <2>1, ViewTypes
<1>6. ASSUME NEW pc \in {"routecleared", "stopswritten"}, Goto(q, pc, Nil), added' = added
      PROVE  \A p \in Req : ArgOK(p)' /\ req'[p].pc \in Pcs
  <2>1. Moved(q, pc, Nil)
    BY <1>0, <1>6, GotoMoves
  <2>2. ArgOK(q)' /\ pc \in Pcs
    BY <2>1 DEF Moved, ArgOK, At, Pcs
  <2> QED
    BY <1>6, <2>1, <2>2, ArgsKept
<1>7. ASSUME NEW l \in Seq(Listed), Goto(q, "stopsread", l), added' = added
      PROVE  \A p \in Req : ArgOK(p)' /\ req'[p].pc \in Pcs
  <2>1. Moved(q, "stopsread", l) /\ Listed' = Listed
    BY <1>0, <1>7, GotoMoves DEF Listed
  <2>2. ArgOK(q)'
    BY <2>1 DEF Moved, ArgOK, At
  <2> QED
    BY <1>7, <2>1, <2>2, ArgsKept DEF Pcs
<1>8. CASE ClearRouteStops(q)
  <2>1. \A p \in Req : ArgOK(p)' /\ req'[p].pc \in Pcs
    BY <1>6, <1>8 DEF ClearRouteStops
  <2> QED
    BY <1>8, <2>1, StopTypes, FS_EmptySet DEF ClearRouteStops
<1>9. CASE AddStopInsert(q)
  <2> DEFINE new == req[q].arg
  <2>1. /\ stops' = stops \cup {new} /\ new \in StopRow /\ Inserting(q)
        /\ UNCHANGED <<ended, name, dest, added, view>>
    BY <1>0, <1>9 DEF AddStopInsert, ArgOK, At, Inserting
  <2>2. \A p \in Req : ArgOK(p)' /\ req'[p].pc \in Pcs
    BY <1>6, <1>9 DEF AddStopInsert
  <2>3. \A s \in stops : s.id # new.id
    BY <2>1 DEF RouteInv
  <2>4. IsFiniteSet(stops')
    BY <2>1, FS_AddElement DEF RouteTypes
  <2> HIDE DEF new
  <2>5. \A s, t \in stops' : s.id = t.id => s = t
    BY <2>1, <2>3 DEF RouteTypes
  <2> QED
    BY <2>1, <2>2, <2>4, <2>5, RowsInStopRow, StopTypes
<1>10. CASE ReadStops(q)
  <2>1. \A p \in Req : ArgOK(p)' /\ req'[p].pc \in Pcs
    BY <1>7, <1>10, ListStopsType DEF ReadStops, tables
  <2>2. UNCHANGED <<tables, view>>
    BY <1>10 DEF ReadStops
  <2> QED
    BY <1>0, <2>1, <2>2, ViewTypes
<1>11. CASE BroadcastNoDestination(q)
  <2>1. <<>> \in Seq(Listed)
    BY EmptySeq
  <2>2. \A p \in Req : ArgOK(p)' /\ req'[p].pc \in Pcs
    BY <1>7, <1>11, <2>1 DEF BroadcastNoDestination, tables
  <2>3. UNCHANGED tables /\ view' = [name |-> view.name, dest |-> Nil, stops |-> view.stops]
    BY <1>0, <1>11 DEF BroadcastNoDestination
  <2> QED
    BY <1>0, <2>2, <2>3, ViewTypes
<1> QED
  BY <1>2, <1>3, <1>4, <1>5, <1>8, <1>9, <1>10, <1>11 DEF Serve

LEMMA RouteTypesInit == Init => RouteTypes
<1> SUFFICES ASSUME Init PROVE RouteTypes
  OBVIOUS
<1>1. view.stops \in Seq(Listed)
  BY EmptySeq DEF Init
<1>2. IsFiniteSet(stops)
  BY FS_EmptySet DEF Init
<1>3. /\ ended \in BOOLEAN /\ name \in OptText
      /\ dest \in [pin : OptPin, meta : OptText] /\ added \in 0..MaxStops
  <2>1. Nil \in OptText /\ Nil \in OptPin
    BY DEF OptText, OptPin
  <2>2. dest \in [pin : OptPin, meta : OptText]
    BY <2>1 DEF Init
  <2>3. added \in 0..MaxStops
    BY SMTT(30), RouteAssumption DEF Init
  <2> QED
    BY <2>1, <2>2, <2>3 DEF Init
<1>4. view.name \in OptText /\ view.dest \in Destination \cup {Nil}
  BY DEF Init, OptText
<1>5. stops = {} /\ \A q \in Req : req[q].pc = "idle"
  BY DEF Init, Idle
<1>6. TypeOK
  BY <1>1, <1>3, <1>4, <1>5 DEF TypeOK, Listed
<1> QED
  BY <1>2, <1>5, <1>6 DEF Init, RouteTypes, ArgOK, At

LEMMA RouteTypesStep == RouteInv /\ RouteTypes /\ [Next]_vars => RouteTypes'
<1> SUFFICES ASSUME RouteInv, RouteTypes, [Next]_vars PROVE RouteTypes'
  OBVIOUS
<1>1. CASE EndRoom \/ UNCHANGED vars
  <2>1. UNCHANGED <<name, dest, stops, added, view, req>> /\ ended' \in BOOLEAN
    BY <1>1 DEF EndRoom, vars, tables, RouteTypes, TypeOK
  <2>2. StopRow' = StopRow /\ Listed' = Listed
    BY <2>1 DEF StopRow, Listed
  <2>3. \A p \in Req : ArgOK(p)' /\ req'[p].pc \in Pcs
    BY <2>1, <2>2 DEF RouteTypes, TypeOK, ArgOK, At, Pcs
  <2> QED
    BY <2>1, <2>3, TextTypes DEF RouteTypes, TypeOK
<1> QED
  BY <1>1, ArriveTypes, ServeTypes DEF Next

\* The tables and the client's copy stay well formed, whatever requests are
\* served at the same time; in particular MAX(position) + 1 never exceeds the
\* number of stops ever added.
THEOREM RouteTypeCorrect == Spec => []TypeOK
<1>1. RouteTypes => TypeOK
  BY DEF RouteTypes
<1> QED
  BY <1>1, RouteInvInit, RouteInvStep, RouteTypesInit, RouteTypesStep, PTL DEF Spec

----------------------------------------------------------------------------
(* Edits heal *)

\* What q carries, or is about to broadcast, is what the tables hold.
Current(q) ==
  /\ At(q, "renamed") => req[q].arg = name
  /\ At(q, "destwritten") => req[q].arg = GetDestination
  /\ At(q, "destcleared") => dest.pin = Nil
  /\ At(q, "routecleared") => dest.pin = Nil /\ stops = {}
  /\ At(q, "stopsread") => req[q].arg = ListStops

\* A request that was never disturbed is the only one, and is up to date.
AloneInv ==
  \A q \in Req : InFlight(q) /\ req[q].alone =>
    (\A p \in Req \ {q} : ~InFlight(p)) /\ Current(q)

LEMMA BeginDisturbs ==
  ASSUME ReqShape, NEW q \in Req, NEW pc, NEW arg, Begin(q, pc, arg)
  PROVE  /\ req'[q].alone => \A p \in Req : ~InFlight(p)
         /\ \A p \in Req \ {q} : InFlight(p) => ~ req'[p].alone
<1> DEFINE alone == \A p \in Req : ~InFlight(p)
           next(p) == IF p = q THEN [pc |-> pc, arg |-> arg, alone |-> alone]
                      ELSE IF InFlight(p) THEN [req[p] EXCEPT !.alone = FALSE] ELSE req[p]
<1>1. req' = [p \in Req |-> next(p)]
  BY SMTT(30) DEF Begin
<1>2. next(q).alone = alone
  OBVIOUS
<1>3. ASSUME NEW p \in Req \ {q}, InFlight(p) PROVE next(p).alone = FALSE
  <2>1. req[p] = [pc |-> req[p].pc, arg |-> req[p].arg, alone |-> req[p].alone]
    BY DEF ReqShape
  <2>2. next(p) = [req[p] EXCEPT !.alone = FALSE]
    BY <1>3
  <2> QED
    BY <2>1, <2>2
<1> HIDE DEF next
<1> QED
  BY <1>1, <1>2, <1>3

LEMMA BeginKeepsAlone ==
  ASSUME ReqShape, AloneInv, NEW q \in Req, NEW pc, NEW arg, Begin(q, pc, arg),
         Current(q)'
  PROVE  AloneInv'
<1> SUFFICES ASSUME NEW p \in Req, InFlight(p)', req'[p].alone
             PROVE  (\A r \in Req \ {p} : ~InFlight(r)') /\ Current(p)'
  BY DEF AloneInv
<1>1. \A r \in Req \ {q} : InFlight(r)' <=> InFlight(r)
  BY BeginMoves DEF Moved, InFlight
<1>2. p = q
  BY <1>1, BeginDisturbs
<1> QED
  BY <1>1, <1>2, BeginDisturbs

LEMMA GotoKeepsAlone ==
  ASSUME ReqShape, AloneInv, NEW q \in Req, InFlight(q), NEW pc, NEW arg, Goto(q, pc, arg),
         req[q].alone /\ Current(q) => Current(q)'
  PROVE  AloneInv'
<1> SUFFICES ASSUME NEW p \in Req, InFlight(p)', req'[p].alone
             PROVE  (\A r \in Req \ {p} : ~InFlight(r)') /\ Current(p)'
  BY DEF AloneInv
<1>1. \A r \in Req \ {q} : InFlight(r)' <=> InFlight(r)
  BY GotoMoves DEF Moved, InFlight
<1>2. req'[p].alone = req[p].alone
  <2>1. \A r \in Req : req[r] = [pc |-> req[r].pc, arg |-> req[r].arg, alone |-> req[r].alone]
    BY DEF ReqShape
  <2>2. req = [r \in Req |-> req[r]]
    BY DEF ReqShape
  <2> QED
    BY SMTT(30), <2>1, <2>2 DEF Goto
<1>3. p = q
  BY <1>1, <1>2 DEF AloneInv
<1> QED
  BY <1>1, <1>2, <1>3 DEF AloneInv

LEMMA FinishKeepsAlone ==
  ASSUME ReqShape, AloneInv, NEW q \in Req, InFlight(q), Finish(q)
  PROVE  AloneInv'
<1> SUFFICES ASSUME NEW p \in Req, InFlight(p)', req'[p].alone
             PROVE  FALSE
  BY DEF AloneInv
<1>1. ~InFlight(q)' /\ \A r \in Req \ {q} : InFlight(r)' <=> InFlight(r)
  BY FinishMoves DEF Moved, InFlight
<1>2. p # q /\ req'[p] = req[p]
  BY <1>1 DEF Finish, ReqShape
<1> QED
  BY <1>1, <1>2 DEF AloneInv

LEMMA ArriveAlone ==
  ASSUME RouteInv, RouteTypes, AloneInv, NEW q \in Req, Arrive(q)
  PROVE  AloneInv'
<1>0. ReqShape /\ dest \in [pin : OptPin, meta : OptText]
  BY DEF RouteInv, RouteTypes, TypeOK
<1>1. ASSUME NEW pc \in {"stopswritten", "insert"}, NEW arg, Begin(q, pc, arg) PROVE AloneInv'
  <2>1. req'[q].pc = pc
    BY <1>0, <1>1, BeginMoves DEF Moved
  <2>2. Current(q)'
    BY <2>1 DEF Current, At
  <2> QED
    BY <1>0, <1>1, <2>2, BeginKeepsAlone
<1>2. ASSUME NEW n \in Text, UpdateName(q, n) PROVE AloneInv'
  <2>1. Begin(q, "renamed", n) /\ name' = n
    BY <1>2 DEF UpdateName
  <2>2. req'[q].pc = "renamed" /\ req'[q].arg = n
    BY SMTT(30), <1>0, <2>1, BeginMoves DEF Moved
  <2>3. Current(q)'
    BY <2>1, <2>2 DEF Current, At
  <2> QED
    BY <1>0, <2>1, <2>3, BeginKeepsAlone
<1>3. ASSUME NEW d, Begin(q, "destwritten", d), dest' = d, d.pin # Nil PROVE AloneInv'
  <2>1. req'[q].pc = "destwritten" /\ req'[q].arg = d
    BY SMTT(30), <1>0, <1>3, BeginMoves DEF Moved
  <2>2. Current(q)'
    BY <1>3, <2>1 DEF Current, At, GetDestination
  <2> QED
    BY <1>0, <1>3, <2>2, BeginKeepsAlone
<1>4. ASSUME NEW d \in Destination, SetDestination(q, d) PROVE AloneInv'
  <2>1. d.pin # Nil
    BY RouteAssumption DEF Destination
  <2> QED
    BY <1>3, <1>4, <2>1 DEF SetDestination
<1>5. ASSUME NEW meta \in OptText, UpdateDestinationMeta(q, meta) PROVE AloneInv'
  <2>1. dest'.pin # Nil
    BY <1>0, <1>5 DEF UpdateDestinationMeta
  <2> QED
    BY <1>3, <1>5, <2>1 DEF UpdateDestinationMeta
<1>6. CASE ClearDestination(q)
  <2>1. Begin(q, "destcleared", Nil) /\ dest'.pin = Nil
    BY <1>0, <1>6 DEF ClearDestination
  <2>2. req'[q].pc = "destcleared"
    BY <1>0, <2>1, BeginMoves DEF Moved
  <2>3. Current(q)'
    BY <2>1, <2>2 DEF Current, At
  <2> QED
    BY <1>0, <2>1, <2>3, BeginKeepsAlone
<1> QED
  BY <1>1, <1>2, <1>4, <1>5, <1>6
  DEF Arrive, ClearStops, AddStopSnapshot, RemoveStop, UpdateStopLabel

LEMMA ServeAlone ==
  ASSUME RouteInv, AloneInv, NEW q \in Req, Serve(q)
  PROVE  AloneInv'
<1>0. ReqShape
  BY DEF RouteInv
<1>1. CASE \/ BroadcastRoomRenamed(q) \/ BroadcastDestination(q) \/ BroadcastStops(q)
           \/ StatementFails(q)
  <2>1. InFlight(q) /\ Finish(q)
    BY <1>1 DEF BroadcastRoomRenamed, BroadcastDestination, BroadcastStops, StatementFails,
                Broadcast, At, InFlight
  <2> QED
    BY <1>0, <2>1, FinishKeepsAlone
<1>2. CASE ClearRouteStops(q)
  <2>1. /\ InFlight(q) /\ Goto(q, "routecleared", Nil) /\ At(q, "destcleared")
        /\ stops' = {} /\ dest' = dest
    BY <1>2 DEF ClearRouteStops, At, InFlight
  <2>2. req'[q].pc = "routecleared"
    BY <1>0, <2>1, GotoMoves DEF Moved
  <2>3. Current(q) => Current(q)'
    BY <2>1, <2>2 DEF Current, At
  <2> QED
    BY <1>0, <2>1, <2>3, GotoKeepsAlone
<1>3. CASE BroadcastNoDestination(q)
  <2>1. /\ InFlight(q) /\ Goto(q, "stopsread", <<>>) /\ At(q, "routecleared")
        /\ UNCHANGED tables
    BY <1>3 DEF BroadcastNoDestination, At, InFlight
  <2>2. req'[q].pc = "stopsread" /\ req'[q].arg = <<>>
    BY SMTT(30), <1>0, <2>1, GotoMoves DEF Moved
  <2>3. Current(q) => ListStops' = <<>>
    <3>1. ListStops' = ListStops
      BY SMTT(30), <2>1 DEF tables, ListStops
    <3> QED
      BY <2>1, <3>1, NoStopsListed DEF Current
  <2>4. Current(q) => Current(q)'
    BY <2>2, <2>3 DEF Current, At
  <2> QED
    BY <1>0, <2>1, <2>4, GotoKeepsAlone
<1>4. CASE AddStopInsert(q)
  <2>1. InFlight(q) /\ Goto(q, "stopswritten", Nil)
    BY <1>4 DEF AddStopInsert, At, InFlight
  <2>2. req'[q].pc = "stopswritten"
    BY <1>0, <2>1, GotoMoves DEF Moved
  <2>3. Current(q)'
    BY <2>2 DEF Current, At
  <2> QED
    BY <1>0, <2>1, <2>3, GotoKeepsAlone
<1>5. CASE ReadStops(q)
  <2>1. InFlight(q) /\ Goto(q, "stopsread", ListStops) /\ UNCHANGED tables
    BY <1>5 DEF ReadStops, At, InFlight
  <2>2. req'[q].pc = "stopsread" /\ req'[q].arg = ListStops
    BY SMTT(30), <1>0, <2>1, GotoMoves DEF Moved
  <2>3. ListStops' = ListStops
    BY SMTT(30), <2>1 DEF tables, ListStops
  <2>4. Current(q)'
    BY <2>2, <2>3 DEF Current, At
  <2> QED
    BY <1>0, <2>1, <2>4, GotoKeepsAlone
<1> QED
  BY <1>1, <1>2, <1>3, <1>4, <1>5 DEF Serve

LEMMA AloneStep == RouteInv /\ RouteTypes /\ AloneInv /\ [Next]_vars => AloneInv'
<1> SUFFICES ASSUME RouteInv, RouteTypes, AloneInv, [Next]_vars PROVE AloneInv'
  OBVIOUS
<1>1. CASE EndRoom \/ UNCHANGED vars
  <2>1. UNCHANGED <<name, dest, stops, req>>
    BY <1>1 DEF EndRoom, vars, tables
  <2> QED
    <3>1. ListStops' = ListStops /\ GetDestination' = GetDestination
      BY SMTT(30), <2>1 DEF ListStops, GetDestination
    <3>2. ASSUME NEW q \in Req PROVE Current(q)' <=> Current(q)
      BY <2>1, <3>1 DEF Current, At
    <3>3. \A q \in Req : InFlight(q)' <=> InFlight(q)
      BY <2>1 DEF InFlight
    <3> QED
      BY <2>1, <3>2, <3>3 DEF AloneInv
<1> QED
  BY <1>1, ArriveAlone, ServeAlone DEF Next

\* A request that was served alone leaves the client, at its broadcast, with
\* what the tables hold of the thing edited, for any number of goroutines and
\* whatever the client was shown before.
THEOREM EditsHeal == Spec => UndisturbedEditHeals
<1> DEFINE Heals ==
      \A q \in Req : req[q].alone =>
        /\ BroadcastRoomRenamed(q) => view'.name = name
        /\ BroadcastDestination(q) => view'.dest = GetDestination
        /\ BroadcastNoDestination(q) => view'.dest = GetDestination
        /\ BroadcastStops(q) => view'.stops = ListStops
<1>1. Init => AloneInv
  BY SMTT(30) DEF Init, AloneInv, InFlight, Idle
<1>2. RouteTypes /\ AloneInv => Heals
  <2> SUFFICES ASSUME RouteTypes, AloneInv, NEW q \in Req, req[q].alone
               PROVE  /\ BroadcastRoomRenamed(q) => view'.name = name
                      /\ BroadcastDestination(q) => view'.dest = GetDestination
                      /\ BroadcastNoDestination(q) => view'.dest = GetDestination
                      /\ BroadcastStops(q) => view'.stops = ListStops
    OBVIOUS
  <2>1. view = [name |-> view.name, dest |-> view.dest, stops |-> view.stops]
    BY DEF RouteTypes
  <2>2. InFlight(q) => Current(q)
    BY DEF AloneInv
  <2>3. BroadcastRoomRenamed(q) => view'.name = name
    BY <2>1, <2>2 DEF BroadcastRoomRenamed, Broadcast, At, InFlight, Current
  <2>4. BroadcastDestination(q) => view'.dest = GetDestination
    BY <2>1, <2>2 DEF BroadcastDestination, Broadcast, At, InFlight, Current
  <2>5. BroadcastNoDestination(q) => view'.dest = GetDestination
    <3> SUFFICES ASSUME BroadcastNoDestination(q) PROVE view'.dest = GetDestination
      OBVIOUS
    <3>1. At(q, "routecleared") /\ view' = [view EXCEPT !.dest = Nil]
      BY DEF BroadcastNoDestination
    <3>2. dest.pin = Nil
      BY <2>2, <3>1 DEF At, InFlight, Current
    <3>3. view'.dest = Nil
      BY <2>1, <3>1
    <3> QED
      BY <3>2, <3>3 DEF GetDestination
  <2>6. BroadcastStops(q) => view'.stops = ListStops
    BY <2>1, <2>2 DEF BroadcastStops, Broadcast, At, InFlight, Current
  <2> QED
    BY <2>3, <2>4, <2>5, <2>6
<1> QED
  BY <1>1, <1>2, RouteInvInit, RouteInvStep, RouteTypesInit, RouteTypesStep, AloneStep, PTL
  DEF Spec, UndisturbedEditHeals
=============================================================================
