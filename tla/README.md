# A TLA+ verification of the Convoy backend

The Convoy backend lets people travel together: a user creates a *room*, others
join it by code, and all of them share their position, a route and a chat.  It
is a Go server with REST requests over PostgreSQL and one WebSocket per
connected member.  This directory holds TLA+ models of the parts of it where
goroutines, statements and sockets interleave, TLC configurations that check
them on small instances, and TLAPS proofs for instances of any size.

## 1. Inventory

| Part | Code | State | Operations | What is hard about it |
|---|---|---|---|---|
| Hub | `realtime/hub.go`, `realtime/handler.go` | `Hub.rooms`, and per `roomState` the clients, locations and emergencies | join, leave, snapshot, recordLocation, SetEmergency, DisconnectUser, KickConnection, broadcasts | two locks, pointers used after a lock is released, a room that is dropped while it is joined |
| Connection | `realtime/client.go` | buffered channel, close signal, socket, context | enqueue, close, writePump, drainSend, readPump | random `select`, overflow, a close racing queued frames, teardown of two goroutines |
| Membership | `rooms/service.go`, `rooms/store.go` | tables `rooms`, `room_members` | Create, Join, Leave, Mute, Kick, End, TransferOwnership, connect | a check and the write it guards are two statements; sockets must follow the table |
| Route | same files | destination and name in `rooms`, table `room_stops` | Rename, SetDestination, UpdateDestinationMeta, ClearDestination, AddStop, RemoveStop, UpdateStopLabel, ClearStops | write, re-read and broadcast are separate; one of two statements fails |
| Presence events | `realtime/hub.go`, `handler.go`, `client.go` | frames on their way, what each client shows | member_present, member_absent, emergency, snapshot | the order of frames of concurrent broadcasters; a snapshot older than the frames it overtakes |
| Personal markers | `rooms/*` | table `personal_markers` | set, clear; written by TransferOwnership | none: the last write wins |
| Chat | `rooms/*` | table `messages` | PostMessage, ListMessages | a cursor into a table that changes; rows that commit late; history against live frames |
| Sign-in | `auth/auth.go`, `admin/users.go` | tables `users`, `user_identities` | guest and OAuth sign-in, soft delete, restore, hard delete | two first sign-ins; an account that changes between two statements |
| Account deletion | same files | `users.deleted_at`, `rooms`, `room_members` | HandleDeleteAccount, userSoftDelete, userRestore | requests of the account under way; one of three statements fails |
| Push | `push/*`, `admin/broadcasts.go` | table `push_tokens`, broadcast records | register, batched send, pruning | a deadline between batches, partial failure, tokens that come back |
| Settings | `config/appconfig.go`, `admin/settings.go` | one key-value row | read, write | none: nothing is cached |
| Migrations, voice tokens, feedback, HTTP helpers, policy pages, start-up | `db`, `livekit`, `feedback`, `httpx`, `policy`, `cmd/server` | none or one table | - | pure I/O, cryptography or wiring |

**How the parts interact.**  A REST request runs its statements and then calls
the hub through the `Broadcaster` interface.  The hub enqueues the frame to each
client it finds registered, and each client's `writePump` sends it.  A member
who is removed loses the row first and the socket afterwards.  A client that
connects checks the tables, registers in the hub, and then asks for a snapshot
which combines both.  Every request but the connect first loads its user in the
authentication middleware; deleting an account changes the tables of membership
under the requests that are past it, without a call to the hub.

`PROJECT.json` lists every part with its status and every hazard with the line
at which it bites.

## 2. Modules

| Module | Models |
|---|---|
| `Hub` | the registry and the goroutine that serves each socket |
| `MCHub` | instance: one room, a user with two sockets and a second member |
| `Presence` | the frames that tell clients who is there and who needs help |
| `PresenceProofs` | theorems about `Presence` |
| `Delivery` | abstract: the channel one connection promises to its senders |
| `ClientPump` | one connection: channel, close, `writePump`, `readPump`; implements `Delivery` |
| `Rooms` | the membership tables, the requests on them, registered sockets, a client's member list |
| `RoomsProofs` | theorems about `Rooms` |
| `MCRooms` | instances of `Rooms` |
| `Deletion` | extends `Rooms`: the middleware, deletion and restoring of accounts |
| `DeletionProofs` | theorems about `Deletion` |
| `MCDeletion` | instance of `Deletion` |
| `Route` | name, destination and stops, the requests on them, a client's copy |
| `RouteProofs` | theorems about `Route` |
| `MCRoute` | instances of `Route` |
| `Chat` | posting, paging back and live frames of one room's chat |
| `ChatProofs` | theorems about `Chat` |
| `MCScreen` | instance of `Presence` and `Chat`, the two feeds of a room's screen |
| `Ranking` | lemmas on the rows of `ORDER BY`, for `RouteProofs` and `ChatProofs` |
| `SignIn` | accounts, identities and the transactions that find or make them |
| `SessionProofs` | theorems about `Hub` and `SignIn`: who is connected, who is signed in |
| `Push` | device tokens and push broadcasts |
| `OutboundProofs` | theorems about `ClientPump` and `Push`: what leaves the server |
| `MCRecords` | instance of `SignIn` and `Push` |

Definitions with an underscore in their names (`IsEmpty_unlessFlagged`) are
*variants*: what the definition after them would be with a plausible bug.  No
specification uses them.  For each property of a passing run, `PROJECT.json`
names a variant under which TLC finds the property violated.

### Hub

One step is one critical section.  A `roomState` object is an element of the
pool `RoomState`; `rooms` maps a room to the registered object or `Nil`, and
`rs[c]` is the pointer a goroutine holds between `roomFor` (under `Hub.mu`) and
the lock of the object.  An object to which nothing points is garbage, and
`newRoomState` may return it again.  `pc[c]` follows `Handler.ServeHTTP`:

    start -> join -> snapshot -> snapcopy -> announce -> read
    read -> locate | emergency -> read
    read -> leave -> unregister -> drop -> absent -> done

`JoinLock` closes the user's older socket and replaces it, whose goroutine then
ends by itself: `ConnClose` stands for its `writePump`, `ReadEnds` for the
`Read` that fails.  Until then it handles frames.  `LeaveLock` removes the
socket, its location and its flag only if it is still the registered one, and
`LeaveDrop` looks the room up again before dropping it.  `Disconnect` stands for
everything that calls `client.close` on a pointer found in the registry.

The contents of locations, the frames of broadcasts and what the snapshot holds
are abstracted away: broadcasts do not change the registry.

### ClientPump and Delivery

Frames are numbered in the order of the `enqueue` calls.  `send` is the channel,
`hand` the frame being written, `wpc` and `rpc` the positions of the two pumps.
Each case of the `select` is an action; a write works if the socket and the link
do, and fails if either does not or its context was cancelled.  `LinkFails` may
happen at any time and stands for a peer that vanished as well as for a write
timeout.  `kpc` follows one `KickConnection` or `BroadcastRoomEnded`, which
enqueue a last frame and then close.

`Delivery` is the promise: first in, first out, nothing lost, repeated or
invented before the channel starts to close; afterwards frames may be refused or
lost, never reordered.  The refinement maps its queue to the frame in hand
followed by `send`.

### Rooms

One step is one SQL statement or one call of the `Broadcaster`.  `req[q]` is the
request a goroutine serves: `pc` names the next statement.  Deviations from one
statement per step:

* `CreateRoom` inserts two rows in one transaction, hence one step.
* `TransferOwnership` is the `SELECT EXISTS` and one step for its updates and
  the commit.  The first `UPDATE` locks the room's row, so a concurrent end or
  transfer of the room waits for the commit.
* a call of the `Broadcaster` and the eviction that follows it in the same
  handler form one step.

`StatementFails` ends a request at any statement, also one that has taken effect
and whose answer was lost: what was to follow, a frame or an eviction, does not
happen.  `Join` swallows such an error of `GetMember`, with the same effect.

`sockets` is the part of the hub the requests act on.  `overlap` remembers the
sockets that registered after an eviction had looked for them in vain (the
connect checks membership before `hub.join`, and nothing checks it again), and
those whose eviction was called off by an error.
`view` is the member list of a client that receives every frame.  `Present`
(`left_at IS NULL`) and `Active` (and not kicked) are kept apart, as in the
queries.  `Restart` is a crash of the process at any point: the tables stay as the
last statement left them, everything in memory is gone, and clients reconnect
and read the list again.

### Deletion

`Deletion` puts all requests of `Rooms` behind `Middleware` (`session[q]` is the
user a goroutine has loaded) and adds the two deletions, which run the same three
statements: stamp the user, end the owned rooms, end the memberships.
`HandleDeleteAccount` is a transaction: `del` collects the rows it has locked,
`Unlocked` keeps other requests from writing them, and `CommitDeletion` makes all
of it visible.  `userSoftDelete` is not, so its statements take effect one by
one.  `DeletionFails` ends either at any statement.  `/ws` is outside the
middleware and loads its user late (`WsLoadUser`).

`late` remembers users for whom a request was past the middleware, or a transfer
was under way, while they were deleted: such a request can make the user a
member or an owner afterwards.  `doubt` remembers entries of the followed client's
member list that the code does not keep right: those that a request changes while
another has still to announce its change of them (the frames may come in the
other order), and those that a failing request or a deletion changed without a
frame.  A change whose frame carries the whole entry (joined, left or kicked), and
that meets no other, takes the entry out of doubt.

### Route

All statements are scoped to one room, so one room is modelled.  A request
begins with its first statement.  `AddStop` takes its snapshot, on which
`MAX(position) + 1` is computed, and commits in different steps; a stop carries
the ids that its snapshot contained (`older`).  After a write, `ReadStops` reads
the whole list and `BroadcastStops` sends it.  `StatementFails` ends a request
at any later statement.  Statements on stops do not look at `ended_at`.

### Presence

`Hub` has the objects and pointers of the registry and leaves out frames;
`Presence` follows the frames of one room.  join, leave and `SetEmergency` look the
object up in one step (`JoinRoomFor`, `LeaveRoomFor`, `EmergencyRoomFor`) and change
it in another; `Drop` removes an empty one from `Hub.rooms`, and the goroutines that
had looked it up are `stale`: what they do is done to an object nobody finds, so it
does not change `current` and `flagged`, and what it answers is left open.
`frames[c]` is what the goroutine of socket `c` has still to broadcast;
`CopyTargets` copies the sockets under the lock, and each `EnqueueFor` reaches one
of them.  `CopySnapshot` and `SendSnapshot` are apart as in `ServeHTTP`.  A frame
counts as seen when it is enqueued, by what `ClientPump` shows.

A registered client may be wrong about a user in four ways: changes of the user
overlap (a reconnect before the absent frame of the old socket is out, a frame
handled by a replaced socket); a frame falls between the copy of the client's
snapshot and its delivery; a change went into a dropped object and is announced in
the room's new one; a replaced socket raised an emergency after its user had left.
`doubt` records which client may be wrong about whom; a later undisturbed frame
removes the entry.  The properties say that registered clients are right otherwise.
A socket that was put into a dropped object gets no frames at all (finding 1), and
what it shows is not followed.

### Chat

A post is the membership check, the INSERT (which takes `created_at`), the commit
and the broadcast.  A page is one SELECT.  Ids are drawn at random, so they break
ties of `created_at` in any order.  The reader opens its socket, asks for the
latest page and then for the page before the oldest line it holds, until one is
empty; the client itself is external.  Authors may be purged with their lines.

### SignIn

One step is one statement of `upsertOAuthUser`.  A transaction's writes are in its
record until `Commit`.  Two transactions meet at the unique key of
`user_identities`, where the second waits for the first and then fails, and at a
row of `users` that an email refresh has locked, where the second waits if it
brings another address.  `returned` remembers which
accounts the sign-ins of a subject were given.

### Push

`broadcastSend` reads all tokens, sends them batch by batch, prunes and records.
A batch fails as a whole (`SendFails`: request, answer or top-level error) or
brings tickets (`SendTickets`).  The code compares their number with nothing, so
there may be any: `gap` counts how many are missing or, negative, too many, and
`unmatched` collects the tokens of such batches, whose tickets need not be in the
order of the messages.  `Expire` is the deadline, after
which every further statement and request fails.  Tokens are registered and
devices vanish at any time.

## 3. Model checking

| Run | Instance | Shows | Distinct states |
|---|---|---|---|
| `hub` | 1 room, 3 sockets of 2 users, 3 objects | `NoZombieClients`: what the registry shows belongs to a goroutine whose leave will find it. `IdleRoomsAreReclaimed`: a room nobody serves has no entry. `ClosedSocketsFinish` | 200,732 |
| `hub_broadcast` | as `hub` | violated: see finding 1 | - |
| `hub_emergency` | as `hub` | violated: see finding 2 | - |
| `pump` | buffer 2, 5 frames | `NoSilentGap`, `AcceptedBeforeCloseDelivered`, `ImplementsDelivery`; with fairness `ClosedEnds`, `AcceptedFramesGoOut` | 66,134 |
| `pump_terminal` | as `pump` | violated: see finding 3 | - |
| `rooms` | 2 rooms, 3 users, 1 code, 2 requests | `OwnerIdHasOwnerRole`, `KickedHaveLeft`, `EndedIsFinal`, `EvictedSocketsStayOut` | 328,756 |
| `rooms_one_owner` | as `rooms` | violated: see finding 4 | - |
| `deletion` | 2 rooms, 2 users, 2 codes, 2 requests, 1 deletion | `DeletedUsersAreOut`, `KickedHaveLeft`; `MemberListConverges`: entries of a client's member list are right but for the overlaps and silent changes it names | 332,598 |
| `route` | 2 requests; 3 stops and 1 label, or 2 pins, 2 texts and 1 stop | `AppendedAfterOlderStops`, `UndisturbedEditHeals` | 1,875,406 |
| `route_converge` | as `route`, no failures | violated: see finding 5 | - |
| `screen` | 3 sockets of 2 users; 3 lines, 2 posters | `PresenceSettles`, `NoAbsentEmergency`; `NoRowRepeated`, `NoRowSkipped`, `NothingMissed` | 1,687,274 |
| `records` | 2 sign-ins, 2 subjects, 3 accounts; 3 tokens in batches of 2 | `OneAccountPerSubject`, `NoOrphanAccounts`, `NoWaitChain`, `SignInsEnd`; `RecordsAddUp`, `EachTokenOnce`, `PrunedTokensAreDead`, `BroadcastsEnd` | 184,100 |

`screen` and `records` hold two components each that share no state: a variable
chosen in the initial state says which of them moves, so that each is explored
by itself.

**Bounds.**

* `Hub`.  Two sockets of one user are the least for a replacement; the third,
  of another user, keeps the room alive or empties it independently.  Rooms do
  not interact except through the pool.  A goroutine that needs a new object
  holds none and each of the two others holds at most one, so three objects never
  run out; the least free one is taken, objects being interchangeable.  The
  second member raises no emergency of its own.
* `SendBuffer` is 2 (32 in the code) and `MaxFrames` 5: the buffer fills, is
  emptied and fills again.
* `Rooms`.  Two requests give every race between a check and a write; three
  users allow two transfers to different members.  One room is
  explored with all its races.  A constraint admits a second room, which needs the
  same code, only while each has one visitor, and mutes only without sockets and
  with one request at a time: no guard reads the mute.  At most two
  sockets are registered, and only one if its eviction failed or overtook it.
* `Deletion`.  Two questions in two rooms.  In the followed one two requests of two
  users overlap, without sockets other than the client's; deletions come between
  requests there, mutes before deletions.  In the other, one request runs beside
  one deletion, which gives every race between the two, with at most one socket and
  no mutes.  `MaxCodeAttempts` is 2 (8 in the code), and the two rooms compete for
  two codes as long as each has one visitor.
* `Route`.  Three stops let a position be given out again after a removal.
  Names, a second pin and notes come with at most one stop: no statement reads
  both.  `MaxStops` bounds the stops added, `MayFail` switches failures off where the
  property is about requests that succeed.
* `Presence`.  Two sockets of one user and one of another, each used once; the
  second user raises no emergency.
* `Chat`.  Three lines with two values of `created_at` give ties, late commits and
  pages of one and two lines (`defaultMessagePage` and `maxMessagePage` are 2
  here).  The reader's account is not purged.
* `SignIn`.  Three accounts let a subject sign in again after a purge while another
  does for the first time.
* `Push`.  Three tokens in batches of two: a full batch and a short one.  An answer
  has up to two tickets (`MaxTickets`), so too few for the first batch and too many
  for the second.

Symmetry is used for requests, users, rooms, codes, posters and the sockets of
one user, in runs without liveness properties, where all of them are
interchangeable.  Deadlock is checked except in `screen` and `records`: sockets
there come once, and ids of messages and accounts run out.  `Terminating` in
`Hub` and `ClientPump` is the state in which every socket has come and gone.

**Fairness.**  Weak fairness per goroutine: the Go scheduler runs a goroutine
that can run, and writes and pings end by `writeTimeout`.  Nothing is assumed of
peers, senders or requests.  `SelectSend` and `SelectClosed` are strongly fair:
Go's `select` chooses uniformly among the ready cases, so a case that is ready
whenever `select` runs is chosen in the end.  In `Hub`, `ConnClose` is weakly
fair, which `ClosedEnds` of `ClientPump` justifies.  In `SignIn` each transaction
is weakly fair, and strongly fair where it waits for a key or a row, since PostgreSQL
queues those that wait for a lock; no failure is assumed to happen.  In `Push` the
handler is weakly fair: every request to Expo ends by `expoHTTPTimeout`.

## 4. Findings

1. `hub_broadcast`: `join` looks the object up, and inserts the client later.
   If the last leave drops the room in between, the socket is connected in an
   object that no broadcast, kick or presence query finds.  `broadcast` says it
   "sends a message to every connected client in the room."
2. `hub_emergency`: a replaced socket that handles one more frame after its
   successor has left raises a flag, and its own leave does not clear it, since
   it is not the registered socket.  The comment on the frame says the flag is
   cleared automatically when the member leaves.
3. `pump_terminal`: with a full buffer the `room_ended` or `kicked` frame itself
   is dropped, and the drain sends everything but it.
4. `rooms_one_owner`: two overlapping transfers by one owner to different
   members leave two members with the owner role; the owner is checked before
   the transaction, which demotes only the actor.
5. `route_converge`: of two concurrent edits of the stops, the one that read the
   older list may broadcast last, and clients keep the older list until the next
   edit.  `UndisturbedEditHeals` shows that the next edit served alone repairs
   them.

Further behaviours the models have, against which no run is directed: a member
who leaves between the `SELECT EXISTS` and the updates of a transfer becomes the
owner of the room; two concurrent `AddStop`s store the same position
(`created_at` then orders them); the loser of two first sign-ins gets an error
and has to sign in again; sockets of a deleted account stay open; paging ends
early when the author of the cursor's line is purged; a push broadcast whose answer
has too few or too many tickets records totals that do not make up its recipients;
a request that fails after its statement took effect leaves the removed member's
socket open and tells no client; a reconnect that overlaps
the teardown of the old socket can leave a member absent on other screens until
the next change.

## 5. Proofs

Every safety invariant, action property and refinement that a passing run checks
is also proved.  The theorems hold for every value of the constants that satisfies
the named assumption of the module (`HubAssumption`, `PumpAssumption`,
`RoomsAssumption`, `RouteAssumption`, `PresenceAssumption`, `ChatAssumption`,
`SignInAssumption`, `PushAssumption`): any sets of rooms, users, sockets,
`roomState` objects, requests and accounts, any capacity of the send channel, any
page size, and any finite set of push tokens with any batch size.  Each assumption
says only of which kind a constant is (a bound is a natural number, `Nil` is not a
user).

Leaves are tried with Zenon; those that need arithmetic, records or sequences cite
`SMTT`.

**`SessionProofs`: Hub.**

* `TypeCorrect`: `Spec => []TypeOK`.
* `NoZombies`: `Spec => []NoZombieClients`.
* `Reclaimed`: `Spec => []IdleRoomsAreReclaimed`.

The last two follow from one inductive invariant, `IInv`:

* `PointersOK`: between a lookup and its lock a goroutine has a pointer; an
  object is registered for one room only, and a goroutine that points to a
  registered object is of that room.
* `ClientsOK`: `NoZombieClients`, in the form in which it is used.
* `SomeoneResponsible`: for every registered object there is a goroutine of the
  room that will look at the registered object again before it finishes.

`NoZombieClients` alone is not inductive: `JoinLock` writes into the object its
pointer leads to, which may be registered for a room, and `PointersOK` says that
this can only be the room of the socket.  That a goroutine's pointer keeps an
object from being reused is what `PointersOK` rests on.  The proof has one lemma
per action that changes the registry and one (`StayIInv`) for all those that only
move a program counter.

**`SessionProofs`: SignIn.**

* `OneAccount`: `SignInSpec => []OneAccountPerSubject`.
* `NoOrphans`: `SignInSpec => []NoOrphanAccounts`.
* `SignInsDoNotDeadlock`: `SignInSpec => []NoWaitChain`.

`SignInInv` says where each transaction stands (`Stage`), that an id drawn by one
is nobody else's (`HasDrawn`), that the account a sign-in found was made for its
subject (`Found`), that of the transactions past the insertion of an identity only
one can hold a subject's key, and none while the subject has a committed identity
(`Key`), and that identities and returned accounts were made for their subject
(`Linked`).  `Key` is what makes the commit of a new identity safe.
`NoWaitChain` rests on `LocksLate`: a transaction takes the lock that others wait
for after its own last wait, since it either updates an email or inserts an
identity, never both.  `SignInsEnd`, the liveness the run checks, needs it.

**`OutboundProofs`: ClientPump.**

* `PumpTypes`: `Spec => []TypeOK`; the buffer stays within its capacity.
* `PumpNoSilentGap`: `Spec => []NoSilentGap`.
* `PumpDelivers`: `Spec => []AcceptedBeforeCloseDelivered`.
* `PumpRefines`: `Spec => ImplementsDelivery`.

`PumpInv` adds to these `Control` (which positions of the two pumps go together:
only a writer holds a frame, the writer drains and leaves only after the close, the
reader ends only when the writer closed the socket or the link failed) and
`NothingLost`: on a working link, what was accepted before the close has been
written, is in hand or is queued, and a writer that left has written all of it.
Without `Control` a second frame could be taken while one is in hand.  The
refinement maps every action to one of `Delivery` or to a stutter; `NoSilentGap` is
then proved from the steps of `Delivery` alone.

**`OutboundProofs`: Push.**

* `TotalsAddUp`: `PushSpec => []RecordsAddUp`.
* `BatchesPartitionTheList`: `PushSpec => []EachTokenOnce`.
* `PruningIsSound`: `PushSpec => []PrunedTokensAreDead`.
* `BroadcastsAdvance`: `PushSpec => [][JobAdvances]_pushVars`.

`PushInv` ties the loop to the list: what was handed to Expo is the list up to
`start` (or all of it), and delivered, failed and `gap` add up to that number, for
any numbers of tickets in the answers (`MaxTickets` is a parameter of the theorem).
`JobAdvances` measures what is left of a broadcast (`Left`, a natural number): each
step of the job makes it smaller, and no other step makes it larger while the job
runs.  It is the safety half of `BroadcastsEnd`, for any list and batch size; that
the steps are taken is the fairness only the run assumes.

**`RoomsProofs`.**

* `RoomsTypeCorrect`: `Spec => []TypeOK`.
* `OwnershipRecorded`: `Spec => []OwnerIdHasOwnerRole`.
* `KickedLeave`: `Spec => []KickedHaveLeft`.
* `EndsAreFinal`: `Spec => EndedIsFinal`.
* `EvictionsReachSockets`: `Spec => []EvictedSocketsStayOut`.

All rest on the inductive invariant `Structure`: the types; `RequestOK`, what a
request under way may rely on (its room is in the table, unless it is a Create;
the parties of a transfer are different users who have rows); `CreateAlone`, the
room a Create will insert is no other request's; and `RowsHaveRooms`, the foreign
key.  Without `RequestOK` the roles a transfer writes could go to rows that do not
exist.  There is one lemma per action, `Restart` included.

The three properties of the tables use `TableStep`, which sums up every step by
what it does to the tables: nothing, a new room, one member row, an end or a
transfer.

The last theorem needs `ConnectsCovered` besides: a connect that is past its
checks, and that no eviction has overtaken, belongs to someone who is still
entitled to it or whose eviction is pending.  The argument is that a write that
removes a member or ends a room leaves its request about to evict (`CoverKept`),
and that an eviction settles exactly what its request had pending
(`OvertakeEvictionInv`).  The exception, `overlap`, is stated in the property: a
socket that registers after an eviction overtook it, or whose eviction an error
called off.  A request that fails before its write had nothing pending, so it adds
no exception.

**`DeletionProofs`**, which extends `RoomsProofs`.

* `DeletionTypeCorrect`: `DeletionSpec => []TypeOK`.
* `DeletedAreOut`: `DeletionSpec => []DeletedUsersAreOut`.
* `DeletionKeepsOwner`, `DeletionKicksLeave`, `DeletionKeepsEnds`: what
  `OwnershipRecorded`, `KickedLeave` and `EndsAreFinal` say of the requests alone
  holds beside deletions too.
* `MemberListsConverge`: `DeletionSpec => []MemberListConverges`.

`DeletionInv` is `Structure`, the types of the accounts, `LockedRows` (the rows a
transaction has updated exist), `Progress` and `Finished`.  `Progress` says what
the deletion under way has still to do: after its statement on rooms, every open
room of the user is among those it found, and after that on memberships every
membership is.  It is kept because no request that could add one gets past the
middleware or the locks; those that were past it are the exception `late`.
`Finished` says the same once the deletion has come to its end, and that nobody
lets the user in again.  The steps of the requests are reused from `RoomsProofs`
in the form of `TableStep`.

`MemberListsConverge` is proved entry by entry, for any number of requests about
one room.  Its invariant, `ListsInv`, says of every entry not in `doubt` that at most
one request owes the room a frame about it (`Owes`), and that what the client shows,
corrected by that frame (`After`), is what the table holds.  `Doubting` sums up what
the history does in a step of a request: an entry stays out of doubt only if
nobody else owed a frame about it.  The lemmas named `...Served` say for each action
that the entries then stay right: one that only writes makes its request owe the
frame, one that broadcasts pays it.

**`RouteProofs`.**

* `RouteTypeCorrect`: `Spec => []TypeOK`.
* `AppendsAfter`: `Spec => []AppendedAfterOlderStops`.
* `EditsHeal`: `Spec => UndisturbedEditHeals`.

`AppendedAfterOlderStops` speaks of rows in the table; `RouteInv` adds the rows
whose `INSERT` has its snapshot and not yet its commit.  Such a row's id is in no
table, nobody has seen it, and it comes after all rows it has seen that are still
there.  With that the commit adds a row that fits, and every other step keeps or
removes rows (`QuietStep`).  That `MAX(position)` exists follows from a bound on
positions (no more than the `INSERT`s begun) and the well-foundedness of the
naturals.

`RouteTypes` adds that the table is finite and its ids are unique, so that the
order of the list is total.  `AloneInv` says of a request that was never disturbed
that it is the only one, and that what it carries to its broadcast is what the
tables hold; the broadcast then sets the client right whatever it showed before.

`Ranking` has the two facts about `ORDER BY` that this proof and the next share.
The list is written by rank: its i-th row is the one with i - 1 rows before it.
For a strict total order on a finite set, every rank below the size is taken by
exactly one row.

**`ChatProofs`.**

* `ChatNoRowRepeated`: `ChatSpec => []NoRowRepeated`.
* `ChatNoRowSkipped`: `ChatSpec => []NoRowSkipped`.
* `ChatNothingMissed`: `ChatSpec => []NothingMissed`.

A page is a prefix of the rows before the cursor in descending order, and every
row before the cursor is on it or older than its last line.  `ChatInv` adds to the
properties: `ChatRows`, ids are unique also among the rows about to be committed;
`BaseStays`, a line that was there when paging began is there, or was purged
with its author and does not come back; and `LaterHeard`, a line committed later
was heard or its frame is pending.  A row that commits late, with an older
`created_at` than lines already read, is the case that makes `BaseStays` and
`LaterHeard` two separate facts: such a row is missed by the paging and caught by
its frame.

**`PresenceProofs`.**

* `PresenceSettled`: `PresenceSpec => []PresenceSettles`.
* `PresenceNoAbsentEmergency`: `PresenceSpec => []NoAbsentEmergency`.

`PresenceInv` has two parts besides the types.  `SpeaksTrue`: of a user whose
changes do not overlap only one goroutine has frames to send, and they say what
the registry has; what is announced out of a dropped object muddles its user.
`ShowsTrue`: what a client shows of a user, or will show when
its snapshot arrives, is what the registry has, or a frame that will change it is
still to reach that client, or the client is in `doubt` about the user.

**Only model-checked.**  Liveness (`ClosedSocketsFinish`, `ClosedEnds`,
`AcceptedFramesGoOut`, `SignInsEnd`, `BroadcastsEnd`), which is out of the prover's
reach.

## 6. Not modelled

* Personal markers: a row per room and user that only its user reads, replaced as
  a whole by every write.  `TransferOwnership` copies the destination into it,
  best effort, before its transaction, and also when that then refuses.
* `HandlePatchMe`: one `UPDATE` of the caller's own name and avatar.
* Locations: `Hub` has which are stored; their frames are replaced by the next.
* Hard deletion of a user is a step of `SignIn`, `Chat` and `Push` that may or may
  not happen.  It is refused while another's room has a destination or stop that
  the user set (`dest_set_by` and `created_by` have no `ON DELETE` clause).  What
  it removes from `rooms` and `room_members` is not in `Deletion`.
* Settings: one row, read anew by every request.

Out of scope: token signatures and OAuth verification (cryptography), HTML and
JSON rendering, migrations (inside PostgreSQL), voice tokens (a pure function of
the request), feedback (one table nobody else reads).
