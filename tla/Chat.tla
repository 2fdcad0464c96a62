-------------------------------- MODULE Chat --------------------------------
(***************************************************************************)
(* The chat of one room: the table messages, PostMessage and ListMessages  *)
(* of rooms/service.go, and one reader who pages back through the history  *)
(* while others post.                                                      *)
(*                                                                         *)
(* A row is stamped when its INSERT starts and seen when it commits, so    *)
(* rows may appear in another order than that of (created_at, id).  Ids    *)
(* are random: a post draws any unused one.  The reader's client is        *)
(* external: it opens its socket, asks for pages from the oldest line it   *)
(* holds, and drops the chat when it leaves the room.                      *)
(***************************************************************************)
EXTENDS Naturals, Sequences, FiniteSets

CONSTANTS
  ChatUser, Reader,      \* users, and the one who reads
  Poster,                \* goroutines serving postMessage
  MaxMessages, MaxClock, \* bounds: rows, distinct values of created_at
  Limit,                 \* values of ?limit=
  defaultMessagePage, maxMessagePage

ASSUME ChatAssumption ==
  /\ Reader \in ChatUser
  /\ MaxMessages \in Nat /\ MaxClock \in Nat /\ Limit \subseteq Nat
  /\ defaultMessagePage \in Nat \ {0} /\ maxMessagePage \in Nat
  /\ defaultMessagePage <= maxMessagePage

VARIABLES
  chatMembers,  \* users with an active membership
  authors,      \* users whose row exists
  clock,        \* the database's now()
  messages,     \* committed rows [id, at, author]
  posts,        \* requests of postMessage
  reader        \* the reader's client

chatVars == <<chatMembers, authors, clock, messages, posts, reader>>

NoPost == [pc |-> "idle"]
Away == [pc |-> "away", got |-> <<>>, heard |-> {}]

ChatInit ==
  /\ chatMembers = ChatUser /\ authors = ChatUser
  /\ clock = 0
  /\ messages = {}
  /\ posts = [p \in Poster |-> NoPost]
  /\ reader = Away

----------------------------------------------------------------------------
(* store.go *)

\* Variant: the cursor compares created_at alone.
OlderThan_timeOnly(m, n) == m.at < n.at

\* (created_at, id) < (created_at, id)
OlderThan(m, n) == m.at < n.at \/ (m.at = n.at /\ m.id < n.id)

\* ORDER BY created_at DESC, id DESC: the i-th row has i - 1 rows before it.
NewestFirst(S) ==
  [i \in 1..Cardinality(S) |-> CHOOSE m \in S :
     Cardinality({n \in S : m.at < n.at \/ (m.at = n.at /\ m.id < n.id)}) = i - 1]

\* Variant: the page includes the row of the cursor.
PageBefore_inclusive(before, limit) ==
  LET page == NewestFirst({m \in messages :
                before = {} \/ \E c \in messages : c \in before /\ (OlderThan(m, c) \/ m = c)})
  IN  SubSeq(page, 1, IF Len(page) < limit THEN Len(page) ELSE limit)

\* ListMessages; before is {} or the row of the cursor.  If that row is gone
\* the subquery is NULL and no row qualifies.
PageBefore(before, limit) ==
  LET page == NewestFirst({m \in messages :
                before = {} \/ \E c \in messages : c \in before /\ OlderThan(m, c)})
  IN  SubSeq(page, 1, IF Len(page) < limit THEN Len(page) ELSE limit)

\* service.ListMessages: any other value means the default.
PageLimit(l) == IF l = 0 \/ l > maxMessagePage THEN defaultMessagePage ELSE l

----------------------------------------------------------------------------
(* PostMessage *)

PostStart(p, u) ==
  /\ posts[p].pc = "idle"
  /\ u \in chatMembers
  /\ posts' = [posts EXCEPT ![p] = [pc |-> "insert", author |-> u]]
  /\ UNCHANGED <<chatMembers, authors, clock, messages, reader>>

Drawn == {m.id : m \in messages} \cup
         {posts[p].row.id : p \in {q \in Poster : posts[q].pc = "commit"}}

\* CreateMessage stamps the row; it fails if its author was purged.
PostInsert(p, id) ==
  /\ posts[p].pc = "insert"
  /\ id \notin Drawn
  /\ posts' = [posts EXCEPT ![p] =
       IF posts[p].author \in authors
       THEN [pc |-> "commit", row |-> [id |-> id, at |-> clock, author |-> posts[p].author]]
       ELSE NoPost]
  /\ UNCHANGED <<chatMembers, authors, clock, messages, reader>>

\* Variant: the row is not announced.
PostCommit_unannounced(p) ==
  /\ posts[p].pc = "commit"
  /\ messages' = messages \cup {posts[p].row}
  /\ posts' = [posts EXCEPT ![p] = NoPost]
  /\ UNCHANGED <<chatMembers, authors, clock, reader>>

\* The statement commits; nobody has been told yet.
PostCommit(p) ==
  /\ posts[p].pc = "commit"
  /\ messages' = messages \cup {posts[p].row}
  /\ posts' = [posts EXCEPT ![p].pc = "broadcast"]
  /\ UNCHANGED <<chatMembers, authors, clock, reader>>

\* BroadcastChatMessage reaches every socket but the author's.
PostBroadcast(p) ==
  /\ posts[p].pc = "broadcast"
  /\ reader' = IF reader.pc = "away" \/ posts[p].row.author = Reader THEN reader
               ELSE [reader EXCEPT !.heard = @ \cup {posts[p].row}]
  /\ posts' = [posts EXCEPT ![p] = NoPost]
  /\ UNCHANGED <<chatMembers, authors, clock, messages>>

----------------------------------------------------------------------------
(* The reader *)

OpenSocket ==
  /\ reader.pc = "away" /\ Reader \in chatMembers
  /\ reader' = [reader EXCEPT !.pc = "open"]
  /\ UNCHANGED <<chatMembers, authors, clock, messages, posts>>

\* The latest page; base is history: the rows there were.
FirstPage(l) ==
  /\ reader.pc = "open" /\ Reader \in chatMembers
  /\ reader' = [pc |-> "paging", got |-> PageBefore({}, PageLimit(l)), heard |-> reader.heard,
                base |-> messages, lost |-> FALSE]
  /\ UNCHANGED <<chatMembers, authors, clock, messages, posts>>

\* Pages are newest first.
OldestLine(page) == page[Len(page)]

\* The page before the oldest line held; an empty page is the end.
NextPage(l) ==
  LET oldest == {OldestLine(reader.got)}
      page   == IF reader.got = <<>> THEN <<>> ELSE PageBefore(oldest, PageLimit(l))
  IN  /\ reader.pc = "paging" /\ Reader \in chatMembers
      /\ reader' = [reader EXCEPT !.pc = IF page = <<>> THEN "done" ELSE "paging",
                                  !.got = @ \o page,
                                  !.lost = reader.got # <<>> /\ ~ oldest \subseteq messages]
      /\ UNCHANGED <<chatMembers, authors, clock, messages, posts>>

----------------------------------------------------------------------------
(* The surroundings *)

\* A membership ends; the reader's client leaves the screen with it.
LoseMembership(u) ==
  /\ u \in chatMembers
  /\ chatMembers' = chatMembers \ {u}
  /\ reader' = IF u = Reader THEN Away ELSE reader
  /\ UNCHANGED <<authors, clock, messages, posts>>

GainMembership(u) ==
  /\ u \in authors \ chatMembers
  /\ chatMembers' = chatMembers \cup {u}
  /\ UNCHANGED <<authors, clock, messages, posts, reader>>

\* DELETE FROM users takes the user's lines along.  It waits for an
\* uncommitted line, whose foreign key locks the row.
PurgeAuthor(u) ==
  /\ u \in authors
  /\ \A p \in Poster : posts[p].pc = "commit" => posts[p].row.author # u
  /\ authors' = authors \ {u} /\ chatMembers' = chatMembers \ {u}
  /\ messages' = {m \in messages : m.author # u}
  /\ reader' = IF u = Reader THEN Away ELSE reader
  /\ UNCHANGED <<clock, posts>>

Tick ==
  /\ clock < MaxClock
  /\ clock' = clock + 1
  /\ UNCHANGED <<chatMembers, authors, messages, posts, reader>>

----------------------------------------------------------------------------
PostStep(p) == \/ \E id \in 1..MaxMessages : PostInsert(p, id)
               \/ PostCommit(p) \/ PostBroadcast(p)

ReaderStep == OpenSocket \/ \E l \in Limit : FirstPage(l) \/ NextPage(l)

ChatNext ==
  \/ \E p \in Poster : PostStep(p) \/ \E u \in ChatUser : PostStart(p, u)
  \/ ReaderStep
  \/ \E u \in ChatUser : LoseMembership(u) \/ GainMembership(u) \/ PurgeAuthor(u)
  \/ Tick

ChatSpec == ChatInit /\ [][ChatNext]_chatVars

----------------------------------------------------------------------------
(* Properties *)

Held == {m \in messages : \E i \in DOMAIN reader.got : reader.got[i] = m}

\* "never ... repeat a row across pages": each line the reader was given is
\* strictly older than the one before it, whatever is posted, committed late
\* or removed between two pages.
NoRowRepeated ==
  \A i, j \in DOMAIN reader.got : i < j =>
    LET m == reader.got[j]  n == reader.got[i]
    IN  m.at < n.at \/ (m.at = n.at /\ m.id < n.id)

\* "never skip ... a row across pages": of the lines there were when paging
\* began and still are, the reader holds all down to the oldest it holds, and
\* at the end all of them, unless the row of its cursor was removed.
NoRowSkipped ==
  reader.pc \in {"paging", "done"} =>
    \A m \in reader.base \cap messages :
      \/ m \in Held
      \/ reader.pc = "paging" /\ (reader.got # <<>> => OlderThan(m, OldestLine(reader.got)))
      \/ reader.pc = "done" /\ reader.lost

\* History and socket together have no gap: a reader who connected, paged to
\* the end and stayed has every line of the room, its own aside, once the
\* requests that posted them are over (service.go broadcasts after the INSERT).
NothingMissed ==
  reader.pc = "done" /\ ~ reader.lost /\ (\A p \in Poster : posts[p].pc # "broadcast") =>
    \A m \in messages : m \in Held \cup reader.heard \/ m.author = Reader
=============================================================================
