----------------------------- MODULE ChatProofs -----------------------------
(***************************************************************************)
(* Proofs about Chat, for any number of posts and readers' pages and any   *)
(* page size.  First what a page of the history is, then the invariant of  *)
(* the posts and of the reader that pages back.                            *)
(***************************************************************************)
EXTENDS Chat, Ranking, SequenceTheorems, TLAPS

USE ZenonT(60)

Row == [id : Nat, at : Nat, author : ChatUser]

\* Rows whose order (created_at, id) is total.
Rows(S) == IsFiniteSet(S) /\ S \subseteq Row /\ \A m, n \in S : m.id = n.id => m = n

Descending(s) == \A i, j \in DOMAIN s : i < j => OlderThan(s[j], s[i])

LEMMA OlderOrder ==
  /\ \A m, n \in Row : m.id # n.id => OlderThan(m, n) \/ OlderThan(n, m)
  /\ \A m \in Row : ~ OlderThan(m, m)
  /\ \A m, n, o \in Row : OlderThan(m, n) /\ OlderThan(n, o) => OlderThan(m, o)
<1>1. \A m \in Row : m.at \in Nat /\ m.id \in Nat
  BY DEF Row
<1> QED
  BY SMTT(30), <1>1 DEF OlderThan

Newer(S, m) == {n \in S : OlderThan(m, n)}

LEMMA RowsOrdered ==
  ASSUME NEW S, Rows(S)
  PROVE  Ordered(S, [m \in S |-> Newer(S, m)])
<1>1. \A m, n \in S : m # n => OlderThan(m, n) \/ OlderThan(n, m)
  BY OlderOrder DEF Rows
<1>2. \A m \in S : ~ OlderThan(m, m)
  BY OlderOrder DEF Rows
<1>3. \A m, n, o \in S : OlderThan(m, n) /\ OlderThan(n, o) => OlderThan(m, o)
  BY OlderOrder DEF Rows
<1> QED
  BY <1>1, <1>2, <1>3 DEF Ordered, Newer

\* ORDER BY returns every row once, the newest first.
LEMMA NewestFirstSorts ==
  ASSUME NEW S, Rows(S)
  PROVE  /\ NewestFirst(S) \in Seq(S) /\ Len(NewestFirst(S)) = Cardinality(S)
         /\ Descending(NewestFirst(S))
         /\ \A m \in S : \E i \in 1..Cardinality(S) : NewestFirst(S)[i] = m
<1> DEFINE below == [m \in S |-> Newer(S, m)]
           n == Cardinality(S)
           s == NewestFirst(S)
<1>1. IsFiniteSet(S) /\ Ordered(S, below)
  BY RowsOrdered DEF Rows
<1>2. /\ n \in Nat
      /\ \A x \in S : Cardinality(below[x]) \in Nat /\ Cardinality(below[x]) < n
      /\ \A x, y \in S : x \in below[y] <=> Cardinality(below[x]) < Cardinality(below[y])
  BY <1>1, BelowCounts
<1>3. s = [i \in 1..n |-> CHOOSE m \in S : Cardinality(Newer(S, m)) = i - 1]
  BY DEF NewestFirst, Newer, OlderThan
<1>4. ASSUME NEW i \in 1..n PROVE s[i] \in S /\ Cardinality(below[s[i]]) = i - 1
  <2>1. \E m \in S : Cardinality(below[m]) = i - 1
    BY <1>1, RankExists
  <2>2. \E m \in S : Cardinality(Newer(S, m)) = i - 1
    BY <2>1
  <2>3. s[i] = CHOOSE m \in S : Cardinality(Newer(S, m)) = i - 1
    BY <1>3
  <2>4. s[i] \in S /\ Cardinality(Newer(S, s[i])) = i - 1
    BY <2>2, <2>3
  <2> QED
    BY <2>4
<1>5. s \in [1..n -> S]
  BY <1>3, <1>4
<1> HIDE DEF n, s
<1>6. s \in Seq(S) /\ Len(s) = n
  BY SMTT(30), <1>2, <1>5
<1>7. Descending(s)
  <2> SUFFICES ASSUME NEW i \in 1..n, NEW j \in 1..n, i < j PROVE OlderThan(s[j], s[i])
    BY <1>5 DEF Descending
  <2>1. Cardinality(below[s[i]]) < Cardinality(below[s[j]]) /\ s[i] \in S /\ s[j] \in S
    BY SMTT(30), <1>2, <1>4
  <2>2. s[i] \in below[s[j]]
    BY <1>2, <2>1
  <2> QED
    BY <2>1, <2>2 DEF Newer
<1>8. ASSUME NEW m \in S PROVE \E i \in 1..n : s[i] = m
  <2> DEFINE k == Cardinality(below[m]) + 1
  <2>1. k \in 1..n /\ Cardinality(below[m]) = k - 1
    BY SMTT(30), <1>2
  <2> HIDE DEF k
  <2>2. s[k] \in S /\ Cardinality(below[s[k]]) = k - 1
    BY <1>4, <2>1
  <2>3. s[k] = m
    <3> SUFFICES ASSUME s[k] # m PROVE FALSE
      OBVIOUS
    <3>1. s[k] \in below[m] \/ m \in below[s[k]]
      BY <1>1, <2>2 DEF Ordered
    <3> QED
      BY SMTT(30), <1>2, <2>1, <2>2, <3>1
  <2> QED
    BY <2>1, <2>3
<1> QED
  BY <1>6, <1>7, <1>8 DEF n, s

\* The rows a page is taken from.
Window(before) ==
  {m \in messages : before = {} \/ \E c \in messages : c \in before /\ OlderThan(m, c)}

\* A page is the newest part of its window: what is left out is older than its
\* last row, and it is empty only if the window is.
LEMMA PageIsTop ==
  ASSUME Rows(messages), NEW before, NEW limit \in Nat \ {0},
         NEW page, page = PageBefore(before, limit), NEW W, W = Window(before)
  PROVE  /\ page \in Seq(W) /\ Descending(page)
         /\ page = <<>> => W = {}
         /\ \A m \in W : \/ \E i \in DOMAIN page : page[i] = m
                         \/ page # <<>> /\ OlderThan(m, OldestLine(page))
<1> DEFINE s == NewestFirst(W)
           n == Cardinality(W)
           k == IF n < limit THEN n ELSE limit
<1>1. Rows(W)
  <2>1. W \in SUBSET messages
    BY DEF Window
  <2>2. IsFiniteSet(W)
    BY <2>1, FS_Subset DEF Rows
  <2> QED
    BY <2>1, <2>2 DEF Rows
<1>2. /\ s \in Seq(W) /\ Len(s) = n /\ Descending(s)
      /\ \A m \in W : \E i \in 1..n : s[i] = m
  BY <1>1, NewestFirstSorts
<1>3. n \in Nat /\ (n = 0 <=> W = {})
  BY <1>1, FS_CardinalityType, FS_EmptySet DEF Rows
<1>4. page = SubSeq(s, 1, k)
  BY <1>2 DEF PageBefore, Window
<1>5. k \in 0..n /\ (k = 0 <=> n = 0)
  BY SMTT(30), <1>3
<1> HIDE DEF s, n, k
<1>6. page \in Seq(W) /\ Len(page) = k /\ \A i \in 1..k : page[i] = s[i]
  BY SMTT(30), <1>2, <1>3, <1>4, <1>5
<1>7. DOMAIN page = 1..k /\ DOMAIN s = 1..n /\ 1..k \subseteq 1..n
  BY SMTT(30), <1>2, <1>3, <1>5, <1>6
<1>8. Descending(page)
  BY <1>2, <1>6, <1>7 DEF Descending
<1>9. page = <<>> => W = {}
  BY <1>3, <1>5, <1>6
<1>10. ASSUME NEW m \in W PROVE \/ \E i \in DOMAIN page : page[i] = m
                                \/ page # <<>> /\ OlderThan(m, OldestLine(page))
  <2>1. PICK i \in 1..n : s[i] = m
    BY <1>2
  <2>2. CASE i \in 1..k
    BY <1>6, <1>7, <2>1, <2>2
  <2>3. CASE i \notin 1..k
    <3>1. k \in 1..k /\ k < i
      BY SMTT(30), <1>3, <1>5, <2>3
    <3>2. OlderThan(s[i], s[k])
      BY <1>2, <1>7, <3>1 DEF Descending
    <3>3. OldestLine(page) = s[k] /\ page # <<>>
      BY SMTT(30), <1>6, <3>1 DEF OldestLine
    <3> QED
      BY <2>1, <3>2, <3>3
  <2> QED
    BY <2>2, <2>3
<1> QED
  BY <1>6, <1>8, <1>9, <1>10

LEMMA LimitPositive ==
  ASSUME NEW l \in Limit
  PROVE  PageLimit(l) \in Nat \ {0}
<1>1. l \in Nat /\ defaultMessagePage \in Nat \ {0}
  BY ChatAssumption
<1> QED
  BY <1>1 DEF PageLimit

----------------------------------------------------------------------------
(* The invariant *)

Post == {NoPost} \cup [pc : {"insert"}, author : ChatUser]
                \cup [pc : {"commit", "broadcast"}, row : Row]

Connected == [pc : {"open"}, got : {<<>>}, heard : SUBSET Row]
Paging == [pc : {"paging", "done"}, got : Seq(Row), heard : SUBSET Row,
           base : SUBSET Row, lost : BOOLEAN]

ChatTypes ==
  /\ chatMembers \subseteq ChatUser /\ authors \subseteq ChatUser
  /\ clock \in Nat
  /\ Rows(messages)
  /\ posts \in [Poster -> Post]
  /\ reader = Away \/ reader \in Connected \/ reader \in Paging

Committing(p) == posts[p].pc = "commit"

\* Ids are unique, also among the rows about to be committed; a line that is
\* there, or about to be, has an author.
ChatRows ==
  /\ \A m \in messages : m.author \in authors
  /\ \A p \in Poster : Committing(p) =>
       /\ posts[p].row.author \in authors
       /\ \A m \in messages : m.id # posts[p].row.id
       /\ \A q \in Poster \ {p} : Committing(q) => posts[q].row.id # posts[p].row.id

\* A line that was there when paging began is there, or its author is not: it
\* does not come back.  And a first page is empty only in an empty room.
BaseStays ==
  reader \in Paging =>
    /\ \A m \in reader.base : m \in messages \/ m.author \notin authors
    /\ reader.got = <<>> => reader.base = {}

\* A line that came later was heard, or is about to be announced.
LaterHeard ==
  reader \in Paging =>
    \A m \in messages :
      \/ m \in reader.base \cup reader.heard \/ m.author = Reader
      \/ \E p \in Poster : posts[p].pc = "broadcast" /\ posts[p].row = m

ChatInv == ChatTypes /\ ChatRows /\ BaseStays /\ LaterHeard /\ NoRowRepeated /\ NoRowSkipped

LEMMA ReaderCases ==
  ASSUME ChatTypes
  PROVE  /\ reader.pc = "away" => reader = Away
         /\ reader.pc = "open" => reader \in Connected
         /\ reader.pc \in {"paging", "done"} <=> reader \in Paging
<1>1. CASE reader = Away
  BY <1>1 DEF Away, Paging
<1>2. CASE reader \in Connected
  BY <1>2 DEF Connected, Paging
<1>3. CASE reader \in Paging
  BY <1>3 DEF Paging
<1> QED
  BY <1>1, <1>2, <1>3 DEF ChatTypes

LEMMA PostCases ==
  ASSUME ChatTypes, NEW p \in Poster
  PROVE  /\ posts[p].pc = "insert" => posts[p].author \in ChatUser
         /\ posts[p].pc \in {"commit", "broadcast"} =>
              posts[p].row \in Row /\ posts[p] = [pc |-> posts[p].pc, row |-> posts[p].row]
<1>1. posts[p] \in Post
  BY DEF ChatTypes
<1>2. CASE posts[p] = NoPost
  BY SMTT(30), <1>2 DEF NoPost
<1>3. CASE posts[p] \in [pc : {"insert"}, author : ChatUser]
  BY <1>3
<1>4. CASE posts[p] \in [pc : {"commit", "broadcast"}, row : Row]
  BY <1>4
<1> QED
  BY <1>1, <1>2, <1>3, <1>4 DEF Post

\* The other posts stay where they are.
Set(p, x) ==
  /\ posts' \in [Poster -> Post]
  /\ posts'[p] = x
  /\ \A q \in Poster \ {p} : posts'[q] = posts[q]

LEMMA SetPost ==
  ASSUME ChatTypes, NEW p \in Poster, NEW x \in Post, posts' = [posts EXCEPT ![p] = x]
  PROVE  Set(p, x)
  BY DEF ChatTypes, Set

LEMMA PostStartSets ==
  ASSUME ChatTypes, NEW p \in Poster, NEW u \in ChatUser, PostStart(p, u)
  PROVE  Set(p, [pc |-> "insert", author |-> u])
<1>1. [pc |-> "insert", author |-> u] \in Post
  BY DEF Post
<1> QED
  BY <1>1, SetPost DEF PostStart

LEMMA PostInsertSets ==
  ASSUME ChatTypes, NEW p \in Poster, NEW id \in 1..MaxMessages, PostInsert(p, id)
  PROVE  LET row == [id |-> id, at |-> clock, author |-> posts[p].author]
         IN  \/ Set(p, NoPost)
             \/ row.author \in authors /\ row \in Row /\ Set(p, [pc |-> "commit", row |-> row])
<1> DEFINE row == [id |-> id, at |-> clock, author |-> posts[p].author]
<1>1. posts[p].author \in ChatUser /\ clock \in Nat /\ id \in Nat
  BY SMTT(30), PostCases, ChatAssumption DEF PostInsert, ChatTypes
<1>2. row \in Row
  BY <1>1 DEF Row
<1>3. NoPost \in Post /\ [pc |-> "commit", row |-> row] \in Post
  BY <1>2 DEF Post
<1>4. CASE posts[p].author \in authors
  <2>1. posts' = [posts EXCEPT ![p] = [pc |-> "commit", row |-> row]]
    BY <1>4 DEF PostInsert
  <2> QED
    BY <1>2, <1>3, <1>4, <2>1, SetPost
<1>5. CASE posts[p].author \notin authors
  <2>1. posts' = [posts EXCEPT ![p] = NoPost]
    BY <1>5 DEF PostInsert
  <2> QED
    BY <1>3, <2>1, SetPost
<1> QED
  BY <1>4, <1>5

LEMMA PostCommitSets ==
  ASSUME ChatTypes, NEW p \in Poster, PostCommit(p)
  PROVE  Set(p, [pc |-> "broadcast", row |-> posts[p].row]) /\ posts[p].row \in Row
<1>1. posts[p].row \in Row /\ posts[p] = [pc |-> posts[p].pc, row |-> posts[p].row]
  BY PostCases DEF PostCommit
<1> DEFINE x == [posts[p] EXCEPT !.pc = "broadcast"]
<1>2. x = [pc |-> "broadcast", row |-> posts[p].row]
  BY SMTT(30), <1>1
<1>3. [pc |-> "broadcast", row |-> posts[p].row] \in Post
  BY <1>1 DEF Post
<1>4. posts' = [posts EXCEPT ![p] = x]
  BY DEF PostCommit
<1> HIDE DEF x
<1> QED
  BY <1>1, <1>2, <1>3, <1>4, SetPost

LEMMA PostBroadcastSets ==
  ASSUME ChatTypes, NEW p \in Poster, PostBroadcast(p)
  PROVE  Set(p, NoPost) /\ posts[p].row \in Row
<1>1. posts[p].row \in Row
  BY PostCases DEF PostBroadcast
<1>2. NoPost \in Post
  BY DEF Post
<1> QED
  BY <1>1, <1>2, SetPost DEF PostBroadcast

----------------------------------------------------------------------------
(* Posting *)

\* A step that changes nothing the reader's properties look at.
LEMMA SameLines ==
  ASSUME ChatInv, ChatTypes', UNCHANGED <<messages, reader>>
  PROVE  NoRowRepeated' /\ NoRowSkipped'
<1>1. Held' = Held
  BY DEF Held
<1> QED
  BY <1>1 DEF ChatInv, NoRowRepeated, NoRowSkipped

\* A post moves on without committing or announcing a line.
LEMMA PostMoves ==
  ASSUME ChatInv, NEW p \in Poster, NEW x, Set(p, x), posts[p].pc # "broadcast",
         UNCHANGED <<chatMembers, authors, clock, messages, reader>>,
         x.pc = "commit" => x.row.author \in authors /\ x.row.id \notin Drawn
  PROVE  ChatInv'
<1>1. ChatTypes'
  BY DEF ChatInv, ChatTypes, Set
<1>2. ChatRows'
  <2>1. x.pc = "commit" => /\ \A m \in messages : m.id # x.row.id
                           /\ \A q \in Poster : Committing(q) => posts[q].row.id # x.row.id
    BY DEF Drawn, Committing
  <2>2. \A q \in Poster \ {p} : posts'[q] = posts[q] /\ (Committing(q)' <=> Committing(q))
    BY DEF Set, Committing
  <2>3. posts'[p] = x /\ (Committing(p)' <=> x.pc = "commit")
    BY DEF Set, Committing
  <2>4. ASSUME NEW q \in Poster, Committing(q)'
        PROVE  /\ posts'[q].row.author \in authors
               /\ \A m \in messages : m.id # posts'[q].row.id
               /\ \A r \in Poster \ {q} : Committing(r)' => posts'[r].row.id # posts'[q].row.id
    <3>1. CASE q = p
      BY <2>1, <2>2, <2>3, <2>4, <3>1
    <3>2. CASE q # p
      BY <2>1, <2>2, <2>3, <2>4, <3>2 DEF ChatInv, ChatRows
    <3> QED
      BY <3>1, <3>2
  <2> QED
    BY <2>4 DEF ChatInv, ChatRows
<1>3. BaseStays'
  BY DEF ChatInv, BaseStays
<1>4. LaterHeard'
  <2>1. \A q \in Poster : posts[q].pc = "broadcast" => posts'[q] = posts[q]
    BY DEF Set
  <2> QED
    BY <2>1 DEF ChatInv, LaterHeard
<1> QED
  BY <1>1, <1>2, <1>3, <1>4, SameLines DEF ChatInv

LEMMA PostStartInv ==
  ASSUME ChatInv, NEW p \in Poster, NEW u \in ChatUser, PostStart(p, u)
  PROVE  ChatInv'
<1>1. Set(p, [pc |-> "insert", author |-> u])
  BY PostStartSets DEF ChatInv
<1> QED
  BY <1>1, PostMoves DEF PostStart

LEMMA PostInsertInv ==
  ASSUME ChatInv, NEW p \in Poster, NEW id \in 1..MaxMessages, PostInsert(p, id)
  PROVE  ChatInv'
<1> DEFINE row == [id |-> id, at |-> clock, author |-> posts[p].author]
<1>1. \/ Set(p, NoPost)
      \/ row.author \in authors /\ row \in Row /\ Set(p, [pc |-> "commit", row |-> row])
  BY PostInsertSets DEF ChatInv
<1>2. /\ id \notin Drawn /\ posts[p].pc # "broadcast"
      /\ UNCHANGED <<chatMembers, authors, clock, messages, reader>>
  BY DEF PostInsert
<1>3. CASE Set(p, NoPost)
  BY <1>2, <1>3, PostMoves DEF NoPost
<1>4. CASE row.author \in authors /\ Set(p, [pc |-> "commit", row |-> row])
  <2> DEFINE x == [pc |-> "commit", row |-> row]
  <2>1. Set(p, x) /\ x.pc = "commit" /\ x.row.author \in authors /\ x.row.id \notin Drawn
    BY <1>2, <1>4
  <2> HIDE DEF x
  <2> QED
    BY <1>2, <2>1, PostMoves
<1> QED
  BY <1>1, <1>3, <1>4

LEMMA PostCommitInv ==
  ASSUME ChatInv, NEW p \in Poster, PostCommit(p)
  PROVE  ChatInv'
<1> DEFINE new == posts[p].row
           x == [pc |-> "broadcast", row |-> new]
<1>1. Set(p, x) /\ new \in Row /\ x.pc = "broadcast" /\ x.row = new
  BY PostCommitSets DEF ChatInv
<1>2. /\ Committing(p) /\ messages' = messages \cup {new}
      /\ UNCHANGED <<chatMembers, authors, clock, reader>>
  BY DEF PostCommit, Committing
<1>3. new.author \in authors /\ \A m \in messages : m.id # new.id
  BY <1>2 DEF ChatInv, ChatRows
<1>4. \A q \in Poster \ {p} : Committing(q) => posts[q].row.id # new.id
  BY <1>2 DEF ChatInv, ChatRows
<1> HIDE DEF new, x
<1>5. posts'[p] = x /\ \A q \in Poster \ {p} : posts'[q] = posts[q]
  BY <1>1 DEF Set
<1>6. \A q \in Poster : Committing(q)' => q # p /\ Committing(q) /\ posts'[q] = posts[q]
  BY <1>1, <1>5 DEF Committing
<1>7. Rows(messages')
  <2>1. IsFiniteSet(messages) /\ messages \subseteq Row
        /\ \A m, n \in messages : m.id = n.id => m = n
    BY DEF ChatInv, ChatTypes, Rows
  <2>2. IsFiniteSet(messages')
    BY <1>2, <2>1, FS_AddElement
  <2>3. \A m, n \in messages' : m.id = n.id => m = n
    BY <1>2, <1>3, <2>1
  <2> QED
    BY <1>1, <1>2, <2>1, <2>2, <2>3 DEF Rows
<1>8. ChatTypes'
  BY <1>1, <1>2, <1>7 DEF ChatInv, ChatTypes, Set
<1>9. ChatRows'
  <2>1. \A m \in messages' : m.author \in authors'
    BY <1>2, <1>3 DEF ChatInv, ChatRows
  <2>2. ASSUME NEW q \in Poster, Committing(q)'
        PROVE  /\ posts'[q].row.author \in authors'
               /\ \A m \in messages' : m.id # posts'[q].row.id
               /\ \A r \in Poster \ {q} : Committing(r)' => posts'[r].row.id # posts'[q].row.id
    <3>1. q # p /\ Committing(q) /\ posts'[q] = posts[q]
      BY <1>6, <2>2
    <3>2. /\ posts[q].row.author \in authors
          /\ \A m \in messages : m.id # posts[q].row.id
          /\ \A r \in Poster \ {q} : Committing(r) => posts[r].row.id # posts[q].row.id
      BY <3>1 DEF ChatInv, ChatRows
    <3> QED
      BY <1>2, <1>4, <1>6, <3>1, <3>2
  <2> QED
    BY <2>1, <2>2 DEF ChatRows
<1>10. new \notin reader.base \/ reader \notin Paging
  BY <1>3 DEF ChatInv, BaseStays
<1>11. BaseStays'
  BY <1>2 DEF ChatInv, BaseStays
<1>12. LaterHeard'
  <2> SUFFICES ASSUME reader \in Paging, NEW m \in messages'
               PROVE  \/ m \in reader.base \cup reader.heard \/ m.author = Reader
                      \/ \E q \in Poster : posts'[q].pc = "broadcast" /\ posts'[q].row = m
    BY <1>2 DEF LaterHeard
  <2>1. CASE m = new
    BY <1>1, <1>5, <2>1
  <2>2. CASE m \in messages
    <3>1. \A q \in Poster : posts[q].pc = "broadcast" => posts'[q] = posts[q]
      BY <1>2, <1>5 DEF Committing
    <3> QED
      BY <2>2, <3>1 DEF ChatInv, LaterHeard
  <2> QED
    BY <1>2, <2>1, <2>2
<1>13. NoRowRepeated'
  BY <1>2 DEF ChatInv, NoRowRepeated
<1>14. NoRowSkipped'
  <2> SUFFICES ASSUME reader.pc \in {"paging", "done"}, NEW m \in reader.base \cap messages'
               PROVE  \/ m \in Held'
                      \/ reader.pc = "paging" /\ (reader.got # <<>> => OlderThan(m, OldestLine(reader.got)))
                      \/ reader.pc = "done" /\ reader.lost
    BY <1>2 DEF NoRowSkipped
  <2>1. m \in messages
    BY <1>2, <1>10, ReaderCases DEF ChatInv
  <2>2. Held \subseteq Held'
    BY <1>2 DEF Held
  <2> QED
    BY <2>1, <2>2 DEF ChatInv, NoRowSkipped
<1> QED
  BY <1>8, <1>9, <1>11, <1>12, <1>13, <1>14 DEF ChatInv

\* The reader hears of a line: nothing else it holds changes.
LEMMA HearLine ==
  ASSUME ChatTypes, NEW m \in Row, reader.pc # "away",
         reader' = [reader EXCEPT !.heard = @ \cup {m}]
  PROVE  /\ reader' \in Connected \/ reader' \in Paging
         /\ reader' \in Paging <=> reader \in Paging
         /\ reader'.pc = reader.pc /\ reader'.got = reader.got
         /\ reader'.heard = reader.heard \cup {m}
         /\ reader \in Paging => reader'.base = reader.base /\ reader'.lost = reader.lost
<1>1. reader # Away
  BY SMTT(30) DEF Away
<1>2. CASE reader \in Connected
  <2>1. reader' \in Connected /\ reader'.pc = reader.pc /\ reader'.got = reader.got
        /\ reader'.heard = reader.heard \cup {m}
    BY <1>2 DEF Connected
  <2>2. reader \notin Paging /\ reader' \notin Paging
    BY <1>2, <2>1 DEF Connected, Paging
  <2> QED
    BY <2>1, <2>2
<1>3. CASE reader \in Paging
  BY <1>3 DEF Paging
<1> QED
  BY <1>1, <1>2, <1>3 DEF ChatTypes

LEMMA PostBroadcastInv ==
  ASSUME ChatInv, NEW p \in Poster, PostBroadcast(p)
  PROVE  ChatInv'
<1> DEFINE new == posts[p].row
<1>1. /\ Set(p, NoPost) /\ new \in Row /\ posts[p].pc = "broadcast"
      /\ UNCHANGED <<chatMembers, authors, clock, messages>>
  BY PostBroadcastSets DEF ChatInv, PostBroadcast
<1>2. \/ reader' = reader /\ (reader.pc = "away" \/ new.author = Reader)
      \/ reader.pc # "away" /\ reader' = [reader EXCEPT !.heard = @ \cup {new}]
  BY DEF PostBroadcast
<1> HIDE DEF new
<1>3. /\ reader' = Away \/ reader' \in Connected \/ reader' \in Paging
      /\ reader' \in Paging <=> reader \in Paging
      /\ reader'.pc = reader.pc /\ reader'.got = reader.got
      /\ reader \in Paging => reader'.base = reader.base /\ reader'.lost = reader.lost
      /\ reader \in Paging => reader.heard \subseteq reader'.heard
      /\ reader \in Paging => new \in reader'.heard \/ new.author = Reader
  <2>1. CASE reader' = reader
    BY SMTT(30), <1>2, <2>1, ReaderCases DEF ChatInv, ChatTypes, Paging
  <2>2. CASE reader.pc # "away" /\ reader' = [reader EXCEPT !.heard = @ \cup {new}]
    BY <1>1, <2>2, HearLine DEF ChatInv
  <2> QED
    BY <1>2, <2>1, <2>2
<1>4. ChatTypes'
  BY <1>1, <1>3 DEF ChatInv, ChatTypes, Set
<1>5. ChatRows'
  <2>1. \A q \in Poster : Committing(q)' => Committing(q) /\ posts'[q] = posts[q]
    BY SMTT(30), <1>1 DEF Set, Committing, NoPost
  <2> QED
    BY <1>1, <2>1 DEF ChatInv, ChatRows
<1>6. BaseStays'
  BY <1>1, <1>3 DEF ChatInv, BaseStays
<1>7. LaterHeard'
  <2> SUFFICES ASSUME reader \in Paging, NEW m \in messages
               PROVE  \/ m \in reader'.base \cup reader'.heard \/ m.author = Reader
                      \/ \E q \in Poster : posts'[q].pc = "broadcast" /\ posts'[q].row = m
    BY <1>1, <1>3 DEF LaterHeard
  <2>1. CASE m = new
    BY <1>3, <2>1
  <2>2. CASE m # new
    <3>1. \A q \in Poster : posts[q].pc = "broadcast" /\ posts[q].row = m => posts'[q] = posts[q]
      BY <1>1, <2>2 DEF Set, new
    <3>2. \/ m \in reader.base \cup reader.heard \/ m.author = Reader
          \/ \E q \in Poster : posts[q].pc = "broadcast" /\ posts[q].row = m
      BY DEF ChatInv, LaterHeard
    <3> QED
      BY <1>3, <3>1, <3>2
  <2> QED
    BY <2>1, <2>2
<1>8. NoRowRepeated'
  BY SMTT(30), <1>3 DEF ChatInv, NoRowRepeated
<1>9. NoRowSkipped'
  <2>1. Held' = Held
    BY <1>1, <1>3 DEF Held
  <2>2. reader.pc \in {"paging", "done"} => reader \in Paging
    BY ReaderCases DEF ChatInv
  <2> QED
    BY <1>1, <1>3, <2>1, <2>2 DEF ChatInv, NoRowSkipped
<1> QED
  BY SMTT(30), <1>4, <1>5, <1>6, <1>7, <1>8, <1>9 DEF ChatInv

----------------------------------------------------------------------------
(* Members, authors and the clock *)

\* A reader without lines: nothing is promised yet.
LEMMA NothingHeld ==
  ASSUME ChatTypes', ChatRows', reader' = Away \/ reader' \in Connected
  PROVE  ChatInv'
<1>1. reader' \notin Paging /\ reader'.pc \notin {"paging", "done"} /\ reader'.got = <<>>
  BY SMTT(30) DEF Away, Connected, Paging
<1>2. BaseStays' /\ LaterHeard' /\ NoRowSkipped'
  BY <1>1 DEF BaseStays, LaterHeard, NoRowSkipped
<1>3. NoRowRepeated'
  <2>1. DOMAIN reader'.got = {}
    BY SMTT(30), <1>1
  <2> QED
    BY <2>1 DEF NoRowRepeated
<1> QED
  BY <1>2, <1>3 DEF ChatInv

LEMMA OpenSocketInv ==
  ASSUME ChatInv, OpenSocket
  PROVE  ChatInv'
<1>1. reader = Away /\ UNCHANGED <<chatMembers, authors, clock, messages, posts>>
  BY ReaderCases DEF ChatInv, OpenSocket
<1>2. reader' \in Connected
  BY <1>1 DEF OpenSocket, Away, Connected
<1>3. ChatTypes'
  BY <1>1, <1>2 DEF ChatInv, ChatTypes
<1>4. ChatRows'
  BY <1>1 DEF ChatInv, ChatRows, Committing
<1> QED
  BY <1>2, <1>3, <1>4, NothingHeld

LEMMA QuietInv ==
  ASSUME ChatInv, chatMembers' \subseteq ChatUser, clock' \in Nat,
         UNCHANGED <<authors, messages, posts, reader>>
  PROVE  ChatInv'
<1>1. ChatTypes'
  BY DEF ChatInv, ChatTypes
<1>2. ChatRows' /\ BaseStays' /\ LaterHeard'
  BY SMTT(30) DEF ChatInv, ChatRows, Committing, BaseStays, LaterHeard
<1> QED
  BY <1>1, <1>2, SameLines DEF ChatInv

LEMMA MembershipInv ==
  ASSUME ChatInv, NEW u \in ChatUser, LoseMembership(u) \/ GainMembership(u)
  PROVE  ChatInv'
<1>1. chatMembers' \subseteq ChatUser /\ UNCHANGED <<authors, clock, messages, posts>>
  BY DEF LoseMembership, GainMembership, ChatInv, ChatTypes
<1>2. CASE reader' = reader
  BY <1>1, <1>2, QuietInv DEF ChatInv, ChatTypes
<1>3. CASE reader' = Away
  <2>1. ChatTypes'
    BY <1>1, <1>3 DEF ChatInv, ChatTypes
  <2>2. ChatRows'
    BY <1>1 DEF ChatInv, ChatRows, Committing
  <2> QED
    BY <1>3, <2>1, <2>2, NothingHeld
<1> QED
  BY <1>2, <1>3 DEF LoseMembership, GainMembership

LEMMA PurgeInv ==
  ASSUME ChatInv, NEW u \in ChatUser, PurgeAuthor(u)
  PROVE  ChatInv'
<1>1. /\ authors' = authors \ {u} /\ chatMembers' = chatMembers \ {u}
      /\ messages' = {m \in messages : m.author # u} /\ UNCHANGED <<clock, posts>>
      /\ reader' = reader \/ reader' = Away
      /\ \A p \in Poster : Committing(p) => posts[p].row.author # u
  BY DEF PurgeAuthor, Committing
<1>2. messages' \in SUBSET messages
  BY <1>1
<1>3. Rows(messages')
  <2>1. IsFiniteSet(messages')
    BY <1>2, FS_Subset DEF ChatInv, ChatTypes, Rows
  <2> QED
    BY <1>2, <2>1 DEF ChatInv, ChatTypes, Rows
<1>4. ChatTypes'
  BY <1>1, <1>3 DEF ChatInv, ChatTypes
<1>5. ChatRows'
  <2>1. \A m \in messages' : m.author \in authors'
    BY <1>1 DEF ChatInv, ChatRows
  <2>2. ASSUME NEW p \in Poster, Committing(p)
        PROVE  /\ posts[p].row.author \in authors'
               /\ \A m \in messages' : m.id # posts[p].row.id
               /\ \A q \in Poster \ {p} : Committing(q) => posts[q].row.id # posts[p].row.id
    BY <1>1, <1>2, <2>2 DEF ChatInv, ChatRows
  <2> QED
    BY <1>1, <2>1, <2>2 DEF ChatRows, Committing
<1>6. CASE reader' = Away
  BY <1>4, <1>5, <1>6, NothingHeld
<1>7. CASE reader' = reader
  <2>1. BaseStays'
    BY <1>1, <1>7 DEF ChatInv, BaseStays
  <2>2. LaterHeard'
    BY <1>1, <1>2, <1>7 DEF ChatInv, LaterHeard
  <2>3. NoRowRepeated'
    BY <1>7 DEF ChatInv, NoRowRepeated
  <2>4. NoRowSkipped'
    <3>1. Held' = Held \cap messages'
      BY <1>2, <1>7 DEF Held
    <3> QED
      BY <1>2, <1>7, <3>1 DEF ChatInv, NoRowSkipped
  <2> QED
    BY SMTT(30), <1>4, <1>5, <2>1, <2>2, <2>3, <2>4 DEF ChatInv
<1> QED
  BY <1>1, <1>6, <1>7

----------------------------------------------------------------------------
(* Paging *)

LEMMA FirstPageInv ==
  ASSUME ChatInv, NEW l \in Limit, FirstPage(l)
  PROVE  ChatInv'
<1> DEFINE page == PageBefore({}, PageLimit(l))
<1>1. /\ reader' = [pc |-> "paging", got |-> page, heard |-> reader.heard,
                    base |-> messages, lost |-> FALSE]
      /\ UNCHANGED <<chatMembers, authors, clock, messages, posts>>
  BY DEF FirstPage
<1>2. messages = Window({})
  BY DEF Window
<1>3. Rows(messages)
  BY DEF ChatInv, ChatTypes
<1> HIDE DEF page
<1>4. /\ page \in Seq(messages) /\ Descending(page)
      /\ page = <<>> => messages = {}
      /\ \A m \in messages : \/ \E i \in DOMAIN page : page[i] = m
                             \/ page # <<>> /\ OlderThan(m, OldestLine(page))
  <2>1. PageLimit(l) \in Nat \ {0}
    BY LimitPositive
  <2>2. page = PageBefore({}, PageLimit(l))
    BY DEF page
  <2> HIDE DEF Window, PageBefore
  <2> QED
    BY <1>2, <1>3, <2>1, <2>2, PageIsTop
<1>5. reader' \in Paging
  <2>1. page \in Seq(Row) /\ messages \subseteq Row
    BY SMTT(30), <1>3, <1>4 DEF Rows
  <2>2. reader.heard \subseteq Row
    BY ReaderCases DEF ChatInv, FirstPage, Connected
  <2> QED
    BY <1>1, <2>1, <2>2 DEF Paging
<1>6. /\ reader'.got = page /\ reader'.base = messages /\ reader'.pc = "paging"
  BY <1>1
<1>7. ChatTypes'
  BY <1>1, <1>5 DEF ChatInv, ChatTypes
<1>8. ChatRows'
  BY <1>1 DEF ChatInv, ChatRows, Committing
<1>9. BaseStays' /\ LaterHeard'
  BY <1>1, <1>4, <1>6 DEF BaseStays, LaterHeard
<1>10. NoRowRepeated'
  BY <1>4, <1>6 DEF NoRowRepeated, Descending, OlderThan
<1>11. NoRowSkipped'
  <2> SUFFICES ASSUME NEW m \in messages
               PROVE  \/ m \in Held'
                      \/ reader'.got # <<>> => OlderThan(m, OldestLine(reader'.got))
    BY <1>1, <1>6 DEF NoRowSkipped
  <2>1. (\E i \in DOMAIN page : page[i] = m) => m \in Held'
    BY <1>1, <1>6 DEF Held
  <2> QED
    BY <1>4, <1>6, <2>1
<1> QED
  BY <1>7, <1>8, <1>9, <1>10, <1>11 DEF ChatInv

\* A page of rows older than the last one held is appended.
LEMMA AppendPage ==
  ASSUME NEW got \in Seq(Row), got # <<>>, NEW page \in Seq(Row),
         Descending(got), Descending(page),
         \A i \in DOMAIN page : OlderThan(page[i], OldestLine(got))
  PROVE  /\ got \o page \in Seq(Row) /\ Descending(got \o page) /\ got \o page # <<>>
         /\ \A i \in DOMAIN got : \E j \in DOMAIN (got \o page) : (got \o page)[j] = got[i]
         /\ \A i \in DOMAIN page : \E j \in DOMAIN (got \o page) : (got \o page)[j] = page[i]
         /\ page # <<>> => OldestLine(got \o page) = OldestLine(page)
<1> DEFINE all == got \o page
           n == Len(got)
           k == Len(page)
<1>1. n \in Nat /\ n > 0 /\ k \in Nat
  BY SMTT(30), EmptySeq, LenProperties
<1>2. /\ all \in Seq(Row) /\ Len(all) = n + k
      /\ \A i \in 1..n : all[i] = got[i]
      /\ \A i \in (n + 1)..(n + k) : all[i] = page[i - n]
  BY SMTT(30), <1>1
<1>3. DOMAIN got = 1..n /\ DOMAIN page = 1..k /\ DOMAIN all = 1..(n + k)
  BY SMTT(30), <1>2
<1>4. OldestLine(got) = got[n]
  BY DEF OldestLine
<1> HIDE DEF all
<1>5. Descending(all)
  <2> SUFFICES ASSUME NEW i \in 1..(n + k), NEW j \in 1..(n + k), i < j
               PROVE  OlderThan(all[j], all[i])
    BY <1>3 DEF Descending
  <2>1. CASE j <= n
    <3>1. i \in 1..n /\ j \in 1..n
      BY SMTT(30), <1>1, <2>1
    <3> QED
      BY <1>2, <1>3, <3>1 DEF Descending
  <2>2. CASE i > n
    <3>1. i - n \in 1..k /\ j - n \in 1..k /\ i - n < j - n
          /\ all[i] = page[i - n] /\ all[j] = page[j - n]
      BY SMTT(30), <1>1, <1>2, <2>2
    <3> QED
      BY <1>3, <3>1 DEF Descending
  <2>3. CASE i <= n /\ j > n
    <3>1. i \in 1..n /\ n \in 1..n /\ j - n \in 1..k
          /\ all[i] = got[i] /\ all[j] = page[j - n]
      BY SMTT(30), <1>1, <1>2, <2>3
    <3>2. OlderThan(page[j - n], got[n])
      BY <1>3, <1>4, <3>1
    <3>3. i = n \/ OlderThan(got[n], got[i])
      <4>1. i = n \/ i < n
        BY SMTT(30), <1>1, <3>1
      <4> QED
        BY <1>3, <3>1, <4>1 DEF Descending
    <3>4. got[i] \in Row /\ got[n] \in Row /\ page[j - n] \in Row
      BY SMTT(30), <1>3, <3>1
    <3> QED
      BY <3>1, <3>2, <3>3, <3>4, OlderOrder
  <2> QED
    BY SMTT(30), <1>1, <2>1, <2>2, <2>3
<1>6. \A i \in DOMAIN got : \E j \in DOMAIN all : all[j] = got[i]
  BY SMTT(30), <1>1, <1>2, <1>3
<1>7. ASSUME NEW i \in DOMAIN page PROVE \E j \in DOMAIN all : all[j] = page[i]
  <2>1. n + i \in (n + 1)..(n + k) /\ n + i \in 1..(n + k) /\ (n + i) - n = i
    BY SMTT(30), <1>1, <1>3
  <2> QED
    BY <1>2, <1>3, <2>1
<1>8. page # <<>> => OldestLine(all) = OldestLine(page)
  <2> SUFFICES ASSUME page # <<>> PROVE all[n + k] = page[k]
    BY <1>2 DEF OldestLine
  <2>1. k > 0
    BY SMTT(30), EmptySeq, LenProperties
  <2>2. n + k \in (n + 1)..(n + k) /\ (n + k) - n = k
    BY SMTT(30), <1>1, <2>1
  <2> QED
    BY <1>2, <2>2
<1>9. all # <<>>
  BY SMTT(30), <1>1, <1>2
<1> QED
  BY <1>2, <1>5, <1>6, <1>7, <1>8, <1>9 DEF all

\* What NextPage does, for a reader that has begun to page.
LEMMA NextPageSets ==
  ASSUME ChatInv, NEW l, NextPage(l),
         NEW page, page = IF reader.got = <<>> THEN <<>>
                          ELSE PageBefore({OldestLine(reader.got)}, PageLimit(l)),
         page \in Seq(Row), reader.got \o page \in Seq(Row)
  PROVE  /\ reader \in Paging /\ reader' \in Paging /\ reader.pc = "paging"
         /\ reader'.pc = IF page = <<>> THEN "done" ELSE "paging"
         /\ reader'.got = reader.got \o page
         /\ reader'.base = reader.base /\ reader'.heard = reader.heard
         /\ reader'.lost = (reader.got # <<>> /\ OldestLine(reader.got) \notin messages)
         /\ UNCHANGED <<chatMembers, authors, clock, messages, posts>>
<1>1. reader \in Paging /\ reader.pc = "paging"
  BY ReaderCases DEF ChatInv, NextPage
<1>2. reader' = [reader EXCEPT !.pc = IF page = <<>> THEN "done" ELSE "paging",
                               !.got = reader.got \o page,
                               !.lost = reader.got # <<>> /\ ~ {OldestLine(reader.got)} \subseteq messages]
  BY DEF NextPage
<1>3. UNCHANGED <<chatMembers, authors, clock, messages, posts>>
  BY DEF NextPage
<1>4. (reader.got # <<>> /\ ~ {OldestLine(reader.got)} \subseteq messages) =
      (reader.got # <<>> /\ OldestLine(reader.got) \notin messages)
  OBVIOUS
<1> QED
  BY <1>1, <1>2, <1>3, <1>4 DEF Paging

LEMMA NextPageInv ==
  ASSUME ChatInv, NEW l \in Limit, NextPage(l)
  PROVE  ChatInv'
<1> DEFINE page == IF reader.got = <<>> THEN <<>>
                   ELSE PageBefore({OldestLine(reader.got)}, PageLimit(l))
           got == reader.got
           c == OldestLine(reader.got)
           W == Window({c})
<1>1. /\ reader \in Paging /\ reader.pc = "paging" /\ got \in Seq(Row)
      /\ reader.base \subseteq Row
  BY ReaderCases DEF ChatInv, NextPage, Paging
<1>2. Rows(messages) /\ messages \subseteq Row /\ PageLimit(l) \in Nat \ {0}
  BY LimitPositive DEF ChatInv, ChatTypes, Rows
<1>3. Descending(got)
  BY DEF ChatInv, NoRowRepeated, Descending, OlderThan
<1>4. W = {m \in messages : c \in messages /\ OlderThan(m, c)}
  BY DEF Window
<1>5. ASSUME got # <<>>
      PROVE  /\ page \in Seq(W) /\ Descending(page)
             /\ page = <<>> => W = {}
             /\ \A m \in W : \/ \E i \in DOMAIN page : page[i] = m
                             \/ page # <<>> /\ OlderThan(m, OldestLine(page))
  <2>1. page = PageBefore({c}, PageLimit(l))
    BY <1>5
  <2> HIDE DEF page, got, c, W
  <2>2. W = Window({c})
    BY DEF W
  <2> HIDE DEF Window, PageBefore
  <2> QED
    BY <1>2, <2>1, <2>2, PageIsTop
<1>6. page = IF got = <<>> THEN <<>> ELSE PageBefore({c}, PageLimit(l))
  OBVIOUS
<1> HIDE DEF page, W
<1>7. page \in Seq(Row)
  <2>1. CASE got = <<>>
    BY SMTT(30), <1>6, <2>1
  <2>2. CASE got # <<>>
    BY SMTT(30), <1>2, <1>4, <1>5, <2>2
  <2> QED
    BY <2>1, <2>2
<1>8. /\ got \o page \in Seq(Row) /\ Descending(got \o page)
      /\ got # <<>> => got \o page # <<>>
      /\ \A i \in DOMAIN got : \E j \in DOMAIN (got \o page) : (got \o page)[j] = got[i]
      /\ got # <<>> => \A i \in DOMAIN page :
                         \E j \in DOMAIN (got \o page) : (got \o page)[j] = page[i]
      /\ page # <<>> => got # <<>> /\ OldestLine(got \o page) = OldestLine(page)
  <2>1. CASE got = <<>>
    <3>1. page = <<>> /\ got \o page = <<>>
      BY SMTT(30), <1>6, <2>1
    <3> QED
      BY <1>1, <1>3, <2>1, <3>1
  <2>2. CASE got # <<>>
    <3>1. \A i \in DOMAIN page : page[i] \in W
      BY SMTT(30), <1>5, <2>2
    <3>2. \A i \in DOMAIN page : OlderThan(page[i], OldestLine(got))
      BY <1>4, <3>1
    <3>3. Descending(page)
      BY <1>5, <2>2
    <3> HIDE DEF got
    <3> QED
      BY <1>1, <1>3, <1>7, <2>2, <3>2, <3>3, AppendPage
  <2> QED
    BY <2>1, <2>2
<1>9. /\ reader' \in Paging
      /\ reader'.pc = IF page = <<>> THEN "done" ELSE "paging"
      /\ reader'.got = got \o page
      /\ reader'.base = reader.base /\ reader'.heard = reader.heard
      /\ reader'.lost = (got # <<>> /\ c \notin messages)
      /\ UNCHANGED <<chatMembers, authors, clock, messages, posts>>
  BY <1>6, <1>7, <1>8, NextPageSets
<1> HIDE DEF got, c
<1>10. ChatTypes'
  BY <1>9 DEF ChatInv, ChatTypes
<1>11. ChatRows'
  BY <1>9 DEF ChatInv, ChatRows, Committing
<1>12. BaseStays'
  BY <1>1, <1>8, <1>9 DEF ChatInv, BaseStays, got
<1>13. LaterHeard'
  BY <1>1, <1>9 DEF ChatInv, LaterHeard
<1>14. NoRowRepeated'
  BY SMTT(30), <1>8, <1>9 DEF NoRowRepeated, Descending, OlderThan
<1>15. NoRowSkipped'
  <2> SUFFICES ASSUME NEW m \in reader.base \cap messages
               PROVE  \/ m \in Held'
                      \/ page # <<>> /\ (got \o page # <<>> => OlderThan(m, OldestLine(got \o page)))
                      \/ page = <<>> /\ reader'.lost
    BY <1>9 DEF NoRowSkipped
  <2>1. \A j \in DOMAIN (got \o page) : (got \o page)[j] = m => m \in Held'
    BY <1>9 DEF Held
  <2>2. got # <<>>
    BY <1>1 DEF ChatInv, BaseStays, got
  <2>3. m \in Held \/ OlderThan(m, c)
    BY <1>1, <2>2 DEF ChatInv, NoRowSkipped, got, c
  <2>4. CASE m \in Held
    <3>1. \E i \in DOMAIN got : got[i] = m
      BY <2>4 DEF Held, got
    <3> QED
      BY <1>8, <2>1, <3>1
  <2>5. CASE OlderThan(m, c) /\ c \in messages
    <3>1. m \in W
      BY <1>4, <2>5
    <3>2. \/ \E i \in DOMAIN page : page[i] = m
          \/ page # <<>> /\ OlderThan(m, OldestLine(page))
      BY <1>5, <2>2, <3>1
    <3> QED
      BY <1>8, <2>1, <2>2, <3>2
  <2>6. CASE c \notin messages
    <3>1. W = {}
      BY <1>4, <2>6
    <3>2. page = <<>>
      BY SMTT(30), <1>5, <2>2, <3>1
    <3> QED
      BY <1>9, <2>2, <2>6, <3>2
  <2> QED
    BY <2>3, <2>4, <2>5, <2>6
<1> QED
  BY SMTT(30), <1>10, <1>11, <1>12, <1>13, <1>14, <1>15 DEF ChatInv

----------------------------------------------------------------------------
(* Theorems *)

LEMMA ChatInvInit ==
  ASSUME ChatInit
  PROVE  ChatInv
<1>1. Rows(messages)
  BY FS_EmptySet DEF ChatInit, Rows
<1>2. ChatTypes
  BY <1>1 DEF ChatInit, ChatTypes, Post
<1>3. ChatRows
  BY DEF ChatInit, ChatRows, Committing, NoPost
<1>4. reader \notin Paging /\ reader.got = <<>> /\ reader.pc = "away"
  BY DEF ChatInit, Away, Paging
<1>5. NoRowRepeated
  <2>1. DOMAIN reader.got = {}
    BY SMTT(30), <1>4
  <2> QED
    BY <2>1 DEF NoRowRepeated
<1> QED
  BY <1>2, <1>3, <1>4, <1>5 DEF ChatInv, BaseStays, LaterHeard, NoRowSkipped

LEMMA ChatInvStep ==
  ASSUME ChatInv, [ChatNext]_chatVars
  PROVE  ChatInv'
<1>1. ASSUME NEW p \in Poster, NEW u \in ChatUser, PostStart(p, u) PROVE ChatInv'
  BY <1>1, PostStartInv
<1>2. ASSUME NEW p \in Poster, PostStep(p) PROVE ChatInv'
  BY <1>2, PostInsertInv, PostCommitInv, PostBroadcastInv DEF PostStep
<1>3. ASSUME ReaderStep PROVE ChatInv'
  BY <1>3, OpenSocketInv, FirstPageInv, NextPageInv DEF ReaderStep
<1>4. ASSUME NEW u \in ChatUser, LoseMembership(u) \/ GainMembership(u) \/ PurgeAuthor(u)
      PROVE  ChatInv'
  BY <1>4, MembershipInv, PurgeInv
<1>5. CASE Tick
  <2>1. clock' \in Nat
    BY SMTT(30), <1>5 DEF Tick, ChatInv, ChatTypes
  <2> QED
    BY <1>5, <2>1, QuietInv DEF Tick, ChatInv, ChatTypes
<1>6. CASE UNCHANGED chatVars
  BY <1>6, QuietInv DEF chatVars, ChatInv, ChatTypes
<1> QED
  BY <1>1, <1>2, <1>3, <1>4, <1>5, <1>6 DEF ChatNext

\* The chat keeps its invariant: rows have unique ids and authors that exist,
\* a line that came after paging began was heard or is about to be announced,
\* and the pages are contiguous (PostMessage, ListMessages, DELETE FROM users).
LEMMA ChatInvariant == ChatSpec => []ChatInv
<1>1. ChatInit => ChatInv
  BY ChatInvInit
<1>2. ChatInv /\ [ChatNext]_chatVars => ChatInv'
  BY ChatInvStep
<1> QED
  BY <1>1, <1>2, PTL DEF ChatSpec

\* ListMessages never repeats a row across pages, for any number of posts,
\* commits out of order, deleted authors and page sizes between two pages.
THEOREM ChatNoRowRepeated == ChatSpec => []NoRowRepeated
<1>1. ChatInv => NoRowRepeated
  BY DEF ChatInv
<1> QED
  BY <1>1, ChatInvariant, PTL

\* ListMessages never skips a row that was there when paging began and still
\* is, unless the row its cursor names was removed.
THEOREM ChatNoRowSkipped == ChatSpec => []NoRowSkipped
<1>1. ChatInv => NoRowSkipped
  BY DEF ChatInv
<1> QED
  BY <1>1, ChatInvariant, PTL

\* Whoever connects, pages to the end and stays has every line of the room but
\* those it wrote itself, once the posts are over: PostMessage announces after
\* its INSERT, so a line the pages are too late for is heard on the socket.
THEOREM ChatNothingMissed == ChatSpec => []NothingMissed
<1>1. ASSUME ChatInv PROVE NothingMissed
  <2> SUFFICES ASSUME reader.pc = "done", ~ reader.lost,
                      \A p \in Poster : posts[p].pc # "broadcast", NEW m \in messages
               PROVE  m \in Held \cup reader.heard \/ m.author = Reader
    BY DEF NothingMissed
  <2>1. reader \in Paging
    BY <1>1, ReaderCases DEF ChatInv
  <2>2. m \in reader.base \cup reader.heard \/ m.author = Reader
    BY <1>1, <2>1 DEF ChatInv, LaterHeard
  <2>3. m \in reader.base => m \in Held
    BY <1>1 DEF ChatInv, NoRowSkipped
  <2> QED
    BY <2>2, <2>3
<1> QED
  BY <1>1, ChatInvariant, PTL
=============================================================================
