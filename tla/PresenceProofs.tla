--------------------------- MODULE PresenceProofs ---------------------------
(***************************************************************************)
(* Proofs about presence and emergencies on the screens of a room, for any *)
(* numbers of members and sockets.                                         *)
(***************************************************************************)
EXTENDS Presence, SequenceTheorems, TLAPS

USE ZenonT(60)


----------------------------------------------------------------------------
(* Presence: the invariant *)

\* Presence and emergency as the registry has them.
Registered(u, k) == IF k = "present" THEN current[u] # None ELSE u \in flagged

Display == [Kind -> SUBSET Member]

\* The announcements a goroutine can have before it; the order is leave's.
Announcement ==
  {s \in Seq([kind : Kind, on : BOOLEAN]) :
     Len(s) < 2 \/ s = <<Frame("red", FALSE), Frame("present", FALSE)>>}

\* Where a goroutine can be, where it has nothing to announce, and where its
\* client can have a display.
Stage == {"start", "join", "snapshot", "send", "open", "alarm", "leave", "drop", "left"}
Silent == {"start", "join", "alarm", "leave"}
Live == {"open", "alarm"}

PresenceTypes ==
  /\ current \in [Member -> Socket \cup {None}]
  /\ \A u \in Member : current[u] # None => holderOf[current[u]] = u
  /\ flagged \subseteq Member /\ muddled \subseteq Member
  /\ at \in [Socket -> Stage]
  /\ frames \in [Socket -> Announcement]
  /\ DOMAIN targets = Socket
  /\ \A c \in Socket : frames[c] = <<>> => targets[c] = None
  /\ \A c \in Socket : at[c] \in Silent => frames[c] = <<>>
  /\ snap \in [Socket -> Display \cup {None}] /\ view \in [Socket -> Display \cup {None}]
  /\ \A c \in Socket : /\ view[c] # None => at[c] \in Live
                       /\ snap[c] # None => at[c] = "send"
  /\ doubt \subseteq Socket \X Member \X Kind

\* What the client shows, or will show once its snapshot arrives.
Info(d) == IF at[d] = "send" THEN snap[d] ELSE view[d]
Seeing(d) == d \in Shown /\ Info(d) # None

\* A frame of this kind about u has still to reach d.
Pending(d, u, k) ==
  \E c \in Socket : holderOf[c] = u /\ \E i \in DOMAIN frames[c] :
    frames[c][i].kind = k /\ (i = 1 => targets[c] = None \/ d \in targets[c])

\* Of a user whose changes do not overlap, one goroutine speaks, and what it
\* has to say is what the registry has.
SpeaksTrue(u) ==
  /\ u \in muddled => \E c \in Socket : holderOf[c] = u /\ frames[c] # <<>>
  /\ u \notin muddled =>
       \A c \in Socket : holderOf[c] = u =>
         /\ \A e \in Socket : holderOf[e] = u /\ frames[c] # <<>> /\ frames[e] # <<>> => c = e
         /\ \A i \in DOMAIN frames[c] : frames[c][i].on = Registered(u, frames[c][i].kind)
         /\ u \in flagged /\ current[u] = None => frames[c] = <<>>

\* The display that d has, or is about to have, of u.
ShowsTrue(d, u) ==
  /\ u \in muddled \/ (u \in flagged /\ current[u] = None) =>
       \A k \in Kind : <<d, u, k>> \in doubt
  /\ \A k \in Kind : <<d, u, k>> \notin doubt /\ (k = "present" => u # holderOf[d]) =>
       (u \in Info(d)[k] <=> Registered(u, k)) \/ Pending(d, u, k)
  /\ u # holderOf[d] /\ (\A k \in Kind : <<d, u, k>> \notin doubt) /\ u \in Info(d)["red"] =>
       u \in Info(d)["present"]

PresenceInv ==
  /\ PresenceTypes
  /\ \A u \in Member : SpeaksTrue(u)
  /\ \A d \in Socket, u \in Member : Seeing(d) => ShowsTrue(d, u)

LEMMA DisplayStage ==
  ASSUME PresenceTypes
  PROVE  /\ \A c \in Socket : (view[c] # None => at[c] \in Live) /\ (snap[c] # None => at[c] = "send")
         /\ \A c \in Socket : at[c] \in {"start", "join", "snapshot", "leave", "drop", "left"} =>
              view[c] = None /\ snap[c] = None
         /\ \A c \in Socket : at[c] = "send" => view[c] = None
         /\ \A c \in Socket : at[c] \in Live => snap[c] = None
<1>1. \A c \in Socket : (view[c] # None => at[c] \in Live) /\ (snap[c] # None => at[c] = "send")
  BY DEF PresenceTypes
<1> QED
  BY SMTT(30), <1>1 DEF Live

LEMMA DisplaysKept ==
  ASSUME PresenceTypes, NEW c \in Socket,
         \A e \in Socket \ {c} : at'[e] = at[e] /\ view'[e] = view[e] /\ snap'[e] = snap[e],
         view'[c] # None => at'[c] \in Live, snap'[c] # None => at'[c] = "send"
  PROVE  \A e \in Socket : (view'[e] # None => at'[e] \in Live) /\ (snap'[e] # None => at'[e] = "send")
<1>1. \A e \in Socket : (view[e] # None => at[e] \in Live) /\ (snap[e] # None => at[e] = "send")
  BY DisplayStage
<1> QED
  BY <1>1

LEMMA AnnouncementShape ==
  ASSUME NEW a \in Announcement
  PROVE  /\ \A i \in DOMAIN a : i \in Nat /\ a[i].kind \in Kind /\ a[i].on \in BOOLEAN
         /\ a # <<>> => /\ 1 \in DOMAIN a /\ Head(a) = a[1] /\ Tail(a) \in Announcement
                        /\ \A i \in DOMAIN Tail(a) : i = 1 /\ 2 \in DOMAIN a /\ Tail(a)[1] = a[2]
                        /\ 2 \in DOMAIN a => 1 \in DOMAIN Tail(a)
         /\ \A i \in DOMAIN a : i = 1 \/ i = 2
         /\ 2 \in DOMAIN a => /\ a[1].kind = "red" /\ a[1].on = FALSE
                              /\ a[2].kind = "present" /\ a[2].on = FALSE
<1> DEFINE F == [kind : Kind, on : BOOLEAN]
           f == Frame("red", FALSE)
           g == Frame("present", FALSE)
<1>1. a \in Seq(F) /\ (Len(a) < 2 \/ a = <<f, g>>)
  BY DEF Announcement
<1>2. f.kind = "red" /\ f.on = FALSE /\ g.kind = "present" /\ g.on = FALSE
  BY DEF Frame
<1>3. \A x \in F : x.kind \in Kind /\ x.on \in BOOLEAN
  OBVIOUS
<1> HIDE DEF F, f, g
<1>4. Len(a) \in Nat /\ DOMAIN a = 1..Len(a) /\ \A i \in DOMAIN a : a[i] \in F
  BY SMTT(30), <1>1
<1>5. Len(a) <= 2 /\ (Len(a) = 2 => a[1] = f /\ a[2] = g)
  BY SMTT(30), <1>1, <1>4
<1>6. ASSUME a # <<>>
      PROVE  /\ Len(a) > 0 /\ Head(a) = a[1] /\ Tail(a) \in Seq(F) /\ Len(Tail(a)) = Len(a) - 1
             /\ \A i \in DOMAIN Tail(a) : i = 1 /\ 2 \in DOMAIN a /\ Tail(a)[1] = a[2]
             /\ 2 \in DOMAIN a => 1 \in DOMAIN Tail(a)
  <2>1. Len(a) > 0 /\ Head(a) = a[1] /\ Tail(a) \in Seq(F) /\ Len(Tail(a)) = Len(a) - 1
        /\ \A i \in 1..(Len(a) - 1) : Tail(a)[i] = a[i + 1]
    BY SMTT(30), <1>1, <1>6
  <2>2. DOMAIN Tail(a) = 1..(Len(a) - 1)
    BY SMTT(30), <1>4, <2>1
  <2> QED
    BY SMTT(30), <1>4, <1>5, <2>1, <2>2
<1>7. a # <<>> => Tail(a) \in Announcement
  <2>1. a # <<>> => Tail(a) \in Seq(F) /\ Len(Tail(a)) < 2
    BY SMTT(30), <1>4, <1>5, <1>6
  <2> QED
    BY <2>1 DEF Announcement, F
<1>8. \A i \in DOMAIN a : i \in Nat /\ (i = 1 \/ i = 2) /\ a[i].kind \in Kind /\ a[i].on \in BOOLEAN
  BY SMTT(30), <1>3, <1>4, <1>5
<1>9. (a # <<>> => 1 \in DOMAIN a) /\ (2 \in DOMAIN a => Len(a) = 2)
  BY SMTT(30), <1>4, <1>5, <1>6
<1> QED
  BY <1>2, <1>5, <1>6, <1>7, <1>8, <1>9

\* What a frame does to a display.
LEMMA ApplyShows ==
  ASSUME NEW v \in Display, v # None, NEW u \in Member, NEW f, f.kind \in Kind, f.on \in BOOLEAN
  PROVE  /\ Apply(v, u, f) \in Display
         /\ \A k \in Kind, w \in Member :
              w \in Apply(v, u, f)[k] <=> IF k = f.kind /\ w = u THEN f.on ELSE w \in v[k]
  BY DEF Apply, Display

----------------------------------------------------------------------------
(* Presence: what a step leaves alone *)

\* Nothing happens to u.
Quiet(u) ==
  /\ u \in muddled' <=> u \in muddled
  /\ u \in flagged' <=> u \in flagged
  /\ current'[u] = None <=> current[u] = None
  /\ \A c \in Socket : holderOf[c] = u => frames'[c] = frames[c] /\ targets'[c] = targets[c]

SameDisplay(d, u) ==
  /\ \A k \in Kind : u \in Info(d)'[k] <=> u \in Info(d)[k]
  /\ \A k \in Kind : <<d, u, k>> \in doubt => <<d, u, k>> \in doubt'

LEMMA QuietRegistry ==
  ASSUME NEW u, Quiet(u)
  PROVE  \A k \in Kind : Registered(u, k)' = Registered(u, k)
  BY SMTT(30) DEF Quiet, Registered

LEMMA QuietUser ==
  ASSUME PresenceTypes, NEW u \in Member, SpeaksTrue(u), Quiet(u)
  PROVE  SpeaksTrue(u)'
<1>1. \A c \in Socket : holderOf[c] = u => frames'[c] = frames[c]
  BY DEF Quiet
<1>2. \A c \in Socket : \A i \in DOMAIN frames[c] : frames[c][i].kind \in Kind
  BY AnnouncementShape DEF PresenceTypes
<1>3. \A k \in Kind : Registered(u, k)' = Registered(u, k)
  BY QuietRegistry
<1>4. u \in muddled' => \E c \in Socket : holderOf[c] = u /\ frames'[c] # <<>>
  BY <1>1 DEF SpeaksTrue, Quiet
<1>5. ASSUME u \notin muddled', NEW c \in Socket, holderOf[c] = u
      PROVE  /\ \A e \in Socket : holderOf[e] = u /\ frames'[c] # <<>> /\ frames'[e] # <<>> => c = e
             /\ \A i \in DOMAIN frames'[c] : frames'[c][i].on = Registered(u, frames[c][i].kind)'
             /\ u \in flagged' /\ current'[u] = None => frames'[c] = <<>>
  <2>1. u \notin muddled /\ frames'[c] = frames[c]
    BY <1>1, <1>5 DEF Quiet
  <2>2. \A i \in DOMAIN frames[c] : frames[c][i].on = Registered(u, frames[c][i].kind)
    BY <1>5, <2>1 DEF SpeaksTrue
  <2>3. \A i \in DOMAIN frames'[c] : frames'[c][i].on = Registered(u, frames[c][i].kind)'
    <3> SUFFICES ASSUME NEW i \in DOMAIN frames[c]
                 PROVE  frames[c][i].on = Registered(u, frames[c][i].kind)'
      BY <2>1
    <3>1. Registered(u, frames[c][i].kind)' = Registered(u, frames[c][i].kind)
      BY <1>2, <1>3, <2>1 DEF Registered
    <3> QED
      BY <2>2, <3>1
  <2>4. \A e \in Socket : holderOf[e] = u /\ frames'[c] # <<>> /\ frames'[e] # <<>> => c = e
    BY <1>1, <1>5, <2>1 DEF SpeaksTrue
  <2>5. u \in flagged' /\ current'[u] = None => frames'[c] = <<>>
    BY <1>5, <2>1 DEF SpeaksTrue, Quiet
  <2> QED
    BY <2>3, <2>4, <2>5
<1> QED
  BY <1>4, <1>5 DEF SpeaksTrue

LEMMA QuietPending ==
  ASSUME NEW u, Quiet(u), NEW d, NEW k, Pending(d, u, k)
  PROVE  Pending(d, u, k)'
  BY DEF Quiet, Pending

\* The display stays as it is, if the frames under way reach it as before.
LEMMA DisplayKept ==
  ASSUME NEW u, NEW d, ShowsTrue(d, u), SameDisplay(d, u),
         u \in muddled' => u \in muddled,
         u \in flagged' <=> u \in flagged, current'[u] = None <=> current[u] = None,
         \A k \in Kind : Pending(d, u, k) /\ <<d, u, k>> \notin doubt
                           /\ (k = "present" => u # holderOf[d]) => Pending(d, u, k)'
  PROVE  ShowsTrue(d, u)'
<1>1. u \in muddled' \/ (u \in flagged' /\ current'[u] = None) =>
        \A k \in Kind : <<d, u, k>> \in doubt'
  BY DEF ShowsTrue, SameDisplay
<1>2. ASSUME NEW k \in Kind, <<d, u, k>> \notin doubt', k = "present" => u # holderOf[d]
      PROVE  (u \in Info(d)'[k] <=> Registered(u, k)') \/ Pending(d, u, k)'
  <2>1. <<d, u, k>> \notin doubt
    BY <1>2 DEF SameDisplay
  <2>2. (u \in Info(d)[k] <=> Registered(u, k)) \/ Pending(d, u, k)
    BY <1>2, <2>1 DEF ShowsTrue
  <2>3. Registered(u, k)' = Registered(u, k)
    BY SMTT(30) DEF Registered
  <2>4. u \in Info(d)'[k] <=> u \in Info(d)[k]
    BY DEF SameDisplay
  <2> QED
    BY <1>2, <2>1, <2>2, <2>3, <2>4
<1>3. u # holderOf[d] /\ (\A k \in Kind : <<d, u, k>> \notin doubt') /\ u \in Info(d)'["red"] =>
        u \in Info(d)'["present"]
  <2>1. "red" \in Kind /\ "present" \in Kind
    BY DEF Kind
  <2> QED
    BY <2>1 DEF ShowsTrue, SameDisplay
<1> QED
  BY <1>1, <1>2, <1>3 DEF ShowsTrue

LEMMA QuietPair ==
  ASSUME NEW u, NEW d, ShowsTrue(d, u), SameDisplay(d, u), Quiet(u)
  PROVE  ShowsTrue(d, u)'
  BY DisplayKept, QuietPending DEF Quiet

----------------------------------------------------------------------------
(* Presence: a change in the registry *)

\* What Change needs to know of the change: it concerns one user, adds nobody
\* who is shown a snapshot, and its frames say what is new.
LEMMA ChangeKeeps ==
  ASSUME PresenceInv, NEW c \in Socket, NEW u \in Member, u = holderOf[c],
         NEW fs \in Announcement, NEW sure \in BOOLEAN, Change(c, fs, sure),
         frames[c] = <<>>, targets' = targets,
         \A w \in Member \ {u} : current'[w] = current[w] /\ (w \in flagged' <=> w \in flagged),
         \A d \in Socket : Seeing(d)' => Seeing(d) /\ Info(d)' = Info(d),
         fs = <<>> => (u \in flagged' <=> u \in flagged) /\ (current'[u] = None <=> current[u] = None),
         fs # <<>> /\ sure =>
           /\ \A i \in DOMAIN fs : fs[i].on = Registered(u, fs[i].kind)'
           /\ \A k \in Kind : \/ Registered(u, k)' = Registered(u, k)
                              \/ \E i \in DOMAIN fs : fs[i].kind = k
           /\ ~ (u \in flagged' /\ current'[u] = None)
  PROVE  /\ \A w \in Member : SpeaksTrue(w)'
         /\ \A d \in Socket, w \in Member : Seeing(d)' => ShowsTrue(d, w)'
<1> DEFINE calm == sure /\ \A d \in Socket \ {c} : holderOf[d] = u => frames[d] = <<>>
<1>1. PresenceTypes
  BY DEF PresenceInv
<1>2. /\ frames' = [frames EXCEPT ![c] = fs]
      /\ muddled' = IF fs = <<>> \/ calm THEN muddled ELSE muddled \cup {u}
      /\ doubt' = IF fs = <<>> \/ calm THEN doubt ELSE doubt \cup (Shown \X {u} \X Kind)
  BY DEF Change
<1>3. frames'[c] = fs /\ \A d \in Socket \ {c} : frames'[d] = frames[d]
  BY <1>1, <1>2 DEF PresenceTypes
<1>4. doubt \subseteq doubt'
  BY <1>2
<1>5. ASSUME NEW d \in Socket, NEW w \in Member, Seeing(d)'
      PROVE  Seeing(d) /\ ShowsTrue(d, w) /\ SameDisplay(d, w) /\ d \in Shown
  BY <1>4, <1>5 DEF PresenceInv, SameDisplay, Seeing
<1>6. ASSUME NEW w \in Member, Quiet(w)
      PROVE  /\ SpeaksTrue(w)'
             /\ \A d \in Socket : Seeing(d)' => ShowsTrue(d, w)'
  BY <1>1, <1>5, <1>6, QuietUser, QuietPair DEF PresenceInv
<1>7. ASSUME NEW w \in Member \ {u} PROVE Quiet(w)
  <2>1. w \in muddled' <=> w \in muddled
    BY <1>2
  <2>2. \A e \in Socket : holderOf[e] = w => frames'[e] = frames[e]
    BY <1>3
  <2> QED
    BY <2>1, <2>2 DEF Quiet
<1>8. CASE fs = <<>>
  <2>1. Quiet(u)
    BY <1>2, <1>3, <1>8 DEF Quiet
  <2> QED
    BY <1>6, <1>7, <2>1
<1>9. CASE fs # <<>> /\ ~ calm
  <2>1. u \in muddled' /\ doubt' = doubt \cup (Shown \X {u} \X Kind)
    BY <1>2, <1>9
  <2>2. SpeaksTrue(u)'
    BY <1>3, <1>9, <2>1 DEF SpeaksTrue
  <2>3. ASSUME NEW d \in Socket, Seeing(d)' PROVE ShowsTrue(d, u)'
    <3>1. \A k \in Kind : <<d, u, k>> \in doubt'
      BY <1>5, <2>1, <2>3
    <3>2. "red" \in Kind
      BY DEF Kind
    <3> QED
      BY <3>1, <3>2 DEF ShowsTrue
  <2> QED
    BY <1>6, <1>7, <2>2, <2>3
<1>10. CASE fs # <<>> /\ calm
  <2>1. muddled' = muddled /\ doubt' = doubt /\ sure
    BY <1>2, <1>10
  <2>2. \A e \in Socket : holderOf[e] = u => frames[e] = <<>>
    BY <1>10
  <2>3. u \notin muddled
    BY <2>2 DEF PresenceInv, SpeaksTrue
  <2>4. \A e \in Socket : holderOf[e] = u /\ frames'[e] # <<>> => e = c
    BY <1>3, <2>2
  <2>5. /\ \A i \in DOMAIN fs : fs[i].on = Registered(u, fs[i].kind)'
        /\ \A k \in Kind : \/ Registered(u, k)' = Registered(u, k)
                           \/ \E i \in DOMAIN fs : fs[i].kind = k
        /\ ~ (u \in flagged' /\ current'[u] = None)
    BY <1>10
  <2>6. SpeaksTrue(u)'
    <3>1. \A e \in Socket : holderOf[e] = u => e = c \/ frames'[e] = <<>>
      BY <2>4
    <3>2. ASSUME NEW e \in Socket, holderOf[e] = u, NEW i \in DOMAIN frames'[e]
          PROVE  frames'[e][i].on = Registered(u, frames[e][i].kind)'
      <4>1. e = c
        BY SMTT(30), <3>1, <3>2
      <4> QED
        BY <1>3, <2>5, <3>2, <4>1 DEF Registered
    <3> QED
      BY <2>1, <2>3, <2>4, <2>5, <3>2 DEF SpeaksTrue
  <2>7. ASSUME NEW d \in Socket, Seeing(d)' PROVE ShowsTrue(d, u)'
    <3>1. ShowsTrue(d, u) /\ Info(d)' = Info(d)
      BY <1>5, <2>7
    <3>2. ASSUME NEW k \in Kind, <<d, u, k>> \notin doubt, k = "present" => u # holderOf[d]
          PROVE  (u \in Info(d)'[k] <=> Registered(u, k)') \/ Pending(d, u, k)'
      <4>1. ~ Pending(d, u, k)
        BY SMTT(30), <2>2 DEF Pending
      <4>2. u \in Info(d)[k] <=> Registered(u, k)
        BY <3>1, <3>2, <4>1 DEF ShowsTrue
      <4>3. CASE \E i \in DOMAIN fs : fs[i].kind = k
        <5>1. targets'[c] = None
          BY <1>1 DEF PresenceTypes
        <5> QED
          BY <1>3, <4>3, <5>1 DEF Pending
      <4>4. CASE Registered(u, k)' = Registered(u, k)
        BY <3>1, <4>2, <4>4
      <4> QED
        BY <2>5, <4>3, <4>4
    <3>3. u # holderOf[d] /\ (\A k \in Kind : <<d, u, k>> \notin doubt) /\ u \in Info(d)'["red"] =>
            u \in Info(d)'["present"]
      BY <3>1 DEF ShowsTrue
    <3> QED
      BY <2>1, <2>3, <2>5, <3>2, <3>3 DEF ShowsTrue
  <2> QED
    BY <1>6, <1>7, <2>6, <2>7
<1> QED
  BY <1>8, <1>9, <1>10

LEMMA FrameAlone ==
  ASSUME NEW k \in Kind, NEW on \in BOOLEAN, NEW a, a = <<Frame(k, on)>>
  PROVE  /\ a \in Announcement /\ a # <<>>
         /\ DOMAIN a = {1} /\ a[1].kind = k /\ a[1].on = on
<1> DEFINE f == Frame(k, on)
<1>1. f \in [kind : Kind, on : BOOLEAN] /\ f.kind = k /\ f.on = on
  BY DEF Frame
<1>2. a = <<f>>
  OBVIOUS
<1> HIDE DEF f
<1>3. DOMAIN a = {1} /\ a[1] = f /\ a # <<>> /\ Len(a) < 2
  BY SMTT(30), <1>2
<1>4. a \in Seq([kind : Kind, on : BOOLEAN])
  BY SMTT(30), <1>1, <1>2
<1>5. a \in Announcement
  BY <1>3, <1>4 DEF Announcement
<1> QED
  BY <1>1, <1>3, <1>5

LEMMA LeaveFramesShape ==
  ASSUME NEW u, NEW a, a = LeaveFrames(u)
  PROVE  /\ a \in Announcement /\ a # <<>>
         /\ \A i \in DOMAIN a : a[i].on = FALSE
         /\ \E i \in DOMAIN a : a[i].kind = "present"
         /\ u \in flagged => \E i \in DOMAIN a : a[i].kind = "red"
<1> DEFINE f == Frame("red", FALSE)
           g == Frame("present", FALSE)
           F == [kind : Kind, on : BOOLEAN]
<1>1. /\ f \in F /\ f.kind = "red" /\ f.on = FALSE
      /\ g \in F /\ g.kind = "present" /\ g.on = FALSE
  BY DEF Frame, Kind
<1>2. a = (IF u \in flagged THEN <<f>> ELSE <<>>) \o <<g>>
  BY DEF LeaveFrames
<1> HIDE DEF f, g, F
<1>3. CASE u \in flagged
  <2>1. a = <<f, g>>
    <3>1. a = <<f>> \o <<g>>
      BY <1>2, <1>3
    <3>2. a \in Seq(F) /\ Len(a) = 2 /\ a[1] = f /\ a[2] = g
      BY SMTT(30), <1>1, <3>1
    <3>3. <<f, g>> \in Seq(F) /\ Len(<<f, g>>) = 2 /\ <<f, g>>[1] = f /\ <<f, g>>[2] = g
      BY SMTT(30), <1>1
    <3>4. \A i \in 1..2 : i = 1 \/ i = 2
      BY SMTT(30)
    <3>5. \A i \in 1..Len(a) : a[i] = <<f, g>>[i]
      BY <3>2, <3>3, <3>4
    <3> HIDE <3>1
    <3> QED
      BY <3>2, <3>3, <3>5, SeqEqual
  <2>2. DOMAIN a = {1, 2} /\ a[1] = f /\ a[2] = g /\ a # <<>> /\ a \in Seq(F)
    BY SMTT(30), <1>1, <2>1
  <2>3. a \in Announcement
    BY <2>1, <2>2 DEF Announcement, f, g, F
  <2> QED
    BY <1>1, <2>2, <2>3
<1>4. CASE u \notin flagged
  <2>1. a = <<g>>
    BY SMTT(30), <1>2, <1>4
  <2>2. DOMAIN a = {1} /\ a[1] = g /\ a # <<>> /\ a \in Seq(F) /\ Len(a) < 2
    BY SMTT(30), <1>1, <2>1
  <2>3. a \in Announcement
    BY <2>2 DEF Announcement, F
  <2> QED
    BY <1>1, <1>4, <2>2, <2>3
<1> QED
  BY <1>3, <1>4

LEMMA ChangeTypes ==
  ASSUME PresenceTypes, NEW c \in Socket, NEW fs \in Announcement, NEW sure, Change(c, fs, sure),
         frames[c] = <<>>, targets' = targets, at'[c] \notin Silent,
         \A d \in Socket \ {c} : at'[d] = at[d]
  PROVE  /\ frames' \in [Socket -> Announcement] /\ muddled' \subseteq Member
         /\ doubt' \subseteq Socket \X Member \X Kind
         /\ DOMAIN targets' = Socket
         /\ \A d \in Socket : frames'[d] = <<>> => targets'[d] = None
         /\ \A d \in Socket : at'[d] \in Silent => frames'[d] = <<>>
<1>1. holderOf[c] \in Member
  BY PresenceAssumption
<1>2. frames' = [frames EXCEPT ![c] = fs]
  BY DEF Change
<1>3. frames' \in [Socket -> Announcement] /\ DOMAIN targets' = Socket
  BY <1>2 DEF PresenceTypes
<1>4. muddled' \subseteq Member
  BY <1>1 DEF Change, PresenceTypes
<1>5. doubt' \subseteq Socket \X Member \X Kind
  <2>1. Shown \subseteq Socket
    BY DEF Shown
  <2>2. Shown \X {holderOf[c]} \X Kind \subseteq Socket \X Member \X Kind
    BY <1>1, <2>1
  <2>3. doubt' = doubt \/ doubt' = doubt \cup (Shown \X {holderOf[c]} \X Kind)
    BY DEF Change
  <2> QED
    BY <2>2, <2>3 DEF PresenceTypes
<1>6. \A d \in Socket : frames'[d] = <<>> => targets'[d] = None
  BY <1>2 DEF PresenceTypes
<1>7. \A d \in Socket : at'[d] \in Silent => frames'[d] = <<>>
  BY <1>2 DEF PresenceTypes
<1> QED
  BY <1>3, <1>4, <1>5, <1>6, <1>7

\* The client of d shows nothing more; the others are as before.
LEMMA GoneTypes ==
  ASSUME PresenceTypes, NEW d, Gone(d), NEW c \in Socket,
         \A e \in Socket \ {c} : at'[e] = at[e], at[c] = "join" \/ d = c
  PROVE  /\ snap' \in [Socket -> Display \cup {None}] /\ view' \in [Socket -> Display \cup {None}]
         /\ \A e \in Socket : (view'[e] # None => at'[e] \in Live) /\ (snap'[e] # None => at'[e] = "send")
         /\ \A e \in Socket \ {d} : view'[e] = view[e] /\ snap'[e] = snap[e]
<1>1. /\ view' = [e \in Socket |-> IF e = d THEN None ELSE view[e]]
      /\ snap' = [e \in Socket |-> IF e = d THEN None ELSE snap[e]]
  BY DEF Gone
<1>2. snap' \in [Socket -> Display \cup {None}] /\ view' \in [Socket -> Display \cup {None}]
  BY <1>1 DEF PresenceTypes
<1>3. \A e \in Socket \ {d} : view'[e] = view[e] /\ snap'[e] = snap[e]
  BY <1>1
<1>4. d \in Socket => view'[d] = None /\ snap'[d] = None
  BY <1>1
<1>5. \A e \in Socket : e # d => (view[e] # None => at'[e] \in Live) /\ (snap[e] # None => at'[e] = "send")
  <2>1. \A e \in Socket : (view[e] # None => at[e] \in Live) /\ (snap[e] # None => at[e] = "send")
    BY DisplayStage
  <2>2. CASE at[c] = "join"
    <3>1. view[c] = None /\ snap[c] = None
      BY <2>2, DisplayStage
    <3> QED
      BY <2>1, <3>1
  <2>3. CASE d = c
    BY <2>1, <2>3
  <2> QED
    BY <2>2, <2>3
<1> QED
  BY <1>2, <1>3, <1>4, <1>5

LEMMA JoinInv ==
  ASSUME PresenceInv, NEW c \in Socket, NEW first \in BOOLEAN, Join(c, first)
  PROVE  PresenceInv'
<1>u. PICK u \in Member : u = holderOf[c]
  BY PresenceAssumption
<1>f. PICK fs : fs = IF first THEN <<Frame("present", TRUE)>> ELSE <<>>
  OBVIOUS
<1>s. PICK sure \in BOOLEAN : sure <=> c \notin stale
  OBVIOUS
<1>d. PICK d0 : d0 = IF c \in stale THEN c ELSE current[u]
  OBVIOUS
<1>1. /\ PresenceTypes /\ None \notin Socket /\ holderOf \in [Socket -> Member]
  BY PresenceAssumption DEF PresenceInv
<1>2. /\ at[c] = "join" /\ current' = [current EXCEPT ![u] = IF c \in stale THEN @ ELSE c]
      /\ at' = [at EXCEPT ![c] = "snapshot"] /\ Gone(d0)
      /\ flagged' = flagged /\ targets' = targets
      /\ sure => (first <=> current[u] = None)
  BY <1>u, <1>s, <1>d DEF Join
<1>c. Change(c, fs, sure)
  <2>1. Change(c, fs, c \notin stale)
    BY <1>f DEF Join
  <2> QED
    BY <1>s, <2>1 DEF Change
<1>3. fs \in Announcement
  <2>1. <<>> \in Announcement
    BY SMTT(30) DEF Announcement
  <2> QED
    BY <1>f, <2>1, FrameAlone DEF Kind
<1>4. /\ first => /\ fs # <<>> /\ DOMAIN fs = {1}
                  /\ fs[1].kind = "present" /\ fs[1].on = TRUE
      /\ ~ first => fs = <<>>
  BY <1>f, FrameAlone DEF Kind
<1>5. /\ at'[c] = "snapshot" /\ \A d \in Socket \ {c} : at'[d] = at[d]
      /\ at' \in [Socket -> Stage]
  BY <1>1, <1>2 DEF PresenceTypes, Stage
<1>6. /\ current' \in [Member -> Socket \cup {None}]
      /\ current'[u] = IF sure THEN c ELSE current[u]
      /\ \A w \in Member \ {u} : current'[w] = current[w]
      /\ current[u] # None => holderOf[current[u]] = u
  BY <1>s, <1>1, <1>2 DEF PresenceTypes
<1>7. frames[c] = <<>>
  BY <1>1, <1>2 DEF PresenceTypes, Silent
<1>8. /\ snap' \in [Socket -> Display \cup {None}] /\ view' \in [Socket -> Display \cup {None}]
      /\ \A e \in Socket : (view'[e] # None => at'[e] \in Live) /\ (snap'[e] # None => at'[e] = "send")
      /\ \A e \in Socket \ {d0} : view'[e] = view[e] /\ snap'[e] = snap[e]
  BY <1>1, <1>2, <1>5, GoneTypes
<1>9. /\ frames' \in [Socket -> Announcement] /\ muddled' \subseteq Member
      /\ doubt' \subseteq Socket \X Member \X Kind
      /\ DOMAIN targets' = Socket
      /\ \A d \in Socket : frames'[d] = <<>> => targets'[d] = None
      /\ \A d \in Socket : at'[d] \in Silent => frames'[d] = <<>>
  <2>1. at'[c] \notin Silent
    BY <1>5 DEF Silent
  <2> QED
    BY <1>1, <1>c, <1>2, <1>3, <1>5, <1>7, <2>1, ChangeTypes
<1>10. PresenceTypes'
  <2>1. \A w \in Member : current'[w] # None => holderOf[current'[w]] = w
    BY <1>u, <1>1, <1>6 DEF PresenceTypes
  <2> QED
    BY <1>1, <1>2, <1>5, <1>6, <1>8, <1>9, <2>1 DEF PresenceTypes
<1>11. ASSUME NEW d \in Socket, Seeing(d)' PROVE Seeing(d) /\ Info(d)' = Info(d)
  <2>1. at'[d] \in {"send", "open", "alarm"} /\ current'[holderOf[d]] = d
    BY <1>11 DEF Seeing, Shown
  <2>2. d # c /\ (sure => holderOf[d] # u) /\ holderOf[d] \in Member
    BY <1>1, <1>5, <1>6, <2>1
  <2>3. current[holderOf[d]] = d /\ at[d] = at'[d] /\ d # d0
    BY <1>s, <1>d, <1>1, <1>5, <1>6, <2>1, <2>2
  <2>4. Info(d)' = Info(d)
    BY <1>8, <2>3 DEF Info
  <2> QED
    BY <1>11, <2>1, <2>3, <2>4 DEF Seeing, Shown
<1>12. /\ \A w \in Member \ {u} : current'[w] = current[w] /\ (w \in flagged' <=> w \in flagged)
       /\ fs = <<>> => (u \in flagged' <=> u \in flagged) /\ (current'[u] = None <=> current[u] = None)
  BY <1>1, <1>2, <1>4, <1>6
<1>13. ASSUME fs # <<>>, sure
       PROVE  /\ \A i \in DOMAIN fs : fs[i].on = Registered(u, fs[i].kind)'
              /\ \A k \in Kind : \/ Registered(u, k)' = Registered(u, k)
                                 \/ \E i \in DOMAIN fs : fs[i].kind = k
              /\ ~ (u \in flagged' /\ current'[u] = None)
  <2>1. current'[u] # None /\ DOMAIN fs = {1} /\ fs[1].kind = "present" /\ fs[1].on = TRUE
    BY <1>1, <1>4, <1>6, <1>13
  <2>2. \A k \in Kind : k # "present" => Registered(u, k)' = Registered(u, k)
    BY <1>2 DEF Registered
  <2>3. \A i \in DOMAIN fs : fs[i].on = Registered(u, fs[i].kind)'
    BY <2>1 DEF Registered
  <2> QED
    BY <2>1, <2>2, <2>3
<1>14. /\ \A w \in Member : SpeaksTrue(w)'
       /\ \A d \in Socket, w \in Member : Seeing(d)' => ShowsTrue(d, w)'
  <2>1. fs # <<>> /\ sure =>
          /\ \A i \in DOMAIN fs : fs[i].on = Registered(u, fs[i].kind)'
          /\ \A k \in Kind : \/ Registered(u, k)' = Registered(u, k)
                             \/ \E i \in DOMAIN fs : fs[i].kind = k
          /\ ~ (u \in flagged' /\ current'[u] = None)
    BY <1>13
  <2>2. \A d \in Socket : Seeing(d)' => Seeing(d) /\ Info(d)' = Info(d)
    BY <1>11
  <2>3. /\ \A w \in Member \ {u} : current'[w] = current[w] /\ (w \in flagged' <=> w \in flagged)
        /\ fs = <<>> => (u \in flagged' <=> u \in flagged) /\ (current'[u] = None <=> current[u] = None)
    BY <1>12
  <2>4. targets' = targets
    BY <1>2
  <2> QED
    BY <1>u, <1>c, <1>3, <1>7, <2>1, <2>2, <2>3, <2>4, ChangeKeeps
<1> QED
  BY <1>10, <1>14 DEF PresenceInv

LEMMA SetEmergencyInv ==
  ASSUME PresenceInv, NEW c \in Socket, NEW active \in BOOLEAN,
         NEW changed \in BOOLEAN, SetEmergency(c, active, changed)
  PROVE  PresenceInv'
<1>u. PICK u \in Member : u = holderOf[c]
  BY PresenceAssumption
<1>f. PICK fs : fs = IF changed THEN <<Frame("red", active)>> ELSE <<>>
  OBVIOUS
<1>s. PICK sure \in BOOLEAN : sure <=> c \notin stale /\ current[u] # None
  OBVIOUS
<1>1. PresenceTypes
  BY DEF PresenceInv
<1>2. /\ at[c] = "alarm" /\ at' = [at EXCEPT ![c] = "open"]
      /\ c \notin stale => (changed <=> active # (u \in flagged))
      /\ flagged' = IF c \in stale THEN flagged
                    ELSE IF active THEN flagged \cup {u} ELSE flagged \ {u}
      /\ UNCHANGED <<current, targets, snap, view>>
  BY <1>u DEF SetEmergency
<1>a. /\ at'[c] = "open" /\ \A d \in Socket \ {c} : at'[d] = at[d]
      /\ at' \in [Socket -> Stage] /\ frames[c] = <<>>
  BY <1>1, <1>2 DEF PresenceTypes, Stage, Silent
<1>3. Change(c, fs, sure)
  <2>1. Change(c, fs, c \notin stale /\ current[u] # None)
    BY <1>u, <1>f DEF SetEmergency
  <2> QED
    BY <1>s, <2>1 DEF Change
<1>4. /\ fs \in Announcement
      /\ changed => /\ fs # <<>> /\ DOMAIN fs = {1}
                    /\ fs[1].kind = "red" /\ fs[1].on = active
      /\ ~ changed => fs = <<>>
  <2>1. "red" \in Kind
    BY DEF Kind
  <2>2. <<>> \in Announcement
    BY SMTT(30) DEF Announcement
  <2> QED
    BY <1>f, <2>1, <2>2, FrameAlone
<1>5. /\ frames' \in [Socket -> Announcement] /\ muddled' \subseteq Member
      /\ doubt' \subseteq Socket \X Member \X Kind
      /\ DOMAIN targets' = Socket
      /\ \A d \in Socket : frames'[d] = <<>> => targets'[d] = None
      /\ \A d \in Socket : at'[d] \in Silent => frames'[d] = <<>>
  <2>1. at'[c] \notin Silent /\ targets' = targets
    BY <1>a, <1>2 DEF Silent
  <2> QED
    BY <1>1, <1>a, <1>3, <1>4, <2>1, ChangeTypes
<1>6. PresenceTypes'
  <2>1. flagged' \subseteq Member
    BY <1>1, <1>2 DEF PresenceTypes
  <2>2. \A e \in Socket : (view'[e] # None => at'[e] \in Live) /\ (snap'[e] # None => at'[e] = "send")
    <3>1. at'[c] \in Live /\ snap[c] = None
      BY <1>1, <1>a, <1>2, DisplayStage DEF Live
    <3> QED
      BY <1>1, <1>a, <1>2, <3>1, DisplaysKept
  <2> QED
    BY <1>1, <1>a, <1>2, <1>5, <2>1, <2>2 DEF PresenceTypes
<1>7. ASSUME NEW d \in Socket, Seeing(d)' PROVE Seeing(d) /\ Info(d)' = Info(d)
  <2>1. at[d] \in {"send", "open", "alarm"} /\ (at[d] = "send" <=> at'[d] = "send")
    BY <1>a, <1>2, <1>7 DEF Seeing, Shown
  <2>2. Info(d)' = Info(d)
    BY <1>2, <2>1 DEF Info
  <2> QED
    BY <1>2, <1>7, <2>1, <2>2 DEF Seeing, Shown
<1>8. \A w \in Member \ {u} : current'[w] = current[w] /\ (w \in flagged' <=> w \in flagged)
  BY <1>2
<1>9. ASSUME sure, fs # <<>>
      PROVE  /\ \A i \in DOMAIN fs : fs[i].on = Registered(u, fs[i].kind)'
             /\ \A k \in Kind : \/ Registered(u, k)' = Registered(u, k)
                                \/ \E i \in DOMAIN fs : fs[i].kind = k
             /\ ~ (u \in flagged' /\ current'[u] = None)
  <2>0. changed /\ c \notin stale
    BY <1>s, <1>4, <1>9
  <2>1. active <=> u \in flagged'
    BY <1>2, <2>0
  <2>2. \A k \in Kind : k # "red" => Registered(u, k)' = Registered(u, k)
    BY <1>2 DEF Registered, Kind
  <2>3. \A i \in DOMAIN fs : fs[i].on = Registered(u, fs[i].kind)'
    <3>1. Registered(u, "red")' = active
      BY <2>1 DEF Registered
    <3> QED
      BY <1>4, <2>0, <3>1 DEF Registered
  <2>4. current'[u] # None
    BY <1>s, <1>2, <1>9
  <2> QED
    BY <1>4, <2>0, <2>2, <2>3, <2>4
<1>10. /\ \A w \in Member : SpeaksTrue(w)'
       /\ \A d \in Socket, w \in Member : Seeing(d)' => ShowsTrue(d, w)'
  <2>1. targets' = targets
    BY <1>2
  <2>2. fs = <<>> => (u \in flagged' <=> u \in flagged) /\ (current'[u] = None <=> current[u] = None)
    BY <1>2, <1>4
  <2>3. fs # <<>> /\ sure =>
          /\ \A i \in DOMAIN fs : fs[i].on = Registered(u, fs[i].kind)'
          /\ \A k \in Kind : \/ Registered(u, k)' = Registered(u, k)
                             \/ \E i \in DOMAIN fs : fs[i].kind = k
          /\ ~ (u \in flagged' /\ current'[u] = None)
    BY <1>9
  <2> QED
    BY SMTT(30), <1>u, <1>a, <1>3, <1>4, <1>7, <1>8, <2>1, <2>2, <2>3, ChangeKeeps
<1> QED
  BY <1>6, <1>10 DEF PresenceInv

LEMMA LeaveInv ==
  ASSUME PresenceInv, NEW c \in Socket, NEW empty \in BOOLEAN, Leave(c, empty)
  PROVE  PresenceInv'
<1>u. PICK u \in Member : u = holderOf[c]
  BY PresenceAssumption
<1>f. PICK fs : fs = IF current[u] = c THEN LeaveFrames(u) ELSE <<>>
  OBVIOUS
<1>1. /\ PresenceTypes /\ None \notin Socket /\ holderOf \in [Socket -> Member]
  BY SMTT(30), PresenceAssumption DEF PresenceInv
<1>2. /\ at[c] = "leave" /\ at' = [at EXCEPT ![c] = IF empty THEN "drop" ELSE "left"]
      /\ current' = [current EXCEPT ![u] = IF current[u] = c THEN None ELSE @]
      /\ flagged' = IF current[u] = c THEN flagged \ {u} ELSE flagged
      /\ Change(c, fs, TRUE) /\ UNCHANGED <<targets, snap, view>>
  BY <1>u, <1>f DEF Leave
<1>3. /\ fs \in Announcement
      /\ current[u] # c => fs = <<>>
      /\ current[u] = c => /\ \A i \in DOMAIN fs : fs[i].on = FALSE
                           /\ \E i \in DOMAIN fs : fs[i].kind = "present"
                           /\ u \in flagged => \E i \in DOMAIN fs : fs[i].kind = "red"
                           /\ fs # <<>>
  <2>1. <<>> \in Announcement
    BY SMTT(30) DEF Announcement
  <2> QED
    BY <1>f, <2>1, LeaveFramesShape
<1>4. /\ at'[c] \in {"drop", "left"} /\ frames[c] = <<>> /\ \A d \in Socket \ {c} : at'[d] = at[d]
      /\ at' \in [Socket -> Stage]
  BY <1>1, <1>2 DEF PresenceTypes, Stage, Silent
<1>5. /\ current' \in [Member -> Socket \cup {None}]
      /\ current'[u] = IF current[u] = c THEN None ELSE current[u]
      /\ \A w \in Member \ {u} : current'[w] = current[w]
  BY <1>1, <1>2 DEF PresenceTypes
<1>6. \A e \in Socket : (view'[e] # None => at'[e] \in Live) /\ (snap'[e] # None => at'[e] = "send")
  <2>1. view[c] = None /\ snap[c] = None
    BY <1>1, <1>2, DisplayStage
  <2> QED
    BY <1>1, <1>2, <1>4, <2>1, DisplaysKept
<1>7. /\ frames' \in [Socket -> Announcement] /\ muddled' \subseteq Member
      /\ doubt' \subseteq Socket \X Member \X Kind
      /\ DOMAIN targets' = Socket
      /\ \A d \in Socket : frames'[d] = <<>> => targets'[d] = None
      /\ \A d \in Socket : at'[d] \in Silent => frames'[d] = <<>>
  <2>1. at'[c] \notin Silent
    BY <1>4 DEF Silent
  <2> QED
    BY <1>1, <1>2, <1>3, <1>4, <2>1, ChangeTypes
<1>8. PresenceTypes'
  <2>1. \A w \in Member : current'[w] # None => holderOf[current'[w]] = w
    BY SMTT(30), <1>1, <1>5 DEF PresenceTypes
  <2>2. flagged' \subseteq Member
    BY <1>1, <1>2 DEF PresenceTypes
  <2> QED
    BY <1>1, <1>2, <1>4, <1>5, <1>6, <1>7, <2>1, <2>2 DEF PresenceTypes
<1>9. ASSUME NEW d \in Socket, Seeing(d)' PROVE Seeing(d) /\ Info(d)' = Info(d)
  <2>1. at'[d] \in {"send", "open", "alarm"} /\ current'[holderOf[d]] = d
    BY SMTT(30), <1>9 DEF Seeing, Shown
  <2>2. d # c /\ holderOf[d] \in Member
    BY <1>1, <1>4, <2>1
  <2>3. current[holderOf[d]] = d /\ at[d] = at'[d]
    BY <1>1, <1>4, <1>5, <2>1, <2>2
  <2>4. Info(d)' = Info(d)
    BY <1>2, <2>3 DEF Info
  <2> QED
    BY <1>9, <2>1, <2>3, <2>4 DEF Seeing, Shown
<1>10. \A w \in Member \ {u} : current'[w] = current[w] /\ (w \in flagged' <=> w \in flagged)
  BY <1>2, <1>5
<1>11. CASE current[u] # c
  <2>1. fs = <<>> /\ flagged' = flagged /\ current'[u] = current[u]
    BY <1>2, <1>3, <1>5, <1>11
  <2>2. /\ \A w \in Member : SpeaksTrue(w)'
        /\ \A d \in Socket, w \in Member : Seeing(d)' => ShowsTrue(d, w)'
    BY <1>u, <1>2, <1>3, <1>4, <1>9, <1>10, <2>1, ChangeKeeps
  <2> QED
    BY <1>8, <2>2 DEF PresenceInv
<1>12. CASE current[u] = c
  <2>1. fs # <<>> /\ u \notin flagged' /\ current'[u] = None
    BY <1>2, <1>3, <1>5, <1>12
  <2>2. \A k : Registered(u, k)' = FALSE
    BY SMTT(30), <2>1 DEF Registered
  <2>3. \A i \in DOMAIN fs : fs[i].on = Registered(u, fs[i].kind)'
    BY <1>3, <1>12, <2>2
  <2>4. ASSUME NEW k \in Kind
        PROVE  Registered(u, k)' = Registered(u, k) \/ \E i \in DOMAIN fs : fs[i].kind = k
    <3>1. CASE k = "present"
      BY <1>3, <1>12, <3>1
    <3>2. CASE k = "red" /\ u \in flagged
      BY <1>3, <1>12, <3>2
    <3>3. CASE k = "red" /\ u \notin flagged
      BY SMTT(30), <2>2, <3>3 DEF Registered
    <3> QED
      BY <3>1, <3>2, <3>3 DEF Kind
  <2>5. /\ \A w \in Member : SpeaksTrue(w)'
        /\ \A d \in Socket, w \in Member : Seeing(d)' => ShowsTrue(d, w)'
    BY <1>u, <1>2, <1>3, <1>4, <1>9, <1>10, <2>1, <2>3, <2>4, ChangeKeeps
  <2> QED
    BY <1>8, <2>5 DEF PresenceInv
<1> QED
  BY <1>11, <1>12

----------------------------------------------------------------------------
(* Presence: the snapshot *)

\* Nothing happens to anyone, and each display stays as it is.
LEMMA NothingHappens ==
  ASSUME PresenceInv, PresenceTypes', \A u \in Member : Quiet(u),
         \A d \in Socket, u \in Member : Seeing(d)' => Seeing(d) /\ SameDisplay(d, u)
  PROVE  PresenceInv'
<1>1. \A u \in Member : SpeaksTrue(u)'
  BY QuietUser DEF PresenceInv
<1>2. \A d \in Socket, u \in Member : Seeing(d)' => ShowsTrue(d, u)'
  BY QuietPair DEF PresenceInv
<1> QED
  BY <1>1, <1>2 DEF PresenceInv

LEMMA CopySnapshotInv ==
  ASSUME PresenceInv, NEW c \in Socket, CopySnapshot(c)
  PROVE  PresenceInv'
<1> DEFINE new == [present |-> Present, red |-> flagged]
<1>1. /\ PresenceTypes /\ holderOf \in [Socket -> Member]
  BY PresenceAssumption DEF PresenceInv
<1>2. /\ at[c] = "snapshot" /\ at' = [at EXCEPT ![c] = "send"]
      /\ snap' = [snap EXCEPT ![c] = IF current[holderOf[c]] = c THEN new ELSE None]
      /\ doubt' = {x \in doubt : x[1] # c} \cup ({c} \X (muddled \cup (flagged \ Present)) \X Kind)
      /\ UNCHANGED <<current, flagged, frames, targets, view, muddled>>
  BY DEF CopySnapshot
<1>3. /\ new \in Display
      /\ \A u \in Member : (u \in new["present"] <=> current[u] # None)
                           /\ (u \in new["red"] <=> u \in flagged)
  BY SMTT(30), <1>1 DEF Display, Kind, Present, PresenceTypes
<1> HIDE DEF new
<1>4. \A u \in Member : Quiet(u)
  BY <1>2 DEF Quiet
<1>5. /\ at'[c] = "send" /\ \A d \in Socket \ {c} : at'[d] = at[d] /\ snap'[d] = snap[d]
      /\ at' \in [Socket -> Stage]
      /\ snap' \in [Socket -> Display \cup {None}]
      /\ snap'[c] = IF current[holderOf[c]] = c THEN new ELSE None
  BY <1>1, <1>2, <1>3 DEF PresenceTypes, Stage
<1>6. muddled \cup (flagged \ Present) \subseteq Member
  BY <1>1 DEF PresenceTypes
<1>7. doubt' \subseteq Socket \X Member \X Kind
  <2>1. {c} \X (muddled \cup (flagged \ Present)) \X Kind \subseteq Socket \X Member \X Kind
    BY <1>6
  <2> QED
    BY <1>1, <1>2, <2>1 DEF PresenceTypes
<1>8. PresenceTypes'
  <2>1. view[c] = None
    BY <1>1, <1>2, DisplayStage
  <2>2. \A d \in Socket : (view'[d] # None => at'[d] \in Live) /\ (snap'[d] # None => at'[d] = "send")
    BY <1>1, <1>2, <1>5, <2>1, DisplaysKept
  <2>3. \A d \in Socket : at'[d] \in Silent => frames'[d] = <<>>
    BY <1>1, <1>2, <1>5 DEF PresenceTypes, Silent
  <2> QED
    BY <1>1, <1>2, <1>5, <1>7, <2>2, <2>3 DEF PresenceTypes
<1>9. \A u \in Member : SpeaksTrue(u)'
  BY <1>1, <1>4, QuietUser DEF PresenceInv
<1>10. ASSUME NEW d \in Socket, NEW u \in Member, Seeing(d)', d # c
       PROVE  ShowsTrue(d, u)'
  <2>1. Seeing(d) /\ Info(d)' = Info(d)
    BY <1>2, <1>5, <1>10 DEF Seeing, Shown, Info
  <2>2. \A k \in Kind : <<d, u, k>> \in doubt => <<d, u, k>> \in doubt'
    BY <1>2, <1>10
  <2> QED
    BY <1>4, <2>1, <2>2, QuietPair DEF SameDisplay, PresenceInv
<1>11. ASSUME NEW u \in Member, Seeing(c)' PROVE ShowsTrue(c, u)'
  <2>1. current[holderOf[c]] = c
    BY <1>2, <1>11 DEF Seeing, Shown
  <2>2. Info(c)' = new
    BY <1>5, <2>1 DEF Info
  <2>3. u \in muddled \/ (u \in flagged /\ current[u] = None) =>
          \A k \in Kind : <<c, u, k>> \in doubt'
    BY <1>2 DEF Present
  <2>4. \A k \in Kind : u \in Info(c)'[k] <=> Registered(u, k)'
    BY <1>2, <1>3, <2>2 DEF Registered, Kind
  <2>5. u \in Info(c)'["red"] => u \in Info(c)'["present"] \/ \A k \in Kind : <<c, u, k>> \in doubt'
    BY <1>3, <2>2, <2>3
  <2>6. "red" \in Kind /\ muddled' = muddled /\ flagged' = flagged /\ current' = current
    BY <1>2 DEF Kind
  <2> QED
    BY <2>3, <2>4, <2>5, <2>6 DEF ShowsTrue
<1> QED
  BY <1>8, <1>9, <1>10, <1>11 DEF PresenceInv

LEMMA SendSnapshotInv ==
  ASSUME PresenceInv, NEW c \in Socket, SendSnapshot(c) \/ SnapshotFails(c)
  PROVE  PresenceInv'
<1>1. PresenceTypes
  BY DEF PresenceInv
<1>2. /\ UNCHANGED <<current, flagged, frames, targets, muddled, doubt>>
      /\ at' = [at EXCEPT ![c] = "open"]
      /\ \/ at[c] = "send" /\ view' = [view EXCEPT ![c] = snap[c]] /\ snap' = [snap EXCEPT ![c] = None]
         \/ at[c] = "snapshot" /\ UNCHANGED <<view, snap>>
  BY DEF SendSnapshot, SnapshotFails, registry
<1>3. /\ at'[c] = "open" /\ \A d \in Socket \ {c} : at'[d] = at[d]
      /\ at' \in [Socket -> Stage]
      /\ view'[c] = Info(c) /\ \A d \in Socket \ {c} : view'[d] = view[d] /\ snap'[d] = snap[d]
      /\ snap'[c] = None
      /\ snap' \in [Socket -> Display \cup {None}] /\ view' \in [Socket -> Display \cup {None}]
  <2>1. at \in [Socket -> Stage] /\ "open" \in Stage
        /\ snap \in [Socket -> Display \cup {None}] /\ view \in [Socket -> Display \cup {None}]
    BY <1>1 DEF PresenceTypes, Stage
  <2>2. at[c] = "snapshot" => snap[c] = None
    BY <1>1, DisplayStage
  <2> QED
    BY SMTT(30), <1>2, <2>1, <2>2 DEF Info
<1>4. PresenceTypes'
  <2>1. \A d \in Socket : (view'[d] # None => at'[d] \in Live) /\ (snap'[d] # None => at'[d] = "send")
    <3>1. at'[c] \in Live
      BY <1>3 DEF Live
    <3> QED
      BY <1>1, <1>3, <3>1, DisplaysKept
  <2>2. \A d \in Socket : at'[d] \in Silent => frames'[d] = <<>>
    BY <1>1, <1>2, <1>3 DEF PresenceTypes, Silent
  <2> QED
    BY <1>1, <1>2, <1>3, <2>1, <2>2 DEF PresenceTypes
<1>5. \A u \in Member : Quiet(u)
  BY <1>2 DEF Quiet
<1>6. ASSUME NEW d \in Socket, Seeing(d)' PROVE Seeing(d) /\ Info(d)' = Info(d)
  <2>1. Info(d)' = Info(d)
    BY <1>3 DEF Info
  <2>2. at[d] \in {"send", "open", "alarm"}
    <3>1. CASE d # c
      BY <1>3, <1>6, <3>1 DEF Seeing, Shown
    <3>2. CASE d = c
      <4>1. Info(c) # None
        BY <1>6, <2>1, <3>2 DEF Seeing
      <4>2. at[c] = "snapshot" => Info(c) = None
        BY <1>1, DisplayStage DEF Info
      <4> QED
        BY <1>2, <3>2, <4>1, <4>2
    <3> QED
      BY <3>1, <3>2
  <2> QED
    BY <1>2, <1>6, <2>1, <2>2 DEF Seeing, Shown
<1>7. \A d \in Socket, u \in Member : Seeing(d)' => Seeing(d) /\ SameDisplay(d, u)
  BY <1>2, <1>6 DEF SameDisplay
<1> QED
  BY <1>4, <1>5, <1>7, NothingHappens

----------------------------------------------------------------------------
(* Presence: the lookups, and the drop of the room's object *)

\* A lookup changes nothing that a client shows.
LEMMA RoomForInv ==
  ASSUME PresenceInv, NEW c \in Socket, JoinRoomFor(c) \/ EmergencyRoomFor(c)
  PROVE  PresenceInv'
<1>1. PresenceTypes
  BY DEF PresenceInv
<1>2. PICK there \in {"join", "alarm"} :
        /\ at' = [at EXCEPT ![c] = there] /\ frames[c] = <<>>
        /\ there = "join" => at[c] = "start"
        /\ there = "alarm" => at[c] = "open"
        /\ UNCHANGED <<current, flagged, frames, targets, snap, view, muddled, doubt>>
  BY <1>1 DEF JoinRoomFor, EmergencyRoomFor, PresenceTypes, Silent
<1>3. /\ at'[c] = there /\ \A d \in Socket \ {c} : at'[d] = at[d]
      /\ at' \in [Socket -> Stage]
  BY <1>1, <1>2 DEF PresenceTypes, Stage
<1>4. PresenceTypes'
  <2>1. \A d \in Socket : (view'[d] # None => at'[d] \in Live) /\ (snap'[d] # None => at'[d] = "send")
    <3>1. snap[c] = None /\ (view[c] # None => there \in Live)
      BY <1>1, <1>2, DisplayStage DEF Live
    <3> QED
      BY <1>1, <1>2, <1>3, <3>1, DisplaysKept
  <2>2. \A d \in Socket : at'[d] \in Silent => frames'[d] = <<>>
    BY <1>1, <1>2, <1>3 DEF PresenceTypes
  <2> QED
    BY <1>1, <1>2, <1>3, <2>1, <2>2 DEF PresenceTypes
<1>5. \A u \in Member : Quiet(u)
  BY <1>2 DEF Quiet
<1>6. ASSUME NEW d \in Socket, Seeing(d)' PROVE Seeing(d) /\ Info(d)' = Info(d)
  <2>1. at[d] \in {"send", "open", "alarm"} /\ (at[d] = "send" <=> at'[d] = "send")
    BY <1>2, <1>3, <1>6 DEF Seeing, Shown
  <2>2. Info(d)' = Info(d)
    BY <1>2, <2>1 DEF Info
  <2> QED
    BY <1>2, <1>6, <2>1, <2>2 DEF Seeing, Shown
<1>7. \A d \in Socket, u \in Member : Seeing(d)' => Seeing(d) /\ SameDisplay(d, u)
  BY <1>2, <1>6 DEF SameDisplay
<1> QED
  BY <1>4, <1>5, <1>7, NothingHappens

LEMMA LeaveRoomForInv ==
  ASSUME PresenceInv, NEW c \in Socket, LeaveRoomFor(c)
  PROVE  PresenceInv'
<1>1. PresenceTypes
  BY DEF PresenceInv
<1>2. /\ at[c] = "open" /\ frames[c] = <<>> /\ Gone(c)
      /\ at' = [at EXCEPT ![c] = IF room THEN "leave" ELSE "left"]
      /\ UNCHANGED <<current, flagged, frames, targets, muddled, doubt>>
  BY DEF LeaveRoomFor, registry
<1>3. /\ at'[c] \in {"leave", "left"} /\ \A d \in Socket \ {c} : at'[d] = at[d]
      /\ at' \in [Socket -> Stage]
  BY <1>1, <1>2 DEF PresenceTypes, Stage
<1>4. /\ snap' \in [Socket -> Display \cup {None}] /\ view' \in [Socket -> Display \cup {None}]
      /\ \A e \in Socket : (view'[e] # None => at'[e] \in Live) /\ (snap'[e] # None => at'[e] = "send")
      /\ \A e \in Socket \ {c} : view'[e] = view[e] /\ snap'[e] = snap[e]
  BY <1>1, <1>2, <1>3, GoneTypes
<1>5. PresenceTypes'
  <2>1. \A d \in Socket : at'[d] \in Silent => frames'[d] = <<>>
    BY <1>1, <1>2, <1>3 DEF PresenceTypes
  <2> QED
    BY <1>1, <1>2, <1>3, <1>4, <2>1 DEF PresenceTypes
<1>6. \A u \in Member : Quiet(u)
  BY <1>2 DEF Quiet
<1>7. ASSUME NEW d \in Socket, Seeing(d)' PROVE Seeing(d) /\ Info(d)' = Info(d)
  <2>1. d # c
    BY <1>3, <1>7 DEF Seeing, Shown
  <2>2. at'[d] = at[d] /\ view'[d] = view[d] /\ snap'[d] = snap[d]
    BY <1>3, <1>4, <2>1
  <2>3. Info(d)' = Info(d)
    BY <2>2 DEF Info
  <2> QED
    BY <1>2, <1>7, <2>2, <2>3 DEF Seeing, Shown
<1>8. \A d \in Socket, u \in Member : Seeing(d)' => Seeing(d) /\ SameDisplay(d, u)
  BY <1>2, <1>7 DEF SameDisplay
<1> QED
  BY <1>5, <1>6, <1>8, NothingHappens

\* With the object go the flags of users who had left.  Nobody is registered to
\* see it, and nobody has anything to say about them who does not do so anyway.
LEMMA DropInv ==
  ASSUME PresenceInv, NEW c \in Socket, Drop(c)
  PROVE  PresenceInv'
<1>1. PresenceTypes /\ holderOf \in [Socket -> Member] /\ None \notin Socket
  BY PresenceAssumption DEF PresenceInv
<1>2. /\ at[c] = "drop" /\ at' = [at EXCEPT ![c] = "left"]
      /\ flagged' = flagged \/ (flagged' = {} /\ Present = {})
      /\ UNCHANGED <<current, frames, targets, snap, view, muddled, doubt>>
  BY DEF Drop
<1>3. /\ at'[c] = "left" /\ \A d \in Socket \ {c} : at'[d] = at[d]
      /\ at' \in [Socket -> Stage]
  BY <1>1, <1>2 DEF PresenceTypes, Stage
<1>4. PresenceTypes'
  <2>1. \A d \in Socket : (view'[d] # None => at'[d] \in Live) /\ (snap'[d] # None => at'[d] = "send")
    <3>1. snap[c] = None /\ view[c] = None
      BY <1>1, <1>2, DisplayStage
    <3> QED
      BY <1>1, <1>2, <1>3, <3>1, DisplaysKept
  <2>2. \A d \in Socket : at'[d] \in Silent => frames'[d] = <<>>
    BY <1>1, <1>2, <1>3 DEF PresenceTypes, Silent
  <2>3. flagged' \subseteq Member
    BY <1>1, <1>2 DEF PresenceTypes
  <2> QED
    BY <1>1, <1>2, <1>3, <2>1, <2>2, <2>3 DEF PresenceTypes
<1>5. ASSUME NEW d \in Socket, Seeing(d)' PROVE Seeing(d) /\ Info(d)' = Info(d) /\ Present # {}
  <2>1. d # c /\ at'[d] = at[d]
    BY <1>3, <1>5 DEF Seeing, Shown
  <2>2. Info(d)' = Info(d)
    BY <1>2, <2>1 DEF Info
  <2>3. Present # {}
    BY <1>1, <1>2, <1>5 DEF Seeing, Shown, Present
  <2> QED
    BY <1>2, <1>5, <2>1, <2>2, <2>3 DEF Seeing, Shown
<1>6. CASE flagged' = flagged
  <2>1. \A u \in Member : Quiet(u)
    BY <1>2, <1>6 DEF Quiet
  <2>2. \A d \in Socket, u \in Member : Seeing(d)' => Seeing(d) /\ SameDisplay(d, u)
    BY <1>2, <1>5 DEF SameDisplay
  <2> QED
    BY <1>4, <2>1, <2>2, NothingHappens
<1>7. CASE flagged' = {} /\ Present = {}
  <2>1. \A d \in Socket : ~ Seeing(d)'
    BY <1>5, <1>7
  <2>2. ASSUME NEW u \in Member PROVE SpeaksTrue(u)'
    <3>1. SpeaksTrue(u) /\ current[u] = None
      BY <1>7 DEF PresenceInv, Present
    <3>2. CASE u \notin flagged
      <4>1. Quiet(u)
        BY <1>2, <1>7, <3>2 DEF Quiet
      <4> QED
        BY <1>1, <3>1, <4>1, QuietUser
    <3>3. CASE u \in flagged /\ u \notin muddled
      <4>1. \A e \in Socket : holderOf[e] = u => frames'[e] = <<>>
        BY <1>2, <3>1, <3>3 DEF SpeaksTrue
      <4>2. \A e \in Socket : holderOf[e] = u => DOMAIN frames'[e] = {}
        BY SMTT(30), <4>1
      <4> QED
        BY <1>2, <3>3, <4>1, <4>2 DEF SpeaksTrue
    <3>4. CASE u \in muddled
      BY <1>2, <3>1, <3>4 DEF SpeaksTrue
    <3> QED
      BY <3>2, <3>3, <3>4
  <2> QED
    BY <1>4, <2>1, <2>2 DEF PresenceInv
<1> QED
  BY <1>2, <1>6, <1>7

----------------------------------------------------------------------------
(* Presence: broadcast *)

\* Where the broadcast of c stands after Reach.
LEMMA ReachFrames ==
  ASSUME PresenceTypes, NEW c \in Socket, frames[c] # <<>>, NEW T, Reach(c, T)
  PROVE  /\ frames' \in [Socket -> Announcement] /\ DOMAIN targets' = Socket
         /\ \A e \in Socket \ {c} : frames'[e] = frames[e] /\ targets'[e] = targets[e]
         /\ T = {} => frames'[c] = Tail(frames[c]) /\ targets'[c] = None
         /\ T # {} => frames'[c] = frames[c] /\ targets'[c] = T
         /\ \A e \in Socket : frames'[e] = <<>> => targets'[e] = None
         /\ \A e \in Socket : frames[e] = <<>> => frames'[e] = <<>>
<1>1. /\ targets' = [targets EXCEPT ![c] = IF T = {} THEN None ELSE T]
      /\ frames' = [frames EXCEPT ![c] = IF T = {} THEN Tail(frames[c]) ELSE frames[c]]
  BY DEF Reach
<1>2. frames[c] \in Announcement /\ Tail(frames[c]) \in Announcement
  BY AnnouncementShape DEF PresenceTypes
<1>3. frames' \in [Socket -> Announcement] /\ DOMAIN targets' = Socket
  <2>1. frames \in [Socket -> Announcement] /\ DOMAIN targets = Socket
    BY DEF PresenceTypes
  <2>2. (IF T = {} THEN Tail(frames[c]) ELSE frames[c]) \in Announcement
    BY <1>2
  <2> QED
    BY <1>1, <2>1, <2>2
<1>4. /\ \A e \in Socket \ {c} : frames'[e] = frames[e] /\ targets'[e] = targets[e]
      /\ T = {} => frames'[c] = Tail(frames[c]) /\ targets'[c] = None
      /\ T # {} => frames'[c] = frames[c] /\ targets'[c] = T
  BY <1>1 DEF PresenceTypes
<1> QED
  BY <1>3, <1>4 DEF PresenceTypes

\* A frame that has yet to reach d still has to, unless it is the one whose
\* targets no longer include d.
LEMMA ReachPending ==
  ASSUME PresenceTypes, NEW c \in Socket, frames[c] # <<>>, NEW T, Reach(c, T),
         NEW d, NEW u, NEW k, Pending(d, u, k),
         frames[c][1].kind = k /\ (targets[c] = None \/ d \in targets[c]) => d \in T
  PROVE  Pending(d, u, k)'
<1>1. PICK e \in Socket : holderOf[e] = u /\ \E i \in DOMAIN frames[e] :
        frames[e][i].kind = k /\ (i = 1 => targets[e] = None \/ d \in targets[e])
  BY DEF Pending
<1>2. PICK i \in DOMAIN frames[e] :
        frames[e][i].kind = k /\ (i = 1 => targets[e] = None \/ d \in targets[e])
  BY <1>1
<1>3. CASE e # c
  <2>1. frames'[e] = frames[e] /\ targets'[e] = targets[e]
    BY <1>3, ReachFrames
  <2> QED
    BY <1>1, <1>2, <2>1 DEF Pending
<1>4. CASE e = c /\ T # {}
  <2>1. frames'[c] = frames[c] /\ targets'[c] = T
    BY <1>4, ReachFrames
  <2>2. i = 1 => d \in targets'[c]
    BY <1>2, <1>4, <2>1
  <2> QED
    BY <1>1, <1>2, <1>4, <2>1, <2>2 DEF Pending
<1>5. CASE e = c /\ T = {}
  <2>1. frames'[c] = Tail(frames[c]) /\ targets'[c] = None
    BY <1>5, ReachFrames
  <2>2. i # 1
    BY <1>2, <1>5
  <2>3. i = 2 /\ 1 \in DOMAIN Tail(frames[c]) /\ Tail(frames[c])[1] = frames[c][2]
    <3>1. frames[c] \in Announcement /\ i \in DOMAIN frames[c]
      BY <1>5 DEF PresenceTypes
    <3>2. i = 2
      BY <2>2, <3>1, AnnouncementShape
    <3> QED
      BY <3>1, <3>2, AnnouncementShape
  <2>4. 1 \in DOMAIN frames'[c] /\ frames'[c][1].kind = k /\ targets'[c] = None /\ holderOf[c] = u
    BY <1>1, <1>2, <1>5, <2>1, <2>3
  <2> QED
    BY <2>4 DEF Pending
<1> QED
  BY <1>3, <1>4, <1>5

LEMMA ReachSpeaks ==
  ASSUME PresenceInv, NEW c \in Socket, frames[c] # <<>>, NEW T, Reach(c, T),
         UNCHANGED <<current, flagged>>
  PROVE  /\ muddled' \subseteq muddled
         /\ \A u \in Member : u # holderOf[c] => Quiet(u)
         /\ \A u \in Member : SpeaksTrue(u)'
<1>1. PresenceTypes
  BY DEF PresenceInv
<1>2. muddled' = IF \A e \in Socket : holderOf[e] = holderOf[c] => frames'[e] = <<>>
                 THEN muddled \ {holderOf[c]} ELSE muddled
  BY DEF Reach
<1>3. /\ \A e \in Socket \ {c} : frames'[e] = frames[e] /\ targets'[e] = targets[e]
      /\ T = {} => frames'[c] = Tail(frames[c]) /\ targets'[c] = None
      /\ T # {} => frames'[c] = frames[c] /\ targets'[c] = T
      /\ \A e \in Socket : frames[e] = <<>> => frames'[e] = <<>>
  BY <1>1, ReachFrames
<1>4. \A u \in Member : u # holderOf[c] => Quiet(u)
  BY <1>2, <1>3 DEF Quiet
<1>5. \A u \in Member : u # holderOf[c] => SpeaksTrue(u)'
  BY <1>1, <1>4, QuietUser DEF PresenceInv
<1>6. ASSUME NEW u \in Member, u = holderOf[c] PROVE SpeaksTrue(u)'
  <2>1. SpeaksTrue(u)
    BY DEF PresenceInv
  <2>2. CASE \A e \in Socket : holderOf[e] = u => frames'[e] = <<>>
    <3>1. u \notin muddled'
      BY <1>2, <1>6, <2>2
    <3>2. \A e \in Socket : holderOf[e] = u => DOMAIN frames'[e] = {}
      BY SMTT(30), <2>2
    <3> QED
      BY <2>2, <3>1, <3>2 DEF SpeaksTrue
  <2>3. CASE ~ \A e \in Socket : holderOf[e] = u => frames'[e] = <<>>
    <3>1. muddled' = muddled
      BY <1>2, <1>6, <2>3
    <3>2. ASSUME NEW e \in Socket, holderOf[e] = u, NEW i \in DOMAIN frames'[e]
          PROVE  \E j \in DOMAIN frames[e] : frames'[e][i] = frames[e][j]
      <4>1. CASE frames'[e] = frames[e]
        BY <3>2, <4>1
      <4>2. CASE e = c /\ frames'[e] = Tail(frames[e])
        <5>1. frames[c] \in Announcement
          BY <1>1 DEF PresenceTypes
        <5>2. 2 \in DOMAIN frames[c] /\ i = 1 /\ Tail(frames[c])[1] = frames[c][2]
          BY <3>2, <4>2, <5>1, AnnouncementShape
        <5> QED
          BY <4>2, <5>2
      <4> QED
        BY <1>3, <4>1, <4>2
    <3>3. ASSUME u \notin muddled, NEW e \in Socket, holderOf[e] = u, NEW i \in DOMAIN frames'[e]
          PROVE  frames'[e][i].on = Registered(u, frames[e][i].kind)'
      <4>1. PICK j \in DOMAIN frames[e] : frames'[e][i] = frames[e][j]
        BY <3>2, <3>3
      <4>2. frames[e][j].on = Registered(u, frames[e][j].kind)
        BY <2>1, <3>3 DEF SpeaksTrue
      <4> QED
        BY <4>1, <4>2 DEF Registered
    <3>4. u \in muddled' => \E e \in Socket : holderOf[e] = u /\ frames'[e] # <<>>
      BY <2>3
    <3>5. ASSUME u \notin muddled, NEW e \in Socket, holderOf[e] = u
          PROVE  /\ \A g \in Socket : holderOf[g] = u /\ frames'[e] # <<>> /\ frames'[g] # <<>> => e = g
                 /\ u \in flagged' /\ current'[u] = None => frames'[e] = <<>>
      BY <1>3, <2>1, <3>5 DEF SpeaksTrue
    <3> QED
      BY <3>1, <3>3, <3>4, <3>5 DEF SpeaksTrue
  <2> QED
    BY <2>2, <2>3
<1>7. muddled' \subseteq muddled
  BY <1>2
<1> QED
  BY <1>4, <1>5, <1>6, <1>7

LEMMA CopyTargetsInv ==
  ASSUME PresenceInv, NEW c \in Socket, CopyTargets(c)
  PROVE  PresenceInv'
<1>1. /\ PresenceTypes /\ holderOf \in [Socket -> Member] /\ None \notin Socket
  BY PresenceAssumption DEF PresenceInv
<1>2. PICK T : T = Targets(c)
  OBVIOUS
<1>3. /\ frames[c] # <<>> /\ Reach(c, T)
      /\ UNCHANGED <<current, flagged, at, snap, view, doubt>>
  BY <1>2 DEF CopyTargets, registry
<1>4. /\ muddled' \subseteq muddled
      /\ \A u \in Member : u # holderOf[c] => Quiet(u)
      /\ \A u \in Member : SpeaksTrue(u)'
  BY <1>3, ReachSpeaks
<1>5. Head(frames[c]) = frames[c][1]
  <2>1. frames[c] \in Announcement
    BY <1>1 DEF PresenceTypes
  <2> QED
    BY <1>3, <2>1, AnnouncementShape
<1>6. PresenceTypes'
  <2>1. /\ frames' \in [Socket -> Announcement] /\ DOMAIN targets' = Socket
        /\ \A e \in Socket : frames'[e] = <<>> => targets'[e] = None
        /\ \A e \in Socket : frames[e] = <<>> => frames'[e] = <<>>
    BY <1>1, <1>3, ReachFrames
  <2>2. muddled' \subseteq Member
    BY <1>1, <1>4 DEF PresenceTypes
  <2> QED
    BY <1>1, <1>3, <2>1, <2>2 DEF PresenceTypes
<1>7. ASSUME NEW d \in Socket, NEW u \in Member, Seeing(d)' PROVE ShowsTrue(d, u)'
  <2>1. Seeing(d) /\ Info(d)' = Info(d)
    BY <1>3, <1>7 DEF Seeing, Shown, Info
  <2>2. ShowsTrue(d, u) /\ SameDisplay(d, u)
    BY <1>3, <2>1 DEF PresenceInv, SameDisplay
  <2>3. CASE u # holderOf[c]
    BY <1>4, <2>2, <2>3, QuietPair
  <2>4. CASE u = holderOf[c]
    <3>1. holderOf[d] \in Present /\ d = current[holderOf[d]]
      BY <1>1, <2>1 DEF Seeing, Shown, Present
    <3>2. ASSUME NEW k \in Kind, k = "present" => u # holderOf[d], frames[c][1].kind = k
          PROVE  d \in T
      BY <1>2, <1>5, <2>4, <3>1, <3>2 DEF Targets
    <3>3. ASSUME NEW k \in Kind, Pending(d, u, k), k = "present" => u # holderOf[d]
          PROVE  Pending(d, u, k)'
      BY <1>1, <1>3, <3>2, <3>3, ReachPending
    <3> QED
      BY <1>3, <1>4, <2>2, <3>3, DisplayKept
  <2> QED
    BY <2>3, <2>4
<1> QED
  BY <1>4, <1>6, <1>7 DEF PresenceInv

\* What d shows of u once an undisturbed frame of u has reached it.
LEMMA FrameArrives ==
  ASSUME PresenceTypes, NEW c \in Socket, NEW u \in Member, u = holderOf[c], SpeaksTrue(u),
         u \notin muddled, frames[c] # <<>>, NEW f, f = frames[c][1],
         NEW d \in Socket, ShowsTrue(d, u), NEW v, v = Info(d), NEW w,
         \A k \in Kind : u \in w[k] <=> IF k = f.kind THEN f.on ELSE u \in v[k],
         u # holderOf[d], \A k \in Kind : k # f.kind => <<d, u, k>> \notin doubt,
         u \in w["red"]
  PROVE  u \in w["present"]
<1>1. frames[c] \in Announcement
  BY DEF PresenceTypes
<1>2. f.kind \in Kind /\ f.on \in BOOLEAN /\ 1 \in DOMAIN frames[c]
  BY <1>1, AnnouncementShape
<1>3. f.on = Registered(u, f.kind) /\ ~ (u \in flagged /\ current[u] = None)
  BY <1>2 DEF SpeaksTrue
<1>4. \A k \in Kind : Pending(d, u, k) => \E i \in DOMAIN frames[c] : frames[c][i].kind = k
  <2> SUFFICES ASSUME NEW k \in Kind, Pending(d, u, k)
               PROVE  \E i \in DOMAIN frames[c] : frames[c][i].kind = k
    OBVIOUS
  <2>1. PICK e \in Socket : holderOf[e] = u /\ \E i \in DOMAIN frames[e] : frames[e][i].kind = k
    BY DEF Pending
  <2>2. frames[e] # <<>>
    BY SMTT(30), <2>1
  <2>3. e = c
    BY <2>1, <2>2 DEF SpeaksTrue
  <2> QED
    BY <2>1, <2>3
<1>5. \A k \in Kind, i \in DOMAIN frames[c] : k # f.kind /\ frames[c][i].kind = k =>
        f.kind = "red" /\ f.on = FALSE /\ k = "present"
  <2> SUFFICES ASSUME NEW i \in DOMAIN frames[c], frames[c][i].kind # f.kind
               PROVE  f.kind = "red" /\ f.on = FALSE /\ frames[c][i].kind = "present"
    OBVIOUS
  <2>1. i = 2
    BY <1>1, AnnouncementShape
  <2> QED
    BY <1>1, <2>1, AnnouncementShape
<1>6. "red" \in Kind /\ "present" \in Kind /\ "red" # "present"
  BY DEF Kind
<1>7. CASE f.kind = "present"
  <2>1. u \in v["red"] /\ ~ Pending(d, u, "red")
    BY <1>4, <1>5, <1>6, <1>7
  <2>2. u \in flagged
    BY <1>6, <1>7, <2>1 DEF ShowsTrue, Registered
  <2>3. f.on
    BY <1>3, <1>7, <2>2 DEF Registered
  <2> QED
    BY <1>6, <1>7, <2>3
<1>8. CASE f.kind = "red"
  <2>1. f.on /\ u \in flagged
    BY <1>3, <1>6, <1>8 DEF Registered
  <2>2. current[u] # None /\ ~ Pending(d, u, "present")
    BY <1>2, <1>3, <1>4, <1>5, <1>6, <1>8, <2>1
  <2>3. u \in v["present"]
    BY <1>6, <1>8, <2>2 DEF ShowsTrue, Registered
  <2> QED
    BY <1>6, <1>8, <2>3
<1> QED
  BY <1>2, <1>7, <1>8 DEF Kind

LEMMA EnqueueInv ==
  ASSUME PresenceInv, NEW c \in Socket, NEW d \in Socket, EnqueueFor(c, d)
  PROVE  PresenceInv'
<1>u. PICK u \in Member : u = holderOf[c]
  BY PresenceAssumption
<1>f. PICK f : f = Head(frames[c])
  OBVIOUS
<1>t. PICK T : T = targets[c] \ {d}
  OBVIOUS
<1>1. PresenceTypes
  BY DEF PresenceInv
<1>2. /\ targets[c] # None /\ d \in targets[c] /\ Reach(c, T)
      /\ view' = [view EXCEPT ![d] = Apply(view[d], u, f)]
      /\ doubt' = IF d \in Shown /\ at[d] = "send" THEN doubt \cup {<<d, u, f.kind>>}
                  ELSE IF u \in muddled THEN doubt ELSE doubt \ {<<d, u, f.kind>>}
      /\ UNCHANGED <<current, flagged, at, snap>>
  BY <1>u, <1>f, <1>t DEF EnqueueFor, registry
<1>3. frames[c] # <<>> /\ frames[c] \in Announcement
  BY <1>1, <1>2 DEF PresenceTypes
<1>4. f = frames[c][1] /\ f.kind \in Kind /\ f.on \in BOOLEAN /\ 1 \in DOMAIN frames[c]
  BY <1>f, <1>3, AnnouncementShape
<1>5. /\ muddled' \subseteq muddled
      /\ \A w \in Member : w # u => Quiet(w)
      /\ \A w \in Member : SpeaksTrue(w)'
  BY <1>u, <1>2, <1>3, ReachSpeaks
<1>6. /\ view' \in [Socket -> Display \cup {None}]
      /\ \A e \in Socket \ {d} : view'[e] = view[e]
      /\ view'[d] = Apply(view[d], u, f)
      /\ view'[d] # None => view[d] # None
      /\ view[d] # None => \A k \in Kind, w \in Member :
           w \in view'[d][k] <=> IF k = f.kind /\ w = u THEN f.on ELSE w \in view[d][k]
  <2>1. view[d] = None => Apply(view[d], u, f) = None
    BY DEF Apply
  <2>2. view[d] # None =>
          /\ Apply(view[d], u, f) \in Display
          /\ \A k \in Kind, w \in Member :
               w \in Apply(view[d], u, f)[k] <=> IF k = f.kind /\ w = u THEN f.on ELSE w \in view[d][k]
    <3>1. view[d] # None => view[d] \in Display
      BY <1>1 DEF PresenceTypes
    <3> QED
      BY SMTT(30), <1>4, <3>1, ApplyShows
  <2>3. Apply(view[d], u, f) \in Display \cup {None}
    BY <2>1, <2>2
  <2>4. view'[d] = Apply(view[d], u, f) /\ \A e \in Socket \ {d} : view'[e] = view[e]
    BY <1>1, <1>2 DEF PresenceTypes
  <2>5. view' \in [Socket -> Display \cup {None}]
    BY <1>1, <1>2, <2>3 DEF PresenceTypes
  <2> QED
    BY <2>1, <2>2, <2>4, <2>5
<1>7. PresenceTypes'
  <2>1. /\ frames' \in [Socket -> Announcement] /\ DOMAIN targets' = Socket
        /\ \A e \in Socket : frames'[e] = <<>> => targets'[e] = None
        /\ \A e \in Socket : frames[e] = <<>> => frames'[e] = <<>>
    BY <1>1, <1>2, <1>3, ReachFrames
  <2>2. muddled' \subseteq Member
    BY <1>1, <1>5 DEF PresenceTypes
  <2>3. doubt' \subseteq Socket \X Member \X Kind
    BY SMTT(30), <1>1, <1>2, <1>4 DEF PresenceTypes
  <2>4. \A e \in Socket : (view'[e] # None => at'[e] \in Live) /\ (snap'[e] # None => at'[e] = "send")
    <3>1. \A e \in Socket : (view[e] # None => at[e] \in Live) /\ (snap[e] # None => at[e] = "send")
      BY <1>1, DisplayStage
    <3> QED
      BY <1>2, <1>6, <3>1
  <2> QED
    BY <1>1, <1>2, <1>6, <2>1, <2>2, <2>3, <2>4 DEF PresenceTypes
<1>8. ASSUME NEW e \in Socket, Seeing(e)' PROVE Seeing(e) /\ \A w \in Member : ShowsTrue(e, w)
  <2>1. Info(e)' # None => Info(e) # None
    BY <1>2, <1>6 DEF Info
  <2> QED
    BY <1>2, <1>8, <2>1 DEF Seeing, Shown, PresenceInv
<1>9. \A e \in Socket, w \in Member, k \in Kind :
        <<e, w, k>> # <<d, u, f.kind>> => (<<e, w, k>> \in doubt' <=> <<e, w, k>> \in doubt)
  BY <1>2
<1>10. \A e \in Socket, k \in Kind : Pending(e, u, k) /\ (e # d \/ k # f.kind) => Pending(e, u, k)'
  <2> SUFFICES ASSUME NEW e \in Socket, NEW k \in Kind, Pending(e, u, k), e # d \/ k # f.kind
               PROVE  Pending(e, u, k)'
    OBVIOUS
  <2>1. frames[c][1].kind = k /\ (targets[c] = None \/ e \in targets[c]) => e \in T
    BY <1>t, <1>2, <1>4
  <2> QED
    BY <1>1, <1>2, <1>3, <2>1, ReachPending
<1>11. ASSUME NEW e \in Socket, NEW w \in Member, Seeing(e)', w # u PROVE ShowsTrue(e, w)'
  <2>1. SameDisplay(e, w)
    <3>1. \A k \in Kind : w \in Info(e)'[k] <=> w \in Info(e)[k]
      <4>1. CASE e = d /\ at[d] # "send"
        <5>1. Info(d) = view[d] /\ Info(d)' = view'[d] /\ view[d] # None
          BY <1>2, <1>8, <1>11, <4>1 DEF Info, Seeing
        <5> QED
          BY <1>6, <1>11, <4>1, <5>1
      <4>2. CASE e # d \/ at[d] = "send"
        <5>1. Info(e)' = Info(e)
          BY <1>2, <1>6, <4>2 DEF Info
        <5> QED
          BY <5>1
      <4> QED
        BY <4>1, <4>2
    <3> QED
      BY <1>9, <1>11, <3>1 DEF SameDisplay
  <2> QED
    BY <1>5, <1>8, <1>11, <2>1, QuietPair
<1>12. ASSUME NEW e \in Socket, Seeing(e)', e # d PROVE ShowsTrue(e, u)'
  <2>1. Info(e)' = Info(e)
    BY <1>2, <1>6, <1>12 DEF Info
  <2>2. SameDisplay(e, u)
    BY <1>9, <1>12, <2>1 DEF SameDisplay
  <2> QED
    BY <1>2, <1>5, <1>8, <1>10, <1>12, <2>2, DisplayKept
<1>13. ASSUME Seeing(d)' PROVE ShowsTrue(d, u)'
  <2>1. Seeing(d) /\ ShowsTrue(d, u)
    BY <1>8, <1>13
  <2>2. flagged' = flagged /\ current' = current /\ at' = at /\ snap' = snap
    BY <1>2
  <2>3. CASE at[d] = "send"
    <3>1. doubt' = doubt \cup {<<d, u, f.kind>>} /\ Info(d)' = Info(d)
      BY <1>2, <2>1, <2>3 DEF Info, Seeing
    <3>2. SameDisplay(d, u)
      BY <3>1 DEF SameDisplay
    <3>3. \A k \in Kind : (u \in Info(d)[k] <=> Registered(u, k)) \/ Pending(d, u, k)
            \/ <<d, u, k>> \in doubt \/ (k = "present" /\ u = holderOf[d])
      BY <2>1 DEF ShowsTrue
    <3>4. \A k \in Kind : Registered(u, k)' = Registered(u, k)
      BY <2>2 DEF Registered
    <3>5. ASSUME NEW k \in Kind, <<d, u, k>> \notin doubt', k = "present" => u # holderOf[d]
          PROVE  (u \in Info(d)'[k] <=> Registered(u, k)') \/ Pending(d, u, k)'
      <4>1. k # f.kind /\ <<d, u, k>> \notin doubt
        BY <3>1, <3>5
      <4> QED
        BY <1>10, <3>1, <3>3, <3>4, <3>5, <4>1
    <3>6. u \in muddled' \/ (u \in flagged' /\ current'[u] = None) =>
            \A k \in Kind : <<d, u, k>> \in doubt'
      BY <1>5, <2>1, <2>2, <3>1 DEF ShowsTrue
    <3>7. u # holderOf[d] /\ (\A k \in Kind : <<d, u, k>> \notin doubt') /\ u \in Info(d)'["red"] =>
            u \in Info(d)'["present"]
      BY <2>1, <3>1, <3>2 DEF ShowsTrue, SameDisplay
    <3> QED
      BY <3>5, <3>6, <3>7 DEF ShowsTrue
  <2>4. CASE at[d] # "send" /\ u \in muddled
    <3>1. \A k \in Kind : <<d, u, k>> \in doubt'
      BY <1>2, <2>1, <2>4 DEF ShowsTrue
    <3>2. "red" \in Kind
      BY DEF Kind
    <3> QED
      BY <3>1, <3>2 DEF ShowsTrue
  <2>5. CASE at[d] # "send" /\ u \notin muddled
    <3>1. /\ Info(d) = view[d] /\ Info(d)' = view'[d] /\ view[d] # None
          /\ doubt' = doubt \ {<<d, u, f.kind>>}
      BY <1>2, <2>1, <2>5 DEF Info, Seeing
    <3>2. \A k \in Kind : u \in Info(d)'[k] <=> IF k = f.kind THEN f.on ELSE u \in Info(d)[k]
      BY <1>6, <3>1
    <3>3. SpeaksTrue(u)
      BY DEF PresenceInv
    <3>4. f.on = Registered(u, f.kind) /\ ~ (u \in flagged /\ current[u] = None)
      BY <1>u, <1>3, <1>4, <2>5, <3>3 DEF SpeaksTrue
    <3>5. u \notin muddled' /\ ~ (u \in flagged' /\ current'[u] = None)
      BY <1>5, <2>2, <2>5, <3>4
    <3>6. ASSUME NEW k \in Kind, <<d, u, k>> \notin doubt', k = "present" => u # holderOf[d]
          PROVE  (u \in Info(d)'[k] <=> Registered(u, k)') \/ Pending(d, u, k)'
      <4>1. Registered(u, k)' = Registered(u, k)
        BY <2>2 DEF Registered
      <4>2. CASE k = f.kind
        BY <3>2, <3>4, <4>1, <4>2
      <4>3. CASE k # f.kind
        <5>1. <<d, u, k>> \notin doubt
          BY <3>1, <3>6, <4>3
        <5>2. (u \in Info(d)[k] <=> Registered(u, k)) \/ Pending(d, u, k)
          BY <2>1, <3>6, <5>1 DEF ShowsTrue
        <5> QED
          BY <1>10, <3>2, <4>1, <4>3, <5>2
      <4> QED
        BY <4>2, <4>3
    <3>7. ASSUME u # holderOf[d], \A k \in Kind : <<d, u, k>> \notin doubt', u \in Info(d)'["red"]
          PROVE  u \in Info(d)'["present"]
      <4>1. \A k \in Kind : k # f.kind => <<d, u, k>> \notin doubt
        BY <3>1, <3>7
      <4>2. PICK v : v = Info(d)
        OBVIOUS
      <4>3. PICK w : w = Info(d)'
        OBVIOUS
      <4> QED
        BY <1>u, <1>1, <1>3, <1>4, <2>1, <2>5, <3>2, <3>3, <3>7, <4>1, <4>2, <4>3,
           FrameArrives
    <3> QED
      BY <3>5, <3>6, <3>7 DEF ShowsTrue
  <2> QED
    BY <2>3, <2>4, <2>5
<1> QED
  BY <1>5, <1>7, <1>11, <1>12, <1>13 DEF PresenceInv

----------------------------------------------------------------------------
(* Presence: theorems *)

LEMMA PresenceInvInit ==
  ASSUME PresenceInit
  PROVE  PresenceInv
<1>1. <<>> \in Announcement
  BY SMTT(30) DEF Announcement
<1>2. PresenceTypes
  BY <1>1 DEF PresenceInit, PresenceTypes, Stage
<1>3. \A u \in Member : SpeaksTrue(u)
  BY SMTT(30) DEF PresenceInit, SpeaksTrue
<1>4. \A d \in Socket : ~ Seeing(d)
  BY DEF PresenceInit, Seeing, Shown
<1> QED
  BY <1>2, <1>3, <1>4 DEF PresenceInv

LEMMA PresenceInvStep ==
  ASSUME PresenceInv, [PresenceNext]_presenceVars
  PROVE  PresenceInv'
<1>1. ASSUME NEW c \in Socket,
             \/ JoinRoomFor(c) \/ \E first \in BOOLEAN : Join(c, first)
             \/ CopySnapshot(c) \/ SendSnapshot(c) \/ SnapshotFails(c)
             \/ CopyTargets(c) \/ \E d \in Socket : EnqueueFor(c, d)
             \/ EmergencyRoomFor(c)
             \/ \E active, changed \in BOOLEAN : SetEmergency(c, active, changed)
             \/ LeaveRoomFor(c) \/ \E empty \in BOOLEAN : Leave(c, empty)
             \/ Drop(c)
      PROVE  PresenceInv'
  BY <1>1, JoinInv, CopySnapshotInv, SendSnapshotInv, CopyTargetsInv, EnqueueInv,
     SetEmergencyInv, LeaveInv, RoomForInv, LeaveRoomForInv, DropInv
<1>2. CASE UNCHANGED presenceVars
  <2>1. UNCHANGED <<current, flagged, at, frames, targets, snap, view, muddled, doubt>>
    BY <1>2 DEF presenceVars, registry
  <2>2. PresenceTypes'
    BY <2>1 DEF PresenceInv, PresenceTypes
  <2>3. \A u \in Member : Quiet(u)
    BY <2>1 DEF Quiet
  <2>4. \A d \in Socket, u \in Member : Seeing(d)' => Seeing(d) /\ SameDisplay(d, u)
    BY <2>1 DEF Seeing, Shown, Info, SameDisplay
  <2> QED
    BY <2>2, <2>3, <2>4, NothingHappens
<1> QED
  BY <1>1, <1>2 DEF PresenceNext

\* The room screen keeps its invariant: of a user whose changes do not overlap
\* one goroutine speaks, its frames say what the registry has, and a display
\* is right or has such a frame coming (join, leave, SetEmergency, snapshot and
\* broadcast of ws/hub.go).
LEMMA PresenceInvariant == PresenceSpec => []PresenceInv
<1>1. PresenceInit => PresenceInv
  BY PresenceInvInit
<1>2. PresenceInv /\ [PresenceNext]_presenceVars => PresenceInv'
  BY PresenceInvStep
<1> QED
  BY <1>1, <1>2, PTL DEF PresenceSpec

LEMMA WatchingSees ==
  ASSUME PresenceInv, NEW d \in Socket, Watching(d)
  PROVE  Seeing(d) /\ Info(d) = view[d]
<1>1. at[d] \in {"open", "alarm"}
  BY DisplayStage DEF PresenceInv, Watching, Live
<1> QED
  BY <1>1 DEF Seeing, Shown, Info, Watching

\* Once the frames about a user are out, every client shows the user present
\* or absent, in emergency or not, as the registry has it, for any number of
\* members and sockets, unless changes of that user overlapped, met the client's
\* own snapshot, went into an object the last leave had dropped, or concerned a
\* user who had left (join, leave and SetEmergency look the object up before
\* they lock it; broadcast copies its targets under the lock and enqueues later).
THEOREM PresenceSettled == PresenceSpec => []PresenceSettles
<1>1. ASSUME PresenceInv PROVE PresenceSettles
  <2> SUFFICES ASSUME NEW d \in Socket, NEW u \in Member, Watching(d), Settled(u)
               PROVE  /\ u # holderOf[d] /\ <<d, u, "present">> \notin doubt
                           => (u \in view[d].present <=> current[u] # None)
                      /\ <<d, u, "red">> \notin doubt => (u \in view[d].red <=> u \in flagged)
    BY DEF PresenceSettles
  <2>1. ShowsTrue(d, u) /\ Info(d) = view[d]
    BY <1>1, WatchingSees DEF PresenceInv
  <2>2. \A k \in Kind : ~ Pending(d, u, k)
    BY SMTT(30) DEF Pending, Settled
  <2>3. "red" \in Kind /\ "present" \in Kind /\ "red" # "present"
    BY DEF Kind
  <2> QED
    BY <2>1, <2>2, <2>3 DEF ShowsTrue, Registered
<1> QED
  BY <1>1, PresenceInvariant, PTL

\* No client shows an absent user in emergency, under the same proviso:
\* ServeHTTP cancels the emergency before it announces the absence, and on
\* every client the frames of one goroutine arrive in that order.
THEOREM PresenceNoAbsentEmergency == PresenceSpec => []NoAbsentEmergency
<1>1. ASSUME PresenceInv PROVE NoAbsentEmergency
  <2> SUFFICES ASSUME NEW d \in Socket, NEW u \in Member, Watching(d), u # holderOf[d],
                      u \in view[d].red, \A k \in Kind : <<d, u, k>> \notin doubt
               PROVE  u \in view[d].present
    BY DEF NoAbsentEmergency
  <2>1. ShowsTrue(d, u) /\ Info(d) = view[d]
    BY <1>1, WatchingSees DEF PresenceInv
  <2> QED
    BY <2>1 DEF ShowsTrue
<1> QED
  BY <1>1, PresenceInvariant, PTL
=============================================================================
