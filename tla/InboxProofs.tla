------------------------------ MODULE InboxProofs ------------------------------
(***************************************************************************)
(* What holds of Inbox for any number of users, sockets, notifications and *)
(* requests: the types, that isUserOnline is right but for sockets that    *)
(* closed during their check, and that a list is answered with numbers of  *)
(* the time of its request.                                                *)
(***************************************************************************)
EXTENDS Inbox, FiniteSetTheorems, TLAPS

-----------------------------------------------------------------------------
(* Sockets. *)

SocketTypeOK ==
    /\ alive \in [Socket -> BOOLEAN]
    /\ check \in [Socket -> {"none", "verifying", "ok", "refused"}]
    /\ owner \in [Socket -> InUser \cup {NoOne}]
    /\ \A s \in Socket : check[s] # "none" => owner[s] \in InUser
    /\ data \in [Socket -> Key \cup {NoKey}]
    /\ userSockets \in SUBSET (Key \X Socket)
    /\ room \in SUBSET (Key \X Socket)
    /\ overtaken \in SUBSET Socket

LEMMA SubIsKey ==
    \A u \in InUser : Sub(u) \in Key /\ \A v \in InUser : Sub(u) = Sub(v) => u = v
BY DEF Sub, Key

LEMMA SocketTypes == SocketTypeOK /\ (SocketNext \/ ServerRestarts \/ UNCHANGED sockets) => SocketTypeOK'
<1> SUFFICES ASSUME SocketTypeOK, SocketNext \/ ServerRestarts \/ UNCHANGED sockets
             PROVE  SocketTypeOK'
  OBVIOUS
<1>1. ASSUME NEW s \in Socket, NEW u \in InUser, OpenSocket(s, u) PROVE SocketTypeOK'
  <2>1. alive' \in [Socket -> BOOLEAN]
    BY <1>1, Zenon DEF OpenSocket, SocketTypeOK
  <2> QED BY <1>1, <2>1 DEF OpenSocket, SocketTypeOK
<1>2. ASSUME NEW s \in Socket, Verify(s) PROVE SocketTypeOK'
  <2>1. owner[s] \in InUser /\ Sub(owner[s]) \in Key
    BY <1>2, SubIsKey DEF Verify, SocketTypeOK
  <2> QED BY <1>2, <2>1 DEF Verify, SocketTypeOK
<1>3. ASSUME NEW s \in Socket, Refuse(s) PROVE SocketTypeOK'
  <2>1. alive' \in [Socket -> BOOLEAN]
    BY <1>3, Zenon DEF Refuse, SocketTypeOK
  <2> QED BY <1>3, <2>1 DEF Refuse, SocketTypeOK
<1>4. ASSUME NEW s \in Socket, CloseSocket(s) PROVE SocketTypeOK'
  <2>1. alive' \in [Socket -> BOOLEAN]
    BY <1>4, Zenon DEF CloseSocket, SocketTypeOK
  <2>2. overtaken' \in SUBSET Socket
    BY <1>4 DEF CloseSocket, SocketTypeOK
  <2> QED BY <1>4, <2>1, <2>2 DEF CloseSocket, SocketTypeOK
<1>5. ASSUME ServerRestarts PROVE SocketTypeOK'
  <2>1. alive' \in [Socket -> BOOLEAN]
    BY <1>5, Zenon DEF ServerRestarts
  <2> QED BY <1>5, <2>1 DEF ServerRestarts, SocketTypeOK
<1>6. CASE UNCHANGED sockets
  BY <1>6 DEF sockets, SocketTypeOK
<1> QED BY <1>1, <1>2, <1>3, <1>4, <1>5, <1>6 DEF SocketNext

(* What is inductive: the gateway has exactly the verified sockets that    *)
(* are open, and those that closed before they were verified.              *)
Registered ==
    /\ \A s \in Socket : check[s] = "ok" => data[s] = Sub(owner[s])
    /\ \A m \in userSockets :
          /\ check[m[2]] = "ok" /\ m[1] = Sub(owner[m[2]])
          /\ alive[m[2]] \/ m[2] \in overtaken
    /\ \A s \in Socket : check[s] = "ok" /\ alive[s] => <<Sub(owner[s]), s>> \in userSockets
    /\ \A s \in Socket : check[s] = "verifying" /\ ~alive[s] => s \in overtaken

LEMMA RegisteredStep ==
    SocketTypeOK /\ Registered /\ (SocketNext \/ ServerRestarts \/ UNCHANGED sockets) => Registered'
<1> SUFFICES ASSUME SocketTypeOK, Registered, SocketNext \/ ServerRestarts \/ UNCHANGED sockets
             PROVE  Registered'
  OBVIOUS
<1>1. ASSUME NEW s \in Socket, NEW u \in InUser, OpenSocket(s, u) PROVE Registered'
  <2>1. /\ check[s] = "none"
        /\ check'[s] = "verifying" /\ alive'[s]
        /\ \A r \in Socket \ {s} : check'[r] = check[r] /\ alive'[r] = alive[r] /\ owner'[r] = owner[r]
        /\ UNCHANGED <<data, userSockets, overtaken>>
    BY <1>1 DEF OpenSocket, SocketTypeOK
  <2>2. \A m \in userSockets : m[2] \in Socket /\ m[2] # s
    BY <2>1 DEF Registered, SocketTypeOK
  <2> QED BY <2>1, <2>2 DEF Registered
<1>2. ASSUME NEW s \in Socket, Verify(s) PROVE Registered'
  <2>1. /\ check[s] = "verifying" /\ check'[s] = "ok" /\ data'[s] = Sub(owner[s])
        /\ \A r \in Socket \ {s} : check'[r] = check[r] /\ data'[r] = data[r]
        /\ userSockets' = userSockets \cup {<<Sub(owner[s]), s>>}
        /\ UNCHANGED <<alive, owner, overtaken>>
    BY <1>2 DEF Verify, SocketTypeOK
  <2>2. \A m \in userSockets : m[2] \in Socket /\ m[2] # s
    BY <2>1 DEF Registered, SocketTypeOK
  <2>3. alive[s] \/ s \in overtaken
    BY <2>1 DEF Registered
  <2> QED BY <2>1, <2>2, <2>3 DEF Registered
<1>3. ASSUME NEW s \in Socket, Refuse(s) PROVE Registered'
  <2>1. /\ check[s] = "verifying" /\ check'[s] = "refused" /\ ~alive'[s]
        /\ \A r \in Socket \ {s} : check'[r] = check[r] /\ alive'[r] = alive[r]
        /\ UNCHANGED <<owner, data, userSockets, overtaken>>
    BY <1>3 DEF Refuse, SocketTypeOK
  <2>2. \A m \in userSockets : m[2] \in Socket /\ m[2] # s
    BY <2>1 DEF Registered, SocketTypeOK
  <2> QED BY <2>1, <2>2 DEF Registered
<1>4. ASSUME NEW s \in Socket, CloseSocket(s) PROVE Registered'
  <2>1. /\ alive[s] /\ ~alive'[s]
        /\ \A r \in Socket \ {s} : alive'[r] = alive[r]
        /\ userSockets' = userSockets \ {<<data[s], s>>}
        /\ overtaken' = IF check[s] = "verifying" THEN overtaken \cup {s} ELSE overtaken
        /\ UNCHANGED <<check, owner, data>>
    BY <1>4 DEF CloseSocket, SocketTypeOK
  <2>2. \A m \in userSockets' : m \in userSockets /\ m[2] \in Socket /\ m[2] # s
    <3> SUFFICES ASSUME NEW m \in userSockets' PROVE m \in userSockets /\ m[2] \in Socket /\ m[2] # s
      OBVIOUS
    <3>1. m \in userSockets /\ m \in Key \X Socket /\ m # <<data[s], s>>
      BY <2>1 DEF SocketTypeOK
    <3>2. m = <<m[1], m[2]>> /\ m[1] = Sub(owner[m[2]]) /\ check[m[2]] = "ok"
      BY <3>1 DEF Registered
    <3> QED BY <3>1, <3>2 DEF Registered
  <2>3. \A r \in Socket : r # s => <<Sub(owner[r]), r>> # <<data[s], s>>
    OBVIOUS
  <2> QED BY <2>1, <2>2, <2>3 DEF Registered
<1>5. ASSUME ServerRestarts PROVE Registered'
  <2>1. /\ \A s \in Socket : check'[s] \in {"none", "refused"}
        /\ userSockets' = {}
    BY <1>5 DEF ServerRestarts
  <2> QED BY <2>1 DEF Registered
<1>6. CASE UNCHANGED sockets
  BY <1>6 DEF sockets, Registered
<1> QED BY <1>1, <1>2, <1>3, <1>4, <1>5, <1>6 DEF SocketNext

(* Whoever isUserOnline says is online has an open socket, or had one that *)
(* closed during its check, and whoever has one is online.                 *)
THEOREM OnlineIsOpen == InboxSpec => []OnlineMeansOpen
<1>1. InboxInit => SocketTypeOK /\ Registered
  <2> SUFFICES ASSUME InboxInit PROVE SocketTypeOK /\ Registered
    OBVIOUS
  <2>1. alive \in [Socket -> BOOLEAN]
    BY Zenon DEF InboxInit
  <2> QED BY <2>1 DEF InboxInit, SocketTypeOK, Registered
<1>2. SocketTypeOK /\ Registered /\ [InboxNext]_inVars => SocketTypeOK' /\ Registered'
  <2>1. NoteNext => UNCHANGED sockets
    BY DEF NoteNext, NotifyUser, FindNote, AskList, EmitNote, FindPage, CountWanted, CountUnread,
           Received, AnswerList, MarkRead, MarkAllRead
  <2> QED BY <2>1, SocketTypes, RegisteredStep DEF InboxNext, inVars
<1>3. SocketTypeOK /\ Registered => OnlineMeansOpen
  <2> SUFFICES ASSUME SocketTypeOK, Registered, NEW u \in InUser
               PROVE  /\ IsUserOnline(Sub(u)) =>
                            \E s \in Socket : /\ owner[s] = u /\ check[s] = "ok"
                                              /\ alive[s] \/ s \in overtaken
                      /\ (\E s \in Socket : owner[s] = u /\ check[s] = "ok" /\ alive[s])
                            => IsUserOnline(Sub(u))
    BY DEF OnlineMeansOpen
  <2>1. ASSUME NEW s \in Socket, <<Sub(u), s>> \in userSockets
        PROVE  owner[s] = u /\ check[s] = "ok" /\ (alive[s] \/ s \in overtaken)
    <3>1. /\ check[s] = "ok" /\ Sub(u) = Sub(owner[s])
          /\ alive[s] \/ s \in overtaken
      BY <2>1 DEF Registered
    <3>2. owner[s] \in InUser
      BY <3>1 DEF SocketTypeOK
    <3> QED BY <3>1, <3>2, SubIsKey
  <2> QED BY <2>1 DEF Registered, IsUserOnline
<1> QED BY <1>1, <1>2, <1>3, PTL DEF InboxSpec

-----------------------------------------------------------------------------
(* Notifications. *)

InLabel == {"idle", "emit", "queries", "answer", "mark"}

(* What a handler brings along suits the await it is about to perform.     *)
Suits(label, v) ==
    /\ label # "idle" => v.user \in InUser
    /\ label \in {"emit", "mark"} => v.note \in Note /\ note[v.note] \in NoteRow

NoteTypeOK ==
    /\ note \in [Note -> NoteRow \cup {NoNote}]
    /\ inStep \in [InHandler -> InLabel]
    /\ inHeld \in [InHandler -> NoteHeld]
    /\ \A h \in InHandler : Suits(inStep[h], inHeld[h])
    /\ unheard \in SUBSET (Note \X Socket)

(* A notification stays, stays its user's, and stays read. *)
NotesGrow ==
    \A n \in Note : note[n] # NoNote =>
        /\ note'[n] \in NoteRow /\ note'[n].user = note[n].user
        /\ note[n].read => note'[n].read

LEMMA NoRowIsNone == NoNote \notin NoteRow
BY InboxAssumption DEF NoteRow

(* The notifications are finitely many. *)
LEMMA Counting ==
    ASSUME NEW S \in SUBSET Note
    PROVE  /\ IsFiniteSet(S) /\ Cardinality(S) \in Nat
           /\ \A T \in SUBSET S : Cardinality(T) \in Nat /\ Cardinality(T) <= Cardinality(S)
<1>1. IsFiniteSet(Note)
  BY InboxAssumption
<1>2. IsFiniteSet(S)
  BY <1>1, FS_Subset
<1>3. Cardinality(S) \in Nat
  BY <1>2, FS_CardinalityType
<1>4. ASSUME NEW T \in SUBSET S PROVE Cardinality(T) \in Nat /\ Cardinality(T) <= Cardinality(S)
  <2>1. IsFiniteSet(T) /\ Cardinality(T) <= Cardinality(S)
    BY <1>2, FS_Subset
  <2> QED BY <2>1, FS_CardinalityType
<1> QED BY <1>2, <1>3, <1>4

LEMMA MineAreNotes == \A u : Mine(u) \in SUBSET Note /\ Unread(u) \in SUBSET Mine(u)
BY DEF Mine, Unread

LEMMA NoHeldTypes ==
    /\ NoHeld \in NoteHeld
    /\ \A u \in InUser, n \in Note :
          /\ [NoHeld EXCEPT !.user = u, !.note = n] \in NoteHeld
          /\ [NoHeld EXCEPT !.user = u, !.note = n].user = u
          /\ [NoHeld EXCEPT !.user = u, !.note = n].note = n
<1>1. 0 \in Nat
  OBVIOUS
<1>2. NoHeld \in NoteHeld
  BY <1>1, Zenon DEF NoHeld, NoteHeld
<1> QED BY <1>2, Zenon DEF NoHeld, NoteHeld

LEMMA InGoTypes ==
    ASSUME NoteTypeOK, NotesGrow, note' \in [Note -> NoteRow \cup {NoNote}],
           NEW h \in InHandler, NEW label \in InLabel, NEW v \in NoteHeld,
           Suits(label, v)', InGo(h, label, v)
    PROVE  /\ inStep' \in [InHandler -> InLabel] /\ inHeld' \in [InHandler -> NoteHeld]
           /\ \A g \in InHandler : Suits(inStep[g], inHeld[g])'
<1>1. inStep' = [inStep EXCEPT ![h] = label] /\ inHeld' = [inHeld EXCEPT ![h] = v]
  BY DEF InGo
<1>2. /\ inStep \in [InHandler -> InLabel] /\ inHeld \in [InHandler -> NoteHeld]
      /\ \A g \in InHandler : Suits(inStep[g], inHeld[g])
  BY DEF NoteTypeOK
<1>3. ASSUME NEW g \in InHandler PROVE Suits(inStep[g], inHeld[g])'
  <2>1. CASE g = h
    <3>1. inStep'[g] = label /\ inHeld'[g] = v
      BY <1>1, <1>2, <2>1
    <3> QED BY <3>1 DEF Suits
  <2>2. CASE g # h
    <3>1. inStep'[g] = inStep[g] /\ inHeld'[g] = inHeld[g]
      BY <1>1, <1>2, <2>2
    <3> QED BY <1>2, <3>1, NoRowIsNone DEF Suits, NotesGrow
  <2> QED BY <2>1, <2>2
<1> QED BY <1>1, <1>2, <1>3, Zenon

(* The step of a query: r is what the request brings along next. *)
QueryStep(h, q, r) ==
    /\ inStep[h] = "queries" /\ q \in inHeld[h].pending
    /\ InGo(h, IF inHeld[h].pending = {q} THEN "answer" ELSE "queries", r)
    /\ r \in NoteHeld /\ r.pending = inHeld[h].pending \ {q}
    /\ r.user = inHeld[h].user /\ r.unreadOnly = inHeld[h].unreadOnly
    /\ r.before = inHeld[h].before /\ r.fresh = inHeld[h].fresh
    /\ UNCHANGED <<sockets, note, unheard>>

LEMMA PageStep ==
    ASSUME NoteTypeOK, NEW h \in InHandler, FindPage(h)
    PROVE  \E r : /\ QueryStep(h, "page", r)
                  /\ r.page \subseteq Wanted(h)
                  /\ r.total = inHeld[h].total /\ r.unread = inHeld[h].unread
<1>1. PICK page \in SUBSET Wanted(h) : Received(h, "page", [inHeld[h] EXCEPT !.page = page])
  BY Zenon DEF FindPage
<1>2. inHeld[h] \in NoteHeld /\ page \in SUBSET Note
  BY MineAreNotes DEF NoteTypeOK, Wanted
<1> DEFINE r == [[inHeld[h] EXCEPT !.page = page] EXCEPT !.pending = @ \ {"page"}]
<1>3. /\ r \in NoteHeld /\ r.pending = inHeld[h].pending \ {"page"} /\ r.page = page
      /\ r.total = inHeld[h].total /\ r.unread = inHeld[h].unread /\ r.user = inHeld[h].user
      /\ r.before = inHeld[h].before /\ r.fresh = inHeld[h].fresh
      /\ r.unreadOnly = inHeld[h].unreadOnly
  <2>1. inHeld[h].pending \ {"page"} \in SUBSET Query
    BY <1>2, Zenon DEF NoteHeld
  <2> QED BY <1>2, <2>1, Zenon DEF NoteHeld
<1>4. /\ inStep[h] = "queries" /\ "page" \in inHeld[h].pending
      /\ InGo(h, IF inHeld[h].pending = {"page"} THEN "answer" ELSE "queries", r)
      /\ UNCHANGED <<sockets, note, unheard>>
  BY <1>1, Zenon DEF Received
<1> QED BY <1>3, <1>4, Zenon DEF QueryStep

LEMMA CountStep ==
    ASSUME NoteTypeOK, NEW h \in InHandler, CountWanted(h)
    PROVE  \E r : /\ QueryStep(h, "count", r)
                  /\ r.total = Cardinality(Wanted(h))
                  /\ r.page = inHeld[h].page /\ r.unread = inHeld[h].unread
<1>1. Received(h, "count", [inHeld[h] EXCEPT !.total = Cardinality(Wanted(h))])
  BY DEF CountWanted
<1>2. inHeld[h] \in NoteHeld /\ Cardinality(Wanted(h)) \in Nat
  BY MineAreNotes, Counting DEF NoteTypeOK, Wanted
<1> DEFINE r == [[inHeld[h] EXCEPT !.total = Cardinality(Wanted(h))] EXCEPT !.pending = @ \ {"count"}]
<1>3. /\ r \in NoteHeld /\ r.pending = inHeld[h].pending \ {"count"}
      /\ r.total = Cardinality(Wanted(h))
      /\ r.page = inHeld[h].page /\ r.unread = inHeld[h].unread /\ r.user = inHeld[h].user
      /\ r.before = inHeld[h].before /\ r.fresh = inHeld[h].fresh
      /\ r.unreadOnly = inHeld[h].unreadOnly
  <2>1. inHeld[h].pending \ {"count"} \in SUBSET Query
    BY <1>2, Zenon DEF NoteHeld
  <2> QED BY <1>2, <2>1, Zenon DEF NoteHeld
<1>4. /\ inStep[h] = "queries" /\ "count" \in inHeld[h].pending
      /\ InGo(h, IF inHeld[h].pending = {"count"} THEN "answer" ELSE "queries", r)
      /\ UNCHANGED <<sockets, note, unheard>>
  BY <1>1, Zenon DEF Received
<1> QED BY <1>3, <1>4, Zenon DEF QueryStep

LEMMA UnreadStep ==
    ASSUME NoteTypeOK, NEW h \in InHandler, CountUnread(h)
    PROVE  \E r : /\ QueryStep(h, "unread", r)
                  /\ r.unread = Cardinality(Unread(inHeld[h].user))
                  /\ r.page = inHeld[h].page /\ r.total = inHeld[h].total
<1> DEFINE k == Cardinality(Unread(inHeld[h].user))
<1>1. Received(h, "unread", [inHeld[h] EXCEPT !.unread = k])
  BY DEF CountUnread
<1>2. inHeld[h] \in NoteHeld /\ k \in Nat
  BY MineAreNotes, Counting DEF NoteTypeOK
<1> DEFINE r == [[inHeld[h] EXCEPT !.unread = k] EXCEPT !.pending = @ \ {"unread"}]
<1>3. /\ r \in NoteHeld /\ r.pending = inHeld[h].pending \ {"unread"} /\ r.unread = k
      /\ r.page = inHeld[h].page /\ r.total = inHeld[h].total /\ r.user = inHeld[h].user
      /\ r.before = inHeld[h].before /\ r.fresh = inHeld[h].fresh
      /\ r.unreadOnly = inHeld[h].unreadOnly
  <2> HIDE DEF k
  <2>1. inHeld[h].pending \ {"unread"} \in SUBSET Query
    BY <1>2, Zenon DEF NoteHeld
  <2> QED BY <1>2, <2>1, Zenon DEF NoteHeld
<1>4. /\ inStep[h] = "queries" /\ "unread" \in inHeld[h].pending
      /\ InGo(h, IF inHeld[h].pending = {"unread"} THEN "answer" ELSE "queries", r)
      /\ UNCHANGED <<sockets, note, unheard>>
  <2> HIDE DEF k
  <2> QED BY <1>1, Zenon DEF Received
<1> QED BY <1>3, <1>4, Zenon DEF QueryStep

(* A step that leaves the table alone. *)
LEMMA SameNotesGrow == NoteTypeOK /\ UNCHANGED note => NotesGrow /\ note' \in [Note -> NoteRow \cup {NoNote}]
BY DEF NoteTypeOK, NotesGrow

LEMMA NoteStepTypes ==
    SocketTypeOK /\ NoteTypeOK /\ [InboxNext]_inVars => NoteTypeOK' /\ NotesGrow
<1> SUFFICES ASSUME SocketTypeOK, NoteTypeOK, [InboxNext]_inVars PROVE NoteTypeOK' /\ NotesGrow
  OBVIOUS
<1>1. ASSUME NotesGrow, note' \in [Note -> NoteRow \cup {NoNote}], UNCHANGED unheard,
             NEW h \in InHandler, NEW label \in InLabel, NEW v \in NoteHeld,
             Suits(label, v)', InGo(h, label, v)
      PROVE  NoteTypeOK' /\ NotesGrow
  BY <1>1, InGoTypes DEF NoteTypeOK
<1>2. ASSUME NEW h \in InHandler, NEW q \in Query, NEW r, QueryStep(h, q, r)
      PROVE  NoteTypeOK' /\ NotesGrow
  <2>1. /\ r \in NoteHeld /\ UNCHANGED <<note, unheard>>
        /\ inStep[h] = "queries" /\ r.user = inHeld[h].user
    BY <1>2 DEF QueryStep
  <2>2. PICK label \in {"answer", "queries"} : InGo(h, label, r)
    BY <1>2, Zenon DEF QueryStep
  <2>3. r.user \in InUser
    BY <2>1 DEF NoteTypeOK, Suits
  <2>4. Suits(label, r)'
    BY <2>2, <2>3 DEF Suits
  <2> QED BY <1>1, <2>1, <2>2, <2>4, SameNotesGrow DEF InLabel
<1>3. ASSUME NEW h \in InHandler, NEW u \in InUser, NEW n \in Note, NotifyUser(h, u, n)
      PROVE  NoteTypeOK' /\ NotesGrow
  <2> DEFINE v == [NoHeld EXCEPT !.user = u, !.note = n]
  <2>1. v \in NoteHeld /\ v.user = u /\ v.note = n
    BY NoHeldTypes, Zenon
  <2>2. /\ note[n] = NoNote /\ note' = [note EXCEPT ![n] = [user |-> u, read |-> FALSE]]
        /\ InGo(h, "emit", v) /\ UNCHANGED unheard
    BY <1>3, Zenon DEF NotifyUser
  <2> HIDE DEF v
  <2>3. [user |-> u, read |-> FALSE] \in NoteRow
    BY Zenon DEF NoteRow
  <2>4. note' \in [Note -> NoteRow \cup {NoNote}] /\ note'[n] \in NoteRow
    BY <2>2, <2>3, Zenon DEF NoteTypeOK
  <2>5. \A m \in Note : note[m] # NoNote => note'[m] = note[m] /\ note[m] \in NoteRow
    BY <2>2 DEF NoteTypeOK
  <2>6. NotesGrow
    BY <2>5 DEF NotesGrow
  <2>7. Suits("emit", v)'
    BY <2>1, <2>4 DEF Suits
  <2> QED BY <1>1, <2>1, <2>2, <2>4, <2>6, <2>7 DEF InLabel
<1>4. ASSUME NEW h \in InHandler, NEW u \in InUser, NEW n \in Note, FindNote(h, u, n)
      PROVE  NoteTypeOK' /\ NotesGrow
  <2> DEFINE v == [NoHeld EXCEPT !.user = u, !.note = n]
  <2>1. v \in NoteHeld /\ v.user = u /\ v.note = n
    BY NoHeldTypes, Zenon
  <2>2. n \in Unread(u) /\ InGo(h, "mark", v) /\ UNCHANGED <<note, unheard>>
    BY <1>4, Zenon DEF FindNote
  <2> HIDE DEF v
  <2>3. note[n] \in NoteRow
    BY <2>2 DEF Unread, Mine, NoteTypeOK
  <2>4. Suits("mark", v)'
    BY <2>1, <2>2, <2>3 DEF Suits
  <2> QED BY <1>1, <2>1, <2>2, <2>4, SameNotesGrow DEF InLabel
<1>5. ASSUME NEW h \in InHandler, NEW u \in InUser, NEW only \in BOOLEAN, AskList(h, u, only)
      PROVE  NoteTypeOK' /\ NotesGrow
  <2>1. Mine(u) \in SUBSET Note /\ Unread(u) \in SUBSET Note
    BY MineAreNotes
  <2> DEFINE w == [NoHeld EXCEPT !.user = u, !.pending = Query, !.unreadOnly = only,
                                 !.before = Mine(u), !.fresh = Unread(u)]
  <2>2. w \in NoteHeld /\ w.user = u
    BY <2>1, NoHeldTypes, Zenon DEF NoteHeld
  <2>3. InGo(h, "queries", w) /\ UNCHANGED <<note, unheard>>
    BY <1>5, Zenon DEF AskList
  <2> HIDE DEF w
  <2>4. PICK v \in NoteHeld : v.user = u /\ InGo(h, "queries", v)
    BY <2>2, <2>3
  <2>5. Suits("queries", v)'
    BY <2>4 DEF Suits
  <2> QED BY <1>1, <2>3, <2>4, <2>5, SameNotesGrow DEF InLabel
<1>6. ASSUME NEW h \in InHandler, EmitNote(h) PROVE NoteTypeOK' /\ NotesGrow
  <2>1. /\ inHeld[h].note \in Note /\ InGo(h, "idle", NoHeld) /\ UNCHANGED note
    BY <1>6 DEF EmitNote, NoteTypeOK, Suits
  <2>2. unheard' \in SUBSET (Note \X Socket)
    BY <1>6, <2>1 DEF EmitNote, NoteTypeOK
  <2>3. Suits("idle", NoHeld)'
    BY DEF Suits
  <2> QED BY <2>1, <2>2, <2>3, NoHeldTypes, InGoTypes, SameNotesGrow DEF NoteTypeOK, InLabel
<1>7. ASSUME NEW h \in InHandler, AnswerList(h) PROVE NoteTypeOK' /\ NotesGrow
  <2>1. InGo(h, "idle", NoHeld) /\ UNCHANGED <<note, unheard>>
    BY <1>7 DEF AnswerList
  <2>2. Suits("idle", NoHeld)'
    BY DEF Suits
  <2> QED BY <1>1, <2>1, <2>2, NoHeldTypes, SameNotesGrow DEF InLabel
<1>8. ASSUME NEW n \in Note, note[n] \in NoteRow
      PROVE  /\ [note[n] EXCEPT !.read = TRUE] \in NoteRow
             /\ [note[n] EXCEPT !.read = TRUE].user = note[n].user
             /\ [note[n] EXCEPT !.read = TRUE].read
  BY <1>8, Zenon DEF NoteRow
<1>9. ASSUME NEW h \in InHandler, MarkRead(h) PROVE NoteTypeOK' /\ NotesGrow
  <2> DEFINE n == inHeld[h].note
  <2>1. n \in Note /\ note[n] \in NoteRow /\ UNCHANGED unheard /\ InGo(h, "idle", NoHeld)
    BY <1>9 DEF MarkRead, NoteTypeOK, Suits
  <2>2. note' = [note EXCEPT ![n] = [note[n] EXCEPT !.read = TRUE]]
    BY <1>9, Zenon DEF MarkRead
  <2> HIDE DEF n
  <2>3. /\ note'[n] = [note[n] EXCEPT !.read = TRUE]
        /\ \A m \in Note : m # n => note'[m] = note[m]
        /\ note' \in [Note -> NoteRow \cup {NoNote}]
    BY <1>8, <2>1, <2>2, Zenon DEF NoteTypeOK
  <2>4. \A m \in Note : note[m] # NoNote => note[m] \in NoteRow
    BY DEF NoteTypeOK
  <2>5. NotesGrow
    BY <1>8, <2>1, <2>3, <2>4, Zenon DEF NotesGrow
  <2>6. Suits("idle", NoHeld)'
    BY DEF Suits
  <2> QED BY <1>1, <2>1, <2>3, <2>5, <2>6, NoHeldTypes DEF InLabel
<1>10. ASSUME NEW u \in InUser, MarkAllRead(u) PROVE NoteTypeOK' /\ NotesGrow
  <2>1. /\ note' = [n \in Note |-> IF n \in Unread(u) THEN [note[n] EXCEPT !.read = TRUE] ELSE note[n]]
        /\ UNCHANGED <<inStep, inHeld, unheard>>
    BY <1>10, Zenon DEF MarkAllRead, handlers
  <2>2. ASSUME NEW n \in Note
        PROVE  /\ note'[n] \in NoteRow \cup {NoNote}
               /\ note[n] # NoNote => /\ note'[n] \in NoteRow /\ note'[n].user = note[n].user
                                      /\ note[n].read => note'[n].read
    <3>1. note[n] \in NoteRow \cup {NoNote}
      BY DEF NoteTypeOK
    <3>2. CASE n \in Unread(u)
      <4>1. note[n] \in NoteRow
        BY <3>1, <3>2 DEF Unread, Mine
      <4>2. note'[n] = [note[n] EXCEPT !.read = TRUE]
        BY <2>1, <3>2, Zenon
      <4> QED BY <1>8, <4>1, <4>2, Zenon
    <3>3. CASE n \notin Unread(u)
      <4>1. note'[n] = note[n]
        BY <2>1, <3>3, Zenon
      <4> QED BY <3>1, <4>1, Zenon
    <3> QED BY <3>2, <3>3
  <2>3. note' \in [Note -> NoteRow \cup {NoNote}]
    BY <2>1, <2>2, Zenon
  <2>4. NotesGrow
    BY <2>2, Zenon DEF NotesGrow
  <2>5. \A h \in InHandler : Suits(inStep[h], inHeld[h])'
    BY <2>1, <2>2, NoRowIsNone DEF Suits, NoteTypeOK
  <2> QED BY <2>1, <2>3, <2>4, <2>5 DEF NoteTypeOK
<1>11. ASSUME ServerRestarts PROVE NoteTypeOK' /\ NotesGrow
  <2>1. /\ UNCHANGED <<note, unheard>>
        /\ \A h \in InHandler : inStep'[h] = "idle" /\ inHeld'[h] = NoHeld
        /\ inStep' \in [InHandler -> InLabel] /\ inHeld' \in [InHandler -> NoteHeld]
    BY <1>11, NoHeldTypes DEF ServerRestarts, InLabel
  <2> QED BY <2>1, SameNotesGrow DEF NoteTypeOK, Suits
<1>12. ASSUME UNCHANGED <<note, handlers, unheard>> PROVE NoteTypeOK' /\ NotesGrow
  BY <1>12, SameNotesGrow DEF NoteTypeOK, handlers, Suits
<1>13. CASE SocketNext
  BY <1>12, <1>13 DEF SocketNext, OpenSocket, Verify, Refuse, CloseSocket
<1>14. ASSUME NEW h \in InHandler, FindPage(h) \/ CountWanted(h) \/ CountUnread(h)
       PROVE  NoteTypeOK' /\ NotesGrow
  <2>1. \E q \in Query : \E r : QueryStep(h, q, r)
    BY <1>14, PageStep, CountStep, UnreadStep DEF Query
  <2> QED BY <1>2, <2>1
<1>15. CASE UNCHANGED inVars
  BY <1>12, <1>15 DEF inVars
<1> QED
  BY <1>3, <1>4, <1>5, <1>6, <1>7, <1>9, <1>10, <1>11, <1>13, <1>14, <1>15
  DEF InboxNext, NoteNext

InboxTypes == SocketTypeOK /\ NoteTypeOK

LEMMA InboxInitTypes == InboxInit => InboxTypes
<1> SUFFICES ASSUME InboxInit PROVE InboxTypes
  OBVIOUS
<1>1. alive \in [Socket -> BOOLEAN]
  BY Zenon DEF InboxInit
<1>2. SocketTypeOK
  BY <1>1 DEF InboxInit, SocketTypeOK
<1>3. NoteTypeOK
  BY NoHeldTypes DEF InboxInit, NoteTypeOK, InLabel, Suits
<1> QED BY <1>2, <1>3 DEF InboxTypes

LEMMA InboxStepTypes == InboxTypes /\ [InboxNext]_inVars => InboxTypes'
<1>1. NoteNext => UNCHANGED sockets
  BY DEF NoteNext, NotifyUser, FindNote, AskList, EmitNote, FindPage, CountWanted, CountUnread,
         Received, AnswerList, MarkRead, MarkAllRead
<1> QED BY <1>1, SocketTypes, NoteStepTypes DEF InboxTypes, InboxNext, inVars

(* The types of the inbox, for any number of sockets, notifications and    *)
(* requests.                                                               *)
THEOREM InboxTypeCorrect == InboxSpec => []InboxTypeOK
<1>1. InboxTypes => InboxTypeOK
  BY DEF InboxTypes, SocketTypeOK, NoteTypeOK, InboxTypeOK, InLabel, Suits
<1> QED BY <1>1, InboxInitTypes, InboxStepTypes, PTL DEF InboxSpec

-----------------------------------------------------------------------------
(* The answer of a list. *)

Kept(r) == r.fresh \cap Unread(r.user)

Possible(r) == Mine(r.user) \ (r.before \ r.fresh)

Least(r) == IF r.unreadOnly THEN Kept(r) ELSE r.before

Most(r) == IF r.unreadOnly THEN Possible(r) ELSE Mine(r.user)

(* What is inductive: whatever has come back is within the bounds, which   *)
(* only widen while the request runs.                                      *)
Seen(r) ==
    /\ r.before \subseteq Mine(r.user) /\ r.fresh \subseteq r.before
    /\ \A n \in r.before \ r.fresh : note[n].read
    /\ "page" \notin r.pending => r.page \subseteq Most(r)
    /\ "count" \notin r.pending =>
          Cardinality(Least(r)) <= r.total /\ r.total <= Cardinality(Most(r))
    /\ "unread" \notin r.pending =>
          Cardinality(Kept(r)) <= r.unread /\ r.unread <= Cardinality(Possible(r))

SeenSoFar ==
    \A h \in InHandler :
        /\ inStep[h] \in {"queries", "answer"} => Seen(inHeld[h])
        /\ inStep[h] = "answer" => inHeld[h].pending = {}

(* What a query finds lies between the bounds.                             *)
LEMMA SeenNow ==
    ASSUME NEW r, Seen(r)
    PROVE  /\ Kept(r) \subseteq Unread(r.user) /\ Unread(r.user) \subseteq Possible(r)
           /\ Least(r) \subseteq (IF r.unreadOnly THEN Unread(r.user) ELSE Mine(r.user))
           /\ (IF r.unreadOnly THEN Unread(r.user) ELSE Mine(r.user)) \subseteq Most(r)
           /\ Most(r) \in SUBSET Note /\ Possible(r) \in SUBSET Note
<1>1. Kept(r) \subseteq Unread(r.user)
  BY DEF Kept
<1>2. Unread(r.user) \subseteq Possible(r)
  BY DEF Seen, Possible, Unread
<1>3. Unread(r.user) \subseteq Mine(r.user) /\ Mine(r.user) \in SUBSET Note
  BY MineAreNotes
<1>4. r.before \subseteq Mine(r.user)
  BY DEF Seen
<1> QED BY <1>1, <1>2, <1>3, <1>4 DEF Least, Most, Possible

LEMMA SeenLasts ==
    ASSUME NoteTypeOK, NotesGrow, NEW r \in NoteHeld, Seen(r)
    PROVE  Seen(r)'
<1>1. Mine(r.user) \subseteq Mine(r.user)'
  BY NoRowIsNone DEF Mine, NotesGrow
<1>2. r.before \subseteq Mine(r.user) /\ r.fresh \subseteq r.before
  BY DEF Seen
<1>3. Kept(r)' \subseteq Kept(r)
  <2> SUFFICES ASSUME NEW n \in r.fresh, n \in Unread(r.user)' PROVE n \in Unread(r.user)
    BY DEF Kept
  <2>1. n \in Mine(r.user) /\ ~note'[n].read
    BY <1>2 DEF Unread
  <2> QED BY <2>1 DEF Unread, Mine, NotesGrow
<1>4. Possible(r) \subseteq Possible(r)'
  BY <1>1 DEF Possible
<1>5. Least(r)' \subseteq Least(r)
  BY <1>3 DEF Least
<1>6. Most(r) \subseteq Most(r)'
  BY <1>1, <1>4 DEF Most
<1>7. /\ Least(r) \in SUBSET Note /\ Kept(r) \in SUBSET Note
      /\ Most(r)' \in SUBSET Note /\ Possible(r)' \in SUBSET Note
  BY <1>2 DEF Least, Kept, Most, Possible, Mine
<1>8. /\ Cardinality(Least(r)') \in Nat /\ Cardinality(Least(r)') <= Cardinality(Least(r))
      /\ Cardinality(Kept(r)') \in Nat /\ Cardinality(Kept(r)') <= Cardinality(Kept(r))
      /\ Cardinality(Least(r)) \in Nat /\ Cardinality(Kept(r)) \in Nat
  BY <1>3, <1>5, <1>7, Counting
<1>9. /\ Cardinality(Most(r)) \in Nat /\ Cardinality(Most(r)) <= Cardinality(Most(r)')
      /\ Cardinality(Possible(r)) \in Nat /\ Cardinality(Possible(r)) <= Cardinality(Possible(r)')
      /\ Cardinality(Most(r)') \in Nat /\ Cardinality(Possible(r)') \in Nat
  BY <1>4, <1>6, <1>7, Counting
<1>10. r.total \in Nat /\ r.unread \in Nat
  BY DEF NoteHeld
<1>11. \A n \in r.before \ r.fresh : note'[n].read
  BY <1>2 DEF Seen, NotesGrow, Mine
<1>12. "page" \notin r.pending => r.page \subseteq Most(r)'
  BY <1>6 DEF Seen
<1>13. "count" \notin r.pending =>
          Cardinality(Least(r)') <= r.total /\ r.total <= Cardinality(Most(r)')
  <2>1. "count" \notin r.pending =>
          Cardinality(Least(r)) <= r.total /\ r.total <= Cardinality(Most(r))
    BY DEF Seen
  <2> QED BY <1>8, <1>9, <1>10, <2>1
<1>14. "unread" \notin r.pending =>
          Cardinality(Kept(r)') <= r.unread /\ r.unread <= Cardinality(Possible(r)')
  <2>1. "unread" \notin r.pending =>
          Cardinality(Kept(r)) <= r.unread /\ r.unread <= Cardinality(Possible(r))
    BY DEF Seen
  <2> QED BY <1>8, <1>9, <1>10, <2>1
<1> QED BY <1>1, <1>2, <1>11, <1>12, <1>13, <1>14 DEF Seen

(* The record a query leaves keeps what came back before, and what this    *)
(* query found is within the bounds.                                       *)
LEMMA QuerySeen ==
    ASSUME NoteTypeOK, NEW h \in InHandler, Seen(inHeld[h]),
           FindPage(h) \/ CountWanted(h) \/ CountUnread(h)
    PROVE  \E q \in Query : \E r : QueryStep(h, q, r) /\ Seen(r)
<1> DEFINE v == inHeld[h]
<1>1. ASSUME NEW q \in Query, NEW r, QueryStep(h, q, r)
      PROVE  /\ r.pending = v.pending \ {q} /\ r.user = v.user /\ r.unreadOnly = v.unreadOnly
             /\ r.before = v.before /\ r.fresh = v.fresh
             /\ Least(r) = Least(v) /\ Most(r) = Most(v)
             /\ Kept(r) = Kept(v) /\ Possible(r) = Possible(v)
  BY <1>1 DEF QueryStep, Least, Most, Kept, Possible
<1>2. Wanted(h) = IF v.unreadOnly THEN Unread(v.user) ELSE Mine(v.user)
  BY DEF Wanted
<1>3. /\ Kept(v) \subseteq Unread(v.user) /\ Unread(v.user) \subseteq Possible(v)
      /\ Least(v) \subseteq Wanted(h) /\ Wanted(h) \subseteq Most(v)
      /\ Most(v) \in SUBSET Note /\ Possible(v) \in SUBSET Note
  BY <1>2, SeenNow
<1>4. /\ Wanted(h) \in SUBSET Note /\ Unread(v.user) \in SUBSET Note
  BY <1>3
<1>5. CASE FindPage(h)
  <2>1. PICK r : /\ QueryStep(h, "page", r) /\ r.page \subseteq Wanted(h)
                 /\ r.total = v.total /\ r.unread = v.unread
    BY <1>5, PageStep
  <2>2. "page" \in Query
    BY DEF Query
  <2>3. Seen(r)
    BY <1>1, <1>3, <2>1, <2>2 DEF Seen
  <2> QED BY <2>1, <2>2, <2>3
<1>6. CASE CountWanted(h)
  <2>1. PICK r : /\ QueryStep(h, "count", r) /\ r.total = Cardinality(Wanted(h))
                 /\ r.page = v.page /\ r.unread = v.unread
    BY <1>6, CountStep
  <2>2. "count" \in Query
    BY DEF Query
  <2>3. Cardinality(Least(v)) <= Cardinality(Wanted(h)) /\ Cardinality(Wanted(h)) <= Cardinality(Most(v))
    BY <1>3, <1>4, Counting
  <2>4. Seen(r)
    BY <1>1, <2>1, <2>2, <2>3 DEF Seen
  <2> QED BY <2>1, <2>2, <2>4
<1>7. CASE CountUnread(h)
  <2>1. PICK r : /\ QueryStep(h, "unread", r) /\ r.unread = Cardinality(Unread(v.user))
                 /\ r.page = v.page /\ r.total = v.total
    BY <1>7, UnreadStep
  <2>2. "unread" \in Query
    BY DEF Query
  <2>3. /\ Cardinality(Kept(v)) <= Cardinality(Unread(v.user))
        /\ Cardinality(Unread(v.user)) <= Cardinality(Possible(v))
    BY <1>3, <1>4, Counting
  <2>4. Seen(r)
    BY <1>1, <2>1, <2>2, <2>3 DEF Seen
  <2> QED BY <2>1, <2>2, <2>4
<1> QED BY <1>5, <1>6, <1>7

(* A request that starts has nothing back yet. *)
LEMMA AskSeen ==
    ASSUME NoteTypeOK, NEW h \in InHandler, NEW u \in InUser, NEW only \in BOOLEAN, AskList(h, u, only)
    PROVE  \E r \in NoteHeld : InGo(h, "queries", r) /\ Seen(r)
<1>1. Mine(u) \in SUBSET Note /\ Unread(u) \in SUBSET Note
  BY MineAreNotes
<1> DEFINE w == [NoHeld EXCEPT !.user = u, !.pending = Query, !.unreadOnly = only,
                               !.before = Mine(u), !.fresh = Unread(u)]
<1>2. /\ w \in NoteHeld /\ w.user = u /\ w.pending = Query
      /\ w.before = Mine(u) /\ w.fresh = Unread(u)
  BY <1>1, NoHeldTypes, Zenon DEF NoteHeld
<1>3. InGo(h, "queries", w)
  BY Zenon DEF AskList
<1> HIDE DEF w
<1>4. Seen(w)
  BY <1>2 DEF Seen, Query, Unread
<1> QED BY <1>2, <1>3, <1>4

LEMMA SeenStep == InboxTypes /\ SeenSoFar /\ [InboxNext]_inVars => SeenSoFar'
<1> SUFFICES ASSUME InboxTypes, SeenSoFar, [InboxNext]_inVars PROVE SeenSoFar'
  OBVIOUS
<1>1. NoteTypeOK /\ NotesGrow /\ NoteTypeOK'
  BY NoteStepTypes DEF InboxTypes
<1>2. ASSUME NEW g \in InHandler, inStep'[g] = inStep[g], inHeld'[g] = inHeld[g]
      PROVE  /\ inStep'[g] \in {"queries", "answer"} => Seen(inHeld[g])'
             /\ inStep'[g] = "answer" => inHeld'[g].pending = {}
  <2>1. PICK r \in NoteHeld : r = inHeld[g]
    BY <1>1 DEF NoteTypeOK
  <2>2. Seen(r) => Seen(r)'
    BY <1>1, SeenLasts
  <2>3. inHeld'[g] = r
    BY <1>2, <2>1
  <2>4. Seen(inHeld[g])' <=> Seen(r)'
    BY <2>3 DEF Seen, Least, Most, Kept, Possible
  <2>5. inStep[g] \in {"queries", "answer"} => Seen(r)
    BY <2>1 DEF SeenSoFar
  <2> QED BY <1>2, <2>2, <2>4, <2>5 DEF SeenSoFar
<1>3. ASSUME NEW h \in InHandler, NEW label \in InLabel, NEW v, InGo(h, label, v),
             label \in {"queries", "answer"} => Seen(v)',
             label = "answer" => v.pending = {}
      PROVE  SeenSoFar'
  <2>1. inStep' = [inStep EXCEPT ![h] = label] /\ inHeld' = [inHeld EXCEPT ![h] = v]
    BY <1>3 DEF InGo
  <2>2. inStep'[h] = label /\ inHeld'[h] = v
    BY <1>1, <2>1 DEF NoteTypeOK
  <2>3. Seen(inHeld[h])' <=> Seen(v)'
    BY <2>2 DEF Seen, Least, Most, Kept, Possible
  <2>4. \A g \in InHandler : g # h => inStep'[g] = inStep[g] /\ inHeld'[g] = inHeld[g]
    BY <1>1, <2>1 DEF NoteTypeOK
  <2> QED BY <1>2, <1>3, <2>2, <2>3, <2>4 DEF SeenSoFar
<1>4. ASSUME NEW h \in InHandler, FindPage(h) \/ CountWanted(h) \/ CountUnread(h) PROVE SeenSoFar'
  <2>1. Seen(inHeld[h])
    BY <1>4 DEF FindPage, CountWanted, CountUnread, Received, SeenSoFar
  <2>9. PICK q \in Query : \E r : QueryStep(h, q, r) /\ Seen(r)
    BY <1>1, <1>4, <2>1, QuerySeen
  <2>2. PICK r : QueryStep(h, q, r) /\ Seen(r)
    BY <2>9
  <2>3. PICK label \in {"answer", "queries"} :
            InGo(h, label, r) /\ (label = "answer" => inHeld[h].pending = {q})
    BY <2>2, Zenon DEF QueryStep
  <2>4. r \in NoteHeld /\ r.pending = inHeld[h].pending \ {q}
    BY <2>2 DEF QueryStep
  <2>5. Seen(r)'
    BY <1>1, <2>2, <2>4, SeenLasts
  <2> QED BY <1>3, <2>3, <2>4, <2>5 DEF InLabel
<1>5. ASSUME NEW h \in InHandler, NEW u \in InUser, NEW only \in BOOLEAN, AskList(h, u, only)
      PROVE  SeenSoFar'
  <2>1. PICK r \in NoteHeld : InGo(h, "queries", r) /\ Seen(r)
    BY <1>1, <1>5, AskSeen
  <2>2. Seen(r)'
    BY <1>1, <2>1, SeenLasts
  <2> QED BY <1>3, <2>1, <2>2 DEF InLabel
<1>6. ASSUME NEW h \in InHandler, NEW label \in {"idle", "emit", "mark"}, NEW v, InGo(h, label, v)
      PROVE  SeenSoFar'
  BY <1>3, <1>6 DEF InLabel
<1>7. ASSUME NEW h \in InHandler, NEW u \in InUser, NEW n \in Note,
             NotifyUser(h, u, n) \/ FindNote(h, u, n)
      PROVE  SeenSoFar'
  <2> DEFINE v == [NoHeld EXCEPT !.user = u, !.note = n]
  <2>1. InGo(h, "emit", v) \/ InGo(h, "mark", v)
    BY <1>7, Zenon DEF NotifyUser, FindNote
  <2> HIDE DEF v
  <2> QED BY <1>6, <2>1
<1>8. ASSUME NEW h \in InHandler, EmitNote(h) \/ AnswerList(h) \/ MarkRead(h) PROVE SeenSoFar'
  BY <1>6, <1>8 DEF EmitNote, AnswerList, MarkRead
<1>9. ASSUME ServerRestarts PROVE SeenSoFar'
  BY <1>9 DEF ServerRestarts, SeenSoFar
<1>10. ASSUME UNCHANGED handlers PROVE SeenSoFar'
  BY <1>2, <1>10 DEF handlers, SeenSoFar
<1>11. CASE SocketNext
  BY <1>10, <1>11 DEF SocketNext, OpenSocket, Verify, Refuse, CloseSocket
<1>12. ASSUME NEW u \in InUser, MarkAllRead(u) PROVE SeenSoFar'
  BY <1>10, <1>12 DEF MarkAllRead
<1>13. CASE UNCHANGED inVars
  BY <1>10, <1>13 DEF inVars
<1> QED
  BY <1>4, <1>5, <1>7, <1>8, <1>9, <1>11, <1>12, <1>13 DEF InboxNext, NoteNext

(* Every list is answered with numbers the inbox had while the request     *)
(* ran, however many requests insert and mark at the same time.            *)
THEOREM ListsAreOfTheRequest == InboxSpec => []AnswerIsOfTheRequest
<1>1. InboxInit => InboxTypes /\ SeenSoFar
  BY InboxInitTypes DEF InboxInit, SeenSoFar
<1>2. InboxTypes /\ SeenSoFar /\ [InboxNext]_inVars => InboxTypes' /\ SeenSoFar'
  BY InboxStepTypes, SeenStep
<1>3. SeenSoFar => AnswerIsOfTheRequest
  <2> SUFFICES ASSUME NEW h \in InHandler, SeenSoFar, inStep[h] = "answer"
               PROVE  LET r == inHeld[h] IN
                      /\ r.page \subseteq Most(r)
                      /\ Cardinality(Least(r)) <= r.total /\ r.total <= Cardinality(Most(r))
                      /\ Cardinality(Kept(r)) <= r.unread /\ r.unread <= Cardinality(Possible(r))
    BY Zenon DEF AnswerIsOfTheRequest, Least, Most, Kept, Possible
  <2>1. Seen(inHeld[h]) /\ inHeld[h].pending = {}
    BY DEF SeenSoFar
  <2> QED BY <2>1 DEF Seen
<1> QED BY <1>1, <1>2, <1>3, PTL DEF InboxSpec
=============================================================================
