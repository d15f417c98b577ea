--------------------------------- MODULE Inbox ---------------------------------
(***************************************************************************)
(* Notifications and the gateway that pushes them: NotificationsService    *)
(* inserts a row and emits it to the room of its user; EventsGateway puts  *)
(* a socket into a room when the token of its handshake is verified, which *)
(* takes an await, and takes it out when it disconnects.                   *)
(*                                                                         *)
(* A user has two identifiers: the numeric id, which the rows and the      *)
(* services use, and uniqueId, which is the "sub" of a token.              *)
(***************************************************************************)
EXTENDS Naturals, FiniteSets

CONSTANTS
    InUser,         \* users
    Socket,         \* connections, each used once
    Note,           \* notifications
    InHandler,      \* requests and notify() calls in flight
    PageLimit,      \* "limit" of the lists
    NoKey,          \* "undefined"
    NoNote,         \* "no notification"
    NoOne           \* "no user"

ASSUME InboxAssumption ==
    /\ IsFiniteSet(Note)
    /\ PageLimit \in Nat
    /\ NoKey \notin [kind : {"id", "uniqueId"}, user : InUser]
    /\ NoNote \notin Note \cup [user : InUser, read : BOOLEAN]
    /\ NoOne \notin InUser

VARIABLES
    alive,          \* sockets that are connected
    check,          \* how far the token of each socket is checked
    owner,          \* whose token it is
    data,           \* client.data.userId
    userSockets,    \* the gateway's map, as a relation
    room,           \* members of the rooms
    overtaken,      \* history: sockets that closed before their token was verified
    note,           \* the notifications table
    inStep,         \* the await each handler is about to perform
    inHeld,         \* what it has read
    unheard         \* history: pushes that an open socket of the user did not get

sockets == <<alive, check, owner, data, userSockets, room, overtaken>>
handlers == <<inStep, inHeld>>
inVars == <<sockets, note, handlers, unheard>>

Key == [kind : {"id", "uniqueId"}, user : InUser]

Id(u) == [kind |-> "id", user |-> u]
Sub(u) == [kind |-> "uniqueId", user |-> u]

NoteRow == [user : InUser, read : BOOLEAN]

Query == {"page", "count", "unread"}

(* pending are the queries of getMyNotifications that are still out;       *)
(* before and fresh (history) are the user's rows, and his unread ones,    *)
(* when the first was sent.                                                *)
NoteHeld == [user : InUser \cup {NoOne}, note : Note \cup {NoNote},
             pending : SUBSET Query, unreadOnly : BOOLEAN, page : SUBSET Note,
             total : Nat, unread : Nat, before : SUBSET Note, fresh : SUBSET Note]

NoHeld == [user |-> NoOne, note |-> NoNote, pending |-> {}, unreadOnly |-> FALSE, page |-> {},
           total |-> 0, unread |-> 0, before |-> {}, fresh |-> {}]

InboxTypeOK ==
    /\ alive \in [Socket -> BOOLEAN]
    /\ check \in [Socket -> {"none", "verifying", "ok", "refused"}]
    /\ owner \in [Socket -> InUser \cup {NoOne}]
    /\ \A s \in Socket : check[s] # "none" => owner[s] \in InUser
    /\ data \in [Socket -> Key \cup {NoKey}]
    /\ userSockets \in SUBSET (Key \X Socket)
    /\ room \in SUBSET (Key \X Socket)
    /\ overtaken \in SUBSET Socket
    /\ note \in [Note -> NoteRow \cup {NoNote}]
    /\ inStep \in [InHandler -> {"idle", "emit", "queries", "answer", "mark"}]
    /\ inHeld \in [InHandler -> NoteHeld]
    /\ \A h \in InHandler :
          /\ inStep[h] # "idle" => inHeld[h].user \in InUser
          /\ inStep[h] \in {"emit", "mark"} =>
                inHeld[h].note \in Note /\ note[inHeld[h].note] \in NoteRow
    /\ unheard \in SUBSET (Note \X Socket)

InboxInit ==
    /\ alive = [s \in Socket |-> FALSE]
    /\ check = [s \in Socket |-> "none"]
    /\ owner = [s \in Socket |-> NoOne]
    /\ data = [s \in Socket |-> NoKey]
    /\ userSockets = {} /\ room = {} /\ overtaken = {}
    /\ note = [n \in Note |-> NoNote]
    /\ inStep = [h \in InHandler |-> "idle"]
    /\ inHeld = [h \in InHandler |-> NoHeld]
    /\ unheard = {}

-----------------------------------------------------------------------------
(* EventsGateway. *)

(* handleConnection, with a token of u, up to its await. *)
OpenSocket(s, u) ==
    /\ check[s] = "none"
    /\ owner' = [owner EXCEPT ![s] = u]
    /\ alive' = [alive EXCEPT ![s] = TRUE]
    /\ check' = [check EXCEPT ![s] = "verifying"]
    /\ UNCHANGED <<data, userSockets, room, overtaken, note, handlers, unheard>>

(* A mutant: the user is not kept with the client. *)
BugVerify(s) ==
    /\ check[s] = "verifying"
    /\ check' = [check EXCEPT ![s] = "ok"]
    /\ userSockets' = userSockets \cup {<<Sub(owner[s]), s>>}
    /\ room' = room \cup {<<Sub(owner[s]), s>>}
    /\ UNCHANGED <<alive, owner, data, overtaken, note, handlers, unheard>>

(* verifyAsync has answered; nothing asks whether the client is still      *)
(* connected.                                                              *)
Verify(s) ==
    /\ check[s] = "verifying"
    /\ check' = [check EXCEPT ![s] = "ok"]
    /\ data' = [data EXCEPT ![s] = Sub(owner[s])]
    /\ userSockets' = userSockets \cup {<<Sub(owner[s]), s>>}
    /\ room' = room \cup {<<Sub(owner[s]), s>>}
    /\ UNCHANGED <<alive, owner, overtaken, note, handlers, unheard>>

(* The token is missing, expired or forged. *)
Refuse(s) ==
    /\ check[s] = "verifying"
    /\ check' = [check EXCEPT ![s] = "refused"]
    /\ alive' = [alive EXCEPT ![s] = FALSE]
    /\ UNCHANGED <<owner, data, userSockets, room, overtaken, note, handlers, unheard>>

(* A socket leaves its rooms when it closes, and then handleDisconnect     *)
(* runs.                                                                   *)
CloseSocket(s) ==
    /\ alive[s]
    /\ alive' = [alive EXCEPT ![s] = FALSE]
    /\ room' = {m \in room : m[2] # s}
    /\ userSockets' = userSockets \ {<<data[s], s>>}
    /\ overtaken' = IF check[s] = "verifying" THEN overtaken \cup {s} ELSE overtaken
    /\ UNCHANGED <<check, owner, data, note, handlers, unheard>>

(* emitToUser: the sockets in the room of the numeric id. *)
Emitted(u) == {s \in Socket : alive[s] /\ <<Id(u), s>> \in room}

(* Map.has. *)
IsUserOnline(key) == \E s \in Socket : <<key, s>> \in userSockets

-----------------------------------------------------------------------------
(* NotificationsService. *)

InGo(h, label, v) ==
    /\ inStep' = [inStep EXCEPT ![h] = label]
    /\ inHeld' = [inHeld EXCEPT ![h] = v]

(* The insert; one that throws is logged and nothing else.                 *)
NotifyUser(h, u, n) ==
    /\ inStep[h] = "idle"
    /\ note[n] = NoNote
    /\ note' = [note EXCEPT ![n] = [user |-> u, read |-> FALSE]]
    /\ InGo(h, "emit", [NoHeld EXCEPT !.user = u, !.note = n])
    /\ UNCHANGED <<sockets, unheard>>

EmitNote(h) ==
    /\ inStep[h] = "emit"
    /\ LET u == inHeld[h].user IN
       unheard' = unheard \cup
          {<<inHeld[h].note, s>> : s \in {t \in Socket : alive[t] /\ check[t] = "ok" /\ owner[t] = u}
                                         \ Emitted(u)}
    /\ InGo(h, "idle", NoHeld)
    /\ UNCHANGED <<sockets, note>>

Mine(u) == {n \in Note : note[n] # NoNote /\ note[n].user = u}

Unread(u) == {n \in Mine(u) : ~note[n].read}

(* buildNotificationWhere. *)
Wanted(h) == IF inHeld[h].unreadOnly THEN Unread(inHeld[h].user) ELSE Mine(inHeld[h].user)

(* getMyNotifications sends its three queries at once. *)
AskList(h, u, only) ==
    /\ inStep[h] = "idle"
    /\ InGo(h, "queries", [NoHeld EXCEPT !.user = u, !.pending = Query, !.unreadOnly = only,
                                         !.before = Mine(u), !.fresh = Unread(u)])
    /\ UNCHANGED <<sockets, note, unheard>>

(* One of them has run; the request goes on when all have. *)
Received(h, q, v) ==
    /\ inStep[h] = "queries"
    /\ q \in inHeld[h].pending
    /\ InGo(h, IF inHeld[h].pending = {q} THEN "answer" ELSE "queries",
            [v EXCEPT !.pending = @ \ {q}])
    /\ UNCHANGED <<sockets, note, unheard>>

(* The newest of them, up to the limit: which ones those are is left open. *)
FindPage(h) ==
    \E page \in SUBSET Wanted(h) :
        /\ Cardinality(page) = IF PageLimit < Cardinality(Wanted(h)) THEN PageLimit
                               ELSE Cardinality(Wanted(h))
        /\ Received(h, "page", [inHeld[h] EXCEPT !.page = page])

CountWanted(h) ==
    Received(h, "count", [inHeld[h] EXCEPT !.total = Cardinality(Wanted(h))])

(* A mutant: the notifications of everybody. *)
BugCountUnread(h) ==
    Received(h, "unread", [inHeld[h] EXCEPT !.unread = Cardinality(UNION {Unread(u) : u \in InUser})])

CountUnread(h) ==
    Received(h, "unread", [inHeld[h] EXCEPT !.unread = Cardinality(Unread(inHeld[h].user))])

AnswerList(h) ==
    /\ inStep[h] = "answer"
    /\ InGo(h, "idle", NoHeld)
    /\ UNCHANGED <<sockets, note, unheard>>

(* One that is missing, somebody else's or read already is answered        *)
(* without a change.                                                       *)
FindNote(h, u, n) ==
    /\ inStep[h] = "idle"
    /\ n \in Unread(u)
    /\ InGo(h, "mark", [NoHeld EXCEPT !.user = u, !.note = n])
    /\ UNCHANGED <<sockets, note, unheard>>

MarkRead(h) ==
    /\ inStep[h] = "mark"
    /\ note' = [note EXCEPT ![inHeld[h].note].read = TRUE]
    /\ InGo(h, "idle", NoHeld)
    /\ UNCHANGED <<sockets, unheard>>

MarkAllRead(u) ==
    /\ Unread(u) # {}
    /\ note' = [n \in Note |-> IF n \in Unread(u) THEN [note[n] EXCEPT !.read = TRUE] ELSE note[n]]
    /\ UNCHANGED <<sockets, handlers, unheard>>

-----------------------------------------------------------------------------
(* The process restarts: rooms and map are in its memory, and a client     *)
(* that connects again has a new socket.                                   *)
ServerRestarts ==
    /\ \E s \in Socket : check[s] = "verifying" \/ alive[s] \/ s \in overtaken
    /\ alive' = [s \in Socket |-> FALSE]
    /\ check' = [s \in Socket |-> IF check[s] = "none" THEN "none" ELSE "refused"]
    /\ userSockets' = {} /\ room' = {} /\ overtaken' = {}
    /\ inStep' = [h \in InHandler |-> "idle"]
    /\ inHeld' = [h \in InHandler |-> NoHeld]
    /\ UNCHANGED <<owner, data, note, unheard>>

SocketNext ==
    \E s \in Socket :
        \/ \E u \in InUser : OpenSocket(s, u)
        \/ Verify(s) \/ Refuse(s) \/ CloseSocket(s)

NoteNext ==
    \/ \E h \in InHandler, u \in InUser, n \in Note : NotifyUser(h, u, n) \/ FindNote(h, u, n)
    \/ \E h \in InHandler, u \in InUser, only \in BOOLEAN : AskList(h, u, only)
    \/ \E h \in InHandler :
          \/ EmitNote(h) \/ FindPage(h) \/ CountWanted(h) \/ CountUnread(h)
          \/ AnswerList(h) \/ MarkRead(h)
    \/ \E u \in InUser : MarkAllRead(u)

InboxNext == SocketNext \/ NoteNext \/ ServerRestarts

InboxSpec == InboxInit /\ [][InboxNext]_inVars

-----------------------------------------------------------------------------
(* isUserOnline says that a user has an open, verified socket, except for  *)
(* a socket that closed while its token was being verified: that one is    *)
(* registered after handleDisconnect has run, and stays until a restart.   *)
OnlineMeansOpen ==
    \A u \in InUser :
        /\ IsUserOnline(Sub(u)) =>
              \E s \in Socket : owner[s] = u /\ check[s] = "ok" /\ (alive[s] \/ s \in overtaken)
        /\ (\E s \in Socket : owner[s] = u /\ check[s] = "ok" /\ alive[s]) => IsUserOnline(Sub(u))

(* The three queries of a list are not one snapshot, but each number of    *)
(* the answer is one the user's inbox had while the request ran, whatever  *)
(* was inserted and marked in the meantime, and the page is his own.       *)
AnswerIsOfTheRequest ==
    \A h \in InHandler :
        inStep[h] = "answer" =>
            LET r == inHeld[h]
                kept == r.fresh \cap Unread(r.user)
                possible == Mine(r.user) \ (r.before \ r.fresh)
                least == IF r.unreadOnly THEN kept ELSE r.before
                most == IF r.unreadOnly THEN possible ELSE Mine(r.user)
            IN  /\ r.page \subseteq most
                /\ Cardinality(least) <= r.total /\ r.total <= Cardinality(most)
                /\ Cardinality(kept) <= r.unread /\ r.unread <= Cardinality(possible)

(* A notification is pushed live: every open socket whose token is the     *)
(* user's gets it.                                                         *)
PushReachesUser == unheard = {}
=============================================================================
