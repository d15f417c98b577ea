------------------------------- MODULE Sessions -------------------------------
(***************************************************************************)
(* The refresh sessions of one account: issued by a login, rotated by      *)
(* refresh, revoked one by one or all at once, revoked by a password       *)
(* reset, expired, and purged by the retention job.                        *)
(*                                                                         *)
(* A handler is one running request.  refreshToken, revokeSession and      *)
(* resetPassword read, decide and write in separate awaits, so a handler   *)
(* acts on what it read; requests that write once are one action each.  A  *)
(* client that was given the tokens of a session may use them at any time, *)
(* any number of times, and from several requests at once.                 *)
(***************************************************************************)
EXTENDS Naturals, FiniteSets

CONSTANTS
    Handler,        \* requests in flight at the same time
    Sid,            \* sessions.uniqueId, each created once: bounds the logins
    NoSid,          \* "no session"
    NoHandler       \* "no handler"

ASSUME SessionsAssumption ==
    /\ NoSid \notin Sid
    /\ NoHandler \notin Handler

VARIABLES
    sess,       \* the sessions table, with the history of each row
    removed,    \* the user is soft-deleted
    resetToken, \* users.passwordResetToken is set and has not expired
    pc,         \* the await each handler is about to perform
    local,      \* what it has read
    resetDied   \* history: a reset died before it revoked the sessions

vars == <<sess, removed, resetToken, pc, local, resetDied>>

(* expired: expiresAt has passed; revoked: soft-deleted; purged: deleted.  *)
State == {"none", "live", "expired", "revoked", "purged"}

(* state is the row.  The rest is history.                                 *)
(*   parent   the session it was refreshed from                            *)
(*   by       the handler that issued it                                   *)
(*   crossed  all sessions were revoked between the check this handler     *)
(*            made, of a session or of a password, and the insert          *)
(*   stray    that is so for it or for one it descends from                *)
(*   oldPw    the password was reset since the login it descends from      *)
(*   late     the user was deleted before the insert                       *)
Session == [state : State, parent : Sid \cup {NoSid}, by : Handler \cup {NoHandler},
            crossed : BOOLEAN, stray : BOOLEAN, oldPw : BOOLEAN, late : BOOLEAN]

Unused == [state |-> "none", parent |-> NoSid, by |-> NoHandler, crossed |-> FALSE,
           stray |-> FALSE, oldPw |-> FALSE, late |-> FALSE]

PC == {"idle", "load_user", "rotate", "issue", "reset", "revoke_all", "revoke_one"}

(* The session in hand, and the history of the check the handler made. *)
Local == [sid : Sid \cup {NoSid}, crossed : BOOLEAN, stray : BOOLEAN, oldPw : BOOLEAN]

Blank == [sid |-> NoSid, crossed |-> FALSE, stray |-> FALSE, oldPw |-> FALSE]

TypeOK ==
    /\ sess \in [Sid -> Session]
    /\ removed \in BOOLEAN
    /\ resetToken \in BOOLEAN
    /\ pc \in [Handler -> PC]
    /\ local \in [Handler -> Local]
    /\ \A h \in Handler :
          pc[h] \in {"load_user", "rotate", "revoke_one"} => local[h].sid \in Sid
    /\ resetDied \in BOOLEAN

Init ==
    /\ sess = [s \in Sid |-> Unused]
    /\ removed = FALSE
    /\ resetToken = FALSE
    /\ pc = [h \in Handler |-> "idle"]
    /\ local = [h \in Handler |-> Blank]
    /\ resetDied = FALSE

-----------------------------------------------------------------------------
Live(s) == sess[s].state = "live"

Go(h, label) == pc' = [pc EXCEPT ![h] = label]

Hold(h, v) == local' = [local EXCEPT ![h] = v]

Return(h) == Go(h, "idle") /\ Hold(h, Blank)

(* The row of a session that is over.  What was relevant to a live one is  *)
(* forgotten, to keep the histories few.                                   *)
Ended(r, state) ==
    [r EXCEPT !.state = state, !.crossed = FALSE, !.stray = FALSE, !.oldPw = FALSE]

(* softDelete of a row that is there. *)
Revoked(r) == IF r.state \in {"live", "expired"} THEN Ended(r, "revoked") ELSE r

Revoke(s) == sess' = [sess EXCEPT ![s] = Revoked(@)]

(* A mutant: only the sessions that a login issued are revoked. *)
BugRevokeAll(done) ==
    /\ sess' = [s \in Sid |-> IF sess[s].parent = NoSid
                              THEN Revoked(sess[s]) ELSE sess[s]]
    /\ local' = [h \in Handler |->
                   IF h \in done \/ pc[h] = "idle" THEN Blank
                   ELSE [local[h] EXCEPT !.crossed = TRUE]]

(* revokeAllForUser: one updateMany over the rows that are not deleted.    *)
(* done are the requests that end with it; the others in flight have made  *)
(* their checks before it.                                                 *)
RevokeAll(done) ==
    /\ sess' = [s \in Sid |-> Revoked(sess[s])]
    /\ local' = [h \in Handler |->
                   IF h \in done \/ pc[h] = "idle" THEN Blank
                   ELSE [local[h] EXCEPT !.crossed = TRUE]]

-----------------------------------------------------------------------------
(* login and oauthLogin, on the user as read in their first await.         *)
Login(h) ==
    /\ pc[h] = "idle"
    /\ ~removed
    /\ Go(h, "issue")
    /\ UNCHANGED <<sess, removed, resetToken, local, resetDied>>

(* A mutant: a session that was revoked will do. *)
BugRefresh(h, s) ==
    /\ pc[h] = "idle"
    /\ sess[s].state \in {"live", "revoked"}
    /\ Go(h, "load_user")
    /\ Hold(h, [sid |-> s, crossed |-> FALSE, stray |-> sess[s].stray,
                oldPw |-> sess[s].oldPw])
    /\ UNCHANGED <<sess, removed, resetToken, resetDied>>

(* refreshToken: the token is verified, and its session found active. *)
Refresh(h, s) ==
    /\ pc[h] = "idle"
    /\ Live(s)
    /\ Go(h, "load_user")
    /\ Hold(h, [sid |-> s, crossed |-> FALSE, stray |-> sess[s].stray,
                oldPw |-> sess[s].oldPw])
    /\ UNCHANGED <<sess, removed, resetToken, resetDied>>

(* A mutant: the user is not looked up again. *)
BugRefreshUser(h) ==
    /\ pc[h] = "load_user"
    /\ Go(h, "rotate")
    /\ UNCHANGED <<sess, local, removed, resetToken, resetDied>>

(* refreshToken: the user must still be there. *)
RefreshUser(h) ==
    /\ pc[h] = "load_user"
    /\ IF removed
       THEN Return(h)
       ELSE Go(h, "rotate") /\ UNCHANGED local
    /\ UNCHANGED <<sess, removed, resetToken, resetDied>>

(* A mutant: the new session is issued and the old one kept. *)
BugRotate(h) ==
    /\ pc[h] = "rotate"
    /\ Go(h, "issue")
    /\ UNCHANGED <<sess, local, removed, resetToken, resetDied>>

(* refreshToken: the old session is revoked, whatever became of it since.  *)
(* A purged row is an error (P2025), and nothing is issued.                *)
Rotate(h) ==
    /\ pc[h] = "rotate"
    /\ IF sess[local[h].sid].state = "purged"
       THEN Return(h) /\ UNCHANGED sess
       ELSE Revoke(local[h].sid) /\ Go(h, "issue") /\ UNCHANGED local
    /\ UNCHANGED <<removed, resetToken, resetDied>>

(* issueTokens, for a login or a refresh: a new row. *)
Issue(h) ==
    /\ pc[h] = "issue"
    /\ \E s \in Sid :
          /\ sess[s].state = "none"
          /\ sess' = [sess EXCEPT ![s] =
                [state |-> "live", parent |-> local[h].sid, by |-> h,
                 crossed |-> local[h].crossed,
                 stray |-> local[h].stray \/ local[h].crossed,
                 oldPw |-> local[h].oldPw, late |-> removed]]
    /\ Return(h)
    /\ UNCHANGED <<removed, resetToken, resetDied>>

(* logout: revoke by the token's session.  Every error is swallowed, and   *)
(* a session revoked before stays as it is.                                *)
Logout(s) ==
    /\ Live(s)
    /\ Revoke(s)
    /\ UNCHANGED <<removed, resetToken, pc, local, resetDied>>

(* logoutAll; the guard may have let the request in before a deletion. *)
LogoutAll ==
    /\ RevokeAll({})
    /\ UNCHANGED <<removed, resetToken, pc, resetDied>>

(* revokeSession: found among the user's active sessions, then revoked. *)
RevokeSession(h, s) ==
    /\ pc[h] = "idle"
    /\ Live(s)
    /\ Go(h, "revoke_one")
    /\ Hold(h, [Blank EXCEPT !.sid = s])
    /\ UNCHANGED <<sess, removed, resetToken, resetDied>>

RevokeOne(h) ==
    /\ pc[h] = "revoke_one"
    /\ Revoke(local[h].sid)
    /\ Return(h)
    /\ UNCHANGED <<removed, resetToken, resetDied>>

-----------------------------------------------------------------------------
(* forgotPassword sets a token, in place of the one there was. *)
ForgotPassword ==
    /\ ~removed
    /\ ~resetToken
    /\ resetToken' = TRUE
    /\ UNCHANGED <<sess, removed, pc, local, resetDied>>

(* The token's hour is over. *)
ResetTokenExpires ==
    /\ resetToken
    /\ resetToken' = FALSE
    /\ UNCHANGED <<sess, removed, pc, local, resetDied>>

(* resetPassword: the token is found and has not expired, and the new      *)
(* password is not the current one.                                        *)
ResetPassword(h) ==
    /\ pc[h] = "idle"
    /\ ~removed
    /\ resetToken
    /\ Go(h, "reset")
    /\ UNCHANGED <<sess, removed, resetToken, local, resetDied>>

(* resetPassword: the password is set and the token cleared.  From here on *)
(* every session, and every check a request has made, is of an old one.    *)
ResetWrite(h) ==
    /\ pc[h] = "reset"
    /\ sess' = [s \in Sid |-> [sess[s] EXCEPT !.oldPw = Live(s)]]
    /\ resetToken' = FALSE
    /\ Go(h, "revoke_all")
    /\ local' = [g \in Handler |->
                   IF g = h \/ pc[g] = "idle" THEN local[g]
                   ELSE [local[g] EXCEPT !.oldPw = TRUE]]
    /\ UNCHANGED <<removed, resetDied>>

(* A mutant: a reset that leaves the sessions alone. *)
BugResetRevoke(h) ==
    /\ pc[h] = "revoke_all"
    /\ Return(h)
    /\ UNCHANGED <<sess, removed, resetToken, resetDied>>

(* resetPassword: then all sessions are revoked. *)
ResetRevoke(h) ==
    /\ pc[h] = "revoke_all"
    /\ RevokeAll({h})
    /\ Go(h, "idle")
    /\ UNCHANGED <<removed, resetToken, resetDied>>

-----------------------------------------------------------------------------
(* An administrator deletes the user: the sessions are not touched. *)
DeleteUser ==
    /\ ~removed
    /\ removed' = TRUE
    /\ UNCHANGED <<sess, resetToken, pc, local, resetDied>>

Expire(s) ==
    /\ Live(s)
    /\ sess' = [sess EXCEPT ![s] = Ended(@, "expired")]
    /\ UNCHANGED <<removed, resetToken, pc, local, resetDied>>

(* purgeExpiredSessions, even of a row that a request is holding.  (What    *)
(* purgeSoftDeleted removes was revoked days ago; no request holds it, and *)
(* none can find it: the step would make no difference.)                   *)
PurgeExpired(s) ==
    /\ sess[s].state = "expired"
    /\ sess' = [sess EXCEPT ![s].state = "purged"]
    /\ UNCHANGED <<removed, resetToken, pc, local, resetDied>>

(* The process dies, or an await fails: the request ends where it is. *)
Die(h) ==
    /\ pc[h] # "idle"
    /\ resetDied' = (resetDied \/ pc[h] = "revoke_all")
    /\ Return(h)
    /\ UNCHANGED <<sess, removed, resetToken>>

-----------------------------------------------------------------------------
HandlerStep(h) ==
    \/ Login(h)
    \/ \E s \in Sid : Refresh(h, s) \/ RevokeSession(h, s)
    \/ RefreshUser(h)
    \/ Rotate(h)
    \/ Issue(h)
    \/ RevokeOne(h)
    \/ ResetPassword(h)
    \/ ResetWrite(h)
    \/ ResetRevoke(h)
    \/ Die(h)

AccountStep == LogoutAll \/ ForgotPassword \/ ResetTokenExpires \/ DeleteUser

Next ==
    \/ \E h \in Handler : HandlerStep(h)
    \/ \E s \in Sid : Logout(s) \/ Expire(s) \/ PurgeExpired(s)
    \/ AccountStep

Spec == Init /\ [][Next]_vars

-----------------------------------------------------------------------------
(* Safety. *)

(* Rotation: a session and one it was refreshed into are never both        *)
(* usable, whatever is refreshed, revoked or purged at the same time.      *)
ParentIsDead ==
    \A s \in Sid : sess[s].parent # NoSid => ~Live(sess[s].parent)

(* The check-then-revoke of refreshToken lets several requests spend the   *)
(* same token, but no request spends it twice, and none that starts after  *)
(* the first of them revoked it: siblings come from different handlers.    *)
SiblingsFromDistinctHandlers ==
    \A s, t \in Sid :
        (s # t /\ sess[s].parent # NoSid /\ sess[s].parent = sess[t].parent) =>
            sess[s].by # sess[t].by

(* Log out everywhere: a session that is live though the check it relies   *)
(* on was made before the latest revocation of all was issued by a request *)
(* in flight then, and such a request issues at most one.                  *)
StragglersFromDistinctHandlers ==
    \A s, t \in Sid :
        (s # t /\ Live(s) /\ sess[s].crossed /\ Live(t) /\ sess[t].crossed) =>
            sess[s].by # sess[t].by

(* After a password reset, no session lives on that began with an earlier  *)
(* password, except through a request that was in flight across the        *)
(* revocation; resets that still have to revoke, or died there, aside.  It *)
(* takes the order of the two writes: password first, sessions second.     *)
ResetEndsOldLogins ==
    \A s \in Sid :
        (Live(s) /\ sess[s].oldPw) =>
            \/ sess[s].stray
            \/ \E h \in Handler : pc[h] = "revoke_all"
            \/ resetDied

(* Once the user is deleted, only the requests that had found him issue    *)
(* sessions, one each, and those cannot be refreshed.                      *)
DeletedUserIsOut ==
    \A s, t \in Sid :
        (s # t /\ sess[s].late /\ sess[t].late) => sess[s].by # sess[t].by

-----------------------------------------------------------------------------
(* What the documentation promises and the code does not guarantee.        *)

(* README.md: logout-all revokes all sessions; FEATURES.md: "log out       *)
(* everywhere".  No session that it revoked is turned into a live one by a *)
(* refresh.                                                                *)
LogoutAllIsFinal ==
    \A s \in Sid : (Live(s) /\ sess[s].parent # NoSid) => ~sess[s].crossed
=============================================================================
