---------------------------- MODULE SessionsProofs ----------------------------
(***************************************************************************)
(* Proofs about Sessions, for every set of requests in flight and every    *)
(* number of sessions.                                                     *)
(***************************************************************************)
EXTENDS Sessions, TLAPS

-----------------------------------------------------------------------------
(* Type correctness.                                                       *)

LEMMA EndedType ==
  ASSUME NEW r \in Session, NEW state \in State
  PROVE  Ended(r, state) \in Session /\ Revoked(r) \in Session
  BY DEF Ended, Revoked, Session, State

LEMMA BlankType ==
  /\ Blank \in Local
  /\ \A s \in Sid : [Blank EXCEPT !.sid = s] \in Local /\ [Blank EXCEPT !.sid = s].sid = s
  BY DEF Blank, Local

(* A handler that goes to an await with v in hand. *)
LEMMA GoHoldType ==
  ASSUME TypeOK, NEW h \in Handler, NEW label \in PC, NEW v \in Local,
         label \in {"load_user", "rotate", "revoke_one"} => v.sid \in Sid,
         Go(h, label), Hold(h, v)
  PROVE  /\ pc' \in [Handler -> PC]
         /\ local' \in [Handler -> Local]
         /\ \A g \in Handler :
               pc'[g] \in {"load_user", "rotate", "revoke_one"} => local'[g].sid \in Sid
  BY DEF TypeOK, Go, Hold

(* A handler that goes on with what it has in hand. *)
LEMMA GoType ==
  ASSUME TypeOK, NEW h \in Handler, NEW label \in PC,
         label \in {"load_user", "rotate", "revoke_one"} => local[h].sid \in Sid,
         Go(h, label), UNCHANGED local
  PROVE  /\ pc' \in [Handler -> PC]
         /\ local' \in [Handler -> Local]
         /\ \A g \in Handler :
               pc'[g] \in {"load_user", "rotate", "revoke_one"} => local'[g].sid \in Sid
  BY DEF TypeOK, Go

LEMMA RevokeAllType ==
  ASSUME TypeOK, NEW done, RevokeAll(done)
  PROVE  sess' \in [Sid -> Session] /\ local' \in [Handler -> Local]
<1>1. \A h \in Handler : [local[h] EXCEPT !.crossed = TRUE] \in Local
  BY DEF TypeOK, Local
<1> QED
  BY <1>1, EndedType, BlankType DEF RevokeAll, TypeOK, State

LEMMA NextType == TypeOK /\ [Next]_vars => TypeOK'
<1> SUFFICES ASSUME TypeOK, [Next]_vars PROVE TypeOK'
  OBVIOUS
<1> USE DEF PC
<1>1. ASSUME NEW h \in Handler, Login(h) PROVE TypeOK'
  BY <1>1, GoType DEF Login, TypeOK
<1>2. ASSUME NEW h \in Handler, NEW s \in Sid, Refresh(h, s) PROVE TypeOK'
  <2> DEFINE v == [sid |-> s, crossed |-> FALSE, stray |-> sess[s].stray,
                   oldPw |-> sess[s].oldPw]
  <2>1. v \in Local /\ v.sid = s
    BY DEF TypeOK, Session, Local
  <2>2. Go(h, "load_user") /\ Hold(h, v) /\ UNCHANGED <<sess, removed, resetToken, resetDied>>
    BY <1>2 DEF Refresh
  <2> HIDE DEF v
  <2> QED
    BY <2>1, <2>2, GoHoldType DEF TypeOK
<1>3. ASSUME NEW h \in Handler, NEW s \in Sid, RevokeSession(h, s) PROVE TypeOK'
  BY <1>3, BlankType, GoHoldType DEF RevokeSession, TypeOK
<1>4. ASSUME NEW h \in Handler, Return(h)
      PROVE  /\ pc' \in [Handler -> PC]
             /\ local' \in [Handler -> Local]
             /\ \A g \in Handler :
                   pc'[g] \in {"load_user", "rotate", "revoke_one"} => local'[g].sid \in Sid
  BY <1>4, BlankType, GoHoldType DEF Return
<1>5. ASSUME NEW h \in Handler, RefreshUser(h) PROVE TypeOK'
  <2>1. CASE removed
    BY <1>4, <1>5, <2>1 DEF RefreshUser, TypeOK
  <2>2. CASE ~removed
    BY <1>5, <2>2, GoType DEF RefreshUser, TypeOK
  <2> QED
    BY <2>1, <2>2
<1>6. ASSUME NEW s \in Sid, Revoke(s) PROVE sess' \in [Sid -> Session]
  BY <1>6, EndedType DEF Revoke, TypeOK, State
<1>7. ASSUME NEW h \in Handler, Rotate(h) PROVE TypeOK'
  <2>1. CASE sess[local[h].sid].state = "purged"
    BY <1>4, <1>7, <2>1 DEF Rotate, TypeOK
  <2>2. CASE sess[local[h].sid].state # "purged"
    <3>1. local[h].sid \in Sid
      BY <1>7 DEF Rotate, TypeOK
    <3> QED
      BY <1>6, <1>7, <2>2, <3>1, GoType DEF Rotate, TypeOK
  <2> QED
    BY <2>1, <2>2
<1>8. ASSUME NEW h \in Handler, Issue(h) PROVE TypeOK'
  <2>1. [state |-> "live", parent |-> local[h].sid, by |-> h,
         crossed |-> local[h].crossed, stray |-> local[h].stray \/ local[h].crossed,
         oldPw |-> local[h].oldPw, late |-> removed] \in Session
    BY DEF TypeOK, Local, Session, State
  <2> QED
    BY <1>4, <1>8, <2>1 DEF Issue, TypeOK
<1>9. ASSUME NEW h \in Handler, RevokeOne(h) PROVE TypeOK'
  <2>1. local[h].sid \in Sid
    BY <1>9 DEF RevokeOne, TypeOK
  <2> QED
    BY <1>4, <1>6, <1>9, <2>1 DEF RevokeOne, TypeOK
<1>10. ASSUME NEW h \in Handler, ResetPassword(h) PROVE TypeOK'
  BY <1>10, GoType DEF ResetPassword, TypeOK
<1>11. ASSUME NEW h \in Handler, ResetWrite(h) PROVE TypeOK'
  <2>1. sess' \in [Sid -> Session]
    <3>1. \A s \in Sid : [sess[s] EXCEPT !.oldPw = Live(s)] \in Session
      BY DEF TypeOK, Session, Live
    <3> QED
      BY <1>11, <3>1 DEF ResetWrite
  <2>2. \A g \in Handler : [local[g] EXCEPT !.oldPw = TRUE] \in Local
                            /\ [local[g] EXCEPT !.oldPw = TRUE].sid = local[g].sid
    BY DEF TypeOK, Local
  <2>3. /\ local' \in [Handler -> Local]
        /\ \A g \in Handler : local'[g].sid = local[g].sid
    BY <1>11, <2>2 DEF ResetWrite, TypeOK
  <2> QED
    BY <1>11, <2>1, <2>3 DEF ResetWrite, Go, TypeOK
<1>12. ASSUME NEW h \in Handler, ResetRevoke(h) PROVE TypeOK'
  <2>1. \A g \in Handler \ {h} :
          /\ pc'[g] = pc[g]
          /\ pc[g] # "idle" => local'[g] = [local[g] EXCEPT !.crossed = TRUE]
    BY <1>12 DEF ResetRevoke, RevokeAll, Go, TypeOK
  <2>2. pc' \in [Handler -> PC] /\ pc'[h] = "idle"
    BY <1>12 DEF ResetRevoke, Go, TypeOK
  <2>3. \A g \in Handler : [local[g] EXCEPT !.crossed = TRUE].sid = local[g].sid
    BY DEF TypeOK, Local
  <2> QED
    BY <1>12, <2>1, <2>2, <2>3, RevokeAllType DEF ResetRevoke, TypeOK
<1>13. ASSUME NEW h \in Handler, Die(h) PROVE TypeOK'
  BY <1>4, <1>13 DEF Die, TypeOK
<1>14. CASE LogoutAll
  <2>1. \A g \in Handler :
          pc[g] # "idle" => local'[g] = [local[g] EXCEPT !.crossed = TRUE]
    BY <1>14 DEF LogoutAll, RevokeAll, TypeOK
  <2>2. \A g \in Handler : [local[g] EXCEPT !.crossed = TRUE].sid = local[g].sid
    BY DEF TypeOK, Local
  <2> QED
    BY <1>14, <2>1, <2>2, RevokeAllType DEF LogoutAll, TypeOK
<1>15. CASE ForgotPassword \/ ResetTokenExpires \/ DeleteUser
  BY <1>15 DEF ForgotPassword, ResetTokenExpires, DeleteUser, TypeOK
<1>16. ASSUME NEW s \in Sid, Logout(s) \/ Expire(s) \/ PurgeExpired(s) PROVE TypeOK'
  <2>1. CASE Logout(s)
    BY <1>6, <2>1 DEF Logout, TypeOK
  <2>2. CASE Expire(s)
    BY <2>2, EndedType DEF Expire, TypeOK, State
  <2>3. CASE PurgeExpired(s)
    BY <2>3 DEF PurgeExpired, TypeOK, Session, State
  <2> QED
    BY <1>16, <2>1, <2>2, <2>3
<1>17. CASE UNCHANGED vars
  BY <1>17 DEF vars, TypeOK
<1>18. ASSUME NEW h \in Handler, HandlerStep(h) PROVE TypeOK'
  BY <1>1, <1>2, <1>3, <1>5, <1>7, <1>8, <1>9, <1>10, <1>11, <1>12, <1>13, <1>18
  DEF HandlerStep
<1> QED
  BY <1>14, <1>15, <1>16, <1>17, <1>18 DEF Next, AccountStep

(* Every behaviour keeps its types; in particular, a request that is about *)
(* to look at, rotate or revoke a session has one in hand.                 *)
THEOREM TypeCorrect == Spec => []TypeOK
<1>1. Init => TypeOK
  <2>1. Unused \in Session
    BY DEF Unused, Session, State
  <2> QED
    BY <2>1, BlankType DEF Init, TypeOK, PC
<1> QED
  BY <1>1, NextType, PTL DEF Spec

-----------------------------------------------------------------------------
(* Rotation.  ParentIsDead is not inductive: Issue relies on what Rotate   *)
(* did one await earlier, and a session id is taken only while unused.     *)
(* The strengthening says so of the handlers; its last conjunct makes      *)
(* siblings come from different handlers, since a handler that issued from *)
(* a session cannot find it active, and so cannot take it in hand, again.  *)

Spent == {"expired", "revoked", "purged"}

RotationInv ==
  /\ \A h \in Handler : pc[h] = "idle" => local[h].sid = NoSid
  /\ \A s \in Sid : sess[s].parent # NoSid => sess[sess[s].parent].state \in Spent
  /\ \A h \in Handler : local[h].sid # NoSid => sess[local[h].sid].state # "none"
  /\ \A h \in Handler :
        (pc[h] = "issue" /\ local[h].sid # NoSid) => sess[local[h].sid].state \in Spent
  /\ \A s \in Sid, h \in Handler :
        (sess[s].parent # NoSid /\ sess[s].by = h) => local[h].sid # sess[s].parent
  /\ SiblingsFromDistinctHandlers

(* What most steps do to the rows: no row is added, and none comes back.   *)
NoneComesBack ==
  \A s \in Sid :
    /\ sess'[s].parent = sess[s].parent
    /\ sess'[s].by = sess[s].by
    /\ sess[s].state \in Spent => sess'[s].state \in Spent
    /\ sess[s].state # "none" => sess'[s].state # "none"

(* And to the handlers: a session is taken in hand while it is live, and a *)
(* handler goes to issue with a session that is spent.                     *)
HandsAreSound ==
  \A h \in Handler :
    /\ \/ local'[h].sid = local[h].sid
       \/ local'[h].sid = NoSid
       \/ local'[h].sid \in Sid /\ Live(local'[h].sid) /\ sess'[local'[h].sid].state # "none"
    /\ (pc'[h] = "issue" /\ local'[h].sid # NoSid) =>
          \/ sess'[local'[h].sid].state \in Spent
          \/ pc[h] = "issue" /\ local'[h].sid = local[h].sid
    /\ pc'[h] = "idle" => local'[h].sid = NoSid

LEMMA RotationStep ==
  ASSUME TypeOK, RotationInv, NoneComesBack, HandsAreSound
  PROVE  RotationInv'
<1>0. /\ \A h \in Handler : local[h].sid \in Sid \cup {NoSid}
      /\ \A s \in Sid : sess[s].parent \in Sid \cup {NoSid}
  BY DEF TypeOK, Local, Session
<1>1. \A s \in Sid : sess'[s].parent # NoSid => sess'[sess'[s].parent].state \in Spent
  BY <1>0 DEF NoneComesBack, RotationInv, Spent
<1>2. \A h \in Handler : local'[h].sid # NoSid => sess'[local'[h].sid].state # "none"
  BY <1>0 DEF NoneComesBack, HandsAreSound, RotationInv
<1>3. \A h \in Handler :
        (pc'[h] = "issue" /\ local'[h].sid # NoSid) => sess'[local'[h].sid].state \in Spent
  BY <1>0 DEF NoneComesBack, HandsAreSound, RotationInv, Spent
<1>4. \A s \in Sid, h \in Handler :
        (sess'[s].parent # NoSid /\ sess'[s].by = h) => local'[h].sid # sess'[s].parent
  BY <1>0 DEF NoneComesBack, HandsAreSound, RotationInv, Spent, Live
<1>5. SiblingsFromDistinctHandlers'
  BY DEF NoneComesBack, RotationInv, SiblingsFromDistinctHandlers
<1>6. \A h \in Handler : pc'[h] = "idle" => local'[h].sid = NoSid
  BY DEF HandsAreSound
<1> QED
  BY <1>1, <1>2, <1>3, <1>4, <1>5, <1>6 DEF RotationInv

(* The one step that adds a row.                                           *)
LEMMA RotationIssue ==
  ASSUME TypeOK, RotationInv, NEW h \in Handler, Issue(h)
  PROVE  RotationInv'
<1>1. PICK s \in Sid :
        /\ sess[s].state = "none"
        /\ sess' = [sess EXCEPT ![s] =
              [state |-> "live", parent |-> local[h].sid, by |-> h,
               crossed |-> local[h].crossed,
               stray |-> local[h].stray \/ local[h].crossed,
               oldPw |-> local[h].oldPw, late |-> removed]]
  BY DEF Issue
<1>2. /\ sess'[s].state = "live"
      /\ sess'[s].parent = local[h].sid
      /\ sess'[s].by = h
      /\ \A t \in Sid \ {s} : sess'[t] = sess[t]
  BY <1>1 DEF TypeOK
<1>3. /\ local'[h].sid = NoSid
      /\ pc'[h] = "idle"
      /\ \A g \in Handler \ {h} : local'[g] = local[g] /\ pc'[g] = pc[g]
  BY DEF Issue, Return, Go, Hold, Blank, TypeOK
<1>4. /\ \A g \in Handler : local[g].sid \in Sid \cup {NoSid}
      /\ \A t \in Sid : sess[t].parent \in Sid \cup {NoSid}
      /\ NoSid \notin Sid
  BY SessionsAssumption DEF TypeOK, Local, Session
<1>5. local[h].sid # NoSid => sess[local[h].sid].state \in Spent /\ local[h].sid # s
  BY <1>1 DEF Issue, RotationInv, Spent
<1>6. \A t \in Sid : sess'[t].parent # NoSid => sess'[sess'[t].parent].state \in Spent
  BY <1>1, <1>2, <1>4, <1>5 DEF RotationInv, Spent
<1>7. \A g \in Handler : local'[g].sid # NoSid => sess'[local'[g].sid].state # "none"
  BY <1>2, <1>3, <1>4 DEF RotationInv
<1>8. \A g \in Handler :
        (pc'[g] = "issue" /\ local'[g].sid # NoSid) => sess'[local'[g].sid].state \in Spent
  BY <1>1, <1>2, <1>3, <1>4 DEF RotationInv, Spent
<1>9. \A t \in Sid, g \in Handler :
        (sess'[t].parent # NoSid /\ sess'[t].by = g) => local'[g].sid # sess'[t].parent
  BY <1>2, <1>3, <1>4 DEF RotationInv
<1>10. SiblingsFromDistinctHandlers'
  BY <1>2, <1>4 DEF RotationInv, SiblingsFromDistinctHandlers
<1>11. \A g \in Handler : pc'[g] = "idle" => local'[g].sid = NoSid
  BY <1>3 DEF RotationInv
<1> QED
  BY <1>6, <1>7, <1>8, <1>9, <1>10, <1>11 DEF RotationInv

LEMMA RotationNext == TypeOK /\ RotationInv /\ [Next]_vars => RotationInv'
<1> SUFFICES ASSUME TypeOK, RotationInv, [Next]_vars PROVE RotationInv'
  OBVIOUS
<1>0. /\ sess \in [Sid -> Session]
      /\ pc \in [Handler -> PC]
      /\ local \in [Handler -> Local]
      /\ \A h \in Handler :
            pc[h] \in {"load_user", "rotate", "revoke_one"} => local[h].sid \in Sid
      /\ NoSid \notin Sid
  BY SessionsAssumption DEF TypeOK
<1>1. ASSUME UNCHANGED sess PROVE NoneComesBack
  BY <1>1 DEF NoneComesBack, Spent
<1>2. ASSUME NEW s \in Sid, Revoke(s) PROVE NoneComesBack
  BY <1>0, <1>2 DEF Revoke, Revoked, Ended, NoneComesBack, Spent, Session
<1>3. ASSUME NEW done, RevokeAll(done)
      PROVE  /\ NoneComesBack
             /\ \A h \in Handler : local'[h].sid = local[h].sid \/ local'[h].sid = NoSid
  <2>1. ASSUME NEW r \in Session
        PROVE  /\ Revoked(r).parent = r.parent
               /\ Revoked(r).by = r.by
               /\ r.state \in Spent => Revoked(r).state \in Spent
               /\ r.state # "none" => Revoked(r).state # "none"
    BY <2>1 DEF Revoked, Ended, Session, Spent
  <2>2. \A s \in Sid : sess'[s] = Revoked(sess[s])
    BY <1>0, <1>3 DEF RevokeAll
  <2>3. NoneComesBack
    BY <1>0, <2>1, <2>2 DEF NoneComesBack
  <2>4. \A h \in Handler : local'[h].sid = local[h].sid \/ local'[h].sid = NoSid
    BY <1>0, <1>3 DEF RevokeAll, Local, Blank
  <2> QED
    BY <2>3, <2>4
<1>4. ASSUME NEW h \in Handler, Return(h) PROVE HandsAreSound
  <2>1. local'[h].sid = NoSid /\ pc'[h] = "idle"
    BY <1>0, <1>4 DEF Return, Go, Hold, Blank
  <2>2. \A g \in Handler \ {h} : local'[g] = local[g] /\ pc'[g] = pc[g]
    BY <1>0, <1>4 DEF Return, Go, Hold
  <2> QED
    BY <2>1, <2>2 DEF HandsAreSound, RotationInv
<1>5. ASSUME NEW h \in Handler, NEW label \in PC \ {"issue", "idle"}, Go(h, label), UNCHANGED local
      PROVE  HandsAreSound
  BY <1>0, <1>5 DEF Go, HandsAreSound, RotationInv
<1>6. ASSUME NEW h \in Handler, Login(h) PROVE RotationInv'
  <2>1. HandsAreSound
    BY <1>0, <1>6 DEF Login, Go, HandsAreSound, RotationInv
  <2> QED
    BY <1>1, <1>6, <2>1, RotationStep DEF Login
<1>7. ASSUME NEW h \in Handler, NEW s \in Sid, Refresh(h, s) \/ RevokeSession(h, s)
      PROVE  RotationInv'
  <2>1. UNCHANGED sess /\ Live(s)
    BY <1>7 DEF Refresh, RevokeSession
  <2>2. /\ local'[h].sid = s
        /\ pc'[h] \in {"load_user", "revoke_one"}
        /\ \A g \in Handler \ {h} : local'[g] = local[g] /\ pc'[g] = pc[g]
    BY <1>0, <1>7 DEF Refresh, RevokeSession, Go, Hold, Blank
  <2>3. sess[s].state # "none"
    BY <2>1 DEF Live
  <2>4. \A g \in Handler \ {h} : pc[g] = "idle" => local[g].sid = NoSid
    BY DEF RotationInv
  <2>5. HandsAreSound
    BY <2>1, <2>2, <2>3, <2>4 DEF HandsAreSound
  <2> QED
    BY <1>1, <2>1, <2>5, RotationStep
<1>8. ASSUME NEW h \in Handler, RefreshUser(h) PROVE RotationInv'
  <2>1. HandsAreSound
    <3>1. CASE removed
      BY <1>4, <1>8, <3>1 DEF RefreshUser
    <3>2. CASE ~removed
      BY <1>5, <1>8, <3>2 DEF RefreshUser, PC
    <3> QED
      BY <3>1, <3>2
  <2> QED
    BY <1>1, <1>8, <2>1, RotationStep DEF RefreshUser
<1>9. ASSUME NEW h \in Handler, Rotate(h) PROVE RotationInv'
  <2> DEFINE s == local[h].sid
  <2>1. s \in Sid /\ sess[s].state # "none"
    BY <1>0, <1>9 DEF Rotate, RotationInv
  <2>2. CASE sess[s].state = "purged"
    BY <1>1, <1>4, <1>9, <2>2, RotationStep DEF Rotate
  <2>3. CASE sess[s].state # "purged"
    <3>1. Revoke(s) /\ Go(h, "issue") /\ local' = local
      BY <1>9, <2>3 DEF Rotate
    <3>2. sess'[s].state \in Spent
      BY <1>0, <2>1, <2>3, <3>1 DEF Revoke, Revoked, Ended, Session, State, Spent
    <3>3. pc'[h] = "issue" /\ \A g \in Handler \ {h} : pc'[g] = pc[g]
      BY <1>0, <3>1 DEF Go
    <3>4. HandsAreSound
      BY <3>1, <3>2, <3>3 DEF HandsAreSound, RotationInv
    <3> HIDE DEF s
    <3> QED
      BY <1>2, <2>1, <3>1, <3>4, RotationStep
  <2> QED
    BY <2>2, <2>3
<1>10. ASSUME NEW h \in Handler, RevokeOne(h) PROVE RotationInv'
  BY <1>0, <1>2, <1>4, <1>10, RotationStep DEF RevokeOne
<1>11. ASSUME NEW h \in Handler, ResetPassword(h) PROVE RotationInv'
  BY <1>1, <1>5, <1>11, RotationStep DEF ResetPassword, PC
<1>12. ASSUME NEW h \in Handler, ResetWrite(h) PROVE RotationInv'
  <2>1. NoneComesBack
    BY <1>0, <1>12 DEF ResetWrite, NoneComesBack, Session
  <2>2. \A g \in Handler : local'[g].sid = local[g].sid
    BY <1>0, <1>12 DEF ResetWrite, Local
  <2>3. pc'[h] = "revoke_all" /\ \A g \in Handler \ {h} : pc'[g] = pc[g]
    BY <1>0, <1>12 DEF ResetWrite, Go
  <2>4. HandsAreSound
    BY <2>2, <2>3 DEF HandsAreSound, RotationInv
  <2> QED
    BY <2>1, <2>4, RotationStep
<1>13. ASSUME NEW h \in Handler, ResetRevoke(h) PROVE RotationInv'
  <2>1. NoneComesBack /\ \A g \in Handler : local'[g].sid = local[g].sid \/ local'[g].sid = NoSid
    BY <1>3, <1>13 DEF ResetRevoke
  <2>2. local'[h].sid = NoSid
    BY <1>0, <1>13 DEF ResetRevoke, RevokeAll, Blank
  <2>3. pc'[h] = "idle" /\ \A g \in Handler \ {h} : pc'[g] = pc[g]
    BY <1>0, <1>13 DEF ResetRevoke, Go
  <2>4. HandsAreSound
    BY <2>1, <2>2, <2>3 DEF HandsAreSound, RotationInv
  <2> QED
    BY <2>1, <2>4, RotationStep
<1>14. CASE LogoutAll
  <2>1. /\ NoneComesBack
        /\ \A g \in Handler : local'[g].sid = local[g].sid \/ local'[g].sid = NoSid
        /\ pc' = pc
    BY <1>3, <1>14 DEF LogoutAll
  <2>2. HandsAreSound
    BY <2>1 DEF HandsAreSound, RotationInv
  <2> QED
    BY <2>1, <2>2, RotationStep
<1>15. ASSUME UNCHANGED <<pc, local>> PROVE HandsAreSound
  BY <1>15 DEF HandsAreSound, RotationInv
<1>16. ASSUME NEW s \in Sid, Logout(s) \/ Expire(s) \/ PurgeExpired(s) PROVE RotationInv'
  <2>1. UNCHANGED <<pc, local>>
    BY <1>16 DEF Logout, Expire, PurgeExpired
  <2>2. CASE Logout(s)
    BY <1>2, <1>15, <2>1, <2>2, RotationStep DEF Logout
  <2>3. CASE Expire(s)
    <3>1. NoneComesBack
      BY <1>0, <2>3 DEF Expire, Ended, NoneComesBack, Session, Spent
    <3> QED
      BY <1>15, <2>1, <3>1, RotationStep
  <2>4. CASE PurgeExpired(s)
    <3>1. NoneComesBack
      BY <1>0, <2>4 DEF PurgeExpired, NoneComesBack, Session, Spent
    <3> QED
      BY <1>15, <2>1, <3>1, RotationStep
  <2> QED
    BY <1>16, <2>2, <2>3, <2>4
<1>17. ASSUME NEW h \in Handler, Die(h) PROVE RotationInv'
  BY <1>1, <1>4, <1>17, RotationStep DEF Die
<1>18. CASE ForgotPassword \/ ResetTokenExpires \/ DeleteUser \/ UNCHANGED vars
  BY <1>1, <1>15, <1>18, RotationStep
  DEF ForgotPassword, ResetTokenExpires, DeleteUser, vars
<1>19. ASSUME NEW h \in Handler, HandlerStep(h) PROVE RotationInv'
  BY <1>6, <1>7, <1>8, <1>9, <1>10, <1>11, <1>12, <1>13, <1>17, <1>19, RotationIssue
  DEF HandlerStep
<1> QED
  BY <1>14, <1>16, <1>18, <1>19 DEF Next, AccountStep

LEMMA RotationHolds == Spec => []RotationInv
<1>1. Init => RotationInv
  BY DEF Init, RotationInv, Unused, Blank, SiblingsFromDistinctHandlers
<1> QED
  BY <1>1, RotationNext, TypeCorrect, PTL DEF Spec

(* A session and one it was refreshed into are never both usable.          *)
THEOREM OldTokenIsDead == Spec => []ParentIsDead
<1>1. RotationInv => ParentIsDead
  BY DEF RotationInv, ParentIsDead, Live, Spent
<1> QED
  BY <1>1, RotationHolds, PTL

(* Only requests that raced with each other can have spent one token.      *)
THEOREM TokenSpentOncePerRequest == Spec => []SiblingsFromDistinctHandlers
<1>1. RotationInv => SiblingsFromDistinctHandlers
  BY DEF RotationInv
<1> QED
  BY <1>1, RotationHolds, PTL
-----------------------------------------------------------------------------
(* What may outlive a revocation of all, a reset and a deletion.  None of  *)
(* the three properties is inductive: Issue copies into the row what its   *)
(* handler carries since the check it made, so the strengthening says what *)
(* handlers carry.  A request that was crossed has left nothing live that  *)
(* was crossed before; one that carries an old password was crossed, or    *)
(* descends from one that was, or a revocation is still due; and one that  *)
(* has issued to a deleted user cannot get to issue again.                 *)

ResetPending == resetDied \/ \E h \in Handler : pc[h] = "revoke_all"

HistoryInv ==
  /\ \A h \in Handler : pc[h] = "idle" => local[h] = Blank
  /\ \A s \in Sid, h \in Handler :
        local[h].crossed => ~(Live(s) /\ sess[s].crossed /\ sess[s].by = h)
  /\ \A h \in Handler :
        local[h].oldPw => local[h].crossed \/ local[h].stray \/ ResetPending
  /\ \A s \in Sid, h \in Handler :
        (sess[s].late /\ sess[s].by = h) => removed /\ pc[h] \notin {"rotate", "issue"}
  /\ StragglersFromDistinctHandlers
  /\ ResetEndsOldLogins
  /\ DeletedUserIsOut

(* Most steps add no row and bring none back; a live row keeps its history *)
(* but for a reset, whose revocation is then due.                          *)
RowsKeepHistory ==
  \A s \in Sid :
    /\ sess'[s].by = sess[s].by
    /\ sess'[s].late = sess[s].late
    /\ Live(s)' =>
          /\ Live(s)
          /\ sess'[s].crossed = sess[s].crossed
          /\ sess'[s].stray = sess[s].stray
          /\ sess'[s].oldPw => sess[s].oldPw \/ ResetPending'

(* And a handler carries on what it had, or what it finds on a live row.   *)
HandsKeepHistory ==
  /\ ResetPending => ResetPending'
  /\ removed => removed'
  /\ \A h \in Handler :
        /\ pc'[h] = "idle" => local'[h] = Blank
        /\ local'[h].crossed => local[h].crossed
        /\ local'[h].oldPw =>
              \/ ResetPending'
              \/ local'[h] = local[h]
              \/ \E s \in Sid : Live(s) /\ sess[s].oldPw /\ sess[s].stray = local'[h].stray
        /\ pc'[h] \in {"rotate", "issue"} => pc[h] \in {"rotate", "issue"} \/ ~removed

LEMMA HistoryStep ==
  ASSUME TypeOK, HistoryInv, RowsKeepHistory, HandsKeepHistory
  PROVE  HistoryInv'
<1>1. \A s \in Sid, h \in Handler :
        local'[h].crossed => ~(Live(s)' /\ sess'[s].crossed /\ sess'[s].by = h)
  BY DEF HistoryInv, RowsKeepHistory, HandsKeepHistory
<1>2. \A h \in Handler :
        local'[h].oldPw => local'[h].crossed \/ local'[h].stray \/ ResetPending'
  BY DEF HistoryInv, ResetEndsOldLogins, ResetPending, HandsKeepHistory
<1>3. \A s \in Sid, h \in Handler :
        (sess'[s].late /\ sess'[s].by = h) => removed' /\ pc'[h] \notin {"rotate", "issue"}
  BY DEF HistoryInv, RowsKeepHistory, HandsKeepHistory
<1>4. StragglersFromDistinctHandlers'
  BY DEF HistoryInv, StragglersFromDistinctHandlers, RowsKeepHistory
<1>5. ResetEndsOldLogins'
  <2>1. \A s \in Sid : (Live(s)' /\ sess'[s].oldPw) => sess'[s].stray \/ ResetPending'
    BY DEF HistoryInv, ResetEndsOldLogins, ResetPending, RowsKeepHistory, HandsKeepHistory
  <2> QED
    BY <2>1 DEF ResetEndsOldLogins, ResetPending
<1>6. DeletedUserIsOut'
  BY DEF HistoryInv, DeletedUserIsOut, RowsKeepHistory
<1> QED
  BY <1>1, <1>2, <1>3, <1>4, <1>5, <1>6 DEF HistoryInv, HandsKeepHistory

(* A revocation of all leaves nothing live, and every request in flight    *)
(* remembers it.                                                           *)
LEMMA HistoryRevokeAll ==
  ASSUME TypeOK, HistoryInv, NEW done, RevokeAll(done), removed' = removed,
         \A h \in Handler : pc'[h] = "idle" => pc[h] = "idle" \/ h \in done,
         \A h \in Handler : pc'[h] = pc[h] \/ pc'[h] = "idle"
  PROVE  HistoryInv'
<1>0. /\ sess \in [Sid -> Session]
      /\ local \in [Handler -> Local]
  BY DEF TypeOK
<1>1. ASSUME NEW s \in Sid
      PROVE  /\ ~Live(s)'
             /\ sess'[s].by = sess[s].by
             /\ sess'[s].late = sess[s].late
  BY <1>0, <1>1 DEF RevokeAll, Revoked, Ended, Live, Session
<1>2. ASSUME NEW h \in Handler
      PROVE  local'[h] = Blank \/ (pc[h] # "idle" /\ h \notin done /\ local'[h].crossed)
  <2>1. [local[h] EXCEPT !.crossed = TRUE].crossed
    BY <1>0 DEF Local
  <2> QED
    BY <2>1 DEF RevokeAll
<1>3. \A h \in Handler : pc'[h] = "idle" => local'[h] = Blank
  BY <1>2 DEF RevokeAll
<1>4. \A h \in Handler : local'[h].oldPw => local'[h].crossed
  BY <1>2 DEF Blank
<1>5. \A s \in Sid, h \in Handler :
        (sess'[s].late /\ sess'[s].by = h) => removed' /\ pc'[h] \notin {"rotate", "issue"}
  BY <1>1 DEF HistoryInv
<1>6. StragglersFromDistinctHandlers' /\ ResetEndsOldLogins'
  BY <1>1 DEF StragglersFromDistinctHandlers, ResetEndsOldLogins
<1>7. DeletedUserIsOut'
  BY <1>1 DEF HistoryInv, DeletedUserIsOut
<1> QED
  BY <1>1, <1>3, <1>4, <1>5, <1>6, <1>7 DEF HistoryInv

(* The step that adds a row, and forgets what the handler carried.         *)
LEMMA HistoryIssue ==
  ASSUME TypeOK, HistoryInv, NEW h \in Handler, Issue(h)
  PROVE  HistoryInv'
<1>1. PICK s \in Sid :
        /\ sess[s].state = "none"
        /\ sess' = [sess EXCEPT ![s] =
              [state |-> "live", parent |-> local[h].sid, by |-> h,
               crossed |-> local[h].crossed,
               stray |-> local[h].stray \/ local[h].crossed,
               oldPw |-> local[h].oldPw, late |-> removed]]
  BY DEF Issue
<1>2. /\ sess'[s].by = h
      /\ sess'[s].crossed = local[h].crossed
      /\ sess'[s].stray = (local[h].stray \/ local[h].crossed)
      /\ sess'[s].oldPw = local[h].oldPw
      /\ sess'[s].late = removed
      /\ \A t \in Sid \ {s} : sess'[t] = sess[t]
  BY <1>1 DEF TypeOK
<1>3. /\ local'[h] = Blank
      /\ pc[h] = "issue"
      /\ pc'[h] = "idle"
      /\ \A g \in Handler \ {h} : local'[g] = local[g] /\ pc'[g] = pc[g]
      /\ UNCHANGED <<removed, resetDied>>
  BY DEF Issue, Return, Go, Hold, TypeOK
<1>4. ResetPending' <=> ResetPending
  BY <1>3 DEF ResetPending
<1>5. \A g \in Handler : pc'[g] = "idle" => local'[g] = Blank
  BY <1>3 DEF HistoryInv
<1>6. \A t \in Sid, g \in Handler :
        local'[g].crossed => ~(Live(t)' /\ sess'[t].crossed /\ sess'[t].by = g)
  BY <1>2, <1>3 DEF HistoryInv, Live, Blank
<1>7. \A g \in Handler :
        local'[g].oldPw => local'[g].crossed \/ local'[g].stray \/ ResetPending'
  BY <1>3, <1>4 DEF HistoryInv, Blank
<1>8. \A t \in Sid, g \in Handler :
        (sess'[t].late /\ sess'[t].by = g) => removed' /\ pc'[g] \notin {"rotate", "issue"}
  BY <1>2, <1>3 DEF HistoryInv
<1>9. StragglersFromDistinctHandlers'
  BY <1>2 DEF HistoryInv, StragglersFromDistinctHandlers, Live
<1>10. ResetEndsOldLogins'
  <2>1. \A t \in Sid : (Live(t)' /\ sess'[t].oldPw) => sess'[t].stray \/ ResetPending'
    BY <1>2, <1>4 DEF HistoryInv, ResetEndsOldLogins, ResetPending, Live
  <2> QED
    BY <2>1 DEF ResetEndsOldLogins, ResetPending
<1>11. DeletedUserIsOut'
  BY <1>2, <1>3 DEF HistoryInv, DeletedUserIsOut
<1> QED
  BY <1>5, <1>6, <1>7, <1>8, <1>9, <1>10, <1>11 DEF HistoryInv

LEMMA HistoryNext == TypeOK /\ HistoryInv /\ [Next]_vars => HistoryInv'
<1> SUFFICES ASSUME TypeOK, HistoryInv, [Next]_vars PROVE HistoryInv'
  OBVIOUS
<1>0. /\ sess \in [Sid -> Session]
      /\ pc \in [Handler -> PC]
      /\ local \in [Handler -> Local]
      /\ \A h \in Handler :
            pc[h] \in {"load_user", "rotate", "revoke_one"} => local[h].sid \in Sid
  BY DEF TypeOK
<1>1. ASSUME UNCHANGED sess PROVE RowsKeepHistory
  BY <1>1 DEF RowsKeepHistory, Live
<1>2. ASSUME NEW s \in Sid, Revoke(s) PROVE RowsKeepHistory
  <2>1. /\ ~Live(s)'
        /\ sess'[s].by = sess[s].by
        /\ sess'[s].late = sess[s].late
        /\ \A t \in Sid \ {s} : sess'[t] = sess[t]
    BY <1>0, <1>2 DEF Revoke, Revoked, Ended, Live, Session, State
  <2> QED
    BY <2>1 DEF RowsKeepHistory, Live
(* One handler moves on; the revocations that were due still are. *)
<1>3. ASSUME NEW h \in Handler, NEW label \in PC \ {"idle"}, pc[h] # "revoke_all",
             label \in {"rotate", "issue"} => pc[h] \in {"rotate", "issue"} \/ ~removed,
             Go(h, label), UNCHANGED <<local, removed, resetDied>>
      PROVE  HandsKeepHistory
  BY <1>0, <1>3 DEF Go, HandsKeepHistory, HistoryInv, ResetPending
<1>4. ASSUME NEW h \in Handler, pc[h] # "revoke_all" \/ resetDied', Return(h),
             removed' = removed, resetDied => resetDied'
      PROVE  HandsKeepHistory
  <2>1. /\ local'[h] = Blank
        /\ pc'[h] = "idle"
        /\ \A g \in Handler \ {h} : local'[g] = local[g] /\ pc'[g] = pc[g]
    BY <1>0, <1>4 DEF Return, Go, Hold
  <2>2. ResetPending => ResetPending'
    BY <1>4, <2>1 DEF ResetPending
  <2>3. ~local'[h].crossed /\ ~local'[h].oldPw
    BY <2>1 DEF Blank
  <2> QED
    BY <1>4, <2>1, <2>2, <2>3 DEF HandsKeepHistory, HistoryInv
<1>5. ASSUME UNCHANGED <<pc, local, resetDied>>, removed => removed' PROVE HandsKeepHistory
  BY <1>5 DEF HandsKeepHistory, HistoryInv, ResetPending
<1>6. ASSUME NEW h \in Handler, Login(h) PROVE HistoryInv'
  BY <1>1, <1>3, <1>6, HistoryStep DEF Login, PC
<1>7. ASSUME NEW h \in Handler, NEW s \in Sid, Refresh(h, s) \/ RevokeSession(h, s)
      PROVE  HistoryInv'
  <2>1. /\ UNCHANGED <<sess, removed, resetDied>>
        /\ Live(s)
        /\ pc[h] = "idle"
    BY <1>7 DEF Refresh, RevokeSession
  <2>2. /\ pc'[h] \in {"load_user", "revoke_one"}
        /\ ~local'[h].crossed
        /\ local'[h].oldPw => sess[s].oldPw /\ sess[s].stray = local'[h].stray
        /\ \A g \in Handler \ {h} : local'[g] = local[g] /\ pc'[g] = pc[g]
    BY <1>0, <1>7 DEF Refresh, RevokeSession, Go, Hold, Blank
  <2>3. ResetPending => ResetPending'
    BY <2>1, <2>2 DEF ResetPending
  <2>4. HandsKeepHistory
    BY <2>1, <2>2, <2>3 DEF HandsKeepHistory, HistoryInv
  <2> QED
    BY <1>1, <2>1, <2>4, HistoryStep
<1>8. ASSUME NEW h \in Handler, RefreshUser(h) PROVE HistoryInv'
  <2>1. HandsKeepHistory
    <3>1. CASE removed
      BY <1>4, <1>8, <3>1 DEF RefreshUser
    <3>2. CASE ~removed
      BY <1>3, <1>8, <3>2 DEF RefreshUser, PC
    <3> QED
      BY <3>1, <3>2
  <2> QED
    BY <1>1, <1>8, <2>1, HistoryStep DEF RefreshUser
<1>9. ASSUME NEW h \in Handler, Rotate(h) PROVE HistoryInv'
  <2>1. CASE sess[local[h].sid].state = "purged"
    BY <1>1, <1>4, <1>9, <2>1, HistoryStep DEF Rotate
  <2>2. CASE sess[local[h].sid].state # "purged"
    <3>1. /\ Revoke(local[h].sid)
          /\ local[h].sid \in Sid
          /\ pc[h] = "rotate"
          /\ Go(h, "issue")
          /\ UNCHANGED <<local, removed, resetDied>>
      BY <1>0, <1>9, <2>2 DEF Rotate
    <3>2. HandsKeepHistory
      BY <1>3, <3>1 DEF PC
    <3> QED
      BY <1>2, <3>1, <3>2, HistoryStep
  <2> QED
    BY <2>1, <2>2
<1>10. ASSUME NEW h \in Handler, RevokeOne(h) PROVE HistoryInv'
  BY <1>0, <1>2, <1>4, <1>10, HistoryStep DEF RevokeOne
<1>11. ASSUME NEW h \in Handler, ResetPassword(h) PROVE HistoryInv'
  BY <1>1, <1>3, <1>11, HistoryStep DEF ResetPassword, PC
<1>12. ASSUME NEW h \in Handler, ResetWrite(h) PROVE HistoryInv'
  <2>1. pc[h] = "reset" /\ pc'[h] = "revoke_all" /\ \A g \in Handler \ {h} : pc'[g] = pc[g]
    BY <1>0, <1>12 DEF ResetWrite, Go
  <2>2. ResetPending'
    BY <2>1 DEF ResetPending
  <2>3. ASSUME NEW s \in Sid
        PROVE  /\ sess'[s].by = sess[s].by
               /\ sess'[s].late = sess[s].late
               /\ sess'[s].state = sess[s].state
               /\ sess'[s].crossed = sess[s].crossed
               /\ sess'[s].stray = sess[s].stray
    BY <1>0, <1>12 DEF ResetWrite, Session
  <2>4. RowsKeepHistory
    BY <2>2, <2>3 DEF RowsKeepHistory, Live
  <2>5. ASSUME NEW g \in Handler
        PROVE  /\ local'[g].crossed = local[g].crossed
               /\ pc'[g] = "idle" => local'[g] = local[g]
    BY <1>0, <1>12, <2>1 DEF ResetWrite, Local
  <2>6. HandsKeepHistory
    BY <1>12, <2>1, <2>2, <2>5 DEF ResetWrite, HandsKeepHistory, HistoryInv
  <2> QED
    BY <2>4, <2>6, HistoryStep
<1>13. ASSUME NEW h \in Handler, ResetRevoke(h) PROVE HistoryInv'
  BY <1>0, <1>13, HistoryRevokeAll DEF ResetRevoke, Go
<1>14. CASE LogoutAll
  BY <1>14, HistoryRevokeAll DEF LogoutAll
<1>15. ASSUME NEW s \in Sid, Logout(s) \/ Expire(s) \/ PurgeExpired(s) PROVE HistoryInv'
  <2>1. HandsKeepHistory
    BY <1>5, <1>15 DEF Logout, Expire, PurgeExpired
  <2>2. RowsKeepHistory
    <3>1. CASE Logout(s)
      BY <1>2, <3>1 DEF Logout
    <3>2. CASE Expire(s)
      BY <1>0, <3>2 DEF Expire, Ended, RowsKeepHistory, Live, Session
    <3>3. CASE PurgeExpired(s)
      BY <1>0, <3>3 DEF PurgeExpired, RowsKeepHistory, Live, Session
    <3> QED
      BY <1>15, <3>1, <3>2, <3>3
  <2> QED
    BY <2>1, <2>2, HistoryStep
<1>16. ASSUME NEW h \in Handler, Die(h) PROVE HistoryInv'
  BY <1>1, <1>4, <1>16, HistoryStep DEF Die
<1>17. CASE ForgotPassword \/ ResetTokenExpires \/ DeleteUser \/ UNCHANGED vars
  BY <1>1, <1>5, <1>17, HistoryStep DEF ForgotPassword, ResetTokenExpires, DeleteUser, vars
<1>18. ASSUME NEW h \in Handler, HandlerStep(h) PROVE HistoryInv'
  BY <1>6, <1>7, <1>8, <1>9, <1>10, <1>11, <1>12, <1>13, <1>16, <1>18, HistoryIssue
  DEF HandlerStep
<1> QED
  BY <1>14, <1>15, <1>17, <1>18 DEF Next, AccountStep

LEMMA HistoryHolds == Spec => []HistoryInv
<1>1. Init => HistoryInv
  BY DEF Init, HistoryInv, Unused, Blank, Live, StragglersFromDistinctHandlers,
         ResetEndsOldLogins, DeletedUserIsOut
<1> QED
  BY <1>1, HistoryNext, TypeCorrect, PTL DEF Spec

(* Log out everywhere lets each request that was in flight across it leave *)
(* at most one live session behind, however many sessions it refreshes,    *)
(* and however many logouts overlap.                                       *)
THEOREM OneStragglerPerRequest == Spec => []StragglersFromDistinctHandlers
<1>1. HistoryInv => StragglersFromDistinctHandlers
  BY DEF HistoryInv
<1> QED
  BY <1>1, HistoryHolds, PTL

(* A password reset that runs to its end leaves no session that began with *)
(* the old password, but for those of requests in flight across it.        *)
THEOREM OldLoginsEnd == Spec => []ResetEndsOldLogins
<1>1. HistoryInv => ResetEndsOldLogins
  BY DEF HistoryInv
<1> QED
  BY <1>1, HistoryHolds, PTL

(* A deleted user gets at most one more session from each request that was *)
(* in flight, although the deletion itself does not touch the sessions.    *)
THEOREM OneLateSessionPerRequest == Spec => []DeletedUserIsOut
<1>1. HistoryInv => DeletedUserIsOut
  BY DEF HistoryInv
<1> QED
  BY <1>1, HistoryHolds, PTL
=============================================================================
