------------------------------ MODULE SigninProofs ------------------------------
(***************************************************************************)
(* What holds of the ways in, for any number of requests, tokens,          *)
(* browsers, sign-ins and root fields: an owner who sets a password of his *)
(* own keeps the account (Passwords), Google's tokens go to the browser    *)
(* that asked for them, once (OAuth), and what is let in runs with the     *)
(* user that was (Requests).                                               *)
(***************************************************************************)
EXTENDS Passwords, OAuth, Requests, TLAPS

(* A step of one handler keeps the types of all. *)
LEMMA PassGoTypes ==
    ASSUME PassTypeOK,
           NEW h \in PassHandler,
           NEW label \in {"idle", "set_token", "mail", "reset", "change"},
           NEW v \in PassHeld,
           label = "mail" => v.token # 0,
           label \in {"reset", "change"} => v.new \in Knows(v.by),
           PassGo(h, label, v)
    PROVE  /\ passStep' \in [PassHandler -> {"idle", "set_token", "mail", "reset", "change"}]
           /\ passHeld' \in [PassHandler -> PassHeld]
           /\ \A g \in PassHandler :
                 /\ passStep'[g] = "mail" => passHeld'[g].token # 0
                 /\ passStep'[g] \in {"reset", "change"} => passHeld'[g].new \in Knows(passHeld'[g].by)
<1>1. /\ passStep' = [passStep EXCEPT ![h] = label]
      /\ passHeld' = [passHeld EXCEPT ![h] = v]
  BY DEF PassGo
<1>2. /\ passStep \in [PassHandler -> {"idle", "set_token", "mail", "reset", "change"}]
      /\ passHeld \in [PassHandler -> PassHeld]
      /\ \A g \in PassHandler :
            /\ passStep[g] = "mail" => passHeld[g].token # 0
            /\ passStep[g] \in {"reset", "change"} => passHeld[g].new \in Knows(passHeld[g].by)
  BY DEF PassTypeOK
<1>3. ASSUME NEW g \in PassHandler
      PROVE  /\ passStep'[g] = "mail" => passHeld'[g].token # 0
             /\ passStep'[g] \in {"reset", "change"} => passHeld'[g].new \in Knows(passHeld'[g].by)
  <2>1. CASE g = h
    BY <1>1, <1>2, <2>1, Zenon
  <2>2. CASE g # h
    BY <1>1, <1>2, <1>3, <2>2, Zenon
  <2> QED BY <2>1, <2>2
<1> QED BY <1>1, <1>2, <1>3, Zenon

(* Unasked, and what the awaits bring along, are of the type of passHeld.  *)
LEMMA UnaskedTypes ==
    /\ Unasked \in PassHeld
    /\ \A t \in 0 .. MaxResetTokens : [Unasked EXCEPT !.token = t] \in PassHeld
                                      /\ [Unasked EXCEPT !.token = t].token = t
    /\ \A p \in Party, new \in Password :
          /\ [by |-> p, new |-> new, token |-> 0] \in PassHeld
          /\ [by |-> p, new |-> new, token |-> 0].by = p
          /\ [by |-> p, new |-> new, token |-> 0].new = new
    /\ \A new \in Password :
          /\ [Unasked EXCEPT !.new = new] \in PassHeld
          /\ [Unasked EXCEPT !.new = new].by = "owner"
          /\ [Unasked EXCEPT !.new = new].new = new
<1> USE PasswordsAssumption DEF Unasked, PassHeld, Party, Password
<1>1. Unasked \in PassHeld
  OBVIOUS
<1>2. ASSUME NEW t \in 0 .. MaxResetTokens
      PROVE  [Unasked EXCEPT !.token = t] \in PassHeld /\ [Unasked EXCEPT !.token = t].token = t
  OBVIOUS
<1>3. ASSUME NEW p \in Party, NEW new \in Password
      PROVE  /\ [by |-> p, new |-> new, token |-> 0] \in PassHeld
             /\ [by |-> p, new |-> new, token |-> 0].by = p
             /\ [by |-> p, new |-> new, token |-> 0].new = new
  OBVIOUS
<1>4. ASSUME NEW new \in Password
      PROVE  /\ [Unasked EXCEPT !.new = new] \in PassHeld
             /\ [Unasked EXCEPT !.new = new].by = "owner"
             /\ [Unasked EXCEPT !.new = new].new = new
  OBVIOUS
<1> HIDE PasswordsAssumption DEF Unasked, PassHeld, Party, Password
<1> QED BY <1>1, <1>2, <1>3, <1>4

(* Every step keeps the types. *)
LEMMA PassStepTypes == PassTypeOK /\ [PassNext]_passVars => PassTypeOK'
<1> SUFFICES ASSUME PassTypeOK, [PassNext]_passVars PROVE PassTypeOK'
  OBVIOUS
<1> USE PasswordsAssumption
<1>1. ASSUME NEW h \in PassHandler, AskForgot(h) PROVE PassTypeOK'
  BY <1>1, UnaskedTypes, PassGoTypes DEF AskForgot, PassTypeOK
<1>2. ASSUME NEW h \in PassHandler, SetResetToken(h) PROVE PassTypeOK'
  <2>1. /\ resetTokens' \in 1 .. MaxResetTokens
        /\ PassGo(h, "mail", [Unasked EXCEPT !.token = resetTokens'])
    BY <1>2 DEF SetResetToken, PassTypeOK
  <2>2. /\ [Unasked EXCEPT !.token = resetTokens'] \in PassHeld
        /\ [Unasked EXCEPT !.token = resetTokens'].token # 0
    <3>1. resetTokens' \in 0 .. MaxResetTokens /\ resetTokens' # 0
      BY <2>1
    <3> QED BY <3>1, UnaskedTypes, Zenon
  <2> DEFINE v == [Unasked EXCEPT !.token = resetTokens']
  <2> HIDE DEF v
  <2>3. v \in PassHeld /\ v.token # 0 /\ PassGo(h, "mail", v)
    BY <2>1, <2>2 DEF v
  <2>4. /\ passStep' \in [PassHandler -> {"idle", "set_token", "mail", "reset", "change"}]
        /\ passHeld' \in [PassHandler -> PassHeld]
        /\ \A g \in PassHandler :
              /\ passStep'[g] = "mail" => passHeld'[g].token # 0
              /\ passStep'[g] \in {"reset", "change"} => passHeld'[g].new \in Knows(passHeld'[g].by)
    BY <2>3, PassGoTypes
  <2> QED BY <1>2, <2>1, <2>4 DEF SetResetToken, PassTypeOK
<1>3. ASSUME NEW h \in PassHandler, MailReset(h) PROVE PassTypeOK'
  <2>1. passHeld[h].token \in 1 .. MaxResetTokens
    BY <1>3 DEF MailReset, PassTypeOK, PassHeld
  <2> QED BY <1>3, <2>1, UnaskedTypes, PassGoTypes DEF MailReset, PassTypeOK
<1>4. ASSUME ResetWindowEnds PROVE PassTypeOK'
  BY <1>4 DEF ResetWindowEnds, PassTypeOK
<1>10. ASSUME NEW t \in posted, SendReset(t) \/ DropReset(t) PROVE PassTypeOK'
  <2>1. posted' \in SUBSET (1 .. MaxResetTokens)
    BY <1>10 DEF SendReset, DropReset, PassTypeOK
  <2>2. mailbox' \in SUBSET (1 .. MaxResetTokens)
    BY <1>10 DEF SendReset, DropReset, PassTypeOK
  <2>3. UNCHANGED <<password, resetToken, resetOpen, resetTokens, passStep, passHeld, regained>>
    BY <1>10 DEF SendReset, DropReset
  <2> QED BY <2>1, <2>2, <2>3 DEF PassTypeOK
<1>5. ASSUME NEW h \in PassHandler, NEW t \in mailbox, NEW new \in Password, AskReset(h, t, new)
      PROVE  PassTypeOK'
  <2> DEFINE v == [Unasked EXCEPT !.new = new]
  <2>1. v \in PassHeld /\ v.by = "owner" /\ v.new = new
    BY UnaskedTypes
  <2> HIDE DEF v
  <2>2. new \in Knows(v.by) /\ PassGo(h, "reset", v)
    BY <1>5, <2>1 DEF AskReset, v
  <2> QED BY <1>5, <2>1, <2>2, PassGoTypes DEF AskReset, PassTypeOK
<1>6. ASSUME NEW h \in PassHandler, NEW p \in Party, NEW new \in Password, AskChange(h, p, new)
      PROVE  PassTypeOK'
  <2> DEFINE v == [by |-> p, new |-> new, token |-> 0]
  <2>1. v \in PassHeld /\ v.by = p /\ v.new = new
    BY UnaskedTypes
  <2> HIDE DEF v
  <2>2. new \in Knows(v.by) /\ PassGo(h, "change", v)
    BY <1>6, <2>1 DEF AskChange, v
  <2> QED BY <1>6, <2>1, <2>2, PassGoTypes DEF AskChange, PassTypeOK
<1>7. ASSUME NEW h \in PassHandler, WriteReset(h) \/ WriteChange(h) PROVE PassTypeOK'
  <2>1. passHeld[h].new \in Password /\ Settled(h)
    BY <1>7 DEF WriteReset, WriteChange, PassTypeOK, PassHeld
  <2>2. regained' \in BOOLEAN
    BY <2>1 DEF Settled, PassTypeOK
  <2>3. PassGo(h, "idle", Unasked) /\ password' \in Password
    BY <2>1 DEF Settled
  <2>4. /\ resetToken' \in 0 .. MaxResetTokens
        /\ resetOpen' \in BOOLEAN
        /\ UNCHANGED <<posted, mailbox, resetTokens>>
    <3>1. CASE WriteReset(h)
      <4>1. 0 \in 0 .. MaxResetTokens
        OBVIOUS
      <4> QED BY <3>1, <4>1, Zenon DEF WriteReset
    <3>2. CASE WriteChange(h)
      BY <3>2 DEF WriteChange, PassTypeOK
    <3> QED BY <1>7, <3>1, <3>2
  <2> QED BY <2>2, <2>3, <2>4, UnaskedTypes, PassGoTypes DEF PassTypeOK
<1>8. ASSUME NEW h \in PassHandler, PassFails(h) PROVE PassTypeOK'
  BY <1>8, UnaskedTypes, PassGoTypes DEF PassFails, PassTypeOK
<1>11. ASSUME NEW p \in Party, NEW new \in Password, UpdateUser(p, new) PROVE PassTypeOK'
  BY <1>11 DEF UpdateUser, PassTypeOK
<1>9. CASE UNCHANGED passVars
  BY <1>9 DEF passVars, PassTypeOK
<1> QED BY <1>1, <1>2, <1>3, <1>4, <1>5, <1>6, <1>7, <1>8, <1>9, <1>10, <1>11 DEF PassNext

LEMMA PassInitTypes == PassInit => PassTypeOK
<1> SUFFICES ASSUME PassInit PROVE PassTypeOK
  OBVIOUS
<1> USE PasswordsAssumption DEF PassInit
<1>1. /\ password \in Password
      /\ resetToken \in 0 .. MaxResetTokens /\ resetTokens \in 0 .. MaxResetTokens
      /\ posted \in SUBSET (1 .. MaxResetTokens) /\ mailbox \in SUBSET (1 .. MaxResetTokens)
  BY DEF Password
<1>3. resetOpen \in BOOLEAN /\ regained \in BOOLEAN
  BY Zenon
<1>2. /\ passStep \in [PassHandler -> {"idle", "set_token", "mail", "reset", "change"}]
      /\ passHeld \in [PassHandler -> PassHeld]
      /\ \A h \in PassHandler : passStep[h] = "idle"
  BY UnaskedTypes
<1> QED BY <1>1, <1>2, <1>3 DEF PassTypeOK

(* The types of the passwords module, for any number of requests.          *)
THEOREM PassTypeCorrect == PassSpec => []PassTypeOK
BY PassInitTypes, PassStepTypes, PTL DEF PassSpec

-----------------------------------------------------------------------------
(* What is inductive: after the owner's write nobody else's is in flight.  *)
OwnerAlone ==
    regained =>
        /\ password = "owner"
        /\ \A h \in PassHandler : passStep[h] = "change" => passHeld[h].by = "owner"

(* A request that begins, or ends without a write, is not somebody else's. *)
LEMMA OthersStayOut ==
    ASSUME PassTypeOK, OwnerAlone,
           NEW h \in PassHandler, NEW label, NEW v,
           label = "change" => v.by = "owner",
           PassGo(h, label, v), UNCHANGED <<password, regained>>
    PROVE  OwnerAlone'
<1> SUFFICES ASSUME regained', NEW g \in PassHandler, passStep'[g] = "change"
             PROVE  passHeld'[g].by = "owner"
  BY DEF OwnerAlone
<1>1. CASE g = h
  BY <1>1 DEF PassGo, PassTypeOK
<1>2. CASE g # h
  BY <1>2 DEF PassGo, PassTypeOK, OwnerAlone
<1> QED BY <1>1, <1>2

(* A write of the owner settles the account, or gives it up. *)
LEMMA SettledKeepsOthersOut ==
    ASSUME PassTypeOK, OwnerAlone, NEW h \in PassHandler,
           passStep[h] \in {"reset", "change"}, passStep[h] = "reset" => passHeld[h].by = "owner",
           Settled(h)
    PROVE  OwnerAlone'
<1> SUFFICES ASSUME regained'
             PROVE  /\ password' = "owner"
                    /\ \A g \in PassHandler : passStep'[g] = "change" => passHeld'[g].by = "owner"
  BY DEF OwnerAlone
<1>1. passHeld[h].by # "other"
  BY DEF Settled, OwnerAlone
<1>2. /\ password' = passHeld[h].new
      /\ passHeld[h].new = "owner"
      /\ \A g \in PassHandler : passStep[g] = "change" => passHeld[g].by = "owner"
  BY <1>1 DEF Settled
<1>3. passStep' = [passStep EXCEPT ![h] = "idle"] /\ passHeld' = [passHeld EXCEPT ![h] = Unasked]
  BY DEF Settled, PassGo
<1> QED BY <1>2, <1>3 DEF PassTypeOK

(* Only the owner's requests come from a reset token. *)
ResetsAreOwners == \A h \in PassHandler : passStep[h] = "reset" => passHeld[h].by = "owner"

LEMMA ResetsStayOwners ==
    ASSUME PassTypeOK, ResetsAreOwners,
           NEW h \in PassHandler, NEW label, NEW v,
           label = "reset" => v.by = "owner",
           PassGo(h, label, v)
    PROVE  ResetsAreOwners'
<1> SUFFICES ASSUME NEW g \in PassHandler, passStep'[g] = "reset" PROVE passHeld'[g].by = "owner"
  BY DEF ResetsAreOwners
<1>1. CASE g = h
  BY <1>1 DEF PassGo, PassTypeOK
<1>2. CASE g # h
  BY <1>2 DEF PassGo, PassTypeOK, ResetsAreOwners
<1> QED BY <1>1, <1>2

PassInv == PassTypeOK /\ ResetsAreOwners /\ OwnerAlone

LEMMA PassStepInv == PassInv /\ [PassNext]_passVars => ResetsAreOwners' /\ OwnerAlone'
<1> SUFFICES ASSUME PassInv, [PassNext]_passVars PROVE ResetsAreOwners' /\ OwnerAlone'
  OBVIOUS
<1> USE DEF PassInv
<1>1. ASSUME NEW h \in PassHandler, AskForgot(h) \/ PassFails(h) \/ MailReset(h)
      PROVE  ResetsAreOwners' /\ OwnerAlone'
  <2>1. /\ UNCHANGED <<password, regained>>
        /\ PassGo(h, "set_token", Unasked) \/ PassGo(h, "idle", Unasked)
    BY <1>1 DEF AskForgot, PassFails, MailReset
  <2> QED BY <2>1, OthersStayOut, ResetsStayOwners
<1>2. ASSUME NEW h \in PassHandler, SetResetToken(h) PROVE ResetsAreOwners' /\ OwnerAlone'
  <2> DEFINE v == [Unasked EXCEPT !.token = resetTokens']
  <2>1. UNCHANGED <<password, regained>> /\ PassGo(h, "mail", v)
    BY <1>2 DEF SetResetToken
  <2> HIDE DEF v
  <2> QED BY <2>1, OthersStayOut, ResetsStayOwners
<1>3. ASSUME ResetWindowEnds PROVE ResetsAreOwners' /\ OwnerAlone'
  BY <1>3 DEF ResetWindowEnds, ResetsAreOwners, OwnerAlone
<1>8. ASSUME NEW t \in posted, SendReset(t) \/ DropReset(t) PROVE ResetsAreOwners' /\ OwnerAlone'
  BY <1>8 DEF SendReset, DropReset, ResetsAreOwners, OwnerAlone
<1>4. ASSUME NEW h \in PassHandler, NEW t \in mailbox, NEW new \in Password, AskReset(h, t, new)
      PROVE  ResetsAreOwners' /\ OwnerAlone'
  <2> DEFINE v == [Unasked EXCEPT !.new = new]
  <2>1. v.by = "owner"
    BY UnaskedTypes
  <2>2. UNCHANGED <<password, regained>> /\ PassGo(h, "reset", v)
    BY <1>4 DEF AskReset
  <2> HIDE DEF v
  <2> QED BY <2>1, <2>2, OthersStayOut, ResetsStayOwners
<1>5. ASSUME NEW h \in PassHandler, NEW p \in Party, NEW new \in Password, AskChange(h, p, new)
      PROVE  ResetsAreOwners' /\ OwnerAlone'
  <2> DEFINE v == [by |-> p, new |-> new, token |-> 0]
  <2>1. v.by = p
    BY UnaskedTypes
  <2>2. UNCHANGED <<password, regained>> /\ PassGo(h, "change", v) /\ password \in {"shared", p}
    BY <1>5 DEF AskChange, Knows
  <2> HIDE DEF v
  <2>3. ResetsAreOwners'
    BY <2>2, ResetsStayOwners
  <2>4. CASE regained
    <3>1. p = "owner"
      BY <2>2, <2>4 DEF OwnerAlone, Party
    <3>2. OwnerAlone'
      BY <2>1, <2>2, <3>1, OthersStayOut
    <3> QED BY <2>3, <3>2
  <2>5. CASE ~regained
    <3>1. ~regained'
      BY <2>2, <2>5
    <3> QED BY <2>3, <3>1 DEF OwnerAlone
  <2> QED BY <2>3, <2>4, <2>5
<1>6. ASSUME NEW h \in PassHandler, WriteReset(h) \/ WriteChange(h)
      PROVE  ResetsAreOwners' /\ OwnerAlone'
  <2>1. passStep[h] \in {"reset", "change"} /\ Settled(h)
    BY <1>6 DEF WriteReset, WriteChange
  <2>2. PassGo(h, "idle", Unasked)
    BY <2>1 DEF Settled
  <2>3. OwnerAlone'
    BY <2>1, SettledKeepsOthersOut DEF ResetsAreOwners
  <2> QED BY <2>2, <2>3, ResetsStayOwners
<1>9. ASSUME NEW p \in Party, NEW new \in Password, UpdateUser(p, new)
      PROVE  ResetsAreOwners' /\ OwnerAlone'
  BY <1>9 DEF UpdateUser, ResetsAreOwners, OwnerAlone
<1>7. CASE UNCHANGED passVars
  BY <1>7 DEF passVars, ResetsAreOwners, OwnerAlone
<1> QED BY <1>1, <1>2, <1>3, <1>4, <1>5, <1>6, <1>7, <1>8, <1>9 DEF PassNext

(* An owner who has set a password of his own keeps the account, unless a  *)
(* change of the other's was past its comparison, or updateUser writes     *)
(* another.                                                                *)
THEOREM PassRegained == PassSpec => []ResetRegainsControl
<1>1. PassInit => PassInv
  BY PassInitTypes DEF PassInit, PassInv, ResetsAreOwners, OwnerAlone
<1>2. PassInv /\ [PassNext]_passVars => PassInv'
  BY PassStepTypes, PassStepInv DEF PassInv
<1>3. PassInv => ResetRegainsControl
  BY DEF PassInv, OwnerAlone, ResetRegainsControl
<1> QED BY <1>1, <1>2, <1>3, PTL DEF PassSpec

-----------------------------------------------------------------------------
(* OAuth. *)

CallbackStep == {"idle", "exchange", "profile", "login", "failed"}

CallbackHeld == [browser : Browser \cup {NoBrowser}, state : 0 .. MaxStates]

(* A callback that goes on from one await to the next, or ends, is typed.  *)
LEMMA CallbackTypes ==
    ASSUME OAuthTypeOK, NEW c \in Callback, NEW label \in CallbackStep, NEW v \in CallbackHeld,
           label # "idle" => v.browser \in Browser,
           label \in {"exchange", "profile", "login"} => v.state # 0,
           cbStep' = [cbStep EXCEPT ![c] = label],
           cbHeld'[c] = v, cbHeld' \in [Callback -> CallbackHeld],
           \A d \in Callback \ {c} : cbHeld'[d] = cbHeld[d]
    PROVE  /\ cbStep' \in [Callback -> CallbackStep]
           /\ \A d \in Callback :
                 /\ cbStep'[d] # "idle" => cbHeld'[d].browser \in Browser
                 /\ cbStep'[d] \in {"exchange", "profile", "login"} => cbHeld'[d].state # 0
<1>1. /\ cbStep \in [Callback -> CallbackStep]
      /\ \A d \in Callback :
            /\ cbStep[d] # "idle" => cbHeld[d].browser \in Browser
            /\ cbStep[d] \in {"exchange", "profile", "login"} => cbHeld[d].state # 0
  BY DEF OAuthTypeOK, CallbackStep
<1> QED BY <1>1 DEF CallbackStep

LEMMA OAuthStepTypes == OAuthTypeOK /\ [OAuthNext]_oauthVars => OAuthTypeOK'
<1> SUFFICES ASSUME OAuthTypeOK, [OAuthNext]_oauthVars PROVE OAuthTypeOK'
  OBVIOUS
<1> USE OAuthAssumption
<1>1. ASSUME NEW b \in Browser, GoogleStart(b) PROVE OAuthTypeOK'
  BY <1>1 DEF GoogleStart, OAuthTypeOK, State
<1>2. ASSUME NEW b \in Browser, CookieExpires(b) PROVE OAuthTypeOK'
  BY <1>2 DEF CookieExpires, OAuthTypeOK
<1>3. ASSUME NEW s \in State, Consent(s) PROVE OAuthTypeOK'
  BY <1>3 DEF Consent, OAuthTypeOK
<1>4. ASSUME NEW c \in Callback, NEW b \in Browser, NEW s \in 0 .. MaxStates, GoogleCallback(c, b, s)
      PROVE  OAuthTypeOK'
  <2> DEFINE label == IF Opens(b, s) THEN "exchange" ELSE "failed"
             v == [browser |-> b, state |-> s]
  <2>1. /\ label \in CallbackStep /\ v \in CallbackHeld /\ v.browser \in Browser
        /\ label \in {"exchange", "profile", "login"} => v.state # 0
    BY DEF CallbackStep, CallbackHeld, Opens
  <2>2. /\ cbStep' = [cbStep EXCEPT ![c] = label] /\ cbHeld' = [cbHeld EXCEPT ![c] = v]
        /\ UNCHANGED <<states, starter, cookie, consented, spent, signedIn>>
    BY <1>4 DEF GoogleCallback
  <2> HIDE DEF label, v
  <2>3. /\ cbHeld' \in [Callback -> CallbackHeld] /\ cbHeld'[c] = v
        /\ \A d \in Callback \ {c} : cbHeld'[d] = cbHeld[d]
    BY <2>1, <2>2 DEF OAuthTypeOK, CallbackHeld
  <2> QED BY <2>1, <2>2, <2>3, CallbackTypes DEF OAuthTypeOK, CallbackStep, CallbackHeld
<1>5. ASSUME NEW c \in Callback, ExchangeCode(c) \/ FetchProfile(c) \/ CallbackFails(c)
      PROVE  OAuthTypeOK'
  <2>1. /\ cbStep[c] \in {"exchange", "profile", "login"}
        /\ cbHeld[c] \in CallbackHeld /\ cbHeld[c].browser \in Browser /\ cbHeld[c].state # 0
    BY <1>5 DEF ExchangeCode, FetchProfile, CallbackFails, OAuthTypeOK, CallbackHeld
  <2>2. PICK label \in CallbackStep : cbStep' = [cbStep EXCEPT ![c] = label]
    BY <1>5 DEF ExchangeCode, FetchProfile, CallbackFails, CallbackStep
  <2>3. UNCHANGED <<states, starter, cookie, consented, cbHeld, signedIn>>
    BY <1>5 DEF ExchangeCode, FetchProfile, CallbackFails
  <2>4. spent' = spent \/ spent' = spent \cup {cbHeld[c].state}
    BY <1>5 DEF ExchangeCode, FetchProfile, CallbackFails
  <2>5. cbHeld[c].state \in State
    BY <2>1 DEF CallbackHeld, State
  <2>6. spent' \in SUBSET State
    BY <2>4, <2>5 DEF OAuthTypeOK
  <2> QED BY <2>1, <2>2, <2>3, <2>6, CallbackTypes DEF OAuthTypeOK, CallbackStep, CallbackHeld
<1>6. ASSUME NEW c \in Callback, Responds(c), signedIn' \in SUBSET (Browser \X State)
      PROVE  OAuthTypeOK'
  <2> DEFINE v == [browser |-> NoBrowser, state |-> 0]
  <2>1. v \in CallbackHeld /\ "idle" \in CallbackStep
    BY DEF CallbackHeld, CallbackStep
  <2>2. /\ cbStep' = [cbStep EXCEPT ![c] = "idle"] /\ cbHeld' = [cbHeld EXCEPT ![c] = v]
        /\ cookie' = [cookie EXCEPT ![cbHeld[c].browser] = 0]
        /\ UNCHANGED <<states, starter, consented, spent>>
    BY <1>6 DEF Responds
  <2> HIDE DEF v
  <2>3. /\ cbHeld' \in [Callback -> CallbackHeld] /\ cbHeld'[c] = v
        /\ \A d \in Callback \ {c} : cbHeld'[d] = cbHeld[d]
    BY <2>1, <2>2 DEF OAuthTypeOK, CallbackHeld
  <2>4. cookie' \in [Browser -> 0 .. MaxStates]
    <3>1. cookie \in [Browser -> 0 .. MaxStates] /\ 0 \in 0 .. MaxStates
      BY DEF OAuthTypeOK
    <3>2. cookie' = [cookie EXCEPT ![cbHeld[c].browser] = 0]
      BY <2>2
    <3> QED BY <3>1, <3>2, Zenon
  <2> QED BY <1>6, <2>1, <2>2, <2>3, <2>4, CallbackTypes DEF OAuthTypeOK, CallbackStep, CallbackHeld
<1>7. ASSUME NEW c \in Callback, HandTokens(c) PROVE OAuthTypeOK'
  <2>1. cbHeld[c].browser \in Browser /\ cbHeld[c].state \in State
    BY <1>7 DEF HandTokens, OAuthTypeOK, State
  <2>2. Responds(c) /\ signedIn' \in SUBSET (Browser \X State)
    BY <1>7, <2>1 DEF HandTokens, OAuthTypeOK
  <2> QED BY <1>6, <2>2
<1>8. ASSUME NEW c \in Callback, RedirectFailed(c) PROVE OAuthTypeOK'
  BY <1>6, <1>8 DEF RedirectFailed, OAuthTypeOK
<1>9. CASE UNCHANGED oauthVars
  BY <1>9 DEF oauthVars, OAuthTypeOK
<1> QED BY <1>1, <1>2, <1>3, <1>4, <1>5, <1>7, <1>8, <1>9 DEF OAuthNext

LEMMA OAuthInitTypes == OAuthInit => OAuthTypeOK
BY OAuthAssumption DEF OAuthInit, OAuthTypeOK

(* The types of the sign-in with Google, for any number of callbacks.      *)
THEOREM OAuthTypeCorrect == OAuthSpec => []OAuthTypeOK
BY OAuthInitTypes, OAuthStepTypes, PTL DEF OAuthSpec

(* What is inductive: a cookie, and a callback past the comparison, have a *)
(* state that was made for this browser; and a code that was exchanged is  *)
(* with one callback, or its tokens are out.                               *)
CookieIsOwn ==
    \A b \in Browser : cookie[b] # 0 => cookie[b] <= states /\ starter[cookie[b]] = b

CallbackIsOwn ==
    \A c \in Callback : cbStep[c] \in {"exchange", "profile", "login"} =>
        cbHeld[c].state <= states /\ starter[cbHeld[c].state] = cbHeld[c].browser

Exchanged(c) == cbStep[c] \in {"profile", "login"}

CodeIsSpent ==
    /\ \A c \in Callback : Exchanged(c) => cbHeld[c].state \in spent
    /\ \A e \in signedIn : e[2] \in spent

OAuthInv == OAuthTypeOK /\ CookieIsOwn /\ CallbackIsOwn /\ CodeIsSpent /\ OAuthSignInWasStarted

(* A callback that goes on with what it has, or ends without tokens. *)
LEMMA CallbackGoes ==
    ASSUME OAuthInv, OAuthTypeOK', NEW c \in Callback, NEW label,
           cbStep' = [cbStep EXCEPT ![c] = label],
           label \in {"exchange", "profile", "login"} =>
               /\ cbHeld'[c].state <= states /\ starter[cbHeld'[c].state] = cbHeld'[c].browser,
           label \in {"profile", "login"} =>
               /\ cbHeld'[c].state \in spent'
               /\ cbHeld'[c].state \notin spent \/ (Exchanged(c) /\ cbHeld'[c] = cbHeld[c]),
           \A d \in Callback \ {c} : cbHeld'[d] = cbHeld[d],
           spent \subseteq spent',
           \A b \in Browser : cookie'[b] \in {0, cookie[b]},
           UNCHANGED <<states, starter, signedIn>>
    PROVE  OAuthInv'
<1> USE DEF OAuthInv
<1>1. CookieIsOwn'
  BY DEF CookieIsOwn
<1>2. /\ cbStep'[c] = label
      /\ \A d \in Callback \ {c} : cbStep'[d] = cbStep[d] /\ cbHeld'[d] = cbHeld[d]
  BY DEF OAuthTypeOK
<1>3. CallbackIsOwn'
  BY <1>2 DEF CallbackIsOwn
<1>4. CodeIsSpent'
  BY <1>2 DEF CodeIsSpent, Exchanged
<1>5. \A d \in Callback \ {c} :
         Exchanged(c)' /\ Exchanged(d)' => cbHeld'[c].state # cbHeld'[d].state
  BY <1>2 DEF CodeIsSpent, Exchanged, OAuthSignInWasStarted
<1>6. Exchanged(c)' => \A b \in Browser : <<b, cbHeld'[c].state>> \notin signedIn
  <2> SUFFICES ASSUME Exchanged(c)', NEW b \in Browser, <<b, cbHeld'[c].state>> \in signedIn
               PROVE  FALSE
    OBVIOUS
  <2>1. cbHeld'[c].state \in spent
    BY DEF CodeIsSpent
  <2>2. Exchanged(c) /\ cbHeld'[c] = cbHeld[c]
    BY <1>2, <2>1 DEF Exchanged
  <2> QED BY <2>2 DEF Exchanged, OAuthSignInWasStarted
<1>7. OAuthSignInWasStarted'
  BY <1>2, <1>5, <1>6 DEF OAuthSignInWasStarted, Exchanged
<1> QED BY <1>1, <1>3, <1>4, <1>7

LEMMA OAuthStep == OAuthInv /\ [OAuthNext]_oauthVars => OAuthInv'
<1> SUFFICES ASSUME OAuthInv, [OAuthNext]_oauthVars PROVE OAuthInv'
  OBVIOUS
<1>0. OAuthTypeOK /\ OAuthTypeOK'
  BY OAuthStepTypes DEF OAuthInv
<1> USE DEF OAuthInv
<1>1. ASSUME NEW b \in Browser, GoogleStart(b) PROVE OAuthInv'
  <2>1. /\ states \in Nat /\ states' = states + 1 /\ states' \in State
        /\ starter' = [starter EXCEPT ![states'] = b]
        /\ cookie' = [cookie EXCEPT ![b] = states']
        /\ UNCHANGED <<consented, spent, cbStep, cbHeld, signedIn>>
    BY <1>0, <1>1, OAuthAssumption DEF GoogleStart, OAuthTypeOK, State
  <2>2. /\ starter'[states'] = b
        /\ \A s \in State : s <= states => starter'[s] = starter[s] /\ s <= states'
    BY <1>0, <2>1 DEF OAuthTypeOK, State
  <2>3. CookieIsOwn'
    BY <1>0, <2>1, <2>2, OAuthAssumption DEF CookieIsOwn, OAuthTypeOK, State
  <2>4. \A c \in Callback : cbStep[c] \in {"exchange", "profile", "login"} => cbHeld[c].state \in State
    BY <1>0 DEF OAuthTypeOK, State
  <2>5. CallbackIsOwn' /\ CodeIsSpent'
    BY <2>1, <2>2, <2>4 DEF CallbackIsOwn, CodeIsSpent, Exchanged
  <2>6. \A e \in signedIn : e[2] \in State
    BY <1>0 DEF OAuthTypeOK
  <2>7. OAuthSignInWasStarted'
    BY <2>1, <2>2, <2>6 DEF OAuthSignInWasStarted
  <2> QED BY <1>0, <2>3, <2>5, <2>7
<1>2. ASSUME NEW b \in Browser, CookieExpires(b) PROVE OAuthInv'
  BY <1>0, <1>2
  DEF CookieExpires, CookieIsOwn, CallbackIsOwn, CodeIsSpent, Exchanged, OAuthSignInWasStarted,
      OAuthTypeOK
<1>3. ASSUME NEW s \in State, Consent(s) PROVE OAuthInv'
  BY <1>0, <1>3
  DEF Consent, CookieIsOwn, CallbackIsOwn, CodeIsSpent, Exchanged, OAuthSignInWasStarted
<1>4. ASSUME NEW c \in Callback, NEW b \in Browser, NEW s \in 0 .. MaxStates, GoogleCallback(c, b, s)
      PROVE  OAuthInv'
  <2>1. /\ cbStep' = [cbStep EXCEPT ![c] = IF Opens(b, s) THEN "exchange" ELSE "failed"]
        /\ cbHeld' = [cbHeld EXCEPT ![c] = [browser |-> b, state |-> s]]
        /\ UNCHANGED <<states, starter, cookie, consented, spent, signedIn>>
    BY <1>4 DEF GoogleCallback
  <2>2. /\ cbHeld'[c].state = s /\ cbHeld'[c].browser = b
        /\ \A d \in Callback \ {c} : cbHeld'[d] = cbHeld[d]
    BY <1>0, <2>1 DEF OAuthTypeOK
  <2>3. Opens(b, s) => s <= states /\ starter[s] = b
    BY DEF Opens, CookieIsOwn
  <2> QED BY <1>0, <2>1, <2>2, <2>3, CallbackGoes
<1>5. ASSUME NEW c \in Callback, ExchangeCode(c) PROVE OAuthInv'
  <2>1. /\ cbStep[c] = "exchange"
        /\ cbHeld[c].state <= states /\ starter[cbHeld[c].state] = cbHeld[c].browser
        /\ UNCHANGED <<states, starter, cookie, cbHeld, signedIn>>
    BY <1>5 DEF ExchangeCode, CallbackIsOwn
  <2>2. CASE cbHeld[c].state \in spent
    <3>1. cbStep' = [cbStep EXCEPT ![c] = "failed"] /\ UNCHANGED spent
      BY <1>5, <2>2 DEF ExchangeCode
    <3> QED BY <1>0, <2>1, <3>1, CallbackGoes
  <2>3. CASE cbHeld[c].state \notin spent
    <3>1. cbStep' = [cbStep EXCEPT ![c] = "profile"] /\ spent' = spent \cup {cbHeld[c].state}
      BY <1>5, <2>3 DEF ExchangeCode
    <3> QED BY <1>0, <2>1, <2>3, <3>1, CallbackGoes
  <2> QED BY <2>2, <2>3
<1>6. ASSUME NEW c \in Callback, FetchProfile(c) \/ CallbackFails(c) PROVE OAuthInv'
  <2>1. UNCHANGED <<states, starter, cookie, spent, cbHeld, signedIn>>
    BY <1>6 DEF FetchProfile, CallbackFails
  <2>2. CASE FetchProfile(c)
    <3>1. cbStep[c] = "profile" /\ cbStep' = [cbStep EXCEPT ![c] = "login"]
      BY <2>2 DEF FetchProfile
    <3>2. /\ cbHeld[c].state <= states /\ starter[cbHeld[c].state] = cbHeld[c].browser
          /\ Exchanged(c) /\ cbHeld[c].state \in spent
      BY <3>1 DEF CallbackIsOwn, CodeIsSpent, Exchanged
    <3> QED BY <1>0, <2>1, <3>1, <3>2, CallbackGoes
  <2>3. CASE CallbackFails(c)
    <3>1. cbStep' = [cbStep EXCEPT ![c] = "failed"]
      BY <2>3 DEF CallbackFails
    <3> QED BY <1>0, <2>1, <3>1, CallbackGoes
  <2> QED BY <1>6, <2>2, <2>3
<1>7. ASSUME NEW c \in Callback, HandTokens(c) PROVE OAuthInv'
  <2> DEFINE s == cbHeld[c].state
             b == cbHeld[c].browser
  <2>1. /\ Exchanged(c) /\ cbStep[c] = "login" /\ b \in Browser /\ s \in State
        /\ signedIn' = signedIn \cup {<<b, s>>}
        /\ cookie' = [cookie EXCEPT ![b] = 0]
        /\ cbStep' = [cbStep EXCEPT ![c] = "idle"]
        /\ cbHeld' = [cbHeld EXCEPT ![c] = [browser |-> NoBrowser, state |-> 0]]
        /\ UNCHANGED <<states, starter, consented, spent>>
    BY <1>0, <1>7 DEF HandTokens, Responds, Exchanged, OAuthTypeOK, State
  <2>2. s <= states /\ starter[s] = b /\ s \in spent
    BY <2>1 DEF CallbackIsOwn, CodeIsSpent
  <2>3. \A d \in Callback :
           cbStep'[d] # "idle" => d # c /\ cbStep'[d] = cbStep[d] /\ cbHeld'[d] = cbHeld[d]
    BY <1>0, <2>1 DEF OAuthTypeOK
  <2>4. \A d \in Callback \ {c} : Exchanged(d) => cbHeld[d].state # s
    BY <2>1 DEF OAuthSignInWasStarted, Exchanged
  <2> HIDE DEF s, b
  <2>5. CookieIsOwn'
    BY <1>0, <2>1 DEF CookieIsOwn, OAuthTypeOK
  <2>6. CallbackIsOwn' /\ CodeIsSpent'
    BY <2>1, <2>2, <2>3 DEF CallbackIsOwn, CodeIsSpent, Exchanged
  <2>7. OAuthSignInWasStarted'
    <3>1. \A e \in signedIn' : e[2] <= states' /\ starter'[e[2]] = e[1]
      BY <2>1, <2>2 DEF OAuthSignInWasStarted
    <3>2. \A d, e \in Callback :
             d # e /\ Exchanged(d)' /\ Exchanged(e)' => cbHeld'[d].state # cbHeld'[e].state
      BY <2>3 DEF OAuthSignInWasStarted, Exchanged
    <3>3. \A d \in Callback : Exchanged(d)' => \A a \in Browser : <<a, cbHeld'[d].state>> \notin signedIn'
      BY <2>1, <2>3, <2>4 DEF OAuthSignInWasStarted, Exchanged
    <3> QED BY <3>1, <3>2, <3>3 DEF OAuthSignInWasStarted, Exchanged
  <2> QED BY <1>0, <2>5, <2>6, <2>7
<1>8. ASSUME NEW c \in Callback, RedirectFailed(c) PROVE OAuthInv'
  <2>1. /\ cbStep' = [cbStep EXCEPT ![c] = "idle"]
        /\ cbHeld' = [cbHeld EXCEPT ![c] = [browser |-> NoBrowser, state |-> 0]]
        /\ cookie' = [cookie EXCEPT ![cbHeld[c].browser] = 0]
        /\ UNCHANGED <<states, starter, spent, signedIn>>
    BY <1>8 DEF RedirectFailed, Responds
  <2>2. /\ \A d \in Callback \ {c} : cbHeld'[d] = cbHeld[d]
        /\ \A b \in Browser : cookie'[b] \in {0, cookie[b]}
    BY <1>0, <2>1 DEF OAuthTypeOK
  <2> QED BY <1>0, <2>1, <2>2, CallbackGoes
<1>9. CASE UNCHANGED oauthVars
  BY <1>0, <1>9
  DEF oauthVars, CookieIsOwn, CallbackIsOwn, CodeIsSpent, Exchanged, OAuthSignInWasStarted
<1> QED BY <1>1, <1>2, <1>3, <1>4, <1>5, <1>6, <1>7, <1>8, <1>9 DEF OAuthNext

(* Tokens go to the browser that started the sign-in, once for each, for   *)
(* any number of browsers, tabs and callbacks opened again.                *)
THEOREM OAuthTokensGoHome == OAuthSpec => []OAuthSignInWasStarted
<1>1. OAuthInit => OAuthInv
  BY OAuthInitTypes
  DEF OAuthInit, OAuthInv, CookieIsOwn, CallbackIsOwn, CodeIsSpent, Exchanged, OAuthSignInWasStarted
<1>2. OAuthInv => OAuthSignInWasStarted
  BY DEF OAuthInv
<1> QED BY <1>1, <1>2, OAuthStep, PTL DEF OAuthSpec

-----------------------------------------------------------------------------
(* Requests.  No handler that uses the user without another look is        *)
(* public: shown of each resolver and controller, and of all of them       *)
(* together.                                                               *)

UsersAreAsked(ops) == \A o \in ops : o.name \in UsesUser => o.need # "public"

LEMMA AskedTogether ==
    ASSUME NEW f, NEW g, UsersAreAsked(f), UsersAreAsked(g)
    PROVE  UsersAreAsked(f \cup g)
  BY DEF UsersAreAsked

LEMMA AskedByNeed ==
    ASSUME NEW k, NEW need, NEW names, need # "public" \/ names \cap UsesUser = {}
    PROVE  UsersAreAsked(Ops(k, need, names))
  BY DEF UsersAreAsked, Ops

LEMMA AllAreAsked == UsersAreAsked(Operations)
<1>1. UsersAreAsked(UsersResolver)
  BY AskedTogether, AskedByNeed DEF UsersResolver
<1>2. UsersAreAsked(RolesResolver)
  BY AskedTogether, AskedByNeed DEF RolesResolver
<1>3. UsersAreAsked(CampaignsResolver)
  BY AskedTogether, AskedByNeed DEF CampaignsResolver
<1>4. UsersAreAsked(NewsletterResolver)
  BY AskedTogether, AskedByNeed DEF NewsletterResolver
<1>5. UsersAreAsked(NotificationsResolver)
  BY AskedTogether, AskedByNeed DEF NotificationsResolver
<1>6. UsersAreAsked(StorageResolver)
  BY AskedTogether, AskedByNeed DEF StorageResolver
<1>7. UsersAreAsked(VisitorsResolver)
  <2>1. {"trackPageView"} \cap UsesUser = {}
    BY DEF UsesUser
  <2> QED
    BY <2>1, AskedTogether, AskedByNeed DEF VisitorsResolver
<1>8. UsersAreAsked(AuthResolver)
  <2>1. {"registerUser", "verifyEmail", "forgotPassword", "resetPassword", "resendVerification"}
          \cap UsesUser = {}
    BY DEF UsesUser
  <2> QED
    BY <2>1, AskedTogether, AskedByNeed DEF AuthResolver
<1>9. UsersAreAsked(PermissionsResolver)
  BY AskedByNeed DEF PermissionsResolver
<1>10. UsersAreAsked(LocaleResolver)
  <2>1. {"getSupportedLocales"} \cap UsesUser = {}
    BY DEF UsesUser
  <2> QED
    BY <2>1, AskedByNeed DEF LocaleResolver
<1>11. UsersAreAsked(AuthController)
  <2>1. {"auth/register", "auth/google", "auth/google/callback", "auth/verify-email",
         "auth/resend-verification", "auth/forgot-password", "auth/reset-password",
         "auth/login", "auth/refresh", "auth/logout"} \cap UsesUser = {}
    BY DEF UsesUser
  <2> QED
    BY <2>1, AskedTogether, AskedByNeed DEF AuthController
<1>12. UsersAreAsked(StorageController)
  BY AskedByNeed DEF StorageController
<1>13. UsersAreAsked(HealthController) /\ UsersAreAsked(AppController)
  <2>1. {"health"} \cap UsesUser = {} /\ {"getHello"} \cap UsesUser = {}
    BY DEF UsesUser
  <2> QED
    BY <2>1, AskedByNeed DEF HealthController, AppController
<1> QED
  BY <1>1, <1>2, <1>3, <1>4, <1>5, <1>6, <1>7, <1>8, <1>9, <1>10, <1>11, <1>12, <1>13,
     AskedTogether DEF Operations

(* So a public handler has no use for the user it may not have. *)
LEMMA TaskFacts == \A t \in Tasks \cup {NoTask} : t.usesUser => t.need # "public"
<1>1. ASSUME NEW o \in Operations, Task(o).usesUser
      PROVE  Task(o).need # "public"
  BY <1>1, AllAreAsked DEF UsersAreAsked, Task
<1> QED
  BY <1>1 DEF Tasks, NoTask

LEMMA ReqStart == ReqInit => ReqTypeOK
<1> SUFFICES ASSUME ReqInit PROVE ReqTypeOK
  OBVIOUS
<1>1. person \in [Person -> [active : BOOLEAN, role : {"ADMIN", "USER"}]]
  BY DEF ReqInit
<1>2. /\ together \in BOOLEAN
      /\ kind \in [Field -> {"query", "mutation", "rest"}]
      /\ bearer \in [Field -> Person \cup {NoPerson}]
      /\ task \in [Field -> Tasks \cup {NoTask}]
      /\ gate \in [Field -> {"idle", "auth", "permission", "run"}]
      /\ reqUser \in [Field -> Loaded \cup {NoPerson}]
      /\ context \in [Field -> Loaded \cup {NoPerson}]
      /\ vouched \in [Field -> Person \cup {NoPerson}]
  BY DEF ReqInit
<1> QED
  BY <1>1, <1>2 DEF ReqInit, ReqTypeOK

(* A handler begins, or a field is over. *)
LEMMA RunLeaveTypes ==
    ASSUME ReqTypeOK, NEW f \in Field
    PROVE  /\ \A user \in Loaded \cup {NoPerson} : RunIn(f, user) =>
                 /\ gate' \in [Field -> {"idle", "auth", "permission", "run"}]
                 /\ \A g \in Field : gate'[g] = IF g = f THEN "run" ELSE gate[g]
                 /\ context' \in [Field -> Loaded \cup {NoPerson}]
                 /\ \A g \in Field : context'[g] = IF g = f THEN user ELSE context[g]
           /\ Leave(f) =>
                 /\ gate' \in [Field -> {"idle", "auth", "permission", "run"}]
                 /\ \A g \in Field : gate'[g] = IF g = f THEN "idle" ELSE gate[g]
                 /\ task' \in [Field -> Tasks \cup {NoTask}]
                 /\ \A g \in Field : task'[g] = IF g = f THEN NoTask ELSE task[g]
                 /\ context' \in [Field -> Loaded \cup {NoPerson}]
                 /\ \A g \in Field : context'[g] = IF g = f THEN NoPerson ELSE context[g]
<1>1. /\ gate \in [Field -> {"idle", "auth", "permission", "run"}]
      /\ task \in [Field -> Tasks \cup {NoTask}]
      /\ context \in [Field -> Loaded \cup {NoPerson}]
  BY DEF ReqTypeOK
<1>2. ASSUME NEW user \in Loaded \cup {NoPerson}, RunIn(f, user)
      PROVE  /\ gate' \in [Field -> {"idle", "auth", "permission", "run"}]
             /\ \A g \in Field : gate'[g] = IF g = f THEN "run" ELSE gate[g]
             /\ context' \in [Field -> Loaded \cup {NoPerson}]
             /\ \A g \in Field : context'[g] = IF g = f THEN user ELSE context[g]
  BY <1>1, <1>2 DEF RunIn
<1>3. ASSUME Leave(f)
      PROVE  /\ gate' \in [Field -> {"idle", "auth", "permission", "run"}]
             /\ \A g \in Field : gate'[g] = IF g = f THEN "idle" ELSE gate[g]
             /\ task' \in [Field -> Tasks \cup {NoTask}]
             /\ \A g \in Field : task'[g] = IF g = f THEN NoTask ELSE task[g]
             /\ context' \in [Field -> Loaded \cup {NoPerson}]
             /\ \A g \in Field : context'[g] = IF g = f THEN NoPerson ELSE context[g]
  BY <1>1, <1>3 DEF Leave
<1> QED
  BY <1>2, <1>3

(* What Authenticate does, by its outcome. *)
LEMMA Authenticated ==
    ASSUME ReqTypeOK, NEW f \in Field, Authenticate(f)
    PROVE  /\ UNCHANGED <<person, together, kind, bearer>>
           /\ \/ Leave(f) /\ UNCHANGED <<reqUser, vouched>>
              \/ \E user \in Loaded :
                    /\ user.id = bearer[f] /\ bearer[f] \in Person
                    /\ reqUser' = [g \in Field |-> IF g \in Siblings(f) THEN user ELSE reqUser[g]]
                    /\ vouched' = [vouched EXCEPT ![f] = bearer[f]]
                    /\ UNCHANGED task
                    /\ \/ RunIn(f, user)
                       \/ /\ gate' = [gate EXCEPT ![f] = "permission"]
                          /\ UNCHANGED context
<1> DEFINE p == bearer[f]
           user == [id |-> p, role |-> person[p].role]
<1>1. p \in Person /\ user \in Loaded /\ user.id = p
  BY DEF Authenticate, Loaded, ReqTypeOK
<1> QED
  BY <1>1 DEF Authenticate

LEMMA ReqTypes == ReqTypeOK /\ [ReqNext]_reqVars => ReqTypeOK'
<1> SUFFICES ASSUME ReqTypeOK, [ReqNext]_reqVars PROVE ReqTypeOK'
  OBVIOUS
<1>0. /\ together \in BOOLEAN
      /\ person \in [Person -> [active : BOOLEAN, role : {"ADMIN", "USER"}]]
      /\ kind \in [Field -> {"query", "mutation", "rest"}]
      /\ bearer \in [Field -> Person \cup {NoPerson}]
      /\ task \in [Field -> Tasks \cup {NoTask}]
      /\ gate \in [Field -> {"idle", "auth", "permission", "run"}]
      /\ \A f \in Field : gate[f] = "auth" => bearer[f] \in Person
      /\ reqUser \in [Field -> Loaded \cup {NoPerson}]
      /\ context \in [Field -> Loaded \cup {NoPerson}]
      /\ vouched \in [Field -> Person \cup {NoPerson}]
  BY DEF ReqTypeOK
<1>1. ASSUME NEW k \in {"query", "mutation"}, NEW b \in Person \cup {NoPerson}, NextDocument(k, b)
      PROVE  ReqTypeOK'
  BY <1>0, <1>1 DEF NextDocument, ReqTypeOK
<1>2. ASSUME NEW f \in Field, NEW k \in {"query", "mutation", "rest"},
             NEW b \in Person \cup {NoPerson}, NextRequest(f, k, b)
      PROVE  ReqTypeOK'
  <2>1. gate[f] = "idle"
    BY <1>2 DEF NextRequest, Siblings
  <2>2. \A g \in Field : gate'[g] = "auth" => bearer'[g] \in Person
    BY <1>0, <1>2, <2>1 DEF NextRequest
  <2>3. /\ kind' \in [Field -> {"query", "mutation", "rest"}]
        /\ bearer' \in [Field -> Person \cup {NoPerson}]
        /\ reqUser' \in [Field -> Loaded \cup {NoPerson}]
        /\ vouched' \in [Field -> Person \cup {NoPerson}]
    BY <1>0, <1>2 DEF NextRequest
  <2> QED
    BY <1>0, <1>2, <2>2, <2>3 DEF NextRequest, ReqTypeOK
<1>3. ASSUME NEW f \in Field, NEW t \in Tasks, Call(f, t)
      PROVE  ReqTypeOK'
  <2>1. /\ task' \in [Field -> Tasks \cup {NoTask}]
        /\ gate' \in [Field -> {"idle", "auth", "permission", "run"}]
        /\ context' \in [Field -> Loaded \cup {NoPerson}]
        /\ vouched' \in [Field -> Person \cup {NoPerson}]
    BY <1>0, <1>3 DEF Call
  <2>2. \A g \in Field : gate'[g] = "auth" => bearer'[g] \in Person
    BY <1>0, <1>3 DEF Call
  <2> QED
    BY <1>0, <1>3, <2>1, <2>2 DEF Call, ReqTypeOK
<1>4. ASSUME NEW f \in Field, Authenticate(f)
      PROVE  ReqTypeOK'
  <2>1. CASE Leave(f) /\ UNCHANGED <<reqUser, vouched>>
    BY <1>0, <1>4, <2>1, Authenticated, RunLeaveTypes DEF ReqTypeOK
  <2>2. ASSUME NEW user \in Loaded, bearer[f] \in Person,
               reqUser' = [g \in Field |-> IF g \in Siblings(f) THEN user ELSE reqUser[g]],
               vouched' = [vouched EXCEPT ![f] = bearer[f]],
               UNCHANGED task,
               RunIn(f, user) \/ (gate' = [gate EXCEPT ![f] = "permission"] /\ UNCHANGED context)
        PROVE  ReqTypeOK'
    <3>1. /\ reqUser' \in [Field -> Loaded \cup {NoPerson}]
          /\ vouched' \in [Field -> Person \cup {NoPerson}]
      BY <1>0, <2>2
    <3>2. /\ gate' \in [Field -> {"idle", "auth", "permission", "run"}]
          /\ context' \in [Field -> Loaded \cup {NoPerson}]
          /\ \A g \in Field : gate'[g] = "auth" => gate[g] = "auth"
      BY <1>0, <2>2, RunLeaveTypes
    <3> QED
      BY <1>0, <1>4, <2>2, <3>1, <3>2, Authenticated DEF ReqTypeOK
  <2> QED
    BY <1>4, <2>1, <2>2, Authenticated
<1>5. ASSUME NEW f \in Field, NEW allowed \in BOOLEAN, CheckPermission(f, allowed)
      PROVE  ReqTypeOK'
  <2>1. reqUser[f] \in Loaded \cup {NoPerson}
    BY <1>0
  <2>2. CASE allowed
    BY <1>0, <1>5, <2>1, <2>2, RunLeaveTypes DEF CheckPermission, ReqTypeOK
  <2>3. CASE ~allowed
    BY <1>0, <1>5, <2>3, RunLeaveTypes DEF CheckPermission, ReqTypeOK
  <2> QED
    BY <2>2, <2>3
<1>6. ASSUME NEW f \in Field, Finish(f)
      PROVE  ReqTypeOK'
  BY <1>0, <1>6, RunLeaveTypes DEF Finish, ReqTypeOK
<1>7. ASSUME NEW p \in Person, NEW v \in [active : BOOLEAN, role : {"ADMIN", "USER"}],
             PersonChanges(p, v)
      PROVE  ReqTypeOK'
  BY <1>0, <1>7 DEF PersonChanges, ReqTypeOK
<1>8. CASE UNCHANGED reqVars
  BY <1>8 DEF reqVars, ReqTypeOK
<1> QED
  BY <1>1, <1>2, <1>3, <1>4, <1>5, <1>6, <1>7, <1>8 DEF ReqNext

(* The types. *)
THEOREM ReqTypesHold == ReqSpec => []ReqTypeOK
  BY ReqStart, ReqTypes, PTL DEF ReqSpec

(* One field: what req.user holds is the user of the request's own token,  *)
(* and the guards of this very field have put it there by the time that    *)
(* they ask for a permission.  A later field may load the user again, with *)
(* another role, but never another user.                                   *)
OwnUser(f) ==
    /\ reqUser[f] # NoPerson => reqUser[f].id = bearer[f]
    /\ gate[f] = "permission" => reqUser[f] # NoPerson /\ vouched[f] = bearer[f]

RunsAsOwn(f) ==
    gate[f] = "run" =>
        /\ context[f] # NoPerson => context[f].id = bearer[f]
        /\ task[f].usesUser \/ task[f].need # "public" =>
              context[f] # NoPerson /\ vouched[f] = context[f].id
        /\ kind[f] = "rest" /\ task[f].need = "public" => context[f] = NoPerson

NeedsUser(f) == gate[f] \in {"auth", "permission"} => task[f].need # "public"

Guarded(f) == OwnUser(f) /\ RunsAsOwn(f) /\ NeedsUser(f)

ReqInv ==
    /\ together => \A f, g \in Field : bearer[f] = bearer[g]
    /\ \A f \in Field : Guarded(f)

(* A field of which nothing changes but perhaps req.user, to the same user. *)
LEMMA Untouched ==
    ASSUME NEW f \in Field, Guarded(f),
           gate'[f] = gate[f], kind'[f] = kind[f], bearer'[f] = bearer[f], task'[f] = task[f],
           context'[f] = context[f], vouched'[f] = vouched[f],
           \/ reqUser'[f] = reqUser[f]
           \/ reqUser'[f] # NoPerson /\ reqUser'[f].id = bearer[f]
    PROVE  Guarded(f)'
  BY DEF Guarded, OwnUser, RunsAsOwn, NeedsUser

LEMMA ReqInvNext == ReqTypeOK /\ ReqInv /\ [ReqNext]_reqVars => ReqInv'
<1> SUFFICES ASSUME ReqTypeOK, ReqInv, [ReqNext]_reqVars PROVE ReqInv'
  OBVIOUS
<1>0. /\ kind \in [Field -> {"query", "mutation", "rest"}]
      /\ bearer \in [Field -> Person \cup {NoPerson}]
      /\ task \in [Field -> Tasks \cup {NoTask}]
      /\ gate \in [Field -> {"idle", "auth", "permission", "run"}]
      /\ reqUser \in [Field -> Loaded \cup {NoPerson}]
      /\ context \in [Field -> Loaded \cup {NoPerson}]
      /\ vouched \in [Field -> Person \cup {NoPerson}]
  BY DEF ReqTypeOK
<1>1. \A f \in Field : Guarded(f)
  BY DEF ReqInv
<1>2. \A u \in Loaded : u # NoPerson
  BY RequestsAssumption DEF Loaded
<1>3. \A f \in Field : task[f].usesUser => task[f].need # "public"
  BY <1>0, TaskFacts
<1>4. ASSUME UNCHANGED <<together, bearer>>, \A g \in Field : Guarded(g)'
      PROVE  ReqInv'
  BY <1>4 DEF ReqInv
<1>5. ASSUME NEW k \in {"query", "mutation"}, NEW b \in Person \cup {NoPerson}, NextDocument(k, b)
      PROVE  ReqInv'
  <2>1. \A f \in Field : gate'[f] = "idle" /\ reqUser'[f] = NoPerson
    BY <1>5 DEF NextDocument
  <2>2. \A f \in Field : Guarded(f)'
    BY <2>1 DEF Guarded, OwnUser, RunsAsOwn, NeedsUser
  <2> QED
    BY <1>5, <2>2 DEF NextDocument, ReqInv
<1>6. ASSUME NEW f \in Field, NEW k \in {"query", "mutation", "rest"},
             NEW b \in Person \cup {NoPerson}, NextRequest(f, k, b)
      PROVE  ReqInv'
  <2>1. gate'[f] = "idle" /\ reqUser'[f] = NoPerson
    BY <1>0, <1>6 DEF NextRequest, Siblings
  <2>2. ASSUME NEW g \in Field PROVE Guarded(g)'
    <3>1. CASE g = f
      BY <2>1, <3>1 DEF Guarded, OwnUser, RunsAsOwn, NeedsUser
    <3>2. CASE g # f
      <4>1. /\ gate'[g] = gate[g] /\ kind'[g] = kind[g] /\ bearer'[g] = bearer[g]
            /\ task'[g] = task[g] /\ context'[g] = context[g] /\ vouched'[g] = vouched[g]
            /\ reqUser'[g] = reqUser[g]
        BY <1>0, <1>6, <3>2 DEF NextRequest
      <4> QED
        BY <1>1, <4>1, Untouched
    <3> QED
      BY <3>1, <3>2
  <2> QED
    BY <1>6, <2>2 DEF NextRequest, ReqInv
<1>7. ASSUME NEW f \in Field, NEW t \in Tasks, Call(f, t)
      PROVE  ReqInv'
  <2>1. ASSUME NEW g \in Field PROVE Guarded(g)'
    <3>1. CASE g = f
      <4>1. /\ gate'[f] \in {"run", "auth"}
            /\ gate'[f] = "run" =>
                 /\ t.need = "public" /\ context'[f] = reqUser[f]
                 /\ kind[f] = "rest" => reqUser[f] = NoPerson
            /\ gate'[f] = "auth" => t.need # "public"
            /\ task'[f] = t /\ kind'[f] = kind[f] /\ bearer'[f] = bearer[f]
            /\ reqUser'[f] = reqUser[f]
        BY <1>0, <1>7 DEF Call
      <4>2. t.usesUser => t.need # "public"
        BY TaskFacts
      <4>3. reqUser[f] # NoPerson => reqUser[f].id = bearer[f]
        BY <1>1 DEF Guarded, OwnUser
      <4> QED
        BY <3>1, <4>1, <4>2, <4>3 DEF Guarded, OwnUser, RunsAsOwn, NeedsUser
    <3>2. CASE g # f
      <4>1. /\ gate'[g] = gate[g] /\ kind'[g] = kind[g] /\ bearer'[g] = bearer[g]
            /\ task'[g] = task[g] /\ context'[g] = context[g] /\ vouched'[g] = vouched[g]
            /\ reqUser'[g] = reqUser[g]
        BY <1>0, <1>7, <3>2 DEF Call
      <4> QED
        BY <1>1, <4>1, Untouched
    <3> QED
      BY <3>1, <3>2
  <2> QED
    BY <1>4, <1>7, <2>1 DEF Call
<1>8. ASSUME NEW f \in Field, Authenticate(f)
      PROVE  ReqInv'
  <2>0. UNCHANGED <<together, kind, bearer>> /\ gate[f] = "auth"
    BY <1>8 DEF Authenticate
  <2>1. CASE Leave(f) /\ UNCHANGED <<reqUser, vouched>>
    <3>1. ASSUME NEW g \in Field PROVE Guarded(g)'
      <4>1. CASE g = f
        BY <1>1, <2>0, <2>1, <4>1, RunLeaveTypes DEF Guarded, OwnUser, RunsAsOwn, NeedsUser
      <4>2. CASE g # f
        BY <1>1, <2>0, <2>1, <4>2, RunLeaveTypes, Untouched
      <4> QED
        BY <4>1, <4>2
    <3> QED
      BY <1>4, <2>0, <3>1
  <2>2. ASSUME NEW user \in Loaded, user.id = bearer[f],
               reqUser' = [g \in Field |-> IF g \in Siblings(f) THEN user ELSE reqUser[g]],
               vouched' = [vouched EXCEPT ![f] = bearer[f]],
               UNCHANGED task,
               RunIn(f, user) \/ (gate' = [gate EXCEPT ![f] = "permission"] /\ UNCHANGED context)
        PROVE  ReqInv'
    <3>1. \A g \in Field : g \in Siblings(f) => bearer[g] = bearer[f]
      BY DEF Siblings, ReqInv
    <3>2. /\ reqUser'[f] = user /\ vouched'[f] = bearer[f]
          /\ \/ gate'[f] = "run" /\ context'[f] = user
             \/ gate'[f] = "permission"
      BY <1>0, <2>2, RunLeaveTypes DEF Siblings
    <3>3. task[f].need # "public"
      BY <1>1, <2>0 DEF Guarded, NeedsUser
    <3>4. Guarded(f)'
      BY <1>2, <2>0, <2>2, <3>2, <3>3 DEF Guarded, OwnUser, RunsAsOwn, NeedsUser
    <3>5. ASSUME NEW g \in Field, g # f PROVE Guarded(g)'
      <4>1. /\ gate'[g] = gate[g] /\ context'[g] = context[g] /\ vouched'[g] = vouched[g]
        BY <1>0, <2>2, <3>5, RunLeaveTypes
      <4>2. \/ reqUser'[g] = reqUser[g]
            \/ reqUser'[g] # NoPerson /\ reqUser'[g].id = bearer[g]
        BY <1>2, <2>2, <3>1
      <4> QED
        BY <1>1, <2>0, <2>2, <4>1, <4>2, Untouched
    <3> QED
      BY <1>4, <2>0, <3>4, <3>5
  <2> QED
    BY <1>8, <2>1, <2>2, Authenticated
<1>9. ASSUME NEW f \in Field, NEW allowed \in BOOLEAN, CheckPermission(f, allowed)
      PROVE  ReqInv'
  <2>0. /\ UNCHANGED <<together, kind, bearer, reqUser, vouched>> /\ gate[f] = "permission"
        /\ (RunIn(f, reqUser[f]) /\ UNCHANGED task) \/ Leave(f)
    BY <1>9 DEF CheckPermission
  <2>1. /\ reqUser[f] # NoPerson /\ reqUser[f].id = bearer[f] /\ vouched[f] = bearer[f]
        /\ reqUser[f] \in Loaded \cup {NoPerson}
        /\ task[f].need # "public"
    BY <1>0, <1>1, <2>0 DEF Guarded, OwnUser, NeedsUser
  <2>2. \/ gate'[f] = "run" /\ context'[f] = reqUser[f] /\ task'[f] = task[f]
        \/ gate'[f] = "idle"
    BY <2>0, <2>1, RunLeaveTypes
  <2>3. Guarded(f)'
    BY <2>0, <2>1, <2>2 DEF Guarded, OwnUser, RunsAsOwn, NeedsUser
  <2>4. ASSUME NEW g \in Field, g # f PROVE Guarded(g)'
    <3>1. gate'[g] = gate[g] /\ context'[g] = context[g] /\ task'[g] = task[g]
      BY <2>0, <2>1, <2>4, RunLeaveTypes
    <3> QED
      BY <1>1, <2>0, <3>1, Untouched
  <2> QED
    BY <1>4, <2>0, <2>3, <2>4
<1>10. ASSUME NEW f \in Field, Finish(f)
       PROVE  ReqInv'
  <2>0. UNCHANGED <<together, kind, bearer, reqUser, vouched>> /\ Leave(f)
    BY <1>10 DEF Finish
  <2>1. ASSUME NEW g \in Field PROVE Guarded(g)'
    <3>1. CASE g = f
      BY <1>1, <2>0, <3>1, RunLeaveTypes DEF Guarded, OwnUser, RunsAsOwn, NeedsUser
    <3>2. CASE g # f
      BY <1>1, <2>0, <3>2, RunLeaveTypes, Untouched
    <3> QED
      BY <3>1, <3>2
  <2> QED
    BY <1>4, <2>0, <2>1
<1>11. CASE UNCHANGED <<together, kind, bearer, task, gate, reqUser, context, vouched>>
  BY <1>1, <1>4, <1>11, Untouched
<1> QED
  BY <1>5, <1>6, <1>7, <1>8, <1>9, <1>10, <1>11 DEF ReqNext, PersonChanges, reqVars

(* Whatever fields of whatever requests run side by side, and whoever is   *)
(* deactivated, deleted or given another role meanwhile: a handler runs    *)
(* with the user its own guards have let in, and with nobody else.         *)
THEOREM HandlersRunAsTheirUser == ReqSpec => []HandlersHaveTheirUser
<1>1. ReqInit => ReqInv
  BY DEF ReqInit, ReqInv, Guarded, OwnUser, RunsAsOwn, NeedsUser
<1>2. ReqInv => HandlersHaveTheirUser
  BY DEF ReqInv, Guarded, RunsAsOwn, HandlersHaveTheirUser
<1> QED
  BY <1>1, <1>2, ReqInvNext, ReqTypesHold, PTL DEF ReqSpec
=============================================================================
