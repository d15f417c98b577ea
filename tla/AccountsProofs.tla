---------------------------- MODULE AccountsProofs ----------------------------
(***************************************************************************)
(* Proofs about module Accounts, for any number of requests in flight, any *)
(* limit of login attempts and any of the bounds.                          *)
(***************************************************************************)
EXTENDS Accounts, FiniteSetTheorems, TLAPS

-----------------------------------------------------------------------------
(* Type correctness. *)

LEMMA RowTypes ==
  /\ Blank \in Local
  /\ \A g \in 0 .. MaxAccounts :
        /\ NoAccount(g) \in Account
        /\ [NoAccount(g) EXCEPT !.state = "there", !.verified = TRUE] \in Account
  /\ \A g \in 0 .. MaxAccounts, a \in 0 .. MaxMoves, t \in 0 .. MaxTokens :
        [gen |-> g, addr |-> a, token |-> t] \in Local
  /\ \A g \in 0 .. MaxAccounts, t \in 0 .. MaxTokens :
        [NoAccount(g) EXCEPT !.state = "there", !.token = t, !.window = "open"]
           \in Account
<1>1. 0 \in 0 .. MaxAccounts /\ 0 \in 0 .. MaxMoves /\ 0 \in 0 .. MaxTokens
  BY AccountsAssumption
<1> QED BY <1>1 DEF Local, Blank, NoAccount, Account

(* The updates of a row that is there. *)
LEMMA UpdateTypes ==
  ASSUME NEW r \in Account
  PROVE  /\ [r EXCEPT !.verified = TRUE, !.token = 0, !.window = "null"] \in Account
         /\ \A t \in 0 .. MaxTokens :
               [r EXCEPT !.token = t, !.window = "open"] \in Account
         /\ [r EXCEPT !.attempts = @ + 1] \in Account
         /\ [r EXCEPT !.attempts = 0, !.locked = FALSE] \in Account
         /\ \A b \in BOOLEAN : [r EXCEPT !.locked = b] \in Account
         /\ [r EXCEPT !.window = "over"] \in Account
         /\ [r EXCEPT !.state = "removed"] \in Account
         /\ r.addr < MaxMoves => [r EXCEPT !.addr = @ + 1] \in Account
<1>1. 0 \in 0 .. MaxTokens
  BY AccountsAssumption
<1>2. [r EXCEPT !.verified = TRUE, !.token = 0, !.window = "null"] \in Account
  BY <1>1 DEF Account
<1>3. \A t \in 0 .. MaxTokens : [r EXCEPT !.token = t, !.window = "open"] \in Account
  BY DEF Account
<1>4. [r EXCEPT !.attempts = @ + 1] \in Account
  BY DEF Account
<1>5. [r EXCEPT !.attempts = 0, !.locked = FALSE] \in Account
  BY DEF Account
<1>6. \A b \in BOOLEAN : [r EXCEPT !.locked = b] \in Account
  BY DEF Account
<1>7. /\ [r EXCEPT !.window = "over"] \in Account
      /\ [r EXCEPT !.state = "removed"] \in Account
  BY DEF Account
<1>8. r.addr < MaxMoves => [r EXCEPT !.addr = @ + 1] \in Account
  <2>1. r.addr < MaxMoves => r.addr + 1 \in 0 .. MaxMoves
    BY AccountsAssumption DEF Account
  <2> QED BY <2>1 DEF Account
<1> QED BY <1>2, <1>3, <1>4, <1>5, <1>6, <1>7, <1>8

(* They keep the uniqueId. *)
LEMMA KeptGen ==
  ASSUME RowTypeOK, acct' \in Account, acct'.gen = acct.gen,
         acct.state = "none" => acct'.state = "none"
  PROVE  RowTypeOK'
  BY DEF RowTypeOK

LEMMA InitTypes == Init => TypeOK
<1> SUFFICES ASSUME Init PROVE TypeOK
  OBVIOUS
<1> USE AccountsAssumption DEF Init
<1>1. RowTypeOK
  <2>1. 0 \in 0 .. MaxAccounts
    OBVIOUS
  <2>2. acct \in Account
    BY <2>1, RowTypes
  <2>3. acct.state = "none"
    BY DEF NoAccount
  <2> QED BY <2>2, <2>3 DEF RowTypeOK
<1>2. HandlerTypeOK
  BY RowTypes DEF HandlerTypeOK, PC
<1>3. CounterTypeOK
  BY DEF CounterTypeOK
<1>4. guesses \in Nat /\ expiries \in 0 .. MaxExpiries
  OBVIOUS
<1>5. HistoryTypeOK
  BY <1>4, Zenon DEF HistoryTypeOK
<1> QED BY <1>1, <1>2, <1>3, <1>5 DEF TypeOK

(* A request that goes to an await with v in hand. *)
LEMMA GoHoldType ==
  ASSUME HandlerTypeOK, NEW h \in Handler, NEW label \in PC, NEW v \in Local,
         label = "mail" => v.token # 0, Go(h, label), Hold(h, v)
  PROVE  HandlerTypeOK'
  BY DEF HandlerTypeOK, Go, Hold

LEMMA ReturnType ==
  ASSUME HandlerTypeOK, NEW h \in Handler, Return(h)
  PROVE  HandlerTypeOK'
  BY GoHoldType, RowTypes DEF Return, PC

LEMMA StartType ==
  ASSUME RowTypeOK, HandlerTypeOK, NEW h \in Handler, NEW label \in PC \ {"mail"},
         Start(h, label)
  PROVE  HandlerTypeOK'
<1> DEFINE v == [gen |-> acct.gen, addr |-> acct.addr, token |-> 0]
<1>1. /\ acct.gen \in 0 .. MaxAccounts /\ acct.addr \in 0 .. MaxMoves
      /\ 0 \in 0 .. MaxTokens
  BY AccountsAssumption DEF RowTypeOK, Account
<1>2. v \in Local
  BY <1>1 DEF Local
<1>3. Go(h, label) /\ Hold(h, v)
  BY DEF Start
<1> HIDE DEF v
<1> QED BY <1>2, <1>3, GoHoldType

LEMMA ForgottenTypes ==
  ASSUME HistoryTypeOK, ForgetGuesses, UNCHANGED grounds
  PROVE  HistoryTypeOK'
<1>1. 0 \in Nat /\ 0 \in 0 .. MaxExpiries
  BY AccountsAssumption
<1> QED BY <1>1, Zenon DEF HistoryTypeOK, ForgetGuesses

(* The requests, step by step. *)
LEMMA BeginTypes ==
  ASSUME TypeOK, NEW h \in Handler, Begin(h)
  PROVE  TypeOK'
<1> USE DEF TypeOK, Begin
<1> DEFINE Labels == {"register", "create", "verify", "resend", "count", "clear"}
<1>1. /\ \E label \in Labels : Start(h, label)
      /\ UNCHANGED <<acct, inbox, tokens, faults, expiries, lockPlaced, lockDied>>
  BY DEF RegisterRead, CreateRead, VerifyRead, OAuthRead, ResendRead, LoginWrong,
         LoginRight, history
<1>2. HandlerTypeOK'
  BY <1>1, StartType DEF PC
<1>3. RowTypeOK' /\ CounterTypeOK'
  BY <1>1 DEF RowTypeOK, CounterTypeOK
<1>4. Found => acct.gen \in 1 .. MaxAccounts
  BY AccountsAssumption DEF Found, RowTypeOK, Account
<1>5. /\ \/ grounds' = grounds
         \/ \E a \in 0 .. MaxMoves, g \in Grounds :
               Found /\ grounds' = grounds \cup {<<acct.gen, a, g>>}
      /\ guesses' = guesses \/ guesses' = guesses + 1
  <2>1. CASE VerifyRead(h)
    <3>1. PICK m \in inbox : grounds' = grounds \cup {<<acct.gen, m[2], "shown">>}
      BY <2>1 DEF VerifyRead
    <3>2. m[2] \in 0 .. MaxMoves
      BY DEF CounterTypeOK
    <3> QED BY <2>1, <3>1, <3>2 DEF VerifyRead, Grounds, history
  <2>2. CASE OAuthRead(h)
    BY <2>2 DEF OAuthRead, RowTypeOK, Account, history
  <2> QED
    BY <2>1, <2>2
       DEF RegisterRead, CreateRead, ResendRead, LoginWrong, LoginRight, history
<1>6. grounds' \in SUBSET ((1 .. MaxAccounts) \X (0 .. MaxMoves) \X Grounds)
  BY <1>4, <1>5 DEF HistoryTypeOK
<1>7. guesses' \in Nat
  BY <1>5 DEF HistoryTypeOK
<1> QED BY <1>1, <1>2, <1>3, <1>6, <1>7 DEF HistoryTypeOK

LEMMA ContinueTypes ==
  ASSUME TypeOK, NEW h \in Handler, Continue(h)
  PROVE  TypeOK'
<1> USE DEF TypeOK
<1>1. acct.gen \in 0 .. MaxAccounts /\ tokens \in 0 .. MaxTokens
  BY DEF RowTypeOK, Account, CounterTypeOK
<1>2. NewToken => tokens' \in 1 .. MaxTokens
  BY <1>1, AccountsAssumption DEF NewToken
<1>3. acct.gen < MaxAccounts => acct.gen + 1 \in 1 .. MaxAccounts
  BY <1>1, AccountsAssumption
<1>4. CASE RegisterCreate(h)
  <2>1. CASE acct.state = "none"
    <3>1. /\ NewToken /\ acct.gen < MaxAccounts
          /\ acct' = [NoAccount(acct.gen + 1) EXCEPT
                         !.state = "there", !.token = tokens', !.window = "open"]
          /\ Hold(h, [gen |-> acct.gen + 1, addr |-> 0, token |-> tokens'])
          /\ Go(h, "mail")
          /\ UNCHANGED <<inbox, faults, history, grounds>>
      BY <1>4, <2>1 DEF RegisterCreate, NewRow
    <3>2. tokens' \in 1 .. MaxTokens /\ acct.gen + 1 \in 1 .. MaxAccounts
      BY <1>2, <1>3, <3>1
    <3>3. acct.gen + 1 \in 0 .. MaxAccounts /\ tokens' \in 0 .. MaxTokens /\ 0 \in 0 .. MaxMoves
      BY <3>2, AccountsAssumption
    <3>4. /\ [gen |-> acct.gen + 1, addr |-> 0, token |-> tokens'] \in Local
          /\ acct' \in Account
      BY <3>1, <3>3, RowTypes
    <3>5. HandlerTypeOK'
      BY <3>1, <3>2, <3>4, GoHoldType DEF PC
    <3>6. acct'.gen # 0
      BY <3>1, <3>2 DEF NoAccount
    <3> QED
      BY <3>1, <3>2, <3>4, <3>5, <3>6
         DEF RowTypeOK, CounterTypeOK, HistoryTypeOK, history
  <2>2. CASE acct.state # "none"
    BY <1>4, <2>2, ReturnType
       DEF RegisterCreate, RowTypeOK, CounterTypeOK, HistoryTypeOK, history
  <2> QED BY <2>1, <2>2
<1>5. CASE MailToken(h)
  <2>1. local[h].token \in 1 .. MaxTokens /\ local[h].addr \in 0 .. MaxMoves
    BY <1>5, AccountsAssumption DEF MailToken, HandlerTypeOK, Local
  <2> QED
    BY <1>5, <2>1, ReturnType
       DEF MailToken, RowTypeOK, CounterTypeOK, HistoryTypeOK, history
<1>6. CASE CreateVerified(h)
  <2>1. HandlerTypeOK' /\ CounterTypeOK'
    BY <1>6, ReturnType DEF CreateVerified, CounterTypeOK
  <2>2. CASE acct.state = "none"
    <3>1. /\ acct.gen + 1 \in 1 .. MaxAccounts
          /\ acct' = [NoAccount(acct.gen + 1) EXCEPT !.state = "there", !.verified = TRUE]
          /\ grounds' = grounds \cup {<<acct.gen + 1, 0, "shown">>}
          /\ UNCHANGED history
      BY <1>3, <1>6, <2>2 DEF CreateVerified, NewRow
    <3>2. acct.gen + 1 \in 0 .. MaxAccounts
      BY <3>1
    <3>3. acct' \in Account
      BY <3>1, <3>2, RowTypes
    <3>4. acct'.gen # 0
      BY <3>1 DEF NoAccount
    <3>5. <<acct.gen + 1, 0, "shown">> \in (1 .. MaxAccounts) \X (0 .. MaxMoves) \X Grounds
      BY <3>1, AccountsAssumption DEF Grounds
    <3> QED
      BY <2>1, <3>1, <3>3, <3>4, <3>5 DEF RowTypeOK, HistoryTypeOK, history
  <2>3. CASE acct.state # "none"
    BY <1>6, <2>1, <2>3 DEF CreateVerified, RowTypeOK, HistoryTypeOK, history
  <2> QED BY <2>2, <2>3
<1>7. CASE VerifyWrite(h)
  <2>1. RowTypeOK'
    <3>1. acct' \in Account
      BY <1>7, UpdateTypes DEF VerifyWrite, RowTypeOK
    <3>2. acct'.gen = acct.gen /\ acct'.state = acct.state
      BY <1>7 DEF VerifyWrite, RowTypeOK, Account
    <3> QED BY <3>1, <3>2, KeptGen
  <2> QED
    BY <1>7, <2>1, ReturnType DEF VerifyWrite, CounterTypeOK, HistoryTypeOK, history
<1>8. CASE ResendWrite(h)
  <2>1. CASE Reaches(h)
    <3>1. /\ tokens' \in 1 .. MaxTokens
          /\ acct' = [acct EXCEPT !.token = tokens', !.window = "open"]
          /\ Hold(h, [local[h] EXCEPT !.token = tokens'])
          /\ Go(h, "mail")
          /\ UNCHANGED <<inbox, faults, history, grounds>>
      BY <1>2, <1>8, <2>1 DEF ResendWrite
    <3>2. /\ [local[h] EXCEPT !.token = tokens'] \in Local
          /\ [local[h] EXCEPT !.token = tokens'].token = tokens'
      BY <3>1 DEF HandlerTypeOK, Local
    <3>3. HandlerTypeOK'
      BY <3>1, <3>2, GoHoldType, tokens' # 0 DEF PC
    <3>4. RowTypeOK'
      <4>1. acct' \in Account
        BY <3>1, tokens' \in 0 .. MaxTokens, UpdateTypes DEF RowTypeOK
      <4>2. acct'.gen = acct.gen /\ acct'.state = acct.state
        BY <3>1 DEF RowTypeOK, Account
      <4> QED BY <4>1, <4>2, KeptGen
    <3> QED BY <3>1, <3>3, <3>4 DEF CounterTypeOK, HistoryTypeOK, history
  <2>2. CASE ~Reaches(h)
    BY <1>8, <2>2, ReturnType
       DEF ResendWrite, RowTypeOK, CounterTypeOK, HistoryTypeOK, history
  <2> QED BY <2>1, <2>2
<1>9. CASE LoginCount(h)
  <2>1. RowTypeOK'
    BY <1>9 DEF LoginCount, RowTypeOK, Account
  <2>2. HandlerTypeOK'
    <3>1. CASE Return(h)
      BY <3>1, ReturnType
    <3>2. CASE Go(h, "lock") /\ UNCHANGED local
      BY <3>2 DEF HandlerTypeOK, Go, PC
    <3> QED BY <1>9, <3>1, <3>2 DEF LoginCount
  <2> QED BY <1>9, <2>1, <2>2 DEF LoginCount, CounterTypeOK, HistoryTypeOK, history
<1>10. CASE LoginLock(h)
  <2>1. RowTypeOK'
    BY <1>10 DEF LoginLock, RowTypeOK, Account
  <2> QED
    BY <1>10, <2>1, ReturnType DEF LoginLock, CounterTypeOK, HistoryTypeOK
<1>11. CASE LoginClear(h)
  <2>1. RowTypeOK'
    <3>1. acct' \in Account
      BY <1>11, UpdateTypes DEF LoginClear, RowTypeOK
    <3>2. acct'.gen = acct.gen /\ acct'.state = acct.state
      BY <1>11 DEF LoginClear, RowTypeOK, Account
    <3> QED BY <3>1, <3>2, KeptGen
  <2>2. HistoryTypeOK'
    BY <1>11, ForgottenTypes DEF LoginClear, HistoryTypeOK, history
  <2> QED BY <1>11, <2>1, <2>2, ReturnType DEF LoginClear, CounterTypeOK
<1> QED
  BY <1>4, <1>5, <1>6, <1>7, <1>8, <1>9, <1>10, <1>11 DEF Continue

LEMMA DieTypes ==
  ASSUME TypeOK, NEW h \in Handler, Die(h)
  PROVE  TypeOK'
  BY ReturnType, AccountsAssumption
     DEF Die, TypeOK, RowTypeOK, CounterTypeOK, HistoryTypeOK

(* What happens to the account from outside. *)
LEMMA AccountTypes ==
  ASSUME TypeOK, WindowEnds \/ LockEnds \/ Cleanup \/ Delete \/ Purge \/ ChangeEmail
  PROVE  TypeOK'
<1> USE DEF TypeOK
<1>1. UNCHANGED <<inbox, pc, local, tokens, faults, grounds>>
  BY DEF WindowEnds, LockEnds, Cleanup, Delete, Purge, ChangeEmail
<1>2. HandlerTypeOK' /\ CounterTypeOK'
  BY <1>1 DEF HandlerTypeOK, CounterTypeOK
<1>3. CASE WindowEnds \/ LockEnds \/ Delete \/ ChangeEmail
  <2>1. acct' \in Account
    BY <1>3, UpdateTypes DEF WindowEnds, LockEnds, Delete, ChangeEmail, RowTypeOK
  <2>2. acct'.gen = acct.gen /\ (acct.state = "none" => acct'.state = "none")
    BY <1>3 DEF WindowEnds, LockEnds, Delete, ChangeEmail, Found, RowTypeOK, Account
  <2>3. HistoryTypeOK'
    BY <1>1, <1>3, AccountsAssumption
       DEF WindowEnds, LockEnds, Delete, ChangeEmail, HistoryTypeOK, history
  <2> QED BY <1>2, <2>1, <2>2, <2>3, KeptGen
<1>4. CASE Cleanup \/ Purge
  <2>1. RowIsGone /\ acct.gen \in 0 .. MaxAccounts
    BY <1>4 DEF Cleanup, Purge, RowTypeOK, Account
  <2>2. acct' \in Account
    BY <2>1, RowTypes DEF RowIsGone
  <2>3. acct'.state = "none"
    BY <2>1 DEF RowIsGone, NoAccount
  <2> QED BY <1>1, <1>2, <2>1, <2>2, <2>3, ForgottenTypes DEF RowTypeOK, RowIsGone
<1> QED BY <1>3, <1>4

LEMMA NextTypes == TypeOK /\ [Next]_vars => TypeOK'
<1> SUFFICES ASSUME TypeOK, [Next]_vars PROVE TypeOK'
  OBVIOUS
<1>1. CASE UNCHANGED vars
  BY <1>1 DEF TypeOK, RowTypeOK, HandlerTypeOK, CounterTypeOK, HistoryTypeOK, vars,
              history
<1>2. CASE Next
  BY <1>2, BeginTypes, ContinueTypes, DieTypes, AccountTypes DEF Next
<1> QED BY <1>1, <1>2

(* The row, the requests in flight and the histories always have the types *)
(* TypeOK states: tokens that are mailed were made, rows have a uniqueId.  *)
THEOREM TypeCorrect == Spec => []TypeOK
<1>1. QED BY InitTypes, NextTypes, PTL DEF Spec

-----------------------------------------------------------------------------
(* No account. *)

(* Where there is no row, nothing of the last one is left. *)
NoneIsBlank ==
    acct.state = "none" => (acct = NoAccount(acct.gen) /\ guesses = 0)

LEMMA NextNone == TypeOK /\ NoneIsBlank /\ [Next]_vars => NoneIsBlank'
<1> SUFFICES ASSUME TypeOK, NoneIsBlank, [Next]_vars PROVE NoneIsBlank'
  OBVIOUS
<1> USE DEF TypeOK, RowTypeOK, Account, NoneIsBlank, history
<1>1. ASSUME NEW h \in Handler, Begin(h) PROVE NoneIsBlank'
  BY <1>1 DEF Begin, RegisterRead, CreateRead, ResendRead, VerifyRead, OAuthRead,
              LoginWrong, LoginRight, Found, NoAccount
<1>2. ASSUME NEW h \in Handler, Continue(h) PROVE NoneIsBlank'
  <2>1. CASE RegisterCreate(h) \/ CreateVerified(h)
    BY <2>1 DEF RegisterCreate, CreateVerified, NewRow, NewToken, NoAccount
  <2>2. CASE MailToken(h) \/ VerifyWrite(h) \/ ResendWrite(h)
    BY <2>2 DEF MailToken, VerifyWrite, ResendWrite, Reaches, NoAccount
  <2>3. CASE LoginCount(h) \/ LoginLock(h) \/ LoginClear(h)
    BY <2>3 DEF LoginCount, LoginLock, LoginClear, ForgetGuesses, Reaches, NoAccount
  <2> QED BY <1>2, <2>1, <2>2, <2>3 DEF Continue
<1>3. ASSUME NEW h \in Handler, Die(h) PROVE NoneIsBlank'
  BY <1>3 DEF Die, NoAccount
<1>4. CASE WindowEnds \/ LockEnds \/ Delete \/ ChangeEmail
  BY <1>4 DEF WindowEnds, LockEnds, Delete, ChangeEmail, Found, NoAccount
<1>5. CASE Cleanup \/ Purge
  BY <1>5 DEF Cleanup, Purge, RowIsGone, ForgetGuesses, NoAccount
<1>6. CASE UNCHANGED vars
  BY <1>6 DEF vars, NoAccount
<1> QED BY <1>1, <1>2, <1>3, <1>4, <1>5, <1>6 DEF Next

-----------------------------------------------------------------------------
(* The lock follows the counter. *)

LockInv == TypeOK /\ NoneIsBlank /\ LockFollowsCount

(* A request that is about to lock the account as it is. *)
AboutToLock(h) == pc[h] = "lock" /\ local[h].gen = acct.gen

LEMMA NextLock == LockInv /\ [Next]_vars => LockFollowsCount'
<1> SUFFICES ASSUME LockInv, [Next]_vars PROVE LockFollowsCount'
  OBVIOUS
<1> USE DEF LockInv, LockFollowsCount, history
<1>1. /\ acct \in Account /\ MAX_LOGIN_ATTEMPTS \in Nat \ {0}
      /\ pc \in [Handler -> PC] /\ local \in [Handler -> Local]
  BY AccountsAssumption DEF TypeOK, RowTypeOK, HandlerTypeOK
<1>2. acct'.attempts = 0 => LockFollowsCount'
  BY <1>1
(* A step of h that leaves counter, lock history and uniqueId alone, and   *)
(* takes no request off its way to the lock, unless it is h without one.   *)
<1>3. ASSUME NEW h \in Handler,
             acct'.attempts = acct.attempts, acct'.gen = acct.gen,
             lockPlaced => lockPlaced', lockDied => lockDied',
             \A g \in Handler \ {h} : pc'[g] = pc[g] /\ local'[g] = local[g],
             AboutToLock(h) => lockPlaced' \/ lockDied'
      PROVE  LockFollowsCount'
  BY <1>3 DEF AboutToLock
<1>4. ASSUME NEW h \in Handler, NEW label, Go(h, label), NEW v, Hold(h, v)
      PROVE  \A g \in Handler \ {h} : pc'[g] = pc[g] /\ local'[g] = local[g]
  BY <1>1, <1>4 DEF Go, Hold
<1>5. ASSUME NEW h \in Handler, Begin(h) PROVE LockFollowsCount'
  <2>1. \E label : Start(h, label)
    BY <1>5 DEF Begin, RegisterRead, CreateRead, ResendRead, VerifyRead, OAuthRead,
                LoginWrong, LoginRight
  <2>2. \A g \in Handler \ {h} : pc'[g] = pc[g] /\ local'[g] = local[g]
    BY <2>1, <1>4 DEF Start
  <2>3. /\ ~AboutToLock(h)
        /\ UNCHANGED <<acct, lockPlaced, lockDied>>
    BY <1>5 DEF AboutToLock, Begin, Start, RegisterRead, CreateRead, ResendRead,
                VerifyRead, OAuthRead, LoginWrong, LoginRight
  <2> QED BY <1>3, <2>2, <2>3
<1>6. ASSUME NEW h \in Handler, Continue(h) PROVE LockFollowsCount'
  <2>1. CASE RegisterCreate(h) \/ CreateVerified(h)
    <3>1. CASE acct.state = "none"
      <4>1. acct'.attempts = 0
        BY <2>1, <3>1 DEF RegisterCreate, CreateVerified, NewRow, NewToken, NoAccount
      <4> QED BY <4>1, <1>2
    <3>2. CASE acct.state # "none"
      <4>1. Return(h) /\ UNCHANGED <<acct, lockPlaced, lockDied>> /\ ~AboutToLock(h)
        BY <2>1, <3>2 DEF RegisterCreate, CreateVerified, AboutToLock
      <4> QED BY <4>1, <1>3, <1>4 DEF Return
    <3> QED BY <3>1, <3>2
  <2>2. CASE MailToken(h) \/ VerifyWrite(h)
    <3>1. Return(h) /\ UNCHANGED <<lockPlaced, lockDied>> /\ ~AboutToLock(h)
      BY <2>2 DEF MailToken, VerifyWrite, AboutToLock
    <3>2. acct'.attempts = acct.attempts /\ acct'.gen = acct.gen
      BY <1>1, <2>2 DEF MailToken, VerifyWrite, Account
    <3> QED BY <3>1, <3>2, <1>3, <1>4 DEF Return
  <2>3. CASE ResendWrite(h)
    <3>1. /\ \E label, v : Go(h, label) /\ Hold(h, v)
          /\ UNCHANGED <<lockPlaced, lockDied>> /\ ~AboutToLock(h)
      BY <2>3 DEF ResendWrite, Return, AboutToLock
    <3>2. acct'.attempts = acct.attempts /\ acct'.gen = acct.gen
      BY <1>1, <2>3 DEF ResendWrite, Account
    <3> QED BY <3>1, <3>2, <1>3, <1>4
  <2>4. CASE LoginCount(h)
    <3>1. UNCHANGED <<lockPlaced, lockDied>> /\ ~AboutToLock(h)
      BY <2>4 DEF LoginCount, AboutToLock
    <3>2. CASE Reaches(h) /\ acct.attempts + 1 >= MAX_LOGIN_ATTEMPTS
      <4>1. pc'[h] = "lock" /\ local'[h].gen = acct'.gen
        BY <1>1, <2>4, <3>2 DEF LoginCount, Go, Reaches, Account
      <4> QED BY <4>1
    <3>3. CASE Reaches(h) /\ ~(acct.attempts + 1 >= MAX_LOGIN_ATTEMPTS)
      <4>1. acct'.attempts = acct.attempts + 1
        BY <1>1, <2>4, <3>3 DEF LoginCount, Account
      <4> QED BY <1>1, <3>3, <4>1
    <3>4. CASE ~Reaches(h)
      <4>1. Return(h) /\ UNCHANGED acct
        BY <2>4, <3>4 DEF LoginCount
      <4> QED BY <3>1, <4>1, <1>3, <1>4 DEF Return
    <3> QED BY <3>2, <3>3, <3>4
  <2>5. CASE LoginLock(h)
    <3>1. CASE Reaches(h)
      BY <2>5, <3>1 DEF LoginLock
    <3>2. CASE ~Reaches(h)
      <4>1. Return(h) /\ UNCHANGED <<acct, lockPlaced, lockDied>>
        BY <2>5, <3>2 DEF LoginLock
      <4>2. CASE acct.state = "none"
        <5>1. acct'.attempts = 0
          BY <4>1, <4>2 DEF NoneIsBlank, NoAccount
        <5> QED BY <5>1, <1>2
      <4>3. CASE acct.state # "none"
        <5>1. ~AboutToLock(h)
          BY <3>2, <4>3 DEF Reaches, AboutToLock
        <5> QED BY <4>1, <5>1, <1>3, <1>4 DEF Return
      <4> QED BY <4>2, <4>3
    <3> QED BY <3>1, <3>2
  <2>6. CASE LoginClear(h)
    <3>1. CASE Reaches(h)
      <4>1. acct'.attempts = 0
        BY <1>1, <2>6, <3>1 DEF LoginClear, Account
      <4> QED BY <4>1, <1>2
    <3>2. CASE ~Reaches(h)
      <4>1. Return(h) /\ UNCHANGED <<acct, lockPlaced, lockDied>> /\ ~AboutToLock(h)
        BY <2>6, <3>2 DEF LoginClear, AboutToLock
      <4> QED BY <4>1, <1>3, <1>4 DEF Return
    <3> QED BY <3>1, <3>2
  <2> QED BY <1>6, <2>1, <2>2, <2>3, <2>4, <2>5, <2>6 DEF Continue
<1>7. ASSUME NEW h \in Handler, Die(h) PROVE LockFollowsCount'
  <2>1. /\ Return(h) /\ UNCHANGED <<acct, lockPlaced>>
        /\ lockDied' = (lockDied \/ (pc[h] = "lock" /\ Reaches(h)))
    BY <1>7 DEF Die
  <2>2. CASE acct.state = "none"
    <3>1. acct'.attempts = 0
      BY <2>1, <2>2 DEF NoneIsBlank, NoAccount
    <3> QED BY <3>1, <1>2
  <2>3. CASE acct.state # "none"
    <3>1. AboutToLock(h) => lockDied'
      BY <2>1, <2>3 DEF AboutToLock, Reaches
    <3> QED BY <2>1, <3>1, <1>3, <1>4 DEF Return
  <2> QED BY <2>2, <2>3
<1>8. CASE WindowEnds \/ LockEnds \/ Delete \/ ChangeEmail
  <2>1. acct'.attempts = acct.attempts /\ acct'.gen = acct.gen
    BY <1>1, <1>8 DEF WindowEnds, LockEnds, Delete, ChangeEmail, Account
  <2>2. UNCHANGED <<pc, local, lockPlaced, lockDied>>
    BY <1>8 DEF WindowEnds, LockEnds, Delete, ChangeEmail
  <2> QED BY <2>1, <2>2
<1>9. CASE Cleanup \/ Purge
  <2>1. acct'.attempts = 0
    BY <1>9 DEF Cleanup, Purge, RowIsGone, NoAccount
  <2> QED BY <2>1, <1>2
<1>10. CASE UNCHANGED vars
  BY <1>10 DEF vars
<1> QED BY <1>5, <1>6, <1>7, <1>8, <1>9, <1>10 DEF Next

LEMMA InitLock == Init => LockInv
<1> SUFFICES ASSUME Init PROVE LockInv
  OBVIOUS
<1>1. acct = NoAccount(0) /\ guesses = 0
  BY DEF Init
<1>2. NoneIsBlank
  BY <1>1 DEF NoneIsBlank, NoAccount
<1>3. LockFollowsCount
  BY <1>1, AccountsAssumption DEF LockFollowsCount, NoAccount
<1> QED BY <1>2, <1>3, InitTypes DEF LockInv

LEMMA LockInvariant == Spec => []LockInv
<1>1. LockInv /\ [Next]_vars => LockInv'
  BY NextTypes, NextNone, NextLock DEF LockInv
<1> QED BY <1>1, InitLock, PTL DEF Spec

(* LockFollowsCount: a counter at the limit has been, or is being,         *)
(* answered by a lock, whatever requests come in between.                  *)
THEOREM LockIsPlaced == Spec => []LockFollowsCount
<1>1. LockInv => LockFollowsCount
  BY DEF LockInv
<1> QED BY <1>1, LockInvariant, PTL

-----------------------------------------------------------------------------
(* An account is verified on grounds of its own, and is kept. *)

Vouched == \E a \in 0 .. acct.addr, g \in Grounds : <<acct.gen, a, g>> \in grounds

(* Where the tokens are: one that is, or is about to be, the row's goes to *)
(* an address the row has or had, and a new token is not that of any mail. *)
TokensInv ==
    /\ acct.token <= tokens
    /\ \A m \in inbox : m[1] <= tokens /\ (m[1] = acct.token => m[2] <= acct.addr)
    /\ \A h \in Handler :
          /\ local[h].gen <= acct.gen /\ local[h].token <= tokens
          /\ (pc[h] = "mail" /\ local[h].token = acct.token) => local[h].addr <= acct.addr
          /\ (pc[h] = "resend" /\ Reaches(h)) => local[h].addr <= acct.addr

EvidenceInv ==
    /\ TypeOK
    /\ TokensInv
    /\ VerifiedWasProved
    /\ \A h \in Handler : (pc[h] = "verify" /\ Reaches(h)) => Vouched

LEMMA NumbersOf ==
  ASSUME TypeOK
  PROVE  /\ acct \in Account
         /\ acct.gen \in Nat /\ acct.addr \in Nat /\ acct.token \in Nat
         /\ pc \in [Handler -> PC] /\ local \in [Handler -> Local]
         /\ \A h \in Handler :
              local[h].gen \in Nat /\ local[h].addr \in Nat /\ local[h].token \in Nat
         /\ \A m \in inbox : m[1] \in Nat \ {0} /\ m[2] \in Nat
         /\ tokens \in Nat
<1>1. \A h \in Handler : local[h] \in Local
  BY DEF TypeOK, HandlerTypeOK
<1>2. acct \in Account
  BY DEF TypeOK, RowTypeOK
<1> QED
  BY <1>1, <1>2, AccountsAssumption
     DEF TypeOK, HandlerTypeOK, CounterTypeOK, Account, Local

(* What a step may do to the row without moving any token: nothing that    *)
(* this part is about, or clear its token, or remove it, or change its     *)
(* address.                                                                *)
Steady ==
    /\ acct'.gen = acct.gen
    /\ acct'.token \in {0, acct.token}
    /\ acct'.addr = acct.addr \/ acct'.addr = acct.addr + 1
       \/ (acct'.state = "none" /\ acct'.token = 0)
    /\ acct.state = "none" => acct'.state = "none"

LEMMA SteadyTokens ==
  ASSUME TypeOK, TypeOK', TokensInv, Steady, UNCHANGED <<inbox, tokens>>,
         \A h \in Handler :
           \/ pc'[h] = pc[h] /\ local'[h] = local[h]
           \/ /\ pc'[h] \notin {"mail", "resend"}
              /\ local'[h] \in {Blank, local[h], [gen |-> acct.gen, addr |-> acct.addr, token |-> 0]}
           \/ /\ pc'[h] = "resend" /\ UNCHANGED acct
              /\ local'[h] = [gen |-> acct.gen, addr |-> acct.addr, token |-> 0]
  PROVE  TokensInv'
<1> USE DEF TokensInv, Steady
<1>0. /\ acct.gen \in Nat /\ acct.addr \in Nat /\ acct.token \in Nat /\ tokens \in Nat
      /\ acct'.addr \in Nat
      /\ \A m \in inbox : m[1] \in Nat \ {0} /\ m[2] \in Nat
      /\ \A h \in Handler :
           local[h].gen \in Nat /\ local[h].addr \in Nat /\ local[h].token \in Nat
  <2>1. acct' \in Account
    BY DEF TypeOK, RowTypeOK
  <2>2. acct'.addr \in Nat
    BY <2>1, AccountsAssumption DEF Account
  <2> QED BY <2>2, NumbersOf
<1>1. acct'.token <= tokens'
  BY <1>0
<1>2. ASSUME NEW m \in inbox'
      PROVE  m[1] <= tokens' /\ (m[1] = acct'.token => m[2] <= acct'.addr)
  BY <1>0, <1>2
<1>3. ASSUME NEW h \in Handler
      PROVE  /\ local'[h].gen <= acct'.gen /\ local'[h].token <= tokens'
             /\ (pc'[h] = "mail" /\ local'[h].token = acct'.token) =>
                   local'[h].addr <= acct'.addr
             /\ (pc'[h] = "resend" /\ Reaches(h)') => local'[h].addr <= acct'.addr
  <2>1. CASE pc'[h] = pc[h] /\ local'[h] = local[h]
    <3>1. pc[h] = "mail" => local[h].token # 0
      BY DEF TypeOK, HandlerTypeOK
    <3> QED BY <1>0, <2>1, <3>1 DEF Reaches
  <2>2. CASE /\ pc'[h] \notin {"mail", "resend"}
             /\ local'[h] \in {Blank, local[h], [gen |-> acct.gen, addr |-> acct.addr, token |-> 0]}
    BY <1>0, <2>2 DEF Blank
  <2>3. CASE /\ pc'[h] = "resend" /\ UNCHANGED acct
             /\ local'[h] = [gen |-> acct.gen, addr |-> acct.addr, token |-> 0]
    BY <1>0, <2>3
  <2> QED BY <2>1, <2>2, <2>3
<1> QED BY <1>1, <1>2, <1>3

(* A request that moves alone. *)
LEMMA Alone ==
  ASSUME TypeOK, NEW h \in Handler, NEW label, Go(h, label), NEW v, Hold(h, v)
  PROVE  /\ pc'[h] = label /\ local'[h] = v
         /\ \A g \in Handler \ {h} : pc'[g] = pc[g] /\ local'[g] = local[g]
  BY NumbersOf DEF Go, Hold

(* What the steps that move no token do. *)
LEMMA BeginIsSteady ==
  ASSUME TypeOK, NEW h \in Handler, Begin(h)
  PROVE  /\ Steady /\ UNCHANGED <<acct, inbox, tokens>>
         /\ pc'[h] # "mail"
         /\ local'[h] = [gen |-> acct.gen, addr |-> acct.addr, token |-> 0]
         /\ \A g \in Handler \ {h} : pc'[g] = pc[g] /\ local'[g] = local[g]
<1> DEFINE Labels == {"register", "create", "verify", "resend", "count", "clear"}
<1>1. /\ \E label \in Labels : Start(h, label)
      /\ UNCHANGED <<acct, inbox, tokens>>
  BY DEF Begin, RegisterRead, CreateRead, VerifyRead, OAuthRead, ResendRead, LoginWrong,
         LoginRight
<1>2. Steady
  BY <1>1 DEF Steady
<1> QED BY <1>1, <1>2, Alone DEF Start

(* What they have in common with a request that is cut short. *)
WriteFacts(h) ==
    /\ Steady /\ UNCHANGED <<inbox, tokens, grounds>>
    /\ acct'.addr = acct.addr /\ acct'.state = acct.state
    /\ pc'[h] \in {"idle", "lock"}
    /\ local'[h] \in {Blank, local[h]}
    /\ \A g \in Handler \ {h} : pc'[g] = pc[g] /\ local'[g] = local[g]

LEMMA WriteIsSteady ==
  ASSUME TypeOK, NEW h \in Handler,
         VerifyWrite(h) \/ LoginCount(h) \/ LoginLock(h) \/ LoginClear(h) \/ Die(h)
  PROVE  WriteFacts(h)
<1>1. acct \in Account /\ acct.token \in Nat
  BY NumbersOf
<1>2. /\ acct'.gen = acct.gen /\ acct'.addr = acct.addr /\ acct'.state = acct.state
      /\ acct'.token \in {0, acct.token}
  <2>1. CASE VerifyWrite(h)
    BY <1>1, <2>1 DEF VerifyWrite, Account
  <2>2. CASE LoginCount(h)
    BY <1>1, <2>2 DEF LoginCount, Account
  <2>3. CASE LoginLock(h) \/ LoginClear(h)
    BY <1>1, <2>3 DEF LoginLock, LoginClear, Account
  <2>4. CASE Die(h)
    BY <2>4 DEF Die
  <2> QED BY <2>1, <2>2, <2>3, <2>4
<1>3. \/ Return(h)
      \/ Go(h, "lock") /\ UNCHANGED local
  BY DEF VerifyWrite, LoginCount, LoginLock, LoginClear, Die
<1>4. /\ pc'[h] \in {"idle", "lock"} /\ local'[h] \in {Blank, local[h]}
      /\ \A g \in Handler \ {h} : pc'[g] = pc[g] /\ local'[g] = local[g]
  <2>1. CASE Return(h)
    BY <2>1, Alone DEF Return
  <2>2. CASE Go(h, "lock") /\ UNCHANGED local
    BY <2>2, NumbersOf DEF Go
  <2> QED BY <1>3, <2>1, <2>2
<1>5. UNCHANGED <<inbox, tokens, grounds>>
  BY DEF VerifyWrite, LoginCount, LoginLock, LoginClear, Die
<1> QED BY <1>2, <1>4, <1>5 DEF Steady, WriteFacts

LEMMA OutsideIsSteady ==
  ASSUME TypeOK, NoneIsBlank,
         WindowEnds \/ LockEnds \/ Delete \/ Cleanup \/ Purge \/ ChangeEmail
  PROVE  /\ Steady /\ UNCHANGED <<inbox, tokens, grounds, pc, local>>
         /\ acct'.state = "none" => ~acct'.verified
         /\ acct'.state # "none" =>
              /\ acct'.addr \in {acct.addr, acct.addr + 1}
              /\ acct.state # "none"
              /\ acct'.verified = acct.verified
<1>1. acct \in Account
  BY NumbersOf
<1>2. UNCHANGED <<inbox, tokens, grounds, pc, local>>
  BY DEF WindowEnds, LockEnds, Delete, Cleanup, Purge, ChangeEmail
<1>3. CASE Cleanup \/ Purge
  BY <1>2, <1>3 DEF Cleanup, Purge, RowIsGone, NoAccount, Steady
<1>4. CASE WindowEnds \/ LockEnds \/ Delete \/ ChangeEmail
  BY <1>1, <1>2, <1>4 DEF WindowEnds, LockEnds, Delete, ChangeEmail, Steady, Account, Found,
                        NoneIsBlank, NoAccount
<1> QED BY <1>3, <1>4

LEMMA NextTokens == EvidenceInv /\ NoneIsBlank /\ [Next]_vars => TokensInv'
<1> SUFFICES ASSUME EvidenceInv, NoneIsBlank, [Next]_vars PROVE TokensInv'
  OBVIOUS
<1>0. TypeOK /\ TypeOK' /\ TokensInv
  BY NextTypes DEF EvidenceInv
<1>1. ASSUME NEW h \in Handler, Begin(h) PROVE TokensInv'
  BY <1>0, <1>1, BeginIsSteady, SteadyTokens
<1>2. ASSUME NEW h \in Handler,
             VerifyWrite(h) \/ LoginCount(h) \/ LoginLock(h) \/ LoginClear(h) \/ Die(h)
      PROVE  TokensInv'
  BY <1>0, <1>2, WriteIsSteady, SteadyTokens DEF WriteFacts
<1>3. CASE WindowEnds \/ LockEnds \/ Delete \/ Cleanup \/ Purge \/ ChangeEmail
  BY <1>0, <1>3, OutsideIsSteady, SteadyTokens
<1>4. CASE UNCHANGED vars
  BY <1>0, <1>4 DEF vars, TokensInv, Reaches
<1>5. ASSUME NEW h \in Handler, CreateVerified(h) \/ RegisterCreate(h) PROVE TokensInv'
  <2>1. CASE acct.state # "none"
    <3>1. Return(h) /\ UNCHANGED <<acct, inbox, tokens>>
      BY <1>5, <2>1 DEF CreateVerified, RegisterCreate
    <3>2. pc'[h] = "idle" /\ local'[h] = Blank
          /\ \A g \in Handler \ {h} : pc'[g] = pc[g] /\ local'[g] = local[g]
      BY <1>0, <3>1, Alone DEF Return
    <3>3. Steady
      BY <3>1 DEF Steady
    <3> QED BY <1>0, <3>1, <3>2, <3>3, SteadyTokens
  <2>2. CASE acct.state = "none"
    <3>1. /\ acct'.gen = acct.gen + 1 /\ acct'.addr = 0 /\ UNCHANGED inbox
          /\ \/ /\ acct'.token = 0 /\ UNCHANGED tokens
                /\ pc'[h] = "idle" /\ local'[h] = Blank
             \/ /\ acct'.token = tokens + 1 /\ tokens' = tokens + 1
                /\ pc'[h] = "mail"
                /\ local'[h] = [gen |-> acct.gen + 1, addr |-> 0, token |-> tokens + 1]
          /\ \A g \in Handler \ {h} : pc'[g] = pc[g] /\ local'[g] = local[g]
      <4>1. CASE CreateVerified(h)
        <5>1. /\ acct' = [NoAccount(acct.gen + 1) EXCEPT !.state = "there", !.verified = TRUE]
              /\ Return(h) /\ UNCHANGED <<inbox, tokens>>
          BY <2>2, <4>1 DEF CreateVerified, NewRow
        <5>2. acct'.gen = acct.gen + 1 /\ acct'.addr = 0 /\ acct'.token = 0
          BY <5>1 DEF NoAccount
        <5> QED BY <1>0, <5>1, <5>2, Alone DEF Return
      <4>2. CASE RegisterCreate(h)
        <5>1. /\ tokens' = tokens + 1
              /\ acct' = [NoAccount(acct.gen + 1) EXCEPT
                            !.state = "there", !.token = tokens', !.window = "open"]
              /\ Hold(h, [gen |-> acct.gen + 1, addr |-> 0, token |-> tokens'])
              /\ Go(h, "mail") /\ UNCHANGED inbox
          BY <2>2, <4>2 DEF RegisterCreate, NewRow, NewToken
        <5>2. acct'.gen = acct.gen + 1 /\ acct'.addr = 0 /\ acct'.token = tokens + 1
          BY <5>1 DEF NoAccount
        <5> QED BY <1>0, <5>1, <5>2, Alone
      <4> QED BY <1>5, <4>1, <4>2
    <3>2. /\ acct'.token <= tokens'
          /\ \A m \in inbox' : m[1] <= tokens' /\ (m[1] = acct'.token => m[2] <= acct'.addr)
      BY <1>0, <3>1, NumbersOf DEF TokensInv
    <3>3. ASSUME NEW g \in Handler
          PROVE  /\ local'[g].gen <= acct'.gen /\ local'[g].token <= tokens'
                 /\ (pc'[g] = "mail" /\ local'[g].token = acct'.token) =>
                       local'[g].addr <= acct'.addr
                 /\ (pc'[g] = "resend" /\ Reaches(g)') => local'[g].addr <= acct'.addr
      <4>1. CASE g = h
        BY <1>0, <3>1, <4>1, NumbersOf DEF Blank
      <4>2. CASE g # h
        <5>1. /\ local[g].gen <= acct.gen /\ local[g].token <= tokens
              /\ pc[g] = "mail" => local[g].token # 0
          BY <1>0 DEF TokensInv, TypeOK, HandlerTypeOK
        <5> QED BY <1>0, <3>1, <4>2, <5>1, NumbersOf DEF Reaches
      <4> QED BY <4>1, <4>2
    <3> QED BY <3>2, <3>3 DEF TokensInv
  <2> QED BY <2>1, <2>2
<1>6. ASSUME NEW h \in Handler, MailToken(h) PROVE TokensInv'
  <2>1. /\ inbox' = inbox \cup {<<local[h].token, local[h].addr>>}
        /\ pc[h] = "mail" /\ pc'[h] = "idle" /\ local'[h] = Blank
        /\ UNCHANGED <<acct, tokens>>
        /\ \A g \in Handler \ {h} : pc'[g] = pc[g] /\ local'[g] = local[g]
    BY <1>0, <1>6, Alone DEF MailToken, Return
  <2>2. \A m \in inbox' : m[1] <= tokens' /\ (m[1] = acct'.token => m[2] <= acct'.addr)
    BY <1>0, <2>1 DEF TokensInv
  <2>3. ASSUME NEW g \in Handler
        PROVE  /\ local'[g].gen <= acct'.gen /\ local'[g].token <= tokens'
               /\ (pc'[g] = "mail" /\ local'[g].token = acct'.token) =>
                     local'[g].addr <= acct'.addr
               /\ (pc'[g] = "resend" /\ Reaches(g)') => local'[g].addr <= acct'.addr
    <3>1. CASE g = h
      BY <1>0, <2>1, <3>1, NumbersOf DEF Blank
    <3>2. CASE g # h
      BY <1>0, <2>1, <3>2 DEF TokensInv, Reaches
    <3> QED BY <3>1, <3>2
  <2> QED BY <1>0, <2>1, <2>2, <2>3 DEF TokensInv
<1>7. ASSUME NEW h \in Handler, ResendWrite(h) PROVE TokensInv'
  <2>1. CASE ~Reaches(h)
    <3>1. Return(h) /\ UNCHANGED <<acct, inbox, tokens>>
      BY <1>7, <2>1 DEF ResendWrite
    <3>2. pc'[h] = "idle" /\ local'[h] = Blank
          /\ \A g \in Handler \ {h} : pc'[g] = pc[g] /\ local'[g] = local[g]
      BY <1>0, <3>1, Alone DEF Return
    <3>3. Steady
      BY <3>1 DEF Steady
    <3> QED BY <1>0, <3>1, <3>2, <3>3, SteadyTokens
  <2>2. CASE Reaches(h)
    <3>1. /\ tokens' = tokens + 1 /\ UNCHANGED inbox
          /\ acct' = [acct EXCEPT !.token = tokens', !.window = "open"]
          /\ Hold(h, [local[h] EXCEPT !.token = tokens'])
          /\ Go(h, "mail") /\ pc[h] = "resend"
      BY <1>7, <2>2 DEF ResendWrite, NewToken
    <3>2. /\ acct'.gen = acct.gen /\ acct'.addr = acct.addr /\ acct'.state = acct.state
          /\ acct'.token = tokens + 1
      BY <1>0, <3>1, NumbersOf DEF Account
    <3>3. /\ pc'[h] = "mail" /\ local'[h] = [local[h] EXCEPT !.token = tokens']
          /\ \A g \in Handler \ {h} : pc'[g] = pc[g] /\ local'[g] = local[g]
      BY <1>0, <3>1, Alone
    <3>4. /\ local'[h].gen = local[h].gen /\ local'[h].addr = local[h].addr
          /\ local'[h].token = tokens'
      BY <1>0, <3>3, NumbersOf DEF Local
    <3>5. /\ acct'.token <= tokens'
          /\ \A m \in inbox' : m[1] <= tokens' /\ (m[1] = acct'.token => m[2] <= acct'.addr)
      BY <1>0, <3>1, <3>2, NumbersOf DEF TokensInv
    <3>6. ASSUME NEW g \in Handler
          PROVE  /\ local'[g].gen <= acct'.gen /\ local'[g].token <= tokens'
                 /\ (pc'[g] = "mail" /\ local'[g].token = acct'.token) =>
                       local'[g].addr <= acct'.addr
                 /\ (pc'[g] = "resend" /\ Reaches(g)') => local'[g].addr <= acct'.addr
      <4>1. CASE g = h
        <5>1. local[h].gen <= acct.gen /\ local[h].addr <= acct.addr
          BY <1>0, <2>2, <3>1 DEF TokensInv
        <5>2. tokens' \in Nat
          BY <1>0, <3>1, NumbersOf
        <5>3. /\ local'[g].gen <= acct'.gen /\ local'[g].token <= tokens'
              /\ local'[g].addr <= acct'.addr
          BY <3>2, <3>4, <4>1, <5>1, <5>2
        <5> QED BY <5>3
      <4>2. CASE g # h
        <5>1. local[g].token <= tokens
          BY <1>0 DEF TokensInv
        <5> QED BY <1>0, <3>1, <3>2, <3>3, <4>2, <5>1, NumbersOf DEF TokensInv, Reaches
      <4> QED BY <4>1, <4>2
    <3> QED BY <3>5, <3>6 DEF TokensInv
  <2> QED BY <2>1, <2>2
<1> QED
  BY <1>1, <1>2, <1>3, <1>4, <1>5, <1>6, <1>7 DEF Next, Continue

(* The grounds a row has stay with it. *)
LEMMA VouchedStays ==
  ASSUME TypeOK, Vouched, acct'.gen = acct.gen,
         acct'.addr \in {acct.addr, acct.addr + 1}, grounds \subseteq grounds'
  PROVE  Vouched'
<1>1. \A a \in 0 .. acct.addr : a \in 0 .. acct'.addr
  BY NumbersOf
<1> QED BY <1>1 DEF Vouched

LEMMA NextEvidence == EvidenceInv /\ NoneIsBlank /\ [Next]_vars => EvidenceInv'
<1> SUFFICES ASSUME EvidenceInv, NoneIsBlank, [Next]_vars PROVE EvidenceInv'
  OBVIOUS
<1>0. TypeOK /\ TypeOK' /\ TokensInv /\ TokensInv' /\ acct \in Account
  BY NextTypes, NextTokens, NumbersOf DEF EvidenceInv
<1>v. VerifiedWasProved <=> (acct.verified => Vouched)
  BY DEF VerifiedWasProved, Vouched
<1>1. acct.verified => Vouched
  BY <1>v DEF EvidenceInv
<1>2. \A h \in Handler : (pc[h] = "verify" /\ Reaches(h)) => Vouched
  BY DEF EvidenceInv
<1>3. ASSUME acct'.verified => Vouched',
             \A h \in Handler : (pc'[h] = "verify" /\ Reaches(h)') => Vouched'
      PROVE  EvidenceInv'
  <2>1. VerifiedWasProved'
    BY <1>3 DEF VerifiedWasProved, Vouched
  <2> QED BY <1>0, <1>3, <2>1 DEF EvidenceInv
(* A step after which the row is the same one, and nobody else verifies.   *)
<1>4. ASSUME NEW h \in Handler, acct'.gen = acct.gen, acct'.addr = acct.addr,
             acct'.state = acct.state, grounds \subseteq grounds',
             \A g \in Handler \ {h} : pc'[g] = pc[g] /\ local'[g] = local[g],
             (pc'[h] = "verify" /\ Reaches(h)') => Vouched',
             acct'.verified => Vouched'
      PROVE  EvidenceInv'
  <2>1. Vouched => Vouched'
    BY <1>0, <1>4, VouchedStays
  <2>2. ASSUME NEW g \in Handler, pc'[g] = "verify", Reaches(g)' PROVE Vouched'
    BY <1>2, <1>4, <2>1, <2>2 DEF Reaches
  <2> QED BY <1>3, <1>4, <2>2
<1>5. ASSUME NEW h \in Handler, Begin(h) PROVE EvidenceInv'
  <2>1. /\ UNCHANGED acct /\ grounds \subseteq grounds'
        /\ \A g \in Handler \ {h} : pc'[g] = pc[g] /\ local'[g] = local[g]
    <3>1. grounds \subseteq grounds'
      BY <1>5 DEF Begin, RegisterRead, CreateRead, VerifyRead, OAuthRead, ResendRead,
                  LoginWrong, LoginRight
    <3> QED BY <1>0, <1>5, <3>1, BeginIsSteady
  <2>2. CASE VerifyRead(h)
    <3>1. PICK m \in inbox : /\ m[1] = acct.token
                             /\ grounds' = grounds \cup {<<acct.gen, m[2], "shown">>}
      BY <2>2 DEF VerifyRead
    <3>2. m[2] \in 0 .. acct.addr
      BY <1>0, <3>1, NumbersOf DEF TokensInv
    <3>3. Vouched'
      BY <2>1, <3>1, <3>2 DEF Vouched, Grounds
    <3> QED BY <1>4, <2>1, <3>3
  <2>3. CASE OAuthRead(h)
    <3>1. PICK g \in Grounds : grounds' = grounds \cup {<<acct.gen, acct.addr, g>>}
      BY <2>3 DEF OAuthRead
    <3>2. acct.addr \in 0 .. acct.addr
      BY <1>0, NumbersOf
    <3>3. Vouched'
      BY <2>1, <3>1, <3>2 DEF Vouched
    <3> QED BY <1>4, <2>1, <3>3
  <2>4. CASE RegisterRead(h) \/ CreateRead(h) \/ ResendRead(h) \/ LoginWrong(h) \/ LoginRight(h)
    <3>1. /\ \E label \in {"register", "create", "resend", "count", "clear"} : Go(h, label)
          /\ UNCHANGED grounds
      BY <2>4 DEF RegisterRead, CreateRead, ResendRead, LoginWrong, LoginRight, Start
    <3>2. pc'[h] # "verify"
      BY <1>0, <3>1, NumbersOf DEF Go
    <3>3. Vouched => Vouched'
      BY <2>1, <3>1 DEF Vouched
    <3> QED BY <1>1, <1>4, <2>1, <3>2, <3>3
  <2> QED BY <1>5, <2>2, <2>3, <2>4 DEF Begin
<1>6. ASSUME NEW h \in Handler, VerifyWrite(h) PROVE EvidenceInv'
  <2>1. WriteFacts(h)
    BY <1>0, <1>6, WriteIsSteady DEF WriteFacts
  <2>2. acct'.verified => acct.verified \/ (pc[h] = "verify" /\ Reaches(h))
    BY <1>0, <1>6 DEF VerifyWrite, Account
  <2>3. Vouched => Vouched'
    BY <1>0, <2>1, VouchedStays DEF WriteFacts, Steady
  <2> QED BY <1>1, <1>2, <1>4, <2>1, <2>2, <2>3 DEF WriteFacts, Steady
<1>7. ASSUME NEW h \in Handler, LoginCount(h) \/ LoginLock(h) \/ LoginClear(h) \/ Die(h)
      PROVE  EvidenceInv'
  <2>1. WriteFacts(h)
    BY <1>0, <1>7, WriteIsSteady DEF WriteFacts
  <2>2. acct'.verified = acct.verified
    <3>1. CASE LoginCount(h)
      BY <1>0, <3>1 DEF LoginCount, Account
    <3>2. CASE LoginLock(h) \/ LoginClear(h)
      BY <1>0, <3>2 DEF LoginLock, LoginClear, Account
    <3>3. CASE Die(h)
      BY <3>3 DEF Die
    <3> QED BY <1>7, <3>1, <3>2, <3>3
  <2>3. Vouched => Vouched'
    BY <1>0, <2>1, VouchedStays DEF WriteFacts, Steady
  <2> QED BY <1>1, <1>4, <2>1, <2>2, <2>3 DEF WriteFacts, Steady
<1>8. ASSUME NEW h \in Handler, MailToken(h) \/ ResendWrite(h) PROVE EvidenceInv'
  <2>1. /\ \E label \in {"idle", "mail"} : \E v : Go(h, label) /\ Hold(h, v)
        /\ UNCHANGED grounds
    BY <1>8 DEF MailToken, ResendWrite, Return
  <2>2. /\ pc'[h] # "verify"
        /\ \A g \in Handler \ {h} : pc'[g] = pc[g] /\ local'[g] = local[g]
    BY <1>0, <2>1, Alone
  <2>3. /\ acct'.gen = acct.gen /\ acct'.addr = acct.addr /\ acct'.state = acct.state
        /\ acct'.verified = acct.verified
    BY <1>0, <1>8 DEF MailToken, ResendWrite, Account
  <2>4. Vouched => Vouched'
    BY <1>0, <2>1, <2>3, VouchedStays
  <2> QED BY <1>1, <1>4, <2>1, <2>2, <2>3, <2>4
<1>9. ASSUME NEW h \in Handler, RegisterCreate(h) \/ CreateVerified(h) PROVE EvidenceInv'
  <2>1. CASE acct.state # "none"
    <3>1. Return(h) /\ UNCHANGED <<acct, grounds>>
      BY <1>9, <2>1 DEF CreateVerified, RegisterCreate
    <3>2. pc'[h] = "idle"
          /\ \A g \in Handler \ {h} : pc'[g] = pc[g] /\ local'[g] = local[g]
      BY <1>0, <3>1, Alone DEF Return
    <3>3. Vouched => Vouched'
      BY <3>1 DEF Vouched
    <3> QED BY <1>1, <1>4, <3>1, <3>2, <3>3
  <2>2. CASE acct.state = "none"
    <3>1. acct'.gen = acct.gen + 1 /\ acct'.addr = 0
      BY <1>9, <2>2 DEF CreateVerified, RegisterCreate, NewRow, NoAccount
    <3>2. acct'.verified => Vouched'
      <4>1. CASE RegisterCreate(h)
        BY <2>2, <4>1 DEF RegisterCreate, NewRow, NoAccount
      <4>2. CASE CreateVerified(h)
        <5>1. grounds' = grounds \cup {<<acct.gen + 1, 0, "shown">>}
          BY <2>2, <4>2 DEF CreateVerified
        <5>2. 0 \in 0 .. acct'.addr /\ "shown" \in Grounds
          BY <3>1 DEF Grounds
        <5> QED BY <3>1, <5>1, <5>2 DEF Vouched
      <4> QED BY <1>9, <4>1, <4>2
    <3>3. /\ pc'[h] # "verify"
          /\ \A g \in Handler \ {h} : pc'[g] = pc[g] /\ local'[g] = local[g]
      <4>1. \E label \in {"idle", "mail"} : \E v : Go(h, label) /\ Hold(h, v)
        BY <1>9 DEF RegisterCreate, CreateVerified, Return
      <4> QED BY <1>0, <4>1, Alone
    <3>4. ASSUME NEW g \in Handler, pc'[g] = "verify" PROVE ~Reaches(g)'
      <4>1. local'[g] = local[g] /\ local[g].gen <= acct.gen
        BY <1>0, <3>3, <3>4 DEF TokensInv
      <4>2. local[g].gen \in Nat /\ acct.gen \in Nat
        BY <1>0, NumbersOf
      <4> QED BY <3>1, <4>1, <4>2 DEF Reaches
    <3> QED BY <1>3, <3>2, <3>4
  <2> QED BY <2>1, <2>2
<1>10. CASE WindowEnds \/ LockEnds \/ Delete \/ Cleanup \/ Purge \/ ChangeEmail
  <2>1. /\ UNCHANGED <<grounds, pc, local>> /\ acct'.gen = acct.gen
        /\ acct'.state = "none" => ~acct'.verified
        /\ acct'.state # "none" =>
             /\ acct'.addr \in {acct.addr, acct.addr + 1}
             /\ acct.state # "none"
             /\ acct'.verified = acct.verified
    BY <1>0, <1>10, OutsideIsSteady DEF Steady
  <2>2. acct'.state # "none" => (Vouched => Vouched')
    BY <1>0, <2>1, VouchedStays
  <2>3. ASSUME NEW g \in Handler, pc'[g] = "verify", Reaches(g)' PROVE Vouched'
    BY <1>2, <2>1, <2>2, <2>3 DEF Reaches
  <2> QED BY <1>1, <1>3, <2>1, <2>2, <2>3
<1>11. CASE UNCHANGED vars
  BY <1>1, <1>2, <1>3, <1>11 DEF vars, Vouched, Reaches
<1> QED
  BY <1>5, <1>6, <1>7, <1>8, <1>9, <1>10, <1>11 DEF Next, Continue

(* VerifiedWasProved: a row is verified only on grounds that concern that  *)
(* row, not an earlier one, and an address it has or had.                  *)
THEOREM VerifiedOnEvidence == Spec => []VerifiedWasProved
<1>1. Init => EvidenceInv
  <2> SUFFICES ASSUME Init PROVE EvidenceInv
    OBVIOUS
  <2>1. TypeOK
    BY InitTypes
  <2>2. TokensInv
    BY AccountsAssumption DEF Init, TokensInv, NoAccount, Blank
  <2> QED BY <2>1, <2>2 DEF Init, EvidenceInv, VerifiedWasProved, NoAccount
<1>2. EvidenceInv => VerifiedWasProved
  BY DEF EvidenceInv
<1>3. LockInv => NoneIsBlank
  BY DEF LockInv
<1> QED BY <1>1, <1>2, <1>3, NextEvidence, LockInvariant, PTL DEF Spec

(* VerifiedIsKept: no step removes a verified account that is not soft-    *)
(* deleted, or puts another row in its place.                              *)
THEOREM VerifiedStays == Spec => VerifiedIsKept
<1> DEFINE Kept == (acct.state = "there" /\ acct.verified) =>
                      (acct'.state # "none" /\ acct'.gen = acct.gen)
<1>1. ASSUME TypeOK, [Next]_vars PROVE [Kept]_vars
  <2>0. acct \in Account
    BY <1>1 DEF TypeOK, RowTypeOK
  <2>1. ASSUME NEW h \in Handler, Begin(h) \/ Die(h) PROVE Kept
    <3>1. UNCHANGED acct
      BY <2>1 DEF Begin, RegisterRead, CreateRead, ResendRead, VerifyRead, OAuthRead,
                  LoginWrong, LoginRight, Die
    <3> QED BY <3>1
  <2>2. ASSUME NEW h \in Handler, Continue(h) PROVE Kept
    <3>1. CASE RegisterCreate(h) \/ CreateVerified(h) \/ MailToken(h)
      BY <3>1 DEF RegisterCreate, CreateVerified, MailToken
    <3>2. CASE VerifyWrite(h) \/ ResendWrite(h)
      BY <2>0, <3>2 DEF VerifyWrite, ResendWrite, Account
    <3>3. CASE LoginCount(h) \/ LoginLock(h) \/ LoginClear(h)
      BY <2>0, <3>3 DEF LoginCount, LoginLock, LoginClear, Account
    <3> QED BY <2>2, <3>1, <3>2, <3>3 DEF Continue
  <2>3. CASE WindowEnds \/ LockEnds \/ Delete \/ Cleanup \/ Purge \/ ChangeEmail
    BY <2>0, <2>3 DEF WindowEnds, LockEnds, Delete, Cleanup, Purge, ChangeEmail, Account
  <2> QED BY <1>1, <2>1, <2>2, <2>3 DEF Next
<1>2. TypeOK /\ [Next]_vars => [Kept]_vars
  BY <1>1
<1> QED BY <1>2, TypeCorrect, PTL DEF Spec, VerifiedIsKept

-----------------------------------------------------------------------------
(* The guesses. *)

(* Requests that have compared a wrong password, and those that have       *)
(* counted it at the limit, for the row as it is.                          *)
Counting == {h \in Handler : pc[h] = "count" /\ local[h].gen = acct.gen}
Locking == {h \in Handler : pc[h] = "lock" /\ local[h].gen = acct.gen}

(* What e expired locks allow, without the requests now in flight. *)
Allowed(e) == (MAX_LOGIN_ATTEMPTS - 1) + Cardinality(Handler) * e

(* lost are the requests that died before they counted; the other faults   *)
(* are those that died before they locked, or elsewhere.                   *)
Budget(lost) ==
    /\ acct.state # "none" => guesses <= acct.attempts + Cardinality(Counting) + lost
    /\ ~acct.locked =>
          acct.attempts <= Allowed(expiries) + Cardinality(Locking) + (faults - lost)
    /\ acct.attempts + Cardinality(Counting) <= Allowed(expiries + 1) + (faults - lost)

GuessInv == \E lost \in 0 .. faults : Budget(lost)

LEMMA AllowedFacts ==
  ASSUME NEW e \in Nat
  PROVE  /\ Cardinality(Handler) \in Nat
         /\ Allowed(e) \in Nat
         /\ MAX_LOGIN_ATTEMPTS - 1 <= Allowed(e)
         /\ Allowed(e + 1) = Allowed(e) + Cardinality(Handler)
<1> DEFINE n == Cardinality(Handler)
<1>1. n \in Nat /\ MAX_LOGIN_ATTEMPTS \in Nat \ {0}
  BY AccountsAssumption, FS_CardinalityType
<1> HIDE DEF n
<1>2. n * e \in Nat /\ n * (e + 1) = n * e + n
  BY <1>1
<1> QED BY <1>1, <1>2 DEF Allowed, n

(* Two disjoint sets of requests, with and without one of them. *)
LEMMA PoolSizes ==
  ASSUME NEW S \in SUBSET Handler, NEW T \in SUBSET Handler, S \cap T = {},
         NEW h \in Handler
  PROVE  /\ Cardinality(S) \in Nat /\ Cardinality(T) \in Nat
         /\ Cardinality(S) + Cardinality(T) <= Cardinality(Handler)
         /\ Cardinality(S \ {h}) = IF h \in S THEN Cardinality(S) - 1 ELSE Cardinality(S)
         /\ Cardinality(T \ {h}) = IF h \in T THEN Cardinality(T) - 1 ELSE Cardinality(T)
<1>1. IsFiniteSet(S) /\ IsFiniteSet(T)
  BY AccountsAssumption, FS_Subset
<1>2. Cardinality(S \cup T) = Cardinality(S) + Cardinality(T)
  <2>1. Cardinality(S \cup T) = Cardinality(S) + Cardinality(T) - Cardinality({})
    BY <1>1, FS_Union
  <2> QED BY <1>1, <2>1, FS_EmptySet, FS_CardinalityType
<1>3. Cardinality(S \cup T) <= Cardinality(Handler)
  <2>1. S \cup T \in SUBSET Handler
    OBVIOUS
  <2> QED BY <2>1, AccountsAssumption, FS_Subset
<1> QED BY <1>1, <1>2, <1>3, FS_CardinalityType, FS_RemoveElement

(* What a step of h does to the sizes of Counting and Locking. *)
LEMMA Sizes ==
  ASSUME NEW h \in Handler, acct'.gen = acct.gen,
         \A g \in Handler \ {h} : pc'[g] = pc[g] /\ local'[g] = local[g]
  PROVE  /\ Cardinality(Counting) \in Nat /\ Cardinality(Locking) \in Nat
         /\ Cardinality(Counting') \in Nat /\ Cardinality(Locking') \in Nat
         /\ Cardinality(Counting') + Cardinality(Locking') <= Cardinality(Handler)
         /\ Cardinality(Counting') + (IF h \in Counting THEN 1 ELSE 0)
               = Cardinality(Counting) + (IF h \in Counting' THEN 1 ELSE 0)
         /\ Cardinality(Locking') + (IF h \in Locking THEN 1 ELSE 0)
               = Cardinality(Locking) + (IF h \in Locking' THEN 1 ELSE 0)
<1>1. /\ Counting \in SUBSET Handler /\ Locking \in SUBSET Handler
      /\ Counting \cap Locking = {}
      /\ Counting' \in SUBSET Handler /\ Locking' \in SUBSET Handler
      /\ Counting' \cap Locking' = {}
  BY DEF Counting, Locking
<1>2. Counting' \ {h} = Counting \ {h} /\ Locking' \ {h} = Locking \ {h}
  BY DEF Counting, Locking
<1>3. /\ Cardinality(Counting) \in Nat /\ Cardinality(Locking) \in Nat
      /\ Cardinality(Counting \ {h})
            = IF h \in Counting THEN Cardinality(Counting) - 1 ELSE Cardinality(Counting)
      /\ Cardinality(Locking \ {h})
            = IF h \in Locking THEN Cardinality(Locking) - 1 ELSE Cardinality(Locking)
  BY <1>1, PoolSizes
<1>4. /\ Cardinality(Counting') \in Nat /\ Cardinality(Locking') \in Nat
      /\ Cardinality(Counting') + Cardinality(Locking') <= Cardinality(Handler)
      /\ Cardinality(Counting' \ {h})
            = IF h \in Counting' THEN Cardinality(Counting') - 1 ELSE Cardinality(Counting')
      /\ Cardinality(Locking' \ {h})
            = IF h \in Locking' THEN Cardinality(Locking') - 1 ELSE Cardinality(Locking')
  BY <1>1, PoolSizes
<1>5. /\ Cardinality(Counting' \ {h}) = Cardinality(Counting \ {h})
      /\ Cardinality(Locking' \ {h}) = Cardinality(Locking \ {h})
  BY <1>2, Zenon
<1> QED BY <1>3, <1>4, <1>5

(* A counter that begins anew is within every budget. *)
LEMMA FreshBudget ==
  ASSUME TypeOK', acct'.attempts = 0, guesses' = 0
  PROVE  GuessInv'
<1>1. expiries' \in Nat /\ faults' \in Nat
  BY AccountsAssumption DEF TypeOK, HistoryTypeOK, CounterTypeOK
<1>2. /\ Allowed(expiries') \in Nat /\ Cardinality(Handler) \in Nat
      /\ Allowed(expiries' + 1) = Allowed(expiries') + Cardinality(Handler)
  BY <1>1, AllowedFacts
<1>3. /\ Cardinality(Counting') \in Nat /\ Cardinality(Locking') \in Nat
      /\ Cardinality(Counting') <= Cardinality(Handler)
  BY AccountsAssumption, FS_Subset, FS_CardinalityType DEF Counting, Locking
<1>4. Budget(0)'
  BY <1>1, <1>2, <1>3 DEF Budget
<1> QED BY <1>1, <1>4 DEF GuessInv

(* The numbers of the budget, before a step. *)
LEMMA Numbers ==
  ASSUME TypeOK
  PROVE  /\ expiries \in Nat /\ faults \in Nat /\ guesses \in Nat
         /\ acct \in Account /\ acct.attempts \in Nat
         /\ pc \in [Handler -> PC] /\ local \in [Handler -> Local]
         /\ Cardinality(Handler) \in Nat /\ MAX_LOGIN_ATTEMPTS \in Nat \ {0}
         /\ Allowed(expiries) \in Nat /\ Allowed(expiries + 1) \in Nat
         /\ MAX_LOGIN_ATTEMPTS - 1 <= Allowed(expiries)
         /\ Allowed(expiries + 1) = Allowed(expiries) + Cardinality(Handler)
         /\ Allowed(expiries + 2) = Allowed(expiries + 1) + Cardinality(Handler)
<1>1. expiries \in Nat /\ expiries + 1 \in Nat /\ (expiries + 1) + 1 = expiries + 2
  BY AccountsAssumption DEF TypeOK, HistoryTypeOK
<1>2. faults \in Nat /\ guesses \in Nat /\ acct \in Account /\ acct.attempts \in Nat
  BY AccountsAssumption DEF TypeOK, HistoryTypeOK, CounterTypeOK, RowTypeOK, Account
<1>3. Allowed((expiries + 1) + 1) = Allowed(expiries + 1) + Cardinality(Handler)
  BY <1>1, AllowedFacts
<1> QED
  BY <1>1, <1>2, <1>3, AllowedFacts, AccountsAssumption DEF TypeOK, HandlerTypeOK

(* A step of h that neither guesses, counts nor locks. *)
LEMMA QuietStep ==
  ASSUME TypeOK, GuessInv, NEW h \in Handler,
         acct'.gen = acct.gen, acct'.attempts = acct.attempts,
         acct'.locked = acct.locked, acct'.state # "none" => acct.state # "none",
         UNCHANGED <<guesses, expiries, faults>>,
         \A g \in Handler \ {h} : pc'[g] = pc[g] /\ local'[g] = local[g],
         h \notin Counting, h \notin Locking, h \notin Counting', h \notin Locking'
  PROVE  GuessInv'
<1>1. /\ Cardinality(Counting') = Cardinality(Counting)
      /\ Cardinality(Locking') = Cardinality(Locking)
  BY Sizes
<1>2. PICK lost \in 0 .. faults : Budget(lost)
  BY DEF GuessInv
<1>3. Budget(lost)'
  BY <1>1, <1>2 DEF Budget
<1> QED BY <1>3 DEF GuessInv

LEMMA NextGuesses ==
  TypeOK /\ TypeOK' /\ NoneIsBlank /\ GuessInv /\ [Next]_vars => GuessInv'
<1> SUFFICES ASSUME TypeOK, TypeOK', NoneIsBlank, GuessInv, [Next]_vars
             PROVE  GuessInv'
  OBVIOUS
<1> USE DEF history
<1>1. acct \in Account /\ pc \in [Handler -> PC] /\ local \in [Handler -> Local]
  BY Numbers
<1>2. PICK lost \in 0 .. faults : Budget(lost)
  BY DEF GuessInv
<1>3. ASSUME NEW h \in Handler, NEW label, Go(h, label), NEW v, Hold(h, v)
      PROVE  /\ \A g \in Handler \ {h} : pc'[g] = pc[g] /\ local'[g] = local[g]
             /\ pc'[h] = label /\ local'[h] = v
  BY <1>1, <1>3 DEF Go, Hold
(* A step of h from one quiet await to another, with the same counter. *)
<1>4. ASSUME NEW h \in Handler, NEW label, Go(h, label), NEW v, Hold(h, v),
             label \notin {"count", "lock"}, pc[h] \notin {"count", "lock"},
             acct'.gen = acct.gen, acct'.attempts = acct.attempts,
             acct'.locked = acct.locked, acct'.state = acct.state,
             UNCHANGED <<guesses, expiries, faults>>
      PROVE  GuessInv'
  BY <1>3, <1>4, QuietStep DEF Counting, Locking
<1>5. ASSUME NEW h \in Handler, Begin(h) PROVE GuessInv'
  <2>1. CASE LoginWrong(h)
    <3>1. /\ acct.state = "there" /\ ~acct.locked /\ UNCHANGED <<acct, expiries, faults>>
          /\ Go(h, "count")
          /\ Hold(h, [gen |-> acct.gen, addr |-> acct.addr, token |-> 0])
          /\ pc[h] = "idle" /\ guesses' = guesses + 1
      BY <2>1 DEF LoginWrong, Start, Found
    <3>2. h \notin Counting /\ h \notin Locking /\ h \in Counting' /\ h \notin Locking'
      BY <3>1, <1>3 DEF Counting, Locking
    <3>3. /\ Cardinality(Counting) \in Nat /\ Cardinality(Locking) \in Nat
          /\ Cardinality(Counting') = Cardinality(Counting) + 1
          /\ Cardinality(Locking') = Cardinality(Locking)
          /\ Cardinality(Counting') + Cardinality(Locking') <= Cardinality(Handler)
      BY <3>1, <3>2, <1>3, Sizes
    <3>4. Budget(lost)'
      BY <1>2, <3>1, <3>3, Numbers DEF Budget
    <3> QED BY <3>1, <3>4 DEF GuessInv
  <2>2. CASE ~LoginWrong(h)
    <3>1. /\ UNCHANGED <<acct, guesses, expiries, faults>>
          /\ \E label \in {"register", "create", "verify", "resend", "clear"} :
                Start(h, label)
      BY <1>5, <2>2 DEF Begin, RegisterRead, CreateRead, ResendRead, VerifyRead,
                        OAuthRead, LoginRight
    <3> QED BY <3>1, <1>4 DEF Start
  <2> QED BY <2>1, <2>2
<1>6. ASSUME NEW h \in Handler, Continue(h) PROVE GuessInv'
  <2>1. CASE RegisterCreate(h) \/ CreateVerified(h)
    <3>1. CASE acct.state = "none"
      <4>1. acct'.attempts = 0 /\ guesses' = 0
        BY <2>1, <3>1 DEF RegisterCreate, CreateVerified, NewRow, NewToken, NoAccount,
                          NoneIsBlank
      <4> QED BY <4>1, FreshBudget
    <3>2. CASE acct.state # "none"
      <4>1. /\ Return(h) /\ UNCHANGED <<acct, guesses, expiries, faults>>
            /\ pc[h] \in {"register", "create"}
        BY <2>1, <3>2 DEF RegisterCreate, CreateVerified
      <4> QED BY <4>1, <1>4 DEF Return
    <3> QED BY <3>1, <3>2
  <2>2. CASE MailToken(h) \/ VerifyWrite(h)
    <3>1. /\ Return(h) /\ UNCHANGED <<guesses, expiries, faults>>
          /\ pc[h] \in {"mail", "verify"}
      BY <2>2 DEF MailToken, VerifyWrite
    <3>2. /\ acct'.attempts = acct.attempts /\ acct'.gen = acct.gen
          /\ acct'.locked = acct.locked /\ acct'.state = acct.state
      BY <1>1, <2>2 DEF MailToken, VerifyWrite, Account
    <3> QED BY <3>1, <3>2, <1>4 DEF Return
  <2>3. CASE ResendWrite(h)
    <3>1. /\ \E label \in {"mail", "idle"} : Go(h, label) /\ \E v : Hold(h, v)
          /\ UNCHANGED <<guesses, expiries, faults>> /\ pc[h] = "resend"
      BY <2>3 DEF ResendWrite, Return
    <3>2. /\ acct'.attempts = acct.attempts /\ acct'.gen = acct.gen
          /\ acct'.locked = acct.locked /\ acct'.state = acct.state
      BY <1>1, <2>3 DEF ResendWrite, Account
    <3> QED BY <3>1, <3>2, <1>4
  <2>4. CASE LoginCount(h)
    <3>1. /\ pc[h] = "count" /\ UNCHANGED <<guesses, expiries, faults>>
          /\ h \notin Locking
      BY <2>4 DEF LoginCount, Locking
    <3>2. CASE Reaches(h) /\ acct.attempts + 1 >= MAX_LOGIN_ATTEMPTS
      <4>1. /\ acct' = [acct EXCEPT !.attempts = @ + 1]
            /\ Go(h, "lock") /\ UNCHANGED local
        BY <2>4, <3>2 DEF LoginCount
      <4>2. /\ acct'.attempts = acct.attempts + 1 /\ acct'.gen = acct.gen
            /\ acct'.locked = acct.locked /\ acct'.state = acct.state
            /\ \A g \in Handler \ {h} : pc'[g] = pc[g] /\ local'[g] = local[g]
            /\ pc'[h] = "lock"
        BY <1>1, <4>1 DEF Account, Go
      <4>3. h \in Counting /\ h \notin Counting' /\ h \in Locking'
        BY <3>1, <3>2, <4>1, <4>2 DEF Counting, Locking, Reaches
      <4>4. /\ Cardinality(Counting) \in Nat /\ Cardinality(Locking) \in Nat
            /\ Cardinality(Counting') = Cardinality(Counting) - 1
            /\ Cardinality(Locking') = Cardinality(Locking) + 1
        BY <3>1, <4>2, <4>3, Sizes
      <4>5. Budget(lost)'
        BY <1>2, <3>1, <4>2, <4>4, Numbers DEF Budget
      <4> QED BY <3>1, <4>5 DEF GuessInv
    <3>3. CASE Reaches(h) /\ ~(acct.attempts + 1 >= MAX_LOGIN_ATTEMPTS)
      <4>1. acct' = [acct EXCEPT !.attempts = @ + 1] /\ Return(h)
        BY <2>4, <3>3 DEF LoginCount
      <4>2. /\ acct'.attempts = acct.attempts + 1 /\ acct'.gen = acct.gen
            /\ acct'.locked = acct.locked /\ acct'.state = acct.state
        BY <1>1, <4>1 DEF Account
      <4>3. h \in Counting /\ h \notin Counting' /\ h \notin Locking'
        BY <1>3, <3>1, <3>3, <4>1 DEF Counting, Locking, Reaches, Return
      <4>4. /\ Cardinality(Counting) \in Nat /\ Cardinality(Locking) \in Nat
            /\ Cardinality(Counting') = Cardinality(Counting) - 1
            /\ Cardinality(Locking') = Cardinality(Locking)
        BY <1>3, <3>1, <4>1, <4>2, <4>3, Sizes DEF Return
      <4>5. Budget(lost)'
        BY <1>2, <3>1, <3>3, <4>2, <4>4, Numbers DEF Budget
      <4> QED BY <3>1, <4>5 DEF GuessInv
    <3>4. CASE ~Reaches(h)
      <4>1. UNCHANGED acct /\ Return(h)
        BY <2>4, <3>4 DEF LoginCount
      <4>2. CASE acct.state = "none"
        BY <3>1, <4>1, <4>2, FreshBudget DEF NoneIsBlank, NoAccount
      <4>3. CASE acct.state # "none"
        <5>1. h \notin Counting /\ h \notin Counting' /\ h \notin Locking'
          BY <1>3, <3>4, <4>1, <4>3 DEF Counting, Locking, Reaches, Return
        <5> QED BY <1>3, <3>1, <4>1, <5>1, QuietStep DEF Return
      <4> QED BY <4>2, <4>3
    <3> QED BY <3>2, <3>3, <3>4
  <2>5. CASE LoginLock(h)
    <3>1. /\ pc[h] = "lock" /\ UNCHANGED <<guesses, expiries, faults>>
          /\ h \notin Counting /\ Return(h)
      BY <2>5 DEF LoginLock, Counting
    <3>2. CASE Reaches(h)
      <4>1. /\ acct'.attempts = acct.attempts /\ acct'.gen = acct.gen
            /\ acct'.locked = TRUE /\ acct'.state = acct.state
        BY <1>1, <2>5, <3>2 DEF LoginLock, Account
      <4>2. h \notin Counting'
        BY <1>3, <3>1 DEF Counting, Return
      <4>3. Cardinality(Counting') = Cardinality(Counting)
        BY <1>3, <3>1, <4>1, <4>2, Sizes DEF Return
      <4>4. Budget(lost)'
        BY <1>2, <3>1, <4>1, <4>3 DEF Budget
      <4> QED BY <3>1, <4>4 DEF GuessInv
    <3>3. CASE ~Reaches(h)
      <4>1. UNCHANGED acct
        BY <2>5, <3>3 DEF LoginLock
      <4>2. CASE acct.state = "none"
        BY <3>1, <4>1, <4>2, FreshBudget DEF NoneIsBlank, NoAccount
      <4>3. CASE acct.state # "none"
        <5>1. h \notin Locking /\ h \notin Counting' /\ h \notin Locking'
          BY <1>3, <3>1, <3>3, <4>1, <4>3 DEF Counting, Locking, Reaches, Return
        <5> QED BY <1>3, <3>1, <4>1, <5>1, QuietStep DEF Return
      <4> QED BY <4>2, <4>3
    <3> QED BY <3>2, <3>3
  <2>6. CASE LoginClear(h)
    <3>1. CASE Reaches(h)
      <4>1. acct'.attempts = 0 /\ guesses' = 0
        BY <1>1, <2>6, <3>1 DEF LoginClear, ForgetGuesses, Account
      <4> QED BY <4>1, FreshBudget
    <3>2. CASE ~Reaches(h)
      <4>1. Return(h) /\ UNCHANGED <<acct, guesses, expiries, faults>> /\ pc[h] = "clear"
        BY <2>6, <3>2 DEF LoginClear
      <4> QED BY <4>1, <1>4 DEF Return
    <3> QED BY <3>1, <3>2
  <2> QED BY <1>6, <2>1, <2>2, <2>3, <2>4, <2>5, <2>6 DEF Continue
<1>7. ASSUME NEW h \in Handler, Die(h) PROVE GuessInv'
  <2>1. Return(h) /\ UNCHANGED <<acct, guesses, expiries>> /\ faults' = faults + 1
    BY <1>7 DEF Die
  <2>2. h \notin Counting' /\ h \notin Locking'
    BY <1>3, <2>1 DEF Counting, Locking, Return
  <2>3. /\ Cardinality(Counting) \in Nat /\ Cardinality(Locking) \in Nat
        /\ Cardinality(Counting') + (IF h \in Counting THEN 1 ELSE 0)
              = Cardinality(Counting)
        /\ Cardinality(Locking') + (IF h \in Locking THEN 1 ELSE 0)
              = Cardinality(Locking)
    BY <1>3, <2>1, <2>2, Sizes DEF Return
  <2>4. CASE h \in Counting
    <3>1. h \notin Locking
      BY <2>4 DEF Counting, Locking
    <3>2. /\ Cardinality(Counting') = Cardinality(Counting) - 1
          /\ Cardinality(Locking') = Cardinality(Locking)
      BY <1>3, <2>1, <2>3, <2>4, <3>1, Sizes DEF Return
    <3>3. lost + 1 \in 0 .. faults'
      BY <2>1, Numbers
    <3>4. Budget(lost + 1)'
      BY <1>2, <2>1, <2>3, <3>2, Numbers DEF Budget
    <3> QED BY <3>3, <3>4 DEF GuessInv
  <2>5. CASE h \notin Counting
    <3>1. /\ Cardinality(Counting') = Cardinality(Counting)
          /\ Cardinality(Locking') >= Cardinality(Locking) - 1
          /\ Cardinality(Locking') \in Nat
      BY <2>3, <2>5, <1>3, <2>1, Sizes DEF Return
    <3>2. lost \in 0 .. faults'
      BY <2>1, Numbers
    <3>3. Budget(lost)'
      BY <1>2, <2>1, <2>3, <3>1, Numbers DEF Budget
    <3> QED BY <3>2, <3>3 DEF GuessInv
  <2> QED BY <2>4, <2>5
<1>8. ASSUME UNCHANGED <<pc, local, guesses, faults>>, acct'.gen = acct.gen
      PROVE  Counting' = Counting /\ Locking' = Locking
  BY <1>8 DEF Counting, Locking
<1>9. CASE WindowEnds \/ Delete \/ ChangeEmail
  <2>1. /\ acct'.attempts = acct.attempts /\ acct'.gen = acct.gen
        /\ acct'.locked = acct.locked
        /\ acct'.state # "none" => acct.state # "none"
        /\ UNCHANGED <<pc, local, guesses, expiries, faults>>
    BY <1>1, <1>9 DEF WindowEnds, Delete, ChangeEmail, Found, Account
  <2>2. Budget(lost)'
    BY <1>2, <1>8, <2>1 DEF Budget
  <2> QED BY <2>1, <2>2 DEF GuessInv
<1>10. CASE LockEnds
  <2>1. /\ acct'.attempts = acct.attempts /\ acct'.gen = acct.gen
        /\ acct'.state = acct.state /\ expiries' = expiries + 1
        /\ UNCHANGED <<pc, local, guesses, faults>>
    BY <1>1, <1>10 DEF LockEnds, Account
  <2>2. Cardinality(Counting) \in Nat /\ Cardinality(Locking) \in Nat
    BY AccountsAssumption, FS_Subset, FS_CardinalityType DEF Counting, Locking
  <2>3. Allowed(expiries') = Allowed(expiries + 1) /\ Allowed(expiries' + 1) = Allowed(expiries + 2)
    BY <2>1, Numbers
  <2>4. Budget(lost)'
    BY <1>2, <1>8, <2>1, <2>2, <2>3, Numbers DEF Budget
  <2> QED BY <2>1, <2>4 DEF GuessInv
<1>11. CASE Cleanup \/ Purge
  <2>1. acct'.attempts = 0 /\ guesses' = 0
    BY <1>11 DEF Cleanup, Purge, RowIsGone, ForgetGuesses, NoAccount
  <2> QED BY <2>1, FreshBudget
<1>12. CASE UNCHANGED vars
  <2>1. Budget(lost)'
    BY <1>2, <1>8, <1>12 DEF Budget, vars
  <2> QED BY <1>12, <2>1 DEF GuessInv, vars
<1> QED BY <1>5, <1>6, <1>7, <1>9, <1>10, <1>11, <1>12 DEF Next

(* GuessBudget: the number of wrong passwords that are compared between    *)
(* two successful logins is bounded, for any number of requests in flight. *)
THEOREM GuessesAreBounded == Spec => []GuessBudget
<1>1. Init => GuessInv
  <2> SUFFICES ASSUME Init PROVE GuessInv
    OBVIOUS
  <2>1. Counting = {} /\ Locking = {}
    BY DEF Init, Counting, Locking
  <2>2. acct.attempts = 0 /\ guesses = 0 /\ expiries = 0 /\ faults = 0
    BY DEF Init, NoAccount
  <2>3. Cardinality(Counting) = 0 /\ Cardinality(Locking) = 0
    BY <2>1, FS_EmptySet
  <2>4. Budget(0)
    BY <2>2, <2>3, InitTypes, Numbers DEF Budget
  <2> QED BY <2>2, <2>4 DEF GuessInv
<1>2. TypeOK /\ NoneIsBlank /\ GuessInv => GuessBudget
  <2> SUFFICES ASSUME TypeOK, NoneIsBlank, GuessInv PROVE GuessBudget
    OBVIOUS
  <2>1. PICK lost \in 0 .. faults : Budget(lost)
    BY DEF GuessInv
  <2>2. guesses <= Allowed(expiries + 1) + faults
    <3>1. CASE acct.state = "none"
      BY <3>1, Numbers DEF NoneIsBlank
    <3>2. CASE acct.state # "none"
      <4>1. Cardinality(Counting) \in Nat
        BY AccountsAssumption, FS_Subset, FS_CardinalityType DEF Counting
      <4> QED BY <2>1, <3>2, <4>1, Numbers DEF Budget
    <3> QED BY <3>1, <3>2
  <2> QED BY <2>2, Numbers DEF GuessBudget, Allowed
<1>3. LockInv => TypeOK /\ NoneIsBlank
  BY DEF LockInv
<1> QED BY <1>1, <1>2, <1>3, NextGuesses, LockInvariant, PTL DEF Spec
=============================================================================
