------------------------------- MODULE Accounts -------------------------------
(***************************************************************************)
(* The account behind one e-mail address: registered and verified by a     *)
(* mailed token, or created verified by an administrator or an OAuth       *)
(* sign-in; locked after too many wrong passwords; soft-deleted, purged,   *)
(* or cleaned up when nobody verifies it.  updateUser may give the account *)
(* another address; the module then follows the account, and the requests  *)
(* that begin later are those for the address it has by then.              *)
(*                                                                         *)
(* Every request reads the row in its first await and writes it, by its    *)
(* uniqueId, in a later one: by then the row may have changed, or be gone, *)
(* or another one may have taken the address.  isActive is set together    *)
(* with emailVerifiedAt, and no operation that is wired clears either.     *)
(***************************************************************************)
EXTENDS Naturals, FiniteSets

CONSTANTS
    Handler,            \* requests in flight at the same time
    MAX_LOGIN_ATTEMPTS, \* as in auth.service.ts
    MaxAccounts,        \* bound on the rows that the address ever gets
    MaxTokens,          \* bound on the verification tokens
    MaxMoves,           \* bound on the changes of a row's address
    MaxExpiries,        \* bound on lock expirations between two logins
    MaxFaults           \* bound on the requests that die

ASSUME AccountsAssumption ==
    /\ IsFiniteSet(Handler)
    /\ MAX_LOGIN_ATTEMPTS \in Nat \ {0}
    /\ MaxAccounts \in Nat
    /\ MaxTokens \in Nat
    /\ MaxMoves \in Nat
    /\ MaxExpiries \in Nat
    /\ MaxFaults \in Nat

VARIABLES
    acct,       \* the row, of the users table, that has the address
    inbox,      \* tokens mailed, each with the address it was mailed to
    pc,         \* the await each handler is about to perform
    local,      \* what it has read
    tokens,     \* tokens made so far
    faults,     \* requests that died
    guesses,    \* history: wrong passwords since the counter was last cleared
    expiries,   \* history: locks that ran out since then
    lockPlaced, \* history: a lock was placed since then
    lockDied,   \* history: a request died before it placed one, since then
    grounds     \* history: what there was to go by when a row was verified

vars == <<acct, inbox, pc, local, tokens, faults, guesses, expiries, lockPlaced,
          lockDied, grounds>>

history == <<guesses, expiries, lockPlaced, lockDied>>

(* gen stands for uniqueId; addr for email, the first one the row has or   *)
(* the n-th after that; token for the hash, 0 where it is null; window for *)
(* verificationExpiresAt: null, to come, or past; locked for               *)
(* lockedUntil > now.                                                      *)
Account == [state : {"none", "there", "removed"}, gen : 0 .. MaxAccounts,
            addr : 0 .. MaxMoves, verified : BOOLEAN, token : 0 .. MaxTokens,
            window : {"null", "open", "over"}, attempts : Nat, locked : BOOLEAN]

(* The uniqueId and the email of the row it read, and the token it made.   *)
Local == [gen : 0 .. MaxAccounts, addr : 0 .. MaxMoves, token : 0 .. MaxTokens]

Blank == [gen |-> 0, addr |-> 0, token |-> 0]

(* An address of a row is "shown" to be the owner's by a token mailed to   *)
(* it, an administrator, or a provider who has verified it; it is          *)
(* "claimed" by a sign-in whose provider has not.                          *)
Grounds == {"shown", "claimed"}

PC == {"idle", "register", "create", "mail", "verify", "resend", "count", "lock",
       "clear"}

(* The row; one that is there has a uniqueId. *)
RowTypeOK ==
    /\ acct \in Account
    /\ acct.state # "none" => acct.gen # 0

(* The requests; one that is about to mail a token has one. *)
HandlerTypeOK ==
    /\ pc \in [Handler -> PC]
    /\ local \in [Handler -> Local]
    /\ \A h \in Handler : pc[h] = "mail" => local[h].token # 0

CounterTypeOK ==
    /\ inbox \in SUBSET ((1 .. MaxTokens) \X (0 .. MaxMoves))
    /\ tokens \in 0 .. MaxTokens
    /\ faults \in 0 .. MaxFaults

HistoryTypeOK ==
    /\ guesses \in Nat
    /\ expiries \in 0 .. MaxExpiries
    /\ lockPlaced \in BOOLEAN
    /\ lockDied \in BOOLEAN
    /\ grounds \in SUBSET ((1 .. MaxAccounts) \X (0 .. MaxMoves) \X Grounds)

TypeOK == RowTypeOK /\ HandlerTypeOK /\ CounterTypeOK /\ HistoryTypeOK

NoAccount(gen) ==
    [state |-> "none", gen |-> gen, addr |-> 0, verified |-> FALSE, token |-> 0,
     window |-> "null", attempts |-> 0, locked |-> FALSE]

Init ==
    /\ acct = NoAccount(0)
    /\ inbox = {}
    /\ pc = [h \in Handler |-> "idle"]
    /\ local = [h \in Handler |-> Blank]
    /\ tokens = 0
    /\ faults = 0
    /\ guesses = 0
    /\ expiries = 0
    /\ lockPlaced = FALSE
    /\ lockDied = FALSE
    /\ grounds = {}

-----------------------------------------------------------------------------
(* The finds go through the client extension: a removed row is not found. *)
Found == acct.state = "there"

(* An update by uniqueId reaches the row the handler read, removed or not, *)
(* and fails (P2025) once that row is gone.                                *)
Reaches(h) == acct.state # "none" /\ acct.gen = local[h].gen

Go(h, label) == pc' = [pc EXCEPT ![h] = label]

Hold(h, v) == local' = [local EXCEPT ![h] = v]

Return(h) == Go(h, "idle") /\ Hold(h, Blank)

Start(h, label) ==
    /\ pc[h] = "idle"
    /\ Go(h, label)
    /\ Hold(h, [gen |-> acct.gen, addr |-> acct.addr, token |-> 0])

(* A cleared counter, or no row: the count of guesses begins anew. *)
ForgetGuesses ==
    /\ guesses' = 0
    /\ expiries' = 0
    /\ lockPlaced' = FALSE
    /\ lockDied' = FALSE

RowIsGone == acct' = NoAccount(acct.gen) /\ ForgetGuesses

NewToken == tokens < MaxTokens /\ tokens' = tokens + 1

-----------------------------------------------------------------------------
(* Registration: AuthService.createUser. *)

(* The address is free, as far as findByEmail sees. *)
RegisterRead(h) ==
    /\ ~Found
    /\ Start(h, "register")
    /\ UNCHANGED <<acct, inbox, tokens, faults, history, grounds>>

(* The next row of the address. *)
NewRow(r) == acct.gen < MaxAccounts /\ acct' = r

(* A mutant: the row gets a token and no verificationExpiresAt. *)
BugRegisterCreate(h) ==
    /\ pc[h] = "register"
    /\ IF acct.state = "none"
       THEN /\ NewToken
            /\ NewRow([NoAccount(acct.gen + 1) EXCEPT
                          !.state = "there", !.token = tokens'])
            /\ Hold(h, [gen |-> acct.gen + 1, addr |-> 0, token |-> tokens'])
            /\ Go(h, "mail")
       ELSE Return(h) /\ UNCHANGED <<acct, tokens>>
    /\ UNCHANGED <<inbox, faults, history, grounds>>

(* The insert, which fails on the unique e-mail of any row, removed or not. *)
RegisterCreate(h) ==
    /\ pc[h] = "register"
    /\ IF acct.state = "none"
       THEN /\ NewToken
            /\ NewRow([NoAccount(acct.gen + 1) EXCEPT
                          !.state = "there", !.token = tokens', !.window = "open"])
            /\ Hold(h, [gen |-> acct.gen + 1, addr |-> 0, token |-> tokens'])
            /\ Go(h, "mail")
       ELSE Return(h) /\ UNCHANGED <<acct, tokens>>
    /\ UNCHANGED <<inbox, faults, history, grounds>>

(* queueVerificationEmail, of a registration or a resend, to the address   *)
(* of the row that was created or read.                                    *)
MailToken(h) ==
    /\ pc[h] = "mail"
    /\ inbox' = inbox \cup {<<local[h].token, local[h].addr>>}
    /\ Return(h)
    /\ UNCHANGED <<acct, tokens, faults, history, grounds>>

(* UsersService.createUser, and oauthLogin for an unknown address that the *)
(* provider has verified.                                                  *)
CreateRead(h) ==
    /\ ~Found
    /\ Start(h, "create")
    /\ UNCHANGED <<acct, inbox, tokens, faults, history, grounds>>

CreateVerified(h) ==
    /\ pc[h] = "create"
    /\ IF acct.state = "none"
       THEN /\ NewRow([NoAccount(acct.gen + 1) EXCEPT
                          !.state = "there", !.verified = TRUE])
            /\ grounds' = grounds \cup {<<acct.gen + 1, 0, "shown">>}
       ELSE UNCHANGED <<acct, grounds>>
    /\ Return(h)
    /\ UNCHANGED <<inbox, tokens, faults, history>>

-----------------------------------------------------------------------------
(* Verification. *)

(* verifyEmail: a mailed token is that of the row, and still in time.  The *)
(* row may have another address by now; nobody looks.                      *)
VerifyRead(h) ==
    /\ Found
    /\ acct.window = "open"
    /\ Start(h, "verify")
    /\ \E m \in inbox :
          /\ m[1] = acct.token
          /\ grounds' = grounds \cup {<<acct.gen, m[2], "shown">>}
    /\ UNCHANGED <<acct, inbox, tokens, faults, history>>

(* oauthLogin of an address that was registered and never verified: here   *)
(* nobody asks whether the provider has verified it (emailVerified).       *)
OAuthRead(h) ==
    /\ Found
    /\ ~acct.verified
    /\ Start(h, "verify")
    /\ \E g \in Grounds : grounds' = grounds \cup {<<acct.gen, acct.addr, g>>}
    /\ UNCHANGED <<acct, inbox, tokens, faults, history>>

(* A mutant: the update goes by the address. *)
BugVerifyWrite(h) ==
    /\ pc[h] = "verify"
    /\ acct' = IF acct.state # "none"
               THEN [acct EXCEPT !.verified = TRUE, !.token = 0, !.window = "null"]
               ELSE acct
    /\ Return(h)
    /\ UNCHANGED <<inbox, tokens, faults, history, grounds>>

(* UsersRepository.verifyEmail. *)
VerifyWrite(h) ==
    /\ pc[h] = "verify"
    /\ acct' = IF Reaches(h)
               THEN [acct EXCEPT !.verified = TRUE, !.token = 0, !.window = "null"]
               ELSE acct
    /\ Return(h)
    /\ UNCHANGED <<inbox, tokens, faults, history, grounds>>

ResendRead(h) ==
    /\ Found
    /\ ~acct.verified
    /\ Start(h, "resend")
    /\ UNCHANGED <<acct, inbox, tokens, faults, history, grounds>>

(* setVerificationToken, although the row may be verified by now. *)
ResendWrite(h) ==
    /\ pc[h] = "resend"
    /\ IF Reaches(h)
       THEN /\ NewToken
            /\ acct' = [acct EXCEPT !.token = tokens', !.window = "open"]
            /\ Hold(h, [local[h] EXCEPT !.token = tokens'])
            /\ Go(h, "mail")
       ELSE Return(h) /\ UNCHANGED <<acct, tokens>>
    /\ UNCHANGED <<inbox, faults, history, grounds>>

(* The seven days are over. *)
WindowEnds ==
    /\ acct.window = "open"
    /\ acct' = [acct EXCEPT !.window = "over"]
    /\ UNCHANGED <<inbox, pc, local, tokens, faults, history, grounds>>

(* A mutant: only the window is looked at. *)
BugCleanup ==
    /\ acct.state # "none"
    /\ acct.window = "over"
    /\ RowIsGone
    /\ UNCHANGED <<inbox, pc, local, tokens, faults, grounds>>

(* deleteUnverifiedExpired, at midnight. *)
Cleanup ==
    /\ acct.state # "none"
    /\ ~acct.verified
    /\ acct.window = "over"
    /\ RowIsGone
    /\ UNCHANGED <<inbox, pc, local, tokens, faults, grounds>>

-----------------------------------------------------------------------------
(* Login and lockout. *)

(* The wrong password for an account that the snapshot shows unlocked. *)
LoginWrong(h) ==
    /\ Found
    /\ ~acct.locked
    /\ Start(h, "count")
    /\ guesses' = guesses + 1
    /\ UNCHANGED <<acct, inbox, tokens, faults, expiries, lockPlaced, lockDied,
                   grounds>>

(* A mutant: the lock comes one failure too late. *)
BugLoginCount(h) ==
    /\ pc[h] = "count"
    /\ IF Reaches(h) /\ acct.attempts + 1 > MAX_LOGIN_ATTEMPTS
       THEN /\ acct' = [acct EXCEPT !.attempts = @ + 1]
            /\ Go(h, "lock")
            /\ UNCHANGED local
       ELSE /\ acct' = IF Reaches(h) THEN [acct EXCEPT !.attempts = @ + 1] ELSE acct
            /\ Return(h)
    /\ UNCHANGED <<inbox, tokens, faults, history, grounds>>

(* incrementFailedLogins; at the limit, a lock is to follow. *)
LoginCount(h) ==
    /\ pc[h] = "count"
    /\ IF Reaches(h) /\ acct.attempts + 1 >= MAX_LOGIN_ATTEMPTS
       THEN /\ acct' = [acct EXCEPT !.attempts = @ + 1]
            /\ Go(h, "lock")
            /\ UNCHANGED local
       ELSE /\ acct' = IF Reaches(h) THEN [acct EXCEPT !.attempts = @ + 1] ELSE acct
            /\ Return(h)
    /\ UNCHANGED <<inbox, tokens, faults, history, grounds>>

(* A mutant: the counter begins anew with every lock. *)
BugLoginLock(h) ==
    /\ pc[h] = "lock"
    /\ IF Reaches(h)
       THEN acct' = [acct EXCEPT !.locked = TRUE, !.attempts = 0] /\ lockPlaced' = TRUE
       ELSE UNCHANGED <<acct, lockPlaced>>
    /\ Return(h)
    /\ UNCHANGED <<inbox, tokens, faults, guesses, expiries, lockDied, grounds>>

(* lockAccount, whatever became of the counter meanwhile. *)
LoginLock(h) ==
    /\ pc[h] = "lock"
    /\ IF Reaches(h)
       THEN acct' = [acct EXCEPT !.locked = TRUE] /\ lockPlaced' = TRUE
       ELSE UNCHANGED <<acct, lockPlaced>>
    /\ Return(h)
    /\ UNCHANGED <<inbox, tokens, faults, guesses, expiries, lockDied, grounds>>

(* The right password for a verified account with failed attempts. *)
LoginRight(h) ==
    /\ Found
    /\ ~acct.locked
    /\ acct.verified
    /\ acct.attempts > 0
    /\ Start(h, "clear")
    /\ UNCHANGED <<acct, inbox, tokens, faults, history, grounds>>

(* A mutant: a successful login takes back one failed attempt. *)
BugLoginClear(h) ==
    /\ pc[h] = "clear"
    /\ IF Reaches(h)
       THEN /\ acct' = [acct EXCEPT !.attempts = @ - 1, !.locked = FALSE]
            /\ ForgetGuesses
       ELSE UNCHANGED <<acct, history>>
    /\ Return(h)
    /\ UNCHANGED <<inbox, tokens, faults, grounds>>

(* resetLoginAttempts, although the account may be locked by now. *)
LoginClear(h) ==
    /\ pc[h] = "clear"
    /\ IF Reaches(h)
       THEN /\ acct' = [acct EXCEPT !.attempts = 0, !.locked = FALSE]
            /\ ForgetGuesses
       ELSE UNCHANGED <<acct, history>>
    /\ Return(h)
    /\ UNCHANGED <<inbox, tokens, faults, grounds>>

(* lockedUntil has passed; the counter stays. *)
LockEnds ==
    /\ acct.locked
    /\ expiries < MaxExpiries
    /\ acct' = [acct EXCEPT !.locked = FALSE]
    /\ expiries' = expiries + 1
    /\ UNCHANGED <<inbox, pc, local, tokens, faults, guesses, lockPlaced, lockDied,
                   grounds>>

-----------------------------------------------------------------------------
(* deleteUser *)
Delete ==
    /\ Found
    /\ acct' = [acct EXCEPT !.state = "removed"]
    /\ UNCHANGED <<inbox, pc, local, tokens, faults, history, grounds>>

(* purgeSoftDeleted, after the retention period. *)
Purge ==
    /\ acct.state = "removed"
    /\ RowIsGone
    /\ UNCHANGED <<inbox, pc, local, tokens, faults, grounds>>

(* updateUser with an email: one unfiltered update by uniqueId, after      *)
(* awaits that do not concern this module.  Nothing else changes: neither  *)
(* emailVerifiedAt nor the token of the former address.                    *)
ChangeEmail ==
    /\ acct.state # "none"
    /\ acct.addr < MaxMoves
    /\ acct' = [acct EXCEPT !.addr = @ + 1]
    /\ UNCHANGED <<inbox, pc, local, tokens, faults, history, grounds>>

(* The process dies, or an await throws: the request ends where it is. *)
Die(h) ==
    /\ pc[h] # "idle"
    /\ faults < MaxFaults
    /\ faults' = faults + 1
    /\ lockDied' = (lockDied \/ (pc[h] = "lock" /\ Reaches(h)))
    /\ Return(h)
    /\ UNCHANGED <<acct, inbox, tokens, guesses, expiries, lockPlaced, grounds>>

-----------------------------------------------------------------------------
(* A request that has begun goes on. *)
Continue(h) ==
    \/ RegisterCreate(h)
    \/ MailToken(h)
    \/ CreateVerified(h)
    \/ VerifyWrite(h)
    \/ ResendWrite(h)
    \/ LoginCount(h)
    \/ LoginLock(h)
    \/ LoginClear(h)

Begin(h) ==
    \/ RegisterRead(h)
    \/ CreateRead(h)
    \/ VerifyRead(h)
    \/ OAuthRead(h)
    \/ ResendRead(h)
    \/ LoginWrong(h)
    \/ LoginRight(h)

Next ==
    \/ \E h \in Handler : Begin(h) \/ Continue(h) \/ Die(h)
    \/ WindowEnds
    \/ LockEnds
    \/ Cleanup
    \/ Delete
    \/ Purge
    \/ ChangeEmail

Spec == Init /\ [][Next]_vars

(* Time passes, and the cleanup job runs every night. *)
Fairness == WF_vars(WindowEnds) /\ WF_vars(Cleanup)

FairSpec == Spec /\ Fairness

-----------------------------------------------------------------------------
(* Safety. *)

(* Password guessing is bounded although check, count and lock are three   *)
(* awaits: between two successful logins, the limit less one, and one more *)
(* for each request in flight whenever the account is or becomes unlocked, *)
(* and for each request that dies before it counted or locked.             *)
GuessBudget ==
    guesses <= (MAX_LOGIN_ATTEMPTS - 1) + Cardinality(Handler) * (expiries + 1) + faults

(* The counter does not stay at the limit without a lock: one was placed   *)
(* since the counter was cleared, or a request is about to place one, or   *)
(* it died with the counter written and the lock not.                      *)
LockFollowsCount ==
    acct.attempts >= MAX_LOGIN_ATTEMPTS =>
        \/ lockPlaced
        \/ lockDied
        \/ \E h \in Handler : pc[h] = "lock" /\ local[h].gen = acct.gen

(* An account is verified only on grounds that concern that very row: no   *)
(* request that saw an earlier row of the address verifies the next one,   *)
(* however registrations, verifications, cleanup and purge interleave.     *)
(* The grounds are about an address the row has or had: its own, unless    *)
(* updateUser has changed it since or in between; and after an OAuth       *)
(* sign-in they may be no more than a claim of the provider.               *)
VerifiedWasProved ==
    acct.verified =>
        \E a \in 0 .. acct.addr, g \in Grounds : <<acct.gen, a, g>> \in grounds

(* The nightly cleanup and the purge never remove an account in use: a     *)
(* verified row that is not soft-deleted stays, also when a resend has     *)
(* given it a token and a window after it was verified.                    *)
VerifiedIsKept ==
    [][(acct.state = "there" /\ acct.verified) =>
          (acct'.state # "none" /\ acct'.gen = acct.gen)]_vars

-----------------------------------------------------------------------------
(* Liveness, under FairSpec. *)

(* An account that nobody verifies does not hold its address for ever,     *)
(* even when the request that made it died before it mailed the token.     *)
(* (A resend begins the seven days again; MaxTokens bounds the resends.)   *)
AddressIsFreed ==
    (acct.state # "none" /\ ~acct.verified) ~> (acct.state = "none" \/ acct.verified)

-----------------------------------------------------------------------------
(* What the documentation says, and the code does not guarantee.           *)

(* README.md: "After 5 failed login attempts, the account is locked for 15 *)
(* minutes."  A lock ends only when its time is over, or with the row.     *)
LockStands ==
    [][(acct.locked /\ ~acct'.locked) => (LockEnds \/ acct'.state = "none")]_vars
=============================================================================
