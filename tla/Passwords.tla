------------------------------- MODULE Passwords -------------------------------
(***************************************************************************)
(* The password of one account, which its owner changes, or resets with a  *)
(* token mailed to him, while somebody else knows the old one and is       *)
(* signed in with it.  A request compares with the password it has read    *)
(* and writes in a later await; updateUser writes without comparing.       *)
(* (What a reset does to the sessions is in Sessions; an access token      *)
(* outlives its session by minutes.)                                       *)
(***************************************************************************)
EXTENDS Naturals

CONSTANTS
    PassHandler,    \* requests in flight
    MaxResetTokens  \* bound on the reset tokens

ASSUME PasswordsAssumption == MaxResetTokens \in Nat

VARIABLES
    password,       \* users.password
    resetToken,     \* users.passwordResetToken, 0 for null
    resetOpen,      \* passwordResetExpiresAt is to come
    posted,         \* reset tokens in mails that wait in the queue
    mailbox,        \* reset tokens in the owner's mailbox
    resetTokens,    \* tokens made so far
    passStep,       \* the await each request is about to perform
    passHeld,       \* what it brings along
    regained        \* history: the owner set a password of his own, no change
                    \* of the other's was in flight, and updateUser has not
                    \* written another since

passVars == <<password, resetToken, resetOpen, posted, mailbox, resetTokens, passStep, passHeld,
              regained>>

Party == {"owner", "other"}

(* Passwords are told apart by who knows them. *)
Password == {"shared"} \cup Party

Knows(p) == {"shared", p}

PassHeld == [by : Party, new : Password, token : 0 .. MaxResetTokens]

Unasked == [by |-> "owner", new |-> "owner", token |-> 0]

PassTypeOK ==
    /\ password \in Password
    /\ resetToken \in 0 .. MaxResetTokens
    /\ resetOpen \in BOOLEAN
    /\ posted \in SUBSET (1 .. MaxResetTokens)
    /\ mailbox \in SUBSET (1 .. MaxResetTokens)
    /\ resetTokens \in 0 .. MaxResetTokens
    /\ passStep \in [PassHandler -> {"idle", "set_token", "mail", "reset", "change"}]
    /\ passHeld \in [PassHandler -> PassHeld]
    /\ \A h \in PassHandler :
          /\ passStep[h] = "mail" => passHeld[h].token # 0
          /\ passStep[h] \in {"reset", "change"} => passHeld[h].new \in Knows(passHeld[h].by)
    /\ regained \in BOOLEAN

PassInit ==
    /\ password = "shared"
    /\ resetToken = 0
    /\ resetOpen = FALSE
    /\ posted = {}
    /\ mailbox = {}
    /\ resetTokens = 0
    /\ passStep = [h \in PassHandler |-> "idle"]
    /\ passHeld = [h \in PassHandler |-> Unasked]
    /\ regained = FALSE

PassGo(h, label, v) ==
    /\ passStep' = [passStep EXCEPT ![h] = label]
    /\ passHeld' = [passHeld EXCEPT ![h] = v]

-----------------------------------------------------------------------------
(* forgotPassword: anybody may ask. *)
AskForgot(h) ==
    /\ passStep[h] = "idle"
    /\ PassGo(h, "set_token", Unasked)
    /\ UNCHANGED <<password, resetToken, resetOpen, posted, mailbox, resetTokens, regained>>

(* A mutant: the token is stored, and not kept for the mail. *)
BugSetResetToken(h) ==
    /\ passStep[h] = "set_token"
    /\ resetTokens < MaxResetTokens
    /\ resetTokens' = resetTokens + 1
    /\ resetToken' = resetTokens'
    /\ resetOpen' = TRUE
    /\ PassGo(h, "mail", Unasked)
    /\ UNCHANGED <<password, posted, mailbox, regained>>

(* In place of the token there was. *)
SetResetToken(h) ==
    /\ passStep[h] = "set_token"
    /\ resetTokens < MaxResetTokens
    /\ resetTokens' = resetTokens + 1
    /\ resetToken' = resetTokens'
    /\ resetOpen' = TRUE
    /\ PassGo(h, "mail", [Unasked EXCEPT !.token = resetTokens'])
    /\ UNCHANGED <<password, posted, mailbox, regained>>

(* queuePasswordResetEmail. *)
MailReset(h) ==
    /\ passStep[h] = "mail"
    /\ posted' = posted \cup {passHeld[h].token}
    /\ PassGo(h, "idle", Unasked)
    /\ UNCHANGED <<password, resetToken, resetOpen, mailbox, resetTokens, regained>>

(* MailProcessor.process of a password-reset-email: mails may overtake     *)
(* one another, and may arrive after the window or a newer token.          *)
SendReset(t) ==
    /\ t \in posted
    /\ posted' = posted \ {t}
    /\ mailbox' = mailbox \cup {t}
    /\ UNCHANGED <<password, resetToken, resetOpen, resetTokens, passStep, passHeld, regained>>

(* The attempts of the job are used up. *)
DropReset(t) ==
    /\ t \in posted
    /\ posted' = posted \ {t}
    /\ UNCHANGED <<password, resetToken, resetOpen, mailbox, resetTokens, passStep, passHeld,
                   regained>>

ResetWindowEnds ==
    /\ resetOpen
    /\ resetOpen' = FALSE
    /\ UNCHANGED <<password, resetToken, posted, mailbox, resetTokens, passStep, passHeld, regained>>

(* resetPassword, up to its two checks. *)
AskReset(h, t, new) ==
    /\ passStep[h] = "idle"
    /\ t \in mailbox /\ t = resetToken /\ resetOpen
    /\ new \in Knows("owner") \ {password}
    /\ PassGo(h, "reset", [Unasked EXCEPT !.new = new])
    /\ UNCHANGED <<password, resetToken, resetOpen, posted, mailbox, resetTokens, regained>>

(* A write; an owner who picks a password of his own has the account to    *)
(* himself unless the other's change is past its checks.                   *)
Settled(h) ==
    /\ password' = passHeld[h].new
    /\ regained' = IF passHeld[h].by = "other" THEN regained
                   ELSE /\ passHeld[h].new = "owner"
                        /\ \A g \in PassHandler : passStep[g] = "change" => passHeld[g].by = "owner"
    /\ PassGo(h, "idle", Unasked)

WriteReset(h) ==
    /\ passStep[h] = "reset"
    /\ Settled(h)
    /\ resetToken' = 0 /\ resetOpen' = FALSE
    /\ UNCHANGED <<posted, mailbox, resetTokens>>

(* A mutant: only the new password is compared. *)
BugAskChange(h, p, new) ==
    /\ passStep[h] = "idle"
    /\ new \in Knows(p) \ {password}
    /\ PassGo(h, "change", [by |-> p, new |-> new, token |-> 0])
    /\ UNCHANGED <<password, resetToken, resetOpen, posted, mailbox, resetTokens, regained>>

(* changePassword, up to its two comparisons with the row it has read.     *)
AskChange(h, p, new) ==
    /\ passStep[h] = "idle"
    /\ password \in Knows(p)
    /\ new \in Knows(p) \ {password}
    /\ PassGo(h, "change", [by |-> p, new |-> new, token |-> 0])
    /\ UNCHANGED <<password, resetToken, resetOpen, posted, mailbox, resetTokens, regained>>

(* Whatever the password has become; a reset token stays valid.            *)
WriteChange(h) ==
    /\ passStep[h] = "change"
    /\ Settled(h)
    /\ UNCHANGED <<resetToken, resetOpen, posted, mailbox, resetTokens>>

(* updateUser, by anybody whose account has the permission users.update:   *)
(* the old password is not asked for, and a reset token stays valid.       *)
UpdateUser(p, new) ==
    /\ new \in Knows(p)
    /\ password' = new
    /\ regained' = (regained /\ new = "owner")
    /\ UNCHANGED <<resetToken, resetOpen, posted, mailbox, resetTokens, passStep, passHeld>>

(* An await fails, or the process dies. *)
PassFails(h) ==
    /\ passStep[h] # "idle"
    /\ PassGo(h, "idle", Unasked)
    /\ UNCHANGED <<password, resetToken, resetOpen, posted, mailbox, resetTokens, regained>>

-----------------------------------------------------------------------------
PassNext ==
    \/ \E h \in PassHandler :
          \/ AskForgot(h) \/ SetResetToken(h) \/ MailReset(h)
          \/ WriteReset(h) \/ WriteChange(h) \/ PassFails(h)
          \/ \E t \in mailbox, new \in Password : AskReset(h, t, new)
          \/ \E p \in Party, new \in Password : AskChange(h, p, new)
    \/ \E t \in posted : SendReset(t) \/ DropReset(t)
    \/ ResetWindowEnds
    \/ \E p \in Party, new \in Password : UpdateUser(p, new)

PassSpec == PassInit /\ [][PassNext]_passVars

-----------------------------------------------------------------------------
(* An owner who resets or changes to a password of his own keeps the       *)
(* account from whoever has to name the old one: nobody who knew an older  *)
(* password changes it, unless his change was past its comparison at that  *)
(* time.  (Such a one does undo the reset: changePassword does not look    *)
(* again before it writes.  So does updateUser, at any time.)              *)
ResetRegainsControl == regained => password = "owner"
=============================================================================
