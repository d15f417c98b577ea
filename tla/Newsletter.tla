------------------------------ MODULE Newsletter ------------------------------
(***************************************************************************)
(* The newsletter subscription of one user: subscribe and unsubscribe each *)
(* look at the row, write it, read the user's name and queue a mail that   *)
(* confirms the change, in four awaits.                                    *)
(***************************************************************************)
EXTENDS Naturals

CONSTANTS
    NewsHandler,    \* requests in flight
    MaxNewsFaults   \* bound on the awaits that fail and processes that die

ASSUME NewsletterAssumption == MaxNewsFaults \in Nat

VARIABLES
    reader,         \* the user's row
    subscriber,     \* his row, by isActive
    confirmed,      \* the last confirmation that was queued
    newsStep,       \* the await each request is about to perform
    wants,          \* which of the two it is
    outrun,         \* history: another request has written since this one wrote
    untold,         \* history: the confirmation of the last change was not the last one queued
    newsFaults      \* faults so far

newsVars == <<reader, subscriber, confirmed, newsStep, wants, outrun, untold, newsFaults>>

SubscriberState == {"none", "active", "inactive"}

NewsTypeOK ==
    /\ reader \in {"there", "deleted", "purged"}
    /\ subscriber \in SubscriberState
    /\ reader = "purged" => subscriber = "none"
    /\ confirmed \in SubscriberState
    /\ newsStep \in [NewsHandler -> {"idle", "write", "name", "queue"}]
    /\ wants \in [NewsHandler -> {"active", "inactive"}]
    /\ outrun \in [NewsHandler -> BOOLEAN]
    /\ untold \in BOOLEAN
    /\ newsFaults \in 0 .. MaxNewsFaults

NewsInit ==
    /\ reader = "there"
    /\ subscriber = "none"
    /\ confirmed = "none"
    /\ newsStep = [h \in NewsHandler |-> "idle"]
    /\ wants = [h \in NewsHandler |-> "active"]
    /\ outrun = [h \in NewsHandler |-> FALSE]
    /\ untold = FALSE
    /\ newsFaults = 0

NewsGo(h, label) == newsStep' = [newsStep EXCEPT ![h] = label]

-----------------------------------------------------------------------------
(* subscribe: a user whose row is active is "already subscribed".          *)
AskSubscribe(h) ==
    /\ newsStep[h] = "idle"
    /\ reader = "there"
    /\ subscriber # "active"
    /\ wants' = [wants EXCEPT ![h] = "active"]
    /\ NewsGo(h, "write")
    /\ UNCHANGED <<reader, subscriber, confirmed, outrun, untold, newsFaults>>

(* unsubscribe: one without a row is let through.                          *)
AskUnsubscribe(h) ==
    /\ newsStep[h] = "idle"
    /\ reader = "there"
    /\ subscriber # "inactive"
    /\ wants' = [wants EXCEPT ![h] = "inactive"]
    /\ NewsGo(h, "write")
    /\ UNCHANGED <<reader, subscriber, confirmed, outrun, untold, newsFaults>>

(* A mutant: the upsert changes nothing where there is a row. *)
BugWritten(h) == IF subscriber = "none" THEN wants[h] ELSE subscriber

Written(h) == wants[h]

(* Subscribing upserts and fails for want of the user; unsubscribing       *)
(* updates and fails for want of the row.                                  *)
WriteSubscriber(h) ==
    /\ newsStep[h] = "write"
    /\ IF (wants[h] = "active" /\ reader # "purged") \/ subscriber # "none"
       THEN /\ subscriber' = Written(h)
            /\ outrun' = [g \in NewsHandler |-> g # h]
            /\ NewsGo(h, "name")
       ELSE NewsGo(h, "idle") /\ UNCHANGED <<subscriber, outrun>>
    /\ UNCHANGED <<reader, confirmed, wants, untold, newsFaults>>

(* The first name for the mail, '' of a user who has been deleted.         *)
ReadName(h) ==
    /\ newsStep[h] = "name"
    /\ NewsGo(h, "queue")
    /\ UNCHANGED <<reader, subscriber, confirmed, wants, outrun, untold, newsFaults>>

QueueConfirmation(h) ==
    /\ newsStep[h] = "queue"
    /\ confirmed' = wants[h]
    /\ untold' = outrun[h]
    /\ NewsGo(h, "idle")
    /\ UNCHANGED <<reader, subscriber, wants, outrun, newsFaults>>

NewsFails(h) ==
    /\ newsStep[h] # "idle"
    /\ newsFaults < MaxNewsFaults
    /\ newsFaults' = newsFaults + 1
    /\ untold' = (untold \/ (newsStep[h] # "write" /\ ~outrun[h]))
    /\ NewsGo(h, "idle")
    /\ UNCHANGED <<reader, subscriber, confirmed, wants, outrun>>

(* The user is soft-deleted, which leaves the row, and purged, which takes *)
(* it along.                                                               *)
ReaderGoes ==
    \/ /\ reader = "there"
       /\ reader' = "deleted"
       /\ UNCHANGED <<subscriber, confirmed, newsStep, wants, outrun, untold, newsFaults>>
    \/ /\ reader = "deleted"
       /\ reader' = "purged"
       /\ subscriber' = "none"
       /\ UNCHANGED <<confirmed, newsStep, wants, outrun, untold, newsFaults>>

-----------------------------------------------------------------------------
NewsNext ==
    \/ \E h \in NewsHandler :
          \/ AskSubscribe(h) \/ AskUnsubscribe(h) \/ WriteSubscriber(h)
          \/ ReadName(h) \/ QueueConfirmation(h) \/ NewsFails(h)
    \/ ReaderGoes

NewsSpec == NewsInit /\ [][NewsNext]_newsVars

-----------------------------------------------------------------------------
(* The last confirmation says what the row says once no request is between *)
(* its write and its mail: unless the last change was never confirmed,     *)
(* because its request failed, or was confirmed before an earlier one.     *)
ConfirmationIsTrue ==
    reader # "purged" /\ ~untold /\ (\A h \in NewsHandler : newsStep[h] \in {"idle", "write"})
        => confirmed = subscriber
=============================================================================
