------------------------------ MODULE MailQueue ------------------------------
(***************************************************************************)
(* The campaign half of the "mail" queue: what MailService.queueCampaign-  *)
(* Email puts on the BullMQ queue, and what a worker (MailProcessor) does  *)
(* with it.                                                                *)
(*                                                                         *)
(* A job is delivered at least once: a job whose handler throws is retried *)
(* until `attempts` are used up, and a job whose worker dies is stalled    *)
(* and handed to another worker.  processCampaignEmail awaits twice, the   *)
(* transport and then the recipient row, and every await is a step of its  *)
(* own here, so that a worker interleaves with the fan-out that is still   *)
(* writing the same rows (module Campaigns).                               *)
(***************************************************************************)
EXTENDS Naturals, FiniteSets

CONSTANTS
    Campaign,       \* campaign rows
    Subscriber,     \* newsletter subscribers
    Attempts,       \* the `attempts` option of queue.add
    MaxStalls,      \* BullMQ's maxStalledCount
    Workers,        \* jobs in progress at once: one for each running replica
    Transport,      \* what sendMail was bound to when the worker started
    MaxFaults       \* bound on the failures a behaviour contains

ASSUME QueueAssumption ==
    /\ Attempts \in Nat \ {0}
    /\ MaxStalls \in Nat
    /\ Workers \in Nat \ {0}
    /\ MaxFaults \in Nat
    /\ Transport \in {"smtp", "resend", "none"}

VARIABLES
    rcpt,       \* campaign_recipients.status; "none" before there is a row, and
                \* "gone" after the purge took it away with its subscriber
    jobs,       \* campaign-email jobs that BullMQ has not finished with
    mailed,     \* history: messages the mail server accepted, per recipient
    faults      \* failures so far

queueVars == <<rcpt, jobs, mailed, faults>>

RecipientStatus == {"none", "PENDING", "QUEUED", "SENT", "FAILED", "gone"}

(* A job names its recipient row by <<camp, sub>>, the row's unique key.   *)
(* fanout tells apart the jobs that two fan-outs add for the same row, and *)
(* version stands for the subject and bodies copied into the job.          *)
Job == [camp : Campaign, sub : Subscriber, fanout : Nat, version : Nat,
        pc : {"waiting", "active", "accepted", "failing"},
        tries : 0 .. Attempts - 1, stalls : 0 .. MaxStalls]

QueueTypeOK ==
    /\ rcpt \in [Campaign -> [Subscriber -> RecipientStatus]]
    /\ jobs \in SUBSET Job
    /\ mailed \in [Campaign -> [Subscriber -> Nat]]
    /\ faults \in 0 .. MaxFaults

QueueInit ==
    /\ rcpt = [c \in Campaign |-> [s \in Subscriber |-> "none"]]
    /\ jobs = {}
    /\ mailed = [c \in Campaign |-> [s \in Subscriber |-> 0]]
    /\ faults = 0

Fault == faults < MaxFaults /\ faults' = faults + 1

-----------------------------------------------------------------------------
(* MailService.queueCampaignEmail: queue.add, with the job's data copied.  *)
NewJob(c, s, n, v) ==
    [camp |-> c, sub |-> s, fanout |-> n, version |-> v,
     pc |-> "waiting", tries |-> 0, stalls |-> 0]

Enqueue(c, s, n, v) == jobs' = jobs \cup {NewJob(c, s, n, v)}

Replace(j, k) == jobs' = (jobs \ {j}) \cup {k}

(* A handler that returned: BullMQ moves the job to `completed`. *)
Complete(j) == jobs' = jobs \ {j}

(* A mutant: the attempt is not counted. *)
BugRetry(j) == Replace(j, [j EXCEPT !.pc = "waiting"])

(* A handler that threw: one attempt is used up, and the job is delayed    *)
(* and retried, or moved to `failed` when it was the last.                 *)
Retry(j) ==
    IF j.tries + 1 < Attempts
    THEN Replace(j, [j EXCEPT !.pc = "waiting", !.tries = @ + 1])
    ELSE jobs' = jobs \ {j}

(* prisma.update throws when the row is not there any more. *)
HasRow(j) == rcpt[j.camp][j.sub] # "gone"

SetRecipient(c, s, status) == rcpt' = [rcpt EXCEPT ![c][s] = status]

Accept(c, s) == mailed' = [mailed EXCEPT ![c][s] = @ + 1]

-----------------------------------------------------------------------------
(* A mutant: one worker fewer than there are. *)
BugTake(j) ==
    /\ j.pc = "waiting"
    /\ Cardinality({k \in jobs : k.pc # "waiting"}) < Workers - 1
    /\ Replace(j, [j EXCEPT !.pc = "active"])
    /\ UNCHANGED <<rcpt, mailed, faults>>

(* A free worker takes a waiting job.  Back-off reorders retries and the   *)
(* replicas compete, so any waiting job may be the next one.               *)
Take(j) ==
    /\ j.pc = "waiting"
    /\ Cardinality({k \in jobs : k.pc # "waiting"}) < Workers
    /\ Replace(j, [j EXCEPT !.pc = "active"])
    /\ UNCHANGED <<rcpt, mailed, faults>>

(* sendMail resolved.  nodemailer resolves once the server has accepted    *)
(* the message; the Resend client also resolves with an `error` member     *)
(* that process() does not look at, and without a transport sendMail logs  *)
(* a warning and resolves.                                                 *)
SendResolves(j) ==
    /\ j.pc = "active"
    /\ \/ /\ Transport # "none"
          /\ Accept(j.camp, j.sub)
       \/ /\ Transport # "smtp"
          /\ UNCHANGED mailed
    /\ Replace(j, [j EXCEPT !.pc = "accepted"])
    /\ UNCHANGED <<rcpt, faults>>

(* A mutant: the error is swallowed and the update to SENT follows. *)
BugSendThrows(j) ==
    /\ j.pc = "active"
    /\ Transport # "none"
    /\ \/ Accept(j.camp, j.sub)
       \/ UNCHANGED mailed
    /\ Replace(j, [j EXCEPT !.pc = "accepted"])
    /\ UNCHANGED <<rcpt, faults>>

(* sendMail threw: refused, or accepted with the reply lost on the way. *)
SendThrows(j) ==
    /\ j.pc = "active"
    /\ Transport # "none"
    /\ \/ Accept(j.camp, j.sub)
       \/ UNCHANGED mailed
    /\ Replace(j, [j EXCEPT !.pc = "failing"])
    /\ UNCHANGED <<rcpt, faults>>

(* The update to SENT, after which the handler returns. *)
MarkSent(j) ==
    /\ j.pc = "accepted"
    /\ HasRow(j)
    /\ SetRecipient(j.camp, j.sub, "SENT")
    /\ Complete(j)
    /\ UNCHANGED <<mailed, faults>>

(* The update to SENT throws inside the same try: the catch block runs     *)
(* although the message is out.                                            *)
MarkSentThrows(j) ==
    /\ j.pc = "accepted"
    /\ Fault
    /\ Replace(j, [j EXCEPT !.pc = "failing"])
    /\ UNCHANGED <<rcpt, mailed>>

(* The catch block: the row becomes FAILED and the error is rethrown, so   *)
(* that BullMQ retries.                                                    *)
MarkFailed(j) ==
    /\ j.pc = "failing"
    /\ HasRow(j)
    /\ SetRecipient(j.camp, j.sub, "FAILED")
    /\ Retry(j)
    /\ UNCHANGED <<mailed, faults>>

(* The row is gone: the update to SENT throws although nothing is broken,  *)
(* and so does the update of the catch block, so that BullMQ sends the     *)
(* message again until the attempts are used up.                           *)
MarkSentMisses(j) ==
    /\ j.pc = "accepted"
    /\ ~HasRow(j)
    /\ Replace(j, [j EXCEPT !.pc = "failing"])
    /\ UNCHANGED <<rcpt, mailed, faults>>

MarkFailedMisses(j) ==
    /\ j.pc = "failing"
    /\ ~HasRow(j)
    /\ Retry(j)
    /\ UNCHANGED <<rcpt, mailed, faults>>

(* The catch block's own update throws: the row keeps its status. *)
MarkFailedThrows(j) ==
    /\ j.pc = "failing"
    /\ Fault
    /\ Retry(j)
    /\ UNCHANGED <<rcpt, mailed>>

(* The worker process dies: the job is found stalled and waits again,      *)
(* without using up an attempt, or fails for good after MaxStalls.         *)
WorkerDies(j) ==
    /\ j.pc # "waiting"
    /\ Fault
    /\ IF j.stalls < MaxStalls
       THEN Replace(j, [j EXCEPT !.pc = "waiting", !.stalls = @ + 1])
       ELSE jobs' = jobs \ {j}
    /\ UNCHANGED <<rcpt, mailed>>

(* What a worker does of its own accord, and what befalls it. *)
WorkerStep(j) ==
    \/ Take(j)
    \/ SendResolves(j)
    \/ SendThrows(j)
    \/ MarkSent(j)
    \/ MarkSentMisses(j)
    \/ MarkFailed(j)
    \/ MarkFailedMisses(j)

WorkerFault(j) ==
    \/ MarkSentThrows(j)
    \/ MarkFailedThrows(j)
    \/ WorkerDies(j)

=============================================================================
