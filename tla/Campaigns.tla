------------------------------ MODULE Campaigns ------------------------------
(***************************************************************************)
(* Newsletter campaigns: the requests of the admin API, the cron job that  *)
(* sends what is scheduled, the fan-out both of them share, and the mail   *)
(* workers that deliver (MailQueue).                                       *)
(*                                                                         *)
(* A process is one running handler: a request of an administrator, or one *)
(* invocation of the cron job.  Every replica starts an invocation each    *)
(* minute and none waits for the one before, so several of them overlap.   *)
(* A handler's awaits are its steps; between two of them it knows nothing  *)
(* but what it read earlier (local), and the rows may change under it.     *)
(***************************************************************************)
EXTENDS MailQueue

CONSTANTS
    Admin,          \* handlers of admin requests
    Cron,           \* invocations of the cron job
    NoCampaign,     \* "no campaign in hand"
    MaxRequests     \* bound on update, schedule and send requests

ASSUME CampaignsAssumption ==
    /\ NoCampaign \notin Campaign
    /\ Admin \cap Cron = {}
    /\ IsFiniteSet(Subscriber)
    /\ MaxRequests \in Nat

Proc == Admin \cup Cron

VARIABLES
    row,        \* the campaigns table
    active,     \* subscribers whose row has isActive and is not deleted
    purged,     \* subscribers whose row the nightly purge removed for good
    pc,         \* the await each handler is about to perform
    local,      \* what it has read: the campaign, its snapshot, the fan-out
    batch,      \* due campaigns a cron invocation has still to look at
    told,       \* what the creator was told of each fan-out of the campaign
    requests,   \* requests so far
    fanouts,    \* history: fan-outs started, per campaign
    schedules,  \* history: times the campaign was set to SCHEDULED
    claims,     \* history: times a cron invocation claimed it
    disrupted   \* history: what befell the sends of the campaign

campaignVars == <<row, active, purged, pc, local, batch, told, requests, fanouts,
                  schedules, claims, disrupted>>
vars == <<queueVars, campaignVars>>

Status == {"NONE", "DRAFT", "SCHEDULED", "SENDING", "SENT", "FAILED"}

(* version stands for subject and bodies; due for scheduledAt <= now. *)
Row == [status : Status, due : BOOLEAN, version : Nat, deleted : BOOLEAN,
        count : Nat]

(* The handler's view: campaign and version as read, the number of the     *)
(* fan-out, the recipient rows selected or loaded, those not queued yet,   *)
(* and the one whose job was just added.                                   *)
Local == [camp : Campaign \cup {NoCampaign}, version : Nat, fanout : Nat,
          loaded : SUBSET Subscriber, left : SUBSET Subscriber,
          hand : SUBSET Subscriber]

Blank == [camp |-> NoCampaign, version |-> 0, fanout |-> 0,
          loaded |-> {}, left |-> {}, hand |-> {}]

(* Awaits inside the try block of a send, and with its catch block. *)
FanOutPC == {"select", "create", "load", "queue", "queued", "count", "finish"}
SendingPC == FanOutPC \cup {"fail"}
TellPC == {"tell_sent", "tell_failed"}
PC == SendingPC \cup TellPC \cup {"idle", "update", "schedule", "mark", "claim"}

(* "nothing" stands for a notification that was never stored. *)
Outcomes == {"sent", "failed", "nothing"}

FanningOut(p, c) == pc[p] \in FanOutPC /\ local[p].camp = c
Sending(p, c) == pc[p] \in SendingPC /\ local[p].camp = c

(* The tables. *)
TableTypeOK ==
    /\ row \in [Campaign -> Row]
    /\ active \in SUBSET Subscriber
    /\ purged \in SUBSET Subscriber
    /\ told \in [Campaign -> SUBSET (Nat \X Outcomes)]

(* The handlers: one that is at work has a campaign in hand. *)
HandlerTypeOK ==
    /\ pc \in [Proc -> PC]
    /\ local \in [Proc -> Local]
    /\ batch \in [Proc -> SUBSET [camp : Campaign, version : Nat]]
    /\ \A p \in Proc : pc[p] \notin {"idle", "claim"} => local[p].camp \in Campaign

HistoryTypeOK ==
    /\ requests \in 0 .. MaxRequests
    /\ fanouts \in [Campaign -> Nat]
    /\ schedules \in [Campaign -> Nat]
    /\ claims \in [Campaign -> Nat]
    /\ disrupted \in [Campaign -> SUBSET {"threw", "died", "overlapped"}]

TypeOK == QueueTypeOK /\ TableTypeOK /\ HandlerTypeOK /\ HistoryTypeOK

Init ==
    /\ QueueInit
    /\ row = [c \in Campaign |-> [status |-> "NONE", due |-> FALSE, version |-> 0,
                                  deleted |-> FALSE, count |-> 0]]
    /\ active = {}
    /\ purged = {}
    /\ pc = [p \in Proc |-> "idle"]
    /\ local = [p \in Proc |-> Blank]
    /\ batch = [p \in Proc |-> {}]
    /\ told = [c \in Campaign |-> {}]
    /\ requests = 0
    /\ fanouts = [c \in Campaign |-> 0]
    /\ schedules = [c \in Campaign |-> 0]
    /\ claims = [c \in Campaign |-> 0]
    /\ disrupted = [c \in Campaign |-> {}]

-----------------------------------------------------------------------------
(* Updates of the handler's own state. *)
Go(p, label) == pc' = [pc EXCEPT ![p] = label]

Hold(p, v) == local' = [local EXCEPT ![p] = v]

(* The handler returns.  A cron invocation goes on with its batch. *)
Return(p) ==
    /\ Go(p, IF batch[p] = {} THEN "idle" ELSE "claim")
    /\ Hold(p, Blank)

Request == requests < MaxRequests /\ requests' = requests + 1

(* findByUniqueId goes through the client extension: deleted rows are not  *)
(* found, and getCampaign throws.                                          *)
Found(c) == row[c].status # "NONE" /\ ~row[c].deleted

SetStatus(c, status) == row' = [row EXCEPT ![c].status = status]

-----------------------------------------------------------------------------
(* Requests that change the table once. *)

Create(c) ==
    /\ row[c].status = "NONE"
    /\ SetStatus(c, "DRAFT")
    /\ UNCHANGED <<queueVars, active, purged, pc, local, batch, told, requests,
                   fanouts, schedules, claims, disrupted>>

(* deleteCampaign reads the row and then sets isDeleted.  Nothing clears   *)
(* the flag, so a write after a stale read changes nothing: one step.      *)
Delete(c) ==
    /\ Found(c)
    /\ row' = [row EXCEPT ![c].deleted = TRUE]
    /\ UNCHANGED <<queueVars, active, purged, pc, local, batch, told, requests,
                   fanouts, schedules, claims, disrupted>>

(* NewsletterService.subscribe and unsubscribe, as the fan-out sees them. *)
Subscribe(s) ==
    /\ s \notin active
    /\ s \notin purged
    /\ active' = active \cup {s}
    /\ UNCHANGED <<queueVars, row, purged, pc, local, batch, told, requests,
                   fanouts, schedules, claims, disrupted>>

Unsubscribe(s) ==
    /\ s \in active
    /\ active' = active \ {s}
    /\ UNCHANGED <<queueVars, row, purged, pc, local, batch, told, requests,
                   fanouts, schedules, claims, disrupted>>

(* The nightly purge hard-deletes a user who was soft-deleted long enough  *)
(* ago; deleting a user does not unsubscribe him, so he may be active to   *)
(* the last.  His subscription goes with him, and with it every recipient  *)
(* row; nobody gets his id again.                                          *)
PurgeSubscriber(s) ==
    /\ s \notin purged
    /\ purged' = purged \cup {s}
    /\ active' = active \ {s}
    /\ rcpt' = [c \in Campaign |->
                  [rcpt[c] EXCEPT ![s] = IF @ = "none" THEN "none" ELSE "gone"]]
    /\ UNCHANGED <<jobs, mailed, faults, row, pc, local, batch, told, requests,
                   fanouts, schedules, claims, disrupted>>

(* scheduledAt is reached. *)
TimePasses(c) ==
    /\ row[c].status = "SCHEDULED"
    /\ ~row[c].due
    /\ row' = [row EXCEPT ![c].due = TRUE]
    /\ UNCHANGED <<queueVars, active, purged, pc, local, batch, told, requests,
                   fanouts, schedules, claims, disrupted>>

-----------------------------------------------------------------------------
(* Requests that read the campaign, check its status, and write later.     *)

Read(a, c, statuses, next) ==
    /\ pc[a] = "idle"
    /\ Request
    /\ Found(c)
    /\ row[c].status \in statuses
    /\ Go(a, next)
    /\ Hold(a, [Blank EXCEPT !.camp = c, !.version = row[c].version])
    /\ UNCHANGED <<queueVars, row, active, purged, batch, told, fanouts,
                   schedules, claims, disrupted>>

UpdateRead(a, c) == Read(a, c, {"DRAFT"}, "update")

(* New subject or bodies, whatever the status is by now. *)
UpdateWrite(a) ==
    /\ pc[a] = "update"
    /\ row' = [row EXCEPT ![local[a].camp].version = @ + 1]
    /\ Return(a)
    /\ UNCHANGED <<queueVars, active, purged, batch, told, requests, fanouts,
                   schedules, claims, disrupted>>

ScheduleRead(a, c) == Read(a, c, {"DRAFT"}, "schedule")

(* scheduledAt is the caller's and may lie in the past. *)
ScheduleWrite(a) ==
    /\ pc[a] = "schedule"
    /\ \E due \in BOOLEAN :
          row' = [row EXCEPT ![local[a].camp].status = "SCHEDULED",
                             ![local[a].camp].due = due]
    /\ schedules' = [schedules EXCEPT ![local[a].camp] = @ + 1]
    /\ Return(a)
    /\ UNCHANGED <<queueVars, active, purged, batch, told, requests, fanouts,
                   claims, disrupted>>

SendRead(a, c) == Read(a, c, {"DRAFT", "SCHEDULED"}, "mark")

(* A fan-out of c begins in p with the subject and bodies of version v,    *)
(* whether or not another one is under way (which is recorded).            *)
Begin(p, c, v) ==
    /\ SetStatus(c, "SENDING")
    /\ fanouts' = [fanouts EXCEPT ![c] = @ + 1]
    /\ disrupted' = [disrupted EXCEPT ![c] = IF \E q \in Proc : FanningOut(q, c)
                                             THEN @ \cup {"overlapped"} ELSE @]
    /\ Go(p, "select")
    /\ Hold(p, [Blank EXCEPT !.camp = c, !.version = v, !.fanout = fanouts[c] + 1])

(* The update to SENDING is not conditional on the status read before. *)
SendMark(a) ==
    /\ pc[a] = "mark"
    /\ Begin(a, local[a].camp, local[a].version)
    /\ UNCHANGED <<queueVars, active, purged, batch, told, requests, schedules,
                   claims>>

-----------------------------------------------------------------------------
(* processScheduledCampaigns: findMany, then a conditional update for each *)
(* campaign found, which only one of several invocations wins.             *)

(* A mutant: the query on the raw client, which does not filter deleted. *)
BugDueDeleted == {c \in Campaign : row[c].status = "SCHEDULED" /\ row[c].due}

Due == {c \in Campaign : Found(c) /\ row[c].status = "SCHEDULED" /\ row[c].due}

CronScan(k) ==
    /\ pc[k] = "idle"
    /\ Due # {}
    /\ batch' = [batch EXCEPT ![k] = {[camp |-> c, version |-> row[c].version] :
                                        c \in Due}]
    /\ Go(k, "claim")
    /\ UNCHANGED <<queueVars, row, active, purged, local, told, requests,
                   fanouts, schedules, claims, disrupted>>

(* A mutant: an update that does not ask for the status it replaces. *)
BugCronClaim(k) ==
    /\ pc[k] = "claim"
    /\ \E b \in batch[k] :
          /\ batch' = [batch EXCEPT ![k] = @ \ {b}]
          /\ claims' = [claims EXCEPT ![b.camp] = @ + 1]
          /\ Begin(k, b.camp, b.version)
    /\ UNCHANGED <<queueVars, active, purged, told, requests, schedules>>

(* The claim: updateMany where status is still SCHEDULED, on the raw       *)
(* client.  It looks neither at isDeleted nor at scheduledAt again.        *)
CronClaim(k) ==
    /\ pc[k] = "claim"
    /\ \E b \in batch[k] :
          /\ row[b.camp].status = "SCHEDULED"
          /\ batch' = [batch EXCEPT ![k] = @ \ {b}]
          /\ claims' = [claims EXCEPT ![b.camp] = @ + 1]
          /\ Begin(k, b.camp, b.version)
    /\ UNCHANGED <<queueVars, active, purged, told, requests, schedules>>

(* count = 0: somebody else has taken it. *)
CronSkip(k) ==
    /\ pc[k] = "claim"
    /\ \E b \in batch[k] :
          /\ row[b.camp].status # "SCHEDULED"
          /\ batch' = [batch EXCEPT ![k] = @ \ {b}]
          /\ Go(k, IF batch[k] = {b} THEN "idle" ELSE "claim")
    /\ UNCHANGED <<queueVars, row, active, purged, local, told, requests,
                   fanouts, schedules, claims, disrupted>>

-----------------------------------------------------------------------------
(* fanOutCampaign, one step for each await. *)

(* A mutant: with no subscriber, it returns past the update to SENT. *)
BugFanSelect(p) ==
    /\ pc[p] = "select"
    /\ Go(p, IF active = {} THEN "tell_sent" ELSE "create")
    /\ Hold(p, [local[p] EXCEPT !.loaded = active])
    /\ UNCHANGED <<queueVars, row, active, purged, batch, told, requests,
                   fanouts, schedules, claims, disrupted>>

(* The active subscribers; with none, recipientCount becomes 0 at once. *)
FanSelect(p) ==
    /\ pc[p] = "select"
    /\ Go(p, IF active = {} THEN "count" ELSE "create")
    /\ Hold(p, [local[p] EXCEPT !.loaded = active])
    /\ UNCHANGED <<queueVars, row, active, purged, batch, told, requests,
                   fanouts, schedules, claims, disrupted>>

(* createMany with skipDuplicates: existing rows keep their status. *)
FanCreate(p) ==
    /\ pc[p] = "create"
    /\ local[p].loaded \cap purged = {}
    /\ rcpt' = [rcpt EXCEPT ![local[p].camp] =
                  [s \in Subscriber |->
                     IF s \in local[p].loaded /\ @[s] = "none" THEN "PENDING" ELSE @[s]]]
    /\ Go(p, "load")
    /\ UNCHANGED <<jobs, mailed, faults, row, active, purged, local, batch,
                   told, requests, fanouts, schedules, claims, disrupted>>

(* findByCampaignId: every row of the campaign, whoever created it. *)
Rows(c) == {s \in Subscriber : rcpt[c][s] \notin {"none", "gone"}}

(* A mutant: the loop stops one row early. *)
BugLoop(left) == IF Cardinality(left) <= 1 THEN "count" ELSE "queue"

(* The loop over the loaded rows goes on, or is done. *)
Loop(left) == IF left = {} THEN "count" ELSE "queue"

FanLoad(p) ==
    /\ pc[p] = "load"
    /\ Hold(p, [local[p] EXCEPT !.loaded = Rows(local[p].camp),
                                !.left = Rows(local[p].camp)])
    /\ Go(p, Loop(Rows(local[p].camp)))
    /\ UNCHANGED <<queueVars, row, active, purged, batch, told, requests,
                   fanouts, schedules, claims, disrupted>>

(* A mutant: the text is read again for each recipient. *)
BugFanQueue(p) ==
    /\ pc[p] = "queue"
    /\ \E s \in local[p].left :
          /\ Enqueue(local[p].camp, s, local[p].fanout, row[local[p].camp].version)
          /\ Hold(p, [local[p] EXCEPT !.left = @ \ {s}, !.hand = {s}])
    /\ Go(p, "queued")
    /\ UNCHANGED <<rcpt, mailed, faults, row, active, purged, batch, told,
                   requests, fanouts, schedules, claims, disrupted>>

(* The job carries the snapshot taken before the fan-out began. *)
FanQueue(p) ==
    /\ pc[p] = "queue"
    /\ \E s \in local[p].left :
          /\ Enqueue(local[p].camp, s, local[p].fanout, local[p].version)
          /\ Hold(p, [local[p] EXCEPT !.left = @ \ {s}, !.hand = {s}])
    /\ Go(p, "queued")
    /\ UNCHANGED <<rcpt, mailed, faults, row, active, purged, batch, told,
                   requests, fanouts, schedules, claims, disrupted>>

(* updateStatus to QUEUED, although a worker may be done with the job. *)
FanQueued(p) ==
    /\ pc[p] = "queued"
    /\ local[p].hand \subseteq Rows(local[p].camp)
    /\ rcpt' = [rcpt EXCEPT ![local[p].camp] =
                  [s \in Subscriber |-> IF s \in local[p].hand THEN "QUEUED" ELSE @[s]]]
    /\ Hold(p, [local[p] EXCEPT !.hand = {}])
    /\ Go(p, Loop(local[p].left))
    /\ UNCHANGED <<jobs, mailed, faults, row, active, purged, batch, told,
                   requests, fanouts, schedules, claims, disrupted>>

(* Somebody was purged since the select or the load: the insert violates   *)
(* its foreign key and creates nothing, or the row to update is not there. *)
(* Either throws, and the send fails for every other recipient too.        *)
FanMisses(p) ==
    /\ \/ pc[p] = "create" /\ local[p].loaded \cap purged # {}
       \/ pc[p] = "queued" /\ ~(local[p].hand \subseteq Rows(local[p].camp))
    /\ disrupted' = [disrupted EXCEPT ![local[p].camp] = @ \cup {"threw"}]
    /\ Go(p, "fail")
    /\ UNCHANGED <<queueVars, row, active, purged, local, batch, told,
                   requests, fanouts, schedules, claims>>

(* A mutant: the count is that of the subscribers by now. *)
BugFanCount(p) ==
    /\ pc[p] = "count"
    /\ row' = [row EXCEPT ![local[p].camp].count = Cardinality(active)]
    /\ Go(p, "finish")
    /\ UNCHANGED <<queueVars, active, purged, local, batch, told, requests,
                   fanouts, schedules, claims, disrupted>>

FanCount(p) ==
    /\ pc[p] = "count"
    /\ row' = [row EXCEPT ![local[p].camp].count = Cardinality(local[p].loaded)]
    /\ Go(p, "finish")
    /\ UNCHANGED <<queueVars, active, purged, local, batch, told, requests,
                   fanouts, schedules, claims, disrupted>>

-----------------------------------------------------------------------------
(* The end of a send, manual or scheduled. *)

Finish(p) ==
    /\ pc[p] = "finish"
    /\ SetStatus(local[p].camp, "SENT")
    /\ Go(p, "tell_sent")
    /\ UNCHANGED <<queueVars, active, purged, local, batch, told, requests,
                   fanouts, schedules, claims, disrupted>>

(* Any await of the try block may throw; queue.add may have added the job, *)
(* which is a throw at "queued".                                           *)
FanThrows(p) ==
    /\ pc[p] \in FanOutPC
    /\ Fault
    /\ disrupted' = [disrupted EXCEPT ![local[p].camp] = @ \cup {"threw"}]
    /\ Go(p, "fail")
    /\ UNCHANGED <<rcpt, jobs, mailed, row, active, purged, local, batch, told,
                   requests, fanouts, schedules, claims>>

(* A mutant: a catch block that only reports; the status stays SENDING. *)
BugFail(p) ==
    /\ pc[p] = "fail"
    /\ Go(p, "tell_failed")
    /\ UNCHANGED <<queueVars, row, active, purged, local, batch, told,
                   requests, fanouts, schedules, claims, disrupted>>

(* A mutant: the creator is not told of a failure. *)
BugFailSilent(p) ==
    /\ pc[p] = "fail"
    /\ SetStatus(local[p].camp, "FAILED")
    /\ Return(p)
    /\ UNCHANGED <<queueVars, active, purged, batch, told, requests, fanouts,
                   schedules, claims, disrupted>>

(* The catch block. *)
Fail(p) ==
    /\ pc[p] = "fail"
    /\ SetStatus(local[p].camp, "FAILED")
    /\ Go(p, "tell_failed")
    /\ UNCHANGED <<queueVars, active, purged, local, batch, told, requests,
                   fanouts, schedules, claims, disrupted>>

(* A mutant: the label instead of the outcome. *)
BugOutcome(label) == label

(* notifyCreator: the outcome is stored for the creator. *)
Outcome(label) == IF label = "tell_sent" THEN "sent" ELSE "failed"

Note(p, outcome) ==
    told' = [told EXCEPT ![local[p].camp] = @ \cup {<<local[p].fanout, outcome>>}]

Tell(p) ==
    /\ pc[p] \in TellPC
    /\ Note(p, Outcome(pc[p]))
    /\ Return(p)
    /\ UNCHANGED <<queueVars, row, active, purged, batch, requests, fanouts,
                   schedules, claims, disrupted>>

(* The insert fails: NotificationsService.notify logs that and resolves,   *)
(* and the handler goes on as if the creator had been told.                *)
TellLost(p) ==
    /\ pc[p] \in TellPC
    /\ Fault
    /\ Note(p, "nothing")
    /\ Return(p)
    /\ UNCHANGED <<rcpt, jobs, mailed, row, active, purged, batch, requests,
                   fanouts, schedules, claims, disrupted>>

(* The process dies, or an await outside every try block throws: the       *)
(* handler is gone with everything it had read, and nothing resumes it.    *)
Die(p) ==
    /\ pc[p] # "idle"
    /\ Fault
    /\ IF pc[p] \in SendingPC \cup TellPC THEN Note(p, "nothing") ELSE UNCHANGED told
    /\ disrupted' = IF pc[p] \in SendingPC
                    THEN [disrupted EXCEPT ![local[p].camp] = @ \cup {"died"}]
                    ELSE disrupted
    /\ Go(p, "idle")
    /\ Hold(p, Blank)
    /\ batch' = [batch EXCEPT ![p] = {}]
    /\ UNCHANGED <<rcpt, jobs, mailed, row, active, purged, requests, fanouts,
                   schedules, claims>>

-----------------------------------------------------------------------------
RequestStep(a) ==
    \/ \E c \in Campaign : UpdateRead(a, c) \/ ScheduleRead(a, c) \/ SendRead(a, c)
    \/ UpdateWrite(a)
    \/ ScheduleWrite(a)
    \/ SendMark(a)

CronStep(k) == CronScan(k) \/ CronClaim(k) \/ CronSkip(k)

FanOutStep(p) ==
    \/ FanSelect(p)
    \/ FanCreate(p)
    \/ FanLoad(p)
    \/ FanQueue(p)
    \/ FanQueued(p)
    \/ FanMisses(p)
    \/ FanCount(p)
    \/ Finish(p)
    \/ Fail(p)
    \/ Tell(p)

TableStep == \E c \in Campaign : Create(c) \/ Delete(c) \/ TimePasses(c)

AudienceStep ==
    \E s \in Subscriber : Subscribe(s) \/ Unsubscribe(s) \/ PurgeSubscriber(s)

Failure == \E p \in Proc : FanThrows(p) \/ TellLost(p) \/ Die(p)

MailStep ==
    /\ \E j \in jobs : WorkerStep(j) \/ WorkerFault(j)
    /\ UNCHANGED campaignVars

Next ==
    \/ TableStep
    \/ AudienceStep
    \/ \E a \in Admin : RequestStep(a)
    \/ \E k \in Cron : CronStep(k)
    \/ \E p \in Proc : FanOutStep(p)
    \/ Failure
    \/ MailStep

Spec == Init /\ [][Next]_vars

(* A live process performs its next await, the cron job fires every minute *)
(* and looks at every campaign it found, and a running worker goes on with *)
(* the jobs of the queue.  Requests, subscribers and failures owe nothing. *)
Fairness ==
    /\ \A k \in Cron : WF_vars(CronStep(k))
    /\ \A p \in Proc : WF_vars(FanOutStep(p))
    /\ \A a \in Admin : WF_vars(UpdateWrite(a) \/ ScheduleWrite(a) \/ SendMark(a))
    /\ \A c \in Campaign : WF_vars(TimePasses(c))
    /\ WF_vars((\E j \in jobs : WorkerStep(j)) /\ UNCHANGED campaignVars)

FairSpec == Spec /\ Fairness

-----------------------------------------------------------------------------
(* Safety. *)

(* A campaign is SENDING only while some handler is at work on it: however *)
(* sends, schedules and cron invocations interleave, no campaign is left   *)
(* SENDING, a status no request accepts, unless a handler died in there.   *)
SendingHasOwner ==
    \A c \in Campaign :
        row[c].status = "SENDING" =>
            (\E p \in Proc : Sending(p, c)) \/ "died" \in disrupted[c]

(* Overlapping cron invocations send a schedule at most once: there are    *)
(* never more claims than times the campaign was scheduled, one less while *)
(* a schedule is still unclaimed (the updateMany in processScheduled...).  *)
OneClaimPerSchedule ==
    \A c \in Campaign :
        claims[c] + (IF row[c].status = "SCHEDULED" THEN 1 ELSE 0) <= schedules[c]

(* The admin's recipient list never claims a delivery that did not happen: *)
(* over SMTP, SENT implies that the server accepted at least one message.  *)
(* (The other two transports resolve without it, see SendResolves.)        *)
SentMeansMailed ==
    Transport = "smtp" =>
        \A c \in Campaign, s \in Subscriber :
            rcpt[c][s] = "SENT" => mailed[c][s] > 0

(* Retries are bounded: a fan-out puts at most one job in the queue for a  *)
(* recipient, and a job reaches the transport at most once per attempt and *)
(* per stall, whatever throws or dies along the way.                       *)
MailBudget ==
    \A c \in Campaign, s \in Subscriber :
        mailed[c][s] <= fanouts[c] * (Attempts + MaxStalls)

(* When no fan-out of a campaign is running, none was cut short and so no  *)
(* recipient is waiting for a job: concurrent fan-outs that create and     *)
(* load each other's rows still add a job for every row.                   *)
NoRowLeftPending ==
    \A c \in Campaign :
        (disrupted[c] \subseteq {"overlapped"} /\ \A p \in Proc : ~FanningOut(p, c)) =>
            \A s \in Subscriber : rcpt[c][s] # "PENDING"

(* All recipients of a fan-out get the same text although the campaign may *)
(* be edited meanwhile (an update that read DRAFT before the send began).  *)
SameTextPerFanOut ==
    \A j, k \in jobs :
        (j.camp = k.camp /\ j.fanout = k.fanout) => j.version = k.version

(* The recipients a campaign ever had, those the purge took away included. *)
EverRows(c) == {s \in Subscriber : rcpt[c][s] # "none"}

(* recipientCount against the recipient rows of a campaign that is SENT,   *)
(* although subscribers come, go and are purged while it is sent.  It      *)
(* never counts a recipient the campaign did not have.  It leaves none out *)
(* that is still there, unless two fan-outs overlapped, when the one that  *)
(* loaded fewer rows may be the last to write, or a later one found no     *)
(* subscriber and reset it to 0.  So what is left of the count of a send   *)
(* is exact but for the recipients that have been purged.                  *)
CountMatchesRows ==
    \A c \in Campaign :
        row[c].status = "SENT" =>
            /\ row[c].count <= Cardinality(EverRows(c))
            /\ \/ Cardinality(Rows(c)) <= row[c].count
               \/ "overlapped" \in disrupted[c]
               \/ fanouts[c] > 1 /\ row[c].count = 0

(* A handler is at work on the n-th send of c, its notification included. *)
Working(p, c, n) ==
    pc[p] \in SendingPC \cup TellPC /\ local[p].camp = c /\ local[p].fanout = n

(* Every single send that began, the n-th of a campaign for each n, is     *)
(* either still in some handler's hands or has exactly one outcome: the    *)
(* creator was told once that it was sent, or once that it failed, never   *)
(* both and never neither, although two handlers may send the campaign at  *)
(* once and fail in each other's way.  "nothing" takes a failure: the      *)
(* handler died before the notification, or that was lost (notify swallows *)
(* its own errors).                                                        *)
CreatorIsTold ==
    \A c \in Campaign : \A n \in 1 .. fanouts[c] :
        \/ \E p \in Proc : Working(p, c, n)
        \/ \E outcome \in Outcomes :
              /\ outcome = "nothing" => faults > 0
              /\ \A o \in Outcomes : <<n, o>> \in told[c] <=> o = outcome

(* A handler has c in hand: it read the row before. *)
InHand(c) ==
    \E p \in Proc : local[p].camp = c \/ \E b \in batch[p] : b.camp = c

(* The jobs of a campaign, by recipient and fan-out. *)
JobKeys(c) == {<<j.sub, j.fanout>> : j \in {k \in jobs : k.camp = c}}

(* A deleted campaign that no handler had read by then is never taken up   *)
(* again: its status, text and count stay, and it gets neither recipients  *)
(* nor jobs, although the claim of the cron job ignores isDeleted.         *)
DeletedIsLeftAlone ==
    [][\A c \in Campaign :
         (row[c].deleted /\ ~InHand(c)) =>
             /\ ~InHand(c)'
             /\ row'[c].status = row[c].status
             /\ row'[c].version = row[c].version
             /\ row'[c].count = row[c].count
             /\ Rows(c)' \subseteq Rows(c)
             /\ JobKeys(c)' \subseteq JobKeys(c)]_vars

-----------------------------------------------------------------------------
(* Liveness, under FairSpec. *)

(* A campaign whose time has come is sent or reported as failed, unless it *)
(* is deleted or the handler that claimed it dies (nothing takes it over). *)
DueIsSettled ==
    \A c \in Campaign :
        (row[c].status = "SCHEDULED" /\ row[c].due) ~>
            \/ row[c].status \in {"SENT", "FAILED"}
            \/ row[c].deleted
            \/ "died" \in disrupted[c]

(* A job does not stay in the queue for ever: retries and stalls run out.  *)
JobsEnd ==
    \A c \in Campaign, s \in Subscriber :
        (\E j \in jobs : j.camp = c /\ j.sub = s) ~>
            ~(\E j \in jobs : j.camp = c /\ j.sub = s)

-----------------------------------------------------------------------------
(* What documentation and messages say, and the code does not guarantee.   *)

(* FEATURES.md: "per-recipient delivery tracking".  A recipient whose mail *)
(* is recorded as SENT is never put back to QUEUED by the fan-out that     *)
(* added the job.                                                          *)
DeliveryStatusKept ==
    [][\A c \in Campaign, s \in Subscriber :
         rcpt[c][s] = "SENT" => rcpt'[c][s] # "QUEUED"]_vars

(* scheduleCampaign: "Only draft campaigns can be scheduled". *)
OnlyDraftsAreScheduled ==
    [][\A c \in Campaign :
         (row'[c].status = "SCHEDULED" /\ row[c].status # "SCHEDULED") =>
             row[c].status = "DRAFT"]_vars
=============================================================================
