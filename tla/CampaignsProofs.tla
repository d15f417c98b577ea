--------------------------- MODULE CampaignsProofs ---------------------------
(***************************************************************************)
(* Proofs about Campaigns, for every set of campaigns, subscribers and     *)
(* handlers, every bound and every transport.                              *)
(***************************************************************************)
EXTENDS Campaigns, FiniteSetTheorems, TLAPS

USE DEF FanOutPC, SendingPC, TellPC, PC

-----------------------------------------------------------------------------
(* Lemmas about the operators that actions are built from.                 *)

(* The view a handler starts with. *)
LEMMA BlankType ==
  /\ Blank \in Local
  /\ \A c \in Campaign, v \in Nat :
        [Blank EXCEPT !.camp = c, !.version = v] \in Local
  /\ \A c \in Campaign, v \in Nat, n \in Nat :
        [Blank EXCEPT !.camp = c, !.version = v, !.fanout = n] \in Local
  BY DEF Blank, Local

(* A handler that goes to an await with a campaign in hand. *)
LEMMA GoHoldType ==
  ASSUME HandlerTypeOK, NEW p \in Proc, NEW label \in PC, NEW v \in Local,
         label \notin {"idle", "claim"} => v.camp \in Campaign,
         Go(p, label), Hold(p, v),
         batch' \in [Proc -> SUBSET [camp : Campaign, version : Nat]]
  PROVE  HandlerTypeOK'
  BY DEF HandlerTypeOK, Go, Hold

(* A handler that goes on with the view it has. *)
LEMMA GoType ==
  ASSUME HandlerTypeOK, NEW p \in Proc, NEW label \in PC,
         pc[p] \notin {"idle", "claim"}, Go(p, label), UNCHANGED <<local, batch>>
  PROVE  HandlerTypeOK'
  BY DEF HandlerTypeOK, Go

(* A handler that returns. *)
LEMMA ReturnType ==
  ASSUME HandlerTypeOK, NEW p \in Proc, Return(p), UNCHANGED batch
  PROVE  HandlerTypeOK'
  BY BlankType, GoHoldType DEF Return, HandlerTypeOK

(* The status of one campaign is updated. *)
LEMMA SetStatusType ==
  ASSUME TableTypeOK, NEW c \in Campaign, NEW status \in Status,
         SetStatus(c, status), UNCHANGED <<active, purged, told>>
  PROVE  TableTypeOK'
  BY DEF TableTypeOK, SetStatus, Row

(* One entry of a table of tables is updated. *)
LEMMA NestedUpdate ==
  ASSUME NEW A, NEW B, NEW V, NEW f \in [A -> [B -> V]],
         NEW a \in A, NEW b \in B, NEW v \in V
  PROVE  [f EXCEPT ![a][b] = v] \in [A -> [B -> V]]
  OBVIOUS

(* The members of a job that change. *)
LEMMA JobUpdate ==
  ASSUME NEW j \in Job, NEW x \in {"waiting", "active", "accepted", "failing"},
         NEW t \in 0 .. Attempts - 1, NEW n \in 0 .. MaxStalls
  PROVE  /\ [j EXCEPT !.pc = x] \in Job
         /\ [j EXCEPT !.pc = x, !.tries = t] \in Job
         /\ [j EXCEPT !.pc = x, !.stalls = n] \in Job
  BY DEF Job

LEMMA FaultType == QueueTypeOK /\ Fault => faults' \in 0 .. MaxFaults
  BY QueueAssumption DEF QueueTypeOK, Fault

(* A job that failed waits for its next attempt, or leaves the queue. *)
LEMMA RetryType ==
  ASSUME QueueTypeOK, NEW j \in jobs, Retry(j)
  PROVE  jobs' \in SUBSET Job
<1>1. j \in Job /\ j.tries \in 0 .. Attempts - 1 /\ j.stalls \in 0 .. MaxStalls
  BY DEF QueueTypeOK, Job
<1>2. CASE j.tries + 1 < Attempts
  <2>1. j.tries + 1 \in 0 .. Attempts - 1
    BY <1>1, <1>2, QueueAssumption
  <2>2. [j EXCEPT !.pc = "waiting", !.tries = j.tries + 1] \in Job
    BY <1>1, <2>1, JobUpdate
  <2> QED
    BY <2>2, <1>2 DEF Retry, Replace, QueueTypeOK
<1>3. CASE ~(j.tries + 1 < Attempts)
  BY <1>3 DEF Retry, QueueTypeOK
<1> QED
  BY <1>2, <1>3

-----------------------------------------------------------------------------
(* Type correctness.                                                       *)

LEMMA InitType == Init => TypeOK
<1> SUFFICES ASSUME Init PROVE TypeOK
  OBVIOUS
<1>1. QueueTypeOK
  BY QueueAssumption DEF Init, QueueInit, QueueTypeOK, RecipientStatus
<1>2. TableTypeOK
  BY DEF Init, TableTypeOK, Row, Status
<1>3. HandlerTypeOK
  BY BlankType DEF Init, HandlerTypeOK
<1>4. HistoryTypeOK
  BY CampaignsAssumption DEF Init, HistoryTypeOK
<1> QED
  BY <1>1, <1>2, <1>3, <1>4 DEF TypeOK

LEMMA WorkerType ==
  ASSUME QueueTypeOK, NEW j \in jobs, WorkerStep(j) \/ WorkerFault(j)
  PROVE  QueueTypeOK'
<1>1. j \in Job
  BY DEF QueueTypeOK
<1>2. /\ j.camp \in Campaign
      /\ j.sub \in Subscriber
      /\ j.tries \in 0 .. Attempts - 1
      /\ j.stalls \in 0 .. MaxStalls
  BY <1>1 DEF Job
<1>3. ASSUME NEW x \in {"waiting", "active", "accepted", "failing"},
             Replace(j, [j EXCEPT !.pc = x])
      PROVE  jobs' \in SUBSET Job
  BY <1>1, <1>2, <1>3, JobUpdate DEF Replace, QueueTypeOK
<1>4. ASSUME Accept(j.camp, j.sub) \/ UNCHANGED mailed
      PROVE  mailed' \in [Campaign -> [Subscriber -> Nat]]
  <2>1. mailed \in [Campaign -> [Subscriber -> Nat]]
    BY DEF QueueTypeOK
  <2>2. mailed[j.camp][j.sub] + 1 \in Nat
    BY <1>2, <2>1
  <2>3. CASE Accept(j.camp, j.sub)
    <3>1. mailed' = [mailed EXCEPT ![j.camp][j.sub] = mailed[j.camp][j.sub] + 1]
      BY <2>3 DEF Accept
    <3> QED
      BY <1>2, <2>1, <2>2, <3>1, NestedUpdate
  <2> QED
    BY <1>4, <2>1, <2>3
<1>5. ASSUME NEW st \in RecipientStatus, SetRecipient(j.camp, j.sub, st)
      PROVE  rcpt' \in [Campaign -> [Subscriber -> RecipientStatus]]
  BY <1>2, <1>5, NestedUpdate DEF SetRecipient, QueueTypeOK
<1>6. CASE Take(j)
  BY <1>3, <1>6 DEF Take, QueueTypeOK
<1>7. CASE SendResolves(j)
  BY <1>3, <1>4, <1>7 DEF SendResolves, QueueTypeOK
<1>8. CASE SendThrows(j)
  BY <1>3, <1>4, <1>8 DEF SendThrows, QueueTypeOK
<1>9. CASE MarkSent(j)
  BY <1>5, <1>9 DEF MarkSent, Complete, RecipientStatus, QueueTypeOK
<1>10. CASE MarkFailed(j)
  BY <1>5, <1>10, RetryType DEF MarkFailed, RecipientStatus, QueueTypeOK
<1>11. CASE MarkSentThrows(j)
  BY <1>3, <1>11, FaultType DEF MarkSentThrows, QueueTypeOK
<1>12. CASE MarkFailedThrows(j)
  BY <1>12, RetryType, FaultType DEF MarkFailedThrows, QueueTypeOK
<1>13. CASE WorkerDies(j)
  <2>1. CASE j.stalls < MaxStalls
    <3>1. j.stalls + 1 \in 0 .. MaxStalls
      BY <1>2, <2>1, QueueAssumption
    <3>2. [j EXCEPT !.pc = "waiting", !.stalls = j.stalls + 1] \in Job
      BY <1>1, <1>2, <3>1, JobUpdate
    <3> QED
      BY <3>2, <2>1, <1>13, FaultType DEF WorkerDies, Replace, QueueTypeOK
  <2>2. CASE ~(j.stalls < MaxStalls)
    BY <2>2, <1>13, FaultType DEF WorkerDies, QueueTypeOK
  <2> QED
    BY <2>1, <2>2
<1>14. CASE MarkSentMisses(j)
  BY <1>3, <1>14 DEF MarkSentMisses, QueueTypeOK
<1>15. CASE MarkFailedMisses(j)
  BY <1>15, RetryType DEF MarkFailedMisses, QueueTypeOK
<1> QED
  BY <1>6, <1>7, <1>8, <1>9, <1>10, <1>11, <1>12, <1>13, <1>14, <1>15
  DEF WorkerStep, WorkerFault

LEMMA NextType == TypeOK /\ [Next]_vars => TypeOK'
<1> SUFFICES ASSUME TypeOK, [Next]_vars PROVE TypeOK'
  OBVIOUS
<1> USE DEF TypeOK
<1>1. ASSUME NEW c \in Campaign, Create(c) PROVE TypeOK'
  BY <1>1, SetStatusType DEF Create, Status, queueVars, QueueTypeOK, HandlerTypeOK, HistoryTypeOK
<1>2. ASSUME NEW c \in Campaign, Delete(c) PROVE TypeOK'
  <2>1. TableTypeOK'
    BY <1>2 DEF Delete, TableTypeOK, Row
  <2> QED
    BY <1>2, <2>1 DEF Delete, queueVars, QueueTypeOK, HandlerTypeOK, HistoryTypeOK
<1>3. ASSUME NEW c \in Campaign, TimePasses(c) PROVE TypeOK'
  <2>1. TableTypeOK'
    BY <1>3 DEF TimePasses, TableTypeOK, Row
  <2> QED
    BY <1>3, <2>1 DEF TimePasses, queueVars, QueueTypeOK, HandlerTypeOK, HistoryTypeOK
<1>4. ASSUME NEW s \in Subscriber, Subscribe(s) \/ Unsubscribe(s) PROVE TypeOK'
  BY <1>4 DEF Subscribe, Unsubscribe, queueVars, QueueTypeOK, TableTypeOK, HandlerTypeOK,
              HistoryTypeOK
<1>5. ASSUME NEW a \in Admin, NEW c \in Campaign, NEW statuses, NEW next \in PC,
             next \notin {"idle", "claim"}, Read(a, c, statuses, next)
      PROVE  TypeOK'
  <2>1. row[c].version \in Nat /\ a \in Proc
    BY DEF TableTypeOK, Row, Proc
  <2>2. [Blank EXCEPT !.camp = c, !.version = row[c].version] \in Local
    BY <2>1, BlankType
  <2>3. [Blank EXCEPT !.camp = c, !.version = row[c].version].camp = c
    BY DEF Blank
  <2>4. HandlerTypeOK'
    BY <1>5, <2>1, <2>2, <2>3, GoHoldType DEF Read, HandlerTypeOK
  <2> QED
    BY <1>5, <2>4, CampaignsAssumption
    DEF Read, Request, queueVars, QueueTypeOK, TableTypeOK, HistoryTypeOK
<1>6. ASSUME NEW a \in Admin, UpdateWrite(a) PROVE TypeOK'
  <2>1. a \in Proc /\ local[a].camp \in Campaign
    BY <1>6 DEF UpdateWrite, HandlerTypeOK, Proc
  <2>2. TableTypeOK'
    BY <1>6, <2>1 DEF UpdateWrite, TableTypeOK, Row
  <2> QED
    BY <1>6, <2>1, <2>2, ReturnType DEF UpdateWrite, queueVars, QueueTypeOK, HistoryTypeOK
<1>7. ASSUME NEW a \in Admin, ScheduleWrite(a) PROVE TypeOK'
  <2>1. a \in Proc /\ local[a].camp \in Campaign
    BY <1>7 DEF ScheduleWrite, HandlerTypeOK, Proc
  <2>2. TableTypeOK'
    BY <1>7, <2>1 DEF ScheduleWrite, TableTypeOK, Row, Status
  <2>3. HistoryTypeOK'
    BY <1>7, <2>1 DEF ScheduleWrite, HistoryTypeOK
  <2> QED
    BY <1>7, <2>1, <2>2, <2>3, ReturnType DEF ScheduleWrite, queueVars, QueueTypeOK
<1>8. ASSUME NEW p \in Proc, NEW c \in Campaign, NEW v \in Nat, Begin(p, c, v)
      PROVE  /\ fanouts' \in [Campaign -> Nat]
             /\ disrupted' \in [Campaign -> SUBSET {"threw", "died", "overlapped"}]
             /\ batch' \in [Proc -> SUBSET [camp : Campaign, version : Nat]] => HandlerTypeOK'
             /\ UNCHANGED <<active, purged, told>> => TableTypeOK'
  <2>1. fanouts[c] + 1 \in Nat
    BY DEF HistoryTypeOK
  <2>2. [Blank EXCEPT !.camp = c, !.version = v, !.fanout = fanouts[c] + 1] \in Local
    BY <2>1, BlankType
  <2>3. [Blank EXCEPT !.camp = c, !.version = v, !.fanout = fanouts[c] + 1].camp = c
    BY DEF Blank
  <2>4. disrupted' \in [Campaign -> SUBSET {"threw", "died", "overlapped"}]
    BY <1>8 DEF Begin, HistoryTypeOK
  <2> QED
    BY <1>8, <2>1, <2>2, <2>3, <2>4, GoHoldType, SetStatusType DEF Begin, HistoryTypeOK, Status
<1>9. ASSUME NEW a \in Admin, SendMark(a) PROVE TypeOK'
  <2>1. a \in Proc /\ local[a].camp \in Campaign /\ local[a].version \in Nat
    BY <1>9 DEF SendMark, HandlerTypeOK, Proc, Local
  <2> QED
    BY <1>8, <1>9, <2>1 DEF SendMark, queueVars, QueueTypeOK, HandlerTypeOK, HistoryTypeOK
<1>10. ASSUME NEW k \in Cron, CronScan(k) PROVE TypeOK'
  <2>1. HandlerTypeOK'
    BY <1>10 DEF CronScan, Due, Go, HandlerTypeOK, Proc, TableTypeOK, Row
  <2> QED
    BY <1>10, <2>1 DEF CronScan, queueVars, QueueTypeOK, TableTypeOK, HistoryTypeOK
<1>11. ASSUME NEW k \in Cron, CronClaim(k) PROVE TypeOK'
  <2>1. PICK b \in batch[k] :
          /\ batch' = [batch EXCEPT ![k] = @ \ {b}]
          /\ claims' = [claims EXCEPT ![b.camp] = @ + 1]
          /\ Begin(k, b.camp, b.version)
    BY <1>11 DEF CronClaim
  <2>2. k \in Proc /\ b.camp \in Campaign /\ b.version \in Nat
    BY DEF HandlerTypeOK, Proc
  <2>3. batch' \in [Proc -> SUBSET [camp : Campaign, version : Nat]]
    BY <2>1, <2>2 DEF HandlerTypeOK
  <2>4. claims' \in [Campaign -> Nat]
    BY <2>1, <2>2 DEF HistoryTypeOK
  <2> QED
    BY <1>8, <1>11, <2>1, <2>2, <2>3, <2>4 DEF CronClaim, queueVars, QueueTypeOK, HistoryTypeOK
<1>12. ASSUME NEW k \in Cron, CronSkip(k) PROVE TypeOK'
  <2>1. HandlerTypeOK'
    BY <1>12 DEF CronSkip, Go, HandlerTypeOK, Proc
  <2> QED
    BY <1>12, <2>1 DEF CronSkip, queueVars, QueueTypeOK, TableTypeOK, HistoryTypeOK
<1>13. ASSUME NEW p \in Proc, NEW x \in SUBSET Subscriber, NEW y \in SUBSET Subscriber
       PROVE  /\ [local[p] EXCEPT !.loaded = x] \in Local
              /\ [local[p] EXCEPT !.loaded = x, !.left = y] \in Local
              /\ [local[p] EXCEPT !.left = x, !.hand = y] \in Local
              /\ [local[p] EXCEPT !.hand = x] \in Local
  <2>1. local[p] \in Local
    BY DEF HandlerTypeOK
  <2> QED
    BY <2>1 DEF Local
<1>14. ASSUME NEW p \in Proc, FanSelect(p) PROVE TypeOK'
  <2>1. local[p].camp \in Campaign /\ [local[p] EXCEPT !.loaded = active].camp = local[p].camp
    BY <1>14 DEF FanSelect, HandlerTypeOK, Local
  <2>2. HandlerTypeOK'
    BY <1>13, <1>14, <2>1, GoHoldType DEF FanSelect, HandlerTypeOK, TableTypeOK
  <2> QED
    BY <1>14, <2>2 DEF FanSelect, queueVars, QueueTypeOK, TableTypeOK, HistoryTypeOK
<1>15. ASSUME NEW p \in Proc, FanCreate(p) PROVE TypeOK'
  <2>1. local[p].camp \in Campaign
    BY <1>15 DEF FanCreate, HandlerTypeOK
  <2>2. QueueTypeOK'
    BY <1>15, <2>1 DEF FanCreate, QueueTypeOK, RecipientStatus
  <2> QED
    BY <1>15, <2>2, GoType DEF FanCreate, TableTypeOK, HistoryTypeOK
<1>16. ASSUME NEW p \in Proc, FanLoad(p) PROVE TypeOK'
  <2> DEFINE R == Rows(local[p].camp)
  <2>1. R \in SUBSET Subscriber
    BY DEF Rows
  <2>2. local[p].camp \in Campaign
        /\ [local[p] EXCEPT !.loaded = R, !.left = R].camp = local[p].camp
    BY <1>16 DEF FanLoad, HandlerTypeOK, Local
  <2>3. Loop(R) \in PC /\ Loop(R) \notin {"idle", "claim"}
    BY DEF Loop
  <2>4. HandlerTypeOK'
    BY <1>13, <1>16, <2>1, <2>2, <2>3, GoHoldType DEF FanLoad, HandlerTypeOK
  <2> QED
    BY <1>16, <2>4 DEF FanLoad, queueVars, QueueTypeOK, TableTypeOK, HistoryTypeOK
<1>17. ASSUME NEW p \in Proc, FanQueue(p) PROVE TypeOK'
  <2>1. PICK s \in local[p].left :
          /\ Enqueue(local[p].camp, s, local[p].fanout, local[p].version)
          /\ Hold(p, [local[p] EXCEPT !.left = @ \ {s}, !.hand = {s}])
    BY <1>17 DEF FanQueue
  <2>2. /\ local[p].camp \in Campaign
        /\ local[p].fanout \in Nat
        /\ local[p].version \in Nat
        /\ local[p].left \in SUBSET Subscriber
        /\ s \in Subscriber
    BY <1>17 DEF FanQueue, HandlerTypeOK, Local
  <2>3. [local[p] EXCEPT !.left = local[p].left \ {s}, !.hand = {s}].camp = local[p].camp
    BY DEF HandlerTypeOK, Local
  <2>4. HandlerTypeOK'
    BY <1>13, <1>17, <2>1, <2>2, <2>3, GoHoldType DEF FanQueue, HandlerTypeOK
  <2>5. NewJob(local[p].camp, s, local[p].fanout, local[p].version) \in Job
    BY <2>2, QueueAssumption DEF NewJob, Job
  <2> QED
    BY <1>17, <2>1, <2>4, <2>5 DEF FanQueue, Enqueue, QueueTypeOK, TableTypeOK, HistoryTypeOK
<1>18. ASSUME NEW p \in Proc, FanQueued(p) PROVE TypeOK'
  <2>1. local[p].camp \in Campaign /\ [local[p] EXCEPT !.hand = {}].camp = local[p].camp
    BY <1>18 DEF FanQueued, HandlerTypeOK, Local
  <2>2. Loop(local[p].left) \in PC /\ Loop(local[p].left) \notin {"idle", "claim"}
    BY DEF Loop
  <2>3. HandlerTypeOK'
    BY <1>13, <1>18, <2>1, <2>2, GoHoldType DEF FanQueued, HandlerTypeOK
  <2>4. QueueTypeOK'
    BY <1>18, <2>1 DEF FanQueued, QueueTypeOK, RecipientStatus
  <2> QED
    BY <1>18, <2>3, <2>4 DEF FanQueued, TableTypeOK, HistoryTypeOK
<1>19. ASSUME NEW p \in Proc, FanCount(p) PROVE TypeOK'
  <2>1. local[p].camp \in Campaign /\ local[p].loaded \in SUBSET Subscriber
    BY <1>19 DEF FanCount, HandlerTypeOK, Local
  <2>2. Cardinality(local[p].loaded) \in Nat
    BY <2>1, CampaignsAssumption, FS_Subset, FS_CardinalityType
  <2>3. TableTypeOK'
    BY <1>19, <2>1, <2>2 DEF FanCount, TableTypeOK, Row
  <2> QED
    BY <1>19, <2>3, GoType DEF FanCount, queueVars, QueueTypeOK, HistoryTypeOK
<1>20. ASSUME NEW p \in Proc, Finish(p) PROVE TypeOK'
  <2>1. local[p].camp \in Campaign
    BY <1>20 DEF Finish, HandlerTypeOK
  <2> QED
    BY <1>20, <2>1, GoType, SetStatusType
    DEF Finish, Status, queueVars, QueueTypeOK, HistoryTypeOK
<1>21. ASSUME NEW p \in Proc, Fail(p) PROVE TypeOK'
  <2>1. local[p].camp \in Campaign
    BY <1>21 DEF Fail, HandlerTypeOK
  <2> QED
    BY <1>21, <2>1, GoType, SetStatusType
    DEF Fail, Status, queueVars, QueueTypeOK, HistoryTypeOK
<1>29. ASSUME NEW p \in Proc, NEW outcome \in Outcomes, local[p].camp \in Campaign,
              Note(p, outcome)
       PROVE  told' \in [Campaign -> SUBSET (Nat \X Outcomes)]
  <2>1. local[p].fanout \in Nat
    BY DEF HandlerTypeOK, Local
  <2> QED
    BY <1>29, <2>1 DEF Note, TableTypeOK
<1>22. ASSUME NEW p \in Proc, Tell(p) PROVE TypeOK'
  <2>1. local[p].camp \in Campaign
    BY <1>22 DEF Tell, HandlerTypeOK
  <2>2. TableTypeOK'
    BY <1>22, <1>29, <2>1 DEF Tell, Outcome, Outcomes, TableTypeOK
  <2> QED
    BY <1>22, <2>2, ReturnType DEF Tell, queueVars, QueueTypeOK, HistoryTypeOK
<1>23. ASSUME NEW p \in Proc, FanThrows(p) PROVE TypeOK'
  <2>1. local[p].camp \in Campaign
    BY <1>23 DEF FanThrows, HandlerTypeOK
  <2>2. HistoryTypeOK'
    BY <1>23, <2>1 DEF FanThrows, HistoryTypeOK
  <2> QED
    BY <1>23, <2>2, GoType, FaultType DEF FanThrows, QueueTypeOK, TableTypeOK
<1>24. ASSUME NEW p \in Proc, Die(p) PROVE TypeOK'
  <2>1. HandlerTypeOK'
    BY <1>24, GoHoldType, BlankType DEF Die, HandlerTypeOK
  <2>2. HistoryTypeOK'
    BY <1>24 DEF Die, HistoryTypeOK, HandlerTypeOK
  <2>3. pc[p] \in SendingPC \cup TellPC => local[p].camp \in Campaign
    BY DEF HandlerTypeOK
  <2>4. told' \in [Campaign -> SUBSET (Nat \X Outcomes)]
    BY <1>24, <1>29, <2>3 DEF Die, Outcomes, TableTypeOK
  <2> QED
    BY <1>24, <2>1, <2>2, <2>4, FaultType DEF Die, QueueTypeOK, TableTypeOK
<1>25. ASSUME NEW p \in Proc, TellLost(p) PROVE TypeOK'
  <2>1. local[p].camp \in Campaign
    BY <1>25 DEF TellLost, HandlerTypeOK
  <2>2. HistoryTypeOK'
    BY <1>25, <2>1 DEF TellLost, HistoryTypeOK
  <2>3. told' \in [Campaign -> SUBSET (Nat \X Outcomes)]
    BY <1>25, <1>29, <2>1 DEF TellLost, Outcomes
  <2> QED
    BY <1>25, <2>2, <2>3, ReturnType, FaultType DEF TellLost, QueueTypeOK, TableTypeOK
<1>28. ASSUME NEW s \in Subscriber, PurgeSubscriber(s) PROVE TypeOK'
  <2>1. QueueTypeOK'
    BY <1>28 DEF PurgeSubscriber, QueueTypeOK, RecipientStatus
  <2> QED
    BY <1>28, <2>1 DEF PurgeSubscriber, TableTypeOK, HandlerTypeOK, HistoryTypeOK
<1>30. ASSUME NEW p \in Proc, FanMisses(p) PROVE TypeOK'
  <2>1. local[p].camp \in Campaign
    BY <1>30 DEF FanMisses, HandlerTypeOK
  <2>2. HistoryTypeOK'
    BY <1>30, <2>1 DEF FanMisses, HistoryTypeOK
  <2> QED
    BY <1>30, <2>2, GoType DEF FanMisses, queueVars, QueueTypeOK, TableTypeOK
<1>26. ASSUME MailStep PROVE TypeOK'
  BY <1>26, WorkerType DEF MailStep, campaignVars, TableTypeOK, HandlerTypeOK, HistoryTypeOK
<1>27. CASE UNCHANGED vars
  BY <1>27 DEF vars, campaignVars, queueVars, QueueTypeOK, TableTypeOK, HandlerTypeOK,
              HistoryTypeOK
<1> QED
  <2>1. CASE TableStep \/ AudienceStep
    BY <1>1, <1>2, <1>3, <1>4, <1>28, <2>1 DEF TableStep, AudienceStep
  <2>2. CASE \E a \in Admin : RequestStep(a)
    BY <1>5, <1>6, <1>7, <1>9, <2>2
    DEF RequestStep, UpdateRead, ScheduleRead, SendRead
  <2>3. CASE \E k \in Cron : CronStep(k)
    BY <1>10, <1>11, <1>12, <2>3 DEF CronStep
  <2>4. CASE \E p \in Proc : FanOutStep(p)
    BY <1>14, <1>15, <1>16, <1>17, <1>18, <1>19, <1>20, <1>21, <1>22, <1>30, <2>4
    DEF FanOutStep
  <2>5. CASE Failure
    BY <1>23, <1>24, <1>25, <2>5 DEF Failure
  <2> QED
    BY <1>26, <1>27, <2>1, <2>2, <2>3, <2>4, <2>5 DEF Next

(* Every behaviour keeps its types, in particular: a handler at work has a *)
(* campaign in hand, and a job never exceeds its attempts and stalls.      *)
THEOREM TypeCorrect == Spec => []TypeOK
  BY InitType, NextType, PTL DEF Spec
-----------------------------------------------------------------------------
(* One claim per schedule.  The property is inductive: only ScheduleWrite  *)
(* makes a campaign SCHEDULED, and it counts; CronClaim counts and takes   *)
(* the campaign out of SCHEDULED in the same update.                       *)

LEMMA ClaimNext ==
  ASSUME TypeOK, OneClaimPerSchedule, [Next]_vars
  PROVE  OneClaimPerSchedule'
<1> USE DEF OneClaimPerSchedule
<1>0. /\ row \in [Campaign -> Row]
      /\ claims \in [Campaign -> Nat]
      /\ schedules \in [Campaign -> Nat]
  BY DEF TypeOK, TableTypeOK, HistoryTypeOK
(* A step that schedules nothing and counts nothing. *)
<1>1. ASSUME \A c \in Campaign :
               row'[c].status = "SCHEDULED" => row[c].status = "SCHEDULED",
             UNCHANGED <<claims, schedules>>
      PROVE  OneClaimPerSchedule'
  BY <1>0, <1>1
<1>2. ASSUME UNCHANGED <<row, claims, schedules>> PROVE OneClaimPerSchedule'
  BY <1>2
<1>3. ASSUME NEW c \in Campaign, NEW status, status # "SCHEDULED", SetStatus(c, status)
      PROVE  \A d \in Campaign :
               row'[d].status = "SCHEDULED" => row[d].status = "SCHEDULED" /\ d # c
  BY <1>0, <1>3 DEF SetStatus, Row
<1>4. CASE TableStep
  BY <1>0, <1>1, <1>4 DEF TableStep, Create, Delete, TimePasses, SetStatus, Row
<1>5. ASSUME NEW a \in Admin, RequestStep(a) PROVE OneClaimPerSchedule'
  <2>0. pc[a] \notin {"idle", "claim"} => local[a].camp \in Campaign
    BY DEF TypeOK, HandlerTypeOK, Proc
  <2>1. CASE \E c \in Campaign : UpdateRead(a, c) \/ ScheduleRead(a, c) \/ SendRead(a, c)
    BY <1>2, <2>1 DEF UpdateRead, ScheduleRead, SendRead, Read
  <2>2. CASE UpdateWrite(a)
    BY <1>0, <1>1, <2>0, <2>2 DEF UpdateWrite, Row
  <2>3. CASE ScheduleWrite(a)
    <3> DEFINE c == local[a].camp
    <3>1. c \in Campaign
      BY <2>0, <2>3 DEF ScheduleWrite
    <3>2. /\ schedules'[c] = schedules[c] + 1
          /\ claims' = claims
          /\ \A d \in Campaign \ {c} : row'[d] = row[d] /\ schedules'[d] = schedules[d]
      BY <1>0, <2>3, <3>1 DEF ScheduleWrite
    <3>3. ASSUME NEW d \in Campaign
          PROVE  claims'[d] + (IF row'[d].status = "SCHEDULED" THEN 1 ELSE 0) <= schedules'[d]
      BY <1>0, <3>1, <3>2
    <3> QED
      BY <3>3
  <2>4. CASE SendMark(a)
    BY <1>1, <1>3, <2>0, <2>4 DEF SendMark, Begin
  <2> QED
    BY <1>5, <2>1, <2>2, <2>3, <2>4 DEF RequestStep
<1>6. ASSUME NEW k \in Cron, CronStep(k) PROVE OneClaimPerSchedule'
  <2>1. CASE CronScan(k) \/ CronSkip(k)
    BY <1>2, <2>1 DEF CronScan, CronSkip
  <2>2. CASE CronClaim(k)
    <3>1. PICK b \in batch[k] :
            /\ row[b.camp].status = "SCHEDULED"
            /\ claims' = [claims EXCEPT ![b.camp] = @ + 1]
            /\ SetStatus(b.camp, "SENDING")
      BY <2>2 DEF CronClaim, Begin
    <3>2. b.camp \in Campaign
      BY DEF TypeOK, HandlerTypeOK, Proc
    <3>3. schedules' = schedules
      BY <2>2 DEF CronClaim
    <3>4. \A d \in Campaign : row'[d].status = "SCHEDULED" => row[d].status = "SCHEDULED" /\ d # b.camp
      BY <1>3, <3>1, <3>2
    <3>5. ASSUME NEW d \in Campaign
          PROVE  claims'[d] + (IF row'[d].status = "SCHEDULED" THEN 1 ELSE 0) <= schedules'[d]
      BY <1>0, <3>1, <3>2, <3>3, <3>4
    <3> QED
      BY <3>5
  <2> QED
    BY <1>6, <2>1, <2>2 DEF CronStep
<1>7. ASSUME NEW p \in Proc, FanOutStep(p) PROVE OneClaimPerSchedule'
  <2>0. pc[p] \notin {"idle", "claim"} => local[p].camp \in Campaign
    BY DEF TypeOK, HandlerTypeOK
  <2>1. CASE FanCount(p)
    BY <1>0, <1>1, <2>0, <2>1 DEF FanCount, Row
  <2>2. CASE Finish(p) \/ Fail(p)
    BY <1>1, <1>3, <2>0, <2>2 DEF Finish, Fail
  <2> QED
    BY <1>2, <1>7, <2>1, <2>2
    DEF FanOutStep, FanSelect, FanCreate, FanLoad, FanQueue, FanQueued, FanMisses, Tell,
        queueVars
<1> QED
  BY <1>2, <1>4, <1>5, <1>6, <1>7
  DEF Next, AudienceStep, Subscribe, Unsubscribe, PurgeSubscriber, Failure, FanThrows, TellLost,
      Die, MailStep,
      campaignVars, vars

(* However many cron invocations overlap, and whatever else happens to the *)
(* campaign, each schedule is claimed by at most one of them.              *)
THEOREM ClaimedOnce == Spec => []OneClaimPerSchedule
<1>1. Init => OneClaimPerSchedule
  BY DEF Init, OneClaimPerSchedule
<1> QED
  BY <1>1, ClaimNext, TypeCorrect, PTL DEF Spec

-----------------------------------------------------------------------------
(* A campaign is not left SENDING.  Inductive given types: the update to   *)
(* SENDING moves the handler to the first await of the fan-out, and it     *)
(* leaves through Finish, Fail or Die.                                     *)

LEMMA OwnerNext ==
  ASSUME TypeOK, SendingHasOwner, [Next]_vars
  PROVE  SendingHasOwner'
<1> USE DEF Sending
<1>0. /\ row \in [Campaign -> Row]
      /\ pc \in [Proc -> PC]
      /\ local \in [Proc -> Local]
      /\ disrupted \in [Campaign -> SUBSET {"threw", "died", "overlapped"}]
      /\ \A p \in Proc : pc[p] \notin {"idle", "claim"} => local[p].camp \in Campaign
  BY DEF TypeOK, TableTypeOK, HandlerTypeOK, HistoryTypeOK
(* A step after which every handler that was sending c still is. *)
<1>1. ASSUME NEW c \in Campaign,
             row'[c].status = "SENDING" => row[c].status = "SENDING",
             \A p \in Proc : Sending(p, c) => Sending(p, c)',
             disrupted[c] \subseteq disrupted'[c]
      PROVE  row'[c].status = "SENDING" =>
               (\E p \in Proc : Sending(p, c)') \/ "died" \in disrupted'[c]
  BY <1>1 DEF SendingHasOwner
<1>2. ASSUME NEW p \in Proc, NEW c \in Campaign, NEW v, pc[p] \notin SendingPC,
             Begin(p, c, v)
      PROVE  SendingHasOwner'
  <2>1. Sending(p, c)'
    BY <1>0, <1>2 DEF Begin, Go, Hold, Blank
  <2>2. \A q \in Proc, d \in Campaign : Sending(q, d) => Sending(q, d)'
    BY <1>0, <1>2 DEF Begin, Go, Hold
  <2>3. \A d \in Campaign \ {c} : row'[d] = row[d] /\ disrupted'[d] = disrupted[d]
    BY <1>0, <1>2 DEF Begin, SetStatus
  <2> QED
    BY <1>1, <1>2, <2>1, <2>2, <2>3 DEF SendingHasOwner
<1>3. CASE TableStep
  BY <1>0, <1>1, <1>3
  DEF TableStep, Create, Delete, TimePasses, SetStatus, Row, SendingHasOwner
<1>4. ASSUME NEW a \in Admin, RequestStep(a) PROVE SendingHasOwner'
  <2>0. a \in Proc
    BY DEF Proc
  <2>1. CASE \E c \in Campaign : UpdateRead(a, c) \/ ScheduleRead(a, c) \/ SendRead(a, c)
    BY <1>0, <1>1, <2>0, <2>1
    DEF UpdateRead, ScheduleRead, SendRead, Read, Go, Hold, SendingHasOwner
  <2>2. CASE UpdateWrite(a)
    BY <1>0, <1>1, <2>0, <2>2 DEF UpdateWrite, Return, Go, Hold, Row, SendingHasOwner
  <2>3. CASE ScheduleWrite(a)
    BY <1>0, <1>1, <2>0, <2>3 DEF ScheduleWrite, Return, Go, Hold, Row, SendingHasOwner
  <2>4. CASE SendMark(a)
    BY <1>0, <1>2, <2>0, <2>4 DEF SendMark
  <2> QED
    BY <1>4, <2>1, <2>2, <2>3, <2>4 DEF RequestStep
<1>5. ASSUME NEW k \in Cron, CronStep(k) PROVE SendingHasOwner'
  <2>0. k \in Proc
    BY DEF Proc
  <2>1. CASE CronScan(k) \/ CronSkip(k)
    BY <1>0, <1>1, <2>0, <2>1 DEF CronScan, CronSkip, Go, SendingHasOwner
  <2>2. CASE CronClaim(k)
    <3>1. PICK b \in batch[k] : Begin(k, b.camp, b.version)
      BY <2>2 DEF CronClaim
    <3>2. b.camp \in Campaign
      BY <2>0 DEF TypeOK, HandlerTypeOK
    <3> QED
      BY <1>2, <2>0, <2>2, <3>1, <3>2 DEF CronClaim
  <2> QED
    BY <1>5, <2>1, <2>2 DEF CronStep
<1>6. ASSUME NEW p \in Proc, FanOutStep(p) PROVE SendingHasOwner'
  <2>1. CASE ~(Finish(p) \/ Fail(p) \/ Tell(p))
    <3> DEFINE Goes ==
          /\ pc'[p] \in SendingPC
          /\ local'[p].camp = local[p].camp
          /\ \A q \in Proc \ {p} : pc'[q] = pc[q] /\ local'[q] = local[q]
    <3>1. ASSUME FanSelect(p) PROVE Goes
      BY <1>0, <3>1 DEF FanSelect, Go, Hold, Local
    <3>2. ASSUME FanCreate(p) \/ FanCount(p) PROVE Goes
      BY <1>0, <3>2 DEF FanCreate, FanCount, Go
    <3>3. ASSUME FanLoad(p) PROVE Goes
      BY <1>0, <3>3 DEF FanLoad, Loop, Go, Hold, Local
    <3>4. ASSUME FanQueue(p) PROVE Goes
      BY <1>0, <3>4 DEF FanQueue, Go, Hold, Local
    <3>5. ASSUME FanQueued(p) PROVE Goes
      BY <1>0, <3>5 DEF FanQueued, Loop, Go, Hold, Local
    <3>10. ASSUME FanMisses(p) PROVE Goes
      BY <1>0, <3>10 DEF FanMisses, Go
    <3>6. Goes
      BY <1>6, <2>1, <3>1, <3>2, <3>3, <3>4, <3>5, <3>10 DEF FanOutStep
    <3> HIDE DEF Goes
    <3>7. \A c \in Campaign, q \in Proc : Sending(q, c) => Sending(q, c)'
      BY <3>6 DEF Goes
    <3>8. CASE FanCount(p)
      BY <1>0, <1>1, <3>7, <3>8 DEF FanCount, Row, SendingHasOwner
    <3>9. CASE ~FanCount(p)
      <4>1. row' = row /\ \A c \in Campaign : disrupted[c] \subseteq disrupted'[c]
        BY <1>0, <1>6, <2>1, <3>9
        DEF FanOutStep, FanSelect, FanCreate, FanLoad, FanQueue, FanQueued, FanMisses
      <4> QED
        BY <1>1, <3>7, <4>1 DEF SendingHasOwner
    <3> QED
      BY <3>8, <3>9
  <2>3. CASE Finish(p) \/ Fail(p)
    <3>1. \A c \in Campaign \ {local[p].camp} :
            row'[c] = row[c] /\ \A q \in Proc : Sending(q, c) => Sending(q, c)'
      BY <1>0, <2>3 DEF Finish, Fail, SetStatus, Go
    <3>2. row'[local[p].camp].status # "SENDING"
      BY <1>0, <2>3 DEF Finish, Fail, SetStatus, Row
    <3> QED
      BY <1>1, <2>3, <3>1, <3>2 DEF SendingHasOwner, Finish, Fail
  <2>4. CASE Tell(p)
    BY <1>0, <1>1, <2>4 DEF Tell, Return, Go, Hold, SendingHasOwner
  <2> QED
    BY <2>1, <2>3, <2>4
<1>7. ASSUME NEW p \in Proc, FanThrows(p) PROVE SendingHasOwner'
  BY <1>0, <1>1, <1>7 DEF FanThrows, Go, SendingHasOwner
<1>8. ASSUME NEW p \in Proc, TellLost(p) PROVE SendingHasOwner'
  BY <1>0, <1>1, <1>8 DEF TellLost, Return, Go, Hold, SendingHasOwner
<1>9. ASSUME NEW p \in Proc, Die(p) PROVE SendingHasOwner'
  <2>1. ASSUME NEW c \in Campaign, row[c].status = "SENDING"
        PROVE  (\E q \in Proc : Sending(q, c)') \/ "died" \in disrupted'[c]
    BY <1>0, <1>9, <2>1 DEF Die, Go, Hold, SendingHasOwner
  <2> QED
    BY <1>9, <2>1 DEF Die, SendingHasOwner
<1>10. CASE UNCHANGED <<row, pc, local, disrupted>>
  BY <1>10 DEF SendingHasOwner
<1> QED
  BY <1>3, <1>4, <1>5, <1>6, <1>7, <1>8, <1>9, <1>10
  DEF Next, AudienceStep, Subscribe, Unsubscribe, PurgeSubscriber, Failure, MailStep,
      campaignVars, vars

(* A campaign is SENDING only while a handler is sending it, or after one  *)
(* died in the attempt: no interleaving alone leaves it there.             *)
THEOREM SendingIsOwned == Spec => []SendingHasOwner
<1>1. Init => SendingHasOwner
  BY DEF Init, SendingHasOwner
<1> QED
  BY <1>1, OwnerNext, TypeCorrect, PTL DEF Spec

-----------------------------------------------------------------------------
(* SENT is never recorded for nothing.  SentMeansMailed is not inductive:  *)
(* MarkSent relies on what SendResolves did one await earlier, which the   *)
(* job remembers as "accepted".                                            *)

DeliveryInv ==
  /\ SentMeansMailed
  /\ Transport = "smtp" =>
       \A j \in jobs : j.pc = "accepted" => mailed[j.camp][j.sub] > 0

(* A step that takes back no message, accepts no job without one and marks *)
(* no recipient SENT without one.                                          *)
LEMMA DeliveryStep ==
  ASSUME TypeOK, DeliveryInv,
         Transport = "smtp" =>
           /\ \A c \in Campaign, s \in Subscriber : mailed[c][s] > 0 => mailed'[c][s] > 0
           /\ \A j \in jobs' : j.pc = "accepted" => j \in jobs \/ mailed'[j.camp][j.sub] > 0
           /\ \A c \in Campaign, s \in Subscriber :
                rcpt'[c][s] = "SENT" => rcpt[c][s] = "SENT" \/ mailed'[c][s] > 0
  PROVE  DeliveryInv'
<1>1. \A j \in jobs : j.camp \in Campaign /\ j.sub \in Subscriber
  BY DEF TypeOK, QueueTypeOK, Job
<1> QED
  BY <1>1 DEF DeliveryInv, SentMeansMailed

LEMMA DeliveryWorker ==
  ASSUME TypeOK, DeliveryInv, NEW j \in jobs, WorkerStep(j) \/ WorkerFault(j)
  PROVE  DeliveryInv'
<1>0. /\ j \in Job
      /\ j.camp \in Campaign
      /\ j.sub \in Subscriber
      /\ mailed \in [Campaign -> [Subscriber -> Nat]]
      /\ rcpt \in [Campaign -> [Subscriber -> RecipientStatus]]
  BY DEF TypeOK, QueueTypeOK, Job
(* The job stays in the queue in another place. *)
<1>1. ASSUME NEW x, x # "accepted",
             \/ jobs' = (jobs \ {j}) \cup {[j EXCEPT !.pc = x]}
             \/ \E n : jobs' = (jobs \ {j}) \cup {[j EXCEPT !.pc = x, !.tries = n]}
             \/ \E n : jobs' = (jobs \ {j}) \cup {[j EXCEPT !.pc = x, !.stalls = n]}
             \/ jobs' = jobs \ {j}
      PROVE  \A k \in jobs' : k.pc = "accepted" => k \in jobs
  BY <1>0, <1>1 DEF Job
<1>2. ASSUME Accept(j.camp, j.sub)
      PROVE  /\ mailed'[j.camp][j.sub] > 0
             /\ \A c \in Campaign, s \in Subscriber : mailed[c][s] > 0 => mailed'[c][s] > 0
  <2>1. mailed'[j.camp][j.sub] = mailed[j.camp][j.sub] + 1
    BY <1>0, <1>2 DEF Accept
  <2>2. ASSUME NEW c \in Campaign, NEW s \in Subscriber
        PROVE  mailed'[c][s] >= mailed[c][s]
    BY <1>0, <1>2, <2>1 DEF Accept
  <2>3. mailed[j.camp][j.sub] \in Nat
    BY <1>0
  <2>4. ASSUME NEW c \in Campaign, NEW s \in Subscriber, mailed[c][s] > 0
        PROVE  mailed'[c][s] > 0
    <3>1. CASE c = j.camp /\ s = j.sub
      BY <2>1, <2>3, <3>1
    <3>2. CASE ~(c = j.camp /\ s = j.sub)
      BY <1>0, <1>2, <2>4, <3>2 DEF Accept
    <3> QED
      BY <3>1, <3>2
  <2> QED
    BY <2>1, <2>3, <2>4
<1>3. ASSUME NEW status, SetRecipient(j.camp, j.sub, status)
      PROVE  \A c \in Campaign, s \in Subscriber :
               rcpt'[c][s] = rcpt[c][s] \/ (c = j.camp /\ s = j.sub /\ rcpt'[c][s] = status)
  <2>1. ASSUME NEW c \in Campaign, NEW s \in Subscriber
        PROVE  rcpt'[c][s] = IF c = j.camp /\ s = j.sub THEN status ELSE rcpt[c][s]
    BY <1>0, <1>3 DEF SetRecipient
  <2> QED
    BY <2>1
<1>4. CASE Take(j)
  BY <1>1, <1>4, DeliveryStep DEF Take, Replace
<1>5. CASE SendResolves(j)
  <2>1. \A k \in jobs' : k.pc = "accepted" => k \in jobs \/ (k.camp = j.camp /\ k.sub = j.sub)
    <3>1. jobs' = (jobs \ {j}) \cup {[j EXCEPT !.pc = "accepted"]}
      BY <1>5 DEF SendResolves, Replace
    <3>2. [j EXCEPT !.pc = "accepted"].camp = j.camp /\ [j EXCEPT !.pc = "accepted"].sub = j.sub
      BY <1>0 DEF Job
    <3> QED
      BY <3>1, <3>2
  <2>2. Transport = "smtp" => Accept(j.camp, j.sub)
    BY <1>5 DEF SendResolves
  <2>3. rcpt' = rcpt
    BY <1>5 DEF SendResolves
  <2> QED
    BY <1>2, <2>1, <2>2, <2>3, DeliveryStep
<1>6. CASE SendThrows(j)
  <2>1. \A k \in jobs' : k.pc = "accepted" => k \in jobs
    BY <1>1, <1>6 DEF SendThrows, Replace
  <2>2. Accept(j.camp, j.sub) \/ UNCHANGED mailed
    BY <1>6 DEF SendThrows
  <2>3. rcpt' = rcpt
    BY <1>6 DEF SendThrows
  <2> QED
    BY <1>2, <2>1, <2>2, <2>3, DeliveryStep
<1>7. CASE MarkSent(j)
  <2>1. Transport = "smtp" => mailed[j.camp][j.sub] > 0
    BY <1>7 DEF MarkSent, DeliveryInv
  <2>2. mailed' = mailed /\ jobs' = jobs \ {j} /\ SetRecipient(j.camp, j.sub, "SENT")
    BY <1>7 DEF MarkSent, Complete
  <2> QED
    BY <1>3, <2>1, <2>2, DeliveryStep
<1>8. ASSUME Retry(j) PROVE \A k \in jobs' : k.pc = "accepted" => k \in jobs
  BY <1>1, <1>8 DEF Retry, Replace
<1>9. CASE MarkFailed(j)
  <2>1. mailed' = mailed /\ SetRecipient(j.camp, j.sub, "FAILED") /\ Retry(j)
    BY <1>9 DEF MarkFailed
  <2> QED
    BY <1>3, <1>8, <2>1, DeliveryStep
<1>10. CASE MarkSentThrows(j)
  BY <1>1, <1>10, DeliveryStep DEF MarkSentThrows, Replace
<1>11. CASE MarkFailedThrows(j)
  BY <1>8, <1>11, DeliveryStep DEF MarkFailedThrows
<1>12. CASE WorkerDies(j)
  BY <1>1, <1>12, DeliveryStep DEF WorkerDies, Replace
<1>13. CASE MarkSentMisses(j)
  BY <1>1, <1>13, DeliveryStep DEF MarkSentMisses, Replace
<1>14. CASE MarkFailedMisses(j)
  BY <1>8, <1>14, DeliveryStep DEF MarkFailedMisses
<1> QED
  BY <1>4, <1>5, <1>6, <1>7, <1>9, <1>10, <1>11, <1>12, <1>13, <1>14
  DEF WorkerStep, WorkerFault

LEMMA DeliveryNext ==
  ASSUME TypeOK, DeliveryInv, [Next]_vars
  PROVE  DeliveryInv'
<1>1. CASE UNCHANGED <<rcpt, jobs, mailed>>
  BY <1>1, DeliveryStep
<1>2. ASSUME NEW p \in Proc, FanOutStep(p) PROVE DeliveryInv'
  <2>0. pc[p] \notin {"idle", "claim"} => local[p].camp \in Campaign
    BY DEF TypeOK, HandlerTypeOK
  <2>1. rcpt \in [Campaign -> [Subscriber -> RecipientStatus]]
    BY DEF TypeOK, QueueTypeOK
  <2>2. CASE FanCreate(p)
    <3>1. \A c \in Campaign, s \in Subscriber : rcpt'[c][s] = "SENT" => rcpt[c][s] = "SENT"
      BY <2>0, <2>1, <2>2 DEF FanCreate
    <3> QED
      BY <2>2, <3>1, DeliveryStep DEF FanCreate
  <2>3. CASE FanQueued(p)
    <3>1. \A c \in Campaign, s \in Subscriber : rcpt'[c][s] = "SENT" => rcpt[c][s] = "SENT"
      BY <2>0, <2>1, <2>3 DEF FanQueued
    <3> QED
      BY <2>3, <3>1, DeliveryStep DEF FanQueued
  <2>4. CASE FanQueue(p)
    <3>1. \A j \in jobs' : j.pc = "accepted" => j \in jobs
      BY <2>4 DEF FanQueue, Enqueue, NewJob
    <3> QED
      BY <2>4, <3>1, DeliveryStep DEF FanQueue
  <2> QED
    BY <1>1, <1>2, <2>2, <2>3, <2>4
    DEF FanOutStep, FanSelect, FanLoad, FanMisses, FanCount, Finish, Fail, Tell, queueVars
<1>3. CASE MailStep
  BY <1>3, DeliveryWorker DEF MailStep
<1>8. ASSUME NEW s \in Subscriber, PurgeSubscriber(s) PROVE DeliveryInv'
  <2>1. \A c \in Campaign, r \in Subscriber : rcpt'[c][r] = "SENT" => rcpt[c][r] = "SENT"
    BY <1>8 DEF PurgeSubscriber, TypeOK, QueueTypeOK
  <2> QED
    BY <1>8, <2>1, DeliveryStep DEF PurgeSubscriber
<1>4. CASE TableStep \/ AudienceStep
  BY <1>1, <1>4, <1>8
  DEF TableStep, Create, Delete, TimePasses, AudienceStep, Subscribe, Unsubscribe, queueVars
<1>5. ASSUME NEW a \in Admin, RequestStep(a) PROVE DeliveryInv'
  BY <1>1, <1>5
  DEF RequestStep, UpdateRead, ScheduleRead, SendRead, Read, UpdateWrite, ScheduleWrite,
      SendMark, queueVars
<1>6. ASSUME NEW k \in Cron, CronStep(k) PROVE DeliveryInv'
  BY <1>1, <1>6 DEF CronStep, CronScan, CronClaim, CronSkip, queueVars
<1>7. CASE Failure \/ UNCHANGED vars
  BY <1>1, <1>7 DEF Failure, FanThrows, TellLost, Die, vars, queueVars
<1> QED
  BY <1>2, <1>3, <1>4, <1>5, <1>6, <1>7 DEF Next

(* With the SMTP transport a recipient is SENT only after the server has   *)
(* accepted a message for it, whatever throws, dies or is retried.         *)
THEOREM SentIsMailed == Spec => []SentMeansMailed
<1>1. Init => DeliveryInv
  BY DEF Init, QueueInit, DeliveryInv, SentMeansMailed
<1>2. DeliveryInv => SentMeansMailed
  BY DEF DeliveryInv
<1> QED
  BY <1>1, <1>2, DeliveryNext, TypeCorrect, PTL DEF Spec

-----------------------------------------------------------------------------
(* The steps of a fan-out.  What the remaining invariants are about is     *)
(* changed by few of the steps; the others leave the queue and the fan-out *)
(* of every handler alone, or take a handler out of it with a record of it.*)

(* Everyone but p stays where it is. *)
OthersStay(p) ==
  \A q \in Proc \ {p} : pc'[q] = pc[q] /\ local'[q] = local[q]

(* p goes on with the same fan-out. *)
SameFanOut(p) ==
  /\ pc[p] \in FanOutPC
  /\ local[p].camp \in Campaign
  /\ local'[p].camp = local[p].camp
  /\ local'[p].fanout = local[p].fanout
  /\ local'[p].version = local[p].version
  /\ OthersStay(p)

(* The rows that the purge of a subscriber takes away. *)
RowsGo ==
  \A c \in Campaign, s \in Subscriber :
    rcpt'[c][s] = rcpt[c][s] \/ (rcpt[c][s] # "none" /\ rcpt'[c][s] = "gone")

Aside ==
  /\ UNCHANGED <<jobs, mailed, fanouts>>
  /\ RowsGo
  /\ \A c \in Campaign :
        /\ row'[c].count = row[c].count
        /\ row'[c].status = "SENT" => row[c].status = "SENT"
        /\ disrupted[c] \subseteq disrupted'[c]
  /\ \A p \in Proc :
        \/ pc'[p] = pc[p] /\ local'[p] = local[p]
        \/ /\ pc'[p] \notin FanOutPC
           /\ pc[p] \in FanOutPC => ~(disrupted'[local[p].camp] \subseteq {"overlapped"})

Started(p, c, v) ==
  /\ pc[p] \notin FanOutPC
  /\ Begin(p, c, v)
  /\ UNCHANGED <<rcpt, jobs, mailed>>

(* The steps that a fan-out takes itself. *)
Inside(p) ==
  FanSelect(p) \/ FanCreate(p) \/ FanLoad(p) \/ FanQueue(p) \/ FanQueued(p) \/ FanCount(p)
    \/ Finish(p)

LEMMA Kinds ==
  ASSUME TypeOK, [Next]_vars
  PROVE  \/ Aside
         \/ \E p \in Proc : Inside(p)
         \/ \E p \in Proc : \E c \in Campaign : \E v \in Nat : Started(p, c, v)
         \/ MailStep
<1>0. /\ row \in [Campaign -> Row]
      /\ pc \in [Proc -> PC]
      /\ local \in [Proc -> Local]
      /\ disrupted \in [Campaign -> SUBSET {"threw", "died", "overlapped"}]
      /\ \A p \in Proc : pc[p] \notin {"idle", "claim"} => local[p].camp \in Campaign
      /\ Admin \subseteq Proc /\ Cron \subseteq Proc
  BY DEF TypeOK, TableTypeOK, HandlerTypeOK, HistoryTypeOK, Proc
<1>9. rcpt' = rcpt => RowsGo
  BY DEF RowsGo
<1>10. ASSUME NEW s \in Subscriber, PurgeSubscriber(s) PROVE RowsGo
  BY <1>10 DEF PurgeSubscriber, RowsGo, TypeOK, QueueTypeOK
<1>1. CASE TableStep
  <2>1. ASSUME NEW c \in Campaign, Create(c) \/ Delete(c) \/ TimePasses(c)
        PROVE  \A d \in Campaign :
                 row'[d].count = row[d].count /\ (row'[d].status = "SENT" => row[d].status = "SENT")
    BY <1>0, <2>1 DEF Create, Delete, TimePasses, SetStatus, Row
  <2> QED
    BY <1>1, <1>9, <2>1 DEF TableStep, Create, Delete, TimePasses, queueVars, Aside
<1>2. CASE AudienceStep \/ UNCHANGED vars
  <2>1. CASE \E s \in Subscriber : PurgeSubscriber(s)
    BY <1>10, <2>1 DEF PurgeSubscriber, Aside
  <2> QED
    BY <1>2, <1>9, <2>1
    DEF AudienceStep, Subscribe, Unsubscribe, vars, queueVars, campaignVars, Aside
<1>3. ASSUME NEW p \in Proc, pc[p] \notin FanOutPC, NEW label \in PC \ FanOutPC,
             Go(p, label), OthersStay(p)
      PROVE  \A q \in Proc :
               \/ pc'[q] = pc[q] /\ local'[q] = local[q]
               \/ pc'[q] \notin FanOutPC /\ pc[q] \notin FanOutPC
  BY <1>0, <1>3 DEF Go, OthersStay
<1>4. ASSUME NEW p \in Proc, Return(p) PROVE OthersStay(p)
  BY <1>0, <1>4 DEF Return, Go, Hold, OthersStay
<1>5. ASSUME NEW a \in Admin, RequestStep(a)
      PROVE  Aside \/ \E c \in Campaign : \E v \in Nat : Started(a, c, v)
  <2>1. ASSUME NEW c \in Campaign, NEW statuses, NEW next \in {"update", "schedule", "mark"},
               Read(a, c, statuses, next)
        PROVE  Aside
    <3>1. OthersStay(a) /\ pc[a] \notin FanOutPC /\ Go(a, next)
      BY <1>0, <2>1 DEF Read, Go, Hold, OthersStay
    <3> QED
      BY <1>0, <1>3, <1>9, <2>1, <3>1 DEF Read, queueVars, Aside
  <2>2. CASE UpdateWrite(a) \/ ScheduleWrite(a)
    <3>1. /\ OthersStay(a)
          /\ pc[a] \notin FanOutPC
          /\ Go(a, IF batch[a] = {} THEN "idle" ELSE "claim")
      BY <1>0, <1>4, <2>2 DEF UpdateWrite, ScheduleWrite, Return
    <3>2. \A d \in Campaign :
            row'[d].count = row[d].count /\ (row'[d].status = "SENT" => row[d].status = "SENT")
      <4>1. local[a].camp \in Campaign
        BY <1>0, <2>2 DEF UpdateWrite, ScheduleWrite
      <4>2. CASE UpdateWrite(a)
        BY <1>0, <4>1, <4>2 DEF UpdateWrite, Row
      <4>3. CASE ScheduleWrite(a)
        BY <1>0, <4>1, <4>3 DEF ScheduleWrite, Row
      <4> QED
        BY <2>2, <4>2, <4>3
    <3> QED
      BY <1>0, <1>3, <1>9, <2>2, <3>1, <3>2 DEF UpdateWrite, ScheduleWrite, queueVars, Aside
  <2>3. CASE SendMark(a)
    BY <1>0, <2>3 DEF SendMark, Started, queueVars, Local
  <2> QED
    BY <1>5, <2>1, <2>2, <2>3 DEF RequestStep, UpdateRead, ScheduleRead, SendRead
<1>6. ASSUME NEW k \in Cron, CronStep(k)
      PROVE  Aside \/ \E c \in Campaign : \E v \in Nat : Started(k, c, v)
  <2>1. CASE CronScan(k) \/ CronSkip(k)
    <3>1. OthersStay(k) /\ pc[k] \notin FanOutPC /\ \E label \in PC \ FanOutPC : Go(k, label)
      BY <1>0, <2>1 DEF CronScan, CronSkip, Go, OthersStay
    <3> QED
      BY <1>0, <1>3, <1>9, <2>1, <3>1 DEF CronScan, CronSkip, queueVars, Aside
  <2>2. CASE CronClaim(k)
    BY <1>0, <2>2 DEF CronClaim, Started, queueVars, TypeOK, HandlerTypeOK
  <2> QED
    BY <1>6, <2>1, <2>2 DEF CronStep
<1>7. ASSUME NEW p \in Proc, FanOutStep(p) PROVE Aside \/ Inside(p)
  <2>1. CASE Fail(p)
    <3>1. OthersStay(p) /\ pc[p] \notin FanOutPC /\ Go(p, "tell_failed")
      BY <1>0, <2>1 DEF Fail, Go, OthersStay
    <3>2. \A d \in Campaign :
            row'[d].count = row[d].count /\ (row'[d].status = "SENT" => row[d].status = "SENT")
      BY <1>0, <2>1 DEF Fail, SetStatus, Row
    <3> QED
      BY <1>0, <1>3, <1>9, <2>1, <3>1, <3>2 DEF Fail, queueVars, Aside
  <2>2. CASE Tell(p)
    <3>1. /\ OthersStay(p)
          /\ pc[p] \notin FanOutPC
          /\ Go(p, IF batch[p] = {} THEN "idle" ELSE "claim")
      BY <1>0, <1>4, <2>2 DEF Tell, Return
    <3> QED
      BY <1>0, <1>3, <1>9, <2>2, <3>1 DEF Tell, queueVars, Aside
  <2>3. CASE FanMisses(p)
    <3>1. /\ "threw" \in disrupted'[local[p].camp]
          /\ \A c \in Campaign : disrupted[c] \subseteq disrupted'[c]
          /\ pc'[p] = "fail"
          /\ OthersStay(p)
      BY <1>0, <2>3 DEF FanMisses, Go, OthersStay
    <3> QED
      BY <1>9, <2>3, <3>1 DEF FanMisses, queueVars, OthersStay, Aside
  <2> QED
    BY <1>7, <2>1, <2>2, <2>3 DEF FanOutStep, Inside
<1>8. CASE Failure
  <2>1. ASSUME NEW p \in Proc, FanThrows(p) PROVE Aside
    <3>1. /\ "threw" \in disrupted'[local[p].camp]
          /\ \A c \in Campaign : disrupted[c] \subseteq disrupted'[c]
          /\ pc'[p] = "fail"
          /\ OthersStay(p)
      BY <1>0, <2>1 DEF FanThrows, Go, OthersStay
    <3> QED
      BY <1>9, <2>1, <3>1 DEF FanThrows, OthersStay, Aside
  <2>2. ASSUME NEW p \in Proc, TellLost(p) PROVE Aside
    <3>1. /\ OthersStay(p)
          /\ pc[p] \notin FanOutPC
          /\ Go(p, IF batch[p] = {} THEN "idle" ELSE "claim")
          /\ \A c \in Campaign : disrupted[c] \subseteq disrupted'[c]
      BY <1>0, <1>4, <2>2 DEF TellLost, Return
    <3> QED
      BY <1>0, <1>3, <1>9, <2>2, <3>1 DEF TellLost, Aside
  <2>3. ASSUME NEW p \in Proc, Die(p) PROVE Aside
    <3>1. /\ \A c \in Campaign : disrupted[c] \subseteq disrupted'[c]
          /\ pc[p] \in FanOutPC => "died" \in disrupted'[local[p].camp]
      BY <1>0, <2>3 DEF Die
    <3>2. pc'[p] = "idle" /\ OthersStay(p)
      BY <1>0, <2>3 DEF Die, Go, Hold, OthersStay
    <3> QED
      BY <1>9, <2>3, <3>1, <3>2 DEF Die, OthersStay, Aside
  <2> QED
    BY <1>8, <2>1, <2>2, <2>3 DEF Failure
<1> QED
  BY <1>0, <1>1, <1>2, <1>5, <1>6, <1>7, <1>8 DEF Next

(* What a step of a fan-out does to the handler that takes it. *)
LEMMA InsideEffect ==
  ASSUME TypeOK, NEW p \in Proc
  PROVE  /\ Inside(p) => SameFanOut(p)
         /\ FanSelect(p) =>
              /\ pc'[p] = IF active = {} THEN "count" ELSE "create"
              /\ local'[p].loaded = active
              /\ local'[p].left = local[p].left
              /\ local'[p].hand = local[p].hand
         /\ FanCreate(p) => pc'[p] = "load" /\ local' = local
         /\ FanLoad(p) =>
              /\ pc'[p] = Loop(Rows(local[p].camp))
              /\ local'[p].loaded = Rows(local[p].camp)
              /\ local'[p].left = Rows(local[p].camp)
              /\ local'[p].hand = local[p].hand
         /\ FanQueue(p) =>
              /\ pc'[p] = "queued"
              /\ local'[p].loaded = local[p].loaded
              /\ \E s \in local[p].left :
                    local'[p].left = local[p].left \ {s} /\ local'[p].hand = {s}
         /\ FanQueued(p) =>
              /\ pc'[p] = Loop(local[p].left)
              /\ local'[p].loaded = local[p].loaded
              /\ local'[p].left = local[p].left
              /\ local'[p].hand = {}
         /\ FanCount(p) => pc'[p] = "finish" /\ local' = local
         /\ Finish(p) => pc'[p] = "tell_sent" /\ local' = local
<1>0. /\ pc \in [Proc -> PC]
      /\ local \in [Proc -> Local]
      /\ \A q \in Proc : pc[q] \notin {"idle", "claim"} => local[q].camp \in Campaign
  BY DEF TypeOK, HandlerTypeOK
<1>1. ASSUME FanSelect(p)
      PROVE  /\ SameFanOut(p)
             /\ pc'[p] = IF active = {} THEN "count" ELSE "create"
             /\ local'[p].loaded = active
             /\ local'[p].left = local[p].left
             /\ local'[p].hand = local[p].hand
  BY <1>0, <1>1 DEF FanSelect, Go, Hold, Local, SameFanOut, OthersStay
<1>2. ASSUME FanCreate(p) PROVE SameFanOut(p) /\ pc'[p] = "load" /\ local' = local
  BY <1>0, <1>2 DEF FanCreate, Go, SameFanOut, OthersStay
<1>3. ASSUME FanLoad(p)
      PROVE  /\ SameFanOut(p)
             /\ pc'[p] = Loop(Rows(local[p].camp))
             /\ local'[p].loaded = Rows(local[p].camp)
             /\ local'[p].left = Rows(local[p].camp)
             /\ local'[p].hand = local[p].hand
  BY <1>0, <1>3 DEF FanLoad, Go, Hold, Local, SameFanOut, OthersStay
<1>4. ASSUME FanQueue(p)
      PROVE  /\ SameFanOut(p)
             /\ pc'[p] = "queued"
             /\ local'[p].loaded = local[p].loaded
             /\ \E s \in local[p].left :
                   local'[p].left = local[p].left \ {s} /\ local'[p].hand = {s}
  BY <1>0, <1>4 DEF FanQueue, Go, Hold, Local, SameFanOut, OthersStay
<1>5. ASSUME FanQueued(p)
      PROVE  /\ SameFanOut(p)
             /\ pc'[p] = Loop(local[p].left)
             /\ local'[p].loaded = local[p].loaded
             /\ local'[p].left = local[p].left
             /\ local'[p].hand = {}
  BY <1>0, <1>5 DEF FanQueued, Go, Hold, Local, SameFanOut, OthersStay
<1>6. ASSUME FanCount(p) PROVE SameFanOut(p) /\ pc'[p] = "finish" /\ local' = local
  BY <1>0, <1>6 DEF FanCount, Go, SameFanOut, OthersStay
<1>7. ASSUME Finish(p) PROVE SameFanOut(p) /\ pc'[p] = "tell_sent" /\ local' = local
  BY <1>0, <1>7 DEF Finish, Go, SameFanOut, OthersStay
<1> QED
  BY <1>1, <1>2, <1>3, <1>4, <1>5, <1>6, <1>7 DEF Inside

(* What a job names, whatever becomes of it in the queue. *)
SameData(j, k) ==
  k.camp = j.camp /\ k.sub = j.sub /\ k.fanout = j.fanout /\ k.version = j.version

(* A worker takes one job out of the queue, or back in with the same data, *)
(* and at most settles the recipient that the job is for.                  *)
LEMMA WorkerEffect ==
  ASSUME TypeOK, NEW j \in jobs, WorkerStep(j) \/ WorkerFault(j)
  PROVE  /\ \/ jobs' = jobs \ {j}
            \/ \E k \in Job : SameData(j, k) /\ jobs' = (jobs \ {j}) \cup {k}
         /\ \A c \in Campaign, s \in Subscriber :
              \/ rcpt'[c][s] = rcpt[c][s]
              \/ /\ c = j.camp /\ s = j.sub
                 /\ rcpt[c][s] # "gone" /\ rcpt'[c][s] \in {"SENT", "FAILED"}
<1>0. /\ j \in Job
      /\ rcpt \in [Campaign -> [Subscriber -> RecipientStatus]]
      /\ jobs' \in SUBSET Job
  BY WorkerType DEF TypeOK, QueueTypeOK
<1>1. \/ jobs' = jobs \ {j}
      \/ \E k : SameData(j, k) /\ jobs' = (jobs \ {j}) \cup {k}
  <2>1. ASSUME NEW x
        PROVE  /\ SameData(j, [j EXCEPT !.pc = x])
               /\ \A n : SameData(j, [j EXCEPT !.pc = x, !.tries = n])
               /\ \A n : SameData(j, [j EXCEPT !.pc = x, !.stalls = n])
    BY <1>0 DEF SameData, Job
  <2> QED
    BY <2>1 DEF WorkerStep, WorkerFault, Take, SendResolves, SendThrows, MarkSent, Complete,
                MarkFailed, Retry, Replace, MarkSentThrows, MarkFailedThrows, WorkerDies,
                MarkSentMisses, MarkFailedMisses
<1>2. ASSUME NEW status, SetRecipient(j.camp, j.sub, status)
      PROVE  \A c \in Campaign, s \in Subscriber :
               rcpt'[c][s] = rcpt[c][s] \/ (c = j.camp /\ s = j.sub /\ rcpt'[c][s] = status)
  <2>1. ASSUME NEW c \in Campaign, NEW s \in Subscriber
        PROVE  rcpt'[c][s] = IF c = j.camp /\ s = j.sub THEN status ELSE rcpt[c][s]
    BY <1>0, <1>2 DEF SetRecipient
  <2> QED
    BY <2>1
<1>3. \/ rcpt' = rcpt
      \/ HasRow(j) /\ \E status \in {"SENT", "FAILED"} : SetRecipient(j.camp, j.sub, status)
  BY DEF WorkerStep, WorkerFault, Take, SendResolves, SendThrows, MarkSent, MarkFailed,
         MarkSentThrows, MarkFailedThrows, WorkerDies, MarkSentMisses, MarkFailedMisses
<1> QED
  BY <1>0, <1>1, <1>2, <1>3 DEF HasRow

-----------------------------------------------------------------------------
(* One text per fan-out.  Two jobs agree because each agrees with the view *)
(* of the handler that added it, and no two handlers share the number of a *)
(* fan-out; for the budget of messages the same invariant keeps that a     *)
(* fan-out has at most one job for a recipient, added by its handler only  *)
(* while it still may.                                                     *)

(* p has still to add its job for s. *)
MayQueue(p, s) ==
  \/ pc[p] \in {"select", "create", "load"}
  \/ pc[p] \in {"queue", "queued"} /\ s \in local[p].left

(* p runs fan-out n of c. *)
Runs(p, c, n) == FanningOut(p, c) /\ local[p].fanout = n

FanOutInv ==
  /\ \A p \in Proc : pc[p] \in FanOutPC => local[p].fanout \in 1 .. fanouts[local[p].camp]
  /\ \A j \in jobs : j.fanout \in 1 .. fanouts[j.camp]
  /\ \A p, q \in Proc, c \in Campaign, n \in Nat : Runs(p, c, n) /\ Runs(q, c, n) => p = q
  /\ \A p \in Proc, j \in jobs :
        Runs(p, j.camp, j.fanout) => j.version = local[p].version /\ ~MayQueue(p, j.sub)
  /\ \A j, k \in jobs :
        (j.camp = k.camp /\ j.fanout = k.fanout) =>
            j.version = k.version /\ (j.sub = k.sub => j = k)

(* The handlers of a step that begins no fan-out. *)
RunsOn ==
  \A p \in Proc :
    pc'[p] \in FanOutPC =>
      /\ pc[p] \in FanOutPC
      /\ local'[p].camp = local[p].camp
      /\ local'[p].fanout = local[p].fanout
      /\ local'[p].version = local[p].version
      /\ \A s \in Subscriber : MayQueue(p, s)' => MayQueue(p, s)

LEMMA AsideRunsOn == Aside => RunsOn
  BY DEF Aside, RunsOn, MayQueue

LEMMA InsideRunsOn ==
  ASSUME TypeOK, NEW p \in Proc, Inside(p)
  PROVE  RunsOn
<1>1. SameFanOut(p)
  BY InsideEffect
<1>2. ASSUME NEW s \in Subscriber, pc'[p] \in FanOutPC, MayQueue(p, s)'
      PROVE  MayQueue(p, s)
  <2>1. CASE FanSelect(p) \/ FanCreate(p) \/ FanLoad(p)
    BY <2>1 DEF FanSelect, FanCreate, FanLoad, MayQueue
  <2>2. CASE FanQueue(p)
    <3>1. local'[p].left \subseteq local[p].left
      BY <2>2 DEF FanQueue, Hold, TypeOK, HandlerTypeOK, Local
    <3> QED
      BY <1>2, <2>2, <3>1, InsideEffect DEF FanQueue, MayQueue
  <2>3. CASE FanQueued(p)
    BY <1>2, <2>3, InsideEffect DEF FanQueued, MayQueue, Loop
  <2>4. CASE FanCount(p) \/ Finish(p)
    BY <1>2, <2>4, InsideEffect DEF MayQueue
  <2> QED
    BY <2>1, <2>2, <2>3, <2>4 DEF Inside
<1> QED
  BY <1>1, <1>2 DEF SameFanOut, OthersStay, RunsOn, MayQueue

(* A step that begins no fan-out and adds no job. *)
LEMMA FanOutKeeps ==
  ASSUME TypeOK, FanOutInv, RunsOn, fanouts' = fanouts,
         \/ jobs' \subseteq jobs
         \/ \E j \in jobs : \E k \in Job : SameData(j, k) /\ jobs' = (jobs \ {j}) \cup {k}
  PROVE  FanOutInv'
<1>0. \A j \in jobs : j.camp \in Campaign /\ j.sub \in Subscriber /\ j.fanout \in Nat
  BY DEF TypeOK, QueueTypeOK, Job
<1>1. \A k \in jobs' : \E j \in jobs : SameData(j, k)
  BY DEF SameData
<1>2. \A p \in Proc, c \in Campaign, n \in Nat : Runs(p, c, n)' => Runs(p, c, n)
  BY DEF RunsOn, Runs, FanningOut
<1>3. \A p \in Proc : pc'[p] \in FanOutPC => local'[p].fanout \in 1 .. fanouts'[local'[p].camp]
  BY DEF RunsOn, FanOutInv
<1>4. \A k \in jobs' : k.fanout \in 1 .. fanouts'[k.camp]
  BY <1>1 DEF SameData, FanOutInv
<1>5. \A p, q \in Proc, c \in Campaign, n \in Nat : Runs(p, c, n)' /\ Runs(q, c, n)' => p = q
  BY <1>2 DEF FanOutInv
<1>6. ASSUME NEW p \in Proc, NEW k \in jobs', Runs(p, k.camp, k.fanout)'
      PROVE  k.version = local'[p].version /\ ~MayQueue(p, k.sub)'
  <2>1. PICK j \in jobs : SameData(j, k)
    BY <1>1
  <2>2. Runs(p, j.camp, j.fanout)'
    BY <1>6, <2>1 DEF SameData
  <2>3. Runs(p, j.camp, j.fanout)
    BY <1>0, <1>2, <2>2
  <2>4. j.version = local[p].version /\ ~MayQueue(p, j.sub)
    BY <2>3 DEF FanOutInv
  <2>5. pc'[p] \in FanOutPC
    BY <2>2 DEF Runs, FanningOut
  <2>6. local'[p].version = local[p].version /\ ~MayQueue(p, j.sub)'
    BY <1>0, <2>4, <2>5 DEF RunsOn
  <2> QED
    BY <2>1, <2>4, <2>6 DEF SameData, MayQueue
<1>7. ASSUME NEW k \in jobs', NEW l \in jobs', k.camp = l.camp, k.fanout = l.fanout
      PROVE  k.version = l.version /\ (k.sub = l.sub => k = l)
  <2>1. CASE jobs' \subseteq jobs
    BY <1>7, <2>1 DEF FanOutInv
  <2>2. ASSUME NEW j \in jobs, NEW i \in Job, SameData(j, i), jobs' = (jobs \ {j}) \cup {i}
        PROVE  k.version = l.version /\ (k.sub = l.sub => k = l)
    BY <1>7, <2>2 DEF FanOutInv, SameData
  <2> QED
    BY <2>1, <2>2
<1> QED
  BY <1>3, <1>4, <1>5, <1>6, <1>7 DEF FanOutInv

(* A fan-out begins under a number that no job and no handler has. *)
LEMMA FanOutStarts ==
  ASSUME TypeOK, FanOutInv, NEW p \in Proc, NEW c \in Campaign, NEW v \in Nat, Started(p, c, v)
  PROVE  FanOutInv'
<1>0. /\ pc \in [Proc -> PC]
      /\ local \in [Proc -> Local]
      /\ fanouts \in [Campaign -> Nat]
      /\ \A q \in Proc : pc[q] \notin {"idle", "claim"} => local[q].camp \in Campaign
      /\ \A j \in jobs : j.camp \in Campaign /\ j.fanout \in Nat
  BY DEF TypeOK, QueueTypeOK, HandlerTypeOK, HistoryTypeOK, Job
<1>1. /\ pc'[p] = "select"
      /\ local'[p].camp = c
      /\ local'[p].fanout = fanouts[c] + 1
      /\ OthersStay(p)
  BY <1>0 DEF Started, Begin, Go, Hold, Blank, OthersStay
<1>2. /\ fanouts'[c] = fanouts[c] + 1
      /\ \A d \in Campaign \ {c} : fanouts'[d] = fanouts[d]
      /\ jobs' = jobs
  BY <1>0 DEF Started, Begin
<1>3. \A q \in Proc, d \in Campaign, n \in Nat :
        Runs(q, d, n)' => IF q = p THEN d = c /\ n = fanouts[c] + 1
                          ELSE Runs(q, d, n) /\ n <= fanouts[d]
  BY <1>1 DEF Runs, FanningOut, OthersStay, FanOutInv
<1>4. \A j \in jobs : j.fanout <= fanouts[j.camp]
  BY <1>0 DEF FanOutInv
<1>5. \A q \in Proc :
        pc'[q] \in FanOutPC => local'[q].fanout \in 1 .. fanouts'[local'[q].camp]
  BY <1>0, <1>1, <1>2 DEF FanOutInv, OthersStay
<1>6. \A j \in jobs' : j.fanout \in 1 .. fanouts'[j.camp]
  BY <1>0, <1>2 DEF FanOutInv
<1>7. ASSUME NEW q \in Proc, NEW r \in Proc, NEW d \in Campaign, NEW n \in Nat,
             Runs(q, d, n)', Runs(r, d, n)'
      PROVE  q = r
  BY <1>0, <1>3, <1>7 DEF FanOutInv
<1>8. ASSUME NEW q \in Proc, NEW j \in jobs', Runs(q, j.camp, j.fanout)'
      PROVE  j.version = local'[q].version /\ ~MayQueue(q, j.sub)'
  <2>1. q # p /\ Runs(q, j.camp, j.fanout)
    BY <1>0, <1>2, <1>3, <1>4, <1>8
  <2> QED
    BY <1>1, <1>2, <2>1 DEF OthersStay, FanOutInv, MayQueue
<1> QED
  BY <1>2, <1>5, <1>6, <1>7, <1>8 DEF FanOutInv

(* A handler adds a job that it had still to add, with the text it read.   *)
LEMMA FanOutQueues ==
  ASSUME TypeOK, FanOutInv, NEW p \in Proc, FanQueue(p)
  PROVE  FanOutInv'
<1>0. /\ local[p] \in Local
      /\ local[p].camp \in Campaign
      /\ local[p].fanout \in Nat
      /\ \A j \in jobs : j.camp \in Campaign /\ j.sub \in Subscriber /\ j.fanout \in Nat
  BY DEF FanQueue, TypeOK, QueueTypeOK, HandlerTypeOK, Job, Local
<1>1. SameFanOut(p) /\ pc'[p] = "queued"
  BY InsideEffect DEF Inside
<1>2. RunsOn
  BY InsideRunsOn DEF Inside
<1>3. PICK s \in local[p].left :
        /\ Enqueue(local[p].camp, s, local[p].fanout, local[p].version)
        /\ Hold(p, [local[p] EXCEPT !.left = @ \ {s}, !.hand = {s}])
  BY DEF FanQueue
<1>4. s \notin local'[p].left
  BY <1>0, <1>3 DEF Hold, TypeOK, HandlerTypeOK, Local
<1> DEFINE k == NewJob(local[p].camp, s, local[p].fanout, local[p].version)
<1>5. /\ jobs' = jobs \cup {k}
      /\ k.camp = local[p].camp
      /\ k.sub = s
      /\ k.fanout = local[p].fanout
      /\ k.version = local[p].version
  BY <1>3 DEF Enqueue, NewJob
<1> HIDE DEF k
<1>6. Runs(p, k.camp, k.fanout) /\ MayQueue(p, s) /\ s \in Subscriber
  BY <1>0, <1>5 DEF FanQueue, Runs, FanningOut, MayQueue, Local
<1>7. fanouts' = fanouts
  BY DEF FanQueue
<1>8. \A q \in Proc, c \in Campaign, n \in Nat : Runs(q, c, n)' => Runs(q, c, n)
  BY <1>2 DEF RunsOn, Runs, FanningOut
<1>9. \A q \in Proc : pc'[q] \in FanOutPC => local'[q].fanout \in 1 .. fanouts'[local'[q].camp]
  BY <1>2, <1>7 DEF RunsOn, FanOutInv
<1>10. \A j \in jobs' : j.fanout \in 1 .. fanouts'[j.camp]
  BY <1>5, <1>6, <1>7 DEF FanOutInv, Runs, FanningOut
<1>11. \A q, r \in Proc, c \in Campaign, n \in Nat : Runs(q, c, n)' /\ Runs(r, c, n)' => q = r
  BY <1>8 DEF FanOutInv
<1>12. ASSUME NEW q \in Proc, NEW j \in jobs', Runs(q, j.camp, j.fanout)'
       PROVE  j.version = local'[q].version /\ ~MayQueue(q, j.sub)'
  <2>1. pc'[q] \in FanOutPC
    BY <1>12 DEF Runs, FanningOut
  <2>2. CASE j \in jobs
    <3>1. j.version = local[q].version /\ ~MayQueue(q, j.sub)
      BY <1>0, <1>8, <1>12, <2>2 DEF FanOutInv
    <3> QED
      BY <1>0, <1>2, <2>1, <2>2, <3>1 DEF RunsOn
  <2>3. CASE j = k
    <3>1. q = p
      BY <1>0, <1>5, <1>6, <1>8, <1>12, <2>3 DEF FanOutInv
    <3> QED
      BY <1>1, <1>4, <1>5, <2>3, <3>1 DEF SameFanOut, MayQueue
  <2> QED
    BY <1>5, <2>2, <2>3
<1>13. \A j \in jobs :
         (j.camp = k.camp /\ j.fanout = k.fanout) => j.version = k.version /\ j.sub # k.sub
  BY <1>5, <1>6 DEF FanOutInv
<1>14. \A i, j \in jobs' :
         (i.camp = j.camp /\ i.fanout = j.fanout) =>
             i.version = j.version /\ (i.sub = j.sub => i = j)
  BY <1>5, <1>13 DEF FanOutInv
<1> QED
  BY <1>9, <1>10, <1>11, <1>12, <1>14 DEF FanOutInv

LEMMA FanOutNext == TypeOK /\ FanOutInv /\ [Next]_vars => FanOutInv'
<1> SUFFICES ASSUME TypeOK, FanOutInv, [Next]_vars PROVE FanOutInv'
  OBVIOUS
<1>1. CASE Aside
  BY <1>1, AsideRunsOn, FanOutKeeps DEF Aside
<1>2. ASSUME NEW p \in Proc, Inside(p), ~FanQueue(p) PROVE FanOutInv'
  <2>1. UNCHANGED <<jobs, fanouts>>
    BY <1>2 DEF Inside, FanSelect, FanCreate, FanLoad, FanQueued, FanCount, Finish, queueVars
  <2> QED
    BY <1>2, <2>1, InsideRunsOn, FanOutKeeps
<1>3. CASE MailStep
  <2>1. RunsOn /\ fanouts' = fanouts
    BY <1>3 DEF MailStep, campaignVars, RunsOn, MayQueue
  <2> QED
    BY <1>3, <2>1, WorkerEffect, FanOutKeeps DEF MailStep
<1> QED
  BY <1>1, <1>2, <1>3, Kinds, FanOutStarts, FanOutQueues

LEMMA FanOutHolds == Spec => []FanOutInv
<1>1. Init => FanOutInv
  BY DEF Init, QueueInit, FanOutInv, Runs, FanningOut
<1> QED
  BY <1>1, FanOutNext, TypeCorrect, PTL DEF Spec

(* Every job of a fan-out carries the text that its handler read before it *)
(* began, whatever an administrator does to the campaign meanwhile.        *)
THEOREM OneTextPerFanOut == Spec => []SameTextPerFanOut
<1>1. FanOutInv => SameTextPerFanOut
  BY DEF FanOutInv, SameTextPerFanOut
<1> QED
  BY <1>1, FanOutHolds, PTL

-----------------------------------------------------------------------------
(* Recipients.  A row was created for every job and for every recipient    *)
(* that a fan-out still has in hand: only createMany adds rows.            *)

RowsInv ==
  /\ \A j \in jobs : j.sub \in EverRows(j.camp)
  /\ \A p \in Proc :
        pc[p] \in FanOutPC => local[p].left \cup local[p].hand \subseteq EverRows(local[p].camp)

(* A row is added only by a fan-out of its campaign, and none comes back.  *)
LEMMA RowsEffect ==
  ASSUME TypeOK, RowsInv, [Next]_vars
  PROVE  \A c \in Campaign :
           /\ EverRows(c) \subseteq EverRows(c)'
           /\ (\A p \in Proc : FanCreate(p) => local[p].camp # c) =>
                 EverRows(c)' = EverRows(c) /\ Rows(c)' \subseteq Rows(c)
<1>0. /\ rcpt \in [Campaign -> [Subscriber -> RecipientStatus]]
      /\ \A p \in Proc : pc[p] \notin {"idle", "claim"} => local[p].camp \in Campaign
  BY DEF TypeOK, QueueTypeOK, HandlerTypeOK
<1>1. CASE RowsGo
  BY <1>1 DEF RowsGo, EverRows, Rows
<1>2. ASSUME NEW p \in Proc, FanCreate(p)
      PROVE  \A c \in Campaign :
               /\ EverRows(c) \subseteq EverRows(c)'
               /\ local[p].camp # c => EverRows(c)' = EverRows(c) /\ Rows(c)' = Rows(c)
  <2>1. \A c \in Campaign, s \in Subscriber :
          /\ rcpt[c][s] # "none" => rcpt'[c][s] # "none"
          /\ local[p].camp # c => rcpt'[c][s] = rcpt[c][s]
    BY <1>0, <1>2 DEF FanCreate
  <2> QED
    BY <2>1 DEF EverRows, Rows
<1>3. ASSUME NEW p \in Proc, FanQueued(p)
      PROVE  \A c \in Campaign : EverRows(c)' = EverRows(c) /\ Rows(c)' = Rows(c)
  <2>1. local[p].hand \subseteq Rows(local[p].camp)
    BY <1>3 DEF FanQueued
  <2>2. \A c \in Campaign, s \in Subscriber :
          rcpt'[c][s] = IF c = local[p].camp /\ s \in local[p].hand THEN "QUEUED" ELSE rcpt[c][s]
    BY <1>0, <1>3 DEF FanQueued
  <2>3. \A c \in Campaign, s \in Subscriber :
          /\ (rcpt'[c][s] = "none") <=> (rcpt[c][s] = "none")
          /\ (rcpt'[c][s] = "gone") <=> (rcpt[c][s] = "gone")
    BY <2>1, <2>2 DEF Rows
  <2> QED
    BY <2>3 DEF EverRows, Rows
<1>4. CASE MailStep
  <2>1. PICK j \in jobs : WorkerStep(j) \/ WorkerFault(j)
    BY <1>4 DEF MailStep
  <2>2. \A c \in Campaign, s \in Subscriber :
          \/ rcpt'[c][s] = rcpt[c][s]
          \/ /\ c = j.camp /\ s = j.sub
             /\ rcpt[c][s] # "gone" /\ rcpt'[c][s] \in {"SENT", "FAILED"}
    BY <2>1, WorkerEffect
  <2>3. \A c \in Campaign, s \in Subscriber :
          /\ (rcpt'[c][s] = "none") <=> (rcpt[c][s] = "none")
          /\ (rcpt'[c][s] = "gone") <=> (rcpt[c][s] = "gone")
    BY <2>2 DEF RowsInv, EverRows
  <2> QED
    BY <2>3 DEF EverRows, Rows
<1>5. rcpt' = rcpt => RowsGo
  BY DEF RowsGo
<1> QED
  BY <1>1, <1>2, <1>3, <1>4, <1>5, Kinds
  DEF Aside, Started, Inside, FanSelect, FanLoad, FanQueue, FanCount, Finish, queueVars

LEMMA RowsNext == TypeOK /\ RowsInv /\ [Next]_vars => RowsInv'
<1> SUFFICES ASSUME TypeOK, RowsInv, [Next]_vars PROVE RowsInv'
  OBVIOUS
<1>0. /\ \A c \in Campaign : EverRows(c) \subseteq EverRows(c)'
      /\ \A j \in jobs : j.camp \in Campaign
      /\ \A p \in Proc : pc[p] \notin {"idle", "claim"} => local[p].camp \in Campaign
      /\ \A p \in Proc : local[p] \in Local
      /\ pc \in [Proc -> PC]
      /\ local \in [Proc -> Local]
  BY RowsEffect DEF TypeOK, QueueTypeOK, HandlerTypeOK, Job
<1>1. CASE Aside
  BY <1>0, <1>1 DEF Aside, RowsInv
<1>2. ASSUME NEW p \in Proc, NEW c \in Campaign, NEW v \in Nat, Started(p, c, v)
      PROVE  RowsInv'
  <2>1. local'[p].left = {} /\ local'[p].hand = {} /\ OthersStay(p) /\ jobs' = jobs
    BY <1>0, <1>2 DEF Started, Begin, Go, Hold, Blank, OthersStay
  <2> QED
    BY <1>0, <2>1 DEF RowsInv, OthersStay
<1>3. ASSUME NEW p \in Proc, Inside(p) PROVE RowsInv'
  <2> DEFINE c == local[p].camp
  <2>1. SameFanOut(p)
    BY <1>3, InsideEffect
  <2>2. local'[p].left \cup local'[p].hand \subseteq EverRows(c)'
    <3>1. local[p].left \cup local[p].hand \subseteq EverRows(c) /\ EverRows(c) \subseteq EverRows(c)'
      BY <1>0, <2>1 DEF SameFanOut, RowsInv
    <3>2. Rows(c) \subseteq EverRows(c)
      BY DEF Rows, EverRows
    <3> QED
      BY <1>3, <3>1, <3>2, InsideEffect DEF Inside
  <2>3. \A j \in jobs' : j \in jobs \/ (j.camp = c /\ j.sub \in local[p].left)
    <3>1. CASE FanQueue(p)
      BY <3>1 DEF FanQueue, Enqueue, NewJob
    <3>2. CASE ~FanQueue(p)
      BY <1>3, <3>2
      DEF Inside, FanSelect, FanCreate, FanLoad, FanQueued, FanCount, Finish, queueVars
    <3> QED
      BY <3>1, <3>2
  <2>4. \A j \in jobs' : j.sub \in EverRows(j.camp)'
    BY <1>0, <2>1, <2>3 DEF SameFanOut, RowsInv
  <2> QED
    BY <1>0, <2>1, <2>2, <2>4 DEF SameFanOut, OthersStay, RowsInv
<1>4. CASE MailStep
  <2>1. \A k \in jobs' : \E j \in jobs : SameData(j, k)
    BY <1>4, WorkerEffect DEF MailStep, SameData
  <2> QED
    BY <1>0, <1>4, <2>1 DEF MailStep, campaignVars, SameData, RowsInv
<1> QED
  BY <1>1, <1>2, <1>3, <1>4, Kinds

LEMMA RowsHold == Spec => []RowsInv
<1>1. Init => RowsInv
  BY DEF Init, QueueInit, RowsInv
<1> QED
  BY <1>1, RowsNext, TypeCorrect, PTL DEF Spec

-----------------------------------------------------------------------------
(* No row is forgotten.  While nothing cuts a send of the campaign short,  *)
(* somebody still owes a job to every recipient that is PENDING, though it *)
(* need not be the handler that added the row.                             *)

Owes(p, c, s) ==
  /\ FanningOut(p, c)
  /\ \/ pc[p] = "load"
     \/ pc[p] \in {"queue", "queued"} /\ s \in local[p].left
     \/ pc[p] = "queued" /\ s \in local[p].hand

PendingInv ==
  \A c \in Campaign, s \in Subscriber :
    (rcpt[c][s] = "PENDING" /\ disrupted[c] \subseteq {"overlapped"}) =>
        \E p \in Proc : Owes(p, c, s)

LEMMA PendingNext == TypeOK /\ PendingInv /\ [Next]_vars => PendingInv'
<1> SUFFICES ASSUME TypeOK, PendingInv, [Next]_vars,
                    NEW c \in Campaign, NEW s \in Subscriber,
                    rcpt'[c][s] = "PENDING", disrupted'[c] \subseteq {"overlapped"}
             PROVE  \E p \in Proc : Owes(p, c, s)'
  BY DEF PendingInv
<1>0. /\ rcpt \in [Campaign -> [Subscriber -> RecipientStatus]]
      /\ pc \in [Proc -> PC]
      /\ local \in [Proc -> Local]
      /\ \A p \in Proc : pc[p] \notin {"idle", "claim"} => local[p].camp \in Campaign
  BY DEF TypeOK, QueueTypeOK, HandlerTypeOK
(* Who owes the job before the step owes it after, or p does. *)
<1>1. ASSUME NEW p \in Proc, OthersStay(p), rcpt[c][s] = "PENDING",
             disrupted[c] \subseteq {"overlapped"},
             Owes(p, c, s) => Owes(p, c, s)'
      PROVE  \E q \in Proc : Owes(q, c, s)'
  BY <1>1 DEF PendingInv, OthersStay, Owes, FanningOut
<1>2. CASE Aside
  <2>1. PICK p \in Proc : Owes(p, c, s)
    BY <1>2 DEF Aside, RowsGo, PendingInv
  <2>2. pc'[p] = pc[p] /\ local'[p] = local[p]
    BY <1>2, <2>1 DEF Aside, Owes, FanningOut
  <2> QED
    BY <2>1, <2>2 DEF Owes, FanningOut
<1>3. ASSUME NEW p \in Proc, NEW d \in Campaign, NEW v \in Nat, Started(p, d, v)
      PROVE  \E q \in Proc : Owes(q, c, s)'
  <2>1. OthersStay(p)
    BY <1>0, <1>3 DEF Started, Begin, Go, Hold, OthersStay
  <2>2. disrupted[c] \subseteq disrupted'[c]
    BY <1>3 DEF Started, Begin, TypeOK, HistoryTypeOK
  <2> QED
    BY <1>1, <1>3, <2>1, <2>2 DEF Started, Owes, FanningOut
<1>4. ASSUME NEW p \in Proc, Inside(p) PROVE \E q \in Proc : Owes(q, c, s)'
  <2>1. SameFanOut(p) /\ disrupted' = disrupted
    BY <1>4, InsideEffect
    DEF Inside, FanSelect, FanCreate, FanLoad, FanQueue, FanQueued, FanCount, Finish
  <2>2. CASE FanSelect(p) \/ FanCount(p) \/ Finish(p)
    <3>1. rcpt' = rcpt /\ ~Owes(p, c, s)
      BY <2>2 DEF FanSelect, FanCount, Finish, queueVars, Owes
    <3> QED
      BY <1>1, <2>1, <3>1 DEF SameFanOut
  <2>3. CASE FanCreate(p)
    <3>1. CASE c = local[p].camp
      <4>1. Owes(p, c, s)'
        BY <2>1, <2>3, <3>1, InsideEffect DEF SameFanOut, Owes, FanningOut
      <4> QED
        BY <4>1
    <3>2. CASE c # local[p].camp
      <4>1. rcpt'[c][s] = rcpt[c][s] /\ ~Owes(p, c, s)
        BY <1>0, <2>1, <2>3, <3>2 DEF FanCreate, SameFanOut, Owes, FanningOut
      <4> QED
        BY <1>1, <2>1, <4>1 DEF SameFanOut
    <3> QED
      BY <3>1, <3>2
  <2>4. CASE FanLoad(p)
    <3>1. rcpt' = rcpt
      BY <2>4 DEF FanLoad, queueVars
    <3>2. ASSUME Owes(p, c, s) PROVE Owes(p, c, s)'
      <4>1. c = local[p].camp /\ s \in Rows(c)
        BY <3>1, <3>2 DEF Owes, FanningOut, Rows
      <4> QED
        BY <2>1, <2>4, <4>1, InsideEffect DEF SameFanOut, Owes, FanningOut, Loop
    <3> QED
      BY <1>1, <2>1, <3>1, <3>2 DEF SameFanOut
  <2>5. CASE FanQueue(p)
    <3>1. rcpt' = rcpt /\ pc[p] = "queue"
      BY <2>5 DEF FanQueue
    <3>2. Owes(p, c, s) => Owes(p, c, s)'
      BY <2>1, <2>5, <3>1, InsideEffect DEF SameFanOut, Owes, FanningOut
    <3> QED
      BY <1>1, <2>1, <3>1, <3>2 DEF SameFanOut
  <2>6. CASE FanQueued(p)
    <3>1. /\ rcpt[c][s] = "PENDING"
          /\ c = local[p].camp => s \notin local[p].hand
      BY <1>0, <2>1, <2>6 DEF FanQueued, SameFanOut
    <3>2. ASSUME Owes(p, c, s) PROVE Owes(p, c, s)'
      <4>1. c = local[p].camp /\ s \in local[p].left
        BY <2>6, <3>1, <3>2 DEF FanQueued, Owes, FanningOut
      <4>2. pc'[p] = "queue" /\ local'[p].left = local[p].left
        BY <2>6, <4>1, InsideEffect DEF Loop
      <4> QED
        BY <2>1, <4>1, <4>2 DEF SameFanOut, Owes, FanningOut
    <3> QED
      BY <1>1, <2>1, <3>1, <3>2 DEF SameFanOut
  <2> QED
    BY <1>4, <2>2, <2>3, <2>4, <2>5, <2>6 DEF Inside
<1>5. CASE MailStep
  <2>1. rcpt[c][s] = "PENDING"
    BY <1>5, WorkerEffect DEF MailStep
  <2>2. UNCHANGED <<pc, local, disrupted>>
    BY <1>5 DEF MailStep, campaignVars
  <2> QED
    BY <2>1, <2>2 DEF PendingInv, Owes, FanningOut
<1> QED
  BY <1>2, <1>3, <1>4, <1>5, Kinds

(* Once no fan-out of a campaign runs, and none was cut short, nobody is   *)
(* left PENDING: the rows that one fan-out creates and another loads are   *)
(* queued by one of them at least.                                         *)
THEOREM EveryRowIsQueued == Spec => []NoRowLeftPending
<1>1. Init => PendingInv
  BY DEF Init, QueueInit, PendingInv
<1>2. PendingInv => NoRowLeftPending
  BY DEF PendingInv, Owes, NoRowLeftPending
<1> QED
  BY <1>1, <1>2, PendingNext, TypeCorrect, PTL DEF Spec

-----------------------------------------------------------------------------
(* The recipient count.  A fan-out that no other overlapped holds, from    *)
(* the load on, every row there is: nobody else can add one.  What is      *)
(* taken away meanwhile only makes the rows fewer than the count.          *)

(* No row is left out of the count, or it was reset. *)
Counted(c) ==
  \/ Cardinality(Rows(c)) <= row[c].count
  \/ fanouts[c] > 1 /\ row[c].count = 0

(* What the only handler that sends c knows of its rows. *)
Knows(p, c) ==
  /\ row[c].status # "SENT"
  /\ pc[p] = "select" /\ fanouts[c] = 1 => Rows(c) = {}
  /\ pc[p] \in {"queue", "queued", "count"} =>
       \/ Rows(c) \subseteq local[p].loaded
       \/ pc[p] = "count" /\ fanouts[c] > 1 /\ local[p].loaded = {}
  /\ pc[p] = "finish" => Counted(c)

(* A handler counts nobody who was never a recipient. *)
LoadsRows(p, c) ==
  pc[p] \in {"queue", "queued", "count"} => local[p].loaded \subseteq EverRows(c)

CountsRows(c) ==
  /\ fanouts[c] = 0 => EverRows(c) = {}
  /\ row[c].count <= Cardinality(EverRows(c))
  /\ \A p \in Proc : FanningOut(p, c) => LoadsRows(p, c)
  /\ "overlapped" \notin disrupted[c] =>
       /\ \A p, q \in Proc : FanningOut(p, c) /\ FanningOut(q, c) => p = q
       /\ \A p \in Proc : FanningOut(p, c) => Knows(p, c)
       /\ row[c].status = "SENT" => Counted(c)

CountInv == \A c \in Campaign : CountsRows(c)

LEMMA RowsAreFinite ==
  ASSUME NEW c \in Campaign
  PROVE  /\ IsFiniteSet(Rows(c)) /\ IsFiniteSet(EverRows(c))
         /\ Cardinality(Rows(c)) \in Nat /\ Cardinality(EverRows(c)) \in Nat
  BY CampaignsAssumption, FS_Subset, FS_CardinalityType DEF Rows, EverRows

(* A smaller set of subscribers. *)
LEMMA Fewer ==
  ASSUME NEW A \in SUBSET Subscriber, NEW B \in SUBSET A
  PROVE  Cardinality(B) \in Nat /\ Cardinality(A) \in Nat /\ Cardinality(B) <= Cardinality(A)
  BY CampaignsAssumption, FS_Subset, FS_CardinalityType

(* A campaign that keeps its row and its handlers, and gets no recipient. *)
LEMMA CountKeeps ==
  ASSUME TypeOK, NEW c \in Campaign, CountsRows(c),
         fanouts'[c] = fanouts[c], disrupted[c] \subseteq disrupted'[c],
         EverRows(c)' = EverRows(c), Rows(c)' \subseteq Rows(c),
         row'[c].count = row[c].count, row'[c].status = "SENT" => row[c].status = "SENT",
         \A p \in Proc :
           FanningOut(p, c)' => FanningOut(p, c) /\ pc'[p] = pc[p] /\ local'[p] = local[p]
  PROVE  CountsRows(c)'
<1>1. row[c].count \in Nat
  BY DEF TypeOK, TableTypeOK, Row
<1>2. /\ Cardinality(Rows(c)') \in Nat /\ Cardinality(Rows(c)) \in Nat
      /\ Cardinality(Rows(c)') <= Cardinality(Rows(c))
  BY Fewer DEF Rows
<1>3. Counted(c) => Counted(c)'
  BY <1>1, <1>2 DEF Counted
<1>4. \A p \in Proc : FanningOut(p, c)' /\ Knows(p, c) => Knows(p, c)'
  BY <1>3 DEF Knows
<1>5. \A p \in Proc : FanningOut(p, c)' => LoadsRows(p, c)'
  BY DEF CountsRows, LoadsRows
<1> QED
  BY <1>3, <1>4, <1>5 DEF CountsRows

LEMMA CountInside ==
  ASSUME TypeOK, FanOutInv, RowsInv, CountInv, [Next]_vars, NEW p \in Proc, Inside(p)
  PROVE  CountInv'
<1>c. PICK c \in Campaign : c = local[p].camp
  BY InsideEffect DEF SameFanOut
<1>0. /\ FanningOut(p, c)
      /\ local'[p].camp = c
      /\ OthersStay(p)
      /\ fanouts' = fanouts
      /\ fanouts[c] \in Nat \ {0}
      /\ disrupted' = disrupted
      /\ row \in [Campaign -> Row]
      /\ local[p].loaded \in SUBSET Subscriber
  <2>1. SameFanOut(p)
    BY InsideEffect
  <2>2. fanouts' = fanouts /\ disrupted' = disrupted
    BY DEF Inside, FanSelect, FanCreate, FanLoad, FanQueue, FanQueued, FanCount, Finish
  <2>3. /\ row \in [Campaign -> Row] /\ fanouts[c] \in Nat
        /\ local[p].loaded \in SUBSET Subscriber
    BY DEF TypeOK, TableTypeOK, HandlerTypeOK, HistoryTypeOK, Local
  <2>4. fanouts[c] # 0
    BY <1>c, <2>1, <2>3 DEF SameFanOut, FanOutInv
  <2> QED
    BY <1>c, <2>1, <2>2, <2>3, <2>4 DEF SameFanOut, FanningOut
<1>1. CountsRows(c)
  BY DEF CountInv
<1>2. "overlapped" \notin disrupted[c] => Knows(p, c)
  BY <1>0, <1>1 DEF CountsRows
<1>3. /\ \A d \in Campaign \ {c} : EverRows(d)' = EverRows(d) /\ Rows(d)' \subseteq Rows(d)
      /\ EverRows(c) \subseteq EverRows(c)'
      /\ ~FanCreate(p) => EverRows(c)' = EverRows(c) /\ Rows(c)' \subseteq Rows(c)
  <2>1. ASSUME NEW q \in Proc, FanCreate(q) PROVE q = p
    <3>1. pc[q] = "create" /\ pc'[q] = "load"
      BY <2>1, InsideEffect DEF FanCreate
    <3> QED
      BY <1>0, <3>1 DEF OthersStay
  <2>2. \A q \in Proc : FanCreate(q) => local[q].camp = c /\ FanCreate(p)
    BY <1>c, <2>1
  <2> QED
    BY <1>c, <2>2, RowsEffect
<1>4. \A d \in Campaign \ {c} : row'[d] = row[d]
  BY <1>0, <1>c
  DEF Inside, FanSelect, FanCreate, FanLoad, FanQueue, FanQueued, FanCount, Finish, SetStatus
<1>5. ASSUME NEW d \in Campaign \ {c} PROVE CountsRows(d)'
  <2>1. \A q \in Proc :
          FanningOut(q, d)' => FanningOut(q, d) /\ pc'[q] = pc[q] /\ local'[q] = local[q]
    BY <1>0 DEF OthersStay, FanningOut
  <2> QED
    BY <1>0, <1>3, <1>4, <2>1, CountKeeps DEF CountInv
(* The other handlers of c neither move nor have anything to lose. *)
<1>6. \A q \in Proc \ {p} : FanningOut(q, c)' => FanningOut(q, c) /\ LoadsRows(q, c)'
  BY <1>0, <1>1, <1>3 DEF OthersStay, FanningOut, CountsRows, LoadsRows
(* It is enough that p goes on knowing what it knew. *)
<1>7. ASSUME row'[c].count <= Cardinality(EverRows(c)'),
             LoadsRows(p, c)',
             "overlapped" \notin disrupted[c] =>
               /\ FanningOut(p, c)' => Knows(p, c)'
               /\ row'[c].status = "SENT" => Counted(c)'
      PROVE  CountInv'
  <2>1. CountsRows(c)'
    BY <1>0, <1>1, <1>6, <1>7 DEF CountsRows
  <2> QED
    BY <1>5, <2>1 DEF CountInv
(* A step that does not touch the row of the campaign. *)
<1>8. ASSUME row' = row,
             LoadsRows(p, c)',
             "overlapped" \notin disrupted[c] /\ FanningOut(p, c)' => Knows(p, c)'
      PROVE  CountInv'
  <2>1. Cardinality(EverRows(c)) <= Cardinality(EverRows(c)')
        /\ Cardinality(EverRows(c)') \in Nat /\ Cardinality(EverRows(c)) \in Nat
    BY <1>3, Fewer DEF EverRows
  <2>2. row'[c].count <= Cardinality(EverRows(c)')
    BY <1>0, <1>1, <1>8, <2>1 DEF CountsRows, Row
  <2>3. "overlapped" \notin disrupted[c] => row'[c].status # "SENT"
    BY <1>2, <1>8 DEF Knows
  <2> QED
    BY <1>7, <1>8, <2>2, <2>3
<1>9. CASE FanSelect(p)
  <2>1. /\ row' = row
        /\ pc[p] = "select"
        /\ ~FanCreate(p)
        /\ pc'[p] = "create" \/ (pc'[p] = "count" /\ local'[p].loaded = {})
    BY <1>9, InsideEffect DEF FanSelect, FanCreate
  <2>2. LoadsRows(p, c)'
    BY <2>1 DEF LoadsRows
  <2>3. "overlapped" \notin disrupted[c] => Knows(p, c)'
    BY <1>0, <1>2, <1>3, <2>1 DEF Knows
  <2> QED
    BY <1>8, <2>1, <2>2, <2>3
<1>10. CASE FanCreate(p)
  <2>1. row' = row /\ pc'[p] = "load"
    BY <1>10, InsideEffect DEF FanCreate
  <2> QED
    BY <1>2, <1>8, <2>1 DEF Knows, LoadsRows
<1>11. CASE FanLoad(p)
  <2>1. /\ row' = row
        /\ ~FanCreate(p)
        /\ pc'[p] \in {"queue", "count"}
        /\ local'[p].loaded = Rows(c)
    BY <1>11, InsideEffect, <1>c DEF FanLoad, FanCreate, Loop
  <2>2. Rows(c) \subseteq EverRows(c)'
    BY <1>3 DEF Rows, EverRows
  <2>3. "overlapped" \notin disrupted[c] => Knows(p, c)'
    BY <1>2, <1>3, <2>1 DEF Knows
  <2> QED
    BY <1>8, <2>1, <2>2, <2>3 DEF LoadsRows
<1>12. CASE FanQueue(p) \/ FanQueued(p)
  <2>1. /\ row' = row
        /\ pc[p] \in {"queue", "queued"}
        /\ ~FanCreate(p)
        /\ pc'[p] \in {"queue", "queued", "count"}
        /\ local'[p].loaded = local[p].loaded
    BY <1>12, InsideEffect DEF FanQueue, FanQueued, FanCreate, Loop
  <2>2. LoadsRows(p, c)'
    BY <1>0, <1>1, <1>3, <2>1 DEF CountsRows, LoadsRows
  <2>3. "overlapped" \notin disrupted[c] => Knows(p, c)'
    BY <1>2, <1>3, <2>1 DEF Knows
  <2> QED
    BY <1>8, <2>1, <2>2, <2>3
<1>13. CASE FanCount(p)
  <2>1. /\ row'[c].count = Cardinality(local[p].loaded)
        /\ row'[c].status = row[c].status
        /\ pc[p] = "count"
        /\ ~FanCreate(p)
    BY <1>0, <1>c, <1>13 DEF FanCount, FanCreate, Row
  <2>2. pc'[p] = "finish" /\ local' = local
    BY <1>13, InsideEffect
  <2>3. local[p].loaded \subseteq EverRows(c)'
    BY <1>0, <1>1, <1>3, <2>1 DEF CountsRows, LoadsRows
  <2>4. row'[c].count <= Cardinality(EverRows(c)')
    BY <2>1, <2>3, Fewer DEF EverRows
  <2>5. ASSUME "overlapped" \notin disrupted[c] PROVE Counted(c)'
    <3>1. CASE Rows(c) \subseteq local[p].loaded
      <4>1. Rows(c)' \subseteq local[p].loaded
        BY <1>3, <2>1, <3>1
      <4> QED
        BY <1>0, <2>1, <4>1, Fewer DEF Counted
    <3>2. CASE fanouts[c] > 1 /\ local[p].loaded = {}
      BY <1>0, <2>1, <3>2, FS_EmptySet DEF Counted
    <3> QED
      BY <1>2, <2>1, <2>5, <3>1, <3>2 DEF Knows
  <2>6. "overlapped" \notin disrupted[c] => Knows(p, c)'
    BY <1>2, <2>1, <2>2, <2>5 DEF Knows
  <2> QED
    BY <1>7, <2>2, <2>4, <2>5, <2>6 DEF LoadsRows
<1>14. CASE Finish(p)
  <2>1. /\ row'[c].count = row[c].count
        /\ pc[p] = "finish"
        /\ ~FanCreate(p)
    BY <1>0, <1>c, <1>14 DEF Finish, FanCreate, SetStatus, Row
  <2>2. pc'[p] = "tell_sent"
    BY <1>14, InsideEffect
  <2>3. row'[c].count <= Cardinality(EverRows(c)')
    BY <1>1, <1>3, <2>1 DEF CountsRows
  <2>4. ASSUME "overlapped" \notin disrupted[c] PROVE Counted(c)'
    <3>1. Rows(c)' \in SUBSET Rows(c) /\ Rows(c) \in SUBSET Subscriber
      BY <1>3, <2>1 DEF Rows
    <3>2. /\ Cardinality(Rows(c)') \in Nat /\ Cardinality(Rows(c)) \in Nat
          /\ Cardinality(Rows(c)') <= Cardinality(Rows(c))
      BY <3>1, Fewer
    <3>3. Counted(c)
      BY <1>2, <2>1, <2>4 DEF Knows
    <3> QED
      BY <1>0, <2>1, <3>2, <3>3 DEF Counted, Row
  <2> QED
    BY <1>7, <2>2, <2>3, <2>4 DEF LoadsRows, FanningOut
<1> QED
  BY <1>9, <1>10, <1>11, <1>12, <1>13, <1>14 DEF Inside

LEMMA CountNext == TypeOK /\ FanOutInv /\ RowsInv /\ CountInv /\ [Next]_vars => CountInv'
<1> SUFFICES ASSUME TypeOK, FanOutInv, RowsInv, CountInv, [Next]_vars PROVE CountInv'
  OBVIOUS
<1>0. /\ row \in [Campaign -> Row]
      /\ pc \in [Proc -> PC]
      /\ local \in [Proc -> Local]
      /\ fanouts \in [Campaign -> Nat]
      /\ disrupted \in [Campaign -> SUBSET {"threw", "died", "overlapped"}]
  BY DEF TypeOK, TableTypeOK, HandlerTypeOK, HistoryTypeOK
<1>1. CASE Aside
  <2>1. ASSUME NEW c \in Campaign PROVE CountsRows(c)'
    <3>1. /\ EverRows(c)' = EverRows(c) /\ Rows(c)' \subseteq Rows(c)
          /\ fanouts'[c] = fanouts[c] /\ disrupted[c] \subseteq disrupted'[c]
          /\ row'[c].count = row[c].count
          /\ row'[c].status = "SENT" => row[c].status = "SENT"
      BY <1>1 DEF Aside, RowsGo, EverRows, Rows
    <3>2. \A p \in Proc :
            FanningOut(p, c)' => FanningOut(p, c) /\ pc'[p] = pc[p] /\ local'[p] = local[p]
      BY <1>1 DEF Aside, FanningOut
    <3> QED
      BY <3>1, <3>2, CountKeeps DEF CountInv
  <2> QED
    BY <2>1 DEF CountInv
<1>2. ASSUME NEW p \in Proc, NEW c \in Campaign, NEW v \in Nat, Started(p, c, v)
      PROVE  CountInv'
  <2>1. /\ pc'[p] = "select"
        /\ local'[p].camp = c
        /\ OthersStay(p)
        /\ row'[c].status = "SENDING" /\ row'[c].count = row[c].count
        /\ \A d \in Campaign \ {c} :
             row'[d] = row[d] /\ fanouts'[d] = fanouts[d] /\ disrupted'[d] = disrupted[d]
        /\ fanouts'[c] = fanouts[c] + 1
    BY <1>0, <1>2 DEF Started, Begin, SetStatus, Go, Hold, Blank, Row, OthersStay
  <2>2. \A d \in Campaign : Rows(d)' = Rows(d) /\ EverRows(d)' = EverRows(d)
    BY <1>2 DEF Started, Rows, EverRows
  <2>3. disrupted'[c] = IF \E q \in Proc : FanningOut(q, c)
                        THEN disrupted[c] \cup {"overlapped"} ELSE disrupted[c]
    BY <1>0, <1>2 DEF Started, Begin
  <2>4. ASSUME NEW d \in Campaign \ {c} PROVE CountsRows(d)'
    <3>1. \A q \in Proc :
            FanningOut(q, d)' => FanningOut(q, d) /\ pc'[q] = pc[q] /\ local'[q] = local[q]
      BY <2>1 DEF OthersStay, FanningOut
    <3> QED
      BY <2>1, <2>2, <3>1, CountKeeps DEF CountInv
  <2>5. CountsRows(c)
    BY DEF CountInv
  <2>6. /\ fanouts'[c] # 0
        /\ fanouts'[c] = 1 => Rows(c) = {}
    <3>1. fanouts'[c] = 1 => fanouts[c] = 0
      BY <1>0, <2>1
    <3>2. Rows(c) \subseteq EverRows(c)
      BY DEF Rows, EverRows
    <3> QED
      BY <1>0, <2>1, <2>5, <3>1, <3>2 DEF CountsRows
  <2>7. \A q \in Proc \ {p} :
          FanningOut(q, c)' => FanningOut(q, c) /\ pc'[q] = pc[q] /\ local'[q] = local[q]
    BY <2>1 DEF OthersStay, FanningOut
  <2>8. \A q \in Proc : FanningOut(q, c)' => LoadsRows(q, c)'
    BY <2>1, <2>2, <2>5, <2>7 DEF CountsRows, LoadsRows
  <2>9. "overlapped" \notin disrupted'[c] => \A q \in Proc : FanningOut(q, c)' => q = p
    BY <2>3, <2>7
  <2>10. Knows(p, c)'
    BY <2>1, <2>2, <2>6 DEF Knows
  <2>11. CountsRows(c)'
    BY <2>1, <2>2, <2>5, <2>6, <2>8, <2>9, <2>10 DEF CountsRows
  <2> QED
    BY <2>4, <2>11 DEF CountInv
<1>3. CASE MailStep
  <2>1. UNCHANGED <<row, pc, local, fanouts, disrupted>>
    BY <1>3 DEF MailStep, campaignVars
  <2>2. \A p \in Proc : ~FanCreate(p)
    BY <2>1, <1>0, InsideEffect DEF FanCreate
  <2>3. \A c \in Campaign : EverRows(c)' = EverRows(c) /\ Rows(c)' \subseteq Rows(c)
    BY <2>2, RowsEffect
  <2>4. \A p \in Proc, c \in Campaign : FanningOut(p, c)' => FanningOut(p, c)
    BY <2>1 DEF FanningOut
  <2>5. ASSUME NEW c \in Campaign PROVE CountsRows(c)'
    BY <2>1, <2>3, <2>4, CountKeeps DEF CountInv
  <2> QED
    BY <2>5 DEF CountInv
<1> QED
  BY <1>1, <1>2, <1>3, CountInside, Kinds

(* The count of a campaign that is SENT never exceeds the recipients it    *)
(* ever had, and leaves out none that it still has, unless fan-outs of it  *)
(* overlapped or a later one reset the count; subscribers may come, go and *)
(* be purged at any time.                                                  *)
THEOREM CountIsRight == Spec => []CountMatchesRows
<1>1. Init => CountInv
  <2> SUFFICES ASSUME Init, NEW c \in Campaign PROVE CountsRows(c)
    BY DEF CountInv
  <2>1. EverRows(c) = {} /\ row[c].count = 0 /\ row[c].status = "NONE"
    BY DEF Init, QueueInit, EverRows
  <2>2. \A p \in Proc : ~FanningOut(p, c)
    BY DEF Init, FanningOut
  <2>3. Cardinality({}) = 0
    BY FS_EmptySet
  <2> QED
    BY <2>1, <2>2, <2>3 DEF CountsRows
<1>2. CountInv => CountMatchesRows
  BY DEF CountInv, CountsRows, Counted, CountMatchesRows
<1> QED
  BY <1>1, <1>2, CountNext, TypeCorrect, FanOutHolds, RowsHold, PTL DEF Spec

-----------------------------------------------------------------------------
(* The budget of messages.  MailBudget counts only what has gone out, so   *)
(* it is not inductive.  The invariant adds what may still go out, as a    *)
(* set of chances: a fan-out that has still to add the job has all of its  *)
(* budget, a job in the queue the attempts and stalls that remain to it.   *)
(* A message takes one chance away, and no step but the start of a fan-out *)
(* gives any.                                                              *)

Budget == Attempts + MaxStalls

Remaining(j) ==
  (Attempts - j.tries) + (MaxStalls - j.stalls)
    - (IF j.pc \in {"accepted", "failing"} THEN 1 ELSE 0)

Chances(c, s) ==
  {t \in (1 .. fanouts[c]) \X (1 .. Budget) :
     \/ \E p \in Proc : Runs(p, c, t[1]) /\ MayQueue(p, s)
     \/ \E j \in jobs :
          j.camp = c /\ j.sub = s /\ j.fanout = t[1] /\ t[2] <= Remaining(j)}

BudgetInv ==
  \A c \in Campaign, s \in Subscriber :
    mailed[c][s] + Cardinality(Chances(c, s)) <= fanouts[c] * Budget

LEMMA UpTo ==
  ASSUME NEW n \in Nat
  PROVE  IsFiniteSet(1 .. n) /\ Cardinality(1 .. n) = n
<1>1. 1 \in Int /\ n \in Int
  OBVIOUS
<1>2. /\ IsFiniteSet(1 .. n)
      /\ Cardinality(1 .. n) = IF 1 > n THEN 0 ELSE n - 1 + 1
  BY <1>1, FS_Interval, Zenon
<1> QED
  BY <1>2

(* One column of a grid has as many points as the grid has rows.           *)
LEMMA ColumnOf ==
    ASSUME NEW x, NEW n \in Nat
    PROVE  /\ IsFiniteSet({x} \X (1 .. n))
           /\ Cardinality({x} \X (1 .. n)) = n
<1> DEFINE S == {x}
           T == 1 .. n
<1>1. IsFiniteSet(S) /\ Cardinality(S) = 1
  BY FS_Singleton
<1>2. IsFiniteSet(T) /\ Cardinality(T) = n
  BY UpTo
<1>3. IsFiniteSet(S \X T) /\ Cardinality(S \X T) = Cardinality(S) * Cardinality(T)
  <2> HIDE DEF S, T
  <2> QED
    BY <1>1, <1>2, FS_Product, Zenon
<1>4. Cardinality(S) * Cardinality(T) = n
  BY <1>1, <1>2
<1> QED
  BY <1>3, <1>4

LEMMA ChancesFinite ==
  ASSUME TypeOK, NEW c \in Campaign, NEW s \in Subscriber
  PROVE  /\ IsFiniteSet(Chances(c, s))
         /\ Cardinality(Chances(c, s)) \in Nat
         /\ mailed[c][s] \in Nat
         /\ fanouts[c] \in Nat
         /\ Budget \in Nat
         /\ fanouts[c] * Budget \in Nat
<1>1. mailed[c][s] \in Nat /\ fanouts[c] \in Nat /\ Budget \in Nat
  BY QueueAssumption DEF TypeOK, QueueTypeOK, HistoryTypeOK, Budget
<1>2. IsFiniteSet((1 .. fanouts[c]) \X (1 .. Budget))
  <2>1. IsFiniteSet(1 .. fanouts[c]) /\ IsFiniteSet(1 .. Budget)
    BY <1>1, UpTo
  <2> QED
    BY <2>1, FS_Product
<1>3. IsFiniteSet(Chances(c, s)) /\ Cardinality(Chances(c, s)) \in Nat
  BY <1>2, FS_Subset, FS_CardinalityType DEF Chances
<1> QED
  BY <1>1, <1>3

(* A step that gives no chance and sends nothing. *)
LEMMA BudgetKeeps ==
  ASSUME TypeOK, TypeOK', BudgetInv, NEW c \in Campaign, NEW s \in Subscriber,
         Chances(c, s)' \subseteq Chances(c, s),
         fanouts'[c] = fanouts[c], mailed'[c][s] = mailed[c][s]
  PROVE  mailed'[c][s] + Cardinality(Chances(c, s)') <= fanouts'[c] * Budget
<1>1. Cardinality(Chances(c, s)') <= Cardinality(Chances(c, s))
  BY ChancesFinite, FS_Subset
<1>2. Cardinality(Chances(c, s)') \in Nat
  BY ChancesFinite, FS_Subset, FS_CardinalityType
<1>3. mailed[c][s] + Cardinality(Chances(c, s)) <= fanouts[c] * Budget
  BY DEF BudgetInv
<1> QED
  BY <1>1, <1>2, <1>3, ChancesFinite

(* What a worker sends, and what remains to the job. *)
LEMMA WorkerSends ==
  ASSUME TypeOK, NEW j \in jobs, WorkerStep(j) \/ WorkerFault(j)
  PROVE  \E sent \in {0, 1} :
           /\ \A c \in Campaign, s \in Subscriber :
                mailed'[c][s] = mailed[c][s] + (IF c = j.camp /\ s = j.sub THEN sent ELSE 0)
           /\ sent = 1 => Remaining(j) \in 1 .. Budget
           /\ \/ jobs' = jobs \ {j}
              \/ \E k \in Job :
                   /\ SameData(j, k)
                   /\ jobs' = (jobs \ {j}) \cup {k}
                   /\ Remaining(k) <= Remaining(j) - sent
<1>0. /\ j \in Job
      /\ j.camp \in Campaign
      /\ j.sub \in Subscriber
      /\ j.tries \in 0 .. Attempts - 1
      /\ j.stalls \in 0 .. MaxStalls
      /\ Attempts \in Nat \ {0}
      /\ MaxStalls \in Nat
      /\ mailed \in [Campaign -> [Subscriber -> Nat]]
      /\ jobs' \in SUBSET Job
  BY QueueAssumption, WorkerType DEF TypeOK, QueueTypeOK, Job
<1>1. ASSUME NEW x
      PROVE  /\ SameData(j, [j EXCEPT !.pc = x])
             /\ [j EXCEPT !.pc = x].pc = x
             /\ [j EXCEPT !.pc = x].tries = j.tries
             /\ [j EXCEPT !.pc = x].stalls = j.stalls
  BY <1>0 DEF SameData, Job
<1>2. UNCHANGED mailed =>
        \A c \in Campaign, s \in Subscriber :
          mailed'[c][s] = mailed[c][s] + (IF c = j.camp /\ s = j.sub THEN 0 ELSE 0)
  BY <1>0
<1>3. Accept(j.camp, j.sub) =>
        \A c \in Campaign, s \in Subscriber :
          mailed'[c][s] = mailed[c][s] + (IF c = j.camp /\ s = j.sub THEN 1 ELSE 0)
  <2>1. ASSUME Accept(j.camp, j.sub), NEW c \in Campaign, NEW s \in Subscriber
        PROVE  mailed'[c][s] = mailed[c][s] + (IF c = j.camp /\ s = j.sub THEN 1 ELSE 0)
    <3>1. mailed' = [mailed EXCEPT ![j.camp][j.sub] = mailed[j.camp][j.sub] + 1]
      BY <2>1 DEF Accept
    <3> QED
      BY <1>0, <3>1
  <2> QED
    BY <2>1
(* The send itself. *)
<1>4. ASSUME j.pc = "active", NEW x \in {"accepted", "failing"},
             Accept(j.camp, j.sub) \/ UNCHANGED mailed,
             Replace(j, [j EXCEPT !.pc = x])
      PROVE  \E sent \in {0, 1} :
               /\ \A c \in Campaign, s \in Subscriber :
                    mailed'[c][s] = mailed[c][s] + (IF c = j.camp /\ s = j.sub THEN sent ELSE 0)
               /\ sent = 1 => Remaining(j) \in 1 .. Budget
               /\ \E k \in Job :
                    /\ SameData(j, k)
                    /\ jobs' = (jobs \ {j}) \cup {k}
                    /\ Remaining(k) <= Remaining(j) - sent
  <2> DEFINE k == [j EXCEPT !.pc = x]
  <2>1. k.pc = x /\ k.tries = j.tries /\ k.stalls = j.stalls /\ SameData(j, k)
    BY <1>1
  <2>2. k \in Job /\ jobs' = (jobs \ {j}) \cup {k}
    BY <1>0, <1>4 DEF Replace
  <2> HIDE DEF k
  <2>3. Remaining(j) \in 1 .. Budget /\ Remaining(k) <= Remaining(j) - 1
    BY <1>0, <1>4, <2>1 DEF Remaining, Budget
  <2>4. Remaining(j) \in Int /\ Remaining(k) \in Int
    BY <1>0, <2>1 DEF Remaining
  <2>5. CASE Accept(j.camp, j.sub)
    BY <1>3, <2>1, <2>2, <2>3, <2>5
  <2>6. CASE UNCHANGED mailed
    <3>1. Remaining(k) <= Remaining(j) - 0
      BY <2>3, <2>4
    <3> QED
      BY <1>2, <2>1, <2>2, <2>6, <3>1
  <2> QED
    BY <1>4, <2>5, <2>6
(* Everything else. *)
<1>5. ASSUME UNCHANGED mailed,
             \/ jobs' = jobs \ {j}
             \/ \E k \in Job :
                  /\ SameData(j, k)
                  /\ jobs' = (jobs \ {j}) \cup {k}
                  /\ Remaining(k) <= Remaining(j)
      PROVE  \E sent \in {0, 1} :
               /\ \A c \in Campaign, s \in Subscriber :
                    mailed'[c][s] = mailed[c][s] + (IF c = j.camp /\ s = j.sub THEN sent ELSE 0)
               /\ sent = 1 => Remaining(j) \in 1 .. Budget
               /\ \/ jobs' = jobs \ {j}
                  \/ \E k \in Job :
                       /\ SameData(j, k)
                       /\ jobs' = (jobs \ {j}) \cup {k}
                       /\ Remaining(k) <= Remaining(j) - sent
  <2>1. Remaining(j) - 0 = Remaining(j)
    BY <1>0 DEF Remaining
  <2> QED
    BY <1>2, <1>5, <2>1
<1>6. ASSUME Take(j) \/ MarkSentThrows(j) \/ MarkSentMisses(j)
      PROVE  \E k \in Job :
               /\ SameData(j, k)
               /\ jobs' = (jobs \ {j}) \cup {k}
               /\ Remaining(k) <= Remaining(j)
  <2>1. PICK x \in {"active", "failing"} :
          /\ Replace(j, [j EXCEPT !.pc = x])
          /\ j.pc = IF x = "active" THEN "waiting" ELSE "accepted"
    BY <1>6 DEF Take, MarkSentThrows, MarkSentMisses
  <2> DEFINE k == [j EXCEPT !.pc = x]
  <2>2. k.pc = x /\ k.tries = j.tries /\ k.stalls = j.stalls /\ SameData(j, k)
    BY <1>1
  <2>3. k \in Job /\ jobs' = (jobs \ {j}) \cup {k}
    BY <1>0, <2>1 DEF Replace
  <2> HIDE DEF k
  <2>4. Remaining(k) <= Remaining(j)
    BY <1>0, <2>1, <2>2 DEF Remaining
  <2> QED
    BY <2>2, <2>3, <2>4
<1>7. ASSUME j.pc = "failing", Retry(j)
      PROVE  \/ jobs' = jobs \ {j}
             \/ \E k \in Job :
                  /\ SameData(j, k)
                  /\ jobs' = (jobs \ {j}) \cup {k}
                  /\ Remaining(k) <= Remaining(j)
  <2> DEFINE k == [j EXCEPT !.pc = "waiting", !.tries = j.tries + 1]
  <2>1. jobs' = jobs \ {j} \/ jobs' = (jobs \ {j}) \cup {k}
    BY <1>7 DEF Retry, Replace
  <2>2. k.pc = "waiting" /\ k.tries = j.tries + 1 /\ k.stalls = j.stalls /\ SameData(j, k)
    BY <1>0 DEF SameData, Job
  <2> HIDE DEF k
  <2>3. Remaining(k) <= Remaining(j)
    BY <1>0, <1>7, <2>2 DEF Remaining
  <2> QED
    BY <1>0, <2>1, <2>2, <2>3
<1>8. ASSUME WorkerDies(j)
      PROVE  \/ jobs' = jobs \ {j}
             \/ \E k \in Job :
                  /\ SameData(j, k)
                  /\ jobs' = (jobs \ {j}) \cup {k}
                  /\ Remaining(k) <= Remaining(j)
  <2> DEFINE k == [j EXCEPT !.pc = "waiting", !.stalls = j.stalls + 1]
  <2>1. jobs' = jobs \ {j} \/ jobs' = (jobs \ {j}) \cup {k}
    BY <1>8 DEF WorkerDies, Replace
  <2>2. k.pc = "waiting" /\ k.tries = j.tries /\ k.stalls = j.stalls + 1 /\ SameData(j, k)
    BY <1>0 DEF SameData, Job
  <2> HIDE DEF k
  <2>3. Remaining(k) <= Remaining(j)
    BY <1>0, <2>2 DEF Remaining
  <2> QED
    BY <1>0, <2>1, <2>2, <2>3
<1>9. CASE SendResolves(j) \/ SendThrows(j)
  BY <1>4, <1>9 DEF SendResolves, SendThrows
<1>10. CASE Take(j) \/ MarkSentThrows(j) \/ MarkSentMisses(j)
  BY <1>5, <1>6, <1>10 DEF Take, MarkSentThrows, MarkSentMisses
<1>11. CASE MarkSent(j)
  BY <1>5, <1>11 DEF MarkSent, Complete
<1>12. CASE MarkFailed(j) \/ MarkFailedMisses(j) \/ MarkFailedThrows(j)
  BY <1>5, <1>7, <1>12 DEF MarkFailed, MarkFailedMisses, MarkFailedThrows
<1>13. CASE WorkerDies(j)
  BY <1>5, <1>8, <1>13 DEF WorkerDies
<1> QED
  BY <1>9, <1>10, <1>11, <1>12, <1>13 DEF WorkerStep, WorkerFault

(* A fan-out begins: its chances are new, one budget of them.              *)
LEMMA BudgetStarts ==
  ASSUME TypeOK, TypeOK', FanOutInv, BudgetInv, NEW p \in Proc, NEW d \in Campaign,
         NEW v \in Nat, Started(p, d, v), NEW c \in Campaign, NEW s \in Subscriber
  PROVE  mailed'[c][s] + Cardinality(Chances(c, s)') <= fanouts'[c] * Budget
<1>0. /\ pc \in [Proc -> PC]
      /\ local \in [Proc -> Local]
      /\ fanouts \in [Campaign -> Nat]
      /\ fanouts[d] \in Nat
  BY DEF TypeOK, HandlerTypeOK, HistoryTypeOK
<1>1. /\ local'[p].camp = d
      /\ local'[p].fanout = fanouts[d] + 1
      /\ OthersStay(p)
  BY <1>0 DEF Started, Begin, Go, Hold, Blank, OthersStay
<1>2. /\ fanouts'[d] = fanouts[d] + 1
      /\ \A e \in Campaign \ {d} : fanouts'[e] = fanouts[e]
      /\ jobs' = jobs
      /\ mailed' = mailed
  BY <1>0 DEF Started, Begin
<1>3. ASSUME NEW n, NEW q \in Proc, Runs(q, c, n)', MayQueue(q, s)'
      PROVE  \/ Runs(q, c, n) /\ MayQueue(q, s)
             \/ c = d /\ n = fanouts[d] + 1
  BY <1>1, <1>3 DEF OthersStay, Runs, FanningOut, MayQueue
<1>4. \A q \in Proc, n \in Nat : Runs(q, c, n) => n \in 1 .. fanouts[c]
  BY DEF FanOutInv, Runs, FanningOut
<1>5. \A j \in jobs : j.fanout \in 1 .. fanouts[j.camp]
  BY DEF FanOutInv
<1>6. CASE c # d
  <2>1. Chances(c, s)' \subseteq Chances(c, s)
    BY <1>2, <1>3, <1>6 DEF Chances, Remaining
  <2> QED
    BY <1>2, <1>6, <2>1, BudgetKeeps
<1>7. CASE c = d
  <2> DEFINE New == {fanouts[d] + 1} \X (1 .. Budget)
  <2>1. Chances(c, s)' \subseteq Chances(c, s) \cup New
    <3>1. ASSUME NEW t \in Chances(c, s)', t \notin New
          PROVE  t \in Chances(c, s)
      <4>1. /\ t \in (1 .. fanouts[c] + 1) \X (1 .. Budget)
            /\ \/ \E q \in Proc : Runs(q, c, t[1])' /\ MayQueue(q, s)'
               \/ \E j \in jobs :
                    j.camp = c /\ j.sub = s /\ j.fanout = t[1] /\ t[2] <= Remaining(j)
        BY <1>2, <1>7 DEF Chances, Remaining
      <4>2. t[1] # fanouts[c] + 1
        BY <1>7, <3>1, <4>1
      <4>3. t \in (1 .. fanouts[c]) \X (1 .. Budget)
        BY <1>0, <1>7, <4>1, <4>2
      <4> QED
        BY <1>3, <1>7, <4>1, <4>2, <4>3 DEF Chances
    <3> QED
      BY <3>1
  <2>2. /\ IsFiniteSet(New)
        /\ Cardinality(New) = Budget
    <3>1. Budget \in Nat
      BY ChancesFinite
    <3> QED
      BY <3>1, ColumnOf
  <2> HIDE DEF New
  <2>3. /\ IsFiniteSet(Chances(c, s) \cup New)
        /\ Cardinality(Chances(c, s) \cup New) <= Cardinality(Chances(c, s)) + Budget
    <3>1. IsFiniteSet(Chances(c, s)) /\ Cardinality(Chances(c, s)) \in Nat /\ Budget \in Nat
      BY ChancesFinite
    <3>2. /\ IsFiniteSet(Chances(c, s) \cup New)
          /\ Cardinality(Chances(c, s) \cup New) =
               Cardinality(Chances(c, s)) + Cardinality(New)
                 - Cardinality(Chances(c, s) \cap New)
      BY <2>2, <3>1, FS_Union
    <3>3. Cardinality(Chances(c, s) \cap New) \in Nat
      BY <2>2, FS_Subset, FS_CardinalityType
    <3> QED
      BY <2>2, <3>1, <3>2, <3>3
  <2>4. /\ Cardinality(Chances(c, s)') <= Cardinality(Chances(c, s) \cup New)
        /\ Cardinality(Chances(c, s)') \in Nat
        /\ Cardinality(Chances(c, s) \cup New) \in Nat
    BY <2>1, <2>3, FS_Subset, FS_CardinalityType
  <2>5. mailed[c][s] + Cardinality(Chances(c, s)) <= fanouts[c] * Budget
    BY DEF BudgetInv
  <2>6. \A a, b \in Nat : (a + 1) * b = a * b + b
    OBVIOUS
  <2>7. fanouts'[c] * Budget = fanouts[c] * Budget + Budget
    BY <1>2, <1>7, <2>6, ChancesFinite
  <2>8. mailed'[c][s] = mailed[c][s]
    BY <1>2
  <2> QED
    BY <2>3, <2>4, <2>5, <2>7, <2>8, ChancesFinite
<1> QED
  BY <1>6, <1>7

(* A worker gives up the chance it uses.                                   *)
LEMMA BudgetWorker ==
  ASSUME TypeOK, TypeOK', FanOutInv, BudgetInv, MailStep,
         NEW c \in Campaign, NEW s \in Subscriber
  PROVE  mailed'[c][s] + Cardinality(Chances(c, s)') <= fanouts'[c] * Budget
<1>0. UNCHANGED <<pc, local, fanouts>>
  BY DEF MailStep, campaignVars
<1>1. \A p \in Proc : \A n :
        (Runs(p, c, n)' <=> Runs(p, c, n)) /\ (MayQueue(p, s)' <=> MayQueue(p, s))
  BY <1>0 DEF Runs, FanningOut, MayQueue
<1>2. PICK j \in jobs : WorkerStep(j) \/ WorkerFault(j)
  BY DEF MailStep
<1>3. PICK sent \in {0, 1} :
        /\ \A d \in Campaign, r \in Subscriber :
             mailed'[d][r] = mailed[d][r] + (IF d = j.camp /\ r = j.sub THEN sent ELSE 0)
        /\ sent = 1 => Remaining(j) \in 1 .. Budget
        /\ \/ jobs' = jobs \ {j}
           \/ \E k \in Job :
                /\ SameData(j, k)
                /\ jobs' = (jobs \ {j}) \cup {k}
                /\ Remaining(k) <= Remaining(j) - sent
  BY <1>2, WorkerSends
<1>4. /\ j.fanout \in Nat
      /\ j.fanout \in 1 .. fanouts[j.camp]
      /\ \A i \in Job : Remaining(i) \in Int
      /\ j \in Job
      /\ jobs \subseteq Job
      /\ mailed[c][s] \in Nat
  BY <1>2, QueueAssumption, ChancesFinite DEF FanOutInv, TypeOK, QueueTypeOK, Job, Remaining
(* Any chance left was there before, and it is not the one that was used. *)
<1>5. ASSUME NEW t \in Chances(c, s)'
      PROVE  /\ t \in Chances(c, s)
             /\ sent = 1 /\ c = j.camp /\ s = j.sub => t # <<j.fanout, Remaining(j)>>
  <2>1. /\ t \in (1 .. fanouts[c]) \X (1 .. Budget)
        /\ \/ \E p \in Proc : Runs(p, c, t[1]) /\ MayQueue(p, s)
           \/ \E k \in jobs' :
                k.camp = c /\ k.sub = s /\ k.fanout = t[1] /\ t[2] <= Remaining(k)
    BY <1>0, <1>1 DEF Chances, Remaining
  <2>2. t[1] \in Nat /\ t[2] \in Nat
    BY <2>1
  <2>3. CASE \E p \in Proc : Runs(p, c, t[1]) /\ MayQueue(p, s)
    <3>1. t \in Chances(c, s)
      BY <2>1, <2>3 DEF Chances
    <3>2. c = j.camp /\ s = j.sub => t[1] # j.fanout
      BY <1>2, <2>3 DEF FanOutInv
    <3> QED
      BY <3>1, <3>2
  <2>4. ASSUME NEW k \in jobs', k.camp = c, k.sub = s, k.fanout = t[1], t[2] <= Remaining(k)
        PROVE  /\ t \in Chances(c, s)
               /\ sent = 1 /\ c = j.camp /\ s = j.sub => t # <<j.fanout, Remaining(j)>>
    <3>1. CASE k \in jobs /\ k # j
      <4>1. t \in Chances(c, s)
        BY <2>1, <2>4, <3>1 DEF Chances
      <4>2. c = j.camp /\ s = j.sub => k.fanout # j.fanout
        BY <1>2, <2>4, <3>1 DEF FanOutInv
      <4> QED
        BY <2>4, <4>1, <4>2
    <3>2. CASE ~(k \in jobs /\ k # j)
      <4>1. /\ k \in Job
            /\ SameData(j, k)
            /\ Remaining(k) <= Remaining(j) - sent
        BY <1>3, <2>4, <3>2
      <4>2. /\ t[2] <= Remaining(j)
            /\ sent = 1 => t[2] # Remaining(j)
        BY <1>4, <2>2, <2>4, <4>1
      <4>3. t \in Chances(c, s)
        BY <1>2, <2>1, <2>4, <4>1, <4>2 DEF Chances, SameData
      <4> QED
        BY <4>2, <4>3
    <3> QED
      BY <3>1, <3>2
  <2> QED
    BY <2>1, <2>3, <2>4
<1>6. CASE sent = 1 /\ c = j.camp /\ s = j.sub
  <2> DEFINE used == <<j.fanout, Remaining(j)>>
  <2>1. used \in Chances(c, s)
    BY <1>2, <1>3, <1>4, <1>6 DEF Chances
  <2>2. Chances(c, s)' \subseteq Chances(c, s) \ {used}
    BY <1>5, <1>6
  <2> HIDE DEF used
  <2>3. /\ IsFiniteSet(Chances(c, s))
        /\ Cardinality(Chances(c, s)) \in Nat
        /\ fanouts[c] * Budget \in Nat
    BY ChancesFinite
  <2>4. /\ IsFiniteSet(Chances(c, s) \ {used})
        /\ Cardinality(Chances(c, s) \ {used}) = Cardinality(Chances(c, s)) - 1
    BY <2>1, <2>3, FS_RemoveElement
  <2>5. /\ Cardinality(Chances(c, s)') <= Cardinality(Chances(c, s)) - 1
        /\ Cardinality(Chances(c, s)') \in Nat
    BY <2>2, <2>4, FS_Subset, FS_CardinalityType
  <2>6. mailed'[c][s] = mailed[c][s] + 1
    BY <1>3, <1>6
  <2>7. mailed[c][s] + Cardinality(Chances(c, s)) <= fanouts[c] * Budget
    BY DEF BudgetInv
  <2> QED
    BY <1>0, <1>4, <2>3, <2>5, <2>6, <2>7
<1>7. CASE ~(sent = 1 /\ c = j.camp /\ s = j.sub)
  <2>1. mailed'[c][s] = mailed[c][s]
    BY <1>3, <1>4, <1>7
  <2>2. Chances(c, s)' \subseteq Chances(c, s)
    BY <1>5
  <2> QED
    BY <1>0, <2>1, <2>2, BudgetKeeps
<1> QED
  BY <1>6, <1>7

LEMMA BudgetNext == TypeOK /\ TypeOK' /\ FanOutInv /\ BudgetInv /\ [Next]_vars => BudgetInv'
<1> SUFFICES ASSUME TypeOK, TypeOK', FanOutInv, BudgetInv, [Next]_vars,
                    NEW c \in Campaign, NEW s \in Subscriber
             PROVE  mailed'[c][s] + Cardinality(Chances(c, s)') <= fanouts'[c] * Budget
  BY DEF BudgetInv
<1>1. ASSUME RunsOn, UNCHANGED <<jobs, fanouts>>
      PROVE  Chances(c, s)' \subseteq Chances(c, s)
  <2>1. \A p \in Proc : \A n :
          Runs(p, c, n)' /\ MayQueue(p, s)' => Runs(p, c, n) /\ MayQueue(p, s)
    BY <1>1 DEF RunsOn, Runs, FanningOut
  <2> QED
    BY <1>1, <2>1 DEF Chances, Remaining
<1>2. CASE Aside
  BY <1>1, <1>2, AsideRunsOn, BudgetKeeps DEF Aside
<1>3. ASSUME NEW p \in Proc, Inside(p), ~FanQueue(p)
      PROVE  mailed'[c][s] + Cardinality(Chances(c, s)') <= fanouts'[c] * Budget
  <2>1. UNCHANGED <<jobs, fanouts, mailed>>
    BY <1>3 DEF Inside, FanSelect, FanCreate, FanLoad, FanQueued, FanCount, Finish, queueVars
  <2> QED
    BY <1>1, <1>3, <2>1, InsideRunsOn, BudgetKeeps
(* The job that is added has the chances that its fan-out had. *)
<1>4. ASSUME NEW p \in Proc, FanQueue(p)
      PROVE  mailed'[c][s] + Cardinality(Chances(c, s)') <= fanouts'[c] * Budget
  <2>1. RunsOn /\ UNCHANGED <<fanouts, mailed>>
    BY <1>4, InsideRunsOn DEF Inside, FanQueue
  <2>2. \A q \in Proc : \A n :
          Runs(q, c, n)' /\ MayQueue(q, s)' => Runs(q, c, n) /\ MayQueue(q, s)
    BY <2>1 DEF RunsOn, Runs, FanningOut
  <2>3. \A k \in jobs' \ jobs :
          k.camp = c /\ k.sub = s => Runs(p, c, k.fanout) /\ MayQueue(p, s)
    BY <1>4 DEF FanQueue, Enqueue, NewJob, Runs, FanningOut, MayQueue
  <2>4. Chances(c, s)' \subseteq Chances(c, s)
    BY <2>1, <2>2, <2>3 DEF Chances, Remaining
  <2> QED
    BY <2>1, <2>4, BudgetKeeps
<1> QED
  BY <1>2, <1>3, <1>4, BudgetStarts, BudgetWorker, Kinds

(* However often workers throw, stall or lose the answer of the server, a  *)
(* fan-out mails a recipient at most once per attempt and per stall.       *)
THEOREM MailIsBounded == Spec => []MailBudget
<1>1. Init => BudgetInv
  <2> SUFFICES ASSUME Init, NEW c \in Campaign, NEW s \in Subscriber
               PROVE  mailed[c][s] + Cardinality(Chances(c, s)) <= fanouts[c] * Budget
    BY DEF BudgetInv
  <2>1. mailed[c][s] = 0 /\ fanouts[c] = 0 /\ Budget \in Nat
    BY QueueAssumption DEF Init, QueueInit, Budget
  <2>2. Chances(c, s) = {}
    BY <2>1 DEF Chances
  <2>3. Cardinality(Chances(c, s)) = 0
    BY <2>2, FS_EmptySet
  <2> QED
    BY <2>1, <2>3
<1>2. TypeOK /\ BudgetInv => MailBudget
  BY ChancesFinite DEF BudgetInv, MailBudget, Budget
<1> QED
  BY <1>1, <1>2, BudgetNext, TypeCorrect, FanOutHolds, PTL DEF Spec

-----------------------------------------------------------------------------
(* What the creator hears.  Each send is in the hands of one handler until *)
(* that handler leaves it, in a step that notes how it ended.              *)

AtWork(p) == pc[p] \in SendingPC \cup TellPC

(* What is inductive: nothing is told of a send before its handler leaves  *)
(* it, and no other handler has a send of that number.                     *)
ToldInv ==
  /\ CreatorIsTold
  /\ \A c \in Campaign, n \in Nat, o \in Outcomes :
        <<n, o>> \in told[c] => n \in 1 .. fanouts[c]
  /\ \A p \in Proc : AtWork(p) =>
        /\ local[p].fanout \in 1 .. fanouts[local[p].camp]
        /\ \A o \in Outcomes : <<local[p].fanout, o>> \notin told[local[p].camp]
        /\ \A q \in Proc \ {p} :
              AtWork(q) /\ local[q].camp = local[p].camp => local[q].fanout # local[p].fanout

(* Nobody begins a send or leaves one. *)
SendsGoOn ==
  /\ UNCHANGED <<told, fanouts>>
  /\ \A p \in Proc :
        /\ AtWork(p)' <=> AtWork(p)
        /\ AtWork(p) => local'[p].camp = local[p].camp /\ local'[p].fanout = local[p].fanout

(* p leaves the send it is at work on, with this outcome. *)
Leaves(p, outcome) ==
  /\ AtWork(p) /\ ~AtWork(p)'
  /\ Note(p, outcome)
  /\ outcome = "nothing" => faults' > 0
  /\ OthersStay(p)
  /\ fanouts' = fanouts

Begins(p, c) ==
  /\ ~AtWork(p) /\ AtWork(p)'
  /\ local'[p].camp = c
  /\ local'[p].fanout = fanouts[c] + 1
  /\ fanouts' = [fanouts EXCEPT ![c] = @ + 1]
  /\ OthersStay(p)
  /\ told' = told

LEMMA FaultsAdd == TypeOK /\ [Next]_vars => faults' \in Nat /\ faults' >= faults
<1> SUFFICES ASSUME TypeOK, [Next]_vars PROVE faults' \in Nat /\ faults' >= faults
  OBVIOUS
<1>0. faults \in Nat
  BY DEF TypeOK, QueueTypeOK
<1>1. UNCHANGED faults \/ Fault
  <2>1. ASSUME NEW j \in jobs, WorkerStep(j) \/ WorkerFault(j) PROVE UNCHANGED faults \/ Fault
    BY <2>1 DEF WorkerStep, WorkerFault, Take, SendResolves, SendThrows, MarkSent, MarkFailed,
                MarkSentMisses, MarkFailedMisses, MarkSentThrows, MarkFailedThrows, WorkerDies
  <2>2. ASSUME NEW a \in Admin, RequestStep(a) PROVE UNCHANGED faults
    BY <2>2 DEF RequestStep, UpdateRead, ScheduleRead, SendRead, Read, UpdateWrite,
                ScheduleWrite, SendMark, queueVars
  <2>3. ASSUME NEW k \in Cron, CronStep(k) PROVE UNCHANGED faults
    BY <2>3 DEF CronStep, CronScan, CronClaim, CronSkip, queueVars
  <2>4. ASSUME NEW p \in Proc, FanOutStep(p) PROVE UNCHANGED faults
    BY <2>4 DEF FanOutStep, FanSelect, FanCreate, FanLoad, FanQueue, FanQueued, FanMisses,
                FanCount, Finish, Fail, Tell, queueVars
  <2>5. CASE Failure
    BY <2>5 DEF Failure, FanThrows, TellLost, Die
  <2>6. CASE TableStep \/ AudienceStep \/ UNCHANGED vars
    BY <2>6 DEF TableStep, Create, Delete, TimePasses, AudienceStep, Subscribe, Unsubscribe,
                PurgeSubscriber, queueVars, vars
  <2> QED
    BY <2>1, <2>2, <2>3, <2>4, <2>5, <2>6 DEF Next, MailStep
<1> QED
  BY <1>0, <1>1 DEF Fault

LEMMA SendKinds ==
  ASSUME TypeOK, [Next]_vars
  PROVE  \/ SendsGoOn
         \/ \E p \in Proc, outcome \in Outcomes : Leaves(p, outcome)
         \/ \E p \in Proc, c \in Campaign : Begins(p, c)
<1>0. /\ pc \in [Proc -> PC]
      /\ local \in [Proc -> Local]
      /\ fanouts \in [Campaign -> Nat]
      /\ faults \in Nat
      /\ Admin \subseteq Proc /\ Cron \subseteq Proc
  BY DEF TypeOK, QueueTypeOK, HandlerTypeOK, HistoryTypeOK, Proc
(* A step after which p is at another await, with the same send or none.   *)
<1>1. ASSUME NEW p \in Proc, UNCHANGED <<told, fanouts>>, OthersStay(p),
             AtWork(p)' <=> AtWork(p),
             AtWork(p) => local'[p].camp = local[p].camp /\ local'[p].fanout = local[p].fanout
      PROVE  SendsGoOn
  BY <1>1 DEF SendsGoOn, OthersStay, AtWork
<1>2. ASSUME NEW p \in Proc, Return(p) PROVE ~AtWork(p)' /\ OthersStay(p)
  BY <1>0, <1>2 DEF Return, Go, Hold, OthersStay, AtWork
<1>3. ASSUME NEW p \in Proc, NEW c \in Campaign, NEW v \in Nat, ~AtWork(p), Begin(p, c, v),
             told' = told
      PROVE  Begins(p, c)
  BY <1>0, <1>3
  DEF Begin, Go, Hold, Blank, Begins, OthersStay, AtWork
<1>4. CASE TableStep \/ AudienceStep \/ MailStep \/ UNCHANGED vars
  <2>1. UNCHANGED <<told, fanouts, pc, local>>
    BY <1>4 DEF TableStep, Create, Delete, TimePasses, AudienceStep, Subscribe, Unsubscribe,
                PurgeSubscriber, MailStep, campaignVars, vars
  <2> QED
    BY <2>1 DEF SendsGoOn, AtWork
<1>5. ASSUME NEW a \in Admin, RequestStep(a) PROVE SendsGoOn \/ \E c \in Campaign : Begins(a, c)
  <2>1. ASSUME NEW c \in Campaign, NEW statuses, NEW next \in {"update", "schedule", "mark"},
               Read(a, c, statuses, next)
        PROVE  SendsGoOn
    <3>1. OthersStay(a) /\ ~AtWork(a) /\ ~AtWork(a)' /\ UNCHANGED <<told, fanouts>>
      BY <1>0, <2>1 DEF Read, Go, Hold, OthersStay, AtWork
    <3> QED
      BY <1>0, <1>1, <3>1
  <2>2. CASE UpdateWrite(a) \/ ScheduleWrite(a)
    <3>1. OthersStay(a) /\ ~AtWork(a) /\ ~AtWork(a)' /\ UNCHANGED <<told, fanouts>>
      BY <1>0, <1>2, <2>2
      DEF UpdateWrite, ScheduleWrite, AtWork
    <3> QED
      BY <1>0, <1>1, <3>1
  <2>3. CASE SendMark(a)
    <3>1. local[a].camp \in Campaign /\ local[a].version \in Nat /\ ~AtWork(a)
      BY <1>0, <2>3
      DEF SendMark, TypeOK, HandlerTypeOK, Local, AtWork
    <3> QED
      BY <1>0, <1>3, <2>3, <3>1 DEF SendMark
  <2> QED
    BY <1>5, <2>1, <2>2, <2>3 DEF RequestStep, UpdateRead, ScheduleRead, SendRead
<1>6. ASSUME NEW k \in Cron, CronStep(k) PROVE SendsGoOn \/ \E c \in Campaign : Begins(k, c)
  <2>0. pc[k] \in {"idle", "claim"} => ~AtWork(k)
    BY DEF AtWork
  <2>1. CASE CronScan(k) \/ CronSkip(k)
    <3>1. /\ OthersStay(k) /\ UNCHANGED <<told, fanouts>>
          /\ pc[k] \in {"idle", "claim"} /\ pc'[k] \in {"idle", "claim"}
      BY <1>0, <2>1 DEF CronScan, CronSkip, Go, OthersStay
    <3>2. ~AtWork(k) /\ ~AtWork(k)'
      BY <3>1 DEF AtWork
    <3> QED
      BY <1>0, <1>1, <3>1, <3>2
  <2>2. CASE CronClaim(k)
    <3>1. PICK b \in batch[k] : Begin(k, b.camp, b.version)
      BY <2>2 DEF CronClaim
    <3>2. b.camp \in Campaign /\ b.version \in Nat
      BY <1>0 DEF TypeOK, HandlerTypeOK
    <3> QED
      BY <1>0, <1>3, <2>0, <2>2, <3>1, <3>2 DEF CronClaim
  <2> QED
    BY <1>6, <2>1, <2>2 DEF CronStep
<1>7. ASSUME NEW p \in Proc, FanOutStep(p)
      PROVE  SendsGoOn \/ \E outcome \in Outcomes : Leaves(p, outcome)
  <2>1. CASE Tell(p)
    <3>1. Leaves(p, Outcome(pc[p])) /\ Outcome(pc[p]) \in {"sent", "failed"}
      BY <1>0, <1>2, <2>1 DEF Tell, Leaves, Outcome, AtWork
    <3> QED
      BY <3>1 DEF Outcomes
  <2>2. CASE ~Tell(p)
    <3>1. pc[p] \in SendingPC /\ UNCHANGED <<told, fanouts>>
      BY <1>7, <2>2
      DEF FanOutStep, FanSelect, FanCreate, FanLoad, FanQueue, FanQueued, FanMisses, FanCount,
          Finish, Fail
    <3>2. pc'[p] \in SendingPC \cup TellPC
      BY <1>0, <1>7, <2>2
      DEF FanOutStep, FanSelect, FanCreate, FanLoad, FanQueue, FanQueued, FanMisses, FanCount,
          Finish, Fail, Go, Loop
    <3>3. /\ OthersStay(p)
          /\ local'[p].camp = local[p].camp /\ local'[p].fanout = local[p].fanout
      <4>0. local[p] \in Local
        BY <1>0
      <4>1. CASE FanSelect(p)
        BY <1>0, <4>0, <4>1 DEF FanSelect, Go, Hold, Local, OthersStay
      <4>5. CASE FanLoad(p)
        BY <1>0, <4>0, <4>5 DEF FanLoad, Go, Hold, Local, OthersStay
      <4>2. CASE FanQueue(p)
        BY <1>0, <4>0, <4>2 DEF FanQueue, Go, Hold, Local, OthersStay
      <4>4. CASE FanQueued(p)
        BY <1>0, <4>0, <4>4 DEF FanQueued, Go, Hold, Local, OthersStay
      <4>3. CASE FanCreate(p) \/ FanMisses(p) \/ FanCount(p) \/ Finish(p) \/ Fail(p)
        BY <1>0, <4>3 DEF FanCreate, FanMisses, FanCount, Finish, Fail, Go, OthersStay
      <4> QED
        BY <1>7, <2>2, <4>1, <4>2, <4>3, <4>4, <4>5 DEF FanOutStep
    <3> QED
      BY <1>1, <3>1, <3>2, <3>3 DEF AtWork
  <2> QED
    BY <2>1, <2>2
<1>8. CASE Failure
  <2>1. ASSUME NEW p \in Proc, FanThrows(p) PROVE SendsGoOn
    <3>1. AtWork(p) /\ AtWork(p)' /\ OthersStay(p) /\ UNCHANGED <<told, fanouts, local>>
      BY <1>0, <2>1 DEF FanThrows, Go, OthersStay, AtWork
    <3> QED
      BY <1>1, <3>1
  <2>2. ASSUME NEW p \in Proc, TellLost(p) PROVE Leaves(p, "nothing")
    BY <1>0, <1>2, <2>2 DEF TellLost, Fault, Leaves, AtWork
  <2>3. ASSUME NEW p \in Proc, Die(p) PROVE SendsGoOn \/ Leaves(p, "nothing")
    <3>1. ~AtWork(p)' /\ OthersStay(p) /\ fanouts' = fanouts /\ faults' > 0
      BY <1>0, <2>3
      DEF Die, Fault, Go, Hold, OthersStay, AtWork
    <3>2. CASE AtWork(p)
      BY <2>3, <3>1, <3>2 DEF Die, Leaves, AtWork
    <3>3. CASE ~AtWork(p)
      BY <1>1, <2>3, <3>1, <3>3 DEF Die, AtWork
    <3> QED
      BY <3>2, <3>3
  <2> QED
    BY <1>8, <2>1, <2>2, <2>3 DEF Failure, Outcomes
<1> QED
  BY <1>0, <1>4, <1>5, <1>6, <1>7, <1>8 DEF Next

(* How the n-th send of c ended is known, and it ended in one way.         *)
Heard(c, n) ==
  \E outcome \in Outcomes :
    /\ outcome = "nothing" => faults > 0
    /\ \A o \in Outcomes : <<n, o>> \in told[c] <=> o = outcome

LEMMA ToldGoesOn ==
  ASSUME TypeOK, ToldInv, SendsGoOn, faults' >= faults, faults \in Nat, faults' \in Nat
  PROVE  ToldInv'
<1>1. CreatorIsTold'
  <2> SUFFICES ASSUME NEW c \in Campaign, NEW n \in 1 .. fanouts[c]
               PROVE  (\E p \in Proc : Working(p, c, n)') \/ Heard(c, n)'
    BY DEF SendsGoOn, CreatorIsTold, Heard
  <2>1. CASE \E p \in Proc : Working(p, c, n)
    BY <2>1 DEF Working, SendsGoOn, AtWork
  <2>2. CASE Heard(c, n)
    BY <2>2 DEF Heard, SendsGoOn
  <2> QED
    BY <2>1, <2>2 DEF ToldInv, CreatorIsTold, Heard
<1> QED
  BY <1>1 DEF ToldInv, SendsGoOn

LEMMA ToldBegins ==
  ASSUME TypeOK, ToldInv, faults' >= faults, faults \in Nat, faults' \in Nat,
         NEW p \in Proc, NEW c \in Campaign, Begins(p, c)
  PROVE  ToldInv'
<1>0. /\ fanouts \in [Campaign -> Nat]
      /\ fanouts'[c] = fanouts[c] + 1
      /\ \A d \in Campaign : fanouts'[d] = fanouts[d] \/ (d = c /\ fanouts'[d] = fanouts[d] + 1)
      /\ \A q \in Proc : AtWork(q) => local[q].camp \in Campaign
  BY DEF Begins, TypeOK, HandlerTypeOK, HistoryTypeOK, AtWork
<1>1. \A q \in Proc \ {p} : (AtWork(q)' <=> AtWork(q)) /\ local'[q] = local[q]
  BY DEF Begins, OthersStay, AtWork
<1>2. CreatorIsTold'
  <2> SUFFICES ASSUME NEW d \in Campaign, NEW n \in 1 .. fanouts'[d]
               PROVE  (\E q \in Proc : Working(q, d, n)') \/ Heard(d, n)'
    BY DEF CreatorIsTold, Heard
  <2>1. CASE d = c /\ n = fanouts[c] + 1
    BY <2>1 DEF Begins, Working, AtWork
  <2>2. CASE n \in 1 .. fanouts[d]
    <3>1. CASE \E q \in Proc : Working(q, d, n)
      BY <1>1, <3>1 DEF Working, AtWork, Begins
    <3>2. CASE Heard(d, n)
      BY <3>2 DEF Heard, Begins
    <3> QED
      BY <2>2, <3>1, <3>2 DEF ToldInv, CreatorIsTold, Heard
  <2> QED
    BY <1>0, <2>1, <2>2
<1>3. \A d \in Campaign, n \in Nat, o \in Outcomes :
        <<n, o>> \in told'[d] => n \in 1 .. fanouts[d] /\ n \in 1 .. fanouts'[d]
  BY <1>0 DEF ToldInv, Begins
<1>4. ASSUME NEW q \in Proc, AtWork(q)'
      PROVE  /\ local'[q].fanout \in 1 .. fanouts'[local'[q].camp]
             /\ \A o \in Outcomes : <<local'[q].fanout, o>> \notin told'[local'[q].camp]
             /\ \A r \in Proc \ {q} :
                   AtWork(r)' /\ local'[r].camp = local'[q].camp =>
                     local'[r].fanout # local'[q].fanout
  <2>1. CASE q = p
    <3>1. local'[q].camp = c /\ local'[q].fanout = fanouts[c] + 1 /\ fanouts[c] \in Nat
      BY <1>0, <2>1 DEF Begins
    <3>2. \A r \in Proc \ {q} : AtWork(r)' /\ local'[r].camp = c => local'[r].fanout <= fanouts[c]
      BY <1>0, <1>1, <2>1 DEF ToldInv
    <3> QED
      BY <1>0, <1>1, <1>3, <3>1, <3>2
  <2>2. CASE q # p
    <3>1. AtWork(q) /\ local'[q] = local[q] /\ local[q].camp \in Campaign
      BY <1>0, <1>1, <1>4, <2>2
    <3>2. local[q].fanout \in 1 .. fanouts[local[q].camp]
      BY <3>1 DEF ToldInv
    <3>3. local'[p].camp = local[q].camp => local'[p].fanout # local[q].fanout
      BY <1>0, <3>1, <3>2 DEF Begins
    <3> QED
      BY <1>0, <1>1, <3>1, <3>2, <3>3 DEF ToldInv, Begins
  <2> QED
    BY <2>1, <2>2
<1> QED
  BY <1>2, <1>3, <1>4 DEF ToldInv

LEMMA ToldLeaves ==
  ASSUME TypeOK, ToldInv, faults' >= faults, faults \in Nat, faults' \in Nat,
         NEW p \in Proc, NEW outcome \in Outcomes, Leaves(p, outcome)
  PROVE  ToldInv'
<1> DEFINE c == local[p].camp
           n == local[p].fanout
<1>0. /\ c \in Campaign /\ n \in 1 .. fanouts[c]
      /\ told \in [Campaign -> SUBSET (Nat \X Outcomes)]
      /\ fanouts \in [Campaign -> Nat]
      /\ \A o \in Outcomes : <<n, o>> \notin told[c]
  BY DEF Leaves, ToldInv, AtWork, TypeOK, TableTypeOK, HandlerTypeOK, HistoryTypeOK
<1>1. \A q \in Proc \ {p} : (AtWork(q)' <=> AtWork(q)) /\ local'[q] = local[q]
  BY DEF Leaves, OthersStay, AtWork
<1>2. /\ told'[c] = told[c] \cup {<<n, outcome>>}
      /\ \A d \in Campaign \ {c} : told'[d] = told[d]
      /\ fanouts' = fanouts /\ ~AtWork(p)'
  BY <1>0 DEF Leaves, Note
<1>3. \A d \in Campaign, m \in Nat, o \in Outcomes :
        (<<m, o>> \in told'[d]) <=> (<<m, o>> \in told[d] \/ (d = c /\ m = n /\ o = outcome))
  BY <1>0, <1>2
<1> HIDE DEF c, n
<1>4. CreatorIsTold'
  <2> SUFFICES ASSUME NEW d \in Campaign, NEW m \in 1 .. fanouts[d]
               PROVE  (\E q \in Proc : Working(q, d, m)') \/ Heard(d, m)'
    BY <1>2 DEF CreatorIsTold, Heard
  <2>0. m \in Nat
    BY <1>0
  <2>1. CASE d = c /\ m = n
    <3>1. \A o \in Outcomes : <<m, o>> \in told'[d] <=> o = outcome
      BY <1>0, <1>3, <2>0, <2>1
    <3> QED
      BY <3>1 DEF Heard, Leaves
  <2>2. CASE ~(d = c /\ m = n)
    <3>1. \A o \in Outcomes : <<m, o>> \in told'[d] <=> <<m, o>> \in told[d]
      BY <1>3, <2>0, <2>2
    <3>2. CASE \E q \in Proc : Working(q, d, m)
      <4>1. PICK q \in Proc : Working(q, d, m)
        BY <3>2
      <4>2. q # p
        BY <2>2, <4>1 DEF Working, c, n
      <4> QED
        BY <1>1, <4>1, <4>2 DEF Working, AtWork
    <3>3. CASE Heard(d, m)
      <4>1. PICK heard \in Outcomes :
              /\ heard = "nothing" => faults > 0
              /\ \A o \in Outcomes : <<m, o>> \in told[d] <=> o = heard
        BY <3>3 DEF Heard
      <4> QED
        BY <3>1, <4>1 DEF Heard
    <3> QED
      BY <3>2, <3>3 DEF ToldInv, CreatorIsTold, Heard
  <2> QED
    BY <2>1, <2>2
<1>5. \A d \in Campaign, m \in Nat, o \in Outcomes :
        <<m, o>> \in told'[d] => m \in 1 .. fanouts'[d]
  BY <1>0, <1>2, <1>3 DEF ToldInv
<1>6. ASSUME NEW q \in Proc, AtWork(q)'
      PROVE  /\ local'[q].fanout \in 1 .. fanouts'[local'[q].camp]
             /\ \A o \in Outcomes : <<local'[q].fanout, o>> \notin told'[local'[q].camp]
             /\ \A r \in Proc \ {q} :
                   AtWork(r)' /\ local'[r].camp = local'[q].camp =>
                     local'[r].fanout # local'[q].fanout
  <2>1. q # p /\ AtWork(q) /\ local'[q] = local[q]
    BY <1>1, <1>2, <1>6
  <2>2. local[q].camp \in Campaign /\ local[q].fanout \in Nat
    BY <2>1 DEF AtWork, TypeOK, HandlerTypeOK, Local
  <2>3. ~(local[q].camp = c /\ local[q].fanout = n)
    BY <2>1 DEF ToldInv, Leaves, c, n
  <2>4. \A o \in Outcomes : <<local[q].fanout, o>> \notin told'[local[q].camp]
    BY <1>3, <2>1, <2>2, <2>3 DEF ToldInv
  <2>5. \A r \in Proc \ {q} : AtWork(r)' => AtWork(r) /\ local'[r] = local[r]
    BY <1>1, <1>2
  <2> QED
    BY <1>2, <2>1, <2>4, <2>5 DEF ToldInv
<1> QED
  BY <1>4, <1>5, <1>6 DEF ToldInv

LEMMA ToldNext == TypeOK /\ ToldInv /\ [Next]_vars => ToldInv'
<1> SUFFICES ASSUME TypeOK, ToldInv, [Next]_vars PROVE ToldInv'
  OBVIOUS
<1>1. faults \in Nat /\ faults' \in Nat /\ faults' >= faults
  BY FaultsAdd DEF TypeOK, QueueTypeOK
<1> QED
  BY <1>1, SendKinds, ToldGoesOn, ToldBegins, ToldLeaves

(* Of each send of a campaign that nobody is at work on any more, the      *)
(* creator was told one outcome and no other, for any number of handlers   *)
(* that send it at once; he was told none only after a failure.            *)
THEOREM EverySendIsTold == Spec => []CreatorIsTold
<1>1. Init => ToldInv
  BY DEF Init, ToldInv, CreatorIsTold, AtWork
<1>2. ToldInv => CreatorIsTold
  BY DEF ToldInv
<1> QED
  BY <1>1, <1>2, ToldNext, TypeCorrect, PTL DEF Spec

-----------------------------------------------------------------------------
(* Deleted campaigns.  Only a campaign that was created is deleted, and no *)
(* step takes its status back to that of no row: so Create, which does not *)
(* look at the flag, cannot touch a deleted one.                           *)

DeletedInv == \A c \in Campaign : row[c].deleted => row[c].status # "NONE"

LEMMA DeletedNext == TypeOK /\ DeletedInv /\ [Next]_vars => DeletedInv'
<1> SUFFICES ASSUME TypeOK, DeletedInv, [Next]_vars, NEW c \in Campaign
             PROVE  /\ row[c].status # "NONE" => row'[c].status # "NONE"
                    /\ row'[c].deleted => row[c].deleted \/ row[c].status # "NONE"
  BY DEF DeletedInv
<1>0. /\ row \in [Campaign -> Row]
      /\ \A p \in Proc : pc[p] \notin {"idle", "claim"} => local[p].camp \in Campaign
      /\ \A p \in Proc : \A b \in batch[p] : b.camp \in Campaign
      /\ Admin \subseteq Proc /\ Cron \subseteq Proc
  BY DEF TypeOK, TableTypeOK, HandlerTypeOK, Proc
<1>1. CASE row' = row
  BY <1>1
<1>2. ASSUME NEW d \in Campaign, NEW status \in Status \ {"NONE"}, SetStatus(d, status)
      PROVE  row'[c].deleted = row[c].deleted
             /\ row'[c].status \in {row[c].status, status}
  BY <1>0, <1>2 DEF SetStatus, Row
<1>3. ASSUME NEW d \in Campaign, Create(d) \/ Delete(d) \/ TimePasses(d)
      PROVE  /\ row[c].status # "NONE" => row'[c].status # "NONE"
             /\ row'[c].deleted => row[c].deleted \/ row[c].status # "NONE"
  <2>1. CASE Create(d)
    BY <1>2, <2>1 DEF Create, Status
  <2>2. CASE Delete(d)
    BY <1>0, <2>2 DEF Delete, Found, Row
  <2>3. CASE TimePasses(d)
    BY <1>0, <2>3 DEF TimePasses, Row
  <2> QED
    BY <1>3, <2>1, <2>2, <2>3
<1>4. ASSUME NEW a \in Admin, RequestStep(a), row' # row
      PROVE  /\ row[c].status # "NONE" => row'[c].status # "NONE"
             /\ row'[c].deleted => row[c].deleted \/ row[c].status # "NONE"
  <2>1. CASE UpdateWrite(a)
    BY <1>0, <2>1 DEF UpdateWrite, Row
  <2>2. CASE ScheduleWrite(a)
    BY <1>0, <2>2 DEF ScheduleWrite, Row
  <2>3. CASE SendMark(a)
    BY <1>0, <1>2, <2>3 DEF SendMark, Begin, Status
  <2> QED
    BY <1>4, <2>1, <2>2, <2>3 DEF RequestStep, UpdateRead, ScheduleRead, SendRead, Read
<1>5. ASSUME NEW k \in Cron, CronStep(k), row' # row
      PROVE  /\ row[c].status # "NONE" => row'[c].status # "NONE"
             /\ row'[c].deleted => row[c].deleted \/ row[c].status # "NONE"
  <2>1. PICK b \in batch[k] : SetStatus(b.camp, "SENDING")
    BY <1>5 DEF CronStep, CronScan, CronClaim, CronSkip, Begin
  <2>2. b.camp \in Campaign
    BY <1>0
  <2>3. "SENDING" \in Status \ {"NONE"}
    BY DEF Status
  <2> QED
    BY <1>2, <2>1, <2>2, <2>3
<1>6. ASSUME NEW p \in Proc, FanOutStep(p), row' # row
      PROVE  /\ row[c].status # "NONE" => row'[c].status # "NONE"
             /\ row'[c].deleted => row[c].deleted \/ row[c].status # "NONE"
  <2>1. CASE FanCount(p)
    BY <1>0, <2>1 DEF FanCount, Row
  <2>2. CASE Finish(p) \/ Fail(p)
    BY <1>0, <1>2, <2>2 DEF Finish, Fail, Status
  <2> QED
    BY <1>6, <2>1, <2>2
    DEF FanOutStep, FanSelect, FanCreate, FanLoad, FanQueue, FanQueued, FanMisses, Tell
<1> QED
  BY <1>1, <1>3, <1>4, <1>5, <1>6
  DEF Next, TableStep, AudienceStep, Subscribe, Unsubscribe, PurgeSubscriber, Failure,
      FanThrows, TellLost, Die, MailStep, campaignVars, vars

(* Whoever has no hand in c leaves its jobs alone. *)
LEMMA JobsLeftAlone ==
  ASSUME TypeOK, [Next]_vars, NEW c \in Campaign, \A p \in Proc : local[p].camp # c
  PROVE  JobKeys(c)' \subseteq JobKeys(c)
<1>1. ASSUME NEW k \in jobs', k.camp = c
      PROVE  \E j \in jobs : j.camp = c /\ j.sub = k.sub /\ j.fanout = k.fanout
  <2>1. CASE Aside \/ \E p \in Proc : \E d \in Campaign : \E v \in Nat : Started(p, d, v)
    BY <1>1, <2>1 DEF Aside, Started
  <2>2. ASSUME NEW p \in Proc, FanQueue(p) PROVE k \in jobs
    BY <1>1, <2>2 DEF FanQueue, Enqueue, NewJob
  <2>3. ASSUME NEW p \in Proc, Inside(p) PROVE k \in jobs
    BY <1>1, <2>2, <2>3
    DEF Inside, FanSelect, FanCreate, FanLoad, FanQueued, FanCount, Finish, queueVars
  <2>4. CASE MailStep
    BY <1>1, <2>4, WorkerEffect DEF MailStep, SameData
  <2> QED
    BY <1>1, <2>1, <2>3, <2>4, Kinds
<1> QED
  BY <1>1 DEF JobKeys

(* Nobody has c in hand. *)
HandsOff(c) == \A p \in Proc : local[p].camp # c /\ \A b \in batch[p] : b.camp # c

(* What the claim is about, for the row of c alone. *)
LeftAlone(c) ==
  /\ HandsOff(c)'
  /\ row'[c].status = row[c].status
  /\ row'[c].version = row[c].version
  /\ row'[c].count = row[c].count

LEMMA DeletedStep ==
  ASSUME TypeOK, [Next]_vars, NEW c \in Campaign,
         row[c].deleted, row[c].status # "NONE", HandsOff(c)
  PROVE  LeftAlone(c)
<1>0. /\ row \in [Campaign -> Row]
      /\ local \in [Proc -> Local]
      /\ batch \in [Proc -> SUBSET [camp : Campaign, version : Nat]]
      /\ \A p \in Proc : pc[p] \notin {"idle", "claim"} => local[p].camp \in Campaign
      /\ Admin \subseteq Proc /\ Cron \subseteq Proc
      /\ NoCampaign # c
  BY CampaignsAssumption DEF TypeOK, TableTypeOK, HandlerTypeOK, Proc
<1>1. ~Found(c) /\ c \notin Due
  BY DEF Found, Due
<1>2. \A p \in Proc : local[p].camp # c /\ \A b \in batch[p] : b.camp # c
  BY DEF HandsOff
<1>3. ASSUME NEW d \in Campaign \ {c}, NEW v, row' = [row EXCEPT ![d] = v]
      PROVE  row'[c] = row[c]
  BY <1>0, <1>3
<1>4. ASSUME NEW p \in Proc, NEW v, Hold(p, v), v.camp # c, batch' = batch, row'[c] = row[c]
      PROVE  LeftAlone(c)
  BY <1>0, <1>2, <1>4 DEF Hold, LeftAlone, HandsOff
<1>5. ASSUME UNCHANGED <<local, batch>>, row'[c] = row[c]
      PROVE  LeftAlone(c)
  BY <1>2, <1>5 DEF LeftAlone, HandsOff
<1>6. Blank.camp # c
  BY <1>0 DEF Blank
<1>7. CASE UNCHANGED vars \/ AudienceStep \/ MailStep
  BY <1>5, <1>7
  DEF vars, campaignVars, AudienceStep, Subscribe, Unsubscribe, PurgeSubscriber, MailStep
<1>8. CASE TableStep
  <2>1. PICK d \in Campaign : Create(d) \/ Delete(d) \/ TimePasses(d)
    BY <1>8 DEF TableStep
  <2>2. CASE d = c
    <3>1. TimePasses(c)
      BY <1>1, <2>1, <2>2 DEF Create, Delete
    <3> QED
      BY <1>0, <1>2, <3>1 DEF TimePasses, Row, LeftAlone, HandsOff
  <2>3. CASE d # c
    <3>1. row'[c] = row[c]
      BY <1>0, <2>1, <2>3 DEF Create, Delete, TimePasses, SetStatus
    <3> QED
      BY <1>5, <2>1, <3>1 DEF Create, Delete, TimePasses
  <2> QED
    BY <2>2, <2>3
<1>9. ASSUME NEW a \in Admin, RequestStep(a) PROVE LeftAlone(c)
  <2>1. ASSUME NEW d \in Campaign, NEW statuses, NEW next, Read(a, d, statuses, next)
        PROVE  LeftAlone(c)
    <3>1. d # c
      BY <1>1, <2>1 DEF Read
    <3>2. [Blank EXCEPT !.camp = d, !.version = row[d].version].camp = d
      BY DEF Blank
    <3> QED
      BY <1>0, <1>4, <2>1, <3>1, <3>2 DEF Read
  <2>2. CASE UpdateWrite(a) \/ ScheduleWrite(a)
    <3>1. row'[c] = row[c]
      BY <1>0, <1>2, <2>2 DEF UpdateWrite, ScheduleWrite
    <3> QED
      BY <1>0, <1>4, <1>6, <2>2, <3>1 DEF UpdateWrite, ScheduleWrite, Return
  <2>3. CASE SendMark(a)
    <3> DEFINE d == local[a].camp
    <3>1. row'[c] = row[c]
      BY <1>0, <1>2, <2>3 DEF SendMark, Begin, SetStatus
    <3>2. [Blank EXCEPT !.camp = d, !.version = local[a].version, !.fanout = fanouts[d] + 1].camp = d
      BY DEF Blank
    <3>3. d # c /\ a \in Proc
      BY <1>0, <1>2
    <3> QED
      BY <1>4, <2>3, <3>1, <3>2, <3>3 DEF SendMark, Begin
  <2> QED
    BY <1>9, <2>1, <2>2, <2>3 DEF RequestStep, UpdateRead, ScheduleRead, SendRead
<1>10. ASSUME NEW k \in Cron, CronStep(k) PROVE LeftAlone(c)
  <2>1. CASE CronScan(k)
    <3>1. \A b \in {[camp |-> d, version |-> row[d].version] : d \in Due} : b.camp # c
      BY <1>1
    <3>2. \A p \in Proc : \A b \in batch'[p] : b.camp # c
      BY <1>0, <1>2, <2>1, <3>1 DEF CronScan
    <3> QED
      BY <1>2, <2>1, <3>2 DEF CronScan, LeftAlone, HandsOff
  <2>2. CASE CronClaim(k)
    <3>1. PICK b \in batch[k] : /\ batch' = [batch EXCEPT ![k] = @ \ {b}]
                                /\ Begin(k, b.camp, b.version)
      BY <2>2 DEF CronClaim
    <3>2. b.camp # c /\ k \in Proc
      BY <1>0, <1>2
    <3>3. row'[c] = row[c]
      BY <1>0, <3>1, <3>2 DEF Begin, SetStatus
    <3>4. [Blank EXCEPT !.camp = b.camp, !.version = b.version,
                        !.fanout = fanouts[b.camp] + 1].camp = b.camp
      BY DEF Blank
    <3>5. \A p \in Proc : local'[p].camp # c
      BY <1>0, <1>2, <3>1, <3>2, <3>4 DEF Begin, Hold
    <3>6. \A p \in Proc : batch'[p] \subseteq batch[p]
      BY <1>0, <3>1
    <3> QED
      BY <1>2, <3>3, <3>5, <3>6 DEF LeftAlone, HandsOff
  <2>3. CASE CronSkip(k)
    <3>1. \A p \in Proc : batch'[p] \subseteq batch[p]
      BY <1>0, <2>3 DEF CronSkip
    <3> QED
      BY <1>2, <2>3, <3>1 DEF CronSkip, LeftAlone, HandsOff
  <2> QED
    BY <1>10, <2>1, <2>2, <2>3 DEF CronStep
<1>11. ASSUME NEW p \in Proc, Inside(p) PROVE LeftAlone(c)
  <2>1. \A q \in Proc : local'[q].camp # c
    BY <1>2, <1>11, InsideEffect DEF SameFanOut, OthersStay
  <2>2. batch' = batch
    BY <1>11 DEF Inside, FanSelect, FanCreate, FanLoad, FanQueue, FanQueued, FanCount, Finish
  <2>3. row'[c] = row[c]
    <3>1. CASE FanCount(p) \/ Finish(p)
      BY <1>0, <1>2, <3>1 DEF FanCount, Finish, SetStatus
    <3> QED
      BY <1>11, <3>1 DEF Inside, FanSelect, FanCreate, FanLoad, FanQueue, FanQueued
  <2> QED
    BY <1>2, <2>1, <2>2, <2>3 DEF LeftAlone, HandsOff
<1>12. ASSUME NEW p \in Proc, Fail(p) \/ Tell(p) PROVE LeftAlone(c)
  <2>1. CASE Fail(p)
    <3>1. row'[c] = row[c]
      BY <1>0, <1>2, <2>1 DEF Fail, SetStatus
    <3> QED
      BY <1>5, <2>1, <3>1 DEF Fail
  <2> QED
    BY <1>4, <1>6, <1>12, <2>1 DEF Tell, Return
<1>13. ASSUME NEW p \in Proc, FanMisses(p) \/ FanThrows(p) \/ TellLost(p) \/ Die(p)
      PROVE  LeftAlone(c)
  <2>1. CASE Die(p)
    <3>1. \A q \in Proc : batch'[q] \subseteq batch[q] /\ local'[q].camp # c
      BY <1>0, <1>2, <1>6, <2>1 DEF Die, Hold
    <3> QED
      BY <1>2, <2>1, <3>1 DEF Die, LeftAlone, HandsOff
  <2> QED
    BY <1>4, <1>5, <1>6, <1>13, <2>1 DEF FanMisses, FanThrows, TellLost, Return
<1> QED
  BY <1>7, <1>8, <1>9, <1>10, <1>11, <1>12, <1>13 DEF Next, FanOutStep, Inside, Failure

(* A campaign that is deleted while no handler has it in hand stays as it  *)
(* is: neither the requests, which look for deleted rows before they read, *)
(* nor the claim of the cron job, which does not, take it up again.        *)
THEOREM DeletedStaysDeleted == Spec => DeletedIsLeftAlone
<1>1. Init => DeletedInv
  BY DEF Init, DeletedInv
<1>2. ASSUME TypeOK, RowsInv, DeletedInv, [Next]_vars
      PROVE  \A c \in Campaign :
               (row[c].deleted /\ ~InHand(c)) =>
                   /\ ~InHand(c)'
                   /\ row'[c].status = row[c].status
                   /\ row'[c].version = row[c].version
                   /\ row'[c].count = row[c].count
                   /\ Rows(c)' \subseteq Rows(c)
                   /\ JobKeys(c)' \subseteq JobKeys(c)
  <2> SUFFICES ASSUME NEW c \in Campaign, row[c].deleted, ~InHand(c)
               PROVE  /\ ~InHand(c)'
                      /\ row'[c].status = row[c].status
                      /\ row'[c].version = row[c].version
                      /\ row'[c].count = row[c].count
                      /\ Rows(c)' \subseteq Rows(c)
                      /\ JobKeys(c)' \subseteq JobKeys(c)
    OBVIOUS
  <2>1. HandsOff(c) /\ row[c].status # "NONE"
    BY <1>2 DEF InHand, HandsOff, DeletedInv
  <2>2. LeftAlone(c)
    BY <1>2, <2>1, DeletedStep
  <2>3. Rows(c)' \subseteq Rows(c)
    BY <1>2, <2>1, RowsEffect DEF HandsOff
  <2>4. JobKeys(c)' \subseteq JobKeys(c)
    BY <1>2, <2>1, JobsLeftAlone DEF HandsOff
  <2> QED
    BY <2>2, <2>3, <2>4 DEF LeftAlone, HandsOff, InHand
<1>3. TypeOK /\ RowsInv /\ DeletedInv /\ [Next]_vars =>
        [\A c \in Campaign :
           (row[c].deleted /\ ~InHand(c)) =>
               /\ ~InHand(c)'
               /\ row'[c].status = row[c].status
               /\ row'[c].version = row[c].version
               /\ row'[c].count = row[c].count
               /\ Rows(c)' \subseteq Rows(c)
               /\ JobKeys(c)' \subseteq JobKeys(c)]_vars
  BY <1>2
<1> QED
  BY <1>1, <1>3, DeletedNext, RowsHold, TypeCorrect, PTL DEF Spec, DeletedIsLeftAlone

-----------------------------------------------------------------------------
(* Why jobs end.  That they do (JobsEnd) rests on the fairness of workers  *)
(* and is left to TLC; here is the half of the argument that is about      *)
(* single steps: every step of a worker, those that fail included, takes   *)
(* something from the job's rank, which is a natural number, and no other  *)
(* step changes the job.                                                   *)

(* The awaits that an attempt has still ahead of it. *)
Ahead == [waiting |-> 3, active |-> 2, accepted |-> 1, failing |-> 0]

(* An attempt or a stall used up weighs more than the awaits of one.       *)
Rank(j) == 4 * ((Attempts - 1 - j.tries) + (MaxStalls - j.stalls)) + Ahead[j.pc]

WearsOut(j, k) == SameData(j, k) /\ Rank(k) < Rank(j)

LEMMA RankIsNatural == \A j \in Job : Rank(j) \in Nat
  BY QueueAssumption DEF Job, Rank, Ahead

(* A step within an attempt, and the end of one. *)
LEMMA RankFalls ==
  ASSUME NEW j \in Job
  PROVE  /\ \A pc_ \in {"waiting", "active", "accepted", "failing"} :
              Ahead[pc_] < Ahead[j.pc] => WearsOut(j, [j EXCEPT !.pc = pc_])
         /\ WearsOut(j, [j EXCEPT !.pc = "waiting", !.tries = @ + 1])
         /\ WearsOut(j, [j EXCEPT !.pc = "waiting", !.stalls = @ + 1])
<1>0. /\ j.tries \in Nat /\ j.stalls \in Nat
      /\ j.pc \in {"waiting", "active", "accepted", "failing"}
      /\ Attempts \in Nat /\ MaxStalls \in Nat
  BY QueueAssumption DEF Job
<1>a. PICK a \in 0 .. 3 : a = Ahead[j.pc] /\ Ahead["waiting"] = 3
  BY <1>0 DEF Ahead
<1>b. Rank(j) = 4 * ((Attempts - 1 - j.tries) + (MaxStalls - j.stalls)) + a
  BY <1>a DEF Rank
<1>1. ASSUME NEW x \in {"waiting", "active", "accepted", "failing"}, Ahead[x] < Ahead[j.pc]
      PROVE  WearsOut(j, [j EXCEPT !.pc = x])
  <2> DEFINE k == [j EXCEPT !.pc = x]
  <2>1. SameData(j, k) /\ k.pc = x /\ k.tries = j.tries /\ k.stalls = j.stalls
    BY DEF Job, SameData
  <2> HIDE DEF k
  <2>2. WearsOut(j, k)
    <3>1. PICK b \in 0 .. 3 : b = Ahead[x]
      BY DEF Ahead
    <3>2. Rank(k) = 4 * ((Attempts - 1 - j.tries) + (MaxStalls - j.stalls)) + b
      BY <2>1, <3>1 DEF Rank
    <3>3. b < a
      BY <1>1, <1>a, <3>1
    <3>4. Rank(k) < Rank(j)
      BY <1>0, <1>b, <3>2, <3>3
    <3> QED
      BY <2>1, <3>4 DEF WearsOut
  <2> QED
    BY <2>2 DEF k
<1>2. WearsOut(j, [j EXCEPT !.pc = "waiting", !.tries = @ + 1])
  <2> DEFINE k == [j EXCEPT !.pc = "waiting", !.tries = @ + 1]
  <2>1. SameData(j, k) /\ k.pc = "waiting" /\ k.tries = j.tries + 1 /\ k.stalls = j.stalls
    BY DEF Job, SameData
  <2> HIDE DEF k
  <2>2. WearsOut(j, k)
    <3>1. Rank(k) = 4 * ((Attempts - 1 - (j.tries + 1)) + (MaxStalls - j.stalls)) + 3
      BY <1>a, <2>1 DEF Rank
    <3>2. Rank(k) < Rank(j)
      BY <1>0, <1>b, <3>1
    <3> QED
      BY <2>1, <3>2 DEF WearsOut
  <2> QED
    BY <2>2 DEF k
<1>3. WearsOut(j, [j EXCEPT !.pc = "waiting", !.stalls = @ + 1])
  <2> DEFINE k == [j EXCEPT !.pc = "waiting", !.stalls = @ + 1]
  <2>1. SameData(j, k) /\ k.pc = "waiting" /\ k.tries = j.tries /\ k.stalls = j.stalls + 1
    BY DEF Job, SameData
  <2> HIDE DEF k
  <2>2. WearsOut(j, k)
    <3>1. Rank(k) = 4 * ((Attempts - 1 - j.tries) + (MaxStalls - (j.stalls + 1))) + 3
      BY <1>a, <2>1 DEF Rank
    <3>2. Rank(k) < Rank(j)
      BY <1>0, <1>b, <3>1
    <3> QED
      BY <2>1, <3>2 DEF WearsOut
  <2> QED
    BY <2>2 DEF k
<1> QED
  BY <1>1, <1>2, <1>3

LEMMA WorkerWearsOut ==
  ASSUME TypeOK, NEW j \in jobs, WorkerStep(j) \/ WorkerFault(j)
  PROVE  jobs' = jobs \ {j} \/ \E k : WearsOut(j, k) /\ jobs' = (jobs \ {j}) \cup {k}
<1>0. j \in Job
  BY DEF TypeOK, QueueTypeOK
<1>1. ASSUME NEW x \in {"active", "accepted", "failing"}, Ahead[x] < Ahead[j.pc],
             Replace(j, [j EXCEPT !.pc = x])
      PROVE  \E k : WearsOut(j, k) /\ jobs' = (jobs \ {j}) \cup {k}
  BY <1>0, <1>1, RankFalls DEF Replace
<1>2. CASE Take(j)
  BY <1>1, <1>2 DEF Take, Ahead
<1>3. CASE SendResolves(j)
  BY <1>1, <1>3 DEF SendResolves, Ahead
<1>4. CASE SendThrows(j)
  BY <1>1, <1>4 DEF SendThrows, Ahead
<1>5. CASE MarkSentThrows(j) \/ MarkSentMisses(j)
  BY <1>1, <1>5 DEF MarkSentThrows, MarkSentMisses, Ahead
<1>6. CASE MarkSent(j)
  BY <1>6 DEF MarkSent, Complete
<1>7. CASE MarkFailed(j) \/ MarkFailedMisses(j) \/ MarkFailedThrows(j)
  BY <1>0, <1>7, RankFalls DEF MarkFailed, MarkFailedMisses, MarkFailedThrows, Retry, Replace
<1>8. CASE WorkerDies(j)
  BY <1>0, <1>8, RankFalls DEF WorkerDies, Replace
<1> QED
  BY <1>2, <1>3, <1>4, <1>5, <1>6, <1>7, <1>8 DEF WorkerStep, WorkerFault

(* Each step leaves a job in the queue as it is, takes it out, or puts it  *)
(* back with the same data and a lower rank: no retry, stall or failed     *)
(* update keeps a job going for ever, for any number of attempts and       *)
(* stalls.                                                                 *)
THEOREM JobsWearOut ==
  Spec => [][\A j \in jobs :
               \/ j \in jobs'
               \/ jobs' = jobs \ {j}
               \/ \E k \in Job : WearsOut(j, k) /\ jobs' = (jobs \ {j}) \cup {k}]_vars
<1>1. ASSUME TypeOK, [Next]_vars
      PROVE  \A j \in jobs :
               \/ j \in jobs'
               \/ jobs' = jobs \ {j}
               \/ \E k \in Job : WearsOut(j, k) /\ jobs' = (jobs \ {j}) \cup {k}
  <2>1. CASE Aside \/ \E p \in Proc : \E c \in Campaign : \E v \in Nat : Started(p, c, v)
    BY <2>1 DEF Aside, Started
  <2>2. ASSUME NEW p \in Proc, Inside(p) PROVE jobs \subseteq jobs'
    BY <2>2 DEF Inside, FanSelect, FanCreate, FanLoad, FanQueue, FanQueued, FanCount, Finish,
                Enqueue, queueVars
  <2>3. CASE MailStep
    <3>1. PICK i \in jobs : WorkerStep(i) \/ WorkerFault(i)
      BY <2>3 DEF MailStep
    <3>2. jobs' = jobs \ {i} \/ \E k \in Job : WearsOut(i, k) /\ jobs' = (jobs \ {i}) \cup {k}
      <4>1. jobs' \subseteq Job
        BY <1>1, NextType DEF TypeOK, QueueTypeOK
      <4> QED
        BY <1>1, <3>1, <4>1, WorkerWearsOut
    <3> QED
      BY <3>2
  <2> QED
    BY <1>1, <2>1, <2>2, <2>3, Kinds
<1>2. TypeOK /\ [Next]_vars =>
        [\A j \in jobs :
           \/ j \in jobs'
           \/ jobs' = jobs \ {j}
           \/ \E k \in Job : WearsOut(j, k) /\ jobs' = (jobs \ {j}) \cup {k}]_vars
  BY <1>1
<1> QED
  BY <1>2, TypeCorrect, PTL DEF Spec
=============================================================================
