# TLA+ models of the NestJS GraphQL backend

This directory holds TLA+ modules that model the parts of this backend whose
correctness depends on the order of things: requests that read a row in one `await`
and write it in a later one, jobs that are retried, a cron job that every replica
fires, processes that die half way. TLC checks them on small instances; TLAPS proves
the most important results for every value of the constants.

    tlc -config MCCampaigns_races.cfg MCCampaigns     # a run
    tlapm CampaignsProofs.tla                         # the proofs

`PROJECT.json` lists the components, the runs, the lines of the source that each
definition models, a plausible bug ("mutant") that breaks each property, the hazards of
the code, the findings and the theorems.

Contents: 1 the system, 2 the modules, 3 the runs, 4 the proofs, 5 findings, 6 remarks
on the code, 7 what is not modelled, 8 the plan.


## 1. The system

A NestJS application (`src/src`) with a GraphQL and a REST interface, PostgreSQL through
Prisma, a BullMQ queue for mail, and object storage. Any number of replicas may run.
Inside a replica JavaScript is single-threaded: code between two `await`s is atomic, and
everything else may happen at an `await`. No service uses a database transaction or a row
lock; what is atomic is one Prisma call. This is the grain of every model: **one action
for each await**.

Two Prisma clients matter. `prisma.db` is extended (`base-model.extension.ts`):
`findFirst`, `findMany` and `count` do not return rows with `isDeleted`, while `update`,
`updateMany`, `deleteMany` and `findUnique` are not filtered. `prisma.dbRaw` filters
nothing. Hence a row that a request found can be updated after it was soft-deleted, and
an update of a row that is gone fails (P2025).

| component | state | operations | interacts with | hard part | correct when |
|---|---|---|---|---|---|
| campaigns (`campaigns/`) | `campaigns`, `campaign_recipients` | create, update, delete, schedule, send; cron every minute; fan-out | newsletter (audience), mail queue (`queue.add`), notifications (outcome) | check and write are separate awaits; overlapping cron invocations; a fan-out that throws or dies | one send per schedule; no campaign or recipient stranded; everyone gets the same text; the creator hears of the end |
| mail queue (`mail/`) | BullMQ jobs, `campaign_recipients.status` | add, take, send, mark, retry, stall | campaigns, the transports | at-least-once delivery, retries after the message is out, worker and fan-out write one row | bounded duplicates; SENT only for what was sent; jobs end |
| newsletter (`newsletter/`) | `newsletter_subscribers` | subscribe, unsubscribe | campaigns, mail queue | three awaits in each, unique row per user | the confirmation says what the row says; the audience is who subscribed |
| sessions (`auth/session.repository.ts`, `auth.service.ts`) | `sessions` | issue, refresh (rotate), revoke, logout, logout-all, expiry, purge | accounts, retention | find-then-revoke-then-issue under concurrent use of one token | a rotated token is dead; reset and logout-all end sessions |
| accounts (`auth.service.ts`, `users/`) | `users` | register, verify, resend, login with lockout, OAuth sign-in, admin create, change and reset password, update, delete; nightly cleanup | mail queue, sessions, permissions, storage | lockout counter in three awaits; cleanup against verification | bounded guessing; verified on evidence and then kept; addresses come free |
| permissions and roles (`permissions/`, `roles/`) | `roles`, `permissions`, a cache in each process | check (read through), invalidate, edit role, assign | accounts, every guarded request | a read that fills the cache with what an invalidation just removed; other replicas | a change is effective within a bounded time |
| storage and avatars (`storage/`, `users.service.ts`) | `files`, blobs | upload, delete, replace avatar, purge | accounts, retention | blob and row are written in two steps | no listed file without its blob; blobs go in the end |
| notifications (`notifications/`) | `notifications` | notify, list, mark read, mark all | campaigns, accounts, realtime | insert, then push, errors swallowed | stored before pushed; read marks stay |
| realtime gateway (`events/`) | sockets, rooms | connect (asynchronous token check), disconnect, emit | notifications | disconnect during the check; room names | only authenticated sockets receive, in their own room |
| retention (`retention/`) | none | daily: expired sessions, soft-deleted rows, page views | all tables, storage | runs beside everything else; one step failing | removes only what is due, and all of it |
| visitors (`visitors/`) | `page_views`, `daily_visitor_stats` | track, aggregate (daily), prune | retention | aggregation window and time zone, aggregation before pruning | each view is counted once before it goes |
| database access (`common/repositories`, `prisma/`) | none | filtered finds, raw updates, soft delete, hashing | all | which calls filter deleted rows | as used in the modules |
| guards, strategies, context (`auth/guards`, `auth/strategies`, `common/context`, `common/interceptors`) | `req.user`, the context of a handler | token check, permission check, handing the user to the handler | accounts, permissions, every handler | the fields of a document share one request | a handler runs as the user of its request |
| resolvers, controllers, DTOs | the `oauth_state` cookie | validate, pass on; redirect to Google and back | all | a callback opened twice or elsewhere | tokens go to the browser that asked |
| configuration, i18n, filters, health, migrations | none | start-up, wording, formatting | | none | n/a |

How they interact: a request enters a resolver or controller, passes the guards and calls
one service. Services call each other directly (`campaigns -> notifications -> events
gateway`, `users -> permissions, storage`), share tables, and meet asynchronously in two
places only: the mail queue, and the cron jobs (campaigns each minute, account cleanup at
midnight, visitor statistics at midnight, retention at three), which run on every
replica without a lock.


## 2. The modules

| module | models | extends |
|---|---|---|
| `MailQueue` | campaign jobs of the BullMQ queue and the worker that processes them | |
| `Campaigns` | campaigns from draft to SENT or FAILED, fan-out, cron, composed with the mail worker on the same recipient rows | `MailQueue` |
| `CampaignsProofs` | theorems about `Campaigns` | `Campaigns` |
| `Sessions` | refresh sessions of one account | |
| `SessionsProofs` | theorems about `Sessions` | `Sessions` |
| `Accounts` | the account behind one e-mail address | |
| `AccountsProofs` | theorems about `Accounts` | `Accounts` |
| `Permissions` | one permission of one user in the caches of all replicas | |
| `StaleView` | abstract: a view of a changing fact that is never older than a window | |
| `PermissionsProofs` | theorems about `Permissions`, and that it implements `StaleView` | `Permissions` |
| `Storage` | rows and blobs of uploaded files, avatars, and the nightly purge | |
| `StorageProofs` | theorems about `Storage` | `Storage` |
| `Visitors` | page views, their daily count and their pruning | |
| `Inbox` | notifications, their lists and read marks, sockets and rooms | |
| `InboxProofs` | theorems about `Inbox` | `Inbox` |
| `Newsletter` | the subscription of one user and its confirmation mails | |
| `Passwords` | the password of one account under changes and resets | |
| `OAuth` | signing in with Google, from the redirect to the tokens | |
| `SigninProofs` | theorems about `Passwords`, `OAuth` and `Requests` | all three |
| `Requests` | guards, `req.user` and the context of the handlers of a request | |
| `MCCampaigns`, `MCSessions`, `MCPermissions` | symmetry sets for TLC | the module itself |
| `MCAccounts` | `Accounts`, with guessing and verifying explored one at a time | `Accounts` |
| `MCStorage` | `Storage`, with purges and avatars explored one at a time | `Storage` |
| `MCServices` | `Inbox`, `Newsletter`, `Passwords`, `OAuth`, `Requests`, `Visitors`, each explored apart | all six |
| `ServicesProofs` | theorems about `Newsletter` and `Visitors`, and the types of the six components | `MCServices`, `InboxProofs`, `SigninProofs` |

Conventions. `pc[h]` is the await that handler `h` is about to perform, `local[h]` what it
has read. `Return(h)` ends the handler. A definition `BugX` that precedes `X` is `X` with
a plausible bug; nothing refers to it, it is there to show that a property depends on `X`.
Variables that are marked *history* are not in the program; no guard reads them.

### MailQueue

`jobs` is the set of jobs BullMQ has not finished with: waiting, `active` (before
`sendMail`), `accepted` (`sendMail` resolved, before the update to SENT) or `failing` (in
the catch block). `Take` lets a free worker take any waiting job: back-off reorders
retries and replicas compete. `SendResolves` and `SendThrows` have the outcomes of the
three transports (`Transport`): nodemailer resolves when the server has accepted; the
Resend client resolves with an `error` member, which `process` does not look at; with no
transport `sendMail` logs and resolves. `MarkSent` is inside the same `try` as the send,
so its failure (`MarkSentThrows`) leads to the catch block although the message is out.
`MarkFailed` rethrows, and `Retry` uses an attempt. `WorkerDies` is BullMQ's stall
handling (external: modelled by what the options of the queue ask for). The row may have
been purged with its subscriber (`gone`): then the update to SENT throws, the one of the
catch block too (`MarkSentMisses`, `MarkFailedMisses`), and the message is sent again.

### Campaigns

A *process* is one running handler: an administrator's request (`Admin`) or an invocation
of the cron job (`Cron`). `row` is the campaigns table, `rcpt` the recipients, `active`
the audience, `told` what the creator was told of which fan-out. `version` stands for
subject and bodies, `due` for `scheduledAt <= now`.

| code | actions |
|---|---|
| `updateCampaign`, `scheduleCampaign`, `sendCampaign` | `UpdateRead`, `ScheduleRead`, `SendRead` (read and status check), then `UpdateWrite`, `ScheduleWrite`, `SendMark` (the update, by id alone) |
| `processScheduledCampaigns` | `CronScan`, then `CronClaim` (conditional update) or `CronSkip` for each campaign found |
| `fanOutCampaign` | `FanSelect`, `FanCreate`, `FanLoad`, for each row `FanQueue` and `FanQueued`, then `FanCount` |
| a subscriber who was purged since | `FanMisses`: the insert or the update of the fan-out throws |
| the rest of a send | `Finish`, or `FanThrows` and `Fail`; then `Tell` or `TellLost` |
| a crash, an uncaught throw | `Die` |

`Delete`, `Create` and the newsletter's `Subscribe`/`Unsubscribe` are one action each:
what they read cannot change in a way their write depends on. `PurgeSubscriber` is the
nightly purge of a user (`retention.service.ts:62`): the cascades of the schema take his
subscription and every recipient row, whatever is being done with them.

### Sessions

One user. `sess` is the table, where a row's state is live, expired, revoked
(soft-deleted) or purged. A `Handler` is one request: `Login` then `Issue`; `Refresh`
(token verified, session found), `RefreshUser` (the user is loaded), `Rotate` (the old
session is revoked) then `Issue`; `RevokeSession` then `RevokeOne`; `ResetPassword`,
`ResetWrite`, `ResetRevoke`. `Logout`, `LogoutAll`, `ForgotPassword` write once. Expiry
and the purge of expired rows may happen while a request holds the row; `Rotate` of a
purged row is P2025 and issues nothing. `crossed`, `stray`, `oldPw` and `late` are history
that says on which check a session relies.

### Accounts

One e-mail address and the successive rows (`gen` stands for `uniqueId`) that have it.
Finds are filtered (`Found`), updates are not (`Reaches`).

| code | actions |
|---|---|
| `registerUser` | `RegisterRead`, `RegisterCreate` (fails on the unique address), `MailToken` |
| `UsersService.createUser`, `oauthLogin` of an unknown address | `CreateRead`, `CreateVerified` |
| `verifyEmail`, `oauthLogin` of an unverified account | `VerifyRead`, `OAuthRead`, then `VerifyWrite` |
| `resendVerification` | `ResendRead`, `ResendWrite`, `MailToken` |
| `login` | wrong password: `LoginWrong`, `LoginCount`, `LoginLock`; right password: `LoginRight`, `LoginClear` |
| time | `WindowEnds` (seven days), `LockEnds` (fifteen minutes) |
| cron jobs | `Cleanup` (unverified and over), `Purge` (soft-deleted and old) |
| `deleteUser` | `Delete` |
| `updateUser` with an e-mail address | `ChangeEmail` |

`addr` counts the addresses the row has had; a token in the `inbox` is kept with the one
it was mailed to. `grounds` (history) records for each row what it was verified on, about
which address: `shown` by a token, an administrator or a provider that verified it, or
only `claimed`, because `oauthLogin` does not ask when the account exists. After a change
of address the module follows the account; requests for the former address, for which
there is no row then, are those of another instance.

A login that changes nothing (locked, not verified, no failed attempt before) is no step
of this module; what it issues is in `Sessions`.

### Permissions and StaleView

One permission of one user. The tables are what the answer depends on: which roles have
the permission (`granted`), the user's role, a direct grant, and whether the user is
soft-deleted. `cache[r]` is what replica `r` has stored for the user, with the ticks it
has left; `CacheModule.register` keeps it in the memory of the process.

| code | actions |
|---|---|
| `PermissionsGuard`, `getEffectivePermissions` | `Miss` (the cache has no entry), `Load` (the tables are read), `Store` (`cache.set`); an answer from the cache changes nothing and is part of `View` |
| `updateUser`, `assignRole`, `setPermissions` | `UserChange` (the update), then `Invalidate` (`cache.del`, on the replica that serves the request) |
| `updateRole` | `RoleChange` |
| `deleteUser` | `DeleteUser` |
| time, failures | `Tick`, `LoadThrows`, `Restart` |

`StaleView` says what a cache of a fact promises and nothing of how: the fact changes
(`Change`), time passes (`Elapse`), and views are lost or formed (`Look`), none of them
older than `Window`. The mapping takes as places the replicas (their entry) and the
requests between read and store (what they have read), as the fact `Effective`, and as
window the time to live plus `MaxRead`.


### Storage

`row` is the state of each file's row (`due`: soft-deleted longer than the retention
window), `blob` the files whose content the driver has, `avatar` the users' `avatarId`.

| code | actions |
|---|---|
| `StorageService.upload`, `uploadMany` | `PutBlob`, `CreateRow` |
| `deleteFile` | `GetFile` (`findUnique`: also a soft-deleted row), `Unlink` (the driver), `SoftDelete` |
| `UsersService.updateUser` with an avatar | `FindNewFile`, `FindCurrent`, `FindOld`, `Unlink`, `SoftDelete`, `Connect` |
| `purgeSoftDeletedBefore`, on each replica | `PurgeScan`, then for each file `PurgeUnlink`, `PurgeRemove`, or `PurgeSkips` (caught, logged, next one) |
| a throw or a crash | `Throw`, `CleanupDies` |
| `deleteUser`; the purge of users and of accounts never verified | `DeleteUser`, `PurgeUser` |
| time | `WindowPasses` |

`FindCurrent` does not find a soft-deleted user, and `Connect` updates him all the same:
the avatar he had is then never deleted, and neither is that of a user who is purged.
`stranded` and `crossed` (history) record both, and the races between two changes.

`driver` is chosen at the start. The local driver removes the file, and reports nothing
when it cannot (`DriverSwallows`); the S3 driver is given the URI that `put` returned as
key, for which S3 has no object and reports success (`DriverDeletes`).

### Visitors

The clock is UTC, of `Hours` ticks a day; the cron jobs of the replicas fire at the
server's midnight, which may be any UTC hour. `Track` and `Insert` are a page view
(stamped, then inserted), `JobBegins`, `CountViews`, `CountUnique`, `Upsert` the
aggregation of the UTC day before for each path, `Prune` the third step of the nightly
cleanup. `Tick` moves the clock; a job that dies is not repeated (`JobDies`), a midnight
that no job survives leaves its day `missed`. `window` is the retention, any number of
ticks in `Windows`: `env.validation.ts:52` accepts any number of days that is not
negative, fractions included, and 0 turns the pruning off.

### Inbox

A user has two keys (`Key`): the numeric id and the uniqueId, which is the `sub` of his
token. `OpenSocket`, `Verify` or `Refuse`, `CloseSocket` are the gateway's handlers, with
the token check as an await between the first two. `NotifyUser` and `EmitNote` are
`notify`. `AskList` begins `getMyNotifications`, whose three queries (`FindPage`,
`CountWanted`, `CountUnread`) run in any order; `AnswerList` answers. `FindNote` and
`MarkRead` are `markRead`, `MarkAllRead` the update of all. `ServerRestarts` closes every
socket and empties the map.

### Newsletter, Passwords, OAuth

`Newsletter`: `AskSubscribe` or `AskUnsubscribe`, `WriteSubscriber`, `ReadName`,
`QueueConfirmation`, each an await, and `NewsFails` at any of them.

`Passwords`: two parties know the password at first, the owner and somebody else who is
signed in. `AskForgot`, `SetResetToken`, `MailReset` (the job is queued), `SendReset` or
`DropReset` (the worker) are the way to a reset; `AskReset` and `WriteReset` the reset;
`AskChange` and `WriteChange` a change. `UpdateUser` is `updateUser` with a password, by
anybody whose account may call it: the old password is not asked for, and a reset token
stays valid. Passwords are told apart by who knows them.

`OAuth`: `GoogleStart` makes a state and sets the cookie of the browser; `Consent` is
Google's side; `GoogleCallback` compares, `ExchangeCode`, `FetchProfile` and `HandTokens`
go on, `RedirectFailed` and `CallbackFails` end without tokens. The cookie is cleared when
the response reaches the browser. Any browser may open any callback, any number of times.

### Requests

The operations are those of the resolvers and controllers, each with what the decorator
asks for (`public`, `user` or a permission), whether ADMIN passes by its name, and whether
the handler uses its user. `Call` is `JwtAuthGuard` up to the strategy, `Authenticate` the
strategy and `PermissionsGuard` up to the cache, `CheckPermission` the rest and
`RequestContextInterceptor`. The root fields of a query begin together, those of a
mutation one after the other; all share `reqUser`. What the permission check answers is
any of the two values: it is the subject of `Permissions`.


## 3. The runs

Deadlock is not checked: every model may stop, when the bounds on requests, rows or
tokens are used up and nobody is at work.

| run | instance | checks | states |
|---|---|---|---|
| `campaign_races` | 1 campaign, 2 subscribers, 2 administrators with a request each, 1 cron invocation, no fault | `TypeOK`, `SendingHasOwner`, `NoRowLeftPending`, `SameTextPerFanOut`, `CountMatchesRows`, `CreatorIsTold`, `DeletedIsLeftAlone` | 1,507,960 |
| `campaign_faults` | 1 campaign, 1 subscriber, 1 administrator, 2 cron invocations, 2 attempts, 1 stall, 2 faults | `SentMeansMailed`, `OneClaimPerSchedule`, `MailBudget`, `CreatorIsTold`, `DueIsSettled`, `JobsEnd` | 50,435 |
| `sessions` | 2 requests in flight, 3 sessions | `ParentIsDead`, `SiblingsFromDistinctHandlers`, `StragglersFromDistinctHandlers`, `ResetEndsOldLogins`, `DeletedUserIsOut` | 2,770,321 |
| `accounts` | 2 requests in flight, limit 3, 2 rows, 2 tokens, 1 change of the address, 2 lock expiries, 1 fault | `TypeOK`, `GuessBudget`, `LockFollowsCount`, `VerifiedWasProved`, `VerifiedIsKept`, `AddressIsFreed` | 616,651 |
| `permissions` | 2 replicas, 2 roles, 2 requests in flight, entries live 2 ticks, 1 tick from read to store, 2 changes | `TypeOK`, `OwnChangesAreSeen`, `NeverTooStale` | 459,805 |
| `files` | 2 files, 2 users, 2 requests in flight, 4 in all, 2 replicas that purge, 1 fault, both drivers | `FileTypeOK`, `BlobMatchesRow`, `ReplacedIsDeleted`, `DeletedIsPurged` | 265,852 |
| `services` | inbox: 2 users, 2 sockets, 2 notifications, 2 handlers; newsletter: 3 requests, 1 fault; passwords: 3 requests, 2 reset tokens; sign-ins: 2 browsers, 2 callbacks, 3 states; requests: 2 users, 2 fields, every operation; visitors: 2 views of 2 visitors on 2 paths, 2 replicas that count, 3 days of 2 ticks, both midnights, windows of 0, 2, 3 and 4 ticks | `TypeOK`, `OnlineMeansOpen`, `AnswerIsOfTheRequest`, `ConfirmationIsTrue`, `ResetRegainsControl`, `OAuthSignInWasStarted`, `HandlersHaveTheirUser`, `StatsAreComplete`, `PrunedWasCounted` | 1,503,124 |
| `recipient_status_lost`, `schedule_not_draft`, `logout_all_outlived`, `lock_lifted_early`, `push_never_arrives` | the smallest that shows it | one property each, *violated*: see 5 | |

What they show.

- **Campaigns.** `SendingHasOwner`: SENDING is a status that no request accepts, so a
  campaign in it must have a handler at work; only a crash breaks that (nothing resumes
  it: the exception is in the property, not hidden). `NoRowLeftPending`: two fan-outs of
  one campaign create and load each other's rows, and still every row gets a job.
  `SameTextPerFanOut`: an edit that read DRAFT before the send may be written in the
  middle of it. `CountMatchesRows`: `recipientCount` never counts a recipient the campaign
  did not have, and leaves none out that is still there, while the audience changes and
  users are purged; the two exceptions are fan-outs that overlap, and a second one, of a
  campaign that was scheduled while it was sent, which finds nobody and resets it to 0.
  `DeletedIsLeftAlone`: the claim ignores `isDeleted`, so what keeps a deleted campaign
  from being sent is that the scan does not. `OneClaimPerSchedule`: the conditional
  `updateMany` is what keeps overlapping invocations apart. `MailBudget` bounds the
  duplicates that at-least-once delivery may produce. `CreatorIsTold` is about each send
  of a campaign by itself, also when two handlers send it at once and fail in each other's
  way: when its handler has left it, the creator was told once that it was sent or once
  that it failed, never both, and neither only after a crash or a lost notification.
- **Sessions.** `ParentIsDead` is rotation. `SiblingsFromDistinctHandlers` and
  `StragglersFromDistinctHandlers` say exactly how far the find-then-revoke race goes:
  one session for each request in flight, never more. `ResetEndsOldLogins` depends on the
  order of the two writes of a reset (password, then sessions).
- **Accounts.** `GuessBudget` is the real limit that `MAX_LOGIN_ATTEMPTS` gives when
  attempts are concurrent, processes may die between counting and locking, and locks run
  out without clearing the counter; the bound is tight (one less is violated).
  `VerifiedWasProved` has two rows, so that a verification that saw the first row meets
  the second one, and a change of the address, so that it meets another address: what was
  known concerns that very row, and an address it has or had. That it is more than a claim
  cannot be said (see 6). `VerifiedIsKept` holds although `ResendWrite` may give a verified
  account a window that ends.

- **Permissions.** `NeverTooStale` is the refinement of `StaleView`: also on a replica that
  no invalidation reaches, after a role edit that invalidates nothing, and through a store
  of what was read before a change, an answer is at most a time to live and one read old.
  `OwnChangesAreSeen` says what invalidation adds on the replica it reaches, and exactly
  when it does not: a check that read before it and stored after it (`crossed`).
- **Files and visitors.** `BlobMatchesRow` says for which files a listed row may have no
  content, or a blob no row: those whose request died or threw between its two writes,
  those the local driver failed to remove, all deleted ones in S3. For every other file
  the order of the writes keeps the two together, whatever overlaps, also a purge that
  works through a list it read earlier. `ReplacedIsDeleted`: an avatar that was replaced
  and is still listed was replaced by a request that had read the user before it was set,
  or that did not find him because he is soft-deleted; or he was purged.
  `DeletedIsPurged`: one failing file does not keep the others, nor itself in the next
  night. `StatsAreComplete`: several replicas count the same day at the same time, at any
  hour of the UTC day, while views come late and others are pruned, and the row ends up
  between the views inserted in time and all of the day. `PrunedWasCounted`: with a window
  that reaches from the start of the server's midnight hour over the cleanup (two days
  always do, one does where the cleanup is on the UTC day of the job; the default is 90) a
  view is counted before it is pruned. With shorter ones it is not (see 6).
- **Services.** `OnlineMeansOpen`: a socket that closes while its token is verified stays
  registered until a restart, and nothing else makes a user online who is not.
  `AnswerIsOfTheRequest`: three queries that are no snapshot, each within what the inbox
  was during the request. `ConfirmationIsTrue`: when the last mail may contradict the row,
  and when not. `ResetRegainsControl`: after a reset or a change by the owner nobody who
  knew the old password changes it by naming it, unless his own change was past its
  comparison; `updateUser` does not ask for it, and is excepted. `OAuthSignInWasStarted`: tokens
  only for the browser the state was made for, and once. `HandlersHaveTheirUser`: the
  shared `req.user` never gives a handler another user than the one its own guards let in.

Bounds, and why they are enough. Two requests in flight make every pairwise race; the
properties that count handlers (`Siblings...`, `GuessBudget`) were also checked with three
while they were developed, and are proved for any number. One campaign: no operation reads
another one's rows, except that a cron invocation goes through a batch, which the proofs
cover for any number. Two subscribers make "some rows are queued and some are not". Three
sessions make a chain of two refreshes, and two siblings of one parent. A limit of three
attempts has a value below, at and above the limit with two concurrent handlers. Two
replicas are the one an invalidation reaches and one it does not; two ticks to live tell
"just stored" from "about to expire"; two changes revoke and grant again. Faults
are few because each is independent of the others; two are enough for "the retry fails
too" and "a throw, then a crash in the catch block". `MaxRequests`, `MaxTokens`,
`MaxAccounts`, `MaxMoves`, `MaxExpiries`, `MaxChanges`, `MaxFaults`, `MaxFileRequests`, `MaxFileFaults`,
`MaxNewsFaults`, `MaxResetTokens`, `MaxStates` and `MaxDay` bound how often something
happens and stand in guards; the proofs hold for every value of them. `MaxRead` is of
another kind: it bounds how long a check may take from its read to its store, and
staleness is measured from it; the code sets no such limit.

In `files`, four requests suffice to upload both files and replace one avatar by the other
twice at the same time. Two users are those who take an avatar from each other; what is
purged needs one user and two replicas. `MCStorage` therefore explores the two apart: with
the focus "purges" only one user acts, with "avatars" no nightly job runs. In the same way
`MCAccounts` explores guessing without changes of the address and providers' claims, and
verifying without wrong passwords: the two share few guards, and the proofs have no focus. Two ticks a day
put the server's midnight at the start and in the middle of the UTC day, and the cleanup
into the same day or the next one; three days let a view be counted, kept and pruned, under
windows that are off, one day, a day and a half and two. The six components of `services`
share no state, so exploring them side by side would only multiply the states: `focus`
takes one at a time, and the same holds for the two halves of `Inbox`, which meet only in
the room that `EmitNote` looks at (run `push_never_arrives`). As no two of them are explored
together, sets of different components have the same members in `MCServices.cfg`, and one
permutation serves all of them. Two requests of administrators make two sends that overlap;
one change of an address gives a mail that is on its way to the former one. Three requests
on one subscription or password let two race while a third has been there before.
`Gap` and `Hours` are scales, not bounds. `MaxMoves` bounds the changes of the
address.

Fairness, and why the code justifies it. In `Campaigns`: a handler that has begun performs
its next await (the event loop runs it unless it dies, which is the separate action
`Die`); the cron job fires every minute and its loop visits each campaign found; time
passes; some worker goes on with the jobs of the queue. Requests, subscribers and faults
have none. In `Accounts`: the window of seven days ends and the nightly cleanup runs.
Nothing is assumed of requests, and resends, which would begin the window again for ever,
are bounded by `MaxTokens`. In `Storage`, a request goes on with its awaits,
the retention window of a deleted file passes, and the nightly purge of each replica
runs and goes on; a purge that dies runs again the next night. With the focus "avatars" it
does not, so `DeletedIsPurged` is checked with the focus "purges" only. It holds for a
retention window above 0: with RETENTION_SOFT_DELETED_DAYS = 0 there is no purge, and what
is soft-deleted stays. The other modules have no liveness property: nothing has to happen
there, and `Permissions` needs no fairness as an entry expires with the clock. All fairness
is weak.


## 4. The proofs

All theorems hold for every value of the constants that satisfies the assumptions named in
the modules (finite sets of subscribers or handlers where cardinalities are taken, numbers
that are natural, markers such as `NoSid` outside the sets they complete).

| theorem | property | argument |
|---|---|---|
| `CampaignsProofs!TypeCorrect` | `TypeOK` | inductive; one step per action |
| `ClaimedOnce` | `OneClaimPerSchedule` | inductive given types: `ScheduleWrite` alone makes SCHEDULED and counts, `CronClaim` counts and leaves SCHEDULED in one update |
| `SendingIsOwned` | `SendingHasOwner` | inductive given types: `Begin` makes SENDING and puts the handler at "select"; it leaves the fan-out by `Finish`, `Fail` or `Die` only |
| `SentIsMailed` | `SentMeansMailed` | not inductive: `MarkSent` relies on `SendResolves`, one await earlier. `DeliveryInv` adds that a job that is `accepted` has a message out |
| `OneTextPerFanOut` | `SameTextPerFanOut` | `FanOutInv`, below |
| `EveryRowIsQueued` | `NoRowLeftPending` | `PendingInv`: some running fan-out still owes a job to each PENDING recipient (`Owes`), not necessarily the one that added the row |
| `CountIsRight` | `CountMatchesRows` | `CountInv`: before the first fan-out a campaign has no rows, what a fan-out has loaded are recipients the campaign had, and one that nothing overlaps `Knows` from its load on all that are still there |
| `EverySendIsTold` | `CreatorIsTold` | `ToldInv`: nothing is told of a send before its handler leaves it, and no two handlers have one number; lemma `SendKinds` says that a step goes on, begins a send or leaves one |
| `MailIsBounded` | `MailBudget` | `BudgetInv`, below |
| `DeletedStaysDeleted` | `DeletedIsLeftAlone` | an action property, from `DeletedInv` (only a row that is there is deleted) and `RowsInv` (a job has its row); lemma `DeletedStep` goes through the kinds of steps |
| `JobsWearOut` | (one half of `JobsEnd`) | every step of a worker lowers the `Rank` of its job, a natural number, and no other step touches the job |
| `SessionsProofs!TypeCorrect` | (type invariant) | inductive |
| `OldTokenIsDead`, `TokenSpentOncePerRequest` | `ParentIsDead`, `SiblingsFromDistinctHandlers` | `RotationInv`: what a handler at "issue" holds is spent and never comes back, a session that was refreshed has a spent parent, and no handler holds the parent of a session it issued |
| `OneStragglerPerRequest`, `OldLoginsEnd`, `OneLateSessionPerRequest` | `StragglersFromDistinctHandlers`, `ResetEndsOldLogins`, `DeletedUserIsOut` | `HistoryInv`, below |
| `AccountsProofs!TypeCorrect` | `TypeOK` | inductive |
| `LockIsPlaced` | `LockFollowsCount` | `LockInv`: with no row nothing of the last one is left |
| `VerifiedOnEvidence` | `VerifiedWasProved` | `EvidenceInv`: a handler at "verify" that still reaches the row has grounds for it (`Vouched`); `TokensInv`: a token of the row is mailed only to an address the row has or had |
| `VerifiedStays` | `VerifiedIsKept` | an action property, from the types alone: only `Cleanup` and `Purge` remove a row, and their conditions exclude it |
| `GuessesAreBounded` | `GuessBudget` | `GuessInv`, below |
| `PermissionsProofs!TypeCorrect` | `TypeOK` | inductive |
| `CacheIsBoundedStale` | `NeverTooStale` | refinement with `FreshInv`, below |
| `OwnChangeIsSeen` | `OwnChangesAreSeen` | `OwnInv`: no replica has invalidated a version that is not there yet, and what a request has read is current or it was crossed |
| `StorageProofs!FileTypeCorrect` | `FileTypeOK` | inductive; one step per action |
| `BlobsMatch` | `BlobMatchesRow` | `StoreInv`, below |
| `AvatarsAreDeleted` | `ReplacedIsDeleted` | `AvatarInv`, below |
| `ServicesProofs!NewsTypeCorrect`, `NewsConfirmed` | `ConfirmationIsTrue` | `NewsInv`: the last writer still wants what the row says, and either the last mail says so too or he is about to queue it |
| `ViewTypesHold` | (type invariant) | inductive |
| `ViewsAreCountedFirst` | `PrunedWasCounted` | `ClockInv`: a day whose midnight hour is over was counted or missed, and under a safe window so is that of every pruned view (lemma `OldIsPassed`, the arithmetic of ticks and days) |
| `StatisticsAreRight` | `StatsAreComplete` | `StatInv`, below |
| `SigninProofs!PassTypeCorrect`, `PassRegained` | `ResetRegainsControl` | `PassInv`: after the owner's write (`OwnerAlone`) the password is his and no change of the other's is in flight; only the owner resets, and what `UpdateUser` writes to his password ends `regained` |
| `OAuthTypeCorrect`, `OAuthTokensGoHome` | `OAuthSignInWasStarted` | `OAuthInv`: a cookie, and a callback past the comparison, have a state made for that browser; a code that was exchanged is spent, so no two callbacks are past the exchange with one state |
| `ReqTypesHold`, `HandlersRunAsTheirUser` | (type invariant), `HandlersHaveTheirUser` | `ReqInv`, below |
| `InboxProofs!InboxTypeCorrect`, `OnlineIsOpen` | `OnlineMeansOpen` | `Registered`: the map holds the verified sockets that are open or were overtaken |
| `ListsAreOfTheRequest` | `AnswerIsOfTheRequest` | `SeenSoFar`: the bounds of the property hold for each query that has come back, and no step of others takes a result out of them |
| `ServicesProofs!ServicesTypes` | `TypeOK` of `MCServices` | from the type invariants of the six |

`GuessInv` relates what has been compared to what has been counted: `guesses` is at most
the counter, plus the requests between the comparison and the count (`Counting`), plus the
`lost` attempts whose request died before it counted (a row that is replaced begins again
at zero); while the account is
unlocked the counter is limited by the attempts that may be admitted in the lock periods
so far, and each request that is about to lock it (`Locking`) accounts for one of them.
The existential `lost` is bounded by `faults`. The proof does the arithmetic on
cardinalities of `Counting` and `Locking` (lemma `Sizes`: a step moves at most one handler
in or out).

`FreshInv` says how old a view is, in terms of the clock: the current answer has age zero;
what a request has read is at most `lag` ticks old; what a replica has cached is at most
`lag` ticks and those of its time to live that are gone. With it every step of
`Permissions` is one of `StaleView`: a change of the tables is `Change` if the answer
changes and a stutter if not, `Tick` is `Elapse`, and everything else is `Look` (lemmas
`ChangeStep`, `TickStep`, `LookStep`).

`StoreInv` says where a file may be while requests and purges are on their way: a file that
is being created has a blob and no row and one creator; a request between blob and row of
a deletion holds a file that has been in the table; what a purge has selected is
soft-deleted or gone, and what it has unlinked has no blob (or is stuck, or in S3).
`AvatarInv` adds that a request which nobody has crossed, and which found its user, holds
the current avatar unless the user was purged, and has deleted it by the time it connects
the new one.

The theorems on `Campaigns` use that each step is of one of four kinds (lemma `Kinds`):
`Aside` touches no recipient and no job and at most cuts a fan-out short, `Started` begins
a fan-out, `Inside` is a step of one that is running, `MailStep` one of a worker. `FanOutInv` says that a number of
a fan-out belongs to one handler, that its jobs have the version that handler holds, and
that there is at most one job for each recipient and none for those it has still to queue.
`BudgetInv` counts without sums: `Chances(c, s)` is the set of pairs of a fan-out and one
of the `Attempts + MaxStalls` messages of its job that may still go out; a message takes
an element away, only the beginning of a fan-out adds any, and what was `mailed` together
with the number of `Chances` never exceeds `fanouts[c] * (Attempts + MaxStalls)`.

`HistoryInv` says what a handler carries from the check it has made: a request that was
crossed by a revocation has left nothing alive that was crossed before; one that carries
an old password was crossed, or goes back to one that was, or a revocation is still due
(`ResetPending`); one that has issued to a deleted user cannot get to issue again.

`StatInv` goes through the job of a day: when it has counted, each figure it holds is
between the views inserted in time and all of the day; when it writes, every path is on
its list, or has its row, or had no view. That this survives the writes of the other
replicas, late views and pruning is lemma `DayIsOver`: once the day is over, neither of the
two bounds changes any more. The lower bounds need a safe window, the upper ones none.

`ReqInv`: the root fields that run together carry the same token, so whatever one of them
puts into the shared `reqUser` is the user of all (`OwnUser`); and a field that is past
its guards was vouched for by its own (`RunsAsOwn`). That every operation which uses its
user asks for one is lemma `AllAreAsked`, on the table of operations.

TLC checked each of these invariants on the instances of the runs before it was proved.

Every invariant and action property that a passing run checks is proved. Only
model-checked are the liveness properties `DueIsSettled`, `JobsEnd`, `AddressIsFreed` and
`DeletedIsPurged`: liveness under fairness and ENABLED are out of the
prover's reach. `JobsWearOut` is what can be proved of `JobsEnd`: that steps of workers
end; that they are taken is the fairness of `FairSpec`.


## 5. Findings

Each is a run in which TLC shows that the code does not do what the documentation or a
message says.

- `recipient_status_lost`: the fan-out sets QUEUED after it added the job, and may
  overwrite the SENT of a worker that was faster; no failure is needed. FEATURES.md
  promises per-recipient delivery tracking.
- `schedule_not_draft`: a campaign that is being sent is scheduled, and sent again, by a
  request that read it as a draft; the service says "Only draft campaigns can be
  scheduled".
- `logout_all_outlived`: a refresh that had found its session before logout-all revokes
  all sessions issues a new one after it. README.md and FEATURES.md say "all sessions",
  "everywhere".
- `lock_lifted_early`: a login with the right password that read the account before it was
  locked lifts the lock at once. README.md says the account is locked for 15 minutes.
- `push_never_arrives`: `notify` emits to the room of the user's numeric id, while his
  sockets join the room of the `sub` of their token, which is the uniqueId. FEATURES.md
  says that notifications are "pushed live over the gateway".


## 6. Remarks on the code

Things met while reading the code for the models. Most are exceptions that a property above
names; the first four are also at odds with what a comment or FEATURES.md says.

- `oauthLogin` verifies an account that was registered and never verified without looking at
  `profile.emailVerified` (`auth.service.ts:199-203`; only a new account asks for it, line
  206), which may be false (`google-oauth.service.ts:88`). The comment there says "the
  provider just proved ownership of this email address". Hence the `claimed` grounds in
  `Accounts`.
- The S3 driver deletes by the URI it returned from `put`, which is not a key
  (`s3.driver.ts:37-41`), so nothing leaves the bucket; the comment on the purge says that
  `deleteFile()` already removed the blob (`storage.service.ts:89-90`). Hence S3 in the
  exceptions of `BlobMatchesRow`.
- With RETENTION_PAGE_VIEWS_DAYS of one day and a server's midnight late in the UTC day, or
  of a fraction of a day, views are pruned before they are counted
  (`retention.service.ts:93`, `env.validation.ts:52`); the comment in
  `retention.service.ts:15-17` says that `VisitorStat` already aggregates them. Hence the
  condition on the window in `StatsAreComplete` and `PrunedWasCounted`.
- ADMIN passes by the name of the role only where the operation lists it
  (`permissions.guard.ts:32-37`); elsewhere it waits for the permission query like anybody
  else. `permission.constants.ts:52` and FEATURES.md:40 say that it bypasses permission
  checks. In `Requests` an operation says whether ADMIN passes by its name.
- `updateUser` with the avatar the user has already deletes that file and then connects it
  (`users.service.ts:97-104`). For a soft-deleted user it deletes nothing and connects the
  new avatar all the same. The avatar file of a purged user is removed by nothing.
- `updateUser` with another e-mail address leaves `emailVerifiedAt` and the token of the
  former one as they are; with another password it does not ask for the old one and revokes
  no session.
- The purge of a user who is in the middle of a fan-out fails the send for everybody, and
  makes the worker send to him until the attempts are used up.
- The three steps of the nightly cleanup run in sequence and nothing catches: if an
  earlier one throws, the later ones wait for the next night.
- The gateway has no adapter between replicas: a push reaches sockets of one process.
- `Notification` has the audit columns and is missing from `AUDITED_MODELS`, which says it
  is in sync with the schema; harmless as nothing soft-deletes notifications.
- A reset token stays valid after `changePassword`.
- A second tab that starts a sign-in overwrites the cookie of the first, whose callback
  then fails and clears the cookie of both.


## 7. What is not modelled, and why

- Access tokens, hashing, encryption: no state, and no property here depends on them.
  A token is identified with the session or row it names.
- Wording, templates, translations, listing queries, filters and pagination: they change
  nothing.
- Of `updateUser`, names and locale: no step reads them. Its address is in `Accounts`, its
  password in `Passwords`, its avatar in `Storage`, role and grants in `Permissions`. In
  `Sessions` it changes nothing: an update of the address or of the password revokes none.
- A role that the decorator names is let in without a look at the permissions, and the
  deletion of a role changes nothing a check reads (an include is not filtered). New roles
  and users have ids that nothing is cached for. The purge of a deleted user is not in
  `Permissions`: it changes no answer.
- Retries of mails other than campaign mails: a verification mail is the moment the token
  is in the inbox, a reset mail arrives later or never, a confirmation ends where it is
  queued. No row depends on more.
- The purge of soft-deleted campaigns (with the cascade to their recipients), roles and
  permissions, days after the deletion: no handler lives that long, and nothing can begin
  on a row that is soft-deleted; a job that is still retried finds its row gone, as in
  `MarkSentMisses`.
- The purge of users in `Sessions` and `Inbox`: its cascade takes all sessions and
  notifications of the user at once; none is left, and none can be made for him.
- RETENTION_SOFT_DELETED_DAYS = 0, which turns the purge off: every property but
  `DeletedIsPurged` holds the more easily.
- The GraphQL subscription and the broadcast of the gateway: nothing publishes to them.
- The throttler, CSRF protection, configuration, filters: no state of this program.
- Daylight saving in `Visitors`: a server whose midnight moves across the UTC one skips a
  day.
- Failure of the database between awaits is a throw of the await; lost connections in the
  middle of a single call are not modelled.
- Activation, deactivation and restoring of users: no resolver calls these methods.


## 8. The plan

Done, in the order of importance: `MailQueue` and `Campaigns`, `Sessions`, `Accounts`,
`Permissions` with `StaleView`; then `Storage` and `Visitors`, `Inbox`, `Newsletter`,
`Passwords`, `OAuth` and `Requests`; each with its proofs.

Abstract specifications to come: *delivery* (each recipient and fan-out: pending, then at
most so many messages, then done), which `Campaigns` with `MailQueue` implements; *token
chain* (one live token per login and racing request), which `Sessions` implements; *guess
limiter*, which the login part of `Accounts` implements.
