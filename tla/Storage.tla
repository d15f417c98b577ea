-------------------------------- MODULE Storage --------------------------------
(***************************************************************************)
(* Uploaded files: a row in the table files and a blob with the storage    *)
(* driver, written and removed one after the other; avatars, which         *)
(* updateUser replaces; and the purge of soft-deleted files by the nightly *)
(* RetentionService, on every replica.                                     *)
(*                                                                         *)
(* A file that findUnique finds may be soft-deleted: only findFirst,       *)
(* findMany and count are filtered.                                        *)
(***************************************************************************)
EXTENDS Naturals, FiniteSets

CONSTANTS
    File,           \* files, each uploaded at most once
    User,           \* users who may have an avatar
    FileHandler,    \* requests in flight at the same time
    Purger,         \* replicas that run the nightly job
    MaxFileRequests,\* bound on the requests
    MaxFileFaults,  \* bound on the calls that fail and processes that die
    NoFile,         \* "no avatar"
    NoUser          \* "not a change of avatar"

ASSUME StorageAssumption ==
    /\ NoFile \notin File
    /\ NoUser \notin User
    /\ File \cap {"idle", "scan", "unlink"} = {}
    /\ MaxFileRequests \in Nat
    /\ MaxFileFaults \in Nat

VARIABLES
    driver,         \* STORAGE_DRIVER
    row,            \* the files table
    blob,           \* files whose content the driver stores
    avatar,         \* users.avatar_id
    account,        \* users.is_deleted, and whether the row is there
    step,           \* the await each request is about to perform
    held,           \* what it has read
    stage,          \* the await each nightly job is about to perform
    left,           \* files it has selected and not been through
    requests,       \* requests so far
    fileFaults,     \* faults so far
    torn,           \* history: deletions that ended between blob and row
    stuck,          \* history: blobs the local driver failed to remove
    orphaned,       \* history: uploads that ended between blob and row
    worn,           \* history: files that have been an avatar
    stranded        \* history: avatars that nobody saw to when they were given up

tables == <<row, blob, avatar, account>>
history == <<torn, stuck, orphaned, worn, stranded>>
fileVars == <<driver, tables, step, held, stage, left, requests, fileFaults, history>>

(* "due" is soft-deleted and older than RETENTION_SOFT_DELETED_DAYS.       *)
RowState == {"none", "live", "deleted", "due", "purged"}

InTable(f) == row[f] \in {"live", "deleted", "due"}

(* target is the file to be deleted, new the avatar of user to be; crossed *)
(* (history): it does not know which avatar the user has.                  *)
Held == [target : File \cup {NoFile}, new : File \cup {NoFile},
         user : User \cup {NoUser}, crossed : BOOLEAN]

Nothing == [target |-> NoFile, new |-> NoFile, user |-> NoUser, crossed |-> FALSE]

Step == {"idle", "create", "find_current", "find_old", "unlink", "soft_delete", "connect"}

(* An upload deletes nothing, and only a change of avatar has a user.      *)
Fits(label, v) ==
    /\ label \in {"create", "find_current", "connect"} => v.new \in File
    /\ label \in {"find_old", "unlink", "soft_delete"} => v.target \in File
    /\ label \in {"find_current", "find_old", "connect"} => v.user \in User
    /\ v.user \in User => v.new \in File

FileTypeOK ==
    /\ driver \in {"local", "s3"}
    /\ row \in [File -> RowState]
    /\ blob \in SUBSET File
    /\ avatar \in [User -> File \cup {NoFile}]
    /\ account \in [User -> {"there", "deleted", "gone"}]
    /\ step \in [FileHandler -> Step]
    /\ held \in [FileHandler -> Held]
    /\ \A h \in FileHandler : Fits(step[h], held[h])
    /\ stage \in [Purger -> {"idle", "scan", "unlink"} \cup File]
    /\ left \in [Purger -> SUBSET File]
    /\ requests \in 0 .. MaxFileRequests
    /\ fileFaults \in 0 .. MaxFileFaults
    /\ torn \in SUBSET File /\ stuck \in SUBSET File /\ orphaned \in SUBSET File
    /\ worn \in SUBSET File /\ stranded \in SUBSET File

FileInit ==
    /\ driver \in {"local", "s3"}
    /\ row = [f \in File |-> "none"]
    /\ blob = {}
    /\ avatar = [u \in User |-> NoFile]
    /\ account = [u \in User |-> "there"]
    /\ step = [h \in FileHandler |-> "idle"]
    /\ held = [h \in FileHandler |-> Nothing]
    /\ stage = [p \in Purger |-> "idle"]
    /\ left = [p \in Purger |-> {}]
    /\ requests = 0 /\ fileFaults = 0
    /\ torn = {} /\ stuck = {} /\ orphaned = {} /\ worn = {} /\ stranded = {}

-----------------------------------------------------------------------------
Proceed(h, label, v) ==
    /\ step' = [step EXCEPT ![h] = label]
    /\ held' = [held EXCEPT ![h] = v]

Answer(h) == Proceed(h, "idle", Nothing)

Request(h) ==
    /\ step[h] = "idle"
    /\ requests < MaxFileRequests
    /\ requests' = requests + 1

FileFault == fileFaults < MaxFileFaults /\ fileFaults' = fileFaults + 1

(* S3StorageDriver.put returns a URL, which is what the row keeps and      *)
(* delete is given as the key: S3 has no such object and reports success.  *)
DriverDeletes(f) ==
    /\ blob' = IF driver = "local" THEN blob \ {f} ELSE blob
    /\ UNCHANGED <<fileFaults, stuck>>

(* The local driver takes any error of unlink for "already removed".       *)
DriverSwallows(f) ==
    /\ driver = "local"
    /\ FileFault
    /\ stuck' = stuck \cup {f}
    /\ UNCHANGED blob

-----------------------------------------------------------------------------
(* Uploads. *)

(* driver.put, for a file on its own or for one of uploadMany, which runs  *)
(* them side by side.                                                      *)
PutBlob(h, f) ==
    /\ Request(h)
    /\ row[f] = "none" /\ f \notin blob
    /\ blob' = blob \cup {f}
    /\ Proceed(h, "create", [Nothing EXCEPT !.new = f])
    /\ UNCHANGED <<driver, row, avatar, account, stage, left, fileFaults, history>>

CreateRow(h) ==
    /\ step[h] = "create"
    /\ row' = [row EXCEPT ![held[h].new] = "live"]
    /\ Answer(h)
    /\ UNCHANGED <<driver, blob, avatar, account, stage, left, requests, fileFaults, history>>

-----------------------------------------------------------------------------
(* deleteFile, as a request and as a part of updateUser. *)

GetFile(h, f) ==
    /\ Request(h)
    /\ InTable(f)
    /\ Proceed(h, "unlink", [Nothing EXCEPT !.target = f])
    /\ UNCHANGED <<driver, tables, stage, left, fileFaults, history>>

(* The avatar that was read may be gone: "record not found". *)
FindOld(h) ==
    /\ step[h] = "find_old"
    /\ IF InTable(held[h].target) THEN Proceed(h, "unlink", held[h]) ELSE Answer(h)
    /\ UNCHANGED <<driver, tables, stage, left, requests, fileFaults, history>>

Unlink(h) ==
    /\ step[h] = "unlink"
    /\ DriverDeletes(held[h].target) \/ DriverSwallows(held[h].target)
    /\ Proceed(h, "soft_delete", held[h])
    /\ UNCHANGED <<driver, row, avatar, account, stage, left, requests, torn, orphaned, worn,
                   stranded>>

(* The update is by id: it also begins the window of a deleted row again.  *)
SoftDelete(h) ==
    /\ step[h] = "soft_delete"
    /\ LET f == held[h].target IN
       IF InTable(f)
       THEN /\ row' = [row EXCEPT ![f] = "deleted"]
            /\ IF held[h].user = NoUser THEN Answer(h) ELSE Proceed(h, "connect", held[h])
       ELSE Answer(h) /\ UNCHANGED row
    /\ UNCHANGED <<driver, blob, avatar, account, stage, left, requests, fileFaults, history>>

-----------------------------------------------------------------------------
(* updateUser with an avatar. *)

FindNewFile(h, u, f) ==
    /\ Request(h)
    /\ InTable(f)
    /\ Proceed(h, "find_current", [Nothing EXCEPT !.new = f, !.user = u])
    /\ UNCHANGED <<driver, tables, stage, left, fileFaults, history>>

(* A mutant: the user is loaded without his avatar. *)
BugFindCurrent(h) ==
    /\ step[h] = "find_current"
    /\ Proceed(h, "connect", held[h])
    /\ UNCHANGED <<driver, tables, stage, left, requests, fileFaults, history>>

(* A mutant: a user without an avatar is not told apart. *)
BugNoAvatar(h) ==
    /\ step[h] = "find_current"
    /\ Proceed(h, "find_old", [held[h] EXCEPT !.target = avatar[held[h].user]])
    /\ UNCHANGED <<driver, tables, stage, left, requests, fileFaults, history>>

(* The user with his avatar, deleted or not: an include is not filtered.   *)
(* The query itself is: a user who is soft-deleted is not found, and the   *)
(* update goes on without deleting anything.                               *)
FindCurrent(h) ==
    /\ step[h] = "find_current"
    /\ LET old == avatar[held[h].user] IN
       IF account[held[h].user] # "there"
       THEN Proceed(h, "connect", [held[h] EXCEPT !.crossed = TRUE])
       ELSE IF old = NoFile
       THEN Proceed(h, "connect", held[h])
       ELSE Proceed(h, "find_old", [held[h] EXCEPT !.target = old])
    /\ UNCHANGED <<driver, tables, stage, left, requests, fileFaults, history>>

(* avatar_id is unique: connecting a file takes it from another user.  The *)
(* update is by id, of a soft-deleted user too.  The file or the user may  *)
(* be gone: P2025.                                                         *)
Connect(h) ==
    /\ step[h] = "connect"
    /\ LET f == held[h].new
           u == held[h].user
       IN  IF InTable(f) /\ account[u] # "gone"
           THEN /\ avatar' = [v \in User |-> IF v = u THEN f
                                             ELSE IF avatar[v] = f THEN NoFile
                                             ELSE avatar[v]]
                /\ worn' = worn \cup {f}
                /\ stranded' = IF held[h].crossed /\ avatar[u] # NoFile
                            THEN stranded \cup {avatar[u]} ELSE stranded
                /\ held' = [g \in FileHandler |->
                              IF g = h THEN Nothing
                              ELSE [held[g] EXCEPT !.crossed =
                                      @ \/ (held[g].user = u /\ step[g] # "find_current")]]
           ELSE /\ held' = [held EXCEPT ![h] = Nothing]
                /\ UNCHANGED <<avatar, worn, stranded>>
    /\ step' = [step EXCEPT ![h] = "idle"]
    /\ UNCHANGED <<driver, row, blob, account, stage, left, requests, fileFaults,
                   torn, stuck, orphaned>>

(* A call throws, or the process dies: BaseRepository rethrows whatever the *)
(* database says, and the request is over where it is.                     *)
Throw(h) ==
    /\ step[h] # "idle"
    /\ FileFault
    /\ Answer(h)
    /\ torn' = IF step[h] = "soft_delete" THEN torn \cup {held[h].target} ELSE torn
    /\ orphaned' = IF step[h] = "create" THEN orphaned \cup {held[h].new} ELSE orphaned
    /\ UNCHANGED <<driver, tables, stage, left, requests, stuck, worn, stranded>>

-----------------------------------------------------------------------------
(* The users themselves. *)

DeleteUser(u) ==
    /\ account[u] = "there"
    /\ account' = [account EXCEPT ![u] = "deleted"]
    /\ UNCHANGED <<driver, row, blob, avatar, step, held, stage, left, requests, fileFaults,
                   history>>

(* The nightly purge of soft-deleted users, whose window has passed, and   *)
(* of accounts that were never verified.  The avatar stays as it is.       *)
PurgeUser(u) ==
    /\ account[u] # "gone"
    /\ account' = [account EXCEPT ![u] = "gone"]
    /\ avatar' = [avatar EXCEPT ![u] = NoFile]
    /\ stranded' = stranded \cup ({avatar[u]} \ {NoFile})
    /\ UNCHANGED <<driver, row, blob, step, held, stage, left, requests, fileFaults,
                   torn, stuck, orphaned, worn>>

-----------------------------------------------------------------------------
(* RetentionService, every night on every replica. *)

WindowPasses(f) ==
    /\ row[f] = "deleted"
    /\ row' = [row EXCEPT ![f] = "due"]
    /\ UNCHANGED <<driver, blob, avatar, account, step, held, stage, left, requests, fileFaults,
                   history>>

(* The sessions and the seven other tables come first. *)
CleanupBegins(p) ==
    /\ stage[p] = "idle"
    /\ stage' = [stage EXCEPT ![p] = "scan"]
    /\ UNCHANGED <<driver, tables, step, held, left, requests, fileFaults, history>>

(* A mutant: the cutoff without isDeleted. *)
BugPurgeScan(p) ==
    /\ stage[p] = "scan"
    /\ left' = [left EXCEPT ![p] = {f \in File : InTable(f)}]
    /\ stage' = [stage EXCEPT ![p] = IF left'[p] = {} THEN "idle" ELSE "unlink"]
    /\ UNCHANGED <<driver, tables, step, held, requests, fileFaults, history>>

PurgeScan(p) ==
    /\ stage[p] = "scan"
    /\ left' = [left EXCEPT ![p] = {f \in File : row[f] = "due"}]
    /\ stage' = [stage EXCEPT ![p] = IF left'[p] = {} THEN "idle" ELSE "unlink"]
    /\ UNCHANGED <<driver, tables, step, held, requests, fileFaults, history>>

PurgeUnlink(p, f) ==
    /\ stage[p] = "unlink"
    /\ f \in left[p]
    /\ DriverDeletes(f) \/ DriverSwallows(f)
    /\ stage' = [stage EXCEPT ![p] = f]
    /\ UNCHANGED <<driver, row, avatar, account, step, held, left, requests, torn, orphaned, worn,
                   stranded>>

(* The loop goes on with the next file. *)
Visited(p, f) ==
    /\ left' = [left EXCEPT ![p] = @ \ {f}]
    /\ stage' = [stage EXCEPT ![p] = IF left'[p] = {} THEN "idle" ELSE "unlink"]

(* A mutant: the avatar restricts the deletion, as a role does. *)
BugPurgeRemove(p, f) ==
    /\ stage[p] = f
    /\ Visited(p, f)
    /\ row' = IF InTable(f) /\ \A u \in User : avatar[u] # f
              THEN [row EXCEPT ![f] = "purged"] ELSE row
    /\ UNCHANGED <<driver, blob, avatar, account, step, held, requests, fileFaults, history>>

(* delete, by id; the avatar is set to null.  A row that another replica   *)
(* has purged throws, and the loop goes on.                                *)
PurgeRemove(p, f) ==
    /\ stage[p] = f
    /\ Visited(p, f)
    /\ IF InTable(f)
       THEN /\ row' = [row EXCEPT ![f] = "purged"]
            /\ avatar' = [u \in User |-> IF avatar[u] = f THEN NoFile ELSE avatar[u]]
       ELSE UNCHANGED <<row, avatar>>
    /\ UNCHANGED <<driver, blob, account, step, held, requests, fileFaults, history>>

(* One of the two calls throws: the row is left for the next run. *)
PurgeSkips(p, f) ==
    /\ stage[p] = f \/ (stage[p] = "unlink" /\ f \in left[p])
    /\ FileFault
    /\ Visited(p, f)
    /\ UNCHANGED <<driver, tables, step, held, requests, history>>

(* An earlier purge or the query throws, or the process dies. *)
CleanupDies(p) ==
    /\ stage[p] # "idle"
    /\ FileFault
    /\ stage' = [stage EXCEPT ![p] = "idle"]
    /\ left' = [left EXCEPT ![p] = {}]
    /\ UNCHANGED <<driver, tables, step, held, requests, history>>

-----------------------------------------------------------------------------
FileContinue(h) ==
    CreateRow(h) \/ FindOld(h) \/ Unlink(h) \/ SoftDelete(h) \/ FindCurrent(h) \/ Connect(h)

Purge(p) ==
    \/ CleanupBegins(p)
    \/ PurgeScan(p)
    \/ \E f \in File : PurgeUnlink(p, f) \/ PurgeRemove(p, f)

FileNext ==
    \/ \E h \in FileHandler, f \in File :
          PutBlob(h, f) \/ GetFile(h, f) \/ \E u \in User : FindNewFile(h, u, f)
    \/ \E h \in FileHandler : FileContinue(h) \/ Throw(h)
    \/ \E u \in User : DeleteUser(u) \/ PurgeUser(u)
    \/ \E f \in File : WindowPasses(f)
    \/ \E p \in Purger : Purge(p) \/ CleanupDies(p) \/ \E f \in File : PurgeSkips(p, f)

FileFairness ==
    /\ \A h \in FileHandler : WF_fileVars(FileContinue(h))
    /\ \A f \in File : WF_fileVars(WindowPasses(f))
    /\ \A p \in Purger : WF_fileVars(Purge(p))

FileSpec == FileInit /\ [][FileNext]_fileVars /\ FileFairness

-----------------------------------------------------------------------------
(* A file that is listed can be downloaded, and a blob has its row: except *)
(* while an upload or a deletion is between the two, or where one ended    *)
(* there; for what the local driver could not remove and did not report;   *)
(* and in S3, from where nothing is ever removed.                          *)
BlobMatchesRow ==
    \A f \in File :
        /\ row[f] = "live" /\ f \notin blob =>
              f \in torn \/ \E h \in FileHandler : step[h] = "soft_delete" /\ held[h].target = f
        /\ f \in blob /\ ~InTable(f) =>
              \/ f \in orphaned \cup stuck \/ driver = "s3"
              \/ \E h \in FileHandler : step[h] = "create" /\ held[h].new = f

(* updateUser leaves no replaced avatar behind: one that is nobody's any   *)
(* more and still listed was replaced by a request that had read the user  *)
(* before another request set this one, or that did not find the user, who *)
(* is soft-deleted; or it was the avatar of a user who has been purged.    *)
ReplacedIsDeleted ==
    \A f \in worn :
        row[f] = "live" => f \in stranded \/ \E u \in User : avatar[u] = f

(* What is soft-deleted goes in the end, although one file that fails is   *)
(* skipped, replicas purge at the same time and requests delete it again.  *)
DeletedIsPurged == \A f \in File : row[f] = "deleted" ~> row[f] = "purged"
=============================================================================
