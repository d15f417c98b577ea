\* Two requests and two replicas that purge; two users who change avatars.
SPECIFICATION MCFileSpec
CONSTANTS
    File = {f1, f2}
    User = {u1, u2}
    FileHandler = {h1, h2}
    Purger = {p1, p2}
    MaxFileRequests = 4
    MaxFileFaults = 1
    NoFile = none
    NoUser = nobody
INVARIANTS
    FileTypeOK
    BlobMatchesRow
    ReplacedIsDeleted
PROPERTIES
    DeletedIsPurged
CHECK_DEADLOCK FALSE
