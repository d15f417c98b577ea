\* Two requests in flight on three sessions, with resets, logout-alls and the
\* deletion of the user at any point.
SPECIFICATION Spec
CONSTANTS
    Handler = {h1, h2}
    Sid = {s1, s2, s3}
    NoSid = none
    NoHandler = nobody
SYMMETRY Symmetry
INVARIANTS
    ParentIsDead
    SiblingsFromDistinctHandlers
    StragglersFromDistinctHandlers
    ResetEndsOldLogins
    DeletedUserIsOut
CHECK_DEADLOCK FALSE
