\* The same requests and sessions, and a session that outlives a logout-all.
SPECIFICATION Spec
CONSTANTS
    Handler = {h1, h2}
    Sid = {s1, s2, s3}
    NoSid = none
    NoHandler = nobody
SYMMETRY Symmetry
INVARIANTS
    LogoutAllIsFinal
CHECK_DEADLOCK FALSE
