SPECIFICATION InboxSpec
CONSTANTS
    InUser = {u1}
    Socket = {k1}
    Note = {n1}
    InHandler = {g1}
    PageLimit = 1
    NoKey = undefined
    NoNote = nonote
    NoOne = noone
INVARIANT PushReachesUser
CHECK_DEADLOCK FALSE
