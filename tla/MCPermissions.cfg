\* Two replicas and two requests in flight; a change at any point.
SPECIFICATION Spec
CONSTANTS
    Replica = {p1, p2}
    Role = {role1, role2}
    Handler = {h1, h2}
    Ttl = 2
    MaxRead = 1
    MaxChanges = 2
    Empty = none
SYMMETRY Symmetry
INVARIANTS
    TypeOK
    OwnChangesAreSeen
PROPERTIES
    NeverTooStale
CHECK_DEADLOCK FALSE
