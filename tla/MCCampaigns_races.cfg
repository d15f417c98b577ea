\* Two administrators and a cron invocation on one campaign and a changing audience:
\* every interleaving of their awaits with each other and with the mail worker.
SPECIFICATION Spec
CONSTANTS
    Campaign = {c1}
    Subscriber = {s1, s2}
    Admin = {a1, a2}
    Cron = {k1}
    NoCampaign = none
    Attempts = 1
    MaxStalls = 0
    Workers = 1
    Transport = "none"
    MaxFaults = 0
    MaxRequests = 2
SYMMETRY Symmetry
INVARIANTS
    TypeOK
    SendingHasOwner
    NoRowLeftPending
    SameTextPerFanOut
    CountMatchesRows
    CreatorIsTold
PROPERTIES
    DeletedIsLeftAlone
CHECK_DEADLOCK FALSE
