\* Two requests in flight on one address, one of which may die: guessing, and
\* verifying two rows one after the other.
SPECIFICATION MCSpec
CONSTANTS
    Handler = {h1, h2}
    MAX_LOGIN_ATTEMPTS = 3
    MaxAccounts = 2
    MaxTokens = 2
    MaxMoves = 1
    MaxExpiries = 2
    MaxFaults = 1
INVARIANTS
    TypeOK
    GuessBudget
    LockFollowsCount
    VerifiedWasProved
PROPERTIES
    VerifiedIsKept
    AddressIsFreed
CHECK_DEADLOCK FALSE
