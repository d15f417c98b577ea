\* A login that read the account before it was locked.
SPECIFICATION MCSpec
CONSTANTS
    Handler = {h1, h2}
    MAX_LOGIN_ATTEMPTS = 2
    MaxAccounts = 2
    MaxTokens = 2
    MaxMoves = 0
    MaxExpiries = 1
    MaxFaults = 0
PROPERTIES
    LockStands
CHECK_DEADLOCK FALSE
