SPECIFICATION MCSpec
CONSTANTS
    InUser = {u1, u2}
    Socket = {k1, k2}
    Note = {n1, n2}
    InHandler = {g1, g2}
    PageLimit = 1
    NoKey = undefined
    NoNote = nonote
    NoOne = noone
    NewsHandler = {w1, w2, w3}
    MaxNewsFaults = 1
    PassHandler = {h1, h2, h3}
    MaxResetTokens = 2
    Browser = {b1, b2}
    Callback = {c1, c2}
    MaxStates = 3
    NoBrowser = nobrowser
    Person = {u1, u2}
    Field = {f1, f2}
    NoPerson = noperson
    View = {u1, u2}
    Path = {g1, g2}
    Visitor = {s1, s2}
    Counter = {x1, x2}
    Hours = 2
    Gap = 1
    Windows = {0, 2, 3, 4}
    MaxDay = 2
    NoStat = nostat
    NoView = noview
SYMMETRY Symmetry
INVARIANTS
    TypeOK
    OnlineMeansOpen
    AnswerIsOfTheRequest
    ConfirmationIsTrue
    ResetRegainsControl
    OAuthSignInWasStarted
    HandlersHaveTheirUser
    StatsAreComplete
    PrunedWasCounted
CHECK_DEADLOCK FALSE
