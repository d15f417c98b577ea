\* Two overlapping cron invocations, retries, stalls and failures anywhere.
SPECIFICATION FairSpec
CONSTANTS
    Campaign = {c1}
    Subscriber = {s1}
    Admin = {a1}
    Cron = {k1, k2}
    NoCampaign = none
    Attempts = 2
    MaxStalls = 1
    Workers = 1
    Transport = "smtp"
    MaxFaults = 2
    MaxRequests = 1
INVARIANTS
    SentMeansMailed
    OneClaimPerSchedule
    MailBudget
    CreatorIsTold
PROPERTIES
    DueIsSettled
    JobsEnd
CHECK_DEADLOCK FALSE
