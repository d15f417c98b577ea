\* One subscriber, one fan-out in full, no failure.
SPECIFICATION Spec
CONSTANTS
    Campaign = {c1}
    Subscriber = {s1}
    Admin = {a1, a2}
    Cron = {k1}
    NoCampaign = none
    Attempts = 1
    MaxStalls = 0
    Workers = 1
    Transport = "smtp"
    MaxFaults = 0
    MaxRequests = 2
PROPERTIES
    DeliveryStatusKept
CHECK_DEADLOCK FALSE
