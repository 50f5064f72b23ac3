SPECIFICATION JourneyFairSpec
CONSTANTS
    RemindConsumers = {r1}
    TimeoutConsumers = {t1}
    Requests = {q1}
    Grace = 2
    Truncation = 1
    Lead = 2
    Window = 2
    MaxDelay = 6
    MaxDue = 4
    Horizon = 7
    MaxMessages = 6
    MaxRequests = 2
    FaultKinds = {"crash", "publish"}
    MaxFaults = 1
    Timely = TRUE
INVARIANTS
    RemindedBeforeAlert
PROPERTIES
    OverdueIsHandled
