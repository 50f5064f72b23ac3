SPECIFICATION JourneySpec
CONSTANTS
    RemindConsumers = {r1}
    TimeoutConsumers = {t1}
    Requests = {}
    Grace = 2
    Truncation = 1
    Lead = 2
    Window = 2
    MaxDelay = 5
    MaxDue = 3
    Horizon = 6
    MaxMessages = 3
    MaxRequests = 0
    FaultKinds = {}
    MaxFaults = 0
    Timely = TRUE
INVARIANTS
    TimeoutCheckIsNotEarly
