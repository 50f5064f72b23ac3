SPECIFICATION JourneySpec
CONSTANTS
    RemindConsumers = {r1}
    TimeoutConsumers = {t1}
    Requests = {q1}
    Grace = 1
    Truncation = 0
    Lead = 1
    Window = 1
    MaxDelay = 4
    MaxDue = 1
    Horizon = 3
    MaxMessages = 2
    MaxRequests = 1
    FaultKinds = {"crash", "db", "redis", "publish"}
    MaxFaults = 1
    Timely = FALSE
INVARIANTS
    JourneyTypeOK
    AlertIsRecorded
    NotifiedAtMostOnce
    TasksArePublished
PROPERTIES
    EndIsFinal
