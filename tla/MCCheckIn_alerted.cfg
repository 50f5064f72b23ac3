SPECIFICATION CheckInSpec
CONSTANTS
    Users = {u1}
    ReminderConsumers = {r1}
    TimeoutConsumers = {t1}
    RemindAt = 1
    Deadlines = {2}
    InitialDeadlines = {2}
    GraceUntil = 2
    EndOfDay = 3
    MonthlyReminderLimit = 2
    UpdateKinds = {}
    MaxUpdates = 0
    ScheduleRuns = 1
    FaultKinds = {}
    MaxFaults = 0
    MaxMessages = 3
    Timely = TRUE
PROPERTY OnlyForgottenIsAlerted
CHECK_DEADLOCK FALSE
