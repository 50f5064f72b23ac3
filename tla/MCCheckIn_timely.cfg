SPECIFICATION CheckInSpec
CONSTANTS
    Users = {u1, u2}
    ReminderConsumers = {r1}
    TimeoutConsumers = {t1}
    RemindAt = 1
    Deadlines = {1, 3}
    InitialDeadlines = {1, 3}
    GraceUntil = 3
    EndOfDay = 4
    MonthlyReminderLimit = 1
    UpdateKinds = {"enabled"}
    MaxUpdates = 2
    ScheduleRuns = 1
    FaultKinds = {}
    MaxFaults = 0
    MaxMessages = 4
    Timely = TRUE
SYMMETRY Symmetry
INVARIANTS
    ForgottenIsAlerted
    EnabledIsReminded
CHECK_DEADLOCK FALSE
