SPECIFICATION CheckInSpec
CONSTANTS
    Users = {u1, u2}
    ReminderConsumers = {r1}
    TimeoutConsumers = {t1}
    RemindAt = 0
    Deadlines = {0, 1}
    InitialDeadlines = {1}
    GraceUntil = 1
    EndOfDay = 1
    MonthlyReminderLimit = 1
    UpdateKinds = {"enabled", "deadline"}
    MaxUpdates = 1
    ScheduleRuns = 1
    FaultKinds = {"crash", "db", "redis", "publish"}
    MaxFaults = 1
    MaxMessages = 4
    Timely = FALSE
SYMMETRY Symmetry
INVARIANTS
    CheckInTypeOK
    RemindersLimited
    AlertIsRecorded
    TasksArePublished
CHECK_DEADLOCK FALSE
