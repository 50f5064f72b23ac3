SPECIFICATION SmsSpec
CONSTANTS
    Workers = {w1, w2}
    Tasks = {t1}
    ReminderTasks = {t1}
    MaxRetries = 1
    Price = 5
    DefaultGrant = 12
    TopUp = 5
    MaxTopUps = 0
    MaxHolds = 12
    MaxPublishes = 2
    MaxCrashes = 1
    MaxDrops = 1
    MaxRedisErrors = 1
    MaxDbErrors = 1
    MaxLostReplies = 1
    MaxExpiries = 1
    MaxShutdowns = 1
    MaxFaults = 2
SYMMETRY Symmetry
INVARIANTS
    SmsTypeOK
    OneSenderPerTask
    SentAtMostOnce
    MessagesAreKept
    RecordsAreTrue
    PaidIsRecorded
PROPERTIES
    OutcomeIsFinal
CHECK_DEADLOCK FALSE
