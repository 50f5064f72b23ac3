SPECIFICATION SmsFairSpec
CONSTANTS
    Workers = {w1}
    Tasks = {t1, t2}
    ReminderTasks = {t1}
    MaxRetries = 1
    Price = 5
    DefaultGrant = 9
    TopUp = 5
    MaxTopUps = 0
    MaxHolds = 12
    MaxPublishes = 1
    MaxCrashes = 1
    MaxDrops = 0
    MaxRedisErrors = 1
    MaxDbErrors = 1
    MaxLostReplies = 0
    MaxExpiries = 1
    MaxShutdowns = 1
    MaxFaults = 9
PROPERTY EveryMessageSettles
INVARIANT OutcomeIsRecorded
CHECK_DEADLOCK FALSE
