SPECIFICATION SmsSpec
CONSTANTS
    Workers = {w1}
    Tasks = {t1}
    ReminderTasks = {t1}
    MaxRetries = 1
    Price = 5
    DefaultGrant = 12
    TopUp = 5
    MaxTopUps = 0
    MaxHolds = 12
    MaxPublishes = 1
    MaxCrashes = 0
    MaxDrops = 0
    MaxRedisErrors = 0
    MaxDbErrors = 0
    MaxLostReplies = 0
    MaxExpiries = 0
    MaxShutdowns = 1
    MaxFaults = 9
INVARIANT ErrorClearsMark
CHECK_DEADLOCK FALSE
