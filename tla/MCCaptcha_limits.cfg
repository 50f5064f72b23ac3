SPECIFICATION CaptchaSpec
CONSTANTS
    Requests = {r1, r2}
    MaxInWindow = 2
    MaxRedisFaults = 1
    SliderThreshold = 1
    MaxDaily = 2
    MaxArrivals = 5
    MaxExpiries = 1
    Kinds = {"send", "slider", "verify"}
SYMMETRY Symmetry
INVARIANTS
    CaptchaTypeOK
    LimitHolds
    DailyLimits
    OneLoginPerCode
    DeliveredCodeWorks
CHECK_DEADLOCK FALSE
