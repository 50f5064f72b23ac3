SPECIFICATION AccountSpec
CONSTANTS
    OpenIDs = {o1, o2, o3}
    Phones = {p1, p2}
    Slots = {s1, s2}
    Lists = {{1}, {2}, {1, 2}}
    MaxUsers = 1
    MaxRequests = 4
    MaxRows = 3
    MaxTokens = 3
    MaxFaults = 1
    Kinds = {"exchange", "verify", "waitlist", "refresh", "create", "replace", "remove", "delete"}
    NoPhone = NoPhone
SYMMETRY Symmetry
INVARIANTS
    AccountTypeOK
    ContactsMakeActive
    OneBonus
    CapacityOvershootBounded
    OnlyCodesRevive
    SomebodyStaysSignedIn
    OnlyReturnersAreSentAhead
PROPERTY DeletedIsFrozen
CHECK_DEADLOCK FALSE
