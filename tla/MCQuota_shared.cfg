SPECIFICATION QuotaSpec
CONSTANTS
    Clients = {c1, c2, c3}
    Price = 5
    DefaultGrant = 7
    TopUp = 6
    MaxTopUps = 1
    MaxHolds = 3
SYMMETRY Symmetry
INVARIANTS
    QuotaTypeOK
    BooksBalance
    FrozenIsHeld
    OverdraftBounded
PROPERTY BalanceAfterIsExact
CHECK_DEADLOCK FALSE
