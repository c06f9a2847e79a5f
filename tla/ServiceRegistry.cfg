SPECIFICATION Spec
CONSTANTS
    Duration = 2
    MinPrice = 1
    FirstPrice = 2
    FirstBalance = 2
    Urls = {"u1"}
    NoUrl = "none"
    MaxPrice = 2
    MaxTime = 3
    MaxDeposits = 2
    MaxPending = 2
PROPERTIES
    ThanksMeansRegistered
    PaysAtMostQuoted
    ApprovesFromZero
    NotRegisteredTwice
    TooEarlyForAll
    WithdrawSucceeds
CHECK_DEADLOCK FALSE
