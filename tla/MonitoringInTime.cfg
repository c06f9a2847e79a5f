SPECIFICATION FairSpec
CONSTANTS
    c1 = c1
    c2 = c2
    tn = tn
    Channels = {c1}
    Networks = {tn}
    NetOf <- MCNetOf
    OtherServices = {"ms2"}
    SettleTimeout = 3
    MonitorDelay = 2
    MaxNonce = 2
    Balances <- FullDeposit
    Closers = {"A"}
    CloseBy = 1
    SettleBy = 5
    MaxTime = 8
    Requests <- TwoRequests
    MinReward = 1
    Confirmations = 1
    CloseMargin = 1
    RetryDelay = 1
    ClockAhead = 1
    Punctual = TRUE
    MaxCrashes = 1
    MaxFaults = 0
INVARIANTS
    RewardNotForgotten
    MonitoredInTime
PROPERTY RewardClaimed
