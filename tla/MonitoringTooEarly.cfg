SPECIFICATION Spec
CONSTANTS
    c1 = c1
    c2 = c2
    tn = tn
    Channels = {c1, c2}
    Networks = {tn}
    NetOf <- MCNetOf
    OtherServices = {}
    SettleTimeout = 2
    MonitorDelay = 1
    MaxNonce = 0
    Balances <- FullDeposit
    Closers = {"A"}
    CloseBy = 4
    SettleBy = 6
    MaxTime = 6
    Requests <- OneRequest
    MinReward = 1
    Confirmations = 1
    CloseMargin = 1
    RetryDelay = 1
    ClockAhead = 0
    Punctual = TRUE
    MaxCrashes = 0
    MaxFaults = 0
INVARIANT LowestTooEarlyMeansAll
