SPECIFICATION Spec
CONSTANTS
    c1 = c1
    c2 = c2
    tn = tn
    Channels = {c1}
    Networks = {tn}
    NetOf <- MCNetOf
    OtherServices = {}
    SettleTimeout = 2
    MonitorDelay = 1
    MaxNonce = 1
    Balances <- ChangingDeposit
    Closers = {"A"}
    CloseBy = 2
    SettleBy = 4
    MaxTime = 4
    Requests <- OneRequest
    MinReward = 1
    Confirmations = 1
    CloseMargin = 1
    RetryDelay = 1
    ClockAhead = 0
    Punctual = FALSE
    MaxCrashes = 1
    MaxFaults = 1
INVARIANTS
    StatusExact
    NonceNotAhead
    OneTransaction
    NeverMonitoredTwice
