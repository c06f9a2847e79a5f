SPECIFICATION Spec
CONSTANTS
    alice = alice
    w1 = w1
    w2 = w2
    Senders = {alice}
    Sessions = {2}
    Workers = {w1, w2}
    Fee = 1
    MinExpiry = 1
    ExpireWithin = 9
    ClaimCost = 1
    MaxAmount = 2
    MaxDeposit = 4
    MaxTime = 1
    MaxClaims = 1
    MaxServed = 3
INVARIANT PaymentNotReused
