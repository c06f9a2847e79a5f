SPECIFICATION Spec
CONSTANTS
    c1 = c1
    c2 = c2
    alice = alice
    bob = bob
    carol = carol
    Nodes = {alice, bob, carol}
    Channels = {c1, c2}
    PairOf <- MCPairOf
    Messages <- MCMessages
    FutureLimit = 1
    MaxTime = 1
    MaxWaiting = 1
    MaxCrashes = 1
INVARIANTS
    TypeOK
    DatabaseInGraph
    GraphExact
    CapacityConfirmed
    DeferredDelivered
PROPERTY
    FeesNeverGoBack
