SPECIFICATION FairSpec
CONSTANTS
    MinInterval = 2
    DefaultInterval = 3
    MaxInterval = 5
    Confirmations = 1
    SyncStart = 1
    MaxHead = 8
    MaxCrashes = 2
INVARIANTS
    NoBlockSkipped
    MemoryMatchesDatabase
PROPERTIES
    CommittedNeverReplayed
    ImplementsFollower
    EveryBlockCommitted
