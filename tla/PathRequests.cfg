SPECIFICATION Spec
CONSTANTS
    Nodes <- MCNodes
    Channels <- MCChannels
    Source = "s"
    Target = "t"
    Capacities <- MCCapacities
    Fees <- MCFees
    Situations <- MCSituations
    Values = {2}
    MaxPaths = {1, 3}
    DiversityPenalty = 5
    FeePenalty = 1
    Infinite = 1000
    MaxAge = 1
    MaxTime = 1
INVARIANTS
    TypeOK
    PathsCarryPayment
    NothingMissed
    DiverseIfPossible
    AnswerHasRows
PROPERTIES
    FirstFeedbackStands
CHECK_DEADLOCK FALSE
