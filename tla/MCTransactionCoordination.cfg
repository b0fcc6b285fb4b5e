\* Orderly and disorderly environments: what holds in each.
SPECIFICATION FairSpec
CONSTANTS
    Txns = {"t1", "t2"}
    Timeline <- MCTimeline
    Parties <- MCParties
    Passes = {1, 2}
    Decisions = {1, 2}
    NoRun = NoRun
    LastDay = 2
    Regimes <- MCRegimes
INVARIANTS
    LevelsTellEscalations
    OutwardStepsAreApproved
    SuccessMeansOverdueAsked
    OrderlyGatesNeverStack
PROPERTY
    PassIsRecorded
CHECK_DEADLOCK FALSE
