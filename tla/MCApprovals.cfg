\* Orderly and disorderly environments: what holds in each.
SPECIFICATION FairSpec
CONSTANTS
    r1 = r1  r2 = r2  d1 = d1  d2 = d2  d3 = d3
    Runs = {r1, r2}
    Decisions = {d1, d2, d3}
    NoRun = NoRun
    Regimes = {TRUE, FALSE}
INVARIANTS
    PendingIsPaused
    ActsAsDecided
    OrderlyPausedIsDecidable
PROPERTIES
    OrderlyDecidedIsFinal
    DecisionCarriedOut
CHECK_DEADLOCK FALSE
