SPECIFICATION Spec
CONSTANTS
    a1 = a1  a2 = a2  a3 = a3
    r1 = r1  r2 = r2
    Attempts = {a1, a2, a3}
    Runs = {r1, r2}
    NoRun = NoRun
    Args = {"x"}
    Stamps = {"s", "t"}
    Tools <- MCTools
    NoWrite = NoWrite
    NoAnswer = NoAnswer
    Error = Error
SYMMETRY AttemptSymmetry
INVARIANTS
    AtMostOnce
    ReplayReturnsOriginal
    LedgerTellsTheTruth
PROPERTIES
    ImplementsAtMostOnceWrite
CHECK_DEADLOCK FALSE
