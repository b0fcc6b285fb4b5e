\* The process dies and restarts around a pause.
SPECIFICATION Spec
CONSTANTS
    r1 = r1  r2 = r2  d1 = d1  d2 = d2  d3 = d3
    Runs = {r1, r2}
    Decisions = {d1, d2, d3}
    NoRun = NoRun
    Regimes = {FALSE}
INVARIANT
    PausedIsDecidable
CHECK_DEADLOCK FALSE
