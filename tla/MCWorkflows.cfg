SPECIFICATION Spec
CONSTANTS
    r1 = r1  r2 = r2
    d1 = d1  d2 = d2
    Runs = {r1, r2}
    Decisions = {d1, d2}
    Calls = {"k"}
    Transcripts <- MCTranscripts
    MlsStates <- MCMlsStates
    Gone = Gone
    None = None
    MaxChanges = 2
    Regimes <- MCRegimes
INVARIANTS
    EffectsMatchVerdict
    CallIsFiled
PROPERTIES
    HotLeadReachesAgent
CHECK_DEADLOCK FALSE
