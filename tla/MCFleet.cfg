\* Three commands one after the other; each may end anywhere.
SPECIFICATION Spec
CONSTANTS
    Clients = {"acme", "bolt"}
    Position <- MCPosition
    Hosted <- MCHosted
    Releases = {"v1"}
    Latest = "latest"
    NoClient = "none"
    t1 = t1
    Terminals = {t1}
    FirstTfvars <- MCTfvars
    OffboardArgs <- RunbookArgs
    MaxCommands = 3
    MaxWrites = 2
    Regimes = {TRUE}
INVARIANTS
    PinIsVerified
    WalkLeavesGoodBehind
    MarkIsBacked
PROPERTY
    DestroyIsDelivered
CHECK_DEADLOCK FALSE
