\* Orderly and disorderly environments: what holds in each.
SPECIFICATION Spec
CONSTANTS
    h1 = h1  h2 = h2  h3 = h3  h4 = h4
    Direct = {"d"}
    Content <- MCContent
    Drafted = {"w"}
    Handlers = {h1, h2, h3, h4}
    Regimes = {TRUE, FALSE}
    NoRow = NoRow
    NoSid = NoSid
SYMMETRY HandlerSymmetry
INVARIANTS
    NoSendWithoutApproval
    HistoryShowsWhatShipped
    NoSecretLeaves
    SettledWhenIdle
PROPERTIES
    RejectedIsFinal
    OrderlyDeliveredIsFinal
    OrderlyRetryNeverResends
CHECK_DEADLOCK FALSE
