\* Two admin retries of one failed message, overlapping.
SPECIFICATION Spec
CONSTANTS
    h1 = h1  h2 = h2  h3 = h3  h4 = h4
    Direct = {}
    Content <- MCNoContent
    Drafted = {"w"}
    Handlers = {h1, h2, h3, h4}
    Regimes = {FALSE}
    NoRow = NoRow
    NoSid = NoSid
PROPERTY
    RetryNeverResends
CHECK_DEADLOCK FALSE
