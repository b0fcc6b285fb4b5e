\* One operator, two links, two redemptions in flight; a session outlives
\* several access tokens and the clock outlives a session.
SPECIFICATION Spec
CONSTANTS
    l1 = l1  l2 = l2  u1 = u1  u2 = u2
    Emails = {"op"}
    Addresses = {"op", "op_"}
    strip <- MCStrip
    Links = {l1, l2}
    Redeemers = {u1, u2}
    NoLink = NoLink
    Role = {"viewer", "admin"}
    LINK_TTL = 1
    ACCESS_TTL = 2
    REFRESH_TTL = 3
    _RATE_WINDOW = 2
    _RATE_MAX = 1
    MaxTime = 5
SYMMETRY MCSymmetry
INVARIANTS
    LinkRedeemedOnce
    SessionsEnd
    LinksThrottled
CHECK_DEADLOCK FALSE
