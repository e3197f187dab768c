SPECIFICATION Spec
INVARIANTS ExchangedKeyIsGone SessionsEndInTime
CONSTANTS
    Req = {r1, r2}
    Token = {t1, t2}
    NoToken = NoToken
    AccessTTL = 3
    CacheTTL = 1
    MaxRequest = 0
    MaxTime = 5
    MaxFailures = 1
    MaxActs = 1
CHECK_DEADLOCK FALSE
