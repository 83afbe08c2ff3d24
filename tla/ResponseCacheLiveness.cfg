SPECIFICATION StuckUpstreamSpec
CONSTANTS
    u1 = u1  u2 = u2  u3 = u3
    Callers = {c1, c2}
    Urls = {u1, u2, u3}
    PathOf <- MCPathOf
    ttls <- MCttls
    Entries = {e1, e2, e3, e4}
    NoEntry = NoEntry
    MaxTime = 1
    TTL = 1
INVARIANTS KeyIntegrity
PROPERTIES EveryCallReturns WaiterHonoursDeadline
