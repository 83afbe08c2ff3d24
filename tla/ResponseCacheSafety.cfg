SPECIFICATION Spec
CONSTANTS
    u1 = u1  u2 = u2  u3 = u3
    Callers = {c1, c2, c3}
    Urls = {u1}
    PathOf <- MCPathOf
    ttls <- MCttls
    Entries = {e1, e2, e3, e4}
    NoEntry = NoEntry
    MaxTime = 2
    TTL = 2
SYMMETRY Symmetry
INVARIANTS IInv OneFetchPerUrl AnswersAreCurrent FailuresNotKept CancelIsPrivate
PROPERTIES PublishedEntriesImmutable ImplementsSharedFetch
