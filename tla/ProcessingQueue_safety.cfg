CONSTANTS
    Clients = {c1}
    Workers = {w1, w2}
    Admins = {a1}
    Readers = {d1}
    Nobody = Nobody
    Attempts = 2
    MaxStalled = 1
    MaxAdds = 2
    MaxRetries = 1
    MaxExpiries = 2
SPECIFICATION FairSpec
INVARIANTS
    TypeOK
    JobEndIsTrue
    StartsBounded
    OverlapNeedsExpiry
PROPERTIES
    QueuedSettles
CHECK_DEADLOCK FALSE
