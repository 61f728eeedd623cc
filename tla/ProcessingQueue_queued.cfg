CONSTANTS
    Clients = {c1}
    Workers = {w1}
    Admins = {}
    Readers = {}
    Nobody = Nobody
    Attempts = 3
    MaxStalled = 1
    MaxAdds = 1
    MaxRetries = 0
    MaxExpiries = 2
SPECIFICATION Spec
PROPERTIES
    QueuedIsLive
CHECK_DEADLOCK FALSE
