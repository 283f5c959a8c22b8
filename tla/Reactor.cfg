\* A table of two entries, swept one at a time; descriptors for two or three
\* connections; buffers of two units.
CONSTANTS
    c1 = c1
    c2 = c2
    c3 = c3
    None = None
    Clients <- MCClients
    MaxUnits <- MCMaxUnits
    Leavers <- MCLeavers
    MAX_EVENTS = 2
    Limits = {2, 3}
    BUFLEN = 2
    Timeout = 1
    Sweep = 1
SPECIFICATION Spec
INVARIANT EchoedInOrder
PROPERTIES
    ClosedForReason
    IdleClosed
\* All clients may have left, or the server is down.
CHECK_DEADLOCK FALSE
