\* Three descriptors for four clients, buffers of two units.
CONSTANTS
    c1 = c1
    c2 = c2
    c3 = c3
    c4 = c4
    None = None
    Kinds = {"select", "poll", "epoll"}
    Clients <- MCClients
    MaxMsgs <- MCMaxMsgs
    Returning = {c3, c4}
    MaxFds = 3
    B = 2
    Size = 2
SPECIFICATION MCSpec
INVARIANTS
    NeverBlocks
    OwnDataBack
    DownForReason
PROPERTY EverybodyServed
\* All clients may have left, or the server is down.
CHECK_DEADLOCK FALSE
