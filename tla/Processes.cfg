\* Five philosophers, as in the code, one may be killed; three clients on a
\* queue of two messages, two may be killed; a queue of three messages,
\* filled before and during mq-notify; two clients of the forking server,
\* whose lines may come back in two parts.
CONSTANTS
    N = 5
    MaxKills = 1
    EchoClients = {c1, c2, c3}
    ForkClients = {c1, c2}
    Lines = {"a", "b"}
    Capacity = 2
    MaxClientKills = 2
    MaxMsg = 3
    MaxSends = 12
    EarlyMsgs = TRUE
    MaxLines = 2
    Block = 2
SPECIFICATION MCSpec
INVARIANTS
    ForksExclusive
    OneUnderWay
    NeverDeaf
PROPERTIES
    Progress
    AnsweredUnlessStuck
    ZombiesReaped
    ReaderAnswered
    ConnectionsReleased
