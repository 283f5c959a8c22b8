\* The session of readme.md: mq-notify is started, then four mq-send.
CONSTANTS
    MaxMsg = 10
    MaxSends = 4
    EarlyMsgs = FALSE
SPECIFICATION Spec
PROPERTY AllReceived
\* The process waits for a signal in the end.
CHECK_DEADLOCK FALSE
