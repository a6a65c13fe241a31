\* Two participants sending and listening concurrently.
CONSTANTS
    u1 = u1
    u2 = u2
    Users <- MCUsers
    C = C
    NoConv = NoConv
    Absent = Absent
    MaxMsgs = 3
SPECIFICATION Spec
INVARIANT TypeOK
INVARIANT UnreadBoundedBySent
\* Once every participant is idle after a failed CreateConversation nobody
\* can reach the conversation: the server is idle.
CHECK_DEADLOCK FALSE
