\* A participant listening while the other one sends.
CONSTANTS
    u1 = u1
    u2 = u2
    Users <- MCUsers
    C = C
    NoConv = NoConv
    Absent = Absent
    MaxMsgs = 2
SPECIFICATION Spec
PROPERTY ListenerNotCounted
\* Once every participant is idle after a failed CreateConversation nobody
\* can reach the conversation: the server is idle.
CHECK_DEADLOCK FALSE
