\* Paging while messages are sent, with MessagesLimit scaled to 2.
CONSTANTS
    s1 = s1
    s2 = s2
    Senders <- MCSenders
    MessagesLimit = 2
    MaxMsgs = 5
    MaxSecond = 1
    NoMsg = NoMsg
    Pager = Pager
SPECIFICATION Spec
PROPERTY PageIsExact
\* The message budget runs out and the client reaches the last page.
CHECK_DEADLOCK FALSE
