\* A client paging by offset while messages are sent.
CONSTANTS
    s1 = s1
    s2 = s2
    Senders <- MCSenders
    MessagesLimit = 2
    MaxMsgs = 4
    MaxSecond = 1
    NoMsg = NoMsg
    Pager = Pager
SPECIFICATION Spec
INVARIANT NoDuplicateAcrossPages
\* The message budget runs out and the client reaches the last page.
CHECK_DEADLOCK FALSE
