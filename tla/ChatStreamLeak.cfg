\* A stream cancelled while the controller goroutine holds a message.
CONSTANTS
    s1 = s1
    s2 = s2
    l1 = l1
    Senders <- MCSenders
    Listeners <- MCListeners
    MaxMsgs = 2
    FeedCap = 2
    NoMsg = NoMsg
SPECIFICATION Spec
PROPERTY GoroutinesExitAfterCancel
CHECK_DEADLOCK FALSE
