\* Two concurrent senders and one stream whose go-redis buffer holds one
\* message, so that a PUBLISH can find it full and be dropped.
CONSTANTS
    s1 = s1
    s2 = s2
    l1 = l1
    Senders <- MCSenders
    Listeners <- MCListeners
    MaxMsgs = 3
    FeedCap = 1
    NoMsg = NoMsg

SPECIFICATION Spec

 
PROPERTY EventualDelivery

\* The bounded message budget runs out and every stream ends: the server
\* is then idle.
CHECK_DEADLOCK FALSE
