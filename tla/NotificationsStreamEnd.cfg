\* A createNotification failure on R's side of a like, while R is online
\* and listening.
CONSTANTS
    d1 = d1
    l1 = l1
    Devices <- MCDevices
    Likers <- MCLikers
    MaxSends = 2
SPECIFICATION Spec
INVARIANT StreamEndsOnlyOnCancel
CHECK_DEADLOCK FALSE
