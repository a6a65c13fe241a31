\* SignOut racing a renewal of the same session by another request.
CONSTANTS
    d1 = d1
    d2 = d2
    u1 = u1
    r1 = r1
    r2 = r2
    r3 = r3
    NoSid = NoSid
    Devices <- MCDevices
    UserOf <- MCUserOf
    Reqs <- MCReqs
    DevOfReq <- MCDevOfReq
    MaxSessions = 3
SPECIFICATION Spec
INVARIANT SignOutIsFinal
CHECK_DEADLOCK FALSE
