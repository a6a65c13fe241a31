\* Two browsers of one user, the first with two requests in flight; two
\* session ids, enough for a stale id in the index when a SignOut syncs.
CONSTANTS
    d1 = d1
    d2 = d2
    u1 = u1
    r1 = r1
    r2 = r2
    r3 = r3
    NoSid = NoSid
    Devices <- MCDevices
    UserOf <- MCUserOf
    Reqs <- MCReqs
    DevOfReq <- MCDevOfReq
    MaxSessions = 2
SPECIFICATION Spec
INVARIANT SignedOutSessionForgotten
CHECK_DEADLOCK FALSE
