\* Two concurrent requests, two of them in all; three customer ids, so
\* that signup and two recreations each find a fresh one; two cards.
CONSTANTS
    c1 = c1
    c2 = c2
    c3 = c3
    p1 = p1
    p2 = p2
    r1 = r1
    r2 = r2
    NoCus = NoCus
    NoPM = NoPM
    NoPlan = NoPlan
    Cus <- MCCus
    PMs <- MCPMs
    Reqs <- MCReqs
    MaxReqs = 2
    MaxAuth = 3
    MaxPwd = 1
SPECIFICATION Spec
SYMMETRY MCSymmetry
INVARIANT TrialMarkedOnlyIfGranted GoogleSessionHasCustomer
CHECK_DEADLOCK FALSE
