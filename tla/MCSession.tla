------------------------------ MODULE MCSession ------------------------------
EXTENDS Session, TLC

CONSTANTS d1, d2, u1, r1, r2, r3

\* Two browsers of one user; two concurrent requests from the first.
MCDevices == {d1, d2}
MCUserOf == [d \in MCDevices |-> u1]
MCReqs == {r1, r2, r3}
MCDevOfReq == (r1 :> d1) @@ (r2 :> d1) @@ (r3 :> d2)
=============================================================================
