----------------------------- MODULE MCBilling -----------------------------
EXTENDS Account, TLC

CONSTANTS c1, c2, c3, p1, p2, r1, r2

MCCus == {c1, c2, c3}
MCPMs == {p1, p2}
MCReqs == {r1, r2}

\* Customer ids, payment method ids and request slots are interchangeable.
MCSymmetry == Permutations(MCCus) \cup Permutations(MCPMs) \cup Permutations(MCReqs)
=============================================================================
