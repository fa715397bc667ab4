----------------------------- MODULE MCServices -----------------------------
EXTENDS Services

CONSTANTS p1, p2, e1, e2, ra, rb, g1, g2, r1, r2

MCBases == {<<"s">>}
=============================================================================
