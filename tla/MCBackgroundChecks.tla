------------------------- MODULE MCBackgroundChecks -------------------------
EXTENDS BackgroundChecks, TLC

CONSTANTS u1, u2, w1, pot, g, m1, m2

MCGrantPot == g :> pot
MCGrantSize == g :> 1
=============================================================================
