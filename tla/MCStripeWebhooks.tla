-------------------------- MODULE MCStripeWebhooks --------------------------
EXTENDS StripeWebhooks, TLC

CONSTANTS e1, e2, h1, h2, h3

Symmetry == Permutations(Handlers)
=============================================================================
