-------------------------- MODULE MCCredentialVault --------------------------
EXTENDS CredentialVault, TLC

CONSTANTS c1, c2, c3, k1

Symmetry == Permutations(Callers)
=============================================================================
