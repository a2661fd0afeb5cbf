-------------------------- MODULE MCBillingCredits --------------------------
EXTENDS BillingCredits, TLC

CONSTANTS c1, c2, product, sku, s1, s2, k1, k2, k3, g1, g2, g3

MCKeyScope == k1 :> product @@ k2 :> sku @@ k3 :> product
MCKeyAmount == k1 :> 1 @@ k2 :> 1 @@ k3 :> 1
MCRequestKey == g1 :> k1 @@ g2 :> k2 @@ g3 :> k3
=============================================================================
