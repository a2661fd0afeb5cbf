----------------------- MODULE MCSubscriptionAllowance -----------------------
EXTENDS SubscriptionAllowance, TLC

CONSTANTS small, large, s1, s2, c1, c2, w1, w2

MCIncluded == [k \in Skus |-> IF k = small THEN 1 ELSE 2]

\* Two consumers of two sources on one plan, with a credit to fall back on; two
\* handlers of the events of a subscription that is upgraded, or downgraded, the
\* change asked for again when it was lost.
MCEnvironments ==
    {[sources |-> {s1, s2}, consumers |-> {c1, c2}, syncers |-> {w1},
      plans |-> {small}, changes |-> {}, credits |-> 1, periods |-> 3],
     [sources |-> {s1}, consumers |-> {c1}, syncers |-> {w1, w2},
      plans |-> {small, large}, changes |-> {<<small, large>>, <<large, large>>}, credits |-> 0, periods |-> 2],
     [sources |-> {}, consumers |-> {}, syncers |-> {w1, w2},
      plans |-> {large}, changes |-> {<<large, small>>, <<small, small>>}, credits |-> 0, periods |-> 2]}

Symmetry == Permutations(Sources) \cup Permutations(Consumers) \cup Permutations(Syncers)
=============================================================================
