---------------------------- MODULE MCPentestRuns ----------------------------
EXTENDS PentestRuns, TLC

CONSTANTS u1, w1, w2, pot, g, r1, r2, r3, s1, s2, s3

MCGrantPot == g :> pot
MCGrantSize == g :> 2

Environment(runs, ends, attempts, bound, early, concurrent) ==
    [runs |-> runs, ends |-> ends, attempts |-> attempts, faults |-> bound,
     early |-> early, concurrent |-> concurrent]

\* Early and concurrent deliveries with two faults; three runs whose failures
\* race; three runs under orderly deliveries with a fault.
MCEnvironments ==
    {Environment({r1, r2}, EventTypes, 2, 2, TRUE, TRUE),
     Environment({r1, r2, r3}, {"failed"}, 3, 0, TRUE, TRUE),
     Environment({r1, r2, r3}, EventTypes, 3, 1, FALSE, FALSE)}
Early == {Environment({r1, r2}, EventTypes, 2, 0, TRUE, FALSE)}

Symmetry == Permutations(Runs) \cup Permutations(Sources) \cup Permutations(Workers)

Quiet ==
    /\ \A p \in Calls : call[p] = Idle
    /\ \A r \in Runs : events[r] = acked[r]

\* "A failed run is always refunded ... net effect: a failed scan is never
\* charged": when every run has failed and every webhook is delivered and
\* handled, no charge remains.
FailedScanNeverCharged ==
    (Quiet /\ \A r \in Runs : status[r] \in {"none", "failed"})
        => \A s \in Sources : chargedTo[s] # NoPot => s \in refunded
=============================================================================
