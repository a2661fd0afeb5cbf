--------------------------- MODULE AllowanceLedger ---------------------------
(***************************************************************************)
(* What the billing code promises its callers, with every operation        *)
(* atomic: allowance lies in pots; a grant key adds to its pot at most     *)
(* once; a resource (a scan, a background check) is charged against one    *)
(* pot at most once; a charge is given back at most once, to the pot it    *)
(* came from, and the resource's key stays spent for good.                 *)
(***************************************************************************)
EXTENDS Naturals

CONSTANTS
    Pots,       \* places allowance is kept in
    NoPot,      \* the value of chargedTo for a resource never charged
    Sources,    \* sourceResourceIds: what an allowance is spent on
    Grants,     \* the keys of grants
    GrantPot,   \* the pot a grant adds to
    GrantSize   \* how much it adds

ASSUME LedgerAssumption ==
    /\ NoPot \notin Pots
    /\ GrantPot \in [Grants -> Pots]
    /\ GrantSize \in [Grants -> Nat \ {0}]

VARIABLES
    funds,      \* allowance left in each pot
    granted,    \* the grants made
    chargedTo,  \* the pot each resource was charged to
    refunded    \* the resources whose charge was given back

ledgerVars == <<funds, granted, chargedTo, refunded>>

LedgerTypeOK ==
    /\ funds \in [Pots -> Nat]
    /\ granted \subseteq Grants
    /\ chargedTo \in [Sources -> Pots \cup {NoPot}]
    /\ refunded \subseteq {s \in Sources : chargedTo[s] # NoPot}

LedgerInit ==
    /\ funds = [p \in Pots |-> 0]
    /\ granted = {}
    /\ chargedTo = [s \in Sources |-> NoPot]
    /\ refunded = {}

Grant(g) ==
    /\ g \notin granted
    /\ granted' = granted \cup {g}
    /\ funds' = [funds EXCEPT ![GrantPot[g]] = @ + GrantSize[g]]
    /\ UNCHANGED <<chargedTo, refunded>>

Charge(s, p) ==
    /\ chargedTo[s] = NoPot
    /\ funds[p] > 0
    /\ funds' = [funds EXCEPT ![p] = @ - 1]
    /\ chargedTo' = [chargedTo EXCEPT ![s] = p]
    /\ UNCHANGED <<granted, refunded>>

Refund(s) ==
    /\ chargedTo[s] # NoPot
    /\ s \notin refunded
    /\ funds' = [funds EXCEPT ![chargedTo[s]] = @ + 1]
    /\ refunded' = refunded \cup {s}
    /\ UNCHANGED <<granted, chargedTo>>

LedgerNext ==
    \/ \E g \in Grants : Grant(g)
    \/ \E s \in Sources, p \in Pots : Charge(s, p)
    \/ \E s \in Sources : Refund(s)

LedgerSpec == LedgerInit /\ [][LedgerNext]_ledgerVars
=============================================================================
