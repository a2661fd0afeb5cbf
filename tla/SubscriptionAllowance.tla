------------------------ MODULE SubscriptionAllowance ------------------------
(***************************************************************************)
(* The monthly allowance of one Stripe subscription item                   *)
(* (apps/api/src/billing): consumption and refund of included usage, with  *)
(* the credit wallet as fallback (billing-entitlements.service.ts,         *)
(* billing-included-usage-refunds.ts), the sync of Stripe's webhook events *)
(* into the local row, and the plan change that rewrites the row in place  *)
(* (billing-subscription-plans.ts).  Stripe's events arrive late, repeated *)
(* and in any order; a database statement or transaction is one step.      *)
(***************************************************************************)
EXTENDS Naturals, Sequences, FiniteSets

CONSTANTS
    Skus,           \* plans of the product
    Included,       \* includedUsage.quantity of each plan
    Sources,        \* sourceResourceIds an allowance is spent on
    Consumers,      \* concurrent consume calls
    Syncers,        \* concurrent webhook handlers
    Environments,   \* what may happen, see env
    None            \* no row, no snapshot, no source

ASSUME AllowanceAssumption ==
    /\ Included \in [Skus -> Nat \ {0}]
    /\ Environments \subseteq
         [sources : SUBSET Sources, consumers : SUBSET Consumers, syncers : SUBSET Syncers,
          plans : SUBSET Skus, changes : SUBSET (Skus \X Skus),
          credits : Nat, periods : Nat \ {0}]
    /\ None \notin Skus \cup Sources
    /\ None \notin [sku : Skus, period : Nat, live : BOOLEAN]
    /\ None \notin [sku : Skus, period : Nat, live : BOOLEAN, included : Nat, used : Nat]

VARIABLES
    now,            \* the current billing period
    stripe,         \* the subscription item at Stripe
    snapshots,      \* its states that webhook events carry
    row,            \* the local OrganizationBillingSubscription
    grants,         \* grant events of each period
    given,          \* the allowance they and upgrades add up to
    usage,          \* the plans each source's consume events name, oldest first
    refundedUse,    \* refund events: pairs <<plan, source>>
    credits,        \* the credit wallet's balance
    creditUse,      \* what the wallet knows of each source
    consume,        \* consume calls
    sync,           \* webhook handlers
    change,         \* the plan-change call
    env             \* chosen once: who acts, the plans and the changes <<from, to>>
                    \* of customers, the credits of the wallet, the bound on periods

stripeVars == <<now, stripe, snapshots, env>>
grantVars == <<grants, given>>
usageVars == <<usage, refundedUse>>
creditVars == <<credits, creditUse>>
vars == <<stripeVars, row, grantVars, usageVars, creditVars, consume, sync, change>>

Periods == 1..env.periods
Item == [sku : Skus, period : Periods, live : BOOLEAN]
RowType == [sku : Skus, period : Periods, live : BOOLEAN, included : Nat, used : Nat]

NoCall == [at |-> "idle", source |-> None, sub |-> None]
NoSync == [at |-> "idle", event |-> None, seen |-> 0, tries |-> 0]
NoChange == [at |-> "idle", reply |-> None]

-----------------------------------------------------------------------------
(* Stripe: what happens there, each time with an event that carries it *)

Becomes(item) == stripe' = item /\ snapshots' = snapshots \cup {item} /\ UNCHANGED env

Subscribe(k) ==
    /\ stripe = None /\ k \in env.plans
    /\ Becomes([sku |-> k, period |-> now, live |-> TRUE])
    /\ UNCHANGED <<now, row, grantVars, usageVars, creditVars, consume, sync, change>>

Renew ==
    /\ now < env.periods /\ now' = now + 1
    /\ IF stripe # None /\ stripe.live THEN Becomes([stripe EXCEPT !.period = now + 1])
                                       ELSE UNCHANGED <<stripe, snapshots, env>>
    /\ UNCHANGED <<row, grantVars, usageVars, creditVars, consume, sync, change>>

Cancel ==
    /\ stripe # None /\ stripe.live
    /\ Becomes([stripe EXCEPT !.live = FALSE])
    /\ UNCHANGED <<now, row, grantVars, usageVars, creditVars, consume, sync, change>>

-----------------------------------------------------------------------------
(* tryConsumeIncludedUsageForProduct *)

Usable(sub) == sub # None /\ sub.live /\ sub.period >= now

Spent(sub) == sub.used >= sub.included

Charged(k, s) == \E i \in DOMAIN usage[s] : usage[s][i] = k

ConsumeGoto(c, step) == consume' = [consume EXCEPT ![c].at = step]
ConsumeDone(c) == consume' = [consume EXCEPT ![c] = NoCall]

StartConsume(c, s) ==
    /\ consume[c].at = "idle"
    /\ consume' = [consume EXCEPT ![c] = [NoCall EXCEPT !.at = "find", !.source = s]]
    /\ UNCHANGED <<stripeVars, row, grantVars, usageVars, creditVars, sync, change>>

\* The active subscription; with its allowance spent, an earlier consume event
\* of the source under any plan is the answer.
FindSubscription(c) ==
    /\ consume[c].at = "find"
    /\ \/ ~Usable(row) /\ ConsumeGoto(c, "credit")
       \/ /\ Usable(row) /\ Spent(row)
          /\ IF usage[consume[c].source] # <<>> THEN ConsumeDone(c)
                                                ELSE ConsumeGoto(c, "credit")
       \/ /\ Usable(row) /\ ~Spent(row)
          /\ consume' = [consume EXCEPT ![c].at = "read", ![c].sub = row]
    /\ UNCHANGED <<stripeVars, row, grantVars, usageVars, creditVars, sync, change>>

\* tryConsumeIncludedUsage reads the row of that plan again, then looks for
\* the consume event of plan and source.
ReadSubscription(c) ==
    LET sub == IF row.sku = consume[c].sub.sku THEN row ELSE None
        k == consume[c].sub.sku
        s == consume[c].source IN
    /\ consume[c].at = "read"
    /\ \/ /\ sub # None /\ Charged(k, s)
          /\ IF sub.live THEN ConsumeDone(c) ELSE ConsumeGoto(c, "credit")
       \/ /\ sub = None \/ ~Charged(k, s)
          /\ IF Usable(sub) /\ ~Spent(sub)
             THEN consume' = [consume EXCEPT ![c].at = "debit", ![c].sub = sub]
             ELSE ConsumeGoto(c, "credit")
    /\ UNCHANGED <<stripeVars, row, grantVars, usageVars, creditVars, sync, change>>

\* Variant: the increment is not conditional on the allowance.
RoomUnchecked(sub) == TRUE

\* The increment's WHERE clause, against the allowance read before.
Room(sub) == row.used < sub.included

\* The unique key of the consume event.
KeyTaken(k, s) == Charged(k, s)

Debit(c) ==
    LET sub == consume[c].sub
        s == consume[c].source IN
    /\ consume[c].at = "debit"
    /\ \/ /\ KeyTaken(sub.sku, s)
          /\ ConsumeDone(c) /\ UNCHANGED <<row, usage>>
       \/ /\ ~KeyTaken(sub.sku, s) /\ Room(sub)
          /\ row' = [row EXCEPT !.used = @ + 1]
          /\ usage' = [usage EXCEPT ![s] = Append(@, sub.sku)]
          /\ ConsumeDone(c)
       \/ /\ ~KeyTaken(sub.sku, s) /\ ~Room(sub)
          /\ ConsumeGoto(c, "credit") /\ UNCHANGED <<row, usage>>
    /\ UNCHANGED <<stripeVars, grantVars, refundedUse, creditVars, sync, change>>

\* tryConsumeCreditFallback: the wallet charges a source at most once.
CreditFallback(c) ==
    LET s == consume[c].source IN
    /\ consume[c].at = "credit"
    /\ IF creditUse[s] = "none" /\ credits > 0
       THEN /\ credits' = credits - 1
            /\ creditUse' = [creditUse EXCEPT ![s] = "charged"]
       ELSE UNCHANGED creditVars
    /\ ConsumeDone(c)
    /\ UNCHANGED <<stripeVars, row, grantVars, usageVars, sync, change>>

-----------------------------------------------------------------------------
(* refundIncludedUsageForProduct *)

\* Variant: the refund event has no unique key.
ReturnedUnchecked(k, s) == FALSE

\* The unique key of the refund event.
Returned(k, s) == <<k, s>> \in refundedUse

\* Variant: the decrement is not conditional.
ReturnUnchecked(k) == row.sku = k

\* The decrement's WHERE clause.
Returnable(k) == row.sku = k /\ row.used > 0

\* The latest consume event of the source is refunded under its own key; the
\* counter goes back only on a row that still has that plan.
RefundUsage(s) ==
    LET k == usage[s][Len(usage[s])] IN
    /\ usage[s] # <<>> /\ ~Returned(k, s)
    /\ refundedUse' = refundedUse \cup {<<k, s>>}
    /\ row' = IF Returnable(k) THEN [row EXCEPT !.used = @ - 1] ELSE row
    /\ UNCHANGED <<stripeVars, grantVars, usage, creditVars, consume, sync, change>>

\* Without one, the wallet refunds.
RefundCredit(s) ==
    /\ usage[s] = <<>> /\ creditUse[s] = "charged"
    /\ creditUse' = [creditUse EXCEPT ![s] = "refunded"]
    /\ credits' = credits + 1
    /\ UNCHANGED <<stripeVars, row, grantVars, usageVars, consume, sync, change>>

-----------------------------------------------------------------------------
(* syncSubscriptionItem *)

SyncDone(w) == sync' = [sync EXCEPT ![w] = NoSync]

\* Any event, however old, however often.
StartSync(w, e) ==
    /\ sync[w].at = "idle" /\ e \in snapshots
    /\ sync' = [sync EXCEPT ![w] = [NoSync EXCEPT !.at = "read", !.event = e]]
    /\ UNCHANGED <<stripeVars, row, grantVars, usageVars, creditVars, consume, change>>

\* Variant: an event of an earlier period is not refused.
StaleUnchecked(existing, e) == FALSE

Stale(existing, e) == existing # None /\ existing.period > e.period

SyncRead(w) ==
    LET e == sync[w].event
        existing == IF row # None /\ row.sku = e.sku THEN row ELSE None IN
    /\ sync[w].at = "read"
    /\ \/ Stale(existing, e) /\ SyncDone(w)
       \/ /\ ~Stale(existing, e)
          /\ sync' = [sync EXCEPT ![w].at = "write",
                         ![w].seen = IF existing = None THEN 0 ELSE existing.period]
    /\ UNCHANGED <<stripeVars, row, grantVars, usageVars, creditVars, consume, change>>

\* A new period resets the counter and records a grant.
GrantPeriod(e) ==
    /\ grants' = [grants EXCEPT ![e.period] = @ + 1]
    /\ given' = given + Included[e.sku]

\* No row of the plan: create it, unless the item has one (a unique violation
\* ends the sync without a word).
SyncCreate(w) ==
    LET e == sync[w].event IN
    /\ sync[w].at = "write" /\ sync[w].seen = 0
    /\ IF row # None THEN UNCHANGED <<row, grantVars>>
       ELSE /\ row' = [sku |-> e.sku, period |-> e.period, live |-> e.live,
                       included |-> Included[e.sku], used |-> 0]
            /\ GrantPeriod(e)
    /\ SyncDone(w)
    /\ UNCHANGED <<stripeVars, usageVars, creditVars, consume, change>>

\* Variant: the update does not compare the period it read.
SeenUnchecked(w) == TRUE

\* The update's WHERE clause: the period is still the one read.
StillSeen(w) == row.period = sync[w].seen

SyncUpdate(w) ==
    LET e == sync[w].event IN
    /\ sync[w].at = "write" /\ sync[w].seen > 0
    /\ IF StillSeen(w)
       THEN /\ row' = [row EXCEPT !.period = e.period, !.live = e.live,
                          !.included = Included[e.sku],
                          !.used = IF sync[w].seen = e.period THEN @ ELSE 0]
            /\ IF sync[w].seen = e.period THEN UNCHANGED grantVars ELSE GrantPeriod(e)
            /\ SyncDone(w)
       ELSE /\ sync' = [sync EXCEPT ![w] =
                          IF @.tries = 0 THEN [@ EXCEPT !.at = "read", !.tries = 1]
                                         ELSE NoSync]
            /\ UNCHANGED <<row, grantVars>>
    /\ UNCHANGED <<stripeVars, usageVars, creditVars, consume, change>>

-----------------------------------------------------------------------------
(* changeSubscriptionPlan *)

\* createSubscriptionCheckoutSession: another plan than the row's.
Changeable(k) == row # None /\ row.live /\ row.sku # k

ChangeAtStripe(k) ==
    /\ change.at = "idle"
    /\ Changeable(k) /\ stripe.live
    /\ <<stripe.sku, k>> \in env.changes
    /\ Becomes([stripe EXCEPT !.sku = k])
    /\ change' = [at |-> "store", reply |-> [stripe EXCEPT !.sku = k]]
    /\ UNCHANGED <<now, row, grantVars, usageVars, creditVars, consume, sync>>

\* The row is renamed in place; what was used stays, an upgrade adds the rest.
StoreChange ==
    LET item == change.reply IN
    /\ change.at = "store"
    /\ row' = [row EXCEPT !.sku = item.sku, !.period = item.period,
                  !.live = item.live, !.included = Included[item.sku]]
    /\ given' = IF Included[item.sku] > row.included
                THEN given + (Included[item.sku] - row.included) ELSE given
    /\ change' = NoChange
    /\ UNCHANGED <<stripeVars, grants, usageVars, creditVars, consume, sync>>

\* The process ends, or the statement fails, after Stripe was told.
ChangeDies ==
    /\ change.at = "store" /\ change' = NoChange
    /\ UNCHANGED <<stripeVars, row, grantVars, usageVars, creditVars, consume, sync>>

-----------------------------------------------------------------------------
Init ==
    /\ env \in Environments
    /\ now = 1 /\ stripe = None /\ snapshots = {}
    /\ row = None
    /\ grants = [p \in Periods |-> 0] /\ given = 0
    /\ usage = [s \in Sources |-> <<>>] /\ refundedUse = {}
    /\ credits = env.credits
    /\ creditUse = [s \in Sources |-> "none"]
    /\ consume = [c \in Consumers |-> NoCall]
    /\ sync = [w \in Syncers |-> NoSync]
    /\ change = NoChange

Consume(c) == FindSubscription(c) \/ ReadSubscription(c) \/ Debit(c) \/ CreditFallback(c)

Sync(w) == SyncRead(w) \/ SyncCreate(w) \/ SyncUpdate(w)

Next ==
    \/ \E k \in Skus : Subscribe(k) \/ ChangeAtStripe(k)
    \/ Renew \/ Cancel
    \/ \E c \in env.consumers, s \in env.sources : StartConsume(c, s)
    \/ \E c \in Consumers : Consume(c)
    \/ \E s \in Sources : RefundUsage(s) \/ RefundCredit(s)
    \/ \E w \in env.syncers, e \in snapshots : StartSync(w, e)
    \/ \E w \in Syncers : Sync(w)
    \/ StoreChange \/ ChangeDies

Spec == Init /\ [][Next]_vars

-----------------------------------------------------------------------------
(* Properties *)

TypeOK ==
    /\ now \in Periods
    /\ stripe \in Item \cup {None} /\ snapshots \subseteq Item
    /\ row \in RowType \cup {None}
    /\ grants \in [Periods -> Nat] /\ given \in Nat
    /\ usage \in [Sources -> Seq(Skus)]
    /\ refundedUse \subseteq Skus \X Sources
    /\ credits \in Nat
    /\ creditUse \in [Sources -> {"none", "charged", "refunded"}]
    /\ consume \in [Consumers -> [at : {"idle", "find", "read", "debit", "credit"},
                                  source : Sources \cup {None},
                                  sub : RowType \cup {None}]]
    /\ sync \in [Syncers -> [at : {"idle", "read", "write"},
                             event : Item \cup {None},
                             seen : Nat, tries : {0, 1}]]
    /\ change \in [at : {"idle", "store"}, reply : Item \cup {None}]

Charges == {ks \in Skus \X Sources : Charged(ks[1], ks[2])}

Upgrading == \A c \in env.changes : Included[c[1]] <= Included[c[2]]

\* However consumes, refunds, renewals and stale events interleave, what the
\* organization has used and not got back never exceeds what its periods
\* granted.  Said of plans that never get smaller: a consume compares with the
\* allowance it read, and several that read the larger plan's before a downgrade
\* and a renewal spend more than the new period grants.
NeverOverdrawn == Upgrading => Cardinality(Charges \ refundedUse) <= given

\* A billing period's allowance is granted once, whichever events carry it.
GrantedOncePerPeriod == \A p \in Periods : grants[p] <= 1

\* An event that arrives late never takes the row back to an earlier period.
PeriodNeverRegresses == [][row # None => row'.period >= row.period]_vars

\* Within the first period the counter tells the charges not given back.  Said of
\* a plan that does not change: a refund after a change finds no counter.
UsedMatchesCharges ==
    (env.changes = {} /\ now = 1 /\ row # None) => row.used = Cardinality(Charges \ refundedUse)
=============================================================================
