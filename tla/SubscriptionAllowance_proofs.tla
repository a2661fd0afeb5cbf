--------------------- MODULE SubscriptionAllowance_proofs ---------------------
(***************************************************************************)
(* Safety of the allowance, for any plans, periods, consumes, refunds and  *)
(* handlers of late and repeated events.  The inductive invariant is       *)
(* AllowanceInv.  A period is granted once because the periods after the   *)
(* row's were never granted, and a change is stored only on a row that has *)
(* not outrun it: while it waits, the events of later periods name the new *)
(* plan, which the row does not have.  Nothing is overdrawn because what   *)
(* is outstanding, plus what the row's plan includes, is covered by what   *)
(* was given and what the row counts as used.                              *)
(***************************************************************************)
EXTENDS SubscriptionAllowance, FiniteSetTheorems, TLAPS

Outstanding == Charges \ refundedUse

-----------------------------------------------------------------------------
(* The inductive invariant *)

\* A missing row has no history.
Fresh ==
    /\ grants = [p \in Periods |-> 0]
    /\ Charges = {} /\ refundedUse = {}
    /\ \A c \in Consumers : consume[c].at \notin {"read", "debit"}
    /\ \A w \in Syncers : sync[w].seen = 0
    /\ change.at = "idle"

\* Events are from the subscription's past.
StripeInv ==
    /\ env \in Environments
    /\ row = None => Fresh
    /\ stripe = None => snapshots = {} /\ row = None
    /\ stripe # None => stripe \in snapshots /\ stripe.period <= now
    /\ row # None => row.period <= stripe.period
    /\ \A e \in snapshots : e.period <= stripe.period

\* What the calls carry.
CallInv ==
    /\ \A c \in Consumers : consume[c].at # "idle" => consume[c].source # None
    /\ \A c \in Consumers : consume[c].at \in {"read", "debit"} => consume[c].sub # None
    /\ \A w \in Syncers : sync[w].at # "idle" => sync[w].event \in snapshots
    /\ change.at = "store" => change.reply # None

\* A handler that waits to write read the row in an earlier state: the plan may
\* have changed since, but not under an event that opens a period.
WriteInv ==
    \A w \in Syncers : sync[w].at = "write" /\ sync[w].seen > 0 =>
        /\ sync[w].seen <= row.period /\ sync[w].seen <= sync[w].event.period
        /\ sync[w].seen = row.period /\ sync[w].event.period > row.period =>
             sync[w].event.sku = row.sku

\* A change that waits to be stored is of the plan in force at Stripe.
ChangeInv ==
    change.at = "store" =>
        /\ stripe.sku = change.reply.sku /\ row.sku # change.reply.sku
        /\ row.period <= change.reply.period /\ change.reply.period <= stripe.period
        /\ \A e \in snapshots : e.period > change.reply.period => e.sku = change.reply.sku

GrantInv ==
    /\ \A p \in Periods : grants[p] <= 1
    /\ row # None => \A p \in Periods : p > row.period => grants[p] = 0

\* Plans that never get smaller: whatever a call read includes no more than the
\* row's plan, and the row's plan no more than Stripe's.
PlanInv ==
    Upgrading =>
        /\ \A e \in snapshots : Included[e.sku] <= Included[stripe.sku]
        /\ row # None => /\ Included[row.sku] <= Included[stripe.sku]
                         /\ row.included <= Included[row.sku]
        /\ \A w \in Syncers : sync[w].at = "write" /\ sync[w].seen > 0 =>
             Included[sync[w].event.sku] <= Included[row.sku]
        /\ \A c \in Consumers : consume[c].at \in {"read", "debit"} =>
             consume[c].sub.included <= Included[row.sku]

SpendInv ==
    /\ IsFiniteSet(Charges) /\ refundedUse \subseteq Charges
    /\ Upgrading => Cardinality(Outstanding) <= given
    /\ Upgrading /\ row # None =>
         Cardinality(Outstanding) + Included[row.sku] <= given + row.used

\* A plan that does not change is the only one there is.
OnePlanInv ==
    env.changes = {} =>
        /\ change.at = "idle"
        /\ \A e \in snapshots : e.sku = stripe.sku
        /\ row # None => row.sku = stripe.sku
        /\ \A c \in Consumers : consume[c].at \in {"read", "debit"} =>
             consume[c].sub.sku = stripe.sku
        /\ \A ks \in Charges : ks[1] = stripe.sku

AllowanceInv ==
    /\ TypeOK /\ StripeInv /\ CallInv
    /\ WriteInv /\ ChangeInv /\ GrantInv
    /\ PlanInv /\ SpendInv
    /\ OnePlanInv /\ UsedMatchesCharges

-----------------------------------------------------------------------------
(* What the steps write *)

ConsumeSteps == {"idle", "find", "read", "debit", "credit"}
ConsumeType == [at : ConsumeSteps, source : Sources \cup {None}, sub : RowType \cup {None}]
SyncType == [at : {"idle", "read", "write"}, event : Item \cup {None}, seen : Nat, tries : {0, 1}]

\* The consume c is at step a, for source s, with the row b; the others stay.
Consuming(c, a, s, b) ==
    /\ consume' \in [Consumers -> ConsumeType]
    /\ \A d \in Consumers \ {c} : consume'[d] = consume[d]
    /\ consume'[c].at = a /\ consume'[c].source = s /\ consume'[c].sub = b

\* The handler w is at step a, with event e and period n read; the others stay.
Syncing(w, a, e, n) ==
    /\ sync' \in [Syncers -> SyncType]
    /\ \A v \in Syncers \ {w} : sync'[v] = sync[v]
    /\ sync'[w].at = a /\ sync'[w].event = e /\ sync'[w].seen = n

LEMMA Numbers ==
    ASSUME AllowanceInv
    PROVE  /\ env \in Environments /\ env.periods \in Nat \ {0} /\ Periods \subseteq Nat
           /\ env.credits \in Nat /\ env.changes \subseteq Skus \X Skus
           /\ env.plans \subseteq Skus /\ env.sources \subseteq Sources
           /\ env.consumers \subseteq Consumers /\ env.syncers \subseteq Syncers
           /\ \A k \in Skus : Included[k] \in Nat /\ Included[k] > 0
           /\ None \notin Skus /\ None \notin Sources
  BY AllowanceAssumption DEF AllowanceInv, StripeInv, Periods

LEMMA NoRecords ==
    ASSUME AllowanceInv
    PROVE  None \notin Item /\ None \notin RowType
<1>1. /\ None \notin [sku : Skus, period : Nat, live : BOOLEAN]
      /\ None \notin [sku : Skus, period : Nat, live : BOOLEAN, included : Nat, used : Nat]
  BY AllowanceAssumption
<1>2. Periods \subseteq Nat
  BY Numbers
<1>3. QED
  BY <1>1, <1>2 DEF Item, RowType

LEMMA Types ==
    ASSUME AllowanceInv
    PROVE  /\ now \in Periods /\ snapshots \subseteq Item
           /\ stripe # None => stripe \in Item
           /\ row # None => row \in RowType
           /\ consume \in [Consumers -> ConsumeType] /\ sync \in [Syncers -> SyncType]
           /\ change \in [at : {"idle", "store"}, reply : Item \cup {None}]
  BY DEF AllowanceInv, TypeOK, ConsumeType, ConsumeSteps, SyncType

LEMMA ConsumeGotoIs ==
    ASSUME AllowanceInv, NEW c \in Consumers, NEW a \in ConsumeSteps, ConsumeGoto(c, a)
    PROVE  Consuming(c, a, consume[c].source, consume[c].sub)
<1> DEFINE o == consume[c]
           n == [o EXCEPT !.at = a]
<1>1. consume \in [Consumers -> ConsumeType] /\ o \in ConsumeType
  BY Types
<1>2. consume' = [consume EXCEPT ![c] = n]
  BY DEF ConsumeGoto
<1> HIDE DEF o
<1>3. n \in ConsumeType /\ n.at = a /\ n.source = o.source /\ n.sub = o.sub
  BY <1>1 DEF ConsumeType
<1> HIDE DEF n
<1>4. /\ consume' \in [Consumers -> ConsumeType] /\ consume'[c] = n
      /\ \A d \in Consumers \ {c} : consume'[d] = consume[d]
  BY <1>1, <1>2, <1>3
<1>5. QED
  BY <1>3, <1>4 DEF Consuming, o

LEMMA ConsumeDoneIs ==
    ASSUME AllowanceInv, NEW c \in Consumers, ConsumeDone(c)
    PROVE  Consuming(c, "idle", None, None)
<1>1. consume \in [Consumers -> ConsumeType]
  BY Types
<1>2. NoCall \in ConsumeType
  BY DEF NoCall, ConsumeType, ConsumeSteps
<1>3. NoCall.at = "idle" /\ NoCall.source = None /\ NoCall.sub = None
  BY DEF NoCall
<1>4. QED
  BY <1>1, <1>2, <1>3 DEF ConsumeDone, Consuming

LEMMA StartConsumeIs ==
    ASSUME AllowanceInv, NEW c \in Consumers, NEW s \in Sources,
           consume' = [consume EXCEPT ![c] = [NoCall EXCEPT !.at = "find", !.source = s]]
    PROVE  Consuming(c, "find", s, None)
<1> DEFINE o == NoCall
           n == [o EXCEPT !.at = "find", !.source = s]
<1>1. consume \in [Consumers -> ConsumeType]
  BY Types
<1>2. o \in ConsumeType /\ o.sub = None
  BY DEF NoCall, ConsumeType, ConsumeSteps
<1>3. consume' = [consume EXCEPT ![c] = n]
  OBVIOUS
<1> HIDE DEF o
<1>4. n \in ConsumeType /\ n.at = "find" /\ n.source = s /\ n.sub = None
  BY <1>2 DEF ConsumeType, ConsumeSteps
<1> HIDE DEF n
<1>5. QED
  BY <1>1, <1>3, <1>4 DEF Consuming

LEMMA SubIs ==
    ASSUME AllowanceInv, NEW c \in Consumers, NEW a \in ConsumeSteps, row # None,
           consume' = [consume EXCEPT ![c].at = a, ![c].sub = row]
    PROVE  Consuming(c, a, consume[c].source, row)
<1> DEFINE o == consume[c]
           n == [o EXCEPT !.at = a, !.sub = row]
<1>1. consume \in [Consumers -> ConsumeType] /\ o \in ConsumeType /\ row \in RowType
  BY Types
<1>2. consume' = [consume EXCEPT ![c] = n]
  BY <1>1
<1> HIDE DEF o
<1>3. n \in ConsumeType /\ n.at = a /\ n.source = o.source /\ n.sub = row
  BY <1>1 DEF ConsumeType
<1> HIDE DEF n
<1>4. /\ consume' \in [Consumers -> ConsumeType] /\ consume'[c] = n
      /\ \A d \in Consumers \ {c} : consume'[d] = consume[d]
  BY <1>1, <1>2, <1>3
<1>5. QED
  BY <1>3, <1>4 DEF Consuming, o

LEMMA SyncDoneIs ==
    ASSUME AllowanceInv, NEW w \in Syncers, SyncDone(w)
    PROVE  Syncing(w, "idle", None, 0)
<1>1. sync \in [Syncers -> SyncType]
  BY Types
<1>2. NoSync \in SyncType
  BY DEF NoSync, SyncType
<1>3. NoSync.at = "idle" /\ NoSync.event = None /\ NoSync.seen = 0
  BY DEF NoSync
<1>4. QED
  BY <1>1, <1>2, <1>3 DEF SyncDone, Syncing

LEMMA StartSyncIs ==
    ASSUME AllowanceInv, NEW w \in Syncers, NEW e \in snapshots,
           sync' = [sync EXCEPT ![w] = [NoSync EXCEPT !.at = "read", !.event = e]]
    PROVE  Syncing(w, "read", e, 0)
<1> DEFINE o == NoSync
           n == [o EXCEPT !.at = "read", !.event = e]
<1>1. sync \in [Syncers -> SyncType] /\ e \in Item
  BY Types
<1>2. o \in SyncType /\ o.seen = 0
  BY DEF NoSync, SyncType
<1>3. sync' = [sync EXCEPT ![w] = n]
  OBVIOUS
<1> HIDE DEF o
<1>4. n \in SyncType /\ n.at = "read" /\ n.event = e /\ n.seen = 0
  BY <1>1, <1>2 DEF SyncType
<1> HIDE DEF n
<1>5. QED
  BY <1>1, <1>3, <1>4 DEF Syncing

LEMMA SyncSeenIs ==
    ASSUME AllowanceInv, NEW w \in Syncers, NEW n \in Nat,
           sync' = [sync EXCEPT ![w].at = "write", ![w].seen = n]
    PROVE  Syncing(w, "write", sync[w].event, n)
<1> DEFINE o == sync[w]
           d == [o EXCEPT !.at = "write", !.seen = n]
<1>1. sync \in [Syncers -> SyncType] /\ o \in SyncType
  BY Types
<1>2. sync' = [sync EXCEPT ![w] = d]
  BY <1>1
<1> HIDE DEF o
<1>3. d \in SyncType /\ d.at = "write" /\ d.event = o.event /\ d.seen = n
  BY <1>1 DEF SyncType
<1> HIDE DEF d
<1>4. /\ sync' \in [Syncers -> SyncType] /\ sync'[w] = d
      /\ \A v \in Syncers \ {w} : sync'[v] = sync[v]
  BY <1>1, <1>2, <1>3
<1>5. QED
  BY <1>3, <1>4 DEF Syncing, o

LEMMA SyncAgainIs ==
    ASSUME AllowanceInv, NEW w \in Syncers,
           sync' = [sync EXCEPT ![w] =
                      IF @.tries = 0 THEN [@ EXCEPT !.at = "read", !.tries = 1] ELSE NoSync]
    PROVE  \/ Syncing(w, "read", sync[w].event, sync[w].seen)
           \/ Syncing(w, "idle", None, 0)
<1> DEFINE o == sync[w]
           d == [o EXCEPT !.at = "read", !.tries = 1]
<1>1. sync \in [Syncers -> SyncType] /\ o \in SyncType
  BY Types
<1>2. CASE o.tries = 0
  <2>1. sync' = [sync EXCEPT ![w] = d]
    BY <1>1, <1>2
  <2> HIDE DEF o
  <2>2. d \in SyncType /\ d.at = "read" /\ d.event = o.event /\ d.seen = o.seen
    BY <1>1 DEF SyncType
  <2> HIDE DEF d
  <2>3. /\ sync' \in [Syncers -> SyncType] /\ sync'[w] = d
        /\ \A v \in Syncers \ {w} : sync'[v] = sync[v]
    BY <1>1, <2>1, <2>2
  <2>4. QED
    BY <2>2, <2>3 DEF Syncing, o
<1>3. CASE o.tries # 0
  <2>1. SyncDone(w)
    BY <1>1, <1>3 DEF SyncDone
  <2>2. QED
    BY <2>1, SyncDoneIs
<1>4. QED
  BY <1>2, <1>3

-----------------------------------------------------------------------------
(* Steps of a consume, and of a handler, that write no table *)

LEMMA SameCharges == ASSUME usage' = usage PROVE Charges' = Charges
  BY DEF Charges, Charged

\* The invariant, taken apart.
LEMMA Parts ==
    ASSUME AllowanceInv
    PROVE  /\ TypeOK /\ StripeInv /\ CallInv /\ WriteInv /\ ChangeInv /\ GrantInv
           /\ PlanInv /\ SpendInv /\ OnePlanInv /\ UsedMatchesCharges
  BY DEF AllowanceInv

\* A consume that moves on carries a source and, when it has found the
\* subscription, the row as it was.
LEMMA ConsumeFrame ==
    ASSUME AllowanceInv, NEW c \in Consumers,
           NEW a \in ConsumeSteps, NEW s \in Sources \cup {None}, NEW b \in RowType \cup {None},
           Consuming(c, a, s, b),
           a # "idle" => s # None,
           a \in {"read", "debit"} =>
               /\ row # None /\ b # None
               /\ Upgrading => b.included <= Included[row.sku]
               /\ env.changes = {} => b.sku = stripe.sku,
           UNCHANGED <<stripeVars, row, grantVars, usageVars, sync, change>>,
           credits' \in Nat,
           creditUse' \in [Sources -> {"none", "charged", "refunded"}]
    PROVE  AllowanceInv'
<1> USE Parts DEF stripeVars, grantVars, usageVars
<1>1. Charges' = Charges /\ Upgrading' = Upgrading /\ Outstanding' = Outstanding
      /\ Periods' = Periods
  BY SameCharges DEF Upgrading, Outstanding, Periods
<1>2. TypeOK'
  <2>1. consume' \in [Consumers -> ConsumeType]'
    BY DEF Consuming, ConsumeType, RowType, Periods
  <2>2. QED
    BY <2>1 DEF TypeOK, ConsumeType, ConsumeSteps, RowType, Item, Periods
<1>3. StripeInv'
  <2>1. row = None => \A d \in Consumers : consume'[d].at \notin {"read", "debit"}
    BY DEF StripeInv, Fresh, Consuming
  <2>2. QED
    BY <1>1, <2>1 DEF StripeInv, Fresh
<1>4. CallInv'
  <2>1. \A d \in Consumers : consume'[d].at # "idle" => consume'[d].source # None
    BY DEF CallInv, Consuming
  <2>2. \A d \in Consumers : consume'[d].at \in {"read", "debit"} => consume'[d].sub # None
    BY DEF CallInv, Consuming
  <2>3. QED
    BY <2>1, <2>2 DEF CallInv
<1>5. WriteInv' /\ ChangeInv' /\ GrantInv' /\ SpendInv' /\ UsedMatchesCharges'
  BY <1>1 DEF WriteInv, ChangeInv, GrantInv, SpendInv, UsedMatchesCharges, Outstanding
<1>6. PlanInv'
  <2>1. Upgrading => \A d \in Consumers : consume'[d].at \in {"read", "debit"} =>
                       consume'[d].sub.included <= Included[row.sku]
    BY DEF PlanInv, Consuming
  <2>2. QED
    BY <1>1, <2>1 DEF PlanInv
<1>7. OnePlanInv'
  <2>1. env.changes = {} => \A d \in Consumers : consume'[d].at \in {"read", "debit"} =>
                              consume'[d].sub.sku = stripe.sku
    BY DEF OnePlanInv, Consuming
  <2>2. QED
    BY <1>1, <2>1 DEF OnePlanInv
<1>8. QED
  BY <1>2, <1>3, <1>4, <1>5, <1>6, <1>7 DEF AllowanceInv

\* A handler that moves on has an event of the past; one that is to write an
\* existing row has just read it.
LEMMA SyncFrame ==
    ASSUME AllowanceInv, NEW w \in Syncers,
           NEW a \in {"idle", "read", "write"}, NEW e \in Item \cup {None}, NEW n \in Nat,
           Syncing(w, a, e, n),
           a # "idle" => e \in snapshots,
           row = None => n = 0,
           a = "write" /\ n > 0 =>
               n = row.period /\ n <= e.period /\ e.sku = row.sku,
           UNCHANGED <<stripeVars, row, grantVars, usageVars, creditVars, consume, change>>
    PROVE  AllowanceInv'
<1> USE Parts DEF stripeVars, grantVars, usageVars, creditVars
<1>1. Charges' = Charges /\ Upgrading' = Upgrading /\ Outstanding' = Outstanding
      /\ Periods' = Periods
  BY SameCharges DEF Upgrading, Outstanding, Periods
<1>2. TypeOK'
  <2>1. sync' \in [Syncers -> SyncType]'
    BY DEF Syncing, SyncType, Item, Periods
  <2>2. QED
    BY <2>1 DEF TypeOK, SyncType, RowType, Item, Periods
<1>3. StripeInv'
  <2>1. row = None => \A v \in Syncers : sync'[v].seen = 0
    BY DEF StripeInv, Fresh, Syncing
  <2>2. QED
    BY <1>1, <2>1 DEF StripeInv, Fresh
<1>4. CallInv'
  <2>1. \A v \in Syncers : sync'[v].at # "idle" => sync'[v].event \in snapshots
    BY DEF CallInv, Syncing
  <2>2. QED
    BY <2>1 DEF CallInv
<1>5. ChangeInv' /\ GrantInv' /\ SpendInv' /\ UsedMatchesCharges' /\ OnePlanInv'
  BY <1>1 DEF ChangeInv, GrantInv, SpendInv, UsedMatchesCharges, Outstanding, OnePlanInv
<1>6. a = "write" /\ n > 0 => row # None /\ row \in RowType /\ row.period \in Nat
      /\ row.sku \in Skus /\ Included[row.sku] \in Nat
  BY Types, Numbers DEF RowType
<1>7. WriteInv'
  <2> SUFFICES ASSUME NEW v \in Syncers, sync'[v].at = "write", sync'[v].seen > 0
               PROVE  /\ sync'[v].seen <= row.period /\ sync'[v].seen <= sync'[v].event.period
                      /\ sync'[v].seen = row.period /\ sync'[v].event.period > row.period =>
                           sync'[v].event.sku = row.sku
    BY DEF WriteInv
  <2>1. CASE v = w
    BY <1>6, <2>1 DEF Syncing
  <2>2. CASE v # w
    BY <2>2 DEF Syncing, WriteInv
  <2>3. QED
    BY <2>1, <2>2
<1>8. PlanInv'
  <2>1. Upgrading => \A v \in Syncers : sync'[v].at = "write" /\ sync'[v].seen > 0 =>
                       Included[sync'[v].event.sku] <= Included[row.sku]
    <3> SUFFICES ASSUME Upgrading, NEW v \in Syncers, sync'[v].at = "write", sync'[v].seen > 0
                 PROVE  Included[sync'[v].event.sku] <= Included[row.sku]
      OBVIOUS
    <3>1. CASE v = w
      BY <1>6, <3>1 DEF Syncing
    <3>2. CASE v # w
      BY <3>2 DEF Syncing, PlanInv
    <3>3. QED
      BY <3>1, <3>2
  <2>2. QED
    BY <1>1, <2>1 DEF PlanInv
<1>9. QED
  BY <1>2, <1>3, <1>4, <1>5, <1>7, <1>8 DEF AllowanceInv

-----------------------------------------------------------------------------
(* Consumes *)

LEMMA ConsumeTyped ==
    ASSUME AllowanceInv, NEW c \in Consumers
    PROVE  /\ consume[c].source \in Sources \cup {None} /\ consume[c].sub \in RowType \cup {None}
           /\ consume[c].at # "idle" => consume[c].source \in Sources
           /\ consume[c].at \in {"read", "debit"} => consume[c].sub \in RowType /\ row # None
           /\ credits \in Nat
           /\ creditUse \in [Sources -> {"none", "charged", "refunded"}]
<1>1. consume[c] \in ConsumeType
  BY Types
<1>2. row = None => consume[c].at \notin {"read", "debit"}
  BY DEF AllowanceInv, StripeInv, Fresh
<1>3. QED
  BY <1>1, <1>2 DEF ConsumeType, AllowanceInv, CallInv, TypeOK

\* The call ends, or tries the wallet.
LEMMA ConsumeEnds ==
    ASSUME AllowanceInv, NEW c \in Consumers, consume[c].at # "idle",
           ConsumeDone(c) \/ ConsumeGoto(c, "credit"),
           UNCHANGED <<stripeVars, row, grantVars, usageVars, sync, change>>,
           credits' \in Nat,
           creditUse' \in [Sources -> {"none", "charged", "refunded"}]
    PROVE  AllowanceInv'
<1>1. CASE ConsumeDone(c)
  <2>1. Consuming(c, "idle", None, None)
    BY <1>1, ConsumeDoneIs
  <2>2. QED
    BY <2>1, ConsumeFrame DEF ConsumeSteps
<1>2. CASE ConsumeGoto(c, "credit")
  <2>1. Consuming(c, "credit", consume[c].source, consume[c].sub)
    BY <1>2, ConsumeGotoIs DEF ConsumeSteps
  <2>2. QED
    BY <2>1, ConsumeFrame, ConsumeTyped DEF ConsumeSteps, AllowanceInv, CallInv
<1>3. QED
  BY <1>1, <1>2

LEMMA StartConsumeStep ==
    ASSUME AllowanceInv, NEW c \in env.consumers, NEW s \in env.sources, StartConsume(c, s)
    PROVE  AllowanceInv'
<1>1. c \in Consumers /\ s \in Sources /\ s # None
  BY Numbers
<1>2. Consuming(c, "find", s, None)
  BY <1>1, StartConsumeIs DEF StartConsume
<1>3. UNCHANGED <<stripeVars, row, grantVars, usageVars, creditVars, sync, change>>
  BY DEF StartConsume
<1>4. QED
  BY <1>1, <1>2, <1>3, ConsumeFrame, ConsumeTyped DEF ConsumeSteps, creditVars

\* Carrying the row as it is.
LEMMA ConsumeReads ==
    ASSUME AllowanceInv, NEW c \in Consumers, NEW a \in ConsumeSteps, row # None,
           consume[c].at # "idle",
           consume' = [consume EXCEPT ![c].at = a, ![c].sub = row],
           UNCHANGED <<stripeVars, row, grantVars, usageVars, creditVars, sync, change>>
    PROVE  AllowanceInv'
<1>1. Consuming(c, a, consume[c].source, row)
  BY SubIs
<1>2. row \in RowType /\ consume[c].source \in Sources /\ consume[c].source # None
  BY Types, ConsumeTyped, Numbers
<1>3. /\ Upgrading => row.included <= Included[row.sku]
      /\ env.changes = {} => row.sku = stripe.sku
  BY DEF AllowanceInv, PlanInv, OnePlanInv
<1>4. QED
  BY <1>1, <1>2, <1>3, ConsumeFrame, ConsumeTyped DEF creditVars

LEMMA FindSubscriptionStep ==
    ASSUME AllowanceInv, NEW c \in Consumers, FindSubscription(c) PROVE AllowanceInv'
<1>1. CASE ConsumeDone(c) \/ ConsumeGoto(c, "credit")
  BY <1>1, ConsumeEnds, ConsumeTyped DEF FindSubscription, creditVars
<1>2. CASE Usable(row) /\ consume' = [consume EXCEPT ![c].at = "read", ![c].sub = row]
  BY <1>2, ConsumeReads DEF FindSubscription, Usable, ConsumeSteps
<1>3. QED
  BY <1>1, <1>2 DEF FindSubscription

LEMMA ReadSubscriptionStep ==
    ASSUME AllowanceInv, NEW c \in Consumers, ReadSubscription(c) PROVE AllowanceInv'
<1>1. CASE ConsumeDone(c) \/ ConsumeGoto(c, "credit")
  BY <1>1, ConsumeEnds, ConsumeTyped DEF ReadSubscription, creditVars
<1>2. ASSUME consume' = [consume EXCEPT ![c].at = "debit", ![c].sub = row]
      PROVE  AllowanceInv'
  BY <1>2, ConsumeReads, ConsumeTyped DEF ReadSubscription, ConsumeSteps
<1>3. ASSUME ~(ConsumeDone(c) \/ ConsumeGoto(c, "credit"))
      PROVE  consume' = [consume EXCEPT ![c].at = "debit", ![c].sub = row]
  BY <1>3 DEF ReadSubscription, Usable
<1>4. QED
  BY <1>1, <1>2, <1>3

LEMMA CreditFallbackStep ==
    ASSUME AllowanceInv, NEW c \in Consumers, CreditFallback(c) PROVE AllowanceInv'
<1>1. /\ credits' \in Nat
      /\ creditUse' \in [Sources -> {"none", "charged", "refunded"}]
  BY ConsumeTyped DEF CreditFallback, creditVars
<1>2. QED
  BY <1>1, ConsumeEnds DEF CreditFallback

LEMMA RefundCreditStep ==
    ASSUME AllowanceInv, NEW s \in Sources, RefundCredit(s) PROVE AllowanceInv'
<1>1. /\ credits' \in Nat
      /\ creditUse' \in [Sources -> {"none", "charged", "refunded"}]
  BY Parts DEF RefundCredit, TypeOK
<1>2. /\ UNCHANGED <<stripeVars, row, grantVars, usageVars, sync, change, consume>>
      /\ Charges' = Charges
  BY SameCharges DEF RefundCredit, usageVars
<1> USE Parts DEF stripeVars, grantVars, usageVars
<1>3. TypeOK'
  BY <1>1, <1>2 DEF TypeOK, RowType, Item, Periods
<1>4. StripeInv' /\ CallInv' /\ WriteInv' /\ ChangeInv' /\ GrantInv'
  BY <1>2 DEF StripeInv, Fresh, CallInv, WriteInv, ChangeInv, GrantInv, Periods
<1>5. PlanInv' /\ SpendInv' /\ OnePlanInv' /\ UsedMatchesCharges'
  BY <1>2 DEF PlanInv, SpendInv, OnePlanInv, UsedMatchesCharges, Upgrading, Outstanding
<1>6. QED
  BY <1>3, <1>4, <1>5 DEF AllowanceInv

-----------------------------------------------------------------------------
(* What a debit and a refund write *)

LEMMA Counts ==
    ASSUME AllowanceInv
    PROVE  IsFiniteSet(Outstanding) /\ Cardinality(Outstanding) \in Nat
<1>1. IsFiniteSet(Charges)
  BY DEF AllowanceInv, SpendInv
<1>2. QED
  BY <1>1, FS_Difference, FS_CardinalityType DEF Outstanding

\* The plans a longer history names.
LEMMA AppendNames ==
    ASSUME NEW S, NEW q \in Seq(S), NEW k \in S, NEW j
    PROVE  /\ Append(q, k) \in Seq(S)
           /\ (\E i \in DOMAIN Append(q, k) : Append(q, k)[i] = j) <=>
                (\E i \in DOMAIN q : q[i] = j) \/ j = k
<1>1. /\ DOMAIN q = 1..Len(q) /\ DOMAIN Append(q, k) = 1..(Len(q) + 1) /\ Len(q) \in Nat
      /\ \A i \in 1..Len(q) : Append(q, k)[i] = q[i]
      /\ Append(q, k)[Len(q) + 1] = k
  OBVIOUS
<1>2. \A i \in 1..(Len(q) + 1) : i \in 1..Len(q) \/ i = Len(q) + 1
  BY <1>1
<1>3. Len(q) + 1 \in 1..(Len(q) + 1) /\ 1..Len(q) \subseteq 1..(Len(q) + 1)
  BY <1>1
<1>4. Append(q, k) \in Seq(S)
  OBVIOUS
<1>5. QED
  BY <1>1, <1>2, <1>3, <1>4

\* A new consume event is one more charge outstanding.
LEMMA Charging ==
    ASSUME AllowanceInv, NEW k \in Skus, NEW s \in Sources, ~Charged(k, s),
           usage' = [usage EXCEPT ![s] = Append(@, k)], UNCHANGED refundedUse
    PROVE  /\ usage' \in [Sources -> Seq(Skus)]
           /\ Charges' = Charges \cup {<<k, s>>} /\ IsFiniteSet(Charges)'
           /\ Outstanding' = Outstanding \cup {<<k, s>>}
           /\ Cardinality(Outstanding)' = Cardinality(Outstanding) + 1
<1>1. usage \in [Sources -> Seq(Skus)] /\ IsFiniteSet(Charges) /\ refundedUse \subseteq Charges
  BY Parts DEF TypeOK, SpendInv
<1>2. /\ usage'[s] = Append(usage[s], k) /\ usage[s] \in Seq(Skus)
      /\ \A r \in Sources \ {s} : usage'[r] = usage[r]
  BY <1>1
<1>3. usage' \in [Sources -> Seq(Skus)]
  BY <1>1, <1>2, AppendNames
<1>4. \A j \in Skus : Charged(j, s)' <=> Charged(j, s) \/ j = k
  BY <1>2, AppendNames DEF Charged
<1>5. \A j \in Skus, r \in Sources \ {s} : Charged(j, r)' <=> Charged(j, r)
  BY <1>2 DEF Charged
<1>6. Charges' = Charges \cup {<<k, s>>}
  <2> HIDE DEF Charged
  <2>1. ASSUME NEW j \in Skus, NEW r \in Sources
        PROVE  <<j, r>> \in Charges' <=> <<j, r>> \in Charges \/ <<j, r>> = <<k, s>>
    <3>1. Charged(j, r)' <=> Charged(j, r) \/ (j = k /\ r = s)
      BY <1>4, <1>5
    <3>2. QED
      BY <3>1 DEF Charges
  <2>2. Charges \subseteq Skus \X Sources /\ Charges' \subseteq Skus \X Sources
    BY DEF Charges
  <2>3. QED
    BY <2>1, <2>2
<1>7. <<k, s>> \notin Charges
  BY DEF Charges
<1>8. IsFiniteSet(Charges)'
  BY <1>1, <1>6, FS_AddElement
<1>9. Outstanding' = Outstanding \cup {<<k, s>>} /\ <<k, s>> \notin Outstanding
  BY <1>1, <1>6, <1>7 DEF Outstanding
<1>10. Cardinality(Outstanding)' = Cardinality(Outstanding) + 1
  BY <1>9, Counts, FS_AddElement
<1>11. QED
  BY <1>3, <1>6, <1>8, <1>9, <1>10

\* A refund takes one away.
LEMMA Returning ==
    ASSUME AllowanceInv, NEW s \in Sources, usage[s] # <<>>,
           ~Returned(usage[s][Len(usage[s])], s),
           refundedUse' = refundedUse \cup {<<usage[s][Len(usage[s])], s>>}, UNCHANGED usage
    PROVE  /\ Charges' = Charges /\ refundedUse' \subseteq Charges
           /\ refundedUse' \subseteq Skus \X Sources
           /\ <<usage[s][Len(usage[s])], s>> \in Charges
           /\ Cardinality(Outstanding) > 0
           /\ Cardinality(Outstanding)' = Cardinality(Outstanding) - 1
<1> DEFINE k == usage[s][Len(usage[s])]
<1>1. usage \in [Sources -> Seq(Skus)] /\ refundedUse \subseteq Charges
  BY Parts DEF TypeOK, SpendInv
<1>2. k \in Skus /\ Charged(k, s)
  <2>1. usage[s] \in Seq(Skus)
    BY <1>1
  <2>2. Len(usage[s]) \in DOMAIN usage[s] /\ k \in Skus
    BY <2>1
  <2>3. QED
    BY <2>2 DEF Charged
<1> HIDE DEF k
<1>3. Charges' = Charges /\ <<k, s>> \in Charges /\ Charges \subseteq Skus \X Sources
  BY <1>2, SameCharges DEF Charges
<1>4. refundedUse' = refundedUse \cup {<<k, s>>} /\ <<k, s>> \notin refundedUse
  BY DEF Returned, k
<1>5. Outstanding' = Outstanding \ {<<k, s>>} /\ <<k, s>> \in Outstanding
  BY <1>1, <1>3, <1>4 DEF Outstanding
<1>6. /\ Cardinality(Outstanding)' = Cardinality(Outstanding) - 1
      /\ Cardinality(Outstanding) # 0
  BY <1>5, Counts, FS_RemoveElement, FS_EmptySet
<1>7. Cardinality(Outstanding) > 0
  BY <1>6, Counts
<1>8. refundedUse' \subseteq Charges /\ refundedUse' \subseteq Skus \X Sources
  BY <1>1, <1>3, <1>4
<1>9. QED
  BY <1>3, <1>6, <1>7, <1>8 DEF k

\* The counter of the row, and nothing else of it.
LEMMA CounterIs ==
    ASSUME AllowanceInv, row # None, NEW n \in Nat, row' = [row EXCEPT !.used = n]
    PROVE  /\ row' \in RowType /\ row' # None
           /\ row'.sku = row.sku /\ row'.period = row.period /\ row'.live = row.live
           /\ row'.included = row.included /\ row'.used = n
<1> DEFINE o == row
           d == [o EXCEPT !.used = n]
<1>1. o \in RowType /\ None \notin RowType
  BY Types, NoRecords
<1> HIDE DEF o
<1>2. d \in RowType /\ d.sku = o.sku /\ d.period = o.period /\ d.live = o.live
      /\ d.included = o.included /\ d.used = n
  BY <1>1 DEF RowType
<1> HIDE DEF d
<1>3. row' = d
  BY DEF d, o
<1>4. QED
  BY <1>1, <1>2, <1>3 DEF o

\* What holds of the row holds whatever its counter is, where it only names the
\* row's plan and period.
LEMMA CounterFrame ==
    ASSUME AllowanceInv, row # None, row' # None, row' \in RowType,
           row'.sku = row.sku, row'.period = row.period, row'.included = row.included,
           UNCHANGED <<stripeVars, grantVars, sync, change>>,
           consume' = consume \/ \E c \in Consumers : Consuming(c, "idle", None, None)
    PROVE  /\ StripeInv' /\ CallInv' /\ WriteInv' /\ ChangeInv' /\ GrantInv' /\ PlanInv'
           /\ env.changes = {} => \A c \in Consumers : consume'[c].at \in {"read", "debit"} =>
                consume'[c].sub.sku = stripe.sku
<1> USE Parts DEF stripeVars, grantVars
<1>1. Upgrading' = Upgrading /\ Periods' = Periods
  BY DEF Upgrading, Periods
<1>2. \A c \in Consumers :
        consume'[c].at # "idle" => consume'[c] = consume[c]
  BY DEF Consuming
<1>3. StripeInv' /\ CallInv'
  BY <1>2 DEF StripeInv, CallInv
<1>4. WriteInv' /\ ChangeInv' /\ GrantInv'
  BY <1>1 DEF WriteInv, ChangeInv, GrantInv
<1>5. PlanInv'
  BY <1>1, <1>2 DEF PlanInv
<1>6. QED
  BY <1>2, <1>3, <1>4, <1>5 DEF OnePlanInv

LEMMA DebitStep ==
    ASSUME AllowanceInv, NEW c \in Consumers, Debit(c) PROVE AllowanceInv'
<1>1. CASE UNCHANGED <<row, usage>> /\ (ConsumeDone(c) \/ ConsumeGoto(c, "credit"))
  BY <1>1, ConsumeEnds, ConsumeTyped DEF Debit, creditVars, usageVars
<1>2. CASE /\ ~KeyTaken(consume[c].sub.sku, consume[c].source) /\ Room(consume[c].sub)
           /\ row' = [row EXCEPT !.used = @ + 1]
           /\ usage' = [usage EXCEPT ![consume[c].source] = Append(@, consume[c].sub.sku)]
           /\ ConsumeDone(c)
  <2> DEFINE k == consume[c].sub.sku
             s == consume[c].source
  <2>1. /\ consume[c].at = "debit" /\ row # None /\ consume[c].sub \in RowType
        /\ s \in Sources /\ k \in Skus /\ row \in RowType
        /\ row.used \in Nat /\ row.included \in Nat /\ consume[c].sub.included \in Nat
        /\ row.sku \in Skus /\ Included[row.sku] \in Nat
    BY ConsumeTyped, Types, Numbers DEF Debit, RowType
  <2>2. /\ UNCHANGED <<stripeVars, grantVars, sync, change>> /\ UNCHANGED refundedUse
        /\ UNCHANGED creditVars
    BY DEF Debit
  <2>3. ~Charged(k, s) /\ row.used < consume[c].sub.included
    BY <1>2 DEF KeyTaken, Room
  <2>4. Consuming(c, "idle", None, None)
    BY <1>2, ConsumeDoneIs
  <2>5. /\ row' \in RowType /\ row' # None /\ row'.sku = row.sku /\ row'.period = row.period
        /\ row'.live = row.live /\ row'.included = row.included /\ row'.used = row.used + 1
    BY <1>2, <2>1, CounterIs
  <2>6. /\ usage' \in [Sources -> Seq(Skus)]
        /\ Charges' = Charges \cup {<<k, s>>} /\ IsFiniteSet(Charges)'
        /\ Outstanding' = Outstanding \cup {<<k, s>>}
        /\ Cardinality(Outstanding)' = Cardinality(Outstanding) + 1
    BY <1>2, <2>1, <2>2, <2>3, Charging
  <2> HIDE DEF k, s
  <2>7. /\ StripeInv' /\ CallInv' /\ WriteInv' /\ ChangeInv' /\ GrantInv' /\ PlanInv'
        /\ env.changes = {} => \A d \in Consumers : consume'[d].at \in {"read", "debit"} =>
             consume'[d].sub.sku = stripe.sku
    BY <2>1, <2>2, <2>4, <2>5, CounterFrame
  <2> USE DEF stripeVars, grantVars, creditVars
  <2>8. TypeOK'
    <3>1. consume' \in [Consumers -> ConsumeType]'
      BY <2>2, <2>4 DEF Consuming, ConsumeType, RowType, Periods
    <3>2. row' \in RowType' \cup {None}
      BY <2>2, <2>5 DEF RowType, Periods
    <3>3. QED
      BY <2>2, <2>6, <3>1, <3>2, Parts
      DEF TypeOK, ConsumeType, ConsumeSteps, RowType, Item, Periods
  <2>9. SpendInv'
    <3>1. refundedUse' \subseteq Charges' /\ IsFiniteSet(Charges')
      BY <2>2, <2>6, Parts DEF SpendInv
    <3>2. ASSUME Upgrading
          PROVE  /\ Cardinality(Outstanding)' <= given
                 /\ Cardinality(Outstanding)' + Included[row.sku] <= given + row'.used
      <4>1. consume[c].sub.included <= Included[row.sku]
        BY <2>1, <3>2, Parts DEF PlanInv
      <4>2. Cardinality(Outstanding) + Included[row.sku] <= given + row.used
        BY <2>1, <3>2, Parts DEF SpendInv
      <4>3. given \in Nat
        BY Parts DEF TypeOK
      <4>4. /\ Cardinality(Outstanding)' = Cardinality(Outstanding) + 1
            /\ Cardinality(Outstanding) \in Nat
        BY <2>6, Counts
      <4>5. /\ row'.used = row.used + 1 /\ row.used \in Nat /\ Included[row.sku] \in Nat
            /\ row.used < consume[c].sub.included /\ consume[c].sub.included \in Nat
        BY <2>1, <2>3, <2>5
      <4>6. QED
        BY <4>1, <4>2, <4>3, <4>4, <4>5
    <3>3. Upgrading' = Upgrading
      BY <2>2 DEF Upgrading
    <3>4. QED
      BY <2>2, <2>5, <3>1, <3>2, <3>3 DEF SpendInv
  <2>10. OnePlanInv'
    <3>1. env.changes = {} => k = stripe.sku
      BY <2>1, Parts DEF OnePlanInv, k
    <3>2. env.changes = {} => \A ks \in Charges' : ks[1] = stripe.sku
      BY <2>6, <3>1, Parts DEF OnePlanInv
    <3>3. QED
      BY <2>1, <2>2, <2>5, <2>7, <3>2, Parts DEF OnePlanInv
  <2>11. UsedMatchesCharges'
    BY <2>1, <2>2, <2>5, <2>6, Parts DEF UsedMatchesCharges, Outstanding
  <2>12. QED
    BY <2>7, <2>8, <2>9, <2>10, <2>11 DEF AllowanceInv
<1>3. QED
  BY <1>1, <1>2 DEF Debit

LEMMA RefundUsageStep ==
    ASSUME AllowanceInv, NEW s \in Sources, RefundUsage(s) PROVE AllowanceInv'
<1> DEFINE k == usage[s][Len(usage[s])]
<1>1. /\ UNCHANGED <<stripeVars, grantVars, sync, change>> /\ UNCHANGED usage
      /\ UNCHANGED <<creditVars, consume>>
  BY DEF RefundUsage
<1>2. /\ Charges' = Charges /\ refundedUse' \subseteq Charges
      /\ refundedUse' \subseteq Skus \X Sources
      /\ <<k, s>> \in Charges /\ Cardinality(Outstanding) > 0
      /\ Cardinality(Outstanding)' = Cardinality(Outstanding) - 1
  BY Returning DEF RefundUsage
<1>3. row' = IF Returnable(k) THEN [row EXCEPT !.used = @ - 1] ELSE row
  BY DEF RefundUsage
<1>a. Cardinality(Outstanding) \in Nat
  BY Counts
<1> HIDE DEF k
<1>4. row # None
  BY <1>2, Parts DEF StripeInv, Fresh
<1>5. row \in RowType /\ row.used \in Nat /\ row.sku \in Skus /\ Included[row.sku] \in Nat
  BY <1>4, Types, Numbers DEF RowType
<1>6. /\ row' \in RowType /\ row' # None /\ row'.sku = row.sku /\ row'.period = row.period
      /\ row'.live = row.live /\ row'.included = row.included
      /\ row'.used = IF Returnable(k) THEN row.used - 1 ELSE row.used
  <2>1. CASE Returnable(k)
    <3>1. row.used - 1 \in Nat /\ row' = [row EXCEPT !.used = row.used - 1]
      BY <1>3, <1>5, <2>1 DEF Returnable
    <3>2. QED
      BY <1>4, <2>1, <3>1, CounterIs
  <2>2. CASE ~Returnable(k)
    BY <1>3, <1>4, <1>5, <2>2
  <2>3. QED
    BY <2>1, <2>2
<1>7. StripeInv' /\ CallInv' /\ WriteInv' /\ ChangeInv' /\ GrantInv' /\ PlanInv'
  BY <1>1, <1>4, <1>6, CounterFrame
<1> USE DEF stripeVars, grantVars, creditVars
<1>8. TypeOK'
  <2>1. row' \in RowType' \cup {None}
    BY <1>1, <1>6 DEF RowType, Periods
  <2>2. QED
    BY <1>1, <1>2, <2>1, Parts DEF TypeOK, RowType, Item, Periods
<1>9. SpendInv'
  <2>1. ASSUME Upgrading
        PROVE  /\ Cardinality(Outstanding)' <= given
               /\ Cardinality(Outstanding)' + Included[row.sku] <= given + row'.used
    <3>1. /\ Cardinality(Outstanding) + Included[row.sku] <= given + row.used
          /\ Cardinality(Outstanding) <= given /\ given \in Nat
      BY <1>4, <2>1, Parts DEF SpendInv, TypeOK
    <3>2. QED
      BY <1>2, <1>5, <1>6, <1>a, <3>1
  <2>2. Upgrading' = Upgrading
    BY <1>1 DEF Upgrading
  <2>3. QED
    BY <1>1, <1>2, <1>6, <2>1, <2>2, Parts DEF SpendInv
<1>10. OnePlanInv'
  <2>1. env.changes = {} => \A ks \in Charges' : ks[1] = stripe.sku
    BY <1>2, Parts DEF OnePlanInv
  <2>2. QED
    BY <1>1, <1>4, <1>6, <2>1, Parts DEF OnePlanInv
<1>11. UsedMatchesCharges'
  <2> SUFFICES ASSUME env.changes = {}, now = 1 PROVE row'.used = Cardinality(Outstanding)'
    BY <1>1 DEF UsedMatchesCharges, Outstanding
  <2>1. row.used = Cardinality(Outstanding)
    BY <1>4, Parts DEF UsedMatchesCharges, Outstanding
  <2>2. k = row.sku
    BY <1>2, <1>4, Parts DEF OnePlanInv
  <2>3. Returnable(k)
    BY <1>2, <2>1, <2>2 DEF Returnable
  <2>4. QED
    BY <1>2, <1>6, <2>1, <2>3
<1>12. QED
  BY <1>7, <1>8, <1>9, <1>10, <1>11 DEF AllowanceInv

-----------------------------------------------------------------------------
(* The handlers of events *)

LEMMA SyncTyped ==
    ASSUME AllowanceInv, NEW w \in Syncers, sync[w].at # "idle"
    PROVE  /\ sync[w].event \in snapshots /\ sync[w].event \in Item
           /\ sync[w].event.period \in Periods /\ sync[w].event.period \in Nat
           /\ sync[w].event.period > 0 /\ sync[w].event.sku \in Skus
           /\ sync[w].seen \in Nat
           /\ stripe # None /\ stripe \in Item /\ stripe.period \in Nat
           /\ sync[w].event.period <= stripe.period
<1>1. sync[w] \in SyncType /\ sync[w].event \in snapshots /\ snapshots \subseteq Item
  BY Types DEF AllowanceInv, CallInv
<1>2. stripe # None /\ stripe \in Item /\ sync[w].event.period <= stripe.period
  BY <1>1, Types DEF AllowanceInv, StripeInv
<1>3. Periods \subseteq Nat /\ \A p \in Periods : p > 0
  BY Numbers DEF Periods
<1>4. QED
  BY <1>1, <1>2, <1>3 DEF Item, SyncType

LEMMA RowTyped ==
    ASSUME AllowanceInv, row # None
    PROVE  /\ row \in RowType /\ row.period \in Periods /\ row.period \in Nat /\ row.period > 0
           /\ row.sku \in Skus /\ Included[row.sku] \in Nat /\ row.live \in BOOLEAN
           /\ row.included \in Nat /\ row.used \in Nat
           /\ stripe # None /\ stripe \in Item /\ stripe.period \in Nat /\ stripe.sku \in Skus
           /\ Included[stripe.sku] \in Nat
<1>1. row \in RowType /\ stripe # None /\ stripe \in Item
  BY Types DEF AllowanceInv, StripeInv
<1>2. Periods \subseteq Nat /\ \A p \in Periods : p > 0
  BY Numbers DEF Periods
<1>3. QED
  BY <1>1, <1>2, Numbers DEF Item, RowType

LEMMA StartSyncStep ==
    ASSUME AllowanceInv, NEW w \in env.syncers, NEW e \in snapshots, StartSync(w, e)
    PROVE  AllowanceInv'
<1>1. w \in Syncers /\ e \in Item
  BY Numbers, Types
<1>2. Syncing(w, "read", e, 0)
  BY <1>1, StartSyncIs DEF StartSync
<1>3. QED
  BY <1>1, <1>2, SyncFrame DEF StartSync

\* The handler gives up.
LEMMA SyncEnds ==
    ASSUME AllowanceInv, NEW w \in Syncers, SyncDone(w),
           UNCHANGED <<stripeVars, row, grantVars, usageVars, creditVars, consume, change>>
    PROVE  AllowanceInv'
<1>1. Syncing(w, "idle", None, 0)
  BY SyncDoneIs
<1>2. QED
  BY <1>1, SyncFrame

LEMMA SyncReadStep ==
    ASSUME AllowanceInv, NEW w \in Syncers, SyncRead(w) PROVE AllowanceInv'
<1> DEFINE e == sync[w].event
           existing == IF row # None /\ row.sku = e.sku THEN row ELSE None
           n == IF existing = None THEN 0 ELSE existing.period
<1>1. CASE SyncDone(w)
  BY <1>1, SyncEnds DEF SyncRead
<1>2. CASE /\ ~Stale(existing, e)
           /\ sync' = [sync EXCEPT ![w].at = "write", ![w].seen = n]
  <2>1. sync[w].at # "idle"
    BY DEF SyncRead
  <2>2. e \in snapshots /\ e \in Item /\ e.period \in Nat
    BY <2>1, SyncTyped
  <2>3. /\ n \in Nat
        /\ row = None => n = 0
        /\ n > 0 => n = row.period /\ n <= e.period /\ e.sku = row.sku
    BY <1>2, <2>2, RowTyped DEF Stale
  <2>4. Syncing(w, "write", e, n)
    BY <1>2, <2>3, SyncSeenIs
  <2> HIDE DEF e, n
  <2>5. QED
    BY <2>2, <2>3, <2>4, SyncFrame DEF SyncRead
<1>3. QED
  BY <1>1, <1>2 DEF SyncRead

LEMMA RowRenamed ==
    ASSUME AllowanceInv, row # None, NEW p \in Periods, NEW l \in BOOLEAN,
           NEW i \in Nat, NEW k \in Skus,
           row' = [row EXCEPT !.sku = k, !.period = p, !.live = l, !.included = i]
    PROVE  /\ row' \in RowType /\ row' # None
           /\ row'.sku = k /\ row'.period = p /\ row'.included = i /\ row'.used = row.used
<1> DEFINE o == row
           d == [o EXCEPT !.sku = k, !.period = p, !.live = l, !.included = i]
<1>1. o \in RowType /\ None \notin RowType
  BY Types, NoRecords
<1> HIDE DEF o
<1>2. d \in RowType /\ d.sku = k /\ d.period = p /\ d.included = i /\ d.used = o.used
  BY <1>1 DEF RowType
<1> HIDE DEF d
<1>3. row' = d
  BY DEF d, o
<1>4. QED
  BY <1>1, <1>2, <1>3 DEF o

\* An event is written to a row: of the same period, or one that opens a period.
LEMMA UpdateIs ==
    ASSUME AllowanceInv, NEW w \in Syncers, SyncUpdate(w), StillSeen(w)
    PROVE  /\ row # None /\ row' \in RowType /\ row' # None /\ row'.sku = row.sku
           /\ row'.period = sync[w].event.period
           /\ row'.included = Included[sync[w].event.sku]
           /\ row.period <= row'.period /\ sync[w].seen = row.period
           /\ row'.used = IF row.period = row'.period THEN row.used ELSE 0
<1> DEFINE e == sync[w].event
           n == IF sync[w].seen = e.period THEN row.used ELSE 0
<1>1. row # None /\ sync[w].at = "write" /\ sync[w].seen > 0
  BY Parts, SyncTyped DEF SyncUpdate, StripeInv, Fresh
<1>2. sync[w].seen = row.period /\ sync[w].seen <= e.period
  BY <1>1, Parts DEF StillSeen, WriteInv
<1>3. /\ e.period \in Periods /\ e.live \in BOOLEAN /\ e.sku \in Skus
      /\ Included[e.sku] \in Nat /\ n \in Nat
  BY <1>1, SyncTyped, RowTyped, Numbers DEF Item
<1>4. row \in RowType
  BY <1>1, RowTyped
<1>5. row' = [row EXCEPT !.period = e.period, !.live = e.live, !.included = Included[e.sku],
                !.used = n]
  BY <1>4 DEF SyncUpdate, RowType
<1> HIDE DEF e, n
<1> DEFINE o == row
           d == [o EXCEPT !.period = e.period, !.live = e.live, !.included = Included[e.sku],
                   !.used = n]
<1>6. o \in RowType /\ None \notin RowType
  BY <1>4, NoRecords
<1> HIDE DEF o
<1>7. d \in RowType /\ d.sku = o.sku /\ d.period = e.period
      /\ d.included = Included[e.sku] /\ d.used = n
  BY <1>3, <1>6 DEF RowType
<1> HIDE DEF d
<1>8. row' = d
  BY <1>5 DEF d, o
<1>9. QED
  BY <1>1, <1>2, <1>6, <1>7, <1>8 DEF e, n, o

LEMMA SyncUpdateStep ==
    ASSUME AllowanceInv, NEW w \in Syncers, SyncUpdate(w) PROVE AllowanceInv'
<1> DEFINE e == sync[w].event
<1>1. sync[w].at = "write" /\ sync[w].seen > 0
  BY DEF SyncUpdate
<1>2. /\ e \in snapshots /\ e \in Item /\ e.period \in Periods /\ e.period \in Nat
      /\ e.period > 0 /\ e.sku \in Skus /\ sync[w].seen \in Nat /\ e.period <= stripe.period
  BY <1>1, SyncTyped
<1>3. row # None
  BY <1>1, <1>2, Parts DEF StripeInv, Fresh
<1>4. CASE ~StillSeen(w)
  <2>1. \/ Syncing(w, "read", e, sync[w].seen)
        \/ Syncing(w, "idle", None, 0)
    BY <1>4, SyncAgainIs DEF SyncUpdate
  <2>2. UNCHANGED <<stripeVars, row, grantVars, usageVars, creditVars, consume, change>>
    BY <1>4 DEF SyncUpdate
  <2>3. CASE Syncing(w, "idle", None, 0)
    BY <2>2, <2>3, SyncFrame
  <2>4. CASE Syncing(w, "read", e, sync[w].seen)
    <3> HIDE DEF e
    <3>1. QED
      BY <1>2, <1>3, <2>2, <2>4, SyncFrame
  <2>5. QED
    BY <2>1, <2>3, <2>4
<1>5. CASE StillSeen(w)
  <2>1. /\ row' \in RowType /\ row' # None /\ row'.sku = row.sku
        /\ row'.period = e.period /\ row'.included = Included[e.sku]
        /\ row.period <= row'.period /\ sync[w].seen = row.period
        /\ row'.used = IF row.period = row'.period THEN row.used ELSE 0
    BY <1>5, UpdateIs
  <2>2. Syncing(w, "idle", None, 0)
    BY <1>5, SyncDoneIs DEF SyncUpdate
  <2>3. UNCHANGED <<stripeVars, usageVars, creditVars, consume, change>>
    BY DEF SyncUpdate
  <2>4. /\ row.period \in Nat /\ row.used \in Nat /\ row.sku \in Skus
        /\ Included[row.sku] \in Nat /\ Included[e.sku] \in Nat /\ Included[e.sku] > 0
        /\ row.period > 0 /\ stripe.period \in Nat
    BY <1>2, <1>3, RowTyped, Numbers
  <2>5. row.period < row'.period => e.sku = row.sku
    BY <1>1, <2>1, <2>4, Parts DEF WriteInv
  <2>6. \/ row.period = row'.period /\ UNCHANGED grantVars
        \/ row.period < row'.period /\ GrantPeriod(e)
    BY <1>5, <1>2, <2>1, <2>4 DEF SyncUpdate
  <2>7. /\ grants \in [Periods -> Nat] /\ given \in Nat
        /\ \A p \in Periods : p > row.period => grants[p] = 0
        /\ \A p \in Periods : grants[p] <= 1
    BY <1>3, Parts DEF TypeOK, GrantInv
  <2>8. Upgrading => Included[e.sku] <= Included[row.sku]
    BY <1>1, Parts DEF PlanInv
  <2> HIDE DEF e
  <2> USE DEF stripeVars, usageVars, creditVars, grantVars
  <2>9. /\ Charges' = Charges /\ Upgrading' = Upgrading /\ Outstanding' = Outstanding
        /\ Periods' = Periods
    BY <2>3, SameCharges DEF Upgrading, Outstanding, Periods
  <2>10. /\ sync' \in [Syncers -> SyncType]
         /\ \A v \in Syncers : sync'[v].at # "idle" => sync'[v] = sync[v]
    BY <2>2 DEF Syncing
  <2>11. grants' \in [Periods -> Nat] /\ given' \in Nat /\ given' >= given
    BY <1>2, <2>4, <2>6, <2>7 DEF GrantPeriod
  <2>12. TypeOK'
    <3>1. sync' \in [Syncers -> SyncType]' /\ row' \in RowType'
      BY <2>1, <2>3, <2>10 DEF SyncType, RowType, Item, Periods
    <3>2. QED
      BY <2>3, <2>11, <3>1, Parts DEF TypeOK, SyncType, RowType, Item, Periods
  <2>13. StripeInv' /\ CallInv'
    <3>1. StripeInv'
      BY <1>2, <1>3, <2>1, <2>3, Parts DEF StripeInv
    <3>2. CallInv'
      BY <2>3, <2>10, Parts DEF CallInv
    <3>3. QED
      BY <3>1, <3>2
  <2>14. WriteInv'
    <3> SUFFICES ASSUME NEW v \in Syncers, sync'[v].at = "write", sync'[v].seen > 0
                 PROVE  /\ sync[v].seen <= row'.period /\ sync[v].seen <= sync[v].event.period
                        /\ sync[v].seen = row'.period /\ sync[v].event.period > row'.period =>
                             sync[v].event.sku = row'.sku
      BY <2>10 DEF WriteInv
    <3>1. /\ sync[v].at = "write" /\ sync[v].seen > 0 /\ sync[v].seen \in Nat
          /\ sync[v].event.period \in Nat
      BY <2>10, SyncTyped
    <3>2. /\ sync[v].seen <= row.period /\ sync[v].seen <= sync[v].event.period
          /\ sync[v].seen = row.period /\ sync[v].event.period > row.period =>
               sync[v].event.sku = row.sku
      BY <3>1, Parts DEF WriteInv
    <3>3. QED
      BY <1>2, <2>1, <2>4, <3>1, <3>2
  <2>15. ChangeInv'
    <3> SUFFICES ASSUME change.at = "store" PROVE ChangeInv'
      BY <2>3 DEF ChangeInv
    <3>1. /\ row.sku # change.reply.sku /\ row.period <= change.reply.period
          /\ e.period > change.reply.period => e.sku = change.reply.sku
      BY <1>2, Parts DEF ChangeInv
    <3>2. change.reply.period \in Nat
      <4>1. change.reply \in Item
        BY Types, Parts DEF CallInv
      <4>2. QED
        BY <4>1, Numbers DEF Item
    <3>3. row'.period <= change.reply.period
      BY <1>2, <2>1, <2>4, <2>5, <3>1, <3>2
    <3>4. QED
      BY <2>1, <2>3, <3>3, Parts DEF ChangeInv
  <2>16. GrantInv'
    <3>1. CASE row.period = row'.period /\ UNCHANGED grantVars
      BY <2>1, <2>7, <2>9, <3>1 DEF GrantInv
    <3>2. CASE row.period < row'.period /\ GrantPeriod(e)
      BY <1>2, <2>1, <2>4, <2>7, <2>9, <3>2, Numbers DEF GrantInv, GrantPeriod
    <3>3. QED
      BY <2>6, <3>1, <3>2
  <2>17. PlanInv'
    <3>1. Upgrading => \A v \in Syncers : sync'[v].at = "write" /\ sync'[v].seen > 0 =>
            Included[sync'[v].event.sku] <= Included[row.sku]
      BY <2>10, Parts DEF PlanInv
    <3>2. QED
      BY <1>3, <2>1, <2>3, <2>8, <2>9, <3>1, Parts DEF PlanInv
  <2>18. SpendInv'
    <3>1. ASSUME Upgrading
          PROVE  /\ Cardinality(Outstanding) <= given'
                 /\ Cardinality(Outstanding) + Included[row.sku] <= given' + row'.used
      <4>1. /\ Cardinality(Outstanding) <= given
            /\ Cardinality(Outstanding) + Included[row.sku] <= given + row.used
        BY <1>3, <3>1, Parts DEF SpendInv
      <4>2. CASE row.period = row'.period /\ UNCHANGED grantVars
        BY <2>1, <4>1, <4>2
      <4>3. CASE row.period < row'.period /\ GrantPeriod(e)
        <5>1. given' = given + Included[row.sku] /\ row'.used = 0
          BY <1>2, <2>1, <2>4, <2>5, <4>3 DEF GrantPeriod
        <5>2. QED
          BY <2>4, <2>7, <4>1, <5>1, Counts
      <4>4. QED
        BY <2>6, <4>2, <4>3
    <3>2. QED
      BY <2>1, <2>3, <2>9, <3>1, Parts DEF SpendInv
  <2>19. OnePlanInv'
    BY <1>3, <2>1, <2>3, <2>9, Parts DEF OnePlanInv
  <2>20. UsedMatchesCharges'
    <3> SUFFICES ASSUME env.changes = {}, now = 1 PROVE row'.used = Cardinality(Outstanding)
      BY <2>3, <2>9 DEF UsedMatchesCharges, Outstanding
    <3>1. stripe.period <= 1
      BY <1>3, Parts, RowTyped DEF StripeInv
    <3>2. row'.used = row.used
      BY <1>2, <2>1, <2>4, <3>1
    <3>3. QED
      BY <1>3, <3>2, Parts DEF UsedMatchesCharges, Outstanding
  <2>21. QED
    BY <2>12, <2>13, <2>14, <2>15, <2>16, <2>17, <2>18, <2>19, <2>20 DEF AllowanceInv
<1>6. QED
  BY <1>4, <1>5

LEMMA SyncCreateStep ==
    ASSUME AllowanceInv, NEW w \in Syncers, SyncCreate(w) PROVE AllowanceInv'
<1> DEFINE e == sync[w].event
           d == [sku |-> e.sku, period |-> e.period, live |-> e.live,
                 included |-> Included[e.sku], used |-> 0]
<1>1. CASE row # None
  BY <1>1, SyncEnds DEF SyncCreate
<1>2. CASE row = None
  <2>1. sync[w].at # "idle"
    BY DEF SyncCreate
  <2>2. /\ e \in snapshots /\ e \in Item /\ e.period \in Periods /\ e.period \in Nat
        /\ e.period > 0 /\ e.sku \in Skus /\ e.live \in BOOLEAN
        /\ e.period <= stripe.period /\ stripe \in Item
        /\ Included[e.sku] \in Nat
    BY <2>1, SyncTyped, Numbers DEF Item
  <2>3. row' = d /\ GrantPeriod(e) /\ SyncDone(w)
        /\ UNCHANGED <<stripeVars, usageVars, creditVars, consume, change>>
    BY <1>2 DEF SyncCreate
  <2> HIDE DEF e
  <2>4. d \in RowType /\ d.sku = e.sku /\ d.period = e.period /\ d.used = 0
        /\ d.included = Included[e.sku]
    BY <2>2 DEF RowType
  <2> HIDE DEF d
  <2>5. row' # None
    BY <2>3, <2>4, NoRecords
  <2>6. /\ sync' \in [Syncers -> SyncType]
        /\ \A v \in Syncers : sync'[v].at # "idle" => sync'[v] = sync[v]
        /\ \A v \in Syncers : sync'[v].seen = 0
    BY <1>2, <2>3, SyncDoneIs, Parts DEF Syncing, StripeInv, Fresh
  <2>7. /\ grants = [p \in Periods |-> 0] /\ Charges = {} /\ refundedUse = {}
        /\ \A c \in Consumers : consume[c].at \notin {"read", "debit"}
        /\ change.at = "idle" /\ given \in Nat
    BY <1>2, Parts DEF StripeInv, Fresh, TypeOK
  <2> USE DEF stripeVars, usageVars, creditVars, grantVars
  <2>8. /\ Charges' = {} /\ Upgrading' = Upgrading /\ Outstanding = {} /\ Outstanding' = {}
        /\ Periods' = Periods
    BY <2>3, <2>7, SameCharges DEF Upgrading, Outstanding, Periods
  <2>9. /\ grants' = [p \in Periods |-> IF p = e.period THEN 1 ELSE 0]
        /\ given' = given + Included[e.sku]
    BY <2>2, <2>3, <2>7 DEF GrantPeriod
  <2>10. TypeOK'
    <3>1. sync' \in [Syncers -> SyncType]' /\ row' \in RowType'
      BY <2>3, <2>4, <2>6 DEF SyncType, RowType, Item, Periods
    <3>2. grants' \in [Periods -> Nat] /\ given' \in Nat
      BY <2>2, <2>7, <2>9
    <3>3. QED
      BY <2>3, <3>1, <3>2, Parts DEF TypeOK, SyncType, RowType, Item, Periods
  <2>11. StripeInv'
    BY <1>2, <2>2, <2>3, <2>4, <2>5, NoRecords, Parts DEF StripeInv
  <2>12. CallInv' /\ WriteInv' /\ ChangeInv'
    BY <2>3, <2>6, <2>7, Parts DEF CallInv, WriteInv, ChangeInv
  <2>13. GrantInv'
    BY <2>2, <2>3, <2>4, <2>8, <2>9, Numbers DEF GrantInv
  <2>14. PlanInv'
    <3>1. Upgrading => Included[e.sku] <= Included[stripe.sku]
      BY <2>2, Parts DEF PlanInv
    <3>2. QED
      BY <2>2, <2>3, <2>4, <2>6, <2>7, <2>8, <3>1, Parts DEF PlanInv
  <2>15. SpendInv'
    BY <2>2, <2>3, <2>4, <2>7, <2>8, <2>9, FS_EmptySet, Parts DEF SpendInv
  <2>16. OnePlanInv'
    BY <2>2, <2>3, <2>4, <2>7, <2>8, Parts DEF OnePlanInv
  <2>17. UsedMatchesCharges'
    BY <2>3, <2>4, <2>8, FS_EmptySet DEF UsedMatchesCharges, Outstanding
  <2>18. QED
    BY <2>10, <2>11, <2>12, <2>13, <2>14, <2>15, <2>16, <2>17 DEF AllowanceInv
<1>3. QED
  BY <1>1, <1>2

-----------------------------------------------------------------------------
(* Stripe and the plan change *)

\* An event that carries the subscription on, under its plan or one that a
\* customer may change to.
LEMMA EventFrame ==
    ASSUME AllowanceInv, NEW i \in Item,
           stripe' = i, snapshots' = snapshots \cup {i}, env' = env,
           now' \in Periods, now' >= now, i.period <= now',
           stripe # None => /\ stripe.period <= i.period
                            /\ i.sku = stripe.sku \/ <<stripe.sku, i.sku>> \in env.changes,
           UNCHANGED <<row, grantVars, usageVars, creditVars, consume, sync>>,
           \/ UNCHANGED change
           \/ /\ env.changes # {} /\ row # None
              /\ change' \in [at : {"idle", "store"}, reply : Item] ,
           ChangeInv'
    PROVE  AllowanceInv'
<1> USE DEF grantVars, usageVars, creditVars
<1>1. /\ Charges' = Charges /\ Upgrading' = Upgrading /\ Outstanding' = Outstanding
      /\ Periods' = Periods
  BY SameCharges DEF Upgrading, Outstanding, Periods
<1>2. /\ i.period \in Nat /\ i.sku \in Skus /\ Included[i.sku] \in Nat /\ i # None
      /\ now \in Nat /\ now > 0 /\ now' \in Nat
      /\ stripe # None => stripe.period \in Nat /\ stripe.sku \in Skus
                          /\ Included[stripe.sku] \in Nat
      /\ \A e \in snapshots : e.period \in Nat /\ e.sku \in Skus /\ Included[e.sku] \in Nat
  <2>1. /\ now \in Periods /\ snapshots \subseteq Item /\ (stripe # None => stripe \in Item)
        /\ Periods \subseteq Nat /\ \A p \in Periods : p > 0
    BY Types, Numbers DEF Periods
  <2>2. QED
    BY <2>1, NoRecords, Numbers DEF Item
<1>3. stripe # None /\ Upgrading => Included[stripe.sku] <= Included[i.sku]
  <2> SUFFICES ASSUME stripe # None, Upgrading PROVE Included[stripe.sku] <= Included[i.sku]
    OBVIOUS
  <2>1. CASE i.sku = stripe.sku
    BY <1>2, <2>1
  <2>2. CASE <<stripe.sku, i.sku>> \in env.changes
    BY <2>2 DEF Upgrading
  <2>3. QED
    BY <2>1, <2>2
<1>4. stripe # None /\ env.changes = {} => i.sku = stripe.sku
  OBVIOUS
<1>5. TypeOK'
  <2>1. change' \in [at : {"idle", "store"}, reply : Item \cup {None}]
    <3>1. [at : {"idle", "store"}, reply : Item] \subseteq
            [at : {"idle", "store"}, reply : Item \cup {None}]
      OBVIOUS
    <3>2. QED
      BY <3>1, Types
  <2>2. QED
    BY <1>1, <2>1, Parts DEF TypeOK, RowType, Item, Periods
<1>6. StripeInv'
  <2>1. row = None => Fresh'
    BY <1>1, Parts DEF StripeInv, Fresh
  <2>2. \A e \in snapshots' : e.period <= i.period
    BY <1>2, Parts DEF StripeInv
  <2>3. row # None => row.period <= i.period
    BY <1>2, RowTyped, Parts DEF StripeInv
  <2>4. QED
    BY <1>2, <2>1, <2>2, <2>3, Parts DEF StripeInv
<1>7. CallInv'
  <2>1. change'.at = "store" => change'.reply # None
    BY NoRecords, Parts DEF CallInv
  <2>2. QED
    BY <2>1, Parts DEF CallInv
<1>8. WriteInv' /\ GrantInv' /\ SpendInv'
  BY <1>1, Parts DEF WriteInv, GrantInv, SpendInv
<1>9. PlanInv'
  <2> SUFFICES ASSUME Upgrading PROVE PlanInv'
    BY <1>1 DEF PlanInv
  <2>1. \A e \in snapshots' : Included[e.sku] <= Included[i.sku]
    BY <1>2, <1>3, Parts DEF StripeInv, PlanInv
  <2>2. row # None => Included[row.sku] <= Included[i.sku]
    BY <1>2, <1>3, RowTyped, Parts DEF PlanInv
  <2>3. QED
    BY <2>1, <2>2, Parts DEF PlanInv
<1>10. OnePlanInv'
  <2> SUFFICES ASSUME env.changes = {} PROVE OnePlanInv'
    BY DEF OnePlanInv
  <2>1. CASE stripe = None
    BY <1>1, <2>1, Parts DEF StripeInv, Fresh, OnePlanInv
  <2>2. CASE stripe # None
    BY <1>1, <1>4, <2>2, Parts DEF OnePlanInv
  <2>3. QED
    BY <2>1, <2>2
<1>11. UsedMatchesCharges'
  BY <1>1, <1>2, Parts DEF UsedMatchesCharges, Outstanding
<1>12. QED
  BY <1>5, <1>6, <1>7, <1>8, <1>9, <1>10, <1>11 DEF AllowanceInv

LEMMA ItemSku ==
    ASSUME AllowanceInv, stripe # None, NEW k \in Skus
    PROVE  /\ [stripe EXCEPT !.sku = k] \in Item
           /\ [stripe EXCEPT !.sku = k].sku = k
           /\ [stripe EXCEPT !.sku = k].period = stripe.period
<1>1. stripe \in Item
  BY Types
<1>2. QED
  BY <1>1 DEF Item

LEMMA ItemPeriod ==
    ASSUME AllowanceInv, stripe # None, NEW p \in Periods
    PROVE  /\ [stripe EXCEPT !.period = p] \in Item
           /\ [stripe EXCEPT !.period = p].sku = stripe.sku
           /\ [stripe EXCEPT !.period = p].period = p
<1>1. stripe \in Item
  BY Types
<1>2. QED
  BY <1>1 DEF Item

LEMMA ItemLive ==
    ASSUME AllowanceInv, stripe # None, NEW l \in BOOLEAN
    PROVE  /\ [stripe EXCEPT !.live = l] \in Item
           /\ [stripe EXCEPT !.live = l].sku = stripe.sku
           /\ [stripe EXCEPT !.live = l].period = stripe.period
<1>1. stripe \in Item
  BY Types
<1>2. QED
  BY <1>1 DEF Item

\* An event under the same plan is no surprise to a change that waits.
LEMMA ChangeFrame ==
    ASSUME AllowanceInv, NEW i \in Item,
           stripe' = i, snapshots' = snapshots \cup {i}, UNCHANGED <<row, change>>,
           stripe # None => stripe.period <= i.period /\ i.sku = stripe.sku
    PROVE  ChangeInv'
<1> SUFFICES ASSUME change.at = "store" PROVE ChangeInv'
  BY DEF ChangeInv
<1>1. stripe # None /\ stripe \in Item /\ change.reply \in Item
  BY Types, Parts DEF StripeInv, Fresh, CallInv
<1>2. stripe.period \in Nat /\ i.period \in Nat /\ change.reply.period \in Nat
  BY <1>1, Numbers DEF Item
<1>3. QED
  BY <1>1, <1>2, Parts DEF ChangeInv

LEMMA SubscribeStep ==
    ASSUME AllowanceInv, NEW k \in Skus, Subscribe(k) PROVE AllowanceInv'
<1> DEFINE i == [sku |-> k, period |-> now, live |-> TRUE]
<1>1. i \in Item /\ i.period = now /\ now \in Periods /\ now \in Nat
  BY Types, Numbers DEF Item
<1>2. /\ stripe = None /\ stripe' = i /\ snapshots' = snapshots \cup {i} /\ env' = env
      /\ UNCHANGED <<now, row, grantVars, usageVars, creditVars, consume, sync, change>>
  BY DEF Subscribe, Becomes
<1> HIDE DEF i
<1>3. ChangeInv'
  BY <1>1, <1>2, ChangeFrame
<1>4. QED
  BY <1>1, <1>2, <1>3, EventFrame

LEMMA CancelStep == ASSUME AllowanceInv, Cancel PROVE AllowanceInv'
<1> DEFINE i == [stripe EXCEPT !.live = FALSE]
<1>1. i \in Item /\ i.period = stripe.period /\ i.sku = stripe.sku
  BY ItemLive DEF Cancel
<1>2. /\ stripe # None /\ stripe' = i /\ snapshots' = snapshots \cup {i} /\ env' = env
      /\ UNCHANGED <<now, row, grantVars, usageVars, creditVars, consume, sync, change>>
  BY DEF Cancel, Becomes
<1>3. stripe.period <= now /\ stripe.period \in Nat /\ now \in Nat /\ now \in Periods
  <2>1. stripe \in Item /\ now \in Periods
    BY <1>2, Types
  <2>2. QED
    BY <1>2, <2>1, Parts, Numbers DEF StripeInv, Item
<1> HIDE DEF i
<1>4. ChangeInv'
  BY <1>1, <1>2, <1>3, ChangeFrame
<1>5. /\ stripe.period <= i.period /\ i.sku = stripe.sku /\ i.period <= now'
      /\ now' \in Periods /\ now' >= now
  BY <1>1, <1>2, <1>3
<1>6. /\ UNCHANGED <<row, grantVars, usageVars, creditVars, consume, sync>>
      /\ UNCHANGED change
  BY <1>2
<1>7. QED
  BY <1>1, <1>2, <1>4, <1>5, <1>6, EventFrame

LEMMA RenewStep == ASSUME AllowanceInv, Renew PROVE AllowanceInv'
<1>1. /\ now' = now + 1 /\ now' \in Periods /\ now \in Nat /\ now > 0
      /\ UNCHANGED <<row, grantVars, usageVars, creditVars, consume, sync, change>>
  BY Types, Numbers DEF Renew, Periods
<1>2. CASE stripe # None /\ stripe.live
  <2> DEFINE i == [stripe EXCEPT !.period = now + 1]
  <2>1. i \in Item /\ i.period = now + 1 /\ i.sku = stripe.sku
    BY <1>1, <1>2, ItemPeriod
  <2>2. stripe' = i /\ snapshots' = snapshots \cup {i} /\ env' = env
    BY <1>2 DEF Renew, Becomes
  <2>3. stripe.period <= now /\ stripe.period \in Nat
    <3>1. stripe \in Item
      BY <1>2, Types
    <3>2. QED
      BY <1>2, <3>1, Parts, Numbers DEF StripeInv, Item
  <2> HIDE DEF i
  <2>4. ChangeInv'
    BY <1>1, <1>2, <2>1, <2>2, <2>3, ChangeFrame
  <2>5. /\ stripe.period <= i.period /\ i.sku = stripe.sku /\ i.period <= now' /\ now' >= now
    BY <1>1, <2>1, <2>3
  <2>6. /\ UNCHANGED <<row, grantVars, usageVars, creditVars, consume, sync>>
        /\ UNCHANGED change
    BY <1>1
  <2>7. QED
    BY <1>1, <2>1, <2>2, <2>4, <2>5, <2>6, EventFrame
<1>3. CASE ~(stripe # None /\ stripe.live)
  <2>1. UNCHANGED <<stripe, snapshots, env>>
    BY <1>3 DEF Renew
  <2>2. /\ Charges' = Charges /\ Upgrading' = Upgrading /\ Outstanding' = Outstanding
        /\ Periods' = Periods
    BY <1>1, <2>1, SameCharges DEF Upgrading, Outstanding, Periods, usageVars
  <2> USE DEF grantVars, usageVars, creditVars
  <2>3. TypeOK'
    BY <1>1, <2>1, <2>2, Parts DEF TypeOK, RowType, Item, Periods
  <2>4. StripeInv'
    <3>1. row = None => Fresh'
      BY <1>1, <2>1, <2>2, Parts DEF StripeInv, Fresh
    <3>2. stripe # None => stripe.period <= now'
      <4>1. stripe # None => stripe.period \in Nat
        BY Types, Numbers DEF Item
      <4>2. QED
        BY <1>1, <4>1, Parts DEF StripeInv
    <3>3. QED
      BY <1>1, <2>1, <3>1, <3>2, Parts DEF StripeInv
  <2>5. CallInv' /\ WriteInv' /\ ChangeInv' /\ GrantInv' /\ PlanInv' /\ SpendInv' /\ OnePlanInv'
    BY <1>1, <2>1, <2>2, Parts
    DEF CallInv, WriteInv, ChangeInv, GrantInv, PlanInv, SpendInv, OnePlanInv
  <2>6. UsedMatchesCharges'
    BY <1>1 DEF UsedMatchesCharges
  <2>7. QED
    BY <2>3, <2>4, <2>5, <2>6 DEF AllowanceInv
<1>4. QED
  BY <1>2, <1>3

LEMMA ChangeAtStripeStep ==
    ASSUME AllowanceInv, NEW k \in Skus, ChangeAtStripe(k) PROVE AllowanceInv'
<1> DEFINE i == [stripe EXCEPT !.sku = k]
<1>1. row # None /\ row.sku # k /\ <<stripe.sku, k>> \in env.changes
      /\ UNCHANGED <<now, row, grantVars, usageVars, creditVars, consume, sync>>
  BY DEF ChangeAtStripe, Changeable
<1>2. stripe # None /\ stripe \in Item /\ row.period <= stripe.period /\ stripe.period <= now
      /\ stripe.period \in Nat /\ now \in Nat /\ now \in Periods
      /\ \A e \in snapshots : e.period <= stripe.period /\ e.period \in Nat
  <2>1. stripe # None /\ stripe \in Item /\ now \in Periods /\ snapshots \subseteq Item
    BY <1>1, Types, RowTyped
  <2>2. QED
    BY <1>1, <2>1, Parts, Numbers DEF StripeInv, Item
<1>3. i \in Item /\ i.period = stripe.period /\ i.sku = k
  BY <1>2, ItemSku
<1>4. stripe' = i /\ snapshots' = snapshots \cup {i} /\ env' = env
      /\ change' = [at |-> "store", reply |-> i]
  BY DEF ChangeAtStripe, Becomes
<1> HIDE DEF i
<1>5. change' \in [at : {"idle", "store"}, reply : Item] /\ change'.at = "store"
      /\ change'.reply = i
  BY <1>3, <1>4
<1>6. ChangeInv'
  BY <1>1, <1>2, <1>3, <1>4, <1>5 DEF ChangeInv
<1>7. QED
  BY <1>1, <1>2, <1>3, <1>4, <1>5, <1>6, EventFrame

\* Without the change that waited.
LEMMA ChangeDiesStep == ASSUME AllowanceInv, ChangeDies PROVE AllowanceInv'
<1>1. /\ UNCHANGED <<stripeVars, row, grantVars, usageVars, creditVars, consume, sync>>
      /\ change' \in [at : {"idle", "store"}, reply : Item \cup {None}] /\ change'.at = "idle"
  BY DEF ChangeDies, NoChange
<1> USE DEF stripeVars, grantVars, usageVars, creditVars
<1>2. /\ Charges' = Charges /\ Upgrading' = Upgrading /\ Outstanding' = Outstanding
      /\ Periods' = Periods
  BY <1>1, SameCharges DEF Upgrading, Outstanding, Periods
<1>3. TypeOK'
  BY <1>1, <1>2, Parts DEF TypeOK, RowType, Item, Periods
<1>4. StripeInv' /\ CallInv'
  BY <1>1, <1>2, Parts DEF StripeInv, Fresh, CallInv
<1>5. WriteInv' /\ ChangeInv' /\ GrantInv'
  BY <1>1, <1>2, Parts DEF WriteInv, ChangeInv, GrantInv
<1>6. PlanInv' /\ SpendInv' /\ OnePlanInv' /\ UsedMatchesCharges'
  BY <1>1, <1>2, Parts DEF PlanInv, SpendInv, OnePlanInv, UsedMatchesCharges, Outstanding
<1>7. QED
  BY <1>3, <1>4, <1>5, <1>6 DEF AllowanceInv

LEMMA StoreChangeStep == ASSUME AllowanceInv, StoreChange PROVE AllowanceInv'
<1> DEFINE i == change.reply
<1>1. /\ change.at = "store" /\ UNCHANGED <<stripeVars, grants, usageVars, creditVars, consume, sync>>
      /\ row' = [row EXCEPT !.sku = i.sku, !.period = i.period, !.live = i.live,
                   !.included = Included[i.sku]]
      /\ given' = IF Included[i.sku] > row.included
                  THEN given + (Included[i.sku] - row.included) ELSE given
      /\ change' = NoChange
  BY DEF StoreChange
<1>2. row # None /\ i # None
  BY <1>1, Parts DEF StripeInv, Fresh, CallInv
<1>3. i \in Item
  BY <1>2, Types
<1>4. /\ i.sku \in Skus /\ i.period \in Periods /\ i.period \in Nat /\ i.live \in BOOLEAN
      /\ Included[i.sku] \in Nat
  BY <1>3, Numbers DEF Item
<1>5. /\ row.period \in Nat /\ row.sku \in Skus /\ Included[row.sku] \in Nat
      /\ row.included \in Nat /\ row.used \in Nat /\ stripe.period \in Nat /\ given \in Nat
      /\ stripe # None
  BY <1>2, RowTyped, Parts DEF TypeOK
<1>6. /\ stripe.sku = i.sku /\ row.period <= i.period /\ i.period <= stripe.period
      /\ \A e \in snapshots : e.period > i.period => e.sku = i.sku
  BY <1>1, Parts DEF ChangeInv
<1> HIDE DEF i
<1>7. /\ row' \in RowType /\ row' # None
      /\ row'.sku = i.sku /\ row'.period = i.period /\ row'.included = Included[i.sku]
      /\ row'.used = row.used
  BY <1>1, <1>2, <1>4, RowRenamed
<1>8. change' \in [at : {"idle", "store"}, reply : Item \cup {None}] /\ change'.at = "idle"
  BY <1>1 DEF NoChange
<1>9. given' \in Nat /\ given' >= given /\ given' + row.included >= given + Included[i.sku]
  BY <1>1, <1>4, <1>5
<1> USE DEF stripeVars, usageVars, creditVars
<1>10. /\ Charges' = Charges /\ Upgrading' = Upgrading /\ Outstanding' = Outstanding
       /\ Periods' = Periods
  BY <1>1, SameCharges DEF Upgrading, Outstanding, Periods
<1>11. TypeOK'
  <2>1. row' \in RowType'
    BY <1>1, <1>7 DEF RowType, Periods
  <2>2. QED
    BY <1>1, <1>8, <1>9, <1>10, <2>1, Parts DEF TypeOK, RowType, Item, Periods
<1>12. StripeInv' /\ CallInv'
  BY <1>1, <1>5, <1>6, <1>7, <1>8, Parts DEF StripeInv, CallInv
<1>13. ASSUME NEW w \in Syncers, sync[w].at = "write", sync[w].seen > 0
       PROVE  /\ sync[w].seen <= row.period /\ sync[w].seen <= sync[w].event.period
              /\ sync[w].seen \in Nat /\ sync[w].event \in snapshots
              /\ sync[w].event.period \in Nat
  BY <1>13, SyncTyped, Parts DEF WriteInv
<1>14. WriteInv'
  <2> SUFFICES ASSUME NEW w \in Syncers, sync[w].at = "write", sync[w].seen > 0
               PROVE  /\ sync[w].seen <= row'.period /\ sync[w].seen <= sync[w].event.period
                      /\ sync[w].seen = row'.period /\ sync[w].event.period > row'.period =>
                           sync[w].event.sku = row'.sku
    BY <1>1 DEF WriteInv
  <2>1. QED
    BY <1>4, <1>5, <1>6, <1>7, <1>13
<1>15. ChangeInv'
  BY <1>8 DEF ChangeInv
<1>16. GrantInv'
  <2>1. \A p \in Periods : p > i.period => p > row.period
    BY <1>4, <1>5, <1>6, Numbers
  <2>2. QED
    BY <1>1, <1>2, <1>7, <1>10, <2>1, Parts DEF GrantInv
<1>17. Upgrading => Included[row.sku] <= Included[i.sku]
  BY <1>2, <1>6, Parts DEF PlanInv
<1>18. PlanInv'
  <2> SUFFICES ASSUME Upgrading PROVE PlanInv'
    BY <1>10 DEF PlanInv
  <2>1. \A w \in Syncers : sync[w].at = "write" /\ sync[w].seen > 0 =>
          Included[sync[w].event.sku] <= Included[i.sku]
    <3> SUFFICES ASSUME NEW w \in Syncers, sync[w].at = "write", sync[w].seen > 0
                 PROVE  Included[sync[w].event.sku] <= Included[i.sku]
      OBVIOUS
    <3>1. Included[sync[w].event.sku] <= Included[stripe.sku]
      BY <1>13, Parts DEF PlanInv
    <3>2. QED
      BY <1>6, <3>1
  <2>2. \A c \in Consumers : consume[c].at \in {"read", "debit"} =>
          consume[c].sub.included <= Included[i.sku]
    <3> SUFFICES ASSUME NEW c \in Consumers, consume[c].at \in {"read", "debit"}
                 PROVE  consume[c].sub.included <= Included[i.sku]
      OBVIOUS
    <3>1. consume[c].sub.included \in Nat
      BY ConsumeTyped DEF RowType
    <3>2. consume[c].sub.included <= Included[row.sku]
      BY Parts DEF PlanInv
    <3>3. QED
      BY <1>4, <1>5, <1>17, <3>1, <3>2
  <2>3. \A e \in snapshots : Included[e.sku] <= Included[stripe.sku]
    BY Parts DEF PlanInv
  <2>4. QED
    BY <1>1, <1>4, <1>6, <1>7, <2>1, <2>2, <2>3 DEF PlanInv
<1>19. SpendInv'
  <2>1. ASSUME Upgrading
        PROVE  /\ Cardinality(Outstanding) <= given'
               /\ Cardinality(Outstanding) + Included[i.sku] <= given' + row.used
    <3>1. /\ Cardinality(Outstanding) <= given
          /\ Cardinality(Outstanding) + Included[row.sku] <= given + row.used
          /\ row.included <= Included[row.sku] /\ Cardinality(Outstanding) \in Nat
      BY <1>2, <2>1, Parts, Counts DEF SpendInv, PlanInv
    <3>2. QED
      BY <1>4, <1>5, <1>9, <3>1
  <2>2. QED
    BY <1>1, <1>7, <1>10, <2>1, Parts DEF SpendInv
<1>20. OnePlanInv' /\ UsedMatchesCharges'
  BY <1>1, <1>2, <1>6, <1>7, <1>8, <1>10, Parts
  DEF OnePlanInv, UsedMatchesCharges, Outstanding
<1>21. QED
  BY <1>11, <1>12, <1>14, <1>15, <1>16, <1>18, <1>19, <1>20 DEF AllowanceInv

-----------------------------------------------------------------------------
(* The invariant *)

LEMMA AllowanceInit == Init => AllowanceInv
<1> SUFFICES ASSUME Init PROVE AllowanceInv
  OBVIOUS
<1>1. /\ env \in Environments /\ env.periods \in Nat \ {0} /\ env.credits \in Nat
      /\ Periods \subseteq Nat /\ 1 \in Periods
  BY AllowanceAssumption DEF Init, Periods
<1>2. Charges = {} /\ Outstanding = {}
  BY DEF Init, Charges, Charged, Outstanding
<1>3. TypeOK
  <2>1. /\ consume \in [Consumers -> ConsumeType] /\ sync \in [Syncers -> SyncType]
    BY DEF Init, NoCall, NoSync, ConsumeType, ConsumeSteps, SyncType
  <2>2. change \in [at : {"idle", "store"}, reply : Item \cup {None}]
    BY DEF Init, NoChange
  <2>3. usage \in [Sources -> Seq(Skus)]
    BY DEF Init
  <2>4. QED
    BY <1>1, <2>1, <2>2, <2>3 DEF Init, TypeOK, ConsumeType, ConsumeSteps, SyncType
<1>4. /\ \A c \in Consumers : consume[c].at = "idle"
      /\ \A w \in Syncers : sync[w].at = "idle" /\ sync[w].seen = 0
      /\ change.at = "idle"
  BY DEF Init, NoCall, NoSync, NoChange
<1>5. StripeInv /\ CallInv
  BY <1>1, <1>2, <1>4 DEF Init, StripeInv, Fresh, CallInv
<1>6. WriteInv /\ ChangeInv /\ GrantInv
  BY <1>1, <1>4 DEF Init, WriteInv, ChangeInv, GrantInv
<1>7. PlanInv /\ SpendInv
  BY <1>2, <1>4, FS_EmptySet DEF Init, PlanInv, SpendInv
<1>8. OnePlanInv /\ UsedMatchesCharges
  BY <1>2, <1>4 DEF Init, OnePlanInv, UsedMatchesCharges
<1>9. QED
  BY <1>3, <1>5, <1>6, <1>7, <1>8 DEF AllowanceInv

LEMMA SameAllowance == ASSUME AllowanceInv, UNCHANGED vars PROVE AllowanceInv'
<1> USE DEF vars, stripeVars, grantVars, usageVars, creditVars
<1>1. /\ Charges' = Charges /\ Upgrading' = Upgrading /\ Outstanding' = Outstanding
      /\ Periods' = Periods
  BY SameCharges DEF Upgrading, Outstanding, Periods
<1>2. TypeOK' /\ StripeInv' /\ CallInv'
  BY <1>1, Parts DEF TypeOK, RowType, Item, Periods, StripeInv, Fresh, CallInv
<1>3. WriteInv' /\ ChangeInv' /\ GrantInv'
  BY <1>1, Parts DEF WriteInv, ChangeInv, GrantInv
<1>4. PlanInv' /\ SpendInv' /\ OnePlanInv' /\ UsedMatchesCharges'
  BY <1>1, Parts DEF PlanInv, SpendInv, OnePlanInv, UsedMatchesCharges, Outstanding
<1>5. QED
  BY <1>2, <1>3, <1>4 DEF AllowanceInv

LEMMA AllowanceStep == AllowanceInv /\ [Next]_vars => AllowanceInv'
<1> SUFFICES ASSUME AllowanceInv, [Next]_vars PROVE AllowanceInv'
  OBVIOUS
<1>1. ASSUME NEW k \in Skus, Subscribe(k) \/ ChangeAtStripe(k) PROVE AllowanceInv'
  BY <1>1, SubscribeStep, ChangeAtStripeStep
<1>2. CASE Renew \/ Cancel
  BY <1>2, RenewStep, CancelStep
<1>3. ASSUME NEW c \in env.consumers, NEW s \in env.sources, StartConsume(c, s)
      PROVE  AllowanceInv'
  BY <1>3, StartConsumeStep
<1>4. ASSUME NEW c \in Consumers, Consume(c) PROVE AllowanceInv'
  BY <1>4, FindSubscriptionStep, ReadSubscriptionStep, DebitStep, CreditFallbackStep DEF Consume
<1>5. ASSUME NEW s \in Sources, RefundUsage(s) \/ RefundCredit(s) PROVE AllowanceInv'
  BY <1>5, RefundUsageStep, RefundCreditStep
<1>6. ASSUME NEW w \in env.syncers, NEW e \in snapshots, StartSync(w, e) PROVE AllowanceInv'
  BY <1>6, StartSyncStep
<1>7. ASSUME NEW w \in Syncers, Sync(w) PROVE AllowanceInv'
  BY <1>7, SyncReadStep, SyncCreateStep, SyncUpdateStep DEF Sync
<1>8. CASE StoreChange \/ ChangeDies
  BY <1>8, StoreChangeStep, ChangeDiesStep
<1>9. CASE UNCHANGED vars
  BY <1>9, SameAllowance
<1>10. QED
  BY <1>1, <1>2, <1>3, <1>4, <1>5, <1>6, <1>7, <1>8, <1>9 DEF Next

\* AllowanceInv is inductive.
THEOREM AllowanceInvariance == Spec => []AllowanceInv
<1>1. QED
  BY AllowanceInit, AllowanceStep, PTL DEF Spec

-----------------------------------------------------------------------------
(* What it gives *)

\* Every variable keeps its type.
THEOREM AllowanceTypes == Spec => []TypeOK
<1>1. AllowanceInv => TypeOK
  BY DEF AllowanceInv
<1>2. QED
  BY <1>1, AllowanceInvariance, PTL

\* On plans that never get smaller, what is used and not given back never
\* exceeds what the periods granted, for any number of consumes and handlers.
THEOREM NothingOverdrawn == Spec => []NeverOverdrawn
<1>1. AllowanceInv => NeverOverdrawn
  BY DEF AllowanceInv, SpendInv, NeverOverdrawn, Outstanding
<1>2. QED
  BY <1>1, AllowanceInvariance, PTL

\* A billing period's allowance is granted once, however late or often its
\* events come and whatever plan changes are stored among them.
THEOREM PeriodsGrantedOnce == Spec => []GrantedOncePerPeriod
<1>1. AllowanceInv => GrantedOncePerPeriod
  BY DEF AllowanceInv, GrantInv, GrantedOncePerPeriod
<1>2. QED
  BY <1>1, AllowanceInvariance, PTL

\* In the first period of a plan that does not change the counter is exact.
THEOREM CounterIsExact == Spec => []UsedMatchesCharges
<1>1. AllowanceInv => UsedMatchesCharges
  BY DEF AllowanceInv
<1>2. QED
  BY <1>1, AllowanceInvariance, PTL

\* No step takes the row away or back to an earlier period.
LEMMA RowAdvances ==
    ASSUME AllowanceInv, [Next]_vars, row # None
    PROVE  row'.period >= row.period
<1> DEFINE Later == row'.period >= row.period
<1>a. row.period \in Nat
  BY RowTyped
<1>b. row' = row => Later
  BY <1>a
<1>1. ASSUME NEW k \in Skus, Subscribe(k) \/ ChangeAtStripe(k) PROVE Later
  BY <1>1, <1>b DEF Subscribe, ChangeAtStripe
<1>2. ASSUME Renew \/ Cancel PROVE Later
  BY <1>2, <1>b DEF Renew, Cancel
<1>3. ASSUME NEW c \in env.consumers, NEW s \in env.sources, StartConsume(c, s) PROVE Later
  BY <1>3, <1>b DEF StartConsume
<1>4. ASSUME NEW c \in Consumers, Consume(c) PROVE Later
  <2>1. CASE row' = [row EXCEPT !.used = @ + 1]
    <3>1. row.used + 1 \in Nat /\ row' = [row EXCEPT !.used = row.used + 1]
      BY <2>1, RowTyped
    <3>2. QED
      BY <1>a, <3>1, CounterIs
  <2>2. QED
    BY <1>4, <1>b, <2>1 DEF Consume, FindSubscription, ReadSubscription, Debit, CreditFallback
<1>5. ASSUME NEW s \in Sources, RefundUsage(s) \/ RefundCredit(s) PROVE Later
  <2>1. CASE row.used > 0 /\ row' = [row EXCEPT !.used = @ - 1]
    <3>1. row.used - 1 \in Nat /\ row' = [row EXCEPT !.used = row.used - 1]
      BY <2>1, RowTyped
    <3>2. QED
      BY <1>a, <3>1, CounterIs
  <2>2. QED
    BY <1>5, <1>b, <2>1 DEF RefundUsage, RefundCredit, Returnable
<1>6. ASSUME NEW w \in env.syncers, NEW e \in snapshots, StartSync(w, e) PROVE Later
  BY <1>6, <1>b DEF StartSync
<1>7. ASSUME NEW w \in Syncers, Sync(w) PROVE Later
  <2>1. CASE SyncUpdate(w) /\ StillSeen(w)
    <3>1. row.period <= row'.period /\ row' \in RowType
      BY <2>1, UpdateIs
    <3>2. row'.period \in Nat
      BY <3>1, Numbers DEF RowType
    <3>3. QED
      BY <1>a, <3>1, <3>2
  <2>2. QED
    BY <1>7, <1>b, <2>1 DEF Sync, SyncRead, SyncCreate, SyncUpdate
<1>8. ASSUME StoreChange PROVE Later
  <2> DEFINE i == change.reply
  <2>1. i \in Item /\ row.period <= i.period
    BY <1>8, Types, Parts DEF StoreChange, CallInv, ChangeInv
  <2>2. /\ i.sku \in Skus /\ i.period \in Periods /\ i.period \in Nat /\ i.live \in BOOLEAN
        /\ Included[i.sku] \in Nat
    BY <2>1, Numbers DEF Item
  <2>3. row' = [row EXCEPT !.sku = i.sku, !.period = i.period, !.live = i.live,
                  !.included = Included[i.sku]]
    BY <1>8 DEF StoreChange
  <2> HIDE DEF i
  <2>4. row'.period = i.period
    BY <2>2, <2>3, RowRenamed
  <2>5. QED
    BY <1>a, <2>1, <2>2, <2>4
<1>9. ASSUME ChangeDies PROVE Later
  BY <1>9, <1>b DEF ChangeDies
<1>10. ASSUME UNCHANGED vars PROVE Later
  BY <1>10, <1>b DEF vars
<1> HIDE DEF Later
<1>11. ASSUME Next PROVE Later
  BY <1>1, <1>2, <1>3, <1>4, <1>5, <1>6, <1>7, <1>8, <1>9, <1>11 DEF Next
<1>12. Later
  BY <1>10, <1>11
<1>13. QED
  BY <1>12 DEF Later

\* An event that arrives late never takes the row back to an earlier period.
THEOREM PeriodsAdvance == Spec => PeriodNeverRegresses
<1>1. AllowanceInv /\ [Next]_vars => [row # None => row'.period >= row.period]_vars
  BY RowAdvances
<1>2. QED
  BY <1>1, AllowanceInvariance, PTL DEF Spec, PeriodNeverRegresses
=============================================================================
