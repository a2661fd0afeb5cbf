--------------------------- MODULE BillingCredits ---------------------------
(***************************************************************************)
(* The manual-credit wallet of one organization and one product            *)
(* (apps/api/src/billing/billing-credits.service.ts).  A balance row       *)
(* exists per scope: the whole product (skuKey null) or one SKU; the       *)
(* migration's unique index on (organization, product, COALESCE(sku, ''))  *)
(* makes the scope the identity of the row.  Callers are concurrent        *)
(* requests; every database statement or transaction of a method is one    *)
(* atomic step, and a call can die (thrown error, process restart) between *)
(* any two.                                                                *)
(***************************************************************************)
EXTENDS Naturals, FiniteSets

CONSTANTS
    Callers,        \* concurrent requests to the API
    Scopes,         \* skuKey of a balance row, null included
    Sources,        \* sourceResourceIds credits are spent on
    GrantKeys,      \* idempotency keys of grants
    KeyScope,       \* the scope a grant key is for: the key contains it
    KeyAmount,      \* the quantity of a grant key: the key contains it
    Requests,       \* grant requests: one decision to add credits each
    RequestKey,     \* the idempotency key the code derives for a request
    None            \* no argument, no row

ASSUME CreditsAssumption ==
    /\ IsFiniteSet(Scopes) /\ IsFiniteSet(Sources) /\ IsFiniteSet(GrantKeys)
    /\ KeyScope \in [GrantKeys -> Scopes]
    /\ KeyAmount \in [GrantKeys -> Nat \ {0}]
    /\ RequestKey \in [Requests -> GrantKeys]
    /\ None \notin Scopes \cup Sources \cup Requests

VARIABLES
    createdAt,      \* creation rank of each balance row, 0 while it is missing
    balance,        \* the counters of each balance row
    totalGranted,
    totalConsumed,
    totalRefunded,
    grantEvent,     \* grant events, by idempotency key
    consumeEvent,   \* the row each source's consume event names, or None
    refundEvent,    \* the sources with a refund event
    pc,             \* where each caller is
    arg,            \* the request or source of its call
    avail,          \* the balances its consume loop has still to try
    reply           \* what its last call answered

rowVars == <<createdAt, balance, totalGranted, totalConsumed, totalRefunded>>
eventVars == <<grantEvent, consumeEvent, refundEvent>>
callVars == <<pc, arg, avail, reply>>
vars == <<rowVars, eventVars, callVars>>

Steps == {"createBalance", "grantTx", "listBalances", "tryBalance", "refundTx"}
Replies == {"none", "granted", "consumed", "exhausted", "not_configured",
            "refunded", "nothing", "error"}

Rows == {r \in Scopes : createdAt[r] > 0}

-----------------------------------------------------------------------------
(* Calls *)

Goto(c, step) ==
    /\ pc' = [pc EXCEPT ![c] = step]
    /\ UNCHANGED reply

Answer(c, r) ==
    /\ pc' = [pc EXCEPT ![c] = "idle"]
    /\ reply' = [reply EXCEPT ![c] = r]

Begin(c, a) ==
    /\ pc[c] = "idle"
    /\ arg' = [arg EXCEPT ![c] = a]
    /\ avail' = [avail EXCEPT ![c] = {}]

BeginAndAnswer(c, a, r) == Begin(c, a) /\ Answer(c, r)

BeginAndGoto(c, a, step) ==
    /\ Begin(c, a)
    /\ pc' = [pc EXCEPT ![c] = step]
    /\ reply' = [reply EXCEPT ![c] = "none"]

\* A thrown database error or a restart ends the call where it stands; the
\* transaction it was about to run never commits.
Abandon(c) ==
    /\ pc[c] # "idle"
    /\ Answer(c, "error")
    /\ UNCHANGED <<rowVars, eventVars, arg, avail>>

-----------------------------------------------------------------------------
(* grant *)

RequestScope(g) == KeyScope[RequestKey[g]]

\* findOrCreateBalance: look the row up.
StartGrant(c, g) ==
    /\ BeginAndGoto(c, g, IF RequestScope(g) \in Rows THEN "grantTx"
                                                      ELSE "createBalance")
    /\ UNCHANGED <<rowVars, eventVars>>

\* Create the row; on a unique violation another caller has, and that row is
\* read back instead.
CreateBalance(c) ==
    LET r == RequestScope(arg[c]) IN
    /\ pc[c] = "createBalance"
    /\ Goto(c, "grantTx")
    /\ IF r \in Rows THEN UNCHANGED createdAt
                     ELSE createdAt' = [createdAt EXCEPT ![r] = Cardinality(Rows) + 1]
    /\ UNCHANGED <<balance, totalGranted, totalConsumed, totalRefunded,
                   eventVars, arg, avail>>

\* The unique idempotency key: a second event under one key rolls the
\* transaction back.
GrantKeyUnchecked(k) == FALSE
AlreadyGranted(k) == k \in grantEvent

GrantTx(c) ==
    LET k == RequestKey[arg[c]]
        r == KeyScope[k] IN
    /\ pc[c] = "grantTx"
    /\ Answer(c, "granted")
    /\ IF AlreadyGranted(k)
       THEN UNCHANGED <<grantEvent, balance, totalGranted>>
       ELSE /\ grantEvent' = grantEvent \cup {k}
            /\ balance' = [balance EXCEPT ![r] = @ + KeyAmount[k]]
            /\ totalGranted' = [totalGranted EXCEPT ![r] = @ + KeyAmount[k]]
    /\ UNCHANGED <<createdAt, totalConsumed, totalRefunded,
                   consumeEvent, refundEvent, arg, avail>>

-----------------------------------------------------------------------------
(* tryConsumeForProduct *)

Consumed(s) == consumeEvent[s] # None

StartConsume(c, s) ==
    /\ IF Consumed(s) THEN BeginAndAnswer(c, s, "consumed")
                      ELSE BeginAndGoto(c, s, "listBalances")
    /\ UNCHANGED <<rowVars, eventVars>>

ListBalances(c) ==
    LET available == {r \in Rows : balance[r] > 0} IN
    /\ pc[c] = "listBalances"
    /\ \/ /\ Rows = {}
          /\ Answer(c, "not_configured")
       \/ /\ Rows # {} /\ available = {}
          /\ Answer(c, "exhausted")
       \/ /\ available # {}
          /\ Goto(c, "tryBalance")
    /\ avail' = [avail EXCEPT ![c] = available]
    /\ UNCHANGED <<rowVars, eventVars, arg>>

\* The WHERE clause of the conditional decrement.
DebitUnconditionally(r) == TRUE
Debitable(r) == balance[r] > 0

\* The unique key of the consume event.
AlreadyConsumed(s) == Consumed(s)

Oldest(rs) == {r \in rs : \A q \in rs : createdAt[r] <= createdAt[q]}

\* What the loop goes on with after a balance was drained under it.
StillToTry(c, r) == avail[c] \ {r}

TryRow(c, s, r) ==
    \/ /\ Debitable(r) /\ ~AlreadyConsumed(s)
       /\ balance' = [balance EXCEPT ![r] = @ - 1]
       /\ totalConsumed' = [totalConsumed EXCEPT ![r] = @ + 1]
       /\ consumeEvent' = [consumeEvent EXCEPT ![s] = r]
       /\ Answer(c, "consumed")
       /\ UNCHANGED avail
    \/ /\ Debitable(r) /\ AlreadyConsumed(s)
       /\ Answer(c, "consumed")
       /\ UNCHANGED <<balance, totalConsumed, consumeEvent, avail>>
    \/ /\ ~Debitable(r)
       /\ avail' = [avail EXCEPT ![c] = StillToTry(c, r)]
       /\ IF StillToTry(c, r) = {} THEN Answer(c, "exhausted")
                                   ELSE Goto(c, "tryBalance")
       /\ UNCHANGED <<balance, totalConsumed, consumeEvent>>

TryBalance(c) ==
    /\ pc[c] = "tryBalance"
    /\ \E r \in Oldest(avail[c]) : TryRow(c, arg[c], r)
    /\ UNCHANGED <<createdAt, totalGranted, totalRefunded,
                   grantEvent, refundEvent, arg>>

-----------------------------------------------------------------------------
(* refundForProduct *)

\* Variant: the refund transaction is not awaited.
StartRefundUnawaited(c, s) ==
    /\ BeginAndAnswer(c, s, IF Consumed(s) THEN "refunded" ELSE "nothing")
    /\ UNCHANGED <<rowVars, eventVars>>

StartRefund(c, s) ==
    /\ IF Consumed(s) THEN BeginAndGoto(c, s, "refundTx")
                      ELSE BeginAndAnswer(c, s, "nothing")
    /\ UNCHANGED <<rowVars, eventVars>>

\* The unique key of the refund event, the same for every reason.
RefundKeyUnchecked(s) == FALSE
AlreadyRefunded(s) == s \in refundEvent

RefundTx(c) ==
    LET s == arg[c]
        r == consumeEvent[s] IN
    /\ pc[c] = "refundTx"
    /\ Answer(c, "refunded")
    /\ IF AlreadyRefunded(s)
       THEN UNCHANGED <<refundEvent, balance, totalConsumed, totalRefunded>>
       ELSE /\ refundEvent' = refundEvent \cup {s}
            /\ balance' = [balance EXCEPT ![r] = @ + 1]
            /\ totalRefunded' = [totalRefunded EXCEPT ![r] = @ + 1]
            /\ totalConsumed' = [totalConsumed EXCEPT ![r] = @ - 1]
    /\ UNCHANGED <<createdAt, totalGranted, grantEvent, consumeEvent, arg, avail>>

-----------------------------------------------------------------------------
Init ==
    /\ createdAt = [r \in Scopes |-> 0]
    /\ balance = [r \in Scopes |-> 0]
    /\ totalGranted = [r \in Scopes |-> 0]
    /\ totalConsumed = [r \in Scopes |-> 0]
    /\ totalRefunded = [r \in Scopes |-> 0]
    /\ grantEvent = {}
    /\ consumeEvent = [s \in Sources |-> None]
    /\ refundEvent = {}
    /\ pc = [c \in Callers |-> "idle"]
    /\ arg = [c \in Callers |-> None]
    /\ avail = [c \in Callers |-> {}]
    /\ reply = [c \in Callers |-> "none"]

Advance(c) ==
    \/ CreateBalance(c) \/ GrantTx(c)
    \/ ListBalances(c) \/ TryBalance(c)
    \/ RefundTx(c)

Next == \E c \in Callers :
    \/ \E g \in Requests : StartGrant(c, g)
    \/ \E s \in Sources : StartConsume(c, s) \/ StartRefund(c, s)
    \/ Advance(c)
    \/ Abandon(c)

Spec == Init /\ [][Next]_vars

-----------------------------------------------------------------------------
(* Properties *)

TypeOK ==
    /\ createdAt \in [Scopes -> Nat]
    /\ balance \in [Scopes -> Nat]
    /\ totalGranted \in [Scopes -> Nat]
    /\ totalConsumed \in [Scopes -> Nat]
    /\ totalRefunded \in [Scopes -> Nat]
    /\ grantEvent \subseteq GrantKeys
    /\ consumeEvent \in [Sources -> Scopes \cup {None}]
    /\ refundEvent \subseteq Sources
    /\ pc \in [Callers -> Steps \cup {"idle"}]
    /\ arg \in [Callers -> Requests \cup Sources \cup {None}]
    /\ avail \in [Callers -> SUBSET Scopes]
    /\ reply \in [Callers -> Replies]

\* The credits a row was ever given, one by one.
GrantedUnits(r) ==
    UNION {{<<k, i>> : i \in 1..KeyAmount[k]} : k \in {g \in grantEvent : KeyScope[g] = r}}

ChargesOn(r) == {s \in Sources : consumeEvent[s] = r}

\* The four counters of a balance row are redundant with its events, and the
\* code keeps both: whatever calls interleave, die or repeat, the counters of
\* every row tell exactly what its event history tells, and the spendable
\* balance is what was granted less the charges not given back.
LedgerAgrees == \A r \in Scopes :
    /\ totalGranted[r] = Cardinality(GrantedUnits(r))
    /\ totalConsumed[r] = Cardinality(ChargesOn(r) \ refundEvent)
    /\ totalRefunded[r] = Cardinality(ChargesOn(r) \cap refundEvent)
    /\ totalGranted[r] = balance[r] + totalConsumed[r]

\* An answer is true: a caller told "consumed", "refunded" or "granted" finds
\* the event it was told about committed, even when it lost a race for the
\* key and its own transaction was rolled back.
RepliesAreTrue == \A c \in Callers :
    /\ reply[c] = "consumed" => Consumed(arg[c])
    /\ reply[c] = "refunded" => arg[c] \in refundEvent
    /\ reply[c] = "granted" => RequestKey[arg[c]] \in grantEvent

\* The wallet implements the abstract ledger: each row is a pot, a consume
\* event is the charge, a refund event its return.
Ledger == INSTANCE AllowanceLedger WITH
    Pots <- Scopes, NoPot <- None,
    Grants <- GrantKeys, GrantPot <- KeyScope, GrantSize <- KeyAmount,
    funds <- balance, granted <- grantEvent,
    chargedTo <- consumeEvent, refunded <- refundEvent

ImplementsLedger == Ledger!LedgerSpec
=============================================================================
