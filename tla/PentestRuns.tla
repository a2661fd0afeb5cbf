----------------------------- MODULE PentestRuns -----------------------------
(***************************************************************************)
(* Paid penetration tests of one organization                              *)
(* (apps/api/src/security-penetration-tests): a create call charges the    *)
(* allowance, starts the scan at the provider and stores the ownership     *)
(* row; provider webhooks refund, retry, block and audit the run.  The     *)
(* allowance is the ledger of AllowanceLedger, which the billing services  *)
(* implement.  Every database transaction, provider request and webhook    *)
(* delivery is one step; bounded times, a process dies, a request or a    *)
(* statement fails, or an acknowledged webhook is delivered again.         *)
(***************************************************************************)
EXTENDS AllowanceLedger, FiniteSets

CONSTANTS
    Users,          \* customer requests that create a scan
    Workers,        \* requests that deliver a provider webhook
    Runs,           \* provider run ids
    None,           \* no run, no row, no charge
    Environments    \* what may happen, see env

Calls == Users \cup Workers
EventTypes == {"failed", "cancelled", "completed"}

ASSUME PentestAssumption ==
    /\ Environments \subseteq
         [runs : SUBSET Runs, ends : SUBSET EventTypes, attempts : Nat \ {0},
          faults : Nat, early : BOOLEAN, concurrent : BOOLEAN]
    /\ None \notin Runs \cup Sources
    /\ Users \cap Workers = {}

VARIABLES
    status,     \* the provider's view of each run
    keyParent,  \* the parent named by the idempotency key a run was created with
    events,     \* webhook events the provider emitted for each run
    acked,      \* those answered with success
    row,        \* the ownership row of each run
    audits,     \* pentest_completed audit entries of each run
    call,       \* where each call is, and what it knows
    faults,     \* faults so far
    stranded,   \* charges whose call died or whose quiet refund was lost
    env         \* chosen once: the provider's run ids and how runs end, MAX_ATTEMPTS,
                \* the bound on faults, may a webhook arrive before the run's row is
                \* stored, may an event be delivered while it is being handled

providerVars == <<status, keyParent, events>>
faultVars == <<faults, stranded, env>>
vars == <<ledgerVars, providerVars, acked, row, audits, call, faultVars>>

Creating == {"reserve", "create", "persist", "giveBack"}
Steps == Creating \cup {"idle", "refund", "checkBlock", "checkChild", "block",
                        "claimAudit", "writeAudit"}

\* A call knows the run and type of the event it handles, the source id it
\* reserved and the run its provider request returned.
Idle == [at |-> "idle", run |-> None, event |-> None, source |-> None, created |-> None]

Owned == {r \in Runs : row[r] # None}
Lineage(root) == {r \in Owned : row[r].root = root}

\* A fault of the environment: a thrown error, a timeout, a restart.
Fault == faults < env.faults /\ faults' = faults + 1 /\ UNCHANGED env
NoFault == UNCHANGED <<faults, env>>

-----------------------------------------------------------------------------
(* Calls *)

Goto(p, step) == call' = [call EXCEPT ![p].at = step]
Leave(p) == call' = [call EXCEPT ![p] = Idle]

\* A worker answers 200: the provider takes its event for delivered.
Succeed(p) ==
    /\ Leave(p)
    /\ acked' = IF p \in Workers
                THEN [acked EXCEPT ![call[p].run] = @ \cup {call[p].event}]
                ELSE acked

\* Variant: the error is caught and answered with success.
SwallowError(p) == Succeed(p)

\* An error answer: the customer sees it, the provider redelivers.
Fail(p) == Leave(p) /\ UNCHANGED acked

\* The run a call retries, none for a customer's own create.
Parent(p) == call[p].run

\* A thrown error or a restart: what the call had charged and not attached is nobody's.
Die(p) ==
    /\ call[p].at # "idle" /\ Fault
    /\ Fail(p)
    /\ stranded' = IF call[p].at \in {"create", "persist", "giveBack"}
                   THEN stranded \cup {call[p].source} ELSE stranded
    /\ UNCHANGED <<ledgerVars, providerVars, row, audits>>

-----------------------------------------------------------------------------
(* createReport *)

StartCreate(u) ==
    /\ call[u].at = "idle"
    /\ Goto(u, "reserve")
    /\ UNCHANGED <<ledgerVars, providerVars, acked, row, audits, faultVars>>

\* Variant: a retry runs on the charge of the run it retries.
ParentSource(p) ==
    IF Parent(p) # None THEN {row[Parent(p)].source}
    ELSE {s \in Sources : chargedTo[s] = NoPot}

\* pending:<uuid>: an id nothing was ever charged to.
NewSource(p) == {s \in Sources : chargedTo[s] = NoPot}

\* Variant: the debit is not conditional.
ConsumeUnchecked(s) ==
    \E pot \in Pots : /\ funds' = [funds EXCEPT ![pot] = @ - 1]
                      /\ chargedTo' = [chargedTo EXCEPT ![s] = pot]
                      /\ UNCHANGED <<granted, refunded>>

\* tryConsumeIncludedUsageForProduct: a source charged before is answered as
\* consumed without a debit.
Consume(s) ==
    IF chargedTo[s] # NoPot THEN UNCHANGED ledgerVars
                            ELSE \E pot \in Pots : Charge(s, pot)

\* Nothing left answers 402; so does the bound, every source id used up.
Reserve(p) ==
    /\ call[p].at = "reserve" /\ NoFault
    /\ \/ \E s \in NewSource(p) :
            /\ Consume(s)
            /\ call' = [call EXCEPT ![p].at = "create", ![p].source = s]
            /\ UNCHANGED acked
       \/ /\ NewSource(p) = {} \/ \A pot \in Pots : funds[pot] = 0
          /\ Fail(p)
          /\ UNCHANGED ledgerVars
    /\ UNCHANGED <<providerVars, row, audits, stranded>>

\* Variant: a retry sends no idempotency key.
KeyNotSent(p) == {}

\* The provider answers a repeated idempotency key with the first run.
RunsWithKey(p) == {r \in Runs : Parent(p) # None /\ keyParent[r] = Parent(p)}

\* Bound: a provider out of run ids refuses.
Refused(p) == RunsWithKey(p) = {} /\ \A r \in env.runs : status[r] # "none"

Launch(p, r) ==
    /\ r \in env.runs /\ status[r] = "none"
    /\ status' = [status EXCEPT ![r] = "running"]
    /\ keyParent' = [keyParent EXCEPT ![r] = Parent(p)]
    /\ UNCHANGED events

\* The provider request: answered with the run of its key, or with a new run;
\* refused, or answered without an id after the scan was started.
CreateAtProvider(p) ==
    /\ call[p].at = "create"
    /\ \/ /\ \E r \in Runs :
                /\ \/ r \in RunsWithKey(p) /\ UNCHANGED providerVars
                   \/ RunsWithKey(p) = {} /\ Launch(p, r)
                /\ call' = [call EXCEPT ![p].at = "persist", ![p].created = r]
          /\ NoFault
       \/ /\ \/ Fault /\ UNCHANGED providerVars
             \/ Fault /\ RunsWithKey(p) = {} /\ \E r \in Runs : Launch(p, r)
             \/ NoFault /\ Refused(p) /\ UNCHANGED providerVars
          /\ Goto(p, "giveBack")
    /\ UNCHANGED <<ledgerVars, acked, row, audits, stranded>>

NewRow(p) ==
    LET parent == Parent(p) IN
    [source |-> call[p].source,
     root |-> IF parent = None THEN call[p].created ELSE row[parent].root,
     attempt |-> IF parent = None THEN 1 ELSE row[parent].attempt + 1,
     parent |-> parent,
     refunded |-> FALSE, blocked |-> FALSE, audited |-> FALSE]

\* update: {} -- the row a run already has stays.
Stored(p, old) == IF old = None THEN NewRow(p) ELSE old

\* The upsert, or its third failure.
Persist(p) ==
    /\ call[p].at = "persist"
    /\ \/ /\ row' = [row EXCEPT ![call[p].created] = Stored(p, @)]
          /\ Succeed(p) /\ NoFault
       \/ /\ Fault /\ Goto(p, "giveBack")
          /\ UNCHANGED <<row, acked>>
    /\ UNCHANGED <<ledgerVars, providerVars, audits, stranded>>

\* Variant: a failed refund write is swallowed.
GiveBackSwallowed(s) == UNCHANGED ledgerVars

\* The refund event of a source is unique.
GiveBackOnce(s) == IF s \in refunded THEN UNCHANGED ledgerVars ELSE Refund(s)

\* Variant: an error path that does not refund.
GiveBackForgotten(p) ==
    /\ call[p].at = "giveBack"
    /\ Fail(p)
    /\ UNCHANGED <<ledgerVars, providerVars, row, audits, faultVars>>

\* refundBillingUsageQuietly, its error swallowed; the call then throws.
GiveBack(p) ==
    /\ call[p].at = "giveBack"
    /\ \/ GiveBackOnce(call[p].source) /\ NoFault /\ UNCHANGED stranded
       \/ /\ Fault /\ UNCHANGED ledgerVars
          /\ stranded' = stranded \cup {call[p].source}
    /\ Fail(p)
    /\ UNCHANGED <<providerVars, row, audits>>

-----------------------------------------------------------------------------
(* The provider *)

\* A run ends and the provider reports it; a run that was cancelled may still
\* report a failure.
Report(r, e) ==
    /\ e \in env.ends
    /\ events' = [events EXCEPT ![r] = @ \cup {e}]
    /\ \/ /\ status[r] = "running"
          /\ status' = [status EXCEPT ![r] = e]
       \/ /\ status[r] = "cancelled" /\ e = "failed" /\ e \notin events[r]
          /\ UNCHANGED status
    /\ UNCHANGED <<ledgerVars, keyParent, acked, row, audits, call, faultVars>>

FirstStep(e) == IF e = "completed" THEN "claimAudit" ELSE "refund"

\* Deliveries repeat until one is acknowledged, and sometimes after it.
Deliver(w, r, e) ==
    /\ call[w].at = "idle"
    /\ e \in events[r]
    /\ IF e \in acked[r] THEN Fault ELSE NoFault
    /\ env.early \/ row[r] # None
    /\ env.concurrent \/ \A v \in Workers :
                        ~(call[v].at # "idle" /\ call[v].run = r /\ call[v].event = e)
    /\ call' = [call EXCEPT ![w] = [Idle EXCEPT !.at = FirstStep(e),
                                                !.run = r, !.event = e]]
    /\ UNCHANGED <<ledgerVars, providerVars, acked, row, audits, stranded>>

-----------------------------------------------------------------------------
(* handleWebhook *)

\* The claim's WHERE clause; no row and a claimed row are both skipped.
RefundClaimable(r) == row[r] # None /\ ~row[r].refunded

\* refundOnTerminalFailure: claim and refund in one transaction, or neither
\* and the error goes to the provider.
RefundTx(w) ==
    LET r == call[w].run IN
    /\ call[w].at = "refund"
    /\ \/ /\ NoFault
          /\ IF RefundClaimable(r)
             THEN /\ row' = [row EXCEPT ![r].refunded = TRUE]
                  /\ GiveBackOnce(row[r].source)
             ELSE UNCHANGED <<row, ledgerVars>>
          /\ Goto(w, IF call[w].event = "failed" THEN "checkBlock" ELSE "block")
          /\ UNCHANGED acked
       \/ /\ Fault /\ Fail(w)
          /\ UNCHANGED <<row, ledgerVars>>
    /\ UNCHANGED <<providerVars, audits, stranded>>

\* Variant: only the failed run's own mark is looked at.
BlockedItself(r) == row[r].blocked

\* Any row of the lineage carries the mark.
LineageBlocked(r) == \E q \in Lineage(row[r].root) : row[q].blocked

Exhausted(r) == row[r].attempt >= env.attempts

RetryAllowed(r) == row[r] # None /\ ~Exhausted(r) /\ ~LineageBlocked(r)

\* maybeAutoRetry up to the block check; what it reads of the failed run's own
\* row never changes.
CheckBlock(w) ==
    /\ call[w].at = "checkBlock"
    /\ \/ ~RetryAllowed(call[w].run) /\ Succeed(w)
       \/ /\ RetryAllowed(call[w].run)
          /\ Goto(w, "checkChild") /\ UNCHANGED acked
    /\ UNCHANGED <<ledgerVars, providerVars, row, audits, faultVars>>

Children(r) == {q \in Owned : row[q].parent = r}

\* An existing child ends the handler; otherwise it runs createReport.
CheckChild(w) ==
    /\ call[w].at = "checkChild"
    /\ \/ Children(call[w].run) # {} /\ Succeed(w)
       \/ /\ Children(call[w].run) = {}
          /\ Goto(w, "reserve") /\ UNCHANGED acked
    /\ UNCHANGED <<ledgerVars, providerVars, row, audits, faultVars>>

RootOf(r) == IF row[r] = None THEN r ELSE row[r].root

\* blockAutoRetry marks every row of the lineage, or throws.
BlockLineage(w) ==
    /\ call[w].at = "block"
    /\ \/ /\ row' = [q \in Runs |->
                        IF q \in Lineage(RootOf(call[w].run))
                        THEN [row[q] EXCEPT !.blocked = TRUE] ELSE row[q]]
          /\ Succeed(w) /\ NoFault
       \/ Fault /\ Fail(w) /\ UNCHANGED row
    /\ UNCHANGED <<ledgerVars, providerVars, audits, stranded>>

\* Variant: the claim does not look at completedAuditAt.
AuditUnchecked(r) == row[r] # None

AuditClaimable(r) == row[r] # None /\ ~row[r].audited

\* auditPentestCompleted claims the entry, then writes it.
ClaimAudit(w) ==
    LET r == call[w].run IN
    /\ call[w].at = "claimAudit"
    /\ \/ /\ AuditClaimable(r)
          /\ row' = [row EXCEPT ![r].audited = TRUE]
          /\ Goto(w, "writeAudit") /\ NoFault /\ UNCHANGED acked
       \/ ~AuditClaimable(r) /\ Succeed(w) /\ NoFault /\ UNCHANGED row
       \/ Fault /\ Fail(w) /\ UNCHANGED row
    /\ UNCHANGED <<ledgerVars, providerVars, audits, stranded>>

\* writePentestAuditEntry swallows a failed write.
WriteAudit(w) ==
    /\ call[w].at = "writeAudit"
    /\ \/ audits' = [audits EXCEPT ![call[w].run] = @ + 1] /\ NoFault
       \/ Fault /\ UNCHANGED audits
    /\ Succeed(w)
    /\ UNCHANGED <<ledgerVars, providerVars, row, stranded>>

-----------------------------------------------------------------------------
TopUp(g) ==
    /\ Grant(g)
    /\ UNCHANGED <<providerVars, acked, row, audits, call, faultVars>>

Init ==
    /\ env \in Environments
    /\ LedgerInit
    /\ status = [r \in Runs |-> "none"]
    /\ keyParent = [r \in Runs |-> None]
    /\ events = [r \in Runs |-> {}]
    /\ acked = [r \in Runs |-> {}]
    /\ row = [r \in Runs |-> None]
    /\ audits = [r \in Runs |-> 0]
    /\ call = [p \in Calls |-> Idle]
    /\ faults = 0
    /\ stranded = {}

Create(p) == Reserve(p) \/ CreateAtProvider(p) \/ Persist(p) \/ GiveBack(p)

Handle(w) ==
    \/ RefundTx(w) \/ CheckBlock(w) \/ CheckChild(w) \/ BlockLineage(w)
    \/ ClaimAudit(w) \/ WriteAudit(w)

Next ==
    \/ \E g \in Grants : TopUp(g)
    \/ \E u \in Users : StartCreate(u)
    \/ \E p \in Calls : Create(p) \/ Die(p)
    \/ \E w \in Workers : Handle(w)
    \/ \E r \in Runs, e \in EventTypes : Report(r, e)
    \/ \E w \in Workers, r \in Runs, e \in EventTypes : Deliver(w, r, e)

Spec == Init /\ [][Next]_vars

-----------------------------------------------------------------------------
(* Properties *)

RowType ==
    [source : Sources, root : Runs, attempt : Nat \ {0},
     parent : Runs \cup {None},
     refunded : BOOLEAN, blocked : BOOLEAN, audited : BOOLEAN]

ASSUME RowAssumption == None \notin RowType

CallType ==
    [at : Steps, run : Runs \cup {None}, event : EventTypes \cup {None},
     source : Sources \cup {None}, created : Runs \cup {None}]

TypeOK ==
    /\ LedgerTypeOK
    /\ status \in [Runs -> EventTypes \cup {"none", "running"}]
    /\ keyParent \in [Runs -> Runs \cup {None}]
    /\ events \in [Runs -> SUBSET EventTypes]
    /\ acked \in [Runs -> SUBSET EventTypes]
    /\ row \in [Runs -> RowType \cup {None}]
    /\ audits \in [Runs -> Nat]
    /\ call \in [Calls -> CallType]
    /\ faults \in 0..env.faults
    /\ stranded \subseteq Sources

\* No scan is free: a run the customer can see is backed by a charge of its
\* own, which stays with it while it runs and when it completes, whatever
\* deliveries, retries and restarts produced the row.
NoFreeScan == \A r \in Owned :
    /\ chargedTo[row[r].source] # NoPot
    /\ \A q \in Owned \ {r} : row[q].source # row[r].source
    /\ status[r] \in {"running", "completed"} => row[r].source \notin refunded

\* The row's creditRefundedAt marker and the wallet never disagree.
RefundMarkTrue == \A r \in Owned : row[r].refunded <=> row[r].source \in refunded

\* A lineage is a chain: the attempts under one root are numbered one after
\* the other up to the cap, every retry follows a failure, and no two retries
\* answer the same one.  The highest attempt is the authoritative one.
LineageIsChain == \A r \in Owned :
    LET mine == row[r] IN
    /\ mine.attempt <= env.attempts
    /\ mine.parent = None => mine.root = r /\ mine.attempt = 1
    /\ mine.parent # None => /\ mine.parent \in Owned
                             /\ "failed" \in events[mine.parent]
                             /\ mine.root = row[mine.parent].root
                             /\ mine.attempt = row[mine.parent].attempt + 1
                             /\ Children(mine.parent) = {r}

\* A completed scan is entered in the audit log at most once.
AuditedOnce == \A r \in Runs : audits[r] <= 1

InFlight(s) == \E p \in Calls :
    call[p].at \in {"create", "persist", "giveBack"} /\ call[p].source = s

\* A delivery arrives after the row is stored, and alone.
Orderly == ~env.early /\ ~env.concurrent

\* Every charge is accounted for: given back, held by a call under way, the
\* price of a run the customer sees, or stranded by a fault.  Said of orderly
\* deliveries.
ChargesAccounted == Orderly => \A s \in Sources : chargedTo[s] # NoPot =>
    \/ s \in refunded \cup stranded
    \/ InFlight(s)
    \/ \E r \in Owned : row[r].source = s

\* Calls that go on to retry a run of the lineage.
Retrying(root) == {w \in Workers :
    call[w].at \in Creating \cup {"checkChild"} /\ RootOf(call[w].run) = root}

\* Once a cancellation is acknowledged, a webhook handler that had not passed
\* the check before never retries the lineage, whichever of its runs failed.  Said of orderly
\* deliveries.
CancelIsFinal ==
    [][Orderly => \A r \in Owned : "cancelled" \in acked[r] =>
          Retrying(RootOf(r))' \subseteq Retrying(RootOf(r))]_vars

\* An acknowledged failure or cancellation has been refunded.  Said of orderly
\* deliveries.
AckedIsRefunded == Orderly => \A r \in Owned :
    acked[r] \cap {"failed", "cancelled"} # {} => row[r].refunded
=============================================================================
