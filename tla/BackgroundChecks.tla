--------------------------- MODULE BackgroundChecks ---------------------------
(***************************************************************************)
(* The background check of one member (apps/api/src/background-checks): a  *)
(* request claims the member's row, charges the allowance, creates a check *)
(* at the vendor and stores its id; the vendor's webhooks and a daily      *)
(* poller move the row's status; an administrator cancels, retries,        *)
(* deletes, or attaches a report by hand.  The allowance is the ledger of  *)
(* AllowanceLedger.  Every statement and every vendor request is one step. *)
(* completed_with_flags counts as completed, in_review as in_progress.     *)
(***************************************************************************)
EXTENDS AllowanceLedger

CONSTANTS
    Member,     \* the member's id, the resource the allowance is charged to
    Requesters, \* administrators' requests and retries
    Managers,   \* administrators' cancellations, deletions and uploads
    Workers,    \* requests that deliver a vendor webhook
    Poller,     \* the daily reconciliation
    None,       \* no check, no status
    MaxRows,    \* bound: rows created and retries made, in all
    MaxFaults,  \* bound: deaths and failed requests
    Results,    \* how a check ends at the vendor
    Overlaps    \* may operations overlap?  one or both of TRUE and FALSE

Users == Requesters \cup Managers
Calls == Users \cup Workers \cup {Poller}

\* The vendor answers a repeated idempotency key with the same check, so a
\* check is known by its key: the row's id and the attempt.
Checks == {k \in (1..MaxRows) \X (0..MaxRows) : k[1] + k[2] <= MaxRows}

ASSUME BackgroundCheckAssumption ==
    /\ Member \in Sources
    /\ MaxRows \in Nat /\ MaxFaults \in Nat
    /\ Overlaps \subseteq BOOLEAN /\ Results \subseteq {"completed", "failed"}
    /\ Poller \notin Users \cup Workers /\ Users \cap Workers = {}
    /\ Requesters \cap Managers = {}
    /\ None \notin Checks

VARIABLES
    vendor,     \* the vendor's status of each check
    row,        \* the member's backgroundCheckRequest
    lastRow,    \* the newest row id
    call,       \* where each call is, and what it knows
    faults,     \* faults so far
    stranded,   \* has a fault lost the charge of a request?
    misfiled,   \* has the poller written a check's status beside another check?
    overlap     \* may operations overlap, chosen once

rowVars == <<row, lastRow>>
faultVars == <<faults, stranded>>
env == <<misfiled, overlap>>
vars == <<ledgerVars, vendor, rowVars, call, faultVars, env>>

Open == {"invited", "in_progress"}
Final == {"completed", "failed"}
Statuses == Open \cup Final \cup {"cancelled"}

ASSUME StatusAssumption == None \notin Statuses

\* attached: a report was uploaded and completed it.
NoRow == [id |-> 0, status |-> None, check |-> None, attempt |-> 0, attached |-> FALSE]
NewRow(id) == [NoRow EXCEPT !.id = id, !.status = "invited"]

\* A call knows the row's id and status it read, the check it works on, and
\* the status the vendor gave for it.
Idle == [at |-> "idle", id |-> 0, seen |-> None, check |-> None, found |-> None]

\* Between the charge and the vendor's check.
Paying == {"persist", "create", "giveBack", "giveBackOnly"}
Steps == Paying \cup {"idle", "charge", "markFailed", "store", "cancel",
                      "recreate", "restore", "swap", "upload",
                      "apply", "fetch", "reconcile"}

Fault == faults < MaxFaults /\ faults' = faults + 1
NoFault == UNCHANGED faults

-----------------------------------------------------------------------------
(* Calls *)

Goto(p, step) == call' = [call EXCEPT ![p].at = step]
Leave(p) == call' = [call EXCEPT ![p] = Idle]

MayStart(p) ==
    /\ call[p].at = "idle"
    /\ overlap \/ \A q \in Calls : call[q].at = "idle"

\* A thrown error or a restart of an administrator's request.  A webhook
\* handler or a poller that dies has written nothing, as if it never started.
Die(u) ==
    /\ call[u].at # "idle" /\ Fault
    /\ Leave(u)
    /\ stranded' = (stranded \/ call[u].at \in Paying)
    /\ UNCHANGED <<ledgerVars, vendor, rowVars, env>>

-----------------------------------------------------------------------------
(* requestForMember *)

\* The insert, unique for the member: an existing row, or the one of a request
\* that came first, is answered as it is.
Claim(u) ==
    /\ MayStart(u)
    /\ row = NoRow /\ lastRow < MaxRows
    /\ row' = NewRow(lastRow + 1)
    /\ lastRow' = lastRow + 1
    /\ call' = [call EXCEPT ![u].at = "charge", ![u].check = <<lastRow + 1, 0>>]
    /\ UNCHANGED <<ledgerVars, vendor, faultVars, env>>

\* tryConsumeIncludedUsageForProduct: a member charged before is answered as
\* consumed without a debit.
Consume(s) ==
    IF chargedTo[s] # NoPot THEN UNCHANGED ledgerVars
                            ELSE \E pot \in Pots : Charge(s, pot)

\* Nothing left throws 402, and the row stays.
ChargeMember(u) ==
    /\ call[u].at = "charge"
    /\ \/ Consume(Member) /\ Goto(u, "persist")
       \/ /\ chargedTo[Member] = NoPot /\ \A pot \in Pots : funds[pot] = 0
          /\ Leave(u) /\ UNCHANGED ledgerVars
    /\ UNCHANGED <<vendor, rowVars, faultVars, env>>

\* Variant: a failed write of the payment only throws.
PersistAndThrow(u) ==
    /\ call[u].at = "persist"
    /\ IF row = NoRow THEN Leave(u) ELSE Goto(u, "create")
    /\ UNCHANGED <<ledgerVars, vendor, rowVars, faultVars, env>>

PersistPayment(u) ==
    /\ call[u].at = "persist"
    /\ \/ row # NoRow /\ NoFault /\ Goto(u, "create")
       \/ row = NoRow /\ NoFault /\ Goto(u, "giveBackOnly")
       \/ Fault /\ Goto(u, "giveBackOnly")
    /\ UNCHANGED <<ledgerVars, vendor, rowVars, stranded, env>>

\* The vendor creates the check, or answers with the one it has.
CreateCheck(c) ==
    vendor' = [vendor EXCEPT ![c] = IF @ = "none" THEN "invited" ELSE @]

\* createBackgroundCheck of a request and of a retry; a request that fails may
\* have reached the vendor.
CreateAtVendor(u) ==
    LET first == call[u].at = "create"
        c == call[u].check IN
    /\ call[u].at \in {"create", "recreate"}
    /\ \/ /\ CreateCheck(c) /\ NoFault
          /\ call' = [call EXCEPT ![u].at = IF first THEN "store" ELSE "swap",
                                  ![u].found = vendor'[c]]
       \/ /\ Fault
          /\ CreateCheck(c) \/ UNCHANGED vendor
          /\ Goto(u, IF first THEN "giveBack" ELSE "restore")
    /\ UNCHANGED <<ledgerVars, rowVars, stranded, env>>

GiveBackOnce(s) == IF s \in refunded THEN UNCHANGED ledgerVars ELSE Refund(s)

\* refund, its error logged and swallowed.
GiveBack(u) ==
    /\ call[u].at \in {"giveBack", "giveBackOnly"}
    /\ \/ GiveBackOnce(Member) /\ NoFault /\ UNCHANGED stranded
       \/ Fault /\ stranded' = TRUE /\ UNCHANGED ledgerVars
    /\ IF call[u].at = "giveBack" THEN Goto(u, "markFailed") ELSE Leave(u)
    /\ UNCHANGED <<vendor, rowVars, env>>

-----------------------------------------------------------------------------
(* The last write of an operation: it names the member, not the row it read,  *)
(* and throws when the member has no row.                                     *)

\* The row as the operation leaves it.
Written(u) == CASE
    call[u].at = "store" -> [row EXCEPT !.check = call[u].check, !.status = call[u].found]
 [] call[u].at = "swap" -> [row EXCEPT !.check = call[u].check, !.status = call[u].found,
                                       !.attempt = call[u].check[2]]
 [] call[u].at = "markFailed" -> [row EXCEPT !.status = "failed"]
 [] call[u].at = "restore" -> [row EXCEPT !.status = call[u].seen]
 [] call[u].at = "cancel" -> [row EXCEPT !.status = "cancelled"]

WriteRow(u) ==
    /\ call[u].at \in {"store", "swap", "markFailed", "restore", "cancel"}
    /\ row' = IF row = NoRow THEN NoRow ELSE Written(u)
    /\ Leave(u)
    /\ UNCHANGED <<ledgerVars, vendor, lastRow, faultVars, env>>

-----------------------------------------------------------------------------
(* cancelForMember, retryForMember, deleteForMember, attachForMember *)

StartCancel(u) ==
    /\ MayStart(u)
    /\ row.status \in Open
    /\ Goto(u, "cancel")
    /\ UNCHANGED <<ledgerVars, vendor, rowVars, faultVars, env>>

\* A retry is free: no charge before the new check.
StartRetry(u) ==
    /\ MayStart(u)
    /\ row.status \in {"failed", "cancelled"}
    /\ row.id + row.attempt < MaxRows
    /\ call' = [call EXCEPT ![u] = [Idle EXCEPT
                    !.at = "recreate", !.seen = row.status,
                    !.check = <<row.id, row.attempt + 1>>]]
    /\ UNCHANGED <<ledgerVars, vendor, rowVars, faultVars, env>>

Delete(u) ==
    /\ MayStart(u)
    /\ row # NoRow
    /\ row' = NoRow
    /\ UNCHANGED <<ledgerVars, vendor, lastRow, call, faultVars, env>>

\* The upsert before the upload.
StartAttach(u) ==
    /\ MayStart(u)
    /\ row = NoRow => lastRow < MaxRows
    /\ row' = IF row = NoRow THEN NewRow(lastRow + 1) ELSE row
    /\ lastRow' = IF row = NoRow THEN lastRow + 1 ELSE lastRow
    /\ call' = [call EXCEPT ![u] = [Idle EXCEPT !.at = "upload", !.id = row'.id]]
    /\ UNCHANGED <<ledgerVars, vendor, faultVars, env>>

\* This update names the row; it throws when the row was deleted.
Upload(u) ==
    /\ call[u].at = "upload"
    /\ IF row.id = call[u].id
       THEN row' = [row EXCEPT !.status = "completed", !.attached = TRUE]
       ELSE UNCHANGED row
    /\ Leave(u)
    /\ UNCHANGED <<ledgerVars, vendor, lastRow, faultVars, env>>

-----------------------------------------------------------------------------
(* handleWebhook *)

\* Variant: the row is looked up by the member alone.
AnyRow(c) == row # NoRow

\* The findFirst: the row that has the event's check, or none yet.
Matches(c) == row # NoRow /\ row.check \in {c, None}

\* The statuses the vendor sent events about.
Reported(c) == CASE vendor[c] = "in_progress" -> {"in_progress"}
                 [] vendor[c] \in Final -> {"in_progress", vendor[c]}
                 [] OTHER -> {}

\* An event may come late, in any order and more than once.  Nothing changes
\* when no row matches (404) or the row is read as cancelled (200).
Deliver(w, c, s) ==
    /\ MayStart(w)
    /\ s \in Reported(c)
    /\ Matches(c)
    /\ row.status # "cancelled"
    /\ call' = [call EXCEPT ![w] = [Idle EXCEPT
                    !.at = "apply", !.id = row.id, !.check = c, !.found = s]]
    /\ UNCHANGED <<ledgerVars, vendor, rowVars, faultVars, env>>

\* Variant: the status alone is written.
WithStatus(w) == [row EXCEPT !.status = call[w].found]

WithEvent(w) == [row EXCEPT !.check = call[w].check, !.status = call[w].found]

\* After the report was fetched: the row read is updated, or gone.
Apply(w) ==
    /\ call[w].at = "apply"
    /\ IF row.id = call[w].id
       THEN row' = WithEvent(w) ELSE UNCHANGED row
    /\ Leave(w)
    /\ UNCHANGED <<ledgerVars, vendor, lastRow, faultVars, env>>

-----------------------------------------------------------------------------
(* runReconciliation *)

\* A stale row still in flight (the hour without a sync is any time).
Select(p) ==
    /\ MayStart(p)
    /\ row.status \in Open /\ row.check # None
    /\ call' = [call EXCEPT ![p] = [Idle EXCEPT
                    !.at = "fetch", !.id = row.id, !.seen = row.status, !.check = row.check]]
    /\ UNCHANGED <<ledgerVars, vendor, rowVars, faultVars, env>>

\* A status the row already had leaves it alone.
Fetch(p) ==
    /\ call[p].at = "fetch"
    /\ LET found == vendor[call[p].check] IN
       IF found = call[p].seen
       THEN Leave(p)
       ELSE call' = [call EXCEPT ![p].at = "reconcile", ![p].seen = None, ![p].found = found]
    /\ UNCHANGED <<ledgerVars, vendor, rowVars, faultVars, env>>

\* Variant: the status fetched, not the ones in flight.
StillAsFound(p) == row.id = call[p].id /\ row.status = call[p].found

\* The WHERE clause: the row's id and a status still in flight.
StillOpen(p) == row.id = call[p].id /\ row.status \in Open

Reconcile(p) ==
    /\ call[p].at = "reconcile"
    /\ row' = IF StillOpen(p)
              THEN [row EXCEPT !.status = call[p].found] ELSE row
    /\ misfiled' = (misfiled \/ (row' # row /\ row.check # call[p].check))
    /\ Leave(p)
    /\ UNCHANGED <<ledgerVars, vendor, lastRow, faultVars, overlap>>

-----------------------------------------------------------------------------
(* The vendor, and the organization's other members *)

Advance == [invited |-> {"in_progress"}, in_progress |-> Results]

Progress(c, s) ==
    /\ vendor[c] \in Open /\ s \in Advance[vendor[c]]
    /\ vendor' = [vendor EXCEPT ![c] = s]
    /\ UNCHANGED <<ledgerVars, rowVars, call, faultVars, env>>

\* Grants, and charges for other members.
OtherUse ==
    /\ \/ \E g \in Grants : Grant(g)
       \/ \E s \in Sources \ {Member}, pot \in Pots : Charge(s, pot)
    /\ UNCHANGED <<vendor, rowVars, call, faultVars, env>>

-----------------------------------------------------------------------------
Init ==
    /\ LedgerInit
    /\ vendor = [c \in Checks |-> "none"]
    /\ row = NoRow /\ lastRow = 0
    /\ call = [p \in Calls |-> Idle]
    /\ faults = 0 /\ stranded = FALSE
    /\ misfiled = FALSE
    /\ overlap \in Overlaps

Start(u) ==
    \/ u \in Requesters /\ (Claim(u) \/ StartRetry(u))
    \/ u \in Managers /\ (StartCancel(u) \/ StartAttach(u) \/ Delete(u))

Continue(u) ==
    \/ ChargeMember(u) \/ PersistPayment(u) \/ CreateAtVendor(u)
    \/ GiveBack(u) \/ WriteRow(u) \/ Upload(u)

Poll(p) == Select(p) \/ Fetch(p) \/ Reconcile(p)

Next ==
    \/ \E u \in Users : Start(u) \/ Continue(u) \/ Die(u)
    \/ \E w \in Workers, c \in Checks, s \in Statuses : Deliver(w, c, s)
    \/ \E w \in Workers : Apply(w)
    \/ Poll(Poller)
    \/ \E c \in Checks, s \in Statuses : Progress(c, s)
    \/ OtherUse

\* The schedule runs every day; nothing is assumed of webhooks or users.
Fairness == WF_vars(Poll(Poller))

Spec == Init /\ [][Next]_vars /\ Fairness

-----------------------------------------------------------------------------
(* Properties *)

\* A charge that stands buys something: the vendor has a check for the member or
\* a request is still paying, unless a fault lost the charge.  So whatever request,
\* deletion and failure overlap, requestForMember keeps no charge for nothing.
ChargeBuysCheck ==
    (chargedTo[Member] # NoPot /\ Member \notin refunded /\ ~stranded) =>
        \/ \E c \in Checks : vendor[c] # "none"
        \/ \E u \in Users : call[u].at \in Paying

\* BackgroundCheckV1Page: requesting a check costs "1 credit": when the vendor has
\* answered a request and its check is about to be stored, the member's charge
\* stands.
RequestIsPaid == \A u \in Users :
    call[u].at = "store" => chargedTo[Member] # NoPot /\ Member \notin refunded

\* A completed member has a completed check: the one the row names is completed
\* at the vendor, or a report was attached to the row.  It holds across retries,
\* deletions and late, repeated and reordered webhooks; only a poller that read
\* the row before a retry breaks it, because its update names the row and not
\* the check.
CompletedIsReal ==
    (~misfiled /\ row.status = "completed") =>
        \/ row.check # None /\ vendor[row.check] = "completed"
        \/ row.attached

\* "so a late webhook from the prior check cannot match the row after we swap in
\* the new id": with one operation at a time, a row never goes back to the check
\* of an earlier attempt.
RetryIsFinal == [][
    (/\ ~overlap
     /\ row'.id = row.id /\ row.check # None /\ row'.check # None
     /\ row.check[1] = row.id)
        => row'.check[2] >= row.check[2] ]_vars

Waiting == row.status \in Open /\ row.check # None /\ vendor[row.check] \in Final

\* A check the vendor finished while the row waits for it is noticed, though
\* every webhook about it may be lost: the poller, run daily, settles the row.
FinalStatusArrives ==
    (overlap /\ Waiting) ~> ~Waiting
=============================================================================
