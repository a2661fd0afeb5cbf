--------------------------- MODULE StripeWebhooks ---------------------------
(***************************************************************************)
(* The delivery of Stripe's billing webhooks (apps/api/src/billing:        *)
(* billing-webhook.service.ts, stripe-webhook-records.ts).  A delivery     *)
(* claims the event's record, processes the event, and marks the record;   *)
(* a claim older than fifteen minutes may be taken over.  Every statement  *)
(* is one step, and a delivery can die between any two.  What processing   *)
(* does to a subscription row is the module SubscriptionAllowance; here it *)
(* is the subscription items synced so far.                                *)
(***************************************************************************)
EXTENDS Naturals

CONSTANTS
    Events,     \* stripeEventIds
    Handlers,   \* deliveries under way at the same time
    Parts,      \* subscription items an event syncs, one after the other
    MaxFaults,  \* bound: deaths, failed statements, needless redeliveries
    Patience,   \* may Stripe redeliver before fifteen quiet minutes have passed?
    Prompt      \* does a delivery end within fifteen minutes?

ASSUME WebhookAssumption ==
    /\ Parts \in Nat /\ MaxFaults \in Nat
    /\ Patience \subseteq BOOLEAN /\ Prompt \in BOOLEAN

VARIABLES
    patient,    \* does it wait?  Chosen once, at the start
    record,     \* status of each event's StripeWebhookEvent row
    aged,       \* is its processedAt more than fifteen minutes ago?
    applied,    \* the items of the event synced so far
    acked,      \* events answered 200
    handler,    \* where each delivery is
    faults      \* faults so far

vars == <<patient, record, aged, applied, acked, handler, faults>>

Working == {"process", "markProcessed", "markFailed"}
Steps == {"idle", "create", "reclaim"} \cup Working

\* A delivery knows its event and how many of its items it has synced.
Idle == [at |-> "idle", event |-> CHOOSE e \in Events : TRUE, done |-> 0]

At(h, step) == handler[h].at = step
Handles(h, e) == handler[h].at # "idle" /\ handler[h].event = e
Works(h, e) == handler[h].at \in Working /\ handler[h].event = e

Goto(h, step) == handler' = [handler EXCEPT ![h].at = step]
Leave(h) == handler' = [handler EXCEPT ![h] = Idle]

Fault == faults < MaxFaults /\ faults' = faults + 1
NoFault == UNCHANGED faults

-----------------------------------------------------------------------------
(* Stripe and the clock *)

\* Stripe delivers an event until it is answered 200, and sometimes again.
Deliver(h, e) ==
    /\ At(h, "idle")
    /\ IF e \in acked THEN Fault ELSE NoFault
    /\ patient => /\ \A g \in Handlers : ~Handles(g, e)
                  /\ record[e] = "processing" => aged[e]
    /\ handler' = [handler EXCEPT ![h] = [at |-> "create", event |-> e, done |-> 0]]
    /\ UNCHANGED <<patient, record, aged, applied, acked>>

Age(e) ==
    /\ record[e] = "processing" /\ ~aged[e]
    /\ Prompt => \A h \in Handlers : ~Works(h, e)
    /\ aged' = [aged EXCEPT ![e] = TRUE]
    /\ UNCHANGED <<patient, record, applied, acked, handler, faults>>

\* A restart, or an error the delivery does not handle: no answer, or 500.
Die(h) ==
    /\ ~At(h, "idle") /\ Fault
    /\ Leave(h)
    /\ UNCHANGED <<patient, record, aged, applied, acked>>

-----------------------------------------------------------------------------
(* claimStripeWebhookEvent *)

SetRecord(e, status) == record' = [record EXCEPT ![e] = status]

ClaimRecord(h, e) ==
    /\ SetRecord(e, "processing")
    /\ aged' = [aged EXCEPT ![e] = FALSE]
    /\ Goto(h, "process")

\* Insert the record, or find it there.
CreateRecord(h) ==
    LET e == handler[h].event IN
    /\ At(h, "create")
    /\ \/ record[e] = "none" /\ ClaimRecord(h, e)
       \/ record[e] # "none" /\ Goto(h, "reclaim") /\ UNCHANGED <<record, aged>>
    /\ UNCHANGED <<patient, applied, acked, faults>>

\* Variants: the update looks at the status alone; at nothing.
ReclaimYoung(e) == record[e] \in {"failed", "processing"}
ReclaimAlways(e) == TRUE

\* The update's WHERE clause.
Reclaimable(e) == record[e] = "failed" \/ (record[e] = "processing" /\ aged[e])

\* Take the record over, or answer 200 as a duplicate.
ReclaimRecord(h) ==
    LET e == handler[h].event IN
    /\ At(h, "reclaim")
    /\ \/ Reclaimable(e) /\ ClaimRecord(h, e) /\ UNCHANGED acked
       \/ /\ ~Reclaimable(e)
          /\ acked' = acked \cup {e}
          /\ Leave(h) /\ UNCHANGED <<record, aged>>
    /\ UNCHANGED <<patient, applied, faults>>

-----------------------------------------------------------------------------
(* handleWebhook after the claim *)

\* Variant: the loop stops one item early.
SkipsAhead(h) == handler[h].done + 1 >= Parts

\* Every item is synced, those an earlier delivery synced once more.
AllSynced(h) == handler[h].done = Parts

\* syncSubscriptionItems: the next item, whose sync repeats without harm.
SyncItem(h) ==
    LET next == handler[h].done + 1
        e == handler[h].event IN
    /\ At(h, "process") /\ ~AllSynced(h)
    /\ \/ /\ NoFault
          /\ handler' = [handler EXCEPT ![h].done = next]
          /\ applied' = [applied EXCEPT ![e] = IF @ < next THEN next ELSE @]
       \/ Fault /\ Goto(h, "markFailed") /\ UNCHANGED applied
    /\ UNCHANGED <<patient, record, aged, acked>>

EndProcess(h) ==
    /\ At(h, "process") /\ AllSynced(h)
    /\ Goto(h, "markProcessed")
    /\ UNCHANGED <<patient, record, aged, applied, acked, faults>>

\* The record's processedAt starts anew; the answer is 200.
MarkProcessed(h) ==
    LET e == handler[h].event IN
    /\ At(h, "markProcessed")
    /\ \/ /\ SetRecord(e, "processed") /\ aged' = [aged EXCEPT ![e] = FALSE]
          /\ acked' = acked \cup {e}
          /\ Leave(h) /\ NoFault
       \/ Fault /\ Goto(h, "markFailed") /\ UNCHANGED <<record, aged, acked>>
    /\ UNCHANGED <<patient, applied>>

\* Variant: the error of the processing is not thrown again.
MarkFailedQuietly(h) ==
    /\ At(h, "markFailed")
    /\ SetRecord(handler[h].event, "failed")
    /\ acked' = acked \cup {handler[h].event}
    /\ Leave(h)
    /\ UNCHANGED <<patient, aged, applied, faults>>

\* Whatever the record says by now; the error is thrown again.
MarkFailed(h) ==
    /\ At(h, "markFailed")
    /\ SetRecord(handler[h].event, "failed")
    /\ Leave(h)
    /\ UNCHANGED <<patient, aged, applied, acked, faults>>

-----------------------------------------------------------------------------
Init ==
    /\ patient \in Patience
    /\ record = [e \in Events |-> "none"]
    /\ aged = [e \in Events |-> FALSE]
    /\ applied = [e \in Events |-> 0]
    /\ acked = {}
    /\ handler = [h \in Handlers |-> Idle]
    /\ faults = 0

Handle(h) ==
    \/ CreateRecord(h) \/ ReclaimRecord(h)
    \/ SyncItem(h) \/ EndProcess(h) \/ MarkProcessed(h) \/ MarkFailed(h)

Next ==
    \/ \E h \in Handlers : Handle(h) \/ Die(h)
    \/ \E h \in Handlers, e \in Events : Deliver(h, e)
    \/ \E e \in Events : Age(e)

Redeliver(e) == e \notin acked /\ \E h \in Handlers : Deliver(h, e)

\* Awaits resume, time passes, and Stripe goes on until it is answered 200.
Fairness ==
    /\ \A h \in Handlers : WF_vars(Handle(h))
    /\ \A e \in Events : WF_vars(Age(e)) /\ SF_vars(Redeliver(e))

Spec == Init /\ [][Next]_vars /\ Fairness

-----------------------------------------------------------------------------
(* Properties *)

\* One delivery at a time processes an event, however the deliveries race for
\* the record, die and come back.
OneAtATime == \A e \in Events, g, h \in Handlers :
    Works(g, e) /\ Works(h, e) => g = h

\* A record marked processed stays so: no delivery processes the event again,
\* and none that failed or was overtaken marks it failed.
ProcessedIsFinal ==
    [][\A e \in Events : record[e] = "processed" => record'[e] = "processed"]_vars

\* An event whose record says processed has changed every item it is about,
\* even when the deliveries before it failed half-way; so has an event whose
\* sender was answered 200, if the sender leaves a claim its fifteen minutes.
AnsweredIsApplied == \A e \in Events :
    record[e] = "processed" \/ (patient /\ e \in acked) => applied[e] = Parts

Applied(e) == applied[e] = Parts

\* Sent by a patient sender, every event is processed in the end.
PatientEventsApplied == \A e \in Events : patient ~> Applied(e)
=============================================================================
