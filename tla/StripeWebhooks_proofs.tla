------------------------ MODULE StripeWebhooks_proofs ------------------------
(***************************************************************************)
(* Deliveries of one webhook event exclude each other, a processed record  *)
(* stays processed, and what Stripe was answered is applied, for any       *)
(* number of events, deliveries, subscription items and faults.            *)
(***************************************************************************)
EXTENDS StripeWebhooks, TLAPS

Statuses == {"none", "processing", "processed", "failed"}
Delivery == [at : Steps, event : Events \cup {Idle.event}, done : 0..Parts]

\* Every variable has its type, and a delivery under way has an event.
TypeInv ==
    /\ patient \in BOOLEAN
    /\ record \in [Events -> Statuses]
    /\ aged \in [Events -> BOOLEAN]
    /\ applied \in [Events -> 0..Parts]
    /\ acked \subseteq Events
    /\ handler \in [Handlers -> Delivery]
    /\ \A h \in Handlers : ~At(h, "idle") => handler[h].event \in Events

\* What a delivery has synced is synced, and it ends with all of it.
ProgressInv == \A h \in Handlers : ~At(h, "idle") =>
    /\ handler[h].done <= applied[handler[h].event]
    /\ At(h, "markProcessed") => handler[h].done = Parts

ProcessedInv == \A e \in Events : record[e] = "processed" => applied[e] = Parts

\* To a patient sender's delivery, alone with its event, the record is either
\* free or final: a claim it finds has aged.
PatientInv == patient =>
    /\ \A e \in Events, g, h \in Handlers : Handles(g, e) /\ Handles(h, e) => g = h
    /\ \A h \in Handlers : handler[h].at \in {"create", "reclaim"} =>
          LET e == handler[h].event IN record[e] = "processing" => aged[e]
    /\ \A h \in Handlers : At(h, "reclaim") => record[handler[h].event] # "none"
    /\ \A e \in acked : applied[e] = Parts

AnswerInv == TypeInv /\ ProgressInv /\ ProcessedInv /\ PatientInv

\* The delivery that works on an event holds its record.
HeldInv == \A e \in Events, h \in Handlers :
    Works(h, e) => record[e] = "processing" /\ ~aged[e]

-----------------------------------------------------------------------------
(* Answers *)

LEMMA InitAnswer == Init => AnswerInv
<1> SUFFICES ASSUME Init PROVE AnswerInv
  OBVIOUS
<1>1. Idle \in Delivery /\ Idle.at = "idle"
  BY WebhookAssumption DEF Idle, Delivery, Steps
<1> HIDE DEF Idle
<1>2. TypeInv
  BY <1>1, WebhookAssumption DEF Init, TypeInv, Statuses, At
<1>3. ProgressInv /\ ProcessedInv /\ PatientInv
  BY <1>1 DEF Init, ProgressInv, ProcessedInv, PatientInv, Handles, At, Working
<1>4. QED
  BY <1>2, <1>3 DEF AnswerInv

\* Where a step leaves the deliveries.
LEMMA GotoIs ==
    ASSUME TypeInv, NEW h \in Handlers, NEW step \in Steps, Goto(h, step)
    PROVE  /\ handler' \in [Handlers -> Delivery]
           /\ handler'[h].at = step
           /\ handler'[h].event = handler[h].event
           /\ handler'[h].done = handler[h].done
           /\ \A g \in Handlers \ {h} : handler'[g] = handler[g]
BY DEF TypeInv, Goto, Delivery

LEMMA LeaveIs ==
    ASSUME TypeInv, NEW h \in Handlers, Leave(h)
    PROVE  /\ handler' \in [Handlers -> Delivery]
           /\ handler'[h].at = "idle"
           /\ \A g \in Handlers \ {h} : handler'[g] = handler[g]
<1>1. Idle \in Delivery /\ Idle.at = "idle"
  BY WebhookAssumption DEF Idle, Delivery, Steps
<1> HIDE DEF Idle
<1>2. QED
  BY <1>1 DEF TypeInv, Leave

LEMMA DeliverIs ==
    ASSUME TypeInv, NEW h \in Handlers, NEW e \in Events, Deliver(h, e)
    PROVE  /\ handler' \in [Handlers -> Delivery]
           /\ handler'[h].at = "create" /\ handler'[h].event = e /\ handler'[h].done = 0
           /\ \A g \in Handlers \ {h} : handler'[g] = handler[g]
           /\ UNCHANGED <<patient, record, aged, applied, acked>>
<1> DEFINE new == [at |-> "create", event |-> e, done |-> 0]
<1>1. handler' = [handler EXCEPT ![h] = new]
  BY DEF Deliver
<1>2. new \in Delivery
  BY WebhookAssumption DEF Delivery, Steps
<1>3. UNCHANGED <<patient, record, aged, applied, acked>>
  BY DEF Deliver
<1>4. QED
  BY <1>1, <1>2, <1>3 DEF TypeInv

LEMMA ClaimIs ==
    ASSUME TypeInv, NEW h \in Handlers, NEW e \in Events, ClaimRecord(h, e)
    PROVE  /\ record' \in [Events -> Statuses] /\ aged' \in [Events -> BOOLEAN]
           /\ record'[e] = "processing" /\ ~aged'[e]
           /\ \A f \in Events \ {e} : record'[f] = record[f] /\ aged'[f] = aged[f]
           /\ handler' \in [Handlers -> Delivery]
           /\ handler'[h].at = "process"
           /\ handler'[h].event = handler[h].event
           /\ handler'[h].done = handler[h].done
           /\ \A g \in Handlers \ {h} : handler'[g] = handler[g]
<1>1. Goto(h, "process") /\ "process" \in Steps
  BY DEF ClaimRecord, Steps, Working
<1>2. /\ record' = [record EXCEPT ![e] = "processing"]
      /\ aged' = [aged EXCEPT ![e] = FALSE]
  BY DEF ClaimRecord, SetRecord
<1>3. QED
  BY <1>1, <1>2, GotoIs DEF TypeInv, Statuses

LEMMA SyncIs ==
    ASSUME TypeInv, NEW h \in Handlers, SyncItem(h)
    PROVE  LET e == handler[h].event IN
           /\ e \in Events /\ handler[h].done < Parts
           /\ applied' \in [Events -> 0..Parts]
           /\ applied[e] <= applied'[e]
           /\ \A f \in Events \ {e} : applied'[f] = applied[f]
           /\ handler' \in [Handlers -> Delivery]
           /\ handler'[h].event = e
           /\ \/ handler'[h].at = "markFailed" /\ handler'[h].done = handler[h].done
              \/ /\ handler'[h].at = "process" /\ handler'[h].done = handler[h].done + 1
                 /\ handler'[h].done <= applied'[e]
           /\ \A g \in Handlers \ {h} : handler'[g] = handler[g]
<1> DEFINE e == handler[h].event
           next == handler[h].done + 1
<1>1. handler[h] \in Delivery /\ e \in Events /\ applied[e] \in 0..Parts
  BY DEF TypeInv, SyncItem, At
<1>2. handler[h].done < Parts /\ next \in 0..Parts
  BY <1>1, WebhookAssumption DEF SyncItem, AllSynced, Delivery
<1>3. CASE /\ handler' = [handler EXCEPT ![h].done = next]
           /\ applied' = [applied EXCEPT ![e] = IF @ < next THEN next ELSE @]
  <2>1. handler[h] = [at |-> "process", event |-> e, done |-> handler[h].done]
    BY <1>1 DEF Delivery, SyncItem, At
  <2>2. handler' = [handler EXCEPT ![h] = [at |-> "process", event |-> e, done |-> next]]
    <3>1. [handler[h] EXCEPT !.done = next] = [at |-> "process", event |-> e, done |-> next]
      BY <2>1
    <3>2. QED
      BY <1>3, <3>1
  <2>3. [at |-> "process", event |-> e, done |-> next] \in Delivery
    BY <1>1, <1>2 DEF Delivery, Steps, Working
  <2>4. applied' = [applied EXCEPT ![e] = IF applied[e] < next THEN next ELSE applied[e]]
    BY <1>3
  <2> HIDE DEF e, next
  <2>5. /\ applied' \in [Events -> 0..Parts]
        /\ applied[e] <= applied'[e] /\ next <= applied'[e]
        /\ \A f \in Events \ {e} : applied'[f] = applied[f]
    BY <1>1, <1>2, <2>4, WebhookAssumption DEF TypeInv
  <2>6. QED
    BY <1>1, <1>2, <2>2, <2>3, <2>5 DEF TypeInv, e, next
<1>4. CASE Goto(h, "markFailed") /\ UNCHANGED applied
  BY <1>1, <1>2, <1>4, GotoIs DEF Steps, Working, TypeInv
<1>5. QED
  BY <1>3, <1>4 DEF SyncItem

LEMMA MarkProcessedIs ==
    ASSUME TypeInv, NEW h \in Handlers, MarkProcessed(h)
    PROVE  LET e == handler[h].event IN
           /\ e \in Events
           /\ UNCHANGED <<patient, applied>>
           /\ \A g \in Handlers \ {h} : handler'[g] = handler[g]
           /\ handler' \in [Handlers -> Delivery]
           /\ \A f \in Events \ {e} : record'[f] = record[f] /\ aged'[f] = aged[f]
           /\ record' \in [Events -> Statuses] /\ aged' \in [Events -> BOOLEAN]
           /\ \/ /\ record'[e] = "processed"
                 /\ acked' = acked \cup {e}
                 /\ handler'[h].at = "idle"
              \/ /\ UNCHANGED <<record, aged, acked>>
                 /\ handler'[h].at = "markFailed"
                 /\ handler'[h].event = e /\ handler'[h].done = handler[h].done
<1> DEFINE e == handler[h].event
<1>1. e \in Events /\ UNCHANGED <<patient, applied>>
  BY DEF MarkProcessed, TypeInv, At
<1>2. \/ /\ record' = [record EXCEPT ![e] = "processed"]
         /\ aged' = [aged EXCEPT ![e] = FALSE]
         /\ acked' = acked \cup {e}
         /\ Leave(h)
      \/ Goto(h, "markFailed") /\ UNCHANGED <<record, aged, acked>>
  BY DEF MarkProcessed, SetRecord
<1>3. CASE /\ record' = [record EXCEPT ![e] = "processed"]
           /\ aged' = [aged EXCEPT ![e] = FALSE]
           /\ acked' = acked \cup {e}
           /\ Leave(h)
  <2>1. /\ handler' \in [Handlers -> Delivery]
        /\ handler'[h].at = "idle"
        /\ \A g \in Handlers \ {h} : handler'[g] = handler[g]
    BY <1>3, LeaveIs
  <2> HIDE DEF e
  <2>2. QED
    BY <1>1, <1>3, <2>1 DEF TypeInv, Statuses, e
<1>4. CASE Goto(h, "markFailed") /\ UNCHANGED <<record, aged, acked>>
  BY <1>1, <1>4, GotoIs DEF TypeInv, Steps, Working
<1>5. QED
  BY <1>2, <1>3, <1>4

LEMMA TypeStep == TypeInv /\ [Next]_vars => TypeInv'
<1> SUFFICES ASSUME TypeInv, [Next]_vars PROVE TypeInv'
  OBVIOUS
<1>1. ASSUME NEW h \in Handlers, NEW e \in Events, Deliver(h, e)
      PROVE  TypeInv'
  BY <1>1, DeliverIs DEF TypeInv, At
<1>2. ASSUME NEW e \in Events, Age(e)
      PROVE  TypeInv'
  BY <1>2 DEF Age, TypeInv, At
<1>3. ASSUME NEW h \in Handlers, Die(h)
      PROVE  TypeInv'
  BY <1>3, LeaveIs DEF Die, TypeInv, At
<1>4. ASSUME NEW h \in Handlers, CreateRecord(h)
      PROVE  TypeInv'
  <2>1. /\ handler[h].event \in Events
        /\ UNCHANGED <<patient, applied, acked>>
        /\ \/ ClaimRecord(h, handler[h].event)
           \/ Goto(h, "reclaim") /\ UNCHANGED <<record, aged>>
    BY <1>4 DEF CreateRecord, TypeInv, At
  <2>2. CASE ClaimRecord(h, handler[h].event)
    BY <2>1, <2>2, ClaimIs DEF TypeInv, At
  <2>3. CASE Goto(h, "reclaim") /\ UNCHANGED <<record, aged>>
    BY <2>1, <2>3, GotoIs DEF TypeInv, At, Steps
  <2>4. QED
    BY <2>1, <2>2, <2>3
<1>5. ASSUME NEW h \in Handlers, ReclaimRecord(h)
      PROVE  TypeInv'
  <2>1. /\ handler[h].event \in Events
        /\ UNCHANGED <<patient, applied>>
        /\ \/ ClaimRecord(h, handler[h].event) /\ UNCHANGED acked
           \/ /\ acked' = acked \cup {handler[h].event}
              /\ Leave(h) /\ UNCHANGED <<record, aged>>
    BY <1>5 DEF ReclaimRecord, TypeInv, At
  <2>2. CASE ClaimRecord(h, handler[h].event) /\ UNCHANGED acked
    BY <2>1, <2>2, ClaimIs DEF TypeInv, At
  <2>3. CASE Leave(h) /\ acked' = acked \cup {handler[h].event} /\ UNCHANGED <<record, aged>>
    BY <2>1, <2>3, LeaveIs DEF TypeInv, At
  <2>4. QED
    BY <2>1, <2>2, <2>3
<1>6. ASSUME NEW h \in Handlers, SyncItem(h)
      PROVE  TypeInv'
  <2>1. UNCHANGED <<patient, record, aged, acked>>
    BY <1>6 DEF SyncItem
  <2>2. QED
    BY <1>6, <2>1, SyncIs DEF TypeInv, At
<1>7. ASSUME NEW h \in Handlers, EndProcess(h)
      PROVE  TypeInv'
  BY <1>7, GotoIs DEF EndProcess, TypeInv, At, Steps, Working
<1>8. ASSUME NEW h \in Handlers, MarkProcessed(h)
      PROVE  TypeInv'
  BY <1>8, MarkProcessedIs DEF TypeInv, At, Statuses
<1>9. ASSUME NEW h \in Handlers, MarkFailed(h)
      PROVE  TypeInv'
  BY <1>9, LeaveIs DEF MarkFailed, SetRecord, TypeInv, At, Statuses
<1>10. CASE UNCHANGED vars
  BY <1>10 DEF vars, TypeInv, At
<1>11. QED
  BY <1>1, <1>2, <1>3, <1>4, <1>5, <1>6, <1>7, <1>8, <1>9, <1>10 DEF Next, Handle

\* The parts of the invariant about progress and answers.
Answers == ProgressInv /\ ProcessedInv /\ PatientInv

LEMMA AnswerStep == AnswerInv /\ [Next]_vars => AnswerInv'
<1> SUFFICES ASSUME AnswerInv, [Next]_vars PROVE Answers'
  BY TypeStep DEF AnswerInv, Answers
<1>a. TypeInv /\ TypeInv' /\ Answers
  BY TypeStep DEF AnswerInv, Answers
<1>b. \A h \in Handlers : /\ handler[h].done \in 0..Parts
                          /\ ~At(h, "idle") => handler[h].event \in Events
  BY <1>a DEF TypeInv, Delivery
<1> USE <1>a, <1>b DEF Answers, ProgressInv, ProcessedInv, PatientInv, At, Handles, Working
<1>1. ASSUME NEW h \in Handlers, NEW e \in Events, Deliver(h, e)
      PROVE  Answers'
  <2>1. patient => /\ \A g \in Handlers : ~Handles(g, e)
                   /\ record[e] = "processing" => aged[e]
    BY <1>1 DEF Deliver
  <2>2. applied[e] >= 0
    BY WebhookAssumption DEF TypeInv
  <2>3. QED
    BY <1>1, <2>1, <2>2, DeliverIs
<1>2. ASSUME NEW e \in Events, Age(e)
      PROVE  Answers'
  BY <1>2 DEF Age, TypeInv
<1>3. ASSUME NEW h \in Handlers, Die(h)
      PROVE  Answers'
  BY <1>3, LeaveIs DEF Die
<1>4. ASSUME NEW h \in Handlers, CreateRecord(h)
      PROVE  Answers'
  <2>1. /\ handler[h].event \in Events /\ handler[h].at = "create"
        /\ UNCHANGED <<patient, applied, acked>>
    BY <1>4 DEF CreateRecord
  <2>2. CASE ClaimRecord(h, handler[h].event) /\ record[handler[h].event] = "none"
    BY <2>1, <2>2, ClaimIs
  <2>3. CASE Goto(h, "reclaim") /\ record[handler[h].event] # "none" /\ UNCHANGED <<record, aged>>
    BY <2>1, <2>3, GotoIs DEF Steps
  <2>4. QED
    BY <1>4, <2>2, <2>3 DEF CreateRecord
<1>5. ASSUME NEW h \in Handlers, ReclaimRecord(h)
      PROVE  Answers'
  <2> DEFINE e == handler[h].event
  <2>1. /\ e \in Events /\ handler[h].at = "reclaim"
        /\ UNCHANGED <<patient, applied>>
    BY <1>5 DEF ReclaimRecord
  <2>2. CASE ClaimRecord(h, e) /\ Reclaimable(e) /\ UNCHANGED acked
    BY <2>1, <2>2, ClaimIs DEF Reclaimable
  <2>3. CASE ~Reclaimable(e) /\ Leave(h) /\ acked' = acked \cup {e} /\ UNCHANGED <<record, aged>>
    <3>1. patient => applied[e] = Parts
      BY <2>1, <2>3 DEF Reclaimable, TypeInv, Statuses
    <3>2. QED
      BY <2>1, <2>3, <3>1, LeaveIs
  <2>4. QED
    BY <1>5, <2>2, <2>3 DEF ReclaimRecord
<1>6. ASSUME NEW h \in Handlers, SyncItem(h)
      PROVE  Answers'
  <2>1. /\ UNCHANGED <<patient, record, aged, acked>>
        /\ handler[h].at = "process"
    BY <1>6 DEF SyncItem
  <2>2. \A f \in Events : applied[f] = Parts => applied'[f] = Parts
    <3>1. applied \in [Events -> 0..Parts] /\ applied' \in [Events -> 0..Parts]
      BY DEF TypeInv
    <3>2. QED
      BY <1>6, <3>1, SyncIs, WebhookAssumption
  <2>3. ProgressInv'
    <3>1. \A f \in Events : applied[f] \in 0..Parts /\ applied'[f] \in 0..Parts
      BY DEF TypeInv
    <3>2. QED
      BY <1>6, <2>1, <3>1, SyncIs, WebhookAssumption
  <2>4. ProcessedInv' /\ PatientInv'
    BY <1>6, <2>1, <2>2, SyncIs DEF TypeInv
  <2>5. QED
    BY <2>3, <2>4
<1>7. ASSUME NEW h \in Handlers, EndProcess(h)
      PROVE  Answers'
  BY <1>7, GotoIs DEF EndProcess, AllSynced, Steps
<1>8. ASSUME NEW h \in Handlers, MarkProcessed(h)
      PROVE  Answers'
  <2>1. handler[h].at = "markProcessed" /\ handler[h].event \in Events
    BY <1>8 DEF MarkProcessed
  <2>2. applied[handler[h].event] = Parts
    <3>1. handler[h].done = Parts /\ handler[h].done <= applied[handler[h].event]
      BY <2>1
    <3>2. applied[handler[h].event] \in 0..Parts
      BY <2>1 DEF TypeInv
    <3>3. QED
      BY <3>1, <3>2, WebhookAssumption
  <2>3. QED
    BY <1>8, <2>1, <2>2, MarkProcessedIs
<1>9. ASSUME NEW h \in Handlers, MarkFailed(h)
      PROVE  Answers'
  BY <1>9, LeaveIs DEF MarkFailed, SetRecord, TypeInv
<1>10. CASE UNCHANGED vars
  BY <1>10 DEF vars
<1>11. QED
  BY <1>1, <1>2, <1>3, <1>4, <1>5, <1>6, <1>7, <1>8, <1>9, <1>10 DEF Next, Handle

\* AnswerInv is inductive: a delivery knows what it has synced, and whether the
\* record is its own.
THEOREM AnswerInvariance == Spec => []AnswerInv
BY InitAnswer, AnswerStep, PTL DEF Spec

\* An event whose record says processed has changed every item, and so has an
\* event a patient sender was answered 200 for, however deliveries die and repeat.
THEOREM AnswersTrue == Spec => []AnsweredIsApplied
<1>1. AnswerInv => AnsweredIsApplied
  BY DEF AnswerInv, ProcessedInv, PatientInv, AnsweredIsApplied
<1>2. QED
  BY <1>1, AnswerInvariance, PTL

-----------------------------------------------------------------------------
(* Exclusion *)

LEMMA InitHeld == Init => HeldInv /\ OneAtATime
<1>1. Idle.at = "idle"
  BY DEF Idle
<1> HIDE DEF Idle
<1>2. QED
  BY <1>1 DEF Init, HeldInv, OneAtATime, Works, Working

\* The claim of a record is young as long as its delivery works, if a delivery
\* ends within fifteen minutes.
LEMMA HeldStep ==
    ASSUME Prompt, TypeInv, HeldInv, OneAtATime, [Next]_vars
    PROVE  HeldInv' /\ OneAtATime'
<1>b. \A h \in Handlers : ~At(h, "idle") => handler[h].event \in Events
  BY DEF TypeInv
<1> USE <1>b DEF HeldInv, OneAtATime, Works, Working, At
<1>1. ASSUME NEW h \in Handlers, NEW e \in Events, Deliver(h, e)
      PROVE  HeldInv' /\ OneAtATime'
  BY <1>1, DeliverIs
<1>2. ASSUME NEW e \in Events, Age(e)
      PROVE  HeldInv' /\ OneAtATime'
  BY <1>2 DEF Age, TypeInv
<1>3. ASSUME NEW h \in Handlers, Die(h)
      PROVE  HeldInv' /\ OneAtATime'
  BY <1>3, LeaveIs DEF Die
<1>4. ASSUME NEW h \in Handlers, CreateRecord(h)
      PROVE  HeldInv' /\ OneAtATime'
  <2>1. handler[h].event \in Events /\ handler[h].at = "create"
    BY <1>4 DEF CreateRecord
  <2>2. CASE ClaimRecord(h, handler[h].event) /\ record[handler[h].event] = "none"
    BY <2>1, <2>2, ClaimIs
  <2>3. CASE Goto(h, "reclaim") /\ UNCHANGED <<record, aged>>
    BY <2>1, <2>3, GotoIs DEF Steps
  <2>4. QED
    BY <1>4, <2>2, <2>3 DEF CreateRecord
<1>5. ASSUME NEW h \in Handlers, ReclaimRecord(h)
      PROVE  HeldInv' /\ OneAtATime'
  <2> DEFINE e == handler[h].event
  <2>1. e \in Events /\ handler[h].at = "reclaim"
    BY <1>5 DEF ReclaimRecord
  <2>2. CASE ClaimRecord(h, e) /\ Reclaimable(e)
    BY <2>1, <2>2, ClaimIs DEF Reclaimable
  <2>3. CASE Leave(h) /\ UNCHANGED <<record, aged>>
    BY <2>3, LeaveIs
  <2>4. QED
    BY <1>5, <2>2, <2>3 DEF ReclaimRecord
<1>6. ASSUME NEW h \in Handlers, SyncItem(h)
      PROVE  HeldInv' /\ OneAtATime'
  <2>1. UNCHANGED <<record, aged>> /\ handler[h].at = "process"
    BY <1>6 DEF SyncItem
  <2>2. QED
    BY <1>6, <2>1, SyncIs
<1>7. ASSUME NEW h \in Handlers, EndProcess(h)
      PROVE  HeldInv' /\ OneAtATime'
  BY <1>7, GotoIs DEF EndProcess, Steps
<1>8. ASSUME NEW h \in Handlers, MarkProcessed(h)
      PROVE  HeldInv' /\ OneAtATime'
  <2>1. handler[h].at = "markProcessed"
    BY <1>8 DEF MarkProcessed
  <2>2. QED
    BY <1>8, <2>1, MarkProcessedIs
<1>9. ASSUME NEW h \in Handlers, MarkFailed(h)
      PROVE  HeldInv' /\ OneAtATime'
  BY <1>9, LeaveIs DEF MarkFailed, SetRecord, TypeInv
<1>10. CASE UNCHANGED vars
  BY <1>10 DEF vars
<1>11. QED
  BY <1>1, <1>2, <1>3, <1>4, <1>5, <1>6, <1>7, <1>8, <1>9, <1>10 DEF Next, Handle

\* Where deliveries end within the fifteen minutes of their claim, one delivery
\* at a time processes an event, though claims of dead ones are taken over.
THEOREM Exclusion == ASSUME Prompt PROVE Spec => []OneAtATime
<1>1. Init => HeldInv /\ OneAtATime
  BY InitHeld
<1>2. TypeInv /\ HeldInv /\ OneAtATime /\ [Next]_vars => HeldInv' /\ OneAtATime'
  BY HeldStep
<1>3. AnswerInv => TypeInv
  BY DEF AnswerInv
<1>4. QED
  BY <1>1, <1>2, <1>3, AnswerInvariance, PTL DEF Spec

\* Only a delivery that works on an event writes its record when it is not free,
\* and then the record says processing: a processed record stays so.
LEMMA ProcessedStep ==
    ASSUME TypeInv, HeldInv, [Next]_vars, NEW e \in Events, record[e] = "processed"
    PROVE  record'[e] = "processed"
<1>b. \A h \in Handlers : ~At(h, "idle") => handler[h].event \in Events
  BY DEF TypeInv
<1>1. ASSUME NEW h \in Handlers, CreateRecord(h)
      PROVE  record'[e] = "processed"
  BY <1>1, <1>b DEF CreateRecord, ClaimRecord, SetRecord, TypeInv, At
<1>2. ASSUME NEW h \in Handlers, ReclaimRecord(h)
      PROVE  record'[e] = "processed"
  BY <1>2, <1>b DEF ReclaimRecord, Reclaimable, ClaimRecord, SetRecord, TypeInv, At
<1>3. ASSUME NEW h \in Handlers, MarkProcessed(h)
      PROVE  record'[e] = "processed"
  BY <1>3, <1>b DEF MarkProcessed, SetRecord, TypeInv, At
<1>4. ASSUME NEW h \in Handlers, MarkFailed(h)
      PROVE  record'[e] = "processed"
  BY <1>4, <1>b DEF MarkFailed, SetRecord, HeldInv, Works, Working, TypeInv, At
<1>5. QED
  BY <1>1, <1>2, <1>3, <1>4
     DEF Next, Handle, vars, Deliver, Age, Die, SyncItem, EndProcess

\* No late, failed or overtaken delivery takes a processed record back.
THEOREM ProcessedForGood == ASSUME Prompt PROVE Spec => ProcessedIsFinal
<1>1. Init => HeldInv /\ OneAtATime
  BY InitHeld
<1>2. TypeInv /\ HeldInv /\ OneAtATime /\ [Next]_vars => HeldInv' /\ OneAtATime'
  BY HeldStep
<1>3. AnswerInv => TypeInv
  BY DEF AnswerInv
<1>4. TypeInv /\ HeldInv /\ [Next]_vars
        => [\A e \in Events : record[e] = "processed" => record'[e] = "processed"]_vars
  BY ProcessedStep
<1>5. QED
  BY <1>1, <1>2, <1>3, <1>4, AnswerInvariance, PTL DEF Spec, ProcessedIsFinal
=============================================================================
