-------------------------- MODULE PentestRuns_proofs --------------------------
(***************************************************************************)
(* No scan is free, the refund marker tells what the wallet tells, a       *)
(* lineage is a chain, a completed scan is audited once and a cancellation *)
(* ends the retries, for any number of requests, webhook workers, runs,    *)
(* charges and faults.                                                     *)
(***************************************************************************)
EXTENDS PentestRuns, TLAPS

\* A call that has charged a source and not attached it to a run.
Holds(p) == call[p].at \in {"create", "persist", "giveBack"}

\* A worker that goes on to retry its run.
Retries(p) == call[p].at \in Creating \cup {"checkChild"}

FailedOrCancelled(r) == "failed" \in events[r] \/ "cancelled" \in events[r]

\* The event a handler is at work on fits its step, and has been reported.
EventInv == \A w \in Workers : call[w].at # "idle" =>
    LET e == call[w].event IN
    /\ call[w].run \in Runs /\ e \in events[call[w].run]
    /\ call[w].at = "refund" => e \in {"failed", "cancelled"}
    /\ Retries(w) \/ call[w].at = "checkBlock" => e = "failed"
    /\ call[w].at = "block" => e = "cancelled"
    /\ call[w].at \in {"claimAudit", "writeAudit"} => e = "completed"

\* A customer's call retries nothing; a retry's run has a row and an attempt left.
CallInv ==
    /\ \A u \in Users : call[u].run = None /\ call[u].at \in Creating \cup {"idle"}
    /\ \A w \in Workers : Retries(w) =>
         /\ row[call[w].run] # None /\ row[call[w].run].attempt < env.attempts
    /\ \A p \in Calls : call[p].at = "persist" =>
         /\ call[p].created \in Runs /\ status[call[p].created] # "none"
         /\ keyParent[call[p].created] = call[p].run

\* What a call holds is a charge of its own, neither given back nor a row's.
HeldInv ==
    /\ \A p \in Calls : Holds(p) =>
         /\ call[p].source \in Sources
         /\ chargedTo[call[p].source] # NoPot /\ call[p].source \notin refunded
         /\ \A r \in Owned : row[r].source # call[p].source
    /\ \A p, q \in Calls : Holds(p) /\ Holds(q) /\ p # q => call[p].source # call[q].source

\* The provider reports an end at most once; a run cancelled may also fail.
StatusInv == \A r \in Runs : FailedOrCancelled(r) => status[r] \in {"failed", "cancelled"}

\* An idempotency key has one run.
KeyInv ==
    /\ \A r \in Runs : status[r] = "none" => keyParent[r] = None
    /\ \A r, q \in Runs : keyParent[r] # None /\ keyParent[q] = keyParent[r] => q = r

\* A run with a row was launched for the row's parent; its charge is its own,
\* and is given back with the row's mark, when the run has failed.
RowInv == \A r \in Owned :
    /\ status[r] # "none" /\ row[r].parent = keyParent[r]
    /\ chargedTo[row[r].source] # NoPot
    /\ row[r].refunded <=> row[r].source \in refunded
    /\ row[r].refunded => status[r] \in {"failed", "cancelled"}
    /\ \A q \in Owned \ {r} : row[q].source # row[r].source

\* The attempts of a lineage are numbered along their parents.
AttemptInv == \A r \in Owned :
    /\ row[r].attempt <= env.attempts
    /\ row[r].parent = None => row[r].root = r /\ row[r].attempt = 1
    /\ row[r].parent # None =>
         /\ row[r].parent \in Owned /\ "failed" \in events[row[r].parent]
         /\ row[r].root = row[row[r].parent].root
         /\ row[r].attempt = row[row[r].parent].attempt + 1

\* The audit entry is claimed before it is written, by one worker.
AuditInv ==
    /\ \A r \in Runs : /\ audits[r] <= 1
                       /\ audits[r] > 0 => row[r] # None /\ row[r].audited
    /\ \A w \in Workers : call[w].at = "writeAudit" =>
         /\ row[call[w].run] # None /\ row[call[w].run].audited
         /\ audits[call[w].run] = 0
    /\ \A w, v \in Workers : call[w].at = "writeAudit" /\ call[v].at = "writeAudit" /\ w # v =>
         call[w].run # call[v].run

\* When no event overtakes the row of its run: a handler past the refund has
\* made it, and what is acknowledged has been done.
AckInv == ~env.early =>
    /\ \A w \in Workers : call[w].at # "idle" => row[call[w].run] # None
    /\ \A w \in Workers : Retries(w) \/ call[w].at \in {"checkBlock", "block"} =>
         row[call[w].run].refunded
    /\ \A r \in Runs : "failed" \in acked[r] \/ "cancelled" \in acked[r] =>
         row[r] # None /\ row[r].refunded
    /\ \A r \in Runs : "cancelled" \in acked[r] => row[r] # None /\ row[r].blocked

\* When no event is delivered while it is being handled: a retry that passed the
\* child check stays the only one, so its row is new.
ChildInv ==
    /\ \A u \in Users : call[u].at = "persist" =>
         /\ row[call[u].created] = None
         /\ \A p \in Calls \ {u} : call[p].at = "persist" => call[p].created # call[u].created
    /\ ~env.concurrent =>
         /\ \A w, v \in Workers : call[w].at # "idle" /\ call[v].at # "idle" /\ w # v =>
              call[w].run # call[v].run \/ call[w].event # call[v].event
         /\ \A w \in Workers : call[w].at \in Creating => Children(call[w].run) = {}

EnvInv == env \in Environments

Inv1 == TypeOK /\ EnvInv /\ EventInv /\ CallInv
Inv2 == HeldInv /\ StatusInv /\ KeyInv /\ RowInv /\ AttemptInv
Inv3 == AuditInv /\ AckInv /\ ChildInv /\ ChargesAccounted
PentestInv == Inv1 /\ Inv2 /\ Inv3

Others(p) == \A q \in Calls \ {p} : call'[q] = call[q]

\* A step of p that leaves what it knows as it is.
Same(p) ==
    /\ call'[p].run = call[p].run /\ call'[p].event = call[p].event
    /\ call'[p].source = call[p].source /\ call'[p].created = call[p].created

\* Rows are only marked.
Marked == \A r \in Runs :
    /\ row'[r] = None <=> row[r] = None
    /\ row[r] # None =>
         /\ row'[r].source = row[r].source /\ row'[r].root = row[r].root
         /\ row'[r].attempt = row[r].attempt /\ row'[r].parent = row[r].parent
         /\ row[r].refunded => row'[r].refunded
         /\ row[r].blocked => row'[r].blocked
         /\ row[r].audited => row'[r].audited

-----------------------------------------------------------------------------
(* Where a step leaves its call *)

LEMMA EnvType ==
    ASSUME EnvInv
    PROVE  /\ env.runs \subseteq Runs /\ env.ends \subseteq EventTypes
           /\ env.attempts \in Nat \ {0} /\ env.faults \in Nat
           /\ env.early \in BOOLEAN /\ env.concurrent \in BOOLEAN
BY PentestAssumption DEF EnvInv

LEMMA IdleIs == Idle \in CallType /\ Idle.at = "idle" /\ Idle.run = None
BY DEF Idle, CallType, Steps

LEMMA GotoIs ==
    ASSUME TypeOK, NEW p \in Calls, NEW step \in Steps, Goto(p, step)
    PROVE  call' \in [Calls -> CallType] /\ call'[p].at = step /\ Same(p) /\ Others(p)
BY DEF TypeOK, Goto, CallType, Same, Others

LEMMA LeaveIs ==
    ASSUME TypeOK, NEW p \in Calls, Leave(p)
    PROVE  /\ call' \in [Calls -> CallType] /\ Others(p)
           /\ call'[p].at = "idle" /\ call'[p].run = None
BY IdleIs DEF TypeOK, Leave, Others

LEMMA SourceIs ==
    ASSUME TypeOK, NEW p \in Calls, NEW step \in Steps, NEW s \in Sources,
           call' = [call EXCEPT ![p].at = step, ![p].source = s]
    PROVE  /\ call' \in [Calls -> CallType] /\ Others(p)
           /\ call'[p].at = step /\ call'[p].source = s
           /\ call'[p].run = call[p].run /\ call'[p].event = call[p].event
<1> DEFINE o == call[p]
           n == [o EXCEPT !.at = step, !.source = s]
<1>1. call \in [Calls -> CallType] /\ o \in CallType
  BY DEF TypeOK
<1>2. call' = [call EXCEPT ![p] = n]
  OBVIOUS
<1> HIDE DEF o
<1>3. n \in CallType /\ n.at = step /\ n.source = s /\ n.run = o.run /\ n.event = o.event
  BY <1>1 DEF CallType
<1> HIDE DEF n
<1>4. call'[p] = n
  BY <1>1, <1>2
<1>5. call' \in [Calls -> CallType]
  BY <1>1, <1>2, <1>3
<1>6. Others(p)
  BY <1>1, <1>2 DEF Others
<1>7. QED
  BY <1>3, <1>4, <1>5, <1>6 DEF o

LEMMA CreatedIs ==
    ASSUME TypeOK, NEW p \in Calls, NEW step \in Steps, NEW r \in Runs,
           call' = [call EXCEPT ![p].at = step, ![p].created = r]
    PROVE  /\ call' \in [Calls -> CallType] /\ Others(p)
           /\ call'[p].at = step /\ call'[p].created = r
           /\ call'[p].run = call[p].run /\ call'[p].event = call[p].event
           /\ call'[p].source = call[p].source
BY DEF TypeOK, CallType, Others

LEMMA EventIs ==
    ASSUME TypeOK, NEW p \in Calls, NEW step \in Steps, NEW r \in Runs, NEW e \in EventTypes,
           call' = [call EXCEPT ![p] = [Idle EXCEPT !.at = step, !.run = r, !.event = e]]
    PROVE  /\ call' \in [Calls -> CallType] /\ Others(p)
           /\ call'[p].at = step /\ call'[p].run = r /\ call'[p].event = e
<1> DEFINE d == [Idle EXCEPT !.at = step, !.run = r, !.event = e]
<1>1. d \in CallType /\ d.at = step /\ d.run = r /\ d.event = e
  BY IdleIs DEF CallType
<1> HIDE DEF d
<1>2. call' = [call EXCEPT ![p] = d]
  BY DEF d
<1>3. QED
  BY <1>1, <1>2 DEF TypeOK, Others

\* What a success adds to the acknowledged events.
LEMMA SucceedIs ==
    ASSUME TypeOK, EventInv, NEW p \in Calls, call[p].at # "idle", Succeed(p)
    PROVE  /\ call' \in [Calls -> CallType] /\ Others(p)
           /\ call'[p].at = "idle" /\ call'[p].run = None
           /\ acked' \in [Runs -> SUBSET EventTypes]
           /\ \A r \in Runs, e \in EventTypes : e \in acked'[r] =>
                e \in acked[r] \/ (p \in Workers /\ r = call[p].run /\ e = call[p].event)
<1>1. /\ call' \in [Calls -> CallType] /\ Others(p)
      /\ call'[p].at = "idle" /\ call'[p].run = None
  BY LeaveIs DEF Succeed
<1>2. CASE p \in Workers
  <2>1. call[p].run \in Runs /\ call[p].event \in EventTypes
    BY <1>2 DEF EventInv, TypeOK
  <2>2. acked' = [acked EXCEPT ![call[p].run] = @ \cup {call[p].event}]
    BY <1>2 DEF Succeed
  <2>3. QED
    BY <1>1, <1>2, <2>1, <2>2 DEF TypeOK
<1>3. CASE p \notin Workers
  BY <1>1, <1>3 DEF Succeed, TypeOK
<1>4. QED
  BY <1>2, <1>3

\* Rows are records, None is not.
LEMMA RowsTyped ==
    ASSUME TypeOK
    PROVE  /\ \A r \in Runs : row[r] # None <=> row[r] \in RowType
           /\ \A r \in Owned : r \in Runs /\ row[r] \in RowType
BY RowAssumption DEF TypeOK, Owned

LEMMA FaultType ==
    ASSUME TypeOK, EnvInv, Fault \/ NoFault
    PROVE  faults' \in 0..env'.faults /\ env' = env
BY EnvType DEF TypeOK, Fault, NoFault

-----------------------------------------------------------------------------
(* Moves that change nothing but a call *)

\* A call ends; a charge it held is stranded, an event it acknowledges is done.
LEMMA LeaveMove ==
    ASSUME PentestInv, NEW p \in Calls, Others(p), call' \in [Calls -> CallType],
           call[p].at # "idle", call'[p].at = "idle", call'[p].run = None,
           UNCHANGED <<ledgerVars, providerVars, row, audits, env>>,
           faults' \in 0..env.faults,
           stranded \subseteq stranded', stranded' \subseteq Sources,
           Orderly /\ Holds(p) => call[p].source \in stranded',
           acked' \in [Runs -> SUBSET EventTypes],
           \A r \in Runs, e \in EventTypes : e \in acked'[r] =>
               \/ e \in acked[r]
               \/ /\ p \in Workers /\ r = call[p].run /\ e = call[p].event
                  /\ ~env.early => e = "completed" \/ row[r].refunded
                  /\ e # "cancelled"
    PROVE  PentestInv'
<1> USE DEF PentestInv, Inv1, Inv2, Inv3, ledgerVars, providerVars, Others
<1>1. \A q \in Calls : call'[q].at # "idle" => call'[q] = call[q] /\ q # p
  OBVIOUS
<1>2. Owned' = Owned /\ \A r \in Runs : Children(r)' = Children(r)
  BY DEF Owned, Children
<1>3. TypeOK' /\ EnvInv'
  BY DEF TypeOK, LedgerTypeOK, EnvInv
<1>4. EventInv'
  BY <1>1 DEF EventInv, Retries, Calls
<1>5. CallInv'
  BY <1>1 DEF CallInv, Retries, Calls, Creating
<1>6. HeldInv'
  BY <1>1, <1>2 DEF HeldInv, Holds
<1>7. StatusInv' /\ KeyInv'
  BY DEF StatusInv, KeyInv, FailedOrCancelled
<1>8. RowInv' /\ AttemptInv'
  BY <1>2 DEF RowInv, AttemptInv
<1>9. AuditInv'
  BY <1>1 DEF AuditInv, Calls
<1>10. AckInv'
  <2> SUFFICES ASSUME ~env.early PROVE AckInv'
    BY DEF AckInv
  <2>1. \A w \in Workers : call'[w].at # "idle" =>
          /\ row[call'[w].run] # None
          /\ Retries(w)' \/ call'[w].at \in {"checkBlock", "block"} => row[call'[w].run].refunded
    BY <1>1 DEF AckInv, Retries, Calls
  <2>2. \A w \in Workers : Retries(w)' => call'[w].at # "idle"
    BY DEF Retries, Creating
  <2>3. p \in Workers => row[call[p].run] # None
    BY DEF AckInv
  <2>4. \A r \in Runs : "failed" \in acked'[r] \/ "cancelled" \in acked'[r] =>
          row[r] # None /\ row[r].refunded
    <3>1. \A e \in {"failed", "cancelled"} : e \in EventTypes /\ e # "completed"
      BY DEF EventTypes
    <3>2. ASSUME NEW r \in Runs, NEW e \in {"failed", "cancelled"}, e \in acked'[r]
          PROVE  row[r] # None /\ row[r].refunded
      <4>1. CASE e \in acked[r]
        BY <4>1, <3>2 DEF AckInv
      <4>2. CASE e \notin acked[r]
        BY <2>3, <3>1, <3>2, <4>2
      <4>3. QED
        BY <4>1, <4>2
    <3>3. QED
      BY <3>2
  <2>5. \A r \in Runs : "cancelled" \in acked'[r] => row[r] # None /\ row[r].blocked
    BY DEF AckInv, EventTypes
  <2>6. QED
    BY <2>1, <2>2, <2>4, <2>5 DEF AckInv
<1>11. ChildInv'
  <2>1. \A u \in Users : call'[u].at = "persist" =>
          /\ row[call'[u].created] = None
          /\ \A q \in Calls \ {u} : call'[q].at = "persist" => call'[q].created # call'[u].created
    BY <1>1 DEF ChildInv, Calls
  <2>2. \A w \in Workers : call'[w].at # "idle" => call'[w] = call[w]
    BY <1>1 DEF Calls
  <2>3. ASSUME ~env.concurrent, NEW w \in Workers
        PROVE  /\ \A v \in Workers : call'[w].at # "idle" /\ call'[v].at # "idle" /\ w # v =>
                    call'[w].run # call'[v].run \/ call'[w].event # call'[v].event
               /\ call'[w].at \in Creating => Children(call[w].run)' = {}
    <3>1. \A v \in Workers : call'[w].at # "idle" /\ call'[v].at # "idle" /\ w # v =>
            call'[w].run # call'[v].run \/ call'[w].event # call'[v].event
      BY <2>2, <2>3 DEF ChildInv
    <3>2. ASSUME call'[w].at \in Creating PROVE Children(call[w].run)' = {}
      <4>1. call'[w] = call[w] /\ call[w].run \in Runs
        BY <2>2, <3>2 DEF EventInv, Creating
      <4>2. QED
        BY <1>2, <2>3, <3>2, <4>1 DEF ChildInv
    <3>3. QED
      BY <3>1, <3>2
  <2>4. QED
    BY <2>1, <2>3 DEF ChildInv
<1>12. ChargesAccounted'
  <2> SUFFICES ASSUME Orderly, NEW s \in Sources, chargedTo[s] # NoPot
               PROVE  \/ s \in refunded \cup stranded'
                      \/ \E q \in Calls : Holds(q)' /\ call'[q].source = s
                      \/ \E r \in Owned : row[r].source = s
    BY <1>2 DEF ChargesAccounted, InFlight, Holds, Orderly
  <2>1. CASE InFlight(s)
    BY <2>1 DEF InFlight, Holds
  <2>2. QED
    BY <2>1 DEF ChargesAccounted
<1>13. QED
  BY <1>3, <1>4, <1>5, <1>6, <1>7, <1>8, <1>9, <1>10, <1>11, <1>12

\* A call goes on to a step at which it holds what it held.
LEMMA StepMove ==
    ASSUME PentestInv, NEW p \in Calls, Others(p), Same(p), call' \in [Calls -> CallType],
           UNCHANGED <<ledgerVars, providerVars, row, audits, acked, stranded, env>>,
           faults' \in 0..env.faults,
           call'[p].at \in {"reserve", "giveBack", "checkChild"},
           p \in Users => call'[p].at # "checkChild",
           p \in Workers => call[p].at # "idle" /\ call[p].event = "failed",
           Holds(p)' <=> Holds(p),
           Retries(p) \/ p \in Users \/
             /\ row[call[p].run] # None /\ row[call[p].run].attempt < env.attempts
             /\ ~env.early => row[call[p].run].refunded,
           p \in Workers /\ call'[p].at \in Creating =>
             call[p].at \in Creating \/ Children(call[p].run) = {}
    PROVE  PentestInv'
<1> USE DEF PentestInv, Inv1, Inv2, Inv3, ledgerVars, providerVars, Others, Same
<1>1. \A q \in Calls : call'[q].at \in {"persist", "writeAudit"} => call'[q] = call[q] /\ q # p
  OBVIOUS
<1>2. Owned' = Owned /\ \A r \in Runs : Children(r)' = Children(r)
  BY DEF Owned, Children
<1>3. TypeOK' /\ EnvInv'
  BY DEF TypeOK, LedgerTypeOK, EnvInv
<1>4. \A q \in Calls : /\ Holds(q)' <=> Holds(q)
                       /\ call'[q].source = call[q].source /\ call'[q].run = call[q].run
                       /\ call'[q].event = call[q].event
  BY DEF Holds
<1>5. EventInv'
  <2> SUFFICES ASSUME NEW w \in Workers, call'[w].at # "idle"
               PROVE  LET e == call'[w].event IN
                      /\ call'[w].run \in Runs /\ e \in events[call'[w].run]
                      /\ call'[w].at = "refund" => e \in {"failed", "cancelled"}
                      /\ Retries(w)' \/ call'[w].at = "checkBlock" => e = "failed"
                      /\ call'[w].at = "block" => e = "cancelled"
                      /\ call'[w].at \in {"claimAudit", "writeAudit"} => e = "completed"
    BY DEF EventInv
  <2>1. CASE w = p
    BY <2>1 DEF EventInv, Retries, Creating
  <2>2. CASE w # p
    BY <2>2 DEF EventInv, Retries, Calls
  <2>3. QED
    BY <2>1, <2>2
<1>6. CallInv'
  <2>1. \A u \in Users : call'[u].run = None /\ call'[u].at \in Creating \cup {"idle"}
    BY <1>4 DEF CallInv, Creating, Calls
  <2>2. \A w \in Workers : Retries(w)' =>
         /\ row[call'[w].run] # None /\ row[call'[w].run].attempt < env.attempts
    BY <1>4, PentestAssumption DEF CallInv, Retries, Calls
  <2>3. QED
    BY <1>1, <2>1, <2>2 DEF CallInv
<1>7. HeldInv'
  BY <1>2, <1>4 DEF HeldInv
<1>8. StatusInv' /\ KeyInv'
  BY DEF StatusInv, KeyInv, FailedOrCancelled
<1>9. RowInv' /\ AttemptInv'
  BY <1>2 DEF RowInv, AttemptInv
<1>10. AuditInv'
  BY <1>1 DEF AuditInv, Calls
<1>11. AckInv'
  <2> SUFFICES ASSUME ~env.early PROVE AckInv'
    BY DEF AckInv
  <2>1. \A w \in Workers : call'[w].at # "idle" => row[call'[w].run] # None
    BY <1>4 DEF AckInv, Calls
  <2>2. \A w \in Workers : Retries(w)' \/ call'[w].at \in {"checkBlock", "block"} =>
          row[call'[w].run].refunded
    BY <1>4, PentestAssumption DEF AckInv, Retries, Calls
  <2>3. QED
    BY <2>1, <2>2 DEF AckInv
<1>12. ChildInv'
  <2>1. \A u \in Users : call'[u].at = "persist" =>
          /\ row[call'[u].created] = None
          /\ \A q \in Calls \ {u} : call'[q].at = "persist" => call'[q].created # call'[u].created
    BY <1>1 DEF ChildInv, Calls
  <2>2. \A w \in Workers : call'[w].at # "idle" => call[w].at # "idle" /\ w \in Calls
    BY DEF Calls
  <2>3. ASSUME ~env.concurrent, NEW w \in Workers
        PROVE  /\ \A v \in Workers : call'[w].at # "idle" /\ call'[v].at # "idle" /\ w # v =>
                    call'[w].run # call'[v].run \/ call'[w].event # call'[v].event
               /\ call'[w].at \in Creating => Children(call[w].run)' = {}
    <3>1. \A v \in Workers : call'[w].at # "idle" /\ call'[v].at # "idle" /\ w # v =>
            call'[w].run # call'[v].run \/ call'[w].event # call'[v].event
      BY <1>4, <2>2, <2>3 DEF ChildInv
    <3>2. ASSUME call'[w].at \in Creating PROVE Children(call[w].run)' = {}
      <4>1. w \in Calls /\ call[w].run \in Runs
        BY <2>2, <3>2 DEF EventInv, Creating
      <4>2. call[w].at \in Creating \/ Children(call[w].run) = {}
        BY <3>2, <4>1
      <4>3. QED
        BY <1>2, <2>3, <4>1, <4>2 DEF ChildInv
    <3>3. QED
      BY <3>1, <3>2
  <2>4. \A w \in Workers : call'[w].run = call[w].run
    BY <1>4 DEF Calls
  <2>5. QED
    BY <2>1, <2>3, <2>4 DEF ChildInv
<1>13. ChargesAccounted'
  <2>1. \A s \in Sources : InFlight(s)' <=> InFlight(s)
    BY <1>4 DEF InFlight, Holds
  <2>2. QED
    BY <1>2, <2>1 DEF ChargesAccounted, Orderly
<1>14. QED
  BY <1>3, <1>5, <1>6, <1>7, <1>8, <1>9, <1>10, <1>11, <1>12, <1>13

-----------------------------------------------------------------------------
(* Initial states *)

LEMMA InitPentest == Init => PentestInv
<1> SUFFICES ASSUME Init PROVE PentestInv
  OBVIOUS
<1>1. /\ \A p \in Calls : call[p] = Idle
      /\ Owned = {} /\ Users \subseteq Calls /\ Workers \subseteq Calls
  BY DEF Init, Owned, Calls
<1>2. EnvInv /\ env.faults \in Nat
  BY EnvType DEF Init, EnvInv
<1>3. TypeOK
  BY <1>1, <1>2, IdleIs DEF Init, LedgerInit, TypeOK, LedgerTypeOK
<1>4. \A p \in Calls : call[p].at = "idle" /\ ~Holds(p) /\ ~Retries(p) /\ call[p].run = None
  BY <1>1, IdleIs DEF Holds, Retries, Creating
<1>5. EventInv /\ CallInv /\ HeldInv
  BY <1>1, <1>4 DEF EventInv, CallInv, HeldInv
<1>6. StatusInv /\ KeyInv
  BY DEF Init, StatusInv, KeyInv, FailedOrCancelled
<1>7. RowInv /\ AttemptInv
  BY <1>1 DEF RowInv, AttemptInv
<1>8. AuditInv /\ AckInv
  BY <1>1, <1>4 DEF Init, AuditInv, AckInv
<1>9. ChildInv
  BY <1>1, <1>4 DEF ChildInv, Creating
<1>10. ChargesAccounted
  BY DEF Init, LedgerInit, ChargesAccounted
<1>11. QED
  BY <1>2, <1>3, <1>5, <1>6, <1>7, <1>8, <1>9, <1>10 DEF PentestInv, Inv1, Inv2, Inv3

-----------------------------------------------------------------------------
(* Steps that change nothing but their call *)

LEMMA StartCreateStep == ASSUME PentestInv, NEW u \in Users, StartCreate(u) PROVE PentestInv'
<1>1. /\ TypeOK /\ u \in Calls /\ u \notin Workers /\ call[u].at = "idle"
      /\ UNCHANGED <<ledgerVars, providerVars, acked, row, audits, faultVars>>
  BY PentestAssumption DEF PentestInv, Inv1, Calls, StartCreate
<1>2. /\ call' \in [Calls -> CallType] /\ Same(u) /\ Others(u)
      /\ call'[u].at = "reserve"
  BY <1>1, GotoIs DEF StartCreate, Steps, Creating
<1>3. faults' \in 0..env.faults
  BY <1>1 DEF TypeOK, faultVars
<1>4. Holds(u)' <=> Holds(u)
  BY <1>1, <1>2 DEF Holds
<1>5. QED
  BY <1>1, <1>2, <1>3, <1>4, StepMove DEF faultVars

LEMMA DieStep == ASSUME PentestInv, NEW p \in Calls, Die(p) PROVE PentestInv'
<1>1. /\ TypeOK /\ EnvInv /\ HeldInv /\ call[p].at # "idle" /\ Fault /\ Leave(p)
      /\ UNCHANGED <<ledgerVars, providerVars, acked, row, audits, env>>
      /\ stranded' = IF Holds(p) THEN stranded \cup {call[p].source} ELSE stranded
  BY DEF PentestInv, Inv1, Inv2, Die, Fail, Holds, Fault
<1>2. call' \in [Calls -> CallType] /\ Others(p) /\ call'[p].at = "idle" /\ call'[p].run = None
  BY <1>1, LeaveIs
<1>3. faults' \in 0..env.faults /\ acked' \in [Runs -> SUBSET EventTypes]
  BY <1>1, FaultType DEF TypeOK
<1>4. stranded \subseteq stranded' /\ stranded' \subseteq Sources /\ (Holds(p) => call[p].source \in stranded')
  BY <1>1 DEF TypeOK, HeldInv
<1>5. QED
  BY <1>1, <1>2, <1>3, <1>4, LeaveMove

\* A handler of a failure answers success: its run's charge is back.
LEMMA FailureAnswered ==
    ASSUME PentestInv, NEW w \in Workers, call[w].at \in {"checkBlock", "checkChild"}, Succeed(w),
           UNCHANGED <<ledgerVars, providerVars, row, audits, faultVars>>
    PROVE  PentestInv'
<1>1. TypeOK /\ EventInv /\ AckInv /\ w \in Calls /\ ~Holds(w)
  BY DEF PentestInv, Inv1, Inv3, Calls, Holds
<1>2. /\ call' \in [Calls -> CallType] /\ Others(w)
      /\ call'[w].at = "idle" /\ call'[w].run = None
      /\ acked' \in [Runs -> SUBSET EventTypes]
      /\ \A r \in Runs, e \in EventTypes : e \in acked'[r] =>
           e \in acked[r] \/ (w \in Workers /\ r = call[w].run /\ e = call[w].event)
  BY <1>1, SucceedIs
<1>3. call[w].event = "failed" /\ (~env.early => row[call[w].run].refunded)
  BY <1>1 DEF EventInv, AckInv, Retries
<1>4. faults' \in 0..env.faults /\ stranded' \subseteq Sources
  BY <1>1 DEF TypeOK, faultVars
<1>5. QED
  BY <1>1, <1>2, <1>3, <1>4, LeaveMove DEF faultVars

LEMMA CheckBlockStep == ASSUME PentestInv, NEW w \in Workers, CheckBlock(w) PROVE PentestInv'
<1>1. /\ TypeOK /\ EnvInv /\ EventInv /\ AckInv /\ w \in Calls /\ w \notin Users
      /\ call[w].at = "checkBlock" /\ UNCHANGED <<ledgerVars, providerVars, row, audits, faultVars>>
  BY PentestAssumption DEF PentestInv, Inv1, Inv3, Calls, CheckBlock
<1>2. CASE Succeed(w)
  BY <1>1, <1>2, FailureAnswered
<1>3. CASE RetryAllowed(call[w].run) /\ Goto(w, "checkChild") /\ UNCHANGED acked
  <2>1. /\ call' \in [Calls -> CallType] /\ Same(w) /\ Others(w)
        /\ call'[w].at = "checkChild"
    BY <1>1, <1>3, GotoIs DEF Steps
  <2>2. call[w].event = "failed" /\ call[w].run \in Runs
        /\ (~env.early => row[call[w].run].refunded)
    BY <1>1 DEF EventInv, AckInv
  <2>3. row[call[w].run] # None /\ row[call[w].run].attempt < env.attempts
    <3>1. row[call[w].run] # None /\ ~(row[call[w].run].attempt >= env.attempts)
      BY <1>3 DEF RetryAllowed, Exhausted
    <3>2. row[call[w].run].attempt \in Nat /\ env.attempts \in Nat
      BY <1>1, <2>2, <3>1, RowsTyped, EnvType DEF RowType
    <3>3. QED
      BY <3>1, <3>2
  <2>4. Holds(w)' <=> Holds(w)
    BY <1>1, <2>1 DEF Holds
  <2>5. faults' \in 0..env.faults
    BY <1>1 DEF TypeOK, faultVars
  <2>6. QED
    BY <1>1, <1>3, <2>1, <2>2, <2>3, <2>4, <2>5, StepMove DEF faultVars, Creating
<1>4. QED
  BY <1>2, <1>3 DEF CheckBlock

LEMMA CheckChildStep == ASSUME PentestInv, NEW w \in Workers, CheckChild(w) PROVE PentestInv'
<1>1. /\ TypeOK /\ EventInv /\ w \in Calls /\ w \notin Users
      /\ call[w].at = "checkChild" /\ UNCHANGED <<ledgerVars, providerVars, row, audits, faultVars>>
  BY PentestAssumption DEF PentestInv, Inv1, Calls, CheckChild
<1>2. CASE Succeed(w)
  BY <1>1, <1>2, FailureAnswered
<1>3. CASE Children(call[w].run) = {} /\ Goto(w, "reserve") /\ UNCHANGED acked
  <2>1. /\ call' \in [Calls -> CallType] /\ Same(w) /\ Others(w)
        /\ call'[w].at = "reserve"
    BY <1>1, <1>3, GotoIs DEF Steps, Creating
  <2>2. call[w].event = "failed" /\ Retries(w)
    BY <1>1 DEF EventInv, Retries
  <2>3. Holds(w)' <=> Holds(w)
    BY <1>1, <2>1 DEF Holds
  <2>4. faults' \in 0..env.faults
    BY <1>1 DEF TypeOK, faultVars
  <2>5. QED
    BY <1>1, <1>3, <2>1, <2>2, <2>3, <2>4, StepMove DEF faultVars
<1>4. QED
  BY <1>2, <1>3 DEF CheckChild

\* What a call holds is not given back by the call that goes to give it back.
LEMMA ToGiveBack ==
    ASSUME PentestInv, NEW p \in Calls, call[p].at \in {"create", "persist"},
           Goto(p, "giveBack"), Fault \/ NoFault,
           UNCHANGED <<ledgerVars, providerVars, row, audits, acked, stranded>>
    PROVE  PentestInv'
<1>1. TypeOK /\ EnvInv /\ EventInv /\ CallInv
  BY DEF PentestInv, Inv1
<1>2. /\ call' \in [Calls -> CallType] /\ Same(p) /\ Others(p)
      /\ call'[p].at = "giveBack"
  BY <1>1, GotoIs DEF Steps, Creating
<1>3. (Holds(p)' <=> Holds(p)) /\ Retries(p) /\ call[p].at \in Creating
  BY <1>2 DEF Holds, Retries, Creating
<1>4. p \in Workers => call[p].at # "idle" /\ call[p].event = "failed"
  BY <1>3 DEF EventInv, PentestInv, Inv1
<1>5. faults' \in 0..env.faults /\ env' = env
  BY <1>1, FaultType
<1>6. QED
  BY <1>2, <1>3, <1>4, <1>5, StepMove

LEMMA DeliverStep ==
    ASSUME PentestInv, NEW w \in Workers, NEW r \in Runs, NEW e \in EventTypes, Deliver(w, r, e)
    PROVE  PentestInv'
<1>a. /\ TypeOK /\ EnvInv /\ EventInv /\ CallInv /\ HeldInv /\ StatusInv /\ KeyInv /\ RowInv
      /\ AttemptInv /\ AuditInv /\ AckInv /\ ChildInv /\ ChargesAccounted
      /\ w \in Calls /\ w \notin Users
  BY PentestAssumption DEF PentestInv, Inv1, Inv2, Inv3, Calls
<1>b. /\ call[w].at = "idle" /\ e \in events[r]
      /\ env.early \/ row[r] # None
      /\ env.concurrent \/ \A v \in Workers :
                        ~(call[v].at # "idle" /\ call[v].run = r /\ call[v].event = e)
      /\ UNCHANGED <<ledgerVars, providerVars, acked, row, audits, stranded>>
      /\ Fault \/ NoFault
      /\ call' = [call EXCEPT ![w] = [Idle EXCEPT !.at = FirstStep(e), !.run = r, !.event = e]]
  BY DEF Deliver
<1>c. FirstStep(e) \in Steps /\ FirstStep(e) = IF e = "completed" THEN "claimAudit" ELSE "refund"
  BY DEF FirstStep, Steps
<1>d. /\ call' \in [Calls -> CallType] /\ Others(w)
      /\ call'[w].at = IF e = "completed" THEN "claimAudit" ELSE "refund"
      /\ call'[w].run = r /\ call'[w].event = e
  BY <1>a, <1>b, <1>c, EventIs
<1>e. /\ \A q \in Calls \ {w} : call'[q] = call[q]
      /\ faults' \in 0..env.faults /\ env' = env
      /\ Users \subseteq Calls /\ Workers \subseteq Calls
  BY <1>a, <1>b, <1>d, FaultType DEF Others, Calls
<1>f. /\ \A q \in Calls : Holds(q)' => Holds(q) /\ q # w
      /\ \A q \in Calls : Holds(q) => Holds(q)' /\ q # w
      /\ \A q \in Calls : Retries(q)' => Retries(q) /\ q # w
      /\ \A q \in Calls : call'[q].at \in Creating => q # w
  BY <1>b, <1>d, <1>e DEF Holds, Retries, Creating
<1>g. Owned' = Owned /\ \A q \in Runs : Children(q)' = Children(q)
  BY <1>b DEF Owned, Children
<1> USE <1>b, <1>d, <1>e, <1>f, <1>g DEF ledgerVars, providerVars
<1>1. TypeOK' /\ EnvInv'
  BY <1>a DEF TypeOK, LedgerTypeOK, EnvInv
<1>2. EventInv'
  BY <1>a DEF EventInv, EventTypes
<1>3. CallInv'
  BY <1>a DEF CallInv
<1>4. HeldInv'
  BY <1>a DEF HeldInv
<1>5. StatusInv' /\ KeyInv'
  BY <1>a DEF StatusInv, KeyInv, FailedOrCancelled
<1>6. RowInv' /\ AttemptInv'
  BY <1>a DEF RowInv, AttemptInv
<1>7. AuditInv'
  BY <1>a DEF AuditInv
<1>8. AckInv'
  BY <1>a DEF AckInv
<1>9. ChildInv'
  <2>1. \A u \in Users : call'[u].at = "persist" =>
          /\ row[call'[u].created] = None
          /\ \A q \in Calls \ {u} : call'[q].at = "persist" => call'[q].created # call'[u].created
    BY <1>a DEF ChildInv
  <2>2. ASSUME ~env.concurrent, NEW v \in Workers, NEW x \in Workers,
               call'[x].at # "idle", call'[v].at # "idle", x # v
        PROVE  call'[x].run # call'[v].run \/ call'[x].event # call'[v].event
    BY <1>a, <2>2 DEF ChildInv
  <2>3. ASSUME ~env.concurrent, NEW v \in Workers, call'[v].at \in Creating
        PROVE  Children(call[v].run)' = {} /\ call'[v].run = call[v].run
    <3>1. v # w /\ call[v].run \in Runs
      BY <1>a, <2>3 DEF EventInv, Creating
    <3>2. QED
      BY <1>a, <2>3, <3>1 DEF ChildInv
  <2>4. QED
    BY <2>1, <2>2, <2>3 DEF ChildInv
<1>10. ChargesAccounted'
  <2>1. \A s \in Sources : InFlight(s) => InFlight(s)'
    BY DEF InFlight, Holds
  <2>2. QED
    BY <1>a, <2>1 DEF ChargesAccounted, Orderly
<1>11. QED
  BY <1>1, <1>2, <1>3, <1>4, <1>5, <1>6, <1>7, <1>8, <1>9, <1>10 DEF PentestInv, Inv1, Inv2, Inv3

-----------------------------------------------------------------------------
(* The allowance *)

LEMMA ChargeIs ==
    ASSUME LedgerTypeOK, NEW s \in Sources, NEW pot \in Pots, Charge(s, pot)
    PROVE  /\ LedgerTypeOK' /\ chargedTo[s] = NoPot /\ chargedTo'[s] # NoPot
           /\ \A o \in Sources \ {s} : chargedTo'[o] = chargedTo[o]
           /\ refunded' = refunded
BY LedgerAssumption DEF LedgerTypeOK, Charge

LEMMA RefundIs ==
    ASSUME LedgerTypeOK, NEW s \in Sources, Refund(s)
    PROVE  LedgerTypeOK' /\ chargedTo' = chargedTo /\ refunded' = refunded \cup {s}
<1>1. chargedTo[s] \in Pots /\ chargedTo[s] # NoPot
  BY DEF LedgerTypeOK, Refund
<1>2. funds' \in [Pots -> Nat]
  BY <1>1 DEF LedgerTypeOK, Refund
<1>3. QED
  BY <1>1, <1>2 DEF LedgerTypeOK, Refund

LEMMA TopUpStep == ASSUME PentestInv, NEW g \in Grants, TopUp(g) PROVE PentestInv'
<1> USE DEF PentestInv, Inv1, Inv2, Inv3, TopUp, Grant, providerVars, faultVars
<1>1. Owned' = Owned /\ \A q \in Runs : Children(q)' = Children(q)
  BY DEF Owned, Children
<1>2. TypeOK'
  <2>1. GrantPot[g] \in Pots /\ GrantSize[g] \in Nat
    BY LedgerAssumption
  <2>2. LedgerTypeOK'
    BY <2>1 DEF TypeOK, LedgerTypeOK
  <2>3. QED
    BY <2>2 DEF TypeOK
<1>3. EnvInv' /\ EventInv' /\ CallInv'
  BY DEF EnvInv, EventInv, CallInv, Retries
<1>4. HeldInv' /\ StatusInv' /\ KeyInv'
  BY <1>1 DEF HeldInv, StatusInv, KeyInv, FailedOrCancelled, Holds
<1>5. RowInv' /\ AttemptInv'
  BY <1>1 DEF RowInv, AttemptInv
<1>6. AuditInv' /\ AckInv'
  BY DEF AuditInv, AckInv, Retries
<1>7. ChildInv' /\ ChargesAccounted'
  <2>1. ChildInv'
    BY DEF ChildInv, Children, Owned
  <2>2. ChargesAccounted'
    BY <1>1 DEF ChargesAccounted, Orderly, InFlight
  <2>3. QED
    BY <2>1, <2>2
<1>8. QED
  BY <1>2, <1>3, <1>4, <1>5, <1>6, <1>7

LEMMA ReserveStep == ASSUME PentestInv, NEW p \in Calls, Reserve(p) PROVE PentestInv'
<1>a. /\ TypeOK /\ EnvInv /\ EventInv /\ CallInv /\ HeldInv /\ StatusInv /\ KeyInv /\ RowInv
      /\ AttemptInv /\ AuditInv /\ AckInv /\ ChildInv /\ ChargesAccounted
      /\ call[p].at = "reserve" /\ NoFault
      /\ UNCHANGED <<providerVars, row, audits, stranded>>
  BY DEF PentestInv, Inv1, Inv2, Inv3, Reserve
<1>1. CASE Fail(p) /\ UNCHANGED ledgerVars
  <2>1. /\ call' \in [Calls -> CallType] /\ Others(p)
        /\ call'[p].at = "idle" /\ call'[p].run = None /\ UNCHANGED acked
    BY <1>a, <1>1, LeaveIs DEF Fail
  <2>2. /\ ~Holds(p) /\ stranded' \subseteq Sources /\ faults' \in 0..env.faults
        /\ acked' \in [Runs -> SUBSET EventTypes] /\ env' = env
    BY <1>a, <2>1 DEF Holds, TypeOK, NoFault
  <2>3. QED
    BY <1>a, <1>1, <2>1, <2>2, LeaveMove
<1>2. ASSUME NEW s \in NewSource(p), Consume(s), UNCHANGED acked,
             call' = [call EXCEPT ![p].at = "create", ![p].source = s]
      PROVE  PentestInv'
  <2>1. s \in Sources /\ chargedTo[s] = NoPot
    BY DEF NewSource
  <2>2. PICK pot \in Pots : Charge(s, pot)
    BY <1>2, <2>1 DEF Consume
  <2>3. /\ LedgerTypeOK' /\ chargedTo'[s] # NoPot
        /\ \A o \in Sources \ {s} : chargedTo'[o] = chargedTo[o]
        /\ refunded' = refunded /\ s \notin refunded
    BY <1>a, <2>1, <2>2, ChargeIs DEF TypeOK, LedgerTypeOK
  <2>4. /\ call' \in [Calls -> CallType] /\ Others(p)
        /\ call'[p].at = "create" /\ call'[p].source = s
        /\ call'[p].run = call[p].run /\ call'[p].event = call[p].event
    BY <1>a, <1>2, <2>1, SourceIs DEF Steps, Creating
  <2>5. Owned' = Owned /\ \A q \in Runs : Children(q)' = Children(q)
    BY <1>a DEF Owned, Children
  <2>6. /\ \A q \in Calls \ {p} : call'[q] = call[q]
        /\ \A q \in Calls : call'[q].run = call[q].run /\ call'[q].event = call[q].event
        /\ \A q \in Calls : call'[q].at \in {"create"} \/ call'[q] = call[q]
        /\ \A q \in Calls : Retries(q)' <=> Retries(q)
        /\ \A q \in Calls : call'[q].at \in Creating <=> call[q].at \in Creating
        /\ \A q \in Calls : Holds(q)' => Holds(q) \/ q = p
        /\ \A q \in Calls : Holds(q) => Holds(q)' /\ q # p
        /\ Users \subseteq Calls /\ Workers \subseteq Calls
        /\ faults' = faults /\ env' = env
    BY <1>a, <2>4 DEF Others, Retries, Holds, Creating, Calls, NoFault
  <2>7. \A r \in Owned : row[r].source \in Sources /\ row[r].source # s
    BY <1>a, <2>1, RowsTyped DEF RowInv, RowType
  <2>8. \A q \in Calls : Holds(q) => call[q].source \in Sources /\ call[q].source # s
    BY <1>a, <2>1 DEF HeldInv
  <2> USE <1>a, <1>2, <2>3, <2>4, <2>5, <2>6 DEF providerVars
  <2>9. TypeOK' /\ EnvInv'
    BY DEF TypeOK, EnvInv
  <2>10. EventInv'
    BY DEF EventInv
  <2>11. CallInv'
    BY DEF CallInv
  <2>12. HeldInv'
    BY <2>1, <2>7, <2>8 DEF HeldInv
  <2>13. StatusInv' /\ KeyInv'
    BY DEF StatusInv, KeyInv, FailedOrCancelled
  <2>14. RowInv'
    BY <2>7 DEF RowInv
  <2>15. AttemptInv'
    BY DEF AttemptInv
  <2>16. AuditInv'
    BY DEF AuditInv
  <2>17. AckInv'
    BY DEF AckInv
  <2>18. ChildInv'
    <3>1. \A u \in Users : call'[u].at = "persist" =>
            /\ row[call'[u].created] = None
            /\ \A q \in Calls \ {u} : call'[q].at = "persist" => call'[q].created # call'[u].created
      BY DEF ChildInv
    <3>2. ASSUME ~env.concurrent, NEW v \in Workers, NEW x \in Workers,
                 call'[x].at # "idle", call'[v].at # "idle", x # v
          PROVE  call'[x].run # call'[v].run \/ call'[x].event # call'[v].event
      BY <3>2 DEF ChildInv
    <3>3. ASSUME ~env.concurrent, NEW v \in Workers, call'[v].at \in Creating
          PROVE  Children(call[v].run)' = {}
      <4>1. call[v].run \in Runs /\ call[v].at \in Creating
        BY <3>3 DEF EventInv, Creating
      <4>2. QED
        BY <3>3, <4>1 DEF ChildInv
    <3>4. QED
      BY <3>1, <3>2, <3>3 DEF ChildInv
  <2>19. ChargesAccounted'
    <3>1. \A o \in Sources : InFlight(o) => InFlight(o)'
      BY DEF InFlight, Holds
    <3>2. InFlight(s)'
      BY DEF InFlight
    <3>3. QED
      BY <3>1, <3>2 DEF ChargesAccounted, Orderly
  <2>20. QED
    BY <2>9, <2>10, <2>11, <2>12, <2>13, <2>14, <2>15, <2>16, <2>17, <2>18, <2>19
    DEF PentestInv, Inv1, Inv2, Inv3
<1>3. QED
  BY <1>1, <1>2 DEF Reserve

LEMMA GiveBackStep == ASSUME PentestInv, NEW p \in Calls, GiveBack(p) PROVE PentestInv'
<1>a. /\ TypeOK /\ EnvInv /\ EventInv /\ CallInv /\ HeldInv /\ StatusInv /\ KeyInv /\ RowInv
      /\ AttemptInv /\ AuditInv /\ AckInv /\ ChildInv /\ ChargesAccounted
      /\ call[p].at = "giveBack" /\ Leave(p)
      /\ UNCHANGED <<providerVars, acked, row, audits>>
  BY DEF PentestInv, Inv1, Inv2, Inv3, GiveBack, Fail
<1> DEFINE s == call[p].source
<1>b. s \in Sources /\ chargedTo[s] # NoPot /\ s \notin refunded /\ Holds(p)
  BY <1>a DEF HeldInv, Holds
<1>c. /\ call' \in [Calls -> CallType] /\ Others(p)
      /\ call'[p].at = "idle" /\ call'[p].run = None
  BY <1>a, LeaveIs
<1>1. CASE Fault /\ UNCHANGED ledgerVars /\ stranded' = stranded \cup {s}
  <2>1. /\ stranded \subseteq stranded' /\ stranded' \subseteq Sources /\ s \in stranded'
        /\ acked' \in [Runs -> SUBSET EventTypes]
        /\ faults' \in 0..env.faults /\ env' = env
    BY <1>1, <1>a, <1>b, FaultType DEF TypeOK
  <2>2. QED
    BY <1>1, <1>a, <1>c, <2>1, LeaveMove
<1>2. CASE GiveBackOnce(s) /\ NoFault /\ UNCHANGED stranded
  <2>1. LedgerTypeOK' /\ chargedTo' = chargedTo /\ refunded' = refunded \cup {s}
    BY <1>2, <1>a, <1>b, RefundIs DEF GiveBackOnce, TypeOK
  <2>2. Owned' = Owned /\ \A q \in Runs : Children(q)' = Children(q)
    BY <1>a DEF Owned, Children
  <2>3. /\ \A q \in Calls \ {p} : call'[q] = call[q]
        /\ \A q \in Calls : call'[q].at # "idle" => call'[q] = call[q] /\ q # p
        /\ \A q \in Calls : Retries(q)' => Retries(q) /\ q # p
        /\ \A q \in Calls : Holds(q)' => Holds(q) /\ q # p
        /\ \A q \in Calls : Holds(q) => Holds(q)' \/ q = p
        /\ Users \subseteq Calls /\ Workers \subseteq Calls
        /\ faults' = faults /\ env' = env
    BY <1>c, <1>2 DEF Others, Retries, Holds, Creating, Calls, NoFault
  <2>4. \A r \in Owned : row[r].source # s
    BY <1>a, <1>b DEF HeldInv
  <2> HIDE DEF s
  <2> USE <1>a, <1>b, <1>c, <2>1, <2>2, <2>3 DEF providerVars
  <2>5. TypeOK' /\ EnvInv'
    BY <1>2 DEF TypeOK, EnvInv
  <2>6. EventInv'
    BY DEF EventInv
  <2>7. CallInv'
    BY DEF CallInv, Creating
  <2>8. HeldInv'
    BY DEF HeldInv, s
  <2>9. StatusInv' /\ KeyInv'
    BY DEF StatusInv, KeyInv, FailedOrCancelled
  <2>10. RowInv'
    BY <2>4 DEF RowInv
  <2>11. AttemptInv'
    BY DEF AttemptInv
  <2>12. AuditInv'
    BY DEF AuditInv
  <2>13. AckInv'
    BY DEF AckInv
  <2>14. ChildInv'
    <3>1. \A u \in Users : call'[u].at = "persist" =>
            /\ row[call'[u].created] = None
            /\ \A q \in Calls \ {u} : call'[q].at = "persist" => call'[q].created # call'[u].created
      BY DEF ChildInv
    <3>2. ASSUME ~env.concurrent, NEW v \in Workers, NEW x \in Workers,
                 call'[x].at # "idle", call'[v].at # "idle", x # v
          PROVE  call'[x].run # call'[v].run \/ call'[x].event # call'[v].event
      BY <3>2 DEF ChildInv
    <3>3. ASSUME ~env.concurrent, NEW v \in Workers, call'[v].at \in Creating
          PROVE  Children(call[v].run)' = {} /\ call'[v].run = call[v].run
      <4>1. call'[v] = call[v] /\ call[v].run \in Runs
        BY <3>3 DEF EventInv, Creating
      <4>2. QED
        BY <3>3, <4>1 DEF ChildInv
    <3>4. QED
      BY <3>1, <3>2, <3>3 DEF ChildInv
  <2>15. ChargesAccounted'
    <3>1. \A o \in Sources \ {s} : InFlight(o) => InFlight(o)'
      BY DEF InFlight, Holds, s
    <3>2. QED
      BY <1>2, <3>1 DEF ChargesAccounted, Orderly
  <2>16. QED
    BY <2>5, <2>6, <2>7, <2>8, <2>9, <2>10, <2>11, <2>12, <2>13, <2>14, <2>15
    DEF PentestInv, Inv1, Inv2, Inv3
<1>3. QED
  BY <1>1, <1>2 DEF GiveBack, Fault, NoFault, GiveBackOnce, Fail

-----------------------------------------------------------------------------
(* The provider request and the row *)

\* A launch only adds a run nobody knows yet, under a key no other run has.
LEMMA LaunchIs ==
    ASSUME TypeOK, StatusInv, KeyInv, RowInv, NEW p \in Calls, NEW r \in Runs,
           RunsWithKey(p) = {}, Launch(p, r)
    PROVE  /\ status' \in [Runs -> EventTypes \cup {"none", "running"}]
           /\ keyParent' \in [Runs -> Runs \cup {None}] /\ events' = events
           /\ StatusInv' /\ KeyInv'
           /\ status[r] = "none" /\ r \notin Owned
           /\ status'[r] = "running" /\ keyParent'[r] = call[p].run
           /\ \A q \in Runs \ {r} : status'[q] = status[q] /\ keyParent'[q] = keyParent[q]
           /\ \A q \in Owned : status'[q] = status[q] /\ keyParent'[q] = keyParent[q]
<1>1. call[p].run \in Runs \cup {None}
  BY DEF TypeOK, CallType
<1>2. /\ status' \in [Runs -> EventTypes \cup {"none", "running"}]
      /\ keyParent' \in [Runs -> Runs \cup {None}] /\ events' = events
      /\ status[r] = "none" /\ status'[r] = "running" /\ keyParent'[r] = call[p].run
      /\ \A q \in Runs \ {r} : status'[q] = status[q] /\ keyParent'[q] = keyParent[q]
  BY <1>1 DEF TypeOK, Launch, Parent
<1>3. r \notin Owned
  BY <1>2 DEF RowInv
<1>4. StatusInv'
  BY <1>2 DEF StatusInv, FailedOrCancelled
<1>5. KeyInv'
  <2>1. \A q \in Runs : call[p].run # None => keyParent[q] # call[p].run
    BY DEF RunsWithKey, Parent
  <2>2. \A q \in Runs : status'[q] = "none" => keyParent'[q] = None
    BY <1>2 DEF KeyInv
  <2>3. ASSUME NEW q \in Runs, NEW o \in Runs, keyParent'[q] # None, keyParent'[o] = keyParent'[q]
        PROVE  o = q
    BY <1>2, <2>1, <2>3 DEF KeyInv
  <2>4. QED
    BY <2>2, <2>3 DEF KeyInv
<1>6. Owned \subseteq Runs
  BY DEF Owned
<1>7. QED
  BY <1>2, <1>3, <1>4, <1>5, <1>6

\* The call has its run, a new one or the one its key had.
LEMMA CreatedMove ==
    ASSUME PentestInv, NEW p \in Calls, NEW r \in Runs, call[p].at = "create",
           call' = [call EXCEPT ![p].at = "persist", ![p].created = r],
           \/ r \in RunsWithKey(p) /\ UNCHANGED providerVars
           \/ RunsWithKey(p) = {} /\ Launch(p, r),
           NoFault, UNCHANGED <<ledgerVars, acked, row, audits, stranded>>
    PROVE  PentestInv'
<1>a. /\ TypeOK /\ EnvInv /\ EventInv /\ CallInv /\ HeldInv /\ StatusInv /\ KeyInv /\ RowInv
      /\ AttemptInv /\ AuditInv /\ AckInv /\ ChildInv /\ ChargesAccounted
  BY DEF PentestInv, Inv1, Inv2, Inv3
<1>b. /\ call' \in [Calls -> CallType] /\ Others(p)
      /\ call'[p].at = "persist" /\ call'[p].created = r
      /\ call'[p].run = call[p].run /\ call'[p].event = call[p].event
      /\ call'[p].source = call[p].source
  BY <1>a, CreatedIs DEF Steps, Creating
<1>c. Owned' = Owned /\ \A q \in Runs : Children(q)' = Children(q)
  BY DEF Owned, Children
<1>d. /\ status' \in [Runs -> EventTypes \cup {"none", "running"}]
      /\ keyParent' \in [Runs -> Runs \cup {None}] /\ events' = events
      /\ StatusInv' /\ KeyInv' /\ status'[r] # "none" /\ keyParent'[r] = call[p].run
      /\ \A q \in Owned : status'[q] = status[q] /\ keyParent'[q] = keyParent[q]
      /\ \A q \in Runs : status[q] # "none" => status'[q] = status[q] /\ keyParent'[q] = keyParent[q]
  <2>1. CASE r \in RunsWithKey(p) /\ UNCHANGED providerVars
    <3>1. keyParent[r] = call[p].run /\ keyParent[r] # None
      BY <2>1 DEF RunsWithKey, Parent
    <3>2. QED
      BY <1>a, <2>1, <3>1 DEF TypeOK, StatusInv, KeyInv, FailedOrCancelled, providerVars
  <2>2. CASE RunsWithKey(p) = {} /\ Launch(p, r)
    BY <1>a, <2>2, LaunchIs
  <2>3. QED
    BY <2>1, <2>2
\* A customer's run is new, and no other call has it.
<1>e. p \in Users => /\ row[r] = None
                     /\ \A q \in Calls \ {p} : call[q].at = "persist" => call[q].created # r
  <2> SUFFICES ASSUME p \in Users
               PROVE  /\ row[r] = None
                      /\ \A q \in Calls \ {p} : call[q].at = "persist" => call[q].created # r
    OBVIOUS
  <2>1. RunsWithKey(p) = {} /\ Launch(p, r)
    BY <1>a DEF CallInv, RunsWithKey, Parent
  <2>2. status[r] = "none" /\ r \notin Owned
    BY <1>a, <2>1, LaunchIs
  <2>3. QED
    BY <1>a, <2>2 DEF Owned, CallInv
<1>f. ASSUME NEW u \in Users \ {p}, call[u].at = "persist" PROVE call[u].created # r
  <2>1. u \in Calls /\ keyParent[call[u].created] = None /\ status[call[u].created] # "none"
    BY <1>a, <1>f DEF CallInv, Calls
  <2>2. CASE r \in RunsWithKey(p)
    BY <2>1, <2>2 DEF RunsWithKey
  <2>3. CASE RunsWithKey(p) = {} /\ Launch(p, r)
    BY <1>a, <2>1, <2>3, LaunchIs
  <2>4. QED
    BY <2>2, <2>3
<1>g. /\ \A q \in Calls \ {p} : call'[q] = call[q]
      /\ \A q \in Calls : /\ call'[q].run = call[q].run /\ call'[q].event = call[q].event
                          /\ call'[q].source = call[q].source
                          /\ call'[q].at \in {"persist"} \/ call'[q] = call[q]
                          /\ call'[q].at = "idle" <=> call[q].at = "idle"
                          /\ Retries(q)' <=> Retries(q)
                          /\ call'[q].at \in Creating <=> call[q].at \in Creating
                          /\ Holds(q)' <=> Holds(q)
      /\ Users \subseteq Calls /\ Workers \subseteq Calls
      /\ faults' = faults /\ env' = env
  BY <1>b DEF Others, Retries, Holds, Creating, Calls, NoFault
<1> USE <1>a, <1>b, <1>c, <1>d, <1>g DEF ledgerVars
<1>1. TypeOK' /\ EnvInv'
  BY DEF TypeOK, LedgerTypeOK, EnvInv
<1>2. EventInv'
  BY DEF EventInv
<1>3. CallInv'
  <2>1. \A q \in Calls : call'[q].at = "persist" =>
         /\ call'[q].created \in Runs /\ status'[call'[q].created] # "none"
         /\ keyParent'[call'[q].created] = call'[q].run
    BY DEF CallInv
  <2>2. QED
    BY <2>1 DEF CallInv
<1>4. HeldInv'
  BY DEF HeldInv
<1>5. RowInv' /\ AttemptInv'
  BY DEF RowInv, AttemptInv
<1>6. AuditInv'
  BY DEF AuditInv
<1>7. AckInv'
  BY DEF AckInv
<1>8. ChildInv'
  <2>1. ASSUME NEW u \in Users, call'[u].at = "persist"
        PROVE  /\ row[call'[u].created] = None
               /\ \A q \in Calls \ {u} : call'[q].at = "persist" => call'[q].created # call'[u].created
    <3>1. CASE u = p
      BY <1>e, <3>1
    <3>2. CASE u # p
      BY <1>f, <2>1, <3>2 DEF ChildInv
    <3>3. QED
      BY <3>1, <3>2
  <2>2. ASSUME ~env.concurrent, NEW v \in Workers, NEW x \in Workers,
               call'[x].at # "idle", call'[v].at # "idle", x # v
        PROVE  call'[x].run # call'[v].run \/ call'[x].event # call'[v].event
    BY <2>2 DEF ChildInv
  <2>3. ASSUME ~env.concurrent, NEW v \in Workers, call'[v].at \in Creating
        PROVE  Children(call[v].run)' = {} /\ call'[v].run = call[v].run
    <3>1. call[v].run \in Runs /\ call[v].at \in Creating
      BY <2>3 DEF EventInv, Creating
    <3>2. Children(call[v].run) = {}
      BY <2>3, <3>1 DEF ChildInv
    <3>3. Children(call[v].run)' = Children(call[v].run)
      BY <3>1
    <3>4. QED
      BY <2>3, <3>1, <3>2, <3>3
  <2>4. QED
    BY <2>1, <2>2, <2>3 DEF ChildInv
<1>9. ChargesAccounted'
  BY DEF ChargesAccounted, Orderly, InFlight, Holds
<1>10. QED
  BY <1>1, <1>2, <1>3, <1>4, <1>5, <1>6, <1>7, <1>8, <1>9 DEF PentestInv, Inv1, Inv2, Inv3

\* The provider started a run and its id was lost.
LEMMA LostLaunch ==
    ASSUME PentestInv, NEW p \in Calls, NEW r \in Runs, call[p].at = "create",
           Goto(p, "giveBack"), RunsWithKey(p) = {}, Launch(p, r), Fault,
           UNCHANGED <<ledgerVars, acked, row, audits, stranded>>
    PROVE  PentestInv'
<1>a. /\ TypeOK /\ EnvInv /\ EventInv /\ CallInv /\ HeldInv /\ StatusInv /\ KeyInv /\ RowInv
      /\ AttemptInv /\ AuditInv /\ AckInv /\ ChildInv /\ ChargesAccounted
  BY DEF PentestInv, Inv1, Inv2, Inv3
<1>b. /\ call' \in [Calls -> CallType] /\ Others(p) /\ Same(p)
      /\ call'[p].at = "giveBack"
  BY <1>a, GotoIs DEF Steps, Creating
<1>c. Owned' = Owned /\ \A q \in Runs : Children(q)' = Children(q)
  BY DEF Owned, Children
<1>d. /\ status' \in [Runs -> EventTypes \cup {"none", "running"}]
      /\ keyParent' \in [Runs -> Runs \cup {None}] /\ events' = events
      /\ StatusInv' /\ KeyInv'
      /\ \A q \in Owned : status'[q] = status[q] /\ keyParent'[q] = keyParent[q]
      /\ \A q \in Runs : status[q] # "none" => status'[q] = status[q] /\ keyParent'[q] = keyParent[q]
  BY <1>a, LaunchIs
<1>e. faults' \in 0..env.faults /\ env' = env
  BY <1>a, FaultType
<1>g. /\ \A q \in Calls \ {p} : call'[q] = call[q]
      /\ \A q \in Calls : /\ call'[q].run = call[q].run /\ call'[q].event = call[q].event
                          /\ call'[q].source = call[q].source
                          /\ call'[q].at \in {"giveBack"} \/ call'[q] = call[q]
                          /\ call'[q].at = "idle" <=> call[q].at = "idle"
                          /\ Retries(q)' <=> Retries(q)
                          /\ call'[q].at \in Creating <=> call[q].at \in Creating
                          /\ Holds(q)' <=> Holds(q)
      /\ Users \subseteq Calls /\ Workers \subseteq Calls
  BY <1>b DEF Others, Retries, Holds, Creating, Calls, Same
<1> USE <1>a, <1>b, <1>c, <1>d, <1>e, <1>g DEF ledgerVars
<1>1. TypeOK' /\ EnvInv'
  BY DEF TypeOK, LedgerTypeOK, EnvInv
<1>2. EventInv' /\ CallInv'
  BY DEF EventInv, CallInv
<1>3. HeldInv'
  BY DEF HeldInv
<1>4. RowInv' /\ AttemptInv'
  BY DEF RowInv, AttemptInv
<1>5. AuditInv' /\ AckInv'
  BY DEF AuditInv, AckInv
<1>6. ChildInv'
  <2>1. ASSUME NEW u \in Users, call'[u].at = "persist"
        PROVE  /\ row'[call'[u].created] = None
               /\ \A q \in Calls \ {u} : call'[q].at = "persist" => call'[q].created # call'[u].created
    BY <2>1 DEF ChildInv
  <2>2. ASSUME ~env.concurrent, NEW v \in Workers, NEW x \in Workers,
               call'[x].at # "idle", call'[v].at # "idle", x # v
        PROVE  call'[x].run # call'[v].run \/ call'[x].event # call'[v].event
    BY <2>2 DEF ChildInv
  <2>3. ASSUME ~env.concurrent, NEW v \in Workers, call'[v].at \in Creating
        PROVE  Children(call[v].run)' = {} /\ call'[v].run = call[v].run
    <3>1. call[v].run \in Runs /\ call[v].at \in Creating
      BY <2>3 DEF EventInv, Creating
    <3>2. Children(call[v].run) = {}
      BY <2>3, <3>1 DEF ChildInv
    <3>3. Children(call[v].run)' = Children(call[v].run)
      BY <3>1
    <3>4. QED
      BY <2>3, <3>1, <3>2, <3>3
  <2>4. (\A u \in Users : call[u].at = "persist" =>
          /\ row[call[u].created] = None
          /\ \A q \in Calls \ {u} : call[q].at = "persist" => call[q].created # call[u].created)'
    BY <2>1
  <2>5. (~env.concurrent =>
          \A x, v \in Workers : call[x].at # "idle" /\ call[v].at # "idle" /\ x # v =>
            call[x].run # call[v].run \/ call[x].event # call[v].event)'
    BY <2>2
  <2>6. (~env.concurrent =>
          \A v \in Workers : call[v].at \in Creating => Children(call[v].run) = {})'
    BY <2>3
  <2>7. QED
    BY <2>4, <2>5, <2>6, Zenon DEF ChildInv
<1>7. ChargesAccounted'
  BY DEF ChargesAccounted, Orderly, InFlight, Holds
<1>8. QED
  BY <1>1, <1>2, <1>3, <1>4, <1>5, <1>6, <1>7 DEF PentestInv, Inv1, Inv2, Inv3

LEMMA CreateStep == ASSUME PentestInv, NEW p \in Calls, CreateAtProvider(p) PROVE PentestInv'
<1>1. call[p].at = "create" /\ UNCHANGED <<ledgerVars, acked, row, audits, stranded>>
  BY DEF CreateAtProvider
<1>2. ASSUME NEW r \in Runs,
             \/ r \in RunsWithKey(p) /\ UNCHANGED providerVars
             \/ RunsWithKey(p) = {} /\ Launch(p, r),
             call' = [call EXCEPT ![p].at = "persist", ![p].created = r], NoFault
      PROVE  PentestInv'
  BY <1>1, <1>2, CreatedMove
<1>3. CASE (Fault \/ NoFault) /\ UNCHANGED providerVars /\ Goto(p, "giveBack")
  BY <1>1, <1>3, ToGiveBack
<1>4. ASSUME NEW r \in Runs, Fault, RunsWithKey(p) = {}, Launch(p, r), Goto(p, "giveBack")
      PROVE  PentestInv'
  BY <1>1, <1>4, LostLaunch
<1>5. QED
  BY <1>2, <1>3, <1>4 DEF CreateAtProvider

LEMMA PersistStep == ASSUME PentestInv, NEW p \in Calls, Persist(p) PROVE PentestInv'
<1> DEFINE r == call[p].created
           s == call[p].source
           parent == call[p].run
           new == NewRow(p)
<1>a. /\ TypeOK /\ EnvInv /\ EventInv /\ CallInv /\ HeldInv /\ StatusInv /\ KeyInv /\ RowInv
      /\ AttemptInv /\ AuditInv /\ AckInv /\ ChildInv /\ ChargesAccounted
      /\ call[p].at = "persist" /\ UNCHANGED <<ledgerVars, providerVars, audits, stranded>>
  BY DEF PentestInv, Inv1, Inv2, Inv3, Persist
<1>b. /\ r \in Runs /\ status[r] # "none" /\ keyParent[r] = parent
      /\ s \in Sources /\ chargedTo[s] # NoPot /\ s \notin refunded
      /\ \A q \in Owned : row[q].source # s
      /\ Retries(p) /\ Holds(p)
  BY <1>a DEF CallInv, HeldInv, Holds, Retries, Creating
\* A retry's run has failed, and is refunded when its row was first.
<1>c. p \in Workers =>
        /\ parent \in Runs /\ row[parent] # None /\ row[parent].attempt < env.attempts
        /\ call[p].event = "failed" /\ "failed" \in events[parent]
        /\ ~env.early => row[parent].refunded
  BY <1>a, <1>b DEF EventInv, CallInv, AckInv, Creating
<1>d. p \in Users => parent = None
  BY <1>a DEF CallInv
<1>1. CASE Fault /\ Goto(p, "giveBack") /\ UNCHANGED <<row, acked>>
  BY <1>a, <1>1, ToGiveBack
<1>2. CASE row' = [row EXCEPT ![r] = Stored(p, @)] /\ Succeed(p) /\ NoFault
  <2>1. /\ call' \in [Calls -> CallType] /\ Others(p)
        /\ call'[p].at = "idle" /\ call'[p].run = None
        /\ acked' \in [Runs -> SUBSET EventTypes]
        /\ \A q \in Runs, e \in EventTypes : e \in acked'[q] =>
             e \in acked[q] \/ (p \in Workers /\ q = call[p].run /\ e = call[p].event)
    BY <1>a, <1>2, SucceedIs
  <2>2. faults' = faults /\ env' = env
    BY <1>2 DEF NoFault
  \* The run had a row: with orderly deliveries it cannot have.
  <2>3. CASE row[r] # None
    <3>1. row' = row
      BY <1>a, <1>b, <1>2, <2>3 DEF Stored, TypeOK
    <3>2. ~Orderly
      <4> SUFFICES ASSUME Orderly PROVE FALSE
        OBVIOUS
      <4>1. r \in Owned /\ row[r].parent = parent
        BY <1>a, <1>b, <2>3 DEF Owned, RowInv
      <4>2. CASE p \in Users
        BY <1>a, <2>3, <4>2 DEF ChildInv
      <4>3. CASE p \in Workers
        <5>1. Children(parent) = {}
          BY <1>a, <4>3 DEF ChildInv, Orderly, Creating
        <5>2. QED
          BY <4>1, <5>1 DEF Children
      <4>4. QED
        BY <4>2, <4>3 DEF Calls
    <3>3. faults' \in 0..env.faults /\ stranded' \subseteq Sources
      BY <1>a, <2>2 DEF TypeOK
    <3>4. QED
      BY <1>a, <1>c, <2>1, <2>2, <3>1, <3>2, <3>3, LeaveMove
  <2>4. CASE row[r] = None
    <3>1. /\ row'[r] = new /\ \A q \in Runs \ {r} : row'[q] = row[q]
          /\ DOMAIN row' = Runs
      BY <1>a, <1>b, <1>2, <2>4 DEF Stored, TypeOK
    <3>2. /\ parent = None => new.root = r /\ new.attempt = 1
          /\ parent # None => /\ new.root = row[parent].root
                              /\ new.attempt = row[parent].attempt + 1
          /\ new.source = s /\ new.parent = parent
          /\ new.refunded = FALSE /\ new.blocked = FALSE /\ new.audited = FALSE
      BY DEF NewRow, Parent
    <3>3. p \in Workers \/ (p \in Users /\ parent = None)
      BY <1>d DEF Calls
    <3>4. new \in RowType /\ new.attempt <= env.attempts
      <4>1. env.attempts \in Nat \ {0}
        BY <1>a, EnvType
      <4>2. CASE parent = None
        BY <1>b, <4>1, <4>2 DEF NewRow, Parent, RowType
      <4>3. CASE parent # None
        <5>1. row[parent] \in RowType /\ row[parent].attempt < env.attempts /\ parent \in Runs
          BY <1>a, <1>c, <3>3, <4>3, RowsTyped
        <5>2. /\ row[parent].root \in Runs /\ row[parent].attempt \in Nat \ {0}
          BY <5>1 DEF RowType
        <5>3. row[parent].attempt + 1 \in Nat \ {0} /\ row[parent].attempt + 1 <= env.attempts
          BY <4>1, <5>1, <5>2
        <5>4. QED
          BY <1>b, <3>2, <4>3, <5>1, <5>2, <5>3 DEF NewRow, Parent, RowType
      <4>4. QED
        BY <4>2, <4>3
    <3>5. new # None
      BY <3>4, RowAssumption
    <3> HIDE DEF new
    <3>6. Owned' = Owned \cup {r} /\ r \notin Owned /\ Owned \subseteq Runs
      BY <1>b, <2>4, <3>1, <3>5 DEF Owned
    <3>7. \A q \in Owned : row'[q] = row[q] /\ q # r
      BY <3>1, <3>6
    <3>8. \A q \in Runs : q # parent => Children(q)' = Children(q)
      BY <3>1, <3>2, <3>6, <3>7 DEF Children
    <3>9. /\ \A q \in Calls \ {p} : call'[q] = call[q]
          /\ \A q \in Calls : call'[q].at # "idle" => call'[q] = call[q] /\ q # p
          /\ \A q \in Calls : Retries(q)' => Retries(q) /\ q # p
          /\ \A q \in Calls : Holds(q)' => Holds(q) /\ q # p
          /\ \A q \in Calls : Holds(q) => Holds(q)' \/ q = p
          /\ Users \subseteq Calls /\ Workers \subseteq Calls
      BY <2>1 DEF Others, Retries, Holds, Creating, Calls
    <3> HIDE DEF r, s, parent
    <3> USE <1>a, <1>b, <2>1, <2>2, <3>6, <3>7, <3>9 DEF ledgerVars, providerVars
    <3>10. TypeOK' /\ EnvInv'
      <4>1. row' \in [Runs -> RowType \cup {None}]
        BY <1>2, <3>1, <3>4 DEF TypeOK
      <4>2. QED
        BY <4>1 DEF TypeOK, LedgerTypeOK, EnvInv
    <3>11. EventInv'
      BY DEF EventInv
    <3>12. CallInv'
      <4>1. \A w \in Workers : Retries(w) => call[w].run \in Owned
        BY DEF CallInv, Owned, EventInv, Retries, Creating
      <4>2. QED
        BY <4>1 DEF CallInv, Creating
    <3>13. HeldInv'
      BY <3>1, <3>2 DEF HeldInv, s
    <3>14. StatusInv' /\ KeyInv'
      BY DEF StatusInv, KeyInv, FailedOrCancelled
    <3>15. RowInv'
      <4>1. /\ status[r] # "none" /\ row'[r].parent = keyParent[r]
            /\ chargedTo[row'[r].source] # NoPot
            /\ row'[r].refunded <=> row'[r].source \in refunded
            /\ ~row'[r].refunded
            /\ \A q \in Owned : row[q].source # row'[r].source
        BY <3>1, <3>2
      <4>2. QED
        BY <4>1 DEF RowInv
    <3>16. AttemptInv'
      <4>1. row'[r].attempt <= env.attempts
        BY <3>1, <3>4
      <4>2. row'[r].parent = None => row'[r].root = r /\ row'[r].attempt = 1
        BY <3>1, <3>2 DEF r, parent
      <4>3. row'[r].parent # None =>
              /\ row'[r].parent \in Owned /\ "failed" \in events[row'[r].parent]
              /\ row'[r].root = row[row'[r].parent].root
              /\ row'[r].attempt = row[row'[r].parent].attempt + 1
        BY <1>c, <3>1, <3>2, <3>3 DEF Owned
      <4>4. QED
        BY <4>1, <4>2, <4>3 DEF AttemptInv
    <3>17. AuditInv'
      <4>1. \A q \in Runs : audits[q] > 0 => q \in Owned /\ row[q].audited
        BY DEF AuditInv, Owned
      <4>2. \A w \in Workers : call[w].at = "writeAudit" => call[w].run \in Owned
        BY DEF AuditInv, Owned, EventInv
      <4>3. \A q \in Owned : row'[q] # None
        BY DEF Owned
      <4>4. QED
        BY <4>1, <4>2, <4>3 DEF AuditInv
    <3>18. AckInv'
      <4> SUFFICES ASSUME ~env.early PROVE AckInv'
        BY DEF AckInv
      <4>1. \A w \in Workers : call[w].at # "idle" => call[w].run \in Owned
        BY DEF AckInv, Owned, EventInv
      <4>2. \A q \in Owned : row'[q] # None /\ row'[q] = row[q]
        BY DEF Owned
      <4>3. \A w \in Workers : call'[w].at # "idle" => row'[call'[w].run] # None
        BY <4>1, <4>2
      <4>4. \A w \in Workers : Retries(w)' \/ call'[w].at \in {"checkBlock", "block"} =>
              row'[call'[w].run].refunded
        <5>1. \A w \in Workers : Retries(w) => call[w].at # "idle"
          BY DEF Retries, Creating
        <5>2. QED
          BY <4>1, <4>2, <5>1 DEF AckInv
      <4>5. \A q \in Runs : "failed" \in acked[q] \/ "cancelled" \in acked[q] =>
              q \in Owned /\ row[q].refunded
        BY DEF AckInv, Owned
      <4>6. p \in Workers => parent \in Owned /\ row[parent].refunded
        BY <1>c DEF Owned
      <4>7. \A q \in Runs : "failed" \in acked'[q] \/ "cancelled" \in acked'[q] =>
              q \in Owned /\ row[q].refunded
        BY <4>5, <4>6 DEF EventTypes, parent
      <4>8. \A q \in Runs : "cancelled" \in acked'[q] => q \in Owned /\ row[q].blocked
        BY <1>c DEF EventTypes, AckInv, Owned
      <4>9. QED
        BY <4>2, <4>3, <4>4, <4>7, <4>8 DEF AckInv
    <3>19. ChildInv'
      <4>1. ASSUME NEW u \in Users, call'[u].at = "persist"
            PROVE  /\ row'[call'[u].created] = None
                   /\ \A q \in Calls \ {u} : call'[q].at = "persist" => call'[q].created # call'[u].created
        <5>1. call'[u] = call[u] /\ u # p /\ call[u].created \in Runs
          BY <4>1 DEF CallInv
        <5>2. call[u].created # r
          BY <4>1, <5>1 DEF ChildInv, r
        <5>3. QED
          BY <3>1, <4>1, <5>1, <5>2 DEF ChildInv
      <4>2. ASSUME ~env.concurrent, NEW v \in Workers, NEW x \in Workers,
                   call'[x].at # "idle", call'[v].at # "idle", x # v
            PROVE  call'[x].run # call'[v].run \/ call'[x].event # call'[v].event
        BY <4>2 DEF ChildInv
      <4>3. ASSUME ~env.concurrent, NEW v \in Workers, call'[v].at \in Creating
            PROVE  Children(call[v].run)' = {} /\ call'[v].run = call[v].run
        <5>1. call'[v] = call[v] /\ v # p /\ call[v].run \in Runs /\ call[v].at # "idle"
          BY <4>3 DEF EventInv, Creating
        <5>2. call[v].event = "failed"
          BY <4>3, <5>1 DEF EventInv, Retries
        <5>3. call[v].run # parent
          <6>1. CASE p \in Workers
            BY <1>c, <4>3, <5>1, <5>2, <6>1 DEF ChildInv, parent
          <6>2. CASE parent = None
            BY <5>1, <6>2, PentestAssumption
          <6>3. QED
            BY <3>3, <6>1, <6>2
        <5>4. QED
          BY <3>8, <4>3, <5>1, <5>3 DEF ChildInv
      <4>4. QED
        BY <4>1, <4>2, <4>3 DEF ChildInv
    <3>20. ChargesAccounted'
      <4>1. \A o \in Sources \ {s} : InFlight(o) => InFlight(o)'
        BY DEF InFlight, Holds, s
      <4>2. r \in Owned' /\ row'[r].source = s
        BY <3>1, <3>2
      <4>3. QED
        BY <4>1, <4>2 DEF ChargesAccounted, Orderly
    <3>21. QED
      BY <3>10, <3>11, <3>12, <3>13, <3>14, <3>15, <3>16, <3>17, <3>18, <3>19, <3>20
      DEF PentestInv, Inv1, Inv2, Inv3
  <2>5. QED
    BY <2>3, <2>4
<1>3. QED
  BY <1>1, <1>2 DEF Persist

-----------------------------------------------------------------------------
(* Reports and webhook handlers *)

LEMMA ReportStep ==
    ASSUME PentestInv, NEW r \in Runs, NEW e \in EventTypes, Report(r, e)
    PROVE  PentestInv'
<1>a. /\ TypeOK /\ EnvInv /\ EventInv /\ CallInv /\ HeldInv /\ StatusInv /\ KeyInv /\ RowInv
      /\ AttemptInv /\ AuditInv /\ AckInv /\ ChildInv /\ ChargesAccounted
      /\ UNCHANGED <<ledgerVars, keyParent, acked, row, audits, call, faultVars>>
  BY DEF PentestInv, Inv1, Inv2, Inv3, Report
<1>b. /\ \A q \in Runs : events[q] \subseteq events'[q]
      /\ \A q \in Runs \ {r} : status'[q] = status[q] /\ events'[q] = events[q]
      /\ events' \in [Runs -> SUBSET EventTypes]
      /\ events'[r] = events[r] \cup {e}
  <2>1. events' = [events EXCEPT ![r] = @ \cup {e}]
    BY DEF Report
  <2>2. \A q \in Runs \ {r} : status'[q] = status[q]
    BY <1>a DEF Report, TypeOK
  <2>3. QED
    BY <1>a, <2>1, <2>2 DEF TypeOK
<1>c. /\ status' \in [Runs -> EventTypes \cup {"none", "running"}]
      /\ status[r] \in {"running", "cancelled"} /\ status'[r] # "none"
      /\ \/ status[r] = "running" /\ status'[r] = e
         \/ status[r] = "cancelled" /\ status'[r] = "cancelled"
  BY <1>a DEF Report, TypeOK, EventTypes
<1>d. Owned' = Owned /\ \A q \in Runs : Children(q)' = Children(q)
  BY <1>a DEF Owned, Children
<1> USE <1>a, <1>b, <1>c, <1>d DEF ledgerVars, faultVars
<1>1. TypeOK' /\ EnvInv'
  BY DEF TypeOK, LedgerTypeOK, EnvInv
<1>2. EventInv'
  BY DEF EventInv, Retries
<1>3. CallInv'
  BY DEF CallInv, Retries
<1>4. HeldInv'
  BY DEF HeldInv, Holds
<1>5. StatusInv'
  <2>1. FailedOrCancelled(r) => status[r] # "running"
    BY DEF StatusInv
  <2>2. status[r] = "running" => events'[r] = events[r] \cup {e} /\ ~FailedOrCancelled(r)
    BY <2>1
  <2>3. FailedOrCancelled(r)' => status'[r] \in {"failed", "cancelled"}
    BY <2>2 DEF FailedOrCancelled
  <2>4. QED
    BY <2>3 DEF StatusInv, FailedOrCancelled
<1>6. KeyInv'
  BY DEF KeyInv
<1>7. RowInv'
  BY DEF RowInv, Owned
<1>8. AttemptInv'
  <2>1. \A q \in Owned : "failed" \in events[q] => "failed" \in events'[q]
    BY DEF Owned
  <2>2. QED
    BY <2>1 DEF AttemptInv
<1>9. AuditInv' /\ AckInv'
  BY DEF AuditInv, AckInv, Retries
<1>10. ChildInv'
  BY DEF ChildInv, Children, Owned
<1>11. ChargesAccounted'
  BY DEF ChargesAccounted, Orderly, InFlight
<1>12. QED
  BY <1>1, <1>2, <1>3, <1>4, <1>5, <1>6, <1>7, <1>8, <1>9, <1>10, <1>11
  DEF PentestInv, Inv1, Inv2, Inv3

\* Marked rows keep their lineage.
LEMMA MarkedIs ==
    ASSUME TypeOK, AttemptInv, Marked, UNCHANGED <<env, events>>
    PROVE  Owned' = Owned /\ AttemptInv' /\ \A q \in Runs : Children(q)' = Children(q)
<1>1. Owned' = Owned /\ Owned \subseteq Runs /\ \A r \in Owned : row[r] # None
  BY DEF Owned, Marked
<1>2. \A q \in Runs : Children(q)' = Children(q)
  BY <1>1 DEF Children, Marked
<1>3. AttemptInv'
  BY <1>1 DEF AttemptInv, Marked
<1>4. QED
  BY <1>1, <1>2, <1>3

\* What the steps of a webhook handler leave as it is.
LEMMA MarkMove ==
    ASSUME PentestInv, NEW w \in Workers, Others(w), call' \in [Calls -> CallType],
           call[w].at \in {"refund", "block", "claimAudit", "writeAudit"},
           \/ call'[w].at = "idle"
           \/ /\ call'[w].run = call[w].run /\ call'[w].event = call[w].event
              /\ \/ call'[w].at = "checkBlock" /\ call[w].event = "failed"
                 \/ call'[w].at = "block" /\ call[w].event = "cancelled"
                 \/ call'[w].at = "writeAudit" /\ call[w].event = "completed",
           row' \in [Runs -> RowType \cup {None}], Marked,
           acked' \in [Runs -> SUBSET EventTypes], audits' \in [Runs -> Nat],
           LedgerTypeOK', chargedTo' = chargedTo, refunded \subseteq refunded',
           \A s \in refunded' \ refunded : \E r \in Owned : s = row[r].source,
           UNCHANGED <<providerVars, stranded, env>>, faults' \in 0..env.faults
    PROVE  /\ Inv1' /\ HeldInv' /\ StatusInv' /\ KeyInv' /\ AttemptInv'
           /\ ChildInv' /\ ChargesAccounted'
           /\ Owned' = Owned
           /\ \A q \in Calls : call'[q].at # "idle" => call[q].at # "idle" /\ call'[q].run = call[q].run
           /\ \A q \in Calls : Retries(q)' => Retries(q) /\ q # w
<1>a. /\ TypeOK /\ EnvInv /\ EventInv /\ CallInv /\ HeldInv /\ StatusInv /\ KeyInv /\ RowInv
      /\ AttemptInv /\ ChildInv /\ ChargesAccounted
      /\ w \in Calls /\ w \notin Users
  BY PentestAssumption DEF PentestInv, Inv1, Inv2, Inv3, Calls
<1>b. /\ Owned' = Owned /\ AttemptInv' /\ \A q \in Runs : Children(q)' = Children(q)
  BY <1>a, MarkedIs DEF providerVars
<1>c. /\ \A q \in Calls \ {w} : call'[q] = call[q]
      /\ \A q \in Calls : call'[q].at # "idle" =>
           call[q].at # "idle" /\ call'[q].run = call[q].run /\ call'[q].event = call[q].event
      /\ \A q \in Calls : Retries(q)' => Retries(q) /\ q # w
      /\ \A q \in Calls : call'[q].at \in Creating => call'[q] = call[q] /\ q # w
      /\ \A q \in Calls : Holds(q)' => Holds(q) /\ q # w
      /\ \A q \in Calls : Holds(q) => Holds(q)' /\ q # w
      /\ Users \subseteq Calls /\ Workers \subseteq Calls
  BY <1>a DEF Others, Retries, Holds, Creating, Calls
<1>d. \A r \in Owned : r \in Runs /\ row[r] # None /\ row'[r].source = row[r].source
  BY DEF Owned, Marked
<1> USE <1>a, <1>b, <1>c DEF providerVars
<1>1. TypeOK' /\ EnvInv'
  BY DEF TypeOK, EnvInv
<1>2. EventInv'
  <2> SUFFICES ASSUME NEW v \in Workers, call'[v].at # "idle"
               PROVE  LET e == call'[v].event IN
                      /\ call'[v].run \in Runs /\ e \in events[call'[v].run]
                      /\ call'[v].at = "refund" => e \in {"failed", "cancelled"}
                      /\ Retries(v)' \/ call'[v].at = "checkBlock" => e = "failed"
                      /\ call'[v].at = "block" => e = "cancelled"
                      /\ call'[v].at \in {"claimAudit", "writeAudit"} => e = "completed"
    BY DEF EventInv
  <2>1. CASE v = w
    BY <2>1 DEF EventInv
  <2>2. CASE v # w
    BY <2>2 DEF EventInv
  <2>3. QED
    BY <2>1, <2>2
<1>3. CallInv'
  <2>1. \A v \in Workers : Retries(v) => call[v].run \in Runs /\ row[call[v].run] # None
    BY DEF CallInv, EventInv, Retries, Creating
  <2>2. \A v \in Workers : Retries(v)' =>
          /\ row'[call'[v].run] # None /\ row'[call'[v].run].attempt < env.attempts
    BY <2>1 DEF CallInv, Marked
  <2>3. QED
    BY <2>2 DEF CallInv, Creating
<1>4. HeldInv'
  <2>1. \A q \in Calls : Holds(q) => call[q].source \notin refunded'
    BY DEF HeldInv
  <2>2. QED
    BY <1>d, <2>1 DEF HeldInv
<1>5. StatusInv' /\ KeyInv'
  BY DEF StatusInv, KeyInv, FailedOrCancelled
<1>6. ChildInv'
  <2>1. ASSUME NEW u \in Users, call'[u].at = "persist"
        PROVE  /\ row'[call'[u].created] = None
               /\ \A q \in Calls \ {u} : call'[q].at = "persist" => call'[q].created # call'[u].created
    <3>1. call'[u] = call[u] /\ call[u].created \in Runs
      BY <2>1 DEF CallInv
    <3>2. QED
      BY <2>1, <3>1 DEF ChildInv, Marked
  <2>2. ASSUME ~env.concurrent, NEW v \in Workers, NEW x \in Workers,
               call'[x].at # "idle", call'[v].at # "idle", x # v
        PROVE  call'[x].run # call'[v].run \/ call'[x].event # call'[v].event
    BY <2>2 DEF ChildInv
  <2>3. ASSUME ~env.concurrent, NEW v \in Workers, call'[v].at \in Creating
        PROVE  Children(call[v].run)' = {} /\ call'[v].run = call[v].run
    <3>1. call'[v] = call[v] /\ call[v].run \in Runs
      BY <2>3 DEF EventInv, Creating
    <3>2. Children(call[v].run) = {}
      BY <2>3, <3>1 DEF ChildInv
    <3>3. Children(call[v].run)' = Children(call[v].run)
      BY <3>1
    <3>4. QED
      BY <2>3, <3>1, <3>2, <3>3
  <2>4. QED
    BY <2>1, <2>2, <2>3 DEF ChildInv
<1>7. ChargesAccounted'
  <2>1. \A o \in Sources : InFlight(o) => InFlight(o)'
    BY DEF InFlight, Holds
  <2>2. QED
    BY <1>d, <2>1 DEF ChargesAccounted, Orderly
<1>8. QED
  BY <1>1, <1>2, <1>3, <1>4, <1>5, <1>6, <1>7 DEF Inv1

\* Marking one row.
LEMMA MarkIs ==
    ASSUME TypeOK, NEW r \in Owned, NEW mark \in {"refunded", "audited"},
           \/ mark = "refunded" /\ row' = [row EXCEPT ![r].refunded = TRUE]
           \/ mark = "audited" /\ row' = [row EXCEPT ![r].audited = TRUE]
    PROVE  /\ row' \in [Runs -> RowType \cup {None}] /\ Marked
           /\ \A q \in Runs \ {r} : row'[q] = row[q]
           /\ row'[r].blocked = row[r].blocked
           /\ mark = "refunded" => row'[r].refunded /\ row'[r].audited = row[r].audited
           /\ mark = "audited" => row'[r].audited /\ row'[r].refunded = row[r].refunded
<1>1. r \in Runs /\ row[r] \in RowType
  BY RowsTyped
<1>2. \A q \in Runs \ {r} : row'[q] = row[q]
  BY <1>1 DEF TypeOK
<1>3. /\ row'[r] \in RowType
      /\ row'[r].source = row[r].source /\ row'[r].root = row[r].root
      /\ row'[r].attempt = row[r].attempt /\ row'[r].parent = row[r].parent
      /\ row'[r].blocked = row[r].blocked
      /\ mark = "refunded" => row'[r].refunded = TRUE /\ row'[r].audited = row[r].audited
      /\ mark = "audited" => row'[r].audited = TRUE /\ row'[r].refunded = row[r].refunded
  <2> DEFINE c == row[r]
  <2>1. CASE row' = [row EXCEPT ![r].refunded = TRUE] /\ mark = "refunded"
    <3> DEFINE d == [c EXCEPT !.refunded = TRUE]
    <3>1. row'[r] = d
      BY <1>1, <2>1 DEF TypeOK
    <3> HIDE DEF c
    <3>2. /\ d \in RowType /\ d.source = c.source /\ d.root = c.root /\ d.attempt = c.attempt
          /\ d.parent = c.parent /\ d.blocked = c.blocked /\ d.refunded = TRUE
          /\ d.audited = c.audited
      BY <1>1 DEF RowType, c
    <3>3. QED
      BY <2>1, <3>1, <3>2 DEF c
  <2>2. CASE row' = [row EXCEPT ![r].audited = TRUE] /\ mark = "audited"
    <3> DEFINE d == [c EXCEPT !.audited = TRUE]
    <3>1. row'[r] = d
      BY <1>1, <2>2 DEF TypeOK
    <3> HIDE DEF c
    <3>2. /\ d \in RowType /\ d.source = c.source /\ d.root = c.root /\ d.attempt = c.attempt
          /\ d.parent = c.parent /\ d.blocked = c.blocked /\ d.audited = TRUE
          /\ d.refunded = c.refunded
      BY <1>1 DEF RowType, c
    <3>3. QED
      BY <2>2, <3>1, <3>2 DEF c
  <2>3. QED
    BY <2>1, <2>2
<1>4. row' \in [Runs -> RowType \cup {None}]
  BY <1>1, <1>2, <1>3 DEF TypeOK
<1>5. Marked
  BY <1>1, <1>2, <1>3, RowAssumption DEF Marked
<1>6. QED
  BY <1>2, <1>3, <1>4, <1>5

\* A handler ends with an error.
LEMMA FailMove ==
    ASSUME PentestInv, NEW w \in Workers, call[w].at \in {"refund", "block", "claimAudit"},
           Fault, Fail(w), UNCHANGED <<ledgerVars, providerVars, row, audits, stranded>>
    PROVE  PentestInv'
<1>1. TypeOK /\ EnvInv /\ w \in Calls /\ ~Holds(w)
  BY DEF PentestInv, Inv1, Calls, Holds
<1>2. /\ call' \in [Calls -> CallType] /\ Others(w)
      /\ call'[w].at = "idle" /\ call'[w].run = None /\ acked' = acked
  BY <1>1, LeaveIs DEF Fail
<1>3. /\ faults' \in 0..env.faults /\ env' = env /\ stranded' \subseteq Sources
      /\ acked' \in [Runs -> SUBSET EventTypes]
  BY <1>1, <1>2, FaultType DEF TypeOK
<1>4. QED
  BY <1>1, <1>2, <1>3, LeaveMove

LEMMA RefundStep == ASSUME PentestInv, NEW w \in Workers, RefundTx(w) PROVE PentestInv'
<1> DEFINE r == call[w].run
<1>a. /\ TypeOK /\ EnvInv /\ EventInv /\ StatusInv /\ RowInv /\ AuditInv /\ AckInv
      /\ w \in Calls /\ call[w].at = "refund" /\ UNCHANGED <<providerVars, audits, stranded>>
  BY DEF PentestInv, Inv1, Inv2, Inv3, Calls, RefundTx
<1>b. /\ r \in Runs /\ call[w].event \in {"failed", "cancelled"} /\ FailedOrCancelled(r)
      /\ status[r] \in {"failed", "cancelled"}
  BY <1>a DEF EventInv, StatusInv, FailedOrCancelled
<1>1. CASE Fault /\ Fail(w) /\ UNCHANGED <<row, ledgerVars>>
  BY <1>a, <1>1, FailMove
<1>2. CASE /\ NoFault
           /\ IF RefundClaimable(r)
              THEN /\ row' = [row EXCEPT ![r].refunded = TRUE]
                   /\ GiveBackOnce(row[r].source)
              ELSE UNCHANGED <<row, ledgerVars>>
           /\ Goto(w, IF call[w].event = "failed" THEN "checkBlock" ELSE "block")
           /\ UNCHANGED acked
  <2>1. /\ call' \in [Calls -> CallType] /\ Same(w) /\ Others(w)
        /\ call'[w].at = IF call[w].event = "failed" THEN "checkBlock" ELSE "block"
    BY <1>a, <1>2, GotoIs DEF Steps
  <2>2. /\ faults' \in 0..env.faults /\ env' = env /\ acked' \in [Runs -> SUBSET EventTypes]
        /\ audits' \in [Runs -> Nat]
    BY <1>a, <1>2 DEF TypeOK, NoFault
  \* The claim succeeds with the refund, and the row's source is given back with
  \* the mark; a row that cannot be claimed is refunded or missing.
  <2>3. /\ row' \in [Runs -> RowType \cup {None}] /\ Marked
        /\ \A q \in Runs \ {r} : row'[q] = row[q]
        /\ LedgerTypeOK' /\ chargedTo' = chargedTo
        /\ row[r] # None => /\ row'[r].refunded /\ row'[r].audited = row[r].audited
                            /\ row'[r].blocked = row[r].blocked
                            /\ refunded' = refunded \cup {row[r].source}
        /\ row[r] = None => row'[r] = None /\ refunded' = refunded
    <3>1. CASE RefundClaimable(r)
      <4>1. r \in Owned /\ row[r].source \in Sources /\ ~row[r].refunded
        BY <1>a, <1>b, <3>1, RowsTyped DEF RefundClaimable, Owned, RowType
      <4>2. row' = [row EXCEPT ![r].refunded = TRUE] /\ Refund(row[r].source)
        BY <1>2, <1>a, <3>1, <4>1 DEF GiveBackOnce, RowInv
      <4>3. LedgerTypeOK' /\ chargedTo' = chargedTo /\ refunded' = refunded \cup {row[r].source}
        BY <1>a, <4>1, <4>2, RefundIs DEF TypeOK
      <4>4. /\ row' \in [Runs -> RowType \cup {None}] /\ Marked
            /\ \A q \in Runs \ {r} : row'[q] = row[q]
            /\ row'[r].refunded /\ row'[r].audited = row[r].audited
            /\ row'[r].blocked = row[r].blocked
        BY <1>a, <4>1, <4>2, MarkIs
      <4>5. QED
        BY <3>1, <4>3, <4>4 DEF RefundClaimable
    <3>2. CASE ~RefundClaimable(r)
      <4>1. UNCHANGED <<row, ledgerVars>>
        BY <1>2, <3>2
      <4>2. Marked /\ row' \in [Runs -> RowType \cup {None}] /\ LedgerTypeOK'
        BY <1>a, <4>1 DEF Marked, TypeOK, LedgerTypeOK, ledgerVars
      <4>3. row[r] # None => row[r].refunded /\ row[r].source \in refunded
        BY <1>a, <1>b, <3>2 DEF RefundClaimable, RowInv, Owned
      <4>4. QED
        BY <4>1, <4>2, <4>3 DEF ledgerVars
    <3>3. QED
      BY <3>1, <3>2
  <2>4. /\ refunded \subseteq refunded'
        /\ \A s \in refunded' \ refunded : \E q \in Owned : s = row[q].source
    BY <1>b, <2>3 DEF Owned
  <2>5. /\ Inv1' /\ HeldInv' /\ StatusInv' /\ KeyInv' /\ AttemptInv'
        /\ ChildInv' /\ ChargesAccounted' /\ Owned' = Owned
        /\ \A q \in Calls : call'[q].at # "idle" => call[q].at # "idle" /\ call'[q].run = call[q].run
        /\ \A q \in Calls : Retries(q)' => Retries(q) /\ q # w
    BY <1>a, <1>b, <2>1, <2>2, <2>3, <2>4, MarkMove DEF Same
  <2>6. /\ \A q \in Calls \ {w} : call'[q] = call[q]
        /\ Workers \subseteq Calls
        /\ \A q \in Owned : q \in Runs /\ row[q] # None
    BY <2>1 DEF Others, Calls, Owned
  <2> HIDE DEF r
  <2> USE <1>a, <1>b, <2>1, <2>2, <2>3, <2>5, <2>6 DEF providerVars
  <2>7. RowInv'
    <3> SUFFICES ASSUME NEW q \in Owned
                 PROVE  /\ status[q] # "none" /\ row'[q].parent = keyParent[q]
                        /\ chargedTo[row'[q].source] # NoPot
                        /\ row'[q].refunded <=> row'[q].source \in refunded'
                        /\ row'[q].refunded => status[q] \in {"failed", "cancelled"}
                        /\ \A o \in Owned \ {q} : row'[o].source # row'[q].source
      BY DEF RowInv
    <3>1. \A o \in Owned : row'[o].source = row[o].source /\ row'[o].parent = row[o].parent
      BY DEF Marked
    <3>2. CASE q = r
      BY <3>1, <3>2 DEF RowInv
    <3>3. CASE q # r
      <4>1. row[r] # None => r \in Owned
        BY DEF Owned
      <4>2. QED
        BY <3>1, <3>3, <4>1 DEF RowInv
    <3>4. QED
      BY <3>2, <3>3
  <2>8. AuditInv'
    <3>1. \A q \in Runs : row[q] # None => row'[q] # None /\ row'[q].audited = row[q].audited
      BY DEF Marked
    <3>2. \A v \in Workers : call'[v].at = "writeAudit" => call'[v] = call[v] /\ call[v].run \in Runs
      BY DEF EventInv
    <3>3. QED
      BY <3>1, <3>2 DEF AuditInv
  <2>9. AckInv'
    <3> SUFFICES ASSUME ~env.early PROVE AckInv'
      BY DEF AckInv
    <3>1. \A q \in Runs : row[q] # None => /\ row'[q] # None
                                           /\ row[q].refunded => row'[q].refunded
                                           /\ row[q].blocked => row'[q].blocked
      BY DEF Marked
    <3>2. \A v \in Workers : call[v].at # "idle" => call[v].run \in Runs /\ row[call[v].run] # None
      BY DEF AckInv, EventInv
    <3>3. \A v \in Workers : call'[v].at # "idle" => row'[call'[v].run] # None
      BY <3>1, <3>2
    <3>4. ASSUME NEW v \in Workers, Retries(v)' \/ call'[v].at \in {"checkBlock", "block"}
          PROVE  row'[call'[v].run].refunded
      <4>1. CASE v = w
        BY <3>2, <4>1 DEF r, Same
      <4>2. CASE v # w
        <5>1. call'[v] = call[v] /\ call[v].at # "idle"
          BY <3>4, <4>2 DEF Retries, Creating
        <5>2. QED
          BY <3>1, <3>2, <3>4, <4>2, <5>1 DEF AckInv
      <4>3. QED
        BY <4>1, <4>2
    <3>5. QED
      BY <1>2, <3>1, <3>3, <3>4 DEF AckInv
  <2>10. QED
    BY <2>7, <2>8, <2>9 DEF PentestInv, Inv2, Inv3
<1>3. QED
  BY <1>1, <1>2 DEF RefundTx

\* What an answered handler leaves for RowInv, AuditInv and AckInv to be shown.
LEMMA AnswerMove ==
    ASSUME PentestInv, NEW w \in Workers, Succeed(w), Fault \/ NoFault,
           call[w].at \in {"block", "claimAudit", "writeAudit"},
           row' \in [Runs -> RowType \cup {None}], Marked, audits' \in [Runs -> Nat],
           \A q \in Runs : row[q] # None => /\ row'[q].refunded = row[q].refunded
                                            /\ row'[q].audited = row[q].audited,
           call[w].event = "cancelled" /\ row[call[w].run] # None => row'[call[w].run].blocked,
           UNCHANGED <<ledgerVars, providerVars, stranded>>,
           call[w].at = "writeAudit" \/ audits' = audits,
           \A q \in Runs : audits'[q] # audits[q] => q = call[w].run /\ audits'[q] = audits[q] + 1
    PROVE  PentestInv'
<1>a. /\ TypeOK /\ EnvInv /\ EventInv /\ RowInv /\ AuditInv /\ AckInv /\ w \in Calls
  BY DEF PentestInv, Inv1, Inv2, Inv3, Calls
<1>b. /\ call' \in [Calls -> CallType] /\ Others(w)
      /\ call'[w].at = "idle" /\ call'[w].run = None
      /\ acked' \in [Runs -> SUBSET EventTypes]
      /\ \A r \in Runs, e \in EventTypes : e \in acked'[r] =>
           e \in acked[r] \/ (w \in Workers /\ r = call[w].run /\ e = call[w].event)
  BY <1>a, SucceedIs
<1>c. LedgerTypeOK' /\ faults' \in 0..env.faults /\ env' = env
  BY <1>a, FaultType DEF TypeOK, LedgerTypeOK, ledgerVars
<1>d. /\ call[w].run \in Runs /\ call[w].event \in events[call[w].run]
      /\ call[w].at = "block" => call[w].event = "cancelled"
      /\ call[w].at # "block" => call[w].event = "completed"
  BY <1>a DEF EventInv
<1>1. /\ Inv1' /\ HeldInv' /\ StatusInv' /\ KeyInv' /\ AttemptInv'
      /\ ChildInv' /\ ChargesAccounted' /\ Owned' = Owned
      /\ \A q \in Calls : call'[q].at # "idle" => call[q].at # "idle" /\ call'[q].run = call[q].run
      /\ \A q \in Calls : Retries(q)' => Retries(q) /\ q # w
  BY <1>b, <1>c, MarkMove DEF ledgerVars
<1>2. /\ \A q \in Calls \ {w} : call'[q] = call[q]
      /\ \A v \in Workers : call'[v].at # "idle" => v # w /\ call'[v] = call[v]
      /\ \A q \in Owned : q \in Runs /\ row[q] # None
      /\ \A q \in Runs : row[q] # None => row'[q] # None
  BY <1>b DEF Others, Calls, Owned, Marked
<1>3. RowInv'
  <2>1. \A o \in Owned : /\ row'[o].source = row[o].source /\ row'[o].parent = row[o].parent
                         /\ row'[o].refunded = row[o].refunded
    BY <1>2 DEF Marked
  <2>2. QED
    BY <1>a, <1>1, <2>1 DEF RowInv, ledgerVars, providerVars
<1>4. AuditInv'
  <2>1. call[w].at = "writeAudit" => /\ audits[call[w].run] = 0 /\ row[call[w].run] # None
                                     /\ row[call[w].run].audited
    BY <1>a DEF AuditInv
  <2>2. \A q \in Runs : /\ audits'[q] <= 1
                        /\ audits'[q] > 0 => row'[q] # None /\ row'[q].audited
    <3> SUFFICES ASSUME NEW q \in Runs
                 PROVE  audits'[q] <= 1 /\ (audits'[q] > 0 => row'[q] # None /\ row'[q].audited)
      OBVIOUS
    <3>1. CASE audits'[q] = audits[q]
      BY <1>a, <1>2, <3>1 DEF AuditInv
    <3>2. CASE audits'[q] # audits[q]
      BY <1>2, <2>1, <3>2
    <3>3. QED
      BY <3>1, <3>2
  <2>3. ASSUME NEW v \in Workers, call'[v].at = "writeAudit"
        PROVE  /\ row'[call'[v].run] # None /\ row'[call'[v].run].audited
               /\ audits'[call'[v].run] = 0
    <3>1. v # w /\ call'[v] = call[v] /\ call[v].run \in Runs
      BY <1>a, <1>2, <2>3 DEF EventInv
    <3>2. row[call[v].run] # None /\ row[call[v].run].audited /\ audits[call[v].run] = 0
      BY <1>a, <2>3, <3>1 DEF AuditInv
    <3>3. audits'[call[v].run] = audits[call[v].run]
      BY <1>a, <2>3, <3>1 DEF AuditInv
    <3>4. QED
      BY <1>2, <3>1, <3>2, <3>3
  <2>4. \A v, x \in Workers : call'[v].at = "writeAudit" /\ call'[x].at = "writeAudit" /\ v # x =>
          call'[v].run # call'[x].run
    BY <1>a, <1>2 DEF AuditInv
  <2>5. QED
    BY <2>2, <2>3, <2>4 DEF AuditInv
<1>5. AckInv'
  <2> SUFFICES ASSUME ~env.early PROVE AckInv'
    BY <1>c DEF AckInv
  <2>1. \A v \in Workers : call'[v].at # "idle" => /\ call'[v] = call[v]
                                                   /\ call[v].run \in Runs /\ row[call[v].run] # None
    BY <1>a, <1>2 DEF AckInv, EventInv
  <2>2. \A v \in Workers : Retries(v)' \/ call'[v].at \in {"checkBlock", "block"} =>
          row'[call'[v].run].refunded
    <3> SUFFICES ASSUME NEW v \in Workers, Retries(v)' \/ call'[v].at \in {"checkBlock", "block"}
                 PROVE  row'[call'[v].run].refunded
      OBVIOUS
    <3>1. call'[v].at # "idle"
      BY DEF Retries, Creating
    <3>2. call'[v] = call[v] /\ call[v].run \in Runs /\ row[call[v].run].refunded
      BY <1>a, <2>1, <3>1 DEF AckInv, Retries
    <3>3. QED
      BY <2>1, <3>1, <3>2
  <2>3. row[call[w].run] # None
    BY <1>a DEF AckInv
  <2>4. \A q \in Runs : "failed" \in acked'[q] \/ "cancelled" \in acked'[q] =>
          row[q] # None /\ row[q].refunded
    BY <1>a, <1>b, <1>d, <2>3 DEF AckInv, EventTypes
  <2>5. \A q \in Runs : "cancelled" \in acked'[q] => row'[q] # None /\ row'[q].blocked
    <3> SUFFICES ASSUME NEW q \in Runs, "cancelled" \in acked'[q]
                 PROVE  row'[q] # None /\ row'[q].blocked
      OBVIOUS
    <3>1. CASE "cancelled" \in acked[q]
      BY <1>a, <1>2, <3>1 DEF AckInv, Marked
    <3>2. CASE q = call[w].run /\ call[w].event = "cancelled"
      BY <1>2, <2>3, <3>2
    <3>3. QED
      BY <1>b, <3>1, <3>2 DEF EventTypes
  <2>6. QED
    BY <1>2, <2>1, <2>2, <2>4, <2>5 DEF AckInv
<1>6. QED
  BY <1>1, <1>3, <1>4, <1>5 DEF PentestInv, Inv2, Inv3

LEMMA BlockStep == ASSUME PentestInv, NEW w \in Workers, BlockLineage(w) PROVE PentestInv'
<1> DEFINE r == call[w].run
           L == Lineage(RootOf(r))
<1>a. /\ TypeOK /\ EventInv /\ call[w].at = "block" /\ UNCHANGED <<ledgerVars, providerVars, audits, stranded>>
  BY DEF PentestInv, Inv1, BlockLineage
<1>1. CASE Fault /\ Fail(w) /\ UNCHANGED row
  BY <1>a, <1>1, FailMove
<1>2. CASE /\ row' = [q \in Runs |-> IF q \in L THEN [row[q] EXCEPT !.blocked = TRUE] ELSE row[q]]
           /\ Succeed(w) /\ NoFault
  <2>1. r \in Runs /\ L \subseteq Owned
    BY <1>a DEF EventInv, Lineage
  <2>2. row[r] # None => r \in L
    BY <2>1 DEF Lineage, RootOf, Owned
  <2> HIDE DEF L, r
  <2>3. \A q \in L : /\ q \in Runs /\ row[q] # None /\ row'[q] \in RowType
                     /\ row'[q].source = row[q].source /\ row'[q].root = row[q].root
                     /\ row'[q].attempt = row[q].attempt /\ row'[q].parent = row[q].parent
                     /\ row'[q].refunded = row[q].refunded /\ row'[q].audited = row[q].audited
                     /\ row'[q].blocked = TRUE
    <3> SUFFICES ASSUME NEW q \in L
                 PROVE  /\ q \in Runs /\ row[q] # None /\ row'[q] \in RowType
                        /\ row'[q].source = row[q].source /\ row'[q].root = row[q].root
                        /\ row'[q].attempt = row[q].attempt /\ row'[q].parent = row[q].parent
                        /\ row'[q].refunded = row[q].refunded /\ row'[q].audited = row[q].audited
                        /\ row'[q].blocked = TRUE
      OBVIOUS
    <3> DEFINE c == row[q]
               d == [c EXCEPT !.blocked = TRUE]
    <3>1. q \in Runs /\ c \in RowType /\ row[q] # None
      BY <1>a, <2>1, RowsTyped DEF Owned
    <3>2. row'[q] = d
      BY <1>2, <3>1
    <3> HIDE DEF c
    <3>3. /\ d \in RowType /\ d.source = c.source /\ d.root = c.root /\ d.attempt = c.attempt
          /\ d.parent = c.parent /\ d.refunded = c.refunded /\ d.audited = c.audited
          /\ d.blocked = TRUE
      BY <3>1 DEF RowType
    <3>4. QED
      BY <3>1, <3>2, <3>3 DEF c
  <2>4. \A q \in Runs \ L : row'[q] = row[q]
    BY <1>2
  <2>5. row' \in [Runs -> RowType \cup {None}]
    <3>1. \A q \in Runs : row'[q] \in RowType \cup {None}
      BY <1>a, <2>3, <2>4 DEF TypeOK
    <3>2. QED
      BY <1>2, <3>1
  <2>6. Marked
    BY <2>3, <2>4, RowAssumption DEF Marked
  <2>7. audits' \in [Runs -> Nat]
    BY <1>a DEF TypeOK
  <2>8. \A q \in Runs : row[q] # None => /\ row'[q].refunded = row[q].refunded
                                         /\ row'[q].audited = row[q].audited
    BY <2>3, <2>4
  <2>9. row[r] # None => row'[r].blocked
    BY <2>2, <2>3
  <2>10. QED
    BY <1>a, <1>2, <2>5, <2>6, <2>7, <2>8, <2>9, AnswerMove DEF r
<1>3. QED
  BY <1>1, <1>2 DEF BlockLineage

LEMMA NoMark ==
    ASSUME TypeOK, UNCHANGED row
    PROVE  row' \in [Runs -> RowType \cup {None}] /\ Marked
BY DEF TypeOK, Marked

LEMMA ClaimAuditStep == ASSUME PentestInv, NEW w \in Workers, ClaimAudit(w) PROVE PentestInv'
<1> DEFINE r == call[w].run
<1>a. /\ TypeOK /\ EnvInv /\ EventInv /\ RowInv /\ AuditInv /\ AckInv /\ w \in Calls
      /\ call[w].at = "claimAudit" /\ UNCHANGED <<ledgerVars, providerVars, audits, stranded>>
  BY DEF PentestInv, Inv1, Inv2, Inv3, Calls, ClaimAudit
<1>b. r \in Runs /\ call[w].event = "completed"
  BY <1>a DEF EventInv
<1>1. CASE Fault /\ Fail(w) /\ UNCHANGED row
  BY <1>a, <1>1, FailMove
<1>2. CASE Succeed(w) /\ NoFault /\ UNCHANGED row
  <2>1. audits' \in [Runs -> Nat]
    BY <1>a DEF TypeOK
  <2>2. QED
    BY <1>a, <1>b, <1>2, <2>1, NoMark, AnswerMove
<1>3. CASE /\ AuditClaimable(r) /\ row' = [row EXCEPT ![r].audited = TRUE]
           /\ Goto(w, "writeAudit") /\ NoFault /\ UNCHANGED acked
  <2>1. /\ call' \in [Calls -> CallType] /\ Same(w) /\ Others(w) /\ call'[w].at = "writeAudit"
    BY <1>a, <1>3, GotoIs DEF Steps
  <2>2. /\ faults' \in 0..env.faults /\ env' = env /\ acked' \in [Runs -> SUBSET EventTypes]
        /\ audits' \in [Runs -> Nat] /\ LedgerTypeOK'
    BY <1>a, <1>3 DEF TypeOK, NoFault, LedgerTypeOK, ledgerVars
  <2>3. r \in Owned /\ row[r] # None /\ ~row[r].audited
    BY <1>b, <1>3 DEF AuditClaimable, Owned
  <2>4. /\ row' \in [Runs -> RowType \cup {None}] /\ Marked
        /\ \A q \in Runs \ {r} : row'[q] = row[q]
        /\ row'[r].blocked = row[r].blocked
        /\ row'[r].audited /\ row'[r].refunded = row[r].refunded
    BY <1>a, <1>3, <2>3, MarkIs
  <2>5. /\ Inv1' /\ HeldInv' /\ StatusInv' /\ KeyInv' /\ AttemptInv'
        /\ ChildInv' /\ ChargesAccounted' /\ Owned' = Owned
        /\ \A q \in Calls : call'[q].at # "idle" => call[q].at # "idle" /\ call'[q].run = call[q].run
        /\ \A q \in Calls : Retries(q)' => Retries(q) /\ q # w
    BY <1>a, <1>b, <2>1, <2>2, <2>4, MarkMove DEF Same, ledgerVars
  <2>6. /\ \A q \in Calls \ {w} : call'[q] = call[q]
        /\ Workers \subseteq Calls
        /\ \A q \in Owned : q \in Runs /\ row[q] # None
        /\ \A q \in Runs : row[q] # None => row'[q] # None /\ row'[q].refunded = row[q].refunded
                                            /\ row'[q].blocked = row[q].blocked
    BY <2>1, <2>4 DEF Others, Calls, Owned, Marked
  <2> HIDE DEF r
  <2>7. RowInv'
    <3>1. \A o \in Owned : /\ row'[o].source = row[o].source /\ row'[o].parent = row[o].parent
                           /\ row'[o].refunded = row[o].refunded
      BY <2>4, <2>6 DEF Marked
    <3>2. QED
      BY <1>a, <2>5, <3>1 DEF RowInv, ledgerVars, providerVars
  \* The claim is the first: nobody has written the entry or is about to.
  <2>8. AuditInv'
    <3>1. audits[r] = 0 /\ \A v \in Workers : call[v].at = "writeAudit" => call[v].run # r
      BY <1>a, <1>b, <2>3 DEF AuditInv, TypeOK, r
    <3>2. \A q \in Runs : audits[q] <= 1 /\ (audits[q] > 0 => row'[q] # None /\ row'[q].audited)
      BY <1>a, <1>b, <2>4, <2>6 DEF AuditInv
    <3>3. ASSUME NEW v \in Workers, call'[v].at = "writeAudit"
          PROVE  row'[call'[v].run] # None /\ row'[call'[v].run].audited /\ audits[call'[v].run] = 0
      <4>1. CASE v = w
        BY <1>b, <2>1, <2>3, <2>4, <2>6, <3>1, <4>1 DEF Same, r
      <4>2. CASE v # w
        <5>1. call'[v] = call[v] /\ call[v].run \in Runs
          BY <1>a, <2>6, <3>3, <4>2 DEF EventInv
        <5>2. QED
          BY <1>a, <2>4, <2>6, <3>3, <5>1 DEF AuditInv
      <4>3. QED
        BY <4>1, <4>2
    <3>4. ASSUME NEW v \in Workers, NEW x \in Workers, v # x,
                 call'[v].at = "writeAudit", call'[x].at = "writeAudit"
          PROVE  call'[v].run # call'[x].run
      <4>1. CASE v = w
        BY <2>1, <2>6, <3>1, <3>4, <4>1 DEF Same, r
      <4>2. CASE x = w
        BY <2>1, <2>6, <3>1, <3>4, <4>2 DEF Same, r
      <4>3. CASE v # w /\ x # w
        BY <1>a, <2>6, <3>4, <4>3 DEF AuditInv
      <4>4. QED
        BY <4>1, <4>2, <4>3
    <3>5. QED
      BY <1>a, <3>2, <3>3, <3>4 DEF AuditInv
  <2>9. AckInv'
    <3> SUFFICES ASSUME ~env.early PROVE AckInv'
      BY <2>2 DEF AckInv
    <3>1. \A v \in Workers : call'[v].at # "idle" => row'[call'[v].run] # None
      BY <1>a, <2>5, <2>6 DEF AckInv, EventInv
    <3>2. ASSUME NEW v \in Workers, Retries(v)' \/ call'[v].at \in {"checkBlock", "block"}
          PROVE  row'[call'[v].run].refunded
      <4>1. v # w
        BY <2>1, <3>2 DEF Retries, Creating
      <4>2. call'[v] = call[v] /\ call[v].at # "idle"
        BY <2>6, <3>2, <4>1 DEF Retries, Creating
      <4>3. /\ call[v].run \in Runs /\ row[call[v].run] # None
            /\ row[call[v].run].refunded
        BY <1>a, <3>2, <4>2 DEF AckInv, EventInv, Retries
      <4>4. QED
        BY <2>6, <4>2, <4>3
    <3>3. QED
      BY <1>a, <1>3, <2>6, <3>1, <3>2 DEF AckInv
  <2>10. QED
    BY <2>5, <2>7, <2>8, <2>9 DEF PentestInv, Inv2, Inv3
<1>4. QED
  BY <1>1, <1>2, <1>3 DEF ClaimAudit

LEMMA WriteAuditStep == ASSUME PentestInv, NEW w \in Workers, WriteAudit(w) PROVE PentestInv'
<1>a. /\ TypeOK /\ EventInv /\ call[w].at = "writeAudit" /\ Succeed(w)
      /\ Fault \/ NoFault
      /\ UNCHANGED <<ledgerVars, providerVars, row, stranded>>
  BY DEF PentestInv, Inv1, WriteAudit
<1>b. call[w].run \in Runs /\ call[w].event = "completed"
  BY <1>a DEF EventInv
<1>1. /\ audits' \in [Runs -> Nat]
      /\ \A q \in Runs : audits'[q] # audits[q] => q = call[w].run /\ audits'[q] = audits[q] + 1
  BY <1>a, <1>b DEF WriteAudit, TypeOK
<1>2. QED
  BY <1>a, <1>b, <1>1, NoMark, AnswerMove

-----------------------------------------------------------------------------
(* The invariant *)

LEMMA SamePentest == ASSUME PentestInv, UNCHANGED vars PROVE PentestInv'
<1> USE DEF PentestInv, Inv1, Inv2, Inv3, vars, ledgerVars, providerVars, faultVars
<1>1. Owned' = Owned /\ \A q \in Runs : Children(q)' = Children(q)
  BY DEF Owned, Children
<1>2. TypeOK' /\ EnvInv' /\ EventInv' /\ CallInv'
  BY DEF TypeOK, LedgerTypeOK, EnvInv, EventInv, CallInv, Retries
<1>3. HeldInv' /\ StatusInv' /\ KeyInv'
  BY <1>1 DEF HeldInv, StatusInv, KeyInv, FailedOrCancelled, Holds
<1>4. RowInv' /\ AttemptInv' /\ AuditInv' /\ AckInv'
  BY <1>1 DEF RowInv, AttemptInv, AuditInv, AckInv, Retries
<1>5. ChildInv' /\ ChargesAccounted'
  <2>1. ChildInv'
    BY DEF ChildInv, Children, Owned
  <2>2. ChargesAccounted'
    BY <1>1 DEF ChargesAccounted, Orderly, InFlight
  <2>3. QED
    BY <2>1, <2>2
<1>6. QED
  BY <1>2, <1>3, <1>4, <1>5

LEMMA PentestStep == PentestInv /\ [Next]_vars => PentestInv'
<1> SUFFICES ASSUME PentestInv, [Next]_vars PROVE PentestInv'
  OBVIOUS
<1>1. ASSUME NEW g \in Grants, TopUp(g) PROVE PentestInv'
  BY <1>1, TopUpStep
<1>2. ASSUME NEW u \in Users, StartCreate(u) PROVE PentestInv'
  BY <1>2, StartCreateStep
<1>3. ASSUME NEW p \in Calls, Create(p) \/ Die(p) PROVE PentestInv'
  BY <1>3, ReserveStep, CreateStep, PersistStep, GiveBackStep, DieStep DEF Create
<1>4. ASSUME NEW w \in Workers, Handle(w) PROVE PentestInv'
  BY <1>4, RefundStep, CheckBlockStep, CheckChildStep, BlockStep, ClaimAuditStep, WriteAuditStep
  DEF Handle
<1>5. ASSUME NEW r \in Runs, NEW e \in EventTypes, Report(r, e) PROVE PentestInv'
  BY <1>5, ReportStep
<1>6. ASSUME NEW w \in Workers, NEW r \in Runs, NEW e \in EventTypes, Deliver(w, r, e)
      PROVE  PentestInv'
  BY <1>6, DeliverStep
<1>7. CASE UNCHANGED vars
  BY <1>7, SamePentest
<1>8. QED
  BY <1>1, <1>2, <1>3, <1>4, <1>5, <1>6, <1>7 DEF Next

\* PentestInv is inductive.
THEOREM PentestInvariance == Spec => []PentestInv
<1>1. QED
  BY InitPentest, PentestStep, PTL DEF Spec

\* Every variable keeps its type; no pot is overdrawn.
THEOREM PentestTypes == Spec => []TypeOK
<1>1. PentestInv => TypeOK
  BY DEF PentestInv, Inv1
<1>2. QED
  BY <1>1, PentestInvariance, PTL

\* A run the customer sees is backed by a charge of its own, kept while it runs
\* and when it completes.
THEOREM NoScanIsFree == Spec => []NoFreeScan
<1>1. PentestInv => NoFreeScan
  BY DEF PentestInv, Inv2, RowInv, NoFreeScan
<1>2. QED
  BY <1>1, PentestInvariance, PTL

\* The row's refund marker and the wallet agree.
THEOREM RefundMarksAreTrue == Spec => []RefundMarkTrue
<1>1. PentestInv => RefundMarkTrue
  BY DEF PentestInv, Inv2, RowInv, RefundMarkTrue
<1>2. QED
  BY <1>1, PentestInvariance, PTL

\* A completed scan is entered in the audit log at most once.
THEOREM AuditsAreSingle == Spec => []AuditedOnce
<1>1. PentestInv => AuditedOnce
  BY DEF PentestInv, Inv3, AuditInv, AuditedOnce
<1>2. QED
  BY <1>1, PentestInvariance, PTL

\* The attempts of a lineage form a chain: a run is retried at most once, since
\* a run with a row was launched under its parent's key.
THEOREM LineagesAreChains == Spec => []LineageIsChain
<1>1. ASSUME PentestInv PROVE LineageIsChain
  <2>1. KeyInv /\ RowInv /\ AttemptInv
    BY <1>1 DEF PentestInv, Inv2
  <2>2. ASSUME NEW r \in Owned, row[r].parent # None PROVE Children(row[r].parent) = {r}
    <3>1. r \in Children(row[r].parent)
      BY DEF Children
    <3>2. ASSUME NEW q \in Children(row[r].parent) PROVE q = r
      <4>1. q \in Owned /\ row[q].parent = row[r].parent
        BY DEF Children
      <4>2. keyParent[q] = keyParent[r] /\ keyParent[r] # None
        BY <2>1, <2>2, <4>1 DEF RowInv
      <4>3. QED
        BY <2>1, <4>1, <4>2 DEF KeyInv, Owned
    <3>3. QED
      BY <3>1, <3>2
  <2>3. QED
    BY <2>1, <2>2 DEF AttemptInv, LineageIsChain
<1>2. QED
  BY <1>1, PentestInvariance, PTL

\* With orderly deliveries no charge is forgotten.
THEOREM NoChargeIsForgotten == Spec => []ChargesAccounted
<1>1. PentestInv => ChargesAccounted
  BY DEF PentestInv, Inv3
<1>2. QED
  BY <1>1, PentestInvariance, PTL

\* With orderly deliveries an acknowledged failure or cancellation is refunded.
THEOREM AcknowledgedIsRefunded == Spec => []AckedIsRefunded
<1>1. PentestInv => AckedIsRefunded
  BY DEF PentestInv, Inv3, AckInv, AckedIsRefunded, Orderly, Owned
<1>2. QED
  BY <1>1, PentestInvariance, PTL

-----------------------------------------------------------------------------
(* Cancellations are final *)

\* No step takes a row away or moves it to another lineage.
LEMMA RootsKept ==
    ASSUME PentestInv, [Next]_vars
    PROVE  \A q \in Owned : row'[q] # None /\ row'[q].root = row[q].root
<1> DEFINE Kept == \A q \in Owned : row'[q] # None /\ row'[q].root = row[q].root
<1>a. TypeOK /\ EventInv /\ CallInv /\ Owned \subseteq Runs
  BY DEF PentestInv, Inv1, Owned
<1>b. \A q \in Owned : row[q] # None
  BY DEF Owned
<1>c. row' = row => Kept
  BY <1>b
<1>1. ASSUME NEW p \in Calls, Persist(p) PROVE Kept
  <2>1. CASE row' = [row EXCEPT ![call[p].created] = Stored(p, @)]
    BY <1>a, <1>b, <2>1 DEF Stored, TypeOK
  <2>2. QED
    BY <1>1, <1>c, <2>1 DEF Persist
<1>2. ASSUME NEW w \in Workers, RefundTx(w) PROVE Kept
  <2>1. CASE /\ RefundClaimable(call[w].run)
             /\ row' = [row EXCEPT ![call[w].run].refunded = TRUE]
    <3>1. call[w].run \in Owned
      BY <1>a, <1>2, <2>1 DEF RefundTx, RefundClaimable, EventInv, Owned
    <3>2. Marked
      BY <1>a, <2>1, <3>1, MarkIs
    <3>3. QED
      BY <1>a, <1>b, <3>2 DEF Marked
  <2>2. QED
    BY <1>2, <1>c, <2>1 DEF RefundTx
<1>3. ASSUME NEW w \in Workers, BlockLineage(w) PROVE Kept
  <2>1. CASE row' = [q \in Runs |->
                        IF q \in Lineage(RootOf(call[w].run))
                        THEN [row[q] EXCEPT !.blocked = TRUE] ELSE row[q]]
    <3> SUFFICES ASSUME NEW q \in Owned PROVE row'[q] # None /\ row'[q].root = row[q].root
      OBVIOUS
    <3> DEFINE c == row[q]
               d == [c EXCEPT !.blocked = TRUE]
    <3>1. c \in RowType /\ row'[q] \in {c, d}
      BY <1>a, <2>1, RowsTyped
    <3> HIDE DEF c
    <3>2. d \in RowType /\ d.root = c.root
      BY <3>1 DEF RowType
    <3>3. QED
      BY <3>1, <3>2, RowAssumption DEF c
  <2>2. QED
    BY <1>3, <1>c, <2>1 DEF BlockLineage
<1>4. ASSUME NEW w \in Workers, ClaimAudit(w) PROVE Kept
  <2>1. CASE /\ AuditClaimable(call[w].run)
             /\ row' = [row EXCEPT ![call[w].run].audited = TRUE]
    <3>1. call[w].run \in Owned
      BY <1>a, <1>4, <2>1 DEF ClaimAudit, AuditClaimable, EventInv, Owned
    <3>2. Marked
      BY <1>a, <2>1, <3>1, MarkIs
    <3>3. QED
      BY <1>a, <1>b, <3>2 DEF Marked
  <2>2. QED
    BY <1>4, <1>c, <2>1 DEF ClaimAudit
<1>5. ASSUME NEW p \in Calls, Reserve(p) \/ CreateAtProvider(p) \/ GiveBack(p) \/ Die(p) PROVE Kept
  BY <1>5, <1>c DEF Reserve, CreateAtProvider, GiveBack, Die
<1>6. ASSUME NEW w \in Workers, CheckBlock(w) \/ CheckChild(w) \/ WriteAudit(w) PROVE Kept
  BY <1>6, <1>c DEF CheckBlock, CheckChild, WriteAudit
<1>7. ASSUME NEW u \in Users, StartCreate(u) PROVE Kept
  BY <1>7, <1>c DEF StartCreate
<1>8. ASSUME NEW g \in Grants, TopUp(g) PROVE Kept
  BY <1>8, <1>c DEF TopUp
<1>9. ASSUME NEW r \in Runs, NEW e \in EventTypes, Report(r, e) PROVE Kept
  BY <1>9, <1>c DEF Report
<1>10. ASSUME NEW w \in Workers, NEW r \in Runs, NEW e \in EventTypes, Deliver(w, r, e) PROVE Kept
  BY <1>10, <1>c DEF Deliver
<1>11. ASSUME UNCHANGED vars PROVE Kept
  BY <1>11, <1>c DEF vars
<1> HIDE DEF Kept
<1>12. ASSUME NEW p \in Calls, Create(p) PROVE Kept
  BY <1>1, <1>5, <1>12 DEF Create
<1>13. ASSUME NEW w \in Workers, Handle(w) PROVE Kept
  BY <1>2, <1>3, <1>4, <1>6, <1>13 DEF Handle
<1>14. ASSUME Next PROVE Kept
  BY <1>5, <1>7, <1>8, <1>9, <1>10, <1>12, <1>13, <1>14 DEF Next
<1>15. Kept
  BY <1>11, <1>14
<1>16. QED
  BY <1>15 DEF Kept

\* A worker retries a run because it did before, or by passing the block check.
LEMMA RetryBegins ==
    ASSUME PentestInv, [Next]_vars, NEW w \in Workers, Retries(w)'
    PROVE  /\ call'[w].run = call[w].run
           /\ Retries(w) \/ RetryAllowed(call[w].run)
<1> DEFINE Fine == /\ call'[w].run = call[w].run
                   /\ Retries(w) \/ RetryAllowed(call[w].run)
<1>a. /\ TypeOK /\ w \in Calls /\ w \notin Users /\ Workers \subseteq Calls /\ Users \subseteq Calls
      /\ call'[w].at \in Creating \cup {"checkChild"}
      /\ call'[w].at \notin {"idle", "checkBlock", "block", "writeAudit", "claimAudit", "refund"}
  BY PentestAssumption DEF PentestInv, Inv1, Calls, Retries, Creating
<1>b. call' = call => Fine
  BY <1>a DEF Retries
\* A step of another call.
<1>c. ASSUME NEW p \in Calls, Others(p), p # w PROVE Fine
  BY <1>a, <1>c DEF Others, Retries
\* A step that starts where w already retries.
<1>d. ASSUME NEW p \in Calls, call[p].at \in Creating \cup {"checkChild"}, call'[p].run = call[p].run,
             Others(p)
      PROVE  Fine
  BY <1>a, <1>c, <1>d DEF Retries
<1>e. ASSUME NEW p \in Calls, Leave(p) PROVE Fine
  <2>1. call'[p].at = "idle" /\ Others(p)
    BY <1>a, <1>e, LeaveIs
  <2>2. QED
    BY <1>a, <1>c, <2>1
<1>f. ASSUME NEW p \in Calls, NEW step \in Steps, Goto(p, step),
             p = w /\ Retries(w)' => Retries(w) \/ RetryAllowed(call[w].run)
      PROVE  Fine
  <2>1. call'[p].run = call[p].run /\ Others(p)
    BY <1>a, <1>f, GotoIs DEF Same
  <2>2. QED
    BY <1>c, <1>f, <2>1
<1>1. ASSUME NEW p \in Calls, Create(p) PROVE Fine
  <2>1. call[p].at \in Creating
    BY <1>1 DEF Create, Reserve, CreateAtProvider, Persist, GiveBack, Creating
  <2>2. CASE Leave(p)
    BY <1>e, <2>2
  <2>3. CASE Goto(p, "giveBack")
    BY <1>f, <2>1, <2>3 DEF Steps, Creating, Retries
  <2>4. ASSUME NEW s \in Sources, call' = [call EXCEPT ![p].at = "create", ![p].source = s] PROVE Fine
    BY <1>a, <1>d, <2>1, <2>4, SourceIs DEF Steps, Creating
  <2>5. ASSUME NEW r \in Runs, call' = [call EXCEPT ![p].at = "persist", ![p].created = r] PROVE Fine
    BY <1>a, <1>d, <2>1, <2>5, CreatedIs DEF Steps, Creating
  <2>6. QED
    BY <1>1, <2>2, <2>3, <2>4, <2>5
    DEF Create, Reserve, CreateAtProvider, Persist, GiveBack, Fail, Succeed, NewSource
<1>2. ASSUME NEW p \in Calls, Die(p) PROVE Fine
  BY <1>2, <1>e DEF Die, Fail
<1>3. ASSUME NEW v \in Workers, Handle(v) PROVE Fine
  <2>1. CASE Leave(v)
    BY <1>a, <1>e, <2>1
  <2>2. CASE Goto(v, IF call[v].event = "failed" THEN "checkBlock" ELSE "block")
    <3> DEFINE step == IF call[v].event = "failed" THEN "checkBlock" ELSE "block"
    <3>1. step \in Steps /\ call'[v].at \in {"checkBlock", "block"} /\ Others(v)
      BY <1>a, <2>2, GotoIs DEF Steps
    <3>2. QED
      BY <1>a, <1>c, <3>1
  <2>3. CASE Goto(v, "writeAudit")
    <3>1. call'[v].at = "writeAudit" /\ Others(v)
      BY <1>a, <2>3, GotoIs DEF Steps
    <3>2. QED
      BY <1>a, <1>c, <3>1
  <2>4. CASE RetryAllowed(call[v].run) /\ Goto(v, "checkChild")
    BY <1>a, <1>f, <2>4 DEF Steps
  <2>5. CASE call[v].at = "checkChild" /\ Goto(v, "reserve")
    BY <1>a, <1>f, <2>5 DEF Steps, Creating, Retries
  <2>6. QED
    BY <1>3, <2>1, <2>2, <2>3, <2>4, <2>5
    DEF Handle, RefundTx, CheckBlock, CheckChild, BlockLineage, ClaimAudit, WriteAudit, Succeed, Fail
<1>4. ASSUME NEW u \in Users, StartCreate(u) PROVE Fine
  <2>1. Others(u) /\ u # w /\ u \in Calls
    BY <1>a, <1>4, GotoIs DEF StartCreate, Steps, Creating
  <2>2. QED
    BY <1>c, <2>1
<1>5. ASSUME NEW v \in Workers, NEW r \in Runs, NEW e \in EventTypes, Deliver(v, r, e) PROVE Fine
  <2>1. call'[v].at \in {"refund", "claimAudit"} /\ Others(v)
    <3>1. FirstStep(e) \in Steps /\ FirstStep(e) \in {"refund", "claimAudit"}
      BY DEF FirstStep, Steps
    <3>2. QED
      BY <1>a, <1>5, <3>1, EventIs DEF Deliver
  <2>2. QED
    BY <1>a, <1>c, <2>1
<1>6. ASSUME NEW g \in Grants, TopUp(g) PROVE Fine
  BY <1>6, <1>b DEF TopUp
<1>7. ASSUME NEW r \in Runs, NEW e \in EventTypes, Report(r, e) PROVE Fine
  BY <1>7, <1>b DEF Report
<1>8. ASSUME UNCHANGED vars PROVE Fine
  BY <1>8, <1>b DEF vars
<1> HIDE DEF Fine
<1>9. ASSUME Next PROVE Fine
  BY <1>1, <1>2, <1>3, <1>4, <1>5, <1>6, <1>7, <1>9 DEF Next
<1>10. Fine
  BY <1>8, <1>9
<1>11. QED
  BY <1>10 DEF Fine

\* With orderly deliveries no handler gets past the block check of a lineage once
\* a cancellation of one of its runs was acknowledged: that run carries the mark.
THEOREM CancellationsAreFinal == Spec => CancelIsFinal
<1>1. ASSUME PentestInv, [Next]_vars, Orderly, NEW r \in Owned, "cancelled" \in acked[r],
             NEW w \in Retrying(RootOf(r))'
      PROVE  w \in Retrying(RootOf(r))
  <2>1. w \in Workers /\ Retries(w)'
    BY <1>1 DEF Retrying, Retries
  <2>2. RootOf(call[w].run)' = RootOf(r)'
    BY <1>1 DEF Retrying
  <2>3. call'[w].run = call[w].run /\ (Retries(w) \/ RetryAllowed(call[w].run))
    BY <1>1, <2>1, RetryBegins
  <2>4. row[call[w].run] # None /\ call[w].run \in Runs
    <3>1. row[call[w].run] # None
      BY <1>1, <2>1, <2>3 DEF PentestInv, Inv1, CallInv, RetryAllowed
    <3>2. call'[w].run \in Runs
      <4>1. EventInv'
        BY <1>1, PentestStep DEF PentestInv, Inv1
      <4>2. QED
        BY <2>1, <4>1 DEF EventInv, Retries, Creating
    <3>3. QED
      BY <2>3, <3>1, <3>2
  <2>5. call[w].run \in Owned
    BY <2>4 DEF Owned
  <2>6. RootOf(call[w].run) = row[call[w].run].root /\ RootOf(r) = row[r].root
    BY <2>4 DEF RootOf, Owned
  <2>7. row[call[w].run].root = row[r].root
    BY <1>1, <2>2, <2>3, <2>5, RootsKept DEF RootOf
  <2>8. CASE Retries(w)
    BY <2>1, <2>6, <2>7, <2>8 DEF Retrying, Retries
  <2>9. CASE RetryAllowed(call[w].run)
    <3>1. row[r].blocked
      BY <1>1 DEF PentestInv, Inv3, AckInv, Orderly, Owned
    <3>2. r \in Lineage(row[call[w].run].root)
      BY <1>1, <2>7 DEF Lineage
    <3>3. QED
      BY <2>9, <3>1, <3>2 DEF RetryAllowed, LineageBlocked
  <2>10. QED
    BY <2>3, <2>8, <2>9
<1>2. PentestInv /\ [Next]_vars =>
        [Orderly => \A r \in Owned : "cancelled" \in acked[r] =>
           Retrying(RootOf(r))' \subseteq Retrying(RootOf(r))]_vars
  BY <1>1
<1>3. QED
  BY <1>2, PentestInvariance, PTL DEF Spec, CancelIsFinal
=============================================================================
