--------------------------- MODULE Timelines_proofs ---------------------------
(***************************************************************************)
(* A timeline keeps its types, is never stuck, agrees with its phases and  *)
(* is left settled by the reconciliation, for any phases, requests, hooks, *)
(* scores and passes.  The inductive invariant is TimelineInv: the orders  *)
(* of the phases are distinct, and without races a request or a hook is    *)
(* alone (LoneInv), so that what it read still holds when it writes        *)
(* (ReadInv).  That the passes suffice is PassInv: each pass takes a phase *)
(* out of those that can still change (Open), and none comes back.         *)
(***************************************************************************)
EXTENDS Timelines, WellFoundedInduction, FiniteSetTheorems, TLAPS

USE DEF worldVars

-----------------------------------------------------------------------------
(* The inductive invariant *)

Statuses == {"DRAFT", "ACTIVE", "PAUSED", "COMPLETED"}
Proposals == [do : {"clear", "reopen", "mark", "complete"}, phase : PhaseIds, order : Nat]

TypeInv ==
    /\ env \in Environments
    /\ status \in Statuses /\ locked \in BOOLEAN
    /\ phases \in [Ids -> Phase] /\ Ids \subseteq PhaseIds \ unused
    /\ metric \in [AdvanceKinds -> View] /\ \A k \in AdvanceKinds : metric[k] \in env.views[k]
    /\ DOMAIN admin = Admins /\ DOMAIN hook = Hooks
    /\ \A h \in Hooks :
         /\ hook[h].step = "change" => hook[h].changes \subseteq Proposals
         /\ hook[h].step = "complete" =>
              /\ hook[h].then.step \in {"advance", "fetch"}
              /\ hook[h].otherwise.step \in {"advance", "change", "idle"}
              /\ hook[h].otherwise.step = "change" => hook[h].otherwise.changes \subseteq Proposals

Distinct == \A p, q \in Ids : p # q => phases[p].order # phases[q].order

OrderInv == ~env.races \/ ~env.edits => Distinct

\* Without races one request or hook is at work at a time.
LoneInv == ~env.races =>
    /\ \A a, b \in Admins : admin[a] # Idle /\ admin[b] # Idle => a = b
    /\ \A g, h \in Hooks : hook[g] # Idle /\ hook[h] # Idle => g = h
    /\ \A a \in Admins, h \in Hooks : admin[a] = Idle \/ hook[h] = Idle

Firsts == {p \in Ids : \A q \in Ids : phases[p].order <= phases[q].order}

\* What a request read is still so.
StillRead(a) ==
    LET k == admin[a] IN
    /\ k.step \in {"activate", "reset"} => k.seen.ids = Ids
    /\ k.step = "activate" => status = "DRAFT" /\ k.seen.first = Firsts
    /\ k.step = "pause" => status = "ACTIVE"
    /\ k.step = "resume" => status = "PAUSED"
    /\ k.step = "unlock" => status # "COMPLETED"
    /\ k.step = "complete" => Completable(k.phase) /\ k.unlocked = ~locked
    /\ k.step = "remove" => k.phase \in Ids /\ k.seen = phases

Full == {k \in AUTO_PHASE_TYPES : metric[k].full}

\* What a hook read is still so, and the changes it has passed over cannot be made.
StillFetched(h) ==
    LET k == hook[h] IN
    /\ k.step = "complete" =>
         /\ Completable(k.phase) /\ k.unlocked = ~locked
         /\ k.then.step = "fetch" => k.then.full = Full
    /\ k.step \in {"fetch", "change"} => k.full = Full
    /\ k.step = "change" =>
         /\ k.changes \subseteq Changes(Full)
         /\ \A c \in Changes(Full) \ k.changes : c.do = "complete" /\ ~Completable(c.phase)

ReadInv == ~env.races => (\A a \in Admins : StillRead(a)) /\ (\A h \in Hooks : StillFetched(h))

\* Phases that nobody edits are still the ones an activation read, even with races.
SeenInv == ~env.edits => \A a \in Admins :
    /\ admin[a].step \in {"activate", "reset"} => admin[a].seen.ids = Ids
    /\ admin[a].step = "activate" => admin[a].seen.first = Firsts
    /\ admin[a].step # "remove"

\* The phase at which a timeline is.
Current(p) ==
    /\ p \in Ids /\ phases[p].status = "IN_PROGRESS"
    /\ AllCompleted(phases, Before(phases, p))
    /\ \A q \in Ids \ (Before(phases, p) \cup {p}) : phases[q].status = "PENDING"

Calm == ~env.races /\ ~env.edits /\ env.began # "past"

AllDone == status = "COMPLETED" => AllCompleted(phases, Ids)

Agreement ==
    /\ status = "DRAFT" => \A p \in Ids : phases[p].status = "PENDING"
    /\ status = "COMPLETED" => AllCompleted(phases, Ids) /\ locked
    /\ status \notin {"DRAFT", "COMPLETED"} => Ids = {} \/ \E p \in Ids : Current(p)

AgreeInv == (~env.edits => AllDone) /\ (Calm => Agreement)

TimelineInv == TypeInv /\ OrderInv /\ LoneInv /\ ReadInv /\ SeenInv /\ AgreeInv

-----------------------------------------------------------------------------
(* Orders *)

\* Phases that are some have one that nothing among them precedes.
LEMMA LeastOrder ==
    ASSUME NEW D, NEW ps \in [D -> Phase], NEW S \in SUBSET D, S # {}
    PROVE  \E p \in S : \A q \in S : ps[p].order <= ps[q].order
<1> DEFINE Below == OpToRel(<, Nat)
           orders == {ps[p].order : p \in S}
<1>1. orders \subseteq Nat /\ orders # {}
  BY DEF Phase
<1>2. IsWellFoundedOn(Below, Nat)
  BY Zenon, NatLessThanWellFounded
<1>3. \A m, n \in Nat : <<m, n>> \in Below <=> m < n
  BY Zenon DEF OpToRel
<1>4. \E m \in orders : \A n \in orders : ~ (<<n, m>> \in Below)
  <2> HIDE DEF Below, orders
  <2> QED BY <1>1, <1>2, WFMin
<1>5. PICK m \in orders : \A n \in orders : ~ (<<n, m>> \in Below)
  BY <1>4
<1>6. PICK p \in S : ps[p].order = m
  BY <1>5
<1>7. \A q \in S : ~ (ps[q].order < ps[p].order)
  <2> HIDE DEF Below
  <2> QED BY <1>1, <1>3, <1>5, <1>6
<1> QED
  BY <1>7 DEF Phase

-----------------------------------------------------------------------------
(* Who is at work *)

\* A request is at k, and the others and the hooks stay; a hook is at k.
Asks(a, k) ==
    /\ DOMAIN admin' = Admins /\ admin'[a] = k
    /\ \A b \in Admins \ {a} : admin'[b] = admin[b]
    /\ hook' = hook /\ env' = env

Runs(h, k) ==
    /\ DOMAIN hook' = Hooks /\ hook'[h] = k
    /\ \A g \in Hooks \ {h} : hook'[g] = hook[g]
    /\ admin' = admin /\ env' = env

\* A request that starts finds nobody at work, and one at work is alone.
LEMMA RequestAlone ==
    ASSUME LoneInv, ~env.races, NEW a \in Admins, NEW k, Asks(a, k),
           admin[a] # Idle \/ Undisturbed, StillRead(a)'
    PROVE  LoneInv' /\ ReadInv'
<1>1. (\A b \in Admins \ {a} : admin'[b] = Idle) /\ (\A h \in Hooks : hook'[h] = Idle)
  BY DEF LoneInv, Asks, Undisturbed, Quiet
<1>2. \A b \in Admins \ {a} : StillRead(b)'
  BY <1>1 DEF StillRead, Idle
<1>3. \A h \in Hooks : StillFetched(h)'
  BY <1>1 DEF StillFetched, Idle
<1> QED
  BY <1>1, <1>2, <1>3 DEF LoneInv, ReadInv

LEMMA HookAlone ==
    ASSUME LoneInv, ~env.races, NEW h \in Hooks, NEW k, Runs(h, k),
           hook[h] # Idle \/ Undisturbed, StillFetched(h)'
    PROVE  LoneInv' /\ ReadInv'
<1>1. (\A g \in Hooks \ {h} : hook'[g] = Idle) /\ (\A a \in Admins : admin'[a] = Idle)
  BY DEF LoneInv, Runs, Undisturbed, Quiet
<1>2. \A a \in Admins : StillRead(a)'
  BY <1>1 DEF StillRead, Idle
<1>3. \A g \in Hooks \ {h} : StillFetched(g)'
  BY <1>1 DEF StillFetched, Idle
<1> QED
  BY <1>1, <1>2, <1>3 DEF LoneInv, ReadInv

\* Nobody is at work before and after a step of the world.
LEMMA WorldAlone ==
    ASSUME ~env.races, Quiet, UNCHANGED <<admin, hook, env>>
    PROVE  LoneInv' /\ ReadInv'
<1>1. (\A a \in Admins : admin'[a] = Idle) /\ (\A h \in Hooks : hook'[h] = Idle)
  BY DEF Quiet
<1>2. \A a \in Admins : StillRead(a)'
  BY <1>1 DEF StillRead, Idle
<1>3. \A h \in Hooks : StillFetched(h)'
  BY <1>1 DEF StillFetched, Idle
<1> QED
  BY <1>1, <1>2, <1>3 DEF LoneInv, ReadInv

-----------------------------------------------------------------------------
(* What steps keep *)

\* The phases are the same ones in the same order.
SameOrders ==
    /\ phases' \in [Ids -> Phase] /\ Ids' = Ids
    /\ \A p \in Ids : phases'[p].order = phases[p].order

LEMMA UnchangedOrders ==
    ASSUME TypeInv, UNCHANGED phases
    PROVE  SameOrders
BY DEF TypeInv, SameOrders, Ids

LEMMA OrdersKept ==
    ASSUME TypeInv, OrderInv, SameOrders, env' = env
    PROVE  /\ OrderInv'
           /\ Firsts' = Firsts
           /\ \A p \in Ids : Before(phases', p) = Before(phases, p)
<1>1. \A p \in Ids : phases'[p].order = phases[p].order
  BY DEF SameOrders
<1>2. DOMAIN phases' = DOMAIN phases
  BY DEF SameOrders, Ids
<1>3. OrderInv'
  BY <1>1, <1>2 DEF OrderInv, Distinct, Ids
<1>4. Firsts' = Firsts
  BY <1>1, <1>2 DEF Firsts, Ids
<1>5. \A p \in Ids : Before(phases', p) = Before(phases, p)
  BY <1>1, <1>2 DEF Before, Ids
<1> QED
  BY <1>3, <1>4, <1>5

\* No request newly remembers phases that it would write.
LEMMA SeenKept ==
    ASSUME TypeInv, OrderInv, SeenInv, SameOrders, env' = env,
           \A b \in Admins : \/ admin'[b] = admin[b]
                             \/ admin'[b].step \notin {"activate", "reset", "remove"}
    PROVE  SeenInv'
<1>1. Ids' = Ids /\ Firsts' = Firsts
  BY OrdersKept DEF SameOrders
<1> SUFFICES ASSUME ~env.edits, NEW b \in Admins
             PROVE  /\ admin'[b].step \in {"activate", "reset"} => admin'[b].seen.ids = Ids
                    /\ admin'[b].step = "activate" => admin'[b].seen.first = Firsts
                    /\ admin'[b].step # "remove"
  BY <1>1 DEF SeenInv
<1> QED
  BY DEF SeenInv

\* A request that only reads, and knows what it read.
LEMMA RequestReads ==
    ASSUME TimelineInv, NEW a \in Admins, NEW k, Asks(a, k), UNCHANGED <<dataVars, metric>>,
           admin[a] # Idle \/ Undisturbed, StillRead(a)', k.step = "remove" => env.edits
    PROVE  TimelineInv'
<1>1. SameOrders
  BY UnchangedOrders DEF TimelineInv, dataVars
<1>2. TypeInv'
  BY DEF TimelineInv, TypeInv, dataVars, Asks, Ids
<1>3. OrderInv' /\ Firsts' = Firsts
  BY <1>1, OrdersKept DEF TimelineInv, Asks
<1>4. LoneInv' /\ ReadInv'
  <2>1. CASE env.races
    BY <2>1 DEF Asks, LoneInv, ReadInv
  <2>2. CASE ~env.races
    BY <2>2, RequestAlone DEF TimelineInv
  <2> QED BY <2>1, <2>2
<1>5. SeenInv'
  <2> SUFFICES ASSUME ~env.edits, NEW b \in Admins
               PROVE  /\ admin'[b].step \in {"activate", "reset"} => admin'[b].seen.ids = Ids
                      /\ admin'[b].step = "activate" => admin'[b].seen.first = Firsts
                      /\ admin'[b].step # "remove"
    BY <1>1, <1>3 DEF SeenInv, Asks, SameOrders
  <2>1. CASE b = a
    BY <1>1, <1>3, <2>1 DEF StillRead, Asks, SameOrders
  <2>2. CASE b # a
    BY <2>2 DEF TimelineInv, SeenInv, Asks
  <2> QED BY <2>1, <2>2
<1>6. AgreeInv'
  <2>1. (\A p : Current(p)' <=> Current(p)) /\ Ids' = Ids
    BY DEF Current, AllCompleted, Before, Ids, dataVars
  <2>2. (AllDone => AllDone') /\ (Agreement => Agreement')
    BY <2>1 DEF AllDone, Agreement, AllCompleted, dataVars
  <2> QED BY <2>2 DEF TimelineInv, AgreeInv, Calm, Asks
<1> QED
  BY <1>2, <1>3, <1>4, <1>5, <1>6 DEF TimelineInv

\* A hook that only reads.
LEMMA HookReads ==
    ASSUME TimelineInv, NEW h \in Hooks, NEW k, Runs(h, k), UNCHANGED <<dataVars, metric>>,
           hook[h] # Idle \/ Undisturbed, ~env.races => StillFetched(h)',
           k.step = "change" => k.changes \subseteq Proposals,
           k.step = "complete" =>
             /\ k.then.step \in {"advance", "fetch"}
             /\ k.otherwise.step \in {"advance", "change", "idle"}
             /\ k.otherwise.step = "change" => k.otherwise.changes \subseteq Proposals
    PROVE  TimelineInv'
<1>1. SameOrders
  BY UnchangedOrders DEF TimelineInv, dataVars
<1>2. TypeInv'
  BY DEF TimelineInv, TypeInv, dataVars, Runs, Ids
<1>3. OrderInv' /\ SeenInv'
  BY <1>1, OrdersKept, SeenKept DEF TimelineInv, Runs
<1>4. LoneInv' /\ ReadInv'
  <2>1. CASE env.races
    BY <2>1 DEF Runs, LoneInv, ReadInv
  <2>2. CASE ~env.races
    BY <2>2, HookAlone DEF TimelineInv
  <2> QED BY <2>1, <2>2
<1>5. AgreeInv'
  <2>1. (\A p : Current(p)' <=> Current(p)) /\ Ids' = Ids
    BY DEF Current, AllCompleted, Before, Ids, dataVars
  <2>2. (AllDone => AllDone') /\ (Agreement => Agreement')
    BY <2>1 DEF AllDone, Agreement, AllCompleted, dataVars
  <2> QED BY <2>2 DEF TimelineInv, AgreeInv, Calm, Runs
<1> QED
  BY <1>2, <1>3, <1>4, <1>5 DEF TimelineInv

\* What may be written while the order of the phases stays.
Written ==
    /\ SameOrders /\ status' \in Statuses /\ locked' \in BOOLEAN
    /\ UNCHANGED <<unused, metric>>

LEMMA RequestWrites ==
    ASSUME TimelineInv, NEW a \in Admins, Asks(a, Idle), admin[a] # Idle, Written, AgreeInv'
    PROVE  TimelineInv'
<1>1. TypeInv'
  BY DEF TimelineInv, TypeInv, Written, SameOrders, Asks
<1>2. OrderInv'
  BY OrdersKept DEF TimelineInv, Written, Asks
<1>3. SeenInv'
  <2>1. \A b \in Admins : \/ admin'[b] = admin[b]
                          \/ admin'[b].step \notin {"activate", "reset", "remove"}
    BY DEF Asks, Idle
  <2> QED BY <2>1, SeenKept DEF TimelineInv, Written, Asks
<1>4. LoneInv' /\ ReadInv'
  <2>1. CASE env.races
    BY <2>1 DEF Asks, LoneInv, ReadInv
  <2>2. CASE ~env.races
    <3>1. StillRead(a)'
      BY DEF StillRead, Asks, Idle
    <3> QED BY <2>2, <3>1, RequestAlone DEF TimelineInv
  <2> QED BY <2>1, <2>2
<1> QED
  BY <1>1, <1>2, <1>3, <1>4 DEF TimelineInv

LEMMA HookWrites ==
    ASSUME TimelineInv, NEW h \in Hooks, NEW k, Runs(h, k), hook[h] # Idle, Written, AgreeInv',
           k.step \notin {"change", "complete"}, ~env.races => StillFetched(h)'
    PROVE  TimelineInv'
<1>1. TypeInv'
  BY DEF TimelineInv, TypeInv, Written, SameOrders, Runs
<1>2. OrderInv' /\ SeenInv'
  BY OrdersKept, SeenKept DEF TimelineInv, Written, Runs
<1>3. LoneInv' /\ ReadInv'
  <2>1. CASE env.races
    BY <2>1 DEF Runs, LoneInv, ReadInv
  <2>2. CASE ~env.races
    BY <2>2, HookAlone DEF TimelineInv
  <2> QED BY <2>1, <2>2
<1> QED
  BY <1>1, <1>2, <1>3 DEF TimelineInv

-----------------------------------------------------------------------------
(* Steps that read *)

LEMMA Asking ==
    ASSUME TypeInv, NEW a \in Admins, NEW k, Ask(a, k), UNCHANGED <<hook, env>>
    PROVE  Asks(a, k)
BY DEF TypeInv, Ask, Asks

LEMMA Running ==
    ASSUME TypeInv, NEW h \in Hooks, NEW k, Run(h, k), UNCHANGED <<admin, env>>
    PROVE  Runs(h, k)
BY DEF TypeInv, Run, Runs

LEMMA StartRequestStep ==
    ASSUME TimelineInv, NEW a \in Admins,
           NEW op \in {"activate", "pause", "resume", "unlock", "reset"}, StartRequest(a, op)
    PROVE  TimelineInv'
<1> DEFINE k == [step |-> op, seen |-> Read(op)]
<1>1. Asks(a, k) /\ UNCHANGED <<dataVars, metric>> /\ Undisturbed /\ Allowed(op)
  BY Asking DEF StartRequest, TimelineInv
<1>2. /\ op = "activate" => k.seen.ids = Ids /\ k.seen.first = Firsts
      /\ op = "reset" => k.seen.ids = Ids
  BY DEF Read, Firsts
<1>3. StillRead(a)'
  <2>1. admin'[a] = k /\ k.step = op
    BY <1>1 DEF Asks
  <2>2. Firsts' = Firsts /\ Ids' = Ids
    BY <1>1 DEF Firsts, Ids, dataVars
  <2> HIDE DEF k
  <2> QED BY <1>1, <1>2, <2>1, <2>2 DEF StillRead, Allowed, dataVars
<1> QED
  BY <1>1, <1>3, RequestReads

LEMMA StartCompleteStep ==
    ASSUME TimelineInv, NEW a \in Admins, NEW p, StartComplete(a, p)
    PROVE  TimelineInv'
<1> DEFINE k == [step |-> "complete", phase |-> p, unlocked |-> ~locked]
<1>1. Asks(a, k) /\ UNCHANGED <<dataVars, metric>> /\ Undisturbed /\ Completable(p)
  BY Asking DEF StartComplete, TimelineInv
<1>2. StillRead(a)'
  BY <1>1 DEF StillRead, Completable, AllCompleted, Before, Ids, dataVars, Asks
<1> QED
  BY <1>1, <1>2, RequestReads

LEMMA UploadStep ==
    ASSUME TimelineInv, NEW a \in Admins, NEW p, Upload(a, p)
    PROVE  TimelineInv'
<1> DEFINE k == [step |-> "uploaded", phase |-> p]
<1>1. Asks(a, k) /\ UNCHANGED <<dataVars, metric>> /\ Undisturbed
  BY Asking DEF Upload, TimelineInv
<1>2. StillRead(a)'
  BY <1>1 DEF StillRead, Asks
<1> QED
  BY <1>1, <1>2, RequestReads

LEMMA CompleteUploadedStep ==
    ASSUME TimelineInv, NEW a \in Admins, CompleteUploaded(a)
    PROVE  TimelineInv'
<1> DEFINE p == admin[a].phase
           k == IF Completable(p) THEN [step |-> "complete", phase |-> p, unlocked |-> ~locked]
                ELSE Idle
<1>1. Asks(a, k) /\ UNCHANGED <<dataVars, metric>> /\ admin[a].step = "uploaded"
  BY Asking DEF CompleteUploaded, TimelineInv
<1>2. StillRead(a)'
  <2>1. CASE Completable(p)
    BY <1>1, <2>1 DEF StillRead, Completable, AllCompleted, Before, Ids, dataVars, Asks
  <2>2. CASE ~Completable(p)
    BY <1>1, <2>2 DEF StillRead, Asks, Idle
  <2> QED BY <2>1, <2>2
<1>3. admin[a] # Idle /\ k.step # "remove"
  BY <1>1 DEF Idle
<1> QED
  BY <1>1, <1>2, <1>3, RequestReads

LEMMA StartRemoveStep ==
    ASSUME TimelineInv, NEW a \in Admins, NEW p, StartRemove(a, p)
    PROVE  TimelineInv'
<1> DEFINE k == [step |-> "remove", phase |-> p, seen |-> phases]
<1>1. Asks(a, k) /\ UNCHANGED <<dataVars, metric>> /\ Undisturbed /\ env.edits /\ p \in Ids
  BY Asking DEF StartRemove, TimelineInv
<1>2. StillRead(a)'
  BY <1>1 DEF StillRead, Ids, dataVars, Asks
<1> QED
  BY <1>1, <1>2, RequestReads

LEMMA StartHookStep ==
    ASSUME TimelineInv, NEW h \in Hooks, StartHook(h)
    PROVE  TimelineInv'
<1>1. PICK k : /\ Run(h, k) /\ k.step \in {"score", "weigh"}
               /\ UNCHANGED <<dataVars, metric, admin, env>> /\ Undisturbed
  BY DEF StartHook, Score
<1>2. Runs(h, k)
  BY <1>1, Running DEF TimelineInv
<1>3. StillFetched(h)'
  BY <1>1, <1>2 DEF StillFetched, Runs
<1> QED
  BY <1>1, <1>2, <1>3, HookReads

LEMMA WeighStep ==
    ASSUME TimelineInv, NEW h \in Hooks, Weigh(h)
    PROVE  TimelineInv'
<1>1. PICK k : /\ Run(h, k) /\ k.step = "advance"
               /\ UNCHANGED <<dataVars, metric, admin, env>> /\ hook[h] # Idle
  BY DEF Weigh, Idle
<1>2. Runs(h, k)
  BY <1>1, Running DEF TimelineInv
<1>3. StillFetched(h)'
  BY <1>1, <1>2 DEF StillFetched, Runs
<1> QED
  BY <1>1, <1>2, <1>3, HookReads

\* A completion that was just checked is still possible.
LEMMA JustChecked ==
    ASSUME NEW h \in Hooks, NEW p, NEW then, NEW otherwise, UNCHANGED <<dataVars, metric>>,
           Completable(p), then.step = "fetch" => then.full = Full,
           Runs(h, [step |-> "complete", phase |-> p, unlocked |-> ~locked,
                    then |-> then, otherwise |-> otherwise])
    PROVE  StillFetched(h)'
<1>1. Completable(p)' /\ Full' = Full /\ locked' = locked
  BY DEF Completable, AllCompleted, Before, Ids, dataVars, Full
<1> QED
  BY <1>1 DEF StillFetched, Runs

LEMMA AdvanceStep ==
    ASSUME TimelineInv, NEW h \in Hooks, Advance(h)
    PROVE  TimelineInv'
<1>1. UNCHANGED <<dataVars, metric, admin, env>> /\ hook[h].step = "advance" /\ hook[h] # Idle
  BY DEF Advance, Idle
<1>2. CASE Run(h, Score)
  <2>1. Runs(h, Score)
    BY <1>1, <1>2, Running DEF TimelineInv
  <2>2. StillFetched(h)'
    BY <2>1 DEF StillFetched, Runs, Score
  <2> QED BY <1>1, <2>1, <2>2, HookReads DEF Score
<1>3. ASSUME NEW p \in hook[h].todo, NEW k,
             k = IF Completable(p)
                 THEN [step |-> "complete", phase |-> p, unlocked |-> ~locked,
                       then |-> NextToAdvance(h, p), otherwise |-> NextToAdvance(h, p)]
                 ELSE NextToAdvance(h, p),
             Run(h, k)
      PROVE  TimelineInv'
  <2>1. Runs(h, k)
    BY <1>1, <1>3, Running DEF TimelineInv
  <2>2. NextToAdvance(h, p).step = "advance"
    BY <1>1 DEF NextToAdvance
  <2>3. /\ StillFetched(h)' /\ k.step # "change"
        /\ k.step = "complete" => k.then.step = "advance" /\ k.otherwise.step = "advance"
    <3>1. CASE Completable(p)
      <4>1. k.step = "complete" /\ k.then.step = "advance" /\ k.otherwise.step = "advance"
        BY <1>3, <2>2, <3>1
      <4>2. StillFetched(h)'
        BY <1>1, <1>3, <2>1, <2>2, <3>1, JustChecked
      <4> QED BY <4>1, <4>2
    <3>2. CASE ~Completable(p)
      BY <1>3, <2>1, <2>2, <3>2 DEF StillFetched, Runs
    <3> QED BY <3>1, <3>2
  <2> QED BY <1>1, <2>1, <2>3, HookReads
<1> QED
  BY <1>2, <1>3 DEF Advance

\* What the reconciliation may do with a phase.
LEMMA ChangeMeaning ==
    ASSUME NEW p, NEW full
    PROVE  /\ Change(p, full) \in {"none", "clear", "reopen", "mark", "complete"}
           /\ Change(p, full) = "reopen" =>
                phases[p].status = "COMPLETED" /\ CanAutoTransition
           /\ Change(p, full) = "complete" =>
                phases[p].status = "IN_PROGRESS" /\ CanAutoTransition /\ Kind[p] \in full
           /\ Change(p, full) = "mark" => phases[p].status = "COMPLETED"
BY DEF Change, Unmarked

LEMMA ChangesAreProposals ==
    ASSUME TypeInv, NEW full
    PROVE  Changes(full) \subseteq Proposals
<1> SUFFICES ASSUME NEW p \in Ids, Change(p, full) # "none"
             PROVE  [do |-> Change(p, full), phase |-> p, order |-> phases[p].order] \in Proposals
  BY DEF Changes
<1>1. phases[p].order \in Nat /\ p \in PhaseIds
  BY DEF TypeInv, Phase
<1>2. Change(p, full) \in {"clear", "reopen", "mark", "complete"}
  BY ChangeMeaning
<1> QED
  BY <1>1, <1>2 DEF Proposals

LEMMA NothingChanged ==
    ASSUME UNCHANGED <<dataVars, metric>>
    PROVE  /\ Full' = Full
           /\ \A p : Completable(p)' <=> Completable(p)
           /\ Changes(Full)' = Changes(Full)
<1>1. Full' = Full
  BY DEF Full
<1>2. \A p : Completable(p)' <=> Completable(p)
  BY DEF Completable, AllCompleted, Before, Ids, dataVars
<1>3. Ids' = Ids /\ phases' = phases
  BY DEF Ids, dataVars
<1>4. \A p, full : Change(p, full)' = Change(p, full)
  BY DEF Change, Unmarked, CanAutoTransition, dataVars
<1>5. Changes(Full)' = Changes(Full)
  BY <1>1, <1>3, <1>4, Zenon DEF Changes
<1> QED
  BY <1>1, <1>2, <1>5

LEMMA ReadScoresStep ==
    ASSUME TimelineInv, NEW h \in Hooks, ReadScores(h)
    PROVE  TimelineInv'
<1>0. PICK n : Run(h, [step |-> "fetch", left |-> n, full |-> Full])
  BY DEF ReadScores, Full
<1> DEFINE k == [step |-> "fetch", left |-> n, full |-> Full]
<1>1. Run(h, k) /\ UNCHANGED <<dataVars, metric, admin, env>> /\ hook[h] # Idle
  BY <1>0 DEF ReadScores, Idle
<1>2. Runs(h, k)
  BY <1>1, Running DEF TimelineInv
<1>3. StillFetched(h)'
  BY <1>1, <1>2, NothingChanged DEF StillFetched, Runs
<1> QED
  BY <1>1, <1>2, <1>3, HookReads

LEMMA FetchStep ==
    ASSUME TimelineInv, NEW h \in Hooks, Fetch(h)
    PROVE  TimelineInv'
<1> DEFINE full == hook[h].full
<1>1. UNCHANGED <<dataVars, metric, admin, env>> /\ hook[h].step = "fetch" /\ hook[h] # Idle
  BY DEF Fetch, Idle
<1>2. ~env.races => full = Full
  BY <1>1 DEF TimelineInv, ReadInv, StillFetched
<1>3. CASE Run(h, Idle)
  <2>1. Runs(h, Idle)
    BY <1>1, <1>3, Running DEF TimelineInv
  <2>2. StillFetched(h)' /\ Idle.step = "idle"
    BY <2>1 DEF StillFetched, Runs, Idle
  <2> QED BY <1>1, <2>1, <2>2, HookReads
<1>4. CASE Run(h, [step |-> "change", left |-> hook[h].left - 1, full |-> full,
                    changes |-> Changes(full)])
  <2> DEFINE k == [step |-> "change", left |-> hook[h].left - 1, full |-> full,
                   changes |-> Changes(full)]
  <2>1. Runs(h, k)
    BY <1>1, <1>4, Running DEF TimelineInv
  <2>2. ASSUME ~env.races PROVE StillFetched(h)'
    <3>1. full = Full /\ Full' = Full /\ Changes(Full)' = Changes(Full)
      BY <1>1, <1>2, <2>2, NothingChanged
    <3>2. hook'[h] = k
      BY <2>1 DEF Runs
    <3> HIDE DEF full
    <3> QED BY <3>1, <3>2 DEF StillFetched
  <2>3. k.step = "change" /\ k.changes \subseteq Proposals
    BY ChangesAreProposals DEF TimelineInv
  <2> HIDE DEF k
  <2> QED BY <1>1, <2>1, <2>2, <2>3, HookReads
<1> QED
  BY <1>3, <1>4 DEF Fetch

\* What is left of the changes after one that failed.
LEMMA WithoutMeaning ==
    ASSUME NEW h \in Hooks, NEW c, hook[h].step = "change"
    PROVE  \/ hook[h].changes = {c} /\ Without(h, c) = Idle
           \/ /\ Without(h, c).step = "change" /\ Without(h, c).full = hook[h].full
              /\ Without(h, c).left = hook[h].left
              /\ Without(h, c).changes = hook[h].changes \ {c}
BY DEF Without

LEMMA TryCompleteMeaning ==
    ASSUME NEW h \in Hooks, TryComplete(h)
    PROVE  \E c \in hook[h].changes :
             /\ c.do = "complete"
             /\ Run(h, IF Completable(c.phase)
                       THEN [step |-> "complete", phase |-> c.phase, unlocked |-> ~locked,
                             then |-> Again(h), otherwise |-> Without(h, c)]
                       ELSE Without(h, c))
BY DEF TryComplete, Due

LEMMA TryCompleteStep ==
    ASSUME TimelineInv, NEW h \in Hooks, TryComplete(h)
    PROVE  TimelineInv'
<1>1. /\ UNCHANGED <<dataVars, metric, admin, env>>
      /\ hook[h].step = "change" /\ hook[h] # Idle
  BY DEF TryComplete, Idle
<1>2. PICK c \in hook[h].changes :
        /\ c.do = "complete"
        /\ Run(h, IF Completable(c.phase)
                  THEN [step |-> "complete", phase |-> c.phase, unlocked |-> ~locked,
                        then |-> Again(h), otherwise |-> Without(h, c)]
                  ELSE Without(h, c))
  BY TryCompleteMeaning
<1>3. ~env.races => StillFetched(h)
  BY DEF TimelineInv, ReadInv
<1>4. hook[h].changes \subseteq Proposals
  BY <1>1 DEF TimelineInv, TypeInv
<1>5. \/ hook[h].changes = {c} /\ Without(h, c) = Idle
      \/ /\ Without(h, c).step = "change" /\ Without(h, c).full = hook[h].full
         /\ Without(h, c).changes = hook[h].changes \ {c}
  BY <1>1, WithoutMeaning
<1>6. CASE Completable(c.phase)
  <2> DEFINE k == [step |-> "complete", phase |-> c.phase, unlocked |-> ~locked,
                   then |-> Again(h), otherwise |-> Without(h, c)]
  <2>1. Runs(h, k)
    BY <1>1, <1>2, <1>6, Running DEF TimelineInv
  <2>2. ~env.races => Again(h).full = Full
    BY <1>1, <1>3 DEF StillFetched, Again
  <2>3. ~env.races => StillFetched(h)'
    BY <1>1, <1>6, <2>1, <2>2, JustChecked
  <2>4. /\ k.step = "complete" /\ k.then.step = "fetch" /\ k.otherwise = Without(h, c)
        /\ k.otherwise.step \in {"change", "idle"}
        /\ k.otherwise.step = "change" => k.otherwise.changes \subseteq Proposals
    BY <1>4, <1>5 DEF Again, Idle
  <2> HIDE DEF k
  <2> QED BY <1>1, <2>1, <2>3, <2>4, HookReads
<1>7. CASE ~Completable(c.phase)
  <2> DEFINE k == Without(h, c)
  <2>1. Runs(h, k)
    BY <1>1, <1>2, <1>7, Running DEF TimelineInv
  <2>2. k.step \in {"change", "idle"} /\ (k.step = "change" => k.changes \subseteq Proposals)
    BY <1>4, <1>5 DEF Idle
  <2>3. ASSUME ~env.races PROVE StillFetched(h)'
    <3>1. hook'[h] = k
      BY <2>1 DEF Runs
    <3>2. StillFetched(h)
      BY <1>3, <2>3
    <3> HIDE DEF k
    <3>3. CASE k = Idle
      BY <3>1, <3>3 DEF StillFetched, Idle
    <3>4. CASE /\ k.step = "change" /\ k.full = hook[h].full
               /\ k.changes = hook[h].changes \ {c}
      BY <1>1, <1>2, <1>7, <3>1, <3>2, <3>4, NothingChanged DEF StillFetched
    <3> QED BY <1>5, <3>3, <3>4 DEF k
  <2> HIDE DEF k
  <2> QED BY <1>1, <2>1, <2>2, <2>3, HookReads
<1> QED
  BY <1>6, <1>7

-----------------------------------------------------------------------------
(* The status and the phases *)

\* Every pending phase has one before it that is not completed.
GoesOn ==
    \A p \in Ids : phases[p].status = "PENDING" => ~AllCompleted(phases, Before(phases, p))

\* Only marks of regression are written.
Unmoved ==
    /\ SameOrders /\ UNCHANGED <<status, locked>>
    /\ \A p \in Ids : phases'[p].status = phases[p].status

LEMMA UnmovedAgrees ==
    ASSUME TypeInv, AgreeInv, Unmoved, env' = env
    PROVE  AgreeInv'
<1>1. \A p \in Ids : phases'[p].order = phases[p].order /\ phases'[p].status = phases[p].status
  BY DEF Unmoved, SameOrders
<1>2. Ids' = Ids /\ DOMAIN phases' = DOMAIN phases
  BY DEF Unmoved, SameOrders, Ids
<1>3. \A p \in Ids : Current(p)' <=> Current(p)
  BY <1>1, <1>2 DEF Current, AllCompleted, Before, Ids
<1>4. (AllDone => AllDone') /\ (Agreement => Agreement')
  BY <1>1, <1>2, <1>3 DEF AllDone, Agreement, AllCompleted, Unmoved
<1> QED
  BY <1>4 DEF AgreeInv, Calm

-----------------------------------------------------------------------------
(* Requests that write *)

\* A request that fails, or finds nothing to write.
LEMMA NothingWritten ==
    ASSUME TimelineInv, NEW a \in Admins, Asks(a, Idle), admin[a] # Idle,
           UNCHANGED <<dataVars, metric>>
    PROVE  TimelineInv'
<1>1. StillRead(a)' /\ Idle.step # "remove"
  BY DEF StillRead, Asks, Idle
<1> QED
  BY <1>1, RequestReads

LEMMA ActivateStep ==
    ASSUME TimelineInv, NEW a \in Admins, Activate(a)
    PROVE  TimelineInv'
<1> DEFINE seen == admin[a].seen
<1>1. /\ Asks(a, Idle) /\ admin[a].step = "activate" /\ admin[a] # Idle
      /\ UNCHANGED <<locked, unused, metric, hook, env>>
  BY Asking DEF Activate, TimelineInv, Idle
<1>2. CASE ~AllThere(a)
  BY <1>1, <1>2, NothingWritten DEF Activate, dataVars
<1>3. CASE AllThere(a)
  <2>1. /\ status' = "ACTIVE"
        /\ phases' = [p \in Ids |->
                        IF p \notin seen.ids THEN phases[p]
                        ELSE [phases[p] EXCEPT
                                !.status = IF p \in seen.first THEN "IN_PROGRESS" ELSE "PENDING"]]
    BY <1>3 DEF Activate
  <2>2. phases \in [Ids -> Phase] /\ locked \in BOOLEAN
    BY DEF TimelineInv, TypeInv
  <2>3. Written
    BY <1>1, <2>1, <2>2 DEF Written, SameOrders, Ids, Phase, Statuses
  <2>4. ASSUME Calm', Ids # {} PROVE \E p \in Ids' : Current(p)'
    <3>1. seen.ids = Ids /\ seen.first = Firsts /\ Distinct
      BY <1>1, <2>4 DEF TimelineInv, ReadInv, StillRead, OrderInv, Calm
    <3>2. PICK f \in Ids : \A q \in Ids : phases[f].order <= phases[q].order
      BY <2>2, <2>4, LeastOrder
    <3>3. \A p \in Ids : p \in seen.first <=> p = f
      BY <2>2, <3>1, <3>2 DEF Firsts, Distinct, Phase
    <3>4. /\ phases'[f].status = "IN_PROGRESS"
          /\ \A p \in Ids \ {f} : phases'[p].status = "PENDING"
          /\ Ids' = Ids
      BY <2>1, <2>2, <2>3, <3>1, <3>3 DEF Phase, Written, SameOrders
    <3>5. Before(phases', f) = {}
      BY <2>2, <2>3, <3>2 DEF Before, Written, SameOrders, Ids, Phase
    <3> QED BY <3>4, <3>5 DEF Current, AllCompleted
  <2>5. AgreeInv'
    BY <2>1, <2>3, <2>4 DEF AgreeInv, AllDone, Agreement, Written, SameOrders
  <2> QED BY <1>1, <2>3, <2>5, RequestWrites
<1> QED
  BY <1>2, <1>3

\* The status, or the lock, is all that changes.
LEMMA StatusWritten ==
    ASSUME TimelineInv, NEW a \in Admins, Asks(a, Idle), admin[a] # Idle,
           status' \in Statuses, locked' \in BOOLEAN, UNCHANGED <<phases, unused, metric>>,
           status' = "COMPLETED" => status = "COMPLETED",
           Calm => /\ status' = "DRAFT" => status = "DRAFT"
                   /\ status' = "COMPLETED" => locked'
                   /\ status' \notin {"DRAFT", "COMPLETED"} => status \notin {"DRAFT", "COMPLETED"}
    PROVE  TimelineInv'
<1>1. Written
  BY UnchangedOrders DEF TimelineInv, Written
<1>2. (\A p : Current(p)' <=> Current(p)) /\ Ids' = Ids
  BY DEF Current, Before, AllCompleted, Ids
<1>3. Calm' <=> Calm
  BY DEF Calm, Asks
<1>4. AllDone => AllDone'
  BY <1>2 DEF AllDone, AllCompleted
<1>5. Calm /\ Agreement => Agreement'
  BY <1>2 DEF Agreement, AllCompleted
<1>6. AgreeInv'
  BY <1>3, <1>4, <1>5 DEF TimelineInv, AgreeInv, Asks
<1> QED
  BY <1>1, <1>6, RequestWrites

LEMMA PauseStep ==
    ASSUME TimelineInv, NEW a \in Admins, Pause(a)
    PROVE  TimelineInv'
<1>1. /\ Asks(a, Idle) /\ admin[a].step = "pause" /\ admin[a] # Idle
      /\ status' = "PAUSED" /\ UNCHANGED <<locked, phases, unused, metric>>
  BY Asking DEF Pause, TimelineInv, Idle
<1>2. Calm => status = "ACTIVE"
  BY <1>1 DEF TimelineInv, ReadInv, StillRead, Calm
<1> QED
  BY <1>1, <1>2, StatusWritten DEF TimelineInv, TypeInv, Statuses

LEMMA ResumeStep ==
    ASSUME TimelineInv, NEW a \in Admins, Resume(a)
    PROVE  TimelineInv'
<1>1. /\ Asks(a, Idle) /\ admin[a].step = "resume" /\ admin[a] # Idle
      /\ status' = "ACTIVE" \/ status' = status
  BY Asking DEF Resume, TimelineInv, Idle, AllThere
<1>2. UNCHANGED <<locked, phases, unused, metric>>
  BY DEF Resume
<1>3. Calm => status = "PAUSED"
  BY <1>1 DEF TimelineInv, ReadInv, StillRead, Calm
<1> QED
  BY <1>1, <1>2, <1>3, StatusWritten DEF TimelineInv, TypeInv, Statuses

LEMMA UnlockStep ==
    ASSUME TimelineInv, NEW a \in Admins, Unlock(a)
    PROVE  TimelineInv'
<1>1. /\ Asks(a, Idle) /\ admin[a].step = "unlock" /\ admin[a] # Idle
      /\ locked' = FALSE /\ UNCHANGED <<status, phases, unused, metric>>
  BY Asking DEF Unlock, TimelineInv, Idle
<1>2. Calm => status # "COMPLETED"
  BY <1>1 DEF TimelineInv, ReadInv, StillRead, Calm
<1> QED
  BY <1>1, <1>2, StatusWritten DEF TimelineInv, TypeInv, Statuses

LEMMA ResetStep ==
    ASSUME TimelineInv, NEW a \in Admins, Reset(a)
    PROVE  TimelineInv'
<1> DEFINE seen == admin[a].seen
<1>1. /\ Asks(a, Idle) /\ admin[a].step = "reset" /\ admin[a] # Idle
      /\ UNCHANGED <<unused, metric, hook, env>>
  <2>1. /\ Ask(a, Idle) /\ admin[a].step = "reset"
        /\ UNCHANGED <<unused, metric, hook, env>>
    BY Zenon DEF Reset
  <2> QED BY <2>1, Asking DEF TimelineInv, Idle
<1>2. CASE ~AllThere(a)
  BY <1>1, <1>2, NothingWritten DEF Reset, dataVars
<1>3. CASE AllThere(a)
  <2>1. /\ status' = "DRAFT" /\ locked' = FALSE
        /\ phases' = [p \in Ids |->
                        IF p \notin seen.ids THEN phases[p]
                        ELSE [phases[p] EXCEPT !.status = "PENDING", !.regressed = "no"]]
    BY <1>3 DEF Reset
  <2>2. phases \in [Ids -> Phase]
    BY DEF TimelineInv, TypeInv
  <2>3. Written
    BY <1>1, <2>1, <2>2 DEF Written, SameOrders, Ids, Phase, Statuses
  <2>4. ASSUME Calm' PROVE \A p \in Ids' : phases'[p].status = "PENDING"
    <3>1. seen.ids = Ids
      BY <1>1, <2>4 DEF TimelineInv, ReadInv, StillRead, Calm
    <3>2. \A p \in Ids : phases'[p] = [phases[p] EXCEPT !.status = "PENDING", !.regressed = "no"]
      BY <2>1, <3>1
    <3>3. Ids' = Ids /\ \A p \in Ids : phases'[p].status = "PENDING"
      BY <2>2, <2>3, <3>2 DEF Phase, Written, SameOrders
    <3> QED BY <3>3
  <2>5. AgreeInv'
    BY <2>1, <2>4 DEF AgreeInv, AllDone, Agreement
  <2> QED BY <1>1, <2>3, <2>5, RequestWrites
<1> QED
  BY <1>2, <1>3

-----------------------------------------------------------------------------
(* completePhase *)

Done(p) == [phases EXCEPT ![p].status = "COMPLETED"]
Started(p, q) == [Done(p) EXCEPT ![q].status = "IN_PROGRESS"]

LEMMA DoneMeaning ==
    ASSUME TypeInv, NEW p \in Ids
    PROVE  /\ Done(p) \in [Ids -> Phase]
           /\ \A r \in Ids : Done(p)[r].order = phases[r].order
           /\ Done(p)[p].status = "COMPLETED" /\ Done(p)[p].regressed = phases[p].regressed
           /\ \A r \in Ids \ {p} : Done(p)[r] = phases[r]
BY DEF Done, TypeInv, Phase, Ids

LEMMA StartedMeaning ==
    ASSUME TypeInv, NEW p \in Ids, NEW q \in Ids
    PROVE  /\ Started(p, q) \in [Ids -> Phase]
           /\ \A r \in Ids : Started(p, q)[r].order = phases[r].order
           /\ Started(p, q)[q].status = "IN_PROGRESS"
           /\ Started(p, q)[q].regressed = Done(p)[q].regressed
           /\ \A r \in Ids \ {q} : Started(p, q)[r] = Done(p)[r]
<1> DEFINE done == Done(p)
<1>1. done \in [Ids -> Phase] /\ \A r \in Ids : done[r].order = phases[r].order
  BY DoneMeaning
<1>2. Started(p, q) = [done EXCEPT ![q].status = "IN_PROGRESS"]
  BY DEF Started
<1> HIDE DEF done, Ids
<1>3. /\ Started(p, q) \in [Ids -> Phase]
      /\ \A r \in Ids : Started(p, q)[r].order = done[r].order
      /\ Started(p, q)[q].status = "IN_PROGRESS"
      /\ Started(p, q)[q].regressed = done[q].regressed
      /\ \A r \in Ids \ {q} : Started(p, q)[r] = done[r]
  BY <1>1, <1>2 DEF Phase
<1> QED
  BY <1>1, <1>3 DEF done

\* The phase that starts after p.
Starts(q, p) ==
    /\ q \in Ids \ {p} /\ phases[q].status = "PENDING"
    /\ \A r \in Ids \ {p} : phases[r].status = "PENDING" => phases[q].order <= phases[r].order
    /\ \A r \in Ids \ {p} : phases[r].order < phases[q].order => phases[r].status = "COMPLETED"

LEMMA StartableMeaning ==
    ASSUME TypeInv, NEW p \in Ids
    PROVE  \A q : q \in Startable(Done(p)) <=> Starts(q, p)
<1> DEFINE done == Done(p)
<1>1. /\ DOMAIN done = Ids /\ done[p].status = "COMPLETED"
      /\ \A r \in Ids : done[r].order = phases[r].order
      /\ \A r \in Ids \ {p} : done[r] = phases[r]
  BY DoneMeaning
<1> HIDE DEF done
<1>2. \A q : q \in FirstPending(done) <=>
        /\ q \in Ids \ {p} /\ phases[q].status = "PENDING"
        /\ \A r \in Ids \ {p} : phases[r].status = "PENDING" => phases[q].order <= phases[r].order
  BY <1>1 DEF FirstPending
<1>3. \A q \in Ids \ {p} : AllCompleted(done, Before(done, q)) <=>
        \A r \in Ids \ {p} : phases[r].order < phases[q].order => phases[r].status = "COMPLETED"
  BY <1>1 DEF AllCompleted, Before
<1>4. \A q : q \in Startable(done) <=> Starts(q, p)
  BY <1>2, <1>3 DEF Startable, Starts
<1> QED
  BY <1>4 DEF done

\* What a completion writes: p is done and the next phase starts, if one can.
LEMMA Completion ==
    ASSUME TypeInv, NEW p \in Ids, NEW u, Complete(p, u)
    PROVE  /\ SameOrders /\ unused' = unused
           /\ status' = (IF NoneOpen(phases', p) THEN "COMPLETED" ELSE status)
           /\ locked' = (locked \/ (u /\ (p \in Locks \/ NoneOpen(phases', p))))
           /\ locked' \in BOOLEAN
           /\ \/ (\A q : ~Starts(q, p)) /\ phases' = Done(p)
              \/ \E q : Starts(q, p) /\ phases' = Started(p, q)
<1>1. /\ phases' \in IF Startable(Done(p)) = {} THEN {Done(p)}
                     ELSE {Started(p, q) : q \in Startable(Done(p))}
      /\ status' = (IF NoneOpen(phases', p) THEN "COMPLETED" ELSE status)
      /\ locked' = (locked \/ (u /\ (p \in Locks \/ NoneOpen(phases', p))))
      /\ unused' = unused
  BY DEF Complete, Done, Started
<1>2. \/ (\A q : ~Starts(q, p)) /\ phases' = Done(p)
      \/ \E q : Starts(q, p) /\ phases' = Started(p, q)
  BY <1>1, StartableMeaning
<1>3. SameOrders
  <2>1. CASE phases' = Done(p)
    BY <2>1, DoneMeaning DEF SameOrders, Ids
  <2>2. ASSUME NEW q, Starts(q, p), phases' = Started(p, q) PROVE SameOrders
    <3>1. q \in Ids
      BY <2>2 DEF Starts
    <3> QED BY <2>2, <3>1, StartedMeaning DEF SameOrders, Ids
  <2> QED BY <1>2, <2>1, <2>2
<1>4. locked' \in BOOLEAN
  BY <1>1
<1> QED
  BY <1>1, <1>2, <1>3, <1>4

\* The timeline is at p; what follows p has not begun.
LEMMA AtCompletable ==
    ASSUME TypeInv, Agreement, Distinct, NEW p \in Ids, Completable(p)
    PROVE  /\ status \notin {"DRAFT", "COMPLETED"}
           /\ \A r \in Ids : phases[r].order < phases[p].order => phases[r].status = "COMPLETED"
           /\ \A r \in Ids : phases[r].order > phases[p].order => phases[r].status = "PENDING"
<1>1. phases[p].status = "IN_PROGRESS"
  BY DEF Completable
<1>2. status \notin {"DRAFT", "COMPLETED"}
  BY <1>1 DEF Agreement, AllCompleted
<1>3. PICK c \in Ids : Current(c)
  BY <1>2 DEF Agreement
<1>4. c = p
  BY <1>1, <1>3 DEF Current, AllCompleted
<1>5. \A r \in Ids : phases[r].order \in Nat
  BY DEF TypeInv, Phase
<1> QED
  BY <1>2, <1>3, <1>4, <1>5 DEF Current, AllCompleted, Before, Ids

LEMMA CompletionAgrees ==
    ASSUME TypeInv, Agreement, Distinct, NEW p \in Ids, Completable(p), Complete(p, ~locked)
    PROVE  Agreement'
<1>1. /\ SameOrders
      /\ status' = (IF NoneOpen(phases', p) THEN "COMPLETED" ELSE status)
      /\ locked' = (locked \/ (~locked /\ (p \in Locks \/ NoneOpen(phases', p))))
      /\ \/ (\A q : ~Starts(q, p)) /\ phases' = Done(p)
         \/ \E q : Starts(q, p) /\ phases' = Started(p, q)
  BY Completion
<1>2. /\ status \notin {"DRAFT", "COMPLETED"}
      /\ \A r \in Ids : phases[r].order < phases[p].order => phases[r].status = "COMPLETED"
      /\ \A r \in Ids : phases[r].order > phases[p].order => phases[r].status = "PENDING"
  BY AtCompletable
<1>3. /\ \A r \in Ids : phases[r].order \in Nat
      /\ \A r \in Ids \ {p} : phases[r].order # phases[p].order
      /\ Ids' = Ids /\ DOMAIN phases' = Ids
  BY <1>1 DEF TypeInv, Phase, Distinct, SameOrders
<1>4. CASE (\A q : ~Starts(q, p)) /\ phases' = Done(p)
  <2> DEFINE rest == {r \in Ids : phases[r].order > phases[p].order}
  <2>1. rest = {}
    <3> SUFFICES ASSUME rest # {} PROVE FALSE
      OBVIOUS
    <3>1. PICK q \in rest : \A r \in rest : phases[q].order <= phases[r].order
      BY LeastOrder DEF TypeInv
    <3>2. Starts(q, p)
      BY <1>2, <1>3, <3>1 DEF Starts
    <3> QED BY <1>4, <3>2
  <2>2. \A r \in Ids : phases'[r].status = "COMPLETED"
    <3>1. \A r \in Ids \ {p} : phases[r].status = "COMPLETED"
      BY <1>2, <1>3, <2>1
    <3> QED BY <1>4, <3>1, DoneMeaning
  <2>3. NoneOpen(phases', p)
    BY <1>3, <2>2 DEF NoneOpen, AllCompleted
  <2>4. status' = "COMPLETED" /\ locked'
    BY <1>1, <2>3 DEF TypeInv
  <2> QED BY <1>3, <2>2, <2>4 DEF Agreement, AllCompleted
<1>5. ASSUME NEW q, Starts(q, p), phases' = Started(p, q)
      PROVE  Agreement'
  <2>1. /\ q \in Ids \ {p} /\ phases'[q].status = "IN_PROGRESS"
        /\ phases'[p].status = "COMPLETED"
        /\ \A r \in Ids \ {p, q} : phases'[r] = phases[r]
        /\ \A r \in Ids : phases'[r].order = phases[r].order
    BY <1>5, DoneMeaning, StartedMeaning DEF Starts
  <2>2. phases[p].order < phases[q].order
    BY <1>2, <1>3, <1>5 DEF Starts
  <2>3. status' = status
    BY <1>1, <1>3, <2>1 DEF NoneOpen, AllCompleted
  <2>4. Current(q)'
    <3>1. AllCompleted(phases', Before(phases', q))
      BY <1>3, <1>5, <2>1 DEF Starts, AllCompleted, Before
    <3>2. \A r \in Ids' \ (Before(phases', q) \cup {q}) : phases'[r].status = "PENDING"
      BY <1>2, <1>3, <2>1, <2>2 DEF Before
    <3> QED BY <1>3, <2>1, <3>1, <3>2 DEF Current
  <2> QED BY <1>2, <1>3, <2>1, <2>3, <2>4 DEF Agreement
<1> QED
  BY <1>1, <1>4, <1>5

\* A timeline that is completed, and stays so or becomes so, has no open phase.
LEMMA CompletionDone ==
    ASSUME TypeInv, AllDone, NEW p \in Ids, NEW u, Complete(p, u)
    PROVE  AllDone'
<1>1. /\ SameOrders
      /\ status' = (IF NoneOpen(phases', p) THEN "COMPLETED" ELSE status)
      /\ \/ (\A q : ~Starts(q, p)) /\ phases' = Done(p)
         \/ \E q : Starts(q, p) /\ phases' = Started(p, q)
  BY Completion
<1>2. Ids' = Ids /\ DOMAIN phases' = Ids
  BY <1>1 DEF SameOrders
<1>3. phases'[p].status = "COMPLETED"
  BY <1>1, DoneMeaning, StartedMeaning DEF Starts
<1>4. CASE NoneOpen(phases', p)
  BY <1>2, <1>3, <1>4 DEF NoneOpen, AllCompleted, AllDone
<1>5. CASE ~NoneOpen(phases', p)
  <2> SUFFICES ASSUME status = "COMPLETED" PROVE NoneOpen(phases', p)
    BY <1>1, <1>5 DEF AllDone
  <2>1. \A q \in Ids : phases[q].status = "COMPLETED"
    BY DEF AllDone, AllCompleted
  <2>2. phases' = Done(p)
    BY <1>1, <2>1 DEF Starts
  <2> QED BY <1>2, <2>1, <2>2, DoneMeaning DEF NoneOpen, AllCompleted
<1> QED
  BY <1>4, <1>5

LEMMA CompletePhaseStep ==
    ASSUME TimelineInv, NEW a \in Admins, CompletePhase(a)
    PROVE  TimelineInv'
<1> DEFINE p == admin[a].phase
<1>1. /\ Asks(a, Idle) /\ admin[a].step = "complete" /\ admin[a] # Idle
      /\ UNCHANGED <<metric, hook, env>>
  BY Asking DEF CompletePhase, TimelineInv, Idle
<1>2. CASE p \notin Ids
  BY <1>1, <1>2, NothingWritten DEF CompletePhase
<1>3. CASE p \in Ids
  <2>1. Complete(p, admin[a].unlocked)
    BY <1>3 DEF CompletePhase
  <2>2. Written
    BY <1>1, <1>3, <2>1, Completion DEF TimelineInv, TypeInv, Written, Statuses
  <2>3. ASSUME Calm' PROVE Agreement'
    <3>1. Calm
      BY <1>1, <2>3 DEF Calm
    <3>2. Completable(p) /\ admin[a].unlocked = ~locked
      BY <1>1, <3>1 DEF TimelineInv, ReadInv, StillRead, Calm
    <3>3. Agreement /\ Distinct
      BY <3>1 DEF TimelineInv, AgreeInv, OrderInv, Calm
    <3> QED BY <1>3, <2>1, <3>2, <3>3, CompletionAgrees DEF TimelineInv
  <2>4. AgreeInv'
    BY <1>1, <1>3, <2>1, <2>3, CompletionDone DEF TimelineInv, AgreeInv, Asks
  <2> QED BY <1>1, <2>2, <2>4, RequestWrites
<1> QED
  BY <1>2, <1>3

LEMMA CompleteByHookStep ==
    ASSUME TimelineInv, NEW h \in Hooks, CompleteByHook(h)
    PROVE  TimelineInv'
<1> DEFINE p == hook[h].phase
<1>1. /\ hook[h].step = "complete" /\ hook[h] # Idle
      /\ UNCHANGED <<metric, admin, env>>
  BY DEF CompleteByHook, Idle
<1>2. ~env.races => StillFetched(h)
  BY DEF TimelineInv, ReadInv
<1>3. CASE p \notin Ids
  <2> DEFINE k == hook[h].otherwise
  <2>1. Runs(h, k) /\ UNCHANGED dataVars
    BY <1>1, <1>3, Running DEF CompleteByHook, TimelineInv
  <2>2. /\ k.step \in {"advance", "change", "idle"}
        /\ k.step = "change" => k.changes \subseteq Proposals
    BY <1>1 DEF TimelineInv, TypeInv
  <2>3. env.races
    BY <1>1, <1>2, <1>3 DEF StillFetched, Completable
  <2> HIDE DEF k
  <2> QED BY <1>1, <2>1, <2>2, <2>3, HookReads
<1>4. CASE p \in Ids
  <2> DEFINE k == hook[h].then
  <2>1. Runs(h, k) /\ Complete(p, hook[h].unlocked)
    BY <1>1, <1>4, Running DEF CompleteByHook, TimelineInv
  <2>2. k.step \in {"advance", "fetch"}
    BY <1>1 DEF TimelineInv, TypeInv
  <2>3. ~env.races => StillFetched(h)'
    <3>1. ~env.races /\ k.step = "fetch" => k.full = Full
      BY <1>1, <1>2 DEF StillFetched
    <3>2. Full' = Full /\ hook'[h] = k
      BY <1>1, <2>1 DEF Full, Runs
    <3> HIDE DEF k
    <3> QED BY <2>2, <3>1, <3>2 DEF StillFetched
  <2>4. Written
    BY <1>1, <1>4, <2>1, Completion DEF TimelineInv, TypeInv, Written, Statuses
  <2>5. ASSUME Calm' PROVE Agreement'
    <3>1. Calm
      BY <1>1, <2>5 DEF Calm
    <3>2. Completable(p) /\ hook[h].unlocked = ~locked
      BY <1>1, <1>2, <3>1 DEF StillFetched, Calm
    <3>3. Agreement /\ Distinct
      BY <3>1 DEF TimelineInv, AgreeInv, OrderInv, Calm
    <3> QED BY <1>4, <2>1, <3>2, <3>3, CompletionAgrees DEF TimelineInv
  <2>6. AgreeInv'
    BY <1>1, <1>4, <2>1, <2>5, CompletionDone DEF TimelineInv, AgreeInv
  <2> HIDE DEF k
  <2> QED BY <1>1, <2>1, <2>2, <2>3, <2>4, <2>6, HookWrites
<1> QED
  BY <1>3, <1>4

-----------------------------------------------------------------------------
(* The reconciliation *)

\* A mark is written on a phase.
LEMMA Marking ==
    ASSUME TypeInv, NEW p \in Ids, NEW m \in {"no", "recent", "old"},
           phases' = [phases EXCEPT ![p].regressed = m], UNCHANGED <<status, locked>>
    PROVE  Unmoved
<1>1. phases \in [Ids -> Phase]
  BY DEF TypeInv
<1> QED
  BY <1>1 DEF Unmoved, SameOrders, Phase, Ids

LEMMA MarkRegressionStep ==
    ASSUME TimelineInv, NEW h \in Hooks, MarkRegression(h)
    PROVE  TimelineInv'
<1>1. /\ hook[h].step = "change" /\ hook[h] # Idle
      /\ UNCHANGED <<status, locked, unused, metric, admin, env>>
  BY DEF MarkRegression, Idle
<1>2. CASE Run(h, Idle) /\ UNCHANGED phases
  <2>1. Runs(h, Idle)
    BY <1>1, <1>2, Running DEF TimelineInv
  <2>2. StillFetched(h)' /\ Idle.step = "idle"
    BY <2>1 DEF StillFetched, Runs, Idle
  <2> QED BY <1>1, <1>2, <2>1, <2>2, HookReads DEF dataVars
<1>3. ASSUME NEW c \in Due(h), c.phase \in Ids, Run(h, Again(h)),
             phases' = [phases EXCEPT ![c.phase].regressed = IF c.do = "mark" THEN "recent" ELSE "no"]
      PROVE  TimelineInv'
  <2>1. Unmoved
    BY <1>1, <1>3, Marking DEF TimelineInv
  <2>2. Runs(h, Again(h)) /\ Again(h).step = "fetch"
    BY <1>1, <1>3, Running DEF TimelineInv, Again
  <2>3. ~env.races => StillFetched(h)'
    <3>1. ~env.races => Again(h).full = Full
      BY <1>1 DEF TimelineInv, ReadInv, StillFetched, Again
    <3>2. Full' = Full
      BY <1>1 DEF Full
    <3> QED BY <2>2, <3>1, <3>2 DEF StillFetched, Runs
  <2>4. Written /\ AgreeInv'
    BY <1>1, <2>1, UnmovedAgrees DEF TimelineInv, TypeInv, Written, Unmoved
  <2> QED BY <1>1, <2>2, <2>3, <2>4, HookWrites
<1> QED
  BY <1>2, <1>3 DEF MarkRegression

\* The phases from an order on start over, the first of them at once.
Reopened(order) ==
    /\ SameOrders
    /\ \A p \in Ids : phases[p].order < order => phases'[p] = phases[p]
    /\ \A p \in Affected(order) :
         phases'[p].regressed = "no" /\ phases'[p].status \in {"IN_PROGRESS", "PENDING"}
    /\ Affected(order) # {} => \E f \in Affected(order) :
         /\ phases'[f].status = "IN_PROGRESS"
         /\ \A p \in Affected(order) \ {f} :
              phases[f].order <= phases[p].order /\ phases'[p].status = "PENDING"

LEMMA Reopening ==
    ASSUME TypeInv, NEW h \in Hooks, Reopen(h)
    PROVE  \E c \in hook[h].changes : c.do = "reopen" /\ c.order \in Nat /\ Reopened(c.order)
<1>1. PICK c \in hook[h].changes :
        LET affected == Affected(c.order)
            first == CHOOSE p \in affected :
                       \A q \in affected : phases[p].order <= phases[q].order
        IN  /\ c.do = "reopen"
            /\ phases' =
                 [p \in Ids |->
                    IF p \notin affected THEN phases[p]
                    ELSE [phases[p] EXCEPT !.regressed = "no",
                            !.status = IF p = first THEN "IN_PROGRESS" ELSE "PENDING"]]
  BY DEF Reopen, Due
<1>2. c.order \in Nat /\ c.do = "reopen"
  BY <1>1 DEF Reopen, TypeInv, Proposals
<1> DEFINE affected == Affected(c.order)
           first == CHOOSE p \in affected : \A q \in affected : phases[p].order <= phases[q].order
<1>3. phases \in [Ids -> Phase] /\ affected \subseteq Ids
  BY DEF TypeInv, Affected
<1>4. affected # {} => first \in affected /\ \A q \in affected : phases[first].order <= phases[q].order
  BY <1>3, LeastOrder
<1>5. \A p \in Ids : p \in affected <=> ~(phases[p].order < c.order)
  BY <1>2, <1>3 DEF Affected, Phase
<1>6. /\ DOMAIN phases' = Ids
      /\ \A p \in Ids \ affected : phases'[p] = phases[p]
      /\ \A p \in affected : phases'[p] = [phases[p] EXCEPT !.regressed = "no",
                               !.status = IF p = first THEN "IN_PROGRESS" ELSE "PENDING"]
      /\ phases' = [p \in Ids |-> phases'[p]]
  BY <1>1, <1>3 DEF Ids
<1> HIDE DEF first, affected
<1>7. \A p \in affected :
        /\ phases'[p] \in Phase /\ phases'[p].order = phases[p].order
        /\ phases'[p].status = IF p = first THEN "IN_PROGRESS" ELSE "PENDING"
        /\ phases'[p].regressed = "no"
  <2> TAKE p \in affected
  <2>1. phases[p] \in Phase
    BY <1>3
  <2>2. CASE p = first
    <3>1. phases'[p] = [phases[p] EXCEPT !.regressed = "no", !.status = "IN_PROGRESS"]
      BY <1>6, <2>2
    <3> QED BY <2>1, <2>2, <3>1 DEF Phase
  <2>3. CASE p # first
    <3>1. phases'[p] = [phases[p] EXCEPT !.regressed = "no", !.status = "PENDING"]
      BY <1>6, <2>3
    <3> QED BY <2>1, <2>3, <3>1 DEF Phase
  <2> QED BY <2>2, <2>3
<1>8. SameOrders
  BY <1>3, <1>6, <1>7 DEF SameOrders, Ids
<1>9. \A p \in Ids : phases[p].order < c.order => phases'[p] = phases[p]
  BY <1>5, <1>6
<1>10. affected # {} => \E f \in affected :
         /\ phases'[f].status = "IN_PROGRESS"
         /\ \A p \in affected \ {f} :
              phases[f].order <= phases[p].order /\ phases'[p].status = "PENDING"
  BY <1>4, <1>7
<1> QED
  BY <1>2, <1>7, <1>8, <1>9, <1>10 DEF Reopened, affected

LEMMA ReopenStep ==
    ASSUME TimelineInv, NEW h \in Hooks, Reopen(h)
    PROVE  TimelineInv'
<1>1. /\ hook[h].step = "change" /\ hook[h] # Idle /\ Run(h, Again(h))
      /\ status' = (IF status = "COMPLETED" THEN "ACTIVE" ELSE status)
      /\ UNCHANGED <<locked, unused, metric, admin, env>>
  <2>1. /\ hook[h].step = "change" /\ Run(h, Again(h))
        /\ status' = (IF status = "COMPLETED" THEN "ACTIVE" ELSE status)
        /\ UNCHANGED <<locked, unused, metric, admin, env>>
    BY Zenon DEF Reopen
  <2> QED BY <2>1 DEF Idle
<1>2. PICK c \in hook[h].changes : c.do = "reopen" /\ c.order \in Nat /\ Reopened(c.order)
  BY Reopening DEF TimelineInv
<1>3. Runs(h, Again(h)) /\ Again(h).step = "fetch"
  BY <1>1, Running DEF TimelineInv, Again
<1>4. ~env.races => StillFetched(h)'
  <2>1. ~env.races => Again(h).full = Full
    BY <1>1 DEF TimelineInv, ReadInv, StillFetched, Again
  <2>2. Full' = Full
    BY <1>1 DEF Full
  <2> QED BY <1>3, <2>1, <2>2 DEF StillFetched, Runs
<1>5. Written
  BY <1>1, <1>2 DEF TimelineInv, TypeInv, Written, Reopened, Statuses
<1>6. ASSUME Calm' PROVE Agreement'
  <2>1. Calm /\ Agreement /\ Distinct
    BY <1>1, <1>6 DEF TimelineInv, AgreeInv, OrderInv, Calm
  <2>2. c \in Changes(Full)
    BY <1>1, <2>1 DEF TimelineInv, ReadInv, StillFetched, Calm
  <2>3. PICK p \in Ids : c.do = Change(p, Full) /\ c.order = phases[p].order
    BY <2>2 DEF Changes
  <2>4. phases[p].status = "COMPLETED" /\ status = "ACTIVE"
    BY <1>2, <2>3, ChangeMeaning DEF CanAutoTransition
  <2>5. PICK x \in Ids : Current(x)
    BY <2>1, <2>4 DEF Agreement
  <2>6. /\ \A r \in Ids : phases[r].order \in Nat
        /\ Ids' = Ids /\ DOMAIN phases' = Ids
        /\ \A r \in Ids : phases'[r].order = phases[r].order
    BY <1>2 DEF TimelineInv, TypeInv, Phase, Reopened, SameOrders
  <2>7. phases[p].order < phases[x].order
    BY <2>4, <2>5 DEF Current, Before
  <2>8. p \in Affected(c.order) /\ \A r \in Ids : r \in Affected(c.order) <=> ~(r \in Before(phases, p))
    BY <2>3, <2>6 DEF Affected, Before, Ids
  <2>9. PICK f \in Affected(c.order) :
          /\ phases'[f].status = "IN_PROGRESS"
          /\ \A r \in Affected(c.order) \ {f} :
               phases[f].order <= phases[r].order /\ phases'[r].status = "PENDING"
    BY <1>2, <2>8 DEF Reopened
  <2>10. f = p
    BY <2>1, <2>3, <2>6, <2>8, <2>9 DEF Affected, Distinct
  <2>11. Before(phases', p) = Before(phases, p)
    BY <2>6 DEF Before, Ids
  <2>12. \A r \in Before(phases, p) : phases'[r].status = "COMPLETED"
    BY <1>2, <2>3, <2>5, <2>6, <2>7 DEF Reopened, Current, AllCompleted, Before, Ids
  <2>13. Current(p)'
    BY <2>6, <2>8, <2>9, <2>10, <2>11, <2>12 DEF Current, AllCompleted
  <2> QED BY <1>1, <2>4, <2>6, <2>13 DEF Agreement
<1>7. AgreeInv'
  BY <1>1, <1>6 DEF AgreeInv, AllDone
<1> QED
  BY <1>1, <1>3, <1>4, <1>5, <1>7, HookWrites

-----------------------------------------------------------------------------
(* addPhase and removePhase *)

LEMMA AddPhaseStep ==
    ASSUME TimelineInv, NEW p \in PhaseIds, NEW new \in 0..Cardinality(Ids), AddPhase(p, new)
    PROVE  TimelineInv'
<1>1. /\ env.edits /\ Undisturbed /\ p \in unused
      /\ unused' = unused \ {p}
      /\ UNCHANGED <<status, locked, metric, admin, hook, env>>
  BY DEF AddPhase
<1>2. phases' = [q \in Ids \cup {p} |->
                   IF q = p THEN [order |-> new, status |-> "PENDING", regressed |-> "no"]
                   ELSE [phases[q] EXCEPT !.order = IF MovesUp(@, new) THEN @ + 1 ELSE @]]
  BY DEF AddPhase
<1>3. phases \in [Ids -> Phase] /\ p \notin Ids /\ new \in Nat
  BY <1>1 DEF TimelineInv, TypeInv
<1>4. ASSUME NEW q \in Ids
      PROVE  /\ phases'[q] \in Phase
             /\ phases'[q].order = IF phases[q].order >= new THEN phases[q].order + 1
                                   ELSE phases[q].order
  <2>1. phases'[q] = [phases[q] EXCEPT !.order = IF MovesUp(@, new) THEN @ + 1 ELSE @]
    BY <1>2, <1>3
  <2>2. phases[q] \in Phase
    BY <1>3
  <2> QED BY <1>3, <2>1, <2>2 DEF Phase, MovesUp
<1>5. phases'[p] \in Phase /\ phases'[p].order = new
  BY <1>2, <1>3 DEF Phase
<1>6. Ids' = Ids \cup {p} /\ phases' \in [Ids' -> Phase]
  <2>1. DOMAIN phases' = Ids \cup {p} /\ phases' = [q \in Ids \cup {p} |-> phases'[q]]
    BY <1>2
  <2> QED BY <1>4, <1>5, <2>1 DEF Ids
<1>7. TypeInv'
  BY <1>1, <1>6 DEF TimelineInv, TypeInv
<1>8. OrderInv'
  <2>1. Distinct => Distinct'
    BY <1>3, <1>4, <1>5, <1>6 DEF Distinct, Phase
  <2> QED BY <1>1, <2>1 DEF TimelineInv, OrderInv
<1>9. LoneInv' /\ ReadInv'
  <2>1. CASE env.races
    BY <1>1, <2>1 DEF LoneInv, ReadInv
  <2>2. CASE ~env.races
    BY <1>1, <2>2, WorldAlone DEF Undisturbed
  <2> QED BY <2>1, <2>2
<1>10. SeenInv' /\ AgreeInv'
  BY <1>1 DEF SeenInv, AgreeInv, Calm
<1> QED
  BY <1>7, <1>8, <1>9, <1>10 DEF TimelineInv

LEMMA RemovePhaseStep ==
    ASSUME TimelineInv, NEW a \in Admins, RemovePhase(a)
    PROVE  TimelineInv'
<1> DEFINE p == admin[a].phase
           seen == admin[a].seen
           rest == DOMAIN seen \ {p}
<1>1. /\ Asks(a, Idle) /\ admin[a].step = "remove" /\ admin[a] # Idle
      /\ UNCHANGED <<status, locked, unused, metric, hook, env>>
  BY Asking DEF RemovePhase, TimelineInv, Idle
<1>2. env.edits
  BY <1>1 DEF TimelineInv, SeenInv
<1>3. PICK index \in Numberings(seen, rest) :
        LET moved == {q \in rest : seen[q].order # index[q]}
        IN  phases' = IF p \in Ids /\ moved \subseteq Ids
                      THEN [q \in Ids \ {p} |->
                              IF q \in moved THEN [phases[q] EXCEPT !.order = index[q]]
                              ELSE phases[q]]
                      ELSE phases
  BY DEF RemovePhase
<1> DEFINE moved == {q \in rest : seen[q].order # index[q]}
<1>4. CASE ~(p \in Ids /\ moved \subseteq Ids)
  <2>1. UNCHANGED dataVars
    BY <1>1, <1>3, <1>4 DEF dataVars
  <2> QED BY <1>1, <2>1, NothingWritten
<1>5. CASE p \in Ids /\ moved \subseteq Ids
  <2>1. phases' = [q \in Ids \ {p} |->
                     IF q \in moved THEN [phases[q] EXCEPT !.order = index[q]] ELSE phases[q]]
    BY <1>3, <1>5
  <2>2. phases \in [Ids -> Phase] /\ DOMAIN index = rest /\ \A q \in rest : index[q] \in Nat
    BY <1>3 DEF TimelineInv, TypeInv, Numberings
  <2>3. moved \subseteq rest
    OBVIOUS
  <2>4. ASSUME NEW q \in Ids \ {p}
        PROVE  /\ phases'[q] \in Phase
               /\ phases'[q].order = IF q \in moved THEN index[q] ELSE phases[q].order
    <3>1. phases'[q] = IF q \in moved THEN [phases[q] EXCEPT !.order = index[q]] ELSE phases[q]
      BY <2>1
    <3> HIDE DEF moved, p, rest
    <3> QED BY <2>2, <2>3, <3>1 DEF Phase
  <2>5. Ids' = Ids \ {p} /\ phases' \in [Ids' -> Phase]
    <3>1. DOMAIN phases' = Ids \ {p} /\ phases' = [q \in Ids \ {p} |-> phases'[q]]
      BY <2>1
    <3> QED BY <2>4, <3>1 DEF Ids
  <2>6. TypeInv'
    BY <1>1, <2>5 DEF TimelineInv, TypeInv, Asks, Idle
  <2>7. OrderInv'
    <3> SUFFICES ASSUME ~env.races PROVE Distinct'
      BY <1>1, <1>2 DEF OrderInv
    <3>1. seen = phases
      BY <1>1 DEF TimelineInv, ReadInv, StillRead
    <3>2. rest = Ids \ {p}
      BY <3>1 DEF Ids
    <3>3. \A q \in rest : phases'[q].order = index[q]
      BY <2>4, <3>1, <3>2
    <3>4. \A q, r \in rest : q # r => index[q] # index[r]
      BY <1>3 DEF Numberings
    <3>5. Ids' = rest
      BY <2>5, <3>2
    <3> HIDE DEF rest
    <3> QED BY <3>3, <3>4, <3>5 DEF Distinct
  <2>8. LoneInv' /\ ReadInv'
    <3>1. CASE env.races
      BY <1>1, <3>1 DEF LoneInv, ReadInv
    <3>2. CASE ~env.races
      <4>1. StillRead(a)'
        BY <1>1 DEF StillRead, Asks, Idle
      <4> QED BY <1>1, <3>2, <4>1, RequestAlone DEF TimelineInv
    <3> QED BY <3>1, <3>2
  <2>9. SeenInv' /\ AgreeInv'
    BY <1>1, <1>2 DEF SeenInv, AgreeInv, Calm
  <2> QED BY <2>6, <2>7, <2>8, <2>9 DEF TimelineInv
<1> QED
  BY <1>4, <1>5

-----------------------------------------------------------------------------
(* The world *)

\* Nothing is at work, and only scores or marks change.
LEMMA WorldStep ==
    ASSUME TimelineInv, Undisturbed, Unmoved, UNCHANGED <<unused, admin, hook, env>>,
           metric' \in [AdvanceKinds -> View], \A k \in AdvanceKinds : metric'[k] \in env.views[k]
    PROVE  TimelineInv'
<1>1. TypeInv'
  BY DEF TimelineInv, TypeInv, Unmoved, SameOrders
<1>2. OrderInv' /\ SeenInv'
  BY OrdersKept, SeenKept DEF TimelineInv, Unmoved
<1>3. LoneInv' /\ ReadInv'
  <2>1. CASE env.races
    BY <2>1 DEF LoneInv, ReadInv
  <2>2. CASE ~env.races
    BY <2>2, WorldAlone DEF Undisturbed
  <2> QED BY <2>1, <2>2
<1>4. AgreeInv'
  BY UnmovedAgrees DEF TimelineInv
<1> QED
  BY <1>1, <1>2, <1>3, <1>4 DEF TimelineInv

LEMMA WorkStep ==
    ASSUME TimelineInv, NEW k \in AdvanceKinds, Work(k)
    PROVE  TimelineInv'
<1>1. PICK v \in env.views[k] : metric' = [metric EXCEPT ![k] = v]
  BY DEF Work
<1>2. Undisturbed /\ UNCHANGED <<dataVars, admin, hook, env>>
  BY DEF Work
<1>3. v \in View
  BY TimelineAssumption DEF TimelineInv, TypeInv
<1>4. metric' \in [AdvanceKinds -> View] /\ \A j \in AdvanceKinds : metric'[j] \in env.views[j]
  BY <1>1, <1>3 DEF TimelineInv, TypeInv
<1>5. Unmoved
  BY <1>2, UnchangedOrders DEF TimelineInv, Unmoved, dataVars
<1> QED
  BY <1>2, <1>4, <1>5, WorldStep DEF dataVars

LEMMA GraceEndsStep ==
    ASSUME TimelineInv, NEW p \in PhaseIds, GraceEnds(p)
    PROVE  TimelineInv'
<1>1. Unmoved
  BY Marking DEF TimelineInv, GraceEnds
<1>2. Undisturbed
  BY DEF GraceEnds, Undisturbed
<1> QED
  BY <1>1, <1>2, WorldStep DEF GraceEnds, TimelineInv, TypeInv

-----------------------------------------------------------------------------
(* The invariant *)

LEMMA InitInv == Init => TimelineInv /\ (status = "DRAFT" \/ GoesOn)
<1> SUFFICES ASSUME Init PROVE TimelineInv /\ (status = "DRAFT" \/ GoesOn)
  OBVIOUS
<1> DEFINE place(p) == CHOOSE i \in DOMAIN Originals : Originals[i] = p
           count == Len(Originals)
           Stage(p, n) == [order |-> place(p) - 1, regressed |-> "no",
                           status |-> IF place(p) <= n THEN "COMPLETED"
                                      ELSE IF place(p) = n + 1 THEN "IN_PROGRESS" ELSE "PENDING"]
<1>1. /\ count \in Nat /\ DOMAIN Originals = 1..count /\ Range(Originals) \subseteq PhaseIds
      /\ \A p \in Range(Originals) : place(p) \in 1..count /\ Originals[place(p)] = p
      /\ \A i, j \in 1..count : Originals[i] = Originals[j] => i = j
  BY TimelineAssumption DEF Range, IsInjective
<1>2. ASSUME NEW n, NEW p \in Range(Originals)
      PROVE  Begun(n)[p] = Stage(p, n)
  BY DEF Begun
<1>3. \A n : Begun(n) = [p \in Range(Originals) |-> Begun(n)[p]]
  BY DEF Begun
<1> HIDE DEF place, count, Stage
<1>4. /\ phases \in [Range(Originals) -> Phase] /\ Ids = Range(Originals)
      /\ \A p \in Ids : phases[p].order = place(p) - 1
  <2>1. CASE \E n \in Int : phases = Begun(n)
    <3>1. PICK n \in Int : phases = Begun(n)
      BY <2>1
    <3>2. ASSUME NEW p \in Range(Originals)
          PROVE  phases[p] \in Phase /\ phases[p].order = place(p) - 1
      <4>1. phases[p] = Stage(p, n)
        BY <1>2, <3>1
      <4> QED BY <1>1, <4>1 DEF Phase, Stage
    <3> QED BY <1>3, <3>1, <3>2 DEF Ids
  <2>2. CASE phases = [p \in Range(Originals) |-> [Begun(0)[p] EXCEPT !.status = "PENDING"]]
    <3>1. ASSUME NEW p \in Range(Originals)
          PROVE  phases[p] \in Phase /\ phases[p].order = place(p) - 1
      <4>1. phases[p] = [Stage(p, 0) EXCEPT !.status = "PENDING"]
        BY <1>2, <2>2
      <4> QED BY <1>1, <4>1 DEF Phase, Stage
    <3> QED BY <2>2, <3>1 DEF Ids
  <2> QED BY <1>1, <2>1, <2>2 DEF Init, count
<1>5. TypeInv
  <2>1. \A h \in Hooks : hook[h].step = "idle"
    BY DEF Init, Idle
  <2>2. metric \in [AdvanceKinds -> View] /\ \A k \in AdvanceKinds : metric[k] \in env.views[k]
    BY DEF Init
  <2>3. Ids \subseteq PhaseIds \ unused
    BY <1>1, <1>4 DEF Init
  <2> QED BY <1>4, <2>1, <2>2, <2>3 DEF Init, TypeInv, Statuses
<1>6. Distinct
  BY <1>1, <1>4 DEF Distinct
<1>7. LoneInv /\ ReadInv /\ SeenInv
  <2>1. /\ \A a \in Admins : admin[a] = Idle /\ admin[a].step = "idle"
        /\ \A h \in Hooks : hook[h] = Idle /\ hook[h].step = "idle"
    BY DEF Init, Idle
  <2> QED BY <2>1 DEF LoneInv, ReadInv, SeenInv, StillRead, StillFetched
<1>8. ASSUME NEW n \in 0..count, phases = Begun(n)
      PROVE  /\ n < count => \E p \in Ids : Current(p)
             /\ n = count => AllCompleted(phases, Ids)
             /\ GoesOn
  <2> DEFINE p == Originals[n + 1]
  <2>1. n < count => p \in Ids /\ place(p) = n + 1
    BY <1>1, <1>4 DEF Range
  <2>2. ASSUME NEW q \in Ids
        PROVE  phases[q].status = IF place(q) <= n THEN "COMPLETED"
                                  ELSE IF place(q) = n + 1 THEN "IN_PROGRESS" ELSE "PENDING"
    <3>1. phases[q] = Stage(q, n)
      BY <1>2, <1>4, <1>8
    <3> QED BY <3>1 DEF Stage
  <2>3. \A q \in Ids : q # p => place(q) # n + 1
    BY <1>1, <1>4
  <2> HIDE DEF p
  <2>4. n < count => Current(p)
    BY <1>1, <1>4, <2>1, <2>2, <2>3 DEF Current, AllCompleted, Before, Ids
  <2>5. GoesOn
    <3> SUFFICES ASSUME NEW q \in Ids, phases[q].status = "PENDING"
                 PROVE  ~AllCompleted(phases, Before(phases, q))
      BY DEF GoesOn
    <3>1. place(q) > n + 1 /\ n < count
      BY <1>1, <1>4, <2>2
    <3>2. p \in Before(phases, q) /\ phases[p].status = "IN_PROGRESS"
      BY <1>1, <1>4, <2>1, <2>2, <3>1 DEF Before, Ids
    <3> QED BY <3>2 DEF AllCompleted
  <2>6. n = count => AllCompleted(phases, Ids)
    BY <1>1, <1>4, <2>2 DEF AllCompleted
  <2> QED BY <2>1, <2>4, <2>5, <2>6
<1>9. Calm => Agreement
  <2> SUFFICES ASSUME Calm PROVE Agreement
    OBVIOUS
  <2>1. CASE status = "DRAFT" /\ phases = [p \in Range(Originals) |->
                                             [Begun(0)[p] EXCEPT !.status = "PENDING"]]
    <3>1. ASSUME NEW p \in Ids PROVE phases[p].status = "PENDING"
      <4>1. phases[p] = [Stage(p, 0) EXCEPT !.status = "PENDING"]
        BY <1>2, <1>4, <2>1
      <4> QED BY <4>1 DEF Stage
    <3> QED BY <2>1, <3>1 DEF Agreement
  <2>2. CASE status = "ACTIVE" /\ \E n \in 0..count - 1 : phases = Begun(n)
    <3>1. PICK n \in 0..count - 1 : phases = Begun(n)
      BY <2>2
    <3>2. \E p \in Ids : Current(p)
      BY <1>1, <1>8, <3>1
    <3> QED BY <2>2, <3>2 DEF Agreement
  <2> QED BY <2>1, <2>2 DEF Init, Calm, count
<1>10. status = "DRAFT" \/ \E n \in 0..count : phases = Begun(n)
  BY <1>1 DEF Init, count
<1>11. AllDone
  <2>1. status = "COMPLETED" => phases = Begun(count) /\ count \in 0..count
    BY <1>1 DEF Init, count
  <2> QED BY <1>8, <2>1 DEF AllDone
<1> QED
  BY <1>5, <1>6, <1>7, <1>8, <1>9, <1>10, <1>11 DEF TimelineInv, OrderInv, AgreeInv

LEMMA UnchangedInv == TimelineInv /\ UNCHANGED vars => TimelineInv'
<1> SUFFICES ASSUME TimelineInv, UNCHANGED vars PROVE TimelineInv'
  OBVIOUS
<1>1. /\ status' = status /\ locked' = locked /\ phases' = phases /\ unused' = unused
      /\ metric' = metric /\ admin' = admin /\ hook' = hook /\ env' = env
  BY DEF vars, dataVars
<1>2. TypeInv' /\ OrderInv' /\ LoneInv' /\ SeenInv'
  BY <1>1 DEF TimelineInv, TypeInv, OrderInv, LoneInv, SeenInv, Distinct, Firsts, Ids
<1>3. ReadInv'
  <2>1. \A a : StillRead(a) => StillRead(a)'
    BY <1>1 DEF StillRead, Firsts, Completable, AllCompleted, Before, Ids
  <2>2. /\ Full' = Full /\ Changes(Full)' = Changes(Full)
        /\ \A p : Completable(p)' <=> Completable(p)
    BY <1>1, NothingChanged DEF dataVars
  <2>3. \A h : StillFetched(h) => StillFetched(h)'
    BY <1>1, <2>2 DEF StillFetched
  <2> QED BY <1>1, <2>1, <2>3 DEF TimelineInv, ReadInv
<1>4. AgreeInv'
  <2>1. (\A p : Current(p)' <=> Current(p)) /\ Ids' = Ids
    BY <1>1 DEF Current, AllCompleted, Before, Ids
  <2>2. (AllDone => AllDone') /\ (Agreement => Agreement')
    BY <1>1, <2>1 DEF AllDone, Agreement, AllCompleted
  <2> QED BY <1>1, <2>2 DEF TimelineInv, AgreeInv, Calm
<1> QED
  BY <1>2, <1>3, <1>4 DEF TimelineInv

LEMMA NextInv == TimelineInv /\ [Next]_vars => TimelineInv'
<1> SUFFICES ASSUME TimelineInv, [Next]_vars PROVE TimelineInv'
  OBVIOUS
<1>1. ASSUME NEW a \in Admins, Requests(a) PROVE TimelineInv'
  BY <1>1, StartRequestStep, ActivateStep, PauseStep, ResumeStep, UnlockStep, ResetStep,
     StartCompleteStep, UploadStep, StartRemoveStep, CompleteUploadedStep, CompletePhaseStep,
     RemovePhaseStep DEF Requests
<1>2. ASSUME NEW h \in Hooks, Automation(h) PROVE TimelineInv'
  BY <1>2, StartHookStep, WeighStep, AdvanceStep, CompleteByHookStep, ReadScoresStep,
     FetchStep, MarkRegressionStep, ReopenStep, TryCompleteStep DEF Automation
<1>3. ASSUME NEW p \in PhaseIds, NEW new \in 0..Cardinality(Ids), AddPhase(p, new)
      PROVE  TimelineInv'
  BY <1>3, AddPhaseStep
<1>4. ASSUME NEW k \in AdvanceKinds, Work(k) PROVE TimelineInv'
  BY <1>4, WorkStep
<1>5. ASSUME NEW p \in PhaseIds, GraceEnds(p) PROVE TimelineInv'
  BY <1>5, GraceEndsStep
<1>6. CASE UNCHANGED vars
  BY <1>6, UnchangedInv
<1> QED
  BY <1>1, <1>2, <1>3, <1>4, <1>5, <1>6 DEF Next

\* The inductive invariant holds in every reachable state: orders stay distinct,
\* and without races a request or a hook is alone, and what it read is still so.
THEOREM TimelineInvariance == Spec => []TimelineInv
<1>1. Init => TimelineInv
  BY InitInv
<1>2. TimelineInv /\ [Next]_vars => TimelineInv'
  BY NextInv
<1> QED
  BY <1>1, <1>2, PTL DEF Spec

\* Every variable keeps its type, and addPhase and removePhase keep the orders
\* of the phases distinct unless they race.
THEOREM TimelineTypes == Spec => []TypeOK
<1>1. TimelineInv => TypeOK
  BY DEF TimelineInv, TypeInv, OrderInv, Distinct, TypeOK, Statuses
<1> QED
  BY <1>1, TimelineInvariance, PTL

\* The status of the timeline and those of its phases agree: in every reachable
\* state the phases before the one in progress are completed and none after it
\* has begun, whoever completes, reopens, resets and pauses, one at a time.
THEOREM StatusAndPhasesAgree == Spec => []StatusAgrees
<1>1. TimelineInv => StatusAgrees
  <2> SUFFICES ASSUME TimelineInv, ~env.edits PROVE StatusAgrees
    BY DEF StatusAgrees
  <2>1. AllDone /\ (Calm => Agreement) /\ status \in Statuses
    BY DEF TimelineInv, TypeInv, AgreeInv
  <2>2. ASSUME NEW p, Current(p) PROVE OneInProgress
    BY <2>2 DEF Current, OneInProgress
  <2> QED BY <2>1, <2>2 DEF StatusAgrees, AllDone, Agreement, Calm, Statuses
<1> QED
  BY <1>1, TimelineInvariance, PTL


-----------------------------------------------------------------------------
(* Marks *)

LEMMA EnvKept == [Next]_vars => env' = env
BY Zenon DEF Next, Requests, Automation, StartRequest, Activate, Pause, Resume, Unlock, Reset,
   StartComplete, Upload, StartRemove, CompleteUploaded, CompletePhase, RemovePhase, StartHook,
   Weigh, Advance, CompleteByHook, ReadScores, Fetch, MarkRegression, Reopen, TryComplete,
   AddPhase, Work, GraceEnds, vars

\* Only completed phases are marked, and a draft has none.
Marks(p) == /\ phases[p].status # "COMPLETED" => phases[p].regressed = "no"
            /\ status = "DRAFT" => phases[p].status = "PENDING"

MarksInv == ~env.races => \A p \in Ids : Marks(p)

LEMMA CompletionMarks ==
    ASSUME TypeInv, \A r \in Ids : Marks(r), NEW p, Completable(p), NEW u, Complete(p, u)
    PROVE  \A r \in Ids' : Marks(r)'
<1>1. p \in Ids /\ phases[p].status = "IN_PROGRESS"
  BY DEF Completable
<1>2. /\ Ids' = Ids /\ (status' = "COMPLETED" \/ status' = status)
      /\ phases' = Done(p) \/ \E q : Starts(q, p) /\ phases' = Started(p, q)
  BY <1>1, Completion DEF SameOrders
<1>3. \A r \in Ids : phases'[r].status # "COMPLETED" => phases'[r].regressed = "no"
  <2>1. CASE phases' = Done(p)
    BY <1>1, <2>1, DoneMeaning DEF Marks
  <2>2. ASSUME NEW q, Starts(q, p), phases' = Started(p, q)
        PROVE  \A r \in Ids : phases'[r].status # "COMPLETED" => phases'[r].regressed = "no"
    <3>1. /\ q \in Ids \ {p} /\ phases[q].status = "PENDING"
          /\ \A r \in Ids \ {q} : phases'[r] = Done(p)[r]
          /\ phases'[q].regressed = Done(p)[q].regressed
      BY <1>1, <2>2, StartedMeaning DEF Starts
    <3>2. /\ Done(p)[p].status = "COMPLETED" /\ \A r \in Ids \ {p} : Done(p)[r] = phases[r]
      BY <1>1, DoneMeaning
    <3> QED BY <3>1, <3>2 DEF Marks
  <2> QED BY <1>2, <2>1, <2>2
<1>4. status' # "DRAFT"
  BY <1>1, <1>2 DEF Marks
<1> QED
  BY <1>2, <1>3, <1>4 DEF Marks

LEMMA RequestMarks ==
    ASSUME TimelineInv, ~env.races, \A r \in Ids : Marks(r), NEW a \in Admins, Requests(a)
    PROVE  \A r \in Ids' : Marks(r)'
<1>1. CASE UNCHANGED dataVars
  BY <1>1 DEF dataVars, Ids, Marks
<1>2. StillRead(a) /\ phases \in [Ids -> Phase]
  BY DEF TimelineInv, TypeInv, ReadInv
<1>3. CASE Activate(a)
  <2>1. admin[a].seen.ids = Ids /\ status = "DRAFT" /\ AllThere(a)
    BY <1>2, <1>3 DEF StillRead, Activate, AllThere
  <2>2. /\ status' = "ACTIVE"
        /\ phases' = [p \in Ids |-> [phases[p] EXCEPT
                        !.status = IF p \in admin[a].seen.first THEN "IN_PROGRESS" ELSE "PENDING"]]
    BY <1>3, <2>1 DEF Activate
  <2>3. \A p \in Ids : phases'[p].regressed = phases[p].regressed
    BY <1>2, <2>2 DEF Phase
  <2>4. \A p \in Ids : phases[p].regressed = "no"
    BY <2>1 DEF Marks
  <2> QED BY <2>2, <2>3, <2>4 DEF Marks, Ids
<1>4. CASE Pause(a) \/ Resume(a) \/ Unlock(a)
  <2>1. UNCHANGED phases /\ (status' = "DRAFT" => status = "DRAFT")
    BY <1>4 DEF Pause, Resume, Unlock
  <2> QED BY <2>1 DEF Ids, Marks
<1>5. CASE Reset(a)
  <2>1. admin[a].seen.ids = Ids /\ AllThere(a)
    BY <1>2, <1>5 DEF StillRead, Reset, AllThere
  <2>2. phases' = [p \in Ids |-> [phases[p] EXCEPT !.status = "PENDING", !.regressed = "no"]]
    BY <1>5, <2>1 DEF Reset
  <2>3. \A p \in Ids : phases'[p].status = "PENDING" /\ phases'[p].regressed = "no"
    BY <1>2, <2>2 DEF Phase
  <2> QED BY <2>2, <2>3 DEF Marks, Ids
<1>6. CASE CompletePhase(a)
  <2>1. Completable(admin[a].phase)
    BY <1>2, <1>6 DEF StillRead, CompletePhase
  <2>2. Complete(admin[a].phase, admin[a].unlocked)
    BY <1>6, <2>1 DEF CompletePhase, Completable
  <2> QED BY <2>1, <2>2, CompletionMarks DEF TimelineInv
<1>7. CASE RemovePhase(a)
  <2> DEFINE p == admin[a].phase
             rest == DOMAIN admin[a].seen \ {p}
  <2>0. PICK index : status' = status /\
          LET set == {q \in rest : admin[a].seen[q].order # index[q]}
          IN  phases' = IF p \in Ids /\ set \subseteq Ids
                        THEN [q \in Ids \ {p} |->
                                IF q \in set THEN [phases[q] EXCEPT !.order = index[q]] ELSE phases[q]]
                        ELSE phases
    BY <1>7 DEF RemovePhase
  <2> DEFINE moved == {q \in rest : admin[a].seen[q].order # index[q]}
  <2>1. /\ status' = status
        /\ \/ phases' = [q \in Ids \ {p} |->
                          IF q \in moved THEN [phases[q] EXCEPT !.order = index[q]] ELSE phases[q]]
           \/ phases' = phases
    BY <2>0
  <2> HIDE DEF p, moved
  <2>2. CASE phases' = phases
    BY <2>1, <2>2 DEF Ids, Marks
  <2>3. CASE phases' = [q \in Ids \ {p} |->
                          IF q \in moved THEN [phases[q] EXCEPT !.order = index[q]] ELSE phases[q]]
    <3>1. Ids' = Ids \ {p}
      BY <2>3 DEF Ids
    <3>2. ASSUME NEW q \in Ids \ {p}
          PROVE  phases'[q].status = phases[q].status /\ phases'[q].regressed = phases[q].regressed
      <4>1. phases[q] \in Phase /\ phases'[q] = IF q \in moved THEN [phases[q] EXCEPT !.order = index[q]]
                                                ELSE phases[q]
        BY <1>2, <2>3
      <4> QED BY <4>1 DEF Phase
    <3> QED BY <2>1, <3>1, <3>2 DEF Marks
  <2> QED BY <2>1, <2>2, <2>3
<1>8. ASSUME NEW op, StartRequest(a, op) PROVE UNCHANGED dataVars
  BY <1>8 DEF StartRequest
<1>9. ASSUME NEW p, StartComplete(a, p) \/ Upload(a, p) \/ StartRemove(a, p) PROVE UNCHANGED dataVars
  BY <1>9 DEF StartComplete, Upload, StartRemove
<1>10. CompleteUploaded(a) => UNCHANGED dataVars
  BY DEF CompleteUploaded
<1> QED
  BY <1>1, <1>3, <1>4, <1>5, <1>6, <1>7, <1>8, <1>9, <1>10 DEF Requests

\* The change that a hook without races makes is one of the present.
LEMMA Proposed ==
    ASSUME TimelineInv, ~env.races, NEW h \in Hooks, hook[h].step = "change",
           NEW c \in hook[h].changes
    PROVE  /\ c.phase \in Ids /\ c.do = Change(c.phase, Full) /\ c.do # "none"
           /\ c.order = phases[c.phase].order /\ hook[h].full = Full
<1>1. c \in Changes(Full) /\ hook[h].full = Full
  BY DEF TimelineInv, ReadInv, StillFetched
<1> QED
  BY <1>1 DEF Changes

LEMMA MarkMeaning ==
    ASSUME TimelineInv, ~env.races, NEW h \in Hooks, MarkRegression(h)
    PROVE  \E p \in Ids :
             /\ Run(h, Again(h)) /\ UNCHANGED <<status, locked, unused, metric>>
             /\ \/ /\ Change(p, Full) = "mark"
                   /\ phases' = [phases EXCEPT ![p].regressed = "recent"]
                \/ /\ Change(p, Full) = "clear"
                   /\ phases' = [phases EXCEPT ![p].regressed = "no"]
<1>1. hook[h].step = "change" /\ UNCHANGED <<status, locked, unused, metric>>
  BY DEF MarkRegression
<1>2. PICK c \in hook[h].changes :
        /\ c.do \in {"mark", "clear"}
        /\ \/ /\ c.phase \in Ids
              /\ phases' = [phases EXCEPT ![c.phase].regressed = IF c.do = "mark" THEN "recent" ELSE "no"]
              /\ Run(h, Again(h))
           \/ c.phase \notin Ids
  BY DEF MarkRegression, Due
<1>3. c.phase \in Ids /\ c.do = Change(c.phase, Full)
  BY <1>1, Proposed
<1> QED
  BY <1>1, <1>2, <1>3

LEMMA ReopenMeaning ==
    ASSUME TimelineInv, ~env.races, NEW h \in Hooks, Reopen(h)
    PROVE  /\ Run(h, Again(h)) /\ hook[h].step = "change" /\ UNCHANGED <<locked, metric>>
           /\ status = "ACTIVE" /\ status' = "ACTIVE"
           /\ \E p \in Ids : Change(p, Full) = "reopen" /\ Reopened(phases[p].order)
<1>1. /\ Run(h, Again(h)) /\ hook[h].step = "change" /\ UNCHANGED <<locked, metric>>
      /\ status' = IF status = "COMPLETED" THEN "ACTIVE" ELSE status
  BY Zenon DEF Reopen
<1>2. PICK c \in hook[h].changes : c.do = "reopen" /\ Reopened(c.order)
  BY Reopening DEF TimelineInv
<1>3. c.phase \in Ids /\ Change(c.phase, Full) = "reopen" /\ c.order = phases[c.phase].order
  BY <1>1, <1>2, Proposed
<1>4. status = "ACTIVE"
  BY <1>3, ChangeMeaning DEF CanAutoTransition
<1> QED
  BY <1>1, <1>2, <1>3, <1>4

LEMMA HookMarks ==
    ASSUME TimelineInv, ~env.races, \A r \in Ids : Marks(r), NEW h \in Hooks, Automation(h)
    PROVE  \A r \in Ids' : Marks(r)'
<1>1. CASE UNCHANGED dataVars
  BY <1>1 DEF dataVars, Ids, Marks
<1>2. CASE CompleteByHook(h)
  <2>1. Completable(hook[h].phase)
    BY <1>2 DEF TimelineInv, ReadInv, StillFetched, CompleteByHook
  <2>2. Complete(hook[h].phase, hook[h].unlocked)
    BY <1>2, <2>1 DEF CompleteByHook, Completable
  <2> QED BY <2>1, <2>2, CompletionMarks DEF TimelineInv
<1>3. CASE MarkRegression(h)
  <2>1. PICK p \in Ids, m \in {"recent", "no"} :
          /\ phases' = [phases EXCEPT ![p].regressed = m] /\ status' = status
          /\ m = "recent" => phases[p].status = "COMPLETED"
    BY <1>3, MarkMeaning, ChangeMeaning
  <2>2. phases \in [Ids -> Phase]
    BY DEF TimelineInv, TypeInv
  <2>3. /\ Ids' = Ids /\ \A r \in Ids \ {p} : phases'[r] = phases[r]
        /\ phases'[p].status = phases[p].status /\ phases'[p].regressed = m
    BY <2>1, <2>2 DEF Ids, Phase
  <2> QED BY <2>1, <2>3 DEF Marks
<1>4. CASE Reopen(h)
  <2>1. PICK p \in Ids : status' = "ACTIVE" /\ Reopened(phases[p].order)
    BY <1>4, ReopenMeaning
  <2>2. \A r \in Ids : \/ phases'[r] = phases[r]
                       \/ phases'[r].regressed = "no"
    BY <2>1 DEF Reopened, Affected, TimelineInv, TypeInv, Phase
  <2>3. Ids' = Ids
    BY <2>1 DEF Reopened, SameOrders
  <2> QED BY <2>1, <2>2, <2>3 DEF Marks
<1>5. StartHook(h) \/ Weigh(h) \/ Advance(h) \/ ReadScores(h) \/ Fetch(h) \/ TryComplete(h) =>
        UNCHANGED dataVars
  BY Zenon DEF StartHook, Weigh, Advance, ReadScores, Fetch, TryComplete
<1> QED
  BY <1>1, <1>2, <1>3, <1>4, <1>5 DEF Automation

LEMMA MarksKept == TimelineInv /\ MarksInv /\ [Next]_vars => MarksInv'
<1> SUFFICES ASSUME TimelineInv, MarksInv, [Next]_vars, ~env.races
             PROVE  \A r \in Ids' : Marks(r)'
  BY EnvKept DEF MarksInv
<1>1. \A r \in Ids : Marks(r)
  BY DEF MarksInv
<1>2. CASE UNCHANGED dataVars
  BY <1>1, <1>2 DEF dataVars, Ids, Marks
<1>3. ASSUME NEW p, NEW new, AddPhase(p, new) PROVE \A r \in Ids' : Marks(r)'
  <2>1. /\ status' = status
        /\ phases' = [q \in Ids \cup {p} |->
                        IF q = p THEN [order |-> new, status |-> "PENDING", regressed |-> "no"]
                        ELSE [phases[q] EXCEPT !.order = IF MovesUp(@, new) THEN @ + 1 ELSE @]]
    BY <1>3 DEF AddPhase
  <2>2. phases \in [Ids -> Phase]
    BY DEF TimelineInv, TypeInv
  <2>3. ASSUME NEW q \in Ids, q # p
        PROVE  phases'[q].status = phases[q].status /\ phases'[q].regressed = phases[q].regressed
    <3>1. /\ phases[q] \in Phase
          /\ phases'[q] = [phases[q] EXCEPT !.order = IF MovesUp(@, new) THEN @ + 1 ELSE @]
      BY <2>1, <2>2, <2>3
    <3> QED BY <3>1 DEF Phase
  <2>4. phases'[p].status = "PENDING" /\ phases'[p].regressed = "no" /\ Ids' = Ids \cup {p}
    BY <2>1 DEF Ids
  <2> QED BY <1>1, <2>1, <2>3, <2>4 DEF Marks
<1>4. ASSUME NEW p, GraceEnds(p) PROVE \A r \in Ids' : Marks(r)'
  <2>1. /\ p \in Ids /\ phases[p].regressed = "recent" /\ status' = status
        /\ phases' = [phases EXCEPT ![p].regressed = "old"]
    BY <1>4 DEF GraceEnds
  <2>2. phases \in [Ids -> Phase] /\ phases[p].status = "COMPLETED"
    BY <1>1, <2>1 DEF TimelineInv, TypeInv, Marks
  <2>3. /\ Ids' = Ids /\ \A r \in Ids \ {p} : phases'[r] = phases[r]
        /\ phases'[p].status = phases[p].status
    BY <2>1, <2>2 DEF Ids, Phase
  <2> QED BY <1>1, <2>1, <2>2, <2>3 DEF Marks
<1>5. \A k : Work(k) => UNCHANGED dataVars
  BY DEF Work
<1>6. UNCHANGED vars => UNCHANGED dataVars
  BY DEF vars
<1>7. ASSUME NEW a \in Admins, Requests(a) PROVE \A r \in Ids' : Marks(r)'
  BY <1>1, <1>7, RequestMarks
<1>8. ASSUME NEW h \in Hooks, Automation(h) PROVE \A r \in Ids' : Marks(r)'
  BY <1>1, <1>8, HookMarks
<1> QED
  BY <1>2, <1>3, <1>4, <1>5, <1>6, <1>7, <1>8 DEF Next

-----------------------------------------------------------------------------
(* Passes *)

\* The phases that the reconciliation may still change: those completed that it
\* would mark, clear or reopen, and those not completed whose score is full, and
\* for which it could complete whatever comes before.
Ready(p) ==
    /\ Kind[p] \in Full
    /\ \A q \in Before(phases, p) : phases[q].status = "COMPLETED" \/ Kind[q] \in Full

Open == {p \in AutoPhases :
           IF phases[p].status = "COMPLETED" THEN Change(p, Full) # "none" ELSE Ready(p)}

\* What is open can be closed in the passes that are left.
Passes(h) ==
    LET k == hook[h] IN
    /\ k.step = "fetch" => k.left \in Nat /\ Cardinality(Open) <= k.left
    /\ k.step = "change" => k.left \in Nat /\ Cardinality(Open) <= k.left + 1
    /\ (k.step = "complete" /\ k.then.step = "fetch") =>
         /\ Kind[k.phase] \in Full /\ k.then.left \in Nat
         /\ Cardinality(Open) <= k.then.left + 1

PassInv == (~env.races /\ PassesSuffice) => \A h \in Hooks : Passes(h)

LEMMA OpenFinite ==
    ASSUME TypeInv
    PROVE  /\ IsFiniteSet(Open) /\ Cardinality(Open) \in Nat
           /\ Cardinality(AutoPhases) \in Nat /\ Cardinality(Open) <= Cardinality(AutoPhases)
           /\ (Open = {} <=> Cardinality(Open) = 0)
<1>1. AutoPhases \subseteq PhaseIds /\ Open \subseteq AutoPhases
  BY DEF AutoPhases, Open, TypeInv
<1>2. IsFiniteSet(AutoPhases)
  BY <1>1, TimelineAssumption, FS_Subset
<1>3. IsFiniteSet(Open) /\ Cardinality(Open) <= Cardinality(AutoPhases)
  BY <1>1, <1>2, FS_Subset
<1>4. Open = {} <=> Cardinality(Open) = 0
  BY <1>3, FS_EmptySet
<1> QED
  BY <1>2, <1>3, <1>4, FS_CardinalityType

\* A pass that takes a phase out, and brings none back.
LEMMA OneLess ==
    ASSUME TypeInv, TypeInv', NEW p \in Open, Open' \subseteq Open \ {p}
    PROVE  Cardinality(Open') <= Cardinality(Open) - 1
<1>1. IsFiniteSet(Open) /\ IsFiniteSet(Open') /\ Cardinality(Open) \in Nat
  <2>1. IsFiniteSet(Open) /\ Cardinality(Open) \in Nat
    BY OpenFinite
  <2>2. IsFiniteSet(Open \ {p})
    BY <2>1, FS_RemoveElement
  <2> QED BY <2>1, <2>2, FS_Subset
<1>2. IsFiniteSet(Open \ {p}) /\ Cardinality(Open \ {p}) = Cardinality(Open) - 1
  BY <1>1, FS_RemoveElement
<1>3. Cardinality(Open') <= Cardinality(Open \ {p})
  BY <1>2, FS_Subset
<1> QED
  BY <1>2, <1>3

\* What a step that only completes or reopens other phases leaves open was open.
LEMMA StaysOpen ==
    ASSUME SameOrders, Full' = Full, CanAutoTransition' => CanAutoTransition, NEW r \in Open',
           \/ phases'[r] = phases[r] /\ phases[r].status = "COMPLETED"
           \/ /\ phases[r].status # "COMPLETED"
              /\ \A q \in Before(phases, r) :
                   phases'[q].status = "COMPLETED" => phases[q].status = "COMPLETED" \/ Kind[q] \in Full
              /\ phases'[r].status # "COMPLETED"
    PROVE  r \in Open
<1>1. Ids' = Ids /\ AutoPhases' = AutoPhases /\ r \in AutoPhases
  BY DEF SameOrders, AutoPhases, Open, Ids
<1>2. CASE phases'[r] = phases[r] /\ phases[r].status = "COMPLETED"
  <2>1. Change(r, Full)' # "none"
    BY <1>2 DEF Open
  <2>2. Change(r, Full) # "none"
    BY <1>2, <2>1 DEF Change, Unmarked
  <2> QED BY <1>1, <1>2, <2>2 DEF Open
<1>3. CASE /\ phases[r].status # "COMPLETED"
           /\ \A q \in Before(phases, r) :
                phases'[q].status = "COMPLETED" => phases[q].status = "COMPLETED" \/ Kind[q] \in Full
           /\ phases'[r].status # "COMPLETED"
  <2>1. Ready(r)'
    BY <1>3 DEF Open
  <2>2. Before(phases', r) = Before(phases, r)
    BY <1>1 DEF SameOrders, Before, AutoPhases, Ids
  <2>3. Ready(r)
    BY <1>3, <2>1, <2>2 DEF Ready
  <2> QED BY <1>1, <1>3, <2>3 DEF Open
<1> QED
  BY <1>2, <1>3

LEMMA CompletionCloses ==
    ASSUME TypeInv, \A r \in Ids : Marks(r), NEW p, Completable(p), Kind[p] \in Full,
           NEW u, Complete(p, u), Full' = Full
    PROVE  p \in Open /\ Open' \subseteq Open \ {p}
<1>1. p \in Ids /\ phases[p].status = "IN_PROGRESS" /\ p \in AutoPhases
  BY DEF Completable, AutoPhases, Full
<1>2. p \in Open
  BY <1>1 DEF Open, Ready, Completable, AllCompleted
<1>3. /\ SameOrders
      /\ status' = (IF NoneOpen(phases', p) THEN "COMPLETED" ELSE status)
      /\ locked' = (locked \/ (u /\ (p \in Locks \/ NoneOpen(phases', p))))
      /\ phases' = Done(p) \/ \E q : Starts(q, p) /\ phases' = Started(p, q)
  BY <1>1, Completion
<1>4. CanAutoTransition' => CanAutoTransition
  BY <1>3 DEF CanAutoTransition
<1>5. /\ phases'[p].status = "COMPLETED" /\ phases'[p].regressed = "no"
      /\ \A r \in Ids \ {p} : \/ phases'[r] = phases[r]
                              \/ phases[r].status = "PENDING" /\ phases'[r].status = "IN_PROGRESS"
  <2>1. /\ Done(p)[p].status = "COMPLETED" /\ Done(p)[p].regressed = "no"
        /\ \A r \in Ids \ {p} : Done(p)[r] = phases[r]
    BY <1>1, DoneMeaning DEF Marks
  <2>2. CASE phases' = Done(p)
    BY <2>1, <2>2
  <2>3. ASSUME NEW q, Starts(q, p), phases' = Started(p, q)
        PROVE  /\ q \in Ids \ {p} /\ phases[q].status = "PENDING" /\ phases'[q].status = "IN_PROGRESS"
               /\ \A r \in Ids \ {q} : phases'[r] = Done(p)[r]
    BY <1>1, <2>3, StartedMeaning DEF Starts
  <2> QED BY <1>1, <1>3, <2>1, <2>2, <2>3
<1>6. p \notin Open'
  <2>1. Change(p, Full)' = "none"
    BY <1>5 DEF Change, Unmarked
  <2> QED BY <1>5, <2>1 DEF Open
<1>7. ASSUME NEW r \in Open', r # p PROVE r \in Open
  <2>1. r \in Ids
    BY <1>3 DEF Open, AutoPhases, SameOrders
  <2>2. \A q \in Before(phases, r) :
          phases'[q].status = "COMPLETED" => phases[q].status = "COMPLETED" \/ Kind[q] \in Full
    BY <1>5 DEF Before, Ids
  <2> QED BY <1>3, <1>4, <1>5, <1>7, <2>1, <2>2, StaysOpen
<1> QED
  BY <1>2, <1>6, <1>7

LEMMA MarkCloses ==
    ASSUME TypeInv, \A r \in Ids : Marks(r), NEW p \in Ids, Full' = Full, UNCHANGED <<status, locked>>,
           \/ Change(p, Full) = "mark" /\ phases' = [phases EXCEPT ![p].regressed = "recent"]
           \/ Change(p, Full) = "clear" /\ phases' = [phases EXCEPT ![p].regressed = "no"]
    PROVE  p \in Open /\ Open' \subseteq Open \ {p}
<1>1. phases \in [Ids -> Phase] /\ Unmoved
  BY Marking DEF TypeInv
<1>2. /\ phases[p].status = "COMPLETED" /\ p \in AutoPhases
      /\ Change(p, Full) = "clear" => Kind[p] \in Full
      /\ Change(p, Full) = "mark" =>
           Kind[p] \notin Full /\ ~(CanAutoTransition /\ Kind[p] \in AUTO_PHASE_TYPES_NO_GRACE)
  BY DEF Marks, Change, Unmarked, AutoPhases
<1>3. p \in Open
  BY <1>2 DEF Open
<1>4. /\ \A r \in Ids \ {p} : phases'[r] = phases[r]
      /\ phases'[p].status = "COMPLETED"
      /\ phases'[p].regressed = IF Change(p, Full) = "mark" THEN "recent" ELSE "no"
  BY <1>1, <1>2 DEF Phase
<1>5. CanAutoTransition' <=> CanAutoTransition
  BY DEF CanAutoTransition
<1>6. Change(p, Full)' = "none"
  BY <1>2, <1>4, <1>5 DEF Change, Unmarked
<1>7. p \notin Open'
  BY <1>4, <1>6 DEF Open
<1>8. ASSUME NEW r \in Open', r # p PROVE r \in Open
  <2>1. r \in Ids /\ SameOrders
    BY <1>1 DEF Open, AutoPhases, SameOrders, Unmoved
  <2>2. \A q \in Before(phases, r) : phases'[q].status = phases[q].status
    BY <1>1 DEF Before, Ids, Unmoved
  <2> QED BY <1>4, <1>5, <1>8, <2>1, <2>2, StaysOpen
<1> QED
  BY <1>3, <1>7, <1>8

LEMMA ReopenCloses ==
    ASSUME TypeInv, Distinct, NEW p \in Ids, Full' = Full, status = "ACTIVE", status' = "ACTIVE",
           locked' = locked, Change(p, Full) = "reopen", Reopened(phases[p].order)
    PROVE  p \in Open /\ Open' \subseteq Open \ {p}
<1>1. phases[p].status = "COMPLETED" /\ p \in AutoPhases /\ Kind[p] \notin Full
  BY DEF Change, Unmarked, AutoPhases
<1>2. p \in Open
  BY <1>1 DEF Open
<1>3. /\ SameOrders /\ \A r \in Ids : phases[r].order \in Nat
      /\ \A r \in Ids : phases[r].order < phases[p].order => phases'[r] = phases[r]
      /\ \A r \in Affected(phases[p].order) : phases'[r].status # "COMPLETED"
  BY DEF Reopened, TypeInv, Phase
<1>4. phases'[p].status # "COMPLETED" /\ p \notin Open'
  <2>1. p \in Affected(phases[p].order)
    BY <1>3 DEF Affected
  <2> QED BY <1>1, <1>3, <2>1 DEF Open, Ready
<1>5. ASSUME NEW r \in Open', r # p PROVE r \in Open
  <2>1. r \in Ids
    BY <1>3 DEF Open, AutoPhases, SameOrders
  <2>2. CASE phases[r].order < phases[p].order
    <3>1. \A q \in Before(phases, r) : phases'[q] = phases[q]
      BY <1>3, <2>1, <2>2 DEF Before, Ids
    <3>2. phases'[r] = phases[r] /\ (CanAutoTransition' <=> CanAutoTransition)
      BY <1>3, <2>1, <2>2 DEF CanAutoTransition
    <3> QED BY <1>3, <1>5, <3>1, <3>2, StaysOpen
  <2>3. CASE ~(phases[r].order < phases[p].order)
    <3>1. phases'[r].status # "COMPLETED"
      BY <1>3, <2>1, <2>3 DEF Affected
    <3>2. phases[p].order < phases[r].order
      BY <1>3, <1>5, <2>1, <2>3 DEF Distinct
    <3>3. p \in Before(phases', r)
      BY <1>3, <2>1, <3>2 DEF Before, SameOrders, Ids
    <3> QED BY <1>1, <1>4, <1>5, <3>1, <3>3 DEF Open, Ready
  <2> QED BY <2>2, <2>3
<1> QED
  BY <1>2, <1>4, <1>5

\* While a hook is at work and nothing races, the steps are its own.
LEMMA HookAtWork ==
    ASSUME TimelineInv, ~env.races, NEW h \in Hooks, hook[h] # Idle, [Next]_vars
    PROVE  Automation(h) \/ UNCHANGED vars
<1>1. /\ \A a \in Admins : admin[a] = Idle /\ admin[a].step = "idle"
      /\ \A g \in Hooks \ {h} : hook[g] = Idle /\ hook[g].step = "idle"
  <2>1. \A a \in Admins : admin[a] = Idle
    BY DEF TimelineInv, LoneInv
  <2>2. \A g \in Hooks \ {h} : hook[g] = Idle
    BY DEF TimelineInv, LoneInv
  <2> QED BY <2>1, <2>2 DEF Idle
<1>2. ~Quiet /\ ~Undisturbed
  BY DEF Quiet, Undisturbed
<1>3. ASSUME NEW a \in Admins, Requests(a) PROVE FALSE
  <2>1. admin[a].step = "idle"
    BY <1>1
  <2> QED BY <1>2, <1>3, <2>1, Zenon DEF Requests, StartRequest, Activate, Pause, Resume, Unlock,
             Reset, StartComplete, Upload, StartRemove, CompleteUploaded, CompletePhase, RemovePhase
<1>4. ASSUME NEW g \in Hooks \ {h}, Automation(g) PROVE FALSE
  <2>1. hook[g].step = "idle"
    BY <1>1
  <2> QED BY <1>2, <1>4, <2>1, Zenon DEF Automation, StartHook, Weigh, Advance, CompleteByHook,
             ReadScores, Fetch, MarkRegression, Reopen, TryComplete
<1> QED
  BY <1>2, <1>3, <1>4 DEF Next, AddPhase, Work, GraceEnds

\* A hook that is idle stays so, or starts.
LEMMA HookAtRest ==
    ASSUME TimelineInv, NEW h \in Hooks, hook[h] = Idle, [Next]_vars
    PROVE  hook'[h].step \in {"idle", "score", "weigh"}
<1>1. CASE hook' = hook
  BY <1>1 DEF Idle
<1>2. ASSUME NEW g \in Hooks, Automation(g) PROVE hook'[h].step \in {"idle", "score", "weigh"}
  <2>1. CASE g # h
    <3>1. \E k : Run(g, k)
      BY <1>2 DEF Automation, StartHook, Weigh, Advance, CompleteByHook, ReadScores, Fetch,
                  MarkRegression, Reopen, TryComplete
    <3> QED BY <2>1, <3>1 DEF Run, Idle
  <2>2. CASE g = h
    <3>1. hook[h].step = "idle"
      BY DEF Idle
    <3>2. StartHook(h)
      BY <1>2, <2>2, <3>1, Zenon DEF Automation, Weigh, Advance, CompleteByHook, ReadScores, Fetch,
                               MarkRegression, Reopen, TryComplete
    <3>3. PICK k : Run(h, k) /\ k.step \in {"score", "weigh"}
      BY <3>2 DEF StartHook, Score
    <3> QED BY <3>3 DEF Run, TimelineInv, TypeInv
  <2> QED BY <2>1, <2>2
<1>3. ASSUME NEW a \in Admins, Requests(a) PROVE hook' = hook
  BY <1>3, Zenon DEF Requests, StartRequest, Activate, Pause, Resume, Unlock, Reset, StartComplete,
     Upload, StartRemove, CompleteUploaded, CompletePhase, RemovePhase
<1> QED
  BY <1>1, <1>2, <1>3 DEF Next, AddPhase, Work, GraceEnds, vars

\* The passes of a hook that writes nothing.
LEMMA ReadingPasses ==
    ASSUME UNCHANGED <<dataVars, metric>>
    PROVE  Open' = Open /\ Full' = Full
<1>1. Full' = Full /\ Ids' = Ids /\ AutoPhases' = AutoPhases
  BY DEF Full, Ids, AutoPhases, dataVars
<1>2. \A p : (Change(p, Full)' = Change(p, Full)) /\ (Ready(p)' <=> Ready(p))
  BY <1>1 DEF Change, Unmarked, CanAutoTransition, Ready, Before, dataVars
<1> QED
  BY <1>1, <1>2 DEF Open, dataVars

\* A change that closes a phase leaves the fetch after it the passes it needs.
LEMMA ClosingPasses ==
    ASSUME TypeInv, TypeInv', NEW h \in Hooks, NEW k, Run(h, k), k.step = "fetch",
           k.left \in Nat, Cardinality(Open) <= k.left + 1,
           NEW p \in Open, Open' \subseteq Open \ {p}
    PROVE  Passes(h)'
<1>1. hook'[h] = k
  BY DEF Run, TypeInv
<1>2. Cardinality(Open') <= Cardinality(Open) - 1 /\ Cardinality(Open) \in Nat
      /\ Cardinality(Open') \in Nat
  <2>1. IsFiniteSet(Open) /\ Cardinality(Open) \in Nat
    BY OpenFinite
  <2>2. IsFiniteSet(Open \ {p})
    BY <2>1, FS_RemoveElement
  <2>3. IsFiniteSet(Open')
    BY <2>2, FS_Subset
  <2> QED BY <2>1, <2>3, OneLess, FS_CardinalityType
<1> QED
  BY <1>1, <1>2 DEF Passes

LEMMA HookPasses ==
    ASSUME TimelineInv, TimelineInv', MarksInv, ~env.races, PassesSuffice, NEW h \in Hooks,
           Passes(h), Automation(h)
    PROVE  Passes(h)'
<1>1. \A r \in Ids : Marks(r)
  BY DEF MarksInv
<1>2. Full' = Full
  BY Zenon DEF Full, Automation, StartHook, Weigh, Advance, CompleteByHook, ReadScores, Fetch,
               MarkRegression, Reopen, TryComplete
<1>3. StillFetched(h) /\ TypeInv /\ TypeInv' /\ Distinct
  BY DEF TimelineInv, ReadInv, OrderInv
<1>4. ASSUME NEW k, Run(h, k), k.step \notin {"fetch", "change", "complete"} PROVE Passes(h)'
  BY <1>3, <1>4 DEF Passes, Run, TypeInv
<1>5. CASE StartHook(h) \/ Weigh(h)
  <2>1. PICK k : Run(h, k) /\ k.step \in {"score", "weigh", "advance"}
    BY <1>5 DEF StartHook, Weigh, Score
  <2> QED BY <1>4, <2>1
<1>6. CASE Advance(h)
  <2>1. CASE Run(h, Score)
    BY <1>4, <2>1 DEF Score
  <2>2. ASSUME NEW p \in hook[h].todo,
               Run(h, IF Completable(p)
                      THEN [step |-> "complete", phase |-> p, unlocked |-> ~locked,
                            then |-> NextToAdvance(h, p), otherwise |-> NextToAdvance(h, p)]
                      ELSE NextToAdvance(h, p))
        PROVE  Passes(h)'
    <3>1. NextToAdvance(h, p).step = "advance"
      BY <1>6 DEF Advance, NextToAdvance
    <3>2. CASE ~Completable(p)
      BY <1>4, <2>2, <3>1, <3>2
    <3>3. CASE Completable(p)
      <4>1. hook'[h].step = "complete" /\ hook'[h].then = NextToAdvance(h, p)
        BY <1>3, <2>2, <3>3 DEF Run, TypeInv
      <4> QED BY <3>1, <4>1 DEF Passes
    <3> QED BY <3>2, <3>3
  <2> QED BY <1>6, <2>1, <2>2 DEF Advance
<1>7. CASE ReadScores(h)
  <2>1. PICK n \in env.passes : Run(h, [step |-> "fetch", left |-> n, full |-> Full])
    BY <1>7 DEF ReadScores, Full
  <2>2. n \in Nat /\ Cardinality(Open) <= n
    <3>1. env.passes \subseteq 0..20 /\ n >= Cardinality(AutoPhases)
      BY <1>3, TimelineAssumption DEF PassesSuffice, TypeInv, maxSyncPasses
    <3>2. /\ Cardinality(Open) \in Nat /\ Cardinality(AutoPhases) \in Nat
          /\ Cardinality(Open) <= Cardinality(AutoPhases)
      BY <1>3, OpenFinite
    <3> QED BY <3>1, <3>2
  <2>3. Open' = Open
    BY <1>7, ReadingPasses DEF ReadScores
  <2>4. hook'[h] = [step |-> "fetch", left |-> n, full |-> Full]
    BY <1>3, <2>1 DEF Run, TypeInv
  <2> QED BY <2>2, <2>3, <2>4 DEF Passes
<1>8. CASE Fetch(h)
  <2>1. hook[h].step = "fetch" /\ Open' = Open
    BY <1>8, ReadingPasses DEF Fetch
  <2>2. hook[h].left \in Nat /\ Cardinality(Open) <= hook[h].left
    BY <2>1 DEF Passes
  <2>3. CASE Run(h, Idle)
    BY <1>4, <2>3 DEF Idle
  <2>4. CASE hook[h].left # 0 /\ Run(h, [step |-> "change", left |-> hook[h].left - 1,
                                  full |-> hook[h].full, changes |-> Changes(hook[h].full)])
    <3>1. hook'[h].step = "change" /\ hook'[h].left = hook[h].left - 1
      BY <1>3, <2>4 DEF Run, TypeInv
    <3>2. Cardinality(Open) \in Nat
      BY <1>3, OpenFinite
    <3> QED BY <2>1, <2>2, <2>4, <3>1, <3>2 DEF Passes
  <2> QED BY <1>8, <2>3, <2>4 DEF Fetch
<1>9. hook[h].step = "change" =>
        /\ hook[h].left \in Nat /\ Cardinality(Open) <= hook[h].left + 1
        /\ Again(h).step = "fetch" /\ Again(h).left = hook[h].left
  BY DEF Passes, Again
<1>10. CASE MarkRegression(h)
  <2>1. PICK p \in Ids :
          /\ Run(h, Again(h)) /\ UNCHANGED <<status, locked>>
          /\ \/ Change(p, Full) = "mark" /\ phases' = [phases EXCEPT ![p].regressed = "recent"]
             \/ Change(p, Full) = "clear" /\ phases' = [phases EXCEPT ![p].regressed = "no"]
    BY <1>10, MarkMeaning
  <2>2. hook[h].step = "change"
    BY <1>10 DEF MarkRegression
  <2>3. p \in Open /\ Open' \subseteq Open \ {p}
    BY <1>1, <1>2, <1>3, <2>1, MarkCloses
  <2> QED BY <1>3, <1>9, <2>1, <2>2, <2>3, ClosingPasses
<1>11. CASE Reopen(h)
  <2>1. /\ Run(h, Again(h)) /\ hook[h].step = "change" /\ locked' = locked
        /\ status = "ACTIVE" /\ status' = "ACTIVE"
        /\ \E p \in Ids : Change(p, Full) = "reopen" /\ Reopened(phases[p].order)
    BY <1>11, ReopenMeaning
  <2>2. PICK p \in Ids : Change(p, Full) = "reopen" /\ Reopened(phases[p].order)
    BY <2>1
  <2>3. p \in Open /\ Open' \subseteq Open \ {p}
    BY <1>2, <1>3, <2>1, <2>2, ReopenCloses
  <2> QED BY <1>3, <1>9, <2>1, <2>3, ClosingPasses
<1>12. CASE TryComplete(h)
  <2>1. hook[h].step = "change" /\ Open' = Open
    BY <1>12, ReadingPasses DEF TryComplete
  <2>2. PICK c \in hook[h].changes :
          /\ c.do = "complete"
          /\ Run(h, IF Completable(c.phase)
                    THEN [step |-> "complete", phase |-> c.phase, unlocked |-> ~locked,
                          then |-> Again(h), otherwise |-> Without(h, c)]
                    ELSE Without(h, c))
    BY <1>12, TryCompleteMeaning
  <2>3. CASE Completable(c.phase)
    <3>1. Kind[c.phase] \in Full
      BY <2>1, <2>2, Proposed, ChangeMeaning
    <3>2. /\ hook'[h].step = "complete" /\ hook'[h].phase = c.phase /\ hook'[h].then = Again(h)
      BY <1>3, <2>2, <2>3 DEF Run, TypeInv
    <3> QED BY <1>2, <1>9, <2>1, <3>1, <3>2 DEF Passes
  <2>4. CASE ~Completable(c.phase)
    <3>1. hook'[h] = Without(h, c)
      BY <1>3, <2>2, <2>4 DEF Run, TypeInv
    <3>2. hook'[h].step = "idle" \/ (hook'[h].step = "change" /\ hook'[h].left = hook[h].left)
      BY <2>1, <3>1, WithoutMeaning DEF Idle
    <3> QED BY <1>9, <2>1, <3>2 DEF Passes
  <2> QED BY <2>3, <2>4
<1>13. CASE CompleteByHook(h)
  <2>1. hook[h].step = "complete" /\ Completable(hook[h].phase)
    BY <1>3, <1>13 DEF CompleteByHook, StillFetched
  <2>2. Complete(hook[h].phase, hook[h].unlocked) /\ Run(h, hook[h].then)
    BY <1>13, <2>1 DEF CompleteByHook, Completable
  <2>3. CASE hook[h].then.step = "advance"
    BY <1>4, <2>2, <2>3
  <2>4. CASE hook[h].then.step = "fetch"
    <3>1. /\ Kind[hook[h].phase] \in Full /\ hook[h].then.left \in Nat
          /\ Cardinality(Open) <= hook[h].then.left + 1
      BY <2>1, <2>4 DEF Passes
    <3>2. hook[h].phase \in Open /\ Open' \subseteq Open \ {hook[h].phase}
      BY <1>1, <1>2, <1>3, <2>1, <2>2, <3>1, CompletionCloses
    <3> QED BY <1>3, <2>2, <2>4, <3>1, <3>2, ClosingPasses
  <2> QED BY <1>3, <2>1, <2>3, <2>4 DEF TypeInv
<1> QED
  BY <1>5, <1>6, <1>7, <1>8, <1>10, <1>11, <1>12, <1>13 DEF Automation

\* A hook adds and removes no phase.
LEMMA HookKeepsPhases ==
    ASSUME TypeInv, NEW h \in Hooks, Automation(h)
    PROVE  Ids' = Ids
<1>1. CASE UNCHANGED dataVars
  BY <1>1 DEF dataVars, Ids
<1>2. CASE CompleteByHook(h)
  <2>1. \/ UNCHANGED dataVars
        \/ hook[h].phase \in Ids /\ Complete(hook[h].phase, hook[h].unlocked)
    BY <1>2, Zenon DEF CompleteByHook
  <2> QED BY <1>1, <2>1, Completion DEF SameOrders
<1>3. CASE MarkRegression(h)
  <2>1. UNCHANGED phases \/ \E p, m : phases' = [phases EXCEPT ![p].regressed = m]
    BY <1>3 DEF MarkRegression
  <2> QED BY <2>1 DEF Ids
<1>4. CASE Reopen(h)
  BY <1>4, Reopening DEF Reopened, SameOrders
<1>5. StartHook(h) \/ Weigh(h) \/ Advance(h) \/ ReadScores(h) \/ Fetch(h) \/ TryComplete(h) =>
        UNCHANGED dataVars
  BY Zenon DEF StartHook, Weigh, Advance, ReadScores, Fetch, TryComplete
<1> QED
  BY <1>1, <1>2, <1>3, <1>4, <1>5 DEF Automation

LEMMA PassesKept == TimelineInv /\ TimelineInv' /\ MarksInv /\ PassInv /\ [Next]_vars => PassInv'
<1> SUFFICES ASSUME TimelineInv, TimelineInv', MarksInv, PassInv, [Next]_vars,
                    ~env.races, PassesSuffice', NEW h \in Hooks
             PROVE  Passes(h)'
  BY EnvKept DEF PassInv
<1>1. Ids' = Ids => Passes(h)
  <2>1. Ids' = Ids => PassesSuffice
    BY EnvKept DEF PassesSuffice, AutoPhases
  <2> QED BY <2>1 DEF PassInv
<1>2. CASE hook[h] = Idle
  <2>1. hook'[h].step \in {"idle", "score", "weigh"}
    BY <1>2, HookAtRest
  <2> QED BY <2>1 DEF Passes
<1>3. CASE hook[h] # Idle
  <2>1. CASE UNCHANGED vars
    <3>1. Open' = Open /\ Full' = Full /\ hook' = hook /\ Ids' = Ids
      BY <2>1, ReadingPasses DEF vars, dataVars, Ids
    <3> QED BY <1>1, <3>1 DEF Passes
  <2>2. CASE Automation(h)
    <3>1. Ids' = Ids
      BY <2>2, HookKeepsPhases DEF TimelineInv
    <3>2. PassesSuffice
      BY <3>1, EnvKept DEF PassesSuffice, AutoPhases
    <3> QED BY <1>1, <2>2, <3>1, <3>2, HookPasses
  <2> QED BY <1>3, <2>1, <2>2, HookAtWork
<1> QED
  BY <1>2, <1>3

-----------------------------------------------------------------------------
(* The reconciliation settles *)

LEMMA InitMarks ==
    ASSUME Init
    PROVE  \A p \in Ids : Marks(p)
<1>1. \A n, p : Begun(n)[p].regressed = "no" \/ p \notin Range(Originals)
  BY DEF Begun
<1>2. \A n : DOMAIN Begun(n) = Range(Originals)
  BY DEF Begun
<1>3. CASE \E n : phases = Begun(n) /\ status # "DRAFT"
  BY <1>1, <1>2, <1>3 DEF Marks, Ids
<1>4. CASE phases = [p \in Range(Originals) |-> [Begun(0)[p] EXCEPT !.status = "PENDING"]]
  <2>1. ASSUME NEW p \in Range(Originals)
        PROVE  phases[p].regressed = "no" /\ phases[p].status = "PENDING"
    <3>1. phases[p] = [Begun(0)[p] EXCEPT !.status = "PENDING"] /\ Begun(0)[p].regressed = "no"
      BY <1>1, <1>4
    <3>2. DOMAIN Begun(0)[p] = {"order", "regressed", "status"}
      BY DEF Begun
    <3> QED BY <3>1, <3>2
  <2> QED BY <1>4, <2>1 DEF Marks, Ids
<1> QED
  BY <1>3, <1>4 DEF Init

\* What nothing is open for is settled.
LEMMA NothingOpen ==
    ASSUME TimelineInv, MarksInv, ~env.races, Open = {}
    PROVE  Settled
<1> SUFFICES ASSUME NEW p \in Ids, Change(p, Full) # "none"
             PROVE  Change(p, Full) = "complete" /\ ~Completable(p)
  BY DEF Settled, Full
<1>1. p \in AutoPhases /\ Marks(p)
  BY DEF AutoPhases, Change, Unmarked, MarksInv
<1>2. phases[p].status # "COMPLETED" /\ phases[p].regressed = "no"
  BY <1>1 DEF Open, Marks
<1>3. Change(p, Full) = "complete"
  BY <1>2 DEF Change, Unmarked
<1>4. Kind[p] \in Full /\ ~Ready(p)
  BY <1>1, <1>2, <1>3, ChangeMeaning DEF Open
<1> QED
  BY <1>3, <1>4 DEF Ready, Completable, AllCompleted

LEMMA SettledKept ==
    ASSUME UNCHANGED <<dataVars, metric>>, Settled
    PROVE  Settled'
BY DEF Settled, Change, Unmarked, CanAutoTransition, Completable, AllCompleted, Before, Ids, dataVars

LEMMA FetchSettles ==
    ASSUME TimelineInv, MarksInv, PassInv, ~env.races, NEW h \in Hooks, Fetch(h), hook'[h] = Idle,
           PassesSuffice \/ hook[h].left > 0
    PROVE  Settled'
<1>1. UNCHANGED <<dataVars, metric>> /\ hook[h].step = "fetch" /\ hook[h].full = Full
  BY DEF Fetch, TimelineInv, ReadInv, StillFetched
<1>2. hook[h].left = 0 \/ status \notin {"ACTIVE", "COMPLETED"} \/ Changes(Full) = {}
  <2> SUFFICES ASSUME ~(hook[h].left = 0 \/ status \notin {"ACTIVE", "COMPLETED"} \/ Changes(Full) = {})
               PROVE  FALSE
    OBVIOUS
  <2>1. hook'[h] = [step |-> "change", left |-> hook[h].left - 1, full |-> Full,
                    changes |-> Changes(Full)]
    BY <1>1 DEF Fetch, Run, TimelineInv, TypeInv
  <2> QED BY <2>1 DEF Idle
<1>3. CASE status \notin {"ACTIVE", "COMPLETED"} \/ Changes(Full) = {}
  <2> SUFFICES ASSUME status \in {"ACTIVE", "COMPLETED"} PROVE Settled
    BY <1>1, SettledKept DEF Settled
  <2>1. \A p \in Ids : Change(p, Full) = "none"
    BY <1>3 DEF Changes
  <2> QED BY <2>1 DEF Settled, Full
<1>4. CASE hook[h].left = 0
  <2>1. Cardinality(Open) <= 0 /\ Cardinality(Open) \in Nat
    BY <1>1, <1>4, OpenFinite DEF PassInv, Passes, TimelineInv
  <2>2. Open = {}
    BY <2>1, OpenFinite DEF TimelineInv
  <2> QED BY <1>1, <2>2, NothingOpen, SettledKept
<1> QED
  BY <1>2, <1>3, <1>4

LEMMA TryCompleteSettles ==
    ASSUME TimelineInv, ~env.races, NEW h \in Hooks, TryComplete(h), hook'[h] = Idle
    PROVE  Settled'
<1>1. UNCHANGED <<dataVars, metric>> /\ hook[h].step = "change"
  BY DEF TryComplete
<1>2. PICK c \in hook[h].changes :
        /\ c.do = "complete"
        /\ Run(h, IF Completable(c.phase)
                  THEN [step |-> "complete", phase |-> c.phase, unlocked |-> ~locked,
                        then |-> Again(h), otherwise |-> Without(h, c)]
                  ELSE Without(h, c))
  BY TryCompleteMeaning
<1>3. ~Completable(c.phase)
  BY <1>2 DEF Run, TimelineInv, TypeInv, Idle
<1>4. hook[h].changes = {c}
  <2>1. Without(h, c) = Idle
    BY <1>2, <1>3 DEF Run, TimelineInv, TypeInv
  <2> QED BY <1>1, <2>1, WithoutMeaning DEF Idle
<1>5. \A d \in Changes(Full) : d.do = "complete" /\ ~Completable(d.phase)
  BY <1>1, <1>2, <1>3, <1>4 DEF TimelineInv, ReadInv, StillFetched
<1>6. Settled
  <2> SUFFICES ASSUME NEW p \in Ids, Change(p, Full) # "none"
               PROVE  Change(p, Full) = "complete" /\ ~Completable(p)
    BY DEF Settled, Full
  <2>1. [do |-> Change(p, Full), phase |-> p, order |-> phases[p].order] \in Changes(Full)
    BY DEF Changes
  <2> QED BY <1>5, <2>1
<1> QED
  BY <1>1, <1>6, SettledKept

LEMMA StepSettles ==
    ASSUME TimelineInv, MarksInv, PassInv, [Next]_vars, ~env.races, NEW h \in Hooks,
           hook[h].step \in {"fetch", "change"}, hook'[h] = Idle,
           PassesSuffice \/ hook[h].step = "change" \/ hook[h].left > 0
    PROVE  Settled'
<1>1. hook[h] # Idle /\ ~UNCHANGED vars
  BY DEF Idle, vars
<1>2. Automation(h)
  BY <1>1, HookAtWork
<1>5. ~(StartHook(h) \/ Weigh(h) \/ Advance(h) \/ CompleteByHook(h) \/ ReadScores(h))
  BY DEF StartHook, Weigh, Advance, CompleteByHook, ReadScores, Idle
<1>6. ~Reopen(h)
  <2>1. Again(h) # Idle
    BY DEF Again, Idle
  <2>2. ~Run(h, Again(h))
    BY <2>1 DEF Run, TimelineInv, TypeInv
  <2> QED BY <2>2, Zenon DEF Reopen
<1>7. ~MarkRegression(h)
  <2> SUFFICES ASSUME MarkRegression(h) PROVE FALSE
    OBVIOUS
  <2>1. Again(h) # Idle
    BY DEF Again, Idle
  <2>2. ~Run(h, Again(h))
    BY <2>1 DEF Run, TimelineInv, TypeInv
  <2>3. PICK c \in hook[h].changes : hook[h].step = "change" /\ c.phase \notin Ids
    BY <2>2, Zenon DEF MarkRegression, Due
  <2>4. c \in Changes(Full)
    BY <2>3 DEF TimelineInv, ReadInv, StillFetched
  <2> QED BY <2>3, <2>4 DEF Changes
<1> QED
  BY <1>2, <1>5, <1>6, <1>7, FetchSettles, TryCompleteSettles DEF Automation, Fetch

\* When the reconciliation ends, nothing is left for the next one to do, if it had
\* a pass for each automatic phase or ended with passes left: each pass takes one
\* phase out of those that are open, and none that it changed opens again.
THEOREM ReconciliationSettles == Spec => ReconcileSettles
<1>1. Init => MarksInv /\ PassInv
  <2> SUFFICES ASSUME Init PROVE MarksInv /\ PassInv
    OBVIOUS
  <2>1. PassInv
    BY DEF Init, Idle, PassInv, Passes
  <2>2. MarksInv
    BY InitMarks DEF MarksInv
  <2> QED BY <2>1, <2>2
<1>2. TimelineInv /\ TimelineInv' /\ MarksInv /\ PassInv /\ [Next]_vars => MarksInv' /\ PassInv'
  BY MarksKept, PassesKept
<1>3. TimelineInv /\ MarksInv /\ PassInv /\ [Next]_vars =>
        \A h \in Hooks :
          (/\ ~env.races /\ hook[h].step \in {"fetch", "change"} /\ hook'[h] = Idle
           /\ PassesSuffice \/ hook[h].step = "change" \/ hook[h].left > 0) => Settled'
  BY StepSettles
<1> QED
  BY <1>1, <1>2, <1>3, TimelineInvariance, PTL DEF Spec, ReconcileSettles

-----------------------------------------------------------------------------
(* Never stuck *)

\* A timeline that a request will pause or resume has started.
StartedInv ==
    ~crossed => \A a \in Admins : admin[a].step \in {"pause", "resume"} => status # "DRAFT"

LEMMA CompletionGoesOn ==
    ASSUME TypeInv, Distinct, NEW p \in Ids, NEW u, Complete(p, u)
    PROVE  GoesOn'
<1>1. /\ SameOrders
      /\ \/ (\A q : ~Starts(q, p)) /\ phases' = Done(p)
         \/ \E q : Starts(q, p) /\ phases' = Started(p, q)
  BY Completion
<1>2. /\ Ids' = Ids /\ DOMAIN phases' = Ids
      /\ \A r \in Ids : phases'[r].order = phases[r].order /\ phases[r].order \in Nat
  BY <1>1 DEF SameOrders, TypeInv, Phase
<1> SUFFICES ASSUME NEW q \in Ids, phases'[q].status = "PENDING",
                    \A r \in Ids : phases[r].order < phases[q].order => phases'[r].status = "COMPLETED"
             PROVE  FALSE
  BY <1>2 DEF GoesOn, AllCompleted, Before
<1>3. CASE (\A r : ~Starts(r, p)) /\ phases' = Done(p)
  <2>1. q # p /\ \A r \in Ids \ {p} : phases'[r] = phases[r]
    BY <1>3, DoneMeaning
  <2>2. Starts(q, p)
    BY <1>2, <2>1 DEF Starts
  <2> QED BY <1>3, <2>2
<1>4. ASSUME NEW n, Starts(n, p), phases' = Started(p, n) PROVE FALSE
  <2>1. /\ n \in Ids /\ n # p /\ phases'[n].status = "IN_PROGRESS"
        /\ phases'[p].status = "COMPLETED"
        /\ \A r \in Ids \ {p, n} : phases'[r] = phases[r]
    BY <1>4, DoneMeaning, StartedMeaning DEF Starts
  <2>2. q # p /\ q # n
    BY <2>1
  <2>3. phases[n].order < phases[q].order
    BY <1>2, <1>4, <2>1, <2>2 DEF Starts, Distinct
  <2> QED BY <2>1, <2>3
<1> QED
  BY <1>1, <1>3, <1>4

\* Only orders that stay are looked at.
LEMMA UnmovedGoesOn ==
    ASSUME TypeInv, GoesOn, SameOrders, \A p \in Ids : phases'[p].status = phases[p].status
    PROVE  GoesOn'
BY DEF GoesOn, SameOrders, AllCompleted, Before, Ids

LEMMA ReopenGoesOn ==
    ASSUME TypeInv, Distinct, GoesOn \/ status = "DRAFT", NEW h \in Hooks, Reopen(h)
    PROVE  GoesOn' \/ status' = "DRAFT"
<1>1. status' = (IF status = "COMPLETED" THEN "ACTIVE" ELSE status)
  BY Zenon DEF Reopen
<1>2. PICK c \in hook[h].changes : c.order \in Nat /\ Reopened(c.order)
  BY Reopening
<1>3. /\ Ids' = Ids /\ DOMAIN phases' = Ids
      /\ \A r \in Ids : phases'[r].order = phases[r].order /\ phases[r].order \in Nat
  BY <1>2 DEF Reopened, SameOrders, TypeInv, Phase
<1>4. CASE GoesOn
  <2> SUFFICES ASSUME NEW q \in Ids, phases'[q].status = "PENDING",
                      \A r \in Ids : phases[r].order < phases[q].order => phases'[r].status = "COMPLETED"
               PROVE  FALSE
    BY <1>3 DEF GoesOn, AllCompleted, Before
  <2>1. CASE phases[q].order < c.order
    <3>1. \A r \in Ids : phases[r].order <= phases[q].order => phases'[r] = phases[r]
      BY <1>2, <1>3, <2>1 DEF Reopened
    <3> QED BY <1>3, <1>4, <3>1 DEF GoesOn, AllCompleted, Before, Ids
  <2>2. CASE ~(phases[q].order < c.order)
    <3>1. q \in Affected(c.order)
      BY <1>2, <1>3, <2>2 DEF Affected
    <3>2. PICK f \in Affected(c.order) :
            /\ phases'[f].status = "IN_PROGRESS"
            /\ \A r \in Affected(c.order) \ {f} : phases[f].order <= phases[r].order
      BY <1>2, <3>1 DEF Reopened
    <3>3. phases[f].order < phases[q].order
      BY <1>3, <3>1, <3>2 DEF Affected, Distinct
    <3> QED BY <1>3, <3>2, <3>3 DEF Affected
  <2> QED BY <2>1, <2>2
<1> QED
  BY <1>1, <1>4

\* An activation starts the least of the phases.
LEMMA ActivateGoesOn ==
    ASSUME TimelineInv, ~env.edits, NEW a \in Admins, Activate(a)
    PROVE  GoesOn'
<1>1. admin[a].seen.ids = Ids /\ admin[a].seen.first = Firsts /\ Distinct
  BY DEF TimelineInv, SeenInv, OrderInv, Activate
<1>2. phases' = [p \in Ids |-> [phases[p] EXCEPT
                   !.status = IF p \in Firsts THEN "IN_PROGRESS" ELSE "PENDING"]]
  <2>1. AllThere(a)
    BY <1>1 DEF AllThere
  <2> QED BY <1>1, <2>1 DEF Activate
<1>3. phases \in [Ids -> Phase]
  BY DEF TimelineInv, TypeInv
<1>4. /\ DOMAIN phases' = Ids /\ Ids' = Ids
      /\ \A p \in Firsts : p \in Ids /\ phases'[p].status = "IN_PROGRESS"
      /\ \A p \in Ids : phases'[p].order = phases[p].order /\ phases[p].order \in Nat
  BY <1>2, <1>3 DEF Ids, Phase, Firsts
<1> SUFFICES ASSUME NEW p \in Ids, phases'[p].status = "PENDING"
             PROVE  ~AllCompleted(phases', Before(phases', p))
  BY <1>4 DEF GoesOn
<1>5. PICK f \in Ids : \A q \in Ids : phases[f].order <= phases[q].order
  BY <1>3, LeastOrder
<1>6. f \in Firsts /\ f # p
  BY <1>4, <1>5 DEF Firsts
<1>7. f \in Before(phases', p)
  BY <1>1, <1>4, <1>5, <1>6 DEF Distinct, Before
<1> QED
  BY <1>4, <1>6, <1>7 DEF AllCompleted

\* The rest of what a step may do to a timeline whose phases nobody edits: no
\* status of a phase changes, and no draft is turned into anything else.
Idles ==
    /\ SameOrders /\ \A p \in Ids : phases'[p].status = phases[p].status
    /\ status = "DRAFT" => status' = "DRAFT"

LEMMA RequestGoesOn ==
    ASSUME TimelineInv, StartedInv, ~crossed, ~env.edits, NEW a \in Admins, Requests(a)
    PROVE  GoesOn' \/ status' = "DRAFT" \/ Idles
<1>1. CASE UNCHANGED dataVars
  BY <1>1, UnchangedOrders DEF TimelineInv, dataVars, Idles
<1>2. CASE Activate(a)
  BY <1>2, ActivateGoesOn
<1>3. CASE Pause(a) \/ Resume(a) \/ Unlock(a)
  <2>1. UNCHANGED phases /\ (status = "DRAFT" => status' = "DRAFT")
    BY <1>3, Zenon DEF Pause, Resume, Unlock, StartedInv
  <2> QED BY <2>1, UnchangedOrders DEF TimelineInv, Idles
<1>4. CASE Reset(a)
  <2>1. status' = "DRAFT" \/ UNCHANGED dataVars
    BY <1>4, Zenon DEF Reset, dataVars
  <2> QED BY <1>1, <2>1
<1>5. CASE CompletePhase(a)
  <2>1. Distinct
    BY DEF TimelineInv, OrderInv
  <2>2. \/ UNCHANGED dataVars
        \/ admin[a].phase \in Ids /\ Complete(admin[a].phase, admin[a].unlocked)
    BY <1>5, Zenon DEF CompletePhase
  <2> QED BY <1>1, <2>1, <2>2, CompletionGoesOn DEF TimelineInv
<1>6. ~RemovePhase(a) /\ \A p : ~StartRemove(a, p)
  BY DEF RemovePhase, StartRemove, TimelineInv, SeenInv
<1>7. ASSUME NEW op, StartRequest(a, op) PROVE UNCHANGED dataVars
  BY <1>7 DEF StartRequest
<1>8. ASSUME NEW p, StartComplete(a, p) \/ Upload(a, p) PROVE UNCHANGED dataVars
  BY <1>8 DEF StartComplete, Upload
<1>9. CompleteUploaded(a) => UNCHANGED dataVars
  BY DEF CompleteUploaded
<1> QED
  BY <1>1, <1>2, <1>3, <1>4, <1>5, <1>6, <1>7, <1>8, <1>9 DEF Requests

LEMMA HookGoesOn ==
    ASSUME TimelineInv, GoesOn \/ status = "DRAFT", ~env.edits, NEW h \in Hooks, Automation(h)
    PROVE  GoesOn' \/ status' = "DRAFT" \/ Idles
<1>1. CASE UNCHANGED dataVars
  BY <1>1, UnchangedOrders DEF TimelineInv, dataVars, Idles
<1>2. Distinct
  BY DEF TimelineInv, OrderInv
<1>3. CASE CompleteByHook(h)
  <2>1. \/ UNCHANGED dataVars
        \/ hook[h].phase \in Ids /\ Complete(hook[h].phase, hook[h].unlocked)
    BY <1>3, Zenon DEF CompleteByHook
  <2> QED BY <1>1, <1>2, <2>1, CompletionGoesOn DEF TimelineInv
<1>4. CASE Reopen(h)
  BY <1>2, <1>4, ReopenGoesOn DEF TimelineInv
<1>5. CASE MarkRegression(h)
  <2>1. status' = status /\ locked' = locked
    BY <1>5 DEF MarkRegression
  <2>2. \/ UNCHANGED phases
        \/ \E p \in Ids, m \in {"no", "recent", "old"} : phases' = [phases EXCEPT ![p].regressed = m]
    BY <1>5 DEF MarkRegression
  <2> QED BY <2>1, <2>2, Marking, UnchangedOrders DEF TimelineInv, Idles, Unmoved
<1>6. StartHook(h) \/ Weigh(h) \/ Advance(h) \/ ReadScores(h) \/ Fetch(h) \/ TryComplete(h) =>
        UNCHANGED dataVars
  BY Zenon DEF StartHook, Weigh, Advance, ReadScores, Fetch, TryComplete
<1> QED
  BY <1>1, <1>3, <1>4, <1>5, <1>6 DEF Automation

\* Only a reset makes a draft, and if it overtakes a pause or a resume it is noted.
LEMMA StartedKept ==
    ASSUME TimelineInv, StartedInv, [Next]_vars
    PROVE  StartedInv' /\ (crossed => crossed')
<1>1. CASE UNCHANGED vars
  BY <1>1 DEF vars, dataVars, StartedInv
<1>2. ASSUME NEW h \in Hooks, Automation(h) PROVE StartedInv' /\ crossed' = crossed
  <2>1. admin' = admin /\ crossed' = crossed
    BY <1>2, Zenon DEF Automation, StartHook, Weigh, Advance, CompleteByHook, ReadScores, Fetch,
                       MarkRegression, Reopen, TryComplete
  <2>2. status' = status \/ status' \in {"COMPLETED", "ACTIVE"}
    <3>1. CompleteByHook(h) => UNCHANGED dataVars \/
            (hook[h].phase \in Ids /\ Complete(hook[h].phase, hook[h].unlocked))
      BY Zenon DEF CompleteByHook
    <3>2. CompleteByHook(h) => status' = status \/ status' = "COMPLETED"
      BY <3>1, Completion DEF TimelineInv, dataVars
    <3>3. Reopen(h) => status' = (IF status = "COMPLETED" THEN "ACTIVE" ELSE status)
      BY Zenon DEF Reopen
    <3>4. StartHook(h) \/ Weigh(h) \/ Advance(h) \/ ReadScores(h) \/ Fetch(h) \/ TryComplete(h)
            \/ MarkRegression(h) => status' = status
      BY Zenon DEF StartHook, Weigh, Advance, ReadScores, Fetch, TryComplete, MarkRegression, dataVars
    <3> QED BY <1>2, <3>2, <3>3, <3>4 DEF Automation
  <2> QED BY <2>1, <2>2 DEF StartedInv
<1>3. ASSUME NEW a \in Admins, Requests(a) PROVE StartedInv' /\ (crossed => crossed')
  <2>1. CASE Reset(a)
    <3>1. /\ crossed' = (crossed \/ (/\ status' # status
                                     /\ \E b \in Admins : admin[b].step \in {"pause", "resume"}))
          /\ Ask(a, Idle)
      BY <2>1 DEF Reset
    <3>2. \A b \in Admins : admin'[b] = admin[b] \/ admin'[b].step = "idle"
      BY <3>1 DEF Ask, TimelineInv, TypeInv, Idle
    <3> QED BY <3>1, <3>2 DEF StartedInv
  <2>2. ASSUME NEW op, StartRequest(a, op) PROVE StartedInv' /\ crossed' = crossed
    <3>1. /\ Ask(a, [step |-> op, seen |-> Read(op)]) /\ Allowed(op)
          /\ status' = status /\ crossed' = crossed
      BY <2>2 DEF StartRequest, dataVars
    <3>2. /\ admin'[a].step = op /\ \A b \in Admins \ {a} : admin'[b] = admin[b]
      BY <3>1 DEF Ask, TimelineInv, TypeInv
    <3>3. op \in {"pause", "resume"} => status # "DRAFT"
      BY <3>1 DEF Allowed
    <3> QED BY <3>1, <3>2, <3>3 DEF StartedInv
  <2>3. ASSUME NEW k, Ask(a, k), k.step \notin {"pause", "resume"}, crossed' = crossed,
               status = "DRAFT" \/ status' # "DRAFT"
        PROVE  StartedInv' /\ crossed' = crossed
    <3>1. admin'[a] = k /\ \A b \in Admins \ {a} : admin'[b] = admin[b]
      BY <2>3 DEF Ask, TimelineInv, TypeInv
    <3> QED BY <2>3, <3>1 DEF StartedInv
  <2>4. ASSUME NEW p, StartComplete(a, p) \/ Upload(a, p) \/ StartRemove(a, p)
        PROVE  StartedInv' /\ crossed' = crossed
    <3>1. PICK k : /\ Ask(a, k) /\ k.step \in {"complete", "uploaded", "remove"}
                   /\ crossed' = crossed /\ status' = status
      BY <2>4 DEF StartComplete, Upload, StartRemove, dataVars
    <3> QED BY <2>3, <3>1
  <2>5. CASE CompleteUploaded(a)
    <3>1. PICK k : /\ Ask(a, k) /\ k.step \in {"complete", "idle"}
                   /\ crossed' = crossed /\ status' = status
      BY <2>5 DEF CompleteUploaded, Idle, dataVars
    <3> QED BY <2>3, <3>1
  <2>6. CASE CompletePhase(a)
    <3>1. Ask(a, Idle) /\ crossed' = crossed
      BY <2>6 DEF CompletePhase
    <3>2. UNCHANGED dataVars \/
            (admin[a].phase \in Ids /\ Complete(admin[a].phase, admin[a].unlocked))
      BY <2>6, Zenon DEF CompletePhase
    <3>3. status' = status \/ status' = "COMPLETED"
      BY <3>2, Completion DEF TimelineInv, dataVars
    <3> QED BY <2>3, <3>1, <3>3 DEF Idle
  <2>7. CASE Activate(a) \/ Pause(a) \/ Resume(a) \/ Unlock(a) \/ RemovePhase(a)
    <3>1. /\ Ask(a, Idle) /\ crossed' = crossed
          /\ status' = status \/ status' \in {"ACTIVE", "PAUSED"}
      BY <2>7 DEF Activate, Pause, Resume, Unlock, RemovePhase
    <3> QED BY <2>3, <3>1 DEF Idle
  <2> QED BY <1>3, <2>1, <2>2, <2>4, <2>5, <2>6, <2>7 DEF Requests
<1>4. ASSUME UNCHANGED <<status, admin, crossed>> PROVE StartedInv' /\ crossed' = crossed
  BY <1>4 DEF StartedInv
<1>5. ASSUME NEW p, NEW new, AddPhase(p, new) \/ GraceEnds(p)
      PROVE  UNCHANGED <<status, admin, crossed>>
  BY <1>5 DEF AddPhase, GraceEnds
<1>6. ASSUME NEW k, Work(k) PROVE UNCHANGED <<status, admin, crossed>>
  BY <1>6 DEF Work, dataVars
<1> QED
  BY <1>1, <1>2, <1>3, <1>4, <1>5, <1>6 DEF Next

LEMMA NeverStuckKept ==
    ASSUME TimelineInv, StartedInv, NeverStuck, [Next]_vars
    PROVE  NeverStuck'
<1>1. env' = env /\ (crossed => crossed')
  BY EnvKept, StartedKept
<1> SUFFICES ASSUME ~env.edits, ~crossed PROVE GoesOn' \/ status' = "DRAFT"
  BY <1>1 DEF NeverStuck, GoesOn
<1>2. GoesOn \/ status = "DRAFT"
  BY DEF NeverStuck, GoesOn
<1>3. GoesOn' \/ status' = "DRAFT" \/ Idles
  <2>1. CASE UNCHANGED dataVars
    BY <2>1, UnchangedOrders DEF TimelineInv, dataVars, Idles
  <2>2. ASSUME NEW p \in PhaseIds, GraceEnds(p) PROVE Idles
    BY <2>2, Marking DEF GraceEnds, TimelineInv, Idles, Unmoved
  <2>3. \A k \in AdvanceKinds : Work(k) => UNCHANGED dataVars
    BY DEF Work
  <2>4. \A p, new : ~AddPhase(p, new)
    BY DEF AddPhase
  <2>5. UNCHANGED vars => UNCHANGED dataVars
    BY DEF vars
  <2> QED BY <1>2, <2>1, <2>2, <2>3, <2>4, <2>5, RequestGoesOn, HookGoesOn DEF Next
<1> QED
  BY <1>2, <1>3, UnmovedGoesOn DEF TimelineInv, Idles

\* A timeline that has started is never stuck, with any number of hooks and
\* administrators completing, reopening and resetting at the same time, until a
\* reset overtakes the pause or the resume of another.
THEOREM TimelinesGoOn == Spec => []NeverStuck
<1> DEFINE Inv == StartedInv /\ NeverStuck
<1>1. Init => Inv
  <2> SUFFICES ASSUME Init PROVE Inv
    OBVIOUS
  <2>1. StartedInv
    BY DEF Init, StartedInv, Idle
  <2>2. NeverStuck
    BY InitInv DEF NeverStuck, GoesOn
  <2> QED BY <2>1, <2>2
<1>2. TimelineInv /\ Inv /\ [Next]_vars => Inv'
  BY StartedKept, NeverStuckKept
<1> QED
  BY <1>1, <1>2, TimelineInvariance, PTL DEF Spec
=============================================================================
