----------------------------- MODULE Timelines -----------------------------
(***************************************************************************)
(* One compliance timeline (apps/api/src/timelines): phases in an order,   *)
(* of which one is in progress at a time.  Admins activate, pause, resume, *)
(* unlock, reset and edit the timeline and complete its phases by hand.    *)
(* After each change of a task, policy, member or finding a hook completes *)
(* the automatic phases whose work is done (runPhaseAdvancement) and then  *)
(* reconciles the automatic phases with the scores, in both directions.    *)
(* Each request reads first and writes in a later transaction, without a   *)
(* lock.  Dates, notifications, reviews and cycles are left out.           *)
(***************************************************************************)
EXTENDS Integers, FiniteSets, Sequences, Functions

CONSTANTS
    PhaseIds,     \* phases the timeline has or may get
    Originals,    \* the phases of its template, in order
    Kind,         \* the completionType of each phase
    Locks,        \* the phases with locksTimelineOnComplete
    Admins,       \* requests of admins and customers
    Hooks,        \* runs of the hook
    Environments  \* what may happen, see env

AdvanceKinds == {"AUTO_TASKS", "AUTO_POLICIES", "AUTO_PEOPLE", "AUTO_FINDINGS"}
AUTO_PHASE_TYPES == {"AUTO_TASKS", "AUTO_POLICIES", "AUTO_PEOPLE"}
AUTO_PHASE_TYPES_NO_GRACE == {"AUTO_PEOPLE"}
Kinds == AdvanceKinds \cup {"AUTO_UPLOAD", "MANUAL"}
View == [done : BOOLEAN, full : BOOLEAN]

maxSyncPasses == 20

ASSUME TimelineAssumption ==
    /\ IsFiniteSet(PhaseIds)
    /\ Originals \in Seq(PhaseIds) /\ IsInjective(Originals)
    /\ Kind \in [PhaseIds -> Kinds] /\ Locks \subseteq PhaseIds
    /\ \A e \in Environments : /\ e.views \in [AdvanceKinds -> SUBSET View]
                               /\ e.passes \subseteq 0..maxSyncPasses

VARIABLES
    status,  \* of the timeline
    locked,  \* lockedAt is set
    phases,  \* the phases it has
    unused,  \* the phases never added
    metric,  \* of each kind: is the work done as the advancement counts it, and
             \* is it full as the reconciliation does?  The advancement counts
             \* the tasks of the framework, the reconciliation those of the
             \* organization, and it rounds: 199 of 200 is full but not done
    admin,   \* what each request is doing
    hook,    \* what each hook is doing
    crossed, \* history: has a reset overtaken a request to pause or to resume?
    env      \* chosen once: which requests and hooks there are, do they race, are
             \* phases added and removed, how did the timeline begin, what may the
             \* scores of a kind look like, and how many of its passes can a
             \* reconciliation, which shares them among the timelines of the
             \* organization, spend on this one

dataVars == <<status, locked, phases, unused>>
worldVars == <<crossed, env>>
vars == <<dataVars, metric, admin, hook, worldVars>>

Phase == [order : Nat, status : {"PENDING", "IN_PROGRESS", "COMPLETED"},
          regressed : {"no", "recent", "old"}]
Ids == DOMAIN phases
Idle == [step |-> "idle"]
Ask(a, request) == admin' = [admin EXCEPT ![a] = request]
Run(h, job) == hook' = [hook EXCEPT ![h] = job]

\* Without races nobody starts, and no score changes, while a request or a hook
\* is at work.
Quiet == (\A a \in Admins : admin[a] = Idle) /\ (\A h \in Hooks : hook[h] = Idle)
Undisturbed == env.races \/ Quiet

-----------------------------------------------------------------------------
(* TimelinesLifecycleService.completePhase *)

Before(ps, p) == {q \in DOMAIN ps : ps[q].order < ps[p].order}
AllCompleted(ps, S) == \A q \in S : ps[q].status = "COMPLETED"

\* The checks, made before the transaction.
Completable(p) ==
    /\ p \in Ids /\ phases[p].status = "IN_PROGRESS"
    /\ AllCompleted(phases, Before(phases, p))

FirstPending(ps) ==
    LET pending == {q \in DOMAIN ps : ps[q].status = "PENDING"}
    IN  {q \in pending : \A r \in pending : ps[q].order <= ps[r].order}

\* Variant: what comes before is looked at as it was before the completion.
StartableAsRead(ps) == {q \in FirstPending(ps) : AllCompleted(phases, Before(phases, q))}

\* The next pending phase starts if all before it are completed.
Startable(ps) == {q \in FirstPending(ps) : AllCompleted(ps, Before(ps, q))}

\* Variant: the phases that are pending are counted.
NonePending(ps, p) == \A q \in DOMAIN ps \ {p} : ps[q].status # "PENDING"

NoneOpen(ps, p) == AllCompleted(ps, DOMAIN ps \ {p})

\* The transaction; unlockedSeen is what the read before it saw.
Complete(p, unlockedSeen) ==
    LET done == [phases EXCEPT ![p].status = "COMPLETED"]
        next == Startable(done)
    IN  /\ phases' \in IF next = {} THEN {done}
                       ELSE {[done EXCEPT ![q].status = "IN_PROGRESS"] : q \in next}
        /\ status' = IF NoneOpen(phases', p) THEN "COMPLETED" ELSE status
        /\ locked' = (locked \/ (unlockedSeen /\ (p \in Locks \/ NoneOpen(phases', p))))
        /\ UNCHANGED unused

-----------------------------------------------------------------------------
(* Requests of admins and customers: the checks, then the writes *)

Allowed(op) ==
    CASE op = "activate" -> status = "DRAFT"
      [] op = "pause" -> status = "ACTIVE"
      [] op = "resume" -> status = "PAUSED"
      [] op = "unlock" -> status # "COMPLETED" /\ locked
      [] op = "reset" -> TRUE

\* What a request remembers of the phases it read: those that activate and reset
\* will write, and those that resume may.
Read(op) ==
    CASE op = "activate" -> [ids |-> Ids,
                             first |-> {p \in Ids : \A q \in Ids : phases[p].order <= phases[q].order}]
      [] op = "resume" -> [ids |-> {p \in Ids : phases[p].status # "COMPLETED"}]
      [] op = "reset" -> [ids |-> Ids]
      [] OTHER -> <<>>

StartRequest(a, op) ==
    /\ a \in env.actors /\ admin[a] = Idle /\ Undisturbed /\ Allowed(op)
    /\ Ask(a, [step |-> op, seen |-> Read(op)])
    /\ UNCHANGED <<dataVars, metric, hook, worldVars>>

\* A phase that was seen and is gone fails the transaction.
AllThere(a) == admin[a].seen.ids \subseteq Ids

Activate(a) ==
    LET seen == admin[a].seen
    IN  /\ admin[a].step = "activate"
        /\ IF AllThere(a)
           THEN /\ status' = "ACTIVE"
                /\ phases' = [p \in Ids |->
                                IF p \notin seen.ids THEN phases[p]
                                ELSE [phases[p] EXCEPT
                                        !.status = IF p \in seen.first THEN "IN_PROGRESS" ELSE "PENDING"]]
           ELSE UNCHANGED <<status, phases>>
        /\ Ask(a, Idle)
        /\ UNCHANGED <<locked, unused, metric, hook, worldVars>>

Pause(a) ==
    /\ admin[a].step = "pause"
    /\ status' = "PAUSED" /\ Ask(a, Idle)
    /\ UNCHANGED <<locked, phases, unused, metric, hook, worldVars>>

\* Only the phases with dates that are not pinned are written: a phase that is
\* gone may or may not be one of them.
Resume(a) ==
    /\ admin[a].step = "resume"
    /\ status' \in IF AllThere(a) THEN {"ACTIVE"} ELSE {"ACTIVE", status}
    /\ Ask(a, Idle)
    /\ UNCHANGED <<locked, phases, unused, metric, hook, worldVars>>

Unlock(a) ==
    /\ admin[a].step = "unlock"
    /\ locked' = FALSE /\ Ask(a, Idle)
    /\ UNCHANGED <<status, phases, unused, metric, hook, worldVars>>

Reset(a) ==
    /\ admin[a].step = "reset"
    /\ IF AllThere(a)
       THEN /\ status' = "DRAFT" /\ locked' = FALSE
            /\ phases' = [p \in Ids |->
                            IF p \notin admin[a].seen.ids THEN phases[p]
                            ELSE [phases[p] EXCEPT !.status = "PENDING", !.regressed = "no"]]
       ELSE UNCHANGED <<status, locked, phases>>
    /\ crossed' = \/ crossed
                  \/ status' # status /\ \E b \in Admins : admin[b].step \in {"pause", "resume"}
    /\ Ask(a, Idle)
    /\ UNCHANGED <<unused, metric, hook, env>>

\* Completion by hand.
StartComplete(a, p) ==
    /\ a \in env.actors /\ admin[a] = Idle /\ Undisturbed /\ Completable(p)
    /\ Ask(a, [step |-> "complete", phase |-> p, unlocked |-> ~locked])
    /\ UNCHANGED <<dataVars, metric, hook, worldVars>>

\* updatePhase with a document, on an unlocked timeline, goes on to complete.
Upload(a, p) ==
    /\ a \in env.actors /\ admin[a] = Idle /\ Undisturbed
    /\ p \in Ids /\ Kind[p] = "AUTO_UPLOAD" /\ ~locked /\ phases[p].status # "COMPLETED"
    /\ Ask(a, [step |-> "uploaded", phase |-> p])
    /\ UNCHANGED <<dataVars, metric, hook, worldVars>>

CompleteUploaded(a) ==
    LET p == admin[a].phase
    IN  /\ admin[a].step = "uploaded"
        /\ Ask(a, IF Completable(p) THEN [step |-> "complete", phase |-> p, unlocked |-> ~locked]
                  ELSE Idle)
        /\ UNCHANGED <<dataVars, metric, hook, worldVars>>

CompletePhase(a) ==
    /\ admin[a].step = "complete"
    /\ IF admin[a].phase \in Ids THEN Complete(admin[a].phase, admin[a].unlocked) ELSE UNCHANGED dataVars
    /\ Ask(a, Idle)
    /\ UNCHANGED <<metric, hook, worldVars>>

-----------------------------------------------------------------------------
(* TimelinesPhasesService.addPhase and removePhase *)

\* Variant: the phase the new one was to come before stays where it is.
MovesUpAfter(order, new) == order > new

\* The phases at or after a new one move up.
MovesUp(order, new) == order >= new

AddPhase(p, new) ==
    /\ env.edits /\ Undisturbed /\ p \in unused
    /\ phases' = [q \in Ids \cup {p} |->
                    IF q = p THEN [order |-> new, status |-> "PENDING", regressed |-> "no"]
                    ELSE [phases[q] EXCEPT !.order = IF MovesUp(@, new) THEN @ + 1 ELSE @]]
    /\ unused' = unused \ {p}
    /\ UNCHANGED <<status, locked, metric, admin, hook, worldVars>>

StartRemove(a, p) ==
    /\ env.edits /\ a \in env.actors /\ admin[a] = Idle /\ Undisturbed
    /\ p \in Ids
    /\ Ask(a, [step |-> "remove", phase |-> p, seen |-> phases])
    /\ UNCHANGED <<dataVars, metric, hook, worldVars>>

\* The numberings of some phases from 0 on that keep their order.
Numberings(ps, S) ==
    {index \in [S -> 0..Cardinality(S) - 1] : \A q, r \in S :
        q # r => /\ index[q] # index[r]
                 /\ ps[q].order < ps[r].order => index[q] < index[r]}

\* The phases that were seen are numbered again, if they are not as they should
\* be; a missing one fails the transaction.
RemovePhase(a) ==
    LET p == admin[a].phase
        seen == admin[a].seen
        rest == DOMAIN seen \ {p}
    IN  /\ admin[a].step = "remove"
        /\ \E index \in Numberings(seen, rest) :
             LET moved == {q \in rest : seen[q].order # index[q]}
             IN  phases' = IF p \in Ids /\ moved \subseteq Ids
                           THEN [q \in Ids \ {p} |->
                                   IF q \in moved THEN [phases[q] EXCEPT !.order = index[q]]
                                   ELSE phases[q]]
                           ELSE phases
        /\ Ask(a, Idle)
        /\ UNCHANGED <<status, locked, unused, metric, hook, worldVars>>

-----------------------------------------------------------------------------
(* checkAutoCompletePhases: runPhaseAdvancement, then the reconciliation.     *)
(* "score" reads the scores for the reconciliation, which then fetches the    *)
(* timeline, makes the first change it finds, and fetches again, as long as   *)
(* it has passes left.                                                        *)

Score == [step |-> "score"]

\* After a change somewhere in the organization: the automatic phases in
\* progress of a timeline that is active.
StartHook(h) ==
    LET todo == {p \in Ids : /\ status = "ACTIVE" /\ phases[p].status = "IN_PROGRESS"
                             /\ Kind[p] \in AdvanceKinds}
    IN  /\ h \in env.actors /\ hook[h] = Idle /\ Undisturbed
        /\ Run(h, IF todo = {} THEN Score ELSE [step |-> "weigh", todo |-> todo])
        /\ UNCHANGED <<dataVars, metric, admin, worldVars>>

\* Of these, the ones whose work is done.
Weigh(h) ==
    /\ hook[h].step = "weigh"
    /\ Run(h, [step |-> "advance", todo |-> {p \in hook[h].todo : metric[Kind[p]].done}])
    /\ UNCHANGED <<dataVars, metric, admin, worldVars>>

NextToAdvance(h, p) == [hook[h] EXCEPT !.todo = @ \ {p}]

\* completePhase of one of them; what cannot be completed is logged.
Advance(h) ==
    /\ hook[h].step = "advance"
    /\ \/ /\ hook[h].todo = {}
          /\ Run(h, Score)
       \/ \E p \in hook[h].todo :
            Run(h, IF Completable(p)
                   THEN [step |-> "complete", phase |-> p, unlocked |-> ~locked,
                         then |-> NextToAdvance(h, p), otherwise |-> NextToAdvance(h, p)]
                   ELSE NextToAdvance(h, p))
    /\ UNCHANGED <<dataVars, metric, admin, worldVars>>

\* The transaction fails if the phase is gone; either way the hook goes on.
CompleteByHook(h) ==
    /\ hook[h].step = "complete"
    /\ IF hook[h].phase \in Ids
       THEN Complete(hook[h].phase, hook[h].unlocked) /\ Run(h, hook[h].then)
       ELSE Run(h, hook[h].otherwise) /\ UNCHANGED dataVars
    /\ UNCHANGED <<metric, admin, worldVars>>

ReadScores(h) ==
    /\ hook[h].step = "score"
    /\ \E n \in env.passes :
         Run(h, [step |-> "fetch", left |-> n, full |-> {k \in AUTO_PHASE_TYPES : metric[k].full}])
    /\ UNCHANGED <<dataVars, metric, admin, worldVars>>

\* What the reconciliation would do with a phase, given the kinds that are full.
CanAutoTransition == status = "ACTIVE" /\ ~locked

\* Variant: a phase is marked again at each look.
AlwaysNew(f) == TRUE

Unmarked(f) == f.regressed = "no"

Change(p, full) ==
    LET f == phases[p]
        dropped == f.status = "COMPLETED" /\ Kind[p] \notin full
        graceOver == Kind[p] \in AUTO_PHASE_TYPES_NO_GRACE \/ f.regressed = "old"
        due == CanAutoTransition /\ graceOver
    IN  IF Kind[p] \notin AUTO_PHASE_TYPES THEN "none"
        ELSE CASE ~Unmarked(f) /\ ~dropped -> "clear"
               [] dropped /\ due -> "reopen"
               [] dropped /\ ~due /\ Unmarked(f) -> "mark"
               [] CanAutoTransition /\ Unmarked(f) /\ f.status = "IN_PROGRESS" /\ Kind[p] \in full -> "complete"
               [] OTHER -> "none"

\* The changes of one fetch, made in the order of the phases as they were read.
Changes(full) ==
    {[do |-> Change(p, full), phase |-> p, order |-> phases[p].order] :
       p \in {p \in Ids : Change(p, full) # "none"}}

Due(h) == {c \in hook[h].changes : \A d \in hook[h].changes : c.order <= d.order}

Fetch(h) ==
    LET full == hook[h].full
    IN  /\ hook[h].step = "fetch"
        /\ Run(h, IF \/ hook[h].left = 0
                     \/ status \notin {"ACTIVE", "COMPLETED"} \/ Changes(full) = {}
                  THEN Idle
                  ELSE [step |-> "change", left |-> hook[h].left - 1,
                        full |-> full, changes |-> Changes(full)])
        /\ UNCHANGED <<dataVars, metric, admin, worldVars>>

Again(h) == [step |-> "fetch", left |-> hook[h].left, full |-> hook[h].full]

\* The mark of a regression is set or cleared; if the phase is gone the
\* reconciliation fails.
MarkRegression(h) ==
    /\ hook[h].step = "change"
    /\ \E c \in Due(h) :
        /\ c.do \in {"mark", "clear"}
        /\ \/ /\ c.phase \in Ids
              /\ phases' = [phases EXCEPT ![c.phase].regressed = IF c.do = "mark" THEN "recent" ELSE "no"]
              /\ Run(h, Again(h))
           \/ /\ c.phase \notin Ids
              /\ Run(h, Idle) /\ UNCHANGED phases
    /\ UNCHANGED <<status, locked, unused, metric, admin, worldVars>>

Affected(order) == {p \in Ids : phases[p].order >= order}

\* reopenFromRegressedPhase: the phases from an order on start over.
Reopen(h) ==
    /\ hook[h].step = "change"
    /\ \E c \in Due(h) :
        LET affected == Affected(c.order)
            first == CHOOSE p \in affected :
                       \A q \in affected : phases[p].order <= phases[q].order
        IN  /\ c.do = "reopen"
            /\ phases' =
                 [p \in Ids |->
                    IF p \notin affected THEN phases[p]
                    ELSE [phases[p] EXCEPT !.regressed = "no",
                            !.status = IF p = first THEN "IN_PROGRESS" ELSE "PENDING"]]
    /\ status' = IF status = "COMPLETED" THEN "ACTIVE" ELSE status
    /\ Run(h, Again(h))
    /\ UNCHANGED <<locked, unused, metric, admin, worldVars>>

\* The changes after one that failed.
Without(h, c) ==
    IF hook[h].changes = {c} THEN Idle ELSE [hook[h] EXCEPT !.changes = @ \ {c}]

\* completePhase; what cannot be completed gives way to the next change.
TryComplete(h) ==
    /\ hook[h].step = "change"
    /\ \E c \in Due(h) :
        /\ c.do = "complete"
        /\ Run(h, IF Completable(c.phase)
                  THEN [step |-> "complete", phase |-> c.phase, unlocked |-> ~locked,
                        then |-> Again(h), otherwise |-> Without(h, c)]
                  ELSE Without(h, c))
    /\ UNCHANGED <<dataVars, metric, admin, worldVars>>

-----------------------------------------------------------------------------
(* External: the work of the organization, and time *)

Work(k) ==
    /\ Undisturbed
    /\ \E v \in env.views[k] : metric' = [metric EXCEPT ![k] = v]
    /\ UNCHANGED <<dataVars, admin, hook, worldVars>>

\* REGRESSION_GRACE_MS, a day, has passed; no request takes that long.
GraceEnds(p) ==
    /\ Quiet
    /\ p \in Ids /\ phases[p].regressed = "recent"
    /\ phases' = [phases EXCEPT ![p].regressed = "old"]
    /\ UNCHANGED <<status, locked, unused, metric, admin, hook, worldVars>>

-----------------------------------------------------------------------------
(* Specification *)

\* The timeline is made from its template as a draft; the backfill of an older
\* organization starts it with some phases past, or with all, or completed.
Begun(n) == [p \in Range(Originals) |->
               LET i == CHOOSE i \in DOMAIN Originals : Originals[i] = p
               IN  [order |-> i - 1, regressed |-> "no",
                    status |-> IF i <= n THEN "COMPLETED"
                               ELSE IF i = n + 1 THEN "IN_PROGRESS" ELSE "PENDING"]]

Init ==
    /\ env \in Environments
    /\ \/ /\ env.began = "draft" /\ status = "DRAFT"
          /\ phases = [p \in Range(Originals) |-> [Begun(0)[p] EXCEPT !.status = "PENDING"]]
       \/ /\ env.began = "active" /\ status = "ACTIVE"
          /\ \E n \in 0..Len(Originals) - 1 : phases = Begun(n)
       \/ /\ env.began = "past" /\ status \in {"ACTIVE", "COMPLETED"}
          /\ phases = Begun(Len(Originals))
    /\ locked = FALSE
    /\ unused = PhaseIds \ Range(Originals)
    /\ metric \in {m \in [AdvanceKinds -> View] : \A k \in AdvanceKinds : m[k] \in env.views[k]}
    /\ admin = [a \in Admins |-> Idle]
    /\ hook = [h \in Hooks |-> Idle]
    /\ crossed = FALSE

Requests(a) ==
    \/ \E op \in {"activate", "pause", "resume", "unlock", "reset"} : StartRequest(a, op)
    \/ Activate(a) \/ Pause(a) \/ Resume(a) \/ Unlock(a) \/ Reset(a)
    \/ \E p \in PhaseIds : StartComplete(a, p) \/ Upload(a, p) \/ StartRemove(a, p)
    \/ CompleteUploaded(a) \/ CompletePhase(a) \/ RemovePhase(a)

Automation(h) ==
    \/ StartHook(h) \/ Weigh(h) \/ Advance(h) \/ CompleteByHook(h)
    \/ ReadScores(h) \/ Fetch(h) \/ MarkRegression(h) \/ Reopen(h) \/ TryComplete(h)

Next ==
    \/ \E a \in Admins : Requests(a)
    \/ \E h \in Hooks : Automation(h)
    \/ \E p \in PhaseIds, new \in 0..Cardinality(Ids) : AddPhase(p, new)
    \/ \E k \in AdvanceKinds : Work(k)
    \/ \E p \in PhaseIds : GraceEnds(p)

Spec == Init /\ [][Next]_vars

-----------------------------------------------------------------------------
(* Properties *)

\* Types, and the orders of the phases, which addPhase and removePhase shift,
\* are distinct unless they race.
TypeOK ==
    /\ status \in {"DRAFT", "ACTIVE", "PAUSED", "COMPLETED"} /\ locked \in BOOLEAN
    /\ Ids \subseteq PhaseIds \ unused /\ \A p \in Ids : phases[p] \in Phase
    /\ env.races \/ \A p, q \in Ids : p # q => phases[p].order # phases[q].order
    /\ \A k \in AdvanceKinds : metric[k] \in env.views[k]

\* A timeline that has started never gets stuck: its first uncompleted phase is in
\* progress, whatever hooks and requests complete and reopen at the same time,
\* each on what it read before.  Said of timelines whose phases are not edited,
\* and until a reset overtakes a pause or a resume of another administrator: that
\* one then starts the new draft, without a phase in progress.
NeverStuck ==
    (~env.edits /\ ~crossed /\ status # "DRAFT") =>
      \A p \in Ids :
        phases[p].status = "PENDING" => ~AllCompleted(phases, Before(phases, p))

OneInProgress == \E p \in Ids :
    /\ phases[p].status = "IN_PROGRESS"
    /\ AllCompleted(phases, Before(phases, p))
    /\ \A q \in Ids \ (Before(phases, p) \cup {p}) : phases[q].status = "PENDING"

\* The timeline and its phases agree.  A completed timeline has every phase
\* completed, also when a phase is reopened between the check of a completion and
\* its transaction, or the other way round.  Without races, for a timeline that
\* began as a draft or with a phase in progress, also: it is then locked, a draft
\* has not started, and an active or paused timeline has one phase in progress,
\* with every phase before it completed and none after it begun.  Said of
\* timelines whose phases are not edited.
StatusAgrees ==
    ~env.edits =>
      /\ status = "COMPLETED" => AllCompleted(phases, Ids)
      /\ (~env.races /\ env.began # "past" /\ Ids # {}) =>
           CASE status = "DRAFT" -> \A p \in Ids : phases[p].status = "PENDING"
             [] status = "COMPLETED" -> locked
             [] OTHER -> OneInProgress

Settled ==
    LET full == {k \in AUTO_PHASE_TYPES : metric[k].full}
    IN  status \in {"ACTIVE", "COMPLETED"} =>
          \A p \in Ids : \/ Change(p, full) = "none"
                         \/ Change(p, full) = "complete" /\ ~Completable(p)

AutoPhases == {p \in Ids : Kind[p] \in AUTO_PHASE_TYPES}
PassesSuffice == \A n \in env.passes : n >= Cardinality(AutoPhases)

\* The reconciliation leaves nothing for the next one: when it ends, no phase is
\* in progress whose score is full and whose turn it is, none is completed that
\* should have been reopened, and the marks tell which scores have dropped.  It
\* never undoes or repeats its own changes: one pass for each automatic phase is
\* enough.  Said without races, where no score changes under it; with fewer passes
\* left by the other timelines it may stop short.
ReconcileSettles ==
    [][\A h \in Hooks :
         (/\ ~env.races /\ hook[h].step \in {"fetch", "change"} /\ hook'[h] = Idle
          /\ PassesSuffice \/ hook[h].step = "change" \/ hook[h].left > 0) => Settled']_vars

\* TimelineCard: "Unlocking will re-enable automation checks": while it is
\* locked, automation completes no phase.
LockStopsAutomation ==
    [][\A h \in Hooks : (hook[h].step = "complete" /\ locked) => phases' = phases]_vars

=============================================================================
