------------------------ MODULE FrameworkVersioning ------------------------
(***************************************************************************)
(* Sync and rollback of the framework instances of one organization        *)
(* (apps/api/src/frameworks/framework-versioning).  A published version is *)
(* a manifest of controls, tasks and policies; the frameworks of an        *)
(* organization share the rows made from one template.  A sync moves an    *)
(* instance to another version and records how to undo that; a rollback    *)
(* replays the record.  Both write under a lock of the organization, which *)
(* neither users nor the addition of a framework take.                     *)
(* Of the edges between rows only the requirement maps of the controls are *)
(* modelled, one requirement per instance.                                 *)
(***************************************************************************)
EXTENDS Integers, Sequences, FiniteSets

CONSTANTS
    Instances,    \* framework instances of the organization
    Latest,       \* versions of each framework are 1..Latest; 1 is the earliest
    Templates,    \* template ids
    Controls,     \* the templates of controls
    Policies,     \* the templates of policies; the rest are tasks
    Contents,     \* what a template may say
    Manifest,     \* [Instances -> [Versions -> [SUBSET Templates -> entry]]]
    None,         \* no row, no instance
    Unpinned,     \* an instance without a version
    Edited,       \* what a user wrote
    Workers,      \* requests
    Environments, \* what may happen, see env
    MaxRows,      \* bound: rows made from one template
    MaxSyncs,     \* bound: syncs
    MaxEdits      \* bound: edits and completions

Versions == 1..Latest
Entry == [content : Contents, mapped : BOOLEAN]
Row == [content : Contents \cup {Edited}, archived : BOOLEAN, done : BOOLEAN]

ASSUME FrameworkAssumption ==
    /\ Latest \in Nat \ {0} /\ MaxRows \in Nat \ {0} /\ MaxSyncs \in Nat /\ MaxEdits \in Nat
    /\ Controls \subseteq Templates /\ Policies \subseteq Templates \ Controls
    /\ Edited \notin Contents /\ None \notin Versions \cup Row /\ Unpinned \notin Versions \cup {None}
    /\ Environments \subseteq
         [races : BOOLEAN, legacy : SUBSET Instances, late : SUBSET Instances]
    /\ \A i \in Instances, v \in Versions :
         /\ DOMAIN Manifest[i][v] \subseteq Templates
         /\ \A t \in DOMAIN Manifest[i][v] : Manifest[i][v][t] \in Entry

VARIABLES
    rows,     \* control, task and policy rows; row <<t, n>> is the n-th of template t
    made,     \* how many rows of each template were made
    maps,     \* the requirement map of each instance and control row
    current,  \* the version an instance is pinned to
    syncs,    \* the sync operations, in the order they were performed
    request,  \* what each worker is doing
    edits,    \* edits and completions so far
    env       \* chosen once: do requests and users race, which instances are
              \* unpinned at first, and which are added later

dataVars == <<rows, made, maps, current, syncs>>
vars == <<dataVars, request, edits, env>>

RowIds == Templates \X (1..MaxRows)
Template(r) == r[1]

New(content) == [content |-> content, archived |-> FALSE, done |-> FALSE]
Idle == [step |-> "idle"]
Become(w, r) == request' = [request EXCEPT ![w] = r]

\* Without races, nobody acts while a rollback is between its checks and its
\* transaction, or a sync between its reads and its writes.
Undisturbed(w) ==
    env.races \/ \A u \in Workers \ {w} : request[u].step \notin {"checked", "locked"}
Quiet == env.races \/ \A w \in Workers : request[w].step \notin {"checked", "locked"}

\* Variant: no lock is taken.
NoLock == TRUE

LockFree == \A w \in Workers : request[w].step # "locked"

-----------------------------------------------------------------------------
(* The rows and the manifests *)

Active(t) == {r \in RowIds : Template(r) = t /\ rows[r] # None /\ ~rows[r].archived}

\* The rows a transaction finds for each template, kept by template in a Map.
Finds ==
    {found \in [{t \in Templates : Active(t) # {}} -> UNION {Active(t) : t \in Templates}] :
       \A t \in DOMAIN found : found[t] \in Active(t)}

\* buildCrossFrameworkRefs: the templates the other pinned instances use.
Referenced(i) ==
    UNION {DOMAIN Manifest[j][current[j]] : j \in {j \in Instances \ {i} : current[j] \in Versions}}

\* The diff of two manifests.
Added(from, to) == DOMAIN to \ DOMAIN from
Removed(from, to) == DOMAIN from \ DOMAIN to
Updated(from, to) == {t \in DOMAIN from \cap DOMAIN to : from[t].content # to[t].content}
MappedBy(manifest) == {t \in DOMAIN manifest \cap Controls : manifest[t].mapped}

-----------------------------------------------------------------------------
(* FrameworkSyncService.sync, applySync *)

\* The look before the transaction finds another version.
StartSync(w, i, v) ==
    /\ request[w] = Idle /\ Undisturbed(w) /\ Len(syncs) < MaxSyncs
    /\ current[i] # None /\ current[i] # v
    /\ Become(w, [step |-> "sync", instance |-> i, to |-> v])
    /\ UNCHANGED <<dataVars, edits, env>>

\* Takes the lock and reads the instance, the rows and the other instances.
ReadForSync(w) ==
    LET i == request[w].instance
        v == request[w].to
    IN  /\ request[w].step = "sync" /\ Undisturbed(w) /\ LockFree
        /\ \/ /\ current[i] = v
              /\ Become(w, Idle)
           \/ /\ current[i] # v
              /\ \E found \in Finds :
                   Become(w, [step |-> "locked", instance |-> i, to |-> v,
                              from |-> IF current[i] = Unpinned THEN 1 ELSE current[i],
                              found |-> found,
                              seen |-> [t \in DOMAIN found |-> rows[found[t]]],
                              shared |-> Referenced(i)])
        /\ UNCHANGED <<dataVars, edits, env>>

\* Controls and tasks of the target that have no row, and policies only when
\* the version adds them.
Missing(from, to, found) ==
    {t \in DOMAIN to \ DOMAIN found : t \in Policies => t \in Added(from, to)}

Creates(w) ==
    LET q == request[w]
    IN  Missing(Manifest[q.instance][q.from], Manifest[q.instance][q.to], q.found)

\* The row is as the old version has it; a published policy gets a draft instead.
Unedited(t, row, entry) == row.content = entry.content /\ ~(t \in Policies /\ row.done)

\* What the sync changes, by row, with what it replaces.
Plan(w) ==
    LET q == request[w]
        from == Manifest[q.instance][q.from]
        to == Manifest[q.instance][q.to]
        new == Creates(w)
        row == [t \in DOMAIN q.found \cup new |->
                  IF t \in new THEN <<t, made[t] + 1>> ELSE q.found[t]]
        edge(t) == maps[q.instance][row[t]]
        wanted == MappedBy(to) \cap DOMAIN row
        dropped == (MappedBy(from) \ MappedBy(to)) \cap DOMAIN row
    IN  [created  |-> {row[t] : t \in new},
         archived |-> {row[t] : t \in (Removed(from, to) \cap DOMAIN q.found) \ q.shared},
         updated  |-> {row[t] : t \in {t \in Updated(from, to) \cap DOMAIN q.found :
                                         Unedited(t, q.seen[t], from[t])}},
         mapped   |-> {row[t] : t \in {t \in wanted : edge(t) = "none"}},
         remapped |-> {row[t] : t \in {t \in wanted : edge(t) = "archived"}},
         unmapped |-> {row[t] : t \in {t \in dropped : edge(t) = "active"}},
         prior    |-> [r \in {q.found[t] : t \in DOMAIN q.found} |-> q.seen[Template(r)].content]]

\* Variant: archived rows are not recorded.
UndoWithoutArchived(plan) == [plan EXCEPT !.archived = {}]

\* The undo payload.
Undo(plan) == plan

\* The writes; an update or an edge of a row that is gone would throw.
Apply(w) ==
    LET q == request[w]
        i == q.instance
        to == Manifest[i][q.to]
        plan == Plan(w)
        applied ==
          [r \in RowIds |->
             CASE r \in plan.created  -> New(to[Template(r)].content)
               [] r \in plan.archived -> [rows[r] EXCEPT !.archived = TRUE]
               [] r \in plan.updated  -> [rows[r] EXCEPT !.content = to[Template(r)].content]
               [] OTHER               -> rows[r]]
        edges ==
          [maps EXCEPT ![i] = [r \in RowIds |->
             CASE r \in plan.mapped \cup plan.remapped -> "active"
               [] r \in plan.unmapped                  -> "archived"
               [] OTHER                                -> maps[i][r]]]
    IN  /\ q.step = "locked" /\ Undisturbed(w)
        /\ \A t \in Creates(w) : made[t] < MaxRows
        /\ \A t \in DOMAIN q.found : rows[q.found[t]] # None
        /\ rows' = applied /\ maps' = edges
        /\ made' = [t \in Templates |-> IF <<t, made[t] + 1>> \in plan.created
                                        THEN made[t] + 1 ELSE made[t]]
        /\ current' = [current EXCEPT ![i] = q.to]
        /\ syncs' = Append(syncs,
             [instance |-> i, from |-> q.from, to |-> q.to, undo |-> Undo(plan),
              reversed |-> FALSE, before |-> <<rows, maps>>, after |-> <<applied, edges>>])
        /\ Become(w, Idle)
        /\ UNCHANGED <<edits, env>>

-----------------------------------------------------------------------------
(* FrameworkRollbackService.rollback, replayUndo *)

\* Variant: any sync may be rolled back.
AnySync(k) == TRUE

\* No later sync of the instance stands.
Newest(k) ==
    \A n \in k + 1..Len(syncs) : syncs[n].instance = syncs[k].instance => syncs[n].reversed

\* Variant: nobody looks.
LossIgnored(undo) == TRUE

\* assertNoDataLoss: no task made by the sync is done, no policy published.
NoDataLoss(undo) == \A r \in undo.created : rows[r] # None => ~rows[r].done

\* The checks, before the transaction.
CheckRollback(w, k) ==
    /\ request[w] = Idle /\ Undisturbed(w)
    /\ ~syncs[k].reversed /\ Newest(k) /\ NoDataLoss(syncs[k].undo)
    /\ Become(w, [step |-> "checked", sync |-> k])
    /\ UNCHANGED <<dataVars, edits, env>>

\* An update by id throws when its row is gone, also if an edge went with its row.
Replayable(undo, i) ==
    /\ \A r \in undo.archived \cup undo.updated : rows[r] # None
    /\ \A r \in undo.remapped \cup undo.unmapped : maps[i][r] # "none"

\* Variant: the deletion of a control does not cascade.
EdgeLeft(undo, i, j, r) == j = i /\ r \in undo.mapped

\* Edges go with their control row, for every instance, or by their own id.
EdgeGone(undo, i, j, r) == r \in undo.created \/ (j = i /\ r \in undo.mapped)

Replay(w) ==
    LET k == request[w].sync
        i == syncs[k].instance
        undo == syncs[k].undo
    IN  /\ request[w].step = "checked" /\ Undisturbed(w) /\ LockFree
        /\ Become(w, Idle)
        /\ \/ ~Replayable(undo, i) /\ UNCHANGED dataVars
           \/ /\ Replayable(undo, i)
              /\ rows' = [r \in RowIds |->
                   CASE r \in undo.created  -> None
                     [] r \in undo.archived -> [rows[r] EXCEPT !.archived = FALSE]
                     [] r \in undo.updated  -> [rows[r] EXCEPT !.content = undo.prior[r]]
                     [] OTHER               -> rows[r]]
              /\ maps' = [j \in Instances |-> [r \in RowIds |->
                   CASE EdgeGone(undo, i, j, r)        -> "none"
                     [] j = i /\ r \in undo.remapped -> "archived"
                     [] j = i /\ r \in undo.unmapped -> "active"
                     [] OTHER                        -> maps[j][r]]]
              /\ current' = [current EXCEPT ![i] = syncs[k].from]
              /\ syncs' = [syncs EXCEPT ![k].reversed = TRUE]
              /\ UNCHANGED made
        /\ UNCHANGED <<edits, env>>

\* A request or its transaction fails, or its process dies.
GiveUp(w) ==
    /\ request[w] # Idle /\ Undisturbed(w)
    /\ Become(w, Idle)
    /\ UNCHANGED <<dataVars, edits, env>>

-----------------------------------------------------------------------------
(* Users write without the lock *)

UserActs ==
    /\ edits < MaxEdits /\ edits' = edits + 1
    /\ Quiet
    /\ UNCHANGED <<made, maps, current, syncs, request, env>>

Edit(r) ==
    /\ UserActs
    /\ rows[r] # None /\ ~rows[r].archived /\ rows[r].content # Edited
    /\ rows' = [rows EXCEPT ![r].content = Edited]

\* A task is done, a policy published.
Complete(r) ==
    /\ UserActs
    /\ Template(r) \notin Controls
    /\ rows[r] # None /\ ~rows[r].archived /\ ~rows[r].done
    /\ rows' = [rows EXCEPT ![r].done = TRUE]

-----------------------------------------------------------------------------
(* upsertOrgFrameworkStructure, a transaction without the lock *)

Having(t) == {r \in RowIds : Template(r) = t /\ rows[r] # None}

\* Reads which templates have no row at all, archived ones included.
StartAdd(w, i) ==
    /\ request[w] = Idle /\ Undisturbed(w)
    /\ current[i] = None
    /\ Become(w, [step |-> "adding", instance |-> i,
                  lacking |-> {t \in DOMAIN Manifest[i][Latest] : Having(t) = {}}])
    /\ UNCHANGED <<dataVars, edits, env>>

\* Makes rows for these, also if another request has made one meanwhile, and edges
\* for whatever row it finds then; the instance is unique.
AddFramework(w) ==
    LET i == request[w].instance
        latest == Manifest[i][Latest]
        new == {<<t, made[t] + 1>> : t \in request[w].lacking}
        found == {t \in MappedBy(latest) : Having(t) # {} \/ t \in request[w].lacking}
    IN  /\ request[w].step = "adding" /\ Undisturbed(w)
        /\ Become(w, Idle)
        /\ \/ current[i] # None /\ UNCHANGED dataVars
           \/ /\ current[i] = None /\ new \subseteq RowIds
              /\ current' = [current EXCEPT ![i] = Latest]
              /\ rows' = [r \in RowIds |-> IF r \in new THEN New(latest[Template(r)].content) ELSE rows[r]]
              /\ made' = [t \in Templates |-> IF t \in request[w].lacking THEN made[t] + 1 ELSE made[t]]
              /\ \E chosen \in [found -> RowIds] :
                   /\ \A t \in found : chosen[t] \in Having(t) \cup new /\ Template(chosen[t]) = t
                   /\ maps' = [maps EXCEPT ![i] = [r \in RowIds |->
                        IF \E t \in found : chosen[t] = r THEN "active" ELSE maps[i][r]]]
              /\ UNCHANGED syncs
        /\ UNCHANGED <<edits, env>>

-----------------------------------------------------------------------------
(* The specification *)

\* The instances that are not added later start at version 1, on rows made for it.
Init ==
    /\ env \in Environments
    /\ current = [i \in Instances |-> IF i \in env.late THEN None
                                      ELSE IF i \in env.legacy THEN Unpinned ELSE 1]
    /\ LET first == [t \in Templates |->
                       {i \in Instances \ env.late : t \in DOMAIN Manifest[i][1]}]
       IN  /\ made = [t \in Templates |-> IF first[t] = {} THEN 0 ELSE 1]
           /\ rows \in {f \in [RowIds -> {None} \cup {New(c) : c \in Contents}] :
                \A r \in RowIds :
                  IF r[2] = 1 /\ first[Template(r)] # {}
                  THEN \E i \in first[Template(r)] : f[r] = New(Manifest[i][1][Template(r)].content)
                  ELSE f[r] = None}
           /\ maps = [i \in Instances |-> [r \in RowIds |->
                IF r[2] = 1 /\ i \in first[Template(r)] /\ Template(r) \in MappedBy(Manifest[i][1])
                THEN "active" ELSE "none"]]
    /\ syncs = <<>> /\ edits = 0
    /\ request = [w \in Workers |-> Idle]

Sync(w) == \/ \E i \in Instances, v \in Versions : StartSync(w, i, v)
           \/ ReadForSync(w) \/ Apply(w)
Rollback(w) == (\E k \in DOMAIN syncs : CheckRollback(w, k)) \/ Replay(w)
Add(w) == (\E i \in Instances : StartAdd(w, i)) \/ AddFramework(w)
Users == \E r \in RowIds : Edit(r) \/ Complete(r)

Next ==
    \/ \E w \in Workers : Sync(w) \/ Rollback(w) \/ Add(w) \/ GiveUp(w)
    \/ Users

Spec == Init /\ [][Next]_vars

-----------------------------------------------------------------------------
(* Properties *)

\* Every variable keeps its type; in particular a requirement map is never left
\* behind by its control row (replayUndo's deletes cascade), and a sync that
\* stands points at versions of its framework.
TypeOK ==
    /\ rows \in [RowIds -> Row \cup {None}]
    /\ made \in [Templates -> 0..MaxRows]
    /\ maps \in [Instances -> [RowIds -> {"none", "active", "archived"}]]
    /\ \A i \in Instances, r \in RowIds : maps[i][r] # "none" => rows[r] # None /\ Template(r) \in Controls
    /\ current \in [Instances -> Versions \cup {None, Unpinned}]
    /\ \A k \in DOMAIN syncs : syncs[k].from \in Versions /\ syncs[k].to \in Versions
    /\ edits \in 0..MaxEdits

\* Until a sync is rolled back, every pinned instance finds exactly one active
\* row for each template of its manifest, with its requirement mapped, whatever
\* the other frameworks of the organization have dropped or adopted at the same
\* time: applySync's look at the other manifests and the organization lock.
\* Said of frameworks that were there, and pinned, from the start.
ManifestMet ==
    (env.legacy = {} /\ env.late = {} /\ \A k \in DOMAIN syncs : ~syncs[k].reversed) =>
      \A i \in Instances : \A t \in DOMAIN Manifest[i][current[i]] :
        /\ Cardinality(Active(t)) = 1
        /\ t \in MappedBy(Manifest[i][current[i]]) => \A r \in Active(t) : maps[i][r] = "active"

\* The syncs of an instance that stand follow one another, and the instance is
\* pinned where the last of them went: what rolling back in order is to keep.
\* Said without races between a rollback's checks and its transaction.
VersionChain ==
    ~env.races => \A i \in Instances :
      LET stand == {k \in DOMAIN syncs : syncs[k].instance = i /\ ~syncs[k].reversed}
          next(k) == {n \in stand : n > k}
      IN  /\ \A k \in stand : next(k) = {} => current[i] = syncs[k].to
          /\ \A k, n \in stand : k < n /\ (\A m \in next(k) : m >= n) => syncs[k].to = syncs[n].from
          /\ stand = {} /\ i \notin env.late => current[i] \in {1, Unpinned}

\* A rollback that finds everything as its sync left it puts back the rows with
\* their archive marks and contents, the requirement maps, and the version the sync
\* started from, which for an instance that was not pinned is the earliest one.
\* Said without races, where no edit falls between a sync's reads and its writes.
UndoRestores ==
    [][~env.races => \A k \in DOMAIN syncs :
         (~syncs[k].reversed /\ syncs'[k].reversed /\ <<rows, maps>> = syncs[k].after)
           => /\ <<rows', maps'>> = syncs[k].before
              /\ current'[syncs[k].instance] = syncs[k].from]_vars

\* Work that was completed is never deleted (assertNoDataLoss), whichever
\* framework's sync made its row.  Said without races, as the check runs before
\* the transaction.
CompletedKept ==
    [][~env.races => \A r \in RowIds :
         rows[r] # None /\ rows[r].done => rows'[r] # None /\ rows'[r].done]_vars

\* RollbackConfirmDialog: a rollback keeps the content edits made since the sync.
EditsKept ==
    [][\A r \in RowIds :
         rows[r] # None /\ rows[r].content = Edited /\ rows'[r] # None
           => rows'[r].content = Edited]_vars

=============================================================================
