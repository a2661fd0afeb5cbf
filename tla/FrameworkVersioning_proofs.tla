---------------------- MODULE FrameworkVersioning_proofs ----------------------
(***************************************************************************)
(* An organization's frameworks keep their types, find the rows of their   *)
(* manifests, follow a chain of syncs, lose no completed work and are      *)
(* restored by a rollback, for any manifests, requests and rows.  The      *)
(* inductive invariant is FrameworkInv: what a sync read under the lock    *)
(* still holds when it writes (LockInv), what a rollback checked still     *)
(* holds when it replays, without races (CheckInv), and a sync's record    *)
(* undoes it (UndoInv).                                                    *)
(***************************************************************************)
EXTENDS FrameworkVersioning, FiniteSetTheorems, TLAPS

-----------------------------------------------------------------------------
(* The inductive invariant *)

RowSets == [RowIds -> Row \cup {None}]
MapSets == [Instances -> [RowIds -> {"none", "active", "archived"}]]
Writings == Contents \cup {Edited}

Undos == [created : SUBSET RowIds, archived : SUBSET RowIds, updated : SUBSET RowIds,
          mapped : SUBSET RowIds, remapped : SUBSET RowIds, unmapped : SUBSET RowIds,
          prior : UNION {[S -> Writings] : S \in SUBSET RowIds}]
Syncs == [instance : Instances, from : Versions, to : Versions, undo : Undos, reversed : BOOLEAN,
          before : RowSets \X MapSets, after : RowSets \X MapSets]

\* The rows of a template are numbered in the order they were made, and an
\* edge has its control row.
DataInv ==
    /\ env \in Environments /\ edits \in 0..MaxEdits
    /\ rows \in RowSets /\ maps \in MapSets /\ made \in [Templates -> 0..MaxRows]
    /\ current \in [Instances -> Versions \cup {None, Unpinned}]
    /\ \A r \in RowIds : rows[r] # None => r[2] <= made[Template(r)]
    /\ \A i \in Instances, r \in RowIds :
         maps[i][r] # "none" => rows[r] # None /\ Template(r) \in Controls

\* A sync does one thing to a row and one to an edge.
Disjoint(undo) ==
    /\ undo.updated \subseteq DOMAIN undo.prior
    /\ undo.created \cap (undo.archived \cup undo.updated) = {} /\ undo.archived \cap undo.updated = {}
    /\ (undo.created \cup undo.mapped) \cap (undo.remapped \cup undo.unmapped) = {}
    /\ undo.remapped \cap undo.unmapped = {}

\* Only an instance that is added later is ever missing, and nothing was done to it.
HistoryInv ==
    /\ syncs \in Seq(Syncs)
    /\ \A k \in DOMAIN syncs : Disjoint(syncs[k].undo) /\ current[syncs[k].instance] # None
    /\ \A i \in Instances : current[i] = None => i \in env.late

Found(w) ==
    LET q == request[w] IN
    /\ DOMAIN q.found \subseteq Templates /\ DOMAIN q.seen = DOMAIN q.found
    /\ \A t \in DOMAIN q.found :
         /\ q.found[t] \in RowIds /\ Template(q.found[t]) = t
         /\ q.seen[t] \in Row /\ ~q.seen[t].archived

RequestInv ==
    /\ DOMAIN request = Workers
    /\ \A w \in Workers :
         LET q == request[w] IN
         /\ q.step = "checked" => q.sync \in DOMAIN syncs
         /\ q.step \in {"sync", "locked"} =>
              q.instance \in Instances /\ q.to \in Versions /\ current[q.instance] # None
         /\ q.step = "locked" => q.from \in Versions /\ Found(w)
         /\ q.step = "adding" =>
              q.instance \in Instances /\ q.lacking \subseteq DOMAIN Manifest[q.instance][Latest]

Pin(v) == IF v = Unpinned THEN 1 ELSE v

\* What a sync has read, it reads alone.
StillRead(w) ==
    LET q == request[w] IN
    /\ q.from = Pin(current[q.instance])
    /\ env.late = {} =>
         /\ DOMAIN q.found = {t \in Templates : Active(t) # {}}
         /\ \A t \in DOMAIN q.found : q.found[t] \in Active(t)
         /\ q.shared = Referenced(q.instance)
    /\ ~env.races => \A t \in DOMAIN q.found : rows[q.found[t]] = q.seen[t]

LockInv ==
    /\ \A w \in Workers : request[w].step = "locked" => StillRead(w)
    /\ \A w, u \in Workers : request[w].step = "locked" /\ request[u].step = "locked" => w = u

StillChecked(k) == ~syncs[k].reversed /\ Newest(k) /\ NoDataLoss(syncs[k].undo)

CheckInv == ~env.races =>
    \A w \in Workers : request[w].step = "checked" => StillChecked(request[w].sync)

Stand(i) == {k \in DOMAIN syncs : syncs[k].instance = i /\ ~syncs[k].reversed}

\* A chain of syncs starts at the earliest version and ends where the instance is.
Chained(i) ==
    /\ \A k \in Stand(i) : (\A n \in Stand(i) : n <= k) => current[i] = syncs[k].to
    /\ \A k, n \in Stand(i) :
         k < n /\ (\A m \in Stand(i) : m > k => m >= n) => syncs[k].to = syncs[n].from
    /\ i \notin env.late => /\ Stand(i) = {} => current[i] \in {1, Unpinned}
                            /\ \A k \in Stand(i) : (\A n \in Stand(i) : k <= n) => syncs[k].from = 1

ChainInv == ~env.races => \A i \in Instances : Chained(i)

\* Each template has at most one active row.
Single == \A t \in Templates : \A r, s \in Active(t) : r = s

Unspoilt == env.legacy = {} /\ env.late = {} /\ \A k \in DOMAIN syncs : ~syncs[k].reversed
MetInv == ManifestMet /\ (Unspoilt => Single /\ \A i \in Instances : current[i] \in Versions)

\* What the replay of a record makes of rows and requirement maps.
ReplayedRow(undo, rs, r) ==
    CASE r \in undo.created  -> None
      [] r \in undo.archived -> [rs[r] EXCEPT !.archived = FALSE]
      [] r \in undo.updated  -> [rs[r] EXCEPT !.content = undo.prior[r]]
      [] OTHER               -> rs[r]
ReplayedMap(undo, i, ms, j, r) ==
    CASE EdgeGone(undo, i, j, r)        -> "none"
      [] j = i /\ r \in undo.remapped -> "archived"
      [] j = i /\ r \in undo.unmapped -> "active"
      [] OTHER                        -> ms[j][r]
ReplayedRows(undo, rs) == [r \in RowIds |-> ReplayedRow(undo, rs, r)]
ReplayedMaps(undo, i, ms) == [j \in Instances |-> [r \in RowIds |-> ReplayedMap(undo, i, ms, j, r)]]

Undoes(s) == s.before = <<ReplayedRows(s.undo, s.after[1]), ReplayedMaps(s.undo, s.instance, s.after[2])>>

UndoInv == ~env.races => \A k \in DOMAIN syncs : Undoes(syncs[k])

FrameworkInv ==
    DataInv /\ HistoryInv /\ RequestInv /\ LockInv /\ CheckInv /\ ChainInv /\ MetInv /\ UndoInv

-----------------------------------------------------------------------------
(* Requests *)

\* Every step of a request keeps the others, and the parts that are about the
\* data alone if it keeps the data.
LEMMA Moves ==
    ASSUME RequestInv, NEW w \in Workers, NEW q, Become(w, q)
    PROVE  /\ DOMAIN request' = Workers /\ request'[w] = q
           /\ \A u \in Workers \ {w} : request'[u] = request[u]
BY DEF RequestInv, Become

LEMMA NewRow ==
    ASSUME FrameworkAssumption, NEW c \in Contents
    PROVE  New(c) \in Row /\ New(c) # None
<1>1. New(c) \in Row
  BY DEF New, Row
<1> QED
  BY <1>1 DEF FrameworkAssumption

LEMMA SyncTypes ==
    ASSUME HistoryInv
    PROVE  /\ \A k \in DOMAIN syncs : syncs[k] \in Syncs
           /\ \A k \in DOMAIN syncs : /\ syncs[k].instance \in Instances
                                      /\ syncs[k].from \in Versions /\ syncs[k].to \in Versions
                                      /\ syncs[k].undo \in Undos /\ syncs[k].reversed \in BOOLEAN
           /\ DOMAIN syncs = 1..Len(syncs) /\ Len(syncs) \in Nat
<1>1. (\A k \in DOMAIN syncs : syncs[k] \in Syncs) /\ DOMAIN syncs = 1..Len(syncs) /\ Len(syncs) \in Nat
  BY DEF HistoryInv
<1>2. \A s \in Syncs : /\ s.instance \in Instances /\ s.from \in Versions /\ s.to \in Versions
                       /\ s.undo \in Undos /\ s.reversed \in BOOLEAN
  BY DEF Syncs
<1> QED
  BY <1>1, <1>2

LEMMA DataKept ==
    ASSUME FrameworkInv, UNCHANGED <<dataVars, edits, env>>
    PROVE  DataInv' /\ HistoryInv' /\ ChainInv' /\ MetInv' /\ UndoInv'
<1> USE DEF FrameworkInv, dataVars
<1>1. DataInv' /\ HistoryInv'
  BY DEF DataInv, HistoryInv
<1>2. ChainInv'
  BY DEF ChainInv, Chained, Stand
<1>3. MetInv'
  <2>1. \A t \in Templates : Active(t)' = Active(t)
    BY DEF Active
  <2>2. \A i \in Instances : \A t \in DOMAIN Manifest[i][current[i]] : Active(t)' = Active(t)
    BY DEF Active
  <2>3. ManifestMet'
    BY <2>2 DEF MetInv, ManifestMet
  <2> QED
    BY <2>1, <2>3 DEF MetInv, Unspoilt, Single
<1>4. UndoInv'
  BY DEF UndoInv, Undoes, ReplayedRows, ReplayedMaps, ReplayedRow, ReplayedMap, EdgeGone
<1> QED
  BY <1>1, <1>2, <1>3, <1>4

LEMMA ReadingKept ==
    ASSUME UNCHANGED <<dataVars, env>>, NEW w, request'[w] = request[w]
    PROVE  /\ Found(w)' <=> Found(w)
           /\ StillRead(w)' <=> StillRead(w)
<1>1. Found(w)' <=> Found(w)
  BY DEF Found, Template
<1>2. (\A t : Active(t)' = Active(t)) /\ (\A i : Referenced(i)' = Referenced(i))
  BY DEF dataVars, Active, Referenced, Template
<1>3. StillRead(w)' <=> StillRead(w)
  BY <1>2 DEF dataVars, StillRead, Pin
<1> QED
  BY <1>1, <1>3

\* A request that moves to q, and not to the lock.
LEMMA QuietMove ==
    ASSUME FrameworkInv, UNCHANGED <<dataVars, edits, env>>, NEW w \in Workers, NEW q, Become(w, q),
           q.step # "locked", q.step = "checked" => q.sync \in DOMAIN syncs /\ StillChecked(q.sync),
           q.step = "sync" => q.instance \in Instances /\ q.to \in Versions /\ current[q.instance] # None,
           q.step = "adding" =>
             q.instance \in Instances /\ q.lacking \subseteq DOMAIN Manifest[q.instance][Latest]
    PROVE  FrameworkInv'
<1>1. /\ DOMAIN request' = Workers /\ request'[w] = q
      /\ \A u \in Workers \ {w} : request'[u] = request[u]
  BY Moves DEF FrameworkInv
<1>2. \A u \in Workers \ {w} : (Found(u)' <=> Found(u)) /\ (StillRead(u)' <=> StillRead(u))
  BY <1>1, ReadingKept
<1>3. RequestInv'
  BY <1>1, <1>2 DEF FrameworkInv, RequestInv, dataVars
<1>4. LockInv'
  BY <1>1, <1>2 DEF FrameworkInv, LockInv
<1>5. CheckInv'
  BY <1>1 DEF FrameworkInv, CheckInv, StillChecked, Newest, NoDataLoss, dataVars
<1> QED
  BY <1>3, <1>4, <1>5, DataKept DEF FrameworkInv

LEMMA StartKeeps ==
    ASSUME FrameworkInv, NEW w \in Workers, NEW i \in Instances, NEW v \in Versions, StartSync(w, i, v)
    PROVE  FrameworkInv'
BY QuietMove DEF StartSync

LEMMA CheckKeeps ==
    ASSUME FrameworkInv, NEW w \in Workers, NEW k \in DOMAIN syncs, CheckRollback(w, k)
    PROVE  FrameworkInv'
BY QuietMove DEF CheckRollback, StillChecked

LEMMA GiveUpKeeps ==
    ASSUME FrameworkInv, NEW w \in Workers, GiveUp(w)
    PROVE  FrameworkInv'
BY QuietMove DEF GiveUp, Idle

LEMMA ReadKeeps ==
    ASSUME FrameworkAssumption, FrameworkInv, NEW w \in Workers, ReadForSync(w)
    PROVE  FrameworkInv'
<1> DEFINE i == request[w].instance
           v == request[w].to
           locked(found) == [step |-> "locked", instance |-> i, to |-> v, from |-> Pin(current[i]),
                             found |-> found, seen |-> [t \in DOMAIN found |-> rows[found[t]]],
                             shared |-> Referenced(i)]
<1>1. /\ UNCHANGED <<dataVars, edits, env>> /\ request[w].step = "sync" /\ LockFree
      /\ i \in Instances /\ v \in Versions /\ current[i] # None
  BY DEF ReadForSync, FrameworkInv, RequestInv
<1>2. CASE Become(w, Idle)
  BY <1>1, <1>2, QuietMove DEF Idle
<1>3. ASSUME NEW found \in Finds, Become(w, locked(found))
      PROVE  FrameworkInv'
  <2>1. /\ DOMAIN request' = Workers /\ request'[w] = locked(found)
        /\ \A u \in Workers \ {w} : request'[u] = request[u]
    BY <1>3, Moves DEF FrameworkInv
  <2>2. /\ request'[w].step = "locked" /\ request'[w].instance = i /\ request'[w].to = v
        /\ request'[w].from = Pin(current[i]) /\ request'[w].found = found
        /\ request'[w].seen = [t \in DOMAIN found |-> rows[found[t]]]
        /\ request'[w].shared = Referenced(i)
    BY <2>1
  <2> HIDE DEF locked
  <2>3. DOMAIN found = {t \in Templates : Active(t) # {}} /\ \A t \in DOMAIN found : found[t] \in Active(t)
    BY DEF Finds
  <2>4. Found(w)'
    <3>1. \A t \in DOMAIN found :
            found[t] \in RowIds /\ Template(found[t]) = t /\ rows[found[t]] \in Row /\ ~rows[found[t]].archived
      BY <2>3 DEF Active, FrameworkInv, DataInv, RowSets
    <3> QED
      BY <2>2, <2>3, <3>1 DEF Found, Template
  <2>5. StillRead(w)'
    <3>1. \A t : Active(t)' = Active(t)
      BY <1>1 DEF dataVars, Active, Template
    <3>2. Referenced(request[w].instance)' = Referenced(i)
      BY <1>1, <2>2 DEF Referenced, dataVars
    <3> QED
      BY <1>1, <2>2, <2>3, <3>1, <3>2 DEF StillRead, dataVars, Pin
  <2>6. \A u \in Workers \ {w} : (Found(u)' <=> Found(u)) /\ (StillRead(u)' <=> StillRead(u))
    BY <1>1, <2>1, ReadingKept
  <2>7. RequestInv'
    <3>1. Pin(current[i]) \in Versions
      BY <1>1 DEF FrameworkAssumption, FrameworkInv, DataInv, Pin, Versions
    <3> QED
      BY <1>1, <2>1, <2>2, <2>4, <2>6, <3>1 DEF FrameworkInv, RequestInv, dataVars
  <2>8. LockInv'
    BY <1>1, <2>1, <2>2, <2>5, <2>6 DEF FrameworkInv, LockInv, LockFree
  <2>9. CheckInv'
    BY <1>1, <2>1, <2>2 DEF FrameworkInv, CheckInv, StillChecked, Newest, NoDataLoss, dataVars
  <2> QED
    BY <1>1, <2>7, <2>8, <2>9, DataKept DEF FrameworkInv
<1> QED
  BY <1>2, <1>3 DEF ReadForSync, Pin

-----------------------------------------------------------------------------
(* Users *)

\* A user rewrites an active row, which stays one.
LEMMA RewriteKeeps ==
    ASSUME FrameworkAssumption, FrameworkInv, UserActs, NEW r \in RowIds, NEW row \in Row,
           rows[r] # None, ~rows[r].archived, ~row.archived, rows' = [rows EXCEPT ![r] = row]
    PROVE  FrameworkInv'
<1>1. /\ edits < MaxEdits /\ edits' = edits + 1 /\ Quiet
      /\ UNCHANGED <<made, maps, current, syncs, request, env>>
  BY DEF UserActs
<1>2. /\ rows' \in RowSets /\ \A s \in RowIds : rows'[s] # None <=> rows[s] # None
      /\ \A s \in RowIds : rows[s] # None => rows'[s].archived = rows[s].archived
  <2>1. rows \in [RowIds -> Row \cup {None}] /\ rows' \in [RowIds -> Row \cup {None}] /\ row # None
    BY DEF FrameworkInv, DataInv, RowSets, FrameworkAssumption
  <2>2. rows'[r] = row /\ \A s \in RowIds \ {r} : rows'[s] = rows[s]
    BY <2>1
  <2>3. rows[r] \in Row /\ row.archived = rows[r].archived
    BY <2>1 DEF Row
  <2> QED
    BY <2>1, <2>2, <2>3 DEF RowSets
<1>3. \A t : Active(t)' = Active(t)
  BY <1>2 DEF Active, Template
<1>4. DataInv'
  <2>1. edits' \in 0..MaxEdits
    BY <1>1 DEF FrameworkInv, DataInv, FrameworkAssumption
  <2> QED
    BY <1>1, <1>2, <2>1 DEF FrameworkInv, DataInv, Template
<1>5. HistoryInv' /\ ChainInv' /\ RequestInv'
  <2>1. HistoryInv' /\ ChainInv'
    BY <1>1 DEF FrameworkInv, HistoryInv, ChainInv, Chained, Stand
  <2>2. \A w \in Workers : Found(w)' <=> Found(w)
    BY <1>1 DEF Found, Template
  <2> QED
    BY <1>1, <2>1, <2>2 DEF FrameworkInv, RequestInv
<1>6. LockInv'
  <2>1. ASSUME NEW w \in Workers, request[w].step = "locked"
        PROVE  StillRead(w)'
    <3>1. Referenced(request[w].instance)' = Referenced(request[w].instance)
      BY <1>1 DEF Referenced
    <3> QED
      BY <1>1, <1>3, <2>1, <3>1 DEF FrameworkInv, LockInv, StillRead, Quiet, Pin
  <2> QED
    BY <1>1, <2>1 DEF FrameworkInv, LockInv
<1>7. CheckInv'
  BY <1>1 DEF CheckInv, Quiet
<1>8. MetInv'
  <2>1. ManifestMet'
    BY <1>1, <1>3 DEF FrameworkInv, MetInv, ManifestMet
  <2> QED
    BY <1>1, <1>3, <2>1 DEF FrameworkInv, MetInv, Unspoilt, Single
<1>9. UndoInv'
  BY <1>1 DEF FrameworkInv, UndoInv, Undoes, ReplayedRows, ReplayedMaps, ReplayedRow, ReplayedMap, EdgeGone
<1> QED
  BY <1>4, <1>5, <1>6, <1>7, <1>8, <1>9 DEF FrameworkInv

LEMMA EditKeeps ==
    ASSUME FrameworkAssumption, FrameworkInv, NEW r \in RowIds, Edit(r)
    PROVE  FrameworkInv'
<1> DEFINE row == [rows[r] EXCEPT !.content = Edited]
<1>1. rows[r] \in Row /\ row \in Row /\ ~row.archived
  BY DEF Edit, FrameworkInv, DataInv, RowSets, Row
<1>2. rows' = [rows EXCEPT ![r] = row]
  BY DEF Edit
<1> HIDE DEF row
<1> QED
  BY <1>1, <1>2, RewriteKeeps DEF Edit

LEMMA CompleteKeeps ==
    ASSUME FrameworkAssumption, FrameworkInv, NEW r \in RowIds, Complete(r)
    PROVE  FrameworkInv'
<1> DEFINE row == [rows[r] EXCEPT !.done = TRUE]
<1>1. rows[r] \in Row /\ row \in Row /\ ~row.archived
  BY DEF Complete, FrameworkInv, DataInv, RowSets, Row
<1>2. rows' = [rows EXCEPT ![r] = row]
  BY DEF Complete
<1> HIDE DEF row
<1> QED
  BY <1>1, <1>2, RewriteKeeps DEF Complete

-----------------------------------------------------------------------------
(* The addition of a framework *)

LEMMA StartAddKeeps ==
    ASSUME FrameworkInv, NEW w \in Workers, NEW i \in Instances, StartAdd(w, i)
    PROVE  FrameworkInv'
BY QuietMove DEF StartAdd

\* The addition of framework i, by a request that found these templates lacking.
Adds(w, i, lacking) ==
    LET latest == Manifest[i][Latest]
        new == {<<t, made[t] + 1>> : t \in lacking}
        found == {t \in MappedBy(latest) : Having(t) # {} \/ t \in lacking}
    IN  /\ Become(w, Idle) /\ Undisturbed(w) /\ current[i] = None /\ new \subseteq RowIds
        /\ current' = [current EXCEPT ![i] = Latest]
        /\ rows' = [r \in RowIds |-> IF r \in new THEN New(latest[Template(r)].content) ELSE rows[r]]
        /\ made' = [t \in Templates |-> IF t \in lacking THEN made[t] + 1 ELSE made[t]]
        /\ \E chosen \in [found -> RowIds] :
             /\ \A t \in found : chosen[t] \in Having(t) \cup new /\ Template(chosen[t]) = t
             /\ maps' = [maps EXCEPT ![i] = [r \in RowIds |->
                  IF \E t \in found : chosen[t] = r THEN "active" ELSE maps[i][r]]]
        /\ UNCHANGED <<syncs, edits, env>>

LEMMA AddCases ==
    ASSUME RequestInv, NEW w \in Workers, AddFramework(w)
    PROVE  /\ request[w].step = "adding" /\ request[w].instance \in Instances
           /\ request[w].lacking \subseteq DOMAIN Manifest[request[w].instance][Latest]
           /\ \/ Adds(w, request[w].instance, request[w].lacking)
              \/ Become(w, Idle) /\ UNCHANGED <<dataVars, edits, env>>
BY DEF AddFramework, Adds, RequestInv

LEMMA AddsKeeps ==
    ASSUME FrameworkAssumption, FrameworkInv, NEW w \in Workers, NEW i \in Instances,
           NEW lacking \in SUBSET DOMAIN Manifest[i][Latest], request[w].step = "adding",
           Adds(w, i, lacking)
    PROVE  FrameworkInv'
<1> DEFINE latest == Manifest[i][Latest]
           new == {<<t, made[t] + 1>> : t \in lacking}
           found == {t \in MappedBy(latest) : Having(t) # {} \/ t \in lacking}
<1>1. /\ Become(w, Idle) /\ Undisturbed(w) /\ current[i] = None /\ new \subseteq RowIds
      /\ current' = [current EXCEPT ![i] = Latest]
      /\ rows' = [r \in RowIds |-> IF r \in new THEN New(latest[Template(r)].content) ELSE rows[r]]
      /\ made' = [t \in Templates |-> IF t \in lacking THEN made[t] + 1 ELSE made[t]]
      /\ UNCHANGED <<syncs, edits, env>>
  BY DEF Adds
<1>2. PICK chosen \in [found -> RowIds] :
        /\ \A t \in found : chosen[t] \in Having(t) \cup new /\ Template(chosen[t]) = t
        /\ maps' = [maps EXCEPT ![i] = [r \in RowIds |->
             IF \E t \in found : chosen[t] = r THEN "active" ELSE maps[i][r]]]
  BY DEF Adds
<1>3. /\ rows \in RowSets /\ maps \in MapSets /\ made \in [Templates -> 0..MaxRows]
      /\ current \in [Instances -> Versions \cup {None, Unpinned}]
      /\ \A r \in RowIds : rows[r] # None => r[2] <= made[Template(r)]
      /\ \A j \in Instances, r \in RowIds :
           maps[j][r] # "none" => rows[r] # None /\ Template(r) \in Controls
  BY DEF FrameworkInv, DataInv
<1>4. /\ DOMAIN latest \subseteq Templates /\ \A t \in DOMAIN latest : latest[t].content \in Contents
      /\ Latest \in Versions
  BY DEF FrameworkAssumption, Entry, Versions
<1>5. /\ \A r \in new : /\ Template(r) \in lacking /\ r = <<Template(r), made[Template(r)] + 1>>
                        /\ made[Template(r)] + 1 <= MaxRows
      /\ \A t \in lacking : <<t, made[t] + 1>> \in new /\ t \in DOMAIN latest
  <2>1. \A t \in lacking : t \in DOMAIN latest /\ <<t, made[t] + 1>> \in new
    OBVIOUS
  <2>2. ASSUME NEW r \in new
        PROVE  Template(r) \in lacking /\ r = <<Template(r), made[Template(r)] + 1>>
    BY DEF Template
  <2>3. ASSUME NEW r \in new
        PROVE  made[Template(r)] + 1 <= MaxRows
    <3> HIDE DEF new, latest
    <3>1. r \in Templates \X (1..MaxRows)
      BY <1>1 DEF RowIds
    <3>2. r[2] = made[Template(r)] + 1 /\ r[2] \in 1..MaxRows
      BY <2>2, <3>1
    <3> QED
      BY <3>2
  <2> HIDE DEF new, latest
  <2> QED
    BY <2>1, <2>2, <2>3
<1>b. \A t \in lacking : made[t] + 1 <= MaxRows
  <2> HIDE DEF latest, new
  <2> QED
    BY <1>5 DEF Template
<1> HIDE DEF latest, new
<1>6. \A r \in RowIds : /\ rows[r] # None => rows'[r] # None
                        /\ r \in new => rows'[r] \in Row
                        /\ r \notin new => rows'[r] = rows[r]
  <2>1. \A c \in Contents : New(c) \in Row /\ New(c) # None
    BY NewRow
  <2> QED
    BY <1>1, <1>4, <1>5, <2>1
<1>7. DataInv'
  <2>1. rows' \in RowSets
    BY <1>1, <1>3, <1>6 DEF RowSets
  <2>2. made' \in [Templates -> 0..MaxRows] /\ \A r \in new : made'[Template(r)] = r[2]
    BY <1>1, <1>3, <1>4, <1>5, <1>b DEF FrameworkAssumption
  <2>3. \A t \in Templates : made[t] <= made'[t]
    BY <1>1, <1>3
  <2>4. \A r \in RowIds : rows'[r] # None => r[2] <= made'[Template(r)]
    BY <1>3, <1>6, <2>2, <2>3 DEF RowIds, Template, FrameworkAssumption
  <2>5. maps' \in MapSets
    BY <1>2, <1>3 DEF MapSets
  <2>6. \A j \in Instances, r \in RowIds :
          maps'[j][r] # "none" => rows'[r] # None /\ Template(r) \in Controls
    <3>1. \A t \in found : t \in Controls /\ chosen[t] \in RowIds /\ rows'[chosen[t]] # None
      BY <1>1, <1>2, <1>6 DEF MappedBy, Having, FrameworkAssumption
    <3>2. ASSUME NEW j \in Instances, NEW r \in RowIds, maps'[j][r] # "none"
          PROVE  maps[j][r] # "none" \/ \E t \in found : chosen[t] = r
      BY <1>2, <1>3, <3>2 DEF MapSets
    <3> QED
      BY <1>2, <1>3, <1>6, <3>1, <3>2
  <2>7. current' \in [Instances -> Versions \cup {None, Unpinned}]
    BY <1>1, <1>3, <1>4
  <2> QED
    BY <1>1, <2>1, <2>2, <2>4, <2>5, <2>6, <2>7 DEF FrameworkInv, DataInv, Template
<1>8. /\ i \in env.late /\ \A k \in DOMAIN syncs : syncs[k].instance # i
      /\ current'[i] = Latest /\ \A j \in Instances \ {i} : current'[j] = current[j]
  BY <1>1, <1>3 DEF FrameworkInv, HistoryInv
<1>a. /\ DOMAIN request' = Workers /\ request'[w].step = "idle"
      /\ \A u \in Workers \ {w} : request'[u] = request[u]
  BY <1>1, Moves DEF FrameworkInv, Idle
<1>9. HistoryInv' /\ RequestInv'
  <2>1. HistoryInv'
    <3>1. \A k \in DOMAIN syncs : syncs[k].instance \in Instances
      BY SyncTypes DEF FrameworkInv
    <3> QED
      BY <1>1, <1>4, <1>8, <3>1 DEF FrameworkInv, HistoryInv, FrameworkAssumption
  <2>2. \A u \in Workers \ {w} : Found(u)' <=> Found(u)
    BY <1>a DEF Found, Template
  <2> QED
    BY <1>1, <1>a, <1>8, <2>1, <2>2 DEF FrameworkInv, RequestInv
<1>10. LockInv' /\ CheckInv'
  <2>1. \A u \in Workers : request[u].step = "locked" => request[u].instance \in Instances \ {i}
    BY <1>1 DEF FrameworkInv, RequestInv
  <2>2. \A u \in Workers \ {w} : request[u].step = "locked" => StillRead(u)'
    BY <1>1, <1>a, <1>8, <2>1 DEF FrameworkInv, LockInv, StillRead, Undisturbed, Pin
  <2> QED
    BY <1>1, <1>a, <2>2 DEF FrameworkInv, LockInv, CheckInv, Undisturbed
<1>11. ChainInv'
  BY <1>1, <1>8 DEF FrameworkInv, ChainInv, Chained, Stand
<1>12. MetInv' /\ UndoInv'
  BY <1>1, <1>8 DEF FrameworkInv, MetInv, ManifestMet, Unspoilt, UndoInv, Undoes, ReplayedRows, ReplayedMaps, ReplayedRow, ReplayedMap, EdgeGone
<1> QED
  BY <1>7, <1>9, <1>10, <1>11, <1>12 DEF FrameworkInv

LEMMA AddKeeps ==
    ASSUME FrameworkAssumption, FrameworkInv, NEW w \in Workers, AddFramework(w)
    PROVE  FrameworkInv'
<1>1. CASE Adds(w, request[w].instance, request[w].lacking)
  BY <1>1, AddCases, AddsKeeps DEF FrameworkInv
<1>2. CASE Become(w, Idle) /\ UNCHANGED <<dataVars, edits, env>>
  BY <1>2, QuietMove DEF Idle
<1> QED
  BY <1>1, <1>2, AddCases DEF FrameworkInv

-----------------------------------------------------------------------------
(* Rollbacks *)

\* A replay of what it found puts its instance back and unmakes its sync.
Replays(w, k) ==
    LET i == syncs[k].instance
        undo == syncs[k].undo
    IN  /\ LockFree /\ Undisturbed(w) /\ Become(w, Idle) /\ Replayable(undo, i)
        /\ rows' = ReplayedRows(undo, rows) /\ maps' = ReplayedMaps(undo, i, maps)
        /\ current' = [current EXCEPT ![i] = syncs[k].from]
        /\ syncs' = [syncs EXCEPT ![k].reversed = TRUE]
        /\ UNCHANGED <<made, edits, env>>

LEMMA ReplayCases ==
    ASSUME FrameworkInv, NEW w \in Workers, Replay(w)
    PROVE  /\ request[w].step = "checked" /\ request[w].sync \in DOMAIN syncs
           /\ \/ Become(w, Idle) /\ UNCHANGED <<dataVars, edits, env>>
              \/ Replays(w, request[w].sync)
<1>1. request[w].step = "checked" /\ request[w].sync \in DOMAIN syncs
  BY DEF Replay, FrameworkInv, RequestInv
<1> QED
  BY <1>1 DEF Replay, Replays, ReplayedRows, ReplayedMaps, ReplayedRow, ReplayedMap

LEMMA RowsReplayed ==
    ASSUME FrameworkAssumption, DataInv, HistoryInv, NEW w \in Workers, NEW k \in DOMAIN syncs,
           Replays(w, k), NEW r \in RowIds
    PROVE  /\ rows'[r] \in Row \cup {None}
           /\ rows'[r] # None => rows[r] # None
           /\ r \notin syncs[k].undo.created /\ rows[r] # None =>
                rows'[r] # None /\ rows'[r].done = rows[r].done
<1> DEFINE i == syncs[k].instance
           undo == syncs[k].undo
<1>1. undo \in Undos /\ Disjoint(undo)
  BY SyncTypes DEF HistoryInv
<1>2. Replayable(undo, i) /\ rows' = ReplayedRows(undo, rows)
  BY DEF Replays
<1>3. r \in undo.updated => undo.prior[r] \in Writings
  <2>1. PICK S \in SUBSET RowIds : undo.prior \in [S -> Writings]
    BY <1>1 DEF Undos
  <2> QED
    BY <1>1, <2>1 DEF Disjoint
<1>4. rows[r] \in Row \cup {None} /\ None \notin Row
  BY DEF DataInv, RowSets, FrameworkAssumption
<1> HIDE DEF i, undo
<1>5. r \in undo.archived \cup undo.updated => rows[r] \in Row
  BY <1>2, <1>4 DEF Replayable
<1>6. r \in undo.archived => /\ [rows[r] EXCEPT !.archived = FALSE] \in Row
                            /\ [rows[r] EXCEPT !.archived = FALSE].done = rows[r].done
  BY <1>5 DEF Row
<1>7. r \in undo.updated => /\ [rows[r] EXCEPT !.content = undo.prior[r]] \in Row
                           /\ [rows[r] EXCEPT !.content = undo.prior[r]].done = rows[r].done
  BY <1>3, <1>5 DEF Row, Writings
<1>8. rows'[r] = ReplayedRow(undo, rows, r)
  BY <1>2 DEF ReplayedRows
<1> QED
  BY <1>1, <1>4, <1>5, <1>6, <1>7, <1>8 DEF ReplayedRow, Disjoint, undo

LEMMA ReplayedData ==
    ASSUME FrameworkAssumption, DataInv, HistoryInv, NEW w \in Workers, NEW k \in DOMAIN syncs, Replays(w, k)
    PROVE  DataInv'
<1> DEFINE i == syncs[k].instance
           undo == syncs[k].undo
<1>1. /\ rows \in RowSets /\ maps \in MapSets /\ made \in [Templates -> 0..MaxRows]
      /\ current \in [Instances -> Versions \cup {None, Unpinned}]
      /\ \A r \in RowIds : rows[r] # None => r[2] <= made[Template(r)]
      /\ \A j \in Instances, r \in RowIds :
           maps[j][r] # "none" => rows[r] # None /\ Template(r) \in Controls
  BY DEF DataInv
<1>2. syncs[k].from \in Versions /\ Disjoint(undo) /\ i \in Instances
  BY SyncTypes DEF HistoryInv
<1>3. Replayable(undo, i) /\ rows' = ReplayedRows(undo, rows) /\ maps' = ReplayedMaps(undo, i, maps)
  BY DEF Replays
<1>4. ASSUME NEW r \in RowIds
      PROVE  /\ rows'[r] \in Row \cup {None}
             /\ rows'[r] # None => rows[r] # None
             /\ r \notin undo.created => (rows[r] # None => rows'[r] # None)
  BY RowsReplayed
<1> HIDE DEF i, undo
<1>5. rows' \in RowSets
  BY <1>3, <1>4 DEF ReplayedRows, RowSets
<1>6. ASSUME NEW j \in Instances, NEW r \in RowIds
      PROVE  /\ maps'[j][r] \in {"none", "active", "archived"}
             /\ maps'[j][r] # "none" => maps[j][r] # "none" /\ r \notin undo.created
  <2>1. maps[j][r] \in {"none", "active", "archived"}
    BY <1>1 DEF MapSets
  <2>2. j = i /\ r \in undo.remapped \cup undo.unmapped => maps[j][r] # "none"
    BY <1>3 DEF Replayable
  <2>3. maps'[j][r] = ReplayedMap(undo, i, maps, j, r)
    BY <1>3 DEF ReplayedMaps
  <2>4. j = i /\ r \in undo.remapped \cup undo.unmapped => ~EdgeGone(undo, i, j, r)
    BY <1>2 DEF EdgeGone, Disjoint
  <2> QED
    BY <2>1, <2>2, <2>3, <2>4 DEF EdgeGone, ReplayedMap
<1>7. maps' \in MapSets
  BY <1>3, <1>6 DEF ReplayedMaps, MapSets
<1>8. current' \in [Instances -> Versions \cup {None, Unpinned}]
  BY <1>1, <1>2 DEF Replays
<1>9. UNCHANGED <<made, edits, env>>
  BY DEF Replays
<1>10. \A r \in RowIds : rows'[r] # None => r[2] <= made'[Template(r)]
  BY <1>1, <1>4, <1>9
<1>11. \A j \in Instances, r \in RowIds : maps'[j][r] # "none" => rows'[r] # None /\ Template(r) \in Controls
  BY <1>1, <1>4, <1>6
<1> QED
  BY <1>1, <1>5, <1>7, <1>8, <1>9, <1>10, <1>11 DEF DataInv, Template

LEMMA ReplayedChain ==
    ASSUME FrameworkInv, NEW w \in Workers, NEW k \in DOMAIN syncs, Replays(w, k),
           StillChecked(k), \A i \in Instances : Chained(i)
    PROVE  \A i \in Instances : Chained(i)'
<1> DEFINE i == syncs[k].instance
<1>1. /\ i \in Instances /\ k \in Stand(i) /\ DOMAIN syncs = 1..Len(syncs)
      /\ \A j \in Instances : Stand(j) \subseteq 1..Len(syncs)
      /\ current \in [Instances -> Versions \cup {None, Unpinned}]
  BY SyncTypes DEF FrameworkInv, HistoryInv, DataInv, StillChecked, Stand
<1>2. \A n \in Stand(i) : n <= k
  BY <1>1 DEF StillChecked, Newest, Stand
<1>3. /\ DOMAIN syncs' = DOMAIN syncs /\ env' = env
      /\ \A n \in DOMAIN syncs : /\ syncs'[n].instance = syncs[n].instance
                                 /\ syncs'[n].from = syncs[n].from /\ syncs'[n].to = syncs[n].to
                                 /\ syncs'[n].reversed = (n = k \/ syncs[n].reversed)
  <2>1. syncs' = [syncs EXCEPT ![k].reversed = TRUE] /\ env' = env
    BY DEF Replays
  <2>2. \A n \in DOMAIN syncs : syncs[n] \in Syncs
    BY SyncTypes DEF FrameworkInv
  <2> QED
    BY <2>1, <2>2 DEF Syncs
<1>4. ASSUME NEW j \in Instances, j # i
      PROVE  Chained(j)'
  <2>1. Stand(j)' = Stand(j)
    BY <1>3, <1>4 DEF Stand
  <2>2. current'[j] = current[j]
    BY <1>1, <1>4 DEF Replays
  <2> QED
    BY <1>3, <2>1, <2>2 DEF Chained, Stand
<1>5. ASSUME NEW j \in Instances, j = i
      PROVE  Chained(j)'
  <2>1. Stand(j)' = Stand(j) \ {k}
    BY <1>3, <1>5 DEF Stand
  <2>2. current'[j] = syncs[k].from
    BY <1>1, <1>5 DEF Replays
  <2>3. \A m \in Stand(j) : syncs'[m].from = syncs[m].from /\ syncs'[m].to = syncs[m].to
    BY <1>3 DEF Stand
  <2>4. Chained(j) /\ k \in Stand(j) /\ (\A n \in Stand(j) : n <= k) /\ Stand(j) \subseteq Nat
    BY <1>1, <1>2, <1>5
  <2>5. \A p \in Stand(j)' : (\A n \in Stand(j)' : n <= p) => current'[j] = syncs'[p].to
    BY <2>1, <2>2, <2>3, <2>4 DEF Chained
  <2>6. \A p, n \in Stand(j)' :
          p < n /\ (\A m \in Stand(j)' : m > p => m >= n) => syncs'[p].to = syncs'[n].from
    BY <2>1, <2>3, <2>4 DEF Chained
  <2>7. j \notin env.late /\ Stand(j)' = {} => current'[j] \in {1, Unpinned}
    BY <2>1, <2>2, <2>4 DEF Chained
  <2>8. j \notin env.late => \A p \in Stand(j)' : (\A n \in Stand(j)' : p <= n) => syncs'[p].from = 1
    BY <2>1, <2>3, <2>4 DEF Chained
  <2> QED
    BY <1>3, <2>5, <2>6, <2>7, <2>8 DEF Chained
<1> QED
  BY <1>4, <1>5

LEMMA ReplayKeeps ==
    ASSUME FrameworkAssumption, FrameworkInv, NEW w \in Workers, Replay(w)
    PROVE  FrameworkInv'
<1>1. CASE Become(w, Idle) /\ UNCHANGED <<dataVars, edits, env>>
  BY <1>1, QuietMove DEF Idle
<1>2. ASSUME NEW k \in DOMAIN syncs, k = request[w].sync, request[w].step = "checked", Replays(w, k)
      PROVE  FrameworkInv'
  <2>1. /\ LockFree /\ Undisturbed(w) /\ Become(w, Idle)
        /\ current' = [current EXCEPT ![syncs[k].instance] = syncs[k].from]
        /\ syncs' = [syncs EXCEPT ![k].reversed = TRUE] /\ UNCHANGED <<made, edits, env>>
    BY <1>2 DEF Replays
  <2>2. /\ DOMAIN request' = Workers /\ request'[w] = Idle
        /\ \A u \in Workers \ {w} : request'[u] = request[u]
    BY <2>1, Moves DEF FrameworkInv
  <2>3. \A n \in DOMAIN syncs : syncs[n] \in Syncs
    BY SyncTypes DEF FrameworkInv
  <2>4. /\ DOMAIN syncs' = DOMAIN syncs
        /\ \A n \in DOMAIN syncs : /\ syncs'[n].instance = syncs[n].instance /\ syncs'[n].undo = syncs[n].undo
                                   /\ syncs'[n].before = syncs[n].before /\ syncs'[n].after = syncs[n].after
        /\ syncs'[k].reversed
    BY <2>1, <2>3 DEF Syncs
  <2>5. syncs' \in Seq(Syncs)
    <3>1. [syncs[k] EXCEPT !.reversed = TRUE] \in Syncs
      <4>1. syncs[k] \in Syncs
        BY <2>3
      <4>2. \A s \in Syncs : [s EXCEPT !.reversed = TRUE] \in Syncs
        BY DEF Syncs
      <4> QED
        BY <4>1, <4>2
    <3>2. syncs \in Seq(Syncs) /\ syncs' = [syncs EXCEPT ![k] = [syncs[k] EXCEPT !.reversed = TRUE]]
      BY <2>1 DEF FrameworkInv, HistoryInv
    <3> QED
      BY <3>1, <3>2
  <2>6. DataInv'
    BY <1>2, ReplayedData DEF FrameworkInv
  <2>7. \A i \in Instances : current'[i] = None => current[i] = None
    BY <2>1, SyncTypes DEF FrameworkInv, DataInv, FrameworkAssumption
  <2>8. HistoryInv'
    BY <2>1, <2>4, <2>5, <2>7, SyncTypes DEF FrameworkInv, HistoryInv, Disjoint
  <2>9. RequestInv'
    BY <2>1, <2>2, <2>4, <2>7 DEF FrameworkInv, RequestInv, LockFree, Idle
  <2>10. LockInv'
    BY <2>1, <2>2 DEF LockInv, LockFree, Idle
  <2>11. CheckInv'
    BY <2>1, <2>2 DEF CheckInv, Undisturbed, Idle
  <2>12. ChainInv'
    BY <1>2, <2>1, ReplayedChain DEF FrameworkInv, ChainInv, CheckInv
  <2>13. MetInv'
    BY <2>4 DEF MetInv, ManifestMet, Unspoilt
  <2>14. UndoInv'
    <3>1. \A n \in DOMAIN syncs : Undoes(syncs'[n]) <=> Undoes(syncs[n])
      BY <2>4 DEF Undoes
    <3> QED
      BY <2>1, <2>4, <3>1 DEF FrameworkInv, UndoInv
  <2> QED
    BY <2>6, <2>8, <2>9, <2>10, <2>11, <2>12, <2>13, <2>14 DEF FrameworkInv
<1> QED
  BY <1>1, <1>2, ReplayCases

-----------------------------------------------------------------------------
(* What a sync writes *)

\* The manifests a sync goes between, and the row it finds or makes for t.
Source(w) == Manifest[request[w].instance][request[w].from]
Target(w) == Manifest[request[w].instance][request[w].to]
Handled(w) == DOMAIN request[w].found \cup Creates(w)
RowFor(w, t) == IF t \in Creates(w) THEN <<t, made[t] + 1>> ELSE request[w].found[t]

Dropped(w) == (Removed(Source(w), Target(w)) \cap DOMAIN request[w].found) \ request[w].shared
Rewritten(w) == {t \in Updated(Source(w), Target(w)) \cap DOMAIN request[w].found :
                   Unedited(t, request[w].seen[t], Source(w)[t])}
Edge(w, t) == maps[request[w].instance][RowFor(w, t)]

LEMMA PlanParts ==
    ASSUME NEW w
    PROVE  /\ \A r : r \in Plan(w).created <=> \E t \in Creates(w) : r = RowFor(w, t)
           /\ \A r : r \in Plan(w).archived <=> \E t \in Dropped(w) : r = RowFor(w, t)
           /\ \A r : r \in Plan(w).updated <=> \E t \in Rewritten(w) : r = RowFor(w, t)
           /\ \A r : r \in Plan(w).mapped <=>
                \E t \in MappedBy(Target(w)) \cap Handled(w) : Edge(w, t) = "none" /\ r = RowFor(w, t)
           /\ \A r : r \in Plan(w).remapped <=>
                \E t \in MappedBy(Target(w)) \cap Handled(w) : Edge(w, t) = "archived" /\ r = RowFor(w, t)
           /\ \A r : r \in Plan(w).unmapped <=>
                \E t \in (MappedBy(Source(w)) \ MappedBy(Target(w))) \cap Handled(w) :
                  Edge(w, t) = "active" /\ r = RowFor(w, t)
<1> DEFINE q == request[w]
           new == Creates(w)
           row == [t \in DOMAIN q.found \cup new |-> IF t \in new THEN <<t, made[t] + 1>> ELSE q.found[t]]
           from == Source(w)
           to == Target(w)
           edge(t) == maps[q.instance][row[t]]
           wanted == MappedBy(to) \cap DOMAIN row
           dropped == (MappedBy(from) \ MappedBy(to)) \cap DOMAIN row
<1>1. Plan(w) =
        [created  |-> {row[t] : t \in new},
         archived |-> {row[t] : t \in (Removed(from, to) \cap DOMAIN q.found) \ q.shared},
         updated  |-> {row[t] : t \in {t \in Updated(from, to) \cap DOMAIN q.found :
                                         Unedited(t, q.seen[t], from[t])}},
         mapped   |-> {row[t] : t \in {t \in wanted : edge(t) = "none"}},
         remapped |-> {row[t] : t \in {t \in wanted : edge(t) = "archived"}},
         unmapped |-> {row[t] : t \in {t \in dropped : edge(t) = "active"}},
         prior    |-> [r \in {q.found[t] : t \in DOMAIN q.found} |-> q.seen[Template(r)].content]]
  BY DEF Plan, Source, Target
<1>2. DOMAIN row = Handled(w) /\ \A t \in Handled(w) : row[t] = RowFor(w, t)
  BY DEF Handled, RowFor
<1>3. \A t \in Handled(w) : edge(t) = Edge(w, t)
  BY <1>2 DEF Edge
<1>4. Dropped(w) \subseteq Handled(w) /\ Rewritten(w) \subseteq Handled(w) /\ new \subseteq Handled(w)
  BY DEF Dropped, Rewritten, Handled
<1> HIDE DEF row, edge
<1>5. /\ Plan(w).created = {row[t] : t \in new}
      /\ Plan(w).archived = {row[t] : t \in Dropped(w)}
      /\ Plan(w).updated = {row[t] : t \in Rewritten(w)}
      /\ Plan(w).mapped = {row[t] : t \in {t \in wanted : edge(t) = "none"}}
      /\ Plan(w).remapped = {row[t] : t \in {t \in wanted : edge(t) = "archived"}}
      /\ Plan(w).unmapped = {row[t] : t \in {t \in dropped : edge(t) = "active"}}
  BY <1>1 DEF Dropped, Rewritten
<1> QED
  BY <1>2, <1>3, <1>4, <1>5

LEMMA PlanPrior ==
    ASSUME NEW w
    PROVE  Plan(w).prior = [r \in {request[w].found[t] : t \in DOMAIN request[w].found} |->
                              request[w].seen[Template(r)].content]
BY DEF Plan

\* A sync that holds the lock and has room for the rows it makes.
Ready(w) ==
    /\ request[w].step = "locked"
    /\ \A t \in Creates(w) : made[t] < MaxRows
    /\ \A t \in DOMAIN request[w].found : rows[request[w].found[t]] # None

LEMMA Manifests ==
    ASSUME FrameworkAssumption, NEW i \in Instances, NEW v \in Versions
    PROVE  /\ DOMAIN Manifest[i][v] \subseteq Templates
           /\ \A t \in DOMAIN Manifest[i][v] : Manifest[i][v][t].content \in Contents
           /\ MappedBy(Manifest[i][v]) \subseteq DOMAIN Manifest[i][v] \cap Controls
BY DEF FrameworkAssumption, Entry, MappedBy

\* The rows it handles are those of their templates, and those it makes are new.
LEMMA RowsHandled ==
    ASSUME FrameworkAssumption, FrameworkInv, NEW w \in Workers, Ready(w)
    PROVE  /\ Found(w) /\ request[w].instance \in Instances
           /\ request[w].from \in Versions /\ request[w].to \in Versions
           /\ \A t \in Handled(w) : /\ t \in Templates
                                    /\ RowFor(w, t) \in RowIds /\ Template(RowFor(w, t)) = t
           /\ \A t \in Creates(w) : /\ t \notin DOMAIN request[w].found /\ t \in DOMAIN Target(w)
                                    /\ RowFor(w, t) = <<t, made[t] + 1>>
                                    /\ rows[RowFor(w, t)] = None
                                    /\ \A j \in Instances : maps[j][RowFor(w, t)] = "none"
           /\ \A t \in DOMAIN request[w].found : /\ t \in Handled(w)
                                                 /\ RowFor(w, t) = request[w].found[t]
                                                 /\ rows[RowFor(w, t)] \in Row
<1> DEFINE q == request[w]
<1>1. Found(w) /\ q.instance \in Instances /\ q.from \in Versions /\ q.to \in Versions
  BY DEF FrameworkInv, RequestInv, Ready
<1>2. \A t \in Creates(w) : t \in DOMAIN Target(w) \ DOMAIN q.found /\ RowFor(w, t) = <<t, made[t] + 1>>
  BY DEF Creates, Missing, Target, RowFor
<1>3. DOMAIN Target(w) \subseteq Templates
  BY <1>1, Manifests DEF Target
<1>4. made \in [Templates -> 0..MaxRows] /\ rows \in RowSets
  BY DEF FrameworkInv, DataInv
<1>5. \A t \in Creates(w) : made[t] + 1 \in 1..MaxRows
  BY <1>2, <1>3, <1>4 DEF Ready, FrameworkAssumption
<1>6. \A t \in Creates(w) : RowFor(w, t) \in RowIds /\ Template(RowFor(w, t)) = t
  BY <1>2, <1>3, <1>5 DEF RowIds, Template
<1>7. \A t \in Creates(w) : rows[RowFor(w, t)] = None
  <2> SUFFICES ASSUME NEW t \in Creates(w), rows[RowFor(w, t)] # None
               PROVE  FALSE
    OBVIOUS
  <2>1. RowFor(w, t)[2] <= made[t] /\ RowFor(w, t)[2] = made[t] + 1
    BY <1>2, <1>6 DEF FrameworkInv, DataInv
  <2> QED
    BY <1>2, <1>3, <1>4, <2>1
<1>8. \A t \in Creates(w) : \A j \in Instances : maps[j][RowFor(w, t)] = "none"
  BY <1>6, <1>7 DEF FrameworkInv, DataInv
<1>9. \A t \in DOMAIN q.found : RowFor(w, t) = q.found[t] /\ t \in Handled(w)
  BY <1>2 DEF RowFor, Handled
<1>10. \A t \in DOMAIN q.found : RowFor(w, t) \in RowIds /\ Template(RowFor(w, t)) = t /\ t \in Templates
  BY <1>1, <1>9 DEF Found
<1>11. \A t \in DOMAIN q.found : rows[RowFor(w, t)] \in Row
  BY <1>4, <1>9, <1>10 DEF Ready, RowSets
<1> QED
  BY <1>1, <1>2, <1>3, <1>6, <1>7, <1>8, <1>9, <1>10, <1>11 DEF Handled

\* What it does to a row is decided by the row's template.
LEMMA PlanRows ==
    ASSUME FrameworkAssumption, FrameworkInv, NEW w \in Workers, Ready(w), NEW r,
           NEW t, t = Template(r)
    PROVE  /\ r \in Plan(w).created <=> t \in Creates(w) /\ r = RowFor(w, t)
           /\ r \in Plan(w).archived <=> t \in Dropped(w) /\ r = RowFor(w, t)
           /\ r \in Plan(w).updated <=> t \in Rewritten(w) /\ r = RowFor(w, t)
           /\ r \in Plan(w).mapped <=> /\ t \in MappedBy(Target(w)) \cap Handled(w)
                                       /\ r = RowFor(w, t) /\ Edge(w, t) = "none"
           /\ r \in Plan(w).remapped <=> /\ t \in MappedBy(Target(w)) \cap Handled(w)
                                         /\ r = RowFor(w, t) /\ Edge(w, t) = "archived"
           /\ r \in Plan(w).unmapped <=> /\ t \in (MappedBy(Source(w)) \ MappedBy(Target(w))) \cap Handled(w)
                                         /\ r = RowFor(w, t) /\ Edge(w, t) = "active"
<1>1. \A s \in Handled(w) : Template(RowFor(w, s)) = s
  BY RowsHandled
<1>2. Dropped(w) \subseteq Handled(w) /\ Rewritten(w) \subseteq Handled(w) /\ Creates(w) \subseteq Handled(w)
  BY DEF Dropped, Rewritten, Handled
<1>3. r \in Plan(w).created <=> t \in Creates(w) /\ r = RowFor(w, t)
  BY <1>1, <1>2, PlanParts
<1>4. r \in Plan(w).archived <=> t \in Dropped(w) /\ r = RowFor(w, t)
  BY <1>1, <1>2, PlanParts
<1>5. r \in Plan(w).updated <=> t \in Rewritten(w) /\ r = RowFor(w, t)
  BY <1>1, <1>2, PlanParts
<1>6. r \in Plan(w).mapped <=> /\ t \in MappedBy(Target(w)) \cap Handled(w)
                              /\ r = RowFor(w, t) /\ Edge(w, t) = "none"
  BY <1>1, PlanParts
<1>7. r \in Plan(w).remapped <=> /\ t \in MappedBy(Target(w)) \cap Handled(w)
                                /\ r = RowFor(w, t) /\ Edge(w, t) = "archived"
  BY <1>1, PlanParts
<1>8. r \in Plan(w).unmapped <=> /\ t \in (MappedBy(Source(w)) \ MappedBy(Target(w))) \cap Handled(w)
                                /\ r = RowFor(w, t) /\ Edge(w, t) = "active"
  BY <1>1, PlanParts
<1> QED
  BY <1>3, <1>4, <1>5, <1>6, <1>7, <1>8

AppliedRow(w, r) ==
    CASE r \in Plan(w).created  -> New(Target(w)[Template(r)].content)
      [] r \in Plan(w).archived -> [rows[r] EXCEPT !.archived = TRUE]
      [] r \in Plan(w).updated  -> [rows[r] EXCEPT !.content = Target(w)[Template(r)].content]
      [] OTHER                  -> rows[r]
AppliedEdge(w, r) ==
    CASE r \in Plan(w).mapped \cup Plan(w).remapped -> "active"
      [] r \in Plan(w).unmapped                     -> "archived"
      [] OTHER                                      -> maps[request[w].instance][r]

Record(w) ==
    [instance |-> request[w].instance, from |-> request[w].from, to |-> request[w].to,
     undo |-> Plan(w), reversed |-> FALSE, before |-> <<rows, maps>>, after |-> <<rows', maps'>>]

\* The step of a sync that applies what it planned.
Applies(w) ==
    LET i == request[w].instance
    IN  /\ Ready(w) /\ Undisturbed(w) /\ Become(w, Idle)
        /\ rows' = [r \in RowIds |-> AppliedRow(w, r)]
        /\ maps' = [maps EXCEPT ![i] = [r \in RowIds |-> AppliedEdge(w, r)]]
        /\ made' = [t \in Templates |-> IF <<t, made[t] + 1>> \in Plan(w).created
                                        THEN made[t] + 1 ELSE made[t]]
        /\ current' = [current EXCEPT ![i] = request[w].to]
        /\ syncs' = Append(syncs, Record(w))
        /\ UNCHANGED <<edits, env>>

LEMMA ApplyApplies ==
    ASSUME NEW w \in Workers, Apply(w)
    PROVE  Applies(w)
BY DEF Apply, Applies, Ready, Record, Undo, AppliedRow, AppliedEdge, Target

LEMMA RowsWritten ==
    ASSUME FrameworkAssumption, FrameworkInv, NEW w \in Workers, Applies(w), NEW r \in RowIds,
           NEW t, t = Template(r)
    PROVE  /\ r \in Plan(w).created => /\ rows[r] = None /\ rows'[r] = New(Target(w)[t].content)
                                       /\ t \in DOMAIN Target(w) /\ rows'[r] \in Row
           /\ r \in Plan(w).archived => /\ rows[r] \in Row /\ rows'[r] = [rows[r] EXCEPT !.archived = TRUE]
                                        /\ rows'[r] \in Row
           /\ r \in Plan(w).updated =>
                /\ rows[r] \in Row /\ rows'[r] = [rows[r] EXCEPT !.content = Target(w)[t].content]
                /\ rows'[r] \in Row
           /\ r \notin Plan(w).created \cup Plan(w).archived \cup Plan(w).updated => rows'[r] = rows[r]
           /\ r \in Plan(w).created => r \notin Plan(w).archived \cup Plan(w).updated
           /\ ~ (r \in Plan(w).archived /\ r \in Plan(w).updated)
<1>1. Ready(w) /\ rows'[r] = AppliedRow(w, r)
  BY DEF Applies
<1>2. /\ r \in Plan(w).created => t \in Creates(w) /\ r = RowFor(w, t)
      /\ r \in Plan(w).archived => t \in Dropped(w) /\ r = RowFor(w, t)
      /\ r \in Plan(w).updated => t \in Rewritten(w) /\ r = RowFor(w, t)
  BY <1>1, PlanRows
<1>3. /\ t \in Creates(w) => t \notin DOMAIN request[w].found
      /\ t \in Dropped(w) => t \in DOMAIN request[w].found /\ t \notin DOMAIN Target(w)
      /\ t \in Rewritten(w) => t \in DOMAIN request[w].found /\ t \in DOMAIN Target(w)
  BY <1>1, RowsHandled DEF Dropped, Rewritten, Removed, Updated
<1>4. /\ r \in Plan(w).created => rows[r] = None /\ t \in DOMAIN Target(w)
      /\ r \in Plan(w).archived \cup Plan(w).updated => rows[r] \in Row
  BY <1>1, <1>2, <1>3, RowsHandled
<1>5. t \in DOMAIN Target(w) => Target(w)[t].content \in Contents
  BY <1>1, RowsHandled, Manifests DEF Target
<1>6. /\ r \in Plan(w).created => rows'[r] = New(Target(w)[t].content)
      /\ r \in Plan(w).archived => rows'[r] = [rows[r] EXCEPT !.archived = TRUE]
      /\ r \in Plan(w).updated => rows'[r] = [rows[r] EXCEPT !.content = Target(w)[t].content]
      /\ r \notin Plan(w).created \cup Plan(w).archived \cup Plan(w).updated => rows'[r] = rows[r]
  BY <1>1, <1>2, <1>3 DEF AppliedRow
<1>7. r \in Plan(w).created => rows'[r] \in Row
  BY <1>4, <1>5, <1>6, NewRow
<1>8. /\ rows[r] \in Row => [rows[r] EXCEPT !.archived = TRUE] \in Row
      /\ \A c \in Contents : rows[r] \in Row => [rows[r] EXCEPT !.content = c] \in Row
  BY DEF Row
<1> QED
  BY <1>2, <1>3, <1>4, <1>5, <1>6, <1>7, <1>8

LEMMA EdgesWritten ==
    ASSUME FrameworkAssumption, FrameworkInv, NEW w \in Workers, Applies(w), NEW r \in RowIds,
           NEW i, i = request[w].instance
    PROVE  /\ \A j \in Instances \ {i} : maps'[j] = maps[j]
           /\ r \in Plan(w).mapped => maps[i][r] = "none" /\ maps'[i][r] = "active"
           /\ r \in Plan(w).remapped => maps[i][r] = "archived" /\ maps'[i][r] = "active"
           /\ r \in Plan(w).unmapped => maps[i][r] = "active" /\ maps'[i][r] = "archived"
           /\ r \notin Plan(w).mapped \cup Plan(w).remapped \cup Plan(w).unmapped => maps'[i][r] = maps[i][r]
           /\ r \in Plan(w).created => maps[i][r] = "none"
<1>1. Ready(w) /\ maps \in MapSets /\ i \in Instances
  BY RowsHandled DEF Applies, FrameworkInv, DataInv
<1>2. maps'[i][r] = AppliedEdge(w, r) /\ \A j \in Instances \ {i} : maps'[j] = maps[j]
  BY <1>1 DEF Applies, MapSets
<1>3. /\ r \in Plan(w).mapped => maps[i][r] = "none"
      /\ r \in Plan(w).remapped => maps[i][r] = "archived"
      /\ r \in Plan(w).unmapped => maps[i][r] = "active"
      /\ r \in Plan(w).created => maps[i][r] = "none"
  <2>1. \A t : r = RowFor(w, t) => Edge(w, t) = maps[i][r]
    BY DEF Edge
  <2> QED
    BY <1>1, <2>1, PlanRows, RowsHandled
<1> QED
  BY <1>2, <1>3 DEF AppliedEdge

LEMMA PlanTypes ==
    ASSUME FrameworkAssumption, FrameworkInv, NEW w \in Workers, Ready(w)
    PROVE  Plan(w) \in Undos /\ Disjoint(Plan(w))
<1> DEFINE q == request[w]
           S == {q.found[t] : t \in DOMAIN q.found}
<1>1. \A t \in Handled(w) : RowFor(w, t) \in RowIds
  BY RowsHandled
<1>2. Dropped(w) \subseteq Handled(w) /\ Rewritten(w) \subseteq Handled(w) /\ Creates(w) \subseteq Handled(w)
  BY DEF Dropped, Rewritten, Handled
<1>3. /\ Plan(w).created \subseteq RowIds /\ Plan(w).archived \subseteq RowIds
      /\ Plan(w).updated \subseteq RowIds /\ Plan(w).mapped \subseteq RowIds
      /\ Plan(w).remapped \subseteq RowIds /\ Plan(w).unmapped \subseteq RowIds
  BY <1>1, <1>2, PlanParts
<1>4. S \subseteq RowIds /\ Plan(w).prior = [r \in S |-> q.seen[Template(r)].content]
  BY PlanPrior, RowsHandled DEF Found
<1>5. \A r \in S : q.seen[Template(r)].content \in Writings
  BY RowsHandled DEF Found, Row, Writings
<1>6. Plan(w).prior \in UNION {[T -> Writings] : T \in SUBSET RowIds}
  <2> HIDE DEF S
  <2>1. Plan(w).prior \in [S -> Writings]
    BY <1>4, <1>5
  <2> QED
    BY <1>4, <2>1
<1>7. Plan(w) = [created |-> Plan(w).created, archived |-> Plan(w).archived, updated |-> Plan(w).updated,
                 mapped |-> Plan(w).mapped, remapped |-> Plan(w).remapped, unmapped |-> Plan(w).unmapped,
                 prior |-> Plan(w).prior]
  BY DEF Plan
<1>8. Plan(w) \in Undos
  BY <1>3, <1>6, <1>7 DEF Undos
<1>9. Plan(w).updated \subseteq DOMAIN Plan(w).prior
  <2>1. \A t \in Rewritten(w) : t \in DOMAIN q.found /\ RowFor(w, t) = q.found[t]
    BY RowsHandled DEF Rewritten
  <2> QED
    BY <1>4, <2>1, PlanParts
<1>10. \A r \in RowIds :
         /\ r \in Plan(w).created => r \notin Plan(w).archived \cup Plan(w).updated
         /\ ~ (r \in Plan(w).archived /\ r \in Plan(w).updated)
         /\ r \in Plan(w).created \cup Plan(w).mapped => r \notin Plan(w).remapped \cup Plan(w).unmapped
         /\ ~ (r \in Plan(w).remapped /\ r \in Plan(w).unmapped)
  <2> SUFFICES ASSUME NEW r \in RowIds
               PROVE  /\ r \in Plan(w).created => r \notin Plan(w).archived \cup Plan(w).updated
                      /\ ~ (r \in Plan(w).archived /\ r \in Plan(w).updated)
                      /\ r \in Plan(w).created \cup Plan(w).mapped =>
                           r \notin Plan(w).remapped \cup Plan(w).unmapped
                      /\ ~ (r \in Plan(w).remapped /\ r \in Plan(w).unmapped)
    OBVIOUS
  <2> DEFINE t == Template(r)
  <2>1. /\ t \in Creates(w) => t \notin DOMAIN q.found
        /\ t \in Dropped(w) => t \in DOMAIN q.found /\ t \notin DOMAIN Target(w)
        /\ t \in Rewritten(w) => t \in DOMAIN q.found /\ t \in DOMAIN Target(w)
        /\ t \in Creates(w) /\ r = RowFor(w, t) => Edge(w, t) = "none"
    BY RowsHandled DEF Dropped, Rewritten, Removed, Updated, Edge
  <2> HIDE DEF t
  <2>2. t = Template(r)
    BY DEF t
  <2> QED
    BY <2>1, <2>2, PlanRows
<1> QED
  BY <1>3, <1>8, <1>9, <1>10 DEF Disjoint

LEMMA AppliedData ==
    ASSUME FrameworkAssumption, FrameworkInv, NEW w \in Workers, Applies(w)
    PROVE  DataInv'
<1> DEFINE i == request[w].instance
<1>1. Ready(w) /\ i \in Instances /\ request[w].to \in Versions
  BY RowsHandled DEF Applies
<1>2. /\ rows \in RowSets /\ maps \in MapSets /\ made \in [Templates -> 0..MaxRows]
      /\ current \in [Instances -> Versions \cup {None, Unpinned}]
      /\ \A r \in RowIds : rows[r] # None => r[2] <= made[Template(r)]
      /\ \A j \in Instances, r \in RowIds :
           maps[j][r] # "none" => rows[r] # None /\ Template(r) \in Controls
  BY DEF FrameworkInv, DataInv
<1>3. \A r \in RowIds : /\ rows'[r] \in Row \cup {None}
                        /\ rows[r] # None => rows'[r] # None
                        /\ rows'[r] # None => rows[r] # None \/ r \in Plan(w).created
  BY <1>2, RowsWritten DEF RowSets, FrameworkAssumption
<1>4. rows' \in RowSets
  BY <1>3 DEF Applies, RowSets
<1>5. /\ made' \in [Templates -> 0..MaxRows] /\ \A t \in Templates : made[t] <= made'[t]
      /\ \A r \in Plan(w).created : made'[Template(r)] = r[2]
  <2>1. \A r \in Plan(w).created : /\ Template(r) \in Templates /\ made[Template(r)] < MaxRows
                                   /\ r = <<Template(r), made[Template(r)] + 1>>
    BY <1>1, PlanParts, RowsHandled DEF Ready, Handled
  <2>2. \A t \in Templates : made[t] \in 0..MaxRows /\ <<t, made[t] + 1>>[1] = t /\ <<t, made[t] + 1>>[2] = made[t] + 1
    BY <1>2
  <2>3. made' = [t \in Templates |-> IF <<t, made[t] + 1>> \in Plan(w).created THEN made[t] + 1 ELSE made[t]]
    BY DEF Applies
  <2>4. \A t \in Templates : <<t, made[t] + 1>> \in Plan(w).created => made[t] < MaxRows
    BY <2>1 DEF Template
  <2>5. \A t \in Templates : made'[t] \in 0..MaxRows /\ made[t] <= made'[t]
    BY <2>2, <2>3, <2>4 DEF FrameworkAssumption
  <2>6. \A r \in Plan(w).created : made'[Template(r)] = r[2]
    BY <2>1, <2>2, <2>3
  <2> QED
    BY <2>3, <2>5, <2>6
<1>6. \A r \in RowIds : rows'[r] # None => r[2] <= made'[Template(r)]
  BY <1>2, <1>3, <1>5 DEF RowIds, Template, FrameworkAssumption
<1>7. ASSUME NEW j \in Instances, NEW r \in RowIds
      PROVE  /\ maps'[j][r] \in {"none", "active", "archived"}
             /\ maps'[j][r] # "none" => rows'[r] # None /\ Template(r) \in Controls
  <2>1. j # i \/ (r \notin Plan(w).mapped /\ maps'[i][r] = maps[i][r])
          \/ r \in Plan(w).remapped \cup Plan(w).unmapped \/ (j = i /\ r \in Plan(w).mapped)
    BY EdgesWritten
  <2>2. j # i => maps'[j][r] = maps[j][r]
    BY EdgesWritten
  <2>3. r \in Plan(w).remapped \cup Plan(w).unmapped =>
          maps[i][r] # "none" /\ maps'[i][r] \in {"active", "archived"}
    BY EdgesWritten
  <2>4. r \in Plan(w).mapped =>
          maps'[i][r] = "active" /\ rows'[r] # None /\ Template(r) \in Controls
    <3>1. r \in Plan(w).mapped => Template(r) \in MappedBy(Target(w)) \cap Handled(w) /\ r = RowFor(w, Template(r))
      BY <1>1, PlanRows
    <3>2. MappedBy(Target(w)) \subseteq Controls
      BY <1>1, Manifests DEF Target
    <3>3. r \in Plan(w).mapped => r \in Plan(w).created \/ rows[r] \in Row
      BY <1>1, <3>1, RowsHandled, PlanRows DEF Handled
    <3>4. r \in Plan(w).created => rows'[r] \in Row
      BY RowsWritten
    <3>5. r \in Plan(w).mapped => maps'[i][r] = "active"
      BY EdgesWritten
    <3> QED
      BY <1>3, <3>1, <3>2, <3>3, <3>4, <3>5 DEF FrameworkAssumption
  <2>5. maps[j][r] \in {"none", "active", "archived"} /\ (rows[r] # None => rows'[r] # None)
    BY <1>2, <1>3 DEF MapSets
  <2> QED
    BY <1>1, <1>2, <2>1, <2>2, <2>3, <2>4, <2>5
<1>8. maps' \in MapSets
  <2>1. maps' = [maps EXCEPT ![i] = [r \in RowIds |-> AppliedEdge(w, r)]]
    BY DEF Applies
  <2>2. \A r \in RowIds : AppliedEdge(w, r) \in {"none", "active", "archived"}
    BY <1>1, <1>2, <1>7, <2>1 DEF MapSets
  <2> QED
    BY <1>2, <2>1, <2>2 DEF MapSets
<1>9. current' \in [Instances -> Versions \cup {None, Unpinned}] /\ UNCHANGED <<edits, env>>
  BY <1>1, <1>2 DEF Applies
<1> QED
  BY <1>4, <1>5, <1>6, <1>7, <1>8, <1>9 DEF FrameworkInv, DataInv, Template

LEMMA Appended ==
    ASSUME FrameworkAssumption, FrameworkInv, NEW w \in Workers, Applies(w), DataInv'
    PROVE  /\ syncs' \in Seq(Syncs) /\ Len(syncs') = Len(syncs) + 1
           /\ syncs'[Len(syncs) + 1] = Record(w)
           /\ \A k \in DOMAIN syncs : k \in DOMAIN syncs' /\ syncs'[k] = syncs[k]
           /\ DOMAIN syncs' = DOMAIN syncs \cup {Len(syncs) + 1}
<1>1. Plan(w) \in Undos
  BY PlanTypes DEF Applies
<1>2. /\ request[w].instance \in Instances
      /\ request[w].from \in Versions /\ request[w].to \in Versions
  BY RowsHandled DEF Applies
<1>3. <<rows, maps>> \in RowSets \X MapSets /\ <<rows', maps'>> \in RowSets \X MapSets
  BY DEF FrameworkInv, DataInv
<1>4. Record(w) \in Syncs
  BY <1>1, <1>2, <1>3 DEF Record, Syncs
<1> QED
  BY <1>4 DEF Applies, FrameworkInv, HistoryInv

LEMMA AppliedChain ==
    ASSUME FrameworkAssumption, FrameworkInv, NEW w \in Workers, Applies(w), DataInv',
           \A i \in Instances : Chained(i)
    PROVE  \A i \in Instances : Chained(i)'
<1> DEFINE i == request[w].instance
           n == Len(syncs) + 1
<1>1. /\ i \in Instances /\ current'[i] = request[w].to /\ env' = env
      /\ \A j \in Instances \ {i} : current'[j] = current[j]
  BY RowsHandled DEF Applies, FrameworkInv, DataInv
<1>2. /\ DOMAIN syncs' = DOMAIN syncs \cup {n} /\ DOMAIN syncs = 1..Len(syncs) /\ Len(syncs) \in Nat
      /\ \A k \in DOMAIN syncs : syncs'[k] = syncs[k]
      /\ syncs'[n].instance = i /\ ~syncs'[n].reversed
      /\ syncs'[n].from = request[w].from /\ syncs'[n].to = request[w].to
  <2>1. /\ Record(w).instance = i /\ ~Record(w).reversed
        /\ Record(w).from = request[w].from /\ Record(w).to = request[w].to
    BY DEF Record
  <2>2. DOMAIN syncs = 1..Len(syncs) /\ Len(syncs) \in Nat
    BY SyncTypes DEF FrameworkInv
  <2> QED
    BY <2>1, <2>2, Appended
<1>3. request[w].from = Pin(current[i])
  BY DEF FrameworkInv, LockInv, StillRead, Applies, Ready
<1> HIDE DEF i
<1>4. ASSUME NEW j \in Instances, j # i
      PROVE  Chained(j)'
  <2>1. Stand(j)' = Stand(j)
    BY <1>2, <1>4 DEF Stand
  <2> QED
    BY <1>1, <1>2, <1>4, <2>1 DEF Chained, Stand
<1>5. ASSUME NEW j \in Instances, j = i
      PROVE  Chained(j)'
  <2> HIDE DEF n
  <2>1. Stand(j)' = Stand(j) \cup {n} /\ Stand(j) \subseteq 1..Len(syncs) /\ n = Len(syncs) + 1
    BY <1>2, <1>5 DEF Stand, n
  <2>2. \A k \in Stand(j) : syncs'[k] = syncs[k] /\ k \in Nat /\ k < n
    BY <1>2, <2>1 DEF Stand
  <2>3. n \in Nat /\ syncs'[n].from = Pin(current[j]) /\ syncs'[n].to = current'[j]
    BY <1>1, <1>2, <1>3, <1>5, <2>1
  <2>4. \A k \in Stand(j) : (\A m \in Stand(j) : m <= k) => syncs[k].to = Pin(current[j])
    <3>1. \A k \in Stand(j) : syncs[k].to \in Versions
      BY SyncTypes DEF Stand, FrameworkInv
    <3> QED
      BY <1>5, <3>1 DEF Chained, Pin, FrameworkAssumption
  <2>5. \A k \in Stand(j)' : (\A m \in Stand(j)' : m <= k) => current'[j] = syncs'[k].to
    BY <2>1, <2>2, <2>3
  <2>6. ASSUME NEW k \in Stand(j)', NEW p \in Stand(j)', k < p, \A m \in Stand(j)' : m > k => m >= p
        PROVE  syncs'[k].to = syncs'[p].from
    <3>1. k \in Stand(j)
      BY <2>1, <2>2, <2>3, <2>6
    <3>2. CASE p = n
      <4>1. \A m \in Stand(j) : m <= k
        BY <2>1, <2>2, <2>3, <2>6, <3>1, <3>2
      <4> QED
        BY <2>2, <2>3, <2>4, <3>1, <3>2, <4>1
    <3>3. CASE p \in Stand(j)
      BY <2>1, <2>2, <2>6, <3>1, <3>3 DEF Chained
    <3> QED
      BY <2>1, <3>2, <3>3
  <2>7. ASSUME j \notin env.late, NEW k \in Stand(j)', \A m \in Stand(j)' : k <= m
        PROVE  syncs'[k].from = 1
    <3>1. CASE k \in Stand(j)
      BY <2>1, <2>2, <2>7, <3>1 DEF Chained
    <3>2. CASE k = n
      <4>1. Stand(j) = {}
        BY <2>1, <2>2, <2>3, <2>7, <3>2
      <4> QED
        BY <2>3, <2>7, <3>2, <4>1 DEF Chained, Pin
    <3> QED
      BY <2>1, <3>1, <3>2
  <2> QED
    BY <1>1, <2>1, <2>5, <2>6, <2>7 DEF Chained
<1> QED
  BY <1>4, <1>5

LEMMA AppliedRequests ==
    ASSUME FrameworkAssumption, FrameworkInv, NEW w \in Workers, Applies(w), DataInv'
    PROVE  HistoryInv' /\ RequestInv' /\ LockInv' /\ CheckInv'
<1>1. /\ DOMAIN request' = Workers /\ request'[w] = Idle
      /\ \A u \in Workers \ {w} : request'[u] = request[u]
  BY Moves DEF Applies, FrameworkInv
<1>2. /\ current \in [Instances -> Versions \cup {None, Unpinned}]
      /\ current' = [current EXCEPT ![request[w].instance] = request[w].to] /\ env' = env
      /\ request[w].instance \in Instances /\ request[w].to \in Versions /\ request[w].to # None
  BY RowsHandled DEF Applies, FrameworkInv, DataInv, FrameworkAssumption
<1>3. \A j \in Instances : current'[j] = None => current[j] = None
  BY <1>2
<1>4. \A u \in Workers \ {w} : request[u].step # "locked"
  BY DEF Applies, Ready, FrameworkInv, LockInv
<1>5. HistoryInv'
  <2>1. Record(w).undo = Plan(w) /\ Record(w).instance = request[w].instance
    BY DEF Record
  <2>2. Disjoint(Plan(w)) /\ current'[request[w].instance] # None
    BY <1>2, PlanTypes DEF Applies
  <2>3. \A k \in DOMAIN syncs : syncs[k].instance \in Instances
    BY SyncTypes DEF FrameworkInv
  <2>4. \A k \in DOMAIN syncs' : Disjoint(syncs'[k].undo) /\ current'[syncs'[k].instance] # None
    BY <1>3, <2>1, <2>2, <2>3, Appended DEF FrameworkInv, HistoryInv
  <2> QED
    BY <1>2, <1>3, <2>4, Appended DEF FrameworkInv, HistoryInv, Disjoint
<1>6. RequestInv'
  BY <1>1, <1>3, <1>4, Appended DEF FrameworkInv, RequestInv, Idle
<1>7. LockInv'
  BY <1>1, <1>4 DEF LockInv, Idle
<1>8. CheckInv'
  BY <1>1, <1>2 DEF CheckInv, Applies, Undisturbed, Idle
<1> QED
  BY <1>5, <1>6, <1>7, <1>8

\* Played back, the record of a sync that wrote what it had read undoes it.
LEMMA AppliedUndo ==
    ASSUME FrameworkAssumption, FrameworkInv, NEW w \in Workers, Applies(w), DataInv', ~env.races
    PROVE  Undoes(Record(w))
<1> DEFINE i == request[w].instance
           undo == Plan(w)
<1>1. Ready(w) /\ i \in Instances /\ Disjoint(undo) /\ Found(w)
  BY PlanTypes, RowsHandled DEF Applies
<1>2. \A t \in DOMAIN request[w].found : rows[request[w].found[t]] = request[w].seen[t]
  BY DEF FrameworkInv, LockInv, StillRead, Applies, Ready
<1>3. rows \in [RowIds -> Row \cup {None}] /\ maps \in MapSets
  BY DEF FrameworkInv, DataInv, RowSets
<1>4. ASSUME NEW r \in RowIds
      PROVE  rows[r] = ReplayedRow(undo, rows', r)
  <2>1. CASE r \in undo.created
    BY <1>1, <2>1, RowsWritten DEF ReplayedRow, Disjoint
  <2>2. CASE r \in undo.archived
    <3>1. Template(r) \in DOMAIN request[w].found /\ r = request[w].found[Template(r)]
      BY <1>1, <2>2, PlanRows, RowsHandled DEF Dropped
    <3>2. rows[r] \in Row /\ rows[r].archived = FALSE
      BY <1>1, <1>2, <3>1 DEF Found, Row
    <3>3. rows'[r] = [rows[r] EXCEPT !.archived = TRUE]
      BY <2>2, RowsWritten
    <3>4. [rows'[r] EXCEPT !.archived = FALSE] = rows[r]
      BY <3>2, <3>3 DEF Row
    <3> QED
      BY <1>1, <2>2, <3>4 DEF ReplayedRow, Disjoint
  <2>3. CASE r \in undo.updated
    <3>1. Template(r) \in DOMAIN request[w].found /\ r = request[w].found[Template(r)]
      BY <1>1, <2>3, PlanRows, RowsHandled DEF Rewritten
    <3>2. undo.prior[r] = rows[r].content
      <4>1. Plan(w).prior = [s \in {request[w].found[t] : t \in DOMAIN request[w].found} |->
                               request[w].seen[Template(s)].content]
        BY PlanPrior
      <4>2. Plan(w).prior[r] = request[w].seen[Template(r)].content
        BY <3>1, <4>1
      <4> QED
        BY <1>2, <3>1, <4>2
    <3>3. rows[r] \in Row /\ rows'[r] = [rows[r] EXCEPT !.content = Target(w)[Template(r)].content]
      BY <2>3, RowsWritten
    <3>4. [rows'[r] EXCEPT !.content = undo.prior[r]] = rows[r]
      BY <3>2, <3>3 DEF Row
    <3> QED
      BY <1>1, <2>3, <3>4 DEF ReplayedRow, Disjoint
  <2>4. CASE r \notin undo.created \cup undo.archived \cup undo.updated
    BY <2>4, RowsWritten DEF ReplayedRow
  <2> QED
    BY <2>1, <2>2, <2>3, <2>4
<1>5. ASSUME NEW j \in Instances, NEW r \in RowIds
      PROVE  maps[j][r] = ReplayedMap(undo, i, maps', j, r)
  <2>1. j # i => maps'[j] = maps[j]
    BY EdgesWritten
  <2>2. r \in undo.created => maps[j][r] = "none"
    <3>1. r \in undo.created => rows[r] = None
      BY RowsWritten
    <3> QED
      BY <3>1 DEF FrameworkInv, DataInv
  <2>3. /\ r \in undo.mapped => maps[i][r] = "none"
        /\ r \in undo.remapped => maps[i][r] = "archived"
        /\ r \in undo.unmapped => maps[i][r] = "active"
        /\ r \notin undo.mapped \cup undo.remapped \cup undo.unmapped => maps'[i][r] = maps[i][r]
    BY EdgesWritten
  <2> HIDE DEF i, undo
  <2> QED
    BY <1>1, <2>1, <2>2, <2>3 DEF ReplayedMap, EdgeGone, Disjoint
<1>6. rows = ReplayedRows(undo, rows')
  <2> HIDE DEF undo
  <2> QED
    BY <1>3, <1>4 DEF ReplayedRows
<1>7. maps = ReplayedMaps(undo, i, maps')
  <2> HIDE DEF i, undo
  <2> QED
    BY <1>3, <1>5 DEF ReplayedMaps, MapSets
<1>8. /\ Record(w).before = <<rows, maps>> /\ Record(w).after[1] = rows' /\ Record(w).after[2] = maps'
      /\ Record(w).undo = undo /\ Record(w).instance = i
  BY DEF Record
<1> QED
  BY <1>6, <1>7, <1>8 DEF Undoes

LEMMA ActiveWritten ==
    ASSUME FrameworkAssumption, FrameworkInv, NEW w \in Workers, Applies(w), NEW t, NEW r \in RowIds
    PROVE  r \in Active(t)' <=> /\ Template(r) = t
                                /\ r \in Plan(w).created \/ (r \in Active(t) /\ r \notin Plan(w).archived)
<1>1. rows[r] \in Row \cup {None} /\ rows'[r] \in Row \cup {None} /\ None \notin Row
  BY AppliedData DEF FrameworkInv, DataInv, RowSets, FrameworkAssumption
<1>2. r \in Active(t)' <=> Template(r) = t /\ rows'[r] # None /\ ~rows'[r].archived
  BY DEF Active, Template
<1>3. r \in Active(t) <=> Template(r) = t /\ rows[r] # None /\ ~rows[r].archived
  BY DEF Active
<1>4. CASE r \in Plan(w).created
  <2>1. rows'[r] \in Row /\ \E c : rows'[r] = New(c)
    <3>1. rows'[r] \in Row
      BY <1>4, RowsWritten
    <3>2. rows'[r] = AppliedRow(w, r)
      BY DEF Applies
    <3>3. r \notin Plan(w).archived \cup Plan(w).updated
      BY <1>4, RowsWritten
    <3> QED
      BY <1>4, <3>1, <3>2, <3>3 DEF AppliedRow
  <2>2. rows'[r].archived = FALSE
    BY <2>1 DEF New
  <2> QED
    BY <1>1, <1>2, <1>4, <2>1, <2>2
<1>5. CASE r \in Plan(w).archived
  <2>1. r \notin Plan(w).created /\ rows[r] \in Row /\ rows'[r] = [rows[r] EXCEPT !.archived = TRUE]
    BY <1>5, RowsWritten
  <2>2. rows'[r].archived = TRUE
    BY <2>1 DEF Row
  <2> QED
    BY <1>2, <1>5, <2>1, <2>2
<1>6. CASE r \in Plan(w).updated
  <2>1. /\ r \notin Plan(w).created \cup Plan(w).archived /\ rows[r] \in Row /\ rows'[r] \in Row
        /\ rows'[r] = [rows[r] EXCEPT !.content = Target(w)[Template(r)].content]
    BY <1>6, RowsWritten
  <2>2. rows'[r].archived = rows[r].archived
    BY <2>1 DEF Row
  <2> QED
    BY <1>1, <1>2, <1>3, <2>1, <2>2
<1>7. CASE r \notin Plan(w).created \cup Plan(w).archived \cup Plan(w).updated
  <2>1. rows'[r] = rows[r]
    BY <1>7, RowsWritten
  <2> QED
    BY <1>2, <1>3, <1>7, <2>1
<1> QED
  BY <1>4, <1>5, <1>6, <1>7

\* An instance finds the one active row of each template, mapped.
Met(i) == \A t \in DOMAIN Manifest[i][current[i]] :
    /\ \E r \in Active(t) : Active(t) = {r}
    /\ t \in MappedBy(Manifest[i][current[i]]) => \A r \in Active(t) : maps[i][r] = "active"

LEMMA MetMeans ==
    ASSUME \A t \in Templates : \A r, s \in Active(t) : r = s,
           NEW i \in Instances, DOMAIN Manifest[i][current[i]] \subseteq Templates
    PROVE  Met(i) <=> \A t \in DOMAIN Manifest[i][current[i]] :
                        /\ Cardinality(Active(t)) = 1
                        /\ t \in MappedBy(Manifest[i][current[i]]) =>
                             \A r \in Active(t) : maps[i][r] = "active"
<1>1. ASSUME NEW t \in DOMAIN Manifest[i][current[i]]
      PROVE  (\E r \in Active(t) : Active(t) = {r}) <=> Cardinality(Active(t)) = 1
  <2>1. ASSUME Cardinality(Active(t)) = 1
        PROVE  \E r \in Active(t) : Active(t) = {r}
    <3>1. Active(t) # {}
      BY <2>1, FS_EmptySet
    <3> QED
      BY <3>1
  <2>2. ASSUME NEW r \in Active(t), Active(t) = {r}
        PROVE  Cardinality(Active(t)) = 1
    BY <2>2, FS_Singleton
  <2> QED
    BY <2>1, <2>2
<1> QED
  BY <1>1 DEF Met

LEMMA AppliedMet ==
    ASSUME FrameworkAssumption, FrameworkInv, NEW w \in Workers, Applies(w), DataInv', Unspoilt'
    PROVE  /\ Single' /\ \A j \in Instances : current'[j] \in Versions
           /\ \A j \in Instances : Met(j)'
<1> DEFINE i == request[w].instance
           q == request[w]
<1>1. Unspoilt
  BY Appended DEF Unspoilt, Applies
<1>2. Single /\ (\A j \in Instances : current[j] \in Versions) /\ \A j \in Instances : Met(j)
  <2>1. Single /\ \A j \in Instances : current[j] \in Versions
    BY <1>1 DEF FrameworkInv, MetInv
  <2> QED
    BY <1>1, <2>1, MetMeans, Manifests DEF FrameworkInv, MetInv, ManifestMet, Unspoilt, Single
<1>3. /\ i \in Instances /\ q.to \in Versions /\ q.from = current[i] /\ Ready(w)
      /\ DOMAIN q.found = {t \in Templates : Active(t) # {}} /\ q.shared = Referenced(i)
      /\ \A t \in DOMAIN q.found : q.found[t] \in Active(t)
  <2>1. StillRead(w) /\ i \in Instances /\ q.to \in Versions /\ Ready(w)
    BY RowsHandled DEF FrameworkInv, LockInv, Applies, Ready
  <2>2. Pin(current[i]) = current[i]
    BY <1>2, <2>1 DEF Pin, FrameworkAssumption
  <2> QED
    BY <1>1, <2>1, <2>2 DEF StillRead, Unspoilt
<1>4. /\ current'[i] = q.to /\ \A j \in Instances \ {i} : current'[j] = current[j]
      /\ \A j \in Instances : current'[j] \in Versions
  BY <1>2, <1>3 DEF Applies, FrameworkInv, DataInv
<1>5. Single'
  <2> SUFFICES ASSUME NEW t \in Templates, NEW r \in Active(t)', NEW s \in Active(t)'
               PROVE  r = s
    BY DEF Single
  <2>1. r \in RowIds /\ s \in RowIds
    BY DEF Active
  <2>2. CASE t \in Creates(w)
    <3>1. Active(t) = {}
      BY <1>3, <2>2, RowsHandled
    <3>2. r \in Plan(w).created /\ s \in Plan(w).created /\ Template(r) = t /\ Template(s) = t
      BY <2>1, <3>1, ActiveWritten
    <3> QED
      BY <1>3, <3>2, PlanRows
  <2>3. CASE t \notin Creates(w)
    <3>1. r \notin Plan(w).created /\ s \notin Plan(w).created
      BY <1>3, <2>1, <2>3, ActiveWritten, PlanRows
    <3> QED
      BY <1>2, <2>1, <3>1, ActiveWritten DEF Single
  <2> QED
    BY <2>2, <2>3
<1>6. ASSUME NEW j \in Instances, j # i
      PROVE  Met(j)'
  <2>1. ASSUME NEW t \in DOMAIN Manifest[j][current[j]]
        PROVE  Active(t)' = Active(t)
    <3>1. t \in Templates /\ t \in Referenced(i)
      BY <1>2, <1>6, Manifests DEF Referenced
    <3>2. PICK r \in Active(t) : Active(t) = {r}
      BY <1>2 DEF Met
    <3>3. r \in RowIds /\ Template(r) = t
      BY DEF Active
    <3>4. r \notin Plan(w).archived
      BY <1>3, <3>1, <3>3, PlanRows DEF Dropped
    <3>5. \A s \in Active(t)' : s \in RowIds /\ Template(s) = t
      BY DEF Active, Template
    <3>6. t \notin Creates(w)
      BY <1>3, <3>1, <3>2, RowsHandled
    <3>7. \A s \in Active(t)' : s \in Active(t)
      BY <1>3, <3>5, <3>6, ActiveWritten, PlanRows
    <3>8. r \in Active(t)'
      BY <3>3, <3>4, ActiveWritten
    <3> QED
      BY <3>2, <3>7, <3>8
  <2>2. maps'[j] = maps[j] /\ current'[j] = current[j]
    BY <1>3, <1>4, <1>6 DEF Applies, FrameworkInv, DataInv, MapSets
  <2>3. Met(j)
    BY <1>2
  <2> QED
    BY <2>1, <2>2, <2>3 DEF Met
<1>7. ASSUME NEW t \in DOMAIN Target(w), NEW r, r = RowFor(w, t)
      PROVE  Active(t)' = {r} /\ (t \in MappedBy(Target(w)) => maps'[i][r] = "active")
  <2>1. t \in Handled(w)
    <3>1. CASE t \in DOMAIN q.found
      BY <3>1 DEF Handled
    <3>2. CASE t \notin DOMAIN q.found
      <4>1. t \in Templates /\ Active(t) = {}
        BY <1>3, <3>2, Manifests DEF Target
      <4>2. t \notin DOMAIN Source(w)
        BY <1>2, <1>3, <4>1 DEF Met, Source
      <4>3. t \in Creates(w)
        BY <3>2, <4>2 DEF Creates, Missing, Added, Source, Target
      <4> QED
        BY <4>3 DEF Handled
    <3> QED
      BY <3>1, <3>2
  <2>2. t \in Templates /\ r \in RowIds /\ Template(r) = t
    BY <1>3, <1>7, <2>1, RowsHandled
  <2>3. r \in Active(t)'
    <3>1. CASE t \in Creates(w)
      <4>1. r \in Plan(w).created
        BY <1>3, <1>7, <2>2, <3>1, PlanRows
      <4> QED
        BY <2>2, <4>1, ActiveWritten
    <3>2. CASE t \in DOMAIN q.found
      <4>1. r \in Active(t)
        BY <1>3, <1>7, <3>2, RowsHandled
      <4>2. r \notin Plan(w).archived
        BY <1>3, <1>7, <2>2, PlanRows DEF Dropped, Removed
      <4> QED
        BY <2>2, <4>1, <4>2, ActiveWritten
    <3> QED
      BY <2>1, <3>1, <3>2 DEF Handled
  <2>4. t \in MappedBy(Target(w)) => maps'[i][r] = "active"
    <3>1. Edge(w, t) = maps[i][r] /\ maps[i][r] \in {"none", "active", "archived"}
      BY <1>3, <1>7, <2>2 DEF Edge, FrameworkInv, DataInv, MapSets
    <3>2. t \in MappedBy(Target(w)) =>
            /\ maps[i][r] = "none" => r \in Plan(w).mapped
            /\ maps[i][r] = "archived" => r \in Plan(w).remapped
            /\ r \notin Plan(w).unmapped
            /\ maps[i][r] = "active" => r \notin Plan(w).mapped \cup Plan(w).remapped
      BY <1>3, <1>7, <2>1, <2>2, <3>1, PlanRows
    <3> QED
      BY <2>2, <3>1, <3>2, EdgesWritten
  <2> QED
    BY <1>5, <2>2, <2>3, <2>4 DEF Single
<1>8. ASSUME NEW j \in Instances, j = i
      PROVE  Met(j)'
  <2>1. Manifest[j][current'[j]] = Target(w)
    BY <1>4, <1>8 DEF Target
  <2> QED
    BY <1>7, <1>8, <2>1 DEF Met
<1> QED
  BY <1>4, <1>5, <1>6, <1>8

LEMMA ApplyKeeps ==
    ASSUME FrameworkAssumption, FrameworkInv, NEW w \in Workers, Apply(w)
    PROVE  FrameworkInv'
<1>1. Applies(w)
  BY ApplyApplies
<1>2. DataInv'
  BY <1>1, AppliedData
<1>3. HistoryInv' /\ RequestInv' /\ LockInv' /\ CheckInv'
  BY <1>1, <1>2, AppliedRequests
<1>4. ChainInv'
  BY <1>1, <1>2, AppliedChain DEF FrameworkInv, ChainInv, Applies
<1>5. MetInv'
  <2>1. Unspoilt' => ManifestMet' /\ Single' /\ \A j \in Instances : current'[j] \in Versions
    <3> SUFFICES ASSUME Unspoilt'
                 PROVE  ManifestMet' /\ Single' /\ \A j \in Instances : current'[j] \in Versions
      OBVIOUS
    <3>1. /\ Single' /\ \A j \in Instances : current'[j] \in Versions
          /\ \A j \in Instances : Met(j)'
      BY <1>1, <1>2, AppliedMet
    <3>2. ASSUME NEW j \in Instances, NEW t \in DOMAIN Manifest[j][current'[j]]
          PROVE  /\ Cardinality(Active(t)') = 1
                 /\ t \in MappedBy(Manifest[j][current'[j]]) => \A r \in Active(t)' : maps'[j][r] = "active"
      BY <3>1, FS_Singleton DEF Met
    <3> QED
      BY <3>1, <3>2 DEF ManifestMet
  <2> QED
    BY <2>1 DEF MetInv, ManifestMet, Unspoilt
<1>6. UndoInv'
  <2>1. ASSUME ~env.races, NEW k \in DOMAIN syncs'
        PROVE  Undoes(syncs'[k])
    <3>1. k \in DOMAIN syncs => Undoes(syncs[k])
      BY <2>1 DEF FrameworkInv, UndoInv
    <3>2. Undoes(Record(w))
      BY <1>1, <1>2, <2>1, AppliedUndo
    <3> QED
      BY <1>1, <1>2, <3>1, <3>2, Appended
  <2>2. env' = env
    BY <1>1 DEF Applies
  <2> QED
    BY <2>1, <2>2 DEF UndoInv, Undoes, ReplayedRows, ReplayedMaps, ReplayedRow, ReplayedMap, EdgeGone
<1> QED
  BY <1>2, <1>3, <1>4, <1>5, <1>6 DEF FrameworkInv

-----------------------------------------------------------------------------
(* The invariant holds *)

LEMMA InitEstablishes ==
    ASSUME FrameworkAssumption, Init
    PROVE  FrameworkInv
<1> DEFINE first == [t \in Templates |-> {i \in Instances \ env.late : t \in DOMAIN Manifest[i][1]}]
<1>1. /\ env \in Environments /\ syncs = <<>> /\ edits = 0 /\ request = [w \in Workers |-> Idle]
      /\ current = [i \in Instances |-> IF i \in env.late THEN None
                                        ELSE IF i \in env.legacy THEN Unpinned ELSE 1]
      /\ made = [t \in Templates |-> IF first[t] = {} THEN 0 ELSE 1]
      /\ rows \in [RowIds -> {None} \cup {New(c) : c \in Contents}]
      /\ \A r \in RowIds :
           IF r[2] = 1 /\ first[Template(r)] # {}
           THEN \E i \in first[Template(r)] : rows[r] = New(Manifest[i][1][Template(r)].content)
           ELSE rows[r] = None
      /\ maps = [i \in Instances |-> [r \in RowIds |->
           IF r[2] = 1 /\ i \in first[Template(r)] /\ Template(r) \in MappedBy(Manifest[i][1])
           THEN "active" ELSE "none"]]
  BY DEF Init
<1>2. 1 \in Versions /\ 1 \in 1..MaxRows /\ 0 \in 0..MaxEdits
  BY DEF FrameworkAssumption, Versions
<1>3. \A r \in RowIds : Template(r) \in Templates /\ r = <<Template(r), r[2]>> /\ r[2] \in 1..MaxRows
  BY DEF RowIds, Template
<1>4. \A r \in RowIds : rows[r] # None <=> r[2] = 1 /\ first[Template(r)] # {}
  <2>1. \A i \in Instances : \A t \in DOMAIN Manifest[i][1] : New(Manifest[i][1][t].content) # None
    BY <1>2, Manifests, NewRow
  <2>2. \A t \in Templates : \A i \in first[t] : i \in Instances /\ t \in DOMAIN Manifest[i][1]
    OBVIOUS
  <2> HIDE DEF first
  <2> QED
    BY <1>1, <1>3, <2>1, <2>2
<1> HIDE DEF first
<1>5. \A i \in Instances, t \in Templates :
        i \in first[t] <=> i \notin env.late /\ t \in DOMAIN Manifest[i][1]
  BY DEF first
<1>6. DataInv
  <2>1. rows \in RowSets
    <3>1. {New(c) : c \in Contents} \subseteq Row
      BY NewRow
    <3> QED
      BY <1>1, <3>1 DEF RowSets
  <2>2. maps \in MapSets
    BY <1>1 DEF MapSets
  <2>3. made \in [Templates -> 0..MaxRows]
    BY <1>1, <1>2
  <2>4. current \in [Instances -> Versions \cup {None, Unpinned}]
    BY <1>1, <1>2
  <2>5. \A r \in RowIds : rows[r] # None => r[2] <= made[Template(r)]
    BY <1>1, <1>3, <1>4
  <2>6. \A i \in Instances, r \in RowIds : maps[i][r] # "none" => rows[r] # None /\ Template(r) \in Controls
    <3>1. \A i \in Instances : MappedBy(Manifest[i][1]) \subseteq Controls
      BY <1>2, Manifests
    <3> QED
      BY <1>1, <1>4, <3>1
  <2> QED
    BY <1>1, <1>2, <2>1, <2>2, <2>3, <2>4, <2>5, <2>6 DEF DataInv
<1>7. HistoryInv /\ RequestInv /\ LockInv /\ CheckInv
  <2>1. HistoryInv
    BY <1>1, <1>2 DEF HistoryInv, FrameworkAssumption
  <2> QED
    BY <1>1, <2>1 DEF RequestInv, LockInv, CheckInv, Idle
<1>8. ChainInv
  BY <1>1 DEF ChainInv, Chained, Stand
<1>9. MetInv
  <2> SUFFICES ASSUME Unspoilt
               PROVE  /\ Single /\ \A i \in Instances : current[i] \in Versions
                      /\ \A i \in Instances : Met(i)
    BY MetMeans, Manifests DEF MetInv, ManifestMet, Unspoilt, Single
  <2>1. \A i \in Instances : current[i] = 1
    BY <1>1 DEF Unspoilt
  <2>2. \A t \in Templates : \A r \in Active(t) : r = <<t, 1>> /\ first[t] # {}
    BY <1>3, <1>4 DEF Active
  <2>3. Single
    BY <2>2 DEF Single
  <2>4. ASSUME NEW i \in Instances, NEW t \in DOMAIN Manifest[i][1]
        PROVE  /\ Active(t) = {<<t, 1>>}
               /\ t \in MappedBy(Manifest[i][1]) => maps[i][<<t, 1>>] = "active"
    <3>1. t \in Templates /\ <<t, 1>> \in RowIds /\ Template(<<t, 1>>) = t
      BY <1>2, Manifests DEF RowIds, Template
    <3>2. i \in first[t]
      BY <1>5, <3>1 DEF Unspoilt
    <3>3. rows[<<t, 1>>] # None
      BY <1>4, <3>1, <3>2
    <3>4. ~rows[<<t, 1>>].archived
      BY <1>1, <3>1, <3>3 DEF New
    <3>5. <<t, 1>> \in Active(t)
      BY <3>1, <3>3, <3>4 DEF Active
    <3>6. <<t, 1>>[2] = 1
      OBVIOUS
    <3>7. t \in MappedBy(Manifest[i][1]) => maps[i][<<t, 1>>] = "active"
      BY <1>1, <3>1, <3>2, <3>6
    <3> QED
      BY <2>2, <3>1, <3>5, <3>7
  <2>5. ASSUME NEW i \in Instances
        PROVE  Met(i)
    <3>1. ASSUME NEW t \in DOMAIN Manifest[i][1]
          PROVE  /\ \E r \in Active(t) : Active(t) = {r}
                 /\ t \in MappedBy(Manifest[i][1]) => \A r \in Active(t) : maps[i][r] = "active"
      <4>1. PICK r : r = <<t, 1>>
        OBVIOUS
      <4>2. Active(t) = {r} /\ (t \in MappedBy(Manifest[i][1]) => maps[i][r] = "active")
        BY <2>4, <4>1
      <4> QED
        BY <4>2
    <3> QED
      BY <2>1, <3>1 DEF Met
  <2> QED
    BY <1>2, <2>1, <2>3, <2>5
<1>10. UndoInv
  BY <1>1 DEF UndoInv
<1> QED
  BY <1>6, <1>7, <1>8, <1>9, <1>10 DEF FrameworkInv

LEMMA StepKeeps ==
    ASSUME FrameworkAssumption, FrameworkInv, [Next]_vars
    PROVE  FrameworkInv'
<1>1. ASSUME NEW w \in Workers, Sync(w)
      PROVE  FrameworkInv'
  BY <1>1, StartKeeps, ReadKeeps, ApplyKeeps DEF Sync
<1>2. ASSUME NEW w \in Workers, Rollback(w)
      PROVE  FrameworkInv'
  BY <1>2, CheckKeeps, ReplayKeeps DEF Rollback
<1>3. ASSUME NEW w \in Workers, GiveUp(w)
      PROVE  FrameworkInv'
  BY <1>3, GiveUpKeeps
<1>4. CASE Users
  BY <1>4, EditKeeps, CompleteKeeps DEF Users
<1>5. ASSUME NEW w \in Workers, Add(w)
      PROVE  FrameworkInv'
  BY <1>5, StartAddKeeps, AddKeeps DEF Add
<1>6. CASE UNCHANGED vars
  <2>1. UNCHANGED <<dataVars, edits, env>> /\ request' = request
    BY <1>6 DEF vars
  <2>2. \A u \in Workers : (Found(u)' <=> Found(u)) /\ (StillRead(u)' <=> StillRead(u))
    BY <2>1, ReadingKept
  <2>3. RequestInv' /\ LockInv' /\ CheckInv'
    BY <2>1, <2>2 DEF FrameworkInv, RequestInv, LockInv, CheckInv, StillChecked, Newest, NoDataLoss, dataVars
  <2> QED
    BY <2>1, <2>3, DataKept DEF FrameworkInv
<1> QED
  BY <1>1, <1>2, <1>3, <1>4, <1>5, <1>6 DEF Next

\* The invariant, for any manifests, requests, users and rows.
THEOREM FrameworkInvariance == Spec => []FrameworkInv
<1>1. FrameworkAssumption /\ Init => FrameworkInv
  BY InitEstablishes
<1>2. FrameworkAssumption /\ FrameworkInv /\ [Next]_vars => FrameworkInv'
  BY StepKeeps
<1> QED
  BY <1>1, <1>2, FrameworkAssumption, PTL DEF Spec

-----------------------------------------------------------------------------
(* The properties *)

\* Types are kept, and an edge never outlives its control row: a replay's
\* deletions cascade, and a sync makes edges only to rows that are there.
THEOREM FrameworkTypes == Spec => []TypeOK
<1>1. FrameworkInv => TypeOK
  <2>1. FrameworkInv => \A k \in DOMAIN syncs : syncs[k].from \in Versions /\ syncs[k].to \in Versions
    BY SyncTypes DEF FrameworkInv
  <2> QED
    BY <2>1 DEF FrameworkInv, DataInv, RowSets, MapSets, TypeOK
<1> QED
  BY <1>1, FrameworkInvariance, PTL

\* A pinned instance finds its manifest's rows until something is rolled back
\* (MetInv), with any number of frameworks, and races included.
THEOREM ManifestsAreMet == Spec => []ManifestMet
<1>1. FrameworkInv => ManifestMet
  BY DEF FrameworkInv, MetInv
<1> QED
  BY <1>1, FrameworkInvariance, PTL

\* The syncs that stand follow one another and end where the instance is pinned.
THEOREM SyncsFormChains == Spec => []VersionChain
<1>1. FrameworkInv => VersionChain
  <2> SUFFICES ASSUME FrameworkInv, ~env.races, NEW i \in Instances
               PROVE  LET stand == {k \in DOMAIN syncs : syncs[k].instance = i /\ ~syncs[k].reversed}
                          next(k) == {n \in stand : n > k}
                      IN  /\ \A k \in stand : next(k) = {} => current[i] = syncs[k].to
                          /\ \A k, n \in stand : k < n /\ (\A m \in next(k) : m >= n) => syncs[k].to = syncs[n].from
                          /\ stand = {} /\ i \notin env.late => current[i] \in {1, Unpinned}
    BY DEF VersionChain
  <2>1. Chained(i) /\ Stand(i) \subseteq Nat
    BY SyncTypes DEF FrameworkInv, ChainInv, Stand
  <2>2. ASSUME NEW k \in Stand(i), {n \in Stand(i) : n > k} = {}
        PROVE  current[i] = syncs[k].to
    <3>1. \A n \in Stand(i) : n <= k
      BY <2>1, <2>2
    <3> QED
      BY <2>1, <3>1 DEF Chained
  <2>3. \A k, n \in Stand(i) :
          k < n /\ (\A m \in {m \in Stand(i) : m > k} : m >= n) => syncs[k].to = syncs[n].from
    BY <2>1 DEF Chained
  <2>4. Stand(i) = {} /\ i \notin env.late => current[i] \in {1, Unpinned}
    BY <2>1 DEF Chained
  <2> QED
    BY <2>2, <2>3, <2>4 DEF Stand
<1> QED
  BY <1>1, FrameworkInvariance, PTL

\* A row is kept and a completion with it: what a replay deletes was looked at
\* since anyone could have completed it (CheckInv).
THEOREM CompletedWorkKept == Spec => CompletedKept
<1> DEFINE Keeps == ~env.races => \A r \in RowIds :
                      rows[r] # None /\ rows[r].done => rows'[r] # None /\ rows'[r].done
<1>1. FrameworkAssumption /\ FrameworkInv /\ [Next]_vars => Keeps
  <2> SUFFICES ASSUME FrameworkAssumption, FrameworkInv, [Next]_vars, ~env.races,
                      NEW r \in RowIds, rows[r] # None, rows[r].done
               PROVE  rows'[r] # None /\ rows'[r].done
    OBVIOUS
  <2>1. rows \in [RowIds -> Row \cup {None}] /\ rows[r] \in Row
    BY DEF FrameworkInv, DataInv, RowSets
  <2>2. CASE rows' = rows
    BY <2>2
  <2>3. ASSUME NEW w \in Workers, Apply(w)
        PROVE  rows'[r] # None /\ rows'[r].done
    <3>1. Applies(w)
      BY <2>3, ApplyApplies
    <3>2. \/ rows'[r] = [rows[r] EXCEPT !.archived = TRUE]
          \/ \E c : rows'[r] = [rows[r] EXCEPT !.content = c]
          \/ rows'[r] = rows[r]
      BY <3>1, RowsWritten
    <3>3. rows'[r] \in Row \cup {None} /\ rows'[r] # None
      <4>1. rows'[r] \in Row \/ rows'[r] = rows[r]
        BY <3>1, RowsWritten
      <4> QED
        BY <2>1, <4>1 DEF FrameworkAssumption
    <3>4. /\ [rows[r] EXCEPT !.archived = TRUE].done = rows[r].done
          /\ \A c : [rows[r] EXCEPT !.content = c].done = rows[r].done
      BY <2>1 DEF Row
    <3> QED
      BY <3>2, <3>3, <3>4
  <2>4. ASSUME NEW w \in Workers, Replay(w)
        PROVE  rows'[r] # None /\ rows'[r].done
    <3>1. CASE Replays(w, request[w].sync)
      <4> DEFINE k == request[w].sync
                 undo == syncs[k].undo
      <4>1. k \in DOMAIN syncs /\ StillChecked(k)
        BY <2>4, ReplayCases DEF FrameworkInv, CheckInv
      <4>2. r \notin undo.created
        BY <4>1 DEF StillChecked, NoDataLoss
      <4> QED
        BY <3>1, <4>1, <4>2, <2>1, RowsReplayed DEF FrameworkInv
    <3>2. CASE UNCHANGED <<dataVars, edits, env>>
      BY <3>2 DEF dataVars
    <3> QED
      BY <2>4, <3>1, <3>2, ReplayCases
  <2>5. ASSUME NEW s \in RowIds, Edit(s) \/ Complete(s)
        PROVE  rows'[r] # None /\ rows'[r].done
    <3>1. /\ [rows[r] EXCEPT !.content = Edited] \in Row /\ [rows[r] EXCEPT !.content = Edited].done
          /\ [rows[r] EXCEPT !.done = TRUE] \in Row /\ [rows[r] EXCEPT !.done = TRUE].done
      BY <2>1 DEF Row
    <3>2. \/ rows'[r] = [rows[r] EXCEPT !.content = Edited]
          \/ rows'[r] = [rows[r] EXCEPT !.done = TRUE]
          \/ rows'[r] = rows[r]
      BY <2>1, <2>5 DEF Edit, Complete
    <3> QED
      BY <3>1, <3>2 DEF FrameworkAssumption
  <2>6. ASSUME NEW w \in Workers, AddFramework(w)
        PROVE  rows'[r] # None /\ rows'[r].done
    <3>1. CASE Adds(w, request[w].instance, request[w].lacking)
      <4> DEFINE lacking == request[w].lacking
                 new == {<<t, made[t] + 1>> : t \in lacking}
      <4>1. rows' = [s \in RowIds |-> IF s \in new THEN New(Manifest[request[w].instance][Latest][Template(s)].content)
                                                   ELSE rows[s]]
        BY <3>1 DEF Adds
      <4>2. r[2] <= made[Template(r)] /\ made[Template(r)] \in Nat /\ r[2] \in Nat
        BY <2>1 DEF FrameworkInv, DataInv, RowIds, Template, FrameworkAssumption
      <4>3. r \notin new
        BY <4>2 DEF Template
      <4> QED
        BY <2>1, <4>1, <4>3
    <3>2. CASE UNCHANGED <<dataVars, edits, env>>
      BY <3>2, <2>2 DEF dataVars
    <3> QED
      BY <2>6, <3>1, <3>2, AddCases DEF FrameworkInv
  <2>7. ASSUME NEW w \in Workers, Sync(w) \/ Rollback(w) \/ GiveUp(w)
        PROVE  rows'[r] # None /\ rows'[r].done
    <3>1. Apply(w) \/ Replay(w) \/ rows' = rows
      BY <2>7 DEF Sync, Rollback, GiveUp, StartSync, ReadForSync, CheckRollback, dataVars
    <3> QED
      BY <2>2, <2>3, <2>4, <3>1
  <2> QED
    BY <2>2, <2>5, <2>6, <2>7 DEF Next, Users, Add, StartAdd, vars, dataVars
<1> QED
  BY <1>1, FrameworkAssumption, FrameworkInvariance, PTL DEF Spec, CompletedKept

\* A rollback that finds what its sync left restores what that sync found
\* (UndoInv), with any number of controls, tasks and policies.
THEOREM UndosRestore == Spec => UndoRestores
<1> DEFINE Restores == ~env.races => \A k \in DOMAIN syncs :
             (~syncs[k].reversed /\ syncs'[k].reversed /\ <<rows, maps>> = syncs[k].after)
               => /\ <<rows', maps'>> = syncs[k].before
                  /\ current'[syncs[k].instance] = syncs[k].from
<1>1. FrameworkAssumption /\ FrameworkInv /\ [Next]_vars => Restores
  <2> SUFFICES ASSUME FrameworkAssumption, FrameworkInv, [Next]_vars, ~env.races, NEW k \in DOMAIN syncs,
                      ~syncs[k].reversed, syncs'[k].reversed, <<rows, maps>> = syncs[k].after
               PROVE  /\ <<rows', maps'>> = syncs[k].before
                      /\ current'[syncs[k].instance] = syncs[k].from
    OBVIOUS
  <2>1. syncs' # syncs
    OBVIOUS
  <2>2. PICK w \in Workers : Apply(w) \/ Replay(w)
    BY <2>1 DEF Next, Sync, Rollback, Add, Users, GiveUp, StartSync, ReadForSync, CheckRollback, Edit, Complete,
                UserActs, StartAdd, AddFramework, vars, dataVars
  <2>3. ~Apply(w)
    <3> SUFFICES ASSUME Apply(w)
                 PROVE  FALSE
      OBVIOUS
    <3>1. Applies(w)
      BY ApplyApplies
    <3>2. syncs'[k] = syncs[k]
      BY <3>1, AppliedData, Appended
    <3> QED
      BY <3>2
  <2>4. Replays(w, request[w].sync) /\ request[w].sync \in DOMAIN syncs
    BY <2>1, <2>2, <2>3, ReplayCases DEF dataVars
  <2>5. request[w].sync = k
    BY <2>4 DEF Replays
  <2>6. /\ rows' = ReplayedRows(syncs[k].undo, rows)
        /\ maps' = ReplayedMaps(syncs[k].undo, syncs[k].instance, maps)
        /\ current'[syncs[k].instance] = syncs[k].from
    BY <2>4, <2>5, SyncTypes DEF Replays, FrameworkInv, DataInv
  <2>7. Undoes(syncs[k]) /\ rows = syncs[k].after[1] /\ maps = syncs[k].after[2]
    BY DEF FrameworkInv, UndoInv
  <2> QED
    BY <2>6, <2>7 DEF Undoes
<1> QED
  BY <1>1, FrameworkAssumption, FrameworkInvariance, PTL DEF Spec, UndoRestores

===============================================================================
