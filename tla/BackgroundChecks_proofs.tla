------------------------ MODULE BackgroundChecks_proofs ------------------------
(***************************************************************************)
(* A charge buys a check, a completed member has a completed check and a   *)
(* retry is final, for any number of administrators, webhook workers,      *)
(* rows, retries and faults.  The inductive invariant is CheckingInv: what *)
(* a call carries across its vendor requests stays true (CallInv), and     *)
(* with one operation at a time the row is still the one it read           *)
(* (SerialInv).                                                            *)
(***************************************************************************)
EXTENDS BackgroundChecks, TLAPS

-----------------------------------------------------------------------------
(* The inductive invariant *)

RowType == [id : 0..MaxRows, status : Statuses \cup {None}, check : Checks \cup {None},
            attempt : 0..MaxRows, attached : BOOLEAN]

CallType == [at : Steps, id : 0..MaxRows, seen : Statuses \cup {None},
             check : Checks \cup {None}, found : Statuses \cup {None}]

TypeInv ==
    /\ LedgerTypeOK
    /\ vendor \in [Checks -> Statuses \cup {"none"}]
    /\ row \in RowType /\ lastRow \in 0..MaxRows
    /\ call \in [Calls -> CallType]
    /\ stranded \in BOOLEAN /\ misfiled \in BOOLEAN /\ overlap \in BOOLEAN

\* The row's id is the newest or older; its check exists.
RowInv ==
    /\ row.id <= lastRow
    /\ row # NoRow => row.id > 0
    /\ row.check # None => vendor[row.check] # "none"

\* A check belongs to a row there has been.
VendorInv == \A c \in Checks : vendor[c] # "none" => c[1] <= lastRow

\* What a call knows: a request works on the first check of its row, a retry on a
\* later one, the checks it works on exist, and one it found completed is completed.
Knows(p) ==
    LET k == call[p] IN
    /\ k.at \in Paying \cup {"charge"} => k.check[2] = 0
    /\ k.at \in Paying \cup {"charge", "recreate"} => k.check \in Checks /\ k.check[1] <= lastRow
    /\ k.at \in {"recreate", "swap", "restore"} =>
         /\ k.check \in Checks /\ k.check[2] > 0
         /\ k.seen \in {"failed", "cancelled"}
    /\ k.at \in {"store", "swap", "apply", "fetch", "reconcile"} =>
         k.check \in Checks /\ vendor[k.check] # "none"
    /\ k.at \in {"store", "swap", "apply", "reconcile"} =>
         k.found \in Statuses /\ (k.found = "completed" => vendor[k.check] = "completed")
    /\ k.at \in {"upload", "apply", "fetch", "reconcile"} => k.id > 0

CallInv == \A p \in Calls : Knows(p)

\* With one operation at a time, a request works on a row without a check, a
\* retry on the attempt after the row's, a handler on the row it matched.
Serial(p) ==
    LET k == call[p] IN
    /\ k.at \in Paying \cup {"charge", "store"} => row.check = None
    /\ k.at \in {"recreate", "swap", "restore"} => k.check[2] = row.attempt + 1
    /\ k.at = "apply" => row.check \in {None, k.check}

Attempts == \A c \in Checks : vendor[c] # "none" /\ c[1] = row.id => c[2] <= row.attempt + 1

SerialInv == ~overlap =>
    /\ \A p, q \in Calls : call[p].at # "idle" /\ call[q].at # "idle" => p = q
    /\ \A p \in Calls : Serial(p)
    /\ Attempts

CheckingInv ==
    /\ TypeInv /\ RowInv /\ VendorInv /\ CallInv /\ SerialInv
    /\ ChargeBuysCheck /\ CompletedIsReal

-----------------------------------------------------------------------------
(* Where a step leaves its call *)

\* The call p is at step a and knows i, s, c and f; the others stay.
Doing(p, a, i, s, c, f) ==
    /\ call' \in [Calls -> CallType]
    /\ \A q \in Calls \ {p} : call'[q] = call[q]
    /\ call'[p].at = a /\ call'[p].id = i /\ call'[p].seen = s
    /\ call'[p].check = c /\ call'[p].found = f

LEMMA Parts ==
    ASSUME CheckingInv
    PROVE  /\ TypeInv /\ RowInv /\ VendorInv /\ CallInv /\ SerialInv
           /\ ChargeBuysCheck /\ CompletedIsReal
  BY DEF CheckingInv

\* A check is a pair of the row's id and the attempt.
LEMMA CheckIs ==
    /\ \A c \in Checks : c[1] \in Nat /\ c[1] > 0 /\ c[2] \in 0..MaxRows /\ c[2] \in Nat
    /\ \A a \in 1..MaxRows, b \in 0..MaxRows :
         a + b <= MaxRows => <<a, b>> \in Checks /\ <<a, b>>[1] = a /\ <<a, b>>[2] = b
    /\ MaxRows \in Nat /\ None \notin Checks /\ None \notin Statuses
<1>1. MaxRows \in Nat /\ None \notin Checks /\ None \notin Statuses
  BY BackgroundCheckAssumption, StatusAssumption
<1>2. QED
  BY <1>1 DEF Checks

LEMMA IdleIs ==
    /\ Idle \in CallType
    /\ Idle.at = "idle" /\ Idle.id = 0 /\ Idle.seen = None /\ Idle.check = None
    /\ Idle.found = None
<1>1. 0 \in 0..MaxRows
  BY CheckIs
<1>2. QED
  BY <1>1 DEF Idle, CallType, Steps

\* One call changes.
LEMMA CallIs ==
    ASSUME call \in [Calls -> CallType], NEW p \in Calls, NEW n \in CallType,
           call' = [call EXCEPT ![p] = n]
    PROVE  /\ call' \in [Calls -> CallType] /\ call'[p] = n
           /\ \A q \in Calls \ {p} : call'[q] = call[q]
  OBVIOUS

LEMMA LeaveIs ==
    ASSUME TypeInv, NEW p \in Calls, Leave(p)
    PROVE  Doing(p, "idle", 0, None, None, None)
<1>1. call \in [Calls -> CallType]
  BY DEF TypeInv
<1>2. QED
  BY <1>1, IdleIs DEF Leave, Doing

LEMMA GotoIs ==
    ASSUME TypeInv, NEW p \in Calls, NEW a \in Steps, Goto(p, a)
    PROVE  Doing(p, a, call[p].id, call[p].seen, call[p].check, call[p].found)
<1> DEFINE o == call[p]
           n == [o EXCEPT !.at = a]
<1>1. call \in [Calls -> CallType] /\ o \in CallType
  BY DEF TypeInv
<1>2. call' = [call EXCEPT ![p] = n]
  BY DEF Goto
<1> HIDE DEF o
<1>3. n \in CallType /\ n.at = a /\ n.id = o.id /\ n.seen = o.seen /\ n.check = o.check
      /\ n.found = o.found
  BY <1>1 DEF CallType
<1> HIDE DEF n
<1>4. /\ call' \in [Calls -> CallType] /\ call'[p] = n
      /\ \A q \in Calls \ {p} : call'[q] = call[q]
  BY <1>1, <1>2, <1>3, CallIs
<1>5. QED
  BY <1>3, <1>4 DEF Doing, o

LEMMA ClaimIs ==
    ASSUME TypeInv, NEW p \in Calls, NEW a \in Steps, NEW c \in Checks,
           call' = [call EXCEPT ![p].at = a, ![p].check = c]
    PROVE  Doing(p, a, call[p].id, call[p].seen, c, call[p].found)
<1> DEFINE o == call[p]
           n == [o EXCEPT !.at = a, !.check = c]
<1>1. call \in [Calls -> CallType] /\ o \in CallType
  BY DEF TypeInv
<1>2. call' = [call EXCEPT ![p] = n]
  BY <1>1
<1> HIDE DEF o
<1>3. n \in CallType /\ n.at = a /\ n.id = o.id /\ n.seen = o.seen /\ n.check = c
      /\ n.found = o.found
  BY <1>1 DEF CallType
<1> HIDE DEF n
<1>4. /\ call' \in [Calls -> CallType] /\ call'[p] = n
      /\ \A q \in Calls \ {p} : call'[q] = call[q]
  BY <1>1, <1>2, <1>3, CallIs
<1>5. QED
  BY <1>3, <1>4 DEF Doing, o

LEMMA FoundIs ==
    ASSUME TypeInv, NEW p \in Calls, NEW a \in Steps, NEW f \in Statuses,
           call' = [call EXCEPT ![p].at = a, ![p].found = f]
    PROVE  Doing(p, a, call[p].id, call[p].seen, call[p].check, f)
<1> DEFINE o == call[p]
           n == [o EXCEPT !.at = a, !.found = f]
<1>1. call \in [Calls -> CallType] /\ o \in CallType
  BY DEF TypeInv
<1>2. call' = [call EXCEPT ![p] = n]
  BY <1>1
<1> HIDE DEF o
<1>3. n \in CallType /\ n.at = a /\ n.id = o.id /\ n.seen = o.seen /\ n.check = o.check
      /\ n.found = f
  BY <1>1 DEF CallType
<1> HIDE DEF n
<1>4. /\ call' \in [Calls -> CallType] /\ call'[p] = n
      /\ \A q \in Calls \ {p} : call'[q] = call[q]
  BY <1>1, <1>2, <1>3, CallIs
<1>5. QED
  BY <1>3, <1>4 DEF Doing, o

LEMMA FetchedIs ==
    ASSUME TypeInv, NEW p \in Calls, NEW f \in Statuses,
           call' = [call EXCEPT ![p].at = "reconcile", ![p].seen = None, ![p].found = f]
    PROVE  Doing(p, "reconcile", call[p].id, None, call[p].check, f)
<1> DEFINE o == call[p]
           n == [o EXCEPT !.at = "reconcile", !.seen = None, !.found = f]
<1>1. call \in [Calls -> CallType] /\ o \in CallType
  BY DEF TypeInv
<1>2. call' = [call EXCEPT ![p] = n]
  BY <1>1
<1> HIDE DEF o
<1>3. n \in CallType /\ n.at = "reconcile" /\ n.id = o.id /\ n.seen = None
      /\ n.check = o.check /\ n.found = f
  BY <1>1 DEF CallType, Steps
<1> HIDE DEF n
<1>4. /\ call' \in [Calls -> CallType] /\ call'[p] = n
      /\ \A q \in Calls \ {p} : call'[q] = call[q]
  BY <1>1, <1>2, <1>3, CallIs
<1>5. QED
  BY <1>3, <1>4 DEF Doing, o

LEMMA RetryIs ==
    ASSUME TypeInv, NEW p \in Calls, NEW s \in Statuses, NEW c \in Checks,
           call' = [call EXCEPT ![p] = [Idle EXCEPT !.at = "recreate", !.seen = s, !.check = c]]
    PROVE  Doing(p, "recreate", 0, s, c, None)
<1> DEFINE o == Idle
           n == [o EXCEPT !.at = "recreate", !.seen = s, !.check = c]
<1>1. call \in [Calls -> CallType] /\ o \in CallType /\ o.id = 0 /\ o.found = None
  BY IdleIs DEF TypeInv
<1>2. call' = [call EXCEPT ![p] = n]
  OBVIOUS
<1> HIDE DEF o
<1>3. n \in CallType /\ n.at = "recreate" /\ n.id = 0 /\ n.seen = s /\ n.check = c
      /\ n.found = None
  BY <1>1 DEF CallType, Steps
<1> HIDE DEF n
<1>4. QED
  BY <1>1, <1>2, <1>3 DEF Doing

LEMMA AttachIs ==
    ASSUME TypeInv, NEW p \in Calls, NEW i \in 0..MaxRows,
           call' = [call EXCEPT ![p] = [Idle EXCEPT !.at = "upload", !.id = i]]
    PROVE  Doing(p, "upload", i, None, None, None)
<1> DEFINE o == Idle
           n == [o EXCEPT !.at = "upload", !.id = i]
<1>1. call \in [Calls -> CallType] /\ o \in CallType
      /\ o.seen = None /\ o.check = None /\ o.found = None
  BY IdleIs DEF TypeInv
<1>2. call' = [call EXCEPT ![p] = n]
  OBVIOUS
<1> HIDE DEF o
<1>3. n \in CallType /\ n.at = "upload" /\ n.id = i /\ n.seen = None /\ n.check = None
      /\ n.found = None
  BY <1>1 DEF CallType, Steps
<1> HIDE DEF n
<1>4. QED
  BY <1>1, <1>2, <1>3 DEF Doing

LEMMA DeliverIs ==
    ASSUME TypeInv, NEW p \in Calls, NEW i \in 0..MaxRows, NEW c \in Checks, NEW f \in Statuses,
           call' = [call EXCEPT ![p] =
                      [Idle EXCEPT !.at = "apply", !.id = i, !.check = c, !.found = f]]
    PROVE  Doing(p, "apply", i, None, c, f)
<1> DEFINE o == Idle
           n == [o EXCEPT !.at = "apply", !.id = i, !.check = c, !.found = f]
<1>1. call \in [Calls -> CallType] /\ o \in CallType /\ o.seen = None
  BY IdleIs DEF TypeInv
<1>2. call' = [call EXCEPT ![p] = n]
  OBVIOUS
<1> HIDE DEF o
<1>3. n \in CallType /\ n.at = "apply" /\ n.id = i /\ n.seen = None /\ n.check = c
      /\ n.found = f
  BY <1>1 DEF CallType, Steps
<1> HIDE DEF n
<1>4. QED
  BY <1>1, <1>2, <1>3 DEF Doing

LEMMA SelectIs ==
    ASSUME TypeInv, NEW p \in Calls, NEW i \in 0..MaxRows, NEW s \in Statuses, NEW c \in Checks,
           call' = [call EXCEPT ![p] =
                      [Idle EXCEPT !.at = "fetch", !.id = i, !.seen = s, !.check = c]]
    PROVE  Doing(p, "fetch", i, s, c, None)
<1> DEFINE o == Idle
           n == [o EXCEPT !.at = "fetch", !.id = i, !.seen = s, !.check = c]
<1>1. call \in [Calls -> CallType] /\ o \in CallType /\ o.found = None
  BY IdleIs DEF TypeInv
<1>2. call' = [call EXCEPT ![p] = n]
  OBVIOUS
<1> HIDE DEF o
<1>3. n \in CallType /\ n.at = "fetch" /\ n.id = i /\ n.seen = s /\ n.check = c
      /\ n.found = None
  BY <1>1 DEF CallType, Steps
<1> HIDE DEF n
<1>4. QED
  BY <1>1, <1>2, <1>3 DEF Doing

-----------------------------------------------------------------------------
(* What a step leaves alone *)

\* Checks stay, completed ones stay completed.
Grows ==
    /\ \A c \in Checks : /\ vendor[c] # "none" => vendor'[c] # "none"
                         /\ vendor[c] = "completed" => vendor'[c] = "completed"
    /\ lastRow <= lastRow'

Busy(p) == call[p].at # "idle" \/ MayStart(p)

LEMMA StillKnows ==
    ASSUME CallInv, NEW q \in Calls, call'[q] = call[q], Grows,
           lastRow \in 0..MaxRows, lastRow' \in 0..MaxRows
    PROVE  Knows(q)'
<1>1. MaxRows \in Nat /\ \A c \in Checks : c[1] \in Nat
  BY CheckIs
<1>2. lastRow \in Nat /\ lastRow' \in Nat /\ lastRow <= lastRow'
  BY <1>1 DEF Grows
<1>3. Knows(q)
  BY DEF CallInv
<1>4. call[q].at \in Paying \cup {"charge", "recreate"} =>
        call[q].check \in Checks /\ call[q].check[1] <= lastRow'
  BY <1>1, <1>2, <1>3 DEF Knows
<1>5. QED
  BY <1>3, <1>4 DEF Knows, Grows

LEMMA OthersKnow ==
    ASSUME CallInv, NEW p \in Calls, \A q \in Calls \ {p} : call'[q] = call[q],
           Grows, lastRow \in 0..MaxRows, lastRow' \in 0..MaxRows, Knows(p)'
    PROVE  CallInv'
<1>1. ASSUME NEW q \in Calls \ {p} PROVE Knows(q)'
  BY StillKnows
<1>2. QED
  BY <1>1 DEF CallInv

LEMMA StepFrame ==
    ASSUME CheckingInv, NEW p \in Calls, Busy(p), \A q \in Calls \ {p} : call'[q] = call[q],
           Grows, Knows(p)', overlap' = overlap,
           TypeInv', RowInv', VendorInv', ChargeBuysCheck', CompletedIsReal',
           ~overlap => Serial(p)' /\ Attempts'
    PROVE  CheckingInv'
<1>1. lastRow \in 0..MaxRows /\ lastRow' \in 0..MaxRows
  BY Parts DEF TypeInv
<1>2. CallInv'
  BY <1>1, Parts, OthersKnow
<1>3. ASSUME ~overlap PROVE \A q \in Calls \ {p} : call'[q].at = "idle"
  BY <1>3, Parts DEF Busy, MayStart, SerialInv
<1>4. SerialInv'
  BY <1>3 DEF SerialInv, Serial, Paying
<1>5. QED
  BY <1>2, <1>4 DEF CheckingInv

LEMMA SameLedger ==
    ASSUME LedgerTypeOK, UNCHANGED ledgerVars
    PROVE  LedgerTypeOK' /\ chargedTo' = chargedTo /\ refunded' = refunded
  BY DEF LedgerTypeOK, ledgerVars

\* A step that writes no table; one that stops paying has lost the charge to a
\* fault.
LEMMA CallFrame ==
    ASSUME CheckingInv, NEW p \in Calls, Busy(p), call' \in [Calls -> CallType],
           \A q \in Calls \ {p} : call'[q] = call[q],
           UNCHANGED <<ledgerVars, vendor, rowVars, env>>,
           stranded' \in BOOLEAN, stranded => stranded',
           p \in Users /\ call[p].at \in Paying => call'[p].at \in Paying \/ stranded',
           Knows(p)', ~overlap => Serial(p)'
    PROVE  CheckingInv'
<1> USE Parts DEF rowVars, env
<1>1. LedgerTypeOK' /\ chargedTo' = chargedTo /\ refunded' = refunded
  BY SameLedger DEF TypeInv
<1>2. TypeInv'
  BY <1>1 DEF TypeInv
<1>3. RowInv' /\ VendorInv' /\ (~overlap => Attempts')
  BY DEF RowInv, VendorInv, Attempts, SerialInv
<1>4. Grows
  <2>1. lastRow <= lastRow'
    BY CheckIs DEF TypeInv
  <2>2. QED
    BY <1>1, <2>1 DEF Grows
<1>5. ChargeBuysCheck'
  <2>1. (\E u \in Users : call[u].at \in Paying) =>
          (\E u \in Users : call'[u].at \in Paying) \/ stranded'
    BY DEF Calls
  <2>2. QED
    BY <1>1, <2>1 DEF ChargeBuysCheck
<1>6. CompletedIsReal'
  BY DEF CompletedIsReal
<1>7. QED
  BY <1>2, <1>3, <1>4, <1>5, <1>6, StepFrame

\* A step that writes the row.
LEMMA RowFrame ==
    ASSUME CheckingInv, NEW p \in Calls, Busy(p), call' \in [Calls -> CallType],
           \A q \in Calls \ {p} : call'[q] = call[q],
           UNCHANGED <<ledgerVars, vendor, overlap, stranded>>,
           lastRow' \in 0..MaxRows, lastRow <= lastRow',
           misfiled' \in BOOLEAN,
           row' \in RowType, RowInv', CompletedIsReal',
           p \in Users => call[p].at \notin Paying,
           Knows(p)', ~overlap => Serial(p)' /\ Attempts'
    PROVE  CheckingInv'
<1> USE Parts
<1>1. LedgerTypeOK' /\ chargedTo' = chargedTo /\ refunded' = refunded
  BY SameLedger DEF TypeInv
<1>2. TypeInv'
  BY <1>1 DEF TypeInv
<1>3. Grows
  BY <1>1 DEF Grows
<1>4. VendorInv'
  <2>1. \A c \in Checks : c[1] \in Nat
    BY CheckIs
  <2>2. lastRow \in Nat /\ lastRow' \in Nat
    BY CheckIs DEF TypeInv
  <2>3. QED
    BY <2>1, <2>2 DEF VendorInv
<1>5. ChargeBuysCheck'
  <2>1. (\E u \in Users : call[u].at \in Paying) => \E u \in Users : call'[u].at \in Paying
    BY DEF Calls
  <2>2. QED
    BY <1>1, <2>1 DEF ChargeBuysCheck
<1>6. QED
  BY <1>2, <1>3, <1>4, <1>5, StepFrame

-----------------------------------------------------------------------------
(* The steps *)

\* A call that left knows nothing.
LEMMA LeftKnows ==
    ASSUME NEW p \in Calls, call'[p].at = "idle"
    PROVE  Knows(p)' /\ Serial(p)'
  BY DEF Knows, Serial, Paying

\* A row that is not missing has a status that is one.
LEMMA RowIs ==
    ASSUME CheckingInv
    PROVE  /\ row \in RowType /\ row.id \in Nat /\ row.id <= lastRow /\ lastRow \in Nat
           /\ row.id \in 0..MaxRows /\ row.attempt \in Nat /\ row.attempt \in 0..MaxRows
           /\ row.status \in Statuses \cup {None} /\ row.check \in Checks \cup {None}
           /\ row.status \in Statuses => row # NoRow /\ row.id > 0
           /\ row # NoRow => row.id > 0
<1>1. row \in RowType /\ lastRow \in 0..MaxRows /\ MaxRows \in Nat /\ None \notin Statuses
  BY CheckIs, Parts DEF TypeInv
<1>2. row.status \in Statuses => row # NoRow
  BY <1>1 DEF NoRow
<1>3. row.id <= lastRow /\ (row # NoRow => row.id > 0)
  BY Parts DEF RowInv
<1>4. QED
  BY <1>1, <1>2, <1>3 DEF RowType

LEMMA StatusIs ==
    /\ Open \subseteq Statuses /\ Final \subseteq Statuses
    /\ {"failed", "cancelled", "completed", "invited", "in_progress"} = Statuses
    /\ "none" \notin Statuses
  BY DEF Open, Final, Statuses

LEMMA DieStep == ASSUME CheckingInv, NEW u \in Users, Die(u) PROVE CheckingInv'
<1>1. u \in Calls /\ Busy(u) /\ TypeInv
  BY Parts DEF Die, Calls, Busy
<1>2. Doing(u, "idle", 0, None, None, None)
  BY <1>1, LeaveIs DEF Die
<1>3. Knows(u)' /\ Serial(u)'
  BY <1>1, <1>2, LeftKnows DEF Doing
<1>4. /\ UNCHANGED <<ledgerVars, vendor, rowVars, env>>
      /\ stranded' = (stranded \/ call[u].at \in Paying)
  BY DEF Die
<1>5. stranded' \in BOOLEAN
  BY <1>4
<1>6. QED
  BY <1>1, <1>2, <1>3, <1>4, <1>5, CallFrame DEF Doing

LEMMA StartCancelStep == ASSUME CheckingInv, NEW u \in Users, StartCancel(u) PROVE CheckingInv'
<1>1. u \in Calls /\ Busy(u) /\ TypeInv /\ call[u].at = "idle" /\ "cancel" \in Steps
  BY Parts DEF StartCancel, MayStart, Calls, Busy, Steps
<1>2. Doing(u, "cancel", call[u].id, call[u].seen, call[u].check, call[u].found)
  BY <1>1, GotoIs DEF StartCancel
<1>3. Knows(u)' /\ Serial(u)'
  BY <1>2 DEF Doing, Knows, Serial, Paying
<1>4. UNCHANGED <<ledgerVars, vendor, rowVars, env>> /\ UNCHANGED stranded
  BY DEF StartCancel, faultVars
<1>5. QED
  BY <1>1, <1>2, <1>3, <1>4, Parts, CallFrame DEF Doing, TypeInv, Paying

LEMMA StartRetryStep == ASSUME CheckingInv, NEW u \in Users, StartRetry(u) PROVE CheckingInv'
<1> DEFINE c == <<row.id, row.attempt + 1>>
<1>1. u \in Calls /\ Busy(u) /\ TypeInv /\ call[u].at = "idle"
  BY Parts DEF StartRetry, MayStart, Calls, Busy
<1>2. /\ row.status \in {"failed", "cancelled"} /\ row.status \in Statuses
      /\ row.id > 0 /\ row.id \in Nat /\ row.attempt \in Nat /\ row.id <= lastRow
      /\ row.id + row.attempt < MaxRows /\ MaxRows \in Nat
  BY StatusIs, RowIs, CheckIs DEF StartRetry
<1>3. /\ row.id \in 1..MaxRows /\ row.attempt + 1 \in 0..MaxRows
      /\ row.id + (row.attempt + 1) <= MaxRows
  BY <1>2
<1>4. c \in Checks /\ c[1] = row.id /\ c[2] = row.attempt + 1
  BY <1>3, CheckIs
<1>5. Doing(u, "recreate", 0, row.status, c, None)
  BY <1>1, <1>2, <1>4, RetryIs DEF StartRetry
<1> HIDE DEF c
<1>6. Knows(u)' /\ Serial(u)'
  <2>1. UNCHANGED <<row, lastRow, vendor>>
    BY DEF StartRetry, rowVars
  <2>2. QED
    BY <1>2, <1>4, <1>5, <2>1 DEF Doing, Knows, Serial, Paying
<1>7. UNCHANGED <<ledgerVars, vendor, rowVars, env>> /\ UNCHANGED stranded
  BY DEF StartRetry, faultVars
<1>8. QED
  BY <1>1, <1>5, <1>6, <1>7, Parts, CallFrame DEF Doing, TypeInv, Paying

LEMMA DeliverStep ==
    ASSUME CheckingInv, NEW w \in Workers, NEW c \in Checks, NEW s \in Statuses, Deliver(w, c, s)
    PROVE  CheckingInv'
<1>1. w \in Calls /\ Busy(w) /\ TypeInv /\ call[w].at = "idle" /\ row.id \in 0..MaxRows
      /\ row.id > 0 /\ row.check \in {c, None}
  BY Parts, RowIs DEF Deliver, Matches, MayStart, Calls, Busy
<1>2. vendor[c] # "none" /\ (s = "completed" => vendor[c] = "completed")
  BY DEF Deliver, Reported, Final
<1>3. Doing(w, "apply", row.id, None, c, s)
  BY <1>1, DeliverIs DEF Deliver
<1>4. UNCHANGED <<ledgerVars, vendor, rowVars, env>> /\ UNCHANGED <<row, lastRow, stranded>>
  BY DEF Deliver, faultVars, rowVars
<1>5. Knows(w)' /\ Serial(w)'
  BY <1>1, <1>2, <1>3, <1>4 DEF Doing, Knows, Serial, Paying
<1>6. QED
  BY <1>1, <1>3, <1>4, <1>5, Parts, CallFrame DEF Doing, TypeInv, Paying

LEMMA SelectStep == ASSUME CheckingInv, Select(Poller) PROVE CheckingInv'
<1>1. Poller \in Calls /\ Busy(Poller) /\ TypeInv /\ call[Poller].at = "idle"
  BY Parts DEF Select, MayStart, Calls, Busy
<1>2. /\ row.id \in 0..MaxRows /\ row.id > 0 /\ row.status \in Statuses /\ row.check \in Checks
      /\ vendor[row.check] # "none"
  BY RowIs, StatusIs, Parts DEF Select, RowInv
<1>3. Doing(Poller, "fetch", row.id, row.status, row.check, None)
  BY <1>1, <1>2, SelectIs DEF Select
<1>4. UNCHANGED <<ledgerVars, vendor, rowVars, env>> /\ UNCHANGED <<row, lastRow, stranded>>
  BY DEF Select, faultVars, rowVars
<1>5. Knows(Poller)' /\ Serial(Poller)'
  BY <1>2, <1>3, <1>4 DEF Doing, Knows, Serial, Paying
<1>6. QED
  BY <1>1, <1>3, <1>4, <1>5, Parts, CallFrame DEF Doing, TypeInv, Paying

LEMMA FetchStep == ASSUME CheckingInv, Fetch(Poller) PROVE CheckingInv'
<1> DEFINE f == vendor[call[Poller].check]
<1>1. Poller \in Calls /\ Busy(Poller) /\ TypeInv /\ call[Poller].at = "fetch"
  BY Parts DEF Fetch, Calls, Busy
<1>2. call[Poller].check \in Checks /\ f \in Statuses /\ call[Poller].id > 0
  BY <1>1, Parts DEF CallInv, Knows, TypeInv
<1>3. UNCHANGED <<ledgerVars, vendor, rowVars, env>> /\ UNCHANGED <<row, lastRow, stranded>>
  BY DEF Fetch, faultVars, rowVars
<1>4. CASE Leave(Poller)
  <2>1. Doing(Poller, "idle", 0, None, None, None)
    BY <1>1, <1>4, LeaveIs
  <2>2. Knows(Poller)' /\ Serial(Poller)'
    BY <1>1, <2>1, LeftKnows DEF Doing
  <2>3. QED
    BY <1>1, <1>3, <2>1, <2>2, Parts, CallFrame DEF Doing, TypeInv, Paying
<1>5. CASE call' = [call EXCEPT ![Poller].at = "reconcile", ![Poller].seen = None,
                      ![Poller].found = f]
  <2>1. Doing(Poller, "reconcile", call[Poller].id, None, call[Poller].check, f)
    BY <1>1, <1>2, <1>5, FetchedIs
  <2>2. "none" \notin Statuses
    BY StatusIs
  <2>3. Knows(Poller)' /\ Serial(Poller)'
    BY <1>2, <1>3, <2>1, <2>2 DEF Doing, Knows, Serial, Paying
  <2>4. QED
    BY <1>1, <1>3, <2>1, <2>3, Parts, CallFrame DEF Doing, TypeInv, Paying
<1>6. QED
  BY <1>4, <1>5 DEF Fetch

-----------------------------------------------------------------------------
(* The steps that write the row *)

\* The rows a step may leave.
LEMMA NewRowIs ==
    ASSUME NEW i \in 0..MaxRows
    PROVE  /\ NoRow \in RowType /\ NoRow.id = 0 /\ NoRow.check = None /\ NoRow.status = None
           /\ NewRow(i) \in RowType /\ NewRow(i).id = i /\ NewRow(i).check = None
           /\ NewRow(i).status = "invited"
<1> DEFINE o == NoRow
           n == [o EXCEPT !.id = i, !.status = "invited"]
<1>1. o \in RowType /\ o.id = 0 /\ o.check = None /\ o.status = None
  BY CheckIs DEF NoRow, RowType
<1>2. NewRow(i) = n
  BY DEF NewRow
<1> HIDE DEF o
<1>3. n \in RowType /\ n.id = i /\ n.check = None /\ n.status = "invited"
  BY <1>1, StatusIs DEF RowType
<1> HIDE DEF n
<1>4. QED
  BY <1>1, <1>2, <1>3 DEF o

\* A new row has no check yet, and no check is a later one's.
LEMMA NewRowFits ==
    ASSUME CheckingInv, lastRow < MaxRows, row' = NewRow(lastRow + 1),
           lastRow' = lastRow + 1, vendor' = vendor
    PROVE  /\ row' \in RowType /\ row'.id = lastRow + 1 /\ row'.check = None
           /\ lastRow' \in 0..MaxRows /\ lastRow <= lastRow'
           /\ RowInv' /\ CompletedIsReal' /\ Attempts'
<1>1. lastRow \in Nat /\ MaxRows \in Nat /\ lastRow + 1 \in 0..MaxRows /\ lastRow + 1 > 0
  BY RowIs, CheckIs
<1>2. row' \in RowType /\ row'.id = lastRow + 1 /\ row'.check = None /\ row'.status = "invited"
  BY <1>1, NewRowIs
<1>3. RowInv' /\ CompletedIsReal'
  BY <1>1, <1>2 DEF RowInv, CompletedIsReal
<1>4. Attempts'
  <2>1. \A c \in Checks : c[1] \in Nat /\ (vendor[c] # "none" => c[1] <= lastRow)
    BY CheckIs, Parts DEF VendorInv
  <2>2. \A c \in Checks : vendor'[c] # "none" => c[1] # row'.id
    BY <1>1, <1>2, <2>1
  <2>3. QED
    BY <2>2 DEF Attempts
<1>5. QED
  BY <1>1, <1>2, <1>3, <1>4

LEMMA ClaimStep == ASSUME CheckingInv, NEW u \in Users, Claim(u) PROVE CheckingInv'
<1> DEFINE c == <<lastRow + 1, 0>>
<1>1. /\ u \in Calls /\ Busy(u) /\ TypeInv /\ call[u].at = "idle" /\ "charge" \in Steps
      /\ lastRow < MaxRows
  BY Parts DEF Claim, MayStart, Calls, Busy, Steps
<1>2. /\ row' = NewRow(lastRow + 1) /\ lastRow' = lastRow + 1
      /\ UNCHANGED <<ledgerVars, vendor, overlap, misfiled, stranded>> /\ vendor' = vendor
      /\ misfiled' = misfiled
  BY DEF Claim, faultVars, env
<1>3. /\ row' \in RowType /\ row'.check = None /\ lastRow' \in 0..MaxRows /\ lastRow <= lastRow'
      /\ RowInv' /\ CompletedIsReal' /\ Attempts'
  BY <1>1, <1>2, NewRowFits
<1>4. c \in Checks /\ c[1] = lastRow + 1 /\ c[2] = 0
  <2>1. lastRow + 1 \in 1..MaxRows /\ 0 \in 0..MaxRows /\ lastRow + 1 + 0 <= MaxRows
    BY <1>1, RowIs, CheckIs
  <2>2. QED
    BY <2>1, CheckIs
<1>5. Doing(u, "charge", call[u].id, call[u].seen, c, call[u].found)
  BY <1>1, <1>4, ClaimIs DEF Claim
<1> HIDE DEF c
<1>6. Knows(u)' /\ Serial(u)'
  <2>1. lastRow + 1 <= lastRow'
    BY <1>2, RowIs
  <2>2. QED
    BY <1>3, <1>4, <1>5, <2>1 DEF Doing, Knows, Serial, Paying
<1>7. call[u].at \notin Paying
  BY <1>1 DEF Paying
<1>8. QED
  BY <1>1, <1>2, <1>3, <1>5, <1>6, <1>7, Parts, RowFrame DEF Doing, TypeInv

LEMMA StartAttachStep == ASSUME CheckingInv, NEW u \in Users, StartAttach(u) PROVE CheckingInv'
<1>1. u \in Calls /\ Busy(u) /\ TypeInv /\ call[u].at = "idle"
  BY Parts DEF StartAttach, MayStart, Calls, Busy
<1>2. /\ UNCHANGED <<ledgerVars, vendor, overlap, misfiled, stranded>> /\ vendor' = vendor
      /\ misfiled' = misfiled
  BY DEF StartAttach, faultVars, env
<1>3. /\ row' \in RowType /\ row'.id > 0 /\ row'.id \in 0..MaxRows
      /\ lastRow' \in 0..MaxRows /\ lastRow <= lastRow'
      /\ RowInv' /\ CompletedIsReal' /\ (~overlap => Attempts')
  <2>1. CASE row = NoRow
    <3>1. lastRow < MaxRows /\ row' = NewRow(lastRow + 1) /\ lastRow' = lastRow + 1
      BY <2>1 DEF StartAttach
    <3>2. /\ row' \in RowType /\ row'.id = lastRow + 1 /\ lastRow' \in 0..MaxRows
          /\ lastRow <= lastRow' /\ RowInv' /\ CompletedIsReal' /\ Attempts'
      BY <1>2, <3>1, NewRowFits
    <3>3. lastRow + 1 \in 0..MaxRows /\ lastRow + 1 > 0
      BY <3>1, RowIs, CheckIs
    <3>4. QED
      BY <3>2, <3>3
  <2>2. CASE row # NoRow
    <3>1. row' = row /\ lastRow' = lastRow
      BY <2>2 DEF StartAttach
    <3>2. row.id > 0 /\ row.id \in 0..MaxRows /\ row \in RowType /\ lastRow \in Nat
      BY <2>2, RowIs
    <3>3. RowInv' /\ CompletedIsReal' /\ (~overlap => Attempts')
      BY <1>2, <3>1, Parts DEF RowInv, CompletedIsReal, SerialInv, Attempts
    <3>4. lastRow \in 0..MaxRows /\ lastRow <= lastRow
      BY <3>2, Parts DEF TypeInv
    <3>5. QED
      BY <3>1, <3>2, <3>3, <3>4
  <2>3. QED
    BY <2>1, <2>2
<1>4. Doing(u, "upload", row'.id, None, None, None)
  BY <1>1, <1>3, AttachIs DEF StartAttach
<1>5. Knows(u)' /\ Serial(u)'
  BY <1>3, <1>4 DEF Doing, Knows, Serial, Paying
<1>6. call[u].at \notin Paying
  BY <1>1 DEF Paying
<1>7. QED
  BY <1>1, <1>2, <1>3, <1>4, <1>5, <1>6, Parts, RowFrame DEF Doing, TypeInv

LEMMA DeleteStep == ASSUME CheckingInv, NEW u \in Users, Delete(u) PROVE CheckingInv'
<1>1. u \in Calls /\ Busy(u) /\ TypeInv /\ call[u].at = "idle"
  BY Parts DEF Delete, MayStart, Calls, Busy
<1>2. /\ UNCHANGED <<ledgerVars, vendor, overlap, misfiled, stranded>>
      /\ vendor' = vendor /\ misfiled' = misfiled /\ call' = call /\ lastRow' = lastRow
      /\ row' = NoRow
  BY DEF Delete, faultVars, env
<1>3. lastRow \in Nat /\ lastRow \in 0..MaxRows /\ 0 \in 0..MaxRows /\ lastRow <= lastRow
  BY RowIs, CheckIs, Parts DEF TypeInv
<1>4. row' \in RowType /\ row'.id = 0 /\ row'.check = None /\ row'.status = None
  BY <1>2, <1>3, NewRowIs
<1>5. RowInv' /\ CompletedIsReal' /\ Attempts'
  BY <1>2, <1>3, <1>4, CheckIs, StatusIs DEF RowInv, CompletedIsReal, Attempts
<1>6. Knows(u)' /\ Serial(u)'
  BY <1>1, <1>2, LeftKnows
<1>7. call[u].at \notin Paying
  BY <1>1 DEF Paying
<1>8. QED
  BY <1>1, <1>2, <1>3, <1>4, <1>5, <1>6, <1>7, Parts, RowFrame DEF TypeInv

\* A write that leaves the row's id: it fits when its check exists, a
\* completed one is completed, and the attempt does not go back.
LEMMA SameRowFits ==
    ASSUME CheckingInv, row' \in RowType, row'.id = row.id, UNCHANGED <<vendor, lastRow>>,
           row'.check # None => vendor[row'.check] # "none",
           row' # row => row # NoRow,
           CompletedIsReal',
           ~overlap => row'.attempt >= row.attempt
    PROVE  /\ RowInv' /\ (~overlap => Attempts')
           /\ lastRow' \in 0..MaxRows /\ lastRow <= lastRow'
<1>1. lastRow \in Nat /\ lastRow \in 0..MaxRows /\ row.attempt \in Nat /\ row'.attempt \in Nat
  BY RowIs, CheckIs, Parts DEF TypeInv, RowType
<1>2. row' # NoRow => row # NoRow
  OBVIOUS
<1>3. RowInv'
  BY <1>2, RowIs DEF RowInv
<1>4. ASSUME ~overlap PROVE Attempts'
  <2>1. Attempts
    BY <1>4, Parts DEF SerialInv
  <2>2. \A c \in Checks : c[2] \in Nat
    BY CheckIs
  <2>3. QED
    BY <1>1, <1>4, <2>1, <2>2 DEF Attempts
<1>5. QED
  BY <1>1, <1>3, <1>4

\* What the last write of an operation makes of the row.
LEMMA WrittenIs ==
    ASSUME CheckingInv, NEW u \in Users,
           call[u].at \in {"store", "swap", "markFailed", "restore", "cancel"}
    PROVE  /\ Written(u) \in RowType /\ Written(u).id = row.id
           /\ Written(u).check # None => vendor[Written(u).check] # "none"
           /\ Written(u).status = "completed" =>
                Written(u).check # None /\ vendor[Written(u).check] = "completed"
           /\ ~overlap => Written(u).attempt >= row.attempt
<1> DEFINE o == row
           c == call[u].check
           f == call[u].found
<1>1. /\ o \in RowType /\ o.attempt \in Nat /\ (o.check # None => vendor[o.check] # "none")
      /\ None \notin Checks /\ u \in Calls
  BY RowIs, CheckIs, Parts DEF RowInv, Calls
<1>2. Knows(u) /\ (~overlap => Serial(u))
  BY <1>1, Parts DEF CallInv, SerialInv
<1>3. CASE call[u].at = "store"
  <2> DEFINE n == [o EXCEPT !.check = c, !.status = f]
  <2>1. Written(u) = n
    BY <1>3 DEF Written
  <2>2. /\ c \in Checks /\ vendor[c] # "none"
        /\ f \in Statuses /\ (f = "completed" => vendor[c] = "completed")
    BY <1>2, <1>3 DEF Knows
  <2> HIDE DEF o, c, f
  <2>3. n \in RowType /\ n.id = o.id /\ n.check = c /\ n.status = f /\ n.attempt = o.attempt
    BY <1>1, <2>2 DEF RowType
  <2> HIDE DEF n
  <2>4. QED
    BY <1>1, <2>1, <2>2, <2>3 DEF o
<1>4. CASE call[u].at = "swap"
  <2> DEFINE n == [o EXCEPT !.check = c, !.status = f, !.attempt = c[2]]
  <2>1. Written(u) = n
    BY <1>4 DEF Written
  <2>2. /\ c \in Checks /\ vendor[c] # "none" /\ c[2] \in 0..MaxRows
        /\ f \in Statuses /\ (f = "completed" => vendor[c] = "completed")
        /\ (~overlap => c[2] = o.attempt + 1)
    BY <1>2, <1>4, CheckIs DEF Knows, Serial
  <2> HIDE DEF o, c, f
  <2>3. n \in RowType /\ n.id = o.id /\ n.check = c /\ n.status = f /\ n.attempt = c[2]
    BY <1>1, <2>2 DEF RowType
  <2> HIDE DEF n
  <2>4. ~overlap => n.attempt >= o.attempt
    BY <1>1, <2>2, <2>3
  <2>5. QED
    BY <1>1, <2>1, <2>2, <2>3, <2>4 DEF o
<1>5. CASE call[u].at \in {"markFailed", "restore", "cancel"}
  <2> DEFINE s == CASE call[u].at = "markFailed" -> "failed"
                    [] call[u].at = "restore" -> call[u].seen
                    [] call[u].at = "cancel" -> "cancelled"
             n == [o EXCEPT !.status = s]
  <2>1. Written(u) = n
    BY <1>5 DEF Written
  <2>2. s \in {"failed", "cancelled"}
    BY <1>2, <1>5 DEF Knows
  <2> HIDE DEF o, s
  <2>3. n \in RowType /\ n.id = o.id /\ n.check = o.check /\ n.status = s
        /\ n.attempt = o.attempt
    BY <1>1, <2>2, StatusIs DEF RowType
  <2> HIDE DEF n
  <2>4. QED
    BY <1>1, <2>1, <2>2, <2>3 DEF o
<1>6. QED
  BY <1>3, <1>4, <1>5

LEMMA WriteRowStep == ASSUME CheckingInv, NEW u \in Users, WriteRow(u) PROVE CheckingInv'
<1>1. /\ u \in Calls /\ Busy(u) /\ TypeInv
      /\ call[u].at \in {"store", "swap", "markFailed", "restore", "cancel"}
  BY Parts DEF WriteRow, Calls, Busy
<1>2. /\ UNCHANGED <<ledgerVars, vendor, overlap, misfiled, stranded>>
      /\ UNCHANGED <<vendor, lastRow>> /\ misfiled' = misfiled
      /\ row' = IF row = NoRow THEN NoRow ELSE Written(u)
  BY DEF WriteRow, faultVars, env
<1>3. /\ row' \in RowType /\ row'.id = row.id
      /\ row'.check # None => vendor[row'.check] # "none"
      /\ row' # row => row # NoRow
      /\ CompletedIsReal'
      /\ ~overlap => row'.attempt >= row.attempt
  <2>1. CASE row = NoRow
    <3>1. row' = row /\ row \in RowType /\ row.attempt \in Nat
      BY <1>2, <2>1, RowIs
    <3>2. QED
      BY <1>2, <3>1, Parts DEF RowInv, CompletedIsReal
  <2>2. CASE row # NoRow
    <3>1. row' = Written(u)
      BY <1>2, <2>2
    <3>2. QED
      BY <1>1, <1>2, <2>2, <3>1, WrittenIs DEF CompletedIsReal
  <2>3. QED
    BY <2>1, <2>2
<1>4. /\ RowInv' /\ (~overlap => Attempts') /\ lastRow' \in 0..MaxRows /\ lastRow <= lastRow'
  BY <1>2, <1>3, SameRowFits
<1>5. Doing(u, "idle", 0, None, None, None)
  BY <1>1, LeaveIs DEF WriteRow
<1>6. Knows(u)' /\ Serial(u)'
  BY <1>1, <1>5, LeftKnows DEF Doing
<1>7. call[u].at \notin Paying
  BY <1>1 DEF Paying
<1>8. QED
  BY <1>1, <1>2, <1>3, <1>4, <1>5, <1>6, <1>7, Parts, RowFrame DEF Doing, TypeInv

\* The three updates that name the row: a report, an event, a poll.
LEMMA NamedWrite ==
    ASSUME CheckingInv, NEW p \in Calls, call[p].at \in {"upload", "apply", "reconcile"},
           Leave(p), UNCHANGED <<ledgerVars, vendor, lastRow, overlap, stranded>>,
           misfiled' \in BOOLEAN, misfiled => misfiled',
           \/ row' = row
           \/ /\ row.id = call[p].id /\ row' \in RowType /\ row'.id = row.id
              /\ row'.attempt = row.attempt,
           row'.check # None => vendor[row'.check] # "none",
           CompletedIsReal'
    PROVE  CheckingInv'
<1>1. Busy(p) /\ TypeInv /\ call[p].at \notin Paying
  BY Parts DEF Busy, Paying
<1>2. call[p].id > 0 /\ NoRow.id = 0 /\ row \in RowType /\ row.attempt \in Nat
  <2>1. 0 \in 0..MaxRows
    BY CheckIs
  <2>2. QED
    BY <2>1, Parts, RowIs, NewRowIs DEF CallInv, Knows
<1>3. /\ row' \in RowType /\ row'.id = row.id /\ (row' # row => row # NoRow)
      /\ row'.attempt >= row.attempt
  BY <1>2
<1>4. UNCHANGED <<vendor, lastRow>>
  OBVIOUS
<1>5. /\ RowInv' /\ (~overlap => Attempts') /\ lastRow' \in 0..MaxRows /\ lastRow <= lastRow'
  BY <1>3, <1>4, SameRowFits
<1>6. Doing(p, "idle", 0, None, None, None)
  BY <1>1, LeaveIs
<1>7. Knows(p)' /\ Serial(p)'
  BY <1>1, <1>6, LeftKnows DEF Doing
<1>8. QED
  BY <1>1, <1>3, <1>5, <1>6, <1>7, Parts, RowFrame DEF Doing

LEMMA UploadStep == ASSUME CheckingInv, NEW u \in Users, Upload(u) PROVE CheckingInv'
<1> DEFINE o == row
           n == [o EXCEPT !.status = "completed", !.attached = TRUE]
<1>1. /\ u \in Calls /\ call[u].at \in {"upload", "apply", "reconcile"} /\ Leave(u)
      /\ UNCHANGED <<ledgerVars, vendor, lastRow, overlap, stranded>>
      /\ vendor' = vendor /\ misfiled' = misfiled /\ misfiled' \in BOOLEAN
  BY Parts DEF Upload, Calls, faultVars, env, TypeInv
<1>2. o \in RowType /\ (o.check # None => vendor[o.check] # "none")
  BY RowIs, Parts DEF RowInv
<1>3. IF row.id = call[u].id THEN row' = n ELSE row' = row
  BY Zenon DEF Upload
<1> HIDE DEF o
<1>4. /\ n \in RowType /\ n.id = o.id /\ n.attempt = o.attempt /\ n.check = o.check
      /\ n.attached
  BY <1>2, StatusIs DEF RowType
<1> HIDE DEF n
<1>5. /\ \/ row' = row
         \/ /\ row.id = call[u].id /\ row' \in RowType /\ row'.id = row.id
            /\ row'.attempt = row.attempt
      /\ row'.check # None => vendor[row'.check] # "none"
  BY <1>2, <1>3, <1>4 DEF o
<1>6. CompletedIsReal'
  BY <1>1, <1>3, <1>4, Parts DEF CompletedIsReal
<1>7. QED
  BY <1>1, <1>5, <1>6, NamedWrite

LEMMA ApplyStep == ASSUME CheckingInv, NEW w \in Workers, Apply(w) PROVE CheckingInv'
<1> DEFINE o == row
           c == call[w].check
           f == call[w].found
           n == [o EXCEPT !.check = c, !.status = f]
<1>1. /\ w \in Calls /\ call[w].at \in {"upload", "apply", "reconcile"} /\ Leave(w)
      /\ UNCHANGED <<ledgerVars, vendor, lastRow, overlap, stranded>>
      /\ vendor' = vendor /\ misfiled' = misfiled /\ misfiled' \in BOOLEAN
  BY Parts DEF Apply, Calls, faultVars, env, TypeInv
<1>2. /\ o \in RowType /\ (o.check # None => vendor[o.check] # "none")
      /\ c \in Checks /\ vendor[c] # "none" /\ None \notin Checks
      /\ f \in Statuses /\ (f = "completed" => vendor[c] = "completed")
  BY <1>1, RowIs, CheckIs, Parts DEF RowInv, CallInv, Knows, Apply
<1>3. IF row.id = call[w].id THEN row' = n ELSE row' = row
  BY Zenon DEF Apply, WithEvent
<1> HIDE DEF o, c, f
<1>4. /\ n \in RowType /\ n.id = o.id /\ n.attempt = o.attempt /\ n.check = c /\ n.status = f
  BY <1>2 DEF RowType
<1> HIDE DEF n
<1>5. /\ \/ row' = row
         \/ /\ row.id = call[w].id /\ row' \in RowType /\ row'.id = row.id
            /\ row'.attempt = row.attempt
      /\ row'.check # None => vendor[row'.check] # "none"
  BY <1>2, <1>3, <1>4 DEF o
<1>6. CompletedIsReal'
  BY <1>1, <1>2, <1>3, <1>4, Parts DEF CompletedIsReal
<1>7. QED
  BY <1>1, <1>5, <1>6, NamedWrite

\* A status written beside another check is counted as misfiled.
LEMMA ReconcileStep == ASSUME CheckingInv, Reconcile(Poller) PROVE CheckingInv'
<1> DEFINE o == row
           c == call[Poller].check
           f == call[Poller].found
           n == [o EXCEPT !.status = f]
<1>1. /\ Poller \in Calls /\ call[Poller].at \in {"upload", "apply", "reconcile"}
      /\ Leave(Poller)
      /\ UNCHANGED <<ledgerVars, vendor, lastRow, overlap, stranded>> /\ vendor' = vendor
  BY DEF Reconcile, Calls, faultVars
<1>2. /\ misfiled' = (misfiled \/ (row' # row /\ row.check # c)) /\ misfiled \in BOOLEAN
      /\ misfiled' \in BOOLEAN
  BY Parts DEF Reconcile, TypeInv
<1>3. /\ o \in RowType /\ (o.check # None => vendor[o.check] # "none")
      /\ c \in Checks /\ vendor[c] # "none" /\ None \notin Checks
      /\ f \in Statuses /\ (f = "completed" => vendor[c] = "completed")
  BY <1>1, RowIs, CheckIs, Parts DEF RowInv, CallInv, Knows, Reconcile
<1>4. row' = (IF row.id = call[Poller].id /\ row.status \in Open THEN n ELSE row)
  BY Zenon DEF Reconcile, StillOpen
<1> HIDE DEF o, c, f
<1>5. /\ n \in RowType /\ n.id = o.id /\ n.attempt = o.attempt /\ n.check = o.check
      /\ n.status = f
  BY <1>3 DEF RowType
<1> HIDE DEF n
<1>6. /\ \/ row' = row
         \/ /\ row.id = call[Poller].id /\ row' \in RowType /\ row'.id = row.id
            /\ row'.attempt = row.attempt
      /\ row'.check # None => vendor[row'.check] # "none"
  BY <1>3, <1>4, <1>5 DEF o
<1>7. CompletedIsReal'
  <2>1. CASE row' = row
    BY <1>1, <1>2, <2>1, Parts DEF CompletedIsReal
  <2>2. CASE row' # row
    <3>1. row' = n /\ (~misfiled' => row.check = c)
      BY <1>2, <1>4, <2>2
    <3>2. QED
      BY <1>1, <1>3, <1>5, <3>1 DEF CompletedIsReal, o
  <2>3. QED
    BY <2>1, <2>2
<1>8. QED
  BY <1>1, <1>2, <1>6, <1>7, NamedWrite

-----------------------------------------------------------------------------
(* The steps that charge, pay and give back *)

LEMMA PersistPaymentStep == ASSUME CheckingInv, NEW u \in Users, PersistPayment(u) PROVE CheckingInv'
<1>1. u \in Calls /\ Busy(u) /\ TypeInv /\ call[u].at = "persist" /\ Paying \subseteq Steps
  BY Parts DEF PersistPayment, Calls, Busy, Steps
<1>2. PICK a \in {"create", "giveBackOnly"} : Goto(u, a)
  BY DEF PersistPayment
<1>3. a \in Paying /\ a \in Steps
  BY <1>1 DEF Paying
<1>4. Doing(u, a, call[u].id, call[u].seen, call[u].check, call[u].found)
  BY <1>1, <1>2, <1>3, GotoIs
<1>5. UNCHANGED <<ledgerVars, vendor, rowVars, env>> /\ UNCHANGED <<row, lastRow, stranded>>
  BY DEF PersistPayment, rowVars
<1>6. chargedTo' = chargedTo
  BY <1>5 DEF ledgerVars
<1>7. Knows(u)' /\ (~overlap => Serial(u)')
  <2>1. Knows(u) /\ (~overlap => Serial(u))
    BY <1>1, Parts DEF CallInv, SerialInv
  <2>2. QED
    BY <1>1, <1>4, <1>5, <1>6, <2>1 DEF Doing, Knows, Serial, Paying
<1>8. QED
  BY <1>1, <1>3, <1>4, <1>5, <1>7, Parts, CallFrame DEF Doing, TypeInv

\* A charge and a refund of the ledger.
LEMMA ChargeIs ==
    ASSUME LedgerTypeOK, NEW s \in Sources, NEW pot \in Pots, Charge(s, pot)
    PROVE  /\ LedgerTypeOK' /\ chargedTo[s] = NoPot /\ chargedTo'[s] # NoPot
           /\ \A t \in Sources \ {s} : chargedTo'[t] = chargedTo[t]
           /\ refunded' = refunded
  BY LedgerAssumption DEF LedgerTypeOK, Charge

LEMMA RefundIs ==
    ASSUME LedgerTypeOK, NEW s \in Sources, Refund(s)
    PROVE  LedgerTypeOK' /\ chargedTo' = chargedTo /\ refunded' = refunded \cup {s}
<1>1. chargedTo[s] \in Pots
  BY DEF LedgerTypeOK, Refund
<1>2. funds[chargedTo[s]] + 1 \in Nat
  BY <1>1 DEF LedgerTypeOK, Refund
<1>3. QED
  BY <1>1, <1>2 DEF LedgerTypeOK, Refund

\* A step that charges the member or gives a charge back.
LEMMA LedgerFrame ==
    ASSUME CheckingInv, NEW p \in Calls, Busy(p), call' \in [Calls -> CallType],
           \A q \in Calls \ {p} : call'[q] = call[q],
           UNCHANGED <<vendor, rowVars, env>>, stranded' \in BOOLEAN,
           LedgerTypeOK', ChargeBuysCheck', Knows(p)', ~overlap => Serial(p)'
    PROVE  CheckingInv'
<1> USE Parts DEF rowVars, env
<1>1. TypeInv'
  BY DEF TypeInv
<1>2. RowInv' /\ VendorInv' /\ (~overlap => Attempts') /\ CompletedIsReal'
  BY DEF RowInv, VendorInv, Attempts, SerialInv, CompletedIsReal
<1>3. Grows
  <2>1. lastRow <= lastRow'
    BY CheckIs DEF TypeInv
  <2>2. QED
    BY <2>1 DEF Grows
<1>4. QED
  BY <1>1, <1>2, <1>3, StepFrame

LEMMA ChargeMemberStep == ASSUME CheckingInv, NEW u \in Users, ChargeMember(u) PROVE CheckingInv'
<1>1. /\ u \in Calls /\ Busy(u) /\ TypeInv /\ call[u].at = "charge" /\ "persist" \in Steps
      /\ LedgerTypeOK /\ Member \in Sources
  BY Parts, BackgroundCheckAssumption DEF ChargeMember, Calls, Busy, Steps, Paying, TypeInv
<1>2. UNCHANGED <<vendor, rowVars, env>> /\ UNCHANGED <<vendor, row, lastRow, stranded>>
  BY DEF ChargeMember, rowVars, faultVars
<1>3. stranded' \in BOOLEAN
  BY <1>1, <1>2 DEF TypeInv
<1>4. CASE Consume(Member) /\ Goto(u, "persist")
  <2>1. LedgerTypeOK'
    <3>1. CASE chargedTo[Member] # NoPot
      <4>1. UNCHANGED ledgerVars
        BY <1>4, <3>1 DEF Consume
      <4>2. QED
        BY <1>1, <3>1, <4>1, SameLedger
    <3>2. CASE chargedTo[Member] = NoPot
      <4>1. PICK pot \in Pots : Charge(Member, pot)
        BY <1>4, <3>2 DEF Consume
      <4>2. QED
        BY <1>1, <4>1, ChargeIs
    <3>3. QED
      BY <3>1, <3>2
  <2>2. Doing(u, "persist", call[u].id, call[u].seen, call[u].check, call[u].found)
    BY <1>1, <1>4, GotoIs
  <2>3. Knows(u)' /\ (~overlap => Serial(u)')
    <3>1. Knows(u) /\ (~overlap => Serial(u))
      BY <1>1, Parts DEF CallInv, SerialInv
    <3>2. QED
      BY <1>1, <1>2, <2>1, <2>2, <3>1 DEF Doing, Knows, Serial, Paying
  <2>4. ChargeBuysCheck'
    <3>1. call'[u].at \in Paying
      BY <2>2 DEF Doing, Paying
    <3>2. QED
      BY <2>1, <3>1 DEF ChargeBuysCheck
  <2>5. QED
    BY <1>1, <1>2, <1>3, <2>1, <2>2, <2>3, <2>4, LedgerFrame DEF Doing
<1>5. CASE Leave(u) /\ UNCHANGED ledgerVars
  <2>1. Doing(u, "idle", 0, None, None, None)
    BY <1>1, <1>5, LeaveIs
  <2>2. Knows(u)' /\ Serial(u)'
    BY <1>1, <2>1, LeftKnows DEF Doing
  <2>3. UNCHANGED <<ledgerVars, vendor, rowVars, env>> /\ call[u].at \notin Paying
    BY <1>1, <1>2, <1>5 DEF Paying
  <2>4. QED
    BY <1>1, <1>2, <1>3, <2>1, <2>2, <2>3, CallFrame DEF Doing
<1>6. QED
  BY <1>4, <1>5 DEF ChargeMember

LEMMA GiveBackStep == ASSUME CheckingInv, NEW u \in Users, GiveBack(u) PROVE CheckingInv'
<1>1. /\ u \in Calls /\ Busy(u) /\ TypeInv /\ call[u].at \in {"giveBack", "giveBackOnly"}
      /\ LedgerTypeOK /\ Member \in Sources /\ "markFailed" \in Steps
  BY Parts, BackgroundCheckAssumption DEF GiveBack, Calls, Busy, Steps, TypeInv
<1>2. UNCHANGED <<vendor, rowVars, env>> /\ UNCHANGED <<vendor, row, lastRow>>
  BY DEF GiveBack, rowVars
<1>3. /\ LedgerTypeOK' /\ chargedTo' = chargedTo /\ stranded' \in BOOLEAN
      /\ Member \in refunded' \/ stranded'
  <2>1. CASE GiveBackOnce(Member) /\ UNCHANGED stranded
    <3>1. CASE Member \in refunded
      <4>1. UNCHANGED ledgerVars
        BY <2>1, <3>1 DEF GiveBackOnce
      <4>2. QED
        BY <1>1, <2>1, <3>1, <4>1, SameLedger DEF TypeInv
    <3>2. CASE Member \notin refunded
      <4>1. Refund(Member)
        BY <2>1, <3>2 DEF GiveBackOnce
      <4>2. QED
        BY <1>1, <2>1, <4>1, RefundIs DEF TypeInv
    <3>3. QED
      BY <3>1, <3>2
  <2>2. CASE stranded' = TRUE /\ UNCHANGED ledgerVars
    BY <1>1, <2>2, SameLedger
  <2>3. QED
    BY <2>1, <2>2 DEF GiveBack
<1>4. ChargeBuysCheck'
  BY <1>2, <1>3, Parts DEF ChargeBuysCheck
<1>5. CASE Goto(u, "markFailed")
  <2>1. Doing(u, "markFailed", call[u].id, call[u].seen, call[u].check, call[u].found)
    BY <1>1, <1>5, GotoIs
  <2>2. Knows(u)' /\ Serial(u)'
    BY <2>1 DEF Doing, Knows, Serial, Paying
  <2>3. QED
    BY <1>1, <1>2, <1>3, <1>4, <2>1, <2>2, LedgerFrame DEF Doing
<1>6. CASE Leave(u)
  <2>1. Doing(u, "idle", 0, None, None, None)
    BY <1>1, <1>6, LeaveIs
  <2>2. Knows(u)' /\ Serial(u)'
    BY <1>1, <2>1, LeftKnows DEF Doing
  <2>3. QED
    BY <1>1, <1>2, <1>3, <1>4, <2>1, <2>2, LedgerFrame DEF Doing
<1>7. QED
  BY <1>5, <1>6 DEF GiveBack

-----------------------------------------------------------------------------
(* The steps at the vendor, and of the organization's other members *)

\* Checks stay where they are or move to a status, a completed one not at all.
Moves == \A c \in Checks :
    /\ vendor'[c] = vendor[c] \/ vendor'[c] \in Statuses
    /\ vendor[c] = "completed" => vendor'[c] = "completed"

\* A step that moves checks, and makes only checks that fit.
LEMMA VendorFrame ==
    ASSUME CheckingInv, NEW p \in Calls, Busy(p), call' \in [Calls -> CallType],
           \A q \in Calls \ {p} : call'[q] = call[q],
           UNCHANGED <<ledgerVars, rowVars, env, stranded>>,
           vendor' \in [Checks -> Statuses \cup {"none"}], Moves,
           NEW m \in Checks,
           \A c \in Checks \ {m} : vendor[c] = "none" => vendor'[c] = "none",
           vendor'[m] # "none" =>
             /\ m[1] <= lastRow
             /\ ~overlap /\ m[1] = row.id => m[2] <= row.attempt + 1,
           (\E u \in Users : call[u].at \in Paying) =>
             (\E u \in Users : call'[u].at \in Paying) \/ vendor'[m] # "none",
           Knows(p)', ~overlap => Serial(p)'
    PROVE  CheckingInv'
<1> USE Parts DEF rowVars, env
<1>1. LedgerTypeOK' /\ chargedTo' = chargedTo /\ refunded' = refunded
  BY SameLedger DEF TypeInv
<1>2. TypeInv'
  BY <1>1 DEF TypeInv
<1>3. \A c \in Checks : vendor[c] # "none" => vendor'[c] # "none"
  BY StatusIs DEF Moves
<1>4. \A c \in Checks : vendor'[c] # "none" => c = m \/ vendor[c] # "none"
  OBVIOUS
<1>5. Grows
  <2>1. lastRow <= lastRow'
    BY CheckIs DEF TypeInv
  <2>2. QED
    BY <1>1, <1>3, <2>1 DEF Grows, Moves
<1>6. RowInv' /\ VendorInv'
  <2>1. row.check # None => row.check \in Checks
    BY RowIs
  <2>2. QED
    BY <1>3, <1>4, <2>1 DEF RowInv, VendorInv
<1>7. ~overlap => Attempts'
  BY <1>4 DEF Attempts, SerialInv
<1>8. ChargeBuysCheck'
  BY <1>1, <1>3 DEF ChargeBuysCheck
<1>9. CompletedIsReal'
  <2>1. row.check # None => row.check \in Checks
    BY RowIs
  <2>2. QED
    BY <2>1 DEF CompletedIsReal, Moves
<1>10. QED
  BY <1>2, <1>5, <1>6, <1>7, <1>8, <1>9, StepFrame

LEMMA CreateAtVendorStep == ASSUME CheckingInv, NEW u \in Users, CreateAtVendor(u) PROVE CheckingInv'
<1> DEFINE m == call[u].check
           f == vendor'[m]
<1>1. /\ u \in Calls /\ Busy(u) /\ TypeInv /\ call[u].at \in {"create", "recreate"}
      /\ vendor \in [Checks -> Statuses \cup {"none"}]
      /\ {"store", "swap", "giveBack", "restore"} \subseteq Steps
  BY Parts DEF CreateAtVendor, Calls, Busy, Steps, Paying, TypeInv
<1>2. /\ UNCHANGED <<ledgerVars, rowVars, env, stranded>> /\ UNCHANGED <<row, lastRow>>
      /\ chargedTo' = chargedTo
  BY DEF CreateAtVendor, rowVars, ledgerVars
<1>3. Knows(u) /\ (~overlap => Serial(u))
  BY <1>1, Parts DEF CallInv, SerialInv
<1>4. m \in Checks /\ m[1] <= lastRow /\ m[2] \in Nat /\ row.attempt \in Nat
  BY <1>1, <1>3, CheckIs, RowIs DEF Knows, Paying
<1>5. ~overlap => m[2] <= row.attempt + 1
  BY <1>1, <1>3, <1>4 DEF Knows, Serial, Paying
<1>6. ASSUME CreateCheck(m)
      PROVE  /\ vendor' \in [Checks -> Statuses \cup {"none"}] /\ Moves
             /\ \A c \in Checks \ {m} : vendor'[c] = vendor[c]
             /\ f \in Statuses
  <2>1. /\ vendor' \in [Checks -> Statuses \cup {"none"}]
        /\ \A c \in Checks \ {m} : vendor'[c] = vendor[c]
        /\ f = IF vendor[m] = "none" THEN "invited" ELSE vendor[m]
    BY <1>1, <1>4, <1>6, StatusIs DEF CreateCheck
  <2>2. f \in Statuses /\ (vendor[m] = "completed" => f = "completed")
    BY <1>1, <1>4, <2>1, StatusIs
  <2>3. Moves
    BY <2>1, <2>2 DEF Moves
  <2>4. QED
    BY <2>1, <2>2, <2>3
<1>7. CASE /\ CreateCheck(m)
           /\ call' = [call EXCEPT ![u].at = IF call[u].at = "create" THEN "store" ELSE "swap",
                                   ![u].found = f]
  <2> DEFINE a == IF call[u].at = "create" THEN "store" ELSE "swap"
  <2>1. Doing(u, a, call[u].id, call[u].seen, m, f)
    <3>1. a \in Steps /\ f \in Statuses
      BY <1>1, <1>6, <1>7
    <3>2. QED
      BY <1>1, <1>7, <3>1, FoundIs
  <2>2. f \in Statuses /\ f # "none"
    BY <1>6, <1>7, StatusIs
  <2>3. Knows(u)' /\ (~overlap => Serial(u)')
    BY <1>1, <1>2, <1>3, <1>4, <2>1, <2>2 DEF Doing, Knows, Serial, Paying
  <2> HIDE DEF m
  <2>4. QED
    BY <1>1, <1>2, <1>4, <1>5, <1>6, <1>7, <2>1, <2>2, <2>3, VendorFrame DEF Doing
<1>8. CASE /\ CreateCheck(m) \/ UNCHANGED vendor
           /\ Goto(u, IF call[u].at = "create" THEN "giveBack" ELSE "restore")
  <2> DEFINE a == IF call[u].at = "create" THEN "giveBack" ELSE "restore"
  <2>1. Doing(u, a, call[u].id, call[u].seen, m, call[u].found)
    <3>1. a \in Steps
      BY <1>1
    <3>2. QED
      BY <1>1, <1>8, <3>1, GotoIs
  <2>2. Knows(u)' /\ (~overlap => Serial(u)')
    BY <1>1, <1>2, <1>3, <1>4, <2>1 DEF Doing, Knows, Serial, Paying
  <2>3. call[u].at \in Paying => call'[u].at \in Paying
    BY <1>1, <2>1 DEF Doing, Paying
  <2>4. /\ vendor' \in [Checks -> Statuses \cup {"none"}] /\ Moves
        /\ \A c \in Checks \ {m} : vendor'[c] = vendor[c]
    <3>1. CASE UNCHANGED vendor
      BY <1>1, <3>1 DEF Moves
    <3>2. QED
      BY <1>6, <1>8, <3>1
  <2>5. (\E v \in Users : call[v].at \in Paying) => (\E v \in Users : call'[v].at \in Paying)
    BY <2>1, <2>3 DEF Doing, Calls
  <2> HIDE DEF m
  <2>6. QED
    BY <1>1, <1>2, <1>4, <1>5, <2>1, <2>2, <2>4, <2>5, VendorFrame DEF Doing
<1>9. QED
  BY <1>7, <1>8 DEF CreateAtVendor

\* A step of the vendor or of other members: no call moves.
LEMMA ElsewhereFrame ==
    ASSUME CheckingInv, UNCHANGED <<rowVars, call, faultVars, env>>,
           vendor' \in [Checks -> Statuses \cup {"none"}], Moves,
           \A c \in Checks : vendor[c] = "none" => vendor'[c] = "none",
           LedgerTypeOK', chargedTo'[Member] = chargedTo[Member], refunded' = refunded
    PROVE  CheckingInv'
<1> USE Parts DEF rowVars, env, faultVars
<1>1. \A c \in Checks : vendor[c] # "none" <=> vendor'[c] # "none"
  BY StatusIs DEF Moves
<1>2. row.check # None => row.check \in Checks
  BY RowIs
<1>3. TypeInv'
  BY DEF TypeInv
<1>4. RowInv' /\ VendorInv'
  BY <1>1, <1>2 DEF RowInv, VendorInv
<1>5. CallInv'
  <2>1. Grows
    <3>1. lastRow <= lastRow'
      BY CheckIs DEF TypeInv
    <3>2. QED
      BY <1>1, <3>1 DEF Grows, Moves
  <2>2. lastRow \in 0..MaxRows /\ lastRow' \in 0..MaxRows
    BY DEF TypeInv
  <2>3. ASSUME NEW q \in Calls PROVE Knows(q)'
    BY <2>1, <2>2, StillKnows
  <2>4. QED
    BY <2>3 DEF CallInv
<1>6. SerialInv'
  BY <1>1 DEF SerialInv, Serial, Attempts
<1>7. ChargeBuysCheck'
  BY <1>1 DEF ChargeBuysCheck
<1>8. CompletedIsReal'
  BY <1>2 DEF CompletedIsReal, Moves
<1>9. QED
  BY <1>3, <1>4, <1>5, <1>6, <1>7, <1>8 DEF CheckingInv

LEMMA ProgressStep ==
    ASSUME CheckingInv, NEW c \in Checks, NEW s \in Statuses, Progress(c, s) PROVE CheckingInv'
<1>1. vendor \in [Checks -> Statuses \cup {"none"}] /\ LedgerTypeOK
  BY Parts DEF TypeInv
<1>2. /\ vendor' = [vendor EXCEPT ![c] = s] /\ vendor[c] \in {"invited", "in_progress"}
      /\ UNCHANGED ledgerVars /\ UNCHANGED <<rowVars, call, faultVars, env>>
  BY DEF Progress, Open
<1>3. /\ vendor' \in [Checks -> Statuses \cup {"none"}] /\ vendor'[c] = s
      /\ \A d \in Checks \ {c} : vendor'[d] = vendor[d]
  BY <1>1, <1>2
<1>4. Moves /\ \A d \in Checks : vendor[d] = "none" => vendor'[d] = "none"
  BY <1>2, <1>3 DEF Moves
<1>5. LedgerTypeOK' /\ chargedTo' = chargedTo /\ refunded' = refunded
  BY <1>1, <1>2, SameLedger
<1>6. QED
  BY <1>2, <1>3, <1>4, <1>5, ElsewhereFrame

LEMMA OtherUseStep == ASSUME CheckingInv, OtherUse PROVE CheckingInv'
<1>1. vendor \in [Checks -> Statuses \cup {"none"}] /\ LedgerTypeOK /\ Member \in Sources
  BY Parts, BackgroundCheckAssumption DEF TypeInv
<1>2. UNCHANGED vendor /\ UNCHANGED <<rowVars, call, faultVars, env>>
  BY DEF OtherUse
<1>3. LedgerTypeOK' /\ chargedTo'[Member] = chargedTo[Member] /\ refunded' = refunded
  <2>1. ASSUME NEW g \in Grants, Grant(g)
        PROVE  LedgerTypeOK' /\ chargedTo'[Member] = chargedTo[Member] /\ refunded' = refunded
    <3>1. GrantPot[g] \in Pots /\ GrantSize[g] \in Nat
      BY LedgerAssumption
    <3>2. funds[GrantPot[g]] + GrantSize[g] \in Nat
      BY <1>1, <3>1 DEF LedgerTypeOK
    <3>3. QED
      BY <1>1, <2>1, <3>1, <3>2 DEF LedgerTypeOK, Grant
  <2>2. ASSUME NEW s \in Sources \ {Member}, NEW pot \in Pots, Charge(s, pot)
        PROVE  LedgerTypeOK' /\ chargedTo'[Member] = chargedTo[Member] /\ refunded' = refunded
    BY <1>1, <2>2, ChargeIs
  <2>3. QED
    BY <2>1, <2>2 DEF OtherUse
<1>4. Moves /\ \A d \in Checks : vendor[d] = "none" => vendor'[d] = "none"
  BY <1>2 DEF Moves
<1>5. QED
  BY <1>1, <1>2, <1>3, <1>4, ElsewhereFrame

-----------------------------------------------------------------------------
(* The invariant *)

LEMMA CheckingInit == Init => CheckingInv
<1> SUFFICES ASSUME Init PROVE CheckingInv
  OBVIOUS
<1>1. /\ vendor = [c \in Checks |-> "none"] /\ row = NoRow /\ lastRow = 0
      /\ call = [p \in Calls |-> Idle] /\ stranded = FALSE /\ misfiled = FALSE
      /\ overlap \in Overlaps /\ LedgerInit
  BY DEF Init
<1>2. /\ 0 \in 0..MaxRows /\ overlap \in BOOLEAN /\ Member \in Sources
  BY <1>1, CheckIs, BackgroundCheckAssumption
<1>3. LedgerTypeOK /\ chargedTo[Member] = NoPot
  BY <1>1, <1>2 DEF LedgerInit, LedgerTypeOK
<1>4. NoRow \in RowType /\ NoRow.id = 0 /\ NoRow.check = None /\ NoRow.status = None
  BY <1>2, NewRowIs
<1>5. \A p \in Calls : call[p] \in CallType /\ call[p].at = "idle"
  BY <1>1, IdleIs
<1>6. TypeInv
  BY <1>1, <1>2, <1>3, <1>4, <1>5 DEF TypeInv
<1>7. RowInv /\ VendorInv
  BY <1>1, <1>4 DEF RowInv, VendorInv
<1>8. CallInv
  BY <1>5 DEF CallInv, Knows, Paying
<1>9. SerialInv
  BY <1>1, <1>5 DEF SerialInv, Serial, Attempts, Paying
<1>10. ChargeBuysCheck
  BY <1>1, <1>3 DEF ChargeBuysCheck
<1>11. CompletedIsReal
  BY <1>1, <1>4, CheckIs, StatusIs DEF CompletedIsReal
<1>12. QED
  BY <1>6, <1>7, <1>8, <1>9, <1>10, <1>11 DEF CheckingInv

LEMMA SameChecking == ASSUME CheckingInv, UNCHANGED vars PROVE CheckingInv'
<1>1. /\ UNCHANGED vendor /\ UNCHANGED <<rowVars, call, faultVars, env>>
      /\ UNCHANGED ledgerVars
  BY DEF vars
<1>2. Moves /\ \A d \in Checks : vendor[d] = "none" => vendor'[d] = "none"
  BY <1>1 DEF Moves
<1>3. vendor \in [Checks -> Statuses \cup {"none"}] /\ LedgerTypeOK
  BY Parts DEF TypeInv
<1>4. LedgerTypeOK' /\ chargedTo' = chargedTo /\ refunded' = refunded
  BY <1>1, <1>3, SameLedger
<1>5. QED
  BY <1>1, <1>2, <1>3, <1>4, ElsewhereFrame

LEMMA CheckingStep == CheckingInv /\ [Next]_vars => CheckingInv'
<1> SUFFICES ASSUME CheckingInv, [Next]_vars PROVE CheckingInv'
  OBVIOUS
<1>1. ASSUME NEW u \in Users, Start(u) PROVE CheckingInv'
  BY <1>1, ClaimStep, StartRetryStep, StartCancelStep, StartAttachStep, DeleteStep DEF Start
<1>2. ASSUME NEW u \in Users, Continue(u) PROVE CheckingInv'
  BY <1>2, ChargeMemberStep, PersistPaymentStep, CreateAtVendorStep, GiveBackStep,
     WriteRowStep, UploadStep DEF Continue
<1>3. ASSUME Poll(Poller) PROVE CheckingInv'
  BY <1>3, SelectStep, FetchStep, ReconcileStep DEF Poll
<1>4. ASSUME Next PROVE CheckingInv'
  BY <1>1, <1>2, <1>3, <1>4, DieStep, DeliverStep, ApplyStep, ProgressStep, OtherUseStep
  DEF Next
<1>5. ASSUME UNCHANGED vars PROVE CheckingInv'
  BY <1>5, SameChecking
<1>6. QED
  BY <1>4, <1>5

\* The strengthening of what this module promises is inductive.
THEOREM CheckingInvariance == Spec => []CheckingInv
<1>1. Init => CheckingInv
  BY CheckingInit
<1>2. CheckingInv /\ [Next]_vars => CheckingInv'
  BY CheckingStep
<1>3. QED
  BY <1>1, <1>2, PTL DEF Spec

\* However requests, retries, deletions, failures and deaths overlap,
\* requestForMember keeps no charge that bought nothing.
THEOREM ChargesBuyChecks == Spec => []ChargeBuysCheck
<1>1. CheckingInv => ChargeBuysCheck
  BY DEF CheckingInv
<1>2. QED
  BY <1>1, CheckingInvariance, PTL

\* A member is shown as completed for a check that is completed, or for a
\* report attached by hand, unless the poller wrote a status beside its check.
THEOREM CompletionsAreReal == Spec => []CompletedIsReal
<1>1. CheckingInv => CompletedIsReal
  BY DEF CheckingInv
<1>2. QED
  BY <1>1, CheckingInvariance, PTL

-----------------------------------------------------------------------------
(* A retry is final *)

\* The row's check, changed: each writer brings a later attempt or the same.
KeepsAttempt ==
    (/\ ~overlap
     /\ row'.id = row.id /\ row.check # None /\ row'.check # None
     /\ row.check[1] = row.id)
        => row'.check[2] >= row.check[2]

LEMMA SameCheckKeeps ==
    ASSUME CheckingInv, row'.check \in {row.check, None}
    PROVE  KeepsAttempt
<1>1. row.check # None => row.check[2] \in Nat
  BY RowIs, CheckIs
<1>2. QED
  BY <1>1 DEF KeepsAttempt

LEMMA WriteRowKeeps == ASSUME CheckingInv, NEW u \in Users, WriteRow(u) PROVE KeepsAttempt
<1> DEFINE o == row
           c == call[u].check
           f == call[u].found
<1>1. u \in Calls /\ (~overlap => Serial(u)) /\ Knows(u)
  BY Parts DEF Calls, SerialInv, CallInv
<1>2. row' = (IF row = NoRow THEN NoRow ELSE Written(u))
      /\ call[u].at \in {"store", "swap", "markFailed", "restore", "cancel"}
  BY DEF WriteRow
<1>3. o \in RowType /\ (o.check # None => o.check \in Checks /\ o.check[2] \in Nat)
  BY RowIs, CheckIs
<1>4. CASE row = NoRow
  BY <1>2, <1>4, SameCheckKeeps
<1>5. CASE row # NoRow /\ call[u].at = "store"
  BY <1>1, <1>5 DEF KeepsAttempt, Serial
<1>6. CASE row # NoRow /\ call[u].at = "swap"
  <2> DEFINE n == [o EXCEPT !.check = c, !.status = f, !.attempt = c[2]]
  <2>1. row' = n
    BY <1>2, <1>6 DEF Written
  <2>2. c \in Checks /\ c[2] \in Nat /\ (~overlap => c[2] = o.attempt + 1)
    BY <1>1, <1>6, CheckIs DEF Knows, Serial
  <2>3. ~overlap /\ o.check # None /\ o.check[1] = o.id => o.check[2] <= o.attempt + 1
    BY <1>3, Parts DEF SerialInv, Attempts, RowInv
  <2> HIDE DEF o, c, f
  <2>4. n.check = c
    BY <1>3 DEF RowType
  <2> HIDE DEF n
  <2>5. QED
    BY <1>3, <2>1, <2>2, <2>3, <2>4 DEF KeepsAttempt, o
<1>7. CASE row # NoRow /\ call[u].at \in {"markFailed", "restore", "cancel"}
  <2>1. PICK s : row' = [o EXCEPT !.status = s]
    BY <1>2, <1>7 DEF Written
  <2> HIDE DEF o
  <2>2. [o EXCEPT !.status = s].check = o.check
    BY <1>3 DEF RowType
  <2>3. row'.check = row.check
    BY <2>1, <2>2 DEF o
  <2>4. QED
    BY <2>3, SameCheckKeeps
<1>8. QED
  BY <1>2, <1>4, <1>5, <1>6, <1>7

\* An event names the check the row already had, or the first one.
LEMMA ApplyKeeps == ASSUME CheckingInv, NEW w \in Workers, Apply(w) PROVE KeepsAttempt
<1> DEFINE o == row
           c == call[w].check
           f == call[w].found
           n == [o EXCEPT !.check = c, !.status = f]
<1>1. w \in Calls /\ (~overlap => o.check \in {None, c})
  BY Parts DEF Calls, SerialInv, Serial, Apply
<1>2. IF row.id = call[w].id THEN row' = n ELSE row' = row
  BY Zenon DEF Apply, WithEvent
<1>3. o \in RowType /\ (o.check # None => o.check[2] \in Nat)
  BY RowIs, CheckIs
<1> HIDE DEF o, c, f
<1>4. n.check = c
  BY <1>3 DEF RowType
<1> HIDE DEF n
<1>5. QED
  BY <1>1, <1>2, <1>3, <1>4 DEF KeepsAttempt, o

\* Every other step keeps the row's check or clears it.
LEMMA ClearedKeeps ==
    ASSUME CheckingInv, row' \in {row, NoRow, NewRow(lastRow + 1)}
    PROVE  KeepsAttempt
<1>1. NoRow.check = None
  BY DEF NoRow
<1>2. NewRow(lastRow + 1).check = None
  BY DEF NewRow, NoRow
<1>3. QED
  BY <1>1, <1>2, SameCheckKeeps

LEMMA UploadKeeps == ASSUME CheckingInv, NEW u \in Users, Upload(u) PROVE KeepsAttempt
<1> DEFINE o == row
           n == [o EXCEPT !.status = "completed", !.attached = TRUE]
<1>1. o \in RowType
  BY RowIs
<1>2. IF row.id = call[u].id THEN row' = n ELSE row' = row
  BY Zenon DEF Upload
<1> HIDE DEF o
<1>3. n.check = o.check
  BY <1>1 DEF RowType
<1> HIDE DEF n
<1>4. row'.check = row.check
  BY <1>2, <1>3 DEF o
<1>5. QED
  BY <1>4, SameCheckKeeps

LEMMA ReconcileKeeps == ASSUME CheckingInv, Reconcile(Poller) PROVE KeepsAttempt
<1> DEFINE o == row
           n == [o EXCEPT !.status = call[Poller].found]
<1>1. o \in RowType
  BY RowIs
<1>2. row' = (IF row.id = call[Poller].id /\ row.status \in Open THEN n ELSE row)
  BY Zenon DEF Reconcile, StillOpen
<1> HIDE DEF o
<1>3. n.check = o.check
  BY <1>1 DEF RowType
<1> HIDE DEF n
<1>4. row'.check = row.check
  BY <1>2, <1>3 DEF o
<1>5. QED
  BY <1>4, SameCheckKeeps

LEMMA NextKeeps == CheckingInv /\ [Next]_vars => [KeepsAttempt]_vars
<1> SUFFICES ASSUME CheckingInv, [Next]_vars PROVE KeepsAttempt
  OBVIOUS
<1>1. ASSUME NEW u \in Users, Start(u) PROVE KeepsAttempt
  <2>1. row' \in {row, NoRow, NewRow(lastRow + 1)}
    BY <1>1 DEF Start, Claim, StartRetry, StartCancel, StartAttach, Delete, rowVars
  <2>2. QED
    BY <2>1, ClearedKeeps
<1>2. ASSUME NEW u \in Users, Continue(u) PROVE KeepsAttempt
  <2>1. CASE ChargeMember(u) \/ PersistPayment(u) \/ CreateAtVendor(u) \/ GiveBack(u)
    <3>1. row' = row
      BY <2>1 DEF ChargeMember, PersistPayment, CreateAtVendor, GiveBack, rowVars
    <3>2. QED
      BY <3>1, ClearedKeeps
  <2>2. QED
    BY <1>2, <2>1, WriteRowKeeps, UploadKeeps DEF Continue
<1>3. ASSUME Poll(Poller) PROVE KeepsAttempt
  <2>1. CASE Select(Poller) \/ Fetch(Poller)
    <3>1. row' = row
      BY <2>1 DEF Select, Fetch, rowVars
    <3>2. QED
      BY <3>1, ClearedKeeps
  <2>2. QED
    BY <1>3, <2>1, ReconcileKeeps DEF Poll
<1>4. ASSUME \/ \E u \in Users : Die(u)
             \/ \E w \in Workers, c \in Checks, s \in Statuses : Deliver(w, c, s)
             \/ \E c \in Checks, s \in Statuses : Progress(c, s)
             \/ OtherUse
             \/ UNCHANGED vars
      PROVE  KeepsAttempt
  <2>1. row' = row
    BY <1>4 DEF Die, Deliver, Progress, OtherUse, rowVars, vars
  <2>2. QED
    BY <2>1, ClearedKeeps
<1>5. ASSUME Next PROVE KeepsAttempt
  BY <1>1, <1>2, <1>3, <1>4, <1>5, ApplyKeeps DEF Next
<1>6. ASSUME UNCHANGED vars PROVE KeepsAttempt
  BY <1>4, <1>6
<1>7. QED
  BY <1>5, <1>6

\* With one operation at a time the row never names the check of an earlier
\* attempt again, however late an event about it is delivered.
THEOREM RetriesAreFinal == Spec => RetryIsFinal
<1>1. CheckingInv /\ [Next]_vars => [KeepsAttempt]_vars
  BY NextKeeps
<1>2. QED
  BY <1>1, CheckingInvariance, PTL DEF Spec, RetryIsFinal, KeepsAttempt
=============================================================================
