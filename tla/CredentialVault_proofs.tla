----------------------- MODULE CredentialVault_proofs -----------------------
(***************************************************************************)
(* The vault keeps the connection's grant, callers that keep within their  *)
(* lease never spoil each other's tokens, and a lease is ended by nobody   *)
(* but its owner or its time, for any number of callers, connectors,       *)
(* tokens and faults.                                                      *)
(***************************************************************************)
EXTENDS CredentialVault, FiniteSetTheorems, TLAPS

\* Tokens a process holds that are not yet in a version.
Pending(p) == call[p].at \in {"number", "insert"}
Keeps(p) == call[p].at \in Storing
Numbers == 1..Len(versions)

\* A process that stores has tokens the provider issued; one about to activate
\* has put them into a version of its own that is not active yet.
StoreInv == \A p \in Processes :
    /\ Keeps(p) => call[p].got \in Tokens /\ call[p].got.access <= issued
    /\ call[p].at = "activate" =>
         /\ call[p].version \in Numbers /\ call[p].version # active
         /\ \A q \in Processes \ {p} :
              call[q].at = "activate" => call[q].version # call[p].version

\* An access token is stored once.
DistinctInv ==
    /\ \A i \in Numbers : versions[i].access <= issued
    /\ \A i, j \in Numbers : i # j => versions[i].access # versions[j].access
    /\ \A p \in Processes, i \in Numbers : Pending(p) => versions[i].access # call[p].got.access
    /\ \A p, q \in Processes : Pending(p) /\ Pending(q) /\ p # q =>
         call[p].got.access # call[q].got.access

\* A token that is being stored works.  If refreshes rotate tokens, each is known
\* to the process that stores it only; otherwise no token ever ceases to work.
LiveInv ==
    /\ \A p \in Processes : Keeps(p) => call[p].got.refresh \in live
    /\ \A p \in Processes : call[p].token <= issued
    /\ rotates =>
         /\ \A i \in Numbers : versions[i].refresh = versions[i].access
         /\ \A p \in Processes : Keeps(p) => call[p].got.refresh = call[p].got.access
         /\ \A p, q \in Processes : Keeps(p) => call[q].token # call[p].got.refresh
    /\ ~rotates => \A i \in Numbers : versions[i].refresh \in live

\* The active token works or a refresh that used it is storing its successor.
SuccessorInv == ~lost =>
    \/ versions[active].refresh \in live
    \/ \E p \in Callers : Keeps(p)

VaultInv == TypeOK /\ StoreInv /\ DistinctInv /\ LiveInv /\ SuccessorInv

\* A caller at work has the lease.
LeaseInv == ~overruns => \A p \in Callers : call[p].at \in Holding => lease = p

\* No caller asks in vain.
RejectedInv == (~overruns /\ ~lost) => \A p \in Callers :
    /\ call[p].at # "mark"
    /\ call[p].at \in {"ask", "askAgain"} => call[p].token \in live

Others(p) == \A q \in Processes \ {p} : call'[q] = call[q]

-----------------------------------------------------------------------------
(* Counting the tokens *)

\* Every version has an access token of its own, so there are no more versions
\* than tokens, and one less while a token is not stored.
LEMMA VersionsCount ==
    ASSUME TypeOK, DistinctInv
    PROVE  /\ Len(versions) <= issued
           /\ \A p \in Processes :
                (Pending(p) /\ call[p].got \in Tokens /\ call[p].got.access <= issued)
                    => Len(versions) + 1 <= issued
<1> DEFINE n == Len(versions)
           f == [i \in 1..n |-> versions[i].access]
           S == {versions[i].access : i \in 1..n}
<1>1. /\ n \in Nat /\ issued \in Nat
      /\ \A i \in 1..n : versions[i].access \in 1..issued
  <2>1. versions \in Seq(Tokens) /\ issued \in 1..MaxTokens
    BY DEF TypeOK
  <2>2. \A i \in 1..n : versions[i] \in Tokens
    BY <2>1
  <2>3. MaxTokens \in Nat
    BY VaultAssumption
  <2>4. QED
    BY <2>1, <2>2, <2>3 DEF DistinctInv, Numbers, Tokens
<1>2. f \in Bijection(1..n, S)
  BY DEF DistinctInv, Numbers, Bijection, Injection, Surjection, IsInjective
<1>3. ExistsBijection(1..n, S)
  BY <1>2 DEF ExistsBijection
<1>4. S \subseteq 1..issued
  BY <1>1
<1> HIDE DEF n, f, S
<1>5. IsFiniteSet(1..n) /\ Cardinality(1..n) = n
  <2>1. /\ IsFiniteSet(1..n)
        /\ Cardinality(1..n) = IF 1 > n THEN 0 ELSE n - 1 + 1
    BY <1>1, FS_Interval
  <2>2. QED
    BY <1>1, <2>1
<1>6. IsFiniteSet(1..issued) /\ Cardinality(1..issued) = issued
  <2>1. /\ IsFiniteSet(1..issued)
        /\ Cardinality(1..issued) = IF 1 > issued THEN 0 ELSE issued - 1 + 1
    BY <1>1, FS_Interval
  <2>2. QED
    BY <1>1, <2>1
<1>7. IsFiniteSet(S) /\ Cardinality(S) = n
  BY <1>3, <1>5, FS_Bijection
<1>8. n <= issued
  BY <1>4, <1>6, <1>7, FS_Subset
<1>9. ASSUME NEW p \in Processes, Pending(p), call[p].got \in Tokens, call[p].got.access <= issued
      PROVE  n + 1 <= issued
  <2> DEFINE a == call[p].got.access
  <2>1. a \in 1..issued
    BY <1>1, <1>9, VaultAssumption DEF Tokens
  <2>2. a \notin S
    BY <1>9 DEF DistinctInv, Numbers, S, n
  <2> HIDE DEF a
  <2>3. IsFiniteSet(S \cup {a}) /\ Cardinality(S \cup {a}) = n + 1
    BY <1>7, <2>2, FS_AddElement
  <2>4. S \cup {a} \subseteq 1..issued
    BY <1>4, <2>1
  <2>5. QED
    BY <1>6, <2>3, <2>4, FS_Subset
<1>10. QED
  BY <1>8, <1>9 DEF n

-----------------------------------------------------------------------------
(* Where a step leaves its process *)

\* Tokens are numbers the provider has reached.
LEMMA TokensTyped ==
    ASSUME VaultInv
    PROVE  /\ issued \in Nat \ {0} /\ issued <= MaxTokens
           /\ \A i \in Numbers : versions[i] \in Tokens /\ versions[i].access <= issued
                                 /\ versions[i].access \in Nat /\ versions[i].refresh \in Nat
           /\ \A p \in Processes : call[p].token \in Nat /\ call[p].token <= issued
           /\ \A p \in Processes : Keeps(p) =>
                /\ call[p].got \in Tokens /\ call[p].got.access <= issued
                /\ call[p].got.access \in Nat /\ call[p].got.refresh \in Nat \ {0}
<1>1. MaxTokens \in Nat /\ TypeOK
  BY VaultAssumption DEF VaultInv
<1>2. issued \in Nat \ {0} /\ issued <= MaxTokens
  BY <1>1 DEF TypeOK
<1>3. \A t \in Tokens : t.access \in Nat /\ t.refresh \in Nat \ {0}
  BY <1>1 DEF Tokens
<1>4. \A i \in Numbers : versions[i] \in Tokens /\ versions[i].access <= issued
  <2>1. versions \in Seq(Tokens)
    BY <1>1 DEF TypeOK
  <2>2. \A i \in Numbers : versions[i] \in Tokens
    BY <2>1 DEF Numbers
  <2>3. QED
    BY <2>2 DEF VaultInv, DistinctInv
<1>5. \A p \in Processes : call[p].token \in Nat /\ call[p].token <= issued
  <2>1. \A p \in Processes : call[p] \in CallType
    BY <1>1 DEF TypeOK
  <2>2. QED
    BY <1>1, <2>1 DEF CallType, VaultInv, LiveInv
<1>6. \A p \in Processes : Keeps(p) => call[p].got \in Tokens /\ call[p].got.access <= issued
  BY DEF VaultInv, StoreInv
<1>7. QED
  BY <1>2, <1>3, <1>4, <1>5, <1>6

LEMMA IdleIs == Idle \in CallType /\ Idle.at = "idle" /\ Idle.token = 0
BY VaultAssumption DEF Idle, CallType, Steps

LEMMA GotoIs ==
    ASSUME TypeOK, NEW p \in Processes, NEW step \in Steps, Goto(p, step)
    PROVE  /\ call' \in [Processes -> CallType]
           /\ call'[p].at = step
           /\ call'[p].token = call[p].token
           /\ call'[p].got = call[p].got
           /\ call'[p].version = call[p].version
           /\ Others(p)
BY DEF TypeOK, Goto, CallType, Others

LEMMA VersionIs ==
    ASSUME TypeOK, NEW p \in Processes, NEW step \in Steps, NEW v \in 0..MaxTokens,
           call' = [call EXCEPT ![p].at = step, ![p].version = v]
    PROVE  /\ call' \in [Processes -> CallType]
           /\ call'[p].at = step
           /\ call'[p].token = call[p].token
           /\ call'[p].got = call[p].got
           /\ call'[p].version = v
           /\ Others(p)
BY DEF TypeOK, CallType, Others

LEMMA TokenIs ==
    ASSUME TypeOK, NEW p \in Processes, NEW step \in Steps, NEW t \in 0..MaxTokens,
           call' = [call EXCEPT ![p].at = step, ![p].token = t]
    PROVE  /\ call' \in [Processes -> CallType]
           /\ call'[p].at = step /\ call'[p].token = t
           /\ Others(p)
<1> DEFINE o == call[p]
           n == [o EXCEPT !.at = step, !.token = t]
<1>1. call \in [Processes -> CallType] /\ o \in CallType
  BY DEF TypeOK
<1>2. call' = [call EXCEPT ![p] = n]
  OBVIOUS
<1> HIDE DEF o
<1>3. n \in CallType /\ n.at = step /\ n.token = t
  BY <1>1 DEF CallType
<1> HIDE DEF n
<1>4. QED
  BY <1>1, <1>2, <1>3 DEF Others

LEMMA GotIs ==
    ASSUME TypeOK, NEW p \in Processes, NEW g \in Tokens,
           \/ call' = [call EXCEPT ![p].at = "number", ![p].got = g]
           \/ call' = [call EXCEPT ![p].at = "number", ![p].token = 0, ![p].got = g]
    PROVE  /\ call' \in [Processes -> CallType]
           /\ call'[p].at = "number" /\ call'[p].token \in {0, call[p].token}
           /\ call'[p].got = g
           /\ Others(p)
<1> DEFINE T == Tokens \cup {None}
           c == call[p]
           d == IF call' = [call EXCEPT ![p].at = "number", ![p].got = g]
                THEN [c EXCEPT !.at = "number", !.got = g]
                ELSE [c EXCEPT !.at = "number", !.token = 0, !.got = g]
           R == [at : Steps, since : 0..MaxTokens, token : 0..MaxTokens, got : T, version : 0..MaxTokens]
<1>1. "number" \in Steps /\ 0 \in 0..MaxTokens /\ g \in T
  BY VaultAssumption DEF Steps, Holding, Storing
<1>2. call' = [call EXCEPT ![p] = d]
  OBVIOUS
<1>3. c \in R
  BY DEF TypeOK, CallType
<1> HIDE DEF T, c
<1>4. d \in R /\ d.at = "number" /\ d.got = g /\ d.token \in {0, c.token}
  BY <1>1, <1>3
<1> HIDE DEF d
<1>5. QED
  BY <1>2, <1>4 DEF TypeOK, CallType, Others, T, c

LEMMA LeaveIs ==
    ASSUME TypeOK, NEW p \in Processes, Leave(p)
    PROVE  /\ call' \in [Processes -> CallType]
           /\ call'[p].at = "idle" /\ call'[p].token = 0
           /\ Others(p)
BY IdleIs DEF TypeOK, Leave, Others

LEMMA FinishIs ==
    ASSUME TypeOK, NEW p \in Processes, Finish(p)
    PROVE  /\ call' \in [Processes -> CallType]
           /\ call'[p].at \in {"idle", "release"}
           /\ call'[p].token \in {0, call[p].token}
           /\ Others(p)
<1>1. CASE Goto(p, "release")
  BY <1>1, GotoIs DEF Steps, Holding
<1>2. CASE Leave(p)
  BY <1>2, LeaveIs
<1>3. QED
  BY <1>1, <1>2 DEF Finish

\* A step that leaves its process neither storing nor with another token, and
\* marks tokens it drops as lost.
LEMMA QuietMove ==
    ASSUME VaultInv, NEW p \in Processes,
           UNCHANGED <<issued, live, versions, active, rotates, overruns>>,
           call' \in [Processes -> CallType], Others(p),
           ~Keeps(p)', call'[p].token \in {0, call[p].token},
           status' \in {"active", "error"}, lease' \in Callers \cup {None},
           faults' \in 0..MaxFaults, lost' \in BOOLEAN,
           lost \/ Keeps(p) => lost'
    PROVE  VaultInv'
<1> USE DEF VaultInv, Others, Keeps, Pending
<1>1. TypeOK'
  <2>1. \A q \in Processes : call'[q].at = "activate" => call'[q] = call[q]
    BY DEF Storing
  <2>2. QED
    BY <2>1 DEF TypeOK
<1>2. StoreInv'
  BY DEF StoreInv, Numbers, Storing
<1>3. DistinctInv'
  BY DEF DistinctInv, Numbers, Storing
<1>4. LiveInv'
  <2>1. issued >= 0
    BY VaultAssumption DEF TypeOK
  <2>2. \A q \in Processes : Keeps(q) => call[q].got.refresh # 0
    BY VaultAssumption DEF StoreInv, Tokens
  <2>3. \A q \in Processes : call'[q].token \in {0, call[q].token}
    OBVIOUS
  <2>4. QED
    BY <2>1, <2>2, <2>3 DEF LiveInv, Numbers, Storing
<1>5. SuccessorInv'
  BY DEF SuccessorInv, Processes
<1>6. QED
  BY <1>1, <1>2, <1>3, <1>4, <1>5

-----------------------------------------------------------------------------
(* The vault's steps *)

LEMMA InitVault == Init => VaultInv
<1> SUFFICES ASSUME Init PROVE VaultInv
  OBVIOUS
<1> DEFINE first == [access |-> 1, refresh |-> 1]
<1>1. /\ first \in Tokens /\ versions = <<first>>
      /\ Len(versions) = 1 /\ versions[1] = first
  BY VaultAssumption DEF Init, Tokens
<1>2. first.access = 1 /\ first.refresh = 1
  OBVIOUS
<1>3. \A p \in Processes : call[p] = Idle
  BY DEF Init
<1> HIDE DEF first
<1>4. \A p \in Processes : ~Keeps(p) /\ ~Pending(p) /\ call[p].at # "activate"
  BY <1>3, IdleIs DEF Keeps, Pending, Storing
<1>5. TypeOK
  <2>1. call \in [Processes -> CallType]
    BY IdleIs DEF Init
  <2>2. versions \in Seq(Tokens)
    BY <1>1
  <2>3. 1 \in 1..MaxTokens /\ 0 \in 0..MaxFaults
    BY VaultAssumption
  <2>4. /\ issued = 1 /\ live = {1} /\ active = 1 /\ status = "active" /\ lease = None
        /\ faults = 0 /\ lost = FALSE /\ rotates \in Rotations /\ overruns \in Overruns
    BY DEF Init
  <2>5. active \in 1..Len(versions) /\ Len(versions) <= issued /\ live \subseteq 1..issued
    BY <1>1, <2>4
  <2>6. QED
    BY <1>4, <2>1, <2>2, <2>3, <2>4, <2>5 DEF TypeOK
<1>6. StoreInv
  BY <1>4 DEF StoreInv
<1>7. DistinctInv
  BY <1>1, <1>2, <1>4 DEF Init, DistinctInv, Numbers
<1>8. LiveInv
  BY <1>1, <1>2, <1>3, <1>4, IdleIs DEF Init, LiveInv, Numbers
<1>9. SuccessorInv
  BY <1>1, <1>2 DEF Init, SuccessorInv
<1>10. QED
  BY <1>5, <1>6, <1>7, <1>8, <1>9 DEF VaultInv

LEMMA FaultType == ASSUME TypeOK, Fault \/ NoFault PROVE faults' \in 0..MaxFaults
BY VaultAssumption DEF TypeOK, Fault, NoFault

\* The steps of refreshOAuthTokens that move no token.
LEMMA QuietSteps ==
    ASSUME VaultInv, NEW p \in Callers,
           Start(p) \/ Acquire(p) \/ Wait(p) \/ Check(p) \/ Mark(p) \/ Release(p)
    PROVE  VaultInv'
<1> USE DEF Keeps, Storing, Holding, Steps
<1>a. TypeOK /\ p \in Processes
  BY DEF VaultInv, Processes
<1>b. /\ status \in {"active", "error"} /\ lease \in Callers \cup {None}
      /\ faults \in 0..MaxFaults /\ lost \in BOOLEAN
      /\ active \in 0..MaxTokens /\ Len(versions) \in 0..MaxTokens
  BY <1>a, VaultAssumption DEF TypeOK
<1>1. CASE Start(p)
  <2>1. /\ call' \in [Processes -> CallType] /\ Others(p)
        /\ call'[p].at = "acquire" /\ call'[p].token = 0
    BY <1>1, <1>a, <1>b, IdleIs DEF Start, TypeOK, CallType, Others
  <2>2. ~Keeps(p) /\ UNCHANGED <<providerVars, vaultVars, lease, faults, lost, env>>
    BY <1>1 DEF Start
  <2>3. QED
    BY <1>a, <1>b, <2>1, <2>2, QuietMove DEF providerVars, vaultVars, env
<1>2. CASE Acquire(p)
  <2>1. /\ call' \in [Processes -> CallType] /\ Others(p)
        /\ call'[p].at \in {"check", "wait", "idle"}
        /\ call'[p].token \in {0, call[p].token}
    BY <1>2, <1>a, GotoIs, LeaveIs DEF Acquire
  <2>2. /\ ~Keeps(p) /\ UNCHANGED <<providerVars, vaultVars, faults, lost, env>>
        /\ lease' \in Callers \cup {None}
    BY <1>2, <1>b DEF Acquire
  <2>3. QED
    BY <1>a, <1>b, <2>1, <2>2, QuietMove DEF providerVars, vaultVars, env
<1>3. CASE Wait(p)
  <2>1. /\ call' \in [Processes -> CallType] /\ Others(p)
        /\ call'[p].at \in {"reused", "idle"}
        /\ call'[p].token \in {0, call[p].token}
    <3>1. CASE call' = [call EXCEPT ![p].at = "reused", ![p].version = active]
      BY <3>1, <1>a, <1>b, VersionIs
    <3>2. CASE Leave(p)
      BY <3>2, <1>a, LeaveIs
    <3>3. QED
      BY <1>3, <3>1, <3>2 DEF Wait
  <2>2. ~Keeps(p) /\ UNCHANGED <<providerVars, vaultVars, lease, faults, lost, env>>
    BY <1>3 DEF Wait
  <2>3. QED
    BY <1>a, <1>b, <2>1, <2>2, QuietMove DEF providerVars, vaultVars, env
<1>4. CASE Check(p)
  <2>1. /\ call' \in [Processes -> CallType] /\ Others(p)
        /\ call'[p].at \in {"reuse", "read"}
        /\ call'[p].token = call[p].token
    <3>1. CASE call' = [call EXCEPT ![p].at = "reuse", ![p].version = active]
      BY <3>1, <1>a, <1>b, VersionIs
    <3>2. CASE Goto(p, "read")
      BY <3>2, <1>a, GotoIs
    <3>3. QED
      BY <1>4, <3>1, <3>2 DEF Check
  <2>2. ~Keeps(p) /\ UNCHANGED <<providerVars, vaultVars, lease, faults, lost, env>>
    BY <1>4 DEF Check
  <2>3. QED
    BY <1>a, <1>b, <2>1, <2>2, QuietMove DEF providerVars, vaultVars, env
<1>5. CASE Mark(p)
  <2>1. /\ call' \in [Processes -> CallType] /\ Others(p)
        /\ call'[p].at = "release" /\ call'[p].token = call[p].token
    BY <1>5, <1>a, GotoIs DEF Mark
  <2>2. /\ ~Keeps(p) /\ status' = "error"
        /\ UNCHANGED <<providerVars, versions, active, lease, faults, lost, env>>
    BY <1>5 DEF Mark
  <2>3. QED
    BY <1>a, <1>b, <2>1, <2>2, QuietMove DEF providerVars, env
<1>6. CASE Release(p)
  <2>1. /\ call' \in [Processes -> CallType] /\ Others(p)
        /\ call'[p].at \in {"reused", "idle"}
        /\ call'[p].token \in {0, call[p].token}
    BY <1>6, <1>a, GotoIs, LeaveIs DEF Release
  <2>2. /\ ~Keeps(p) /\ UNCHANGED <<providerVars, vaultVars, lost, env>>
        /\ lease' \in Callers \cup {None}
        /\ Fault \/ NoFault
    BY <1>6, <1>b DEF Release, Cleared
  <2>3. QED
    BY <1>a, <1>b, <2>1, <2>2, QuietMove, FaultType DEF providerVars, vaultVars, env
<1>7. QED
  BY <1>1, <1>2, <1>3, <1>4, <1>5, <1>6

\* The active token is nobody's to store any more.
LEMMA ReadStep == ASSUME VaultInv, NEW p \in Callers, Read(p) PROVE VaultInv'
<1> USE DEF Keeps, Pending
<1>a. TypeOK /\ StoreInv /\ DistinctInv /\ LiveInv /\ SuccessorInv /\ p \in Processes
  BY DEF VaultInv, Processes
<1> DEFINE t == versions[active].refresh
<1>1. active \in Numbers /\ versions[active] \in Tokens
  BY <1>a DEF TypeOK, Numbers
<1>2. t \in 0..MaxTokens
  BY <1>1, VaultAssumption DEF Tokens
<1>3. t <= issued
  BY <1>a, <1>1, <1>2, VaultAssumption DEF LiveInv, DistinctInv, TypeOK
<1>4. rotates => \A q \in Processes : Keeps(q) => call[q].got.refresh # t
  <2> SUFFICES ASSUME rotates, NEW q \in Processes, Keeps(q) PROVE call[q].got.refresh # t
    OBVIOUS
  <2>1. t = versions[active].access /\ call[q].got.refresh = call[q].got.access
    BY <1>a, <1>1 DEF LiveInv
  <2>2. CASE Pending(q)
    BY <1>a, <1>1, <2>1, <2>2 DEF DistinctInv
  <2>3. CASE call[q].at = "activate"
    <3>1. call[q].version \in Numbers \ {active} /\ versions[call[q].version] = call[q].got
      BY <1>a, <2>3 DEF StoreInv, TypeOK
    <3>2. QED
      BY <1>a, <1>1, <2>1, <3>1 DEF DistinctInv
  <2>4. QED
    BY <2>2, <2>3 DEF Storing
<1>5. call' = [call EXCEPT ![p].at = "ask", ![p].token = t]
  BY DEF Read
<1>6. UNCHANGED <<providerVars, vaultVars, lease, faults, lost, env>> /\ call[p].at = "read"
  BY DEF Read
<1> HIDE DEF t
<1>7. /\ call' \in [Processes -> CallType] /\ Others(p)
      /\ call'[p].at = "ask" /\ call'[p].token = t
  BY <1>a, <1>2, <1>5, TokenIs DEF Steps, Holding
<1> USE <1>6, <1>7 DEF providerVars, vaultVars, env, Others, Storing
<1>8. TypeOK'
  <2>1. \A q \in Processes : call'[q].at = "activate" => call'[q] = call[q]
    OBVIOUS
  <2>2. QED
    BY <1>a, <2>1 DEF TypeOK
<1>9. StoreInv'
  BY <1>a DEF StoreInv, Numbers
<1>10. DistinctInv'
  BY <1>a DEF DistinctInv, Numbers
<1>11. LiveInv'
  BY <1>a, <1>3, <1>4 DEF LiveInv, Numbers
<1>12. SuccessorInv'
  BY <1>a DEF SuccessorInv, Processes
<1>13. QED
  BY <1>8, <1>9, <1>10, <1>11, <1>12 DEF VaultInv

\* A refresh takes no token from a process that stores one.
LEMMA ExchangeIs ==
    ASSUME VaultInv, NEW p \in Processes, Exchange(call[p].token), UNCHANGED rotates
    PROVE  /\ issued \in Nat /\ issued < MaxTokens /\ issued' = issued + 1
           /\ call[p].token \in live /\ live' \subseteq 1..issued'
           /\ \A q \in Processes : Keeps(q) => call[q].got.refresh \in live'
           /\ rotates => issued + 1 \in live'
           /\ ~rotates => live' = live
<1>1. TypeOK /\ LiveInv /\ issued \in Nat
  BY VaultAssumption DEF VaultInv, TypeOK
<1>2. /\ issued < MaxTokens /\ issued' = issued + 1 /\ call[p].token \in live
      /\ rotates => live' = (live \ {call[p].token}) \cup {issued + 1}
      /\ ~rotates => live' = live
  BY DEF Exchange
<1>3. live' \subseteq 1..issued'
  <2>1. live \subseteq 1..(issued + 1) /\ issued + 1 \in 1..(issued + 1)
    BY <1>1 DEF TypeOK
  <2>2. QED
    BY <1>2, <2>1
<1>4. \A q \in Processes : Keeps(q) => call[q].got.refresh \in live'
  BY <1>1, <1>2 DEF LiveInv
<1>5. QED
  BY <1>1, <1>2, <1>3, <1>4

\* A process comes by a token the provider just issued.
LEMMA GrantMove ==
    ASSUME VaultInv, NEW p \in Processes, NEW r \in 1..MaxTokens,
           ~Keeps(p), issued < MaxTokens, issued' = issued + 1,
           live' \subseteq 1..issued', r \in live',
           \A q \in Processes : Keeps(q) => call[q].got.refresh \in live',
           rotates => r = issued + 1,
           ~rotates => live \subseteq live',
           p \in Callers \/ live \subseteq live',
           UNCHANGED <<versions, active, status, lease, lost, rotates, overruns>>,
           faults' \in 0..MaxFaults,
           call' \in [Processes -> CallType], Others(p),
           call'[p].at = "number", call'[p].token \in {0, call[p].token},
           call'[p].got = [access |-> issued + 1, refresh |-> r]
    PROVE  VaultInv'
<1> USE DEF Others, Keeps, Pending, Storing
<1>a. TypeOK /\ StoreInv /\ DistinctInv /\ LiveInv /\ SuccessorInv
  BY DEF VaultInv
<1>b. /\ issued \in Nat \ {0} /\ issued' \in 1..MaxTokens
      /\ call'[p].got.access = issued + 1 /\ call'[p].got.refresh = r
      /\ call'[p].got \in Tokens
  BY <1>a, VaultAssumption DEF TypeOK, Tokens
<1>c. \A i \in Numbers : versions[i] \in Tokens /\ versions[i].access <= issued
                         /\ versions[i].access \in Nat
  BY TokensTyped
<1>d. \A q \in Processes : /\ call[q].token \in Nat /\ call[q].token <= issued
                           /\ Keeps(q) => call[q].got \in Tokens /\ call[q].got.access \in Nat
                                             /\ call[q].got.access <= issued
  BY TokensTyped
<1>e. \A q \in Processes \ {p} : call'[q] = call[q]
  OBVIOUS
<1>1. TypeOK'
  <2>1. \A q \in Processes : call'[q].at = "activate" => call'[q] = call[q]
    BY <1>e
  <2>2. Len(versions) <= issued'
    BY <1>a, <1>b DEF TypeOK
  <2>3. QED
    BY <1>a, <1>b, <2>1, <2>2 DEF TypeOK
<1>2. StoreInv'
  BY <1>a, <1>b, <1>d, <1>e DEF StoreInv, Numbers
<1>3. DistinctInv'
  <2>1. ASSUME NEW i \in Numbers PROVE versions[i].access # issued + 1
    BY <1>b, <1>c
  <2>2. ASSUME NEW q \in Processes, Pending(q) PROVE call[q].got.access # issued + 1
    BY <1>b, <1>d, <2>2
  <2>3. QED
    BY <1>a, <1>b, <1>c, <1>e, <2>1, <2>2 DEF DistinctInv, Numbers
<1>4. LiveInv'
  <2>1. \A q \in Processes : Keeps(q)' => call'[q].got.refresh \in live'
    BY <1>b, <1>e
  <2>2. \A q \in Processes : call'[q].token \in {0, call[q].token}
    BY <1>e
  <2>3. \A q \in Processes : call'[q].token <= issued'
    BY <1>b, <1>d, <2>2
  <2>4. ASSUME rotates
        PROVE  /\ \A q \in Processes : Keeps(q)' => call'[q].got.refresh = call'[q].got.access
               /\ \A q, o \in Processes : Keeps(q)' => call'[o].token # call'[q].got.refresh
    <3>1. \A q \in Processes : Keeps(q)' => call'[q].got.refresh = call'[q].got.access
      BY <1>a, <1>b, <1>e, <2>4 DEF LiveInv
    <3>2. ASSUME NEW q \in Processes, NEW o \in Processes, Keeps(q)'
          PROVE  call'[o].token # call'[q].got.refresh
      <4>1. CASE q = p
        BY <1>b, <1>d, <2>2, <2>4, <4>1
      <4>2. CASE q # p
        BY <1>a, <1>d, <1>e, <2>2, <2>4, <3>2, <4>2, VaultAssumption DEF LiveInv, Tokens
      <4>3. QED
        BY <4>1, <4>2
    <3>3. QED
      BY <3>1, <3>2
  <2>5. QED
    BY <1>a, <2>1, <2>3, <2>4 DEF LiveInv, Numbers
<1>5. SuccessorInv'
  <2>1. CASE p \in Callers
    BY <2>1 DEF SuccessorInv
  <2>2. CASE live \subseteq live'
    BY <1>a, <1>e, <2>2 DEF SuccessorInv, Processes
  <2>3. QED
    BY <2>1, <2>2
<1>6. QED
  BY <1>1, <1>2, <1>3, <1>4, <1>5 DEF VaultInv

LEMMA ConnectStep == ASSUME VaultInv, NEW k \in Connectors, Connect(k) PROVE VaultInv'
<1>a. TypeOK /\ k \in Processes
  BY DEF VaultInv, Processes
<1>1. /\ ~Keeps(k) /\ issued < MaxTokens /\ issued' = issued + 1
      /\ live' = live \cup {issued + 1}
      /\ UNCHANGED <<vaultVars, lease, faults, lost, env>>
  BY DEF Connect, Keeps, Storing
<1>2. issued + 1 \in 1..MaxTokens /\ live' \subseteq 1..issued'
  <2>1. issued \in Nat /\ MaxTokens \in Nat
    BY TokensTyped, VaultAssumption
  <2>2. live \subseteq 1..(issued + 1) /\ issued + 1 \in 1..(issued + 1)
    BY <1>a, <2>1 DEF TypeOK
  <2>3. QED
    BY <1>1, <2>1, <2>2
<1>3. [access |-> issued + 1, refresh |-> issued + 1] \in Tokens
  BY <1>2 DEF Tokens
<1>4. /\ call' \in [Processes -> CallType] /\ Others(k)
      /\ call'[k].at = "number" /\ call'[k].token \in {0, call[k].token}
      /\ call'[k].got = [access |-> issued + 1, refresh |-> issued + 1]
  BY <1>a, <1>3, GotIs DEF Connect
<1>5. faults' \in 0..MaxFaults
  BY <1>a, <1>1 DEF TypeOK
<1>6. \A q \in Processes : Keeps(q) => call[q].got.refresh \in live'
  BY <1>1 DEF VaultInv, LiveInv
<1>7. QED
  BY <1>a, <1>1, <1>2, <1>4, <1>5, <1>6, GrantMove DEF vaultVars, env

LEMMA AskStep == ASSUME VaultInv, NEW p \in Callers, Ask(p) PROVE VaultInv'
<1> DEFINE t == call[p].token
<1>a. TypeOK /\ p \in Processes
  BY DEF VaultInv, Processes
<1>b. /\ ~Keeps(p) /\ UNCHANGED <<vaultVars, lease, env>>
      /\ call[p].at \in {"ask", "askAgain"}
  BY DEF Ask, Keeps, Storing
<1>c. /\ status \in {"active", "error"} /\ lease \in Callers \cup {None}
      /\ lost \in BOOLEAN
  BY <1>a DEF TypeOK
<1>d. ASSUME AfterFailure(p) \/ Goto(p, "mark")
      PROVE  /\ call' \in [Processes -> CallType] /\ Others(p)
             /\ call'[p].at \in {"askAgain", "release", "mark"}
             /\ call'[p].token = t
  BY <1>a, <1>b, <1>d, GotoIs DEF AfterFailure, Steps, Holding
<1>1. CASE /\ Exchange(t) /\ NoFault /\ UNCHANGED lost
           /\ call' = [call EXCEPT ![p].at = "number", ![p].token = 0, ![p].got =
                          [access |-> issued + 1, refresh |-> KeptToken(t)]]
  <2> DEFINE r == KeptToken(t)
             g == [access |-> issued + 1, refresh |-> r]
  <2>1. /\ issued \in Nat /\ issued < MaxTokens /\ issued' = issued + 1
        /\ t \in live /\ live' \subseteq 1..issued'
        /\ \A q \in Processes : Keeps(q) => call[q].got.refresh \in live'
        /\ rotates => issued + 1 \in live'
        /\ ~rotates => live' = live
    BY <1>a, <1>b, <1>1, ExchangeIs DEF env
  <2>2. MaxTokens \in Nat
    BY VaultAssumption
  <2>3. r \in live' /\ (rotates => r = issued + 1)
    BY <2>1 DEF KeptToken
  <2>4. r \in 1..MaxTokens /\ issued + 1 \in 1..MaxTokens
    <3>1. r \in 1..issued'
      BY <2>1, <2>3
    <3>2. QED
      BY <2>1, <2>2, <3>1
  <2>5. g \in Tokens
    BY <2>4 DEF Tokens
  <2>6. /\ call' \in [Processes -> CallType] /\ Others(p)
        /\ call'[p].at = "number" /\ call'[p].token \in {0, call[p].token} /\ call'[p].got = g
    BY <1>a, <1>1, <2>5, GotIs
  <2> HIDE DEF g, r
  <2>7. faults' \in 0..MaxFaults
    BY <1>a, <1>1, FaultType
  <2>8. QED
    BY <1>a, <1>b, <1>1, <2>1, <2>3, <2>4, <2>6, <2>7, GrantMove DEF vaultVars, env, g
<1>2. CASE Exchange(t) /\ Fault /\ lost' = TRUE /\ AfterFailure(p)
  <2>1. /\ issued \in Nat /\ issued < MaxTokens /\ issued' = issued + 1
        /\ t \in live /\ live' \subseteq 1..issued'
        /\ \A q \in Processes : Keeps(q) => call[q].got.refresh \in live'
        /\ rotates => issued + 1 \in live'
        /\ ~rotates => live' = live
    BY <1>a, <1>b, <1>2, ExchangeIs DEF env
  <2>2. faults' \in 0..MaxFaults
    BY <1>a, <1>2, FaultType
  <2> USE <1>a, <1>b, <1>d, <1>2, <2>1 DEF VaultInv, Others, Keeps, Pending, Storing, vaultVars, env
  <2>3. \A q \in Processes : call'[q].at = "activate" => call'[q] = call[q]
    OBVIOUS
  <2>4. TypeOK'
    <3>1. issued' \in 1..MaxTokens /\ Len(versions) <= issued'
      BY VaultAssumption DEF TypeOK
    <3>2. QED
      BY <1>c, <2>2, <2>3, <3>1 DEF TypeOK
  <2>5. StoreInv'
    BY VaultAssumption DEF StoreInv, Numbers, Tokens
  <2>6. DistinctInv'
    <3>1. \A i \in Numbers : versions[i].access \in Nat
      BY TokensTyped
    <3>2. QED
      BY <3>1 DEF DistinctInv, Numbers
  <2>7. LiveInv'
    <3>1. \A q \in Processes : call[q].token \in Nat
      BY TokensTyped
    <3>2. \A q \in Processes : call'[q].token = call[q].token
      OBVIOUS
    <3>3. QED
      BY <3>1, <3>2 DEF LiveInv, Numbers
  <2>8. SuccessorInv'
    BY DEF SuccessorInv
  <2>9. QED
    BY <2>4, <2>5, <2>6, <2>7, <2>8
<1>3. CASE (Fault \/ NoFault) /\ (AfterFailure(p) \/ Goto(p, "mark")) /\ UNCHANGED <<providerVars, lost>>
  <2>1. faults' \in 0..MaxFaults
    BY <1>a, <1>3, FaultType
  <2>2. ~Keeps(p)'
    BY <1>d, <1>3 DEF Keeps, Storing
  <2>3. QED
    BY <1>a, <1>b, <1>c, <1>d, <1>3, <2>1, <2>2, QuietMove DEF providerVars, vaultVars, env
<1>4. QED
  BY <1>1, <1>2, <1>3 DEF Ask

LEMMA NumberStep == ASSUME VaultInv, NEW p \in Processes, Number(p) PROVE VaultInv'
<1> USE DEF Keeps, Pending, Storing
<1>a. TypeOK /\ StoreInv /\ DistinctInv /\ LiveInv /\ SuccessorInv
  BY DEF VaultInv
<1>1. /\ call[p].at = "number"
      /\ UNCHANGED <<providerVars, vaultVars, lease, faults, lost, env>>
  BY DEF Number
<1>2. Len(versions) + 1 \in 0..MaxTokens
  <2>1. Len(versions) + 1 <= issued
    BY <1>a, <1>1, TokensTyped, VersionsCount
  <2>2. Len(versions) \in Nat /\ issued \in Nat /\ issued <= MaxTokens /\ MaxTokens \in Nat
    BY <1>a, TokensTyped, VaultAssumption DEF TypeOK
  <2>3. QED
    BY <2>1, <2>2
<1>3. /\ call' \in [Processes -> CallType] /\ Others(p)
      /\ call'[p].at = "insert" /\ call'[p].token = call[p].token
      /\ call'[p].got = call[p].got
  BY <1>a, <1>2, VersionIs DEF Number, Steps, Holding
<1>4. \A q \in Processes :
        /\ call'[q].token = call[q].token /\ call'[q].got = call[q].got
        /\ Keeps(q)' <=> Keeps(q)
        /\ Pending(q)' <=> Pending(q)
        /\ call'[q].at = "activate" => call'[q] = call[q]
  BY <1>1, <1>3 DEF Others
<1> USE <1>1 DEF providerVars, vaultVars, env
<1>5. TypeOK'
  BY <1>a, <1>3, <1>4 DEF TypeOK
<1>6. StoreInv'
  BY <1>a, <1>4 DEF StoreInv, Numbers
<1>7. DistinctInv'
  BY <1>a, <1>4 DEF DistinctInv, Numbers
<1>8. LiveInv'
  BY <1>a, <1>4 DEF LiveInv, Numbers
<1>9. SuccessorInv'
  BY <1>a, <1>4 DEF SuccessorInv, Processes
<1>10. QED
  BY <1>5, <1>6, <1>7, <1>8, <1>9 DEF VaultInv

LEMMA InsertStep == ASSUME VaultInv, NEW p \in Processes, Insert(p) PROVE VaultInv'
<1> USE DEF Keeps, Pending, Storing
<1>a. TypeOK /\ StoreInv /\ DistinctInv /\ LiveInv /\ SuccessorInv
  BY DEF VaultInv
<1>b. /\ call[p].at = "insert" /\ call[p].got \in Tokens
      /\ UNCHANGED <<providerVars, active, status, lease, faults, env>>
  BY <1>a DEF Insert, StoreInv
<1>c. /\ status \in {"active", "error"} /\ lease \in Callers \cup {None}
      /\ faults \in 0..MaxFaults
  BY <1>a DEF TypeOK
<1>1. CASE NumberFree(p)
  <2> DEFINE n == Len(versions)
             g == call[p].got
  <2>1. versions' = Append(versions, g) /\ Goto(p, "activate") /\ UNCHANGED lost
    BY <1>1 DEF Insert
  <2>2. versions \in Seq(Tokens) /\ n \in Nat
    BY <1>a DEF TypeOK
  <2>3. /\ versions' \in Seq(Tokens) /\ Len(versions') = n + 1
        /\ versions'[n + 1] = g
        /\ \A i \in 1..n : versions'[i] = versions[i]
    BY <1>b, <2>1, <2>2
  <2>4. /\ call' \in [Processes -> CallType] /\ Others(p)
        /\ call'[p].at = "activate" /\ call'[p].token = call[p].token
        /\ call'[p].got = g /\ call'[p].version = n + 1
    BY <1>a, <1>1, <2>1, GotoIs DEF Steps, Holding, NumberFree
  <2>5. n + 1 <= issued
    BY <1>a, <1>b, TokensTyped, VersionsCount
  <2>6. /\ \A q \in Processes \ {p} : call'[q] = call[q]
        /\ \A q \in Processes : call'[q].token = call[q].token /\ call'[q].got = call[q].got
        /\ \A q \in Processes : Keeps(q)' <=> Keeps(q)
        /\ \A q \in Processes : Pending(q)' => Pending(q) /\ q # p
    BY <1>b, <2>4 DEF Others
  <2>7. g.access <= issued /\ g.refresh \in live
    BY <1>a, <1>b DEF StoreInv, LiveInv
  <2> HIDE DEF g
  <2>8. active \in 1..n /\ active # n + 1 /\ versions'[active] = versions[active]
    BY <1>a, <2>2, <2>3 DEF TypeOK
  <2>9. \A q \in Processes \ {p} : call[q].at = "activate" =>
          /\ call[q].version \in 1..n /\ call[q].version # n + 1
          /\ versions'[call[q].version] = call[q].got
    BY <1>a, <2>2, <2>3 DEF StoreInv, TypeOK, Numbers
  <2>10. \A i \in 1..(n + 1) : i \in 1..n \/ i = n + 1
    BY <2>2
  <2>n. n + 1 \in 1..(n + 1) /\ \A i \in 1..n : i \in 1..(n + 1) /\ i # n + 1
    BY <2>2
  <2> HIDE DEF n
  <2> USE <1>b, <2>1, <2>3, <2>4, <2>6, <2>n DEF providerVars, env
  <2>11. TypeOK'
    <3>1. \A q \in Processes : call'[q].at = "activate" => versions'[call'[q].version] = call'[q].got
      BY <2>9
    <3>2. active' \in 1..Len(versions') /\ Len(versions') <= issued'
      BY <2>5, <2>8
    <3>3. QED
      BY <1>a, <3>1, <3>2 DEF TypeOK
  <2>12. StoreInv'
    <3> SUFFICES ASSUME NEW q \in Processes
                 PROVE  /\ Keeps(q)' => call'[q].got \in Tokens /\ call'[q].got.access <= issued
                        /\ call'[q].at = "activate" =>
                             /\ call'[q].version \in 1..(n + 1) /\ call'[q].version # active
                             /\ \A o \in Processes \ {q} :
                                  call'[o].at = "activate" => call'[o].version # call'[q].version
      BY DEF StoreInv, Numbers
    <3>1. Keeps(q)' => call'[q].got \in Tokens /\ call'[q].got.access <= issued
      BY <1>a DEF StoreInv
    <3>2. CASE q = p
      BY <2>8, <2>9, <3>1, <3>2
    <3>3. CASE q # p
      <4>1. call'[q] = call[q]
        BY <3>3
      <4>2. call[q].at = "activate" =>
              /\ call[q].version \in 1..(n + 1) /\ call[q].version # active
              /\ call[q].version # n + 1
        BY <1>a, <2>9, <3>3 DEF StoreInv
      <4>3. ASSUME NEW o \in Processes \ {q}, call[q].at = "activate", call'[o].at = "activate"
            PROVE  call'[o].version # call[q].version
        BY <1>a, <3>3, <4>2, <4>3 DEF StoreInv
      <4>4. QED
        BY <3>1, <4>1, <4>2, <4>3
    <3>4. QED
      BY <3>2, <3>3
  <2>13. DistinctInv'
    <3>1. \A i \in 1..n : versions[i].access # g.access /\ versions[i].access <= issued
      BY <1>a DEF DistinctInv, Numbers, n, g
    <3>2. \A i, j \in 1..(n + 1) : i # j => versions'[i].access # versions'[j].access
      BY <1>a, <2>10, <3>1 DEF DistinctInv, Numbers, n
    <3>3. \A q \in Processes, i \in 1..(n + 1) : Pending(q)' => versions'[i].access # call'[q].got.access
      BY <1>a, <2>10 DEF DistinctInv, Numbers, n, g
    <3>4. \A q, o \in Processes : Pending(q)' /\ Pending(o)' /\ q # o =>
            call'[q].got.access # call'[o].got.access
      BY <1>a DEF DistinctInv
    <3>5. \A i \in 1..(n + 1) : versions'[i].access <= issued
      BY <2>7, <2>10, <3>1
    <3>6. QED
      BY <3>2, <3>3, <3>4, <3>5 DEF DistinctInv, Numbers
  <2>14. LiveInv'
    <3>1. \A q \in Processes : Keeps(q)' => call'[q].got.refresh \in live
      BY <1>a DEF LiveInv
    <3>2. \A q \in Processes : call'[q].token <= issued
      BY <1>a DEF LiveInv
    <3>3. ASSUME rotates
          PROVE  /\ \A i \in 1..(n + 1) : versions'[i].refresh = versions'[i].access
                 /\ \A q \in Processes : Keeps(q)' => call'[q].got.refresh = call'[q].got.access
                 /\ \A q, o \in Processes : Keeps(q)' => call'[o].token # call'[q].got.refresh
      BY <1>a, <2>10, <3>3 DEF LiveInv, Numbers, n, g
    <3>4. ASSUME ~rotates PROVE \A i \in 1..(n + 1) : versions'[i].refresh \in live
      BY <1>a, <2>7, <2>10, <3>4 DEF LiveInv, Numbers, n
    <3>5. QED
      BY <3>1, <3>2, <3>3, <3>4 DEF LiveInv, Numbers
  <2>15. SuccessorInv'
    BY <1>a, <2>8 DEF SuccessorInv, Processes
  <2>16. QED
    BY <2>11, <2>12, <2>13, <2>14, <2>15 DEF VaultInv
<1>2. CASE ~NumberFree(p)
  <2>1. Finish(p) /\ lost' = TRUE /\ UNCHANGED versions
    BY <1>2 DEF Insert
  <2>2. /\ call' \in [Processes -> CallType] /\ Others(p)
        /\ call'[p].at \in {"idle", "release"} /\ call'[p].token \in {0, call[p].token}
    BY <1>a, <2>1, FinishIs
  <2>3. QED
    BY <1>b, <1>c, <2>1, <2>2, QuietMove DEF providerVars, env
<1>3. QED
  BY <1>1, <1>2

\* The active version is the process's own, and its refresh token works.
LEMMA ActivateStep == ASSUME VaultInv, NEW p \in Processes, Activate(p) PROVE VaultInv'
<1> USE DEF Keeps, Pending, Storing
<1>a. TypeOK /\ StoreInv /\ DistinctInv /\ LiveInv /\ SuccessorInv
  BY DEF VaultInv
<1>1. /\ call[p].at = "activate" /\ active' = call[p].version /\ status' = "active"
      /\ Finish(p) /\ UNCHANGED <<providerVars, versions, lease, faults, lost, env>>
  BY DEF Activate
<1>2. /\ active' \in 1..Len(versions) /\ versions[active'] = call[p].got
      /\ call[p].got.refresh \in live
  BY <1>a, <1>1 DEF StoreInv, TypeOK, LiveInv, Numbers
<1>3. /\ call' \in [Processes -> CallType] /\ Others(p)
      /\ call'[p].at \in {"idle", "release"} /\ call'[p].token \in {0, call[p].token}
  BY <1>a, <1>1, FinishIs
<1>4. /\ \A q \in Processes \ {p} : call'[q] = call[q]
      /\ \A q \in Processes : Keeps(q)' => Keeps(q) /\ q # p
      /\ \A q \in Processes : Pending(q)' => Pending(q) /\ q # p
      /\ \A q \in Processes : call'[q].token \in {0, call[q].token}
  BY <1>3 DEF Others
<1> USE <1>1, <1>3, <1>4 DEF providerVars, env
<1>5. TypeOK'
  <2>1. \A q \in Processes : call'[q].at = "activate" => call'[q] = call[q]
    OBVIOUS
  <2>2. QED
    BY <1>a, <1>2, <2>1 DEF TypeOK
<1>6. StoreInv'
  BY <1>a DEF StoreInv, Numbers
<1>7. DistinctInv'
  BY <1>a DEF DistinctInv, Numbers
<1>8. LiveInv'
  <2>1. issued \in Nat /\ \A q \in Processes : Keeps(q) => call[q].got.refresh # 0
    BY TokensTyped
  <2>2. QED
    BY <1>a, <2>1 DEF LiveInv, Numbers
<1>9. SuccessorInv'
  BY <1>2 DEF SuccessorInv
<1>10. QED
  BY <1>5, <1>6, <1>7, <1>8, <1>9 DEF VaultInv

LEMMA DieStep == ASSUME VaultInv, NEW p \in Processes, Die(p) PROVE VaultInv'
<1>1. /\ Leave(p) /\ Fault /\ lost' = (lost \/ Keeps(p))
      /\ UNCHANGED <<providerVars, vaultVars, lease, env>>
  BY DEF Die, Keeps
<1>2. TypeOK
  BY DEF VaultInv
<1>3. /\ call' \in [Processes -> CallType] /\ Others(p)
      /\ call'[p].at = "idle" /\ call'[p].token = 0
  BY <1>1, <1>2, LeaveIs
<1>4. faults' \in 0..MaxFaults /\ ~Keeps(p)'
  BY <1>1, <1>2, <1>3, FaultType DEF Keeps, Storing
<1>5. status \in {"active", "error"} /\ lease \in Callers \cup {None} /\ lost \in BOOLEAN
  BY <1>2 DEF TypeOK
<1>6. lost' \in BOOLEAN /\ (lost \/ Keeps(p) => lost')
  BY <1>1, <1>5
<1>7. QED
  BY <1>1, <1>3, <1>4, <1>5, <1>6, QuietMove DEF providerVars, vaultVars, env

LEMMA SameVault ==
    ASSUME VaultInv, lease' \in Callers \cup {None},
           UNCHANGED <<providerVars, vaultVars, call, faults, lost, env>>
    PROVE  VaultInv'
<1> USE DEF providerVars, vaultVars, env, Keeps, Pending
<1>1. TypeOK' /\ StoreInv'
  BY DEF VaultInv, TypeOK, StoreInv, Numbers
<1>2. DistinctInv'
  BY DEF VaultInv, DistinctInv, Numbers
<1>3. LiveInv' /\ SuccessorInv'
  BY DEF VaultInv, LiveInv, SuccessorInv, Numbers
<1>4. QED
  BY <1>1, <1>2, <1>3 DEF VaultInv

LEMMA VaultStep == VaultInv /\ [Next]_vars => VaultInv'
<1> SUFFICES ASSUME VaultInv, [Next]_vars PROVE VaultInv'
  OBVIOUS
<1>1. ASSUME NEW p \in Callers, Refresh(p) PROVE VaultInv'
  BY <1>1, QuietSteps, ReadStep, AskStep DEF Refresh
<1>2. ASSUME NEW k \in Connectors, Connect(k) PROVE VaultInv'
  BY <1>2, ConnectStep
<1>3. ASSUME NEW p \in Processes, Store(p) PROVE VaultInv'
  BY <1>3, NumberStep, InsertStep, ActivateStep DEF Store
<1>4. ASSUME NEW p \in Processes, Die(p) PROVE VaultInv'
  BY <1>4, DieStep
<1>5. CASE Expire
  BY <1>5, SameVault DEF Expire
<1>6. CASE UNCHANGED vars
  BY <1>6, SameVault DEF vars, VaultInv, TypeOK
<1>7. QED
  BY <1>1, <1>2, <1>3, <1>4, <1>5, <1>6 DEF Next

\* VaultInv is inductive.
THEOREM VaultInvariance == Spec => []VaultInv
<1>1. QED
  BY InitVault, VaultStep, PTL DEF Spec

\* Every variable keeps its type; an activated version holds the tokens of the
\* call that activates it, and there are no more versions than tokens.
THEOREM VaultTypes == Spec => []TypeOK
<1>1. VaultInv => TypeOK
  BY DEF VaultInv
<1>2. QED
  BY <1>1, VaultInvariance, PTL

\* Unless tokens were dropped, the connection's refresh token works or somebody
\* is storing one that does, however leases are outlived and users reconnect.
THEOREM GrantIsKept == Spec => []GrantKept
<1>1. VaultInv => GrantKept
  BY DEF VaultInv, SuccessorInv, LiveInv, Keeps, GrantKept, Processes
<1>2. QED
  BY <1>1, VaultInvariance, PTL

-----------------------------------------------------------------------------
(* The lease *)

\* A lease ends by a step of its owner or by its time.
THEOREM LeaseIsKept == Spec => LeaseKept
<1>1. ASSUME TypeOK, [Next]_vars, lease # None, lease' # lease
      PROVE  call' = call \/ call'[lease] # call[lease]
  <2>1. ASSUME NEW p \in Callers, Acquire(p) PROVE FALSE
    BY <1>1, <2>1 DEF Acquire, LeaseFree
  <2>2. ASSUME NEW p \in Callers, Release(p) PROVE call'[lease] # call[lease]
    <3>1. lease = p /\ p \in Processes
      BY <1>1, <2>2 DEF Release, Cleared, Processes
    <3>2. CASE Goto(p, "reused")
      BY <1>1, <2>2, <3>1, <3>2, GotoIs DEF Release, Steps
    <3>3. CASE Leave(p)
      BY <1>1, <2>2, <3>1, <3>3, LeaveIs DEF Release
    <3>4. QED
      BY <2>2, <3>2, <3>3 DEF Release
  <2>3. ASSUME NEW p \in Callers,
               Start(p) \/ Wait(p) \/ Check(p) \/ Read(p) \/ Ask(p) \/ Mark(p)
        PROVE  FALSE
    BY <1>1, <2>3 DEF Start, Wait, Check, Read, Ask, Mark
  <2>4. ASSUME NEW p \in Processes, Store(p) \/ Die(p) PROVE FALSE
    BY <1>1, <2>4 DEF Store, Number, Insert, Activate, Die
  <2>5. ASSUME NEW k \in Connectors, Connect(k) PROVE FALSE
    BY <1>1, <2>5 DEF Connect
  <2>6. CASE Expire
    BY <2>6 DEF Expire
  <2>7. CASE UNCHANGED vars
    BY <2>7 DEF vars
  <2>8. QED
    BY <1>1, <2>1, <2>2, <2>3, <2>4, <2>5, <2>6, <2>7 DEF Next, Refresh
<1>2. TypeOK /\ [Next]_vars =>
        [(lease # None /\ lease' # lease) => call' = call \/ call'[lease] # call[lease]]_vars
  BY <1>1
<1>3. QED
  BY <1>2, VaultTypes, PTL DEF Spec, LeaseKept

-----------------------------------------------------------------------------
(* Single flight *)

Calm == ~overruns /\ ~lost

\* While calls keep within their lease, one caller works at a time and its token
\* has not been used.
CalmInv == LeaseInv /\ RejectedInv /\ (Calm => status = "active")

\* A step with which nobody gets to work, nor a token that might be spent.
LEMMA CalmMove ==
    ASSUME TypeOK, CalmInv, NEW p \in Processes, Others(p),
           p \in Callers /\ call'[p].at \in Holding => call[p].at \in Holding,
           p \in Callers => call'[p].at # "mark",
           p \in Callers /\ call'[p].at \in {"ask", "askAgain"} =>
               call[p].at \in {"ask", "askAgain"} /\ call'[p].token = call[p].token,
           live \subseteq live', UNCHANGED <<lease, overruns>>, lost => lost',
           status' \in {status, "active"}
    PROVE  CalmInv'
<1>1. LeaseInv'
  BY DEF CalmInv, LeaseInv, Others, Processes
<1>2. RejectedInv'
  BY DEF CalmInv, RejectedInv, Others, Processes
<1>3. Calm' => status' = "active"
  BY DEF CalmInv, Calm
<1>4. QED
  BY <1>1, <1>2, <1>3 DEF CalmInv

\* No two callers work at once.
LEMMA Alone ==
    ASSUME LeaseInv, ~overruns, NEW p \in Callers, NEW q \in Callers,
           call[p].at \in Holding, call[q].at \in Holding
    PROVE  p = q
BY DEF LeaseInv

LEMMA InitCalm == Init => CalmInv
<1> SUFFICES ASSUME Init PROVE CalmInv
  OBVIOUS
<1>1. \A p \in Callers : call[p].at = "idle"
  BY IdleIs DEF Init, Processes
<1>2. QED
  BY <1>1 DEF Init, CalmInv, LeaseInv, RejectedInv, Calm, Holding, Storing

LEMMA CalmStep == VaultInv /\ CalmInv /\ [Next]_vars => CalmInv'
<1> SUFFICES ASSUME VaultInv, CalmInv, [Next]_vars PROVE CalmInv'
  OBVIOUS
<1>a. TypeOK /\ Callers \subseteq Processes /\ Connectors \subseteq Processes
  BY DEF VaultInv, Processes
<1> USE DEF Holding, Storing
<1>1. ASSUME NEW p \in Callers, Start(p) PROVE CalmInv'
  <2>1. call'[p].at = "acquire" /\ Others(p) /\ UNCHANGED <<providerVars, vaultVars, lease, faults, lost, env>>
    BY <1>1, <1>a, IdleIs DEF Start, TypeOK, CallType, Others
  <2>2. QED
    BY <1>a, <2>1, CalmMove DEF providerVars, vaultVars, env
<1>2. ASSUME NEW p \in Callers, Acquire(p) PROVE CalmInv'
  <2> USE <1>2 DEF Acquire, providerVars, vaultVars, env, Steps
  <2>1. CASE LeaseFree /\ lease' = p /\ Goto(p, "check")
    <3>1. call'[p].at = "check" /\ Others(p)
      BY <1>a, <2>1, GotoIs
    <3>2. ~overruns => \A q \in Callers : call[q].at \notin Holding
      BY <2>1, VaultAssumption DEF CalmInv, LeaseInv, LeaseFree
    <3>3. LeaseInv'
      BY <2>1, <3>1, <3>2, <1>a DEF LeaseInv, Others
    <3>4. RejectedInv' /\ (Calm' => status' = "active")
      BY <3>1, <1>a DEF CalmInv, RejectedInv, Calm, Others
    <3>5. QED
      BY <3>3, <3>4 DEF CalmInv
  <2>2. CASE UNCHANGED lease /\ Goto(p, "wait")
    BY <1>a, <2>2, GotoIs, CalmMove
  <2>3. CASE UNCHANGED lease /\ Leave(p)
    BY <1>a, <2>3, LeaveIs, CalmMove
  <2>4. QED
    BY <2>1, <2>2, <2>3
<1>3. ASSUME NEW p \in Callers, Wait(p) PROVE CalmInv'
  <2>1. call'[p].at \in {"reused", "idle"} /\ Others(p)
    <3>1. active \in 0..MaxTokens
      BY <1>a, VaultAssumption DEF TypeOK
    <3>2. CASE Leave(p)
      BY <1>a, <3>2, LeaveIs
    <3>3. CASE call' = [call EXCEPT ![p].at = "reused", ![p].version = active]
      BY <1>a, <3>1, <3>3, VersionIs DEF Steps
    <3>4. QED
      BY <1>3, <3>2, <3>3 DEF Wait
  <2>2. UNCHANGED <<providerVars, vaultVars, lease, faults, lost, env>>
    BY <1>3 DEF Wait
  <2>3. QED
    BY <1>a, <2>1, <2>2, CalmMove DEF providerVars, vaultVars, env
<1>4. ASSUME NEW p \in Callers, Check(p) PROVE CalmInv'
  <2>1. call'[p].at \in {"reuse", "read"} /\ Others(p)
    <3>1. active \in 0..MaxTokens
      BY <1>a, VaultAssumption DEF TypeOK
    <3>2. CASE Goto(p, "read")
      BY <1>a, <3>2, GotoIs DEF Steps
    <3>3. CASE call' = [call EXCEPT ![p].at = "reuse", ![p].version = active]
      BY <1>a, <3>1, <3>3, VersionIs DEF Steps
    <3>4. QED
      BY <1>4, <3>2, <3>3 DEF Check
  <2>2. call[p].at = "check" /\ UNCHANGED <<providerVars, vaultVars, lease, faults, lost, env>>
    BY <1>4 DEF Check
  <2>3. QED
    BY <1>a, <2>1, <2>2, CalmMove DEF providerVars, vaultVars, env
<1>5. ASSUME NEW p \in Callers, Read(p) PROVE CalmInv'
  <2> DEFINE t == versions[active].refresh
  <2>1. /\ call[p].at = "read" /\ call' = [call EXCEPT ![p].at = "ask", ![p].token = t]
        /\ UNCHANGED <<providerVars, vaultVars, lease, faults, lost, env>>
    BY <1>5 DEF Read
  <2>2. t \in 0..MaxTokens
    <3>1. versions[active] \in Tokens
      BY <1>a, TokensTyped DEF TypeOK, Numbers
    <3>2. QED
      BY <3>1, VaultAssumption DEF Tokens
  <2>3. Calm => t \in live
    <3> SUFFICES ASSUME Calm, t \notin live PROVE FALSE
      OBVIOUS
    <3>1. PICK q \in Callers : Keeps(q)
      BY DEF VaultInv, SuccessorInv, Calm
    <3>2. p = q
      BY <2>1, <3>1, Alone DEF CalmInv, Calm, Keeps
    <3>3. QED
      BY <2>1, <3>1, <3>2 DEF Keeps
  <2> HIDE DEF t
  <2>4. call'[p].at = "ask" /\ call'[p].token = t /\ Others(p)
    BY <1>a, <2>1, <2>2, TokenIs DEF Steps
  <2> USE <1>a, <2>1, <2>4 DEF CalmInv, providerVars, vaultVars, env, Others
  <2>5. LeaseInv'
    BY DEF LeaseInv
  <2>6. RejectedInv'
    <3> SUFFICES ASSUME Calm, NEW q \in Callers
                 PROVE  /\ call'[q].at # "mark"
                        /\ call'[q].at \in {"ask", "askAgain"} => call'[q].token \in live
      BY DEF RejectedInv, Calm
    <3>1. CASE q = p
      BY <2>3, <3>1
    <3>2. CASE q # p
      BY <3>2 DEF RejectedInv, Calm
    <3>3. QED
      BY <3>1, <3>2
  <2>7. QED
    BY <2>5, <2>6 DEF Calm
<1>6. ASSUME NEW p \in Callers, Ask(p) PROVE CalmInv'
  <2> DEFINE t == call[p].token
  <2>1. /\ call[p].at \in {"ask", "askAgain"}
        /\ UNCHANGED <<vaultVars, lease, env>>
    BY <1>6 DEF Ask
  <2>2. CASE /\ Exchange(t) /\ NoFault /\ UNCHANGED lost
             /\ call' = [call EXCEPT ![p].at = "number", ![p].token = 0, ![p].got =
                            [access |-> issued + 1, refresh |-> KeptToken(t)]]
    <3>1. call'[p].at = "number" /\ Others(p)
      <4>1. \A q \in Processes \ {p} : call'[q] = call[q]
        BY <2>2, <1>a DEF TypeOK
      <4>2. call'[p].at = "number"
        BY <2>2, <1>a DEF TypeOK, CallType
      <4>3. QED
        BY <4>1, <4>2 DEF Others
    <3>2. ~overruns => \A q \in Callers \ {p} : call[q].at \notin Holding
      BY <2>1, Alone DEF CalmInv
    <3> USE <1>a, <2>1, <2>2, <3>1 DEF CalmInv, vaultVars, env, Others
    <3>3. LeaseInv'
      BY DEF LeaseInv
    <3>4. RejectedInv'
      BY <3>2 DEF RejectedInv
    <3>5. QED
      BY <3>3, <3>4 DEF Calm
  <2>3. CASE Exchange(t) /\ Fault /\ lost' = TRUE /\ AfterFailure(p)
    <3>1. call'[p].at \in {"askAgain", "release"} /\ Others(p)
      BY <1>a, <2>3, GotoIs DEF AfterFailure, Steps
    <3> USE <1>a, <2>1, <2>3, <3>1 DEF CalmInv, vaultVars, env, Others
    <3>2. LeaseInv'
      BY DEF LeaseInv
    <3>3. RejectedInv' /\ (Calm' => status' = "active")
      BY DEF RejectedInv, Calm
    <3>4. QED
      BY <3>2, <3>3
  <2>4. CASE AfterFailure(p) /\ UNCHANGED <<providerVars, lost>>
    <3>1. /\ call'[p].at \in {"askAgain", "release"} /\ call'[p].token = call[p].token
          /\ Others(p)
      BY <1>a, <2>4, GotoIs DEF AfterFailure, Steps
    <3>2. QED
      BY <1>a, <2>1, <2>4, <3>1, CalmMove DEF providerVars, vaultVars, env
  <2>5. CASE t \notin live /\ Goto(p, "mark") /\ UNCHANGED <<providerVars, lost>>
    <3>1. ~Calm
      BY <2>1, <2>5 DEF CalmInv, RejectedInv, Calm
    <3>2. call'[p].at = "mark" /\ Others(p)
      BY <1>a, <2>5, GotoIs DEF Steps
    <3> USE <1>a, <2>1, <2>5, <3>1, <3>2 DEF CalmInv, vaultVars, env, Others
    <3>3. LeaseInv'
      BY DEF LeaseInv
    <3>4. RejectedInv' /\ (Calm' => status' = "active")
      BY DEF RejectedInv, Calm
    <3>5. QED
      BY <3>3, <3>4
  <2>6. QED
    BY <1>6, <2>2, <2>3, <2>4, <2>5 DEF Ask
<1>7. ASSUME NEW p \in Callers, Mark(p) PROVE CalmInv'
  <2>1. ~Calm
    BY <1>7 DEF Mark, CalmInv, RejectedInv, Calm
  <2>2. /\ call[p].at = "mark" /\ call'[p].at = "release" /\ Others(p)
        /\ UNCHANGED <<providerVars, versions, active, lease, faults, lost, env>>
    BY <1>a, <1>7, GotoIs DEF Mark, Steps
  <2> USE <1>a, <2>1, <2>2 DEF CalmInv, env, Others
  <2>3. LeaseInv'
    BY DEF LeaseInv
  <2>4. RejectedInv' /\ (Calm' => status' = "active")
    BY DEF RejectedInv, Calm
  <2>5. QED
    BY <2>3, <2>4
<1>8. ASSUME NEW p \in Callers, Release(p) PROVE CalmInv'
  <2>1. call'[p].at \in {"reused", "idle"} /\ Others(p)
    BY <1>a, <1>8, GotoIs, LeaveIs DEF Release, Steps
  <2>2. /\ call[p].at \in {"release", "reuse"} /\ lease' \in {lease, Cleared(p)}
        /\ UNCHANGED <<providerVars, vaultVars, lost, env>>
    BY <1>8 DEF Release
  <2>3. ~overruns => \A q \in Callers \ {p} : call[q].at \notin Holding
    BY <2>2, Alone DEF CalmInv
  <2> USE <1>a, <2>1, <2>2 DEF CalmInv, providerVars, vaultVars, env, Others
  <2>4. LeaseInv'
    BY <2>3 DEF LeaseInv
  <2>5. RejectedInv' /\ (Calm' => status' = "active")
    BY DEF RejectedInv, Calm
  <2>6. QED
    BY <2>4, <2>5
<1>9. ASSUME NEW k \in Connectors, Connect(k) PROVE CalmInv'
  <2>1. k \notin Callers /\ Others(k)
    BY <1>a, <1>9, VaultAssumption DEF Connect, Others, TypeOK
  <2>2. live \subseteq live' /\ UNCHANGED <<vaultVars, lease, lost, env>>
    BY <1>9 DEF Connect
  <2>3. QED
    BY <1>a, <2>1, <2>2, CalmMove DEF vaultVars, env
<1>10. ASSUME NEW p \in Processes, Number(p) PROVE CalmInv'
  <2>1. /\ call[p].at = "number"
        /\ UNCHANGED <<providerVars, vaultVars, lease, faults, lost, env>>
        /\ \A q \in Processes \ {p} : call'[q] = call[q]
        /\ call'[p].at = "insert"
    BY <1>a, <1>10 DEF Number, TypeOK, CallType
  <2>2. QED
    BY <1>a, <2>1, CalmMove DEF providerVars, vaultVars, env, Others
<1>11. ASSUME NEW p \in Processes, Insert(p) \/ Activate(p) PROVE CalmInv'
  <2>1. /\ call[p].at \in {"insert", "activate"} /\ status' \in {status, "active"}
        /\ lost => lost'
        /\ UNCHANGED <<providerVars, lease, faults, env>>
    BY <1>11 DEF Insert, Activate
  <2>2. call'[p].at \in {"activate", "release", "idle"} /\ Others(p)
    <3>1. CASE Goto(p, "activate")
      BY <1>a, <3>1, GotoIs DEF Steps
    <3>2. CASE Finish(p)
      BY <1>a, <3>2, FinishIs
    <3>3. QED
      BY <1>11, <3>1, <3>2 DEF Insert, Activate
  <2>3. QED
    BY <1>a, <2>1, <2>2, CalmMove DEF providerVars, env
<1>12. ASSUME NEW p \in Processes, Die(p) PROVE CalmInv'
  <2>1. call'[p].at = "idle" /\ Others(p) /\ (lost => lost')
        /\ UNCHANGED <<providerVars, vaultVars, lease, env>>
    BY <1>a, <1>12, LeaveIs DEF Die
  <2>2. QED
    BY <1>a, <2>1, CalmMove DEF providerVars, vaultVars, env
<1>13. CASE Expire
  <2>1. ~overruns => \A p \in Callers : call[p].at \notin Holding
    BY <1>13 DEF Expire, CalmInv, LeaseInv
  <2>2. QED
    BY <1>13, <2>1 DEF Expire, CalmInv, LeaseInv, RejectedInv, Calm, providerVars, vaultVars, env
<1>14. CASE UNCHANGED vars
  BY <1>14 DEF vars, CalmInv, LeaseInv, RejectedInv, Calm, providerVars, vaultVars, env
<1>15. QED
  BY <1>1, <1>2, <1>3, <1>4, <1>5, <1>6, <1>7, <1>8, <1>9, <1>10, <1>11, <1>12, <1>13, <1>14
  DEF Next, Refresh, Store

\* Unless a call outlived its lease or tokens were dropped, the connection is
\* never marked as expired: no caller uses a token another has used up.
THEOREM NoNeedlessErrors == Spec => []NoNeedlessError
<1>1. CalmInv => NoNeedlessError
  BY DEF CalmInv, NoNeedlessError, Calm
<1>2. QED
  BY <1>1, InitCalm, CalmStep, VaultInvariance, PTL DEF Spec
=============================================================================
