--------------------------- MODULE CredentialVault ---------------------------
(***************************************************************************)
(* OAuth token refresh of one connection (apps/api/src/integration-        *)
(* platform: CredentialVaultService and its repositories).  Concurrent     *)
(* callers take a lease in the database, one of them exchanges the refresh *)
(* token at the provider and stores a new credential version, the others   *)
(* wait and reuse it; a user who reconnects stores a version without the   *)
(* lease.  Versions are never many enough here for the old ones to be      *)
(* deleted (the code keeps five), and every grant has a refresh token.     *)
(***************************************************************************)
EXTENDS Naturals, Sequences

CONSTANTS
    Callers,    \* calls of refreshOAuthTokens
    Connectors, \* users completing an OAuth flow
    None,       \* no caller, no tokens
    MaxTokens,  \* bound: tokens the provider issues
    MaxFaults,  \* bound: deaths, lost requests and answers, failed releases
    Rotations,  \* does a refresh consume its token?  one or both of TRUE, FALSE
    Overruns    \* may a call outlive its lease?  one or both of TRUE, FALSE

ASSUME VaultAssumption ==
    /\ None \notin Callers
    /\ Callers \cap Connectors = {}
    /\ MaxTokens \in Nat \ {0} /\ MaxFaults \in Nat
    /\ Rotations \subseteq BOOLEAN /\ Overruns \subseteq BOOLEAN

VARIABLES
    issued,     \* how many tokens the provider has issued; a token is its number
    live,       \* the refresh tokens it accepts
    versions,   \* the credential versions, in the order of their numbers
    active,     \* the connection's activeCredentialVersionId
    status,     \* the connection's status
    lease,      \* the caller that holds the refresh lease
    call,       \* where each process is, and what it knows
    faults,     \* faults so far
    lost,       \* were tokens the provider issued dropped before they were active?
    rotates,    \* chosen once, from Rotations
    overruns    \* chosen once, from Overruns

providerVars == <<issued, live>>
vaultVars == <<versions, active, status>>
env == <<rotates, overruns>>
vars == <<providerVars, vaultVars, lease, call, faults, lost, env>>

Processes == Callers \cup Connectors

\* Tokens of one answer: the access token and the refresh token to keep.
Tokens == [access : 1..MaxTokens, refresh : 1..MaxTokens]

\* A call knows how many versions there were when it started (startedAt), the
\* refresh token it read, the tokens it was given, and the version it is about.
Idle == [at |-> "idle", since |-> 0, token |-> 0, got |-> None, version |-> 0]

Storing == {"number", "insert", "activate"}
Holding == Storing \cup {"check", "read", "ask", "askAgain", "mark", "release", "reuse"}
Steps == Holding \cup {"idle", "acquire", "wait", "reused"}

Fault == faults < MaxFaults /\ faults' = faults + 1
NoFault == UNCHANGED faults

Goto(p, step) == call' = [call EXCEPT ![p].at = step]
Leave(p) == call' = [call EXCEPT ![p] = Idle]

\* A caller goes on to release its lease, a connector has none.
Finish(p) == IF p \in Callers THEN Goto(p, "release") ELSE Leave(p)

-----------------------------------------------------------------------------
(* refreshOAuthTokens *)

\* Forced, or because the latest version is about to expire.
Start(p) ==
    /\ call[p].at \in {"idle", "reused"}
    /\ call' = [call EXCEPT ![p] = [Idle EXCEPT !.at = "acquire",
                                                !.since = Len(versions)]]
    /\ UNCHANGED <<providerVars, vaultVars, lease, faults, lost, env>>

\* Variant: the lease is taken whoever has it.
Anyway == TRUE

\* The WHERE clause of acquireRefreshLease; an expired lease is none.
LeaseFree == lease = None

\* Without the lease the caller waits; when the database fails it answers the
\* stored token.
Acquire(p) ==
    /\ call[p].at = "acquire"
    /\ \/ LeaseFree /\ lease' = p /\ Goto(p, "check")
       \/ ~LeaseFree /\ UNCHANGED lease /\ Goto(p, "wait")
       \/ UNCHANGED lease /\ Leave(p)
    /\ UNCHANGED <<providerVars, vaultVars, faults, lost, env>>

\* tokenRefreshedSince: a version created after the call began.
RefreshedSince(p) == Len(versions) > call[p].since

\* awaitConcurrentRefresh: the peer's token, or after twenty looks the stored one.
Wait(p) ==
    /\ call[p].at = "wait"
    /\ \/ /\ RefreshedSince(p)
          /\ call' = [call EXCEPT ![p].at = "reused", ![p].version = active]
       \/ Leave(p)
    /\ UNCHANGED <<providerVars, vaultVars, lease, faults, lost, env>>

\* A peer may have finished before the lease was acquired.
Check(p) ==
    /\ call[p].at = "check"
    /\ IF RefreshedSince(p)
       THEN call' = [call EXCEPT ![p].at = "reuse", ![p].version = active]
       ELSE Goto(p, "read")
    /\ UNCHANGED <<providerVars, vaultVars, lease, faults, lost, env>>

\* getRefreshToken reads the active version.
Read(p) ==
    /\ call[p].at = "read"
    /\ call' = [call EXCEPT ![p].at = "ask", ![p].token = versions[active].refresh]
    /\ UNCHANGED <<providerVars, vaultVars, lease, faults, lost, env>>

-----------------------------------------------------------------------------
(* attemptTokenRefresh, performTokenRefresh *)

\* The provider answers with a new access token and, if it rotates, with a new
\* refresh token in place of the old.
Exchange(t) ==
    /\ t \in live /\ issued < MaxTokens
    /\ issued' = issued + 1
    /\ live' = IF rotates THEN (live \ {t}) \cup {issued + 1} ELSE live

\* Variant: the refresh token of the answer is not kept.
OldToken(t) == t

\* tokens.refresh_token || refreshToken
KeptToken(t) == IF rotates THEN issued + 1 ELSE t

AfterFailure(p) == Goto(p, IF call[p].at = "ask" THEN "askAgain" ELSE "release")

\* One request: answered; answered in vain; not received, or refused for the
\* bound; rejected, which is terminal.  A second one follows the first failure.
Ask(p) ==
    LET t == call[p].token IN
    /\ call[p].at \in {"ask", "askAgain"}
    /\ \/ /\ Exchange(t) /\ NoFault /\ UNCHANGED lost
          /\ call' = [call EXCEPT ![p].at = "number", ![p].token = 0, ![p].got =
                         [access |-> issued + 1, refresh |-> KeptToken(t)]]
       \/ /\ Exchange(t) /\ Fault /\ lost' = TRUE
          /\ AfterFailure(p)
       \/ /\ Fault \/ (t \in live /\ issued = MaxTokens /\ NoFault)
          /\ AfterFailure(p)
          /\ UNCHANGED <<providerVars, lost>>
       \/ /\ t \notin live /\ NoFault /\ Goto(p, "mark")
          /\ UNCHANGED <<providerVars, lost>>
    /\ UNCHANGED <<vaultVars, lease, env>>

\* markTerminalTokenRefreshFailure
Mark(p) ==
    /\ call[p].at = "mark"
    /\ status' = "error"
    /\ Goto(p, "release")
    /\ UNCHANGED <<providerVars, versions, active, lease, faults, lost, env>>

-----------------------------------------------------------------------------
(* storeOAuthTokens, by a caller or a connector *)

\* A completed OAuth flow: a new grant, stored without the lease.
Connect(k) ==
    /\ call[k].at = "idle" /\ issued < MaxTokens
    /\ issued' = issued + 1
    /\ live' = live \cup {issued + 1}
    /\ call' = [call EXCEPT ![k].at = "number",
                    ![k].got = [access |-> issued + 1, refresh |-> issued + 1]]
    /\ UNCHANGED <<vaultVars, lease, faults, lost, env>>

\* The latest version is read for the next number.
Number(p) ==
    /\ call[p].at = "number"
    /\ call' = [call EXCEPT ![p].at = "insert", ![p].version = Len(versions) + 1]
    /\ UNCHANGED <<providerVars, vaultVars, lease, faults, lost, env>>

\* Variant: a number taken meanwhile is not an error.
NumberIgnored(p) == TRUE

\* The number is unique for the connection.
NumberFree(p) == call[p].version = Len(versions) + 1

\* A number taken meanwhile throws, and the tokens are gone.
Insert(p) ==
    /\ call[p].at = "insert"
    /\ IF NumberFree(p)
       THEN /\ versions' = Append(versions, call[p].got)
            /\ Goto(p, "activate") /\ UNCHANGED lost
       ELSE Finish(p) /\ lost' = TRUE /\ UNCHANGED versions
    /\ UNCHANGED <<providerVars, active, status, lease, faults, env>>

Activate(p) ==
    /\ call[p].at = "activate"
    /\ active' = call[p].version
    /\ status' = "active"
    /\ Finish(p)
    /\ UNCHANGED <<providerVars, versions, lease, faults, lost, env>>

-----------------------------------------------------------------------------
(* The lease *)

\* Variant: the owner is not compared.
Unowned(p) == None

\* Only the owner's lease is cleared.
Cleared(p) == IF lease = p THEN None ELSE lease

\* A failed release is logged.
Release(p) ==
    /\ call[p].at \in {"release", "reuse"}
    /\ \/ lease' = Cleared(p) /\ NoFault
       \/ Fault /\ UNCHANGED lease
    /\ IF call[p].at = "reuse" THEN Goto(p, "reused") ELSE Leave(p)
    /\ UNCHANGED <<providerVars, vaultVars, lost, env>>

\* The lease runs out: its owner is dead, failed to release it, or is slow.
Expire ==
    /\ lease # None
    /\ overruns \/ call[lease].at \notin Holding
    /\ lease' = None
    /\ UNCHANGED <<providerVars, vaultVars, call, faults, lost, env>>

\* The process ends.
Die(p) ==
    /\ call[p].at \notin {"idle", "reused"} /\ Fault
    /\ Leave(p)
    /\ lost' = (lost \/ call[p].at \in Storing)
    /\ UNCHANGED <<providerVars, vaultVars, lease, env>>

-----------------------------------------------------------------------------
Init ==
    /\ issued = 1 /\ live = {1}
    /\ versions = <<[access |-> 1, refresh |-> 1]>>
    /\ active = 1 /\ status = "active"
    /\ lease = None
    /\ call = [p \in Processes |-> Idle]
    /\ faults = 0 /\ lost = FALSE
    /\ rotates \in Rotations /\ overruns \in Overruns

Refresh(p) ==
    \/ Start(p) \/ Acquire(p) \/ Wait(p) \/ Check(p) \/ Read(p)
    \/ Ask(p) \/ Mark(p) \/ Release(p)

Store(p) == Number(p) \/ Insert(p) \/ Activate(p)

Next ==
    \/ \E p \in Callers : Refresh(p)
    \/ \E k \in Connectors : Connect(k)
    \/ \E p \in Processes : Store(p) \/ Die(p)
    \/ Expire

Spec == Init /\ [][Next]_vars

-----------------------------------------------------------------------------
(* Properties *)

CallType ==
    [at : Steps, since : 0..MaxTokens, token : 0..MaxTokens,
     got : Tokens \cup {None}, version : 0..MaxTokens]

\* Every variable has its type; the active version exists, and a call about to
\* activate a version activates the one that holds its own tokens.
TypeOK ==
    /\ issued \in 1..MaxTokens
    /\ live \subseteq 1..issued
    /\ versions \in Seq(Tokens) /\ Len(versions) <= issued
    /\ active \in 1..Len(versions)
    /\ status \in {"active", "error"}
    /\ lease \in Callers \cup {None}
    /\ call \in [Processes -> CallType]
    /\ \A p \in Processes :
         call[p].at = "activate" => versions[call[p].version] = call[p].got
    /\ faults \in 0..MaxFaults
    /\ lost \in BOOLEAN
    /\ rotates \in Rotations /\ overruns \in Overruns

\* The grant is kept: unless a fault or a number conflict dropped tokens, the
\* connection's refresh token works at the provider, or a process that has the
\* token in its place is storing it -- even when leases are outlived and users
\* reconnect in between.
GrantKept == ~lost =>
    \/ versions[active].refresh \in live
    \/ \E p \in Processes : call[p].at \in Storing /\ call[p].got.refresh \in live

\* Single flight: while no call outlives its lease and no tokens were dropped,
\* callers never make the provider reject a token another of them has used, so
\* no connection is marked as expired.
NoNeedlessError == (~overruns /\ ~lost) => status = "active"

\* "a holder whose work outlived the TTL must not wipe a lease another worker
\* has since acquired": a lease ends by its owner's step or by its time.
LeaseKept == [][
    (lease # None /\ lease' # lease) => call' = call \/ call'[lease] # call[lease]
    ]_vars
=============================================================================
