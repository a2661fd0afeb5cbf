------------------------ MODULE BillingCredits_proofs ------------------------
(***************************************************************************)
(* The wallet's counters agree with its events, its answers are true, and  *)
(* it implements the abstract ledger, for any number of callers, scopes,   *)
(* sources and grants.                                                     *)
(***************************************************************************)
EXTENDS BillingCredits, FiniteSetTheorems, TLAPS

\* A call past its first step has an argument of its own kind, and a refund
\* in flight has seen the consume event it gives back.
CallInv == \A c \in Callers :
    /\ pc[c] \in {"createBalance", "grantTx"} => arg[c] \in Requests
    /\ pc[c] \in {"listBalances", "tryBalance"} => arg[c] \in Sources
    /\ pc[c] = "refundTx" => arg[c] \in Sources /\ Consumed(arg[c])

\* Only what was charged is ever given back.
RefundInv == refundEvent \subseteq {s \in Sources : Consumed(s)}

ReplyInv == \A c \in Callers :
    /\ reply[c] = "consumed" => arg[c] \in Sources /\ Consumed(arg[c])
    /\ reply[c] = "refunded" => arg[c] \in refundEvent
    /\ reply[c] = "granted" => /\ arg[c] \in Requests
                               /\ RequestKey[arg[c]] \in grantEvent

FiniteInv == \A r \in Scopes : IsFiniteSet(GrantedUnits(r))

IInv == TypeOK /\ CallInv /\ RefundInv /\ ReplyInv /\ FiniteInv /\ LedgerAgrees

\* The units of one grant key.
KeyUnits(k) == {<<k, i>> : i \in 1..KeyAmount[k]}

-----------------------------------------------------------------------------
(* Counting *)

LEMMA KeyUnitsCount ==
    ASSUME NEW k \in GrantKeys
    PROVE  IsFiniteSet(KeyUnits(k)) /\ Cardinality(KeyUnits(k)) = KeyAmount[k]
<1> DEFINE n == KeyAmount[k]
           f == [i \in 1..n |-> <<k, i>>]
<1>1. n \in Nat /\ n > 0
  BY CreditsAssumption
<1>2. f \in Bijection(1..n, KeyUnits(k))
  BY <1>1 DEF KeyUnits, Bijection, Injection, Surjection, IsInjective
<1>3. ExistsBijection(1..n, KeyUnits(k))
  BY <1>2 DEF ExistsBijection
<1> HIDE DEF n, f
<1>4. IsFiniteSet(1..n) /\ Cardinality(1..n) = n
  <2>1. 1 \in Int /\ n \in Int
    BY <1>1
  <2>2. /\ IsFiniteSet(1..n)
        /\ Cardinality(1..n) = IF 1 > n THEN 0 ELSE n - 1 + 1
    BY <2>1, FS_Interval, Zenon
  <2>3. QED
    BY <1>1, <2>2
<1>5. QED
  BY <1>3, <1>4, FS_Bijection DEF n

\* A source has one charge, so the charges on a row are finitely many.
LEMMA ChargesFinite ==
    ASSUME NEW r \in Scopes
    PROVE  /\ IsFiniteSet(ChargesOn(r))
           /\ IsFiniteSet(ChargesOn(r) \ refundEvent)
           /\ IsFiniteSet(ChargesOn(r) \cap refundEvent)
<1>1. IsFiniteSet(Sources)
  BY CreditsAssumption
<1>2. /\ ChargesOn(r) \in SUBSET Sources
      /\ ChargesOn(r) \ refundEvent \in SUBSET Sources
      /\ ChargesOn(r) \cap refundEvent \in SUBSET Sources
  BY DEF ChargesOn
<1>3. QED
  BY <1>1, <1>2, FS_Subset

-----------------------------------------------------------------------------
(* The invariant *)

LEMMA InitInv == Init => IInv
<1> SUFFICES ASSUME Init PROVE IInv
  OBVIOUS
<1>1. TypeOK
  BY DEF Init, TypeOK, Steps, Replies
<1>2. CallInv /\ RefundInv /\ ReplyInv
  BY DEF Init, CallInv, RefundInv, ReplyInv
<1>3. \A r \in Scopes : GrantedUnits(r) = {} /\ ChargesOn(r) = {}
  BY CreditsAssumption DEF Init, GrantedUnits, ChargesOn
<1>4. FiniteInv
  BY <1>3, FS_EmptySet DEF FiniteInv
<1>5. LedgerAgrees
  <2> SUFFICES ASSUME NEW r \in Scopes
               PROVE  /\ totalGranted[r] = Cardinality(GrantedUnits(r))
                      /\ totalConsumed[r] = Cardinality(ChargesOn(r) \ refundEvent)
                      /\ totalRefunded[r] = Cardinality(ChargesOn(r) \cap refundEvent)
                      /\ totalGranted[r] = balance[r] + totalConsumed[r]
    BY DEF LedgerAgrees
  <2>1. ChargesOn(r) \ refundEvent = {} /\ ChargesOn(r) \cap refundEvent = {}
    BY <1>3
  <2>2. /\ totalGranted[r] = 0 /\ totalConsumed[r] = 0
        /\ totalRefunded[r] = 0 /\ balance[r] = 0
    BY DEF Init
  <2>3. GrantedUnits(r) = {}
    BY <1>3
  <2>4. Cardinality({}) = 0
    BY FS_EmptySet
  <2>5. QED
    BY <2>1, <2>2, <2>3, <2>4
<1>6. QED
  BY <1>1, <1>2, <1>4, <1>5 DEF IInv

\* A step that moves no credit and writes no event keeps the ledger.
LEMMA LedgerFrame ==
    ASSUME IInv, UNCHANGED <<balance, totalGranted, totalConsumed, totalRefunded, eventVars>>
    PROVE  FiniteInv' /\ LedgerAgrees'
BY DEF IInv, FiniteInv, LedgerAgrees, GrantedUnits, ChargesOn, eventVars

\* The four equations of LedgerAgrees for one row.
RowAgrees(r) ==
    /\ totalGranted[r] = Cardinality(GrantedUnits(r))
    /\ totalConsumed[r] = Cardinality(ChargesOn(r) \ refundEvent)
    /\ totalRefunded[r] = Cardinality(ChargesOn(r) \cap refundEvent)
    /\ totalGranted[r] = balance[r] + totalConsumed[r]

\* A row whose counters and events a step leaves alone still agrees.
LEMMA RowFrame ==
    ASSUME IInv, NEW r \in Scopes,
           balance'[r] = balance[r], totalGranted'[r] = totalGranted[r],
           totalConsumed'[r] = totalConsumed[r], totalRefunded'[r] = totalRefunded[r],
           GrantedUnits(r)' = GrantedUnits(r),
           (ChargesOn(r) \ refundEvent)' = ChargesOn(r) \ refundEvent,
           (ChargesOn(r) \cap refundEvent)' = ChargesOn(r) \cap refundEvent
    PROVE  RowAgrees(r)'
BY DEF IInv, LedgerAgrees, RowAgrees

LEMMA StartGrantInv ==
    ASSUME IInv, NEW c \in Callers, NEW g \in Requests, StartGrant(c, g)
    PROVE  IInv'
<1> USE DEF StartGrant, BeginAndGoto, Begin
<1>1. TypeOK'
  BY DEF IInv, TypeOK, Steps, Replies, rowVars, eventVars
<1>2. CallInv' /\ RefundInv' /\ ReplyInv'
  BY DEF IInv, TypeOK, CallInv, RefundInv, ReplyInv, Consumed, rowVars, eventVars
<1>3. QED
  BY <1>1, <1>2, LedgerFrame DEF IInv, rowVars

LEMMA CreateBalanceInv ==
    ASSUME IInv, NEW c \in Callers, CreateBalance(c)
    PROVE  IInv'
<1> USE DEF CreateBalance, Goto
<1>1. TypeOK'
  <2>1. Rows \in SUBSET Scopes /\ IsFiniteSet(Scopes)
    BY CreditsAssumption DEF Rows
  <2>2. Cardinality(Rows) \in Nat
    BY <2>1, FS_Subset, FS_CardinalityType
  <2>3. createdAt' \in [Scopes -> Nat]
    BY <2>2 DEF IInv, TypeOK
  <2>4. QED
    BY <2>3 DEF IInv, TypeOK, Steps, Replies, eventVars
<1>2. CallInv' /\ RefundInv' /\ ReplyInv'
  BY DEF IInv, TypeOK, CallInv, RefundInv, ReplyInv, Consumed, eventVars
<1>3. QED
  BY <1>1, <1>2, LedgerFrame DEF IInv

LEMMA GrantTxInv ==
    ASSUME IInv, NEW c \in Callers, GrantTx(c)
    PROVE  IInv'
<1>1. PICK k \in GrantKeys : k = RequestKey[arg[c]]
  BY CreditsAssumption DEF IInv, CallInv, GrantTx
<1>2. PICK r \in Scopes : r = KeyScope[k]
  BY CreditsAssumption
<1>3. KeyAmount[k] \in Nat \ {0} /\ arg[c] \in Requests
  BY CreditsAssumption DEF IInv, CallInv, GrantTx
<1>4. TypeOK' /\ CallInv' /\ RefundInv' /\ ReplyInv'
  <2> USE DEF GrantTx, Answer, AlreadyGranted
  <2>1. TypeOK'
    BY <1>1, <1>2, <1>3 DEF IInv, TypeOK, Steps, Replies
  <2>2. CallInv' /\ RefundInv'
    BY DEF IInv, TypeOK, CallInv, RefundInv, Consumed
  <2>3. ReplyInv'
    BY <1>1, <1>3 DEF IInv, TypeOK, ReplyInv, Consumed
  <2>4. QED
    BY <2>1, <2>2, <2>3
<1>5. CASE k \in grantEvent
  BY <1>1, <1>4, <1>5, LedgerFrame DEF IInv, eventVars, GrantTx, AlreadyGranted
<1>6. CASE k \notin grantEvent
  <2>1. /\ grantEvent' = grantEvent \cup {k}
        /\ balance' = [balance EXCEPT ![r] = @ + KeyAmount[k]]
        /\ totalGranted' = [totalGranted EXCEPT ![r] = @ + KeyAmount[k]]
        /\ UNCHANGED <<totalConsumed, totalRefunded, consumeEvent, refundEvent>>
    BY <1>1, <1>2, <1>6 DEF GrantTx, AlreadyGranted
  <2>2. \A q \in Scopes : q # r => GrantedUnits(q)' = GrantedUnits(q)
    BY <1>2, <2>1 DEF GrantedUnits
  <2>3. GrantedUnits(r)' = GrantedUnits(r) \cup KeyUnits(k)
    BY <1>2, <2>1 DEF GrantedUnits, KeyUnits
  <2>4. GrantedUnits(r) \cap KeyUnits(k) = {}
    BY <1>6 DEF GrantedUnits, KeyUnits
  <2>5. IsFiniteSet(GrantedUnits(r)) /\ IsFiniteSet(KeyUnits(k))
    BY KeyUnitsCount DEF IInv, FiniteInv
  <2>6. /\ IsFiniteSet(GrantedUnits(r)')
        /\ Cardinality(GrantedUnits(r)') = Cardinality(GrantedUnits(r)) + KeyAmount[k]
    <3>1. Cardinality(GrantedUnits(r) \cap KeyUnits(k)) = 0
      BY <2>4, FS_EmptySet
    <3>2. Cardinality(GrantedUnits(r)) \in Nat /\ Cardinality(KeyUnits(k)) = KeyAmount[k]
      BY <2>5, FS_CardinalityType, KeyUnitsCount
    <3>3. QED
      BY <2>3, <2>5, <3>1, <3>2, <1>3, FS_Union
  <2>7. FiniteInv'
    BY <2>2, <2>6 DEF IInv, FiniteInv
  <2>8. \A q \in Scopes : ChargesOn(q)' = ChargesOn(q)
    BY <2>1 DEF ChargesOn
  <2>9. LedgerAgrees'
    <3>1. \A q \in Scopes : /\ (ChargesOn(q) \ refundEvent)' = ChargesOn(q) \ refundEvent
                            /\ (ChargesOn(q) \cap refundEvent)' = ChargesOn(q) \cap refundEvent
      BY <2>1, <2>8
    <3>2. RowAgrees(r)'
      <4>1. /\ totalGranted'[r] = totalGranted[r] + KeyAmount[k]
            /\ balance'[r] = balance[r] + KeyAmount[k]
            /\ totalConsumed'[r] = totalConsumed[r]
            /\ totalRefunded'[r] = totalRefunded[r]
        BY <2>1 DEF IInv, TypeOK
      <4>2. RowAgrees(r) /\ balance[r] \in Nat /\ totalConsumed[r] \in Nat
        BY DEF IInv, TypeOK, LedgerAgrees, RowAgrees
      <4>3. totalGranted'[r] = Cardinality(GrantedUnits(r)')
        BY <2>6, <4>1, <4>2 DEF RowAgrees
      <4>4. totalGranted'[r] = balance'[r] + totalConsumed'[r]
        BY <1>3, <4>1, <4>2 DEF RowAgrees
      <4>5. QED
        BY <3>1, <4>1, <4>2, <4>3, <4>4 DEF RowAgrees
    <3>3. \A q \in Scopes : q # r => RowAgrees(q)'
      BY <2>1, <2>2, <3>1, RowFrame DEF IInv, TypeOK
    <3>4. QED
      BY <3>2, <3>3 DEF LedgerAgrees, RowAgrees
  <2>10. QED
    BY <1>4, <2>7, <2>9 DEF IInv
<1>7. QED
  BY <1>5, <1>6

LEMMA StartConsumeInv ==
    ASSUME IInv, NEW c \in Callers, NEW s \in Sources,
           StartConsume(c, s)
    PROVE  IInv'
<1> USE DEF StartConsume, BeginAndGoto, BeginAndAnswer, Begin, Answer
<1>1. TypeOK'
  BY DEF IInv, TypeOK, Steps, Replies, rowVars, eventVars
<1>2. CallInv' /\ RefundInv' /\ ReplyInv'
  BY DEF IInv, TypeOK, CallInv, RefundInv, ReplyInv, Consumed, rowVars, eventVars
<1>3. QED
  BY <1>1, <1>2, LedgerFrame DEF IInv, rowVars

LEMMA ListBalancesInv ==
    ASSUME IInv, NEW c \in Callers, ListBalances(c)
    PROVE  IInv'
<1> USE DEF ListBalances, Goto, Answer
<1>1. TypeOK'
  BY DEF IInv, TypeOK, Steps, Replies, Rows, rowVars, eventVars
<1>2. CallInv' /\ RefundInv' /\ ReplyInv'
  BY DEF IInv, TypeOK, CallInv, RefundInv, ReplyInv, Consumed, rowVars, eventVars
<1>3. QED
  BY <1>1, <1>2, LedgerFrame DEF IInv, rowVars

LEMMA TryBalanceInv ==
    ASSUME IInv, NEW c \in Callers, TryBalance(c)
    PROVE  IInv'
<1>1. PICK s \in Sources : s = arg[c]
  BY DEF IInv, CallInv, TryBalance
<1>2. PICK r \in Scopes : r \in Oldest(avail[c]) /\ TryRow(c, s, r)
  BY <1>1 DEF TryBalance, Oldest, IInv, TypeOK
<1> USE DEF TryBalance, TryRow, Answer, Goto, Debitable, AlreadyConsumed, StillToTry
<1>3. CASE /\ Debitable(r) /\ ~AlreadyConsumed(s)
  <2>1. /\ balance' = [balance EXCEPT ![r] = @ - 1]
        /\ totalConsumed' = [totalConsumed EXCEPT ![r] = @ + 1]
        /\ consumeEvent' = [consumeEvent EXCEPT ![s] = r]
        /\ UNCHANGED <<totalGranted, totalRefunded, grantEvent, refundEvent>>
        /\ balance[r] > 0 /\ consumeEvent[s] = None /\ r # None
    BY CreditsAssumption, <1>1, <1>2, <1>3 DEF Consumed
  <2>2. TypeOK'
    BY <1>1, <1>2, <1>3, <2>1 DEF IInv, TypeOK, Steps, Replies
  <2>3. CallInv' /\ RefundInv' /\ ReplyInv'
    BY <1>1, <1>2, <1>3, <2>1
       DEF IInv, TypeOK, CallInv, RefundInv, ReplyInv, Consumed
  <2>4. /\ s \notin refundEvent
        /\ s \notin ChargesOn(r)
    BY <2>1 DEF IInv, RefundInv, Consumed, ChargesOn
  <2>5. /\ ChargesOn(r)' = ChargesOn(r) \cup {s}
        /\ \A q \in Scopes : q # r => ChargesOn(q)' = ChargesOn(q)
    BY CreditsAssumption, <2>1 DEF ChargesOn, IInv, TypeOK
  <2>6. /\ (ChargesOn(r) \ refundEvent)' = (ChargesOn(r) \ refundEvent) \cup {s}
        /\ (ChargesOn(r) \cap refundEvent)' = ChargesOn(r) \cap refundEvent
    BY <2>1, <2>4, <2>5
  <2>7. Cardinality((ChargesOn(r) \ refundEvent)') = Cardinality(ChargesOn(r) \ refundEvent) + 1
    BY <2>4, <2>6, ChargesFinite, FS_AddElement
  <2>8. \A q \in Scopes : GrantedUnits(q)' = GrantedUnits(q)
    BY <2>1 DEF GrantedUnits
  <2>9. LedgerAgrees'
    <3>1. RowAgrees(r)'
      <4>1. /\ totalGranted'[r] = totalGranted[r]
            /\ balance'[r] = balance[r] - 1
            /\ totalConsumed'[r] = totalConsumed[r] + 1
            /\ totalRefunded'[r] = totalRefunded[r]
        BY <2>1 DEF IInv, TypeOK
      <4>2. RowAgrees(r) /\ balance[r] \in Nat /\ totalConsumed[r] \in Nat
        BY DEF IInv, TypeOK, LedgerAgrees, RowAgrees
      <4>3. totalConsumed'[r] = Cardinality((ChargesOn(r) \ refundEvent)')
        BY <2>7, <4>1, <4>2 DEF RowAgrees
      <4>4. totalGranted'[r] = balance'[r] + totalConsumed'[r]
        BY <4>1, <4>2 DEF RowAgrees
      <4>5. QED
        BY <2>6, <2>8, <4>1, <4>2, <4>3, <4>4 DEF RowAgrees
    <3>2. \A q \in Scopes : q # r => RowAgrees(q)'
      BY <2>1, <2>5, <2>8, RowFrame DEF IInv, TypeOK
    <3>3. QED
      BY <3>1, <3>2 DEF LedgerAgrees, RowAgrees
  <2>10. FiniteInv'
    BY <2>8 DEF IInv, FiniteInv
  <2>11. QED
    BY <2>2, <2>3, <2>9, <2>10 DEF IInv
<1>4. CASE ~(Debitable(r) /\ ~AlreadyConsumed(s))
  <2>1. UNCHANGED <<balance, totalGranted, totalConsumed, totalRefunded, eventVars>>
    BY <1>1, <1>2, <1>4 DEF eventVars
  <2>2. TypeOK'
    BY <1>1, <1>2, <1>4, <2>1 DEF IInv, TypeOK, Steps, Replies, eventVars
  <2>3. CallInv' /\ RefundInv' /\ ReplyInv'
    BY <1>1, <1>2, <1>4, <2>1
       DEF IInv, TypeOK, CallInv, RefundInv, ReplyInv, Consumed, eventVars
  <2>4. QED
    BY <2>1, <2>2, <2>3, LedgerFrame DEF IInv
<1>5. QED
  BY <1>3, <1>4

LEMMA StartRefundInv ==
    ASSUME IInv, NEW c \in Callers, NEW s \in Sources,
           StartRefund(c, s)
    PROVE  IInv'
<1> USE DEF StartRefund, BeginAndGoto, BeginAndAnswer, Begin, Answer
<1>1. TypeOK'
  BY DEF IInv, TypeOK, Steps, Replies, rowVars, eventVars
<1>2. CallInv' /\ RefundInv' /\ ReplyInv'
  BY DEF IInv, TypeOK, CallInv, RefundInv, ReplyInv, Consumed, rowVars, eventVars
<1>3. QED
  BY <1>1, <1>2, LedgerFrame DEF IInv, rowVars

LEMMA RefundTxInv ==
    ASSUME IInv, NEW c \in Callers, RefundTx(c)
    PROVE  IInv'
<1>1. PICK s \in Sources : s = arg[c] /\ Consumed(s)
  BY DEF IInv, CallInv, RefundTx
<1>2. PICK r \in Scopes : r = consumeEvent[s]
  BY <1>1 DEF IInv, TypeOK, Consumed
<1>3. s \in ChargesOn(r)
  BY <1>2 DEF ChargesOn
<1>4. CallInv' /\ RefundInv' /\ ReplyInv'
  BY <1>1 DEF IInv, TypeOK, CallInv, RefundInv, ReplyInv, Consumed,
              RefundTx, Answer, AlreadyRefunded
<1>5. CASE s \in refundEvent
  <2>1. UNCHANGED <<rowVars, eventVars>>
    BY <1>1, <1>5 DEF RefundTx, AlreadyRefunded, rowVars, eventVars
  <2>2. TypeOK'
    BY <2>1 DEF IInv, TypeOK, Steps, Replies, RefundTx, Answer, rowVars, eventVars
  <2>3. QED
    BY <1>4, <2>1, <2>2, LedgerFrame DEF IInv, rowVars
<1>6. CASE s \notin refundEvent
  <2>1. /\ refundEvent' = refundEvent \cup {s}
        /\ balance' = [balance EXCEPT ![r] = @ + 1]
        /\ totalRefunded' = [totalRefunded EXCEPT ![r] = @ + 1]
        /\ totalConsumed' = [totalConsumed EXCEPT ![r] = @ - 1]
        /\ UNCHANGED <<createdAt, totalGranted, grantEvent, consumeEvent>>
    BY <1>1, <1>2, <1>6 DEF RefundTx, AlreadyRefunded
  <2>2. \A q \in Scopes : /\ ChargesOn(q)' = ChargesOn(q)
                          /\ GrantedUnits(q)' = GrantedUnits(q)
    BY <2>1 DEF ChargesOn, GrantedUnits
  <2>3. /\ ChargesOn(r) \ refundEvent' = (ChargesOn(r) \ refundEvent) \ {s}
        /\ ChargesOn(r) \cap refundEvent' = (ChargesOn(r) \cap refundEvent) \cup {s}
        /\ s \in ChargesOn(r) \ refundEvent
        /\ s \notin ChargesOn(r) \cap refundEvent
    BY <1>3, <1>6, <2>1
  <2>4. \A q \in Scopes : q # r => s \notin ChargesOn(q)
    BY <1>2 DEF ChargesOn
  <2>5. \A q \in Scopes : q # r =>
          /\ ChargesOn(q) \ refundEvent' = ChargesOn(q) \ refundEvent
          /\ ChargesOn(q) \cap refundEvent' = ChargesOn(q) \cap refundEvent
    BY <2>1, <2>4
  <2>6. /\ Cardinality(ChargesOn(r) \ refundEvent') = Cardinality(ChargesOn(r) \ refundEvent) - 1
        /\ Cardinality(ChargesOn(r) \cap refundEvent')
             = Cardinality(ChargesOn(r) \cap refundEvent) + 1
    <3>1. /\ IsFiniteSet(ChargesOn(r) \ refundEvent)
          /\ IsFiniteSet(ChargesOn(r) \cap refundEvent)
      BY ChargesFinite
    <3>2. Cardinality((ChargesOn(r) \ refundEvent) \ {s})
            = Cardinality(ChargesOn(r) \ refundEvent) - 1
      BY <2>3, <3>1, FS_RemoveElement
    <3>3. Cardinality((ChargesOn(r) \cap refundEvent) \cup {s})
            = Cardinality(ChargesOn(r) \cap refundEvent) + 1
      BY <2>3, <3>1, FS_AddElement
    <3>4. QED
      BY <2>3, <3>2, <3>3
  <2>7. Cardinality(ChargesOn(r) \ refundEvent) \in Nat \ {0}
    <3>1. IsFiniteSet(ChargesOn(r) \ refundEvent)
      BY ChargesFinite
    <3>2. QED
      BY <3>1, <2>3, FS_CardinalityType, FS_EmptySet
  <2>8. totalConsumed[r] \in Nat \ {0}
    BY <2>7 DEF IInv, LedgerAgrees
  <2>9. TypeOK'
    BY <2>1, <2>8 DEF IInv, TypeOK, Steps, Replies, RefundTx, Answer
  <2>10. LedgerAgrees'
    <3>1. RowAgrees(r)'
      <4>1. /\ totalGranted'[r] = totalGranted[r]
            /\ balance'[r] = balance[r] + 1
            /\ totalConsumed'[r] = totalConsumed[r] - 1
            /\ totalRefunded'[r] = totalRefunded[r] + 1
        BY <2>1 DEF IInv, TypeOK
      <4>2. /\ RowAgrees(r) /\ balance[r] \in Nat
            /\ totalConsumed[r] \in Nat /\ totalRefunded[r] \in Nat
        BY DEF IInv, TypeOK, LedgerAgrees, RowAgrees
      <4>3. /\ totalConsumed'[r] = Cardinality((ChargesOn(r) \ refundEvent)')
            /\ totalRefunded'[r] = Cardinality((ChargesOn(r) \cap refundEvent)')
        BY <2>2, <2>6, <4>1, <4>2 DEF RowAgrees
      <4>4. totalGranted'[r] = balance'[r] + totalConsumed'[r]
        BY <4>1, <4>2 DEF RowAgrees
      <4>5. QED
        BY <2>2, <4>1, <4>2, <4>3, <4>4 DEF RowAgrees
    <3>2. \A q \in Scopes : q # r => RowAgrees(q)'
      BY <2>1, <2>2, <2>5, RowFrame DEF IInv, TypeOK
    <3>3. QED
      BY <3>1, <3>2 DEF LedgerAgrees, RowAgrees
  <2>11. FiniteInv'
    BY <2>2 DEF IInv, FiniteInv
  <2>12. QED
    BY <1>4, <2>9, <2>10, <2>11 DEF IInv
<1>7. QED
  BY <1>5, <1>6

LEMMA AbandonInv ==
    ASSUME IInv, NEW c \in Callers, Abandon(c)
    PROVE  IInv'
<1> USE DEF Abandon, Answer
<1>1. TypeOK'
  BY DEF IInv, TypeOK, Steps, Replies, rowVars, eventVars
<1>2. CallInv' /\ RefundInv' /\ ReplyInv'
  BY DEF IInv, TypeOK, CallInv, RefundInv, ReplyInv, Consumed, rowVars, eventVars
<1>3. QED
  BY <1>1, <1>2, LedgerFrame DEF IInv, rowVars

LEMMA NextInv == IInv /\ [Next]_vars => IInv'
<1> SUFFICES ASSUME IInv, [Next]_vars PROVE IInv'
  OBVIOUS
<1>1. CASE Next
  <2>1. PICK c \in Callers :
          \/ \E g \in Requests : StartGrant(c, g)
          \/ \E s \in Sources : StartConsume(c, s) \/ StartRefund(c, s)
          \/ Advance(c)
          \/ Abandon(c)
    BY <1>1 DEF Next
  <2>2. QED
    BY <2>1, StartGrantInv, CreateBalanceInv, GrantTxInv, StartConsumeInv,
       ListBalancesInv, TryBalanceInv, StartRefundInv, RefundTxInv, AbandonInv
       DEF Advance
<1>2. CASE UNCHANGED vars
  <2>1. TypeOK' /\ CallInv' /\ RefundInv' /\ ReplyInv'
    BY <1>2 DEF IInv, TypeOK, CallInv, RefundInv, ReplyInv, Consumed,
                vars, rowVars, eventVars, callVars
  <2>2. QED
    BY <1>2, <2>1, LedgerFrame DEF IInv, vars, rowVars
<1>3. QED
  BY <1>1, <1>2

-----------------------------------------------------------------------------
(* Theorems *)

THEOREM Invariance == Spec => []IInv
BY InitInv, NextInv, PTL DEF Spec

\* Every variable keeps its type: no counter is ever driven below zero.
THEOREM TypeCorrect == Spec => []TypeOK
<1>1. IInv => TypeOK
  BY DEF IInv
<1>2. QED
  BY <1>1, Invariance, PTL

\* The counters of every balance row tell what its events tell.
THEOREM LedgerAgreement == Spec => []LedgerAgrees
<1>1. IInv => LedgerAgrees
  BY DEF IInv
<1>2. QED
  BY <1>1, Invariance, PTL

\* A caller told "consumed", "refunded" or "granted" finds the event.
THEOREM TrueReplies == Spec => []RepliesAreTrue
<1>1. IInv => RepliesAreTrue
  BY DEF IInv, ReplyInv, RepliesAreTrue
<1>2. QED
  BY <1>1, Invariance, PTL

-----------------------------------------------------------------------------
(* The refinement: GrantTx commits a Grant, the successful try of a balance *)
(* a Charge, RefundTx a Refund; every other step leaves the ledger alone.   *)

LEMMA LedgerInitMaps == Init => Ledger!LedgerInit
BY DEF Init, Ledger!LedgerInit

LEMMA LedgerStepMaps ==
    ASSUME IInv, NEW c \in Callers, Advance(c)
    PROVE  [Ledger!LedgerNext]_(Ledger!ledgerVars)
<1> USE DEF Ledger!ledgerVars
<1>1. CASE CreateBalance(c)
  BY <1>1 DEF CreateBalance, eventVars
<1>2. CASE GrantTx(c)
  <2>1. PICK k \in GrantKeys : k = RequestKey[arg[c]]
    BY <1>2, CreditsAssumption DEF IInv, CallInv, GrantTx
  <2>2. CASE k \in grantEvent
    BY <1>2, <2>1, <2>2 DEF GrantTx, AlreadyGranted
  <2>3. CASE k \notin grantEvent
    <3>1. Ledger!Grant(k)
      BY <1>2, <2>1, <2>3 DEF GrantTx, AlreadyGranted, Ledger!Grant
    <3>2. QED
      BY <3>1 DEF Ledger!LedgerNext
  <2>4. QED
    BY <2>2, <2>3
<1>3. CASE ListBalances(c)
  BY <1>3 DEF ListBalances, rowVars, eventVars
<1>4. CASE TryBalance(c)
  <2>1. PICK s \in Sources : s = arg[c]
    BY <1>4 DEF IInv, CallInv, TryBalance
  <2>2. PICK r \in Scopes : r \in Oldest(avail[c]) /\ TryRow(c, s, r)
    BY <1>4, <2>1 DEF TryBalance, Oldest, IInv, TypeOK
  <2>3. CASE Debitable(r) /\ ~AlreadyConsumed(s)
    <3>1. Ledger!Charge(s, r)
      BY <1>4, <2>2, <2>3
         DEF TryBalance, TryRow, Debitable, AlreadyConsumed, Consumed, Ledger!Charge
    <3>2. QED
      BY <3>1 DEF Ledger!LedgerNext
  <2>4. CASE ~(Debitable(r) /\ ~AlreadyConsumed(s))
    BY <1>4, <2>2, <2>4 DEF TryBalance, TryRow
  <2>5. QED
    BY <2>3, <2>4
<1>5. CASE RefundTx(c)
  <2>1. PICK s \in Sources : s = arg[c] /\ Consumed(s)
    BY <1>5 DEF IInv, CallInv, RefundTx
  <2>2. CASE s \in refundEvent
    BY <1>5, <2>1, <2>2 DEF RefundTx, AlreadyRefunded
  <2>3. CASE s \notin refundEvent
    <3>1. Ledger!Refund(s)
      BY <1>5, <2>1, <2>3 DEF RefundTx, AlreadyRefunded, Consumed, Ledger!Refund
    <3>2. QED
      BY <3>1 DEF Ledger!LedgerNext
  <2>4. QED
    BY <2>2, <2>3
<1>6. QED
  BY <1>1, <1>2, <1>3, <1>4, <1>5 DEF Advance

LEMMA NextMaps == IInv /\ [Next]_vars => [Ledger!LedgerNext]_(Ledger!ledgerVars)
<1> SUFFICES ASSUME IInv, [Next]_vars
             PROVE  [Ledger!LedgerNext]_(Ledger!ledgerVars)
  OBVIOUS
<1>1. CASE Next
  <2>1. PICK c \in Callers :
          \/ \E g \in Requests : StartGrant(c, g)
          \/ \E s \in Sources : StartConsume(c, s) \/ StartRefund(c, s)
          \/ Advance(c)
          \/ Abandon(c)
    BY <1>1 DEF Next
  <2>2. CASE Advance(c)
    BY <2>2, LedgerStepMaps
  <2>3. CASE ~Advance(c)
    BY <2>1, <2>3 DEF StartGrant, StartConsume, StartRefund, Abandon,
                      rowVars, eventVars, Ledger!ledgerVars
  <2>4. QED
    BY <2>2, <2>3
<1>2. CASE UNCHANGED vars
  BY <1>2 DEF vars, rowVars, eventVars, Ledger!ledgerVars
<1>3. QED
  BY <1>1, <1>2

\* The wallet implements the abstract ledger: a grant key adds once, a source
\* is charged once and given back once, however calls interleave or die.
THEOREM LedgerImplemented == Spec => ImplementsLedger
BY Invariance, LedgerInitMaps, NextMaps, PTL
   DEF Spec, ImplementsLedger, Ledger!LedgerSpec
=============================================================================
