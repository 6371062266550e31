----------------------- MODULE PaymentLedger_proofs -----------------------
(* Proofs about PaymentLedger for every set of calls, amounts and limits. *)
EXTENDS PaymentLedger, FiniteSetTheorems, TLAPS

USE DEF rows, call, Goto

\* Whatever the calls in flight read and in whatever order they commit, a payment
\* has read enough to cover it, so balance and earnings never go below zero.
THEOREM TypeCorrect == Spec => []TypeOK
<1>1. Init => TypeOK
  <2>1. (CHOOSE a \in Amounts : TRUE) \in Amounts
    BY AmountsAssumption
  <2>2. Init => amount \in [Handlers -> Amounts]
    BY <2>1 DEF Init
  <2> QED BY <2>2 DEF Init, TypeOK, Kinds, NoUser, Passed
<1>2. TypeOK /\ [Next]_vars => TypeOK'
  <2> SUFFICES ASSUME TypeOK, [Next]_vars PROVE TypeOK'
    OBVIOUS
  <2> USE AmountsAssumption, LimitsAssumption DEF TypeOK, Passed, Kinds, NoUser
  <2>1. ASSUME NEW h \in Handlers, NEW k \in Kinds, NEW a \in Amounts, Call(h, k, a)
        PROVE  TypeOK'
    BY <2>1 DEF Call
  <2>2. ASSUME NEW h \in Handlers, CheckLimits(h) PROVE TypeOK'
    BY <2>2 DEF CheckLimits
  <2>3. ASSUME NEW h \in Handlers, ReadBalance(h) PROVE TypeOK'
    BY <2>3 DEF ReadBalance
  <2>w. ASSUME NEW h \in Handlers, pc[h] = "write"
        PROVE  /\ amount[h] \in Nat
               /\ kind[h] # "deposit" => seen[h] \in Nat
               /\ kind[h] = "payment" => seen[h] - amount[h] \in Nat
    <3>1. amount[h] \in Nat
      BY <2>w
    <3>2. kind[h] # "deposit" => seen[h] \in Nat
      BY <2>w
    <3>3. kind[h] = "payment" => seen[h] >= amount[h]
      BY <2>w
    <3> QED BY <3>1, <3>2, <3>3
  <2>c. ASSUME NEW h \in Handlers, pc' = [pc EXCEPT ![h] = "idle"],
               UNCHANGED <<call, seen, requests>>,
               balance' \in Nat \union {NoUser}, earnings' \in Nat,
               paid' \in Nat, added' \in Nat, payouts' \in Nat
        PROVE  TypeOK'
    BY <2>c
  <2>4. ASSUME NEW h \in Handlers, CommitDeposit(h) PROVE TypeOK'
    <3>1. added' \in Nat /\ balance' \in Nat \union {NoUser}
      BY <2>4, <2>w DEF CommitDeposit
    <3> QED BY <3>1, <2>4, <2>c DEF CommitDeposit
  <2>5. ASSUME NEW h \in Handlers, CommitPayment(h) PROVE TypeOK'
    <3>1. paid' \in Nat /\ balance' \in Nat
      BY <2>5, <2>w DEF CommitPayment
    <3> QED BY <3>1, <2>5, <2>c DEF CommitPayment
  <2>6. ASSUME NEW h \in Handlers, CommitPayout(h) \/ CommitRefund(h) PROVE TypeOK'
    <3>1. /\ earnings' \in Nat /\ payouts' \in Nat
          /\ added' \in Nat /\ balance' \in Nat \union {NoUser}
      BY <2>6, <2>w DEF CommitPayout, CommitRefund
    <3> QED BY <3>1, <2>6, <2>c DEF CommitPayout, CommitRefund
  <2>7. ASSUME NEW h \in Handlers, Abort(h) PROVE TypeOK'
    BY <2>7 DEF Abort
  <2>8. CASE UNCHANGED vars
    BY <2>8 DEF vars
  <2> QED BY <2>1, <2>2, <2>3, <2>4, <2>5, <2>6, <2>7, <2>8 DEF Next, Step
<1> QED BY <1>1, <1>2, PTL DEF Spec

-----------------------------------------------------------------------------
Bound == Daily + (Cardinality(Handlers) - 1) * Single

\* The strengthening of DailyOverrunBounded: with calls past the limits, some one
\* of them fits under the bound with its own amount while every other one is
\* counted with the largest amount there is.  It is the last one to have passed.
Fits(h) == paid + amount[h] + (Cardinality(Passed) - 1) * Single <= Bound
OverrunInv ==
    Daily > 0 =>
        /\ paid <= Bound
        /\ Passed # {} => \E h \in Passed : Fits(h)

\* The calls past the limit check are among finitely many handlers.
LEMMA PassedFinite ==
  /\ IsFiniteSet(Passed) /\ IsFiniteSet(Passed')
  /\ Cardinality(Passed) \in Nat /\ Cardinality(Passed') \in Nat
  /\ Cardinality(Passed) <= Cardinality(Handlers)
  /\ Cardinality(Passed') <= Cardinality(Handlers)
  /\ Cardinality(Handlers) \in Nat \ {0}
  /\ Bound \in Nat
<1>1. Passed \subseteq Handlers /\ Passed' \subseteq Handlers
  BY DEF Passed
<1>2. Cardinality(Handlers) \in Nat \ {0}
  BY HandlersAssumption, FS_CardinalityType, FS_EmptySet
<1>3. (Cardinality(Handlers) - 1) * Single \in Nat
  BY <1>2, LimitsAssumption
<1> QED
  BY <1>1, <1>2, <1>3, HandlersAssumption, LimitsAssumption, FS_Subset, FS_CardinalityType
     DEF Bound

\* n calls counted with Single each take no less than n - 1 of them.
LEMMA Times ==
  ASSUME NEW n \in Nat \ {0}
  PROVE  /\ n * Single = (n - 1) * Single + Single
         /\ (n - 1) * Single \in Nat
  BY LimitsAssumption

\* A call g leaves Passed, having committed what it was counted with or nothing.
LEMMA LeaveKeeps ==
  ASSUME TypeOK, TypeOK', OverrunInv, NEW g \in Passed, Passed' = Passed \ {g},
         amount' = amount, paid' \in {paid, paid + amount[g]}
  PROVE  OverrunInv'
<1> SUFFICES ASSUME Daily > 0
             PROVE  paid' <= Bound /\ (Passed' # {} => \E h \in Passed' : Fits(h)')
  BY DEF OverrunInv, Bound
<1>1. PICK w \in Passed : Fits(w)
  BY DEF OverrunInv
<1> DEFINE n == Cardinality(Passed)
<1>2. n \in Nat \ {0} /\ Cardinality(Passed') = n - 1
  BY PassedFinite, FS_RemoveElement, FS_EmptySet
<1>3. /\ \A h \in Passed : amount[h] \in Nat /\ amount[h] <= Single
      /\ paid \in Nat /\ Single \in Nat /\ Bound \in Nat
  BY PassedFinite, AmountsAssumption, LimitsAssumption DEF TypeOK, Passed
<1>4. n * Single = (n - 1) * Single + Single /\ (n - 1) * Single \in Nat
  BY <1>2, Times
<1>5. paid + amount[w] + (n - 1) * Single <= Bound
  BY <1>1 DEF Fits
<1> HIDE DEF n
<1>6. CASE Passed' = {}
  <2>1. w = g
    BY <1>6
  <2>2. paid + amount[g] <= Bound
    BY <2>1, <1>3, <1>4, <1>5
  <2> QED BY <1>6, <2>2, <1>3
<1>7. CASE Passed' # {}
  <2>1. n - 1 \in Nat \ {0}
    BY <1>2, <1>7, PassedFinite, FS_EmptySet
  <2>2. (n - 1) * Single = (n - 1 - 1) * Single + Single /\ (n - 1 - 1) * Single \in Nat
    BY <2>1, Times
  <2>3. PICK h \in Passed' : w # g => h = w
    BY <1>7
  <2>4. amount[h] \in Nat /\ amount[h] <= Single /\ amount[g] \in Nat /\ amount[g] <= Single
    BY <1>3
  <2>5. /\ paid + amount[g] + amount[h] + (n - 1 - 1) * Single <= Bound
        /\ paid + amount[g] <= Bound
    <3>1. CASE w = g
      BY <3>1, <1>3, <1>5, <2>2, <2>4
    <3>2. CASE w # g
      BY <3>2, <2>3, <1>3, <1>5, <2>2, <2>4
    <3> QED BY <3>1, <3>2
  <2>6. paid' + amount'[h] + (Cardinality(Passed') - 1) * Single <= Bound /\ paid' <= Bound
    BY <1>2, <1>3, <2>2, <2>4, <2>5
  <2> QED BY <2>6 DEF Fits, Bound
<1> QED BY <1>6, <1>7

\* Nothing that OverrunInv speaks of changes.
LEMMA StayKeeps ==
  ASSUME OverrunInv, Passed' = Passed, paid' = paid, \A h \in Passed : amount'[h] = amount[h]
  PROVE  OverrunInv'
  BY DEF OverrunInv, Fits, Bound

\* For any number of calls in flight: the payments of a day exceed the daily limit
\* by at most one payment for each of them but one.
THEOREM OverrunBounded == Spec => []DailyOverrunBounded
<1>1. Init => OverrunInv
  <2> SUFFICES ASSUME Init PROVE OverrunInv
    OBVIOUS
  <2>1. Passed = {} /\ paid = 0
    BY DEF Init, Passed
  <2> QED BY <2>1, PassedFinite DEF OverrunInv
<1>2. TypeOK /\ TypeOK' /\ OverrunInv /\ [Next]_vars => OverrunInv'
  <2> SUFFICES ASSUME TypeOK, TypeOK', OverrunInv, [Next]_vars PROVE OverrunInv'
    OBVIOUS
  <2>1. ASSUME NEW h \in Handlers, NEW k \in Kinds, NEW a \in Amounts, Call(h, k, a)
        PROVE  OverrunInv'
    <3>1. Passed' = Passed /\ h \notin Passed /\ paid' = paid
      BY <2>1 DEF Call, Passed, TypeOK
    <3>2. \A g \in Passed : amount'[g] = amount[g]
      BY <2>1, <3>1 DEF Call, TypeOK
    <3> QED BY <3>1, <3>2, StayKeeps
  <2>2. ASSUME NEW h \in Handlers, CheckLimits(h) PROVE OverrunInv'
    <3>1. CASE pc'[h] = "idle" \/ kind[h] # "payment"
      <4>1. Passed' = Passed /\ paid' = paid /\ amount' = amount
        BY <2>2, <3>1 DEF CheckLimits, Passed, TypeOK
      <4> QED BY <4>1, StayKeeps
    <3>2. CASE pc'[h] = "begin" /\ kind[h] = "payment"
      <4>1. Passed' = Passed \union {h} /\ h \notin Passed /\ paid' = paid /\ amount' = amount
        BY <2>2, <3>2 DEF CheckLimits, Passed, TypeOK
      <4>2. Daily > 0 => paid + amount[h] <= Daily
        BY <2>2, <3>2, LimitsAssumption DEF CheckLimits, TypeOK
      <4>3. Cardinality(Passed') - 1 <= Cardinality(Handlers) - 1
        BY PassedFinite
      <4>4. (Cardinality(Passed') - 1) * Single <= (Cardinality(Handlers) - 1) * Single
        <5>1. \A x, y, s \in Nat : x <= y => x * s <= y * s
          OBVIOUS
        <5>2. Cardinality(Passed') - 1 \in Nat /\ Cardinality(Handlers) - 1 \in Nat
          BY <4>1, PassedFinite, FS_EmptySet
        <5> QED BY <4>3, <5>1, <5>2, LimitsAssumption
      <4>5. Daily > 0 => Fits(h)'
        <5>1. paid \in Nat /\ amount[h] \in Nat /\ Daily \in Nat
          <6>1. amount[h] \in Amounts /\ paid \in Nat
            BY DEF TypeOK
          <6> QED BY <6>1, AmountsAssumption, LimitsAssumption
        <5>2. /\ (Cardinality(Handlers) - 1) * Single \in Nat
              /\ (Cardinality(Passed') - 1) * Single \in Int
          BY PassedFinite, LimitsAssumption, Times
        <5> QED BY <4>1, <4>2, <4>4, <5>1, <5>2 DEF Fits, Bound
      <4> QED BY <4>1, <4>5 DEF OverrunInv, Bound
    <3> QED BY <2>2, <3>1, <3>2 DEF CheckLimits, TypeOK
  <2>3. ASSUME NEW h \in Handlers, ReadBalance(h) PROVE OverrunInv'
    <3>1. paid' = paid /\ amount' = amount
      BY <2>3 DEF ReadBalance
    <3>2. CASE kind[h] = "payment" /\ pc'[h] = "idle"
      <4>1. h \in Passed /\ Passed' = Passed \ {h}
        BY <2>3, <3>2 DEF ReadBalance, Passed, TypeOK
      <4> QED BY <3>1, <4>1, LeaveKeeps
    <3>3. CASE kind[h] # "payment" \/ pc'[h] = "write"
      <4>1. Passed' = Passed
        BY <2>3, <3>3 DEF ReadBalance, Passed, TypeOK
      <4> QED BY <3>1, <4>1, StayKeeps
    <3> QED BY <2>3, <3>2, <3>3 DEF ReadBalance, TypeOK
  <2>4. ASSUME NEW h \in Handlers, CommitPayment(h) PROVE OverrunInv'
    <3>1. /\ h \in Passed /\ Passed' = Passed \ {h}
          /\ paid' = paid + amount[h] /\ amount' = amount
      BY <2>4 DEF CommitPayment, Passed, TypeOK
    <3> QED BY <3>1, LeaveKeeps
  <2>5. ASSUME NEW h \in Handlers, CommitDeposit(h) \/ CommitPayout(h) \/ CommitRefund(h)
        PROVE  OverrunInv'
    <3>1. Passed' = Passed /\ paid' = paid /\ amount' = amount
      BY <2>5 DEF CommitDeposit, CommitPayout, CommitRefund, Passed, TypeOK
    <3> QED BY <3>1, StayKeeps
  <2>6. ASSUME NEW h \in Handlers, Abort(h) PROVE OverrunInv'
    <3>1. paid' = paid /\ amount' = amount
      BY <2>6 DEF Abort
    <3>2. CASE h \in Passed
      <4>1. Passed' = Passed \ {h}
        BY <2>6, <3>2 DEF Abort, Passed, TypeOK
      <4> QED BY <3>1, <3>2, <4>1, LeaveKeeps
    <3>3. CASE h \notin Passed
      <4>1. Passed' = Passed
        BY <2>6, <3>3 DEF Abort, Passed, TypeOK
      <4> QED BY <3>1, <4>1, StayKeeps
    <3> QED BY <3>2, <3>3
  <2>7. CASE UNCHANGED vars
    <3>1. Passed' = Passed /\ paid' = paid /\ amount' = amount
      BY <2>7 DEF vars, Passed
    <3> QED BY <3>1, StayKeeps
  <2> QED BY <2>1, <2>2, <2>3, <2>4, <2>5, <2>6, <2>7 DEF Next, Step
<1>3. OverrunInv => DailyOverrunBounded
  BY DEF OverrunInv, DailyOverrunBounded, Bound
<1> QED BY <1>1, <1>2, <1>3, TypeCorrect, PTL DEF Spec
=============================================================================
