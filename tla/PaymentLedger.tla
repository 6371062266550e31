--------------------------- MODULE PaymentLedger ---------------------------
(***************************************************************************)
(* processPayment of services/payment.ts, for one user and one node within *)
(* one day.  Handlers are calls in flight.  A call reads the balance with  *)
(* a SELECT that takes no lock and later writes an absolute value, in a    *)
(* READ COMMITTED transaction: its statements after the reads are one      *)
(* step, its COMMIT, since nobody sees them before.  The limits are        *)
(* checked before BEGIN, on the same connection.                           *)
(***************************************************************************)
EXTENDS Integers, FiniteSets

CONSTANTS
    Handlers,
    Amounts,    \* amounts of requests, in whole tokens
    Daily,      \* kyc_profiles.daily_limit; 0 is no limit
    Single,     \* kyc_profiles.single_transaction_limit
    MaxRequests \* bound: calls of processPayment

ASSUME HandlersAssumption == IsFiniteSet(Handlers) /\ Handlers # {}
ASSUME AmountsAssumption == Amounts \subseteq Nat \ {0} /\ Amounts # {}
ASSUME LimitsAssumption == Daily \in Nat /\ Single \in Nat

Kinds == {"deposit", "payment", "payout", "refund"}
NoUser == -1

VARIABLES
    balance,    \* users.token_balance, NoUser without a row
    earnings,   \* nodes.total_earnings
    paid,       \* token_transactions: sum of the completed payments
    added,      \* token_transactions: sum of the deposits and refunds
    payouts,    \* token_transactions: sum of the payouts
    pc, kind, amount,
    seen,       \* per call: the balance or the earnings it has read
    requests

rows == <<balance, earnings, paid, added, payouts>>
call == <<kind, amount>>
vars == <<rows, pc, call, seen, requests>>

Init ==
    /\ balance = NoUser /\ earnings = 0
    /\ paid = 0 /\ added = 0 /\ payouts = 0
    /\ pc = [h \in Handlers |-> "idle"]
    /\ kind = [h \in Handlers |-> "deposit"]
    /\ amount \in [Handlers -> {CHOOSE a \in Amounts : TRUE}]
    /\ seen = [h \in Handlers |-> 0]
    /\ requests = 0

Goto(h, l) == pc' = [pc EXCEPT ![h] = l]

-----------------------------------------------------------------------------
Call(h, k, a) ==
    /\ pc[h] = "idle"
    /\ requests < MaxRequests
    /\ requests' = requests + 1
    /\ kind' = [kind EXCEPT ![h] = k] /\ amount' = [amount EXCEPT ![h] = a]
    /\ Goto(h, IF k = "payment" THEN "limits" ELSE "begin")
    /\ UNCHANGED <<rows, seen>>

\* Mutant: the daily total leaves out the payment itself.
CheckLimitsBefore(h) ==
    /\ pc[h] = "limits"
    /\ \/ amount[h] > Single /\ Goto(h, "idle")
       \/ Daily > 0 /\ paid > Daily /\ Goto(h, "idle")
       \/ amount[h] <= Single /\ (Daily = 0 \/ paid <= Daily) /\ Goto(h, "begin")
    /\ UNCHANGED <<rows, call, seen, requests>>

\* isKYCRequired refuses more than the single limit; the daily limit is compared
\* with the sum of the day's completed payments.
CheckLimits(h) ==
    /\ pc[h] = "limits"
    /\ \/ amount[h] > Single /\ Goto(h, "idle")
       \/ Daily > 0 /\ paid + amount[h] > Daily /\ Goto(h, "idle")
       \/ amount[h] <= Single /\ (Daily = 0 \/ paid + amount[h] <= Daily) /\ Goto(h, "begin")
    /\ UNCHANGED <<rows, call, seen, requests>>

\* Mutant: "Insufficient balance" is not checked.
ReadBalanceUnchecked(h) ==
    /\ pc[h] = "begin"
    /\ seen' = [seen EXCEPT ![h] = IF kind[h] = "payout" THEN earnings ELSE balance]
    /\ Goto(h, IF balance = NoUser /\ kind[h] # "deposit" THEN "idle" ELSE "write")
    /\ UNCHANGED <<rows, call, requests>>

\* The SELECTs after BEGIN, and the errors they lead to: 'User not found' except
\* for a deposit, 'Insufficient balance' for a payment.
ReadBalance(h) ==
    /\ pc[h] = "begin"
    /\ seen' = [seen EXCEPT ![h] = IF kind[h] = "payout" THEN earnings ELSE balance]
    /\ \/ /\ \/ balance = NoUser /\ kind[h] # "deposit"
             \/ kind[h] = "payment" /\ balance < amount[h]
          /\ Goto(h, "idle")
       \/ /\ balance = NoUser => kind[h] = "deposit"
          /\ kind[h] = "payment" => balance >= amount[h]
          /\ Goto(h, "write")
    /\ UNCHANGED <<rows, call, requests>>

CommitDeposit(h) ==
    /\ pc[h] = "write" /\ kind[h] = "deposit"
    /\ \/ /\ seen[h] = NoUser /\ balance = NoUser
          /\ balance' = amount[h] /\ added' = added + amount[h]
       \/ /\ seen[h] = NoUser /\ balance # NoUser \* the INSERT finds the id taken
          /\ UNCHANGED <<balance, added>>
       \/ /\ seen[h] # NoUser
          /\ balance' = seen[h] + amount[h] /\ added' = added + amount[h]
    /\ Goto(h, "idle")
    /\ UNCHANGED <<earnings, paid, payouts, call, seen, requests>>

\* total_spent, which the same statement adds to, is paid.
CommitPayment(h) ==
    /\ pc[h] = "write" /\ kind[h] = "payment"
    /\ balance' = seen[h] - amount[h]
    /\ paid' = paid + amount[h]
    /\ Goto(h, "idle")
    /\ UNCHANGED <<earnings, added, payouts, call, seen, requests>>

CommitPayout(h) ==
    /\ pc[h] = "write" /\ kind[h] = "payout"
    /\ earnings' = seen[h] + amount[h]
    /\ payouts' = payouts + amount[h]
    /\ Goto(h, "idle")
    /\ UNCHANGED <<balance, paid, added, call, seen, requests>>

CommitRefund(h) ==
    /\ pc[h] = "write" /\ kind[h] = "refund"
    /\ balance' = seen[h] + amount[h]
    /\ added' = added + amount[h]
    /\ Goto(h, "idle")
    /\ UNCHANGED <<earnings, paid, payouts, call, seen, requests>>

\* A statement fails, or the process stops: ROLLBACK.
Abort(h) ==
    /\ pc[h] # "idle"
    /\ Goto(h, "idle")
    /\ UNCHANGED <<rows, call, seen, requests>>

Step(h) ==
    \/ CheckLimits(h) \/ ReadBalance(h)
    \/ CommitDeposit(h) \/ CommitPayment(h) \/ CommitPayout(h) \/ CommitRefund(h)
    \/ Abort(h)

Next ==
    \E h \in Handlers :
        \/ \E k \in Kinds, a \in Amounts : Call(h, k, a)
        \/ Step(h)

Spec == Init /\ [][Next]_vars

-----------------------------------------------------------------------------
\* The calls that have passed the limits and may still commit a payment.
Passed == {h \in Handlers : kind[h] = "payment" /\ pc[h] \in {"begin", "write"}}

\* No interleaving of reads and absolute writes takes the balance or the earnings
\* below zero, and a payment that is about to commit has read enough to cover it.
TypeOK ==
    /\ balance \in Nat \union {NoUser} /\ earnings \in Nat
    /\ paid \in Nat /\ added \in Nat /\ payouts \in Nat
    /\ pc \in [Handlers -> {"idle", "limits", "begin", "write"}]
    /\ kind \in [Handlers -> Kinds] /\ amount \in [Handlers -> Amounts]
    /\ seen \in [Handlers -> Nat \union {NoUser}]
    /\ requests \in Nat
    /\ \A h \in Handlers : pc[h] = "write" =>
          /\ kind[h] # "deposit" => seen[h] \in Nat
          /\ kind[h] = "payment" => seen[h] >= amount[h]
    /\ \A h \in Passed : amount[h] <= Single

\* The daily limit is checked before the transaction begins, against payments
\* that have committed.  Calls that race overrun it, but by no more than one
\* payment for each call in flight besides the last.
DailyOverrunBounded ==
    Daily > 0 => paid <= Daily + (Cardinality(Handlers) - 1) * Single

\* "Deduct from user balance": balance and earnings are what the recorded
\* transactions add up to.
LedgerBalances ==
    /\ balance # NoUser => balance = added - paid
    /\ earnings = payouts
=============================================================================
